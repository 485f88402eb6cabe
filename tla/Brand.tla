------------------------------- MODULE Brand --------------------------------
(***************************************************************************)
(* The brand of one account (internals/app/brand): its row, its logo files *)
(* in the blob store, and the jobs whose snapshot names a logo.            *)
(*                                                                         *)
(* Every change reads the whole row, changes its copy and writes the copy; *)
(* a replaced logo file is deleted after that, unless an unfinished job    *)
(* still names it.  A logo's key is the hash of the picture, so the same   *)
(* picture uploaded again has the same key.                                *)
(***************************************************************************)
EXTENDS FiniteSets

CONSTANTS
  Logos,      \* pictures
  Jobs,       \* bound: uploads
  Handlers    \* requests in progress at a time

None == "none"

Row == [saved : BOOLEAN, logo : Logos \cup {None}, onboarded : BOOLEAN]

VARIABLES
  row,         \* the table row; saved is FALSE when there is none
  files,       \* logo files in the blob store
  job,         \* the uploads and the watermarking of each
  req,         \* what each handler is doing
  overlapped,  \* history: two requests changed the brand at the same time
  raced,       \* history: uploads that overlapped a change of the brand
  kept         \* history: files a request left behind

history == <<overlapped, raced, kept>>
vars == <<row, files, job, req, history>>

Defaults == [saved |-> FALSE, logo |-> None, onboarded |-> FALSE]
NoJob == [status |-> "none", logo |-> None, source |-> "none"]
Idle == [at |-> "idle"]

Become(h, r) == req' = [req EXCEPT ![h] = r]
Busy == {h \in Handlers : req[h] # Idle}
Uploading == {j \in Jobs : job[j].status = "uploading"}

Begins(h) ==
  /\ overlapped' = (overlapped \/ Busy # {})
  /\ raced' = raced \cup Uploading
  /\ UNCHANGED kept

-----------------------------------------------------------------------------
(* Requests that change the brand.  Update and CompleteOnboarding leave    *)
(* the logo of their copy alone.                                           *)

Begin(h, kind) ==
  /\ req[h] = Idle
  /\ Begins(h)
  /\ Become(h, [at |-> "load", kind |-> kind, logo |-> None])
  /\ UNCHANGED <<row, files, job>>

(* SetLogo writes the file before it reads the row.                        *)
SetLogo(h, l) ==
  /\ req[h] = Idle
  /\ Begins(h)
  /\ files' = files \cup {l}
  /\ Become(h, [at |-> "load", kind |-> "logo", logo |-> l])
  /\ UNCHANGED <<row, job>>

(* Mutant of Changed: the copy is made from the defaults.                  *)
ChangedAfresh(r) ==
  CASE r.kind = "update"     -> row
    [] r.kind = "onboarding" -> [row EXCEPT !.onboarded = TRUE]
    [] OTHER                 -> [Defaults EXCEPT !.saved = row.saved, !.logo = r.logo]

Changed(r) ==
  CASE r.kind = "update"     -> row
    [] r.kind = "onboarding" -> [row EXCEPT !.onboarded = TRUE]
    [] OTHER                 -> [row EXCEPT !.logo = r.logo]

Load(h) ==
  /\ req[h].at = "load"
  /\ Become(h, IF req[h].kind = "remove" /\ row.logo = None THEN Idle
               ELSE [at |-> "save", row |-> Changed(req[h]),
                     logo |-> req[h].logo, old |-> row.logo])
  /\ UNCHANGED <<row, files, job, history>>

(* Mutant of Replaced: a removed logo is not dropped.                      *)
ReplacedByAnother(r) == r.old # None /\ r.row.logo \notin {None, r.old}

(* dropLogo has something to drop.                                         *)
Replaced(r) == r.old \notin {None, r.row.logo}

(* A copy without an id is inserted, which the unique user_id refuses when *)
(* another request was first.                                              *)
Save(h) ==
  /\ req[h].at = "save"
  /\ req[h].row.saved \/ ~row.saved
  /\ row' = [req[h].row EXCEPT !.saved = TRUE]
  /\ Become(h, IF Replaced(req[h]) THEN [at |-> "check", old |-> req[h].old] ELSE Idle)
  /\ UNCHANGED <<files, job, history>>

(* The error is answered; a new picture stays where it is.                 *)
SaveFails(h) ==
  /\ req[h].at = "save"
  /\ kept' = (kept \cup {req[h].logo}) \ {None}
  /\ Become(h, Idle)
  /\ UNCHANGED <<row, files, job, overlapped, raced>>

(* Mutant of LogoInUse: only jobs a worker holds count.                    *)
LogoInWork(l) == \E j \in Jobs : job[j].status = "processing" /\ job[j].logo = l

LogoInUse(l) == \E j \in Jobs : job[j].status \in {"pending", "processing"} /\ job[j].logo = l

(* The file is kept if an unfinished job names it, or if that is not known *)
(* because the look failed.                                                *)
CheckUse(h) ==
  /\ req[h].at = "check"
  /\ \/ /\ ~LogoInUse(req[h].old)
        /\ Become(h, [at |-> "delete", old |-> req[h].old])
        /\ UNCHANGED history
     \/ /\ kept' = kept \cup {req[h].old}
        /\ Become(h, Idle)
        /\ UNCHANGED <<overlapped, raced>>
  /\ UNCHANGED <<row, files, job>>

(* A failure is only logged.                                               *)
DeleteOld(h) ==
  /\ req[h].at = "delete"
  /\ \/ files' = files \ {req[h].old} /\ UNCHANGED kept
     \/ kept' = kept \cup {req[h].old} /\ UNCHANGED files
  /\ Become(h, Idle)
  /\ UNCHANGED <<row, job, overlapped, raced>>

-----------------------------------------------------------------------------
(* Uploads and workers.                                                    *)

SetJob(j, status, source) ==
  job' = [job EXCEPT ![j].status = status, ![j].source = source]

Snapshot(j) ==
  /\ job[j] = NoJob
  /\ job' = [job EXCEPT ![j] = [NoJob EXCEPT !.status = "uploading", !.logo = row.logo]]
  /\ raced' = IF Busy = {} THEN raced \ {j} ELSE raced \cup {j}
  /\ UNCHANGED <<row, files, req, overlapped, kept>>

CreateJob(j) ==
  /\ job[j].status = "uploading"
  /\ SetJob(j, "pending", "none")
  /\ UNCHANGED <<row, files, req, history>>

(* A worker claims the job and looks for the logo of its snapshot.         *)
Process(j) ==
  /\ job[j].status = "pending"
  /\ SetJob(j, "processing", IF job[j].logo \in files THEN "logo" ELSE "text")
  /\ UNCHANGED <<row, files, req, history>>

(* The encoder reads the logo: it fails when the file is gone by then.     *)
Finish(j) ==
  /\ job[j].status = "processing"
  /\ job[j].source = "logo" => job[j].logo \in files
  /\ SetJob(j, "done", job[j].source)
  /\ UNCHANGED <<row, files, req, history>>

(* An attempt that fails is repeated or was the last one.                  *)
Fail(j) ==
  /\ job[j].status = "processing"
  /\ \E status \in {"pending", "failed"} : SetJob(j, status, "none")
  /\ UNCHANGED <<row, files, req, history>>

(* The process dies; what its workers held is pending again later on.      *)
Crash ==
  /\ req' = [h \in Handlers |-> Idle]
  /\ job' = [j \in Jobs |->
       CASE job[j].status = "uploading"  -> NoJob
         [] job[j].status = "processing" -> [job[j] EXCEPT !.status = "pending", !.source = "none"]
         [] OTHER                        -> job[j]]
  /\ kept' = IF Busy = {} THEN kept ELSE kept \cup files
  /\ UNCHANGED <<row, files, overlapped, raced>>

Init ==
  /\ row = Defaults
  /\ files = {}
  /\ job = [j \in Jobs |-> NoJob]
  /\ req = [h \in Handlers |-> Idle]
  /\ overlapped = FALSE /\ raced = {} /\ kept = {}

Request(h) ==
  \/ \E kind \in {"update", "onboarding", "remove"} : Begin(h, kind)
  \/ \E l \in Logos : SetLogo(h, l)

Step(h) == Load(h) \/ Save(h) \/ SaveFails(h) \/ CheckUse(h) \/ DeleteOld(h)

Next ==
  \/ \E h \in Handlers : Request(h) \/ Step(h)
  \/ \E j \in Jobs : Snapshot(j) \/ CreateJob(j) \/ Process(j) \/ Finish(j) \/ Fail(j)
  \/ Crash

Spec == Init /\ [][Next]_vars

-----------------------------------------------------------------------------
(* Every variable keeps its type; a job that is not being made or done has *)
(* burned nothing.                                                         *)
TypeOK ==
  /\ row \in Row
  /\ files \subseteq Logos /\ kept \subseteq Logos /\ raced \subseteq Jobs
  /\ overlapped \in BOOLEAN
  /\ \A j \in Jobs :
       /\ job[j].logo \in Logos \cup {None}
       /\ job[j].source # "none" <=> job[j].status \in {"processing", "done"}
       /\ job[j].source = "logo" => job[j].logo # None

(* The logo the brand names is on disk, whatever fails or dies in between, *)
(* as long as its changes were made one after the other.                   *)
LogoStored == row.logo # None => row.logo \in files \/ overlapped

(* A file uploaded under a logo is delivered with that logo, also when the *)
(* logo is replaced or removed before the watermark is made: the text in   *)
(* its place needs an upload or a change that ran into another change.     *)
Branded ==
  \A j \in Jobs :
    job[j].status = "done" /\ job[j].logo # None /\ job[j].source = "text"
      => overlapped \/ j \in raced

(* SetLogo: "only the current logo is kept", but for the files that an     *)
(* unfinished job, a failed step or a crash left behind.                   *)
OnlyCurrent == Busy = {} => files \subseteq kept \cup {row.logo} \/ overlapped

(* The welcome setup, once finished, is not shown again: only a change     *)
(* that ran into another one can take it back.                             *)
OnboardedOnce == [][row.onboarded => row'.onboarded \/ overlapped]_vars
=============================================================================
