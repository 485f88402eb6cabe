------------------------------- MODULE Media --------------------------------
(***************************************************************************)
(* The files of one account: uploads, deletions and downloads              *)
(* (internals/app/job/service.go, share/handler.go), the previews a worker *)
(* adds (internals/worker/process.go), the assets table and the blob store *)
(* (internals/storage/local.go).                                           *)
(*                                                                         *)
(* The table and the store are two systems: a request changes one, then    *)
(* the other, and may fail or die in between.  The limits of the account   *)
(* are read once, at the start of an upload.                               *)
(***************************************************************************)
EXTENDS Integers, FiniteSets, FiniteSetsExt

CONSTANTS
  Jobs,         \* bound: uploads
  Handlers,     \* requests in progress at a time
  MaxSize,      \* MaxSizeMiB
  JobsPerDay,
  StorageQuota, \* StorageQuotaMiB
  MaxFaults     \* bound: failures and crashes

Kinds == {"original", "preview"}
Keys == Jobs \X Kinds
PreviewSize == 1   \* abstracts what the encoder makes

VARIABLES
  status,     \* the jobs table
  recent,     \* jobs whose created_at is less than 24 hours ago
  asset,      \* the assets table: the key of each row
  size,       \* bytes of the original asset of each job
  files,      \* keys in the blob store
  req,        \* what each handler is doing
  work,       \* the job a worker holds and how far it is
  leaked,     \* history: keys whose file a failure or a crash left behind
  faults      \* history: failures and crashes so far

table == <<status, recent, asset, size>>
history == <<leaked, faults>>
vars == <<table, files, req, work, history>>

Idle == [at |-> "idle"]
NoWork == [at |-> "none"]

RowExists(j) == status[j] \notin {"absent", "gone"}
KeysOf(j) == {j} \X Kinds

(* StorageBytes: the sum over the rows of assets.                          *)
Bytes(k) == IF k[2] = "preview" THEN PreviewSize ELSE size[k[1]]
SumOfBytes(keys) == FoldSet(LAMBDA k, n : Bytes(k) + n, 0, keys)
StorageBytes == SumOfBytes(asset)

Fault == faults < MaxFaults /\ faults' = faults + 1

Become(h, r) == req' = [req EXCEPT ![h] = r]

(* Mutant of RemoveRow: nothing cascades.                                  *)
RemoveRowAlone(j) ==
  /\ status' = [status EXCEPT ![j] = "gone"]
  /\ recent' = recent \ {j}
  /\ UNCHANGED <<asset, size>>

(* DELETE of a job's row, which takes its assets with it.                  *)
RemoveRow(j) ==
  /\ status' = [status EXCEPT ![j] = "gone"]
  /\ recent' = recent \ {j}
  /\ asset' = asset \ KeysOf(j)
  /\ size' = [size EXCEPT ![j] = 0]

-----------------------------------------------------------------------------
(* Upload.                                                                 *)

UnderDailyLimit == Cardinality(recent) < JobsPerDay

(* The declared size is the client's word, so only an account already past *)
(* its quota is certain to be refused here.                                *)
CreateBegin(h) ==
  /\ req[h] = Idle
  /\ UnderDailyLimit
  /\ StorageBytes <= StorageQuota
  /\ Become(h, [at |-> "insert", used |-> StorageBytes])
  /\ UNCHANGED <<table, files, work, history>>

InsertJob(h, j) ==
  /\ req[h].at = "insert"
  /\ status[j] = "absent"
  /\ status' = [status EXCEPT ![j] = "pending"]
  /\ recent' = recent \cup {j}
  /\ Become(h, [at |-> "put", job |-> j, used |-> req[h].used])
  /\ UNCHANGED <<asset, size, files, work, history>>

InsertFails(h) ==
  /\ req[h].at = "insert"
  /\ Become(h, Idle)
  /\ UNCHANGED <<table, files, work, history>>

(* At most one byte more than allowed is read.                             *)
PutOriginal(h) ==
  /\ req[h].at = "put"
  /\ files' = files \cup {<<req[h].job, "original">>}
  /\ \E n \in 0 .. MaxSize + 1 :
       Become(h, [at |-> "verify", job |-> req[h].job, used |-> req[h].used, size |-> n])
  /\ UNCHANGED <<table, work, history>>

(* Nothing is stored, or what is stored cannot be told the size of.        *)
PutFails(h) ==
  /\ req[h].at = "put"
  /\ Fault
  /\ LET k == <<req[h].job, "original">> IN
     \/ UNCHANGED <<files, leaked>>
     \/ files' = files \cup {k} /\ leaked' = leaked \cup {k}
  /\ Become(h, [at |-> "dropRow", job |-> req[h].job])
  /\ UNCHANGED <<table, work>>

(* Mutant of WithinQuota: the client's word is enough.                     *)
QuotaTrusted(r) == TRUE

(* The usage is the one read at the start.                                 *)
WithinQuota(r) == r.used + r.size <= StorageQuota

(* The probe of the content may refuse any file.                           *)
Verify(h) ==
  /\ req[h].at = "verify"
  /\ \/ /\ req[h].size \in 1 .. MaxSize
        /\ WithinQuota(req[h])
        /\ Become(h, [at |-> "asset", job |-> req[h].job, size |-> req[h].size])
     \/ Become(h, [at |-> "dropFile", job |-> req[h].job])
  /\ UNCHANGED <<table, files, work, history>>

InsertAsset(h) ==
  /\ req[h].at = "asset"
  /\ RowExists(req[h].job)
  /\ asset' = asset \cup {<<req[h].job, "original">>}
  /\ size' = [size EXCEPT ![req[h].job] = req[h].size]
  /\ Become(h, Idle)
  /\ UNCHANGED <<status, recent, files, work, history>>

(* The foreign key refuses the row of a job that is gone.                  *)
AssetFails(h) ==
  /\ req[h].at = "asset"
  /\ ~RowExists(req[h].job)
  /\ Become(h, [at |-> "dropFile", job |-> req[h].job])
  /\ UNCHANGED <<table, files, work, history>>

(* rollback, best effort: the file, then the row.                          *)
DropFile(h) ==
  /\ req[h].at = "dropFile"
  /\ LET k == <<req[h].job, "original">> IN
     \/ files' = files \ {k} /\ UNCHANGED history
     \/ Fault /\ leaked' = leaked \cup {k} /\ UNCHANGED files
  /\ Become(h, [at |-> "dropRow", job |-> req[h].job])
  /\ UNCHANGED <<table, work>>

(* A row that stays behind without an original fails at the worker.        *)
DropRow(h) ==
  /\ req[h].at = "dropRow"
  /\ \/ RowExists(req[h].job) /\ RemoveRow(req[h].job) /\ UNCHANGED faults
     \/ ~RowExists(req[h].job) /\ UNCHANGED <<table, faults>>
     \/ Fault /\ UNCHANGED table
  /\ Become(h, Idle)
  /\ UNCHANGED <<files, work, leaked>>

-----------------------------------------------------------------------------
(* Delete.                                                                 *)

Listed(j) == asset \cap KeysOf(j)

DeleteBegin(h, j) ==
  /\ req[h] = Idle
  /\ RowExists(j)
  /\ Become(h, [at |-> "deleteRow", job |-> j, keys |-> Listed(j)])
  /\ UNCHANGED <<table, files, work, history>>

(* Mutant of NotProcessing: ErrBusy is not answered, the files go anyway.  *)
NoMatter(j) == TRUE

NotProcessing(j) == status[j] # "processing"

(* DeleteIfNotProcessing.  What was added since the list was read is       *)
(* nobody's any more.                                                      *)
DeleteRow(h) ==
  /\ req[h].at = "deleteRow"
  /\ RowExists(req[h].job)
  /\ NotProcessing(req[h].job)
  /\ IF status[req[h].job] # "processing" THEN RemoveRow(req[h].job) ELSE UNCHANGED table
  /\ leaked' = leaked \cup (Listed(req[h].job) \ req[h].keys)
  /\ Become(h, [at |-> "deleteFiles", keys |-> req[h].keys])
  /\ UNCHANGED <<files, work, faults>>

DeleteRefused(h) ==
  /\ req[h].at = "deleteRow"
  /\ RowExists(req[h].job) => status[req[h].job] = "processing"
  /\ Become(h, Idle)
  /\ UNCHANGED <<table, files, work, history>>

(* A file that does not go is logged.                                      *)
DeleteFile(h) ==
  /\ req[h].at = "deleteFiles"
  /\ \E k \in req[h].keys :
       /\ \/ files' = files \ {k} /\ UNCHANGED history
          \/ Fault /\ leaked' = leaked \cup {k} /\ UNCHANGED files
       /\ Become(h, [req[h] EXCEPT !.keys = @ \ {k}])
  /\ UNCHANGED <<table, work>>

DeleteDone(h) ==
  /\ req[h].at = "deleteFiles"
  /\ req[h].keys = {}
  /\ Become(h, Idle)
  /\ UNCHANGED <<table, files, work, history>>

-----------------------------------------------------------------------------
(* Download: the asset is looked up, then its file is opened.              *)

Resolve(h, k) ==
  /\ req[h] = Idle
  /\ k \in asset
  /\ Become(h, [at |-> "open", key |-> k])
  /\ UNCHANGED <<table, files, work, history>>

Serve(h) ==
  /\ req[h].at = "open"
  /\ Become(h, Idle)
  /\ UNCHANGED <<table, files, work, history>>

-----------------------------------------------------------------------------
(* One worker of the pool.                                                 *)

Claim(j) ==
  /\ work = NoWork
  /\ status[j] = "pending"
  /\ status' = [status EXCEPT ![j] = "processing"]
  /\ work' = [at |-> "encode", job |-> j]
  /\ UNCHANGED <<recent, asset, size, files, req, history>>

Holds(j, step) == work = [at |-> step, job |-> j]

Encode(j) ==
  /\ Holds(j, "encode")
  /\ <<j, "original">> \in asset \cap files
  /\ files' = files \cup {<<j, "preview">>}
  /\ work' = [at |-> "add", job |-> j]
  /\ UNCHANGED <<table, req, history>>

AddPreview(j) ==
  /\ Holds(j, "add")
  /\ RowExists(j)
  /\ asset' = asset \cup {<<j, "preview">>}
  /\ work' = [at |-> "done", job |-> j]
  /\ UNCHANGED <<status, recent, size, files, req, history>>

MarkDone(j) ==
  /\ Holds(j, "done")
  /\ status' = IF status[j] = "processing" THEN [status EXCEPT ![j] = "done"] ELSE status
  /\ work' = NoWork
  /\ UNCHANGED <<recent, asset, size, files, req, history>>

(* There is no original to read, no job to add to, or any step fails: the  *)
(* job is tried again or has failed.  A preview file without a row stays.  *)
Doomed(j) ==
  \/ Holds(j, "encode") /\ <<j, "original">> \notin asset \cap files
  \/ Holds(j, "add") /\ ~RowExists(j)

MarkError(j) ==
  /\ work # NoWork /\ work.job = j
  /\ IF Doomed(j) THEN UNCHANGED faults ELSE Fault
  /\ \E s \in {"pending", "failed"} :
       status' = IF RowExists(j) THEN [status EXCEPT ![j] = s] ELSE status
  /\ leaked' = leaked \cup ({<<j, "preview">>} \cap (files \ asset))
  /\ work' = NoWork
  /\ UNCHANGED <<recent, asset, size, files, req>>

(* A day passes for a job.                                                 *)
Age(j) ==
  /\ j \in recent
  /\ recent' = recent \ {j}
  /\ UNCHANGED <<status, asset, size, files, req, work, history>>

(* The process dies; ResetStuck returns what it held.  Files no row names, *)
(* and those a delete had still to remove, stay.                           *)
Crash ==
  /\ Fault
  /\ req' = [h \in Handlers |-> Idle]
  /\ work' = NoWork
  /\ status' = [j \in Jobs |-> IF status[j] = "processing" THEN "pending" ELSE status[j]]
  /\ leaked' = leaked \cup (files \ asset)
  /\ UNCHANGED <<recent, asset, size, files>>

Init ==
  /\ status = [j \in Jobs |-> "absent"]
  /\ recent = {} /\ asset = {} /\ files = {} /\ leaked = {} /\ faults = 0
  /\ size = [j \in Jobs |-> 0]
  /\ req = [h \in Handlers |-> Idle]
  /\ work = NoWork

Request(h) ==
  \/ CreateBegin(h)
  \/ \E j \in Jobs : InsertJob(h, j) \/ DeleteBegin(h, j)
  \/ \E k \in Keys : Resolve(h, k)

Step(h) ==
  \/ InsertFails(h) \/ PutOriginal(h) \/ PutFails(h) \/ Verify(h) \/ InsertAsset(h)
  \/ AssetFails(h) \/ DropFile(h) \/ DropRow(h)
  \/ DeleteRow(h) \/ DeleteRefused(h) \/ DeleteFile(h) \/ DeleteDone(h) \/ Serve(h)

Next ==
  \/ \E h \in Handlers : Request(h) \/ Step(h)
  \/ \E j \in Jobs : Claim(j) \/ Encode(j) \/ AddPreview(j) \/ MarkDone(j) \/ MarkError(j) \/ Age(j)
  \/ Crash

Spec == Init /\ [][Next]_vars

-----------------------------------------------------------------------------
(* Every variable keeps its type, and an asset belongs to a job that is    *)
(* there (the foreign key).                                                *)
TypeOK ==
  /\ status \in [Jobs -> {"absent", "pending", "processing", "done", "failed", "gone"}]
  /\ size \in [Jobs -> 0 .. MaxSize]
  /\ files \subseteq Keys /\ leaked \subseteq Keys
  /\ asset \subseteq {k \in Keys : RowExists(k[1])}
  /\ recent \subseteq {j \in Jobs : RowExists(j)}

(* service.go:346-348: a row of assets never names a file that is not      *)
(* there, whatever fails, dies or runs at the same time.                   *)
NoDangling == asset \subseteq files

(* The other way round, a file nobody names any more was left by a failed  *)
(* step, a crash, or a job deleted while a file was being added to it.     *)
NoOrphans ==
  \A k \in files \ asset :
    \/ k \in leaked
    \/ \E h \in Handlers :
         \/ req[h].at \in {"verify", "asset", "dropFile"} /\ k = <<req[h].job, "original">>
         \/ req[h].at = "deleteFiles" /\ k \in req[h].keys
    \/ Holds(k[1], "add") /\ k[2] = "preview"

(* A link that was found is answered with its file unless the job was      *)
(* deleted in the meantime.                                                *)
FoundIsServed ==
  \A h \in Handlers :
    req[h].at = "open" => req[h].key \in files \/ status[req[h].key[1]] = "gone"

(* The daily limit is read before the row is inserted: it can be passed by *)
(* the requests that read it at the same time, and no further.             *)
DailyLimit == Cardinality(recent) <= JobsPerDay + Cardinality(Handlers) - 1

(* The quota is checked against the usage at the start and what was        *)
(* stored: the originals go past it by one file for each other request.    *)
Quota ==
  SumOfBytes({k \in asset : k[2] = "original"})
    <= StorageQuota + (Cardinality(Handlers) - 1) * MaxSize
=============================================================================
