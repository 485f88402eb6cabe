------------------------------ MODULE Delivery ------------------------------
(***************************************************************************)
(* The delivery of one finished job (internals/app/share, job_event): the  *)
(* operator mails the links again and switches them off and on, recipients *)
(* open them, and the job's history is written.                            *)
(*                                                                         *)
(* A limit is kept by counting events and recording one later, in two      *)
(* statements; the mail goes out between them.  An event counts for as     *)
(* long as it is fresh: an hour for mails, half an hour for views.         *)
(***************************************************************************)
EXTENDS Integers, Sequences, FiniteSets

CONSTANTS
  Handlers,    \* requests in progress at a time
  MaxResends,  \* maxResendsPerHour
  MaxSwitches, \* bound: events before the links are switched off
  MaxFaults    \* bound: events lost and crashes

VARIABLES
  off,         \* links_disabled of the job
  mailed,      \* fresh mails, by what became of their "resent" event
  late,        \* fresh "resent" events of mails that are not fresh any more
  views,       \* fresh "viewed" events
  switches,    \* the "links" events, in order; TRUE is off
  req,         \* what each handler is doing
  overlapped,  \* history: two switches at the same time
  faults       \* history: lost events and crashes

resends == <<mailed, late>>
events == <<views, switches>>
history == <<overlapped, faults>>
vars == <<off, resends, events, req, history>>

Idle == [at |-> "idle"]
Become(h, r) == req' = [req EXCEPT ![h] = r]
Fault == faults < MaxFaults /\ faults' = faults + 1

(* Fresh mails: recorded, not recorded, and on their way to be.            *)
OnTheWay == {h \in Handlers : req[h].at = "record" /\ req[h].fresh}
FreshMails == mailed.recorded + mailed.lost + Cardinality(OnTheWay)

(* CountSince.                                                             *)
Resent == mailed.recorded + late

Switching(h) == req[h].at \in {"set", "note"}

-----------------------------------------------------------------------------
(* Resend.                                                                 *)

MayResend == Resent < MaxResends

Resend(h) ==
  /\ req[h] = Idle
  /\ ~off
  /\ MayResend
  /\ Become(h, [at |-> "mail"])
  /\ UNCHANGED <<off, resends, events, history>>

(* PreviewReady; a mail that cannot be sent is answered as an error.       *)
MailLinks(h) ==
  /\ req[h].at = "mail"
  /\ Become(h, [at |-> "record", fresh |-> TRUE]) \/ Become(h, Idle)
  /\ UNCHANGED <<off, resends, events, history>>

RecordResend(h) ==
  /\ req[h].at = "record"
  /\ IF req[h].fresh THEN mailed' = [mailed EXCEPT !.recorded = @ + 1] /\ UNCHANGED late
                     ELSE late' = late + 1 /\ UNCHANGED mailed
  /\ Become(h, Idle)
  /\ UNCHANGED <<off, events, history>>

(* A mail whose event cannot be recorded does not count.                   *)
RecordFails(h) ==
  /\ req[h].at = "record"
  /\ Fault
  /\ mailed' = IF req[h].fresh THEN [mailed EXCEPT !.lost = @ + 1] ELSE mailed
  /\ Become(h, Idle)
  /\ UNCHANGED <<off, late, events, overlapped>>

-----------------------------------------------------------------------------
(* SetLinks.  HasPaidPayment is part of Payments.                          *)

Switched(to) == off # to

SetLinks(h, to) ==
  /\ req[h] = Idle
  /\ to => Len(switches) < MaxSwitches
  /\ Switched(to)
  /\ overlapped' = (overlapped \/ \E i \in Handlers : Switching(i))
  /\ Become(h, [at |-> "set", to |-> to])
  /\ UNCHANGED <<off, resends, events, faults>>

SetLinksDisabled(h) ==
  /\ req[h].at = "set"
  /\ off' = req[h].to
  /\ Become(h, [at |-> "note", to |-> req[h].to])
  /\ UNCHANGED <<resends, events, history>>

(* Mutant of RecordSwitch: the two kinds of event are swapped.             *)
RecordOpposite(h) ==
  /\ req[h].at = "note"
  /\ \/ switches' = Append(switches, ~req[h].to) /\ UNCHANGED faults
     \/ Fault /\ UNCHANGED switches
  /\ Become(h, Idle)
  /\ UNCHANGED <<off, resends, views, overlapped>>

RecordSwitch(h) ==
  /\ req[h].at = "note"
  /\ \/ switches' = Append(switches, req[h].to) /\ UNCHANGED faults
     \/ Fault /\ UNCHANGED switches
  /\ Become(h, Idle)
  /\ UNCHANGED <<off, resends, views, overlapped>>

-----------------------------------------------------------------------------
(* The recipient: a GET for the start of the file, on a link that is good. *)

Preview(h) ==
  /\ req[h] = Idle
  /\ ~off
  /\ Become(h, [at |-> "count"])
  /\ UNCHANGED <<off, resends, events, history>>

SeenLately == views > 0

(* RecordOnce counts, then records.                                        *)
CountViews(h) ==
  /\ req[h].at = "count"
  /\ Become(h, IF SeenLately THEN Idle ELSE [at |-> "view"])
  /\ UNCHANGED <<off, resends, events, history>>

RecordView(h) ==
  /\ req[h].at = "view"
  /\ views' = views + 1
  /\ Become(h, Idle)
  /\ UNCHANGED <<off, resends, switches, history>>

-----------------------------------------------------------------------------
(* Time passes: a mail is older than its event.                            *)
AgeMail ==
  /\ \/ /\ mailed.recorded > 0
        /\ mailed' = [mailed EXCEPT !.recorded = @ - 1] /\ late' = late + 1
        /\ UNCHANGED req
     \/ /\ mailed.lost > 0
        /\ mailed' = [mailed EXCEPT !.lost = @ - 1]
        /\ UNCHANGED <<late, req>>
     \/ /\ \E h \in OnTheWay : Become(h, [req[h] EXCEPT !.fresh = FALSE])
        /\ UNCHANGED resends
  /\ UNCHANGED <<off, events, history>>

AgeResent ==
  /\ late > 0
  /\ late' = late - 1
  /\ UNCHANGED <<off, mailed, events, req, history>>

AgeView ==
  /\ views > 0
  /\ views' = 0
  /\ UNCHANGED <<off, resends, switches, req, history>>

Crash ==
  /\ Fault
  /\ mailed' = [mailed EXCEPT !.lost = @ + Cardinality(OnTheWay)]
  /\ req' = [h \in Handlers |-> Idle]
  /\ UNCHANGED <<off, late, events, overlapped>>

Init ==
  /\ off = FALSE
  /\ mailed = [recorded |-> 0, lost |-> 0] /\ late = 0
  /\ views = 0
  /\ switches = <<>>
  /\ req = [h \in Handlers |-> Idle]
  /\ overlapped = FALSE /\ faults = 0

Request(h) == Resend(h) \/ Preview(h) \/ \E to \in BOOLEAN : SetLinks(h, to)

Step(h) ==
  \/ MailLinks(h) \/ RecordResend(h) \/ RecordFails(h) \/ SetLinksDisabled(h) \/ RecordSwitch(h)
  \/ CountViews(h) \/ RecordView(h)

Next ==
  \/ \E h \in Handlers : Request(h) \/ Step(h)
  \/ AgeMail \/ AgeResent \/ AgeView \/ Crash

Spec == Init /\ [][Next]_vars

-----------------------------------------------------------------------------
(* Every variable keeps its type.                                          *)
TypeOK ==
  /\ off \in BOOLEAN /\ overlapped \in BOOLEAN
  /\ mailed \in [recorded : Nat, lost : Nat] /\ late \in Nat
  /\ views \in Nat /\ faults \in 0 .. MaxFaults
  /\ switches \in Seq(BOOLEAN)

(* maxResendsPerHour: the mails of an hour pass it only by the requests    *)
(* that counted before another one recorded, and by the mails a request    *)
(* could not record.                                                       *)
ResendLimit ==
  FreshMails <= MaxResends + (Cardinality(Handlers) - 1) + faults * Cardinality(Handlers)

(* A viewing reads as one "opened": only requests that counted at the same *)
(* time record more than one in a window.                                  *)
OpenedOnce == views <= Cardinality(Handlers)

(* The history tells whether the links are on: its last word is the state  *)
(* of the job, once the switches are over, unless two of them overlapped   *)
(* or an event was lost.                                                   *)
HistoryTells ==
  \/ overlapped \/ faults > 0 \/ \E h \in Handlers : Switching(h)
  \/ off = (switches # <<>> /\ switches[Len(switches)])

(* ... and no event of the history repeats the one before it.              *)
Alternating ==
  overlapped \/ faults > 0 \/ \A i \in 1 .. Len(switches) - 1 : switches[i] # switches[i + 1]
=============================================================================
