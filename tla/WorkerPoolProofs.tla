-------------------------- MODULE WorkerPoolProofs --------------------------
(***************************************************************************)
(* Theorems about WorkerPool, for any number of jobs and processors, any   *)
(* batch size, retry budget and timeouts allowed by PoolAssumption, and    *)
(* any number of crashes and lost writes.                                  *)
(***************************************************************************)
EXTENDS WorkerPool, FiniteSetTheorems, SequenceTheorems, TLAPS

(* The parts of TypeOK: the rows, the dispatcher and the process around    *)
(* it, the processors.                                                     *)
RowTypes ==
  /\ status \in [Jobs -> Status]
  /\ attempts \in [Jobs -> 0..AttemptCap]
  /\ age \in [Jobs -> 0..StuckJobTimeout + 1]
  /\ wait \in [Jobs -> Nat]
  /\ original \subseteq Jobs
  /\ previews \in [Jobs -> Nat]
  /\ upload \in [Jobs -> {"none", "storing", "returned"}]
  /\ mailed \in [Jobs -> SUBSET (Nat \X (1..AttemptCap))]

FeederTypes ==
  /\ mode \in {"down", "up", "stopping"}
  /\ dispatcher \in {"off", "claim", "feed", "wait", "exited"}
  /\ batch \subseteq Claims
  /\ full \in BOOLEAN
  /\ queue \in Seq(Claims)
  /\ sinceReset \in 0..StuckJobTimeout
  /\ faults \in 0..MaxFaults

WorkerTypes ==
  /\ pc \in [Workers -> Phases]
  /\ task \in [Workers -> Claims \cup {NoClaim}]
  /\ elapsed \in [Workers -> 0..JobTimeout]
  /\ found \in [Workers -> Nat]

LEMMA TypeParts ==
  /\ TypeOK <=> RowTypes /\ FeederTypes /\ WorkerTypes
  /\ TypeOK' <=> RowTypes' /\ FeederTypes' /\ WorkerTypes'
  BY DEF TypeOK, RowTypes, FeederTypes, WorkerTypes

(* The backoff of every attempt is a number of ticks.                      *)
LEMMA BackoffType == ASSUME NEW att \in 1..AttemptCap
                     PROVE  Backoff(att) \in Nat
<1>1. Doubling \in [1..17 -> Nat]
  BY DEF Doubling
<1>2. QED
  BY <1>1, PoolAssumption DEF Backoff, AtMost

(* A statement that rewrites rows keeps the types of its two columns.      *)
LEMMA RewriteType ==
  ASSUME TypeOK, NEW S, NEW to \in Status, Rewrite(S, to)
  PROVE  /\ status' \in [Jobs -> Status]
         /\ age' \in [Jobs -> 0..StuckJobTimeout + 1]
BY PoolAssumption DEF Rewrite, TypeOK

LEMMA NoBackoffType ==
  ASSUME TypeOK, NEW S, NoBackoff(S)
  PROVE  wait' \in [Jobs -> Nat]
BY DEF NoBackoff, TypeOK

LEMMA ResetStuckType ==
  ASSUME TypeOK, ResetStuck
  PROVE  /\ status' \in [Jobs -> Status]
         /\ age' \in [Jobs -> 0..StuckJobTimeout + 1]
         /\ wait' \in [Jobs -> Nat]
         /\ attempts' \in [Jobs -> 0..AttemptCap]
<1>1. "pending" \in Status
  BY DEF Status
<1>2. QED
  BY <1>1, RewriteType, NoBackoffType DEF ResetStuck, TypeOK

LEMMA RemoveRowType ==
  ASSUME TypeOK, NEW j \in Jobs, RemoveRow(j)
  PROVE  /\ status' \in [Jobs -> Status]
         /\ age' \in [Jobs -> 0..StuckJobTimeout + 1]
         /\ wait' \in [Jobs -> Nat]
         /\ attempts' \in [Jobs -> 0..AttemptCap]
         /\ original' \subseteq Jobs
         /\ previews' \in [Jobs -> Nat]
<1>1. "deleted" \in Status
  BY DEF Status
<1>2. QED
  BY <1>1, RewriteType, NoBackoffType DEF RemoveRow, TypeOK

LEMMA ClaimPendingType ==
  ASSUME TypeOK, NEW S \in SUBSET Jobs, ClaimPending(S)
  PROVE  /\ status' \in [Jobs -> Status]
         /\ age' \in [Jobs -> 0..StuckJobTimeout + 1]
         /\ wait' \in [Jobs -> Nat]
         /\ attempts' \in [Jobs -> 0..AttemptCap]
         /\ \A j \in S : /\ attempts'[j] \in 1..AttemptCap
                         /\ attempts'[j] >= attempts[j]
         /\ \A j \in Jobs : attempts'[j] >= attempts[j]
<1>1. "processing" \in Status
  BY DEF Status
<1>2. status' \in [Jobs -> Status] /\ age' \in [Jobs -> 0..StuckJobTimeout + 1]
  BY <1>1, RewriteType DEF ClaimPending
<1>3. wait' \in [Jobs -> Nat]
  BY DEF ClaimPending, TypeOK
<1>4. ASSUME NEW n \in 0..AttemptCap
      PROVE  AtMost(n + 1, AttemptCap) \in 1..AttemptCap /\ AtMost(n + 1, AttemptCap) >= n
  BY PoolAssumption DEF AtMost
<1>5. \A j \in Jobs : attempts[j] \in 0..AttemptCap
  BY DEF TypeOK
<1>6. attempts' = [j \in Jobs |-> IF j \in S THEN AtMost(attempts[j] + 1, AttemptCap) ELSE attempts[j]]
  BY DEF ClaimPending
<1>7. \A j \in S : attempts'[j] \in 1..AttemptCap /\ attempts'[j] >= attempts[j]
  BY <1>4, <1>5, <1>6
<1>8. \A j \in Jobs : attempts'[j] >= attempts[j] /\ attempts'[j] \in 0..AttemptCap
  BY <1>4, <1>5, <1>6
<1>9. attempts' \in [Jobs -> 0..AttemptCap]
  BY <1>6, <1>8
<1>10. QED
  BY <1>2, <1>3, <1>7, <1>8, <1>9

LEMMA NextBatchType == NextBatch \subseteq Jobs
BY DEF NextBatch, Eligible
-----------------------------------------------------------------------------
(* Types, one lemma per kind of step.                                      *)

LEMMA RequestType == ASSUME TypeOK, Requests PROVE TypeOK'
<1> USE DEF TypeOK, assets, table, feeder, workers
<1>1. ASSUME NEW j \in Jobs, InsertJob(j) PROVE TypeOK'
  <2>1. "pending" \in Status
    BY DEF Status
  <2>2. status' \in [Jobs -> Status] /\ age' \in [Jobs -> 0..StuckJobTimeout + 1]
    BY <1>1, <2>1, RewriteType DEF InsertJob
  <2>3. QED
    BY <1>1, <2>2 DEF InsertJob
<1>2. ASSUME NEW j \in Jobs, InsertOriginal(j) PROVE TypeOK'
  BY <1>2 DEF InsertOriginal
<1>3. ASSUME NEW j \in Jobs, Rollback(j) PROVE TypeOK'
  <2>1. RemoveRow(j)
    BY <1>3 DEF Rollback
  <2>2. QED
    BY <1>3, <2>1, RemoveRowType DEF Rollback
<1>4. ASSUME NEW j \in Jobs, DeleteIfNotProcessing(j) PROVE TypeOK'
  <2>1. RemoveRow(j)
    BY <1>4 DEF DeleteIfNotProcessing
  <2>2. QED
    BY <1>4, <2>1, RemoveRowType DEF DeleteIfNotProcessing
<1>5. QED
  BY <1>1, <1>2, <1>3, <1>4 DEF Requests

LEMMA DispatchType == ASSUME TypeOK, Dispatch PROVE TypeOK'
<1> USE DEF TypeOK, assets, table, workers
<1>1. CASE Poll
  <2>1. CASE ResetStuck
    <3>1. /\ status' \in [Jobs -> Status]
          /\ age' \in [Jobs -> 0..StuckJobTimeout + 1]
          /\ wait' \in [Jobs -> Nat]
          /\ attempts' \in [Jobs -> 0..AttemptCap]
      BY <2>1, ResetStuckType
    <3>2. sinceReset' \in 0..StuckJobTimeout
      BY <1>1, PoolAssumption DEF Poll
    <3>3. QED
      BY <1>1, <3>1, <3>2 DEF Poll
  <2>2. CASE UNCHANGED <<table, sinceReset>>
    BY <1>1, <2>2 DEF Poll
  <2>3. QED
    BY <1>1, <2>1, <2>2 DEF Poll
<1>2. CASE Claim
  <2>1. ClaimPending(NextBatch) /\ NextBatch \in SUBSET Jobs
    BY <1>2, NextBatchType DEF Claim
  <2>2. \A j \in NextBatch : attempts'[j] \in 1..AttemptCap
    BY <2>1, ClaimPendingType
  <2>3. batch' \subseteq Claims
    BY <1>2, <2>1, <2>2 DEF Claim, Claims
  <2>4. QED
    BY <1>2, <2>1, <2>3, ClaimPendingType DEF Claim
<1>3. CASE ClaimLost
  <2>1. ClaimPending(NextBatch) /\ NextBatch \in SUBSET Jobs
    BY <1>3, NextBatchType DEF ClaimLost
  <2>2. faults' \in 0..MaxFaults
    BY <1>3, PoolAssumption DEF ClaimLost
  <2>3. QED
    BY <1>3, <2>1, <2>2, ClaimPendingType DEF ClaimLost
<1>4. ASSUME NEW c \in batch, Feed(c) PROVE TypeOK'
  <2>1. queue' \in Seq(Claims) /\ batch' \subseteq Claims
    BY <1>4 DEF Feed
  <2>2. dispatcher' \in {"feed", "claim", "wait"} /\ full' \in BOOLEAN
    BY <1>4 DEF Feed
  <2>3. RowTypes' /\ WorkerTypes'
    BY <1>4 DEF Feed, RowTypes, WorkerTypes
  <2>4. FeederTypes'
    BY <1>4, <2>1, <2>2 DEF Feed, FeederTypes
  <2>5. QED
    BY <2>3, <2>4, TypeParts
<1>5. CASE StopFeeding
  BY <1>5 DEF StopFeeding
<1>6. CASE CloseQueue
  BY <1>6, PoolAssumption DEF CloseQueue
<1>7. QED
  BY <1>1, <1>2, <1>3, <1>4, <1>5, <1>6 DEF Dispatch

LEMMA ProcessType == ASSUME TypeOK, NEW w \in Workers, BusyHasTask, Process(w) PROVE TypeOK'
<1> USE DEF TypeOK, assets, table, feeder
<1>0. pc[w] \notin {"idle", "exited"} => task[w] \in Claims /\ Job(w) \in Jobs
                                         /\ task[w].att \in 1..AttemptCap
  BY DEF BusyHasTask, Busy, Job, Claims
<1>1. CASE Receive(w)
  <2>1. Head(queue) \in Claims /\ Tail(queue) \in Seq(Claims)
    BY <1>1 DEF Receive
  <2>2. QED
    BY <1>1, <2>1 DEF Receive, Goto, Phases
<1>2. CASE WorkerExits(w)
  BY <1>2 DEF WorkerExits, Goto, Phases
<1>3. CASE LoadOriginal(w)
  BY <1>3 DEF LoadOriginal, Goto, Phases
<1>4. CASE Encode(w)
  BY <1>4 DEF Encode, Goto, Phases
<1>5. CASE LookupPreview(w)
  <2>1. AtMost(previews[Job(w)], 1) \in Nat
    BY <1>0, <1>5 DEF LookupPreview, AtMost
  <2>2. QED
    BY <1>5, <2>1 DEF LookupPreview, Goto, Phases
<1>6. CASE WritePreview(w)
  <2>1. Job(w) \in Jobs /\ previews[Job(w)] + 1 \in Nat
    BY <1>0, <1>6 DEF WritePreview
  <2>2. previews' \in [Jobs -> Nat] /\ found' \in [Workers -> Nat]
    <3>1. CASE found[w] = 0
      <4>1. /\ previews' = [previews EXCEPT ![Job(w)] = @ + 1]
            /\ found' = [found EXCEPT ![w] = previews[Job(w)] + 1]
        BY <1>6, <3>1 DEF WritePreview
      <4>2. QED
        BY <2>1, <4>1
    <3>2. CASE found[w] # 0
      BY <1>6, <3>2 DEF WritePreview
    <3>3. QED
      BY <3>1, <3>2
  <2>3. QED
    BY <1>6, <2>2 DEF WritePreview, Goto, Phases
<1>7. CASE Notify(w)
  <2>1. <<found[w], task[w].att>> \in Nat \X (1..AttemptCap)
    BY <1>0, <1>7 DEF Notify
  <2>2. mailed' \in [Jobs -> SUBSET (Nat \X (1..AttemptCap))]
    <3>1. CASE UNCHANGED mailed
      BY <3>1
    <3>2. CASE mailed' = [mailed EXCEPT ![Job(w)] = @ \cup {<<found[w], task[w].att>>}]
      BY <2>1, <3>2
    <3>3. QED
      BY <1>7, <3>1, <3>2 DEF Notify
  <2>3. QED
    BY <1>7, <2>2 DEF Notify, Goto, Phases
<1>8. CASE ProcessError(w)
  BY <1>8 DEF ProcessError, Goto, Phases
<1>9. Release(w) => /\ pc' \in [Workers -> Phases]
                    /\ task' \in [Workers -> Claims \cup {NoClaim}]
                    /\ elapsed' \in [Workers -> 0..JobTimeout]
                    /\ found' \in [Workers -> Nat]
  BY PoolAssumption DEF Release, Goto, Phases
<1>10. CASE RecordDone(w)
  <2>1. "done" \in Status
    BY DEF Status
  <2>2. status' \in [Jobs -> Status] /\ age' \in [Jobs -> 0..StuckJobTimeout + 1]
    BY <1>10, <2>1, RewriteType DEF RecordDone, MarkDone
  <2>3. QED
    BY <1>9, <1>10, <2>2 DEF RecordDone, MarkDone
<1>11. CASE RecordError(w)
  <2>1. "failed" \in Status /\ "pending" \in Status
    BY DEF Status
  <2>2. CASE MarkFailed(Job(w))
    <3>1. status' \in [Jobs -> Status] /\ age' \in [Jobs -> 0..StuckJobTimeout + 1]
      BY <2>1, <2>2, RewriteType DEF MarkFailed
    <3>2. QED
      BY <1>9, <1>11, <2>2, <3>1, NoBackoffType DEF RecordError, MarkFailed
  <2>3. CASE MarkForRetry(Job(w), Backoff(task[w].att))
    <3>1. status' \in [Jobs -> Status] /\ age' \in [Jobs -> 0..StuckJobTimeout + 1]
      BY <2>1, <2>3, RewriteType DEF MarkForRetry
    <3>2. Backoff(task[w].att) \in Nat
      BY <1>0, <1>11, BackoffType DEF RecordError
    <3>3. QED
      BY <1>9, <1>11, <2>3, <3>1, <3>2 DEF RecordError, MarkForRetry
  <2>4. QED
    BY <1>11, <2>2, <2>3 DEF RecordError
<1>12. CASE OutcomeLost(w)
  <2>1. faults' \in 0..MaxFaults
    BY <1>12, PoolAssumption DEF OutcomeLost
  <2>2. QED
    BY <1>9, <1>12, <2>1 DEF OutcomeLost
<1>13. QED
  BY <1>1, <1>2, <1>3, <1>4, <1>5, <1>6, <1>7, <1>8, <1>10, <1>11, <1>12 DEF Process

LEMMA LifeType == ASSUME TypeOK, Start \/ Crash \/ Stop \/ Exit \/ Tick PROVE TypeOK'
<1> USE DEF TypeOK, assets, table, feeder, workers
<1>1. CASE Start
  <2>1. ResetStuck
    BY <1>1 DEF Start
  <2>2. /\ status' \in [Jobs -> Status]
        /\ age' \in [Jobs -> 0..StuckJobTimeout + 1]
        /\ wait' \in [Jobs -> Nat]
        /\ attempts' \in [Jobs -> 0..AttemptCap]
    BY <2>1, ResetStuckType
  <2>3. sinceReset' \in 0..StuckJobTimeout /\ pc' \in [Workers -> Phases]
    BY <1>1, PoolAssumption DEF Start, Phases
  <2>4. QED
    BY <1>1, <2>2, <2>3 DEF Start
<1>2. ProcessDies /\ faults' \in 0..MaxFaults => TypeOK'
  <2> SUFFICES ASSUME ProcessDies, faults' \in 0..MaxFaults
               PROVE  TypeOK'
    OBVIOUS
  <2>1. sinceReset' \in 0..StuckJobTimeout /\ elapsed' \in [Workers -> 0..JobTimeout]
    BY PoolAssumption DEF ProcessDies
  <2>2. upload' \in [Jobs -> {"none", "storing", "returned"}]
    BY DEF ProcessDies
  <2>3. pc' \in [Workers -> Phases] /\ task' \in [Workers -> Claims \cup {NoClaim}]
    BY DEF ProcessDies, Phases
  <2>4. queue' \in Seq(Claims) /\ found' \in [Workers -> Nat]
    BY DEF ProcessDies
  <2>5. RowTypes'
    BY <2>2 DEF ProcessDies, RowTypes
  <2>6. FeederTypes'
    BY <2>1, <2>4 DEF ProcessDies, FeederTypes
  <2>7. WorkerTypes'
    BY <2>1, <2>3, <2>4 DEF ProcessDies, WorkerTypes
  <2>8. QED
    BY <2>5, <2>6, <2>7, TypeParts
<1>3. CASE Crash
  BY <1>2, <1>3, PoolAssumption DEF Crash
<1>4. CASE Stop
  <2>1. faults' \in 0..MaxFaults
    BY <1>4, PoolAssumption DEF Stop
  <2>2. UNCHANGED <<table, assets, upload, mailed, feeder, queue, workers>>
    BY <1>4 DEF Stop
  <2>3. mode' \in {"up", "stopping", "down"}
    BY <1>4 DEF Stop
  <2>4. RowTypes' /\ WorkerTypes'
    BY <2>2 DEF RowTypes, WorkerTypes
  <2>5. FeederTypes'
    BY <2>1, <2>2, <2>3 DEF FeederTypes
  <2>6. QED
    BY <2>4, <2>5, TypeParts
<1>5. CASE Exit
  BY <1>2, <1>5 DEF Exit
<1>6. CASE Tick
  <2>1. age' \in [Jobs -> 0..StuckJobTimeout + 1] /\ wait' \in [Jobs -> Nat]
    BY <1>6, PoolAssumption DEF Tick, AtMost
  <2>2. sinceReset' \in 0..StuckJobTimeout
    BY <1>6, PoolAssumption DEF Tick, AtMost
  <2>3. elapsed' \in [Workers -> 0..JobTimeout]
    BY <1>6, PoolAssumption DEF Tick
  <2>4. QED
    BY <1>6, <2>1, <2>2, <2>3 DEF Tick
<1>7. QED
  BY <1>1, <1>3, <1>4, <1>5, <1>6

LEMMA TypeCorrectNext == ASSUME TypeOK, BusyHasTask, [Next]_vars PROVE TypeOK'
<1>1. CASE UNCHANGED vars
  BY <1>1 DEF TypeOK, vars, table, assets, feeder, workers
<1>2. CASE Next
  BY <1>2, RequestType, DispatchType, ProcessType, LifeType DEF Next
<1>3. QED
  BY <1>1, <1>2
-----------------------------------------------------------------------------
(* What no step undoes: a row that was inserted stays inserted or stays    *)
(* deleted, attempts are only added, and previews go only with their job.  *)
TableGrows ==
  \A j \in Jobs :
    /\ status[j] # "absent" => status'[j] # "absent"
    /\ status[j] = "deleted" => status'[j] = "deleted"
    /\ attempts'[j] >= attempts[j]
    /\ status'[j] # "deleted" => previews'[j] >= previews[j]

LEMMA ResetStuckGrows ==
  ASSUME TypeOK, ResetStuck, UNCHANGED previews
  PROVE  TableGrows
BY DEF TypeOK, ResetStuck, Rewrite, Stuck, TableGrows

LEMMA RemoveRowGrows ==
  ASSUME TypeOK, NEW j \in Jobs, RemoveRow(j)
  PROVE  TableGrows
BY DEF TypeOK, RemoveRow, Rewrite, TableGrows

LEMMA ClaimPendingGrows ==
  ASSUME TypeOK, ClaimPending(NextBatch), UNCHANGED previews
  PROVE  TableGrows
<1>1. \A j \in Jobs : attempts'[j] >= attempts[j]
  BY NextBatchType, ClaimPendingType
<1>2. \A j \in NextBatch : status[j] = "pending"
  BY DEF NextBatch, Eligible
<1>3. QED
  BY <1>1, <1>2 DEF TypeOK, ClaimPending, Rewrite, TableGrows

LEMMA OutcomeGrows ==
  ASSUME TypeOK, BusyHasTask, NEW w \in Workers, RecordDone(w) \/ RecordError(w)
  PROVE  TableGrows
<1>1. UNCHANGED <<attempts, previews>>
  BY DEF RecordDone, RecordError, MarkDone, MarkFailed, MarkForRetry, assets
<1>2. \E S, to : /\ Rewrite(S, to)
                 /\ to \in {"done", "failed", "pending"}
                 /\ \A j \in S \cap Jobs : status[j] \notin {"absent", "deleted"}
  BY DEF RecordDone, RecordError, MarkDone, MarkFailed, MarkForRetry, RowExists
<1>3. QED
  BY <1>1, <1>2 DEF TypeOK, Rewrite, TableGrows

LEMMA NextGrows == ASSUME TypeOK, BusyHasTask, [Next]_vars PROVE TableGrows
<1> USE DEF table, assets
<1>1. UNCHANGED <<status, attempts, previews>> => TableGrows
  BY DEF TypeOK, TableGrows
<1>2. ASSUME NEW j \in Jobs,
             InsertJob(j) \/ InsertOriginal(j) \/ Rollback(j) \/ DeleteIfNotProcessing(j)
      PROVE  TableGrows
  <2>1. CASE InsertJob(j)
    BY <2>1 DEF InsertJob, Rewrite, TypeOK, TableGrows
  <2>2. CASE InsertOriginal(j)
    BY <1>1, <2>2 DEF InsertOriginal
  <2>3. CASE Rollback(j) \/ DeleteIfNotProcessing(j)
    BY <2>3, RemoveRowGrows DEF Rollback, DeleteIfNotProcessing
  <2>4. QED
    BY <1>2, <2>1, <2>2, <2>3
<1>3. CASE Dispatch
  <2>1. CASE Poll
    BY <1>1, <2>1, ResetStuckGrows DEF Poll
  <2>2. CASE Claim \/ ClaimLost
    BY <2>2, ClaimPendingGrows DEF Claim, ClaimLost
  <2>3. CASE (\E c \in batch : Feed(c)) \/ StopFeeding \/ CloseQueue
    BY <1>1, <2>3 DEF Feed, StopFeeding, CloseQueue
  <2>4. QED
    BY <1>3, <2>1, <2>2, <2>3 DEF Dispatch
<1>4. ASSUME NEW w \in Workers, Process(w) PROVE TableGrows
  <2>1. CASE WritePreview(w)
    <3>1. Job(w) \in Jobs
      BY <2>1 DEF WritePreview, BusyHasTask, Busy, Job, Claims
    <3>2. \A j \in Jobs : previews'[j] >= previews[j]
      <4>1. previews' = [previews EXCEPT ![Job(w)] = @ + 1] \/ previews' = previews
        BY <2>1 DEF WritePreview
      <4>2. previews \in [Jobs -> Nat]
        BY DEF TypeOK
      <4>3. CASE previews' = [previews EXCEPT ![Job(w)] = @ + 1]
        BY <3>1, <4>2, <4>3
      <4>4. CASE previews' = previews
        BY <4>2, <4>4
      <4>5. QED
        BY <4>1, <4>3, <4>4
    <3>3. QED
      BY <2>1, <3>2 DEF WritePreview, TypeOK, TableGrows
  <2>2. CASE RecordDone(w) \/ RecordError(w)
    BY <2>2, OutcomeGrows
  <2>3. CASE Receive(w) \/ WorkerExits(w) \/ LoadOriginal(w) \/ Encode(w)
               \/ LookupPreview(w) \/ Notify(w) \/ ProcessError(w) \/ OutcomeLost(w)
    BY <1>1, <2>3 DEF Receive, WorkerExits, LoadOriginal, Encode, LookupPreview, Notify,
                      ProcessError, OutcomeLost
  <2>4. QED
    BY <1>4, <2>1, <2>2, <2>3 DEF Process
<1>5. CASE Start
  BY <1>5, ResetStuckGrows DEF Start
<1>6. CASE Crash \/ Stop \/ Exit \/ Tick \/ UNCHANGED vars
  BY <1>1, <1>6 DEF Crash, Stop, Exit, ProcessDies, Tick, vars
<1>7. QED
  BY <1>2, <1>3, <1>4, <1>5, <1>6 DEF Next, Requests
-----------------------------------------------------------------------------
(* The parts of PoolInv, one lemma each.                                   *)

LEMMA BusyHasTaskStep ==
  ASSUME TypeOK, BusyHasTask, [Next]_vars
  PROVE  BusyHasTask'
<1> USE DEF BusyHasTask, Busy
<1>1. ASSUME NEW w \in Workers, Process(w) PROVE BusyHasTask'
  <2>1. CASE Receive(w)
    <3>1. Head(queue) \in Claims
      BY <2>1 DEF Receive, TypeOK
    <3>2. QED
      BY <2>1, <3>1 DEF Receive, Goto, TypeOK
  <2>2. CASE WorkerExits(w) \/ LoadOriginal(w) \/ Encode(w) \/ LookupPreview(w)
               \/ WritePreview(w) \/ Notify(w) \/ ProcessError(w)
    BY <2>2 DEF WorkerExits, LoadOriginal, Encode, LookupPreview, WritePreview, Notify,
                ProcessError, Goto, TypeOK
  <2>3. CASE RecordDone(w) \/ RecordError(w) \/ OutcomeLost(w)
    BY <2>3 DEF RecordDone, RecordError, OutcomeLost, Release, Goto, TypeOK
  <2>4. QED
    BY <1>1, <2>1, <2>2, <2>3 DEF Process
<1>2. CASE Start \/ Crash \/ Exit
  BY <1>2 DEF Start, Crash, Exit, ProcessDies
<1>3. CASE Requests \/ Dispatch \/ Stop \/ Tick \/ UNCHANGED vars
  BY <1>3 DEF Requests, InsertJob, InsertOriginal, Rollback, DeleteIfNotProcessing,
              Dispatch, Poll, Claim, ClaimLost, Feed, StopFeeding, CloseQueue, Stop, Tick,
              vars, workers
<1>4. QED
  BY <1>1, <1>2, <1>3 DEF Next

(* A claim in memory was there before, or was just made.                   *)
LEMMA ClaimedStep ==
  ASSUME TypeOK, BusyHasTask, [Next]_vars, NEW c \in Claimed'
  PROVE  \/ c \in Claimed
         \/ /\ Claim
            /\ c.job \in NextBatch
            /\ c.att = attempts'[c.job]
<1> USE DEF Claimed, Busy
<1>1. CASE Claim
  BY <1>1 DEF Claim, workers
<1>2. ASSUME NEW d \in batch, Feed(d) PROVE c \in Claimed
  <2>1. queue' = Append(queue, d) /\ d \in Claims /\ queue \in Seq(Claims)
    BY <1>2 DEF Feed, TypeOK
  <2>2. \A i \in DOMAIN queue' : queue'[i] \in {d} \cup {queue[k] : k \in DOMAIN queue}
    BY <2>1
  <2>3. batch' \subseteq batch /\ UNCHANGED <<pc, task>>
    BY <1>2 DEF Feed, workers
  <2>4. QED
    BY <1>2, <2>2, <2>3
<1>3. ASSUME NEW w \in Workers, Process(w) PROVE c \in Claimed
  <2>1. UNCHANGED batch
    BY <1>3 DEF Process, Receive, WorkerExits, LoadOriginal, Encode, LookupPreview,
                WritePreview, Notify, ProcessError, RecordDone, RecordError, OutcomeLost, feeder
  <2>2. CASE Receive(w)
    <3>1. queue \in Seq(Claims) /\ queue # <<>> /\ queue' = Tail(queue)
      BY <2>2 DEF Receive, TypeOK
    <3>2. \A i \in DOMAIN queue' : queue'[i] \in {queue[k] : k \in DOMAIN queue}
      BY <3>1
    <3>3. Head(queue) \in {queue[k] : k \in DOMAIN queue}
      BY <3>1
    <3>4. \A v \in Workers : pc'[v] \notin {"idle", "exited"} =>
            \/ task'[v] = Head(queue)
            \/ pc[v] \notin {"idle", "exited"} /\ task'[v] = task[v]
      BY <2>2 DEF Receive, Goto, TypeOK
    <3>5. QED
      BY <2>1, <3>2, <3>3, <3>4
  <2>3. CASE ~ Receive(w)
    <3>1. /\ UNCHANGED queue
          /\ \A v \in Workers : pc'[v] \notin {"idle", "exited"} =>
               pc[v] \notin {"idle", "exited"} /\ task'[v] = task[v]
      <4>1. CASE WorkerExits(w) \/ LoadOriginal(w) \/ Encode(w) \/ LookupPreview(w)
                   \/ WritePreview(w) \/ Notify(w) \/ ProcessError(w)
        BY <4>1 DEF WorkerExits, LoadOriginal, Encode, LookupPreview, WritePreview, Notify,
                    ProcessError, Goto, TypeOK
      <4>2. CASE RecordDone(w) \/ RecordError(w) \/ OutcomeLost(w)
        BY <4>2 DEF RecordDone, RecordError, OutcomeLost, Release, Goto, TypeOK
      <4>3. QED
        BY <1>3, <2>3, <4>1, <4>2 DEF Process
    <3>2. QED
      BY <2>1, <3>1
  <2>4. QED
    BY <2>2, <2>3
<1>4. CASE Start
  BY <1>4 DEF Start
<1>5. CASE Crash \/ Exit
  <2>1. batch' = {} /\ queue' = <<>> /\ \A v \in Workers : pc'[v] = "exited"
    BY <1>5 DEF Crash, Exit, ProcessDies
  <2>2. QED
    BY <2>1
<1>6. CASE StopFeeding
  BY <1>6 DEF StopFeeding, workers
<1>7. CASE Requests \/ Poll \/ ClaimLost \/ CloseQueue \/ Stop \/ Tick \/ UNCHANGED vars
  <2>1. UNCHANGED <<batch, queue, pc, task>>
    BY <1>7 DEF Requests, InsertJob, InsertOriginal, Rollback, DeleteIfNotProcessing,
                Poll, ClaimLost, CloseQueue, Stop, Tick, vars, workers, feeder
  <2>2. QED
    BY <2>1
<1>8. QED
  BY <1>1, <1>2, <1>3, <1>4, <1>5, <1>6, <1>7 DEF Next, Dispatch

LEMMA ClaimedType == ASSUME TypeOK, BusyHasTask PROVE Claimed \subseteq Claims
BY DEF TypeOK, BusyHasTask, Claimed

LEMMA ClaimsCountedStep ==
  ASSUME TypeOK, BusyHasTask, ClaimsCounted, [Next]_vars
  PROVE  ClaimsCounted'
<1> SUFFICES ASSUME NEW c \in Claimed'
             PROVE  status'[c.job] # "absent" /\ c.att <= attempts'[c.job]
  BY DEF ClaimsCounted
<1>1. TableGrows
  BY NextGrows
<1>2. TypeOK'
  BY TypeCorrectNext
<1>3. \A j \in Jobs : attempts[j] \in Int /\ attempts'[j] \in Int
  BY <1>2, PoolAssumption DEF TypeOK
<1>4. CASE c \in Claimed
  <2>1. c \in Claims
    BY <1>4, ClaimedType
  <2>2. c.job \in Jobs /\ c.att \in Int
    BY <2>1, PoolAssumption DEF Claims
  <2>3. status[c.job] # "absent" /\ c.att <= attempts[c.job]
    BY <1>4 DEF ClaimsCounted
  <2>4. status'[c.job] # "absent" /\ attempts'[c.job] >= attempts[c.job]
    BY <1>1, <2>2, <2>3 DEF TableGrows
  <2>5. QED
    BY <1>3, <2>2, <2>3, <2>4
<1>5. CASE Claim /\ c.job \in NextBatch /\ c.att = attempts'[c.job]
  <2>1. c.job \in Jobs
    BY <1>5, NextBatchType
  <2>2. status'[c.job] = "processing"
    BY <1>5, <2>1 DEF Claim, ClaimPending, Rewrite
  <2>3. QED
    BY <1>3, <1>5, <2>1, <2>2
<1>6. QED
  BY <1>4, <1>5, ClaimedStep

(* How a processor comes to hold a preview row.                            *)
LEMMA HasPreviewStep ==
  ASSUME TypeOK, [Next]_vars, NEW w \in Workers, HasPreview(w)'
  PROVE  \/ HasPreview(w) /\ UNCHANGED <<task[w], found[w]>>
         \/ LookupPreview(w)
         \/ WritePreview(w) /\ found[w] = 0
<1> USE DEF HasPreview
<1>1. ASSUME NEW v \in Workers, Process(v), v # w
      PROVE  UNCHANGED <<pc[w], task[w], found[w]>>
  <2>1. CASE Receive(v) \/ WorkerExits(v) \/ LoadOriginal(v) \/ Encode(v)
               \/ LookupPreview(v) \/ WritePreview(v) \/ Notify(v) \/ ProcessError(v)
    BY <1>1, <2>1 DEF Receive, WorkerExits, LoadOriginal, Encode, LookupPreview,
                      WritePreview, Notify, ProcessError, Goto, TypeOK
  <2>2. CASE RecordDone(v) \/ RecordError(v) \/ OutcomeLost(v)
    BY <1>1, <2>2 DEF RecordDone, RecordError, OutcomeLost, Release, Goto, TypeOK
  <2>3. QED
    BY <1>1, <2>1, <2>2 DEF Process
<1>2. CASE Process(w)
  <2>1. CASE Receive(w) \/ WorkerExits(w) \/ LoadOriginal(w) \/ Encode(w) \/ ProcessError(w)
    BY <2>1 DEF Receive, WorkerExits, LoadOriginal, Encode, ProcessError, Goto, TypeOK
  <2>2. CASE WritePreview(w)
    BY <2>2 DEF WritePreview
  <2>3. CASE Notify(w)
    BY <2>3 DEF Notify
  <2>4. CASE RecordDone(w) \/ RecordError(w) \/ OutcomeLost(w)
    BY <2>4 DEF RecordDone, RecordError, OutcomeLost, Release, Goto, TypeOK
  <2>5. QED
    BY <1>2, <2>1, <2>2, <2>3, <2>4 DEF Process
<1>3. CASE Start \/ Crash \/ Exit
  BY <1>3 DEF Start, Crash, Exit, ProcessDies
<1>4. CASE Requests \/ Dispatch \/ Stop \/ Tick \/ UNCHANGED vars
  BY <1>4 DEF Requests, InsertJob, InsertOriginal, Rollback, DeleteIfNotProcessing,
              Dispatch, Poll, Claim, ClaimLost, Feed, StopFeeding, CloseQueue, Stop, Tick,
              vars, workers
<1>5. QED
  BY <1>1, <1>2, <1>3, <1>4 DEF Next

(* A busy processor's job is a row that exists or was deleted, and the     *)
(* claim never counts more attempts than the row.                          *)
LEMMA HeldJob ==
  ASSUME TypeOK, BusyHasTask, ClaimsCounted, NEW w \in Workers, Busy(w)
  PROVE  /\ Job(w) \in Jobs
         /\ status[Job(w)] # "absent"
         /\ task[w].att \in Nat
         /\ task[w].att <= attempts[Job(w)]
<1>1. task[w] \in Claims /\ task[w] \in Claimed
  BY DEF BusyHasTask, Claimed
<1>2. QED
  BY <1>1, PoolAssumption DEF ClaimsCounted, Claims, Job

LEMMA FoundPreviewStep ==
  ASSUME TypeOK, PoolInv, [Next]_vars
  PROVE  FoundPreview'
<1> SUFFICES ASSUME NEW w \in Workers, HasPreview(w)', RowExists(Job(w))'
             PROVE  (found[w] \in 1..previews[Job(w)])'
  BY DEF FoundPreview
<1>1. TableGrows
  BY NextGrows DEF PoolInv
<1>2. TypeOK'
  BY TypeCorrectNext DEF PoolInv
<1>3. \A j \in Jobs : previews[j] \in Nat /\ previews'[j] \in Nat
  BY <1>2 DEF TypeOK
<1>4. CASE HasPreview(w) /\ UNCHANGED <<task[w], found[w]>>
  <2>1. Job(w) \in Jobs /\ status[Job(w)] # "absent"
    BY <1>4, HeldJob DEF PoolInv, HasPreview, Busy
  <2>2. status'[Job(w)] \notin {"absent", "deleted"}
    BY <1>4 DEF RowExists, Job
  <2>3. RowExists(Job(w)) /\ previews'[Job(w)] >= previews[Job(w)]
    BY <1>1, <2>1, <2>2 DEF TableGrows, RowExists
  <2>4. found[w] \in 1..previews[Job(w)]
    BY <1>4, <2>3 DEF PoolInv, FoundPreview
  <2>5. found[w] \in 1..previews'[Job(w)]
    BY <1>3, <2>1, <2>3, <2>4
  <2>6. QED
    BY <1>4, <2>5 DEF Job
<1>5. CASE LookupPreview(w)
  <2>1. Job(w) \in Jobs
    BY <1>5, HeldJob DEF PoolInv, LookupPreview, Busy
  <2>2. /\ found'[w] = AtMost(previews[Job(w)], 1)
        /\ pc'[w] = "write"
        /\ UNCHANGED <<previews, task>>
    BY <1>5 DEF LookupPreview, Goto, TypeOK, assets
  <2>3. AtMost(previews[Job(w)], 1) # 0
    BY <2>2 DEF HasPreview
  <2>4. AtMost(previews[Job(w)], 1) \in 1..previews[Job(w)]
    BY <1>3, <2>1, <2>3 DEF AtMost
  <2>5. QED
    BY <2>2, <2>4 DEF Job
<1>6. CASE WritePreview(w) /\ found[w] = 0
  <2>1. Job(w) \in Jobs
    BY <1>6, HeldJob DEF PoolInv, WritePreview, Busy
  <2>2. /\ found'[w] = previews[Job(w)] + 1
        /\ previews'[Job(w)] = previews[Job(w)] + 1
        /\ UNCHANGED task
    BY <1>6, <2>1 DEF WritePreview, TypeOK
  <2>3. QED
    BY <1>3, <2>1, <2>2 DEF Job
<1>7. QED
  BY <1>4, <1>5, <1>6, HasPreviewStep

(* How a row comes to be done or failed.                                   *)
LEMMA SettledStep ==
  ASSUME TypeOK, BusyHasTask, [Next]_vars, NEW j \in Jobs, status'[j] \in {"done", "failed"}
  PROVE  \/ status'[j] = status[j]
         \/ \E w \in Workers :
              \/ RecordDone(w) /\ Job(w) = j /\ status[j] = "processing" /\ status'[j] = "done"
              \/ RecordError(w) /\ Job(w) = j /\ task[w].att > MaxRetries /\ status'[j] = "failed"
<1> USE DEF table
<1>1. ASSUME NEW S, NEW to \in Status \ {"done", "failed"}, Rewrite(S, to)
      PROVE  status'[j] = status[j]
  BY <1>1 DEF Rewrite
<1>2. "pending" \in Status \ {"done", "failed"} /\ "processing" \in Status \ {"done", "failed"}
      /\ "deleted" \in Status \ {"done", "failed"}
  BY DEF Status
<1>3. CASE Requests
  BY <1>1, <1>2, <1>3 DEF Requests, InsertJob, InsertOriginal, Rollback,
                          DeleteIfNotProcessing, RemoveRow
<1>4. CASE Dispatch
  BY <1>1, <1>2, <1>4 DEF Dispatch, Poll, Claim, ClaimLost, Feed, StopFeeding, CloseQueue,
                          ClaimPending, ResetStuck
<1>5. ASSUME NEW w \in Workers, Process(w)
      PROVE  \/ status'[j] = status[j]
             \/ RecordDone(w) /\ Job(w) = j /\ status[j] = "processing" /\ status'[j] = "done"
             \/ RecordError(w) /\ Job(w) = j /\ task[w].att > MaxRetries /\ status'[j] = "failed"
  <2>1. CASE RecordDone(w)
    BY <2>1 DEF RecordDone, MarkDone, Rewrite
  <2>2. CASE RecordError(w)
    <3>1. CASE task[w].att > MaxRetries /\ MarkFailed(Job(w))
      BY <2>2, <3>1 DEF MarkFailed, Rewrite
    <3>2. CASE MarkForRetry(Job(w), Backoff(task[w].att))
      BY <1>1, <1>2, <3>2 DEF MarkForRetry
    <3>3. QED
      BY <2>2, <3>1, <3>2 DEF RecordError
  <2>3. CASE Receive(w) \/ WorkerExits(w) \/ LoadOriginal(w) \/ Encode(w)
               \/ LookupPreview(w) \/ WritePreview(w) \/ Notify(w) \/ ProcessError(w)
               \/ OutcomeLost(w)
    BY <2>3 DEF Receive, WorkerExits, LoadOriginal, Encode, LookupPreview, WritePreview,
                Notify, ProcessError, OutcomeLost
  <2>4. QED
    BY <1>5, <2>1, <2>2, <2>3 DEF Process
<1>6. CASE Start
  BY <1>1, <1>2, <1>6 DEF Start, ResetStuck
<1>7. CASE Crash \/ Stop \/ Exit \/ Tick \/ UNCHANGED vars
  BY <1>7 DEF Crash, Stop, Exit, ProcessDies, Tick, vars
<1>8. QED
  BY <1>3, <1>4, <1>5, <1>6, <1>7 DEF Next

LEMMA DoneHasPreviewStep ==
  ASSUME TypeOK, PoolInv, [Next]_vars
  PROVE  DoneHasPreview'
<1> SUFFICES ASSUME NEW j \in Jobs, status'[j] = "done"
             PROVE  previews'[j] >= 1
  BY DEF DoneHasPreview
<1>1. TypeOK'
  BY TypeCorrectNext DEF PoolInv
<1>2. previews[j] \in Nat /\ previews'[j] \in Nat
  BY <1>1 DEF TypeOK
<1>3. TableGrows
  BY NextGrows DEF PoolInv
<1>4. previews'[j] >= previews[j]
  BY <1>3 DEF TableGrows
<1>5. previews[j] >= 1
  <2>1. CASE status[j] = "done"
    BY <2>1 DEF PoolInv, DoneHasPreview
  <2>2. ASSUME NEW w \in Workers, RecordDone(w), Job(w) = j, status[j] = "processing"
        PROVE  previews[j] >= 1
    <3>1. HasPreview(w) /\ RowExists(Job(w))
      BY <2>2 DEF RecordDone, HasPreview, RowExists
    <3>2. found[w] \in 1..previews[j]
      BY <2>2, <3>1 DEF PoolInv, FoundPreview
    <3>3. QED
      BY <1>2, <3>2
  <2>3. QED
    BY <2>1, <2>2, SettledStep DEF PoolInv
<1>6. QED
  BY <1>2, <1>4, <1>5

LEMMA FailedExhaustedStep ==
  ASSUME TypeOK, PoolInv, [Next]_vars
  PROVE  FailedExhausted'
<1> SUFFICES ASSUME NEW j \in Jobs, status'[j] = "failed"
             PROVE  attempts'[j] > MaxRetries
  BY DEF FailedExhausted
<1>1. TypeOK'
  BY TypeCorrectNext DEF PoolInv
<1>2. attempts[j] \in Int /\ attempts'[j] \in Int
  BY <1>1, PoolAssumption DEF TypeOK
<1>3. TableGrows
  BY NextGrows DEF PoolInv
<1>4. attempts'[j] >= attempts[j]
  BY <1>3 DEF TableGrows
<1>5. attempts[j] > MaxRetries
  <2>1. CASE status[j] = "failed"
    BY <2>1 DEF PoolInv, FailedExhausted
  <2>2. ASSUME NEW w \in Workers, RecordError(w), Job(w) = j, task[w].att > MaxRetries
        PROVE  attempts[j] > MaxRetries
    <3>1. task[w].att \in Nat /\ task[w].att <= attempts[j]
      BY <2>2, HeldJob DEF PoolInv, RecordError, Busy
    <3>2. QED
      BY <1>2, <2>2, <3>1, PoolAssumption
  <2>3. QED
    BY <2>1, <2>2, SettledStep DEF PoolInv
<1>6. QED
  BY <1>2, <1>4, <1>5, PoolAssumption

(* Only Notify sends mail.                                                 *)
LEMMA MailedStep ==
  ASSUME TypeOK, [Next]_vars
  PROVE  \/ mailed' = mailed
         \/ \E w \in Workers :
              /\ Notify(w)
              /\ mailed' = [mailed EXCEPT ![Job(w)] = @ \cup {<<found[w], task[w].att>>}]
<1>1. CASE Requests \/ Dispatch
  BY <1>1 DEF Requests, InsertJob, InsertOriginal, Rollback, DeleteIfNotProcessing,
              Dispatch, Poll, Claim, ClaimLost, Feed, StopFeeding, CloseQueue
<1>2. ASSUME NEW w \in Workers, Process(w)
      PROVE  \/ mailed' = mailed
             \/ /\ Notify(w)
                /\ mailed' = [mailed EXCEPT ![Job(w)] = @ \cup {<<found[w], task[w].att>>}]
  <2>1. CASE Notify(w)
    BY <2>1 DEF Notify
  <2>2. CASE ~ Notify(w)
    BY <1>2, <2>2 DEF Process, Receive, WorkerExits, LoadOriginal, Encode, LookupPreview,
                      WritePreview, ProcessError, RecordDone, RecordError, OutcomeLost
  <2>3. QED
    BY <2>1, <2>2
<1>3. CASE Start \/ Crash \/ Stop \/ Exit \/ Tick \/ UNCHANGED vars
  BY <1>3 DEF Start, Crash, Stop, Exit, ProcessDies, Tick, vars
<1>4. QED
  BY <1>1, <1>2, <1>3 DEF Next

LEMMA LinksResolveStep ==
  ASSUME TypeOK, PoolInv, [Next]_vars
  PROVE  LinksResolve'
<1> SUFFICES ASSUME NEW j \in Jobs, status'[j] # "deleted", NEW m \in mailed'[j]
             PROVE  m[1] \in 1..previews'[j]
  BY DEF LinksResolve
<1>1. TypeOK'
  BY TypeCorrectNext DEF PoolInv
<1>2. previews[j] \in Nat /\ previews'[j] \in Nat
  BY <1>1 DEF TypeOK
<1>3. TableGrows
  BY NextGrows DEF PoolInv
<1>4. status[j] # "deleted" /\ previews'[j] >= previews[j]
  BY <1>3 DEF TableGrows
<1>5. m[1] \in 1..previews[j]
  <2>1. CASE m \in mailed[j]
    BY <1>4, <2>1 DEF PoolInv, LinksResolve
  <2>2. CASE m \notin mailed[j]
    <3>1. PICK w \in Workers :
            /\ Notify(w)
            /\ mailed' = [mailed EXCEPT ![Job(w)] = @ \cup {<<found[w], task[w].att>>}]
      BY <2>2, MailedStep
    <3>2. Job(w) = j /\ m = <<found[w], task[w].att>>
      BY <2>2, <3>1 DEF TypeOK
    <3>3. status[j] # "absent"
      BY <3>1, <3>2, HeldJob DEF PoolInv, Notify, Busy
    <3>4. HasPreview(w) /\ RowExists(Job(w))
      BY <1>4, <3>1, <3>2, <3>3 DEF Notify, HasPreview, RowExists
    <3>5. found[w] \in 1..previews[j]
      BY <3>2, <3>4 DEF PoolInv, FoundPreview
    <3>6. QED
      BY <3>2, <3>5
  <2>3. QED
    BY <2>1, <2>2
<1>6. QED
  BY <1>2, <1>4, <1>5
-----------------------------------------------------------------------------
(* The inductive invariant.                                                *)
IInv == TypeOK /\ PoolInv

LEMMA InitInv == Init => IInv
<1> SUFFICES ASSUME Init PROVE IInv
  OBVIOUS
<1>1. TypeOK
  <2>1. /\ age \in [Jobs -> 0..StuckJobTimeout + 1]
        /\ attempts \in [Jobs -> 0..AttemptCap]
        /\ sinceReset \in 0..StuckJobTimeout
        /\ faults \in 0..MaxFaults
    BY PoolAssumption DEF Init
  <2>2. elapsed \in [Workers -> 0..JobTimeout] /\ task \in [Workers -> Claims \cup {NoClaim}]
    BY PoolAssumption DEF Init
  <2>3. status \in [Jobs -> Status] /\ pc \in [Workers -> Phases]
    BY DEF Init, Status, Phases
  <2>4. queue \in Seq(Claims) /\ mailed \in [Jobs -> SUBSET (Nat \X (1..AttemptCap))]
    BY DEF Init
  <2>5. QED
    BY <2>1, <2>2, <2>3, <2>4 DEF Init, TypeOK
<1>2. Claimed = {} /\ \A w \in Workers : pc[w] = "exited"
  BY DEF Init, Claimed, Busy
<1>3. QED
  BY <1>1, <1>2 DEF Init, IInv, PoolInv, BusyHasTask, Busy, ClaimsCounted, FoundPreview,
                    HasPreview, DoneHasPreview, FailedExhausted, LinksResolve

LEMMA NextInv == IInv /\ [Next]_vars => IInv'
<1> SUFFICES ASSUME TypeOK, PoolInv, [Next]_vars PROVE IInv'
  BY DEF IInv
<1>1. BusyHasTask /\ ClaimsCounted
  BY DEF PoolInv
<1>2. TypeOK'
  BY <1>1, TypeCorrectNext
<1>3. BusyHasTask'
  BY <1>1, BusyHasTaskStep
<1>4. ClaimsCounted'
  BY <1>1, ClaimsCountedStep
<1>5. FoundPreview' /\ DoneHasPreview'
  BY FoundPreviewStep, DoneHasPreviewStep
<1>6. FailedExhausted' /\ LinksResolve'
  BY FailedExhaustedStep, LinksResolveStep
<1>7. QED
  BY <1>2, <1>3, <1>4, <1>5, <1>6 DEF IInv, PoolInv

(* In every reachable state IInv holds.                                    *)
THEOREM Invariance == Spec => []IInv
<1>1. QED
  BY InitInv, NextInv, PTL DEF Spec

(* Every variable keeps its type, so the clocks and counters of the rows   *)
(* and of the process stay within their bounds.                            *)
THEOREM TypeCorrect == Spec => []TypeOK
<1>1. IInv => TypeOK
  BY DEF IInv
<1>2. QED
  BY <1>1, Invariance, PTL

(* A job is done only while it has a preview (process.go AddPreview before *)
(* worker.go MarkDone), for any interleaving of processors on the same job.*)
THEOREM DoneIsWatermarked == Spec => []DoneHasPreview
<1>1. IInv => DoneHasPreview
  BY DEF IInv, PoolInv
<1>2. QED
  BY <1>1, Invariance, PTL

(* A job fails for good only after MaxRetries retries (worker.go handle),  *)
(* however stale the claim of the processor that reports the failure.      *)
THEOREM FailureIsEarned == Spec => []FailedExhausted
<1>1. IInv => FailedExhausted
  BY DEF IInv, PoolInv
<1>2. QED
  BY <1>1, Invariance, PTL

(* The links of a mail resolve for as long as their job exists             *)
(* (asset/repo.go UpsertPreview reuses the row, and never removes it).     *)
THEOREM MailedLinksLive == Spec => []LinksResolve
<1>1. IInv => LinksResolve
  BY DEF IInv, PoolInv
<1>2. QED
  BY <1>1, Invariance, PTL
-----------------------------------------------------------------------------
(* What the worker pool does for its jobs while it is Timely: nobody is    *)
(* handed a job that is already held, and all that follows from it.        *)
(* Timely is about a behaviour, not about the configuration: the defaults  *)
(* (batches of 10, 30 minutes for a job, a claim given up after an hour)   *)
(* keep it as long as the jobs before one in the queue do not use up their *)
(* time, and the run pool_undone shows what happens when they do.          *)

(* The configurations in which every behaviour is timely.  config/main.go  *)
(* (line 369) only asks that a claim is not given up while its job is      *)
(* being encoded; this counts the wait in the queue as well.  A claim      *)
(* waits for at most the rest of its batch and a full channel, and is then *)
(* handled itself; one processor is enough to get through them.            *)
Sized == StuckJobTimeout >= (2 * ClaimBatchSize + 1) * JobTimeout
-----------------------------------------------------------------------------
(* The stages of a processor's step, and what each leaves alone.           *)

(* In the middle of a job.                                                 *)
Works(w) ==
  \/ LoadOriginal(w) \/ Encode(w) \/ LookupPreview(w) \/ WritePreview(w) \/ Notify(w)
  \/ ProcessError(w)

(* At the end of a job.                                                    *)
Reports(w) == RecordDone(w) \/ RecordError(w) \/ OutcomeLost(w)

LEMMA WorksFrame ==
  ASSUME TypeOK, NEW w \in Workers, Works(w)
  PROVE  /\ Busy(w) /\ Busy(w)' /\ pc[w] \notin {"markDone", "markError"}
         /\ \A v \in Workers \ {w} : pc'[v] = pc[v] /\ found'[v] = found[v]
         /\ UNCHANGED <<status, attempts, age, wait, upload, mode, dispatcher, batch, queue,
                        task, elapsed, faults>>
BY DEF Works, LoadOriginal, Encode, LookupPreview, WritePreview, Notify, ProcessError, Goto,
       Busy, TypeOK, table, feeder, assets

LEMMA ReportsFrame ==
  ASSUME TypeOK, NEW w \in Workers, Reports(w)
  PROVE  /\ Busy(w) /\ pc[w] \in {"markDone", "markError"}
         /\ pc'[w] = "idle" /\ elapsed'[w] = 0
         /\ \A v \in Workers \ {w} : /\ pc'[v] = pc[v] /\ task'[v] = task[v]
                                     /\ elapsed'[v] = elapsed[v] /\ found'[v] = found[v]
         /\ UNCHANGED <<attempts, previews, mailed, upload, mode, dispatcher, batch, queue>>
BY DEF Reports, RecordDone, RecordError, OutcomeLost, MarkDone, MarkFailed, MarkForRetry,
       Release, Goto, Busy, TypeOK, table, feeder, assets

LEMMA ProcessSplit ==
  ASSUME NEW w \in Workers, Process(w)
  PROVE  Receive(w) \/ WorkerExits(w) \/ Works(w) \/ Reports(w)
BY DEF Process, Works, Reports

(* A processor's step is its own.                                          *)
LEMMA OthersFrame ==
  ASSUME TypeOK, NEW v \in Workers, Process(v), NEW w \in Workers, v # w
  PROVE  UNCHANGED <<pc[w], task[w], found[w]>>
<1>1. CASE Receive(v)
  BY <1>1 DEF Receive, Goto, TypeOK
<1>2. CASE WorkerExits(v)
  BY <1>2 DEF WorkerExits, Goto, TypeOK
<1>3. CASE Works(v)
  BY <1>3, WorksFrame
<1>4. CASE Reports(v)
  BY <1>4, ReportsFrame
<1>5. QED
  BY <1>1, <1>2, <1>3, <1>4, ProcessSplit

(* Where the dispatcher and the processors are at each point of the life   *)
(* of the process.                                                         *)
Stages ==
  /\ mode = "down" => queue = <<>> /\ dispatcher = "off"
  /\ dispatcher # "feed" => batch = {}
  /\ dispatcher = "off" => mode = "down"
  /\ dispatcher = "exited" => mode = "stopping"
  /\ mode = "stopping" => faults > 0
  /\ \A w \in Workers :
       /\ mode = "down" => pc[w] = "exited"
       /\ pc[w] = "exited" => mode = "down" \/ (dispatcher = "exited" /\ queue = <<>>)
       /\ ~Busy(w) => elapsed[w] = 0

LEMMA StagesStep == ASSUME TypeOK, Stages, [Next]_vars PROVE Stages'
<1> USE DEF feeder, workers, table, assets
<1>1. CASE Requests
  BY <1>1 DEF Requests, InsertJob, InsertOriginal, Rollback, DeleteIfNotProcessing, Stages, Busy
<1>2. CASE Dispatch
  <2>1. CASE Poll \/ Claim
    BY <2>1 DEF Poll, Claim, Stages, Busy
  <2>2. CASE ClaimLost
    BY <2>2, PoolAssumption DEF ClaimLost, Stages, Busy, TypeOK
  <2>3. ASSUME NEW c \in batch, Feed(c) PROVE Stages'
    <3>1. /\ dispatcher = "feed" /\ mode # "down" /\ dispatcher' \in {"feed", "claim", "wait"}
          /\ dispatcher' # "feed" => batch' = {}
          /\ UNCHANGED <<mode, faults, pc, elapsed>>
      BY <2>3 DEF Feed, Stages
    <3>2. QED
      BY <3>1 DEF Stages, Busy
  <2>4. CASE StopFeeding \/ CloseQueue
    BY <2>4 DEF StopFeeding, CloseQueue, Stages, Busy
  <2>5. QED
    BY <1>2, <2>1, <2>2, <2>3, <2>4 DEF Dispatch
<1>3. ASSUME NEW w \in Workers, Process(w) PROVE Stages'
  <2>1. CASE Receive(w)
    <3>1. queue # <<>> /\ mode # "down" /\ (\A v \in Workers : pc[v] # "exited")
      BY <2>1 DEF Receive, Stages
    <3>2. /\ \A v \in Workers : pc'[v] # "exited"
          /\ \A v \in Workers : Busy(v) => Busy(v)'
          /\ UNCHANGED <<mode, dispatcher, batch, faults, elapsed>>
      BY <2>1, <3>1 DEF Receive, Goto, TypeOK, Busy
    <3>3. QED
      BY <3>1, <3>2 DEF Stages
  <2>2. CASE WorkerExits(w)
    BY <2>2 DEF WorkerExits, Goto, Stages, TypeOK, Busy
  <2>3. CASE Works(w)
    BY <2>3, WorksFrame DEF Stages, Busy
  <2>4. CASE Reports(w)
    <3>1. faults' \in Nat /\ faults' >= faults
      BY <2>4, PoolAssumption DEF Reports, RecordDone, RecordError, OutcomeLost, TypeOK
    <3>2. /\ mode # "down" /\ pc'[w] = "idle" /\ elapsed'[w] = 0
          /\ UNCHANGED <<mode, dispatcher, batch, queue>>
          /\ \A v \in Workers \ {w} : pc'[v] = pc[v] /\ elapsed'[v] = elapsed[v]
      BY <2>4, ReportsFrame DEF Stages, Busy
    <3>3. faults > 0 => faults' > 0
      BY <3>1, PoolAssumption DEF TypeOK
    <3>4. QED
      BY <3>2, <3>3 DEF Stages, Busy
  <2>5. QED
    BY <1>3, <2>1, <2>2, <2>3, <2>4, ProcessSplit
<1>4. CASE Start
  BY <1>4 DEF Start, Stages, Busy
<1>5. CASE Crash \/ Exit
  BY <1>5 DEF Crash, Exit, ProcessDies, Stages, Busy
<1>6. CASE Stop
  BY <1>6, PoolAssumption DEF Stop, Stages, Busy, TypeOK
<1>7. CASE Tick
  BY <1>7 DEF Tick, Stages, Busy
<1>8. CASE UNCHANGED vars
  BY <1>8 DEF vars, Stages, Busy
<1>9. QED
  BY <1>1, <1>2, <1>3, <1>4, <1>5, <1>6, <1>7, <1>8 DEF Next
-----------------------------------------------------------------------------
(* The channel and the batch hold no more than ClaimBatchSize claims.      *)

Below(j) == {i \in Eligible : i < j}

LEMMA BelowType ==
  ASSUME NEW j
  PROVE  IsFiniteSet(Below(j)) /\ Cardinality(Below(j)) \in Nat
<1>1. Below(j) \in SUBSET Jobs
  BY DEF Below, Eligible
<1>2. QED
  BY <1>1, FS_Subset, FS_CardinalityType, PoolAssumption

(* Eligible rows are claimed oldest first, each with its own number of     *)
(* older ones below the limit: there are no more of them than the limit.   *)
LEMMA NextBatchSize ==
  /\ IsFiniteSet(NextBatch)
  /\ Cardinality(NextBatch) \in Nat
  /\ Cardinality(NextBatch) <= ClaimBatchSize
<1>1. IsFiniteSet(NextBatch) /\ Cardinality(NextBatch) \in Nat
  BY NextBatchType, FS_Subset, FS_CardinalityType, PoolAssumption
<1>2. ASSUME NEW x \in NextBatch, NEW y \in NextBatch, x < y
      PROVE  Cardinality(Below(x)) # Cardinality(Below(y))
  <2>1. x \in Eligible /\ x \in Nat /\ y \in Nat /\ \A i \in Eligible : i \in Nat
    BY PoolAssumption DEF NextBatch, Eligible
  <2>2. Below(x) \cup {x} \subseteq Below(y) /\ x \notin Below(x)
    <3>1. \A i \in Eligible : i < x => i < y
      BY <1>2, <2>1
    <3>2. ~(x < x)
      BY <2>1
    <3>3. QED
      BY <1>2, <2>1, <3>1, <3>2 DEF Below
  <2>3. Cardinality(Below(x) \cup {x}) = Cardinality(Below(x)) + 1
    BY <2>2, BelowType, FS_AddElement
  <2>4. Cardinality(Below(x) \cup {x}) <= Cardinality(Below(y))
    BY <2>2, BelowType, FS_Subset
  <2>5. QED
    BY <2>3, <2>4, BelowType
<1>3. SUFFICES ASSUME Cardinality(NextBatch) > ClaimBatchSize
               PROVE  FALSE
  BY <1>1, PoolAssumption
<1> DEFINE ranks == 0 .. ClaimBatchSize - 1
           rank == [j \in NextBatch |-> Cardinality(Below(j))]
<1>4. rank \in [NextBatch -> ranks]
  <2>1. \A j \in NextBatch : Cardinality(Below(j)) < ClaimBatchSize
    BY DEF NextBatch, Below
  <2>2. QED
    BY <2>1, BelowType, PoolAssumption
<1>5. IsFiniteSet(ranks) /\ Cardinality(ranks) = ClaimBatchSize
  <2>1. 0 \in Int /\ ClaimBatchSize - 1 \in Int /\ ~(0 > ClaimBatchSize - 1)
    BY PoolAssumption
  <2>2. QED
    BY <2>1, FS_Interval, PoolAssumption
<1> HIDE DEF ranks, rank
<1>6. PICK x \in NextBatch, y \in NextBatch : x # y /\ rank[x] = rank[y]
  BY <1>1, <1>3, <1>4, <1>5, FS_PigeonHole
<1>7. Cardinality(Below(x)) = Cardinality(Below(y))
  BY <1>6 DEF rank
<1>8. x \in Nat /\ y \in Nat
  BY NextBatchType, PoolAssumption
<1>9. QED
  BY <1>2, <1>6, <1>7, <1>8

LEMMA NewBatchSize ==
  ASSUME NEW f, NEW C, C = {[job |-> j, att |-> f[j]] : j \in NextBatch}
  PROVE  IsFiniteSet(C) /\ Cardinality(C) <= ClaimBatchSize
<1> DEFINE claim == [j \in NextBatch |-> [job |-> j, att |-> f[j]]]
<1>1. claim \in Surjection(NextBatch, C)
  BY DEF Surjection
<1>2. IsFiniteSet(C) /\ Cardinality(C) <= Cardinality(NextBatch)
  BY <1>1, NextBatchSize, FS_Surjection
<1>3. QED
  BY <1>2, NextBatchSize, FS_CardinalityType, PoolAssumption

Room ==
  /\ Len(queue) <= ClaimBatchSize
  /\ IsFiniteSet(batch)
  /\ Cardinality(batch) <= ClaimBatchSize

LEMMA RoomStep == ASSUME TypeOK, Stages, Room, [Next]_vars PROVE Room'
<1>0. Cardinality({}) = 0 /\ IsFiniteSet({}) /\ Len(<<>>) = 0
  BY FS_EmptySet
<1>1. CASE Claim
  <2>1. batch' = {[job |-> j, att |-> attempts'[j]] : j \in NextBatch} /\ UNCHANGED queue
    BY <1>1 DEF Claim
  <2>2. QED
    BY <2>1, NewBatchSize DEF Room
<1>2. ASSUME NEW c \in batch, Feed(c) PROVE Room'
  <2>1. batch' = batch \ {c} /\ queue' = Append(queue, c) /\ Len(queue) < ClaimBatchSize
    BY <1>2 DEF Feed
  <2>2. Len(queue') <= ClaimBatchSize
    BY <2>1, PoolAssumption DEF TypeOK
  <2>3. IsFiniteSet(batch) /\ Cardinality(batch) <= ClaimBatchSize /\ Cardinality(batch) \in Nat
    BY FS_CardinalityType DEF Room
  <2>4. IsFiniteSet(batch \ {c}) /\ Cardinality(batch \ {c}) = Cardinality(batch) - 1
    BY <2>3, FS_RemoveElement
  <2>5. IsFiniteSet(batch') /\ Cardinality(batch') <= ClaimBatchSize
    BY <2>1, <2>3, <2>4, PoolAssumption
  <2>6. QED
    BY <2>2, <2>5 DEF Room
<1>3. CASE StopFeeding \/ Crash \/ Exit
  <2>1. batch' = {} /\ queue' \in {queue, <<>>}
    BY <1>3 DEF StopFeeding, Crash, Exit, ProcessDies
  <2>2. QED
    BY <1>0, <2>1, PoolAssumption DEF Room
<1>4. ASSUME NEW w \in Workers, Process(w) PROVE Room'
  <2>1. CASE Receive(w)
    <3>1. queue \in Seq(Claims) /\ queue # <<>> /\ queue' = Tail(queue) /\ UNCHANGED batch
      BY <2>1 DEF Receive, TypeOK, feeder
    <3>2. QED
      BY <3>1, PoolAssumption DEF Room
  <2>2. CASE WorkerExits(w) \/ Works(w) \/ Reports(w)
    BY <2>2, WorksFrame, ReportsFrame DEF WorkerExits, feeder, Room
  <2>3. QED
    BY <1>4, <2>1, <2>2, ProcessSplit
<1>5. CASE Requests \/ Poll \/ ClaimLost \/ CloseQueue \/ Start \/ Stop \/ Tick \/ UNCHANGED vars
  BY <1>5 DEF Requests, InsertJob, InsertOriginal, Rollback, DeleteIfNotProcessing, Poll,
              ClaimLost, CloseQueue, Start, Stop, Tick, vars, feeder, Room
<1>6. QED
  BY <1>1, <1>2, <1>3, <1>4, <1>5 DEF Next, Dispatch
-----------------------------------------------------------------------------
(* The wait of a claim.  Every processor gives a queued claim the same     *)
(* bound: what is left of the processor's job, and a full JobTimeout for   *)
(* each claim ahead in the channel.                                        *)

Work(n) == n * JobTimeout
Longest == Work(2 * ClaimBatchSize)
Left(w) == IF Busy(w) THEN JobTimeout - elapsed[w] ELSE 0

QueueInTime ==
  \A w \in Workers, i \in 1..Len(queue) :
    age[queue[i].job] + Left(w) + Work(i - 1) <= Longest

BatchInTime ==
  \A w \in Workers, c \in batch :
    age[c.job] + Left(w) + Work(Len(queue) + Cardinality(batch) - 1) <= Longest

BusyInTime == \A w \in Workers : Busy(w) => age[Job(w)] <= Longest + elapsed[w]

InTime == QueueInTime /\ BatchInTime /\ BusyInTime

LEMMA WorkType == ASSUME NEW n \in Nat PROVE Work(n) \in Nat
BY PoolAssumption DEF Work

LEMMA WorkNext == ASSUME NEW n \in Nat PROVE Work(n + 1) = Work(n) + JobTimeout
BY PoolAssumption DEF Work

LEMMA WorkGrows == ASSUME NEW m \in Nat, NEW n \in Nat, m <= n PROVE Work(m) <= Work(n)
<1>1. (n - m) \in Nat /\ n = m + (n - m)
  OBVIOUS
<1>2. (n - m) * JobTimeout \in Nat
  BY <1>1, PoolAssumption
<1>3. n * JobTimeout = m * JobTimeout + (n - m) * JobTimeout
  BY <1>1, PoolAssumption
<1>4. m * JobTimeout \in Nat /\ n * JobTimeout \in Nat
  BY PoolAssumption
<1>5. QED
  BY <1>2, <1>3, <1>4 DEF Work

LEMMA LongestFacts ==
  /\ Longest \in Nat
  /\ Work(2 * ClaimBatchSize - 1) + JobTimeout = Longest
  /\ Sized => Longest + JobTimeout <= StuckJobTimeout
<1>1. 2 * ClaimBatchSize \in Nat /\ 2 * ClaimBatchSize - 1 \in Nat
      /\ (2 * ClaimBatchSize - 1) + 1 = 2 * ClaimBatchSize
  BY PoolAssumption
<1>2. Work(2 * ClaimBatchSize) = Work(2 * ClaimBatchSize - 1) + JobTimeout
  BY <1>1, WorkNext
<1>3. Work(2 * ClaimBatchSize + 1) = Longest + JobTimeout
  BY <1>1, WorkNext DEF Longest
<1>4. QED
  BY <1>1, <1>2, <1>3, WorkType, PoolAssumption DEF Longest, Sized, Work

LEMMA LeftType ==
  ASSUME TypeOK, NEW w \in Workers
  PROVE  Left(w) \in 0..JobTimeout
BY PoolAssumption DEF TypeOK, Left

LEMMA LeftTypeNext ==
  ASSUME TypeOK', NEW w \in Workers
  PROVE  Left(w)' \in 0..JobTimeout
BY PoolAssumption DEF TypeOK, Left

LEMMA HeldType ==
  ASSUME TypeOK, BusyHasTask
  PROVE  /\ \A i \in 1..Len(queue) : queue[i] \in Claimed /\ queue[i].job \in Jobs
         /\ \A c \in batch : c \in Claimed /\ c.job \in Jobs
         /\ \A w \in Workers : Busy(w) => task[w] \in Claimed /\ Job(w) \in Jobs
         /\ \A j \in Jobs : age[j] \in Nat
         /\ \A w \in Workers : elapsed[w] \in Nat
<1>1. \A c \in Claims : c.job \in Jobs
  BY DEF Claims
<1>2. \A i \in 1..Len(queue) : queue[i] \in Claims /\ i \in DOMAIN queue
  BY DEF TypeOK
<1>3. QED
  BY <1>1, <1>2, PoolAssumption DEF TypeOK, BusyHasTask, Job, Claimed

LEMMA LongestType == Longest \in Nat
BY LongestFacts

(* A statement that rewrites a row restarts its clock.                     *)
AgeShrinks == \A j \in Jobs : age'[j] <= age[j]

LEMMA RewriteShrinks == ASSUME TypeOK, NEW S, NEW to, Rewrite(S, to) PROVE AgeShrinks
BY PoolAssumption DEF Rewrite, TypeOK, AgeShrinks

LEMMA NextShrinks ==
  ASSUME TypeOK, [Next]_vars, ~Tick
  PROVE  AgeShrinks
<1>1. UNCHANGED age => AgeShrinks
  BY PoolAssumption DEF TypeOK, AgeShrinks
<1>2. CASE Requests
  BY <1>1, <1>2, RewriteShrinks DEF Requests, InsertJob, InsertOriginal, Rollback,
     DeleteIfNotProcessing, RemoveRow, table
<1>3. CASE Dispatch
  BY <1>1, <1>3, RewriteShrinks DEF Dispatch, Poll, Claim, ClaimLost, Feed, StopFeeding,
     CloseQueue, ResetStuck, ClaimPending, table
<1>4. ASSUME NEW w \in Workers, Process(w) PROVE AgeShrinks
  <2>1. CASE Receive(w) \/ WorkerExits(w) \/ Works(w)
    BY <1>1, <2>1, WorksFrame DEF Receive, WorkerExits, table
  <2>2. CASE Reports(w)
    BY <1>1, <2>2, RewriteShrinks DEF Reports, RecordDone, RecordError, OutcomeLost, MarkDone,
       MarkFailed, MarkForRetry, table
  <2>3. QED
    BY <1>4, <2>1, <2>2, ProcessSplit
<1>5. CASE Start
  BY <1>5, RewriteShrinks DEF Start, ResetStuck
<1>6. CASE Crash \/ Stop \/ Exit \/ UNCHANGED vars
  BY <1>1, <1>6 DEF Crash, Stop, Exit, ProcessDies, vars, table
<1>7. QED
  BY <1>2, <1>3, <1>4, <1>5, <1>6 DEF Next

(* Nobody takes a job on, and no time passes.                              *)
Steady ==
  /\ AgeShrinks
  /\ \A w \in Workers :
       /\ Left(w)' <= Left(w)
       /\ Busy(w)' => Busy(w) /\ task'[w] = task[w] /\ elapsed'[w] = elapsed[w]

LEMMA SteadyHeld ==
  ASSUME TypeOK, TypeOK', BusyHasTask, InTime, Steady, UNCHANGED queue
  PROVE  QueueInTime' /\ BusyInTime'
<1>1. \A w \in Workers : Left(w) \in Nat /\ Left(w)' \in Nat
  BY PoolAssumption DEF TypeOK, Left, Busy
<1>2. \A j \in Jobs : age[j] \in Nat /\ age'[j] \in Nat /\ age'[j] <= age[j]
  BY PoolAssumption DEF TypeOK, Steady, AgeShrinks
<1>3. QueueInTime'
  <2> SUFFICES ASSUME NEW w \in Workers, NEW i \in 1..Len(queue)
               PROVE  age'[queue[i].job] + Left(w)' + Work(i - 1) <= Longest
    BY DEF QueueInTime
  <2>1. age[queue[i].job] + Left(w) + Work(i - 1) <= Longest
    BY DEF InTime, QueueInTime
  <2>2. queue[i].job \in Jobs /\ Work(i - 1) \in Nat
    <3>1. i - 1 \in Nat
      BY DEF TypeOK
    <3>2. QED
      BY <3>1, HeldType, WorkType
  <2> DEFINE a == age[queue[i].job]
             aa == age'[queue[i].job]
             l == Left(w)
             ll == Left(w)'
             n == Work(i - 1)
  <2>3. /\ a \in Nat /\ aa \in Nat /\ l \in Nat /\ ll \in Nat /\ n \in Nat
        /\ aa <= a /\ ll <= l
    BY <1>1, <1>2, <2>2 DEF Steady
  <2>4. a + l + n <= Longest
    BY <2>1
  <2> HIDE DEF a, aa, l, ll, n
  <2>5. aa + ll + n <= Longest
    BY <2>3, <2>4, LongestType
  <2>6. QED
    BY <2>5 DEF aa, ll, n
<1>4. BusyInTime'
  <2> SUFFICES ASSUME NEW w \in Workers, Busy(w)'
               PROVE  age'[task'[w].job] <= Longest + elapsed'[w]
    BY DEF BusyInTime, Job
  <2>1. Busy(w) /\ task'[w] = task[w] /\ elapsed'[w] = elapsed[w]
    BY DEF Steady
  <2>2. age[Job(w)] <= Longest + elapsed[w] /\ Job(w) \in Jobs /\ elapsed[w] \in Nat
    BY <2>1, HeldType DEF InTime, BusyInTime
  <2>3. QED
    BY <1>2, <2>1, <2>2, LongestType DEF Job
<1>5. QED
  BY <1>3, <1>4

LEMMA SteadyInTime ==
  ASSUME TypeOK, TypeOK', BusyHasTask, Room, InTime, Steady,
         UNCHANGED queue, batch' = batch \/ batch' = {}
  PROVE  InTime'
<1>1. \A w \in Workers : Left(w) \in Nat /\ Left(w)' \in Nat
  BY PoolAssumption DEF TypeOK, Left, Busy
<1>2. \A j \in Jobs : age[j] \in Nat /\ age'[j] \in Nat /\ age'[j] <= age[j]
  BY PoolAssumption DEF TypeOK, Steady, AgeShrinks
<1>3. BatchInTime'
  <2> SUFFICES ASSUME NEW w \in Workers, NEW c \in batch, batch' = batch
               PROVE  age'[c.job] + Left(w)' + Work(Len(queue) + Cardinality(batch) - 1)
                        <= Longest
    BY DEF BatchInTime
  <2>1. age[c.job] + Left(w) + Work(Len(queue) + Cardinality(batch) - 1) <= Longest
    BY DEF InTime, BatchInTime
  <2>2. Len(queue) + Cardinality(batch) - 1 \in Nat
    <3>1. Cardinality(batch) \in Nat /\ Cardinality(batch) # 0
      BY FS_CardinalityType, FS_EmptySet DEF Room
    <3>2. Len(queue) \in Nat
      BY DEF TypeOK
    <3>3. QED
      BY <3>1, <3>2
  <2>3. c.job \in Jobs /\ Work(Len(queue) + Cardinality(batch) - 1) \in Nat
    BY <2>2, HeldType, WorkType
  <2> DEFINE a == age[c.job]
             aa == age'[c.job]
             l == Left(w)
             ll == Left(w)'
             n == Work(Len(queue) + Cardinality(batch) - 1)
  <2>4. /\ a \in Nat /\ aa \in Nat /\ l \in Nat /\ ll \in Nat /\ n \in Nat
        /\ aa <= a /\ ll <= l
    BY <1>1, <1>2, <2>3 DEF Steady
  <2>5. a + l + n <= Longest
    BY <2>1
  <2> HIDE DEF a, aa, l, ll, n
  <2>6. aa + ll + n <= Longest
    BY <2>4, <2>5, LongestType
  <2>7. QED
    BY <2>6 DEF aa, ll, n
<1>4. QED
  BY <1>3, SteadyHeld DEF InTime

(* A claim comes with a clock at zero.                                     *)
LEMMA ClaimInTime ==
  ASSUME TypeOK, TypeOK', BusyHasTask, Stages, Room, InTime, Steady, Claim
  PROVE  InTime'
<1>1. \A w \in Workers : Left(w)' \in Nat /\ Left(w)' <= JobTimeout
  BY PoolAssumption DEF TypeOK, Left, Busy
<1>2. batch = {} /\ UNCHANGED queue
  BY DEF Claim, Stages
<1>3. QueueInTime' /\ BusyInTime'
  BY <1>2, SteadyHeld
<1>4. BatchInTime'
  <2> DEFINE ahead == Len(queue) + Cardinality(batch') - 1
  <2> SUFFICES ASSUME NEW w \in Workers, NEW c \in batch'
               PROVE  age'[c.job] + Left(w)' + Work(ahead) <= Longest
    BY <1>2 DEF BatchInTime
  <2>1. PICK j \in NextBatch : c = [job |-> j, att |-> attempts'[j]]
    BY DEF Claim
  <2>2. age'[c.job] = 0
    BY <2>1, NextBatchType DEF Claim, ClaimPending, Rewrite
  <2>3. IsFiniteSet(batch') /\ Cardinality(batch') <= ClaimBatchSize
    BY NewBatchSize DEF Claim
  <2>4. Cardinality(batch') \in Nat /\ Cardinality(batch') # 0
    BY <2>3, FS_CardinalityType, FS_EmptySet
  <2>5. ahead \in Nat /\ ahead <= 2 * ClaimBatchSize - 1
    <3>1. Len(queue) \in Nat /\ Len(queue) <= ClaimBatchSize
      BY DEF Room, TypeOK
    <3>2. QED
      BY <2>3, <2>4, <3>1, PoolAssumption
  <2>6. Work(ahead) \in Nat /\ Work(ahead) <= Work(2 * ClaimBatchSize - 1)
        /\ Work(2 * ClaimBatchSize - 1) \in Nat
    BY <2>5, WorkGrows, WorkType, PoolAssumption
  <2> HIDE DEF ahead
  <2>7. Work(2 * ClaimBatchSize - 1) + JobTimeout = Longest
    BY LongestFacts
  <2>8. JobTimeout \in Nat
    BY PoolAssumption
  <2>9. 0 + Left(w)' + Work(ahead) <= Longest
    BY ONLY <1>1, <2>6, <2>7, <2>8, LongestType
  <2>10. QED
    BY <2>2, <2>9
<1>5. QED
  BY <1>3, <1>4 DEF InTime

(* A claim that moves from the batch to the channel keeps its place.       *)
LEMMA FeedInTime ==
  ASSUME TypeOK, TypeOK', BusyHasTask, Room, InTime, NEW c \in batch, Feed(c)
  PROVE  InTime'
<1>1. /\ batch' = batch \ {c} /\ queue' = Append(queue, c)
      /\ UNCHANGED <<age, pc, task, elapsed>>
  BY DEF Feed, table, workers
<1>2. \A w \in Workers : Left(w)' = Left(w) /\ Left(w) \in Nat
  BY <1>1, LeftType, PoolAssumption DEF Left, Busy
<1>3. /\ Cardinality(batch) \in Nat \ {0}
      /\ Cardinality(batch') = Cardinality(batch) - 1
  BY <1>1, FS_CardinalityType, FS_EmptySet, FS_RemoveElement DEF Room
<1>4. queue \in Seq(Claims) /\ c \in Claims
  BY DEF TypeOK
<1>5. Len(queue') = Len(queue) + 1 /\ Len(queue) \in Nat
  BY <1>1, <1>4
<1>6. QueueInTime'
  <2> SUFFICES ASSUME NEW w \in Workers, NEW i \in 1..Len(queue')
               PROVE  age[queue'[i].job] + Left(w) + Work(i - 1) <= Longest
    BY <1>1, <1>2 DEF QueueInTime
  <2>1. CASE i \in 1..Len(queue)
    <3>1. queue'[i] = queue[i]
      BY <1>1, <1>4, <2>1
    <3>2. QED
      BY <2>1, <3>1 DEF InTime, QueueInTime
  <2>2. CASE i = Len(queue) + 1
    <3>1. queue'[i] = c
      BY <1>1, <1>4, <2>2
    <3>2. age[c.job] + Left(w) + Work(Len(queue) + Cardinality(batch) - 1) <= Longest
      BY DEF InTime, BatchInTime
    <3>3. /\ i - 1 \in Nat /\ Len(queue) + Cardinality(batch) - 1 \in Nat
          /\ i - 1 <= Len(queue) + Cardinality(batch) - 1
      BY <1>3, <1>5, <2>2
    <3>4. /\ Work(i - 1) \in Nat /\ Work(Len(queue) + Cardinality(batch) - 1) \in Nat
          /\ Work(i - 1) <= Work(Len(queue) + Cardinality(batch) - 1)
      BY <3>3, WorkGrows, WorkType
    <3>5. age[c.job] \in Nat /\ Left(w) \in Nat
      BY <1>2, HeldType
    <3> DEFINE a == age[c.job]
               l == Left(w)
               m == Work(i - 1)
               n == Work(Len(queue) + Cardinality(batch) - 1)
    <3>6. a \in Nat /\ l \in Nat /\ m \in Nat /\ n \in Nat /\ m <= n /\ a + l + n <= Longest
      BY <3>2, <3>4, <3>5
    <3> HIDE DEF a, l, m, n
    <3>7. a + l + m <= Longest
      BY <3>6, LongestType
    <3>8. QED
      BY <3>1, <3>7 DEF a, l, m
  <2>3. QED
    BY <1>5, <2>1, <2>2
<1>7. BatchInTime'
  <2> SUFFICES ASSUME NEW w \in Workers, NEW d \in batch'
               PROVE  age[d.job] + Left(w) + Work(Len(queue') + Cardinality(batch') - 1)
                        <= Longest
    BY <1>1, <1>2 DEF BatchInTime
  <2>1. Len(queue') + Cardinality(batch') - 1 = Len(queue) + Cardinality(batch) - 1
    BY <1>3, <1>5
  <2>2. d \in batch
    BY <1>1
  <2>3. QED
    BY <2>1, <2>2 DEF InTime, BatchInTime
<1>8. BusyInTime'
  BY <1>1 DEF InTime, BusyInTime, Busy, Job
<1>9. QED
  BY <1>6, <1>7, <1>8 DEF InTime

(* The head of the channel is taken by a processor that has nothing left.  *)
LEMMA ReceiveInTime ==
  ASSUME TypeOK, TypeOK', BusyHasTask, Stages, Room, InTime, NEW v \in Workers, Receive(v)
  PROVE  InTime'
<1>0. \A w \in Workers : Left(w) \in Nat /\ Left(w)' \in Nat
  BY LeftType, LeftTypeNext, PoolAssumption
<1>1. /\ pc[v] = "idle" /\ queue # <<>> /\ queue' = Tail(queue) /\ elapsed[v] = 0
      /\ UNCHANGED <<age, batch, elapsed>>
      /\ pc'[v] = "load" /\ task'[v] = Head(queue)
      /\ \A w \in Workers \ {v} : pc'[w] = pc[w] /\ task'[w] = task[w]
  BY DEF Receive, Goto, table, feeder, Stages, Busy, TypeOK
<1>2. queue \in Seq(Claims)
  BY DEF TypeOK
<1>3. /\ Len(queue) \in Nat \ {0} /\ Len(queue') = Len(queue) - 1
      /\ \A i \in 1..Len(queue') : queue'[i] = queue[i + 1] /\ i + 1 \in 1..Len(queue)
      /\ Head(queue) = queue[1] /\ 1 \in 1..Len(queue)
  BY <1>1, <1>2
<1>4. Left(v) = 0 /\ Left(v)' = JobTimeout
      /\ \A w \in Workers \ {v} : Left(w)' = Left(w)
  BY <1>1, PoolAssumption DEF Left, Busy
<1>5. ASSUME NEW w \in Workers, NEW n \in Nat
      PROVE  Left(w)' + Work(n) <= Left(w) + Work(n + 1)
  <2>1. Work(n + 1) = Work(n) + JobTimeout /\ Work(n) \in Nat /\ Left(w) \in Nat
        /\ JobTimeout \in Nat
    BY WorkNext, WorkType, LeftType, PoolAssumption
  <2>2. Left(w)' <= Left(w) + JobTimeout
    BY <1>4, <2>1
  <2>3. Left(w)' \in Nat
    BY <1>4, <2>1
  <2>4. QED
    BY <2>1, <2>2, <2>3
<1>6. QueueInTime'
  <2> SUFFICES ASSUME NEW w \in Workers, NEW i \in 1..Len(queue')
               PROVE  age[queue'[i].job] + Left(w)' + Work(i - 1) <= Longest
    BY <1>1 DEF QueueInTime
  <2> DEFINE a == age[queue[i + 1].job]
  <2>1. a + Left(w) + Work(i) <= Longest
    <3>1. (i + 1) - 1 = i
      OBVIOUS
    <3>2. QED
      BY <1>3, <3>1 DEF InTime, QueueInTime
  <2>2. i - 1 \in Nat /\ i \in Nat /\ (i - 1) + 1 = i
    BY <1>3
  <2>3. Left(w)' + Work(i - 1) <= Left(w) + Work(i)
    BY <1>5, <2>2
  <2>4. a \in Nat
    BY <1>3, HeldType
  <2>5. Work(i - 1) \in Nat /\ Work(i) \in Nat
    BY <2>2, WorkType
  <2> DEFINE l == Left(w)
             ll == Left(w)'
             m == Work(i - 1)
             n == Work(i)
  <2>6. /\ l \in Nat /\ ll \in Nat /\ m \in Nat /\ n \in Nat
        /\ a + l + n <= Longest /\ ll + m <= l + n
    BY <1>0, <2>1, <2>3, <2>5
  <2> HIDE DEF a, l, ll, m, n
  <2>7. a + ll + m <= Longest
    BY <2>4, <2>6, LongestType
  <2>8. QED
    BY <1>3, <2>7 DEF a, ll, m
<1>7. BatchInTime'
  <2> SUFFICES ASSUME NEW w \in Workers, NEW c \in batch
               PROVE  age[c.job] + Left(w)' + Work(Len(queue') + Cardinality(batch) - 1)
                        <= Longest
    BY <1>1 DEF BatchInTime
  <2> DEFINE n == Len(queue') + Cardinality(batch) - 1
  <2>1. Cardinality(batch) \in Nat /\ Cardinality(batch) # 0
    BY FS_CardinalityType, FS_EmptySet DEF Room
  <2>2. n \in Nat /\ n + 1 = Len(queue) + Cardinality(batch) - 1
    BY <1>3, <2>1
  <2>3. age[c.job] + Left(w) + Work(n + 1) <= Longest
    <3>1. age[c.job] + Left(w) + Work(Len(queue) + Cardinality(batch) - 1) <= Longest
      BY DEF InTime, BatchInTime
    <3> HIDE DEF n
    <3>2. QED
      BY <2>2, <3>1
  <2> HIDE DEF n
  <2>4. Left(w)' + Work(n) <= Left(w) + Work(n + 1)
    BY <1>5, <2>2
  <2>5. Work(n) \in Nat /\ Work(n + 1) \in Nat
    <3>1. n \in Nat
      BY <2>2
    <3>2. n + 1 \in Nat
      BY <3>1
    <3>3. QED
      BY ONLY <3>1, <3>2, WorkType
  <2>6. age[c.job] \in Nat
    BY HeldType
  <2> DEFINE a == age[c.job]
             l == Left(w)
             ll == Left(w)'
             m == Work(n)
             k == Work(n + 1)
  <2>7. /\ a \in Nat /\ l \in Nat /\ ll \in Nat /\ m \in Nat /\ k \in Nat
        /\ a + l + k <= Longest /\ ll + m <= l + k
    BY <1>0, <2>3, <2>4, <2>5, <2>6
  <2> HIDE DEF a, l, ll, m, k
  <2>8. a + ll + m <= Longest
    BY <2>7, LongestType
  <2>9. QED
    BY <2>8 DEF a, ll, m, n
<1>8. BusyInTime'
  <2> SUFFICES ASSUME NEW w \in Workers, Busy(w)'
               PROVE  age[task'[w].job] <= Longest + elapsed[w]
    BY <1>1 DEF BusyInTime, Job
  <2>1. CASE w = v
    <3>1. age[queue[1].job] + Left(v) + Work(1 - 1) <= Longest
      BY <1>3 DEF InTime, QueueInTime
    <3>2. Work(1 - 1) = 0
      BY PoolAssumption DEF Work
    <3>3. age[queue[1].job] \in Nat
      BY <1>3, HeldType
    <3>4. QED
      BY <1>1, <1>3, <1>4, <2>1, <3>1, <3>2, <3>3, LongestType
  <2>2. CASE w # v
    BY <1>1, <2>2 DEF InTime, BusyInTime, Busy, Job
  <2>3. QED
    BY <2>1, <2>2
<1>9. QED
  BY <1>6, <1>7, <1>8 DEF InTime

(* Time does not pass over a claim unless every processor is at work.      *)
LEMMA TickInTime ==
  ASSUME TypeOK, TypeOK', BusyHasTask, Stages, Room, InTime, Tick
  PROVE  InTime'
<1>0. \A w \in Workers : Left(w) \in Nat /\ Left(w)' \in Nat
  BY LeftType, LeftTypeNext, PoolAssumption
<1>1. /\ UNCHANGED <<queue, batch, pc, task>>
      /\ \A j \in Jobs : age[j] \in Nat /\ age'[j] \in Nat /\ age'[j] <= age[j] + 1
  BY PoolAssumption DEF Tick, AtMost, TypeOK
<1>2. \A w \in Workers : Busy(w) => /\ elapsed[w] < JobTimeout
                                    /\ elapsed'[w] = elapsed[w] + 1
                                    /\ elapsed[w] \in Nat
                                    /\ Busy(w)'
  BY <1>1, PoolAssumption DEF Tick, TypeOK, Busy
<1>3. \A w \in Workers : Busy(w) => Left(w)' = Left(w) - 1
  BY <1>2, PoolAssumption DEF Left
<1>4. queue # <<>> => \A w \in Workers : Busy(w)
  BY DEF Tick, Stages, Busy
<1>5. batch # {} => queue # <<>>
  <2>1. batch # {} => Len(queue) = ClaimBatchSize
    BY DEF Tick, Stages
  <2>2. QED
    BY <2>1, PoolAssumption
<1>6. QueueInTime'
  <2> SUFFICES ASSUME NEW w \in Workers, NEW i \in 1..Len(queue)
               PROVE  age'[queue[i].job] + Left(w)' + Work(i - 1) <= Longest
    BY <1>1 DEF QueueInTime
  <2> DEFINE now == age[queue[i].job]
             next == age'[queue[i].job]
  <2>1. now + Left(w) + Work(i - 1) <= Longest
    BY DEF InTime, QueueInTime
  <2>2. queue[i].job \in Jobs /\ Work(i - 1) \in Nat
    <3>1. i - 1 \in Nat
      BY DEF TypeOK
    <3>2. QED
      BY <3>1, HeldType, WorkType
  <2>3. queue # <<>>
    BY DEF TypeOK
  <2>4. Left(w)' = Left(w) - 1
    BY <1>3, <1>4, <2>3
  <2>5. now \in Nat /\ next \in Nat /\ next <= now + 1
    BY <1>1, <2>2
  <2> DEFINE l == Left(w)
             ll == Left(w)'
             n == Work(i - 1)
  <2>6. /\ l \in Nat /\ ll \in Nat /\ n \in Nat /\ ll = l - 1
        /\ now + l + n <= Longest
    BY <1>0, <2>1, <2>2, <2>4
  <2> HIDE DEF now, next, l, ll, n
  <2>7. next + ll + n <= Longest
    BY <2>5, <2>6, LongestType
  <2>8. QED
    BY <2>7 DEF next, ll, n
<1>7. BatchInTime'
  <2> DEFINE n == Len(queue) + Cardinality(batch) - 1
  <2> SUFFICES ASSUME NEW w \in Workers, NEW c \in batch
               PROVE  age'[c.job] + Left(w)' + Work(n) <= Longest
    BY <1>1 DEF BatchInTime
  <2>1. age[c.job] + Left(w) + Work(n) <= Longest
    BY DEF InTime, BatchInTime
  <2>2. n \in Nat
    <3>1. Cardinality(batch) \in Nat /\ Cardinality(batch) # 0
      BY FS_CardinalityType, FS_EmptySet DEF Room
    <3>2. Len(queue) \in Nat
      BY DEF TypeOK
    <3>3. QED
      BY <3>1, <3>2
  <2>3. c.job \in Jobs /\ Work(n) \in Nat /\ Left(w) \in Nat
    BY <2>2, HeldType, WorkType, LeftType, PoolAssumption
  <2>4. Left(w)' = Left(w) - 1
    BY <1>3, <1>4, <1>5
  <2> HIDE DEF n
  <2>5. QED
    BY <1>1, <2>1, <2>3, <2>4, LongestType
<1>8. BusyInTime'
  <2> SUFFICES ASSUME NEW w \in Workers, Busy(w)
               PROVE  age'[Job(w)] <= Longest + elapsed'[w]
    BY <1>1 DEF BusyInTime, Job, Busy
  <2>1. age[Job(w)] <= Longest + elapsed[w] /\ Job(w) \in Jobs
    BY HeldType DEF InTime, BusyInTime
  <2>2. QED
    BY <1>1, <1>2, <2>1, LongestType
<1>9. QED
  BY <1>6, <1>7, <1>8 DEF InTime

LEMMA InTimeStep ==
  ASSUME TypeOK, TypeOK', BusyHasTask, Stages, Room, InTime, [Next]_vars
  PROVE  InTime'
<1>1. CASE Tick
  BY <1>1, TickInTime
<1>2. ASSUME NEW w \in Workers, Receive(w) PROVE InTime'
  BY <1>2, ReceiveInTime
<1>3. ASSUME NEW c \in batch, Feed(c) PROVE InTime'
  BY <1>3, FeedInTime
<1>4. CASE Crash \/ Exit \/ Start
  <2>1. queue' = <<>> /\ batch' = {} /\ \A w \in Workers : ~Busy(w)'
    BY <1>4 DEF Crash, Exit, Start, ProcessDies, Stages, Busy
  <2>2. QED
    BY <2>1 DEF InTime, QueueInTime, BatchInTime, BusyInTime
<1>5. ASSUME ~Tick,
             \A w \in Workers : ~Busy(w)' \/ (/\ Busy(w) /\ task'[w] = task[w]
                                              /\ elapsed'[w] = elapsed[w])
      PROVE  Steady
  <2>1. \A w \in Workers : Left(w) \in Nat
    BY LeftType, PoolAssumption
  <2>2. \A w \in Workers : Left(w)' <= Left(w)
    BY <1>5, <2>1, PoolAssumption DEF Left
  <2>3. QED
    BY <1>5, <2>2, NextShrinks DEF Steady
<1>6. CASE ~Tick /\ UNCHANGED workers
  <2>1. Steady
    BY <1>5, <1>6 DEF workers, Busy
  <2>2. CASE Claim
    BY <2>1, <2>2, ClaimInTime
  <2>3. CASE \E c \in batch : Feed(c)
    BY <1>3, <2>3
  <2>4. CASE UNCHANGED queue /\ (batch' = batch \/ batch' = {})
    BY <2>1, <2>4, SteadyInTime
  <2>5. CASE Requests \/ Poll \/ ClaimLost \/ StopFeeding \/ CloseQueue \/ Stop \/ UNCHANGED vars
    BY <2>4, <2>5 DEF Requests, InsertJob, InsertOriginal, Rollback, DeleteIfNotProcessing,
       Poll, ClaimLost, StopFeeding, CloseQueue, Stop, vars, feeder
  <2>6. ASSUME NEW w \in Workers, Process(w) PROVE InTime'
    <3>1. CASE Receive(w)
      BY <1>2, <3>1
    <3>2. CASE WorkerExits(w) \/ Works(w) \/ Reports(w)
      BY <2>4, <3>2, WorksFrame, ReportsFrame DEF WorkerExits, feeder
    <3>3. QED
      BY <2>6, <3>1, <3>2, ProcessSplit
  <2>7. QED
    BY <1>4, <1>6, <2>2, <2>3, <2>5, <2>6 DEF Next, Dispatch
<1>7. ASSUME NEW w \in Workers, WorkerExits(w) \/ Works(w) \/ Reports(w), ~Tick PROVE InTime'
  <2>1. UNCHANGED <<queue, batch>>
    BY <1>7, WorksFrame, ReportsFrame DEF WorkerExits, feeder
  <2>2. \A v \in Workers : ~Busy(v)' \/ (/\ Busy(v) /\ task'[v] = task[v]
                                         /\ elapsed'[v] = elapsed[v])
    <3>1. CASE WorkerExits(w)
      BY <3>1 DEF WorkerExits, Goto, Busy, TypeOK
    <3>2. CASE Works(w)
      BY <3>2, WorksFrame DEF Busy
    <3>3. CASE Reports(w)
      BY <3>3, ReportsFrame DEF Busy
    <3>4. QED
      BY <1>7, <3>1, <3>2, <3>3
  <2>3. QED
    BY <1>5, <1>7, <2>1, <2>2, SteadyInTime
<1>8. CASE Requests \/ Dispatch \/ Stop \/ UNCHANGED vars
  <2>1. UNCHANGED workers
    BY <1>8 DEF Requests, InsertJob, InsertOriginal, Rollback, DeleteIfNotProcessing, Dispatch,
       Poll, Claim, ClaimLost, Feed, StopFeeding, CloseQueue, Stop, vars
  <2>2. QED
    BY <1>1, <1>6, <2>1
<1>9. QED
  BY <1>1, <1>2, <1>4, <1>7, <1>8, ProcessSplit DEF Next
-----------------------------------------------------------------------------
(* Nobody's claim is taken for abandoned, and nobody's job is given out a  *)
(* second time.                                                            *)

LEMMA InTimeTimely == ASSUME Sized, TypeOK, BusyHasTask, Room, InTime PROVE Timely
<1> SUFFICES ASSUME NEW c \in Claimed PROVE age[c.job] <= StuckJobTimeout
  BY DEF Timely
<1>1. c.job \in Jobs
  BY ClaimedType DEF Claims
<1> DEFINE a == age[c.job]
<1>2. a \in Nat
  BY <1>1, HeldType
<1>3. PICK w \in Workers : TRUE
  BY ConcurrencyAssumption
<1>4. Left(w) \in Nat
  BY LeftType, PoolAssumption
<1> HIDE DEF a
<1>5. CASE c \in batch
  <2> DEFINE n == Len(queue) + Cardinality(batch) - 1
  <2>1. Cardinality(batch) \in Nat /\ Cardinality(batch) # 0
    BY <1>5, FS_CardinalityType, FS_EmptySet DEF Room
  <2>2. Len(queue) \in Nat
    BY DEF TypeOK
  <2>3. n \in Nat
    BY <2>1, <2>2
  <2>4. a + Left(w) + Work(n) <= Longest
    BY <1>5 DEF InTime, BatchInTime, a
  <2> HIDE DEF n
  <2>5. Work(n) \in Nat
    BY <2>3, WorkType
  <2>6. a <= StuckJobTimeout
    BY <1>2, <1>4, <2>4, <2>5, LongestFacts, PoolAssumption
  <2>7. QED
    BY <2>6 DEF a
<1>6. ASSUME NEW i \in DOMAIN queue, c = queue[i] PROVE a <= StuckJobTimeout
  <2>1. i \in 1..Len(queue) /\ i - 1 \in Nat
    BY DEF TypeOK
  <2>2. a + Left(w) + Work(i - 1) <= Longest
    BY <1>6, <2>1 DEF InTime, QueueInTime, a
  <2>3. Work(i - 1) \in Nat
    BY <2>1, WorkType
  <2>4. QED
    BY <1>2, <1>4, <2>2, <2>3, LongestFacts, PoolAssumption
<1>7. ASSUME NEW v \in Workers, Busy(v), c = task[v] PROVE a <= StuckJobTimeout
  <2>1. a <= Longest + elapsed[v]
    BY <1>7 DEF InTime, BusyInTime, Job, a
  <2>2. elapsed[v] \in Nat /\ elapsed[v] <= JobTimeout
    BY PoolAssumption DEF TypeOK
  <2>3. QED
    BY <1>2, <2>1, <2>2, LongestFacts, PoolAssumption
<1>8. a <= StuckJobTimeout
  BY <1>5, <1>6, <1>7 DEF Claimed, a
<1>9. QED
  BY <1>8 DEF a

(* A job is claimed once in all of the channel, the batch and the          *)
(* processors.                                                             *)
Distinct ==
  /\ \A i, k \in 1..Len(queue) : queue[i].job = queue[k].job => i = k
  /\ \A c, d \in batch : c.job = d.job => c = d
  /\ \A v, w \in Workers : Busy(v) /\ Busy(w) /\ Job(v) = Job(w) => v = w
  /\ \A i \in 1..Len(queue), c \in batch : queue[i].job # c.job
  /\ \A i \in 1..Len(queue), w \in Workers : Busy(w) => queue[i].job # Job(w)
  /\ \A c \in batch, w \in Workers : Busy(w) => c.job # Job(w)

HeldProcessing == \A c \in Claimed : status[c.job] \in {"processing", "deleted"}

(* Claims are neither made nor passed on.                                  *)
Lets ==
  /\ queue' \in {queue, <<>>}
  /\ batch' \subseteq batch
  /\ \A w \in Workers : Busy(w)' => Busy(w) /\ task'[w] = task[w]

LEMMA LetsStep ==
  ASSUME TypeOK, [Next]_vars
  PROVE  \/ Claim
         \/ \E c \in batch : Feed(c)
         \/ \E w \in Workers : Receive(w)
         \/ Lets
<1> USE DEF Lets
<1>1. CASE Requests \/ Poll \/ ClaimLost \/ StopFeeding \/ CloseQueue \/ Stop \/ Tick
             \/ UNCHANGED vars
  <2>1. UNCHANGED <<queue, pc, task>> /\ batch' \in {batch, {}}
    BY <1>1 DEF Requests, InsertJob, InsertOriginal, Rollback, DeleteIfNotProcessing, Poll,
       ClaimLost, StopFeeding, CloseQueue, Stop, Tick, vars, feeder, workers
  <2>2. QED
    BY <2>1 DEF Busy
<1>2. CASE Start \/ Crash \/ Exit
  BY <1>2 DEF Start, Crash, Exit, ProcessDies, Busy
<1>3. ASSUME NEW w \in Workers, WorkerExits(w) \/ Works(w) \/ Reports(w) PROVE Lets
  <2>1. CASE WorkerExits(w)
    BY <2>1 DEF WorkerExits, Goto, Busy, TypeOK, feeder
  <2>2. CASE Works(w)
    BY <2>2, WorksFrame DEF Busy
  <2>3. CASE Reports(w)
    BY <2>3, ReportsFrame DEF Busy
  <2>4. QED
    BY <1>3, <2>1, <2>2, <2>3
<1>4. QED
  BY <1>1, <1>2, <1>3, ProcessSplit DEF Next, Dispatch

LEMMA FreshClaims ==
  ASSUME TypeOK, BusyHasTask, HeldProcessing, NEW j \in NextBatch
  PROVE  \A c \in Claimed : c.job # j
BY DEF HeldProcessing, NextBatch, Eligible

LEMMA DistinctStep ==
  ASSUME TypeOK, BusyHasTask, Stages, Distinct, HeldProcessing, [Next]_vars
  PROVE  Distinct'
<1>1. CASE Claim
  <2>1. /\ batch' = {[job |-> j, att |-> attempts'[j]] : j \in NextBatch}
        /\ UNCHANGED <<queue, pc, task>>
    BY <1>1 DEF Claim, workers
  <2>2. \A c \in batch' : c.job \in NextBatch /\ c = [job |-> c.job, att |-> attempts'[c.job]]
    BY <2>1
  <2>3. \A c \in batch', d \in Claimed : d.job # c.job
    BY <2>2, FreshClaims
  <2>4. /\ \A i \in 1..Len(queue) : queue[i] \in Claimed
        /\ \A w \in Workers : Busy(w) => task[w] \in Claimed
    BY HeldType
  <2>5. \A c, d \in batch' : c.job = d.job => c = d
    BY <2>2
  <2>6. \A i \in 1..Len(queue'), c \in batch' : queue'[i].job # c.job
    BY <2>1, <2>3, <2>4
  <2>7. \A c \in batch', w \in Workers : Busy(w)' => c.job # Job(w)'
    BY <2>1, <2>3, <2>4 DEF Job, Busy
  <2>8. QED
    BY <2>1, <2>5, <2>6, <2>7 DEF Distinct, Job, Busy
<1>2. ASSUME NEW c \in batch, Feed(c) PROVE Distinct'
  <2>1. queue' = Append(queue, c) /\ batch' = batch \ {c} /\ UNCHANGED <<pc, task>>
    BY <1>2 DEF Feed, workers
  <2>2. queue \in Seq(Claims) /\ c \in Claims
    BY DEF TypeOK
  <2>3. /\ Len(queue') = Len(queue) + 1 /\ Len(queue) \in Nat
        /\ queue'[Len(queue) + 1] = c
        /\ \A i \in 1..Len(queue) : queue'[i] = queue[i]
    BY <2>1, <2>2
  <2>4. \A i \in 1..Len(queue') : i \in 1..Len(queue) \/ i = Len(queue) + 1
    BY <2>3
  <2>5. \A i, k \in 1..Len(queue') : queue'[i].job = queue'[k].job => i = k
    BY <2>3, <2>4 DEF Distinct
  <2>6. \A i \in 1..Len(queue'), d \in batch' : queue'[i].job # d.job
    BY <2>1, <2>3, <2>4 DEF Distinct
  <2>7. \A i \in 1..Len(queue'), w \in Workers : Busy(w)' => queue'[i].job # Job(w)'
    BY <2>1, <2>3, <2>4 DEF Distinct, Busy, Job
  <2>8. QED
    BY <2>1, <2>5, <2>6, <2>7 DEF Distinct, Busy, Job
<1>3. ASSUME NEW w \in Workers, Receive(w) PROVE Distinct'
  <2>1. /\ queue \in Seq(Claims) /\ queue # <<>> /\ queue' = Tail(queue)
        /\ UNCHANGED batch
    BY <1>3 DEF Receive, TypeOK, feeder
  <2>2. /\ 1 \in 1..Len(queue) /\ Head(queue) = queue[1]
        /\ Len(queue') \in Nat /\ Len(queue) = Len(queue') + 1
        /\ \A i \in 1..Len(queue') :
             queue'[i] = queue[i + 1] /\ i + 1 \in 1..Len(queue) /\ i + 1 # 1
    BY <2>1
  <2>3. /\ ~Busy(w) /\ Busy(w)' /\ Job(w)' = queue[1].job
        /\ \A v \in Workers \ {w} : (Busy(v)' <=> Busy(v)) /\ Job(v)' = Job(v)
    BY <1>3, <2>2 DEF Receive, Goto, TypeOK, Busy, Job
  <2>4. \A i, k \in 1..Len(queue') : queue'[i].job = queue'[k].job => i = k
    <3>1. SUFFICES ASSUME NEW i \in 1..Len(queue'), NEW k \in 1..Len(queue'),
                          queue'[i].job = queue'[k].job
                   PROVE  i = k
      OBVIOUS
    <3>2. i + 1 = k + 1
      BY <2>2, <3>1 DEF Distinct
    <3>3. QED
      BY <3>2
  <2>5. \A u, v \in Workers : Busy(u)' /\ Busy(v)' /\ Job(u)' = Job(v)' => u = v
    BY <2>2, <2>3 DEF Distinct
  <2>6. \A i \in 1..Len(queue'), c \in batch' : queue'[i].job # c.job
    BY <2>1, <2>2 DEF Distinct
  <2>7. \A i \in 1..Len(queue'), v \in Workers : Busy(v)' => queue'[i].job # Job(v)'
    BY <2>2, <2>3 DEF Distinct
  <2>8. \A c \in batch', v \in Workers : Busy(v)' => c.job # Job(v)'
    BY <2>1, <2>2, <2>3 DEF Distinct
  <2>9. QED
    BY <2>1, <2>4, <2>5, <2>6, <2>7, <2>8 DEF Distinct
<1>4. CASE Lets
  <2>1. CASE queue' = queue
    BY <1>4, <2>1 DEF Lets, Distinct, Job
  <2>2. CASE queue' = <<>>
    BY <1>4, <2>2 DEF Lets, Distinct, Job
  <2>3. QED
    BY <1>4, <2>1, <2>2 DEF Lets
<1>5. QED
  BY <1>1, <1>2, <1>3, <1>4, LetsStep

(* Once a processor has reported, nobody holds its job.                    *)
LEMMA ReportFrees ==
  ASSUME TypeOK, BusyHasTask, Distinct, NEW w \in Workers, Reports(w)
  PROVE  \A c \in Claimed' : c.job # Job(w)
<1>1. /\ Busy(w) /\ ~Busy(w)'
      /\ \A v \in Workers : Busy(v)' => v # w /\ Busy(v) /\ task'[v] = task[v]
      /\ UNCHANGED <<batch, queue>>
  BY ReportsFrame DEF Busy
<1>2. \A c \in Claimed' : \/ c \in batch
                          \/ \E i \in 1..Len(queue) : c = queue[i]
                          \/ \E v \in Workers : v # w /\ Busy(v) /\ c = task[v]
  BY <1>1 DEF Claimed, TypeOK
<1>3. QED
  BY <1>1, <1>2 DEF Distinct, Job

(* What ends the processing of a row: its withdrawal, the report of its    *)
(* processor, or the reset of an abandoned claim.                          *)
LEMMA ProcessingStep ==
  ASSUME TypeOK, BusyHasTask, [Next]_vars, NEW j \in Jobs, status[j] = "processing"
  PROVE  \/ status'[j] \in {"processing", "deleted"}
         \/ \E w \in Workers : Reports(w) /\ Job(w) = j
         \/ j \in Stuck
<1> USE DEF table
<1>1. CASE Requests
  BY <1>1 DEF Requests, InsertJob, InsertOriginal, Rollback, DeleteIfNotProcessing,
     RemoveRow, Rewrite, TypeOK
<1>2. CASE Poll \/ Start
  BY <1>2 DEF Poll, Start, ResetStuck, Rewrite, TypeOK
<1>3. CASE Claim \/ ClaimLost
  BY <1>3 DEF Claim, ClaimLost, ClaimPending, Rewrite, TypeOK
<1>4. ASSUME NEW w \in Workers, Process(w)
      PROVE  status'[j] = "processing" \/ (Reports(w) /\ Job(w) = j)
  <2>1. CASE Receive(w) \/ WorkerExits(w) \/ Works(w)
    BY <2>1, WorksFrame DEF Receive, WorkerExits, TypeOK
  <2>2. CASE Reports(w)
    <3>1. \/ UNCHANGED status
          \/ \E to : status' = [i \in Jobs |-> IF i \in {Job(w)} \cap
                                  {k \in Jobs : status[k] = "processing"} THEN to ELSE status[i]]
          \/ \E to : status' = [i \in Jobs |-> IF i \in {Job(w)} \cap
                                  {k \in Jobs : RowExists(k)} THEN to ELSE status[i]]
      BY <2>2 DEF Reports, RecordDone, RecordError, OutcomeLost, MarkDone, MarkFailed,
         MarkForRetry, Rewrite
    <3>2. QED
      BY <2>2, <3>1 DEF TypeOK
  <2>3. QED
    BY <1>4, <2>1, <2>2, ProcessSplit
<1>5. CASE (\E c \in batch : Feed(c)) \/ StopFeeding \/ CloseQueue
             \/ Crash \/ Stop \/ Exit \/ Tick \/ UNCHANGED vars
  BY <1>5 DEF Feed, StopFeeding, CloseQueue, Crash, Stop, Exit, ProcessDies, Tick, vars, TypeOK
<1>6. QED
  BY <1>1, <1>2, <1>3, <1>4, <1>5 DEF Next, Dispatch

LEMMA HeldProcessingStep ==
  ASSUME TypeOK, BusyHasTask, Timely, Distinct, HeldProcessing, [Next]_vars
  PROVE  HeldProcessing'
<1> SUFFICES ASSUME NEW c \in Claimed' PROVE status'[c.job] \in {"processing", "deleted"}
  BY DEF HeldProcessing
<1>1. CASE c \in Claimed
  <2>1. c.job \in Jobs
    BY <1>1, ClaimedType DEF Claims
  <2>2. CASE status[c.job] = "deleted"
    BY <2>1, <2>2, NextGrows DEF TableGrows
  <2>3. CASE status[c.job] = "processing"
    <3>1. c.job \notin Stuck
      <4> DEFINE a == age[c.job]
      <4>1. a \in Nat /\ a <= StuckJobTimeout
        BY <1>1, <2>1, HeldType DEF Timely
      <4> HIDE DEF a
      <4>2. ~(a > StuckJobTimeout)
        BY <4>1, PoolAssumption
      <4>3. QED
        BY <4>2 DEF Stuck, a
    <3>2. \A w \in Workers : Reports(w) => Job(w) # c.job
      BY ReportFrees
    <3>3. QED
      BY <2>1, <2>3, <3>1, <3>2, ProcessingStep
  <2>4. QED
    BY <1>1, <2>2, <2>3 DEF HeldProcessing
<1>2. CASE Claim /\ c.job \in NextBatch
  BY <1>2, NextBatchType DEF Claim, ClaimPending, Rewrite
<1>3. QED
  BY <1>1, <1>2, ClaimedStep
-----------------------------------------------------------------------------
(* Attempts.  A row's number of attempts is that of the claim which holds  *)
(* it, so the claim's own number decides rightly whether to try again.     *)

CurrentClaims == \A c \in Claimed : status[c.job] = "processing" => c.att = attempts[c.job]

(* Only a claim counts an attempt, one at a time.                          *)
LEMMA AttemptsStep ==
  ASSUME TypeOK, [Next]_vars
  PROVE  \/ UNCHANGED attempts
         \/ /\ Claim \/ ClaimLost
            /\ \A j \in Jobs \ NextBatch : attempts'[j] = attempts[j]
            /\ \A j \in NextBatch : attempts'[j] <= attempts[j] + 1
<1> USE DEF table
<1>1. CASE Requests \/ Poll \/ (\E c \in batch : Feed(c)) \/ StopFeeding \/ CloseQueue
  BY <1>1 DEF Requests, InsertJob, InsertOriginal, Rollback, DeleteIfNotProcessing, RemoveRow,
     Poll, ResetStuck, Feed, StopFeeding, CloseQueue
<1>2. CASE Claim \/ ClaimLost
  <2>1. ClaimPending(NextBatch)
    BY <1>2 DEF Claim, ClaimLost
  <2>2. \A j \in Jobs : attempts[j] \in Int
    BY PoolAssumption DEF TypeOK
  <2>3. \A j \in Jobs : attempts'[j] = IF j \in NextBatch THEN AtMost(attempts[j] + 1, AttemptCap)
                                                          ELSE attempts[j]
    BY <2>1 DEF ClaimPending
  <2>4. \A n \in Int : AtMost(n + 1, AttemptCap) <= n + 1
    BY PoolAssumption DEF AtMost
  <2>5. QED
    BY <1>2, <2>2, <2>3, <2>4, NextBatchType
<1>3. ASSUME NEW w \in Workers, Process(w) PROVE UNCHANGED attempts
  BY <1>3, WorksFrame, ReportsFrame, ProcessSplit DEF Receive, WorkerExits
<1>4. CASE Start \/ Crash \/ Stop \/ Exit \/ Tick \/ UNCHANGED vars
  BY <1>4 DEF Start, ResetStuck, Crash, Stop, Exit, ProcessDies, Tick, vars
<1>5. QED
  BY <1>1, <1>2, <1>3, <1>4 DEF Next, Dispatch

LEMMA CurrentClaimsStep ==
  ASSUME TypeOK, BusyHasTask, HeldProcessing, CurrentClaims, [Next]_vars
  PROVE  CurrentClaims'
<1> SUFFICES ASSUME NEW c \in Claimed', status'[c.job] = "processing"
             PROVE  c.att = attempts'[c.job]
  BY DEF CurrentClaims
<1>1. CASE c \in Claimed
  <2>1. c.job \in Jobs /\ c.job \notin NextBatch
    BY <1>1, ClaimedType, FreshClaims DEF Claims
  <2>2. status[c.job] = "processing"
    BY <1>1, <2>1, NextGrows DEF HeldProcessing, TableGrows
  <2>3. QED
    BY <1>1, <2>1, <2>2, AttemptsStep DEF CurrentClaims
<1>2. QED
  BY <1>1, ClaimedStep

LEMMA FaultsStep ==
  ASSUME TypeOK, [Next]_vars
  PROVE  /\ faults \in Nat
         /\ faults' = faults \/ faults' = faults + 1
         /\ (ClaimLost \/ (\E w \in Workers : OutcomeLost(w)) \/ Crash \/ Stop)
              => faults' = faults + 1
<1>1. faults \in Nat
  BY PoolAssumption DEF TypeOK
<1>2. (ClaimLost \/ (\E w \in Workers : OutcomeLost(w)) \/ Crash \/ Stop)
        => faults' = faults + 1
  BY DEF ClaimLost, OutcomeLost, Crash, Stop
<1>3. ASSUME NEW w \in Workers, Process(w), ~OutcomeLost(w) PROVE UNCHANGED faults
  BY <1>3, WorksFrame, ProcessSplit DEF Receive, WorkerExits, Reports, RecordDone, RecordError
<1>4. CASE Requests \/ Poll \/ Claim \/ (\E c \in batch : Feed(c)) \/ StopFeeding \/ CloseQueue
             \/ Start \/ Exit \/ Tick \/ UNCHANGED vars
  <2>1. UNCHANGED faults
    BY <1>4 DEF Requests, InsertJob, InsertOriginal, Rollback, DeleteIfNotProcessing,
       Poll, Claim, Feed, StopFeeding, CloseQueue, Start, Exit, Tick, vars
  <2>2. ~(ClaimLost \/ (\E w \in Workers : OutcomeLost(w)) \/ Crash \/ Stop)
    BY <1>1, <1>2, <2>1
  <2>3. QED
    BY <1>1, <2>1, <2>2
<1>5. QED
  BY <1>1, <1>2, <1>3, <1>4 DEF Next, Dispatch

(* What takes a claim out of memory.                                       *)
LEMMA ClaimsKept ==
  ASSUME TypeOK, Stages, [Next]_vars, NEW c \in Claimed, c \notin Claimed'
  PROVE  \/ mode = "stopping"
         \/ faults' # faults
         \/ \E w \in Workers : Reports(w) /\ c = task[w]
<1> USE DEF Claimed, Busy
<1>1. CASE Requests \/ Poll \/ ClaimLost \/ CloseQueue \/ Stop \/ Tick \/ UNCHANGED vars
  <2>1. UNCHANGED <<batch, queue, pc, task>>
    BY <1>1 DEF Requests, InsertJob, InsertOriginal, Rollback, DeleteIfNotProcessing,
                Poll, ClaimLost, CloseQueue, Stop, Tick, vars, workers, feeder
  <2>2. QED
    BY <2>1
<1>2. CASE Claim
  BY <1>2 DEF Claim, Stages, workers
<1>3. ASSUME NEW d \in batch, Feed(d) PROVE FALSE
  <2>1. queue' = Append(queue, d) /\ batch' = batch \ {d} /\ UNCHANGED <<pc, task>>
    BY <1>3 DEF Feed, workers
  <2>2. queue \in Seq(Claims) /\ d \in Claims
    BY DEF TypeOK
  <2>3. /\ Len(queue) + 1 \in DOMAIN queue' /\ queue'[Len(queue) + 1] = d
        /\ \A i \in DOMAIN queue : i \in DOMAIN queue' /\ queue'[i] = queue[i]
    BY <2>1, <2>2
  <2>4. QED
    BY <2>1, <2>3
<1>4. ASSUME NEW w \in Workers, Process(w) PROVE Reports(w) /\ c = task[w]
  <2>1. CASE Receive(w)
    <3>1. queue \in Seq(Claims) /\ queue # <<>> /\ queue' = Tail(queue)
      BY <2>1 DEF Receive, TypeOK
    <3>2. \A i \in DOMAIN queue : i = 1 \/ (i - 1 \in DOMAIN queue' /\ queue'[i - 1] = queue[i])
      BY <3>1
    <3>3. /\ task'[w] = queue[1] /\ Busy(w)' /\ UNCHANGED batch
          /\ \A v \in Workers : Busy(v) => Busy(v)' /\ task'[v] = task[v]
      BY <2>1, <3>1 DEF Receive, Goto, TypeOK, feeder
    <3>4. QED
      BY <3>2, <3>3
  <2>2. CASE WorkerExits(w)
    BY <2>2 DEF WorkerExits, Goto, TypeOK, feeder
  <2>3. CASE Works(w)
    <3>1. /\ UNCHANGED <<batch, queue, task>>
          /\ \A v \in Workers : Busy(v) => Busy(v)'
      BY <2>3, WorksFrame
    <3>2. QED
      BY <3>1
  <2>4. CASE Reports(w)
    <3>1. /\ UNCHANGED <<batch, queue>>
          /\ \A v \in Workers \ {w} : Busy(v) => Busy(v)' /\ task'[v] = task[v]
      BY <2>4, ReportsFrame
    <3>2. QED
      BY <2>4, <3>1
  <2>5. QED
    BY <1>4, <2>1, <2>2, <2>3, <2>4, ProcessSplit
<1>5. CASE Start
  BY <1>5 DEF Start, Stages
<1>6. CASE Crash
  BY <1>6, FaultsStep
<1>7. CASE StopFeeding \/ Exit
  BY <1>7 DEF StopFeeding, Exit
<1>8. QED
  BY <1>1, <1>2, <1>3, <1>4, <1>5, <1>6, <1>7 DEF Next, Dispatch

(* A finished row is touched by a stale report only.                       *)
LEMMA SettledStays ==
  ASSUME TypeOK, BusyHasTask, [Next]_vars, NEW j \in Jobs, status[j] \in {"done", "failed"}
  PROVE  \/ status'[j] \in {status[j], "deleted"}
         \/ \E w \in Workers : Reports(w) /\ Job(w) = j
<1> USE DEF table
<1>1. CASE Requests
  BY <1>1 DEF Requests, InsertJob, InsertOriginal, Rollback, DeleteIfNotProcessing,
     RemoveRow, Rewrite, TypeOK
<1>2. CASE Poll \/ Start
  BY <1>2 DEF Poll, Start, ResetStuck, Stuck, Rewrite, TypeOK
<1>3. CASE Claim \/ ClaimLost
  BY <1>3 DEF Claim, ClaimLost, ClaimPending, NextBatch, Eligible, Rewrite, TypeOK
<1>4. ASSUME NEW w \in Workers, Process(w)
      PROVE  status'[j] = status[j] \/ (Reports(w) /\ Job(w) = j)
  <2>1. CASE Receive(w) \/ WorkerExits(w) \/ Works(w)
    BY <2>1, WorksFrame DEF Receive, WorkerExits, TypeOK
  <2>2. CASE Reports(w)
    <3>1. \/ UNCHANGED status
          \/ \E to, S : status' = [i \in Jobs |-> IF i \in {Job(w)} \cap S THEN to ELSE status[i]]
      BY <2>2 DEF Reports, RecordDone, RecordError, OutcomeLost, MarkDone, MarkFailed,
         MarkForRetry, Rewrite
    <3>2. QED
      BY <2>2, <3>1 DEF TypeOK
  <2>3. QED
    BY <1>4, <2>1, <2>2, ProcessSplit
<1>5. CASE (\E c \in batch : Feed(c)) \/ StopFeeding \/ CloseQueue
             \/ Crash \/ Stop \/ Exit \/ Tick \/ UNCHANGED vars
  BY <1>5 DEF Feed, StopFeeding, CloseQueue, Crash, Stop, Exit, ProcessDies, Tick, vars, TypeOK
<1>6. QED
  BY <1>1, <1>2, <1>3, <1>4, <1>5 DEF Next, Dispatch

(* A job that nobody holds and that is not finished.                       *)
Waiting(j) == status[j] \in {"pending", "processing"} /\ \A c \in Claimed : c.job # j

(* The retry budget: a job may be given out again only below its limit.    *)
Budget ==
  \A j \in Jobs :
    /\ status[j] = "absent" => attempts[j] = 0
    /\ attempts[j] <= MaxRetries + 1 + faults
    /\ Waiting(j) \/ mode = "stopping" => attempts[j] <= MaxRetries + faults

LEMMA WaitingStep ==
  ASSUME TypeOK, BusyHasTask, Stages, HeldProcessing, CurrentClaims, [Next]_vars,
         NEW j \in Jobs, Waiting(j)', faults' = faults, mode # "stopping",
         status[j] # "absent", ~Waiting(j)
  PROVE  attempts[j] <= MaxRetries
<1>0. faults \in Nat
  BY FaultsStep
<1>1. ASSUME NEW w \in Workers, Reports(w), Job(w) = j
      PROVE  attempts[j] <= MaxRetries
  <2>1. Busy(w) /\ task[w] \in Claimed
    BY <1>1, ReportsFrame, HeldType
  <2>2. status[j] = "processing"
    <3>1. status[j] \in {"processing", "deleted"}
      BY <1>1, <2>1 DEF HeldProcessing, Job
    <3>2. status[j] # "deleted"
      BY NextGrows DEF TableGrows, Waiting
    <3>3. QED
      BY <3>1, <3>2
  <2>3. task[w].att = attempts[j]
    BY <1>1, <2>1, <2>2 DEF CurrentClaims, Job
  <2>4. ~OutcomeLost(w)
    BY <1>0, FaultsStep
  <2>5. ~RecordDone(w)
    BY <1>1, <2>2 DEF RecordDone, MarkDone, Rewrite, Waiting
  <2>6. ~MarkFailed(Job(w))
    BY <1>1, <2>2 DEF MarkFailed, Rewrite, RowExists, Waiting
  <2>7. QED
    BY <1>1, <2>3, <2>4, <2>5, <2>6 DEF Reports, RecordError
<1>2. CASE status[j] \in {"pending", "processing"}
  <2>1. PICK c \in Claimed : c.job = j
    BY <1>2 DEF Waiting
  <2>2. c \notin Claimed'
    BY <2>1 DEF Waiting
  <2>3. QED
    BY <1>1, <2>1, <2>2, ClaimsKept DEF Job
<1>3. CASE status[j] \in {"done", "failed"}
  BY <1>1, <1>3, SettledStays DEF Waiting
<1>4. CASE status[j] = "deleted"
  BY <1>4, NextGrows DEF TableGrows, Waiting
<1>5. status[j] \in Status
  BY DEF TypeOK
<1>6. QED
  BY <1>2, <1>3, <1>4, <1>5 DEF Status

LEMMA BudgetStep ==
  ASSUME TypeOK, BusyHasTask, Stages, HeldProcessing, CurrentClaims, Budget, [Next]_vars
  PROVE  Budget'
<1>1. TypeOK'
  BY TypeCorrectNext
<1> SUFFICES ASSUME NEW j \in Jobs
             PROVE  /\ status'[j] = "absent" => attempts'[j] = 0
                    /\ attempts'[j] <= MaxRetries + 1 + faults'
                    /\ Waiting(j)' \/ mode' = "stopping" => attempts'[j] <= MaxRetries + faults'
  BY DEF Budget
<1> DEFINE a == attempts[j]
           b == attempts'[j]
<1>2. a \in Nat /\ b \in Nat
  BY <1>1, PoolAssumption DEF TypeOK
<1>3. /\ faults \in Nat
      /\ faults' = faults \/ faults' = faults + 1
  BY FaultsStep
<1>4. /\ status[j] = "absent" => a = 0
      /\ a <= MaxRetries + 1 + faults
      /\ Waiting(j) \/ mode = "stopping" => a <= MaxRetries + faults
  BY DEF Budget
<1>5. CASE (Claim \/ ClaimLost) /\ j \in NextBatch
  <2>1. status[j] = "pending" /\ Waiting(j)
    BY <1>5, FreshClaims DEF Waiting, NextBatch, Eligible
  <2>2. a <= MaxRetries + faults /\ b <= a + 1
    <3>1. a <= MaxRetries + faults
      BY <1>4, <2>1
    <3>2. UNCHANGED attempts \/ b <= a + 1
      BY <1>5, AttemptsStep
    <3> HIDE DEF a, b
    <3>3. UNCHANGED attempts => b = a
      BY DEF a, b
    <3>4. QED
      BY <1>2, <3>1, <3>2, <3>3
  <2>3. status'[j] = "processing" /\ mode' # "stopping"
    BY <1>5 DEF Claim, ClaimLost, ClaimPending, Rewrite
  <2>4. CASE Claim
    <3>1. [job |-> j, att |-> b] \in Claimed'
      BY <1>5, <2>4 DEF Claim, Claimed
    <3>2. ~Waiting(j)'
      BY <3>1 DEF Waiting
    <3> HIDE DEF a, b
    <3>3. b <= MaxRetries + 1 + faults'
      BY <1>2, <1>3, <2>2, PoolAssumption
    <3>4. QED
      BY <2>3, <3>2, <3>3 DEF b
  <2>5. CASE ClaimLost
    <3>1. faults' = faults + 1
      BY <2>5 DEF ClaimLost
    <3> HIDE DEF a, b
    <3>2. b <= MaxRetries + faults' /\ b <= MaxRetries + 1 + faults'
      BY <1>2, <1>3, <2>2, <3>1, PoolAssumption
    <3>3. QED
      BY <2>3, <3>2 DEF b
  <2>6. QED
    BY <1>5, <2>4, <2>5
<1>6. CASE b = a
  <2>1. status'[j] = "absent" => b = 0
    BY <1>4, <1>6, NextGrows DEF TableGrows
  <2> HIDE DEF a, b
  <2>2. b <= MaxRetries + 1 + faults'
    BY <1>2, <1>3, <1>4, <1>6, PoolAssumption
  <2>3. Waiting(j)' \/ mode' = "stopping" => b <= MaxRetries + faults'
    <3>1. CASE faults' = faults + 1
      BY <1>2, <1>3, <1>4, <1>6, <3>1, PoolAssumption
    <3>2. CASE faults' = faults
      <4>1. mode' = "stopping" => mode = "stopping"
        <5>1. UNCHANGED mode \/ mode' \in {"up", "down"} \/ Stop
          BY WorksFrame, ReportsFrame, ProcessSplit DEF Next, Requests, InsertJob, InsertOriginal,
             Rollback, DeleteIfNotProcessing, Dispatch, Poll, Claim, ClaimLost, Feed, StopFeeding,
             CloseQueue, Receive, WorkerExits, Start, Crash, Exit, ProcessDies, Tick, vars
        <5>2. ~Stop
          BY <1>3, <3>2, FaultsStep
        <5>3. QED
          BY <5>1, <5>2
      <4>2. CASE Waiting(j) \/ mode = "stopping"
        BY <1>4, <1>6, <3>2, <4>2
      <4>3. CASE status[j] = "absent"
        BY <1>3, <1>4, <1>6, <3>2, <4>3, PoolAssumption
      <4>4. ASSUME ~Waiting(j), mode # "stopping", status[j] # "absent", Waiting(j)'
            PROVE  b <= MaxRetries + faults'
        <5>1. a <= MaxRetries
          BY <3>2, <4>4, WaitingStep DEF a
        <5>2. QED
          BY <1>2, <1>3, <1>6, <5>1, PoolAssumption
      <4>5. QED
        BY <4>1, <4>2, <4>3, <4>4
    <3>3. QED
      BY <1>3, <3>1, <3>2
  <2>4. QED
    BY <2>1, <2>2, <2>3 DEF b
<1>7. QED
  BY <1>5, <1>6, AttemptsStep
-----------------------------------------------------------------------------
(* Previews and mails.                                                     *)

(* A processor about to insert a preview row is the first to do so.        *)
OnePreview ==
  /\ SinglePreview
  /\ \A w \in Workers :
       pc[w] = "write" /\ found[w] = 0 /\ RowExists(Job(w)) => previews[Job(w)] = 0

LEMMA PreviewsStep ==
  ASSUME TypeOK, [Next]_vars
  PROVE  \/ UNCHANGED previews
         \/ \E j \in Jobs : RemoveRow(j)
         \/ \E w \in Workers : WritePreview(w) /\ found[w] = 0
<1> USE DEF assets
<1>1. CASE Requests
  BY <1>1 DEF Requests, InsertJob, InsertOriginal, Rollback, DeleteIfNotProcessing
<1>2. ASSUME NEW w \in Workers, Process(w), ~(WritePreview(w) /\ found[w] = 0)
      PROVE  UNCHANGED previews
  BY <1>2 DEF Process, Receive, WorkerExits, LoadOriginal, Encode, LookupPreview, WritePreview,
     Notify, ProcessError, RecordDone, RecordError, OutcomeLost
<1>3. CASE Dispatch \/ Start \/ Crash \/ Stop \/ Exit \/ Tick \/ UNCHANGED vars
  BY <1>3 DEF Dispatch, Poll, Claim, ClaimLost, Feed, StopFeeding, CloseQueue, Start, Crash,
     Stop, Exit, ProcessDies, Tick, vars
<1>4. QED
  BY <1>1, <1>2, <1>3 DEF Next

(* How a processor comes to be about to write.                             *)
LEMMA WriteStep ==
  ASSUME TypeOK, [Next]_vars, NEW w \in Workers, pc'[w] = "write"
  PROVE  \/ pc[w] = "write" /\ UNCHANGED <<task[w], found[w]>> /\ ~WritePreview(w)
         \/ LookupPreview(w)
<1>1. ASSUME NEW v \in Workers, Process(v), v # w
      PROVE  UNCHANGED <<pc[w], task[w], found[w]>>
  BY <1>1, OthersFrame
<1>2. CASE Process(w)
  <2>1. CASE Receive(w) \/ WorkerExits(w) \/ LoadOriginal(w) \/ Encode(w) \/ ProcessError(w)
               \/ WritePreview(w) \/ Notify(w)
    BY <2>1 DEF Receive, WorkerExits, LoadOriginal, Encode, ProcessError, WritePreview, Notify,
       Goto, TypeOK
  <2>2. CASE Reports(w)
    BY <2>2, ReportsFrame
  <2>3. QED
    BY <1>2, <2>1, <2>2 DEF Process, Reports
<1>3. CASE Start \/ Crash \/ Exit
  BY <1>3 DEF Start, Crash, Exit, ProcessDies
<1>4. ASSUME UNCHANGED <<pc[w], task[w], found[w]>>, ~LookupPreview(w)
      PROVE  pc[w] = "write" /\ ~WritePreview(w)
  BY <1>4 DEF WritePreview, Goto, TypeOK
<1>5. CASE Requests \/ Dispatch \/ Stop \/ Tick \/ UNCHANGED vars
  <2>1. UNCHANGED <<pc, task, found>>
    BY <1>5 DEF Requests, InsertJob, InsertOriginal, Rollback, DeleteIfNotProcessing,
       Dispatch, Poll, Claim, ClaimLost, Feed, StopFeeding, CloseQueue, Stop, Tick, vars, workers
  <2>2. QED
    BY <1>4, <2>1
<1>6. QED
  BY <1>1, <1>2, <1>3, <1>4, <1>5 DEF Next

LEMMA OnePreviewStep ==
  ASSUME TypeOK, PoolInv, Distinct, OnePreview, [Next]_vars
  PROVE  OnePreview'
<1>0. BusyHasTask /\ ClaimsCounted /\ TypeOK'
  BY TypeCorrectNext DEF PoolInv
<1>1. \A j \in Jobs : previews[j] \in Nat /\ previews'[j] \in Nat
  BY <1>0 DEF TypeOK
<1>2. ASSUME NEW w \in Workers, WritePreview(w), found[w] = 0
      PROVE  /\ Busy(w) /\ Job(w) \in Jobs
             /\ previews' = [previews EXCEPT ![Job(w)] = 1]
  <2>1. /\ previews' = [previews EXCEPT ![Job(w)] = @ + 1]
        /\ pc[w] = "write" /\ RowExists(Job(w))
    BY <1>2 DEF WritePreview
  <2>2. previews[Job(w)] = 0
    BY <1>2, <2>1 DEF OnePreview
  <2>3. Busy(w) /\ Job(w) \in Jobs
    BY <1>0, <2>1, HeldType DEF Busy
  <2>4. QED
    BY <2>1, <2>2, <2>3
<1>3. SinglePreview'
  <2> SUFFICES ASSUME NEW j \in Jobs PROVE previews'[j] <= 1
    BY DEF SinglePreview
  <2>1. previews[j] <= 1
    BY DEF OnePreview, SinglePreview
  <2>2. previews'[j] \in {previews[j], 0, 1}
    <3>1. \A i \in Jobs : RemoveRow(i) => previews'[j] \in {previews[j], 0}
      BY DEF RemoveRow, TypeOK
    <3>2. \A w \in Workers : WritePreview(w) /\ found[w] = 0 => previews'[j] \in {previews[j], 1}
      BY <1>2 DEF TypeOK
    <3>3. QED
      BY <3>1, <3>2, PreviewsStep
  <2>3. QED
    BY <1>1, <2>1, <2>2
<1>4. ASSUME NEW w \in Workers, pc'[w] = "write", found'[w] = 0, RowExists(Job(w))'
      PROVE  previews'[Job(w)'] = 0
  <2>1. CASE LookupPreview(w)
    <3>1. Job(w) \in Jobs /\ Job(w)' = Job(w)
      BY <1>0, <2>1, HeldType DEF LookupPreview, Busy, Job
    <3>2. AtMost(previews[Job(w)], 1) = 0 /\ UNCHANGED previews
      BY <1>4, <2>1 DEF LookupPreview, TypeOK, assets
    <3>3. previews[Job(w)] = 0
      BY <1>1, <3>1, <3>2 DEF AtMost
    <3>4. QED
      BY <3>1, <3>2, <3>3
  <2>2. CASE pc[w] = "write" /\ UNCHANGED <<task[w], found[w]>> /\ ~WritePreview(w)
    <3>1. Busy(w) /\ Job(w) \in Jobs /\ Job(w)' = Job(w) /\ status[Job(w)] # "absent"
      BY <1>0, <2>2, HeldJob DEF Busy, Job
    <3>2. RowExists(Job(w))
      BY <1>0, <1>4, <3>1, NextGrows DEF TableGrows, RowExists
    <3>3. previews[Job(w)] = 0
      BY <1>4, <2>2, <3>2 DEF OnePreview
    <3>4. \A j \in Jobs : RemoveRow(j) => previews'[Job(w)] = 0
      BY <3>1, <3>3 DEF RemoveRow, TypeOK
    <3>5. \A v \in Workers : WritePreview(v) /\ found[v] = 0 => previews'[Job(w)] = 0
      BY <1>2, <2>2, <3>1, <3>3 DEF Distinct, TypeOK
    <3>6. QED
      BY <3>1, <3>3, <3>4, <3>5, PreviewsStep
  <2>3. QED
    BY <1>4, <2>1, <2>2, WriteStep
<1>5. QED
  BY <1>3, <1>4 DEF OnePreview

(* The recipient is told right before the job is recorded as done.         *)
Recording(j) == \E w \in Workers : pc[w] = "markDone" /\ Job(w) = j

Told ==
  faults = 0 =>
    \A j \in Jobs : mailed[j] # {} =>
      /\ \E m : mailed[j] = {m}
      /\ Recording(j) \/ (status[j] \in {"done", "deleted"} /\ \A c \in Claimed : c.job # j)

LEMMA RecordingStep ==
  ASSUME TypeOK, BusyHasTask, Stages, Distinct, HeldProcessing, [Next]_vars, faults' = 0,
         NEW j \in Jobs, Recording(j)
  PROVE  \/ Recording(j)'
         \/ status'[j] \in {"done", "deleted"} /\ \A c \in Claimed' : c.job # j
<1>1. faults = 0 /\ faults' = faults
  BY FaultsStep
<1>2. PICK w \in Workers : pc[w] = "markDone" /\ Job(w) = j
  BY DEF Recording
<1>3. task[w] \in Claimed /\ Busy(w) /\ mode \notin {"down", "stopping"}
  BY <1>1, <1>2, HeldType DEF Busy, Stages
<1>4. CASE Reports(w)
  <2>1. RecordDone(w)
    <3>1. ~OutcomeLost(w)
      BY <1>1, FaultsStep
    <3>2. ~RecordError(w)
      BY <1>2 DEF RecordError
    <3>3. QED
      BY <1>4, <3>1, <3>2 DEF Reports
  <2>2. status[j] \in {"processing", "deleted"}
    BY <1>2, <1>3 DEF HeldProcessing, Job
  <2>3. status'[j] \in {"done", "deleted"}
    BY <1>2, <2>1, <2>2 DEF RecordDone, MarkDone, Rewrite
  <2>4. QED
    BY <1>2, <1>4, <2>3, ReportFrees
<1>5. CASE ~Reports(w)
  <2>1. pc'[w] = pc[w] /\ task'[w] = task[w]
    <3>1. CASE Requests \/ Dispatch \/ Stop \/ Tick \/ UNCHANGED vars
      BY <3>1 DEF Requests, InsertJob, InsertOriginal, Rollback, DeleteIfNotProcessing,
         Dispatch, Poll, Claim, ClaimLost, Feed, StopFeeding, CloseQueue, Stop, Tick, vars, workers
    <3>2. CASE Start \/ Crash \/ Exit
      BY <1>1, <1>3, <3>2, FaultsStep DEF Start, Exit
    <3>3. ASSUME NEW v \in Workers, Process(v) PROVE pc'[w] = pc[w] /\ task'[w] = task[w]
      <4>1. CASE v = w
        <5>1. ~(Receive(w) \/ WorkerExits(w) \/ Works(w))
          BY <1>2, WorksFrame DEF Receive, WorkerExits
        <5>2. QED
          BY <1>5, <3>3, <4>1, <5>1, ProcessSplit
      <4>2. CASE v # w
        BY <3>3, <4>2, OthersFrame
      <4>3. QED
        BY <4>1, <4>2
    <3>4. QED
      BY <3>1, <3>2, <3>3 DEF Next
  <2>2. QED
    BY <1>2, <2>1 DEF Recording, Job
<1>6. QED
  BY <1>4, <1>5

LEMMA ToldStep ==
  ASSUME TypeOK, BusyHasTask, Stages, Distinct, HeldProcessing, Told, [Next]_vars
  PROVE  Told'
<1> SUFFICES ASSUME faults' = 0, NEW j \in Jobs, mailed'[j] # {}
             PROVE  /\ \E m : mailed'[j] = {m}
                    /\ \/ Recording(j)'
                       \/ status'[j] \in {"done", "deleted"} /\ \A c \in Claimed' : c.job # j
  BY DEF Told
<1>1. faults = 0
  BY FaultsStep
<1>2. CASE mailed'[j] = mailed[j]
  <2>1. /\ \E m : mailed[j] = {m}
        /\ Recording(j) \/ (status[j] \in {"done", "deleted"} /\ \A c \in Claimed : c.job # j)
    BY <1>1, <1>2 DEF Told
  <2>2. CASE Recording(j)
    BY <1>2, <2>1, <2>2, RecordingStep
  <2>3. CASE status[j] \in {"done", "deleted"} /\ \A c \in Claimed : c.job # j
    <3>1. \A w \in Workers : Reports(w) => Job(w) # j
      BY <2>3, ReportsFrame, HeldType DEF Job
    <3>2. status'[j] \in {"done", "deleted"}
      BY <2>3, <3>1, SettledStays, NextGrows DEF TableGrows
    <3>3. j \notin NextBatch
      BY <2>3 DEF NextBatch, Eligible
    <3>4. \A c \in Claimed' : c.job # j
      BY <2>3, <3>3, ClaimedStep
    <3>5. QED
      BY <1>2, <2>1, <3>2, <3>4
  <2>4. QED
    BY <2>1, <2>2, <2>3
<1>3. CASE mailed'[j] # mailed[j]
  <2>1. PICK w \in Workers :
          /\ Notify(w)
          /\ mailed' = [mailed EXCEPT ![Job(w)] = @ \cup {<<found[w], task[w].att>>}]
    BY <1>3, MailedStep
  <2>2. /\ Job(w) = j /\ pc[w] = "notify" /\ pc'[w] = "markDone" /\ UNCHANGED task
        /\ mailed'[j] = mailed[j] \cup {<<found[w], task[w].att>>}
    BY <1>3, <2>1 DEF Notify, Goto, TypeOK
  <2>3. Busy(w) /\ task[w] \in Claimed
    BY <2>2, HeldType DEF Busy
  <2>4. ~Recording(j)
    BY <2>2, <2>3 DEF Recording, Distinct, Busy
  <2>5. mailed[j] = {}
    BY <1>1, <2>2, <2>3, <2>4 DEF Told, Job
  <2>6. QED
    BY <2>2, <2>5 DEF Recording, Job
<1>4. QED
  BY <1>2, <1>3

(* The row precedes its upload.                                            *)
Uploads == \A j \in Jobs : upload[j] = "storing" => status[j] # "absent"

LEMMA UploadsStep == ASSUME TypeOK, BusyHasTask, Uploads, [Next]_vars PROVE Uploads'
<1>1. TableGrows
  BY NextGrows
<1>2. ASSUME \A j \in Jobs : upload'[j] = "storing" => upload[j] = "storing" PROVE Uploads'
  BY <1>1, <1>2 DEF Uploads, TableGrows
<1>3. ASSUME NEW j \in Jobs, InsertJob(j) PROVE Uploads'
  <2>1. status'[j] = "pending" /\ \A i \in Jobs \ {j} : upload'[i] = upload[i]
    BY <1>3 DEF InsertJob, Rewrite, TypeOK
  <2>2. QED
    BY <1>1, <2>1 DEF Uploads, TableGrows
<1>4. ASSUME NEW j \in Jobs, InsertOriginal(j) \/ Rollback(j) \/ DeleteIfNotProcessing(j)
      PROVE  Uploads'
  BY <1>2, <1>4 DEF InsertOriginal, Rollback, DeleteIfNotProcessing, TypeOK
<1>5. CASE Dispatch \/ Start \/ Stop \/ Tick \/ UNCHANGED vars
  BY <1>2, <1>5 DEF Dispatch, Poll, Claim, ClaimLost, Feed, StopFeeding, CloseQueue, Start, Stop,
     Tick, vars
<1>6. CASE Crash \/ Exit
  BY <1>2, <1>6 DEF Crash, Exit, ProcessDies
<1>7. ASSUME NEW w \in Workers, Process(w) PROVE Uploads'
  <2>1. UNCHANGED upload
    BY <1>7, WorksFrame, ReportsFrame, ProcessSplit DEF Receive, WorkerExits
  <2>2. QED
    BY <1>2, <2>1
<1>8. QED
  BY <1>3, <1>4, <1>5, <1>6, <1>7 DEF Next, Requests
-----------------------------------------------------------------------------
(* Where the processors are, how full the channel is and how old a claim   *)
(* may be for its place in line: whatever the configuration.               *)
LEMMA LineInvariance == Spec => [](IInv /\ Stages /\ Room /\ InTime)
<1>1. Init => Stages /\ Room /\ InTime
  <2> SUFFICES ASSUME Init PROVE Stages /\ Room /\ InTime
    OBVIOUS
  <2>1. /\ queue = <<>> /\ batch = {} /\ \A w \in Workers : ~Busy(w)
    BY DEF Init, Busy
  <2>2. Stages
    BY DEF Init, Stages
  <2>3. Room
    BY <2>1, FS_EmptySet, PoolAssumption DEF Room
  <2>4. InTime
    BY <2>1 DEF InTime, QueueInTime, BatchInTime, BusyInTime
  <2>5. QED
    BY <2>2, <2>3, <2>4
<1>2. IInv /\ Stages /\ Room /\ InTime /\ IInv' /\ [Next]_vars => Stages' /\ Room' /\ InTime'
  BY StagesStep, RoomStep, InTimeStep DEF IInv, PoolInv
<1>3. QED
  BY <1>1, <1>2, Invariance, PTL DEF Spec

(* A pool whose timeouts are sized for its queue is timely whatever its    *)
(* jobs do: a claim is through before resetStuck looks for it              *)
(* (worker.go dispatch, config/main.go:369).                               *)
THEOREM SizedIsTimely == Sized /\ Spec => []Timely
<1>1. Sized /\ IInv /\ Stages /\ Room /\ InTime => Timely
  BY InTimeTimely DEF IInv, PoolInv
<1>2. CASE ~Sized
  BY <1>2, PTL
<1>3. CASE Sized
  <2>1. IInv /\ Stages /\ Room /\ InTime => Timely
    BY <1>1, <1>3
  <2>2. QED
    BY <2>1, LineInvariance, PTL
<1>4. QED
  BY <1>2, <1>3

(* The inductive invariant of a timely pool.  Each part needs the others:  *)
(* a job is nobody else's because its claim is timely, and previews, mails *)
(* and attempts count right because the job is nobody else's.              *)
SafeInv ==
  /\ IInv
  /\ Stages
  /\ Distinct /\ HeldProcessing
  /\ CurrentClaims /\ Budget
  /\ OnePreview /\ Told
  /\ Uploads

LEMMA InitSafe == Init => SafeInv
<1> SUFFICES ASSUME Init PROVE SafeInv
  OBVIOUS
<1>1. IInv
  BY InitInv
<1>2. /\ queue = <<>> /\ batch = {} /\ faults = 0
      /\ \A w \in Workers : pc[w] = "exited" /\ elapsed[w] = 0
  BY DEF Init
<1>3. Claimed = {} /\ \A w \in Workers : ~Busy(w)
  BY <1>2 DEF Claimed, Busy
<1>4. Stages
  BY <1>2 DEF Init, Stages
<1>5. Distinct
  BY <1>2, <1>3 DEF Distinct
<1>6. HeldProcessing /\ CurrentClaims
  BY <1>3 DEF HeldProcessing, CurrentClaims
<1>7. Budget
  BY <1>2, PoolAssumption DEF Init, Budget, Waiting
<1>8. OnePreview /\ Told /\ Uploads
  BY <1>2 DEF Init, OnePreview, SinglePreview, Told, Uploads
<1>9. QED
  BY <1>1, <1>4, <1>5, <1>6, <1>7, <1>8 DEF SafeInv

LEMMA NextSafe == SafeInv /\ Timely /\ [Next]_vars => SafeInv'
<1> SUFFICES ASSUME SafeInv, Timely, [Next]_vars PROVE SafeInv'
  OBVIOUS
<1>1. /\ TypeOK /\ PoolInv /\ BusyHasTask /\ Stages /\ Distinct
      /\ HeldProcessing /\ CurrentClaims /\ Budget /\ OnePreview /\ Told /\ Uploads
  BY DEF SafeInv, IInv, PoolInv
<1>2. IInv'
  BY NextInv, <1>1 DEF IInv
<1>3. Stages'
  BY <1>1, StagesStep
<1>4. Distinct' /\ HeldProcessing'
  BY <1>1, DistinctStep, HeldProcessingStep
<1>5. CurrentClaims' /\ Budget'
  BY <1>1, CurrentClaimsStep, BudgetStep
<1>6. OnePreview' /\ Told' /\ Uploads'
  BY <1>1, OnePreviewStep, ToldStep, UploadsStep
<1>7. QED
  BY <1>2, <1>3, <1>4, <1>5, <1>6 DEF SafeInv

(* As long as the pool is timely, SafeInv holds, for every configuration   *)
(* that config/main.go admits.                                             *)
THEOREM SafeInvariance == Spec /\ []Timely => []SafeInv
<1>1. QED
  BY InitSafe, NextSafe, PTL DEF Spec

(* A job is in one place of the pool at a time, and its row is processing  *)
(* until its outcome is recorded, unless its own upload withdrew it        *)
(* (worker.go resetStuck against dispatch and work).                       *)
THEOREM ClaimsAreSafe == Spec /\ []Timely => []ClaimIsSafe
<1>1. SafeInv => ClaimIsSafe
  <2> SUFFICES ASSUME SafeInv PROVE ClaimIsSafe
    OBVIOUS
  <2>1. TypeOK /\ BusyHasTask /\ Distinct /\ HeldProcessing
    BY DEF SafeInv, IInv, PoolInv
  <2>2. \A i \in DOMAIN queue : i \in 1..Len(queue)
    BY <2>1 DEF TypeOK
  <2>3. \A h \in Held : \/ \E c \in batch : h = <<"batch", 0, c>>
                        \/ \E i \in 1..Len(queue) : h = <<"queue", i, queue[i]>>
                        \/ \E w \in Workers : Busy(w) /\ h = <<"processor", w, task[w]>>
    BY <2>2 DEF Held
  <2>4. OneHolder
    BY <2>1, <2>3 DEF OneHolder, Distinct, Job
  <2>5. \A h \in Held : h[3] \in Claimed
    BY <2>1, <2>3, HeldType
  <2>6. HeldIsProcessing
    BY <2>1, <2>5 DEF HeldProcessing, HeldIsProcessing
  <2>7. QED
    BY <2>4, <2>6 DEF ClaimIsSafe
<1>2. QED
  BY <1>1, SafeInvariance, PTL

(* A job reprocessed after a crash, a reset or an error keeps one preview  *)
(* row (asset/repo.go UpsertPreview looks before it inserts, in two        *)
(* statements).                                                            *)
THEOREM PreviewIsSingle == Spec /\ []Timely => []SinglePreview
<1>1. SafeInv => SinglePreview
  BY DEF SafeInv, OnePreview
<1>2. QED
  BY <1>1, SafeInvariance, PTL

(* The recipient gets at most one mail as long as the server neither died  *)
(* nor lost a write (process.go PreviewReady before worker.go MarkDone).   *)
THEOREM ToldOnce == Spec /\ []Timely => []MailedOnce
<1>1. SafeInv => MailedOnce
  <2> SUFFICES ASSUME SafeInv, faults = 0, NEW j \in Jobs
               PROVE  Cardinality(mailed[j]) <= 1
    BY DEF MailedOnce
  <2>1. CASE mailed[j] = {}
    <3>1. Cardinality({}) = 0
      BY FS_EmptySet
    <3>2. QED
      BY <2>1, <3>1
  <2>2. CASE mailed[j] # {}
    <3>1. PICK m : mailed[j] = {m}
      BY <2>2 DEF SafeInv, Told
    <3>2. Cardinality({m}) = 1
      BY FS_Singleton
    <3>3. QED
      BY <3>1, <3>2
  <2>3. QED
    BY <2>1, <2>2
<1>2. QED
  BY <1>1, SafeInvariance, PTL

(* No job is attempted more often than the retry budget, the first attempt *)
(* and the faults of the server allow (worker.go handle compares the       *)
(* claim's number of attempts, not the row's).                             *)
THEOREM RetriesAreBounded == Spec /\ []Timely => []BoundedAttempts
<1>1. SafeInv => BoundedAttempts
  BY DEF SafeInv, Budget, BoundedAttempts
<1>2. QED
  BY <1>1, SafeInvariance, PTL

(* Where the processors are needs no sizing.                               *)
LEMMA StagesInvariance == Spec => [](IInv /\ Stages)
<1>1. Init => Stages
  BY DEF Init, Stages
<1>2. Stages /\ IInv /\ [Next]_vars => Stages'
  BY StagesStep DEF IInv
<1>3. QED
  BY <1>1, <1>2, Invariance, PTL DEF Spec

(* When every processor has returned after a shutdown, whatever the        *)
(* timeouts, the channel is drained (worker.go Stop waits for the          *)
(* processors' group).  What the dispatcher had claimed and not yet fed is *)
(* not: those rows stay processing until a reset finds them.               *)
THEOREM ShutdownDrains == Spec => []CleanStop
<1>1. IInv /\ Stages => CleanStop
  BY ConcurrencyAssumption DEF Stages, CleanStop
<1>2. QED
  BY <1>1, StagesInvariance, PTL
-----------------------------------------------------------------------------
(* The refinement of JobLifecycle.                                         *)

(* No step of a timely pool takes a finished job up again.                 *)
LEMMA NoStaleReport ==
  ASSUME SafeInv, NEW w \in Workers, Reports(w)
  PROVE  Job(w) \in Jobs /\ status[Job(w)] \in {"processing", "deleted"}
<1>1. TypeOK /\ BusyHasTask /\ HeldProcessing
  BY DEF SafeInv, IInv, PoolInv
<1>2. Busy(w) /\ task[w] \in Claimed /\ Job(w) \in Jobs
  BY <1>1, ReportsFrame, HeldType
<1>3. QED
  BY <1>1, <1>2 DEF HeldProcessing, Job

(* Done and failed are final until the row is deleted (job/model.go): no   *)
(* late report, retry or reset revives a job.                              *)
THEOREM FinishedStays == Spec /\ []Timely => DoneIsFinal
<1>1. SafeInv /\ [Next]_vars =>
        [\A j \in Jobs : status[j] \in {"done", "failed"} =>
           status'[j] \in {status[j], "deleted"}]_vars
  <2> SUFFICES ASSUME SafeInv, [Next]_vars, NEW j \in Jobs, status[j] \in {"done", "failed"}
               PROVE  status'[j] \in {status[j], "deleted"}
    OBVIOUS
  <2>1. TypeOK /\ BusyHasTask
    BY DEF SafeInv, IInv, PoolInv
  <2>2. QED
    BY <2>1, SettledStays, NoStaleReport
<1>2. QED
  BY <1>1, SafeInvariance, PTL DEF Spec, DoneIsFinal

LEMMA RequestLives ==
  ASSUME SafeInv, Requests
  PROVE  Lifecycle!Next
<1> DEFINE uploading == {i \in Jobs : upload[i] = "storing"}
<1> USE DEF table
<1>1. TypeOK /\ Uploads
  BY DEF SafeInv, IInv
<1>2. ASSUME NEW j \in Jobs, InsertJob(j) PROVE Lifecycle!Create(j)
  <2>1. /\ status[j] = "absent"
        /\ status' = [i \in Jobs |-> IF i \in {j} THEN "pending" ELSE status[i]]
    BY <1>2 DEF InsertJob, Rewrite
  <2>2. {i \in Jobs : upload'[i] = "storing"} = uploading \cup {j}
    BY <1>1, <1>2 DEF InsertJob, TypeOK
  <2>3. QED
    BY <2>1, <2>2 DEF Lifecycle!Create, Lifecycle!Move
<1>3. ASSUME NEW j \in Jobs, InsertOriginal(j) PROVE Lifecycle!UploadReturns(j)
  <2>1. upload[j] = "storing" /\ UNCHANGED status
    BY <1>3 DEF InsertOriginal
  <2>2. {i \in Jobs : upload'[i] = "storing"} = uploading \ {j}
    BY <1>1, <1>3 DEF InsertOriginal, TypeOK
  <2>3. QED
    BY <2>1, <2>2 DEF Lifecycle!UploadReturns
<1>4. ASSUME NEW j \in Jobs, Rollback(j) PROVE Lifecycle!Withdraw(j)
  <2>1. /\ upload[j] = "storing"
        /\ status' = [i \in Jobs |-> IF i \in {j} THEN "deleted" ELSE status[i]]
    BY <1>4 DEF Rollback, RemoveRow, Rewrite
  <2>2. {i \in Jobs : upload'[i] = "storing"} = uploading \ {j}
    BY <1>1, <1>4 DEF Rollback, TypeOK
  <2>3. status[j] \in Lifecycle!Status \ {"absent"}
    BY <1>1, <2>1 DEF Uploads, TypeOK, Status, Lifecycle!Status
  <2>4. QED
    BY <2>1, <2>2, <2>3 DEF Lifecycle!Withdraw, Lifecycle!Move
<1>5. ASSUME NEW j \in Jobs, DeleteIfNotProcessing(j) PROVE Lifecycle!Delete(j)
  <2>1. /\ status[j] \in {"pending", "done", "failed"}
        /\ status' = [i \in Jobs |-> IF i \in {j} THEN "deleted" ELSE status[i]]
        /\ UNCHANGED upload
    BY <1>1, <1>5 DEF DeleteIfNotProcessing, RemoveRow, Rewrite, RowExists, TypeOK, Status
  <2>2. QED
    BY <2>1 DEF Lifecycle!Delete, Lifecycle!Move
<1>6. QED
  BY <1>2, <1>3, <1>4, <1>5 DEF Requests, Lifecycle!Next

LEMMA DispatchLives ==
  ASSUME SafeInv, Dispatch \/ Start
  PROVE  Lifecycle!Next \/ UNCHANGED Lifecycle!vars
<1> USE DEF table
<1>1. CASE Claim \/ ClaimLost
  <2>1. /\ NextBatch \in SUBSET Jobs /\ \A j \in NextBatch : status[j] = "pending"
        /\ status' = [j \in Jobs |-> IF j \in NextBatch THEN "processing" ELSE status[j]]
        /\ UNCHANGED upload
    BY <1>1, NextBatchType DEF Claim, ClaimLost, ClaimPending, Rewrite, NextBatch, Eligible
  <2>2. Lifecycle!Claim(NextBatch)
    BY <2>1 DEF Lifecycle!Claim, Lifecycle!Move
  <2>3. QED
    BY <2>1, <2>2 DEF Lifecycle!Next
<1>2. CASE ResetStuck /\ UNCHANGED upload
  <2>1. /\ Stuck \in SUBSET Jobs /\ \A j \in Stuck : status[j] = "processing"
        /\ status' = [j \in Jobs |-> IF j \in Stuck THEN "pending" ELSE status[j]]
    BY <1>2 DEF ResetStuck, Rewrite, Stuck
  <2>2. Lifecycle!Requeue(Stuck)
    BY <1>2, <2>1 DEF Lifecycle!Requeue, Lifecycle!Move
  <2>3. QED
    BY <2>1, <2>2 DEF Lifecycle!Next
<1>3. CASE UNCHANGED <<status, upload>>
  BY <1>3 DEF Lifecycle!vars
<1>4. QED
  BY <1>1, <1>2, <1>3 DEF Dispatch, Start, Poll, Feed, StopFeeding, CloseQueue

LEMMA ProcessLives ==
  ASSUME SafeInv, NEW w \in Workers, Process(w)
  PROVE  Lifecycle!Next \/ UNCHANGED Lifecycle!vars
<1> USE DEF table
<1>1. TypeOK
  BY DEF SafeInv, IInv
<1>2. CASE Receive(w) \/ WorkerExits(w) \/ Works(w)
  <2>1. UNCHANGED <<status, upload>>
    BY <1>1, <1>2, WorksFrame DEF Receive, WorkerExits
  <2>2. QED
    BY <2>1 DEF Lifecycle!vars
<1>3. CASE Reports(w)
  <2>1. Job(w) \in Jobs /\ status[Job(w)] \in {"processing", "deleted"} /\ UNCHANGED upload
    BY <1>1, <1>3, NoStaleReport, ReportsFrame
  <2>2. \/ UNCHANGED status
        \/ /\ status[Job(w)] = "processing"
           /\ \E to \in {"done", "failed", "pending"} :
                status' = [j \in Jobs |-> IF j \in {Job(w)} THEN to ELSE status[j]]
    <3>1. ASSUME NEW S, NEW to, Rewrite({Job(w)} \cap S, to)
          PROVE  /\ Job(w) \in S =>
                      status' = [j \in Jobs |-> IF j \in {Job(w)} THEN to ELSE status[j]]
                 /\ Job(w) \notin S => UNCHANGED status
      BY <1>1, <3>1 DEF Rewrite, TypeOK
    <3>2. CASE RecordDone(w)
      BY <2>1, <3>1, <3>2 DEF RecordDone, MarkDone
    <3>3. CASE RecordError(w)
      BY <2>1, <3>1, <3>3 DEF RecordError, MarkFailed, MarkForRetry, RowExists
    <3>4. CASE OutcomeLost(w)
      BY <3>4 DEF OutcomeLost
    <3>5. QED
      BY <1>3, <3>2, <3>3, <3>4 DEF Reports
  <2>3. CASE UNCHANGED status
    BY <2>1, <2>3 DEF Lifecycle!vars
  <2>4. ASSUME status[Job(w)] = "processing", NEW to \in {"done", "failed", "pending"},
               status' = [j \in Jobs |-> IF j \in {Job(w)} THEN to ELSE status[j]]
        PROVE  Lifecycle!Next
    <3>1. \/ Lifecycle!Finish(Job(w))
          \/ Lifecycle!GiveUp(Job(w))
          \/ Lifecycle!Requeue({Job(w)})
      BY <2>1, <2>4 DEF Lifecycle!Finish, Lifecycle!GiveUp, Lifecycle!Requeue, Lifecycle!Move
    <3>2. {Job(w)} \in SUBSET Jobs
      BY <2>1
    <3>3. QED
      BY <2>1, <3>1, <3>2 DEF Lifecycle!Next
  <2>5. QED
    BY <2>2, <2>3, <2>4
<1>4. QED
  BY <1>2, <1>3, ProcessSplit

(* Every step of a timely pool is a step of the job's life in              *)
(* job/model.go, or none of its business: rows are created, claimed,       *)
(* finished, given up, requeued, deleted and withdrawn from the states the *)
(* model names only, whatever runs, crashes or is lost in between.         *)
THEOREM ImplementsLifecycle == Spec /\ []Timely => LifecycleSpec
<1>1. Init => Lifecycle!Init
  BY DEF Init, Lifecycle!Init
<1>2. SafeInv /\ [Next]_vars => [Lifecycle!Next]_(Lifecycle!vars)
  <2> SUFFICES ASSUME SafeInv, [Next]_vars
               PROVE  Lifecycle!Next \/ UNCHANGED Lifecycle!vars
    OBVIOUS
  <2>1. CASE Crash \/ Exit
    <3>1. UNCHANGED status /\ \A j \in Jobs : upload'[j] # "storing"
      BY <2>1 DEF Crash, Exit, ProcessDies, table
    <3>2. Lifecycle!UploadsLost
      BY <3>1 DEF Lifecycle!UploadsLost
    <3>3. QED
      BY <3>2 DEF Lifecycle!Next
  <2>2. CASE Stop \/ Tick \/ UNCHANGED vars
    BY <2>2 DEF Stop, Tick, vars, table, Lifecycle!vars
  <2>3. QED
    BY <2>1, <2>2, RequestLives, DispatchLives, ProcessLives DEF Next
<1>3. QED
  BY <1>1, <1>2, SafeInvariance, PTL DEF Spec, LifecycleSpec, Lifecycle!Spec
=============================================================================
