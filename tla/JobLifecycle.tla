---------------------------- MODULE JobLifecycle ----------------------------
(***************************************************************************)
(* What a job promises, whatever processes it.  internals/app/job/model.go *)
(* states the life of a job row as                                         *)
(*     pending -> processing -> done | failed                              *)
(* with the bounded retries of internals/worker (processing -> pending).   *)
(* A row can also be withdrawn by the upload that created it, or deleted   *)
(* by its operator, though never while a worker is on it.                  *)
(*                                                                         *)
(* WorkerPool implements this specification when its timeouts are sized    *)
(* for its queue; see that module.                                         *)
(***************************************************************************)
CONSTANT Jobs

VARIABLES
  status,      \* the row of each job
  uploading    \* jobs whose upload request has not returned yet

vars == <<status, uploading>>

Status == {"absent", "pending", "processing", "done", "failed", "deleted"}

Settled == {"done", "failed", "deleted"}

Init ==
  /\ status = [j \in Jobs |-> "absent"]
  /\ uploading = {}

(* The rows of S, all in a state of `from`, move to the state `to`.        *)
Move(S, from, to) ==
  /\ \A j \in S : status[j] \in from
  /\ status' = [j \in Jobs |-> IF j \in S THEN to ELSE status[j]]

(* The upload handler inserts the row before it has stored the file.       *)
Create(j) ==
  /\ Move({j}, {"absent"}, "pending")
  /\ uploading' = uploading \cup {j}

(* The upload handler returns, its file recorded.                          *)
UploadReturns(j) ==
  /\ j \in uploading
  /\ uploading' = uploading \ {j}
  /\ UNCHANGED status

(* A crash takes every request in flight with it.                          *)
UploadsLost == uploading' = {} /\ UNCHANGED status

(* A batch of pending jobs is claimed.                                     *)
Claim(S) == Move(S, {"pending"}, "processing") /\ UNCHANGED uploading

Finish(j) == Move({j}, {"processing"}, "done") /\ UNCHANGED uploading
GiveUp(j) == Move({j}, {"processing"}, "failed") /\ UNCHANGED uploading

(* Failed attempts, and attempts abandoned by a crash, go back in line.    *)
Requeue(S) == Move(S, {"processing"}, "pending") /\ UNCHANGED uploading

(* The operator deletes a job nobody is processing.                        *)
Delete(j) ==
  /\ Move({j}, {"pending", "done", "failed"}, "deleted")
  /\ UNCHANGED uploading

(* An upload that cannot be completed withdraws its own row, and nobody    *)
(* else's, whatever state the row is in.                                   *)
Withdraw(j) ==
  /\ j \in uploading
  /\ Move({j}, Status \ {"absent"}, "deleted")
  /\ uploading' = uploading \ {j}

Next ==
  \/ \E j \in Jobs : \/ Create(j) \/ UploadReturns(j) \/ Withdraw(j)
                     \/ Finish(j) \/ GiveUp(j) \/ Delete(j)
  \/ \E S \in SUBSET Jobs : Claim(S) \/ Requeue(S)
  \/ UploadsLost

Spec == Init /\ [][Next]_vars
=============================================================================
