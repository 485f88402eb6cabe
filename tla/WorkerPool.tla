----------------------------- MODULE WorkerPool -----------------------------
(***************************************************************************)
(* The in-process worker pool of internals/worker over the jobs and assets *)
(* tables: one dispatcher claims pending rows in batches and feeds them    *)
(* through a bounded channel to the processors; each processor runs the    *)
(* watermark pipeline and writes the outcome back to the row.  The other   *)
(* writers of those rows, the upload and delete requests of operators, and *)
(* the death and restart of the process are part of the module.            *)
(*                                                                         *)
(* Time is counted in ticks, coarse enough that what the code does at once *)
(* (handing a claimed job over, picking a queued job up) takes none.       *)
(* A row's clock is kept as an age and a countdown, relative to now.       *)
(***************************************************************************)
EXTENDS Integers, Sequences, FiniteSets

CONSTANTS
  Jobs,             \* job ids, numbered in the order of created_at
  Workers,          \* the processor goroutines (Concurrency of them)
  NoClaim,          \* an idle processor's task
  ClaimBatchSize,   \* LIMIT of a claim and capacity of the channel
  MaxRetries,       \* attempts allowed after the first
  RetryBackoff,     \* ticks before the first retry, doubled per attempt
  JobTimeout,       \* ticks one handling of a job may take
  StuckJobTimeout,  \* a claim older than this is taken for abandoned
  AttemptCap,       \* bound: attempts are counted up to here
  MaxFaults         \* bound: process deaths and lost writes per behaviour

Claims == [job : Jobs, att : 1..AttemptCap]

(* What withDefaults of worker.Config leaves, and the check of             *)
(* config/main.go:369 that stuck_job_timeout exceeds job_timeout.  The     *)
(* code compares attempts with MaxRetries only, so a counter that stops    *)
(* above it loses nothing.                                                 *)
ASSUME PoolAssumption ==
  /\ Jobs \subseteq Nat
  /\ IsFiniteSet(Jobs)
  /\ NoClaim \notin Claims
  /\ ClaimBatchSize \in Nat \ {0}
  /\ MaxRetries \in Nat
  /\ RetryBackoff \in Nat
  /\ JobTimeout \in Nat \ {0}
  /\ StuckJobTimeout \in Nat
  /\ StuckJobTimeout > JobTimeout
  /\ AttemptCap \in Nat
  /\ AttemptCap > MaxRetries
  /\ MaxFaults \in Nat

(* withDefaults: Concurrency is at least 1.                                *)
ASSUME ConcurrencyAssumption == Workers # {}

VARIABLES
  \* the jobs table
  status, attempts,
  age,         \* ticks since updated_at, while processing
  wait,        \* ticks until next_attempt_at, while pending
  \* the assets table
  original,    \* jobs whose original asset is recorded
  previews,    \* number of preview rows of each job; row n is the n-th made
  \* requests and mail
  upload,      \* the upload request of each job
  mailed,      \* <<preview row, attempt>> of each "preview ready" sent
  \* the process
  mode, dispatcher,
  batch,       \* claims the dispatcher has not fed yet
  full,        \* the batch was as large as the limit: claim again after it
  queue,       \* the channel
  sinceReset,  \* ticks since lastReset, counted to the reset period
  pc, task, elapsed,
  found,       \* preview row UpsertPreview found (0: none) or returned
  faults

table   == <<status, attempts, age, wait>>
assets  == <<original, previews>>
http    == <<upload, original>>
feeder  == <<dispatcher, batch, full, sinceReset>>
workers == <<pc, task, elapsed, found>>
vars    == <<table, assets, upload, mailed, mode, feeder, queue, workers, faults>>

Phases == {"idle", "load", "encode", "lookup", "write", "notify", "markDone",
           "markError", "exited"}
Busy(w) == pc[w] \notin {"idle", "exited"}

Status == {"absent", "pending", "processing", "done", "failed", "deleted"}
RowExists(j) == status[j] \notin {"absent", "deleted"}

AtMost(n, m) == IF n <= m THEN n ELSE m
-----------------------------------------------------------------------------
(* The statements of internals/app/job/repo.go: one UPDATE each, atomic.   *)
(* Rewrite(S, to) moves the rows of S to status `to` with updated_at = now *)
(* and no backoff.                                                         *)
Rewrite(S, to) ==
  /\ status' = [j \in Jobs |-> IF j \in S THEN to ELSE status[j]]
  /\ age' = [j \in Jobs |-> IF j \in S THEN 0 ELSE age[j]]

NoBackoff(S) == wait' = [j \in Jobs |-> IF j \in S THEN 0 ELSE wait[j]]

Eligible == {j \in Jobs : status[j] = "pending" /\ wait[j] = 0}

(* The oldest ClaimBatchSize eligible rows.                                *)
NextBatch ==
  {j \in Eligible : Cardinality({i \in Eligible : i < j}) < ClaimBatchSize}

ClaimPending(S) ==
  /\ Rewrite(S, "processing")
  /\ attempts' = [j \in Jobs |->
                    IF j \in S THEN AtMost(attempts[j] + 1, AttemptCap)
                               ELSE attempts[j]]
  /\ UNCHANGED wait

MarkDone(j) ==
  /\ Rewrite({j} \cap {i \in Jobs : status[i] = "processing"}, "done")
  /\ UNCHANGED <<attempts, wait>>

(* Neither of the error outcomes looks at the status it overwrites.        *)
MarkFailed(j) ==
  /\ Rewrite({j} \cap {i \in Jobs : RowExists(i)}, "failed")
  /\ NoBackoff({j})
  /\ UNCHANGED attempts

MarkForRetry(j, backoff) ==
  /\ Rewrite({j} \cap {i \in Jobs : RowExists(i)}, "pending")
  /\ wait' = [wait EXCEPT ![j] = IF RowExists(j) THEN backoff ELSE 0]
  /\ UNCHANGED attempts

Stuck == {j \in Jobs : status[j] = "processing" /\ age[j] > StuckJobTimeout}

ResetStuck ==
  /\ Rewrite(Stuck, "pending")
  /\ NoBackoff(Stuck)
  /\ UNCHANGED attempts

(* DELETE of the row; the assets table cascades.                           *)
RemoveRow(j) ==
  /\ Rewrite({j}, "deleted")
  /\ NoBackoff({j})
  /\ original' = original \ {j}
  /\ previews' = [previews EXCEPT ![j] = 0]
  /\ UNCHANGED attempts
-----------------------------------------------------------------------------
(* Upload and delete requests.                                             *)

(* service.Create inserts the row, ready to be claimed, before the file.   *)
InsertJob(j) ==
  /\ mode # "down"
  /\ status[j] = "absent"
  /\ \A i \in Jobs : i < j => status[i] # "absent"
  /\ Rewrite({j}, "pending")
  /\ upload' = [upload EXCEPT ![j] = "storing"]
  /\ UNCHANGED <<attempts, wait, assets, mailed, mode, feeder, queue, workers, faults>>

(* The file is stored and checked; the original asset is inserted, which   *)
(* its foreign key refuses when the row is gone.                           *)
InsertOriginal(j) ==
  /\ mode # "down"
  /\ upload[j] = "storing"
  /\ RowExists(j)
  /\ original' = original \cup {j}
  /\ upload' = [upload EXCEPT ![j] = "returned"]
  /\ UNCHANGED <<table, previews, mailed, mode, feeder, queue, workers, faults>>

(* Any failure after the insert withdraws the row, whatever its status.    *)
Rollback(j) ==
  /\ mode # "down"
  /\ upload[j] = "storing"
  /\ RemoveRow(j)
  /\ upload' = [upload EXCEPT ![j] = "returned"]
  /\ UNCHANGED <<mailed, mode, feeder, queue, workers, faults>>

(* Mutant: the statement without its condition on the status.              *)
DeleteAnyway(j) ==
  /\ mode # "down"
  /\ RowExists(j)
  /\ RemoveRow(j)
  /\ UNCHANGED <<upload, mailed, mode, feeder, queue, workers, faults>>

DeleteIfNotProcessing(j) ==
  /\ mode # "down"
  /\ RowExists(j)
  /\ status[j] # "processing"
  /\ RemoveRow(j)
  /\ UNCHANGED <<upload, mailed, mode, feeder, queue, workers, faults>>
-----------------------------------------------------------------------------
(* The dispatcher.                                                         *)

(* worker.go Start: a reset, then the goroutines, on a channel of their    *)
(* own.  The dispatcher begins with lastReset = now, so with a claim.      *)
Start ==
  /\ mode = "down"
  /\ mode' = "up"
  /\ ResetStuck
  /\ dispatcher' = "claim"
  /\ pc' = [w \in Workers |-> "idle"]
  /\ sinceReset' = 0
  /\ UNCHANGED <<assets, upload, mailed, batch, full, queue, task, elapsed, found, faults>>

(* Mutant: abandoned rows are looked for at the start only.                *)
PollWithoutReset ==
  /\ dispatcher = "wait"
  /\ dispatcher' = "claim"
  /\ UNCHANGED <<table, assets, upload, mailed, mode, batch, full, queue, sinceReset,
                 workers, faults>>

(* The ticker fires: the loop of dispatch, requeueing abandoned rows every *)
(* half StuckJobTimeout.                                                   *)
Poll ==
  /\ dispatcher = "wait"
  /\ dispatcher' = "claim"
  /\ \/ /\ 2 * sinceReset >= StuckJobTimeout
        /\ ResetStuck
        /\ sinceReset' = 0
     \/ /\ 2 * sinceReset < StuckJobTimeout
        /\ UNCHANGED <<table, sinceReset>>
  /\ UNCHANGED <<assets, upload, mailed, mode, batch, full, queue, workers, faults>>

(* One round of claimAndFeed, up to the claimed batch.  The rows come back *)
(* from UPDATE ... RETURNING in no particular order, so batch is a set.    *)
Claim ==
  /\ dispatcher = "claim"
  /\ mode = "up"
  /\ ClaimPending(NextBatch)
  /\ batch' = {[job |-> j, att |-> attempts'[j]] : j \in NextBatch}
  /\ full' = (Cardinality(NextBatch) = ClaimBatchSize)
  /\ dispatcher' = IF NextBatch = {} THEN "wait" ELSE "feed"
  /\ UNCHANGED <<assets, upload, mailed, mode, queue, sinceReset, workers, faults>>

(* The statement is executed and its result lost (scan or rows error).     *)
ClaimLost ==
  /\ dispatcher = "claim"
  /\ mode = "up"
  /\ NextBatch # {}
  /\ faults < MaxFaults
  /\ faults' = faults + 1
  /\ ClaimPending(NextBatch)
  /\ dispatcher' = "wait"
  /\ UNCHANGED <<assets, upload, mailed, mode, batch, full, queue, sinceReset, workers>>

Feed(c) ==
  /\ dispatcher = "feed"
  /\ c \in batch
  /\ Len(queue) < ClaimBatchSize
  /\ queue' = Append(queue, c)
  /\ batch' = batch \ {c}
  /\ dispatcher' = CASE batch' # {}          -> "feed"
                     [] batch' = {} /\ full  -> "claim"
                     [] batch' = {} /\ ~full -> "wait"
  /\ full' = (full /\ batch' # {})
  /\ UNCHANGED <<table, assets, upload, mailed, mode, sinceReset, workers, faults>>

(* Once stopping, claimAndFeed returns without claiming or feeding; what   *)
(* is left of the batch stays 'processing'.                                *)
StopFeeding ==
  /\ mode = "stopping"
  /\ dispatcher \in {"claim", "feed"}
  /\ dispatcher' = "wait"
  /\ batch' = {}
  /\ full' = FALSE
  /\ UNCHANGED <<table, assets, upload, mailed, mode, queue, sinceReset, workers, faults>>

(* ... and the dispatcher returns, closing the channel.                    *)
CloseQueue ==
  /\ mode = "stopping"
  /\ dispatcher = "wait"
  /\ dispatcher' = "exited"
  /\ sinceReset' = 0
  /\ UNCHANGED <<table, assets, upload, mailed, mode, batch, full, queue, workers, faults>>
-----------------------------------------------------------------------------
(* The processors.  Job(w) is the claimed job a busy processor works on.   *)

Job(w) == task[w].job

Goto(w, phase) == pc' = [pc EXCEPT ![w] = phase]

Receive(w) ==
  /\ pc[w] = "idle"
  /\ queue # <<>>
  /\ queue' = Tail(queue)
  /\ task' = [task EXCEPT ![w] = Head(queue)]
  /\ Goto(w, "load")
  /\ UNCHANGED <<table, assets, upload, mailed, mode, feeder, elapsed, found, faults>>

(* Mutant: a processor leaves the loop without draining the channel.       *)
WorkerExitsEarly(w) ==
  /\ pc[w] = "idle"
  /\ dispatcher = "exited"
  /\ Goto(w, "exited")
  /\ UNCHANGED <<table, assets, upload, mailed, mode, feeder, queue, task, elapsed,
                 found, faults>>

WorkerExits(w) ==
  /\ pc[w] = "idle"
  /\ queue = <<>>
  /\ dispatcher = "exited"
  /\ Goto(w, "exited")
  /\ UNCHANGED <<table, assets, upload, mailed, mode, feeder, queue, task, elapsed,
                 found, faults>>

LoadOriginal(w) ==
  /\ pc[w] = "load"
  /\ Goto(w, IF Job(w) \in original THEN "encode" ELSE "markError")
  /\ UNCHANGED <<table, assets, upload, mailed, mode, feeder, queue, task, elapsed,
                 found, faults>>

(* Probe, watermark, stat and checksum succeed.                            *)
Encode(w) ==
  /\ pc[w] = "encode"
  /\ Goto(w, "lookup")
  /\ UNCHANGED <<table, assets, upload, mailed, mode, feeder, queue, task, elapsed,
                 found, faults>>

(* UpsertPreview reads the job's oldest preview row ...                    *)
LookupPreview(w) ==
  /\ pc[w] = "lookup"
  /\ found' = [found EXCEPT ![w] = AtMost(previews[Job(w)], 1)]
  /\ Goto(w, "write")
  /\ UNCHANGED <<table, assets, upload, mailed, mode, feeder, queue, task, elapsed, faults>>

(* Mutant: every attempt inserts a row.                                    *)
InsertPreview(w) ==
  /\ pc[w] = "write"
  /\ RowExists(Job(w))
  /\ previews' = [previews EXCEPT ![Job(w)] = @ + 1]
  /\ found' = [found EXCEPT ![w] = previews[Job(w)] + 1]
  /\ Goto(w, "notify")
  /\ UNCHANGED <<table, original, upload, mailed, mode, feeder, queue, task, elapsed, faults>>

(* Mutant: the updated row is reported under a new id.                     *)
WritePreviewFreshId(w) ==
  /\ pc[w] = "write"
  /\ RowExists(Job(w))
  /\ previews' = [previews EXCEPT ![Job(w)] = IF found[w] = 0 THEN @ + 1 ELSE @]
  /\ found' = [found EXCEPT ![w] = previews[Job(w)] + 1]
  /\ Goto(w, "notify")
  /\ UNCHANGED <<table, original, upload, mailed, mode, feeder, queue, task, elapsed, faults>>

(* ... then updates that row, or inserts one when there was none.  Both    *)
(* are errors when the job was deleted in between.                         *)
WritePreview(w) ==
  /\ pc[w] = "write"
  /\ RowExists(Job(w))
  /\ \/ /\ found[w] = 0
        /\ previews' = [previews EXCEPT ![Job(w)] = @ + 1]
        /\ found' = [found EXCEPT ![w] = previews[Job(w)] + 1]
     \/ /\ found[w] # 0
        /\ UNCHANGED <<previews, found>>
  /\ Goto(w, "notify")
  /\ UNCHANGED <<table, original, upload, mailed, mode, feeder, queue, task, elapsed, faults>>

(* Mutant: what fails after the mail was sent fails the job.               *)
NotifyOrFail(w) ==
  /\ pc[w] = "notify"
  /\ \/ /\ mailed' = [mailed EXCEPT ![Job(w)] = @ \cup {<<found[w], task[w].att>>}]
        /\ (Goto(w, "markDone") \/ Goto(w, "markError"))
     \/ UNCHANGED mailed /\ Goto(w, "markError")
  /\ UNCHANGED <<table, assets, upload, mode, feeder, queue, task, elapsed, found, faults>>

(* PreviewReady: the email goes out, or its failure is only logged.        *)
Notify(w) ==
  /\ pc[w] = "notify"
  /\ \/ mailed' = [mailed EXCEPT ![Job(w)] = @ \cup {<<found[w], task[w].att>>}]
     \/ UNCHANGED mailed
  /\ Goto(w, "markDone")
  /\ UNCHANGED <<table, assets, upload, mode, feeder, queue, task, elapsed, found, faults>>

(* Mutant: the recovered panic is not returned as an error.                *)
PanicSwallowed(w) ==
  /\ pc[w] \in {"load", "encode", "lookup", "write", "notify"}
  /\ (Goto(w, "markError") \/ Goto(w, "markDone"))
  /\ UNCHANGED <<table, assets, upload, mailed, mode, feeder, queue, task, elapsed,
                 found, faults>>

(* Every step of process may return an error, run out of its context's     *)
(* time, or panic; safeProcess turns all of them into the job's error.     *)
ProcessError(w) ==
  /\ pc[w] \in {"load", "encode", "lookup", "write", "notify"}
  /\ Goto(w, "markError")
  /\ UNCHANGED <<table, assets, upload, mailed, mode, feeder, queue, task, elapsed,
                 found, faults>>

(* The processor is done with its job.                                     *)
Release(w) ==
  /\ Goto(w, "idle")
  /\ task' = [task EXCEPT ![w] = NoClaim]
  /\ elapsed' = [elapsed EXCEPT ![w] = 0]
  /\ found' = [found EXCEPT ![w] = 0]

RecordDone(w) ==
  /\ pc[w] = "markDone"
  /\ MarkDone(Job(w))
  /\ Release(w)
  /\ UNCHANGED <<assets, upload, mailed, mode, feeder, queue, faults>>

(* 1x, 2x, 4x, ... the base backoff; the shift stops at 16.               *)
Doubling == <<1, 2, 4, 8, 16, 32, 64, 128, 256, 512, 1024, 2048, 4096, 8192,
              16384, 32768, 65536>>
Backoff(att) == RetryBackoff * Doubling[AtMost(att, 17)]

(* Mutant of RecordError: one retry too many.                              *)
RecordErrorLate(w) ==
  /\ pc[w] = "markError"
  /\ \/ task[w].att > MaxRetries + 1 /\ MarkFailed(Job(w))
     \/ task[w].att <= MaxRetries + 1 /\ MarkForRetry(Job(w), Backoff(task[w].att))
  /\ Release(w)
  /\ UNCHANGED <<assets, upload, mailed, mode, feeder, queue, faults>>

(* Mutant of RecordError: one retry too few.                               *)
RecordErrorEarly(w) ==
  /\ pc[w] = "markError"
  /\ \/ task[w].att >= MaxRetries /\ MarkFailed(Job(w))
     \/ task[w].att < MaxRetries /\ MarkForRetry(Job(w), Backoff(task[w].att))
  /\ Release(w)
  /\ UNCHANGED <<assets, upload, mailed, mode, feeder, queue, faults>>

RecordError(w) ==
  /\ pc[w] = "markError"
  /\ \/ task[w].att > MaxRetries /\ MarkFailed(Job(w))
     \/ task[w].att <= MaxRetries /\ MarkForRetry(Job(w), Backoff(task[w].att))
  /\ Release(w)
  /\ UNCHANGED <<assets, upload, mailed, mode, feeder, queue, faults>>

(* The statement that records the outcome fails; handle only logs it.      *)
OutcomeLost(w) ==
  /\ pc[w] \in {"markDone", "markError"}
  /\ faults < MaxFaults
  /\ faults' = faults + 1
  /\ Release(w)
  /\ UNCHANGED <<table, assets, upload, mailed, mode, feeder, queue>>
-----------------------------------------------------------------------------
(* The process.                                                            *)

(* Everything the process holds in memory is gone: the batch, the channel, *)
(* the processors' jobs and the requests in flight.                        *)
ProcessDies ==
  /\ mode' = "down"
  /\ dispatcher' = "off"
  /\ batch' = {}
  /\ full' = FALSE
  /\ queue' = <<>>
  /\ sinceReset' = 0
  /\ pc' = [w \in Workers |-> "exited"]
  /\ task' = [w \in Workers |-> NoClaim]
  /\ elapsed' = [w \in Workers |-> 0]
  /\ found' = [w \in Workers |-> 0]
  /\ upload' = [j \in Jobs |-> IF upload[j] = "storing" THEN "returned" ELSE upload[j]]
  /\ UNCHANGED <<table, assets, mailed>>

Crash ==
  /\ mode = "up"
  /\ faults < MaxFaults
  /\ faults' = faults + 1
  /\ ProcessDies

(* SIGTERM: the dispatcher's context is cancelled, the processors' is not. *)
Stop ==
  /\ mode = "up"
  /\ faults < MaxFaults
  /\ faults' = faults + 1
  /\ mode' = "stopping"
  /\ UNCHANGED <<table, assets, upload, mailed, feeder, queue, workers>>

(* The process ends when all goroutines have returned, or, whatever they   *)
(* are doing, when ShutdownGrace is over.                                  *)
Exit ==
  /\ mode = "stopping"
  /\ ProcessDies
  /\ UNCHANGED faults

(* Mutant: the encoder does not heed the timeout.                          *)
TickUntimed ==
  /\ \A w \in Workers : Busy(w) => pc[w] = "encode"
  /\ queue = <<>> \/ \A w \in Workers : pc[w] # "idle"
  /\ dispatcher = "feed" => mode = "up" /\ Len(queue) = ClaimBatchSize
  /\ age' = [j \in Jobs |-> IF status[j] = "processing"
                            THEN AtMost(age[j] + 1, StuckJobTimeout + 1) ELSE 0]
  /\ wait' = [j \in Jobs |-> IF wait[j] > 0 THEN wait[j] - 1 ELSE 0]
  /\ sinceReset' = IF dispatcher \in {"off", "exited"} THEN 0
                    ELSE AtMost(sinceReset + 1, StuckJobTimeout)
  /\ elapsed' = [w \in Workers |-> IF Busy(w) THEN elapsed[w] + 1 ELSE 0]
  /\ UNCHANGED <<status, attempts, assets, upload, mailed, mode, dispatcher, batch, full,
                 queue, pc, task, found, faults>>

(* A tick passes once nothing is left that takes no time.  Of a handling   *)
(* only ffprobe and ffmpeg take ticks (a mail is given 30 seconds), and    *)
(* they are killed when JobTimeout is over.                                *)
Tick ==
  /\ \A w \in Workers : Busy(w) => pc[w] = "encode" /\ elapsed[w] < JobTimeout
  /\ queue = <<>> \/ \A w \in Workers : pc[w] # "idle"
  /\ dispatcher = "feed" => mode = "up" /\ Len(queue) = ClaimBatchSize
  /\ age' = [j \in Jobs |-> IF status[j] = "processing"
                            THEN AtMost(age[j] + 1, StuckJobTimeout + 1) ELSE 0]
  /\ wait' = [j \in Jobs |-> IF wait[j] > 0 THEN wait[j] - 1 ELSE 0]
  /\ sinceReset' = IF dispatcher \in {"off", "exited"} THEN 0
                    ELSE AtMost(sinceReset + 1, StuckJobTimeout)
  /\ elapsed' = [w \in Workers |-> IF Busy(w) THEN elapsed[w] + 1 ELSE 0]
  /\ UNCHANGED <<status, attempts, assets, upload, mailed, mode, dispatcher, batch, full,
                 queue, pc, task, found, faults>>
-----------------------------------------------------------------------------
Init ==
  /\ status = [j \in Jobs |-> "absent"]
  /\ attempts = [j \in Jobs |-> 0]
  /\ age = [j \in Jobs |-> 0]
  /\ wait = [j \in Jobs |-> 0]
  /\ original = {}
  /\ previews = [j \in Jobs |-> 0]
  /\ upload = [j \in Jobs |-> "none"]
  /\ mailed = [j \in Jobs |-> {}]
  /\ mode = "down"
  /\ dispatcher = "off"
  /\ batch = {}
  /\ full = FALSE
  /\ queue = <<>>
  /\ sinceReset = 0
  /\ pc = [w \in Workers |-> "exited"]
  /\ task = [w \in Workers |-> NoClaim]
  /\ elapsed = [w \in Workers |-> 0]
  /\ found = [w \in Workers |-> 0]
  /\ faults = 0

Requests ==
  \E j \in Jobs : InsertJob(j) \/ InsertOriginal(j) \/ Rollback(j) \/ DeleteIfNotProcessing(j)

Dispatch ==
  Poll \/ Claim \/ ClaimLost \/ (\E c \in batch : Feed(c)) \/ StopFeeding \/ CloseQueue

Process(w) ==
  \/ Receive(w) \/ WorkerExits(w) \/ LoadOriginal(w) \/ Encode(w) \/ LookupPreview(w)
  \/ WritePreview(w) \/ Notify(w) \/ ProcessError(w) \/ RecordDone(w) \/ RecordError(w)
  \/ OutcomeLost(w)

Next ==
  \/ Requests
  \/ Dispatch
  \/ \E w \in Workers : Process(w)
  \/ Start \/ Crash \/ Stop \/ Exit
  \/ Tick

Spec == Init /\ [][Next]_vars

(* The scheduler runs every goroutine that can take a step, the ticker     *)
(* keeps firing, time passes, and the process is started again after it    *)
(* has died.  Requests, faults and the shutdown are left to the outside.   *)
Fairness ==
  /\ WF_vars(Start)
  /\ WF_vars(Exit)
  /\ WF_vars(Dispatch)
  /\ \A w \in Workers : WF_vars(Process(w))
  /\ WF_vars(Tick)

FairSpec == Spec /\ Fairness
-----------------------------------------------------------------------------
TypeOK ==
  /\ status \in [Jobs -> Status]
  /\ attempts \in [Jobs -> 0..AttemptCap]
  /\ age \in [Jobs -> 0..StuckJobTimeout + 1]
  /\ wait \in [Jobs -> Nat]
  /\ original \subseteq Jobs
  /\ previews \in [Jobs -> Nat]
  /\ upload \in [Jobs -> {"none", "storing", "returned"}]
  /\ mailed \in [Jobs -> SUBSET (Nat \X (1..AttemptCap))]
  /\ mode \in {"down", "up", "stopping"}
  /\ dispatcher \in {"off", "claim", "feed", "wait", "exited"}
  /\ batch \subseteq Claims
  /\ full \in BOOLEAN
  /\ queue \in Seq(Claims)
  /\ sinceReset \in 0..StuckJobTimeout
  /\ pc \in [Workers -> Phases]
  /\ task \in [Workers -> Claims \cup {NoClaim}]
  /\ elapsed \in [Workers -> 0..JobTimeout]
  /\ found \in [Workers -> Nat]
  /\ faults \in 0..MaxFaults

(* A job shown as done has a preview to show, however many processors were *)
(* on it and whatever was requeued, deleted or lost on the way (repo.go    *)
(* MarkDone after process.go's AddPreview).                                *)
DoneHasPreview == \A j \in Jobs : status[j] = "done" => previews[j] >= 1

(* No job fails for good before MaxRetries retries were spent on it        *)
(* (worker.go:190), also when attempts were lost to crashes and when stale *)
(* processors report on a row that has moved on.                           *)
FailedExhausted == \A j \in Jobs : status[j] = "failed" => attempts[j] > MaxRetries

(* The links of every "preview ready" mail name a preview row that is      *)
(* still there, as long as the job is (asset/repo.go:27-31).               *)
LinksResolve ==
  \A j \in Jobs : status[j] # "deleted" =>
    \A m \in mailed[j] : m[1] \in 1..previews[j]

(* The strengthening that makes the last three inductive: a processor past *)
(* UpsertPreview holds a preview row that lives as long as its job, and a  *)
(* claim in memory never counts more attempts than its row.                *)
Claimed == batch \cup {queue[i] : i \in DOMAIN queue}
             \cup {task[w] : w \in {v \in Workers : Busy(v)}}

BusyHasTask == \A w \in Workers : Busy(w) => task[w] \in Claims

ClaimsCounted ==
  \A c \in Claimed : status[c.job] # "absent" /\ c.att <= attempts[c.job]

HasPreview(w) == pc[w] \in {"notify", "markDone"} \/ (pc[w] = "write" /\ found[w] # 0)

FoundPreview ==
  \A w \in Workers :
    HasPreview(w) /\ RowExists(Job(w)) => found[w] \in 1..previews[Job(w)]

PoolInv ==
  /\ BusyHasTask
  /\ ClaimsCounted
  /\ FoundPreview
  /\ DoneHasPreview
  /\ FailedExhausted
  /\ LinksResolve

(* When Stop returns because every processor did, nothing that reached the *)
(* channel is left unhandled (worker.go:64-78 and the range of work).  A   *)
(* batch that was not all fed is dropped, and its rows wait for a reset.   *)
CleanStop ==
  mode = "stopping" /\ (\A w \in Workers : pc[w] = "exited") => queue = <<>>

(* No claim outlives StuckJobTimeout between ClaimForProcessing and its    *)
(* outcome, the wait in the queue included (config/main.go:369-372 wants   *)
(* the reset to find nothing that is still worked on).                     *)
Timely == \A c \in Claimed : age[c.job] <= StuckJobTimeout

(* The claims in memory, each with the place it is in.                     *)
Held == {<<"batch", 0, c>> : c \in batch}
          \cup {<<"queue", i, queue[i]>> : i \in DOMAIN queue}
          \cup {<<"processor", w, task[w]>> : w \in {v \in Workers : Busy(v)}}

(* A job is in one place of the pool at a time: the reset of stuck rows    *)
(* never hands out a second time what is still queued or being encoded.    *)
OneHolder ==
  \A h, k \in Held : h[3].job = k[3].job => h = k

(* The row of a job in the pool says so, unless its own upload withdrew    *)
(* it: nobody resets, deletes or finishes it under its processor           *)
(* (config/main.go:370-372, README.md:152).                                *)
HeldIsProcessing ==
  \A h \in Held : status[h[3].job] \in {"processing", "deleted"}

(* Both: a claim is safe from the queue to the outcome.                    *)
ClaimIsSafe == OneHolder /\ HeldIsProcessing

(* A reprocessed job keeps a single preview (asset/repo.go:27-31).         *)
SinglePreview == \A j \in Jobs : previews[j] <= 1

(* The recipient is mailed at most once, as long as nothing went wrong on  *)
(* the server.                                                             *)
MailedOnce == faults = 0 => \A j \in Jobs : Cardinality(mailed[j]) <= 1

(* Retries are bounded (worker/struct.go:6): no job is attempted more than *)
(* once plus MaxRetries times, and once more for every attempt that ended  *)
(* with the process or whose outcome was lost, as nobody then looked at    *)
(* the number of attempts.                                                 *)
BoundedAttempts == \A j \in Jobs : attempts[j] <= MaxRetries + 1 + faults

(* A finished job stays finished until its row is deleted                  *)
(* (job/model.go:13).                                                      *)
DoneIsFinal ==
  [][\A j \in Jobs : status[j] \in {"done", "failed"} =>
       status'[j] \in {status[j], "deleted"}]_vars

(* The job rows live the life of JobLifecycle.                             *)
Lifecycle == INSTANCE JobLifecycle WITH
               uploading <- {j \in Jobs : upload[j] = "storing"}
LifecycleSpec == Lifecycle!Spec

(* Every uploaded job is done or failed in the end, or gone.               *)
Settles == \A j \in Jobs :
             status[j] = "pending" ~> status[j] \in {"done", "failed", "deleted"}
=============================================================================
