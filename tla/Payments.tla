------------------------------ MODULE Payments ------------------------------
(***************************************************************************)
(* The unlock of one job's original: internals/app/payment between the     *)
(* payments table and Stripe, with the two operator actions that depend on *)
(* whether the job is paid, the links switch (internals/app/share) and the *)
(* deletion of the job (internals/app/job).                                *)
(*                                                                         *)
(* A handler is one HTTP request in progress: a sequence of statements and *)
(* Stripe calls with other handlers' steps in between.  Stripe is external *)
(* and modelled by what the code asks of it: an intent per payment row,    *)
(* paid by whoever holds its client secret, and an event for every intent  *)
(* that succeeds, delivered again until it is acknowledged.                *)
(***************************************************************************)
EXTENDS Integers, FiniteSets

CONSTANTS
  Handlers,      \* requests in progress at a time
  MaxPayments,   \* bound: payment rows made for the job
  Webhooks,      \* Stripe can reach the webhook
  Delayed,       \* payment methods that settle after a while are offered
  MaxCrashes,    \* bound: deaths of the process
  MaxErrors      \* bound: database and Stripe calls that fail

ASSUME PaymentsAssumption ==
  /\ MaxPayments \in Nat
  /\ Webhooks \in BOOLEAN
  /\ Delayed \in BOOLEAN
  /\ MaxCrashes \in Nat
  /\ MaxErrors \in Nat

Payments == 1..MaxPayments     \* in the order of created_at

VARIABLES
  \* the database: the job, its payments and its "paid" events
  live, linksOff,
  made,          \* payment rows made so far
  payment,       \* status of each row, "none" when there is no such row
  ref,           \* whether provider_ref is recorded in the row
  paidEvents,
  \* Stripe and the recipients
  intent,        \* the PaymentIntent made for each row
  handed,        \* payments whose client secret a recipient was given
  unlocked,      \* a link to the original was given out
  inbox,         \* succeeded events Stripe has not got an answer to
  \* the handlers
  pc,
  mine,          \* the payment row a handler works on (0: none)
  crashes, errors

job     == <<live, linksOff>>
rows    == <<made, payment, ref>>
outside == <<intent, handed, unlocked, inbox>>
faults  == <<crashes, errors>>
vars    == <<job, rows, paidEvents, outside, pc, mine, faults>>

Steps == {"idle", "list", "reuse", "insert", "create", "record",
          "status", "reconcile", "markPaid", "recordPaid",
          "hookMark", "hookRecord", "switchOff", "switchOn", "delete"}

AnyPaid == \E p \in Payments : payment[p] = "paid"

(* The newest row, payments[0] of ListByJob; 0 when there is none.         *)
Newest == IF live THEN made ELSE 0

Reconcilable(p) == p # 0 /\ payment[p] = "pending" /\ ref[p]

Goto(h, step, p) ==
  /\ pc' = [pc EXCEPT ![h] = step]
  /\ mine' = [mine EXCEPT ![h] = p]

Return(h) == Goto(h, "idle", 0)
-----------------------------------------------------------------------------
(* CreateIntent.                                                           *)

(* resolvePreview: the preview exists and the job's links are on.          *)
Resolves == live /\ ~linksOff

CheckoutBegin(h) ==
  /\ pc[h] = "idle"
  /\ Resolves
  /\ Goto(h, "list", 0)
  /\ UNCHANGED <<job, rows, paidEvents, outside, faults>>

(* ListByJob: a paid job is refused, a pending newest row looked at again. *)
CheckoutList(h) ==
  /\ pc[h] = "list"
  /\ \/ AnyPaid /\ Return(h)
     \/ ~AnyPaid /\ Reconcilable(Newest) /\ Goto(h, "reuse", Newest)
     \/ ~AnyPaid /\ ~Reconcilable(Newest) /\ Goto(h, "insert", 0)
  /\ UNCHANGED <<job, rows, paidEvents, outside, faults>>

(* reusableIntent: the intent still takes a confirmation for the price.    *)
ReuseIntent(h) ==
  /\ pc[h] = "reuse"
  /\ \/ intent[mine[h]] = "open" /\ handed' = handed \cup {mine[h]} /\ Return(h)
     \/ intent[mine[h]] # "open" /\ UNCHANGED handed /\ Goto(h, "insert", 0)
  /\ UNCHANGED <<job, rows, paidEvents, intent, unlocked, inbox, faults>>

(* The insert is refused by its foreign key when the job is gone.          *)
InsertRow(h) ==
  /\ pc[h] = "insert"
  /\ \/ /\ live /\ made < MaxPayments
        /\ made' = made + 1
        /\ payment' = [payment EXCEPT ![made + 1] = "pending"]
        /\ Goto(h, "create", made + 1)
     \/ /\ ~live \/ made = MaxPayments
        /\ Return(h)
        /\ UNCHANGED <<made, payment>>
  /\ UNCHANGED <<job, ref, paidEvents, outside, faults>>

CreateAtStripe(h) ==
  /\ pc[h] = "create"
  /\ intent' = [intent EXCEPT ![mine[h]] = "open"]
  /\ Goto(h, "record", mine[h])
  /\ UNCHANGED <<job, rows, paidEvents, handed, unlocked, inbox, faults>>

(* Update writes all columns of the handler's copy of the row; it is an    *)
(* error when the row is gone.                                             *)
Save(p, status) ==
  /\ payment[p] # "none"
  /\ payment' = [payment EXCEPT ![p] = status]
  /\ ref' = [ref EXCEPT ![p] = TRUE]
  /\ UNCHANGED made

(* The client secret goes out whether or not the row could be updated.     *)
RecordRef(h) ==
  /\ pc[h] = "record"
  /\ \/ Save(mine[h], "pending")
     \/ payment[mine[h]] = "none" /\ UNCHANGED rows
  /\ handed' = handed \cup {mine[h]}
  /\ Return(h)
  /\ UNCHANGED <<job, paidEvents, intent, unlocked, inbox, faults>>
-----------------------------------------------------------------------------
(* Status.                                                                 *)

StatusBegin(h) ==
  /\ pc[h] = "idle"
  /\ Resolves
  /\ Goto(h, "status", 0)
  /\ UNCHANGED <<job, rows, paidEvents, outside, faults>>

(* Any paid row unlocks; otherwise the newest row is looked into.          *)
StatusList(h) ==
  /\ pc[h] = "status"
  /\ \/ AnyPaid /\ unlocked' = TRUE /\ Return(h)
     \/ ~AnyPaid /\ Reconcilable(Newest) /\ Goto(h, "reconcile", Newest) /\ UNCHANGED unlocked
     \/ ~AnyPaid /\ ~Reconcilable(Newest) /\ Return(h) /\ UNCHANGED unlocked
  /\ UNCHANGED <<job, rows, paidEvents, intent, handed, inbox, faults>>

(* Mutant of Reconcile: the amount collected is not looked at.             *)
ReconcileAnyAmount(h) ==
  /\ pc[h] = "reconcile"
  /\ \/ intent[mine[h]] \in {"succeeded", "underpaid"} /\ Goto(h, "markPaid", mine[h])
     \/ intent[mine[h]] \notin {"succeeded", "underpaid"} /\ Return(h)
  /\ UNCHANGED <<job, rows, paidEvents, outside, faults>>

(* reconcile: Stripe says succeeded, for the full amount.                  *)
Reconcile(h) ==
  /\ pc[h] = "reconcile"
  /\ \/ intent[mine[h]] = "succeeded" /\ Goto(h, "markPaid", mine[h])
     \/ intent[mine[h]] # "succeeded" /\ Return(h)
  /\ UNCHANGED <<job, rows, paidEvents, outside, faults>>

(* The handler's own copy says paid from here on, so the link to the       *)
(* original is given out even when the update fails.                       *)
MarkPaid(h) ==
  /\ pc[h] = "markPaid"
  /\ \/ Save(mine[h], "paid") /\ Goto(h, "recordPaid", mine[h]) /\ UNCHANGED unlocked
     \/ payment[mine[h]] = "none" /\ unlocked' = TRUE /\ Return(h) /\ UNCHANGED rows
  /\ UNCHANGED <<job, paidEvents, intent, handed, inbox, faults>>

(* recordPaid: the event's foreign key refuses it when the job is gone.    *)
NotePaid == paidEvents' = IF live THEN paidEvents + 1 ELSE paidEvents

RecordPaid(h) ==
  /\ pc[h] = "recordPaid"
  /\ NotePaid
  /\ unlocked' = TRUE
  /\ Return(h)
  /\ UNCHANGED <<job, rows, intent, handed, inbox, faults>>
-----------------------------------------------------------------------------
(* Mutant of HookBegin: a row that is already paid is marked once more.    *)
HookAgain(h, p) ==
  /\ pc[h] = "idle"
  /\ p \in inbox
  /\ payment[p] # "none" /\ ref[p]
  /\ intent[p] = "succeeded"
  /\ Goto(h, "hookMark", p)
  /\ UNCHANGED <<job, rows, paidEvents, outside, faults>>

(* Mutant of HookBegin: the event is acknowledged before it is acted on.   *)
HookAckFirst(h, p) ==
  /\ pc[h] = "idle"
  /\ p \in inbox
  /\ payment[p] # "none" /\ ref[p]
  /\ \/ (payment[p] = "paid" \/ intent[p] # "succeeded") /\ UNCHANGED <<pc, mine>>
     \/ payment[p] # "paid" /\ intent[p] = "succeeded" /\ Goto(h, "hookMark", p)
  /\ inbox' = inbox \ {p}
  /\ UNCHANGED <<job, rows, paidEvents, intent, handed, unlocked, faults>>

(* Webhook, for the event of payment p.  An event whose row is not found   *)
(* is answered with an error, so it stays in the inbox.                    *)
HookBegin(h, p) ==
  /\ pc[h] = "idle"
  /\ p \in inbox
  /\ payment[p] # "none" /\ ref[p]
  /\ \/ /\ payment[p] = "paid" \/ intent[p] # "succeeded"
        /\ inbox' = inbox \ {p}
        /\ UNCHANGED <<pc, mine>>
     \/ /\ payment[p] # "paid" /\ intent[p] = "succeeded"
        /\ Goto(h, "hookMark", p)
        /\ UNCHANGED inbox
  /\ UNCHANGED <<job, rows, paidEvents, intent, handed, unlocked, faults>>

HookMark(h) ==
  /\ pc[h] = "hookMark"
  /\ \/ Save(mine[h], "paid") /\ Goto(h, "hookRecord", mine[h])
     \/ payment[mine[h]] = "none" /\ Return(h) /\ UNCHANGED rows
  /\ UNCHANGED <<job, paidEvents, outside, faults>>

HookRecord(h) ==
  /\ pc[h] = "hookRecord"
  /\ NotePaid
  /\ inbox' = inbox \ {mine[h]}
  /\ Return(h)
  /\ UNCHANGED <<job, rows, intent, handed, unlocked, faults>>
-----------------------------------------------------------------------------
(* The operator.                                                           *)

(* SetLinks: switching off is refused when a payment is paid.              *)
SwitchBegin(h) ==
  /\ pc[h] = "idle"
  /\ live
  /\ \/ linksOff /\ Goto(h, "switchOn", 0)
     \/ ~linksOff /\ ~AnyPaid /\ Goto(h, "switchOff", 0)
  /\ UNCHANGED <<job, rows, paidEvents, outside, faults>>

Switch(h) ==
  /\ pc[h] \in {"switchOff", "switchOn"}
  /\ linksOff' = IF live THEN pc[h] = "switchOff" ELSE linksOff
  /\ Return(h)
  /\ UNCHANGED <<live, rows, paidEvents, outside, faults>>

(* service.Delete: refused when a payment is paid, then one statement that *)
(* the worker may refuse too; payments and events go with the row.         *)
DeleteBegin(h) ==
  /\ pc[h] = "idle"
  /\ live
  /\ ~AnyPaid
  /\ Goto(h, "delete", 0)
  /\ UNCHANGED <<job, rows, paidEvents, outside, faults>>

(* Mutant of DeleteJob: the payments go first, in a statement of their own.*)
DeleteRowsFirst(h) ==
  /\ pc[h] = "delete"
  /\ live' \in {live, FALSE}
  /\ payment' = [p \in Payments |-> "none"]
  /\ ref' = [p \in Payments |-> FALSE]
  /\ paidEvents' = 0
  /\ Return(h)
  /\ UNCHANGED <<linksOff, made, outside, faults>>

DeleteJob(h) ==
  /\ pc[h] = "delete"
  /\ \/ /\ live' = FALSE
        /\ payment' = [p \in Payments |-> "none"]
        /\ ref' = [p \in Payments |-> FALSE]
        /\ paidEvents' = 0
     \/ UNCHANGED <<live, payment, ref, paidEvents>>
  /\ Return(h)
  /\ UNCHANGED <<linksOff, made, outside, faults>>
-----------------------------------------------------------------------------
(* Stripe and its customers.                                               *)

Succeed(p, outcome) ==
  /\ intent' = [intent EXCEPT ![p] = outcome]
  /\ inbox' = IF Webhooks THEN inbox \cup {p} ELSE inbox

(* The Payment Element confirms an intent with its client secret.          *)
Pay(p) ==
  /\ p \in handed
  /\ \/ intent[p] = "open" /\ Succeed(p, "succeeded")
     \/ intent[p] = "altered" /\ Succeed(p, "underpaid")
     \/ /\ Delayed
        /\ intent[p] = "open"
        /\ intent' = [intent EXCEPT ![p] = "processing"]
        /\ UNCHANGED inbox
  /\ UNCHANGED <<job, rows, paidEvents, handed, unlocked, pc, mine, faults>>

(* A delayed payment is settled, or declined: the intent is open again.    *)
Settle(p) ==
  /\ intent[p] = "processing"
  /\ \/ Succeed(p, "succeeded")
     \/ intent' = [intent EXCEPT ![p] = "open"] /\ UNCHANGED inbox
  /\ UNCHANGED <<job, rows, paidEvents, handed, unlocked, pc, mine, faults>>

(* Someone changes the intent's amount at Stripe.                          *)
Alter(p) ==
  /\ intent[p] = "open"
  /\ intent' = [intent EXCEPT ![p] = "altered"]
  /\ UNCHANGED <<job, rows, paidEvents, handed, unlocked, inbox, pc, mine, faults>>
-----------------------------------------------------------------------------
(* Failures.                                                               *)

(* A Stripe call or an update of a payment row fails.                      *)
CallFails(h) ==
  /\ errors < MaxErrors
  /\ errors' = errors + 1
  /\ \/ pc[h] = "reuse" /\ Goto(h, "insert", 0) /\ UNCHANGED <<handed, unlocked>>
     \/ pc[h] \in {"create", "reconcile", "hookMark"} /\ Return(h) /\ UNCHANGED <<handed, unlocked>>
     \/ pc[h] = "record" /\ handed' = handed \cup {mine[h]} /\ Return(h) /\ UNCHANGED unlocked
     \/ pc[h] = "markPaid" /\ unlocked' = TRUE /\ Return(h) /\ UNCHANGED handed
  /\ UNCHANGED <<job, rows, paidEvents, intent, inbox, crashes>>

Crash ==
  /\ crashes < MaxCrashes
  /\ crashes' = crashes + 1
  /\ pc' = [h \in Handlers |-> "idle"]
  /\ mine' = [h \in Handlers |-> 0]
  /\ UNCHANGED <<job, rows, paidEvents, outside, errors>>
-----------------------------------------------------------------------------
Init ==
  /\ live = TRUE
  /\ linksOff = FALSE
  /\ made = 0
  /\ payment = [p \in Payments |-> "none"]
  /\ ref = [p \in Payments |-> FALSE]
  /\ paidEvents = 0
  /\ intent = [p \in Payments |-> "none"]
  /\ handed = {}
  /\ unlocked = FALSE
  /\ inbox = {}
  /\ pc = [h \in Handlers |-> "idle"]
  /\ mine = [h \in Handlers |-> 0]
  /\ crashes = 0
  /\ errors = 0

(* The rest of a request once it is under way.                             *)
Advance(h) ==
  \/ CheckoutList(h) \/ ReuseIntent(h) \/ InsertRow(h) \/ CreateAtStripe(h) \/ RecordRef(h)
  \/ StatusList(h) \/ Reconcile(h) \/ MarkPaid(h) \/ RecordPaid(h)
  \/ HookMark(h) \/ HookRecord(h)
  \/ Switch(h) \/ DeleteJob(h)

Begin(h) ==
  \/ CheckoutBegin(h) \/ StatusBegin(h) \/ SwitchBegin(h) \/ DeleteBegin(h)
  \/ \E p \in Payments : HookBegin(h, p)

Next ==
  \/ \E h \in Handlers : Begin(h) \/ Advance(h) \/ CallFails(h)
  \/ \E p \in Payments : Pay(p) \/ Settle(p) \/ Alter(p)
  \/ Crash

Spec == Init /\ [][Next]_vars

(* A request under way is carried on with, a delayed payment settles, the  *)
(* recipient's page asks for the status again and again while the link     *)
(* works, and Stripe repeats an event until it is acknowledged.            *)
Fairness ==
  /\ \A h \in Handlers : WF_vars(Advance(h))
  /\ SF_vars(\E h \in Handlers : StatusBegin(h))
  /\ \A p \in Payments : /\ WF_vars(Settle(p))
                         /\ SF_vars(\E h \in Handlers : HookBegin(h, p))

FairSpec == Spec /\ Fairness
-----------------------------------------------------------------------------
TypeOK ==
  /\ live \in BOOLEAN /\ linksOff \in BOOLEAN /\ unlocked \in BOOLEAN
  /\ made \in 0..MaxPayments
  /\ payment \in [Payments -> {"none", "pending", "paid"}]
  /\ ref \in [Payments -> BOOLEAN]
  /\ paidEvents \in Nat
  /\ intent \in [Payments -> {"none", "open", "altered", "processing", "succeeded", "underpaid"}]
  /\ handed \subseteq Payments
  /\ inbox \subseteq Payments
  /\ pc \in [Handlers -> Steps]
  /\ mine \in [Handlers -> 0..MaxPayments]
  /\ crashes \in 0..MaxCrashes /\ errors \in 0..MaxErrors

(* Nothing is unlocked, and no row called paid, that Stripe did not        *)
(* collect in full (service.go coversPayment; README.md:131), whichever of *)
(* page load and webhook comes first, and also when updates fail.          *)
UnlockIsPaid ==
  /\ \A p \in Payments : payment[p] = "paid" => intent[p] = "succeeded"
  /\ unlocked => \E p \in Payments : intent[p] = "succeeded"

(* No full-row update takes a purchase back: a paid row is paid until it   *)
(* is deleted with its job (service.go:168, "never be a way to undo").     *)
PaidStays ==
  [][\A p \in Payments : payment[p] = "paid" =>
       payment'[p] = "paid" \/ (~live' /\ payment'[p] = "none")]_vars

(* Nobody is charged twice for the job (service.go:168, "or duplicate a    *)
(* purchase").                                                             *)
ChargedOnce == Cardinality({p \in Payments : intent[p] = "succeeded"}) <= 1

(* What was bought stays: once a payment of the job is paid, its links are *)
(* not switched off ("they keep what they bought", share/operator.go:189)  *)
(* and it is not deleted ("deleting it would break the access they         *)
(* bought", job/errors.go:38).                                             *)
PurchaseKept == [][AnyPaid => (linksOff' => linksOff) /\ (live => live')]_vars

(* The history has one "paid" entry per purchase (service.go:377).         *)
NotedOnce == paidEvents <= Cardinality({p \in Payments : payment[p] = "paid"})

(* Who paid gets the original: some row of the job becomes paid, unless    *)
(* the operator deletes the job or switches its links off meanwhile        *)
(* (service.go:39-42).                                                     *)
Honoured ==
  (\E p \in Payments : intent[p] = "succeeded") ~> AnyPaid \/ ~live \/ linksOff
=============================================================================
