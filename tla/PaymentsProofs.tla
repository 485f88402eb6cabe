--------------------------- MODULE PaymentsProofs ---------------------------
(***************************************************************************)
(* What Payments promises for every number of requests and payments, with  *)
(* or without webhooks, however often the process dies and whichever calls *)
(* fail.                                                                   *)
(***************************************************************************)
EXTENDS Payments, TLAPS

\* the steps at which a handler holds a payment row
Holding == {"reuse", "create", "record", "reconcile", "markPaid", "recordPaid",
            "hookMark", "hookRecord"}

\* the steps between the insert of a row and the update that sets its ref
Making == {"create", "record"}

(* A handler at work on a row works on one that was made.                  *)
HeldIsMade == \A h \in Handlers : pc[h] \in Holding => mine[h] \in 1..made

(* What has not been made is blank, at Stripe too.                         *)
UnmadeIsBlank ==
  \A p \in Payments : p > made => payment[p] = "none" /\ ~ref[p] /\ intent[p] = "none"

(* The rows go with the job.                                               *)
GoneWithJob == ~live => \A p \in Payments : payment[p] = "none"

(* A row in the making has no ref yet, and one handler makes it.           *)
MakingIsPrivate ==
  \A h \in Handlers : pc[h] \in Making =>
    /\ ~ref[mine[h]]
    /\ pc[h] = "create" => intent[mine[h]] = "none"
    /\ \A g \in Handlers : pc[g] \in Making /\ mine[g] = mine[h] => g = h

(* The handlers that do not make their row found it by its ref.            *)
FoundByRef ==
  \A h \in Handlers : pc[h] \in Holding \ Making /\ live => ref[mine[h]]

(* A handler about to call a row paid has Stripe's word for it.            *)
MarkingIsPaid ==
  \A h \in Handlers : pc[h] \in {"markPaid", "recordPaid", "hookMark"} =>
    intent[mine[h]] = "succeeded"

(* A paid row has its ref.                                                 *)
PaidHasRef == \A p \in Payments : payment[p] = "paid" => ref[p]

IInv ==
  /\ TypeOK
  /\ HeldIsMade
  /\ UnmadeIsBlank
  /\ GoneWithJob
  /\ MakingIsPrivate
  /\ FoundByRef
  /\ MarkingIsPaid
  /\ PaidHasRef
  /\ UnlockIsPaid
-----------------------------------------------------------------------------
(* A step that leaves the tables and Stripe alone and takes a handler on:  *)
(* what it must know of the row it goes on with.                           *)
LEMMA HandlerMoves ==
  ASSUME IInv, NEW h \in Handlers, NEW step \in Steps, NEW p \in 0..MaxPayments,
         Goto(h, step, p),
         UNCHANGED <<live, rows, intent>>,
         step \notin Making,
         step \in Holding => p \in 1..made /\ (live => ref[p]),
         step \in {"markPaid", "recordPaid", "hookMark"} => intent[p] = "succeeded",
         linksOff' \in BOOLEAN, paidEvents' \in Nat,
         handed' \subseteq Payments, inbox' \subseteq Payments,
         crashes' \in 0..MaxCrashes, errors' \in 0..MaxErrors,
         unlocked' \in BOOLEAN,
         unlocked' => unlocked \/ \E q \in Payments : intent[q] = "succeeded"
  PROVE  IInv'
<1> USE DEF Goto, rows
<1>1. TypeOK'
  BY DEF IInv, TypeOK
<1>2. HeldIsMade'
  BY DEF IInv, TypeOK, HeldIsMade
<1>3. UnmadeIsBlank' /\ GoneWithJob' /\ PaidHasRef'
  BY DEF IInv, UnmadeIsBlank, GoneWithJob, PaidHasRef
<1>4. MakingIsPrivate'
  BY DEF IInv, TypeOK, MakingIsPrivate, Making
<1>5. FoundByRef' /\ MarkingIsPaid'
  BY DEF IInv, TypeOK, FoundByRef, MarkingIsPaid
<1>6. UnlockIsPaid'
  BY DEF IInv, UnlockIsPaid
<1>7. QED
  BY <1>1, <1>2, <1>3, <1>4, <1>5, <1>6 DEF IInv

(* A full-row update: by the handler that makes the row, or by one that    *)
(* has Stripe's word for it.                                               *)
LEMMA HandlerSaves ==
  ASSUME IInv, NEW h \in Handlers, NEW step \in Steps, NEW s \in {"pending", "paid"},
         pc[h] \in Holding, Save(mine[h], s),
         s = "pending" => pc[h] \in Making,
         s = "paid" => intent[mine[h]] = "succeeded",
         Goto(h, step, IF step = "idle" THEN 0 ELSE mine[h]),
         step \in {"idle", "recordPaid", "hookRecord"},
         step = "recordPaid" => intent[mine[h]] = "succeeded",
         handed' \subseteq Payments,
         UNCHANGED <<job, paidEvents, intent, unlocked, inbox, faults>>
  PROVE  /\ IInv'
         /\ \A p \in Payments : payment[p] = "paid" => payment'[p] = "paid"
<1> DEFINE q == mine[h]
<1> USE DEF Goto, Save, job, faults
<1>1. q \in 1..made /\ made \in 0..MaxPayments /\ q \in Payments
  BY PaymentsAssumption DEF IInv, HeldIsMade, TypeOK, Payments
<1>2. /\ payment' = [payment EXCEPT ![q] = s]
      /\ ref' = [ref EXCEPT ![q] = TRUE]
      /\ pc' = [pc EXCEPT ![h] = step]
      /\ mine' = [mine EXCEPT ![h] = IF step = "idle" THEN 0 ELSE q]
  OBVIOUS
<1>3. TypeOK'
  <2>1. (IF step = "idle" THEN 0 ELSE q) \in 0..MaxPayments
    BY <1>1, PaymentsAssumption
  <2>2. mine' \in [Handlers -> 0..MaxPayments] /\ pc' \in [Handlers -> Steps]
    BY <2>1, <1>2 DEF IInv, TypeOK
  <2>3. /\ payment' \in [Payments -> {"none", "pending", "paid"}]
        /\ ref' \in [Payments -> BOOLEAN]
    BY <1>1, <1>2 DEF IInv, TypeOK
  <2>4. QED
    BY <2>2, <2>3 DEF IInv, TypeOK
<1>4. HeldIsMade'
  BY <1>1 DEF IInv, TypeOK, HeldIsMade, Holding
<1>5. UnmadeIsBlank'
  BY <1>1 DEF IInv, TypeOK, UnmadeIsBlank, Payments
<1>6. GoneWithJob'
  BY <1>1 DEF IInv, TypeOK, GoneWithJob
<1>7. \A g \in Handlers : g # h /\ pc[g] \in Making => mine[g] # q
  <2>1. CASE s = "pending"
    BY <2>1 DEF IInv, MakingIsPrivate
  <2>2. CASE s = "paid" /\ pc[h] \in Making
    BY <2>2 DEF IInv, MakingIsPrivate
  <2>3. CASE pc[h] \notin Making
    <3>1. live /\ ref[q]
      BY <1>1, <2>3 DEF IInv, GoneWithJob, FoundByRef
    <3>2. QED
      BY <3>1 DEF IInv, MakingIsPrivate
  <2>4. QED
    BY <2>1, <2>2, <2>3
<1>8. MakingIsPrivate'
  <2>1. ASSUME NEW g \in Handlers, pc'[g] \in Making
        PROVE  g # h /\ pc'[g] = pc[g] /\ mine'[g] = mine[g] /\ pc[g] \in Making
    BY <2>1, <1>2 DEF IInv, TypeOK, Making
  <2>2. ASSUME NEW g \in Handlers, pc'[g] \in Making
        PROVE  ref'[mine'[g]] = ref[mine[g]]
    <3>1. mine[g] \in Payments
      BY <2>1, <2>2, PaymentsAssumption DEF IInv, HeldIsMade, TypeOK, Holding, Making, Payments
    <3>2. mine'[g] = mine[g] /\ mine[g] # q
      BY <2>1, <2>2, <1>7
    <3>3. ref'[mine[g]] = ref[mine[g]]
      BY <3>1, <3>2, <1>2, <1>1 DEF IInv, TypeOK
    <3>4. QED
      BY <3>2, <3>3
  <2>3. SUFFICES ASSUME NEW g \in Handlers, pc'[g] \in Making
                 PROVE  /\ ~ref'[mine'[g]]
                        /\ pc'[g] = "create" => intent'[mine'[g]] = "none"
                        /\ \A k \in Handlers : pc'[k] \in Making /\ mine'[k] = mine'[g] => k = g
    BY DEF MakingIsPrivate
  <2>4. /\ ~ref[mine[g]]
        /\ pc[g] = "create" => intent[mine[g]] = "none"
        /\ \A k \in Handlers : pc[k] \in Making /\ mine[k] = mine[g] => k = g
    BY <2>1, <2>3 DEF IInv, MakingIsPrivate
  <2>5. ASSUME NEW k \in Handlers, pc'[k] \in Making, mine'[k] = mine'[g]
        PROVE  k = g
    BY <2>1, <2>3, <2>4, <2>5
  <2>6. QED
    BY <2>1, <2>2, <2>3, <2>4, <2>5
<1>9. FoundByRef'
  BY <1>1 DEF IInv, TypeOK, FoundByRef, HeldIsMade, Holding, Making, Payments
<1>10. MarkingIsPaid'
  BY DEF IInv, TypeOK, MarkingIsPaid
<1>11. PaidHasRef' /\ UnlockIsPaid'
  BY <1>1 DEF IInv, TypeOK, PaidHasRef, UnlockIsPaid
<1>12. \A p \in Payments : payment[p] = "paid" => payment'[p] = "paid"
  <2>1. s = "pending" => payment[q] # "paid"
    BY <1>1 DEF IInv, PaidHasRef, MakingIsPrivate
  <2>2. QED
    BY <2>1, <1>1 DEF IInv, TypeOK
<1>13. QED
  BY <1>3, <1>4, <1>5, <1>6, <1>8, <1>9, <1>10, <1>11, <1>12 DEF IInv

(* What happens at Stripe never takes a purchase back.                     *)
LEMMA StripeMoves ==
  ASSUME IInv, NEW p \in Payments, NEW outcome \in {"open", "altered", "processing", "succeeded", "underpaid"},
         intent[p] \notin {"none", "succeeded"},
         intent' = [intent EXCEPT ![p] = outcome],
         inbox' \subseteq Payments,
         UNCHANGED <<job, rows, paidEvents, handed, unlocked, pc, mine, faults>>
  PROVE  IInv'
<1> USE DEF job, rows, faults
<1>1. TypeOK'
  BY DEF IInv, TypeOK
<1>2. HeldIsMade' /\ GoneWithJob' /\ FoundByRef' /\ PaidHasRef'
  BY DEF IInv, HeldIsMade, GoneWithJob, FoundByRef, PaidHasRef
<1>3. UnmadeIsBlank'
  BY DEF IInv, TypeOK, UnmadeIsBlank
<1>4. MakingIsPrivate'
  BY DEF IInv, TypeOK, MakingIsPrivate
<1>5. MarkingIsPaid'
  BY DEF IInv, TypeOK, MarkingIsPaid
<1>6. UnlockIsPaid'
  BY DEF IInv, TypeOK, UnlockIsPaid
<1>7. QED
  BY <1>1, <1>2, <1>3, <1>4, <1>5, <1>6 DEF IInv

(* A new row is its maker's alone.                                         *)
LEMMA InsertKeeps ==
  ASSUME IInv, NEW h \in Handlers, InsertRow(h)
  PROVE  IInv'
<1> USE DEF job, outside, faults, Goto
<1>1. CASE pc'[h] = "create" /\ live /\ made < MaxPayments /\ made' = made + 1
             /\ payment' = [payment EXCEPT ![made + 1] = "pending"]
             /\ Goto(h, "create", made + 1)
  <2> DEFINE q == made + 1
  <2>1. q \in Payments /\ q \in 1..MaxPayments /\ made \in Nat
    BY <1>1, PaymentsAssumption DEF IInv, TypeOK, Payments
  <2>2. UNCHANGED <<live, linksOff, ref, paidEvents, intent, handed, unlocked, inbox, crashes, errors>>
    BY DEF InsertRow
  <2>3. payment[q] = "none" /\ ~ref[q] /\ intent[q] = "none"
    BY <2>1 DEF IInv, UnmadeIsBlank
  <2>4. TypeOK'
    BY <1>1, <2>1, <2>2 DEF IInv, TypeOK, Steps
  <2>5. HeldIsMade'
    BY <1>1, <2>1, <2>2 DEF IInv, TypeOK, HeldIsMade
  <2>6. UnmadeIsBlank' /\ GoneWithJob'
    BY <1>1, <2>1, <2>2 DEF IInv, TypeOK, UnmadeIsBlank, GoneWithJob, Payments
  <2>7. MakingIsPrivate'
    <3>1. \A g \in Handlers : pc[g] \in Making => mine[g] # q
      BY <2>1 DEF IInv, HeldIsMade, Holding, Making
    <3>2. QED
      BY <1>1, <2>1, <2>2, <2>3, <3>1 DEF IInv, TypeOK, MakingIsPrivate, Making
  <2>8. FoundByRef' /\ MarkingIsPaid'
    BY <1>1, <2>2 DEF IInv, TypeOK, FoundByRef, MarkingIsPaid, Making
  <2>9. PaidHasRef' /\ UnlockIsPaid'
    BY <1>1, <2>1, <2>2, <2>3 DEF IInv, TypeOK, PaidHasRef, UnlockIsPaid
  <2>10. QED
    BY <2>4, <2>5, <2>6, <2>7, <2>8, <2>9 DEF IInv
<1>2. CASE Return(h) /\ UNCHANGED <<made, payment>>
  <2>1. "idle" \in Steps /\ "idle" \notin Holding \cup Making /\ 0 \in 0..MaxPayments
    BY PaymentsAssumption DEF Steps, Holding, Making
  <2>2. UNCHANGED <<live, rows, intent, linksOff, paidEvents, handed, unlocked, inbox, crashes, errors>>
    BY <1>2 DEF InsertRow, rows
  <2>3. QED
    BY <1>2, <2>1, <2>2, HandlerMoves DEF Return, IInv, TypeOK
<1>3. QED
  BY <1>1, <1>2 DEF InsertRow, IInv, TypeOK

(* The intent is made for a row nobody else knows.                         *)
LEMMA CreateKeeps ==
  ASSUME IInv, NEW h \in Handlers, CreateAtStripe(h)
  PROVE  IInv'
<1> USE DEF job, rows, faults, Goto
<1> DEFINE q == mine[h]
<1>1. q \in 1..made /\ q \in Payments /\ q \in 0..MaxPayments /\ intent[q] = "none" /\ ~ref[q]
  BY PaymentsAssumption DEF IInv, TypeOK, HeldIsMade, MakingIsPrivate, CreateAtStripe, Holding, Making, Payments
<1>2. /\ pc[h] = "create"
      /\ intent' = [intent EXCEPT ![q] = "open"]
      /\ pc' = [pc EXCEPT ![h] = "record"] /\ mine' = [mine EXCEPT ![h] = q]
      /\ UNCHANGED <<live, linksOff, made, payment, ref, paidEvents, handed, unlocked, inbox, crashes, errors>>
  BY DEF CreateAtStripe
<1>3. TypeOK'
  BY <1>1, <1>2 DEF IInv, TypeOK, Steps
<1>4. HeldIsMade' /\ GoneWithJob' /\ PaidHasRef'
  BY <1>1, <1>2 DEF IInv, TypeOK, HeldIsMade, GoneWithJob, PaidHasRef
<1>5. UnmadeIsBlank'
  BY <1>1, <1>2 DEF IInv, TypeOK, UnmadeIsBlank
<1>6. MakingIsPrivate'
  BY <1>1, <1>2 DEF IInv, TypeOK, MakingIsPrivate, Making
<1>7. FoundByRef'
  BY <1>2 DEF IInv, TypeOK, FoundByRef, Making
<1>8. MarkingIsPaid' /\ UnlockIsPaid'
  BY <1>1, <1>2 DEF IInv, TypeOK, MarkingIsPaid, UnlockIsPaid
<1>9. QED
  BY <1>3, <1>4, <1>5, <1>6, <1>7, <1>8 DEF IInv

(* With the job its rows go; what Stripe holds stays.                      *)
LEMMA DeleteKeeps ==
  ASSUME IInv, NEW h \in Handlers, DeleteJob(h)
  PROVE  IInv'
<1> USE DEF outside, faults, Goto, Return
<1>1. /\ pc' = [pc EXCEPT ![h] = "idle"] /\ mine' = [mine EXCEPT ![h] = 0]
      /\ UNCHANGED <<linksOff, made, intent, handed, unlocked, inbox, crashes, errors>>
  BY DEF DeleteJob
<1>2. CASE /\ live' = FALSE
           /\ payment' = [p \in Payments |-> "none"]
           /\ ref' = [p \in Payments |-> FALSE]
           /\ paidEvents' = 0
  <2>1. TypeOK'
    <3>1. pc' \in [Handlers -> Steps] /\ mine' \in [Handlers -> 0..MaxPayments]
      BY <1>1, PaymentsAssumption DEF IInv, TypeOK, Steps
    <3>2. /\ payment' \in [Payments -> {"none", "pending", "paid"}]
          /\ ref' \in [Payments -> BOOLEAN]
          /\ live' \in BOOLEAN /\ paidEvents' \in Nat
      BY <1>2
    <3>3. QED
      BY <1>1, <3>1, <3>2 DEF IInv, TypeOK
  <2>2. HeldIsMade' /\ UnmadeIsBlank' /\ GoneWithJob'
    BY <1>1, <1>2 DEF IInv, TypeOK, HeldIsMade, UnmadeIsBlank, GoneWithJob, Holding
  <2>3. MakingIsPrivate'
    <3>1. ASSUME NEW g \in Handlers, pc'[g] \in Making
          PROVE  /\ mine'[g] \in Payments
                 /\ pc[g] = pc'[g] /\ mine[g] = mine'[g] /\ pc[g] \in Making
      BY <1>1, <3>1, PaymentsAssumption DEF IInv, TypeOK, HeldIsMade, Holding, Making, Payments
    <3>2. QED
      BY <1>1, <1>2, <3>1 DEF IInv, MakingIsPrivate
  <2>4. FoundByRef' /\ MarkingIsPaid' /\ PaidHasRef' /\ UnlockIsPaid'
    BY <1>1, <1>2 DEF IInv, TypeOK, FoundByRef, MarkingIsPaid, PaidHasRef, UnlockIsPaid
  <2>5. QED
    BY <2>1, <2>2, <2>3, <2>4 DEF IInv
<1>3. CASE UNCHANGED <<live, payment, ref, paidEvents>>
  <2>1. "idle" \in Steps /\ "idle" \notin Holding \cup Making /\ 0 \in 0..MaxPayments
    BY PaymentsAssumption DEF Steps, Holding, Making
  <2>2. Goto(h, "idle", 0) /\ UNCHANGED <<live, rows, intent>>
    BY <1>1, <1>3 DEF rows
  <2>3. QED
    BY <1>1, <1>3, <2>1, <2>2, HandlerMoves DEF IInv, TypeOK
<1>4. QED
  BY <1>2, <1>3 DEF DeleteJob

(* After a crash no request is under way.                                  *)
LEMMA CrashKeeps ==
  ASSUME IInv, Crash
  PROVE  IInv'
<1>1. /\ pc' = [h \in Handlers |-> "idle"] /\ mine' = [h \in Handlers |-> 0]
      /\ crashes' \in 0..MaxCrashes
      /\ UNCHANGED <<live, linksOff, made, payment, ref, paidEvents, intent, handed, unlocked, inbox, errors>>
  BY PaymentsAssumption DEF Crash, job, rows, outside, IInv, TypeOK
<1>2. TypeOK'
  BY <1>1, PaymentsAssumption DEF IInv, TypeOK, Steps
<1>3. HeldIsMade' /\ MakingIsPrivate' /\ FoundByRef' /\ MarkingIsPaid'
  BY <1>1 DEF HeldIsMade, MakingIsPrivate, FoundByRef, MarkingIsPaid, Holding, Making
<1>4. UnmadeIsBlank' /\ GoneWithJob' /\ PaidHasRef' /\ UnlockIsPaid'
  BY <1>1 DEF IInv, UnmadeIsBlank, GoneWithJob, PaidHasRef, UnlockIsPaid
<1>5. QED
  BY <1>2, <1>3, <1>4 DEF IInv
-----------------------------------------------------------------------------
(* The remaining steps of a handler are moves or full-row updates.         *)

LEMMA IdleIsQuiet ==
  /\ "idle" \in Steps /\ "idle" \notin Holding \cup Making
  /\ 0 \in 0..MaxPayments
BY PaymentsAssumption DEF Steps, Holding, Making

LEMMA HeldType ==
  ASSUME IInv, NEW h \in Handlers, pc[h] \in Holding
  PROVE  /\ mine[h] \in Payments /\ mine[h] \in 0..MaxPayments /\ mine[h] \in 1..made
         /\ pc[h] \notin Making /\ live => ref[mine[h]]
BY PaymentsAssumption DEF IInv, TypeOK, HeldIsMade, FoundByRef, Payments

LEMMA CheckoutKeeps ==
  ASSUME IInv, NEW h \in Handlers,
         CheckoutBegin(h) \/ CheckoutList(h) \/ ReuseIntent(h)
  PROVE  IInv'
<1> USE IdleIsQuiet DEF job, outside, faults, Return
<1>1. CASE CheckoutBegin(h)
  <2>1. "list" \in Steps /\ "list" \notin Holding \cup Making
    BY DEF Steps, Holding, Making
  <2>2. QED
    BY <1>1, <2>1, HandlerMoves DEF CheckoutBegin, IInv, TypeOK
<1>2. CASE CheckoutList(h)
  <2>1. "insert" \in Steps /\ "insert" \notin Holding \cup Making
    BY DEF Steps, Holding, Making
  <2>2. CASE Goto(h, "idle", 0) \/ Goto(h, "insert", 0)
    BY <1>2, <2>1, <2>2, HandlerMoves DEF CheckoutList, IInv, TypeOK
  <2>3. CASE Reconcilable(Newest) /\ Goto(h, "reuse", Newest)
    <3>1. "reuse" \in Steps /\ "reuse" \notin Making
      BY DEF Steps, Making
    <3>2. Newest \in 0..MaxPayments /\ Newest \in 1..made /\ ref[Newest]
      BY <2>3 DEF Newest, Reconcilable, IInv, TypeOK
    <3>3. QED
      BY <1>2, <2>3, <3>1, <3>2, HandlerMoves DEF CheckoutList, IInv, TypeOK
  <2>4. QED
    BY <1>2, <2>2, <2>3 DEF CheckoutList
<1>3. CASE ReuseIntent(h)
  <2>1. "insert" \in Steps /\ "insert" \notin Holding \cup Making
    BY DEF Steps, Holding, Making
  <2>2. handed' \subseteq Payments
    BY <1>3, HeldType DEF ReuseIntent, IInv, TypeOK, Holding
  <2>3. Goto(h, "idle", 0) \/ Goto(h, "insert", 0)
    BY <1>3 DEF ReuseIntent
  <2>4. QED
    BY <1>3, <2>1, <2>2, <2>3, HandlerMoves DEF ReuseIntent, IInv, TypeOK
<1>4. QED
  BY <1>1, <1>2, <1>3

LEMMA StatusKeeps ==
  ASSUME IInv, NEW h \in Handlers,
         StatusBegin(h) \/ StatusList(h) \/ Reconcile(h)
  PROVE  IInv'
<1> USE IdleIsQuiet DEF job, outside, faults, Return
<1>1. CASE StatusBegin(h)
  <2>1. "status" \in Steps /\ "status" \notin Holding \cup Making
    BY DEF Steps, Holding, Making
  <2>2. QED
    BY <1>1, <2>1, HandlerMoves DEF StatusBegin, IInv, TypeOK
<1>2. CASE StatusList(h)
  <2>1. CASE AnyPaid /\ unlocked' = TRUE /\ Goto(h, "idle", 0)
    <3>1. \E q \in Payments : intent[q] = "succeeded"
      BY <2>1 DEF AnyPaid, IInv, UnlockIsPaid
    <3>2. QED
      BY <1>2, <2>1, <3>1, HandlerMoves DEF StatusList, IInv, TypeOK
  <2>2. CASE Goto(h, "idle", 0) /\ UNCHANGED unlocked
    BY <1>2, <2>2, HandlerMoves DEF StatusList, IInv, TypeOK
  <2>3. CASE Reconcilable(Newest) /\ Goto(h, "reconcile", Newest) /\ UNCHANGED unlocked
    <3>1. "reconcile" \in Steps /\ "reconcile" \notin Making
      BY DEF Steps, Making
    <3>2. Newest \in 0..MaxPayments /\ Newest \in 1..made /\ ref[Newest]
      BY <2>3 DEF Newest, Reconcilable, IInv, TypeOK
    <3>3. QED
      BY <1>2, <2>3, <3>1, <3>2, HandlerMoves DEF StatusList, IInv, TypeOK
  <2>4. QED
    BY <1>2, <2>1, <2>2, <2>3 DEF StatusList
<1>3. CASE Reconcile(h)
  <2>1. "markPaid" \in Steps /\ "markPaid" \notin Making
    BY DEF Steps, Making
  <2>2. /\ mine[h] \in 0..MaxPayments /\ mine[h] \in 1..made
        /\ live => ref[mine[h]]
    BY <1>3, HeldType DEF Reconcile, Holding, Making
  <2>3. QED
    BY <1>3, <2>1, <2>2, HandlerMoves DEF Reconcile, IInv, TypeOK
<1>4. QED
  BY <1>1, <1>2, <1>3

LEMMA NotePaidType ==
  ASSUME IInv, NotePaid
  PROVE  paidEvents' \in Nat
BY DEF NotePaid, IInv, TypeOK

LEMMA UpdateKeeps ==
  ASSUME IInv, NEW h \in Handlers,
         RecordRef(h) \/ MarkPaid(h) \/ HookMark(h)
  PROVE  /\ IInv'
         /\ \A p \in Payments : payment[p] = "paid" => payment'[p] = "paid"
<1> USE IdleIsQuiet DEF job, outside, faults, Return
<1>1. CASE RecordRef(h)
  <2>1. pc[h] \in Holding /\ pc[h] \in Making
    BY <1>1 DEF RecordRef, Holding, Making
  <2>2. handed' \subseteq Payments
    BY <1>1, <2>1, HeldType DEF RecordRef, IInv, TypeOK
  <2>3. CASE Save(mine[h], "pending")
    BY <1>1, <2>1, <2>2, <2>3, HandlerSaves DEF RecordRef
  <2>4. CASE UNCHANGED rows
    BY <1>1, <2>2, <2>4, HandlerMoves DEF RecordRef, rows, IInv, TypeOK
  <2>5. QED
    BY <1>1, <2>3, <2>4 DEF RecordRef
<1>2. CASE MarkPaid(h)
  <2>1. pc[h] \in Holding /\ mine[h] \in Payments /\ intent[mine[h]] = "succeeded"
    BY <1>2, HeldType DEF MarkPaid, Holding, IInv, MarkingIsPaid
  <2>2. CASE Save(mine[h], "paid") /\ Goto(h, "recordPaid", mine[h]) /\ UNCHANGED unlocked
    <3>1. "recordPaid" \in Steps /\ handed' \subseteq Payments
      BY <1>2 DEF MarkPaid, Steps, IInv, TypeOK
    <3>2. QED
      BY <1>2, <2>1, <2>2, <3>1, HandlerSaves DEF MarkPaid
  <2>3. CASE unlocked' = TRUE /\ Goto(h, "idle", 0) /\ UNCHANGED rows
    BY <1>2, <2>1, <2>3, HandlerMoves DEF MarkPaid, rows, IInv, TypeOK
  <2>4. QED
    BY <1>2, <2>2, <2>3 DEF MarkPaid
<1>3. CASE HookMark(h)
  <2>1. pc[h] \in Holding /\ mine[h] \in Payments /\ intent[mine[h]] = "succeeded"
    BY <1>3, HeldType DEF HookMark, Holding, IInv, MarkingIsPaid
  <2>2. CASE Save(mine[h], "paid") /\ Goto(h, "hookRecord", mine[h])
    <3>1. "hookRecord" \in Steps /\ handed' \subseteq Payments
      BY <1>3 DEF HookMark, Steps, IInv, TypeOK
    <3>2. QED
      BY <1>3, <2>1, <2>2, <3>1, HandlerSaves DEF HookMark
  <2>3. CASE Goto(h, "idle", 0) /\ UNCHANGED rows
    BY <1>3, <2>3, HandlerMoves DEF HookMark, rows, IInv, TypeOK
  <2>4. QED
    BY <1>3, <2>2, <2>3 DEF HookMark
<1>4. QED
  BY <1>1, <1>2, <1>3

LEMMA RecordKeeps ==
  ASSUME IInv, NEW h \in Handlers,
         RecordPaid(h) \/ HookRecord(h)
  PROVE  IInv'
<1> USE IdleIsQuiet, NotePaidType DEF job, outside, faults, Return
<1>1. CASE RecordPaid(h)
  <2>1. mine[h] \in Payments /\ intent[mine[h]] = "succeeded"
    BY <1>1, HeldType DEF RecordPaid, Holding, IInv, MarkingIsPaid
  <2>2. QED
    BY <1>1, <2>1, HandlerMoves DEF RecordPaid, rows, IInv, TypeOK
<1>2. CASE HookRecord(h)
  BY <1>2, HandlerMoves DEF HookRecord, rows, IInv, TypeOK
<1>3. QED
  BY <1>1, <1>2

LEMMA HookBeginKeeps ==
  ASSUME IInv, NEW h \in Handlers, NEW p \in Payments, HookBegin(h, p)
  PROVE  IInv'
<1> USE DEF job, outside, faults
<1>1. CASE inbox' = inbox \ {p} /\ UNCHANGED <<pc, mine>>
  <2>1. /\ inbox' \subseteq Payments
        /\ UNCHANGED <<live, linksOff, made, payment, ref, paidEvents, intent, handed, unlocked, pc, mine, crashes, errors>>
    BY <1>1 DEF HookBegin, rows, IInv, TypeOK
  <2>2. QED
    BY <2>1 DEF IInv, TypeOK, HeldIsMade, UnmadeIsBlank, GoneWithJob, MakingIsPrivate,
                FoundByRef, MarkingIsPaid, PaidHasRef, UnlockIsPaid
<1>2. CASE intent[p] = "succeeded" /\ Goto(h, "hookMark", p) /\ UNCHANGED inbox
  <2>1. "hookMark" \in Steps /\ "hookMark" \notin Making
    BY DEF Steps, Making
  <2>2. p \in 1..made /\ p \in 0..MaxPayments /\ ref[p]
    BY <1>2, PaymentsAssumption DEF HookBegin, IInv, TypeOK, UnmadeIsBlank, Payments
  <2>3. QED
    BY <1>2, <2>1, <2>2, HandlerMoves DEF HookBegin, rows, IInv, TypeOK
<1>3. QED
  BY <1>1, <1>2 DEF HookBegin

LEMMA OperatorKeeps ==
  ASSUME IInv, NEW h \in Handlers,
         SwitchBegin(h) \/ Switch(h) \/ DeleteBegin(h)
  PROVE  IInv'
<1> USE IdleIsQuiet DEF job, outside, faults, Return
<1>1. {"switchOn", "switchOff", "delete"} \cap (Holding \cup Making) = {}
      /\ {"switchOn", "switchOff", "delete"} \subseteq Steps
  BY DEF Steps, Holding, Making
<1>2. CASE SwitchBegin(h)
  BY <1>1, <1>2, HandlerMoves DEF SwitchBegin, IInv, TypeOK
<1>3. CASE Switch(h)
  <2>1. linksOff' \in BOOLEAN
    BY <1>3 DEF Switch, IInv, TypeOK
  <2>2. QED
    BY <1>3, <2>1, HandlerMoves DEF Switch, IInv, TypeOK
<1>4. CASE DeleteBegin(h)
  BY <1>1, <1>4, HandlerMoves DEF DeleteBegin, IInv, TypeOK
<1>5. QED
  BY <1>2, <1>3, <1>4

LEMMA PayKeeps ==
  ASSUME IInv, NEW p \in Payments, Pay(p) \/ Settle(p) \/ Alter(p)
  PROVE  IInv'
<1>1. PICK outcome \in {"open", "altered", "processing", "succeeded", "underpaid"} :
        intent' = [intent EXCEPT ![p] = outcome]
  BY DEF Pay, Settle, Alter, Succeed
<1>2. inbox' \subseteq Payments
  BY DEF Pay, Settle, Alter, Succeed, IInv, TypeOK
<1>3. intent[p] \notin {"none", "succeeded"}
  BY DEF Pay, Settle, Alter
<1>4. UNCHANGED <<job, rows, paidEvents, handed, unlocked, pc, mine, faults>>
  BY DEF Pay, Settle, Alter
<1>5. QED
  BY <1>1, <1>2, <1>3, <1>4, StripeMoves

(* A failed call leaves its row as it was.                                 *)
LEMMA FailureKeeps ==
  ASSUME IInv, NEW h \in Handlers, CallFails(h)
  PROVE  IInv'
<1> USE IdleIsQuiet DEF job, Return
<1>1. /\ "insert" \in Steps /\ "insert" \notin Holding \cup Making
      /\ errors' \in 0..MaxErrors
      /\ UNCHANGED <<live, linksOff, rows, paidEvents, intent, inbox, crashes>>
  BY PaymentsAssumption DEF CallFails, Steps, Holding, Making, IInv, TypeOK
<1>2. CASE (Goto(h, "insert", 0) \/ Goto(h, "idle", 0)) /\ UNCHANGED <<handed, unlocked>>
  BY <1>1, <1>2, HandlerMoves DEF IInv, TypeOK
<1>3. CASE pc[h] = "record" /\ handed' = handed \cup {mine[h]} /\ Goto(h, "idle", 0) /\ UNCHANGED unlocked
  <2>1. handed' \subseteq Payments
    BY <1>3, HeldType DEF Holding, IInv, TypeOK
  <2>2. QED
    BY <1>1, <1>3, <2>1, HandlerMoves DEF IInv, TypeOK
<1>4. CASE pc[h] = "markPaid" /\ unlocked' = TRUE /\ Goto(h, "idle", 0) /\ UNCHANGED handed
  <2>1. mine[h] \in Payments /\ intent[mine[h]] = "succeeded"
    BY <1>4, HeldType DEF Holding, IInv, MarkingIsPaid
  <2>2. QED
    BY <1>1, <1>4, <2>1, HandlerMoves DEF IInv, TypeOK
<1>5. QED
  BY <1>2, <1>3, <1>4 DEF CallFails
-----------------------------------------------------------------------------
LEMMA PaymentsInit == Init => IInv
<1> SUFFICES ASSUME Init PROVE IInv
  OBVIOUS
<1>1. TypeOK
  <2>1. /\ pc \in [Handlers -> Steps] /\ mine \in [Handlers -> 0..MaxPayments]
        /\ made \in 0..MaxPayments /\ crashes \in 0..MaxCrashes /\ errors \in 0..MaxErrors
    BY PaymentsAssumption DEF Init, Steps
  <2>2. /\ payment \in [Payments -> {"none", "pending", "paid"}]
        /\ ref \in [Payments -> BOOLEAN]
        /\ intent \in [Payments -> {"none", "open", "altered", "processing", "succeeded", "underpaid"}]
    BY DEF Init
  <2>3. /\ live \in BOOLEAN /\ linksOff \in BOOLEAN /\ unlocked \in BOOLEAN /\ paidEvents \in Nat
        /\ handed \subseteq Payments /\ inbox \subseteq Payments
    BY DEF Init
  <2>4. QED
    BY <2>1, <2>2, <2>3 DEF TypeOK
<1>2. HeldIsMade /\ MakingIsPrivate /\ FoundByRef /\ MarkingIsPaid
  BY DEF Init, HeldIsMade, MakingIsPrivate, FoundByRef, MarkingIsPaid, Holding, Making
<1>3. UnmadeIsBlank /\ GoneWithJob /\ PaidHasRef /\ UnlockIsPaid
  BY DEF Init, UnmadeIsBlank, GoneWithJob, PaidHasRef, UnlockIsPaid
<1>4. QED
  BY <1>1, <1>2, <1>3 DEF IInv

LEMMA PaymentsNext == IInv /\ [Next]_vars => IInv'
<1> SUFFICES ASSUME IInv, [Next]_vars PROVE IInv'
  OBVIOUS
<1>1. ASSUME NEW h \in Handlers, Begin(h)
      PROVE  IInv'
  BY <1>1, CheckoutKeeps, StatusKeeps, OperatorKeeps, HookBeginKeeps DEF Begin
<1>2. ASSUME NEW h \in Handlers, Advance(h)
      PROVE  IInv'
  BY <1>2, CheckoutKeeps, InsertKeeps, CreateKeeps, UpdateKeeps, StatusKeeps, RecordKeeps,
     OperatorKeeps, DeleteKeeps DEF Advance
<1>3. CASE UNCHANGED vars
  <2>1. UNCHANGED <<live, linksOff, made, payment, ref, paidEvents, intent, handed, unlocked,
                    inbox, pc, mine, crashes, errors>>
    BY <1>3 DEF vars, job, rows, outside, faults
  <2>2. TypeOK' /\ HeldIsMade' /\ UnmadeIsBlank' /\ GoneWithJob'
    BY <2>1 DEF IInv, TypeOK, HeldIsMade, UnmadeIsBlank, GoneWithJob
  <2>3. MakingIsPrivate' /\ FoundByRef' /\ MarkingIsPaid' /\ PaidHasRef' /\ UnlockIsPaid'
    BY <2>1 DEF IInv, MakingIsPrivate, FoundByRef, MarkingIsPaid, PaidHasRef, UnlockIsPaid
  <2>4. QED
    BY <2>2, <2>3 DEF IInv
<1>4. QED
  BY <1>1, <1>2, <1>3, FailureKeeps, PayKeeps, CrashKeeps DEF Next

THEOREM PaymentsInvariance == Spec => []IInv
<1>1. QED
  BY PaymentsInit, PaymentsNext, PTL DEF Spec

(* Whatever order page loads, webhooks, retries and a deletion come in, and*)
(* whichever calls fail, the original is given out, and a row called paid, *)
(* only for money Stripe collected in full (service.go coversPayment).     *)
THEOREM UnlockIsEarned == Spec => []UnlockIsPaid
<1>1. IInv => UnlockIsPaid
  BY DEF IInv
<1>2. QED
  BY <1>1, PaymentsInvariance, PTL

(* No full-row update, written from a copy read before other requests'     *)
(* steps, takes a purchase back (service.go CreateIntent: "never be a way  *)
(* to undo"); only the deletion of the job removes a paid row.             *)
THEOREM NoUpdateUndoes == Spec => PaidStays
<1>1. ASSUME IInv, [Next]_vars
      PROVE  [\A p \in Payments : payment[p] = "paid" =>
                payment'[p] = "paid" \/ (~live' /\ payment'[p] = "none")]_vars
  <2>1. CASE UNCHANGED payment
    BY <2>1
  <2>2. ASSUME NEW h \in Handlers, InsertRow(h)
        PROVE  \A p \in Payments : payment[p] = "paid" => payment'[p] = "paid"
    <3>1. \A p \in Payments : payment[p] = "paid" => p # made + 1
      BY <1>1, PaymentsAssumption DEF IInv, TypeOK, UnmadeIsBlank, Payments
    <3>2. payment' = payment \/ payment' = [payment EXCEPT ![made + 1] = "pending"]
      BY <2>2 DEF InsertRow
    <3>3. QED
      BY <1>1, <3>1, <3>2 DEF IInv, TypeOK
  <2>3. ASSUME NEW h \in Handlers, RecordRef(h) \/ MarkPaid(h) \/ HookMark(h)
        PROVE  \A p \in Payments : payment[p] = "paid" => payment'[p] = "paid"
    BY <1>1, <2>3, UpdateKeeps
  <2>4. ASSUME NEW h \in Handlers, DeleteJob(h)
        PROVE  \A p \in Payments : payment[p] = "paid" =>
                 payment'[p] = "paid" \/ (~live' /\ payment'[p] = "none")
    BY <2>4 DEF DeleteJob
  <2>5. ASSUME NEW h \in Handlers, Begin(h)
        PROVE  UNCHANGED payment
    BY <2>5 DEF Begin, CheckoutBegin, StatusBegin, SwitchBegin, DeleteBegin, HookBegin, rows
  <2>6. ASSUME NEW h \in Handlers,
               \/ CheckoutList(h) \/ ReuseIntent(h) \/ CreateAtStripe(h) \/ StatusList(h)
               \/ Reconcile(h) \/ RecordPaid(h) \/ HookRecord(h) \/ Switch(h)
        PROVE  UNCHANGED payment
    BY <2>6 DEF CheckoutList, ReuseIntent, CreateAtStripe, StatusList, Reconcile, RecordPaid,
                HookRecord, Switch, rows
  <2>7. ASSUME NEW h \in Handlers, CallFails(h)
        PROVE  UNCHANGED payment
    BY <2>7 DEF CallFails, rows
  <2>8. ASSUME NEW p \in Payments, Pay(p) \/ Settle(p) \/ Alter(p)
        PROVE  UNCHANGED payment
    BY <2>8 DEF Pay, Settle, Alter, rows
  <2>9. CASE Crash
    BY <2>9, <2>1 DEF Crash, rows
  <2>10. CASE UNCHANGED vars
    BY <2>10
  <2>11. ASSUME NEW h \in Handlers, Begin(h) \/ Advance(h) \/ CallFails(h)
         PROVE  \A p \in Payments : payment[p] = "paid" =>
                  payment'[p] = "paid" \/ (~live' /\ payment'[p] = "none")
    <3>1. CASE Begin(h) \/ CallFails(h)
      <4>1. UNCHANGED payment
        BY <3>1, <2>5, <2>7
      <4>2. QED
        BY <4>1
    <3>2. CASE InsertRow(h) \/ RecordRef(h) \/ MarkPaid(h) \/ HookMark(h)
      BY <3>2, <2>2, <2>3
    <3>3. CASE DeleteJob(h)
      BY <3>3, <2>4, Zenon
    <3>4. CASE \/ CheckoutList(h) \/ ReuseIntent(h) \/ CreateAtStripe(h) \/ StatusList(h)
               \/ Reconcile(h) \/ RecordPaid(h) \/ HookRecord(h) \/ Switch(h)
      <4>1. UNCHANGED payment
        BY <3>4, <2>6
      <4>2. QED
        BY <4>1
    <3>5. QED
      BY <2>11, <3>1, <3>2, <3>3, <3>4 DEF Advance
  <2>12. QED
    BY <1>1, <2>1, <2>8, <2>9, <2>10, <2>11 DEF Next
<1>2. QED
  BY <1>1, PaymentsInvariance, PTL DEF Spec, PaidStays
=============================================================================
