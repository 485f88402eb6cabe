----------------------------- MODULE JobProofs ------------------------------
(***************************************************************************)
(* What the requests about a job promise for any number of requests,       *)
(* payments, uploads and failures: its payment while requests do not       *)
(* overlap, the files of its account, the history of its links, the limits *)
(* upon both, the look of its preview, and the types of them all.          *)
(***************************************************************************)
EXTENDS MCJob, PaymentsProofs, Sums

-----------------------------------------------------------------------------
(* Requests that do not overlap.  The only one is between its look at the  *)
(* payments and what it does upon it.                                      *)

Paid == {p \in Payments : payment[p] = "paid"}

AtWork == {"reuse", "create", "record", "reconcile", "markPaid", "recordPaid",
           "hookMark", "hookRecord"}

FoundUnpaid == {"reuse", "insert", "create", "record", "reconcile", "markPaid",
                "switchOff", "delete"}

(* The "paid" event that is about to be recorded.                          *)
Due == IF pc[Alone] \in {"recordPaid", "hookRecord"} THEN 1 ELSE 0

AloneTypes ==
  /\ made \in 0..MaxPayments
  /\ payment \in [Payments -> {"none", "pending", "paid"}]
  /\ paidEvents \in Nat
  /\ pc \in [{Alone} -> Steps] /\ mine \in [{Alone} -> 0..MaxPayments]
  /\ pc[Alone] \in AtWork => mine[Alone] \in Payments

StillUnpaid ==
  /\ pc[Alone] \in FoundUnpaid => ~AnyPaid
  /\ pc[Alone] = "hookMark" => payment[mine[Alone]] # "paid"

SInv ==
  /\ AloneTypes
  /\ StillUnpaid
  /\ paidEvents + Due <= Cardinality(Paid)

LEMMA PaidCount ==
  ASSUME AloneTypes
  PROVE  /\ IsFiniteSet(Paid) /\ Cardinality(Paid) \in Nat
         /\ ~AnyPaid => Cardinality(Paid) = 0
<1>1. IsFiniteSet(Payments)
  BY FS_Interval, PaymentsAssumption DEF Payments
<1>2. IsFiniteSet(Paid)
  BY <1>1, FS_Subset DEF Paid
<1>3. ~AnyPaid => Paid = {}
  BY DEF AnyPaid, Paid
<1>4. QED
  BY <1>2, <1>3, FS_CardinalityType, FS_EmptySet

(* What a step does to the payments and the events of a lone request.      *)
Keeps == payment' = payment /\ paidEvents' + Due' <= paidEvents + Due

Marks ==
  /\ payment[mine[Alone]] # "paid"
  /\ payment' = [payment EXCEPT ![mine[Alone]] = "paid"]
  /\ mine[Alone] \in Payments
  /\ paidEvents' = paidEvents /\ Due = 0 /\ Due' = 1

Unpaid == ~AnyPaid /\ ~AnyPaid' /\ Due' = 0 /\ paidEvents' \in {0, paidEvents}

LEMMA NoMore ==
  ASSUME NEW e \in Nat, NEW ee \in Nat, NEW d \in Nat, NEW dd \in Nat, NEW n \in Nat,
         e + d <= n
  PROVE  /\ ee + dd <= e + d => ee + dd <= n
         /\ dd = 0 /\ ee \in {0, e} => ee + dd <= n
  OBVIOUS

LEMMA NotedStays ==
  ASSUME SInv, AloneTypes', Keeps \/ Marks \/ Unpaid
  PROVE  (paidEvents + Due <= Cardinality(Paid))'
<1> DEFINE n == Cardinality(Paid)
           nn == Cardinality(Paid')
           d == Due
           dd == Due'
<1>1. n \in Nat /\ nn \in Nat /\ IsFiniteSet(Paid)
      /\ paidEvents \in Nat /\ paidEvents' \in Nat
      /\ d \in Nat /\ dd \in Nat /\ paidEvents + d <= n
  <2>1. AloneTypes
    BY DEF SInv
  <2>2. IsFiniteSet(Paid) /\ n \in Nat
    BY <2>1, PaidCount
  <2>3. nn \in Nat
    <3>1. IsFiniteSet(Payments) /\ Paid' \in SUBSET Payments
      BY FS_Interval, PaymentsAssumption DEF Paid, Payments
    <3>2. QED
      BY <3>1, FS_CardinalityType, FS_Subset
  <2>4. QED
    BY <2>1, <2>2, <2>3 DEF SInv, AloneTypes, Due
<1>2. CASE Keeps
  <2>1. nn = n
    BY <1>2 DEF Keeps, Paid
  <2> HIDE DEF n, nn, d, dd
  <2>2. paidEvents' + dd <= paidEvents + d
    BY <1>2 DEF Keeps, d, dd
  <2>3. paidEvents' + dd <= nn
    BY <1>1, <2>1, <2>2, NoMore
  <2>4. QED
    BY <2>3 DEF nn, dd
<1>3. CASE Marks
  <2>1. Paid' = Paid \cup {mine[Alone]} /\ mine[Alone] \notin Paid
    BY <1>3 DEF Marks, Paid, SInv, AloneTypes
  <2>2. nn = n + 1
    BY <1>1, <2>1, FS_AddElement
  <2> HIDE DEF n, nn, d, dd
  <2>3. paidEvents' = paidEvents /\ d = 0 /\ dd = 1
    BY <1>3 DEF Marks, d, dd
  <2>4. paidEvents' + dd <= nn
    BY <1>1, <2>2, <2>3
  <2>5. QED
    BY <2>4 DEF nn, dd
<1>4. CASE Unpaid
  <2>1. n = 0 /\ nn = 0
    <3>1. Paid = {} /\ Paid' = {}
      BY <1>4 DEF Unpaid, AnyPaid, Paid
    <3>2. QED
      BY <3>1, FS_EmptySet
  <2> HIDE DEF n, nn, d, dd
  <2>2. dd = 0 /\ paidEvents' \in {0, paidEvents}
    BY <1>4 DEF Unpaid, d, dd
  <2>3. paidEvents' + dd <= nn
    BY <1>1, <2>1, <2>2, NoMore
  <2>4. QED
    BY <2>3 DEF nn, dd
<1>5. QED
  BY <1>2, <1>3, <1>4

Kept == AloneTypes' /\ StillUnpaid' /\ (Keeps \/ Marks \/ Unpaid)

LEMMA SingleRequest ==
  ASSUME SInv, Single!Begin(Alone) \/ Single!Advance(Alone) \/ Single!CallFails(Alone)
  PROVE  Kept
<1> USE DEF Kept, SInv, AloneTypes, StillUnpaid, AtWork, FoundUnpaid, Steps, Due, Keeps,
            Marks, Unpaid, AnyPaid, Payments,
            Single!AnyPaid, Single!Payments, Single!Goto, Single!Return,
            Single!Newest, Single!Reconcilable, Single!Save, Single!NotePaid, Single!job,
            Single!rows, Single!outside, Single!faults
<1> USE PaymentsAssumption
<1>1. CASE Single!CheckoutBegin(Alone)
  BY <1>1 DEF Single!CheckoutBegin
<1>2. CASE Single!CheckoutList(Alone)
  BY <1>2 DEF Single!CheckoutList
<1>3. CASE Single!ReuseIntent(Alone)
  BY <1>3 DEF Single!ReuseIntent
<1>4. CASE Single!InsertRow(Alone)
  BY <1>4 DEF Single!InsertRow
<1>5. CASE Single!CreateAtStripe(Alone)
  BY <1>5 DEF Single!CreateAtStripe
<1>6. CASE Single!RecordRef(Alone)
  BY <1>6 DEF Single!RecordRef
<1>7. CASE Single!StatusBegin(Alone)
  BY <1>7 DEF Single!StatusBegin
<1>8. CASE Single!StatusList(Alone)
  BY <1>8 DEF Single!StatusList
<1>9. CASE Single!Reconcile(Alone)
  BY <1>9 DEF Single!Reconcile
<1>10. CASE Single!MarkPaid(Alone)
  BY <1>10 DEF Single!MarkPaid
<1>11. CASE Single!RecordPaid(Alone)
  BY <1>11 DEF Single!RecordPaid
<1>12. CASE Single!HookMark(Alone)
  BY <1>12 DEF Single!HookMark
<1>13. CASE Single!HookRecord(Alone)
  BY <1>13 DEF Single!HookRecord
<1>14. CASE Single!SwitchBegin(Alone)
  BY <1>14 DEF Single!SwitchBegin
<1>15. CASE Single!Switch(Alone)
  BY <1>15 DEF Single!Switch
<1>16. CASE Single!DeleteBegin(Alone)
  BY <1>16 DEF Single!DeleteBegin
<1>17. CASE Single!DeleteJob(Alone)
  BY <1>17 DEF Single!DeleteJob
<1>18. CASE \E p \in Single!Payments : Single!HookBegin(Alone, p)
  BY <1>18 DEF Single!HookBegin
<1>19. CASE Single!CallFails(Alone)
  BY <1>19 DEF Single!CallFails
<1>20. QED
  BY <1>1, <1>2, <1>3, <1>4, <1>5, <1>6, <1>7, <1>8, <1>9, <1>10, <1>11, <1>12, <1>13, <1>14, <1>15, <1>16, <1>17, <1>18, <1>19 DEF Single!Begin, Single!Advance

LEMMA SingleOthers ==
  ASSUME SInv,
         \/ \E p \in Single!Payments : Single!Pay(p) \/ Single!Settle(p) \/ Single!Alter(p)
         \/ Single!Crash
         \/ UNCHANGED vars
  PROVE  Kept
<1> USE DEF SInv, AloneTypes, StillUnpaid, AtWork, FoundUnpaid, Steps, Due, AnyPaid, Payments
<1>1. CASE Single!Crash
  <2>1. /\ pc' = [h \in {Alone} |-> "idle"] /\ mine' = [h \in {Alone} |-> 0]
        /\ UNCHANGED <<made, payment, paidEvents>>
    BY <1>1 DEF Single!Crash, Single!job, Single!rows, Single!outside
  <2>2. AloneTypes' /\ StillUnpaid' /\ Keeps
    BY <2>1, PaymentsAssumption DEF Keeps
  <2>3. QED
    BY <2>2 DEF Kept
<1>2. ASSUME ~Single!Crash
      PROVE  UNCHANGED <<made, payment, paidEvents, pc, mine>>
  BY <1>2 DEF Single!Pay, Single!Settle, Single!Alter, Single!Succeed, Single!job, Single!rows,
     Single!faults, vars, job, rows, outside, faults
<1>3. CASE ~Single!Crash
  BY <1>2, <1>3 DEF Keeps, Kept
<1>4. QED
  BY <1>1, <1>3

LEMMA SingleInit ==
  ASSUME Single!Init
  PROVE  SInv
<1>1. AloneTypes /\ StillUnpaid
  BY PaymentsAssumption
  DEF Single!Init, Single!Payments, Payments, AloneTypes, StillUnpaid, AtWork, FoundUnpaid, Steps,
      AnyPaid
<1>2. Cardinality(Paid) \in Nat
  BY <1>1, PaidCount
<1>3. paidEvents = 0 /\ Due = 0
  BY DEF Single!Init, Due
<1>4. QED
  BY <1>1, <1>2, <1>3 DEF SInv

LEMMA SingleNext ==
  ASSUME part = "single" => SInv, [JobNext]_allVars
  PROVE  (part = "single" => SInv)'
<1>1. part' = part
  BY DEF JobNext, allVars
<1>2. ASSUME part = "single"
      PROVE  SInv'
  <2>1. Single!Next \/ UNCHANGED vars
    BY <1>2 DEF JobNext, allVars
  <2>2. Kept
    BY <1>2, <2>1, SingleRequest, SingleOthers DEF Single!Next
  <2>3. QED
    BY <1>2, <2>2, NotedStays DEF Kept, SInv
<1>3. QED
  BY <1>1, <1>2

(* In every reachable state a lone request that found the job unpaid works *)
(* on a job that still is, and events and payments count the same.         *)
THEOREM SingleInvariance == JobSpec => [](part = "single" => SInv)
<1>1. JobInit => (part = "single" => SInv)
  BY SingleInit DEF JobInit
<1>2. (part = "single" => SInv) /\ [JobNext]_allVars => (part = "single" => SInv)'
  BY SingleNext
<1>3. QED
  BY <1>1, <1>2, PTL DEF JobSpec

(* The cardinality of the instance is the cardinality.                     *)
LEMMA SameCardinality == \A S : Single!Cardinality(S) = Cardinality(S)
  BY DEF Single!Cardinality, Cardinality

(* PaidNotedOnce: as long as requests do not overlap the history has one   *)
(* "paid" entry per purchase, by whichever of page load and webhook, and   *)
(* wherever the process dies (payment/service.go recordPaid).              *)
THEOREM EventsAreEarned == JobSpec => []PaidNotedOnce
<1>1. (part = "single" => SInv) => PaidNotedOnce
  <2> SUFFICES ASSUME part = "single", SInv
               PROVE  Single!NotedOnce
    BY DEF PaidNotedOnce
  <2> DEFINE n == Cardinality(Paid)
             d == Due
  <2>1. paidEvents \in Nat /\ n \in Nat /\ d \in Nat /\ paidEvents + d <= n
    BY PaidCount DEF SInv, AloneTypes, Due
  <2> HIDE DEF n, d
  <2>2. paidEvents <= n
    BY <2>1
  <2>3. Paid = {p \in Single!Payments : payment[p] = "paid"}
    BY DEF Paid, Payments, Single!Payments
  <2>4. QED
    BY <2>2, <2>3, SameCardinality DEF n, Single!NotedOnce
<1>2. QED
  BY <1>1, SingleInvariance, PTL

-----------------------------------------------------------------------------
(* The files of the account.  What each request and the worker is at says  *)
(* which files and rows it may still touch.                                *)

Statuses == {"absent", "pending", "processing", "done", "failed", "gone"}

Works == {Media!NoWork} \cup [at : {"encode", "add", "done"}, job : Jobs]

(* The steps of an upload after its row is made.                           *)
Uploading(h) == req[h].at \in {"put", "verify", "asset", "dropFile", "dropRow"}

OriginalOf(h) == <<req[h].job, "original">>

MediaTypes ==
  /\ status \in [Jobs -> Statuses]
  /\ asset \subseteq Media!Keys /\ files \subseteq Media!Keys
  /\ \A k \in asset : Media!RowExists(k[1])
  /\ work \in Works /\ (work # Media!NoWork => status[work.job] # "absent")
  /\ DOMAIN req = Handlers

(* A job is uploaded by one request, and has no asset until that is over.  *)
UploadsAlone ==
  \A h \in Handlers : Uploading(h) =>
    /\ req[h].job \in Jobs /\ status[req[h].job] # "absent"
    /\ \A k \in asset : k[1] # req[h].job
    /\ work.at \in {"add", "done"} => work.job # req[h].job
    /\ \A i \in Handlers : Uploading(i) /\ req[i].job = req[h].job => i = h

(* What was stored is there until its row is, unless the job is deleted.   *)
StoredFirst ==
  /\ \A h \in Handlers : req[h].at \in {"verify", "asset"} =>
       OriginalOf(h) \in files \/ status[req[h].job] = "gone"
  /\ work.at = "add" => <<work.job, "preview">> \in files \/ status[work.job] = "gone"

(* Files are deleted for a job that is gone.                               *)
DeletesGone ==
  \A h \in Handlers :
    /\ req[h].at = "deleteRow" =>
         req[h].job \in Jobs /\ status[req[h].job] # "absent"
           /\ req[h].keys \subseteq Media!KeysOf(req[h].job)
    /\ req[h].at = "deleteFiles" =>
         /\ req[h] = [at |-> "deleteFiles", keys |-> req[h].keys]
         /\ req[h].keys \subseteq Media!Keys
         /\ \A k \in req[h].keys : status[k[1]] = "gone"

(* A download is of a job whose upload is over.                            *)
OpensStored ==
  \A h \in Handlers : req[h].at = "open" =>
    /\ req[h].key \in Media!Keys /\ status[req[h].key[1]] # "absent"
    /\ \A i \in Handlers : Uploading(i) => req[i].job # req[h].key[1]

MInv ==
  /\ MediaTypes
  /\ UploadsAlone
  /\ StoredFirst
  /\ DeletesGone
  /\ OpensStored
  /\ FilesMatchRows

LEMMA KeyShapes ==
  /\ \A k \in Media!Keys : k[1] \in Jobs /\ k = <<k[1], k[2]>>
  /\ \A j \in Jobs : /\ <<j, "original">> \in Media!Keys /\ <<j, "preview">> \in Media!Keys
                     /\ Media!KeysOf(j) = {<<j, "original">>, <<j, "preview">>}
  /\ \A j : <<j, "original">>[1] = j /\ <<j, "preview">>[1] = j /\ <<j, "preview">>[2] = "preview"
  /\ \A i, j : <<i, "original">> # <<j, "preview">>
  BY DEF Media!Keys, Media!Kinds, Media!KeysOf

LEMMA KeysOfJob ==
  ASSUME NEW j \in Jobs, NEW k \in Media!Keys
  PROVE  k \in Media!KeysOf(j) <=> k[1] = j
  BY DEF Media!Keys, Media!Kinds, Media!KeysOf

LEMMA KeysAreOf ==
  ASSUME NEW j \in Jobs, NEW ks \in SUBSET Media!KeysOf(j)
  PROVE  ks \subseteq Media!Keys /\ \A k \in ks : k[1] = j
  BY DEF Media!Keys, Media!Kinds, Media!KeysOf

LEMMA BecameMedia ==
  ASSUME MediaTypes, NEW h \in Handlers, NEW r, Media!Become(h, r)
  PROVE  /\ DOMAIN req' = Handlers /\ req'[h] = r
         /\ \A i \in Handlers : i # h => req'[i] = req[i]
  BY DEF MediaTypes, Media!Become

(* What may be the next state of a request when nothing else changes.      *)
Goes(h, r) ==
  /\ r.at \in {"put", "verify", "asset", "dropFile", "dropRow"} => Uploading(h) /\ r.job = req[h].job
  /\ r.at \in {"verify", "asset"} => req[h].at \in {"verify", "asset"}
  /\ req[h].at \in {"verify", "asset", "dropFile"} => r.at \in {"verify", "asset", "dropFile"}
  /\ r.at = "deleteRow" => r.job \in Jobs /\ status[r.job] # "absent" /\ r.keys \subseteq Media!KeysOf(r.job)
  /\ r.at # "deleteFiles" /\ (req[h].at = "deleteFiles" => req[h].keys = {})
  /\ r.at = "open" => r.key \in asset

LEMMA MediaMoves ==
  ASSUME MInv, NEW h \in Handlers, NEW r, Goes(h, r), Media!Become(h, r),
         UNCHANGED <<status, asset, files, work, leaked>>
  PROVE  MInv'
<1> USE DEF MInv
<1>1. /\ DOMAIN req' = Handlers /\ req'[h] = r
      /\ \A i \in Handlers : i # h => req'[i] = req[i]
  BY BecameMedia
<1>2. MediaTypes'
  BY <1>1 DEF MediaTypes, Media!RowExists
<1>3. UploadsAlone'
  BY <1>1 DEF UploadsAlone, Uploading, Goes
<1>4. StoredFirst'
  BY <1>1 DEF StoredFirst, OriginalOf, Goes, Uploading
<1>5. DeletesGone'
  <2>1. ASSUME NEW g \in Handlers
        PROVE  /\ req'[g].at = "deleteRow" =>
                    /\ req'[g].job \in Jobs /\ status[req'[g].job] # "absent"
                    /\ req'[g].keys \subseteq Media!KeysOf(req'[g].job)
               /\ req'[g].at = "deleteFiles" =>
                    /\ req'[g] = [at |-> "deleteFiles", keys |-> req'[g].keys]
                    /\ req'[g].keys \subseteq Media!Keys
                    /\ \A k \in req'[g].keys : status[k[1]] = "gone"
    <3>1. CASE g = h
      BY <1>1, <3>1 DEF Goes
    <3>2. CASE g # h
      <4>1. req'[g] = req[g]
        BY <1>1, <3>2
      <4>2. QED
        BY <4>1 DEF DeletesGone
    <3>3. QED
      BY <3>1, <3>2
  <2>2. QED
    BY <2>1 DEF DeletesGone
<1>6. OpensStored'
  <2>1. ASSUME NEW i \in Handlers, Uploading(i)'
        PROVE  Uploading(i) /\ req'[i].job = req[i].job
    BY <1>1, <2>1 DEF Uploading, Goes
  <2>2. ASSUME NEW g \in Handlers, req'[g].at = "open"
        PROVE  /\ req'[g].key \in Media!Keys /\ status[req'[g].key[1]] # "absent"
               /\ \A i \in Handlers : Uploading(i) => req[i].job # req'[g].key[1]
    <3>1. CASE g = h
      <4>1. req'[g].key \in asset
        BY <1>1, <2>2, <3>1 DEF Goes
      <4>2. req'[g].key \in Media!Keys /\ status[req'[g].key[1]] # "absent"
        BY <4>1 DEF MediaTypes, Media!RowExists
      <4>3. QED
        BY <4>1, <4>2 DEF UploadsAlone
    <3>2. CASE g # h
      BY <1>1, <2>2, <3>2 DEF OpensStored
    <3>3. QED
      BY <3>1, <3>2
  <2>3. QED
    BY <2>1, <2>2 DEF OpensStored
<1>7. Media!NoDangling'
  BY DEF FilesMatchRows, Media!NoDangling
<1>8. Media!NoOrphans'
  <2> SUFFICES ASSUME NEW k \in files \ asset, k \notin leaked, ~(Media!Holds(k[1], "add") /\ k[2] = "preview")
               PROVE  \E i \in Handlers :
                        \/ req'[i].at \in {"verify", "asset", "dropFile"} /\ k = <<req'[i].job, "original">>
                        \/ req'[i].at = "deleteFiles" /\ k \in req'[i].keys
    BY DEF Media!NoOrphans, Media!Holds
  <2>1. PICK i \in Handlers :
           \/ req[i].at \in {"verify", "asset", "dropFile"} /\ k = <<req[i].job, "original">>
           \/ req[i].at = "deleteFiles" /\ k \in req[i].keys
    BY DEF FilesMatchRows, Media!NoOrphans
  <2>2. QED
    BY <1>1, <2>1 DEF Goes
<1>9. Media!FoundIsServed'
  BY <1>1, <1>7 DEF Media!FoundIsServed, FilesMatchRows, Goes, Media!NoDangling
<1>10. QED
  BY <1>2, <1>3, <1>4, <1>5, <1>6, <1>7, <1>8, <1>9 DEF FilesMatchRows

LEMMA MediaQuiet ==
  ASSUME MInv, NEW h \in Handlers,
         \/ Media!CreateBegin(h) \/ Media!InsertFails(h) \/ Media!Verify(h) \/ Media!AssetFails(h)
         \/ Media!DeleteRefused(h) \/ Media!DeleteDone(h) \/ Media!Serve(h)
         \/ \E j \in Jobs : Media!DeleteBegin(h, j)
         \/ \E k \in Media!Keys : Media!Resolve(h, k)
  PROVE  MInv'
<1> USE DEF Goes, Uploading, Media!Idle, Media!table, Media!history
<1> USE MediaMoves
<1>1. CASE Media!CreateBegin(h)
  BY <1>1 DEF Media!CreateBegin
<1>2. CASE Media!InsertFails(h)
  BY <1>2 DEF Media!InsertFails
<1>3. CASE Media!Verify(h)
  BY <1>3 DEF Media!Verify
<1>4. CASE Media!AssetFails(h)
  BY <1>4 DEF Media!AssetFails
<1>5. CASE Media!DeleteRefused(h)
  BY <1>5 DEF Media!DeleteRefused
<1>6. CASE Media!DeleteDone(h)
  BY <1>6 DEF Media!DeleteDone
<1>7. CASE Media!Serve(h)
  BY <1>7 DEF Media!Serve
<1>8. ASSUME NEW j \in Jobs, Media!DeleteBegin(h, j)
      PROVE  MInv'
  BY <1>8 DEF Media!DeleteBegin, Media!RowExists, Media!Listed
<1>9. ASSUME NEW k \in Media!Keys, Media!Resolve(h, k)
      PROVE  MInv'
  BY <1>9 DEF Media!Resolve
<1>10. QED
  BY <1>1, <1>2, <1>3, <1>4, <1>5, <1>6, <1>7, <1>8, <1>9

LEMMA MediaInsertJob ==
  ASSUME MInv, NEW h \in Handlers, NEW j \in Jobs, Media!InsertJob(h, j)
  PROVE  MInv'
<1> USE KeyShapes DEF MInv, FilesMatchRows, MediaTypes, UploadsAlone, StoredFirst, DeletesGone, OpensStored, Uploading, OriginalOf, Statuses, Works, Media!RowExists, Media!NoDangling, Media!NoOrphans, Media!FoundIsServed, Media!Holds, Media!Idle, Media!NoWork, Media!table, Media!history
<1>0. DOMAIN req' = Handlers /\ \A i \in Handlers : i # h => req'[i] = req[i]
  BY BecameMedia DEF Media!InsertJob
<1>1. MediaTypes'
  BY <1>0, BecameMedia, KeysOfJob DEF Media!InsertJob
<1>2. UploadsAlone'
  BY <1>0, BecameMedia, KeysOfJob DEF Media!InsertJob
<1>3. StoredFirst'
  BY <1>0, BecameMedia, KeysOfJob DEF Media!InsertJob
<1>4. DeletesGone'
  BY <1>0, BecameMedia, KeysOfJob DEF Media!InsertJob
<1>5. OpensStored'
  BY <1>0, BecameMedia, KeysOfJob DEF Media!InsertJob
<1>6. Media!NoDangling'
  BY <1>0, BecameMedia, KeysOfJob DEF Media!InsertJob
<1>7. Media!NoOrphans'
  BY <1>0, BecameMedia, KeysOfJob DEF Media!InsertJob
<1>8. Media!FoundIsServed'
  BY <1>0, BecameMedia, KeysOfJob DEF Media!InsertJob
<1>9. QED
  BY <1>1, <1>2, <1>3, <1>4, <1>5, <1>6, <1>7, <1>8

LEMMA MediaPutOriginal ==
  ASSUME MInv, NEW h \in Handlers, Media!PutOriginal(h)
  PROVE  MInv'
<1> USE KeyShapes DEF MInv, FilesMatchRows, MediaTypes, UploadsAlone, StoredFirst, DeletesGone, OpensStored, Uploading, OriginalOf, Statuses, Works, Media!RowExists, Media!NoDangling, Media!NoOrphans, Media!FoundIsServed, Media!Holds, Media!Idle, Media!NoWork, Media!table, Media!history
<1> OriginalOf(h) \in Media!Keys
  BY DEF Media!PutOriginal
<1>0. DOMAIN req' = Handlers /\ \A i \in Handlers : i # h => req'[i] = req[i]
  BY BecameMedia DEF Media!PutOriginal
<1>1. MediaTypes'
  BY <1>0, BecameMedia, KeysOfJob DEF Media!PutOriginal
<1>2. UploadsAlone'
  BY <1>0, BecameMedia, KeysOfJob DEF Media!PutOriginal
<1>3. StoredFirst'
  BY <1>0, BecameMedia, KeysOfJob DEF Media!PutOriginal
<1>4. DeletesGone'
  BY <1>0, BecameMedia, KeysOfJob DEF Media!PutOriginal
<1>5. OpensStored'
  BY <1>0, BecameMedia, KeysOfJob DEF Media!PutOriginal
<1>6. Media!NoDangling'
  BY <1>0, BecameMedia, KeysOfJob DEF Media!PutOriginal
<1>7. Media!NoOrphans'
  BY <1>0, BecameMedia, KeysOfJob DEF Media!PutOriginal
<1>8. Media!FoundIsServed'
  BY <1>0, BecameMedia, KeysOfJob DEF Media!PutOriginal
<1>9. QED
  BY <1>1, <1>2, <1>3, <1>4, <1>5, <1>6, <1>7, <1>8

LEMMA MediaPutFails ==
  ASSUME MInv, NEW h \in Handlers, Media!PutFails(h)
  PROVE  MInv'
<1> USE KeyShapes DEF MInv, FilesMatchRows, MediaTypes, UploadsAlone, StoredFirst, DeletesGone, OpensStored, Uploading, OriginalOf, Statuses, Works, Media!RowExists, Media!NoDangling, Media!NoOrphans, Media!FoundIsServed, Media!Holds, Media!Idle, Media!NoWork, Media!table, Media!history
<1> OriginalOf(h) \in Media!Keys
  BY DEF Media!PutFails
<1>0. DOMAIN req' = Handlers /\ \A i \in Handlers : i # h => req'[i] = req[i]
  BY BecameMedia DEF Media!PutFails
<1>1. MediaTypes'
  BY <1>0, BecameMedia, KeysOfJob DEF Media!PutFails
<1>2. UploadsAlone'
  BY <1>0, BecameMedia, KeysOfJob DEF Media!PutFails
<1>3. StoredFirst'
  BY <1>0, BecameMedia, KeysOfJob DEF Media!PutFails
<1>4. DeletesGone'
  BY <1>0, BecameMedia, KeysOfJob DEF Media!PutFails
<1>5. OpensStored'
  BY <1>0, BecameMedia, KeysOfJob DEF Media!PutFails
<1>6. Media!NoDangling'
  BY <1>0, BecameMedia, KeysOfJob DEF Media!PutFails
<1>7. Media!NoOrphans'
  BY <1>0, BecameMedia, KeysOfJob DEF Media!PutFails
<1>8. Media!FoundIsServed'
  BY <1>0, BecameMedia, KeysOfJob DEF Media!PutFails
<1>9. QED
  BY <1>1, <1>2, <1>3, <1>4, <1>5, <1>6, <1>7, <1>8

LEMMA MediaInsertAsset ==
  ASSUME MInv, NEW h \in Handlers, Media!InsertAsset(h)
  PROVE  MInv'
<1> USE KeyShapes DEF MInv, FilesMatchRows, MediaTypes, UploadsAlone, StoredFirst, DeletesGone, OpensStored, Uploading, OriginalOf, Statuses, Works, Media!RowExists, Media!NoDangling, Media!NoOrphans, Media!FoundIsServed, Media!Holds, Media!Idle, Media!NoWork, Media!table, Media!history
<1>0. DOMAIN req' = Handlers /\ \A i \in Handlers : i # h => req'[i] = req[i]
  BY BecameMedia DEF Media!InsertAsset
<1>1. MediaTypes'
  BY <1>0, BecameMedia, KeysOfJob DEF Media!InsertAsset
<1>2. UploadsAlone'
  BY <1>0, BecameMedia, KeysOfJob DEF Media!InsertAsset
<1>3. StoredFirst'
  BY <1>0, BecameMedia, KeysOfJob DEF Media!InsertAsset
<1>4. DeletesGone'
  BY <1>0, BecameMedia, KeysOfJob DEF Media!InsertAsset
<1>5. OpensStored'
  BY <1>0, BecameMedia, KeysOfJob DEF Media!InsertAsset
<1>6. Media!NoDangling'
  BY <1>0, BecameMedia, KeysOfJob DEF Media!InsertAsset
<1>7. Media!NoOrphans'
  BY <1>0, BecameMedia, KeysOfJob DEF Media!InsertAsset
<1>8. Media!FoundIsServed'
  BY <1>0, BecameMedia, KeysOfJob DEF Media!InsertAsset
<1>9. QED
  BY <1>1, <1>2, <1>3, <1>4, <1>5, <1>6, <1>7, <1>8

LEMMA MediaDropFile ==
  ASSUME MInv, NEW h \in Handlers, Media!DropFile(h)
  PROVE  MInv'
<1> USE KeyShapes DEF MInv, FilesMatchRows, MediaTypes, UploadsAlone, StoredFirst, DeletesGone, OpensStored, Uploading, OriginalOf, Statuses, Works, Media!RowExists, Media!NoDangling, Media!NoOrphans, Media!FoundIsServed, Media!Holds, Media!Idle, Media!NoWork, Media!table, Media!history
<1>0. DOMAIN req' = Handlers /\ \A i \in Handlers : i # h => req'[i] = req[i]
  BY BecameMedia DEF Media!DropFile
<1>1. MediaTypes'
  BY <1>0, BecameMedia, KeysOfJob DEF Media!DropFile
<1>2. UploadsAlone'
  BY <1>0, BecameMedia, KeysOfJob DEF Media!DropFile
<1>3. StoredFirst'
  BY <1>0, BecameMedia, KeysOfJob DEF Media!DropFile
<1>4. DeletesGone'
  BY <1>0, BecameMedia, KeysOfJob DEF Media!DropFile
<1>5. OpensStored'
  BY <1>0, BecameMedia, KeysOfJob DEF Media!DropFile
<1>6. Media!NoDangling'
  BY <1>0, BecameMedia, KeysOfJob DEF Media!DropFile
<1>7. Media!NoOrphans'
  BY <1>0, BecameMedia, KeysOfJob DEF Media!DropFile
<1>8. Media!FoundIsServed'
  BY <1>0, BecameMedia, KeysOfJob DEF Media!DropFile
<1>9. QED
  BY <1>1, <1>2, <1>3, <1>4, <1>5, <1>6, <1>7, <1>8

LEMMA MediaDropRow ==
  ASSUME MInv, NEW h \in Handlers, Media!DropRow(h)
  PROVE  MInv'
<1> USE KeyShapes DEF MInv, FilesMatchRows, MediaTypes, UploadsAlone, StoredFirst, DeletesGone, OpensStored, Uploading, OriginalOf, Statuses, Works, Media!RowExists, Media!NoDangling, Media!NoOrphans, Media!FoundIsServed, Media!Holds, Media!Idle, Media!NoWork, Media!table, Media!history
<1>0. DOMAIN req' = Handlers /\ \A i \in Handlers : i # h => req'[i] = req[i]
  BY BecameMedia DEF Media!DropRow, Media!RemoveRow
<1>1. MediaTypes'
  BY <1>0, BecameMedia, KeysOfJob DEF Media!DropRow, Media!RemoveRow
<1>2. UploadsAlone'
  BY <1>0, BecameMedia, KeysOfJob DEF Media!DropRow, Media!RemoveRow
<1>3. StoredFirst'
  BY <1>0, BecameMedia, KeysOfJob DEF Media!DropRow, Media!RemoveRow
<1>4. DeletesGone'
  BY <1>0, BecameMedia, KeysOfJob DEF Media!DropRow, Media!RemoveRow
<1>5. OpensStored'
  BY <1>0, BecameMedia, KeysOfJob DEF Media!DropRow, Media!RemoveRow
<1>6. Media!NoDangling'
  BY <1>0, BecameMedia, KeysOfJob DEF Media!DropRow, Media!RemoveRow
<1>7. Media!NoOrphans'
  BY <1>0, BecameMedia, KeysOfJob DEF Media!DropRow, Media!RemoveRow
<1>8. Media!FoundIsServed'
  BY <1>0, BecameMedia, KeysOfJob DEF Media!DropRow, Media!RemoveRow
<1>9. QED
  BY <1>1, <1>2, <1>3, <1>4, <1>5, <1>6, <1>7, <1>8

LEMMA MediaDeleteRow ==
  ASSUME MInv, NEW h \in Handlers, Media!DeleteRow(h)
  PROVE  MInv'
<1> USE KeyShapes DEF MInv, FilesMatchRows, MediaTypes, UploadsAlone, StoredFirst, DeletesGone, OpensStored, Uploading, OriginalOf, Statuses, Works, Media!RowExists, Media!NoDangling, Media!NoOrphans, Media!FoundIsServed, Media!Holds, Media!Idle, Media!NoWork, Media!table, Media!history
<1>0. DOMAIN req' = Handlers /\ \A i \in Handlers : i # h => req'[i] = req[i]
  BY BecameMedia DEF Media!DeleteRow, Media!RemoveRow, Media!NotProcessing, Media!Listed
<1>1. MediaTypes'
  BY <1>0, BecameMedia, KeysOfJob DEF Media!DeleteRow, Media!RemoveRow, Media!NotProcessing, Media!Listed
<1>2. UploadsAlone'
  BY <1>0, BecameMedia, KeysOfJob DEF Media!DeleteRow, Media!RemoveRow, Media!NotProcessing, Media!Listed
<1>3. StoredFirst'
  BY <1>0, BecameMedia, KeysOfJob DEF Media!DeleteRow, Media!RemoveRow, Media!NotProcessing, Media!Listed
<1>4. DeletesGone'
  <2>1. /\ req'[h] = [at |-> "deleteFiles", keys |-> req[h].keys]
        /\ status' = [status EXCEPT ![req[h].job] = "gone"] /\ req[h].job \in Jobs
        /\ req[h].keys \subseteq Media!KeysOf(req[h].job)
    BY BecameMedia DEF Media!DeleteRow, Media!RemoveRow, Media!NotProcessing
  <2>2. req[h].keys \subseteq Media!Keys /\ \A k \in req[h].keys : status'[k[1]] = "gone"
    BY <2>1, KeysAreOf
  <2>3. \A j \in Jobs : status'[j] = status[j] \/ status'[j] = "gone"
    BY <2>1
  <2>4. QED
    BY <1>0, <2>1, <2>2, <2>3
<1>5. OpensStored'
  BY <1>0, BecameMedia, KeysOfJob DEF Media!DeleteRow, Media!RemoveRow, Media!NotProcessing, Media!Listed
<1>6. Media!NoDangling'
  BY <1>0, BecameMedia, KeysOfJob DEF Media!DeleteRow, Media!RemoveRow, Media!NotProcessing, Media!Listed
<1>7. Media!NoOrphans'
  BY <1>0, BecameMedia, KeysOfJob DEF Media!DeleteRow, Media!RemoveRow, Media!NotProcessing, Media!Listed
<1>8. Media!FoundIsServed'
  BY <1>0, BecameMedia, KeysOfJob DEF Media!DeleteRow, Media!RemoveRow, Media!NotProcessing, Media!Listed
<1>9. QED
  BY <1>1, <1>2, <1>3, <1>4, <1>5, <1>6, <1>7, <1>8

LEMMA MediaDeleteFile ==
  ASSUME MInv, NEW h \in Handlers, Media!DeleteFile(h)
  PROVE  MInv'
<1> USE KeyShapes DEF MInv, FilesMatchRows, MediaTypes, UploadsAlone, StoredFirst, DeletesGone, OpensStored, Uploading, OriginalOf, Statuses, Works, Media!RowExists, Media!NoDangling, Media!NoOrphans, Media!FoundIsServed, Media!Holds, Media!Idle, Media!NoWork, Media!table, Media!history
<1>0. DOMAIN req' = Handlers /\ \A i \in Handlers : i # h => req'[i] = req[i]
  BY BecameMedia DEF Media!DeleteFile
<1>1. MediaTypes'
  BY <1>0, BecameMedia, KeysOfJob DEF Media!DeleteFile
<1>2. UploadsAlone'
  BY <1>0, BecameMedia, KeysOfJob DEF Media!DeleteFile
<1>3. StoredFirst'
  BY <1>0, BecameMedia, KeysOfJob DEF Media!DeleteFile
<1>4. DeletesGone'
  BY <1>0, BecameMedia, KeysOfJob DEF Media!DeleteFile
<1>5. OpensStored'
  BY <1>0, BecameMedia, KeysOfJob DEF Media!DeleteFile
<1>6. Media!NoDangling'
  BY <1>0, BecameMedia, KeysOfJob DEF Media!DeleteFile
<1>7. Media!NoOrphans'
  BY <1>0, BecameMedia, KeysOfJob DEF Media!DeleteFile
<1>8. Media!FoundIsServed'
  BY <1>0, BecameMedia, KeysOfJob DEF Media!DeleteFile
<1>9. QED
  BY <1>1, <1>2, <1>3, <1>4, <1>5, <1>6, <1>7, <1>8

LEMMA WorkAccounts ==
  ASSUME Media!NoOrphans, UNCHANGED req, leaked \subseteq leaked',
         \A k \in files' \ asset' :
           \/ k \in files \ asset /\ ~(Media!Holds(k[1], "add") /\ k[2] = "preview")
           \/ k \in leaked'
           \/ work' = [at |-> "add", job |-> k[1]] /\ k[2] = "preview"
  PROVE  Media!NoOrphans'
  BY DEF Media!NoOrphans, Media!Holds

LEMMA MediaClaim ==
  ASSUME MInv, NEW j \in Jobs, Media!Claim(j)
  PROVE  MInv'
<1> USE KeyShapes DEF MInv, FilesMatchRows, MediaTypes, UploadsAlone, StoredFirst, DeletesGone, OpensStored, Uploading, OriginalOf, Statuses, Works, Media!RowExists, Media!NoDangling, Media!NoOrphans, Media!FoundIsServed, Media!Holds, Media!Idle, Media!NoWork, Media!table, Media!history
<1>1. MediaTypes'
  BY DEF Media!Claim
<1>2. UploadsAlone'
  BY DEF Media!Claim
<1>3. StoredFirst'
  BY DEF Media!Claim
<1>4. DeletesGone'
  BY DEF Media!Claim
<1>5. OpensStored'
  BY DEF Media!Claim
<1>6. Media!NoDangling'
  BY DEF Media!Claim
<1>7. Media!NoOrphans'
  BY WorkAccounts DEF Media!Claim
<1>8. Media!FoundIsServed'
  BY DEF Media!Claim
<1>9. QED
  BY <1>1, <1>2, <1>3, <1>4, <1>5, <1>6, <1>7, <1>8

LEMMA MediaEncode ==
  ASSUME MInv, NEW j \in Jobs, Media!Encode(j)
  PROVE  MInv'
<1> USE KeyShapes DEF MInv, FilesMatchRows, MediaTypes, UploadsAlone, StoredFirst, DeletesGone, OpensStored, Uploading, OriginalOf, Statuses, Works, Media!RowExists, Media!NoDangling, Media!NoOrphans, Media!FoundIsServed, Media!Holds, Media!Idle, Media!NoWork, Media!table, Media!history
<1>1. MediaTypes'
  BY DEF Media!Encode
<1>2. UploadsAlone'
  BY DEF Media!Encode
<1>3. StoredFirst'
  BY DEF Media!Encode
<1>4. DeletesGone'
  BY DEF Media!Encode
<1>5. OpensStored'
  BY DEF Media!Encode
<1>6. Media!NoDangling'
  BY DEF Media!Encode
<1>7. Media!NoOrphans'
  <2>1. work = [at |-> "encode", job |-> j] /\ work' = [at |-> "add", job |-> j]
        /\ files' = files \cup {<<j, "preview">>} /\ UNCHANGED <<asset, req, leaked>>
    BY DEF Media!Encode
  <2>2. \A k \in files' \ asset' :
          k \in files \ asset \/ (k = <<j, "preview">> /\ k[1] = j /\ k[2] = "preview")
    BY <2>1
  <2>3. \A k : ~Media!Holds(k[1], "add")
    BY <2>1
  <2>4. QED
    BY <2>1, <2>2, <2>3, WorkAccounts
<1>8. Media!FoundIsServed'
  BY DEF Media!Encode
<1>9. QED
  BY <1>1, <1>2, <1>3, <1>4, <1>5, <1>6, <1>7, <1>8

LEMMA MediaAddPreview ==
  ASSUME MInv, NEW j \in Jobs, Media!AddPreview(j)
  PROVE  MInv'
<1> USE KeyShapes DEF MInv, FilesMatchRows, MediaTypes, UploadsAlone, StoredFirst, DeletesGone, OpensStored, Uploading, OriginalOf, Statuses, Works, Media!RowExists, Media!NoDangling, Media!NoOrphans, Media!FoundIsServed, Media!Holds, Media!Idle, Media!NoWork, Media!table, Media!history
<1>1. MediaTypes'
  BY DEF Media!AddPreview
<1>2. UploadsAlone'
  BY DEF Media!AddPreview
<1>3. StoredFirst'
  BY DEF Media!AddPreview
<1>4. DeletesGone'
  BY DEF Media!AddPreview
<1>5. OpensStored'
  BY DEF Media!AddPreview
<1>6. Media!NoDangling'
  BY DEF Media!AddPreview
<1>7. Media!NoOrphans'
  <2>1. work = [at |-> "add", job |-> j]
        /\ asset' = asset \cup {<<j, "preview">>} /\ UNCHANGED <<files, req, leaked>>
    BY DEF Media!AddPreview
  <2>2. \A k \in files' \ asset' : k \in files \ asset /\ k # <<j, "preview">> /\ k = <<k[1], k[2]>>
    BY <2>1
  <2>3. \A k : Media!Holds(k[1], "add") => k[1] = j
    BY <2>1
  <2>4. QED
    BY <2>1, <2>2, <2>3, WorkAccounts
<1>8. Media!FoundIsServed'
  BY DEF Media!AddPreview
<1>9. QED
  BY <1>1, <1>2, <1>3, <1>4, <1>5, <1>6, <1>7, <1>8

LEMMA MediaMarkDone ==
  ASSUME MInv, NEW j \in Jobs, Media!MarkDone(j)
  PROVE  MInv'
<1> USE KeyShapes DEF MInv, FilesMatchRows, MediaTypes, UploadsAlone, StoredFirst, DeletesGone, OpensStored, Uploading, OriginalOf, Statuses, Works, Media!RowExists, Media!NoDangling, Media!NoOrphans, Media!FoundIsServed, Media!Holds, Media!Idle, Media!NoWork, Media!table, Media!history
<1>1. MediaTypes'
  BY DEF Media!MarkDone
<1>2. UploadsAlone'
  BY DEF Media!MarkDone
<1>3. StoredFirst'
  BY DEF Media!MarkDone
<1>4. DeletesGone'
  BY DEF Media!MarkDone
<1>5. OpensStored'
  BY DEF Media!MarkDone
<1>6. Media!NoDangling'
  BY DEF Media!MarkDone
<1>7. Media!NoOrphans'
  BY WorkAccounts DEF Media!MarkDone
<1>8. Media!FoundIsServed'
  BY DEF Media!MarkDone
<1>9. QED
  BY <1>1, <1>2, <1>3, <1>4, <1>5, <1>6, <1>7, <1>8

LEMMA MediaMarkError ==
  ASSUME MInv, NEW j \in Jobs, Media!MarkError(j)
  PROVE  MInv'
<1> USE KeyShapes DEF MInv, FilesMatchRows, MediaTypes, UploadsAlone, StoredFirst, DeletesGone, OpensStored, Uploading, OriginalOf, Statuses, Works, Media!RowExists, Media!NoDangling, Media!NoOrphans, Media!FoundIsServed, Media!Holds, Media!Idle, Media!NoWork, Media!table, Media!history
<1>1. MediaTypes'
  BY DEF Media!MarkError, Media!Doomed
<1>2. UploadsAlone'
  BY DEF Media!MarkError, Media!Doomed
<1>3. StoredFirst'
  BY DEF Media!MarkError, Media!Doomed
<1>4. DeletesGone'
  BY DEF Media!MarkError, Media!Doomed
<1>5. OpensStored'
  BY DEF Media!MarkError, Media!Doomed
<1>6. Media!NoDangling'
  BY DEF Media!MarkError, Media!Doomed
<1>7. Media!NoOrphans'
  <2>1. /\ leaked' = leaked \cup ({<<j, "preview">>} \cap (files \ asset))
        /\ work.job = j /\ UNCHANGED <<files, asset, req>>
    BY DEF Media!MarkError
  <2>2. \A k \in files \ asset : k = <<k[1], k[2]>>
    OBVIOUS
  <2>3. \A k : Media!Holds(k[1], "add") => k[1] = j
    BY <2>1
  <2>4. QED
    BY <2>1, <2>2, <2>3, WorkAccounts
<1>8. Media!FoundIsServed'
  BY DEF Media!MarkError, Media!Doomed
<1>9. QED
  BY <1>1, <1>2, <1>3, <1>4, <1>5, <1>6, <1>7, <1>8


LEMMA MediaCrash ==
  ASSUME MInv, Media!Crash
  PROVE  MInv'
<1> USE DEF MInv, FilesMatchRows, MediaTypes, UploadsAlone, StoredFirst, DeletesGone, OpensStored,
            Uploading, OriginalOf, Statuses, Works, Media!RowExists, Media!NoDangling,
            Media!NoOrphans, Media!FoundIsServed, Media!Holds, Media!Idle, Media!NoWork
<1>1. /\ req' = [h \in Handlers |-> Media!Idle] /\ work' = Media!NoWork
      /\ leaked' = leaked \cup (files \ asset) /\ UNCHANGED <<asset, files>>
  BY DEF Media!Crash
<1>2. /\ status' \in [Jobs -> Statuses]
      /\ \A j \in Jobs : /\ (status'[j] = "absent") <=> (status[j] = "absent")
                         /\ (status'[j] = "gone") <=> (status[j] = "gone")
  BY DEF Media!Crash
<1>3. MediaTypes' /\ UploadsAlone' /\ StoredFirst' /\ DeletesGone' /\ OpensStored'
  BY <1>1, <1>2, KeyShapes
<1>4. FilesMatchRows'
  BY <1>1, <1>2
<1>5. QED
  BY <1>3, <1>4

LEMMA MediaStays ==
  ASSUME MInv, UNCHANGED <<status, asset, files, req, work, leaked>>
  PROVE  MInv'
<1>1. MediaTypes' /\ UploadsAlone' /\ StoredFirst' /\ DeletesGone' /\ OpensStored'
  BY DEF MInv, MediaTypes, UploadsAlone, StoredFirst, DeletesGone, OpensStored, Uploading,
     OriginalOf, Media!RowExists
<1>2. FilesMatchRows'
  BY DEF MInv, FilesMatchRows, Media!NoDangling, Media!NoOrphans, Media!FoundIsServed, Media!Holds
<1>3. QED
  BY <1>1, <1>2 DEF MInv

LEMMA MediaInit ==
  ASSUME Media!Init
  PROVE  MInv
  BY DEF Media!Init, MInv, FilesMatchRows, MediaTypes, UploadsAlone, StoredFirst, DeletesGone,
     OpensStored, Uploading, OriginalOf, Statuses, Works, Media!Keys, Media!Kinds,
     Media!NoDangling, Media!NoOrphans, Media!FoundIsServed, Media!Idle, Media!NoWork

LEMMA MediaNext ==
  ASSUME MInv, [JobNext]_allVars
  PROVE  MInv'
<1>1. Media!Next \/ UNCHANGED mediaVars
  BY DEF JobNext, allVars
<1>2. CASE UNCHANGED mediaVars
  BY <1>2, MediaStays DEF mediaVars
<1>3. ASSUME NEW h \in Handlers, Media!Request(h) \/ Media!Step(h)
      PROVE  MInv'
  BY <1>3, MediaQuiet, MediaInsertJob, MediaPutOriginal, MediaPutFails, MediaInsertAsset,
     MediaDropFile, MediaDropRow, MediaDeleteRow, MediaDeleteFile DEF Media!Request, Media!Step
<1>4. ASSUME NEW j \in Jobs,
             \/ Media!Claim(j) \/ Media!Encode(j) \/ Media!AddPreview(j) \/ Media!MarkDone(j)
             \/ Media!MarkError(j) \/ Media!Age(j)
      PROVE  MInv'
  <2>1. CASE Media!Age(j)
    BY <2>1, MediaStays DEF Media!Age, Media!history
  <2>2. QED
    BY <1>4, <2>1, MediaClaim, MediaEncode, MediaAddPreview, MediaMarkDone, MediaMarkError
<1>5. QED
  BY <1>1, <1>2, <1>3, <1>4, MediaCrash DEF Media!Next

(* In every reachable state each request and the worker may only touch     *)
(* files and rows that are theirs, and the rows name files that exist.     *)
THEOREM MediaInvariance == JobSpec => []MInv
<1>1. JobInit => MInv
  BY MediaInit DEF JobInit
<1>2. MInv /\ [JobNext]_allVars => MInv'
  BY MediaNext
<1>3. QED
  BY <1>1, <1>2, PTL DEF JobSpec

(* FilesMatchRows: however uploads, their rollbacks, deletions, downloads, *)
(* the worker, failures and crashes interleave, a row never names a        *)
(* missing file, a file without a row is accounted for, and what a         *)
(* download found is there unless the job was deleted (job/service.go,     *)
(* share/handler.go, worker/process.go).                                   *)
THEOREM RowsNameFiles == JobSpec => []FilesMatchRows
<1>1. MInv => FilesMatchRows
  BY DEF MInv
<1>2. QED
  BY <1>1, MediaInvariance, PTL
-----------------------------------------------------------------------------
(* The history of the links.  Switches that come one at a time, with no    *)
(* event lost, alternate between the row and the history.                  *)

Viewers == {h \in Handlers : request[h].at = "view"}

LastWord == switches # <<>> /\ switches[Len(switches)]

DeliveryTypes ==
  /\ off \in BOOLEAN /\ views \in Nat /\ lost \in Nat
  /\ switches \in Seq(BOOLEAN)
  /\ DOMAIN request = Handlers
  /\ \A h \in Handlers :
       /\ Delivery!Switching(h) => request[h].to \in BOOLEAN
       /\ request[h].at = "record" => request[h] \in [at : {"record"}, fresh : BOOLEAN]

OneSwitch ==
  ~switched /\ lost = 0 => \A h \in Handlers : Delivery!Switching(h) =>
    /\ \A i \in Handlers : Delivery!Switching(i) => i = h
    /\ request[h].at = "set" => request[h].to # off /\ (off <=> LastWord)
    /\ request[h].at = "note" => request[h].to = off /\ (off <=> ~LastWord)

DInv ==
  /\ DeliveryTypes
  /\ OneSwitch
  /\ Delivery!HistoryTells
  /\ Delivery!Alternating
  /\ Cardinality(Viewers) + views <= Cardinality(Handlers)

LEMMA BecameRequest ==
  ASSUME DeliveryTypes, NEW h \in Handlers, NEW r, Delivery!Become(h, r)
  PROVE  /\ DOMAIN request' = Handlers /\ request'[h] = r
         /\ \A i \in Handlers : i # h => request'[i] = request[i]
  BY DEF DeliveryTypes, Delivery!Become

LEMMA ViewersCount ==
  /\ IsFiniteSet(Handlers) /\ Cardinality(Handlers) \in Nat
  /\ \A S \in SUBSET Handlers :
       IsFiniteSet(S) /\ Cardinality(S) \in Nat /\ Cardinality(S) <= Cardinality(Handlers)
  BY JobAssumption, FS_CardinalityType, FS_Subset

(* What a step does to the viewings and the requests about to note one.    *)
ViewStep ==
  \/ views' = 0
  \/ views' = views /\ Viewers' \subseteq Viewers
  \/ \E h \in Viewers : views' = views + 1 /\ Viewers' = Viewers \ {h}

LEMMA ViewsStay ==
  ASSUME DInv, ViewStep
  PROVE  (Cardinality(Viewers) + views <= Cardinality(Handlers))'
<1> DEFINE m == Cardinality(Handlers)
           n == Cardinality(Viewers)
           nn == Cardinality(Viewers')
<1>1. /\ m \in Nat /\ n \in Nat /\ nn \in Nat /\ views \in Nat
      /\ nn <= m /\ n + views <= m /\ IsFiniteSet(Viewers)
  <2>1. Viewers \in SUBSET Handlers /\ Viewers' \in SUBSET Handlers
    BY DEF Viewers
  <2>2. QED
    BY <2>1, ViewersCount DEF DInv, DeliveryTypes
<1>2. CASE views' = 0
  <2> HIDE DEF m, n, nn
  <2>1. nn + views' <= m
    BY <1>1, <1>2
  <2>2. QED
    BY <2>1 DEF m, nn
<1>3. CASE views' = views /\ Viewers' \subseteq Viewers
  <2>1. nn <= n
    BY <1>1, <1>3, FS_Subset
  <2> HIDE DEF m, n, nn
  <2>2. nn + views' <= m
    BY <1>1, <1>3, <2>1
  <2>3. QED
    BY <2>2 DEF m, nn
<1>4. CASE \E h \in Viewers : views' = views + 1 /\ Viewers' = Viewers \ {h}
  <2>1. PICK h \in Viewers : views' = views + 1 /\ Viewers' = Viewers \ {h}
    BY <1>4
  <2>2. nn = n - 1
    BY <1>1, <2>1, FS_RemoveElement
  <2> HIDE DEF m, n, nn
  <2>3. nn + views' <= m
    BY <1>1, <2>1, <2>2
  <2>4. QED
    BY <2>3 DEF m, nn
<1>5. QED
  BY <1>2, <1>3, <1>4 DEF ViewStep

(* Every other step leaves the row, its history and the switches alone.    *)
Apart ==
  /\ UNCHANGED <<off, switches, switched>>
  /\ lost' \in {lost, lost + 1}
  /\ DOMAIN request' = Handlers
  /\ \A h \in Handlers :
       /\ Delivery!Switching(h)' => request'[h] = request[h]
       /\ Delivery!Switching(h) => request'[h] = request[h]
       /\ request'[h].at = "record" => request'[h] \in [at : {"record"}, fresh : BOOLEAN]

LEMMA ApartStays ==
  ASSUME DInv, Apart, views' \in Nat
  PROVE  DeliveryTypes' /\ OneSwitch' /\ Delivery!HistoryTells' /\ Delivery!Alternating'
<1> USE DEF DInv, Apart
<1>1. DeliveryTypes'
  BY DEF DeliveryTypes, Delivery!Switching
<1>2. lost \in Nat /\ (lost' = 0 => lost = 0) /\ (lost > 0 => lost' > 0)
  BY DEF DeliveryTypes
<1>3. OneSwitch'
  BY <1>2 DEF OneSwitch, Delivery!Switching, LastWord
<1>4. Delivery!HistoryTells'
  BY <1>2 DEF Delivery!HistoryTells, Delivery!Switching
<1>5. Delivery!Alternating'
  BY <1>2 DEF Delivery!Alternating
<1>6. QED
  BY <1>1, <1>3, <1>4, <1>5

LEMMA DeliveryApart ==
  ASSUME DInv, NEW h \in Handlers,
         \/ Delivery!Resend(h) \/ Delivery!MailLinks(h) \/ Delivery!RecordResend(h)
         \/ Delivery!RecordFails(h) \/ Delivery!Preview(h) \/ Delivery!CountViews(h)
         \/ Delivery!RecordView(h)
  PROVE  Apart /\ ViewStep /\ views' \in Nat
<1> USE DEF DInv, DeliveryTypes, Apart, ViewStep, Viewers, Delivery!Switching, Delivery!Idle,
            Delivery!resends, Delivery!events, Delivery!history
<1> USE BecameRequest
<1>1. CASE Delivery!Resend(h)
  BY <1>1 DEF Delivery!Resend
<1>2. CASE Delivery!MailLinks(h)
  <2>1. CASE Delivery!Become(h, [at |-> "record", fresh |-> TRUE])
    <3>1. [at |-> "record", fresh |-> TRUE] \in [at : {"record"}, fresh : BOOLEAN]
      OBVIOUS
    <3>2. PICK r \in [at : {"record"}, fresh : BOOLEAN] : Delivery!Become(h, r)
      BY <2>1, <3>1
    <3>3. QED
      BY <1>2, <3>2 DEF Delivery!MailLinks
  <2>2. CASE Delivery!Become(h, [at |-> "idle"])
    BY <1>2, <2>2 DEF Delivery!MailLinks
  <2>3. QED
    BY <1>2, <2>1, <2>2 DEF Delivery!MailLinks, Delivery!Idle
<1>3. CASE Delivery!RecordResend(h)
  BY <1>3 DEF Delivery!RecordResend
<1>4. CASE Delivery!RecordFails(h)
  BY <1>4 DEF Delivery!RecordFails, Delivery!Fault
<1>5. CASE Delivery!Preview(h)
  BY <1>5 DEF Delivery!Preview
<1>6. CASE Delivery!CountViews(h)
  BY <1>6 DEF Delivery!CountViews, Delivery!SeenLately
<1>7. CASE Delivery!RecordView(h)
  BY <1>7 DEF Delivery!RecordView
<1>8. QED
  BY <1>1, <1>2, <1>3, <1>4, <1>5, <1>6, <1>7

LEMMA DeliveryAges ==
  ASSUME DInv, \/ Delivery!AgeMail \/ Delivery!AgeResent \/ Delivery!AgeView
               \/ UNCHANGED deliveryVars
  PROVE  Apart /\ ViewStep /\ views' \in Nat
<1> USE DEF DInv, DeliveryTypes, Apart, ViewStep, Viewers, Delivery!Switching,
            Delivery!resends, Delivery!events, Delivery!history
<1>1. CASE Delivery!AgeMail /\ UNCHANGED request
  BY <1>1 DEF Delivery!AgeMail
<1>2. CASE Delivery!AgeMail /\ \E h \in Delivery!OnTheWay : Delivery!Become(h, [request[h] EXCEPT !.fresh = FALSE])
  <2>1. PICK h \in Delivery!OnTheWay : Delivery!Become(h, [request[h] EXCEPT !.fresh = FALSE])
    BY <1>2
  <2>2. h \in Handlers /\ request[h] \in [at : {"record"}, fresh : BOOLEAN]
    BY DEF Delivery!OnTheWay
  <2>3. PICK r \in [at : {"record"}, fresh : BOOLEAN] : Delivery!Become(h, r)
    <3>1. [request[h] EXCEPT !.fresh = FALSE] \in [at : {"record"}, fresh : BOOLEAN]
      BY <2>2
    <3>2. QED
      BY <2>1, <3>1
  <2>4. /\ DOMAIN request' = Handlers /\ request'[h] = r
        /\ \A i \in Handlers : i # h => request'[i] = request[i]
    BY <2>2, <2>3, BecameRequest
  <2>5. UNCHANGED <<off, views, switches, switched, lost>>
    BY <1>2 DEF Delivery!AgeMail
  <2>6. QED
    BY <2>2, <2>4, <2>5
<1>3. CASE Delivery!AgeResent
  BY <1>3 DEF Delivery!AgeResent
<1>4. CASE Delivery!AgeView
  BY <1>4 DEF Delivery!AgeView
<1>5. CASE UNCHANGED deliveryVars
  BY <1>5 DEF deliveryVars
<1>6. QED
  BY <1>1, <1>2, <1>3, <1>4, <1>5 DEF Delivery!AgeMail

LEMMA SwitchBegins ==
  ASSUME DInv, NEW h \in Handlers, NEW to \in BOOLEAN, Delivery!SetLinks(h, to)
  PROVE  DInv'
<1> USE DEF DInv, DeliveryTypes, Delivery!Switching, Delivery!resends, Delivery!events, Delivery!Idle
<1>1. /\ request[h].at = "idle" /\ to # off
      /\ request'[h] = [at |-> "set", to |-> to] /\ DOMAIN request' = Handlers
      /\ \A i \in Handlers : i # h => request'[i] = request[i]
      /\ switched' = (switched \/ \E i \in Handlers : Delivery!Switching(i))
      /\ UNCHANGED <<off, switches, views, lost>>
  BY BecameRequest DEF Delivery!SetLinks, Delivery!Switched
<1>2. DeliveryTypes'
  BY <1>1
<1>3. ~switched' => ~switched /\ \A i \in Handlers : ~Delivery!Switching(i)
  BY <1>1, Zenon
<1>4. OneSwitch'
  <2>1. ~switched' /\ lost' = 0 => (off <=> LastWord)
    BY <1>1, <1>3 DEF Delivery!HistoryTells, LastWord
  <2>2. QED
    BY <1>1, <1>3, <2>1 DEF OneSwitch, LastWord
<1>5. Delivery!HistoryTells'
  BY <1>1 DEF Delivery!HistoryTells
<1>6. Delivery!Alternating'
  BY <1>1, <1>3 DEF Delivery!Alternating
<1>7. ViewStep
  BY <1>1 DEF ViewStep, Viewers
<1>8. QED
  BY <1>2, <1>4, <1>5, <1>6, <1>7, ViewsStay

LEMMA SwitchWrites ==
  ASSUME DInv, NEW h \in Handlers, Delivery!SetLinksDisabled(h)
  PROVE  DInv'
<1> USE DEF DInv, DeliveryTypes, Delivery!Switching, Delivery!resends, Delivery!events, Delivery!history
<1>1. /\ request[h].at = "set" /\ off' = request[h].to
      /\ request'[h] = [at |-> "note", to |-> request[h].to] /\ DOMAIN request' = Handlers
      /\ \A i \in Handlers : i # h => request'[i] = request[i]
      /\ UNCHANGED <<switches, views, lost, switched>>
  BY BecameRequest DEF Delivery!SetLinksDisabled
<1>2. DeliveryTypes'
  BY <1>1
<1>3. OneSwitch'
  BY <1>1 DEF OneSwitch, LastWord
<1>4. Delivery!HistoryTells'
  BY <1>1 DEF Delivery!HistoryTells
<1>5. Delivery!Alternating'
  BY <1>1 DEF Delivery!Alternating
<1>6. ViewStep
  BY <1>1 DEF ViewStep, Viewers
<1>7. QED
  BY <1>2, <1>3, <1>4, <1>5, <1>6, ViewsStay

LEMMA SwitchNoted ==
  ASSUME DInv, NEW h \in Handlers, Delivery!RecordSwitch(h)
  PROVE  DInv'
<1> USE DEF DInv, DeliveryTypes, Delivery!Switching, Delivery!resends, Delivery!events, Delivery!Idle
<1>1. /\ request[h].at = "note" /\ request[h].to \in BOOLEAN
      /\ request'[h].at = "idle" /\ DOMAIN request' = Handlers
      /\ \A i \in Handlers : i # h => request'[i] = request[i]
      /\ \/ switches' = Append(switches, request[h].to) /\ UNCHANGED lost
         \/ lost' = lost + 1 /\ UNCHANGED switches
      /\ UNCHANGED <<off, views, switched>>
  BY BecameRequest DEF Delivery!RecordSwitch, Delivery!Fault
<1>2. DeliveryTypes'
  BY <1>1
<1>3. ~switched' /\ lost' = 0 =>
        /\ switches' = Append(switches, request[h].to)
        /\ \A i \in Handlers : ~Delivery!Switching(i)'
        /\ request[h].to = off /\ (off <=> ~LastWord)
        /\ Delivery!Alternating
  BY <1>1 DEF OneSwitch
<1>4. OneSwitch'
  BY <1>3 DEF OneSwitch
<1>5. Delivery!HistoryTells'
  BY <1>1, <1>3 DEF Delivery!HistoryTells
<1>6. Delivery!Alternating'
  <2> SUFFICES ASSUME ~switched', lost' = 0, NEW i \in 1 .. Len(switches') - 1
               PROVE  switches'[i] # switches'[i + 1]
    BY <1>1 DEF Delivery!Alternating
  <2>1. /\ Len(switches) \in Nat /\ Len(switches') = Len(switches) + 1
        /\ \A k \in 1 .. Len(switches) : switches'[k] = switches[k]
        /\ switches'[Len(switches) + 1] = request[h].to
    BY <1>1, <1>3
  <2>2. CASE i = Len(switches)
    <3>1. switches # <<>> /\ switches[i] \in BOOLEAN
      BY <2>1, <2>2
    <3>2. LastWord <=> switches[i]
      BY <2>2, <3>1 DEF LastWord
    <3>3. switches'[i] = switches[i] /\ switches'[i + 1] = off
      BY <1>3, <2>1, <2>2
    <3>4. QED
      BY <1>3, <3>1, <3>2, <3>3
  <2>3. CASE i # Len(switches)
    <3>1. i \in 1 .. Len(switches) - 1 /\ i + 1 \in 1 .. Len(switches)
      BY <2>1, <2>3
    <3>2. switches[i] # switches[i + 1]
      BY <1>1, <1>3, <3>1 DEF Delivery!Alternating
    <3>3. QED
      BY <2>1, <3>1, <3>2
  <2>4. QED
    BY <2>2, <2>3
<1>7. ViewStep
  BY <1>1 DEF ViewStep, Viewers
<1>8. QED
  BY <1>2, <1>4, <1>5, <1>6, <1>7, ViewsStay

LEMMA DeliveryCrash ==
  ASSUME DInv, Delivery!Crash
  PROVE  DInv'
<1> USE DEF DInv, DeliveryTypes, Delivery!Switching, Delivery!events, Delivery!Idle
<1>1. /\ request' = [h \in Handlers |-> Delivery!Idle] /\ lost' = lost + 1
      /\ UNCHANGED <<off, switches, views, switched>>
  BY DEF Delivery!Crash, Delivery!Fault
<1>2. DeliveryTypes'
  BY <1>1
<1>3. OneSwitch' /\ Delivery!HistoryTells' /\ Delivery!Alternating'
  BY <1>1 DEF OneSwitch, Delivery!HistoryTells, Delivery!Alternating
<1>4. ViewStep
  BY <1>1 DEF ViewStep, Viewers
<1>5. QED
  BY <1>2, <1>3, <1>4, ViewsStay

LEMMA DeliveryInit ==
  ASSUME Delivery!Init
  PROVE  DInv
<1>1. /\ off = FALSE /\ views = 0 /\ lost = 0 /\ switches = <<>>
      /\ request = [h \in Handlers |-> Delivery!Idle]
  BY DEF Delivery!Init
<1>2. DeliveryTypes /\ OneSwitch /\ Delivery!HistoryTells /\ Delivery!Alternating
  <2> USE DEF Delivery!Switching, Delivery!Idle
  <2>1. switches \in Seq(BOOLEAN) /\ Len(switches) = 0
    BY <1>1
  <2>2. DeliveryTypes
    BY <1>1, <2>1 DEF DeliveryTypes
  <2>3. OneSwitch
    BY <1>1 DEF OneSwitch
  <2>4. Delivery!HistoryTells
    BY <1>1 DEF Delivery!HistoryTells
  <2>5. Delivery!Alternating
    BY <2>1 DEF Delivery!Alternating
  <2>6. QED
    BY <2>2, <2>3, <2>4, <2>5
<1>3. Viewers = {}
  BY <1>1 DEF Viewers, Delivery!Idle
<1>4. Cardinality(Viewers) + views <= Cardinality(Handlers)
  BY <1>1, <1>3, ViewersCount, FS_EmptySet
<1>5. QED
  BY <1>2, <1>4 DEF DInv

LEMMA DeliveryNext ==
  ASSUME DInv, [JobNext]_allVars
  PROVE  DInv'
<1>1. Delivery!Next \/ UNCHANGED deliveryVars
  BY DEF JobNext, allVars
<1>2. Apart /\ ViewStep /\ views' \in Nat => DInv'
  BY ApartStays, ViewsStay DEF DInv
<1>3. ASSUME NEW h \in Handlers, Delivery!Request(h) \/ Delivery!Step(h)
      PROVE  DInv'
  BY <1>2, <1>3, DeliveryApart, SwitchBegins, SwitchWrites, SwitchNoted
  DEF Delivery!Request, Delivery!Step
<1>4. QED
  BY <1>1, <1>2, <1>3, DeliveryAges, DeliveryCrash DEF Delivery!Next

(* In every reachable state a lone switch is between the row and the       *)
(* history, which agree but for it, and viewings make room for those about *)
(* to be noted.                                                            *)
THEOREM DeliveryInvariance == JobSpec => []DInv
<1>1. JobInit => DInv
  BY DeliveryInit DEF JobInit
<1>2. DInv /\ [JobNext]_allVars => DInv'
  BY DeliveryNext
<1>3. QED
  BY <1>1, <1>2, PTL DEF JobSpec

(* HistoryTells: as long as switches do not overlap and no event is lost,  *)
(* the history alternates and ends with the state of the links, and with   *)
(* any number of requests a window's viewing is noted no more often than   *)
(* requests counted at the same time (share/operator.go SetLinks,          *)
(* job_event/repo.go RecordOnce).                                          *)
THEOREM HistoryIsTrue == JobSpec => []HistoryTells
<1>1. DInv => HistoryTells
  <2> SUFFICES ASSUME DInv
               PROVE  Delivery!OpenedOnce
    BY DEF DInv, HistoryTells
  <2> DEFINE m == Cardinality(Handlers)
             n == Cardinality(Viewers)
  <2>1. m \in Nat /\ n \in Nat /\ views \in Nat /\ n + views <= m
    BY ViewersCount DEF DInv, DeliveryTypes, Viewers
  <2> HIDE DEF m, n
  <2>2. views <= m
    BY <2>1
  <2>3. \A S : Delivery!Cardinality(S) = Cardinality(S)
    BY DEF Delivery!Cardinality, Cardinality
  <2>4. QED
    BY <2>2, <2>3 DEF m, Delivery!OpenedOnce
<1>2. QED
  BY <1>1, DeliveryInvariance, PTL
-----------------------------------------------------------------------------
(* The bytes of each row, and the sum Media computes over them.            *)
Weights == [k \in Media!Keys |-> Media!Bytes(k)]

LEMMA SumIsTotal ==
  ASSUME NEW S \in SUBSET Media!Keys
  PROVE  Media!SumOfBytes(S) = Total(Weights, S)
<1> DEFINE P(f) == f = [s \in SUBSET S |->
                     IF s = {} THEN 0
                     ELSE LET x == CHOOSE x \in s : TRUE IN Media!Bytes(x) + f[s \ {x}]]
<1>1. Media!SumOfBytes(S) = (CHOOSE f : P(f))[S]
  BY DEF Media!SumOfBytes, Media!FoldSet, Media!MapThenFoldSet
<1>2. ASSUME NEW f PROVE P(f) <=> IsSum(Weights, S, f)
  <2>1. ASSUME NEW s \in SUBSET S
        PROVE  (IF s = {} THEN 0
                ELSE LET x == CHOOSE x \in s : TRUE IN Media!Bytes(x) + f[s \ {x}])
               = Add(Weights, f, s)
    BY DEF Add, Pick, Rest, Weights
  <2>2. QED
    BY <2>1 DEF IsSum
<1>3. (CHOOSE f : P(f)) = SumOf(Weights, S)
  BY <1>2 DEF SumOf
<1>4. QED
  BY <1>1, <1>3 DEF Total
-----------------------------------------------------------------------------
(* The limits of the account.  An upload reads the daily count and the     *)
(* usage once; what it may still add is on the account of all requests.    *)

(* The requests that have read the limits and have not been counted yet.   *)
Inserting == {h \in Handlers : req[h].at = "insert"}
Claimants == {h \in Handlers : req[h].at \in {"insert", "put", "verify", "asset"}}

(* What the originals may take for an upload to be within the quota: the   *)
(* usage it read, or what its file leaves once that was compared.          *)
Claim(h) == IF req[h].at = "asset" THEN StorageQuota - req[h].size ELSE req[h].used

OriginalKeys == {k \in asset : k[2] = "original"}
Originals == Media!SumOfBytes(OriginalKeys)

Others == (Cardinality(Handlers) - 1) * MaxSize

(* There is room for a file of every claimant; or one of them read at      *)
(* least what the originals take now, but for a file of each request that  *)
(* claims nothing.                                                         *)
Ledger(o, A, c) ==
  \/ o + Cardinality(A) * MaxSize <= StorageQuota + Others
  \/ \E h \in A : o + Cardinality(A \ {h}) * MaxSize <= c[h] + Others

Claims == [h \in Claimants |-> Claim(h)]

LimitTypes ==
  /\ IsFiniteSet(recent) /\ IsFiniteSet(asset)
  /\ size \in [Jobs -> Nat]
  /\ \A h \in Handlers :
       /\ req[h].at \in {"insert", "put", "verify"} => req[h].used \in 0 .. StorageQuota
       /\ req[h].at = "verify" => req[h].size \in Nat
       /\ req[h].at = "asset" => req[h].size \in 0 .. MaxSize

LInv ==
  /\ LimitTypes
  /\ Cardinality(Inserting) + Cardinality(recent) <= JobsPerDay + Cardinality(Handlers) - 1
  /\ Ledger(Originals, Claimants, Claims)

LEMMA OthersType == Others \in Nat /\ Cardinality(Handlers) \in Nat \ {0}
<1> DEFINE n == Cardinality(Handlers)
<1>1. n \in Nat /\ n # 0
  BY JobAssumption, FS_CardinalityType, FS_EmptySet
<1>2. MaxSize \in Nat
  BY JobAssumption
<1> HIDE DEF n
<1>3. n - 1 \in Nat
  BY <1>1
<1>4. (n - 1) * MaxSize \in Nat
  BY <1>2, <1>3
<1>5. QED
  BY <1>1, <1>4 DEF Others, n

LEMMA Files ==
  ASSUME NEW A \in SUBSET Handlers, NEW B \in SUBSET A
  PROVE  /\ Cardinality(A) * MaxSize \in Nat /\ Cardinality(B) * MaxSize \in Nat
         /\ Cardinality(B) * MaxSize <= Cardinality(A) * MaxSize
<1> DEFINE a == Cardinality(A)
           b == Cardinality(B)
<1>1. a \in Nat /\ b \in Nat /\ b <= a
  BY JobAssumption, FS_CardinalityType, FS_Subset
<1>2. MaxSize \in Nat
  BY JobAssumption
<1> HIDE DEF a, b
<1>3. a * MaxSize \in Nat /\ b * MaxSize \in Nat /\ b * MaxSize <= a * MaxSize
  BY <1>1, <1>2
<1>4. QED
  BY <1>3 DEF a, b

LEMMA OneFile ==
  ASSUME NEW A \in SUBSET Handlers, NEW h \in A
  PROVE  Cardinality(A) * MaxSize = Cardinality(A \ {h}) * MaxSize + MaxSize
<1> DEFINE a == Cardinality(A)
           b == Cardinality(A \ {h})
<1>1. IsFiniteSet(A)
  BY JobAssumption, FS_Subset
<1>2. a \in Nat /\ b = a - 1
  BY <1>1, FS_CardinalityType, FS_RemoveElement
<1>3. MaxSize \in Nat
  BY JobAssumption
<1> HIDE DEF a, b
<1>4. a * MaxSize = b * MaxSize + MaxSize
  BY <1>2, <1>3
<1>5. QED
  BY <1>4 DEF a, b

(* Claimants that leave, claims that grow and originals that go.           *)
LEMMA LedgerLess ==
  ASSUME NEW o \in Nat, NEW oo \in Nat, oo <= o,
         NEW A \in SUBSET Handlers, NEW B \in SUBSET A, NEW c, NEW cc,
         \A h \in A : c[h] \in Int /\ c[h] <= StorageQuota,
         \A h \in B : cc[h] \in Int /\ c[h] <= cc[h],
         Ledger(o, A, c)
  PROVE  Ledger(oo, B, cc)
<1> USE JobAssumption, OthersType
<1>1. CASE o + Cardinality(A) * MaxSize <= StorageQuota + Others
  <2>1. oo + Cardinality(B) * MaxSize <= StorageQuota + Others
    BY <1>1, Files
  <2>2. QED
    BY <2>1 DEF Ledger
<1>2. ASSUME NEW h \in A, o + Cardinality(A \ {h}) * MaxSize <= c[h] + Others
      PROVE  Ledger(oo, B, cc)
  <2>1. CASE h \in B
    <3>1. B \ {h} \in SUBSET (A \ {h}) /\ A \ {h} \in SUBSET Handlers
      OBVIOUS
    <3>2. oo + Cardinality(B \ {h}) * MaxSize <= cc[h] + Others
      BY <1>2, <2>1, <3>1, Files
    <3>3. QED
      BY <2>1, <3>2 DEF Ledger
  <2>2. CASE h \notin B
    <3>1. B \in SUBSET (A \ {h}) /\ A \ {h} \in SUBSET Handlers
      BY <2>2
    <3>2. oo + Cardinality(B) * MaxSize <= StorageQuota + Others
      BY <1>2, <3>1, Files
    <3>3. QED
      BY <3>2 DEF Ledger
  <2>3. QED
    BY <2>1, <2>2
<1>3. QED
  BY <1>1, <1>2 DEF Ledger

(* A request that reads what the originals take now.                       *)
LEMMA LedgerReads ==
  ASSUME NEW o \in Nat, NEW A \in SUBSET Handlers, NEW h \in Handlers \ A, NEW c,
         c[h] \in Int, o <= c[h]
  PROVE  Ledger(o, A \cup {h}, c)
<1> USE JobAssumption, OthersType
<1> DEFINE n == Cardinality(A)
           m == Cardinality(Handlers)
<1>1. n \in Nat /\ m \in Nat /\ n <= m - 1
  <2>1. A \in SUBSET (Handlers \ {h}) /\ IsFiniteSet(Handlers \ {h})
    BY FS_Subset
  <2>2. n <= Cardinality(Handlers \ {h}) /\ Cardinality(Handlers \ {h}) = m - 1
    BY <2>1, FS_Subset, FS_RemoveElement
  <2>3. QED
    BY <2>1, <2>2, FS_Subset, FS_CardinalityType
<1>2. n * MaxSize <= (m - 1) * MaxSize /\ n * MaxSize \in Nat
  <2>1. MaxSize \in Nat
    OBVIOUS
  <2> HIDE DEF n, m
  <2>2. QED
    BY <1>1, <2>1
<1>3. o + n * MaxSize <= c[h] + Others
  BY <1>2 DEF Others
<1>4. (A \cup {h}) \ {h} = A
  OBVIOUS
<1>5. QED
  BY <1>3, <1>4 DEF Ledger

(* A claimant whose file is counted from now on.                           *)
LEMMA LedgerCounts ==
  ASSUME NEW o \in Nat, NEW A \in SUBSET Handlers, NEW h \in A, NEW n \in 0 .. MaxSize,
         NEW oo \in Nat, oo <= o + n, NEW c, NEW cc,
         \A i \in A : c[i] \in Int, c[h] = StorageQuota - n,
         \A i \in A \ {h} : cc[i] = c[i],
         Ledger(o, A, c)
  PROVE  Ledger(oo, A \ {h}, cc)
<1> USE JobAssumption, OthersType
<1>1. CASE o + Cardinality(A) * MaxSize <= StorageQuota + Others
  <2>1. oo + Cardinality(A \ {h}) * MaxSize <= StorageQuota + Others
    BY <1>1, Files, OneFile
  <2>2. QED
    BY <2>1 DEF Ledger
<1>2. CASE o + Cardinality(A \ {h}) * MaxSize <= c[h] + Others
  <2>1. Cardinality(A \ {h}) * MaxSize \in Nat
    BY Files
  <2>2. oo + Cardinality(A \ {h}) * MaxSize <= StorageQuota + Others
    BY <1>2, <2>1
  <2>3. QED
    BY <2>2 DEF Ledger
<1>3. ASSUME NEW i \in A \ {h}, o + Cardinality(A \ {i}) * MaxSize <= c[i] + Others
      PROVE  Ledger(oo, A \ {h}, cc)
  <2>1. h \in A \ {i} /\ (A \ {i}) \ {h} = (A \ {h}) \ {i}
    OBVIOUS
  <2> DEFINE m == Cardinality(A \ {i}) * MaxSize
             n1 == Cardinality((A \ {h}) \ {i}) * MaxSize
  <2>2. A \ {i} \in SUBSET Handlers /\ (A \ {h}) \ {i} \in SUBSET (A \ {i})
    OBVIOUS
  <2>3. m \in Nat /\ n1 \in Nat
    BY <2>2, Files
  <2>4. m = n1 + MaxSize
    <3> DEFINE B == A \ {i}
    <3>1. B \in SUBSET Handlers /\ h \in B
      BY <2>1, <2>2
    <3> HIDE DEF B
    <3>2. Cardinality(B) * MaxSize = Cardinality(B \ {h}) * MaxSize + MaxSize
      BY <3>1, OneFile
    <3>3. QED
      BY <2>1, <3>2 DEF B
  <2>5. o + m <= c[i] + Others /\ cc[i] = c[i] /\ c[i] \in Int
    BY <1>3
  <2>6. MaxSize \in Nat /\ n \in Nat /\ n <= MaxSize
    OBVIOUS
  <2> HIDE DEF m, n1
  <2>7. oo + n1 <= o + m
    BY <2>3, <2>4, <2>6
  <2>8. oo + n1 <= cc[i] + Others
    BY <2>3, <2>5, <2>7
  <2>9. QED
    BY <2>8 DEF n1, Ledger
<1>4. QED
  BY <1>1, <1>2, <1>3 DEF Ledger

LEMMA LedgerBounds ==
  ASSUME NEW o \in Nat, NEW A \in SUBSET Handlers, NEW c,
         \A h \in A : c[h] \in Int /\ c[h] <= StorageQuota, Ledger(o, A, c)
  PROVE  o <= StorageQuota + Others
<1> USE JobAssumption, OthersType
<1>1. CASE o + Cardinality(A) * MaxSize <= StorageQuota + Others
  BY <1>1, Files
<1>2. ASSUME NEW h \in A, o + Cardinality(A \ {h}) * MaxSize <= c[h] + Others
      PROVE  o <= StorageQuota + Others
  BY <1>2, Files
<1>3. QED
  BY <1>1, <1>2 DEF Ledger

LEMMA BytesTypes ==
  ASSUME asset \subseteq Media!Keys, size \in [Jobs -> Nat]
  PROVE  /\ Weights \in [Media!Keys -> Nat]
         /\ \A k \in Media!Keys : k[2] = "original" => Weights[k] = size[k[1]]
         /\ Originals = Total(Weights, OriginalKeys)
         /\ Media!StorageBytes = Total(Weights, asset)
<1>1. OriginalKeys \in SUBSET Media!Keys
  BY DEF OriginalKeys
<1>2. Weights \in [Media!Keys -> Nat]
  BY DEF Weights, Media!Bytes, Media!Keys, Media!PreviewSize
<1>3. QED
  BY <1>1, <1>2, SumIsTotal DEF Weights, Media!Bytes, Originals, Media!StorageBytes

(* The same of the state after a step.                                     *)
BytesCount ==
  asset \subseteq Media!Keys /\ size \in [Jobs -> Nat] =>
    /\ Weights \in [Media!Keys -> Nat]
    /\ \A k \in Media!Keys : k[2] = "original" => Weights[k] = size[k[1]]
    /\ Originals = Total(Weights, OriginalKeys)

LEMMA BytesNext == BytesCount /\ BytesCount'
<1>1. BytesCount
  BY BytesTypes DEF BytesCount
<1>2. BytesCount'
  BY <1>1, PTL
<1>3. QED
  BY <1>1, <1>2

LEMMA UsageCovers ==
  ASSUME asset \subseteq Media!Keys, size \in [Jobs -> Nat], IsFiniteSet(asset)
  PROVE  Originals \in Nat /\ Media!StorageBytes \in Nat /\ Originals <= Media!StorageBytes
<1>1. OriginalKeys \in SUBSET asset /\ IsFiniteSet(OriginalKeys)
  BY FS_Subset DEF OriginalKeys
<1>2. Total(Weights, OriginalKeys) \in Nat /\ Total(Weights, asset) \in Nat
  BY <1>1, BytesTypes, TotalType
<1>3. Total(Weights, OriginalKeys) <= Total(Weights, asset)
  <2>1. \A k \in OriginalKeys : Weights[k] <= Weights[k]
    BY <1>1, BytesTypes
  <2>2. QED
    BY <1>1, <2>1, BytesTypes, TotalLess
<1>4. QED
  BY <1>2, <1>3, BytesTypes

RowTypes == asset \subseteq Media!Keys /\ size \in [Jobs -> Nat] /\ IsFiniteSet(asset)

LEMMA FewerOriginals ==
  ASSUME RowTypes, RowTypes', OriginalKeys' \subseteq OriginalKeys,
         \A k \in OriginalKeys' : size'[k[1]] = size[k[1]]
  PROVE  Originals \in Nat /\ Originals' \in Nat /\ Originals' <= Originals
<1> DEFINE w == Weights
           v == Weights'
           S == OriginalKeys
           T == OriginalKeys'
<1>1. /\ v \in [Media!Keys -> Nat] /\ Originals' = Total(v, T)
      /\ \A k \in Media!Keys : k[2] = "original" => v[k] = size'[k[1]]
  BY BytesNext DEF BytesCount, RowTypes
<1>2. /\ w \in [Media!Keys -> Nat] /\ Originals = Total(w, S)
      /\ \A k \in Media!Keys : k[2] = "original" => w[k] = size[k[1]]
  BY BytesNext DEF BytesCount, RowTypes
<1>3. S \in SUBSET Media!Keys /\ IsFiniteSet(S) /\ T \in SUBSET S /\ IsFiniteSet(T)
      /\ \A k \in S : k[2] = "original"
  BY FS_Subset DEF RowTypes, OriginalKeys
<1>4. \A k \in T : v[k] <= w[k]
  BY <1>1, <1>2, <1>3
<1> HIDE DEF w, v, S, T
<1>5. Total(v, T) <= Total(w, S) /\ Total(v, T) \in Nat /\ Total(w, S) \in Nat
  BY <1>1, <1>2, <1>3, <1>4, TotalLess, TotalType
<1>6. QED
  BY <1>1, <1>2, <1>5

LEMMA OneOriginal ==
  ASSUME RowTypes, RowTypes', NEW j \in Jobs, NEW n \in Nat,
         OriginalKeys' = OriginalKeys \cup {<<j, "original">>}, size'[j] = n,
         \A k \in OriginalKeys : k[1] # j /\ size'[k[1]] = size[k[1]]
  PROVE  Originals \in Nat /\ Originals' \in Nat /\ Originals' <= Originals + n
<1> DEFINE w == Weights
           v == Weights'
           S == OriginalKeys
           T == OriginalKeys'
           y == <<j, "original">>
<1>1. /\ v \in [Media!Keys -> Nat] /\ Originals' = Total(v, T)
      /\ \A k \in Media!Keys : k[2] = "original" => v[k] = size'[k[1]]
  BY BytesNext DEF BytesCount, RowTypes
<1>2. /\ w \in [Media!Keys -> Nat] /\ Originals = Total(w, S)
      /\ \A k \in Media!Keys : k[2] = "original" => w[k] = size[k[1]]
  BY BytesNext DEF BytesCount, RowTypes
<1>3. S \in SUBSET Media!Keys /\ IsFiniteSet(S) /\ T \in SUBSET Media!Keys /\ IsFiniteSet(T)
      /\ \A k \in S : k[2] = "original"
  BY FS_Subset DEF RowTypes, OriginalKeys
<1>4. y \in Media!Keys /\ y[1] = j /\ y[2] = "original" /\ y \in T /\ T \ {y} = S
  BY DEF Media!Keys, Media!Kinds
<1>5. v[y] = n /\ \A k \in S : v[k] <= w[k]
  BY <1>1, <1>2, <1>3, <1>4
<1> HIDE DEF w, v, S, T, y
<1>6. Total(v, T) = v[y] + Total(v, S)
  BY <1>1, <1>3, <1>4, TotalWithout
<1>7. Total(v, S) <= Total(w, S) /\ Total(v, S) \in Nat /\ Total(w, S) \in Nat
  BY <1>1, <1>2, <1>3, <1>5, TotalLess, TotalType
<1>8. QED
  BY <1>1, <1>2, <1>5, <1>6, <1>7

(* What a step does to the jobs of a day and the requests about to add one. *)
CountStep ==
  \/ recent' \subseteq recent /\ Inserting' \subseteq Inserting
  \/ \E h \in Inserting : \E j \in Jobs :
       recent' = recent \cup {j} /\ Inserting' = Inserting \ {h}
  \/ Cardinality(recent) < JobsPerDay /\ recent' = recent

(* What a step does to the originals and the claims upon the quota.        *)
Leaves ==
  /\ OriginalKeys' \subseteq OriginalKeys
  /\ \A k \in OriginalKeys' : size'[k[1]] = size[k[1]]
  /\ Claimants' \subseteq Claimants
  /\ \A h \in Claimants' : Claim(h) <= Claim(h)'

Reads(h) ==
  /\ UNCHANGED <<asset, size>>
  /\ Claimants' = Claimants \cup {h}
  /\ Claim(h)' = Media!StorageBytes

Counts(h) ==
  /\ req[h].at = "asset" /\ req[h].job \in Jobs
  /\ OriginalKeys' = OriginalKeys \cup {OriginalOf(h)}
  /\ size' = [size EXCEPT ![req[h].job] = req[h].size]
  /\ \A k \in OriginalKeys : k[1] # req[h].job
  /\ Claimants' = Claimants \ {h}
  /\ \A i \in Claimants' : Claim(i)' = Claim(i)

BytesStep ==
  \/ Leaves
  \/ \E h \in Handlers \ Claimants : Reads(h)
  \/ \E h \in Claimants : Counts(h)

LEMMA ClaimTypes ==
  ASSUME LimitTypes
  PROVE  \A h \in Claimants : Claims[h] = Claim(h) /\ Claim(h) \in Int /\ Claim(h) <= StorageQuota
  BY JobAssumption DEF LimitTypes, Claimants, Claims, Claim

LEMMA ClaimTypesNext ==
  ASSUME LimitTypes'
  PROVE  \A h \in Claimants' : Claims'[h] = Claim(h)' /\ Claim(h)' \in Int /\ Claim(h)' <= StorageQuota
  BY JobAssumption DEF LimitTypes, Claimants, Claims, Claim

LEMMA DailyStays ==
  ASSUME LInv, LimitTypes', CountStep
  PROVE  (Cardinality(Inserting) + Cardinality(recent) <= JobsPerDay + Cardinality(Handlers) - 1)'
<1> DEFINE m == Cardinality(Handlers)
           n == Cardinality(Inserting)
           nn == Cardinality(Inserting')
           r == Cardinality(recent)
           rr == Cardinality(recent')
<1>1. IsFiniteSet(Inserting) /\ IsFiniteSet(recent)
  BY JobAssumption, FS_Subset DEF Inserting, LInv, LimitTypes
<1>2. /\ m \in Nat /\ n \in Nat /\ nn \in Nat /\ r \in Nat /\ rr \in Nat /\ JobsPerDay \in Nat
      /\ nn <= m /\ n + r <= JobsPerDay + m - 1
  <2>1. Inserting \in SUBSET Handlers /\ Inserting' \in SUBSET Handlers
    BY DEF Inserting
  <2>2. QED
    BY <2>1, JobAssumption, ViewersCount, FS_CardinalityType DEF LInv, LimitTypes
<1>3. CASE recent' \subseteq recent /\ Inserting' \subseteq Inserting
  <2>1. rr <= r /\ nn <= n
    BY <1>1, <1>3, FS_Subset
  <2> HIDE DEF m, n, nn, r, rr
  <2>2. nn + rr <= JobsPerDay + m - 1
    BY <1>2, <2>1
  <2>3. QED
    BY <2>2 DEF m, nn, rr
<1>4. CASE \E h \in Inserting : \E j \in Jobs : recent' = recent \cup {j} /\ Inserting' = Inserting \ {h}
  <2>1. PICK h \in Inserting, j \in Jobs : recent' = recent \cup {j} /\ Inserting' = Inserting \ {h}
    BY <1>4
  <2>2. rr = r \/ rr = r + 1
    BY <1>1, <2>1, FS_AddElement
  <2>3. nn = n - 1
    BY <1>1, <2>1, FS_RemoveElement
  <2> HIDE DEF m, n, nn, r, rr
  <2>4. nn + rr <= JobsPerDay + m - 1
    BY <1>2, <2>2, <2>3
  <2>5. QED
    BY <2>4 DEF m, nn, rr
<1>5. CASE r < JobsPerDay /\ recent' = recent
  <2>1. rr = r
    BY <1>5
  <2> HIDE DEF m, n, nn, rr
  <2>2. nn + rr <= JobsPerDay + m - 1
    BY <1>2, <1>5, <2>1
  <2>3. QED
    BY <2>2 DEF m, nn, rr
<1>6. QED
  BY <1>3, <1>4, <1>5 DEF CountStep

LEMMA LedgerStays ==
  ASSUME MediaTypes, LInv, asset' \subseteq Media!Keys, LimitTypes', BytesStep
  PROVE  Ledger(Originals, Claimants, Claims)'
<1>1. RowTypes /\ RowTypes'
  BY DEF MediaTypes, LInv, LimitTypes, RowTypes
<1>2. Claimants \in SUBSET Handlers /\ Ledger(Originals, Claimants, Claims)
  BY DEF Claimants, LInv
<1>3. \A h \in Claimants : Claims[h] = Claim(h) /\ Claim(h) \in Int /\ Claim(h) <= StorageQuota
  BY ClaimTypes DEF LInv
<1>4. \A h \in Claimants' : Claims'[h] = Claim(h)' /\ Claim(h)' \in Int
  BY ClaimTypesNext
<1>5. CASE Leaves
  <2>1. Originals \in Nat /\ Originals' \in Nat /\ Originals' <= Originals
    BY <1>1, <1>5, FewerOriginals DEF Leaves
  <2>2. /\ Claimants' \in SUBSET Claimants
        /\ \A h \in Claimants' : Claims'[h] \in Int /\ Claims[h] <= Claims'[h]
    BY <1>3, <1>4, <1>5 DEF Leaves
  <2>3. \A h \in Claimants : Claims[h] \in Int /\ Claims[h] <= StorageQuota
    BY <1>3
  <2>4. Ledger(Originals', Claimants', Claims')
    BY <1>2, <2>1, <2>2, <2>3, LedgerLess
  <2>5. QED
    BY <2>4 DEF Ledger, Others
<1>6. ASSUME NEW h \in Handlers \ Claimants, Reads(h)
      PROVE  Ledger(Originals, Claimants, Claims)'
  <2>1. Originals' \in Nat /\ Originals' <= Media!StorageBytes
    <3>1. Originals \in Nat /\ Media!StorageBytes \in Nat /\ Originals <= Media!StorageBytes
      BY <1>1, UsageCovers DEF RowTypes
    <3>2. Originals' \in Nat /\ Originals' <= Originals
      BY <1>1, <1>6, FewerOriginals DEF Reads, OriginalKeys
    <3>3. QED
      BY <3>1, <3>2
  <2>2. h \in Claimants' /\ Claims'[h] \in Int /\ Originals' <= Claims'[h]
    BY <1>4, <1>6, <2>1 DEF Reads
  <2>3. Ledger(Originals', Claimants \cup {h}, Claims')
    BY <1>2, <2>1, <2>2, LedgerReads
  <2>4. QED
    BY <1>6, <2>3 DEF Ledger, Others, Reads
<1>7. ASSUME NEW h \in Claimants, Counts(h)
      PROVE  Ledger(Originals, Claimants, Claims)'
  <2> DEFINE n == req[h].size
             j == req[h].job
  <2>1. h \in Handlers /\ n \in 0 .. MaxSize /\ n \in Nat /\ j \in Jobs
    BY <1>7, JobAssumption DEF Counts, Claimants, LInv, LimitTypes
  <2>2. /\ OriginalKeys' = OriginalKeys \cup {<<j, "original">>}
        /\ size' = [size EXCEPT ![j] = n]
        /\ \A k \in OriginalKeys : k[1] # j
    BY <1>7 DEF Counts, OriginalOf
  <2>3. size'[j] = n /\ \A k \in OriginalKeys : k[1] # j /\ size'[k[1]] = size[k[1]]
    BY <1>1, <2>1, <2>2, KeyShapes DEF RowTypes, OriginalKeys
  <2>4. Originals \in Nat /\ Originals' \in Nat /\ Originals' <= Originals + n
    BY <1>1, <2>1, <2>2, <2>3, OneOriginal
  <2>5. /\ Claims[h] = StorageQuota - n /\ Claimants' = Claimants \ {h}
        /\ \A i \in Claimants \ {h} : Claims'[i] = Claims[i]
    BY <1>3, <1>4, <1>7 DEF Counts, Claim
  <2>6. \A i \in Claimants : Claims[i] \in Int
    BY <1>3
  <2> HIDE DEF n, j
  <2>7. Ledger(Originals', Claimants \ {h}, Claims')
    BY <1>2, <2>1, <2>4, <2>5, <2>6, LedgerCounts
  <2>8. QED
    BY <2>5, <2>7 DEF Ledger, Others
<1>8. QED
  BY <1>5, <1>6, <1>7 DEF BytesStep

Within == LimitTypes' /\ CountStep /\ BytesStep

(* A request that claims nothing any more, with the rows or without.       *)
LEMMA LimitLeaves ==
  ASSUME MediaTypes, LInv, NEW h \in Handlers, NEW r, Media!Become(h, r),
         r.at \notin {"insert", "put", "verify", "asset"},
         \/ UNCHANGED <<recent, asset, size>>
         \/ \E j \in Jobs : Media!RemoveRow(j)
  PROVE  Within
<1>1. /\ DOMAIN req' = Handlers /\ req'[h] = r
      /\ \A i \in Handlers : i # h => req'[i] = req[i]
  BY BecameMedia
<1>2. /\ recent' \subseteq recent /\ asset' \subseteq asset /\ size' \in [Jobs -> Nat]
      /\ \A k \in OriginalKeys' : size'[k[1]] = size[k[1]]
  <2>1. CASE UNCHANGED <<recent, asset, size>>
    BY <2>1 DEF LInv, LimitTypes
  <2>2. ASSUME NEW j \in Jobs, Media!RemoveRow(j)
        PROVE  /\ recent' \subseteq recent /\ asset' \subseteq asset /\ size' \in [Jobs -> Nat]
               /\ \A k \in OriginalKeys' : size'[k[1]] = size[k[1]]
    <3>1. /\ recent' = recent \ {j} /\ asset' = asset \ Media!KeysOf(j)
          /\ size' = [size EXCEPT ![j] = 0] /\ size \in [Jobs -> Nat]
      BY <2>2 DEF Media!RemoveRow, LInv, LimitTypes
    <3>2. \A k \in OriginalKeys' : k[1] \in Jobs /\ k[1] # j
      BY <3>1, KeyShapes, KeysOfJob DEF OriginalKeys, MediaTypes
    <3>3. QED
      BY <3>1, <3>2
  <2>3. QED
    BY <2>1, <2>2
<1>3. LimitTypes'
  BY <1>1, <1>2, FS_Subset DEF LInv, LimitTypes
<1>4. CountStep
  BY <1>1, <1>2 DEF CountStep, Inserting
<1>5. Leaves
  <2>1. Claimants' \subseteq Claimants /\ \A i \in Claimants' : req'[i] = req[i]
    BY <1>1 DEF Claimants
  <2>2. \A i \in Claimants' : Claim(i)' = Claim(i) /\ Claim(i) \in Int
    BY <2>1, ClaimTypes DEF Claim, LInv
  <2>3. OriginalKeys' \subseteq OriginalKeys
    BY <1>2 DEF OriginalKeys
  <2>4. QED
    BY <1>2, <2>1, <2>2, <2>3 DEF Leaves
<1>6. QED
  BY <1>3, <1>4, <1>5 DEF Within, BytesStep

(* A step that leaves the requests, and the originals, as they are.        *)
LEMMA LimitApart ==
  ASSUME LInv, UNCHANGED <<req, size>>, recent' \subseteq recent,
         asset' = asset \/ \E j \in Jobs : asset' = asset \cup {<<j, "preview">>}
  PROVE  Within
<1>1. IsFiniteSet(asset') /\ IsFiniteSet(recent')
  BY FS_Subset, FS_AddElement DEF LInv, LimitTypes
<1>2. LimitTypes'
  BY <1>1 DEF LInv, LimitTypes
<1>3. Inserting' = Inserting /\ Claimants' = Claimants
  BY DEF Inserting, Claimants
<1>4. OriginalKeys' \subseteq OriginalKeys
  BY KeyShapes DEF OriginalKeys
<1>5. \A h \in Claimants : Claim(h)' = Claim(h) /\ Claim(h) \in Int
  BY ClaimTypes DEF Claim, LInv
<1>6. CountStep /\ Leaves
  BY <1>3, <1>4, <1>5 DEF CountStep, Leaves
<1>7. QED
  BY <1>2, <1>6 DEF Within, BytesStep

LEMMA LimitReads ==
  ASSUME MInv, LInv, NEW h \in Handlers, Media!CreateBegin(h)
  PROVE  Within
<1>1. /\ req[h].at = "idle" /\ DOMAIN req' = Handlers
      /\ req'[h] = [at |-> "insert", used |-> Media!StorageBytes]
      /\ \A i \in Handlers : i # h => req'[i] = req[i]
      /\ Media!UnderDailyLimit /\ Media!StorageBytes <= StorageQuota
      /\ UNCHANGED <<asset, size, recent>>
  BY BecameMedia DEF Media!CreateBegin, Media!Idle, Media!table, MInv
<1>2. Media!StorageBytes \in Nat
  BY UsageCovers DEF MInv, MediaTypes, LInv, LimitTypes
<1>3. LimitTypes'
  BY <1>1, <1>2, JobAssumption DEF LInv, LimitTypes
<1>4. CountStep
  <2>1. \A S : Media!Cardinality(S) = Cardinality(S)
    BY DEF Media!Cardinality, Cardinality
  <2>2. QED
    BY <1>1, <2>1 DEF CountStep, Media!UnderDailyLimit
<1>5. h \notin Claimants /\ Reads(h)
  BY <1>1 DEF Reads, Claimants, Claim
<1>6. QED
  BY <1>3, <1>4, <1>5 DEF Within, BytesStep

LEMMA LimitInserts ==
  ASSUME MInv, LInv, NEW h \in Handlers, NEW j \in Jobs, Media!InsertJob(h, j)
  PROVE  Within
<1>1. /\ req[h].at = "insert" /\ DOMAIN req' = Handlers
      /\ req'[h] = [at |-> "put", job |-> j, used |-> req[h].used]
      /\ \A i \in Handlers : i # h => req'[i] = req[i]
      /\ recent' = recent \cup {j}
      /\ UNCHANGED <<asset, size>>
  BY BecameMedia DEF Media!InsertJob, MInv
<1>2. LimitTypes'
  BY <1>1, FS_AddElement DEF LInv, LimitTypes
<1>3. CountStep
  BY <1>1 DEF CountStep, Inserting
<1>4. Leaves
  <2>1. Claimants' = Claimants /\ OriginalKeys' = OriginalKeys
    BY <1>1 DEF Claimants, OriginalKeys
  <2>2. \A i \in Claimants : Claim(i)' = Claim(i) /\ Claim(i) \in Int
    BY <1>1, ClaimTypes DEF Claim, LInv, Claimants
  <2>3. QED
    BY <1>1, <2>1, <2>2 DEF Leaves
<1>5. QED
  BY <1>2, <1>3, <1>4 DEF Within, BytesStep

LEMMA LimitStores ==
  ASSUME MInv, LInv, NEW h \in Handlers, Media!PutOriginal(h)
  PROVE  Within
<1>1. PICK n \in 0 .. MaxSize + 1 :
        /\ req[h].at = "put" /\ DOMAIN req' = Handlers
        /\ req'[h] = [at |-> "verify", job |-> req[h].job, used |-> req[h].used, size |-> n]
        /\ \A i \in Handlers : i # h => req'[i] = req[i]
        /\ UNCHANGED <<recent, asset, size>>
  BY BecameMedia DEF Media!PutOriginal, Media!table, MInv
<1>2. n \in Nat
  BY JobAssumption
<1>3. LimitTypes'
  BY <1>1, <1>2 DEF LInv, LimitTypes
<1>4. CountStep
  BY <1>1 DEF CountStep, Inserting
<1>5. Leaves
  <2>1. Claimants' = Claimants /\ OriginalKeys' = OriginalKeys
    BY <1>1 DEF Claimants, OriginalKeys
  <2>2. \A i \in Claimants : Claim(i)' = Claim(i) /\ Claim(i) \in Int
    BY <1>1, ClaimTypes DEF Claim, LInv, Claimants
  <2>3. QED
    BY <1>1, <2>1, <2>2 DEF Leaves
<1>6. QED
  BY <1>3, <1>4, <1>5 DEF Within, BytesStep

LEMMA LimitVerifies ==
  ASSUME MInv, LInv, NEW h \in Handlers, Media!Verify(h)
  PROVE  Within
<1>1. CASE Media!Become(h, [at |-> "dropFile", job |-> req[h].job])
  BY <1>1, LimitLeaves DEF Media!Verify, Media!table, MInv
<1>2. ASSUME ~Media!Become(h, [at |-> "dropFile", job |-> req[h].job])
      PROVE  Within
  <2>1. /\ req[h].at = "verify" /\ DOMAIN req' = Handlers
        /\ req[h].size \in 1 .. MaxSize /\ req[h].used + req[h].size <= StorageQuota
        /\ req'[h] = [at |-> "asset", job |-> req[h].job, size |-> req[h].size]
        /\ \A i \in Handlers : i # h => req'[i] = req[i]
        /\ UNCHANGED <<recent, asset, size>>
    BY <1>2, BecameMedia DEF Media!Verify, Media!WithinQuota, Media!table, MInv
  <2>2. req[h].used \in Nat /\ req[h].size \in Nat /\ StorageQuota \in Nat /\ MaxSize \in Nat
    BY <2>1, JobAssumption DEF LInv, LimitTypes
  <2>3. LimitTypes'
    BY <2>1, <2>2 DEF LInv, LimitTypes
  <2>4. CountStep
    BY <2>1 DEF CountStep, Inserting
  <2>5. Leaves
    <3>1. Claimants' = Claimants /\ OriginalKeys' = OriginalKeys
      BY <2>1 DEF Claimants, OriginalKeys
    <3>2. Claim(h) <= Claim(h)'
      BY <2>1, <2>2 DEF Claim
    <3>3. \A i \in Claimants : i # h => Claim(i)' = Claim(i) /\ Claim(i) \in Int
      BY <2>1, ClaimTypes DEF Claim, LInv, Claimants
    <3>4. \A i \in Claimants' : Claim(i) <= Claim(i)'
      BY <3>1, <3>2, <3>3
    <3>5. QED
      BY <2>1, <3>1, <3>4 DEF Leaves
  <2>6. QED
    BY <2>3, <2>4, <2>5 DEF Within, BytesStep
<1>3. QED
  BY <1>1, <1>2

LEMMA LimitCounts ==
  ASSUME MInv, LInv, NEW h \in Handlers, Media!InsertAsset(h)
  PROVE  Within
<1>1. /\ req[h].at = "asset" /\ req'[h].at = "idle" /\ DOMAIN req' = Handlers
      /\ \A i \in Handlers : i # h => req'[i] = req[i]
      /\ asset' = asset \cup {<<req[h].job, "original">>}
      /\ size' = [size EXCEPT ![req[h].job] = req[h].size]
      /\ UNCHANGED recent
  BY BecameMedia DEF Media!InsertAsset, Media!Idle, MInv
<1>2. req[h].job \in Jobs /\ \A k \in asset : k[1] # req[h].job
  BY <1>1 DEF MInv, UploadsAlone, Uploading
<1>3. req[h].size \in Nat
  BY <1>1, JobAssumption DEF LInv, LimitTypes
<1>4. LimitTypes'
  BY <1>1, <1>2, <1>3, FS_AddElement DEF LInv, LimitTypes
<1>5. CountStep
  BY <1>1 DEF CountStep, Inserting
<1>6. h \in Claimants /\ Counts(h)
  <2>1. h \in Claimants /\ Claimants' = Claimants \ {h}
    BY <1>1 DEF Claimants
  <2>2. OriginalKeys' = OriginalKeys \cup {<<req[h].job, "original">>}
    BY <1>1 DEF OriginalKeys
  <2>3. \A i \in Claimants' : Claim(i)' = Claim(i)
    BY <1>1, <2>1 DEF Claim, Claimants
  <2>4. QED
    BY <1>1, <1>2, <2>1, <2>2, <2>3 DEF Counts, OriginalOf, OriginalKeys
<1>7. QED
  BY <1>4, <1>5, <1>6 DEF Within, BytesStep

LEMMA LimitQuiet ==
  ASSUME MInv, LInv, NEW h \in Handlers,
         \/ Media!InsertFails(h) \/ Media!PutFails(h) \/ Media!AssetFails(h) \/ Media!DropFile(h)
         \/ Media!DropRow(h) \/ Media!DeleteRow(h) \/ Media!DeleteRefused(h)
         \/ Media!DeleteFile(h) \/ Media!DeleteDone(h) \/ Media!Serve(h)
         \/ \E j \in Jobs : Media!DeleteBegin(h, j)
         \/ \E k \in Media!Keys : Media!Resolve(h, k)
  PROVE  Within
<1> USE LimitLeaves DEF MInv, Media!Idle, Media!table, Media!history
<1>1. CASE Media!InsertFails(h)
  BY <1>1 DEF Media!InsertFails
<1>2. CASE Media!PutFails(h)
  BY <1>2 DEF Media!PutFails
<1>3. CASE Media!AssetFails(h)
  BY <1>3 DEF Media!AssetFails
<1>4. CASE Media!DropFile(h)
  BY <1>4 DEF Media!DropFile
<1>5. CASE Media!DropRow(h)
  BY <1>5 DEF Media!DropRow, UploadsAlone, Uploading
<1>6. CASE Media!DeleteRow(h)
  BY <1>6 DEF Media!DeleteRow, DeletesGone
<1>7. CASE Media!DeleteRefused(h)
  BY <1>7 DEF Media!DeleteRefused
<1>8. CASE Media!DeleteFile(h)
  <2>1. PICK k \in req[h].keys : Media!Become(h, [req[h] EXCEPT !.keys = @ \ {k}])
    BY <1>8 DEF Media!DeleteFile
  <2>2. [req[h] EXCEPT !.keys = @ \ {k}].at = "deleteFiles"
    BY <1>8 DEF Media!DeleteFile, DeletesGone
  <2>3. QED
    BY <1>8, <2>1, <2>2 DEF Media!DeleteFile
<1>9. CASE Media!DeleteDone(h)
  BY <1>9 DEF Media!DeleteDone
<1>10. CASE Media!Serve(h)
  BY <1>10 DEF Media!Serve
<1>11. CASE \E j \in Jobs : Media!DeleteBegin(h, j)
  BY <1>11 DEF Media!DeleteBegin
<1>12. CASE \E k \in Media!Keys : Media!Resolve(h, k)
  BY <1>12 DEF Media!Resolve
<1>13. QED
  BY <1>1, <1>2, <1>3, <1>4, <1>5, <1>6, <1>7, <1>8, <1>9, <1>10, <1>11, <1>12

LEMMA LimitOthers ==
  ASSUME LInv,
         \/ \E j \in Jobs : \/ Media!Claim(j) \/ Media!Encode(j) \/ Media!AddPreview(j)
                            \/ Media!MarkDone(j) \/ Media!MarkError(j) \/ Media!Age(j)
         \/ UNCHANGED mediaVars
  PROVE  Within
<1> USE LimitApart DEF Media!table, Media!history
<1>1. ASSUME NEW j \in Jobs, Media!Claim(j) \/ Media!Encode(j) \/ Media!MarkDone(j)
      PROVE  Within
  BY <1>1 DEF Media!Claim, Media!Encode, Media!MarkDone
<1>2. ASSUME NEW j \in Jobs, Media!MarkError(j)
      PROVE  Within
  BY <1>2 DEF Media!MarkError
<1>3. ASSUME NEW j \in Jobs, Media!AddPreview(j)
      PROVE  Within
  BY <1>3 DEF Media!AddPreview
<1>4. ASSUME NEW j \in Jobs, Media!Age(j)
      PROVE  Within
  BY <1>4 DEF Media!Age
<1>5. CASE UNCHANGED mediaVars
  BY <1>5 DEF mediaVars
<1>6. QED
  BY <1>1, <1>2, <1>3, <1>4, <1>5

LEMMA LimitCrash ==
  ASSUME LInv, Media!Crash
  PROVE  Within
<1>1. /\ \A h \in Handlers : req'[h].at = "idle"
      /\ UNCHANGED <<recent, asset, size>>
  BY DEF Media!Crash, Media!Idle
<1>2. LimitTypes'
  BY <1>1 DEF LInv, LimitTypes
<1>3. Inserting' = {} /\ Claimants' = {} /\ OriginalKeys' = OriginalKeys
  BY <1>1 DEF Inserting, Claimants, OriginalKeys
<1>4. QED
  BY <1>1, <1>2, <1>3 DEF Within, CountStep, BytesStep, Leaves

LEMMA LimitInit ==
  ASSUME Media!Init
  PROVE  LInv
<1>1. /\ recent = {} /\ asset = {} /\ size = [j \in Jobs |-> 0]
      /\ \A h \in Handlers : req[h].at = "idle"
  BY DEF Media!Init, Media!Idle
<1>2. LimitTypes
  BY <1>1, FS_EmptySet DEF LimitTypes
<1>3. Inserting = {} /\ Claimants = {} /\ OriginalKeys = {}
  BY <1>1 DEF Inserting, Claimants, OriginalKeys
<1>4. Cardinality(Inserting) + Cardinality(recent) <= JobsPerDay + Cardinality(Handlers) - 1
  BY <1>1, <1>3, FS_EmptySet, OthersType, JobAssumption
<1>5. Originals = 0
  <2>1. Originals = Total(Weights, OriginalKeys)
    BY <1>1, <1>2, BytesTypes DEF LimitTypes
  <2>2. QED
    BY <1>3, <2>1, TotalStep, FS_EmptySet
<1>6. Ledger(Originals, Claimants, Claims)
  <2>1. Cardinality(Claimants) * MaxSize = 0
    BY <1>3, FS_EmptySet, JobAssumption
  <2>2. QED
    BY <1>5, <2>1, OthersType, JobAssumption DEF Ledger
<1>7. QED
  BY <1>2, <1>4, <1>6 DEF LInv

LEMMA LimitNext ==
  ASSUME MInv, MInv', LInv, [JobNext]_allVars
  PROVE  LInv'
<1>1. Media!Next \/ UNCHANGED mediaVars
  BY DEF JobNext, allVars
<1>2. ASSUME NEW h \in Handlers, Media!Request(h) \/ Media!Step(h)
      PROVE  Within
  BY <1>2, LimitReads, LimitInserts, LimitStores, LimitVerifies, LimitCounts, LimitQuiet
  DEF Media!Request, Media!Step
<1>3. Within
  BY <1>1, <1>2, LimitOthers, LimitCrash DEF Media!Next
<1>4. QED
  BY <1>3, DailyStays, LedgerStays DEF Within, LInv, MInv, MediaTypes
-----------------------------------------------------------------------------
(* The limit on mails, which counts events: one for each mail that was not *)
(* lost with its event.                                                    *)

Mailing == {h \in Handlers : request[h].at \in {"mail", "record"}}

RInv ==
  /\ mailed \in [recorded : Nat, lost : Nat] /\ late \in Nat
  /\ mailed.recorded + late + Cardinality(Mailing) <= MaxResends + Cardinality(Handlers) - 1
  /\ mailed.lost <= lost * Cardinality(Handlers)

(* What a step does to the events and to the requests about to record one. *)
EventStep ==
  \/ Delivery!Resent' <= Delivery!Resent /\ Mailing' \subseteq Mailing
  \/ \E h \in Mailing : Delivery!Resent' = Delivery!Resent + 1 /\ Mailing' = Mailing \ {h}
  \/ Delivery!Resent < MaxResends /\ Delivery!Resent' = Delivery!Resent

(* ... and to the mails without an event.                                  *)
LossStep ==
  \/ mailed'.lost <= mailed.lost /\ lost' = lost
  \/ mailed'.lost <= mailed.lost + Cardinality(Handlers) /\ lost' = lost + 1

MailTypes == mailed \in [recorded : Nat, lost : Nat] /\ late \in Nat

Mailed == MailTypes' /\ EventStep /\ LossStep

LEMMA MailsStay ==
  ASSUME DInv, RInv, Mailed
  PROVE  RInv'
<1> DEFINE m == Cardinality(Handlers)
           n == Cardinality(Mailing)
           nn == Cardinality(Mailing')
           r == Delivery!Resent
           rr == Delivery!Resent'
<1>1. /\ m \in Nat /\ n \in Nat /\ nn \in Nat /\ r \in Nat /\ rr \in Nat /\ MaxResends \in Nat
      /\ nn <= m /\ IsFiniteSet(Mailing) /\ r + n <= MaxResends + m - 1
  <2>1. Mailing \in SUBSET Handlers /\ Mailing' \in SUBSET Handlers
    BY DEF Mailing
  <2>2. r \in Nat /\ rr \in Nat /\ r = mailed.recorded + late
    BY DEF RInv, Mailed, MailTypes, Delivery!Resent
  <2>3. QED
    BY <2>1, <2>2, JobAssumption, ViewersCount DEF RInv
<1>2. rr + nn <= MaxResends + m - 1
  <2>1. CASE rr <= r /\ Mailing' \subseteq Mailing
    <3>1. nn <= n
      BY <1>1, <2>1, FS_Subset
    <3> HIDE DEF m, n, nn, r, rr
    <3>2. QED
      BY <1>1, <2>1, <3>1
  <2>2. ASSUME NEW h \in Mailing, rr = r + 1, Mailing' = Mailing \ {h}
        PROVE  rr + nn <= MaxResends + m - 1
    <3>1. nn = n - 1
      BY <1>1, <2>2, FS_RemoveElement
    <3> HIDE DEF m, n, nn, r, rr
    <3>2. QED
      BY <1>1, <2>2, <3>1
  <2>3. CASE r < MaxResends /\ rr = r
    <3> HIDE DEF m, n, nn, r, rr
    <3>1. QED
      BY <1>1, <2>3
  <2>4. QED
    BY <2>1, <2>2, <2>3 DEF Mailed, EventStep
<1>3. mailed'.lost <= lost' * m
  <2>1. mailed.lost \in Nat /\ mailed'.lost \in Nat /\ lost \in Nat /\ m \in Nat
        /\ mailed.lost <= lost * m
    BY <1>1 DEF RInv, Mailed, MailTypes, DInv, DeliveryTypes
  <2>2. \/ mailed'.lost <= mailed.lost /\ lost' = lost
        \/ mailed'.lost <= mailed.lost + m /\ lost' = lost + 1
    BY DEF Mailed, LossStep
  <2> HIDE DEF m
  <2>3. (lost + 1) * m = lost * m + m /\ lost * m \in Nat
    BY <2>1
  <2>4. QED
    BY <2>1, <2>2, <2>3
<1>4. QED
  BY <1>2, <1>3 DEF RInv, Mailed, MailTypes, Delivery!Resent

LEMMA MailRequests ==
  ASSUME DInv, RInv, NEW h \in Handlers, Delivery!Request(h) \/ Delivery!Step(h)
  PROVE  Mailed
<1> USE DEF DInv, RInv, DeliveryTypes, Mailed, MailTypes, EventStep, LossStep, Mailing,
            Delivery!Resent, Delivery!Idle, Delivery!resends, Delivery!events, Delivery!history
<1> USE BecameRequest
<1>0. Cardinality(Handlers) \in Nat \ {0}
  BY OthersType
<1>1. CASE Delivery!Resend(h)
  BY <1>1 DEF Delivery!Resend, Delivery!MayResend
<1>2. CASE Delivery!MailLinks(h)
  BY <1>2 DEF Delivery!MailLinks
<1>3. CASE Delivery!RecordResend(h)
  BY <1>3 DEF Delivery!RecordResend
<1>4. CASE Delivery!RecordFails(h)
  <2>1. /\ mailed'.recorded = mailed.recorded /\ mailed'.lost \in {mailed.lost, mailed.lost + 1}
        /\ MailTypes' /\ lost' = lost + 1 /\ late' = late
    BY <1>4 DEF Delivery!RecordFails, Delivery!Fault
  <2>2. LossStep
    <3> DEFINE m == Cardinality(Handlers)
    <3>1. m \in Nat \ {0}
      BY <1>0
    <3> HIDE DEF m
    <3>2. mailed'.lost <= mailed.lost + m
      BY <2>1, <3>1
    <3>3. QED
      BY <2>1, <3>2 DEF m
  <2>3. Mailing' \subseteq Mailing
    BY <1>4 DEF Delivery!RecordFails
  <2>4. EventStep
    BY <2>1, <2>3
  <2>5. QED
    BY <2>1, <2>2, <2>4
<1>5. CASE Delivery!Preview(h)
  BY <1>5 DEF Delivery!Preview
<1>6. CASE Delivery!CountViews(h)
  BY <1>6 DEF Delivery!CountViews
<1>7. CASE Delivery!RecordView(h)
  BY <1>7 DEF Delivery!RecordView
<1>8. ASSUME NEW to \in BOOLEAN, Delivery!SetLinks(h, to)
      PROVE  Mailed
  BY <1>8 DEF Delivery!SetLinks
<1>9. CASE Delivery!SetLinksDisabled(h)
  BY <1>9 DEF Delivery!SetLinksDisabled
<1>10. CASE Delivery!RecordSwitch(h)
  BY <1>0, <1>10 DEF Delivery!RecordSwitch, Delivery!Fault
<1>11. QED
  BY <1>1, <1>2, <1>3, <1>4, <1>5, <1>6, <1>7, <1>8, <1>9, <1>10
  DEF Delivery!Request, Delivery!Step

LEMMA MailOthers ==
  ASSUME DInv, RInv,
         \/ Delivery!AgeMail \/ Delivery!AgeResent \/ Delivery!AgeView \/ Delivery!Crash
         \/ UNCHANGED deliveryVars
  PROVE  Mailed
<1> USE DEF DInv, RInv, DeliveryTypes, Mailed, MailTypes, EventStep, LossStep, Mailing,
            Delivery!Resent, Delivery!Idle, Delivery!resends, Delivery!events, Delivery!history
<1>1. CASE Delivery!AgeMail
  <2>1. MailTypes' /\ LossStep /\ Delivery!Resent' = Delivery!Resent
    BY <1>1 DEF Delivery!AgeMail
  <2>2. CASE UNCHANGED request
    BY <2>1, <2>2
  <2>3. ASSUME NEW h \in Delivery!OnTheWay, Delivery!Become(h, [request[h] EXCEPT !.fresh = FALSE])
        PROVE  Mailed
    <3>1. h \in Handlers /\ request[h] \in [at : {"record"}, fresh : BOOLEAN]
      BY DEF Delivery!OnTheWay
    <3>2. [request[h] EXCEPT !.fresh = FALSE].at = "record"
      BY <3>1
    <3>3. Mailing' = Mailing
      BY <2>3, <3>1, <3>2, BecameRequest
    <3>4. QED
      BY <2>1, <3>3
  <2>4. QED
    BY <1>1, <2>2, <2>3 DEF Delivery!AgeMail
<1>2. CASE Delivery!AgeResent
  BY <1>2 DEF Delivery!AgeResent
<1>3. CASE Delivery!AgeView
  BY <1>3 DEF Delivery!AgeView
<1>4. CASE Delivery!Crash
  <2> DEFINE k == Delivery!Cardinality(Delivery!OnTheWay)
  <2>1. k \in Nat /\ k <= Cardinality(Handlers)
    <3>1. k = Cardinality(Delivery!OnTheWay)
      BY DEF Delivery!Cardinality, Cardinality
    <3>2. Delivery!OnTheWay \in SUBSET Handlers
      BY DEF Delivery!OnTheWay
    <3>3. QED
      BY <3>1, <3>2, ViewersCount
  <2>2. /\ mailed' = [mailed EXCEPT !.lost = @ + k] /\ lost' = lost + 1 /\ UNCHANGED late
        /\ \A h \in Handlers : request'[h].at = "idle"
    BY <1>4 DEF Delivery!Crash, Delivery!Fault
  <2> HIDE DEF k
  <2>3. Cardinality(Handlers) \in Nat
    BY OthersType
  <2> DEFINE n == Cardinality(Handlers)
  <2>4. k \in Nat /\ n \in Nat /\ k <= n
    BY <2>1, <2>3
  <2> HIDE DEF n
  <2>5. /\ MailTypes' /\ mailed'.lost = mailed.lost + k /\ mailed.lost \in Nat
        /\ Delivery!Resent' = Delivery!Resent
    BY <2>2, <2>4
  <2>6. Mailing' \subseteq Mailing
    BY <2>2
  <2>7. EventStep
    <3>1. Delivery!Resent \in Nat
      OBVIOUS
    <3>2. QED
      BY <2>5, <2>6, <3>1
  <2>8. LossStep
    <3>1. mailed'.lost <= mailed.lost + n
      BY <2>4, <2>5
    <3>2. QED
      BY <2>2, <3>1 DEF n
  <2>9. QED
    BY <2>5, <2>7, <2>8
<1>5. CASE UNCHANGED deliveryVars
  BY <1>5 DEF deliveryVars
<1>6. QED
  BY <1>1, <1>2, <1>3, <1>4, <1>5

LEMMA MailInit ==
  ASSUME Delivery!Init
  PROVE  RInv
<1>1. /\ mailed = [recorded |-> 0, lost |-> 0] /\ late = 0 /\ lost = 0
      /\ \A h \in Handlers : request[h].at = "idle"
  BY DEF Delivery!Init, Delivery!Idle
<1>2. Cardinality(Mailing) = 0
  BY <1>1, FS_EmptySet DEF Mailing
<1>3. QED
  BY <1>1, <1>2, OthersType, JobAssumption DEF RInv

LEMMA MailNext ==
  ASSUME DInv, RInv, [JobNext]_allVars
  PROVE  RInv'
<1>1. Delivery!Next \/ UNCHANGED deliveryVars
  BY DEF JobNext, allVars
<1>2. QED
  BY <1>1, MailRequests, MailOthers, MailsStay DEF Delivery!Next

(* In every reachable state the requests that have read a limit have room: *)
(* in the jobs of a day, in the quota, and in the mails of an hour.        *)
THEOREM LimitInvariance == JobSpec => [](LInv /\ RInv)
<1>1. JobInit => LInv /\ RInv
  BY LimitInit, MailInit DEF JobInit
<1>2. MInv /\ MInv' /\ DInv /\ LInv /\ RInv /\ [JobNext]_allVars => (LInv /\ RInv)'
  BY LimitNext, MailNext
<1>3. QED
  BY <1>1, <1>2, MediaInvariance, DeliveryInvariance, PTL DEF JobSpec

(* LimitsHold: with any number of requests the jobs of a day and the mails *)
(* of an hour pass their limit by no more than the other requests, and the *)
(* originals of an account its quota by no more than a file of each        *)
(* (job/service.go Create, share/operator.go Resend).                      *)
THEOREM LimitsAreKept == JobSpec => []LimitsHold
<1>1. ASSUME MInv, LInv
      PROVE  Media!DailyLimit /\ Media!Quota
  <2>1. \A S : Media!Cardinality(S) = Cardinality(S)
    BY DEF Media!Cardinality, Cardinality
  <2>2. Media!DailyLimit
    <3> DEFINE m == Cardinality(Handlers)
               n == Cardinality(Inserting)
               r == Cardinality(recent)
    <3>1. m \in Nat /\ n \in Nat /\ r \in Nat /\ JobsPerDay \in Nat /\ n + r <= JobsPerDay + m - 1
      BY <1>1, JobAssumption, ViewersCount, FS_CardinalityType DEF LInv, LimitTypes, Inserting
    <3> HIDE DEF m, n, r
    <3>2. r <= JobsPerDay + m - 1
      BY <3>1
    <3>3. QED
      BY <2>1, <3>2 DEF Media!DailyLimit, m, r
  <2>3. Originals <= StorageQuota + Others
    <3>1. Originals \in Nat
      BY <1>1, UsageCovers DEF MInv, MediaTypes, LInv, LimitTypes
    <3>2. Claimants \in SUBSET Handlers /\ Ledger(Originals, Claimants, Claims)
      BY <1>1 DEF Claimants, LInv
    <3>3. \A h \in Claimants : Claims[h] \in Int /\ Claims[h] <= StorageQuota
      BY <1>1, ClaimTypes DEF LInv
    <3>4. QED
      BY <3>1, <3>2, <3>3, LedgerBounds
  <2>4. Media!Quota
    BY <2>1, <2>3 DEF Media!Quota, Originals, OriginalKeys, Others
  <2>5. QED
    BY <2>2, <2>4
<1>2. ASSUME DInv, RInv
      PROVE  Delivery!ResendLimit
  <2> DEFINE m == Cardinality(Handlers)
             n == Cardinality(Mailing)
             k == Cardinality(Delivery!OnTheWay)
  <2>1. /\ m \in Nat /\ n \in Nat /\ k \in Nat /\ MaxResends \in Nat
        /\ k <= n
    <3>1. /\ Delivery!OnTheWay \in SUBSET Handlers /\ Mailing \in SUBSET Handlers
          /\ Delivery!OnTheWay \in SUBSET Mailing
      BY DEF Delivery!OnTheWay, Mailing
    <3>2. QED
      BY <3>1, JobAssumption, ViewersCount, FS_Subset
  <2>2. /\ mailed.recorded \in Nat /\ mailed.lost \in Nat /\ late \in Nat /\ lost \in Nat
        /\ mailed.recorded + late + n <= MaxResends + m - 1
        /\ mailed.lost <= lost * m
    BY <1>2 DEF DInv, DeliveryTypes, RInv
  <2>3. \A S : Delivery!Cardinality(S) = Cardinality(S)
    BY DEF Delivery!Cardinality, Cardinality
  <2> HIDE DEF m, n, k
  <2>4. mailed.recorded + mailed.lost + k <= MaxResends + (m - 1) + lost * m
    <3>1. lost * m \in Nat
      BY <2>1, <2>2
    <3>2. QED
      BY <2>1, <2>2, <3>1
  <2>5. QED
    BY <2>3, <2>4 DEF Delivery!ResendLimit, Delivery!FreshMails, m, k
<1>3. MInv /\ DInv /\ LInv /\ RInv => LimitsHold
  BY <1>1, <1>2 DEF LimitsHold
<1>4. QED
  BY <1>3, MediaInvariance, DeliveryInvariance, LimitInvariance, PTL
-----------------------------------------------------------------------------
(* The look of a preview.  While ffprobe's streams are read, the picture is*)
(* that of the widest of the streams that count.                           *)

Wide(S) == {Watermark!Rotated(s).w : s \in S}

Seen == {streams[i] : i \in DOMAIN streams}
Real == {s \in Seen : ~s.cover}

(* Cover art counts in a file with nothing else.                           *)
Counting == IF Real # {} THEN Real ELSE Seen

Greatest(n, S) == n \in S /\ \A m \in S : m <= n

PInv ==
  /\ stage \in {"probe", "style"}
  /\ streams \in Seq(Watermark!Streams) /\ Len(streams) <= 2
  /\ picture \in [w : Nat, h : Nat, real : BOOLEAN]
  /\ stage = "style" => streams = <<>>
  /\ stage = "probe" =>
       /\ picture.real <=> Real # {}
       /\ streams = <<>> => picture.w = 0
       /\ streams # <<>> => Greatest(picture.w, Wide(Counting))

LEMMA StreamTypes ==
  ASSUME NEW s \in Watermark!Streams
  PROVE  /\ s \in [w : Nat, h : Nat, cover : BOOLEAN, turned : BOOLEAN]
         /\ Watermark!Rotated(s).w \in Nat /\ Watermark!Rotated(s).h \in Nat
         /\ Watermark!Rotated(s).cover = s.cover
<1>1. \A d \in StreamSizes : d[1] \in Nat /\ d[2] \in Nat
  BY DEF StreamSizes
<1>2. PICK d \in StreamSizes, cover \in BOOLEAN, turned \in BOOLEAN :
        s = [w |-> d[1], h |-> d[2], cover |-> cover, turned |-> turned]
  BY DEF Watermark!Streams
<1>3. s \in [w : Nat, h : Nat, cover : BOOLEAN, turned : BOOLEAN]
  BY <1>1, <1>2
<1>4. QED
  BY <1>3 DEF Watermark!Rotated

LEMMA SeenMore ==
  ASSUME streams \in Seq(Watermark!Streams), NEW s \in Watermark!Streams,
         streams' = Append(streams, s)
  PROVE  /\ streams' \in Seq(Watermark!Streams) /\ streams' # <<>>
         /\ Len(streams') = Len(streams) + 1
         /\ Seen' = Seen \cup {s}
         /\ streams = <<>> <=> Seen = {}
         /\ Seen \subseteq Watermark!Streams
<1> DEFINE n == Len(streams) + 1
<1>1. /\ streams' \in Seq(Watermark!Streams) /\ streams' # <<>>
      /\ Len(streams') = n
      /\ DOMAIN streams' = DOMAIN streams \cup {n}
      /\ streams'[n] = s /\ \A i \in DOMAIN streams : streams'[i] = streams[i]
  OBVIOUS
<1>2. /\ streams = <<>> <=> Seen = {}
      /\ Seen \subseteq Watermark!Streams
  BY DEF Seen
<1> HIDE DEF n
<1>3. Seen' = Seen \cup {s}
  BY <1>1 DEF Seen
<1>4. QED
  BY <1>1, <1>2, <1>3 DEF n

LEMMA PictureReads ==
  ASSUME PInv, NEW s \in Watermark!Streams, Watermark!ReadStream(s)
  PROVE  PInv'
<1> DEFINE r == Watermark!Rotated(s)
           w == picture.w
<1>1. /\ stage = "probe" /\ stage' = "probe" /\ Len(streams) < 2
      /\ streams' = Append(streams, s)
      /\ picture' = IF (~r.cover /\ ~picture.real) \/ (r.w > w /\ ~(r.cover /\ picture.real))
                    THEN [w |-> r.w, h |-> r.h, real |-> ~s.cover]
                    ELSE picture
  BY DEF Watermark!ReadStream, Watermark!Beats, PInv
<1>2. /\ streams' \in Seq(Watermark!Streams) /\ streams' # <<>>
      /\ Len(streams') = Len(streams) + 1
      /\ Seen' = Seen \cup {s}
      /\ streams = <<>> <=> Seen = {}
      /\ Seen \subseteq Watermark!Streams
  BY <1>1, SeenMore DEF PInv
<1>3. r.w \in Nat /\ r.h \in Nat /\ r.cover = s.cover /\ s.cover \in BOOLEAN
  BY StreamTypes
<1>4. picture \in [w : Nat, h : Nat, real : BOOLEAN] /\ w \in Nat
  BY DEF PInv
<1>5. picture' \in [w : Nat, h : Nat, real : BOOLEAN]
  BY <1>1, <1>3, <1>4
<1>6. Real' = IF s.cover THEN Real ELSE Real \cup {s}
  BY <1>2 DEF Real
<1>7. Wide(Seen') = Wide(Seen) \cup {r.w} /\ (~s.cover => Wide(Real') = Wide(Real) \cup {r.w})
  BY <1>2, <1>6 DEF Wide
<1>8. Wide(Seen) \subseteq Nat /\ Wide(Real) \subseteq Nat
  BY <1>2, StreamTypes DEF Wide, Real
<1>9. /\ picture.real <=> Real # {}
      /\ Seen = {} => w = 0 /\ Real = {}
      /\ Seen # {} => Greatest(w, Wide(Counting))
  BY <1>1, <1>2 DEF PInv, Real
<1>10. /\ picture'.real <=> Real' # {}
       /\ Greatest(picture'.w, Wide(Counting)')
  <2> HIDE DEF r
  <2>1. CASE s.cover /\ Real # {}
    <3>1. Real' = Real /\ picture' = picture /\ Counting' = Real /\ Counting = Real /\ Seen # {}
      BY <1>1, <1>3, <1>6, <1>9, <2>1 DEF Counting, Real
    <3>2. QED
      BY <1>9, <2>1, <3>1 DEF Wide
  <2>2. CASE s.cover /\ Real = {}
    <3>1. Real' = {} /\ ~picture.real /\ Counting' = Seen' /\ Counting = Seen
      BY <1>6, <1>9, <2>2 DEF Counting
    <3>2. /\ ~picture'.real
          /\ picture'.w = IF r.w > w THEN r.w ELSE w
      BY <1>1, <1>3, <1>4, <2>2, <3>1
    <3>3. Wide(Counting)' = Wide(Seen) \cup {r.w}
      BY <1>7, <3>1 DEF Wide
    <3>4. CASE Seen = {}
      BY <1>3, <1>9, <3>1, <3>2, <3>3, <3>4 DEF Greatest, Wide
    <3>5. CASE Seen # {}
      BY <1>3, <1>4, <1>8, <1>9, <3>1, <3>2, <3>3, <3>5 DEF Greatest
    <3>6. QED
      BY <3>1, <3>2, <3>4, <3>5
  <2>3. CASE ~s.cover /\ Real = {}
    <3>1. Real' = {s} /\ ~picture.real /\ Counting' = {s}
      BY <1>6, <1>9, <2>3 DEF Counting
    <3>2. picture'.real /\ picture'.w = r.w
      BY <1>1, <1>3, <2>3, <3>1
    <3>3. Wide(Counting)' = {r.w}
      BY <1>7, <2>3, <3>1 DEF Wide, r
    <3>4. QED
      BY <1>3, <3>1, <3>2, <3>3 DEF Greatest
  <2>4. CASE ~s.cover /\ Real # {}
    <3>1. Real' # {} /\ picture.real /\ Counting' = Real' /\ Counting = Real /\ Seen # {}
      BY <1>6, <1>9, <2>4 DEF Counting, Real
    <3>2. picture'.real /\ picture'.w = IF r.w > w THEN r.w ELSE w
      BY <1>1, <1>3, <1>4, <2>4, <3>1
    <3>3. Wide(Counting)' = Wide(Real) \cup {r.w}
      BY <1>7, <2>4, <3>1 DEF Wide
    <3>4. QED
      BY <1>3, <1>4, <1>8, <1>9, <3>1, <3>2, <3>3 DEF Greatest
  <2>5. QED
    BY <1>3, <2>1, <2>2, <2>3, <2>4
<1>11. Len(streams') <= 2
  BY <1>1, <1>2 DEF PInv
<1>12. QED
  BY <1>1, <1>2, <1>5, <1>10, <1>11 DEF PInv

LEMMA PictureNext ==
  ASSUME PInv, [JobNext]_allVars
  PROVE  PInv'
<1>1. Watermark!Next \/ UNCHANGED watermarkVars
  BY DEF JobNext, allVars
<1>2. CASE Watermark!EndProbe
  <2>1. /\ stage' = "style" /\ streams' = <<>> /\ picture' = [picture EXCEPT !.real = FALSE]
        /\ picture \in [w : Nat, h : Nat, real : BOOLEAN]
    BY <1>2 DEF Watermark!EndProbe, PInv
  <2>2. streams' \in Seq(Watermark!Streams) /\ Len(streams') <= 2
    BY <2>1
  <2>3. picture' \in [w : Nat, h : Nat, real : BOOLEAN]
    BY <2>1
  <2>4. QED
    BY <2>1, <2>2, <2>3 DEF PInv
<1>3. CASE UNCHANGED <<stage, streams, picture>>
  BY <1>3 DEF PInv, Real, Seen, Counting, Wide
<1>4. ASSUME NEW j \in Watermark!Requests, Watermark!Watermark(j)
      PROVE  PInv'
  BY <1>3, <1>4 DEF Watermark!Watermark
<1>5. CASE UNCHANGED watermarkVars
  BY <1>3, <1>5 DEF watermarkVars
<1>6. QED
  BY <1>1, <1>2, <1>4, <1>5, PictureReads DEF Watermark!Next

LEMMA PictureInit ==
  ASSUME Watermark!Init
  PROVE  PInv
  BY DEF Watermark!Init, PInv, Real, Seen

(* In every reachable state the picture is the greatest of the streams read*)
(* that count.                                                             *)
THEOREM PictureInvariance == JobSpec => []PInv
<1>1. JobInit => PInv
  BY PictureInit DEF JobInit
<1>2. PInv /\ [JobNext]_allVars => PInv'
  BY PictureNext
<1>3. QED
  BY <1>1, <1>2, PTL DEF JobSpec

(* PictureSize: in whatever order ffprobe lists the streams of a file, the *)
(* size is that of its widest picture, as it is shown, and of cover art    *)
(* only in a file with no other (ffmpeg/main.go:113).                      *)
THEOREM PictureIsMeasured == JobSpec => []PictureSize
<1>1. ASSUME PInv
      PROVE  PictureSize
  <2> SUFFICES ASSUME streams # <<>>
               PROVE  picture.w = IF Wide(Real) # {} THEN Watermark!Max(Wide(Real))
                                  ELSE Watermark!Max(Wide(Seen))
    <3>1. Seen \subseteq Watermark!Streams
      BY <1>1 DEF PInv, Seen
    <3>2. /\ Real = {x \in Watermark!ToSet(streams) : x \in {y \in Watermark!Streams : ~y.cover}}
          /\ Seen = {x \in Watermark!ToSet(streams) : x \in Watermark!Streams}
      BY <3>1 DEF Real, Seen, Watermark!ToSet
    <3>3. QED
      BY <3>2 DEF PictureSize, Watermark!PictureSize, Wide
  <2>1. Greatest(picture.w, Wide(Counting)) /\ picture.w \in Nat
    BY <1>1 DEF PInv
  <2>2. Wide(Counting) \subseteq Nat
    <3>1. Seen \subseteq Watermark!Streams
      BY <1>1 DEF PInv, Seen
    <3>2. Counting \subseteq Watermark!Streams
      BY <3>1 DEF Counting, Real
    <3>3. QED
      BY <3>2, StreamTypes DEF Wide
  <2>3. Watermark!Max(Wide(Counting)) = picture.w
    <3> DEFINE S == Wide(Counting)
               w == picture.w
    <3>1. w \in S /\ (\A y \in S : w >= y) /\ S \subseteq Nat
      BY <2>1, <2>2 DEF Greatest
    <3> HIDE DEF S, w
    <3>2. ASSUME NEW x \in S, \A y \in S : x >= y
          PROVE  x = w
      <4>1. x >= w /\ w >= x /\ x \in Nat /\ w \in Nat
        BY <3>1, <3>2
      <4>2. QED
        BY <4>1
    <3>3. QED
      BY <3>1, <3>2 DEF Watermark!Max, S, w
  <2>4. Wide(Real) # {} <=> Real # {}
    BY DEF Wide
  <2>5. QED
    BY <2>3, <2>4 DEF Counting
<1>2. QED
  BY <1>1, PictureInvariance, PTL
-----------------------------------------------------------------------------
(* The text of a preview: its pieces are added up, and dropped, in order.  *)

Pieces == {"company", "recipient", "date", "sep", "words"}

Latest(n) == [s \in SUBSET (1..n) |-> Watermark!Max(s)]

LEMMA LatestPicks ==
  ASSUME NEW n \in Nat
  PROVE  /\ IsFiniteSet(1..n) /\ Picks(Latest(n), 1..n)
         /\ \A s \in SUBSET (1..n) : Latest(n)[s] = Watermark!Max(s)
<1>1. IsFiniteSet(1..n)
  BY FS_Interval
<1>2. ASSUME NEW s \in SUBSET (1..n), s # {}
      PROVE  Watermark!Max(s) \in s
  <2>1. s \in SUBSET (0..n)
    OBVIOUS
  <2>2. \E x \in s : \A y \in s : x >= y
    BY <1>2, <2>1, LastOne
  <2>3. QED
    BY <2>2 DEF Watermark!Max
<1>3. QED
  BY <1>1, <1>2 DEF Picks, Latest

LEMMA Upto ==
  ASSUME NEW n \in Nat, NEW i \in 1..n
  PROVE  /\ 1..i \in SUBSET (1..n) /\ 1..i # {} /\ i - 1 \in 0..n
         /\ Watermark!Max(1..i) = i /\ (1..i) \ {i} = 1..(i - 1)
<1>1. 1..i \in SUBSET (1..n) /\ 1..i # {} /\ i - 1 \in 0..n /\ (1..i) \ {i} = 1..(i - 1)
  OBVIOUS
<1>2. ASSUME NEW x \in 1..i, \A y \in 1..i : x >= y
      PROVE  x = i
  <2>1. x >= i /\ x <= i
    BY <1>2
  <2>2. QED
    BY <2>1
<1>3. i \in 1..i /\ \A y \in 1..i : i >= y
  OBVIOUS
<1>4. Watermark!Max(1..i) = i
  BY <1>2, <1>3 DEF Watermark!Max
<1>5. QED
  BY <1>1, <1>4

(* Total adds up the pieces from the first to the last.                    *)
LEMMA TotalGrows ==
  ASSUME NEW t \in Seq(Pieces), NEW c \in Nat, NEW r \in Nat
  PROVE  \E sum \in [0..Len(t) -> Nat] :
           /\ sum[0] = 0
           /\ \A i \in 1..Len(t) : sum[i] = sum[i - 1] + Watermark!Runes(t[i], c, r)
           /\ Watermark!Total(t, c, r) = sum[Len(t)]
<1> DEFINE n == Len(t)
           P(f) == f = [s \in SUBSET (1..n) |->
                     IF s = {} THEN 0
                     ELSE LET x == Watermark!Max(s) IN f[s \ {x}] + Watermark!Runes(t[x], c, r)]
           f == CHOOSE g : P(g)
<1>1. n \in Nat /\ DOMAIN t = 1..n /\ \A i \in 1..n : t[i] \in Pieces
  OBVIOUS
<1>2. Watermark!Total(t, c, r) = f[1..n]
  BY <1>1 DEF Watermark!Total, Watermark!FoldLeft, Watermark!MapThenFoldSet
<1>3. \A i \in 1..n : Watermark!Runes(t[i], c, r) \in Nat
  BY <1>1 DEF Watermark!Runes, Pieces
<1> HIDE DEF n
<1>4. P(f)
  <2> DEFINE step == [x \in (1..n) \X Nat |-> x[2] + Watermark!Runes(t[x[1]], c, r)]
             g == FoldOf(Nat, 0, step, Latest(n), 1..n)
  <2>1. step \in [(1..n) \X Nat -> Nat]
    BY <1>3
  <2>2. ASSUME NEW i \in 1..n, NEW v \in Nat
        PROVE  step[<<i, v>>] = v + Watermark!Runes(t[i], c, r)
    OBVIOUS
  <2> HIDE DEF step
  <2>3. IsFold(Nat, 0, step, Latest(n), 1..n, g)
    BY <1>1, <2>1, LatestPicks, FoldExists
  <2> HIDE DEF g
  <2>4. ASSUME NEW s \in SUBSET (1..n)
        PROVE  g[s] = IF s = {} THEN 0
                      ELSE LET x == Watermark!Max(s) IN g[s \ {x}] + Watermark!Runes(t[x], c, r)
    <3>1. Follows(0, step, Latest(n), g, s)
      BY <2>3 DEF IsFold
    <3>2. ASSUME s # {}
          PROVE  Watermark!Max(s) \in 1..n /\ g[s \ {Watermark!Max(s)}] \in Nat
      BY <1>1, <2>3, <3>2, LatestPicks DEF Picks, IsFold
    <3>3. QED
      BY <1>1, <2>2, <3>1, <3>2, LatestPicks DEF Follows
  <2>5. g = [s \in SUBSET (1..n) |-> g[s]]
    BY <2>3 DEF IsFold
  <2>6. P(g)
    BY <2>4, <2>5
  <2>7. QED
    BY <2>6
<1> HIDE DEF f
<1> DEFINE sum == [i \in 0..n |-> f[1..i]]
<1>5. sum[0] = 0
  <2>1. {} \in SUBSET (1..n) /\ 1..0 = {} /\ 0 \in 0..n
    BY <1>1
  <2>2. f[{}] = 0
    BY <1>4, <2>1
  <2>3. QED
    BY <2>1, <2>2
<1>6. ASSUME NEW i \in 1..n
      PROVE  sum[i] = sum[i - 1] + Watermark!Runes(t[i], c, r)
  <2> DEFINE s == 1..i
  <2>1. f[s] = f[s \ {i}] + Watermark!Runes(t[i], c, r)
    <3>1. s \in SUBSET (1..n) /\ s # {} /\ Watermark!Max(s) = i
      BY <1>1, Upto
    <3> HIDE DEF s
    <3>2. QED
      BY <1>4, <3>1
  <2>2. i \in 0..n /\ i - 1 \in 0..n
    BY <1>1
  <2>3. QED
    BY <1>1, <2>1, <2>2, Upto
<1>7. sum[n] = f[1..n] /\ DOMAIN sum = 0..n
  BY <1>1
<1> HIDE DEF sum
<1>8. \A i \in 0..n : sum[i] \in Nat
  <2> DEFINE Good == {i \in 0..n : sum[i] \in Nat}
  <2>1. 0 \in Good
    BY <1>1, <1>5
  <2>2. \A i \in 1..n : i - 1 \in Good => i \in Good
    <3>1. SUFFICES ASSUME NEW i \in 1..n, sum[i - 1] \in Nat
                   PROVE  i \in Good
      OBVIOUS
    <3>2. sum[i] \in Nat /\ i \in 0..n
      <4>1. Watermark!Runes(t[i], c, r) \in Nat
        BY <1>3
      <4>2. QED
        BY <1>1, <1>6, <3>1, <4>1
    <3>3. QED
      BY <3>2
  <2> HIDE DEF Good
  <2>3. \A i \in 0..n : i \in Good
    BY <1>1, <2>1, <2>2, UpFrom
  <2>4. QED
    BY <2>3 DEF Good
<1>9. sum \in [0..n -> Nat]
  BY <1>7, <1>8 DEF sum
<1>10. QED
  BY <1>2, <1>5, <1>6, <1>7, <1>9 DEF n

(* Drop goes through the pieces from the first to the last.                *)
Taken(t, gone, i, v) == IF Watermark!Dropped(t, gone, i) THEN v ELSE Append(v, t[i])

LEMMA DropGrows ==
  ASSUME NEW t \in Seq(Pieces), NEW gone
  PROVE  \E left \in [0..Len(t) -> Seq(Pieces)] :
           /\ left[0] = <<>>
           /\ \A i \in 1..Len(t) : left[i] = Taken(t, gone, i, left[i - 1])
           /\ Watermark!Drop(t, gone) = left[Len(t)]
<1> DEFINE n == Len(t)
           V == Seq(Pieces)
           Takes(x, v) == Taken(t, gone, x, v)
           P(f) == f = [s \in SUBSET (1..n) |->
                     IF s = {} THEN <<>>
                     ELSE LET x == Watermark!Max(s) IN Takes(x, f[s \ {x}])]
           f == CHOOSE g : P(g)
<1>1. n \in Nat /\ DOMAIN t = 1..n /\ \A i \in 1..n : t[i] \in Pieces
  OBVIOUS
<1>2. Watermark!Drop(t, gone) = f[1..n]
  <2> DEFINE seq == [i \in DOMAIN t |-> i]
             Q(h) == h = [s \in SUBSET DOMAIN seq |->
                       IF s = {} THEN <<>>
                       ELSE LET x == Watermark!Max(s) IN Takes(seq[x], h[s \ {x}])]
  <2>1. Watermark!Drop(t, gone) = (CHOOSE g : Q(g))[DOMAIN seq]
    BY DEF Watermark!Drop, Watermark!FoldLeftDomain, Watermark!FoldLeft, Watermark!MapThenFoldSet,
           Taken
  <2>2. DOMAIN seq = 1..n /\ \A i \in 1..n : seq[i] = i
    BY <1>1
  <2> HIDE DEF seq, n, Takes
  <2>3. ASSUME NEW g PROVE P(g) <=> Q(g)
    <3>1. ASSUME NEW s \in SUBSET (1..n)
          PROVE  (IF s = {} THEN <<>>
                  ELSE LET x == Watermark!Max(s) IN Takes(x, g[s \ {x}]))
                 = (IF s = {} THEN <<>>
                    ELSE LET x == Watermark!Max(s) IN Takes(seq[x], g[s \ {x}]))
      <4>1. ASSUME s # {} PROVE seq[Watermark!Max(s)] = Watermark!Max(s)
        BY <1>1, <2>2, <4>1, LatestPicks DEF Picks
      <4>2. QED
        BY <4>1
    <3>2. QED
      BY <2>2, <3>1
  <2>4. (CHOOSE g : P(g)) = (CHOOSE g : Q(g))
    <3> HIDE DEF P, Q
    <3>1. QED
      BY <2>3
  <2>5. QED
    BY <2>1, <2>2, <2>4
<1>3. ASSUME NEW x \in 1..n, NEW v \in V
      PROVE  Takes(x, v) \in V
  <2>1. Append(v, t[x]) \in V
    BY <1>1, <1>3
  <2>2. QED
    BY <1>3, <2>1 DEF Taken
<1> HIDE DEF n, Takes
<1>4. P(f)
  <2> DEFINE step == [x \in (1..n) \X V |-> Takes(x[1], x[2])]
             g == FoldOf(V, <<>>, step, Latest(n), 1..n)
  <2>1. step \in [(1..n) \X V -> V] /\ <<>> \in V
    BY <1>3
  <2>2. ASSUME NEW i \in 1..n, NEW v \in V
        PROVE  step[<<i, v>>] = Takes(i, v)
    OBVIOUS
  <2> HIDE DEF step, V
  <2>3. IsFold(V, <<>>, step, Latest(n), 1..n, g)
    BY <1>1, <2>1, LatestPicks, FoldExists
  <2> HIDE DEF g
  <2>4. ASSUME NEW s \in SUBSET (1..n)
        PROVE  g[s] = IF s = {} THEN <<>>
                      ELSE LET x == Watermark!Max(s) IN Takes(x, g[s \ {x}])
    <3>1. Follows(<<>>, step, Latest(n), g, s)
      BY <2>3 DEF IsFold
    <3>2. ASSUME s # {}
          PROVE  Watermark!Max(s) \in 1..n /\ g[s \ {Watermark!Max(s)}] \in V
      BY <1>1, <2>3, <3>2, LatestPicks DEF Picks, IsFold
    <3>3. QED
      BY <1>1, <2>2, <3>1, <3>2, LatestPicks DEF Follows
  <2>5. g = [s \in SUBSET (1..n) |-> g[s]]
    BY <2>3 DEF IsFold
  <2>6. P(g)
    BY <2>4, <2>5
  <2>7. QED
    BY <2>6
<1> HIDE DEF f
<1> DEFINE left == [i \in 0..n |-> f[1..i]]
<1>5. left[0] = <<>>
  <2>1. {} \in SUBSET (1..n) /\ 1..0 = {} /\ 0 \in 0..n
    BY <1>1
  <2>2. f[{}] = <<>>
    BY <1>4, <2>1
  <2>3. QED
    BY <2>1, <2>2
<1>6. ASSUME NEW i \in 1..n
      PROVE  left[i] = Takes(i, left[i - 1])
  <2> DEFINE s == 1..i
  <2>1. f[s] = Takes(i, f[s \ {i}])
    <3>1. s \in SUBSET (1..n) /\ s # {} /\ Watermark!Max(s) = i
      BY <1>1, Upto
    <3> HIDE DEF s
    <3>2. QED
      BY <1>4, <3>1
  <2>2. i \in 0..n /\ i - 1 \in 0..n
    BY <1>1
  <2>3. QED
    BY <1>1, <2>1, <2>2, Upto
<1>7. left[n] = f[1..n] /\ DOMAIN left = 0..n
  BY <1>1
<1> HIDE DEF left, V
<1>8. \A i \in 0..n : left[i] \in V
  <2> DEFINE Good == {i \in 0..n : left[i] \in V}
  <2>1. 0 \in Good
    <3>1. left[0] \in V
      BY <1>5 DEF V
    <3>2. QED
      BY <1>1, <3>1
  <2>2. \A i \in 1..n : i - 1 \in Good => i \in Good
    <3>1. SUFFICES ASSUME NEW i \in 1..n, left[i - 1] \in V
                   PROVE  i \in Good
      OBVIOUS
    <3>2. left[i] \in V /\ i \in 0..n
      BY <1>1, <1>3, <1>6, <3>1
    <3>3. QED
      BY <3>2
  <2> HIDE DEF Good
  <2>3. \A i \in 0..n : i \in Good
    BY <1>1, <2>1, <2>2, UpFrom
  <2>4. QED
    BY <2>3 DEF Good
<1>9. left \in [0..n -> V]
  BY <1>7, <1>8 DEF left
<1>10. QED
  BY <1>2, <1>5, <1>6, <1>7, <1>9 DEF n, V, Takes

(* A text that is one piece longer.                                        *)
LEMMA TotalMore ==
  ASSUME NEW t \in Seq(Pieces), NEW p \in Pieces, NEW c \in Nat, NEW r \in Nat
  PROVE  /\ Append(t, p) \in Seq(Pieces)
         /\ Watermark!Total(Append(t, p), c, r) = Watermark!Total(t, c, r) + Watermark!Runes(p, c, r)
<1> DEFINE u == Append(t, p)
           n == Len(t)
<1>1. u \in Seq(Pieces) /\ Len(u) = n + 1 /\ u[n + 1] = p /\ \A i \in 1..n : u[i] = t[i]
  OBVIOUS
<1>2. n \in Nat
  OBVIOUS
<1> HIDE DEF u, n
<1>3. PICK f \in [0..n -> Nat] :
        /\ f[0] = 0
        /\ \A i \in 1..n : f[i] = f[i - 1] + Watermark!Runes(t[i], c, r)
        /\ Watermark!Total(t, c, r) = f[n]
  BY TotalGrows DEF n
<1>4. PICK g \in [0..(n + 1) -> Nat] :
        /\ g[0] = 0
        /\ \A i \in 1..(n + 1) : g[i] = g[i - 1] + Watermark!Runes(u[i], c, r)
        /\ Watermark!Total(u, c, r) = g[n + 1]
  <2> DEFINE m == Len(u)
  <2>1. \E g \in [0..m -> Nat] :
          /\ g[0] = 0
          /\ \A i \in 1..m : g[i] = g[i - 1] + Watermark!Runes(u[i], c, r)
          /\ Watermark!Total(u, c, r) = g[m]
    BY <1>1, TotalGrows
  <2>2. m = n + 1
    BY <1>1
  <2> HIDE DEF m
  <2>3. QED
    BY <2>1, <2>2
<1> DEFINE Good == {i \in 0..n : f[i] = g[i]}
<1>5. 0 \in Good
  BY <1>2, <1>3, <1>4
<1>6. \A i \in 1..n : i - 1 \in Good => i \in Good
  <2>1. SUFFICES ASSUME NEW i \in 1..n, f[i - 1] = g[i - 1]
                 PROVE  i \in Good
    OBVIOUS
  <2>2. i \in 0..n /\ i \in 1..(n + 1)
    BY <1>2
  <2>3. f[i] = g[i]
    BY <1>1, <1>3, <1>4, <2>1, <2>2
  <2>4. QED
    BY <2>2, <2>3
<1> HIDE DEF Good
<1>7. n \in Good
  <2>1. \A i \in 0..n : i \in Good
    BY <1>2, <1>5, <1>6, UpFrom
  <2>2. QED
    BY <1>2, <2>1
<1>8. f[n] = g[n]
  BY <1>7 DEF Good
<1>9. g[n + 1] = g[n] + Watermark!Runes(u[n + 1], c, r)
  <2>1. n + 1 \in 1..(n + 1) /\ (n + 1) - 1 = n
    BY <1>2
  <2>2. QED
    BY <1>4, <2>1
<1>10. QED
  BY <1>1, <1>3, <1>4, <1>8, <1>9 DEF u

Has(t, piece) == \E i \in DOMAIN t : t[i] = piece

(* A text is as long as the recipient that it names, or longer; its start  *)
(* is no longer.                                                           *)
LEMMA TotalText ==
  ASSUME NEW t \in Seq(Pieces), NEW c \in Nat, NEW r \in Nat
  PROVE  /\ Watermark!Total(t, c, r) \in Nat
         /\ Has(t, "recipient") => Watermark!Total(t, c, r) >= r
<1> DEFINE n == Len(t)
<1>1. PICK sum \in [0..n -> Nat] :
        /\ sum[0] = 0
        /\ \A i \in 1..n : sum[i] = sum[i - 1] + Watermark!Runes(t[i], c, r)
        /\ Watermark!Total(t, c, r) = sum[n]
  BY TotalGrows
<1>2. n \in Nat /\ DOMAIN t = 1..n /\ \A i \in 1..n : t[i] \in Pieces
  OBVIOUS
<1>3. \A i \in 1..n : /\ Watermark!Runes(t[i], c, r) \in Nat
                      /\ t[i] = "recipient" => Watermark!Runes(t[i], c, r) = r
  BY <1>2 DEF Watermark!Runes, Pieces
<1> HIDE DEF n
<1> DEFINE Good == {i \in 0..n : (\E k \in 1..i : t[k] = "recipient") => sum[i] >= r}
<1>4. 0 \in Good
  BY <1>2
<1>5. \A i \in 1..n : i - 1 \in Good => i \in Good
  <2>1. SUFFICES ASSUME NEW i \in 1..n, i - 1 \in Good, NEW k \in 1..i, t[k] = "recipient"
                 PROVE  sum[i] >= r
    BY <1>2
  <2>2. /\ i - 1 \in 0..n /\ i \in 0..n
        /\ sum[i] \in Nat /\ sum[i - 1] \in Nat
    BY <1>2
  <2>3. CASE k = i
    BY <1>1, <1>3, <2>1, <2>2, <2>3
  <2>4. CASE k # i
    <3>1. k \in 1..(i - 1)
      BY <2>1, <2>4
    <3>2. sum[i - 1] >= r
      BY <2>1, <3>1
    <3>3. QED
      BY <1>1, <1>3, <2>2, <3>2
  <2>5. QED
    BY <2>3, <2>4
<1> HIDE DEF Good
<1>6. n \in Good
  <2>1. \A i \in 0..n : i \in Good
    BY <1>2, <1>4, <1>5, UpFrom
  <2>2. QED
    BY <1>2, <2>1
<1>7. (\E k \in 1..n : t[k] = "recipient") => sum[n] >= r
  BY <1>6 DEF Good
<1>8. sum[n] \in Nat
  BY <1>2
<1>9. QED
  BY <1>1, <1>2, <1>7, <1>8 DEF Has

(* The pieces that are left are of the text, without what was to go, and   *)
(* of the others only separators are gone.                                 *)
LEMMA DropText ==
  ASSUME NEW t \in Seq(Pieces), NEW gone \in {"company", "date"}
  PROVE  /\ Watermark!Drop(t, gone) \in Seq(Pieces)
         /\ \A p : Has(Watermark!Drop(t, gone), p) => Has(t, p) /\ p # gone
         /\ \A p : Has(t, p) /\ p \notin {gone, "sep"} => Has(Watermark!Drop(t, gone), p)
<1> DEFINE n == Len(t)
<1>1. PICK left \in [0..n -> Seq(Pieces)] :
        /\ left[0] = <<>>
        /\ \A i \in 1..n : left[i] = Taken(t, gone, i, left[i - 1])
        /\ Watermark!Drop(t, gone) = left[n]
  BY DropGrows
<1>2. n \in Nat /\ DOMAIN t = 1..n /\ \A i \in 1..n : t[i] \in Pieces
  OBVIOUS
<1> HIDE DEF n
<1> DEFINE Early(i, p) == \E k \in 1..i : t[k] = p
           Fits(i, p) == /\ Has(left[i], p) => Early(i, p) /\ p # gone
                         /\ Early(i, p) /\ p \notin {gone, "sep"} => Has(left[i], p)
           Good == {i \in 0..n : \A p : Fits(i, p)}
<1>3. 0 \in Good
  <2>1. \A p : ~Has(left[0], p) /\ ~Early(0, p)
    BY <1>1 DEF Has
  <2>2. 0 \in 0..n
    BY <1>2
  <2>3. QED
    BY <2>1, <2>2
<1>4. \A i \in 1..n : i - 1 \in Good => i \in Good
  <2>1. SUFFICES ASSUME NEW i \in 1..n, i - 1 \in Good, NEW p
                 PROVE  Fits(i, p)
    <3> HIDE DEF Fits
    <3>1. \A i \in 1..n : i \in 0..n
      BY <1>2
    <3>2. QED
      BY <3>1
  <2>2. i - 1 \in 0..n /\ left[i - 1] \in Seq(Pieces) /\ Fits(i - 1, p)
    BY <1>2, <2>1
  <2>3. Early(i, p) <=> Early(i - 1, p) \/ t[i] = p
    <3>1. 1..i = 1..(i - 1) \cup {i}
      BY <1>2
    <3>2. QED
      BY <3>1
  <2>4. Has(Append(left[i - 1], t[i]), p) <=> Has(left[i - 1], p) \/ t[i] = p
    <3> DEFINE v == left[i - 1]
               w == Append(v, t[i])
               k == Len(v) + 1
    <3>1. t[i] \in Pieces /\ v \in Seq(Pieces)
      BY <1>2, <2>2
    <3>2. /\ DOMAIN w = DOMAIN v \cup {k}
          /\ w[k] = t[i] /\ \A m \in DOMAIN v : w[m] = v[m]
      <4> HIDE DEF v
      <4>1. QED
        BY <3>1
    <3> HIDE DEF w, k, v
    <3>3. Has(w, p) <=> Has(v, p) \/ t[i] = p
      BY <3>2 DEF Has
    <3>4. QED
      BY <3>3 DEF w, v
  <2>5. CASE Watermark!Dropped(t, gone, i)
    <3>1. left[i] = left[i - 1] /\ t[i] \in {gone, "sep"}
      BY <1>1, <2>5 DEF Taken, Watermark!Dropped
    <3>2. QED
      BY <2>2, <2>3, <3>1
  <2>6. CASE ~Watermark!Dropped(t, gone, i)
    <3>1. left[i] = Append(left[i - 1], t[i]) /\ t[i] # gone
      BY <1>1, <2>6 DEF Taken, Watermark!Dropped
    <3>2. QED
      BY <2>2, <2>3, <2>4, <3>1
  <2>7. QED
    BY <2>5, <2>6
<1> HIDE DEF Good
<1>5. n \in Good
  <2>1. \A i \in 0..n : i \in Good
    BY <1>2, <1>3, <1>4, UpFrom
  <2>2. QED
    BY <1>2, <2>1
<1>6. \A p : Fits(n, p)
  BY <1>5 DEF Good
<1>7. left[n] \in Seq(Pieces)
  BY <1>2
<1>8. QED
  BY <1>1, <1>2, <1>6, <1>7 DEF Has

LEMMA TotalNone ==
  ASSUME NEW d \in Nat, NEW r \in Nat
  PROVE  Watermark!Total(<<>>, d, r) = 0
<1> DEFINE e == <<>>
           m == Len(e)
<1>1. e \in Seq(Pieces) /\ m = 0
  OBVIOUS
<1> HIDE DEF e
<1>2. PICK f \in [0..m -> Nat] :
        /\ f[0] = 0
        /\ \A i \in 1..m : f[i] = f[i - 1] + Watermark!Runes(e[i], d, r)
        /\ Watermark!Total(e, d, r) = f[m]
  BY <1>1, TotalGrows
<1>3. QED
  BY <1>1, <1>2 DEF e

(* A text is shorter for what it drops.                                    *)
LEMMA DropLess ==
  ASSUME NEW t \in Seq(Pieces), NEW gone \in {"company", "date"},
         NEW c \in Nat, NEW d \in Nat, d <= c, NEW r \in Nat
  PROVE  /\ Watermark!Total(Watermark!Drop(t, gone), d, r) <= Watermark!Total(t, c, r)
         /\ Has(t, gone) /\ (gone = "company" => c > 0) =>
              Watermark!Total(Watermark!Drop(t, gone), d, r) < Watermark!Total(t, c, r)
<1> DEFINE n == Len(t)
           Runes(p) == Watermark!Runes(p, c, r)
           Short(v) == Watermark!Total(v, d, r)
<1>1. PICK left \in [0..n -> Seq(Pieces)] :
        /\ left[0] = <<>>
        /\ \A i \in 1..n : left[i] = Taken(t, gone, i, left[i - 1])
        /\ Watermark!Drop(t, gone) = left[n]
  BY DropGrows
<1>2. PICK sum \in [0..n -> Nat] :
        /\ sum[0] = 0
        /\ \A i \in 1..n : sum[i] = sum[i - 1] + Watermark!Runes(t[i], c, r)
        /\ Watermark!Total(t, c, r) = sum[n]
  BY TotalGrows
<1>3. n \in Nat /\ DOMAIN t = 1..n /\ \A i \in 1..n : t[i] \in Pieces
  OBVIOUS
<1> HIDE DEF n
<1>4. ASSUME NEW p \in Pieces
      PROVE  /\ Runes(p) \in Nat /\ Watermark!Runes(p, d, r) \in Nat
             /\ Watermark!Runes(p, d, r) <= Runes(p)
             /\ p = gone /\ (gone = "company" => c > 0) => Runes(p) > 0
  BY <1>4 DEF Watermark!Runes, Pieces
<1>5. Short(<<>>) = 0
  BY TotalNone
<1> DEFINE Early(i) == \E k \in 1..i : t[k] = gone
           Weighs == gone = "company" => c > 0
           Good == {i \in 0..n : /\ Short(left[i]) <= sum[i]
                                 /\ Early(i) /\ Weighs => Short(left[i]) < sum[i]}
<1>6. 0 \in Good
  BY <1>1, <1>2, <1>3, <1>5
<1>7. \A i \in 1..n : i - 1 \in Good => i \in Good
  <2>1. SUFFICES ASSUME NEW i \in 1..n, i - 1 \in Good
                 PROVE  i \in Good
    OBVIOUS
  <2> DEFINE v == left[i - 1]
             a == Short(v)
             b == sum[i - 1]
             x == Runes(t[i])
             y == Watermark!Runes(t[i], d, r)
  <2>2. /\ i - 1 \in 0..n /\ i \in 0..n /\ v \in Seq(Pieces) /\ t[i] \in Pieces
        /\ b \in Nat /\ sum[i] = b + x
        /\ a <= b /\ (Early(i - 1) /\ Weighs => a < b)
    <3>1. i - 1 \in 0..n /\ i \in 0..n /\ t[i] \in Pieces
      BY <1>3
    <3>2. v \in Seq(Pieces) /\ b \in Nat
      BY <3>1
    <3>3. sum[i] = b + x
      BY <1>2
    <3>4. a <= b /\ (Early(i - 1) /\ Weighs => a < b)
      BY <2>1, Zenon
    <3>5. QED
      BY <3>1, <3>2, <3>3, <3>4
  <2>3. a \in Nat
    BY <2>2, TotalText
  <2>4. x \in Nat /\ y \in Nat /\ y <= x /\ (t[i] = gone /\ Weighs => x > 0)
    BY <1>4, <2>2
  <2>5. Early(i) <=> Early(i - 1) \/ t[i] = gone
    <3>1. 1..i = 1..(i - 1) \cup {i}
      BY <1>3
    <3>2. QED
      BY <3>1
  <2>6. CASE Watermark!Dropped(t, gone, i)
    <3>1. Short(left[i]) = a
      BY <1>1, <2>6 DEF Taken
    <3> HIDE DEF a, b, x, y, Early, Weighs, Short
    <3>2. Short(left[i]) <= sum[i] /\ (Early(i) /\ Weighs => Short(left[i]) < sum[i])
      BY <2>2, <2>3, <2>4, <2>5, <3>1
    <3>3. QED
      BY <2>2, <3>2
  <2>7. CASE ~Watermark!Dropped(t, gone, i)
    <3>1. left[i] = Append(v, t[i]) /\ t[i] # gone
      BY <1>1, <2>7 DEF Taken, Watermark!Dropped
    <3>2. Short(left[i]) = a + y
      BY <2>2, <3>1, TotalMore
    <3> HIDE DEF a, b, x, y, Early, Weighs, Short
    <3>3. Short(left[i]) <= sum[i] /\ (Early(i) /\ Weighs => Short(left[i]) < sum[i])
      BY <2>2, <2>3, <2>4, <2>5, <3>1, <3>2
    <3>4. QED
      BY <2>2, <3>3
  <2>8. QED
    BY <2>6, <2>7
<1> HIDE DEF Good
<1>8. n \in Good
  <2>1. \A i \in 0..n : i \in Good
    BY <1>3, <1>6, <1>7, UpFrom
  <2>2. QED
    BY <1>3, <2>1
<1>9. Short(left[n]) <= sum[n] /\ (Early(n) /\ Weighs => Short(left[n]) < sum[n])
  BY <1>8 DEF Good
<1>10. QED
  BY <1>1, <1>2, <1>3, <1>9 DEF Has

(* The templates are of those pieces, and name the recipient.              *)
LEMMA Templates ==
  ASSUME NEW t \in TextTemplates
  PROVE  t \in Seq(Pieces) /\ Has(t, "recipient")
<1>1. {"company", "recipient", "date", "sep", "words"} \subseteq Pieces
  BY DEF Pieces
<1>2. CASE t = <<"words", "recipient">>
  <2>1. t[2] = "recipient" /\ 2 \in DOMAIN t
    BY <1>2
  <2>2. QED
    BY <1>1, <1>2, <2>1 DEF Has
<1>3. CASE t = <<"recipient", "sep", "date">>
  <2>1. t[1] = "recipient" /\ 1 \in DOMAIN t
    BY <1>3
  <2>2. QED
    BY <1>1, <1>3, <2>1 DEF Has
<1>4. CASE t = <<"recipient", "sep", "recipient">>
  <2>1. t[1] = "recipient" /\ 1 \in DOMAIN t
    BY <1>4
  <2>2. QED
    BY <1>1, <1>4, <2>1 DEF Has
<1>5. CASE t = <<"company", "sep", "recipient", "sep", "date">>
  <2>1. t[3] = "recipient" /\ 3 \in DOMAIN t
    BY <1>5
  <2>2. QED
    BY <1>1, <1>5, <2>1 DEF Has
<1>6. CASE t = <<"date", "sep", "company", "sep", "recipient">>
  <2>1. t[5] = "recipient" /\ 5 \in DOMAIN t
    BY <1>6
  <2>2. QED
    BY <1>1, <1>6, <2>1 DEF Has
<1>7. QED
  BY <1>2, <1>3, <1>4, <1>5, <1>6 DEF TextTemplates

LEMMA StyleTypes ==
  ASSUME NEW j \in Watermark!Requests
  PROVE  /\ j.template \in TextTemplates
         /\ j.company \in Nat /\ j.blank \in Nat /\ j.recipient \in {20, 110, 210}
         /\ j.own \in {0, 200} /\ j.position \in Watermark!Positions
         /\ j.logo \in {<<400, 100>>, <<200, 400>>, <<0, 0>>} /\ j.scale \in {10, 50}
<1>1. PICK t \in TextTemplates, company \in {0, 2, 12, 80}, recipient \in {20, 110, 210}, own \in {0, 200},
           position \in Watermark!Positions, logo \in LogoSizes \cup {<<0, 0>>}, scale \in {10, 50} :
        j = [template |-> t, company |-> company, blank |-> IF company > 10 THEN 11 ELSE 0,
             recipient |-> recipient, own |-> own, position |-> position, logo |-> logo,
             scale |-> scale]
  BY DEF Watermark!Requests, Watermark!MaxTextRunes
<1>2. /\ j.template = t /\ j.company = company /\ j.recipient = recipient /\ j.own = own
      /\ j.blank = IF company > 10 THEN 11 ELSE 0
      /\ j.position = position /\ j.logo = logo /\ j.scale = scale
  BY <1>1
<1>3. QED
  BY <1>2 DEF LogoSizes

(* What is shown of a template.                                            *)
LEMMA ShownText ==
  ASSUME NEW t \in Seq(Pieces), Has(t, "recipient"), NEW company \in Nat, NEW date \in BOOLEAN
  PROVE  /\ Watermark!Shown(t, company, date) \in Seq(Pieces)
         /\ Has(Watermark!Shown(t, company, date), "recipient")
         /\ company = 0 => ~Has(Watermark!Shown(t, company, date), "company")
         /\ ~date => ~Has(Watermark!Shown(t, company, date), "date")
         /\ \A p : Has(Watermark!Shown(t, company, date), p) => Has(t, p)
         /\ \A c, r \in Nat : Watermark!Total(Watermark!Shown(t, company, date), c, r)
                                <= Watermark!Total(t, c, r)
<1> DEFINE named == IF company = 0 THEN Watermark!Drop(t, "company") ELSE t
           shown == Watermark!Shown(t, company, date)
<1>1. /\ named \in Seq(Pieces) /\ Has(named, "recipient")
      /\ company = 0 => ~Has(named, "company")
      /\ \A p : Has(named, p) => Has(t, p)
  <2>1. CASE company = 0
    BY <2>1, DropText
  <2>2. CASE company # 0
    BY <2>2
  <2>3. QED
    BY <2>1, <2>2
<1>2. \A c, r \in Nat : Watermark!Total(named, c, r) <= Watermark!Total(t, c, r)
  <2>1. SUFFICES ASSUME NEW c \in Nat, NEW r \in Nat
                 PROVE  Watermark!Total(named, c, r) <= Watermark!Total(t, c, r)
    OBVIOUS
  <2>2. Watermark!Total(t, c, r) \in Nat
    BY TotalText
  <2>3. Watermark!Total(Watermark!Drop(t, "company"), c, r) <= Watermark!Total(t, c, r)
    BY DropLess
  <2>4. QED
    BY <2>2, <2>3
<1>3. shown = IF date THEN named ELSE Watermark!Drop(named, "date")
  BY DEF Watermark!Shown
<1> HIDE DEF named, shown
<1>4. /\ shown \in Seq(Pieces) /\ Has(shown, "recipient")
      /\ company = 0 => ~Has(shown, "company")
      /\ ~date => ~Has(shown, "date")
      /\ \A p : Has(shown, p) => Has(t, p)
  <2>1. CASE date
    BY <1>1, <1>3, <2>1
  <2>2. CASE ~date
    BY <1>1, <1>3, <2>2, DropText
  <2>3. QED
    BY <2>1, <2>2
<1>5. ASSUME NEW c \in Nat, NEW r \in Nat
      PROVE  Watermark!Total(shown, c, r) <= Watermark!Total(t, c, r)
  <2>1. /\ Watermark!Total(t, c, r) \in Nat /\ Watermark!Total(named, c, r) \in Nat
        /\ Watermark!Total(shown, c, r) \in Nat
    BY <1>1, <1>4, TotalText
  <2>2. Watermark!Total(Watermark!Drop(named, "date"), c, r) <= Watermark!Total(named, c, r)
    BY <1>1, DropLess
  <2>3. Watermark!Total(named, c, r) <= Watermark!Total(t, c, r)
    BY <1>2
  <2>4. QED
    BY <1>3, <2>1, <2>2, <2>3
<1>6. QED
  BY <1>4, <1>5 DEF shown

LEMMA CutGrows ==
  ASSUME NEW b \in Nat, NEW n \in Nat, n >= 3, NEW m \in Nat, n <= m
  PROVE  /\ Watermark!Cut(n, b) \in Nat /\ Watermark!Cut(m, b) \in Nat
         /\ Watermark!Cut(n, b) <= Watermark!Cut(m, b)
  BY DEF Watermark!Cut, Watermark!Ellipsis

(* A text of so many characters of a company, with or without its date.    *)
Runed(j, company, date) == Watermark!Rendered(j.template, company, date, j.recipient)

LEMMA RunedText ==
  ASSUME NEW j \in Watermark!Requests, NEW company \in Nat, NEW date \in BOOLEAN
  PROVE  /\ Runed(j, company, date) \in Nat
         /\ j.recipient \in Nat /\ j.template \in Seq(Pieces) /\ Has(j.template, "recipient")
<1>1. j.recipient \in Nat /\ j.template \in Seq(Pieces) /\ Has(j.template, "recipient")
  <2>1. j.template \in TextTemplates /\ j.recipient \in {20, 110, 210}
    BY StyleTypes
  <2>2. j.recipient \in Nat
    BY <2>1
  <2>3. QED
    BY <2>1, <2>2, Templates
<1> DEFINE t == j.template
           r == j.recipient
           shown == Watermark!Shown(t, company, date)
<1>2. t \in Seq(Pieces) /\ Has(t, "recipient") /\ r \in Nat
  BY <1>1
<1> HIDE DEF t, r
<1>3. shown \in Seq(Pieces)
  BY <1>2, ShownText
<1> HIDE DEF shown
<1>4. Watermark!Total(shown, company, r) \in Nat
  BY <1>2, <1>3, TotalText
<1>5. QED
  BY <1>1, <1>4 DEF Runed, Watermark!Rendered, shown, t, r

(* A date that makes the text no longer is not in it; nor is a company.    *)
LEMMA DateTells ==
  ASSUME NEW j \in Watermark!Requests, NEW company \in Nat
  PROVE  /\ ~(Runed(j, company, FALSE) < Runed(j, company, TRUE)) =>
              ~Has(Watermark!Shown(j.template, company, TRUE), "date")
         /\ ~Has(Watermark!Shown(j.template, company, FALSE), "date")
<1> DEFINE t == j.template
           r == j.recipient
           long == Watermark!Shown(t, company, TRUE)
           short == Watermark!Shown(t, company, FALSE)
<1>1. t \in Seq(Pieces) /\ Has(t, "recipient") /\ r \in Nat
  BY RunedText
<1>2. Runed(j, company, TRUE) \in Nat /\ Runed(j, company, FALSE) \in Nat
  BY RunedText
<1>3. /\ Runed(j, company, TRUE) = Watermark!Total(long, company, r)
      /\ Runed(j, company, FALSE) = Watermark!Total(short, company, r)
  BY DEF Runed, Watermark!Rendered
<1>4. short = Watermark!Drop(long, "date")
  BY DEF Watermark!Shown
<1> HIDE DEF t, r
<1>5. long \in Seq(Pieces) /\ ~Has(short, "date")
  BY <1>1, ShownText
<1> HIDE DEF long
<1>6. ASSUME Has(long, "date")
      PROVE  Watermark!Total(Watermark!Drop(long, "date"), company, r) < Watermark!Total(long, company, r)
  BY <1>1, <1>5, <1>6, DropLess
<1> HIDE DEF short
<1>7. Has(long, "date") => Runed(j, company, FALSE) < Runed(j, company, TRUE)
  BY <1>3, <1>4, <1>6
<1>8. QED
  BY <1>5, <1>7 DEF long, short, t

LEMMA CompanyTells ==
  ASSUME NEW j \in Watermark!Requests, NEW date \in BOOLEAN,
         j.company = 0 \/ Runed(j, 0, TRUE) >= Runed(j, j.company, TRUE)
  PROVE  ~Has(Watermark!Shown(j.template, j.company, date), "company")
<1> DEFINE t == j.template
           r == j.recipient
           c == j.company
<1>1. t \in Seq(Pieces) /\ Has(t, "recipient") /\ r \in Nat /\ c \in Nat
  BY RunedText, StyleTypes
<1>2. CASE c = 0
  <2>1. c = 0 => ~Has(Watermark!Shown(t, c, date), "company")
    <3> HIDE DEF t, c
    <3>1. QED
      BY <1>1, ShownText
  <2>2. QED
    BY <1>2, <2>1
<1>3. CASE c # 0
  <2>1. /\ Runed(j, c, TRUE) = Watermark!Total(t, c, r)
        /\ Runed(j, 0, TRUE) = Watermark!Total(Watermark!Drop(t, "company"), 0, r)
    BY <1>3 DEF Runed, Watermark!Rendered, Watermark!Shown
  <2>2. Runed(j, c, TRUE) \in Nat /\ Runed(j, 0, TRUE) \in Nat
    BY <1>1, RunedText
  <2>3. Runed(j, 0, TRUE) >= Runed(j, c, TRUE)
    BY <1>3
  <2>4. \A p : Has(Watermark!Shown(t, c, date), p) => Has(t, p)
    <3> HIDE DEF t, c
    <3>1. QED
      BY <1>1, ShownText
  <2>5. Has(t, "company") =>
          Watermark!Total(Watermark!Drop(t, "company"), 0, r) < Watermark!Total(t, c, r)
    <3>1. c > 0 /\ 0 <= c
      BY <1>1, <1>3
    <3> HIDE DEF t, c, r
    <3>2. QED
      BY <1>1, <3>1, DropLess
  <2>6. ~Has(t, "company")
    <3> DEFINE a == Runed(j, c, TRUE)
               b == Runed(j, 0, TRUE)
    <3>1. a \in Nat /\ b \in Nat /\ b >= a /\ (Has(t, "company") => b < a)
      BY <2>1, <2>2, <2>3, <2>5
    <3> HIDE DEF a, b
    <3>2. QED
      BY <3>1
  <2>7. QED
    BY <2>4, <2>6
<1>4. QED
  BY <1>2, <1>3

(* RenderTextFit gives up the end of the company, then the company, then   *)
(* the date, and nothing that would have fitted.                           *)
GivesWay(j, budget, text) ==
  /\ Runed(j, j.company, TRUE) <= budget => text = Watermark!Text(j.company, TRUE)
  /\ text.company # j.company =>
       \A n \in 3..(j.company - 1) :
         Watermark!Cut(n, j.blank) > text.company => Runed(j, Watermark!Cut(n, j.blank), TRUE) > budget
  /\ ~text.date => Runed(j, 0, TRUE) > budget
  /\ Runed(j, text.company, text.date) > budget =>
       \A p \in {"company", "date"} : ~Has(Watermark!Shown(j.template, text.company, text.date), p)

LEMMA FitGivesWay ==
  ASSUME NEW j \in Watermark!Requests, NEW budget \in Int
  PROVE  /\ Watermark!RenderTextFit(j, budget) \in [company : Nat, date : BOOLEAN]
         /\ GivesWay(j, budget, Watermark!RenderTextFit(j, budget))
<1> DEFINE c == j.company
           fits == {n \in 3..(c - 1) : Runed(j, Watermark!Cut(n, j.blank), TRUE) <= budget}
           short == Watermark!Shortened(j, fits)
           DateGone(company) ==
             Watermark!Text(company, ~(Runed(j, company, FALSE) < Runed(j, company, TRUE)))
           text == Watermark!RenderTextFit(j, budget)
           Useless == c = 0 \/ Runed(j, 0, TRUE) >= Runed(j, c, TRUE)
<1>1. text =
        IF Runed(j, c, TRUE) <= budget THEN Watermark!Text(c, TRUE)
        ELSE IF Useless THEN DateGone(c)
        ELSE IF fits # {} THEN Watermark!Text(short, TRUE)
        ELSE IF Runed(j, 0, TRUE) <= budget THEN Watermark!Text(0, TRUE)
        ELSE DateGone(0)
  BY DEF Watermark!RenderTextFit, Watermark!MinCompanyRunes, Runed
<1>2. c \in Nat /\ j.blank \in Nat
  BY StyleTypes
<1>3. \A company \in Nat, date \in BOOLEAN : Runed(j, company, date) \in Nat
  BY RunedText
<1>3a. ASSUME NEW x \in Nat, NEW date \in BOOLEAN
       PROVE  Runed(j, x, date) > budget <=> ~(Runed(j, x, date) <= budget)
  <2> DEFINE n == Runed(j, x, date)
  <2>1. n \in Nat
    BY <1>3
  <2> HIDE DEF n
  <2>2. n > budget <=> ~(n <= budget)
    BY <2>1
  <2>3. QED
    BY <2>2 DEF n
<1>4. ASSUME NEW x, NEW date
      PROVE  Watermark!Text(x, date).company = x /\ Watermark!Text(x, date).date = date
  BY DEF Watermark!Text
<1>5. ASSUME NEW x \in Nat, NEW date \in BOOLEAN
      PROVE  Watermark!Text(x, date) \in [company : Nat, date : BOOLEAN]
  BY DEF Watermark!Text
<1>6. ASSUME fits # {}
      PROVE  /\ short \in Nat /\ Runed(j, short, TRUE) <= budget
             /\ \A n \in 3..(c - 1) :
                  Watermark!Cut(n, j.blank) > short => Runed(j, Watermark!Cut(n, j.blank), TRUE) > budget
  <2> DEFINE x == Watermark!Max(fits)
  <2>1. fits \in SUBSET (0..c)
    <3>1. \A n \in fits : n \in 3..(c - 1)
      OBVIOUS
    <3> HIDE DEF fits, c
    <3>2. QED
      BY <1>2, <3>1
  <2>2. x \in fits /\ \A n \in fits : x >= n
    <3> HIDE DEF fits, c
    <3>1. \E n \in fits : \A m \in fits : n >= m
      BY <1>2, <1>6, <2>1, LastOne
    <3>2. QED
      BY <3>1 DEF Watermark!Max
  <2> HIDE DEF x
  <2>3. x \in Nat /\ x >= 3 /\ Runed(j, Watermark!Cut(x, j.blank), TRUE) <= budget
    <3>1. x \in 3..(c - 1) /\ Runed(j, Watermark!Cut(x, j.blank), TRUE) <= budget
      BY <2>2
    <3> HIDE DEF c
    <3>2. x \in Nat /\ x >= 3
      BY <1>2, <3>1
    <3>3. QED
      BY <3>1, <3>2
  <2>4. short = Watermark!Cut(x, j.blank)
    BY DEF Watermark!Shortened, x
  <2>5. short \in Nat
    BY <1>2, <2>3, <2>4, CutGrows
  <2>6. ASSUME NEW n \in 3..(c - 1), Watermark!Cut(n, j.blank) > short
        PROVE  Runed(j, Watermark!Cut(n, j.blank), TRUE) > budget
    <3>1. n \in Nat /\ n >= 3
      BY <1>2
    <3>2. ASSUME n <= x PROVE FALSE
      <4> DEFINE a == Watermark!Cut(n, j.blank)
                 b == Watermark!Cut(x, j.blank)
      <4>1. a \in Nat /\ b \in Nat /\ a <= b
        BY <1>2, <2>3, <3>1, <3>2, CutGrows
      <4>2. a > b
        BY <2>4, <2>6
      <4> HIDE DEF a, b
      <4>3. QED
        BY <4>1, <4>2
    <3>3. n \notin fits
      <4> HIDE DEF fits
      <4>1. QED
        BY <2>2, <2>3, <3>1, <3>2
    <3>4. ~(Runed(j, Watermark!Cut(n, j.blank), TRUE) <= budget)
      BY <3>3
    <3>5. Watermark!Cut(n, j.blank) \in Nat
      <4>1. n <= n
        BY <3>1
      <4>2. QED
        BY <1>2, <3>1, <4>1, CutGrows
    <3>6. QED
      BY <1>3a, <3>4, <3>5
  <2>7. QED
    BY <2>3, <2>4, <2>5, <2>6
<1>7. ASSUME fits = {}, NEW n \in 3..(c - 1)
      PROVE  Runed(j, Watermark!Cut(n, j.blank), TRUE) > budget
  <2>1. ~(Runed(j, Watermark!Cut(n, j.blank), TRUE) <= budget)
    BY <1>7
  <2>2. n \in Nat /\ n >= 3 /\ n <= n
    BY <1>2
  <2>3. Watermark!Cut(n, j.blank) \in Nat
    BY <1>2, <2>2, CutGrows
  <2>4. QED
    BY <1>3a, <2>1, <2>3
<1>8. ASSUME NEW x \in Nat
      PROVE  /\ DateGone(x) \in [company : Nat, date : BOOLEAN]
             /\ DateGone(x).company = x
             /\ ~Has(Watermark!Shown(j.template, x, DateGone(x).date), "date")
  <2> DEFINE date == ~(Runed(j, x, FALSE) < Runed(j, x, TRUE))
  <2>1. date \in BOOLEAN /\ DateGone(x) = Watermark!Text(x, date)
    OBVIOUS
  <2>2. /\ date => ~Has(Watermark!Shown(j.template, x, TRUE), "date")
        /\ ~Has(Watermark!Shown(j.template, x, FALSE), "date")
    BY DateTells
  <2> HIDE DEF date, DateGone
  <2>3. QED
    <3>1. DateGone(x) \in [company : Nat, date : BOOLEAN]
      BY <1>5, <2>1
    <3>2. DateGone(x).company = x /\ DateGone(x).date = date
      BY <1>4, <2>1
    <3>3. CASE date = TRUE
      BY <2>2, <3>1, <3>2, <3>3
    <3>4. CASE date = FALSE
      BY <2>2, <3>1, <3>2, <3>4
    <3>5. QED
      BY <2>1, <3>3, <3>4
<1> HIDE DEF fits, short, DateGone, text
<1>9. CASE Runed(j, c, TRUE) <= budget
  <2>1. text = Watermark!Text(c, TRUE) /\ text.company = c /\ text.date = TRUE
    BY <1>1, <1>4, <1>9
  <2>2. ~(Runed(j, c, TRUE) > budget)
    BY <1>2, <1>9, <1>3a
  <2>3. text \in [company : Nat, date : BOOLEAN]
    BY <1>2, <1>5, <2>1
  <2>4. GivesWay(j, budget, text)
    BY <2>1, <2>2 DEF GivesWay
  <2>5. QED
    BY <2>3, <2>4 DEF text
<1>10. CASE ~(Runed(j, c, TRUE) <= budget) /\ Useless
  <2>1. text = DateGone(c)
    BY <1>1, <1>10
  <2>2. text \in [company : Nat, date : BOOLEAN] /\ text.company = c
    BY <1>2, <1>8, <2>1
  <2>3. /\ ~Has(Watermark!Shown(j.template, c, text.date), "date")
        /\ ~Has(Watermark!Shown(j.template, c, text.date), "company")
    BY <1>2, <1>8, <1>10, <2>1, <2>2, CompanyTells
  <2>4. Runed(j, 0, TRUE) > budget
    <3>1. Runed(j, 0, TRUE) \in Nat /\ Runed(j, c, TRUE) \in Nat
      BY <1>2, <1>3
    <3>2. c = 0 \/ Runed(j, 0, TRUE) >= Runed(j, c, TRUE)
      BY <1>10
    <3> DEFINE a == Runed(j, c, TRUE)
               b == Runed(j, 0, TRUE)
    <3>3. a \in Nat /\ b \in Nat /\ ~(a <= budget) /\ (a = b \/ b >= a)
      BY <1>10, <3>1, <3>2
    <3> HIDE DEF a, b
    <3>4. b > budget
      BY <3>3
    <3>5. QED
      BY <3>4 DEF b
  <2>5. GivesWay(j, budget, text)
    <3>1. text.company = j.company
      BY <2>2
    <3>2. QED
      BY <1>10, <2>3, <2>4, <3>1 DEF GivesWay
  <2>6. QED
    BY <2>2, <2>5 DEF text
<1>11. CASE ~(Runed(j, c, TRUE) <= budget) /\ ~Useless /\ fits # {}
  <2>1. text = Watermark!Text(short, TRUE) /\ text.company = short /\ text.date = TRUE
    BY <1>1, <1>4, <1>11
  <2>2. short \in Nat /\ Runed(j, short, TRUE) <= budget
    BY <1>6, <1>11
  <2>3. ~(Runed(j, short, TRUE) > budget)
    BY <1>3a, <2>2
  <2>4. text \in [company : Nat, date : BOOLEAN]
    BY <1>5, <2>1, <2>2
  <2>5. GivesWay(j, budget, text)
    BY <1>6, <1>11, <2>1, <2>3 DEF GivesWay
  <2>6. QED
    BY <2>4, <2>5 DEF text
<1>12. CASE ~(Runed(j, c, TRUE) <= budget) /\ ~Useless /\ fits = {} /\ Runed(j, 0, TRUE) <= budget
  <2>1. text = Watermark!Text(0, TRUE) /\ text.company = 0 /\ text.date = TRUE
    BY <1>1, <1>4, <1>12
  <2>2. ~(Runed(j, 0, TRUE) > budget)
    BY <1>12, <1>3a
  <2>3. text \in [company : Nat, date : BOOLEAN]
    BY <1>5, <2>1
  <2>4. GivesWay(j, budget, text)
    BY <1>7, <1>12, <2>1, <2>2 DEF GivesWay
  <2>5. QED
    BY <2>3, <2>4 DEF text
<1>13. CASE ~(Runed(j, c, TRUE) <= budget) /\ ~Useless /\ fits = {} /\ ~(Runed(j, 0, TRUE) <= budget)
  <2>1. text = DateGone(0)
    BY <1>1, <1>13
  <2>2. text \in [company : Nat, date : BOOLEAN] /\ text.company = 0
    BY <1>8, <2>1
  <2>3. /\ ~Has(Watermark!Shown(j.template, 0, text.date), "date")
        /\ ~Has(Watermark!Shown(j.template, 0, text.date), "company")
    <3>1. ~Has(Watermark!Shown(j.template, 0, text.date), "date")
      BY <1>8, <2>1, <2>2
    <3>2. j.template \in Seq(Pieces) /\ Has(j.template, "recipient")
      BY RunedText
    <3>3. QED
      BY <2>2, <3>1, <3>2, ShownText
  <2>4. Runed(j, 0, TRUE) > budget
    BY <1>13, <1>3a
  <2>5. GivesWay(j, budget, text)
    BY <1>7, <1>13, <2>2, <2>3, <2>4 DEF GivesWay
  <2>6. QED
    BY <2>2, <2>5 DEF text
<1>14. QED
  BY <1>9, <1>10, <1>11, <1>12, <1>13

(* A quotient, and what it is a quotient of.                               *)
LEMMA Quotient ==
  ASSUME NEW a \in Nat, NEW b \in Nat \ {0}
  PROVE  /\ a \div b \in Nat /\ b * (a \div b) <= a
         /\ \A q \in Nat : b * q <= a => q <= a \div b
<1> DEFINE d == a \div b
           m == a % b
<1>1. a = b * d + m /\ m \in Nat /\ m < b /\ d \in Int
  OBVIOUS
<1>2. d \in Nat
  OBVIOUS
<1> HIDE DEF d, m
<1>3. b * d \in Nat
  BY <1>2
<1>4. b * d <= a
  BY <1>1, <1>3
<1>5. ASSUME NEW q \in Nat, b * q <= a PROVE q <= d
  <2>1. ASSUME q >= d + 1 PROVE FALSE
    <3>1. b * q >= b * (d + 1)
      BY <1>2, <2>1
    <3>2. b * (d + 1) = b * d + b
      BY <1>2
    <3>3. b * q \in Nat
      OBVIOUS
    <3> DEFINE x == b * q
               y == b * d
    <3>4. x \in Nat /\ y \in Nat /\ x >= y + b /\ x <= a /\ a = y + m
      BY <1>1, <1>3, <1>5, <3>1, <3>2, <3>3
    <3> HIDE DEF x, y
    <3>5. QED
      BY <1>1, <3>4
  <2>2. QED
    BY <1>2, <2>1
<1>6. QED
  BY <1>2, <1>4, <1>5 DEF d

(* The font and the room of a look, in a picture of whatever width.        *)
LEMMA LookRoom ==
  ASSUME picture.w \in Nat, NEW j
  PROVE  /\ Watermark!BasePx \in Nat /\ Watermark!BasePx >= 18
         /\ Watermark!MinPx \in Nat /\ Watermark!MinPx >= 10 /\ Watermark!MinPx <= Watermark!BasePx
         /\ Watermark!AvailPx(j) \in Nat \ {0}
         /\ 90 * Watermark!FrameWidth >= 100 * Watermark!AvailPx(j) \/ Watermark!AvailPx(j) = 1
         /\ Watermark!FrameWidth \in Nat
         /\ \/ 132 * Watermark!FrameWidth <= 10000 * Watermark!MinPx + 15000
            \/ Watermark!FrameWidth = 1280
<1> DEFINE w == picture.w
           f == Watermark!FrameWidth
           base == Watermark!BasePx
           least == Watermark!MinPx
           avail == Watermark!AvailPx(j)
<1>1. base = LET b == (w * 22) \div 1000 IN IF b < 18 THEN 18 ELSE b
  BY DEF Watermark!BasePx, Watermark!AtLeast
<1>2. least = LET b == (base * 6) \div 10 IN IF b < 6 THEN 6 ELSE b
  BY DEF Watermark!MinPx, Watermark!AtLeast, Watermark!AbsMinPx
<1>3. avail = LET a == (f * (IF j.position = "tiled" THEN 30 ELSE 90)) \div 100 - 16
              IN IF a < 1 THEN 1 ELSE a
  BY DEF Watermark!AvailPx, Watermark!AtLeast, Watermark!BoxBorderPx
<1>4. w \in Nat /\ f = IF w > 0 THEN w ELSE 1280
  BY DEF Watermark!FrameWidth, Watermark!FallbackFrameWidth
<1> HIDE DEF w, f, base, least, avail
<1>5. base \in Nat /\ base >= 18 /\ 22 * w <= 1000 * base + 999
  BY <1>1, <1>4
<1>6. least \in Nat /\ least >= 10 /\ least <= base /\ 6 * base <= 10 * least + 9
  BY <1>2, <1>5
<1>7. f \in Nat /\ avail \in Nat \ {0} /\ (90 * f >= 100 * avail \/ avail = 1)
  <2>1. f \in Nat
    BY <1>4
  <2>2. CASE j.position = "tiled"
    BY <1>3, <2>1, <2>2
  <2>3. CASE j.position # "tiled"
    BY <1>3, <2>1, <2>3
  <2>4. QED
    BY <2>1, <2>2, <2>3
<1>8. 132 * f <= 10000 * least + 15000 \/ f = 1280
  BY <1>4, <1>5, <1>6
<1>9. QED
  BY <1>5, <1>6, <1>7, <1>8 DEF f, base, least, avail

(* The budget of a line is what its room and the smallest font it may have *)
(* come to, and never much.                                                *)
LEMMA BudgetRoom ==
  ASSUME picture.w \in Nat, NEW j
  PROVE  /\ Watermark!Budget(j) \in 1..200
         /\ \A n \in Nat : n >= 2 /\ n <= Watermark!Budget(j) =>
              (62 * n) * Watermark!MinPx <= 100 * Watermark!AvailPx(j)
<1> DEFINE f == Watermark!FrameWidth
           least == Watermark!MinPx
           avail == Watermark!AvailPx(j)
           a == avail * 100
           b == 62 * least
           q == a \div b
           budget == Watermark!Budget(j)
<1>1. /\ least \in Nat /\ least >= 10 /\ avail \in Nat \ {0}
      /\ 90 * f >= 100 * avail \/ avail = 1
      /\ f \in Nat /\ (132 * f <= 10000 * least + 15000 \/ f = 1280)
  BY LookRoom
<1>2. budget = IF q < 1 THEN 1 ELSE q
  BY DEF Watermark!Budget, Watermark!AtLeast
<1> HIDE DEF f, least, avail, budget
<1>3. a \in Nat /\ b \in Nat \ {0}
  BY <1>1
<1>4. q \in Nat /\ b * q <= a
  <2> HIDE DEF a, b
  <2>1. QED
    BY <1>3, Quotient
<1> HIDE DEF q
<1>5. ASSUME NEW n \in Nat, n <= q
      PROVE  (62 * n) * least <= a
  <2>1. b * n <= b * q
    BY <1>3, <1>4, <1>5
  <2>2. b * n \in Nat /\ b * q \in Nat
    BY <1>3, <1>4
  <2>3. b * n = (62 * n) * least
    BY <1>1
  <2> DEFINE x == b * n
             y == b * q
  <2>4. x \in Nat /\ y \in Nat /\ x <= y /\ y <= a /\ x = (62 * n) * least
    BY <1>4, <2>1, <2>2, <2>3
  <2> HIDE DEF x, y, a
  <2>5. QED
    BY <1>3, <2>4
<1>6. q <= 200
  <2>1. ASSUME q >= 201 PROVE FALSE
    <3>1. (62 * 201) * least <= a
      BY <1>5, <2>1, <1>4
    <3>2. 12462 * least <= 100 * avail
      BY <1>1, <3>1
    <3>3. QED
      BY <1>1, <3>2
  <2>2. QED
    BY <1>4, <2>1
<1>7. budget \in 1..200
  BY <1>2, <1>4, <1>6
<1>8. ASSUME NEW n \in Nat, n >= 2, n <= budget
      PROVE  (62 * n) * least <= 100 * avail
  <2>1. n <= q
    BY <1>2, <1>4, <1>8
  <2>2. QED
    BY <1>1, <1>5, <2>1
<1>9. QED
  BY <1>7, <1>8 DEF least, avail, budget

(* The font of a line.                                                     *)
LEMMA FontFits ==
  ASSUME picture.w \in Nat, NEW j, NEW n \in 1..200
  PROVE  /\ Watermark!FontPx(j, n) \in 1..Watermark!BasePx
         /\ \/ 62 * Watermark!FontPx(j, n) * n <= 100 * Watermark!AvailPx(j)
            \/ Watermark!FontPx(j, n) = 6
         /\ n >= 2 /\ n <= Watermark!Budget(j) => Watermark!FontPx(j, n) >= Watermark!MinPx
<1> DEFINE avail == Watermark!AvailPx(j)
           base == Watermark!BasePx
           least == Watermark!MinPx
           line == (avail * 100) \div (62 * n)
           px == Watermark!FontPx(j, n)
           budget == Watermark!Budget(j)
<1>1. /\ base \in Nat /\ base >= 18 /\ least \in Nat /\ least <= base /\ avail \in Nat
      /\ n >= 2 /\ n <= budget => (62 * n) * least <= 100 * avail
  BY LookRoom, BudgetRoom
<1>2. px = LET l == IF line < 6 THEN 6 ELSE line IN IF l > base THEN base ELSE l
  BY DEF Watermark!FontPx, Watermark!AbsMinPx, Watermark!AtMost, Watermark!AtLeast
<1> HIDE DEF avail, base, least, px, budget
<1>3. /\ line \in Nat /\ (62 * n) * line <= avail * 100
      /\ \A x \in Nat : (62 * n) * x <= avail * 100 => x <= line
  <2> DEFINE a == avail * 100
             b == 62 * n
  <2>1. a \in Nat /\ b \in Nat \ {0}
    BY <1>1
  <2> HIDE DEF a, b
  <2>2. a \div b \in Nat /\ b * (a \div b) <= a /\ \A x \in Nat : b * x <= a => x <= a \div b
    BY <2>1, Quotient
  <2>3. QED
    BY <2>2 DEF a, b
<1> HIDE DEF line
<1>4. px \in 1..base
  BY <1>1, <1>2, <1>3
<1>5. 62 * px * n <= 100 * avail \/ px = 6
  <2>1. CASE px <= line
    <3> DEFINE b == 62 * n
    <3>1. b \in Nat /\ px \in Nat /\ b * px = 62 * px * n
      BY <1>1, <1>4
    <3> HIDE DEF b
    <3>2. b * px <= b * line /\ b * px \in Nat /\ b * line \in Nat
      BY <1>3, <2>1, <3>1
    <3>3. b * line <= avail * 100
      BY <1>3 DEF b
    <3> DEFINE x == b * px
               y == b * line
    <3>4. x \in Nat /\ y \in Nat /\ x <= y /\ y <= avail * 100 /\ x = 62 * px * n
      BY <3>1, <3>2, <3>3
    <3> HIDE DEF x, y
    <3>5. x <= 100 * avail
      BY <1>1, <3>4
    <3>6. QED
      BY <3>4, <3>5
  <2>2. CASE ~(px <= line)
    BY <1>1, <1>2, <1>3, <2>2
  <2>3. QED
    BY <2>1, <2>2
<1>6. ASSUME n >= 2, n <= budget PROVE px >= least
  <2>1. (62 * n) * least <= avail * 100
    <3> DEFINE x == (62 * n) * least
    <3>1. x \in Nat /\ x <= 100 * avail
      BY <1>1, <1>6
    <3> HIDE DEF x
    <3>2. x <= avail * 100
      BY <1>1, <3>1
    <3>3. QED
      BY <3>2 DEF x
  <2>2. least <= line
    BY <1>1, <1>3, <2>1
  <2>3. QED
    BY <1>1, <1>2, <1>3, <2>2
<1>7. QED
  BY <1>4, <1>5, <1>6 DEF avail, base, least, px, budget

(* The start of a text is no longer than the text.                         *)
LEMMA StartOfText ==
  ASSUME NEW t \in Seq(Pieces), NEW k \in 1..Len(t), NEW c \in Nat, NEW r \in Nat
  PROVE  Watermark!Total(SubSeq(t, 1, k), c, r) <= Watermark!Total(t, c, r)
<1> DEFINE n == Len(t)
           u == SubSeq(t, 1, k)
<1>1. u \in Seq(Pieces) /\ Len(u) = k /\ n \in Nat /\ k \in Nat /\ k <= n
  OBVIOUS
<1>2. \A i \in 1..k : u[i] = t[i]
  OBVIOUS
<1>3. \A i \in 1..n : Watermark!Runes(t[i], c, r) \in Nat
  BY DEF Watermark!Runes, Pieces
<1>4. PICK sum \in [0..n -> Nat] :
        /\ sum[0] = 0
        /\ \A i \in 1..n : sum[i] = sum[i - 1] + Watermark!Runes(t[i], c, r)
        /\ Watermark!Total(t, c, r) = sum[n]
  BY TotalGrows
<1> HIDE DEF n, u
<1>5. PICK f \in [0..k -> Nat] :
        /\ f[0] = 0
        /\ \A i \in 1..k : f[i] = f[i - 1] + Watermark!Runes(u[i], c, r)
        /\ Watermark!Total(u, c, r) = f[k]
  <2> DEFINE m == Len(u)
  <2>1. \E f \in [0..m -> Nat] :
          /\ f[0] = 0
          /\ \A i \in 1..m : f[i] = f[i - 1] + Watermark!Runes(u[i], c, r)
          /\ Watermark!Total(u, c, r) = f[m]
    BY <1>1, TotalGrows
  <2>2. m = k
    BY <1>1
  <2> HIDE DEF m
  <2>3. QED
    BY <2>1, <2>2
<1>6. f[k] = sum[k]
  <2> DEFINE Good == {i \in 0..k : f[i] = sum[i]}
  <2>1. 0 \in Good
    BY <1>1, <1>4, <1>5
  <2>2. \A i \in 1..k : i - 1 \in Good => i \in Good
    <3>1. SUFFICES ASSUME NEW i \in 1..k, f[i - 1] = sum[i - 1]
                   PROVE  i \in Good
      OBVIOUS
    <3>2. i \in 0..k /\ i \in 1..n
      BY <1>1
    <3>3. f[i] = sum[i]
      BY <1>2, <1>4, <1>5, <3>1, <3>2
    <3>4. QED
      BY <3>2, <3>3
  <2> HIDE DEF Good
  <2>3. \A i \in 0..k : i \in Good
    BY <1>1, <2>1, <2>2, UpFrom
  <2>4. k \in Good
    BY <1>1, <2>3
  <2>5. QED
    BY <2>4 DEF Good
<1>7. sum[k] <= sum[n]
  <2> DEFINE Good == {i \in 0..n : i >= k => sum[k] <= sum[i]}
  <2>1. 0 \in Good
    BY <1>1
  <2>2. \A i \in 1..n : i - 1 \in Good => i \in Good
    <3>1. SUFFICES ASSUME NEW i \in 1..n, i - 1 \in Good, i >= k
                   PROVE  sum[k] <= sum[i]
      BY <1>1
    <3>2. i - 1 \in 0..n /\ i \in 0..n /\ k \in 0..n
      BY <1>1
    <3>3. sum[i] \in Nat /\ sum[i - 1] \in Nat /\ sum[k] \in Nat
      BY <3>2
    <3>4. sum[i] = sum[i - 1] + Watermark!Runes(t[i], c, r)
      BY <1>4
    <3>5. CASE i = k
      BY <3>3, <3>5
    <3>6. CASE i # k
      <4>1. i - 1 >= k
        BY <1>1, <3>1, <3>6
      <4>2. sum[k] <= sum[i - 1]
        BY <3>1, <4>1
      <4> DEFINE a == sum[i]
                 b == sum[i - 1]
                 more == Watermark!Runes(t[i], c, r)
      <4>3. more \in Nat /\ a = b + more /\ a \in Nat /\ b \in Nat
        BY <1>3, <3>3, <3>4
      <4> HIDE DEF a, b, more
      <4>4. b <= a
        BY <4>3
      <4>5. QED
        BY <3>3, <4>2, <4>4 DEF a, b
    <3>7. QED
      BY <3>5, <3>6
  <2> HIDE DEF Good
  <2>3. \A i \in 0..n : i \in Good
    BY <1>1, <2>1, <2>2, UpFrom
  <2>4. n \in Good
    BY <1>1, <2>3
  <2>5. QED
    BY <1>1, <2>4 DEF Good
<1>8. QED
  BY <1>4, <1>5, <1>6, <1>7 DEF u

(* A text without a company is as long for one company as for another.     *)
LEMMA NoCompany ==
  ASSUME NEW t \in Seq(Pieces), ~Has(t, "company"), NEW c \in Nat, NEW r \in Nat
  PROVE  Watermark!Total(t, c, r) = Watermark!Total(t, 0, r)
<1> DEFINE n == Len(t)
<1>1. n \in Nat /\ DOMAIN t = 1..n /\ \A i \in 1..n : t[i] \in Pieces
  OBVIOUS
<1>2. \A i \in 1..n : Watermark!Runes(t[i], c, r) = Watermark!Runes(t[i], 0, r)
  BY <1>1 DEF Watermark!Runes, Pieces, Has
<1>3. PICK sum \in [0..n -> Nat] :
        /\ sum[0] = 0
        /\ \A i \in 1..n : sum[i] = sum[i - 1] + Watermark!Runes(t[i], c, r)
        /\ Watermark!Total(t, c, r) = sum[n]
  BY TotalGrows
<1>4. PICK f \in [0..n -> Nat] :
        /\ f[0] = 0
        /\ \A i \in 1..n : f[i] = f[i - 1] + Watermark!Runes(t[i], 0, r)
        /\ Watermark!Total(t, 0, r) = f[n]
  <2> DEFINE z == 0
  <2>1. z \in Nat
    OBVIOUS
  <2> HIDE DEF z
  <2>2. \E f \in [0..n -> Nat] :
          /\ f[0] = 0
          /\ \A i \in 1..n : f[i] = f[i - 1] + Watermark!Runes(t[i], z, r)
          /\ Watermark!Total(t, z, r) = f[n]
    BY <2>1, TotalGrows
  <2>3. QED
    BY <2>2 DEF z
<1> HIDE DEF n
<1> DEFINE Good == {i \in 0..n : f[i] = sum[i]}
<1>5. 0 \in Good
  BY <1>1, <1>3, <1>4
<1>6. \A i \in 1..n : i - 1 \in Good => i \in Good
  BY <1>1, <1>2, <1>3, <1>4
<1> HIDE DEF Good
<1>7. \A i \in 0..n : i \in Good
  BY <1>1, <1>5, <1>6, UpFrom
<1>8. n \in Good
  BY <1>1, <1>7
<1>9. QED
  BY <1>3, <1>4, <1>8 DEF Good

(* The text that is drawn keeps the recipient whole, or it is too long     *)
(* without a company and a date.                                           *)
LEMMA FittedText ==
  ASSUME picture.w \in Nat, NEW j \in Watermark!Requests
  PROVE  LET text   == Watermark!RenderTextFit(j, Watermark!Budget(j))
             pieces == Watermark!Shown(j.template, text.company, text.date)
             total  == Watermark!Total(pieces, text.company, j.recipient)
         IN /\ GivesWay(j, Watermark!Budget(j), text)
            /\ total \in Nat /\ total >= 20
            /\ \/ Watermark!Named(pieces, text.company, j.recipient, 200)
               \/ /\ ~Has(pieces, "company") /\ ~Has(pieces, "date")
                  /\ Watermark!Total(pieces, 0, j.recipient) > 200
<1> DEFINE budget == Watermark!Budget(j)
           text == Watermark!RenderTextFit(j, budget)
           c == text.company
           t == j.template
           r == j.recipient
           pieces == Watermark!Shown(t, c, text.date)
           total == Watermark!Total(pieces, c, r)
<1>1. budget \in 1..200
  BY BudgetRoom
<1>2. text \in [company : Nat, date : BOOLEAN] /\ GivesWay(j, budget, text)
  <2> HIDE DEF budget
  <2>1. budget \in Int
    BY <1>1
  <2>2. QED
    BY <2>1, FitGivesWay
<1>3. /\ c \in Nat /\ text.date \in BOOLEAN /\ r \in {20, 110, 210}
      /\ t \in Seq(Pieces) /\ Has(t, "recipient")
  <2>1. t \in TextTemplates /\ r \in {20, 110, 210}
    BY StyleTypes
  <2>2. r \in Nat
    BY <2>1
  <2> HIDE DEF t, r
  <2>3. QED
    BY <1>2, <2>1, <2>2, Templates
<1>4. total = Runed(j, c, text.date)
  BY DEF Runed, Watermark!Rendered
<1>5. Runed(j, c, text.date) > budget => ~Has(pieces, "company") /\ ~Has(pieces, "date")
  BY <1>2 DEF GivesWay
<1> HIDE DEF budget, text, c, t, r
<1>6. pieces \in Seq(Pieces) /\ Has(pieces, "recipient")
  <2> DEFINE date == text.date
  <2>1. date \in BOOLEAN
    BY <1>3
  <2> HIDE DEF date
  <2>2. t \in Seq(Pieces) /\ Has(t, "recipient") /\ c \in Nat
    BY <1>3
  <2>3. Watermark!Shown(t, c, date) \in Seq(Pieces) /\ Has(Watermark!Shown(t, c, date), "recipient")
    BY <2>1, <2>2, ShownText
  <2>4. QED
    BY <2>3 DEF date
<1> HIDE DEF pieces
<1>7. r \in Nat /\ r >= 20
  BY <1>3
<1>8. total \in Nat /\ total >= 20
  <2>1. total \in Nat /\ total >= r
    BY <1>3, <1>6, <1>7, TotalText
  <2> HIDE DEF total
  <2>2. QED
    BY <1>7, <2>1
<1>9. ~Has(pieces, "company") => total = Watermark!Total(pieces, 0, r)
  BY <1>3, <1>6, <1>7, NoCompany
<1>10. ASSUME ~Watermark!Named(pieces, c, r, 200)
       PROVE  total > 200
  <2>1. PICK k \in DOMAIN pieces : pieces[k] = "recipient"
    BY <1>6 DEF Has
  <2> DEFINE start == SubSeq(pieces, 1, k)
             end == Watermark!Total(start, c, r)
  <2>2. k \in 1..Len(pieces) /\ start \in Seq(Pieces)
    BY <1>6, <2>1
  <2>3. end <= total
    BY <1>3, <1>6, <1>7, <2>2, StartOfText
  <2>4. ~(end <= 200)
    BY <1>10, <2>1 DEF Watermark!Named
  <2> HIDE DEF start
  <2>5. end \in Nat
    BY <1>3, <1>7, <2>2, TotalText
  <2> HIDE DEF end, total
  <2>6. QED
    BY <1>8, <2>3, <2>4, <2>5
<1> HIDE DEF total
<1>11. \/ Watermark!Named(pieces, c, r, 200)
       \/ /\ ~Has(pieces, "company") /\ ~Has(pieces, "date")
          /\ Watermark!Total(pieces, 0, r) > 200
  <2>1. SUFFICES ASSUME ~Watermark!Named(pieces, c, r, 200)
                 PROVE  /\ ~Has(pieces, "company") /\ ~Has(pieces, "date")
                        /\ Watermark!Total(pieces, 0, r) > 200
    OBVIOUS
  <2>2. total > 200
    BY <1>10, <2>1
  <2>3. total > budget
    BY <1>1, <1>8, <2>2
  <2>4. ~Has(pieces, "company") /\ ~Has(pieces, "date")
    BY <1>4, <1>5, <2>3
  <2>5. total = Watermark!Total(pieces, 0, r)
    BY <1>9, <2>4
  <2>6. QED
    BY <2>2, <2>4, <2>5
<1>12. QED
  BY <1>2, <1>8, <1>11 DEF budget, text, c, t, r, pieces, total

(* Where a text and a logo stand in a picture.                             *)
LEMMA LookPlaces ==
  ASSUME picture.w \in Nat, picture.h \in Nat, NEW j \in Watermark!Requests,
         NEW px \in Nat \ {0}, NEW logo \in Nat, j.position # "tiled"
  PROVE  /\ logo > 0 =>
              LET edge == Watermark!Edge(j.position, logo)
                  top  == Watermark!TextTop(j, px, logo)
              IN top + px <= edge + 1 \/ edge + logo <= top + 1
         /\ LET m   == Watermark!Margin
                top == Watermark!TextTop(j, px, logo)
            IN /\ m + logo + m \div 2 + px <= picture.h
               /\ picture.h \div 2 + logo \div 2 + m \div 2 + px <= picture.h
               => top >= 0 /\ top + px <= picture.h
<1> DEFINE m == Watermark!Margin
           h == picture.h
           edge == Watermark!Edge(j.position, logo)
           top == Watermark!TextTop(j, px, logo)
<1>1. m \in Nat /\ m >= 24
  <2> DEFINE a == (picture.w * 2) \div 100
  <2>1. a \in Nat
    OBVIOUS
  <2> HIDE DEF a
  <2>2. m = IF a < 24 THEN 24 ELSE a
    BY DEF Watermark!Margin, Watermark!AtLeast, a
  <2>3. QED
    BY <2>1, <2>2
<1>2. h \in Nat
  OBVIOUS
<1>3. j.position \in {"top-left", "top-right", "bottom-left", "bottom-right", "center"}
  BY StyleTypes DEF Watermark!Positions
<1>4. CASE j.position \in {"top-left", "top-right"}
  <2>1. edge = m /\ top = m + (IF logo = 0 THEN 0 ELSE logo + m \div 2)
    BY <1>4 DEF Watermark!Edge, Watermark!TextTop, Watermark!Off
  <2> HIDE DEF m, h, edge, top
  <2>2. QED
    BY <1>1, <1>2, <2>1 DEF m, h, edge, top
<1>5. CASE j.position \in {"bottom-left", "bottom-right"}
  <2>1. edge = h - logo - m /\ top = h - px - m + (IF logo = 0 THEN 0 ELSE -(logo + m \div 2))
    BY <1>5 DEF Watermark!Edge, Watermark!TextTop, Watermark!Off
  <2> HIDE DEF m, h, edge, top
  <2>2. QED
    BY <1>1, <1>2, <2>1 DEF m, h, edge, top
<1>6. CASE j.position = "center"
  <2>1. /\ edge = (h - logo) \div 2
        /\ top = IF logo = 0 THEN (h - px) \div 2 + 0
                 ELSE h \div 2 + (logo \div 2 + m \div 2)
    BY <1>6 DEF Watermark!Edge, Watermark!TextTop, Watermark!Off
  <2> HIDE DEF m, h, edge, top
  <2>2. QED
    BY <1>1, <1>2, <2>1 DEF m, h, edge, top
<1>7. QED
  BY <1>3, <1>4, <1>5, <1>6

(* The pictures of the streams, upright and turned.                        *)
Frame(w, h) ==
  \/ w = 90 /\ h = 160
  \/ w = 160 /\ h = 90
  \/ w = 640 /\ h = 360
  \/ w = 360 /\ h = 640
  \/ w = 1920 /\ h = 1080
  \/ w = 1080 /\ h = 1920

Framed == picture.w > 0 => Frame(picture.w, picture.h)

(* The logos of the requests, as high as they are drawn.                   *)
LEMMA LogoRoom ==
  ASSUME picture.w \in Nat, NEW j \in Watermark!Requests
  PROVE  /\ Watermark!LogoHeight(j) \in Nat
         /\ picture.w = 160 /\ 2 * Watermark!LogoHeight(j) <= 90 => Watermark!LogoHeight(j) <= 32
<1> DEFINE w == picture.w
           scale == j.scale
           l == Watermark!LogoWidth(j)
           logo == Watermark!LogoHeight(j)
<1>1. scale \in {10, 50} /\ j.logo \in {<<400, 100>>, <<200, 400>>, <<0, 0>>}
  BY StyleTypes
<1>2. l \in Nat \ {0} /\ (w = 160 => l \in {16, 80})
  <2>1. w \in Nat
    OBVIOUS
  <2>2. l = IF w > 0 THEN (LET a == (w * scale) \div 100 IN IF a < 16 THEN 16 ELSE a) ELSE 240
    BY DEF Watermark!LogoWidth, Watermark!AtLeast
  <2> HIDE DEF w, scale, l
  <2>3. CASE scale = 10
    BY <2>1, <2>2, <2>3
  <2>4. CASE scale = 50
    BY <2>1, <2>2, <2>4
  <2>5. QED
    BY <1>1, <2>3, <2>4
<1>3. /\ j.logo = <<400, 100>> => logo = (l * 100) \div 400
      /\ j.logo = <<200, 400>> => logo = (l * 400) \div 200
      /\ j.logo = <<0, 0>> => logo = 0
  <2>1. l # 0
    BY <1>2
  <2> HIDE DEF l
  <2>2. CASE j.logo = <<0, 0>>
    <3>1. logo = 0 /\ ~(j.logo = <<400, 100>>) /\ ~(j.logo = <<200, 400>>)
      BY <2>2 DEF Watermark!LogoHeight
    <3>2. QED
      BY <3>1
  <2>3. CASE j.logo # <<0, 0>>
    <3>1. logo = (l * j.logo[2]) \div j.logo[1]
      BY <2>1, <2>3 DEF Watermark!LogoHeight, l
    <3>2. QED
      BY <2>3, <3>1
  <2>4. QED
    BY <2>2, <2>3
<1> HIDE DEF w, l, logo
<1>4. logo \in Nat /\ (w = 160 /\ 2 * logo <= 90 => logo <= 32)
  <2>1. CASE j.logo = <<400, 100>>
    BY <1>2, <1>3, <2>1
  <2>2. CASE j.logo = <<200, 400>>
    BY <1>2, <1>3, <2>2
  <2>3. CASE j.logo = <<0, 0>>
    BY <1>3, <2>3
  <2>4. QED
    BY <1>1, <2>1, <2>2, <2>3
<1>5. QED
  BY <1>4 DEF w, logo

(* The text of such a picture, with a logo of up to half its height.       *)
LEMMA FrameRoom ==
  ASSUME picture \in [w : Nat, h : Nat, real : BOOLEAN],
         picture.w > 0, Frame(picture.w, picture.h),
         NEW j \in Watermark!Requests, NEW n \in 20..200,
         2 * Watermark!LogoHeight(j) <= picture.h, j.position # "tiled"
  PROVE  LET m    == Watermark!Margin
             logo == Watermark!LogoHeight(j)
             px   == Watermark!FontPx(j, n)
         IN /\ m + logo + m \div 2 + px <= picture.h
            /\ picture.h \div 2 + logo \div 2 + m \div 2 + px <= picture.h
<1> DEFINE m == Watermark!Margin
           logo == Watermark!LogoHeight(j)
           px == Watermark!FontPx(j, n)
           base == Watermark!BasePx
           avail == Watermark!AvailPx(j)
           w == picture.w
           h == picture.h
<1>1. w \in Nat /\ h \in Nat
  OBVIOUS
<1>2. logo \in Nat /\ 2 * logo <= h /\ (w = 160 /\ 2 * logo <= 90 => logo <= 32)
  BY <1>1, LogoRoom
<1>3. n \in 1..200 /\ n \in Nat /\ n >= 20
  OBVIOUS
<1>4. px \in 1..base /\ (62 * px * n <= 100 * avail \/ px = 6)
  BY <1>1, <1>3, FontFits
<1>5. base \in Nat /\ avail \in Nat
  BY <1>1, LookRoom
<1>6. base = LET b == (w * 22) \div 1000 IN IF b < 18 THEN 18 ELSE b
  BY DEF Watermark!BasePx, Watermark!AtLeast
<1>7. avail = LET a == (w * 90) \div 100 - 16 IN IF a < 1 THEN 1 ELSE a
  BY DEF Watermark!AvailPx, Watermark!AtLeast, Watermark!BoxBorderPx, Watermark!FrameWidth
<1>8. m = LET a == (w * 2) \div 100 IN IF a < 24 THEN 24 ELSE a
  BY DEF Watermark!Margin, Watermark!AtLeast
<1> HIDE DEF m, logo, px, base, avail, w, h
<1>9. 1240 * px <= 100 * avail \/ px = 6
  <2>1. ASSUME 62 * px * n <= 100 * avail
        PROVE  1240 * px <= 100 * avail
    <3> DEFINE x == 62 * px
    <3>1. x \in Nat /\ x * n <= 100 * avail
      BY <1>4, <1>5, <2>1
    <3> HIDE DEF x
    <3>2. x * 20 <= x * n
      BY <1>3, <3>1
    <3> DEFINE y == x * n
    <3>3. y \in Nat
      BY <1>3, <3>1
    <3> HIDE DEF y
    <3>4. x * 20 <= 100 * avail
      BY <1>5, <3>1, <3>2, <3>3 DEF y
    <3>5. QED
      BY <1>4, <1>5, <3>4 DEF x
  <2>2. QED
    BY <1>4, <2>1
<1> DEFINE Room == m + logo + m \div 2 + px <= h /\ h \div 2 + logo \div 2 + m \div 2 + px <= h
<1>10. ASSUME w = 90 /\ h = 160
       PROVE  Room
  <2>1. base = 18 /\ m = 24
    BY <1>6, <1>8, <1>10
  <2>2. QED
    BY <1>2, <1>4, <1>10, <2>1
<1>11. ASSUME w = 160 /\ h = 90
       PROVE  Room
  <2>1. base = 18 /\ m = 24 /\ avail = 128
    BY <1>6, <1>7, <1>8, <1>11
  <2>2. px \in Nat /\ px <= 10 /\ logo <= 32
    BY <1>2, <1>4, <1>9, <1>11, <2>1
  <2>3. QED
    BY <1>2, <1>11, <2>1, <2>2
<1>12. ASSUME (w = 640 /\ h = 360) \/ (w = 360 /\ h = 640)
       PROVE  Room
  <2>1. base = 18 /\ m = 24
    BY <1>6, <1>8, <1>12
  <2>2. QED
    BY <1>2, <1>4, <1>12, <2>1
<1>13. ASSUME (w = 1920 /\ h = 1080) \/ (w = 1080 /\ h = 1920)
       PROVE  Room
  <2>1. base <= 42 /\ m \in 24..38
    BY <1>6, <1>8, <1>13
  <2>2. QED
    BY <1>2, <1>4, <1>5, <1>13, <2>1
<1>14. Frame(w, h)
  BY DEF w, h
<1>15. Room
  BY <1>10, <1>11, <1>12, <1>13, <1>14 DEF Frame
<1>16. QED
  BY <1>15 DEF m, logo, px, h

(* What the types of a drawn text rest on, and that it is of a request.    *)
WInv ==
  mark # Watermark!None =>
    /\ stage = "style" /\ style \in Watermark!Requests
    /\ mark.px \in 1..Watermark!BasePx /\ mark.runes \in 1..200

LEMMA FramedReads ==
  ASSUME PInv, Framed, NEW s \in Watermark!Streams, Watermark!ReadStream(s)
  PROVE  Framed'
<1> DEFINE r == Watermark!Rotated(s)
<1>1. r.w > 0 => Frame(r.w, r.h)
  <2>1. PICK d \in StreamSizes, cover \in BOOLEAN, turned \in BOOLEAN :
          s = [w |-> d[1], h |-> d[2], cover |-> cover, turned |-> turned]
    BY DEF Watermark!Streams
  <2>2. \/ d[1] = 0 /\ d[2] = 0
        \/ d[1] = 90 /\ d[2] = 160
        \/ d[1] = 640 /\ d[2] = 360
        \/ d[1] = 1920 /\ d[2] = 1080
    <3>1. d = <<0, 0>> \/ d = <<90, 160>> \/ d = <<640, 360>> \/ d = <<1920, 1080>>
      BY DEF StreamSizes
    <3>2. CASE d = <<90, 160>>
      BY <3>2
    <3>3. CASE d = <<640, 360>>
      BY <3>3
    <3>4. CASE d = <<1920, 1080>>
      BY <3>4
    <3>5. CASE d = <<0, 0>>
      BY <3>5
    <3>6. QED
      BY <3>1, <3>2, <3>3, <3>4, <3>5
  <2>3. (r.w = d[1] /\ r.h = d[2]) \/ (r.w = d[2] /\ r.h = d[1])
    <3>1. /\ s.w = d[1] /\ s.h = d[2]
          /\ [s EXCEPT !.w = s.h, !.h = s.w].w = d[2] /\ [s EXCEPT !.w = s.h, !.h = s.w].h = d[1]
      BY <2>1
    <3>2. r = s \/ r = [s EXCEPT !.w = s.h, !.h = s.w]
      BY DEF Watermark!Rotated
    <3> HIDE DEF r
    <3>3. CASE r = s
      BY <3>1, <3>3
    <3>4. CASE r = [s EXCEPT !.w = s.h, !.h = s.w]
      BY <3>1, <3>4
    <3>5. QED
      BY <3>2, <3>3, <3>4, Zenon
  <2> HIDE DEF r
  <2>4. QED
    BY <2>2, <2>3 DEF Frame
<1>2. /\ stage = "probe" /\ stage' = "probe"
      /\ picture' = IF Watermark!Beats(r) THEN [w |-> r.w, h |-> r.h, real |-> ~s.cover] ELSE picture
  BY DEF Watermark!ReadStream
<1> HIDE DEF r
<1>3. QED
  BY <1>1, <1>2 DEF Framed

(* What is drawn of a request.                                             *)
LEMMA DrawnText ==
  ASSUME PInv, Framed, NEW j \in Watermark!Requests, Watermark!Watermark(j)
  PROVE  WInv' /\ TextIsRead'
<1> DEFINE text == Watermark!RenderTextFit(j, Watermark!Budget(j))
           pieces == Watermark!Shown(j.template, text.company, text.date)
           total == Watermark!Total(pieces, text.company, j.recipient)
           named == Watermark!Named(pieces, text.company, j.recipient, 200)
           runes == IF j.own > 0 THEN j.own ELSE Watermark!AtMost(total, 200)
           logo == Watermark!LogoHeight(j)
           px == Watermark!FontPx(j, runes)
           top == Watermark!TextTop(j, px, logo)
           whole == j.own > 0 \/ named
<1>1. /\ stage = "style" /\ stage' = "style" /\ picture' = picture /\ style' = j
      /\ mark' = [of |-> "job", text |-> text, runes |-> runes, px |-> px, logo |-> logo,
                  whole |-> whole, top |-> top]
  BY DEF Watermark!Watermark, Watermark!MaxTextRunes
<1>2. /\ picture \in [w : Nat, h : Nat, real : BOOLEAN]
      /\ picture.w \in Nat /\ picture.h \in Nat
      /\ picture.w > 0 => Frame(picture.w, picture.h)
  BY <1>1 DEF PInv, Framed
<1>3. /\ GivesWay(j, Watermark!Budget(j), text) /\ total \in Nat /\ total >= 20
      /\ \/ named
         \/ /\ ~Has(pieces, "company") /\ ~Has(pieces, "date")
            /\ Watermark!Total(pieces, 0, j.recipient) > 200
  BY <1>2, FittedText
<1>4. j.own \in {0, 200}
  BY StyleTypes
<1> HIDE DEF text, pieces, total, named
<1>5. runes \in 20..200
  <2>1. Watermark!AtMost(total, 200) \in 20..200
    BY <1>3 DEF Watermark!AtMost
  <2>2. CASE j.own = 0
    <3>1. runes = Watermark!AtMost(total, 200)
      BY <2>2
    <3>2. QED
      BY <2>1, <3>1
  <2>3. CASE j.own = 200
    <3>1. runes = 200
      BY <2>3
    <3>2. QED
      BY <3>1
  <2>4. QED
    BY <1>4, <2>2, <2>3
<1>6. logo \in Nat
  BY <1>2, LogoRoom
<1> HIDE DEF runes, logo, px, top, whole
<1>7. /\ mark'.text = text /\ mark'.runes = runes /\ mark'.px = px /\ mark'.logo = logo
      /\ mark'.whole = whole /\ mark'.top = top
  BY <1>1
<1>8. /\ Watermark!BasePx' = Watermark!BasePx /\ Watermark!MinPx' = Watermark!MinPx
      /\ Watermark!AvailPx(style)' = Watermark!AvailPx(j)
      /\ Watermark!Budget(style)' = Watermark!Budget(j)
  BY <1>1 DEF Watermark!BasePx, Watermark!MinPx, Watermark!AvailPx, Watermark!Budget,
              Watermark!FrameWidth
<1>9. Watermark!Edge(style.position, mark.logo)' = Watermark!Edge(j.position, logo)
  BY <1>1, <1>7 DEF Watermark!Edge, Watermark!Margin
<1>10. /\ px \in 1..Watermark!BasePx
       /\ 62 * px * runes <= 100 * Watermark!AvailPx(j) \/ px = 6
       /\ runes <= Watermark!Budget(j) => px >= Watermark!MinPx
  <2>1. runes \in 1..200 /\ runes >= 2
    BY <1>5
  <2>2. QED
    BY <1>2, <2>1, FontFits DEF px
<1>11. WInv'
  <2>1. runes \in 1..200
    BY <1>5
  <2>2. QED
    BY <1>1, <1>7, <1>8, <1>10, <2>1 DEF WInv
<1>12. Watermark!RecipientWhole'
  <2>1. ASSUME ~Has(pieces, "company"), ~Has(pieces, "date")
        PROVE  Watermark!ToSet(pieces) \cap {"company", "date"} = {}
    BY <2>1 DEF Has, Watermark!ToSet
  <2>2. ~whole => /\ Watermark!ToSet(pieces) \cap {"company", "date"} = {}
                  /\ Watermark!Total(pieces, 0, j.recipient) > 200
    BY <1>3, <2>1 DEF whole
  <2>3. Watermark!Shown(style'.template, mark'.text.company, mark'.text.date) = pieces
    BY <1>1, <1>7 DEF pieces
  <2>4. QED
    BY <1>1, <1>7, <2>2, <2>3
    DEF Watermark!RecipientWhole, Watermark!Fitted, Watermark!Marked, Watermark!MaxTextRunes
<1>13. Watermark!GivesUpInOrder'
  <2> DEFINE budget == Watermark!Budget(j)
             shown == Watermark!Shown(j.template, text.company, text.date)
  <2>1. /\ Runed(j, j.company, TRUE) <= budget => text = Watermark!Text(j.company, TRUE)
        /\ text.company # j.company =>
             \A n \in 3..(j.company - 1) :
               Watermark!Cut(n, j.blank) > text.company => Runed(j, Watermark!Cut(n, j.blank), TRUE) > budget
        /\ ~text.date => Runed(j, 0, TRUE) > budget
        /\ Runed(j, text.company, text.date) > budget =>
             Watermark!ToSet(shown) \cap {"company", "date"} = {}
    <3> HIDE DEF budget
    <3>1. ASSUME \A p \in {"company", "date"} : ~Has(shown, p)
          PROVE  Watermark!ToSet(shown) \cap {"company", "date"} = {}
      BY <3>1 DEF Has, Watermark!ToSet
    <3>2. GivesWay(j, budget, text)
      BY <1>3 DEF budget
    <3> HIDE DEF shown
    <3>3. QED
      BY <3>1, <3>2 DEF GivesWay, shown
  <2>2. \A company, date : Watermark!Rendered(j.template, company, date, j.recipient) = Runed(j, company, date)
    BY DEF Runed
  <2> HIDE DEF budget, shown
  <2>3. Watermark!Budget(style)' = budget /\ style' = j /\ mark'.text = text
    BY <1>1, <1>7, <1>8 DEF budget
  <2>4. QED
    BY <2>1, <2>2, <2>3 DEF Watermark!GivesUpInOrder, Watermark!MinCompanyRunes, shown
<1>14. Watermark!FitsLine'
  BY <1>1, <1>7, <1>8, <1>10 DEF Watermark!FitsLine, Watermark!AbsMinPx
<1>15. Watermark!ClearOfLogo'
  <2>1. ASSUME logo > 0, j.position # "tiled"
        PROVE  LET edge == Watermark!Edge(j.position, logo)
               IN top + px <= edge + 1 \/ edge + logo <= top + 1
    <3>1. px \in Nat \ {0}
      BY <1>10
    <3>2. QED
      BY <1>2, <1>6, <2>1, <3>1, LookPlaces DEF top
  <2>2. QED
    BY <1>1, <1>7, <1>9, <2>1 DEF Watermark!ClearOfLogo
<1>16. Watermark!TextInPicture'
  <2>1. ASSUME picture.w > 0, j.position # "tiled", 2 * logo <= picture.h
        PROVE  top >= 0 /\ top + px <= picture.h
    <3> DEFINE m == Watermark!Margin
    <3>1. /\ m + logo + m \div 2 + px <= picture.h
          /\ picture.h \div 2 + logo \div 2 + m \div 2 + px <= picture.h
      <4>1. runes \in 20..200 /\ 2 * Watermark!LogoHeight(j) <= picture.h
        BY <1>5, <2>1 DEF logo
      <4>2. QED
        BY <1>2, <2>1, <4>1, FrameRoom DEF logo, px
    <3>2. px \in Nat \ {0}
      BY <1>10
    <3> HIDE DEF m
    <3>3. QED
      BY <1>2, <1>6, <2>1, <3>1, <3>2, LookPlaces DEF top, m
  <2>2. QED
    BY <1>1, <1>7, <2>1 DEF Watermark!TextInPicture
<1>17. QED
  BY <1>11, <1>12, <1>13, <1>14, <1>15, <1>16 DEF TextIsRead

LEMMA DrawnNext ==
  ASSUME PInv, Framed, WInv, TextIsRead, [JobNext]_allVars
  PROVE  Framed' /\ WInv' /\ TextIsRead'
<1>1. Watermark!Next \/ UNCHANGED watermarkVars
  BY DEF JobNext, allVars
<1>2. ASSUME mark = Watermark!None, mark' = Watermark!None
      PROVE  WInv' /\ TextIsRead'
  BY <1>2 DEF WInv, TextIsRead, Watermark!RecipientWhole, Watermark!GivesUpInOrder, Watermark!FitsLine,
              Watermark!ClearOfLogo, Watermark!TextInPicture, Watermark!Fitted, Watermark!Marked
<1>3. CASE UNCHANGED watermarkVars
  <2>1. Framed' /\ WInv'
    BY <1>3 DEF Framed, WInv, watermarkVars, Watermark!BasePx
  <2> DEFINE j == style
  <2>2. picture' = picture /\ style' = j /\ mark' = mark /\ j = style
    BY <1>3 DEF watermarkVars
  <2>3. /\ Watermark!Budget(style)' = Watermark!Budget(j)
        /\ Watermark!AvailPx(style)' = Watermark!AvailPx(j)
        /\ Watermark!MinPx' = Watermark!MinPx
        /\ Watermark!Edge(style.position, mark.logo)' = Watermark!Edge(j.position, mark.logo)
    BY <2>2 DEF Watermark!Budget, Watermark!AvailPx, Watermark!MinPx, Watermark!BasePx,
                Watermark!Edge, Watermark!Margin, Watermark!FrameWidth
  <2> HIDE DEF j
  <2>4. Watermark!RecipientWhole'
    BY <2>2 DEF TextIsRead, Watermark!RecipientWhole, Watermark!Fitted, Watermark!Marked
  <2>5. Watermark!GivesUpInOrder'
    BY <2>2, <2>3 DEF TextIsRead, Watermark!GivesUpInOrder, Watermark!Fitted, Watermark!Marked
  <2>6. Watermark!FitsLine'
    BY <2>2, <2>3 DEF TextIsRead, Watermark!FitsLine, Watermark!Marked
  <2>7. Watermark!ClearOfLogo'
    BY <2>2, <2>3 DEF TextIsRead, Watermark!ClearOfLogo, Watermark!Marked
  <2>8. Watermark!TextInPicture'
    BY <2>2 DEF TextIsRead, Watermark!TextInPicture, Watermark!Marked
  <2>9. TextIsRead'
    BY <2>4, <2>5, <2>6, <2>7, <2>8 DEF TextIsRead
  <2>10. QED
    BY <2>1, <2>9
<1>4. ASSUME NEW s \in Watermark!Streams, Watermark!ReadStream(s)
      PROVE  Framed' /\ WInv' /\ TextIsRead'
  <2>1. mark = Watermark!None /\ mark' = Watermark!None
    BY <1>4 DEF Watermark!ReadStream, WInv
  <2>2. QED
    BY <1>2, <1>4, <2>1, FramedReads
<1>5. CASE Watermark!EndProbe
  <2>1. mark = Watermark!None /\ mark' = Watermark!None
    BY <1>5 DEF Watermark!EndProbe, WInv
  <2>2. Framed'
    <3>1. picture' = [picture EXCEPT !.real = FALSE]
      BY <1>5 DEF Watermark!EndProbe
    <3>2. picture'.w = picture.w /\ picture'.h = picture.h
      BY <3>1 DEF PInv
    <3>3. QED
      BY <3>1, <3>2 DEF Framed
  <2>3. QED
    BY <1>2, <2>1, <2>2
<1>6. ASSUME NEW j \in Watermark!Requests, Watermark!Watermark(j)
      PROVE  Framed' /\ WInv' /\ TextIsRead'
  <2>1. stage' = stage /\ picture' = picture
    BY <1>6 DEF Watermark!Watermark
  <2>2. Framed'
    BY <2>1 DEF Framed
  <2>3. QED
    BY <1>6, <2>2, DrawnText
<1>7. QED
  BY <1>1, <1>3, <1>4, <1>5, <1>6 DEF Watermark!Next

LEMMA DrawnInit ==
  ASSUME Watermark!Init
  PROVE  Framed /\ WInv /\ TextIsRead
  BY DEF Watermark!Init, Framed, WInv, TextIsRead, Watermark!RecipientWhole,
         Watermark!GivesUpInOrder, Watermark!FitsLine, Watermark!ClearOfLogo,
         Watermark!TextInPicture, Watermark!Fitted, Watermark!Marked

(* In every reachable state a text that was drawn is read as TextIsRead    *)
(* asks for, and it is of a request and a picture that there are.          *)
THEOREM TextInvariance == JobSpec => [](Framed /\ WInv /\ TextIsRead)
<1>1. JobInit => Framed /\ WInv /\ TextIsRead
  BY DrawnInit DEF JobInit
<1>2. PInv /\ (Framed /\ WInv /\ TextIsRead) /\ [JobNext]_allVars =>
        (Framed /\ WInv /\ TextIsRead)'
  BY DrawnNext
<1>3. QED
  BY <1>1, <1>2, PictureInvariance, PTL DEF JobSpec

(* TextIsRead: the recipient is cut only where he and the operator's words *)
(* alone are longer than any text may be, the rest is given up in order    *)
(* and only when it has to be, a line stays in its share of the picture,   *)
(* and the text is in the picture and clear of the logo.                   *)
THEOREM TextsAreRead == JobSpec => []TextIsRead
  BY TextInvariance, PTL
-----------------------------------------------------------------------------
(* What is left of the types.                                              *)

Intents == {"none", "open", "altered", "processing", "succeeded", "underpaid"}

(* ... of a lone request's payment.                                        *)
LoneTypes ==
  /\ live \in BOOLEAN /\ linksOff \in BOOLEAN /\ unlocked \in BOOLEAN
  /\ ref \in [Payments -> BOOLEAN]
  /\ intent \in [Payments -> Intents]
  /\ handed \subseteq Payments /\ inbox \subseteq Payments
  /\ crashes \in 0..MaxCrashes /\ errors = 0

LEMMA LoneRequest ==
  ASSUME SInv, LoneTypes, Single!Begin(Alone) \/ Single!Advance(Alone)
  PROVE  LoneTypes'
<1> USE DEF SInv, AloneTypes, AtWork, LoneTypes, Payments, Single!Payments, Single!Goto,
            Single!Return, Single!Save, Single!job, Single!rows, Single!outside, Single!faults
<1>1. CASE \/ Single!CheckoutBegin(Alone) \/ Single!CheckoutList(Alone) \/ Single!InsertRow(Alone)
           \/ Single!StatusBegin(Alone) \/ Single!Reconcile(Alone)
           \/ Single!SwitchBegin(Alone) \/ Single!DeleteBegin(Alone)
  BY <1>1 DEF Single!CheckoutBegin, Single!CheckoutList, Single!InsertRow, Single!StatusBegin,
              Single!Reconcile, Single!SwitchBegin, Single!DeleteBegin
<1>2. CASE Single!ReuseIntent(Alone)
  BY <1>2 DEF Single!ReuseIntent
<1>3. CASE Single!CreateAtStripe(Alone)
  BY <1>3 DEF Single!CreateAtStripe, Intents
<1>4. CASE Single!RecordRef(Alone)
  BY <1>4 DEF Single!RecordRef
<1>5. CASE Single!StatusList(Alone)
  BY <1>5 DEF Single!StatusList
<1>6. CASE Single!MarkPaid(Alone) \/ Single!RecordPaid(Alone)
  BY <1>6 DEF Single!MarkPaid, Single!RecordPaid
<1>7. CASE Single!HookMark(Alone) \/ Single!HookRecord(Alone)
  BY <1>7 DEF Single!HookMark, Single!HookRecord
<1>8. CASE Single!Switch(Alone) \/ Single!DeleteJob(Alone)
  <2>1. CASE Single!Switch(Alone)
    <3>1. linksOff' \in BOOLEAN
      BY <2>1, Zenon DEF Single!Switch
    <3>2. QED
      BY <2>1, <3>1 DEF Single!Switch
  <2>2. CASE Single!DeleteJob(Alone)
    BY <2>2 DEF Single!DeleteJob
  <2>3. QED
    BY <1>8, <2>1, <2>2
<1>9. CASE \E p \in Single!Payments : Single!HookBegin(Alone, p)
  BY <1>9 DEF Single!HookBegin
<1>10. QED
  BY <1>1, <1>2, <1>3, <1>4, <1>5, <1>6, <1>7, <1>8, <1>9 DEF Single!Begin, Single!Advance

LEMMA LoneOthers ==
  ASSUME LoneTypes,
         \/ Single!CallFails(Alone) \/ Single!Crash
         \/ \E p \in Single!Payments : Single!Pay(p) \/ Single!Settle(p) \/ Single!Alter(p)
         \/ UNCHANGED vars
  PROVE  LoneTypes'
<1> USE DEF LoneTypes, Single!job, Single!rows, Single!outside, Single!faults
<1>1. ~Single!CallFails(Alone)
  BY DEF Single!CallFails
<1>2. CASE Single!Crash
  BY <1>2, PaymentsAssumption DEF Single!Crash
<1>3. ASSUME NEW p \in Single!Payments, Single!Pay(p) \/ Single!Settle(p) \/ Single!Alter(p)
      PROVE  LoneTypes'
  <2>1. /\ p \in Payments
        /\ intent' \in [Payments -> Intents] /\ inbox' \in {inbox, inbox \cup {p}}
        /\ UNCHANGED <<live, linksOff, unlocked, ref, handed, crashes, errors>>
    BY <1>3 DEF Single!Pay, Single!Settle, Single!Alter, Single!Succeed, Single!Payments, Payments, Intents
  <2>2. QED
    BY <2>1
<1>4. CASE UNCHANGED vars
  BY <1>4 DEF vars, job, rows, outside, faults
<1>5. QED
  BY <1>1, <1>2, <1>3, <1>4

(* ... of the files of the account.                                        *)
FileTypes ==
  /\ size \in [Jobs -> 0..MaxSize]
  /\ leaked \subseteq Media!Keys
  /\ recent \subseteq {j \in Jobs : Media!RowExists(j)}

LEMMA FileTypesNext ==
  ASSUME MInv, LInv, FileTypes, [JobNext]_allVars
  PROVE  FileTypes'
<1> USE DEF FileTypes, Media!RowExists, Media!table, Media!history
<1>1. Media!Next \/ UNCHANGED mediaVars
  BY DEF JobNext, allVars
<1>2. CASE UNCHANGED <<status, recent, size, leaked>>
  BY <1>2
<1>3. \A h \in Handlers : Uploading(h) => req[h].job \in Jobs
  BY DEF MInv, UploadsAlone
<1>4. asset \subseteq Media!Keys /\ files \subseteq Media!Keys /\ status \in [Jobs -> Statuses]
  BY DEF MInv, MediaTypes
<1>5. \A j \in Jobs : <<j, "original">> \in Media!Keys
  BY KeyShapes
<1>6. ASSUME NEW j \in Jobs, Media!RemoveRow(j)
      PROVE  size' \in [Jobs -> 0..MaxSize] /\ (recent \subseteq {i \in Jobs : Media!RowExists(i)})'
  BY <1>4, <1>6, JobAssumption DEF Media!RemoveRow
<1>7. ASSUME NEW h \in Handlers, Media!Request(h) \/ Media!Step(h)
      PROVE  FileTypes'
  <2>1. ASSUME NEW j \in Jobs, Media!InsertJob(h, j)
        PROVE  FileTypes'
    BY <1>4, <2>1 DEF Media!InsertJob
  <2>2. CASE Media!PutFails(h) \/ Media!DropFile(h)
    <3>1. req[h].job \in Jobs
      BY <1>3, <2>2 DEF Uploading, Media!PutFails, Media!DropFile
    <3>2. /\ leaked' \in {leaked, leaked \cup {<<req[h].job, "original">>}}
          /\ UNCHANGED <<status, recent, size>>
      BY <2>2 DEF Media!PutFails, Media!DropFile
    <3>3. QED
      BY <1>5, <3>1, <3>2
  <2>3. CASE Media!InsertAsset(h)
    <3>1. req[h].job \in Jobs /\ req[h].size \in 0..MaxSize
      BY <1>3, <2>3 DEF Uploading, Media!InsertAsset, LInv, LimitTypes
    <3>2. QED
      BY <2>3, <3>1 DEF Media!InsertAsset
  <2>4. CASE Media!DropRow(h)
    <3>1. req[h].job \in Jobs
      BY <1>3, <2>4 DEF Uploading, Media!DropRow
    <3>2. Media!RemoveRow(req[h].job) \/ UNCHANGED <<status, recent, size>>
      BY <2>4 DEF Media!DropRow
    <3>3. UNCHANGED leaked
      BY <2>4 DEF Media!DropRow
    <3>4. QED
      BY <1>6, <3>1, <3>2, <3>3
  <2>5. CASE Media!DeleteRow(h)
    <3>1. req[h].job \in Jobs
      BY <2>5 DEF MInv, DeletesGone, Media!DeleteRow
    <3>2. Media!RemoveRow(req[h].job) \/ UNCHANGED <<status, recent, size>>
      BY <2>5 DEF Media!DeleteRow
    <3>3. leaked' \subseteq leaked \cup asset
      BY <2>5 DEF Media!DeleteRow, Media!Listed
    <3>4. QED
      BY <1>4, <1>6, <3>1, <3>2, <3>3
  <2>6. CASE Media!DeleteFile(h)
    <3>1. req[h].keys \subseteq Media!Keys
      BY <2>6 DEF MInv, DeletesGone, Media!DeleteFile
    <3>2. leaked' \subseteq leaked \cup req[h].keys /\ UNCHANGED <<status, recent, size>>
      BY <2>6 DEF Media!DeleteFile
    <3>3. QED
      BY <3>1, <3>2
  <2>7. CASE \/ Media!CreateBegin(h) \/ Media!InsertFails(h) \/ Media!PutOriginal(h)
             \/ Media!Verify(h) \/ Media!AssetFails(h)
    BY <1>2, <2>7 DEF Media!CreateBegin, Media!InsertFails, Media!PutOriginal, Media!Verify, Media!AssetFails
  <2>8. CASE \/ Media!DeleteRefused(h) \/ Media!DeleteDone(h) \/ Media!Serve(h)
             \/ \E j \in Jobs : Media!DeleteBegin(h, j)
             \/ \E k \in Media!Keys : Media!Resolve(h, k)
    BY <1>2, <2>8 DEF Media!DeleteRefused, Media!DeleteDone, Media!Serve, Media!DeleteBegin, Media!Resolve
  <2>9. QED
    BY <1>7, <2>1, <2>2, <2>3, <2>4, <2>5, <2>6, <2>7, <2>8 DEF Media!Request, Media!Step
<1>8. ASSUME NEW j \in Jobs,
             \/ Media!Claim(j) \/ Media!Encode(j) \/ Media!AddPreview(j) \/ Media!MarkDone(j)
             \/ Media!MarkError(j) \/ Media!Age(j)
      PROVE  FileTypes'
  <2>1. UNCHANGED size /\ recent' \subseteq recent
    BY <1>8 DEF Media!Claim, Media!Encode, Media!AddPreview, Media!MarkDone, Media!MarkError, Media!Age
  <2>2. leaked' \subseteq Media!Keys
    BY <1>4, <1>8 DEF Media!Claim, Media!Encode, Media!AddPreview, Media!MarkDone, Media!MarkError, Media!Age
  <2>3. \A i \in Jobs : Media!RowExists(i) => Media!RowExists(i)'
    BY <1>4, <1>8 DEF Media!Claim, Media!Encode, Media!AddPreview, Media!MarkDone, Media!MarkError, Media!Age
  <2>4. QED
    BY <2>1, <2>2, <2>3
<1>9. CASE Media!Crash
  <2>1. UNCHANGED <<recent, size>> /\ leaked' \subseteq leaked \cup files
    BY <1>9 DEF Media!Crash
  <2>2. \A i \in Jobs : Media!RowExists(i) => Media!RowExists(i)'
    BY <1>4, <1>9 DEF Media!Crash
  <2>3. QED
    BY <1>4, <2>1, <2>2
<1>10. QED
  BY <1>1, <1>2, <1>7, <1>8, <1>9 DEF Media!Next, mediaVars

(* ... of the deliveries.                                                  *)
LossTypes == switched \in BOOLEAN /\ lost \in 0..MaxFaults

LEMMA LossTypesNext ==
  ASSUME LossTypes, [JobNext]_allVars
  PROVE  LossTypes'
<1> USE JobAssumption DEF LossTypes, Delivery!history, Delivery!Fault
<1>1. Delivery!Next \/ UNCHANGED deliveryVars
  BY DEF JobNext, allVars
<1>2. CASE UNCHANGED <<switched, lost>>
  BY <1>2
<1>3. ASSUME NEW h \in Handlers, Delivery!Request(h)
      PROVE  LossTypes'
  <2>1. UNCHANGED lost
    BY <1>3 DEF Delivery!Request, Delivery!Resend, Delivery!Preview, Delivery!SetLinks
  <2>2. switched' \in BOOLEAN
    <3>1. CASE Delivery!Resend(h) \/ Delivery!Preview(h)
      BY <3>1 DEF Delivery!Resend, Delivery!Preview
    <3>2. ASSUME NEW to \in BOOLEAN, Delivery!SetLinks(h, to)
          PROVE  switched' \in BOOLEAN
      BY <3>2, Zenon DEF Delivery!SetLinks
    <3>3. QED
      BY <1>3, <3>1, <3>2 DEF Delivery!Request
  <2>3. QED
    BY <2>1, <2>2
<1>4. ASSUME NEW h \in Handlers, Delivery!Step(h)
      PROVE  LossTypes'
  BY <1>4 DEF Delivery!Step, Delivery!MailLinks, Delivery!RecordResend, Delivery!RecordFails,
     Delivery!SetLinksDisabled, Delivery!RecordSwitch, Delivery!CountViews, Delivery!RecordView
<1>5. CASE Delivery!AgeMail \/ Delivery!AgeResent \/ Delivery!AgeView \/ Delivery!Crash
  BY <1>5 DEF Delivery!AgeMail, Delivery!AgeResent, Delivery!AgeView, Delivery!Crash
<1>6. QED
  BY <1>1, <1>2, <1>3, <1>4, <1>5 DEF Delivery!Next, deliveryVars
-----------------------------------------------------------------------------
TInv ==
  /\ part \in {"payments", "single", "media", "delivery", "watermark"}
  /\ part = "payments" => IInv
  /\ part = "single" => LoneTypes
  /\ FileTypes
  /\ LossTypes

LEMMA TypesInit == JobInit => TInv
<1> SUFFICES ASSUME JobInit PROVE TInv
  OBVIOUS
<1>1. part = "payments" => IInv
  BY PaymentsInit DEF JobInit
<1>2. part = "single" => LoneTypes
  <2> SUFFICES ASSUME Single!Init PROVE LoneTypes
    BY DEF JobInit
  <2>1. /\ live = TRUE /\ linksOff = FALSE /\ unlocked = FALSE /\ handed = {} /\ inbox = {}
        /\ ref = [p \in Payments |-> FALSE] /\ intent = [p \in Payments |-> "none"]
        /\ crashes = 0 /\ errors = 0
    BY DEF Single!Init, Single!Payments, Payments
  <2>2. ref \in [Payments -> BOOLEAN] /\ intent \in [Payments -> Intents]
    BY <2>1 DEF Intents
  <2>3. crashes \in 0..MaxCrashes
    BY <2>1, PaymentsAssumption
  <2>4. QED
    BY <2>1, <2>2, <2>3 DEF LoneTypes
<1>3. FileTypes
  BY JobAssumption DEF JobInit, Media!Init, FileTypes, Media!RowExists
<1>4. LossTypes
  <2>1. switched = FALSE /\ lost = 0
    BY DEF JobInit, Delivery!Init
  <2>2. lost \in 0..MaxFaults
    BY <2>1, JobAssumption
  <2>3. QED
    BY <2>1, <2>2 DEF LossTypes
<1>5. QED
  BY <1>1, <1>2, <1>3, <1>4 DEF TInv, JobInit

LEMMA TypesNext ==
  ASSUME TInv, part = "single" => SInv, MInv, LInv, [JobNext]_allVars
  PROVE  TInv'
<1>1. part' = part
  BY DEF JobNext, allVars
<1>2. ASSUME part = "payments" PROVE IInv'
  <2>1. Next \/ UNCHANGED vars
    BY <1>2 DEF JobNext, allVars
  <2>2. QED
    BY <1>2, <2>1, PaymentsNext DEF TInv
<1>3. ASSUME part = "single" PROVE LoneTypes'
  <2>1. Single!Next \/ UNCHANGED vars
    BY <1>3 DEF JobNext, allVars
  <2>2. QED
    BY <1>3, <2>1, LoneRequest, LoneOthers DEF TInv, Single!Next
<1>4. FileTypes' /\ LossTypes'
  BY FileTypesNext, LossTypesNext DEF TInv
<1>5. QED
  BY <1>1, <1>2, <1>3, <1>4 DEF TInv

(* In every reachable state the variables have the types that the other    *)
(* invariants say nothing of.                                              *)
THEOREM TypeInvariance == JobSpec => []TInv
<1>1. TInv /\ (part = "single" => SInv) /\ MInv /\ LInv /\ [JobNext]_allVars => TInv'
  BY TypesNext
<1>2. QED
  BY <1>1, TypesInit, SingleInvariance, MediaInvariance, LimitInvariance, PTL DEF JobSpec

(* TypesOK: every variable keeps its type, in each part; with any number   *)
(* of requests an asset and a recent upload belong to a job that is there  *)
(* (the foreign key), and a font never outgrows the look.                  *)
THEOREM JobTypes == JobSpec => []TypesOK
<1>1. ASSUME TInv, part = "single" => SInv, MInv, DInv, RInv, PInv, WInv
      PROVE  TypesOK
  <2>1. CASE part = "payments"
    BY <1>1, <2>1 DEF TInv, IInv, TypesOK
  <2>2. CASE part = "single"
    <3>1. Single!TypeOK
      BY <1>1, <2>2
      DEF TInv, LoneTypes, SInv, AloneTypes, Intents, Single!TypeOK, Single!Payments, Payments,
          Single!Steps, Steps
    <3>2. QED
      BY <2>2, <3>1 DEF TypesOK
  <2>3. CASE part = "media"
    <3>1. Media!TypeOK
      BY <1>1 DEF TInv, FileTypes, MInv, MediaTypes, Statuses, Media!TypeOK
    <3>2. QED
      BY <2>3, <3>1 DEF TypesOK
  <2>4. CASE part = "delivery"
    <3>1. Delivery!TypeOK
      BY <1>1 DEF TInv, LossTypes, DInv, DeliveryTypes, RInv, Delivery!TypeOK
    <3>2. QED
      BY <2>4, <3>1 DEF TypesOK
  <2>5. CASE part = "watermark"
    <3>1. Watermark!TypeOK
      BY <1>1 DEF WInv, PInv, Watermark!TypeOK, Watermark!MaxTextRunes
    <3>2. QED
      BY <2>5, <3>1 DEF TypesOK
  <2>6. QED
    BY <1>1, <2>1, <2>2, <2>3, <2>4, <2>5 DEF TInv
<1>2. QED
  BY <1>1, TypeInvariance, SingleInvariance, MediaInvariance, DeliveryInvariance, LimitInvariance,
     PictureInvariance, TextInvariance, PTL
=============================================================================
