--------------------------- MODULE SettingsProofs ----------------------------
(***************************************************************************)
(* What an account and its brand promise for any number of requests,       *)
(* prompts, passkeys, sessions, pictures and uploads, wherever the process *)
(* dies.                                                                   *)
(***************************************************************************)
EXTENDS MCSettings, Sums

Requests ==
  {Idle}
    \cup [at : {"create"}, prompt : Prompts]
    \cup [at : {"rest"}]
    \cup [at : {"load"}, field : {"require"}, value : BOOLEAN]
    \cup [at : {"load"}, field : {"role"}, value : Roles]
    \cup [at : {"write"}, field : {"require", "role"}, row : Rows]
    \cup [at : {"touch", "drop"}, session : Sessions]

Types ==
  /\ row \in Rows
  /\ keys \subseteq made /\ made \subseteq Passkeys
  /\ live \subseteq started /\ started \subseteq Sessions /\ expired \subseteq started
  /\ prompt \in [Prompts -> {"none", "open", "taken"}]
  /\ mixed \in BOOLEAN /\ outlived \subseteq started
  /\ req \in [Handlers -> Requests]

(* A prompt is answered by one request, and a request answers a prompt it  *)
(* took.                                                                   *)
Answers ==
  \A h \in Handlers : req[h].at = "create" =>
    /\ prompt[req[h].prompt] = "taken"
    /\ \A i \in Handlers : req[i].at = "create" /\ req[i].prompt = req[h].prompt => i = h

(* Passkeys and the prompts that may still add one.                        *)
Open == {p \in Prompts : prompt[p] # "none"}

RoomLeft == Cardinality(keys) + Cardinality(Open) <= MaxPasskeys + Cardinality(Prompts) - 1

LockedOut == row.require /\ keys = {}

(* As long as changes come one at a time, the one on its way started from  *)
(* an account that is not locked out, and leaves one that is not.          *)
OneChange ==
  \A h \in Handlers : Changing(h) /\ ~mixed =>
    /\ \A i \in Handlers : Changing(i) => i = h
    /\ req[h].at = "create" => ~LockedOut
    /\ req[h].at = "load" /\ req[h].field = "role" => ~LockedOut
    /\ req[h].at = "load" /\ req[h].field = "require" => ~req[h].value \/ keys # {}
    /\ req[h].at = "write" => ~req[h].row.require \/ keys # {}

AInv ==
  /\ Types
  /\ Answers
  /\ RoomLeft
  /\ OneChange
  /\ NoLockout
-----------------------------------------------------------------------------

LEMMA IdleIsRequest == Idle \in Requests /\ Idle.at = "idle"
  BY DEF Requests, Idle

LEMMA Fields ==
  ASSUME Types, NEW h \in Handlers
  PROVE  /\ req[h].at = "create" => req[h].prompt \in Prompts
         /\ req[h].at = "load" => /\ req[h].field \in {"require", "role"}
                                  /\ req[h].field = "require" => req[h].value \in BOOLEAN
                                  /\ req[h].field = "role" => req[h].value \in Roles
         /\ req[h].at = "write" => req[h].row \in Rows /\ req[h].field \in {"require", "role"}
         /\ req[h].at \in {"touch", "drop"} => req[h].session \in Sessions
<1>1. req[h] \in Requests
  BY DEF Types
<1>2. QED
  BY <1>1 DEF Requests, Idle

LEMMA Became ==
  ASSUME Types, NEW h \in Handlers, NEW r, Become(h, r)
  PROVE  req'[h] = r /\ \A i \in Handlers : i # h => req'[i] = req[i]
  BY DEF Types, Become

LEMMA BecameTyped ==
  ASSUME Types, NEW h \in Handlers, NEW r \in Requests, Become(h, r)
  PROVE  req' \in [Handlers -> Requests]
  BY DEF Types, Become

(* The passkeys there are and those a prompt can still add.                *)
LEMMA Counts ==
  ASSUME Types
  PROVE  /\ IsFiniteSet(keys) /\ IsFiniteSet(Open) /\ Open \subseteq Prompts
         /\ Cardinality(keys) \in Nat /\ Cardinality(Open) \in Nat
         /\ Cardinality(Prompts) \in Nat /\ Cardinality(Prompts) >= 1
         /\ Cardinality(Open) <= Cardinality(Prompts)
<1>1. IsFiniteSet(Passkeys) /\ IsFiniteSet(Prompts) /\ Prompts # {}
  BY AccountAssumption
<1>2. keys \in SUBSET Passkeys /\ Open \in SUBSET Prompts
  BY DEF Types, Open
<1>3. IsFiniteSet(keys) /\ IsFiniteSet(Open) /\ Cardinality(Open) <= Cardinality(Prompts)
  BY <1>1, <1>2, FS_Subset
<1>4. Cardinality(keys) \in Nat /\ Cardinality(Open) \in Nat /\ Cardinality(Prompts) \in Nat
  BY <1>1, <1>3, FS_CardinalityType
<1>5. Cardinality(Prompts) # 0
  BY <1>1, FS_EmptySet
<1>6. QED
  BY <1>2, <1>3, <1>4, <1>5

(* No more passkeys and no more prompts leave as much room.                *)
LEMMA RoomStays ==
  ASSUME Types, Types', RoomLeft, keys' \subseteq keys, Open' \subseteq Open
  PROVE  RoomLeft'
<1> DEFINE k == Cardinality(keys)
           kk == Cardinality(keys')
           o == Cardinality(Open)
           oo == Cardinality(Open')
           n == Cardinality(Prompts)
<1>1. k \in Nat /\ o \in Nat /\ n \in Nat /\ kk <= k /\ oo <= o
  BY Counts, FS_Subset
<1>2. kk \in Nat /\ oo \in Nat /\ MaxPasskeys \in Nat
  BY Counts, FS_Subset, FS_CardinalityType, AccountAssumption
<1>3. k + o <= MaxPasskeys + n - 1
  BY DEF RoomLeft
<1> HIDE DEF k, kk, o, oo, n
<1>4. kk + oo <= MaxPasskeys + n - 1
  BY <1>1, <1>2, <1>3
<1>5. QED
  BY <1>4 DEF kk, oo, n, RoomLeft

(* Steps that leave the account, its passkeys and the changes under way    *)
(* alone.                                                                  *)
LEMMA Beside ==
  ASSUME AInv, Types', UNCHANGED <<row, keys, mixed>>,
         \A p \in Prompts : prompt'[p] # prompt[p] => prompt[p] = "open" /\ prompt'[p] = "none",
         \A h \in Handlers : Changing(h) \/ Changing(h)' => req'[h] = req[h]
  PROVE  AInv'
<1>1. Answers'
  <2>1. ASSUME NEW h \in Handlers, req'[h].at = "create"
        PROVE  req'[h] = req[h] /\ req[h].prompt \in Prompts /\ prompt'[req[h].prompt] = "taken"
    <3>1. req'[h] = req[h]
      BY <2>1 DEF Changing
    <3>2. QED
      BY <2>1, <3>1, Fields DEF AInv, Answers
  <2>2. QED
    BY <2>1 DEF AInv, Answers
<1>2. RoomLeft'
  <2>1. Open' \subseteq Open
    BY DEF Open
  <2>2. QED
    BY <2>1, RoomStays DEF AInv
<1>3. OneChange'
  BY DEF AInv, OneChange, Changing, LockedOut
<1>4. NoLockout'
  BY DEF AInv, NoLockout, Changing
<1>5. QED
  BY <1>1, <1>2, <1>3, <1>4 DEF AInv
-----------------------------------------------------------------------------
(* A request that begins to change the account does so alone, or the       *)
(* history says that it did not.                                           *)
LEMMA Beginning ==
  ASSUME AInv, Types', NEW h \in Handlers, ~Changing(h), NEW r, Become(h, r), Begins(h),
         row' = row,
         r.at \in {"load", "rest", "create"},
         r.at = "create" => keys' = keys,
         r.at = "load" => keys' = keys /\ (r.field = "require" => ~r.value \/ keys # {})
  PROVE  OneChange' /\ NoLockout'
<1>1. req'[h] = r /\ \A i \in Handlers : i # h => req'[i] = req[i]
  BY Became DEF AInv
<1>2. Changing(h)'
  BY <1>1 DEF Changing
<1>3. NoLockout'
  BY <1>2 DEF NoLockout
<1>4. ASSUME NEW g \in Handlers, Changing(g)', ~mixed'
      PROVE  g = h /\ ~mixed /\ \A i \in Handlers : ~Changing(i)
  BY <1>1, <1>4 DEF Begins, Changing
<1>5. ~mixed' => ~LockedOut
  BY <1>2, <1>4 DEF AInv, NoLockout, LockedOut
<1>6. OneChange'
  BY <1>1, <1>4, <1>5 DEF OneChange, LockedOut
<1>7. QED
  BY <1>3, <1>6

(* A request that goes on with its change, or ends it well.                *)
LEMMA GoingOn ==
  ASSUME AInv, Types', NEW h \in Handlers, Changing(h), NEW r, Become(h, r), mixed' = mixed,
         r.at \in {"load", "write", "idle"},
         ~mixed /\ r.at = "idle" => ~LockedOut',
         ~mixed /\ r.at = "load" => /\ r.field = "role" => ~LockedOut'
                                    /\ r.field = "require" => ~r.value \/ keys' # {},
         ~mixed /\ r.at = "write" => ~r.row.require \/ keys' # {}
  PROVE  OneChange' /\ NoLockout'
<1>1. req'[h] = r /\ \A i \in Handlers : i # h => req'[i] = req[i]
  BY Became DEF AInv
<1>2. ~mixed => \A i \in Handlers : Changing(i) => i = h
  BY DEF AInv, OneChange
<1>3. ~mixed => \A i \in Handlers : Changing(i)' => i = h
  BY <1>1, <1>2 DEF Changing
<1>4. OneChange'
  BY <1>1, <1>3 DEF OneChange
<1>5. r.at # "idle" => Changing(h)'
  BY <1>1 DEF Changing
<1>6. NoLockout'
  BY <1>5 DEF NoLockout, LockedOut
<1>7. QED
  BY <1>4, <1>6

(* No request about to answer a prompt changes, and no prompt is taken.    *)
LEMMA AnswersStay ==
  ASSUME AInv, Types', NEW h \in Handlers, NEW r, Become(h, r), r.at # "create",
         \A p \in Prompts : prompt'[p] # prompt[p] => req[h].at = "create" /\ p = req[h].prompt
  PROVE  Answers'
<1>1. req'[h] = r /\ \A i \in Handlers : i # h => req'[i] = req[i]
  BY Became DEF AInv
<1>2. ASSUME NEW g \in Handlers, req'[g].at = "create"
      PROVE  /\ g # h /\ req'[g] = req[g] /\ req[g].prompt \in Prompts
             /\ prompt'[req[g].prompt] = "taken"
  BY <1>1, <1>2, Fields DEF AInv, Answers
<1>3. QED
  BY <1>2 DEF AInv, Answers

LEMMA KeepsBeginRegistration ==
  ASSUME AInv, NEW p \in Prompts, BeginPasskeyRegistration(p)
  PROVE  AInv'
<1>1. /\ prompt[p] = "none" /\ prompt' = [prompt EXCEPT ![p] = "open"]
      /\ UNCHANGED <<row, keys, made, live, started, expired, req, mixed, outlived>>
  BY DEF BeginPasskeyRegistration, sessions, history
<1>2. Types'
  BY <1>1 DEF AInv, Types
<1>3. Answers'
  BY <1>1, Fields DEF AInv, Answers, Types
<1>4. RoomLeft'
  <2>1. Open' = Open \cup {p} /\ p \notin Open
    BY <1>1 DEF Open, AInv, Types
  <2>2. Cardinality(Open') = Cardinality(Open) + 1
    BY <2>1, Counts, FS_AddElement DEF AInv
  <2>3. Cardinality(keys) < MaxPasskeys /\ keys' = keys
    BY <1>1 DEF BeginPasskeyRegistration, RoomForKey
  <2> DEFINE k == Cardinality(keys)
             o == Cardinality(Open)
             oo == Cardinality(Open')
             n == Cardinality(Prompts)
  <2>4. k \in Nat /\ o \in Nat /\ n \in Nat /\ oo \in Nat /\ oo <= n /\ MaxPasskeys \in Nat
    <3>1. Open' \in SUBSET Prompts
      BY DEF Open
    <3>2. Cardinality(Open') <= Cardinality(Prompts)
      BY <3>1, AccountAssumption, FS_Subset
    <3>3. QED
      BY <2>2, <3>2, Counts, AccountAssumption DEF AInv
  <2> HIDE DEF k, o, oo, n
  <2>5. k + oo <= MaxPasskeys + n - 1
    BY <2>3, <2>4 DEF k
  <2>6. QED
    BY <2>3, <2>5 DEF k, oo, n, RoomLeft
<1>5. OneChange' /\ NoLockout'
  BY <1>1 DEF AInv, OneChange, NoLockout, LockedOut, Changing
<1>6. QED
  BY <1>2, <1>3, <1>4, <1>5 DEF AInv

LEMMA KeepsPromptExpires ==
  ASSUME AInv, NEW p \in Prompts, PromptExpires(p)
  PROVE  AInv'
<1>1. /\ prompt[p] = "open" /\ prompt' = [prompt EXCEPT ![p] = "none"]
      /\ UNCHANGED <<row, keys, made, live, started, expired, req, mixed, outlived>>
  BY DEF PromptExpires, sessions, history
<1>2. Types'
  BY <1>1 DEF AInv, Types
<1>3. \A q \in Prompts : prompt'[q] # prompt[q] => prompt[q] = "open" /\ prompt'[q] = "none"
  BY <1>1 DEF AInv, Types
<1>4. QED
  BY <1>1, <1>2, <1>3, Beside

LEMMA KeepsFinishRegistration ==
  ASSUME AInv, NEW h \in Handlers, NEW p \in Prompts, FinishPasskeyRegistration(h, p)
  PROVE  AInv'
<1> DEFINE r == [at |-> "create", prompt |-> p]
<1>1. /\ prompt[p] = "open" /\ prompt' = [prompt EXCEPT ![p] = "taken"] /\ Begins(h)
      /\ UNCHANGED <<row, keys, made, live, started, expired, outlived>>
  BY DEF FinishPasskeyRegistration, sessions
<1>2. ~Changing(h) /\ Become(h, r) /\ r \in Requests /\ r.at = "create" /\ r.prompt = p
  BY DEF FinishPasskeyRegistration, Changing, Idle, Requests
<1> HIDE DEF r
<1>3. Types'
  BY <1>1, <1>2, BecameTyped DEF AInv, Types, Begins
<1>4. req'[h] = r /\ \A i \in Handlers : i # h => req'[i] = req[i]
  BY <1>2, Became DEF AInv
<1>5. Answers'
  <2>1. ASSUME NEW g \in Handlers, g # h, req'[g].at = "create"
        PROVE  req[g].prompt \in Prompts /\ req[g].prompt # p /\ prompt'[req[g].prompt] = "taken"
    BY <1>1, <1>4, <2>1, Fields DEF AInv, Answers, Types
  <2>2. prompt'[p] = "taken"
    BY <1>1 DEF AInv, Types
  <2>3. QED
    BY <1>2, <1>4, <2>1, <2>2 DEF AInv, Answers
<1>6. RoomLeft'
  <2>1. Open' = Open
    BY <1>1 DEF Open, AInv, Types
  <2>2. QED
    BY <1>1, <2>1 DEF AInv, RoomLeft
<1>7. OneChange' /\ NoLockout'
  BY <1>1, <1>2, <1>3, Beginning
<1>8. QED
  BY <1>3, <1>5, <1>6, <1>7 DEF AInv

LEMMA KeepsCreatePasskey ==
  ASSUME AInv, NEW h \in Handlers, CreatePasskey(h)
  PROVE  AInv'
<1>1. PICK p \in Prompts : p = req[h].prompt /\ prompt[p] = "taken"
  BY Fields DEF CreatePasskey, AInv, Answers
<1>2. /\ req[h].at = "create" /\ prompt' = [prompt EXCEPT ![p] = "none"] /\ Become(h, Idle)
      /\ UNCHANGED <<row, live, started, expired, mixed, outlived>>
      /\ \/ \E k \in Passkeys \ made : keys' = keys \cup {k} /\ made' = made \cup {k}
         \/ UNCHANGED <<keys, made>>
  BY <1>1 DEF CreatePasskey, Done, sessions, history
<1>3. Types'
  BY <1>2, IdleIsRequest, BecameTyped DEF AInv, Types
<1>4. Answers'
  <2>1. \A q \in Prompts : prompt'[q] # prompt[q] => q = p
    BY <1>2 DEF AInv, Types
  <2>2. QED
    BY <1>1, <1>2, <1>3, <2>1, IdleIsRequest, AnswersStay
<1>5. RoomLeft'
  <2>1. Open' = Open \ {p} /\ p \in Open
    BY <1>1, <1>2 DEF Open, AInv, Types
  <2>2. Cardinality(Open') = Cardinality(Open) - 1
    BY <2>1, Counts, FS_RemoveElement DEF AInv
  <2>3. \E k : keys' \subseteq keys \cup {k}
    BY <1>2
  <2>4. Cardinality(keys') \in Nat /\ Cardinality(keys') <= Cardinality(keys) + 1
    <3>1. PICK k : keys' \subseteq keys \cup {k}
      BY <2>3
    <3>2. IsFiniteSet(keys \cup {k}) /\ Cardinality(keys \cup {k}) <= Cardinality(keys) + 1
      <4>1. IsFiniteSet(keys) /\ Cardinality(keys) \in Nat
        BY Counts DEF AInv
      <4>2. /\ IsFiniteSet(keys \cup {k})
            /\ \/ Cardinality(keys \cup {k}) = Cardinality(keys)
               \/ Cardinality(keys \cup {k}) = Cardinality(keys) + 1
        BY <4>1, FS_AddElement
      <4>3. QED
        BY <4>1, <4>2
    <3>3. IsFiniteSet(keys') /\ Cardinality(keys') <= Cardinality(keys \cup {k})
      BY <3>1, <3>2, FS_Subset
    <3>4. Cardinality(keys') \in Nat /\ Cardinality(keys \cup {k}) \in Nat /\ Cardinality(keys) \in Nat
      BY <3>2, <3>3, FS_CardinalityType, Counts DEF AInv
    <3>5. QED
      BY <3>2, <3>3, <3>4
  <2> DEFINE k == Cardinality(keys)
             kk == Cardinality(keys')
             o == Cardinality(Open)
             oo == Cardinality(Open')
             n == Cardinality(Prompts)
  <2>5. k \in Nat /\ o \in Nat /\ n \in Nat /\ MaxPasskeys \in Nat /\ k + o <= MaxPasskeys + n - 1
        /\ oo = o - 1 /\ kk \in Nat /\ kk <= k + 1
    BY <2>2, <2>4, Counts, AccountAssumption DEF AInv, RoomLeft
  <2> HIDE DEF k, kk, o, oo, n
  <2>6. kk + oo <= MaxPasskeys + n - 1
    BY <2>5
  <2>7. QED
    BY <2>6 DEF kk, oo, n, RoomLeft
<1>6. OneChange' /\ NoLockout'
  <2>1. Changing(h)
    BY <1>2 DEF Changing
  <2>2. ~mixed => ~LockedOut'
    BY <1>2, <2>1 DEF AInv, OneChange, LockedOut
  <2>3. QED
    BY <1>2, <1>3, <2>1, <2>2, IdleIsRequest, GoingOn
<1>7. QED
  BY <1>3, <1>4, <1>5, <1>6 DEF AInv

LEMMA KeepsDeletePasskey ==
  ASSUME AInv, NEW h \in Handlers, NEW k \in Passkeys, DeletePasskey(h, k)
  PROVE  AInv'
<1> DEFINE r == [at |-> "rest"]
<1>1. /\ keys' = keys \ {k} /\ Begins(h)
      /\ UNCHANGED <<row, made, prompt, live, started, expired, outlived>>
  BY DEF DeletePasskey, sessions
<1>2. ~Changing(h) /\ Become(h, r) /\ r \in Requests /\ r.at = "rest"
  BY DEF DeletePasskey, Changing, Idle, Requests
<1> HIDE DEF r
<1>3. Types'
  BY <1>1, <1>2, BecameTyped DEF AInv, Types, Begins
<1>4. Answers'
  BY <1>1, <1>2, <1>3, AnswersStay
<1>5. RoomLeft'
  BY <1>1, <1>3, RoomStays DEF AInv, Open
<1>6. OneChange' /\ NoLockout'
  BY <1>1, <1>2, <1>3, Beginning
<1>7. QED
  BY <1>3, <1>4, <1>5, <1>6 DEF AInv

LEMMA KeepsListRest ==
  ASSUME AInv, NEW h \in Handlers, ListRest(h)
  PROVE  AInv'
<1> DEFINE r == IF LastGone THEN [at |-> "load", field |-> "require", value |-> FALSE] ELSE Idle
<1>1. /\ req[h].at = "rest" /\ Become(h, r)
      /\ UNCHANGED <<row, keys, made, prompt, live, started, expired, mixed, outlived>>
  BY DEF ListRest, passkeys, sessions, history
<1>2. r \in Requests
  BY IdleIsRequest DEF Requests
<1>3. /\ r.at \in {"load", "idle"}
      /\ r.at = "idle" => keys # {}
      /\ r.at = "load" => r.field = "require" /\ r.value = FALSE
  BY DEF Idle, LastGone
<1> HIDE DEF r
<1>4. Types'
  BY <1>1, <1>2, BecameTyped DEF AInv, Types
<1>5. Answers'
  BY <1>1, <1>3, <1>4, AnswersStay
<1>6. RoomLeft'
  BY <1>1, <1>4, RoomStays DEF AInv, Open
<1>7. OneChange' /\ NoLockout'
  <2>1. Changing(h)
    BY <1>1 DEF Changing
  <2>2. QED
    BY <1>1, <1>3, <1>4, <2>1, GoingOn DEF LockedOut
<1>8. QED
  BY <1>4, <1>5, <1>6, <1>7 DEF AInv

LEMMA KeepsBeginChange ==
  ASSUME AInv, NEW h \in Handlers, NEW r \in Requests,
         ~Changing(h), Become(h, r), Begins(h), r.at = "load",
         r.field = "require" => ~r.value \/ keys # {},
         UNCHANGED <<row, passkeys, sessions, outlived>>
  PROVE  AInv'
<1>1. UNCHANGED <<row, keys, made, prompt, live, started, expired, outlived>>
  BY DEF passkeys, sessions
<1>2. Types'
  BY <1>1, BecameTyped DEF AInv, Types, Begins
<1>3. Answers'
  BY <1>1, <1>2, AnswersStay
<1>4. RoomLeft'
  BY <1>1, <1>2, RoomStays DEF AInv, Open
<1>5. OneChange' /\ NoLockout'
  BY <1>1, <1>2, Beginning
<1>6. QED
  BY <1>2, <1>3, <1>4, <1>5 DEF AInv

LEMMA KeepsSetRequirePasskey ==
  ASSUME AInv, NEW h \in Handlers, NEW on \in BOOLEAN, SetRequirePasskey(h, on)
  PROVE  AInv'
<1> DEFINE r == [at |-> "load", field |-> "require", value |-> on]
<1>1. r \in Requests /\ r.at = "load" /\ r.value = on
  BY DEF Requests
<1>2. /\ ~Changing(h) /\ Become(h, r) /\ Begins(h) /\ (on => keys # {})
      /\ UNCHANGED <<row, passkeys, sessions, outlived>>
  BY DEF SetRequirePasskey, MayRequire, Changing, Idle
<1> HIDE DEF r
<1>3. QED
  BY <1>1, <1>2, KeepsBeginChange

LEMMA KeepsSetRole ==
  ASSUME AInv, NEW h \in Handlers, NEW role, SetRole(h, role)
  PROVE  AInv'
<1> DEFINE r == [at |-> "load", field |-> "role", value |-> role]
<1>1. r \in Requests /\ r.at = "load" /\ r.field = "role"
  BY DEF Requests, SetRole, ValidRole
<1>2. /\ ~Changing(h) /\ Become(h, r) /\ Begins(h)
      /\ UNCHANGED <<row, passkeys, sessions, outlived>>
  BY DEF SetRole, Changing, Idle
<1> HIDE DEF r
<1>3. QED
  BY <1>1, <1>2, KeepsBeginChange

(* The copy differs from the row in the one field.                         *)
LEMMA KeepsLoadRow ==
  ASSUME AInv, NEW h \in Handlers, LoadRow(h)
  PROVE  AInv'
<1> DEFINE new == [row EXCEPT ![req[h].field] = req[h].value]
           r == IF new = row THEN Idle
                ELSE [at |-> "write", field |-> req[h].field, row |-> new]
<1>1. /\ req[h].at = "load" /\ Become(h, r)
      /\ UNCHANGED <<row, keys, made, prompt, live, started, expired, mixed, outlived>>
  BY DEF LoadRow, passkeys, sessions, history
<1>2. /\ new \in Rows
      /\ req[h].field = "require" => new.require = req[h].value
      /\ req[h].field = "role" => new.require = row.require
  <2>1. row \in Rows
    BY DEF AInv, Types
  <2>2. CASE req[h].field = "require"
    <3>1. req[h].value \in BOOLEAN
      BY <1>1, <2>2, Fields DEF AInv
    <3>2. [row EXCEPT !["require"] = req[h].value] \in Rows
          /\ [row EXCEPT !["require"] = req[h].value].require = req[h].value
      BY <2>1, <3>1 DEF Rows
    <3>3. QED
      BY <2>2, <3>2
  <2>3. CASE req[h].field = "role"
    <3>1. req[h].value \in Roles
      BY <1>1, <2>3, Fields DEF AInv
    <3>2. [row EXCEPT !["role"] = req[h].value] \in Rows
          /\ [row EXCEPT !["role"] = req[h].value].require = row.require
      BY <2>1, <3>1 DEF Rows
    <3>3. QED
      BY <2>3, <3>2
  <2>4. QED
    BY <1>1, <2>2, <2>3, Fields DEF AInv
<1> HIDE DEF new
<1>3. /\ r \in Requests
      /\ r.at \in {"write", "idle"}
      /\ r.at = "idle" => new = row
      /\ r.at = "write" => r.row = new
  <2>1. CASE new = row
    BY <2>1, IdleIsRequest
  <2>2. CASE new # row
    BY <1>1, <1>2, <2>2, Fields DEF Requests, AInv
  <2>3. QED
    BY <2>1, <2>2
<1> HIDE DEF r
<1>4. Types'
  BY <1>1, <1>3, BecameTyped DEF AInv, Types
<1>5. Answers'
  BY <1>1, <1>3, <1>4, AnswersStay
<1>6. RoomLeft'
  BY <1>1, <1>4, RoomStays DEF AInv, Open
<1>7. OneChange' /\ NoLockout'
  <2>1. Changing(h)
    BY <1>1 DEF Changing
  <2>2. ~mixed => ~new.require \/ keys # {}
    BY <1>1, <1>2, <2>1, Fields DEF AInv, OneChange, LockedOut
  <2>3. QED
    BY <1>1, <1>3, <1>4, <2>1, <2>2, GoingOn DEF LockedOut
<1>8. QED
  BY <1>4, <1>5, <1>6, <1>7 DEF AInv

LEMMA KeepsWriteRow ==
  ASSUME AInv, NEW h \in Handlers, WriteRow(h)
  PROVE  AInv'
<1>1. /\ req[h].at = "write" /\ row' = req[h].row /\ Become(h, Idle)
      /\ outlived' \in {live, outlived}
      /\ UNCHANGED <<keys, made, prompt, live, started, expired, mixed>>
  BY DEF WriteRow, Done, passkeys, sessions
<1>2. Types'
  BY <1>1, IdleIsRequest, BecameTyped, Fields DEF AInv, Types
<1>3. Answers'
  BY <1>1, <1>2, IdleIsRequest, AnswersStay
<1>4. RoomLeft'
  BY <1>1, <1>2, RoomStays DEF AInv, Open
<1>5. OneChange' /\ NoLockout'
  <2>1. Changing(h)
    BY <1>1 DEF Changing
  <2>2. ~mixed => ~LockedOut'
    BY <1>1, <2>1 DEF AInv, OneChange, LockedOut
  <2>3. QED
    BY <1>1, <1>2, <2>1, <2>2, IdleIsRequest, GoingOn
<1>6. QED
  BY <1>2, <1>3, <1>4, <1>5 DEF AInv

(* Requests that only use a session.                                       *)
LEMMA KeepsUsingSession ==
  ASSUME AInv, NEW h \in Handlers,
         (\E s \in Sessions : AuthenticateSession(h, s)) \/ DropExpired(h) \/ Touch(h)
  PROVE  AInv'
<1>1. /\ UNCHANGED <<row, keys, made, prompt, started, expired, mixed, outlived>>
      /\ live' \subseteq live
  BY DEF AuthenticateSession, DropExpired, Touch, Touched, passkeys, sessions, history
<1>2. PICK r \in Requests : Become(h, r) /\ r.at \in {"idle", "touch", "drop"}
  <2>1. CASE \E s \in Sessions : AuthenticateSession(h, s)
    <3>1. PICK s \in Sessions, at \in {"touch", "drop"} : Become(h, [at |-> at, session |-> s])
      BY <2>1 DEF AuthenticateSession
    <3>2. [at |-> at, session |-> s] \in Requests
      BY DEF Requests
    <3>3. QED
      BY <3>1, <3>2
  <2>2. CASE DropExpired(h) \/ Touch(h)
    BY <2>2, IdleIsRequest DEF DropExpired, Touch, Done
  <2>3. QED
    BY <2>1, <2>2
<1>3. Types'
  BY <1>1, <1>2, BecameTyped DEF AInv, Types
<1>4. ~Changing(h)
  <2>1. req[h].at \in {"idle", "touch", "drop"}
    BY IdleIsRequest DEF AuthenticateSession, DropExpired, Touch
  <2>2. QED
    BY <2>1 DEF Changing
<1>5. \A i \in Handlers : Changing(i) \/ Changing(i)' => req'[i] = req[i]
  <2>1. req'[h] = r /\ \A i \in Handlers : i # h => req'[i] = req[i]
    BY <1>2, Became DEF AInv
  <2>2. ~Changing(h)'
    BY <1>2, <2>1 DEF Changing
  <2>3. QED
    BY <1>4, <2>1, <2>2
<1>6. QED
  BY <1>1, <1>3, <1>5, Beside

LEMMA KeepsSessions ==
  ASSUME AInv,
         \/ \E s \in Sessions : StartSession(s) \/ EndSession(s) \/ Expire(s)
         \/ RevokeAll \/ GetUser \/ PurgeSessions
  PROVE  AInv'
<1>1. UNCHANGED <<row, keys, made, prompt, req, mixed, outlived>>
  BY DEF StartSession, EndSession, Expire, RevokeAll, GetUser, PurgeSessions, passkeys, history
<1>2. live' \subseteq started' /\ started \subseteq started' /\ started' \subseteq Sessions
      /\ expired' \subseteq started'
  <2>1. live \subseteq started /\ started \subseteq Sessions /\ expired \subseteq started
    BY DEF AInv, Types
  <2>2. ASSUME NEW s \in Sessions, StartSession(s) \/ EndSession(s) \/ Expire(s)
        PROVE  live' \subseteq started' /\ started \subseteq started' /\ started' \subseteq Sessions
               /\ expired' \subseteq started'
    BY <2>1, <2>2 DEF StartSession, EndSession, Expire
  <2>3. CASE RevokeAll \/ GetUser \/ PurgeSessions
    BY <2>1, <2>3 DEF RevokeAll, GetUser, PurgeSessions
  <2>4. QED
    BY <2>2, <2>3
<1>3. Types'
  BY <1>1, <1>2 DEF AInv, Types
<1>4. QED
  BY <1>1, <1>3, Beside

LEMMA KeepsCrash ==
  ASSUME AInv, Crash
  PROVE  AInv'
<1>1. /\ req' = [h \in Handlers |-> Idle] /\ prompt' = [p \in Prompts |-> "none"]
      /\ mixed' = (mixed \/ \E h \in Handlers : Changing(h))
      /\ UNCHANGED <<row, keys, made, live, started, expired, outlived>>
  BY DEF Crash, sessions
<1>2. Types'
  BY <1>1, IdleIsRequest DEF AInv, Types
<1>3. \A h \in Handlers : req'[h].at = "idle"
  BY <1>1, IdleIsRequest
<1>4. Answers' /\ OneChange'
  BY <1>3 DEF Answers, OneChange, Changing
<1>5. RoomLeft'
  <2>1. Open' \subseteq Open
    BY <1>1 DEF Open
  <2>2. QED
    BY <1>1, <1>2, <2>1, RoomStays DEF AInv
<1>6. NoLockout'
  BY <1>1 DEF AInv, NoLockout
<1>7. QED
  BY <1>2, <1>4, <1>5, <1>6 DEF AInv

LEMMA AccountInit == Init => AInv
<1>1. SUFFICES ASSUME Init PROVE AInv
  OBVIOUS
<1>2. Types
  BY <1>1, IdleIsRequest DEF Init, Types, Rows, Roles
<1>3. \A h \in Handlers : req[h].at = "idle"
  BY <1>1, IdleIsRequest DEF Init
<1>4. Answers /\ OneChange /\ NoLockout
  BY <1>1, <1>3 DEF Init, Answers, OneChange, NoLockout, Changing
<1>5. RoomLeft
  <2>1. keys = {} /\ Open = {}
    BY <1>1 DEF Init, Open
  <2>2. Cardinality(keys) = 0 /\ Cardinality(Open) = 0
    BY <2>1, FS_EmptySet
  <2>3. Cardinality(Prompts) \in Nat /\ Cardinality(Prompts) >= 1
    BY <1>2, Counts
  <2>4. QED
    BY <2>2, <2>3, AccountAssumption DEF RoomLeft
<1>6. QED
  BY <1>2, <1>4, <1>5 DEF AInv

LEMMA AccountNext == AInv /\ [Next]_vars => AInv'
<1> SUFFICES ASSUME AInv, [Next]_vars PROVE AInv'
  OBVIOUS
<1>1. ASSUME NEW h \in Handlers, Request(h) PROVE AInv'
  BY <1>1, KeepsFinishRegistration, KeepsDeletePasskey, KeepsSetRequirePasskey, KeepsSetRole,
     KeepsUsingSession DEF Request
<1>2. ASSUME NEW h \in Handlers, Step(h) PROVE AInv'
  BY <1>2, KeepsCreatePasskey, KeepsListRest, KeepsLoadRow, KeepsWriteRow, KeepsUsingSession
  DEF Step
<1>3. CASE UNCHANGED vars
  BY <1>3 DEF vars, passkeys, sessions, history, AInv, Types, Answers, RoomLeft, Open, OneChange,
              NoLockout, Changing, LockedOut
<1>4. QED
  BY <1>1, <1>2, <1>3, KeepsBeginRegistration, KeepsPromptExpires, KeepsSessions, KeepsCrash
  DEF Next
-----------------------------------------------------------------------------
LogoKeys == Pictures \cup {Brand!None}

Changes ==
  {Brand!Idle}
    \cup [at : {"load"}, kind : {"update", "onboarding", "remove"}, logo : {Brand!None}]
    \cup [at : {"load"}, kind : {"logo"}, logo : Pictures]
    \cup [at : {"save"}, row : Brand!Row, logo : LogoKeys, old : LogoKeys]
    \cup [at : {"check", "delete"}, old : Pictures]

Statuses == {"none", "uploading", "pending", "processing", "done", "failed"}

BrandTypes ==
  /\ brand \in Brand!Row
  /\ files \subseteq Pictures /\ kept \subseteq Pictures /\ raced \subseteq Uploads
  /\ overlapped \in BOOLEAN
  /\ job \in [Uploads -> [status : Statuses, logo : LogoKeys, source : {"none", "logo", "text"}]]
  /\ change \in [Handlers -> Changes]

(* What was burned is known while a worker makes it and after.             *)
Burned ==
  \A j \in Uploads :
    /\ job[j].source # "none" <=> job[j].status \in {"processing", "done"}
    /\ job[j].source = "logo" => job[j].logo # Brand!None

(* A change that is alone, by how far it is: what is on disk but for what  *)
(* was left behind is the brand's logo and the one it brings or replaces;  *)
(* the copy it saves is of the row there is; no upload that ran into no    *)
(* change has a logo that is about to be deleted.                          *)
GoodChange(r) ==
  /\ r.at = "idle" => files \subseteq kept \cup {brand.logo}
  /\ r.at \in {"load", "save"} => /\ files \subseteq kept \cup {brand.logo, r.logo}
                                  /\ r.logo \in files \cup {Brand!None}
  /\ r.at = "save" => /\ r.old = brand.logo
                      /\ r.row.logo = r.logo \/ (r.logo = Brand!None /\ r.row.logo = r.old)
                      /\ brand.onboarded => r.row.onboarded
  /\ r.at \in {"check", "delete"} => /\ files \subseteq kept \cup {brand.logo, r.old}
                                     /\ r.old # brand.logo
  /\ r.at = "delete" => \A j \in Uploads \ raced :
                          job[j].status \in {"pending", "processing"} => job[j].logo # r.old

OneBrandChange ==
  ~overlapped => \A h \in Brand!Busy : /\ \A i \in Brand!Busy : i = h
                                       /\ GoodChange(change[h])

(* An upload that ran into no change has its logo on disk until the        *)
(* watermark is made, and is then burned with it.                          *)
LogosOfJobs ==
  ~overlapped => \A j \in Uploads \ raced :
    /\ job[j].status = "uploading" => Brand!Busy = {}
    /\ job[j].status \in {"uploading", "pending", "processing"} =>
         job[j].logo \in files \cup {Brand!None}
    /\ job[j].source = "text" => job[j].logo = Brand!None

BInv ==
  /\ BrandTypes
  /\ Burned
  /\ OneBrandChange
  /\ LogosOfJobs
  /\ Brand!LogoStored
  /\ Brand!OnlyCurrent
-----------------------------------------------------------------------------
LEMMA IdleIsChange == Brand!Idle \in Changes /\ Brand!Idle.at = "idle"
  BY DEF Changes, Brand!Idle

LEMMA NoneIsNoLogo == Brand!None \notin Pictures
  BY SettingsAssumption DEF Brand!None

LEMMA ChangeFields ==
  ASSUME BrandTypes, NEW h \in Handlers
  PROVE  /\ change[h] \in Changes
         /\ change[h].at \in {"idle", "load", "save", "check", "delete"}
         /\ change[h].at = "idle" <=> change[h] = Brand!Idle
         /\ change[h].at = "load" => /\ change[h].kind \in {"update", "onboarding", "remove", "logo"}
                                     /\ change[h].logo \in LogoKeys
                                     /\ change[h].kind # "logo" => change[h].logo = Brand!None
         /\ change[h].at = "save" => /\ change[h].row \in Brand!Row
                                     /\ change[h].logo \in LogoKeys /\ change[h].old \in LogoKeys
         /\ change[h].at \in {"check", "delete"} => change[h].old \in Pictures
<1>1. change[h] \in Changes
  BY DEF BrandTypes
<1>2. QED
  BY <1>1 DEF Changes, LogoKeys, Brand!Idle

LEMMA BusyIs == ASSUME BrandTypes, NEW h \in Handlers
                PROVE  h \in Brand!Busy <=> change[h].at # "idle"
  BY ChangeFields DEF Brand!Busy

LEMMA ChangeBecame ==
  ASSUME BrandTypes, NEW h \in Handlers, NEW r \in Changes, Brand!Become(h, r)
  PROVE  /\ change' \in [Handlers -> Changes]
         /\ change'[h] = r
         /\ \A i \in Handlers : i # h => change'[i] = change[i]
  BY DEF BrandTypes, Brand!Become

(* A change that goes on alone: the others are as they were.               *)
LEMMA BrandGoesOn ==
  ASSUME BInv, BrandTypes', NEW h \in Handlers, change[h].at # "idle",
         NEW r \in Changes, Brand!Become(h, r),
         UNCHANGED <<job, overlapped, raced>>,
         ~overlapped => GoodChange(r)',
         ~overlapped => /\ Brand!LogoStored'
                        /\ \A j \in Uploads \ raced :
                             job[j].status \in {"pending", "processing"} =>
                               job[j].logo \in files' \cup {Brand!None}
  PROVE  BInv'
<1>1. /\ h \in Brand!Busy
      /\ change'[h] = r /\ \A i \in Handlers : i # h => change'[i] = change[i]
  BY BusyIs, ChangeBecame DEF BInv
<1>2. Burned'
  BY DEF BInv, Burned
<1>3. ~overlapped => \A i \in Brand!Busy' : i = h
  BY <1>1 DEF BInv, OneBrandChange, Brand!Busy
<1>4. OneBrandChange'
  <2>1. SUFFICES ASSUME ~overlapped, NEW i \in Brand!Busy'
                 PROVE  (\A g \in Brand!Busy' : g = i) /\ GoodChange(change[i])'
    BY DEF OneBrandChange
  <2>2. i = h /\ change'[i] = r
    BY <1>1, <1>3, <2>1
  <2>3. GoodChange(change[i])'
    BY <2>1, <2>2 DEF GoodChange
  <2>4. QED
    BY <1>3, <2>1, <2>2, <2>3
<1>5. LogosOfJobs'
  BY <1>1 DEF BInv, LogosOfJobs
<1>6. Brand!LogoStored'
  BY DEF Brand!LogoStored
<1>7. Brand!OnlyCurrent'
  <2>1. Brand!Busy' = {} => r.at = "idle"
    BY <1>1, BusyIs DEF Brand!Busy, Brand!Idle
  <2>2. QED
    BY <2>1 DEF Brand!OnlyCurrent, GoodChange
<1>8. QED
  BY <1>2, <1>4, <1>5, <1>6, <1>7 DEF BInv

(* A change that begins alone finds the brand as the last one left it.     *)
LEMMA KeepsBrandBegins ==
  ASSUME BInv, NEW h \in Handlers, NEW l \in LogoKeys, NEW r \in Changes,
         change[h] = Brand!Idle, Brand!Begins(h), Brand!Become(h, r),
         r.at = "load", r.logo = l,
         files' = files \cup ({l} \ {Brand!None}), UNCHANGED <<brand, job>>
  PROVE  BInv'
<1>1. /\ overlapped' = (overlapped \/ Brand!Busy # {})
      /\ raced' = raced \cup Brand!Uploading /\ kept' = kept
  BY DEF Brand!Begins
<1>2. change'[h] = r /\ change' \in [Handlers -> Changes]
      /\ \A i \in Handlers : i # h => change'[i] = change[i]
  BY ChangeBecame DEF BInv
<1>3. BrandTypes'
  BY <1>1, <1>2 DEF BInv, BrandTypes, LogoKeys, Brand!Uploading
<1>4. Burned'
  BY DEF BInv, Burned
<1>5. h \in Brand!Busy' /\ h \notin Brand!Busy
  BY <1>2, IdleIsChange DEF Brand!Busy
<1>6. ~overlapped' => ~overlapped /\ Brand!Busy = {} /\ \A i \in Brand!Busy' : i = h
  BY <1>1, <1>2 DEF BInv, BrandTypes, Brand!Busy
<1>7. OneBrandChange'
  <2>1. SUFFICES ASSUME ~overlapped', NEW i \in Brand!Busy'
                 PROVE  (\A g \in Brand!Busy' : g = i) /\ GoodChange(change[i])'
    BY DEF OneBrandChange
  <2>2. i = h /\ ~overlapped /\ files \subseteq kept \cup {brand.logo}
    BY <1>6, <2>1 DEF BInv, Brand!OnlyCurrent
  <2>3. GoodChange(change[i])'
    BY <1>1, <1>2, <2>2 DEF GoodChange, LogoKeys
  <2>4. QED
    BY <1>6, <2>1, <2>2, <2>3
<1>8. LogosOfJobs'
  <2>1. SUFFICES ASSUME ~overlapped', NEW j \in Uploads \ raced'
                 PROVE  /\ job[j].status # "uploading"
                        /\ job[j].status \in {"pending", "processing"} =>
                             job[j].logo \in files' \cup {Brand!None}
                        /\ job[j].source = "text" => job[j].logo = Brand!None
    BY DEF LogosOfJobs
  <2>2. job[j].status # "uploading" /\ j \notin raced /\ ~overlapped
    BY <1>1, <1>6, <2>1 DEF Brand!Uploading
  <2>3. QED
    BY <2>2 DEF BInv, LogosOfJobs
<1>9. Brand!LogoStored'
  BY <1>1 DEF BInv, Brand!LogoStored
<1>10. Brand!OnlyCurrent'
  BY <1>5 DEF Brand!OnlyCurrent
<1>11. QED
  BY <1>3, <1>4, <1>7, <1>8, <1>9, <1>10 DEF BInv

LEMMA KeepsBrandRequest ==
  ASSUME BInv, NEW h \in Handlers, Brand!Request(h)
  PROVE  BInv'
<1>1. ASSUME NEW kind \in {"update", "onboarding", "remove"}, Brand!Begin(h, kind)
      PROVE  BInv'
  <2>1. PICK r \in Changes : r = [at |-> "load", kind |-> kind, logo |-> Brand!None]
    BY DEF Changes
  <2>2. files' = files \cup ({Brand!None} \ {Brand!None}) /\ Brand!None \in LogoKeys
    BY <1>1 DEF Brand!Begin, LogoKeys
  <2>3. QED
    BY <1>1, <2>1, <2>2, KeepsBrandBegins DEF Brand!Begin
<1>2. ASSUME NEW l \in Pictures, Brand!SetLogo(h, l) PROVE BInv'
  <2>1. PICK r \in Changes : r = [at |-> "load", kind |-> "logo", logo |-> l]
    BY DEF Changes
  <2>2. files' = files \cup ({l} \ {Brand!None}) /\ l \in LogoKeys
    BY <1>2, NoneIsNoLogo DEF Brand!SetLogo, LogoKeys
  <2>3. QED
    BY <1>2, <2>1, <2>2, KeepsBrandBegins DEF Brand!SetLogo
<1>3. QED
  BY <1>1, <1>2 DEF Brand!Request

LEMMA KeepsBrandLoad ==
  ASSUME BInv, NEW h \in Handlers, Brand!Load(h)
  PROVE  BInv'
<1> DEFINE c == change[h]
           new == Brand!Changed(c)
<1>1. c.at = "load" /\ UNCHANGED <<brand, files, job, overlapped, raced, kept>>
  BY DEF Brand!Load, Brand!history
<1>2. /\ c.kind \in {"update", "onboarding", "remove", "logo"} /\ c.logo \in LogoKeys
      /\ c.kind # "logo" => c.logo = Brand!None
  BY <1>1, ChangeFields DEF BInv
<1>3. brand \in Brand!Row
  BY DEF BInv, BrandTypes
<1>4. /\ new \in Brand!Row
      /\ new.logo = c.logo \/ (c.logo = Brand!None /\ new.logo = brand.logo)
      /\ brand.onboarded => new.onboarded
  BY <1>2, <1>3 DEF Brand!Changed, Brand!Row, LogoKeys
<1> DEFINE s == [at |-> "save", row |-> new, logo |-> c.logo, old |-> brand.logo]
<1>5. s \in Changes
  BY <1>2, <1>3, <1>4 DEF Changes, Brand!Row, LogoKeys
<1>6. PICK r \in Changes :
        /\ Brand!Become(h, r)
        /\ \/ r = s
           \/ r = Brand!Idle /\ c.kind = "remove"
  BY <1>5, IdleIsChange DEF Brand!Load
<1>7. BrandTypes'
  BY <1>1, <1>6, ChangeBecame DEF BInv, BrandTypes
<1>8. ~overlapped => GoodChange(c)
  BY <1>1, BusyIs DEF BInv, OneBrandChange
<1>9. ASSUME ~overlapped PROVE GoodChange(r)'
  <2>1. files \subseteq kept \cup {brand.logo, c.logo} /\ c.logo \in files \cup {Brand!None}
        /\ Brand!None \notin files
    BY <1>1, <1>8, <1>9, NoneIsNoLogo DEF GoodChange, BInv, BrandTypes
  <2>2. CASE r = s
    <3>1. /\ s.at = "save" /\ s.logo = c.logo /\ s.old = brand.logo /\ s.row = new
      OBVIOUS
    <3> HIDE DEF s, new, c
    <3>2. QED
      BY <1>1, <1>4, <2>1, <2>2, <3>1 DEF GoodChange
  <2>3. CASE r = Brand!Idle /\ c.kind = "remove"
    BY <1>1, <1>2, <2>1, <2>3, IdleIsChange DEF GoodChange
  <2>4. QED
    BY <1>6, <2>2, <2>3
<1>10. ~overlapped => /\ Brand!LogoStored'
                      /\ \A j \in Uploads \ raced :
                           job[j].status \in {"pending", "processing"} =>
                             job[j].logo \in files' \cup {Brand!None}
  BY <1>1 DEF BInv, LogosOfJobs, Brand!LogoStored
<1> HIDE DEF s, new
<1>11. c.at # "idle"
  BY <1>1
<1>12. QED
  BY <1>1, <1>6, <1>7, <1>9, <1>10, <1>11, BrandGoesOn

LEMMA KeepsBrandSave ==
  ASSUME BInv, NEW h \in Handlers, Brand!Save(h)
  PROVE  BInv'
<1> DEFINE c == change[h]
<1>1. c.at = "save" /\ brand' = [c.row EXCEPT !.saved = TRUE]
      /\ UNCHANGED <<files, job, overlapped, raced, kept>>
  BY DEF Brand!Save, Brand!history
<1>2. c.row \in Brand!Row /\ c.logo \in LogoKeys /\ c.old \in LogoKeys
  BY <1>1, ChangeFields DEF BInv
<1>3. brand' \in Brand!Row /\ brand'.logo = c.row.logo
  BY <1>1, <1>2 DEF Brand!Row
<1>4. PICK r \in Changes :
        /\ Brand!Become(h, r)
        /\ \/ /\ r = [at |-> "check", old |-> c.old] /\ Brand!Replaced(c)
           \/ /\ r = Brand!Idle /\ ~Brand!Replaced(c)
  <2>1. Brand!Replaced(c) => [at |-> "check", old |-> c.old] \in Changes
    BY <1>2 DEF Brand!Replaced, Changes, LogoKeys
  <2>2. QED
    BY <2>1, IdleIsChange DEF Brand!Save
<1>5. BrandTypes'
  BY <1>1, <1>3, <1>4, ChangeBecame DEF BInv, BrandTypes
<1>6. ~overlapped => GoodChange(c)
  BY <1>1, BusyIs DEF BInv, OneBrandChange
<1>7. Brand!None \notin files
  BY NoneIsNoLogo DEF BInv, BrandTypes
<1>8. ASSUME ~overlapped PROVE GoodChange(r)' /\ Brand!LogoStored'
  <2>1. /\ files \subseteq kept \cup {brand.logo, c.logo} /\ c.logo \in files \cup {Brand!None}
        /\ c.old = brand.logo
        /\ c.row.logo = c.logo \/ (c.logo = Brand!None /\ c.row.logo = c.old)
    BY <1>1, <1>6, <1>8 DEF GoodChange
  <2>2. brand.logo \in files \cup {Brand!None}
    BY <1>8 DEF BInv, Brand!LogoStored
  <2>3. files \subseteq kept \cup {c.row.logo, c.old}
    BY <1>7, <2>1
  <2>4. Brand!LogoStored'
    BY <1>1, <1>3, <2>1, <2>2 DEF Brand!LogoStored
  <2>5. CASE r = [at |-> "check", old |-> c.old] /\ Brand!Replaced(c)
    <3>1. r.at = "check" /\ r.old = c.old /\ c.old # c.row.logo
      BY <2>5 DEF Brand!Replaced
    <3>2. QED
      BY <1>1, <1>3, <2>3, <2>4, <3>1 DEF GoodChange
  <2>6. CASE r = Brand!Idle /\ ~Brand!Replaced(c)
    <3>1. files \subseteq kept \cup {c.row.logo}
      BY <1>7, <2>3, <2>6 DEF Brand!Replaced
    <3>2. QED
      BY <1>1, <1>3, <2>4, <2>6, <3>1, IdleIsChange DEF GoodChange
  <2>7. QED
    BY <1>4, <2>5, <2>6
<1>9. ~overlapped => \A j \in Uploads \ raced :
                       job[j].status \in {"pending", "processing"} =>
                         job[j].logo \in files' \cup {Brand!None}
  BY <1>1 DEF BInv, LogosOfJobs
<1>10. QED
  BY <1>1, <1>4, <1>5, <1>8, <1>9, BrandGoesOn

LEMMA KeepsBrandSaveFails ==
  ASSUME BInv, NEW h \in Handlers, Brand!SaveFails(h)
  PROVE  BInv'
<1> DEFINE c == change[h]
<1>1. c.at = "save" /\ kept' = (kept \cup {c.logo}) \ {Brand!None}
      /\ Brand!Become(h, Brand!Idle)
      /\ UNCHANGED <<brand, files, job, overlapped, raced>>
  BY DEF Brand!SaveFails
<1>2. c.logo \in LogoKeys
  BY <1>1, ChangeFields DEF BInv
<1>3. BrandTypes'
  BY <1>1, <1>2, IdleIsChange, ChangeBecame DEF BInv, BrandTypes, LogoKeys
<1>4. ~overlapped => GoodChange(c)
  BY <1>1, BusyIs DEF BInv, OneBrandChange
<1>5. ~overlapped => files' \subseteq kept' \cup {brand'.logo}
  <2>1. Brand!None \notin files
    BY NoneIsNoLogo DEF BInv, BrandTypes
  <2>2. QED
    BY <1>1, <1>4, <2>1 DEF GoodChange
<1>6. ~overlapped => GoodChange(Brand!Idle)'
  BY <1>5, IdleIsChange DEF GoodChange
<1>7. ~overlapped => /\ Brand!LogoStored'
                     /\ \A j \in Uploads \ raced :
                          job[j].status \in {"pending", "processing"} =>
                            job[j].logo \in files' \cup {Brand!None}
  BY <1>1 DEF BInv, LogosOfJobs, Brand!LogoStored
<1>8. PICK r \in Changes : r = Brand!Idle
  BY IdleIsChange
<1>9. QED
  BY <1>1, <1>3, <1>6, <1>7, <1>8, BrandGoesOn

(* Whether a job still needs the old logo: uploads under way ran into this *)
(* change, and those that come after the look run into it too.             *)
LEMMA KeepsBrandCheck ==
  ASSUME BInv, NEW h \in Handlers, Brand!CheckUse(h)
  PROVE  BInv'
<1> DEFINE c == change[h]
<1>1. c.at = "check" /\ UNCHANGED <<brand, files, job, overlapped, raced>>
  BY DEF Brand!CheckUse, Brand!history
<1>2. c.old \in Pictures
  BY <1>1, ChangeFields DEF BInv
<1>3. ~overlapped => GoodChange(c)
  BY <1>1, BusyIs DEF BInv, OneBrandChange
<1>4. PICK r \in Changes :
        /\ Brand!Become(h, r)
        /\ \/ /\ r = [at |-> "delete", old |-> c.old] /\ ~Brand!LogoInUse(c.old) /\ kept' = kept
           \/ /\ r = Brand!Idle /\ kept' = kept \cup {c.old}
  <2>1. [at |-> "delete", old |-> c.old] \in Changes
    BY <1>2 DEF Changes
  <2>2. QED
    BY <2>1, IdleIsChange DEF Brand!CheckUse, Brand!history
<1>5. BrandTypes'
  <2>1. kept' \subseteq Pictures
    BY <1>2, <1>4 DEF BInv, BrandTypes
  <2>2. QED
    BY <1>1, <1>4, <2>1, ChangeBecame DEF BInv, BrandTypes
<1>6. ASSUME ~overlapped PROVE GoodChange(r)'
  <2>1. files \subseteq kept \cup {brand.logo, c.old} /\ c.old # brand.logo
    BY <1>1, <1>3, <1>6 DEF GoodChange
  <2>2. CASE r = [at |-> "delete", old |-> c.old] /\ ~Brand!LogoInUse(c.old) /\ kept' = kept
    <3>1. r.at = "delete" /\ r.old = c.old
      BY <2>2
    <3>2. \A j \in Uploads : job[j].status \in {"pending", "processing"} => job[j].logo # c.old
      BY <2>2 DEF Brand!LogoInUse
    <3>3. QED
      BY <1>1, <2>1, <2>2, <3>1, <3>2 DEF GoodChange
  <2>3. CASE r = Brand!Idle /\ kept' = kept \cup {c.old}
    BY <1>1, <2>1, <2>3, IdleIsChange DEF GoodChange
  <2>4. QED
    BY <1>4, <2>2, <2>3
<1>7. ~overlapped => /\ Brand!LogoStored'
                     /\ \A j \in Uploads \ raced :
                          job[j].status \in {"pending", "processing"} =>
                            job[j].logo \in files' \cup {Brand!None}
  BY <1>1 DEF BInv, LogosOfJobs, Brand!LogoStored
<1>8. QED
  BY <1>1, <1>4, <1>5, <1>6, <1>7, BrandGoesOn

LEMMA KeepsBrandDelete ==
  ASSUME BInv, NEW h \in Handlers, Brand!DeleteOld(h)
  PROVE  BInv'
<1> DEFINE c == change[h]
<1>1. c.at = "delete" /\ Brand!Become(h, Brand!Idle)
      /\ UNCHANGED <<brand, job, overlapped, raced>>
      /\ \/ files' = files \ {c.old} /\ kept' = kept
         \/ kept' = kept \cup {c.old} /\ files' = files
  BY DEF Brand!DeleteOld
<1>2. c.old \in Pictures
  BY <1>1, ChangeFields DEF BInv
<1>3. ~overlapped => GoodChange(c)
  BY <1>1, BusyIs DEF BInv, OneBrandChange
<1>4. BrandTypes'
  <2>1. kept' \subseteq Pictures /\ files' \subseteq Pictures
    BY <1>1, <1>2 DEF BInv, BrandTypes
  <2>2. QED
    BY <1>1, <2>1, IdleIsChange, ChangeBecame DEF BInv, BrandTypes
<1>5. ASSUME ~overlapped
      PROVE  /\ files' \subseteq kept' \cup {brand'.logo}
             /\ Brand!LogoStored'
             /\ \A j \in Uploads \ raced :
                  job[j].status \in {"pending", "processing"} =>
                    job[j].logo \in files' \cup {Brand!None}
  <2>1. /\ files \subseteq kept \cup {brand.logo, c.old} /\ c.old # brand.logo
        /\ \A j \in Uploads \ raced :
             job[j].status \in {"pending", "processing"} => job[j].logo # c.old
    BY <1>1, <1>3, <1>5 DEF GoodChange
  <2>2. \A j \in Uploads \ raced : job[j].status \in {"pending", "processing"} =>
                                     job[j].logo \in files \cup {Brand!None}
    BY <1>5 DEF BInv, LogosOfJobs
  <2>3. brand.logo \in files \cup {Brand!None}
    BY <1>5 DEF BInv, Brand!LogoStored
  <2>4. Brand!LogoStored'
    BY <1>1, <2>1, <2>3 DEF Brand!LogoStored
  <2>5. QED
    BY <1>1, <2>1, <2>2, <2>4
<1>6. ~overlapped => GoodChange(Brand!Idle)'
  BY <1>5, IdleIsChange DEF GoodChange
<1>7. PICK r \in Changes : r = Brand!Idle
  BY IdleIsChange
<1>8. QED
  BY <1>1, <1>4, <1>5, <1>6, <1>7, BrandGoesOn

(* Uploads and workers change one job.                                     *)
LEMMA KeepsBrandJobs ==
  ASSUME BInv, NEW j \in Uploads,
         NEW new \in [status : Statuses, logo : LogoKeys, source : {"none", "logo", "text"}],
         job' = [job EXCEPT ![j] = new],
         UNCHANGED <<brand, files, change, overlapped, kept>>,
         raced' \in {raced, raced \cup {j}, raced \ {j}},
         new.source # "none" <=> new.status \in {"processing", "done"},
         new.source = "logo" => new.logo # Brand!None,
         ~overlapped /\ j \notin raced' =>
           /\ new.status = "uploading" => Brand!Busy = {}
           /\ new.status \in {"uploading", "pending", "processing"} =>
                new.logo \in files \cup {Brand!None}
           /\ new.source = "text" => new.logo = Brand!None
           /\ new.status \in {"pending", "processing"} /\ Brand!Busy # {} =>
                j \notin raced /\ job[j].status \in {"pending", "processing"} /\ new.logo = job[j].logo
  PROVE  BInv'
<1>1. job'[j] = new /\ \A i \in Uploads : i # j => job'[i] = job[i] /\ (i \in raced' <=> i \in raced)
  BY DEF BInv, BrandTypes
<1>2. BrandTypes'
  BY DEF BInv, BrandTypes
<1>3. Burned'
  BY <1>1 DEF BInv, Burned
<1>4. Brand!Busy' = Brand!Busy
  BY DEF Brand!Busy
<1>5. LogosOfJobs'
  <2>1. SUFFICES ASSUME ~overlapped, NEW i \in Uploads \ raced'
                 PROVE  /\ job'[i].status = "uploading" => Brand!Busy = {}
                        /\ job'[i].status \in {"uploading", "pending", "processing"} =>
                             job'[i].logo \in files \cup {Brand!None}
                        /\ job'[i].source = "text" => job'[i].logo = Brand!None
    BY <1>4 DEF LogosOfJobs
  <2>2. CASE i = j
    BY <1>1, <2>1, <2>2
  <2>3. CASE i # j
    BY <1>1, <2>1, <2>3 DEF BInv, LogosOfJobs
  <2>4. QED
    BY <2>2, <2>3
<1>6. OneBrandChange'
  <2>1. SUFFICES ASSUME ~overlapped, NEW h \in Brand!Busy
                 PROVE  GoodChange(change[h])'
    BY <1>4 DEF BInv, OneBrandChange
  <2>2. GoodChange(change[h])
    BY <2>1 DEF BInv, OneBrandChange
  <2>3. ASSUME change[h].at = "delete", NEW i \in Uploads \ raced',
               job'[i].status \in {"pending", "processing"}
        PROVE  job'[i].logo # change[h].old
    <3>1. CASE i = j
      BY <1>1, <2>1, <2>2, <2>3, <3>1 DEF GoodChange
    <3>2. CASE i # j
      BY <1>1, <2>2, <2>3, <3>2 DEF GoodChange
    <3>3. QED
      BY <3>1, <3>2
  <2>4. QED
    BY <2>2, <2>3 DEF GoodChange
<1>7. Brand!LogoStored' /\ Brand!OnlyCurrent'
  BY <1>4 DEF BInv, Brand!LogoStored, Brand!OnlyCurrent
<1>8. QED
  BY <1>2, <1>3, <1>5, <1>6, <1>7 DEF BInv

JobRow == [status : Statuses, logo : LogoKeys, source : {"none", "logo", "text"}]

(* A job whose status and burned mark change.                              *)
LEMMA SettingJob ==
  ASSUME BInv, NEW j \in Uploads, NEW status \in Statuses, NEW source \in {"none", "logo", "text"},
         Brand!SetJob(j, status, source)
  PROVE  \E new \in JobRow : /\ job' = [job EXCEPT ![j] = new]
                             /\ new.status = status /\ new.source = source
                             /\ new.logo = job[j].logo
<1> DEFINE new == [job[j] EXCEPT !.status = status, !.source = source]
<1>1. job[j] \in JobRow /\ job \in [Uploads -> JobRow]
  BY DEF BInv, BrandTypes, JobRow
<1>2. new \in JobRow /\ new.status = status /\ new.source = source /\ new.logo = job[j].logo
  BY <1>1 DEF JobRow
<1>3. job' = [job EXCEPT ![j] = new]
  BY <1>1 DEF Brand!SetJob, JobRow
<1> HIDE DEF new
<1>4. QED
  BY <1>2, <1>3

LEMMA KeepsBrandUpload ==
  ASSUME BInv, NEW j \in Uploads, Brand!Snapshot(j) \/ Brand!CreateJob(j)
  PROVE  BInv'
<1>1. CASE Brand!Snapshot(j)
  <2> DEFINE new == [Brand!NoJob EXCEPT !.status = "uploading", !.logo = brand.logo]
  <2>1. brand.logo \in LogoKeys
    BY DEF BInv, BrandTypes, Brand!Row, LogoKeys
  <2>2. Brand!NoJob \in JobRow /\ Brand!NoJob.source = "none"
    BY DEF Brand!NoJob, JobRow, LogoKeys, Statuses
  <2>3. /\ new \in JobRow
        /\ new.status = "uploading" /\ new.logo = brand.logo /\ new.source = "none"
    BY <2>1, <2>2 DEF JobRow, Statuses
  <2>4. job' = [job EXCEPT ![j] = new] /\ UNCHANGED <<brand, files, change, overlapped, kept>>
    BY <1>1 DEF Brand!Snapshot
  <2>5. /\ raced' \in {raced \ {j}, raced \cup {j}}
        /\ j \notin raced' => Brand!Busy = {}
    BY <1>1 DEF Brand!Snapshot
  <2>6. ~overlapped => brand.logo \in files \cup {Brand!None}
    BY DEF BInv, Brand!LogoStored
  <2> HIDE DEF new
  <2>7. QED
    BY <2>3, <2>4, <2>5, <2>6, KeepsBrandJobs DEF JobRow
<1>2. CASE Brand!CreateJob(j)
  <2>1. job[j].status = "uploading" /\ UNCHANGED <<brand, files, change, overlapped, kept, raced>>
    BY <1>2 DEF Brand!CreateJob, Brand!history
  <2>2. PICK new \in JobRow : /\ job' = [job EXCEPT ![j] = new]
                              /\ new.status = "pending" /\ new.source = "none"
                              /\ new.logo = job[j].logo
    BY <1>2, SettingJob DEF Brand!CreateJob, Statuses
  <2>3. ~overlapped /\ j \notin raced =>
          Brand!Busy = {} /\ job[j].logo \in files \cup {Brand!None}
    BY <2>1 DEF BInv, LogosOfJobs
  <2>4. QED
    BY <2>1, <2>2, <2>3, KeepsBrandJobs DEF JobRow
<1>3. QED
  BY <1>1, <1>2

LEMMA KeepsBrandWork ==
  ASSUME BInv, NEW j \in Uploads, Brand!Process(j) \/ Brand!Finish(j) \/ Brand!Fail(j)
  PROVE  BInv'
<1>1. UNCHANGED <<brand, files, change, overlapped, kept, raced>>
  BY DEF Brand!Process, Brand!Finish, Brand!Fail, Brand!history
<1>2. ASSUME ~overlapped, j \notin raced
      PROVE  /\ job[j].status \in {"pending", "processing"} =>
                  job[j].logo \in files \cup {Brand!None}
             /\ job[j].source = "text" => job[j].logo = Brand!None
  BY <1>2 DEF BInv, LogosOfJobs
<1>3. job[j].source \in {"none", "logo", "text"} /\ (job[j].source = "logo" => job[j].logo # Brand!None)
  BY DEF BInv, BrandTypes, Burned
<1>4. CASE Brand!Process(j)
  <2>1. PICK source \in {"logo", "text"} :
          /\ Brand!SetJob(j, "processing", source)
          /\ source = "logo" <=> job[j].logo \in files
    BY <1>4 DEF Brand!Process
  <2>2. PICK new \in JobRow : /\ job' = [job EXCEPT ![j] = new]
                              /\ new.status = "processing" /\ new.source = source
                              /\ new.logo = job[j].logo
    BY <2>1, SettingJob DEF Statuses
  <2>3. job[j].status = "pending" /\ Brand!None \notin files
    BY <1>4, NoneIsNoLogo DEF Brand!Process, BInv, BrandTypes
  <2>4. QED
    BY <1>1, <1>2, <2>1, <2>2, <2>3, KeepsBrandJobs DEF JobRow
<1>5. CASE Brand!Finish(j)
  <2>1. job[j].status = "processing" /\ Brand!SetJob(j, "done", job[j].source)
    BY <1>5 DEF Brand!Finish
  <2>2. job[j].source # "none"
    BY <2>1 DEF BInv, Burned
  <2>3. PICK new \in JobRow : /\ job' = [job EXCEPT ![j] = new]
                              /\ new.status = "done" /\ new.source = job[j].source
                              /\ new.logo = job[j].logo
    BY <1>3, <2>1, SettingJob DEF Statuses
  <2>4. QED
    BY <1>1, <1>2, <1>3, <2>1, <2>2, <2>3, KeepsBrandJobs DEF JobRow
<1>6. CASE Brand!Fail(j)
  <2>1. PICK status \in {"pending", "failed"} : Brand!SetJob(j, status, "none")
    BY <1>6 DEF Brand!Fail
  <2>2. job[j].status = "processing"
    BY <1>6 DEF Brand!Fail
  <2>3. PICK new \in JobRow : /\ job' = [job EXCEPT ![j] = new]
                              /\ new.status = status /\ new.source = "none"
                              /\ new.logo = job[j].logo
    BY <2>1, SettingJob DEF Statuses
  <2>4. QED
    BY <1>1, <1>2, <2>2, <2>3, KeepsBrandJobs DEF JobRow
<1>7. QED
  BY <1>4, <1>5, <1>6

(* The death of the process takes the changes along; what they left on     *)
(* disk is left behind.                                                    *)
LEMMA KeepsBrandCrash ==
  ASSUME BInv, Brand!Crash
  PROVE  BInv'
<1>1. /\ change' = [h \in Handlers |-> Brand!Idle]
      /\ kept' = IF Brand!Busy = {} THEN kept ELSE kept \cup files
      /\ UNCHANGED <<brand, files, overlapped, raced>>
  BY DEF Brand!Crash
<1>2. Brand!Busy' = {}
  BY <1>1 DEF Brand!Busy
<1>3. ASSUME NEW j \in Uploads
      PROVE  /\ job'[j] \in JobRow
             /\ \/ job'[j].status = "none" /\ job'[j].source = "none"
                \/ /\ job'[j].status = "pending" /\ job'[j].source = "none"
                   /\ job[j].status = "processing" /\ job'[j].logo = job[j].logo
                \/ job'[j] = job[j] /\ job[j].status # "uploading"
  <2>1. job[j] \in JobRow /\ job'[j] =
          CASE job[j].status = "uploading"  -> Brand!NoJob
            [] job[j].status = "processing" -> [job[j] EXCEPT !.status = "pending", !.source = "none"]
            [] OTHER                        -> job[j]
    BY DEF Brand!Crash, BInv, BrandTypes, JobRow
  <2>2. CASE job[j].status = "uploading"
    <3>1. Brand!NoJob \in JobRow /\ Brand!NoJob.status = "none" /\ Brand!NoJob.source = "none"
      BY DEF Brand!NoJob, JobRow, LogoKeys, Statuses
    <3>2. QED
      BY <2>1, <2>2, <3>1
  <2>3. CASE job[j].status = "processing"
    <3>1. job'[j] = [job[j] EXCEPT !.status = "pending", !.source = "none"]
      BY <2>1, <2>3
    <3>2. QED
      BY <2>1, <2>3, <3>1 DEF JobRow, Statuses
  <2>4. CASE job[j].status \notin {"uploading", "processing"}
    BY <2>1, <2>4
  <2>5. QED
    BY <2>2, <2>3, <2>4
<1>4. BrandTypes'
  <2>1. job' \in [Uploads -> JobRow]
    BY <1>3 DEF Brand!Crash
  <2>2. kept' \subseteq Pictures
    BY <1>1 DEF BInv, BrandTypes
  <2>3. change' \in [Handlers -> Changes]
    BY <1>1, IdleIsChange
  <2>4. QED
    BY <1>1, <2>1, <2>2, <2>3 DEF BInv, BrandTypes, JobRow
<1>5. Burned'
  BY <1>3 DEF BInv, Burned
<1>6. OneBrandChange'
  BY <1>2 DEF OneBrandChange
<1>7. LogosOfJobs'
  <2>1. SUFFICES ASSUME ~overlapped, NEW j \in Uploads \ raced
                 PROVE  /\ job'[j].status \in {"uploading", "pending", "processing"} =>
                             job'[j].logo \in files \cup {Brand!None}
                        /\ job'[j].source = "text" => job'[j].logo = Brand!None
    BY <1>1, <1>2 DEF LogosOfJobs
  <2>2. /\ job[j].status \in {"uploading", "pending", "processing"} =>
             job[j].logo \in files \cup {Brand!None}
        /\ job[j].source = "text" => job[j].logo = Brand!None
    BY <2>1 DEF BInv, LogosOfJobs
  <2>3. QED
    BY <1>3, <2>1, <2>2
<1>8. Brand!LogoStored'
  BY <1>1 DEF BInv, Brand!LogoStored
<1>9. Brand!OnlyCurrent'
  BY <1>1 DEF BInv, Brand!OnlyCurrent
<1>10. QED
  BY <1>4, <1>5, <1>6, <1>7, <1>8, <1>9 DEF BInv

LEMMA BrandInit == Brand!Init => BInv
<1>1. SUFFICES ASSUME Brand!Init PROVE BInv
  OBVIOUS
<1>2. BrandTypes
  <2>1. Brand!Defaults \in Brand!Row
    BY DEF Brand!Defaults, Brand!Row
  <2>2. Brand!NoJob \in JobRow
    BY DEF Brand!NoJob, JobRow, LogoKeys, Statuses
  <2>3. QED
    BY <1>1, <2>1, <2>2, IdleIsChange DEF Brand!Init, BrandTypes, JobRow
<1>3. Brand!Busy = {}
  BY <1>1 DEF Brand!Init, Brand!Busy
<1>4. \A j \in Uploads : job[j].status = "none" /\ job[j].source = "none"
  BY <1>1 DEF Brand!Init, Brand!NoJob
<1>5. Burned /\ OneBrandChange /\ LogosOfJobs
  BY <1>3, <1>4 DEF Burned, OneBrandChange, LogosOfJobs
<1>6. Brand!LogoStored /\ Brand!OnlyCurrent
  BY <1>1 DEF Brand!Init, Brand!Defaults, Brand!LogoStored, Brand!OnlyCurrent
<1>7. QED
  BY <1>2, <1>5, <1>6 DEF BInv

LEMMA BrandStays == BInv /\ UNCHANGED brandVars => BInv'
BY DEF brandVars, BInv, BrandTypes, Burned, OneBrandChange, GoodChange, LogosOfJobs,
       Brand!LogoStored, Brand!OnlyCurrent, Brand!Busy

LEMMA BrandNext == BInv /\ (Brand!Next \/ UNCHANGED brandVars) => BInv'
<1> SUFFICES ASSUME BInv, Brand!Next \/ UNCHANGED brandVars PROVE BInv'
  OBVIOUS
<1>1. ASSUME NEW h \in Handlers, Brand!Step(h) PROVE BInv'
  BY <1>1, KeepsBrandLoad, KeepsBrandSave, KeepsBrandSaveFails, KeepsBrandCheck, KeepsBrandDelete
  DEF Brand!Step
<1>2. QED
  BY <1>1, KeepsBrandRequest, KeepsBrandUpload, KeepsBrandWork, KeepsBrandCrash, BrandStays
  DEF Brand!Next
-----------------------------------------------------------------------------
(* keepAfter, turn by turn of its loop.                                    *)
Turn(s, cutoff, f, n) ==
  IF n = 0 THEN <<>>
  ELSE IF Limiter!After(s[n], cutoff) THEN Append(f[n - 1], s[n])
  ELSE f[n - 1]

IsLoop(s, cutoff, N, f) == f = [n \in 0..N |-> Turn(s, cutoff, f, n)]

LEMMA LoopRuns ==
  ASSUME NEW s, NEW cutoff, NEW N \in Nat
  PROVE  \E f : IsLoop(s, cutoff, N, f)
<1> DEFINE D == {n \in 0..N : ~\E f : IsLoop(s, cutoff, n, f)}
<1>1. ASSUME D # {} PROVE FALSE
  <2>1. PICK n \in D : \A m \in D : n <= m
    <3>1. D \in SUBSET (0..N)
      OBVIOUS
    <3> HIDE DEF D
    <3>2. QED
      BY <1>1, <3>1, FirstOne
  <2>2. CASE n = 0
    <3> DEFINE f == [m \in 0..0 |-> <<>>]
    <3>1. \A m \in 0..0 : f[m] = Turn(s, cutoff, f, m)
      BY DEF Turn
    <3>2. IsLoop(s, cutoff, 0, f)
      BY <3>1 DEF IsLoop
    <3>3. QED
      BY <2>1, <2>2, <3>2
  <2>3. CASE n # 0
    <3>1. n - 1 \in 0..N /\ n - 1 \notin D
      BY <2>1, <2>3
    <3>2. PICK g : IsLoop(s, cutoff, n - 1, g)
      BY <3>1
    <3> DEFINE f == [m \in 0..n |-> IF m = n THEN Turn(s, cutoff, g, n) ELSE g[m]]
    <3>3. ASSUME NEW m \in 0..n PROVE f[m] = Turn(s, cutoff, f, m)
      <4>1. m = 0 \/ (m - 1 \in 0..(n - 1) /\ f[m - 1] = g[m - 1])
        OBVIOUS
      <4>2. Turn(s, cutoff, f, m) = Turn(s, cutoff, g, m)
        BY <4>1 DEF Turn
      <4>3. m # n => g[m] = Turn(s, cutoff, g, m)
        BY <3>2 DEF IsLoop
      <4>4. QED
        BY <4>2, <4>3
    <3>4. IsLoop(s, cutoff, n, f)
      <4>1. f = [m \in 0..n |-> f[m]]
        OBVIOUS
      <4> HIDE DEF f
      <4>2. QED
        BY <3>3, <4>1 DEF IsLoop
    <3>5. QED
      BY <2>1, <3>4
  <2>4. QED
    BY <2>2, <2>3
<1>2. QED
  BY <1>1

LEMMA KeepAfterLoops ==
  ASSUME NEW s, NEW cutoff, Len(s) \in Nat
  PROVE  \E f : IsLoop(s, cutoff, Len(s), f) /\ Limiter!KeepAfter(s, cutoff) = f[Len(s)]
<1> DEFINE P(f) == f = [n \in 0..Len(s) |->
                     IF n = 0 THEN <<>>
                     ELSE IF Limiter!After(s[n], cutoff) THEN Append(f[n - 1], s[n])
                     ELSE f[n - 1]]
<1>1. Limiter!KeepAfter(s, cutoff) = (CHOOSE f : P(f))[Len(s)]
  BY DEF Limiter!KeepAfter
<1>2. ASSUME NEW f PROVE P(f) <=> IsLoop(s, cutoff, Len(s), f)
  BY DEF IsLoop, Turn
<1>3. \E f : P(f)
  BY <1>2, LoopRuns
<1>4. P(CHOOSE f : P(f))
  BY <1>3
<1>5. QED
  BY <1>1, <1>2, <1>4

(* What the loop has kept of the first n hits: as much of it as there is,  *)
(* of what is after the cutoff, and nothing else.                          *)
First(s, n) == [i \in 1..n |-> s[i]]

IsKept(s, cutoff, n, q) ==
  /\ q \in Seq(Limiter!Time) /\ Len(q) <= n
  /\ \A i \in DOMAIN q : Limiter!After(q[i], cutoff) /\ \E j \in 1..n : s[j] = q[i]
  /\ \A t : Limiter!After(t, cutoff) => Times(q, t) = Times(First(s, n), t)

LEMMA LoopKeeps ==
  ASSUME NEW s \in Seq(Limiter!Time), NEW cutoff, NEW f, IsLoop(s, cutoff, Len(s), f)
  PROVE  \A n \in 0..Len(s) : IsKept(s, cutoff, n, f[n])
<1> DEFINE N == Len(s)
           D == {n \in 0..N : ~IsKept(s, cutoff, n, f[n])}
<1>1. ASSUME D # {} PROVE FALSE
  <2>1. PICK n \in D : \A m \in D : n <= m
    <3>1. D \in SUBSET (0..N) /\ N \in Nat
      OBVIOUS
    <3> HIDE DEF D, N
    <3>2. QED
      BY <1>1, <3>1, FirstOne
  <2>2. f[n] = Turn(s, cutoff, f, n)
    BY DEF IsLoop
  <2>3. CASE n = 0
    <3>1. f[n] = <<>>
      BY <2>2, <2>3 DEF Turn
    <3>2. First(s, 0) = <<>>
      BY DEF First
    <3>3. IsKept(s, cutoff, 0, <<>>)
      BY <3>2 DEF IsKept
    <3>4. QED
      BY <2>1, <2>3, <3>1, <3>3
  <2>4. CASE n # 0
    <3> DEFINE q == f[n - 1]
               x == s[n]
               a == First(s, n - 1)
    <3>1. n - 1 \in 0..N /\ n \in 1..N /\ n - 1 \in Nat
      BY <2>1, <2>4
    <3>2. IsKept(s, cutoff, n - 1, q)
      BY <2>1, <3>1
    <3>3. x \in Limiter!Time /\ a \in Seq(Limiter!Time) /\ First(s, n) = Append(a, x)
      BY <3>1 DEF First
    <3>4. f[n] = IF Limiter!After(x, cutoff) THEN Append(q, x) ELSE q
      BY <2>2, <2>4 DEF Turn
    <3> HIDE DEF q, x, a
    <3>5. \A t : Times(First(s, n), t) = IF x = t THEN Times(a, t) + 1 ELSE Times(a, t)
      BY <3>3, TimesAppend
    <3>6. \A t : Limiter!After(t, cutoff) => Times(q, t) = Times(a, t)
      BY <3>2 DEF IsKept, a
    <3>7. CASE Limiter!After(x, cutoff)
      <4>1. f[n] = Append(q, x)
        BY <3>4, <3>7
      <4>2. q \in Seq(Limiter!Time) /\ Len(q) <= n - 1
        BY <3>2 DEF IsKept
      <4>3. Append(q, x) \in Seq(Limiter!Time) /\ Len(Append(q, x)) <= n
        BY <3>1, <3>3, <4>2
      <4>4. \A t : Times(Append(q, x), t) = IF x = t THEN Times(q, t) + 1 ELSE Times(q, t)
        BY <3>3, <4>2, TimesAppend
      <4>5. ASSUME NEW i \in DOMAIN Append(q, x)
            PROVE  /\ Limiter!After(Append(q, x)[i], cutoff)
                   /\ \E j \in 1..n : s[j] = Append(q, x)[i]
        <5>1. CASE i \in DOMAIN q
          <6>1. Append(q, x)[i] = q[i]
            BY <4>2, <5>1
          <6>2. QED
            BY <3>1, <3>2, <5>1, <6>1 DEF IsKept
        <5>2. CASE i \notin DOMAIN q
          <6>1. Append(q, x)[i] = x
            BY <4>2, <5>2
          <6>2. QED
            BY <3>1, <3>7, <6>1 DEF x
        <5>3. QED
          BY <5>1, <5>2
      <4>6. \A t : Limiter!After(t, cutoff) => Times(Append(q, x), t) = Times(First(s, n), t)
        BY <3>5, <3>6, <4>4
      <4>7. IsKept(s, cutoff, n, Append(q, x))
        BY <4>3, <4>5, <4>6 DEF IsKept
      <4>8. QED
        BY <2>1, <4>1, <4>7
    <3>8. CASE ~Limiter!After(x, cutoff)
      <4>1. f[n] = q
        BY <3>4, <3>8
      <4>2. \A t : Limiter!After(t, cutoff) => Times(q, t) = Times(First(s, n), t)
        BY <3>5, <3>6, <3>8
      <4>3. Len(q) <= n
        <5>1. Len(q) \in Nat /\ Len(q) <= n - 1
          BY <3>2 DEF IsKept
        <5>2. QED
          BY <3>1, <5>1
      <4>4. \A i \in DOMAIN q : Limiter!After(q[i], cutoff) /\ \E j \in 1..n : s[j] = q[i]
        BY <3>1, <3>2 DEF IsKept
      <4>5. q \in Seq(Limiter!Time)
        BY <3>2 DEF IsKept
      <4>6. IsKept(s, cutoff, n, q)
        BY <4>2, <4>3, <4>4, <4>5 DEF IsKept
      <4>7. QED
        BY <2>1, <4>1, <4>6
    <3>9. QED
      BY <3>7, <3>8
  <2>5. QED
    BY <2>3, <2>4
<1>2. QED
  BY <1>1

(* What keepAfter returns: every hit after the cutoff as often as it was   *)
(* there, and nothing else.                                                *)
LEMMA KeepAfterKeeps ==
  ASSUME NEW s \in Seq(Limiter!Time), NEW cutoff
  PROVE  LET q == Limiter!KeepAfter(s, cutoff) IN
         /\ q \in Seq(Limiter!Time) /\ Len(q) <= Len(s)
         /\ \A i \in DOMAIN q : /\ Limiter!After(q[i], cutoff)
                                /\ \E j \in DOMAIN s : s[j] = q[i]
         /\ \A t : Limiter!After(t, cutoff) => Times(q, t) = Times(s, t)
<1>1. Len(s) \in Nat /\ DOMAIN s = 1..Len(s) /\ First(s, Len(s)) = s
  BY DEF First
<1>2. PICK f : IsLoop(s, cutoff, Len(s), f) /\ Limiter!KeepAfter(s, cutoff) = f[Len(s)]
  BY <1>1, KeepAfterLoops
<1>3. IsKept(s, cutoff, Len(s), f[Len(s)])
  BY <1>1, <1>2, LoopKeeps
<1>4. QED
  BY <1>1, <1>2, <1>3 DEF IsKept

(* What it leaves in the array it shares: the same length, and no hit      *)
(* after the cutoff is gone.                                               *)
LEMMA InPlaceKeeps ==
  ASSUME NEW s \in Seq(Limiter!Time), NEW cutoff
  PROVE  LET q == Limiter!InPlace(s, cutoff) IN
         /\ q \in Seq(Limiter!Time) /\ Len(q) = Len(s)
         /\ \A i \in DOMAIN q : \E j \in DOMAIN s : s[j] = q[i]
         /\ \A t : Limiter!After(t, cutoff) => Times(q, t) >= Times(s, t)
<1> DEFINE a == Limiter!KeepAfter(s, cutoff)
           b == SubSeq(s, Len(a) + 1, Len(s))
           q == a \o b
<1>1. Limiter!InPlace(s, cutoff) = q
  BY DEF Limiter!InPlace
<1>2. a \in Seq(Limiter!Time) /\ Len(a) <= Len(s) /\ Len(a) \in Nat /\ Len(s) \in Nat
  BY KeepAfterKeeps
<1>3. \A i \in DOMAIN a : \E j \in DOMAIN s : s[j] = a[i]
  BY KeepAfterKeeps
<1>4. \A t : Limiter!After(t, cutoff) => Times(a, t) = Times(s, t)
  BY KeepAfterKeeps
<1> HIDE DEF a
<1>5. /\ b \in Seq(Limiter!Time) /\ Len(b) = Len(s) - Len(a)
      /\ \A i \in 1..Len(b) : b[i] = s[Len(a) + i] /\ Len(a) + i \in DOMAIN s
  BY <1>2
<1> HIDE DEF b
<1>6. /\ q \in Seq(Limiter!Time) /\ Len(q) = Len(s) /\ DOMAIN a \subseteq DOMAIN q
      /\ \A i \in DOMAIN a : q[i] = a[i]
      /\ \A i \in DOMAIN q \ DOMAIN a : i - Len(a) \in 1..Len(b) /\ q[i] = b[i - Len(a)]
  BY <1>2, <1>5
<1> HIDE DEF q
<1>7. ASSUME NEW i \in DOMAIN q PROVE \E j \in DOMAIN s : s[j] = q[i]
  <2>1. CASE i \in DOMAIN a
    BY <1>3, <1>6, <2>1
  <2>2. CASE i \notin DOMAIN a
    <3>1. i - Len(a) \in 1..Len(b) /\ q[i] = b[i - Len(a)]
      BY <1>6, <2>2
    <3>2. QED
      BY <1>5, <3>1
  <2>3. QED
    BY <2>1, <2>2
<1>8. ASSUME NEW t, Limiter!After(t, cutoff) PROVE Times(q, t) >= Times(s, t)
  <2> DEFINE P == {i \in DOMAIN a : a[i] = t}
             Q == {i \in DOMAIN q : q[i] = t}
  <2>1. P \in SUBSET Q
    BY <1>6
  <2>2. IsFiniteSet(Q)
    BY <1>6, PlacesFinite
  <2>3. Cardinality(P) <= Cardinality(Q)
    <3> HIDE DEF P, Q
    <3>1. QED
      BY <2>1, <2>2, FS_Subset
  <2>4. Times(a, t) <= Times(q, t)
    BY <2>3 DEF Times
  <2>5. Times(a, t) \in Nat /\ Times(q, t) \in Nat /\ Times(a, t) = Times(s, t)
    BY <1>2, <1>4, <1>6, <1>8, TimesType
  <2>6. QED
    BY <2>4, <2>5
<1>9. QED
  BY <1>1, <1>6, <1>7, <1>8
-----------------------------------------------------------------------------
(* h: the slices, g: the calls allowed, T: the clock.  No slice outgrows   *)
(* the limit, every call allowed within the window is in its slice, and    *)
(* what is in a slice was allowed.                                         *)
Accounted(h, g, T) ==
  \A k \in Pictures :
    /\ h[k] \in Seq(Limiter!Time) /\ Len(h[k]) <= Limit
    /\ \A t \in Limiter!Time : t > T - Window => g[k][t] <= Times(h[k], t)
    /\ \A i \in DOMAIN h[k] : g[k][h[k][i]] > 0

Grants == [Pictures -> [Limiter!Time -> Nat]]

(* A caller on its way has a key, and the time it read is not ahead of the *)
(* clock.                                                                  *)
Asked ==
  \A c \in Handlers : now[c] # -1 => key[c] \in Pictures /\ now[c] <= clock

RateTypes ==
  /\ clock \in Limiter!Time
  /\ hits \in [Pictures -> Seq(Limiter!Time)]
  /\ sweptAt \in {-Window} \cup Limiter!Time
  /\ key \in [Handlers -> Pictures \cup {"none"}]
  /\ now \in [Handlers -> {-1} \cup Limiter!Time]
  /\ granted \in Grants

RInv ==
  /\ RateTypes
  /\ Asked
  /\ Accounted(hits, granted, clock)

LEMMA RateBounds ==
  /\ Limit \in Nat /\ Limit > 0
  /\ Window \in Nat /\ Window > 0
  /\ MaxTime \in Nat
  /\ Limiter!Time \subseteq Int
  BY SettingsAssumption DEF Limiter!Time

(* A slice that is filtered, in the map or in place, with a cutoff that is *)
(* not later than the clock's.                                             *)
LEMMA KeepsSlice ==
  ASSUME NEW s \in Seq(Limiter!Time), Len(s) <= Limit,
         NEW w \in [Limiter!Time -> Nat], NEW T \in Int, NEW cutoff \in Int, cutoff <= T - Window,
         \A t \in Limiter!Time : t > T - Window => w[t] <= Times(s, t),
         \A i \in DOMAIN s : w[s[i]] > 0,
         NEW q, q \in {Limiter!KeepAfter(s, cutoff), Limiter!InPlace(s, cutoff)}
  PROVE  /\ q \in Seq(Limiter!Time) /\ Len(q) <= Limit
         /\ \A t \in Limiter!Time : t > T - Window => w[t] <= Times(q, t)
         /\ \A i \in DOMAIN q : w[q[i]] > 0
<1>1. /\ q \in Seq(Limiter!Time) /\ Len(q) <= Len(s)
      /\ \A i \in DOMAIN q : \E j \in DOMAIN s : s[j] = q[i]
      /\ \A t : Limiter!After(t, cutoff) => Times(q, t) >= Times(s, t)
  <2>1. CASE q = Limiter!KeepAfter(s, cutoff)
    <3>1. \A t : Limiter!After(t, cutoff) => Times(q, t) = Times(s, t) /\ Times(s, t) \in Nat
      BY <2>1, KeepAfterKeeps, TimesType
    <3>2. \A t : Limiter!After(t, cutoff) => Times(q, t) >= Times(s, t)
      BY <3>1
    <3>3. QED
      BY <2>1, <3>2, KeepAfterKeeps
  <2>2. CASE q = Limiter!InPlace(s, cutoff)
    <3>1. q \in Seq(Limiter!Time) /\ Len(q) = Len(s)
      BY <2>2, InPlaceKeeps
    <3>2. Len(q) <= Len(s)
      BY <3>1
    <3>3. \A i \in DOMAIN q : \E j \in DOMAIN s : s[j] = q[i]
      BY <2>2, InPlaceKeeps
    <3>4. \A t : Limiter!After(t, cutoff) => Times(q, t) >= Times(s, t)
      BY <2>2, InPlaceKeeps
    <3>5. QED
      BY <3>1, <3>2, <3>3, <3>4
  <2>3. QED
    BY <2>1, <2>2
<1>2. Len(q) <= Limit
  BY <1>1, RateBounds
<1>3. ASSUME NEW t \in Limiter!Time, t > T - Window PROVE w[t] <= Times(q, t)
  <2>1. t \in Int /\ Window \in Int
    BY RateBounds
  <2>2. Limiter!After(t, cutoff)
    BY <1>3, <2>1 DEF Limiter!After
  <2>3. Times(q, t) >= Times(s, t) /\ w[t] <= Times(s, t)
    BY <1>1, <1>3, <2>2
  <2>4. w[t] \in Nat /\ Times(q, t) \in Nat /\ Times(s, t) \in Nat
    BY <1>1, TimesType
  <2>5. QED
    BY <2>3, <2>4
<1>4. QED
  BY <1>1, <1>2, <1>3

LEMMA KeepsStored ==
  ASSUME NEW h \in [Pictures -> Seq(Limiter!Time)], NEW g \in Grants,
         NEW T \in Int, NEW cutoff \in Int, cutoff <= T - Window,
         Accounted(h, g, T), NEW k \in Pictures
  PROVE  /\ [h EXCEPT ![k] = Limiter!KeepAfter(h[k], cutoff)] \in [Pictures -> Seq(Limiter!Time)]
         /\ Accounted([h EXCEPT ![k] = Limiter!KeepAfter(h[k], cutoff)], g, T)
<1> DEFINE q == Limiter!KeepAfter(h[k], cutoff)
           hh == [h EXCEPT ![k] = q]
<1>1. /\ q \in Seq(Limiter!Time) /\ Len(q) <= Limit
      /\ \A t \in Limiter!Time : t > T - Window => g[k][t] <= Times(q, t)
      /\ \A i \in DOMAIN q : g[k][q[i]] > 0
  <2>1. g[k] \in [Limiter!Time -> Nat] /\ h[k] \in Seq(Limiter!Time)
    BY DEF Grants
  <2>2. /\ Len(h[k]) <= Limit
        /\ \A t \in Limiter!Time : t > T - Window => g[k][t] <= Times(h[k], t)
        /\ \A i \in DOMAIN h[k] : g[k][h[k][i]] > 0
    BY DEF Accounted
  <2>3. q \in {Limiter!KeepAfter(h[k], cutoff), Limiter!InPlace(h[k], cutoff)}
    OBVIOUS
  <2> HIDE DEF q
  <2>4. QED
    BY <2>1, <2>2, <2>3, KeepsSlice
<1> HIDE DEF q
<1>2. hh \in [Pictures -> Seq(Limiter!Time)]
  BY <1>1
<1>3. \A p \in Pictures : hh[p] = IF p = k THEN q ELSE h[p]
  OBVIOUS
<1> HIDE DEF hh
<1>4. Accounted(hh, g, T)
  <2>1. ASSUME NEW p \in Pictures
        PROVE  /\ hh[p] \in Seq(Limiter!Time) /\ Len(hh[p]) <= Limit
               /\ \A t \in Limiter!Time : t > T - Window => g[p][t] <= Times(hh[p], t)
               /\ \A i \in DOMAIN hh[p] : g[p][hh[p][i]] > 0
    BY <1>1, <1>3 DEF Accounted
  <2>2. QED
    BY <2>1 DEF Accounted
<1>5. QED
  BY <1>2, <1>4 DEF hh, q

(* A call that is allowed: it is added to its slice and counted.           *)
LEMMA KeepsCounted ==
  ASSUME NEW h \in [Pictures -> Seq(Limiter!Time)], NEW g \in Grants, NEW T,
         Accounted(h, g, T), NEW k \in Pictures, Len(h[k]) < Limit, NEW u \in Limiter!Time
  PROVE  /\ [h EXCEPT ![k] = Append(h[k], u)] \in [Pictures -> Seq(Limiter!Time)]
         /\ [g EXCEPT ![k][u] = @ + 1] \in Grants
         /\ Accounted([h EXCEPT ![k] = Append(h[k], u)], [g EXCEPT ![k][u] = @ + 1], T)
<1> DEFINE q == Append(h[k], u)
           hh == [h EXCEPT ![k] = q]
           gg == [g EXCEPT ![k][u] = @ + 1]
<1>1. /\ h[k] \in Seq(Limiter!Time) /\ g[k] \in [Limiter!Time -> Nat]
      /\ \A t \in Limiter!Time : t > T - Window => g[k][t] <= Times(h[k], t)
      /\ \A i \in DOMAIN h[k] : g[k][h[k][i]] > 0
  BY DEF Accounted, Grants
<1>2. hh \in [Pictures -> Seq(Limiter!Time)] /\ gg \in Grants
  BY <1>1 DEF Grants
<1>3. /\ \A p \in Pictures : p # k => hh[p] = h[p] /\ gg[p] = g[p]
      /\ hh[k] = q
      /\ \A t \in Limiter!Time : gg[k][t] = IF t = u THEN g[k][t] + 1 ELSE g[k][t]
  BY <1>1 DEF Grants
<1> HIDE DEF hh, gg
<1>4. /\ q \in Seq(Limiter!Time) /\ Len(q) <= Limit
      /\ \A t \in Limiter!Time : t > T - Window => gg[k][t] <= Times(q, t)
      /\ \A i \in DOMAIN q : gg[k][q[i]] > 0
  <2>1. q \in Seq(Limiter!Time) /\ Len(q) <= Limit
    <3>1. Len(h[k]) \in Nat /\ Len(q) = Len(h[k]) + 1
      BY <1>1
    <3>2. QED
      BY <1>1, <3>1, RateBounds
  <2>2. ASSUME NEW t \in Limiter!Time, t > T - Window PROVE gg[k][t] <= Times(q, t)
    <3>1. Times(q, t) = IF u = t THEN Times(h[k], t) + 1 ELSE Times(h[k], t)
      BY <1>1, TimesAppend
    <3>2. g[k][t] \in Nat /\ Times(h[k], t) \in Nat /\ g[k][t] <= Times(h[k], t)
      BY <1>1, <2>2, TimesType
    <3>3. QED
      BY <1>3, <3>1, <3>2
  <2>3. ASSUME NEW i \in DOMAIN q PROVE gg[k][q[i]] > 0
    <3>1. q[i] \in Limiter!Time /\ (q[i] = u \/ g[k][q[i]] > 0)
      BY <1>1
    <3>2. g[k][q[i]] \in Nat
      BY <1>1, <3>1
    <3>3. QED
      BY <1>3, <3>1, <3>2
  <2>4. QED
    BY <2>1, <2>2, <2>3
<1> HIDE DEF q
<1>5. Accounted(hh, gg, T)
  <2>1. ASSUME NEW p \in Pictures
        PROVE  /\ hh[p] \in Seq(Limiter!Time) /\ Len(hh[p]) <= Limit
               /\ \A t \in Limiter!Time : t > T - Window => gg[p][t] <= Times(hh[p], t)
               /\ \A i \in DOMAIN hh[p] : gg[p][hh[p][i]] > 0
    <3>1. CASE p = k
      BY <1>3, <1>4, <3>1
    <3>2. CASE p # k
      BY <1>3, <3>2 DEF Accounted
    <3>3. QED
      BY <3>1, <3>2
  <2>2. QED
    BY <2>1 DEF Accounted
<1>6. QED
  BY <1>2, <1>5 DEF hh, gg, q

LEMMA KeepsSwept ==
  ASSUME NEW h \in [Pictures -> Seq(Limiter!Time)], NEW g \in Grants,
         NEW T \in Int, NEW cutoff \in Int, cutoff <= T - Window,
         Accounted(h, g, T)
  PROVE  /\ Limiter!Swept(h, cutoff) \in [Pictures -> Seq(Limiter!Time)]
         /\ Accounted(Limiter!Swept(h, cutoff), g, T)
<1> DEFINE hh == Limiter!Swept(h, cutoff)
<1>1. ASSUME NEW k \in Pictures
      PROVE  /\ hh[k] \in Seq(Limiter!Time) /\ Len(hh[k]) <= Limit
             /\ \A t \in Limiter!Time : t > T - Window => g[k][t] <= Times(hh[k], t)
             /\ \A i \in DOMAIN hh[k] : g[k][hh[k][i]] > 0
  <2>1. hh[k] \in {Limiter!KeepAfter(h[k], cutoff), Limiter!InPlace(h[k], cutoff)}
    <3> DEFINE q == Limiter!KeepAfter(h[k], cutoff)
               p == Limiter!InPlace(h[k], cutoff)
    <3>1. hh[k] = IF q = <<>> THEN <<>> ELSE p
      BY DEF Limiter!Swept
    <3> HIDE DEF hh, q, p
    <3>2. hh[k] \in {q, p}
      BY <3>1
    <3>3. QED
      BY <3>2 DEF q, p
  <2>2. g[k] \in [Limiter!Time -> Nat] /\ h[k] \in Seq(Limiter!Time)
    BY DEF Grants
  <2>3. /\ Len(h[k]) <= Limit
        /\ \A t \in Limiter!Time : t > T - Window => g[k][t] <= Times(h[k], t)
        /\ \A i \in DOMAIN h[k] : g[k][h[k][i]] > 0
    BY DEF Accounted
  <2> HIDE DEF hh
  <2>4. QED
    BY <2>1, <2>2, <2>3, KeepsSlice
<1>2. hh = [k \in Pictures |-> hh[k]]
  BY DEF Limiter!Swept
<1> HIDE DEF hh
<1>3. hh \in [Pictures -> Seq(Limiter!Time)]
  BY <1>1, <1>2
<1>4. Accounted(hh, g, T)
  BY <1>1 DEF Accounted
<1>5. QED
  BY <1>3, <1>4 DEF hh
-----------------------------------------------------------------------------
LEMMA RateInit == Limiter!Init => RInv
<1> SUFFICES ASSUME Limiter!Init PROVE RInv
  OBVIOUS
<1>1. clock = 0 /\ 0 \in Limiter!Time
  BY RateBounds DEF Limiter!Init, Limiter!Time
<1>2. RateTypes
  BY <1>1 DEF Limiter!Init, RateTypes, Grants
<1>3. Asked
  BY DEF Limiter!Init, Asked
<1>4. ASSUME NEW k \in Pictures
      PROVE  /\ hits[k] \in Seq(Limiter!Time) /\ Len(hits[k]) <= Limit
             /\ \A t \in Limiter!Time : t > clock - Window => granted[k][t] <= Times(hits[k], t)
             /\ \A i \in DOMAIN hits[k] : granted[k][hits[k][i]] > 0
  <2>1. hits[k] = <<>> /\ \A t \in Limiter!Time : granted[k][t] = 0
    BY DEF Limiter!Init
  <2>2. \A t : Times(<<>>, t) = 0
    BY TimesEmpty
  <2>3. QED
    BY <2>1, <2>2, RateBounds
<1>5. QED
  BY <1>2, <1>3, <1>4 DEF RInv, Accounted

LEMMA RateCall ==
  ASSUME RInv, NEW c \in Handlers, NEW k \in Pictures, Limiter!Call(c, k)
  PROVE  RInv'
<1>1. RateTypes'
  BY DEF RInv, RateTypes, Limiter!Call
<1>2. Asked'
  <2>1. clock \in Int
    BY RateBounds DEF RInv, RateTypes
  <2>2. QED
    BY <2>1 DEF RInv, RateTypes, Asked, Limiter!Call
<1>3. Accounted(hits', granted', clock')
  BY DEF RInv, Limiter!Call
<1>4. QED
  BY <1>1, <1>2, <1>3 DEF RInv

(* The cutoff of a call is not later than the clock's.                     *)
LEMMA CutoffPast ==
  ASSUME RInv, NEW c \in Handlers, now[c] # -1
  PROVE  /\ key[c] \in Pictures /\ now[c] \in Limiter!Time /\ clock \in Int
         /\ now[c] - Window \in Int /\ now[c] - Window <= clock - Window
<1> DEFINE u == now[c]
<1>1. u \in Limiter!Time /\ clock \in Limiter!Time /\ key[c] \in Pictures /\ u <= clock
  BY DEF RInv, RateTypes, Asked
<1> HIDE DEF u
<1>2. u \in Int /\ clock \in Int /\ Window \in Int
  BY <1>1, RateBounds
<1>3. u - Window \in Int /\ u - Window <= clock - Window
  BY <1>1, <1>2
<1>4. QED
  BY <1>1, <1>2, <1>3 DEF u

LEMMA RateReturn ==
  ASSUME RInv, NEW c \in Handlers, Limiter!Return(c)
  PROVE  /\ Asked' /\ clock' = clock
         /\ key' \in [Handlers -> Pictures \cup {"none"}]
         /\ now' \in [Handlers -> {-1} \cup Limiter!Time]
  BY DEF RInv, RateTypes, Asked, Limiter!Return

LEMMA RateRefuse ==
  ASSUME RInv, NEW c \in Handlers, Limiter!Refuse(c)
  PROVE  RInv'
<1> DEFINE k == key[c]
           cutoff == now[c] - Window
<1>1. /\ now[c] # -1 /\ Limiter!Return(c) /\ UNCHANGED <<sweptAt, granted>>
      /\ hits' = [hits EXCEPT ![k] = Limiter!KeepAfter(hits[k], cutoff)]
  BY DEF Limiter!Refuse, Limiter!Kept
<1>2. k \in Pictures /\ clock \in Int /\ cutoff \in Int /\ cutoff <= clock - Window
  BY <1>1, CutoffPast
<1> HIDE DEF k, cutoff
<1>3. hits' \in [Pictures -> Seq(Limiter!Time)] /\ Accounted(hits', granted, clock)
  BY <1>1, <1>2, KeepsStored DEF RInv, RateTypes
<1>4. QED
  BY <1>1, <1>3, RateReturn DEF RInv, RateTypes

LEMMA RateGrant ==
  ASSUME RInv, NEW c \in Handlers, Limiter!Grant(c)
  PROVE  RInv'
<1> DEFINE k == key[c]
           u == now[c]
           cutoff == now[c] - Window
           q == Limiter!KeepAfter(hits[k], cutoff)
           passed == [hits EXCEPT ![k] = q]
           stored == [hits EXCEPT ![k] = Append(q, u)]
<1>1. /\ u # -1 /\ Limiter!Return(c) /\ ~(Len(q) >= Limit)
      /\ granted' = [granted EXCEPT ![k][u] = @ + 1]
      /\ \/ hits' = stored /\ sweptAt' = sweptAt
         \/ hits' = Limiter!Swept(stored, cutoff) /\ sweptAt' = clock
  BY DEF Limiter!Grant, Limiter!Kept, Limiter!Full, Limiter!Count
<1>2. /\ k \in Pictures /\ u \in Limiter!Time /\ clock \in Int /\ cutoff \in Int
      /\ cutoff <= clock - Window
  BY <1>1, CutoffPast
<1>3. hits \in [Pictures -> Seq(Limiter!Time)] /\ granted \in Grants
  BY DEF RInv, RateTypes
<1> HIDE DEF k, u, cutoff
<1>4. passed \in [Pictures -> Seq(Limiter!Time)] /\ Accounted(passed, granted, clock)
  BY <1>2, <1>3, KeepsStored DEF RInv
<1>5. passed[k] = q /\ Len(passed[k]) < Limit /\ stored = [passed EXCEPT ![k] = Append(passed[k], u)]
  <2>1. passed[k] = q /\ q \in Seq(Limiter!Time)
    BY <1>2, <1>3, <1>4
  <2> HIDE DEF q
  <2>2. Len(q) \in Nat
    BY <2>1
  <2>3. QED
    BY <1>1, <1>2, <1>3, <2>1, <2>2, RateBounds
<1> HIDE DEF q, passed, stored
<1>6. /\ stored \in [Pictures -> Seq(Limiter!Time)] /\ granted' \in Grants
      /\ Accounted(stored, granted', clock)
  BY <1>1, <1>2, <1>3, <1>4, <1>5, KeepsCounted
<1>7. hits' \in [Pictures -> Seq(Limiter!Time)] /\ Accounted(hits', granted', clock)
  <2>1. CASE hits' = stored
    BY <1>6, <2>1
  <2>2. CASE hits' = Limiter!Swept(stored, cutoff)
    BY <1>2, <1>6, <2>2, KeepsSwept
  <2>3. QED
    BY <1>1, <2>1, <2>2
<1>8. RateTypes' /\ Asked' /\ clock' = clock
  BY <1>1, <1>6, <1>7, RateReturn DEF RInv, RateTypes
<1>9. QED
  BY <1>7, <1>8 DEF RInv

LEMMA RateTick ==
  ASSUME RInv, Limiter!Tick
  PROVE  RInv'
<1>1. clock \in Limiter!Time /\ clock' = clock + 1 /\ clock' \in Limiter!Time /\ clock \in Int
  BY RateBounds DEF RInv, RateTypes, Limiter!Tick, Limiter!Time
<1>2. UNCHANGED <<hits, sweptAt, key, now, granted>>
  BY DEF Limiter!Tick
<1>3. RateTypes'
  BY <1>1, <1>2 DEF RInv, RateTypes
<1>4. Asked'
  <2>1. \A c \in Handlers : now[c] # -1 => now[c] \in Int
    BY RateBounds DEF RInv, RateTypes
  <2>2. QED
    BY <1>1, <1>2, <2>1 DEF RInv, Asked
<1>5. Accounted(hits', granted', clock')
  <2>1. \A t \in Limiter!Time : t > (clock + 1) - Window => t > clock - Window
    BY <1>1, RateBounds
  <2>2. QED
    BY <1>1, <1>2, <2>1 DEF RInv, Accounted
<1>6. QED
  BY <1>3, <1>4, <1>5 DEF RInv

LEMMA RateStays == RInv /\ UNCHANGED rateVars => RInv'
  BY DEF rateVars, RInv, RateTypes, Asked

LEMMA RateNext == RInv /\ (Limiter!Next \/ UNCHANGED rateVars) => RInv'
<1> SUFFICES ASSUME RInv, Limiter!Next \/ UNCHANGED rateVars PROVE RInv'
  OBVIOUS
<1>1. QED
  BY RateCall, RateRefuse, RateGrant, RateTick, RateStays DEF Limiter!Next
-----------------------------------------------------------------------------
(* The sum the limiter's properties take.                                  *)
LEMMA GrantedIsTotal ==
  ASSUME NEW k \in Pictures, NEW t
  PROVE  Limiter!GrantedAfter(k, t) = Total(granted[k], {u \in Limiter!Time : u > t})
<1> DEFINE S == {u \in Limiter!Time : u > t}
           P(f) == f = [s \in SUBSET S |->
                     IF s = {} THEN 0
                     ELSE LET x == CHOOSE x \in s : TRUE IN granted[k][x] + f[s \ {x}]]
<1>1. Limiter!GrantedAfter(k, t) = (CHOOSE f : P(f))[S]
  BY DEF Limiter!GrantedAfter, Limiter!MapThenSumSet, Limiter!MapThenFoldSet
<1>2. ASSUME NEW f PROVE P(f) <=> IsSum(granted[k], S, f)
  <2>1. ASSUME NEW s \in SUBSET S
        PROVE  (IF s = {} THEN 0
                ELSE LET x == CHOOSE x \in s : TRUE IN granted[k][x] + f[s \ {x}])
               = Add(granted[k], f, s)
    BY DEF Add, Pick, Rest
  <2>2. QED
    BY <2>1 DEF IsSum
<1>3. (CHOOSE f : P(f)) = SumOf(granted[k], S)
  BY <1>2 DEF SumOf
<1>4. QED
  BY <1>1, <1>3 DEF Total

LEMMA TimesFinite ==
  ASSUME NEW t
  PROVE  IsFiniteSet({u \in Limiter!Time : u > t})
<1>1. IsFiniteSet(Limiter!Time)
  BY RateBounds, FS_Interval DEF Limiter!Time
<1>2. {u \in Limiter!Time : u > t} \in SUBSET Limiter!Time
  OBVIOUS
<1>3. QED
  BY <1>1, <1>2, FS_Subset

(* Calls allowed within the window are in the slice, and it is short.      *)
LEMMA AtMost ==
  ASSUME RInv, NEW k \in Pictures
  PROVE  Limiter!GrantedAfter(k, clock - Window) <= Limit
<1> DEFINE S == {u \in Limiter!Time : u > clock - Window}
           w == granted[k]
           v == [u \in Limiter!Time |-> Times(hits[k], u)]
<1>1. w \in [Limiter!Time -> Nat] /\ hits[k] \in Seq(Limiter!Time) /\ Len(hits[k]) <= Limit
  BY DEF RInv, RateTypes, Grants, Accounted
<1>2. v \in [Limiter!Time -> Nat]
  BY <1>1, TimesType
<1>3. S \in SUBSET Limiter!Time /\ IsFiniteSet(S)
  BY TimesFinite
<1>4. \A u \in S : w[u] <= v[u]
  BY DEF RInv, Accounted
<1>5. Limiter!GrantedAfter(k, clock - Window) = Total(w, S)
  BY GrantedIsTotal
<1>6. Total(v, S) <= Len(hits[k])
  BY <1>1, <1>3, TimesFit
<1> HIDE DEF S, w, v
<1>7. Total(w, S) <= Total(v, S) /\ Total(w, S) \in Nat /\ Total(v, S) \in Nat
  BY <1>1, <1>2, <1>3, <1>4, TotalLess, TotalType
<1> DEFINE n == Len(hits[k])
           a == Total(w, S)
           b == Total(v, S)
<1>8. n \in Nat /\ a \in Nat /\ b \in Nat /\ a <= b /\ b <= n /\ n <= Limit /\ Limit \in Nat
  BY <1>1, <1>6, <1>7, RateBounds
<1> HIDE DEF n, a, b
<1>9. a <= Limit
  BY <1>8
<1>10. QED
  BY <1>5, <1>9 DEF a

(* A call is refused for calls that were let through.                      *)
LEMMA RefusedFor ==
  ASSUME RInv, NEW c \in Handlers, Limiter!Refuse(c)
  PROVE  Limiter!GrantedAfter(key[c], now[c] - Window) > 0
<1> DEFINE k == key[c]
           T == now[c] - Window
           q == Limiter!KeepAfter(hits[k], T)
           S == {u \in Limiter!Time : u > T}
           w == granted[k]
<1>1. now[c] # -1 /\ Len(q) >= Limit
  BY DEF Limiter!Refuse, Limiter!Full, Limiter!Kept
<1>2. k \in Pictures /\ T \in Int
  BY <1>1, CutoffPast
<1>3. /\ hits[k] \in Seq(Limiter!Time) /\ w \in [Limiter!Time -> Nat]
      /\ \A i \in DOMAIN hits[k] : w[hits[k][i]] > 0
  BY <1>2 DEF RInv, RateTypes, Grants, Accounted
<1> HIDE DEF k, T, w
<1>4. /\ q \in Seq(Limiter!Time)
      /\ \A i \in DOMAIN q : Limiter!After(q[i], T) /\ \E j \in DOMAIN hits[k] : hits[k][j] = q[i]
  BY <1>3, KeepAfterKeeps
<1> HIDE DEF q
<1>5. 1 \in DOMAIN q
  <2> DEFINE n == Len(q)
  <2>1. n \in Nat /\ n >= Limit /\ DOMAIN q = 1..n
    BY <1>1, <1>4
  <2> HIDE DEF n
  <2>2. QED
    BY <2>1, RateBounds
<1> DEFINE u == q[1]
<1>6. u \in Limiter!Time /\ u > T /\ w[u] > 0
  BY <1>3, <1>4, <1>5 DEF Limiter!After
<1>7. S \in SUBSET Limiter!Time /\ IsFiniteSet(S) /\ u \in S
  BY <1>6, TimesFinite
<1>8. Limiter!GrantedAfter(k, T) = Total(w, S)
  BY <1>2, GrantedIsTotal DEF w
<1> HIDE DEF u, S
<1>9. Total(w, S) = w[u] + Total(w, S \ {u})
  BY <1>3, <1>7, TotalWithout
<1>10. Total(w, S \ {u}) \in Nat /\ w[u] \in Nat
  <2>1. S \ {u} \in SUBSET Limiter!Time /\ IsFiniteSet(S \ {u})
    BY <1>7, FS_Subset
  <2>2. QED
    BY <1>3, <1>6, <2>1, TotalType
<1>11. Total(w, S) > 0
  BY <1>6, <1>9, <1>10
<1>12. QED
  BY <1>8, <1>11 DEF k, T
-----------------------------------------------------------------------------
(* In every reachable state a lone change of the account or of the brand   *)
(* is one that began well, the counts of passkeys and prompts fit, and the *)
(* limiter's slices account for the calls it let through.                  *)
THEOREM SettingsInvariance == SettingsSpec => [](AInv /\ BInv /\ RInv)
<1>1. SettingsInit => AInv /\ BInv /\ RInv
  BY AccountInit, BrandInit, RateInit DEF SettingsInit
<1>2. AInv /\ BInv /\ RInv /\ [SettingsNext]_allVars => AInv' /\ BInv' /\ RInv'
  <2>1. [SettingsNext]_allVars => /\ [Next]_vars
                                  /\ Brand!Next \/ UNCHANGED brandVars
                                  /\ Limiter!Next \/ UNCHANGED rateVars
    BY DEF SettingsNext, allVars
  <2>2. QED
    BY <2>1, AccountNext, BrandNext, RateNext
<1>3. QED
  BY <1>1, <1>2, PTL DEF SettingsSpec

(* PasskeysSound: an account that requires a passkey has one whenever its  *)
(* changes came one at a time, and it has at most as many more than        *)
(* maxPasskeys as prompts can be open beside one.                          *)
THEOREM PasskeysAreSound == SettingsSpec => []PasskeysSound
<1>1. AInv => PasskeysSound
  <2>1. SUFFICES ASSUME AInv PROVE PasskeyLimit
    BY DEF AInv, PasskeysSound
  <2> DEFINE k == Cardinality(keys)
             o == Cardinality(Open)
             n == Cardinality(Prompts)
  <2>2. k \in Nat /\ o \in Nat /\ n \in Nat /\ MaxPasskeys \in Nat /\ k + o <= MaxPasskeys + n - 1
    BY <2>1, Counts, AccountAssumption DEF AInv, RoomLeft
  <2> HIDE DEF k, o, n
  <2>3. k <= MaxPasskeys + n - 1
    BY <2>2
  <2>4. QED
    BY <2>3 DEF k, n, PasskeyLimit
<1>2. QED
  BY <1>1, SettingsInvariance, PTL

(* EndedForGood: a session that was ended stays ended, also when a request *)
(* under way with it writes it after that.                                 *)
THEOREM EndedSessionsStay == SettingsSpec => EndedForGood
<1>1. [SettingsNext]_allVars => [\A s \in started \ live : s \notin live']_vars
  <2>1. SUFFICES ASSUME Next PROVE \A s \in started \ live : s \notin live'
    BY DEF SettingsNext, allVars
  <2>2. CASE \E h \in Handlers : Request(h) \/ Step(h)
    BY <2>2
    DEF Request, Step, FinishPasskeyRegistration, DeletePasskey, SetRequirePasskey, SetRole,
        AuthenticateSession, CreatePasskey, ListRest, LoadRow, WriteRow, DropExpired, Touch,
        Touched, sessions
  <2>3. CASE \E s \in Sessions : StartSession(s) \/ EndSession(s) \/ Expire(s)
    BY <2>3 DEF StartSession, EndSession, Expire
  <2>4. CASE \/ \E p \in Prompts : BeginPasskeyRegistration(p) \/ PromptExpires(p)
             \/ RevokeAll \/ GetUser \/ PurgeSessions \/ Crash
    BY <2>4 DEF BeginPasskeyRegistration, PromptExpires, RevokeAll, GetUser, PurgeSessions, Crash,
                sessions
  <2>5. QED
    BY <2>1, <2>2, <2>3, <2>4 DEF Next
<1>2. QED
  BY <1>1, PTL DEF SettingsSpec, EndedForGood

(* LogosKept: the brand's logo is on disk, and nothing else but what a     *)
(* failed step, a crash or a job that needs it left there, as long as      *)
(* changes of the brand come one at a time.                                *)
THEOREM LogosAreKept == SettingsSpec => []LogosKept
<1>1. BInv => LogosKept
  BY DEF BInv, LogosKept
<1>2. QED
  BY <1>1, SettingsInvariance, PTL

(* Branded: a file uploaded under a logo is delivered with it, even when   *)
(* the logo is replaced or removed before the watermark is made.           *)
THEOREM FilesAreBranded == SettingsSpec => []Branded
<1>1. BInv => Branded
  <2>1. SUFFICES ASSUME BInv, NEW j \in Uploads, job[j].logo # Brand!None,
                        job[j].source = "text"
                 PROVE  overlapped \/ j \in raced
    BY DEF Branded, Brand!Branded
  <2>2. QED
    BY <2>1 DEF BInv, LogosOfJobs
<1>2. QED
  BY <1>1, SettingsInvariance, PTL

(* OnboardedOnce: the welcome setup, once finished, is not shown again     *)
(* unless two changes of the brand ran into each other.                    *)
THEOREM OnboardingStays == SettingsSpec => OnboardedOnce
<1>1. BInv /\ [SettingsNext]_allVars => [brand.onboarded => brand'.onboarded \/ overlapped]_(Brand!vars)
  <2>1. SUFFICES ASSUME BInv, Brand!Next, brand.onboarded, ~overlapped
                 PROVE  brand'.onboarded
    BY DEF SettingsNext, allVars, brandVars, vars, Brand!vars, Brand!history
  <2>2. ASSUME NEW h \in Handlers, Brand!Save(h) PROVE brand'.onboarded
    <3>1. change[h].at = "save" /\ brand' = [change[h].row EXCEPT !.saved = TRUE]
      BY <2>2 DEF Brand!Save
    <3>2. change[h].row \in Brand!Row
      BY <2>1, <3>1, ChangeFields DEF BInv
    <3>3. GoodChange(change[h])
      BY <2>1, <3>1, BusyIs DEF BInv, OneBrandChange
    <3>4. change[h].row.onboarded
      BY <2>1, <3>1, <3>3 DEF GoodChange
    <3>5. QED
      BY <3>1, <3>2, <3>4 DEF Brand!Row
  <2>3. CASE UNCHANGED brand
    BY <2>1, <2>3
  <2>4. QED
    BY <2>1, <2>2, <2>3
    DEF Brand!Next, Brand!Request, Brand!Step, Brand!Begin, Brand!SetLogo, Brand!Load,
        Brand!SaveFails, Brand!CheckUse, Brand!DeleteOld, Brand!Snapshot, Brand!CreateJob,
        Brand!Process, Brand!Finish, Brand!Fail, Brand!Crash
<1>2. QED
  BY <1>1, SettingsInvariance, PTL DEF SettingsSpec, OnboardedOnce, Brand!OnboardedOnce

(* TypesOK: the variables of each part keep their types; what was burned   *)
(* is on record while a worker makes a file and after, and no slice of the *)
(* limiter outgrows the limit, whatever lengths sweep leaves.              *)
THEOREM SettingsTypes == SettingsSpec => []TypesOK
<1>1. AInv => TypeOK
  BY DEF AInv, Types, TypeOK
<1>2. BInv => Brand!TypeOK
  <2>1. SUFFICES ASSUME BInv PROVE Brand!TypeOK
    OBVIOUS
  <2>2. \A j \in Uploads : job[j].logo \in Pictures \cup {Brand!None}
    BY <2>1 DEF BInv, BrandTypes, LogoKeys
  <2>3. QED
    BY <2>1, <2>2 DEF BInv, BrandTypes, Burned, Brand!TypeOK
<1>3. RInv => Limiter!TypeOK
  <2>1. SUFFICES ASSUME RInv PROVE Limiter!TypeOK
    OBVIOUS
  <2> DEFINE Slices == UNION {[1..n -> Limiter!Time] : n \in 0..Limit}
  <2>2. ASSUME NEW k \in Pictures PROVE hits[k] \in Slices
    <3>1. hits[k] \in Seq(Limiter!Time) /\ Len(hits[k]) <= Limit
      BY <2>1 DEF RInv, Accounted
    <3> DEFINE n == Len(hits[k])
    <3>2. n \in Nat /\ hits[k] \in [1..n -> Limiter!Time]
      BY <3>1
    <3>3. n \in 0..Limit
      <4> HIDE DEF n
      <4>1. n <= Limit
        BY <3>1 DEF n
      <4>2. QED
        BY <3>2, <4>1, RateBounds
    <3>4. QED
      BY <3>2, <3>3
  <2>3. hits \in [Pictures -> Slices]
    BY <2>1, <2>2 DEF RInv, RateTypes
  <2>4. QED
    BY <2>1, <2>3 DEF RInv, RateTypes, Grants, Limiter!TypeOK
<1> DEFINE Parts == part \in {"account", "brand", "limiter"}
<1>4. SettingsSpec => []Parts
  <2>1. SettingsInit => Parts
    BY DEF SettingsInit
  <2>2. Parts /\ [SettingsNext]_allVars => Parts'
    BY DEF SettingsNext, allVars
  <2>3. QED
    BY <2>1, <2>2, PTL DEF SettingsSpec
<1>5. Parts /\ AInv /\ BInv /\ RInv => TypesOK
  <2> DEFINE A == TypeOK
             B == Brand!TypeOK
             L == Limiter!TypeOK
  <2>1. AInv /\ BInv /\ RInv => A /\ B /\ L
    BY <1>1, <1>2, <1>3
  <2>2. TypesOK <=> CASE part = "account" -> A [] part = "brand" -> B [] part = "limiter" -> L
    BY DEF TypesOK
  <2> HIDE DEF A, B, L
  <2>3. QED
    BY <2>1, <2>2
<1>6. QED
  BY <1>4, <1>5, SettingsInvariance, PTL

(* AtMostLimit: no more than Limit calls of a key are let through in any   *)
(* window that ends now, also when calls get the mutex in another order    *)
(* than they read the clock, and filtering the shared slices in place      *)
(* loses none of them.                                                     *)
THEOREM CallsAreLimited == SettingsSpec => []AtMostLimit
<1>1. RInv => AtMostLimit
  <2>1. SUFFICES ASSUME RInv PROVE Limiter!AtMostLimit /\ Limiter!NoHitLost
    BY DEF AtMostLimit
  <2>2. Limiter!AtMostLimit
    BY <2>1, AtMost DEF Limiter!AtMostLimit
  <2>3. ASSUME NEW k \in Pictures, NEW t \in Limiter!Time, t > clock - Window
        PROVE  Times(hits[k], t) >= granted[k][t]
    <3>1. granted[k][t] <= Times(hits[k], t)
      BY <2>1, <2>3 DEF RInv, Accounted
    <3>2. granted[k][t] \in Nat /\ Times(hits[k], t) \in Nat
      BY <2>1, TimesType DEF RInv, RateTypes, Grants
    <3>3. QED
      BY <3>1, <3>2
  <2>4. ASSUME NEW s, NEW t PROVE Limiter!Times(s, t) = Times(s, t)
    <3>1. ASSUME NEW S PROVE Limiter!Cardinality(S) = Cardinality(S)
      BY DEF Limiter!Cardinality, Cardinality
    <3>2. QED
      BY <3>1 DEF Limiter!Times, Times
  <2>5. QED
    BY <2>2, <2>3, <2>4 DEF Limiter!NoHitLost
<1>2. QED
  BY <1>1, SettingsInvariance, PTL

(* RefusedIsRecent: a call is refused only when a call of its key was let  *)
(* through less than a Window before, so that who waits for a Window is    *)
(* let through.                                                            *)
THEOREM RefusalsAreRecent == SettingsSpec => RefusedIsRecent
<1> DEFINE Recent == \A c \in Handlers :
                       Limiter!Refused(c) => Limiter!GrantedAfter(key[c], now[c] - Window) > 0
<1>1. RInv /\ [SettingsNext]_allVars => [Recent]_(Limiter!vars)
  <2>1. SUFFICES ASSUME RInv, Limiter!Next, NEW c \in Handlers, Limiter!Refused(c)
                 PROVE  Limiter!GrantedAfter(key[c], now[c] - Window) > 0
    BY DEF SettingsNext, allVars, rateVars, Limiter!vars
  <2>2. now[c] # -1 /\ now'[c] = -1 /\ granted' = granted
    BY <2>1 DEF Limiter!Refused
  <2>3. CASE \E k \in Pictures, d \in Handlers : Limiter!Call(d, k)
    <3>1. PICK d \in Handlers : now[d] = -1 /\ now' = [now EXCEPT ![d] = clock]
      BY <2>3 DEF Limiter!Call
    <3>2. now'[c] = now[c]
      BY <2>1, <2>2, <3>1 DEF RInv, RateTypes
    <3>3. QED
      BY <2>2, <3>2
  <2>4. ASSUME NEW d \in Handlers, Limiter!Return(d) PROVE d = c
    <3>1. now'[c] = IF c = d THEN -1 ELSE now[c]
      BY <2>1, <2>4 DEF RInv, RateTypes, Limiter!Return
    <3>2. QED
      BY <2>2, <3>1
  <2>5. ASSUME NEW d \in Handlers, Limiter!Refuse(d)
        PROVE  Limiter!GrantedAfter(key[c], now[c] - Window) > 0
    <3>1. d = c
      BY <2>4, <2>5 DEF Limiter!Refuse
    <3>2. QED
      BY <2>1, <2>5, <3>1, RefusedFor
  <2>6. ASSUME NEW d \in Handlers, Limiter!Grant(d) PROVE FALSE
    <3>1. now[d] # -1 /\ granted' = [granted EXCEPT ![key[d]][now[d]] = @ + 1]
      BY <2>6 DEF Limiter!Grant, Limiter!Count
    <3>2. key[d] \in Pictures /\ now[d] \in Limiter!Time
      BY <2>1, <3>1, CutoffPast
    <3>3. granted'[key[d]][now[d]] = granted[key[d]][now[d]] + 1
          /\ granted[key[d]][now[d]] \in Nat
      BY <2>1, <3>1, <3>2 DEF RInv, RateTypes, Grants
    <3>4. QED
      BY <2>2, <3>3
  <2>7. CASE Limiter!Tick
    BY <2>2, <2>7 DEF Limiter!Tick
  <2>8. QED
    BY <2>1, <2>3, <2>5, <2>6, <2>7 DEF Limiter!Next
<1>2. QED
  BY <1>1, SettingsInvariance, PTL
  DEF SettingsSpec, RefusedIsRecent, Limiter!RefusedIsRecent
=============================================================================
