------------------------------ MODULE Account -------------------------------
(***************************************************************************)
(* One account after sign-in: its row (internals/app/user), its passkeys   *)
(* and its sessions (internals/app/auth, passkey, session).                *)
(*                                                                         *)
(* A handler is one HTTP request in progress.  user.Repo.Update writes the *)
(* whole row that was read, so a request that reads the row before another *)
(* one's write takes that write back.  A passkey is added in two requests: *)
(* one opens a prompt in memory, the other answers it.                     *)
(***************************************************************************)
EXTENDS Integers, FiniteSets

CONSTANTS
  Passkeys,     \* bound: passkeys made
  Prompts,      \* registration prompts open at a time
  Sessions,     \* bound: sessions started
  Handlers,     \* requests in progress at a time
  MaxPasskeys   \* passkeys an account may have, 10 in the code

ASSUME AccountAssumption ==
  /\ MaxPasskeys \in Nat \ {0}
  /\ IsFiniteSet(Passkeys) /\ IsFiniteSet(Prompts)
  /\ Prompts # {}

Roles == {"operator", "admin"}
Rows == [role : Roles, require : BOOLEAN]

VARIABLES
  \* the database
  row,
  keys,       \* passkeys of the account
  made,       \* passkeys ever added
  live,       \* sessions with a row
  started,    \* sessions ever started
  expired,    \* sessions past their time
  \* the process
  prompt,     \* "none", "open", or "taken" by the handler that answers it
  req,        \* what each handler is doing
  \* history
  mixed,      \* two requests changed the account at the same time, or one
              \* was cut short by the death of the process
  outlived    \* sessions that were live when a new role was answered

passkeys == <<keys, made, prompt>>
sessions == <<live, started, expired>>
history  == <<mixed, outlived>>
vars     == <<row, passkeys, sessions, req, history>>

Idle == [at |-> "idle"]

Become(h, r) == req' = [req EXCEPT ![h] = r]
Done(h) == Become(h, Idle)

(* Requests that change the account: its row or its passkeys.              *)
Changing(h) == req[h].at \in {"load", "write", "rest", "create"}
Begins(h) == mixed' = (mixed \/ \E i \in Handlers \ {h} : Changing(i))

-----------------------------------------------------------------------------
(* Passkeys.                                                               *)

RoomForKey == Cardinality(keys) < MaxPasskeys

BeginPasskeyRegistration(p) ==
  /\ prompt[p] = "none"
  /\ RoomForKey
  /\ prompt' = [prompt EXCEPT ![p] = "open"]
  /\ UNCHANGED <<row, keys, made, sessions, req, history>>

PromptExpires(p) ==
  /\ prompt[p] = "open"
  /\ prompt' = [prompt EXCEPT ![p] = "none"]
  /\ UNCHANGED <<row, keys, made, sessions, req, history>>

(* take removes the prompt; its slot stays busy here until the answer.     *)
FinishPasskeyRegistration(h, p) ==
  /\ req[h] = Idle
  /\ prompt[p] = "open"
  /\ prompt' = [prompt EXCEPT ![p] = "taken"]
  /\ Become(h, [at |-> "create", prompt |-> p])
  /\ Begins(h)
  /\ UNCHANGED <<row, keys, made, sessions, outlived>>

(* An attestation that does not verify is refused.                         *)
CreatePasskey(h) ==
  /\ req[h].at = "create"
  /\ prompt' = [prompt EXCEPT ![req[h].prompt] = "none"]
  /\ \/ \E k \in Passkeys \ made : keys' = keys \cup {k} /\ made' = made \cup {k}
     \/ UNCHANGED <<keys, made>>
  /\ Done(h)
  /\ UNCHANGED <<row, sessions, history>>

DeletePasskey(h, k) ==
  /\ req[h] = Idle
  /\ k \in keys
  /\ keys' = keys \ {k}
  /\ Become(h, [at |-> "rest"])
  /\ Begins(h)
  /\ UNCHANGED <<row, made, prompt, sessions, outlived>>

(* Mutant of LastGone: the requirement stays when the last passkey goes.   *)
NoneLeft == FALSE

LastGone == keys = {}

ListRest(h) ==
  /\ req[h].at = "rest"
  /\ Become(h, IF LastGone THEN [at |-> "load", field |-> "require", value |-> FALSE] ELSE Idle)
  /\ UNCHANGED <<row, passkeys, sessions, history>>

-----------------------------------------------------------------------------
(* The row: SetRequirePasskey and SetRole read it, change one field of the *)
(* copy and write the copy.                                                *)

MayRequire == keys # {}

SetRequirePasskey(h, on) ==
  /\ req[h] = Idle
  /\ on => MayRequire
  /\ Become(h, [at |-> "load", field |-> "require", value |-> on])
  /\ Begins(h)
  /\ UNCHANGED <<row, passkeys, sessions, outlived>>

ValidRole(role) == role \in Roles

SetRole(h, role) ==
  /\ req[h] = Idle
  /\ ValidRole(role)
  /\ Become(h, [at |-> "load", field |-> "role", value |-> role])
  /\ Begins(h)
  /\ UNCHANGED <<row, passkeys, sessions, outlived>>

LoadRow(h) ==
  /\ req[h].at = "load"
  /\ LET new == [row EXCEPT ![req[h].field] = req[h].value] IN
     Become(h, IF new = row THEN Idle
               ELSE [at |-> "write", field |-> req[h].field, row |-> new])
  /\ UNCHANGED <<row, passkeys, sessions, history>>

WriteRow(h) ==
  /\ req[h].at = "write"
  /\ row' = req[h].row
  /\ outlived' = IF req[h].field = "role" THEN live ELSE outlived
  /\ Done(h)
  /\ UNCHANGED <<passkeys, sessions, mixed>>

-----------------------------------------------------------------------------
(* Sessions.                                                               *)

(* SessionStart: an account locked out by its requirement cannot.          *)
StartSession(s) ==
  /\ s \notin started
  /\ row.require => keys # {}
  /\ started' = started \cup {s} /\ live' = live \cup {s}
  /\ UNCHANGED <<row, passkeys, expired, req, history>>

(* AuthenticateSession reads the session, then drops it when it is past    *)
(* its time and may stamp it otherwise.                                    *)
AuthenticateSession(h, s) ==
  /\ req[h] = Idle
  /\ s \in live
  /\ Become(h, [at |-> IF s \in expired THEN "drop" ELSE "touch", session |-> s])
  /\ UNCHANGED <<row, passkeys, sessions, history>>

DropExpired(h) ==
  /\ req[h].at = "drop"
  /\ live' = live \ {req[h].session}
  /\ Done(h)
  /\ UNCHANGED <<row, passkeys, started, expired, history>>

(* Mutant of Touched: the whole row is written back, as Create would.      *)
WrittenBack(s) == live \cup {s}

(* An UPDATE of last_seen_at and ip: no row, no effect.                    *)
Touched(s) == live

Touch(h) ==
  /\ req[h].at = "touch"
  /\ live' = Touched(req[h].session)
  /\ Done(h)
  /\ UNCHANGED <<row, passkeys, started, expired, history>>

(* Logout, and RevokeSession from the list of devices.                     *)
EndSession(s) ==
  /\ s \in live
  /\ live' = live \ {s}
  /\ UNCHANGED <<row, passkeys, started, expired, req, history>>

(* logout-all and the link of a new-device alert.                          *)
RevokeAll ==
  /\ live # {}
  /\ live' = {}
  /\ UNCHANGED <<row, passkeys, started, expired, req, history>>

(* An administrator looks at the account: OnRoleChanged is called here,    *)
(* and not by SetRole.                                                     *)
GetUser == RevokeAll

Expire(s) ==
  /\ s \in live \ expired
  /\ expired' = expired \cup {s}
  /\ UNCHANGED <<row, passkeys, live, started, req, history>>

PurgeSessions ==
  /\ live' = live \ expired
  /\ UNCHANGED <<row, passkeys, started, expired, req, history>>

Crash ==
  /\ req' = [h \in Handlers |-> Idle]
  /\ prompt' = [p \in Prompts |-> "none"]
  /\ mixed' = (mixed \/ \E h \in Handlers : Changing(h))
  /\ UNCHANGED <<row, keys, made, sessions, outlived>>

Init ==
  /\ row = [role |-> "operator", require |-> FALSE]
  /\ keys = {} /\ made = {}
  /\ live = {} /\ started = {} /\ expired = {}
  /\ prompt = [p \in Prompts |-> "none"]
  /\ req = [h \in Handlers |-> Idle]
  /\ mixed = FALSE /\ outlived = {}

Request(h) ==
  \/ \E p \in Prompts : FinishPasskeyRegistration(h, p)
  \/ \E k \in Passkeys : DeletePasskey(h, k)
  \/ \E on \in BOOLEAN : SetRequirePasskey(h, on)
  \/ \E role \in Roles \cup {"unknown"} : SetRole(h, role)
  \/ \E s \in Sessions : AuthenticateSession(h, s)

Step(h) ==
  CreatePasskey(h) \/ ListRest(h) \/ LoadRow(h) \/ WriteRow(h) \/ DropExpired(h) \/ Touch(h)

Next ==
  \/ \E h \in Handlers : Request(h) \/ Step(h)
  \/ \E p \in Prompts : BeginPasskeyRegistration(p) \/ PromptExpires(p)
  \/ \E s \in Sessions : StartSession(s) \/ EndSession(s) \/ Expire(s)
  \/ RevokeAll \/ GetUser \/ PurgeSessions \/ Crash

Spec == Init /\ [][Next]_vars

-----------------------------------------------------------------------------
(* Every variable keeps its type, and live sessions were started.          *)
TypeOK ==
  /\ row \in Rows
  /\ keys \subseteq made /\ made \subseteq Passkeys
  /\ live \subseteq started /\ started \subseteq Sessions /\ expired \subseteq started
  /\ prompt \in [Prompts -> {"none", "open", "taken"}]
  /\ mixed \in BOOLEAN /\ outlived \subseteq started

(* Nobody is locked out: an account that requires a passkey has one,       *)
(* except while a request that removes the last one is on its way, and as  *)
(* long as no other request changes the account meanwhile.                 *)
NoLockout ==
  row.require /\ keys = {} => mixed \/ \E h \in Handlers : Changing(h)

(* maxPasskeys is checked when a prompt is opened, not when it is          *)
(* answered: prompts open at the same time can go past it, by as many.     *)
PasskeyLimit == Cardinality(keys) <= MaxPasskeys + Cardinality(Prompts) - 1

(* Signing out, everywhere or on one device, is for good: a request that   *)
(* was under way with the session does not bring it back.                  *)
EndedForGood == [][\A s \in started \ live : s \notin live']_vars

(* README: "Changing a user's role ends all of their sessions."            *)
RoleChangeEndsSessions == outlived \cap live = {}
=============================================================================
