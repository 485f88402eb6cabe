---------------------------- MODULE SessionStart ----------------------------
(***************************************************************************)
(* The rest of a sign-in, after the email step or with a passkey alone:    *)
(* internals/app/auth (afterEmailStep, the passkey prompts, startSession,  *)
(* recordSignIn) over the sessions and login_events tables and the map of  *)
(* open prompts in memory.  The email step is in EmailStep, the requests   *)
(* that end sessions and change the account in Account.                    *)
(*                                                                         *)
(* A device is the browser (its user agent); a prompt past ceremonyTTL and *)
(* a sign-in longer ago than knownDeviceWindow are "stale".                *)
(***************************************************************************)
EXTENDS Integers, FiniteSets

CONSTANTS
  Users,
  Browsers,
  Sessions,     \* bound: sessions started
  Ceremonies,   \* bound: passkey prompts opened
  Handlers,     \* requests in progress at a time
  MaxPasses     \* bound: email steps passed

ASSUME SessionAssumption ==
  /\ MaxPasses \in Nat
  /\ "email" \notin Ceremonies
  /\ Ceremonies \cap (Users \X Browsers) = {}
  /\ IsFiniteSet(Sessions) /\ IsFiniteSet(Handlers)

VARIABLES
  passkeysEnabled,  \* the process has a passkey verifier (newWebAuthn)
  requires,    \* users whose row requires a passkey
  session,     \* sessions: owner, device and what started it
  seen,        \* login_events: the devices each user signed in from
  ceremony,    \* the map of open prompts
  req,         \* what each handler is doing
  stale,       \* prompts and sign-ins past their time
  \* history
  passes,      \* email steps passed, by user
  alerted,     \* users and devices an alert was raised for
  blind,       \* those whose sign-ins could not be looked up
  unnoticed    \* strange devices that came in without an alert

devices == <<seen, alerted, blind, unnoticed>>
account == <<passkeysEnabled, requires>>
vars    == <<account, session, devices, ceremony, req, stale, passes>>

Nothing == [at |-> "nothing"]

Open(c) == ceremony[c].at = "open"

Become(h, r) == req' = [req EXCEPT ![h] = r]
Done(h) == Become(h, Nothing)

-----------------------------------------------------------------------------
(* afterEmailStep, and the passkey prompts.                                *)

(* Mutant of NeedsPasskey: the requirement is not looked at.               *)
NeverNeeds(u) == FALSE

(* Without a verifier the requirement is passed over.                      *)
NeedsPasskey(u) == u \in requires /\ passkeysEnabled

OpenPrompt(c, kind, u) ==
  /\ passkeysEnabled
  /\ ceremony[c] = Nothing
  /\ ceremony' = [ceremony EXCEPT ![c] = [at |-> "open", kind |-> kind, user |-> u]]

(* What EmailStep leaves to the rest of the request.                       *)
EmailPassed(h, b, u) ==
  /\ req[h] = Nothing
  /\ passes[u] < MaxPasses
  /\ passes' = [passes EXCEPT ![u] = @ + 1]
  /\ Become(h, [at |-> "account", user |-> u, browser |-> b])
  /\ UNCHANGED <<account, devices, session, ceremony, stale>>

AfterEmailStep(h) ==
  /\ req[h].at = "account"
  /\ LET u == req[h].user IN
     \/ /\ NeedsPasskey(u)
        /\ \E c \in Ceremonies : OpenPrompt(c, "secondFactor", u)
        /\ Done(h)
     \/ /\ ~NeedsPasskey(u)
        /\ Become(h, [at |-> "start", user |-> u, browser |-> req[h].browser, by |-> "email"])
        /\ UNCHANGED ceremony
  /\ UNCHANGED <<account, devices, passes, session, stale>>

BeginPasskeyLogin(c) ==
  /\ OpenPrompt(c, "login", "anyone")
  /\ UNCHANGED <<account, devices, passes, session, req, stale>>

(* Mutant of Taken: the prompt stays in the map.                           *)
LeftOpen(c) == ceremony

(* take removes a prompt under the mutex, a stale one too.                 *)
Taken(c) == [ceremony EXCEPT ![c].at = "taken"]

TakePrompt(h, b, c) ==
  /\ req[h] = Nothing
  /\ Open(c)
  /\ ceremony' = Taken(c)
  /\ IF c \in stale THEN Done(h) ELSE Become(h, [at |-> "verify", browser |-> b, by |-> c])
  /\ UNCHANGED <<account, devices, passes, session, stale>>

(* ValidateLogin and ValidateDiscoverableLogin: whose passkey will do.     *)
Qualifies(c, u) ==
  /\ u \in Users
  /\ ceremony[c].kind = "secondFactor" => ceremony[c].user = u

VerifyPasskey(h) ==
  /\ req[h].at = "verify"
  /\ \/ \E u \in Users : Qualifies(req[h].by, u) /\ Become(h, [at |-> "start", user |-> u,
                            browser |-> req[h].browser, by |-> req[h].by])
     \/ Done(h)
  /\ UNCHANGED <<account, devices, passes, session, ceremony, stale>>

-----------------------------------------------------------------------------
(* startSession and recordSignIn.                                          *)

Signing(u) == {h \in Handlers : req[h].at \in {"seen", "first", "record"} /\ req[h].user = u}

(* The account was used from other devices and never from this one, and no *)
(* sign-in that could change that is half-way.                             *)
Strange(u, b) ==
  /\ <<u, b>> \notin seen
  /\ \E other \in Browsers \ {b} : <<u, other>> \in seen \ stale
  /\ Signing(u) = {}

StartSession(h, s) ==
  /\ req[h].at = "start"
  /\ session[s] = Nothing
  /\ session' = [session EXCEPT ![s] = [at |-> "started", user |-> req[h].user,
                                        browser |-> req[h].browser, by |-> req[h].by]]
  /\ Become(h, [at |-> "seen", user |-> req[h].user, browser |-> req[h].browser,
                strange |-> Strange(req[h].user, req[h].browser), alert |-> FALSE])
  /\ UNCHANGED <<account, devices, passes, ceremony, stale>>

(* Mutant of Known: the WHERE leaves the user out.                         *)
KnownToAnyone(u, b) == \E v \in Users : <<v, b>> \in seen \ stale

(* SeenUserAgent looks within knownDeviceWindow, Recent at every row left. *)
Known(u, b) == <<u, b>> \in seen \ stale

(* A lookup that fails passes for a device that is known.                  *)
CheckDevice(h) ==
  /\ req[h].at = "seen"
  /\ \/ /\ Become(h, [req[h] EXCEPT !.at = IF Known(req[h].user, req[h].browser)
                                           THEN "record" ELSE "first"])
        /\ UNCHANGED blind
     \/ /\ Become(h, [req[h] EXCEPT !.at = "record"])
        /\ blind' = blind \cup {<<req[h].user, req[h].browser>>}
  /\ UNCHANGED <<account, seen, alerted, unnoticed, passes, session, ceremony, stale>>

(* Here one that fails passes for an account that has signed in before.    *)
CheckFirst(h) ==
  /\ req[h].at = "first"
  /\ \E alert \in {\E b \in Browsers : <<req[h].user, b>> \in seen, TRUE} :
       Become(h, [req[h] EXCEPT !.at = "record", !.alert = alert])
  /\ UNCHANGED <<account, devices, passes, session, ceremony, stale>>

(* The alert is mailed, or not, by a goroutine that nothing waits for.     *)
Raised(h) == IF req[h].alert THEN {<<req[h].user, req[h].browser>>} ELSE {}

(* The row is written, or the failure is logged and no more.               *)
RecordSignIn(h) ==
  /\ req[h].at = "record"
  /\ LET it == <<req[h].user, req[h].browser>> IN
     /\ \/ seen' = seen \cup {it} /\ stale' = stale \ {it}
        \/ UNCHANGED <<seen, stale>>
     /\ alerted' = alerted \cup Raised(h)
     /\ unnoticed' = IF req[h].strange /\ it \notin alerted'
                     THEN unnoticed \cup {it} ELSE unnoticed
  /\ Done(h)
  /\ UNCHANGED <<account, blind, passes, session, ceremony>>

-----------------------------------------------------------------------------
(* Time, the hourly purge, and the death of the process.                   *)

(* The window of a sign-in does not close during a request.                *)
GoStale(x) ==
  /\ \/ x \in Ceremonies /\ Open(x)
     \/ x \in seen /\ \A h \in Handlers : req[h] = Nothing
  /\ x \notin stale
  /\ stale' = stale \cup {x}
  /\ UNCHANGED <<account, devices, passes, session, ceremony, req>>

(* DeleteBefore, of the sign-ins the alerts no longer look at.             *)
PurgeEvents ==
  /\ seen' = seen \ stale
  /\ UNCHANGED <<account, alerted, blind, unnoticed, passes, session, ceremony, req, stale>>

(* Open prompts are in memory only, and so are the alerts on their way.    *)
Crash ==
  /\ req' = [h \in Handlers |-> Nothing]
  /\ ceremony' = [c \in Ceremonies |-> IF Open(c) THEN [ceremony[c] EXCEPT !.at = "taken"] ELSE ceremony[c]]
  /\ UNCHANGED <<account, devices, passes, session, stale>>

(* Whether there is a verifier is settled by the frontend's URL.           *)
Init ==
  /\ passkeysEnabled \in BOOLEAN
  /\ requires \in SUBSET Users
  /\ session = [s \in Sessions |-> Nothing]
  /\ ceremony = [c \in Ceremonies |-> Nothing]
  /\ seen = {} /\ stale = {} /\ alerted = {} /\ blind = {} /\ unnoticed = {}
  /\ req = [h \in Handlers |-> Nothing]
  /\ passes = [u \in Users |-> 0]

Step(h) ==
  \/ AfterEmailStep(h) \/ VerifyPasskey(h)
  \/ \E s \in Sessions : StartSession(h, s)
  \/ CheckDevice(h) \/ CheckFirst(h) \/ RecordSignIn(h)

Next ==
  \/ \E h \in Handlers, b \in Browsers, u \in Users : EmailPassed(h, b, u)
  \/ \E h \in Handlers, b \in Browsers, c \in Ceremonies : TakePrompt(h, b, c)
  \/ \E h \in Handlers : Step(h)
  \/ \E c \in Ceremonies : BeginPasskeyLogin(c)
  \/ \E x \in Ceremonies \cup seen : GoStale(x)
  \/ PurgeEvents \/ Crash

Spec == Init /\ [][Next]_vars

-----------------------------------------------------------------------------
(* Every variable keeps its type; sessions name their account, and the    *)
(* email or the used-up prompt that began them.                            *)
TypeOK ==
  /\ passkeysEnabled \in BOOLEAN /\ requires \subseteq Users
  /\ \A s \in Sessions : session[s] # Nothing =>
       /\ session[s].user \in Users
       /\ session[s].by \in {"email"} \cup {c \in Ceremonies : ceremony[c].at = "taken"}
  /\ seen \cup alerted \cup blind \cup unnoticed \subseteq Users \X Browsers
  /\ \A c \in Ceremonies : ceremony[c].at \in {"nothing", "open", "taken"}
  /\ passes \in [Users -> Nat]

(* A passkey prompt starts at most one session, however often it is        *)
(* answered (take, passkeys.go).                                           *)
OneSessionPerPrompt ==
  \A s, t \in Sessions : session[s] # Nothing /\ session[t] # Nothing
    /\ session[s].by = session[t].by /\ session[s].by # "email" => s = t

ByEmail(u) == {s \in Sessions : session[s] # Nothing /\ session[s].by = "email"
                                  /\ session[s].user = u}

(* Emails start no more sessions of an account than email steps were       *)
(* passed for it (afterEmailStep, startSession).                           *)
EmailsPayForSessions == \A u \in Users : passes[u] >= Cardinality(ByEmail(u))

(* The variables keep their types, and a passed step starts one session.   *)
SessionsSound == TypeOK /\ OneSessionPerPrompt /\ EmailsPayForSessions

(* While the service has passkeys, an account that requires one is never   *)
(* entered by email alone, and the prompt that follows an email step       *)
(* admits only that account (afterEmailStep, service.go).                  *)
SecondFactorKept ==
  \A s \in Sessions : session[s] # Nothing =>
    \/ session[s].by = "email" /\ (passkeysEnabled => session[s].user \notin requires)
    \/ session[s].by \in Ceremonies /\ (ceremony[session[s].by].kind = "secondFactor"
                                          => ceremony[session[s].by].user = session[s].user)

(* A sign-in from a device the account never used, while it has others on  *)
(* record, raises an alert, unless a lookup of that device has failed:     *)
(* recordSignIn looks before it writes.                                    *)
StrangersNoticed == unnoticed \subseteq blind
=============================================================================
