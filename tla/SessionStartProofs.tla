------------------------- MODULE SessionStartProofs -------------------------
(***************************************************************************)
(* What the rest of a sign-in promises for any number of accounts,         *)
(* browsers, prompts, sessions and overlapping requests.                   *)
(***************************************************************************)
EXTENDS SessionStart, FiniteSetTheorems, TLAPS

Causes == {"email"} \cup Ceremonies

Requests ==
  {Nothing}
    \cup [at : {"account"}, user : Users, browser : Browsers]
    \cup [at : {"verify"}, browser : Browsers, by : Ceremonies]
    \cup [at : {"start"}, user : Users, browser : Browsers, by : Causes]
    \cup [at : {"seen", "first", "record"}, user : Users, browser : Browsers,
          strange : BOOLEAN, alert : BOOLEAN]

Started == [at : {"started"}, user : Users, browser : Browsers, by : Causes]

Prompts ==
  [at : {"open", "taken"}, kind : {"login", "secondFactor"}, user : Users \cup {"anyone"}]

Types ==
  /\ passkeysEnabled \in BOOLEAN /\ requires \subseteq Users
  /\ session \in [Sessions -> Started \cup {Nothing}]
  /\ ceremony \in [Ceremonies -> Prompts \cup {Nothing}]
  /\ req \in [Handlers -> Requests]
  /\ seen \cup alerted \cup blind \cup unnoticed \subseteq Users \X Browsers
  /\ passes \in [Users -> Nat]

(* A request answers prompt c, or is about to start the session for it.    *)
Holds(h, c) == req[h].at \in {"verify", "start"} /\ req[h].by = c

Began(s, c) == session[s] # Nothing /\ session[s].by = c

UsedIsTaken ==
  \A c \in Ceremonies :
    (\E h \in Handlers : Holds(h, c)) \/ (\E s \in Sessions : Began(s, c))
      => ceremony[c].at = "taken"

(* What a prompt leads to is one request and then one session.             *)
UsedOnce ==
  \A c \in Ceremonies :
    /\ \A h, i \in Handlers : Holds(h, c) /\ Holds(i, c) => h = i
    /\ \A h \in Handlers, s \in Sessions : ~(Holds(h, c) /\ Began(s, c))
    /\ \A s, t \in Sessions : Began(s, c) /\ Began(t, c) => s = t

(* What a session may be started on.                                       *)
Admits(u, by) ==
  \/ by = "email" /\ (passkeysEnabled => u \notin requires)
  \/ by \in Ceremonies /\ (ceremony[by].kind = "secondFactor" => ceremony[by].user = u)

MayStart(h) == req[h].at = "start" => Admits(req[h].user, req[h].by)

MayRun(s) == session[s] # Nothing => Admits(session[s].user, session[s].by)

StartsAdmitted == (\A h \in Handlers : MayStart(h)) /\ (\A s \in Sessions : MayRun(s))

IInv == Types /\ UsedIsTaken /\ UsedOnce /\ StartsAdmitted
-----------------------------------------------------------------------------
(* The prompts only go on: what a used one was for stays what it was for.  *)
PromptsGoOn ==
  \A c \in Ceremonies : ceremony[c] # Nothing =>
    /\ ceremony'[c].kind = ceremony[c].kind
    /\ ceremony'[c].user = ceremony[c].user
    /\ ceremony[c].at = "taken" => ceremony'[c].at = "taken"

LEMMA RequestFields ==
  ASSUME Types, NEW h \in Handlers
  PROVE  /\ req[h].at = "account" => req[h].user \in Users /\ req[h].browser \in Browsers
         /\ req[h].at = "verify" => req[h].browser \in Browsers /\ req[h].by \in Ceremonies
         /\ req[h].at = "start" =>
              req[h].user \in Users /\ req[h].browser \in Browsers /\ req[h].by \in Causes
         /\ req[h].at \in {"seen", "first", "record"} =>
              /\ req[h].user \in Users /\ req[h].browser \in Browsers
              /\ req[h].strange \in BOOLEAN /\ req[h].alert \in BOOLEAN
              /\ req[h] = [at |-> req[h].at, user |-> req[h].user, browser |-> req[h].browser,
                           strange |-> req[h].strange, alert |-> req[h].alert]
<1>1. req[h] \in Requests
  BY DEF Types
<1>2. QED
  BY <1>1 DEF Requests, Nothing

(* Where no request gets hold of a prompt it did not have and no session   *)
(* starts, all stays as it was.                                            *)
LEMMA NothingGained ==
  ASSUME IInv,
         req' \in [Handlers -> Requests],
         \A g \in Handlers, c \in Ceremonies : Holds(g, c)' => Holds(g, c),
         \A g \in Handlers : req'[g].at = "start" => Admits(req'[g].user, req'[g].by),
         ceremony' \in [Ceremonies -> Prompts \cup {Nothing}],
         PromptsGoOn,
         seen' \cup alerted' \cup blind' \cup unnoticed' \subseteq Users \X Browsers,
         passes' \in [Users -> Nat],
         UNCHANGED <<account, session>>
  PROVE  IInv'
<1>1. Types'
  BY DEF account, IInv, Types
<1>2. \A s \in Sessions, c \in Ceremonies : Began(s, c)' <=> Began(s, c)
  BY DEF Began
<1>3. UsedOnce'
  BY <1>2 DEF IInv, UsedOnce
<1>4. UsedIsTaken'
  <2>1. \A c \in Ceremonies : ceremony[c].at = "taken" => ceremony'[c].at = "taken"
    BY DEF PromptsGoOn, Nothing
  <2>2. QED
    BY <1>2, <2>1 DEF IInv, UsedIsTaken
<1>5. ASSUME NEW c \in Ceremonies, ceremony[c].at = "taken"
      PROVE  ceremony'[c].kind = ceremony[c].kind /\ ceremony'[c].user = ceremony[c].user
  BY <1>5 DEF PromptsGoOn, Nothing
<1>6. ASSUME NEW g \in Handlers PROVE MayStart(g)'
  <2>1. SUFFICES ASSUME req'[g].at = "start" PROVE MayStart(g)'
    BY DEF MayStart
  <2>2. Admits(req'[g].user, req'[g].by)
    BY <2>1
  <2>3. CASE req'[g].by = "email"
    BY <2>2, <2>3, SessionAssumption DEF account, MayStart, Admits
  <2>4. CASE req'[g].by \in Ceremonies
    <3>1. Holds(g, req'[g].by)
      BY <2>1, <2>4 DEF Holds
    <3>2. ceremony[req'[g].by].at = "taken"
      BY <2>4, <3>1 DEF IInv, UsedIsTaken
    <3>3. QED
      BY <2>2, <2>4, <3>2, <1>5, SessionAssumption DEF MayStart, Admits
  <2>5. QED
    BY <2>2, <2>3, <2>4 DEF Admits
<1>7. ASSUME NEW s \in Sessions PROVE MayRun(s)'
  <2>1. SUFFICES ASSUME session[s] # Nothing PROVE MayRun(s)'
    BY DEF MayRun
  <2>2. Admits(session[s].user, session[s].by)
    BY <2>1 DEF IInv, StartsAdmitted, MayRun
  <2>3. CASE session[s].by = "email"
    BY <2>2, <2>3, SessionAssumption DEF account, MayRun, Admits
  <2>4. CASE session[s].by \in Ceremonies
    <3>1. ceremony[session[s].by].at = "taken"
      BY <2>1, <2>4 DEF IInv, UsedIsTaken, Began
    <3>2. QED
      BY <2>2, <2>4, <3>1, <1>5, SessionAssumption DEF MayRun, Admits
  <2>5. QED
    BY <2>2, <2>3, <2>4 DEF Admits
<1>8. QED
  BY <1>1, <1>3, <1>4, <1>6, <1>7 DEF IInv, StartsAdmitted

(* One request goes on, without a new prompt.                              *)
LEMMA RequestMoves ==
  ASSUME IInv, NEW h \in Handlers, NEW r \in Requests,
         req' = [req EXCEPT ![h] = r],
         r.at \in {"verify", "start"} => Holds(h, r.by) \/ r.by = "email",
         r.at = "start" => Admits(r.user, r.by),
         ceremony' \in [Ceremonies -> Prompts \cup {Nothing}],
         PromptsGoOn,
         seen' \cup alerted' \cup blind' \cup unnoticed' \subseteq Users \X Browsers,
         passes' \in [Users -> Nat],
         UNCHANGED <<account, session>>
  PROVE  IInv'
<1>1. req' \in [Handlers -> Requests] /\ req'[h] = r
  BY DEF IInv, Types
<1>2. \A g \in Handlers : g # h => req'[g] = req[g]
  BY DEF IInv, Types
<1>3. ASSUME NEW c \in Ceremonies, Holds(h, c)' PROVE Holds(h, c)
  BY <1>1, <1>3, SessionAssumption DEF Holds
<1>4. ASSUME NEW g \in Handlers, g # h, NEW c \in Ceremonies PROVE Holds(g, c)' <=> Holds(g, c)
  BY <1>2, <1>4 DEF Holds
<1>5. \A g \in Handlers : req'[g].at = "start" => Admits(req'[g].user, req'[g].by)
  BY <1>1, <1>2 DEF IInv, StartsAdmitted, MayStart
<1>6. QED
  BY <1>1, <1>3, <1>4, <1>5, NothingGained

(* The steps that open or take a prompt, or start the session.             *)
LEMMA IdleHoldsNothing ==
  ASSUME NEW h \in Handlers, req[h] = Nothing
  PROVE  \A c : ~Holds(h, c)
BY DEF Holds, Nothing

LEMMA TakingIsNew ==
  ASSUME IInv, NEW h \in Handlers, NEW b \in Browsers, NEW c \in Ceremonies, TakePrompt(h, b, c)
  PROVE  IInv'
<1>1. PICK r \in Requests :
        /\ req' = [req EXCEPT ![h] = r]
        /\ r = Nothing \/ r = [at |-> "verify", browser |-> b, by |-> c]
  BY DEF TakePrompt, Done, Become, Requests
<1>2. ceremony[c] \in Prompts /\ ceremony[c].at = "open"
  BY DEF TakePrompt, Open, Nothing, IInv, Types
<1>3. \A d \in Ceremonies : d # c => ceremony'[d] = ceremony[d]
  BY DEF TakePrompt, Taken, IInv, Types
<1>4. ceremony'[c] = [ceremony[c] EXCEPT !.at = "taken"]
  BY DEF TakePrompt, Taken, IInv, Types
<1>5. ceremony'[c] \in Prompts /\ ceremony'[c].at = "taken"
      /\ ceremony'[c].kind = ceremony[c].kind /\ ceremony'[c].user = ceremony[c].user
  BY <1>2, <1>4 DEF Prompts
<1>6. ceremony' \in [Ceremonies -> Prompts \cup {Nothing}]
  BY <1>3, <1>5 DEF TakePrompt, Taken, IInv, Types
<1>7. Types'
  BY <1>1, <1>6 DEF account, TakePrompt, devices, IInv, Types
<1>8. \A g \in Handlers : req'[g] = IF g = h THEN r ELSE req[g]
  BY <1>1 DEF IInv, Types
<1>9. \A g \in Handlers, d \in Ceremonies : Holds(g, d)' => Holds(g, d) \/ (g = h /\ d = c)
  <2>1. r.at = "nothing" \/ r.by = c
    BY <1>1 DEF Nothing
  <2>2. r.at = "nothing" => r.at \notin {"verify", "start"}
    OBVIOUS
  <2>3. ASSUME NEW d \in Ceremonies, Holds(h, d)' PROVE d = c
    <3>1. req'[h] = r
      BY <1>8
    <3>2. QED
      BY <2>1, <2>2, <2>3, <3>1 DEF Holds
  <2>4. ASSUME NEW g \in Handlers, g # h, NEW d \in Ceremonies PROVE Holds(g, d)' <=> Holds(g, d)
    <3>1. req'[g] = req[g]
      BY <1>8, <2>4
    <3>2. QED
      BY <3>1 DEF Holds
  <2>5. QED
    BY <2>3, <2>4
<1>10. \A s \in Sessions, d \in Ceremonies : Began(s, d)' <=> Began(s, d)
  BY DEF TakePrompt, Began
<1>11. (\A g \in Handlers : ~Holds(g, c)) /\ (\A s \in Sessions : ~Began(s, c))
  BY <1>2 DEF IInv, UsedIsTaken
<1>12. UsedOnce'
  BY <1>9, <1>10, <1>11 DEF IInv, UsedOnce
<1>13. UsedIsTaken'
  BY <1>3, <1>5, <1>9, <1>10 DEF IInv, UsedIsTaken
<1>14. \A u \in Users, by \in Causes : Admits(u, by) => Admits(u, by)'
  BY <1>3, <1>5, SessionAssumption DEF account, TakePrompt, Admits
<1>15. ASSUME NEW g \in Handlers PROVE MayStart(g)'
  <2>1. SUFFICES ASSUME req'[g].at = "start" PROVE MayStart(g)'
    BY DEF MayStart
  <2>2. req'[g] = req[g]
    BY <1>1, <1>8, <2>1 DEF Nothing
  <2>3. QED
    BY <1>14, <2>1, <2>2, RequestFields DEF IInv, StartsAdmitted, MayStart
<1>16. ASSUME NEW s \in Sessions PROVE MayRun(s)'
  <2>1. session' = session /\ session[s] \in Started \cup {Nothing}
    BY DEF TakePrompt, IInv, Types
  <2>2. session[s] # Nothing => session[s].user \in Users /\ session[s].by \in Causes
    BY <2>1 DEF Started
  <2>3. QED
    BY <1>14, <2>1, <2>2 DEF IInv, StartsAdmitted, MayRun
<1>17. QED
  BY <1>7, <1>12, <1>13, <1>15, <1>16 DEF IInv, StartsAdmitted

LEMMA StartingIsNew ==
  ASSUME IInv, NEW h \in Handlers, NEW s \in Sessions, StartSession(h, s)
  PROVE  IInv'
<1> DEFINE began == [at |-> "started", user |-> req[h].user, browser |-> req[h].browser,
                     by |-> req[h].by]
<1>1. req[h].user \in Users /\ req[h].browser \in Browsers /\ req[h].by \in Causes
  BY RequestFields DEF StartSession, IInv
<1>2. began \in Started
  BY <1>1 DEF Started
<1>3. PICK r \in Requests : req' = [req EXCEPT ![h] = r] /\ r.at = "seen"
  <2>1. Strange(req[h].user, req[h].browser) \in BOOLEAN
    BY DEF Strange
  <2>2. PICK x \in BOOLEAN : x = Strange(req[h].user, req[h].browser)
    BY <2>1
  <2>3. [at |-> "seen", user |-> req[h].user, browser |-> req[h].browser,
         strange |-> x, alert |-> FALSE] \in Requests
    BY <1>1 DEF Requests
  <2>4. QED
    BY <2>2, <2>3 DEF StartSession, Become
<1>4. \A t \in Sessions : session'[t] = IF t = s THEN began ELSE session[t]
  BY DEF StartSession, IInv, Types
<1>5. \A g \in Handlers : req'[g] = IF g = h THEN r ELSE req[g]
  BY <1>3 DEF IInv, Types
<1>6. Types'
  <2>1. session' \in [Sessions -> Started \cup {Nothing}]
    BY <1>2 DEF StartSession, IInv, Types
  <2>2. QED
    BY <1>3, <2>1 DEF account, StartSession, devices, IInv, Types
<1>7. \A g \in Handlers, c \in Ceremonies : Holds(g, c)' => g # h /\ Holds(g, c)
  BY <1>3, <1>5 DEF Holds
<1>8. \A t \in Sessions, c \in Ceremonies :
        Began(t, c)' => Began(t, c) \/ (t = s /\ Holds(h, c))
  <2>1. began.by = req[h].by /\ req[h].at = "start"
    BY DEF StartSession
  <2>2. ASSUME NEW c \in Ceremonies, Began(s, c)' PROVE Holds(h, c)
    <3>1. session'[s] = began
      BY <1>4
    <3>2. QED
      BY <2>1, <2>2, <3>1 DEF Began, Holds
  <2>3. ASSUME NEW t \in Sessions, t # s, NEW c \in Ceremonies PROVE Began(t, c)' <=> Began(t, c)
    <3>1. session'[t] = session[t]
      BY <1>4, <2>3
    <3>2. QED
      BY <3>1 DEF Began
  <2>4. QED
    BY <2>2, <2>3
<1>9. UsedOnce'
  BY <1>7, <1>8 DEF IInv, UsedOnce
<1>10. UsedIsTaken'
  BY <1>7, <1>8 DEF StartSession, IInv, UsedIsTaken
<1>11. \A u, by : Admits(u, by)' <=> Admits(u, by)
  BY DEF account, StartSession, Admits
<1>12. \A g \in Handlers : MayStart(g)'
  BY <1>3, <1>5, <1>11 DEF IInv, StartsAdmitted, MayStart
<1>13. \A t \in Sessions : MayRun(t)'
  BY <1>4, <1>11 DEF StartSession, IInv, StartsAdmitted, MayRun, MayStart
<1>14. QED
  BY <1>6, <1>9, <1>10, <1>12, <1>13 DEF IInv, StartsAdmitted

-----------------------------------------------------------------------------
LEMMA SamePrompts ==
  ASSUME ceremony' = ceremony
  PROVE  PromptsGoOn
BY DEF PromptsGoOn

LEMMA KeepsAfterEmailStep ==
  ASSUME IInv, NEW h \in Handlers, AfterEmailStep(h)
  PROVE  IInv'
<1>1. req[h].user \in Users /\ req[h].browser \in Browsers
  BY RequestFields DEF AfterEmailStep, IInv
<1>2. CASE NeedsPasskey(req[h].user)
  <2>1. PICK c \in Ceremonies : OpenPrompt(c, "secondFactor", req[h].user)
    BY <1>2 DEF AfterEmailStep
  <2>2. [at |-> "open", kind |-> "secondFactor", user |-> req[h].user] \in Prompts
    BY <1>1 DEF Prompts
  <2>3. ceremony' \in [Ceremonies -> Prompts \cup {Nothing}] /\ PromptsGoOn
    BY <2>1, <2>2 DEF OpenPrompt, PromptsGoOn, IInv, Types
  <2>4. req' = [req EXCEPT ![h] = Nothing] /\ Nothing \in Requests
    BY <1>2 DEF AfterEmailStep, Done, Become, Requests
  <2>5. Nothing.at = "nothing"
    BY DEF Nothing
  <2>6. UNCHANGED <<account, devices, passes, session, stale>>
    BY DEF AfterEmailStep
  <2>7. QED
    BY <2>3, <2>4, <2>5, <2>6, RequestMoves DEF devices, IInv, Types
<1>3. CASE ~NeedsPasskey(req[h].user)
  <2> DEFINE r == [at |-> "start", user |-> req[h].user, browser |-> req[h].browser,
                   by |-> "email"]
  <2>1. r \in Requests
    BY <1>1 DEF Requests, Causes
  <2>2. Admits(r.user, r.by) /\ r.by = "email"
    BY <1>3, <1>1 DEF NeedsPasskey, Admits
  <2>3. req' = [req EXCEPT ![h] = r] /\ PromptsGoOn
    BY <1>3, SamePrompts DEF AfterEmailStep, Become
  <2>4. UNCHANGED <<account, devices, passes, session, stale, ceremony>>
    BY <1>3 DEF AfterEmailStep
  <2>5. QED
    BY <2>1, <2>2, <2>3, <2>4, RequestMoves DEF devices, IInv, Types
<1>4. QED
  BY <1>2, <1>3

LEMMA KeepsVerifyPasskey ==
  ASSUME IInv, NEW h \in Handlers, VerifyPasskey(h)
  PROVE  IInv'
<1>1. req[h].at = "verify" /\ req[h].browser \in Browsers /\ req[h].by \in Ceremonies
  BY RequestFields DEF VerifyPasskey, IInv
<1>2. UNCHANGED <<account, devices, passes, session, ceremony, stale>> /\ PromptsGoOn
  BY SamePrompts DEF VerifyPasskey
<1>3. ASSUME NEW u \in Users, Qualifies(req[h].by, u),
             Become(h, [at |-> "start", user |-> u, browser |-> req[h].browser, by |-> req[h].by])
      PROVE  IInv'
  <2> DEFINE r == [at |-> "start", user |-> u, browser |-> req[h].browser, by |-> req[h].by]
  <2>1. r \in Requests
    BY <1>1 DEF Requests, Causes
  <2>2. Admits(r.user, r.by)
    BY <1>1, <1>3 DEF Qualifies, Admits
  <2>3. Holds(h, r.by)
    BY <1>1 DEF Holds
  <2>4. req' = [req EXCEPT ![h] = r]
    BY <1>3 DEF Become
  <2>5. QED
    BY <1>2, <2>1, <2>2, <2>3, <2>4, RequestMoves DEF devices, IInv, Types
<1>4. CASE Done(h)
  <2>1. Nothing \in Requests /\ Nothing.at = "nothing" /\ req' = [req EXCEPT ![h] = Nothing]
    BY <1>4 DEF Requests, Nothing, Done, Become
  <2>2. QED
    BY <1>2, <2>1, RequestMoves DEF devices, IInv, Types
<1>5. QED
  BY <1>3, <1>4 DEF VerifyPasskey

(* The steps of a request that has started its session.                    *)
LEMMA KeepsDevices ==
  ASSUME IInv, NEW h \in Handlers, CheckDevice(h) \/ CheckFirst(h) \/ RecordSignIn(h)
  PROVE  IInv'
<1>1. req[h].at \in {"seen", "first", "record"}
  BY DEF CheckDevice, CheckFirst, RecordSignIn
<1>2. /\ req[h].user \in Users /\ req[h].browser \in Browsers
      /\ req[h].strange \in BOOLEAN /\ req[h].alert \in BOOLEAN
      /\ req[h] = [at |-> req[h].at, user |-> req[h].user, browser |-> req[h].browser,
                   strange |-> req[h].strange, alert |-> req[h].alert]
  BY <1>1, RequestFields DEF IInv
<1>3. UNCHANGED <<account, passes, session, ceremony>> /\ PromptsGoOn
  BY SamePrompts DEF CheckDevice, CheckFirst, RecordSignIn
<1>4. ASSUME NEW at \in {"first", "record"}, NEW alert \in BOOLEAN
      PROVE  [req[h] EXCEPT !.at = at, !.alert = alert] \in Requests
             /\ [req[h] EXCEPT !.at = at, !.alert = alert].at = at
  BY <1>2, <1>4 DEF Requests
<1>5. ASSUME NEW at \in {"first", "record"}
      PROVE  [req[h] EXCEPT !.at = at] \in Requests /\ [req[h] EXCEPT !.at = at].at = at
  BY <1>2, <1>5 DEF Requests
<1>6. CASE CheckDevice(h)
  <2>1. <<req[h].user, req[h].browser>> \in Users \X Browsers
    BY <1>2
  <2>2. seen' \cup alerted' \cup blind' \cup unnoticed' \subseteq Users \X Browsers
    BY <1>6, <2>1 DEF CheckDevice, IInv, Types
  <2>3. PICK at \in {"first", "record"} : req' = [req EXCEPT ![h] = [req[h] EXCEPT !.at = at]]
    BY <1>6 DEF CheckDevice, Become
  <2>4. QED
    BY <1>3, <1>5, <2>2, <2>3, RequestMoves DEF IInv, Types
<1>7. CASE CheckFirst(h)
  <2>1. PICK x \in BOOLEAN : Become(h, [req[h] EXCEPT !.at = "record", !.alert = x])
    BY <1>7 DEF CheckFirst
  <2>2. req' = [req EXCEPT ![h] = [req[h] EXCEPT !.at = "record", !.alert = x]]
    BY <2>1 DEF Become
  <2>3. UNCHANGED devices
    BY <1>7 DEF CheckFirst
  <2>4. QED
    BY <1>3, <1>4, <2>2, <2>3, RequestMoves DEF devices, IInv, Types
<1>8. CASE RecordSignIn(h)
  <2>1. <<req[h].user, req[h].browser>> \in Users \X Browsers
    BY <1>2
  <2>2. seen' \cup alerted' \cup blind' \cup unnoticed' \subseteq Users \X Browsers
    BY <1>8, <2>1 DEF RecordSignIn, Raised, IInv, Types
  <2>3. Nothing \in Requests /\ Nothing.at = "nothing" /\ req' = [req EXCEPT ![h] = Nothing]
    BY <1>8 DEF Requests, Nothing, RecordSignIn, Done, Become
  <2>4. QED
    BY <1>3, <2>2, <2>3, RequestMoves DEF IInv, Types
<1>9. QED
  BY <1>6, <1>7, <1>8

LEMMA KeepsEmailPassed ==
  ASSUME IInv, NEW h \in Handlers, NEW b \in Browsers, NEW u \in Users, EmailPassed(h, b, u)
  PROVE  IInv'
<1> DEFINE r == [at |-> "account", user |-> u, browser |-> b]
<1>1. r \in Requests /\ req' = [req EXCEPT ![h] = r]
  BY DEF Requests, EmailPassed, Become
<1>2. passes' \in [Users -> Nat]
  BY DEF EmailPassed, IInv, Types
<1>3. UNCHANGED <<account, devices, session, ceremony, stale>> /\ PromptsGoOn
  BY SamePrompts DEF EmailPassed
<1>4. QED
  BY <1>1, <1>2, <1>3, RequestMoves DEF devices, IInv, Types

LEMMA KeepsOthers ==
  ASSUME IInv,
         \/ \E c \in Ceremonies : BeginPasskeyLogin(c)
         \/ \E x \in Ceremonies \cup seen : GoStale(x)
         \/ PurgeEvents
         \/ Crash
         \/ UNCHANGED vars
  PROVE  IInv'
<1>1. CASE \E c \in Ceremonies : BeginPasskeyLogin(c)
  <2>1. PICK c \in Ceremonies : BeginPasskeyLogin(c)
    BY <1>1
  <2>2. [at |-> "open", kind |-> "login", user |-> "anyone"] \in Prompts
    BY DEF Prompts
  <2>3. ceremony' \in [Ceremonies -> Prompts \cup {Nothing}] /\ PromptsGoOn
    BY <2>1, <2>2 DEF BeginPasskeyLogin, OpenPrompt, PromptsGoOn, IInv, Types
  <2>4. UNCHANGED <<account, devices, passes, session, req>>
    BY <2>1 DEF BeginPasskeyLogin
  <2>5. \A g \in Handlers : req'[g].at = "start" => Admits(req'[g].user, req'[g].by)
    BY <2>4 DEF IInv, StartsAdmitted, MayStart
  <2>6. QED
    BY <2>3, <2>4, <2>5, NothingGained DEF devices, Holds, IInv, Types
<1>2. CASE (\E x \in Ceremonies \cup seen : GoStale(x)) \/ PurgeEvents \/ UNCHANGED vars
  <2>1. UNCHANGED <<account, alerted, blind, unnoticed, passes, session, ceremony, req>> /\ PromptsGoOn
    BY <1>2, SamePrompts DEF GoStale, PurgeEvents, devices, vars
  <2>2. seen' \subseteq seen
    BY <1>2 DEF GoStale, PurgeEvents, devices, vars
  <2>3. \A g \in Handlers : req'[g].at = "start" => Admits(req'[g].user, req'[g].by)
    BY <2>1 DEF IInv, StartsAdmitted, MayStart
  <2>4. QED
    BY <2>1, <2>2, <2>3, NothingGained DEF Holds, IInv, Types
<1>3. CASE Crash
  <2>1. req' \in [Handlers -> Requests] /\ \A g \in Handlers : req'[g].at = "nothing"
    BY <1>3 DEF Crash, Requests, Nothing
  <2>2. ASSUME NEW c \in Ceremonies
        PROVE  /\ ceremony'[c] \in Prompts \cup {Nothing}
               /\ ceremony[c] # Nothing =>
                    /\ ceremony'[c].kind = ceremony[c].kind
                    /\ ceremony'[c].user = ceremony[c].user
                    /\ ceremony[c].at = "taken" => ceremony'[c].at = "taken"
    <3>1. ceremony[c] \in Prompts \cup {Nothing}
      BY DEF IInv, Types
    <3>2. CASE Open(c)
      <4>1. ceremony'[c] = [ceremony[c] EXCEPT !.at = "taken"] /\ ceremony[c] \in Prompts
        BY <1>3, <3>1, <3>2 DEF Crash, Open, Nothing
      <4>2. QED
        BY <4>1 DEF Prompts
    <3>3. CASE ~Open(c)
      BY <1>3, <3>1, <3>3 DEF Crash
    <3>4. QED
      BY <3>2, <3>3
  <2>3. ceremony' \in [Ceremonies -> Prompts \cup {Nothing}] /\ PromptsGoOn
    BY <1>3, <2>2 DEF Crash, PromptsGoOn
  <2>4. UNCHANGED <<account, devices, passes, session, stale>>
    BY <1>3 DEF Crash
  <2>5. QED
    BY <2>1, <2>3, <2>4, NothingGained DEF devices, Holds, IInv, Types
<1>4. QED
  BY <1>1, <1>2, <1>3

THEOREM SessionInit == Init => IInv
<1>1. SUFFICES ASSUME Init PROVE IInv
  OBVIOUS
<1>2. Nothing \in Requests /\ Nothing.at = "nothing"
  BY DEF Requests, Nothing
<1>3. Types
  BY <1>1, <1>2 DEF Init, Types
<1>4. (\A h \in Handlers : req[h].at = "nothing") /\ (\A s \in Sessions : session[s] = Nothing)
  BY <1>1, <1>2 DEF Init
<1>5. UsedIsTaken /\ UsedOnce /\ StartsAdmitted
  BY <1>4 DEF UsedIsTaken, UsedOnce, StartsAdmitted, MayStart, MayRun, Holds, Began
<1>6. QED
  BY <1>3, <1>5 DEF IInv

THEOREM SessionNext == IInv /\ [Next]_vars => IInv'
<1> SUFFICES ASSUME IInv, [Next]_vars PROVE IInv'
  OBVIOUS
<1>1. CASE \E h \in Handlers : Step(h)
  BY <1>1, KeepsAfterEmailStep, KeepsVerifyPasskey, StartingIsNew, KeepsDevices DEF Step
<1>2. CASE \E h \in Handlers, b \in Browsers, u \in Users : EmailPassed(h, b, u)
  BY <1>2, KeepsEmailPassed
<1>3. CASE \E h \in Handlers, b \in Browsers, c \in Ceremonies : TakePrompt(h, b, c)
  BY <1>3, TakingIsNew
<1>4. QED
  BY <1>1, <1>2, <1>3, KeepsOthers DEF Next

THEOREM SessionInvariance == Spec => []IInv
  BY SessionInit, SessionNext, PTL DEF Spec

(* SecondFactorKept: while the service has passkeys, no session of an      *)
(* account that requires one starts by email alone; and the prompt after   *)
(* an email step lets in only the account whose email it was.              *)
THEOREM SecondFactorHolds == Spec => []SecondFactorKept
<1>1. IInv => SecondFactorKept
  <2>1. SUFFICES ASSUME IInv, NEW s \in Sessions, session[s] # Nothing
                 PROVE  Admits(session[s].user, session[s].by)
    BY DEF SecondFactorKept, Admits
  <2>2. QED
    BY <2>1 DEF IInv, StartsAdmitted, MayRun
<1>2. QED
  BY <1>1, SessionInvariance, PTL
-----------------------------------------------------------------------------
(* Emails that were passed and have not started their session yet.         *)
InHand(u) ==
  {h \in Handlers : /\ req[h].at = "account" \/ (req[h].at = "start" /\ req[h].by = "email")
                    /\ req[h].user = u}

Paid == \A u \in Users : passes[u] >= Cardinality(ByEmail(u)) + Cardinality(InHand(u))

LEMMA Counted ==
  ASSUME NEW u
  PROVE  /\ IsFiniteSet(ByEmail(u)) /\ Cardinality(ByEmail(u)) \in Nat
         /\ IsFiniteSet(InHand(u)) /\ Cardinality(InHand(u)) \in Nat
<1>1. ByEmail(u) \subseteq Sessions /\ InHand(u) \subseteq Handlers
  BY DEF ByEmail, InHand
<1>2. IsFiniteSet(ByEmail(u)) /\ IsFiniteSet(InHand(u))
  BY <1>1, SessionAssumption, FS_Subset
<1>3. QED
  BY <1>2, FS_CardinalityType

LEMMA NoMoreInHand ==
  ASSUME Types, Paid, session' = session, passes' = passes,
         \A u \in Users : InHand(u)' \subseteq InHand(u)
  PROVE  Paid'
<1>1. SUFFICES ASSUME NEW u \in Users
               PROVE  passes'[u] >= Cardinality(ByEmail(u)') + Cardinality(InHand(u)')
  BY DEF Paid
<1>2. ByEmail(u)' = ByEmail(u)
  BY DEF ByEmail
<1>3. Cardinality(InHand(u)') <= Cardinality(InHand(u)) /\ Cardinality(InHand(u)') \in Nat
  BY Counted, FS_Subset, FS_CardinalityType
<1>4. passes[u] \in Nat
  BY DEF Types
<1>5. QED
  BY <1>2, <1>3, <1>4, Counted DEF Paid

LEMMA OneMore ==
  ASSUME NEW S, NEW x, IsFiniteSet(S), NEW T \in SUBSET (S \cup {x})
  PROVE  Cardinality(T) \in Nat /\ Cardinality(T) <= Cardinality(S) + 1
<1>1. IsFiniteSet(S \cup {x}) /\ Cardinality(S \cup {x}) <= Cardinality(S) + 1
  <2>1. Cardinality(S) \in Nat
    BY FS_CardinalityType
  <2>2. /\ IsFiniteSet(S \cup {x})
        /\ Cardinality(S \cup {x}) = IF x \in S THEN Cardinality(S) ELSE Cardinality(S) + 1
    BY FS_AddElement
  <2>3. QED
    BY <2>1, <2>2
<1>2. IsFiniteSet(T) /\ Cardinality(T) <= Cardinality(S \cup {x})
  BY <1>1, FS_Subset
<1>3. Cardinality(S) \in Nat /\ Cardinality(S \cup {x}) \in Nat /\ Cardinality(T) \in Nat
  BY <1>1, <1>2, FS_CardinalityType
<1>4. QED
  BY <1>1, <1>2, <1>3

(* One more email, and one more request that may start a session for it.   *)
LEMMA EmailPays ==
  ASSUME IInv, Paid, NEW h \in Handlers, NEW b \in Browsers, NEW v \in Users, EmailPassed(h, b, v)
  PROVE  Paid'
<1>1. SUFFICES ASSUME NEW u \in Users
               PROVE  passes'[u] >= Cardinality(ByEmail(u)') + Cardinality(InHand(u)')
  BY DEF Paid
<1>2. ByEmail(u)' = ByEmail(u)
  BY DEF ByEmail, EmailPassed
<1>3. \A g \in Handlers :
        req'[g] = IF g = h THEN [at |-> "account", user |-> v, browser |-> b] ELSE req[g]
  BY DEF EmailPassed, Become, IInv, Types
<1>4. passes'[u] = passes[u] + (IF u = v THEN 1 ELSE 0) /\ passes[u] \in Nat
  BY DEF EmailPassed, IInv, Types
<1>5. CASE u = v
  <2>1. InHand(u)' \subseteq InHand(u) \cup {h}
    BY <1>3 DEF InHand
  <2>2. Cardinality(InHand(u)') <= Cardinality(InHand(u)) + 1 /\ Cardinality(InHand(u)') \in Nat
    BY <2>1, Counted, OneMore
  <2>3. QED
    BY <1>2, <1>4, <1>5, <2>2, Counted DEF Paid
<1>6. CASE u # v
  <2>1. InHand(u)' \subseteq InHand(u)
    BY <1>3, <1>6 DEF InHand
  <2>2. Cardinality(InHand(u)') <= Cardinality(InHand(u)) /\ Cardinality(InHand(u)') \in Nat
    BY <2>1, Counted, FS_Subset, FS_CardinalityType
  <2>3. QED
    BY <1>2, <1>4, <1>6, <2>2, Counted DEF Paid
<1>7. QED
  BY <1>5, <1>6

(* A session in place of the request that started it.                      *)
LEMMA StartingPays ==
  ASSUME IInv, Paid, NEW h \in Handlers, NEW s \in Sessions, StartSession(h, s)
  PROVE  Paid'
<1>1. SUFFICES ASSUME NEW u \in Users
               PROVE  passes'[u] >= Cardinality(ByEmail(u)') + Cardinality(InHand(u)')
  BY DEF Paid
<1>2. passes'[u] = passes[u] /\ passes[u] \in Nat
  BY DEF StartSession, IInv, Types
<1>3. \A g \in Handlers : (g = h /\ req'[g].at = "seen") \/ (g # h /\ req'[g] = req[g])
  <2>1. ASSUME NEW g \in Handlers, g # h PROVE req'[g] = req[g]
    BY <2>1 DEF StartSession, Become, IInv, Types
  <2>2. req'[h].at = "seen"
    BY DEF StartSession, Become, IInv, Types
  <2>3. QED
    BY <2>1, <2>2
<1>4. InHand(u)' \subseteq InHand(u) \ {h}
  BY <1>3 DEF InHand
<1>5. \A t \in Sessions :
        session'[t] = IF t = s THEN [at |-> "started", user |-> req[h].user,
                                     browser |-> req[h].browser, by |-> req[h].by]
                               ELSE session[t]
  BY DEF StartSession, IInv, Types
<1>6. Cardinality(InHand(u)') <= Cardinality(InHand(u) \ {h}) /\ Cardinality(InHand(u)') \in Nat
      /\ Cardinality(InHand(u) \ {h}) \in Nat
  BY <1>4, Counted, FS_RemoveElement, FS_Subset, FS_CardinalityType
<1>7. CASE h \in InHand(u)
  <2>1. Cardinality(InHand(u) \ {h}) = Cardinality(InHand(u)) - 1
    BY <1>7, Counted, FS_RemoveElement
  <2>2. ByEmail(u)' \subseteq ByEmail(u) \cup {s}
    BY <1>5 DEF ByEmail
  <2>3. Cardinality(ByEmail(u)') <= Cardinality(ByEmail(u)) + 1 /\ Cardinality(ByEmail(u)') \in Nat
    BY <2>2, Counted, OneMore
  <2>4. QED
    BY <1>2, <1>6, <2>1, <2>3, Counted DEF Paid
<1>8. CASE h \notin InHand(u)
  <2>1. Cardinality(InHand(u)') <= Cardinality(InHand(u))
    <3>1. InHand(u) \ {h} = InHand(u)
      BY <1>8
    <3>2. QED
      BY <1>6, <3>1
  <2>2. ~(req[h].by = "email" /\ req[h].user = u)
    BY <1>8 DEF InHand, StartSession
  <2>3. ByEmail(u)' \subseteq ByEmail(u)
    BY <1>5, <2>2 DEF ByEmail
  <2>4. Cardinality(ByEmail(u)') <= Cardinality(ByEmail(u)) /\ Cardinality(ByEmail(u)') \in Nat
    BY <2>3, Counted, FS_Subset, FS_CardinalityType
  <2>5. passes[u] >= Cardinality(ByEmail(u)) + Cardinality(InHand(u))
    BY DEF Paid
  <2>6. QED
    BY <1>2, <1>6, <2>1, <2>4, <2>5, Counted
<1>9. QED
  BY <1>7, <1>8

LEMMA OthersPay ==
  ASSUME IInv, Paid, [Next]_vars,
         ~\E h \in Handlers, b \in Browsers, u \in Users : EmailPassed(h, b, u),
         ~\E h \in Handlers, s \in Sessions : StartSession(h, s)
  PROVE  Paid'
<1>1. ASSUME session' = session, passes' = passes,
             \A g \in Handlers :
               \/ req'[g] = req[g]
               \/ req'[g].at \notin {"account", "start"}
               \/ req'[g].at = "start" /\ req'[g].by # "email"
               \/ req[g].at = "account" /\ req'[g].user = req[g].user
      PROVE  Paid'
  <2>1. \A u \in Users : InHand(u)' \subseteq InHand(u)
    BY <1>1 DEF InHand
  <2>2. QED
    BY <1>1, <2>1, NoMoreInHand DEF IInv
<1>2. ASSUME NEW h \in Handlers, AfterEmailStep(h) PROVE Paid'
  <2>1. \A g \in Handlers : g # h => req'[g] = req[g]
    BY <1>2 DEF AfterEmailStep, Done, Become, IInv, Types
  <2>2. req[h].at = "account" /\ (req'[h].at = "nothing" \/ req'[h].user = req[h].user)
    BY <1>2 DEF AfterEmailStep, Done, Become, Nothing, IInv, Types
  <2>3. session' = session /\ passes' = passes
    BY <1>2 DEF AfterEmailStep
  <2>4. QED
    BY <1>1, <2>1, <2>2, <2>3
<1>3. ASSUME NEW h \in Handlers, VerifyPasskey(h) PROVE Paid'
  <2>1. \A g \in Handlers : g # h => req'[g] = req[g]
    BY <1>3 DEF VerifyPasskey, Done, Become, IInv, Types
  <2>2. req[h].by \in Ceremonies /\ req[h].by # "email"
    BY <1>3, RequestFields, SessionAssumption DEF VerifyPasskey, IInv
  <2>3. req'[h].at = "nothing" \/ (req'[h].at = "start" /\ req'[h].by # "email")
    BY <1>3, <2>2 DEF VerifyPasskey, Done, Become, Nothing, IInv, Types
  <2>4. session' = session /\ passes' = passes
    BY <1>3 DEF VerifyPasskey
  <2>5. QED
    BY <1>1, <2>1, <2>3, <2>4
<1>4. ASSUME NEW h \in Handlers, CheckDevice(h) \/ CheckFirst(h) \/ RecordSignIn(h) PROVE Paid'
  <2>1. \A g \in Handlers : g # h => req'[g] = req[g]
    BY <1>4 DEF CheckDevice, CheckFirst, RecordSignIn, Done, Become, IInv, Types
  <2>2. req'[h].at \in {"nothing", "first", "record"}
    <3>1. req[h].at \in {"seen", "first", "record"}
      BY <1>4 DEF CheckDevice, CheckFirst, RecordSignIn
    <3>2. req[h] = [at |-> req[h].at, user |-> req[h].user, browser |-> req[h].browser,
                    strange |-> req[h].strange, alert |-> req[h].alert]
      BY <3>1, RequestFields DEF IInv
    <3>3. req' = [req EXCEPT ![h] = req'[h]]
      BY <1>4 DEF CheckDevice, CheckFirst, RecordSignIn, Done, Become, IInv, Types
    <3>4. CASE CheckDevice(h)
      BY <3>2, <3>4 DEF CheckDevice, Become, IInv, Types
    <3>5. CASE CheckFirst(h)
      BY <3>2, <3>5 DEF CheckFirst, Become, IInv, Types
    <3>6. CASE RecordSignIn(h)
      BY <3>6 DEF RecordSignIn, Done, Become, Nothing, IInv, Types
    <3>7. QED
      BY <1>4, <3>4, <3>5, <3>6
  <2>3. session' = session /\ passes' = passes
    BY <1>4 DEF CheckDevice, CheckFirst, RecordSignIn
  <2>4. QED
    BY <1>1, <2>1, <2>2, <2>3
<1>5. ASSUME NEW h \in Handlers, NEW b \in Browsers, NEW c \in Ceremonies, TakePrompt(h, b, c)
      PROVE  Paid'
  <2>1. \A g \in Handlers : g # h => req'[g] = req[g]
    BY <1>5 DEF TakePrompt, Done, Become, IInv, Types
  <2>2. req'[h].at \in {"nothing", "verify"}
    BY <1>5 DEF TakePrompt, Done, Become, Nothing, IInv, Types
  <2>3. session' = session /\ passes' = passes
    BY <1>5 DEF TakePrompt
  <2>4. QED
    BY <1>1, <2>1, <2>2, <2>3
<1>6. CASE Crash
  BY <1>1, <1>6 DEF Crash, Nothing
<1>7. CASE (\E c \in Ceremonies : BeginPasskeyLogin(c))
           \/ (\E x \in Ceremonies \cup seen : GoStale(x)) \/ PurgeEvents \/ UNCHANGED vars
  BY <1>1, <1>7 DEF BeginPasskeyLogin, GoStale, PurgeEvents, vars
<1>8. QED
  BY <1>2, <1>3, <1>4, <1>5, <1>6, <1>7 DEF Next, Step

(* SessionsSound: every variable has its type, a passkey prompt starts at  *)
(* most one session, and the sessions started by email of an account are   *)
(* no more than the email steps passed for it.                             *)
THEOREM SessionsAreSound == Spec => []SessionsSound
<1>1. Init => Paid
  <2>1. SUFFICES ASSUME Init PROVE Paid
    OBVIOUS
  <2>2. \A u \in Users : ByEmail(u) = {} /\ InHand(u) = {} /\ passes[u] = 0
    BY <2>1 DEF Init, ByEmail, InHand, Nothing
  <2>3. QED
    BY <2>2, FS_EmptySet DEF Paid
<1>2. IInv /\ Paid /\ [Next]_vars => Paid'
  BY EmailPays, StartingPays, OthersPay
<1>3. IInv /\ Paid => SessionsSound
  <2>1. SUFFICES ASSUME IInv, Paid PROVE SessionsSound
    OBVIOUS
  <2>2. ASSUME NEW s \in Sessions, session[s] # Nothing
        PROVE  session[s].user \in Users /\ session[s].by \in Causes
    BY <2>1, <2>2 DEF IInv, Types, Started
  <2>3. OneSessionPerPrompt
    BY <2>1, <2>2 DEF OneSessionPerPrompt, IInv, UsedOnce, Began, Causes
  <2>4. EmailsPayForSessions
    <3>1. \A u \in Users : passes[u] \in Nat
      BY <2>1 DEF IInv, Types
    <3>2. QED
      BY <2>1, <3>1, Counted DEF EmailsPayForSessions, Paid
  <2>5. TypeOK
    <3>1. \A c \in Ceremonies : ceremony[c].at \in {"nothing", "open", "taken"}
      BY <2>1 DEF IInv, Types, Prompts, Nothing
    <3>2. QED
      BY <2>1, <2>2, <3>1 DEF TypeOK, IInv, Types, UsedIsTaken, Began, Causes
  <2>6. QED
    BY <2>3, <2>4, <2>5 DEF SessionsSound
<1>4. QED
  BY <1>1, <1>2, <1>3, SessionInvariance, PTL DEF Spec
-----------------------------------------------------------------------------
Signs(h)  == req[h].at \in {"seen", "first", "record"}
Device(h) == <<req[h].user, req[h].browser>>

(* What recordSignIn has still to find of a strange device: that the       *)
(* account has others on record, and that whoever recorded this one        *)
(* meanwhile, or is about to without an alert, comes after one or after a  *)
(* lookup that failed.                                                     *)
Unmissed(h) ==
  /\ \E b \in Browsers : <<req[h].user, b>> \in seen \ stale
  /\ Device(h) \in seen => Device(h) \in alerted \cup blind
  /\ \A g \in Handlers : req[g].at = "record" /\ Device(g) = Device(h) /\ ~req[g].alert
       => Device(h) \in alerted \cup blind

Watched ==
  /\ \A h \in Handlers : Signs(h) /\ req[h].strange => Unmissed(h)
  /\ StrangersNoticed

(* Where nobody signs in that did not, and what is recorded or about to be *)
(* is alerted of or no strange device, nothing is missed.                  *)
LEMMA StaysWatched ==
  ASSUME Watched,
         \A h \in Handlers : Signs(h)' /\ req'[h].strange =>
           /\ Signs(h) /\ req[h].strange
           /\ req'[h].user = req[h].user /\ req'[h].browser = req[h].browser,
         \A g \in Handlers : req'[g].at = "record" /\ ~req'[g].alert =>
           \/ req[g].at = "record" /\ ~req[g].alert
              /\ req'[g].user = req[g].user /\ req'[g].browser = req[g].browser
           \/ \A h \in Handlers : Signs(h) /\ req[h].strange
                /\ Device(h) = <<req'[g].user, req'[g].browser>>
                  => Device(h) \in alerted' \cup blind',
         \A h \in Handlers : Signs(h) /\ req[h].strange =>
           (Device(h) \in seen' => Device(h) \in seen \/ Device(h) \in alerted' \cup blind'),
         (\A h \in Handlers : ~Signs(h)') \/ seen \ stale \subseteq seen' \ stale',
         alerted \subseteq alerted', blind \subseteq blind',
         unnoticed' \subseteq blind'
  PROVE  Watched'
<1>1. SUFFICES ASSUME NEW h \in Handlers, Signs(h)', req'[h].strange PROVE Unmissed(h)'
  BY DEF Watched, StrangersNoticed
<1>2. Signs(h) /\ req[h].strange /\ Unmissed(h)
  BY <1>1 DEF Watched
<1>3. Device(h)' = Device(h) /\ req'[h].user = req[h].user
  BY <1>1 DEF Device
<1>4. \E b \in Browsers : <<req'[h].user, b>> \in seen' \ stale'
  BY <1>1, <1>2, <1>3 DEF Unmissed
<1>5. Device(h)' \in seen' => Device(h)' \in alerted' \cup blind'
  BY <1>2, <1>3 DEF Unmissed
<1>6. ASSUME NEW g \in Handlers, req'[g].at = "record", Device(g)' = Device(h)', ~req'[g].alert
      PROVE  Device(h)' \in alerted' \cup blind'
  <2>1. Device(h) = <<req'[g].user, req'[g].browser>>
    BY <1>3, <1>6 DEF Device
  <2>2. CASE req[g].at = "record" /\ ~req[g].alert
             /\ req'[g].user = req[g].user /\ req'[g].browser = req[g].browser
    <3>1. Device(g) = Device(h)
      BY <2>1, <2>2 DEF Device
    <3>2. QED
      BY <1>2, <1>3, <2>2, <3>1 DEF Unmissed
  <2>3. CASE Device(h) \in alerted' \cup blind'
    BY <1>3, <2>3
  <2>4. QED
    BY <1>2, <1>6, <2>1, <2>2, <2>3
<1>7. QED
  BY <1>4, <1>5, <1>6 DEF Unmissed

(* The steps before a session and after the sign-in is recorded: they only *)
(* take requests out of the signing in.                                    *)
LEMMA OthersStayWatched ==
  ASSUME IInv, Watched, [Next]_vars,
         ~\E h \in Handlers, s \in Sessions : StartSession(h, s),
         ~\E h \in Handlers : CheckDevice(h) \/ CheckFirst(h) \/ RecordSignIn(h)
  PROVE  Watched'
<1>1. ASSUME \A g \in Handlers : req'[g] = req[g] \/ ~Signs(g)',
             seen' \subseteq seen,
             (\A g \in Handlers : ~Signs(g)') \/ seen \ stale \subseteq seen' \ stale',
             alerted' = alerted, blind' = blind, unnoticed' = unnoticed
      PROVE  Watched'
  BY <1>1, StaysWatched DEF Signs, Watched, StrangersNoticed
<1>2. ASSUME NEW h \in Handlers,
             \/ AfterEmailStep(h) \/ VerifyPasskey(h)
             \/ \E b \in Browsers, u \in Users : EmailPassed(h, b, u)
             \/ \E b \in Browsers, c \in Ceremonies : TakePrompt(h, b, c)
      PROVE  Watched'
  <2>1. \A g \in Handlers : g # h => req'[g] = req[g]
    BY <1>2 DEF AfterEmailStep, VerifyPasskey, EmailPassed, TakePrompt, Done, Become, IInv, Types
  <2>2. req'[h].at \in {"nothing", "account", "verify", "start"}
    BY <1>2 DEF AfterEmailStep, VerifyPasskey, EmailPassed, TakePrompt, Done, Become, Nothing,
                IInv, Types
  <2>3. UNCHANGED <<devices, stale>>
    BY <1>2 DEF AfterEmailStep, VerifyPasskey, EmailPassed, TakePrompt
  <2>4. QED
    BY <1>1, <2>1, <2>2, <2>3 DEF Signs, devices
<1>3. CASE (\E c \in Ceremonies : BeginPasskeyLogin(c)) \/ UNCHANGED vars
  <2>1. UNCHANGED <<devices, stale, req>>
    BY <1>3 DEF BeginPasskeyLogin, vars
  <2>2. QED
    BY <1>1, <2>1 DEF devices
<1>4. ASSUME NEW x \in Ceremonies \cup seen, GoStale(x) PROVE Watched'
  <2>1. UNCHANGED <<devices, req>> /\ stale' = stale \cup {x}
    BY <1>4 DEF GoStale
  <2>2. CASE x \in Ceremonies
    <3>1. x \notin seen
      BY <2>2, SessionAssumption DEF IInv, Types
    <3>2. QED
      BY <1>1, <2>1, <3>1 DEF devices
  <2>3. CASE \A g \in Handlers : req[g] = Nothing
    <3>1. \A g \in Handlers : ~Signs(g)'
      BY <2>1, <2>3 DEF Signs, Nothing
    <3>2. QED
      BY <1>1, <2>1, <3>1 DEF devices
  <2>4. QED
    BY <1>4, <2>2, <2>3 DEF GoStale
<1>5. CASE PurgeEvents
  BY <1>1, <1>5 DEF PurgeEvents
<1>6. CASE Crash
  <2>1. (\A g \in Handlers : ~Signs(g)') /\ UNCHANGED devices
    BY <1>6 DEF Crash, Signs, Nothing
  <2>2. QED
    BY <1>1, <2>1 DEF devices
<1>7. QED
  BY <1>2, <1>3, <1>4, <1>5, <1>6 DEF Next, Step

LEMMA CheckDeviceWatched ==
  ASSUME IInv, Watched, NEW h \in Handlers, CheckDevice(h)
  PROVE  Watched'
<1>1. req[h].at = "seen"
  BY DEF CheckDevice
<1>2. /\ req[h] = [at |-> req[h].at, user |-> req[h].user, browser |-> req[h].browser,
                   strange |-> req[h].strange, alert |-> req[h].alert]
      /\ req[h].user \in Users /\ req[h].browser \in Browsers
  BY <1>1, RequestFields DEF IInv
<1>3. \A g \in Handlers : g # h => req'[g] = req[g]
  BY DEF CheckDevice, Become, IInv, Types
<1>4. /\ req'[h].at \in {"first", "record"}
      /\ req'[h].user = req[h].user /\ req'[h].browser = req[h].browser
      /\ req'[h].strange = req[h].strange /\ req'[h].alert = req[h].alert
      /\ req'[h].at = "record" => Known(req[h].user, req[h].browser) \/ Device(h) \in blind'
  <2>1. PICK at \in {"first", "record"} :
          /\ req' = [req EXCEPT ![h] = [req[h] EXCEPT !.at = at]]
          /\ at = "record" => Known(req[h].user, req[h].browser) \/ Device(h) \in blind'
    BY DEF CheckDevice, Become, Device
  <2>2. req'[h] = [req[h] EXCEPT !.at = at]
    BY <2>1 DEF IInv, Types
  <2>3. QED
    BY <1>2, <2>1, <2>2
<1>5. UNCHANGED <<seen, alerted, unnoticed, stale>> /\ blind \subseteq blind'
  BY DEF CheckDevice
<1>6. \A g \in Handlers : Signs(g)' /\ req'[g].strange =>
        /\ Signs(g) /\ req[g].strange
        /\ req'[g].user = req[g].user /\ req'[g].browser = req[g].browser
  BY <1>1, <1>3, <1>4 DEF Signs
<1>7. req'[h].at = "record" =>
        \A i \in Handlers : Signs(i) /\ req[i].strange
          /\ Device(i) = <<req'[h].user, req'[h].browser>> => Device(i) \in alerted' \cup blind'
  <2>1. SUFFICES ASSUME req'[h].at = "record", NEW i \in Handlers, Signs(i), req[i].strange,
                        Device(i) = <<req'[h].user, req'[h].browser>>
                 PROVE  Device(i) \in alerted' \cup blind'
    OBVIOUS
  <2>2. Device(i) = Device(h)
    BY <1>4, <2>1 DEF Device
  <2>3. Device(h) \in seen \/ Device(h) \in blind'
    BY <1>4, <2>1 DEF Known, Device
  <2>4. Device(i) \in seen => Device(i) \in alerted \cup blind
    BY <2>1 DEF Watched, Unmissed
  <2>5. QED
    BY <1>5, <2>2, <2>3, <2>4
<1>8. unnoticed' \subseteq blind'
  BY <1>5 DEF Watched, StrangersNoticed
<1>9. QED
  BY <1>3, <1>5, <1>6, <1>7, <1>8, StaysWatched

LEMMA CheckFirstWatched ==
  ASSUME IInv, Watched, NEW h \in Handlers, CheckFirst(h)
  PROVE  Watched'
<1>1. req[h].at = "first"
  BY DEF CheckFirst
<1>2. /\ req[h] = [at |-> req[h].at, user |-> req[h].user, browser |-> req[h].browser,
                   strange |-> req[h].strange, alert |-> req[h].alert]
      /\ req[h].user \in Users /\ req[h].browser \in Browsers
  BY <1>1, RequestFields DEF IInv
<1>3. \A g \in Handlers : g # h => req'[g] = req[g]
  BY DEF CheckFirst, Become, IInv, Types
<1>4. /\ req'[h].at = "record"
      /\ req'[h].user = req[h].user /\ req'[h].browser = req[h].browser
      /\ req'[h].strange = req[h].strange
      /\ (\E b \in Browsers : <<req[h].user, b>> \in seen) => req'[h].alert
  <2>1. PICK x \in BOOLEAN :
          /\ Become(h, [req[h] EXCEPT !.at = "record", !.alert = x])
          /\ (\E b \in Browsers : <<req[h].user, b>> \in seen) => x
    BY DEF CheckFirst
  <2>2. req'[h] = [req[h] EXCEPT !.at = "record", !.alert = x]
    BY <2>1 DEF Become, IInv, Types
  <2>3. QED
    BY <1>2, <2>1, <2>2
<1>5. UNCHANGED <<devices, stale>>
  BY DEF CheckFirst
<1>6. \A g \in Handlers : Signs(g)' /\ req'[g].strange =>
        /\ Signs(g) /\ req[g].strange
        /\ req'[g].user = req[g].user /\ req'[g].browser = req[g].browser
  BY <1>1, <1>3, <1>4 DEF Signs
<1>7. ~req'[h].alert =>
        \A i \in Handlers : Signs(i) /\ req[i].strange
          /\ Device(i) = <<req'[h].user, req'[h].browser>> => Device(i) \in alerted' \cup blind'
  <2>1. SUFFICES ASSUME ~req'[h].alert, NEW i \in Handlers, Signs(i), req[i].strange,
                        Device(i) = <<req'[h].user, req'[h].browser>>
                 PROVE  FALSE
    OBVIOUS
  <2>2. req[i].user = req[h].user
    BY <1>4, <2>1 DEF Device
  <2>3. \E b \in Browsers : <<req[i].user, b>> \in seen \ stale
    BY <2>1 DEF Watched, Unmissed
  <2>4. QED
    BY <1>4, <2>1, <2>2, <2>3
<1>8. QED
  BY <1>3, <1>5, <1>6, <1>7, StaysWatched DEF devices, Watched, StrangersNoticed

LEMMA RecordWatched ==
  ASSUME IInv, Watched, NEW h \in Handlers, RecordSignIn(h)
  PROVE  Watched'
<1>1. req[h].at = "record" /\ Signs(h)
  BY DEF RecordSignIn, Signs
<1>2. req[h].strange \in BOOLEAN /\ req[h].alert \in BOOLEAN
  BY <1>1, RequestFields DEF IInv
<1>3. (\A g \in Handlers : g # h => req'[g] = req[g]) /\ req'[h].at = "nothing"
  BY DEF RecordSignIn, Done, Become, Nothing, IInv, Types
<1>4. /\ \/ seen' = seen \cup {Device(h)} /\ stale' = stale \ {Device(h)}
         \/ seen' = seen /\ stale' = stale
      /\ blind' = blind
      /\ alerted' = alerted \cup (IF req[h].alert THEN {Device(h)} ELSE {})
      /\ unnoticed' = IF req[h].strange /\ Device(h) \notin alerted'
                      THEN unnoticed \cup {Device(h)} ELSE unnoticed
  BY DEF RecordSignIn, Raised, Device
<1>5. \A i \in Handlers : Signs(i) /\ req[i].strange /\ Device(i) = Device(h)
        => Device(i) \in alerted' \cup blind
  <2>1. SUFFICES ASSUME NEW i \in Handlers, Signs(i), req[i].strange, Device(i) = Device(h)
                 PROVE  Device(i) \in alerted' \cup blind
    OBVIOUS
  <2>2. CASE req[h].alert
    BY <1>4, <2>1, <2>2
  <2>3. CASE ~req[h].alert
    BY <1>1, <1>4, <2>1, <2>3 DEF Watched, Unmissed
  <2>4. QED
    BY <2>2, <2>3
<1>6. unnoticed' \subseteq blind'
  BY <1>1, <1>4, <1>5 DEF Watched, StrangersNoticed
<1>7. \A g \in Handlers : Signs(g)' => g # h
  BY <1>3 DEF Signs
<1>8. \A g \in Handlers : Signs(g)' /\ req'[g].strange =>
        /\ Signs(g) /\ req[g].strange
        /\ req'[g].user = req[g].user /\ req'[g].browser = req[g].browser
  BY <1>3, <1>7 DEF Signs
<1>9. \A i \in Handlers : Signs(i) /\ req[i].strange =>
        (Device(i) \in seen' => Device(i) \in seen \/ Device(i) \in alerted' \cup blind')
  BY <1>4, <1>5
<1>10. seen \ stale \subseteq seen' \ stale' /\ alerted \subseteq alerted' /\ blind \subseteq blind'
  BY <1>4
<1>11. \A g \in Handlers : req'[g].at = "record" => g # h
  BY <1>3
<1>12. QED
  BY <1>3, <1>6, <1>8, <1>9, <1>10, <1>11, StaysWatched

LEMMA StartWatched ==
  ASSUME IInv, Watched, NEW h \in Handlers, NEW s \in Sessions, StartSession(h, s)
  PROVE  Watched'
<1>1. req[h].at = "start" /\ req[h].user \in Users /\ req[h].browser \in Browsers
  BY RequestFields DEF StartSession, IInv
<1>2. (\A g \in Handlers : g # h => req'[g] = req[g])
  BY DEF StartSession, Become, IInv, Types
<1>3. /\ req'[h].at = "seen" /\ req'[h].user = req[h].user
      /\ req'[h].browser = req[h].browser
      /\ req'[h].strange = Strange(req[h].user, req[h].browser)
  BY DEF StartSession, Become, IInv, Types
<1>4. UNCHANGED <<devices, stale>>
  BY DEF StartSession
<1>5. SUFFICES ASSUME NEW i \in Handlers, Signs(i)', req'[i].strange PROVE Unmissed(i)'
  BY <1>4 DEF Watched, StrangersNoticed, devices
<1>6. \A g \in Handlers : req'[g].at = "record" => g # h
  BY <1>3
<1>7. CASE i # h
  <2>1. req'[i] = req[i] /\ Unmissed(i) /\ Device(i)' = Device(i)
    BY <1>2, <1>5, <1>7 DEF Signs, Watched, Device
  <2>2. ASSUME NEW g \in Handlers, g # h PROVE req'[g] = req[g] /\ Device(g)' = Device(g)
    BY <1>2, <2>2 DEF Device
  <2>3. QED
    BY <1>4, <1>6, <2>1, <2>2 DEF Unmissed, devices
<1>8. CASE i = h
  <2>1. Strange(req[h].user, req[h].browser)
    BY <1>3, <1>5, <1>8
  <2>2. Device(h)' = Device(h) /\ Device(h) \notin seen
    BY <1>3, <2>1 DEF Device, Strange
  <2>3. \E b \in Browsers : <<req'[h].user, b>> \in seen' \ stale'
    BY <1>3, <1>4, <2>1 DEF Strange, devices
  <2>4. ASSUME NEW g \in Handlers, req'[g].at = "record", Device(g)' = Device(h)'
        PROVE  FALSE
    <3>1. g # h /\ req[g] = req'[g]
      BY <1>2, <1>6, <2>4
    <3>2. req[g].user = req[h].user
      BY <1>3, <2>4, <3>1 DEF Device
    <3>3. g \in Signing(req[h].user)
      BY <2>4, <3>1, <3>2 DEF Signing
    <3>4. QED
      BY <2>1, <3>3 DEF Strange
  <2>5. QED
    BY <1>4, <1>8, <2>2, <2>3, <2>4 DEF Unmissed, devices
<1>9. QED
  BY <1>7, <1>8

(* StrangersNoticed: however many sign-ins of an account race, and         *)
(* whichever rows fail to be written, one from a device it never used      *)
(* raises an alert before it is on record, if there is another device on   *)
(* record to tell it from and no lookup of this one has failed.            *)
THEOREM StrangersAreNoticed == Spec => []StrangersNoticed
<1>1. Init => Watched
  BY DEF Init, Watched, StrangersNoticed, Signs, Nothing
<1>2. IInv /\ Watched /\ [Next]_vars => Watched'
  BY StartWatched, CheckDeviceWatched, CheckFirstWatched, RecordWatched, OthersStayWatched
<1>3. Watched => StrangersNoticed
  BY DEF Watched
<1>4. QED
  BY <1>1, <1>2, <1>3, SessionInvariance, PTL DEF Spec
=============================================================================
