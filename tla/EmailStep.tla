----------------------------- MODULE EmailStep ------------------------------
(***************************************************************************)
(* The first step of a sign-in: internals/app/auth (RequestLink, Complete, *)
(* CompleteWithCode) over the magic_tokens table.  What follows the step   *)
(* is in SessionStart.                                                     *)
(*                                                                         *)
(* A handler is one HTTP request in progress.  Its statements are steps of *)
(* their own, and so are the parts of a transaction: at READ COMMITTED     *)
(* another request may commit between a transaction's read and its write.  *)
(* Rows a transaction writes stay locked until it commits, so its writes   *)
(* and its commit are one step.                                            *)
(*                                                                         *)
(* The secret link and the code of an email are the email; that an email   *)
(* is past its time ("stale") can become true at any step.                 *)
(***************************************************************************)
EXTENDS Integers, FiniteSets

CONSTANTS
  Users,
  Browsers,
  Emails,           \* bound: sign-in emails written
  Handlers,         \* requests in progress at a time
  MaxCodeAttempts,  \* wrong codes an email takes, 5 in the code
  SignupAllowed,    \* addresses signupAllowed lets in without an account
  Wrong,            \* a code of no email
  NoCookie

ASSUME EmailAssumption ==
  /\ MaxCodeAttempts \in Nat \ {0}
  /\ SignupAllowed \subseteq Users
  /\ Wrong \notin Emails /\ NoCookie \notin Emails
  /\ IsFiniteSet(Emails)
  /\ IsFiniteSet(Handlers) /\ Handlers # {}

VARIABLES
  \* the database
  accounts,    \* users with a row
  email,       \* magic_tokens: owner, cookie, attempts; history: the browser
  gone,        \* emails whose row is deleted
  stale,       \* emails past their time
  \* outside
  mailed,      \* emails their owner received
  cookie,      \* the sade_login cookie of each browser
  \* the process
  req,         \* what each handler is doing
  \* history
  passes,      \* email steps that succeeded
  spentBy,     \* the browser that signed in by spending an email
  wrong        \* wrong codes answered for each email

tokens    == <<email, gone, mailed>>
outcomes  == <<passes, spentBy, wrong>>
vars      == <<tokens, cookie, outcomes, accounts, req, stale>>

Nothing  == [at |-> "nothing"]

Unused(e) == email[e] = Nothing
Live(e) == ~Unused(e) /\ e \notin gone

Become(h, r) == req' = [req EXCEPT ![h] = r]
Done(h) == Become(h, Nothing)

(* RequestLink.  An address nobody may sign up with and one over the       *)
(* per-address limit are answered like a sent link and change nothing.     *)

(* A resend keeps the value, so that every email of one browser stays      *)
(* valid in it; a new value is named after the first email it is for.      *)
CookieFor(b, e) == IF cookie[b] = NoCookie THEN e ELSE cookie[b]

(* EnsureByEmail, when FindByEmail found no account.                       *)
Ensured(u) == accounts \cup {u}

RequestLink(h, b, u, e) ==
  /\ req[h] = Nothing
  /\ u \in accounts \cup SignupAllowed
  /\ Unused(e) /\ \A i \in Handlers : req[i].at = "store" => req[i].email # e
  /\ accounts' = Ensured(u)
  /\ Become(h, [at |-> "store", user |-> u, browser |-> b, cookie |-> CookieFor(b, e), email |-> e])
  /\ UNCHANGED <<tokens, cookie, outcomes, stale>>

StoreToken(h) ==
  /\ req[h].at = "store"
  /\ email' = [email EXCEPT ![req[h].email] =
       [at |-> "stored", user |-> req[h].user, browser |-> req[h].browser,
        cookie |-> req[h].cookie, attempts |-> 0]]
  /\ Become(h, [req[h] EXCEPT !.at = "mail"])
  /\ UNCHANGED <<gone, mailed, cookie, accounts, outcomes, stale>>

(* The browser gets its cookie with the answer, and only when the mail was *)
(* sent; the row stays either way.                                         *)
MailLink(h) ==
  /\ req[h].at = "mail"
  /\ \/ /\ mailed' = mailed \cup {req[h].email}
        /\ cookie' = [cookie EXCEPT ![req[h].browser] = req[h].cookie]
     \/ UNCHANGED <<mailed, cookie>>
  /\ Done(h)
  /\ UNCHANGED <<email, gone, accounts, outcomes, stale>>

-----------------------------------------------------------------------------
(* Complete: the link, spent by magic_token.Consume.                       *)

(* Mutant of Mine: the browser hash is not compared.                       *)
Anybodys(e, b) == Live(e)

Mine(e, b) == Live(e) /\ email[e].cookie = cookie[b]

Passed(h, rows) ==
  /\ passes' = passes + 1
  /\ spentBy' = [e \in Emails |-> IF e \in rows THEN req[h].browser ELSE spentBy[e]]
  /\ Become(h, [at |-> "account", user |-> req[h].user, browser |-> req[h].browser])

ReadToken(h, b, e) ==
  /\ req[h] = Nothing
  /\ e \in mailed /\ e \notin stale
  /\ cookie[b] # NoCookie
  /\ Mine(e, b)
  /\ Become(h, [at |-> "spend", user |-> email[e].user, browser |-> b, email |-> e])
  /\ UNCHANGED <<tokens, cookie, accounts, outcomes, stale>>

(* Mutant of Affected: the RowsAffected check is dropped.                  *)
AnyRows(rows) == TRUE

(* A DELETE that reached no row lost the race: ErrNotFound.                *)
Affected(rows) == \E e \in rows : Live(e)

SpendToken(h) ==
  /\ req[h].at = "spend"
  /\ \/ /\ Affected({req[h].email})
        /\ gone' = gone \cup {req[h].email}
        /\ Passed(h, {req[h].email})
     \/ ~Affected({req[h].email}) /\ Done(h) /\ UNCHANGED <<gone, passes, spentBy>>
  /\ UNCHANGED <<email, mailed, cookie, accounts, wrong, stale>>

-----------------------------------------------------------------------------
(* CompleteWithCode: the six digits, spent by magic_token.ConsumeByCode.   *)

OfBrowser(u, k) == {e \in Emails : Live(e) /\ email[e].user = u /\ email[e].cookie = k}

Candidates(u, b) == OfBrowser(u, cookie[b]) \ stale

ReadCandidates(h, b, u) ==
  /\ req[h] = Nothing
  /\ u \in accounts
  /\ cookie[b] # NoCookie
  /\ Candidates(u, b) # {}
  /\ \E code \in (Candidates(u, b) \cap mailed) \cup {Wrong} :
       Become(h, [at |-> IF code = Wrong THEN "count" ELSE "spendAll",
                  user |-> u, browser |-> b, cookie |-> cookie[b],
                  attempts |-> [e \in Candidates(u, b) |-> email[e].attempts]])
  /\ UNCHANGED <<tokens, cookie, accounts, outcomes, stale>>

(* Every pending email of this browser goes, stale ones too.               *)
Spent(h) == OfBrowser(req[h].user, req[h].cookie)

SpendAll(h) ==
  /\ req[h].at = "spendAll"
  /\ \/ /\ Affected(Spent(h))
        /\ gone' = gone \cup Spent(h)
        /\ Passed(h, Spent(h))
     \/ ~Affected(Spent(h)) /\ Done(h) /\ UNCHANGED <<gone, passes, spentBy>>
  /\ UNCHANGED <<email, mailed, cookie, accounts, wrong, stale>>

(* Mutant of LastGuess: one wrong code too many.                           *)
GuessAfter(h, e) == req[h].attempts[e] >= MaxCodeAttempts

(* Judged by the attempts the transaction read...                          *)
LastGuess(h, e) == req[h].attempts[e] + 1 >= MaxCodeAttempts

(* ... but counted in SQL on the attempts there are: SET attempts =        *)
(* attempts + 1.                                                           *)
CountAttempt(h) ==
  /\ req[h].at = "count"
  /\ LET read == DOMAIN req[h].attempts
         last == {e \in read : LastGuess(h, e)} IN
     /\ gone' = gone \cup last
     /\ email' = [e \in Emails |-> IF e \in read \ (last \cup gone)
                                   THEN [email[e] EXCEPT !.attempts = @ + 1]
                                   ELSE email[e]]
     /\ wrong' = [e \in Emails |-> IF e \in read THEN wrong[e] + 1 ELSE wrong[e]]
  /\ Done(h)
  /\ UNCHANGED <<mailed, cookie, accounts, passes, spentBy, stale>>

-----------------------------------------------------------------------------
(* writeSignIn: a passed email step is answered with a session or with a   *)
(* passkey prompt, and the browser's cookie is dropped either way.         *)
Answer(h) ==
  /\ req[h].at = "account"
  /\ cookie' = [cookie EXCEPT ![req[h].browser] = NoCookie]
  /\ Done(h)
  /\ UNCHANGED <<tokens, outcomes, accounts, stale>>

GoStale(e) ==
  /\ Live(e) /\ e \notin stale
  /\ stale' = stale \cup {e}
  /\ UNCHANGED <<tokens, cookie, outcomes, accounts, req>>

(* DeleteExpired, in the hourly purge.                                     *)
PurgeTokens ==
  /\ gone' = gone \cup {e \in stale : Live(e)}
  /\ UNCHANGED <<email, mailed, cookie, outcomes, accounts, req, stale>>

(* The death of the process takes its requests along.                      *)
Crash ==
  /\ req' = [h \in Handlers |-> Nothing]
  /\ UNCHANGED <<tokens, cookie, outcomes, accounts, stale>>

Init ==
  /\ accounts \in SUBSET Users
  /\ email = [e \in Emails |-> Nothing] /\ gone = {} /\ mailed = {} /\ stale = {}
  /\ cookie = [b \in Browsers |-> NoCookie]
  /\ req = [h \in Handlers |-> Nothing]
  /\ passes = 0
  /\ spentBy = [e \in Emails |-> "nobody"] /\ wrong = [e \in Emails |-> 0]

Request(h, b) ==
  \/ \E u \in Users, e \in Emails : RequestLink(h, b, u, e)
  \/ \E e \in Emails : ReadToken(h, b, e)
  \/ \E u \in Users : ReadCandidates(h, b, u)

Step(h) ==
  \/ StoreToken(h) \/ MailLink(h) \/ SpendToken(h) \/ SpendAll(h) \/ CountAttempt(h)
  \/ Answer(h)

Next ==
  \/ \E h \in Handlers : Step(h) \/ \E b \in Browsers : Request(h, b)
  \/ \E e \in Emails : GoStale(e)
  \/ PurgeTokens \/ Crash

Spec == Init /\ [][Next]_vars

-----------------------------------------------------------------------------
(* Every variable keeps its type; rows name accounts that exist, and only  *)
(* stored emails are mailed, spent or deleted.                             *)
TypeOK ==
  /\ accounts \subseteq Users
  /\ \A e \in Emails : ~Unused(e) =>
       email[e].user \in accounts /\ email[e].browser \in Browsers /\ email[e].attempts \in Nat
  /\ gone \cup mailed \cup stale \subseteq {e \in Emails : ~Unused(e)}
  /\ cookie \in [Browsers -> Emails \cup {NoCookie}]
  /\ passes \in Nat
  /\ spentBy \in [Emails -> Browsers \cup {"nobody"}]
  /\ wrong \in [Emails -> Nat]

(* The row-count gate: requests that race for the same emails, by link and *)
(* by code, get at most one email step through for every email deleted.    *)
SpentOnce == passes <= Cardinality(gone)

(* A link or a code works only in the browser that asked for it, whatever  *)
(* other emails the account has pending elsewhere.                         *)
SameBrowser ==
  \A e \in Emails : spentBy[e] # "nobody" => spentBy[e] = email[e].browser

(* maxCodeAttempts: requests that guess at the same time can each read the *)
(* attempts before the others count, so an email outlives its limit by at  *)
(* most the guesses of two rounds of the other handlers.                   *)
GuessesBounded ==
  \A e \in Emails : wrong[e] <= MaxCodeAttempts + 2 * (Cardinality(Handlers) - 1)

(* The variables keep their types, and an email takes a bounded number of  *)
(* guesses (auth/service.go, MaxCodeAttempts).                             *)
GuessesSound == TypeOK /\ GuessesBounded
=============================================================================
