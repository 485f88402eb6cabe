-------------------------- MODULE EmailStepProofs ---------------------------
(***************************************************************************)
(* What the email step promises for any number of accounts, browsers,      *)
(* emails and overlapping requests, wherever the process dies.             *)
(***************************************************************************)
EXTENDS EmailStep, FiniteSetTheorems, TLAPS

Rows ==
  [at : {"stored"}, user : Users, browser : Browsers, cookie : Emails, attempts : Int]

Requests ==
  {Nothing}
    \cup [at : {"store", "mail"}, user : Users, browser : Browsers, cookie : Emails,
          email : Emails]
    \cup [at : {"spend"}, user : Users, browser : Browsers, email : Emails]
    \cup [at : {"spendAll", "count"}, user : Users, browser : Browsers, cookie : Emails,
          attempts : UNION {[S -> Int] : S \in SUBSET Emails}]
    \cup [at : {"account"}, user : Users, browser : Browsers]

Types ==
  /\ email \in [Emails -> Rows \cup {Nothing}]
  /\ req \in [Handlers -> Requests]
  /\ cookie \in [Browsers -> Emails \cup {NoCookie}]
  /\ spentBy \in [Emails -> Browsers \cup {"nobody"}]
  /\ accounts \subseteq Users
  /\ gone \subseteq Emails /\ stale \subseteq Emails

(* Email k is stored for browser b: as the name of a cookie value, k was   *)
(* made for b.                                                             *)
For(k, b) == ~Unused(k) /\ email[k].browser = b

(* A browser holds a value that was made for it.                           *)
CookiesAreOwn == \A b \in Browsers : cookie[b] # NoCookie => For(cookie[b], b)

(* A row carries a value that was made for its browser.                    *)
RowsAreOwn == \A e \in Emails : ~Unused(e) => For(email[e].cookie, email[e].browser)

(* So does a request: a new value is named after the email it is about to  *)
(* store.                                                                  *)
RequestsAreOwn ==
  \A h \in Handlers :
    /\ req[h].at = "store" => req[h].cookie = req[h].email \/ For(req[h].cookie, req[h].browser)
    /\ req[h].at \in {"mail", "spendAll"} => For(req[h].cookie, req[h].browser)
    /\ req[h].at = "spend" => For(req[h].email, req[h].browser)

(* An email about to be stored is nobody's yet, and one request stores it. *)
StoringIsPrivate ==
  \A h \in Handlers : req[h].at = "store" =>
    /\ Unused(req[h].email)
    /\ \A i \in Handlers : req[i].at = "store" /\ req[i].email = req[h].email => i = h

SpentIsStored == \A e \in Emails : spentBy[e] # "nobody" => ~Unused(e)

IInv ==
  /\ Types
  /\ CookiesAreOwn
  /\ RowsAreOwn
  /\ RequestsAreOwn
  /\ StoringIsPrivate
  /\ SpentIsStored
  /\ SameBrowser
-----------------------------------------------------------------------------
THEOREM EmailInit == Init => IInv
<1>1. SUFFICES ASSUME Init PROVE IInv
  OBVIOUS
<1>2. Nothing \in Requests
  BY DEF Requests
<1>3. Types
  BY <1>1, <1>2 DEF Init, Types
<1>4. \A h \in Handlers : req[h].at = "nothing"
  BY <1>1 DEF Init, Nothing
<1>5. RequestsAreOwn /\ StoringIsPrivate
  BY <1>4 DEF RequestsAreOwn, StoringIsPrivate
<1>6. CookiesAreOwn /\ RowsAreOwn
  BY <1>1 DEF Init, CookiesAreOwn, RowsAreOwn, Unused
<1>7. SpentIsStored /\ SameBrowser
  BY <1>1 DEF Init, SpentIsStored, SameBrowser
<1>8. QED
  BY <1>3, <1>5, <1>6, <1>7 DEF IInv

(* Where no row is added or changed hands, what was made for a browser     *)
(* still is.                                                               *)
LEMMA RowsStay ==
  ASSUME IInv, NEW h \in Handlers, NEW r \in Requests,
         req' = [req EXCEPT ![h] = r],
         email' \in [Emails -> Rows \cup {Nothing}],
         \A e \in Emails : /\ Unused(e) <=> Unused(e)'
                           /\ ~Unused(e) => /\ email'[e].browser = email[e].browser
                                            /\ email'[e].cookie = email[e].cookie,
         r.at = "store" =>
           /\ r.cookie = r.email \/ For(r.cookie, r.browser)
           /\ Unused(r.email)
           /\ \A i \in Handlers : req[i].at = "store" => req[i].email # r.email,
         r.at \in {"mail", "spendAll"} => For(r.cookie, r.browser),
         r.at = "spend" => For(r.email, r.browser),
         cookie' \in [Browsers -> Emails \cup {NoCookie}],
         \A b \in Browsers : cookie'[b] # cookie[b] => cookie'[b] = NoCookie \/ For(cookie'[b], b),
         spentBy' \in [Emails -> Browsers \cup {"nobody"}],
         \A e \in Emails : spentBy'[e] # spentBy[e] => For(e, spentBy'[e]),
         accounts' \subseteq Users,
         gone' \subseteq Emails,
         stale' = stale
  PROVE  IInv'
<1>1. Types'
  BY DEF IInv, Types
<1>2. \A e \in Emails, b \in Browsers : For(e, b) => For(e, b)'
  BY DEF For
<1>3. CookiesAreOwn'
  BY <1>2 DEF IInv, Types, CookiesAreOwn
<1>4. RowsAreOwn'
  <2>1. \A e \in Emails : ~Unused(e) => email[e] \in Rows
    BY DEF IInv, Types, Unused
  <2>2. \A e \in Emails : ~Unused(e) => email[e].cookie \in Emails /\ email[e].browser \in Browsers
    BY <2>1 DEF Rows
  <2>3. QED
    BY <1>2, <2>2 DEF IInv, RowsAreOwn
<1>5. \A g \in Handlers : g # h => req'[g] = req[g]
  BY DEF IInv, Types
<1>6. req'[h] = r
  BY DEF IInv, Types
<1>7. RequestsAreOwn'
  <2>1. ASSUME NEW g \in Handlers
        PROVE  /\ req'[g].at \in {"mail", "spendAll", "store"} =>
                    req'[g].cookie \in Emails /\ req'[g].browser \in Browsers
               /\ req'[g].at = "spend" => req'[g].email \in Emails /\ req'[g].browser \in Browsers
    <3>1. req'[g] \in Requests
      BY <1>1 DEF Types
    <3>2. QED
      BY <3>1 DEF Requests, Nothing
  <2>2. ASSUME NEW g \in Handlers, g # h
        PROVE  /\ req'[g].at = "store" =>
                    req'[g].cookie = req'[g].email \/ For(req'[g].cookie, req'[g].browser)
               /\ req'[g].at \in {"mail", "spendAll"} => For(req'[g].cookie, req'[g].browser)
               /\ req'[g].at = "spend" => For(req'[g].email, req'[g].browser)
    BY <1>5, <2>2 DEF IInv, RequestsAreOwn
  <2>3. QED
    BY <1>2, <1>6, <2>1, <2>2 DEF RequestsAreOwn
<1>8. StoringIsPrivate'
  <2>1. ASSUME NEW g \in Handlers, req'[g].at = "store"
        PROVE  req'[g].email \in Emails /\ Unused(req'[g].email)
    <3>1. req'[g] \in Requests
      BY <1>1 DEF Types
    <3>2. req'[g].email \in Emails
      BY <2>1, <3>1 DEF Requests, Nothing
    <3>3. QED
      BY <1>5, <1>6, <2>1, <3>2 DEF IInv, StoringIsPrivate
  <2>2. QED
    BY <1>5, <1>6, <2>1 DEF IInv, StoringIsPrivate
<1>9. SpentIsStored' /\ SameBrowser'
  BY DEF IInv, Types, SpentIsStored, SameBrowser, For
<1>10. QED
  BY <1>1, <1>3, <1>4, <1>7, <1>8, <1>9 DEF IInv
(* A request that ends, and one that ends by dying.                        *)
LEMMA Idle == Nothing \in Requests /\ Nothing.at = "nothing"
  BY DEF Requests, Nothing

(* A row that is not unused has the fields of one.                         *)
LEMMA UsedIsRow == ASSUME IInv, NEW e \in Emails, ~Unused(e) PROVE email[e] \in Rows
  BY DEF IInv, Types, Unused

LEMMA RequestFields ==
  ASSUME IInv, NEW h \in Handlers
  PROVE  /\ req[h].at \in {"store", "mail"} => req[h] \in
              [at : {"store", "mail"}, user : Users, browser : Browsers, cookie : Emails,
               email : Emails]
         /\ req[h].at = "spend" => req[h] \in
              [at : {"spend"}, user : Users, browser : Browsers, email : Emails]
         /\ req[h].at \in {"spendAll", "count"} => req[h] \in
              [at : {"spendAll", "count"}, user : Users, browser : Browsers, cookie : Emails,
               attempts : UNION {[S -> Int] : S \in SUBSET Emails}]
         /\ req[h].at = "account" => req[h] \in
              [at : {"account"}, user : Users, browser : Browsers]
<1>1. req[h] \in Requests
  BY DEF IInv, Types
<1>2. QED
  BY <1>1 DEF Requests, Nothing

(* An email that answers a browser's cookie was made for that browser.     *)
LEMMA CookieTells ==
  ASSUME IInv, NEW e \in Emails, NEW k \in Emails, NEW b \in Browsers, ~Unused(e), For(k, b),
         email[e].cookie = k
  PROVE  For(e, b)
  BY DEF IInv, RowsAreOwn, For

(* An email step that spends some rows of the browser's own.               *)
LEMMA Passing ==
  ASSUME IInv, NEW h \in Handlers, NEW rows \in SUBSET Emails,
         req[h].at \in {"spend", "spendAll"},
         \A e \in rows : For(e, req[h].browser),
         Passed(h, rows), gone' = gone \cup rows,
         UNCHANGED <<email, cookie, accounts, stale>>
  PROVE  IInv'
<1> DEFINE r == [at |-> "account", user |-> req[h].user, browser |-> req[h].browser]
<1>1. req[h].user \in Users /\ req[h].browser \in Browsers
  BY RequestFields
<1>2. r \in Requests /\ r.at = "account"
  BY <1>1 DEF Requests
<1>3. spentBy' \in [Emails -> Browsers \cup {"nobody"}]
  BY <1>1 DEF Passed, IInv, Types
<1>4. \A e \in Emails : spentBy'[e] # spentBy[e] => For(e, spentBy'[e])
  BY <1>1 DEF Passed, IInv, Types
<1>5. \A e \in Emails : Unused(e) <=> Unused(e)'
  BY DEF Unused
<1>6. req' = [req EXCEPT ![h] = r]
  BY DEF Passed, Become
<1> HIDE DEF r
<1>7. QED
  BY <1>2, <1>3, <1>4, <1>5, <1>6, RowsStay DEF IInv, Types

(* Other steps of a request, or its end.                                   *)
LEMMA Ending ==
  ASSUME IInv, NEW h \in Handlers, Done(h), UNCHANGED <<email, accounts, spentBy, stale>>,
         gone' \subseteq Emails,
         cookie' \in [Browsers -> Emails \cup {NoCookie}],
         \A b \in Browsers : cookie'[b] # cookie[b] => cookie'[b] = NoCookie \/ For(cookie'[b], b)
  PROVE  IInv'
<1>1. req' = [req EXCEPT ![h] = Nothing]
  BY DEF Done, Become
<1>2. \A e \in Emails : Unused(e) <=> Unused(e)'
  BY DEF Unused
<1>3. QED
  BY <1>1, <1>2, Idle, RowsStay DEF IInv, Types
-----------------------------------------------------------------------------
LEMMA KeepsRequestLink ==
  ASSUME IInv, NEW h \in Handlers, NEW b \in Browsers, NEW u \in Users, NEW e \in Emails,
         RequestLink(h, b, u, e)
  PROVE  IInv'
<1> DEFINE r == [at |-> "store", user |-> u, browser |-> b, cookie |-> CookieFor(b, e), email |-> e]
<1>1. CookieFor(b, e) \in Emails /\ (CookieFor(b, e) = e \/ For(CookieFor(b, e), b))
  BY DEF CookieFor, IInv, Types, CookiesAreOwn
<1>2. r \in Requests
  BY <1>1 DEF Requests
<1>3. /\ r.at = "store"
      /\ r.cookie = r.email \/ For(r.cookie, r.browser)
      /\ Unused(r.email) /\ \A i \in Handlers : req[i].at = "store" => req[i].email # r.email
  BY <1>1 DEF RequestLink
<1>4. req' = [req EXCEPT ![h] = r] /\ UNCHANGED <<email, gone, cookie, spentBy, stale>>
  BY DEF RequestLink, Become, tokens, outcomes
<1>5. accounts' \subseteq Users /\ \A f \in Emails : Unused(f) <=> Unused(f)'
  BY <1>4 DEF RequestLink, Ensured, IInv, Types, Unused
<1> HIDE DEF r
<1>6. QED
  BY <1>2, <1>3, <1>4, <1>5, RowsStay DEF IInv, Types

LEMMA KeepsReadToken ==
  ASSUME IInv, NEW h \in Handlers, NEW b \in Browsers, NEW e \in Emails, ReadToken(h, b, e)
  PROVE  IInv'
<1> DEFINE r == [at |-> "spend", user |-> email[e].user, browser |-> b, email |-> e]
<1>1. ~Unused(e) /\ cookie[b] \in Emails /\ For(cookie[b], b) /\ email[e].cookie = cookie[b]
  BY DEF ReadToken, Mine, Live, IInv, Types, CookiesAreOwn
<1>2. For(e, b)
  BY <1>1, CookieTells
<1>3. email[e].user \in Users
  BY <1>1, UsedIsRow DEF Rows
<1>4. r \in Requests /\ r.at = "spend" /\ r.email = e /\ r.browser = b
  BY <1>3 DEF Requests
<1>5. req' = [req EXCEPT ![h] = r] /\ UNCHANGED <<email, gone, cookie, spentBy, accounts, stale>>
  BY DEF ReadToken, Become, tokens, outcomes
<1>6. \A f \in Emails : Unused(f) <=> Unused(f)'
  BY <1>5 DEF Unused
<1> HIDE DEF r
<1>7. QED
  BY <1>2, <1>4, <1>5, <1>6, RowsStay DEF IInv, Types

LEMMA KeepsReadCandidates ==
  ASSUME IInv, NEW h \in Handlers, NEW b \in Browsers, NEW u \in Users,
         ReadCandidates(h, b, u)
  PROVE  IInv'
<1> DEFINE atts == [e \in Candidates(u, b) |-> email[e].attempts]
<1>1. cookie[b] \in Emails /\ For(cookie[b], b)
  BY DEF ReadCandidates, IInv, Types, CookiesAreOwn
<1>2. \A e \in Candidates(u, b) : e \in Emails /\ email[e].attempts \in Int
  BY UsedIsRow DEF Candidates, OfBrowser, Live, Rows
<1>3. atts \in UNION {[S -> Int] : S \in SUBSET Emails}
  <2>1. atts \in [Candidates(u, b) -> Int] /\ Candidates(u, b) \in SUBSET Emails
    BY <1>2
  <2>2. QED
    BY <2>1
<1> HIDE DEF atts
<1>4. PICK at \in {"count", "spendAll"} :
        Become(h, [at |-> at, user |-> u, browser |-> b, cookie |-> cookie[b], attempts |-> atts])
  BY DEF ReadCandidates, atts
<1> DEFINE r == [at |-> at, user |-> u, browser |-> b, cookie |-> cookie[b], attempts |-> atts]
<1>5. r \in Requests /\ r.at \in {"count", "spendAll"} /\ r.cookie = cookie[b] /\ r.browser = b
  BY <1>1, <1>3 DEF Requests
<1>6. req' = [req EXCEPT ![h] = r] /\ UNCHANGED <<email, gone, cookie, spentBy, accounts, stale>>
  BY <1>4 DEF ReadCandidates, Become, tokens, outcomes
<1>7. \A f \in Emails : Unused(f) <=> Unused(f)'
  BY <1>6 DEF Unused
<1> HIDE DEF r
<1>8. QED
  BY <1>1, <1>5, <1>6, <1>7, RowsStay DEF IInv, Types

(* The step that adds a row: nobody refers to it yet but by its request.   *)
LEMMA KeepsStoreToken ==
  ASSUME IInv, NEW h \in Handlers, StoreToken(h)
  PROVE  IInv'
<1>0. PICK e \in Emails, b \in Browsers, k \in Emails :
        req[h].email = e /\ req[h].browser = b /\ req[h].cookie = k
  BY RequestFields DEF StoreToken
<1> DEFINE Row == [at |-> "stored", user |-> req[h].user, browser |-> b, cookie |-> k,
                   attempts |-> 0]
<1>1. req[h].at = "store" /\ req[h].user \in Users
  BY RequestFields DEF StoreToken
<1>2. PICK row \in Rows : row = Row /\ row # Nothing /\ row.browser = b /\ row.cookie = k
  <2>1. Row \in Rows /\ Row.browser = b /\ Row.cookie = k /\ Row.at = "stored"
    BY <1>1 DEF Rows
  <2>2. Row # Nothing
    BY <2>1, Idle
  <2> HIDE DEF Row
  <2>3. QED
    BY <2>1, <2>2
<1>3. PICK r \in Requests :
        r = [req[h] EXCEPT !.at = "mail"] /\ r.at = "mail" /\ r.browser = b /\ r.cookie = k
  <2> DEFINE q == [req[h] EXCEPT !.at = "mail"]
  <2>1. req[h] \in [at : {"store", "mail"}, user : Users, browser : Browsers, cookie : Emails,
                    email : Emails]
    BY <1>1, RequestFields
  <2>2. /\ q \in [at : {"store", "mail"}, user : Users, browser : Browsers, cookie : Emails,
                  email : Emails]
        /\ q.at = "mail" /\ q.browser = b /\ q.cookie = k
    BY <1>0, <2>1
  <2> HIDE DEF q
  <2>3. q \in Requests
    BY <2>2 DEF Requests
  <2>4. QED
    BY <2>2, <2>3 DEF q
<1>4. /\ email' = [email EXCEPT ![e] = row] /\ req' = [req EXCEPT ![h] = r]
      /\ UNCHANGED <<gone, cookie, accounts, spentBy, stale>>
  BY <1>0, <1>2, <1>3 DEF StoreToken, Become, outcomes
<1>5. Unused(e)
  BY <1>0, <1>1 DEF IInv, StoringIsPrivate
<1>6. Types'
  BY <1>1, <1>2, <1>3, <1>4 DEF IInv, Types
<1>7. \A f \in Emails, c \in Browsers : For(f, c) => f # e /\ For(f, c)'
  BY <1>4, <1>5 DEF For, Unused, IInv, Types
<1>8. For(e, b)'
  BY <1>1, <1>2, <1>4 DEF For, Unused, IInv, Types
<1>9. For(k, b)'
  BY <1>0, <1>1, <1>7, <1>8 DEF IInv, RequestsAreOwn
<1>10. CookiesAreOwn'
  BY <1>4, <1>7 DEF IInv, Types, CookiesAreOwn
<1>11. RowsAreOwn'
  <2>1. ASSUME NEW f \in Emails, f # e, ~Unused(f)'
        PROVE  For(email[f].cookie, email[f].browser)' 
    <3>1. email'[f] = email[f] /\ ~Unused(f)
      BY <1>4, <2>1 DEF Unused, IInv, Types
    <3>2. email[f].cookie \in Emails /\ email[f].browser \in Browsers
      BY <3>1, UsedIsRow DEF Rows
    <3>3. For(email[f].cookie, email[f].browser)
      BY <3>1 DEF IInv, RowsAreOwn
    <3>4. QED
      BY <1>7, <3>1, <3>2, <3>3
  <2>2. email'[e] = row
    BY <1>1, <1>4 DEF IInv, Types
  <2>3. QED
    BY <1>2, <1>9, <2>1, <2>2 DEF RowsAreOwn
<1>12. ASSUME NEW g \in Handlers, g # h PROVE req'[g] = req[g]
  BY <1>4, <1>12 DEF IInv, Types
<1>13. req'[h] = r
  BY <1>4 DEF IInv, Types
<1>14. RequestsAreOwn'
  <2>1. ASSUME NEW g \in Handlers, g # h
        PROVE  /\ req[g].at = "store" =>
                    req[g].cookie = req[g].email \/ For(req[g].cookie, req[g].browser)'
               /\ req[g].at \in {"mail", "spendAll"} => For(req[g].cookie, req[g].browser)'
               /\ req[g].at = "spend" => For(req[g].email, req[g].browser)'
    <3>1. /\ req[g].at \in {"store", "mail", "spendAll"} =>
               req[g].cookie \in Emails /\ req[g].browser \in Browsers
          /\ req[g].at = "spend" => req[g].email \in Emails /\ req[g].browser \in Browsers
      BY RequestFields
    <3>2. /\ req[g].at = "store" =>
               req[g].cookie = req[g].email \/ For(req[g].cookie, req[g].browser)
          /\ req[g].at \in {"mail", "spendAll"} => For(req[g].cookie, req[g].browser)
          /\ req[g].at = "spend" => For(req[g].email, req[g].browser)
      BY DEF IInv, RequestsAreOwn
    <3>3. QED
      BY <1>7, <1>12, <2>1, <3>1, <3>2
  <2>2. req'[h].at = "mail" /\ req'[h].cookie = k /\ req'[h].browser = b
    BY <1>3, <1>13
  <2>3. QED
    BY <1>9, <1>12, <2>1, <2>2 DEF RequestsAreOwn, For
<1>15. StoringIsPrivate'
  <2>1. ASSUME NEW g \in Handlers, req'[g].at = "store"
        PROVE  g # h /\ req'[g] = req[g] /\ req[g].email # e /\ Unused(req[g].email)
    <3>1. g # h
      BY <1>3, <1>13, <2>1
    <3>2. QED
      BY <1>0, <1>1, <1>12, <2>1, <3>1 DEF IInv, StoringIsPrivate
  <2>2. \A f \in Emails : f # e /\ Unused(f) => Unused(f)'
    BY <1>4 DEF Unused, IInv, Types
  <2>3. QED
    BY <2>1, <2>2, RequestFields DEF IInv, StoringIsPrivate
<1>16. SpentIsStored' /\ SameBrowser'
  BY <1>4, <1>5 DEF IInv, Types, SpentIsStored, SameBrowser, Unused
<1>17. QED
  BY <1>6, <1>10, <1>11, <1>14, <1>15, <1>16 DEF IInv
LEMMA KeepsMailLink ==
  ASSUME IInv, NEW h \in Handlers, MailLink(h)
  PROVE  IInv'
<1>1. req[h].browser \in Browsers /\ req[h].cookie \in Emails
  BY RequestFields DEF MailLink
<1>2. For(req[h].cookie, req[h].browser)
  BY DEF MailLink, IInv, RequestsAreOwn
<1>3. /\ Done(h) /\ UNCHANGED <<email, gone, accounts, spentBy, stale>>
      /\ cookie' \in {cookie, [cookie EXCEPT ![req[h].browser] = req[h].cookie]}
  BY DEF MailLink, outcomes
<1>4. cookie' \in [Browsers -> Emails \cup {NoCookie}]
  BY <1>1, <1>3 DEF IInv, Types
<1>5. \A b \in Browsers : cookie'[b] # cookie[b] => For(cookie'[b], b)
  BY <1>1, <1>2, <1>3 DEF IInv, Types
<1>6. QED
  BY <1>3, <1>4, <1>5, Ending DEF IInv, Types

LEMMA KeepsSpending ==
  ASSUME IInv, NEW h \in Handlers, SpendToken(h) \/ SpendAll(h)
  PROVE  IInv'
<1>1. CASE SpendToken(h)
  <2> DEFINE rows == {req[h].email}
  <2>1. rows \in SUBSET Emails
    BY <1>1, RequestFields DEF SpendToken
  <2>2. \A e \in rows : For(e, req[h].browser)
    BY <1>1 DEF SpendToken, IInv, RequestsAreOwn
  <2> HIDE DEF rows
  <2>3. CASE Passed(h, rows) /\ gone' = gone \cup rows
    BY <1>1, <2>1, <2>2, <2>3, Passing DEF SpendToken
  <2>4. CASE Done(h) /\ UNCHANGED <<gone, passes, spentBy>>
    BY <1>1, <2>4, Ending DEF SpendToken, IInv, Types
  <2>5. QED
    BY <1>1, <2>3, <2>4 DEF SpendToken, rows
<1>2. CASE SpendAll(h)
  <2> DEFINE rows == Spent(h)
  <2>1. rows \in SUBSET Emails
    BY DEF Spent, OfBrowser
  <2>2. req[h].cookie \in Emails /\ req[h].browser \in Browsers
    BY <1>2, RequestFields DEF SpendAll
  <2>3. For(req[h].cookie, req[h].browser)
    BY <1>2 DEF SpendAll, IInv, RequestsAreOwn
  <2>4. \A e \in rows : For(e, req[h].browser)
    BY <2>2, <2>3, CookieTells DEF Spent, OfBrowser, Live
  <2> HIDE DEF rows
  <2>5. CASE Passed(h, rows) /\ gone' = gone \cup rows
    BY <1>2, <2>1, <2>4, <2>5, Passing DEF SpendAll
  <2>6. CASE Done(h) /\ UNCHANGED <<gone, passes, spentBy>>
    BY <1>2, <2>6, Ending DEF SpendAll, IInv, Types
  <2>7. QED
    BY <1>2, <2>5, <2>6 DEF SpendAll, rows
<1>3. QED
  BY <1>1, <1>2

(* A row that was counted, if there is one.                                *)
LEMMA Counting ==
  ASSUME IInv, NEW e \in Emails, NEW row, row = [email[e] EXCEPT !.attempts = @ + 1]
  PROVE  /\ row \in Rows \cup {Nothing}
         /\ row = Nothing <=> Unused(e)
         /\ ~Unused(e) => row.browser = email[e].browser /\ row.cookie = email[e].cookie
<1>1. CASE Unused(e)
  BY <1>1 DEF Unused, Nothing
<1>2. CASE ~Unused(e)
  <2>1. email[e] \in Rows
    BY <1>2, UsedIsRow
  <2>2. row \in Rows /\ row.browser = email[e].browser /\ row.cookie = email[e].cookie
    BY <2>1 DEF Rows
  <2>3. row # Nothing
    BY <2>2, Idle DEF Rows
  <2>4. QED
    BY <1>2, <2>2, <2>3
<1>3. QED
  BY <1>1, <1>2

LEMMA KeepsCountAttempt ==
  ASSUME IInv, NEW h \in Handlers, CountAttempt(h)
  PROVE  IInv'
<1>1. DOMAIN req[h].attempts \in SUBSET Emails
  <2>1. PICK S \in SUBSET Emails : req[h].attempts \in [S -> Int]
    BY RequestFields DEF CountAttempt
  <2>2. QED
    BY <2>1
<1>2. /\ email' = [e \in Emails |-> email'[e]]
      /\ \A e \in Emails : email'[e] \in {email[e], [email[e] EXCEPT !.attempts = @ + 1]}
  BY DEF CountAttempt
<1>3. \A e \in Emails :
        /\ email'[e] \in Rows \cup {Nothing}
        /\ email'[e] = Nothing <=> Unused(e)
        /\ ~Unused(e) => email'[e].browser = email[e].browser /\ email'[e].cookie = email[e].cookie
  BY <1>2, Counting DEF IInv, Types, Unused
<1>4. email' \in [Emails -> Rows \cup {Nothing}] /\ \A e \in Emails : Unused(e) <=> Unused(e)'
  BY <1>2, <1>3 DEF Unused
<1>5. gone' \subseteq Emails
  BY <1>1 DEF CountAttempt, IInv, Types
<1>6. req' = [req EXCEPT ![h] = Nothing] /\ UNCHANGED <<cookie, accounts, spentBy, stale>>
  BY DEF CountAttempt, Done, Become
<1>7. QED
  BY <1>3, <1>4, <1>5, <1>6, Idle, RowsStay DEF IInv, Types

LEMMA KeepsAnswer ==
  ASSUME IInv, NEW h \in Handlers, Answer(h)
  PROVE  IInv'
<1>1. /\ cookie' = [cookie EXCEPT ![req[h].browser] = NoCookie]
      /\ Done(h) /\ UNCHANGED <<email, gone, accounts, spentBy, stale>>
  BY DEF Answer, tokens, outcomes
<1>2. /\ cookie' \in [Browsers -> Emails \cup {NoCookie}]
      /\ \A b \in Browsers : cookie'[b] # cookie[b] => cookie'[b] = NoCookie
  BY <1>1 DEF IInv, Types
<1>3. QED
  BY <1>1, <1>2, Ending DEF IInv, Types

(* Time, the purge and the death of the process touch no row that is left, *)
(* and requests only end.                                                  *)
LEMMA KeepsOthers ==
  ASSUME IInv, (\E e \in Emails : GoStale(e)) \/ PurgeTokens \/ Crash \/ UNCHANGED vars
  PROVE  IInv'
<1>1. UNCHANGED <<email, cookie, accounts, spentBy>>
      /\ gone' \subseteq Emails /\ stale' \subseteq Emails
  BY DEF GoStale, PurgeTokens, Crash, vars, tokens, outcomes, Live, IInv, Types
<1>2. req' = req \/ req' = [h \in Handlers |-> Nothing]
  BY DEF GoStale, PurgeTokens, Crash, vars, tokens, outcomes
<1>3. Types'
  BY <1>1, <1>2, Idle DEF IInv, Types
<1>4. \A e \in Emails, b \in Browsers : For(e, b) <=> For(e, b)'
  BY <1>1 DEF For, Unused
<1>5. CookiesAreOwn' /\ RowsAreOwn'
  BY <1>1 DEF IInv, CookiesAreOwn, RowsAreOwn, For, Unused
<1>6. RequestsAreOwn' /\ StoringIsPrivate'
  <2>1. CASE req' = req
    BY <1>1, <2>1 DEF IInv, RequestsAreOwn, StoringIsPrivate, For, Unused
  <2>2. CASE req' = [h \in Handlers |-> Nothing]
    <3>1. \A h \in Handlers : req'[h].at = "nothing"
      BY <2>2, Idle
    <3>2. QED
      BY <3>1 DEF RequestsAreOwn, StoringIsPrivate
  <2>3. QED
    BY <1>2, <2>1, <2>2
<1>7. SpentIsStored' /\ SameBrowser'
  BY <1>1 DEF IInv, SpentIsStored, SameBrowser, Unused
<1>8. QED
  BY <1>3, <1>5, <1>6, <1>7 DEF IInv

THEOREM EmailNext == IInv /\ [Next]_vars => IInv'
<1> SUFFICES ASSUME IInv, [Next]_vars PROVE IInv'
  OBVIOUS
<1>1. CASE \E h \in Handlers : Step(h)
  BY <1>1, KeepsStoreToken, KeepsMailLink, KeepsSpending, KeepsCountAttempt, KeepsAnswer DEF Step
<1>2. CASE \E h \in Handlers, b \in Browsers : Request(h, b)
  BY <1>2, KeepsRequestLink, KeepsReadToken, KeepsReadCandidates DEF Request
<1>3. CASE (\E e \in Emails : GoStale(e)) \/ PurgeTokens \/ Crash \/ UNCHANGED vars
  BY <1>3, KeepsOthers
<1>4. QED
  BY <1>1, <1>2, <1>3 DEF Next

(* In every reachable state a cookie value, a row and a request belong to  *)
(* the browser they were made for.                                         *)
THEOREM EmailInvariance == Spec => []IInv
  BY EmailInit, EmailNext, PTL DEF Spec

(* SameBrowser: whoever spends an email signs in the browser that asked    *)
(* for it, whatever other links, codes and browsers the account has.       *)
THEOREM SpentWhereAsked == Spec => []SameBrowser
<1>1. IInv => SameBrowser
  BY DEF IInv
<1>2. QED
  BY <1>1, EmailInvariance, PTL
-----------------------------------------------------------------------------
(* Every email step that passed has deleted a row of its own.              *)
PassesArePaid == passes \in Nat /\ gone \subseteq Emails /\ SpentOnce

LEMMA MoreGone ==
  ASSUME PassesArePaid, gone \subseteq gone', gone' \subseteq Emails,
         \/ passes' = passes
         \/ passes' = passes + 1 /\ gone' # gone
  PROVE  PassesArePaid'
<1>1. IsFiniteSet(gone') /\ IsFiniteSet(gone)
  BY EmailAssumption, FS_Subset DEF PassesArePaid
<1>2. Cardinality(gone) \in Nat /\ Cardinality(gone') \in Nat
  BY <1>1, FS_CardinalityType
<1>3. Cardinality(gone) <= Cardinality(gone')
  BY <1>1, FS_Subset
<1>4. gone' # gone => Cardinality(gone) # Cardinality(gone')
  BY <1>1, FS_Subset
<1>5. QED
  BY <1>2, <1>3, <1>4 DEF PassesArePaid, SpentOnce

(* A DELETE that reached a row took one that was there.                    *)
LEMMA SpendingPays ==
  ASSUME PassesArePaid, NEW h \in Handlers, NEW rows \in SUBSET Emails,
         \/ Affected(rows) /\ gone' = gone \cup rows /\ Passed(h, rows)
         \/ UNCHANGED <<gone, passes>>
  PROVE  PassesArePaid'
<1>1. CASE Affected(rows) /\ gone' = gone \cup rows /\ Passed(h, rows)
  BY <1>1, MoreGone DEF Affected, Live, Passed, PassesArePaid
<1>2. CASE UNCHANGED <<gone, passes>>
  BY <1>2, MoreGone DEF PassesArePaid
<1>3. QED
  BY <1>1, <1>2

(* SpentOnce: requests that race for the same emails, by link and by code, *)
(* get at most one email step through for every email deleted.             *)
THEOREM LinksAreSpentOnce == Spec => []SpentOnce
<1>1. Init => PassesArePaid
  BY FS_EmptySet DEF Init, PassesArePaid, SpentOnce
<1>2. ASSUME IInv, PassesArePaid, [Next]_vars PROVE PassesArePaid'
  <2>1. ASSUME NEW h \in Handlers, SpendToken(h) PROVE PassesArePaid'
    <3>1. {req[h].email} \in SUBSET Emails
      BY <1>2, <2>1, RequestFields DEF SpendToken
    <3>2. QED
      BY <1>2, <2>1, <3>1, SpendingPays DEF SpendToken
  <2>2. ASSUME NEW h \in Handlers, SpendAll(h) PROVE PassesArePaid'
    <3>1. Spent(h) \in SUBSET Emails
      BY DEF Spent, OfBrowser
    <3>2. QED
      BY <1>2, <2>2, <3>1, SpendingPays DEF SpendAll
  <2>3. ASSUME NEW h \in Handlers, CountAttempt(h) PROVE PassesArePaid'
    <3>1. IInv'
      BY <1>2, <2>3, KeepsCountAttempt
    <3>2. passes' = passes /\ gone \subseteq gone' /\ gone' \subseteq Emails
      BY <2>3, <3>1 DEF CountAttempt, IInv, Types
    <3>3. QED
      BY <1>2, <3>2, MoreGone
  <2>4. CASE PurgeTokens
    <3>1. passes' = passes /\ gone \subseteq gone' /\ gone' \subseteq Emails
      BY <1>2, <2>4 DEF PurgeTokens, outcomes, IInv, Types
    <3>2. QED
      BY <1>2, <3>1, MoreGone
  <2>5. ASSUME UNCHANGED <<passes, gone>> PROVE PassesArePaid'
    BY <1>2, <2>5 DEF PassesArePaid, SpentOnce
  <2>6. ASSUME NEW h \in Handlers, Step(h) PROVE PassesArePaid'
    BY <2>1, <2>2, <2>3, <2>5, <2>6
    DEF Step, StoreToken, MailLink, Answer, tokens, outcomes
  <2>7. ASSUME NEW h \in Handlers, NEW b \in Browsers, Request(h, b) PROVE PassesArePaid'
    BY <2>5, <2>7 DEF Request, RequestLink, ReadToken, ReadCandidates, tokens, outcomes
  <2>8. CASE (\E e \in Emails : GoStale(e)) \/ Crash \/ UNCHANGED vars
    BY <2>5, <2>8 DEF GoStale, Crash, vars, tokens, outcomes
  <2>9. QED
    BY <1>2, <2>4, <2>6, <2>7, <2>8 DEF Next
<1>3. PassesArePaid => SpentOnce
  BY DEF PassesArePaid
<1>4. QED
  BY <1>1, <1>2, <1>3, EmailInvariance, PTL DEF Spec
-----------------------------------------------------------------------------
(* The guesses of an email that are on their way...                        *)
Guessing(e) == {h \in Handlers : req[h].at = "count" /\ e \in DOMAIN req[h].attempts}

(* ... and those among them that will leave it there: the attempts they    *)
(* read were not the last but one.                                         *)
Sparing(e) == {h \in Guessing(e) : ~LastGuess(h, e)}

Overlap == Cardinality(Handlers)

(* What an email has taken and what is on its way.  While it is there, a   *)
(* guess that spares it has read at most MaxCodeAttempts - 2 attempts, and *)
(* no more of these overlap than there are requests.  The guess that       *)
(* deletes it, or the step that spends it, leaves at most the others.      *)
GuessesOf(e) ==
  /\ wrong[e] \in Nat
  /\ Unused(e) => wrong[e] = 0 /\ Guessing(e) = {} /\ e \notin gone
  /\ ~Unused(e) => email[e].attempts \in Nat
  /\ Live(e) => /\ wrong[e] = email[e].attempts
                /\ wrong[e] + Cardinality(Sparing(e)) <= MaxCodeAttempts - 2 + Overlap
  /\ e \in gone => wrong[e] + Cardinality(Guessing(e)) <= MaxCodeAttempts + 2 * (Overlap - 1)

Counted ==
  /\ wrong \in [Emails -> Nat]
  /\ \A e \in Emails : GuessesOf(e)

LEMMA Overlapping ==
  /\ Overlap \in Nat /\ Overlap >= 1
  /\ \A S \in SUBSET Handlers : Cardinality(S) \in Nat /\ Cardinality(S) <= Overlap
  /\ \A S \in SUBSET Handlers : \A h \in S : Cardinality(S \ {h}) = Cardinality(S) - 1
  /\ \A S, T \in SUBSET Handlers : S \subseteq T => Cardinality(S) <= Cardinality(T)
<1>1. IsFiniteSet(Handlers) /\ Handlers # {}
  BY EmailAssumption
<1>2. \A S \in SUBSET Handlers : IsFiniteSet(S) /\ Cardinality(S) \in Nat
  BY <1>1, FS_Subset, FS_CardinalityType
<1>3. \A S \in SUBSET Handlers : \A h \in S : Cardinality(S \ {h}) = Cardinality(S) - 1
  BY <1>2, FS_RemoveElement
<1>4. \A S, T \in SUBSET Handlers : S \subseteq T => Cardinality(S) <= Cardinality(T)
  BY <1>2, FS_Subset
<1>5. Overlap \in Nat /\ Overlap # 0
  BY <1>1, FS_CardinalityType, FS_EmptySet DEF Overlap
<1>6. QED
  BY <1>2, <1>3, <1>4, <1>5 DEF Overlap

LEMMA EmailCases == ASSUME NEW e PROVE (Unused(e) \/ Live(e)) \/ e \in gone
  BY DEF Live

(* An email whose row stays as it is, if it is not deleted, and that gets   *)
(* no more guesses on their way.                                           *)
LEMMA FewerOne ==
  ASSUME NEW e \in Emails, GuessesOf(e), wrong'[e] = wrong[e], email'[e] = email[e],
         Guessing(e)' \subseteq Guessing(e), Sparing(e)' \subseteq Sparing(e),
         e \in gone => e \in gone', e \in gone' => e \in gone \/ Live(e)
  PROVE  GuessesOf(e)'
<1>1. Guessing(e) \subseteq Handlers
  BY DEF Guessing
<1>2. Sparing(e) \subseteq Handlers
  BY <1>1 DEF Sparing
<1>3. (Unused(e) <=> Unused(e)') /\ (Live(e)' => Live(e))
  BY DEF Unused, Live
<1> DEFINE g == Cardinality(Guessing(e))
           gg == Cardinality(Guessing(e)')
           s == Cardinality(Sparing(e))
           ss == Cardinality(Sparing(e)')
           w == wrong[e]
<1>4. g \in Nat /\ gg \in Nat /\ s \in Nat /\ ss \in Nat
      /\ g <= Overlap /\ gg <= g /\ ss <= s /\ Overlap \in Nat /\ w \in Nat /\ MaxCodeAttempts \in Nat
  BY <1>1, <1>2, Overlapping, EmailAssumption DEF GuessesOf
<1>5. /\ Live(e) => w + s <= MaxCodeAttempts - 2 + Overlap
      /\ e \in gone => w + g <= MaxCodeAttempts + 2 * (Overlap - 1)
  BY DEF GuessesOf
<1> HIDE DEF g, gg, s, ss, w
<1>6. Live(e) => /\ w + ss <= MaxCodeAttempts - 2 + Overlap
                 /\ w + gg <= MaxCodeAttempts + 2 * (Overlap - 1)
  BY <1>4, <1>5
<1>7. e \in gone => w + gg <= MaxCodeAttempts + 2 * (Overlap - 1)
  BY <1>4, <1>5
<1>8. Overlap' = Overlap
  BY DEF Overlap
<1>9. /\ Live(e)' => wrong'[e] + Cardinality(Sparing(e)') <= MaxCodeAttempts - 2 + Overlap
      /\ e \in gone' => wrong'[e] + Cardinality(Guessing(e)') <= MaxCodeAttempts + 2 * (Overlap - 1)
  BY <1>3, <1>6, <1>7 DEF gg, ss, w
<1>10. Unused(e)' => wrong'[e] = 0 /\ Guessing(e)' = {} /\ e \notin gone'
  BY <1>1, <1>3 DEF GuessesOf, Live
<1>11. QED
  BY <1>3, <1>8, <1>9, <1>10 DEF GuessesOf

(* Steps that answer no guess, keep the rows and at most delete some.      *)
LEMMA Quiet ==
  ASSUME IInv, Counted, UNCHANGED <<wrong, email>>,
         \A h \in Handlers : req'[h].at = "count" => req'[h] = req[h],
         gone \subseteq gone', \A e \in Emails : e \in gone' => e \in gone \/ Live(e)
  PROVE  Counted'
<1>1. ASSUME NEW e \in Emails PROVE GuessesOf(e)'
  <2>1. Guessing(e)' \subseteq Guessing(e) /\ Sparing(e)' \subseteq Sparing(e)
    BY DEF Guessing, Sparing, LastGuess
  <2>2. QED
    BY <2>1, FewerOne DEF Counted
<1>2. QED
  BY <1>1 DEF Counted

(* A request that goes on to something other than counting.                *)
LEMMA NotGuessing ==
  ASSUME IInv, NEW h \in Handlers, NEW r, r.at # "count", Become(h, r)
  PROVE  \A g \in Handlers : req'[g].at = "count" => req'[g] = req[g]
<1>1. req'[h] = r /\ \A g \in Handlers : g # h => req'[g] = req[g]
  BY DEF Become, IInv, Types
<1>2. QED
  BY <1>1

(* A new row has taken nothing.                                            *)
LEMMA CountsStoreToken ==
  ASSUME IInv, Counted, NEW h \in Handlers, StoreToken(h)
  PROVE  Counted'
<1>1. PICK k \in Emails : req[h].email = k
  BY RequestFields DEF StoreToken
<1> DEFINE row == [at |-> "stored", user |-> req[h].user, browser |-> req[h].browser,
                   cookie |-> req[h].cookie, attempts |-> 0]
<1>2. email' = [email EXCEPT ![k] = row] /\ row.attempts = 0
  BY <1>1 DEF StoreToken
<1> HIDE DEF row
<1>3. /\ UNCHANGED <<gone, wrong>>
      /\ \A g \in Handlers : req'[g].at = "count" => req'[g] = req[g]
  <2>1. req[h] \in [at : {"store", "mail"}, user : Users, browser : Browsers, cookie : Emails,
                    email : Emails]
    BY RequestFields DEF StoreToken
  <2>2. [req[h] EXCEPT !.at = "mail"].at # "count"
    BY <2>1
  <2>3. QED
    BY <2>2, NotGuessing DEF StoreToken, outcomes
<1>4. Unused(k)
  BY <1>1 DEF StoreToken, IInv, StoringIsPrivate
<1>5. wrong[k] = 0 /\ Guessing(k) = {} /\ k \notin gone
  BY <1>4 DEF Counted, GuessesOf
<1>6. GuessesOf(k)'
  <2>1. Guessing(k)' = {} /\ Sparing(k)' = {}
    BY <1>3, <1>5 DEF Guessing, Sparing
  <2>2. Cardinality(Guessing(k)') = 0 /\ Cardinality(Sparing(k)') = 0
    BY <2>1, FS_EmptySet
  <2>3. ~Unused(k)' /\ email'[k].attempts = 0 /\ wrong'[k] = 0 /\ k \notin gone'
    <3>1. IInv'
      BY KeepsStoreToken
    <3>2. email'[k] = row /\ email'[k] \in Rows \cup {Nothing}
      BY <1>2, <3>1 DEF IInv, Types
    <3>3. row # Nothing
      BY DEF row, Nothing
    <3>4. QED
      BY <1>2, <1>3, <1>5, <3>2, <3>3 DEF Unused
  <2>4. Overlap' = Overlap
    BY DEF Overlap
  <2>5. 0 <= MaxCodeAttempts - 2 + Overlap
    BY Overlapping, EmailAssumption
  <2>6. wrong'[k] + Cardinality(Sparing(k)') <= MaxCodeAttempts - 2 + Overlap
    BY <2>2, <2>3, <2>5
  <2>7. QED
    BY <2>1, <2>3, <2>4, <2>6 DEF GuessesOf
<1>7. ASSUME NEW e \in Emails, e # k PROVE GuessesOf(e)'
  <2>1. email'[e] = email[e] /\ wrong'[e] = wrong[e]
    BY <1>2, <1>3, <1>7 DEF IInv, Types
  <2>2. Guessing(e)' \subseteq Guessing(e) /\ Sparing(e)' \subseteq Sparing(e)
    BY <1>3 DEF Guessing, Sparing, LastGuess
  <2>3. QED
    BY <1>3, <1>7, <2>1, <2>2, FewerOne DEF Counted
<1>8. QED
  BY <1>3, <1>6, <1>7 DEF Counted

(* A wrong code read the attempts there are, so that it spares the email   *)
(* only while one more is left.                                            *)
LEMMA CountsReadCandidates ==
  ASSUME IInv, Counted, NEW h \in Handlers, NEW b \in Browsers, NEW u \in Users,
         ReadCandidates(h, b, u)
  PROVE  Counted'
<1> DEFINE atts == [e \in Candidates(u, b) |-> email[e].attempts]
<1>1. PICK at \in {"count", "spendAll"} :
        Become(h, [at |-> at, user |-> u, browser |-> b, cookie |-> cookie[b], attempts |-> atts])
  BY DEF ReadCandidates
<1>2. \A e \in DOMAIN atts : Live(e) /\ atts[e] = email[e].attempts
  BY DEF Candidates, OfBrowser
<1> DEFINE r == [at |-> at, user |-> u, browser |-> b, cookie |-> cookie[b], attempts |-> atts]
<1>3. r.at = at /\ r.attempts = atts
  OBVIOUS
<1> HIDE DEF atts, r
<1>4. req'[h] = r /\ \A g \in Handlers : g # h => req'[g] = req[g]
  BY <1>1 DEF Become, IInv, Types, r
<1>5. UNCHANGED <<email, gone, wrong>>
  BY DEF ReadCandidates, tokens, outcomes
<1>6. CASE at = "spendAll"
  BY <1>3, <1>4, <1>5, <1>6, Quiet
<1>7. CASE at = "count"
  <2>1. req[h].at # "count"
    BY DEF ReadCandidates, Nothing
  <2>2. ASSUME NEW e \in Emails, e \notin DOMAIN atts PROVE GuessesOf(e)'
    <3>1. Guessing(e)' \subseteq Guessing(e) /\ Sparing(e)' \subseteq Sparing(e)
      BY <1>3, <1>4, <2>2 DEF Guessing, Sparing, LastGuess
    <3>2. QED
      BY <1>5, <3>1, FewerOne DEF Counted
  <2>3. ASSUME NEW e \in Emails, e \in DOMAIN atts PROVE GuessesOf(e)'
    <3>1. Live(e) /\ Live(e)' /\ email[e].attempts \in Nat /\ wrong[e] = email[e].attempts
          /\ wrong[e] + Cardinality(Sparing(e)) <= MaxCodeAttempts - 2 + Overlap
      BY <1>2, <1>5, <2>3 DEF Counted, GuessesOf, Live, Unused
    <3>2. LastGuess(h, e)' <=> wrong[e] + 1 >= MaxCodeAttempts
      BY <1>2, <1>3, <1>4, <2>3, <3>1 DEF LastGuess
    <3>3. Sparing(e)' = IF LastGuess(h, e)' THEN Sparing(e) ELSE Sparing(e) \cup {h}
      BY <1>3, <1>4, <1>7, <2>1, <2>3 DEF Sparing, Guessing, LastGuess
    <3> DEFINE s == Cardinality(Sparing(e))
               ss == Cardinality(Sparing(e)')
               w == wrong[e]
    <3>4. s \in Nat /\ ss \in Nat /\ s <= Overlap /\ ss <= Overlap /\ w \in Nat
          /\ Overlap \in Nat /\ MaxCodeAttempts \in Nat
      <4>1. Sparing(e) \in SUBSET Handlers /\ Sparing(e)' \in SUBSET Handlers
        BY DEF Sparing, Guessing
      <4>2. QED
        BY <3>1, <4>1, Overlapping, EmailAssumption
    <3>5. w + s <= MaxCodeAttempts - 2 + Overlap
      BY <3>1
    <3>6. w + 1 >= MaxCodeAttempts => ss = s
      BY <3>2, <3>3
    <3> HIDE DEF s, ss, w
    <3>7. w + ss <= MaxCodeAttempts - 2 + Overlap
      BY <3>4, <3>5, <3>6
    <3>8. wrong'[e] + Cardinality(Sparing(e)') <= MaxCodeAttempts - 2 + Overlap
      BY <1>5, <3>7 DEF w, ss
    <3>9. Overlap' = Overlap
      BY DEF Overlap
    <3>10. QED
      BY <1>5, <3>1, <3>8, <3>9 DEF GuessesOf, Live, Unused
  <2>4. QED
    BY <1>5, <2>2, <2>3 DEF Counted
<1>8. QED
  BY <1>6, <1>7

(* A guess is counted on the attempts there are; the last one deletes.     *)
LEMMA CountsCountAttempt ==
  ASSUME IInv, Counted, NEW h \in Handlers, CountAttempt(h)
  PROVE  Counted'
<1> DEFINE read == DOMAIN req[h].attempts
           last == {e \in read : LastGuess(h, e)}
<1>1. req[h].at = "count" /\ read \in SUBSET Emails /\ \A e \in read : req[h].attempts[e] \in Int
  <2>1. PICK S \in SUBSET Emails : req[h].attempts \in [S -> Int]
    BY RequestFields DEF CountAttempt
  <2>2. QED
    BY <2>1 DEF CountAttempt
<1>2. /\ gone' = gone \cup last
      /\ email' = [e \in Emails |-> IF e \in read \ (last \cup gone)
                                    THEN [email[e] EXCEPT !.attempts = @ + 1]
                                    ELSE email[e]]
      /\ wrong' = [e \in Emails |-> IF e \in read THEN wrong[e] + 1 ELSE wrong[e]]
  BY DEF CountAttempt
<1>3. req'[h].at = "nothing" /\ \A g \in Handlers : g # h => req'[g] = req[g]
  BY DEF CountAttempt, Done, Become, IInv, Types, Nothing
<1> HIDE DEF read
<1>4. ASSUME NEW e \in Emails, e \notin read PROVE GuessesOf(e)'
  <2>1. Guessing(e)' \subseteq Guessing(e) /\ Sparing(e)' \subseteq Sparing(e)
    BY <1>3 DEF Guessing, Sparing, LastGuess
  <2>2. email'[e] = email[e] /\ wrong'[e] = wrong[e] /\ (e \in gone' <=> e \in gone)
    BY <1>2, <1>4
  <2>3. QED
    BY <2>1, <2>2, FewerOne DEF Counted
<1>5. ASSUME NEW e \in Emails, e \in read PROVE GuessesOf(e)'
  <2>1. h \in Guessing(e) /\ (h \in Sparing(e) <=> ~LastGuess(h, e))
    BY <1>1, <1>5 DEF Guessing, Sparing, read
  <2>2. Guessing(e)' = Guessing(e) \ {h} /\ Sparing(e)' = Sparing(e) \ {h}
    BY <1>3 DEF Guessing, Sparing, LastGuess
  <2>3. ~Unused(e) /\ email[e].attempts \in Nat /\ wrong[e] \in Nat /\ wrong'[e] = wrong[e] + 1
    BY <1>2, <1>5, <2>1 DEF Counted, GuessesOf
  <2>4. Overlap' = Overlap
    BY DEF Overlap
  <2> DEFINE g == Cardinality(Guessing(e))
             gg == Cardinality(Guessing(e)')
             s == Cardinality(Sparing(e))
             ss == Cardinality(Sparing(e)')
             w == wrong[e]
  <2>5. /\ g \in Nat /\ g <= Overlap /\ gg = g - 1 /\ s \in Nat /\ w \in Nat
        /\ Overlap \in Nat /\ MaxCodeAttempts \in Nat
        /\ ~LastGuess(h, e) => ss = s - 1
    <3>1. Guessing(e) \in SUBSET Handlers /\ Sparing(e) \in SUBSET Handlers
      BY DEF Sparing, Guessing
    <3>2. QED
      BY <2>1, <2>2, <2>3, <3>1, Overlapping, EmailAssumption
  <2>6. /\ Live(e) => w = email[e].attempts /\ w + s <= MaxCodeAttempts - 2 + Overlap
        /\ e \in gone => w + g <= MaxCodeAttempts + 2 * (Overlap - 1)
    BY DEF Counted, GuessesOf
  <2>7. wrong'[e] = w + 1
    BY <2>3
  <2>8. CASE e \in gone \/ LastGuess(h, e)
    <3>1. e \in gone'
      BY <1>2, <1>5, <2>8
    <3>2. Live(e) \/ e \in gone
      BY <2>3 DEF Live
    <3>3. email'[e] = email[e]
      BY <1>2, <2>8, <1>5
    <3> HIDE DEF g, gg, s, ss, w
    <3>4. w + 1 + gg <= MaxCodeAttempts + 2 * (Overlap - 1)
      BY <2>5, <2>6, <3>2
    <3>5. wrong'[e] + Cardinality(Guessing(e)') <= MaxCodeAttempts + 2 * (Overlap - 1)
      BY <2>7, <3>4 DEF gg
    <3>6. wrong'[e] \in Nat
      BY <2>5, <2>7
    <3>7. QED
      BY <2>3, <2>4, <3>1, <3>3, <3>5, <3>6 DEF GuessesOf, Live, Unused
  <2>9. CASE e \notin gone /\ ~LastGuess(h, e)
    <3>1. e \notin gone' /\ Live(e)
      BY <1>2, <2>3, <2>9 DEF Live
    <3>2. email[e] \in Rows
      BY <2>3, UsedIsRow
    <3>3. email'[e] = [email[e] EXCEPT !.attempts = @ + 1]
      BY <1>2, <1>5, <2>9
    <3>4. email'[e].attempts = email[e].attempts + 1 /\ ~Unused(e)'
      <4>1. email'[e].attempts = email[e].attempts + 1 /\ email'[e] \in Rows
        BY <3>2, <3>3 DEF Rows
      <4>2. QED
        BY <4>1 DEF Rows, Unused, Nothing
    <3> HIDE DEF g, gg, s, ss, w
    <3>5. w + 1 + ss <= MaxCodeAttempts - 2 + Overlap /\ w + 1 \in Nat
      BY <2>5, <2>6, <2>9, <3>1
    <3>6. wrong'[e] + Cardinality(Sparing(e)') <= MaxCodeAttempts - 2 + Overlap
      BY <2>7, <3>5 DEF ss
    <3>7. wrong'[e] \in Nat /\ wrong'[e] = email'[e].attempts
      BY <2>6, <2>7, <3>1, <3>4, <3>5
    <3>8. QED
      BY <2>4, <3>1, <3>4, <3>6, <3>7 DEF GuessesOf
  <2>10. QED
    BY <2>8, <2>9
<1>6. wrong' \in [Emails -> Nat]
  <2>1. \A e \in Emails : wrong'[e] \in Nat
    BY <1>4, <1>5 DEF GuessesOf
  <2>2. QED
    BY <1>2, <2>1
<1>7. QED
  BY <1>4, <1>5, <1>6 DEF Counted

(* The other steps of a request answer no guess.                           *)
LEMMA CountsOthers ==
  ASSUME IInv, Counted, [Next]_vars,
         ~\E h \in Handlers : StoreToken(h) \/ CountAttempt(h),
         ~\E h \in Handlers, b \in Browsers, u \in Users : ReadCandidates(h, b, u)
  PROVE  Counted'
<1>1. ASSUME NEW h \in Handlers, Step(h) PROVE Counted'
  <2>1. CASE SpendToken(h)
    <3>1. \A g \in Handlers : req'[g].at = "count" => req'[g] = req[g]
      BY <2>1, NotGuessing, Idle DEF SpendToken, Passed, Done
    <3>2. /\ UNCHANGED <<wrong, email>> /\ gone \subseteq gone'
          /\ \A e \in Emails : e \in gone' => e \in gone \/ Live(e)
      BY <2>1 DEF SpendToken, Affected
    <3>3. QED
      BY <3>1, <3>2, Quiet
  <2>2. CASE SpendAll(h)
    <3>1. \A g \in Handlers : req'[g].at = "count" => req'[g] = req[g]
      BY <2>2, NotGuessing, Idle DEF SpendAll, Passed, Done
    <3>2. /\ UNCHANGED <<wrong, email>> /\ gone \subseteq gone'
          /\ \A e \in Emails : e \in gone' => e \in gone \/ Live(e)
      BY <2>2 DEF SpendAll, Spent, OfBrowser
    <3>3. QED
      BY <3>1, <3>2, Quiet
  <2>3. CASE MailLink(h) \/ Answer(h)
    <3>1. \A g \in Handlers : req'[g].at = "count" => req'[g] = req[g]
      BY <2>3, NotGuessing, Idle DEF MailLink, Answer, Done
    <3>2. UNCHANGED <<wrong, email, gone>>
      BY <2>3 DEF MailLink, Answer, tokens, outcomes
    <3>3. QED
      BY <3>1, <3>2, Quiet
  <2>4. QED
    BY <1>1, <2>1, <2>2, <2>3 DEF Step
<1>2. ASSUME NEW h \in Handlers, NEW b \in Browsers, Request(h, b) PROVE Counted'
  <2>1. UNCHANGED <<wrong, email, gone>>
    BY <1>2 DEF Request, RequestLink, ReadToken, ReadCandidates, tokens, outcomes
  <2>2. ASSUME NEW r, Become(h, r), r.at # "count"
        PROVE  \A g \in Handlers : req'[g].at = "count" => req'[g] = req[g]
    BY <2>2, NotGuessing
  <2>3. ASSUME NEW u \in Users, NEW e \in Emails, RequestLink(h, b, u, e)
        PROVE  \A g \in Handlers : req'[g].at = "count" => req'[g] = req[g]
    BY <2>2, <2>3 DEF RequestLink
  <2>4. ASSUME NEW e \in Emails, ReadToken(h, b, e)
        PROVE  \A g \in Handlers : req'[g].at = "count" => req'[g] = req[g]
    BY <2>2, <2>4 DEF ReadToken
  <2>5. QED
    BY <1>2, <2>1, <2>3, <2>4, Quiet DEF Request
<1>3. CASE (\E e \in Emails : GoStale(e)) \/ PurgeTokens \/ Crash \/ UNCHANGED vars
  <2>1. /\ UNCHANGED <<wrong, email>> /\ gone \subseteq gone'
        /\ \A e \in Emails : e \in gone' => e \in gone \/ Live(e)
    BY <1>3 DEF GoStale, PurgeTokens, Crash, vars, tokens, outcomes
  <2>2. req' = req \/ req' = [h \in Handlers |-> Nothing]
    BY <1>3 DEF GoStale, PurgeTokens, Crash, vars, tokens, outcomes
  <2>3. \A g \in Handlers : req'[g].at = "count" => req'[g] = req[g]
    BY <2>2, Idle
  <2>4. QED
    BY <2>1, <2>3, Quiet
<1>4. QED
  BY <1>1, <1>2, <1>3 DEF Next

(* Rows belong to accounts, and only stored emails are mailed, judged by   *)
(* the clock or about to be mailed.                                        *)
Stored ==
  /\ accounts \subseteq Users
  /\ \A e \in Emails : ~Unused(e) => email[e].user \in accounts
  /\ \A h \in Handlers : req[h].at = "store" => req[h].user \in accounts
  /\ \A h \in Handlers : req[h].at = "mail" => ~Unused(req[h].email)
  /\ mailed \cup stale \subseteq {e \in Emails : ~Unused(e)}
  /\ passes \in Nat

(* Steps that move a request on or end it, keep the rows and add no email  *)
(* to those mailed and stale that was not stored.                          *)
LEMMA StoredStays ==
  ASSUME IInv, IInv', Stored,
         accounts \subseteq accounts', accounts' \subseteq Users,
         \A e \in Emails : ~Unused(e)' <=> ~Unused(e),
         \A e \in Emails : ~Unused(e) => email'[e].user = email[e].user,
         \A h \in Handlers : req'[h].at = "store" =>
           req'[h].user \in accounts' \/ req'[h] = req[h],
         \A h \in Handlers : req'[h].at = "mail" => req'[h] = req[h],
         mailed' \cup stale' \subseteq {e \in Emails : ~Unused(e)},
         passes' \in Nat
  PROVE  Stored'
<1>1. \A e \in Emails : ~Unused(e)' => email'[e].user \in accounts'
  BY DEF Stored
<1>2. \A h \in Handlers : req'[h].at = "store" => req'[h].user \in accounts'
  BY DEF Stored
<1>3. \A h \in Handlers : req'[h].at = "mail" => ~Unused(req[h].email)'
  BY RequestFields DEF Stored
<1>4. QED
  BY <1>1, <1>2, <1>3 DEF Stored

LEMMA StoredStep ==
  ASSUME IInv, IInv', Stored, [Next]_vars PROVE Stored'
<1>1. ASSUME NEW h \in Handlers, NEW r, Become(h, r)
      PROVE  req'[h] = r /\ \A g \in Handlers : g # h => req'[g] = req[g]
  BY <1>1 DEF Become, IInv, Types
<1>2. ASSUME NEW h \in Handlers, StoreToken(h) PROVE Stored'
  <2>1. req[h] \in [at : {"store", "mail"}, user : Users, browser : Browsers, cookie : Emails,
                    email : Emails]
    BY <1>2, RequestFields DEF StoreToken
  <2>2. PICK k \in Emails : req[h].email = k
    BY <2>1
  <2> DEFINE row == [at |-> "stored", user |-> req[h].user, browser |-> req[h].browser,
                     cookie |-> req[h].cookie, attempts |-> 0]
             r == [req[h] EXCEPT !.at = "mail"]
  <2>3. r.at = "mail" /\ r.email = k
    BY <2>1, <2>2
  <2>4. req'[h] = r /\ \A g \in Handlers : g # h => req'[g] = req[g]
    BY <1>1, <1>2 DEF StoreToken
  <2>5. email' = [email EXCEPT ![k] = row] /\ row.user = req[h].user /\ row # Nothing
    BY <1>2, <2>2 DEF StoreToken, Nothing
  <2> HIDE DEF row, r
  <2>6. UNCHANGED <<accounts, mailed, stale, passes>> /\ req[h].user \in accounts
    BY <1>2 DEF StoreToken, outcomes, Stored
  <2>7. ~Unused(k)' /\ email'[k].user \in accounts
    BY <2>5, <2>6 DEF Unused, IInv, Types
  <2>8. \A e \in Emails : e # k => (Unused(e)' <=> Unused(e)) /\ email'[e] = email[e]
    BY <2>5 DEF Unused, IInv, Types
  <2>9. \A g \in Handlers : req'[g].at = "mail" => ~Unused(req[g].email)'
    BY <2>3, <2>4, <2>7, <2>8, RequestFields DEF Stored
  <2>10. \A g \in Handlers : req'[g].at = "store" => req'[g].user \in accounts
    BY <2>3, <2>4 DEF Stored
  <2>11. QED
    BY <2>6, <2>7, <2>8, <2>9, <2>10 DEF Stored
<1>3. ASSUME NEW h \in Handlers, Step(h), ~StoreToken(h) PROVE Stored'
  <2>1. /\ \A g \in Handlers : req'[g].at \in {"store", "mail"} => req'[g] = req[g]
        /\ UNCHANGED <<accounts, stale>>
        /\ mailed' \in {mailed, mailed \cup {req[h].email}}
        /\ mailed' = mailed \/ req[h].at = "mail"
        /\ passes' \in {passes, passes + 1}
    BY <1>1, <1>3, Idle
    DEF Step, MailLink, SpendToken, SpendAll, CountAttempt, Answer, Passed, Done, tokens, outcomes
  <2>2. \A e \in Emails : /\ ~Unused(e)' <=> ~Unused(e)
                          /\ ~Unused(e) => email'[e].user = email[e].user
    <3>1. CASE CountAttempt(h)
      <4>1. ASSUME NEW e \in Emails
            PROVE  email'[e] \in {email[e], [email[e] EXCEPT !.attempts = @ + 1]}
        BY <3>1 DEF CountAttempt
      <4>2. ASSUME NEW e \in Emails, ~Unused(e)
            PROVE  email'[e].user = email[e].user
        <5>1. email[e] \in Rows
          BY <4>2, UsedIsRow
        <5>2. QED
          BY <4>1, <5>1 DEF Rows
      <4>3. QED
        BY <4>1, <4>2, Counting DEF Unused
    <3>2. CASE email' = email
      BY <3>2 DEF Unused
    <3>3. QED
      BY <1>3, <3>1, <3>2
      DEF Step, MailLink, SpendToken, SpendAll, Answer, tokens
  <2>3. mailed' \subseteq {e \in Emails : ~Unused(e)}
    BY <2>1, RequestFields DEF Stored
  <2>4. QED
    BY <2>1, <2>2, <2>3, StoredStays DEF Stored
<1>4. ASSUME NEW h \in Handlers, NEW b \in Browsers, Request(h, b) PROVE Stored'
  <2>1. UNCHANGED <<email, mailed, stale, passes>> /\ accounts \subseteq accounts'
    BY <1>4 DEF Request, RequestLink, ReadToken, ReadCandidates, tokens, outcomes, Ensured
  <2>2. req'[h].at # "mail" /\ (req'[h].at = "store" => req'[h].user \in accounts')
    <3>1. CASE \E u \in Users, e \in Emails : RequestLink(h, b, u, e)
      BY <1>1, <3>1 DEF RequestLink, Ensured
    <3>2. CASE \E e \in Emails : ReadToken(h, b, e)
      <4>1. PICK e \in Emails :
              Become(h, [at |-> "spend", user |-> email[e].user, browser |-> b, email |-> e])
        BY <3>2 DEF ReadToken
      <4>2. QED
        BY <1>1, <4>1
    <3>3. CASE \E u \in Users : ReadCandidates(h, b, u)
      <4>1. PICK u \in Users, at \in {"count", "spendAll"} :
              Become(h, [at |-> at, user |-> u, browser |-> b, cookie |-> cookie[b],
                         attempts |-> [e \in Candidates(u, b) |-> email[e].attempts]])
        BY <3>3 DEF ReadCandidates
      <4>2. QED
        BY <1>1, <4>1
    <3>4. QED
      BY <1>4, <3>1, <3>2, <3>3 DEF Request
  <2>3. \A g \in Handlers : g # h => req'[g] = req[g]
    BY <1>1, <1>4 DEF Request, RequestLink, ReadToken, ReadCandidates
  <2>4. accounts' \subseteq Users
    BY DEF IInv, Types
  <2>5. QED
    BY <2>1, <2>2, <2>3, <2>4, StoredStays DEF Stored, Unused
<1>5. CASE (\E e \in Emails : GoStale(e)) \/ PurgeTokens \/ Crash \/ UNCHANGED vars
  <2>1. /\ UNCHANGED <<accounts, mailed, passes, email>>
        /\ stale' \subseteq stale \cup {e \in Emails : ~Unused(e)}
    BY <1>5 DEF GoStale, PurgeTokens, Crash, vars, tokens, outcomes, Live
  <2>2. req' = req \/ req' = [h \in Handlers |-> Nothing]
    BY <1>5 DEF GoStale, PurgeTokens, Crash, vars, tokens, outcomes
  <2>3. \A g \in Handlers : req'[g].at \in {"store", "mail"} => req'[g] = req[g]
    BY <2>2, Idle
  <2>4. QED
    BY <2>1, <2>3, StoredStays DEF Stored, Unused
<1>6. QED
  BY <1>2, <1>3, <1>4, <1>5 DEF Next

(* GuessesSound: however many wrong codes are judged at the same time, an  *)
(* email takes no more than the limit and two more from every other        *)
(* request, and rows name accounts that exist.                             *)
THEOREM GuessesAreBounded == Spec => []GuessesSound
<1>1. Init => Counted /\ Stored
  <2>1. SUFFICES ASSUME Init PROVE Counted /\ Stored
    OBVIOUS
  <2>2. \A h \in Handlers : req[h].at = "nothing"
    BY <2>1 DEF Init, Nothing
  <2>3. \A e \in Emails : Unused(e) /\ wrong[e] = 0 /\ Guessing(e) = {} /\ e \notin gone
    BY <2>1, <2>2 DEF Init, Unused, Guessing
  <2>4. Counted
    BY <2>1, <2>3 DEF Init, Counted, GuessesOf, Live
  <2>5. Stored
    BY <2>1, <2>2, <2>3 DEF Init, Stored
  <2>6. QED
    BY <2>4, <2>5
<1>2. IInv /\ IInv' /\ Counted /\ Stored /\ [Next]_vars => Counted' /\ Stored'
  BY CountsStoreToken, CountsReadCandidates, CountsCountAttempt, CountsOthers, StoredStep
<1>3. IInv /\ Counted /\ Stored => GuessesSound
  <2>1. SUFFICES ASSUME IInv, Counted, Stored PROVE GuessesSound
    OBVIOUS
  <2>2. GuessesBounded
    <3>1. ASSUME NEW e \in Emails PROVE wrong[e] <= MaxCodeAttempts + 2 * (Overlap - 1)
      <4> DEFINE g == Cardinality(Guessing(e))
                 s == Cardinality(Sparing(e))
                 w == wrong[e]
      <4>1. g \in Nat /\ s \in Nat /\ w \in Nat /\ Overlap \in Nat /\ Overlap >= 1
            /\ MaxCodeAttempts \in Nat /\ MaxCodeAttempts >= 1
        <5>1. Guessing(e) \in SUBSET Handlers /\ Sparing(e) \in SUBSET Handlers
          BY DEF Sparing, Guessing
        <5>2. QED
          BY <2>1, <5>1, Overlapping, EmailAssumption DEF Counted
      <4>2. \/ w = 0 \/ w + s <= MaxCodeAttempts - 2 + Overlap
            \/ w + g <= MaxCodeAttempts + 2 * (Overlap - 1)
        BY <2>1, EmailCases DEF Counted, GuessesOf
      <4> HIDE DEF g, s, w
      <4>3. w <= MaxCodeAttempts + 2 * (Overlap - 1)
        BY <4>1, <4>2
      <4>4. QED
        BY <4>3 DEF w
    <3>2. QED
      BY <3>1 DEF GuessesBounded, Overlap
  <2>3. \A e \in Emails : ~Unused(e) =>
          email[e].user \in accounts /\ email[e].browser \in Browsers /\ email[e].attempts \in Nat
    BY <2>1, UsedIsRow DEF Counted, GuessesOf, Stored, Rows
  <2>4. gone \cup mailed \cup stale \subseteq {e \in Emails : ~Unused(e)}
    BY <2>1 DEF Counted, GuessesOf, Stored, IInv, Types
  <2>5. QED
    BY <2>1, <2>2, <2>3, <2>4 DEF GuessesSound, TypeOK, Counted, Stored, IInv, Types
<1>4. QED
  BY <1>1, <1>2, <1>3, EmailInvariance, PTL DEF Spec
=============================================================================
