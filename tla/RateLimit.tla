----------------------------- MODULE RateLimit ------------------------------
(***************************************************************************)
(* internals/ratelimit: the sliding-window limiter of one process.  A call *)
(* of Allow reads the clock, then takes the mutex; calls can get the mutex *)
(* in another order than they read the clock.                              *)
(*                                                                         *)
(* keepAfter filters a slice in place.  Allow stores the shortened slice,  *)
(* sweep does not: it leaves the old length in the map, over an array      *)
(* whose front has been overwritten.                                       *)
(***************************************************************************)
EXTENDS Integers, Sequences, FiniteSetsExt

(* What the constants are assumed to be is in MCSettings; a limit that is  *)
(* not positive switches the limiter off (limiter.go:36).                  *)
CONSTANTS
  Keys,
  Callers,    \* calls of Allow in progress at a time
  Limit,
  Window,     \* in ticks
  MaxTime     \* bound: ticks of a behaviour

VARIABLES
  clock,
  hits,       \* the slice of each key; <<>> when the map has no such key
  sweptAt,
  key,        \* the key each caller asks for, "none" for one that makes no call
  now,        \* the time it read, -1 for one that makes no call
  granted     \* history: calls allowed, by key and by the time they read

vars == <<clock, hits, sweptAt, key, now, granted>>

Time == 0..MaxTime

(* Mutant of After: a hit exactly one window ago still counts.             *)
NotBefore(t, cutoff) == t >= cutoff

After(t, cutoff) == t > cutoff

(* keepAfter: what it returns once its loop is through the slice, and what *)
(* it leaves in the array.                                                 *)
KeepAfter(s, cutoff) ==
  LET out[n \in 0..Len(s)] ==
        IF n = 0 THEN <<>>
        ELSE IF After(s[n], cutoff) THEN Append(out[n - 1], s[n])
        ELSE out[n - 1]
  IN out[Len(s)]

InPlace(s, cutoff) ==
  LET kept == KeepAfter(s, cutoff) IN kept \o SubSeq(s, Len(kept) + 1, Len(s))

(* Mutant of Swept: a key goes when its oldest hit does.                   *)
SweptByOldest(h, cutoff) ==
  [k \in Keys |-> IF h[k] # <<>> /\ h[k][1] <= cutoff THEN <<>> ELSE InPlace(h[k], cutoff)]

(* sweep: a key with no hit left is deleted.                               *)
Swept(h, cutoff) ==
  [k \in Keys |-> IF KeepAfter(h[k], cutoff) = <<>> THEN <<>> ELSE InPlace(h[k], cutoff)]

Call(c, k) ==
  /\ now[c] = -1
  /\ now' = [now EXCEPT ![c] = clock]
  /\ key' = [key EXCEPT ![c] = k]
  /\ UNCHANGED <<clock, hits, sweptAt, granted>>

Kept(c) == KeepAfter(hits[key[c]], now[c] - Window)

(* Mutant of Full: one call too many.                                      *)
FullBeyond(c) == Len(Kept(c)) > Limit

Full(c) == Len(Kept(c)) >= Limit

Return(c) ==
  /\ now' = [now EXCEPT ![c] = -1]
  /\ key' = [key EXCEPT ![c] = "none"]
  /\ UNCHANGED clock

Refuse(c) ==
  /\ now[c] # -1
  /\ Full(c)
  /\ hits' = [hits EXCEPT ![key[c]] = Kept(c)]
  /\ Return(c)
  /\ UNCHANGED <<sweptAt, granted>>

Count(k, t) == granted' = [granted EXCEPT ![k][t] = @ + 1]

Grant(c) ==
  /\ now[c] # -1
  /\ ~Full(c)
  /\ LET stored == [hits EXCEPT ![key[c]] = Append(Kept(c), now[c])] IN
     \/ clock - sweptAt < Window /\ hits' = stored /\ UNCHANGED sweptAt
     \/ clock - sweptAt >= Window /\ hits' = Swept(stored, now[c] - Window) /\ sweptAt' = clock
  /\ Count(key[c], now[c])
  /\ Return(c)

Tick ==
  /\ clock < MaxTime
  /\ clock' = clock + 1
  /\ UNCHANGED <<hits, sweptAt, key, now, granted>>

(* sweptAt starts as the zero time, longer ago than any window.            *)
Init ==
  /\ clock = 0
  /\ hits = [k \in Keys |-> <<>>]
  /\ sweptAt = -Window
  /\ key = [c \in Callers |-> "none"]
  /\ now = [c \in Callers |-> -1]
  /\ granted = [k \in Keys |-> [t \in Time |-> 0]]

Next ==
  \/ \E c \in Callers : (\E k \in Keys : Call(c, k)) \/ Refuse(c) \/ Grant(c)
  \/ Tick

Spec == Init /\ [][Next]_vars
-----------------------------------------------------------------------------
(* No slice outgrows the limit, also through the lengths sweep leaves.     *)
TypeOK ==
  /\ clock \in Time
  /\ hits \in [Keys -> UNION {[1..n -> Time] : n \in 0..Limit}]
  /\ sweptAt \in {-Window} \cup Time
  /\ key \in [Callers -> Keys \cup {"none"}]
  /\ now \in [Callers -> {-1} \cup Time]
  /\ granted \in [Keys -> [Time -> Nat]]

\* calls for k allowed by a clock read after t
GrantedAfter(k, t) == MapThenSumSet(LAMBDA u : granted[k][u], {u \in Time : u > t})

(* "Limiter allows up to Limit calls per key within Window, sliding"       *)
(* (limiter.go:11): at no time have more been allowed in the window that   *)
(* ends there, whatever order callers get the mutex in.                    *)
AtMostLimit == \A k \in Keys : GrantedAfter(k, clock - Window) <= Limit

\* how often t is in a slice
Times(s, t) == Cardinality({i \in DOMAIN s : s[i] = t})

(* Filtering the shared slices in place never loses a hit still counted    *)
(* (limiter.go:55).                                                        *)
NoHitLost ==
  \A k \in Keys : \A t \in Time :
    t > clock - Window => Times(hits[k], t) >= granted[k][t]

Refused(c) == now[c] # -1 /\ now'[c] = -1 /\ granted' = granted

(* The window slides open again: who has not been let through for a        *)
(* Window is let through (limiter_test.go:33).                             *)
RefusedIsRecent ==
  [][\A c \in Callers : Refused(c) => GrantedAfter(key[c], now[c] - Window) > 0]_vars

(* A call is refused only when Limit calls were let through (limiter.go:11)*)
RefusedIsFull ==
  [][\A c \in Callers : Refused(c) => GrantedAfter(key[c], now[c] - Window) >= Limit]_vars
=============================================================================
