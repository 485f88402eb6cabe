----------------------------- MODULE MCSettings -----------------------------
(***************************************************************************)
(* What an operator's account and brand go through, and the limiter before *)
(* them, for TLC: Account, Brand and RateLimit.  They share no variable:   *)
(* "part" says which of them a behaviour is of, the others stay in their   *)
(* initial states.                                                         *)
(***************************************************************************)
EXTENDS Account, TLC

CONSTANTS
  Uploads,   \* the jobs of Brand
  Pictures,  \* the logos of Brand, and the keys of RateLimit
  Limit, Window, MaxTime   \* of RateLimit

(* "none" stands for a brand without a logo and for a caller without a     *)
(* key; a limit that is not positive switches the limiter off.             *)
ASSUME SettingsAssumption ==
  /\ "none" \notin Pictures
  /\ {Limit, Window} \subseteq Nat \ {0}
  /\ MaxTime \in Nat

VARIABLES
  part,
  brand, files, job, change, overlapped, raced, kept,
  clock, hits, sweptAt, key, now, granted

brandVars == <<brand, files, job, change, overlapped, raced, kept>>
rateVars  == <<clock, hits, sweptAt, key, now, granted>>
allVars   == <<part, vars, brandVars, rateVars>>

Brand == INSTANCE Brand WITH
  Logos <- Pictures, Jobs <- Uploads, row <- brand, req <- change

Limiter == INSTANCE RateLimit WITH
  Keys <- Pictures, Callers <- Handlers

SettingsInit ==
  /\ part \in {"account", "brand", "limiter"}
  /\ Init /\ Brand!Init /\ Limiter!Init

SettingsNext ==
  /\ UNCHANGED part
  /\ \/ part = "account" /\ Next /\ UNCHANGED <<brandVars, rateVars>>
     \/ part = "brand" /\ Brand!Next /\ UNCHANGED <<vars, rateVars>>
     \/ part = "limiter" /\ Limiter!Next /\ UNCHANGED <<vars, brandVars>>

SettingsSpec == SettingsInit /\ [][SettingsNext]_allVars

Interchangeable ==
  Permutations(Handlers) \cup Permutations(Passkeys) \cup Permutations(Prompts)
    \cup Permutations(Pictures)
-----------------------------------------------------------------------------
(* Every part: the variables keep their types.                             *)
TypesOK ==
  CASE part = "account" -> TypeOK
    [] part = "brand"   -> Brand!TypeOK
    [] part = "limiter" -> Limiter!TypeOK

(* Requiring a passkey never locks the owner out, and prompts that were    *)
(* opened at the same time are all that goes past maxPasskeys.             *)
PasskeysSound == NoLockout /\ PasskeyLimit

(* The brand's logo is on disk, and no other but what a failed or          *)
(* unfinished step left behind (brand/service.go:183).                     *)
LogosKept == Brand!LogoStored /\ Brand!OnlyCurrent

(* A file uploaded under a logo is delivered with it.                      *)
Branded == Brand!Branded

(* The welcome setup, once finished, is not shown again.                   *)
OnboardedOnce == Brand!OnboardedOnce

(* "Limiter allows up to Limit calls per key within Window, sliding"       *)
(* (limiter.go:11), and no hit is lost on the way.                         *)
AtMostLimit == Limiter!AtMostLimit /\ Limiter!NoHitLost

(* Who has not been let through for a Window is let through.               *)
RefusedIsRecent == Limiter!RefusedIsRecent
=============================================================================
