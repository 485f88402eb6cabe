---------------------------- MODULE MCEventually ----------------------------
(***************************************************************************)
(* The process (Process) and the payments it serves (Payments), for TLC.   *)
(* They share no variable: "part" says which of them a behaviour is of,    *)
(* the other stays in its initial state.  The fairness is that of the two  *)
(* modules; in its initial state a process is off and owes no step.        *)
(***************************************************************************)
EXTENDS Process

CONSTANT Handlers    \* of Payments

VARIABLES
  part,
  live, linksOff, made, payment, ref, paidEvents, intent, handed, unlocked, inbox, pc, mine,
  crashes, errors

payVars ==
  <<live, linksOff, made, payment, ref, paidEvents, intent, handed, unlocked, inbox, pc, mine,
    crashes, errors>>
allVars == <<part, vars, payVars>>

Pay == INSTANCE Payments WITH
  MaxPayments <- 2, Webhooks <- TRUE, Delayed <- TRUE, MaxCrashes <- 1, MaxErrors <- 0

(* Two migrations, of two columns and of one.                              *)
TwoMigrations == <<{"user_agent", "ip"}, {"attempts"}>>

EventuallyInit ==
  /\ part \in {"process", "payments"}
  /\ Init /\ Pay!Init
  /\ part = "payments" => secretEnv = NoSecrets

EventuallyNext ==
  /\ UNCHANGED part
  /\ \/ part = "process" /\ Next /\ UNCHANGED payVars
     \/ part = "payments" /\ Pay!Next /\ UNCHANGED vars

PaymentsFairness ==
  /\ \A h \in Handlers : WF_payVars(part = "payments" /\ Pay!Advance(h))
  /\ SF_payVars(part = "payments" /\ \E h \in Handlers : Pay!StatusBegin(h))
  /\ \A p \in 1..2 :
       /\ WF_payVars(part = "payments" /\ Pay!Settle(p))
       /\ SF_payVars(part = "payments" /\ \E h \in Handlers : Pay!HookBegin(h, p))

EventuallySpec ==
  EventuallyInit /\ [][EventuallyNext]_allVars /\ Fairness /\ PaymentsFairness
-----------------------------------------------------------------------------
(* Who paid gets the original, unless the operator deletes the job or      *)
(* switches its links off meanwhile (payment/service.go:39-42).            *)
Honoured == Pay!Honoured
=============================================================================
