------------------------ MODULE SchedulerControlProofs ------------------------
(***************************************************************************)
(* The safety properties of SchedulerControl for every set of callers and  *)
(* every use of the scheduler.                                             *)
(*                                                                         *)
(* iDoStop, iDoSuspend and iSuspended are set in known places of the loop  *)
(* only (FlagsFollowLoop), so none of them is left when the loop ends.     *)
(* The stopper's DoCancel under iStopperCrit succeeds because the loop     *)
(* ends with the stopper still active only if an AO left (EndsByLeaving),  *)
(* and then no thread is inside a Stop or Suspend (CallsArePermitted,      *)
(* SelfCallsInRun).                                                        *)
(***************************************************************************)
EXTENDS SchedulerControl, FiniteSetTheorems, TLAPS

(* The places of the loop and of the calls.                                *)
Places == {"outside", "loop", "repend", "run", "afterRun", "suspending",
           "resumewait", "resumed", "end", "endcancel", "endremove", "endexit"}
CallPlaces == {"idle", "stopStatus", "stopFlag", "stopSuspended", "stopSignal",
               "stop", "suspendStatus", "suspend", "resumeFlag",
               "resumeSuspended", "resumeSignal"}

StopCalls == {"stopStatus", "stopFlag", "stopSuspended", "stopSignal", "stop"}
SuspendCalls == {"suspendStatus", "suspend"}

(* Only the threads of use are inside a Stop or Suspend.                   *)
CallsArePermitted ==
    \A c \in Caller : /\ call[c] \in StopCalls => c \in use.stoppers
                      /\ call[c] \in SuspendCalls => c \in use.suspenders

(* The scheduler's own thread makes its calls in user code.                *)
SelfCallsInRun == call[Self] # "idle" => pc \in {"outside", "run"}

FlagsFollowLoop ==
    /\ doStop => pc \in {"afterRun", "loop"} /\ ~doSuspend /\ ~busy
    /\ doSuspend => pc \in {"repend", "afterRun", "suspending"}
    /\ pc \in {"repend", "suspending"} => doSuspend
    /\ suspended <=> pc \in {"suspending", "resumewait", "resumed"}

(* The stopper is in the queue exactly while its request is completed.     *)
StopperMatchesQueue ==
    /\ queued => busy
    /\ busy => open
    /\ busy => (queued <=> status # "pending")
    /\ pc \in {"repend", "endexit"} => ~busy
    /\ pc = "endremove" => queued
    /\ pc = "endcancel" => busy
    /\ pc # "outside" => open

(* The loop ends by a Stop, whose Run made the stopper idle, or by a leave.*)
EndsByLeaving ==
    /\ pc \in {"end", "endcancel", "endremove"} /\ busy => use.runsLeave
    /\ ControlledApart /\ pc = "endcancel" => status = "pending"

(* The stopper is removed, and the lock held, as the end of the loop says. *)
EndIsComplete ==
    ControlledApart =>
        /\ pc = "outside" => ~open
        /\ crit <=> pc \in {"endcancel", "endremove", "endexit"}

(* Callers are held only in a suspension, and whoever of them found        *)
(* iDoSuspend clear calls while iSuspended is set.                         *)
HeldInSuspension ==
    /\ held # {} => Suspension
    /\ \A c \in held : call[c] = "resumeSuspended"
                           => pc \in {"suspending", "resumewait"}

(* The bound of Begin counts the calls that may signal iResumeSem yet.     *)
Owing == {c \in Caller : call[c] \notin {"idle", "stop"}}
CreditsAreBounded == resumeSem + Cardinality(Owing) <= MaxCredits

Control == /\ CallsArePermitted
           /\ SelfCallsInRun
           /\ FlagsFollowLoop
           /\ StopperMatchesQueue
           /\ EndsByLeaving
           /\ EndIsComplete
           /\ HeldInSuspension

IInv == TypeOK /\ CreditsAreBounded /\ Control
-----------------------------------------------------------------------------
(* The flags stay Boolean.                                                 *)
LEMMA FlagsTypeStep ==
    ASSUME FlagsType, [Next]_vars
    PROVE  FlagsType'
<1> USE DEF FlagsType, stopper, flags, env, history
<1>1. ASSUME NEW c, NEW p, Begin(c, p) PROVE FlagsType'
    BY <1>1 DEF Begin
<1>2. ASSUME NEW c \in Caller, CallStep(c) PROVE FlagsType'
    <2>1. CASE TestStatus(c) \/ TestDoSuspend(c) \/ TestSuspended(c)
        BY <2>1 DEF TestStatus, TestDoSuspend, TestSuspended
    <2>2. CASE Signal(c)
        BY <2>2 DEF Signal
    <2>3. CASE PendComplete(c)
        BY <2>3 DEF PendComplete
    <2> QED
        BY <1>2, <2>1, <2>2, <2>3 DEF CallStep
<1>3. CASE StartScheduler \/ RunReturns \/ RunLeaves \/ UNCHANGED vars
    BY <1>3 DEF StartScheduler, RunReturns, RunLeaves, vars
<1>4. CASE RunStopperStop \/ RunStopperSuspend \/ RunStopperPends \/ RunObject
           \/ NoSuspend
    BY <1>4 DEF RunStopperStop, RunStopperSuspend, RunStopperPends, RunObject,
        NoSuspend
<1>5. CASE Suspend \/ ResumeWait \/ Resumed \/ LoopEnds
    BY <1>5 DEF Suspend, ResumeWait, Resumed, LoopEnds
<1>6. CASE EndScheduling \/ EndCancel \/ EndRemove \/ EndExit
    BY <1>6 DEF EndScheduling, EndCancel, EndRemove, EndExit
<1> QED
    BY <1>1, <1>2, <1>3, <1>4, <1>5, <1>6
    DEF Next, Loop, StopScheduler, SuspendScheduler, ResumeScheduler

(* The number of calls that may signal yet.                                *)
LEMMA OwingCount ==
    ASSUME NEW S \in SUBSET Caller
    PROVE  /\ Cardinality(S) \in Nat
           /\ \A c \in Caller \ S : Cardinality(S \cup {c}) = Cardinality(S) + 1
           /\ \A c \in S : Cardinality(S \ {c}) = Cardinality(S) - 1
           /\ \A T \in SUBSET S : Cardinality(T) <= Cardinality(S)
<1>1. IsFiniteSet(S)
    BY ConstantsAssumption, FS_Subset
<1>2. Cardinality(S) \in Nat
    BY <1>1, FS_CardinalityType
<1>3. \A c \in Caller \ S : Cardinality(S \cup {c}) = Cardinality(S) + 1
    BY <1>1, FS_AddElement
<1>4. \A c \in S : Cardinality(S \ {c}) = Cardinality(S) - 1
    BY <1>1, FS_RemoveElement
<1>5. \A T \in SUBSET S : Cardinality(T) <= Cardinality(S)
    BY <1>1, FS_Subset
<1> QED
    BY <1>2, <1>3, <1>4, <1>5

LEMMA InitIInv == Init => IInv
<1> SUFFICES ASSUME Init PROVE IInv
    OBVIOUS
<1>1. FlagsType
    BY DEF Init, FlagsType
<1>2. TypeOK
    BY <1>1, ConstantsAssumption DEF Init, TypeOK
<1>3. Owing = {}
    BY DEF Init, Owing
<1>4. CreditsAreBounded
    BY <1>3, FS_EmptySet, ConstantsAssumption DEF Init, CreditsAreBounded
<1>5. Control
    BY ConstantsAssumption
    DEF Init, Control, CallsArePermitted, StopCalls, SuspendCalls, SelfCallsInRun,
        FlagsFollowLoop, StopperMatchesQueue, EndsByLeaving, EndIsComplete,
        HeldInSuspension
<1> QED
    BY <1>2, <1>4, <1>5 DEF IInv
-----------------------------------------------------------------------------
(* The types but for the flags, and the bound on the semaphore.            *)

LEMMA BeginTypes ==
    ASSUME IInv, NEW c \in Caller,
           NEW p \in {"stopStatus", "suspendStatus", "resumeFlag"}, Begin(c, p)
    PROVE  TypeOK' /\ CreditsAreBounded'
<1> USE DEF IInv, stopper, flags, env
<1>1. FlagsType'
    BY DEF Begin, TypeOK, FlagsType
<1>2. TypeOK'
    BY <1>1 DEF Begin, CallGoes, TypeOK
<1>3. /\ Owing' = Owing \cup {c} /\ c \in Caller \ Owing
      /\ Owing \subseteq {d \in Caller : call[d] # "idle"}
      /\ Owing \in SUBSET Caller
    BY DEF Begin, CallGoes, TypeOK, Owing
<1>4. /\ Cardinality(Owing') = Cardinality(Owing) + 1 /\ Cardinality(Owing) \in Nat
      /\ Cardinality(Owing) <= Cardinality({d \in Caller : call[d] # "idle"})
      /\ Cardinality({d \in Caller : call[d] # "idle"}) \in Nat
    BY <1>3, OwingCount
<1> QED
    BY <1>2, <1>4, ConstantsAssumption DEF Begin, TypeOK, CreditsAreBounded

LEMMA CallStepTypes ==
    ASSUME IInv, NEW c \in Caller, CallStep(c)
    PROVE  TypeOK' /\ CreditsAreBounded'
<1> USE DEF IInv, stopper, flags, env, history
<1>1. FlagsType'
    BY FlagsTypeStep DEF Next, TypeOK
<1>2. Owing \in SUBSET Caller /\ Owing' \in SUBSET Caller
    BY DEF Owing
<1>3. Cardinality(Owing) \in Nat /\ Cardinality(Owing') \in Nat
    BY <1>2, OwingCount
<1>4. CASE TestStatus(c) \/ TestDoSuspend(c) \/ TestSuspended(c) \/ PendComplete(c)
    <2>1. resumeSem' = resumeSem /\ Owing' \subseteq Owing
        BY <1>4 DEF TestStatus, TestDoSuspend, TestSuspended, PendComplete, CallGoes,
            TypeOK, Owing
    <2>2. CreditsAreBounded'
        BY <1>2, <1>3, <2>1, OwingCount, ConstantsAssumption
        DEF CreditsAreBounded, TypeOK
    <2>3. call' \in [Caller -> CallPlaces]
        BY <1>4 DEF TestStatus, TestDoSuspend, TestSuspended, PendComplete, CallGoes,
            TypeOK, CallPlaces
    <2>4. /\ status' \in {"none", "pending", "stop", "suspend", "cancel"}
          /\ UNCHANGED <<resumeSem, use, pc, held>>
        BY <1>4 DEF TestStatus, TestDoSuspend, TestSuspended, PendComplete, TypeOK
    <2> QED
        BY <1>1, <2>2, <2>3, <2>4 DEF TypeOK, CallPlaces
<1>5. CASE Signal(c)
    <2>1. Owing' = Owing \ {c} /\ c \in Owing
        BY <1>5 DEF Signal, CallGoes, TypeOK, Owing
    <2>2. Cardinality(Owing') = Cardinality(Owing) - 1
        BY <1>2, <2>1, OwingCount
    <2>3. CreditsAreBounded' /\ resumeSem' \in 0 .. MaxCredits
        BY <1>3, <1>5, <2>2, ConstantsAssumption
        DEF Signal, TypeOK, CreditsAreBounded
    <2> QED
        BY <1>1, <1>5, <2>3 DEF Signal, CallGoes, TypeOK
<1> QED
    BY <1>4, <1>5 DEF CallStep

LEMMA ThreadTypes ==
    ASSUME IInv, \/ StartScheduler \/ RunReturns \/ RunLeaves \/ Loop
                 \/ UNCHANGED vars
    PROVE  TypeOK' /\ CreditsAreBounded'
<1> USE DEF IInv, stopper, flags, env, history
<1>1. FlagsType'
    BY FlagsTypeStep DEF Next, TypeOK
<1>2. /\ status' \in {"none", "pending", "stop", "suspend", "cancel"}
      /\ pc' \in Places
      /\ held' \subseteq Caller
      /\ UNCHANGED <<use, call>>
    <2>1. CASE StartScheduler \/ RunReturns \/ RunLeaves \/ UNCHANGED vars
        BY <2>1 DEF StartScheduler, RunReturns, RunLeaves, vars, TypeOK, Places
    <2>2. CASE RunStopperStop \/ RunStopperSuspend \/ RunStopperPends \/ RunObject
               \/ NoSuspend
        BY <2>2 DEF RunStopperStop, RunStopperSuspend, RunStopperPends, RunObject,
            NoSuspend, TypeOK, Places
    <2>3. CASE Suspend \/ ResumeWait \/ Resumed \/ LoopEnds
        BY <2>3 DEF Suspend, ResumeWait, Resumed, LoopEnds, TypeOK, Places
    <2>4. CASE EndScheduling \/ EndCancel \/ EndRemove \/ EndExit
        BY <2>4 DEF EndScheduling, EndCancel, EndRemove, EndExit, TypeOK, Places
    <2> QED
        BY <2>1, <2>2, <2>3, <2>4 DEF Loop
<1>3. resumeSem' = resumeSem \/ (resumeSem > 0 /\ resumeSem' = resumeSem - 1)
    BY DEF StartScheduler, RunReturns, RunLeaves, vars, Loop,
        RunStopperStop, RunStopperSuspend, RunStopperPends, RunObject, NoSuspend,
        Suspend, ResumeWait, Resumed, LoopEnds, EndScheduling, EndCancel, EndRemove,
        EndExit
<1>4. Owing' = Owing
    BY <1>2 DEF Owing
<1>5. resumeSem' \in 0 .. MaxCredits /\ CreditsAreBounded'
    <2>1. Cardinality(Owing) \in Nat
        BY OwingCount DEF Owing
    <2> QED
        BY <1>3, <1>4, <2>1, ConstantsAssumption DEF TypeOK, CreditsAreBounded
<1> QED
    BY <1>1, <1>2, <1>5 DEF TypeOK, Places
-----------------------------------------------------------------------------
(* The control state.                                                      *)

LEMMA BeginControl ==
    ASSUME IInv, NEW c \in Caller,
           \/ c \in use.stoppers /\ Begin(c, "stopStatus")
           \/ c \in use.suspenders /\ Begin(c, "suspendStatus")
           \/ c \in use.resumers /\ Begin(c, "resumeFlag")
    PROVE  Control'
<1> USE DEF IInv, Control, stopper, flags, env, Begin, CallGoes
<1>1. call \in [Caller -> CallPlaces] /\ Self \in Caller
    BY ConstantsAssumption DEF TypeOK, CallPlaces
<1>2. CallsArePermitted'
    BY <1>1 DEF CallsArePermitted, StopCalls, SuspendCalls
<1>3. SelfCallsInRun'
    BY <1>1 DEF SelfCallsInRun
<1>4. FlagsFollowLoop' /\ StopperMatchesQueue' /\ EndsByLeaving' /\ EndIsComplete'
    BY DEF FlagsFollowLoop, StopperMatchesQueue, EndsByLeaving, EndIsComplete,
        ControlledApart
<1>5. HeldInSuspension'
    <2>1. call'[c] # "resumeSuspended"
          /\ \A d \in Caller \ {c} : call'[d] = call[d]
        BY <1>1
    <2>2. held \subseteq Caller
        BY DEF TypeOK
    <2>3. CASE Suspension
        <3>1. held' = held \cup {c} /\ Suspension'
            BY <2>3 DEF Suspension
        <3> QED
            BY <2>1, <2>2, <3>1 DEF HeldInSuspension
    <2>4. CASE ~Suspension
        <3>1. held' = {}
            BY <2>4 DEF HeldInSuspension
        <3> QED
            BY <3>1 DEF HeldInSuspension
    <2> QED
        BY <2>3, <2>4
<1> QED
    BY <1>2, <1>3, <1>4, <1>5

(* The reads of a call: a call that is held and goes on past iDoSuspend    *)
(* finds the scheduler where iSuspended is set.                            *)
LEMMA ReadsControl ==
    ASSUME IInv, NEW c \in Caller,
           TestStatus(c) \/ TestDoSuspend(c) \/ TestSuspended(c) \/ Signal(c)
    PROVE  Control'
<1> USE DEF IInv, Control, stopper, flags, env, history, CallGoes,
            TestStatus, TestDoSuspend, TestSuspended, Signal
<1>1. call \in [Caller -> CallPlaces] /\ Self \in Caller
    BY ConstantsAssumption DEF TypeOK, CallPlaces
<1>2. CallsArePermitted'
    BY <1>1 DEF CallsArePermitted, StopCalls, SuspendCalls
<1>3. SelfCallsInRun'
    BY <1>1 DEF SelfCallsInRun
<1>4. FlagsFollowLoop' /\ StopperMatchesQueue' /\ EndsByLeaving' /\ EndIsComplete'
    BY DEF FlagsFollowLoop, StopperMatchesQueue, EndsByLeaving, EndIsComplete,
        ControlledApart
<1>5. HeldInSuspension'
    <2>1. UNCHANGED <<held, pc, doSuspend>>
        OBVIOUS
    <2>2. Suspension' <=> Suspension
        BY <2>1 DEF Suspension
    <2>3. ASSUME NEW d \in held, call'[d] = "resumeSuspended"
          PROVE  pc \in {"suspending", "resumewait"}
        <3>1. CASE call[d] = "resumeSuspended"
            BY <3>1 DEF HeldInSuspension
        <3>2. CASE call[d] # "resumeSuspended"
            <4>1. ~doSuspend
                BY <1>1, <2>3, <3>2 DEF TypeOK
            <4> QED
                BY <4>1 DEF HeldInSuspension, Suspension
        <3> QED
            BY <3>1, <3>2
    <2> QED
        BY <2>1, <2>2, <2>3 DEF HeldInSuspension
<1> QED
    BY <1>2, <1>3, <1>4, <1>5

(* Nobody completes the stopper while the lock is held to cancel it.       *)
LEMMA PendCompleteControl ==
    ASSUME IInv, NEW c \in Caller, PendComplete(c)
    PROVE  Control'
<1> USE DEF IInv, Control, flags, env, CallGoes, PendComplete
<1>1. call \in [Caller -> CallPlaces] /\ Self \in Caller
    BY ConstantsAssumption DEF TypeOK, CallPlaces
<1>2. UNCHANGED <<open, busy, crit, doStop, doSuspend, suspended, use, pc, held>>
    OBVIOUS
<1>3. CallsArePermitted' /\ SelfCallsInRun'
    BY <1>1, <1>2 DEF CallsArePermitted, SelfCallsInRun, StopCalls, SuspendCalls
<1>4. \/ UNCHANGED <<queued, status>>
      \/ /\ Completable
         /\ queued' = TRUE
         /\ status' = call[c] /\ call[c] \in {"stop", "suspend"}
    OBVIOUS
<1>5. FlagsFollowLoop' /\ EndIsComplete'
    BY <1>2 DEF FlagsFollowLoop, EndIsComplete, ControlledApart
<1>6. StopperMatchesQueue'
    BY <1>2, <1>4 DEF StopperMatchesQueue, Completable
<1>7. EndsByLeaving'
    <2>1. CASE ControlledApart /\ pc = "endcancel"
        <3>1. use.runsLeave /\ use.stoppers \cup use.suspenders \subseteq {Self}
            BY <2>1 DEF StopperMatchesQueue, EndsByLeaving, ControlledApart
        <3>2. c = Self
            BY <3>1 DEF CallsArePermitted, StopCalls, SuspendCalls
        <3> QED
            BY <2>1, <3>2 DEF SelfCallsInRun
    <2>2. CASE ~(ControlledApart /\ pc = "endcancel")
        BY <1>2, <2>2 DEF EndsByLeaving, ControlledApart
    <2> QED
        BY <2>1, <2>2
<1>8. HeldInSuspension'
    BY <1>1, <1>2 DEF HeldInSuspension, Suspension
<1> QED
    BY <1>3, <1>5, <1>6, <1>7, <1>8

(* The steps of the scheduler's thread.                                    *)
LEMMA ThreadControl ==
    ASSUME IInv, \/ StartScheduler \/ RunReturns \/ RunLeaves \/ Loop
                 \/ UNCHANGED vars
    PROVE  Control'
<1> USE DEF IInv, Control, stopper, flags, env, history, CallsArePermitted,
            SelfCallsInRun, FlagsFollowLoop, StopperMatchesQueue, EndsByLeaving,
            EndIsComplete, HeldInSuspension, Suspension, ControlledApart
<1>1. CASE StartScheduler
    BY <1>1 DEF StartScheduler, SelfIdle
<1>2. CASE RunReturns
    BY <1>2 DEF RunReturns, SelfIdle
<1>3. CASE RunLeaves
    BY <1>3 DEF RunLeaves, SelfIdle
<1>4. CASE RunStopperStop
    BY <1>4 DEF RunStopperStop
<1>5. CASE RunStopperSuspend
    BY <1>5 DEF RunStopperSuspend
<1>6. CASE RunStopperPends
    BY <1>6 DEF RunStopperPends
<1>7. CASE RunObject \/ NoSuspend
    BY <1>7 DEF RunObject, NoSuspend
<1>8. CASE Suspend
    BY <1>8 DEF Suspend
<1>9. CASE ResumeWait
    BY <1>9 DEF ResumeWait
<1>10. CASE Resumed
    BY <1>10 DEF Resumed
<1>11. CASE LoopEnds
    BY <1>11 DEF LoopEnds
<1>12. CASE EndScheduling
    BY <1>12 DEF EndScheduling
<1>13. CASE EndCancel
    BY <1>13 DEF EndCancel, Completable
<1>14. CASE EndRemove
    BY <1>14 DEF EndRemove
<1>15. CASE EndExit
    BY <1>15 DEF EndExit
<1>16. CASE UNCHANGED vars
    BY <1>16 DEF vars
<1> QED
    BY <1>1, <1>2, <1>3, <1>4, <1>5, <1>6, <1>7, <1>8, <1>9, <1>10, <1>11, <1>12,
       <1>13, <1>14, <1>15, <1>16 DEF Loop

LEMMA InductiveStep == IInv /\ [Next]_vars => IInv'
<1> SUFFICES ASSUME IInv, [Next]_vars PROVE IInv'
    OBVIOUS
<1>1. /\ use.stoppers \subseteq Caller /\ use.suspenders \subseteq Caller
      /\ use.resumers \subseteq Caller
    BY ConstantsAssumption DEF IInv, TypeOK, Use
<1>2. ASSUME NEW c \in use.stoppers, StopScheduler(c)
      PROVE  IInv'
    BY <1>1, <1>2, BeginTypes, BeginControl DEF StopScheduler, IInv
<1>3. ASSUME NEW c \in use.suspenders, SuspendScheduler(c)
      PROVE  IInv'
    BY <1>1, <1>3, BeginTypes, BeginControl DEF SuspendScheduler, IInv
<1>4. ASSUME NEW c \in use.resumers, ResumeScheduler(c)
      PROVE  IInv'
    BY <1>1, <1>4, BeginTypes, BeginControl DEF ResumeScheduler, IInv
<1>5. ASSUME NEW c \in Caller, CallStep(c)
      PROVE  IInv'
    BY <1>5, CallStepTypes, ReadsControl, PendCompleteControl DEF CallStep, IInv
<1>6. CASE StartScheduler \/ RunReturns \/ RunLeaves \/ Loop \/ UNCHANGED vars
    BY <1>6, ThreadTypes, ThreadControl DEF IInv
<1> QED
    BY <1>2, <1>3, <1>4, <1>5, <1>6 DEF Next
-----------------------------------------------------------------------------
(* The inductive invariant holds of every scheduler.                       *)
THEOREM Invariance == Spec => []IInv
BY InitIInv, InductiveStep, PTL DEF Spec

(* The variables keep their types.                                         *)
THEOREM TypeCorrect == Spec => []TypeOK
BY Invariance, PTL DEF IInv

(* A scheduler that was stopped, or left, can be started again: the        *)
(* stopper is idle and removed, and no flag of the previous scheduling     *)
(* stops or suspends the next one.                                         *)
THEOREM StartsClean == Spec => []CleanStart
<1>1. IInv => CleanStart
    BY DEF IInv, Control, CleanStart, FlagsFollowLoop, StopperMatchesQueue,
        EndIsComplete
<1> QED
    BY <1>1, Invariance, PTL

(* iStopperCrit is unlocked whenever the scheduler is not running, however *)
(* the loop ended.                                                         *)
THEOREM LockReleased == Spec => []LockIsReleased
<1>1. IInv => LockIsReleased
    BY DEF IInv, Control, LockIsReleased, EndIsComplete
<1> QED
    BY <1>1, Invariance, PTL

(* A ResumeScheduler called in a suspension never returns without having   *)
(* signalled because it read iDoSuspend and iSuspended one after the other.*)
THEOREM ResumeIsNotMissed == Spec => ResumeFindsSuspension
<1> DEFINE Finds == \A c \in Caller :
                        call[c] = "resumeSuspended" /\ call'[c] = "idle"
                            => c \notin held
<1>1. IInv /\ [Next]_vars => [Finds]_vars
    <2> SUFFICES ASSUME IInv, Next, NEW c \in Caller,
                        call[c] = "resumeSuspended", call'[c] = "idle"
                 PROVE  c \notin held
        OBVIOUS
    <2>1. call \in [Caller -> CallPlaces]
        BY DEF IInv, TypeOK, CallPlaces
    <2>2. TestSuspended(c)
        <3>1. ASSUME NEW d \in Caller, NEW p, Begin(d, p) PROVE p = "idle"
            BY <2>1, <3>1 DEF Begin, CallGoes
        <3>2. ASSUME NEW d \in Caller, CallStep(d) PROVE TestSuspended(c)
            BY <2>1, <3>2 DEF CallStep, TestStatus, TestDoSuspend, TestSuspended,
                Signal, PendComplete, CallGoes
        <3>3. ASSUME StartScheduler \/ RunReturns \/ RunLeaves PROVE FALSE
            BY <3>3 DEF StartScheduler, RunReturns, RunLeaves
        <3>4. ASSUME Loop PROVE FALSE
            BY <3>4 DEF Loop, RunStopperStop, RunStopperSuspend, RunStopperPends,
                RunObject, NoSuspend, Suspend, ResumeWait, Resumed, LoopEnds,
                EndScheduling, EndCancel, EndRemove, EndExit
        <3>5. /\ use.stoppers \subseteq Caller /\ use.suspenders \subseteq Caller
              /\ use.resumers \subseteq Caller
            BY ConstantsAssumption DEF IInv, TypeOK, Use
        <3> QED
            BY <3>1, <3>2, <3>3, <3>4, <3>5
            DEF Next, StopScheduler, SuspendScheduler, ResumeScheduler
    <2>3. ~suspended
        BY <2>1, <2>2 DEF TestSuspended, CallGoes
    <2> QED
        BY <2>3 DEF IInv, Control, HeldInSuspension, FlagsFollowLoop
<1> QED
    BY <1>1, Invariance, PTL DEF Spec, ResumeFindsSuspension
=============================================================================
