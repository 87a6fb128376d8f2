--------------------------- MODULE SchedulerControl ---------------------------
(***************************************************************************)
(* Starting, stopping, suspending and resuming the blocking scheduler, by  *)
(* user code in the scheduler's own thread (Self) and by other threads.    *)
(*                                                                         *)
(* Stop and Suspend complete the request of the stopper AO, whose Run sets *)
(* iDoStop or iDoSuspend; the loop tests the flags after every Run.  The   *)
(* calls read iStopper->iStatus, iDoSuspend and iSuspended without a lock, *)
(* each read a step of its own.  Of the ready queue only the stopper is    *)
(* kept: its priority is above that of the other AOs, so it runs first,    *)
(* and some other AO may always be ready.                                  *)
(***************************************************************************)
EXTENDS Integers, FiniteSets

CONSTANTS
    Self,        \* the scheduler's thread
    Caller,      \* the threads that make calls, Self among them
    Uses,        \* the ways the program may use the scheduler
    MaxCredits   \* bound on the count of iResumeSem plus the calls under way

(* Which threads call StopScheduler, SuspendScheduler and ResumeScheduler, *)
(* and whether the Run of an AO may leave.                                 *)
Use == [stoppers : SUBSET Caller, suspenders : SUBSET Caller,
        resumers : SUBSET Caller, runsLeave : BOOLEAN]

ASSUME ConstantsAssumption == /\ IsFiniteSet(Caller)
                              /\ Self \in Caller
                              /\ Uses \subseteq Use
                              /\ MaxCredits \in Nat

VARIABLES
    open,       \* the stopper is added to the scheduler (IsStarted)
    busy,       \* iStopper->iBusy
    status,     \* iStopper->iStatus
    queued,     \* the stopper is in the ready queue
    crit,       \* iStopperCrit is locked between two steps
    doStop,     \* iDoStop
    doSuspend,  \* iDoSuspend
    suspended,  \* iSuspended
    resumeSem,  \* count of iResumeSem
    blocking,   \* iBlockingMode
    use,        \* the program's use of the scheduler, chosen once
    pc,         \* where the scheduler's thread is
    call,       \* where every caller is
    held,       \* history: callers whose call began in the current suspension
    signalled   \* history: iResumeSem was signalled since the last Suspend

stopper == <<open, busy, status, queued>>
flags == <<doStop, doSuspend, suspended>>
env == <<blocking, use>>
history == <<held, signalled>>
vars == <<stopper, crit, flags, resumeSem, env, pc, call, history>>

Init == /\ open = FALSE
        /\ busy = FALSE
        /\ status = "none"
        /\ queued = FALSE
        /\ crit = FALSE
        /\ doStop = FALSE
        /\ doSuspend = FALSE
        /\ suspended = FALSE
        /\ resumeSem = 0
        /\ blocking = FALSE
        /\ use \in Uses
        /\ pc = "outside"
        /\ call = [c \in Caller |-> "idle"]
        /\ held = {}
        /\ signalled = FALSE
-----------------------------------------------------------------------------
(* The control calls.                                                      *)

CallGoes(c, p) == call' = [call EXCEPT ![c] = p]

(* The scheduler is suspended or will be before the next Run.              *)
Suspension == doSuspend \/ pc \in {"suspending", "resumewait"}

(* Self is in user code before StartScheduler or inside the Run of an AO.  *)
Begin(c, p) ==
    /\ call[c] = "idle"
    /\ c = Self => pc \in {"outside", "run"}
    /\ resumeSem + Cardinality({d \in Caller : call[d] # "idle"}) < MaxCredits
    /\ CallGoes(c, p)
    /\ held' = IF Suspension THEN held \cup {c} ELSE held \ {c}
    /\ UNCHANGED <<stopper, crit, flags, resumeSem, env, pc, signalled>>

(* Both tests leave or return without an effect when they fail.            *)
Started == blocking /\ open /\ ~crit

StopScheduler(c) == Started /\ Begin(c, "stopStatus")

SuspendScheduler(c) == Started /\ Begin(c, "suspendStatus")

ResumeScheduler(c) == Begin(c, "resumeFlag")

(* "if (iStopper->iStatus != OSCL_REQUEST_PENDING) Leave".                 *)
TestStatus(c) ==
    /\ \/ call[c] = "stopStatus" /\ status = "pending" /\ CallGoes(c, "stopFlag")
       \/ call[c] = "suspendStatus" /\ status = "pending" /\ CallGoes(c, "suspend")
       \/ /\ call[c] \in {"stopStatus", "suspendStatus"}
          /\ status # "pending"
          /\ CallGoes(c, "idle")
    /\ UNCHANGED <<stopper, crit, flags, resumeSem, env, pc, history>>

(* Mutant: Stop does not look whether the scheduler is suspended.          *)
TestDoSuspend_StopSkips(c) ==
    /\ \/ call[c] = "stopFlag" /\ CallGoes(c, "stop")
       \/ call[c] = "resumeFlag" /\ CallGoes(c, IF doSuspend THEN "resumeSignal"
                                                 ELSE "resumeSuspended")
    /\ UNCHANGED <<stopper, crit, flags, resumeSem, env, pc, history>>

(* "if (iDoSuspend || iSuspended)": two reads.                             *)
TestDoSuspend(c) ==
    /\ \/ call[c] = "stopFlag" /\ CallGoes(c, IF doSuspend THEN "stopSignal"
                                               ELSE "stopSuspended")
       \/ call[c] = "resumeFlag" /\ CallGoes(c, IF doSuspend THEN "resumeSignal"
                                                 ELSE "resumeSuspended")
    /\ UNCHANGED <<stopper, crit, flags, resumeSem, env, pc, history>>

TestSuspended(c) ==
    /\ \/ call[c] = "stopSuspended" /\ CallGoes(c, IF suspended THEN "stopSignal"
                                                    ELSE "stop")
       \/ call[c] = "resumeSuspended" /\ CallGoes(c, IF suspended THEN "resumeSignal"
                                                      ELSE "idle")
    /\ UNCHANGED <<stopper, crit, flags, resumeSem, env, pc, history>>

Signal(c) ==
    /\ call[c] \in {"stopSignal", "resumeSignal"}
    /\ resumeSem' = resumeSem + 1
    /\ CallGoes(c, IF call[c] = "stopSignal" THEN "stop" ELSE "idle")
    /\ signalled' = TRUE
    /\ UNCHANGED <<stopper, crit, flags, env, pc, held>>

(* The critical section of OsclReadyQ::PendComplete; it leaves for a       *)
(* stopper that was removed, is queued or has no pending request.          *)
Completable == open /\ busy /\ ~queued /\ status = "pending"

PendComplete(c) ==
    /\ call[c] \in {"stop", "suspend"}
    /\ CallGoes(c, "idle")
    /\ IF Completable
       THEN /\ queued' = TRUE
            /\ status' = call[c]
            /\ signalled' = (signalled /\ (call[c] = "stop" \/ Suspension))
       ELSE UNCHANGED <<queued, status, signalled>>
    /\ UNCHANGED <<open, busy, crit, flags, resumeSem, env, pc, held>>

CallStep(c) == \/ TestStatus(c)
               \/ TestDoSuspend(c)
               \/ TestSuspended(c)
               \/ Signal(c)
               \/ PendComplete(c)
-----------------------------------------------------------------------------
(* The scheduler's thread.                                                 *)

SelfIdle == call[Self] = "idle"

(* BeginScheduling: the stopper is added and activated under the lock.     *)
StartScheduler ==
    /\ pc = "outside"
    /\ SelfIdle
    /\ ~crit
    /\ ~open
    /\ open' = TRUE
    /\ busy' = TRUE
    /\ status' = "pending"
    /\ blocking' = TRUE
    /\ pc' = "loop"
    /\ UNCHANGED <<queued, use, crit, flags, resumeSem, call, history>>

RunStopperStop ==
    /\ pc = "loop"
    /\ ~doStop
    /\ queued
    /\ status = "stop"
    /\ queued' = FALSE
    /\ busy' = FALSE
    /\ doStop' = TRUE
    /\ pc' = "afterRun"
    /\ UNCHANGED <<open, status, crit, doSuspend, suspended, resumeSem, env,
                   call, history>>

RunStopperSuspend ==
    /\ pc = "loop"
    /\ ~doStop
    /\ queued
    /\ status = "suspend"
    /\ queued' = FALSE
    /\ busy' = FALSE
    /\ doSuspend' = TRUE
    /\ pc' = "repend"
    /\ UNCHANGED <<open, status, crit, doStop, suspended, resumeSem, env, call,
                   history>>

(* The stopper's Run activates it again only after it set iDoSuspend.      *)
RunStopperPends ==
    /\ pc = "repend"
    /\ busy' = TRUE
    /\ status' = "pending"
    /\ pc' = "afterRun"
    /\ UNCHANGED <<open, queued, crit, flags, resumeSem, env, call, history>>

RunObject ==
    /\ pc = "loop"
    /\ ~doStop
    /\ ~queued
    /\ pc' = "run"
    /\ UNCHANGED <<stopper, crit, flags, resumeSem, env, call, history>>

RunReturns ==
    /\ pc = "run"
    /\ SelfIdle
    /\ pc' = "afterRun"
    /\ UNCHANGED <<stopper, crit, flags, resumeSem, env, call, history>>

RunLeaves ==
    /\ use.runsLeave
    /\ pc = "run"
    /\ SelfIdle
    /\ pc' = "end"
    /\ UNCHANGED <<stopper, crit, flags, resumeSem, env, call, history>>

NoSuspend ==
    /\ pc = "afterRun"
    /\ ~doSuspend
    /\ pc' = "loop"
    /\ UNCHANGED <<stopper, crit, flags, resumeSem, env, call, history>>

(* Mutant: iDoSuspend is cleared before iSuspended is set.                 *)
Suspend_ClearFirst ==
    \/ /\ pc = "afterRun"
       /\ doSuspend
       /\ doSuspend' = FALSE
       /\ pc' = "suspending"
       /\ UNCHANGED <<stopper, crit, doStop, suspended, resumeSem, env, call,
                      history>>
    \/ /\ pc = "suspending"
       /\ suspended' = TRUE
       /\ pc' = "resumewait"
       /\ UNCHANGED <<stopper, crit, doStop, doSuspend, resumeSem, env, call,
                      history>>

(* iSuspended is set before iDoSuspend is cleared.                         *)
Suspend ==
    \/ /\ pc = "afterRun"
       /\ doSuspend
       /\ suspended' = TRUE
       /\ pc' = "suspending"
       /\ UNCHANGED <<stopper, crit, doStop, doSuspend, resumeSem, env, call,
                      history>>
    \/ /\ pc = "suspending"
       /\ doSuspend' = FALSE
       /\ pc' = "resumewait"
       /\ UNCHANGED <<stopper, crit, doStop, suspended, resumeSem, env, call,
                      history>>

ResumeWait ==
    /\ pc = "resumewait"
    /\ resumeSem > 0
    /\ resumeSem' = resumeSem - 1
    /\ pc' = "resumed"
    /\ held' = {}
    /\ UNCHANGED <<stopper, crit, flags, env, call, signalled>>

(* Mutant: iSuspended stays set.                                           *)
Resumed_KeepsFlag ==
    /\ pc = "resumed"
    /\ pc' = "loop"
    /\ UNCHANGED <<stopper, crit, flags, resumeSem, env, call, history>>

Resumed ==
    /\ pc = "resumed"
    /\ suspended' = FALSE
    /\ pc' = "loop"
    /\ UNCHANGED <<stopper, crit, doStop, doSuspend, resumeSem, env, call,
                   history>>

LoopEnds ==
    /\ pc = "loop"
    /\ doStop
    /\ doStop' = FALSE
    /\ pc' = "end"
    /\ UNCHANGED <<stopper, crit, doSuspend, suspended, resumeSem, env, call,
                   history>>

(* EndScheduling: RemoveFromScheduler of the stopper, under the lock.      *)
EndScheduling ==
    /\ pc = "end"
    /\ ~crit
    /\ crit' = TRUE
    /\ pc' = IF ~busy THEN "endexit"
             ELSE IF status = "pending" THEN "endcancel"
             ELSE "endremove"
    /\ UNCHANGED <<stopper, flags, resumeSem, env, call, history>>

(* The stopper's DoCancel; if it leaves, iStopperCrit stays locked.        *)
EndCancel ==
    /\ pc = "endcancel"
    /\ IF Completable
       THEN queued' = TRUE /\ status' = "cancel" /\ pc' = "endremove"
       ELSE pc' = "outside" /\ UNCHANGED <<queued, status>>
    /\ UNCHANGED <<open, busy, crit, flags, resumeSem, env, call, history>>

EndRemove ==
    /\ pc = "endremove"
    /\ queued
    /\ queued' = FALSE
    /\ busy' = FALSE
    /\ pc' = "endexit"
    /\ UNCHANGED <<open, status, crit, flags, resumeSem, env, call, history>>

(* Mutant: the lock is not released.                                       *)
EndExit_KeepsLock ==
    /\ pc = "endexit"
    /\ open' = FALSE
    /\ pc' = "outside"
    /\ UNCHANGED <<busy, status, queued, crit, flags, resumeSem, env, call,
                   history>>

EndExit ==
    /\ pc = "endexit"
    /\ open' = FALSE
    /\ crit' = FALSE
    /\ pc' = "outside"
    /\ UNCHANGED <<busy, status, queued, flags, resumeSem, env, call, history>>

Loop == \/ RunStopperStop
        \/ RunStopperSuspend
        \/ RunStopperPends
        \/ RunObject
        \/ NoSuspend
        \/ Suspend
        \/ ResumeWait
        \/ Resumed
        \/ LoopEnds
        \/ EndScheduling
        \/ EndCancel
        \/ EndRemove
        \/ EndExit
-----------------------------------------------------------------------------
Next == \/ \E c \in use.stoppers : StopScheduler(c)
        \/ \E c \in use.suspenders : SuspendScheduler(c)
        \/ \E c \in use.resumers : ResumeScheduler(c)
        \/ \E c \in Caller : CallStep(c)
        \/ StartScheduler
        \/ RunReturns
        \/ RunLeaves
        \/ Loop

Spec == Init /\ [][Next]_vars

(* The loop and the calls are straight-line code, and a Run is finite      *)
(* however many calls it makes.                                            *)
Fairness == /\ WF_vars(Loop)
            /\ SF_vars(RunReturns)
            /\ \A c \in Caller : WF_vars(CallStep(c))

FairSpec == Spec /\ Fairness
-----------------------------------------------------------------------------
FlagsType == /\ open \in BOOLEAN /\ busy \in BOOLEAN /\ queued \in BOOLEAN
             /\ crit \in BOOLEAN /\ blocking \in BOOLEAN /\ signalled \in BOOLEAN
             /\ doStop \in BOOLEAN /\ doSuspend \in BOOLEAN
             /\ suspended \in BOOLEAN

TypeOK == /\ FlagsType
          /\ status \in {"none", "pending", "stop", "suspend", "cancel"}
          /\ resumeSem \in 0 .. MaxCredits
          /\ use \in Uses
          /\ pc \in {"outside", "loop", "repend", "run", "afterRun", "suspending",
                     "resumewait", "resumed", "end", "endcancel", "endremove",
                     "endexit"}
          /\ call \in [Caller -> {"idle", "stopStatus", "stopFlag", "stopSuspended",
                                  "stopSignal", "stop", "suspendStatus", "suspend",
                                  "resumeFlag", "resumeSuspended", "resumeSignal"}]
          /\ held \subseteq Caller

(* No AO leaves in a scheduler that other threads stop or suspend: the     *)
(* stopper's DoCancel would meet a request another thread completed.       *)
ControlledApart == use.runsLeave => use.stoppers \cup use.suspenders \subseteq {Self}

(* Between two StartScheduler calls nothing of the previous scheduling is  *)
(* left: the stopper is idle, out of the queue and removed, and no stop or *)
(* suspend flag is set that would end or suspend the next scheduling.      *)
CleanStart == pc = "outside" /\ ControlledApart
                  => ~(\/ open \/ busy \/ queued
                       \/ doStop \/ doSuspend \/ suspended)

(* A ResumeScheduler that is called while the scheduler is about to        *)
(* suspend or suspended, and that no other call overtakes, finds one of    *)
(* the two flags set although it reads them without a lock.                *)
ResumeFindsSuspension ==
    [][\A c \in Caller : call[c] = "resumeSuspended" /\ call'[c] = "idle"
                            => c \notin held]_vars

(* "in case scheduler is in the suspend loop...": a Stop that was accepted *)
(* stops the scheduler, also one that is suspended, if one thread makes    *)
(* all the Stop and Suspend calls.                                         *)
StopsEnd ==
    /\ Cardinality(use.stoppers \cup use.suspenders) = 1
    /\ queued
    /\ status = "stop"
    ~> pc = "outside"

(* StopScheduler and SuspendScheduler may be called from any thread: they  *)
(* do not leave the scheduler's lock locked for ever, unless an AO leaves  *)
(* in a scheduler that other threads stop or suspend.                      *)
LockIsReleased == pc = "outside" /\ ControlledApart => ~crit
-----------------------------------------------------------------------------
(* What the code does not keep: the three formulas below are violated, see *)
(* the README.                                                             *)

(* StopsEnd whichever threads call SuspendScheduler.                       *)
EveryStopEnds == queued /\ status = "stop" ~> pc = "outside"

(* "Suspend scheduling when the current Run is complete": a suspended      *)
(* scheduler goes on only if a Resume or Stop signalled it since a Suspend *)
(* was accepted by the scheduler that was running.                         *)
SuspensionHolds == [][pc = "resumewait" /\ pc' = "resumed" => signalled]_vars

(* LockIsReleased whichever threads stop the scheduler.                    *)
LockIsAlwaysReleased == pc = "outside" => ~crit
=============================================================================
