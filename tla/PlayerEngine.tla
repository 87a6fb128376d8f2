----------------------------- MODULE PlayerEngine -----------------------------
(***************************************************************************)
(* PVPlayerEngine: how the player engine orders, runs, cancels and         *)
(* completes its commands, from AddDataSource to Init and back to Idle     *)
(* through Reset, CancelAllCommands or error handling.  The engine is an   *)
(* AO.  It takes its commands from a priority queue and executes them by   *)
(* asking its source node; the answers come as callbacks.                  *)
(*                                                                         *)
(* The commands come from an application in the engine's thread and, for   *)
(* the synchronous calls, from threads that wait for the engine.           *)
(*                                                                         *)
(* The handlers are operators from the engine's record to a new one.       *)
(***************************************************************************)
EXTENDS Naturals, FiniteSets, Sequences, Functions

CONSTANTS
    NumCalls,    \* bound: how many commands the application issues
    NumOptional, \* optional interfaces of a source node, 7 in the code
    Callers,     \* threads that call GetPVPlayerStateSync
    Uses,        \* how the engine is used
    NoCmd        \* an empty iCurrentCmd or iCmdToCancel

(* The commands of the interface; a Cancel names the command it is about.  *)
API == {"AddDataSource", "Init", "GetState", "RemoveDataSource", "Reset",
        "Cancel", "CancelAll"}
ErrorHandling == {"EHAddDataSource", "EHInit", "EHGeneral"}

(* What a node may answer to Init, besides success: "license" stands for   *)
(* the errors that leave the engine in Idle, "invalid" for content that    *)
(* cannot be played progressively.                                         *)
Faults == {"license", "invalid", "failure"}

(* A use gives the commands the application issues and bounds their        *)
(* number, the alternate formats of the source and the node's error        *)
(* events; it says which requests may fail, whether the format has to be   *)
(* recognised, and which threads make a synchronous call.                  *)
ASSUME PlayerAssumption ==
    /\ NumCalls \in Nat /\ NumOptional \in Nat \ {0}
    /\ \A u \in Uses : /\ u.commands \subseteq API /\ u.calls \in 0 .. NumCalls
                       /\ u.alternates \in Nat /\ u.errors \in Nat
                       /\ u.faults \subseteq Faults /\ u.unknown \in BOOLEAN
                       /\ u.callers \subseteq Callers

Command == [id : Nat, type : API \cup ErrorHandling \cup {"Sync"}, of : Nat \cup Callers]

ASSUME NoCmdAssumption == NoCmd \notin Command

VARIABLES use,     \* chosen once
          engine,
          errors,  \* error events of the source node
          threadSafeQueue,
          iCounter, \* its own ids
          iOOTSyncCommandSem,
          pc,      \* where each caller is
          written  \* the callers whose status was written

vars == <<use, engine, errors, threadSafeQueue, iCounter, iOOTSyncCommandSem, pc, written>>
callers == <<threadSafeQueue, iCounter, iOOTSyncCommandSem, pc, written>>

Init == /\ use \in Uses
        /\ engine = [iState |-> "Idle", iCurrentCmd |-> NoCmd, iCmdToCancel |-> NoCmd,
                     iPendingCmds |-> {}, iCommandId |-> 0, iRollOverState |-> "Idle",
                     iNumberCancelCmdPending |-> 0, iNumPendingNodeCmd |-> 0,
                     iAlternateSrcFormatIndex |-> 0, iDataSource |-> FALSE,
                     iSourceNode |-> "none", \* GetState: "created", else "ready"
                     scheduled |-> FALSE,    \* the AO is to run
                     asked |-> <<>>,         \* of the node, oldest first
                     calls |-> <<>>]         \* id of a command -> how it ended
        /\ errors = 0
        /\ threadSafeQueue = <<>>
        /\ iCounter = 1
        /\ iOOTSyncCommandSem = 0
        /\ pc = [t \in Callers |-> IF t \in use.callers THEN "idle" ELSE "none"]
        /\ written = {}
-----------------------------------------------------------------------------
(* The pending commands are a set, of which the priority queue keeps a     *)
(* greatest one on top: the highest priority, then the least id.  (Other   *)
(* threads' commands have ids of their own: of two equal ones, either.)    *)
Priority(c) == CASE c.type \in {"Sync", "EHGeneral"} -> 0
                 [] c.type \in {"EHAddDataSource", "EHInit"} -> 1
                 [] c.type \in {"Cancel", "CancelAll"} -> 3
                 [] OTHER -> 5

Less(a, b) == \/ Priority(a) > Priority(b)
              \/ Priority(a) = Priority(b) /\ a.id > b.id

Top(e) == CHOOSE c \in e.iPendingCmds : \A d \in e.iPendingCmds : ~Less(c, d)

Pop(e) == [e EXCEPT !.iPendingCmds = @ \ {Top(e)}]

TopIsIn(e, types) == e.iPendingCmds # {} /\ Top(e).type \in types

CheckForPendingErrorHandlingCmd(e) == TopIsIn(e, ErrorHandling)

AddCommandToQueue(e, type, of) ==
    LET cmd == [id |-> e.iCommandId, type |-> type, of |-> of]
    IN [e EXCEPT !.iPendingCmds = @ \cup {cmd}, !.iCommandId = @ + 1,
                 !.iState = IF type \in ErrorHandling THEN "Error" ELSE @,
                 !.scheduled = TRUE]

(* The observer is told of command id; the engine runs again if there is   *)
(* something to do.                                                        *)
Tell(e, id, status) ==
    [e EXCEPT !.calls[id].status = status,
              !.scheduled = @ \/ e.iPendingCmds # {}]

EngineCommandCompleted(e, status) ==
    [Tell(e, e.iCurrentCmd.id, status) EXCEPT !.iCurrentCmd = NoCmd]
-----------------------------------------------------------------------------
(* The requests to the source node and to the recogniser.  Their contexts, *)
(* iCurrentContextList, are those that are not cancels.                    *)
Questions == {"Recognize", "QueryInitIF", "QueryTrackSelIF", "QueryInterfaceOptional",
              "Init", "GetDurationValue", "Reset", "CancelAll"}

Ask(e, type) ==
    LET id == IF e.iCurrentCmd = NoCmd THEN 0 ELSE e.iCurrentCmd.id
    IN [e EXCEPT !.asked = Append(@, [type |-> type, id |-> id])]

Contexts(e) == {i \in DOMAIN e.asked : e.asked[i].type # "CancelAll"}

ResetSourceNode(e) == [Ask(e, "Reset") EXCEPT !.iState = "Resetting"]

RemoveDataSourceSync(e) == [e EXCEPT !.iSourceNode = "none", !.iDataSource = FALSE]

(* found: the registry has a node for the format.                          *)
DoSetupSourceNode(e, found) ==
    IF found THEN Ask([e EXCEPT !.iSourceNode = "ready"], "QueryInitIF") ELSE e

CheckForSourceRollOver(e) == e.iAlternateSrcFormatIndex < use.alternates
-----------------------------------------------------------------------------
(* Commands.  Each works on the engine with the command as its current one.*)
DoAddDataSource(e, found) ==
    LET s == [e EXCEPT !.iDataSource = TRUE, !.iAlternateSrcFormatIndex = 0]
    IN CASE e.iState \notin {"Idle", "Initializing"} ->
                EngineCommandCompleted(e, "invalidstate")
         [] OTHER ->
                IF use.unknown THEN Ask(s, "Recognize")
                ELSE IF found THEN DoSetupSourceNode(s, TRUE)
                ELSE AddCommandToQueue(s, "EHAddDataSource", 0)

DoInit(e) ==
    CASE e.iState = "Initialized" -> EngineCommandCompleted(e, "success")
      [] e.iState # "Initialized" /\ (e.iState # "Idle" \/ e.iSourceNode = "none") ->
            EngineCommandCompleted(e, "invalidstate")
      [] OTHER -> [Ask(e, "Init") EXCEPT !.iRollOverState = "Idle",
                                         !.iState = "Initializing"]

DoRemoveDataSource(e) ==
    IF e.iState = "Idle"
    THEN EngineCommandCompleted(RemoveDataSourceSync(e), "success")
    ELSE EngineCommandCompleted(e, "invalidstate")

DoReset(e) ==
    LET r == [e EXCEPT !.iState = "Resetting", !.iRollOverState = "Idle"]
    IN IF e.iSourceNode = "ready" THEN ResetSourceNode(r)
       ELSE EngineCommandCompleted(
                [RemoveDataSourceSync(r) EXCEPT !.iState = "Idle"], "success")

(* Mutant: the engine does not run again for the commands that wait.       *)
OOTSyncCommandComplete_Last(e) == [e EXCEPT !.iCurrentCmd = NoCmd]

OOTSyncCommandComplete(e) ==
    [e EXCEPT !.iCurrentCmd = NoCmd, !.scheduled = @ \/ e.iPendingCmds # {}]

Process(e, found) ==
    CASE e.iCurrentCmd.type = "Sync" -> OOTSyncCommandComplete(e)
      [] e.iCurrentCmd.type = "GetState" -> EngineCommandCompleted(e, "success")
      [] e.iCurrentCmd.type = "AddDataSource" -> DoAddDataSource(e, found)
      [] e.iCurrentCmd.type = "Init" -> DoInit(e)
      [] e.iCurrentCmd.type = "RemoveDataSource" -> DoRemoveDataSource(e)
      [] e.iCurrentCmd.type = "Reset" -> DoReset(e)

(* Cancelling.  A cancel for each context: each is answered.               *)
DoCancelPendingNodeDatapathCommand(e) ==
    LET n == Cardinality(Contexts(e))
    IN [e EXCEPT !.asked = @ \o [i \in 1..n |-> [type |-> "CancelAll", id |-> 0]],
                 !.iNumberCancelCmdPending = n]

(* Mutant: Init, too, counts as a command that completes at once.          *)
DoCancelCommandBeingProcessed_AtOnce(e) == EngineCommandCompleted(e, "success")

DoCancelCommandBeingProcessed(e) ==
    IF e.iCmdToCancel.type \in {"AddDataSource", "Init", "Cancel"}
    THEN IF Contexts(e) # {} THEN DoCancelPendingNodeDatapathCommand(e)
         ELSE ResetSourceNode(e)
    ELSE EngineCommandCompleted(e, "success")

(* The commands cmds are cancelled.                                        *)
CancelPending(e, cmds) ==
    LET ids == {c.id : c \in cmds}
    IN [e EXCEPT !.iPendingCmds = @ \ cmds,
                 !.calls = [id \in DOMAIN @ |-> IF id \in ids
                                                THEN [@[id] EXCEPT !.status = "cancelled"]
                                                ELSE @[id]],
                 !.scheduled = @ \/ (cmds # {} /\ e.iPendingCmds \ cmds # {})]

DoCancelCommand(e, cmd) ==
    LET meant == {c \in e.iPendingCmds : c.id = cmd.of}
    IN IF meant = {} THEN Tell(e, cmd.id, "argument")
       ELSE Tell(CancelPending(e, meant), cmd.id, "success")

DoCancelAllCommands(e, cmd) ==
    LET older == {c \in e.iPendingCmds : c.id < cmd.id}
        r == [e EXCEPT !.iState = "Resetting", !.iRollOverState = "Idle",
                       !.iCmdToCancel = e.iCurrentCmd]
        current == IF e.iCurrentCmd = NoCmd THEN r
                   ELSE EngineCommandCompleted(r, "cancelled")
        cancelled == [CancelPending(current, older) EXCEPT !.iCurrentCmd = cmd]
    IN CASE e.iCurrentCmd # NoCmd -> DoCancelCommandBeingProcessed(cancelled)
         [] e.iCurrentCmd = NoCmd /\ e.iSourceNode = "ready" ->
                ResetSourceNode(cancelled)
         [] OTHER -> EngineCommandCompleted(
                [RemoveDataSourceSync(cancelled) EXCEPT !.iState = "Idle"], "success")

(* Entered to start the reset and, when the node is reset, to end.         *)
DoErrorHandling(e) ==
    LET done == [RemoveDataSourceSync(e) EXCEPT !.iState = "Idle"]
        told == IF e.iCurrentCmd = NoCmd THEN done
                ELSE EngineCommandCompleted(done, "failure")
    IN IF e.iSourceNode = "ready"
       THEN [ResetSourceNode(e) EXCEPT !.iRollOverState = "Idle"]
       ELSE [Pop(told) EXCEPT !.scheduled = TRUE]
-----------------------------------------------------------------------------
(* Run: the first of its cases that applies.                               *)
RunIsOver == [engine EXCEPT !.scheduled = FALSE]

RunResetting ==
    /\ engine.iState = "Resetting"
    /\ engine' = RunIsOver
    /\ UNCHANGED callers

RunErrorHandling ==
    /\ engine.iState # "Resetting"
    /\ CheckForPendingErrorHandlingCmd(engine)
    /\ engine' = DoErrorHandling(RunIsOver)
    /\ UNCHANGED callers

(* A reset, or a cancellation of what was executed, has ended.             *)
FinishReset(e) ==
    IF e.iCurrentCmd # NoCmd /\ e.iCurrentCmd.type \in {"Reset", "Cancel", "CancelAll"}
    THEN EngineCommandCompleted(RemoveDataSourceSync(e), "success")
    ELSE e

RunCancel(e) ==
    /\ TopIsIn(e, {"Cancel", "CancelAll"})
    /\ LET cmd == Top(e)
           r == Pop(e)
           ongoing == e.iCurrentCmd # NoCmd /\ e.iCurrentCmd.id = cmd.of
       IN engine' = IF cmd.type = "CancelAll" \/ ongoing
                    THEN DoCancelAllCommands(r, cmd)
                    ELSE DoCancelCommand(r, cmd)
    /\ UNCHANGED callers

(* The next alternate format of the source.                                *)
DoSourceNodeRollOver(e, found) ==
    LET next == [e EXCEPT !.iSourceNode = "none", !.iAlternateSrcFormatIndex = @ + 1]
    IN CASE CheckForSourceRollOver(e) /\ found ->
                [DoSetupSourceNode(next, TRUE) EXCEPT !.iRollOverState = "InProgress"]
         [] CheckForSourceRollOver(next) /\ ~found -> [next EXCEPT !.scheduled = TRUE]
         [] OTHER -> [AddCommandToQueue(next, "EHInit", 0) EXCEPT !.iRollOverState = "Idle"]

RunRollOver(e, found) ==
    /\ ~TopIsIn(e, {"Cancel", "CancelAll"})
    /\ e.iRollOverState # "Idle"
    /\ engine' = IF e.iRollOverState = "Start" THEN DoSourceNodeRollOver(e, found) ELSE e
    /\ UNCHANGED callers

RunCommand(e, found) ==
    /\ ~TopIsIn(e, {"Cancel", "CancelAll"})
    /\ e.iRollOverState = "Idle"
    /\ e.iPendingCmds # {} /\ e.iCurrentCmd = NoCmd
    /\ LET cmd == Top(e)
           sync == cmd.type = "Sync"
       IN /\ engine' = Process([Pop(e) EXCEPT !.iCurrentCmd = cmd], found)
          /\ iOOTSyncCommandSem' = iOOTSyncCommandSem + IF sync THEN 1 ELSE 0
          /\ written' = written \cup IF sync THEN {cmd.of} ELSE {}
    /\ UNCHANGED <<threadSafeQueue, iCounter, pc>>

RunNothing(e) ==
    /\ ~TopIsIn(e, {"Cancel", "CancelAll"})
    /\ e.iRollOverState = "Idle"
    /\ e.iPendingCmds = {} \/ e.iCurrentCmd # NoCmd
    /\ engine' = e
    /\ UNCHANGED callers

Found == {TRUE, "failure" \notin use.faults}

Run ==
    /\ engine.scheduled
    /\ \/ RunResetting
       \/ RunErrorHandling
       \/ /\ engine.iState # "Resetting" /\ ~CheckForPendingErrorHandlingCmd(engine)
          /\ LET e == FinishReset(RunIsOver)
             IN \/ RunCancel(e)
                \/ \E found \in Found : RunRollOver(e, found) \/ RunCommand(e, found)
                \/ RunNothing(e)
    /\ UNCHANGED <<use, errors>>
-----------------------------------------------------------------------------
(* The answers of the source node.                                         *)
QueryFailed(e) ==
    LET again == CheckForSourceRollOver(e) /\ e.iRollOverState = "InProgress"
        eh == IF e.iRollOverState = "InProgress" THEN "EHInit" ELSE "EHAddDataSource"
    IN IF again THEN [e EXCEPT !.iRollOverState = "Start", !.scheduled = TRUE]
       ELSE [AddCommandToQueue(e, eh, 0) EXCEPT !.iRollOverState = "Idle"]

HandleSourceNodeQueryInitIF(e, status) ==
    IF status = "success" THEN Ask(e, "QueryTrackSelIF") ELSE QueryFailed(e)

HandleSourceNodeQueryTrackSelIF(e, status) ==
    LET query == [type |-> "QueryInterfaceOptional", id |-> e.iCurrentCmd.id]
    IN IF status = "success"
       THEN [e EXCEPT !.asked = @ \o [i \in 1..NumOptional |-> query],
                      !.iNumPendingNodeCmd = NumOptional]
       ELSE QueryFailed(e)

HandleSourceNodeQueryInterfaceOptional(e) ==
    LET r == [e EXCEPT !.iNumPendingNodeCmd = @ - 1]
    IN CASE r.iNumPendingNodeCmd > 0 -> r
         [] r.iNumPendingNodeCmd = 0 /\ r.iRollOverState = "InProgress" ->
                [Ask(r, "Init") EXCEPT !.iState = "Initializing"]
         [] OTHER -> EngineCommandCompleted(r, "success")

HandleSourceNodeInit(e, status) ==
    LET r == [e EXCEPT !.iRollOverState = "Idle"]
        idle == [r EXCEPT !.iState = "Idle"]
    IN CASE status = "success" -> Ask(r, "GetDurationValue")
         [] status = "known" -> EngineCommandCompleted(
                [r EXCEPT !.iState = "Initialized"], "success")
         [] status = "license" -> EngineCommandCompleted(idle, status)
         [] status = "invalid" ->
                EngineCommandCompleted(AddCommandToQueue(r, "EHInit", 0), status)
         [] OTHER ->
                IF CheckForSourceRollOver(e)
                THEN [idle EXCEPT !.iRollOverState = "Start", !.scheduled = TRUE]
                ELSE AddCommandToQueue(idle, "EHInit", 0)

HandleSourceNodeGetDurationValue(e) ==
    EngineCommandCompleted([e EXCEPT !.iState = "Initialized"], "success")

(* Mutant: the AO is not scheduled to remove the source.                   *)
HandleSourceNodeReset_Unscheduled(e) ==
    [e EXCEPT !.iSourceNode = "created", !.iState = "Idle"]

HandleSourceNodeReset(e) ==
    [e EXCEPT !.iSourceNode = "created", !.iState = "Idle", !.scheduled = TRUE]

(* Mutant: what was to be cancelled is not forgotten.                      *)
CancelCompleted_Keeps(e) ==
    LET r == [e EXCEPT !.iNumberCancelCmdPending = @ - 1]
    IN IF r.iNumberCancelCmdPending > 0 THEN r ELSE ResetSourceNode(r)

(* A cancel was answered; after the last one the node is reset.            *)
CancelCompleted(e) ==
    LET r == [e EXCEPT !.iNumberCancelCmdPending = @ - 1]
    IN IF r.iNumberCancelCmdPending > 0 THEN r
       ELSE ResetSourceNode([r EXCEPT !.iCmdToCancel = NoCmd])

(* What is answered to a request, given what was asked after it.           *)
Answers(type, later) ==
    (CASE type = "Init" -> {"success", "known"} \cup use.faults
       [] type \in {"Recognize", "QueryInitIF", "QueryTrackSelIF"} ->
            {"success"} \cup (use.faults \cap {"failure"})
       [] OTHER -> {"success"})
    \cup {status \in {"cancelled"} : /\ type # "CancelAll"
                                      /\ \E i \in DOMAIN later : later[i].type = "CancelAll"}

RecognizeCompleted(e, found) ==
    IF found THEN DoSetupSourceNode(e, TRUE)
    ELSE AddCommandToQueue(e, "EHAddDataSource", 0)

Handle(e, type, status) ==
    CASE type = "Recognize" -> RecognizeCompleted(e, status = "success")
      [] type = "QueryInitIF" -> HandleSourceNodeQueryInitIF(e, status)
      [] type = "QueryTrackSelIF" -> HandleSourceNodeQueryTrackSelIF(e, status)
      [] type = "QueryInterfaceOptional" -> HandleSourceNodeQueryInterfaceOptional(e)
      [] type = "Init" -> HandleSourceNodeInit(e, status)
      [] type = "GetDurationValue" -> HandleSourceNodeGetDurationValue(e)
      [] type = "Reset" -> HandleSourceNodeReset(e)

(* The node answers its oldest request.  What is cancelled is ignored.     *)
NodeCommandCompleted ==
    /\ engine.asked # <<>>
    /\ LET r == Head(engine.asked)
           e == [engine EXCEPT !.asked = Tail(@)]
       IN \E status \in Answers(r.type, e.asked) :
            /\ engine' =
                 CASE r.type = "CancelAll" -> CancelCompleted(e)
                   [] r.type # "CancelAll"
                        /\ \/ e.iCmdToCancel # NoCmd
                           \/ CheckForPendingErrorHandlingCmd(e) /\ status = "cancelled" -> e
                   [] OTHER -> Handle(e, r.type, status)
    /\ UNCHANGED <<use, errors, callers>>

(* Mutant: an error event counts while a request is answered.              *)
HandleSourceNodeErrorEvent_Always ==
    /\ errors < use.errors /\ errors' = errors + 1
    /\ engine.iSourceNode = "ready" /\ engine.iState # "Resetting"
    /\ ~CheckForPendingErrorHandlingCmd(engine)
    /\ engine' = AddCommandToQueue(engine, "EHGeneral", 0)
    /\ UNCHANGED <<use, callers>>

(* An error event of the node; it is ignored while a request is answered.  *)
HandleSourceNodeErrorEvent ==
    /\ errors < use.errors /\ errors' = errors + 1
    /\ engine.iSourceNode = "ready" /\ engine.iState # "Resetting"
    /\ Contexts(engine) = {}
    /\ ~CheckForPendingErrorHandlingCmd(engine)
    /\ engine' = AddCommandToQueue(engine, "EHGeneral", 0)
    /\ UNCHANGED <<use, callers>>
-----------------------------------------------------------------------------
(* The application, in the engine's thread.  It adds a source when the     *)
(* engine has none.                                                        *)
Asked(e, type) == \E c \in e.iPendingCmds : c.type = type

Issue(type, of) ==
    /\ Cardinality(DOMAIN engine.calls) < use.calls
    /\ type = "AddDataSource" =>
        ~engine.iDataSource /\ ~Asked(engine, type) /\ engine.iCurrentCmd = NoCmd
    /\ engine' = [AddCommandToQueue(engine, type, of) EXCEPT
                    !.calls = [id \in DOMAIN @ \cup {engine.iCommandId} |->
                                    IF id = engine.iCommandId
                                    THEN [type |-> type, status |-> "asked"] ELSE @[id]]]
    /\ UNCHANGED <<use, errors, callers>>

Application ==
    \/ \E type \in use.commands \ {"Cancel"} : Issue(type, 0)
    \/ \E id \in DOMAIN engine.calls : "Cancel" \in use.commands /\ Issue("Cancel", id)

(* A synchronous call of another thread, through the thread-safe queue.    *)
DoOOTSyncCommand(t) ==
    /\ pc[t] = "idle"
    /\ pc' = [pc EXCEPT ![t] = "waiting"]
    /\ iCounter' = iCounter + 1
    /\ threadSafeQueue' = Append(threadSafeQueue, [id |-> iCounter', type |-> "Sync", of |-> t])
    /\ UNCHANGED <<use, engine, errors, iOOTSyncCommandSem, written>>

ThreadSafeQueueDataAvailable ==
    /\ threadSafeQueue # <<>>
    /\ engine' = [engine EXCEPT !.scheduled = TRUE,
                                !.iPendingCmds = @ \cup Range(threadSafeQueue)]
    /\ threadSafeQueue' = <<>>
    /\ UNCHANGED <<use, errors, iCounter, iOOTSyncCommandSem, pc, written>>

SyncReturns(t) ==
    /\ pc[t] = "waiting" /\ iOOTSyncCommandSem > 0
    /\ iOOTSyncCommandSem' = iOOTSyncCommandSem - 1
    /\ pc' = [pc EXCEPT ![t] = "returned"]
    /\ UNCHANGED <<use, engine, errors, threadSafeQueue, iCounter, written>>

Next == \/ Run \/ NodeCommandCompleted \/ HandleSourceNodeErrorEvent
        \/ Application \/ ThreadSafeQueueDataAvailable
        \/ \E t \in Callers : DoOOTSyncCommand(t) \/ SyncReturns(t)

Spec == Init /\ [][Next]_vars

(* The scheduler runs a ready AO, the node answers, a signalled thread     *)
(* goes on.                                                                *)
FairSpec == /\ Spec
            /\ WF_vars(Run) /\ WF_vars(NodeCommandCompleted)
            /\ WF_vars(ThreadSafeQueueDataAvailable)
            /\ \A t \in Callers : WF_vars(SyncReturns(t))
-----------------------------------------------------------------------------
Statuses == {"asked", "success", "cancelled", "argument", "invalidstate"} \cup Faults

IsEngine(e) ==
    /\ DOMAIN e = {"iState", "iCurrentCmd", "iCmdToCancel", "iPendingCmds", "iCommandId",
                   "iRollOverState", "iNumberCancelCmdPending", "iNumPendingNodeCmd",
                   "iAlternateSrcFormatIndex", "iDataSource", "iSourceNode", "scheduled",
                   "asked", "calls"}
    /\ e.iState \in {"Idle", "Initializing", "Initialized", "Resetting", "Error"}
    /\ {e.iCurrentCmd, e.iCmdToCancel} \subseteq Command \cup {NoCmd}
    /\ e.iPendingCmds \subseteq Command
    /\ e.iRollOverState \in {"Idle", "Start", "InProgress"}
    /\ {e.iCommandId, e.iNumberCancelCmdPending, e.iNumPendingNodeCmd,
        e.iAlternateSrcFormatIndex} \subseteq Nat
    /\ e.iDataSource \in BOOLEAN /\ e.scheduled \in BOOLEAN
    /\ e.iSourceNode \in {"none", "created", "ready"}
    /\ e.asked \in Seq([type : Questions, id : Nat])
    /\ DOMAIN e.calls \subseteq Nat
    /\ e.calls \in [DOMAIN e.calls -> [type : API, status : Statuses]]

TypeOK ==
    /\ use \in Uses /\ IsEngine(engine) /\ errors \in 0 .. use.errors
    /\ threadSafeQueue \in Seq([id : Nat, type : {"Sync"}, of : use.callers])
    /\ iCounter \in Nat /\ iOOTSyncCommandSem \in Nat
    /\ pc \in [Callers -> {"none", "idle", "waiting", "returned"}]
    /\ written \subseteq use.callers

(* Every answer of the node finds the engine as its handler asserts it to  *)
(* be: the command it was asked for is the current one and the engine's    *)
(* state is that of the request, unless the command is being cancelled.    *)
(* Nothing is asked of a node that is not there, and the error handling    *)
(* finds no request of the node unanswered.                                *)
AnswersFindTheirCommand ==
    /\ \A i \in DOMAIN engine.asked :
        LET r == engine.asked[i]
            current == engine.iCurrentCmd # NoCmd /\ engine.iCurrentCmd.id = r.id
        IN CASE r.type = "Reset" ->
                  /\ engine.iState = "Resetting" /\ engine.iSourceNode = "ready"
                  /\ engine.iCmdToCancel = NoCmd
             [] r.type = "CancelAll" -> engine.iCmdToCancel # NoCmd
             [] r.type \in {"Init", "GetDurationValue"} ->
                  engine.iCmdToCancel # NoCmd \/ (current /\ engine.iState = "Initializing")
             [] OTHER -> engine.iCmdToCancel # NoCmd \/ (current /\ engine.iState = "Idle")
    /\ engine.iState = "Error" /\ CheckForPendingErrorHandlingCmd(engine)
        => Contexts(engine) = {}

(* When the application is told that its Reset or its CancelAllCommands    *)
(* has succeeded, it has been told of every command it issued before; the  *)
(* engine is idle, has no source and waits for no answer.                  *)
ResetIsFinal ==
    [][\A id \in DOMAIN engine.calls :
        /\ engine.calls[id].type \in {"Reset", "CancelAll"}
        /\ engine.calls[id].status = "asked" /\ engine'.calls[id].status = "success"
        => /\ engine'.iState = "Idle" /\ ~engine'.iDataSource
           /\ engine'.iSourceNode = "none" /\ engine'.asked = <<>>
           /\ \A older \in DOMAIN engine'.calls :
                older < id => engine'.calls[older].status # "asked"]_vars

(* The application is told of every command, however its source behaves    *)
(* and whatever is cancelled, reset or in error meanwhile.  (It issues      *)
(* finitely many: that none waits any more comes about again and again.)   *)
CommandsComplete ==
    []<>(\A id \in DOMAIN engine.calls : engine.calls[id].status # "asked")

(* After an error the engine goes back to idle, without its source.        *)
ErrorsEnd ==
    engine.iState = "Error" ~> engine.iState = "Idle" /\ engine.iSourceNode = "none"

(* A thread that waits for the engine goes on.                             *)
SyncCallsReturn == \A t \in Callers : pc[t] = "waiting" ~> pc[t] = "returned"
-----------------------------------------------------------------------------
(* What the code does not keep.                                            *)

(* "if an error handling cmd had been queued previously it must be in top" *)
(* (CheckForPendingErrorHandlingCmd).  A synchronous command is above the  *)
(* error handling of AddDataSource and of Init, which complete nothing     *)
(* before it: the engine and the caller then wait for each other.          *)
ErrorHandlingFirst ==
    (\E type \in ErrorHandling : Asked(engine, type))
        => CheckForPendingErrorHandlingCmd(engine)

(* The callers share iOOTSyncCommandSem: one may return with the status    *)
(* variable that the other's command is going to write.                    *)
StatusIsWritten == \A t \in Callers : pc[t] = "returned" => t \in written
================================================================================
