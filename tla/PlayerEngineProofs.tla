-------------------------- MODULE PlayerEngineProofs --------------------------
(***************************************************************************)
(* Theorems about the player engine: that every answer of the node finds   *)
(* the engine as its handler expects it, and that a reset is final, for    *)
(* every number of commands, of optional interfaces and of threads.        *)
(***************************************************************************)
EXTENDS PlayerEngine, FiniteSetTheorems, SequenceTheorems, WellFoundedInduction, TLAPS

Cancels == {"Cancel", "CancelAll"}
Resets == Cancels \cup {"Reset"}
Adds == {"AddDataSource", "Init"}

(* The uses the theorems are about: no cancels with alternate formats or a *)
(* format to be recognised; no error events with alternate formats while   *)
(* other threads wait.  What happens otherwise is in the README.           *)
Separate == /\ use.alternates > 0 \/ use.unknown => use.commands \cap Cancels = {}
            /\ use.alternates > 0 /\ use.errors > 0 => use.callers = {}

Failing(e) == \E c \in e.iPendingCmds : c.type \in ErrorHandling
Executes(e, types) == e.iCurrentCmd # NoCmd /\ e.iCurrentCmd.type \in types
Held(e) == (e.iPendingCmds \cup {e.iCurrentCmd}) \ {NoCmd}

(* The commands the engine holds are those the application waits for; the  *)
(* one it executes was issued before all that wait.                        *)
CallsHeld(e) ==
    \A id \in DOMAIN e.calls :
        /\ id < e.iCommandId
        /\ e.calls[id].status = "asked"
            => \E c \in Held(e) : c.id = id /\ c.type = e.calls[id].type

HeldIssued(e) ==
    /\ \A c \in Held(e) :
        /\ c.type \in API => c.id \in DOMAIN e.calls /\ e.calls[c.id].type = c.type
        /\ c.type # "Sync" => c.id < e.iCommandId
    /\ \A c, d \in e.iPendingCmds :
        c.type # "Sync" /\ d.type # "Sync" /\ c.id = d.id => c = d

CurrentIsOldest(e) ==
    e.iCurrentCmd # NoCmd /\ e.iCurrentCmd.type # "Sync"
        => \A c \in e.iPendingCmds : c.type # "Sync" => c.id > e.iCurrentCmd.id

Filed(e) == CallsHeld(e) /\ HeldIssued(e) /\ CurrentIsOldest(e)

(* What the use allows.  A source is wanted while the engine has none and  *)
(* executes nothing.                                                       *)
HeldFit(e) ==
    \A c \in Held(e) : /\ c.type \in API => c.type \in use.commands
                       /\ c.type = "Sync" => c.of \in use.callers
                       /\ c.type = "EHGeneral" => use.errors > 0

SourceWanted(e) ==
    /\ Asked(e, "AddDataSource") => ~e.iDataSource
    /\ \A c, d \in e.iPendingCmds : c.type = "AddDataSource" /\ d.type = "AddDataSource" => c = d

CommandsFit(e) == /\ HeldFit(e) /\ SourceWanted(e)
                  /\ Asked(e, "AddDataSource") => e.iCurrentCmd = NoCmd

Fits(e) == /\ CommandsFit(e)
           /\ e.iRollOverState # "Idle" => use.alternates > 0 /\ e.iDataSource
           /\ e.iSourceNode # "none" => e.iDataSource

(* The engine waits for no answer.  A current command is one whose reset   *)
(* has ended, or one that failed or waits for the next alternate format.   *)
Quiet(e) ==
    /\ e.asked = <<>> /\ e.iCmdToCancel = NoCmd
    /\ e.iState \in {"Idle", "Initialized", "Error"}
    /\ e.iState = "Error" => Failing(e)
    /\ e.iRollOverState # "InProgress"
    /\ e.iSourceNode = "created" => Failing(e) \/ Executes(e, Resets)
    /\ e.iCurrentCmd # NoCmd =>
        \/ /\ Executes(e, Resets) /\ e.iSourceNode = "created" /\ e.iState = "Idle"
           /\ ~Failing(e) /\ e.iRollOverState = "Idle"
        \/ Executes(e, Adds) /\ (Failing(e) \/ e.iRollOverState = "Start")
    /\ e.iRollOverState = "Start" =>
        /\ Executes(e, {"Init"})
        /\ Failing(e) => use.errors > 0 /\ e.iSourceNode = "ready"
        /\ ~Failing(e) => e.iState = "Idle"

(* AddDataSource or Init waits for answers to requests of one kind.        *)
Initial == {"Init", "GetDurationValue"}

Asks(e, r) ==
    /\ r.type \in Questions \ {"Reset", "CancelAll"} /\ r.id = e.iCurrentCmd.id
    /\ e.iState = IF r.type \in Initial THEN "Initializing" ELSE "Idle"
    /\ r.type \in Initial => Executes(e, {"Init"})
    /\ r.type = "GetDurationValue" => e.iRollOverState = "Idle"
    /\ r.type = "Recognize" => Executes(e, {"AddDataSource"}) /\ use.unknown
    /\ r.type # "Recognize" => e.iSourceNode = "ready"
    /\ Len(e.asked) = IF r.type = "QueryInterfaceOptional" THEN e.iNumPendingNodeCmd ELSE 1

Asking(e) ==
    /\ Executes(e, Adds) /\ ~Failing(e) /\ e.iCmdToCancel = NoCmd
    /\ e.iDataSource /\ e.iRollOverState # "Start"
    /\ e.iRollOverState = "InProgress" => Executes(e, {"Init"})
    /\ e.asked # <<>> /\ Asks(e, e.asked[1])
    /\ \A i \in 1 .. Len(e.asked) : e.asked[i] = e.asked[1]

(* A cancel waits for the answers to what it cancels and then for those to *)
(* its own requests to the node.                                           *)
Cancelling(e) ==
    /\ Executes(e, Cancels) /\ ~Failing(e) /\ e.iCmdToCancel # NoCmd
    /\ e.iState = "Resetting" /\ e.iSourceNode = "ready" /\ e.iRollOverState = "Idle"
    /\ e.iNumberCancelCmdPending \in 1 .. Len(e.asked)
    /\ \A i \in 1 .. Len(e.asked) :
        /\ e.asked[i].type # "Reset"
        /\ e.asked[i].type = "CancelAll" <=> i > Len(e.asked) - e.iNumberCancelCmdPending

(* The node is being reset, for a command or to handle an error.           *)
Resetting(e) ==
    /\ e.iCmdToCancel = NoCmd
    /\ e.iState = "Resetting" /\ e.iSourceNode = "ready" /\ e.iRollOverState = "Idle"
    /\ Len(e.asked) = 1 /\ e.asked[1].type = "Reset"
    /\ IF Failing(e) THEN e.iCurrentCmd = NoCmd \/ Executes(e, Adds) ELSE Executes(e, Resets)

Phased(e) == Quiet(e) \/ Asking(e) \/ Cancelling(e) \/ Resetting(e)

CallersFit == \A t \in Callers : pc[t] = "idle" => t \in use.callers

Good(e) == Filed(e) /\ Fits(e) /\ Phased(e)

IInv == Separate /\ TypeOK /\ CallersFit /\ Good(engine)
-----------------------------------------------------------------------------
(* The top of the queue.                                                   *)

LEMMA Least ==
    ASSUME NEW T, T \subseteq Nat, T # {}
    PROVE  \E m \in T : \A i \in T : m <= i
<1> DEFINE R == OpToRel(<, Nat)
<1>1. IsWellFoundedOn(R, Nat)
    BY NatLessThanWellFounded, Zenon DEF R
<1>2. \A i, j \in Nat : i < j => <<i, j>> \in R
    BY DEF OpToRel
<1> HIDE DEF R
<1>3. T \subseteq Nat /\ T # {}
    OBVIOUS
<1>4. PICK m \in T : \A i \in T : ~(<<i, m>> \in R)
    BY <1>1, <1>3, WFMin
<1>5. ASSUME NEW i \in T
      PROVE  m <= i
    <2>1. m \in Nat /\ i \in Nat
        BY <1>3
    <2>2. ~(i < m)
        BY <1>2, <1>4, <2>1
    <2> QED
        BY <2>1, <2>2
<1> QED
    BY <1>5

LEMMA PriorityTyped ==
    ASSUME NEW c \in Command
    PROVE  /\ Priority(c) \in Nat /\ c.id \in Nat
           /\ Priority(c) = 0 <=> c.type \in {"Sync", "EHGeneral"}
           /\ Priority(c) = 1 <=> c.type \in {"EHAddDataSource", "EHInit"}
           /\ Priority(c) = 3 <=> c.type \in Cancels
           /\ Priority(c) \in {0, 1, 3, 5}
BY DEF Priority, Command, Cancels

LEMMA TopIs ==
    ASSUME NEW e, IsEngine(e), e.iPendingCmds # {}
    PROVE  /\ Top(e) \in e.iPendingCmds /\ Top(e) \in Command
           /\ \A d \in e.iPendingCmds : ~Less(Top(e), d)
<1> DEFINE q == e.iPendingCmds
           T == {Priority(c) : c \in q}
<1>1. q \subseteq Command /\ q # {}
    BY DEF IsEngine
<1> HIDE DEF q
<1>2. T \subseteq Nat /\ T # {}
    BY <1>1, PriorityTyped
<1>3. PICK p \in T : \A i \in T : p <= i
    BY <1>2, Least
<1> DEFINE U == {c.id : c \in {d \in q : Priority(d) = p}}
<1>4. U \subseteq Nat /\ U # {}
    BY <1>1, PriorityTyped
<1>5. PICK k \in U : \A i \in U : k <= i
    <2> HIDE DEF U
    <2> QED
        BY <1>4, Least
<1>6. PICK c \in q : Priority(c) = p /\ c.id = k
    BY <1>5
<1>7. ASSUME NEW d \in q
      PROVE  ~Less(c, d)
    <2>1. Priority(d) \in T /\ Priority(d) \in Nat /\ p \in Nat /\ p <= Priority(d)
        BY <1>1, <1>2, <1>3, PriorityTyped
    <2>2. Priority(d) = p => d.id \in U
        OBVIOUS
    <2>3. Priority(d) = p => k <= d.id /\ k \in Nat /\ d.id \in Nat
        BY <1>4, <1>5, <2>2
    <2> HIDE DEF T, U
    <2> QED
        BY <1>6, <2>1, <2>3 DEF Less
<1>8. \E x \in q : \A d \in q : ~Less(x, d)
    BY <1>7
<1>9. Top(e) = CHOOSE x \in q : \A d \in q : ~Less(x, d)
    BY DEF Top, q
<1>10. Top(e) \in q /\ \A d \in q : ~Less(Top(e), d)
    <2> DEFINE P(x) == \A d \in q : ~Less(x, d)
    <2> HIDE DEF P, T, U
    <2>1. Top(e) = CHOOSE x \in q : P(x)
        BY <1>9 DEF P
    <2>2. \E x \in q : P(x)
        BY <1>8 DEF P
    <2>3. Top(e) \in q /\ P(Top(e))
        BY <2>1, <2>2
    <2> QED
        BY <2>3 DEF P
<1> QED
    BY <1>1, <1>10 DEF q

(* What is not above the top.                                              *)
LEMMA TopFirst ==
    ASSUME NEW e, IsEngine(e), e.iPendingCmds # {}
    PROVE  /\ Top(e) \in e.iPendingCmds /\ Top(e) \in Command
           /\ Top(e).type \notin ErrorHandling \cup {"Sync"} =>
                /\ \A d \in e.iPendingCmds : d.type \notin ErrorHandling \cup {"Sync"}
                /\ ~Failing(e)
           /\ Top(e).type \notin ErrorHandling \cup {"Sync"} \cup Cancels =>
                \A d \in e.iPendingCmds : Top(e).id <= d.id
           /\ Failing(e) /\ (\A d \in e.iPendingCmds : d.type # "Sync")
                => Top(e).type \in ErrorHandling
<1> DEFINE t == Top(e)
<1>1. t \in e.iPendingCmds /\ t \in Command /\ \A d \in e.iPendingCmds : ~Less(t, d)
    BY TopIs
<1> HIDE DEF t
<1>2. ASSUME NEW d \in e.iPendingCmds
      PROVE  /\ d \in Command /\ Priority(t) <= Priority(d)
             /\ Priority(t) = Priority(d) => t.id <= d.id
    <2>1. d \in Command
        BY DEF IsEngine
    <2> QED
        BY <1>1, <2>1, PriorityTyped DEF Less
<1>3. ASSUME t.type \notin ErrorHandling \cup {"Sync"}, NEW d \in e.iPendingCmds
      PROVE  /\ d.type \notin ErrorHandling \cup {"Sync"}
             /\ t.type \notin Cancels => t.id <= d.id
    <2>1. Priority(t) \in {3, 5} /\ (t.type \notin Cancels => Priority(t) = 5)
        BY <1>1, <1>3, PriorityTyped DEF ErrorHandling
    <2>2. Priority(d) \in {3, 5} /\ (t.type \notin Cancels => Priority(d) = 5)
        BY <1>2, <2>1, PriorityTyped
    <2> QED
        BY <1>2, <2>1, <2>2, PriorityTyped DEF ErrorHandling
<1>4. ASSUME NEW d \in e.iPendingCmds, d.type \in ErrorHandling, t.type # "Sync"
      PROVE  t.type \in ErrorHandling
    <2>1. Priority(d) \in {0, 1}
        BY <1>2, <1>4, PriorityTyped DEF ErrorHandling
    <2>2. Priority(t) \in {0, 1}
        BY <1>1, <1>2, <2>1, PriorityTyped
    <2> QED
        BY <1>1, <1>4, <2>2, PriorityTyped DEF ErrorHandling
<1> QED
    BY <1>1, <1>3, <1>4 DEF Failing, t
-----------------------------------------------------------------------------
(* The steps the handlers are made of: what they leave as it was, and how  *)
(* they keep the commands filed.                                           *)

SameCommands(e, r) == /\ r.iCurrentCmd = e.iCurrentCmd /\ r.iPendingCmds = e.iPendingCmds
                      /\ r.iCommandId = e.iCommandId /\ r.calls = e.calls

SameElse(e, r) ==
    /\ r.iState = e.iState /\ r.iRollOverState = e.iRollOverState
    /\ r.iCmdToCancel = e.iCmdToCancel /\ r.iSourceNode = e.iSourceNode
    /\ r.iDataSource = e.iDataSource /\ r.iNumPendingNodeCmd = e.iNumPendingNodeCmd
    /\ r.iNumberCancelCmdPending = e.iNumberCancelCmdPending

SamePlace(e, r) == SameElse(e, r) /\ r.asked = e.asked

(* The application is told st of command x, and of no other.               *)
Told(e, r, x, st) ==
    /\ DOMAIN r.calls = DOMAIN e.calls
    /\ \A id \in DOMAIN e.calls :
        /\ r.calls[id].type = e.calls[id].type
        /\ r.calls[id].status = IF id = x THEN st ELSE e.calls[id].status

LEMMA SameFiled ==
    ASSUME NEW e, NEW r, SameCommands(e, r), Filed(e)
    PROVE  /\ Filed(r) /\ (Failing(r) <=> Failing(e))
           /\ \A types : Executes(r, types) <=> Executes(e, types)
           /\ \A type : Asked(r, type) <=> Asked(e, type)
           /\ HeldFit(e) => HeldFit(r)
           /\ (r.iDataSource => e.iDataSource) /\ SourceWanted(e) => SourceWanted(r)
           /\ (r.iDataSource => e.iDataSource) /\ CommandsFit(e) => CommandsFit(r)
           /\ ~Asked(r, "AddDataSource") => SourceWanted(r)
BY DEF SameCommands, Filed, CallsHeld, HeldIssued, CurrentIsOldest, Held, Failing, Executes,
       CommandsFit, HeldFit, SourceWanted, Asked

LEMMA BooleanOr == \A a, b : (a \/ b) \in BOOLEAN
OBVIOUS

LEMMA CallTyped ==
    ASSUME NEW e, IsEngine(e), NEW id \in DOMAIN e.calls, NEW st \in Statuses
    PROVE  LET c == [e.calls[id] EXCEPT !.status = st]
           IN  /\ e.calls[id] \in [type : API, status : Statuses]
               /\ c \in [type : API, status : Statuses]
               /\ c.type = e.calls[id].type /\ c.status = st
<1>1. e.calls[id] \in [type : API, status : Statuses]
    BY DEF IsEngine
<1> QED
    BY <1>1

LEMMA TellIs ==
    ASSUME NEW e, IsEngine(e), NEW id \in DOMAIN e.calls, NEW st \in Statuses
    PROVE  LET r == Tell(e, id, st)
           IN  /\ IsEngine(r) /\ SamePlace(e, r) /\ Told(e, r, id, st)
               /\ r.iCurrentCmd = e.iCurrentCmd /\ r.iPendingCmds = e.iPendingCmds
               /\ r.iCommandId = e.iCommandId
<1> DEFINE c == [e.calls EXCEPT ![id].status = st]
           b == e.scheduled \/ e.iPendingCmds # {}
           r == [e EXCEPT !.calls = c, !.scheduled = b]
<1>1. Tell(e, id, st) = r
    BY DEF Tell, IsEngine
<1>2. DOMAIN c = DOMAIN e.calls
      /\ \A x \in DOMAIN e.calls :
            c[x] = IF x = id THEN [e.calls[x] EXCEPT !.status = st] ELSE e.calls[x]
    BY DEF IsEngine
<1>3. \A x \in DOMAIN e.calls :
        /\ c[x] \in [type : API, status : Statuses] /\ c[x].type = e.calls[x].type
        /\ c[x].status = IF x = id THEN st ELSE e.calls[x].status
    <2> SUFFICES ASSUME NEW x \in DOMAIN e.calls
                 PROVE  /\ c[x] \in [type : API, status : Statuses]
                        /\ c[x].type = e.calls[x].type
                        /\ c[x].status = IF x = id THEN st ELSE e.calls[x].status
        OBVIOUS
    <2> DEFINE u == [e.calls[x] EXCEPT !.status = st]
    <2>1. /\ e.calls[x] \in [type : API, status : Statuses]
          /\ u \in [type : API, status : Statuses]
          /\ u.type = e.calls[x].type /\ u.status = st
        BY CallTyped
    <2>2. c[x] = IF x = id THEN u ELSE e.calls[x]
        BY <1>2
    <2> HIDE DEF c, u
    <2> QED
        BY <2>1, <2>2
<1>4. c \in [DOMAIN e.calls -> [type : API, status : Statuses]]
    BY <1>2, <1>3 DEF IsEngine
<1>5. b \in BOOLEAN
    BY BooleanOr
<1> HIDE DEF c, b
<1>6. IsEngine(r)
    BY <1>2, <1>4, <1>5 DEF IsEngine
<1>7. SamePlace(e, r) /\ Told(e, r, id, st) /\ r.iCurrentCmd = e.iCurrentCmd
      /\ r.iPendingCmds = e.iPendingCmds /\ r.iCommandId = e.iCommandId
    BY <1>2, <1>3 DEF IsEngine, SamePlace, SameElse, Told
<1> QED
    BY <1>1, <1>6, <1>7

(* The current command is completed.                                       *)
LEMMA EndedIs ==
    ASSUME NEW e, IsEngine(e), e.iCurrentCmd.id \in DOMAIN e.calls, NEW st \in Statuses
    PROVE  LET r == EngineCommandCompleted(e, st)
           IN  /\ IsEngine(r) /\ SamePlace(e, r) /\ Told(e, r, e.iCurrentCmd.id, st)
               /\ r.iCurrentCmd = NoCmd /\ r.iPendingCmds = e.iPendingCmds
               /\ r.iCommandId = e.iCommandId
<1> DEFINE id == e.iCurrentCmd.id
           s == Tell(e, id, st)
           r == [s EXCEPT !.iCurrentCmd = NoCmd]
<1>1. EngineCommandCompleted(e, st) = r
    BY DEF EngineCommandCompleted
<1>2. /\ IsEngine(s) /\ SamePlace(e, s) /\ Told(e, s, id, st)
      /\ s.iPendingCmds = e.iPendingCmds /\ s.iCommandId = e.iCommandId
    BY TellIs
<1> HIDE DEF s
<1>3. IsEngine(r)
    BY <1>2 DEF IsEngine
<1>4. /\ SamePlace(s, r) /\ r.calls = s.calls /\ r.iCurrentCmd = NoCmd
      /\ r.iPendingCmds = s.iPendingCmds /\ r.iCommandId = s.iCommandId
    BY <1>2 DEF SamePlace, SameElse, IsEngine
<1> HIDE DEF r
<1>5. SamePlace(e, r)
    BY <1>2, <1>4 DEF SamePlace, SameElse
<1>6. Told(e, r, id, st)
    BY <1>2, <1>4 DEF Told
<1> QED
    BY <1>1, <1>2, <1>3, <1>4, <1>5, <1>6 DEF r

LEMMA CompletedIs ==
    ASSUME NEW e, IsEngine(e), Filed(e), Executes(e, API), NEW st \in Statuses \ {"asked"}
    PROVE  LET r == EngineCommandCompleted(e, st)
           IN  /\ IsEngine(r) /\ SamePlace(e, r) /\ Told(e, r, e.iCurrentCmd.id, st)
               /\ r.iCurrentCmd = NoCmd /\ r.iPendingCmds = e.iPendingCmds
               /\ r.iCommandId = e.iCommandId
               /\ Filed(r) /\ (HeldFit(e) /\ SourceWanted(e) => CommandsFit(r))
<1> DEFINE id == e.iCurrentCmd.id
           r == EngineCommandCompleted(e, st)
<1>1. e.iCurrentCmd \in Held(e) /\ id \in DOMAIN e.calls
    BY DEF Filed, HeldIssued, Held, Executes
<1>2. /\ IsEngine(r) /\ SamePlace(e, r) /\ Told(e, r, id, st) /\ r.iCurrentCmd = NoCmd
      /\ r.iPendingCmds = e.iPendingCmds /\ r.iCommandId = e.iCommandId
    BY <1>1, EndedIs
<1> HIDE DEF r
<1>3. Held(r) = Held(e) \ {e.iCurrentCmd} \/ Held(r) = Held(e)
    BY <1>2 DEF Held
<1>4. CallsHeld(r)
    <2> SUFFICES ASSUME NEW x \in DOMAIN r.calls
                 PROVE  /\ x < r.iCommandId
                        /\ r.calls[x].status = "asked"
                            => \E c \in Held(r) : c.id = x /\ c.type = r.calls[x].type
        BY DEF CallsHeld
    <2>1. x \in DOMAIN e.calls /\ x < e.iCommandId /\ r.calls[x].type = e.calls[x].type
        BY <1>2 DEF Told, Filed, CallsHeld
    <2>2. ASSUME r.calls[x].status = "asked"
          PROVE  \E c \in Held(r) : c.id = x /\ c.type = r.calls[x].type
        <3>1. x # id /\ e.calls[x].status = "asked"
            BY <1>2, <2>1, <2>2 DEF Told
        <3>2. PICK c \in Held(e) : c.id = x /\ c.type = e.calls[x].type
            BY <2>1, <3>1 DEF Filed, CallsHeld
        <3> QED
            BY <1>3, <2>1, <3>1, <3>2
    <2> QED
        BY <1>2, <2>1, <2>2
<1>5. Held(r) \subseteq Held(e)
    BY <1>3
<1>6. HeldIssued(r)
    BY <1>2, <1>5 DEF HeldIssued, Filed, Told
<1>7. CurrentIsOldest(r)
    BY <1>2 DEF CurrentIsOldest
<1>8. HeldFit(e) /\ SourceWanted(e) => CommandsFit(r)
    BY <1>2, <1>5 DEF CommandsFit, HeldFit, SourceWanted, Asked, SamePlace, SameElse
<1> QED
    BY <1>2, <1>4, <1>6, <1>7, <1>8 DEF Filed, r

(* A command of the error handling is queued.                              *)
LEMMA FailureIs ==
    ASSUME NEW e, IsEngine(e), Filed(e), NEW type \in ErrorHandling
    PROVE  LET r == AddCommandToQueue(e, type, 0)
           IN  /\ IsEngine(r) /\ SamePlace([e EXCEPT !.iState = "Error"], r)
               /\ r.iCurrentCmd = e.iCurrentCmd /\ r.calls = e.calls
               /\ Failing(r) /\ Filed(r)
               /\ CommandsFit(e) /\ (type = "EHGeneral" => use.errors > 0) => CommandsFit(r)
<1> DEFINE cmd == [id |-> e.iCommandId, type |-> type, of |-> 0]
           r == [e EXCEPT !.iPendingCmds = e.iPendingCmds \cup {cmd},
                          !.iCommandId = e.iCommandId + 1,
                          !.iState = "Error", !.scheduled = TRUE]
<1>1. AddCommandToQueue(e, type, 0) = r
    BY DEF AddCommandToQueue, IsEngine
<1>2. cmd \in Command /\ cmd.id = e.iCommandId /\ cmd.type = type /\ cmd # NoCmd
      /\ cmd.type \notin API \cup {"Sync"}
    BY NoCmdAssumption DEF Command, IsEngine, API, ErrorHandling
<1> HIDE DEF cmd
<1>3. IsEngine(r)
    BY <1>2 DEF IsEngine
<1>4. /\ SamePlace([e EXCEPT !.iState = "Error"], r) /\ r.iCurrentCmd = e.iCurrentCmd
      /\ r.calls = e.calls /\ r.iPendingCmds = e.iPendingCmds \cup {cmd}
      /\ r.iCommandId = e.iCommandId + 1 /\ r.iDataSource = e.iDataSource
    BY DEF SamePlace, SameElse, IsEngine
<1>5. /\ e.iCommandId \in Nat /\ (\A c \in Held(e) : c.id \in Nat)
      /\ \A x \in DOMAIN e.calls : x \in Nat
    BY DEF IsEngine, Held, Command
<1> HIDE DEF r
<1>6. Held(r) = Held(e) \cup {cmd}
    BY <1>2, <1>4 DEF Held
<1>7. CallsHeld(r)
    BY <1>4, <1>5, <1>6 DEF CallsHeld, Filed
<1>8. HeldIssued(r)
    <2>1. \A c \in e.iPendingCmds : c.type # "Sync" => c.id < e.iCommandId
        BY NoCmdAssumption DEF Filed, HeldIssued, Held, IsEngine
    <2>2. \A c, d \in r.iPendingCmds : c.type # "Sync" /\ d.type # "Sync" /\ c.id = d.id => c = d
        BY <1>2, <1>4, <1>5, <2>1 DEF Filed, HeldIssued
    <2>3. ASSUME NEW c \in Held(r)
          PROVE  /\ c.type \in API => c.id \in DOMAIN r.calls /\ r.calls[c.id].type = c.type
                 /\ c.type # "Sync" => c.id < r.iCommandId
        BY <1>2, <1>4, <1>5, <1>6 DEF Filed, HeldIssued
    <2> QED
        BY <2>2, <2>3 DEF HeldIssued
<1>9. CurrentIsOldest(r)
    <2> SUFFICES ASSUME r.iCurrentCmd # NoCmd, r.iCurrentCmd.type # "Sync",
                        NEW c \in r.iPendingCmds, c.type # "Sync"
                 PROVE  c.id > r.iCurrentCmd.id
        BY DEF CurrentIsOldest
    <2>1. e.iCurrentCmd \in Held(e) /\ e.iCurrentCmd.id < e.iCommandId
        BY <1>4 DEF Held, Filed, HeldIssued
    <2> QED
        BY <1>2, <1>4, <1>5, <2>1 DEF Filed, CurrentIsOldest
<1>10. CommandsFit(e) /\ (type = "EHGeneral" => use.errors > 0) => CommandsFit(r)
    BY <1>2, <1>4, <1>6 DEF CommandsFit, HeldFit, SourceWanted, Asked, API
<1> QED
    BY <1>1, <1>2, <1>3, <1>4, <1>7, <1>8, <1>9, <1>10 DEF Filed, Failing
-----------------------------------------------------------------------------
(* What a step says to the application.                                    *)

Clean(e) == e.iState = "Idle" /\ ~e.iDataSource /\ e.iSourceNode = "none" /\ e.asked = <<>>

NoneOlder(r, id) == \A older \in DOMAIN r.calls : older < id => r.calls[older].status # "asked"

Final(e, r) ==
    \A id \in DOMAIN e.calls :
        /\ e.calls[id].type \in {"Reset", "CancelAll"}
        /\ e.calls[id].status = "asked" /\ r.calls[id].status = "success"
        => Clean(r) /\ NoneOlder(r, id)

(* Nobody is asked to wait again.                                          *)
NoneAsks(e, r) ==
    /\ DOMAIN r.calls = DOMAIN e.calls
    /\ \A id \in DOMAIN e.calls : /\ r.calls[id].type = e.calls[id].type
                                  /\ r.calls[id].status = "asked" => e.calls[id].status = "asked"

LEMMA CurrentWasOldest ==
    ASSUME NEW e, IsEngine(e), Filed(e), Executes(e, API), NEW r, IsEngine(r), Filed(r),
           r.iPendingCmds \subseteq e.iPendingCmds, r.iCurrentCmd = NoCmd
    PROVE  NoneOlder(r, e.iCurrentCmd.id)
<1> SUFFICES ASSUME NEW id \in DOMAIN r.calls, id < e.iCurrentCmd.id,
                    r.calls[id].status = "asked"
             PROVE  FALSE
    BY DEF NoneOlder
<1>1. PICK c \in Held(r) : c.id = id /\ c.type = r.calls[id].type
    BY DEF Filed, CallsHeld
<1>2. c \in e.iPendingCmds /\ c.type \in API
    BY <1>1 DEF Held, IsEngine
<1>3. c.id > e.iCurrentCmd.id
    BY <1>2 DEF Filed, CurrentIsOldest, Executes, API
<1>4. id \in Nat /\ e.iCurrentCmd.id \in Nat
    BY DEF IsEngine, Command, Executes
<1> QED
    BY <1>1, <1>3, <1>4

(* A command ends with status st, after f was done of it.                  *)
LEMMA EndsIt ==
    ASSUME NEW e, IsEngine(e), Filed(e), HeldFit(e), SourceWanted(e), Executes(e, API),
           NEW f, IsEngine(f), SameCommands(e, f),
           f.iDataSource => e.iDataSource,
           NEW st \in Statuses \ {"asked"},
           e.iCurrentCmd.type \in {"Reset", "CancelAll"} /\ st = "success" => Clean(f)
    PROVE  LET r == EngineCommandCompleted(f, st)
           IN  /\ IsEngine(r) /\ SamePlace(f, r) /\ Filed(r) /\ CommandsFit(r)
               /\ r.iCurrentCmd = NoCmd /\ r.iPendingCmds = e.iPendingCmds
               /\ (Failing(r) <=> Failing(e))
               /\ Final(e, r) /\ NoneAsks(e, r) /\ (Clean(f) => Clean(r))
               /\ NoneOlder(r, e.iCurrentCmd.id) /\ Told(e, r, e.iCurrentCmd.id, st)
<1> DEFINE r == EngineCommandCompleted(f, st)
           id == e.iCurrentCmd.id
<1>1. /\ Filed(f) /\ HeldFit(f) /\ SourceWanted(f) /\ Executes(f, API) /\ f.iCurrentCmd.id = id
      /\ (Failing(f) <=> Failing(e))
    <2>1. /\ Filed(f) /\ HeldFit(f) /\ SourceWanted(f) /\ Executes(f, API)
          /\ Failing(f) <=> Failing(e)
        BY SameFiled
    <2> QED
        BY <2>1 DEF SameCommands
<1>2. /\ IsEngine(r) /\ SamePlace(f, r) /\ Told(f, r, f.iCurrentCmd.id, st)
      /\ r.iCurrentCmd = NoCmd /\ r.iPendingCmds = f.iPendingCmds
      /\ Filed(r) /\ CommandsFit(r)
    BY <1>1, CompletedIs
<1> HIDE DEF r
<1>3. r.iPendingCmds = e.iPendingCmds /\ f.calls = e.calls
    BY <1>2 DEF SameCommands
<1>4. Failing(r) <=> Failing(e)
    BY <1>3 DEF Failing
<1>5. Clean(f) => Clean(r)
    BY <1>2 DEF Clean, SamePlace, SameElse
<1>6. NoneAsks(e, r)
    BY <1>2, <1>3 DEF NoneAsks, Told
<1>7. NoneOlder(r, id)
    BY <1>2, <1>3, CurrentWasOldest
<1>8. Final(e, r)
    <2> SUFFICES ASSUME NEW x \in DOMAIN e.calls, e.calls[x].type \in {"Reset", "CancelAll"},
                        e.calls[x].status = "asked", r.calls[x].status = "success"
                 PROVE  Clean(r) /\ NoneOlder(r, x)
        BY DEF Final
    <2>1. x = id /\ st = "success"
        BY <1>1, <1>2, <1>3 DEF Told
    <2>2. e.calls[id].type = e.iCurrentCmd.type
        BY DEF Filed, HeldIssued, Held, Executes
    <2> QED
        BY <1>5, <1>7, <2>1, <2>2
<1>9. Told(e, r, id, st)
    BY <1>1, <1>2, <1>3 DEF Told
<1> QED
    BY <1>1, <1>2, <1>3, <1>4, <1>5, <1>6, <1>7, <1>8, <1>9 DEF r

(* A request to the node.                                                  *)
LEMMA AskIs ==
    ASSUME NEW e, IsEngine(e), NEW type \in Questions
    PROVE  \E q \in [type : Questions, id : Nat] :
             /\ q.type = type
             /\ e.iCurrentCmd # NoCmd => q.id = e.iCurrentCmd.id
             /\ LET r == Ask(e, type)
                IN  /\ IsEngine(r) /\ SameCommands(e, r) /\ SameElse(e, r)
                    /\ r.asked = Append(e.asked, q)
                    /\ e.asked = <<>> => r.asked = <<q>>
<1> DEFINE id == IF e.iCurrentCmd = NoCmd THEN 0 ELSE e.iCurrentCmd.id
           q == [type |-> type, id |-> id]
           a == Append(e.asked, q)
           r == [e EXCEPT !.asked = a]
<1>1. id \in Nat
    BY DEF IsEngine, Command
<1>2. q \in [type : Questions, id : Nat] /\ q.type = type
      /\ (e.iCurrentCmd # NoCmd => q.id = e.iCurrentCmd.id)
    BY <1>1
<1>3. Ask(e, type) = r
    BY DEF Ask, IsEngine
<1> HIDE DEF id, q
<1>4. a \in Seq([type : Questions, id : Nat]) /\ (e.asked = <<>> => a = <<q>>)
    <2> DEFINE S == [type : Questions, id : Nat]
    <2>1. e.asked \in Seq(S) /\ q \in S
        BY <1>2 DEF IsEngine
    <2> HIDE DEF S
    <2>2. a \in Seq(S)
        BY <2>1
    <2>3. e.asked = <<>> => a = <<q>>
        OBVIOUS
    <2> QED
        BY <2>2, <2>3 DEF S
<1> HIDE DEF a
<1>5. IsEngine(r)
    BY <1>4 DEF IsEngine
<1>6. SameCommands(e, r) /\ SameElse(e, r) /\ r.asked = a
    BY DEF IsEngine, SameCommands, SameElse
<1> QED
    BY <1>2, <1>3, <1>4, <1>5, <1>6 DEF a
-----------------------------------------------------------------------------
(* Run.  What it makes of e, and says to the application.                  *)
Fine(e) == IsEngine(e) /\ Good(e)

Turn(e, r) == /\ Fine(r) /\ Final(e, r) /\ NoneAsks(e, r)
              /\ Clean(e) /\ ~Asked(e, "AddDataSource") /\ ~Executes(e, {"AddDataSource"})
                    => Clean(r)

(* A command was taken from the queue to be executed.                      *)
Taken(e) == /\ IsEngine(e) /\ Filed(e) /\ HeldFit(e) /\ SourceWanted(e)
            /\ e.asked = <<>> /\ e.iCmdToCancel = NoCmd /\ e.iRollOverState = "Idle"
            /\ e.iSourceNode # "none" => e.iDataSource
            /\ Executes(e, API \ Cancels) /\ ~Failing(e)
            /\ e.iState \in {"Idle", "Initialized"} /\ e.iSourceNode # "created"
            /\ e.iCurrentCmd.type = "AddDataSource" => ~Asked(e, "AddDataSource")

(* The command ends at once, and the engine is ready for the next.         *)
LEMMA EndsAtOnce ==
    ASSUME NEW e, Taken(e), NEW f, IsEngine(f), SameCommands(e, f),
           f.asked = <<>>, f.iCmdToCancel = NoCmd, f.iRollOverState = "Idle",
           f.iState \in {"Idle", "Initialized"},
           \/ f.iSourceNode = e.iSourceNode /\ f.iDataSource = e.iDataSource
           \/ f.iSourceNode = "none" /\ ~f.iDataSource,
           NEW st \in Statuses \ {"asked"},
           Executes(e, {"Reset"}) \/ Clean(e) => Clean(f)
    PROVE  Turn(e, EngineCommandCompleted(f, st))
<1> DEFINE r == EngineCommandCompleted(f, st)
<1>1. Executes(e, API) /\ (f.iDataSource => e.iDataSource) /\ e.iCurrentCmd.type # "CancelAll"
      /\ (e.iCurrentCmd.type = "Reset" => Clean(f))
    BY DEF Taken, Executes, Cancels
<1>2. /\ IsEngine(r) /\ SamePlace(f, r) /\ Filed(r) /\ CommandsFit(r)
      /\ r.iCurrentCmd = NoCmd /\ r.iPendingCmds = e.iPendingCmds
      /\ (Failing(r) <=> Failing(e))
      /\ Final(e, r) /\ NoneAsks(e, r) /\ (Clean(f) => Clean(r))
    BY <1>1, EndsIt DEF Taken
<1> HIDE DEF r
<1>3. Quiet(r)
    BY <1>2 DEF Taken, SamePlace, SameElse, Quiet
<1>4. Fits(r)
    BY <1>2 DEF Taken, SamePlace, SameElse, Fits
<1> QED
    BY <1>2, <1>3, <1>4 DEF Turn, Fine, Good, Phased, r

(* AddDataSource or Init asks the node for something, and waits for the    *)
(* answer.                                                                 *)
LEMMA AsksNext ==
    ASSUME NEW e, IsEngine(e), Filed(e), HeldFit(e), Executes(e, Adds), ~Failing(e),
           ~Asked(e, "AddDataSource"),
           NEW r, IsEngine(r), SameCommands(e, r), r.iCmdToCancel = NoCmd, r.iDataSource,
           r.iRollOverState # "Start",
           r.iRollOverState # "Idle" => Executes(e, {"Init"}) /\ use.alternates > 0,
           NEW q \in [type : Questions, id : Nat],
           q.type \notin {"Reset", "CancelAll", "QueryInterfaceOptional"},
           q.id = e.iCurrentCmd.id, r.asked = <<q>>,
           r.iState = IF q.type \in Initial THEN "Initializing" ELSE "Idle",
           q.type \in Initial => Executes(e, {"Init"}),
           q.type = "GetDurationValue" => r.iRollOverState = "Idle",
           q.type = "Recognize" => Executes(e, {"AddDataSource"}) /\ use.unknown,
           q.type # "Recognize" => r.iSourceNode = "ready"
    PROVE  Fine(r) /\ Final(e, r) /\ NoneAsks(e, r)
<1>1. /\ Filed(r) /\ HeldFit(r) /\ (Failing(r) <=> Failing(e)) /\ ~Asked(r, "AddDataSource")
      /\ \A types : Executes(r, types) <=> Executes(e, types)
      /\ SourceWanted(r)
    BY SameFiled
<1>2. Fits(r)
    BY <1>1 DEF Fits, CommandsFit
<1>3. Len(r.asked) = 1 /\ r.asked[1] = q /\ r.asked # <<>>
    OBVIOUS
<1>4. Asks(r, r.asked[1])
    BY <1>1, <1>3 DEF Asks, SameCommands
<1>5. Asking(r)
    BY <1>1, <1>3, <1>4 DEF Asking
<1>6. Final(e, r) /\ NoneAsks(e, r)
    BY DEF Final, NoneAsks, SameCommands
<1> QED
    BY <1>1, <1>2, <1>5, <1>6 DEF Fine, Good, Phased

(* It fails: a command of the error handling waits to be executed.         *)
LEMMA FailsNext ==
    ASSUME NEW e, IsEngine(e), Filed(e), HeldFit(e), Executes(e, Adds),
           ~Asked(e, "AddDataSource"),
           NEW f, IsEngine(f), SameCommands(e, f), f.asked = <<>>, f.iCmdToCancel = NoCmd,
           f.iDataSource, NEW type \in ErrorHandling \ {"EHGeneral"}
    PROVE  LET g == AddCommandToQueue(f, type, 0)
               r == [g EXCEPT !.iRollOverState = "Idle"]
           IN  /\ Fine(r) /\ Final(e, r) /\ NoneAsks(e, r)
               /\ f.iRollOverState = "Idle" => Fine(g) /\ Final(e, g) /\ NoneAsks(e, g)
<1> DEFINE g == AddCommandToQueue(f, type, 0)
           r == [g EXCEPT !.iRollOverState = "Idle"]
<1>1. Filed(f) /\ HeldFit(f) /\ Executes(f, Adds) /\ CommandsFit(f) /\ f.calls = e.calls
    <2>1. /\ Filed(f) /\ HeldFit(f) /\ Executes(f, Adds) /\ ~Asked(f, "AddDataSource")
          /\ SourceWanted(f)
        BY SameFiled
    <2> QED
        BY <2>1 DEF CommandsFit, SameCommands
<1>2. /\ IsEngine(g) /\ SamePlace([f EXCEPT !.iState = "Error"], g)
      /\ g.iCurrentCmd = f.iCurrentCmd /\ g.calls = f.calls
      /\ Failing(g) /\ Filed(g) /\ CommandsFit(g)
    BY <1>1, FailureIs
<1>3. /\ g.asked = <<>> /\ g.iCmdToCancel = NoCmd /\ g.iState = "Error"
      /\ g.iRollOverState = f.iRollOverState /\ g.iDataSource
    BY <1>2 DEF SamePlace, SameElse, IsEngine
<1> HIDE DEF g
<1>4. IsEngine(g)
    BY <1>2
<1>5. IsEngine(r)
    BY <1>4 DEF IsEngine
<1>6. SameCommands(g, r)
    BY <1>4 DEF IsEngine, SameCommands
<1>7. /\ r.asked = g.asked /\ r.iCmdToCancel = g.iCmdToCancel /\ r.iState = g.iState
      /\ r.iRollOverState = "Idle" /\ r.iDataSource = g.iDataSource
    BY <1>4 DEF IsEngine
<1> HIDE DEF r
<1>8. Executes(g, Adds)
    BY <1>1, <1>2 DEF Executes
<1>9. Failing(r) /\ Filed(r) /\ CommandsFit(r) /\ Executes(r, Adds)
    BY <1>2, <1>3, <1>6, <1>7, <1>8, SameFiled
<1>10. ASSUME NEW x, IsEngine(x), Failing(x), Filed(x), CommandsFit(x), Executes(x, Adds),
              x.asked = <<>>, x.iCmdToCancel = NoCmd, x.iState = "Error",
              x.iRollOverState = "Idle", x.iDataSource, x.calls = e.calls
       PROVE  Fine(x) /\ Final(e, x) /\ NoneAsks(e, x)
    <2>1. Quiet(x)
        BY <1>10 DEF Quiet, Executes
    <2>2. Fits(x)
        BY <1>10 DEF Fits
    <2>3. Final(e, x) /\ NoneAsks(e, x)
        BY <1>10 DEF Final, NoneAsks
    <2> QED
        BY <1>10, <2>1, <2>2, <2>3 DEF Fine, Good, Phased
<1>11. r.calls = e.calls /\ g.calls = e.calls
    BY <1>1, <1>2, <1>6 DEF SameCommands
<1> QED
    BY <1>2, <1>3, <1>5, <1>7, <1>8, <1>9, <1>10, <1>11 DEF r, g

(* The command that was taken asks the node.                               *)
LEMMA AsksFirst ==
    ASSUME NEW e, Taken(e), NEW r, IsEngine(r), SameCommands(e, r),
           r.iCmdToCancel = NoCmd, r.iRollOverState = "Idle", r.iDataSource,
           ~Asked(e, "AddDataSource"), ~Clean(e) \/ Executes(e, {"AddDataSource"}),
           Executes(e, Adds), NEW q \in [type : Questions, id : Nat],
           q.type \notin {"Reset", "CancelAll", "QueryInterfaceOptional"},
           q.id = e.iCurrentCmd.id, r.asked = <<q>>,
           r.iState = IF q.type \in Initial THEN "Initializing" ELSE "Idle",
           q.type \in Initial => Executes(e, {"Init"}),
           q.type = "Recognize" => Executes(e, {"AddDataSource"}) /\ use.unknown,
           q.type # "Recognize" => r.iSourceNode = "ready"
    PROVE  Turn(e, r)
<1>1. IsEngine(e) /\ Filed(e) /\ HeldFit(e) /\ ~Failing(e)
    BY DEF Taken
<1>2. Fine(r) /\ Final(e, r) /\ NoneAsks(e, r)
    BY <1>1, AsksNext
<1> QED
    BY <1>2 DEF Turn

LEMMA AddDataSourceRuns ==
    ASSUME NEW e, Taken(e), Executes(e, {"AddDataSource"}), NEW found
    PROVE  Turn(e, DoAddDataSource(e, found))
<1> DEFINE s == [e EXCEPT !.iDataSource = TRUE, !.iAlternateSrcFormatIndex = 0]
<1>0. IsEngine(e) /\ e.asked = <<>> /\ e.iCurrentCmd # NoCmd
    BY DEF Taken, Executes
<1>1. /\ IsEngine(s) /\ SameCommands(e, s) /\ s.asked = <<>> /\ s.iCmdToCancel = NoCmd
      /\ s.iRollOverState = "Idle" /\ s.iDataSource /\ s.iState = e.iState
      /\ s.iSourceNode = e.iSourceNode
    <2>1. IsEngine(e)
        BY <1>0
    <2>2. IsEngine(s)
        BY <2>1 DEF IsEngine
    <2>3. SameCommands(e, s)
        BY <2>1 DEF IsEngine, SameCommands
    <2>4. /\ s.asked = e.asked /\ s.iCmdToCancel = e.iCmdToCancel
          /\ s.iRollOverState = e.iRollOverState /\ s.iState = e.iState
          /\ s.iSourceNode = e.iSourceNode /\ s.iDataSource = TRUE
        BY <2>1 DEF IsEngine
    <2> QED
        BY <2>2, <2>3, <2>4 DEF Taken
<1> HIDE DEF s
<1>2. ~Asked(e, "AddDataSource") /\ Executes(e, Adds) /\ ~Executes(e, {"Reset"})
    BY DEF Taken, Executes, Adds
<1>3. CASE e.iState \notin {"Idle", "Initializing"}
    <2>1. DoAddDataSource(e, found) = EngineCommandCompleted(e, "invalidstate")
        BY <1>3 DEF DoAddDataSource
    <2>2. SameCommands(e, e) /\ "invalidstate" \in Statuses \ {"asked"} /\ ~Clean(e)
        BY <1>3 DEF SameCommands, Statuses, Clean
    <2>3. /\ e.iCmdToCancel = NoCmd /\ e.iRollOverState = "Idle"
          /\ e.iState \in {"Idle", "Initialized"}
        BY DEF Taken
    <2> QED
        BY <1>0, <1>2, <2>1, <2>2, <2>3, EndsAtOnce
<1>4. CASE e.iState = "Idle" /\ use.unknown
    <2> DEFINE r == Ask(s, "Recognize")
    <2>1. DoAddDataSource(e, found) = r
        BY <1>4 DEF DoAddDataSource, s
    <2>2. "Recognize" \in Questions /\ "Recognize" \notin Initial
        BY DEF Questions, Initial
    <2>3. PICK q \in [type : Questions, id : Nat] :
            /\ q.type = "Recognize" /\ (s.iCurrentCmd # NoCmd => q.id = s.iCurrentCmd.id)
            /\ IsEngine(r) /\ SameCommands(s, r) /\ SameElse(s, r) /\ r.asked = <<q>>
        BY <1>1, <2>2, AskIs
    <2> HIDE DEF r
    <2>4. q.id = e.iCurrentCmd.id
        BY <1>0, <1>1, <2>3 DEF SameCommands
    <2>5. /\ SameCommands(e, r) /\ r.iCmdToCancel = NoCmd
          /\ r.iRollOverState = "Idle" /\ r.iDataSource /\ r.iState = "Idle"
        BY <1>1, <1>4, <2>3 DEF SameCommands, SameElse
    <2>6. Turn(e, r)
        BY <1>2, <1>4, <2>2, <2>3, <2>4, <2>5, AsksFirst
    <2> QED
        BY <2>1, <2>6
<1>5. CASE e.iState = "Idle" /\ ~use.unknown /\ found
    <2> DEFINE u == [s EXCEPT !.iSourceNode = "ready"]
               r == Ask(u, "QueryInitIF")
    <2>1. DoAddDataSource(e, found) = r
        BY <1>5 DEF DoAddDataSource, DoSetupSourceNode, s
    <2>2. /\ IsEngine(u) /\ u.asked = <<>> /\ u.iCurrentCmd = e.iCurrentCmd
          /\ SameCommands(e, u) /\ u.iCmdToCancel = NoCmd /\ u.iSourceNode = "ready"
          /\ u.iRollOverState = "Idle" /\ u.iDataSource /\ u.iState = "Idle"
        BY <1>1, <1>5 DEF IsEngine, SameCommands
    <2> HIDE DEF u
    <2>3. "QueryInitIF" \in Questions /\ "QueryInitIF" \notin Initial
        BY DEF Questions, Initial
    <2>4. PICK q \in [type : Questions, id : Nat] :
            /\ q.type = "QueryInitIF" /\ (u.iCurrentCmd # NoCmd => q.id = u.iCurrentCmd.id)
            /\ IsEngine(r) /\ SameCommands(u, r) /\ SameElse(u, r) /\ r.asked = <<q>>
        BY <2>2, <2>3, AskIs
    <2> HIDE DEF r
    <2>5. q.id = e.iCurrentCmd.id
        BY <1>0, <2>2, <2>4
    <2>6. /\ SameCommands(e, r) /\ r.iCmdToCancel = NoCmd
          /\ r.iRollOverState = "Idle" /\ r.iDataSource /\ r.iState = "Idle"
          /\ r.iSourceNode = "ready"
        BY <2>2, <2>4 DEF SameCommands, SameElse
    <2>7. Turn(e, r)
        BY <1>2, <2>3, <2>4, <2>5, <2>6, AsksFirst
    <2> QED
        BY <2>1, <2>7
<1>6. CASE e.iState = "Idle" /\ ~use.unknown /\ ~found
    <2> DEFINE r == AddCommandToQueue(s, "EHAddDataSource", 0)
    <2>1. DoAddDataSource(e, found) = r
        BY <1>6 DEF DoAddDataSource, s
    <2>2. Filed(e) /\ HeldFit(e) /\ "EHAddDataSource" \in ErrorHandling \ {"EHGeneral"}
        BY DEF Taken, ErrorHandling
    <2>3. Fine(r) /\ Final(e, r) /\ NoneAsks(e, r)
        BY <1>0, <1>1, <1>2, <2>2, FailsNext
    <2> QED
        BY <2>1, <2>3 DEF Turn
<1> QED
    BY <1>3, <1>4, <1>5, <1>6 DEF Taken

LEMMA RemovedIs ==
    ASSUME NEW e, IsEngine(e)
    PROVE  LET r == RemoveDataSourceSync(e)
               s == [r EXCEPT !.iState = "Idle"]
           IN  /\ IsEngine(r) /\ SameCommands(e, r)
               /\ r.asked = e.asked /\ r.iCmdToCancel = e.iCmdToCancel /\ r.iState = e.iState
               /\ r.iRollOverState = e.iRollOverState /\ r.iSourceNode = "none" /\ ~r.iDataSource
               /\ IsEngine(s) /\ SameCommands(e, s)
               /\ s.asked = e.asked /\ s.iCmdToCancel = e.iCmdToCancel /\ s.iState = "Idle"
               /\ s.iRollOverState = e.iRollOverState /\ s.iSourceNode = "none" /\ ~s.iDataSource
<1> DEFINE r == [e EXCEPT !.iSourceNode = "none", !.iDataSource = FALSE]
           s == [r EXCEPT !.iState = "Idle"]
<1>1. RemoveDataSourceSync(e) = r
    BY DEF RemoveDataSourceSync
<1>2. IsEngine(r)
    BY DEF IsEngine
<1>3. SameCommands(e, r)
    BY DEF SameCommands, IsEngine
<1>4. /\ r.asked = e.asked /\ r.iCmdToCancel = e.iCmdToCancel /\ r.iState = e.iState
      /\ r.iRollOverState = e.iRollOverState /\ r.iSourceNode = "none" /\ r.iDataSource = FALSE
    BY DEF IsEngine
<1> HIDE DEF r
<1>5. IsEngine(s)
    BY <1>2 DEF IsEngine
<1>6. SameCommands(r, s)
    BY <1>2 DEF SameCommands, IsEngine
<1>7. /\ s.asked = r.asked /\ s.iCmdToCancel = r.iCmdToCancel /\ s.iState = "Idle"
      /\ s.iRollOverState = r.iRollOverState /\ s.iSourceNode = r.iSourceNode
      /\ s.iDataSource = r.iDataSource
    BY <1>2 DEF IsEngine
<1>8. SameCommands(e, s)
    BY <1>3, <1>6 DEF SameCommands
<1> HIDE DEF s
<1> QED
    BY <1>1, <1>2, <1>3, <1>4, <1>5, <1>7, <1>8 DEF s

LEMMA ResetIs ==
    ASSUME NEW e, IsEngine(e), e.asked = <<>>
    PROVE  LET r == ResetSourceNode(e)
           IN  /\ IsEngine(r) /\ SameCommands(e, r)
               /\ r.iState = "Resetting" /\ r.iCmdToCancel = e.iCmdToCancel
               /\ r.iRollOverState = e.iRollOverState
               /\ r.iSourceNode = e.iSourceNode /\ r.iDataSource = e.iDataSource
               /\ Len(r.asked) = 1 /\ r.asked[1].type = "Reset"
<1> DEFINE f == Ask(e, "Reset")
           r == [f EXCEPT !.iState = "Resetting"]
<1>1. ResetSourceNode(e) = r
    BY DEF ResetSourceNode
<1>2. "Reset" \in Questions
    BY DEF Questions
<1>3. PICK q \in [type : Questions, id : Nat] :
        /\ q.type = "Reset"
        /\ IsEngine(f) /\ SameCommands(e, f) /\ SameElse(e, f) /\ f.asked = <<q>>
    BY <1>2, AskIs
<1> HIDE DEF f
<1>4. IsEngine(f)
    BY <1>3
<1>5. IsEngine(r)
    BY <1>4 DEF IsEngine
<1>6. SameCommands(f, r)
    BY <1>4 DEF SameCommands, IsEngine
<1>7. /\ r.asked = f.asked /\ r.iCmdToCancel = f.iCmdToCancel /\ r.iState = "Resetting"
      /\ r.iRollOverState = f.iRollOverState /\ r.iSourceNode = f.iSourceNode
      /\ r.iDataSource = f.iDataSource
    BY <1>4 DEF IsEngine
<1> HIDE DEF r
<1>8. SameCommands(e, r)
    BY <1>3, <1>6 DEF SameCommands
<1>9. Len(<<q>>) = 1 /\ <<q>>[1] = q
    OBVIOUS
<1>10. Len(r.asked) = 1 /\ r.asked[1].type = "Reset"
    BY <1>3, <1>7, <1>9
<1>11. /\ r.iState = "Resetting" /\ r.iCmdToCancel = e.iCmdToCancel
       /\ r.iRollOverState = e.iRollOverState
       /\ r.iSourceNode = e.iSourceNode /\ r.iDataSource = e.iDataSource
    BY <1>3, <1>7 DEF SameElse
<1> QED
    BY <1>1, <1>5, <1>8, <1>10, <1>11

(* The node is reset, for a command or to handle an error.                 *)
LEMMA NodeResets ==
    ASSUME NEW e, IsEngine(e), Filed(e), HeldFit(e), SourceWanted(e),
           e.iCmdToCancel = NoCmd, e.iSourceNode = "ready", e.iDataSource,
           IF Failing(e) THEN e.iCurrentCmd = NoCmd \/ Executes(e, Adds) ELSE Executes(e, Resets),
           NEW r, IsEngine(r), SameCommands(e, r), r.iState = "Resetting",
           r.iCmdToCancel = NoCmd, r.iRollOverState = "Idle", r.iSourceNode = "ready",
           r.iDataSource, Len(r.asked) = 1, r.asked[1].type = "Reset"
    PROVE  Fine(r) /\ Final(e, r) /\ NoneAsks(e, r)
<1>1. ~Asked(e, "AddDataSource")
    BY DEF SourceWanted
<1>2. /\ Filed(r) /\ HeldFit(r) /\ (Failing(r) <=> Failing(e)) /\ ~Asked(r, "AddDataSource")
      /\ \A types : Executes(r, types) <=> Executes(e, types)
      /\ SourceWanted(r)
    BY <1>1, SameFiled
<1>3. r.iCurrentCmd = e.iCurrentCmd
    BY DEF SameCommands
<1>4. Resetting(r)
    BY <1>2, <1>3 DEF Resetting
<1>5. Fits(r)
    BY <1>2 DEF Fits, CommandsFit
<1>6. Final(e, r) /\ NoneAsks(e, r)
    BY DEF Final, NoneAsks, SameCommands
<1> QED
    BY <1>2, <1>4, <1>5, <1>6 DEF Fine, Good, Phased

LEMMA InitRuns ==
    ASSUME NEW e, Taken(e), Executes(e, {"Init"})
    PROVE  Turn(e, DoInit(e))
<1>1. /\ IsEngine(e) /\ e.asked = <<>> /\ e.iCurrentCmd # NoCmd /\ Executes(e, Adds)
      /\ ~Executes(e, {"Reset"}) /\ SameCommands(e, e)
      /\ e.iCmdToCancel = NoCmd /\ e.iRollOverState = "Idle"
      /\ e.iState \in {"Idle", "Initialized"}
    BY DEF Taken, Executes, Adds, SameCommands
<1>2. CASE e.iState = "Initialized"
    <2>1. DoInit(e) = EngineCommandCompleted(e, "success")
        BY <1>2 DEF DoInit
    <2>2. "success" \in Statuses \ {"asked"} /\ ~Clean(e)
        BY <1>2 DEF Statuses, Clean
    <2> QED
        BY <1>1, <2>1, <2>2, EndsAtOnce
<1>3. CASE e.iState # "Initialized" /\ e.iSourceNode = "none"
    <2>1. DoInit(e) = EngineCommandCompleted(e, "invalidstate")
        BY <1>3 DEF DoInit
    <2>2. "invalidstate" \in Statuses \ {"asked"}
        BY DEF Statuses
    <2> QED
        BY <1>1, <2>1, <2>2, EndsAtOnce
<1>4. CASE e.iState = "Idle" /\ e.iSourceNode # "none"
    <2> DEFINE f == Ask(e, "Init")
               r == [f EXCEPT !.iRollOverState = "Idle", !.iState = "Initializing"]
    <2>1. DoInit(e) = r
        BY <1>4 DEF DoInit
    <2>2. "Init" \in Questions /\ "Init" \in Initial
        BY DEF Questions, Initial
    <2>3. PICK q \in [type : Questions, id : Nat] :
            /\ q.type = "Init" /\ (e.iCurrentCmd # NoCmd => q.id = e.iCurrentCmd.id)
            /\ IsEngine(f) /\ SameCommands(e, f) /\ SameElse(e, f) /\ f.asked = <<q>>
        BY <1>1, <2>2, AskIs
    <2> HIDE DEF f
    <2>4. IsEngine(f)
        BY <2>3
    <2>5. IsEngine(r)
        BY <2>4 DEF IsEngine
    <2>6. SameCommands(f, r)
        BY <2>4 DEF SameCommands, IsEngine
    <2>7. /\ r.asked = f.asked /\ r.iCmdToCancel = f.iCmdToCancel /\ r.iState = "Initializing"
          /\ r.iRollOverState = "Idle" /\ r.iSourceNode = f.iSourceNode
          /\ r.iDataSource = f.iDataSource
        BY <2>4 DEF IsEngine
    <2> HIDE DEF r
    <2>8. SameCommands(e, r)
        BY <2>3, <2>6 DEF SameCommands
    <2>9. e.iSourceNode = "ready" /\ e.iDataSource /\ ~Asked(e, "AddDataSource") /\ ~Clean(e)
        <3>1. e.iSourceNode = "ready" /\ e.iDataSource /\ SourceWanted(e)
            BY <1>4 DEF Taken, IsEngine
        <3> QED
            BY <3>1 DEF SourceWanted, Clean
    <2>10. /\ r.iCmdToCancel = NoCmd /\ r.iSourceNode = "ready" /\ r.iDataSource
           /\ q.id = e.iCurrentCmd.id /\ r.asked = <<q>>
        BY <1>1, <2>3, <2>7, <2>9 DEF SameElse
    <2>11. Turn(e, r)
        BY <1>1, <2>2, <2>3, <2>5, <2>7, <2>8, <2>9, <2>10, AsksFirst
    <2> QED
        BY <2>1, <2>11
<1> QED
    BY <1>1, <1>2, <1>3, <1>4

LEMMA RemoveRuns ==
    ASSUME NEW e, Taken(e), Executes(e, {"RemoveDataSource"})
    PROVE  Turn(e, DoRemoveDataSource(e))
<1>1. /\ IsEngine(e) /\ e.asked = <<>> /\ ~Executes(e, {"Reset"}) /\ SameCommands(e, e)
      /\ e.iCmdToCancel = NoCmd /\ e.iRollOverState = "Idle"
      /\ e.iState \in {"Idle", "Initialized"}
    BY DEF Taken, Executes, SameCommands
<1>2. {"success", "invalidstate"} \subseteq Statuses \ {"asked"}
    BY DEF Statuses
<1>3. CASE e.iState = "Idle"
    <2> DEFINE f == RemoveDataSourceSync(e)
    <2>1. DoRemoveDataSource(e) = EngineCommandCompleted(f, "success")
        BY <1>3 DEF DoRemoveDataSource
    <2>2. /\ IsEngine(f) /\ SameCommands(e, f) /\ f.asked = <<>> /\ f.iCmdToCancel = NoCmd
          /\ f.iState = "Idle" /\ f.iRollOverState = "Idle"
          /\ f.iSourceNode = "none" /\ ~f.iDataSource
        BY <1>1, <1>3, RemovedIs
    <2> HIDE DEF f
    <2>3. Clean(f)
        BY <2>2 DEF Clean
    <2>4. Turn(e, EngineCommandCompleted(f, "success"))
        BY <1>2, <2>2, <2>3, EndsAtOnce
    <2> QED
        BY <2>1, <2>4
<1>4. CASE e.iState # "Idle"
    <2>1. DoRemoveDataSource(e) = EngineCommandCompleted(e, "invalidstate")
        BY <1>4 DEF DoRemoveDataSource
    <2> QED
        BY <1>1, <1>2, <2>1, EndsAtOnce
<1> QED
    BY <1>3, <1>4

LEMMA ResetRuns ==
    ASSUME NEW e, Taken(e), Executes(e, {"Reset"})
    PROVE  Turn(e, DoReset(e))
<1> DEFINE f == [e EXCEPT !.iState = "Resetting", !.iRollOverState = "Idle"]
<1>1. IsEngine(e) /\ e.asked = <<>> /\ e.iCmdToCancel = NoCmd
    BY DEF Taken
<1>2. IsEngine(e)
    BY <1>1
<1>3. IsEngine(f)
    BY <1>2 DEF IsEngine
<1>4. SameCommands(e, f)
    BY <1>2 DEF SameCommands, IsEngine
<1>5. /\ f.asked = e.asked /\ f.iCmdToCancel = e.iCmdToCancel /\ f.iRollOverState = "Idle"
      /\ f.iSourceNode = e.iSourceNode /\ f.iDataSource = e.iDataSource
    BY <1>2 DEF IsEngine
<1>6. CASE e.iSourceNode = "ready"
    <2> DEFINE r == ResetSourceNode(f)
    <2>1. DoReset(e) = r
        BY <1>6 DEF DoReset
    <2> HIDE DEF f
    <2>2. /\ IsEngine(r) /\ SameCommands(f, r) /\ r.iState = "Resetting"
          /\ r.iCmdToCancel = NoCmd /\ r.iRollOverState = "Idle"
          /\ r.iSourceNode = "ready" /\ r.iDataSource = e.iDataSource
          /\ Len(r.asked) = 1 /\ r.asked[1].type = "Reset"
        BY <1>1, <1>3, <1>5, <1>6, ResetIs
    <2> HIDE DEF r
    <2>3. SameCommands(e, r)
        BY <1>4, <2>2 DEF SameCommands
    <2>4. /\ Filed(e) /\ HeldFit(e) /\ SourceWanted(e) /\ e.iDataSource /\ ~Failing(e)
          /\ Executes(e, Resets) /\ ~Clean(e)
        BY <1>6 DEF Taken, Resets, Executes, Clean
    <2>5. Fine(r) /\ Final(e, r) /\ NoneAsks(e, r)
        BY <1>1, <1>6, <2>2, <2>3, <2>4, NodeResets
    <2> QED
        BY <2>1, <2>4, <2>5 DEF Turn
<1>7. CASE e.iSourceNode # "ready"
    <2> DEFINE s == [RemoveDataSourceSync(f) EXCEPT !.iState = "Idle"]
    <2>1. DoReset(e) = EngineCommandCompleted(s, "success")
        BY <1>7 DEF DoReset
    <2>2. /\ IsEngine(s) /\ SameCommands(f, s) /\ s.asked = <<>> /\ s.iCmdToCancel = NoCmd
          /\ s.iState = "Idle" /\ s.iRollOverState = "Idle"
          /\ s.iSourceNode = "none" /\ ~s.iDataSource
        <3> HIDE DEF f
        <3> QED
            BY <1>1, <1>3, <1>5, RemovedIs
    <2> HIDE DEF s
    <2>3. SameCommands(e, s)
        BY <1>4, <2>2 DEF SameCommands
    <2>4. Clean(s) /\ "success" \in Statuses \ {"asked"}
        BY <2>2 DEF Clean, Statuses
    <2>5. Turn(e, EngineCommandCompleted(s, "success"))
        BY <2>2, <2>3, <2>4, EndsAtOnce
    <2> QED
        BY <2>1, <2>5
<1> QED
    BY <1>6, <1>7

LEMMA ProcessRuns ==
    ASSUME NEW e, Taken(e), NEW found
    PROVE  Turn(e, Process(e, found))
<1>1. e.iCurrentCmd # NoCmd
      /\ e.iCurrentCmd.type \in {"AddDataSource", "Init", "GetState", "RemoveDataSource", "Reset"}
    BY DEF Taken, Executes, API, Cancels
<1>2. CASE e.iCurrentCmd.type = "AddDataSource"
    BY <1>1, <1>2, AddDataSourceRuns DEF Process, Executes
<1>3. CASE e.iCurrentCmd.type = "Init"
    BY <1>1, <1>3, InitRuns DEF Process, Executes
<1>4. CASE e.iCurrentCmd.type = "RemoveDataSource"
    BY <1>1, <1>4, RemoveRuns DEF Process, Executes
<1>5. CASE e.iCurrentCmd.type = "Reset"
    BY <1>1, <1>5, ResetRuns DEF Process, Executes
<1>6. CASE e.iCurrentCmd.type = "GetState"
    <2>1. Process(e, found) = EngineCommandCompleted(e, "success")
        BY <1>6 DEF Process
    <2>2. /\ IsEngine(e) /\ e.asked = <<>> /\ ~Executes(e, {"Reset"}) /\ SameCommands(e, e)
          /\ e.iCmdToCancel = NoCmd /\ e.iRollOverState = "Idle"
          /\ e.iState \in {"Idle", "Initialized"} /\ "success" \in Statuses \ {"asked"}
        BY <1>6 DEF Taken, Executes, SameCommands, Statuses
    <2> QED
        BY <2>1, <2>2, EndsAtOnce
<1> QED
    BY <1>1, <1>2, <1>3, <1>4, <1>5, <1>6
-----------------------------------------------------------------------------
(* Taking commands from the queue.                                         *)

LEMMA FewerFiled ==
    ASSUME NEW e, IsEngine(e), Filed(e), NEW r, NoneAsks(e, r), CurrentIsOldest(r),
           r.iCommandId = e.iCommandId, r.iPendingCmds \subseteq e.iPendingCmds,
           Held(r) \subseteq Held(e),
           \A c \in Held(e) \ Held(r) : c.type \in API => r.calls[c.id].status # "asked"
    PROVE  /\ Filed(r) /\ (HeldFit(e) => HeldFit(r)) /\ (Failing(r) => Failing(e))
           /\ (r.iDataSource => e.iDataSource) /\ SourceWanted(e) => SourceWanted(r)
<1>1. CallsHeld(r)
    <2> SUFFICES ASSUME NEW id \in DOMAIN r.calls
                 PROVE  /\ id < r.iCommandId
                        /\ r.calls[id].status = "asked"
                            => \E c \in Held(r) : c.id = id /\ c.type = r.calls[id].type
        BY DEF CallsHeld
    <2>1. id \in DOMAIN e.calls /\ id < e.iCommandId /\ r.calls[id].type = e.calls[id].type
          /\ e.calls[id].type \in API
        BY DEF NoneAsks, Filed, CallsHeld, IsEngine
    <2>2. ASSUME r.calls[id].status = "asked"
          PROVE  \E c \in Held(r) : c.id = id /\ c.type = r.calls[id].type
        <3>1. e.calls[id].status = "asked"
            BY <2>1, <2>2 DEF NoneAsks
        <3>2. PICK c \in Held(e) : c.id = id /\ c.type = e.calls[id].type
            BY <2>1, <3>1 DEF Filed, CallsHeld
        <3>3. c \in Held(r)
            BY <2>1, <2>2, <3>2
        <3> QED
            BY <2>1, <3>2, <3>3
    <2> QED
        BY <2>1, <2>2
<1>2. HeldIssued(r)
    BY DEF NoneAsks, HeldIssued, Filed
<1> QED
    BY <1>1, <1>2 DEF Filed, HeldFit, SourceWanted, Asked, Failing

LEMMA PopIs ==
    ASSUME NEW e, IsEngine(e), e.iPendingCmds # {}
    PROVE  LET r == Pop(e)
           IN  /\ IsEngine(r) /\ SamePlace(e, r) /\ r.iCurrentCmd = e.iCurrentCmd
               /\ r.calls = e.calls /\ r.iCommandId = e.iCommandId
               /\ r.iPendingCmds = e.iPendingCmds \ {Top(e)}
<1> DEFINE p == e.iPendingCmds \ {Top(e)}
           r == [e EXCEPT !.iPendingCmds = p]
<1>1. Pop(e) = r
    BY DEF Pop, IsEngine
<1>2. p \subseteq Command
    BY DEF IsEngine
<1> HIDE DEF p
<1>3. IsEngine(r)
    BY <1>2 DEF IsEngine
<1>4. SamePlace(e, r)
    BY DEF SamePlace, SameElse, IsEngine
<1>5. /\ r.iCurrentCmd = e.iCurrentCmd /\ r.calls = e.calls /\ r.iCommandId = e.iCommandId
      /\ r.iPendingCmds = p
    BY DEF IsEngine
<1> QED
    BY <1>1, <1>3, <1>4, <1>5 DEF p

(* The engine as Run finds it when it is neither being reset nor to handle *)
(* an error, and has completed the command whose reset had ended.          *)
Ready(e) == /\ Fine(e) /\ Separate /\ (Quiet(e) \/ Asking(e)) /\ ~Executes(e, Resets)
            /\ ~CheckForPendingErrorHandlingCmd(e)

LEMMA CommandTaken ==
    ASSUME NEW e, Ready(e), ~TopIsIn(e, Cancels), e.iRollOverState = "Idle",
           e.iPendingCmds # {}, e.iCurrentCmd = NoCmd
    PROVE  LET cmd == Top(e)
               f == [Pop(e) EXCEPT !.iCurrentCmd = cmd]
           IN  /\ IsEngine(f) /\ f.calls = e.calls /\ f.iCurrentCmd = cmd /\ cmd # NoCmd
               /\ cmd.type = "Sync" =>
                    cmd.of \in use.callers /\ Turn(e, OOTSyncCommandComplete(f))
               /\ cmd.type # "Sync" =>
                    /\ Taken(f)
                    /\ Clean(e) /\ ~Asked(e, "AddDataSource") =>
                        /\ Clean(f) /\ ~Asked(f, "AddDataSource")
                        /\ ~Executes(f, {"AddDataSource"})
<1> DEFINE cmd == Top(e)
           p == Pop(e)
           f == [p EXCEPT !.iCurrentCmd = cmd]
<1>1. /\ IsEngine(e) /\ Filed(e) /\ HeldFit(e) /\ SourceWanted(e)
      /\ e.iSourceNode # "none" => e.iDataSource
    BY DEF Ready, Fine, Good, Fits, CommandsFit
<1>2. Quiet(e)
    BY DEF Ready, Asking, Executes
<1>3. /\ cmd \in e.iPendingCmds /\ cmd \in Command
      /\ cmd.type \notin ErrorHandling \cup Cancels
      /\ cmd.type # "Sync" =>
            /\ \A d \in e.iPendingCmds : d.type \notin ErrorHandling \cup {"Sync"} /\ cmd.id <= d.id
            /\ ~Failing(e)
    <2>1. cmd.type \notin ErrorHandling \cup Cancels
        BY DEF Ready, CheckForPendingErrorHandlingCmd, TopIsIn
    <2> HIDE DEF cmd
    <2> QED
        BY <1>1, <2>1, TopFirst DEF cmd
<1>4. /\ IsEngine(p) /\ SamePlace(e, p) /\ p.calls = e.calls /\ p.iCommandId = e.iCommandId
      /\ p.iPendingCmds = e.iPendingCmds \ {cmd} /\ p.iCurrentCmd = NoCmd
    BY <1>1, PopIs
<1> HIDE DEF cmd, p
<1>5. IsEngine(p)
    BY <1>4
<1>6. IsEngine(f)
    BY <1>3, <1>5 DEF IsEngine
<1>7. /\ f.iCurrentCmd = cmd /\ f.calls = p.calls /\ f.iCommandId = p.iCommandId
      /\ f.iPendingCmds = p.iPendingCmds
    BY <1>5 DEF IsEngine
<1>8. SamePlace(p, f)
    BY <1>5 DEF IsEngine, SamePlace, SameElse
<1> HIDE DEF f
<1>9. SamePlace(e, f) /\ cmd # NoCmd
    BY <1>3, <1>4, <1>8, NoCmdAssumption DEF SamePlace, SameElse
<1>10. ASSUME cmd.type = "Sync"
       PROVE  cmd.of \in use.callers /\ Turn(e, OOTSyncCommandComplete(f))
    <2> DEFINE b == f.scheduled \/ f.iPendingCmds # {}
               r == [f EXCEPT !.iCurrentCmd = NoCmd, !.scheduled = b]
    <2>1. OOTSyncCommandComplete(f) = r
        BY <1>6 DEF OOTSyncCommandComplete, IsEngine
    <2>2. b \in BOOLEAN
        BY BooleanOr
    <2> HIDE DEF b
    <2>3. IsEngine(r)
        BY <1>6, <2>2 DEF IsEngine
    <2>4. SamePlace(f, r)
        BY <1>6 DEF IsEngine, SamePlace, SameElse
    <2>5. /\ r.iCurrentCmd = NoCmd /\ r.calls = f.calls /\ r.iCommandId = f.iCommandId
          /\ r.iPendingCmds = f.iPendingCmds
        BY <1>6 DEF IsEngine
    <2> HIDE DEF r
    <2>6. /\ SamePlace(e, r) /\ r.calls = e.calls /\ r.iCommandId = e.iCommandId
          /\ r.iPendingCmds = e.iPendingCmds \ {cmd} /\ r.iCurrentCmd = NoCmd
        BY <1>4, <1>7, <1>9, <2>4, <2>5 DEF SamePlace, SameElse
    <2>7. /\ NoneAsks(e, r) /\ Final(e, r) /\ CurrentIsOldest(r)
        BY <2>6 DEF NoneAsks, Final, CurrentIsOldest
    <2>8. Held(r) = Held(e) \ {cmd} /\ cmd.type \notin API /\ cmd \in Held(e)
        BY <1>3, <1>9, <1>10, <2>6 DEF Held, API
    <2>9. Filed(r) /\ HeldFit(r) /\ SourceWanted(r)
        BY <1>1, <2>6, <2>7, <2>8, FewerFiled DEF SamePlace, SameElse
    <2>10. Failing(r) <=> Failing(e)
        BY <1>3, <2>6 DEF Failing
    <2>11. Quiet(r)
        BY <1>2, <2>6, <2>10 DEF Quiet, SamePlace, SameElse, Executes
    <2>12. Fits(r)
        BY <1>1, <2>6, <2>9 DEF Fits, CommandsFit, SamePlace, SameElse, Ready, Fine, Good
    <2>13. Clean(e) => Clean(r)
        BY <2>6 DEF Clean, SamePlace, SameElse
    <2>14. cmd.of \in use.callers
        BY <1>1, <1>10, <2>8 DEF HeldFit
    <2> QED
        BY <2>1, <2>3, <2>7, <2>9, <2>11, <2>12, <2>13, <2>14 DEF Turn, Fine, Good, Phased
<1>11. ASSUME cmd.type # "Sync"
       PROVE  /\ Taken(f)
              /\ Clean(e) /\ ~Asked(e, "AddDataSource") =>
                    Clean(f) /\ ~Asked(f, "AddDataSource") /\ ~Executes(f, {"AddDataSource"})
    <2>1. f.iPendingCmds = e.iPendingCmds \ {cmd} /\ f.calls = e.calls
          /\ f.iCommandId = e.iCommandId /\ f.iCurrentCmd = cmd
        BY <1>4, <1>7
    <2>2. Held(f) = Held(e)
        BY <1>3, <1>9, <2>1 DEF Held
    <2>3. NoneAsks(e, f)
        BY <2>1 DEF NoneAsks
    <2>4. CurrentIsOldest(f)
        <3> SUFFICES ASSUME NEW c \in f.iPendingCmds
                     PROVE  c.id > cmd.id
            BY <2>1 DEF CurrentIsOldest
        <3>1. c \in e.iPendingCmds /\ c # cmd /\ c.type # "Sync" /\ cmd.id <= c.id
            BY <1>3, <1>11, <2>1
        <3>2. c.id # cmd.id
            BY <1>1, <1>3, <1>11, <3>1 DEF Filed, HeldIssued
        <3>3. c.id \in Nat /\ cmd.id \in Nat
            BY <1>1, <1>3, <3>1 DEF IsEngine, Command
        <3> QED
            BY <3>1, <3>2, <3>3
    <2>5. Filed(f) /\ HeldFit(f) /\ SourceWanted(f) /\ ~Failing(f)
        <3>1. f.iDataSource = e.iDataSource
            BY <1>9 DEF SamePlace, SameElse
        <3> QED
            BY <1>1, <1>3, <1>11, <2>1, <2>2, <2>3, <2>4, <3>1, FewerFiled
    <2>6. cmd.type = "AddDataSource" => ~Asked(f, "AddDataSource")
        BY <1>1, <1>3, <2>1 DEF SourceWanted, Asked
    <2>7. Executes(f, API \ Cancels)
        <3>1. cmd.type \in API \cup ErrorHandling \cup {"Sync"}
            BY <1>3 DEF Command
        <3> QED
            BY <1>3, <1>9, <1>11, <2>1, <3>1 DEF Executes
    <2>8. /\ e.asked = <<>> /\ e.iCmdToCancel = NoCmd
          /\ e.iState \in {"Idle", "Initialized"} /\ e.iSourceNode # "created"
        BY <1>2, <1>3, <1>11 DEF Quiet, Executes
    <2>9. Taken(f)
        BY <1>1, <1>6, <1>9, <2>1, <2>5, <2>6, <2>7, <2>8 DEF Taken, SamePlace, SameElse
    <2>10. ~Asked(e, "AddDataSource") =>
                ~Asked(f, "AddDataSource") /\ ~Executes(f, {"AddDataSource"})
        BY <1>3, <2>1 DEF Asked, Executes
    <2> QED
        BY <1>9, <2>9, <2>10 DEF Clean, SamePlace, SameElse
<1> QED
    BY <1>4, <1>6, <1>7, <1>9, <1>10, <1>11 DEF cmd, p, f

(* Trying the next alternate format of the source.                         *)
LEMMA RollOverRuns ==
    ASSUME NEW e, Ready(e), e.iRollOverState = "Start", NEW found
    PROVE  Turn(e, DoSourceNodeRollOver(e, found))
<1> DEFINE k == e.iAlternateSrcFormatIndex + 1
           n == [e EXCEPT !.iSourceNode = "none", !.iAlternateSrcFormatIndex = k]
<1>1. /\ IsEngine(e) /\ Filed(e) /\ HeldFit(e) /\ SourceWanted(e)
      /\ use.alternates > 0 /\ e.iDataSource /\ Fine(e)
    BY DEF Ready, Fine, Good, Fits, CommandsFit
<1>2. Quiet(e)
    BY DEF Ready, Asking
<1>3. Executes(e, {"Init"}) /\ Executes(e, Adds) /\ e.iCurrentCmd # NoCmd
      /\ e.asked = <<>> /\ e.iCmdToCancel = NoCmd
    BY <1>2 DEF Quiet, Executes, Adds
<1>4. ~Failing(e)
    <2> SUFFICES ASSUME Failing(e)
                 PROVE  FALSE
        OBVIOUS
    <2>1. use.errors > 0
        BY <1>2 DEF Quiet
    <2>2. use.callers = {}
        BY <1>1, <2>1 DEF Ready, Separate
    <2>3. \A d \in e.iPendingCmds : d.type # "Sync"
        BY <1>1, <2>2, NoCmdAssumption DEF HeldFit, Held, IsEngine
    <2>4. e.iPendingCmds # {}
        BY DEF Failing
    <2>5. Top(e).type \in ErrorHandling
        BY <1>1, <2>3, <2>4, TopFirst
    <2> QED
        BY <2>4, <2>5 DEF Ready, CheckForPendingErrorHandlingCmd, TopIsIn
<1>5. e.iState = "Idle" /\ ~Asked(e, "AddDataSource") /\ ~Clean(e)
    <2>1. ~Asked(e, "AddDataSource")
        BY <1>3 DEF Ready, Fine, Good, Fits, CommandsFit
    <2> QED
        BY <1>1, <1>2, <1>4, <2>1 DEF Quiet, Clean
<1>6. IsEngine(n) /\ SameCommands(e, n)
      /\ n.asked = e.asked /\ n.iCmdToCancel = e.iCmdToCancel /\ n.iState = e.iState
      /\ n.iRollOverState = e.iRollOverState /\ n.iDataSource = e.iDataSource
      /\ n.iSourceNode = "none"
    <2>1. IsEngine(e)
        BY <1>1
    <2>2. k \in Nat
        BY <2>1 DEF IsEngine
    <2> HIDE DEF k
    <2>3. IsEngine(n)
        BY <2>1, <2>2 DEF IsEngine
    <2>4. SameCommands(e, n)
        BY <2>1 DEF IsEngine, SameCommands
    <2>5. /\ n.asked = e.asked /\ n.iCmdToCancel = e.iCmdToCancel /\ n.iState = e.iState
          /\ n.iRollOverState = e.iRollOverState /\ n.iDataSource = e.iDataSource
          /\ n.iSourceNode = "none"
        BY <2>1 DEF IsEngine
    <2> QED
        BY <2>3, <2>4, <2>5
<1>7. IsEngine(n)
    BY <1>6
<1>8. n.iCurrentCmd = e.iCurrentCmd
    BY <1>6 DEF SameCommands
<1>9. DoSourceNodeRollOver(e, found) =
        CASE CheckForSourceRollOver(e) /\ found ->
                [DoSetupSourceNode(n, TRUE) EXCEPT !.iRollOverState = "InProgress"]
          [] CheckForSourceRollOver(n) /\ ~found -> [n EXCEPT !.scheduled = TRUE]
          [] OTHER -> [AddCommandToQueue(n, "EHInit", 0) EXCEPT !.iRollOverState = "Idle"]
    BY DEF DoSourceNodeRollOver
<1> HIDE DEF n
<1>10. CASE CheckForSourceRollOver(e) /\ found
    <2> DEFINE u == [n EXCEPT !.iSourceNode = "ready"]
               a == Ask(u, "QueryInitIF")
               r == [a EXCEPT !.iRollOverState = "InProgress"]
    <2>1. DoSourceNodeRollOver(e, found) = r
        BY <1>9, <1>10 DEF DoSetupSourceNode
    <2>2. IsEngine(u)
        BY <1>7 DEF IsEngine
    <2>3. SameCommands(n, u)
        BY <1>7 DEF IsEngine, SameCommands
    <2>4. /\ u.asked = n.asked /\ u.iCmdToCancel = n.iCmdToCancel /\ u.iState = n.iState
          /\ u.iDataSource = n.iDataSource /\ u.iSourceNode = "ready"
        BY <1>7 DEF IsEngine
    <2> HIDE DEF u
    <2>5. "QueryInitIF" \in Questions /\ "QueryInitIF" \notin Initial
        BY DEF Questions, Initial
    <2>6. u.asked = <<>> /\ u.iCurrentCmd = e.iCurrentCmd
        BY <1>3, <1>6, <1>8, <2>3, <2>4 DEF SameCommands
    <2>7. PICK q \in [type : Questions, id : Nat] :
            /\ q.type = "QueryInitIF" /\ (u.iCurrentCmd # NoCmd => q.id = u.iCurrentCmd.id)
            /\ IsEngine(a) /\ SameCommands(u, a) /\ SameElse(u, a) /\ a.asked = <<q>>
        BY <2>2, <2>5, <2>6, AskIs
    <2> HIDE DEF a
    <2>8. IsEngine(a)
        BY <2>7
    <2>9. IsEngine(r)
        BY <2>8 DEF IsEngine
    <2>10. SameCommands(a, r)
        BY <2>8 DEF IsEngine, SameCommands
    <2>11. /\ r.asked = a.asked /\ r.iCmdToCancel = a.iCmdToCancel /\ r.iState = a.iState
           /\ r.iRollOverState = "InProgress" /\ r.iSourceNode = a.iSourceNode
           /\ r.iDataSource = a.iDataSource
        BY <2>8 DEF IsEngine
    <2> HIDE DEF r
    <2>12. SameCommands(e, r)
        BY <1>6, <2>3, <2>7, <2>10 DEF SameCommands
    <2>13. /\ r.asked = <<q>> /\ r.iCmdToCancel = NoCmd /\ r.iState = "Idle"
           /\ r.iSourceNode = "ready" /\ r.iDataSource /\ q.id = e.iCurrentCmd.id
        BY <1>1, <1>3, <1>5, <1>6, <2>4, <2>6, <2>7, <2>11 DEF SameElse
    <2>14. Fine(r) /\ Final(e, r) /\ NoneAsks(e, r)
        BY <1>1, <1>3, <1>4, <1>5, <2>5, <2>7, <2>9, <2>11, <2>12, <2>13, AsksNext
    <2> QED
        BY <1>5, <2>1, <2>14 DEF Turn
<1>11. CASE ~found /\ CheckForSourceRollOver(n)
    <2> DEFINE r == [n EXCEPT !.scheduled = TRUE]
    <2>1. DoSourceNodeRollOver(e, found) = r
        BY <1>9, <1>11
    <2>2. IsEngine(r)
        BY <1>7 DEF IsEngine
    <2>3. SameCommands(n, r)
        BY <1>7 DEF IsEngine, SameCommands
    <2>4. /\ r.asked = n.asked /\ r.iCmdToCancel = n.iCmdToCancel /\ r.iState = n.iState
          /\ r.iRollOverState = n.iRollOverState /\ r.iSourceNode = n.iSourceNode
          /\ r.iDataSource = n.iDataSource
        BY <1>7 DEF IsEngine
    <2> HIDE DEF r
    <2>5. SameCommands(e, r)
        BY <1>6, <2>3 DEF SameCommands
    <2>6. /\ Filed(r) /\ ~Failing(r) /\ Executes(r, Adds) /\ Executes(r, {"Init"})
          /\ HeldFit(r) /\ ~Asked(r, "AddDataSource") /\ SourceWanted(r)
        BY <1>1, <1>3, <1>4, <1>5, <2>5, SameFiled
    <2>7. Quiet(r)
        BY <1>3, <1>5, <1>6, <2>4, <2>6 DEF Quiet
    <2>8. Fits(r)
        BY <1>1, <1>6, <2>4, <2>6 DEF Fits, CommandsFit
    <2>9. Final(e, r) /\ NoneAsks(e, r)
        BY <2>5 DEF Final, NoneAsks, SameCommands
    <2> QED
        BY <1>5, <2>1, <2>2, <2>6, <2>7, <2>8, <2>9 DEF Turn, Fine, Good, Phased
<1>12. CASE ~(CheckForSourceRollOver(e) /\ found) /\ ~(~found /\ CheckForSourceRollOver(n))
    <2> DEFINE r == [AddCommandToQueue(n, "EHInit", 0) EXCEPT !.iRollOverState = "Idle"]
    <2>1. DoSourceNodeRollOver(e, found) = r
        BY <1>9, <1>12
    <2>2. "EHInit" \in ErrorHandling \ {"EHGeneral"}
        BY DEF ErrorHandling
    <2>3. n.asked = <<>> /\ n.iCmdToCancel = NoCmd /\ n.iDataSource
        BY <1>1, <1>3, <1>6
    <2>4. Fine(r) /\ Final(e, r) /\ NoneAsks(e, r)
        BY <1>1, <1>3, <1>5, <1>7, <1>6, <2>2, <2>3, FailsNext
    <2> QED
        BY <1>5, <2>1, <2>4 DEF Turn
<1> QED
    BY <1>10, <1>11, <1>12

(* Handling an error: the node is reset, and when it is, the command that  *)
(* failed is completed.                                                    *)
LEMMA ErrorRuns ==
    ASSUME NEW e, Fine(e), e.iState # "Resetting", CheckForPendingErrorHandlingCmd(e)
    PROVE  LET r == DoErrorHandling(e)
           IN  Fine(r) /\ Final(e, r) /\ NoneAsks(e, r)
<1>1. /\ IsEngine(e) /\ Filed(e) /\ HeldFit(e) /\ SourceWanted(e)
      /\ e.iSourceNode # "none" => e.iDataSource
    BY DEF Fine, Good, Fits, CommandsFit
<1>2. /\ e.iPendingCmds # {} /\ Top(e) \in e.iPendingCmds /\ Top(e) \in Command
      /\ Top(e).type \in ErrorHandling /\ Failing(e)
    <2>1. e.iPendingCmds # {} /\ Top(e).type \in ErrorHandling
        BY DEF CheckForPendingErrorHandlingCmd, TopIsIn
    <2>2. Top(e) \in e.iPendingCmds /\ Top(e) \in Command
        BY <1>1, <2>1, TopFirst
    <2> QED
        BY <2>1, <2>2 DEF Failing
<1>3. Quiet(e)
    BY <1>2 DEF Fine, Good, Phased, Asking, Cancelling, Resetting
<1>4. e.asked = <<>> /\ e.iCmdToCancel = NoCmd
      /\ (e.iCurrentCmd # NoCmd => Executes(e, Adds))
    BY <1>2, <1>3 DEF Quiet
<1>5. CASE e.iSourceNode = "ready"
    <2> DEFINE f == ResetSourceNode(e)
               r == [f EXCEPT !.iRollOverState = "Idle"]
    <2>1. DoErrorHandling(e) = r
        BY <1>5 DEF DoErrorHandling
    <2>2. /\ IsEngine(f) /\ SameCommands(e, f) /\ f.iState = "Resetting"
          /\ f.iCmdToCancel = NoCmd /\ f.iSourceNode = "ready" /\ f.iDataSource = e.iDataSource
          /\ Len(f.asked) = 1 /\ f.asked[1].type = "Reset"
        BY <1>1, <1>4, <1>5, ResetIs
    <2> HIDE DEF f
    <2>3. IsEngine(f)
        BY <2>2
    <2>4. IsEngine(r)
        BY <2>3 DEF IsEngine
    <2>5. SameCommands(f, r)
        BY <2>3 DEF IsEngine, SameCommands
    <2>6. /\ r.asked = f.asked /\ r.iCmdToCancel = f.iCmdToCancel /\ r.iState = f.iState
          /\ r.iRollOverState = "Idle" /\ r.iSourceNode = f.iSourceNode
          /\ r.iDataSource = f.iDataSource
        BY <2>3 DEF IsEngine
    <2> HIDE DEF r
    <2>7. SameCommands(e, r)
        BY <2>2, <2>5 DEF SameCommands
    <2>8. /\ r.iState = "Resetting" /\ r.iCmdToCancel = NoCmd /\ r.iSourceNode = "ready"
          /\ r.iDataSource /\ e.iDataSource /\ Len(r.asked) = 1 /\ r.asked[1].type = "Reset"
        BY <1>1, <1>5, <2>2, <2>6
    <2>9. Fine(r) /\ Final(e, r) /\ NoneAsks(e, r)
        BY <1>1, <1>2, <1>4, <1>5, <2>4, <2>6, <2>7, <2>8, NodeResets
    <2> QED
        BY <2>1, <2>9
<1>6. CASE e.iSourceNode # "ready"
    <2> DEFINE d == [RemoveDataSourceSync(e) EXCEPT !.iState = "Idle"]
               t == IF e.iCurrentCmd = NoCmd THEN d ELSE EngineCommandCompleted(d, "failure")
               p == Pop(t)
               r == [p EXCEPT !.scheduled = TRUE]
    <2>1. DoErrorHandling(e) = r
        BY <1>6 DEF DoErrorHandling
    <2>2. /\ IsEngine(d) /\ SameCommands(e, d) /\ d.asked = <<>> /\ d.iCmdToCancel = NoCmd
          /\ d.iState = "Idle" /\ d.iRollOverState = e.iRollOverState
          /\ d.iSourceNode = "none" /\ ~d.iDataSource
        BY <1>1, <1>4, RemovedIs
    <2> HIDE DEF d
    <2>3. e.iRollOverState = "Idle"
        BY <1>2, <1>3, <1>6 DEF Quiet, IsEngine, Fine
    <2>4. /\ IsEngine(t) /\ Filed(t) /\ HeldFit(t) /\ SourceWanted(t) /\ SamePlace(d, t)
          /\ t.iCurrentCmd = NoCmd /\ t.iPendingCmds = e.iPendingCmds
          /\ Final(e, t) /\ NoneAsks(e, t)
        <3>1. CASE e.iCurrentCmd = NoCmd
            <4>1. t = d
                BY <3>1
            <4> HIDE DEF t
            <4>2. Filed(d) /\ HeldFit(d) /\ SourceWanted(d)
                BY <1>1, <2>2, SameFiled
            <4>3. Final(e, d) /\ NoneAsks(e, d)
                BY <2>2 DEF Final, NoneAsks, SameCommands
            <4> QED
                BY <2>2, <3>1, <4>1, <4>2, <4>3 DEF SamePlace, SameElse, SameCommands
        <3>2. CASE e.iCurrentCmd # NoCmd
            <4>1. t = EngineCommandCompleted(d, "failure")
                BY <3>2
            <4> HIDE DEF t
            <4>2. "failure" \in Statuses \ {"asked"} /\ Executes(e, API)
                BY <1>4, <3>2 DEF Statuses, Faults, Executes, Adds, API
            <4>3. /\ IsEngine(t) /\ SamePlace(d, t) /\ Filed(t) /\ CommandsFit(t)
                  /\ t.iCurrentCmd = NoCmd /\ t.iPendingCmds = e.iPendingCmds
                  /\ Final(e, t) /\ NoneAsks(e, t)
                BY <1>1, <2>2, <4>1, <4>2, EndsIt
            <4> QED
                BY <4>3 DEF CommandsFit
        <3> QED
            BY <3>1, <3>2
    <2> HIDE DEF t
    <2>5. Top(t) = Top(e)
        BY <2>4 DEF Top
    <2>6. /\ IsEngine(p) /\ SamePlace(t, p) /\ p.iCurrentCmd = t.iCurrentCmd
          /\ p.calls = t.calls /\ p.iCommandId = t.iCommandId
          /\ p.iPendingCmds = t.iPendingCmds \ {Top(e)}
        BY <1>2, <2>4, <2>5, PopIs
    <2> HIDE DEF p
    <2>7. IsEngine(p)
        BY <2>6
    <2>8. IsEngine(r)
        BY <2>7 DEF IsEngine
    <2>9. SameCommands(p, r)
        BY <2>7 DEF IsEngine, SameCommands
    <2>10. SamePlace(p, r)
        BY <2>7 DEF IsEngine, SamePlace, SameElse
    <2> HIDE DEF r
    <2>11. /\ r.iCurrentCmd = NoCmd /\ r.calls = t.calls /\ r.iCommandId = t.iCommandId
           /\ r.iPendingCmds = t.iPendingCmds \ {Top(e)}
        BY <2>4, <2>6, <2>9 DEF SameCommands
    <2>12. /\ r.asked = <<>> /\ r.iCmdToCancel = NoCmd /\ r.iState = "Idle"
           /\ r.iRollOverState = "Idle" /\ r.iSourceNode = "none" /\ ~r.iDataSource
        BY <2>2, <2>3, <2>4, <2>6, <2>10 DEF SamePlace, SameElse
    <2>13. NoneAsks(t, r) /\ CurrentIsOldest(r)
        BY <2>11 DEF NoneAsks, CurrentIsOldest
    <2>14. Held(r) = Held(t) \ {Top(e)} /\ Top(e).type \notin API
        BY <1>2, <2>4, <2>11, NoCmdAssumption DEF Held, API, ErrorHandling
    <2>15. Filed(r) /\ HeldFit(r) /\ SourceWanted(r)
        BY <2>4, <2>11, <2>12, <2>13, <2>14, FewerFiled
    <2>16. Quiet(r)
        BY <2>11, <2>12 DEF Quiet
    <2>17. Fits(r)
        BY <2>11, <2>12, <2>15 DEF Fits, CommandsFit
    <2>18. Final(e, r) /\ NoneAsks(e, r)
        <3>1. NoneAsks(e, r)
            BY <2>4, <2>11 DEF NoneAsks
        <3>2. Clean(t) => Clean(r)
            BY <2>12 DEF Clean
        <3>3. \A id : NoneOlder(t, id) => NoneOlder(r, id)
            BY <2>11 DEF NoneOlder
        <3> QED
            BY <2>4, <2>11, <3>1, <3>2, <3>3 DEF Final
    <2> QED
        BY <2>1, <2>8, <2>15, <2>16, <2>17, <2>18 DEF Fine, Good, Phased
<1> QED
    BY <1>5, <1>6
-----------------------------------------------------------------------------
(* Cancels.                                                                *)

(* Commands cmds are cancelled, no other's end is changed.                 *)
Stopped(e, r, cmds) ==
    /\ DOMAIN r.calls = DOMAIN e.calls
    /\ \A id \in DOMAIN e.calls :
        /\ r.calls[id].type = e.calls[id].type
        /\ r.calls[id].status \in {e.calls[id].status, "cancelled"}
    /\ \A c \in cmds : c.id \in DOMAIN e.calls => r.calls[c.id].status = "cancelled"

LEMMA CancelPendingIs ==
    ASSUME NEW e, IsEngine(e), NEW cmds \in SUBSET e.iPendingCmds
    PROVE  LET r == CancelPending(e, cmds)
           IN  /\ IsEngine(r) /\ SamePlace(e, r) /\ Stopped(e, r, cmds)
               /\ r.iCurrentCmd = e.iCurrentCmd /\ r.iCommandId = e.iCommandId
               /\ r.iPendingCmds = e.iPendingCmds \ cmds
<1> DEFINE ids == {c.id : c \in cmds}
           f == [id \in DOMAIN e.calls |-> IF id \in ids
                                           THEN [e.calls[id] EXCEPT !.status = "cancelled"]
                                           ELSE e.calls[id]]
           p == e.iPendingCmds \ cmds
           b == e.scheduled \/ (cmds # {} /\ p # {})
           r == [e EXCEPT !.iPendingCmds = p, !.calls = f, !.scheduled = b]
<1>1. CancelPending(e, cmds) = r
    BY DEF CancelPending, IsEngine
<1>2. b \in BOOLEAN
    BY BooleanOr
<1>3. p \subseteq Command
    BY DEF IsEngine
<1>4. \A c \in cmds : c.id \in ids
    OBVIOUS
<1> HIDE DEF ids
<1>5. DOMAIN f = DOMAIN e.calls
      /\ \A id \in DOMAIN e.calls :
            f[id] = IF id \in ids THEN [e.calls[id] EXCEPT !.status = "cancelled"]
                    ELSE e.calls[id]
    OBVIOUS
<1>6. "cancelled" \in Statuses
    BY DEF Statuses
<1>7. \A id \in DOMAIN e.calls :
        /\ f[id] \in [type : API, status : Statuses] /\ f[id].type = e.calls[id].type
        /\ f[id].status = IF id \in ids THEN "cancelled" ELSE e.calls[id].status
    <2> HIDE DEF f
    <2> SUFFICES ASSUME NEW id \in DOMAIN e.calls
                 PROVE  /\ f[id] \in [type : API, status : Statuses]
                        /\ f[id].type = e.calls[id].type
                        /\ f[id].status = IF id \in ids THEN "cancelled" ELSE e.calls[id].status
        OBVIOUS
    <2> DEFINE c == [e.calls[id] EXCEPT !.status = "cancelled"]
    <2>1. /\ e.calls[id] \in [type : API, status : Statuses]
          /\ c \in [type : API, status : Statuses]
          /\ c.type = e.calls[id].type /\ c.status = "cancelled"
        BY <1>6, CallTyped
    <2>2. f[id] = IF id \in ids THEN c ELSE e.calls[id]
        BY <1>5
    <2> HIDE DEF c
    <2> QED
        BY <2>1, <2>2
<1>8. f \in [DOMAIN e.calls -> [type : API, status : Statuses]]
    <2> DEFINE S == [type : API, status : Statuses]
    <2>1. \A id \in DOMAIN e.calls : f[id] \in S
        BY <1>7
    <2> HIDE DEF S
    <2>2. f \in [DOMAIN e.calls -> S]
        BY <2>1
    <2> QED
        BY <2>2 DEF S
<1> HIDE DEF f, p, b
<1>9. IsEngine(r)
    BY <1>2, <1>3, <1>5, <1>8 DEF IsEngine
<1>10. SamePlace(e, r)
    BY DEF SamePlace, SameElse, IsEngine
<1>11. /\ r.iCurrentCmd = e.iCurrentCmd /\ r.iCommandId = e.iCommandId
       /\ r.iPendingCmds = p /\ r.calls = f
    BY DEF IsEngine
<1> HIDE DEF r
<1>12. Stopped(e, r, cmds)
    BY <1>4, <1>5, <1>7, <1>11 DEF Stopped
<1> QED
    BY <1>1, <1>9, <1>10, <1>11, <1>12 DEF r, p

(* What a cancel on top of the queue says of the engine.                   *)
LEMMA CancelOnTop ==
    ASSUME NEW e, Ready(e), TopIsIn(e, Cancels)
    PROVE  /\ Top(e) \in e.iPendingCmds /\ Top(e) \in Command /\ Top(e) # NoCmd
           /\ Top(e).type \in Cancels /\ e.iPendingCmds # {}
           /\ Top(e).id \in DOMAIN e.calls /\ e.calls[Top(e).id].type = Top(e).type
           /\ \A d \in e.iPendingCmds : d.type # "Sync"
           /\ IsEngine(e) /\ Filed(e) /\ HeldFit(e) /\ SourceWanted(e) /\ CommandsFit(e)
           /\ ~Failing(e) /\ ~use.unknown /\ e.iRollOverState = "Idle"
           /\ e.iSourceNode # "none" => e.iDataSource
           /\ \/ Asking(e)
              \/ /\ e.iCurrentCmd = NoCmd /\ e.asked = <<>> /\ e.iCmdToCancel = NoCmd
                 /\ Quiet(e) /\ e.iSourceNode # "created"
<1> DEFINE cmd == Top(e)
<1>1. /\ IsEngine(e) /\ Filed(e) /\ HeldFit(e) /\ SourceWanted(e) /\ CommandsFit(e)
      /\ e.iSourceNode # "none" => e.iDataSource
      /\ e.iRollOverState # "Idle" => use.alternates > 0
    BY DEF Ready, Fine, Good, Fits, CommandsFit
<1>2. cmd.type \in Cancels /\ e.iPendingCmds # {}
    BY DEF TopIsIn
<1> HIDE DEF cmd
<1>3. cmd.type \notin ErrorHandling \cup {"Sync"} /\ cmd.type \in API
    BY <1>2 DEF Cancels, ErrorHandling, API
<1>4. /\ cmd \in e.iPendingCmds /\ cmd \in Command /\ ~Failing(e)
      /\ \A d \in e.iPendingCmds : d.type # "Sync"
    BY <1>1, <1>2, <1>3, TopFirst DEF cmd
<1>5. cmd # NoCmd /\ cmd \in Held(e)
    BY <1>4, NoCmdAssumption DEF Held
<1>6. cmd.id \in DOMAIN e.calls /\ e.calls[cmd.id].type = cmd.type
    BY <1>1, <1>3, <1>5 DEF Filed, HeldIssued
<1>7. cmd.type \in use.commands \cap Cancels
    BY <1>1, <1>2, <1>3, <1>5 DEF HeldFit
<1>8. ~use.unknown /\ ~(use.alternates > 0)
    BY <1>7 DEF Ready, Separate
<1>9. e.iRollOverState = "Idle"
    BY <1>1, <1>8
<1>10. Quiet(e) => /\ e.iCurrentCmd = NoCmd /\ e.asked = <<>> /\ e.iCmdToCancel = NoCmd
                   /\ e.iSourceNode # "created"
    BY <1>4, <1>9 DEF Quiet, Ready
<1> QED
    BY <1>1, <1>2, <1>4, <1>5, <1>6, <1>8, <1>9, <1>10 DEF Ready, cmd

(* Nothing but pending commands are completed.                             *)
LEMMA CancelKeeps ==
    ASSUME NEW e, Ready(e), TopIsIn(e, Cancels),
           NEW r, IsEngine(r), SamePlace(e, r), r.iCurrentCmd = e.iCurrentCmd,
           r.iCommandId = e.iCommandId, r.iPendingCmds \subseteq e.iPendingCmds,
           NoneAsks(e, r),
           \A c \in e.iPendingCmds \ r.iPendingCmds :
                c.type \in API => r.calls[c.id].status # "asked",
           \A id \in DOMAIN e.calls :
                e.calls[id].status = "asked" /\ r.calls[id].status = "success"
                    => e.calls[id].type = "Cancel"
    PROVE  Turn(e, r)
<1>1. /\ IsEngine(e) /\ Filed(e) /\ HeldFit(e) /\ SourceWanted(e) /\ CommandsFit(e)
      /\ ~Failing(e) /\ e.iRollOverState = "Idle"
      /\ e.iSourceNode # "none" => e.iDataSource
      /\ Asking(e) \/ Quiet(e)
    BY CancelOnTop
<1>2. Held(r) \subseteq Held(e) /\ Held(e) \ Held(r) \subseteq e.iPendingCmds \ r.iPendingCmds
    BY DEF Held
<1>3. CurrentIsOldest(r)
    BY <1>1 DEF CurrentIsOldest, Filed
<1>4. \A c \in Held(e) \ Held(r) : c.type \in API => r.calls[c.id].status # "asked"
    BY <1>2
<1>5. r.iDataSource = e.iDataSource
    BY DEF SamePlace, SameElse
<1>6. Filed(r) /\ HeldFit(r) /\ SourceWanted(r) /\ ~Failing(r)
    BY <1>1, <1>2, <1>3, <1>4, <1>5, FewerFiled
<1>7. CommandsFit(r)
    BY <1>1, <1>6 DEF CommandsFit, Asked
<1>8. Fits(r)
    BY <1>1, <1>7 DEF Fits, SamePlace, SameElse
<1>9. \A types : Executes(r, types) <=> Executes(e, types)
    BY DEF Executes
<1>10. Quiet(e) => Quiet(r)
    BY <1>1, <1>6, <1>9 DEF Quiet, SamePlace, SameElse
<1>11. Asking(e) => Asking(r)
    BY <1>1, <1>6, <1>9 DEF Asking, Asks, SamePlace, SameElse
<1>12. Final(e, r)
    BY DEF Final
<1>13. Clean(e) => Clean(r)
    BY DEF Clean, SamePlace, SameElse
<1> QED
    BY <1>1, <1>6, <1>8, <1>10, <1>11, <1>12, <1>13 DEF Turn, Fine, Good, Phased

LEMMA CancelCommandRuns ==
    ASSUME NEW e, Ready(e), TopIsIn(e, Cancels), Top(e).type = "Cancel"
    PROVE  Turn(e, DoCancelCommand(Pop(e), Top(e)))
<1> DEFINE cmd == Top(e)
           p == Pop(e)
           meant == {c \in p.iPendingCmds : c.id = cmd.of}
           q == IF meant = {} THEN p ELSE CancelPending(p, meant)
           st == IF meant = {} THEN "argument" ELSE "success"
           r == Tell(q, cmd.id, st)
<1>1. DoCancelCommand(p, cmd) = r
    BY DEF DoCancelCommand
<1>2. /\ cmd \in e.iPendingCmds /\ cmd.id \in DOMAIN e.calls
      /\ e.calls[cmd.id].type = "Cancel"
      /\ IsEngine(e) /\ Filed(e) /\ e.iPendingCmds # {}
    BY CancelOnTop
<1>3. /\ IsEngine(p) /\ SamePlace(e, p) /\ p.iCurrentCmd = e.iCurrentCmd
      /\ p.calls = e.calls /\ p.iCommandId = e.iCommandId
      /\ p.iPendingCmds = e.iPendingCmds \ {cmd}
    BY <1>2, PopIs
<1> HIDE DEF cmd, p
<1>4. meant \in SUBSET p.iPendingCmds
    OBVIOUS
<1> HIDE DEF meant
<1>5. /\ IsEngine(q) /\ SamePlace(p, q) /\ q.iCurrentCmd = p.iCurrentCmd
      /\ q.iCommandId = p.iCommandId /\ q.iPendingCmds = p.iPendingCmds \ meant
      /\ Stopped(p, q, meant)
    <2>1. CASE meant = {}
        BY <1>3, <2>1 DEF SamePlace, SameElse, Stopped
    <2>2. CASE meant # {}
        <3>1. q = CancelPending(p, meant)
            BY <2>2
        <3> HIDE DEF q
        <3> QED
            BY <1>3, <1>4, <3>1, CancelPendingIs
    <2> QED
        BY <2>1, <2>2
<1>6. st \in {"argument", "success"} /\ st \in Statuses
    BY DEF Statuses
<1> HIDE DEF q, st
<1>7. cmd.id \in DOMAIN q.calls
    BY <1>2, <1>3, <1>5 DEF Stopped
<1>8. /\ IsEngine(r) /\ SamePlace(q, r) /\ Told(q, r, cmd.id, st)
      /\ r.iCurrentCmd = q.iCurrentCmd /\ r.iPendingCmds = q.iPendingCmds
      /\ r.iCommandId = q.iCommandId
    BY <1>5, <1>6, <1>7, TellIs
<1> HIDE DEF r
<1>9. SamePlace(e, r) /\ r.iCurrentCmd = e.iCurrentCmd /\ r.iCommandId = e.iCommandId
      /\ r.iPendingCmds = e.iPendingCmds \ ({cmd} \cup meant)
    BY <1>3, <1>5, <1>8 DEF SamePlace, SameElse
<1>10. NoneAsks(e, r)
    BY <1>3, <1>5, <1>6, <1>8 DEF NoneAsks, Told, Stopped
<1>11. ASSUME NEW c \in e.iPendingCmds \ r.iPendingCmds, c.type \in API
       PROVE  r.calls[c.id].status # "asked"
    <2>1. c.id \in DOMAIN e.calls
        BY <1>2, <1>11, NoCmdAssumption DEF Filed, HeldIssued, Held, IsEngine
    <2>2. c = cmd \/ c \in meant
        BY <1>9
    <2>3. c.id # cmd.id => q.calls[c.id].status = "cancelled"
        BY <1>3, <1>5, <2>1, <2>2 DEF Stopped
    <2> QED
        BY <1>3, <1>5, <1>6, <1>8, <2>1, <2>3 DEF Told, Stopped
<1>12. ASSUME NEW id \in DOMAIN e.calls, e.calls[id].status = "asked",
              r.calls[id].status = "success"
       PROVE  e.calls[id].type = "Cancel"
    <2>1. id = cmd.id
        BY <1>3, <1>5, <1>8, <1>12 DEF Told, Stopped
    <2> QED
        BY <1>2, <2>1
<1>13. Turn(e, r)
    BY <1>8, <1>9, <1>10, <1>11, <1>12, CancelKeeps
<1> QED
    BY <1>1, <1>13 DEF cmd, p

(* A cancel of all commands, or of the current one: what it makes of the   *)
(* engine before it turns to the node.                                     *)
AllStopped(e, f) ==
    /\ IsEngine(f) /\ f.asked = e.asked /\ f.iCmdToCancel = e.iCurrentCmd
    /\ f.iState = "Resetting" /\ f.iRollOverState = "Idle"
    /\ f.iSourceNode = e.iSourceNode /\ f.iDataSource = e.iDataSource
    /\ f.iCurrentCmd = Top(e) /\ Executes(f, Cancels)
    /\ Filed(f) /\ HeldFit(f) /\ SourceWanted(f) /\ ~Failing(f)
    /\ Asked(f, "AddDataSource") => Asked(e, "AddDataSource")
    /\ NoneAsks(e, f)
    /\ \A id \in DOMAIN e.calls :
        e.calls[id].status = "asked" => f.calls[id].status # "success"

LEMMA AllAreStopped ==
    ASSUME NEW e, Ready(e), TopIsIn(e, Cancels)
    PROVE  \E f : AllStopped(e, f) /\
             DoCancelAllCommands(Pop(e), Top(e)) =
                CASE e.iCurrentCmd # NoCmd -> DoCancelCommandBeingProcessed(f)
                  [] e.iCurrentCmd = NoCmd /\ e.iSourceNode = "ready" -> ResetSourceNode(f)
                  [] OTHER -> EngineCommandCompleted(
                        [RemoveDataSourceSync(f) EXCEPT !.iState = "Idle"], "success")
<1> DEFINE cmd == Top(e)
           p == Pop(e)
           older == {c \in p.iPendingCmds : c.id < cmd.id}
           s == [p EXCEPT !.iState = "Resetting", !.iRollOverState = "Idle",
                          !.iCmdToCancel = p.iCurrentCmd]
           t == IF p.iCurrentCmd = NoCmd THEN s ELSE EngineCommandCompleted(s, "cancelled")
           u == CancelPending(t, older)
           f == [u EXCEPT !.iCurrentCmd = cmd]
<1>1. DoCancelAllCommands(p, cmd) =
        CASE p.iCurrentCmd # NoCmd -> DoCancelCommandBeingProcessed(f)
          [] p.iCurrentCmd = NoCmd /\ p.iSourceNode = "ready" -> ResetSourceNode(f)
          [] OTHER -> EngineCommandCompleted(
                [RemoveDataSourceSync(f) EXCEPT !.iState = "Idle"], "success")
    BY DEF DoCancelAllCommands
<1>2. /\ cmd \in e.iPendingCmds /\ cmd \in Command /\ cmd # NoCmd /\ cmd.type \in Cancels
      /\ e.iPendingCmds # {} /\ \A d \in e.iPendingCmds : d.type # "Sync"
      /\ IsEngine(e) /\ Filed(e) /\ HeldFit(e) /\ SourceWanted(e) /\ ~Failing(e)
      /\ e.iCurrentCmd # NoCmd => Executes(e, Adds)
    BY CancelOnTop DEF Asking
<1>3. /\ IsEngine(p) /\ SamePlace(e, p) /\ p.iCurrentCmd = e.iCurrentCmd
      /\ p.calls = e.calls /\ p.iCommandId = e.iCommandId
      /\ p.iPendingCmds = e.iPendingCmds \ {cmd}
    BY <1>2, PopIs
<1> HIDE DEF cmd, p
<1>4. IsEngine(p)
    BY <1>3
<1>5. IsEngine(s)
    BY <1>4 DEF IsEngine
<1>6. SameCommands(p, s)
    BY <1>4 DEF IsEngine, SameCommands
<1>7. /\ s.asked = p.asked /\ s.iCmdToCancel = p.iCurrentCmd /\ s.iState = "Resetting"
      /\ s.iRollOverState = "Idle" /\ s.iSourceNode = p.iSourceNode
      /\ s.iDataSource = p.iDataSource
    BY <1>4 DEF IsEngine
<1> HIDE DEF s
<1>8. s.iCurrentCmd = e.iCurrentCmd /\ s.calls = e.calls
    BY <1>3, <1>6 DEF SameCommands
<1>9. e.iCurrentCmd # NoCmd => e.iCurrentCmd.id \in DOMAIN e.calls
    BY <1>2 DEF Filed, HeldIssued, Held, Executes, Adds, API
<1>10. /\ IsEngine(t) /\ SamePlace(s, t) /\ t.iCurrentCmd = NoCmd
       /\ t.iPendingCmds = s.iPendingCmds /\ t.iCommandId = s.iCommandId
       /\ IF e.iCurrentCmd = NoCmd THEN t.calls = s.calls
          ELSE Told(s, t, e.iCurrentCmd.id, "cancelled")
    <2>1. CASE e.iCurrentCmd = NoCmd
        <3>1. t = s
            BY <1>3, <2>1
        <3> HIDE DEF t
        <3> QED
            BY <1>5, <1>8, <2>1, <3>1 DEF SamePlace, SameElse
    <2>2. CASE e.iCurrentCmd # NoCmd
        <3>1. t = EngineCommandCompleted(s, "cancelled")
            BY <1>3, <2>2
        <3> HIDE DEF t
        <3>2. "cancelled" \in Statuses
            BY DEF Statuses
        <3>3. s.iCurrentCmd.id \in DOMAIN s.calls
            BY <1>8, <1>9, <2>2
        <3>4. /\ IsEngine(t) /\ SamePlace(s, t) /\ t.iCurrentCmd = NoCmd
              /\ t.iPendingCmds = s.iPendingCmds /\ t.iCommandId = s.iCommandId
              /\ Told(s, t, s.iCurrentCmd.id, "cancelled")
            BY <1>5, <3>1, <3>2, <3>3, EndedIs
        <3> QED
            BY <1>8, <2>2, <3>4
    <2> QED
        BY <2>1, <2>2
<1> HIDE DEF t
<1>11. t.iPendingCmds = e.iPendingCmds \ {cmd} /\ p.iPendingCmds = e.iPendingCmds \ {cmd}
    BY <1>3, <1>6, <1>10 DEF SameCommands
<1>12. older \in SUBSET t.iPendingCmds
       /\ \A c \in e.iPendingCmds : c # cmd => (c \in older <=> c.id < cmd.id)
    BY <1>11
<1> HIDE DEF older
<1>13. /\ IsEngine(u) /\ SamePlace(t, u) /\ Stopped(t, u, older)
       /\ u.iCurrentCmd = t.iCurrentCmd /\ u.iCommandId = t.iCommandId
       /\ u.iPendingCmds = t.iPendingCmds \ older
    BY <1>10, <1>12, CancelPendingIs
<1> HIDE DEF u
<1>14. IsEngine(u)
    BY <1>13
<1>15. IsEngine(f)
    BY <1>2, <1>14 DEF IsEngine
<1>16. /\ f.iCurrentCmd = cmd /\ f.iPendingCmds = u.iPendingCmds
       /\ f.iCommandId = u.iCommandId /\ f.calls = u.calls
    BY <1>14 DEF IsEngine
<1>17. SamePlace(u, f)
    BY <1>14 DEF IsEngine, SamePlace, SameElse
<1> HIDE DEF f
<1>18. /\ f.asked = e.asked /\ f.iCmdToCancel = e.iCurrentCmd
       /\ f.iState = "Resetting" /\ f.iRollOverState = "Idle"
       /\ f.iSourceNode = e.iSourceNode /\ f.iDataSource = e.iDataSource
    BY <1>3, <1>7, <1>10, <1>13, <1>17 DEF SamePlace, SameElse
<1>19. /\ f.iPendingCmds = (e.iPendingCmds \ {cmd}) \ older /\ f.iCommandId = e.iCommandId
       /\ f.iPendingCmds \subseteq e.iPendingCmds
    BY <1>3, <1>6, <1>10, <1>11, <1>13, <1>16 DEF SameCommands
<1>20. /\ DOMAIN f.calls = DOMAIN e.calls
       /\ \A id \in DOMAIN e.calls :
            /\ f.calls[id].type = e.calls[id].type
            /\ f.calls[id].status \in {e.calls[id].status, "cancelled"}
       /\ \A c \in older : c.id \in DOMAIN e.calls => f.calls[c.id].status = "cancelled"
       /\ e.iCurrentCmd # NoCmd => f.calls[e.iCurrentCmd.id].status = "cancelled"
    <2>1. CASE e.iCurrentCmd = NoCmd
        <3>1. t.calls = e.calls
            BY <1>8, <1>10, <2>1
        <3> QED
            BY <1>13, <1>16, <2>1, <3>1 DEF Stopped
    <2>2. CASE e.iCurrentCmd # NoCmd
        <3>1. Told(s, t, e.iCurrentCmd.id, "cancelled")
            BY <1>10, <2>2
        <3>2. /\ DOMAIN t.calls = DOMAIN e.calls
              /\ \A id \in DOMAIN e.calls :
                    /\ t.calls[id].type = e.calls[id].type
                    /\ t.calls[id].status \in {e.calls[id].status, "cancelled"}
              /\ t.calls[e.iCurrentCmd.id].status = "cancelled"
            BY <1>8, <1>9, <2>2, <3>1 DEF Told
        <3> QED
            BY <1>9, <1>13, <1>16, <2>2, <3>2 DEF Stopped
    <2> QED
        BY <2>1, <2>2
<1>21. NoneAsks(e, f)
    BY <1>20 DEF NoneAsks
<1>22. Held(f) \subseteq Held(e)
    BY <1>2, <1>16, <1>19 DEF Held
<1>23. ASSUME NEW c \in Held(e) \ Held(f), c.type \in API
       PROVE  f.calls[c.id].status # "asked"
    <2>1. c = e.iCurrentCmd \/ c \in older
        BY <1>2, <1>16, <1>19, <1>23 DEF Held
    <2>2. c.id \in DOMAIN e.calls /\ c # NoCmd
        BY <1>2, <1>23 DEF Filed, HeldIssued, Held
    <2>3. f.calls[c.id].status = "cancelled"
        BY <1>20, <2>1, <2>2
    <2> QED
        BY <2>3
<1>24. CurrentIsOldest(f)
    <2> SUFFICES ASSUME NEW c \in f.iPendingCmds
                 PROVE  c.id > cmd.id
        BY <1>16 DEF CurrentIsOldest
    <2>1. c \in e.iPendingCmds /\ c # cmd /\ ~(c.id < cmd.id)
        BY <1>12, <1>19
    <2>2. c.type # "Sync" /\ cmd.type # "Sync"
        BY <1>2, <2>1
    <2>3. c.id # cmd.id
        BY <1>2, <2>1, <2>2 DEF Filed, HeldIssued
    <2>4. c.id \in Nat /\ cmd.id \in Nat
        BY <1>2, <2>1 DEF IsEngine, Command
    <2> QED
        BY <2>1, <2>3, <2>4
<1>25. Filed(f) /\ HeldFit(f) /\ SourceWanted(f) /\ ~Failing(f)
    BY <1>2, <1>18, <1>19, <1>21, <1>22, <1>23, <1>24, FewerFiled
<1>26. Asked(f, "AddDataSource") => Asked(e, "AddDataSource")
    BY <1>19 DEF Asked
<1>27. Executes(f, Cancels)
    BY <1>2, <1>16 DEF Executes
<1>28. \A id \in DOMAIN e.calls :
            e.calls[id].status = "asked" => f.calls[id].status # "success"
    BY <1>20
<1>29. AllStopped(e, f)
    BY <1>15, <1>16, <1>18, <1>21, <1>25, <1>26, <1>27, <1>28 DEF AllStopped, cmd
<1>30. p.iCurrentCmd = e.iCurrentCmd /\ p.iSourceNode = e.iSourceNode
    BY <1>3 DEF SamePlace, SameElse
<1> QED
    BY <1>1, <1>29, <1>30 DEF cmd, p

(* The requests to the node are all to be cancelled.                       *)
LEMMA ContextsAre ==
    ASSUME NEW f, IsEngine(f), \A i \in 1 .. Len(f.asked) : f.asked[i].type # "CancelAll"
    PROVE  Contexts(f) = 1 .. Len(f.asked) /\ Cardinality(Contexts(f)) = Len(f.asked)
           /\ Len(f.asked) \in Nat
<1>1. Len(f.asked) \in Nat /\ DOMAIN f.asked = 1 .. Len(f.asked)
    BY DEF IsEngine
<1>2. Contexts(f) = 1 .. Len(f.asked)
    BY <1>1 DEF Contexts
<1>3. Cardinality(1 .. Len(f.asked)) = Len(f.asked)
    BY <1>1, FS_Interval
<1> QED
    BY <1>1, <1>2, <1>3

LEMMA ProcessedIsCancelled ==
    ASSUME NEW e, Asking(e), ~use.unknown, IsEngine(e), ~Asked(e, "AddDataSource"),
           NEW f, AllStopped(e, f)
    PROVE  LET r == DoCancelCommandBeingProcessed(f)
           IN  Fine(r) /\ r.calls = f.calls
<1> DEFINE n == Cardinality(Contexts(f))
           g == [i \in 1 .. n |-> [type |-> "CancelAll", id |-> 0]]
           a == f.asked \o g
           r == [f EXCEPT !.asked = a, !.iNumberCancelCmdPending = n]
<1>1. /\ e.asked # <<>> /\ e.iSourceNode = "ready" /\ e.iDataSource
      /\ e.iCurrentCmd # NoCmd /\ e.iCurrentCmd.type \in Adds
      /\ \A i \in 1 .. Len(e.asked) : e.asked[i].type \notin {"Reset", "CancelAll"}
    <2>1. e.asked[1].type \in Questions \ {"Reset", "CancelAll"}
          /\ (e.asked[1].type # "Recognize" => e.iSourceNode = "ready")
          /\ e.asked[1].type # "Recognize"
        BY DEF Asking, Asks
    <2>2. \A i \in 1 .. Len(e.asked) : e.asked[i] = e.asked[1]
        BY DEF Asking
    <2>3. \A i \in 1 .. Len(e.asked) : e.asked[i].type \notin {"Reset", "CancelAll"}
        BY <2>1, <2>2
    <2> QED
        BY <2>1, <2>3 DEF Asking, Executes
<1>2. /\ IsEngine(f) /\ f.asked = e.asked /\ f.iCmdToCancel = e.iCurrentCmd
      /\ f.iState = "Resetting" /\ f.iRollOverState = "Idle"
      /\ f.iSourceNode = "ready" /\ f.iDataSource
      /\ Executes(f, Cancels) /\ Filed(f) /\ HeldFit(f) /\ SourceWanted(f) /\ ~Failing(f)
      /\ ~Asked(f, "AddDataSource")
    BY <1>1 DEF AllStopped
<1>3. Contexts(f) = 1 .. Len(f.asked) /\ n = Len(f.asked) /\ Len(f.asked) \in Nat
    BY <1>1, <1>2, ContextsAre
<1>4. n \in Nat /\ n >= 1
    <2>1. Len(e.asked) # 0
        BY <1>1 DEF IsEngine
    <2> QED
        BY <1>2, <1>3, <2>1
<1>5. DoCancelCommandBeingProcessed(f) = r
    <2>1. Contexts(f) # {}
        BY <1>3, <1>4
    <2>2. f.iCmdToCancel.type \in {"AddDataSource", "Init", "Cancel"}
        BY <1>1, <1>2 DEF Adds
    <2>3. DoCancelCommandBeingProcessed(f) = DoCancelPendingNodeDatapathCommand(f)
        BY <2>1, <2>2 DEF DoCancelCommandBeingProcessed
    <2>4. DoCancelPendingNodeDatapathCommand(f) = r
        BY DEF DoCancelPendingNodeDatapathCommand, IsEngine
    <2> QED
        BY <2>3, <2>4
<1> HIDE DEF n
<1>6. /\ a \in Seq([type : Questions, id : Nat]) /\ Len(a) = n + n
      /\ \A i \in 1 .. Len(a) :
            a[i] = IF i <= n THEN f.asked[i] ELSE [type |-> "CancelAll", id |-> 0]
    <2> DEFINE S == [type : Questions, id : Nat]
               c == [type |-> "CancelAll", id |-> 0]
    <2>1. c \in S
        BY DEF Questions
    <2>2. f.asked \in Seq(S)
        BY <1>2 DEF IsEngine
    <2>3. g = [i \in 1 .. n |-> c]
        OBVIOUS
    <2> HIDE DEF S, c
    <2>4. g \in Seq(S) /\ Len(g) = n /\ \A i \in 1 .. n : g[i] = c
        BY <1>4, <2>1, <2>3
    <2> HIDE DEF g
    <2>5. a \in Seq(S) /\ Len(a) = n + n
          /\ \A i \in 1 .. Len(a) : a[i] = IF i <= n THEN f.asked[i] ELSE g[i - n]
        BY <1>3, <1>4, <2>2, <2>4
    <2>6. ASSUME NEW i \in 1 .. Len(a), ~(i <= n)
          PROVE  a[i] = c
        <3>1. i - n \in 1 .. n
            BY <1>4, <2>5, <2>6
        <3> QED
            BY <2>4, <2>5, <2>6, <3>1
    <2> QED
        BY <2>5, <2>6 DEF S, c
<1> HIDE DEF a
<1>7. IsEngine(f)
    BY <1>2
<1>8. IsEngine(r)
    BY <1>4, <1>6, <1>7 DEF IsEngine
<1>9. SameCommands(f, r)
    BY <1>7 DEF IsEngine, SameCommands
<1>10. /\ r.asked = a /\ r.iCmdToCancel = f.iCmdToCancel /\ r.iState = f.iState
       /\ r.iRollOverState = f.iRollOverState /\ r.iSourceNode = f.iSourceNode
       /\ r.iDataSource = f.iDataSource /\ r.iNumberCancelCmdPending = n
    BY <1>7 DEF IsEngine
<1> HIDE DEF r
<1>11. /\ Filed(r) /\ HeldFit(r) /\ ~Failing(r) /\ Executes(r, Cancels)
       /\ ~Asked(r, "AddDataSource") /\ SourceWanted(r)
    BY <1>2, <1>9, SameFiled
<1>12. ASSUME NEW i \in 1 .. Len(r.asked)
       PROVE  /\ r.asked[i].type # "Reset"
              /\ r.asked[i].type = "CancelAll" <=> i > Len(r.asked) - n
    <2>1. i \in 1 .. n + n /\ Len(r.asked) = n + n /\ (i > Len(r.asked) - n <=> ~(i <= n))
        BY <1>4, <1>6, <1>10
    <2>2. CASE i <= n
        <3>1. r.asked[i] = e.asked[i] /\ i \in 1 .. Len(e.asked)
            BY <1>2, <1>3, <1>6, <1>10, <2>1, <2>2
        <3> QED
            BY <1>1, <2>1, <2>2, <3>1
    <2>3. CASE ~(i <= n)
        <3>1. r.asked[i] = [type |-> "CancelAll", id |-> 0]
            BY <1>6, <1>10, <2>3
        <3> QED
            BY <2>1, <2>3, <3>1
    <2> QED
        BY <2>2, <2>3
<1>13. n \in 1 .. Len(r.asked)
    BY <1>4, <1>6, <1>10
<1>14. Cancelling(r)
    BY <1>1, <1>2, <1>10, <1>11, <1>12, <1>13 DEF Cancelling
<1>15. Fits(r)
    BY <1>2, <1>10, <1>11 DEF Fits, CommandsFit
<1>16. Fine(r) /\ r.calls = f.calls
    BY <1>8, <1>9, <1>11, <1>14, <1>15 DEF Fine, Good, Phased, SameCommands
<1> QED
    BY <1>5, <1>16

LEMMA CancelAllRuns ==
    ASSUME NEW e, Ready(e), TopIsIn(e, Cancels)
    PROVE  Turn(e, DoCancelAllCommands(Pop(e), Top(e)))
<1> DEFINE r == DoCancelAllCommands(Pop(e), Top(e))
<1>1. PICK f : AllStopped(e, f) /\
        r = CASE e.iCurrentCmd # NoCmd -> DoCancelCommandBeingProcessed(f)
              [] e.iCurrentCmd = NoCmd /\ e.iSourceNode = "ready" -> ResetSourceNode(f)
              [] OTHER -> EngineCommandCompleted(
                    [RemoveDataSourceSync(f) EXCEPT !.iState = "Idle"], "success")
    BY AllAreStopped
<1> HIDE DEF r
<1>2. /\ IsEngine(e) /\ Top(e).type \in Cancels /\ ~use.unknown /\ CommandsFit(e) /\ SourceWanted(e)
      /\ e.iSourceNode # "none" => e.iDataSource
      /\ \/ Asking(e) /\ e.iCurrentCmd # NoCmd
         \/ e.iCurrentCmd = NoCmd /\ e.asked = <<>> /\ e.iSourceNode # "created"
    BY CancelOnTop DEF Asking, Executes
<1>3. /\ IsEngine(f) /\ f.asked = e.asked /\ f.iCmdToCancel = e.iCurrentCmd
      /\ f.iState = "Resetting" /\ f.iRollOverState = "Idle"
      /\ f.iSourceNode = e.iSourceNode /\ f.iDataSource = e.iDataSource
      /\ Executes(f, Cancels) /\ Filed(f) /\ HeldFit(f) /\ SourceWanted(f) /\ ~Failing(f)
      /\ NoneAsks(e, f)
    BY <1>1 DEF AllStopped
<1>4. \A id \in DOMAIN e.calls :
            e.calls[id].status = "asked" => f.calls[id].status # "success"
    BY <1>1 DEF AllStopped
<1>5. CASE e.iCurrentCmd # NoCmd
    <2>1. r = DoCancelCommandBeingProcessed(f)
        BY <1>1, <1>5
    <2>2. Asking(e) /\ ~Asked(e, "AddDataSource") /\ ~Clean(e)
        BY <1>2, <1>5 DEF CommandsFit, Clean, Asking
    <2>3. Fine(r) /\ r.calls = f.calls
        BY <1>1, <1>2, <2>1, <2>2, ProcessedIsCancelled
    <2>4. Final(e, r) /\ NoneAsks(e, r)
        BY <1>3, <1>4, <2>3 DEF Final, NoneAsks
    <2> QED
        BY <2>2, <2>3, <2>4 DEF Turn, r
<1>6. CASE e.iCurrentCmd = NoCmd /\ e.iSourceNode = "ready"
    <2>1. r = ResetSourceNode(f)
        BY <1>1, <1>6
    <2>2. f.asked = <<>> /\ f.iCmdToCancel = NoCmd /\ f.iSourceNode = "ready" /\ f.iDataSource
        BY <1>2, <1>3, <1>6
    <2>3. /\ IsEngine(r) /\ SameCommands(f, r) /\ r.iState = "Resetting"
          /\ r.iCmdToCancel = NoCmd /\ r.iRollOverState = "Idle"
          /\ r.iSourceNode = "ready" /\ r.iDataSource
          /\ Len(r.asked) = 1 /\ r.asked[1].type = "Reset"
        BY <1>3, <2>1, <2>2, ResetIs
    <2>4. Executes(f, Resets) /\ ~Clean(e)
        BY <1>3, <1>6 DEF Executes, Resets, Clean
    <2>5. Fine(r)
        BY <1>3, <2>2, <2>3, <2>4, NodeResets
    <2>6. Final(e, r) /\ NoneAsks(e, r)
        BY <1>3, <1>4, <2>3 DEF Final, NoneAsks, SameCommands
    <2> QED
        BY <2>4, <2>5, <2>6 DEF Turn, r
<1>7. CASE e.iCurrentCmd = NoCmd /\ e.iSourceNode # "ready"
    <2> DEFINE s == [RemoveDataSourceSync(f) EXCEPT !.iState = "Idle"]
    <2>1. r = EngineCommandCompleted(s, "success")
        BY <1>1, <1>7
    <2>2. /\ IsEngine(s) /\ SameCommands(f, s)
          /\ s.asked = <<>> /\ s.iCmdToCancel = NoCmd /\ s.iState = "Idle"
          /\ s.iRollOverState = "Idle" /\ s.iSourceNode = "none" /\ ~s.iDataSource
        BY <1>2, <1>3, <1>7, RemovedIs
    <2> HIDE DEF s
    <2>3. Clean(s) /\ Executes(f, API) /\ "success" \in Statuses \ {"asked"}
        BY <1>3, <2>2 DEF Clean, Executes, Cancels, API, Statuses
    <2>4. /\ IsEngine(r) /\ SamePlace(s, r) /\ Filed(r) /\ CommandsFit(r)
          /\ r.iCurrentCmd = NoCmd /\ NoneAsks(f, r) /\ Clean(r)
          /\ NoneOlder(r, f.iCurrentCmd.id) /\ Told(f, r, f.iCurrentCmd.id, "success")
        BY <1>3, <2>1, <2>2, <2>3, EndsIt
    <2>5. Quiet(r)
        BY <2>2, <2>4 DEF Quiet, SamePlace, SameElse
    <2>6. Fits(r)
        BY <2>2, <2>4 DEF Fits, SamePlace, SameElse
    <2>7. NoneAsks(e, r)
        BY <1>3, <2>4 DEF NoneAsks
    <2>8. Final(e, r)
        BY <1>3, <1>4, <2>4 DEF Final, Told, NoneAsks
    <2> QED
        BY <2>4, <2>5, <2>6, <2>7, <2>8 DEF Turn, Fine, Good, Phased, r
<1> QED
    BY <1>5, <1>6, <1>7
-----------------------------------------------------------------------------
(* Run as a whole.                                                         *)

LEMMA ReadyRuns ==
    ASSUME NEW e, Ready(e),
           RunCancel(e) \/ (\E found \in Found : RunRollOver(e, found) \/ RunCommand(e, found))
                \/ RunNothing(e)
    PROVE  /\ Turn(e, engine')
           /\ UNCHANGED <<threadSafeQueue, iCounter, pc>>
           /\ written \subseteq use.callers => written' \subseteq use.callers
           /\ iOOTSyncCommandSem \in Nat => iOOTSyncCommandSem' \in Nat
<1>1. Turn(e, e)
    BY DEF Turn, Ready, Final, NoneAsks
<1>2. CASE RunCancel(e)
    <2>1. TopIsIn(e, Cancels) /\ Top(e).type \in Cancels /\ UNCHANGED callers
        BY <1>2 DEF RunCancel, Cancels, TopIsIn
    <2>2. \/ engine' = DoCancelAllCommands(Pop(e), Top(e))
          \/ Top(e).type = "Cancel" /\ engine' = DoCancelCommand(Pop(e), Top(e))
        BY <1>2, <2>1 DEF RunCancel, Cancels
    <2>3. Turn(e, engine')
        BY <2>1, <2>2, CancelAllRuns, CancelCommandRuns
    <2> QED
        BY <2>1, <2>3 DEF callers
<1>3. CASE \E found \in Found : RunRollOver(e, found)
    <2>1. PICK found \in Found : RunRollOver(e, found)
        BY <1>3
    <2>2. UNCHANGED callers /\ engine' \in {e, DoSourceNodeRollOver(e, found)}
          /\ (engine' # e => e.iRollOverState = "Start")
        BY <2>1 DEF RunRollOver
    <2>3. Turn(e, engine')
        BY <1>1, <2>2, RollOverRuns
    <2> QED
        BY <2>2, <2>3 DEF callers
<1>4. CASE RunNothing(e)
    BY <1>1, <1>4 DEF RunNothing, callers
<1>5. CASE \E found \in Found : RunCommand(e, found)
    <2>1. PICK found \in Found : RunCommand(e, found)
        BY <1>5
    <2> DEFINE cmd == Top(e)
               f == [Pop(e) EXCEPT !.iCurrentCmd = cmd]
    <2>2. /\ ~TopIsIn(e, Cancels) /\ e.iRollOverState = "Idle"
          /\ e.iPendingCmds # {} /\ e.iCurrentCmd = NoCmd
          /\ engine' = Process(f, found)
          /\ iOOTSyncCommandSem' = iOOTSyncCommandSem + IF cmd.type = "Sync" THEN 1 ELSE 0
          /\ written' = written \cup IF cmd.type = "Sync" THEN {cmd.of} ELSE {}
          /\ UNCHANGED <<threadSafeQueue, iCounter, pc>>
        BY <2>1 DEF RunCommand, Cancels
    <2>3. /\ IsEngine(f) /\ f.calls = e.calls /\ f.iCurrentCmd = cmd
          /\ cmd.type = "Sync" =>
                cmd.of \in use.callers /\ Turn(e, OOTSyncCommandComplete(f))
          /\ cmd.type # "Sync" =>
                /\ Taken(f)
                /\ Clean(e) /\ ~Asked(e, "AddDataSource") =>
                    /\ Clean(f) /\ ~Asked(f, "AddDataSource")
                    /\ ~Executes(f, {"AddDataSource"})
        BY <2>2, CommandTaken
    <2> HIDE DEF cmd, f
    <2>4. Turn(e, engine')
        <3>1. CASE cmd.type = "Sync"
            <4>1. engine' = OOTSyncCommandComplete(f)
                BY <2>2, <2>3, <3>1 DEF Process
            <4> QED
                BY <2>3, <3>1, <4>1
        <3>2. CASE cmd.type # "Sync"
            <4>1. Turn(f, engine')
                BY <2>2, <2>3, <3>2, ProcessRuns
            <4>2. Final(e, engine') /\ NoneAsks(e, engine')
                BY <2>3, <4>1 DEF Turn, Final, NoneAsks
            <4>3. Clean(e) /\ ~Asked(e, "AddDataSource") => Clean(engine')
                BY <2>3, <3>2, <4>1 DEF Turn
            <4> QED
                BY <4>1, <4>2, <4>3 DEF Turn
        <3> QED
            BY <3>1, <3>2
    <2>5. /\ written \subseteq use.callers => written' \subseteq use.callers
          /\ iOOTSyncCommandSem \in Nat => iOOTSyncCommandSem' \in Nat
        BY <2>2, <2>3
    <2> QED
        BY <2>2, <2>4, <2>5
<1> QED
    BY <1>2, <1>3, <1>4, <1>5

(* A command whose reset has ended is completed before.                    *)
LEMMA FinishIs ==
    ASSUME NEW e, Fine(e), Separate, e.iState # "Resetting", ~CheckForPendingErrorHandlingCmd(e)
    PROVE  LET r == FinishReset(e)
           IN  /\ Ready(r)
               /\ \A c : Turn(r, c) => Final(e, c) /\ NoneAsks(e, c)
<1> DEFINE r == FinishReset(e)
<1>1. /\ IsEngine(e) /\ Filed(e) /\ HeldFit(e) /\ SourceWanted(e) /\ CommandsFit(e) /\ Fits(e)
      /\ Quiet(e) \/ Asking(e)
    BY DEF Fine, Good, Fits, CommandsFit, Phased, Cancelling, Resetting
<1>2. CASE ~Executes(e, Resets)
    <2>1. r = e
        BY <1>2 DEF FinishReset, Executes, Resets, Cancels
    <2> HIDE DEF r
    <2>2. Ready(r)
        BY <1>1, <1>2, <2>1 DEF Ready
    <2> QED
        BY <2>1, <2>2 DEF Turn, r
<1>3. CASE Executes(e, Resets)
    <2> DEFINE f == RemoveDataSourceSync(e)
    <2>1. r = EngineCommandCompleted(f, "success")
        BY <1>3 DEF FinishReset, Executes, Resets, Cancels
    <2>2. /\ e.iCurrentCmd # NoCmd /\ Executes(e, API) /\ ~Asked(e, "AddDataSource")
          /\ Quiet(e) /\ ~Executes(e, Adds)
        BY <1>1, <1>3 DEF Executes, Resets, Cancels, API, Adds, Asking, CommandsFit
    <2>3. e.asked = <<>> /\ e.iCmdToCancel = NoCmd /\ e.iState = "Idle"
          /\ e.iRollOverState = "Idle" /\ ~Failing(e)
        BY <2>2 DEF Quiet
    <2>4. /\ IsEngine(f) /\ SameCommands(e, f)
          /\ f.asked = <<>> /\ f.iCmdToCancel = NoCmd /\ f.iState = "Idle"
          /\ f.iRollOverState = "Idle" /\ f.iSourceNode = "none" /\ ~f.iDataSource
        BY <1>1, <2>3, RemovedIs
    <2> HIDE DEF f, r
    <2>5. Clean(f) /\ "success" \in Statuses \ {"asked"}
        BY <2>4 DEF Clean, Statuses
    <2>6. /\ IsEngine(r) /\ SamePlace(f, r) /\ Filed(r) /\ CommandsFit(r)
          /\ r.iCurrentCmd = NoCmd /\ r.iPendingCmds = e.iPendingCmds
          /\ Final(e, r) /\ NoneAsks(e, r) /\ Clean(r)
          /\ Told(e, r, e.iCurrentCmd.id, "success")
        BY <1>1, <2>1, <2>2, <2>4, <2>5, EndsIt
    <2>7. Quiet(r)
        BY <2>4, <2>6 DEF Quiet, SamePlace, SameElse
    <2>8. Fits(r)
        BY <2>4, <2>6 DEF Fits, SamePlace, SameElse
    <2>9. ~CheckForPendingErrorHandlingCmd(r)
        BY <2>6 DEF CheckForPendingErrorHandlingCmd, TopIsIn, Top
    <2>10. Ready(r)
        BY <2>6, <2>7, <2>8, <2>9 DEF Ready, Fine, Good, Phased, Executes
    <2>11. ~Asked(r, "AddDataSource") /\ ~Executes(r, {"AddDataSource"})
        BY <2>2, <2>6 DEF Asked, Executes
    <2>12. ASSUME NEW c, Turn(r, c)
           PROVE  Final(e, c) /\ NoneAsks(e, c)
        <3>1. Final(r, c) /\ NoneAsks(r, c) /\ Clean(c)
            BY <2>6, <2>11, <2>12 DEF Turn
        <3>2. NoneAsks(e, c)
            BY <2>6, <3>1 DEF NoneAsks
        <3>3. ASSUME NEW id \in DOMAIN e.calls, e.calls[id].type \in {"Reset", "CancelAll"},
                     e.calls[id].status = "asked", c.calls[id].status = "success"
              PROVE  NoneOlder(c, id)
            <4>1. id \in DOMAIN r.calls /\ r.calls[id].type = e.calls[id].type
                  /\ r.calls[id].status \in {"asked", "success"}
                BY <2>6, <3>3 DEF Told
            <4>2. CASE r.calls[id].status = "asked"
                BY <3>1, <3>3, <4>1, <4>2 DEF Final
            <4>3. CASE r.calls[id].status = "success"
                <5>1. NoneOlder(r, id)
                    BY <2>6, <3>3, <4>3 DEF Final
                <5> QED
                    BY <3>1, <5>1 DEF NoneOlder, NoneAsks
            <4> QED
                BY <4>1, <4>2, <4>3
        <3> QED
            BY <3>1, <3>2, <3>3 DEF Final
    <2> QED
        BY <2>10, <2>12 DEF r
<1> QED
    BY <1>2, <1>3

(* What a step does to the engine and says to the application.             *)
Steps == Fine(engine') /\ Final(engine, engine')

LEMMA RunSteps ==
    ASSUME IInv, Run
    PROVE  /\ Steps /\ UNCHANGED <<use, errors, threadSafeQueue, iCounter, pc>>
           /\ written' \subseteq use.callers /\ iOOTSyncCommandSem' \in Nat
<1> DEFINE e == [engine EXCEPT !.scheduled = FALSE]
<1>1. Fine(engine) /\ Separate /\ written \subseteq use.callers /\ iOOTSyncCommandSem \in Nat
    BY DEF IInv, TypeOK, Fine
<1>2. UNCHANGED <<use, errors>>
    BY DEF Run
<1>3. IsEngine(engine)
    BY <1>1 DEF Fine
<1>4. IsEngine(e)
    BY <1>3 DEF IsEngine
<1>5. SameCommands(engine, e)
    BY <1>3 DEF IsEngine, SameCommands
<1>6. SamePlace(engine, e)
    BY <1>3 DEF IsEngine, SamePlace, SameElse
<1> HIDE DEF e
<1>7. RunIsOver = e
    BY DEF RunIsOver, e
<1>8. Fine(e)
    <2>1. Filed(engine) /\ Fits(engine) /\ Phased(engine) /\ CommandsFit(engine)
        BY <1>1 DEF Fine, Good, Fits
    <2>2. /\ Filed(e) /\ (Failing(e) <=> Failing(engine))
          /\ \A types : Executes(e, types) <=> Executes(engine, types)
          /\ CommandsFit(e)
        <3>1. e.iDataSource => engine.iDataSource
            BY <1>6 DEF SamePlace, SameElse
        <3> QED
            BY <1>5, <2>1, <3>1, SameFiled
    <2>3. Fits(e)
        BY <1>6, <2>1, <2>2 DEF Fits, SamePlace, SameElse
    <2>4. e.iCurrentCmd = engine.iCurrentCmd
        BY <1>5 DEF SameCommands
    <2>5. Quiet(engine) => Quiet(e)
        BY <1>6, <2>2, <2>4 DEF Quiet, SamePlace, SameElse
    <2>6. Asking(engine) => Asking(e)
        BY <1>6, <2>2, <2>4 DEF Asking, Asks, SamePlace, SameElse
    <2>7. Cancelling(engine) => Cancelling(e)
        BY <1>6, <2>2, <2>4 DEF Cancelling, SamePlace, SameElse
    <2>8. Resetting(engine) => Resetting(e)
        BY <1>6, <2>2, <2>4 DEF Resetting, SamePlace, SameElse
    <2> QED
        BY <1>4, <2>1, <2>2, <2>3, <2>5, <2>6, <2>7, <2>8 DEF Fine, Good, Phased
<1>9. e.iState = engine.iState
      /\ (CheckForPendingErrorHandlingCmd(e) <=> CheckForPendingErrorHandlingCmd(engine))
    BY <1>5, <1>6 DEF SamePlace, SameElse, SameCommands, CheckForPendingErrorHandlingCmd,
                      TopIsIn, Top
<1>10. \A c : Final(e, c) => Final(engine, c)
    BY <1>5 DEF Final, SameCommands
<1>11. CASE RunResetting
    <2>1. engine' = e /\ UNCHANGED callers
        BY <1>7, <1>11 DEF RunResetting
    <2>2. Final(engine, e)
        BY <1>5 DEF Final, SameCommands
    <2> QED
        BY <1>1, <1>2, <1>8, <2>1, <2>2 DEF Steps, callers
<1>12. CASE RunErrorHandling
    <2>1. engine' = DoErrorHandling(e) /\ UNCHANGED callers
          /\ engine.iState # "Resetting" /\ CheckForPendingErrorHandlingCmd(engine)
        BY <1>7, <1>12 DEF RunErrorHandling
    <2>2. Fine(engine') /\ Final(e, engine')
        BY <1>8, <1>9, <2>1, ErrorRuns
    <2> QED
        BY <1>1, <1>2, <1>10, <2>1, <2>2 DEF Steps, callers
<1>13. CASE ~RunResetting /\ ~RunErrorHandling
    <2> DEFINE f == FinishReset(e)
    <2>1. /\ engine.iState # "Resetting" /\ ~CheckForPendingErrorHandlingCmd(engine)
          /\ \/ RunCancel(f)
             \/ \E found \in Found : RunRollOver(f, found) \/ RunCommand(f, found)
             \/ RunNothing(f)
        BY <1>7, <1>13 DEF Run
    <2>2. Ready(f) /\ \A c : Turn(f, c) => Final(e, c) /\ NoneAsks(e, c)
        BY <1>1, <1>8, <1>9, <2>1, FinishIs
    <2> HIDE DEF f
    <2>3. /\ Turn(f, engine') /\ UNCHANGED <<threadSafeQueue, iCounter, pc>>
          /\ written \subseteq use.callers => written' \subseteq use.callers
          /\ iOOTSyncCommandSem \in Nat => iOOTSyncCommandSem' \in Nat
        BY <2>1, <2>2, ReadyRuns
    <2>4. Fine(engine')
        BY <2>3 DEF Turn
    <2>5. Final(engine, engine')
        BY <1>10, <2>2, <2>3
    <2> QED
        BY <1>1, <1>2, <2>3, <2>4, <2>5 DEF Steps
<1> QED
    BY <1>11, <1>12, <1>13
-----------------------------------------------------------------------------
(* The answers of the node.  What the engine is like when AddDataSource or *)
(* Init has its answer.                                                    *)

Waited(e) ==
    /\ IsEngine(e) /\ Filed(e) /\ HeldFit(e) /\ Executes(e, Adds) /\ ~Failing(e)
    /\ ~Asked(e, "AddDataSource") /\ e.iCmdToCancel = NoCmd /\ e.iDataSource
    /\ e.iRollOverState # "Start"
    /\ e.iRollOverState # "Idle" => Executes(e, {"Init"}) /\ use.alternates > 0

Answered(e) == Waited(e) /\ e.asked = <<>>

LEMMA AskAgain ==
    ASSUME NEW e, Waited(e), NEW f, IsEngine(f), SameCommands(e, f), f.asked = <<>>,
           f.iCmdToCancel = NoCmd, f.iDataSource, f.iSourceNode = "ready",
           f.iRollOverState # "Start",
           f.iRollOverState # "Idle" => Executes(e, {"Init"}) /\ use.alternates > 0,
           NEW type \in {"QueryInitIF", "QueryTrackSelIF", "Init", "GetDurationValue"},
           type \in Initial => Executes(e, {"Init"}),
           type = "GetDurationValue" => f.iRollOverState = "Idle"
    PROVE  LET g == Ask(f, type)
               r == [g EXCEPT !.iState = "Initializing"]
           IN  /\ type \in Initial => Fine(r) /\ Final(e, r)
               /\ f.iState = (IF type \in Initial THEN "Initializing" ELSE "Idle")
                    => Fine(g) /\ Final(e, g)
<1> DEFINE g == Ask(f, type)
           r == [g EXCEPT !.iState = "Initializing"]
<1>1. /\ IsEngine(e) /\ Filed(e) /\ HeldFit(e) /\ Executes(e, Adds) /\ ~Failing(e)
      /\ ~Asked(e, "AddDataSource") /\ e.iCurrentCmd # NoCmd
    BY DEF Waited, Executes
<1>2. type \in Questions /\ f.iCurrentCmd = e.iCurrentCmd
    BY DEF Questions, SameCommands
<1>3. PICK q \in [type : Questions, id : Nat] :
        /\ q.type = type /\ (f.iCurrentCmd # NoCmd => q.id = f.iCurrentCmd.id)
        /\ IsEngine(g) /\ SameCommands(f, g) /\ SameElse(f, g) /\ g.asked = <<q>>
    BY <1>2, AskIs
<1> HIDE DEF g
<1>4. IsEngine(g)
    BY <1>3
<1>5. IsEngine(r)
    BY <1>4 DEF IsEngine
<1>6. SameCommands(g, r)
    BY <1>4 DEF IsEngine, SameCommands
<1>7. /\ r.asked = g.asked /\ r.iCmdToCancel = g.iCmdToCancel /\ r.iState = "Initializing"
      /\ r.iRollOverState = g.iRollOverState /\ r.iDataSource = g.iDataSource
      /\ r.iSourceNode = g.iSourceNode
    BY <1>4 DEF IsEngine
<1> HIDE DEF r
<1>8. SameCommands(e, g) /\ SameCommands(e, r)
    BY <1>3, <1>6 DEF SameCommands
<1>9. q.id = e.iCurrentCmd.id
    BY <1>1, <1>2, <1>3
<1>10. /\ g.iCmdToCancel = NoCmd /\ g.iDataSource /\ g.iSourceNode = "ready"
       /\ g.iRollOverState = f.iRollOverState /\ g.iState = f.iState
    BY <1>3 DEF SameElse
<1>11. q.type \notin {"Reset", "CancelAll", "QueryInterfaceOptional", "Recognize"}
    BY <1>3
<1>12. ASSUME type \in Initial
       PROVE  Fine(r) /\ Final(e, r)
    <2>1. /\ r.asked = <<q>> /\ r.iCmdToCancel = NoCmd /\ r.iState = "Initializing"
          /\ r.iRollOverState = f.iRollOverState /\ r.iDataSource /\ r.iSourceNode = "ready"
        BY <1>3, <1>7, <1>10
    <2> QED
        BY <1>1, <1>3, <1>5, <1>8, <1>9, <1>11, <1>12, <2>1, AsksNext
<1>13. ASSUME f.iState = (IF type \in Initial THEN "Initializing" ELSE "Idle")
       PROVE  Fine(g) /\ Final(e, g)
    BY <1>1, <1>3, <1>8, <1>9, <1>10, <1>11, <1>13, AsksNext
<1> QED
    BY <1>12, <1>13 DEF g, r

(* The command is completed.                                               *)
LEMMA AddsEnd ==
    ASSUME NEW e, Waited(e), NEW f, IsEngine(f), SameCommands(e, f), f.asked = <<>>,
           f.iCmdToCancel = NoCmd, f.iState \in {"Idle", "Initialized"},
           f.iRollOverState = "Idle", f.iDataSource, f.iSourceNode # "created",
           NEW st \in Statuses \ {"asked"}
    PROVE  LET r == EngineCommandCompleted(f, st)
           IN  Fine(r) /\ Final(e, r)
<1> DEFINE r == EngineCommandCompleted(f, st)
<1>1. /\ IsEngine(e) /\ Filed(e) /\ HeldFit(e) /\ SourceWanted(e) /\ Executes(e, API)
      /\ e.iCurrentCmd.type \notin {"Reset", "CancelAll"} /\ e.iDataSource
    BY DEF Waited, Executes, Adds, API, SourceWanted, Asked
<1>2. /\ IsEngine(r) /\ SamePlace(f, r) /\ Filed(r) /\ CommandsFit(r)
      /\ r.iCurrentCmd = NoCmd /\ Final(e, r)
    BY <1>1, EndsIt
<1> HIDE DEF r
<1>3. Quiet(r)
    BY <1>2 DEF Quiet, SamePlace, SameElse
<1>4. Fits(r)
    BY <1>2 DEF Fits, SamePlace, SameElse
<1> QED
    BY <1>2, <1>3, <1>4 DEF Fine, Good, Phased, r

LEMMA RecognizeEnds ==
    ASSUME NEW e, Answered(e), e.iState = "Idle", e.iRollOverState = "Idle",
           NEW found
    PROVE  LET r == RecognizeCompleted(e, found)
           IN  Fine(r) /\ Final(e, r)
<1>1. /\ Waited(e) /\ IsEngine(e) /\ Filed(e) /\ HeldFit(e) /\ Executes(e, Adds)
      /\ ~Asked(e, "AddDataSource") /\ e.asked = <<>> /\ e.iCmdToCancel = NoCmd /\ e.iDataSource
    BY DEF Answered, Waited
<1>2. CASE found
    <2> DEFINE u == [e EXCEPT !.iSourceNode = "ready"]
    <2>1. RecognizeCompleted(e, found) = Ask(u, "QueryInitIF")
        BY <1>2 DEF RecognizeCompleted, DoSetupSourceNode
    <2>2. IsEngine(e)
        BY <1>1
    <2>3. IsEngine(u)
        BY <2>2 DEF IsEngine
    <2>4. SameCommands(e, u)
        BY <2>2 DEF IsEngine, SameCommands
    <2>5. /\ u.asked = e.asked /\ u.iCmdToCancel = e.iCmdToCancel /\ u.iState = e.iState
          /\ u.iRollOverState = e.iRollOverState /\ u.iDataSource = e.iDataSource
          /\ u.iSourceNode = "ready"
        BY <2>2 DEF IsEngine
    <2> HIDE DEF u
    <2>6. "QueryInitIF" \notin Initial
        BY DEF Initial
    <2>7. Fine(Ask(u, "QueryInitIF")) /\ Final(e, Ask(u, "QueryInitIF"))
        BY <1>1, <2>3, <2>4, <2>5, <2>6, AskAgain
    <2> QED
        BY <2>1, <2>7
<1>3. CASE ~found
    <2>1. RecognizeCompleted(e, found) = AddCommandToQueue(e, "EHAddDataSource", 0)
        BY <1>3 DEF RecognizeCompleted
    <2>2. SameCommands(e, e) /\ "EHAddDataSource" \in ErrorHandling \ {"EHGeneral"}
        BY DEF SameCommands, ErrorHandling
    <2> DEFINE r == AddCommandToQueue(e, "EHAddDataSource", 0)
    <2>3. Fine(r) /\ Final(e, r)
        BY <1>1, <2>2, FailsNext
    <2> QED
        BY <2>1, <2>3
<1> QED
    BY <1>2, <1>3

(* The next alternate format is to be tried.                               *)
LEMMA StartsAgain ==
    ASSUME NEW e, Answered(e), Executes(e, {"Init"}), use.alternates > 0,
           NEW r, IsEngine(r), SameCommands(e, r), r.asked = <<>>, r.iCmdToCancel = NoCmd,
           r.iState = "Idle", r.iRollOverState = "Start", r.iDataSource, r.iSourceNode = "ready"
    PROVE  Fine(r) /\ Final(e, r)
<1>1. /\ Filed(r) /\ ~Failing(r) /\ Executes(r, Adds) /\ Executes(r, {"Init"})
      /\ HeldFit(r) /\ ~Asked(r, "AddDataSource") /\ SourceWanted(r)
    BY SameFiled DEF Answered, Waited
<1>2. Quiet(r)
    BY <1>1 DEF Quiet
<1>3. Fits(r)
    BY <1>1 DEF Fits, CommandsFit
<1>4. Final(e, r)
    BY DEF Final, SameCommands
<1> QED
    BY <1>1, <1>2, <1>3, <1>4 DEF Fine, Good, Phased

LEMMA QueryFails ==
    ASSUME NEW e, Answered(e), e.iState = "Idle", e.iSourceNode = "ready"
    PROVE  LET r == QueryFailed(e)
           IN  Fine(r) /\ Final(e, r)
<1>1. /\ Waited(e) /\ IsEngine(e) /\ Filed(e) /\ HeldFit(e) /\ Executes(e, Adds) /\ ~Failing(e)
      /\ ~Asked(e, "AddDataSource") /\ e.asked = <<>> /\ e.iCmdToCancel = NoCmd /\ e.iDataSource
      /\ e.iRollOverState # "Idle" => Executes(e, {"Init"}) /\ use.alternates > 0
    BY DEF Answered, Waited
<1>2. CASE CheckForSourceRollOver(e) /\ e.iRollOverState = "InProgress"
    <2> DEFINE r == [e EXCEPT !.iRollOverState = "Start", !.scheduled = TRUE]
    <2>1. QueryFailed(e) = r
        BY <1>2 DEF QueryFailed
    <2>2. Fine(r) /\ Final(e, r)
        <3>1. IsEngine(e)
            BY <1>1
        <3>2. IsEngine(r)
            BY <3>1 DEF IsEngine
        <3>3. SameCommands(e, r)
            BY <3>1 DEF IsEngine, SameCommands
        <3>4. /\ r.asked = e.asked /\ r.iCmdToCancel = e.iCmdToCancel /\ r.iState = e.iState
              /\ r.iRollOverState = "Start" /\ r.iDataSource = e.iDataSource
              /\ r.iSourceNode = e.iSourceNode
            BY <3>1 DEF IsEngine
        <3> HIDE DEF r
        <3> QED
            BY <1>1, <1>2, <3>2, <3>3, <3>4, StartsAgain
    <2> QED
        BY <2>1, <2>2
<1>3. CASE ~(CheckForSourceRollOver(e) /\ e.iRollOverState = "InProgress")
    <2> DEFINE eh == IF e.iRollOverState = "InProgress" THEN "EHInit" ELSE "EHAddDataSource"
               r == [AddCommandToQueue(e, eh, 0) EXCEPT !.iRollOverState = "Idle"]
    <2>1. QueryFailed(e) = r
        BY <1>3 DEF QueryFailed
    <2>2. SameCommands(e, e) /\ eh \in ErrorHandling \ {"EHGeneral"}
        BY DEF SameCommands, ErrorHandling
    <2> HIDE DEF eh
    <2>3. Fine(r) /\ Final(e, r)
        BY <1>1, <2>2, FailsNext
    <2> QED
        BY <2>1, <2>3
<1> QED
    BY <1>2, <1>3

(* The interfaces of the node are queried, and its optional ones are.      *)
LEMMA TrackSelectionEnds ==
    ASSUME NEW e, Answered(e), e.iState = "Idle", e.iSourceNode = "ready", NEW status
    PROVE  LET r == HandleSourceNodeQueryTrackSelIF(e, status)
           IN  Fine(r) /\ Final(e, r)
<1> DEFINE query == [type |-> "QueryInterfaceOptional", id |-> e.iCurrentCmd.id]
           a == <<>> \o [i \in 1 .. NumOptional |-> query]
           r == [e EXCEPT !.asked = a, !.iNumPendingNodeCmd = NumOptional]
<1>1. /\ IsEngine(e) /\ Filed(e) /\ HeldFit(e) /\ Executes(e, Adds) /\ ~Failing(e)
      /\ ~Asked(e, "AddDataSource") /\ e.asked = <<>> /\ e.iCmdToCancel = NoCmd /\ e.iDataSource
      /\ e.iCurrentCmd # NoCmd /\ e.iRollOverState # "Start"
      /\ e.iRollOverState # "Idle" => Executes(e, {"Init"}) /\ use.alternates > 0
    BY DEF Answered, Waited, Executes
<1>2. CASE status # "success"
    BY <1>2, QueryFails DEF HandleSourceNodeQueryTrackSelIF
<1>3. CASE status = "success"
    <2>1. HandleSourceNodeQueryTrackSelIF(e, status) = r
        BY <1>1, <1>3 DEF HandleSourceNodeQueryTrackSelIF, IsEngine
    <2>2. NumOptional \in Nat /\ NumOptional >= 1
        BY PlayerAssumption
    <2>3. query \in [type : Questions, id : Nat]
        BY <1>1 DEF Questions, IsEngine, Command
    <2>4. query.type = "QueryInterfaceOptional" /\ query.id = e.iCurrentCmd.id
        OBVIOUS
    <2>5. /\ a \in Seq([type : Questions, id : Nat]) /\ Len(a) = NumOptional /\ a # <<>>
          /\ \A i \in 1 .. Len(a) : a[i] = query
          /\ a[1] = query
        <3> DEFINE S == [type : Questions, id : Nat]
                   g == [i \in 1 .. NumOptional |-> query]
        <3>1. query \in S
            BY <2>3
        <3> HIDE DEF query, S
        <3>2. g \in Seq(S) /\ Len(g) = NumOptional /\ \A i \in 1 .. NumOptional : g[i] = query
            BY <2>2, <3>1
        <3> HIDE DEF g
        <3>3. <<>> \o g = g
            BY <3>2
        <3>4. a = g
            BY <3>3 DEF g
        <3> HIDE DEF a
        <3> QED
            BY <2>2, <3>2, <3>4 DEF S
    <2> HIDE DEF a, query
    <2>6. IsEngine(e)
        BY <1>1
    <2>7. IsEngine(r)
        BY <2>2, <2>5, <2>6 DEF IsEngine
    <2>8. SameCommands(e, r)
        BY <2>6 DEF IsEngine, SameCommands
    <2>9. /\ r.asked = a /\ r.iCmdToCancel = e.iCmdToCancel /\ r.iState = e.iState
          /\ r.iRollOverState = e.iRollOverState /\ r.iDataSource = e.iDataSource
          /\ r.iSourceNode = e.iSourceNode /\ r.iNumPendingNodeCmd = NumOptional
        BY <2>6 DEF IsEngine
    <2> HIDE DEF r
    <2>10. /\ Filed(r) /\ HeldFit(r) /\ ~Failing(r) /\ Executes(r, Adds)
           /\ ~Asked(r, "AddDataSource") /\ SourceWanted(r)
           /\ Executes(e, {"Init"}) => Executes(r, {"Init"})
        BY <1>1, <2>8, SameFiled
    <2>11. r.iCurrentCmd = e.iCurrentCmd /\ r.calls = e.calls
        BY <2>8 DEF SameCommands
    <2>12. Asks(r, r.asked[1])
        BY <2>4, <2>5, <2>9, <2>11 DEF Asks, Questions, Initial
    <2>13. Asking(r)
        <3>1. r.iRollOverState = "InProgress" => Executes(r, {"Init"})
            BY <1>1, <2>9, <2>10
        <3> QED
            BY <1>1, <2>5, <2>9, <2>10, <2>12, <3>1 DEF Asking
    <2>14. Fits(r)
        BY <1>1, <2>9, <2>10 DEF Fits, CommandsFit
    <2>15. Final(e, r)
        BY <2>11 DEF Final
    <2> QED
        BY <2>1, <2>7, <2>10, <2>13, <2>14, <2>15 DEF Fine, Good, Phased
<1> QED
    BY <1>2, <1>3
(* The last optional interface ends AddDataSource, or starts Init again    *)
(* with the next format.                                                   *)
LEMMA InterfacesEnd ==
    ASSUME NEW e, Waited(e), e.iState = "Idle", e.iSourceNode = "ready",
           e.iNumPendingNodeCmd = Len(e.asked) + 1,
           NEW q, q.type = "QueryInterfaceOptional", q.id = e.iCurrentCmd.id,
           \A i \in 1 .. Len(e.asked) : e.asked[i] = q
    PROVE  LET r == HandleSourceNodeQueryInterfaceOptional(e)
           IN  Fine(r) /\ Final(e, r)
<1> DEFINE k == e.iNumPendingNodeCmd - 1
           r == [e EXCEPT !.iNumPendingNodeCmd = k]
<1>1. /\ IsEngine(e) /\ Filed(e) /\ HeldFit(e) /\ Executes(e, Adds) /\ ~Failing(e)
      /\ ~Asked(e, "AddDataSource") /\ e.iCmdToCancel = NoCmd /\ e.iDataSource
      /\ e.iCurrentCmd # NoCmd /\ e.iRollOverState # "Start"
      /\ e.iRollOverState # "Idle" => Executes(e, {"Init"}) /\ use.alternates > 0
    BY DEF Waited, Executes
<1>2. e.asked \in Seq([type : Questions, id : Nat])
    BY <1>1 DEF IsEngine
<1>3. Len(e.asked) \in Nat
    BY <1>2, LenProperties
<1>4. k = Len(e.asked) /\ k \in Nat
    BY <1>3
<1> HIDE DEF k
<1>5. IsEngine(e)
    BY <1>1
<1>6. IsEngine(r)
    BY <1>4, <1>5 DEF IsEngine
<1>7. SameCommands(e, r)
    BY <1>5 DEF IsEngine, SameCommands
<1>8. /\ r.asked = e.asked /\ r.iCmdToCancel = e.iCmdToCancel /\ r.iState = e.iState
      /\ r.iRollOverState = e.iRollOverState /\ r.iDataSource = e.iDataSource
      /\ r.iSourceNode = e.iSourceNode /\ r.iNumPendingNodeCmd = k
    BY <1>5 DEF IsEngine
<1>9. HandleSourceNodeQueryInterfaceOptional(e) =
        CASE r.iNumPendingNodeCmd > 0 -> r
          [] r.iNumPendingNodeCmd = 0 /\ r.iRollOverState = "InProgress" ->
                [Ask(r, "Init") EXCEPT !.iState = "Initializing"]
          [] OTHER -> EngineCommandCompleted(r, "success")
    <2>1. r = [e EXCEPT !.iNumPendingNodeCmd = @ - 1]
        BY DEF k
    <2> HIDE DEF r
    <2> QED
        BY <2>1 DEF HandleSourceNodeQueryInterfaceOptional
<1> HIDE DEF r
<1>10. /\ Filed(r) /\ HeldFit(r) /\ ~Failing(r) /\ Executes(r, Adds)
       /\ ~Asked(r, "AddDataSource") /\ SourceWanted(r)
       /\ Executes(e, {"Init"}) => Executes(r, {"Init"})
    BY <1>1, <1>7, SameFiled
<1>11. r.iCurrentCmd = e.iCurrentCmd /\ r.calls = e.calls
    BY <1>7 DEF SameCommands
<1>12. CASE k > 0
    <2>1. HandleSourceNodeQueryInterfaceOptional(e) = r
        BY <1>8, <1>9, <1>12
    <2>2. r.asked # <<>> /\ r.asked[1] = q /\ Len(r.asked) = k
        BY <1>2, <1>4, <1>8, <1>12
    <2>3. \A i \in 1 .. Len(r.asked) : r.asked[i] = r.asked[1]
        BY <1>8, <2>2
    <2>4. Asks(r, r.asked[1])
        BY <1>8, <1>11, <2>2 DEF Asks, Questions, Initial
    <2>5. Asking(r)
        <3>1. r.iRollOverState = "InProgress" => Executes(r, {"Init"})
            BY <1>1, <1>8, <1>10
        <3> QED
            BY <1>1, <1>8, <1>10, <2>2, <2>3, <2>4, <3>1 DEF Asking
    <2>6. Fits(r)
        BY <1>1, <1>8, <1>10 DEF Fits, CommandsFit
    <2>7. Final(e, r)
        BY <1>11 DEF Final
    <2> QED
        BY <1>6, <1>10, <2>1, <2>5, <2>6, <2>7 DEF Fine, Good, Phased
<1>13. CASE k = 0
    <2>1. r.asked = <<>>
        BY <1>2, <1>4, <1>8, <1>13, EmptySeq
    <2>2. CASE r.iRollOverState = "InProgress"
        <3> DEFINE g == Ask(r, "Init")
                   s == [g EXCEPT !.iState = "Initializing"]
        <3>1. HandleSourceNodeQueryInterfaceOptional(e) = s
            BY <1>8, <1>9, <1>13, <2>2
        <3>2. Executes(e, {"Init"}) /\ "Init" \in Initial
            BY <1>1, <1>8, <2>2 DEF Initial
        <3>3. Fine(s) /\ Final(e, s)
            BY <1>1, <1>6, <1>7, <1>8, <2>1, <3>2, AskAgain
        <3> QED
            BY <3>1, <3>3
    <2>3. CASE r.iRollOverState # "InProgress"
        <3> DEFINE s == EngineCommandCompleted(r, "success")
        <3>1. HandleSourceNodeQueryInterfaceOptional(e) = s
            BY <1>8, <1>9, <1>13, <2>3
        <3>2. r.iRollOverState = "Idle" /\ "success" \in Statuses \ {"asked"}
            BY <1>1, <1>6, <1>8, <2>3 DEF IsEngine, Statuses
        <3>3. Fine(s) /\ Final(e, s)
            BY <1>1, <1>6, <1>7, <1>8, <2>1, <3>2, AddsEnd
        <3> QED
            BY <3>1, <3>3
    <2> QED
        BY <2>2, <2>3
<1> QED
    BY <1>4, <1>12, <1>13

LEMMA DurationEnds ==
    ASSUME NEW e, Answered(e), e.iSourceNode # "created", e.iRollOverState = "Idle"
    PROVE  LET r == HandleSourceNodeGetDurationValue(e)
           IN  Fine(r) /\ Final(e, r)
<1> DEFINE f == [e EXCEPT !.iState = "Initialized"]
           r == EngineCommandCompleted(f, "success")
<1>1. HandleSourceNodeGetDurationValue(e) = r
    BY DEF HandleSourceNodeGetDurationValue
<1>2. Waited(e) /\ e.asked = <<>> /\ e.iCmdToCancel = NoCmd /\ e.iDataSource
    BY DEF Answered, Waited
<1>3. IsEngine(e)
    BY DEF Answered, Waited
<1>4. IsEngine(f)
    BY <1>3 DEF IsEngine
<1>5. SameCommands(e, f)
    BY <1>3 DEF IsEngine, SameCommands
<1>6. /\ f.asked = e.asked /\ f.iCmdToCancel = e.iCmdToCancel /\ f.iState = "Initialized"
      /\ f.iRollOverState = e.iRollOverState /\ f.iDataSource = e.iDataSource
      /\ f.iSourceNode = e.iSourceNode
    BY <1>3 DEF IsEngine
<1>7. "success" \in Statuses \ {"asked"}
    BY DEF Statuses
<1> HIDE DEF f
<1>8. Fine(r) /\ Final(e, r)
    BY <1>2, <1>4, <1>5, <1>6, <1>7, AddsEnd
<1> QED
    BY <1>1, <1>8
(* The node's answer to Init.                                              *)
LEMMA InitAnswered ==
    ASSUME NEW e, Answered(e), Executes(e, {"Init"}), e.iState = "Initializing",
           e.iSourceNode = "ready", use.alternates \in Nat,
           NEW status \in {"success", "known", "cancelled"} \cup Faults
    PROVE  LET r == HandleSourceNodeInit(e, status)
           IN  Fine(r) /\ Final(e, r)
<1> DEFINE r == [e EXCEPT !.iRollOverState = "Idle"]
           idle == [r EXCEPT !.iState = "Idle"]
           initialized == [r EXCEPT !.iState = "Initialized"]
           start == [idle EXCEPT !.iRollOverState = "Start", !.scheduled = TRUE]
<1>1. /\ Waited(e) /\ IsEngine(e) /\ Filed(e) /\ HeldFit(e) /\ Executes(e, Adds) /\ ~Failing(e)
      /\ ~Asked(e, "AddDataSource") /\ e.asked = <<>> /\ e.iCmdToCancel = NoCmd /\ e.iDataSource
    BY DEF Answered, Waited
<1>2. IsEngine(e)
    BY <1>1
<1>3. IsEngine(r) /\ IsEngine(idle) /\ IsEngine(initialized) /\ IsEngine(start)
    BY <1>2 DEF IsEngine
<1>4. SameCommands(e, r) /\ SameCommands(e, idle) /\ SameCommands(e, initialized)
      /\ SameCommands(e, start)
    BY <1>2 DEF IsEngine, SameCommands
<1>5. /\ r.asked = e.asked /\ r.iCmdToCancel = e.iCmdToCancel /\ r.iState = e.iState
      /\ r.iRollOverState = "Idle" /\ r.iDataSource = e.iDataSource
      /\ r.iSourceNode = e.iSourceNode
    BY <1>2 DEF IsEngine
<1>6. /\ idle.asked = e.asked /\ idle.iCmdToCancel = e.iCmdToCancel /\ idle.iState = "Idle"
      /\ idle.iRollOverState = "Idle" /\ idle.iDataSource = e.iDataSource
      /\ idle.iSourceNode = e.iSourceNode
    BY <1>2 DEF IsEngine
<1>7. /\ initialized.asked = e.asked /\ initialized.iCmdToCancel = e.iCmdToCancel
      /\ initialized.iState = "Initialized" /\ initialized.iRollOverState = "Idle"
      /\ initialized.iDataSource = e.iDataSource /\ initialized.iSourceNode = e.iSourceNode
    BY <1>2 DEF IsEngine
<1>8. /\ start.asked = e.asked /\ start.iCmdToCancel = e.iCmdToCancel /\ start.iState = "Idle"
      /\ start.iRollOverState = "Start" /\ start.iDataSource = e.iDataSource
      /\ start.iSourceNode = e.iSourceNode
    BY <1>2 DEF IsEngine
<1> HIDE DEF r, idle, initialized, start
<1>9. HandleSourceNodeInit(e, status) =
        CASE status = "success" -> Ask(r, "GetDurationValue")
          [] status = "known" -> EngineCommandCompleted(initialized, "success")
          [] status = "license" -> EngineCommandCompleted(idle, status)
          [] status = "invalid" ->
                EngineCommandCompleted(AddCommandToQueue(r, "EHInit", 0), status)
          [] OTHER -> IF CheckForSourceRollOver(e) THEN start
                      ELSE AddCommandToQueue(idle, "EHInit", 0)
    BY DEF HandleSourceNodeInit, r, idle, initialized, start
<1>10. "EHInit" \in ErrorHandling \ {"EHGeneral"} /\ "EHInit" \in ErrorHandling
    BY DEF ErrorHandling
<1>11. CASE status = "success"
    <2>1. HandleSourceNodeInit(e, status) = Ask(r, "GetDurationValue")
        BY <1>9, <1>11
    <2>2. "GetDurationValue" \in Initial
        BY DEF Initial
    <2> DEFINE g == Ask(r, "GetDurationValue")
    <2>3. r.asked = <<>> /\ r.iCmdToCancel = NoCmd /\ r.iState = "Initializing"
          /\ r.iDataSource /\ r.iSourceNode = "ready"
        BY <1>1, <1>5
    <2>4. Fine(g) /\ Final(e, g)
        BY <1>1, <1>3, <1>4, <1>5, <2>2, <2>3, AskAgain
    <2> QED
        BY <2>1, <2>4
<1>12. CASE status = "known"
    <2> DEFINE g == EngineCommandCompleted(initialized, "success")
    <2>1. HandleSourceNodeInit(e, status) = g
        BY <1>9, <1>12
    <2>2. "success" \in Statuses \ {"asked"}
        BY DEF Statuses
    <2>3. Fine(g) /\ Final(e, g)
        BY <1>1, <1>3, <1>4, <1>7, <2>2, AddsEnd
    <2> QED
        BY <2>1, <2>3
<1>13. CASE status = "license"
    <2> DEFINE g == EngineCommandCompleted(idle, status)
    <2>1. HandleSourceNodeInit(e, status) = g
        BY <1>9, <1>13
    <2>2. status \in Statuses \ {"asked"}
        BY <1>13 DEF Statuses, Faults
    <2>3. Fine(g) /\ Final(e, g)
        BY <1>1, <1>3, <1>4, <1>6, <2>2, AddsEnd
    <2> QED
        BY <2>1, <2>3
<1>14. CASE status = "invalid"
    <2> DEFINE f == AddCommandToQueue(r, "EHInit", 0)
               g == EngineCommandCompleted(f, status)
    <2>1. HandleSourceNodeInit(e, status) = g
        BY <1>9, <1>14
    <2>2. Filed(r) /\ HeldFit(r) /\ SourceWanted(r) /\ ~Asked(r, "AddDataSource")
        BY <1>1, <1>4, SameFiled
    <2>3. CommandsFit(r) /\ r.iCurrentCmd = e.iCurrentCmd /\ r.calls = e.calls
        BY <1>4, <2>2 DEF CommandsFit, SameCommands
    <2>4. /\ IsEngine(f) /\ SamePlace([r EXCEPT !.iState = "Error"], f)
          /\ f.iCurrentCmd = r.iCurrentCmd /\ f.calls = r.calls
          /\ Failing(f) /\ Filed(f) /\ CommandsFit(f)
        BY <1>3, <1>10, <2>2, <2>3, FailureIs
    <2> HIDE DEF f
    <2>5. /\ f.asked = r.asked /\ f.iCmdToCancel = r.iCmdToCancel /\ f.iState = "Error"
          /\ f.iRollOverState = r.iRollOverState /\ f.iDataSource = r.iDataSource
          /\ f.iSourceNode = r.iSourceNode
        BY <1>3, <2>4 DEF SamePlace, SameElse, IsEngine
    <2>6. Executes(f, API) /\ status \in Statuses \ {"asked"}
        BY <1>1, <1>14, <2>3, <2>4 DEF Executes, Adds, API, Statuses, Faults
    <2>7. /\ IsEngine(g) /\ SamePlace(f, g) /\ Told(f, g, f.iCurrentCmd.id, status)
          /\ g.iCurrentCmd = NoCmd /\ g.iPendingCmds = f.iPendingCmds
          /\ Filed(g) /\ CommandsFit(g)
        BY <2>4, <2>6, CompletedIs DEF CommandsFit
    <2> HIDE DEF g
    <2>8. Failing(g)
        BY <2>4, <2>7 DEF Failing
    <2>9. Quiet(g)
        BY <1>1, <1>5, <2>5, <2>7, <2>8 DEF Quiet, SamePlace, SameElse
    <2>10. Fits(g)
        BY <1>1, <1>5, <2>5, <2>7 DEF Fits, SamePlace, SameElse
    <2>11. Final(e, g)
        BY <1>14, <2>3, <2>4, <2>7 DEF Final, Told
    <2> QED
        BY <2>1, <2>7, <2>9, <2>10, <2>11 DEF Fine, Good, Phased
<1>15. CASE status \notin {"success", "known", "license", "invalid"}
    <2>1. CASE CheckForSourceRollOver(e)
        <3>1. HandleSourceNodeInit(e, status) = start
            BY <1>9, <1>15, <2>1
        <3>2. use.alternates > 0
            BY <1>2, <2>1 DEF CheckForSourceRollOver, IsEngine
        <3>3. /\ start.asked = <<>> /\ start.iCmdToCancel = NoCmd /\ start.iDataSource
              /\ start.iSourceNode = "ready"
            BY <1>1, <1>8
        <3> QED
            BY <1>3, <1>4, <1>8, <3>1, <3>2, <3>3, StartsAgain
    <2>2. CASE ~CheckForSourceRollOver(e)
        <3> DEFINE g == AddCommandToQueue(idle, "EHInit", 0)
        <3>1. HandleSourceNodeInit(e, status) = g
            BY <1>9, <1>15, <2>2
        <3>2. Fine(g) /\ Final(e, g)
            BY <1>1, <1>3, <1>4, <1>6, <1>10, FailsNext
        <3> QED
            BY <3>1, <3>2
    <2> QED
        BY <2>1, <2>2
<1> QED
    BY <1>11, <1>12, <1>13, <1>14, <1>15
-----------------------------------------------------------------------------
(* NodeCommandCompleted, in each phase.                                    *)
Rest(a) == [a EXCEPT !.asked = Tail(@)]

LEMMA RestIs ==
    ASSUME NEW a, IsEngine(a), a.asked # <<>>
    PROVE  LET e == Rest(a)
           IN  /\ IsEngine(e) /\ SameCommands(a, e) /\ SameElse(a, e)
               /\ Head(a.asked) = a.asked[1]
               /\ a.asked[1] \in [type : Questions, id : Nat]
               /\ Len(a.asked) \in Nat /\ Len(a.asked) >= 1
               /\ Len(e.asked) = Len(a.asked) - 1
               /\ \A i \in 1 .. Len(e.asked) : e.asked[i] = a.asked[i + 1]
               /\ Len(a.asked) = 1 => e.asked = <<>>
               /\ \A c : Final(e, c) => Final(a, c)
<1> DEFINE S == [type : Questions, id : Nat]
           t == Tail(a.asked)
           e == [a EXCEPT !.asked = t]
<1>1. a.asked \in Seq(S)
    BY DEF IsEngine
<1> HIDE DEF S
<1>2. /\ t \in Seq(S) /\ Len(t) = Len(a.asked) - 1
      /\ \A i \in 1 .. Len(t) : t[i] = a.asked[i + 1]
    BY <1>1, HeadTailProperties
<1>3. Len(a.asked) \in Nat /\ Len(a.asked) >= 1
    BY <1>1, LenProperties, EmptySeq
<1>4. Head(a.asked) = a.asked[1] /\ a.asked[1] \in S
    BY <1>1, <1>3
<1>5. Len(a.asked) = 1 => t = <<>>
    <2> HIDE DEF t
    <2>1. t \in Seq(S) /\ (Len(a.asked) = 1 => Len(t) = 0)
        BY <1>2
    <2> QED
        BY <2>1, EmptySeq
<1>6. Rest(a) = e
    BY DEF Rest
<1> HIDE DEF t
<1>7. IsEngine(a)
    OBVIOUS
<1>8. IsEngine(e)
    BY <1>2, <1>7 DEF IsEngine, S
<1>9. SameCommands(a, e) /\ SameElse(a, e)
    BY <1>7 DEF IsEngine, SameCommands, SameElse
<1>10. e.asked = t
    BY <1>7 DEF IsEngine
<1> HIDE DEF e
<1>11. \A c : Final(e, c) => Final(a, c)
    BY <1>9 DEF Final, SameCommands
<1> QED
    BY <1>2, <1>3, <1>4, <1>5, <1>6, <1>8, <1>9, <1>10, <1>11 DEF S

LEMMA AskingSteps ==
    ASSUME NEW a, Fine(a), Asking(a), use.alternates \in Nat, use.faults \subseteq Faults,
           NEW status \in Answers(a.asked[1].type, Rest(a).asked)
    PROVE  LET r == Handle(Rest(a), a.asked[1].type, status)
           IN  Fine(r) /\ Final(a, r)
<1> DEFINE e == Rest(a)
           q == a.asked[1]
           type == q.type
           r == Handle(e, type, status)
<1>1. /\ IsEngine(a) /\ Filed(a) /\ Fits(a) /\ HeldFit(a) /\ a.asked # <<>> /\ Asks(a, q)
      /\ \A i \in 1 .. Len(a.asked) : a.asked[i] = q
      /\ Executes(a, Adds) /\ a.iCurrentCmd # NoCmd
    BY DEF Fine, Good, Fits, CommandsFit, Asking, Executes
<1>2. /\ IsEngine(e) /\ SameCommands(a, e) /\ SameElse(a, e)
      /\ Len(a.asked) \in Nat /\ Len(a.asked) >= 1
      /\ Len(e.asked) = Len(a.asked) - 1
      /\ \A i \in 1 .. Len(e.asked) : e.asked[i] = a.asked[i + 1]
      /\ Len(a.asked) = 1 => e.asked = <<>>
      /\ \A c : Final(e, c) => Final(a, c)
    BY <1>1, RestIs
<1> SUFFICES Fine(r) /\ Final(e, r)
    BY <1>2
<1> HIDE DEF e
<1>3. /\ Filed(e) /\ (Failing(e) <=> Failing(a)) /\ HeldFit(e)
      /\ \A types : Executes(e, types) <=> Executes(a, types)
      /\ Asked(e, "AddDataSource") <=> Asked(a, "AddDataSource")
    BY <1>1, <1>2, SameFiled
<1>4. ~Asked(a, "AddDataSource")
    BY <1>1 DEF Fits, CommandsFit
<1>5. /\ e.iCmdToCancel = NoCmd /\ e.iDataSource /\ e.iRollOverState # "Start"
      /\ e.iRollOverState # "Idle" => Executes(a, {"Init"}) /\ use.alternates > 0
    <2>1. a.iRollOverState = "InProgress" => Executes(a, {"Init"})
        BY DEF Asking
    <2>2. a.iRollOverState # "Idle" => use.alternates > 0
        BY <1>1 DEF Fits
    <2>3. a.iCmdToCancel = NoCmd /\ a.iDataSource /\ a.iRollOverState # "Start"
        BY DEF Asking
    <2>4. a.iRollOverState \in {"Idle", "Start", "InProgress"}
        BY <1>1 DEF IsEngine
    <2> QED
        BY <1>2, <2>1, <2>2, <2>3, <2>4 DEF SameElse
<1>6. Waited(e)
    <2>1. ~Failing(a)
        BY DEF Asking
    <2> QED
        BY <1>1, <1>2, <1>3, <1>4, <1>5, <2>1 DEF Waited
<1>7. /\ q.type \in Questions \ {"Reset", "CancelAll"} /\ q.id = e.iCurrentCmd.id
      /\ e.iState = IF q.type \in Initial THEN "Initializing" ELSE "Idle"
      /\ q.type \in Initial => Executes(e, {"Init"})
      /\ q.type = "GetDurationValue" => e.iRollOverState = "Idle"
      /\ q.type = "Recognize" => Executes(e, {"AddDataSource"})
      /\ q.type # "Recognize" => e.iSourceNode = "ready"
      /\ Len(a.asked) = IF q.type = "QueryInterfaceOptional" THEN e.iNumPendingNodeCmd ELSE 1
    BY <1>1, <1>2, <1>3 DEF Asks, SameCommands, SameElse
<1>8. q.type # "QueryInterfaceOptional" => Answered(e)
    BY <1>2, <1>6, <1>7 DEF Answered
<1>9. \A i \in 1 .. Len(e.asked) : e.asked[i] = q
    BY <1>1, <1>2
<1>10. status \in {"success", "known", "cancelled"} \cup Faults
    BY <1>7 DEF Answers, Questions, Faults, e
<1> HIDE DEF q
<1>11. CASE type = "Recognize"
    <2>1. r = RecognizeCompleted(e, status = "success")
        BY <1>11 DEF Handle
    <2>2. e.iState = "Idle" /\ e.iRollOverState = "Idle"
        BY <1>3, <1>5, <1>7, <1>11 DEF Initial, Executes
    <2> QED
        BY <1>8, <1>11, <2>1, <2>2, RecognizeEnds
<1>12. CASE type = "QueryInitIF"
    <2>1. r = HandleSourceNodeQueryInitIF(e, status)
        BY <1>12 DEF Handle
    <2>2. e.iState = "Idle" /\ e.iSourceNode = "ready" /\ e.asked = <<>>
        BY <1>2, <1>7, <1>12 DEF Initial
    <2>3. CASE status = "success"
        <3>1. r = Ask(e, "QueryTrackSelIF")
            BY <2>1, <2>3 DEF HandleSourceNodeQueryInitIF
        <3>2. SameCommands(e, e) /\ "QueryTrackSelIF" \notin Initial
            BY DEF SameCommands, Initial
        <3> DEFINE g == Ask(e, "QueryTrackSelIF")
        <3>3. Fine(g) /\ Final(e, g)
            BY <1>2, <1>3, <1>5, <1>6, <2>2, <3>2, AskAgain
        <3> QED
            BY <3>1, <3>3
    <2>4. CASE status # "success"
        <3>1. r = QueryFailed(e)
            BY <2>1, <2>4 DEF HandleSourceNodeQueryInitIF
        <3> QED
            BY <1>8, <1>12, <2>2, <3>1, QueryFails
    <2> QED
        BY <2>3, <2>4
<1>13. CASE type = "QueryTrackSelIF"
    <2>1. r = HandleSourceNodeQueryTrackSelIF(e, status)
        BY <1>13 DEF Handle
    <2>2. e.iState = "Idle" /\ e.iSourceNode = "ready"
        BY <1>7, <1>13 DEF Initial
    <2> QED
        BY <1>8, <1>13, <2>1, <2>2, TrackSelectionEnds
<1>14. CASE type = "QueryInterfaceOptional"
    <2>1. r = HandleSourceNodeQueryInterfaceOptional(e)
        BY <1>14 DEF Handle
    <2>2. e.iState = "Idle" /\ e.iSourceNode = "ready" /\ e.iNumPendingNodeCmd = Len(e.asked) + 1
        BY <1>2, <1>7, <1>14 DEF Initial
    <2> QED
        BY <1>6, <1>7, <1>9, <1>14, <2>1, <2>2, InterfacesEnd
<1>15. CASE type = "Init"
    <2>1. r = HandleSourceNodeInit(e, status)
        BY <1>15 DEF Handle
    <2>2. e.iState = "Initializing" /\ e.iSourceNode = "ready" /\ Executes(e, {"Init"})
        BY <1>7, <1>15 DEF Initial
    <2> QED
        BY <1>8, <1>10, <1>15, <2>1, <2>2, InitAnswered
<1>16. CASE type = "GetDurationValue"
    <2>1. r = HandleSourceNodeGetDurationValue(e)
        BY <1>16 DEF Handle
    <2>2. e.iSourceNode # "created" /\ e.iRollOverState = "Idle"
        BY <1>7, <1>16
    <2> QED
        BY <1>8, <1>16, <2>1, <2>2, DurationEnds
<1>17. type \in {"Recognize", "QueryInitIF", "QueryTrackSelIF", "QueryInterfaceOptional",
                 "Init", "GetDurationValue"}
    BY <1>7 DEF Questions
<1> QED
    BY <1>11, <1>12, <1>13, <1>14, <1>15, <1>16, <1>17 DEF e, q
LEMMA StillCancelling ==
    ASSUME NEW a, Fine(a), Cancelling(a), NEW r, IsEngine(r), SameCommands(a, r),
           r.iState = a.iState, r.iRollOverState = a.iRollOverState,
           r.iCmdToCancel = a.iCmdToCancel, r.iSourceNode = a.iSourceNode,
           r.iDataSource = a.iDataSource,
           r.iNumberCancelCmdPending \in 1 .. Len(r.asked),
           \A i \in 1 .. Len(r.asked) :
             /\ r.asked[i].type # "Reset"
             /\ r.asked[i].type = "CancelAll" <=> i > Len(r.asked) - r.iNumberCancelCmdPending
    PROVE  Fine(r)
<1>1. Filed(a) /\ Fits(a) /\ CommandsFit(a)
    BY DEF Fine, Good, Fits
<1>2. /\ Filed(r) /\ (Failing(r) <=> Failing(a)) /\ CommandsFit(r)
      /\ \A types : Executes(r, types) <=> Executes(a, types)
    BY <1>1, SameFiled
<1>3. Fits(r)
    BY <1>1, <1>2 DEF Fits
<1>4. Cancelling(r)
    BY <1>2 DEF Cancelling
<1> QED
    BY <1>2, <1>3, <1>4 DEF Fine, Good, Phased

LEMMA CancellingSteps ==
    ASSUME NEW a, Fine(a), Cancelling(a)
    PROVE  /\ a.asked[1].type # "CancelAll" => Fine(Rest(a))
           /\ a.asked[1].type = "CancelAll" => Fine(CancelCompleted(Rest(a)))
           /\ a.asked[1].type = "CancelAll" => Final(a, CancelCompleted(Rest(a)))
<1> DEFINE e == Rest(a)
           n == a.iNumberCancelCmdPending
           k == n - 1
           r == [e EXCEPT !.iNumberCancelCmdPending = k]
           s == [r EXCEPT !.iCmdToCancel = NoCmd]
<1>1. /\ IsEngine(a) /\ n \in 1 .. Len(a.asked)
      /\ \A i \in 1 .. Len(a.asked) :
          /\ a.asked[i].type # "Reset"
          /\ a.asked[i].type = "CancelAll" <=> i > Len(a.asked) - n
      /\ Executes(a, Cancels) /\ ~Failing(a) /\ a.iSourceNode = "ready"
      /\ a.iRollOverState = "Idle"
    BY DEF Fine, Cancelling
<1>2. a.asked # <<>>
    BY <1>1
<1>3. /\ IsEngine(e) /\ SameCommands(a, e) /\ SameElse(a, e)
      /\ Len(a.asked) \in Nat /\ Len(a.asked) >= 1
      /\ Len(e.asked) = Len(a.asked) - 1
      /\ \A i \in 1 .. Len(e.asked) : e.asked[i] = a.asked[i + 1]
      /\ Len(a.asked) = 1 => e.asked = <<>>
      /\ \A c : Final(e, c) => Final(a, c)
    BY <1>1, <1>2, RestIs
<1> HIDE DEF e
<1>4. n \in Nat /\ k \in Nat /\ k = n - 1
    BY <1>1, <1>3
<1> HIDE DEF k
<1>5. ASSUME a.asked[1].type # "CancelAll"
      PROVE  Fine(e)
    <2>1. n <= Len(e.asked) /\ e.iNumberCancelCmdPending = n
        BY <1>1, <1>3, <1>5 DEF SameElse
    <2>2. e.iNumberCancelCmdPending \in 1 .. Len(e.asked)
        BY <1>1, <1>3, <1>4, <2>1
    <2>3. ASSUME NEW i \in 1 .. Len(e.asked)
          PROVE  /\ e.asked[i].type # "Reset"
                 /\ e.asked[i].type = "CancelAll" <=> i > Len(e.asked) - e.iNumberCancelCmdPending
        <3>1. i + 1 \in 1 .. Len(a.asked) /\ e.asked[i] = a.asked[i + 1]
            BY <1>3
        <3>2. e.asked[i].type = "CancelAll" <=> i + 1 > Len(a.asked) - n
            BY <1>1, <3>1
        <3> QED
            BY <1>1, <1>3, <1>4, <2>1, <3>1, <3>2
    <2> QED
        BY <1>3, <2>2, <2>3, StillCancelling DEF SameElse
<1>6. IsEngine(e)
    BY <1>3
<1>7. IsEngine(r)
    BY <1>4, <1>6 DEF IsEngine
<1>8. SameCommands(e, r) /\ r.iNumberCancelCmdPending = k
    BY <1>6 DEF IsEngine, SameCommands
<1>9. /\ r.asked = e.asked /\ r.iState = e.iState /\ r.iRollOverState = e.iRollOverState
      /\ r.iCmdToCancel = e.iCmdToCancel /\ r.iSourceNode = e.iSourceNode
      /\ r.iDataSource = e.iDataSource
    BY <1>6 DEF IsEngine
<1>10. CancelCompleted(e) = IF r.iNumberCancelCmdPending > 0 THEN r ELSE ResetSourceNode(s)
    <2>1. e.iNumberCancelCmdPending = n
        BY <1>3 DEF SameElse
    <2>2. r = [e EXCEPT !.iNumberCancelCmdPending = @ - 1]
        BY <2>1 DEF k
    <2> HIDE DEF r
    <2> QED
        BY <2>2 DEF CancelCompleted
<1>11. IsEngine(s)
    <2> HIDE DEF r
    <2> QED
        BY <1>7 DEF IsEngine
<1>12. SameCommands(r, s)
    <2> HIDE DEF r
    <2> QED
        BY <1>7 DEF IsEngine, SameCommands
<1>13. /\ s.asked = r.asked /\ s.iRollOverState = r.iRollOverState
       /\ s.iCmdToCancel = NoCmd /\ s.iSourceNode = r.iSourceNode
       /\ s.iDataSource = r.iDataSource
    <2> HIDE DEF r
    <2> QED
        BY <1>7 DEF IsEngine
<1> HIDE DEF r, s
<1>14. SameCommands(a, r) /\ SameCommands(a, s)
    BY <1>3, <1>8, <1>12 DEF SameCommands
<1>15. ASSUME a.asked[1].type = "CancelAll"
       PROVE  Fine(CancelCompleted(e)) /\ Final(a, CancelCompleted(e))
    <2>1. n = Len(a.asked)
        BY <1>1, <1>3, <1>4, <1>15
    <2>2. CASE k > 0
        <3>1. CancelCompleted(e) = r
            BY <1>8, <1>10, <2>2
        <3>2. r.iNumberCancelCmdPending = Len(r.asked) /\ Len(r.asked) \in Nat \ {0}
            BY <1>3, <1>4, <1>8, <1>9, <2>1, <2>2
        <3>3. ASSUME NEW i \in 1 .. Len(r.asked)
              PROVE  /\ r.asked[i].type # "Reset"
                     /\ r.asked[i].type = "CancelAll"
                            <=> i > Len(r.asked) - r.iNumberCancelCmdPending
            <4>1. i + 1 \in 1 .. Len(a.asked) /\ r.asked[i] = a.asked[i + 1]
                BY <1>3, <1>9
            <4>2. r.asked[i].type = "CancelAll" <=> i + 1 > Len(a.asked) - n
                BY <1>1, <4>1
            <4> QED
                BY <1>1, <1>3, <1>4, <2>1, <3>2, <4>1, <4>2
        <3>4. r.iNumberCancelCmdPending \in 1 .. Len(r.asked)
            BY <3>2
        <3>5. Fine(r)
            BY <1>3, <1>7, <1>9, <1>14, <3>3, <3>4, StillCancelling DEF SameElse
        <3>6. Final(a, r)
            BY <1>14 DEF Final, SameCommands
        <3> QED
            BY <3>1, <3>5, <3>6
    <2>3. CASE k = 0
        <3> DEFINE t == ResetSourceNode(s)
        <3>1. CancelCompleted(e) = t
            BY <1>8, <1>10, <2>3
        <3>2. s.asked = <<>>
            BY <1>3, <1>4, <1>9, <1>13, <2>1, <2>3
        <3>3. /\ IsEngine(t) /\ SameCommands(s, t)
              /\ t.iState = "Resetting" /\ t.iCmdToCancel = s.iCmdToCancel
              /\ t.iRollOverState = s.iRollOverState
              /\ t.iSourceNode = s.iSourceNode /\ t.iDataSource = s.iDataSource
              /\ Len(t.asked) = 1 /\ t.asked[1].type = "Reset"
            BY <1>11, <3>2, ResetIs
        <3> HIDE DEF t
        <3>4. /\ s.iCmdToCancel = NoCmd /\ s.iRollOverState = "Idle"
              /\ s.iSourceNode = "ready" /\ s.iDataSource = a.iDataSource
            BY <1>1, <1>3, <1>9, <1>13 DEF SameElse
        <3>5. Filed(a) /\ HeldFit(a) /\ SourceWanted(a) /\ a.iDataSource
            BY <1>1 DEF Fine, Good, Fits, CommandsFit
        <3>6. Executes(a, Resets) /\ ~Asked(a, "AddDataSource")
            BY <1>1, <3>5 DEF Executes, Resets, SourceWanted
        <3>7. /\ Filed(s) /\ HeldFit(s) /\ SourceWanted(s) /\ ~Failing(s) /\ Executes(s, Resets)
            BY <1>1, <1>14, <3>5, <3>6, SameFiled
        <3>8. Fine(t) /\ Final(s, t)
            BY <1>11, <3>3, <3>4, <3>5, <3>7, NodeResets
        <3>9. Final(a, t)
            BY <1>14, <3>8 DEF Final, SameCommands
        <3> QED
            BY <3>1, <3>8, <3>9
    <2> QED
        BY <1>4, <2>2, <2>3
<1> QED
    BY <1>5, <1>15 DEF e

(* The node is reset: the command or the error handling goes on when the   *)
(* engine next runs.                                                       *)
LEMMA ResettingSteps ==
    ASSUME NEW a, Fine(a), Resetting(a)
    PROVE  LET r == HandleSourceNodeReset(Rest(a))
           IN  Fine(r) /\ Final(a, r)
<1> DEFINE e == Rest(a)
           r == [e EXCEPT !.iSourceNode = "created", !.iState = "Idle", !.scheduled = TRUE]
<1>1. /\ IsEngine(a) /\ Filed(a) /\ Fits(a) /\ CommandsFit(a) /\ a.iDataSource
      /\ Len(a.asked) = 1 /\ a.iCmdToCancel = NoCmd /\ a.iRollOverState = "Idle"
      /\ IF Failing(a) THEN a.iCurrentCmd = NoCmd \/ Executes(a, Adds) ELSE Executes(a, Resets)
    BY DEF Fine, Good, Fits, Resetting
<1>2. a.asked # <<>>
    <2>1. Len(a.asked) = 1
        BY <1>1
    <2> QED
        BY <2>1
<1>3. /\ IsEngine(e) /\ SameCommands(a, e) /\ SameElse(a, e) /\ e.asked = <<>>
    BY <1>1, <1>2, RestIs
<1> HIDE DEF e
<1>4. HandleSourceNodeReset(e) = r
    BY DEF HandleSourceNodeReset
<1>5. IsEngine(e)
    BY <1>3
<1>6. IsEngine(r)
    BY <1>5 DEF IsEngine
<1>7. SameCommands(e, r)
    BY <1>5 DEF IsEngine, SameCommands
<1>8. /\ r.asked = e.asked /\ r.iState = "Idle" /\ r.iRollOverState = e.iRollOverState
      /\ r.iCmdToCancel = e.iCmdToCancel /\ r.iSourceNode = "created"
      /\ r.iDataSource = e.iDataSource
    BY <1>5 DEF IsEngine
<1> HIDE DEF r
<1>9. SameCommands(a, r)
    BY <1>3, <1>7 DEF SameCommands
<1>10. /\ r.asked = <<>> /\ r.iRollOverState = "Idle" /\ r.iCmdToCancel = NoCmd
       /\ r.iDataSource
    BY <1>1, <1>3, <1>8 DEF SameElse
<1>11. /\ Filed(r) /\ (Failing(r) <=> Failing(a)) /\ CommandsFit(r)
       /\ \A types : Executes(r, types) <=> Executes(a, types)
    BY <1>1, <1>9, SameFiled
<1>12. r.iCurrentCmd = a.iCurrentCmd
    BY <1>9 DEF SameCommands
<1>13. Quiet(r)
    <2>1. r.iCurrentCmd # NoCmd =>
            \/ Executes(r, Resets) /\ ~Failing(r)
            \/ Executes(r, Adds) /\ Failing(r)
        BY <1>1, <1>11, <1>12
    <2>2. ~Failing(r) => Executes(r, Resets)
        BY <1>1, <1>11
    <2> QED
        BY <1>8, <1>10, <2>1, <2>2 DEF Quiet
<1>14. Fits(r)
    BY <1>10, <1>11 DEF Fits
<1>15. Final(a, r)
    BY <1>9 DEF Final, SameCommands
<1> QED
    BY <1>4, <1>6, <1>11, <1>13, <1>14, <1>15 DEF Fine, Good, Phased, e

LEMMA NodeSteps ==
    ASSUME IInv, NodeCommandCompleted
    PROVE  Steps
<1> DEFINE e == Rest(engine)
           q == engine.asked[1]
<1>1. Fine(engine) /\ IsEngine(engine) /\ engine.asked # <<>>
    BY DEF IInv, TypeOK, Fine, NodeCommandCompleted
<1>2. /\ IsEngine(e) /\ SameCommands(engine, e) /\ SameElse(engine, e)
      /\ Head(engine.asked) = q /\ Len(engine.asked) = 1 => e.asked = <<>>
    BY <1>1, RestIs
<1>3. PICK status \in Answers(q.type, e.asked) :
        engine' = CASE q.type = "CancelAll" -> CancelCompleted(e)
                    [] q.type # "CancelAll"
                         /\ \/ e.iCmdToCancel # NoCmd
                            \/ CheckForPendingErrorHandlingCmd(e) /\ status = "cancelled" -> e
                    [] OTHER -> Handle(e, q.type, status)
    <2>1. Head(engine.asked) = q
        BY <1>1, RestIs
    <2> HIDE DEF q
    <2> QED
        BY <2>1 DEF NodeCommandCompleted, Rest
<1> HIDE DEF e
<1>4. CASE Quiet(engine)
    BY <1>1, <1>4 DEF Quiet
<1>5. CASE Asking(engine)
    <2>1. /\ q.type \notin {"CancelAll", "Reset"} /\ e.iCmdToCancel = NoCmd /\ ~Failing(engine)
        BY <1>2, <1>5 DEF Asking, Asks, SameElse
    <2>2. ~CheckForPendingErrorHandlingCmd(e)
        BY <1>2, <2>1, TopIs DEF CheckForPendingErrorHandlingCmd, TopIsIn, Failing, SameCommands
    <2> DEFINE r == Handle(e, q.type, status)
    <2>3. engine' = r
        <3> HIDE DEF q
        <3> QED
            BY <1>3, <2>1, <2>2
    <2>4. use.alternates \in Nat /\ use.faults \subseteq Faults
        BY PlayerAssumption DEF IInv, TypeOK
    <2>5. Fine(r) /\ Final(engine, r)
        BY <1>1, <1>5, <2>4, AskingSteps DEF e
    <2> QED
        BY <2>3, <2>5 DEF Steps
<1>6. CASE Cancelling(engine)
    <2>1. e.iCmdToCancel # NoCmd
        BY <1>2, <1>6 DEF Cancelling, SameElse
    <2>2. CASE q.type = "CancelAll"
        <3>1. engine' = CancelCompleted(e)
            BY <1>3, <2>2
        <3> QED
            BY <1>1, <1>6, <2>2, <3>1, CancellingSteps DEF Steps, e
    <2>3. CASE q.type # "CancelAll"
        <3>1. engine' = e
            BY <1>3, <2>1, <2>3
        <3>2. Final(engine, e)
            BY <1>2 DEF Final, SameCommands
        <3>3. Fine(e)
            BY <1>1, <1>6, <2>3, CancellingSteps DEF e
        <3> QED
            BY <3>1, <3>2, <3>3 DEF Steps
    <2> QED
        BY <2>2, <2>3
<1>7. CASE Resetting(engine)
    <2>1. q.type = "Reset" /\ Len(engine.asked) = 1 /\ e.iCmdToCancel = NoCmd
        BY <1>2, <1>7 DEF Resetting, SameElse
    <2>2. e.asked = <<>>
        BY <1>1, <2>1, RestIs DEF e
    <2>3. status = "success"
        BY <1>3, <2>1, <2>2 DEF Answers
    <2>4. engine' = Handle(e, "Reset", status)
        <3> HIDE DEF q
        <3> QED
            BY <1>3, <2>1, <2>3
    <2>5. engine' = HandleSourceNodeReset(e)
        BY <2>4 DEF Handle
    <2> QED
        BY <1>1, <1>7, <2>5, ResettingSteps DEF Steps, e
<1>8. Phased(engine)
    BY DEF IInv, Good
<1> QED
    BY <1>4, <1>5, <1>6, <1>7, <1>8 DEF Phased
-----------------------------------------------------------------------------
(* The other actions.                                                      *)

LEMMA ErrorEventSteps ==
    ASSUME IInv, HandleSourceNodeErrorEvent
    PROVE  Steps
<1> DEFINE e == engine
           r == AddCommandToQueue(e, "EHGeneral", 0)
<1>1. /\ IsEngine(e) /\ Filed(e) /\ Fits(e) /\ CommandsFit(e) /\ Phased(e)
      /\ errors \in 0 .. use.errors /\ use \in Uses
    BY DEF IInv, TypeOK, Good, Fits
<1>2. /\ engine' = r /\ e.iSourceNode = "ready" /\ e.iState # "Resetting" /\ Contexts(e) = {}
      /\ errors < use.errors
    BY DEF HandleSourceNodeErrorEvent
<1>3. use.errors \in Nat /\ use.errors > 0
    BY <1>1, <1>2, PlayerAssumption
<1>4. Quiet(e)
    <2>1. ASSUME Asking(e)
          PROVE  FALSE
        <3>1. /\ e.asked \in Seq([type : Questions, id : Nat]) /\ e.asked # <<>>
              /\ e.asked[1].type # "CancelAll"
            BY <1>1, <2>1 DEF IsEngine, Asking, Asks
        <3>2. 1 \in DOMAIN e.asked
            BY <3>1
        <3> HIDE DEF e
        <3> QED
            BY <1>2, <3>1, <3>2 DEF Contexts
    <2> QED
        BY <1>1, <1>2, <2>1 DEF Phased, Cancelling, Resetting
<1> HIDE DEF e
<1>5. "EHGeneral" \in ErrorHandling
    BY DEF ErrorHandling
<1>6. /\ IsEngine(r) /\ SamePlace([e EXCEPT !.iState = "Error"], r)
      /\ r.iCurrentCmd = e.iCurrentCmd /\ r.calls = e.calls
      /\ Failing(r) /\ Filed(r) /\ CommandsFit(r)
    BY <1>1, <1>3, <1>5, FailureIs
<1> HIDE DEF r
<1>7. /\ r.asked = e.asked /\ r.iState = "Error" /\ r.iRollOverState = e.iRollOverState
      /\ r.iCmdToCancel = e.iCmdToCancel /\ r.iSourceNode = e.iSourceNode
      /\ r.iDataSource = e.iDataSource
    BY <1>1, <1>6 DEF SamePlace, SameElse, IsEngine
<1>8. \A types : Executes(r, types) <=> Executes(e, types)
    BY <1>6 DEF Executes
<1>9. Quiet(r)
    <2>1. e.iCurrentCmd # NoCmd => Executes(e, Adds)
        BY <1>2, <1>4 DEF Quiet
    <2> QED
        BY <1>2, <1>3, <1>4, <1>6, <1>7, <1>8, <2>1 DEF Quiet
<1>10. Fits(r)
    BY <1>1, <1>6, <1>7 DEF Fits
<1>11. Final(e, r)
    BY <1>6 DEF Final
<1> QED
    BY <1>2, <1>6, <1>9, <1>10, <1>11 DEF Steps, Fine, Good, Phased, e

(* The application issues a command: it is held, and the newest.           *)
LEMMA IssueSteps ==
    ASSUME IInv, NEW type \in use.commands, NEW of \in Nat, Issue(type, of)
    PROVE  Steps
<1> DEFINE e == engine
           n == e.iCommandId
           cmd == [id |-> n, type |-> type, of |-> of]
           calls == [id \in DOMAIN e.calls \cup {n} |->
                        IF id = n THEN [type |-> type, status |-> "asked"] ELSE e.calls[id]]
           s == [e EXCEPT !.iPendingCmds = e.iPendingCmds \cup {cmd}, !.iCommandId = n + 1,
                          !.iState = e.iState, !.scheduled = TRUE]
           r == [s EXCEPT !.calls = calls]
<1>1. /\ IsEngine(e) /\ Filed(e) /\ Fits(e) /\ CommandsFit(e) /\ Phased(e) /\ use \in Uses
    BY DEF IInv, TypeOK, Good, Fits
<1>2. type \in API
    BY <1>1, PlayerAssumption
<1>3. AddCommandToQueue(e, type, of) = s
    BY <1>1, <1>2 DEF AddCommandToQueue, IsEngine, API, ErrorHandling
<1>4. s.calls = e.calls
    BY <1>1 DEF IsEngine
<1>5. engine' = r
    <2> HIDE DEF s
    <2>1. engine' = [s EXCEPT !.calls =
                        [id \in DOMAIN s.calls \cup {n} |->
                            IF id = n THEN [type |-> type, status |-> "asked"] ELSE s.calls[id]]]
        BY <1>3 DEF Issue
    <2> QED
        BY <1>4, <2>1
<1>6. type = "AddDataSource" =>
        ~e.iDataSource /\ ~Asked(e, "AddDataSource") /\ e.iCurrentCmd = NoCmd
    BY DEF Issue
<1> HIDE DEF e
<1>7. n \in Nat /\ (\A id \in DOMAIN e.calls : id \in Nat /\ id < n) /\ DOMAIN e.calls \subseteq Nat
    BY <1>1 DEF IsEngine, Filed, CallsHeld
<1>8. /\ cmd \in Command /\ cmd # NoCmd /\ cmd.id = n /\ cmd.type = type
    BY <1>2, <1>7, NoCmdAssumption DEF Command
<1>9. /\ DOMAIN calls = DOMAIN e.calls \cup {n}
      /\ calls \in [DOMAIN e.calls \cup {n} -> [type : API, status : Statuses]]
      /\ calls[n].type = type /\ calls[n].status = "asked"
      /\ \A id \in DOMAIN e.calls : calls[id] = e.calls[id]
    <2>1. "asked" \in Statuses
        BY DEF Statuses
    <2>2. \A id \in DOMAIN e.calls : e.calls[id] \in [type : API, status : Statuses] /\ id # n
        BY <1>1, <1>7 DEF IsEngine
    <2> QED
        BY <1>2, <2>1, <2>2
<1>10. DOMAIN calls \subseteq Nat
    BY <1>7, <1>9
<1> HIDE DEF cmd, calls
<1>11. IsEngine(s)
    BY <1>1, <1>7, <1>8 DEF IsEngine
<1>12. /\ s.iPendingCmds = e.iPendingCmds \cup {cmd} /\ s.iCommandId = n + 1
       /\ s.iCurrentCmd = e.iCurrentCmd /\ SamePlace(e, s)
    BY <1>1 DEF IsEngine, SamePlace, SameElse
<1> HIDE DEF s
<1>13. IsEngine(r)
    BY <1>9, <1>10, <1>11 DEF IsEngine
<1>14. /\ r.calls = calls /\ r.iPendingCmds = s.iPendingCmds /\ r.iCommandId = s.iCommandId
       /\ r.iCurrentCmd = s.iCurrentCmd /\ SamePlace(s, r)
    BY <1>11 DEF IsEngine, SamePlace, SameElse
<1> HIDE DEF r
<1>15. /\ r.iPendingCmds = e.iPendingCmds \cup {cmd} /\ r.iCommandId = n + 1
       /\ r.iCurrentCmd = e.iCurrentCmd /\ SamePlace(e, r)
    BY <1>12, <1>14 DEF SamePlace, SameElse
<1>16. Held(r) = Held(e) \cup {cmd} /\ e.iPendingCmds \subseteq Held(e)
    BY <1>1, <1>8, <1>15, NoCmdAssumption DEF Held, IsEngine
<1> HIDE DEF n
<1>17. \A c \in Held(e) : c.id \in Nat /\ (c.type # "Sync" => c.id < n)
    BY <1>1 DEF Filed, HeldIssued, Held, IsEngine, Command, n
<1>18. CallsHeld(r)
    <2> SUFFICES ASSUME NEW id \in DOMAIN r.calls
                 PROVE  /\ id < r.iCommandId
                        /\ r.calls[id].status = "asked"
                            => \E c \in Held(r) : c.id = id /\ c.type = r.calls[id].type
        BY DEF CallsHeld
    <2>1. CASE id = n
        BY <1>7, <1>8, <1>9, <1>14, <1>15, <1>16, <2>1
    <2>2. CASE id \in DOMAIN e.calls
        <3>1. id < n /\ id \in Nat /\ r.calls[id] = e.calls[id]
            BY <1>7, <1>9, <1>14, <2>2
        <3>2. e.calls[id].status = "asked"
                => \E c \in Held(e) : c.id = id /\ c.type = e.calls[id].type
            BY <1>1, <2>2 DEF Filed, CallsHeld
        <3> QED
            BY <1>7, <1>15, <1>16, <3>1, <3>2
    <2> QED
        BY <1>9, <1>14, <2>1, <2>2
<1>19. HeldIssued(r)
    <2>1. ASSUME NEW c \in Held(r)
          PROVE  /\ c.type \in API => c.id \in DOMAIN r.calls /\ r.calls[c.id].type = c.type
                 /\ c.type # "Sync" => c.id < r.iCommandId
        <3>1. CASE c = cmd
            BY <1>7, <1>8, <1>9, <1>14, <1>15, <3>1
        <3>2. CASE c \in Held(e)
            <4>1. c.type \in API => c.id \in DOMAIN e.calls /\ e.calls[c.id].type = c.type
                BY <1>1, <3>2 DEF Filed, HeldIssued
            <4> QED
                BY <1>7, <1>9, <1>14, <1>15, <1>17, <3>2, <4>1
        <3> QED
            BY <1>16, <3>1, <3>2
    <2>2. \A c, d \in r.iPendingCmds : c.type # "Sync" /\ d.type # "Sync" /\ c.id = d.id => c = d
        <3>1. \A c, d \in e.iPendingCmds :
                c.type # "Sync" /\ d.type # "Sync" /\ c.id = d.id => c = d
            BY <1>1 DEF Filed, HeldIssued
        <3>2. \A c \in e.iPendingCmds : c.id \in Nat /\ (c.type # "Sync" => c.id < n)
            BY <1>16, <1>17
        <3> QED
            BY <1>7, <1>8, <1>15, <3>1, <3>2
    <2> QED
        BY <2>1, <2>2 DEF HeldIssued
<1>20. CurrentIsOldest(r)
    <2> SUFFICES ASSUME r.iCurrentCmd # NoCmd, r.iCurrentCmd.type # "Sync",
                        NEW c \in r.iPendingCmds, c.type # "Sync"
                 PROVE  c.id > r.iCurrentCmd.id
        BY DEF CurrentIsOldest
    <2>1. e.iCurrentCmd \in Held(e) /\ e.iCurrentCmd.id < n /\ e.iCurrentCmd.id \in Nat
        BY <1>15, <1>17 DEF Held
    <2> QED
        BY <1>1, <1>7, <1>8, <1>15, <2>1 DEF Filed, CurrentIsOldest
<1>21. Filed(r) /\ (Failing(r) <=> Failing(e))
       /\ \A types : Executes(r, types) <=> Executes(e, types)
    BY <1>2, <1>8, <1>15, <1>18, <1>19, <1>20 DEF Filed, Failing, Executes, API, ErrorHandling
<1>22. CommandsFit(r)
    <2>1. HeldFit(r)
        BY <1>1, <1>2, <1>8, <1>16 DEF CommandsFit, HeldFit, API
    <2>2. r.iDataSource = e.iDataSource
        BY <1>15 DEF SamePlace, SameElse
    <2>3. SourceWanted(r) /\ (Asked(r, "AddDataSource") => r.iCurrentCmd = NoCmd)
        BY <1>1, <1>6, <1>8, <1>15, <2>2 DEF CommandsFit, SourceWanted, Asked
    <2> QED
        BY <2>1, <2>3 DEF CommandsFit
<1>23. Fits(r)
    BY <1>1, <1>15, <1>22 DEF Fits, SamePlace, SameElse
<1>24. Phased(r)
    <2>1. r.iCurrentCmd = e.iCurrentCmd
        BY <1>15
    <2>2. Quiet(e) => Quiet(r)
        BY <1>15, <1>21, <2>1 DEF Quiet, SamePlace, SameElse
    <2>3. Asking(e) => Asking(r)
        BY <1>15, <1>21, <2>1 DEF Asking, Asks, SamePlace, SameElse
    <2>4. Cancelling(e) => Cancelling(r)
        BY <1>15, <1>21, <2>1 DEF Cancelling, SamePlace, SameElse
    <2>5. Resetting(e) => Resetting(r)
        BY <1>15, <1>21, <2>1 DEF Resetting, SamePlace, SameElse
    <2> QED
        BY <1>1, <2>2, <2>3, <2>4, <2>5 DEF Phased
<1>25. Final(e, r)
    BY <1>9, <1>14 DEF Final
<1> QED
    BY <1>5, <1>13, <1>21, <1>23, <1>24, <1>25 DEF Steps, Fine, Good, e
LEMMA QueueSteps ==
    ASSUME IInv, ThreadSafeQueueDataAvailable
    PROVE  Steps
<1> DEFINE e == engine
           q == Range(threadSafeQueue)
           r == [e EXCEPT !.scheduled = TRUE, !.iPendingCmds = e.iPendingCmds \cup q]
<1>1. /\ IsEngine(e) /\ Filed(e) /\ Fits(e) /\ CommandsFit(e) /\ Phased(e) /\ use \in Uses
      /\ threadSafeQueue \in Seq([id : Nat, type : {"Sync"}, of : use.callers])
    BY DEF IInv, TypeOK, Good, Fits
<1>2. engine' = r
    BY <1>1 DEF ThreadSafeQueueDataAvailable, IsEngine
<1> HIDE DEF e
<1>3. \A c \in q : c \in Command /\ c # NoCmd /\ c.type = "Sync" /\ c.of \in use.callers
    <2> DEFINE S == [id : Nat, type : {"Sync"}, of : use.callers]
    <2>1. use.callers \subseteq Callers
        BY <1>1, PlayerAssumption
    <2>2. \A c \in S : c \in Command /\ c.type = "Sync" /\ c.of \in use.callers
        BY <2>1 DEF Command
    <2>3. threadSafeQueue \in Seq(S)
        BY <1>1
    <2> HIDE DEF S
    <2>4. \A c \in q : c \in S
        BY <2>3 DEF Range
    <2> QED
        BY <2>2, <2>4, NoCmdAssumption
<1> HIDE DEF q
<1>4. IsEngine(r)
    BY <1>1, <1>3 DEF IsEngine
<1>5. /\ r.iPendingCmds = e.iPendingCmds \cup q /\ r.iCommandId = e.iCommandId
      /\ r.iCurrentCmd = e.iCurrentCmd /\ r.calls = e.calls /\ SamePlace(e, r)
    BY <1>1 DEF IsEngine, SamePlace, SameElse
<1> HIDE DEF r
<1>6. Held(r) = Held(e) \cup q
    BY <1>3, <1>5 DEF Held
<1>7. \A c \in q : c.type \notin API \cup ErrorHandling
    BY <1>3 DEF API, ErrorHandling
<1>8. CallsHeld(r)
    BY <1>1, <1>5, <1>6 DEF Filed, CallsHeld
<1>9. HeldIssued(r)
    BY <1>1, <1>3, <1>5, <1>6, <1>7 DEF Filed, HeldIssued
<1>10. CurrentIsOldest(r)
    BY <1>1, <1>3, <1>5 DEF Filed, CurrentIsOldest
<1>11. /\ Filed(r) /\ (Failing(r) <=> Failing(e))
       /\ \A types : Executes(r, types) <=> Executes(e, types)
    BY <1>5, <1>7, <1>8, <1>9, <1>10 DEF Filed, Failing, Executes
<1>12. CommandsFit(r)
    <2>1. HeldFit(r)
        <3>1. \A c \in q : c.type # "EHGeneral"
            BY <1>3
        <3> QED
            BY <1>1, <1>3, <1>6, <1>7, <3>1 DEF CommandsFit, HeldFit
    <2>2. r.iDataSource = e.iDataSource
        BY <1>5 DEF SamePlace, SameElse
    <2>3. \A c \in q : c.type # "AddDataSource"
        BY <1>3
    <2>4. SourceWanted(r) /\ (Asked(r, "AddDataSource") => r.iCurrentCmd = NoCmd)
        BY <1>1, <1>5, <2>2, <2>3 DEF CommandsFit, SourceWanted, Asked
    <2> QED
        BY <2>1, <2>4 DEF CommandsFit
<1>13. Fits(r)
    BY <1>1, <1>5, <1>12 DEF Fits, SamePlace, SameElse
<1>14. Phased(r)
    <2>1. r.iCurrentCmd = e.iCurrentCmd
        BY <1>5
    <2>2. Quiet(e) => Quiet(r)
        BY <1>5, <1>11, <2>1 DEF Quiet, SamePlace, SameElse
    <2>3. Asking(e) => Asking(r)
        BY <1>5, <1>11, <2>1 DEF Asking, Asks, SamePlace, SameElse
    <2>4. Cancelling(e) => Cancelling(r)
        BY <1>5, <1>11, <2>1 DEF Cancelling, SamePlace, SameElse
    <2>5. Resetting(e) => Resetting(r)
        BY <1>5, <1>11, <2>1 DEF Resetting, SamePlace, SameElse
    <2> QED
        BY <1>1, <2>2, <2>3, <2>4, <2>5 DEF Phased
<1>15. Final(e, r)
    BY <1>5 DEF Final
<1> QED
    BY <1>2, <1>4, <1>11, <1>13, <1>14, <1>15 DEF Steps, Fine, Good, e
-----------------------------------------------------------------------------
(* Every step keeps the invariant and tells the application what is so.    *)

LEMMA SameSteps ==
    ASSUME IInv, engine' = engine
    PROVE  Steps
BY DEF IInv, TypeOK, Steps, Fine, Final

LEMMA Stepwise ==
    ASSUME IInv, [Next]_vars
    PROVE  IInv' /\ Steps
<1>1. /\ TypeOK /\ Separate /\ CallersFit /\ use \in Uses /\ errors \in 0 .. use.errors
      /\ threadSafeQueue \in Seq([id : Nat, type : {"Sync"}, of : use.callers])
      /\ iCounter \in Nat /\ iOOTSyncCommandSem \in Nat
      /\ pc \in [Callers -> {"none", "idle", "waiting", "returned"}]
      /\ written \subseteq use.callers
    BY DEF IInv, TypeOK
<1> DEFINE Others ==
            /\ use' = use /\ errors' \in 0 .. use.errors
            /\ threadSafeQueue' \in Seq([id : Nat, type : {"Sync"}, of : use.callers])
            /\ iCounter' \in Nat /\ iOOTSyncCommandSem' \in Nat
            /\ pc' \in [Callers -> {"none", "idle", "waiting", "returned"}]
            /\ \A t \in Callers : pc'[t] = "idle" => pc[t] = "idle"
            /\ written' \subseteq use.callers
<1>2. ASSUME Steps, Others
      PROVE  IInv' /\ Steps
    <2>1. IsEngine(engine') /\ Good(engine') /\ use' = use
        BY <1>2 DEF Steps, Fine
    <2>2. Separate'
        BY <1>1, <2>1 DEF Separate
    <2>3. TypeOK'
        BY <1>1, <1>2, <2>1 DEF TypeOK
    <2>4. CallersFit'
        BY <1>1, <1>2, <2>1 DEF CallersFit
    <2>5. Good(engine)'
        <3>1. Fits(engine)' <=> Fits(engine')
            BY <2>1 DEF Fits, CommandsFit, HeldFit
        <3>2. Quiet(engine)' <=> Quiet(engine')
            BY <2>1 DEF Quiet
        <3>3. Asking(engine)' <=> Asking(engine')
            BY <2>1 DEF Asking, Asks
        <3>4. Phased(engine)' <=> Phased(engine')
            BY <3>2, <3>3 DEF Phased
        <3> QED
            BY <2>1, <3>1, <3>4 DEF Good
    <2> QED
        BY <1>2, <2>2, <2>3, <2>4, <2>5 DEF IInv
<1>3. CASE Run
    <2>1. /\ Steps /\ UNCHANGED <<use, errors, threadSafeQueue, iCounter, pc>>
          /\ written' \subseteq use.callers /\ iOOTSyncCommandSem' \in Nat
        BY <1>3, RunSteps
    <2> QED
        BY <1>1, <1>2, <2>1
<1>4. CASE NodeCommandCompleted
    <2>1. Steps /\ UNCHANGED <<use, errors, callers>>
        BY <1>4, NodeSteps DEF NodeCommandCompleted
    <2> QED
        BY <1>1, <1>2, <2>1 DEF callers
<1>5. CASE HandleSourceNodeErrorEvent
    <2>1. /\ Steps /\ UNCHANGED <<use, callers>> /\ errors' = errors + 1 /\ errors < use.errors
        BY <1>5, ErrorEventSteps DEF HandleSourceNodeErrorEvent
    <2>2. use.errors \in Nat
        BY <1>1, PlayerAssumption
    <2> QED
        BY <1>1, <1>2, <2>1, <2>2 DEF callers
<1>6. CASE Application
    <2>1. PICK type \in use.commands, of \in Nat : Issue(type, of)
        <3>1. CASE \E type \in use.commands \ {"Cancel"} : Issue(type, 0)
            BY <3>1
        <3>2. CASE \E id \in DOMAIN engine.calls : "Cancel" \in use.commands /\ Issue("Cancel", id)
            <4>1. DOMAIN engine.calls \subseteq Nat
                BY <1>1 DEF TypeOK, IsEngine
            <4> QED
                BY <3>2, <4>1
        <3> QED
            BY <1>6, <3>1, <3>2 DEF Application
    <2>2. Steps
        BY <2>1, IssueSteps
    <2>3. UNCHANGED <<use, errors, callers>>
        BY <2>1 DEF Issue
    <2> QED
        BY <1>1, <1>2, <2>2, <2>3 DEF callers
<1>7. CASE ThreadSafeQueueDataAvailable
    <2>1. Steps
        BY <1>7, QueueSteps
    <2>2. /\ UNCHANGED <<use, errors, iCounter, iOOTSyncCommandSem, pc, written>>
          /\ threadSafeQueue' = <<>>
        BY <1>7 DEF ThreadSafeQueueDataAvailable
    <2>3. <<>> \in Seq([id : Nat, type : {"Sync"}, of : use.callers])
        OBVIOUS
    <2> QED
        BY <1>1, <1>2, <2>1, <2>2, <2>3
<1>8. ASSUME NEW t \in Callers, DoOOTSyncCommand(t)
      PROVE  IInv' /\ Steps
    <2>1. Steps
        BY <1>8, SameSteps DEF DoOOTSyncCommand
    <2>2. pc[t] = "idle" /\ t \in use.callers
        BY <1>1, <1>8 DEF DoOOTSyncCommand, CallersFit
    <2>3. UNCHANGED <<use, engine, errors, iOOTSyncCommandSem, written>>
          /\ iCounter' = iCounter + 1 /\ pc' = [pc EXCEPT ![t] = "waiting"]
          /\ threadSafeQueue' =
                Append(threadSafeQueue, [id |-> iCounter', type |-> "Sync", of |-> t])
        BY <1>8 DEF DoOOTSyncCommand
    <2>4. threadSafeQueue' \in Seq([id : Nat, type : {"Sync"}, of : use.callers])
        <3> DEFINE S == [id : Nat, type : {"Sync"}, of : use.callers]
                   c == [id |-> iCounter', type |-> "Sync", of |-> t]
        <3>1. c \in S
            BY <1>1, <2>2, <2>3
        <3>2. threadSafeQueue \in Seq(S)
            BY <1>1
        <3> HIDE DEF S, c
        <3>3. Append(threadSafeQueue, c) \in Seq(S)
            BY <3>1, <3>2
        <3> QED
            BY <2>3, <3>3 DEF S, c
    <2> QED
        BY <1>1, <1>2, <2>1, <2>3, <2>4
<1>9. ASSUME NEW t \in Callers, SyncReturns(t)
      PROVE  IInv' /\ Steps
    <2>1. Steps
        BY <1>9, SameSteps DEF SyncReturns
    <2> QED
        BY <1>1, <1>2, <1>9, <2>1 DEF SyncReturns
<1>10. CASE UNCHANGED vars
    <2>1. Steps
        BY <1>10, SameSteps DEF vars
    <2> QED
        BY <1>1, <1>2, <1>10, <2>1 DEF vars
<1> QED
    BY <1>3, <1>4, <1>5, <1>6, <1>7, <1>8, <1>9, <1>10 DEF Next

LEMMA InitIInv ==
    ASSUME Init, Separate
    PROVE  IInv
<1> DEFINE e == engine
<1>1. /\ use \in Uses /\ errors = 0 /\ threadSafeQueue = <<>> /\ iCounter = 1
      /\ iOOTSyncCommandSem = 0 /\ written = {}
      /\ pc = [t \in Callers |-> IF t \in use.callers THEN "idle" ELSE "none"]
    BY DEF Init
<1>2. use.errors \in Nat
    BY <1>1, PlayerAssumption
<1>3. IsEngine(e)
    <2>1. <<>> \in Seq([type : Questions, id : Nat])
        OBVIOUS
    <2>2. DOMAIN <<>> = {} /\ <<>> \in [{} -> [type : API, status : Statuses]]
        OBVIOUS
    <2> QED
        BY <2>1, <2>2 DEF Init, IsEngine
<1>4. TypeOK
    BY <1>1, <1>2, <1>3 DEF TypeOK
<1>5. CallersFit
    BY <1>1 DEF CallersFit
<1>6. /\ e.iPendingCmds = {} /\ e.iCurrentCmd = NoCmd /\ DOMAIN e.calls = {} /\ e.asked = <<>>
      /\ e.iCmdToCancel = NoCmd /\ e.iState = "Idle" /\ e.iRollOverState = "Idle"
      /\ e.iSourceNode = "none" /\ e.iDataSource = FALSE
    BY DEF Init
<1> HIDE DEF e
<1>7. Held(e) = {}
    BY <1>6 DEF Held
<1>8. Filed(e)
    BY <1>6, <1>7 DEF Filed, CallsHeld, HeldIssued, CurrentIsOldest
<1>9. Fits(e)
    BY <1>6, <1>7 DEF Fits, CommandsFit, HeldFit, SourceWanted, Asked
<1>10. Quiet(e)
    BY <1>6 DEF Quiet
<1> QED
    BY <1>4, <1>5, <1>8, <1>9, <1>10 DEF IInv, Good, Phased, e
(* What IInv says of the answers, of the handlers' assertions that is.     *)
LEMMA IInvAnswers ==
    ASSUME IInv
    PROVE  AnswersFindTheirCommand
<1> DEFINE e == engine
<1>1. IsEngine(e) /\ Fits(e) /\ Phased(e)
    BY DEF IInv, TypeOK, Good
<1>2. Len(e.asked) \in Nat /\ DOMAIN e.asked = 1 .. Len(e.asked)
    BY <1>1 DEF IsEngine
<1> HIDE DEF e
<1>3. ASSUME NEW i \in 1 .. Len(e.asked)
      PROVE  LET r == e.asked[i]
                 current == e.iCurrentCmd # NoCmd /\ e.iCurrentCmd.id = r.id
             IN CASE r.type = "Reset" ->
                       /\ e.iState = "Resetting" /\ e.iSourceNode = "ready"
                       /\ e.iCmdToCancel = NoCmd
                  [] r.type = "CancelAll" -> e.iCmdToCancel # NoCmd
                  [] r.type \in {"Init", "GetDurationValue"} ->
                       e.iCmdToCancel # NoCmd \/ (current /\ e.iState = "Initializing")
                  [] OTHER -> e.iCmdToCancel # NoCmd \/ (current /\ e.iState = "Idle")
    <2> DEFINE r == e.asked[i]
    <2>1. CASE Quiet(e)
        BY <1>3, <2>1 DEF Quiet
    <2>2. CASE Asking(e)
        <3>1. /\ r.type \in Questions \ {"Reset", "CancelAll"} /\ r.id = e.iCurrentCmd.id
              /\ e.iState = (IF r.type \in Initial THEN "Initializing" ELSE "Idle")
              /\ e.iCurrentCmd # NoCmd
            BY <1>3, <2>2 DEF Asking, Asks, Executes
        <3> HIDE DEF r
        <3>2. CASE r.type \in Initial
            BY <3>1, <3>2 DEF Initial, r
        <3>3. CASE r.type \notin Initial
            BY <3>1, <3>3 DEF Initial, r
        <3> QED
            BY <3>2, <3>3
    <2>3. CASE Cancelling(e)
        <3>1. r.type # "Reset" /\ e.iCmdToCancel # NoCmd
            BY <1>3, <2>3 DEF Cancelling
        <3> HIDE DEF r
        <3> QED
            BY <3>1 DEF r
    <2>4. CASE Resetting(e)
        <3>1. /\ r.type = "Reset" /\ e.iState = "Resetting" /\ e.iSourceNode = "ready"
              /\ e.iCmdToCancel = NoCmd
            BY <1>2, <1>3, <2>4 DEF Resetting
        <3> HIDE DEF r
        <3> QED
            BY <3>1 DEF r
    <2> QED
        BY <1>1, <2>1, <2>2, <2>3, <2>4 DEF Phased
<1>4. ASSUME e.iState = "Error"
      PROVE  Contexts(e) = {}
    <2>1. Quiet(e)
        BY <1>1, <1>4 DEF Phased, Asking, Asks, Cancelling, Resetting
    <2> QED
        BY <2>1 DEF Quiet, Contexts
<1> QED
    BY <1>2, <1>3, <1>4 DEF AnswersFindTheirCommand, e

(* The invariant, in every run of the uses the theorems are about.         *)
THEOREM Invariance == Spec /\ Separate => []IInv
<1>1. Init /\ Separate => IInv
    BY InitIInv
<1>2. IInv /\ [Next]_vars => IInv'
    BY Stepwise
<1> QED
    BY <1>1, <1>2, PTL DEF Spec

(* Every variable and every field of the engine has its type.              *)
THEOREM TypeCorrect == Spec /\ Separate => []TypeOK
<1>1. IInv => TypeOK
    BY DEF IInv
<1> QED
    BY <1>1, Invariance, PTL

(* Every answer of the node finds the engine as its handler asserts it to  *)
(* be, whatever is cancelled, reset, or in error meanwhile.                *)
THEOREM AnswersFound == Spec /\ Separate => []AnswersFindTheirCommand
<1>1. IInv => AnswersFindTheirCommand
    BY IInvAnswers
<1> QED
    BY <1>1, Invariance, PTL

(* When Reset or CancelAllCommands has succeeded, the application has been *)
(* told of what it issued before, and the engine is idle without a source. *)
THEOREM ResetsAreFinal == Spec /\ Separate => ResetIsFinal
<1> DEFINE Ends(id) ==
        /\ engine.calls[id].type \in {"Reset", "CancelAll"}
        /\ engine.calls[id].status = "asked" /\ engine'.calls[id].status = "success"
        => /\ engine'.iState = "Idle" /\ ~engine'.iDataSource
           /\ engine'.iSourceNode = "none" /\ engine'.asked = <<>>
           /\ \A older \in DOMAIN engine'.calls :
                older < id => engine'.calls[older].status # "asked"
<1>1. IInv /\ [Next]_vars => [\A id \in DOMAIN engine.calls : Ends(id)]_vars
    BY Stepwise DEF Steps, Final, Clean, NoneOlder
<1> QED
    BY <1>1, Invariance, PTL DEF Spec, ResetIsFinal
=============================================================================
