------------------------------- MODULE CallSetup -------------------------------
(***************************************************************************)
(* The call setup of two 3G-324M terminals: master/slave determination     *)
(* (MSD), exchange of the capability sets (CE) and the terminal state      *)
(* control (TSC_324m) that starts both, starts them again when they fail   *)
(* and tells its observer, the two-way engine, how the Connect ended.      *)
(*                                                                         *)
(* The links deliver the H.245 messages in order, each once: this is       *)
(* InOrder of Srp.  The timers may run out at any time, so the messages    *)
(* may be as late as one likes.                                            *)
(*                                                                         *)
(* A terminal is a record: its handlers are operators from records to      *)
(* records, which collect in out what MessageSend sends.                   *)
(***************************************************************************)
EXTENDS Integers, Sequences, FiniteSets

CONSTANTS Terminals,     \* the two ends of the call
          TWO_24,        \* modulus of the determination numbers
          MSD_MAX_RETRIES,
          N100,          \* iN100, starts of MSD and of CE
          SeqModulus,    \* of OutSeqNum, 256 in the code
          Uses           \* how the two terminals are used

TWO_23 == TWO_24 \div 2

(* A use gives the types of the terminals and the numbers they drew, says  *)
(* whether AL1 is the only video layer both have, and bounds how often a   *)
(* timer runs out though a message or a multiplexer is only late.          *)
ASSUME CallSetupAssumption ==
    /\ IsFiniteSet(Terminals) /\ Cardinality(Terminals) = 2
    /\ TWO_24 \in Nat \ {0} /\ TWO_24 % 2 = 0
    /\ MSD_MAX_RETRIES \in Nat \ {0} /\ N100 \in Nat \ {0} /\ SeqModulus \in Nat \ {0}
    /\ \A u \in Uses : /\ u.TerminalType \in [Terminals -> Nat]
                       /\ u.number \in [Terminals -> 0..(TWO_24 - 1)]
                       /\ u.al1 \in BOOLEAN /\ u.early \in Nat

VARIABLES use,   \* chosen once
          term,  \* the state of every terminal
          link,  \* link[t]: the messages on their way to t, oldest first
          early  \* timers that ran out too early

vars == <<use, term, link, early>>

Numbers == 0..(TWO_24 - 1)
Peer(t) == CHOOSE p \in Terminals : p # t

(* The messages.  A decision is what the peer is to be.                    *)
MSDMsg(type, number) == [m |-> "MSD", type |-> type, number |-> number]
MSDAck(decision) == [m |-> "MSDAck", decision |-> decision]
MSDReject == [m |-> "MSDReject"]
MSDRelease == [m |-> "MSDRelease"]
TCS(seq) == [m |-> "TCS", seq |-> seq]
TCSAck(seq) == [m |-> "TCSAck", seq |-> seq]
TCSRelease == [m |-> "TCSRelease"]

Send(s, msg) == [s EXCEPT !.out = Append(@, msg)]

(* After Connect and DataReceptionStart.  T106 of MSD runs when State is   *)
(* not IDLE, T101 of CE when OutgoingState is not.                         *)
Connected(type, number) ==
    [iTerminalStatus |-> "PhaseD_CSUP",
     open |-> FALSE,                       \* MuxSetupComplete was called
     levelTimer |-> "again",               \* the last, another follows, or off
     tcsTimer |-> FALSE,                   \* PV_TSC_TCS_RECEIVE_TIMER_ID
     TerminalType |-> type,
     State |-> "IDLE", Status |-> "INDETERMINATE",
     StatusDeterminationNumber |-> number, RetryCnt |-> 0,
     OutgoingState |-> "IDLE", IncomingState |-> "IDLE",
     OutSeqNum |-> 0, InSeqNum |-> SeqModulus - 1,
     iCeRetries |-> N100,
     TSC_MSD |-> "NOT_STARTED", TSC_MSD_RETRYCOUNT |-> N100,
     TSC_MSD_DECISION |-> "NONE",
     TSC_CE_SEND |-> "NOT_STARTED", TSC_CE_RECEIVE |-> "NOT_STARTED",
     ConnectComplete |-> <<>>,             \* what the observer was told
     out |-> <<>>]

Init == /\ use \in Uses
        /\ term = [t \in Terminals |-> Connected(use.TerminalType[t], use.number[t])]
        /\ link = [t \in Terminals |-> <<>>]
        /\ early = 0

(* What a handler sent goes to the peer.                                   *)
Finish(t, s, rest) ==
    /\ term' = [term EXCEPT ![t] = [s EXCEPT !.out = <<>>]]
    /\ link' = [link EXCEPT ![t] = rest, ![Peer(t)] = @ \o s.out]
    /\ UNCHANGED use

IsConnected(t) == term[t].iTerminalStatus # "Phase0_Idle"

(* Nothing that a timer could wait for is to come.                         *)
Quiet == \A t \in Terminals : IsConnected(t) => term[t].open /\ link[t] = <<>>

(* A timer that runs out when it should not uses up one of use.early.      *)
RunsOut == \/ Quiet /\ UNCHANGED early
           \/ ~Quiet /\ early < use.early /\ early' = early + 1
-----------------------------------------------------------------------------
(* The end of a Connect.                                                   *)

SignalCsupComplete(s, status) ==
    [s EXCEPT !.ConnectComplete = Append(@, status),
              !.iTerminalStatus = IF status = "PVMFSuccess" THEN "PhaseE_Comm" ELSE @]

SessionClose_CSUP(s) ==
    SignalCsupComplete([s EXCEPT !.iTerminalStatus = "PhaseF_End"], "PVMFFailure")

TcsMsdComplete(s) == SignalCsupComplete(s, "PVMFSuccess")
-----------------------------------------------------------------------------
(* Master/slave determination.                                             *)

SendMSD(s) == Send(s, MSDMsg(s.TerminalType, s.StatusDeterminationNumber))
SendMSDAck(s) == Send(s, MSDAck(IF s.Status = "MASTER" THEN "SLAVE" ELSE "MASTER"))

DetermineRequest(s) ==
    IF s.State # "IDLE" THEN s
    ELSE SendMSD([s EXCEPT !.RetryCnt = 1, !.State = "OUTGOING_AWAITING_RESPONSE"])

MSDStart(s) == DetermineRequest([s EXCEPT !.TSC_MSD = "STARTED"])

(* Mutant: the last rejection is not reported.                             *)
MSDRejectIndication_Mute(s) ==
    LET c == [s EXCEPT !.TSC_MSD_RETRYCOUNT = @ - 1]
    IN  IF c.TSC_MSD_RETRYCOUNT > 0 THEN MSDStart(c) ELSE c

MSDRejectIndication(s) ==
    LET c == [s EXCEPT !.TSC_MSD_RETRYCOUNT = @ - 1]
    IN  IF c.TSC_MSD_RETRYCOUNT > 0 THEN MSDStart(c) ELSE SessionClose_CSUP(c)

(* Mutant: it waits for the acknowledgement of its own capabilities.       *)
MSDDetermineConfirm_Send(s) ==
    LET c == [s EXCEPT !.TSC_MSD_DECISION = s.Status, !.TSC_MSD = "COMPLETE"]
    IN  IF c.iTerminalStatus = "PhaseD_CSUP" /\ c.TSC_CE_SEND = "COMPLETE"
        THEN TcsMsdComplete(c) ELSE c

MSDDetermineConfirm(s) ==
    LET c == [s EXCEPT !.TSC_MSD_DECISION = s.Status, !.TSC_MSD = "COMPLETE"]
    IN  IF c.iTerminalStatus = "PhaseD_CSUP" /\ c.TSC_CE_RECEIVE = "COMPLETE"
        THEN TcsMsdComplete(c) ELSE c

(* Mutant: the difference is not reduced, so that it may be negative.      *)
StatusFor_Signed(s, msg) ==
    IF s.TerminalType # msg.type
    THEN IF s.TerminalType < msg.type THEN "SLAVE" ELSE "MASTER"
    ELSE LET diff == msg.number - s.StatusDeterminationNumber
         IN  CASE diff = 0 \/ diff = TWO_23 -> "INDETERMINATE"
               [] diff # 0 /\ diff < TWO_23 -> "MASTER"
               [] OTHER -> "SLAVE"

(* DetermineStatus: of the number of the peer and the terminal's own.      *)
StatusFor(s, msg) ==
    IF s.TerminalType # msg.type
    THEN IF s.TerminalType < msg.type THEN "SLAVE" ELSE "MASTER"
    ELSE LET diff == (msg.number - s.StatusDeterminationNumber) % TWO_24
         IN  CASE diff \in {0, TWO_23} -> "INDETERMINATE"
               [] diff \in 1..(TWO_23 - 1) -> "MASTER"
               [] OTHER -> "SLAVE"

(* The same rows in IDLE and OUTGOING_AWAITING_RESPONSE.                   *)
Incoming(s) ==
    LET c == SendMSDAck([s EXCEPT !.State = "INCOMING_AWAITING_RESPONSE"])
    IN  [c EXCEPT !.TSC_MSD_DECISION = c.Status]

(* With another number, drawn by NewStatusDeterminationNumber.             *)
TryAgain(s, number) ==
    IF s.RetryCnt >= MSD_MAX_RETRIES THEN MSDRejectIndication([s EXCEPT !.State = "IDLE"])
    ELSE SendMSD([s EXCEPT !.StatusDeterminationNumber = number, !.RetryCnt = @ + 1])

HandleMSD(s, msg, number) ==
    LET c == [s EXCEPT !.Status = StatusFor(s, msg)]
    IN  CASE s.State = "INCOMING_AWAITING_RESPONSE" ->
                MSDRejectIndication([s EXCEPT !.State = "IDLE"])
          [] s.State = "IDLE" ->
                IF c.Status = "INDETERMINATE" THEN Send(c, MSDReject) ELSE Incoming(c)
          [] s.State = "OUTGOING_AWAITING_RESPONSE" ->
                IF c.Status = "INDETERMINATE" THEN TryAgain(c, number) ELSE Incoming(c)

Told(s, decision) ==
    MSDDetermineConfirm(SendMSDAck([s EXCEPT !.State = "IDLE", !.Status = decision]))

HandleMSDAck(s, msg) ==
    LET idle == [s EXCEPT !.State = "IDLE"]
    IN  CASE s.State = "IDLE" -> s
          [] s.State = "OUTGOING_AWAITING_RESPONSE" -> Told(s, msg.decision)
          [] s.State = "INCOMING_AWAITING_RESPONSE" ->
                IF msg.decision = s.Status THEN MSDDetermineConfirm(idle)
                ELSE MSDRejectIndication(idle)

HandleMSDReject(s, number) ==
    CASE s.State = "IDLE" -> s
      [] s.State = "OUTGOING_AWAITING_RESPONSE" -> TryAgain(s, number)
      [] s.State = "INCOMING_AWAITING_RESPONSE" -> MSDRejectIndication([s EXCEPT !.State = "IDLE"])

HandleMSDRelease(s) ==
    IF s.State = "IDLE" THEN s ELSE MSDRejectIndication([s EXCEPT !.State = "IDLE"])

MSDTimeout(t) ==
    LET s == term[t]
        idle == [s EXCEPT !.State = "IDLE"]
    IN  /\ RunsOut
        /\ s.State # "IDLE"
        /\ Finish(t, MSDRejectIndication(IF s.State = "OUTGOING_AWAITING_RESPONSE"
                                         THEN Send(idle, MSDRelease) ELSE idle),
                  link[t])
-----------------------------------------------------------------------------
(* Capability exchange.                                                    *)

TransferRequest(s) ==
    IF s.OutgoingState # "IDLE" THEN s
    ELSE LET seq == (s.OutSeqNum + 1) % SeqModulus
         IN  Send([s EXCEPT !.OutSeqNum = seq, !.OutgoingState = "AWAITING_RESPONSE"], TCS(seq))

CEStart(s) ==
    IF s.iCeRetries <= 0 THEN s ELSE [TransferRequest(s) EXCEPT !.iCeRetries = @ - 1]

(* The capabilities are acknowledged before anything is made of them.      *)
TransferResponse(s) ==
    IF s.IncomingState = "IDLE" THEN s
    ELSE Send([s EXCEPT !.IncomingState = "IDLE"], TCSAck(s.InSeqNum))

InPhases(s, phases) == s.iTerminalStatus \in phases

(* GetVideoLayer() = 0 is AL1.  The session is closed, and the rest done.  *)
CapabilitiesReceived(s) ==
    LET layer == IF use.al1 THEN SessionClose_CSUP([s EXCEPT !.iCeRetries = N100]) ELSE s
        received == [layer EXCEPT !.TSC_CE_RECEIVE = "COMPLETE"]
    IN  IF s.TSC_CE_RECEIVE # "COMPLETE" /\ s.TSC_MSD = "COMPLETE"
        THEN TcsMsdComplete(received) ELSE received

(* Mutant: the response does not depend on the phase.                      *)
CETransferIndication_Eager(s) ==
    LET answered == TransferResponse([s EXCEPT !.tcsTimer = FALSE])
    IN  IF InPhases(s, {"PhaseD_CSUP"}) THEN CapabilitiesReceived(answered) ELSE answered

CETransferIndication(s) ==
    LET c == [s EXCEPT !.tcsTimer = FALSE]
    IN  CASE InPhases(s, {"PhaseD_CSUP"}) -> CapabilitiesReceived(TransferResponse(c))
          [] InPhases(s, {"PhaseE_Comm"}) -> TransferResponse(c)
          [] OTHER -> c

CERejectIndication(s, direction) ==
    IF ~InPhases(s, {"PhaseD_CSUP", "PhaseE_Comm"}) THEN s
    ELSE IF direction = "INCOMING" THEN SessionClose_CSUP(s)
    ELSE IF s.iCeRetries # 0 THEN CEStart(s)
    ELSE SessionClose_CSUP([s EXCEPT !.iCeRetries = N100])

HandleTCS(s, msg) ==
    LET c == [s EXCEPT !.InSeqNum = msg.seq, !.IncomingState = "AWAITING_RESPONSE"]
    IN  CETransferIndication(IF s.IncomingState = "IDLE" THEN c
                             ELSE CERejectIndication(c, "INCOMING"))

HandleTCSRelease(s) ==
    IF s.IncomingState = "IDLE" THEN s
    ELSE CERejectIndication([s EXCEPT !.IncomingState = "IDLE"], "INCOMING")

HandleTCSAck(s, msg) ==
    IF s.OutgoingState = "IDLE" \/ msg.seq # s.OutSeqNum THEN s
    ELSE [s EXCEPT !.OutgoingState = "IDLE", !.iCeRetries = N100,
                   !.TSC_CE_SEND = IF InPhases(s, {"PhaseD_CSUP", "PhaseE_Comm"})
                                   THEN "COMPLETE" ELSE @]

CETimeout(t) ==
    LET s == term[t]
    IN  /\ RunsOut
        /\ s.OutgoingState # "IDLE"
        /\ Finish(t, CERejectIndication(Send([s EXCEPT !.OutgoingState = "IDLE"], TCSRelease),
                                        "OUTGOING"),
                  link[t])
-----------------------------------------------------------------------------
(* Terminal state control.                                                 *)

OpenSession(s) == MSDStart(CEStart(s))

(* The multiplexer has found the peer.                                     *)
MuxSetupComplete(t) ==
    LET s == term[t]
    IN  /\ IsConnected(t)
        /\ ~s.open
        /\ UNCHANGED early
        /\ Finish(t, [OpenSession(s) EXCEPT !.open = TRUE, !.levelTimer = "off",
                                            !.tcsTimer = @ \/ s.TSC_CE_RECEIVE # "COMPLETE"],
                  link[t])

(* The first time, another level is tried.                                 *)
LevelSetupTimeout(t) ==
    LET s == term[t]
    IN  /\ RunsOut
        /\ IsConnected(t)
        /\ s.levelTimer # "off"
        /\ Finish(t, IF s.levelTimer = "again"
                     THEN [s EXCEPT !.levelTimer = "last", !.tcsTimer = TRUE]
                     ELSE SignalCsupComplete([s EXCEPT !.levelTimer = "off"], "PVMFErrTimeout"),
                  link[t])

TcsReceiveTimeout(t) ==
    LET s == term[t]
    IN  /\ RunsOut
        /\ IsConnected(t)
        /\ s.tcsTimer
        /\ Finish(t, SignalCsupComplete([s EXCEPT !.tcsTimer = FALSE], "PVMFErrTimeout"), link[t])

Receive(t, number) ==
    LET s == term[t]
        msg == Head(link[t])
    IN  /\ link[t] # <<>>
        /\ IsConnected(t)
        /\ UNCHANGED early
        /\ Finish(t, CASE msg.m = "MSD" -> HandleMSD(s, msg, number)
                       [] msg.m = "MSDAck" -> HandleMSDAck(s, msg)
                       [] msg.m = "MSDReject" -> HandleMSDReject(s, number)
                       [] msg.m = "MSDRelease" -> HandleMSDRelease(s)
                       [] msg.m = "TCS" -> HandleTCS(s, msg)
                       [] msg.m = "TCSAck" -> HandleTCSAck(s, msg)
                       [] msg.m = "TCSRelease" -> HandleTCSRelease(s),
                  Tail(link[t]))

(* Told of a failure, the engine disconnects when its own queue says so;   *)
(* what is on its way is not read any more.                                *)
Disconnect(t) ==
    /\ IsConnected(t)
    /\ UNCHANGED early
    /\ \E i \in DOMAIN term[t].ConnectComplete : term[t].ConnectComplete[i] # "PVMFSuccess"
    /\ Finish(t, [Connected(term[t].TerminalType, 0)
                    EXCEPT !.iTerminalStatus = "Phase0_Idle",
                           !.open = TRUE, !.levelTimer = "off",
                           !.ConnectComplete = term[t].ConnectComplete],
              <<>>)

Next == \E t \in Terminals :
            \/ \E number \in Numbers : Receive(t, number)
            \/ MSDTimeout(t)
            \/ CETimeout(t)
            \/ MuxSetupComplete(t)
            \/ LevelSetupTimeout(t)
            \/ TcsReceiveTimeout(t)
            \/ Disconnect(t)

Spec == Init /\ [][Next]_vars

(* Messages arrive, timers that run expire; the multiplexer finds the peer *)
(* or its timer expires.  The engine need not ever disconnect.             *)
FairSpec == /\ Spec
            /\ \A t \in Terminals :
                /\ WF_vars(\E number \in Numbers : Receive(t, number))
                /\ WF_vars(MSDTimeout(t))
                /\ WF_vars(CETimeout(t))
                /\ WF_vars(MuxSetupComplete(t) \/ LevelSetupTimeout(t))
                /\ WF_vars(TcsReceiveTimeout(t))
-----------------------------------------------------------------------------
Message == [m : {"MSD"}, type : Nat, number : Numbers]
           \cup [m : {"MSDAck"}, decision : {"MASTER", "SLAVE"}]
           \cup [m : {"TCS", "TCSAck"}, seq : 0..(SeqModulus - 1)]
           \cup [m : {"MSDReject", "MSDRelease", "TCSRelease"}]

IsTerminal(s) ==
    /\ DOMAIN s = DOMAIN Connected(0, 0)
    /\ s.iTerminalStatus \in {"Phase0_Idle", "PhaseD_CSUP", "PhaseE_Comm", "PhaseF_End"}
    /\ s.open \in BOOLEAN /\ s.tcsTimer \in BOOLEAN
    /\ s.levelTimer \in {"again", "last", "off"}
    /\ s.TerminalType \in Nat
    /\ s.State \in {"IDLE", "OUTGOING_AWAITING_RESPONSE", "INCOMING_AWAITING_RESPONSE"}
    /\ s.Status \in {"INDETERMINATE", "MASTER", "SLAVE"}
    /\ s.StatusDeterminationNumber \in Numbers /\ s.RetryCnt \in 0..MSD_MAX_RETRIES
    /\ s.OutgoingState \in {"IDLE", "AWAITING_RESPONSE"}
    /\ s.IncomingState \in {"IDLE", "AWAITING_RESPONSE"}
    /\ s.OutSeqNum \in 0..(SeqModulus - 1) /\ s.InSeqNum \in 0..(SeqModulus - 1)
    /\ s.iCeRetries \in 0..N100
    /\ s.TSC_MSD \in {"NOT_STARTED", "STARTED", "COMPLETE"}
    /\ s.TSC_MSD_RETRYCOUNT \in Int
    /\ s.TSC_MSD_DECISION \in {"NONE", "MASTER", "SLAVE"}
    /\ s.TSC_CE_SEND \in {"NOT_STARTED", "COMPLETE"}
    /\ s.TSC_CE_RECEIVE \in {"NOT_STARTED", "COMPLETE"}
    /\ s.ConnectComplete \in Seq({"PVMFSuccess", "PVMFFailure", "PVMFErrTimeout"})
    /\ s.out \in Seq(Message)

(* Whatever a handler sends goes out before it returns.                    *)
TypeOK == /\ use \in Uses
          /\ DOMAIN term = Terminals
          /\ \A t \in Terminals : IsTerminal(term[t]) /\ term[t].out = <<>>
          /\ link \in [Terminals -> Seq(Message)]
          /\ early \in 0..use.early

InCall(t) == term[t].iTerminalStatus = "PhaseE_Comm"

(* The first numbers or the types decide: all draws but two in 2^24 of two *)
(* terminals of the same type.                                             *)
First(t) == Connected(use.TerminalType[t], use.number[t])
FirstMSD(t) == MSDMsg(use.TerminalType[t], use.number[t])

Decided == \A t \in Terminals :
    StatusFor(First(t), FirstMSD(Peer(t))) # "INDETERMINATE"

OneMaster == {term[t].TSC_MSD_DECISION : t \in Terminals} = {"MASTER", "SLAVE"}

(* When both terminals are in the call, one of them is the master and the  *)
(* other the slave, whichever of them started, and however the two         *)
(* determinations crossed, failed and were started again.                  *)
RolesAgree == Decided /\ (\A t \in Terminals : InCall(t)) => OneMaster

(* A terminal whose capabilities were acknowledged may count on the peer   *)
(* having them, unless the peer has left: an acknowledgement of an earlier *)
(* set does not pass for one of the latest, and none is sent for a set     *)
(* that came when the session was closed.                                  *)
CapabilitiesAreReceived == \A t \in Terminals :
    term[t].TSC_CE_SEND = "COMPLETE" => \/ ~IsConnected(Peer(t))
                                        \/ term[Peer(t)].TSC_CE_RECEIVE = "COMPLETE"

(* The engine is told how its Connect ended, whatever was late, rejected   *)
(* or indeterminate, and though MSD and CE give up on their own.           *)
ConnectIsAnswered == \A t \in Terminals : <>(term[t].ConnectComplete # <<>>)

(* Two terminals with a layer in common get into the call, one as master   *)
(* and one as slave, when no timer runs out on a message that is only      *)
(* late, unless they draw numbers that decide nothing MSD_MAX_RETRIES      *)
(* times.                                                                  *)
PromptCallsConnect ==
    <>(use.early = 0 /\ ~use.al1 =>
        \/ (\A t \in Terminals : InCall(t)) /\ OneMaster
        \/ \E t \in Terminals : term[t].RetryCnt = MSD_MAX_RETRIES)
-----------------------------------------------------------------------------
(* What the code does not keep.                                            *)

(* Two determinations that cross take the answers to each other's earlier  *)
(* numbers for answers to the later ones: an MSDAck does not say which MSD *)
(* it answers.  When the first numbers decide nothing and T106 runs out    *)
(* while the peer is only late, both terminals may end as slave, for good. *)
RolesSettle == Quiet /\ (\A t \in Terminals : InCall(t)) => OneMaster

(* tsc.h:42 says of ConnectComplete: "Indicates completion of a previously *)
(* issued Connect command".  When the capabilities are late the timer      *)
(* completes the Connect with PVMFErrTimeout and leaves the terminal       *)
(* status alone, so that the capabilities complete it a second time.       *)
ConnectCompletesOnce == \A t \in Terminals : Len(term[t].ConnectComplete) <= 1

(* A terminal in the call has told no failure: not so when AL1 is the only *)
(* common layer, for which the session is closed and the setup goes on.    *)
FailureIsFinal == \A t \in Terminals : InCall(t) =>
    \A i \in DOMAIN term[t].ConnectComplete : term[t].ConnectComplete[i] = "PVMFSuccess"
=============================================================================
