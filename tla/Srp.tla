--------------------------------- MODULE Srp ---------------------------------
(***************************************************************************)
(* The simple retransmission protocol under the H.245 control channel of   *)
(* a 3G-324M call: SRP sends one command at a time, NSRP numbers the       *)
(* responses, WNSRP keeps a window of commands in flight.  Both terminals  *)
(* start in WNSRP_TX_SUPPORT, where every command is sent as SRP and as    *)
(* WNSRP, and find out from what they receive which of them the peer has.  *)
(*                                                                         *)
(* A terminal is a record: its handlers are operators from records to      *)
(* records, which collect in out what LowerLayerTx sends.  The links keep  *)
(* the order of the frames, and may corrupt any of them.                   *)
(***************************************************************************)
EXTENDS Integers, Sequences, FiniteSets, SequencesExt

CONSTANTS Terminals,    \* the two ends of the call
          SeqModulus,   \* 256 in the code
          TxWindow, RxWindow, \* iWNSRPTxWindow, iWNSRPRxWindow
          N400Max,      \* iN400MaxCounter, repetitions of a command
          N402Max,      \* iN402MaxCounter, SRP responses before WNSRP is given up
          LinkCapacity, \* bound on the frames in a link: the next is lost
          NumTxMsgs,    \* iNumTxMsgs, packets that may wait
          Uses          \* how the two terminals are used

(* A use says how many packets every terminal sends, in PDUs of which      *)
(* sizes, whether the responses are numbered and who handles WNSRP.        *)
ASSUME SrpAssumption ==
    /\ IsFiniteSet(Terminals) /\ Cardinality(Terminals) = 2
    /\ SeqModulus \in Nat /\ TxWindow \in Nat \ {0} /\ RxWindow \in Nat \ {0}
    /\ RxWindow < SeqModulus /\ NumTxMsgs \in 1..(SeqModulus - 1)
    /\ N400Max \in Nat /\ N402Max \in Nat /\ LinkCapacity \in Nat
    /\ \A u \in Uses : /\ u.packets \in [Terminals -> Nat]
                       /\ u.chunks \subseteq Nat \ {0}
                       /\ u.nsrp \in [Terminals -> BOOLEAN]
                       /\ u.wnsrp \in [Terminals -> BOOLEAN]

VARIABLES use,   \* chosen once
          srp,   \* the state of every terminal
          link   \* link[t]: the frames on their way to t, oldest first

vars == <<use, srp, link>>

(* A packet is the number of its turn; on the link it has SeqNum.          *)
SeqNum(n) == (n - 1) % SeqModulus
Peer(t) == CHOOSE p \in Terminals : p # t

Command(kind, n) == [kind |-> kind, pkt |-> n]
Response(kind, seq) == [kind |-> kind, seq |-> seq]
Timer(n) == [pkt |-> n, N400Counter |-> 0]
NoTimer == Timer(0)

(* SrpInitL and SrpStart; then ConfigureSrp says UseNSRP, DisableWNSRP.    *)
(* iOldestWNSRPRetransSeqNum lies half of the remaining numbers back.      *)
SrpStart(nsrp, wnsrp) ==
    [iStatus |-> "IDLE",
     iCurWnsrpStatus |-> IF wnsrp THEN "TX_SUPPORT" ELSE "NO_SUPPORT",
     iHandleWNSRP |-> wnsrp,
     iUseNSRP |-> nsrp, iFirstNSRPResp |-> FALSE, iFirstCmd |-> TRUE,
     iN402Counter |-> 0,
     sent |-> 0,                       \* iSendSeqNumber = sent % SeqModulus
     iSrpWaitQueue |-> <<>>,
     iSrpCommandSave |-> NoTimer,      \* its packet is 0 if it is not active
     iActiveWnsrpCommandSave |-> <<>>, \* the others are free
     iRecvSeqNumber |-> 0,
     iOldestWNSRPRetransSeqNum |-> (0 - (SeqModulus - RxWindow) \div 2) % SeqModulus,
     iPendingRxFragList |-> <<>>,      \* the others of RxWindow are free
     delivered |-> <<>>,               \* what UpperLayerTx passed up
     failed |-> FALSE,                 \* TransmissionFailure was called
     out |-> <<>>]

Init == /\ use \in Uses
        /\ srp = [t \in Terminals |-> SrpStart(use.nsrp[t], use.wnsrp[t])]
        /\ link = [t \in Terminals |-> <<>>]

LowerLayerTx(s, frames) == [s EXCEPT !.out = @ \o frames]

(* What a handler sent goes to the peer; what finds the link full is lost: *)
(* LowerLayerTx does not look at the status of Send.                       *)
Finish(t, s, rest) ==
    LET p == Peer(t)
        frames == (IF s.failed THEN <<>> ELSE link[p]) \o s.out
    IN  /\ srp' = [srp EXCEPT ![t] = [s EXCEPT !.out = <<>>]]
        /\ link' = [link EXCEPT ![t] = rest,
                                ![p] = SubSeq(frames, 1, Min({Len(frames), LinkCapacity}))]
        /\ UNCHANGED use
-----------------------------------------------------------------------------
(* Sending.                                                                *)

(* Head of the queue as SRP command, with its response timer.              *)
SendSrpCommand(s) ==
    LET n == Head(s.iSrpWaitQueue)
    IN  [LowerLayerTx(s, <<Command("SRP_COMMAND", n)>>)
            EXCEPT !.iSrpCommandSave = Timer(n)]

(* The next k packets of the queue that are not in flight, as WNSRP.       *)
SendWnsrpCommands(s, k) ==
    LET i == Len(s.iActiveWnsrpCommandSave)
        next == SubSeq(s.iSrpWaitQueue, i + 1, Min({i + k, Len(s.iSrpWaitQueue)}))
    IN  [LowerLayerTx(s, [j \in DOMAIN next |-> Command("WNSRP_COMMAND", next[j])])
            EXCEPT !.iActiveWnsrpCommandSave =
                        @ \o [j \in DOMAIN next |-> Timer(next[j])]]

(* While timers are free and packets wait.                                 *)
FillWindow(s) == SendWnsrpCommands(s, TxWindow - Len(s.iActiveWnsrpCommandSave))

Srp_0_1(s) ==
    LET a == IF s.iCurWnsrpStatus = "FULL_SUPPORT" THEN s ELSE SendSrpCommand(s)
        b == IF s.iCurWnsrpStatus = "NO_SUPPORT" THEN a ELSE FillWindow(a)
    IN  [b EXCEPT !.iStatus = "WAIT_RESPONSE"]

Srp_1_1(s) == IF s.iCurWnsrpStatus = "NO_SUPPORT" THEN s ELSE FillWindow(s)

(* UpperLayerRx: a PDU is cut into k packets, EV_PDU comes after the last. *)
UpperLayerRx(t, k) ==
    LET s == srp[t]
        q == [s EXCEPT !.sent = @ + k,
                       !.iSrpWaitQueue = @ \o [i \in 1..k |-> s.sent + i]]
    IN  /\ ~s.failed
        /\ s.sent + k <= use.packets[t]
        /\ Len(s.iSrpWaitQueue) + k <= NumTxMsgs
        /\ Finish(t, IF s.iStatus = "IDLE" THEN Srp_0_1(q) ELSE Srp_1_1(q), link[t])
-----------------------------------------------------------------------------
(* What a frame says of the peer: WnsrpStatusSet and its callers.          *)

(* Mutant: the SRP command stays in flight when WNSRP takes over.          *)
WnsrpStatusSet_Keep(s, status) ==
    [s EXCEPT !.iCurWnsrpStatus = status,
              !.iActiveWnsrpCommandSave = IF status = "NO_SUPPORT" THEN <<>> ELSE @]

WnsrpStatusSet(s, status) ==
    CASE status = "NO_SUPPORT" ->
            [s EXCEPT !.iCurWnsrpStatus = status, !.iActiveWnsrpCommandSave = <<>>]
      [] status = "FULL_SUPPORT" ->
            [s EXCEPT !.iCurWnsrpStatus = status, !.iSrpCommandSave = NoTimer]

(* A response that is not WNSRP: after N402Max of them WNSRP is given up.  *)
CountN402(s) ==
    IF s.iCurWnsrpStatus # "TX_SUPPORT" THEN s
    ELSE LET c == [s EXCEPT !.iN402Counter = @ + 1]
         IN  IF c.iN402Counter < N402Max THEN c ELSE WnsrpStatusSet(c, "NO_SUPPORT")

(* SrpGetEventNoFromAL1: the event of frame f, and the terminal after it.  *)
SrpGetEventNoFromAL1(s, f) ==
    CASE f.kind = "SRP_COMMAND" ->
            [event |-> "COMMAND",
             srp |-> IF s.iCurWnsrpStatus = "TX_SUPPORT" /\ s.iFirstCmd /\ SeqNum(f.pkt) # 0
                     THEN WnsrpStatusSet(s, "NO_SUPPORT") ELSE s]
      [] f.kind = "SRP_RESPONSE" ->
            [event |-> IF s.iUseNSRP /\ s.iFirstNSRPResp THEN "NOP" ELSE "RESPONSE",
             srp |-> CountN402(s)]
      [] f.kind = "NSRP_RESPONSE" ->
            [event |-> IF s.iUseNSRP THEN "NSRP_RESPONSE" ELSE "RESPONSE",
             srp |-> [CountN402(s) EXCEPT !.iFirstNSRPResp = @ \/ s.iUseNSRP]]
      [] f.kind \in {"WNSRP_COMMAND", "WNSRP_RESPONSE"} ->
            IF ~s.iHandleWNSRP \/ s.iCurWnsrpStatus = "NO_SUPPORT"
            THEN [event |-> "NOP", srp |-> s]
            ELSE [event |-> f.kind,
                  srp |-> IF s.iCurWnsrpStatus = "TX_SUPPORT"
                          THEN WnsrpStatusSet(s, "FULL_SUPPORT") ELSE s]
-----------------------------------------------------------------------------
(* Receiving a command.                                                    *)

IsPending(s, seq) == \E i \in DOMAIN s.iPendingRxFragList : SeqNum(s.iPendingRxFragList[i]) = seq

CheckWNSRPRetrans(s, seq) ==
    IF s.iOldestWNSRPRetransSeqNum < s.iRecvSeqNumber
    THEN seq < s.iRecvSeqNumber /\ seq > s.iOldestWNSRPRetransSeqNum
    ELSE seq < s.iRecvSeqNumber \/ seq > s.iOldestWNSRPRetransSeqNum

(* From the next number to RxWindow after it, that number included.        *)
InRxWindow(s, seq) ==
    LET end == (s.iRecvSeqNumber + RxWindow) % SeqModulus
    IN  IF end > s.iRecvSeqNumber
        THEN seq >= s.iRecvSeqNumber /\ seq <= end
        ELSE seq >= s.iRecvSeqNumber \/ seq <= end

(* CheckRxSeqNum: whether the command is taken, and if not, whether the    *)
(* response is repeated.                                                   *)
Accepts(s, header, seq) ==
    IF header = "WNSRP_RESPONSE"
    THEN ~IsPending(s, seq) /\ InRxWindow(s, seq)
    ELSE seq = s.iRecvSeqNumber

RespondsAgain(s, header, seq) ==
    IF header = "WNSRP_RESPONSE"
    THEN IsPending(s, seq) \/ CheckWNSRPRetrans(s, seq)
    ELSE (seq + 1) % SeqModulus = s.iRecvSeqNumber

(* Before the first greater number.                                        *)
AddPendingRxFrag(list, n) ==
    LET greater == SelectInSeq(list, LAMBDA m : SeqNum(m) > SeqNum(n))
    IN  IF greater = 0 THEN Append(list, n) ELSE InsertAt(list, greater, n)

(* How many packets at the head of the list are the next ones.             *)
InSequence(s, list) ==
    LET next(k) == \A i \in 1..k : SeqNum(list[i]) = (s.iRecvSeqNumber + i - 1) % SeqModulus
    IN  CHOOSE k \in 0..Len(list) : next(k) /\ (k = Len(list) \/ ~next(k + 1))

Deliver(s, k) ==
    LET list == s.iPendingRxFragList
    IN  [s EXCEPT !.delivered = @ \o SubSeq(list, 1, k),
                  !.iPendingRxFragList = SubSeq(list, k + 1, Len(list)),
                  !.iRecvSeqNumber = (@ + k) % SeqModulus,
                  !.iOldestWNSRPRetransSeqNum = (@ + k) % SeqModulus]

(* Mutants: everything received is passed up; one packet is, at most.      *)
DeliverInSequence_All(s) == Deliver(s, Len(s.iPendingRxFragList))
DeliverInSequence_One(s) == Deliver(s, Min({1, InSequence(s, s.iPendingRxFragList)}))

DeliverInSequence(s) == Deliver(s, InSequence(s, s.iPendingRxFragList))

SrpResponse(header, seq) ==
    IF header = "SRP_RESPONSE" THEN <<[kind |-> header]>> ELSE <<Response(header, seq)>>

(* Mutant: the response does not wait for the copy of the packet.          *)
SrpMsgCopy_AnswerFirst(s, answered, n) ==
    IF Len(s.iPendingRxFragList) = RxWindow THEN answered
    ELSE DeliverInSequence([answered EXCEPT !.iPendingRxFragList = AddPendingRxFrag(@, n)])

(* Packet n is kept and answered, if there is room for it.                 *)
SrpMsgCopy(s, answered, n) ==
    IF Len(s.iPendingRxFragList) = RxWindow THEN s
    ELSE DeliverInSequence([answered EXCEPT !.iPendingRxFragList = AddPendingRxFrag(@, n)])

Srp_0_2(s, event, n) ==
    LET header == IF event = "WNSRP_COMMAND" THEN "WNSRP_RESPONSE"
                  ELSE IF s.iUseNSRP THEN "NSRP_RESPONSE" ELSE "SRP_RESPONSE"
        seq == SeqNum(n)
        c == IF ~s.iFirstCmd THEN s
             ELSE [s EXCEPT !.iFirstCmd = FALSE,
                            !.iRecvSeqNumber = IF event = "WNSRP_COMMAND" THEN 0 ELSE seq]
        answered == LowerLayerTx(c, SrpResponse(header, seq))
    IN  IF Accepts(c, header, seq) THEN SrpMsgCopy(c, answered, n)
        ELSE IF RespondsAgain(c, header, seq) THEN answered ELSE c
-----------------------------------------------------------------------------
(* Receiving a response.                                                   *)

SrpCommandClear(s, seq) ==
    [s EXCEPT !.iSrpWaitQueue = RemoveFirstMatch(@, LAMBDA n : SeqNum(n) = seq)]

(* The place of a number among the commands in flight, 0 if it is not one. *)
ActiveIndex(s, seq) ==
    SelectInSeq(s.iActiveWnsrpCommandSave, LAMBDA c : SeqNum(c.pkt) = seq)

RemoveActive(s, i) ==
    [s EXCEPT !.iActiveWnsrpCommandSave = IF i = 0 THEN @ ELSE RemoveAt(@, i)]

(* Commands before the one that was answered are sent again (A.4.3).       *)
ResendBefore(s, i) ==
    LET a == s.iActiveWnsrpCommandSave
    IN  [LowerLayerTx(s, [k \in 1..(i - 1) |-> Command("WNSRP_COMMAND", a[k].pkt)])
            EXCEPT !.iActiveWnsrpCommandSave =
                [k \in DOMAIN a |-> IF k < i THEN [pkt |-> a[k].pkt, N400Counter |-> 1]
                                    ELSE a[k]]]

(* The end of Srp_1_3: send what comes next, and be idle with no timer.    *)
SendNext(s) ==
    LET a == IF s.iCurWnsrpStatus # "FULL_SUPPORT" /\ s.iSrpWaitQueue # <<>>
             THEN SendSrpCommand(s) ELSE s
        b == IF a.iCurWnsrpStatus # "NO_SUPPORT"
                /\ Len(a.iActiveWnsrpCommandSave) < Len(a.iSrpWaitQueue)
             THEN SendWnsrpCommands(a, 1) ELSE a
    IN  IF b.iSrpCommandSave = NoTimer /\ b.iActiveWnsrpCommandSave = <<>>
        THEN [b EXCEPT !.iStatus = "IDLE"] ELSE b

Srp_1_3(s, event, seq) ==
    CASE event = "WNSRP_RESPONSE" ->
            LET i == ActiveIndex(s, seq)
                c == SrpCommandClear(s, seq)
            IN  IF i = 0 THEN c ELSE SendNext(RemoveActive(ResendBefore(c, i), i))
      [] event = "NSRP_RESPONSE" ->
            LET c == RemoveActive(SrpCommandClear(s, seq), ActiveIndex(s, seq))
            IN  IF c.iSrpCommandSave # NoTimer /\ SeqNum(c.iSrpCommandSave.pkt) = seq
                THEN SendNext([c EXCEPT !.iSrpCommandSave = NoTimer])
                ELSE c
      [] event = "RESPONSE" ->
            IF s.iSrpCommandSave = NoTimer THEN s
            ELSE LET oldest == IF s.iActiveWnsrpCommandSave = <<>> THEN 0 ELSE 1
                     c == SrpCommandClear(RemoveActive(s, oldest),
                                          SeqNum(s.iSrpCommandSave.pkt))
                 IN  SendNext([c EXCEPT !.iSrpCommandSave = NoTimer])

(* LowerLayerRx: the state table says which handler has the event.         *)
LowerLayerRx(t) ==
    LET f == Head(link[t])
        e == SrpGetEventNoFromAL1(srp[t], f)
        s == e.srp
        seq == IF "seq" \in DOMAIN f THEN f.seq ELSE 0
    IN  /\ link[t] # <<>>
        /\ ~srp[t].failed
        /\ Finish(t, CASE e.event \in {"COMMAND", "WNSRP_COMMAND"} -> Srp_0_2(s, e.event, f.pkt)
                       [] /\ e.event \in {"RESPONSE", "NSRP_RESPONSE", "WNSRP_RESPONSE"}
                          /\ s.iStatus = "WAIT_RESPONSE" -> Srp_1_3(s, e.event, seq)
                       [] OTHER -> s,
                  Tail(link[t]))

(* The CRC does not match: EV_NOP.                                         *)
CorruptedRx(t) ==
    /\ link[t] # <<>>
    /\ ~srp[t].failed
    /\ link' = [link EXCEPT ![t] = Tail(@)]
    /\ UNCHANGED <<use, srp>>
-----------------------------------------------------------------------------
(* TimeoutOccurred and Srp_1_4.  On the last timeout the observer, the     *)
(* terminal's control, stops the call.                                     *)

Fail(s) == [s EXCEPT !.failed = TRUE]

SrpTimeout(t) ==
    LET s == srp[t]
        again == [LowerLayerTx(s, <<Command("SRP_COMMAND", s.iSrpCommandSave.pkt)>>)
                    EXCEPT !.iSrpCommandSave.N400Counter = @ + 1]
        over == [SrpCommandClear(s, SeqNum(s.iSrpCommandSave.pkt))
                    EXCEPT !.iSrpCommandSave = NoTimer]
    IN  /\ ~s.failed
        /\ s.iStatus = "WAIT_RESPONSE"
        /\ s.iSrpCommandSave # NoTimer
        /\ Finish(t, IF s.iSrpCommandSave.N400Counter < N400Max THEN again ELSE Fail(over),
                  link[t])

WnsrpTimeout(t, i) ==
    LET s == srp[t]
        n == s.iActiveWnsrpCommandSave[i].pkt
        again == [LowerLayerTx(s, <<Command("WNSRP_COMMAND", n)>>)
                    EXCEPT !.iActiveWnsrpCommandSave[i].N400Counter = @ + 1]
        over == RemoveActive(SrpCommandClear(s, SeqNum(n)), i)
    IN  /\ ~s.failed
        /\ s.iStatus = "WAIT_RESPONSE"
        /\ i \in DOMAIN s.iActiveWnsrpCommandSave
        /\ Finish(t, IF s.iActiveWnsrpCommandSave[i].N400Counter < N400Max
                     THEN again ELSE Fail(over),
                  link[t])

Next == \E t \in Terminals :
            \/ \E k \in use.chunks : UpperLayerRx(t, k)
            \/ LowerLayerRx(t)
            \/ CorruptedRx(t)
            \/ SrpTimeout(t)
            \/ \E i \in 1..TxWindow : WnsrpTimeout(t, i)

Spec == Init /\ [][Next]_vars

(* Frames arrive or are lost, and the timers expire: nothing is said of    *)
(* how often the link is good.                                             *)
FairSpec == /\ Spec
            /\ \A t \in Terminals :
                /\ WF_vars(CorruptedRx(t) \/ LowerLayerRx(t))
                /\ WF_vars(SrpTimeout(t))
                /\ \A i \in 1..TxWindow : WF_vars(WnsrpTimeout(t, i))
-----------------------------------------------------------------------------

Timers == [pkt : Nat \ {0}, N400Counter : Nat]
Commands == [kind : {"SRP_COMMAND", "WNSRP_COMMAND"}, pkt : Nat \ {0}]
Responses == [kind : {"NSRP_RESPONSE", "WNSRP_RESPONSE"}, seq : 0..(SeqModulus - 1)]
Frames == Commands \cup Responses \cup [kind : {"SRP_RESPONSE"}]

IsTerminal(s) ==
    /\ DOMAIN s = DOMAIN SrpStart(TRUE, TRUE)
    /\ s.iStatus \in {"IDLE", "WAIT_RESPONSE"}
    /\ s.iCurWnsrpStatus \in {"NO_SUPPORT", "TX_SUPPORT", "FULL_SUPPORT"}
    /\ s.iHandleWNSRP \in BOOLEAN /\ s.iUseNSRP \in BOOLEAN
    /\ s.iFirstNSRPResp \in BOOLEAN /\ s.iFirstCmd \in BOOLEAN
    /\ s.iN402Counter \in Nat /\ s.sent \in Nat
    /\ s.iSrpWaitQueue \in Seq(1..s.sent)
    /\ s.iSrpCommandSave \in Timers \cup {NoTimer}
    /\ s.iActiveWnsrpCommandSave \in Seq(Timers)
    /\ s.iRecvSeqNumber \in 0..(SeqModulus - 1)
    /\ s.iOldestWNSRPRetransSeqNum \in 0..(SeqModulus - 1)
    /\ s.iPendingRxFragList \in Seq(Nat \ {0}) /\ s.delivered \in Seq(Nat \ {0})
    /\ s.failed \in BOOLEAN /\ s.out \in Seq(Frames)

(* Whatever a handler sends goes out before it returns.                    *)
TypeOK == /\ use \in Uses
          /\ DOMAIN srp = Terminals
          /\ \A t \in Terminals : IsTerminal(srp[t]) /\ srp[t].out = <<>>
          /\ link \in [Terminals -> Seq(Frames)]

(* What the H.245 layer of one end gets is what the other end gave, in     *)
(* that order, without holes or repetitions, whatever the link did and     *)
(* whichever of the three protocols each end believes the other has.       *)
InOrder == \A t \in Terminals :
    LET d == srp[Peer(t)].delivered
    IN  /\ d = [i \in 1..Len(d) |-> i]
        /\ Len(d) <= srp[t].sent

Numbered == \A t \in Terminals : use.nsrp[t]

(* A packet that is no longer in the queue has been received.  Without     *)
(* numbers this is not kept: a late response answers the next command.     *)
AnyAckIsReceived == \A t \in Terminals : srp[t].failed
    \/ \A n \in 1..srp[t].sent :
            n \in ToSet(srp[t].iSrpWaitQueue) \cup ToSet(srp[Peer(t)].delivered)
                    \cup ToSet(srp[Peer(t)].iPendingRxFragList)

(* With numbered responses a packet leaves the queue of SrpCommandClear    *)
(* only when the peer has it: a response answers the command it is for,    *)
(* though late responses and repeated commands cross, and the peer says    *)
(* nothing it has not stored (Srp_0_2, CheckRxSeqNum).                     *)
AckedIsReceived == Numbered => AnyAckIsReceived

(* Srp_0_1, Srp_1_1 and Srp_1_3 find the packet to send next at the index  *)
(* of the number of active timers: the commands in flight must be the      *)
(* first of the queue.                                                     *)
InFlightAreFirst == \A t \in Terminals :
    LET s == srp[t]
        q == s.iSrpWaitQueue
        a == s.iActiveWnsrpCommandSave
    IN  ~s.failed =>
        /\ Len(a) <= TxWindow
        /\ [i \in DOMAIN a |-> a[i].pkt] = SubSeq(q, 1, Len(a))
        /\ s.iSrpCommandSave # NoTimer => q # <<>> /\ s.iSrpCommandSave.pkt = Head(q)

(* And while a packet waits, a timer runs; an idle terminal with a packet  *)
(* in its queue would never send it.                                       *)
WindowIsPrefix ==
    /\ InFlightAreFirst
    /\ \A t \in Terminals :
        LET s == srp[t]
        IN  ~s.failed /\ s.iSrpWaitQueue # <<>> =>
                /\ s.iStatus = "WAIT_RESPONSE"
                /\ s.iActiveWnsrpCommandSave # <<>> \/ s.iSrpCommandSave # NoTimer

Failed == \E t \in Terminals : srp[t].failed

(* Every PDU reaches the peer, or the control is told that the             *)
(* transmission failed: no packet is forgotten, and no end waits for ever  *)
(* (Srp_1_4), with numbered responses.                                     *)
PacketsAreSettled ==
    <>[](Numbered => \/ Failed
                     \/ \A t \in Terminals : Len(srp[Peer(t)].delivered) = srp[t].sent)
-----------------------------------------------------------------------------
(* What the code does not keep.                                            *)

(* AddPendingRxFrag (srp.cpp:2515-2516): "Add a rx frag to the pending     *)
(* list in order of rx sequence number mod 256".  It compares the numbers  *)
(* as they are: when they wrap around, 0 comes before 255, the head of the *)
(* list is not the next packet, and nothing is passed up any more.         *)
PendingInOrder == \A t \in Terminals :
    LET list == srp[t].iPendingRxFragList
    IN  \A i, j \in DOMAIN list : i < j => list[i] < list[j]

(* CheckRxSeqNum accepts iWNSRPRxWindow + 1 numbers, iRxFrags has one less *)
(* (srp.cpp:2603,2609): when those after the next number are all there,    *)
(* the next one finds no room, as often as it is sent.                     *)
RoomForNext == \A t \in Terminals : Len(srp[t].iPendingRxFragList) < RxWindow

(* One end may give WNSRP up while the other takes it as supported, when   *)
(* a WNSRP response is lost; the first then ignores all the second sends   *)
(* (srp.cpp:446-453,590), until its retries are over.                      *)
ModesAgree == \A t \in Terminals :
    ~(/\ srp[t].iCurWnsrpStatus = "NO_SUPPORT"
      /\ srp[Peer(t)].iCurWnsrpStatus = "FULL_SUPPORT")
=============================================================================
