---------------------------- MODULE CallSetupProofs ----------------------------
(***************************************************************************)
(* Theorems about the call setup, for every pair of terminals, all types   *)
(* and numbers they may have, every number of retries and of early timers. *)
(*                                                                         *)
(* Handlers are operators from records to records, so the proofs follow    *)
(* them: what a handler keeps is proved from what the handlers it calls    *)
(* keep, and an action keeps what its handler does.                        *)
(***************************************************************************)
EXTENDS CallSetup, FiniteSetTheorems, SequenceTheorems, TLAPS

LEMMA ConstantsTyped ==
    /\ TWO_24 \in Nat \ {0} /\ TWO_23 \in Int
    /\ MSD_MAX_RETRIES \in Nat \ {0} /\ N100 \in Nat \ {0} /\ SeqModulus \in Nat \ {0}
BY CallSetupAssumption DEF TWO_23

(* The two terminals are each other's peer.                                *)
LEMMA Peers ==
    ASSUME NEW t \in Terminals
    PROVE  /\ Peer(t) \in Terminals \ {t}
           /\ Terminals = {t, Peer(t)}
           /\ Peer(Peer(t)) = t
<1>1. Terminals # {t}
    BY FS_Singleton, CallSetupAssumption
<1>2. Peer(t) \in Terminals /\ Peer(t) # t
    BY <1>1 DEF Peer
<1>3. Terminals = {t, Peer(t)}
    <2>1. Cardinality(Terminals \ {t}) = 1
        BY FS_RemoveElement, CallSetupAssumption
    <2>2. PICK x : Terminals \ {t} = {x}
        BY <2>1, FS_Singleton, FS_RemoveElement, CallSetupAssumption
    <2> QED
        BY <1>2, <2>2
<1> QED
    BY <1>2, <1>3 DEF Peer
-----------------------------------------------------------------------------
(* What a handler makes of a terminal s is again a terminal; it still has  *)
(* the capabilities of the peer if s had them, has them if it is in the    *)
(* call, or says that it has; and it is still connected.                   *)
Received(s) == s.TSC_CE_RECEIVE = "COMPLETE"

Says(s, m) == \E i \in DOMAIN s.out : s.out[i].m = m

Sound(s) == /\ IsTerminal(s)
            /\ s.iTerminalStatus = "PhaseE_Comm" \/ Says(s, "TCSAck") => Received(s)

Follows(s, r) == /\ Sound(r)
                 /\ Received(s) => Received(r)
                 /\ s.iTerminalStatus # "Phase0_Idle" => r.iTerminalStatus # "Phase0_Idle"
                 /\ r.TSC_CE_SEND = s.TSC_CE_SEND

LEMMA FollowsTransitive ==
    ASSUME NEW s, NEW r, NEW q, Follows(s, r), Follows(r, q)
    PROVE  Follows(s, q)
BY DEF Follows

LEMMA SendFollows ==
    ASSUME NEW s, Sound(s), NEW msg \in Message, msg.m = "TCSAck" => Received(s)
    PROVE  Follows(s, Send(s, msg))
BY SMT DEF Follows, Sound, IsTerminal, Connected, Received, Says, Send

LEMMA SignalCsupCompleteFollows ==
    ASSUME NEW s, Sound(s),
           NEW status \in {"PVMFSuccess", "PVMFFailure", "PVMFErrTimeout"},
           status = "PVMFSuccess" => Received(s)
    PROVE  Follows(s, SignalCsupComplete(s, status))
BY SMT DEF Follows, Sound, IsTerminal, Connected, Received, Says, SignalCsupComplete

LEMMA SessionCloseFollows ==
    ASSUME NEW s, Sound(s)
    PROVE  Follows(s, SessionClose_CSUP(s))
BY SMT DEF Follows, Sound, IsTerminal, Connected, Received, Says, SignalCsupComplete,
    SessionClose_CSUP
-----------------------------------------------------------------------------
(* Master/slave determination.                                             *)

LEMMA SendMSDFollows ==
    ASSUME NEW s, Sound(s)
    PROVE  Follows(s, SendMSD(s))
BY SendFollows DEF SendMSD, MSDMsg, Message, Sound, IsTerminal

LEMMA SendMSDAckFollows ==
    ASSUME NEW s, Sound(s)
    PROVE  Follows(s, SendMSDAck(s))
BY SendFollows DEF SendMSDAck, MSDAck, Message, Sound, IsTerminal

LEMMA MSDStartFollows ==
    ASSUME NEW s, Sound(s)
    PROVE  Follows(s, MSDStart(s))
<1> DEFINE a == [s EXCEPT !.TSC_MSD = "STARTED"]
           b == [a EXCEPT !.RetryCnt = 1, !.State = "OUTGOING_AWAITING_RESPONSE"]
<1>1. Follows(s, a)
    BY SMT DEF Follows, Sound, IsTerminal, Connected, Received, Says
<1>2. Follows(a, b)
    BY SMT, <1>1, ConstantsTyped DEF Follows, Sound, IsTerminal, Connected, Received, Says
<1>3. Follows(b, SendMSD(b))
    BY <1>2, SendMSDFollows DEF Follows
<1> HIDE DEF a, b
<1> QED
    BY <1>1, <1>2, <1>3, FollowsTransitive DEF MSDStart, DetermineRequest, a, b

LEMMA MSDRejectIndicationFollows ==
    ASSUME NEW s, Sound(s)
    PROVE  Follows(s, MSDRejectIndication(s))
<1> DEFINE a == [s EXCEPT !.TSC_MSD_RETRYCOUNT = @ - 1]
<1>1. Follows(s, a)
    BY SMT DEF Follows, Sound, IsTerminal, Connected, Received, Says
<1>2. Follows(a, MSDStart(a)) /\ Follows(a, SessionClose_CSUP(a))
    BY <1>1, MSDStartFollows, SessionCloseFollows DEF Follows
<1> HIDE DEF a
<1> QED
    BY <1>1, <1>2, FollowsTransitive DEF MSDRejectIndication, a

LEMMA MSDDetermineConfirmFollows ==
    ASSUME NEW s, Sound(s), s.Status # "INDETERMINATE"
    PROVE  Follows(s, MSDDetermineConfirm(s))
<1> DEFINE a == [s EXCEPT !.TSC_MSD_DECISION = s.Status, !.TSC_MSD = "COMPLETE"]
<1>1. Follows(s, a) /\ a.TSC_CE_RECEIVE = s.TSC_CE_RECEIVE
    BY SMT DEF Follows, Sound, IsTerminal, Connected, Received, Says
<1>2. Received(a) => Follows(a, TcsMsdComplete(a))
    BY <1>1, SignalCsupCompleteFollows DEF Follows, TcsMsdComplete
<1> HIDE DEF a
<1> QED
    BY <1>1, <1>2, FollowsTransitive DEF MSDDetermineConfirm, a, Received

(* Whichever of three changes a handler begins with.                       *)
LEMMA StateFollows ==
    ASSUME NEW s, Sound(s),
           NEW a \in {"IDLE", "INCOMING_AWAITING_RESPONSE"}
    PROVE  Follows(s, [s EXCEPT !.State = a])
BY SMT DEF Follows, Sound, IsTerminal, Connected, Received, Says

LEMMA StatusForTyped ==
    ASSUME NEW s, NEW msg
    PROVE  StatusFor(s, msg) \in {"INDETERMINATE", "MASTER", "SLAVE"}
BY DEF StatusFor

LEMMA IncomingFollows ==
    ASSUME NEW s, Sound(s), s.Status # "INDETERMINATE"
    PROVE  Follows(s, Incoming(s))
<1> DEFINE a == [s EXCEPT !.State = "INCOMING_AWAITING_RESPONSE"]
           c == SendMSDAck(a)
           r == [c EXCEPT !.TSC_MSD_DECISION = c.Status]
<1>1. Follows(s, a) /\ a.Status = s.Status
    BY StateFollows DEF Sound, IsTerminal, Connected
<1>2. Follows(a, c)
    BY <1>1, SendMSDAckFollows DEF Follows
<1>3. c.Status = a.Status
    BY <1>1 DEF Follows, Sound, IsTerminal, Connected, SendMSDAck, Send
<1>4. Sound(c) /\ c.Status \in {"MASTER", "SLAVE"}
    BY <1>1, <1>2, <1>3 DEF Follows, Sound, IsTerminal
<1> HIDE DEF c
<1>5. Follows(c, r)
    BY SMT, <1>4 DEF Follows, Sound, IsTerminal, Connected, Received, Says
<1> HIDE DEF a, r
<1> QED
    BY <1>1, <1>2, <1>5, FollowsTransitive DEF Incoming, a, c, r

LEMMA TryAgainFollows ==
    ASSUME NEW s, Sound(s), NEW number \in Numbers
    PROVE  Follows(s, TryAgain(s, number))
<1> DEFINE a == [s EXCEPT !.State = "IDLE"]
           b == [s EXCEPT !.StatusDeterminationNumber = number, !.RetryCnt = @ + 1]
<1>1. Follows(s, a) /\ Follows(a, MSDRejectIndication(a))
    BY StateFollows, MSDRejectIndicationFollows DEF Follows
<1>2. s.RetryCnt \in 0..MSD_MAX_RETRIES /\ s.RetryCnt \in Int
    BY ConstantsTyped DEF Sound, IsTerminal
<1>3. ASSUME ~(s.RetryCnt >= MSD_MAX_RETRIES)
      PROVE  Follows(s, b) /\ Follows(b, SendMSD(b))
    <2>1. Follows(s, b)
        BY SMT, <1>2, <1>3, ConstantsTyped
        DEF Follows, Sound, IsTerminal, Connected, Received, Says
    <2> HIDE DEF b
    <2> QED
        BY <2>1, SendMSDFollows DEF Follows
<1> HIDE DEF a, b
<1> QED
    BY <1>1, <1>3, FollowsTransitive DEF TryAgain, a, b

LEMMA HandleMSDFollows ==
    ASSUME NEW s, Sound(s), NEW msg, NEW number \in Numbers
    PROVE  Follows(s, HandleMSD(s, msg, number))
<1> DEFINE a == [s EXCEPT !.State = "IDLE"]
           c == [s EXCEPT !.Status = StatusFor(s, msg)]
<1>1. Follows(s, a) /\ Follows(a, MSDRejectIndication(a))
    BY StateFollows, MSDRejectIndicationFollows DEF Follows
<1>2. Follows(s, c) /\ Sound(c)
    BY SMT, StatusForTyped DEF Follows, Sound, IsTerminal, Connected, Received, Says
<1> HIDE DEF c
<1>3. Follows(c, Send(c, MSDReject)) /\ Follows(c, TryAgain(c, number))
    BY <1>2, SendFollows, TryAgainFollows DEF MSDReject, Message
<1>4. c.Status # "INDETERMINATE" => Follows(c, Incoming(c))
    BY <1>2, IncomingFollows
<1>5. s.State \in {"IDLE", "OUTGOING_AWAITING_RESPONSE", "INCOMING_AWAITING_RESPONSE"}
    BY DEF Sound, IsTerminal
<1> HIDE DEF a
<1> QED
    BY <1>1, <1>2, <1>3, <1>4, <1>5, FollowsTransitive DEF HandleMSD, a, c

LEMMA ToldFollows ==
    ASSUME NEW s, Sound(s), NEW decision \in {"MASTER", "SLAVE"}
    PROVE  Follows(s, Told(s, decision))
<1> DEFINE a == [s EXCEPT !.State = "IDLE", !.Status = decision]
           c == SendMSDAck(a)
<1>1. Follows(s, a) /\ Sound(a) /\ a.Status = decision
    BY SMT DEF Follows, Sound, IsTerminal, Connected, Received, Says
<1> HIDE DEF a
<1>2. Follows(a, c) /\ c.Status = decision
    BY <1>1, SendMSDAckFollows DEF Sound, IsTerminal, Connected, SendMSDAck, Send
<1> HIDE DEF c
<1>3. Follows(c, MSDDetermineConfirm(c))
    BY <1>2, MSDDetermineConfirmFollows DEF Follows
<1> QED
    BY <1>1, <1>2, <1>3, FollowsTransitive DEF Told, a, c

LEMMA HandleMSDAckFollows ==
    ASSUME NEW s, Sound(s), NEW msg, msg.decision \in {"MASTER", "SLAVE"}
    PROVE  Follows(s, HandleMSDAck(s, msg))
<1> DEFINE a == [s EXCEPT !.State = "IDLE"]
<1>1. Follows(s, a) /\ Follows(a, MSDRejectIndication(a)) /\ Follows(s, s)
    BY StateFollows, MSDRejectIndicationFollows DEF Follows
<1>2. Follows(s, Told(s, msg.decision))
    BY ToldFollows
<1>3. ASSUME msg.decision = s.Status
      PROVE  Follows(a, MSDDetermineConfirm(a))
    <2>1. a.Status = s.Status
        BY DEF Sound, IsTerminal, Connected
    <2> HIDE DEF a
    <2> QED
        BY <1>1, <1>3, <2>1, MSDDetermineConfirmFollows DEF Follows
<1>4. s.State \in {"IDLE", "OUTGOING_AWAITING_RESPONSE", "INCOMING_AWAITING_RESPONSE"}
    BY DEF Sound, IsTerminal
<1> HIDE DEF a
<1> QED
    BY <1>1, <1>2, <1>3, <1>4, FollowsTransitive DEF HandleMSDAck, a

LEMMA HandleMSDRejectFollows ==
    ASSUME NEW s, Sound(s), NEW number \in Numbers
    PROVE  Follows(s, HandleMSDReject(s, number))
<1> DEFINE a == [s EXCEPT !.State = "IDLE"]
<1>1. Follows(s, a) /\ Follows(a, MSDRejectIndication(a)) /\ Follows(s, s)
    BY StateFollows, MSDRejectIndicationFollows DEF Follows
<1>2. Follows(s, TryAgain(s, number))
    BY TryAgainFollows
<1>3. s.State \in {"IDLE", "OUTGOING_AWAITING_RESPONSE", "INCOMING_AWAITING_RESPONSE"}
    BY DEF Sound, IsTerminal
<1> HIDE DEF a
<1> QED
    BY <1>1, <1>2, <1>3, FollowsTransitive DEF HandleMSDReject, a

LEMMA HandleMSDReleaseFollows ==
    ASSUME NEW s, Sound(s)
    PROVE  Follows(s, HandleMSDRelease(s))
<1> DEFINE a == [s EXCEPT !.State = "IDLE"]
<1>1. Follows(s, a) /\ Follows(a, MSDRejectIndication(a)) /\ Follows(s, s)
    BY StateFollows, MSDRejectIndicationFollows DEF Follows
<1> HIDE DEF a
<1> QED
    BY <1>1, FollowsTransitive DEF HandleMSDRelease, a
-----------------------------------------------------------------------------
(* Capability exchange.                                                    *)

LEMMA NextSeqNumTyped ==
    ASSUME NEW n \in Int
    PROVE  n % SeqModulus \in 0..(SeqModulus - 1)
BY ConstantsTyped

LEMMA TransferRequestFollows ==
    ASSUME NEW s, Sound(s)
    PROVE  /\ Follows(s, TransferRequest(s))
           /\ TransferRequest(s).iCeRetries = s.iCeRetries
<1> DEFINE seq == (s.OutSeqNum + 1) % SeqModulus
           a == [s EXCEPT !.OutSeqNum = seq, !.OutgoingState = "AWAITING_RESPONSE"]
           b == Send(a, TCS(seq))
<1>1. seq \in 0..(SeqModulus - 1)
    <2>1. s.OutSeqNum + 1 \in Int
        BY ConstantsTyped DEF Sound, IsTerminal
    <2> QED
        BY <2>1, NextSeqNumTyped
<1> HIDE DEF seq
<1>2. Follows(s, a) /\ Sound(a) /\ a.iCeRetries = s.iCeRetries
    BY SMT, <1>1 DEF Follows, Sound, IsTerminal, Connected, Received, Says
<1>3. Follows(s, s)
    BY DEF Follows
<1> HIDE DEF a
<1>4. TCS(seq) \in Message /\ TCS(seq).m # "TCSAck"
    BY <1>1 DEF TCS, Message
<1>5. Follows(a, b)
    BY <1>2, <1>4, SendFollows
<1>6. b.iCeRetries = a.iCeRetries
    BY <1>2 DEF Sound, IsTerminal, Connected, Send
<1> QED
    BY <1>2, <1>3, <1>5, <1>6, FollowsTransitive DEF TransferRequest, a, b, seq

LEMMA CEStartFollows ==
    ASSUME NEW s, Sound(s)
    PROVE  Follows(s, CEStart(s))
<1> DEFINE a == TransferRequest(s)
           b == [a EXCEPT !.iCeRetries = @ - 1]
<1>1. Follows(s, a) /\ Sound(a) /\ a.iCeRetries = s.iCeRetries /\ Follows(s, s)
    BY TransferRequestFollows DEF Follows
<1>2. s.iCeRetries \in 0..N100
    BY DEF Sound, IsTerminal
<1> HIDE DEF a
<1>3. ASSUME ~(s.iCeRetries <= 0)
      PROVE  Follows(a, b)
    <2> DEFINE k == a.iCeRetries - 1
    <2>1. k \in 0..N100
        BY <1>1, <1>2, <1>3, ConstantsTyped
    <2> HIDE DEF k
    <2>2. Follows(a, [a EXCEPT !.iCeRetries = k])
        BY SMT, <1>1, <2>1 DEF Follows, Sound, IsTerminal, Connected, Received, Says
    <2> QED
        BY <2>2 DEF k
<1> QED
    BY <1>1, <1>3, FollowsTransitive DEF CEStart, a

LEMMA TransferResponseTyped ==
    ASSUME NEW s, IsTerminal(s)
    PROVE  LET r == TransferResponse(s)
           IN  /\ IsTerminal(r)
               /\ r.iTerminalStatus = s.iTerminalStatus
               /\ r.TSC_CE_RECEIVE = s.TSC_CE_RECEIVE
               /\ r.TSC_CE_SEND = s.TSC_CE_SEND
<1> DEFINE a == [s EXCEPT !.IncomingState = "IDLE"]
<1>1. IsTerminal(a) /\ a.iTerminalStatus = s.iTerminalStatus
      /\ a.TSC_CE_RECEIVE = s.TSC_CE_RECEIVE /\ a.TSC_CE_SEND = s.TSC_CE_SEND
    BY SMT DEF IsTerminal, Connected
<1> HIDE DEF a
<1>2. TCSAck(s.InSeqNum) \in Message
    BY DEF TCSAck, Message, IsTerminal
<1>3. ASSUME NEW msg \in Message
      PROVE  LET r == Send(a, msg)
             IN  /\ IsTerminal(r)
                 /\ r.iTerminalStatus = a.iTerminalStatus
                 /\ r.TSC_CE_RECEIVE = a.TSC_CE_RECEIVE
                 /\ r.TSC_CE_SEND = a.TSC_CE_SEND
    BY SMT, <1>1 DEF IsTerminal, Connected, Send
<1> QED
    BY <1>1, <1>2, <1>3 DEF TransferResponse, a

(* The capabilities are there, whatever becomes of the session.            *)
LEMMA CapabilitiesReceivedSound ==
    ASSUME NEW s, IsTerminal(s), s.iTerminalStatus # "Phase0_Idle"
    PROVE  LET r == CapabilitiesReceived(s)
           IN  /\ Sound(r) /\ Received(r)
               /\ r.iTerminalStatus # "Phase0_Idle"
               /\ r.TSC_CE_SEND = s.TSC_CE_SEND
<1> DEFINE close == SessionClose_CSUP([s EXCEPT !.iCeRetries = N100])
           layer == IF use.al1 THEN close ELSE s
           received == [layer EXCEPT !.TSC_CE_RECEIVE = "COMPLETE"]
           Result(r) == /\ Sound(r) /\ Received(r)
                        /\ r.iTerminalStatus # "Phase0_Idle"
                        /\ r.TSC_CE_SEND = s.TSC_CE_SEND
<1>1. IsTerminal(close) /\ close.iTerminalStatus # "Phase0_Idle"
      /\ close.TSC_CE_SEND = s.TSC_CE_SEND
    BY SMT, ConstantsTyped DEF IsTerminal, Connected, SessionClose_CSUP, SignalCsupComplete
<1> HIDE DEF close
<1>2. IsTerminal(layer) /\ layer.iTerminalStatus # "Phase0_Idle"
      /\ layer.TSC_CE_SEND = s.TSC_CE_SEND
    BY <1>1
<1> HIDE DEF layer
<1>3. Result(received)
    BY SMT, <1>2 DEF Sound, IsTerminal, Connected, Received
<1> HIDE DEF received
<1>4. Result(TcsMsdComplete(received))
    BY <1>3, SignalCsupCompleteFollows DEF TcsMsdComplete, Follows
<1> QED
    BY <1>3, <1>4 DEF CapabilitiesReceived, received, layer, close

LEMMA CETransferIndicationFollows ==
    ASSUME NEW s, Sound(s)
    PROVE  Follows(s, CETransferIndication(s))
<1> DEFINE c == [s EXCEPT !.tcsTimer = FALSE]
           r == TransferResponse(c)
<1>1. Follows(s, c) /\ Sound(c) /\ IsTerminal(c) /\ c.iTerminalStatus = s.iTerminalStatus
      /\ c.TSC_CE_RECEIVE = s.TSC_CE_RECEIVE
    BY SMT DEF Follows, Sound, IsTerminal, Connected, Received, Says
<1> HIDE DEF c
<1>2. /\ IsTerminal(r) /\ r.iTerminalStatus = c.iTerminalStatus
      /\ r.TSC_CE_RECEIVE = c.TSC_CE_RECEIVE /\ r.TSC_CE_SEND = c.TSC_CE_SEND
    BY <1>1, TransferResponseTyped
<1> HIDE DEF r
<1>3. CASE InPhases(s, {"PhaseD_CSUP"})
    <2>1. r.iTerminalStatus # "Phase0_Idle"
        BY <1>1, <1>2, <1>3 DEF InPhases
    <2> QED
        BY <1>1, <1>2, <1>3, <2>1, CapabilitiesReceivedSound
        DEF CETransferIndication, Follows, InPhases, c, r
<1>4. CASE InPhases(s, {"PhaseE_Comm"})
    <2>1. Received(c)
        BY <1>1, <1>4 DEF Sound, InPhases
    <2>2. Sound(r)
        BY <1>2, <2>1 DEF Sound, Received
    <2> QED
        BY <1>1, <1>2, <1>4, <2>1, <2>2
        DEF CETransferIndication, Follows, Received, InPhases, c, r
<1>5. CASE ~InPhases(s, {"PhaseD_CSUP"}) /\ ~InPhases(s, {"PhaseE_Comm"})
    BY <1>1, <1>5 DEF CETransferIndication, InPhases, c
<1> QED
    BY <1>3, <1>4, <1>5

LEMMA CERejectIndicationFollows ==
    ASSUME NEW s, Sound(s), NEW direction
    PROVE  Follows(s, CERejectIndication(s, direction))
<1> DEFINE a == [s EXCEPT !.iCeRetries = N100]
<1>1. Follows(s, a) /\ Sound(a) /\ Follows(s, s)
    BY SMT, ConstantsTyped DEF Follows, Sound, IsTerminal, Connected, Received, Says
<1> HIDE DEF a
<1>2. Follows(a, SessionClose_CSUP(a)) /\ Follows(s, SessionClose_CSUP(s))
      /\ Follows(s, CEStart(s))
    BY <1>1, SessionCloseFollows, CEStartFollows
<1> QED
    BY <1>1, <1>2, FollowsTransitive DEF CERejectIndication, a

LEMMA HandleTCSFollows ==
    ASSUME NEW s, Sound(s), NEW msg, msg.seq \in 0..(SeqModulus - 1)
    PROVE  Follows(s, HandleTCS(s, msg))
<1> DEFINE c == [s EXCEPT !.InSeqNum = msg.seq, !.IncomingState = "AWAITING_RESPONSE"]
           r == CERejectIndication(c, "INCOMING")
<1>1. Follows(s, c) /\ Sound(c)
    BY SMT DEF Follows, Sound, IsTerminal, Connected, Received, Says
<1> HIDE DEF c
<1>2. Follows(c, r) /\ Sound(r)
    BY <1>1, CERejectIndicationFollows DEF Follows
<1> HIDE DEF r
<1>3. Follows(c, CETransferIndication(c)) /\ Follows(r, CETransferIndication(r))
    BY <1>1, <1>2, CETransferIndicationFollows
<1> QED
    BY <1>1, <1>2, <1>3, FollowsTransitive DEF HandleTCS, c, r

LEMMA HandleTCSReleaseFollows ==
    ASSUME NEW s, Sound(s)
    PROVE  Follows(s, HandleTCSRelease(s))
<1> DEFINE c == [s EXCEPT !.IncomingState = "IDLE"]
<1>1. Follows(s, c) /\ Sound(c) /\ Follows(s, s)
    BY SMT DEF Follows, Sound, IsTerminal, Connected, Received, Says
<1> HIDE DEF c
<1>2. Follows(c, CERejectIndication(c, "INCOMING"))
    BY <1>1, CERejectIndicationFollows
<1> QED
    BY <1>1, <1>2, FollowsTransitive DEF HandleTCSRelease, c
-----------------------------------------------------------------------------
(* The inductive invariant.  A terminal in the call has the capabilities   *)
(* of the peer; one that has left waits for nothing; and an acknowledgement*)
(* that was received, or is on its way, tells the truth.                   *)
Has(t) == ~IsConnected(t) \/ Received(term[t])

Acknowledged(q) == \E i \in DOMAIN q : q[i].m = "TCSAck"

CallsHaveCapabilities == \A t \in Terminals : InCall(t) => Received(term[t])

GoneIsIdle == \A t \in Terminals :
    ~IsConnected(t) => term[t].State = "IDLE" /\ term[t].OutgoingState = "IDLE"

AcksAreTrue == \A t \in Terminals :
    term[t].TSC_CE_SEND = "COMPLETE" \/ Acknowledged(link[t]) => Has(Peer(t))

IInv == TypeOK /\ CallsHaveCapabilities /\ GoneIsIdle /\ AcksAreTrue

LEMMA AcknowledgedOfConcat ==
    ASSUME NEW q \in Seq(Message), NEW u \in Seq(Message), Acknowledged(q \o u)
    PROVE  Acknowledged(q) \/ Acknowledged(u)
<1>1. PICK i \in DOMAIN (q \o u) : (q \o u)[i].m = "TCSAck"
    BY DEF Acknowledged
<1>2. i \in 1..(Len(q) + Len(u))
    BY <1>1
<1>3. CASE i <= Len(q)
    BY <1>1, <1>2, <1>3 DEF Acknowledged
<1>4. CASE i > Len(q)
    <2>1. i - Len(q) \in DOMAIN u /\ (q \o u)[i] = u[i - Len(q)]
        BY <1>2, <1>4
    <2> QED
        BY <1>1, <2>1 DEF Acknowledged
<1> QED
    BY <1>2, <1>3, <1>4

LEMMA ConnectedTyped ==
    ASSUME NEW type \in Nat, NEW number \in Numbers
    PROVE  IsTerminal(Connected(type, number))
BY SMT, ConstantsTyped DEF IsTerminal, Connected

LEMMA InitIInv == Init => IInv
<1> SUFFICES ASSUME Init PROVE IInv
    OBVIOUS
<1>1. use \in Uses /\ use.early \in Nat
      /\ use.TerminalType \in [Terminals -> Nat] /\ use.number \in [Terminals -> Numbers]
    BY CallSetupAssumption DEF Init, Numbers
<1>2. ASSUME NEW t \in Terminals
      PROVE  /\ IsTerminal(term[t]) /\ term[t].out = <<>>
             /\ term[t].iTerminalStatus = "PhaseD_CSUP"
             /\ term[t].TSC_CE_SEND # "COMPLETE" /\ link[t] = <<>>
    <2>1. term[t] = Connected(use.TerminalType[t], use.number[t])
        BY DEF Init
    <2>2. IsTerminal(term[t])
        BY <1>1, <2>1, ConnectedTyped
    <2> QED
        BY <2>1, <2>2 DEF Connected, Init
<1>3. TypeOK
    BY <1>1, <1>2 DEF Init, TypeOK
<1> QED
    BY <1>2, <1>3 DEF IInv, CallsHaveCapabilities, GoneIsIdle, AcksAreTrue, Acknowledged,
        InCall, IsConnected

(* A handler's end: the messages go to the peer.                           *)
LEMMA FinishKeeps ==
    ASSUME IInv, NEW t \in Terminals, IsConnected(t),
           NEW r, Sound(r), Received(term[t]) => Received(r),
           r.iTerminalStatus # "Phase0_Idle",
           r.TSC_CE_SEND = "COMPLETE" => Has(Peer(t)),
           NEW rest \in Seq(Message), Acknowledged(rest) => Has(Peer(t)),
           Finish(t, r, rest), early' \in 0..use.early
    PROVE  IInv'
<1> DEFINE p == Peer(t)
           s == [r EXCEPT !.out = <<>>]
<1>1. p \in Terminals \ {t} /\ Terminals = {t, p} /\ Peer(p) = t
    BY Peers
<1>2. /\ IsTerminal(s) /\ s.out = <<>>
      /\ s.iTerminalStatus = r.iTerminalStatus /\ s.TSC_CE_RECEIVE = r.TSC_CE_RECEIVE
      /\ s.TSC_CE_SEND = r.TSC_CE_SEND
    BY SMT DEF Sound, IsTerminal, Connected
<1> HIDE DEF s, p
<1>3. /\ use' = use /\ DOMAIN term = Terminals /\ DOMAIN term' = Terminals
      /\ term'[t] = s /\ term'[p] = term[p]
    BY <1>1 DEF Finish, IInv, TypeOK, s
<1>4. link' \in [Terminals -> Seq(Message)] /\ link'[t] = rest /\ link'[p] = link[p] \o r.out
    <2>1. link \in [Terminals -> Seq(Message)] /\ r.out \in Seq(Message)
        BY DEF IInv, TypeOK, Sound, IsTerminal
    <2>2. link' = [link EXCEPT ![t] = rest, ![p] = @ \o r.out]
        BY DEF Finish, p
    <2>3. link[p] \o r.out \in Seq(Message)
        BY <1>1, <2>1
    <2> QED
        BY <1>1, <2>1, <2>2, <2>3
<1>5. TypeOK'
    BY <1>1, <1>2, <1>3, <1>4 DEF IInv, TypeOK
<1>6. CallsHaveCapabilities'
    BY <1>1, <1>2, <1>3 DEF IInv, CallsHaveCapabilities, InCall, Received, Sound
<1>7. GoneIsIdle'
    BY <1>1, <1>2, <1>3 DEF IInv, GoneIsIdle, IsConnected
<1>8. AcksAreTrue'
    <2>1. Has(p) => Has(p)'
        BY <1>3 DEF Has, IsConnected, Received
    <2>2. Received(r) => Has(t)'
        BY <1>2, <1>3 DEF Has, Received
    <2>3. Has(t) => Has(t)'
        BY <2>2 DEF Has
    <2>4. Acknowledged(link[p] \o r.out) => Acknowledged(link[p]) \/ Says(r, "TCSAck")
        <3>1. link[p] \in Seq(Message) /\ r.out \in Seq(Message)
            BY <1>1 DEF IInv, TypeOK, Sound, IsTerminal
        <3> QED
            BY <3>1, AcknowledgedOfConcat DEF Acknowledged, Says
    <2>5. Says(r, "TCSAck") => Received(r)
        BY DEF Sound
    <2>6. term[p].TSC_CE_SEND = "COMPLETE" \/ Acknowledged(link[p]) => Has(t)
        BY <1>1 DEF IInv, AcksAreTrue
    <2>7. term'[t].TSC_CE_SEND = "COMPLETE" \/ Acknowledged(link'[t]) => Has(p)'
        BY <1>2, <1>3, <1>4, <2>1 DEF p
    <2>8. term'[p].TSC_CE_SEND = "COMPLETE" \/ Acknowledged(link'[p]) => Has(t)'
        BY <1>3, <1>4, <2>2, <2>3, <2>4, <2>5, <2>6
    <2> QED
        BY <1>1, <2>7, <2>8 DEF AcksAreTrue, p
<1> QED
    BY <1>5, <1>6, <1>7, <1>8 DEF IInv

(* Most handlers follow.                                                   *)
LEMMA FollowsKeeps ==
    ASSUME IInv, NEW t \in Terminals, IsConnected(t), NEW r, Follows(term[t], r),
           NEW rest \in Seq(Message), Acknowledged(rest) => Acknowledged(link[t]),
           Finish(t, r, rest), early' \in 0..use.early
    PROVE  IInv'
<1>1. Has(Peer(t)) \/ (r.TSC_CE_SEND # "COMPLETE" /\ ~Acknowledged(rest))
    BY DEF IInv, AcksAreTrue, Follows
<1> QED
    BY <1>1, FinishKeeps DEF Follows, IsConnected

LEMMA TermSound ==
    ASSUME IInv, NEW t \in Terminals
    PROVE  Sound(term[t]) /\ link[t] \in Seq(Message) /\ early \in 0..use.early
BY DEF IInv, TypeOK, CallsHaveCapabilities, InCall, Sound, Says

LEMMA RunsOutTyped ==
    ASSUME IInv, RunsOut
    PROVE  early' \in 0..use.early
<1>1. use.early \in Nat /\ early \in 0..use.early
    BY CallSetupAssumption DEF IInv, TypeOK
<1> QED
    BY <1>1 DEF RunsOut

LEMMA MSDTimeoutStep ==
    ASSUME IInv, NEW t \in Terminals, MSDTimeout(t)
    PROVE  IInv'
<1> DEFINE s == term[t]
           idle == [s EXCEPT !.State = "IDLE"]
           a == IF s.State = "OUTGOING_AWAITING_RESPONSE" THEN Send(idle, MSDRelease) ELSE idle
<1>1. IsConnected(t) /\ Sound(s) /\ link[t] \in Seq(Message)
    BY TermSound DEF MSDTimeout, IInv, GoneIsIdle
<1>2. early' \in 0..use.early
    BY RunsOutTyped DEF MSDTimeout
<1>3. Finish(t, MSDRejectIndication(a), link[t])
    BY DEF MSDTimeout
<1> HIDE DEF s
<1>4. Follows(s, idle)
    BY <1>1, StateFollows
<1> HIDE DEF idle
<1>5. Follows(idle, Send(idle, MSDRelease))
    BY <1>4, SendFollows DEF Follows, MSDRelease, Message
<1>6. Follows(s, a)
    BY <1>4, <1>5, FollowsTransitive
<1> HIDE DEF a
<1>7. Follows(s, MSDRejectIndication(a))
    BY <1>6, MSDRejectIndicationFollows, FollowsTransitive DEF Follows
<1> QED
    BY <1>1, <1>2, <1>3, <1>7, FollowsKeeps DEF s

LEMMA CETimeoutStep ==
    ASSUME IInv, NEW t \in Terminals, CETimeout(t)
    PROVE  IInv'
<1> DEFINE s == term[t]
           idle == [s EXCEPT !.OutgoingState = "IDLE"]
           a == Send(idle, TCSRelease)
<1>1. IsConnected(t) /\ Sound(s) /\ link[t] \in Seq(Message)
    BY TermSound DEF CETimeout, IInv, GoneIsIdle
<1>2. early' \in 0..use.early
    BY RunsOutTyped DEF CETimeout
<1>3. Finish(t, CERejectIndication(a, "OUTGOING"), link[t])
    BY DEF CETimeout
<1> HIDE DEF s
<1>4. Follows(s, idle)
    BY SMT, <1>1 DEF Follows, Sound, IsTerminal, Connected, Received, Says
<1> HIDE DEF idle
<1>5. Follows(idle, a)
    BY <1>4, SendFollows DEF Follows, TCSRelease, Message
<1> HIDE DEF a
<1>6. Follows(s, CERejectIndication(a, "OUTGOING"))
    BY <1>4, <1>5, CERejectIndicationFollows, FollowsTransitive DEF Follows
<1> QED
    BY <1>1, <1>2, <1>3, <1>6, FollowsKeeps DEF s

LEMMA MuxSetupCompleteStep ==
    ASSUME IInv, NEW t \in Terminals, MuxSetupComplete(t)
    PROVE  IInv'
<1> DEFINE s == term[t]
           a == OpenSession(s)
           r == [a EXCEPT !.open = TRUE, !.levelTimer = "off",
                          !.tcsTimer = @ \/ s.TSC_CE_RECEIVE # "COMPLETE"]
<1>1. IsConnected(t) /\ Sound(s) /\ link[t] \in Seq(Message) /\ early' \in 0..use.early
    BY TermSound DEF MuxSetupComplete
<1>2. Finish(t, r, link[t])
    BY DEF MuxSetupComplete
<1> HIDE DEF s
<1>3. Follows(s, a)
    BY <1>1, CEStartFollows, MSDStartFollows, FollowsTransitive DEF OpenSession, Follows
<1> HIDE DEF a
<1>4. Follows(a, r)
    BY SMT, <1>3 DEF Follows, Sound, IsTerminal, Connected, Received, Says
<1> HIDE DEF r
<1> QED
    BY <1>1, <1>2, <1>3, <1>4, FollowsKeeps, FollowsTransitive DEF s

LEMMA LevelSetupTimeoutStep ==
    ASSUME IInv, NEW t \in Terminals, LevelSetupTimeout(t)
    PROVE  IInv'
<1> DEFINE s == term[t]
           a == [s EXCEPT !.levelTimer = "last", !.tcsTimer = TRUE]
           b == [s EXCEPT !.levelTimer = "off"]
<1>1. IsConnected(t) /\ Sound(s) /\ link[t] \in Seq(Message)
    BY TermSound DEF LevelSetupTimeout
<1>2. early' \in 0..use.early
    BY RunsOutTyped DEF LevelSetupTimeout
<1>3. Finish(t, IF s.levelTimer = "again" THEN a
                ELSE SignalCsupComplete(b, "PVMFErrTimeout"), link[t])
    BY DEF LevelSetupTimeout
<1> HIDE DEF s
<1>4. Follows(s, a) /\ Follows(s, b)
    BY SMT, <1>1 DEF Follows, Sound, IsTerminal, Connected, Received, Says
<1> HIDE DEF a, b
<1>5. Follows(s, SignalCsupComplete(b, "PVMFErrTimeout"))
    BY <1>4, SignalCsupCompleteFollows, FollowsTransitive DEF Follows
<1> QED
    BY <1>1, <1>2, <1>3, <1>4, <1>5, FollowsKeeps DEF s

LEMMA TcsReceiveTimeoutStep ==
    ASSUME IInv, NEW t \in Terminals, TcsReceiveTimeout(t)
    PROVE  IInv'
<1> DEFINE s == term[t]
           a == [s EXCEPT !.tcsTimer = FALSE]
<1>1. IsConnected(t) /\ Sound(s) /\ link[t] \in Seq(Message)
    BY TermSound DEF TcsReceiveTimeout
<1>2. early' \in 0..use.early
    BY RunsOutTyped DEF TcsReceiveTimeout
<1>3. Finish(t, SignalCsupComplete(a, "PVMFErrTimeout"), link[t])
    BY DEF TcsReceiveTimeout
<1> HIDE DEF s
<1>4. Follows(s, a)
    BY SMT, <1>1 DEF Follows, Sound, IsTerminal, Connected, Received, Says
<1> HIDE DEF a
<1>5. Follows(s, SignalCsupComplete(a, "PVMFErrTimeout"))
    BY <1>4, SignalCsupCompleteFollows, FollowsTransitive DEF Follows
<1> QED
    BY <1>1, <1>2, <1>3, <1>5, FollowsKeeps DEF s

LEMMA DisconnectStep ==
    ASSUME IInv, NEW t \in Terminals, Disconnect(t)
    PROVE  IInv'
<1> DEFINE p == Peer(t)
           c == Connected(term[t].TerminalType, 0)
           s == [c EXCEPT !.iTerminalStatus = "Phase0_Idle", !.open = TRUE,
                          !.levelTimer = "off",
                          !.ConnectComplete = term[t].ConnectComplete]
           r == [s EXCEPT !.out = <<>>]
<1>1. p \in Terminals \ {t} /\ Terminals = {t, p} /\ Peer(p) = t
    BY Peers
<1>2. Sound(term[t]) /\ IsTerminal(term[t])
    BY TermSound DEF Sound
<1>3. IsTerminal(c)
    <2>1. term[t].TerminalType \in Nat
        BY <1>2 DEF IsTerminal
    <2>2. 0 \in Numbers
        BY ConstantsTyped DEF Numbers
    <2> QED
        BY <2>1, <2>2, ConnectedTyped
<1>4. c.State = "IDLE" /\ c.OutgoingState = "IDLE" /\ c.TSC_CE_SEND # "COMPLETE"
      /\ c.out = <<>>
    BY DEF Connected
<1> HIDE DEF c
<1>5. /\ IsTerminal(r) /\ r.iTerminalStatus = "Phase0_Idle"
      /\ r.State = "IDLE" /\ r.OutgoingState = "IDLE" /\ r.TSC_CE_SEND # "COMPLETE"
      /\ r.out = <<>> /\ s.out = <<>>
    BY SMT, <1>2, <1>3, <1>4 DEF IsTerminal, Connected
<1>6. Finish(t, s, <<>>)
    BY DEF Disconnect, c
<1> HIDE DEF p, s, r
<1>7. /\ use' = use /\ early' = early
      /\ DOMAIN term' = Terminals /\ term'[t] = r /\ term'[p] = term[p]
    BY <1>1, <1>6 DEF Finish, Disconnect, IInv, TypeOK, r
<1>8. /\ link' \in [Terminals -> Seq(Message)] /\ link'[t] = <<>> /\ link'[p] = link[p]
    <2>1. link \in [Terminals -> Seq(Message)]
        BY DEF IInv, TypeOK
    <2>2. link' = [link EXCEPT ![t] = <<>>, ![p] = @ \o <<>>]
        BY <1>5, <1>6 DEF Finish, p
    <2>3. link[p] \o <<>> = link[p] /\ link[p] \in Seq(Message) /\ <<>> \in Seq(Message)
        BY <1>1, <2>1, ConcatEmptySeq
    <2>4. link' = [link EXCEPT ![t] = <<>>, ![p] = link[p]]
        BY <2>2, <2>3
    <2> QED
        BY <1>1, <2>1, <2>3, <2>4
<1>9. TypeOK'
    BY <1>1, <1>5, <1>7, <1>8 DEF IInv, TypeOK
<1>10. CallsHaveCapabilities' /\ GoneIsIdle'
    BY <1>1, <1>5, <1>7 DEF IInv, CallsHaveCapabilities, GoneIsIdle, InCall, IsConnected
<1>11. AcksAreTrue'
    BY <1>1, <1>5, <1>7, <1>8 DEF IInv, AcksAreTrue, Acknowledged, Has, IsConnected, p
<1> QED
    BY <1>9, <1>10, <1>11 DEF IInv

(* An acknowledgement may complete the exchange of the terminal's own set. *)
LEMMA HandleTCSAckSound ==
    ASSUME NEW s, Sound(s), NEW msg
    PROVE  LET r == HandleTCSAck(s, msg)
           IN  /\ Sound(r) /\ (Received(s) => Received(r))
               /\ r.iTerminalStatus = s.iTerminalStatus
<1> DEFINE Result(r) == /\ Sound(r) /\ (Received(s) => Received(r))
                        /\ r.iTerminalStatus = s.iTerminalStatus
           Answered(v) == [s EXCEPT !.OutgoingState = "IDLE", !.iCeRetries = N100,
                                    !.TSC_CE_SEND = v]
<1>1. ASSUME NEW v \in {"NOT_STARTED", "COMPLETE"}
      PROVE  Result(Answered(v))
    BY SMT, ConstantsTyped DEF Sound, IsTerminal, Connected, Received, Says
<1>2. s.TSC_CE_SEND \in {"NOT_STARTED", "COMPLETE"}
    BY DEF Sound, IsTerminal
<1>3. HandleTCSAck(s, msg) \in {s, Answered("COMPLETE"), Answered(s.TSC_CE_SEND)}
    BY DEF HandleTCSAck
<1> HIDE DEF Answered
<1> QED
    BY <1>1, <1>2, <1>3

LEMMA ReceiveStep ==
    ASSUME IInv, NEW t \in Terminals, NEW number \in Numbers, Receive(t, number)
    PROVE  IInv'
<1> DEFINE s == term[t]
           msg == Head(link[t])
           rest == Tail(link[t])
<1>1. /\ IsConnected(t) /\ Sound(s) /\ early' \in 0..use.early
      /\ link[t] \in Seq(Message) /\ link[t] # <<>>
    BY TermSound DEF Receive
<1>2. /\ msg \in Message /\ rest \in Seq(Message)
      /\ msg = link[t][1] /\ 1 \in DOMAIN link[t]
      /\ Acknowledged(rest) => Acknowledged(link[t])
    BY <1>1 DEF Acknowledged
<1>3. ASSUME NEW r, Follows(s, r), Finish(t, r, rest)
      PROVE  IInv'
    BY <1>1, <1>2, <1>3, FollowsKeeps
<1>4. CASE msg.m = "MSD"
    <2>1. Finish(t, HandleMSD(s, msg, number), rest)
        BY <1>4 DEF Receive
    <2> QED
        BY <1>1, <1>3, <2>1, HandleMSDFollows
<1>5. CASE msg.m = "MSDAck"
    <2>1. Finish(t, HandleMSDAck(s, msg), rest)
        BY <1>5 DEF Receive
    <2>2. msg.decision \in {"MASTER", "SLAVE"}
        BY <1>2, <1>5 DEF Message
    <2> QED
        BY <1>1, <1>3, <2>1, <2>2, HandleMSDAckFollows
<1>6. CASE msg.m = "MSDReject"
    <2>1. Finish(t, HandleMSDReject(s, number), rest)
        BY <1>6 DEF Receive
    <2> QED
        BY <1>1, <1>3, <2>1, HandleMSDRejectFollows
<1>7. CASE msg.m = "MSDRelease"
    <2>1. Finish(t, HandleMSDRelease(s), rest)
        BY <1>7 DEF Receive
    <2> QED
        BY <1>1, <1>3, <2>1, HandleMSDReleaseFollows
<1>8. CASE msg.m = "TCS"
    <2>1. Finish(t, HandleTCS(s, msg), rest)
        BY <1>8 DEF Receive
    <2>2. msg.seq \in 0..(SeqModulus - 1)
        BY <1>2, <1>8 DEF Message
    <2> QED
        BY <1>1, <1>3, <2>1, <2>2, HandleTCSFollows
<1>9. CASE msg.m = "TCSAck"
    <2> DEFINE r == HandleTCSAck(s, msg)
    <2>1. Finish(t, r, rest)
        BY <1>9 DEF Receive
    <2>2. Sound(r) /\ (Received(s) => Received(r)) /\ r.iTerminalStatus # "Phase0_Idle"
        BY <1>1, HandleTCSAckSound DEF IsConnected
    <2>3. Has(Peer(t))
        BY <1>2, <1>9 DEF IInv, AcksAreTrue, Acknowledged
    <2> HIDE DEF r
    <2> QED
        BY <1>1, <1>2, <2>1, <2>2, <2>3, FinishKeeps
<1>10. CASE msg.m = "TCSRelease"
    <2>1. Finish(t, HandleTCSRelease(s), rest)
        BY <1>10 DEF Receive
    <2> QED
        BY <1>1, <1>3, <2>1, HandleTCSReleaseFollows
<1> QED
    BY <1>2, <1>4, <1>5, <1>6, <1>7, <1>8, <1>9, <1>10 DEF Message

LEMMA NextKeepsIInv == IInv /\ [Next]_vars => IInv'
<1> SUFFICES ASSUME IInv, [Next]_vars
             PROVE  IInv'
    OBVIOUS
<1>1. CASE UNCHANGED vars
    BY <1>1 DEF vars, IInv, TypeOK, CallsHaveCapabilities, GoneIsIdle, AcksAreTrue, InCall,
        IsConnected, Has, Acknowledged
<1> QED
    BY <1>1, ReceiveStep, MSDTimeoutStep, CETimeoutStep, MuxSetupCompleteStep,
       LevelSetupTimeoutStep, TcsReceiveTimeoutStep, DisconnectStep DEF Next

(* The inductive invariant holds of every call setup.                      *)
THEOREM Invariance == Spec => []IInv
BY InitIInv, NextKeepsIInv, PTL DEF Spec

(* The variables keep their types: the numbers and counters their ranges,  *)
(* the links hold messages only, and no message is left unsent.            *)
THEOREM TypeCorrect == Spec => []TypeOK
BY Invariance, PTL DEF IInv

(* A terminal whose capabilities were acknowledged may count on the peer   *)
(* having them, unless the peer has left.                                  *)
THEOREM CapabilitiesReachThePeer == Spec => []CapabilitiesAreReceived
<1>1. IInv => CapabilitiesAreReceived
    BY DEF IInv, AcksAreTrue, CapabilitiesAreReceived, Has, Received
<1> QED
    BY <1>1, Invariance, PTL
-----------------------------------------------------------------------------
(* Roles.  When the first numbers or the types decide, the draw of a       *)
(* terminal gives it one role, and every determination, whichever of the   *)
(* peer's messages it answers, comes to that role.                         *)
Other(role) == IF role = "MASTER" THEN "SLAVE" ELSE "MASTER"

Draw == [type : Nat, number : Numbers, role : {"MASTER", "SLAVE"}]

(* What a terminal with draw d sends: what the peer is to be, no rejection.*)
Fits(msg, d) == /\ msg.m = "MSD" => msg.type = d.type /\ msg.number = d.number
                /\ msg.m = "MSDAck" => msg.decision = Other(d.role)
                /\ msg.m # "MSDReject"

Plays(s, d) ==
    /\ s.TerminalType = d.type /\ s.StatusDeterminationNumber = d.number
    /\ s.Status \in {"INDETERMINATE", d.role}
    /\ s.State = "INCOMING_AWAITING_RESPONSE" => s.Status = d.role
    /\ s.TSC_MSD_DECISION \in {"NONE", d.role}
    /\ s.TSC_MSD = "COMPLETE" \/ s.iTerminalStatus = "PhaseE_Comm"
            => s.TSC_MSD_DECISION = d.role
    /\ \A i \in DOMAIN s.out : Fits(s.out[i], d)

(* A terminal that plays the role of its draw.                             *)
Cast(s, d) == Sound(s) /\ Plays(s, d)

LEMMA SendPlays ==
    ASSUME NEW d \in Draw, NEW s, Cast(s, d), NEW msg \in Message, Fits(msg, d)
    PROVE  Plays(Send(s, msg), d)
BY SMT DEF Cast, Sound, Plays, IsTerminal, Connected, Send

LEMMA SignalCsupCompletePlays ==
    ASSUME NEW d \in Draw, NEW s, Cast(s, d), NEW status,
           status = "PVMFSuccess" => s.TSC_MSD_DECISION = d.role
    PROVE  Plays(SignalCsupComplete(s, status), d)
BY SMT DEF Cast, Sound, Plays, IsTerminal, Connected, SignalCsupComplete

LEMMA SessionCloseCast ==
    ASSUME NEW d \in Draw, NEW s, Cast(s, d)
    PROVE  Cast(SessionClose_CSUP(s), d)
<1>1. Plays(SessionClose_CSUP(s), d)
    BY SMT DEF Cast, Sound, Plays, IsTerminal, Connected, SignalCsupComplete,
        SessionClose_CSUP
<1> QED
    BY <1>1, SessionCloseFollows DEF Cast, Follows

LEMMA SendMSDCast ==
    ASSUME NEW d \in Draw, NEW s, Cast(s, d)
    PROVE  Cast(SendMSD(s), d)
<1> DEFINE msg == MSDMsg(s.TerminalType, s.StatusDeterminationNumber)
<1>1. msg \in Message /\ Fits(msg, d)
    BY DEF MSDMsg, Message, Fits, Cast, Sound, Plays, IsTerminal
<1> HIDE DEF msg
<1> QED
    BY <1>1, SendPlays, SendMSDFollows DEF SendMSD, Cast, Follows, msg

LEMMA SendMSDAckCast ==
    ASSUME NEW d \in Draw, NEW s, Cast(s, d), s.Status = d.role
    PROVE  Cast(SendMSDAck(s), d)
<1> DEFINE msg == MSDAck(IF s.Status = "MASTER" THEN "SLAVE" ELSE "MASTER")
<1>1. msg \in Message /\ Fits(msg, d)
    BY DEF MSDAck, Message, Fits, Other
<1> HIDE DEF msg
<1> QED
    BY <1>1, SendPlays, SendMSDAckFollows DEF SendMSDAck, Cast, Follows, msg

LEMMA MSDStartCast ==
    ASSUME NEW d \in Draw, NEW s, Cast(s, d)
    PROVE  Cast(MSDStart(s), d)
<1> DEFINE a == [s EXCEPT !.TSC_MSD = "STARTED"]
           b == [a EXCEPT !.RetryCnt = 1, !.State = "OUTGOING_AWAITING_RESPONSE"]
<1>1. Cast(a, d)
    BY SMT DEF Cast, Sound, Plays, IsTerminal, Connected, Received, Says
<1>2. Cast(b, d)
    BY SMT, <1>1, ConstantsTyped DEF Cast, Sound, Plays, IsTerminal, Connected, Received, Says
<1>3. Cast(SendMSD(b), d)
    BY <1>2, SendMSDCast
<1> HIDE DEF a, b
<1> QED
    BY <1>1, <1>2, <1>3 DEF MSDStart, DetermineRequest, a, b

LEMMA MSDRejectIndicationCast ==
    ASSUME NEW d \in Draw, NEW s, Cast(s, d)
    PROVE  Cast(MSDRejectIndication(s), d)
<1> DEFINE a == [s EXCEPT !.TSC_MSD_RETRYCOUNT = @ - 1]
<1>1. Cast(a, d)
    BY SMT DEF Cast, Sound, Plays, IsTerminal, Connected, Received, Says
<1>2. Cast(MSDStart(a), d) /\ Cast(SessionClose_CSUP(a), d)
    BY <1>1, MSDStartCast, SessionCloseCast
<1> HIDE DEF a
<1> QED
    BY <1>1, <1>2 DEF MSDRejectIndication, a

LEMMA MSDDetermineConfirmCast ==
    ASSUME NEW d \in Draw, NEW s, Cast(s, d), s.Status = d.role
    PROVE  Cast(MSDDetermineConfirm(s), d)
<1> DEFINE a == [s EXCEPT !.TSC_MSD_DECISION = s.Status, !.TSC_MSD = "COMPLETE"]
<1>1. Cast(a, d) /\ a.TSC_MSD_DECISION = d.role
    BY SMT DEF Draw, Cast, Sound, Plays, IsTerminal, Connected, Received, Says
<1> HIDE DEF a
<1>2. Plays(TcsMsdComplete(a), d)
    BY <1>1, SignalCsupCompletePlays DEF TcsMsdComplete
<1>3. Plays(MSDDetermineConfirm(s), d)
    BY <1>1, <1>2 DEF MSDDetermineConfirm, Cast, a
<1>4. Sound(MSDDetermineConfirm(s))
    BY MSDDetermineConfirmFollows DEF Draw, Cast, Follows
<1> QED
    BY <1>3, <1>4 DEF Cast

LEMMA StateCast ==
    ASSUME NEW d \in Draw, NEW s, Cast(s, d),
           NEW a \in {"IDLE", "INCOMING_AWAITING_RESPONSE"},
           a # "IDLE" => s.Status = d.role
    PROVE  Cast([s EXCEPT !.State = a], d) /\ [s EXCEPT !.State = a].Status = s.Status
BY SMT DEF Cast, Sound, Plays, IsTerminal, Connected, Received, Says

LEMMA IncomingCast ==
    ASSUME NEW d \in Draw, NEW s, Cast(s, d), s.Status = d.role
    PROVE  Cast(Incoming(s), d)
<1> DEFINE a == [s EXCEPT !.State = "INCOMING_AWAITING_RESPONSE"]
           c == SendMSDAck(a)
           r == [c EXCEPT !.TSC_MSD_DECISION = c.Status]
<1>1. Cast(a, d) /\ a.Status = d.role
    BY StateCast
<1>2. Cast(c, d)
    BY <1>1, SendMSDAckCast
<1>3. c.Status = a.Status
    BY <1>1 DEF Cast, Sound, IsTerminal, Connected, SendMSDAck, Send
<1> HIDE DEF a, c
<1>4. Plays(r, d)
    BY SMT, <1>1, <1>2, <1>3 DEF Cast, Sound, Plays, IsTerminal, Connected
<1>5. Sound(Incoming(s))
    BY IncomingFollows DEF Draw, Cast, Follows
<1> QED
    BY <1>4, <1>5 DEF Cast, Incoming, a, c, r

LEMMA HandleMSDCast ==
    ASSUME NEW d \in Draw, NEW s, Cast(s, d), NEW msg, NEW number \in Numbers,
           StatusFor(s, msg) = d.role
    PROVE  Cast(HandleMSD(s, msg, number), d)
<1> DEFINE a == [s EXCEPT !.State = "IDLE"]
           c == [s EXCEPT !.Status = StatusFor(s, msg)]
<1>1. Cast(a, d) /\ Cast(MSDRejectIndication(a), d)
    BY StateCast, MSDRejectIndicationCast
<1>2. Cast(c, d) /\ c.Status = d.role /\ d.role # "INDETERMINATE"
    BY SMT DEF Draw, Cast, Sound, Plays, IsTerminal, Connected, Received, Says
<1> HIDE DEF c
<1>3. Cast(Incoming(c), d)
    BY <1>2, IncomingCast
<1>4. s.State \in {"IDLE", "OUTGOING_AWAITING_RESPONSE", "INCOMING_AWAITING_RESPONSE"}
    BY DEF Cast, Sound, IsTerminal
<1> HIDE DEF a
<1> QED
    BY <1>1, <1>2, <1>3, <1>4 DEF HandleMSD, a, c

LEMMA ToldCast ==
    ASSUME NEW d \in Draw, NEW s, Cast(s, d)
    PROVE  Cast(Told(s, d.role), d)
<1> DEFINE a == [s EXCEPT !.State = "IDLE", !.Status = d.role]
           c == SendMSDAck(a)
<1>1. Cast(a, d) /\ a.Status = d.role
    BY SMT DEF Draw, Cast, Sound, Plays, IsTerminal, Connected, Received, Says
<1> HIDE DEF a
<1>2. Cast(c, d)
    BY <1>1, SendMSDAckCast
<1>3. c.Status = d.role
    BY <1>1 DEF SendMSDAck, Send
<1> HIDE DEF c
<1>4. Cast(MSDDetermineConfirm(c), d)
    BY <1>2, <1>3, MSDDetermineConfirmCast
<1> QED
    BY <1>4 DEF Told, a, c

LEMMA HandleMSDAckCast ==
    ASSUME NEW d \in Draw, NEW s, Cast(s, d), NEW msg, msg.decision = d.role
    PROVE  Cast(HandleMSDAck(s, msg), d)
<1> DEFINE a == [s EXCEPT !.State = "IDLE"]
<1>1. Cast(a, d) /\ a.Status = s.Status
    BY StateCast
<1> HIDE DEF a
<1>2. s.Status = d.role => Cast(MSDDetermineConfirm(a), d)
    BY <1>1, MSDDetermineConfirmCast
<1>3. Cast(MSDRejectIndication(a), d) /\ Cast(Told(s, d.role), d)
    BY <1>1, MSDRejectIndicationCast, ToldCast
<1>4. s.State \in {"IDLE", "OUTGOING_AWAITING_RESPONSE", "INCOMING_AWAITING_RESPONSE"}
    BY DEF Cast, Sound, IsTerminal
<1> QED
    BY <1>2, <1>3, <1>4 DEF HandleMSDAck, a

LEMMA HandleMSDReleaseCast ==
    ASSUME NEW d \in Draw, NEW s, Cast(s, d)
    PROVE  Cast(HandleMSDRelease(s), d)
<1> DEFINE a == [s EXCEPT !.State = "IDLE"]
<1>1. Cast(MSDRejectIndication(a), d)
    BY StateCast, MSDRejectIndicationCast
<1> QED
    BY <1>1 DEF HandleMSDRelease

(* The exchange of the capabilities leaves the determination alone, but it *)
(* may be what completes the call setup.                                   *)
LEMMA TransferRequestCast ==
    ASSUME NEW d \in Draw, NEW s, Cast(s, d)
    PROVE  Cast(TransferRequest(s), d)
<1> DEFINE seq == (s.OutSeqNum + 1) % SeqModulus
           a == [s EXCEPT !.OutSeqNum = seq, !.OutgoingState = "AWAITING_RESPONSE"]
<1>1. seq \in 0..(SeqModulus - 1)
    <2>1. s.OutSeqNum + 1 \in Int
        BY ConstantsTyped DEF Cast, Sound, IsTerminal
    <2> QED
        BY <2>1, NextSeqNumTyped
<1> HIDE DEF seq
<1>2. Cast(a, d)
    BY SMT, <1>1 DEF Cast, Sound, Plays, IsTerminal, Connected, Received, Says
<1>3. TCS(seq) \in Message /\ Fits(TCS(seq), d)
    BY <1>1 DEF TCS, Message, Fits
<1> HIDE DEF a
<1>4. Plays(Send(a, TCS(seq)), d)
    BY <1>2, <1>3, SendPlays
<1>5. Plays(TransferRequest(s), d)
    BY <1>4 DEF TransferRequest, Cast, a, seq
<1> QED
    BY <1>5, TransferRequestFollows DEF Cast, Follows

LEMMA CEStartCast ==
    ASSUME NEW d \in Draw, NEW s, Cast(s, d)
    PROVE  Cast(CEStart(s), d)
<1> DEFINE a == TransferRequest(s)
<1>1. Cast(a, d)
    BY TransferRequestCast
<1> HIDE DEF a
<1>2. Plays([a EXCEPT !.iCeRetries = @ - 1], d)
    BY SMT, <1>1 DEF Cast, Sound, Plays, IsTerminal, Connected
<1>3. Plays(CEStart(s), d)
    BY <1>2 DEF CEStart, Cast, a
<1> QED
    BY <1>3, CEStartFollows DEF Cast, Follows

LEMMA TransferResponsePlays ==
    ASSUME NEW d \in Draw, NEW s, IsTerminal(s), Plays(s, d)
    PROVE  Plays(TransferResponse(s), d)
<1> DEFINE a == [s EXCEPT !.IncomingState = "IDLE"]
           msg == TCSAck(s.InSeqNum)
<1>1. IsTerminal(a) /\ Plays(a, d)
    BY SMT DEF Plays, IsTerminal, Connected
<1>2. msg \in Message /\ Fits(msg, d)
    BY DEF TCSAck, Message, Fits, IsTerminal
<1> HIDE DEF a, msg
<1>3. Plays(Send(a, msg), d)
    BY SMT, <1>1, <1>2 DEF Plays, IsTerminal, Connected, Send
<1> QED
    BY <1>3 DEF TransferResponse, a, msg

LEMMA CapabilitiesReceivedCast ==
    ASSUME NEW d \in Draw, NEW s, IsTerminal(s), Plays(s, d),
           s.iTerminalStatus # "Phase0_Idle"
    PROVE  Cast(CapabilitiesReceived(s), d)
<1> DEFINE close == SessionClose_CSUP([s EXCEPT !.iCeRetries = N100])
           layer == IF use.al1 THEN close ELSE s
           received == [layer EXCEPT !.TSC_CE_RECEIVE = "COMPLETE"]
<1>1. IsTerminal(close) /\ Plays(close, d) /\ close.TSC_MSD_DECISION = s.TSC_MSD_DECISION
    BY SMT, ConstantsTyped
    DEF Plays, IsTerminal, Connected, SessionClose_CSUP, SignalCsupComplete
<1> HIDE DEF close
<1>2. IsTerminal(layer) /\ Plays(layer, d) /\ layer.TSC_MSD_DECISION = s.TSC_MSD_DECISION
    BY <1>1
<1> HIDE DEF layer
<1>3. Cast(received, d) /\ received.TSC_MSD_DECISION = s.TSC_MSD_DECISION
    BY SMT, <1>2 DEF Cast, Sound, Plays, IsTerminal, Connected, Received
<1> HIDE DEF received
<1>4. s.TSC_MSD = "COMPLETE" => s.TSC_MSD_DECISION = d.role
    BY DEF Plays
<1>5. s.TSC_MSD = "COMPLETE" => Plays(TcsMsdComplete(received), d)
    BY <1>3, <1>4, SignalCsupCompletePlays DEF TcsMsdComplete
<1>6. Plays(CapabilitiesReceived(s), d)
    BY <1>3, <1>5 DEF CapabilitiesReceived, Cast, received, layer, close
<1> QED
    BY <1>6, CapabilitiesReceivedSound DEF Cast

LEMMA CETransferIndicationCast ==
    ASSUME NEW d \in Draw, NEW s, Cast(s, d)
    PROVE  Cast(CETransferIndication(s), d)
<1> DEFINE c == [s EXCEPT !.tcsTimer = FALSE]
           r == TransferResponse(c)
<1>1. IsTerminal(c) /\ Plays(c, d) /\ c.iTerminalStatus = s.iTerminalStatus
    BY SMT DEF Cast, Sound, Plays, IsTerminal, Connected
<1> HIDE DEF c
<1>2. IsTerminal(r) /\ Plays(r, d) /\ r.iTerminalStatus = c.iTerminalStatus
    BY <1>1, TransferResponseTyped, TransferResponsePlays
<1> HIDE DEF r
<1>3. r.iTerminalStatus = "PhaseD_CSUP" => Plays(CapabilitiesReceived(r), d)
    BY <1>2, CapabilitiesReceivedCast DEF Cast
<1>4. Plays(CETransferIndication(s), d)
    BY <1>1, <1>2, <1>3 DEF CETransferIndication, InPhases, c, r
<1> QED
    BY <1>4, CETransferIndicationFollows DEF Cast, Follows

LEMMA CERejectIndicationCast ==
    ASSUME NEW d \in Draw, NEW s, Cast(s, d), NEW direction
    PROVE  Cast(CERejectIndication(s, direction), d)
<1> DEFINE a == [s EXCEPT !.iCeRetries = N100]
<1>1. Cast(a, d)
    BY SMT, ConstantsTyped DEF Cast, Sound, Plays, IsTerminal, Connected, Received, Says
<1> HIDE DEF a
<1>2. Cast(SessionClose_CSUP(a), d) /\ Cast(SessionClose_CSUP(s), d) /\ Cast(CEStart(s), d)
    BY <1>1, SessionCloseCast, CEStartCast
<1> QED
    BY <1>2 DEF CERejectIndication, a

LEMMA HandleTCSCast ==
    ASSUME NEW d \in Draw, NEW s, Cast(s, d), NEW msg, msg.seq \in 0..(SeqModulus - 1)
    PROVE  Cast(HandleTCS(s, msg), d)
<1> DEFINE c == [s EXCEPT !.InSeqNum = msg.seq, !.IncomingState = "AWAITING_RESPONSE"]
           r == CERejectIndication(c, "INCOMING")
<1>1. Cast(c, d)
    BY SMT DEF Cast, Sound, Plays, IsTerminal, Connected, Received, Says
<1> HIDE DEF c
<1>2. Cast(CETransferIndication(c), d) /\ Cast(CETransferIndication(r), d)
    BY <1>1, CERejectIndicationCast, CETransferIndicationCast
<1> QED
    BY <1>2 DEF HandleTCS, c, r

LEMMA HandleTCSAckCast ==
    ASSUME NEW d \in Draw, NEW s, Cast(s, d), NEW msg
    PROVE  Cast(HandleTCSAck(s, msg), d)
<1> DEFINE Answered(v) == [s EXCEPT !.OutgoingState = "IDLE", !.iCeRetries = N100,
                                    !.TSC_CE_SEND = v]
<1>1. ASSUME NEW v
      PROVE  Plays(Answered(v), d)
    BY SMT DEF Cast, Sound, Plays, IsTerminal, Connected
<1>2. HandleTCSAck(s, msg) \in {s, Answered("COMPLETE"), Answered(s.TSC_CE_SEND)}
    BY DEF HandleTCSAck
<1> HIDE DEF Answered
<1> QED
    BY <1>1, <1>2, HandleTCSAckSound DEF Cast

LEMMA HandleTCSReleaseCast ==
    ASSUME NEW d \in Draw, NEW s, Cast(s, d)
    PROVE  Cast(HandleTCSRelease(s), d)
<1> DEFINE c == [s EXCEPT !.IncomingState = "IDLE"]
<1>1. Cast(c, d)
    BY SMT DEF Cast, Sound, Plays, IsTerminal, Connected, Received, Says
<1> HIDE DEF c
<1>2. Cast(CERejectIndication(c, "INCOMING"), d)
    BY <1>1, CERejectIndicationCast
<1> QED
    BY <1>2 DEF HandleTCSRelease, c
-----------------------------------------------------------------------------
(* The draws of two terminals that decide give them opposite roles.        *)
DrawOf(t) == [type |-> use.TerminalType[t], number |-> use.number[t],
              role |-> StatusFor(First(t), FirstMSD(Peer(t)))]

LEMMA Difference ==
    ASSUME NEW a \in Numbers, NEW b \in Numbers
    PROVE  (a - b) % TWO_24 = IF a >= b THEN a - b ELSE a - b + TWO_24
<1>1. a \in Int /\ b \in Int /\ 0 <= a /\ a < TWO_24 /\ 0 <= b /\ b < TWO_24
    BY ConstantsTyped DEF Numbers
<1>2. CASE a >= b
    BY <1>1, <1>2, ConstantsTyped
<1>3. CASE a < b
    BY <1>1, <1>3, ConstantsTyped
<1> QED
    BY <1>1, <1>2, <1>3

LEMMA Halves == TWO_24 = TWO_23 + TWO_23
BY CallSetupAssumption DEF TWO_23

(* Exactly one of the differences is in the lower half, unless neither     *)
(* decides.                                                                *)
LEMMA OppositeHalves ==
    ASSUME NEW x \in Numbers, NEW y \in Numbers,
           NEW u, u = (y - x) % TWO_24, NEW v, v = (x - y) % TWO_24,
           u \notin {0, TWO_23}
    PROVE  /\ v \notin {0, TWO_23}
           /\ u \in 1..(TWO_23 - 1) => v \notin 1..(TWO_23 - 1)
           /\ u \notin 1..(TWO_23 - 1) => v \in 1..(TWO_23 - 1)
<1>1. x \in Int /\ y \in Int /\ 0 <= x /\ x < TWO_24 /\ 0 <= y /\ y < TWO_24
    BY ConstantsTyped DEF Numbers
<1>2. /\ u = IF y >= x THEN y - x ELSE y - x + TWO_24
      /\ v = IF x >= y THEN x - y ELSE x - y + TWO_24
    BY Difference
<1>3. IF x = y THEN u = 0 /\ v = 0 ELSE u \in 1..(TWO_24 - 1) /\ v = TWO_24 - u
    BY <1>1, <1>2, ConstantsTyped
<1>4. x # y /\ u \in 1..(TWO_24 - 1) /\ v = TWO_24 - u
    BY <1>3
<1> QED
    BY <1>4, Halves, ConstantsTyped

LEMMA Opposite ==
    ASSUME NEW a, NEW b,
           a.TerminalType \in Nat, b.TerminalType \in Nat,
           a.StatusDeterminationNumber \in Numbers, b.StatusDeterminationNumber \in Numbers,
           StatusFor(a, MSDMsg(b.TerminalType, b.StatusDeterminationNumber)) # "INDETERMINATE"
    PROVE  StatusFor(b, MSDMsg(a.TerminalType, a.StatusDeterminationNumber))
                = Other(StatusFor(a, MSDMsg(b.TerminalType, b.StatusDeterminationNumber)))
<1> DEFINE ta == a.TerminalType
           tb == b.TerminalType
           x == a.StatusDeterminationNumber
           y == b.StatusDeterminationNumber
           u == (y - x) % TWO_24
           v == (x - y) % TWO_24
           Of(d) == CASE d \in {0, TWO_23} -> "INDETERMINATE"
                      [] d \in 1..(TWO_23 - 1) -> "MASTER"
                      [] OTHER -> "SLAVE"
<1>1. StatusFor(a, MSDMsg(tb, y))
        = IF ta # tb THEN IF ta < tb THEN "SLAVE" ELSE "MASTER" ELSE Of(u)
    BY DEF StatusFor, MSDMsg
<1>2. StatusFor(b, MSDMsg(ta, x))
        = IF tb # ta THEN IF tb < ta THEN "SLAVE" ELSE "MASTER" ELSE Of(v)
    BY DEF StatusFor, MSDMsg
<1>3. u \notin {0, TWO_23} =>
        /\ v \notin {0, TWO_23}
        /\ u \in 1..(TWO_23 - 1) => v \notin 1..(TWO_23 - 1)
        /\ u \notin 1..(TWO_23 - 1) => v \in 1..(TWO_23 - 1)
    BY OppositeHalves
<1>4. ta \in Nat /\ tb \in Nat
    OBVIOUS
<1> HIDE DEF u, v
<1>5. Of(u) # "INDETERMINATE" => Of(v) = Other(Of(u))
    BY <1>3 DEF Other
<1> HIDE DEF ta, tb, x, y, Of
<1>6. CASE ta = tb
    BY <1>1, <1>2, <1>5, <1>6 DEF tb, y, ta, x
<1>7. CASE ta < tb
    <2>1. ta # tb /\ ~(tb < ta)
        BY <1>4, <1>7
    <2> QED
        BY <1>1, <1>2, <1>7, <2>1 DEF Other, tb, y, ta, x
<1>8. CASE tb < ta
    <2>1. ta # tb /\ ~(ta < tb)
        BY <1>4, <1>8
    <2> QED
        BY <1>1, <1>2, <1>8, <2>1 DEF Other, tb, y, ta, x
<1> QED
    BY <1>4, <1>6, <1>7, <1>8

LEMMA DrawsOppose ==
    ASSUME use \in Uses, Decided, NEW t \in Terminals
    PROVE  /\ DrawOf(t) \in Draw
           /\ DrawOf(t).role = Other(DrawOf(Peer(t)).role)
           /\ DrawOf(Peer(t)).role = Other(DrawOf(t).role)
<1>1. Peer(t) \in Terminals /\ Peer(Peer(t)) = t
    BY Peers
<1>2. ASSUME NEW p \in Terminals
      PROVE  /\ First(p).TerminalType = use.TerminalType[p]
             /\ First(p).StatusDeterminationNumber = use.number[p]
             /\ use.TerminalType[p] \in Nat /\ use.number[p] \in Numbers
             /\ StatusFor(First(p), FirstMSD(Peer(p))) \in {"MASTER", "SLAVE"}
    BY CallSetupAssumption, StatusForTyped DEF First, Connected, Decided, Numbers
<1>3. ASSUME NEW p \in Terminals, NEW q \in Terminals, q = Peer(p), p = Peer(q)
      PROVE  StatusFor(First(q), FirstMSD(p)) = Other(StatusFor(First(p), FirstMSD(q)))
    BY <1>2, <1>3, Opposite DEF FirstMSD
<1> QED
    BY <1>1, <1>2, <1>3 DEF DrawOf, Draw
-----------------------------------------------------------------------------
(* Every connected terminal plays the role of its draw, and so do the      *)
(* messages it sent, even after it left.                                   *)
RolesFollowDraws == Decided =>
    \A t \in Terminals :
        /\ IsConnected(t) => Plays(term[t], DrawOf(t))
        /\ \A i \in DOMAIN link[t] : Fits(link[t][i], DrawOf(Peer(t)))

LEMMA InitRoles == Init => RolesFollowDraws
<1> SUFFICES ASSUME Init, Decided, NEW t \in Terminals
             PROVE  Plays(term[t], DrawOf(t)) /\ link[t] = <<>>
    BY DEF RolesFollowDraws
<1>1. term[t] = Connected(use.TerminalType[t], use.number[t]) /\ link[t] = <<>>
    BY DEF Init
<1> QED
    BY <1>1 DEF Plays, Connected, DrawOf

LEMMA FitsOfConcat ==
    ASSUME NEW d, NEW q \in Seq(Message), NEW u \in Seq(Message),
           \A i \in DOMAIN q : Fits(q[i], d), \A i \in DOMAIN u : Fits(u[i], d)
    PROVE  \A i \in DOMAIN (q \o u) : Fits((q \o u)[i], d)
<1> SUFFICES ASSUME NEW i \in DOMAIN (q \o u)
             PROVE  Fits((q \o u)[i], d)
    OBVIOUS
<1>1. i \in 1..(Len(q) + Len(u))
    OBVIOUS
<1>2. CASE i <= Len(q)
    BY <1>1, <1>2
<1>3. CASE i > Len(q)
    <2>1. i - Len(q) \in DOMAIN u /\ (q \o u)[i] = u[i - Len(q)]
        BY <1>1, <1>3
    <2> QED
        BY <2>1
<1> QED
    BY <1>1, <1>2, <1>3

(* A handler's end, as in FinishKeeps.                                     *)
LEMMA FinishKeepsRoles ==
    ASSUME IInv, RolesFollowDraws, Decided, NEW t \in Terminals,
           NEW r, r.out \in Seq(Message), DOMAIN r = DOMAIN Connected(0, 0),
           \/ r.iTerminalStatus = "Phase0_Idle" /\ r.out = <<>>
           \/ Plays(r, DrawOf(t)),
           NEW rest \in Seq(Message),
           \A i \in DOMAIN rest : Fits(rest[i], DrawOf(Peer(t))),
           Finish(t, r, rest)
    PROVE  RolesFollowDraws'
<1> DEFINE p == Peer(t)
           s == [r EXCEPT !.out = <<>>]
<1>1. p \in Terminals \ {t} /\ Terminals = {t, p} /\ Peer(p) = t
    BY Peers
<1>2. (s.iTerminalStatus = r.iTerminalStatus)
      /\ (s.iTerminalStatus = "Phase0_Idle" \/ Plays(s, DrawOf(t)))
    BY SMT DEF Plays, Connected
<1>3. \A i \in DOMAIN r.out : Fits(r.out[i], DrawOf(t))
    BY DEF Plays
<1> HIDE DEF s, p
<1>4. /\ use' = use /\ DOMAIN term = Terminals
      /\ term'[t] = s /\ term'[p] = term[p]
    BY <1>1 DEF Finish, IInv, TypeOK, s
<1>5. link \in [Terminals -> Seq(Message)] /\ link'[t] = rest /\ link'[p] = link[p] \o r.out
    <2>1. link \in [Terminals -> Seq(Message)]
        BY DEF IInv, TypeOK
    <2>2. link' = [link EXCEPT ![t] = rest, ![p] = @ \o r.out]
        BY DEF Finish, p
    <2> QED
        BY <1>1, <2>1, <2>2
<1>6. \A i \in DOMAIN link'[p] : Fits(link'[p][i], DrawOf(t))
    <2>1. link[p] \in Seq(Message) /\ r.out \in Seq(Message)
        BY <1>1, <1>5
    <2>2. \A i \in DOMAIN link[p] : Fits(link[p][i], DrawOf(t))
        BY <1>1 DEF RolesFollowDraws
    <2>3. \A i \in DOMAIN (link[p] \o r.out) : Fits((link[p] \o r.out)[i], DrawOf(t))
        BY <1>3, <2>1, <2>2, FitsOfConcat
    <2> QED
        BY <1>5, <2>3
<1>7. \A x \in Terminals : DrawOf(x)' = DrawOf(x)
    BY <1>4 DEF DrawOf, First, FirstMSD
<1>8. \A i \in DOMAIN link'[t] : Fits(link'[t][i], DrawOf(p))
    BY <1>5 DEF p
<1>9. IsConnected(p) => Plays(term[p], DrawOf(p))
    BY <1>1 DEF RolesFollowDraws
<1>10. ASSUME NEW x \in Terminals
      PROVE  /\ IsConnected(x)' => Plays(term'[x], DrawOf(x))
             /\ \A i \in DOMAIN link'[x] : Fits(link'[x][i], DrawOf(Peer(x)))
    <2>1. CASE x = t
        BY <1>2, <1>4, <1>8, <2>1 DEF IsConnected, p
    <2>2. CASE x = p
        BY <1>1, <1>4, <1>6, <1>9, <2>2 DEF IsConnected
    <2> QED
        BY <1>1, <2>1, <2>2
<1>11. ASSUME NEW x \in Terminals
      PROVE  /\ (IsConnected(x) => Plays(term[x], DrawOf(x)))'
             /\ (\A i \in DOMAIN link[x] : Fits(link[x][i], DrawOf(Peer(x))))'
    <2>1. Peer(x) \in Terminals
        BY Peers
    <2>2. DrawOf(x)' = DrawOf(x) /\ DrawOf(Peer(x))' = DrawOf(Peer(x))
        BY <1>7, <2>1
    <2> QED
        BY <1>10, <2>2
<1> QED
    BY <1>11 DEF RolesFollowDraws

(* Most handlers end as one whom the draw of the terminal fits.            *)
LEMMA CastKeepsRoles ==
    ASSUME IInv, RolesFollowDraws, Decided, NEW t \in Terminals,
           NEW r, Cast(r, DrawOf(t)),
           NEW rest \in Seq(Message),
           \A i \in DOMAIN rest : Fits(rest[i], DrawOf(Peer(t))),
           Finish(t, r, rest)
    PROVE  RolesFollowDraws'
<1>1. r.out \in Seq(Message) /\ DOMAIN r = DOMAIN Connected(0, 0) /\ Plays(r, DrawOf(t))
    BY DEF Cast, Sound, IsTerminal
<1> QED
    BY <1>1, FinishKeepsRoles

LEMMA TermCast ==
    ASSUME IInv, RolesFollowDraws, Decided, NEW t \in Terminals
    PROVE  /\ DrawOf(t) \in Draw
           /\ IsConnected(t) => Cast(term[t], DrawOf(t))
           /\ link[t] \in Seq(Message)
           /\ \A i \in DOMAIN link[t] : Fits(link[t][i], DrawOf(Peer(t)))
<1>1. use \in Uses
    BY DEF IInv, TypeOK
<1>2. DrawOf(t) \in Draw
    BY <1>1, DrawsOppose
<1>3. IsConnected(t) => Plays(term[t], DrawOf(t))
    BY DEF RolesFollowDraws
<1>4. \A i \in DOMAIN link[t] : Fits(link[t][i], DrawOf(Peer(t)))
    BY DEF RolesFollowDraws
<1> QED
    BY <1>2, <1>3, <1>4, TermSound DEF Cast

LEMMA MSDTimeoutRoles ==
    ASSUME IInv, RolesFollowDraws, Decided, NEW t \in Terminals, MSDTimeout(t)
    PROVE  RolesFollowDraws'
<1> DEFINE d == DrawOf(t)
           s == term[t]
           idle == [s EXCEPT !.State = "IDLE"]
           a == IF s.State = "OUTGOING_AWAITING_RESPONSE" THEN Send(idle, MSDRelease) ELSE idle
<1>1. d \in Draw /\ Cast(s, d)
    BY TermCast DEF MSDTimeout, IInv, GoneIsIdle
<1>2. Finish(t, MSDRejectIndication(a), link[t])
    BY DEF MSDTimeout
<1> HIDE DEF s, d
<1>3. Cast(idle, d)
    BY <1>1, StateCast
<1> HIDE DEF idle
<1>4. MSDRelease \in Message /\ Fits(MSDRelease, d)
    BY DEF MSDRelease, Message, Fits
<1>5. MSDRelease.m # "TCSAck"
    BY DEF MSDRelease
<1>6. Cast(Send(idle, MSDRelease), d)
    BY <1>1, <1>3, <1>4, <1>5, SendPlays, SendFollows DEF Cast, Follows
<1>7. Cast(a, d)
    BY <1>3, <1>6
<1> HIDE DEF a
<1>8. Cast(MSDRejectIndication(a), d)
    BY <1>1, <1>7, MSDRejectIndicationCast
<1> QED
    BY <1>2, <1>8, TermCast, CastKeepsRoles DEF d

LEMMA CETimeoutRoles ==
    ASSUME IInv, RolesFollowDraws, Decided, NEW t \in Terminals, CETimeout(t)
    PROVE  RolesFollowDraws'
<1> DEFINE d == DrawOf(t)
           s == term[t]
           idle == [s EXCEPT !.OutgoingState = "IDLE"]
           a == Send(idle, TCSRelease)
<1>1. d \in Draw /\ Cast(s, d)
    BY TermCast DEF CETimeout, IInv, GoneIsIdle
<1>2. Finish(t, CERejectIndication(a, "OUTGOING"), link[t])
    BY DEF CETimeout
<1> HIDE DEF s, d
<1>3. Cast(idle, d)
    BY SMT, <1>1 DEF Cast, Sound, Plays, IsTerminal, Connected, Received, Says
<1> HIDE DEF idle
<1>4. TCSRelease \in Message /\ Fits(TCSRelease, d) /\ TCSRelease.m # "TCSAck"
    BY DEF TCSRelease, Message, Fits
<1>5. Cast(a, d)
    BY <1>1, <1>3, <1>4, SendPlays, SendFollows DEF Cast, Follows
<1> HIDE DEF a
<1>6. Cast(CERejectIndication(a, "OUTGOING"), d)
    BY <1>1, <1>5, CERejectIndicationCast
<1> QED
    BY <1>2, <1>6, TermCast, CastKeepsRoles DEF d

LEMMA MuxSetupCompleteRoles ==
    ASSUME IInv, RolesFollowDraws, Decided, NEW t \in Terminals, MuxSetupComplete(t)
    PROVE  RolesFollowDraws'
<1> DEFINE d == DrawOf(t)
           s == term[t]
           a == OpenSession(s)
           r == [a EXCEPT !.open = TRUE, !.levelTimer = "off",
                          !.tcsTimer = @ \/ s.TSC_CE_RECEIVE # "COMPLETE"]
<1>1. d \in Draw /\ Cast(s, d)
    BY TermCast DEF MuxSetupComplete
<1>2. Finish(t, r, link[t])
    BY DEF MuxSetupComplete
<1> HIDE DEF s, d
<1>3. Cast(a, d)
    BY <1>1, CEStartCast, MSDStartCast DEF OpenSession
<1> HIDE DEF a
<1>4. Cast(r, d)
    BY SMT, <1>3 DEF Cast, Sound, Plays, IsTerminal, Connected, Received, Says
<1> HIDE DEF r
<1> QED
    BY <1>2, <1>4, TermCast, CastKeepsRoles DEF d

LEMMA LevelSetupTimeoutRoles ==
    ASSUME IInv, RolesFollowDraws, Decided, NEW t \in Terminals, LevelSetupTimeout(t)
    PROVE  RolesFollowDraws'
<1> DEFINE d == DrawOf(t)
           s == term[t]
           a == [s EXCEPT !.levelTimer = "last", !.tcsTimer = TRUE]
           b == [s EXCEPT !.levelTimer = "off"]
           c == SignalCsupComplete(b, "PVMFErrTimeout")
<1>1. d \in Draw /\ Cast(s, d)
    BY TermCast DEF LevelSetupTimeout
<1>2. Finish(t, IF s.levelTimer = "again" THEN a ELSE c, link[t])
    BY DEF LevelSetupTimeout
<1> HIDE DEF s, d
<1>3. Cast(a, d) /\ Cast(b, d)
    BY SMT, <1>1 DEF Cast, Sound, Plays, IsTerminal, Connected, Received, Says
<1> HIDE DEF a, b
<1>4. Cast(c, d)
    BY <1>1, <1>3, SignalCsupCompletePlays, SignalCsupCompleteFollows DEF Cast, Follows
<1> HIDE DEF c
<1> QED
    BY <1>2, <1>3, <1>4, TermCast, CastKeepsRoles DEF d

LEMMA TcsReceiveTimeoutRoles ==
    ASSUME IInv, RolesFollowDraws, Decided, NEW t \in Terminals, TcsReceiveTimeout(t)
    PROVE  RolesFollowDraws'
<1> DEFINE d == DrawOf(t)
           s == term[t]
           a == [s EXCEPT !.tcsTimer = FALSE]
           c == SignalCsupComplete(a, "PVMFErrTimeout")
<1>1. d \in Draw /\ Cast(s, d)
    BY TermCast DEF TcsReceiveTimeout
<1>2. Finish(t, c, link[t])
    BY DEF TcsReceiveTimeout
<1> HIDE DEF s, d
<1>3. Cast(a, d)
    BY SMT, <1>1 DEF Cast, Sound, Plays, IsTerminal, Connected, Received, Says
<1> HIDE DEF a
<1>4. Cast(c, d)
    BY <1>1, <1>3, SignalCsupCompletePlays, SignalCsupCompleteFollows DEF Cast, Follows
<1> HIDE DEF c
<1> QED
    BY <1>2, <1>4, TermCast, CastKeepsRoles DEF d

LEMMA DisconnectRoles ==
    ASSUME IInv, RolesFollowDraws, Decided, NEW t \in Terminals, Disconnect(t)
    PROVE  RolesFollowDraws'
<1> DEFINE r == [Connected(term[t].TerminalType, 0)
                    EXCEPT !.iTerminalStatus = "Phase0_Idle",
                           !.open = TRUE, !.levelTimer = "off",
                           !.ConnectComplete = term[t].ConnectComplete]
<1>1. Finish(t, r, <<>>)
    BY DEF Disconnect
<1>2. /\ r.iTerminalStatus = "Phase0_Idle" /\ r.out = <<>>
      /\ DOMAIN r = DOMAIN Connected(0, 0)
    BY SMT DEF Connected
<1> HIDE DEF r
<1> DEFINE rest == <<>>
<1>3. r.out \in Seq(Message) /\ rest \in Seq(Message)
      /\ \A i \in DOMAIN rest : Fits(rest[i], DrawOf(Peer(t)))
    BY <1>2
<1>4. \/ r.iTerminalStatus = "Phase0_Idle" /\ r.out = <<>>
      \/ Plays(r, DrawOf(t))
    BY <1>2
<1>5. Finish(t, r, rest)
    BY <1>1
<1> HIDE DEF rest
<1> QED
    BY <1>2, <1>3, <1>4, <1>5, FinishKeepsRoles

(* The peer's messages give a terminal its role, or ask for nothing.       *)
LEMMA ReceiveRoles ==
    ASSUME IInv, RolesFollowDraws, Decided,
           NEW t \in Terminals, NEW number \in Numbers, Receive(t, number)
    PROVE  RolesFollowDraws'
<1> DEFINE d == DrawOf(t)
           s == term[t]
           msg == Head(link[t])
           rest == Tail(link[t])
<1>1. /\ d \in Draw /\ Cast(s, d)
      /\ link[t] \in Seq(Message) /\ link[t] # <<>>
      /\ \A i \in DOMAIN link[t] : Fits(link[t][i], DrawOf(Peer(t)))
    BY TermCast DEF Receive
<1>2. /\ msg \in Message /\ rest \in Seq(Message) /\ Fits(msg, DrawOf(Peer(t)))
      /\ \A i \in DOMAIN rest : Fits(rest[i], DrawOf(Peer(t)))
    BY <1>1
<1>3. ASSUME NEW r, Cast(r, d), Finish(t, r, rest)
      PROVE  RolesFollowDraws'
    BY <1>2, <1>3, CastKeepsRoles
<1>4. CASE msg.m = "MSD"
    <2>1. Finish(t, HandleMSD(s, msg, number), rest)
        BY <1>4 DEF Receive
    <2>2. s.TerminalType = First(t).TerminalType
          /\ s.StatusDeterminationNumber = First(t).StatusDeterminationNumber
        BY <1>1 DEF Cast, Plays, DrawOf, First, Connected
    <2>3. msg.type = FirstMSD(Peer(t)).type /\ msg.number = FirstMSD(Peer(t)).number
        BY <1>2, <1>4 DEF Fits, DrawOf, FirstMSD, MSDMsg
    <2>4. StatusFor(s, msg) = d.role
        BY <2>2, <2>3 DEF StatusFor, DrawOf
    <2> QED
        BY <1>1, <1>3, <2>1, <2>4, HandleMSDCast
<1>5. CASE msg.m = "MSDAck"
    <2>1. Finish(t, HandleMSDAck(s, msg), rest)
        BY <1>5 DEF Receive
    <2>2. msg.decision = d.role
        <3>1. use \in Uses
            BY DEF IInv, TypeOK
        <3> QED
            BY <1>2, <1>5, <3>1, DrawsOppose DEF Fits
    <2> QED
        BY <1>1, <1>3, <2>1, <2>2, HandleMSDAckCast
<1>6. msg.m # "MSDReject"
    BY <1>2 DEF Fits
<1>7. CASE msg.m = "MSDRelease"
    <2>1. Finish(t, HandleMSDRelease(s), rest)
        BY <1>7 DEF Receive
    <2> QED
        BY <1>1, <1>3, <2>1, HandleMSDReleaseCast
<1>8. CASE msg.m = "TCS"
    <2>1. Finish(t, HandleTCS(s, msg), rest)
        BY <1>8 DEF Receive
    <2>2. msg.seq \in 0..(SeqModulus - 1)
        BY <1>2, <1>8 DEF Message
    <2> QED
        BY <1>1, <1>3, <2>1, <2>2, HandleTCSCast
<1>9. CASE msg.m = "TCSAck"
    <2>1. Finish(t, HandleTCSAck(s, msg), rest)
        BY <1>9 DEF Receive
    <2> QED
        BY <1>1, <1>3, <2>1, HandleTCSAckCast
<1>10. CASE msg.m = "TCSRelease"
    <2>1. Finish(t, HandleTCSRelease(s), rest)
        BY <1>10 DEF Receive
    <2> QED
        BY <1>1, <1>3, <2>1, HandleTCSReleaseCast
<1> QED
    BY <1>2, <1>4, <1>5, <1>6, <1>7, <1>8, <1>9, <1>10 DEF Message

(* What the draws decide does not change.                                  *)
LEMMA UnchangedRoles ==
    ASSUME IInv, RolesFollowDraws, UNCHANGED vars
    PROVE  RolesFollowDraws'
<1>1. use' = use /\ term' = term /\ link' = link
    BY DEF vars
<1>2. Decided' <=> Decided
    BY <1>1 DEF Decided, First, FirstMSD
<1>3. \A t \in Terminals : DrawOf(t)' = DrawOf(t) /\ (IsConnected(t)' <=> IsConnected(t))
    BY <1>1 DEF DrawOf, First, FirstMSD, IsConnected
<1> SUFFICES ASSUME Decided, NEW t \in Terminals
               PROVE  /\ (IsConnected(t) => Plays(term[t], DrawOf(t)))'
                      /\ (\A i \in DOMAIN link[t] : Fits(link[t][i], DrawOf(Peer(t))))'
    BY <1>2 DEF RolesFollowDraws
<1>4. /\ IsConnected(t) => Plays(term[t], DrawOf(t))
      /\ \A i \in DOMAIN link[t] : Fits(link[t][i], DrawOf(Peer(t)))
    BY DEF RolesFollowDraws
<1>5. DrawOf(t)' = DrawOf(t) /\ DrawOf(Peer(t))' = DrawOf(Peer(t))
    BY <1>3, Peers
<1> QED
    BY <1>1, <1>3, <1>4, <1>5

LEMMA NextKeepsRoles == IInv /\ RolesFollowDraws /\ [Next]_vars => RolesFollowDraws'
<1> SUFFICES ASSUME IInv, RolesFollowDraws, [Next]_vars
             PROVE  RolesFollowDraws'
    OBVIOUS
<1>1. CASE ~Decided
    <2>1. use' = use
        BY DEF Next, vars, Receive, MSDTimeout, CETimeout, MuxSetupComplete,
            LevelSetupTimeout, TcsReceiveTimeout, Disconnect, Finish
    <2>2. ~Decided'
        BY <1>1, <2>1 DEF Decided, First, FirstMSD
    <2> QED
        BY <2>2 DEF RolesFollowDraws
<1>2. CASE Decided /\ Next
    BY <1>2, ReceiveRoles, MSDTimeoutRoles, CETimeoutRoles, MuxSetupCompleteRoles,
       LevelSetupTimeoutRoles, TcsReceiveTimeoutRoles, DisconnectRoles DEF Next
<1>3. CASE UNCHANGED vars
    BY <1>3, UnchangedRoles
<1> QED
    BY <1>1, <1>2, <1>3

(* Whatever is late, lost to a release or answered twice: when the types   *)
(* or the first numbers decide, each terminal and each message on its way  *)
(* keeps to the roles these gave.                                          *)
THEOREM RolesInvariance == Spec => []RolesFollowDraws
<1>1. Init => IInv /\ RolesFollowDraws
    BY InitIInv, InitRoles
<1>2. IInv /\ RolesFollowDraws /\ [Next]_vars => (IInv /\ RolesFollowDraws)'
    BY NextKeepsIInv, NextKeepsRoles
<1> QED
    BY <1>1, <1>2, PTL DEF Spec

(* When both terminals are in the call, one of them is the master and the  *)
(* other the slave, if the types or the first numbers decide.              *)
THEOREM OneIsMaster == Spec => []RolesAgree
<1>1. IInv /\ RolesFollowDraws => RolesAgree
    <2> SUFFICES ASSUME IInv, RolesFollowDraws, Decided, \A t \in Terminals : InCall(t)
                 PROVE  OneMaster
        BY DEF RolesAgree
    <2>1. PICK t : t \in Terminals
        BY FS_EmptySet, CallSetupAssumption
    <2>2. Peer(t) \in Terminals /\ Terminals = {t, Peer(t)}
        BY <2>1, Peers
    <2>3. \A x \in Terminals : term[x].TSC_MSD_DECISION = DrawOf(x).role
        BY DEF RolesFollowDraws, Plays, IsConnected, InCall
    <2>4. use \in Uses
        BY DEF IInv, TypeOK
    <2>5. /\ DrawOf(t).role \in {"MASTER", "SLAVE"}
          /\ DrawOf(Peer(t)).role = Other(DrawOf(t).role)
        BY <2>1, <2>4, DrawsOppose DEF Draw
    <2> QED
        BY <2>2, <2>3, <2>5 DEF OneMaster, Other
<1> QED
    BY <1>1, Invariance, RolesInvariance, PTL
================================================================================
