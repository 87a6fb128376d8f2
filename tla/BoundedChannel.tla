--------------------------- MODULE BoundedChannel ---------------------------
(***************************************************************************)
(* What a queue between threads promises: what is sent is received once,   *)
(* in the order sent, and no more than Depth items wait.                   *)
(***************************************************************************)
EXTENDS Naturals, Sequences

CONSTANTS Data,    \* what is sent
          NoData,  \* "nothing"
          Depth    \* how many items may wait

VARIABLES chan,    \* the items sent and not received, oldest first
          got      \* the item received last and still in use, or NoData

channelVars == <<chan, got>>

Init == chan = <<>> /\ got = NoData

Send(d) == /\ Len(chan) < Depth
           /\ chan' = Append(chan, d)
           /\ UNCHANGED got

Receive == /\ chan # <<>>
           /\ got' = Head(chan)
           /\ chan' = Tail(chan)

Done == /\ got' = NoData
        /\ UNCHANGED chan

Next == (\E d \in Data : Send(d)) \/ Receive \/ Done

Spec == Init /\ [][Next]_channelVars
=============================================================================
