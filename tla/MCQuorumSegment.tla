-------------------------- MODULE MCQuorumSegment --------------------------
(* One originator and one or two peers, with the fault classes of each run. *)
EXTENDS QuorumSegment, TLC

CONSTANTS p1, p2

OnePeer == {p1}
TwoPeers == {p1, p2}
NoFaults == {}
NetworkFaults == {"timeout", "rpc"}
PowerFaults == {"power"}
CancelFaults == {"cancel"}
AllFaults == FaultClasses
=============================================================================
