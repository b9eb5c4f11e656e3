------------------------------- MODULE MCWalk -------------------------------
(* Packets of up to two groups with up to two sources each, and            *)
(* acknowledgements of two groups with one source or of one with up to     *)
(* three.                                                                  *)
EXTENDS Walk

MCLists(n) == UNION {[1..m -> {"unknown", "idle", "wanted"}] : m \in 0..n}

MCGroup ==
  {g \in [multicast : BOOLEAN, joins : MCLists(2), prunes : MCLists(2)] :
     Len(g.joins) + Len(g.prunes) <= 2}

MCGrafted ==
  [multicast : BOOLEAN, joins : MCLists(2), prunes : MCLists(1)]

MCAcked(n) ==
  [multicast : BOOLEAN, joins : MCLists(n) \ {<< >>}, prunes : {<< >>}]

MCPackets(types, groups) ==
  [type : types, groups : UNION {[1..n -> groups] : n \in 1..2}]

MCPacket ==
  MCPackets({"to_me", "overheard"}, MCGroup)
    \union MCPackets({"graft"}, MCGrafted)
    \union MCPackets({"graft_ack"}, MCAcked(1))
    \union [type : {"graft_ack"}, groups : [1..1 -> MCAcked(3)]]
=============================================================================
