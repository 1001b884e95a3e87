--------------------------- MODULE MCPhyIdentify ---------------------------
(* Registers of each sort for every family, and five boards an ICH8 may be on. *)
EXTENDS PhyIdentify

Mdic(p, r) == [bus |-> "mdic", page |-> p, reg |-> r]
Kmrn(r) == [bus |-> "kmrn", page |-> 0, reg |-> r]
Id == {Mdic(0, PHY_ID1), Mdic(0, PHY_ID2)}

MCAddrs == 0 .. 2
MCOffsets ==
    [m88 |-> {Mdic(0, 1), Mdic(0, 20)},
     igp |-> Id \cup {Mdic(0, 16), Mdic(1, 16), Kmrn(3), Kmrn(5)},
     bm |-> Id \cup {Mdic(0, 16), Mdic(769, 16), Mdic(800, 1)},
     bm2 |-> {Mdic(0, 1), Mdic(1, 16), Mdic(800, 1)},
     gg82563 |-> {Mdic(0, 1), Mdic(1, 1), Mdic(2, 30)}]
IdLocations == MCAddrs \X {0} \X {PHY_ID1, PHY_ID2}
MCLocations == IdLocations \cup
    {<<2, 0, 1>>, <<1, 0, 1>>, <<1, 1, 1>>, <<1, 0, 16>>, <<2, 0, 16>>, <<1, 1, 16>>, <<2, 1, 16>>,
     <<1, 0, 20>>, <<1, 769, 16>>, <<1, 800, 1>>, <<1, 2, 30>>, <<KMRN, 0, 3>>, <<KMRN, 0, 5>>}
Board(at, id) == [l \in MCLocations |->
    IF l \in IdLocations THEN (IF l[1] \in at THEN id ELSE "junk") ELSE "a"]
NoId == Board({}, "junk")
MCPowerUp ==
    [igp |-> {Board({1}, "igp_3"), Board({1, 2}, "bm"), Board({2}, "bm"), Board({1}, "m88"), NoId},
     m88 |-> {NoId}, bm |-> {NoId}, bm2 |-> {NoId}, gg82563 |-> {NoId}]
\* Nothing is explored after an access that has ignored an error.
Explored == ignored => pc # "idle"
MCPages == [a \in MCAddrs |-> IF a = 0 THEN {} ELSE {1}]
=============================================================================
