--------------------------- MODULE MCDomainSearch ---------------------------
(***************************************************************************)
(* Four nodes: a direct road 1-4 beside chains through 2 and 3, a two-way  *)
(* pair 2-3, and a way back. Roads of lengths 1 to 5 make a node be        *)
(* reached by a long road first and be corrected after it was expanded.    *)
(***************************************************************************)
EXTENDS DomainSearch

MCNode == 1 .. 4
MCUp   == <<1, 1, 2, 3, 1, 3, 4, 2>>
MCDown == <<2, 3, 3, 2, 4, 4, 2, 4>>
MCRoad == 1 .. 8

Lengths == {<<a, b, c, 1, 5, d, 1, 1>> : a \in {1, 4}, b \in {1, 2, 5}, c \in {1, 2}, d \in {1, 3}}

MCQuery == [length : Lengths, roots : {<<1>>, <<2>>, <<1, 3>>}, domain : {{3, 6}, {5, 7}}, ceil : {0, 2, 4, 50}]
=============================================================================
