--------------------------- MODULE MCMapMatching ---------------------------
(***************************************************************************)
(* A street 1-2-3 with a way round it through 6, and a circle line of the  *)
(* metro with stops at 4, near the beginning of the street, at 5 and at 8, *)
(* near its end: a cycle way joins them, so that 8 can be left on foot but *)
(* not reached. The other way round the line does not stop at 5. With the  *)
(* other extract buses run in the street, to a stop beside it; it has no   *)
(* metro.                                                                  *)
(***************************************************************************)
EXTENDS MapMatching

MCNode == 1 .. 8

WithMetro ==
  [known |-> MCNode, enabled |-> {"car", "metro", "walk"},
   ways |-> <<[nodes |-> <<1, 2, 3>>, oneway |-> 0, modes |-> {"bike", "car", "walk"}],
              [nodes |-> <<1, 6, 3>>, oneway |-> -1, modes |-> {"car", "walk"}],
              [nodes |-> <<7, 4, 5, 8, 7>>, oneway |-> 0, modes |-> {}],
              [nodes |-> <<3, 8>>, oneway |-> 0, modes |-> {"bike"}]>>,
   name |-> [n \in MCNode |-> ToString(n)],
   close |-> [n \in MCNode |-> CASE n = 4 -> {1} [] n = 8 -> {3} [] OTHER -> {}],
   relations |->
     [bus |-> <<>>,
      metro |-> <<[ways |-> <<[way |-> 3, role |-> ""]>>,
                   stops |-> <<[node |-> 4, role |-> "forward"], [node |-> 4, role |-> "backward"],
                               [node |-> 5, role |-> "forward"], [node |-> 8, role |-> ""]>>]>>],
   beside |-> {}]

WithBus ==
  [known |-> MCNode \ {8}, enabled |-> {"bike", "bus", "walk"},
   ways |-> <<[nodes |-> <<6, 1, 2, 3>>, oneway |-> 1, modes |-> {"bike", "car", "walk"}],
              [nodes |-> <<1, 6, 3, 8>>, oneway |-> 0, modes |-> {"walk"}]>>,
   name |-> [n \in MCNode |-> ToString(n)],
   close |-> [n \in MCNode |-> {}],
   relations |->
     [bus |-> <<[ways |-> <<[way |-> 1, role |-> ""], [way |-> 9, role |-> ""]>>,
                 stops |-> <<[node |-> 1, role |-> ""], [node |-> 4, role |-> ""]>>]>>,
      metro |-> <<>>],
   beside |-> {[stop |-> 4, arc |-> <<2, 3>>, distance |-> 100],
               [stop |-> 4, arc |-> <<1, 2>>, distance |-> 200]}]

MCExtract == {WithMetro, WithBus}

BothWays(a) == {a, <<a[2], a[1]>>}

Seen(arcs, place, speed, slow) ==
  [near |-> IF slow THEN UNION {BothWays(a) : a \in arcs} ELSE arcs,
   around |-> UNION {BothWays(a) : a \in arcs}, place |-> place, speed |-> speed, slow |-> slow]

Kinds == {
  Seen({<<1, 2>>, <<1, 6>>}, 0, 5, FALSE),
  Seen({<<2, 3>>}, 2, 5, TRUE),
  Seen({<<2, 1>>, <<1, 4>>}, 1, 5, FALSE),
  Seen({<<4, 5>>, <<2, 3>>}, 2, 30, FALSE),
  Seen({<<3, 6>>, <<8, 7>>}, 4, 15, FALSE),
  Seen({}, 3, 30, FALSE)}

Trips(times) == {[k \in DOMAIN times |-> [time |-> times[k]] @@ s[k]] : s \in [DOMAIN times -> Kinds]}

\* A point every ten seconds; some at the same time.
MCTrip == Trips(<<0, 10, 20, 30>>) \cup Trips(<<0, 10, 10>>) \cup Trips(<<0, 0, 10>>)

MCLength == [a \in Arc |-> 1]
MCSecondsPer == [m \in Mode |-> 1]
=============================================================================
