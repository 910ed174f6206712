------------------------------ MODULE MCDataRelay ------------------------------
(* Two servers, two data publishers on the first and one on the second.  The id *)
(* of d2 is that of d1 and the byte that follows it in a datagram.              *)
EXTENDS DataRelay, TLC

CONSTANTS s1, s2, d1, d2, d3

Homes == d1 :> s1 @@ d2 :> s1 @@ d3 :> s2
Ids == d1 :> <<7>> @@ d2 :> <<7, 1>> @@ d3 :> <<9>>
Voices == d1 :> {<<1, 1>>, <<1, 2, 3>>} @@ d2 :> {<<2>>} @@ d3 :> {<<3>>}
OfTheFirst == [q \in Subscribers |-> {<<s1, d1>>, <<s2, d1>>}]

\* Bounds on what the browsers do, none of which is fair: after d1 there is d3, as
\* long as d1 has not been relayed, so that requests cross; or d2, which is the next to
\* be relayed once d1 has been and is heard on the other server, so that one router
\* has both.
Opens(d) == stage[d] = "none" /\ stage'[d] = "given"
Few ==
  /\ Opens(d3) => stage[d1] # "none" /\ loops[d1][s2] = 0 /\ calls < MaxCalls
  /\ Opens(d2) => /\ \E q \in Subscribers : sub[q].from = "relayed" /\ sub[q].state = "loop"
                 /\ loops[d1][s2] > 0 /\ stage[d3] = "none" /\ calls < MaxCalls
  /\ calls' > calls /\ stage[d2] # "none" => job'[d2].state = "sent"

FewSpec == Init /\ [][Next /\ Few]_vars /\ Fairness
=============================================================================
