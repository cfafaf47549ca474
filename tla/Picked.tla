-------------------------------- MODULE Picked --------------------------------
(* The elements of a sequence at positions of a set, in their order: what      *)
(* Array.prototype.filter keeps.  SelectSeq of the standard module does the    *)
(* same, by recursion and with an operator for its parameter; here the         *)
(* positions are a set, of which facts can be stated and proved.               *)
EXTENDS Naturals, FiniteSets

\* How many of the positions come no later than i.
RankIn(P, i) == Cardinality({j \in P : j <= i})

NthOf(P, k) == CHOOSE i \in P : RankIn(P, i) = k

Picked(s, P) == [k \in 1..Cardinality(P) |-> s[NthOf(P, k)]]
===============================================================================
