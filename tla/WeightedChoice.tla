--------------------------- MODULE WeightedChoice ---------------------------
(***************************************************************************)
(* selectByWeight of the resolver plugin: the loop that takes the weights  *)
(* of the references from a random draw until it becomes negative.         *)
(***************************************************************************)
EXTENDS Integers, Sequences, FiniteSets

(* The weights of the first k references; disabled ones are skipped.       *)
WeightUpTo(refs, k) ==
    LET sum[i \in 0..Len(refs)] == IF i = 0 THEN 0 ELSE sum[i - 1] + refs[i].weight
    IN  sum[k]

TotalWeight(refs) == WeightUpTo(refs, Len(refs))

(* Mutant: stops at zero already.                                          *)
StopsEarly(refs, draw, k) == refs[k].weight > 0 /\ draw - WeightUpTo(refs, k) <= 0

(* The draw has become negative at the k-th reference.                     *)
Stops(refs, draw, k) == refs[k].weight > 0 /\ draw - WeightUpTo(refs, k) < 0

(* The reference that is returned: the first at which the loop stops, the  *)
(* last one of the list if it stops at none.                               *)
Selects(refs, draw, k) ==
    \/ Stops(refs, draw, k) /\ \A j \in 1..(k - 1) : ~Stops(refs, draw, j)
    \/ k = Len(refs) /\ \A j \in DOMAIN refs : ~Stops(refs, draw, j)

(* The draws, of the TotalWeight(refs) that are equally likely, that lead  *)
(* to a reference.                                                         *)
DrawsFor(refs, k) == {draw \in 0..(TotalWeight(refs) - 1) : Selects(refs, draw, k)}
=============================================================================
