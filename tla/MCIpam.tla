------------------------------- MODULE MCIpam -------------------------------
(* Ipam with three bits of address space.                                  *)
EXTENDS Ipam, TLC

(* Requests ask for the whole space, a quarter of each half and a network  *)
(* in the first of them; the address lies in all but one.                  *)
MCNetwork ==
    {[bits |-> <<0, 0, 0>>, len |-> l] : l \in {0, 2, 3}}
    \cup {[bits |-> <<1, 0, 0>>, len |-> 2]}

MCHost == {[bits |-> <<0, 0, 0>>, len |-> 3]}

MCStart == [p \in Resource |-> [bits |-> <<0, 0, 0>>, len |-> 0]]

Symmetry == Permutations(Request)
=============================================================================
