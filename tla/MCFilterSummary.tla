-------------------------- MODULE MCFilterSummary --------------------------
(***************************************************************************)
(* Instances of FilterSummary for TLC.  The hashes collide at 16 and at 24 *)
(* bits in different ways, so that the widths matter.                      *)
(***************************************************************************)
EXTENDS FilterSummary

CONSTANTS a, b, c

MCRow ==
  [i \in 1 .. 5 |->
     CASE i = 1 -> [num |-> -4, lat |-> 0, lng |-> 6, str |-> a, set |-> {a}]
       [] i = 2 -> [num |-> 4, lat |-> 2, lng |-> Null, str |-> b, set |-> {b, c}]
       [] i = 3 -> [num |-> 8, lat |-> Null, lng |-> 2, str |-> Null, set |-> {}]
       [] i = 4 -> [num |-> 0, lat |-> 4, lng |-> 0, str |-> c, set |-> {a, b, c}]
       [] i = 5 -> [num |-> Null, lat |-> 0, lng |-> 2, str |-> b, set |-> Null]]

\* -0.5, 0.25, 1 and 1.5.
MCComparands == {-2, 1, 4, 6}

MCHash == [s \in {a, b, c} |-> CASE s = a -> 20 [] s = b -> 27 [] s = c -> 131100]
=============================================================================
