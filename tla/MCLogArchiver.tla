--------------------------- MODULE MCLogArchiver ---------------------------
(* Instances of LogArchiver for TLC.                                       *)
EXTENDS LogArchiver, TLC

(* Everything, one entry at a time: both pages of two; a part of it; all   *)
(* of it at once; and a page there is not.                                 *)
Asking == {[from |-> 0, to |-> Until, page |-> 1, limit |-> 1],
           [from |-> 0, to |-> Until, page |-> 2, limit |-> 1],
           [from |-> 1, to |-> Until, page |-> 1, limit |-> 2],
           [from |-> 0, to |-> Until, page |-> 0, limit |-> 0],
           [from |-> 0, to |-> Until, page |-> 0, limit |-> 1]}

Symmetry == Permutations(Run)
============================================================================
