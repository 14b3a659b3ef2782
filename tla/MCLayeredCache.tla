---------------------------- MODULE MCLayeredCache ----------------------------
(* Safety of LayeredCache with interchangeable callers, elements, values and   *)
(* keys.  What an excused key was last given is nowhere read, so states that   *)
(* differ in it only are one.                                                  *)
EXTENDS LayeredCache

Symmetry == Permutations(Callers) \cup Permutations(Slots)
              \cup Permutations(Values) \cup Permutations(Keys)

View == <<l1, l2, op, excused,
          [k \in Keys \ excused |-> last[k]], [k \in Keys \ excused |-> due[k]]>>
===============================================================================
