---------------------------- MODULE MCAspaCache ----------------------------
(* Instances of AspaCache for TLC.                                         *)
EXTENDS AspaCache, TLC

O(c, ps) == [customer |-> c, providers |-> ps, afi |-> 1]

\* All updates have one path with the origin 1.
MCPathOf == [u \in Update |-> <<3, 2, 1>>]
MCTypeOf == [p \in {<<3, 2, 1>>} |-> "AS_SEQUENCE"]

UpdatesAlike == Permutations(Update)

\* Objects with and without the neighbour on the path.
MCObject == {O(1, {2}), O(1, {3}), O(2, {3})}
=============================================================================
