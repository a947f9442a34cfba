-------------------------- MODULE MCKeyValidation --------------------------
(* Instances of KeyValidation for TLC.                                     *)
EXTENDS KeyValidation

K(a, s, d) == [asn |-> a, ski |-> s, der |-> d]
Block(alg, s) == [algo |-> alg, ski |-> s]

\* Three ASs of one bucket with a key each.  The first update has a second
\* block of another algorithm, the second one crosses its path.
MCKey == {K(1, "s1", "d1"), K(2, "s2", "d2"), K(3, "s3", "d3")}
MCUpdate == {"u1", "u2"}
MCPath == [u \in MCUpdate |-> IF u = "u1" THEN <<1, 2>> ELSE <<3, 2>>]
MCBlocks == [u \in MCUpdate |->
  IF u = "u1" THEN <<Block(1, <<"s1", "s2">>), Block(2, <<"s3", "s1">>)>>
  ELSE <<Block(1, <<"s3", "s2">>)>>]
MCSigned == [u \in MCUpdate |-> IF u = "u1" THEN <<"d1", "d2">> ELSE <<"d3", "d2">>]

\* A key that both updates need is announced twice.
MCMaxCount == [k \in MCKey |-> IF k.asn = 2 THEN 2 ELSE 1]

\* The proofs' hypotheses hold of this instance.
ASSUME MCProofsApply == OneKeyPerAS /\ ECDSAFirst /\ NoCounterWrap
=============================================================================
