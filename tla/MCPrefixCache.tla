--------------------------- MODULE MCPrefixCache ---------------------------
(* Instances of PrefixCache for TLC.                                       *)
EXTENDS PrefixCache

\* A tree of three levels whose lowest one has two siblings.
MCPrefix == {"p8", "p16", "p24", "q24"}
MCBitLen == [p \in MCPrefix |-> CASE p = "p8" -> 8 [] p = "p16" -> 16 [] OTHER -> 24]
MCAnc == [p \in MCPrefix |-> CASE p = "p8" -> {} [] p = "p16" -> {"p8"}
                               [] OTHER -> {"p8", "p16"}]

MCAS == {1, 2, 64496}
MCReserved == {64496}

Entry(p, a, m) == [prefix |-> p, as |-> a, maxLen |-> m]

\* ROAs at every level, with and without a maxLen that reaches further down,
\* and one of a reserved AS.
MCRoa == {Entry("p8", 1, 8), Entry("p8", 1, 24), Entry("p16", 2, 16),
          Entry("p16", 1, 24), Entry("p24", 2, 24), Entry("q24", 64496, 24)}

\* Two updates of one prefix from different ASs, one of the prefix above, one
\* of the sibling.
MCUpdate == {"u1", "u2", "u3", "u4"}
MCUpdPrefix == [u \in MCUpdate |-> CASE u = "u3" -> "p16" [] u = "u4" -> "q24"
                                     [] OTHER -> "p24"]
MCUpdAS == [u \in MCUpdate |-> IF u = "u2" THEN 2 ELSE 1]

\* A smaller instance, for ROAs that are announced twice.
SmallPrefix == {"p8", "p24"}
SmallBitLen == [p \in SmallPrefix |-> IF p = "p8" THEN 8 ELSE 24]
SmallAnc == [p \in SmallPrefix |-> IF p = "p8" THEN {} ELSE {"p8"}]
SmallRoa == {Entry("p8", 1, 24), Entry("p8", 2, 24)}
SmallUpdate == {"u1", "u2"}
SmallUpdPrefix == [u \in SmallUpdate |-> "p24"]
SmallUpdAS == [u \in SmallUpdate |-> 1]
=============================================================================
