-------------------------- MODULE MCClientRegistry --------------------------
(* Instances of ClientRegistry for TLC.                                    *)
EXTENDS ClientRegistry, TLC

\* Client 1 is configured for proxy 1; client 2 is free.
MCProxy == {1, 2}
MCConfigured == <<1, 0>>
NoneConfigured == [i \in ClientID |-> 0]

Symm == Permutations(Conn)
=============================================================================
