------------------------------ MODULE MCProxy ------------------------------
(* Instances of Proxy for TLC: two clients, two conversion services (0 and  *)
(* 1) and the service of the proxy itself (2).                              *)
EXTENDS Proxy, TLC

CONSTANTS c1, c2

MCClients  == {c1, c2}
OnlyServices == {0, 1}
FirstOrProxy == {0, 2}
OnlyFirst  == {0}
OnlySecond == {1}
Symmetry   == Permutations(MCClients)
=============================================================================
