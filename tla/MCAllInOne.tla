----------------------------- MODULE MCAllInOne -----------------------------
(* AllInOne for TLC: two clients and one source.                            *)
EXTENDS AllInOne

CONSTANTS a, b

TwoClients   == {a, b}
OnlyKeyboard == {"keyboard"}
OnlyFifo     == {"P2"}
=============================================================================
