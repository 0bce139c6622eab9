------------------------- MODULE MCStunTransaction -------------------------
(***************************************************************************)
(* An instance of StunTransaction for TLC: a pool with two transactions,   *)
(* of every pair of methods, and a server that changes its nonce twice.    *)
(***************************************************************************)
EXTENDS StunTransaction

CONSTANTS t1, t2

MCTrans == {t1, t2}
=============================================================================
