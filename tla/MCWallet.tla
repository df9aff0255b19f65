------------------------------ MODULE MCWallet ------------------------------
(* Instances of Wallet for TLC. *)
EXTENDS Wallet, TLC

CONSTANTS u1, u2, r1, r2

\* One user opens with money and a row, the other with neither.
MCOpening == (u1 :> 3) @@ (u2 :> 0)

RequestSymmetry == Permutations({r1, r2})
=============================================================================
