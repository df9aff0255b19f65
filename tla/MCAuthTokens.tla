---------------------------- MODULE MCAuthTokens ----------------------------
(***************************************************************************)
(* One instance of AuthTokens: the administrator and a user, access tokens *)
(* of one second and refresh tokens of two.                                *)
(***************************************************************************)
EXTENDS AuthTokens, TLC

MCLife == [k \in Kinds |-> IF k = "access" THEN 1 ELSE 2]

AuthSymmetry == Permutations(Handlers)
=============================================================================
