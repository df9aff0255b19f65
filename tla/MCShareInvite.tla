---------------------------- MODULE MCShareInvite ----------------------------
(***************************************************************************)
(* One instance of ShareInvite: the owner of every order and a guest.      *)
(***************************************************************************)
EXTENDS ShareInvite, TLC

CONSTANTS owner, guest

MCUsers == {owner, guest}
MCHostOf == [o \in Orders |-> owner]

ShareSymmetry == Permutations(Codes) \cup Permutations(Handlers)
=============================================================================
