---------------------------- MODULE MCAddressBook ----------------------------
(* Instances of AddressBook for TLC. *)
EXTENDS AddressBook, TLC

CONSTANTS u1, u2, r1, r2, r3, r4, r5

RequestSymmetry == Permutations(Requests)
=============================================================================
