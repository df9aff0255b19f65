---------------------------- MODULE MCPigCatalog ----------------------------
(***************************************************************************)
(* One instance of PigCatalog: a pig and two orders of two shares each,    *)
(* which sell a pig of four shares together and one of two shares alone.   *)
(***************************************************************************)
EXTENDS PigCatalog, TLC

CONSTANTS pig

MCPigOf == [o \in Orders |-> pig]
MCShares == [o \in Orders |-> 2]

PigSymmetry == Permutations(Handlers) \cup Permutations(Weights) \cup Permutations(Orders)
=============================================================================
