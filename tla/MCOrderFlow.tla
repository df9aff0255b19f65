---------------------------- MODULE MCOrderFlow -----------------------------
(* Instances of OrderFlow and its refinement for TLC. *)
EXTENDS OrderRefinement, OrderClaims, TLC

CONSTANTS r1, r2, r3, r4, r5, o1, o2, p1, u1, u2

\* Two orders on one pig with two shares: one takes a single share, the other the
\* whole pig, so they exclude each other.  The first user can pay either order's
\* price more than once; the second has neither money nor a wallet row yet.
MCPigOf == (o1 :> p1) @@ (o2 :> p1)
MCOwner == (o1 :> u1) @@ (o2 :> u2)
MCShares == (o1 :> 1) @@ (o2 :> 2)
MCSingleShares == (o1 :> 1) @@ (o2 :> 1)
MCPrice == (o1 :> 1) @@ (o2 :> 2)
MCTotal == (p1 :> 2)
MCOpening == (u1 :> 3) @@ (u2 :> 0)

RequestSymmetry == Permutations(Requests)
=============================================================================
