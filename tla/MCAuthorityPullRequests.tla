----------------------- MODULE MCAuthorityPullRequests -----------------------
(* Small instances of AuthorityPullRequests for TLC. *)
EXTENDS AuthorityPullRequests, TLC

CONSTANTS a, b, p0, p1, w1, w2, c1, r1, r2, x1, k1, d1, d2, g0

\* Deliveries are only ever picked by \E; ids of the Realm are not symmetric.
DeliverySymmetry == Permutations(Deliveries)
=============================================================================
