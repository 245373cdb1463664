--------------------------- MODULE MCCollaboration ---------------------------
(* Change A has the revisions rA and rA2 on the first Project Revision,      *)
(* Change B has rB there and rB2 on the second.  rA and rB declare a common  *)
(* effect; the owner rule covers Change A; olga wrote A, vera verified it,   *)
(* rita is independent.  The review run asks what policy and review can do   *)
(* around one land call; the serial run what land calls can do to each       *)
(* other, without review.                                                    *)
EXTENDS Collaboration

CONSTANTS A, B, rA, rA2, rB, rB2, e, olga, vera, rita, owner, v1, v2

MCChanges == {A, B}
MCReviewed == {rA, rA2, rB}
MCSerial == {rA, rB, rB2}
MCChangeOf == [r \in Revisions |-> IF r \in {rB, rB2} THEN B ELSE A]
MCBaseOf == [r \in Revisions |-> IF r = rB2 THEN 1 ELSE 0]
MCEffects == [r \in Revisions |-> IF r \in {rA, rB} THEN {e} ELSE {}]
MCActors == {olga, vera, rita}
MCAuthorOf == [r \in Revisions |-> olga]
MCVerifiersOf == [r \in Revisions |-> {vera}]
MCRules == {owner}
MCAffected == [x \in Rules |-> {rA, rA2} \cap Revisions]
MCCandidates == [x \in Rules |-> {vera, rita}]
MCPolicies == {v1, v2}
MCNeedsEvidence == [v \in Policies |-> IF v = v1 THEN {} ELSE {rB} \cap Revisions]
=============================================================================
