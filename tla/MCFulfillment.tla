---------------------------- MODULE MCFulfillment ----------------------------
(***************************************************************************)
(* Two batches, one of two claims.  One person is in both, with the same   *)
(* nullifier and another receiver in each.                                 *)
(***************************************************************************)
EXTENDS Fulfillment

CONSTANTS r1, r2, alice, bob, carol, n1, n2

MCBatch ==
    [r \in Requests |->
        IF r = r1 THEN {[receiver |-> alice, nullifier |-> n1],
                        [receiver |-> bob, nullifier |-> n2]}
        ELSE {[receiver |-> carol, nullifier |-> n2]}]
=============================================================================
