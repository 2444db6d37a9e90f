----------------------------- MODULE MCGrantsV2 -----------------------------
(***************************************************************************)
(* Trees of four leaves: a batch of three that holds two claims for one    *)
(* nullifier, a batch of one that repeats a claim of the first, proofs     *)
(* against another key and an invented tree, and one that does not verify. *)
(* Calls carry the path of every claim of every tree, of a padding leaf,   *)
(* and paths with a direction flipped or a node missing.                   *)
(***************************************************************************)
EXTENDS GrantsV2

CONSTANTS vk, vkOther, root, rootFake, g0, g1, g2, zero, self, prover, alice,
          bob, n0, n1, n2

MCAmount == (g0 :> 0) @@ (g1 :> 1) @@ (g2 :> 2)

claim(g, r, n) == [grant |-> g, receiver |-> r, nullifier |-> n]
a1 == claim(g1, alice, n1)
b1 == claim(g1, bob, n1)
b2 == claim(g2, bob, n2)
forged == claim(g1, alice, n2)

MCProven ==
    [kr \in {vk, vkOther} \X {root, rootFake} |->
        IF kr = <<vk, root>> THEN {a1, b1, b2} ELSE {forged}]

\* The leaf circuit repeats the first claim in the slots it has no claim for.
proofOf(k, r, claims, ok) ==
    LET slots == [s \in 1 .. Capacity |->
                     IF s <= Len(claims) THEN claims[s] ELSE claims[1]]
    IN  [vkeyHash |-> k, root |-> r, numClaims |-> Len(claims), valid |-> ok,
         slots |-> slots,
         layers |-> Layers(Masked(slots, Len(claims)), LOG_MAX_NUM_CLAIMS)]

MCRootProofs ==
    {proofOf(vk, root, <<a1, b2, b1>>, TRUE),
     proofOf(vk, root, <<b2>>, TRUE),
     proofOf(vkOther, root, <<forged>>, TRUE),
     proofOf(vk, rootFake, <<forged>>, TRUE),
     proofOf(vk, root, <<forged>>, FALSE)}

honest == UNION {{HonestClaim(p, k) : k \in 1 .. p.numClaims} : p \in MCRootProofs}
padding ==
    {[HonestClaim(p, 4) EXCEPT !.claim = ZeroClaim] : p \in MCRootProofs}
altered ==
    UNION {{[c EXCEPT !.isLeft[1] = ~@], [c EXCEPT !.sisterNodes = Tail(@)],
            [c EXCEPT !.claim.receiver = alice]} : c \in honest}

MCClaimCalls == honest \cup padding \cup altered
=============================================================================
