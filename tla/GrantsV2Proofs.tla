--------------------------- MODULE GrantsV2Proofs ---------------------------
(***************************************************************************)
(* Theorems about WorldcoinAggregationV2, for every set of grants,         *)
(* accounts, nullifiers, proofs and calldata, and every tree depth.        *)
(***************************************************************************)
EXTENDS GrantsV2, DataLemmas

-----------------------------------------------------------------------------
(* The chain's own steps.                                                  *)

\* A transfer moves what CanTransfer allows and keeps balances natural.
LEMMA TransferTyped ==
    ASSUME ChainAssumption, wld \in [Addresses -> Nat], NEW to \in Addresses,
           NEW amount \in Nat, CanTransfer(amount), Transfer(to, amount)
    PROVE  wld' \in [Addresses -> Nat]
  BY DEF ChainAssumption, CanTransfer, Transfer

\* Whatever moves outside the contract keeps the chain's types.
LEMMA ChainStepTyped == ASSUME ChainTypeOK, ChainNext PROVE ChainTypeOK'
  <1> USE ChainAssumption DEF ChainTypeOK
  <1>1. CASE \E amount \in 1 .. MaxSupply : Fund(amount)
    BY <1>1 DEF Fund
  <1>2. CASE \E r \in Roots : RootAppears(r) \/ RootExpires(r)
    BY <1>2 DEF RootAppears, RootExpires
  <1>3. CASE \E g \in Grants : GrantOpens(g) \/ GrantCloses(g)
    BY <1>3 DEF GrantOpens, GrantCloses
  <1>4. QED
    BY <1>1, <1>2, <1>3 DEF ChainNext

-----------------------------------------------------------------------------
(* Type correctness.                                                       *)

LEMMA TypeInit == Init => TypeOK
  BY ChainAssumption, ProofAssumption
  DEF Init, ChainInit, TypeOK, ChainTypeOK, NoCall

LEMMA TypeStep == TypeOK /\ [Next]_vars => TypeOK'
  <1> SUFFICES ASSUME TypeOK, [Next]_vars PROVE TypeOK'
    OBVIOUS
  <1> USE DEF TypeOK, ChainTypeOK
  <1>1. ASSUME NEW sender \in Addresses, NEW p \in RootProofs,
               ValidateClaimsRoot(sender, p)
        PROVE  TypeOK'
    BY <1>1 DEF ValidateClaimsRoot, chainVars, contractVars, txVars
  <1>2. ASSUME NEW c \in ClaimCalls, BeginClaim(c) PROVE TypeOK'
    BY <1>2, ProofAssumption
    DEF BeginClaim, Admits, ProofAssumption, chainVars, contractVars
  <1>3. CASE HashStep
    BY <1>3, ProofAssumption
    DEF HashStep, LoopDone, ProofAssumption, chainVars, contractVars
  <1>4. CASE PayClaim
    <2>1. call.claim \in Claims
      BY <1>4, ProofAssumption DEF PayClaim, ProofAssumption, IsClaimCall
    <2>2. /\ call.claim.grant \in Grants /\ call.claim.receiver \in Addresses
          /\ call.claim.nullifier \in Nullifiers
      BY <2>1 DEF Claims
    <2>3. wld' \in [Addresses -> Nat]
      BY <1>4, <2>2, TransferTyped, ChainAssumption
      DEF PayClaim, Pay, ChainAssumption
    <2>4. claimed' \in Seq(Claims) /\ nullifierHashes' \subseteq Nullifiers
      BY <1>4, <2>1, <2>2 DEF PayClaim, Pay
    <2>5. QED
      BY <1>4, <2>3, <2>4 DEF PayClaim
  <1>5. CASE RevertClaim
    BY <1>5 DEF RevertClaim, chainVars, contractVars
  <1>6. CASE Environment
    BY <1>6, ChainStepTyped DEF Environment, contractVars, txVars
  <1>7. CASE UNCHANGED vars
    BY <1>7 DEF vars, chainVars, contractVars, txVars
  <1>8. QED
    BY <1>1, <1>2, <1>3, <1>4, <1>5, <1>6, <1>7 DEF Next

\* Balances stay natural, marks and log typed, the loop index within the path.
THEOREM TypeCorrect == Spec => []TypeOK
  BY TypeInit, TypeStep, PTL DEF Spec

-----------------------------------------------------------------------------
(* The tree.                                                               *)

\* Climbing from a hash that is not in a level never enters the next one.
LEMMA ClimbStaysOutside ==
    ASSUME NEW nodes, NEW r, NEW s, NEW left \in BOOLEAN,
           DOMAIN nodes = 1 .. Len(nodes), Len(nodes) \in Nat, ~IsIn(r, nodes)
    PROVE  ~IsIn(Climb(r, s, left), Level(nodes))
  <1> SUFFICES ASSUME NEW k \in DOMAIN Level(nodes),
                      Level(nodes)[k] = Climb(r, s, left)
               PROVE  FALSE
    BY DEF IsIn
  <1>1. k \in 1 .. Len(nodes) \div 2
    BY DEF Level
  <1>2. 2 * k - 1 \in DOMAIN nodes /\ 2 * k \in DOMAIN nodes
    BY <1>1
  <1>3. Level(nodes)[k] = <<nodes[2 * k - 1], nodes[2 * k]>>
    BY <1>1 DEF Level, Node
  <1>4. r = nodes[2 * k - 1] \/ r = nodes[2 * k]
    BY <1>3 DEF Climb, Node
  <1>5. QED
    BY <1>2, <1>4 DEF IsIn

\* Every layer of a tree is a sequence: by induction on the layer.
IsSequence(nodes) == Len(nodes) \in Nat /\ DOMAIN nodes = 1 .. Len(nodes)
LEMMA LayersAreSequences ==
    ASSUME NEW p \in RootProofs, p.valid
    PROVE  \A d \in 0 .. LOG_MAX_NUM_CLAIMS : IsSequence(p.layers[d + 1])
  <1> DEFINE good == {d \in Nat : IsSequence(p.layers[d + 1])}
  <1>1. /\ p.layers[1] = Masked(p.slots, p.numClaims)
        /\ \A d \in 1 .. LOG_MAX_NUM_CLAIMS : p.layers[d + 1] = Level(p.layers[d])
    BY ProofAssumption DEF ProofAssumption, SnarkSound, IsTree
  <1>2. LOG_MAX_NUM_CLAIMS \in Nat
    BY ProofAssumption DEF ProofAssumption
  <1>3. 0 \in good
    <2>1. p.slots \in Seq(Claims)
      BY ProofAssumption DEF ProofAssumption, IsRootProof
    <2>2. Len(p.slots) \in Nat /\ DOMAIN p.slots = 1 .. Len(p.slots)
      BY <2>1, LenProperties
    <2>3. p.layers[1] = [k \in 1 .. Len(p.slots) |-> p.layers[1][k]]
      BY <1>1, <2>2 DEF Masked, MaskedLeaves
    <2>4. IsSequence(p.layers[1])
      BY <2>2, <2>3, FunctionLength DEF IsSequence
    <2>5. QED
      BY <2>4
  <1>4. ASSUME NEW d \in 0 .. LOG_MAX_NUM_CLAIMS, d \in good, d # LOG_MAX_NUM_CLAIMS
        PROVE  d + 1 \in good
    <2> DEFINE nodes == p.layers[d + 1]
               half == Len(nodes) \div 2
    <2>1. IsSequence(nodes)
      BY <1>4
    <2>2. half \in Nat
      BY <2>1, HalfOfNumber DEF IsSequence
    <2>3. d + 1 \in 1 .. LOG_MAX_NUM_CLAIMS
      BY <1>2, <1>4
    <2>4. p.layers[(d + 1) + 1] = Level(nodes)
      BY <1>1, <2>3
    <2>5. Level(nodes) = [k \in 1 .. half |-> Level(nodes)[k]]
      BY DEF Level
    <2>6. IsSequence(Level(nodes))
      BY <2>2, <2>5, FunctionLength DEF IsSequence
    <2>7. QED
      BY <1>4, <2>4, <2>6
  <1> HIDE DEF good
  <1>5. \A d \in 0 .. LOG_MAX_NUM_CLAIMS : d \in good
    BY <1>2, <1>3, <1>4, InductionTo
  <1>6. QED
    BY <1>5 DEF good

\* A leaf of an accepted proof's tree that digests a claim to a real receiver
\* digests one of the claims that count.
LEMMA LeafIsCommitted ==
    ASSUME NEW p \in RootProofs, p.valid, NEW c \in Claims,
           c.receiver # ZeroAddress, IsIn(Leaf(c), p.layers[1])
    PROVE  c \in CommittedIn(p)
  <1>1. p.layers[1] = Masked(p.slots, p.numClaims)
    BY ProofAssumption DEF ProofAssumption, SnarkSound, IsTree
  <1>2. /\ p.slots \in Seq(Claims) /\ p.numClaims \in Nat
        /\ DOMAIN p.slots = 1 .. Len(p.slots) /\ Len(p.slots) \in Nat
    BY ProofAssumption, LenProperties DEF ProofAssumption, IsRootProof
  <1>3. PICK k \in DOMAIN p.slots :
            Leaf(IF k <= p.numClaims THEN p.slots[k] ELSE ZeroClaim) = Leaf(c)
    BY <1>1 DEF Masked, MaskedLeaves, IsIn
  <1>4. c = IF k <= p.numClaims THEN p.slots[k] ELSE ZeroClaim
    BY <1>3 DEF Leaf
  <1>5. k <= p.numClaims
    BY <1>4 DEF ZeroClaim
  <1>6. k \in 1 .. p.numClaims
    BY <1>2, <1>5
  <1>7. QED
    BY <1>4, <1>5, <1>6 DEF CommittedIn

-----------------------------------------------------------------------------
(* The inductive invariant.                                                *)

IInv ==
    /\ TypeOK
    /\ OneGrantPerNullifier
    /\ NullifierIffPaid
    /\ PaidOnlyIfCommitted
    /\ RootsFromProofs
    /\ PathOutside

\* Recorded pairs are never removed, so recorded proofs stay recorded.
LEMMA RecordedGrows ==
    ASSUME validClaimsRoots \subseteq validClaimsRoots'
    PROVE  Recorded \subseteq Recorded'
  BY DEF Recorded, ClaimsRoot, RootOf

LEMMA PaymentIsCommitted ==
    ASSUME IInv, PayClaim
    PROVE  \E p \in Recorded : call.claim \in CommittedIn(p)
  <1>1. /\ phase = "path" /\ LoopDone /\ RootRecorded
        /\ call \in ClaimCalls /\ Len(call.sisterNodes) = LOG_MAX_NUM_CLAIMS
        /\ i = LOG_MAX_NUM_CLAIMS
    BY DEF PayClaim, IInv, TypeOK, LoopDone
  <1>2. PICK p \in Recorded : <<call.root, runningHash>> = <<p.root, ClaimsRoot(p)>>
    BY <1>1 DEF IInv, RootsFromProofs, RootRecorded
  <1>3. p \in RootProofs /\ p.valid
    BY DEF Recorded
  <1>4. /\ Len(p.layers) = LOG_MAX_NUM_CLAIMS + 1
        /\ Len(p.layers[LOG_MAX_NUM_CLAIMS + 1]) = 1
    BY <1>3, ProofAssumption DEF ProofAssumption, SnarkSound, IsTree
  <1>5. runningHash = p.layers[LOG_MAX_NUM_CLAIMS + 1][1]
    BY <1>2, <1>4 DEF ClaimsRoot, RootOf
  <1>6. DOMAIN p.layers[LOG_MAX_NUM_CLAIMS + 1] = 1 .. 1
    <2>1. LOG_MAX_NUM_CLAIMS \in 0 .. LOG_MAX_NUM_CLAIMS
      BY ProofAssumption DEF ProofAssumption
    <2>2. IsSequence(p.layers[LOG_MAX_NUM_CLAIMS + 1])
      BY <1>3, <2>1, LayersAreSequences
    <2>3. QED
      BY <1>4, <2>2 DEF IsSequence
  <1>7. IsIn(runningHash, p.layers[i + 1])
    BY <1>1, <1>5, <1>6 DEF IsIn
  <1>8. IsIn(Leaf(call.claim), p.layers[1]) /\ call.claim.receiver # ZeroAddress
    BY <1>1, <1>3, <1>7 DEF IInv, PathOutside
  <1>9. call.claim \in Claims
    BY <1>1, ProofAssumption DEF ProofAssumption, IsClaimCall
  <1>10. call.claim \in CommittedIn(p)
    BY <1>3, <1>8, <1>9, LeafIsCommitted
  <1>11. QED
    BY <1>10

\* A proof is recorded only if it satisfies what Recorded asks.
LEMMA InvValidate ==
    ASSUME IInv, NEW sender \in Addresses, NEW q \in RootProofs,
           ValidateClaimsRoot(sender, q)
    PROVE  IInv'
  <1>1. TypeOK'
    BY TypeStep DEF IInv, Next
  <1>2. /\ validClaimsRoots' = validClaimsRoots \cup {<<q.root, ClaimsRoot(q)>>}
        /\ claimed' = claimed /\ nullifierHashes' = nullifierHashes
        /\ phase' = phase /\ call' = call /\ i' = i /\ runningHash' = runningHash
    BY DEF ValidateClaimsRoot, contractVars, txVars
  <1>3. Recorded \subseteq Recorded'
    BY <1>2, RecordedGrows
  <1>4. q \in Recorded'
    BY <1>2 DEF ValidateClaimsRoot, AcceptsRoot, IInv, TypeOK, ChainTypeOK,
                Recorded, ClaimsRoot, RootOf
  <1>5. RootsFromProofs'
    <2> SUFFICES ASSUME NEW pair \in validClaimsRoots'
                 PROVE  \E p \in Recorded' : pair = <<p.root, ClaimsRoot(p)>>
      BY DEF RootsFromProofs, ClaimsRoot, RootOf
    <2>1. CASE pair \in validClaimsRoots
      BY <1>3, <2>1 DEF IInv, RootsFromProofs
    <2>2. CASE pair = <<q.root, ClaimsRoot(q)>>
      BY <1>4, <2>2
    <2>3. QED
      BY <1>2, <2>1, <2>2
  <1>6. PaidOnlyIfCommitted'
    BY <1>2, <1>3 DEF IInv, PaidOnlyIfCommitted, CommittedIn
  <1>7. PathOutside'
    BY <1>2 DEF IInv, PathOutside, IsIn, Leaf
  <1>8. OneGrantPerNullifier' /\ NullifierIffPaid'
    BY <1>2 DEF IInv, OneGrantPerNullifier, NullifierIffPaid, PaidOnce, NullifiersOf
  <1>9. QED
    BY <1>1, <1>5, <1>6, <1>7, <1>8 DEF IInv

\* Steps that leave the recorded roots and the log alone.
Untouched ==
    validClaimsRoots' = validClaimsRoots /\ claimed' = claimed
      /\ nullifierHashes' = nullifierHashes
LEMMA InvUntouched ==
    ASSUME IInv, TypeOK', Untouched, PathOutside'
    PROVE  IInv'
  <1>1. Recorded' = Recorded
    BY DEF Untouched, Recorded, ClaimsRoot, RootOf
  <1>2. OneGrantPerNullifier' /\ NullifierIffPaid'
    BY DEF IInv, Untouched, OneGrantPerNullifier, NullifierIffPaid, PaidOnce,
           NullifiersOf
  <1>3. PaidOnlyIfCommitted'
    BY <1>1 DEF IInv, Untouched, PaidOnlyIfCommitted, CommittedIn
  <1>4. RootsFromProofs'
    BY <1>1 DEF IInv, Untouched, RootsFromProofs, ClaimsRoot, RootOf
  <1>5. QED
    BY <1>2, <1>3, <1>4 DEF IInv

LEMMA InvBegin == ASSUME IInv, NEW c \in ClaimCalls, BeginClaim(c) PROVE IInv'
  <1>1. TypeOK'
    BY TypeStep DEF IInv, Next
  <1>2. Untouched
    BY DEF BeginClaim, Untouched, contractVars
  <1>3. PathOutside'
    BY DEF BeginClaim, Admits, PathOutside, contractVars
  <1>4. QED
    BY <1>1, <1>2, <1>3, InvUntouched

LEMMA InvHash == ASSUME IInv, HashStep PROVE IInv'
  <1>1. TypeOK'
    BY TypeStep DEF IInv, Next
  <1>2. Untouched
    BY DEF HashStep, Untouched, contractVars
  <1>3. /\ call' = call /\ i' = i + 1 /\ phase = "path" /\ phase' = "path"
        /\ runningHash' = Climb(runningHash, call.sisterNodes[i + 1],
                                call.isLeft[i + 1])
    BY DEF HashStep
  <1>4. i + 1 \in 1 .. LOG_MAX_NUM_CLAIMS
    BY ProofAssumption DEF ProofAssumption, IInv, TypeOK, HashStep, LoopDone
  <1>5. call.isLeft[i + 1] \in BOOLEAN
    BY <1>3, <1>4, ProofAssumption DEF ProofAssumption, IInv, TypeOK, IsClaimCall
  <1>6. ASSUME NEW p \in RootProofs, p.valid, ~IsIn(Leaf(call.claim), p.layers[1])
        PROVE  ~IsIn(runningHash', p.layers[(i + 1) + 1])
    <2>1. ~IsIn(runningHash, p.layers[i + 1])
      BY <1>3, <1>6 DEF IInv, PathOutside
    <2>2. i \in 0 .. LOG_MAX_NUM_CLAIMS
      BY DEF IInv, TypeOK
    <2>3. IsSequence(p.layers[i + 1])
      BY <1>6, <2>2, LayersAreSequences
    <2>4. p.layers[(i + 1) + 1] = Level(p.layers[i + 1])
      BY <1>4, <1>6, ProofAssumption DEF ProofAssumption, SnarkSound, IsTree
    <2>5. ~IsIn(Climb(runningHash, call.sisterNodes[i + 1], call.isLeft[i + 1]),
                Level(p.layers[i + 1]))
      BY <1>5, <2>1, <2>3, ClimbStaysOutside DEF IsSequence
    <2>6. QED
      BY <1>3, <2>4, <2>5
  <1>7. /\ call.claim.receiver # ZeroAddress
        /\ call.claim.nullifier \notin nullifierHashes
    BY <1>3 DEF IInv, PathOutside
  <1>8. PathOutside'
    BY <1>2, <1>3, <1>6, <1>7 DEF PathOutside, Untouched
  <1>9. QED
    BY <1>1, <1>2, <1>8, InvUntouched

LEMMA InvPayClaim == ASSUME IInv, PayClaim PROVE IInv'
  <1>1. TypeOK'
    BY TypeStep DEF IInv, Next
  <1>2. /\ nullifierHashes' = nullifierHashes \cup {call.claim.nullifier}
        /\ claimed' = Append(claimed, call.claim)
        /\ validClaimsRoots' = validClaimsRoots
        /\ phase = "path" /\ phase' = "idle"
    BY DEF PayClaim, Pay
  <1>3. /\ call.claim \in Claims /\ claimed \in Seq(Claims)
        /\ call.claim.nullifier \notin nullifierHashes
    BY <1>2, ProofAssumption
    DEF ProofAssumption, IsClaimCall, IInv, TypeOK, PathOutside
  <1>4. PaidOnce(claimed) /\ nullifierHashes = NullifiersOf(claimed)
    BY DEF IInv, OneGrantPerNullifier, NullifierIffPaid
  <1>5. /\ PaidOnce(Append(claimed, call.claim))
        /\ NullifiersOf(Append(claimed, call.claim))
             = NullifiersOf(claimed) \cup {call.claim.nullifier}
    BY <1>3, <1>4, AppendPaidOnce
  <1>6. OneGrantPerNullifier' /\ NullifierIffPaid'
    BY <1>2, <1>4, <1>5
    DEF OneGrantPerNullifier, NullifierIffPaid, PaidOnce, NullifiersOf
  <1>7. Recorded' = Recorded
    BY <1>2 DEF Recorded, ClaimsRoot, RootOf
  <1>8. PaidOnlyIfCommitted'
    <2>1. /\ DOMAIN claimed' = 1 .. (Len(claimed) + 1)
          /\ DOMAIN claimed = 1 .. Len(claimed)
          /\ \A k \in 1 .. Len(claimed) : claimed'[k] = claimed[k]
          /\ claimed'[Len(claimed) + 1] = call.claim
          /\ Len(claimed) \in Nat
      BY <1>2, <1>3, AppendAt
    <2>2. \A k \in 1 .. Len(claimed) : \E p \in Recorded : claimed[k] \in CommittedIn(p)
      BY <2>1 DEF IInv, PaidOnlyIfCommitted
    <2>3. \E p \in Recorded : call.claim \in CommittedIn(p)
      BY PaymentIsCommitted
    <2>4. \A k \in 1 .. (Len(claimed) + 1) : k \in 1 .. Len(claimed) \/ k = Len(claimed) + 1
      BY <2>1
    <2>5. \A k \in DOMAIN claimed' : \E p \in Recorded : claimed'[k] \in CommittedIn(p)
      BY <2>1, <2>2, <2>3, <2>4
    <2>6. QED
      BY <1>7, <2>5 DEF PaidOnlyIfCommitted, CommittedIn
  <1>9. RootsFromProofs' /\ PathOutside'
    BY <1>2, <1>7 DEF IInv, RootsFromProofs, PathOutside, ClaimsRoot, RootOf
  <1>10. QED
    BY <1>1, <1>6, <1>8, <1>9 DEF IInv

LEMMA InvInit == Init => IInv
  <1>1. Init => TypeOK
    BY TypeInit
  <1>2. Init => OneGrantPerNullifier /\ NullifierIffPaid /\ PaidOnlyIfCommitted
    BY DEF Init, OneGrantPerNullifier, PaidOnce, NullifierIffPaid, NullifiersOf,
           PaidOnlyIfCommitted
  <1>3. Init => RootsFromProofs /\ PathOutside
    BY DEF Init, RootsFromProofs, PathOutside
  <1>4. QED
    BY <1>1, <1>2, <1>3 DEF IInv

LEMMA InvStep == IInv /\ [Next]_vars => IInv'
  <1> SUFFICES ASSUME IInv, [Next]_vars PROVE IInv'
    OBVIOUS
  <1>0. TypeOK'
    BY TypeStep DEF IInv
  <1>1. ASSUME NEW sender \in Addresses, NEW p \in RootProofs,
               ValidateClaimsRoot(sender, p)
        PROVE  IInv'
    BY <1>1, InvValidate
  <1>2. ASSUME NEW c \in ClaimCalls, BeginClaim(c) PROVE IInv'
    BY <1>2, InvBegin
  <1>3. CASE HashStep
    BY <1>3, InvHash
  <1>4. CASE PayClaim
    BY <1>4, InvPayClaim
  <1>5. CASE RevertClaim
    <2>1. Untouched /\ PathOutside'
      BY <1>5 DEF RevertClaim, Untouched, PathOutside, contractVars
    <2>2. QED
      BY <1>0, <2>1, InvUntouched
  <1>6. CASE Environment \/ UNCHANGED vars
    <2>1. /\ Untouched /\ call' = call /\ i' = i /\ phase' = phase
          /\ runningHash' = runningHash
      BY <1>6 DEF Environment, Untouched, contractVars, txVars, vars
    <2>2. PathOutside'
      BY <2>1 DEF IInv, PathOutside, Untouched
    <2>3. QED
      BY <1>0, <2>1, <2>2, InvUntouched
  <1>7. QED
    BY <1>1, <1>2, <1>3, <1>4, <1>5, <1>6 DEF Next

LEMMA Invariance == Spec => []IInv
  BY InvInit, InvStep, PTL DEF Spec

-----------------------------------------------------------------------------
(* The results.                                                            *)

\* No nullifier is paid twice, however many recorded trees hold a claim for it
\* (claim's NullifierHashAlreadyUsed, WorldcoinAggregationV2.sol:144).
THEOREM NoDoublePayment == Spec => []OneGrantPerNullifier
  <1>1. IInv => OneGrantPerNullifier
    BY DEF IInv
  <1>2. QED
    BY <1>1, Invariance, PTL

\* A nullifier is marked exactly when a claim for it was paid: neither order of
\* mark and transfer, nor a revert between them, can tell the two apart.
THEOREM MarkedIffPaid == Spec => []NullifierIffPaid
  <1>1. IInv => NullifierIffPaid
    BY DEF IInv
  <1>2. QED
    BY <1>1, Invariance, PTL

\* For trees of any depth and any path a sender may submit, the claim paid is
\* one of those that count in a recorded tree (WorldcoinAggregationV2.sol:148-168).
THEOREM OnlyCommittedClaimsPaid == Spec => []PaidOnlyIfCommitted
  <1>1. IInv => PaidOnlyIfCommitted
    BY DEF IInv
  <1>2. QED
    BY <1>1, Invariance, PTL

\* One payment is a step of the abstract ledger.
LEMMA PaymentPays ==
  ASSUME IInv, PayClaim
  PROVE  Ledger!Next
  <1> DEFINE B == {call.claim}
             paid == {claimed[j] : j \in DOMAIN claimed}
  <1>1. PICK p \in Recorded : call.claim \in CommittedIn(p)
    BY PaymentIsCommitted
  <1>2. call.claim \in Proven[<<p.vkeyHash, p.root>>]
    BY <1>1, ProofAssumption DEF Recorded, CommittedIn, SnarkSound
  <1>3. call.claim \in EligibleClaims
    BY <1>1, <1>2 DEF EligibleClaims, Recorded
  <1>4. /\ call.claim.receiver # ZeroAddress
        /\ call.claim.nullifier \notin nullifierHashes
    BY DEF IInv, PathOutside, PayClaim
  <1>5. \A q \in paid : call.claim.nullifier # q.nullifier
    BY <1>4 DEF IInv, NullifierIffPaid, NullifiersOf
  <1>6. claimed \in Seq(Claims) /\ claimed' = Append(claimed, call.claim)
    BY DEF IInv, TypeOK, PayClaim, Pay
  <1>7. /\ DOMAIN claimed' = DOMAIN claimed \cup {Len(claimed) + 1}
        /\ \A j \in DOMAIN claimed : claimed'[j] = claimed[j]
        /\ claimed'[Len(claimed) + 1] = call.claim
    BY <1>6
  <1>8. {claimed'[j] : j \in DOMAIN claimed'} = paid \cup B
    BY <1>7, Zenon
  <1>9. PICK D : D = B
    OBVIOUS
  <1>10. D \in SUBSET EligibleClaims
    BY <1>3, <1>9
  <1>11. Ledger!Pay(D)
    <2>1. \A c \in D : c.receiver # ZeroAddress
      BY <1>4, <1>9
    <2>2. Ledger!Unambiguous(D)
      BY <1>9 DEF Ledger!Unambiguous
    <2>3. Ledger!Fresh(D)
      BY <1>5, <1>9 DEF Ledger!Fresh
    <2>4. {claimed'[j] : j \in DOMAIN claimed'} = paid \cup D
      BY <1>8, <1>9
    <2>5. QED
      BY <2>1, <2>2, <2>3, <2>4 DEF Ledger!Pay
  <1>12. QED
    BY <1>10, <1>11, Zenon DEF Ledger!Next

\* Both entry points together implement the abstract ledger: every step pays
\* one eligible claim with a fresh nullifier, or pays nothing.
THEOREM V2ImplementsLedger == Spec => ImplementsLedger
  <1> DEFINE paid == {claimed[j] : j \in DOMAIN claimed}
  <1>1. Init => Ledger!Init
    BY DEF Init, Ledger!Init
  <1>2. ASSUME IInv, [Next]_vars PROVE [Ledger!Next]_paid
    <2>1. CASE PayClaim
      BY <1>2, <2>1, PaymentPays
    <2>2. ASSUME NEW sender \in Addresses, NEW p \in RootProofs,
                 ValidateClaimsRoot(sender, p)
          PROVE  claimed' = claimed
      BY <2>2 DEF ValidateClaimsRoot, contractVars
    <2>3. ASSUME NEW c \in ClaimCalls, BeginClaim(c) PROVE claimed' = claimed
      BY <2>3 DEF BeginClaim, contractVars
    <2>4. HashStep \/ RevertClaim \/ Environment \/ UNCHANGED vars
            => claimed' = claimed
      BY DEF HashStep, RevertClaim, Environment, vars, contractVars
    <2>5. PayClaim \/ claimed' = claimed
      BY <1>2, <2>2, <2>3, <2>4 DEF Next
    <2>6. claimed' = claimed => UNCHANGED paid
      OBVIOUS
    <2>7. QED
      BY <2>1, <2>5, <2>6
  <1>3. QED
    BY <1>1, <1>2, Invariance, PTL DEF Spec, ImplementsLedger, Ledger!Spec

-----------------------------------------------------------------------------
(* Paths.                                                                  *)

\* Half of a part of a number is a part of it, of twice the size.
LEMMA HalfOfPart ==
    ASSUME NEW j \in Nat, NEW m \in Nat \ {0}
    PROVE  (j \div m) \div 2 = j \div (2 * m)
  OBVIOUS

Depth == LOG_MAX_NUM_CLAIMS

LEMMA DepthBound ==
    /\ Depth \in Nat /\ Depth <= 32
    /\ \A d \in 1 .. Depth + 1 :
          d \in Nat /\ Depth - d + 1 \in Nat /\ Depth - d + 1 \in 0 .. 32
                             /\ d - 1 \in 0 .. 32
    /\ \A n \in 0 .. Depth : Doubles(n)
  <1>1. Depth \in Nat /\ Depth <= 32
    BY ProofAssumption DEF ProofAssumption, Depth
  <1>2. \A n \in 0 .. Depth : n \in 0 .. 32
    BY <1>1
  <1>3. \A d \in 1 .. Depth + 1 :
           d \in Nat /\ Depth - d + 1 \in Nat /\ Depth - d + 1 \in 0 .. 32
                             /\ d - 1 \in 0 .. 32
    BY <1>1
  <1>4. QED
    BY <1>1, <1>2, <1>3, Powers

\* The position of a leaf's ancestor: the leaf's own in the first layer, and half of
\* the last one, rounded down, in the next.
LEMMA Positions ==
    ASSUME NEW j \in Nat
    PROVE  /\ PositionAt(j, 1) = j
           /\ \A d \in 1 .. Depth :
                 /\ PositionAt(j, d) \in Nat
                 /\ PositionAt(j, d + 1) = PositionAt(j, d) \div 2
  <1>1. PositionAt(j, 1) = j
    <2>1. 2 ^ 0 = 1 /\ 1 - 1 = 0
      OBVIOUS
    <2>2. PositionAt(j, 1) = j \div 1
      BY <2>1 DEF PositionAt
    <2>3. QED
      BY <2>2
  <1>2. ASSUME NEW d \in 1 .. Depth
        PROVE  /\ PositionAt(j, d) \in Nat
               /\ PositionAt(j, d + 1) = PositionAt(j, d) \div 2
    <2> DEFINE m == 2 ^ (d - 1)
    <2>1. /\ d \in 1 .. Depth + 1 /\ d - 1 \in 0 .. Depth
          /\ (d - 1) + 1 = d /\ (d + 1) - 1 = d
      BY DepthBound
    <2>2. m \in Nat \ {0} /\ 2 ^ d = 2 * m
      BY <2>1, DepthBound DEF Doubles
    <2>3. PositionAt(j, d) = j \div m /\ PositionAt(j, d + 1) = j \div (2 * m)
      BY <2>1, <2>2 DEF PositionAt
    <2> HIDE DEF m
    <2>4. j \div m \in Nat
      BY <2>2
    <2>5. QED
      BY <2>2, <2>3, <2>4, HalfOfPart
  <1>3. QED
    BY <1>1, <1>2

\* A claim of a batch has an ancestor in every layer, and one at the top.
LEMMA PositionInside ==
    ASSUME NEW j \in Nat, j < Capacity
    PROVE  \A d \in 1 .. Depth + 1 : PositionAt(j, d) \in 0 .. 2 ^ (Depth - d + 1) - 1
  <1> DEFINE inside == {d \in Nat : PositionAt(j, d + 1) \in 0 .. 2 ^ (Depth - d) - 1}
  <1>1. 0 \in inside
    <2>1. Depth - 0 = Depth /\ Capacity \in Nat
      BY DepthBound DEF Doubles, Capacity, Depth
    <2>2. PositionAt(j, 0 + 1) = j
      BY Positions
    <2>3. PositionAt(j, 0 + 1) \in 0 .. 2 ^ (Depth - 0) - 1
      BY <2>1, <2>2 DEF Capacity, Depth
    <2>4. QED
      BY <2>3
  <1>2. ASSUME NEW d \in 0 .. Depth, d \in inside, d # Depth PROVE d + 1 \in inside
    <2> DEFINE half == 2 ^ (Depth - (d + 1))
               p == PositionAt(j, d + 1)
    <2>1. /\ d + 1 \in 1 .. Depth /\ Depth - (d + 1) \in 0 .. Depth
          /\ (Depth - (d + 1)) + 1 = Depth - d
          /\ d + 1 \in Nat
      BY <1>2, DepthBound
    <2>2. half \in Nat /\ 2 ^ (Depth - d) = 2 * half
      BY <2>1, DepthBound DEF Doubles
    <2>3. p \in 0 .. 2 * half - 1
      BY <1>2, <2>2
    <2>4. PositionAt(j, (d + 1) + 1) = p \div 2
      BY <2>1, Positions
    <2> HIDE DEF half, p
    <2>5. p \div 2 \in 0 .. half - 1
      BY <2>2, <2>3
    <2>6. QED
      BY <2>1, <2>4, <2>5 DEF half
  <1> HIDE DEF inside
  <1>3. \A d \in 0 .. Depth : d \in inside
    BY <1>1, <1>2, DepthBound, InductionTo
  <1>4. ASSUME NEW d \in 1 .. Depth + 1
        PROVE  PositionAt(j, d) \in 0 .. 2 ^ (Depth - d + 1) - 1
    <2>1. d - 1 \in 0 .. Depth /\ (d - 1) + 1 = d /\ Depth - (d - 1) = Depth - d + 1
      BY DepthBound
    <2>2. PositionAt(j, (d - 1) + 1) \in 0 .. 2 ^ (Depth - (d - 1)) - 1
      BY <1>3, <2>1 DEF inside
    <2>3. QED
      BY <2>1, <2>2
  <1>5. QED
    BY <1>4

\* The tree that the utility script rebuilds is the one of the proof, layer by
\* layer: a recursive function has only one value at each of its arguments.
LEMMA SameTree ==
    ASSUME NEW p \in RootProofs, p.valid
    PROVE  /\ Len(PathTree(p)) = Depth + 1
           /\ \A d \in 1 .. Depth + 1 : PathTree(p)[d] = p.layers[d]
  <1> DEFINE leaves == Masked(p.slots, p.numClaims)
             built(f) == f = [d \in 1 .. Depth + 1 |->
                                 IF d = 1 THEN leaves ELSE Level(f[d - 1])]
             layer == CHOOSE f : built(f)
  <1>1. /\ p.layers[1] = leaves
        /\ \A d \in 1 .. Depth : p.layers[d + 1] = Level(p.layers[d])
    BY ProofAssumption DEF ProofAssumption, SnarkSound, IsTree, Depth
  <1>2. PathTree(p) = layer
    BY DEF PathTree, Layers, Depth
  <1>3. built([d \in 1 .. Depth + 1 |-> p.layers[d]])
    <2> DEFINE f == [d \in 1 .. Depth + 1 |-> p.layers[d]]
    <2>1. ASSUME NEW d \in 1 .. Depth + 1
          PROVE  f[d] = IF d = 1 THEN leaves ELSE Level(f[d - 1])
      <3>1. CASE d = 1
        BY <1>1, <3>1
      <3>2. CASE d # 1
        <4>1. d - 1 \in 1 .. Depth /\ d - 1 \in 1 .. Depth + 1 /\ (d - 1) + 1 = d
          BY <3>2, DepthBound
        <4>2. p.layers[d] = Level(p.layers[d - 1])
          BY <1>1, <4>1
        <4>3. QED
          BY <3>2, <4>1, <4>2
      <3>3. QED
        BY <3>1, <3>2
    <2>2. QED
      BY <2>1
  <1>4. built(layer)
    <2> HIDE DEF built
    <2>1. QED
      BY <1>3
  <1> HIDE DEF layer, leaves
  <1>5. Len(layer) = Depth + 1
    <2>1. layer = [d \in 1 .. Depth + 1 |-> layer[d]] /\ Depth + 1 \in Nat
      BY <1>4, DepthBound
    <2>2. QED
      BY <2>1, FunctionLength
  <1> DEFINE same == {e \in Nat : layer[e + 1] = p.layers[e + 1]}
  <1>6. \A d \in 0 .. Depth : d \in same
    <2>1. 0 \in same
      <3>1. layer[1] = leaves
        BY <1>4, DepthBound
      <3>2. QED
        BY <1>1, <3>1
    <2>2. ASSUME NEW d \in 0 .. Depth, d \in same, d # Depth PROVE d + 1 \in same
      <3>1. /\ (d + 1) + 1 \in 1 .. Depth + 1 /\ (d + 1) + 1 # 1
            /\ ((d + 1) + 1) - 1 = d + 1 /\ d + 1 \in 1 .. Depth /\ d + 1 \in Nat
        BY <2>2, DepthBound
      <3>2. layer[(d + 1) + 1] = Level(layer[d + 1])
        BY <1>4, <3>1
      <3>3. p.layers[(d + 1) + 1] = Level(p.layers[d + 1])
        BY <1>1, <3>1
      <3>4. QED
        BY <2>2, <3>1, <3>2, <3>3
    <2> HIDE DEF same
    <2>3. QED
      BY <2>1, <2>2, DepthBound, InductionTo
  <1>7. ASSUME NEW d \in 1 .. Depth + 1 PROVE layer[d] = p.layers[d]
    <2>1. d - 1 \in 0 .. Depth /\ (d - 1) + 1 = d
      BY DepthBound
    <2>2. QED
      BY <1>6, <2>1
  <1>8. QED
    BY <1>2, <1>5, <1>7

\* Each layer is half as long as the one below it.
LEMMA LayerLength ==
    ASSUME NEW p \in RootProofs, p.valid
    PROVE  \A d \in 1 .. Depth + 1 :
              Len(p.layers[d]) = 2 ^ (Depth - d + 1) /\ IsSequence(p.layers[d])
  <1> DEFINE long == {d \in Nat : Len(p.layers[d + 1]) = 2 ^ (Depth - d)}
  <1>1. /\ p.layers[1] = Masked(p.slots, p.numClaims)
        /\ \A d \in 1 .. Depth : p.layers[d + 1] = Level(p.layers[d])
    BY ProofAssumption DEF ProofAssumption, SnarkSound, IsTree, Depth
  <1>2. 0 \in long
    <2>1. p.slots \in Seq(Claims) /\ Len(p.slots) = 2 ^ Depth
      BY ProofAssumption DEF ProofAssumption, IsRootProof, Capacity, Depth
    <2>2. Len(p.slots) \in Nat /\ DOMAIN p.slots = 1 .. Len(p.slots)
      BY <2>1, LenProperties
    <2>3. p.layers[1] = [k \in 1 .. Len(p.slots) |-> p.layers[1][k]]
      BY <1>1, <2>2 DEF Masked, MaskedLeaves
    <2>4. Len(p.layers[1]) = Len(p.slots)
      BY <2>2, <2>3, FunctionLength
    <2>5. Depth - 0 = Depth /\ 0 + 1 = 1
      BY DepthBound
    <2>6. QED
      BY <2>1, <2>4, <2>5
  <1>3. ASSUME NEW d \in 0 .. Depth, d \in long, d # Depth PROVE d + 1 \in long
    <2> DEFINE nodes == p.layers[d + 1]
               half == 2 ^ (Depth - (d + 1))
    <2>1. /\ d + 1 \in 1 .. Depth /\ Depth - (d + 1) \in 0 .. Depth
          /\ (Depth - (d + 1)) + 1 = Depth - d
          /\ d + 1 \in Nat
      BY <1>3, DepthBound
    <2>2. half \in Nat /\ Len(nodes) = 2 * half
      BY <1>3, <2>1, DepthBound DEF Doubles
    <2>3. p.layers[(d + 1) + 1] = Level(nodes)
      BY <1>1, <2>1
    <2> HIDE DEF nodes, half
    <2>4. Len(nodes) \div 2 = half
      BY <2>2
    <2>5. Level(nodes) = [k \in 1 .. half |-> Level(nodes)[k]]
      BY <2>4 DEF Level
    <2>6. Len(Level(nodes)) = half
      BY <2>2, <2>5, FunctionLength
    <2>7. QED
      BY <2>1, <2>3, <2>6 DEF half
  <1> HIDE DEF long
  <1>4. \A d \in 0 .. Depth : d \in long
    BY <1>2, <1>3, DepthBound, InductionTo
  <1>5. ASSUME NEW d \in 1 .. Depth + 1
        PROVE  Len(p.layers[d]) = 2 ^ (Depth - d + 1) /\ IsSequence(p.layers[d])
    <2>1. d - 1 \in 0 .. Depth /\ (d - 1) + 1 = d /\ Depth - (d - 1) = Depth - d + 1
      BY DepthBound
    <2>2. IsSequence(p.layers[(d - 1) + 1])
      BY <2>1, LayersAreSequences DEF Depth
    <2>3. QED
      BY <1>4, <2>1, <2>2 DEF long
  <1>6. QED
    BY <1>5

\* The node of layer d above the leaf j (counted from 0).
NodeAbove(p, j, d) == p.layers[d][PositionAt(j, d) + 1]

\* One turn of the contract's loop with the sister and the side the script reads off
\* the tree leads from the node above a leaf to the next node above it.
LEMMA ClimbFollows ==
    ASSUME NEW p \in RootProofs, p.valid, NEW j \in Nat, j < Capacity,
           NEW d \in 1 .. Depth
    PROVE  NodeAbove(p, j, d + 1) =
             Climb(NodeAbove(p, j, d), SisterNodes(PathTree(p), j)[d],
                   IsLeft(PathTree(p), j)[d])
  <1> DEFINE nodes == p.layers[d]
             pos == PositionAt(j, d)
             h == PositionAt(j, d + 1)
             half == 2 ^ (Depth - (d + 1) + 1)
  <1>1. /\ d \in 1 .. Depth + 1 /\ d + 1 \in 1 .. Depth + 1
        /\ Depth - (d + 1) + 1 \in 0 .. Depth /\ (Depth - (d + 1) + 1) + 1 = Depth - d + 1
    BY DepthBound
  <1>2. half \in Nat /\ 2 ^ (Depth - d + 1) = 2 * half
    BY <1>1, DepthBound DEF Doubles
  <1>3. Len(nodes) = 2 * half
    BY <1>1, <1>2, LayerLength
  <1>4. pos \in Nat /\ h = pos \div 2 /\ h \in 0 .. half - 1
    BY <1>1, Positions, PositionInside
  <1>5. p.layers[d + 1] = Level(nodes)
    BY ProofAssumption DEF ProofAssumption, SnarkSound, IsTree, Depth
  <1>6. PathTree(p)[d] = nodes /\ d \in 1 .. Len(PathTree(p)) - 1
    <2>1. Len(PathTree(p)) - 1 = Depth
      BY SameTree, DepthBound
    <2>2. QED
      BY <1>1, <2>1, SameTree
  <1>7. /\ SisterNodes(PathTree(p), j)[d] = nodes[Sibling(pos) + 1]
        /\ IsLeft(PathTree(p), j)[d] = (pos % 2 = 1)
    BY <1>6 DEF SisterNodes, IsLeft
  <1> HIDE DEF nodes, pos, h, half
  <1>8. h + 1 \in 1 .. Len(nodes) \div 2
    BY <1>2, <1>3, <1>4
  <1>9. Level(nodes)[h + 1] = Node(nodes[2 * (h + 1) - 1], nodes[2 * (h + 1)])
    BY <1>8 DEF Level
  <1>10. NodeAbove(p, j, d + 1) = Node(nodes[2 * (h + 1) - 1], nodes[2 * (h + 1)])
    BY <1>5, <1>9 DEF NodeAbove, h
  <1>11. NodeAbove(p, j, d) = nodes[pos + 1]
    BY DEF NodeAbove, nodes, pos
  <1>12. CASE pos % 2 = 1
    <2>1. 2 * (h + 1) = pos + 1 /\ 2 * (h + 1) - 1 = Sibling(pos) + 1
      BY <1>4, <1>12 DEF Sibling
    <2>2. QED
      BY <1>7, <1>10, <1>11, <1>12, <2>1 DEF Climb
  <1>13. CASE pos % 2 # 1
    <2>1. 2 * (h + 1) - 1 = pos + 1 /\ 2 * (h + 1) = Sibling(pos) + 1
      BY <1>4, <1>13 DEF Sibling
    <2>2. QED
      BY <1>7, <1>10, <1>11, <1>13, <2>1 DEF Climb
  <1>14. QED
    BY <1>12, <1>13

\* The climb starts at the leaf of the claim and ends at the root.
LEMMA ClimbEnds ==
    ASSUME NEW p \in RootProofs, p.valid, NEW k \in 1 .. p.numClaims,
           p.numClaims <= Capacity
    PROVE  /\ k - 1 \in Nat /\ k - 1 < Capacity
           /\ NodeAbove(p, k - 1, 1) = Leaf(p.slots[k])
           /\ NodeAbove(p, k - 1, Depth + 1) = ClaimsRoot(p)
  <1>1. /\ p.layers[1] = Masked(p.slots, p.numClaims)
        /\ Len(p.layers) = Depth + 1
        /\ p.numClaims \in Nat /\ p.slots \in Seq(Claims) /\ Len(p.slots) = Capacity
    BY ProofAssumption
    DEF ProofAssumption, SnarkSound, IsTree, IsRootProof, Depth
  <1>2. Capacity \in Nat
    BY DepthBound DEF Doubles, Capacity, Depth
  <1>3. k - 1 \in Nat /\ k - 1 < Capacity /\ (k - 1) + 1 = k /\ k <= p.numClaims
        /\ k \in 1 .. Capacity
    BY <1>1, <1>2
  <1>4. NodeAbove(p, k - 1, 1) = Leaf(p.slots[k])
    <2>1. PositionAt(k - 1, 1) + 1 = k
      BY <1>3, Positions
    <2>2. k \in DOMAIN p.slots
      BY <1>1, <1>3
    <2>3. QED
      BY <1>1, <1>3, <2>1, <2>2 DEF NodeAbove, Masked, MaskedLeaves
  <1>5. NodeAbove(p, k - 1, Depth + 1) = ClaimsRoot(p)
    <2>1. Depth + 1 \in 1 .. Depth + 1 /\ Depth - (Depth + 1) + 1 = 0
      BY DepthBound
    <2>2. PositionAt(k - 1, Depth + 1) \in 0 .. 2 ^ 0 - 1
      BY <1>3, <2>1, PositionInside
    <2>3. PositionAt(k - 1, Depth + 1) + 1 = 1
      BY <2>2
    <2>4. QED
      BY <1>1, <2>3 DEF NodeAbove, ClaimsRoot, RootOf
  <1>6. QED
    BY <1>3, <1>4, <1>5

\* The invariant of the Merkle loop for a path that the script read off: the running
\* hash is the node above the claim's leaf, layer by layer.
PathFollowed ==
    phase = "path" =>
        \A p \in RootProofs : \A k \in 1 .. p.numClaims :
            p.valid /\ p.numClaims <= Capacity /\ call = HonestClaim(p, k)
              => runningHash = NodeAbove(p, k - 1, i + 1)

LEMMA PathStep == TypeOK /\ PathFollowed /\ [Next]_vars => PathFollowed'
  <1> SUFFICES ASSUME TypeOK, PathFollowed, [Next]_vars PROVE PathFollowed'
    OBVIOUS
  <1>1. ASSUME NEW c \in ClaimCalls, BeginClaim(c) PROVE PathFollowed'
    <2>1. call' = c /\ i' = 0 /\ runningHash' = Leaf(c.claim)
      BY <1>1 DEF BeginClaim
    <2> SUFFICES ASSUME NEW p \in RootProofs, NEW k \in 1 .. p.numClaims, p.valid,
                        p.numClaims <= Capacity, c = HonestClaim(p, k)
                 PROVE  Leaf(c.claim) = NodeAbove(p, k - 1, 0 + 1)
      BY <2>1 DEF PathFollowed, HonestClaim, PathTree, NodeAbove
    <2>2. c.claim = p.slots[k]
      BY DEF HonestClaim
    <2>3. QED
      BY <2>2, ClimbEnds
  <1>2. CASE HashStep
    <2>1. /\ phase = "path" /\ call' = call /\ i' = i + 1
          /\ runningHash' = Climb(runningHash, call.sisterNodes[i + 1],
                                  call.isLeft[i + 1])
      BY <1>2 DEF HashStep
    <2>2. i + 1 \in 1 .. Depth
      BY <1>2, DepthBound DEF Depth, TypeOK, HashStep, LoopDone
    <2> SUFFICES ASSUME NEW p \in RootProofs, NEW k \in 1 .. p.numClaims, p.valid,
                        p.numClaims <= Capacity, call = HonestClaim(p, k)
                 PROVE  Climb(runningHash, call.sisterNodes[i + 1],
                              call.isLeft[i + 1])
                          = NodeAbove(p, k - 1, (i + 1) + 1)
      BY <2>1 DEF PathFollowed, HonestClaim, PathTree, NodeAbove
    <2>3. runningHash = NodeAbove(p, k - 1, i + 1)
      BY <2>1 DEF PathFollowed
    <2>4. /\ call.sisterNodes[i + 1] = SisterNodes(PathTree(p), k - 1)[i + 1]
          /\ call.isLeft[i + 1] = IsLeft(PathTree(p), k - 1)[i + 1]
      BY DEF HonestClaim
    <2>5. k - 1 \in Nat /\ k - 1 < Capacity
      BY ClimbEnds
    <2>6. QED
      BY <2>2, <2>3, <2>4, <2>5, ClimbFollows
  <1>3. CASE PayClaim \/ RevertClaim
    BY <1>3 DEF PayClaim, RevertClaim, PathFollowed
  <1>4. ASSUME NEW sender \in Addresses, NEW p \in RootProofs,
               ValidateClaimsRoot(sender, p)
        PROVE  PathFollowed'
    BY <1>4 DEF ValidateClaimsRoot, PathFollowed, txVars
  <1>5. CASE Environment
    BY <1>5 DEF Environment, PathFollowed, txVars
  <1>6. CASE UNCHANGED vars
    BY <1>6 DEF vars, PathFollowed, HonestClaim, PathTree, NodeAbove, txVars
  <1>7. QED
    BY <1>1, <1>2, <1>3, <1>4, <1>5, <1>6 DEF Next

\* An admitted transaction with the path of a counted claim of a recorded tree, and
\* WLD enough to pay it, does not end without paying it: the side and the sister
\* that the script reads off each layer of the tree are those the contract's loop
\* needs, whatever the depth of the tree and wherever the padding begins.
HonestClaimStep ==
    \A p \in Recorded : \A k \in 1 .. p.numClaims :
      /\ phase = "path" /\ phase' = "idle"
      /\ call = HonestClaim(p, k)
      /\ CanTransfer(Amount[call.claim.grant])
      => claimed' = Append(claimed, p.slots[k])
THEOREM HonestClaimsPaid == Spec => HonestClaimPaid
  <1>1. Init => TypeOK /\ PathFollowed
    BY TypeInit DEF Init, PathFollowed
  <1>2. TypeOK /\ PathFollowed /\ [Next]_vars => (TypeOK /\ PathFollowed)'
    BY TypeStep, PathStep
  <1>3. ASSUME TypeOK, PathFollowed, [Next]_vars PROVE [HonestClaimStep]_vars
    <2> SUFFICES ASSUME Next, NEW p \in Recorded, NEW k \in 1 .. p.numClaims,
                        phase = "path", phase' = "idle", call = HonestClaim(p, k),
                        CanTransfer(Amount[call.claim.grant])
                 PROVE  claimed' = Append(claimed, p.slots[k])
      BY <1>3 DEF HonestClaimStep
    <2>1. call.claim = p.slots[k] /\ call.root = p.root
      BY DEF HonestClaim
    <2>2. PayClaim \/ RevertClaim
      BY DEF Next, ValidateClaimsRoot, BeginClaim, HashStep, Environment, txVars
    <2>3. CASE PayClaim
      BY <2>1, <2>3 DEF PayClaim, Pay
    <2>4. CASE RevertClaim
      <3>1. i = Depth
        BY <1>3, <2>4 DEF RevertClaim, LoopDone, TypeOK, Depth
      <3>2. p \in RootProofs /\ p.valid /\ p.numClaims <= Capacity
        BY DEF Recorded
      <3>3. runningHash = NodeAbove(p, k - 1, Depth + 1)
        BY <1>3, <3>1, <3>2 DEF PathFollowed
      <3>4. runningHash = ClaimsRoot(p)
        BY <3>2, <3>3, ClimbEnds
      <3>5. RootRecorded
        BY <2>1, <3>4 DEF RootRecorded, Recorded
      <3>6. QED
        BY <2>4, <3>5 DEF RevertClaim
    <2>5. QED
      BY <2>2, <2>3, <2>4
  <1>4. QED
    BY <1>1, <1>2, <1>3, PTL DEF Spec, HonestClaimPaid, HonestClaimStep

-----------------------------------------------------------------------------
(* The token against the log.                                              *)

\* A grant paid and logged, WLD sent to the contract from outside, and the start:
\* the token agrees with the log.
LEMMA GrantsPayable ==
    /\ Payable(Claims, Amount, Addresses) /\ IsFiniteSet(Addresses)
    /\ Distributor \in Addresses
  BY ChainAssumption DEF ChainAssumption, Payable, Claims

LEMMA PaymentAgrees ==
    ASSUME wld \in [Addresses -> Nat], supply \in Nat, NEW log \in Seq(Claims),
           NEW e \in Claims, Agrees(wld, supply, log), Transfer(e.receiver, Amount[e.grant])
    PROVE  Agrees(wld', supply, Append(log, e))
  <1>1. Moved(wld, wld', Distributor, e.receiver, Amount[e.grant])
    BY DEF Moved, Transfer
  <1>2. Balanced(wld, supply, log, Amount, Addresses, Distributor)
    BY DEF Agrees
  <1>3. Balanced(wld', supply, Append(log, e), Amount, Addresses, Distributor)
    BY <1>1, <1>2, GrantsPayable, PaymentBalances
  <1>4. QED
    BY <1>3 DEF Agrees

LEMMA ChainStepAgrees ==
    ASSUME ChainTypeOK, NEW log \in Seq(Claims), Agrees(wld, supply, log), ChainNext
    PROVE  Agrees(wld', supply', log)
  <1>1. wld \in [Addresses -> Nat] /\ supply \in Nat
    BY ChainAssumption DEF ChainTypeOK, ChainAssumption
  <1>2. ASSUME NEW amount \in 1 .. MaxSupply, Fund(amount)
        PROVE  Agrees(wld', supply', log)
    <2>1. /\ wld' = [wld EXCEPT ![Distributor] = @ + amount]
          /\ supply' = supply + amount
          /\ amount \in Nat
      BY <1>2, ChainAssumption DEF Fund, ChainAssumption
    <2>2. Balanced(wld, supply, log, Amount, Addresses, Distributor)
      BY DEF Agrees
    <2>3. Balanced([wld EXCEPT ![Distributor] = @ + amount], supply + amount, log,
                   Amount, Addresses, Distributor)
      BY <1>1, <2>1, <2>2, GrantsPayable, FundingBalances
    <2>4. QED
      BY <2>1, <2>3 DEF Agrees
  <1>3. CASE UNCHANGED <<wld, supply>>
    BY <1>3
  <1>4. ChainNext => UNCHANGED <<wld, supply>> \/ \E amount \in 1 .. MaxSupply : Fund(amount)
    BY DEF ChainNext, RootAppears, RootExpires, GrantOpens, GrantCloses
  <1>5. QED
    BY <1>2, <1>3, <1>4

LEMMA NothingAgrees == ChainInit => Agrees(wld, supply, << >>)
  BY GrantsPayable, NothingBalances DEF ChainInit, Agrees

LEMMA AccountsStep ==
    TypeOK /\ AccountsMatchClaims /\ [Next]_vars => AccountsMatchClaims'
  <1> SUFFICES ASSUME TypeOK, AccountsMatchClaims, [Next]_vars
               PROVE  Agrees(wld', supply', claimed')
    BY DEF AccountsMatchClaims, Agrees, Balanced, PaidTo
  <1>0. ChainTypeOK /\ claimed \in Seq(Claims) /\ Agrees(wld, supply, claimed)
    BY DEF TypeOK, AccountsMatchClaims
  <1>1. CASE PayClaim
    <2>1. /\ call.claim \in Claims /\ claimed' = Append(claimed, call.claim)
          /\ Transfer(call.claim.receiver, Amount[call.claim.grant])
          /\ supply' = supply
      BY <1>1, ProofAssumption
      DEF PayClaim, Pay, TypeOK, ProofAssumption, IsClaimCall
    <2>2. wld \in [Addresses -> Nat] /\ supply \in Nat
      BY <1>0, ChainAssumption DEF ChainTypeOK, ChainAssumption
    <2>3. Agrees(wld', supply, Append(claimed, call.claim))
      BY <1>0, <2>1, <2>2, PaymentAgrees
    <2>4. QED
      BY <2>1, <2>3
  <1>2. CASE Environment
    <2>1. ChainNext /\ claimed' = claimed
      BY <1>2 DEF Environment, contractVars
    <2>2. QED
      BY <1>0, <2>1, ChainStepAgrees
  <1>3. CASE UNCHANGED <<wld, supply, claimed>>
    BY <1>0, <1>3
  <1>4. PayClaim \/ Environment \/ UNCHANGED <<wld, supply, claimed>>
    BY DEF Next, ValidateClaimsRoot, BeginClaim, HashStep, RevertClaim, vars,
           chainVars, contractVars
  <1>5. QED
    BY <1>1, <1>2, <1>3, <1>4

\* The WLD each receiver holds is what the GrantClaimed events say it was paid, and
\* the contract holds the rest of what it was sent.
THEOREM AccountsAgree == Spec => []AccountsMatchClaims
  <1>1. Init => AccountsMatchClaims
    BY NothingAgrees DEF Init, AccountsMatchClaims
  <1>2. QED
    BY <1>1, TypeInit, TypeStep, AccountsStep, PTL DEF Spec
=============================================================================
