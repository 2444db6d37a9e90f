--------------------------- MODULE GrantsV1Proofs ---------------------------
(***************************************************************************)
(* Theorems about WorldcoinAggregationV1, for every set of grants,         *)
(* accounts, nullifiers and calldata and every batch capacity.             *)
(***************************************************************************)
EXTENDS GrantsV1, DataLemmas

-----------------------------------------------------------------------------
(* The chain's own steps.                                                  *)

\* A transfer moves what CanTransfer allows and keeps balances natural.
LEMMA TransferTyped ==
    ASSUME ChainAssumption, wld \in [Addresses -> Nat], NEW to \in Addresses,
           NEW amount \in Nat, CanTransfer(amount), Transfer(to, amount)
    PROVE  wld' \in [Addresses -> Nat]
  BY DEF ChainAssumption, CanTransfer, Transfer

\* Whatever moves outside the contract keeps the chain's types.
LEMMA ChainStepTyped == ASSUME ChainTypeOK, ChainNext PROVE ChainTypeOK'
  <1> USE ChainAssumption DEF ChainTypeOK
  <1>1. CASE \E amount \in 1 .. MaxSupply : Fund(amount)
    BY <1>1 DEF Fund
  <1>2. CASE \E r \in Roots : RootAppears(r) \/ RootExpires(r)
    BY <1>2 DEF RootAppears, RootExpires
  <1>3. CASE \E g \in Grants : GrantOpens(g) \/ GrantCloses(g)
    BY <1>3 DEF GrantOpens, GrantCloses
  <1>4. QED
    BY <1>1, <1>2, <1>3 DEF ChainNext

-----------------------------------------------------------------------------
(* What the calldata type gives.                                           *)

LEMMA BatchTyped ==
    ASSUME NEW c \in Calls, SameLengths(c), NEW k \in 1 .. c.numClaims
    PROVE  ClaimAt(c, k) \in Claims
  <1>1. /\ c.grantIds \in Seq(Grants)
        /\ c.receivers \in Seq(Addresses)
        /\ c.nullifiers \in Seq(Nullifiers)
        /\ c.numClaims \in Nat
    BY CallAssumption DEF CallAssumption, CallType
  <1>2. /\ k \in 1 .. Len(c.grantIds)
        /\ k \in 1 .. Len(c.receivers)
        /\ k \in 1 .. Len(c.nullifiers)
    BY DEF SameLengths
  <1>3. /\ c.grantIds[k] \in Grants
        /\ c.receivers[k] \in Addresses
        /\ c.nullifiers[k] \in Nullifiers
    BY <1>1, <1>2, ElementOfSeq
  <1>4. QED
    BY <1>3 DEF ClaimAt, Claims

LEMMA CountNat == ASSUME NEW c \in Calls \cup {NoCall} PROVE c.numClaims \in Nat
  BY CallAssumption DEF CallAssumption, CallType, NoCall

\* Within the loop the current claim is one of the batch.
LEMMA CurrentTyped ==
    ASSUME TypeOK, phase = "loop", ~LoopDone
    PROVE  /\ i + 1 \in 1 .. call.numClaims
           /\ Current \in Claims
  <1>1. i + 1 \in 1 .. call.numClaims
    BY CountNat DEF TypeOK, LoopDone
  <1>2. QED
    BY <1>1, BatchTyped DEF TypeOK, Current

-----------------------------------------------------------------------------
(* Type correctness.                                                       *)

LEMMA TypeInit == Init => TypeOK
  BY ChainAssumption DEF Init, ChainInit, TypeOK, ChainTypeOK, NoCall

LEMMA TypeStep == TypeOK /\ [Next]_vars => TypeOK'
  <1> SUFFICES ASSUME TypeOK, [Next]_vars PROVE TypeOK'
    OBVIOUS
  <1>1. ASSUME NEW c \in Calls, Begin(c) PROVE TypeOK'
    <2>1. c.numClaims \in Nat
      BY CountNat
    <2>2. SameLengths(c)
      BY <1>1 DEF Begin, Accepts
    <2>3. ChainTypeOK' /\ nullifierHashes' \subseteq Nullifiers /\ claimed' \in Seq(Claims)
      BY <1>1 DEF TypeOK, ChainTypeOK, Begin, chainVars, contractVars
    <2>4. (phase = "loop" => call \in Calls /\ SameLengths(call))'
      BY <1>1, <2>2 DEF Begin, SameLengths
    <2>5. QED
      BY <1>1, <2>1, <2>3, <2>4 DEF TypeOK, ChainTypeOK, Begin
  <1>2. ASSUME NEW c \in Calls, Reject(c) PROVE TypeOK'
    BY <1>2, CountNat
    DEF TypeOK, ChainTypeOK, Reject, chainVars, contractVars
  <1>3. CASE PayClaim
    <2>1. /\ Current \in Claims
          /\ i + 1 \in 1 .. call.numClaims
      BY <1>3, CurrentTyped DEF PayClaim
    <2>2. /\ Current.receiver \in Addresses
          /\ Current.nullifier \in Nullifiers
          /\ Amount[Current.grant] \in Nat
      BY <2>1, ChainAssumption DEF Claims, ChainAssumption
    <2>3. wld' \in [Addresses -> Nat]
      BY <1>3, <2>2, TransferTyped, ChainAssumption
      DEF PayClaim, CanPay, TypeOK, ChainTypeOK
    <2>4. claimed' \in Seq(Claims)
      BY <1>3, <2>1 DEF PayClaim, TypeOK
    <2>5. ChainTypeOK'
      BY <1>3, <2>3 DEF PayClaim, TypeOK, ChainTypeOK
    <2>6. QED
      BY <1>3, <2>1, <2>2, <2>4, <2>5, CountNat DEF PayClaim, TypeOK, SameLengths
  <1>4. CASE Revert
    BY <1>4 DEF Revert, TypeOK, ChainTypeOK
  <1>5. CASE Commit
    BY <1>5 DEF Commit, TypeOK, ChainTypeOK, chainVars, contractVars
  <1>6. CASE Environment
    <2>1. ChainTypeOK'
      BY <1>6, ChainStepTyped DEF Environment, TypeOK
    <2>2. QED
      BY <1>6, <2>1 DEF Environment, TypeOK, contractVars, txVars, SameLengths
  <1>7. CASE UNCHANGED vars
    BY <1>7
    DEF vars, chainVars, contractVars, txVars, TypeOK, ChainTypeOK, SameLengths
  <1>8. QED
    BY <1>1, <1>2, <1>3, <1>4, <1>5, <1>6, <1>7 DEF Next, Execute

\* Every balance stays a natural number, the loop index stays inside the batch
\* and every logged claim is well formed, whatever calldata is submitted.
THEOREM TypeCorrect == Spec => []TypeOK
  BY TypeInit, TypeStep, PTL DEF Spec
-----------------------------------------------------------------------------
(* The hashed words determine the batch.                                   *)

\* s \o t is s, m words long, then t, n words long.
LEMMA ConcatAt ==
    \A s, t \in Seq(Words) : \A m, n \in Nat :
        Len(s) = m /\ Len(t) = n => s \o t \in Seq(Words) /\ Joined(s, t, m, n)
  BY ConcatJoins, Zenon

\* Where each word of the preimage is, when the three arrays are equally long.
Laid(p, vk, root, n, gs, rs, ns, len) ==
    /\ Len(p) = ((3 + len) + len) + len
    /\ p[1] = vk /\ p[2] = root /\ p[3] = n
    /\ \A k \in 1 .. len : /\ p[3 + k] = gs[k]
                           /\ p[(3 + len) + k] = rs[k]
                           /\ p[((3 + len) + len) + k] = ns[k]

LEMMA PackedWords ==
    \A vk, root, n \in Words : \A gs, rs, ns \in Seq(Words) : \A len \in Nat :
        Len(gs) = len /\ Len(rs) = len /\ Len(ns) = len
          => Laid(Packed(vk, root, n, gs, rs, ns), vk, root, n, gs, rs, ns, len)
  <1> SUFFICES ASSUME NEW vk \in Words, NEW root \in Words, NEW n \in Words,
                      NEW gs \in Seq(Words), NEW rs \in Seq(Words),
                      NEW ns \in Seq(Words), NEW len \in Nat,
                      Len(gs) = len, Len(rs) = len, Len(ns) = len
               PROVE  Laid(Packed(vk, root, n, gs, rs, ns),
                           vk, root, n, gs, rs, ns, len)
    OBVIOUS
  <1> DEFINE head == <<vk, root, n>>
             a == head \o gs
             b == a \o rs
             p == b \o ns
  <1>1. /\ head \in Seq(Words) /\ Len(head) = 3
        /\ head[1] = vk /\ head[2] = root /\ head[3] = n
    OBVIOUS
  <1>2. 3 \in Nat /\ 3 + len \in Nat /\ (3 + len) + len \in Nat
    OBVIOUS
  <1> HIDE DEF head
  <1>3. a \in Seq(Words) /\ Joined(head, gs, 3, len)
    BY <1>1, <1>2, ConcatAt, Zenon
  <1>4. /\ a \in Seq(Words) /\ Len(a) = 3 + len
        /\ \A k \in 1 .. 3 : a[k] = head[k]
        /\ \A k \in 1 .. len : a[3 + k] = gs[k]
    BY <1>3 DEF Joined
  <1> HIDE DEF a
  <1>5. b \in Seq(Words) /\ Joined(a, rs, 3 + len, len)
    BY <1>2, <1>4, ConcatAt, Zenon
  <1>6. /\ b \in Seq(Words) /\ Len(b) = (3 + len) + len
        /\ \A k \in 1 .. 3 + len : b[k] = a[k]
        /\ \A k \in 1 .. len : b[(3 + len) + k] = rs[k]
    BY <1>5 DEF Joined
  <1> HIDE DEF b
  <1>7. Joined(b, ns, (3 + len) + len, len)
    BY <1>2, <1>6, ConcatAt, Zenon
  <1>8. /\ Len(p) = ((3 + len) + len) + len
        /\ \A k \in 1 .. (3 + len) + len : p[k] = b[k]
        /\ \A k \in 1 .. len : p[((3 + len) + len) + k] = ns[k]
    BY <1>7 DEF Joined
  <1> HIDE DEF p
  <1>9. \A k \in 1 .. 3 : p[k] = head[k]
    <2>1. \A k \in 1 .. 3 : k \in 1 .. 3 + len /\ k \in 1 .. (3 + len) + len
      OBVIOUS
    <2>2. QED
      BY <1>4, <1>6, <1>8, <2>1
  <1>10. ASSUME NEW k \in 1 .. len
         PROVE  p[3 + k] = gs[k] /\ p[(3 + len) + k] = rs[k]
    <2>1. /\ 3 + k \in 1 .. 3 + len /\ 3 + k \in 1 .. (3 + len) + len
          /\ (3 + len) + k \in 1 .. (3 + len) + len
      OBVIOUS
    <2>2. QED
      BY <1>4, <1>6, <1>8, <2>1
  <1>11. Laid(p, vk, root, n, gs, rs, ns, len)
    <2>1. p[1] = vk /\ p[2] = root /\ p[3] = n
      BY <1>1, <1>9
    <2>2. \A k \in 1 .. len : /\ p[3 + k] = gs[k]
                             /\ p[(3 + len) + k] = rs[k]
                             /\ p[((3 + len) + len) + k] = ns[k]
      BY <1>8, <1>10
    <2>3. QED
      BY <1>8, <2>1, <2>2, Zenon DEF Laid
  <1>12. QED
    BY <1>11 DEF p, b, a, head, Packed

\* A sequence of entries, one per slot, is a sequence of words.
LEMMA SlotWords ==
    ASSUME NEW vk \in VKeys, NEW root \in Roots, ChainAssumption, CallAssumption,
           NEW slots \in [1 .. MAX_NUM_CLAIMS -> Proven[<<vk, root>>]]
    PROVE  /\ DOMAIN slots = 1 .. MAX_NUM_CLAIMS
           /\ \A k \in DOMAIN slots : slots[k] \in Claims
           /\ [k \in DOMAIN slots |-> slots[k].grant] \in Seq(Words)
           /\ [k \in DOMAIN slots |-> slots[k].receiver] \in Seq(Words)
           /\ [k \in DOMAIN slots |-> slots[k].nullifier] \in Seq(Words)
           /\ Len([k \in DOMAIN slots |-> slots[k].grant]) = MAX_NUM_CLAIMS
           /\ Len([k \in DOMAIN slots |-> slots[k].receiver]) = MAX_NUM_CLAIMS
           /\ Len([k \in DOMAIN slots |-> slots[k].nullifier]) = MAX_NUM_CLAIMS
  <1>1. MAX_NUM_CLAIMS \in Nat
    BY DEF CallAssumption
  <1>2. DOMAIN slots = 1 .. MAX_NUM_CLAIMS
    OBVIOUS
  <1>3. \A k \in 1 .. MAX_NUM_CLAIMS : slots[k] \in Claims
    BY DEF ChainAssumption
  <1>4. \A k \in 1 .. MAX_NUM_CLAIMS :
            /\ slots[k].grant \in Words
            /\ slots[k].receiver \in Words
            /\ slots[k].nullifier \in Words
    BY <1>3 DEF Claims, Words
  <1>5. QED
    BY <1>1, <1>2, <1>3, <1>4

\* If the contract's derived output is the output of an accepted proof, the
\* batch is full, and every claim in the calldata was proved with the calldata's
\* key and root.  (Len of the two preimages differ unless numClaims is the
\* capacity.)
LEMMA AcceptedBatchProved ==
    ASSUME NEW c \in Calls, SameLengths(c), c.proof.valid,
           c.proof.output = DerivedOutput(c)
    PROVE  /\ c.numClaims = MAX_NUM_CLAIMS
           /\ \A k \in 1 .. c.numClaims :
                 ClaimAt(c, k) \in Proven[<<c.vkeyHash, c.root>>]
  <1>0. PICK vk \in VKeys, root \in Roots, n \in 1 .. MAX_NUM_CLAIMS :
           \E slots \in [1 .. MAX_NUM_CLAIMS -> Proven[<<vk, root>>]] :
              c.proof.output = CircuitOutput(vk, root, n, slots)
    BY CallAssumption DEF CallAssumption, SnarkSound
  <1>1. PICK slots \in [1 .. MAX_NUM_CLAIMS -> Proven[<<vk, root>>]] :
              c.proof.output = CircuitOutput(vk, root, n, slots)
    BY <1>0
  <1> DEFINE N == MAX_NUM_CLAIMS
             gs == [k \in DOMAIN slots |-> slots[k].grant]
             rs == [k \in DOMAIN slots |-> slots[k].receiver]
             ns == [k \in DOMAIN slots |-> slots[k].nullifier]
             p == c.proof.output
             m == c.numClaims
  <1>2. /\ c.grantIds \in Seq(Grants) /\ c.receivers \in Seq(Addresses)
        /\ c.nullifiers \in Seq(Nullifiers) /\ c.numClaims \in Nat
        /\ c.vkeyHash \in VKeys /\ c.root \in Roots
    BY CallAssumption DEF CallAssumption, CallType
  <1>3. /\ Grants \subseteq Words /\ Addresses \subseteq Words
        /\ Nullifiers \subseteq Words /\ Nat \subseteq Words
        /\ VKeys \subseteq Words /\ Roots \subseteq Words
    BY DEF Words
  <1>4. /\ c.grantIds \in Seq(Words) /\ c.receivers \in Seq(Words)
        /\ c.nullifiers \in Seq(Words)
    BY <1>2, <1>3, SeqMonotonic
  <1>5. /\ c.vkeyHash \in Words /\ c.root \in Words /\ c.numClaims \in Words
        /\ vk \in Words /\ root \in Words /\ n \in Words
        /\ N \in Nat
    BY <1>2, <1>3, CallAssumption DEF CallAssumption
  <1>6. /\ DOMAIN slots = 1 .. N
        /\ \A k \in 1 .. N : slots[k] \in Claims
        /\ gs \in Seq(Words) /\ rs \in Seq(Words) /\ ns \in Seq(Words)
        /\ Len(gs) = N /\ Len(rs) = N /\ Len(ns) = N
    BY SlotWords, ChainAssumption, CallAssumption
  <1>7. /\ p = Packed(vk, root, n, gs, rs, ns)
        /\ p = Packed(c.vkeyHash, c.root, c.numClaims, c.grantIds, c.receivers,
                      c.nullifiers)
    BY <1>1 DEF CircuitOutput, DerivedOutput
  <1>8. \A k \in 1 .. N : /\ gs[k] = slots[k].grant
                          /\ rs[k] = slots[k].receiver
                          /\ ns[k] = slots[k].nullifier
    BY <1>6
  <1> HIDE DEF p, N, m, gs, rs, ns
  <1>9. Laid(p, vk, root, n, gs, rs, ns, N)
    <2>1. Laid(Packed(vk, root, n, gs, rs, ns), vk, root, n, gs, rs, ns, N)
      BY <1>5, <1>6, PackedWords, Zenon
    <2>2. QED
      BY <1>7, <2>1
  <1>10. Laid(p, c.vkeyHash, c.root, m, c.grantIds, c.receivers, c.nullifiers, m)
    <2>1. /\ m \in Nat /\ m \in Words
          /\ Len(c.grantIds) = m /\ Len(c.receivers) = m /\ Len(c.nullifiers) = m
      BY <1>2, <1>5 DEF SameLengths, m
    <2>2. p = Packed(c.vkeyHash, c.root, m, c.grantIds, c.receivers, c.nullifiers)
      BY <1>7 DEF m
    <2>3. Laid(Packed(c.vkeyHash, c.root, m, c.grantIds, c.receivers, c.nullifiers),
               c.vkeyHash, c.root, m, c.grantIds, c.receivers, c.nullifiers, m)
      BY <1>4, <1>5, <2>1, PackedWords, Zenon
    <2>4. QED
      BY <2>2, <2>3
  <1>11. c.numClaims = N /\ vk = c.vkeyHash /\ root = c.root
    <2>1. m \in Nat /\ N \in Nat /\ ((3 + m) + m) + m = ((3 + N) + N) + N
      BY <1>2, <1>5, <1>9, <1>10 DEF m, Laid
    <2>2. m = N
      BY <2>1
    <2>3. QED
      BY <2>2, <1>9, <1>10 DEF m, Laid
  <1>12. ASSUME NEW k \in 1 .. N PROVE ClaimAt(c, k) \in Proven[<<c.vkeyHash, c.root>>]
    <2>1. /\ c.grantIds[k] = slots[k].grant
          /\ c.receivers[k] = slots[k].receiver
          /\ c.nullifiers[k] = slots[k].nullifier
      BY <1>8, <1>9, <1>10, <1>11 DEF m, Laid
    <2>2. slots[k] \in Claims /\ slots[k] \in Proven[<<vk, root>>]
      BY <1>6 DEF N
    <2>3. slots[k] = ClaimAt(c, k)
      BY <2>1, <2>2 DEF Claims, ClaimAt
    <2>4. QED
      BY <2>2, <2>3, <1>11
  <1>13. QED
    BY <1>11, <1>12 DEF N
-----------------------------------------------------------------------------
(* The inductive invariant.                                                *)

IInv == TypeOK /\ OneGrantPerNullifier /\ NullifierIffPaid /\ LoopInvariant

LEMMA InvInit == Init => IInv
  <1>1. Init => TypeOK
    BY TypeInit
  <1>2. Init => OneGrantPerNullifier /\ NullifierIffPaid /\ LoopInvariant
    BY DEF Init, OneGrantPerNullifier, PaidOnce, NullifierIffPaid, NullifiersOf,
           LoopInvariant
  <1>3. QED
    BY <1>1, <1>2 DEF IInv

\* Begin: every claim of an accepted call is eligible.
LEMMA InvBegin == ASSUME IInv, NEW c \in Calls, Begin(c) PROVE IInv'
  <1>1. TypeOK'
    BY TypeStep DEF IInv, Next
  <1>2. OneGrantPerNullifier' /\ NullifierIffPaid'
    BY DEF IInv, OneGrantPerNullifier, PaidOnce, NullifierIffPaid, NullifiersOf,
           Begin, contractVars
  <1>3. \A k \in 1 .. c.numClaims : ClaimAt(c, k) \in EligibleClaims
    <2>1. c.vkeyHash = VKEY_HASH /\ c.root \in GenuineRoots
      BY DEF Begin, Accepts, IInv, TypeOK, ChainTypeOK
    <2>2. \A k \in 1 .. c.numClaims : ClaimAt(c, k) \in Proven[<<VKEY_HASH, c.root>>]
      BY AcceptedBatchProved, <2>1 DEF Begin, Accepts
    <2>3. QED
      BY <2>1, <2>2 DEF EligibleClaims
  <1>4. LoopInvariant'
    <2>1. /\ phase' = "loop" /\ call' = c /\ i' = 0 /\ claimed' = claimed
          /\ saved'.nullifierHashes = nullifierHashes /\ saved'.claimed = claimed
      BY DEF Begin, contractVars
    <2>2. Len(claimed) \in Nat
      BY DEF IInv, TypeOK
    <2>3. nullifierHashes = NullifiersOf(claimed) /\ PaidOnce(claimed)
      BY DEF IInv, OneGrantPerNullifier, NullifierIffPaid
    <2>4. \A k \in 1 .. call'.numClaims : ClaimAt(call', k) \in EligibleClaims
      BY <1>3, <2>1
    <2>5. QED
      BY <2>1, <2>2, <2>3, <2>4 DEF LoopInvariant
  <1>5. QED
    BY <1>1, <1>2, <1>4 DEF IInv

\* PayClaim: the log grows by a claim of a fresh nullifier, the next of the call.
LEMMA InvPayClaim == ASSUME IInv, PayClaim PROVE IInv'
  <1>1. TypeOK'
    BY TypeStep DEF IInv, Next, Execute
  <1>2. /\ i + 1 \in 1 .. call.numClaims /\ Current \in Claims
        /\ claimed \in Seq(Claims) /\ i \in Nat
    BY CurrentTyped, CountNat DEF IInv, TypeOK, PayClaim
  <1>3. /\ Current.nullifier \notin nullifierHashes
        /\ Current.receiver # ZeroAddress
        /\ nullifierHashes' = nullifierHashes \cup {Current.nullifier}
        /\ claimed' = Append(claimed, Current)
        /\ i' = i + 1 /\ phase = "loop" /\ phase' = "loop"
        /\ call' = call /\ saved' = saved
    BY DEF PayClaim, CanPay
  <1>4. PaidOnce(claimed) /\ nullifierHashes = NullifiersOf(claimed)
    BY DEF IInv, OneGrantPerNullifier, NullifierIffPaid
  <1>5. /\ PaidOnce(Append(claimed, Current))
        /\ NullifiersOf(Append(claimed, Current))
             = NullifiersOf(claimed) \cup {Current.nullifier}
    BY <1>2, <1>3, <1>4, AppendPaidOnce
  <1>6. OneGrantPerNullifier' /\ NullifierIffPaid'
    BY <1>3, <1>4, <1>5
    DEF OneGrantPerNullifier, NullifierIffPaid, PaidOnce, NullifiersOf
  <1>7. LoopInvariant'
    <2> DEFINE base == Len(saved.claimed)
    <2>1. /\ saved.nullifierHashes = NullifiersOf(saved.claimed)
          /\ PaidOnce(saved.claimed)
          /\ \A k \in 1 .. call.numClaims : ClaimAt(call, k) \in EligibleClaims
          /\ Len(claimed) = base + i
          /\ \A k \in 1 .. base : claimed[k] = saved.claimed[k]
          /\ \A k \in 1 .. i : /\ claimed[base + k] = ClaimAt(call, k)
                               /\ ClaimAt(call, k).receiver # ZeroAddress
      BY <1>3 DEF IInv, LoopInvariant
    <2>2. base \in Nat
      BY DEF IInv, TypeOK
    <2> HIDE DEF base
    <2>3. /\ Len(claimed') = Len(claimed) + 1
          /\ \A k \in 1 .. Len(claimed) : claimed'[k] = claimed[k]
          /\ claimed'[Len(claimed) + 1] = Current
      BY <1>2, <1>3, AppendAt
    <2>4. Len(claimed') = base + i'
      BY <1>2, <1>3, <2>1, <2>2, <2>3
    <2>5. \A k \in 1 .. base : claimed'[k] = saved.claimed[k]
      BY <1>2, <2>1, <2>2, <2>3
    <2>6. ASSUME NEW k \in 1 .. i'
          PROVE  /\ claimed'[base + k] = ClaimAt(call, k)
                 /\ ClaimAt(call, k).receiver # ZeroAddress
      <3>1. CASE k \in 1 .. i
        <4>1. base + k \in 1 .. Len(claimed)
          BY <1>2, <2>1, <2>2, <3>1
        <4>2. QED
          BY <2>1, <2>3, <3>1, <4>1
      <3>2. CASE k = i + 1
        <4>1. base + k = Len(claimed) + 1
          BY <1>2, <2>1, <2>2, <3>2
        <4>2. Current = ClaimAt(call, k)
          BY <3>2 DEF Current
        <4>3. QED
          BY <1>3, <2>3, <4>1, <4>2
      <3>3. k \in 1 .. i \/ k = i + 1
        BY <1>2, <1>3
      <3>4. QED
        BY <3>1, <3>2, <3>3
    <2>7. QED
      BY <1>3, <2>1, <2>4, <2>5, <2>6 DEF LoopInvariant, base
  <1>8. QED
    BY <1>1, <1>6, <1>7 DEF IInv

LEMMA InvStep == IInv /\ [Next]_vars => IInv'
  <1> SUFFICES ASSUME IInv, [Next]_vars PROVE IInv'
    OBVIOUS
  <1>0. TypeOK'
    BY TypeStep DEF IInv
  <1> USE DEF OneGrantPerNullifier, NullifierIffPaid, LoopInvariant, PaidOnce,
              NullifiersOf, ClaimAt, EligibleClaims
  <1>1. ASSUME NEW c \in Calls, Begin(c) PROVE IInv'
    BY <1>1, InvBegin
  <1>2. ASSUME NEW c \in Calls, Reject(c) PROVE IInv'
    BY <1>0, <1>2 DEF IInv, Reject, contractVars
  <1>3. CASE PayClaim
    BY <1>3, InvPayClaim
  <1>4. CASE Revert
    BY <1>0, <1>4 DEF IInv, Revert
  <1>5. CASE Commit
    BY <1>0, <1>5 DEF IInv, Commit, contractVars
  <1>6. CASE Environment
    BY <1>0, <1>6 DEF IInv, Environment, contractVars, txVars
  <1>7. CASE UNCHANGED vars
    BY <1>0, <1>7 DEF IInv, vars, contractVars, txVars
  <1>8. QED
    BY <1>1, <1>2, <1>3, <1>4, <1>5, <1>6, <1>7 DEF Next, Execute

LEMMA Invariance == Spec => []IInv
  BY InvInit, InvStep, PTL DEF Spec
-----------------------------------------------------------------------------
(* The safety theorems.                                                    *)

\* nullifierHashes prevents double payment: by two batches, inside one batch,
\* and across reverted attempts.
THEOREM NoDoublePayment == Spec => []OneGrantPerNullifier
  <1>1. IInv => OneGrantPerNullifier
    BY DEF IInv
  <1>2. QED
    BY <1>1, Invariance, PTL

\* A nullifier is marked exactly when its claim was paid, inside the loop and
\* out of it: no owner loses a nullifier to a failed transfer.
THEOREM MarkedIffPaid == Spec => []NullifierIffPaid
  <1>1. IInv => NullifierIffPaid
    BY DEF IInv
  <1>2. QED
    BY <1>1, Invariance, PTL

\* In the loop, the batch is as large as the contract allows: the word count of
\* the circuit's output leaves distributeGrants no other way past the hash check.
OnlyFullBatches == phase = "loop" => call.numClaims = MAX_NUM_CLAIMS
THEOREM FullBatchesOnly == Spec => []OnlyFullBatches
  <1>1. Init => OnlyFullBatches
    BY DEF Init, OnlyFullBatches
  <1>2. ASSUME OnlyFullBatches, [Next]_vars PROVE OnlyFullBatches'
    <2>1. ASSUME NEW c \in Calls, Begin(c) PROVE OnlyFullBatches'
      BY <2>1, AcceptedBatchProved DEF Begin, Accepts, OnlyFullBatches
    <2>2. ASSUME NEW c \in Calls, Reject(c) PROVE OnlyFullBatches'
      BY <2>2 DEF Reject, OnlyFullBatches
    <2>3. CASE PayClaim \/ Revert \/ Commit
      BY <1>2, <2>3 DEF PayClaim, Revert, Commit, OnlyFullBatches
    <2>4. CASE Environment \/ UNCHANGED vars
      BY <1>2, <2>4 DEF Environment, vars, txVars, OnlyFullBatches
    <2>5. QED
      BY <1>2, <2>1, <2>2, <2>3, <2>4 DEF Next, Execute
  <1>3. QED
    BY <1>1, <1>2, PTL DEF Spec

\* A commit has paid the whole batch in order, and a revert nothing.
AllOrNothingStep ==
    phase = "loop" /\ phase' = "idle" =>
        \/ /\ receipt' = "success"
           /\ claimed' = saved.claimed \o BatchOf(call)
        \/ /\ receipt' = "reverted"
           /\ wld' = saved.wld
           /\ nullifierHashes' = saved.nullifierHashes
           /\ claimed' = saved.claimed

\* When the loop index has reached the end, the log is the checkpoint followed
\* by the batch.
LEMMA LoopEnd ==
    ASSUME IInv, phase = "loop", LoopDone
    PROVE  claimed = saved.claimed \o BatchOf(call)
  <1> DEFINE base == Len(saved.claimed)
             n == call.numClaims
             batch == BatchOf(call)
             both == saved.claimed \o batch
  <1>1. /\ claimed \in Seq(Claims) /\ saved.claimed \in Seq(Claims)
        /\ base \in Nat /\ n \in Nat /\ i = n
        /\ call \in Calls /\ SameLengths(call)
    BY CountNat DEF IInv, TypeOK, LoopDone
  <1>2. \A k \in 1 .. n : ClaimAt(call, k) \in Claims
    BY <1>1, BatchTyped
  <1>3. /\ batch \in Seq(Claims) /\ Len(batch) = n
        /\ \A k \in 1 .. n : batch[k] = ClaimAt(call, k)
    BY <1>1, <1>2 DEF BatchOf
  <1> HIDE DEF batch
  <1>4. /\ both \in Seq(Claims) /\ Len(both) = base + Len(batch)
        /\ \A k \in 1 .. base + Len(batch) :
              both[k] = IF k <= base THEN saved.claimed[k] ELSE batch[k - base]
    BY <1>1, <1>3, ConcatProperties, Zenon
  <1>5. /\ Len(claimed) = base + i
        /\ \A k \in 1 .. base : claimed[k] = saved.claimed[k]
        /\ \A k \in 1 .. i : claimed[base + k] = ClaimAt(call, k)
    BY DEF IInv, LoopInvariant
  <1> HIDE DEF base, n, both
  <1>6. Len(claimed) = Len(both)
    BY <1>1, <1>3, <1>4, <1>5
  <1>7. ASSUME NEW k \in 1 .. Len(claimed) PROVE claimed[k] = both[k]
    <2>1. k \in 1 .. base + n
      BY <1>1, <1>5
    <2>2. both[k] = IF k <= base THEN saved.claimed[k] ELSE batch[k - base]
      BY <1>3, <1>4, <2>1
    <2>3. CASE k <= base
      <3>1. k \in 1 .. base
        BY <1>1, <2>1, <2>3
      <3>2. QED
        BY <1>5, <2>2, <2>3, <3>1
    <2>4. CASE ~(k <= base)
      <3>1. k - base \in 1 .. n /\ base + (k - base) = k
        BY <1>1, <2>1, <2>4
      <3>2. claimed[base + (k - base)] = ClaimAt(call, k - base)
        BY <1>1, <1>5, <3>1
      <3>3. both[k] = ClaimAt(call, k - base)
        BY <1>3, <2>2, <2>4, <3>1
      <3>4. QED
        BY <3>1, <3>2, <3>3
    <2>5. QED
      BY <2>3, <2>4
  <1>8. QED
    BY <1>1, <1>4, <1>6, <1>7, SeqEqual, Zenon DEF both, batch

\* README: "claims are all-or-nothing"; what the contract's revert and loop give.
THEOREM BatchesAllOrNothing == Spec => AllOrNothing
  <1>1. ASSUME IInv, [Next]_vars PROVE [AllOrNothingStep]_vars
    <2> USE DEF AllOrNothingStep
    <2>1. ASSUME NEW c \in Calls, Begin(c) \/ Reject(c) PROVE AllOrNothingStep
      BY <2>1 DEF Begin, Reject
    <2>2. CASE PayClaim
      BY <2>2 DEF PayClaim
    <2>3. CASE Revert
      BY <2>3 DEF Revert
    <2>4. CASE Commit
      BY <1>1, <2>4, LoopEnd DEF Commit, contractVars
    <2>5. CASE Environment
      BY <2>5 DEF Environment, txVars
    <2>6. QED
      BY <1>1, <2>1, <2>2, <2>3, <2>4, <2>5 DEF Next, Execute
  <1>2. QED
    BY <1>1, Invariance, PTL DEF Spec, AllOrNothing, AllOrNothingStep
-----------------------------------------------------------------------------
(* Refinement of the abstract ledger.                                      *)

\* Commit is one Pay step: the batch is eligible, has receivers, no repeated
\* nullifier, and none that an earlier batch was paid for.
LEMMA CommitPays ==
    ASSUME IInv, Commit
    PROVE  \E B \in SUBSET EligibleClaims : Ledger!Pay(B)
  <1> DEFINE base == Len(saved.claimed)
             n == call.numClaims
             B == {ClaimAt(call, k) : k \in 1 .. n}
  <1>1. /\ phase = "loop" /\ phase' = "idle" /\ claimed' = claimed
        /\ base \in Nat /\ n \in Nat /\ i = n
        /\ DOMAIN saved.claimed = 1 .. base
        /\ DOMAIN claimed = 1 .. (base + n)
        /\ PaidOnce(claimed)
    BY CountNat DEF IInv, TypeOK, Commit, contractVars, LoopDone, LoopInvariant,
                    OneGrantPerNullifier
  <1>2. /\ \A k \in 1 .. n : ClaimAt(call, k) \in EligibleClaims
        /\ \A k \in 1 .. base : claimed[k] = saved.claimed[k]
        /\ \A k \in 1 .. n : /\ claimed[base + k] = ClaimAt(call, k)
                             /\ ClaimAt(call, k).receiver # ZeroAddress
    BY <1>1 DEF IInv, LoopInvariant
  <1> HIDE DEF base, n
  <1>3. \A j, k \in 1 .. (base + n) :
            claimed[j].nullifier = claimed[k].nullifier => j = k
    BY <1>1 DEF PaidOnce
  <1>4. \A k \in 1 .. base : k \in 1 .. (base + n)
    BY <1>1
  <1>5. \A k \in 1 .. n : base + k \in 1 .. (base + n) /\ ~(base + k <= base)
    BY <1>1
  <1>6. B \in SUBSET EligibleClaims
    BY <1>2
  <1>7. \A c \in B : c.receiver # ZeroAddress
    BY <1>2
  <1>8. ASSUME NEW c \in B, NEW d \in B, c.nullifier = d.nullifier PROVE c = d
    <2>1. PICK j \in 1 .. n : c = claimed[base + j]
      BY <1>2
    <2>2. PICK k \in 1 .. n : d = claimed[base + k]
      BY <1>2
    <2>3. base + j = base + k
      BY <1>3, <1>5, <1>8, <2>1, <2>2
    <2>4. QED
      BY <2>1, <2>2, <2>3
  <1>9. ASSUME NEW c \in B, NEW k \in 1 .. base
        PROVE  c.nullifier # saved.claimed[k].nullifier
    <2>1. PICK j \in 1 .. n : c = claimed[base + j]
      BY <1>2
    <2>2. base + j # k
      BY <1>1, <1>5
    <2>3. QED
      BY <1>2, <1>3, <1>4, <1>5, <2>1, <2>2
  <1>10. {claimed[k] : k \in 1 .. (base + n)}
           = {saved.claimed[k] : k \in 1 .. base} \cup B
    <2>1. ASSUME NEW k \in 1 .. (base + n)
          PROVE  claimed[k] \in {saved.claimed[j] : j \in 1 .. base} \cup B
      <3>1. CASE k \in 1 .. base
        BY <1>2, <3>1
      <3>2. CASE k \notin 1 .. base
        <4>1. k - base \in 1 .. n /\ base + (k - base) = k
          BY <1>1, <3>2
        <4>2. claimed[k] = ClaimAt(call, k - base)
          BY <1>2, <4>1
        <4>3. QED
          BY <4>1, <4>2
      <3>3. QED
        BY <3>1, <3>2
    <2>2. \A k \in 1 .. base :
              saved.claimed[k] \in {claimed[j] : j \in 1 .. (base + n)}
      BY <1>2, <1>4
    <2>3. \A k \in 1 .. n :
              ClaimAt(call, k) \in {claimed[j] : j \in 1 .. (base + n)}
      BY <1>2, <1>5
    <2>4. QED
      BY <2>1, <2>2, <2>3
  <1>11. Committed = saved.claimed /\ Committed' = claimed
    BY <1>1 DEF Committed
  <1> HIDE DEF B
  <1>12. Ledger!Fresh(B)
    BY <1>1, <1>9, <1>11 DEF Ledger!Fresh
  <1>13. Ledger!Unambiguous(B)
    BY <1>8 DEF Ledger!Unambiguous
  <1>14. {Committed[k] : k \in DOMAIN Committed}'
           = {Committed[k] : k \in DOMAIN Committed} \cup B
    BY <1>1, <1>10, <1>11
  <1>15. PICK D \in SUBSET EligibleClaims : D = B
    BY <1>6
  <1>16. Ledger!Pay(D)
    BY <1>7, <1>12, <1>13, <1>14, <1>15 DEF Ledger!Pay
  <1>17. QED
    BY <1>16

\* distributeGrants implements the ledger: what is committed on chain is only
\* ever extended by sound batches of eligible claims.
THEOREM V1ImplementsLedger == Spec => ImplementsLedger
  <1> DEFINE paid == {Committed[k] : k \in DOMAIN Committed}
  <1>1. Init => Ledger!Init
    BY DEF Init, Ledger!Init, Committed
  <1>2. ASSUME IInv, [Next]_vars PROVE [Ledger!Next]_paid
    <2>1. ASSUME NEW c \in Calls, Begin(c) \/ Reject(c) PROVE UNCHANGED paid
      <3>1. Committed' = Committed
        BY <2>1 DEF Begin, Reject, contractVars, Committed
      <3>2. QED
        BY <3>1
    <2>2. CASE PayClaim
      <3>1. Committed' = Committed
        BY <2>2 DEF PayClaim, Committed
      <3>2. QED
        BY <3>1
    <2>3. CASE Revert
      <3>1. Committed' = Committed
        BY <2>3 DEF Revert, Committed
      <3>2. QED
        BY <3>1
    <2>4. CASE Commit
      BY <1>2, <2>4, CommitPays DEF Ledger!Next
    <2>5. CASE Environment \/ UNCHANGED vars
      <3>1. Committed' = Committed
        BY <2>5 DEF Environment, vars, contractVars, txVars, Committed
      <3>2. QED
        BY <3>1
    <2>6. QED
      BY <1>2, <2>1, <2>2, <2>3, <2>4, <2>5 DEF Next, Execute
  <1>3. QED
    BY <1>1, <1>2, Invariance, PTL DEF Spec, ImplementsLedger, Ledger!Spec
-----------------------------------------------------------------------------
(* The token against the log.                                              *)


\* A grant paid and logged, WLD sent to the contract from outside, and the start:
\* the token agrees with the log.
LEMMA GrantsPayable ==
    /\ Payable(Claims, Amount, Addresses) /\ IsFiniteSet(Addresses)
    /\ Distributor \in Addresses
  BY ChainAssumption DEF ChainAssumption, Payable, Claims

LEMMA PaymentAgrees ==
    ASSUME wld \in [Addresses -> Nat], supply \in Nat, NEW log \in Seq(Claims),
           NEW e \in Claims, Agrees(wld, supply, log), Transfer(e.receiver, Amount[e.grant])
    PROVE  Agrees(wld', supply, Append(log, e))
  <1>1. Moved(wld, wld', Distributor, e.receiver, Amount[e.grant])
    BY DEF Moved, Transfer
  <1>2. Balanced(wld, supply, log, Amount, Addresses, Distributor)
    BY DEF Agrees
  <1>3. Balanced(wld', supply, Append(log, e), Amount, Addresses, Distributor)
    BY <1>1, <1>2, GrantsPayable, PaymentBalances
  <1>4. QED
    BY <1>3 DEF Agrees

LEMMA ChainStepAgrees ==
    ASSUME ChainTypeOK, NEW log \in Seq(Claims), Agrees(wld, supply, log), ChainNext
    PROVE  Agrees(wld', supply', log)
  <1>1. wld \in [Addresses -> Nat] /\ supply \in Nat
    BY ChainAssumption DEF ChainTypeOK, ChainAssumption
  <1>2. ASSUME NEW amount \in 1 .. MaxSupply, Fund(amount)
        PROVE  Agrees(wld', supply', log)
    <2>1. /\ wld' = [wld EXCEPT ![Distributor] = @ + amount]
          /\ supply' = supply + amount
          /\ amount \in Nat
      BY <1>2, ChainAssumption DEF Fund, ChainAssumption
    <2>2. Balanced(wld, supply, log, Amount, Addresses, Distributor)
      BY DEF Agrees
    <2>3. Balanced([wld EXCEPT ![Distributor] = @ + amount], supply + amount, log,
                   Amount, Addresses, Distributor)
      BY <1>1, <2>1, <2>2, GrantsPayable, FundingBalances
    <2>4. QED
      BY <2>1, <2>3 DEF Agrees
  <1>3. CASE UNCHANGED <<wld, supply>>
    BY <1>3
  <1>4. ChainNext => UNCHANGED <<wld, supply>> \/ \E amount \in 1 .. MaxSupply : Fund(amount)
    BY DEF ChainNext, RootAppears, RootExpires, GrantOpens, GrantCloses
  <1>5. QED
    BY <1>2, <1>3, <1>4

LEMMA NothingAgrees == ChainInit => Agrees(wld, supply, << >>)
  BY GrantsPayable, NothingBalances DEF ChainInit, Agrees

\* The balances agree with the log, and inside a transaction those a revert goes
\* back to agree with the log it goes back to: WLD reaches the contract only
\* between transactions.
SavedAgrees ==
    phase = "loop" => Agrees(saved.wld, supply, saved.claimed)
AInv == IInv /\ AccountsMatchClaims /\ SavedAgrees

LEMMA AccountsInit == Init => AInv
  <1> SUFFICES ASSUME Init PROVE AInv
    OBVIOUS
  <1>1. IInv /\ Agrees(wld, supply, << >>)
    BY InvInit, NothingAgrees DEF Init
  <1>2. QED
    BY <1>1 DEF AInv, AccountsMatchClaims, SavedAgrees, Init

LEMMA AccountsStep == AInv /\ [Next]_vars => AInv'
  <1> SUFFICES ASSUME AInv, [Next]_vars PROVE AInv'
    OBVIOUS
  <1>0. IInv'
    BY InvStep DEF AInv
  <1>1. ChainTypeOK /\ claimed \in Seq(Claims) /\ Agrees(wld, supply, claimed)
    BY DEF AInv, IInv, TypeOK, AccountsMatchClaims
  <1> SUFFICES Agrees(wld', supply', claimed') /\ SavedAgrees'
    BY <1>0 DEF AInv, AccountsMatchClaims, Agrees, Balanced, PaidTo
  <1>2. ASSUME NEW c \in Calls, Begin(c)
        PROVE  Agrees(wld', supply', claimed') /\ SavedAgrees'
    <2>1. /\ wld' = wld /\ supply' = supply /\ claimed' = claimed
          /\ saved'.wld = wld /\ saved'.claimed = claimed
      BY <1>2 DEF Begin, chainVars, contractVars
    <2>2. QED
      BY <1>1, <2>1 DEF SavedAgrees, Agrees, Balanced, PaidTo
  <1>3. ASSUME NEW c \in Calls, Reject(c)
        PROVE  Agrees(wld', supply', claimed') /\ SavedAgrees'
    <2>1. /\ wld' = wld /\ supply' = supply /\ claimed' = claimed /\ phase' = "idle"
      BY <1>3 DEF Reject, chainVars, contractVars
    <2>2. QED
      BY <1>1, <2>1 DEF SavedAgrees
  <1>4. CASE PayClaim
    <2>1. /\ Current \in Claims /\ claimed' = Append(claimed, Current)
          /\ Transfer(Current.receiver, Amount[Current.grant])
          /\ supply' = supply /\ saved' = saved /\ phase' = phase
      BY <1>4, CurrentTyped DEF PayClaim, AInv, IInv
    <2>2. wld \in [Addresses -> Nat] /\ supply \in Nat
      BY <1>1, ChainAssumption DEF ChainTypeOK, ChainAssumption
    <2>3. Agrees(wld', supply, Append(claimed, Current))
      BY <1>1, <2>1, <2>2, PaymentAgrees
    <2>4. SavedAgrees'
      BY <2>1 DEF AInv, SavedAgrees, Agrees, Balanced, PaidTo
    <2>5. QED
      BY <2>1, <2>3, <2>4
  <1>5. CASE Revert
    <2>1. /\ wld' = saved.wld /\ supply' = supply /\ claimed' = saved.claimed
          /\ phase = "loop" /\ phase' = "idle"
      BY <1>5 DEF Revert
    <2>2. Agrees(saved.wld, supply, saved.claimed)
      BY <2>1 DEF AInv, SavedAgrees
    <2>3. QED
      BY <2>1, <2>2 DEF SavedAgrees
  <1>6. CASE Commit
    <2>1. /\ wld' = wld /\ supply' = supply /\ claimed' = claimed /\ phase' = "idle"
      BY <1>6 DEF Commit, chainVars, contractVars
    <2>2. QED
      BY <1>1, <2>1 DEF SavedAgrees
  <1>7. CASE Environment
    <2>1. ChainNext /\ claimed' = claimed /\ phase' = "idle"
      BY <1>7 DEF Environment, contractVars, txVars
    <2>2. Agrees(wld', supply', claimed)
      BY <1>1, <2>1, ChainStepAgrees
    <2>3. QED
      BY <2>1, <2>2 DEF SavedAgrees
  <1>8. CASE UNCHANGED vars
    <2>1. /\ wld' = wld /\ supply' = supply /\ claimed' = claimed
          /\ saved' = saved /\ phase' = phase
      BY <1>8 DEF vars, chainVars, contractVars, txVars
    <2>2. QED
      BY <1>1, <2>1 DEF AInv, SavedAgrees, Agrees, Balanced, PaidTo
  <1>9. QED
    BY <1>2, <1>3, <1>4, <1>5, <1>6, <1>7, <1>8 DEF Next, Execute

\* The WLD each receiver holds is what the GrantClaimed events say it was paid, and
\* the contract holds the rest of what it was sent: in the loop, after a commit
\* and after a revert that undid any number of transfers.
THEOREM AccountsAgree == Spec => []AccountsMatchClaims
  <1>1. AInv => AccountsMatchClaims
    BY DEF AInv
  <1>2. QED
    BY <1>1, AccountsInit, AccountsStep, PTL DEF Spec

-----------------------------------------------------------------------------
(* The scheduler's full batches.                                           *)

\* A full batch leaves no slot to pad, so the circuit hashes the words that the
\* contract derives from the calldata.
LEMMA FullBatchDerived ==
    ASSUME NEW r \in GenuineRoots,
           NEW b \in [1 .. MAX_NUM_CLAIMS -> Proven[<<VKEY_HASH, r>>]]
    PROVE  LET c == HonestCall(r, MAX_NUM_CLAIMS, b)
           IN  /\ SameLengths(c) /\ c.numClaims = MAX_NUM_CLAIMS
               /\ c.proof.output = DerivedOutput(c)
  <1> DEFINE N == MAX_NUM_CLAIMS
             gs == [k \in 1 .. N |-> b[k].grant]
             rs == [k \in 1 .. N |-> b[k].receiver]
             ns == [k \in 1 .. N |-> b[k].nullifier]
             c == HonestCall(r, N, b)
  <1>1. N \in Nat /\ DOMAIN b = 1 .. N
    BY CallAssumption DEF CallAssumption
  <1>2. Len(gs) = N /\ Len(rs) = N /\ Len(ns) = N
    <2>1. gs = [k \in 1 .. N |-> gs[k]] /\ rs = [k \in 1 .. N |-> rs[k]]
            /\ ns = [k \in 1 .. N |-> ns[k]]
      OBVIOUS
    <2> HIDE DEF gs, rs, ns, N
    <2>2. QED
      BY <1>1, <2>1, FunctionLength
  <1>3. /\ c.grantIds = gs /\ c.receivers = rs /\ c.nullifiers = ns /\ c.numClaims = N
        /\ c.vkeyHash = VKEY_HASH /\ c.root = r
        /\ c.proof.output = CircuitOutput(VKEY_HASH, r, N, b)
    BY DEF HonestCall
  <1>4. CircuitOutput(VKEY_HASH, r, N, b) = Packed(VKEY_HASH, r, N, gs, rs, ns)
    BY <1>1 DEF CircuitOutput
  <1> HIDE DEF gs, rs, ns, N, c
  <1>5. SameLengths(c) /\ c.numClaims = N /\ c.proof.output = DerivedOutput(c)
    BY <1>2, <1>3, <1>4 DEF SameLengths, DerivedOutput
  <1>6. QED
    BY <1>5 DEF N, c

\* The circuit, the scheduler's client and the contract agree on the order of the
\* hashed words: a full batch that could be paid is never turned down by a check.
THEOREM FullBatchesAccepted == Spec => []FullBatchAccepted
  <1>1. FullBatchAccepted
    <2> SUFFICES ASSUME NEW c \in HonestCalls({MAX_NUM_CLAIMS}), Distributable(c)
                 PROVE  Accepts(c)
      BY DEF FullBatchAccepted
    <2>1. PICK r \in GenuineRoots :
             \E b \in [1 .. MAX_NUM_CLAIMS -> Proven[<<VKEY_HASH, r>>]] :
                 c = HonestCall(r, MAX_NUM_CLAIMS, b)
      <3> DEFINE Batches(n, r) ==
                   {HonestCall(r, n, b) : b \in [1 .. n -> Proven[<<VKEY_HASH, r>>]]}
      <3>1. c \in UNION {Batches(n, r) : n \in {MAX_NUM_CLAIMS}, r \in GenuineRoots}
        BY DEF HonestCalls
      <3> HIDE DEF Batches
      <3>2. PICK n \in {MAX_NUM_CLAIMS}, r \in GenuineRoots : c \in Batches(n, r)
        BY <3>1
      <3>3. c \in Batches(MAX_NUM_CLAIMS, r)
        BY <3>2
      <3>4. QED
        BY <3>3 DEF Batches
    <2>2. PICK b \in [1 .. MAX_NUM_CLAIMS -> Proven[<<VKEY_HASH, r>>]] :
             c = HonestCall(r, MAX_NUM_CLAIMS, b)
      BY <2>1
    <2>3. /\ SameLengths(c) /\ c.numClaims = MAX_NUM_CLAIMS
          /\ c.proof.output = DerivedOutput(c)
      BY <2>2, FullBatchDerived
    <2>4. Authorised(c.sender) /\ c.vkeyHash = VKEY_HASH /\ c.proof.valid
      BY <2>2 DEF HonestCall, Authorised
    <2>5. c.root \in validRoots
      BY DEF Distributable
    <2>6. MAX_NUM_CLAIMS <= MAX_NUM_CLAIMS
      BY CallAssumption DEF CallAssumption
    <2>7. QED
      BY <2>3, <2>4, <2>5, <2>6 DEF Accepts
  <1>2. QED
    BY <1>1, PTL
=============================================================================
