----------------------------- MODULE GrantChain -----------------------------
(***************************************************************************)
(* What both aggregation contracts stand on: the WLD token they pay from,  *)
(* the World ID root validator, the grant schedule, and the claims World   *)
(* ID has really proved.  The three collaborators are contracts outside    *)
(* this repository; they are modelled from the calls the two contracts     *)
(* make to them and from the interfaces and mocks those calls are compiled *)
(* and tested against.                                                     *)
(***************************************************************************)
EXTENDS Naturals, FiniteSets

CONSTANTS
    VKeys,          \* Groth16 verification key hashes a proof can carry
    VKEY_HASH,      \* the one the contract was constructed with
    Roots,          \* identity-tree roots a proof can be made against
    GenuineRoots,   \* those of them the World ID tree really had
    Grants,         \* grant ids
    Amount,         \* Amount[g]: what GRANT.getAmount(g) returns
    Addresses,      \* accounts, claim receivers and senders alike
    ZeroAddress,    \* address(0)
    Distributor,    \* address(this) of the aggregation contract
    PROVER,         \* the only permitted sender, or ZeroAddress for anyone
    Nullifiers,     \* nullifier hashes
    Proven,         \* Proven[<<k, r>>]: claims with a Groth16 proof for key k, root r
    MaxSupply       \* bound: WLD ever sent to the contract from outside

\* One World ID claim: a leaf's public inputs besides the root.
Claims == [grant : Grants, receiver : Addresses, nullifier : Nullifiers]

ASSUME ChainAssumption ==
    /\ VKEY_HASH \in VKeys
    /\ GenuineRoots \subseteq Roots
    /\ Amount \in [Grants -> Nat]
    /\ IsFiniteSet(Addresses)
    /\ ZeroAddress \in Addresses /\ Distributor \in Addresses
    /\ PROVER \in Addresses
    /\ Proven \in [VKeys \X Roots -> SUBSET Claims]
    /\ MaxSupply \in Nat

VARIABLES
    wld,            \* WLD balances
    supply,         \* history: WLD sent to the contract from outside
    validRoots,     \* roots for which requireValidRoot does not revert
    openGrants      \* grants for which checkValidity does not revert

chainVars == <<wld, supply, validRoots, openGrants>>

\* Claims a verified person made: proved with the contract's own key against a
\* root of the real identity tree.  Anyone can prove anything against a key or
\* a tree of his own, which is why the contracts check both.
EligibleClaims == UNION {Proven[<<VKEY_HASH, r>>] : r \in GenuineRoots}

\* modifier onlyProver
Authorised(sender) == PROVER # ZeroAddress => sender = PROVER

\* WLD.transfer(to, amount) called by the contract: reverts on a low balance.
CanTransfer(amount) == amount <= wld[Distributor]
Transfer(to, amount) ==
    LET debited == [wld EXCEPT ![Distributor] = @ - amount]
    IN  wld' = [debited EXCEPT ![to] = @ + amount]

ChainTypeOK ==
    /\ wld \in [Addresses -> Nat]
    /\ supply \in 0 .. MaxSupply
    /\ validRoots \subseteq GenuineRoots
    /\ openGrants \subseteq Grants

ChainInit ==
    /\ wld = [a \in Addresses |-> 0]
    /\ supply = 0
    /\ validRoots = {}
    /\ openGrants = {}

\* The operator sends `amount` WLD to the contract.
Fund(amount) ==
    /\ amount \in 1 .. (MaxSupply - supply)
    /\ supply' = supply + amount
    /\ wld' = [wld EXCEPT ![Distributor] = @ + amount]
    /\ UNCHANGED <<validRoots, openGrants>>

\* The sequencer publishes a root, and roots age out of the validator's window.
RootAppears(r) ==
    /\ r \in GenuineRoots \ validRoots
    /\ validRoots' = validRoots \cup {r}
    /\ UNCHANGED <<wld, supply, openGrants>>

RootExpires(r) ==
    /\ r \in validRoots
    /\ validRoots' = validRoots \ {r}
    /\ UNCHANGED <<wld, supply, openGrants>>

\* Grant periods begin and end with time.
GrantOpens(g) ==
    /\ g \in Grants \ openGrants
    /\ openGrants' = openGrants \cup {g}
    /\ UNCHANGED <<wld, supply, validRoots>>

GrantCloses(g) ==
    /\ g \in openGrants
    /\ openGrants' = openGrants \ {g}
    /\ UNCHANGED <<wld, supply, validRoots>>

ChainNext ==
    \/ \E amount \in 1 .. MaxSupply : Fund(amount)
    \/ \E r \in Roots : RootAppears(r) \/ RootExpires(r)
    \/ \E g \in Grants : GrantOpens(g) \/ GrantCloses(g)
=============================================================================
