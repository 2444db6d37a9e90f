---------------------------- MODULE GrantAccounts ---------------------------
(***************************************************************************)
(* The accounts both aggregation contracts keep, and what must always be   *)
(* true of them: the nullifiers marked as used, and a history variable for *)
(* the claims the contract says it has paid.                               *)
(***************************************************************************)
EXTENDS GrantChain, ClaimLog, SequencesExt

VARIABLES
    nullifierHashes,  \* nullifiers marked as used
    claimed           \* history: the claims of the GrantClaimed events, in order

contractVars == <<nullifierHashes, claimed>>

\* No nullifier is paid twice: not by two batches, not by two entries of one
\* batch, not across a reverted attempt (NullifierHashAlreadyUsed).
OneGrantPerNullifier == PaidOnce(claimed)

\* A nullifier is burned exactly when its owner was paid, at every step of the
\* loop and after every revert: the hazard the comment on WLD.transfer names.
NullifierIffPaid == nullifierHashes = NullifiersOf(claimed)

\* The token agrees with a log of GrantClaimed events.
Agrees(balances, total, log) ==
    Balanced(balances, total, log, Amount, Addresses, Distributor)

\* The token agrees with the events, whatever is paid, reverted or sent to the
\* contract, and also when the contract itself is a claim's receiver.
AccountsMatchClaims == Agrees(wld, supply, claimed)
=============================================================================
