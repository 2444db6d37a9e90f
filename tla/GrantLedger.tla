----------------------------- MODULE GrantLedger ----------------------------
(***************************************************************************)
(* What either aggregation contract promises, whatever its batching: a set *)
(* of paid claims that only grows, by claims of verified people, to real   *)
(* receivers, and with no nullifier paid twice.  V1 pays a whole batch in  *)
(* one step, V2 one claim at a time; both implement this specification.    *)
(***************************************************************************)
CONSTANTS
    Eligible,       \* claims World ID vouches for
    ZeroAddress     \* never a receiver

VARIABLE paid       \* the claims paid so far

\* No two claims of B share a nullifier, and none of B's is already paid.
Unambiguous(B) == \A c, d \in B : c.nullifier = d.nullifier => c = d
Fresh(B) == \A c \in B, p \in paid : c.nullifier # p.nullifier

Pay(B) ==
    /\ \A c \in B : c.receiver # ZeroAddress
    /\ Unambiguous(B)
    /\ Fresh(B)
    /\ paid' = paid \cup B

Init == paid = {}
Next == \E B \in SUBSET Eligible : Pay(B)
Spec == Init /\ [][Next]_paid

\* A person is paid at most once per nullifier (contract: nullifierHashes).
OncePerNullifier == Unambiguous(paid)
=============================================================================
