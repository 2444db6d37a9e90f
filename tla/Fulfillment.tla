----------------------------- MODULE Fulfillment -----------------------------
(***************************************************************************)
(* What becomes of a proof once it is made: the scheduler's retry loop,    *)
(* the transactions it leaves on the chain, and the contract's ledger.     *)
(* V1: a transaction pays the request's whole batch or reverts.            *)
(*                                                                         *)
(* External: the node and the chain.  An answer of the node may be lost    *)
(* after it has taken a transaction, and what it has taken is mined,       *)
(* in any order and at any later time, or dropped.                         *)
(***************************************************************************)
EXTENDS Naturals

CONSTANTS
    Requests,
    Batch,                  \* Batch[r]: the claims of the request
    ZeroAddress,            \* no receiver
    retry_send_threshold,   \* attempts to send one batch
    NoRequest               \* nobody holds the tracker's mutex

Attempts == 1 .. retry_send_threshold
Claims == UNION {Batch[r] : r \in Requests}

ASSUME FulfillmentAssumption ==
    /\ retry_send_threshold \in Nat \ {0}
    /\ NoRequest \notin Requests
    /\ DOMAIN Batch = Requests
    /\ \A c \in Claims : c.receiver # ZeroAddress

VARIABLES
    phase,      \* phase[r]: how far the request's future is
    failures,   \* failures[r]: sends that ended in an error
    holder,     \* the request whose future holds the tracker's mutex
    awaiting,   \* awaiting[r]: whether a transaction was sent and is awaited
    tx,         \* tx[r][n]: what the chain did with the n-th attempt
    open,       \* requests whose root, grants and funds the contract accepts now
    refused,    \* history: requests one of whose transactions met a closed door
    paid        \* the ledger: claims paid

vars == <<phase, failures, holder, awaiting, tx, open, refused, paid>>
chain == <<open, refused, paid>>
future == <<phase, failures, holder, awaiting>>

Ledger == INSTANCE GrantLedger WITH Eligible <- Claims

Init ==
    /\ phase = [r \in Requests |-> "proved"]
    /\ failures = [r \in Requests |-> 0]
    /\ holder = NoRequest
    /\ awaiting = [r \in Requests |-> FALSE]
    /\ tx = [r \in Requests |-> [n \in Attempts |-> "none"]]
    /\ open \in SUBSET Requests
    /\ refused = {}
    /\ paid = {}

\* What distributeGrants checks of a batch, all of it in one transaction: whether its
\* root and grants are valid and the money is there, and the nullifiers.
Payable(r) ==
    /\ r \in open
    /\ Ledger!Unambiguous(Batch[r])
    /\ Ledger!Fresh(Batch[r])

-----------------------------------------------------------------------------
(* The future of a request, holding the mutex.                             *)

Attempt(r) == failures[r] + 1

StartSending(r) ==
    /\ phase[r] = "proved"
    /\ holder = NoRequest
    /\ phase' = [phase EXCEPT ![r] = "sending"]
    /\ holder' = r
    /\ UNCHANGED <<failures, awaiting, tx, chain>>

End(r, outcome) ==
    /\ phase' = [phase EXCEPT ![r] = outcome]
    /\ holder' = NoRequest

\* The loop goes round again after an error, as long as attempts are left.
RetryKeepingMutex(r) ==
    /\ failures' = [failures EXCEPT ![r] = @ + 1]
    /\ awaiting' = [awaiting EXCEPT ![r] = FALSE]
    /\ IF Attempt(r) < retry_send_threshold THEN UNCHANGED <<phase, holder>>
       ELSE phase' = [phase EXCEPT ![r] = "gave up"] /\ UNCHANGED holder
Retry(r) ==
    /\ failures' = [failures EXCEPT ![r] = @ + 1]
    /\ awaiting' = [awaiting EXCEPT ![r] = FALSE]
    /\ IF Attempt(r) < retry_send_threshold THEN UNCHANGED <<phase, holder>>
       ELSE End(r, "gave up")

\* The node refuses a transaction that would revert now, or is out of reach.
SendRefused(r) ==
    /\ phase[r] = "sending" /\ ~ awaiting[r]
    /\ Retry(r)
    /\ UNCHANGED <<tx, chain>>

\* The node takes the transaction; its answer may get lost.
Send(r) ==
    /\ phase[r] = "sending" /\ ~ awaiting[r]
    /\ Payable(r)
    /\ tx' = [tx EXCEPT ![r][Attempt(r)] = "pending"]
    /\ \/ /\ awaiting' = [awaiting EXCEPT ![r] = TRUE]
          /\ UNCHANGED <<phase, failures, holder>>
       \/ Retry(r)
    /\ UNCHANGED chain

\* A receipt, whatever its status.
ConfirmedWhenSent(r) ==
    /\ phase[r] = "sending" /\ awaiting[r]
    /\ End(r, "fulfilled")
    /\ UNCHANGED <<failures, awaiting, tx, chain>>
Confirmed(r) ==
    /\ phase[r] = "sending" /\ awaiting[r]
    /\ tx[r][Attempt(r)] \in {"success", "reverted"}
    /\ End(r, "fulfilled")
    /\ UNCHANGED <<failures, awaiting, tx, chain>>

\* The receipt is asked for and the node errs: the transaction is forgotten.
PollFails(r) ==
    /\ phase[r] = "sending" /\ awaiting[r]
    /\ Retry(r)
    /\ UNCHANGED <<tx, chain>>

\* No receipt: unwrap() panics, which drops the guard.
Dropped(r) ==
    /\ phase[r] = "sending" /\ awaiting[r]
    /\ tx[r][Attempt(r)] = "dropped"
    /\ End(r, "lost")
    /\ UNCHANGED <<failures, awaiting, tx, chain>>

-----------------------------------------------------------------------------
(* External: the chain.                                                    *)

Decide(r, n, status) ==
    /\ tx[r][n] = "pending"
    /\ tx' = [tx EXCEPT ![r][n] = status]

MineUnmarked(r, n) ==
    \/ /\ r \in open
       /\ Decide(r, n, "success")
       /\ paid' = paid \cup Batch[r]
       /\ UNCHANGED <<future, open, refused>>
    \/ /\ r \notin open
       /\ Decide(r, n, "reverted")
       /\ refused' = refused \cup {r}
       /\ UNCHANGED <<future, open, paid>>
Mine(r, n) ==
    \/ /\ Payable(r)
       /\ Decide(r, n, "success")
       /\ paid' = paid \cup Batch[r]
       /\ UNCHANGED <<future, open, refused>>
    \/ /\ ~ Payable(r)
       /\ Decide(r, n, "reverted")
       /\ refused' = IF r \in open THEN refused ELSE refused \cup {r}
       /\ UNCHANGED <<future, open, paid>>

Drop(r, n) ==
    /\ Decide(r, n, "dropped")
    /\ UNCHANGED <<future, chain>>

\* Roots expire, grants begin and end, the contract is funded and drained.
OutsideChanges(r) ==
    /\ open' \in {open \cup {r}, open \ {r}}
    /\ UNCHANGED <<future, tx, refused, paid>>

LoopStep(r) ==
    \/ StartSending(r) \/ SendRefused(r) \/ Send(r)
    \/ Confirmed(r) \/ PollFails(r) \/ Dropped(r)

Next ==
    \E r \in Requests :
        \/ LoopStep(r) \/ OutsideChanges(r)
        \/ \E n \in Attempts : Mine(r, n) \/ Drop(r, n)

Spec == Init /\ [][Next]_vars

\* The future runs when it can.  The node answers every send and, once it has
\* mined or dropped a transaction, says so; and it does one or the other.
Answered(r) == StartSending(r) \/ SendRefused(r) \/ Confirmed(r) \/ Dropped(r)
FairSpec ==
    /\ Spec
    /\ \A r \in Requests :
          /\ WF_vars(Answered(r))
          /\ \A n \in Attempts : WF_vars(Mine(r, n))

-----------------------------------------------------------------------------
Ended == {"fulfilled", "gave up", "lost"}

\* One request sends at a time, and the mutex is its own; a request has as many
\* failures as it may.
TypeOK ==
    /\ phase \in [Requests -> {"proved", "sending"} \cup Ended]
    /\ failures \in [Requests -> 0 .. retry_send_threshold]
    /\ holder \in Requests \cup {NoRequest}
    /\ awaiting \in [Requests -> BOOLEAN]
    /\ tx \in [Requests -> [Attempts ->
                 {"none", "pending", "success", "reverted", "dropped"}]]
    /\ open \subseteq Requests /\ refused \subseteq Requests
    /\ paid \subseteq Claims
    /\ \A r \in Requests :
          /\ phase[r] = "sending" <=> holder = r
          /\ phase[r] = "sending" => failures[r] < retry_send_threshold

Succeeded == {s \in Requests \X Attempts : tx[s[1]][s[2]] = "success"}

\* However often a batch is sent, because an answer was lost or a receipt was not
\* waited for, and whatever batches share a claim with it, no nullifier is paid by
\* two transactions.
RetryPaysOnce ==
    \A s, t \in Succeeded :
        (\E c \in Batch[s[1]], d \in Batch[t[1]] : c.nullifier = d.nullifier)
            => s = t

\* A request is reported fulfilled only if it is paid, or the contract was closed
\* to it when one of its transactions was mined, or another request has been
\* paid for the same nullifier meanwhile.
SharesWithPaid(r) ==
    \E s \in Succeeded :
        /\ s[1] # r
        /\ \E c \in Batch[r], d \in Batch[s[1]] : c.nullifier = d.nullifier
FulfilledUnlessOvertaken ==
    \A r \in Requests : phase[r] = "fulfilled" =>
        Batch[r] \subseteq paid \/ r \in refused \/ SharesWithPaid(r)

\* Every request's sending ends, so the mutex reaches every other request.
SendingEnds == <>(\A r \in Requests : phase[r] \in Ended)
=============================================================================
