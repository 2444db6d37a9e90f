-------------------------- MODULE FulfillmentProofs --------------------------
(***************************************************************************)
(* Theorems about the sending of proofs for every set of requests, every   *)
(* batch and every number of attempts.                                     *)
(***************************************************************************)
EXTENDS Fulfillment, TLAPS

\* Attempts are numbered once: the transactions after the current one, and the
\* current one until it is sent, do not exist.
AttemptsNumbered ==
    \A r \in Requests, n \in Attempts :
        n > failures[r] => tx[r][n] = "none" \/ (awaiting[r] /\ n = Attempt(r))

\* A request starts to send with all its attempts, and none is made before.
StartsFresh ==
    \A r \in Requests : phase[r] = "proved" => failures[r] = 0 /\ ~ awaiting[r]

\* The ledger holds what successful transactions have paid.
PaidBySucceeded ==
    \A c : c \in paid <=> \E s \in Succeeded : c \in Batch[s[1]]

\* The node takes no batch that pays a nullifier twice, and a transaction that
\* reverted met a closed door or a nullifier paid before.
Excused(r) == Batch[r] \subseteq paid \/ r \in refused \/ SharesWithPaid(r)
TransactionsTell ==
    \A r \in Requests, n \in Attempts :
        /\ tx[r][n] # "none" => Ledger!Unambiguous(Batch[r])
        /\ tx[r][n] = "reverted" => Excused(r)

IInv == /\ TypeOK /\ StartsFresh /\ AttemptsNumbered /\ PaidBySucceeded /\ TransactionsTell
        /\ RetryPaysOnce /\ FulfilledUnlessOvertaken

Statuses == {"none", "pending", "success", "reverted", "dropped"}

LEMMA Initially == Init => IInv
  <1> SUFFICES ASSUME Init PROVE IInv
    OBVIOUS
  <1> USE DEF Init
  <1>1. TypeOK
    BY FulfillmentAssumption DEF TypeOK, Ended
  <1>2. Succeeded = {}
    BY DEF Succeeded
  <1>3. StartsFresh /\ AttemptsNumbered /\ TransactionsTell
    BY DEF StartsFresh, AttemptsNumbered, TransactionsTell
  <1>4. PaidBySucceeded
    BY <1>2 DEF PaidBySucceeded
  <1>5. RetryPaysOnce /\ FulfilledUnlessOvertaken
    BY <1>2 DEF RetryPaysOnce, FulfilledUnlessOvertaken
  <1>6. QED
    BY <1>1, <1>3, <1>4, <1>5 DEF IInv

-----------------------------------------------------------------------------
(* Steps of the loop leave the ledger alone.                               *)

\* The part of TypeOK that a step of the loop touches, and what it leaves to others.
FutureOK ==
    /\ phase \in [Requests -> {"proved", "sending"} \cup Ended]
    /\ failures \in [Requests -> 0 .. retry_send_threshold]
    /\ holder \in Requests \cup {NoRequest}
    /\ awaiting \in [Requests -> BOOLEAN]
    /\ \A q \in Requests :
          /\ phase[q] = "sending" <=> holder = q
          /\ phase[q] = "sending" => failures[q] < retry_send_threshold

OthersKept(r) ==
    \A q \in Requests \ {r} :
        /\ phase'[q] = phase[q] /\ failures'[q] = failures[q]
        /\ awaiting'[q] = awaiting[q] /\ tx'[q] = tx[q]

LEMMA EndTypes ==
  ASSUME FutureOK, NEW r \in Requests, NEW outcome \in Ended,
         phase[r] = "sending", End(r, outcome)
  PROVE  /\ phase' \in [Requests -> {"proved", "sending"} \cup Ended]
         /\ holder' = NoRequest
         /\ \A q \in Requests : phase'[q] # "sending" /\ q # NoRequest
         /\ \A q \in Requests \ {r} : phase'[q] = phase[q]
  BY FulfillmentAssumption DEF FutureOK, End, Ended

LEMMA RetryTypes ==
  ASSUME FutureOK, NEW r \in Requests, phase[r] = "sending", Retry(r)
  PROVE  /\ FutureOK'
         /\ \A q \in Requests \ {r} :
               /\ phase'[q] = phase[q] /\ failures'[q] = failures[q]
               /\ awaiting'[q] = awaiting[q]
         /\ failures'[r] = failures[r] + 1 /\ awaiting'[r] = FALSE
         /\ phase'[r] # "fulfilled"
  <1>1. /\ failures[r] \in 0 .. retry_send_threshold /\ retry_send_threshold \in Nat
        /\ failures[r] < retry_send_threshold
    BY FulfillmentAssumption DEF FutureOK
  <1>2. failures[r] + 1 \in 0 .. retry_send_threshold
    BY <1>1
  <1>3. /\ failures' \in [Requests -> 0 .. retry_send_threshold]
        /\ failures'[r] = failures[r] + 1
        /\ \A q \in Requests \ {r} : failures'[q] = failures[q]
    BY <1>2 DEF Retry, FutureOK
  <1>4. /\ awaiting' \in [Requests -> BOOLEAN]
        /\ awaiting'[r] = FALSE
        /\ \A q \in Requests \ {r} : awaiting'[q] = awaiting[q]
    BY DEF Retry, FutureOK
  <1>5. CASE Attempt(r) < retry_send_threshold /\ UNCHANGED <<phase, holder>>
    BY <1>3, <1>4, <1>5 DEF FutureOK, Attempt
  <1>6. CASE End(r, "gave up")
    <2>1. /\ phase' \in [Requests -> {"proved", "sending"} \cup Ended]
          /\ holder' = NoRequest
          /\ \A q \in Requests : phase'[q] # "sending" /\ q # NoRequest
          /\ \A q \in Requests \ {r} : phase'[q] = phase[q]
      BY <1>6, EndTypes DEF Ended
    <2>2. phase'[r] = "gave up"
      BY <1>6 DEF End, FutureOK
    <2>3. QED
      BY <1>3, <1>4, <2>1, <2>2 DEF FutureOK
  <1>7. QED
    BY <1>5, <1>6 DEF Retry

LEMMA LoopTypes ==
  ASSUME TypeOK, StartsFresh, NEW r \in Requests, LoopStep(r)
  PROVE  TypeOK' /\ OthersKept(r) /\ UNCHANGED chain
  <1>1. FutureOK /\ tx \in [Requests -> [Attempts -> Statuses]]
    BY DEF TypeOK, FutureOK, Statuses
  <1>2. SUFFICES /\ FutureOK' /\ tx' \in [Requests -> [Attempts -> Statuses]]
                 /\ OthersKept(r) /\ UNCHANGED chain
    BY DEF TypeOK, FutureOK, Statuses, chain
  <1>3. CASE StartSending(r)
    <2>1. /\ phase' = [phase EXCEPT ![r] = "sending"] /\ holder = NoRequest /\ holder' = r
          /\ UNCHANGED <<failures, awaiting, tx, chain>>
      BY <1>3 DEF StartSending
    <2>2. \A q \in Requests : phase'[q] = IF q = r THEN "sending" ELSE phase[q]
      BY <1>1, <2>1 DEF FutureOK
    <2>3. phase' \in [Requests -> {"proved", "sending"} \cup Ended]
      BY <1>1, <2>1 DEF FutureOK
    <2>4. \A q \in Requests : phase'[q] = "sending" <=> holder' = q
      BY <1>1, <2>1, <2>2, FulfillmentAssumption DEF FutureOK
    <2>5. failures[r] < retry_send_threshold
      BY <1>3, FulfillmentAssumption DEF StartSending, StartsFresh
    <2>6. QED
      BY <1>1, <2>1, <2>2, <2>3, <2>4, <2>5 DEF FutureOK, OthersKept
  <1>4. CASE SendRefused(r) \/ PollFails(r)
    BY <1>1, <1>4, RetryTypes DEF SendRefused, PollFails, OthersKept
  <1>5. CASE Send(r)
    <2>1. Attempt(r) \in Attempts
      BY <1>1, <1>5, FulfillmentAssumption DEF Send, FutureOK, Attempt, Attempts
    <2>2. /\ tx' \in [Requests -> [Attempts -> Statuses]]
          /\ \A q \in Requests \ {r} : tx'[q] = tx[q]
      BY <1>1, <1>5, <2>1 DEF Send, Statuses
    <2>3. CASE Retry(r)
      BY <1>1, <1>5, <2>2, <2>3, RetryTypes DEF Send, OthersKept
    <2>4. CASE /\ awaiting' = [awaiting EXCEPT ![r] = TRUE]
               /\ UNCHANGED <<phase, failures, holder>>
      BY <1>1, <1>5, <2>2, <2>4 DEF Send, FutureOK, OthersKept
    <2>5. QED
      BY <1>5, <2>3, <2>4 DEF Send
  <1>6. CASE Confirmed(r) \/ Dropped(r)
    <2>1. PICK outcome \in Ended : End(r, outcome)
      BY <1>6 DEF Confirmed, Dropped, Ended
    <2>2. phase[r] = "sending" /\ UNCHANGED <<failures, awaiting, tx, chain>>
      BY <1>6 DEF Confirmed, Dropped
    <2>3. QED
      BY <1>1, <2>1, <2>2, EndTypes DEF FutureOK, OthersKept
  <1>7. QED
    BY <1>3, <1>4, <1>5, <1>6 DEF LoopStep

LEMMA LoopNumbers ==
  ASSUME IInv, NEW r \in Requests, LoopStep(r)
  PROVE  StartsFresh' /\ AttemptsNumbered'
  <1> USE DEF IInv
  <1>1. FutureOK /\ FutureOK' /\ OthersKept(r)
        /\ tx \in [Requests -> [Attempts -> Statuses]]
    BY LoopTypes DEF TypeOK, FutureOK, Statuses
  <1>2. SUFFICES /\ phase'[r] # "proved"
                 /\ \A n \in Attempts : n > failures'[r] =>
                       tx'[r][n] = "none" \/ (awaiting'[r] /\ n = failures'[r] + 1)
    BY <1>1 DEF StartsFresh, AttemptsNumbered, OthersKept, Attempt
  <1>3. /\ failures[r] \in Nat /\ Attempts \subseteq Nat
        /\ \A n \in Attempts : n > failures[r] =>
              tx[r][n] = "none" \/ (awaiting[r] /\ n = failures[r] + 1)
    BY <1>1, FulfillmentAssumption DEF FutureOK, Attempts, AttemptsNumbered, Attempt
  <1>4. CASE StartSending(r)
    BY <1>1, <1>3, <1>4 DEF StartSending, FutureOK
  <1>5. CASE SendRefused(r) \/ PollFails(r)
    <2>1. /\ failures'[r] = failures[r] + 1 /\ phase[r] = "sending" /\ tx' = tx
          /\ Retry(r)
      BY <1>1, <1>5, RetryTypes DEF SendRefused, PollFails
    <2>2. phase'[r] # "proved"
      BY <1>1, <2>1 DEF Retry, End, FutureOK
    <2>3. ASSUME NEW n \in Attempts, n > failures[r] + 1
          PROVE  tx[r][n] = "none"
      <3>1. n \in Nat /\ n > failures[r] /\ n # failures[r] + 1
        BY <1>3, <2>3
      <3>2. QED
        BY <1>3, <3>1
    <2>4. QED
      BY <2>1, <2>2, <2>3
  <1>6. CASE Send(r)
    <2>1. /\ phase[r] = "sending" /\ ~ awaiting[r]
          /\ tx' = [tx EXCEPT ![r][Attempt(r)] = "pending"]
      BY <1>6 DEF Send
    <2>2. \A n \in Attempts : n # failures[r] + 1 => tx'[r][n] = tx[r][n]
      BY <1>1, <2>1 DEF Attempt
    <2>3. CASE Retry(r)
      <3>1. failures'[r] = failures[r] + 1
        BY <1>1, <2>1, <2>3, RetryTypes
      <3>2. phase'[r] # "proved"
        BY <1>1, <2>1, <2>3 DEF Retry, End, FutureOK
      <3>3. QED
        BY <1>3, <2>1, <2>2, <3>1, <3>2
    <2>4. CASE /\ awaiting' = [awaiting EXCEPT ![r] = TRUE]
               /\ UNCHANGED <<phase, failures, holder>>
      <3>1. awaiting'[r] /\ phase'[r] = "sending" /\ failures'[r] = failures[r]
        BY <1>1, <2>1, <2>4 DEF FutureOK
      <3>2. ASSUME NEW n \in Attempts, n > failures[r], n # failures[r] + 1
            PROVE  tx'[r][n] = "none"
        BY <1>3, <2>1, <2>2, <3>2
      <3>3. ASSUME NEW n \in Attempts, n > failures'[r]
            PROVE  tx'[r][n] = "none" \/ (awaiting'[r] /\ n = failures'[r] + 1)
        BY <3>1, <3>2, <3>3
      <3>4. QED
        BY <3>1, <3>3
    <2>5. QED
      BY <1>6, <2>3, <2>4 DEF Send
  <1>7. CASE Confirmed(r) \/ Dropped(r)
    <2>1. UNCHANGED <<failures, awaiting, tx>>
      BY <1>7 DEF Confirmed, Dropped
    <2>2. phase'[r] # "proved"
      BY <1>1, <1>7 DEF Confirmed, Dropped, End, FutureOK
    <2>3. QED
      BY <1>3, <2>1, <2>2
  <1>8. QED
    BY <1>4, <1>5, <1>6, <1>7 DEF LoopStep

\* A send is a transaction of its own, and nobody's success.
LEMMA LoopTransactions ==
  ASSUME IInv, NEW r \in Requests, LoopStep(r)
  PROVE  /\ \A q \in Requests, n \in Attempts :
               \/ tx'[q][n] = tx[q][n]
               \/ tx[q][n] = "none" /\ tx'[q][n] = "pending" /\ Payable(q)
         /\ Succeeded' = Succeeded
  <1> USE DEF IInv
  <1>1. FutureOK /\ tx \in [Requests -> [Attempts -> Statuses]]
    BY DEF TypeOK, FutureOK, Statuses
  <1>2. CASE UNCHANGED tx
    BY <1>2 DEF Succeeded
  <1>3. CASE Send(r)
    <2>1. /\ phase[r] = "sending" /\ ~ awaiting[r] /\ Payable(r)
          /\ tx' = [tx EXCEPT ![r][Attempt(r)] = "pending"]
      BY <1>3 DEF Send
    <2>2. Attempt(r) \in Attempts /\ Attempt(r) > failures[r]
      BY <1>1, <2>1, FulfillmentAssumption DEF FutureOK, Attempt, Attempts
    <2>3. tx[r][Attempt(r)] = "none"
      BY <2>1, <2>2 DEF AttemptsNumbered
    <2>4. \A q \in Requests, n \in Attempts :
             tx'[q][n] = IF q = r /\ n = Attempt(r) THEN "pending" ELSE tx[q][n]
      BY <1>1, <2>1, <2>2
    <2>5. Succeeded' = Succeeded
      BY <2>3, <2>4 DEF Succeeded
    <2>6. QED
      BY <2>1, <2>3, <2>4, <2>5
  <1>4. QED
    BY <1>2, <1>3 DEF LoopStep, StartSending, SendRefused, PollFails, Confirmed, Dropped

LEMMA LoopKeeps ==
  ASSUME IInv, NEW r \in Requests, LoopStep(r)
  PROVE  IInv'
  <1> USE DEF IInv
  <1>1. TypeOK' /\ OthersKept(r) /\ UNCHANGED <<open, refused, paid>>
    BY LoopTypes DEF chain
  <1>2. /\ \A q \in Requests, n \in Attempts :
              \/ tx'[q][n] = tx[q][n]
              \/ tx[q][n] = "none" /\ tx'[q][n] = "pending" /\ Payable(q)
        /\ Succeeded' = Succeeded
    BY LoopTransactions
  <1>3. \A q \in Requests : Excused(q)' <=> Excused(q)
    BY <1>1, <1>2 DEF Excused, SharesWithPaid
  <1>4. PaidBySucceeded' /\ RetryPaysOnce'
    BY <1>1, <1>2 DEF PaidBySucceeded, RetryPaysOnce
  <1>5. TransactionsTell'
    BY <1>2, <1>3 DEF TransactionsTell, Payable, Ledger!Unambiguous
  <1>6. FulfilledUnlessOvertaken'
    <2>1. ASSUME NEW q \in Requests, phase'[q] = "fulfilled" PROVE Excused(q)
      <3>1. CASE phase[q] = "fulfilled"
        BY <3>1 DEF FulfilledUnlessOvertaken, Excused
      <3>2. CASE phase[q] # "fulfilled"
        <4>1. q = r
          BY <1>1, <2>1, <3>2 DEF OthersKept
        <4>2. Confirmed(r)
          BY <2>1, <3>2, <4>1
             DEF LoopStep, StartSending, SendRefused, Send, PollFails, Dropped,
                 Retry, End, TypeOK
        <4>3. Attempt(r) \in Attempts
          BY <4>2, FulfillmentAssumption DEF Confirmed, TypeOK, Attempt, Attempts
        <4>4. CASE tx[r][Attempt(r)] = "success"
          <5>1. <<r, Attempt(r)>> \in Succeeded
            BY <4>3, <4>4 DEF Succeeded
          <5>2. Batch[r] \subseteq paid
            BY <5>1 DEF PaidBySucceeded
          <5>3. QED
            BY <4>1, <5>2 DEF Excused
        <4>5. CASE tx[r][Attempt(r)] = "reverted"
          BY <4>1, <4>3, <4>5 DEF TransactionsTell
        <4>6. QED
          BY <4>2, <4>4, <4>5 DEF Confirmed
      <3>3. QED
        BY <3>1, <3>2
    <2>2. QED
      BY <1>3, <2>1 DEF FulfilledUnlessOvertaken, Excused
  <1>7. QED
    BY <1>1, <1>4, <1>5, <1>6, LoopNumbers

-----------------------------------------------------------------------------
(* Steps of the chain leave the futures alone.                             *)

LEMMA ChainKeeps ==
  ASSUME IInv, NEW r \in Requests, NEW n \in Attempts, Mine(r, n) \/ Drop(r, n)
  PROVE  IInv'
  <1> USE DEF IInv
  <1>1. PICK status \in {"success", "reverted", "dropped"} :
           tx[r][n] = "pending" /\ tx' = [tx EXCEPT ![r][n] = status]
    BY DEF Mine, Drop, Decide
  <1>2. /\ tx \in [Requests -> [Attempts -> Statuses]]
        /\ \A q \in Requests, m \in Attempts :
              tx'[q][m] = IF q = r /\ m = n THEN status ELSE tx[q][m]
    BY <1>1 DEF TypeOK, Statuses
  <1>3. UNCHANGED <<phase, failures, holder, awaiting, open>>
    BY DEF Mine, Drop, future, chain
  <1>4. StartsFresh' /\ AttemptsNumbered'
    BY <1>1, <1>2, <1>3 DEF StartsFresh, AttemptsNumbered, Attempt
  <1>5. Succeeded' = IF status = "success" THEN Succeeded \cup {<<r, n>>} ELSE Succeeded
    BY <1>1, <1>2 DEF Succeeded
  <1>6. paid' = (IF status = "success" THEN paid \cup Batch[r] ELSE paid)
        /\ refused \subseteq refused' /\ refused' \subseteq Requests
    BY <1>1, <1>2 DEF Mine, Drop, Decide, chain, TypeOK
  <1>7. TypeOK'
    <2>1. tx' \in [Requests -> [Attempts -> Statuses]]
      BY <1>1, <1>2 DEF Statuses
    <2>2. Batch[r] \subseteq Claims
      BY DEF Claims
    <2>3. QED
      BY <1>3, <1>6, <2>1, <2>2 DEF TypeOK, Statuses
  <1>8. PaidBySucceeded'
    <2>1. CASE status # "success"
      BY <1>5, <1>6, <2>1 DEF PaidBySucceeded
    <2>2. CASE status = "success"
      <3>1. ASSUME NEW c PROVE (c \in paid \cup Batch[r]) <=>
               \E s \in Succeeded \cup {<<r, n>>} : c \in Batch[s[1]]
        <4>1. c \in paid <=> \E s \in Succeeded : c \in Batch[s[1]]
          BY DEF PaidBySucceeded
        <4>2. (\E s \in Succeeded \cup {<<r, n>>} : c \in Batch[s[1]])
                <=> c \in Batch[r] \/ \E s \in Succeeded : c \in Batch[s[1]]
          <5>1. <<r, n>>[1] = r
            OBVIOUS
          <5>2. QED
            BY <5>1
        <4>3. QED
          BY <4>1, <4>2
      <3>2. QED
        BY <1>5, <1>6, <2>2, <3>1 DEF PaidBySucceeded
    <2>3. QED
      BY <2>1, <2>2
  <1>9. \A q \in Requests : Excused(q) => Excused(q)'
    BY <1>5, <1>6 DEF Excused, SharesWithPaid
  <1>10. FulfilledUnlessOvertaken'
    BY <1>3, <1>9 DEF FulfilledUnlessOvertaken, Excused
  <1>11. ASSUME status = "success"
         PROVE  Ledger!Fresh(Batch[r])
    BY <1>1, <1>2, <1>11 DEF Mine, Drop, Decide, Payable
  <1>12. RetryPaysOnce'
    <2>1. CASE status # "success"
      BY <1>5, <2>1 DEF RetryPaysOnce
    <2>2. CASE status = "success"
      <3>1. ASSUME NEW s \in Succeeded, NEW c \in Batch[s[1]], NEW d \in Batch[r],
                   c.nullifier = d.nullifier
            PROVE  FALSE
        <4>1. c \in paid
          BY DEF PaidBySucceeded
        <4>2. QED
          BY <1>11, <2>2, <3>1, <4>1 DEF Ledger!Fresh
      <3>2. QED
        BY <1>5, <2>2, <3>1 DEF RetryPaysOnce
    <2>3. QED
      BY <2>1, <2>2
  <1>13. TransactionsTell'
    <2>1. \A q \in Requests, m \in Attempts : tx[q][m] # "none" =>
             Ledger!Unambiguous(Batch[q])
      BY DEF TransactionsTell
    <2>2. ASSUME status = "reverted" PROVE Excused(r)'
      <3>1. CASE r \notin open
        BY <1>1, <1>2, <2>2, <3>1 DEF Mine, Drop, Decide, Excused
      <3>2. CASE r \in open
        <4>1. ~ Ledger!Fresh(Batch[r])
          BY <1>1, <1>2, <2>1, <2>2, <3>2 DEF Mine, Drop, Decide, Payable
        <4>2. PICK c \in Batch[r], p \in paid : c.nullifier = p.nullifier
          BY <4>1 DEF Ledger!Fresh
        <4>3. PICK s \in Succeeded : p \in Batch[s[1]]
          BY DEF PaidBySucceeded
        <4>4. CASE s[1] = r
          BY <4>3, <4>4, <1>9 DEF PaidBySucceeded, Excused
        <4>5. CASE s[1] # r
          BY <4>2, <4>3, <4>5, <1>9 DEF SharesWithPaid, Excused
        <4>6. QED
          BY <4>4, <4>5
      <3>3. QED
        BY <3>1, <3>2
    <2>3. \A q \in Requests, m \in Attempts : tx[q][m] = "reverted" => Excused(q)'
      BY <1>9 DEF TransactionsTell
    <2>4. QED
      BY <1>1, <1>2, <2>1, <2>2, <2>3 DEF TransactionsTell, Ledger!Unambiguous
  <1>14. QED
    BY <1>4, <1>7, <1>8, <1>10, <1>12, <1>13

LEMMA Preserved == IInv /\ [Next]_vars => IInv'
  <1> SUFFICES ASSUME IInv, [Next]_vars PROVE IInv'
    OBVIOUS
  <1>1. ASSUME NEW r \in Requests, LoopStep(r) PROVE IInv'
    BY <1>1, LoopKeeps
  <1>2. ASSUME NEW r \in Requests, NEW n \in Attempts, Mine(r, n) \/ Drop(r, n)
        PROVE  IInv'
    BY <1>2, ChainKeeps
  <1>3. ASSUME UNCHANGED <<phase, failures, holder, awaiting, tx, refused, paid>>,
               open' \subseteq Requests
        PROVE  IInv'
    <2>1. Succeeded' = Succeeded /\ \A q \in Requests : Excused(q)' <=> Excused(q)
      BY <1>3 DEF Succeeded, Excused, SharesWithPaid
    <2>2. TypeOK'
      BY <1>3 DEF IInv, TypeOK
    <2>3. StartsFresh' /\ AttemptsNumbered'
      BY <1>3 DEF IInv, StartsFresh, AttemptsNumbered, Attempt
    <2>4. PaidBySucceeded' /\ RetryPaysOnce' /\ TransactionsTell'
      BY <1>3, <2>1 DEF IInv, PaidBySucceeded, RetryPaysOnce, TransactionsTell,
                        Ledger!Unambiguous
    <2>5. FulfilledUnlessOvertaken'
      BY <1>3, <2>1 DEF IInv, FulfilledUnlessOvertaken, Excused
    <2>6. QED
      BY <1>3, <2>2, <2>3, <2>4, <2>5 DEF IInv
  <1>4. CASE UNCHANGED vars
    BY <1>3, <1>4 DEF vars, IInv, TypeOK
  <1>5. ASSUME NEW r \in Requests, OutsideChanges(r) PROVE IInv'
    <2>1. /\ UNCHANGED <<phase, failures, holder, awaiting, tx, refused, paid>>
          /\ open' \subseteq Requests
      BY <1>5 DEF OutsideChanges, future, IInv, TypeOK
    <2>2. QED
      BY <1>3, <2>1
  <1>6. QED
    BY <1>1, <1>2, <1>4, <1>5 DEF Next

LEMMA Invariant == Spec => []IInv
  <1>1. IInv /\ [Next]_vars => IInv'
    BY Preserved
  <1>2. QED
    BY <1>1, Initially, PTL DEF Spec

\* Type correctness of the retry loop, its mutex and its attempts.
THEOREM TypeCorrect == Spec => []TypeOK
  <1>1. IInv => TypeOK
    BY DEF IInv
  <1>2. QED
    BY <1>1, Invariant, PTL

\* However often a batch is sent and whatever batches share a claim with it, no
\* nullifier is paid by two transactions.
THEOREM NothingPaidTwice == Spec => []RetryPaysOnce
  <1>1. IInv => RetryPaysOnce
    BY DEF IInv
  <1>2. QED
    BY <1>1, Invariant, PTL

\* A request reported fulfilled is paid, or was overtaken: by the closing of the
\* contract to it or by another request for the same nullifier.
THEOREM FulfilledIsPaidOrOvertaken == Spec => []FulfilledUnlessOvertaken
  <1>1. IInv => FulfilledUnlessOvertaken
    BY DEF IInv
  <1>2. QED
    BY <1>1, Invariant, PTL
=============================================================================
