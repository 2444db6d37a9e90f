------------------------------ MODULE ClaimLog ------------------------------
(***************************************************************************)
(* What a log of paid claims says: who was paid, how often and how much,   *)
(* and when the balances of a token agree with it.                         *)
(***************************************************************************)
EXTENDS Naturals, Sequences, FiniteSetsExt

NullifiersOf(log) == {log[k].nullifier : k \in DOMAIN log}
PaidOnce(log) ==
    \A j, k \in DOMAIN log : log[j].nullifier = log[k].nullifier => j = k

\* What the log says was paid to account a, a grant being worth amount[grant].
PaidTo(log, amount, a) ==
    SumFunctionOnSet([k \in DOMAIN log |-> amount[log[k].grant]],
                     {k \in DOMAIN log : log[k].receiver = a})

\* Each receiver holds what was claimed for it, and what is missing of the
\* `total` sent to the payer is what was paid out.
Balanced(balances, total, log, amount, accounts, payer) ==
    /\ \A a \in accounts \ {payer} : balances[a] = PaidTo(log, amount, a)
    /\ balances[payer] =
         total - SumFunctionOnSet([a \in accounts |-> PaidTo(log, amount, a)],
                                  accounts \ {payer})
=============================================================================
