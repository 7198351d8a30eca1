------------------------------- MODULE Ledger -------------------------------
(***************************************************************************)
(* What the wallet promises about money: one signed balance per address,   *)
(* moved only by whole credits and debits of one account at a time.        *)
(* Nothing else - no key operation, no failed write, no restart - is       *)
(* allowed to show up as a change of a balance.                            *)
(***************************************************************************)
EXTENDS Integers

CONSTANTS Addrs,    \* account addresses (the payer's `from`)
          Amounts   \* amounts one call may move, in micro-USDC

VARIABLE balance    \* balance[a]: what address a has left to spend

Init == balance = [a \in Addrs |-> 0]

Credit(a, n) == balance' = [balance EXCEPT ![a] = @ + n]

Debit(a, n) == balance' = [balance EXCEPT ![a] = @ - n]

Next == \E a \in Addrs, n \in Amounts : Credit(a, n) \/ Debit(a, n)

Spec == Init /\ [][Next]_balance
=============================================================================
