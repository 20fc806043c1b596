-------------------------------- MODULE Journal -------------------------------
(***************************************************************************)
(* What every component that touches Account.balance promises: the balance *)
(* moves only together with an entry of the account's journal, which holds *)
(* exactly the amount it moved by, and entries are never changed or lost.  *)
(* It is the contract scripts/reconcile_account_balances.sql relies on to  *)
(* rebuild a balance from the audit trail.                                 *)
(***************************************************************************)
EXTENDS Integers, Sequences

CONSTANTS Accounts, InitialBalance

VARIABLES
    balance,   \* the balance of each account
    journal    \* the amounts each account's balance has been moved by, in order

JInit ==
    /\ balance = InitialBalance
    /\ journal = [a \in Accounts |-> << >>]

Posted(a) == journal'[a] = Append(journal[a], balance'[a] - balance[a])
Kept(a)   == journal'[a] = journal[a] /\ balance'[a] = balance[a]

\* One database transaction: any number of accounts, at most one entry each.
JNext ==
    /\ balance' \in [Accounts -> Int]
    /\ journal' \in [Accounts -> Seq(Int)]
    /\ \A a \in Accounts : Posted(a) \/ Kept(a)

JSpec == JInit /\ [][JNext]_<<balance, journal>>
===============================================================================
