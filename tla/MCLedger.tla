------------------------------- MODULE MCLedger -------------------------------
(* A small workspace for TLC: an income and an expense movement, one account,  *)
(* and two requests in flight, which is enough for every pair of handlers to   *)
(* interleave.                                                                 *)
EXTENDS Ledger, TLC

CONSTANTS m1, m2, m3, r1, r2, a1

MCStatement ==
    [m \in Movements |->
        CASE m = m1 -> [account |-> a1, amount |-> 3,  date |-> 1]
          [] m = m2 -> [account |-> a1, amount |-> -2, date |-> 2]
          [] OTHER  -> [account |-> a1, amount |-> 1,  date |-> 2]]

MCInitialBalance == [a \in Accounts |-> 5]
MCAmounts == {4}

Symmetry == Permutations(Requests)
===============================================================================
