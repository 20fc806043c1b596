------------------------------ MODULE MCProLabore -----------------------------
(* One schedule due on the 31st of a month that has two days, so one pending, two   *)
(* requests that may confirm, cancel or transfer by hand, and money for only one    *)
(* of the two transfers.                                                            *)
EXTENDS ProLabore, TLC

CONSTANTS c1, c2, s1, f1, pj, pf

MCMonthDays      == <<2>>
MCDayOfMonth     == [s \in Schedules |-> 31]
MCKeyed          == Schedules \X {1}
MCTerms          == [i \in Ids |-> [from |-> pj, to |-> pf, amount |-> 3]]
MCInitialBalance == [w \in Workspaces |-> IF w = pj THEN 4 ELSE 0]

Symmetry == Permutations(Callers)
===============================================================================
