------------------------------- MODULE MCExport -------------------------------
(* Two transactions of two days and one macro category; a transaction may be   *)
(* done, pending, without a macro category or without an amount.               *)
EXTENDS Export, TLC

CONSTANTS m1

Row(day, status, amount, macro) ==
    [day |-> day, status |-> status, amount |-> amount, macro |-> macro]
MCTxnRows == {Row(1, "COMPLETED", 1, m1), Row(1, "PENDING", 1, m1), Row(2, "RECONCILED", 1, m1),
              Row(2, "COMPLETED", 1, Absent), Row(1, "COMPLETED", 0, m1)}
MCConfigRows == {[historyCodeRequired |-> h, active |-> TRUE] : h \in BOOLEAN}
MCMappingRows == [historyCode : BOOLEAN, active : BOOLEAN]
MCPeriods == {<<1, 1>>, <<1, 2>>, <<2, 1>>}

Symmetry == Permutations(Txns) \cup Permutations(Keys)
===============================================================================
