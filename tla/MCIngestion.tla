------------------------------ MODULE MCIngestion -----------------------------
(* Coffees of one day: two described alike, one with the bank's identifier of *)
(* the first and another description, one of another account at another hour  *)
(* and without any, two without a readable date; and a fee below one real.    *)
(* Chunks of two lines, so that a file has two.                               *)
EXTENDS Ingestion, TLC

CONSTANTS z1, z2   \* the writing of two days in a format that is not read

Line(account, amount, date, text, fitid) ==
    [account |-> account, amount |-> amount, date |-> date, text |-> text, fitid |-> fitid]

coffee   == Line(1, -5, 0, "CAFE", "f1")
coffee2  == Line(1, -5, 0, "CAFE 2", "f2")
renamed  == Line(1, -5, 0, "PAGAMENTO", "f1")
same     == Line(2, -5, 2, "CAFE", "none")
fee      == Line(1, 0, 0, "TARIFA", "f3")
undated  == Line(1, -5, z1, "CAFE", "none")
other    == Line(1, -5, z2, "CAFE", "none")
receipt  == Line(1, -5, z1, "Comprovante", "none")

MCFiles == {<<coffee, coffee2>>, <<renamed, fee, undated>>}
MCDeliveries == {<<coffee2, same, other>>}
MCUnreadable == {z1, z2}
MCDocuments == {receipt}
Texts == {"CAFE", "CAFE 2", "PAGAMENTO", "TARIFA", "Comprovante"}
MCAlike == {<<t, t>> : t \in Texts} \cup {<<"CAFE", "CAFE 2">>, <<"CAFE 2", "CAFE">>}
\* The words of CAFE occur in CAFE 2 and in the document's text.
MCWordsIn == {<<t, t>> : t \in Texts} \cup {<<"CAFE", "CAFE 2">>, <<"CAFE", "Comprovante">>}

Symmetry == Permutations(Imports)
===============================================================================
