------------------------------ MODULE MCSessions ------------------------------
(* Two requests of one account: a login, a refresh or a reset in the middle    *)
(* of another, with three tokens, two codes and one change of password.       *)
EXTENDS Sessions, TLC

Symmetry == Permutations(Requests) \cup Permutations(Codes)
===============================================================================
