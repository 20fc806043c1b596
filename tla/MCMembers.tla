------------------------------- MODULE MCMembers -------------------------------
(* One guest with two invites, so that a second one may be accepted after a    *)
(* removal or while the first is still being answered, and two requests.       *)
EXTENDS Members, TLC

CONSTANTS q1, q2, i1, i2, ana

Symmetry == Permutations(Requests) \cup Permutations(Invites)
===============================================================================
