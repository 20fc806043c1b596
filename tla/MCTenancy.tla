------------------------------ MODULE MCTenancy -------------------------------
(* Two clients.  Three navigations let the form open and the page change while *)
(* a request waits for a token; two changes let one be told while another is   *)
(* asked for.                                                                  *)
EXTENDS Tenancy, TLC

Symmetry == Permutations(Workspaces)
===============================================================================
