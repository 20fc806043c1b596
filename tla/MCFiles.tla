-------------------------------- MODULE MCFiles --------------------------------
(* Two submissions, deletions, two uploads of certificates and two presses of  *)
(* preview buttons.                                                            *)
EXTENDS Viewer, FiniteSets, TLC

Symmetry == Permutations(Keys) \cup Permutations(Tabs) \cup Permutations(Txns) \cup Permutations(Uploads)
                \cup Permutations(Deletions) \cup Permutations(Presses)

\* Bound: once a receipt is looked at, certificates are not replaced any more, and one browser
\* and one deletion are at work at a time.  The viewer shares no file with the certificates.
Previewing == \E p \in Presses : press[p].at # "unused"
Bounded == Previewing => /\ \A u \in Uploads : up[u] = NoUp
                         /\ Cardinality({b \in Tabs : tab[b].open}) <= 1
                         /\ Cardinality({d \in Deletions : del[d] # NoDel}) <= 1
===============================================================================
