------------------------------- MODULE MCOutbox -------------------------------
(* Two workers on the same event: one event is enough for every race between  *)
(* their claims and marks, and batches last longer than the lease.            *)
EXTENDS Outbox
===============================================================================
