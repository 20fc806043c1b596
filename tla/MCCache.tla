-------------------------------- MODULE MCCache -------------------------------
(* One accountant of up to two workspaces in batches of one; a cron refresh    *)
(* and another call overlap.                                                   *)
EXTENDS Cache
===============================================================================
