------------------------------- MODULE JobQueue -------------------------------
(***************************************************************************)
(* What the transactional outbox promises its producers, whoever works on  *)
(* it: a submitted job is tried again until it is done or has failed       *)
(* MaxTries times, a settled job stays settled, and no job waits for ever. *)
(***************************************************************************)
EXTENDS Naturals

CONSTANTS Jobs, MaxTries

VARIABLE job

Submit(j) ==
    /\ job[j].state = "none"
    /\ job' = [job EXCEPT ![j] = [state |-> "queued", tries |-> 0]]

Finish(j) ==
    /\ job[j].state = "queued"
    /\ job' = [job EXCEPT ![j].state = "done"]

Fail(j) ==
    /\ job[j].state = "queued"
    /\ job[j].tries < MaxTries
    /\ job' = [job EXCEPT ![j] = [state |-> IF @.tries + 1 = MaxTries THEN "dead" ELSE "queued",
                                  tries |-> @.tries + 1]]

QInit == job = [j \in Jobs |-> [state |-> "none", tries |-> 0]]

QNext == \E j \in Jobs : Submit(j) \/ Finish(j) \/ Fail(j)

QSafety == QInit /\ [][QNext]_job

QSpec ==
    /\ QSafety
    /\ \A j \in Jobs : WF_job(Finish(j) \/ Fail(j))
===============================================================================
