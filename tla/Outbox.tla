-------------------------------- MODULE Outbox --------------------------------
(***************************************************************************)
(* The transactional outbox and its consumer: TransactionService.create    *)
(* enqueues an event with every expense, OutboxWorker batches claim events *)
(* under a lease, and TransactionExpenseInsightHandler turns each into an  *)
(* AiInsight on the transaction, unless it was deleted meanwhile.          *)
(*                                                                         *)
(* Nothing ties a claim to the worker that made it: markProcessed and      *)
(* markFailed find the event by id and status.  A batch reads the clock    *)
(* once, when it starts, and uses that `now` for every event in it.        *)
(*                                                                         *)
(* Time is relative: due is the distance from the present to the event's   *)
(* nextAttemptAt and lag the age of a batch's `now`, so nextAttemptAt <= now*)
(* reads due <= -lag.  A due further back than any lag is kept at -MaxLag, *)
(* which no comparison can tell apart.                                     *)
(***************************************************************************)
EXTENDS Integers

CONSTANTS
    Workers,      \* OutboxWorker batches that may run at the same time
    Events,       \* one per expense: the transaction, its event and its insight
    MaxAttempts,  \* DEFAULT_MAX_ATTEMPTS
    Lease,        \* DEFAULT_LEASE_MS, in ticks
    BaseBackoff,  \* BASE_BACKOFF_MS, in ticks
    MaxBackoff,   \* MAX_BACKOFF_MS, in ticks
    MaxLag,       \* bound: how long a batch may run
    MaxCrashes    \* bound: how often a worker dies in the middle of a batch

ASSUME AttemptsAssumption == MaxAttempts \in Nat \ {0}
ASSUME TimesAssumption    == {Lease, BaseBackoff, MaxBackoff, MaxLag} \subseteq Nat \ {0}
ASSUME CrashAssumption    == MaxCrashes \in Nat

VARIABLES
    expense,   \* the Transaction rows
    event,     \* the OutboxEvent rows
    insight,   \* the AiInsight rows
    hub,       \* the insights the Analyses page shows
    worker,    \* the batches in progress
    handled,   \* history: events whose handler has returned without an error
    crashes    \* bound counter

vars == <<expense, event, insight, hub, worker, handled, crashes>>

-----------------------------------------------------------------------------
(* The data.                                                               *)

\* named: the payload still holds the id of the transaction.
EventRow == [status : {"ABSENT", "PENDING", "PROCESSING", "PROCESSED", "FAILED"},
             attempts : 0..MaxAttempts, due : Int, named : BOOLEAN]

\* Inside the handler: about to read the transaction, to hear from the AI provider,
\* to store the insight; then about to record the outcome.
Stages == {"handle", "analyse", "store", "markProcessed", "markFailed"}

IdleWorker == [at |-> "idle"]
Batch == [at : {"batch"}, lag : 0..MaxLag, batch : SUBSET Events]
Job   == [at : Stages, lag : 0..MaxLag, batch : SUBSET Events, event : Events]

TypeOK ==
    /\ expense \in [Events -> {"none", "live", "deleted"}]
    /\ event \in [Events -> EventRow]
    /\ insight \in [Events -> {"none", "active", "dismissed"}]
    /\ hub \subseteq Events
    /\ worker \in [Workers -> {IdleWorker} \cup Batch \cup Job]
    /\ handled \subseteq Events
    /\ crashes \in 0..MaxCrashes

Init ==
    /\ expense = [e \in Events |-> "none"]
    /\ event = [e \in Events |-> [status |-> "ABSENT", attempts |-> 0, due |-> 0,
                                 named |-> FALSE]]
    /\ insight = [e \in Events |-> "none"]
    /\ hub = {}
    /\ worker = [w \in Workers |-> IdleWorker]
    /\ handled = {}
    /\ crashes = 0

-----------------------------------------------------------------------------
(* Producers and users.                                                    *)

\* enqueueInTransaction masks the texts of a payload, and four digits, a hyphen and four
\* digits are a telephone to maskPhone: so are they in one random id out of sixteen,
\* and the payload of that expense names no transaction any more.
IsPhone == {TRUE, FALSE}
EnqueuedEvent(isPhone) ==
    [status |-> "PENDING", attempts |-> 0, due |-> 0, named |-> ~isPhone]

\* The transaction and its event are inserted by one database transaction.
CreateExpense(e) ==
    /\ expense[e] = "none"
    /\ expense' = [expense EXCEPT ![e] = "live"]
    /\ \E isPhone \in IsPhone : event' = [event EXCEPT ![e] = EnqueuedEvent(isPhone)]
    /\ UNCHANGED <<insight, hub, worker, handled, crashes>>

\* A plausible mistake: a relation without the cascade.
DeleteRowOnly(e) ==                                               \* mutant
    /\ expense[e] = "live"
    /\ expense' = [expense EXCEPT ![e] = "deleted"]
    /\ UNCHANGED <<event, insight, hub, worker, handled, crashes>>

\* The insight goes with its transaction (onDelete: Cascade); the event stays.
DeleteExpense(e) ==
    /\ expense[e] = "live"
    /\ expense' = [expense EXCEPT ![e] = "deleted"]
    /\ insight' = [insight EXCEPT ![e] = "none"]
    /\ UNCHANGED <<event, hub, worker, handled, crashes>>

\* listForWorkspaceHub
Active == {e \in Events : insight[e] = "active"}

ListForHub ==
    /\ hub' = Active
    /\ UNCHANGED <<expense, event, insight, worker, handled, crashes>>

\* The button of an insight on the page, which may have gone since; dismissing twice
\* is dismissing once.
DismissInsight(e) ==
    /\ e \in hub
    /\ insight[e] # "none"
    /\ insight' = [insight EXCEPT ![e] = "dismissed"]
    /\ UNCHANGED <<expense, event, hub, worker, handled, crashes>>

\* The list is asked for again after each dismissal, and whenever the page is opened.
AnalysisPage == ListForHub \/ \E e \in Events : DismissInsight(e)

-----------------------------------------------------------------------------
(* OutboxService                                                           *)

\* findMany and updateMany share this condition, with the batch's own `now`.
PendingOnly(e, lag) == event[e].due <= -lag /\ event[e].status = "PENDING"   \* mutant
Processable(e, lag) ==
    /\ event[e].due <= -lag
    /\ event[e].status \in {"PENDING", "PROCESSING"}

Backoff(n) ==
    LET wait == BaseBackoff * 2^(n - 1)
    IN  IF wait < MaxBackoff THEN wait ELSE MaxBackoff

\* The attempt that has just failed decides.
StatusAfter(n) == IF n >= MaxAttempts THEN "FAILED" ELSE "PENDING"

Goto(w, stage) == worker' = [worker EXCEPT ![w].at = stage]

\* Back to the loop over the rest of the batch.
NextInBatch(w) ==
    worker' = [worker EXCEPT ![w] =
                 [at |-> "batch", lag |-> @.lag, batch |-> @.batch]]

-----------------------------------------------------------------------------
(* OutboxWorker.processBatch                                               *)

\* More events than the limit of a batch wait for the next one.
FetchBatch(w) ==
    LET found == {e \in Events : Processable(e, 0)}
    IN  /\ worker[w].at = "idle"
        /\ found # {}
        /\ worker' = [worker EXCEPT ![w] = [at |-> "batch", lag |-> 0, batch |-> found]]
        /\ UNCHANGED <<expense, event, insight, hub, handled, crashes>>

\* A claim that finds the event taken or settled skips it.
ClaimForProcessing(w, e) ==
    /\ worker[w].at = "batch" /\ e \in worker[w].batch
    /\ LET rest == worker[w].batch \ {e}
           lag == worker[w].lag
       IN  IF Processable(e, lag)
           THEN /\ event' = [event EXCEPT ![e].status = "PROCESSING", ![e].due = Lease - lag]
                /\ worker' = [worker EXCEPT ![w] = [at |-> "handle", lag |-> lag,
                                                    batch |-> rest, event |-> e]]
           ELSE /\ worker' = [worker EXCEPT ![w].batch = rest]
                /\ UNCHANGED event
    /\ UNCHANGED <<expense, insight, hub, handled, crashes>>

EndBatch(w) ==
    /\ worker[w].at = "batch" /\ worker[w].batch = {}
    /\ worker' = [worker EXCEPT ![w] = IdleWorker]
    /\ UNCHANGED <<expense, event, insight, hub, handled, crashes>>

-----------------------------------------------------------------------------
(* TransactionExpenseInsightHandler.handle                                 *)

\* The handler throws when no transaction has the id of the payload.
Found(e) == event[e].named /\ expense[e] = "live"
NothingToDo(e) == IF Found(e) THEN "analyse" ELSE "markProcessed"  \* mutant
ContextOf(e) == IF Found(e) THEN "analyse" ELSE "markFailed"

BuildContext(w) ==
    /\ worker[w].at = "handle"
    /\ Goto(w, ContextOf(worker[w].event))
    /\ UNCHANGED <<expense, event, insight, hub, handled, crashes>>

Succeed(w) ==
    /\ Goto(w, "markProcessed")
    /\ handled' = handled \cup {worker[w].event}

\* A query throws; the try block covers markProcessed too.
HandlerFails(w) ==
    /\ worker[w].at \in {"handle", "store", "markProcessed"}
    /\ Goto(w, "markFailed")
    /\ UNCHANGED <<expense, event, insight, hub, handled, crashes>>

\* What the provider may do: throw, answer something that is not JSON or not of the
\* schema (extra fields included), put markup into its texts, see no risk or a risk.
Answers == {"throws", "notJson", "offSchema", "markup", "noRisk", "doubtful", "risk"}

\* A risk below MIN_RISK_CONFIDENCE is none.
Harmless == {"noRisk", "doubtful"}

Analyse(w) ==
    /\ worker[w].at = "analyse"
    /\ \E answer \in Answers :
          \/ answer \in Harmless /\ Succeed(w)
          \/ answer = "risk" /\ Goto(w, "store") /\ UNCHANGED handled
          \/ answer \notin Harmless \cup {"risk"} /\ Goto(w, "markFailed") /\ UNCHANGED handled
    /\ UNCHANGED <<expense, event, insight, hub, crashes>>

\* The update part of the upsert leaves `dismissed` out.
Reactivated(i) == "active"                                        \* mutant
Upserted(i) == IF i = "none" THEN "active" ELSE i

\* AiInsightService.create: an upsert that keeps `dismissed`; the transaction is looked
\* up again and the foreign key stands behind that look.
StoreInsight(w) ==
    /\ worker[w].at = "store"
    /\ LET e == worker[w].event
       IN  IF expense[e] = "live"
           THEN /\ insight' = [insight EXCEPT ![e] = Upserted(@)]
                /\ Succeed(w)
           ELSE /\ Goto(w, "markFailed")
                /\ UNCHANGED <<insight, handled>>
    /\ UNCHANGED <<expense, event, hub, crashes>>

-----------------------------------------------------------------------------
(* Recording the outcome.                                                  *)

MarkProcessed(w) ==
    /\ worker[w].at = "markProcessed"
    /\ LET e == worker[w].event
       IN  event' = IF event[e].status = "PROCESSING"
                    THEN [event EXCEPT ![e].status = "PROCESSED"]
                    ELSE event
    /\ NextInBatch(w)
    /\ UNCHANGED <<expense, insight, hub, handled, crashes>>

MarkFailed(w) ==
    /\ worker[w].at = "markFailed"
    /\ LET e == worker[w].event
           attempts == event[e].attempts + 1
       IN  event' = IF event[e].status = "PROCESSING"
                    THEN [event EXCEPT ![e] =
                            [@ EXCEPT !.status = StatusAfter(attempts),
                                      !.attempts = attempts,
                                      !.due = Backoff(attempts) - worker[w].lag]]
                    ELSE event
    /\ NextInBatch(w)
    /\ UNCHANGED <<expense, insight, hub, handled, crashes>>

-----------------------------------------------------------------------------
(* Time and crashes.                                                       *)

Clip(d) == IF d < -MaxLag THEN -MaxLag ELSE d

\* Batches longer than MaxLag are left out.
Tick ==
    /\ \A w \in Workers : worker[w].at # "idle" => worker[w].lag < MaxLag
    /\ event' = [e \in Events |-> [event[e] EXCEPT !.due = Clip(@ - 1)]]
    /\ worker' = [w \in Workers |-> IF worker[w].at = "idle" THEN worker[w]
                                    ELSE [worker[w] EXCEPT !.lag = @ + 1]]
    /\ UNCHANGED <<expense, insight, hub, handled, crashes>>

Crash(w) ==
    /\ worker[w].at # "idle"
    /\ crashes < MaxCrashes
    /\ crashes' = crashes + 1
    /\ worker' = [worker EXCEPT ![w] = IdleWorker]
    /\ UNCHANGED <<expense, event, insight, hub, handled>>

\* One event, and the batches around it.
Handle(w) == BuildContext(w) \/ Analyse(w) \/ StoreInsight(w) \/ HandlerFails(w)

WorkerStep(w) ==
    \/ FetchBatch(w)
    \/ \E e \in Events : ClaimForProcessing(w, e)
    \/ Handle(w)
    \/ MarkProcessed(w) \/ MarkFailed(w)
    \/ EndBatch(w)

Next ==
    \/ \E e \in Events : CreateExpense(e) \/ DeleteExpense(e)
    \/ AnalysisPage
    \/ \E w \in Workers : WorkerStep(w) \/ Crash(w)
    \/ Tick

\* Whoever runs the worker keeps running it, its awaits return, and time passes.
Fairness == WF_vars(Tick) /\ \A w \in Workers : WF_vars(WorkerStep(w))

Spec == Init /\ [][Next]_vars /\ Fairness

-----------------------------------------------------------------------------
(* Properties.                                                             *)

\* An insight is always on a transaction that exists, although the transaction may be
\* deleted while the provider is thinking about it.
InsightHasTransaction == \A e \in Events : insight[e] # "none" => expense[e] = "live"

\* PROCESSED means that some run of the handler succeeded, even when several workers
\* had the event and the others failed.
ProcessedWasHandled == \A e \in Events : event[e].status = "PROCESSED" => e \in handled

\* A dismissed insight does not come back while its transaction exists, however often
\* its event is processed again.
DismissedStaysDismissed ==
    [][\A e \in Events :
         insight[e] = "dismissed" => insight'[e] = "dismissed" \/ expense'[e] = "deleted"]_vars

\* The promise of the outbox, safety and liveness.
QueueState(status) ==
    CASE status = "ABSENT"    -> "none"
      [] status = "PROCESSED" -> "done"
      [] status = "FAILED"    -> "dead"
      [] OTHER                -> "queued"

Queue == INSTANCE JobQueue WITH
    Jobs <- Events, MaxTries <- MaxAttempts,
    job  <- [e \in Events |-> [state |-> QueueState(event[e].status), tries |-> event[e].attempts]]

\* Every event is retried until it is processed or has failed MaxAttempts times, counts
\* one attempt per failure, never leaves a final status and does not wait for ever,
\* provided that workers do not die for ever.
OutboxIsAJobQueue == Queue!QSpec
===============================================================================
