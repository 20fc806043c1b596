---------------------------- MODULE WorkerProofs -----------------------------
(***************************************************************************)
(* The work behind the requests: proofs about Outbox, for any number of    *)
(* events, workers and attempts and any lease and backoff, and about       *)
(* Cache, for any accountants, workspaces, calls and size of batch.        *)
(***************************************************************************)
EXTENDS Outbox, Cache, TLAPS

WorkerState == {IdleWorker} \cup Batch \cup Job
Queued == {"PENDING", "PROCESSING"}

\* An event that may be tried again has an attempt left.
AttemptsLeft == \A e \in Events : event[e].status \in Queued => event[e].attempts < MaxAttempts

\* Events come with their transaction.
UnwrittenHaveNoEvent == \A e \in Events : expense[e] = "none" => event[e].status = "ABSENT"

\* Whoever is about to write PROCESSED has seen the handler return.
SuccessIsHandled ==
    \A w \in Workers : worker[w].at = "markProcessed" => worker[w].event \in handled

OutboxInv ==
    /\ TypeOK
    /\ AttemptsLeft
    /\ UnwrittenHaveNoEvent
    /\ SuccessIsHandled
    /\ InsightHasTransaction
    /\ ProcessedWasHandled

-----------------------------------------------------------------------------
(* Numbers and workers.                                                    *)

LEMMA BackoffTyped == \A n \in Nat \ {0} : Backoff(n) \in Int
<1> SUFFICES ASSUME NEW n \in Nat \ {0} PROVE Backoff(n) \in Int
  OBVIOUS
<1>1. n - 1 \in Nat
  OBVIOUS
<1>2. 2^(n - 1) \in Int
  BY <1>1, Z3
<1>3. BaseBackoff \in Int /\ MaxBackoff \in Int
  BY TimesAssumption
<1> DEFINE wait == BaseBackoff * 2^(n - 1)
<1>4. wait \in Int
  BY <1>2, <1>3
<1> HIDE DEF wait
<1>5. QED
  BY <1>3, <1>4 DEF Backoff, wait

LEMMA WorkerKinds ==
    ASSUME TypeOK, NEW w \in Workers
    PROVE  /\ worker[w].at = "batch" => worker[w] \in Batch
           /\ worker[w].at \in Stages => worker[w] \in Job
           /\ worker[w].at \notin Stages \cup {"batch"} => worker[w] = IdleWorker
BY DEF TypeOK, IdleWorker, Batch, Job, Stages

LEMMA WorkerTyped ==
    ASSUME TypeOK, NEW w \in Workers, NEW q \in WorkerState, worker' = [worker EXCEPT ![w] = q]
    PROVE  /\ worker' \in [Workers -> WorkerState]
           /\ \A x \in Workers : worker'[x] = IF x = w THEN q ELSE worker[x]
BY DEF TypeOK, WorkerState

LEMMA GotoTyped ==
    ASSUME TypeOK, NEW w \in Workers, worker[w].at \in Stages, NEW s \in Stages, Goto(w, s)
    PROVE  \E q \in WorkerState : /\ worker' = [worker EXCEPT ![w] = q]
                                  /\ q.at = s /\ q.event = worker[w].event
<1>1. worker[w] \in Job
  BY WorkerKinds
<1>2. [worker[w] EXCEPT !.at = s] \in WorkerState
  BY <1>1 DEF Job, WorkerState
<1>3. worker' = [worker EXCEPT ![w] = [worker[w] EXCEPT !.at = s]]
  BY DEF Goto
<1>4. QED
  BY <1>1, <1>2, <1>3 DEF Job

LEMMA NextInBatchTyped ==
    ASSUME TypeOK, NEW w \in Workers, worker[w].at \in Stages, NextInBatch(w)
    PROVE  \E q \in WorkerState : worker' = [worker EXCEPT ![w] = q] /\ q.at = "batch"
<1>1. worker[w] \in Job
  BY WorkerKinds
<1>2. [at |-> "batch", lag |-> worker[w].lag, batch |-> worker[w].batch] \in WorkerState
  BY <1>1 DEF Job, Batch, WorkerState
<1>3. QED
  BY <1>2 DEF NextInBatch

-----------------------------------------------------------------------------
(* What a worker may do to the tables.                                     *)

\* An event that is tried again has an attempt left, and only success is PROCESSED.
Settles(e) ==
    /\ event[e].status \in Queued
    /\ event'[e].status # "ABSENT"
    /\ event'[e].status \in Queued => event'[e].attempts < MaxAttempts
    /\ event'[e].status = "PROCESSED" => e \in handled'

LEMMA WorkerKeeps ==
    ASSUME OutboxInv, NEW w \in Workers, NEW q \in WorkerState,
           worker' = [worker EXCEPT ![w] = q],
           handled \subseteq handled', handled' \subseteq Events,
           q.at = "markProcessed" => q.event \in handled',
           event' \in [Events -> EventRow],
           \A e \in Events : event'[e] = event[e] \/ Settles(e),
           insight' \in [Events -> {"none", "active", "dismissed"}],
           \A e \in Events : insight'[e] = insight[e] \/ expense[e] = "live",
           crashes' \in 0..MaxCrashes,
           UNCHANGED <<expense, hub>>
    PROVE  OutboxInv'
<1>1. /\ worker' \in [Workers -> WorkerState]
      /\ \A x \in Workers : worker'[x] = IF x = w THEN q ELSE worker[x]
  BY WorkerTyped DEF OutboxInv
<1>2. TypeOK'
  BY <1>1 DEF OutboxInv, TypeOK, WorkerState
<1>3. AttemptsLeft'
  BY DEF OutboxInv, AttemptsLeft, Settles
<1>4. UnwrittenHaveNoEvent'
  BY DEF OutboxInv, UnwrittenHaveNoEvent, Settles, Queued
<1>5. SuccessIsHandled'
  BY <1>1 DEF OutboxInv, SuccessIsHandled
<1>6. InsightHasTransaction'
  BY DEF OutboxInv, InsightHasTransaction
<1>7. ProcessedWasHandled'
  BY DEF OutboxInv, ProcessedWasHandled, Settles
<1>8. QED
  BY <1>2, <1>3, <1>4, <1>5, <1>6, <1>7 DEF OutboxInv

\* A step that changes nothing but its worker.
LEMMA OnlyWorker ==
    ASSUME OutboxInv, NEW w \in Workers, NEW q \in WorkerState,
           worker' = [worker EXCEPT ![w] = q],
           q.at = "markProcessed" => q.event \in handled,
           UNCHANGED <<expense, event, insight, hub, handled, crashes>>
    PROVE  OutboxInv'
BY WorkerKeeps DEF OutboxInv, TypeOK

\* One event is written.
LEMMA EventWritten ==
    ASSUME OutboxInv, NEW e \in Events, NEW row \in EventRow, event' = [event EXCEPT ![e] = row],
           event[e].status \in Queued,
           row.status # "ABSENT",
           row.status \in Queued => row.attempts < MaxAttempts,
           row.status = "PROCESSED" => e \in handled'
    PROVE  /\ event' \in [Events -> EventRow]
           /\ \A x \in Events : event'[x] = event[x] \/ Settles(x)
<1>1. \A x \in Events : event'[x] = IF x = e THEN row ELSE event[x]
  BY DEF OutboxInv, TypeOK
<1>2. Settles(e)
  BY <1>1 DEF Settles
<1>3. QED
  BY <1>1, <1>2 DEF OutboxInv, TypeOK

LEMMA FetchKeeps ==
    ASSUME OutboxInv, NEW w \in Workers, FetchBatch(w)
    PROVE  OutboxInv'
<1> DEFINE q == [at |-> "batch", lag |-> 0, batch |-> {e \in Events : Processable(e, 0)}]
<1>1. q \in WorkerState
  BY TimesAssumption DEF WorkerState, Batch
<1>2. worker' = [worker EXCEPT ![w] = q] /\ q.at = "batch"
  BY DEF FetchBatch
<1>3. UNCHANGED <<expense, event, insight, hub, handled, crashes>>
  BY DEF FetchBatch
<1> HIDE DEF q
<1>4. QED
  BY <1>1, <1>2, <1>3, OnlyWorker

LEMMA ClaimKeeps ==
    ASSUME OutboxInv, NEW w \in Workers, NEW e \in Events, ClaimForProcessing(w, e)
    PROVE  OutboxInv'
<1> DEFINE rest == worker[w].batch \ {e}
           lag == worker[w].lag
<1>1. worker[w] \in Batch
  BY WorkerKinds DEF ClaimForProcessing, OutboxInv
<1>2. rest \in SUBSET Events /\ lag \in 0..MaxLag
  BY <1>1 DEF Batch
<1>3. UNCHANGED <<expense, insight, hub, handled, crashes>>
  BY DEF ClaimForProcessing
<1>4. CASE Processable(e, lag)
  <2> DEFINE q == [at |-> "handle", lag |-> lag, batch |-> rest, event |-> e]
             row == [event[e] EXCEPT !.status = "PROCESSING", !.due = Lease - lag]
  <2>1. q \in WorkerState
    BY <1>2 DEF WorkerState, Job, Stages
  <2>2. worker' = [worker EXCEPT ![w] = q] /\ q.at = "handle"
    BY <1>4 DEF ClaimForProcessing
  <2>3. event[e] \in EventRow /\ event[e].status \in Queued
    BY <1>4 DEF OutboxInv, TypeOK, Processable, Queued
  <2>4. row \in EventRow /\ row.status = "PROCESSING" /\ row.attempts < MaxAttempts
    <3>1. Lease - lag \in Int
      BY <1>2, TimesAssumption
    <3>2. event[e].attempts < MaxAttempts
      BY <2>3 DEF OutboxInv, AttemptsLeft
    <3>3. QED
      BY <2>3, <3>1, <3>2 DEF EventRow
  <2>5. event' = [event EXCEPT ![e] = row]
    BY <1>4 DEF ClaimForProcessing
  <2> HIDE DEF q, row
  <2>6. /\ event' \in [Events -> EventRow]
        /\ \A x \in Events : event'[x] = event[x] \/ Settles(x)
    BY <2>3, <2>4, <2>5, EventWritten
  <2>7. QED
    BY <1>3, <2>1, <2>2, <2>6, WorkerKeeps DEF OutboxInv, TypeOK
<1>5. CASE ~Processable(e, lag)
  <2> DEFINE q == [worker[w] EXCEPT !.batch = rest]
  <2>1. q \in WorkerState /\ q.at = "batch"
    BY <1>1, <1>2 DEF WorkerState, Batch
  <2>2. worker' = [worker EXCEPT ![w] = q] /\ UNCHANGED event
    BY <1>5 DEF ClaimForProcessing
  <2> HIDE DEF q
  <2>3. QED
    BY <1>3, <2>1, <2>2, OnlyWorker
<1>6. QED
  BY <1>4, <1>5

LEMMA IdleKeeps ==
    ASSUME OutboxInv, NEW w \in Workers, EndBatch(w) \/ Crash(w)
    PROVE  OutboxInv'
<1>1. /\ worker' = [worker EXCEPT ![w] = IdleWorker]
      /\ UNCHANGED <<expense, event, insight, hub, handled>>
      /\ crashes' \in 0..MaxCrashes
  BY CrashAssumption DEF EndBatch, Crash, OutboxInv, TypeOK
<1>2. IdleWorker \in WorkerState /\ IdleWorker.at # "markProcessed"
  BY DEF WorkerState, IdleWorker
<1>3. QED
  BY <1>1, <1>2, WorkerKeeps DEF OutboxInv, TypeOK

\* The handler moves on without having succeeded.
LEMMA GotoKeeps ==
    ASSUME OutboxInv, NEW w \in Workers, worker[w].at \in Stages,
           NEW s \in Stages \ {"markProcessed"}, Goto(w, s),
           UNCHANGED <<expense, event, insight, hub, handled, crashes>>
    PROVE  OutboxInv'
<1>1. PICK q \in WorkerState : worker' = [worker EXCEPT ![w] = q] /\ q.at = s
  BY GotoTyped DEF OutboxInv
<1>2. QED
  BY <1>1, OnlyWorker

\* The handler has succeeded.
LEMMA SucceedKeeps ==
    ASSUME OutboxInv, NEW w \in Workers, worker[w].at \in Stages, Succeed(w),
           insight' \in [Events -> {"none", "active", "dismissed"}],
           \A e \in Events : insight'[e] = insight[e] \/ expense[e] = "live",
           UNCHANGED <<expense, event, hub, crashes>>
    PROVE  OutboxInv'
<1>1. worker[w] \in Job
  BY WorkerKinds DEF OutboxInv
<1>2. "markProcessed" \in Stages /\ Goto(w, "markProcessed")
  BY DEF Stages, Succeed
<1>3. PICK q \in WorkerState : worker' = [worker EXCEPT ![w] = q] /\ q.event = worker[w].event
  BY <1>2, GotoTyped DEF OutboxInv
<1>4. /\ q.event \in handled' /\ handled \subseteq handled'
      /\ handled' \subseteq Events
  BY <1>1, <1>3 DEF Succeed, Job, OutboxInv, TypeOK
<1>5. QED
  BY <1>3, <1>4, WorkerKeeps DEF OutboxInv, TypeOK

LEMMA HandlerKeeps ==
    ASSUME OutboxInv, NEW w \in Workers, Handle(w)
    PROVE  OutboxInv'
<1>1. CASE BuildContext(w)
  <2>1. /\ ContextOf(worker[w].event) \in Stages \ {"markProcessed"}
        /\ worker[w].at \in Stages
    BY <1>1 DEF BuildContext, ContextOf, Stages
  <2>2. QED
    BY <1>1, <2>1, GotoKeeps DEF BuildContext
<1>2. CASE HandlerFails(w)
  BY <1>2, GotoKeeps DEF HandlerFails, Stages
<1>3. CASE Analyse(w)
  <2>1. worker[w].at \in Stages
    BY <1>3 DEF Analyse, Stages
  <2>2. CASE Succeed(w)
    BY <1>3, <2>1, <2>2, SucceedKeeps DEF Analyse, OutboxInv, TypeOK
  <2>3. CASE ~Succeed(w)
    <3>1. \/ Goto(w, "store") /\ UNCHANGED handled
          \/ Goto(w, "markFailed") /\ UNCHANGED handled
      BY <1>3, <2>3 DEF Analyse
    <3>2. QED
      BY <1>3, <2>1, <3>1, GotoKeeps DEF Analyse, Stages
  <2>4. QED
    BY <2>2, <2>3
<1>4. CASE StoreInsight(w)
  <2> DEFINE e == worker[w].event
  <2>1. worker[w].at \in Stages
    BY <1>4 DEF StoreInsight, Stages
  <2>2. e \in Events
    BY <2>1, WorkerKinds DEF OutboxInv, Job
  <2>3. CASE expense[e] = "live"
    <3>1. insight' = [insight EXCEPT ![e] = Upserted(@)] /\ Succeed(w)
      BY <1>4, <2>3 DEF StoreInsight
    <3>2. /\ insight' \in [Events -> {"none", "active", "dismissed"}]
          /\ \A x \in Events : insight'[x] = insight[x] \/ expense[x] = "live"
      BY <2>2, <2>3, <3>1 DEF OutboxInv, TypeOK, Upserted
    <3>3. QED
      BY <1>4, <2>1, <3>1, <3>2, SucceedKeeps DEF StoreInsight
  <2>4. CASE expense[e] # "live"
    BY <1>4, <2>1, <2>4, GotoKeeps DEF StoreInsight, Stages
  <2>5. QED
    BY <2>3, <2>4
<1>5. QED
  BY <1>1, <1>2, <1>3, <1>4 DEF Handle

\* The two outcomes, which meet an event that others may have settled.
LEMMA FailedRow ==
    ASSUME OutboxInv, NEW e \in Events, event[e].status \in Queued, NEW lag \in 0..MaxLag
    PROVE  LET attempts == event[e].attempts + 1
               row == [event[e] EXCEPT !.status = StatusAfter(attempts), !.attempts = attempts,
                                       !.due = Backoff(attempts) - lag]
           IN  /\ row \in EventRow
               /\ row.status \in {"FAILED", "PENDING"}
               /\ row.status = "FAILED" <=> event[e].attempts + 1 = MaxAttempts
               /\ row.attempts = event[e].attempts + 1
<1> DEFINE attempts == event[e].attempts + 1
<1>1. event[e] \in EventRow /\ event[e].attempts < MaxAttempts
  BY DEF OutboxInv, TypeOK, AttemptsLeft
<1>2. attempts \in 1..MaxAttempts /\ attempts \in Nat \ {0}
  BY <1>1, AttemptsAssumption DEF EventRow
<1>3. Backoff(attempts) - lag \in Int
  BY <1>2, BackoffTyped, TimesAssumption
<1>4. /\ StatusAfter(attempts) \in {"FAILED", "PENDING"}
      /\ StatusAfter(attempts) = "FAILED" <=> attempts = MaxAttempts
  BY <1>2, AttemptsAssumption DEF StatusAfter
<1>5. attempts \in 0..MaxAttempts
  BY <1>2
<1> HIDE DEF attempts
<1>6. QED
  BY <1>1, <1>3, <1>4, <1>5 DEF EventRow, attempts

LEMMA OutcomeKeeps ==
    ASSUME OutboxInv, NEW w \in Workers, MarkProcessed(w) \/ MarkFailed(w)
    PROVE  OutboxInv'
<1> DEFINE e == worker[w].event
           lag == worker[w].lag
<1>1. worker[w].at \in Stages /\ NextInBatch(w)
      /\ UNCHANGED <<expense, insight, hub, handled, crashes>>
  BY DEF MarkProcessed, MarkFailed, Stages
<1>2. e \in Events /\ lag \in 0..MaxLag
  BY <1>1, WorkerKinds DEF OutboxInv, Job
<1>3. PICK q \in WorkerState : worker' = [worker EXCEPT ![w] = q] /\ q.at = "batch"
  BY <1>1, NextInBatchTyped DEF OutboxInv
<1>4. CASE event' = event
  BY <1>1, <1>3, <1>4, OnlyWorker
<1>5. CASE event[e].status = "PROCESSING" /\ MarkProcessed(w)
  <2> DEFINE row == [event[e] EXCEPT !.status = "PROCESSED"]
  <2>1. event' = [event EXCEPT ![e] = row]
    BY <1>5 DEF MarkProcessed
  <2>2. row \in EventRow /\ row.status = "PROCESSED"
    BY <1>2 DEF OutboxInv, TypeOK, EventRow
  <2>3. e \in handled'
    BY <1>1, <1>5 DEF MarkProcessed, OutboxInv, SuccessIsHandled
  <2> HIDE DEF row
  <2>4. /\ event' \in [Events -> EventRow]
        /\ \A x \in Events : event'[x] = event[x] \/ Settles(x)
    BY <1>2, <1>5, <2>1, <2>2, <2>3, EventWritten DEF Queued
  <2>5. QED
    BY <1>1, <1>3, <2>4, WorkerKeeps DEF OutboxInv, TypeOK
<1>6. CASE event[e].status = "PROCESSING" /\ MarkFailed(w)
  <2> DEFINE attempts == event[e].attempts + 1
             row == [event[e] EXCEPT !.status = StatusAfter(attempts), !.attempts = attempts,
                                     !.due = Backoff(attempts) - lag]
  <2>1. event' = [event EXCEPT ![e] = row]
    BY <1>6 DEF MarkFailed
  <2>2. /\ row \in EventRow
        /\ row.status \in {"FAILED", "PENDING"}
        /\ row.status = "FAILED" <=> event[e].attempts + 1 = MaxAttempts
        /\ row.attempts = event[e].attempts + 1
    BY <1>2, <1>6, FailedRow DEF Queued
  <2>3. event[e].attempts \in 0..MaxAttempts /\ event[e].attempts < MaxAttempts
    BY <1>2, <1>6 DEF OutboxInv, TypeOK, EventRow, AttemptsLeft, Queued
  <2> HIDE DEF row
  <2>4. row.status \in Queued => row.attempts < MaxAttempts
    BY <2>2, <2>3, AttemptsAssumption DEF Queued
  <2>5. /\ event' \in [Events -> EventRow]
        /\ \A x \in Events : event'[x] = event[x] \/ Settles(x)
    BY <1>2, <1>6, <2>1, <2>2, <2>4, EventWritten DEF Queued
  <2>6. QED
    BY <1>1, <1>3, <2>5, WorkerKeeps DEF OutboxInv, TypeOK
<1>7. QED
  BY <1>4, <1>5, <1>6 DEF MarkProcessed, MarkFailed

-----------------------------------------------------------------------------
(* Producers, users and time.                                              *)

LEMMA EnqueuedRow ==
    ASSUME NEW isPhone \in IsPhone
    PROVE  /\ EnqueuedEvent(isPhone) \in EventRow
           /\ EnqueuedEvent(isPhone).status = "PENDING"
           /\ EnqueuedEvent(isPhone).attempts = 0
<1>1. (~isPhone) \in BOOLEAN /\ 0 \in 0..MaxAttempts /\ 0 \in Int
  BY AttemptsAssumption DEF IsPhone
<1>2. QED
  BY <1>1 DEF EnqueuedEvent, EventRow

LEMMA CreateKeeps ==
    ASSUME OutboxInv, NEW e \in Events, CreateExpense(e)
    PROVE  OutboxInv'
<1>1. PICK row \in EventRow : event' = [event EXCEPT ![e] = row] /\ row.status = "PENDING"
                              /\ row.attempts = 0
  BY EnqueuedRow DEF CreateExpense
<1>2. /\ event' \in [Events -> EventRow]
      /\ \A x \in Events : event'[x] = IF x = e THEN row ELSE event[x]
  BY <1>1 DEF OutboxInv, TypeOK
<1>3. /\ expense[e] = "none" /\ expense' = [expense EXCEPT ![e] = "live"]
      /\ UNCHANGED <<insight, hub, worker, handled, crashes>>
  BY DEF CreateExpense
<1>4. TypeOK'
  BY <1>2, <1>3 DEF OutboxInv, TypeOK
<1>5. AttemptsLeft'
  BY <1>1, <1>2, AttemptsAssumption DEF OutboxInv, AttemptsLeft
<1>6. UnwrittenHaveNoEvent'
  BY <1>2, <1>3 DEF OutboxInv, TypeOK, UnwrittenHaveNoEvent
<1>7. SuccessIsHandled'
  BY <1>3 DEF OutboxInv, SuccessIsHandled
<1>8. InsightHasTransaction'
  BY <1>3 DEF OutboxInv, TypeOK, InsightHasTransaction
<1>9. ProcessedWasHandled'
  BY <1>1, <1>2, <1>3 DEF OutboxInv, ProcessedWasHandled
<1>10. QED
  BY <1>4, <1>5, <1>6, <1>7, <1>8, <1>9 DEF OutboxInv

LEMMA DeleteKeeps ==
    ASSUME OutboxInv, NEW e \in Events, DeleteExpense(e)
    PROVE  OutboxInv'
<1>1. TypeOK'
  BY DEF DeleteExpense, OutboxInv, TypeOK
<1>2. AttemptsLeft' /\ SuccessIsHandled' /\ ProcessedWasHandled'
  BY DEF DeleteExpense, OutboxInv, AttemptsLeft, SuccessIsHandled, ProcessedWasHandled
<1>3. UnwrittenHaveNoEvent'
  BY DEF DeleteExpense, OutboxInv, TypeOK, UnwrittenHaveNoEvent
<1>4. InsightHasTransaction'
  BY DEF DeleteExpense, OutboxInv, TypeOK, InsightHasTransaction
<1>5. QED
  BY <1>1, <1>2, <1>3, <1>4 DEF OutboxInv

LEMMA PageKeeps ==
    ASSUME OutboxInv, AnalysisPage
    PROVE  OutboxInv'
<1>1. /\ UNCHANGED <<expense, event, worker, handled, crashes>>
      /\ hub' \subseteq Events
      /\ insight' \in [Events -> {"none", "active", "dismissed"}]
      /\ \A e \in Events : insight'[e] # "none" => insight[e] # "none"
  BY DEF AnalysisPage, ListForHub, DismissInsight, Active, OutboxInv, TypeOK
<1>2. TypeOK'
  BY <1>1 DEF OutboxInv, TypeOK
<1>3. InsightHasTransaction'
  BY <1>1 DEF OutboxInv, InsightHasTransaction
<1>4. QED
  BY <1>1, <1>2, <1>3
  DEF OutboxInv, AttemptsLeft, UnwrittenHaveNoEvent, SuccessIsHandled, ProcessedWasHandled

\* Time leaves everything but the distances alone.
LEMMA TickFacts ==
    ASSUME OutboxInv, Tick
    PROVE  /\ event' \in [Events -> EventRow]
           /\ \A e \in Events : /\ event'[e].status = event[e].status
                                /\ event'[e].attempts = event[e].attempts
           /\ worker' \in [Workers -> WorkerState]
           /\ \A w \in Workers : /\ worker'[w].at = worker[w].at
                                 /\ worker[w].at \in Stages => worker'[w].event = worker[w].event
<1>1. ASSUME NEW e \in Events
      PROVE  /\ event'[e] \in EventRow
             /\ event'[e].status = event[e].status
             /\ event'[e].attempts = event[e].attempts
  <2> DEFINE d == Clip(event[e].due - 1)
  <2>1. event[e] \in EventRow
    BY DEF OutboxInv, TypeOK
  <2>2. d \in Int
    BY <2>1, TimesAssumption DEF Clip, EventRow
  <2>3. event'[e] = [event[e] EXCEPT !.due = d]
    BY DEF Tick
  <2> HIDE DEF d
  <2>4. QED
    BY <2>1, <2>2, <2>3 DEF EventRow
<1>2. ASSUME NEW w \in Workers
      PROVE  /\ worker'[w] \in WorkerState
             /\ worker'[w].at = worker[w].at
             /\ worker[w].at \in Stages => worker'[w].event = worker[w].event
  <2>1. CASE worker[w].at = "idle"
    BY <2>1 DEF Tick, OutboxInv, TypeOK, WorkerState
  <2>2. CASE worker[w].at # "idle"
    <3>1. worker[w] \in Batch \cup Job
      BY <2>2 DEF OutboxInv, TypeOK, IdleWorker
    <3>2. worker[w].lag \in 0..MaxLag /\ worker[w].lag < MaxLag
      BY <2>2, <3>1 DEF Tick, Batch, Job
    <3>3. worker[w].lag + 1 \in 0..MaxLag
      BY <3>2, TimesAssumption
    <3>4. worker'[w] = [worker[w] EXCEPT !.lag = worker[w].lag + 1]
      BY <2>2 DEF Tick
    <3>5. CASE worker[w] \in Batch
      BY <3>3, <3>4, <3>5 DEF Batch, Stages, WorkerState
    <3>6. CASE worker[w] \in Job
      BY <3>3, <3>4, <3>6 DEF Job, Stages, WorkerState
    <3>7. QED
      BY <3>1, <3>5, <3>6
  <2>3. QED
    BY <2>1, <2>2
<1>3. DOMAIN event' = Events /\ DOMAIN worker' = Workers
      /\ event' = [e \in Events |-> event'[e]] /\ worker' = [w \in Workers |-> worker'[w]]
  BY DEF Tick
<1>4. QED
  BY <1>1, <1>2, <1>3

LEMMA TickKeeps ==
    ASSUME OutboxInv, Tick
    PROVE  OutboxInv'
<1>1. UNCHANGED <<expense, insight, hub, handled, crashes>>
  BY DEF Tick
<1>2. TypeOK'
  BY <1>1, TickFacts DEF OutboxInv, TypeOK, WorkerState
<1>3. AttemptsLeft' /\ UnwrittenHaveNoEvent' /\ ProcessedWasHandled' /\ InsightHasTransaction'
  BY <1>1, TickFacts
  DEF OutboxInv, AttemptsLeft, UnwrittenHaveNoEvent, ProcessedWasHandled, InsightHasTransaction
<1>4. SuccessIsHandled'
  <2> SUFFICES ASSUME NEW w \in Workers, worker'[w].at = "markProcessed"
               PROVE  worker'[w].event \in handled'
    BY DEF SuccessIsHandled
  <2>1. worker[w].at = "markProcessed" /\ worker[w].at \in Stages
    <3>1. worker'[w].at = worker[w].at
      BY TickFacts
    <3>2. QED
      BY <3>1 DEF Stages
  <2>2. worker'[w].event = worker[w].event
    BY <2>1, TickFacts
  <2>3. QED
    BY <1>1, <2>1, <2>2 DEF OutboxInv, SuccessIsHandled
<1>5. QED
  BY <1>2, <1>3, <1>4 DEF OutboxInv

-----------------------------------------------------------------------------
(* The invariant.                                                          *)

LEMMA OutboxInit == Init => OutboxInv
<1> SUFFICES ASSUME Init PROVE OutboxInv
  OBVIOUS
<1>1. TypeOK
  BY AttemptsAssumption, CrashAssumption DEF Init, TypeOK, EventRow
<1>2. AttemptsLeft /\ UnwrittenHaveNoEvent /\ ProcessedWasHandled
  BY DEF Init, AttemptsLeft, UnwrittenHaveNoEvent, ProcessedWasHandled, Queued
<1>3. SuccessIsHandled /\ InsightHasTransaction
  BY DEF Init, SuccessIsHandled, InsightHasTransaction, IdleWorker
<1>4. QED
  BY <1>1, <1>2, <1>3 DEF OutboxInv

LEMMA OutboxNext == OutboxInv /\ [Next]_vars => OutboxInv'
<1> SUFFICES ASSUME OutboxInv, [Next]_vars PROVE OutboxInv'
  OBVIOUS
<1>1. ASSUME NEW e \in Events, CreateExpense(e) \/ DeleteExpense(e) PROVE OutboxInv'
  BY <1>1, CreateKeeps, DeleteKeeps
<1>2. CASE AnalysisPage
  BY <1>2, PageKeeps
<1>3. ASSUME NEW w \in Workers, WorkerStep(w) \/ Crash(w) PROVE OutboxInv'
  BY <1>3, FetchKeeps, ClaimKeeps, HandlerKeeps, OutcomeKeeps, IdleKeeps DEF WorkerStep
<1>4. CASE Tick
  BY <1>4, TickKeeps
<1>5. CASE UNCHANGED vars
  BY <1>5 DEF vars, OutboxInv, TypeOK, AttemptsLeft, UnwrittenHaveNoEvent, SuccessIsHandled,
              InsightHasTransaction, ProcessedWasHandled
<1>6. QED
  BY <1>1, <1>2, <1>3, <1>4, <1>5 DEF Next

LEMMA OutboxInvariant == Spec => []OutboxInv
BY OutboxInit, OutboxNext, PTL DEF Spec

\* Events, insights and batches keep their types; in particular no event is tried more
\* than MaxAttempts times, however many workers count its failures.
THEOREM OutboxTypeCorrect == Spec => []TypeOK
<1>1. OutboxInv => TypeOK
  BY DEF OutboxInv
<1>2. QED
  BY <1>1, OutboxInvariant, PTL

\* AiInsightService.create stores nothing for a transaction that is gone, and the deletion
\* of a transaction takes its insight along.
THEOREM InsightsHaveTransactions == Spec => []InsightHasTransaction
<1>1. OutboxInv => InsightHasTransaction
  BY DEF OutboxInv
<1>2. QED
  BY <1>1, OutboxInvariant, PTL

\* OutboxService.markProcessed finds its event by id and status alone, yet whoever calls it
\* has seen a handler of that event return.
THEOREM ProcessedEventsWereHandled == Spec => []ProcessedWasHandled
<1>1. OutboxInv => ProcessedWasHandled
  BY DEF OutboxInv
<1>2. QED
  BY <1>1, OutboxInvariant, PTL

-----------------------------------------------------------------------------
(* What a step may never do.                                               *)

\* Only the insertion, the dismissal and the deletion write insights.
LEMMA InsightsUntouched ==
    ASSUME [Next]_vars
    PROVE  \/ UNCHANGED <<insight, expense>>
           \/ \E e \in Events : CreateExpense(e) \/ DeleteExpense(e) \/ DismissInsight(e)
           \/ \E w \in Workers : StoreInsight(w)
BY DEF Next, vars, AnalysisPage, ListForHub, WorkerStep, FetchBatch, ClaimForProcessing, Handle,
       BuildContext, Analyse, HandlerFails, MarkProcessed, MarkFailed, EndBatch, Crash, Tick

LEMMA DismissalStep ==
    ASSUME TypeOK, [Next]_vars, NEW e \in Events, insight[e] = "dismissed"
    PROVE  insight'[e] = "dismissed" \/ expense'[e] = "deleted"
<1>1. CASE UNCHANGED <<insight, expense>>
  BY <1>1
<1>2. ASSUME NEW x \in Events, CreateExpense(x) \/ DeleteExpense(x) \/ DismissInsight(x)
      PROVE  insight'[e] = "dismissed" \/ expense'[e] = "deleted"
  BY <1>2 DEF CreateExpense, DeleteExpense, DismissInsight, TypeOK
<1>3. ASSUME NEW w \in Workers, StoreInsight(w)
      PROVE  insight'[e] = "dismissed"
  BY <1>3 DEF StoreInsight, Upserted, TypeOK
<1>4. QED
  BY <1>1, <1>2, <1>3, InsightsUntouched

\* AiInsightService.create leaves `dismissed` out of the update of its upsert: an event that
\* is processed again does not bring back what the user has put away.
THEOREM DismissalsLast == Spec => DismissedStaysDismissed
<1>1. TypeOK /\ [Next]_vars =>
         [\A e \in Events :
            insight[e] = "dismissed" => insight'[e] = "dismissed" \/ expense'[e] = "deleted"]_vars
  BY DismissalStep
<1>2. QED
  BY <1>1, OutboxTypeCorrect, PTL DEF Spec, DismissedStaysDismissed

-----------------------------------------------------------------------------
(* The outbox as a job queue.                                              *)

QueueJob == [e \in Events |-> [state |-> QueueState(event[e].status), tries |-> event[e].attempts]]

LEMMA QueueStates ==
    /\ QueueState("ABSENT") = "none" /\ QueueState("PROCESSED") = "done"
    /\ QueueState("FAILED") = "dead"
    /\ QueueState("PENDING") = "queued" /\ QueueState("PROCESSING") = "queued"
BY DEF QueueState

\* A step of the queue, or none.
QueueStep == UNCHANGED QueueJob \/ Queue!QNext

LEMMA QueueUntouched ==
    ASSUME \A e \in Events : /\ QueueState(event'[e].status) = QueueState(event[e].status)
                             /\ event'[e].attempts = event[e].attempts
    PROVE  QueueStep
BY DEF QueueStep, QueueJob

\* One event moves: the queue's function moves at that event.
LEMMA QueueMoves ==
    ASSUME TypeOK, NEW e \in Events, NEW row \in EventRow, event' = [event EXCEPT ![e] = row]
    PROVE  QueueJob' = [QueueJob EXCEPT ![e] = [state |-> QueueState(row.status),
                                                tries |-> row.attempts]]
<1>1. \A x \in Events : event'[x] = IF x = e THEN row ELSE event[x]
  BY DEF TypeOK
<1>2. QED
  BY <1>1 DEF QueueJob

LEMMA CreateSubmits ==
    ASSUME OutboxInv, NEW e \in Events, CreateExpense(e)
    PROVE  QueueStep
<1>1. PICK row \in EventRow : event' = [event EXCEPT ![e] = row] /\ row.status = "PENDING"
                              /\ row.attempts = 0
  BY EnqueuedRow DEF CreateExpense
<1>2. QueueJob' = [QueueJob EXCEPT ![e] = [state |-> "queued", tries |-> 0]]
  <2>1. TypeOK /\ event' = [event EXCEPT ![e] = row]
    BY <1>1 DEF OutboxInv
  <2>2. QueueJob' = [QueueJob EXCEPT ![e] = [state |-> QueueState(row.status),
                                             tries |-> row.attempts]]
    BY <2>1, QueueMoves
  <2>3. QueueState(row.status) = "queued"
    BY <1>1, QueueStates
  <2>4. QED
    BY <1>1, <2>2, <2>3
<1>3. QueueJob[e].state = "none"
  BY QueueStates DEF CreateExpense, OutboxInv, UnwrittenHaveNoEvent, QueueJob
<1>4. QED
  BY <1>2, <1>3 DEF QueueStep, Queue!QNext, Queue!Submit, QueueJob

LEMMA OutcomeSettles ==
    ASSUME OutboxInv, NEW w \in Workers, MarkProcessed(w) \/ MarkFailed(w)
    PROVE  QueueStep
<1> DEFINE e == worker[w].event
           lag == worker[w].lag
<1>1. worker[w].at \in Stages
  BY DEF MarkProcessed, MarkFailed, Stages
<1>2. e \in Events /\ lag \in 0..MaxLag
  BY <1>1, WorkerKinds DEF OutboxInv, Job
<1>3. CASE event' = event
  BY <1>3 DEF QueueStep, QueueJob
<1>4. CASE event[e].status = "PROCESSING" /\ MarkProcessed(w)
  <2> DEFINE row == [event[e] EXCEPT !.status = "PROCESSED"]
  <2>1. event' = [event EXCEPT ![e] = row]
    BY <1>4 DEF MarkProcessed
  <2>2. row \in EventRow /\ row.status = "PROCESSED" /\ row.attempts = event[e].attempts
    BY <1>2 DEF OutboxInv, TypeOK, EventRow
  <2> HIDE DEF row
  <2>3. QueueJob' = [QueueJob EXCEPT ![e] = [state |-> "done", tries |-> event[e].attempts]]
    <3>1. QueueJob' = [QueueJob EXCEPT ![e] = [state |-> QueueState(row.status),
                                               tries |-> row.attempts]]
      BY <1>2, <2>1, <2>2, QueueMoves DEF OutboxInv
    <3>2. QueueState(row.status) = "done"
      BY <2>2, QueueStates
    <3>3. QED
      BY <2>2, <3>1, <3>2
  <2>4. QueueJob[e] = [state |-> "queued", tries |-> event[e].attempts]
    BY <1>2, <1>4, QueueStates DEF QueueJob
  <2>5. QueueJob' = [QueueJob EXCEPT ![e].state = "done"]
    <3>1. [QueueJob[e] EXCEPT !.state = "done"] = [state |-> "done", tries |-> event[e].attempts]
      BY <2>4
    <3>2. QED
      BY <2>3, <3>1
  <2>6. QED
    BY <1>2, <2>4, <2>5 DEF QueueStep, Queue!QNext, Queue!Finish, QueueJob
<1>5. CASE event[e].status = "PROCESSING" /\ MarkFailed(w)
  <2> DEFINE attempts == event[e].attempts + 1
             row == [event[e] EXCEPT !.status = StatusAfter(attempts), !.attempts = attempts,
                                     !.due = Backoff(attempts) - lag]
  <2>1. event' = [event EXCEPT ![e] = row]
    BY <1>5 DEF MarkFailed
  <2>2. /\ row \in EventRow
        /\ row.status \in {"FAILED", "PENDING"}
        /\ row.status = "FAILED" <=> event[e].attempts + 1 = MaxAttempts
        /\ row.attempts = event[e].attempts + 1
    BY <1>2, <1>5, FailedRow DEF Queued
  <2> HIDE DEF row
  <2>3. QueueState(row.status) =
           IF event[e].attempts + 1 = MaxAttempts THEN "dead" ELSE "queued"
    BY <2>2, QueueStates
  <2>4. QueueJob' = [QueueJob EXCEPT ![e] =
                       [state |-> IF event[e].attempts + 1 = MaxAttempts THEN "dead" ELSE "queued",
                        tries |-> event[e].attempts + 1]]
    BY <1>2, <2>1, <2>2, <2>3, QueueMoves DEF OutboxInv
  <2>5. QueueJob[e] = [state |-> "queued", tries |-> event[e].attempts]
    BY <1>2, <1>5, QueueStates DEF QueueJob
  <2>6. event[e].attempts < MaxAttempts
    BY <1>2, <1>5 DEF OutboxInv, AttemptsLeft, Queued
  <2>7. QueueJob' = [QueueJob EXCEPT ![e] =
                       [state |-> IF @.tries + 1 = MaxAttempts THEN "dead" ELSE "queued",
                        tries |-> @.tries + 1]]
    BY <2>4, <2>5
  <2>8. QED
    BY <1>2, <2>5, <2>6, <2>7 DEF QueueStep, Queue!QNext, Queue!Fail, QueueJob
<1>6. QED
  BY <1>3, <1>4, <1>5 DEF MarkProcessed, MarkFailed

LEMMA ClaimStutters ==
    ASSUME OutboxInv, NEW w \in Workers, NEW e \in Events, ClaimForProcessing(w, e)
    PROVE  QueueStep
<1>1. CASE event' = event
  BY <1>1 DEF QueueStep, QueueJob
<1>2. CASE event' # event
  <2>1. /\ Processable(e, worker[w].lag)
        /\ event' = [event EXCEPT ![e].status = "PROCESSING", ![e].due = Lease - worker[w].lag]
    BY <1>2 DEF ClaimForProcessing
  <2>2. event[e] \in EventRow /\ event[e].status \in {"PENDING", "PROCESSING"}
    BY <2>1 DEF OutboxInv, TypeOK, Processable
  <2>3. \A x \in Events : /\ x # e => event'[x] = event[x]
                          /\ x = e => /\ event'[x].status = "PROCESSING"
                                      /\ event'[x].attempts = event[x].attempts
    BY <2>1, <2>2 DEF OutboxInv, TypeOK, EventRow
  <2>4. QED
    BY <2>2, <2>3, QueueStates, QueueUntouched
<1>3. QED
  BY <1>1, <1>2

LEMMA QueueNext == OutboxInv /\ [Next]_vars => [Queue!QNext]_QueueJob
<1> SUFFICES ASSUME OutboxInv, [Next]_vars PROVE QueueStep
  BY DEF QueueStep
<1>1. ASSUME NEW e \in Events, CreateExpense(e) PROVE QueueStep
  BY <1>1, CreateSubmits
<1>2. ASSUME NEW w \in Workers, MarkProcessed(w) \/ MarkFailed(w) PROVE QueueStep
  BY <1>2, OutcomeSettles
<1>3. ASSUME NEW w \in Workers, NEW e \in Events, ClaimForProcessing(w, e) PROVE QueueStep
  BY <1>3, ClaimStutters
<1>4. CASE Tick
  BY <1>4, TickFacts, QueueUntouched
<1>5. CASE UNCHANGED event
  BY <1>5 DEF QueueStep, QueueJob
<1>6. QED
  BY <1>1, <1>2, <1>3, <1>4, <1>5
  DEF Next, vars, DeleteExpense, AnalysisPage, ListForHub, DismissInsight, WorkerStep, FetchBatch,
      Handle, BuildContext, Analyse, StoreInsight, HandlerFails, EndBatch, Crash

\* The safety half of OutboxIsAJobQueue: an event leaves the queue as done or, at its last
\* attempt, as dead, counts one attempt per failure and never comes back.
THEOREM OutboxImplementsQueue == Spec => Queue!QSafety
<1>1. Init => Queue!QInit
  BY QueueStates DEF Init, Queue!QInit
<1>2. QED
  BY <1>1, OutboxInvariant, QueueNext, PTL DEF Spec, Queue!QSafety, QueueJob

-----------------------------------------------------------------------------
(* The accountant's cache.                                                 *)

\* What a refresh is at each stage, when its accountant has the rows of the workspaces have and
\* is a member of those in mine.
CallFits(r, have, mine) ==
    /\ r.at = "idle" => r = Idle
    /\ r.at # "batch" => r.batch = {} /\ r.held = NoRows
    /\ r.at = "peek" => r.by = "login" /\ r.said = "nothing"
    /\ r.at = "reread" => Answering(r)
    /\ r.said = "refused" => r.failed \/ r.upset
    /\ ~ r.upset =>
          /\ r.by = "login" => r.expected = mine
          /\ r.at = "batch" => /\ r.ids = mine
                               /\ r.todo \cup r.batch \cup DOMAIN r.held \subseteq mine
          /\ r.at = "batch" /\ ~ r.failed =>
                mine \subseteq r.todo \cup r.batch \cup DOMAIN r.held \cup have
          /\ r.at = "reread" /\ ~ r.failed => have = mine
          /\ r.by = "route" /\ r.said = "rows" /\ ~ r.failed => r.rows = mine

CallsFit ==
    \A c \in Calls : CallFits(call[c], DOMAIN cache[call[c].user], members[call[c].user])

\* Overlapping refreshes of one accountant have seen the same changes of the memberships.
UpsetTogether ==
    \A c, d \in Calls :
        Busy(c) /\ Busy(d) /\ call[c].user = call[d].user => call[c].upset = call[d].upset

FiguresCounted == \A w \in Workspaces : figures[w] <= changes

CacheInv ==
    /\ CacheTypeOK
    /\ FiguresCounted
    /\ CallsFit
    /\ UpsetTogether

\* The type, but for the calls and the cache.
OthersTyped ==
    /\ figures \in [Workspaces -> 0..MaxChanges]
    /\ members \in [Accountants -> SUBSET Workspaces]
    /\ running \in BOOLEAN /\ round \in Round
    /\ changes \in 0..MaxChanges /\ requests \in 0..MaxRequests /\ faults \in 0..MaxFaults

-----------------------------------------------------------------------------
(* Rows of a cache.                                                        *)

\* Nothing is a row of no workspace.
LEMMA NoRowsAreRows ==
    /\ NoRows \in Rows /\ DOMAIN NoRows = {}
    /\ \A f \in Rows : DOMAIN f = {} => f = NoRows
<1>1. NoRows \in [{} -> 0..MaxChanges] /\ DOMAIN NoRows = {}
  BY DEF NoRows
<1>2. \A f \in Rows : DOMAIN f = {} => f = NoRows
  <2>. SUFFICES ASSUME NEW s \in SUBSET Workspaces, NEW f \in [s -> 0..MaxChanges], DOMAIN f = {}
                PROVE  f = NoRows
    BY DEF Rows
  <2>. QED
    BY DEF NoRows
<1>3. NoRows \in Rows
  <2>1. {} \in SUBSET Workspaces
    OBVIOUS
  <2>. QED
    BY <1>1, <2>1 DEF Rows
<1>. QED
  BY <1>1, <1>2, <1>3

\* A function to figures over workspaces is a cache.
LEMMA RowsAre ==
    ASSUME NEW f
    PROVE  f \in Rows <=> /\ f = [w \in DOMAIN f |-> f[w]]
                          /\ DOMAIN f \subseteq Workspaces
                          /\ \A w \in DOMAIN f : f[w] \in 0..MaxChanges
<1>1. f \in Rows <=> \E s \in SUBSET Workspaces : f \in [s -> 0..MaxChanges]
  BY DEF Rows
<1>. QED
  BY <1>1

LEMMA RowAdded ==
    ASSUME NEW f \in Rows, NEW w \in Workspaces, NEW x \in 0..MaxChanges
    PROVE  With(f, w, x) \in Rows /\ DOMAIN With(f, w, x) = DOMAIN f \cup {w}
<1>1. PICK g : g = With(f, w, x)
  OBVIOUS
<1>2. /\ DOMAIN g = DOMAIN f \cup {w} /\ g = [v \in DOMAIN g |-> g[v]]
      /\ \A v \in DOMAIN g : g[v] = IF v = w THEN x ELSE f[v]
  BY <1>1 DEF With
<1>3. DOMAIN f \subseteq Workspaces /\ \A v \in DOMAIN f : f[v] \in 0..MaxChanges
  BY RowsAre
<1>4. g \in Rows
  BY <1>2, <1>3, RowsAre
<1>. QED
  BY <1>1, <1>2, <1>4

LEMMA RowsRestricted ==
    ASSUME NEW f \in Rows, NEW s, s \subseteq DOMAIN f
    PROVE  Restrict(f, s) \in Rows /\ DOMAIN Restrict(f, s) = s
<1>1. PICK g : g = Restrict(f, s)
  OBVIOUS
<1>2. g = [v \in DOMAIN g |-> g[v]] /\ DOMAIN g = s /\ \A v \in s : g[v] = f[v]
  BY <1>1 DEF Restrict
<1>3. DOMAIN f \subseteq Workspaces /\ \A v \in DOMAIN f : f[v] \in 0..MaxChanges
  BY RowsAre
<1>4. g \in Rows
  BY <1>2, <1>3, RowsAre
<1>. QED
  BY <1>1, <1>2, <1>4

-----------------------------------------------------------------------------
(* What a step has to keep.                                                *)

\* What others may do to the rows of an accountant whose memberships stay.
HaveKept(old, new, mine) ==
    /\ old \cap mine \subseteq new
    /\ old = mine => new = mine

LEMMA FitsOn ==
    ASSUME NEW r, NEW old, NEW new, NEW mine, CallFits(r, old, mine),
           r.upset \/ HaveKept(old, new, mine)
    PROVE  CallFits(r, new, mine)
BY DEF CallFits, HaveKept

LEMMA IdleFits ==
    /\ Idle \in Call /\ Idle.at = "idle" /\ Idle.said = "nothing"
    /\ \A have, mine : CallFits(Idle, have, mine)
<1>1. (CHOOSE a \in Accountants : TRUE) \in Accountants
  BY AccountantsAssumption
<1>2. Idle \in Call
  BY <1>1, NoRowsAreRows DEF Idle, Call
<1>. QED
  BY <1>2 DEF Idle, CallFits

\* A call goes on, or ends, and changes rows of its own accountant only.
LEMMA CallStep ==
    ASSUME CacheInv, OthersTyped', FiguresCounted', members' = members,
           cache' \in [Accountants -> Rows],
           NEW c \in Calls, Busy(c), NEW r \in Call, call' = [call EXCEPT ![c] = r],
           r = Idle \/ (r.user = call[c].user /\ r.upset = call[c].upset),
           \A b \in Accountants : b # call[c].user => cache'[b] = cache[b],
           \/ call[c].upset
           \/ HaveKept(DOMAIN cache[call[c].user], DOMAIN cache'[call[c].user],
                       members[call[c].user]),
           CallFits(r, DOMAIN cache'[r.user], members[r.user])
    PROVE  CacheInv'
<1>1. call \in [Calls -> Call] /\ call[c] \in Call
  BY DEF CacheInv, CacheTypeOK
<1>2. \A d \in Calls : call'[d] = IF d = c THEN r ELSE call[d]
  BY <1>1
<1>3. CacheTypeOK'
  BY <1>1 DEF CacheInv, CacheTypeOK, OthersTyped
<1>4. UpsetTogether'
  BY <1>2, IdleFits DEF CacheInv, UpsetTogether, Busy
<1>5. CallsFit'
  <2>. SUFFICES ASSUME NEW d \in Calls
                PROVE  CallFits(call'[d], DOMAIN cache'[call'[d].user], members[call'[d].user])
    BY DEF CallsFit
  <2>1. CASE d = c
    BY <1>2, <2>1
  <2>2. CASE d # c /\ call[d].user # call[c].user
    <3>1. call[d].user \in Accountants
      BY <1>1 DEF Call
    <3>. QED
      BY <1>2, <2>2, <3>1 DEF CacheInv, CallsFit
  <2>3. CASE d # c /\ call[d].user = call[c].user /\ Busy(d)
    <3>1. call[d].upset = call[c].upset
      BY <2>3 DEF CacheInv, UpsetTogether
    <3>2. CallFits(call[d], DOMAIN cache[call[d].user], members[call[d].user])
      BY DEF CacheInv, CallsFit
    <3>3. CallFits(call[d], DOMAIN cache'[call[d].user], members[call[d].user])
      BY <2>3, <3>1, <3>2, FitsOn
    <3>. QED
      BY <1>2, <2>3, <3>3
  <2>4. CASE d # c /\ ~ Busy(d)
    <3>1. call[d] = Idle
      BY <2>4 DEF CacheInv, CallsFit, CallFits, Busy
    <3>. QED
      BY <1>2, <2>4, <3>1, IdleFits
  <2>. QED
    BY <2>1, <2>2, <2>3, <2>4
<1>. QED
  BY <1>3, <1>4, <1>5 DEF CacheInv

\* The same, with the rows as they are.
LEMMA QuietStep ==
    ASSUME CacheInv, OthersTyped', FiguresCounted', members' = members, cache' = cache,
           NEW c \in Calls, Busy(c), NEW r \in Call, call' = [call EXCEPT ![c] = r],
           r = Idle \/ (r.user = call[c].user /\ r.upset = call[c].upset),
           CallFits(r, DOMAIN cache[r.user], members[r.user])
    PROVE  CacheInv'
<1>1. cache' \in [Accountants -> Rows]
  BY DEF CacheInv, CacheTypeOK
<1>2. HaveKept(DOMAIN cache[call[c].user], DOMAIN cache'[call[c].user], members[call[c].user])
  BY DEF HaveKept
<1>. QED
  BY <1>1, <1>2, CallStep

\* A call starts.
LEMMA StartStep ==
    ASSUME CacheInv, OthersTyped', FiguresCounted', members' = members, cache' = cache,
           NEW c \in Calls, ~ Busy(c), NEW r \in Call, call' = [call EXCEPT ![c] = r],
           r.upset = Upset(r.user),
           CallFits(r, DOMAIN cache[r.user], members[r.user])
    PROVE  CacheInv'
<1>1. call \in [Calls -> Call]
  BY DEF CacheInv, CacheTypeOK
<1>2. \A d \in Calls : call'[d] = IF d = c THEN r ELSE call[d]
  BY <1>1
<1>3. CacheTypeOK'
  BY <1>1 DEF CacheInv, CacheTypeOK, OthersTyped
<1>4. UpsetTogether'
  <2>1. \A d \in Calls \ {c} : Busy(d) /\ call[d].user = r.user => call[d].upset = r.upset
    <3>. SUFFICES ASSUME NEW d \in Calls \ {c}, Busy(d), call[d].user = r.user
                  PROVE  call[d].upset = r.upset
      OBVIOUS
    <3>1. call[d].upset \in BOOLEAN /\ r.upset \in BOOLEAN
      BY <1>1 DEF Call
    <3>2. call[d].upset => r.upset
      BY DEF Upset
    <3>3. r.upset => call[d].upset
      BY DEF Upset, CacheInv, UpsetTogether
    <3>. QED
      BY <3>1, <3>2, <3>3
  <2>. QED
    BY <1>2, <2>1 DEF CacheInv, UpsetTogether, Busy
<1>5. CallsFit'
  BY <1>2 DEF CacheInv, CallsFit
<1>. QED
  BY <1>3, <1>4, <1>5 DEF CacheInv

\* A step of the cron round.
LEMMA RoundStep ==
    ASSUME CacheInv, OthersTyped', FiguresCounted', UNCHANGED <<members, cache, call>>
    PROVE  CacheInv'
<1>1. CacheTypeOK'
  BY DEF CacheInv, CacheTypeOK, OthersTyped
<1>2. CallsFit' /\ UpsetTogether'
  BY DEF CacheInv, CallsFit, UpsetTogether, Busy
<1>. QED
  BY <1>1, <1>2 DEF CacheInv

\* The fields of a call.
LEMMA CallFields ==
    ASSUME CacheInv, NEW c \in Calls
    PROVE  /\ call[c] \in Call
           /\ call[c].user \in Accountants /\ call[c].ids \subseteq Workspaces
           /\ call[c].todo \subseteq Workspaces /\ call[c].batch \subseteq Workspaces
           /\ call[c].expected \subseteq Workspaces
           /\ call[c].held \in Rows /\ DOMAIN call[c].held \subseteq Workspaces
           /\ cache[call[c].user] \in Rows /\ members[call[c].user] \subseteq Workspaces
           /\ DOMAIN cache[call[c].user] \subseteq Workspaces
           /\ CallFits(call[c], DOMAIN cache[call[c].user], members[call[c].user])
<1>1. call[c] \in Call
  BY DEF CacheInv, CacheTypeOK
<1>2. call[c].user \in Accountants /\ call[c].held \in Rows
  BY <1>1 DEF Call
<1>3. cache[call[c].user] \in Rows /\ members[call[c].user] \subseteq Workspaces
  BY <1>2 DEF CacheInv, CacheTypeOK
<1>4. DOMAIN call[c].held \subseteq Workspaces /\ DOMAIN cache[call[c].user] \subseteq Workspaces
  BY <1>2, <1>3, RowsAre
<1>5. CallFits(call[c], DOMAIN cache[call[c].user], members[call[c].user])
  BY DEF CacheInv, CallsFit
<1>. QED
  BY <1>1, <1>2, <1>3, <1>4, <1>5 DEF Call

-----------------------------------------------------------------------------
(* The steps of a refresh.                                                 *)

\* The rest of the state stays.
LEMMA OthersStay ==
    ASSUME CacheInv, UNCHANGED <<figures, members, running, round, changes, requests>>,
           Fault \/ UNCHANGED faults
    PROVE  OthersTyped' /\ FiguresCounted' /\ members' = members
BY BoundsAssumption DEF CacheInv, CacheTypeOK, OthersTyped, FiguresCounted, Fault

LEMMA MembersKeeps ==
    ASSUME CacheInv, NEW c \in Calls, Members(c)
    PROVE  CacheInv'
<1>1. OthersTyped' /\ FiguresCounted' /\ members' = members
  BY OthersStay DEF Members
<1>2. PICK p : p = call[c]
  OBVIOUS
<1>3. /\ p \in Call /\ p.at = "members" /\ Busy(c) /\ p.user \in Accountants
      /\ CallFits(p, DOMAIN cache[p.user], members[p.user]) /\ members[p.user] \subseteq Workspaces
  BY <1>2, CallFields DEF Members, Busy
<1>4. CASE members[p.user] = {}
  <2>1. PICK r : r = Refreshed(p)
    OBVIOUS
  <2>2. call' = [call EXCEPT ![c] = r] /\ cache' = [cache EXCEPT ![p.user] = NoRows]
    BY <1>2, <1>4, <2>1 DEF Members, Become
  <2>3. /\ r \in Call /\ r.user = p.user /\ r.upset = p.upset /\ r.by = p.by
        /\ r.said = p.said /\ r.failed = p.failed /\ r.batch = p.batch /\ r.held = p.held
        /\ r.expected = p.expected /\ r.rows = p.rows
        /\ r.at = (IF Answering(p) THEN "reread" ELSE "done")
    BY <1>3, <2>1 DEF Refreshed, Call
  <2>4. cache \in [Accountants -> Rows]
    BY DEF CacheInv, CacheTypeOK
  <2>5. /\ cache' \in [Accountants -> Rows] /\ cache'[p.user] = NoRows
        /\ \A b \in Accountants : b # p.user => cache'[b] = cache[b]
    BY <1>3, <2>2, <2>4, NoRowsAreRows
  <2>6. DOMAIN cache'[p.user] = {}
    BY <2>5, NoRowsAreRows
  <2>7. HaveKept(DOMAIN cache[p.user], DOMAIN cache'[p.user], members[p.user])
    BY <1>4, <2>6 DEF HaveKept
  <2>8. CallFits(r, {}, {})
    BY <1>3, <1>4, <2>3 DEF CallFits, Answering
  <2>9. CallFits(r, DOMAIN cache'[r.user], members[r.user])
    BY <1>4, <2>3, <2>6, <2>8
  <2>. QED
    BY <1>1, <1>2, <1>3, <2>2, <2>3, <2>5, <2>7, <2>9, CallStep
<1>5. CASE members[p.user] # {}
  <2>1. PICK r : r = [p EXCEPT !.at = "batch", !.ids = members[p.user], !.todo = members[p.user]]
    OBVIOUS
  <2>2. call' = [call EXCEPT ![c] = r] /\ cache' = cache
    BY <1>2, <1>5, <2>1 DEF Members, Become
  <2>3. /\ r \in Call /\ r.user = p.user /\ r.upset = p.upset /\ r.by = p.by
        /\ r.said = p.said /\ r.failed = p.failed /\ r.batch = p.batch /\ r.held = p.held
        /\ r.expected = p.expected /\ r.rows = p.rows /\ r.at = "batch"
        /\ r.ids = members[p.user] /\ r.todo = members[p.user]
    BY <1>3, <2>1 DEF Call
  <2>4. CallFits(r, DOMAIN cache[p.user], members[p.user])
    BY <1>3, <2>3, NoRowsAreRows DEF CallFits
  <2>. QED
    BY <1>1, <1>2, <1>3, <2>2, <2>3, <2>4, QuietStep
<1>. QED
  BY <1>4, <1>5

LEMMA NextBatchKeeps ==
    ASSUME CacheInv, NEW c \in Calls, NextBatch(c)
    PROVE  CacheInv'
<1>1. OthersTyped' /\ FiguresCounted' /\ members' = members /\ cache' = cache
  BY OthersStay DEF NextBatch
<1>2. PICK p : p = call[c]
  OBVIOUS
<1>3. /\ p \in Call /\ p.at = "batch" /\ p.batch = {} /\ Busy(c)
      /\ CallFits(p, DOMAIN cache[p.user], members[p.user])
  BY <1>2, CallFields DEF NextBatch, BatchDone, Busy
<1>4. PICK b \in SUBSET p.todo : call' = [call EXCEPT ![c] = [p EXCEPT !.batch = b, !.todo = p.todo \ b]]
  BY <1>2 DEF NextBatch, Become
<1>5. PICK r : r = [p EXCEPT !.batch = b, !.todo = p.todo \ b]
  OBVIOUS
<1>6. /\ r \in Call /\ r.user = p.user /\ r.upset = p.upset /\ r.by = p.by
      /\ r.said = p.said /\ r.failed = p.failed /\ r.batch = b /\ r.held = p.held
      /\ r.expected = p.expected /\ r.rows = p.rows /\ r.at = "batch"
      /\ r.ids = p.ids /\ r.todo = p.todo \ b
  BY <1>3, <1>5 DEF Call
<1>7. CallFits(r, DOMAIN cache[p.user], members[p.user])
  BY <1>3, <1>6 DEF CallFits
<1>. QED
  BY <1>1, <1>2, <1>3, <1>4, <1>5, <1>6, <1>7, QuietStep

LEMMA AggregateKeeps ==
    ASSUME CacheInv, NEW c \in Calls, NEW w \in Workspaces, Aggregate(c, w)
    PROVE  CacheInv'
<1>1. OthersTyped' /\ FiguresCounted' /\ members' = members /\ cache' = cache
  BY OthersStay DEF Aggregate
<1>2. PICK p : p = call[c]
  OBVIOUS
<1>3. /\ p \in Call /\ w \in p.batch /\ p.held \in Rows
      /\ CallFits(p, DOMAIN cache[p.user], members[p.user])
  BY <1>2, CallFields DEF Aggregate
<1>4. p.at = "batch" /\ Busy(c)
  BY <1>2, <1>3 DEF CallFits, Busy
<1>5. PICK h : h = With(p.held, w, figures[w])
  OBVIOUS
<1>6. h \in Rows /\ DOMAIN h = DOMAIN p.held \cup {w}
  <2>1. figures[w] \in 0..MaxChanges
    BY DEF CacheInv, CacheTypeOK
  <2>. QED
    BY <1>3, <1>5, <2>1, RowAdded
<1>7. PICK r : r = [p EXCEPT !.batch = p.batch \ {w}, !.held = h]
  OBVIOUS
<1>8. call' = [call EXCEPT ![c] = r]
  BY <1>2, <1>5, <1>7 DEF Aggregate, Become
<1>9. /\ r \in Call /\ r.user = p.user /\ r.upset = p.upset /\ r.by = p.by
      /\ r.said = p.said /\ r.failed = p.failed /\ r.batch = p.batch \ {w} /\ r.held = h
      /\ r.expected = p.expected /\ r.rows = p.rows /\ r.at = "batch"
      /\ r.ids = p.ids /\ r.todo = p.todo
  BY <1>3, <1>4, <1>6, <1>7 DEF Call
<1>10. CallFits(r, DOMAIN cache[p.user], members[p.user])
  BY <1>3, <1>4, <1>6, <1>9 DEF CallFits
<1>. QED
  BY <1>1, <1>2, <1>4, <1>8, <1>9, <1>10, QuietStep

LEMMA UpsertKeeps ==
    ASSUME CacheInv, NEW c \in Calls, NEW w \in Workspaces, Upsert(c, w)
    PROVE  CacheInv'
<1>1. OthersTyped' /\ FiguresCounted' /\ members' = members
  BY OthersStay DEF Upsert
<1>2. PICK p : p = call[c]
  OBVIOUS
<1>3. /\ p \in Call /\ w \in DOMAIN p.held /\ p.held \in Rows /\ p.user \in Accountants
      /\ CallFits(p, DOMAIN cache[p.user], members[p.user]) /\ cache[p.user] \in Rows
  BY <1>2, CallFields DEF Upsert
<1>4. p.at = "batch" /\ Busy(c)
  BY <1>2, <1>3, NoRowsAreRows DEF CallFits, Busy
<1>5. PICK h : h = Restrict(p.held, DOMAIN p.held \ {w})
  OBVIOUS
<1>6. h \in Rows /\ DOMAIN h = DOMAIN p.held \ {w}
  BY <1>3, <1>5, RowsRestricted
<1>7. PICK r : r = [p EXCEPT !.held = h]
  OBVIOUS
<1>8. PICK x : x = With(cache[p.user], w, p.held[w])
  OBVIOUS
<1>9. x \in Rows /\ DOMAIN x = DOMAIN cache[p.user] \cup {w}
  <2>1. p.held[w] \in 0..MaxChanges
    BY <1>3, RowsAre
  <2>. QED
    BY <1>3, <1>8, <2>1, RowAdded
<1>10. call' = [call EXCEPT ![c] = r] /\ cache' = [cache EXCEPT ![p.user] = x]
  BY <1>2, <1>5, <1>7, <1>8 DEF Upsert, Become
<1>11. /\ r \in Call /\ r.user = p.user /\ r.upset = p.upset /\ r.by = p.by
       /\ r.said = p.said /\ r.failed = p.failed /\ r.batch = p.batch /\ r.held = h
       /\ r.expected = p.expected /\ r.rows = p.rows /\ r.at = "batch"
       /\ r.ids = p.ids /\ r.todo = p.todo
  BY <1>3, <1>4, <1>6, <1>7 DEF Call
<1>12. cache \in [Accountants -> Rows]
  BY DEF CacheInv, CacheTypeOK
<1>13. /\ cache' \in [Accountants -> Rows] /\ cache'[p.user] = x
       /\ \A b \in Accountants : b # p.user => cache'[b] = cache[b]
  BY <1>3, <1>9, <1>10, <1>12
<1>14. p.upset \/ HaveKept(DOMAIN cache[p.user], DOMAIN cache'[p.user], members[p.user])
  BY <1>3, <1>4, <1>9, <1>13 DEF CallFits, HaveKept
<1>15. CallFits(r, DOMAIN cache[p.user] \cup {w}, members[p.user])
  BY <1>3, <1>4, <1>6, <1>11 DEF CallFits
<1>16. CallFits(r, DOMAIN cache'[r.user], members[r.user])
  BY <1>9, <1>11, <1>13, <1>15
<1>. QED
  BY <1>1, <1>2, <1>4, <1>10, <1>11, <1>13, <1>14, <1>16, CallStep

LEMMA WorkspaceFailsKeeps ==
    ASSUME CacheInv, NEW c \in Calls, NEW w \in Workspaces, WorkspaceFails(c, w)
    PROVE  CacheInv'
<1>1. OthersTyped' /\ FiguresCounted' /\ members' = members /\ cache' = cache
  BY OthersStay DEF WorkspaceFails
<1>2. PICK p : p = call[c]
  OBVIOUS
<1>3. /\ p \in Call /\ w \in p.batch \cup DOMAIN p.held /\ p.held \in Rows
      /\ CallFits(p, DOMAIN cache[p.user], members[p.user])
  BY <1>2, CallFields DEF WorkspaceFails
<1>4. p.at = "batch" /\ Busy(c)
  BY <1>2, <1>3, NoRowsAreRows DEF CallFits, Busy
<1>5. PICK h : h = Restrict(p.held, DOMAIN p.held \ {w})
  OBVIOUS
<1>6. h \in Rows /\ DOMAIN h = DOMAIN p.held \ {w}
  BY <1>3, <1>5, RowsRestricted
<1>7. PICK r : r = [p EXCEPT !.batch = p.batch \ {w}, !.held = h, !.failed = TRUE]
  OBVIOUS
<1>8. call' = [call EXCEPT ![c] = r]
  BY <1>2, <1>5, <1>7 DEF WorkspaceFails, Become
<1>9. /\ r \in Call /\ r.user = p.user /\ r.upset = p.upset /\ r.by = p.by
      /\ r.said = p.said /\ r.failed = TRUE /\ r.batch = p.batch \ {w} /\ r.held = h
      /\ r.expected = p.expected /\ r.rows = p.rows /\ r.at = "batch"
      /\ r.ids = p.ids /\ r.todo = p.todo
  BY <1>3, <1>4, <1>6, <1>7 DEF Call
<1>10. CallFits(r, DOMAIN cache[p.user], members[p.user])
  BY <1>3, <1>4, <1>6, <1>9 DEF CallFits
<1>. QED
  BY <1>1, <1>2, <1>4, <1>8, <1>9, <1>10, QuietStep

LEMMA CleanUpKeeps ==
    ASSUME CacheInv, NEW c \in Calls, CleanUp(c)
    PROVE  CacheInv'
<1>1. OthersTyped' /\ FiguresCounted' /\ members' = members
  BY OthersStay DEF CleanUp
<1>2. PICK p : p = call[c]
  OBVIOUS
<1>3. /\ p \in Call /\ p.at = "batch" /\ p.batch = {} /\ p.held = NoRows /\ p.todo = {}
      /\ Busy(c) /\ p.user \in Accountants /\ cache[p.user] \in Rows
      /\ CallFits(p, DOMAIN cache[p.user], members[p.user])
  BY <1>2, CallFields DEF CleanUp, BatchDone, Busy
<1>4. PICK r : r = Refreshed(p)
  OBVIOUS
<1>5. /\ call' = [call EXCEPT ![c] = r]
      /\ cache' = IF p.failed THEN cache ELSE [cache EXCEPT ![p.user] = Kept(p)]
  BY <1>2, <1>4 DEF CleanUp, Become
<1>6. /\ r \in Call /\ r.user = p.user /\ r.upset = p.upset /\ r.by = p.by
      /\ r.said = p.said /\ r.failed = p.failed /\ r.batch = p.batch /\ r.held = p.held
      /\ r.expected = p.expected /\ r.rows = p.rows
      /\ r.at = (IF Answering(p) THEN "reread" ELSE "done")
  BY <1>3, <1>4 DEF Refreshed, Call
<1>7. DOMAIN NoRows = {}
  BY NoRowsAreRows
<1>8. CASE p.failed
  <2>1. CallFits(r, DOMAIN cache[p.user], members[p.user])
    BY <1>3, <1>6, <1>8 DEF CallFits, Answering
  <2>. QED
    BY <1>1, <1>2, <1>3, <1>5, <1>6, <1>8, <2>1, QuietStep
<1>9. CASE ~ p.failed
  <2>1. PICK x : x = Kept(p)
    OBVIOUS
  <2>2. x \in Rows /\ DOMAIN x = p.ids \cap DOMAIN cache[p.user]
    BY <1>3, <2>1, RowsRestricted DEF Kept
  <2>3. cache \in [Accountants -> Rows] /\ cache' = [cache EXCEPT ![p.user] = x]
    BY <1>5, <1>9, <2>1 DEF CacheInv, CacheTypeOK
  <2>4. /\ cache' \in [Accountants -> Rows] /\ cache'[p.user] = x
        /\ \A b \in Accountants : b # p.user => cache'[b] = cache[b]
    BY <1>3, <2>2, <2>3
  <2>5. ~ p.upset => p.ids = members[p.user] /\ DOMAIN x = members[p.user]
    BY <1>3, <1>7, <1>9, <2>2 DEF CallFits
  <2>6. p.upset \/ HaveKept(DOMAIN cache[p.user], DOMAIN cache'[p.user], members[p.user])
    BY <2>4, <2>5 DEF HaveKept
  <2>7. CallFits(r, DOMAIN x, members[p.user])
    BY <1>3, <1>6, <1>9, <2>5 DEF CallFits, Answering
  <2>8. CallFits(r, DOMAIN cache'[r.user], members[r.user])
    BY <1>6, <2>4, <2>7
  <2>. QED
    BY <1>1, <1>2, <1>3, <1>5, <1>6, <2>4, <2>6, <2>8, CallStep
<1>. QED
  BY <1>8, <1>9

-----------------------------------------------------------------------------
(* The steps of who calls it.                                              *)

\* A new call has nothing in hand.
LEMMA NewCallFields ==
    ASSUME NEW a \in Accountants, NEW by \in {"cron", "login", "route"},
           NEW at \in {"peek", "members"}, NEW n, n = NewCall(a, by, at)
    PROVE  /\ n \in Call /\ n.at = at /\ n.by = by /\ n.user = a /\ n.upset = Upset(a)
           /\ n.batch = {} /\ n.held = NoRows /\ n.said = "nothing"
<1>1. PICK z : z = Idle
  OBVIOUS
<1>2. z \in Call /\ z.batch = {} /\ z.held = NoRows /\ z.said = "nothing"
  BY <1>1, IdleFits DEF Idle
<1>3. PICK u \in BOOLEAN : u = Upset(a)
  BY DEF Upset
<1>4. n = [z EXCEPT !.at = at, !.by = by, !.user = a, !.upset = u]
  BY <1>1, <1>3 DEF NewCall
<1>. QED
  BY <1>2, <1>3, <1>4 DEF Call

LEMMA LoadKeeps ==
    ASSUME CacheInv, NEW c \in Calls, NEW a \in Accountants, Load(c, a)
    PROVE  CacheInv'
<1>1. OthersTyped' /\ FiguresCounted' /\ members' = members /\ cache' = cache
  BY BoundsAssumption DEF Load, Asked, CacheInv, CacheTypeOK, OthersTyped, FiguresCounted
<1>2. PICK n : n = NewCall(a, "login", "peek")
  OBVIOUS
<1>3. /\ n \in Call /\ n.at = "peek" /\ n.by = "login" /\ n.user = a /\ n.upset = Upset(a)
      /\ n.batch = {} /\ n.held = NoRows /\ n.said = "nothing"
  BY <1>2, NewCallFields
<1>4. PICK r : r = [n EXCEPT !.expected = members[a]]
  OBVIOUS
<1>5. call' = [call EXCEPT ![c] = r] /\ ~ Busy(c)
  BY <1>2, <1>4 DEF Load, Become
<1>6. members[a] \subseteq Workspaces
  BY DEF CacheInv, CacheTypeOK
<1>7. /\ r \in Call /\ r.user = a /\ r.upset = Upset(a) /\ r.at = "peek" /\ r.by = "login"
      /\ r.batch = {} /\ r.held = NoRows /\ r.said = "nothing" /\ r.expected = members[a]
  BY <1>3, <1>4, <1>6 DEF Call
<1>8. CallFits(r, DOMAIN cache[r.user], members[r.user])
  BY <1>7 DEF CallFits
<1>. QED
  BY <1>1, <1>5, <1>7, <1>8, StartStep

\* A call that starts with the refresh itself.
LEMMA RefreshStarts ==
    ASSUME CacheInv, NEW c \in Calls, NEW a \in Accountants, NEW by \in {"cron", "route"},
           ~ Busy(c), Become(c, NewCall(a, by, "members")), UNCHANGED <<members, cache>>,
           OthersTyped', FiguresCounted'
    PROVE  CacheInv'
<1>1. PICK r : r = NewCall(a, by, "members")
  OBVIOUS
<1>2. /\ r \in Call /\ r.at = "members" /\ r.by = by /\ r.user = a /\ r.upset = Upset(a)
      /\ r.batch = {} /\ r.held = NoRows /\ r.said = "nothing"
  BY <1>1, NewCallFields
<1>3. call' = [call EXCEPT ![c] = r]
  BY <1>1 DEF Become
<1>4. CallFits(r, DOMAIN cache[r.user], members[r.user])
  BY <1>2 DEF CallFits
<1>5. r.upset = Upset(r.user)
  BY <1>2
<1>. QED
  BY <1>2, <1>3, <1>4, <1>5, StartStep

LEMMA RefreshKeeps ==
    ASSUME CacheInv, NEW c \in Calls, NEW a \in Accountants, Refresh(c, a)
    PROVE  CacheInv'
<1>1. OthersTyped' /\ FiguresCounted' /\ members' = members /\ cache' = cache
  BY BoundsAssumption DEF Refresh, Asked, CacheInv, CacheTypeOK, OthersTyped, FiguresCounted
<1>. QED
  BY <1>1, RefreshStarts DEF Refresh

LEMMA StartRefreshKeeps ==
    ASSUME CacheInv, NEW c \in Calls, NEW a \in Accountants, StartRefresh(c, a)
    PROVE  CacheInv'
<1>1. round' \in Round
  <2>1. round \in Round
    BY DEF CacheInv, CacheTypeOK
  <2>. QED
    BY <2>1 DEF StartRefresh, Round
<1>2. OthersTyped' /\ FiguresCounted' /\ members' = members /\ cache' = cache
  BY <1>1 DEF StartRefresh, CacheInv, CacheTypeOK, OthersTyped, FiguresCounted
<1>. QED
  BY <1>2, RefreshStarts DEF StartRefresh

LEMMA PeekKeeps ==
    ASSUME CacheInv, NEW c \in Calls, Peek(c)
    PROVE  CacheInv'
<1>1. OthersTyped' /\ FiguresCounted' /\ members' = members /\ cache' = cache
  BY OthersStay DEF Peek
<1>2. PICK p : p = call[c]
  OBVIOUS
<1>3. /\ p \in Call /\ p.at = "peek" /\ Busy(c)
      /\ CallFits(p, DOMAIN cache[p.user], members[p.user])
  BY <1>2, CallFields DEF Peek, Busy
<1>4. CASE Complete(p)
  <2>1. PICK r : r = [p EXCEPT !.at = "members", !.said = "rows", !.rows = p.expected]
    OBVIOUS
  <2>2. call' = [call EXCEPT ![c] = r]
    BY <1>2, <1>4, <2>1 DEF Peek, Become
  <2>3. /\ r \in Call /\ r.user = p.user /\ r.upset = p.upset /\ r.by = p.by
        /\ r.said = "rows" /\ r.failed = p.failed /\ r.batch = p.batch /\ r.held = p.held
        /\ r.expected = p.expected /\ r.at = "members"
    BY <1>3, <2>1 DEF Call
  <2>4. CallFits(r, DOMAIN cache[p.user], members[p.user])
    BY <1>3, <2>3 DEF CallFits
  <2>. QED
    BY <1>1, <1>2, <1>3, <2>2, <2>3, <2>4, QuietStep
<1>5. CASE ~ Complete(p)
  <2>1. PICK r : r = [p EXCEPT !.at = "members"]
    OBVIOUS
  <2>2. call' = [call EXCEPT ![c] = r]
    BY <1>2, <1>5, <2>1 DEF Peek, Become, Awaited
  <2>3. /\ r \in Call /\ r.user = p.user /\ r.upset = p.upset /\ r.by = p.by
        /\ r.said = p.said /\ r.failed = p.failed /\ r.batch = p.batch /\ r.held = p.held
        /\ r.expected = p.expected /\ r.at = "members"
    BY <1>3, <2>1 DEF Call
  <2>4. CallFits(r, DOMAIN cache[p.user], members[p.user])
    BY <1>3, <2>3 DEF CallFits
  <2>. QED
    BY <1>1, <1>2, <1>3, <2>2, <2>3, <2>4, QuietStep
<1>. QED
  BY <1>4, <1>5

LEMMA RereadKeeps ==
    ASSUME CacheInv, NEW c \in Calls, Reread(c)
    PROVE  CacheInv'
<1>1. OthersTyped' /\ FiguresCounted' /\ members' = members /\ cache' = cache
  BY OthersStay DEF Reread
<1>2. PICK p : p = call[c]
  OBVIOUS
<1>3. /\ p \in Call /\ p.at = "reread" /\ Busy(c) /\ DOMAIN cache[p.user] \subseteq Workspaces
      /\ CallFits(p, DOMAIN cache[p.user], members[p.user])
  BY <1>2, CallFields DEF Reread, Busy
<1>4. p.by \in {"login", "route"}
  BY <1>3 DEF CallFits, Answering, Call
<1>5. PICK r : r = [Answer(p) EXCEPT !.at = "done"]
  OBVIOUS
<1>6. call' = [call EXCEPT ![c] = r]
  BY <1>2, <1>5 DEF Reread, Become
<1>7. CASE p.by = "route"
  <2>1. r = [[p EXCEPT !.said = "rows", !.rows = DOMAIN cache[p.user]] EXCEPT !.at = "done"]
    BY <1>5, <1>7 DEF Answer
  <2>2. /\ r \in Call /\ r.user = p.user /\ r.upset = p.upset /\ r.by = p.by
        /\ r.said = "rows" /\ r.failed = p.failed /\ r.batch = p.batch /\ r.held = p.held
        /\ r.expected = p.expected /\ r.at = "done" /\ r.rows = DOMAIN cache[p.user]
    BY <1>3, <2>1 DEF Call
  <2>3. CallFits(r, DOMAIN cache[p.user], members[p.user])
    BY <1>3, <1>7, <2>2 DEF CallFits
  <2>. QED
    BY <1>1, <1>2, <1>3, <1>6, <2>2, <2>3, QuietStep
<1>8. CASE p.by = "login" /\ Complete(p)
  <2>1. r = [[p EXCEPT !.said = "rows", !.rows = p.expected] EXCEPT !.at = "done"]
    BY <1>5, <1>8 DEF Answer
  <2>2. /\ r \in Call /\ r.user = p.user /\ r.upset = p.upset /\ r.by = p.by
        /\ r.said = "rows" /\ r.failed = p.failed /\ r.batch = p.batch /\ r.held = p.held
        /\ r.expected = p.expected /\ r.at = "done"
    BY <1>3, <2>1 DEF Call
  <2>3. CallFits(r, DOMAIN cache[p.user], members[p.user])
    BY <1>3, <1>8, <2>2 DEF CallFits
  <2>. QED
    BY <1>1, <1>2, <1>3, <1>6, <2>2, <2>3, QuietStep
<1>9. CASE p.by = "login" /\ ~ Complete(p)
  <2>1. r = [[p EXCEPT !.said = "refused"] EXCEPT !.at = "done"]
    BY <1>5, <1>9 DEF Answer
  <2>2. /\ r \in Call /\ r.user = p.user /\ r.upset = p.upset /\ r.by = p.by
        /\ r.said = "refused" /\ r.failed = p.failed /\ r.batch = p.batch /\ r.held = p.held
        /\ r.expected = p.expected /\ r.at = "done"
    BY <1>3, <2>1 DEF Call
  <2>3. p.failed \/ p.upset
    BY <1>3, <1>9 DEF CallFits, Complete
  <2>4. CallFits(r, DOMAIN cache[p.user], members[p.user])
    BY <1>3, <1>9, <2>2, <2>3 DEF CallFits
  <2>. QED
    BY <1>1, <1>2, <1>3, <1>6, <2>2, <2>4, QuietStep
<1>. QED
  BY <1>4, <1>7, <1>8, <1>9

LEMMA ThrowsKeeps ==
    ASSUME CacheInv, NEW c \in Calls, Throws(c)
    PROVE  CacheInv'
<1>1. OthersTyped' /\ FiguresCounted' /\ members' = members /\ cache' = cache
  BY OthersStay DEF Throws
<1>2. PICK p : p = call[c]
  OBVIOUS
<1>3. p \in Call /\ CallFits(p, DOMAIN cache[p.user], members[p.user])
  BY <1>2, CallFields
<1>4. Busy(c) /\ p.batch = {} /\ p.held = NoRows
  BY <1>2, <1>3 DEF Throws, BatchDone, Busy, CallFits
<1>5. PICK r : r = [p EXCEPT !.at = "done", !.failed = TRUE,
                             !.said = IF Answering(p) THEN "refused" ELSE p.said]
  OBVIOUS
<1>6. call' = [call EXCEPT ![c] = r]
  BY <1>2, <1>5 DEF Throws, Become
<1>7. /\ r \in Call /\ r.user = p.user /\ r.upset = p.upset /\ r.by = p.by
      /\ r.failed = TRUE /\ r.batch = p.batch /\ r.held = p.held
      /\ r.expected = p.expected /\ r.at = "done"
  BY <1>3, <1>5 DEF Call
<1>8. CallFits(r, DOMAIN cache[p.user], members[p.user])
  BY <1>3, <1>4, <1>7 DEF CallFits
<1>. QED
  BY <1>1, <1>2, <1>4, <1>6, <1>7, <1>8, QuietStep

\* A call ends.
LEMMA CallEnds ==
    ASSUME CacheInv, OthersTyped', FiguresCounted', UNCHANGED <<members, cache>>,
           NEW c \in Calls, call[c].at = "done", Become(c, Idle)
    PROVE  CacheInv'
<1>1. Busy(c) /\ call' = [call EXCEPT ![c] = Idle]
  BY DEF Busy, Become
<1>. QED
  BY <1>1, IdleFits, QuietStep

LEMMA EndKeeps ==
    ASSUME CacheInv, NEW c \in Calls, End(c)
    PROVE  CacheInv'
<1>1. OthersTyped' /\ FiguresCounted' /\ members' = members
  BY OthersStay DEF End
<1>. QED
  BY <1>1, CallEnds DEF End

-----------------------------------------------------------------------------
(* The cron round, changes and crashes.                                    *)

LEMMA RoundKeeps ==
    ASSUME CacheInv, CronTick \/ List \/ ListFails \/ Timeout \/ EndRound
    PROVE  CacheInv'
<1>1. round \in Round /\ NoRound \in Round
  BY DEF CacheInv, CacheTypeOK, NoRound, Round
<1>2. round' \in Round
  BY <1>1 DEF CronTick, List, ListFails, Timeout, EndRound, CloseRound, NoRound, Round
<1>3. UNCHANGED <<figures, members, cache, call, changes, requests>>
  BY DEF CronTick, List, ListFails, Timeout, EndRound
<1>4. running' \in BOOLEAN
  BY DEF CronTick, List, ListFails, Timeout, EndRound, CloseRound, CacheInv, CacheTypeOK
<1>5. faults' \in 0..MaxFaults
  BY BoundsAssumption
     DEF CronTick, List, ListFails, Timeout, EndRound, Fault, CacheInv, CacheTypeOK
<1>6. OthersTyped' /\ FiguresCounted'
  BY <1>2, <1>3, <1>4, <1>5 DEF CacheInv, CacheTypeOK, OthersTyped, FiguresCounted
<1>. QED
  BY <1>3, <1>6, RoundStep

LEMMA SettledKeeps ==
    ASSUME CacheInv, Settled
    PROVE  CacheInv'
<1>1. round \in Round
  BY DEF CacheInv, CacheTypeOK
<1>2. round' \in Round
  BY <1>1 DEF Settled, Round
<1>3. OthersTyped' /\ FiguresCounted' /\ UNCHANGED <<members, cache>>
  BY <1>2 DEF Settled, CacheInv, CacheTypeOK, OthersTyped, FiguresCounted
<1>4. PICK c \in round.waits : call[c].at = "done" /\ Become(c, Idle)
  BY DEF Settled
<1>5. c \in Calls
  BY <1>1 DEF Round
<1>. QED
  BY <1>3, <1>4, <1>5, CallEnds

LEMMA FiguresChangeKeeps ==
    ASSUME CacheInv, NEW w \in Workspaces, FiguresChange(w)
    PROVE  CacheInv'
<1>1. /\ figures \in [Workspaces -> 0..MaxChanges] /\ changes \in 0..MaxChanges
      /\ changes < MaxChanges /\ changes' = changes + 1 /\ MaxChanges \in Nat
      /\ figures' = [figures EXCEPT ![w] = @ + 1] /\ \A v \in Workspaces : figures[v] <= changes
  BY BoundsAssumption DEF FiguresChange, Change, CacheInv, CacheTypeOK, FiguresCounted
<1>2. figures[w] \in Nat /\ figures[w] <= changes /\ changes \in Nat
  BY <1>1
<1>3. figures[w] + 1 \in 0..MaxChanges /\ figures[w] + 1 <= changes' /\ changes' \in 0..MaxChanges
  BY <1>1, <1>2
<1>4. figures' \in [Workspaces -> 0..MaxChanges]
  BY <1>1, <1>3
<1>5. FiguresCounted'
  <2>. SUFFICES ASSUME NEW v \in Workspaces PROVE figures'[v] <= changes'
    BY DEF FiguresCounted
  <2>1. figures[v] \in Nat /\ figures[v] <= changes
    BY <1>1
  <2>. QED
    BY <1>1, <1>2, <1>3, <2>1
<1>6. OthersTyped' /\ UNCHANGED <<members, cache, call>>
  BY <1>3, <1>4 DEF FiguresChange, CacheInv, CacheTypeOK, OthersTyped
<1>. QED
  BY <1>5, <1>6, RoundStep

\* A membership that changes upsets every call of the accountant, and no other one.
LEMMA MembershipChangesKeeps ==
    ASSUME CacheInv, NEW a \in Accountants, NEW w \in Workspaces, MembershipChanges(a, w)
    PROVE  CacheInv'
<1>1. /\ call \in [Calls -> Call] /\ changes' \in 0..MaxChanges /\ changes' = changes + 1
      /\ members \in [Accountants -> SUBSET Workspaces]
  BY BoundsAssumption DEF MembershipChanges, Change, CacheInv, CacheTypeOK
<1>2. PICK u \in [Calls -> BOOLEAN] :
          \A c \in Calls : u[c] = (call[c].upset \/ (Busy(c) /\ call[c].user = a))
  <2>. DEFINE f == [c \in Calls |-> call[c].upset \/ (Busy(c) /\ call[c].user = a)]
  <2>1. f \in [Calls -> BOOLEAN]
    BY <1>1 DEF Call
  <2>. QED
    BY <2>1
<1>3. \A c \in Calls : call'[c] = [call[c] EXCEPT !.upset = u[c]]
  BY <1>2 DEF MembershipChanges
<1>4. DOMAIN call' = Calls /\ call' = [c \in Calls |-> call'[c]]
  BY DEF MembershipChanges
<1>5. ASSUME NEW c \in Calls
      PROVE  /\ call'[c] \in Call /\ call'[c].upset = u[c] /\ call'[c].user = call[c].user
             /\ call'[c].at = call[c].at /\ call'[c].by = call[c].by
             /\ call'[c].batch = call[c].batch /\ call'[c].held = call[c].held
             /\ call'[c].said = call[c].said /\ call'[c].failed = call[c].failed
             /\ call'[c] = call[c] \/ (Busy(c) /\ call[c].user = a)
  <2>1. PICK p : p = call[c]
    OBVIOUS
  <2>2. PICK r : r = [p EXCEPT !.upset = u[c]]
    OBVIOUS
  <2>3. p \in Call /\ r = call'[c] /\ u[c] \in BOOLEAN
    BY <1>1, <1>2, <1>3, <2>1, <2>2
  <2>4. r \in Call /\ r.upset = u[c] /\ r.user = p.user /\ r.at = p.at /\ r.by = p.by
        /\ r.batch = p.batch /\ r.held = p.held /\ r.said = p.said /\ r.failed = p.failed
    BY <2>2, <2>3 DEF Call
  <2>5. u[c] = p.upset \/ (Busy(c) /\ p.user = a)
    BY <1>1, <1>2, <2>1, <2>3 DEF Call
  <2>6. u[c] = p.upset => r = p
    BY <2>2, <2>3 DEF Call
  <2>. QED
    BY <2>1, <2>3, <2>4, <2>5, <2>6
<1>6. call' \in [Calls -> Call]
  BY <1>4, <1>5
<1>7. CacheTypeOK' /\ FiguresCounted'
  <2>1. members' \in [Accountants -> SUBSET Workspaces]
    BY <1>1 DEF MembershipChanges
  <2>2. FiguresCounted'
    <3>. SUFFICES ASSUME NEW v \in Workspaces PROVE figures'[v] <= changes'
      BY DEF FiguresCounted
    <3>1. figures' = figures /\ figures[v] \in 0..MaxChanges /\ figures[v] <= changes
          /\ changes \in 0..MaxChanges
      BY DEF MembershipChanges, CacheInv, CacheTypeOK, FiguresCounted
    <3>. QED
      BY <1>1, <3>1
  <2>. QED
    BY <1>1, <1>6, <2>1, <2>2 DEF MembershipChanges, CacheInv, CacheTypeOK
<1>8. UpsetTogether'
  <2>. SUFFICES ASSUME NEW c \in Calls, NEW d \in Calls, Busy(c), Busy(d),
                       call[c].user = call[d].user
                PROVE  u[c] = u[d]
    BY <1>5 DEF UpsetTogether, Busy
  <2>1. call[c].upset = call[d].upset
    BY DEF CacheInv, UpsetTogether
  <2>. QED
    BY <1>2, <2>1
<1>9. CallsFit'
  <2>. SUFFICES ASSUME NEW c \in Calls
                PROVE  CallFits(call'[c], DOMAIN cache'[call'[c].user], members'[call'[c].user])
    BY DEF CallsFit
  <2>1. cache' = cache /\ CallFits(call[c], DOMAIN cache[call[c].user], members[call[c].user])
    BY CallFields DEF MembershipChanges
  <2>2. CASE Busy(c) /\ call[c].user = a
    <3>1. u[c] /\ call'[c].at # "idle"
      BY <1>2, <1>5, <2>2 DEF Busy
    <3>. QED
      BY <1>5, <2>1, <3>1 DEF CallFits, Answering
  <2>3. CASE call[c].user # a
    <3>1. call[c].user \in Accountants
      BY CallFields
    <3>2. members'[call[c].user] = members[call[c].user] /\ call'[c] = call[c]
      BY <1>1, <1>5, <2>3, <3>1 DEF MembershipChanges
    <3>. QED
      BY <2>1, <3>2
  <2>4. CASE ~ Busy(c)
    <3>1. call'[c] = call[c] /\ call[c] = Idle
      BY <1>5, <2>1, <2>4 DEF CallFits, Busy
    <3>. QED
      BY <3>1, IdleFits
  <2>. QED
    BY <2>2, <2>3, <2>4
<1>. QED
  BY <1>7, <1>8, <1>9 DEF CacheInv

LEMMA ServerCrashKeeps ==
    ASSUME CacheInv, ServerCrash
    PROVE  CacheInv'
<1>1. NoRound \in Round
  BY DEF NoRound, Round
<1>2. OthersTyped' /\ FiguresCounted' /\ UNCHANGED <<members, cache>>
  <2>1. /\ UNCHANGED <<figures, members, cache, changes, requests>>
        /\ running' = FALSE /\ round' \in Round
    BY <1>1 DEF ServerCrash, CloseRound
  <2>2. faults' \in 0..MaxFaults
    BY BoundsAssumption DEF ServerCrash, Fault, CacheInv, CacheTypeOK
  <2>. QED
    BY <2>1, <2>2 DEF CacheInv, CacheTypeOK, OthersTyped, FiguresCounted
<1>3. call' \in [Calls -> Call] /\ \A c \in Calls : call'[c] = Idle
  BY IdleFits DEF ServerCrash
<1>4. CacheTypeOK'
  BY <1>2, <1>3 DEF CacheInv, CacheTypeOK, OthersTyped
<1>5. UpsetTogether' /\ CallsFit'
  BY <1>3, IdleFits DEF UpsetTogether, CallsFit, Busy
<1>. QED
  BY <1>2, <1>4, <1>5 DEF CacheInv

-----------------------------------------------------------------------------
(* The theorems.                                                           *)

LEMMA CacheStarts == CacheInit => CacheInv
<1>. SUFFICES ASSUME CacheInit PROVE CacheInv
  OBVIOUS
<1>1. CacheTypeOK
  <2>1. 0 \in 0..MaxChanges /\ 0 \in 0..MaxRequests /\ 0 \in 0..MaxFaults
    BY BoundsAssumption
  <2>2. NoRound \in Round
    BY DEF NoRound, Round
  <2>3. /\ figures \in [Workspaces -> 0..MaxChanges]
        /\ members \in [Accountants -> SUBSET Workspaces]
        /\ cache \in [Accountants -> Rows] /\ call \in [Calls -> Call]
    BY <2>1, IdleFits, NoRowsAreRows DEF CacheInit
  <2>. QED
    BY <2>1, <2>2, <2>3 DEF CacheInit, CacheTypeOK
<1>3. FiguresCounted
  BY DEF CacheInit, FiguresCounted
<1>2. UpsetTogether /\ CallsFit
  BY IdleFits DEF CacheInit, UpsetTogether, CallsFit, Busy
<1>. QED
  BY <1>1, <1>2, <1>3 DEF CacheInv

LEMMA CacheSteps == CacheInv /\ [CacheNext]_cacheVars => CacheInv'
<1>. SUFFICES ASSUME CacheInv, [CacheNext]_cacheVars PROVE CacheInv'
  OBVIOUS
<1>1. ASSUME NEW c \in Calls, Proceed(c) PROVE CacheInv'
  BY <1>1, MembersKeeps, NextBatchKeeps, CleanUpKeeps, PeekKeeps, RereadKeeps, EndKeeps,
     AggregateKeeps, UpsertKeeps DEF Proceed
<1>2. ASSUME NEW c \in Calls, NEW w \in Workspaces, Throws(c) \/ WorkspaceFails(c, w)
      PROVE  CacheInv'
  BY <1>2, ThrowsKeeps, WorkspaceFailsKeeps
<1>3. ASSUME NEW c \in Calls, Throws(c) PROVE CacheInv'
  BY <1>3, ThrowsKeeps
<1>4. ASSUME NEW c \in Calls, NEW a \in Accountants,
             Load(c, a) \/ Refresh(c, a) \/ StartRefresh(c, a)
      PROVE  CacheInv'
  BY <1>4, LoadKeeps, RefreshKeeps, StartRefreshKeeps
<1>5. ASSUME CronTick \/ List \/ Settled \/ EndRound \/ ListFails \/ Timeout \/ ServerCrash
      PROVE  CacheInv'
  BY <1>5, RoundKeeps, SettledKeeps, ServerCrashKeeps
<1>6. ASSUME NEW w \in Workspaces, FiguresChange(w) PROVE CacheInv'
  BY <1>6, FiguresChangeKeeps
<1>7. ASSUME NEW a \in Accountants, NEW w \in Workspaces, MembershipChanges(a, w) PROVE CacheInv'
  BY <1>7, MembershipChangesKeeps
<1>8. CASE UNCHANGED cacheVars
  <2>1. OthersTyped' /\ FiguresCounted' /\ UNCHANGED <<members, cache, call>>
    BY <1>8 DEF cacheVars, OthersTyped, CacheInv, CacheTypeOK, FiguresCounted
  <2>. QED
    BY <2>1, RoundStep
<1>. QED
  BY <1>1, <1>2, <1>3, <1>4, <1>5, <1>6, <1>7, <1>8 DEF CacheNext, RoundProceeds

LEMMA CacheIsInvariant == CacheSpec => []CacheInv
<1>. QED
  BY CacheStarts, CacheSteps, PTL DEF CacheSpec

\* The types of the cached rows, of the refreshes and of the cron round hold in every state.
THEOREM CacheTypeIsCorrect == CacheSpec => []CacheTypeOK
<1>1. CacheInv => CacheTypeOK
  BY DEF CacheInv
<1>. QED
  BY <1>1, CacheIsInvariant, PTL

\* However many refreshes of however many accountants overlap, in batches of any size: the
\* login and /auth/me are refused only if a query has failed or the memberships have changed.
THEOREM NobodyIsLockedOut == CacheSpec => []RefusedForCause
<1>1. CacheInv => RefusedForCause
  BY DEF CacheInv, CallsFit, CallFits, RefusedForCause
<1>. QED
  BY <1>1, CacheIsInvariant, PTL

\* The refresh an accountant asks for answers with the rows of exactly the workspaces the
\* accountant is a member of, unless a query has failed or that has changed meanwhile.
THEOREM RefreshShowsMyClients == CacheSpec => []OnlyMyClients
<1>1. CacheInv => OnlyMyClients
  BY DEF CacheInv, CallsFit, CallFits, OnlyMyClients
<1>. QED
  BY <1>1, CacheIsInvariant, PTL
===============================================================================
