------------------------------- MODULE ProLabore ------------------------------
(***************************************************************************)
(* Recurring pro-labore on top of the bridge: schedules, the daily cron    *)
(* that turns a due schedule into a pending confirmation, and the requests *)
(* that confirm or cancel pendings.  A pending is identified by schedule   *)
(* and competence (month); confirming it runs BridgeService.executeTransfer*)
(* under an id stored on the pending before the money moves.  Manual       *)
(* transfers run beside them.                                              *)
(***************************************************************************)
EXTENDS Bridge, Functions

CONSTANTS
    Schedules,     \* the schedules that may be created
    DayOfMonth,    \* the day each is due, 1..31
    MonthDays      \* the calendar: the number of days of each month, in order

Months   == DOMAIN MonthDays
Pendings == Schedules \X Months

ASSUME KeyedAssumption    == Keyed = Pendings
ASSUME DayAssumption      == DayOfMonth \in [Schedules -> 1..31]
ASSUME CalendarAssumption == MonthDays \in Seq(1..31) /\ Months # {}

VARIABLES
    schedule,   \* RecurringProLaboreSchedule rows
    pending,    \* RecurringProLaborePending rows
    task,       \* what each caller of executeTransfer is doing
    today,      \* the calendar day
    run         \* the cron job: running or not, and the upserts left to do

vars == <<bridgeVars, schedule, pending, task, today, run>>

Date == [month : Months, day : 1..31]

\* bridge: the durable bridgeId is set (it is a function of the pending's id).
PendingRow  == [status : {"ABSENT", "PENDING", "COMPLETED", "CANCELLED"}, bridge : BOOLEAN]
ScheduleRow == {"absent", "active", "inactive"}

IdleTask == [op |-> "none"]
Tasks == {IdleTask}
         \cup [op : {"claim"}, pending : Pendings, bridge : BOOLEAN]
         \cup [op : {"confirm", "cancel"}, pending : Pendings]
         \cup [op : {"manual"}]

TypeOK ==
    /\ BridgeTypeOK
    /\ schedule \in [Schedules -> ScheduleRow]
    /\ pending \in [Pendings -> PendingRow]
    /\ task \in [Callers -> Tasks]
    /\ today \in Date
    /\ run \in [on : BOOLEAN, todo : SUBSET Pendings]

Init ==
    /\ BridgeInit
    /\ today = [month |-> 1, day |-> 1]
    /\ schedule = [s \in Schedules |-> "absent"]
    /\ pending = [p \in Pendings |-> [status |-> "ABSENT", bridge |-> FALSE]]
    /\ task = [c \in Callers |-> IdleTask]
    /\ run = [on |-> FALSE, todo |-> {}]

-----------------------------------------------------------------------------
(* Schedules and the calendar.                                             *)

\* The 31st falls on the last day of a shorter month.
DueDay(s, m) == IF DayOfMonth[s] < MonthDays[m] THEN DayOfMonth[s] ELSE MonthDays[m]

CreateSchedule(s) ==
    /\ schedule[s] = "absent"
    /\ schedule' = [schedule EXCEPT ![s] = "active"]
    /\ UNCHANGED <<bridgeVars, pending, task, today, run>>

\* The schedules and pendings an owner of both workspaces is shown and may act on.
ListedSchedules == {s \in Schedules : schedule[s] # "absent"}
ListedPendings  == {p \in Pendings : p[1] \in ListedSchedules /\ pending[p].status # "ABSENT"}

\* assertScheduleAccess: only the owner of both workspaces goes on, and owners do not change.
ReadSchedule(s) == s \in ListedSchedules

DeactivateSchedule(s) ==
    /\ ReadSchedule(s)
    /\ schedule' = [schedule EXCEPT ![s] = "inactive"]
    /\ UNCHANGED <<bridgeVars, pending, task, today, run>>

NextDay ==
    /\ IF today.day < MonthDays[today.month]
       THEN today' = [today EXCEPT !.day = @ + 1]
       ELSE /\ today.month + 1 \in Months
            /\ today' = [month |-> today.month + 1, day |-> 1]
    /\ UNCHANGED <<bridgeVars, schedule, pending, task, run>>

-----------------------------------------------------------------------------
(* The cron job: one read of the active schedules, then one upsert each.   *)

CronStart ==
    /\ ~run.on
    /\ run' = [on |-> TRUE,
               todo |-> {<<s, today.month>> :
                           s \in {x \in Schedules : /\ schedule[x] = "active"
                                                    /\ DueDay(x, today.month) = today.day}}]
    /\ UNCHANGED <<bridgeVars, schedule, pending, task, today>>

\* upsert with an empty update: a row that exists is left as it is.
Reset(row) == [row EXCEPT !.status = "PENDING"]                   \* mutant
Upserted(row) == IF row.status = "ABSENT" THEN [row EXCEPT !.status = "PENDING"] ELSE row

CronUpsert(p) ==
    /\ run.on /\ p \in run.todo
    /\ run' = [run EXCEPT !.todo = @ \ {p}]
    /\ pending' = [pending EXCEPT ![p] = Upserted(@)]
    /\ UNCHANGED <<bridgeVars, schedule, task, today>>

\* The loop ends, or an upsert throws or the process dies: finally clears the flag.
CronStop ==
    /\ run.on
    /\ run' = [on |-> FALSE, todo |-> {}]
    /\ UNCHANGED <<bridgeVars, schedule, pending, task, today>>

-----------------------------------------------------------------------------
(* confirmPending                                                          *)

Do(c, t) == task' = [task EXCEPT ![c] = t]
Return(c) == Do(c, IdleTask)

\* assertPendingAccess: the row as it is now.
ReadPending(c, p) == task[c].op = "none" /\ p \in ListedPendings

\* COMPLETED is returned as it is, CANCELLED is refused (409).
ConfirmRead(c, p) ==
    /\ ReadPending(c, p)
    /\ pending[p].status = "PENDING"
    /\ Do(c, [op |-> "claim", pending |-> p, bridge |-> pending[p].bridge])
    /\ UNCHANGED <<bridgeVars, schedule, pending, today, run>>

\* The claim stores the id of the transfer to come.
Claimed(row) == [row EXCEPT !.bridge = TRUE]

\* updateMany compares status and the bridgeId that was read; a count of 0 only
\* re-reads and returns.
ConfirmClaim(c) ==
    /\ task[c].op = "claim"
    /\ LET p == task[c].pending
       IN  IF pending[p].status = "PENDING" /\ pending[p].bridge = task[c].bridge
           THEN /\ pending' = [pending EXCEPT ![p] = Claimed(@)]
                /\ Do(c, [op |-> "confirm", pending |-> p])
                /\ StartTransfer(c, p)
           ELSE /\ Return(c)
                /\ UNCHANGED <<bridgeVars, pending>>
    /\ UNCHANGED <<schedule, today, run>>

\* Only a transfer that returned a result completes the pending.
AnyReturn(c) == call[c].at \in {"done", "failed"}                 \* mutant
Transferred(c) == At(c, "done")

\* The final update names the row by id alone.
Completed(row) == [row EXCEPT !.status = "COMPLETED"]

ConfirmComplete(c) ==
    /\ task[c].op = "confirm" /\ Transferred(c)
    /\ pending' = [pending EXCEPT ![task[c].pending] = Completed(@)]
    /\ Return(c)
    /\ call' = [call EXCEPT ![c] = IdleCall]
    /\ UNCHANGED <<rows, closed, schedule, today, run>>

\* lastError and the processing fields are written; nothing reads them back.
ConfirmFail(c) ==
    /\ task[c].op = "confirm" /\ At(c, "failed")
    /\ Return(c)
    /\ call' = [call EXCEPT ![c] = IdleCall]
    /\ UNCHANGED <<rows, closed, schedule, pending, today, run>>

-----------------------------------------------------------------------------
(* cancelPending, manual transfers, crashes.                               *)

CancelRead(c, p) ==
    /\ ReadPending(c, p)
    /\ pending[p].status \in {"PENDING", "CANCELLED"}
    /\ Do(c, [op |-> "cancel", pending |-> p])
    /\ UNCHANGED <<bridgeVars, schedule, pending, today, run>>

CancelCommit(c) ==
    /\ task[c].op = "cancel"
    /\ pending' = [pending EXCEPT ![task[c].pending].status = "CANCELLED"]
    /\ Return(c)
    /\ UNCHANGED <<bridgeVars, schedule, today, run>>

\* randomUUID() gives an id nobody else has used or is using.
ManualTransfer(c, i) ==
    /\ task[c].op = "none"
    /\ i \in Fresh
    /\ \A s \in Sides : leg[i][s] = "none"
    /\ i \notin {call[d].id : d \in {d \in Callers : ~At(d, "idle")}}
    /\ Do(c, [op |-> "manual"])
    /\ StartTransfer(c, i)
    /\ UNCHANGED <<schedule, pending, today, run>>

ManualReturn(c) ==
    /\ task[c].op = "manual" /\ call[c].at \in {"done", "failed"}
    /\ Return(c)
    /\ call' = [call EXCEPT ![c] = IdleCall]
    /\ UNCHANGED <<rows, closed, schedule, pending, today, run>>

\* The process restarts, or a query of the request fails, between two awaits.
Abort(c) ==
    /\ task[c].op # "none"
    /\ Return(c)
    /\ call' = [call EXCEPT ![c] = IdleCall]
    /\ UNCHANGED <<rows, closed, schedule, pending, today, run>>

ConfirmPending(c) ==
    \/ \E p \in Pendings : ConfirmRead(c, p)
    \/ ConfirmClaim(c)
    \/ ConfirmComplete(c)
    \/ ConfirmFail(c)

CancelPending(c) == (\E p \in Pendings : CancelRead(c, p)) \/ CancelCommit(c)

Transfer(c) == (\E i \in Fresh : ManualTransfer(c, i)) \/ ManualReturn(c)

CallerStep(c) ==
    \/ ConfirmPending(c)
    \/ CancelPending(c)
    \/ Transfer(c)
    \/ TransferStep(c) /\ UNCHANGED <<schedule, pending, task, today, run>>
    \/ Abort(c)

CronStep ==
    \/ CronStart
    \/ \E p \in Pendings : CronUpsert(p)
    \/ CronStop

Next ==
    \/ \E c \in Callers : CallerStep(c)
    \/ CronStep
    \/ NextDay
    \/ \E s \in Schedules : CreateSchedule(s) \/ DeactivateSchedule(s)
    \/ BridgeEnvironment /\ UNCHANGED <<schedule, pending, task, today, run>>

Spec == Init /\ [][Next]_vars

-----------------------------------------------------------------------------
(* Properties.                                                             *)

\* Transfers and deletions of their legs keep the journal contract: no balance moves
\* without its audit row, and no audit row without its balance.
TransfersAreJournaled == Books!JSpec

Happened(i) == \A s \in Sides : leg[i][s] # "none"

\* A pending shown as COMPLETED has moved its money, on both sides.
CompletedWasTransferred ==
    \A p \in Pendings : pending[p].status = "COMPLETED" => Happened(p)

Deltas == [x \in Ids \X Sides |-> DeltaOf(x[1], x[2])]

\* However many confirmations of one pending race, retry or crash, each account has
\* moved by exactly the legs that exist: no leg is paid twice and none is free.
MoneyMatchesLegs ==
    \A w \in Workspaces : balance[w] = InitialBalance[w] + SumFunctionOnSet(Deltas, LegsOf(w))

\* A pending that was completed or cancelled is never offered for confirmation again,
\* whatever the cron and the requests in flight had read before.
SettledStaysSettled ==
    [][\A p \in Pendings : pending[p].status \in {"COMPLETED", "CANCELLED"}
                           => pending'[p].status \in {"COMPLETED", "CANCELLED"}]_vars
===============================================================================
