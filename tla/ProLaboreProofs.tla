---------------------------- MODULE ProLaboreProofs ---------------------------
(***************************************************************************)
(* Proofs about ProLabore and Bridge, for any number of callers,           *)
(* schedules, transfers and workspaces and any calendar.                   *)
(***************************************************************************)
EXTENDS ProLabore, Sums, TLAPS

Calls == {IdleCall} \cup [at : Stages, id : Ids]

\* A call that has returned its transfer has found or written both legs; whoever confirms
\* a pending runs the transfer the pending names.
Sound(c) ==
    /\ At(c, "done") => Happened(call[c].id)
    /\ task[c].op = "confirm" => ~ At(c, "idle") /\ call[c].id = task[c].pending

ProLaboreInv ==
    /\ TypeOK
    /\ \A c \in Callers : Sound(c)
    /\ CompletedWasTransferred

\* What a step does to the books of workspace w: nothing, or one row with its balance.
Booked(w) ==
    \/ balance'[w] = balance[w] /\ audit'[w] = audit[w]
    \/ \E e \in AuditRow : /\ e.after = balance'[w]
                           /\ e.delta = balance'[w] - balance[w]
                           /\ audit'[w] = Append(audit[w], e)

\* A leg that was written is remembered, also after its deletion.
LegsRemain == \A i \in Ids, s \in Sides : leg[i][s] # "none" => leg'[i][s] # "none"

\* Only the call of c moved, within its transfer, and a result stands for both legs.
Moved(c) ==
    /\ call' \in [Callers -> Calls]
    /\ call'[c].at # "idle" /\ call'[c].id = call[c].id
    /\ call'[c].at = "done" => \A s \in Sides : leg'[call[c].id][s] # "none"
    /\ \A d \in Callers \ {c} : call'[d] = call[d]

-----------------------------------------------------------------------------
(* The data.                                                               *)

LEMMA TermsTyped ==
    ASSUME NEW i \in Ids
    PROVE  /\ Terms[i].from \in Workspaces /\ Terms[i].to \in Workspaces
           /\ Terms[i].amount \in Int /\ -Terms[i].amount \in Int
           /\ Terms[i].from # Terms[i].to
BY TermsAssumption DEF TransferTerms

LEMMA PendingsAreIds == Pendings \subseteq Ids
BY KeyedAssumption DEF Ids

LEMMA CallKinds ==
    ASSUME BridgeTypeOK, NEW c \in Callers
    PROVE  /\ call[c] \in Calls
           /\ ~ At(c, "idle") => call[c] \in [at : Stages, id : Ids]
BY DEF BridgeTypeOK, Calls, IdleCall, At

LEMMA MoveTyped ==
    ASSUME BridgeTypeOK, NEW c \in Callers, ~ At(c, "idle"), NEW s \in Stages, Move(c, s)
    PROVE  /\ call' \in [Callers -> Calls]
           /\ call'[c].at = s /\ call'[c].at # "idle" /\ call'[c].id = call[c].id
           /\ \A d \in Callers \ {c} : call'[d] = call[d]
<1>1. call[c] \in [at : Stages, id : Ids]
  BY CallKinds
<1>2. [call[c] EXCEPT !.at = s] \in [at : Stages, id : Ids]
  BY <1>1
<1>3. call' = [call EXCEPT ![c] = [call[c] EXCEPT !.at = s]]
  BY DEF Move
<1>4. call \in [Callers -> Calls]
  BY DEF BridgeTypeOK, Calls
<1>5. s # "idle"
  BY DEF Stages
<1>6. QED
  BY <1>1, <1>2, <1>3, <1>4, <1>5 DEF Calls

LEMMA MoveMoves ==
    ASSUME BridgeTypeOK, NEW c \in Callers, ~ At(c, "idle"), NEW s \in Stages, Move(c, s),
           s = "done" => \A x \in Sides : leg'[call[c].id][x] # "none"
    PROVE  Moved(c)
BY MoveTyped DEF Moved

-----------------------------------------------------------------------------
(* The steps of executeTransfer.                                           *)

LEMMA LookForMoves ==
    ASSUME BridgeTypeOK, NEW c \in Callers, ~ At(c, "idle"),
           NEW onward \in Stages \ {"done"}, LookFor(c, onward), UNCHANGED leg
    PROVE  Moved(c)
<1> DEFINE i == call[c].id
           s == IF Whole(i) THEN "done" ELSE IF Absent(i) THEN onward ELSE "failed"
<1>1. s \in Stages
  BY DEF Stages
<1>2. s = "done" => \A x \in Sides : leg'[i][x] # "none"
  BY DEF Whole, Live
<1>3. Move(c, s)
  BY DEF LookFor
<1> HIDE DEF s
<1>4. QED
  BY <1>1, <1>2, <1>3, MoveMoves

LEMMA LegsTyped ==
    ASSUME BridgeTypeOK, NEW i \in Ids
    PROVE  /\ DOMAIN leg = Ids
           /\ leg[i] \in [Sides -> LegStates]
BY DEF BridgeTypeOK

LEMMA WritingLegs ==
    ASSUME BridgeTypeOK, NEW i \in Ids, leg' = [leg EXCEPT ![i] = [s \in Sides |-> "live"]]
    PROVE  /\ leg' \in [Ids -> [Sides -> LegStates]]
           /\ LegsRemain
           /\ \A s \in Sides : leg'[i][s] # "none"
<1>1. [s \in Sides |-> "live"] \in [Sides -> LegStates]
  BY DEF LegStates
<1>2. leg \in [Ids -> [Sides -> LegStates]]
  BY DEF BridgeTypeOK
<1>3. /\ leg' \in [Ids -> [Sides -> LegStates]]
      /\ \A k \in Ids : leg'[k] = IF k = i THEN [s \in Sides |-> "live"] ELSE leg[k]
  BY <1>1, <1>2
<1>4. QED
  BY <1>3 DEF LegsRemain

LEMMA RowTyped ==
    ASSUME BridgeTypeOK, NEW i \in Ids, NEW w \in Workspaces, NEW delta \in Int
    PROVE  /\ Entry(i, w, delta) \in AuditRow
           /\ Entry(i, w, delta).delta = delta
           /\ Entry(i, w, delta).after = balance[w] + delta
BY DEF Entry, AuditRow, BridgeTypeOK

LEMMA WriteBooks ==
    ASSUME BridgeTypeOK, NEW i \in Ids, NEW v \in Workspaces, NEW w \in Workspaces, v # w,
           NEW m \in Int, NEW n \in Int,
           balance' = [balance EXCEPT ![v] = @ + m, ![w] = @ + n],
           audit' = [audit EXCEPT ![v] = Append(@, Entry(i, v, m)),
                                  ![w] = Append(@, Entry(i, w, n))]
    PROVE  /\ balance' \in [Workspaces -> Int]
           /\ audit' \in [Workspaces -> Seq(AuditRow)]
           /\ \A x \in Workspaces : Booked(x)
<1>1. balance \in [Workspaces -> Int] /\ audit \in [Workspaces -> Seq(AuditRow)]
  BY DEF BridgeTypeOK
<1>2. Entry(i, v, m) \in AuditRow /\ Entry(i, w, n) \in AuditRow
  BY RowTyped
<1>3. /\ balance' \in [Workspaces -> Int]
      /\ balance'[v] = balance[v] + m /\ balance'[w] = balance[w] + n
      /\ \A x \in Workspaces \ {v, w} : balance'[x] = balance[x]
  BY <1>1
<1>4. /\ audit' \in [Workspaces -> Seq(AuditRow)]
      /\ audit'[v] = Append(audit[v], Entry(i, v, m))
      /\ audit'[w] = Append(audit[w], Entry(i, w, n))
      /\ \A x \in Workspaces \ {v, w} : audit'[x] = audit[x]
  <2>1. Append(audit[v], Entry(i, v, m)) \in Seq(AuditRow)
    BY <1>1, <1>2
  <2>2. Append(audit[w], Entry(i, w, n)) \in Seq(AuditRow)
    BY <1>1, <1>2
  <2>3. QED
    BY <1>1, <2>1, <2>2
<1>5. Booked(v)
  <2>1. /\ Entry(i, v, m).delta = m
        /\ Entry(i, v, m).after = balance[v] + m
    BY RowTyped
  <2>2. /\ Entry(i, v, m).after = balance'[v]
        /\ Entry(i, v, m).delta = balance'[v] - balance[v]
    BY <1>1, <1>3, <2>1
  <2>3. QED
    BY <1>2, <1>4, <2>2 DEF Booked
<1>6. Booked(w)
  <2>1. /\ Entry(i, w, n).delta = n
        /\ Entry(i, w, n).after = balance[w] + n
    BY RowTyped
  <2>2. /\ Entry(i, w, n).after = balance'[w]
        /\ Entry(i, w, n).delta = balance'[w] - balance[w]
    BY <1>1, <1>3, <2>1
  <2>3. QED
    BY <1>2, <1>4, <2>2 DEF Booked
<1>7. QED
  BY <1>3, <1>4, <1>5, <1>6, ZenonT(40) DEF Booked

\* What every step of a transfer, and of the environment, keeps.
Kept == BridgeTypeOK' /\ LegsRemain /\ \A w \in Workspaces : Booked(w)

LEMMA RowsKept ==
    ASSUME BridgeTypeOK, UNCHANGED rows, call' \in [Callers -> Calls],
           closed' \subseteq Workspaces
    PROVE  Kept
BY DEF Kept, BridgeTypeOK, rows, LegsRemain, Booked, Calls

LEMMA TransferMoves ==
    ASSUME BridgeTypeOK, NEW c \in Callers, TransferStep(c)
    PROVE  Kept /\ Moved(c)
<1> DEFINE i == call[c].id
<1>a. ASSUME Moved(c), UNCHANGED <<rows, closed>> PROVE Kept
  BY <1>a, RowsKept DEF BridgeTypeOK, Moved
<1>b. ASSUME NEW s \in Stages \ {"done"}, NEW z \in Stages, Move(c, s), At(c, z) PROVE Moved(c)
  <2>1. ~ At(c, "idle")
    BY <1>b DEF At, Stages
  <2>2. QED
    BY <1>b, <2>1, MoveMoves
<1>c. ASSUME NEW s \in Stages, At(c, s) PROVE ~ At(c, "idle") /\ i \in Ids
  BY <1>c, CallKinds DEF At, Stages
<1>1. CASE CheckAccess(c)
  <2>1. At(c, "access") /\ "access" \in Stages
    BY <1>1 DEF CheckAccess, Stages
  <2>2. \E s \in Stages \ {"done"} : Move(c, s)
    BY <1>1 DEF CheckAccess, Stages
  <2>3. QED
    BY <1>1, <1>a, <1>b, <2>1, <2>2 DEF CheckAccess
<1>2. CASE LookUp(c)
  <2>1. ~ At(c, "idle") /\ "funds" \in Stages \ {"done"} /\ UNCHANGED leg
    BY <1>2 DEF LookUp, At, Stages, rows
  <2>2. QED
    BY <1>2, <1>a, <2>1, LookForMoves DEF LookUp
<1>3. CASE ReadFunds(c)
  <2>1. At(c, "funds") /\ "funds" \in Stages
    BY <1>3 DEF ReadFunds, Stages
  <2>2. \E s \in Stages \ {"done"} : Move(c, s)
    BY <1>3 DEF ReadFunds, Stages
  <2>3. QED
    BY <1>3, <1>a, <1>b, <2>1, <2>2 DEF ReadFunds
<1>4. CASE Recheck(c)
  <2>1. ~ At(c, "idle") /\ "write" \in Stages \ {"done"} /\ UNCHANGED leg
    BY <1>4 DEF Recheck, At, Stages, rows
  <2>2. QED
    BY <1>4, <1>a, <2>1, LookForMoves DEF Recheck
<1>5. CASE WriteLegs(c)
  <2>1. At(c, "write") /\ "write" \in Stages
    BY <1>5 DEF WriteLegs, Stages
  <2>2. ~ At(c, "idle") /\ i \in Ids
    BY <2>1, <1>c
  <2>3. CASE ~ Unique(i)
    <3>1. \E s \in Stages \ {"done"} : Move(c, s)
      BY <1>5, <2>3 DEF WriteLegs, Stages
    <3>2. UNCHANGED <<rows, closed>>
      BY <1>5, <2>3 DEF WriteLegs, rows
    <3>3. QED
      BY <1>a, <1>b, <2>1, <3>1, <3>2
  <2>4. CASE Unique(i)
    <3> DEFINE from == Terms[i].from
               to == Terms[i].to
               amount == Terms[i].amount
    <3>1. /\ leg' = [leg EXCEPT ![i] = [s \in Sides |-> "live"]]
          /\ balance' = [balance EXCEPT ![from] = @ - amount, ![to] = @ + amount]
          /\ audit' = [audit EXCEPT ![from] = Append(@, Entry(i, from, -amount)),
                                    ![to]   = Append(@, Entry(i, to, amount))]
          /\ Move(c, "done")
          /\ UNCHANGED <<closed, deletions>>
      BY <1>5, <2>4 DEF WriteLegs
    <3>2. /\ from \in Workspaces /\ to \in Workspaces /\ from # to
          /\ amount \in Int /\ -amount \in Int
      BY <2>2, TermsTyped
    <3>3. /\ leg' \in [Ids -> [Sides -> LegStates]] /\ LegsRemain
          /\ \A s \in Sides : leg'[i][s] # "none"
      BY <2>2, <3>1, WritingLegs
    <3>4. Moved(c)
      BY <2>2, <3>1, <3>3, MoveMoves DEF Stages
    <3> HIDE DEF i, from, to, amount
    <3>5. balance' = [balance EXCEPT ![from] = @ + (-amount), ![to] = @ + amount]
      <4>1. balance \in [Workspaces -> Int]
        BY DEF BridgeTypeOK
      <4>2. QED
        BY <3>1, <3>2, <4>1
    <3>6. /\ balance' \in [Workspaces -> Int]
          /\ audit' \in [Workspaces -> Seq(AuditRow)]
          /\ \A w \in Workspaces : Booked(w)
      BY <2>2, <3>1, <3>2, <3>5, WriteBooks
    <3>7. QED
      BY <3>1, <3>3, <3>4, <3>6 DEF Kept, BridgeTypeOK, Moved, Calls
  <2>5. QED
    BY <2>3, <2>4
<1>6. CASE LookUpAgain(c)
  <2>1. ~ At(c, "idle") /\ "failed" \in Stages \ {"done"} /\ UNCHANGED leg
    BY <1>6 DEF LookUpAgain, At, Stages, rows
  <2>2. QED
    BY <1>6, <1>a, <2>1, LookForMoves DEF LookUpAgain
<1>7. QED
  BY <1>1, <1>2, <1>3, <1>4, <1>5, <1>6 DEF TransferStep

-----------------------------------------------------------------------------
(* The environment of a transfer.                                          *)

LEMMA DeleteBooks ==
    ASSUME BridgeTypeOK, NEW i \in Ids, NEW s \in Sides, DeleteLeg(i, s)
    PROVE  Kept
<1> DEFINE w == WorkspaceOf(i, s)
           delta == DeltaOf(i, s)
<1>1. w \in Workspaces /\ delta \in Int /\ -delta \in Int
  BY TermsTyped DEF WorkspaceOf, DeltaOf
<1>2. /\ leg' = [leg EXCEPT ![i][s] = "deleted"]
      /\ balance' = [balance EXCEPT ![w] = @ - delta]
      /\ audit' = [audit EXCEPT ![w] = Append(@, Entry(i, w, -delta))]
      /\ deletions' = deletions + 1 /\ deletions < MaxDeletions
      /\ UNCHANGED <<closed, call>>
  BY DEF DeleteLeg
<1> HIDE DEF w, delta
<1>3. /\ balance \in [Workspaces -> Int] /\ audit \in [Workspaces -> Seq(AuditRow)]
      /\ leg \in [Ids -> [Sides -> LegStates]] /\ deletions \in 0..MaxDeletions
  BY DEF BridgeTypeOK
<1>4. leg' \in [Ids -> [Sides -> LegStates]] /\ LegsRemain
  <2>1. "deleted" \in LegStates
    BY DEF LegStates
  <2>2. [leg[i] EXCEPT ![s] = "deleted"] \in [Sides -> LegStates]
    BY <1>3, <2>1
  <2>3. leg' = [leg EXCEPT ![i] = [leg[i] EXCEPT ![s] = "deleted"]]
    BY <1>2
  <2>4. leg' \in [Ids -> [Sides -> LegStates]]
    BY <1>3, <2>2, <2>3
  <2>5. \A k \in Ids, x \in Sides : leg'[k][x] = leg[k][x] \/ leg'[k][x] = "deleted"
    BY <1>3, <2>3
  <2>6. QED
    BY <2>4, <2>5 DEF LegsRemain
<1>5. Entry(i, w, -delta) \in AuditRow
  BY <1>1, RowTyped
<1>6. /\ Entry(i, w, -delta).delta = -delta
      /\ Entry(i, w, -delta).after = balance[w] + (-delta)
  BY <1>1, RowTyped
<1>7. /\ balance' \in [Workspaces -> Int]
      /\ balance'[w] = balance[w] - delta
      /\ \A x \in Workspaces \ {w} : balance'[x] = balance[x]
  BY <1>1, <1>2, <1>3
<1>8. Append(audit[w], Entry(i, w, -delta)) \in Seq(AuditRow)
  BY <1>1, <1>3, <1>5
<1>9. /\ audit' \in [Workspaces -> Seq(AuditRow)]
      /\ audit'[w] = Append(audit[w], Entry(i, w, -delta))
      /\ \A x \in Workspaces \ {w} : audit'[x] = audit[x]
  BY <1>1, <1>2, <1>3, <1>8
<1>10. Booked(w)
  <2>1. /\ Entry(i, w, -delta).after = balance'[w]
        /\ Entry(i, w, -delta).delta = balance'[w] - balance[w]
    BY <1>1, <1>3, <1>6, <1>7
  <2>2. QED
    BY <1>5, <1>9, <2>1 DEF Booked
<1>11. \A x \in Workspaces : Booked(x)
  BY <1>7, <1>9, <1>10 DEF Booked
<1>12. deletions' \in 0..MaxDeletions
  BY <1>2, <1>3, BoundAssumption
<1>13. QED
  BY <1>2, <1>4, <1>7, <1>9, <1>11, <1>12 DEF Kept, BridgeTypeOK

LEMMA EnvironmentKeeps ==
    ASSUME BridgeTypeOK, BridgeEnvironment
    PROVE  Kept /\ UNCHANGED call
<1>1. ASSUME NEW w \in Closable, ToggleClosed(w) PROVE Kept /\ UNCHANGED call
  <2>1. closed' \subseteq Workspaces
    BY <1>1, ClosableAssumption DEF ToggleClosed, BridgeTypeOK
  <2>2. QED
    BY <1>1, <2>1, RowsKept DEF ToggleClosed, BridgeTypeOK, Calls
<1>2. ASSUME NEW i \in Ids, NEW s \in Sides, DeleteLeg(i, s) PROVE Kept /\ UNCHANGED call
  BY <1>2, DeleteBooks DEF DeleteLeg
<1>3. QED
  BY <1>1, <1>2 DEF BridgeEnvironment

-----------------------------------------------------------------------------
(* Requests and the cron job.                                              *)

Rest ==
    /\ schedule \in [Schedules -> ScheduleRow]
    /\ pending \in [Pendings -> PendingRow]
    /\ task \in [Callers -> Tasks]
    /\ today \in Date
    /\ run \in [on : BOOLEAN, todo : SUBSET Pendings]

LEMMA Doing ==
    ASSUME TypeOK, NEW c \in Callers, NEW t \in Tasks, Do(c, t)
    PROVE  /\ task' \in [Callers -> Tasks]
           /\ task'[c] = t
           /\ \A d \in Callers \ {c} : task'[d] = task[d]
BY DEF TypeOK, Do

LEMMA TaskKinds ==
    ASSUME TypeOK, NEW c \in Callers
    PROVE  /\ task[c].op = "claim" => task[c].pending \in Pendings
           /\ task[c].op = "confirm" => task[c].pending \in Pendings
           /\ task[c].op = "cancel" => task[c].pending \in Pendings
BY DEF TypeOK, Tasks, IdleTask

LEMMA RowWritten ==
    ASSUME TypeOK, NEW p \in Pendings, NEW row \in PendingRow,
           pending' = [pending EXCEPT ![p] = row]
    PROVE  /\ pending' \in [Pendings -> PendingRow]
           /\ pending'[p] = row
           /\ \A q \in Pendings \ {p} : pending'[q] = pending[q]
BY DEF TypeOK

LEMMA RowChanges ==
    ASSUME TypeOK, NEW p \in Pendings
    PROVE  /\ pending[p] \in PendingRow
           /\ Upserted(pending[p]) \in PendingRow
           /\ pending[p].status # "ABSENT" => Upserted(pending[p]).status = pending[p].status
           /\ Upserted(pending[p]).status \in {pending[p].status, "PENDING"}
           /\ Claimed(pending[p]) \in PendingRow
           /\ Claimed(pending[p]).status = pending[p].status
           /\ Completed(pending[p]) \in PendingRow
           /\ Completed(pending[p]).status = "COMPLETED"
           /\ [pending[p] EXCEPT !.status = "CANCELLED"] \in PendingRow
           /\ [pending[p] EXCEPT !.status = "CANCELLED"].status = "CANCELLED"
BY DEF TypeOK, PendingRow, Upserted, Claimed, Completed

\* The call of c is another one, or none.
LEMMA CallReplaced ==
    ASSUME BridgeTypeOK, NEW c \in Callers, NEW q \in Calls,
           call' = [call EXCEPT ![c] = q]
    PROVE  /\ call' \in [Callers -> Calls]
           /\ call'[c] = q
           /\ \A d \in Callers \ {c} : call'[d] = call[d]
BY DEF BridgeTypeOK, Calls

LEMMA HappenedStays ==
    ASSUME LegsRemain, NEW i \in Ids, Happened(i)
    PROVE  \A s \in Sides : leg'[i][s] # "none"
BY DEF LegsRemain, Happened

LEMMA SoundStays ==
    ASSUME TypeOK, NEW d \in Callers, Sound(d), LegsRemain,
           call'[d] = call[d], task'[d] = task[d]
    PROVE  Sound(d)'
<1>1. ASSUME At(d, "done") PROVE Happened(call[d].id)'
  <2>1. call[d].id \in Ids
    BY <1>1, CallKinds DEF TypeOK, At
  <2>2. \A s \in Sides : leg'[call[d].id][s] # "none"
    BY <1>1, <2>1 DEF LegsRemain, Happened, Sound
  <2>3. QED
    BY <2>2 DEF Happened
<1>2. QED
  BY <1>1 DEF Sound, At, Happened

\* What a step of caller c has to show.
LEMMA CallerKeeps ==
    ASSUME ProLaboreInv, NEW c \in Callers, Kept, Rest',
           \A d \in Callers \ {c} : call'[d] = call[d] /\ task'[d] = task[d],
           Sound(c)',
           \A p \in Pendings : pending'[p].status = "COMPLETED"
                  => pending[p].status = "COMPLETED" \/ \A s \in Sides : leg'[p][s] # "none"
    PROVE  ProLaboreInv'
<1>1. TypeOK'
  BY DEF Kept, Rest, TypeOK
<1>2. \A d \in Callers : Sound(d)'
  BY SoundStays DEF ProLaboreInv, Kept
<1>3. CompletedWasTransferred'
  <2> SUFFICES ASSUME NEW p \in Pendings, pending'[p].status = "COMPLETED"
               PROVE  \A s \in Sides : leg'[p][s] # "none"
    BY DEF CompletedWasTransferred, Happened
  <2>1. CASE pending[p].status = "COMPLETED"
    <3>1. p \in Ids /\ Happened(p)
      BY <2>1, PendingsAreIds DEF ProLaboreInv, CompletedWasTransferred
    <3>2. QED
      BY <3>1, HappenedStays DEF Kept
  <2>2. QED
    BY <2>1
<1>4. QED
  BY <1>1, <1>2, <1>3 DEF ProLaboreInv

\* A step that leaves the books and calls to the others as they are.
LEMMA TaskKeeps ==
    ASSUME ProLaboreInv, NEW c \in Callers, NEW q \in Tasks, Do(c, q),
           UNCHANGED <<rows, closed, schedule, today, run>>,
           call' \in [Callers -> Calls],
           \A d \in Callers \ {c} : call'[d] = call[d],
           call'[c].at # "done" \/ call' = call,
           q.op = "confirm" => call'[c].at # "idle" /\ call'[c].id = q.pending,
           pending' \in [Pendings -> PendingRow],
           \A p \in Pendings : pending'[p].status = "COMPLETED"
                  => pending[p].status = "COMPLETED" \/ Happened(p)
    PROVE  ProLaboreInv' /\ Kept
<1>1. Kept
  BY RowsKept DEF ProLaboreInv, TypeOK, BridgeTypeOK
<1>2. /\ task' \in [Callers -> Tasks] /\ task'[c] = q
      /\ \A d \in Callers \ {c} : task'[d] = task[d]
  BY Doing DEF ProLaboreInv
<1>3. Rest'
  BY <1>2 DEF Rest, ProLaboreInv, TypeOK
<1>4. leg' = leg
  BY DEF rows
<1>5. Sound(c)'
  <2>1. ASSUME At(c, "done")' PROVE Happened(call[c].id)'
    <3>1. call' = call /\ At(c, "done")
      BY <2>1 DEF At
    <3>2. Happened(call[c].id)
      BY <3>1 DEF ProLaboreInv, Sound
    <3>3. QED
      BY <1>4, <3>1, <3>2 DEF Happened
  <2>2. QED
    BY <1>2, <2>1 DEF Sound, At
<1>6. \A p \in Pendings : pending'[p].status = "COMPLETED"
             => pending[p].status = "COMPLETED" \/ \A s \in Sides : leg'[p][s] # "none"
  BY <1>4 DEF Happened
<1>7. QED
  BY <1>1, <1>2, <1>3, <1>5, <1>6, CallerKeeps

LEMMA ConfirmingKeeps ==
    ASSUME ProLaboreInv, NEW c \in Callers, ConfirmPending(c)
    PROVE  ProLaboreInv' /\ Kept
<1> USE DEF ProLaboreInv
<1>a. call \in [Callers -> Calls] /\ pending \in [Pendings -> PendingRow]
  BY DEF TypeOK, BridgeTypeOK, Calls
<1>1. ASSUME NEW p \in Pendings, ConfirmRead(c, p) PROVE ProLaboreInv' /\ Kept
  <2> DEFINE q == [op |-> "claim", pending |-> p, bridge |-> pending[p].bridge]
  <2>1. q \in Tasks /\ q.op = "claim"
    BY <1>a DEF Tasks, PendingRow
  <2>2. Do(c, q) /\ UNCHANGED <<rows, closed, call, schedule, pending, today, run>>
    BY <1>1 DEF ConfirmRead, bridgeVars, rows
  <2> HIDE DEF q
  <2>3. QED
    BY <1>a, <2>1, <2>2, TaskKeeps
<1>2. CASE ConfirmClaim(c)
  <2> DEFINE p == task[c].pending
  <2>1. p \in Pendings
    BY <1>2, TaskKinds DEF ConfirmClaim
  <2>2. CASE pending[p].status = "PENDING" /\ pending[p].bridge = task[c].bridge
    <3> DEFINE q == [op |-> "confirm", pending |-> p]
               k == [at |-> "access", id |-> p]
    <3>1. /\ pending' = [pending EXCEPT ![p] = Claimed(pending[p])]
          /\ Do(c, q) /\ At(c, "idle") /\ call' = [call EXCEPT ![c] = k]
          /\ UNCHANGED <<rows, closed, schedule, today, run>>
      BY <1>2, <2>2 DEF ConfirmClaim, StartTransfer
    <3>2. q \in Tasks /\ q.op = "confirm" /\ q.pending = p
      BY <2>1 DEF Tasks
    <3>3. k \in Calls /\ k.at = "access" /\ k.id = p
      BY <2>1, PendingsAreIds DEF Calls, Stages
    <3>4. /\ call' \in [Callers -> Calls] /\ call'[c] = k
          /\ \A d \in Callers \ {c} : call'[d] = call[d]
      BY <1>a, <3>1, <3>3
    <3>5. /\ pending' \in [Pendings -> PendingRow]
          /\ \A x \in Pendings : pending'[x].status = pending[x].status
      BY <2>1, <3>1, RowChanges, RowWritten
    <3> HIDE DEF p, q, k
    <3>6. QED
      BY <3>1, <3>2, <3>3, <3>4, <3>5, TaskKeeps
  <2>3. CASE ~ (pending[p].status = "PENDING" /\ pending[p].bridge = task[c].bridge)
    <3>1. Do(c, IdleTask) /\ UNCHANGED <<rows, closed, call, schedule, pending, today, run>>
      BY <1>2, <2>3 DEF ConfirmClaim, Return, bridgeVars, rows
    <3>2. IdleTask \in Tasks /\ IdleTask.op = "none"
      BY DEF Tasks, IdleTask
    <3>3. QED
      BY <1>a, <3>1, <3>2, TaskKeeps
  <2>4. QED
    BY <2>2, <2>3
<1>3. CASE ConfirmComplete(c)
  <2> DEFINE p == task[c].pending
  <2>1. /\ task[c].op = "confirm" /\ At(c, "done")
        /\ pending' = [pending EXCEPT ![p] = Completed(pending[p])]
        /\ Do(c, IdleTask) /\ call' = [call EXCEPT ![c] = IdleCall]
        /\ UNCHANGED <<rows, closed, schedule, today, run>>
    BY <1>3 DEF ConfirmComplete, Transferred, Return
  <2>2. p \in Pendings /\ call[c].id = p
    BY <2>1, TaskKinds DEF Sound
  <2>3. Happened(p)
    BY <2>1, <2>2 DEF Sound
  <2>4. IdleTask \in Tasks /\ IdleTask.op = "none" /\ IdleCall \in Calls /\ IdleCall.at = "idle"
    BY DEF Tasks, IdleTask, IdleCall, Calls
  <2>5. /\ call' \in [Callers -> Calls] /\ call'[c] = IdleCall
        /\ \A d \in Callers \ {c} : call'[d] = call[d]
    BY <1>a, <2>1, <2>4
  <2>6. /\ pending' \in [Pendings -> PendingRow]
        /\ \A x \in Pendings \ {p} : pending'[x] = pending[x]
    BY <2>1, <2>2, RowChanges, RowWritten
  <2> HIDE DEF p
  <2>7. \A x \in Pendings : pending'[x].status = "COMPLETED"
              => pending[x].status = "COMPLETED" \/ Happened(x)
    BY <2>3, <2>6
  <2>8. QED
    BY <2>1, <2>4, <2>5, <2>6, <2>7, TaskKeeps
<1>4. CASE ConfirmFail(c)
  <2>1. /\ Do(c, IdleTask) /\ call' = [call EXCEPT ![c] = IdleCall]
        /\ UNCHANGED <<rows, closed, schedule, pending, today, run>>
    BY <1>4 DEF ConfirmFail, Return
  <2>2. IdleTask \in Tasks /\ IdleTask.op = "none" /\ IdleCall \in Calls /\ IdleCall.at = "idle"
    BY DEF Tasks, IdleTask, IdleCall, Calls
  <2>3. /\ call' \in [Callers -> Calls] /\ call'[c] = IdleCall
        /\ \A d \in Callers \ {c} : call'[d] = call[d]
    BY <1>a, <2>1, <2>2
  <2>4. QED
    BY <1>a, <2>1, <2>2, <2>3, TaskKeeps
<1>5. QED
  BY <1>1, <1>2, <1>3, <1>4 DEF ConfirmPending

LEMMA CancellingKeeps ==
    ASSUME ProLaboreInv, NEW c \in Callers, CancelPending(c)
    PROVE  ProLaboreInv' /\ Kept
<1> USE DEF ProLaboreInv
<1>a. call \in [Callers -> Calls] /\ pending \in [Pendings -> PendingRow]
  BY DEF TypeOK, BridgeTypeOK, Calls
<1>1. ASSUME NEW p \in Pendings, CancelRead(c, p) PROVE ProLaboreInv' /\ Kept
  <2> DEFINE q == [op |-> "cancel", pending |-> p]
  <2>1. q \in Tasks /\ q.op = "cancel"
    BY DEF Tasks
  <2>2. Do(c, q) /\ UNCHANGED <<rows, closed, call, schedule, pending, today, run>>
    BY <1>1 DEF CancelRead, bridgeVars, rows
  <2> HIDE DEF q
  <2>3. QED
    BY <1>a, <2>1, <2>2, TaskKeeps
<1>2. CASE CancelCommit(c)
  <2> DEFINE p == task[c].pending
             row == [pending[p] EXCEPT !.status = "CANCELLED"]
  <2>1. /\ pending' = [pending EXCEPT ![p] = row] /\ task[c].op = "cancel"
        /\ Do(c, IdleTask) /\ UNCHANGED <<rows, closed, call, schedule, today, run>>
    BY <1>2 DEF CancelCommit, Return, bridgeVars, rows
  <2>2. p \in Pendings
    BY <2>1, TaskKinds
  <2>3. row \in PendingRow /\ row.status = "CANCELLED"
    BY <2>2, RowChanges
  <2> HIDE DEF row, p
  <2>4. /\ pending' \in [Pendings -> PendingRow] /\ pending'[p] = row
        /\ \A x \in Pendings \ {p} : pending'[x] = pending[x]
    BY <1>a, <2>1, <2>2, <2>3
  <2>5. IdleTask \in Tasks /\ IdleTask.op = "none"
    BY DEF Tasks, IdleTask
  <2>6. \A x \in Pendings : pending'[x].status = "COMPLETED" => pending[x].status = "COMPLETED"
    BY <2>3, <2>4
  <2>7. QED
    BY <1>a, <2>1, <2>4, <2>5, <2>6, TaskKeeps
<1>3. QED
  BY <1>1, <1>2 DEF CancelPending

\* The request ends: its caller has no task and no call.
LEMMA ReturnKeeps ==
    ASSUME ProLaboreInv, NEW c \in Callers, Return(c), call' = [call EXCEPT ![c] = IdleCall],
           UNCHANGED <<rows, closed, schedule, pending, today, run>>
    PROVE  ProLaboreInv' /\ Kept
<1>1. /\ IdleTask \in Tasks /\ IdleTask.op = "none"
      /\ IdleCall \in Calls /\ IdleCall.at = "idle"
  BY DEF Tasks, IdleTask, IdleCall, Calls
<1>2. call \in [Callers -> Calls] /\ pending \in [Pendings -> PendingRow]
  BY DEF ProLaboreInv, TypeOK, BridgeTypeOK, Calls
<1>3. /\ call' \in [Callers -> Calls] /\ call'[c] = IdleCall
      /\ \A d \in Callers \ {c} : call'[d] = call[d]
  BY <1>1, <1>2
<1>4. QED
  BY <1>1, <1>2, <1>3, TaskKeeps DEF Return

LEMMA CallerStepKeeps ==
    ASSUME ProLaboreInv, NEW c \in Callers, CallerStep(c)
    PROVE  ProLaboreInv' /\ Kept
<1>a. /\ TypeOK /\ call \in [Callers -> Calls] /\ task \in [Callers -> Tasks]
      /\ pending \in [Pendings -> PendingRow]
  BY DEF ProLaboreInv, TypeOK, BridgeTypeOK, Calls
<1>1. ASSUME NEW i \in Fresh, ManualTransfer(c, i) PROVE ProLaboreInv' /\ Kept
  <2> DEFINE q == [op |-> "manual"]
             k == [at |-> "access", id |-> i]
  <2>1. q \in Tasks /\ q.op = "manual" /\ k \in Calls /\ k.at = "access"
    BY DEF Tasks, Calls, Stages, Ids
  <2>2. /\ Do(c, q) /\ call' = [call EXCEPT ![c] = k]
        /\ UNCHANGED <<rows, closed, schedule, pending, today, run>>
    BY <1>1 DEF ManualTransfer, StartTransfer
  <2> HIDE DEF q, k
  <2>3. /\ call' \in [Callers -> Calls] /\ call'[c] = k
        /\ \A d \in Callers \ {c} : call'[d] = call[d]
    BY <1>a, <2>1, <2>2
  <2>4. QED
    BY <1>a, <2>1, <2>2, <2>3, TaskKeeps
<1>2. CASE ManualReturn(c)
  BY <1>2, ReturnKeeps DEF ManualReturn
<1>3. CASE Abort(c)
  BY <1>3, ReturnKeeps DEF Abort
<1>4. CASE TransferStep(c) /\ UNCHANGED <<schedule, pending, task, today, run>>
  <2>1. Kept /\ Moved(c)
    BY <1>4, <1>a, TransferMoves DEF TypeOK
  <2>2. Rest'
    BY <1>4, <1>a DEF Rest, TypeOK
  <2>3. Sound(c)'
    <3>1. call'[c].at # "idle" /\ call'[c].id = call[c].id
      BY <2>1 DEF Moved
    <3>2. ~ At(c, "idle")
      BY <1>4 DEF TransferStep, CheckAccess, LookUp, ReadFunds, Recheck, WriteLegs, LookUpAgain, At
    <3>3. task'[c] = task[c]
      BY <1>4
    <3>4. At(c, "done")' => Happened(call[c].id)'
      BY <2>1, <3>1 DEF At, Moved, Happened
    <3>5. task[c].op = "confirm" => call[c].id = task[c].pending
      BY DEF ProLaboreInv, Sound
    <3>6. QED
      BY <3>1, <3>3, <3>4, <3>5 DEF Sound, At
  <2>4. QED
    BY <1>4, <2>1, <2>2, <2>3, CallerKeeps DEF Moved
<1>5. QED
  BY <1>1, <1>2, <1>3, <1>4, ConfirmingKeeps, CancellingKeeps DEF CallerStep, Transfer

\* A step of the cron job, the calendar or the owner of a schedule, or of the environment.
LEMMA OtherKeeps ==
    ASSUME ProLaboreInv, Kept, UNCHANGED <<call, task>>, Rest',
           \A p \in Pendings : pending'[p].status = "COMPLETED" => pending[p].status = "COMPLETED"
    PROVE  ProLaboreInv'
<1>1. TypeOK'
  BY DEF Kept, Rest, TypeOK
<1>2. \A d \in Callers : Sound(d)'
  BY SoundStays DEF ProLaboreInv, Kept
<1>3. CompletedWasTransferred'
  <2> SUFFICES ASSUME NEW p \in Pendings, pending'[p].status = "COMPLETED"
               PROVE  \A s \in Sides : leg'[p][s] # "none"
    BY DEF CompletedWasTransferred, Happened
  <2>1. p \in Ids /\ Happened(p)
    BY PendingsAreIds DEF ProLaboreInv, CompletedWasTransferred
  <2>2. QED
    BY <2>1, HappenedStays DEF Kept
<1>4. QED
  BY <1>1, <1>2, <1>3 DEF ProLaboreInv

LEMMA BridgeUntouched ==
    ASSUME TypeOK, UNCHANGED bridgeVars
    PROVE  Kept
<1>1. UNCHANGED <<rows, closed, call>>
  BY DEF bridgeVars, rows
<1>2. QED
  BY <1>1, RowsKept DEF TypeOK, BridgeTypeOK, Calls

LEMMA ElementsTyped ==
    ASSUME NEW S, NEW q \in Seq(S), NEW k \in DOMAIN q
    PROVE  q[k] \in S
OBVIOUS

LEMMA CalendarTyped ==
    /\ 1 \in Months /\ Months \subseteq Nat
    /\ \A m \in Months : MonthDays[m] \in 1..31
<1>1. MonthDays \in Seq(1..31) /\ Months # {}
  BY CalendarAssumption
<1> DEFINE n == Len(MonthDays)
<1>2. n \in Nat /\ DOMAIN MonthDays = 1..n /\ Months = 1..n
  BY <1>1 DEF Months
<1>3. \A m \in 1..n : MonthDays[m] \in 1..31
  BY <1>1, <1>2, ElementsTyped
<1> HIDE DEF n
<1>4. n # 0
  BY <1>1, <1>2
<1>5. QED
  BY <1>2, <1>3, <1>4

LEMMA CronKeeps ==
    ASSUME ProLaboreInv, CronStep
    PROVE  ProLaboreInv' /\ Kept
<1>a. TypeOK
  BY DEF ProLaboreInv
<1>1. CASE CronStart
  <2>1. run' \in [on : BOOLEAN, todo : SUBSET Pendings]
    BY <1>1, <1>a DEF CronStart, Pendings, TypeOK, Date
  <2>2. UNCHANGED <<bridgeVars, schedule, pending, task, today>>
    BY <1>1 DEF CronStart
  <2>3. Rest'
    BY <1>a, <2>1, <2>2 DEF Rest, TypeOK
  <2>4. QED
    BY <1>a, <2>2, <2>3, BridgeUntouched, OtherKeeps DEF bridgeVars
<1>2. ASSUME NEW p \in Pendings, CronUpsert(p) PROVE ProLaboreInv' /\ Kept
  <2>1. run' \in [on : BOOLEAN, todo : SUBSET Pendings]
    BY <1>2, <1>a DEF CronUpsert, TypeOK
  <2>2. /\ pending' = [pending EXCEPT ![p] = Upserted(pending[p])]
        /\ UNCHANGED <<bridgeVars, schedule, task, today>>
    BY <1>2 DEF CronUpsert
  <2>3. /\ pending' \in [Pendings -> PendingRow]
        /\ \A x \in Pendings : pending'[x].status = "COMPLETED" => pending[x].status = "COMPLETED"
    BY <1>a, <2>2, RowChanges, RowWritten
  <2>4. Rest'
    BY <1>a, <2>1, <2>2, <2>3 DEF Rest, TypeOK
  <2>5. QED
    BY <1>a, <2>2, <2>3, <2>4, BridgeUntouched, OtherKeeps DEF bridgeVars
<1>3. CASE CronStop
  <2>1. UNCHANGED <<bridgeVars, schedule, pending, task, today>>
    BY <1>3 DEF CronStop
  <2>2. Rest'
    BY <1>3, <1>a, <2>1 DEF CronStop, Rest, TypeOK
  <2>3. QED
    BY <1>a, <2>1, <2>2, BridgeUntouched, OtherKeeps DEF bridgeVars
<1>4. QED
  BY <1>1, <1>2, <1>3 DEF CronStep

LEMMA EveryStepKeeps == ProLaboreInv /\ [Next]_vars => ProLaboreInv' /\ Kept
<1> SUFFICES ASSUME ProLaboreInv, [Next]_vars PROVE ProLaboreInv' /\ Kept
  OBVIOUS
<1>a. TypeOK
  BY DEF ProLaboreInv
<1>1. CASE NextDay
  <2>1. UNCHANGED <<bridgeVars, schedule, pending, task, run>>
    BY <1>1 DEF NextDay
  <2>2. today' \in Date
    <3>1. /\ today \in Date /\ today.month \in Months /\ today.day \in 1..31
          /\ MonthDays[today.month] \in 1..31
      BY <1>a, CalendarTyped DEF TypeOK, Date
    <3>2. CASE today.day < MonthDays[today.month]
      <4>1. today' = [today EXCEPT !.day = today.day + 1] /\ today.day + 1 \in 1..31
        BY <1>1, <3>1, <3>2 DEF NextDay
      <4>2. QED
        BY <3>1, <4>1 DEF Date
    <3>3. CASE ~ (today.day < MonthDays[today.month])
      BY <1>1, <3>3 DEF NextDay, Date
    <3>4. QED
      BY <3>2, <3>3
  <2>3. Rest'
    BY <1>a, <2>1, <2>2 DEF Rest, TypeOK
  <2>4. QED
    BY <1>a, <2>1, <2>3, BridgeUntouched, OtherKeeps DEF bridgeVars
<1>2. ASSUME NEW s \in Schedules, CreateSchedule(s) \/ DeactivateSchedule(s)
      PROVE  ProLaboreInv' /\ Kept
  <2>1. UNCHANGED <<bridgeVars, pending, task, today, run>>
    BY <1>2 DEF CreateSchedule, DeactivateSchedule
  <2>2. schedule' \in [Schedules -> ScheduleRow]
    BY <1>2, <1>a DEF CreateSchedule, DeactivateSchedule, ScheduleRow, TypeOK
  <2>3. Rest'
    BY <1>a, <2>1, <2>2 DEF Rest, TypeOK
  <2>4. QED
    BY <1>a, <2>1, <2>3, BridgeUntouched, OtherKeeps DEF bridgeVars
<1>3. CASE BridgeEnvironment /\ UNCHANGED <<schedule, pending, task, today, run>>
  <2>1. Kept /\ UNCHANGED call
    BY <1>3, <1>a, EnvironmentKeeps DEF TypeOK
  <2>2. Rest'
    BY <1>3, <1>a DEF Rest, TypeOK
  <2>3. QED
    BY <1>3, <2>1, <2>2, OtherKeeps
<1>4. CASE UNCHANGED vars
  <2>1. UNCHANGED <<bridgeVars, schedule, pending, task, today, run>>
    BY <1>4 DEF vars
  <2>2. Rest'
    BY <1>a, <2>1 DEF Rest, TypeOK
  <2>3. QED
    BY <1>a, <2>1, <2>2, BridgeUntouched, OtherKeeps DEF bridgeVars
<1>5. QED
  BY <1>1, <1>2, <1>3, <1>4, CallerStepKeeps, CronKeeps DEF Next

LEMMA InitTyped == Init => ProLaboreInv
<1> SUFFICES ASSUME Init PROVE ProLaboreInv
  OBVIOUS
<1>1. BridgeTypeOK
  <2>1. audit \in [Workspaces -> Seq(AuditRow)]
    BY DEF Init, BridgeInit
  <2>2. leg \in [Ids -> [Sides -> LegStates]]
    BY DEF Init, BridgeInit, LegStates
  <2>3. QED
    BY <2>1, <2>2, BalanceAssumption, BoundAssumption DEF Init, BridgeInit, BridgeTypeOK
<1>2. TypeOK
  BY <1>1, CalendarTyped DEF Init, TypeOK, ScheduleRow, PendingRow, Tasks, Date
<1>3. QED
  BY <1>2 DEF Init, BridgeInit, ProLaboreInv, Sound, At, IdleCall, IdleTask,
              CompletedWasTransferred

\* The rows, calls and requests of transfers and schedules keep their types, and what
\* CompletedWasTransferred needs holds throughout.
THEOREM ProLaboreInvariant == Spec => []ProLaboreInv
BY InitTyped, EveryStepKeeps, PTL DEF Spec

\* Transfers, schedules, pendings and requests keep their types.
THEOREM ProLaboreTypeCorrect == Spec => []TypeOK
BY ProLaboreInvariant, PTL DEF ProLaboreInv

\* However many confirmations, cancellations, retries and crashes meet, a pending is shown
\* as COMPLETED only when both legs of its transfer have been written.
THEOREM CompletedMeansTransferred == Spec => []CompletedWasTransferred
BY ProLaboreInvariant, PTL DEF ProLaboreInv

-----------------------------------------------------------------------------
(* The money on the accounts.                                              *)

\* At any time finitely many legs exist, however many transfers may still come.
FewLegs == \A w \in Workspaces : IsFiniteSet(LegsOf(w))

MoneyInv == FewLegs /\ MoneyMatchesLegs

LEMMA DeltasTyped ==
    ASSUME NEW w \in Workspaces
    PROVE  /\ \A i \in Ids, s \in Sides : Deltas[<<i, s>>] = DeltaOf(i, s) /\ DeltaOf(i, s) \in Int
           /\ \A x \in LegsOf(w) : Deltas[x] \in Int
<1>1. \A i \in Ids, s \in Sides : DeltaOf(i, s) \in Int
  BY TermsTyped DEF DeltaOf
<1>2. \A i \in Ids, s \in Sides : Deltas[<<i, s>>] = DeltaOf(i, s)
  BY DEF Deltas
<1>. QED
  BY <1>1, <1>2 DEF LegsOf

\* One leg comes to be or goes, and the balance of its account moves by it.
LEMMA LegComes ==
    ASSUME MoneyInv, BridgeTypeOK, NEW w \in Workspaces, NEW x \in Ids \X Sides, x \notin LegsOf(w),
           LegsOf(w)' = LegsOf(w) \cup {x}, balance'[w] = balance[w] + Deltas[x]
    PROVE  IsFiniteSet(LegsOf(w)') /\ balance'[w] = InitialBalance[w] + SumFunctionOnSet(Deltas, LegsOf(w)')
<1>1. IsFiniteSet(LegsOf(w)) /\ balance[w] = InitialBalance[w] + SumFunctionOnSet(Deltas, LegsOf(w))
  BY DEF MoneyInv, FewLegs, MoneyMatchesLegs
<1>2. (\A y \in LegsOf(w) : Deltas[y] \in Int) /\ Deltas[x] \in Int /\ InitialBalance[w] \in Int
  BY DeltasTyped, BalanceAssumption
<1>3. SumFunctionOnSet(Deltas, LegsOf(w)) \in Int
  BY <1>1, <1>2, SumType
<1>4. SumFunctionOnSet(Deltas, LegsOf(w) \cup {x}) = Deltas[x] + SumFunctionOnSet(Deltas, LegsOf(w))
  BY <1>1, <1>2, SumWith
<1>5. IsFiniteSet(LegsOf(w) \cup {x})
  BY <1>1, FS_AddElement
<1>. QED
  BY <1>1, <1>2, <1>3, <1>4, <1>5

LEMMA LegGoes ==
    ASSUME MoneyInv, BridgeTypeOK, NEW w \in Workspaces, NEW x \in LegsOf(w),
           LegsOf(w)' = LegsOf(w) \ {x}, balance'[w] = balance[w] - Deltas[x]
    PROVE  IsFiniteSet(LegsOf(w)') /\ balance'[w] = InitialBalance[w] + SumFunctionOnSet(Deltas, LegsOf(w)')
<1>1. IsFiniteSet(LegsOf(w)) /\ balance[w] = InitialBalance[w] + SumFunctionOnSet(Deltas, LegsOf(w))
  BY DEF MoneyInv, FewLegs, MoneyMatchesLegs
<1>2. (\A y \in LegsOf(w) : Deltas[y] \in Int) /\ InitialBalance[w] \in Int
  BY DeltasTyped, BalanceAssumption
<1>3. IsFiniteSet(LegsOf(w) \ {x})
  BY <1>1, FS_Subset
<1>4. SumFunctionOnSet(Deltas, LegsOf(w) \ {x}) \in Int
  BY <1>2, <1>3, SumType
<1>5. SumFunctionOnSet(Deltas, LegsOf(w)) = Deltas[x] + SumFunctionOnSet(Deltas, LegsOf(w) \ {x})
  BY <1>1, <1>2, SumWithout
<1>. QED
  BY <1>1, <1>2, <1>3, <1>4, <1>5

LEMMA LegsWritten ==
    ASSUME MoneyInv, BridgeTypeOK, NEW i \in Ids, Unique(i),
           leg' = [leg EXCEPT ![i] = [s \in Sides |-> "live"]],
           balance' = [balance EXCEPT ![Terms[i].from] = @ - Terms[i].amount,
                                      ![Terms[i].to] = @ + Terms[i].amount]
    PROVE  MoneyInv'
<1>. DEFINE from == Terms[i].from
            to == Terms[i].to
            amount == Terms[i].amount
            out == <<i, "debit">>
            in == <<i, "credit">>
<1>1. from \in Workspaces /\ to \in Workspaces /\ from # to /\ amount \in Int
  BY TermsTyped
<1>2. leg \in [Ids -> [Sides -> LegStates]] /\ balance \in [Workspaces -> Int]
  BY DEF BridgeTypeOK
<1>3. /\ out \in Ids \X Sides /\ Deltas[out] = -amount /\ WorkspaceOf(out[1], out[2]) = from
      /\ in \in Ids \X Sides /\ Deltas[in] = amount /\ WorkspaceOf(in[1], in[2]) = to
      /\ {i} \X Sides = {out, in}
  BY DEF Deltas, DeltaOf, Sides, WorkspaceOf
<1>4. \A k \in Ids, s \in Sides : Live(k, s)' <=> Live(k, s) \/ k = i
  BY <1>2 DEF Live
<1>5. \A s \in Sides : ~ Live(i, s)
  BY DEF Unique, Absent
<1>6. \A w \in Workspaces : LegsOf(w)' = LegsOf(w) \cup {x \in {i} \X Sides : WorkspaceOf(x[1], x[2]) = w}
  BY <1>4 DEF LegsOf
<1>7. \A w \in Workspaces : out \notin LegsOf(w) /\ in \notin LegsOf(w)
  BY <1>5 DEF LegsOf, Sides
<1>8. /\ balance'[from] = balance[from] - amount /\ balance'[to] = balance[to] + amount
      /\ \A w \in Workspaces \ {from, to} : balance'[w] = balance[w]
  BY <1>1, <1>2
<1>. HIDE DEF from, to, amount, out, in
<1>9. ASSUME NEW w \in Workspaces
      PROVE  IsFiniteSet(LegsOf(w)')
             /\ balance'[w] = InitialBalance[w] + SumFunctionOnSet(Deltas, LegsOf(w)')
  <2>1. CASE w = from
    <3>1. LegsOf(w)' = LegsOf(w) \cup {out}
      BY <1>1, <1>3, <1>6, <2>1
    <3>2. balance'[w] = balance[w] + Deltas[out]
      BY <1>1, <1>2, <1>3, <1>8, <2>1
    <3>. QED
      BY <1>3, <1>7, <3>1, <3>2, LegComes
  <2>2. CASE w = to
    <3>1. LegsOf(w)' = LegsOf(w) \cup {in}
      BY <1>1, <1>3, <1>6, <2>2
    <3>2. balance'[w] = balance[w] + Deltas[in]
      BY <1>1, <1>2, <1>3, <1>8, <2>2
    <3>. QED
      BY <1>3, <1>7, <3>1, <3>2, LegComes
  <2>3. CASE w \notin {from, to}
    <3>1. LegsOf(w)' = LegsOf(w)
      BY <1>3, <1>6, <2>3
    <3>. QED
      BY <1>8, <2>3, <3>1 DEF MoneyInv, FewLegs, MoneyMatchesLegs
  <2>. QED
    BY <2>1, <2>2, <2>3
<1>. QED
  BY <1>9 DEF MoneyInv, FewLegs, MoneyMatchesLegs, Deltas, DeltaOf

LEMMA WriteMoney ==
    ASSUME MoneyInv, BridgeTypeOK, NEW c \in Callers, WriteLegs(c)
    PROVE  MoneyInv'
<1>1. CASE ~ Unique(call[c].id)
  BY <1>1 DEF WriteLegs, MoneyInv, FewLegs, MoneyMatchesLegs, LegsOf, Live
<1>2. CASE Unique(call[c].id)
  <2>1. call[c].id \in Ids
    BY SMTT(30) DEF BridgeTypeOK, WriteLegs, At, IdleCall
  <2>. QED
    BY <1>2, <2>1, LegsWritten DEF WriteLegs
<1>. QED
  BY <1>1, <1>2

LEMMA DeleteMoney ==
    ASSUME MoneyInv, BridgeTypeOK, NEW i \in Ids, NEW s \in Sides, DeleteLeg(i, s)
    PROVE  MoneyInv'
<1>. DEFINE v == WorkspaceOf(i, s)
            x == <<i, s>>
<1>1. v \in Workspaces /\ Deltas[x] = DeltaOf(i, s) /\ DeltaOf(i, s) \in Int
  BY TermsTyped, DeltasTyped DEF WorkspaceOf
<1>2. leg \in [Ids -> [Sides -> LegStates]] /\ balance \in [Workspaces -> Int]
  BY DEF BridgeTypeOK
<1>3. /\ leg' = [leg EXCEPT ![i] = [leg[i] EXCEPT ![s] = "deleted"]]
      /\ balance' = [balance EXCEPT ![v] = @ - Deltas[x]] /\ Live(i, s)
  BY <1>1 DEF DeleteLeg
<1>4. \A k \in Ids, d \in Sides : Live(k, d)' <=> Live(k, d) /\ <<k, d>> # x
  BY <1>2, <1>3 DEF Live
<1>5. x \in LegsOf(v) /\ \A w \in Workspaces \ {v} : x \notin LegsOf(w)
  BY <1>3 DEF LegsOf
<1>. HIDE DEF v
<1>6. \A w \in Workspaces : LegsOf(w)' = LegsOf(w) \ {x}
  <2>1. \A y \in Ids \X Sides : y = <<y[1], y[2]>> /\ y[1] \in Ids /\ y[2] \in Sides
    OBVIOUS
  <2>. HIDE DEF x
  <2>. QED
    BY <1>4, <2>1 DEF LegsOf
<1>. HIDE DEF x
<1>7. ASSUME NEW w \in Workspaces
      PROVE  IsFiniteSet(LegsOf(w)')
             /\ balance'[w] = InitialBalance[w] + SumFunctionOnSet(Deltas, LegsOf(w)')
  <2>1. CASE w = v
    <3>1. balance'[w] = balance[w] - Deltas[x]
      BY <1>1, <1>2, <1>3, <2>1
    <3>. QED
      BY <1>5, <1>6, <2>1, <3>1, LegGoes
  <2>2. CASE w # v
    <3>1. LegsOf(w)' = LegsOf(w)
      BY <1>5, <1>6, <2>2
    <3>2. balance'[w] = balance[w]
      BY <1>1, <1>2, <1>3, <2>2
    <3>. QED
      BY <3>1, <3>2 DEF MoneyInv, FewLegs, MoneyMatchesLegs
  <2>. QED
    BY <2>1, <2>2
<1>. QED
  BY <1>7 DEF MoneyInv, FewLegs, MoneyMatchesLegs, Deltas, DeltaOf

\* Only these two touch the legs and the money.
LEMMA MoneyKinds ==
    ASSUME [Next]_vars
    PROVE  \/ UNCHANGED <<leg, balance>>
           \/ \E c \in Callers : WriteLegs(c)
           \/ \E i \in Ids, s \in Sides : DeleteLeg(i, s)
<1>1. ASSUME NEW c \in Callers, CallerStep(c)
      PROVE  UNCHANGED <<leg, balance>> \/ WriteLegs(c)
  <2>1. CASE ConfirmPending(c)
    BY <2>1 DEF ConfirmPending, ConfirmRead, ConfirmClaim, ConfirmComplete, ConfirmFail, StartTransfer,
                bridgeVars, rows
  <2>2. CASE CancelPending(c) \/ Transfer(c) \/ Abort(c)
    BY <2>2 DEF CancelPending, CancelRead, CancelCommit, Transfer, ManualTransfer, ManualReturn, Abort,
                StartTransfer, bridgeVars, rows
  <2>3. CASE TransferStep(c)
    BY <2>3 DEF TransferStep, CheckAccess, LookUp, ReadFunds, Recheck, LookUpAgain, rows
  <2>. QED
    BY <1>1, <2>1, <2>2, <2>3 DEF CallerStep
<1>2. CASE CronStep
  BY <1>2 DEF CronStep, CronStart, CronUpsert, CronStop, bridgeVars
<1>3. CASE NextDay \/ UNCHANGED vars
  BY <1>3 DEF NextDay, bridgeVars, vars
<1>4. CASE \E s \in Schedules : CreateSchedule(s) \/ DeactivateSchedule(s)
  BY <1>4 DEF CreateSchedule, DeactivateSchedule, bridgeVars
<1>5. CASE BridgeEnvironment
  BY <1>5 DEF BridgeEnvironment, ToggleClosed, rows
<1>. QED
  BY <1>1, <1>2, <1>3, <1>4, <1>5 DEF Next

LEMMA MoneyStep == ProLaboreInv /\ MoneyInv /\ [Next]_vars => MoneyInv'
<1>. SUFFICES ASSUME ProLaboreInv, MoneyInv, [Next]_vars PROVE MoneyInv'
  OBVIOUS
<1>1. BridgeTypeOK
  BY DEF ProLaboreInv, TypeOK
<1>2. CASE UNCHANGED <<leg, balance>>
  BY <1>2 DEF MoneyInv, FewLegs, MoneyMatchesLegs, LegsOf, Live, Deltas, DeltaOf, WorkspaceOf
<1>. QED
  BY <1>1, <1>2, MoneyKinds, WriteMoney, DeleteMoney

\* However confirmations and transfers race, retry, crash and are undone by deletions, each
\* account has moved by exactly the legs that exist.
THEOREM TransfersAddUp == Spec => []MoneyMatchesLegs
<1>1. Init => MoneyInv
  <2>. SUFFICES ASSUME Init, NEW w \in Workspaces
                PROVE  IsFiniteSet(LegsOf(w))
                       /\ balance[w] = InitialBalance[w] + SumFunctionOnSet(Deltas, LegsOf(w))
    BY DEF MoneyInv, FewLegs, MoneyMatchesLegs
  <2>1. LegsOf(w) = {}
    BY DEF Init, BridgeInit, LegsOf, Live
  <2>2. balance[w] = InitialBalance[w] /\ InitialBalance[w] \in Int
    BY BalanceAssumption DEF Init, BridgeInit
  <2>. QED
    BY <2>1, <2>2, SumOfNone, FS_EmptySet
<1>2. MoneyInv => MoneyMatchesLegs
  BY DEF MoneyInv
<1>. QED
  BY <1>1, <1>2, MoneyStep, ProLaboreInvariant, PTL DEF Spec

-----------------------------------------------------------------------------
(* What a pending that is settled stays.                                   *)

Settled == {"COMPLETED", "CANCELLED"}

LEMMA SettledStep ==
    TypeOK /\ [Next]_vars =>
        \A p \in Pendings : pending[p].status \in Settled => pending'[p].status \in Settled
<1> SUFFICES ASSUME TypeOK, [Next]_vars, NEW p \in Pendings, pending[p].status \in Settled
             PROVE  pending'[p].status \in Settled
  OBVIOUS
<1>1. CASE UNCHANGED pending
  BY <1>1
<1>2. ASSUME NEW q \in Pendings, NEW row \in PendingRow, pending' = [pending EXCEPT ![q] = row],
             pending[q].status \in Settled => row.status \in Settled
      PROVE  pending'[p].status \in Settled
  BY <1>2, RowWritten
<1>3. ASSUME NEW c \in Callers, ConfirmClaim(c) PROVE pending'[p].status \in Settled
  <2> DEFINE q == task[c].pending
  <2>1. q \in Pendings
    BY <1>3, TaskKinds DEF ConfirmClaim
  <2>2. UNCHANGED pending \/ pending' = [pending EXCEPT ![q] = Claimed(pending[q])]
    BY <1>3 DEF ConfirmClaim
  <2> HIDE DEF q
  <2>3. QED
    BY <1>1, <1>2, <2>1, <2>2, RowChanges
<1>4. ASSUME NEW c \in Callers, ConfirmComplete(c) PROVE pending'[p].status \in Settled
  <2> DEFINE q == task[c].pending
  <2>1. q \in Pendings
    BY <1>4, TaskKinds DEF ConfirmComplete
  <2>2. pending' = [pending EXCEPT ![q] = Completed(pending[q])]
    BY <1>4 DEF ConfirmComplete
  <2> HIDE DEF q
  <2>3. QED
    BY <1>2, <2>1, <2>2, RowChanges DEF Settled
<1>5. ASSUME NEW c \in Callers, CancelCommit(c) PROVE pending'[p].status \in Settled
  <2> DEFINE q == task[c].pending
             row == [pending[q] EXCEPT !.status = "CANCELLED"]
  <2>1. q \in Pendings
    BY <1>5, TaskKinds DEF CancelCommit
  <2>2. pending' = [pending EXCEPT ![q] = row]
    BY <1>5 DEF CancelCommit
  <2>3. row \in PendingRow /\ row.status \in Settled
    BY <2>1, RowChanges DEF Settled
  <2> HIDE DEF q, row
  <2>4. QED
    BY <1>2, <2>1, <2>2, <2>3
<1>6. ASSUME NEW q \in Pendings, CronUpsert(q) PROVE pending'[p].status \in Settled
  <2>1. pending' = [pending EXCEPT ![q] = Upserted(pending[q])]
    BY <1>6 DEF CronUpsert
  <2>2. pending[q].status \in Settled => Upserted(pending[q]).status \in Settled
    BY RowChanges DEF Settled
  <2>3. QED
    BY <1>2, <2>1, <2>2, RowChanges
<1>7. ASSUME NEW c \in Callers, CallerStep(c) PROVE pending'[p].status \in Settled
  <2>1. CASE ConfirmPending(c)
    BY <1>1, <1>3, <1>4, <2>1 DEF ConfirmPending, ConfirmRead, ConfirmFail
  <2>2. CASE CancelPending(c)
    BY <1>1, <1>5, <2>2 DEF CancelPending, CancelRead
  <2>3. CASE Transfer(c) \/ Abort(c)
    BY <1>1, <2>3 DEF Transfer, ManualTransfer, ManualReturn, Abort
  <2>4. CASE TransferStep(c) /\ UNCHANGED <<schedule, pending, task, today, run>>
    BY <1>1, <2>4
  <2>5. QED
    BY <1>7, <2>1, <2>2, <2>3, <2>4 DEF CallerStep
<1>8. CASE CronStep
  BY <1>1, <1>6, <1>8 DEF CronStep, CronStart, CronStop
<1>9. CASE \/ NextDay
           \/ \E s \in Schedules : CreateSchedule(s) \/ DeactivateSchedule(s)
           \/ BridgeEnvironment /\ UNCHANGED <<schedule, pending, task, today, run>>
           \/ UNCHANGED vars
  BY <1>1, <1>9 DEF NextDay, CreateSchedule, DeactivateSchedule, vars
<1>10. QED
  BY <1>7, <1>8, <1>9 DEF Next

\* No run of the cron job and no request, however old what it has read, offers a completed or
\* cancelled pending for confirmation again.
THEOREM SettledIsFinal == Spec => SettledStaysSettled
BY SettledStep, ProLaboreTypeCorrect, PTL DEF Spec, SettledStaysSettled, Settled

-----------------------------------------------------------------------------
(* The books.                                                              *)

\* The rows of a trail add up from the first balance to the last.
Chain(trail, first, last) ==
    /\ \A k \in DOMAIN trail :
          trail[k].after = (IF k = 1 THEN first ELSE trail[k - 1].after) + trail[k].delta
    /\ last = IF Len(trail) + 1 = 1 THEN first ELSE trail[Len(trail) + 1 - 1].after

LEMMA ChainGrows ==
    ASSUME NEW trail \in Seq(AuditRow), NEW first \in Int, NEW last \in Int,
           Chain(trail, first, last), NEW e \in AuditRow, NEW next \in Int,
           e.after = next, e.delta = next - last
    PROVE  Chain(Append(trail, e), first, next)
<1> DEFINE n == Len(trail)
           longer == Append(trail, e)
<1>1. n \in Nat /\ DOMAIN trail = 1..n
  OBVIOUS
<1>2. /\ DOMAIN longer = 1..(n + 1) /\ Len(longer) = n + 1
      /\ \A k \in 1..n : longer[k] = trail[k]
      /\ longer[n + 1] = e
  BY <1>1
<1>3. /\ \A k \in 1..n :
             trail[k].after = (IF k = 1 THEN first ELSE trail[k - 1].after) + trail[k].delta
      /\ last = IF n = 0 THEN first ELSE trail[n].after
  BY <1>1, SMTT(30) DEF Chain
<1> HIDE DEF n, longer
<1>4. ASSUME NEW k \in 1..(n + 1)
      PROVE  longer[k].after = (IF k = 1 THEN first ELSE longer[k - 1].after) + longer[k].delta
  <2>1. CASE k \in 1..n
    BY <1>1, <1>2, <1>3, <2>1
  <2>2. CASE k = n + 1
    <3>1. (IF k = 1 THEN first ELSE longer[k - 1].after) = last
      BY <1>1, <1>2, <1>3, <2>2
    <3>2. longer[k].after = next /\ longer[k].delta = next - last
      BY <1>2, <2>2
    <3>3. QED
      BY <3>1, <3>2
  <2>3. QED
    BY <1>1, <2>1, <2>2
<1>5. next = IF Len(longer) + 1 = 1 THEN first ELSE longer[Len(longer) + 1 - 1].after
  BY <1>1, <1>2
<1>6. QED
  BY <1>2, <1>4, <1>5 DEF Chain, longer

LEMMA AuditChains ==
    BridgeAuditChain <=> \A w \in Workspaces : Chain(audit[w], InitialBalance[w], balance[w])
BY DEF BridgeAuditChain, Chain

LEMMA ChainStep ==
    BridgeTypeOK /\ BridgeAuditChain /\ Kept => BridgeAuditChain'
<1> SUFFICES ASSUME BridgeTypeOK, Kept, NEW w \in Workspaces,
                    Chain(audit[w], InitialBalance[w], balance[w])
             PROVE  Chain(audit'[w], InitialBalance[w], balance'[w])
  BY AuditChains DEF BridgeAuditChain, Chain
<1>1. /\ audit[w] \in Seq(AuditRow) /\ balance[w] \in Int /\ balance'[w] \in Int
      /\ InitialBalance[w] \in Int
  BY BalanceAssumption DEF Kept, BridgeTypeOK
<1>2. Booked(w)
  BY DEF Kept
<1>3. QED
  BY <1>1, <1>2, ChainGrows DEF Booked

\* Transfers of any number of callers and deletions of their legs leave an audit trail whose
\* rows add up to each account's balance.
THEOREM TransferTrailIsAChain == Spec => []BridgeAuditChain
<1>1. Init => BridgeAuditChain
  BY DEF Init, BridgeInit, BridgeAuditChain
<1>2. QED
  BY <1>1, ChainStep, EveryStepKeeps, ProLaboreInvariant, PTL DEF Spec, ProLaboreInv, TypeOK

\* Transfers implement the journal contract.
THEOREM TransfersImplementJournal == Spec => TransfersAreJournaled
<1>1. Init => Books!JInit
  BY DEF Init, BridgeInit, Books!JInit, Journaled
<1>2. ProLaboreInv /\ [Next]_vars => [Books!JNext]_<<balance, Journaled>>
  <2> SUFFICES ASSUME ProLaboreInv, Kept PROVE Books!JNext
    BY EveryStepKeeps
  <2>1. /\ audit \in [Workspaces -> Seq(AuditRow)] /\ audit' \in [Workspaces -> Seq(AuditRow)]
        /\ balance \in [Workspaces -> Int] /\ balance' \in [Workspaces -> Int]
    BY DEF ProLaboreInv, TypeOK, BridgeTypeOK, Kept
  <2>2. ASSUME NEW w \in Workspaces PROVE Books!Posted(w) \/ Books!Kept(w)
    <3>1. CASE balance'[w] = balance[w] /\ audit'[w] = audit[w]
      BY <3>1 DEF Books!Kept, Journaled
    <3>2. ASSUME NEW e \in AuditRow, e.delta = balance'[w] - balance[w],
                 audit'[w] = Append(audit[w], e)
          PROVE  Books!Posted(w)
      <4>1. /\ Journaled[w] = [k \in DOMAIN audit[w] |-> audit[w][k].delta]
            /\ Journaled'[w] = [k \in DOMAIN audit'[w] |-> audit'[w][k].delta]
        BY DEF Journaled
      <4>2. Journaled'[w] = Append(Journaled[w], e.delta)
        BY <2>1, <3>2, <4>1
      <4>3. QED
        BY <3>2, <4>2 DEF Books!Posted
    <3>3. QED
      BY <3>1, <3>2 DEF Kept, Booked
  <2>3. Journaled' \in [Workspaces -> Seq(Int)]
    <3>1. ASSUME NEW w \in Workspaces
          PROVE  [k \in DOMAIN audit'[w] |-> audit'[w][k].delta] \in Seq(Int)
      <4> DEFINE trail  == audit'[w]
                 deltas == [k \in DOMAIN trail |-> trail[k].delta]
      <4>1. trail \in Seq(AuditRow)
        BY <2>1
      <4> HIDE DEF trail
      <4>2. Len(trail) \in Nat /\ DOMAIN trail = 1..Len(trail)
        BY <4>1
      <4>3. \A k \in DOMAIN trail : trail[k].delta \in Int
        <5> SUFFICES ASSUME NEW k \in DOMAIN trail PROVE trail[k].delta \in Int
          OBVIOUS
        <5>1. trail[k] \in AuditRow
          BY <4>1
        <5>2. QED
          BY <5>1 DEF AuditRow
      <4>4. deltas \in [1..Len(trail) -> Int]
        BY <4>2, <4>3
      <4> HIDE DEF deltas
      <4>5. deltas \in Seq(Int)
        BY <4>2, <4>4
      <4>6. QED
        BY <4>5 DEF deltas, trail
    <3>2. QED
      BY <3>1 DEF Journaled
  <2>4. QED
    BY <2>1, <2>2, <2>3 DEF Books!JNext
<1>3. QED
  BY <1>1, <1>2, ProLaboreInvariant, PTL DEF Spec, TransfersAreJournaled, Books!JSpec

===============================================================================
