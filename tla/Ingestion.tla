------------------------------- MODULE Ingestion ------------------------------
(***************************************************************************)
(* How bank lines become BankMovement rows of one workspace:               *)
(* FinancialIngestionEngine.ingest for OFX files and the open-finance      *)
(* webhook, with the fuzzy check of FuzzyDeduplicationService, and the     *)
(* documents of TelegramOcrIngestionService, which skip both.              *)
(*                                                                         *)
(* An import examines its lines one by one against the rows that are there *)
(* (not against the rest of its own statement), then inserts what is left  *)
(* in chunks; only the two unique indexes stop copies at that point.       *)
(*                                                                         *)
(* parseDateToUTC takes a readable date down to its midnight.  A line      *)
(* whose date is missing or unreadable gets the instant of its import, and *)
(* so does a document the instant of its filing: hash and window then      *)
(* depend on when a line comes.  The clock jumps, where it is read.  What  *)
(* two descriptions have in common is given by the relations Alike         *)
(* (trigrams) and WordsIn (the first words of the one occur in the other). *)
(*                                                                         *)
(* A role that the row-level policies bind sees and writes rows only as    *)
(* the tenant that lib/prisma.ts sets, for the models' operations and the  *)
(* transactions of a request that came through WorkspaceMiddleware: not    *)
(* for raw queries, the webhook or the bot.                                *)
(***************************************************************************)
EXTENDS Integers, FiniteSets, SequencesExt

CONSTANTS
    Imports,      \* imports, each a call of ingest
    Files,        \* what an OFX file may hold: sequences of lines
    Deliveries,   \* what the webhook may be sent: sequences of lines
    Documents,    \* lines read from documents
    Alike,        \* pairs of descriptions with a similarity above the threshold
    WordsIn,      \* pairs of descriptions that the LIKE conditions match
    Unreadable,   \* dates no format of parseDateToUTC reads, a missing one among them
    Day,          \* a day, in ticks of the clock
    Window,       \* TIME_WINDOW_MS, in ticks of the clock
    MinAmount,    \* MIN_AMOUNT
    ChunkSize,    \* CHUNK_SIZE
    MaxTime,      \* bound: the clock
    MaxDocuments, \* bound: documents filed
    MaxFaults,    \* bound: queries that fail or time out
    MaxReviews    \* bound: movements reviewed

ASSUME ChunkAssumption == ChunkSize \in Nat \ {0}
Statements == Files \cup Deliveries

ASSUME StatementsAssumption == \A s \in Statements : s \in Seq(ToSet(s))
ASSUME ImportsAssumption == "document" \notin Imports
ASSUME BoundsAssumption == {MaxTime, MaxDocuments, MaxFaults, MaxReviews} \subseteq Nat

VARIABLES
    rows,       \* BankMovement rows in the order of their creation
    job,        \* the imports
    mode,       \* runtimeModeOverride of each source's FuzzyDeduplicationService
    bound,      \* whether the policies bind the database role of the server
    now,        \* the clock of the server
    faults, reviews, filed     \* bound counters

ingestionVars == <<rows, job, mode, bound, now, faults, reviews, filed>>

-----------------------------------------------------------------------------
(* The data.  A line is [account, amount, date, text, fitid] as it is sent *)
(* (rawPayload): its date is the instant it writes or an unreadable one,   *)
(* and fitid may be "none".                                                *)

Sources == {"OFX", "OPEN_FINANCE"}
Lines == UNION {ToSet(s) : s \in Statements}

ASSUME DatesAssumption ==
    /\ Day \in Nat \ {0}
    /\ \A l \in Lines : l.date \in Unreadable \/ l.date \in Nat

\* A plausible mistake: the time of day stays in the date.
AsWritten(date, t) == IF date \in Unreadable THEN t ELSE date     \* mutant

\* The date of a movement taken at t.
Midnight(date) == date - (date % Day)
ParseDate(date, t) == IF date \in Unreadable THEN t ELSE Midnight(date)

\* What ingest makes of a line, and what a row keeps of it.
Movement(l, t) == [line |-> l, date |-> ParseDate(l.date, t)]
Movements == {Movement(l, t) : l \in Lines, t \in 0..MaxTime}
MovementOf(row) == [line |-> row.line, date |-> row.date]

\* by: the import that made the row, or "document".  hashed: whether the row has a hash.
\* REVIEWED: approved or rejected; GONE: deleted by a merge.
RowOf(m, by, hashed) ==
    [line |-> m.line, date |-> m.date, by |-> by, status |-> "PENDING", hashed |-> hashed]

Row == [line : Lines \cup Documents, date : Int, by : Imports \cup {"document"},
        status : {"PENDING", "REVIEWED", "GONE"}, hashed : BOOLEAN]

\* todo: movements to examine; kept: movements to insert; the three counters of ingest, of
\* which failed is the movements it counts.
Job == [at : {"new", "examine", "insert", "done"}, source : Sources, sent : Seq(Movements),
        todo : Seq(Movements), kept : Seq(Movements), imported : Nat, fuzzy : Nat,
        failed : Seq(Movements)]
NewJob == [at |-> "new", source |-> "OFX", sent |-> <<>>, todo |-> <<>>, kept |-> <<>>,
           imported |-> 0, fuzzy |-> 0, failed |-> <<>>]

IngestionTypeOK ==
    /\ rows \in Seq(Row)
    /\ job \in [Imports -> Job]
    /\ mode \in [Sources -> {"auto", "fallback"}]
    /\ bound \in BOOLEAN
    /\ now \in 0..MaxTime
    /\ faults \in 0..MaxFaults /\ reviews \in 0..MaxReviews /\ filed \in 0..MaxDocuments

IngestionInit ==
    /\ rows = <<>>
    /\ job = [i \in Imports |-> NewJob]
    /\ mode = [s \in Sources |-> "auto"]
    /\ bound \in BOOLEAN
    /\ now = 0 /\ faults = 0 /\ reviews = 0 /\ filed = 0

-----------------------------------------------------------------------------
(* FuzzyDeduplicationService                                               *)

Abs(n) == IF n < 0 THEN -n ELSE n

Near(d, e) == Abs(d - e) <= Window

\* The account is not compared.
SameMoney(m, row) ==
    /\ row.status = "PENDING"
    /\ row.line.amount = m.line.amount
    /\ Near(row.date, m.date)

Matches(m, row, how) ==
    /\ SameMoney(m, row)
    /\ <<m.line.text, row.line.text>> \in (IF how = "fallback" THEN WordsIn ELSE Alike)

\* The queries are raw ones: they see no row as a role that is bound, or fail on a connection
\* that has served a tenant before, which keeps the line as well.
SeenRaw == IF bound THEN {} ELSE DOMAIN rows

Small(m) == Abs(m.line.amount) < MinAmount
FindCandidates(m, how) == IF Small(m) THEN {} ELSE {n \in SeenRaw : Matches(m, rows[n], how)}

-----------------------------------------------------------------------------
(* FinancialIngestionEngine.ingest                                         *)

\* Every line without a readable date reads the clock, one after the other.
Readings(n) == {read \in [1..n -> now..MaxTime] : \A k \in 2..n : read[k - 1] <= read[k]}

Ingest(i, source, statement) ==
    /\ job[i].at = "new"
    /\ \E read \in Readings(Len(statement)) :
          LET sent == [k \in DOMAIN statement |-> Movement(statement[k], read[k])]
          IN  /\ now' = read[Len(statement)]
              /\ job' = [job EXCEPT ![i] = [NewJob EXCEPT !.at = "examine", !.source = source,
                                                          !.sent = sent, !.todo = sent]]
    /\ UNCHANGED <<rows, mode, faults, reviews, filed>>

\* A file with one transaction is a statement of one line, one without any is refused.
ImportOFX(i, statement) == statement # <<>> /\ Ingest(i, "OFX", statement)

\* The open-finance webhook: at least one movement.
ReceiveMovements(i, statement) == statement # <<>> /\ Ingest(i, "OPEN_FINANCE", statement)

Keep(i) == job' = [job EXCEPT ![i].todo = Tail(@), ![i].kept = Append(@, Head(job[i].todo))]
LeaveOut(i) == job' = [job EXCEPT ![i].todo = Tail(@), ![i].fuzzy = @ + 1]

Examining(i) == job[i].at = "examine" /\ job[i].todo # <<>>

Examine(i) ==
    /\ Examining(i)
    /\ IF FindCandidates(Head(job[i].todo), mode[job[i].source]) = {} THEN Keep(i) ELSE LeaveOut(i)
    /\ UNCHANGED <<rows, mode, now, faults, reviews, filed>>

Fault == faults < MaxFaults /\ faults' = faults + 1

\* similarity() is missing or times out: the service falls back for good and asks again.
FallBack(i) ==
    /\ Examining(i) /\ ~ Small(Head(job[i].todo))
    /\ mode[job[i].source] = "auto"
    /\ Fault
    /\ mode' = [mode EXCEPT ![job[i].source] = "fallback"]
    /\ UNCHANGED <<rows, job, now, reviews, filed>>

\* Any other error of the query: the line is kept.
QueryFails(i) ==
    /\ Examining(i) /\ ~ Small(Head(job[i].todo))
    /\ Fault
    /\ Keep(i)
    /\ UNCHANGED <<rows, mode, now, reviews, filed>>

EndExamine(i) ==
    /\ job[i].at = "examine" /\ job[i].todo = <<>>
    /\ job' = [job EXCEPT ![i].at = "insert"]
    /\ UNCHANGED <<rows, mode, now, faults, reviews, filed>>

\* @@unique([workspaceId, fitid]) and @@unique([workspaceId, hashDeduplication]): the hash
\* is taken of the date as parsed, the amount and the description.
SameHash(m, row) ==
    /\ row.hashed
    /\ <<row.date, row.line.amount, row.line.text>> = <<m.date, m.line.amount, m.line.text>>
SameFitid(m, row) == m.line.fitid # "none" /\ row.line.fitid = m.line.fitid
Conflicts(m, row) == row.status # "GONE" /\ (SameHash(m, row) \/ SameFitid(m, row))

\* createMany with skipDuplicates, in the order of the chunk.
InsertOne(i, table, m) ==
    IF \E n \in DOMAIN table : Conflicts(m, table[n]) THEN table
    ELSE Append(table, RowOf(m, i, TRUE))
CreateBatch(i, chunk) ==
    LET table[k \in 0..Len(chunk)] ==
            IF k = 0 THEN rows ELSE InsertOne(i, table[k - 1], chunk[k])
    IN  table[Len(chunk)]

Least(a, b) == IF a < b THEN a ELSE b
Chunk(i) == SubSeq(job[i].kept, 1, Least(ChunkSize, Len(job[i].kept)))

\* A plausible mistake: the next chunk begins one line late.
OneLate(i) == SubSeq(job[i].kept, ChunkSize + 2, Len(job[i].kept))   \* mutant
Rest(i)  == SubSeq(job[i].kept, ChunkSize + 1, Len(job[i].kept))

\* A plausible mistake: what was sent to the database is counted, not what it inserted.
ChunkLength(i, table) == Len(Chunk(i))                            \* mutant
Inserted(i, table) == Len(table) - Len(rows)

\* Who sets a tenant: a request of a member, the others do not.
HasTenant(source) == source = "OFX"
MayWrite(source) == bound => HasTenant(source)

InsertChunk(i) ==
    /\ job[i].at = "insert" /\ job[i].kept # <<>>
    /\ MayWrite(job[i].source)
    /\ LET table == CreateBatch(i, Chunk(i))
       IN  /\ rows' = table
           /\ job' = [job EXCEPT ![i].kept = Rest(i), ![i].imported = @ + Inserted(i, table)]
    /\ UNCHANGED <<mode, now, faults, reviews, filed>>

\* The transaction of the chunk rolls back, the next chunk goes on.
ChunkFails(i) ==
    /\ job[i].at = "insert" /\ job[i].kept # <<>>
    /\ IF MayWrite(job[i].source) THEN Fault ELSE UNCHANGED faults
    /\ job' = [job EXCEPT ![i].kept = Rest(i), ![i].failed = @ \o Chunk(i)]
    /\ UNCHANGED <<rows, mode, now, reviews, filed>>

\* The transaction commits and its answer is lost: the same catch, with the rows in place.
ChunkUnanswered(i) ==
    /\ job[i].at = "insert" /\ job[i].kept # <<>>
    /\ MayWrite(job[i].source)
    /\ Fault
    /\ rows' = CreateBatch(i, Chunk(i))
    /\ job' = [job EXCEPT ![i].kept = Rest(i), ![i].failed = @ \o Chunk(i)]
    /\ UNCHANGED <<mode, now, reviews, filed>>

Return(i) ==
    /\ job[i].at = "insert" /\ job[i].kept = <<>>
    /\ job' = [job EXCEPT ![i].at = "done"]
    /\ UNCHANGED <<rows, mode, now, faults, reviews, filed>>

\* The result of ingest: hash duplicates are what remains, never below zero.
Duplicates(i) ==
    LET hashed == Len(job[i].sent) - job[i].imported - Len(job[i].failed) - job[i].fuzzy
    IN  (IF hashed >= 0 THEN hashed ELSE 0) + job[i].fuzzy

-----------------------------------------------------------------------------
(* Documents, and the review of movements.                                 *)

\* TelegramOcrIngestionService.ingest: no hash, no fitid, the instant of the filing.
FileDocument(l) ==
    /\ filed < MaxDocuments /\ MayWrite("OCR")
    /\ filed' = filed + 1
    /\ now' \in now..MaxTime
    /\ rows' = Append(rows, RowOf([line |-> l, date |-> now'], "document", FALSE))
    /\ UNCHANGED <<job, mode, faults, reviews>>

\* approve, reject and merge, as Ledger has them in detail: a merge deletes a row.
Review(n, status) ==
    /\ reviews < MaxReviews
    /\ rows[n].status = "PENDING"
    /\ status = "GONE" => \E k \in DOMAIN rows \ {n} : rows[k].status = "PENDING"
    /\ reviews' = reviews + 1
    /\ rows' = [rows EXCEPT ![n].status = status]
    /\ UNCHANGED <<job, mode, now, faults, filed>>

Step ==
    \/ \E i \in Imports :
          \/ \E s \in Files : ImportOFX(i, s)
          \/ \E s \in Deliveries : ReceiveMovements(i, s)
          \/ Examine(i) \/ FallBack(i) \/ QueryFails(i) \/ EndExamine(i)
          \/ InsertChunk(i) \/ ChunkFails(i) \/ ChunkUnanswered(i) \/ Return(i)
    \/ \E l \in Documents : FileDocument(l)
    \/ \E n \in DOMAIN rows, status \in {"REVIEWED", "GONE"} : Review(n, status)

IngestionNext == Step /\ UNCHANGED bound

IngestionSpec == IngestionInit /\ [][IngestionNext]_ingestionVars

-----------------------------------------------------------------------------
(* Properties.                                                             *)

\* An import that has returned left a line out only for a row that looks like it (one with
\* its hash or its fitid, or one with its amount and description whose date is within two
\* hours of the one the line was given), or reports it as failed: no line falls between two
\* chunks or is lost with another one's error.  A line without a readable date was given the
\* instant of its import: it is compared with what was dated around then, and may be left
\* out for a row of another day.
LooksLike(m, row) ==
    \/ SameHash(m, row) \/ SameFitid(m, row)
    \/ /\ row.line.amount = m.line.amount /\ Near(row.date, m.date)
       /\ <<m.line.text, row.line.text>> \in Alike \cup WordsIn
NoLineIsLost ==
    \A i \in Imports : job[i].at = "done" =>
        \A k \in DOMAIN job[i].sent :
            \/ \E n \in DOMAIN rows : LooksLike(job[i].sent[k], rows[n])
            \/ job[i].sent[k] \in ToSet(job[i].failed)

\* The numbers an import reports add up to its lines, and the rows it reports are there; it
\* has others only of lines it reports as failed (a chunk that was committed unanswered).
CountsAreTrue ==
    \A i \in Imports : job[i].at = "done" =>
        LET mine == {n \in DOMAIN rows : rows[n].by = i}
            sure == {n \in mine : MovementOf(rows[n]) \notin ToSet(job[i].failed)}
        IN  /\ Cardinality(sure) <= job[i].imported /\ job[i].imported <= Cardinality(mine)
            /\ job[i].imported + Duplicates(i) + Len(job[i].failed) = Len(job[i].sent)

\* Lines with one identifier, and lines with a readable date of one day, one amount and one
\* description, whatever time of day and format they are sent with, have one row, however
\* many imports bring them and whatever fails or overlaps: another comes only after a merge
\* has deleted the first.  Nothing of the kind holds for a line with neither: sent again, it has
\* another hash and, two hours later, no candidate either (README, disagreements).
SameLine(k, l) ==
    \/ k.fitid # "none" /\ k.fitid = l.fitid
    \/ /\ {k.date, l.date} \cap Unreadable = {}
       /\ Midnight(k.date) = Midnight(l.date)
       /\ <<k.amount, k.text>> = <<l.amount, l.text>>
Twice(m, n) == m < n /\ {rows[m].by, rows[n].by} \subseteq Imports /\ rows[m].status # "GONE"
LinesComeOnce == \A m, n \in DOMAIN rows : Twice(m, n) => ~ SameLine(rows[n].line, rows[m].line)
===============================================================================
