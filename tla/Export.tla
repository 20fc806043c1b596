-------------------------------- MODULE Export --------------------------------
(***************************************************************************)
(* The accounting export of one workspace: the modal of the transaction    *)
(* history (useExportDominio), POST /export/validate and /export/generate  *)
(* with ExportValidationService, ExportService and ExportArchiveService,   *)
(* and the settings both read (AccountingExportConfigService and           *)
(* AccountingExportMappingService).                                        *)
(*                                                                         *)
(* Generating validates first, then reads everything once more without     *)
(* looking at what the validation read, uploads the file, and records it   *)
(* in one database transaction with its audit entry.  Every read is a step *)
(* of its own.                                                             *)
(*                                                                         *)
(* A file is the set of its transactions; codes, texts and amounts matter  *)
(* only by being there.  The layout is the supported one.                  *)
(***************************************************************************)
EXTENDS Storage

CONSTANTS
    Macros, Requests,
    TxnRows,        \* what a transaction may be: day, status, amount, macro
    ConfigRows,     \* what AccountingExportConfig may be
    MappingRows,    \* what an AccountingExportMapping may be
    Periods,        \* pairs of days that may be chosen
    MaxEdits        \* bound: changes of transactions and settings

ASSUME DaysAssumption ==
    /\ Periods \subseteq Nat \X Nat
    /\ \A row \in TxnRows : row.day \in Nat
\* Deactivating a mapping leaves its other columns as they are.
ASSUME RowsAssumption == \A row \in MappingRows : [row EXCEPT !.active = FALSE] \in MappingRows
ASSUME EditsAssumption == MaxEdits \in Nat

VARIABLES
    cnpj,      \* whether the workspace's document is a CNPJ
    txn, config, mapping,
    archive,   \* ExportArchive rows, by key, each with its audit entry
    req,       \* the requests
    modal,     \* the modal in the browser
    edits

data == <<cnpj, txn, config, mapping>>
exportVars == <<data, object, archive, req, modal, doubtful, edits, faults>>

-----------------------------------------------------------------------------
NoPeriod == <<0, 0>>

\* config, rows and mapping: as read last; rows: those of the period, by id.  untouched
\* (history): transactions that have not changed since the request began; calm: nothing has.
Request ==
    [op : {"none", "validate", "generate", "link"},
     at : {"idle", "vConfig", "vRows", "vMapping", "gConfig", "gRows", "gMapping",
           "upload", "commit", "cleanUp", "lookUp", "sign", "reply"},
     period : Periods \cup {NoPeriod}, config : ConfigRows \cup {Absent},
     rows : UNION {[s -> TxnRows] : s \in SUBSET Txns}, key : Keys \cup {Absent},
     said : {"nothing", "valid", "blocked", "file", "url", "missing", "unavailable", "error"},
     untouched : SUBSET Txns, calm : BOOLEAN]
NoRows == [t \in {} |-> 0]
Idle == [op |-> "none", at |-> "idle", period |-> NoPeriod, config |-> Absent, rows |-> NoRows,
         key |-> Absent, said |-> "nothing", untouched |-> {}, calm |-> TRUE]

ModalStates == {"idle", "validating", "ready", "blocked", "downloading", "error"}

ExportTypeOK ==
    /\ cnpj \in BOOLEAN
    /\ txn \in [Txns -> TxnRows]
    /\ config \in ConfigRows \cup {Absent}
    /\ mapping \in [Macros -> MappingRows \cup {Absent}]
    /\ object \subseteq Keys
    /\ archive \in UNION {[s -> SUBSET Txns] : s \in SUBSET Keys}
    /\ req \in [Requests -> Request]
    /\ modal \in [open : BOOLEAN, state : ModalStates, period : Periods \cup {NoPeriod}]
    /\ doubtful \subseteq Keys
    /\ edits \in 0..MaxEdits /\ faults \in 0..MaxFaults

ExportInit ==
    /\ cnpj \in BOOLEAN
    /\ txn \in [Txns -> TxnRows]
    /\ config \in ConfigRows \cup {Absent}
    /\ mapping \in [Macros -> MappingRows \cup {Absent}]
    /\ object = {} /\ archive = NoRows /\ doubtful = {}
    /\ req = [r \in Requests |-> Idle]
    /\ modal = [open |-> FALSE, state |-> "idle", period |-> NoPeriod]
    /\ edits = 0 /\ faults = 0

Become(r, new) == req' = [req EXCEPT ![r] = new]
Goto(r, at) == Become(r, [req[r] EXCEPT !.at = at])
Say(r, what) == Become(r, [req[r] EXCEPT !.at = "reply", !.said = what])

-----------------------------------------------------------------------------
(* What the services read.                                                 *)

\* Both findFirst and findMany ask for active rows.
ActiveConfig == IF config # Absent /\ config.active THEN config ELSE Absent
ActiveMapping(m) == m # Absent /\ mapping[m] # Absent /\ mapping[m].active

\* The day after the last one ends the period.  A plausible mistake: the last day does.
InPeriodButLast(t, p) == p[1] <= txn[t].day /\ txn[t].day < p[2]    \* mutant
InPeriod(t, p) == p[1] <= txn[t].day /\ txn[t].day < p[2] + 1

RowsOf(p) == [t \in {u \in Txns : InPeriod(u, p)} |-> txn[t]]
Exportable(row) == row.status \in {"COMPLETED", "RECONCILED"}
ExportableIn(rows) == {t \in DOMAIN rows : Exportable(rows[t])}

LacksHistoryCode(cfg, m) == cfg # Absent /\ cfg.historyCodeRequired /\ ~ mapping[m].historyCode

\* ExportValidationService.validate: the blockers of one transaction.  A plausible mistake:
\* a missing history code is only a warning.
NoHistoryBlocker(cfg, row) ==                                       \* mutant
    row.amount <= 0 \/ ~ ActiveMapping(row.macro)
BlocksRow(cfg, row) ==
    \/ row.amount <= 0
    \/ row.macro = Absent
    \/ cfg # Absent /\ ~ ActiveMapping(row.macro)
    \/ ActiveMapping(row.macro) /\ LacksHistoryCode(cfg, row.macro)

\* MISSING_ACCOUNTING_CONFIG, NO_EXPORTABLE_RECORDS, STATUS_NOT_EXPORTABLE.
Blocked(cfg, rows) ==
    \/ cfg = Absent
    \/ ExportableIn(rows) = {}
    \/ ExportableIn(rows) # DOMAIN rows
    \/ \E t \in ExportableIn(rows) : BlocksRow(cfg, rows[t])

\* ExportService.generate: what makes a line impossible.
LineFails(cfg, row) ==
    \/ row.amount <= 0
    \/ ~ ActiveMapping(row.macro)
    \/ LacksHistoryCode(cfg, row.macro)

-----------------------------------------------------------------------------
(* POST /export/validate, and the first part of POST /export/generate.     *)

Reading == UNCHANGED <<data, object, archive, modal, doubtful, edits, faults>>

ReadConfig(r, from, to) ==
    /\ req[r].at = from
    /\ Become(r, [req[r] EXCEPT !.at = to, !.config = ActiveConfig])
    /\ Reading

ReadRows(r, from, to) ==
    /\ req[r].at = from
    /\ Become(r, [req[r] EXCEPT !.at = to, !.rows = RowsOf(req[r].period)])
    /\ Reading

ValidateConfig(r) == ReadConfig(r, "vConfig", "vRows")
ValidateRows(r) == ReadRows(r, "vRows", "vMapping")

\* The mappings are read last; then validate answers, and generate stops or goes on.
ValidateMapping(r) ==
    /\ req[r].at = "vMapping"
    /\ IF Blocked(req[r].config, req[r].rows) THEN Say(r, "blocked")
       ELSE IF req[r].op = "validate" THEN Say(r, "valid")
       ELSE Goto(r, "gConfig")
    /\ Reading

-----------------------------------------------------------------------------
(* ExportService.generate                                                  *)

\* formatCnpj: a document of another type or length throws.
HasCnpj == cnpj

\* The workspace comes before the configuration.
GenerateConfig(r) ==
    /\ req[r].at = "gConfig"
    /\ IF HasCnpj /\ ActiveConfig # Absent
       THEN Become(r, [req[r] EXCEPT !.at = "gRows", !.config = ActiveConfig])
       ELSE Say(r, "error")
    /\ Reading

\* Only what is exportable is read, and there must be something.
GenerateRows(r) ==
    /\ req[r].at = "gRows"
    /\ LET rows == RowsOf(req[r].period)
           kept == [t \in ExportableIn(rows) |-> rows[t]]
       IN  IF kept = NoRows THEN Say(r, "error")
           ELSE Become(r, [req[r] EXCEPT !.at = "gMapping", !.rows = kept])
    /\ Reading

GenerateLines(r) ==
    /\ req[r].at = "gMapping"
    /\ IF \E t \in DOMAIN req[r].rows : LineFails(req[r].config, req[r].rows[t])
       THEN Say(r, "error")
       ELSE Goto(r, "upload")
    /\ Reading

-----------------------------------------------------------------------------
(* ExportArchiveService.archiveAndLog                                      *)

Lines(r) == DOMAIN req[r].rows

Upload(r, k) ==
    /\ req[r].at = "upload"
    /\ k \notin object \cup DOMAIN archive \cup doubtful
    /\ object' = object \cup {k}
    /\ Become(r, [req[r] EXCEPT !.at = "commit", !.key = k])
    /\ UNCHANGED <<data, archive, modal, doubtful, edits, faults>>

\* A plausible mistake: the upload's error is swallowed, as deleteFile's is.
GoOn(r, k) == Become(r, [req[r] EXCEPT !.at = "commit", !.key = k])  \* mutant
GiveUp(r, k) == Say(r, "unavailable")

UploadFails(r, k) ==
    /\ req[r].at = "upload"
    /\ k \notin object \cup DOMAIN archive \cup doubtful
    /\ Fault
    /\ GiveUp(r, k)
    /\ UNCHANGED <<data, object, archive, modal, doubtful, edits>>

Recorded(r) == [k \in DOMAIN archive \cup {req[r].key} |->
                   IF k = req[r].key THEN Lines(r) ELSE archive[k]]

Commit(r) ==
    /\ req[r].at = "commit"
    /\ archive' = Recorded(r)
    /\ Say(r, "file")
    /\ UNCHANGED <<data, object, modal, doubtful, edits, faults>>

\* The database transaction fails, or ends without an answer.
CommitFails(r) ==
    /\ req[r].at = "commit"
    /\ Fault
    /\ \/ UNCHANGED <<archive, doubtful>>
       \/ archive' = Recorded(r) /\ doubtful' = doubtful \cup {req[r].key}
    /\ Goto(r, "cleanUp")
    /\ UNCHANGED <<data, object, modal, edits>>

\* The deletion is tried once; its errors are swallowed.
CleanUp(r) ==
    /\ req[r].at = "cleanUp"
    /\ Discard(req[r].key)
    /\ Say(r, "unavailable")
    /\ UNCHANGED <<data, archive, modal, doubtful, edits>>

\* Any of the reads fails.
ReadFails(r) ==
    /\ req[r].at \in {"vConfig", "vRows", "vMapping", "gConfig", "gRows", "gMapping", "lookUp"}
    /\ Fault
    /\ Become(r, [req[r] EXCEPT !.at = "reply", !.said = "error", !.calm = FALSE])
    /\ UNCHANGED <<data, object, archive, modal, doubtful, edits>>

-----------------------------------------------------------------------------
(* GET /export/archives/:id/download                                       *)

DownloadLink(r, k) ==
    /\ req[r] = Idle
    /\ Become(r, [Idle EXCEPT !.op = "link", !.at = "lookUp", !.key = k])
    /\ Reading

FindArchive(r) ==
    /\ req[r].at = "lookUp"
    /\ IF req[r].key \in DOMAIN archive THEN Goto(r, "sign") ELSE Say(r, "missing")
    /\ Reading

\* Signing asks nothing of the storage: the file may be missing.
Sign(r) ==
    /\ req[r].at = "sign"
    /\ Say(r, "url")
    /\ Reading

SignFails(r) ==
    /\ req[r].at = "sign"
    /\ Fault
    /\ Say(r, "unavailable")
    /\ UNCHANGED <<data, object, archive, modal, doubtful, edits>>

\* No page of the frontend asks for a link: the answer goes to whoever called.
LinkAnswered(r) ==
    /\ req[r].op = "link" /\ req[r].at = "reply"
    /\ Become(r, Idle)
    /\ Reading

-----------------------------------------------------------------------------
(* useExportDominio.  Closing the modal resets it, and does not withdraw a *)
(* request that is under way.                                              *)

Waiting == modal.state \in {"validating", "downloading"}
ModalStep == UNCHANGED <<data, object, archive, doubtful, edits, faults>>

Open ==
    /\ ~ modal.open
    /\ modal' = [modal EXCEPT !.open = TRUE]
    /\ UNCHANGED req /\ ModalStep

Close ==
    /\ modal.open
    /\ modal' = [open |-> FALSE, state |-> "idle", period |-> NoPeriod]
    /\ UNCHANGED req /\ ModalStep

ChangeDates(p) ==
    /\ modal.open /\ ~ Waiting
    /\ modal' = [modal EXCEPT !.state = "idle", !.period = p]
    /\ UNCHANGED req /\ ModalStep

Begin(r, op) ==
    /\ req[r] = Idle
    /\ Become(r, [Idle EXCEPT !.op = op, !.at = "vConfig", !.period = modal.period,
                              !.untouched = Txns])

\* The schema of both requests: the last day is not before the first.
Ordered(p) == p[1] <= p[2]

\* Without dates there is no request, only an error message; and dates in the wrong order
\* are refused before anything is read.
ValidateRefused ==
    /\ modal.open /\ ~ Waiting
    /\ modal.period = NoPeriod \/ ~ Ordered(modal.period)
    /\ modal' = [modal EXCEPT !.state = "error"]
    /\ UNCHANGED req /\ ModalStep

Validate(r) ==
    /\ modal.open /\ ~ Waiting /\ modal.period # NoPeriod /\ Ordered(modal.period)
    /\ Begin(r, "validate")
    /\ modal' = [modal EXCEPT !.state = "validating"]
    /\ ModalStep

Download(r) ==
    /\ modal.open /\ modal.state = "ready" /\ modal.period # NoPeriod
    /\ Begin(r, "generate")
    /\ modal' = [modal EXCEPT !.state = "downloading"]
    /\ ModalStep

Shown(said) ==
    CASE said \in {"valid", "file"} -> "ready"
      [] said = "blocked" -> "blocked"
      [] OTHER -> "error"

\* Whatever the modal shows by then.
Answered(r) ==
    /\ req[r].op # "link" /\ req[r].at = "reply"
    /\ modal' = [modal EXCEPT !.state = Shown(req[r].said)]
    /\ Become(r, Idle)
    /\ ModalStep

Crash(r) ==
    /\ req[r] # Idle
    /\ Fault
    /\ Become(r, Idle)
    /\ modal' = IF req[r].op = "link" THEN modal ELSE [modal EXCEPT !.state = "error"]
    /\ UNCHANGED <<data, object, archive, doubtful, edits>>

-----------------------------------------------------------------------------
(* Transactions and settings change meanwhile.                             *)

Edit(touched) ==
    /\ edits < MaxEdits /\ edits' = edits + 1
    /\ req' = [r \in Requests |->
                 IF req[r] = Idle THEN Idle
                 ELSE [req[r] EXCEPT !.untouched = @ \ touched, !.calm = FALSE]]
    /\ UNCHANGED <<cnpj, object, archive, modal, doubtful, faults>>

EditTransaction(t, row) ==
    /\ row # txn[t]
    /\ txn' = [txn EXCEPT ![t] = row]
    /\ Edit({t})
    /\ UNCHANGED <<config, mapping>>

\* create of both services: one row, active or not any more, keeps another from being made.
CreateConfig(row) ==
    /\ config = Absent
    /\ config' = row
    /\ Edit({})
    /\ UNCHANGED <<txn, mapping>>

CreateMapping(m, row) ==
    /\ mapping[m] = Absent /\ row.active
    /\ mapping' = [mapping EXCEPT ![m] = row]
    /\ Edit({})
    /\ UNCHANGED <<txn, config>>

DeactivateMapping(m) ==
    /\ ActiveMapping(m)
    /\ mapping' = [mapping EXCEPT ![m].active = FALSE]
    /\ Edit({})
    /\ UNCHANGED <<txn, config>>

ExportNext ==
    \/ \E r \in Requests :
          \/ ValidateConfig(r) \/ ValidateRows(r) \/ ValidateMapping(r)
          \/ GenerateConfig(r) \/ GenerateRows(r) \/ GenerateLines(r)
          \/ \E k \in Keys : Upload(r, k) \/ UploadFails(r, k)
          \/ Commit(r) \/ CommitFails(r) \/ CleanUp(r) \/ ReadFails(r)
          \/ \E k \in Keys : DownloadLink(r, k)
          \/ FindArchive(r) \/ Sign(r) \/ SignFails(r) \/ LinkAnswered(r)
          \/ Validate(r) \/ Download(r) \/ Answered(r) \/ Crash(r)
    \/ Open \/ Close \/ ValidateRefused \/ \E p \in Periods : ChangeDates(p)
    \/ \E t \in Txns, row \in TxnRows : EditTransaction(t, row)
    \/ \E row \in ConfigRows : CreateConfig(row)
    \/ \E m \in Macros : DeactivateMapping(m) \/ \E row \in MappingRows : CreateMapping(m, row)

ExportSpec == ExportInit /\ [][ExportNext]_exportVars

-----------------------------------------------------------------------------
(* Properties.                                                             *)

\* A file that is handed over leaves nothing of its period out: every transaction of the
\* period that did not change meanwhile is one of its lines, pending ones having stopped
\* the export; and what did not change and lies outside is none.
FileIsComplete ==
    \A r \in Requests : req[r].said = "file" =>
        \A t \in req[r].untouched :
            t \in Lines(r) <=> (req[r].period[1] <= txn[t].day /\ txn[t].day <= req[r].period[2])

\* What the validation lets pass can be generated: with nothing changed and no failure, an
\* export that was not blocked only fails for want of a CNPJ, which nothing validates.
ValidatedGenerates ==
    \A r \in Requests : req[r].said = "error" => ~ req[r].calm \/ ~ cnpj

\* Whoever gets a file gets one that is recorded, with the same lines, and stored; and every
\* recorded file is stored, unless the database committed without saying so.  So a link leads
\* to a file, with that exception.
ArchivedIsStored ==
    /\ DOMAIN archive \ doubtful \subseteq object
    /\ \A r \in Requests : req[r].said = "file" =>
           /\ req[r].key \in object \cap DOMAIN archive
           /\ archive[req[r].key] = Lines(r)
    /\ \A r \in Requests : req[r].said = "url" => req[r].key \in object \cup doubtful
===============================================================================
