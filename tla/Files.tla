--------------------------------- MODULE Files ---------------------------------
(***************************************************************************)
(* The files of one workspace: receipts attached to transactions and the   *)
(* A1 certificate.  A file lives in the object storage and its key in a    *)
(* database row (see Storage).                                             *)
(*                                                                         *)
(* A receipt goes from the browser straight to the storage, with a URL     *)
(* that UploadService signs if the quota allows it, and only then is the   *)
(* transaction created (useTransactionMutation, uploadCloudflare).         *)
(* TransactionService.delete removes the row first and the file after the  *)
(* commit.  WorkspaceService.uploadCertificate stores the new certificate, *)
(* then changes the row, then deletes the old one.                         *)
(*                                                                         *)
(* Only transactions with a receipt are modelled, and only requests of     *)
(* members who may send them.  What a file holds is not modelled: the code *)
(* may accept any or refuse it.                                            *)
(***************************************************************************)
EXTENDS Storage, Functions

CONSTANTS
    Tabs,       \* browsers with the transaction modal
    Deletions,  \* DELETE /transactions/:id requests
    Uploads,    \* POST /workspaces/:id/certificate-a1 requests
    Sizes,      \* sizes a receipt may have
    Quota       \* the gigabyte of a workspace

ASSUME SizesAssumption == Sizes \subseteq Nat /\ Quota \in Nat

VARIABLES
    row,       \* transactions with a receipt
    cert,      \* Workspace.certificateObjectKey
    sending,   \* keys of the files on their way from a browser to the storage
    tab, del, up

vars == <<row, object, cert, sending, tab, del, up, doubtful, faults>>

-----------------------------------------------------------------------------
MaybeKey == Keys \cup {Absent}

\* overlapped (history): another submission was under way meanwhile.
RowType == [key : Keys, size : Sizes, overlapped : BOOLEAN]
TabType == [open : BOOLEAN, at : {"idle", "presign", "put", "create"}, key : MaybeKey,
            size : Sizes \cup {0}, overlapped : BOOLEAN]
Closed == [open |-> FALSE, at |-> "idle", key |-> Absent, size |-> 0, overlapped |-> FALSE]

DelType == [at : {"idle", "commit", "file"}, txn : Txns \cup {Absent}, key : MaybeKey]
NoDel == [at |-> "idle", txn |-> Absent, key |-> Absent]

UpType == [at : {"idle", "store", "update", "undo", "old"}, old : MaybeKey, new : MaybeKey]
NoUp == [at |-> "idle", old |-> Absent, new |-> Absent]

TypeOK ==
    /\ row \in [Txns -> RowType \cup {Absent}]
    /\ object \subseteq Keys /\ cert \in MaybeKey /\ sending \subseteq Keys
    /\ tab \in [Tabs -> TabType] /\ del \in [Deletions -> DelType] /\ up \in [Uploads -> UpType]
    /\ doubtful \subseteq Keys
    /\ faults \in 0..MaxFaults

Init ==
    /\ row = [t \in Txns |-> Absent]
    /\ object = {} /\ cert = Absent /\ sending = {}
    /\ tab = [b \in Tabs |-> Closed]
    /\ del = [d \in Deletions |-> NoDel]
    /\ up = [u \in Uploads |-> NoUp]
    /\ doubtful = {} /\ faults = 0

Saved == {t \in Txns : row[t] # Absent}
KeysOfRows == {row[t].key : t \in Saved}
InTransit == sending \cup {tab[b].key : b \in Tabs} \cup {del[d].key : d \in Deletions}
                \cup UNION {{up[u].old, up[u].new} : u \in Uploads}
Fresh(k) == k \notin object \cup KeysOfRows \cup InTransit \cup doubtful \cup {cert}

\* Identifiers are not used twice.
FreshTxn(t) == row[t] = Absent /\ \A d \in Deletions : del[d].txn # t

TabBecomes(b, new) == tab' = [tab EXCEPT ![b] = new]
KeepsOpen(b) == [Closed EXCEPT !.open = tab[b].open]

NoCertificate == UNCHANGED <<cert, up, doubtful>>
BrowserOnly == UNCHANGED <<row, object, del>> /\ NoCertificate

-----------------------------------------------------------------------------
(* A submission with a receipt.                                            *)

\* aggregate over the saved rows: files under way do not count.
SizeOf == [t \in Saved |-> row[t].size]
Used == SumFunctionOnSet(SizeOf, Saved)

\* A plausible mistake: only what is used already is compared.
FitsBefore(size) == Used <= Quota                                    \* mutant
Fits(size) == Used + size <= Quota

OpenModal(b) ==
    /\ ~ tab[b].open
    /\ TabBecomes(b, [tab[b] EXCEPT !.open = TRUE])
    /\ UNCHANGED <<sending, faults>> /\ BrowserOnly

\* The button is disabled while a submission is under way.
Submit(b, size) ==
    /\ tab[b].open /\ tab[b].at = "idle"
    /\ LET others == {c \in Tabs \ {b} : tab[c].at # "idle"}
       IN  tab' = [c \in Tabs |->
               CASE c = b -> [open |-> TRUE, at |-> "presign", key |-> Absent, size |-> size,
                              overlapped |-> others # {}]
                 [] c \in others -> [tab[c] EXCEPT !.overlapped = TRUE]
                 [] OTHER -> tab[c]]
    /\ UNCHANGED <<sending, faults>> /\ BrowserOnly

\* requestUpload; the browser then sends the file.
Presign(b, k) ==
    /\ tab[b].at = "presign" /\ Fresh(k) /\ Fits(tab[b].size)
    /\ TabBecomes(b, [tab[b] EXCEPT !.at = "put", !.key = k])
    /\ sending' = sending \cup {k}
    /\ UNCHANGED faults /\ BrowserOnly

\* 402, and the form stays.
QuotaExceeded(b) ==
    /\ tab[b].at = "presign" /\ ~ Fits(tab[b].size)
    /\ TabBecomes(b, KeepsOpen(b))
    /\ UNCHANGED <<sending, faults>> /\ BrowserOnly

\* The quota would do, but a receipt must be an image or a PDF.
ReceiptRefused(b) ==
    /\ tab[b].at = "presign" /\ Fits(tab[b].size)
    /\ TabBecomes(b, KeepsOpen(b))
    /\ UNCHANGED <<sending, faults>> /\ BrowserOnly

\* The signature fails, or the circuit breaker is open.
PresignFails(b) ==
    /\ tab[b].at = "presign"
    /\ Fault
    /\ TabBecomes(b, KeepsOpen(b))
    /\ UNCHANGED <<sending>> /\ BrowserOnly

\* The storage receives a file, awaited or not any more.
Stored(k) ==
    /\ k \in sending
    /\ sending' = sending \ {k} /\ object' = object \cup {k}
    /\ UNCHANGED <<row, tab, del, faults>> /\ NoCertificate

\* The storage's answer reaches the browser, which then asks for the transaction.
PutAnswered(b) ==
    /\ tab[b].at = "put" /\ tab[b].key \in object
    /\ TabBecomes(b, [tab[b] EXCEPT !.at = "create"])
    /\ UNCHANGED <<sending, faults>> /\ BrowserOnly

\* ABORTO TOTAL.  A plausible mistake: the transaction is created all the same.
CreatedAnyway(b) == [tab[b] EXCEPT !.at = "create"]                  \* mutant
Aborted(b) == KeepsOpen(b)

\* A network error, or 60 seconds; the file may still arrive, or get lost.
PutFails(b) ==
    /\ tab[b].at = "put"
    /\ Fault
    /\ sending' \in {sending, sending \ {tab[b].key}}
    /\ TabBecomes(b, Aborted(b))
    /\ BrowserOnly

\* Closing the modal withdraws the upload, but not a creation.
CloseModal(b) ==
    /\ tab[b].open
    /\ IF tab[b].at = "create" THEN TabBecomes(b, [tab[b] EXCEPT !.open = FALSE]) /\ UNCHANGED sending
       ELSE /\ TabBecomes(b, Closed)
            /\ sending' \in {sending, sending \ {tab[b].key}}
    /\ UNCHANGED faults /\ BrowserOnly

RowOf(b) == [key |-> tab[b].key, size |-> tab[b].size, overlapped |-> tab[b].overlapped]

\* onSuccess closes the modal, whichever form it shows by then.
Create(b, t) ==
    /\ tab[b].at = "create" /\ FreshTxn(t)
    /\ row' = [row EXCEPT ![t] = RowOf(b)]
    /\ TabBecomes(b, Closed)
    /\ UNCHANGED <<object, sending, del, faults>> /\ NoCertificate

\* The service refuses, or the answer gets lost; the form stays and may be sent again.
CreateFails(b, t) ==
    /\ tab[b].at = "create" /\ FreshTxn(t)
    /\ Fault
    /\ row' \in {row, [row EXCEPT ![t] = RowOf(b)]}
    /\ TabBecomes(b, KeepsOpen(b))
    /\ UNCHANGED <<object, sending, del>> /\ NoCertificate

-----------------------------------------------------------------------------
(* TransactionService.delete                                               *)

ServerOnly == UNCHANGED <<sending, tab>>
DelBecomes(d, new) == del' = [del EXCEPT ![d] = new]

DeleteRead(d, t) ==
    /\ del[d] = NoDel /\ t \in Saved
    /\ DelBecomes(d, [at |-> "commit", txn |-> t, key |-> row[t].key])
    /\ UNCHANGED <<row, object, faults>> /\ ServerOnly /\ NoCertificate

\* A row that is gone already makes the transaction fail; so may the database.
DeleteCommit(d) ==
    /\ del[d].at = "commit" /\ del[d].txn \in Saved
    /\ row' = [row EXCEPT ![del[d].txn] = Absent]
    /\ DelBecomes(d, [del[d] EXCEPT !.at = "file"])
    /\ UNCHANGED <<object, faults>> /\ ServerOnly /\ NoCertificate

Thrown(d) == NoDel

DeleteFails(d) ==
    /\ del[d].at = "commit"
    /\ IF del[d].txn \in Saved THEN Fault ELSE UNCHANGED faults
    /\ DelBecomes(d, Thrown(d))
    /\ UNCHANGED <<row, object>> /\ ServerOnly /\ NoCertificate

\* Not awaited.
DeleteFile(d) ==
    /\ del[d].at = "file"
    /\ Discard(del[d].key)
    /\ DelBecomes(d, NoDel)
    /\ UNCHANGED row /\ ServerOnly /\ NoCertificate

-----------------------------------------------------------------------------
(* WorkspaceService.uploadCertificate                                      *)

UpBecomes(u, new) == up' = [up EXCEPT ![u] = new]
RowsOnly == UNCHANGED <<row, del>> /\ ServerOnly

\* The workspace, and with it the key of the old certificate, is read first.
ReadWorkspace(u) ==
    /\ up[u] = NoUp
    /\ UpBecomes(u, [NoUp EXCEPT !.at = "store", !.old = cert])
    /\ UNCHANGED <<object, cert, doubtful, faults>> /\ RowsOnly

StoreCertificate(u, k) ==
    /\ up[u].at = "store" /\ Fresh(k)
    /\ object' = object \cup {k}
    /\ UpBecomes(u, [up[u] EXCEPT !.at = "update", !.new = k])
    /\ UNCHANGED <<cert, doubtful, faults>> /\ RowsOnly

\* parseAndExtractValidity: not a PFX file, another password, or no date of expiry.
CertificateRefused(u) ==
    /\ up[u].at = "store"
    /\ UpBecomes(u, NoUp)
    /\ UNCHANGED <<object, cert, doubtful, faults>> /\ RowsOnly

StoreFails(u) ==
    /\ up[u].at = "store"
    /\ Fault
    /\ UpBecomes(u, NoUp)
    /\ UNCHANGED <<object, cert, doubtful>> /\ RowsOnly

UpdateWorkspace(u) ==
    /\ up[u].at = "update"
    /\ cert' = up[u].new
    /\ UpBecomes(u, [up[u] EXCEPT !.at = "old"])
    /\ UNCHANGED <<object, doubtful, faults>> /\ RowsOnly

\* The update fails, or only says so.
UpdateFails(u) ==
    /\ up[u].at = "update"
    /\ Fault
    /\ \/ UNCHANGED <<cert, doubtful>>
       \/ cert' = up[u].new /\ doubtful' = doubtful \cup {up[u].new}
    /\ UpBecomes(u, [up[u] EXCEPT !.at = "undo"])
    /\ UNCHANGED object /\ RowsOnly

Undo(u) ==
    /\ up[u].at = "undo"
    /\ Discard(up[u].new)
    /\ UpBecomes(u, NoUp)
    /\ UNCHANGED <<cert, doubtful>> /\ RowsOnly

\* A plausible mistake: the row is asked again for the key to delete.
KeyInRow(u) == cert                                                  \* mutant
Superseded(u) == up[u].old

\* After the accountants' caches (module Cache).
DeleteOld(u) ==
    /\ up[u].at = "old"
    /\ IF Superseded(u) = Absent THEN UNCHANGED <<object, faults>> ELSE Discard(Superseded(u))
    /\ UpBecomes(u, NoUp)
    /\ UNCHANGED <<cert, doubtful>> /\ RowsOnly

Next ==
    \/ \E b \in Tabs :
          \/ OpenModal(b) \/ CloseModal(b) \/ \E s \in Sizes : Submit(b, s)
          \/ \E k \in Keys : Presign(b, k)
          \/ QuotaExceeded(b) \/ ReceiptRefused(b) \/ PresignFails(b) \/ PutAnswered(b) \/ PutFails(b)
          \/ \E t \in Txns : Create(b, t) \/ CreateFails(b, t)
    \/ \E k \in Keys : Stored(k)
    \/ \E d \in Deletions :
          \/ \E t \in Txns : DeleteRead(d, t)
          \/ DeleteCommit(d) \/ DeleteFails(d) \/ DeleteFile(d)
    \/ \E u \in Uploads :
          \/ ReadWorkspace(u) \/ \E k \in Keys : StoreCertificate(u, k)
          \/ CertificateRefused(u) \/ StoreFails(u) \/ UpdateWorkspace(u) \/ UpdateFails(u) \/ Undo(u) \/ DeleteOld(u)

Spec == Init /\ [][Next]_vars

-----------------------------------------------------------------------------
(* Properties.                                                             *)

\* A transaction never names a receipt that is not in the storage: its file is there before
\* the row and goes after it, however uploads, creations and deletions fail or overlap.
AttachmentIsStored == KeysOfRows \subseteq object

\* The workspace never names a certificate that is not in the storage, whoever replaces it
\* at the same time, unless the database made the change without saying so.
CertificateIsStored == cert \in object \cup doubtful \cup {Absent}

\* The quota is only exceeded by submissions that were under way together: each was measured
\* against the saved rows alone.
QuotaHolds == Used <= Quota \/ \E t \in Saved : row[t].overlapped
===============================================================================
