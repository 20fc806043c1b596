----------------------------- MODULE StorageProofs -----------------------------
(***************************************************************************)
(* Proofs about Files, for any number of tabs, deletions, uploads, keys    *)
(* and failures; about Viewer beside them, for any number of presses; and  *)
(* about Export, for any number of requests, rows, periods, changes and    *)
(* failures.                                                               *)
(***************************************************************************)
EXTENDS Viewer, Export, Sums, TLAPS

ReceiptKeys == KeysOfRows \cup {tab[b].key : b \in Tabs} \cup {del[d].key : d \in Deletions}
CertKeys == {cert} \cup {up[u].old : u \in Uploads} \cup {up[u].new : u \in Uploads}

\* What a submission carries when it asks for its transaction.
SubmissionsAreSound ==
    \A b \in Tabs :
        /\ tab[b].at # "idle" => tab[b].size \in Sizes
        /\ tab[b].at \in {"put", "create"} => tab[b].key \in Keys
        /\ tab[b].at = "create" => tab[b].key \in object

\* No two rows or submissions have one key, and a submission's key is not to be deleted.
RowsApart == \A t, v \in Saved : row[t].key = row[v].key => t = v
TabsApart ==
    \A b \in Tabs : tab[b].key \in Keys =>
        /\ tab[b].key \notin KeysOfRows
        /\ \A d \in Deletions : del[d].key # tab[b].key
        /\ \A c \in Tabs \ {b} : tab[c].key # tab[b].key

\* The key a deletion holds is named by its own row only, and by none after the commit.
DeletionsMatch ==
    \A d \in Deletions, t \in Saved :
        row[t].key = del[d].key => del[d].at = "commit" /\ del[d].txn = t

FamiliesApart == \A k \in Keys : ~ (k \in ReceiptKeys /\ k \in CertKeys)

\* A new certificate is nobody else's business until the row names it, and a replaced one is
\* not named again.
CertificatesApart ==
    \A u \in Uploads :
        /\ up[u].at = "update" =>
              /\ up[u].new \in object /\ up[u].new # cert
              /\ \A w \in Uploads : up[w].old # up[u].new
              /\ \A w \in Uploads \ {u} : up[w].new # up[u].new
        /\ up[u].at = "undo" /\ up[u].new = cert => cert \in doubtful
        /\ up[u].at = "old" /\ up[u].old = cert => cert = Absent

ReceiptsPart ==
    /\ SubmissionsAreSound /\ RowsApart /\ TabsApart /\ DeletionsMatch
    /\ AttachmentIsStored

CertificatesPart == CertificatesApart /\ CertificateIsStored

FilesInv == TypeOK /\ ReceiptsPart /\ FamiliesApart /\ CertificatesPart

-----------------------------------------------------------------------------
(* Submissions: the certificates' side only sees the storage grow.         *)

LEMMA CertificatesUnmoved ==
    ASSUME FilesInv, NoCertificate, object \subseteq object'
    PROVE  CertificatesPart'
BY DEF FilesInv, NoCertificate, CertificatesPart, CertificatesApart, CertificateIsStored

\* A tab that gives up its key, or keeps it and knows its file is there.
LEMMA TabsRelax ==
    ASSUME FilesInv, NoCertificate, UNCHANGED <<row, del>>, TypeOK', object \subseteq object',
           \A b \in Tabs :
              /\ tab'[b].key \in {tab[b].key, Absent}
              /\ tab'[b].at # "idle" => tab'[b].size \in Sizes
              /\ tab'[b].at \in {"put", "create"} => tab'[b].key \in Keys
              /\ tab'[b].at = "create" => tab'[b].key \in object
              /\ tab'[b].key \in Keys => tab'[b].key = tab[b].key
    PROVE  FilesInv'
<1>1. ReceiptsPart'
  BY DEF FilesInv, ReceiptsPart, SubmissionsAreSound, RowsApart, TabsApart, DeletionsMatch,
         AttachmentIsStored, Saved, KeysOfRows, NoCertificate
<1>2. FamiliesApart'
  BY DEF FilesInv, FamiliesApart, ReceiptKeys, CertKeys, NoCertificate, KeysOfRows, Saved
<1>3. QED
  BY <1>1, <1>2, CertificatesUnmoved DEF FilesInv

\* One form changes, and what it then carries it carried before.
LEMMA FormChanges ==
    ASSUME FilesInv, NEW b \in Tabs, NEW new \in TabType, TabBecomes(b, new), BrowserOnly,
           new.key \in {tab[b].key, Absent},
           new.at # "idle" => new.size \in Sizes,
           new.at \in {"put", "create"} => new.key \in Keys,
           new.at = "create" => new.key \in object,
           sending' \subseteq Keys, faults' \in 0..MaxFaults
    PROVE  FilesInv'
<1>1. \A c \in Tabs : tab'[c] = IF c = b THEN new ELSE tab[c]
  BY DEF FilesInv, TypeOK, TabBecomes
<1>2. tab' \in [Tabs -> TabType]
  BY DEF FilesInv, TypeOK, TabBecomes
<1>3. TypeOK'
  BY <1>2 DEF FilesInv, TypeOK, BrowserOnly, NoCertificate
<1>4. \A c \in Tabs :
              /\ tab'[c].key \in {tab[c].key, Absent}
              /\ tab'[c].at # "idle" => tab'[c].size \in Sizes
              /\ tab'[c].at \in {"put", "create"} => tab'[c].key \in Keys
              /\ tab'[c].at = "create" => tab'[c].key \in object
              /\ tab'[c].key \in Keys => tab'[c].key = tab[c].key
  BY <1>1, AbsentAssumption DEF FilesInv, ReceiptsPart, SubmissionsAreSound
<1>5. QED
  BY <1>3, <1>4, TabsRelax DEF BrowserOnly

LEMMA FaultTyped ==
    ASSUME FilesInv, Fault \/ UNCHANGED faults
    PROVE  faults' \in 0..MaxFaults
BY FaultsAssumption DEF FilesInv, TypeOK, Fault

LEMMA FormTyped ==
    ASSUME FilesInv, NEW b \in Tabs
    PROVE  /\ tab[b] \in TabType
           /\ KeepsOpen(b) \in TabType /\ KeepsOpen(b).key = Absent /\ KeepsOpen(b).at = "idle"
           /\ Closed \in TabType /\ Closed.key = Absent /\ Closed.at = "idle"
BY DEF FilesInv, TypeOK, KeepsOpen, Closed, TabType, MaybeKey

LEMMA FormSteps ==
    ASSUME FilesInv, NEW b \in Tabs,
           \/ OpenModal(b) \/ QuotaExceeded(b) \/ ReceiptRefused(b) \/ PresignFails(b)
           \/ PutAnswered(b) \/ PutFails(b) \/ CloseModal(b)
    PROVE  FilesInv'
<1>. USE FormTyped
<1>1. tab[b].at # "idle" => tab[b].size \in Sizes
  BY DEF FilesInv, ReceiptsPart, SubmissionsAreSound
<1>2. tab[b].at \in {"put", "create"} => tab[b].key \in Keys
  BY DEF FilesInv, ReceiptsPart, SubmissionsAreSound
<1>3. tab[b].at = "create" => tab[b].key \in object
  BY DEF FilesInv, ReceiptsPart, SubmissionsAreSound
<1>4. sending \subseteq Keys
  BY DEF FilesInv, TypeOK
<1>5. CASE OpenModal(b)
  <2>1. [tab[b] EXCEPT !.open = TRUE] \in TabType
    BY DEF TabType
  <2>2. QED
    BY <1>1, <1>2, <1>3, <1>4, <1>5, <2>1, FormChanges, FaultTyped DEF OpenModal, TabType
<1>6. CASE QuotaExceeded(b) \/ ReceiptRefused(b) \/ PresignFails(b)
  BY <1>4, <1>6, FormChanges, FaultTyped DEF QuotaExceeded, ReceiptRefused, PresignFails
<1>7. CASE PutAnswered(b)
  <2>1. [tab[b] EXCEPT !.at = "create"] \in TabType
    BY DEF TabType
  <2>2. QED
    BY <1>1, <1>2, <1>3, <1>4, <1>7, <2>1, FormChanges, FaultTyped DEF PutAnswered, TabType
<1>8. CASE PutFails(b)
  BY <1>4, <1>8, FormChanges, FaultTyped DEF PutFails, Aborted
<1>9. CASE CloseModal(b)
  <2>1. [tab[b] EXCEPT !.open = FALSE] \in TabType
    BY DEF TabType
  <2>2. QED
    BY <1>1, <1>2, <1>3, <1>4, <1>9, <2>1, FormChanges, FaultTyped DEF CloseModal, TabType
<1>10. QED
  BY <1>5, <1>6, <1>7, <1>8, <1>9

LEMMA SubmitStep ==
    ASSUME FilesInv, NEW b \in Tabs, NEW size \in Sizes, Submit(b, size)
    PROVE  FilesInv'
<1>1. PICK others \in SUBSET (Tabs \ {b}) :
        tab' = [c \in Tabs |->
               CASE c = b -> [open |-> TRUE, at |-> "presign", key |-> Absent, size |-> size,
                              overlapped |-> others # {}]
                 [] c \in others -> [tab[c] EXCEPT !.overlapped = TRUE]
                 [] OTHER -> tab[c]]
  BY DEF Submit
<1>2. \A c \in Tabs : /\ tab'[c] \in TabType
                      /\ tab'[c].key \in {tab[c].key, Absent} /\ tab'[c].at \in {tab[c].at, "presign"}
                      /\ tab'[c].at # "idle" => tab'[c].size \in Sizes
                      /\ tab'[c].at \in {"put", "create"} => tab'[c].key = tab[c].key /\ tab'[c].at = tab[c].at
  <2>1. TAKE c \in Tabs
  <2>2. tab[c] \in TabType /\ (tab[c].at # "idle" => tab[c].size \in Sizes)
    BY DEF FilesInv, TypeOK, ReceiptsPart, SubmissionsAreSound
  <2>3. CASE c = b
    BY <1>1, <2>3 DEF TabType, MaybeKey
  <2>4. CASE c # b /\ c \in others
    BY <1>1, <2>2, <2>4 DEF TabType
  <2>5. CASE c # b /\ c \notin others
    BY <1>1, <2>2, <2>5 DEF TabType
  <2>6. QED
    BY <2>3, <2>4, <2>5
<1>3. TypeOK'
  <2>1. tab' \in [Tabs -> TabType]
    BY <1>1, <1>2
  <2>2. QED
    BY <2>1 DEF FilesInv, TypeOK, Submit, BrowserOnly, NoCertificate
<1>4. \A c \in Tabs :
              /\ tab'[c].at \in {"put", "create"} => tab'[c].key \in Keys
              /\ tab'[c].at = "create" => tab'[c].key \in object
              /\ tab'[c].key \in Keys => tab'[c].key = tab[c].key
  BY <1>2, AbsentAssumption DEF FilesInv, ReceiptsPart, SubmissionsAreSound
<1>5. QED
  BY <1>2, <1>3, <1>4, TabsRelax DEF Submit, BrowserOnly

LEMMA StoredStep ==
    ASSUME FilesInv, NEW k \in Keys, Stored(k)
    PROVE  FilesInv'
<1>1. TypeOK' /\ object \subseteq object'
  BY DEF FilesInv, TypeOK, Stored, NoCertificate
<1>2. QED
  BY <1>1, TabsRelax DEF Stored, FilesInv, ReceiptsPart, SubmissionsAreSound

LEMMA FreshIsNew ==
    ASSUME NEW k \in Keys, Fresh(k)
    PROVE  /\ k \notin ReceiptKeys /\ k \notin CertKeys
           /\ k \notin object /\ k \notin KeysOfRows
           /\ \A b \in Tabs : tab[b].key # k
           /\ \A d \in Deletions : del[d].key # k
           /\ \A u \in Uploads : up[u].old # k /\ up[u].new # k
           /\ cert # k
BY DEF Fresh, InTransit, ReceiptKeys, CertKeys

LEMMA PresignStep ==
    ASSUME FilesInv, NEW b \in Tabs, NEW k \in Keys, Presign(b, k)
    PROVE  FilesInv'
<1>. DEFINE new == [tab[b] EXCEPT !.at = "put", !.key = k]
<1>1. Fresh(k)
  BY DEF Presign
<1>2. new \in TabType /\ new.key = k /\ new.at = "put" /\ new.size \in Sizes
  BY DEF FilesInv, TypeOK, TabType, MaybeKey, ReceiptsPart, SubmissionsAreSound, Presign
<1>3. \A c \in Tabs : tab'[c] = IF c = b THEN new ELSE tab[c]
  BY DEF FilesInv, TypeOK, TabBecomes, Presign
<1>4. TypeOK'
  <2>1. tab' \in [Tabs -> TabType]
    BY <1>2 DEF FilesInv, TypeOK, TabBecomes, Presign
  <2>2. QED
    BY <2>1 DEF FilesInv, TypeOK, Presign, BrowserOnly, NoCertificate
<1>. HIDE DEF new
<1>5. UNCHANGED <<row, del, object, cert, up, doubtful>>
  BY DEF Presign, BrowserOnly, NoCertificate
<1>6. KeysOfRows' = KeysOfRows /\ Saved' = Saved
  BY <1>5 DEF KeysOfRows, Saved
<1>7. SubmissionsAreSound'
  BY <1>2, <1>3, <1>5 DEF FilesInv, ReceiptsPart, SubmissionsAreSound
<1>8. TabsApart'
  BY <1>1, <1>2, <1>3, <1>5, <1>6, FreshIsNew DEF FilesInv, ReceiptsPart, TabsApart
<1>9. RowsApart' /\ DeletionsMatch' /\ AttachmentIsStored'
  BY <1>5, <1>6 DEF FilesInv, ReceiptsPart, RowsApart, DeletionsMatch, AttachmentIsStored
<1>10. FamiliesApart'
  <2>1. CertKeys' = CertKeys
    BY <1>5 DEF CertKeys
  <2>2. ReceiptKeys' \subseteq ReceiptKeys \cup {k}
    BY <1>2, <1>3, <1>5, <1>6 DEF ReceiptKeys
  <2>3. QED
    BY <2>1, <2>2, <1>1, FreshIsNew DEF FilesInv, FamiliesApart
<1>11. CertificatesPart'
  BY <1>5, CertificatesUnmoved DEF NoCertificate
<1>12. QED
  BY <1>4, <1>7, <1>8, <1>9, <1>10, <1>11 DEF FilesInv, ReceiptsPart

\* A row takes the key over from the form, which gives it up.
LEMMA RowTaken ==
    ASSUME FilesInv, NEW b \in Tabs, NEW t \in Txns, tab[b].at = "create", FreshTxn(t),
           row' = [row EXCEPT ![t] = RowOf(b)],
           NEW new \in TabType, new.key = Absent, new.at = "idle", TabBecomes(b, new),
           UNCHANGED <<object, sending, del>>, NoCertificate, faults' \in 0..MaxFaults
    PROVE  FilesInv'
<1>. USE AbsentAssumption
<1>1. tab[b].key \in Keys /\ tab[b].key \in object /\ RowOf(b) \in RowType /\ RowOf(b).key = tab[b].key
  BY DEF FilesInv, TypeOK, ReceiptsPart, SubmissionsAreSound, RowOf, RowType, TabType
<1>2. \A c \in Tabs : tab'[c] = IF c = b THEN new ELSE tab[c]
  BY DEF FilesInv, TypeOK, TabBecomes
<1>3. \A v \in Txns : row'[v] = IF v = t THEN RowOf(b) ELSE row[v]
  BY DEF FilesInv, TypeOK
<1>4. TypeOK'
  <2>1. tab' \in [Tabs -> TabType]
    BY DEF FilesInv, TypeOK, TabBecomes
  <2>2. row' \in [Txns -> RowType \cup {Absent}]
    BY <1>1 DEF FilesInv, TypeOK
  <2>3. QED
    BY <2>1, <2>2 DEF FilesInv, TypeOK, NoCertificate
<1>5. /\ t \notin Saved /\ Saved' \subseteq Saved \cup {t}
      /\ \A v \in Saved' : (v = t /\ row'[v].key = tab[b].key) \/ (v \in Saved /\ v # t /\ row'[v] = row[v])
  BY <1>1, <1>3 DEF Saved, FreshTxn
<1>6. KeysOfRows' \subseteq KeysOfRows \cup {tab[b].key}
  BY <1>5 DEF KeysOfRows
<1>7. \A v \in Saved : row[v].key \in KeysOfRows
  BY DEF KeysOfRows
<1>8. /\ tab[b].key \notin KeysOfRows /\ (\A d \in Deletions : del[d].key # tab[b].key)
      /\ \A c \in Tabs \ {b} : tab[c].key # tab[b].key
  BY <1>1 DEF FilesInv, ReceiptsPart, TabsApart
<1>9. SubmissionsAreSound' /\ AttachmentIsStored'
  BY <1>1, <1>2, <1>6 DEF FilesInv, ReceiptsPart, SubmissionsAreSound, AttachmentIsStored
<1>10. RowsApart'
  BY <1>5, <1>7, <1>8 DEF FilesInv, ReceiptsPart, RowsApart
<1>11. TabsApart'
  BY <1>2, <1>6, <1>8 DEF FilesInv, ReceiptsPart, TabsApart
<1>12. DeletionsMatch'
  BY <1>5, <1>8 DEF FilesInv, ReceiptsPart, DeletionsMatch
<1>13. FamiliesApart'
  <2>1. CertKeys' = CertKeys
    BY DEF CertKeys, NoCertificate
  <2>2. \A k \in Keys : k \in ReceiptKeys' => k \in ReceiptKeys
    BY <1>2, <1>6 DEF ReceiptKeys
  <2>3. QED
    BY <2>1, <2>2 DEF FilesInv, FamiliesApart
<1>14. CertificatesPart'
  BY CertificatesUnmoved
<1>15. QED
  BY <1>4, <1>9, <1>10, <1>11, <1>12, <1>13, <1>14 DEF FilesInv, ReceiptsPart

LEMMA CreateSteps ==
    ASSUME FilesInv, NEW b \in Tabs, NEW t \in Txns, Create(b, t) \/ CreateFails(b, t)
    PROVE  FilesInv'
<1>. USE FormTyped
<1>1. faults' \in 0..MaxFaults
  BY FaultTyped DEF Create, CreateFails
<1>2. CASE Create(b, t)
  BY <1>1, <1>2, RowTaken DEF Create
<1>3. CASE CreateFails(b, t) /\ row' = row
  BY <1>1, <1>3, FormChanges DEF CreateFails, BrowserOnly, FilesInv, TypeOK
<1>4. CASE CreateFails(b, t) /\ row' = [row EXCEPT ![t] = RowOf(b)]
  BY <1>1, <1>4, RowTaken DEF CreateFails
<1>5. QED
  BY <1>2, <1>3, <1>4 DEF CreateFails

-----------------------------------------------------------------------------
(* Deletions.                                                              *)

LEMMA DeletionSteps ==
    ASSUME FilesInv, NEW d \in Deletions,
           (\E t \in Txns : DeleteRead(d, t)) \/ DeleteCommit(d) \/ DeleteFails(d) \/ DeleteFile(d)
    PROVE  FilesInv'
<1>. USE AbsentAssumption
<1>1. del[d] \in DelType /\ \A t \in Saved : row[t] \in RowType
  BY DEF FilesInv, TypeOK, Saved
<1>2. PICK new \in DelType : del' = [del EXCEPT ![d] = new]
  BY <1>1 DEF DeleteRead, DeleteCommit, DeleteFails, DeleteFile, DelBecomes, NoDel, Thrown, DelType, RowType, MaybeKey,
              Saved
<1>3. \A e \in Deletions : del'[e] = IF e = d THEN new ELSE del[e]
  BY <1>2 DEF FilesInv, TypeOK
<1>4. UNCHANGED <<sending, tab, cert, up, doubtful>> /\ object' \subseteq object
  BY DEF DeleteRead, DeleteCommit, DeleteFails, DeleteFile, ServerOnly, NoCertificate, Discard
<1>5. faults' \in 0..MaxFaults
  BY FaultTyped DEF DeleteRead, DeleteCommit, DeleteFails, DeleteFile, Discard
<1>6. row' \in [Txns -> RowType \cup {Absent}]
  BY DEF FilesInv, TypeOK, DeleteRead, DeleteCommit, DeleteFails, DeleteFile
<1>7. TypeOK'
  BY <1>2, <1>4, <1>5, <1>6 DEF FilesInv, TypeOK
<1>8. Saved' \subseteq Saved /\ \A t \in Saved' : row'[t] = row[t]
  BY DEF FilesInv, TypeOK, Saved, DeleteRead, DeleteCommit, DeleteFails, DeleteFile
<1>9. KeysOfRows' \subseteq KeysOfRows /\ \A t \in Saved' : row[t].key \in KeysOfRows'
  BY <1>8 DEF KeysOfRows
<1>10. new.key = Absent \/ new.key = del[d].key \/ (\E t \in Saved : new.key = row[t].key)
  BY <1>1, <1>3 DEF FilesInv, TypeOK, DeleteRead, DeleteCommit, DeleteFails, DeleteFile, DelBecomes, NoDel, Thrown, DelType
<1>11. \A k \in object \ object' : k \notin KeysOfRows' /\ k \notin CertKeys /\ \A b \in Tabs : tab[b].key # k
  <2>1. SUFFICES ASSUME DeleteFile(d), NEW k \in object \ object'
                 PROVE  k \notin KeysOfRows' /\ k \notin CertKeys /\ \A b \in Tabs : tab[b].key # k
    BY DEF DeleteRead, DeleteCommit, DeleteFails
  <2>2. k = del[d].key /\ k \in Keys /\ del[d].at = "file" /\ KeysOfRows' = KeysOfRows
    BY <2>1 DEF DeleteFile, Discard, FilesInv, TypeOK, KeysOfRows, Saved
  <2>3. k \notin KeysOfRows
    BY <2>2 DEF FilesInv, ReceiptsPart, DeletionsMatch, KeysOfRows
  <2>4. k \notin CertKeys
    BY <2>2 DEF FilesInv, FamiliesApart, ReceiptKeys
  <2>5. \A b \in Tabs : tab[b].key # k
    BY <2>2 DEF FilesInv, ReceiptsPart, TabsApart
  <2>6. QED
    BY <2>2, <2>3, <2>4, <2>5
<1>12. SubmissionsAreSound' /\ AttachmentIsStored'
  BY <1>4, <1>9, <1>11 DEF FilesInv, ReceiptsPart, SubmissionsAreSound, AttachmentIsStored
<1>13. RowsApart'
  BY <1>8 DEF FilesInv, ReceiptsPart, RowsApart
<1>14. TabsApart'
  <2>1. \A b \in Tabs : tab[b].key \in Keys => new.key # tab[b].key
    <3>1. \A t \in Saved : row[t].key \in KeysOfRows
      BY DEF KeysOfRows
    <3>2. QED
      BY <1>10, <3>1 DEF FilesInv, ReceiptsPart, TabsApart
  <2>2. QED
    BY <1>3, <1>4, <1>9, <2>1 DEF FilesInv, ReceiptsPart, TabsApart
<1>15. DeletionsMatch'
  <2>1. \A e \in Deletions \ {d}, t \in Saved' :
            row'[t].key = del'[e].key => del'[e].at = "commit" /\ del'[e].txn = t
    BY <1>3, <1>8 DEF FilesInv, ReceiptsPart, DeletionsMatch
  <2>2. \A t \in Saved' : row'[t].key \in Keys
    BY <1>1, <1>8 DEF RowType
  <2>3. CASE \E t \in Txns : DeleteRead(d, t)
    <3>1. PICK t \in Txns : DeleteRead(d, t)
      BY <2>3
    <3>2. new.at = "commit" /\ new.txn = t /\ new.key = row[t].key /\ t \in Saved
      BY <1>3, <3>1 DEF DeleteRead, DelBecomes, FilesInv, TypeOK
    <3>3. QED
      BY <1>3, <1>8, <2>1, <3>2 DEF FilesInv, ReceiptsPart, RowsApart, DeletionsMatch
  <2>4. CASE DeleteCommit(d)
    <3>1. new.key = del[d].key
      BY <1>1, <1>3, <2>4 DEF DeleteCommit, DelBecomes, DelType, FilesInv, TypeOK
    <3>2. del[d].txn \notin Saved'
      BY <2>4 DEF DeleteCommit, Saved, FilesInv, TypeOK
    <3>3. QED
      BY <1>3, <1>8, <2>1, <3>1, <3>2 DEF FilesInv, ReceiptsPart, DeletionsMatch
  <2>5. CASE DeleteFails(d) \/ DeleteFile(d)
    <3>1. new.key = Absent
      BY <1>3, <2>5 DEF DeleteFails, DeleteFile, Thrown, DelBecomes, NoDel, FilesInv, TypeOK
    <3>2. QED
      BY <1>3, <2>1, <2>2, <3>1 DEF DeletionsMatch
  <2>6. QED
    BY <2>3, <2>4, <2>5
<1>16. FamiliesApart'
  <2>1. CertKeys' = CertKeys
    BY <1>4 DEF CertKeys
  <2>2. \A k \in Keys : k \in ReceiptKeys' => k \in ReceiptKeys
    <3>1. \A e \in Deletions : del'[e].key \in Keys => del'[e].key \in ReceiptKeys
      BY <1>3, <1>10 DEF ReceiptKeys, KeysOfRows
    <3>2. QED
      BY <1>4, <1>9, <3>1 DEF ReceiptKeys
  <2>3. QED
    BY <2>1, <2>2 DEF FilesInv, FamiliesApart
<1>17. CertificatesPart'
  <2>1. \A k \in CertKeys : k \in object => k \in object'
    BY <1>11
  <2>2. cert \in CertKeys /\ \A u \in Uploads : up[u].new \in CertKeys
    BY DEF CertKeys
  <2>3. QED
    BY <1>4, <2>1, <2>2 DEF FilesInv, CertificatesPart, CertificatesApart, CertificateIsStored
<1>18. QED
  BY <1>7, <1>12, <1>13, <1>14, <1>15, <1>16, <1>17 DEF FilesInv, ReceiptsPart

-----------------------------------------------------------------------------
(* Certificates: receipts only see certificates come and go.               *)

LEMMA ReceiptsUnmoved ==
    ASSUME FilesInv, RowsOnly, object \ object' \subseteq CertKeys
    PROVE  ReceiptsPart'
<1>1. \A k \in ReceiptKeys : k \in Keys /\ k \in object => k \in object'
  BY DEF FilesInv, FamiliesApart
<1>2. KeysOfRows \subseteq ReceiptKeys /\ \A b \in Tabs : tab[b].key \in ReceiptKeys
  BY DEF ReceiptKeys
<1>3. KeysOfRows' = KeysOfRows /\ Saved' = Saved /\ UNCHANGED <<row, tab, del>>
  BY DEF RowsOnly, ServerOnly, KeysOfRows, Saved
<1>4. KeysOfRows \subseteq Keys
  BY DEF KeysOfRows, Saved, FilesInv, TypeOK, RowType
<1>5. AttachmentIsStored'
  BY <1>1, <1>2, <1>3, <1>4 DEF FilesInv, ReceiptsPart, AttachmentIsStored
<1>6. SubmissionsAreSound'
  BY <1>1, <1>2, <1>3 DEF FilesInv, ReceiptsPart, SubmissionsAreSound
<1>7. QED
  BY <1>3, <1>5, <1>6 DEF FilesInv, ReceiptsPart, RowsApart, TabsApart, DeletionsMatch

\* The general step: one upload changes, within the families.
LEMMA UploadChanges ==
    ASSUME FilesInv, RowsOnly, NEW u \in Uploads, NEW new \in UpType, UpBecomes(u, new),
           object' \subseteq Keys, cert' \in MaybeKey, doubtful' \subseteq Keys, faults' \in 0..MaxFaults,
           object \ object' \subseteq CertKeys,
           \A k \in {cert', new.old, new.new} \cap Keys : k \in CertKeys \/ k \notin ReceiptKeys,
           CertificatesPart'
    PROVE  FilesInv'
<1>1. \A w \in Uploads : up'[w] = IF w = u THEN new ELSE up[w]
  BY DEF FilesInv, TypeOK, UpBecomes
<1>2. TypeOK'
  <2>1. up' \in [Uploads -> UpType]
    BY DEF FilesInv, TypeOK, UpBecomes
  <2>2. QED
    BY <2>1 DEF FilesInv, TypeOK, RowsOnly, ServerOnly
<1>3. FamiliesApart'
  <2>1. ReceiptKeys' = ReceiptKeys
    BY DEF ReceiptKeys, KeysOfRows, Saved, RowsOnly, ServerOnly
  <2>2. \A k \in Keys : k \in CertKeys' => k \in CertKeys \/ k \notin ReceiptKeys
    <3>1. CertKeys' \subseteq CertKeys \cup {cert', new.old, new.new}
      BY <1>1 DEF CertKeys
    <3>2. QED
      BY <3>1
  <2>3. QED
    BY <2>1, <2>2 DEF FilesInv, FamiliesApart
<1>4. QED
  BY <1>2, <1>3, ReceiptsUnmoved DEF FilesInv

\* Removing a file that no upload is about to put into the row, nor the row names.
LEMMA Discarded ==
    ASSUME FilesInv, NEW u \in Uploads, NEW k \in MaybeKey, UpBecomes(u, NoUp), UNCHANGED <<cert, doubtful>>,
           object' = object \/ object' = object \ {k},
           cert = k => cert \in doubtful \cup {Absent},
           \A w \in Uploads \ {u} : up[w].at = "update" => up[w].new # k
    PROVE  CertificatesPart'
<1>1. \A w \in Uploads : up'[w] = IF w = u THEN NoUp ELSE up[w]
  BY DEF FilesInv, TypeOK, UpBecomes
<1>2. CertificateIsStored'
  BY DEF FilesInv, CertificatesPart, CertificateIsStored
<1>3. CertificatesApart'
  <2>1. SUFFICES ASSUME NEW w \in Uploads
                 PROVE  /\ up'[w].at = "update" =>
                              /\ up'[w].new \in object' /\ up'[w].new # cert
                              /\ \A v \in Uploads : up'[v].old # up'[w].new
                              /\ \A v \in Uploads \ {w} : up'[v].new # up'[w].new
                        /\ up'[w].at = "undo" /\ up'[w].new = cert => cert \in doubtful
                        /\ up'[w].at = "old" /\ up'[w].old = cert => cert = Absent
    BY DEF CertificatesApart
  <2>2. CASE w = u
    BY <1>1, <2>2 DEF NoUp
  <2>3. CASE w # u
    <3>1. up'[w] = up[w]
      BY <1>1, <2>3
    <3>2. up[w].at = "update" => up[w].new # Absent
      BY AbsentAssumption DEF FilesInv, TypeOK, CertificatesPart, CertificatesApart
    <3>3. QED
      BY <1>1, <2>3, <3>1, <3>2 DEF FilesInv, CertificatesPart, CertificatesApart, NoUp
  <2>4. QED
    BY <2>2, <2>3
<1>4. QED
  BY <1>2, <1>3 DEF CertificatesPart

\* The row names the new certificate, and says so or not.
LEMMA Named ==
    ASSUME FilesInv, NEW u \in Uploads, NEW new \in UpType, up[u].at = "update", UpBecomes(u, new),
           new.old = up[u].old, new.new = up[u].new, UNCHANGED object, cert' = up[u].new,
           new.at \in {"old", "undo"}, doubtful \subseteq doubtful', new.at = "undo" => cert' \in doubtful'
    PROVE  CertificatesPart'
<1>1. \A w \in Uploads : up'[w] = IF w = u THEN new ELSE up[w]
  BY DEF FilesInv, TypeOK, UpBecomes
<1>2. /\ up[u].new \in object
      /\ \A w \in Uploads : up[w].old # up[u].new
      /\ \A w \in Uploads \ {u} : up[w].new # up[u].new
  BY DEF FilesInv, CertificatesPart, CertificatesApart
<1>3. CertificateIsStored'
  BY <1>2 DEF CertificateIsStored
<1>4. CertificatesApart'
  BY <1>1, <1>2 DEF FilesInv, CertificatesPart, CertificatesApart
<1>5. QED
  BY <1>3, <1>4 DEF CertificatesPart

LEMMA CertificateSteps ==
    ASSUME FilesInv, NEW u \in Uploads,
           \/ ReadWorkspace(u) \/ (\E k \in Keys : StoreCertificate(u, k)) \/ CertificateRefused(u) \/ StoreFails(u)
           \/ UpdateWorkspace(u) \/ UpdateFails(u) \/ Undo(u) \/ DeleteOld(u)
    PROVE  FilesInv'
<1>. USE AbsentAssumption
<1>1. up[u] \in UpType /\ NoUp \in UpType /\ object \subseteq Keys /\ cert \in MaybeKey /\ doubtful \subseteq Keys
  BY DEF FilesInv, TypeOK, NoUp, UpType, MaybeKey
<1>2. RowsOnly /\ faults' \in 0..MaxFaults
  BY FaultTyped DEF ReadWorkspace, StoreCertificate, CertificateRefused, StoreFails, UpdateWorkspace, UpdateFails, Undo,
                    DeleteOld, Discard
<1>3. up[u].old \in CertKeys /\ up[u].new \in CertKeys /\ cert \in CertKeys
  BY DEF CertKeys
<1>4. NoUp.old = Absent /\ NoUp.new = Absent /\ Absent \notin Keys
  BY DEF NoUp
<1>5. CASE ReadWorkspace(u)
  <2>. DEFINE new == [NoUp EXCEPT !.at = "store", !.old = cert]
  <2>1. new \in UpType /\ new.old = cert /\ new.new = Absent /\ new.at = "store"
    BY <1>1 DEF UpType, NoUp, MaybeKey
  <2>2. UpBecomes(u, new) /\ UNCHANGED <<object, cert, doubtful>>
    BY <1>5 DEF ReadWorkspace
  <2>3. \A w \in Uploads : up'[w] = IF w = u THEN new ELSE up[w]
    BY <2>2 DEF FilesInv, TypeOK, UpBecomes
  <2>. HIDE DEF new
  <2>4. \A w \in Uploads : up[w].at = "update" => up[w].new \in Keys
    BY <1>1 DEF FilesInv, CertificatesPart, CertificatesApart
  <2>5. CertificatesPart'
    BY <2>1, <2>2, <2>3, <2>4 DEF FilesInv, CertificatesPart, CertificatesApart, CertificateIsStored
  <2>6. QED
    BY <1>1, <1>2, <1>3, <1>4, <2>1, <2>2, <2>5, UploadChanges
<1>6. CASE \E k \in Keys : StoreCertificate(u, k)
  <2>1. PICK k \in Keys : StoreCertificate(u, k)
    BY <1>6
  <2>. DEFINE new == [up[u] EXCEPT !.at = "update", !.new = k]
  <2>2. new \in UpType /\ new.old = up[u].old /\ new.new = k /\ new.at = "update"
    BY <1>1 DEF UpType, MaybeKey
  <2>3. UpBecomes(u, new) /\ object' = object \cup {k} /\ UNCHANGED <<cert, doubtful>> /\ Fresh(k)
    BY <2>1 DEF StoreCertificate
  <2>4. \A w \in Uploads : up'[w] = IF w = u THEN new ELSE up[w]
    BY <2>3 DEF FilesInv, TypeOK, UpBecomes
  <2>. HIDE DEF new
  <2>5. CertificatesPart'
    BY <2>2, <2>3, <2>4, FreshIsNew DEF FilesInv, CertificatesPart, CertificatesApart, CertificateIsStored
  <2>6. QED
    BY <1>1, <1>2, <1>3, <2>2, <2>3, <2>5, FreshIsNew, UploadChanges
<1>7. CASE CertificateRefused(u) \/ StoreFails(u)
  <2>1. UpBecomes(u, NoUp) /\ UNCHANGED <<object, cert, doubtful>>
    BY <1>7 DEF CertificateRefused, StoreFails
  <2>2. \A w \in Uploads : up[w].at = "update" => up[w].new # Absent
    BY <1>1 DEF FilesInv, CertificatesPart, CertificatesApart
  <2>3. CertificatesPart'
    BY <2>1, <2>2, Discarded DEF MaybeKey
  <2>4. QED
    BY <1>1, <1>2, <1>3, <1>4, <2>1, <2>3, UploadChanges
<1>8. CASE UpdateWorkspace(u)
  <2>. DEFINE new == [up[u] EXCEPT !.at = "old"]
  <2>1. new \in UpType /\ new.old = up[u].old /\ new.new = up[u].new /\ new.at = "old"
    BY <1>1 DEF UpType
  <2>2. UpBecomes(u, new) /\ cert' = up[u].new /\ UNCHANGED <<object, doubtful>> /\ up[u].at = "update"
    BY <1>8 DEF UpdateWorkspace
  <2>. HIDE DEF new
  <2>3. cert' \in MaybeKey
    BY <1>1, <2>2 DEF UpType
  <2>4. CertificatesPart'
    <3>1. new.at \in {"old", "undo"} /\ doubtful \subseteq doubtful' /\ (new.at = "undo" => cert' \in doubtful')
      BY <2>1, <2>2
    <3>2. UNCHANGED object /\ cert' = up[u].new /\ new.old = up[u].old /\ new.new = up[u].new
      BY <2>1, <2>2
    <3>3. QED
      BY <2>1, <2>2, <3>1, <3>2, Named
  <2>5. QED
    BY <1>1, <1>2, <1>3, <2>1, <2>2, <2>3, <2>4, UploadChanges
<1>9. CASE UpdateFails(u)
  <2>. DEFINE new == [up[u] EXCEPT !.at = "undo"]
  <2>1. new \in UpType /\ new.old = up[u].old /\ new.new = up[u].new /\ new.at = "undo"
    BY <1>1 DEF UpType
  <2>2. UpBecomes(u, new) /\ UNCHANGED object /\ up[u].at = "update"
    BY <1>9 DEF UpdateFails
  <2>3. \A w \in Uploads : up'[w] = IF w = u THEN new ELSE up[w]
    BY <2>2 DEF FilesInv, TypeOK, UpBecomes
  <2>. HIDE DEF new
  <2>4. CASE UNCHANGED <<cert, doubtful>>
    <3>1. CertificatesPart'
      BY <2>1, <2>2, <2>3, <2>4 DEF FilesInv, CertificatesPart, CertificatesApart, CertificateIsStored
    <3>2. QED
      BY <1>1, <1>2, <1>3, <2>1, <2>2, <2>4, <3>1, UploadChanges
  <2>5. CASE cert' = up[u].new /\ doubtful' = doubtful \cup {up[u].new}
    <3>1. up[u].new \in Keys
      BY <1>1, <2>2 DEF FilesInv, CertificatesPart, CertificatesApart
    <3>2. QED
      BY <1>1, <1>2, <1>3, <2>1, <2>2, <2>5, <3>1, Named, UploadChanges DEF MaybeKey
  <2>6. QED
    BY <1>9, <2>4, <2>5 DEF UpdateFails
<1>10. CASE Undo(u)
  <2>1. UpBecomes(u, NoUp) /\ UNCHANGED <<cert, doubtful>> /\ up[u].at = "undo"
        /\ (object' = object \/ object' = object \ {up[u].new})
    BY <1>10 DEF Undo, Discard
  <2>2. \A w \in Uploads \ {u} : up[w].at = "update" => up[w].new # up[u].new
    BY DEF FilesInv, CertificatesPart, CertificatesApart
  <2>3. cert = up[u].new => cert \in doubtful
    BY <2>1 DEF FilesInv, CertificatesPart, CertificatesApart
  <2>4. CertificatesPart'
    BY <1>1, <2>1, <2>2, <2>3, Discarded DEF UpType
  <2>5. QED
    BY <1>1, <1>2, <1>3, <1>4, <2>1, <2>4, UploadChanges
<1>11. CASE DeleteOld(u)
  <2>1. UpBecomes(u, NoUp) /\ UNCHANGED <<cert, doubtful>> /\ up[u].at = "old"
        /\ (object' = object \/ object' = object \ {up[u].old})
    BY <1>11 DEF DeleteOld, Superseded, Discard
  <2>2. \A w \in Uploads \ {u} : up[w].at = "update" => up[w].new # up[u].old
    BY DEF FilesInv, CertificatesPart, CertificatesApart
  <2>3. cert = up[u].old => cert = Absent
    BY <2>1 DEF FilesInv, CertificatesPart, CertificatesApart
  <2>4. CertificatesPart'
    BY <1>1, <2>1, <2>2, <2>3, Discarded DEF UpType
  <2>5. QED
    BY <1>1, <1>2, <1>3, <1>4, <2>1, <2>4, UploadChanges
<1>12. QED
  BY <1>5, <1>6, <1>7, <1>8, <1>9, <1>10, <1>11

-----------------------------------------------------------------------------

LEMMA InitInv == Init => FilesInv
<1>. SUFFICES ASSUME Init PROVE FilesInv
  OBVIOUS
<1>2. TypeOK
  BY SizesAssumption, FaultsAssumption DEF Init, TypeOK, Closed, NoDel, NoUp, TabType, DelType, UpType, MaybeKey
<1>3. Saved = {} /\ KeysOfRows = {}
  BY DEF Init, Saved, KeysOfRows
<1>4. ReceiptsPart
  BY <1>3, AbsentAssumption DEF Init, ReceiptsPart, SubmissionsAreSound, RowsApart, TabsApart, DeletionsMatch,
                                AttachmentIsStored, Closed
<1>5. FamiliesApart
  BY <1>3, AbsentAssumption DEF Init, FamiliesApart, ReceiptKeys, Closed, NoDel, CertKeys, NoUp
<1>6. CertificatesPart
  BY DEF Init, CertificatesPart, CertificatesApart, CertificateIsStored, NoUp
<1>7. QED
  BY <1>2, <1>4, <1>5, <1>6 DEF FilesInv

LEMMA NextKeepsInv == FilesInv /\ [Next]_vars => FilesInv'
<1>1. SUFFICES ASSUME FilesInv, [Next]_vars PROVE FilesInv'
  OBVIOUS
<1>2. CASE \E b \in Tabs :
              \/ OpenModal(b) \/ CloseModal(b) \/ \E s \in Sizes : Submit(b, s)
              \/ \E k \in Keys : Presign(b, k)
              \/ QuotaExceeded(b) \/ ReceiptRefused(b) \/ PresignFails(b) \/ PutAnswered(b) \/ PutFails(b)
              \/ \E t \in Txns : Create(b, t) \/ CreateFails(b, t)
  BY <1>1, <1>2, FormSteps, SubmitStep, PresignStep, CreateSteps
<1>3. CASE \E k \in Keys : Stored(k)
  BY <1>1, <1>3, StoredStep
<1>4. CASE \E d \in Deletions :
              \/ \E t \in Txns : DeleteRead(d, t)
              \/ DeleteCommit(d) \/ DeleteFails(d) \/ DeleteFile(d)
  BY <1>1, <1>4, DeletionSteps
<1>5. CASE \E u \in Uploads :
              \/ ReadWorkspace(u) \/ \E k \in Keys : StoreCertificate(u, k)
              \/ CertificateRefused(u) \/ StoreFails(u) \/ UpdateWorkspace(u) \/ UpdateFails(u) \/ Undo(u)
              \/ DeleteOld(u)
  BY <1>1, <1>5, CertificateSteps
<1>6. CASE UNCHANGED vars
  BY <1>1, <1>6 DEF vars, FilesInv, TypeOK, ReceiptsPart, SubmissionsAreSound, RowsApart, TabsApart, DeletionsMatch,
                    AttachmentIsStored, FamiliesApart, ReceiptKeys, CertKeys, CertificatesPart, CertificatesApart,
                    CertificateIsStored, KeysOfRows, Saved
<1>7. QED
  BY <1>1, <1>2, <1>3, <1>4, <1>5, <1>6 DEF Next

-----------------------------------------------------------------------------
(* The quota.                                                              *)

\* The rows of submissions that had no other beside them fit the quota together, whatever the
\* others add and deletions take; and so does such a submission that has been measured and is
\* still under way.
Plain == {t \in Saved : ~ row[t].overlapped}
Sized(S) == SumFunctionOnSet(SizeOf, S)

FewRows == IsFiniteSet(Saved)
PlainFits == Sized(Plain) <= Quota
MeasuredFits ==
    \A b \in Tabs : tab[b].at \in {"put", "create"} /\ ~ tab[b].overlapped => Sized(Plain) + tab[b].size <= Quota
CompanyIsKnown ==
    \A b \in Tabs, c \in Tabs : b # c /\ tab[b].at # "idle" /\ tab[c].at # "idle" => tab[b].overlapped

QuotaInv == FewRows /\ PlainFits /\ MeasuredFits /\ CompanyIsKnown

LEMMA SizesTyped ==
    ASSUME FilesInv, FewRows
    PROVE  /\ \A t \in Saved : SizeOf[t] = row[t].size /\ SizeOf[t] \in Nat
           /\ Plain \subseteq Saved /\ IsFiniteSet(Plain)
           /\ Sized(Plain) \in Int /\ Used \in Int /\ Sized(Plain) <= Used
<1>1. \A t \in Saved : SizeOf[t] = row[t].size /\ SizeOf[t] \in Nat
  BY SizesAssumption DEF SizeOf, Saved, FilesInv, TypeOK, RowType
<1>2. Plain \subseteq Saved
  BY DEF Plain
<1>3. IsFiniteSet(Saved) /\ IsFiniteSet(Plain)
  BY <1>2, FS_Subset DEF FewRows
<1>4. Sized(Plain) \in Int /\ Used \in Int
  BY <1>1, <1>2, <1>3, SumType DEF Sized, Used
<1>5. Sized(Plain) <= Used
  BY <1>1, <1>2, <1>3, SumMonotone DEF Sized, Used
<1>. QED
  BY <1>1, <1>2, <1>3, <1>4, <1>5

\* Rows go, but none comes, and what is under way goes on or ends.
GoesOn(b) ==
    \/ tab'[b].at = "idle"
    \/ /\ tab[b].at # "idle"
       /\ tab'[b].overlapped = tab[b].overlapped /\ tab'[b].size = tab[b].size
       /\ tab'[b].at \in {"put", "create"} => tab[b].at \in {"put", "create"}

LEMMA RowsGo ==
    ASSUME FilesInv, FewRows, \A t \in Saved' : t \in Saved /\ row'[t] = row[t]
    PROVE  FewRows' /\ Sized(Plain)' \in Int /\ Sized(Plain)' <= Sized(Plain)
<1>1. Saved' \subseteq Saved /\ Plain' \subseteq Plain
  BY DEF Plain
<1>2. FewRows'
  BY <1>1, FS_Subset DEF FewRows
<1>3. /\ \A t \in Plain' : SizeOf'[t] = SizeOf[t]
      /\ \A t \in Plain : SizeOf[t] \in Nat
      /\ IsFiniteSet(Plain)
  BY <1>1, SizesTyped DEF SizeOf, Plain
<1>4. IsFiniteSet(Plain')
  BY <1>1, <1>3, FS_Subset
<1>5. Sized(Plain)' = SumFunctionOnSet(SizeOf, Plain')
  BY <1>3, <1>4, SumSame DEF Sized
<1>6. SumFunctionOnSet(SizeOf, Plain') <= Sized(Plain)
  BY <1>1, <1>3, SumMonotone DEF Sized
<1>7. SumFunctionOnSet(SizeOf, Plain') \in Int
  BY <1>1, <1>3, <1>4, SumType
<1>. QED
  BY <1>2, <1>5, <1>6, <1>7

LEMMA SizeIsNumber ==
    ASSUME FilesInv, NEW b \in Tabs
    PROVE  tab[b].size \in Int
<1>. DEFINE s == tab[b].size
<1>1. s \in Sizes \/ s = 0
  BY FormTyped DEF TabType
<1>. HIDE DEF s
<1>2. s \in Nat
  <2>1. ASSUME s \in Sizes PROVE s \in Nat
    BY <2>1, SizesAssumption, Zenon
  <2>. QED
    BY <1>1, <2>1
<1>. QED
  BY <1>2 DEF s

LEMMA QuotaGoesOn ==
    ASSUME FilesInv, QuotaInv, \A t \in Saved' : t \in Saved /\ row'[t] = row[t],
           \A b \in Tabs : GoesOn(b)
    PROVE  QuotaInv'
<1>1. FewRows' /\ Sized(Plain)' \in Int /\ Sized(Plain)' <= Sized(Plain) /\ Sized(Plain) \in Int
  BY RowsGo, SizesTyped DEF QuotaInv
<1>2. PlainFits'
  BY <1>1, SizesAssumption DEF QuotaInv, PlainFits
<1>3. MeasuredFits'
  <2>. SUFFICES ASSUME NEW b \in Tabs, tab'[b].at \in {"put", "create"}, ~ tab'[b].overlapped
                PROVE  Sized(Plain)' + tab'[b].size <= Quota
    BY DEF MeasuredFits
  <2>1. tab[b].at \in {"put", "create"} /\ ~ tab[b].overlapped /\ tab'[b].size = tab[b].size
    BY DEF GoesOn
  <2>2. tab[b].size \in Int
    BY <2>1, SizeIsNumber
  <2>3. Sized(Plain) + tab[b].size <= Quota
    BY <2>1 DEF QuotaInv, MeasuredFits
  <2>. QED
    BY <1>1, <2>1, <2>2, <2>3, SizesAssumption
<1>4. CompanyIsKnown'
  BY DEF CompanyIsKnown, QuotaInv, GoesOn
<1>. QED
  BY <1>1, <1>2, <1>3, <1>4 DEF QuotaInv

LEMMA FormQuota ==
    ASSUME FilesInv, QuotaInv, NEW b \in Tabs, NEW new, TabBecomes(b, new), UNCHANGED row,
           \/ new.at = "idle"
           \/ /\ tab[b].at # "idle" /\ new.overlapped = tab[b].overlapped /\ new.size = tab[b].size
              /\ new.at \in {"put", "create"} => tab[b].at \in {"put", "create"}
    PROVE  QuotaInv'
<1>1. \A c \in Tabs : tab'[c] = IF c = b THEN new ELSE tab[c]
  BY DEF FilesInv, TypeOK, TabBecomes
<1>2. \A c \in Tabs : GoesOn(c)
  BY <1>1 DEF GoesOn
<1>3. Saved' = Saved
  BY DEF Saved
<1>. QED
  BY <1>2, <1>3, QuotaGoesOn

LEMMA FormStepsQuota ==
    ASSUME FilesInv, QuotaInv, NEW b \in Tabs,
           \/ OpenModal(b) \/ QuotaExceeded(b) \/ ReceiptRefused(b) \/ PresignFails(b)
           \/ PutAnswered(b) \/ PutFails(b) \/ CloseModal(b)
    PROVE  QuotaInv'
<1>. USE FormTyped
<1>1. tab[b] \in TabType
  OBVIOUS
<1>2. UNCHANGED row
  BY DEF OpenModal, QuotaExceeded, ReceiptRefused, PresignFails, PutAnswered, PutFails, CloseModal, BrowserOnly
<1>3. CASE OpenModal(b)
  <2>. DEFINE new == [tab[b] EXCEPT !.open = TRUE]
  <2>1. new.at = tab[b].at /\ new.overlapped = tab[b].overlapped /\ new.size = tab[b].size
    BY <1>1 DEF TabType
  <2>. QED
    BY <1>2, <1>3, <2>1, FormQuota DEF OpenModal
<1>4. CASE QuotaExceeded(b) \/ ReceiptRefused(b) \/ PresignFails(b) \/ PutFails(b)
  BY <1>2, <1>4, FormQuota DEF QuotaExceeded, ReceiptRefused, PresignFails, PutFails, Aborted
<1>5. CASE PutAnswered(b)
  <2>. DEFINE new == [tab[b] EXCEPT !.at = "create"]
  <2>1. new.overlapped = tab[b].overlapped /\ new.size = tab[b].size /\ tab[b].at = "put"
    BY <1>1, <1>5 DEF TabType, PutAnswered
  <2>. QED
    BY <1>2, <1>5, <2>1, FormQuota DEF PutAnswered
<1>6. CASE CloseModal(b)
  <2>. DEFINE new == [tab[b] EXCEPT !.open = FALSE]
  <2>1. new.at = tab[b].at /\ new.overlapped = tab[b].overlapped /\ new.size = tab[b].size
    BY <1>1 DEF TabType
  <2>. QED
    BY <1>2, <1>6, <2>1, FormQuota DEF CloseModal
<1>. QED
  BY <1>3, <1>4, <1>5, <1>6

LEMMA SubmitQuota ==
    ASSUME FilesInv, QuotaInv, NEW b \in Tabs, NEW size \in Sizes, Submit(b, size)
    PROVE  QuotaInv'
<1>. DEFINE others == {c \in Tabs \ {b} : tab[c].at # "idle"}
<1>1. /\ tab' = [c \in Tabs |->
               CASE c = b -> [open |-> TRUE, at |-> "presign", key |-> Absent, size |-> size,
                              overlapped |-> others # {}]
                 [] c \in others -> [tab[c] EXCEPT !.overlapped = TRUE]
                 [] OTHER -> tab[c]]
      /\ UNCHANGED row
  BY DEF Submit, BrowserOnly
<1>2. tab'[b].at = "presign" /\ (tab'[b].overlapped <=> others # {})
  BY <1>1
<1>3. ASSUME NEW c \in Tabs \ {b}
      PROVE  \/ tab[c].at # "idle" /\ tab'[c].overlapped /\ tab'[c].at = tab[c].at
             \/ tab[c].at = "idle" /\ tab'[c] = tab[c]
  <2>1. tab[c] \in TabType
    BY DEF FilesInv, TypeOK
  <2>2. CASE c \in others
    <3>1. tab'[c] = [tab[c] EXCEPT !.overlapped = TRUE]
      BY <1>1, <2>2
    <3>. QED
      BY <2>1, <2>2, <3>1 DEF TabType
  <2>3. CASE c \notin others
    BY <1>1, <2>3
  <2>. QED
    BY <2>2, <2>3
<1>4. UNCHANGED <<row, Saved, SizeOf, Plain>>
  BY <1>1 DEF Saved, SizeOf, Plain
<1>5. FewRows' /\ PlainFits'
  BY <1>4 DEF QuotaInv, FewRows, PlainFits, Sized
<1>6. MeasuredFits'
  BY <1>2, <1>3 DEF MeasuredFits
<1>7. CompanyIsKnown'
  BY <1>2, <1>3 DEF CompanyIsKnown
<1>. QED
  BY <1>5, <1>6, <1>7 DEF QuotaInv

LEMMA PresignQuota ==
    ASSUME FilesInv, QuotaInv, NEW b \in Tabs, NEW k \in Keys, Presign(b, k)
    PROVE  QuotaInv'
<1>. DEFINE new == [tab[b] EXCEPT !.at = "put", !.key = k]
<1>1. tab[b] \in TabType
  BY FormTyped
<1>2. /\ tab[b].at = "presign" /\ Used + tab[b].size <= Quota /\ UNCHANGED row
      /\ \A c \in Tabs : tab'[c] = IF c = b THEN new ELSE tab[c]
  BY DEF Presign, Fits, BrowserOnly, TabBecomes, FilesInv, TypeOK
<1>3. new.at = "put" /\ new.size = tab[b].size /\ new.overlapped = tab[b].overlapped
  BY <1>1 DEF TabType
<1>. HIDE DEF new
<1>4. UNCHANGED <<row, Saved, SizeOf, Plain>>
  BY <1>2 DEF Saved, SizeOf, Plain
<1>5. FewRows' /\ PlainFits'
  BY <1>4 DEF QuotaInv, FewRows, PlainFits, Sized
<1>6. Sized(Plain)' = Sized(Plain)
  BY <1>4 DEF Sized
<1>7. tab[b].size \in Int /\ Sized(Plain) + tab[b].size <= Quota
  <2>1. tab[b].size \in Int
    BY <1>2, SizeIsNumber
  <2>2. Sized(Plain) \in Int /\ Used \in Int /\ Sized(Plain) <= Used
    BY SizesTyped DEF QuotaInv
  <2>. QED
    BY <1>2, <2>1, <2>2, SizesAssumption
<1>8. MeasuredFits'
  BY <1>2, <1>3, <1>6, <1>7 DEF QuotaInv, MeasuredFits
<1>9. CompanyIsKnown'
  BY <1>2, <1>3 DEF QuotaInv, CompanyIsKnown
<1>. QED
  BY <1>5, <1>8, <1>9 DEF QuotaInv

\* The row of a submission is added, and the submission ends.
LEMMA RowQuota ==
    ASSUME FilesInv, QuotaInv, NEW b \in Tabs, NEW t \in Txns, tab[b].at = "create", FreshTxn(t),
           row' = [row EXCEPT ![t] = RowOf(b)], NEW new, new.at = "idle", TabBecomes(b, new)
    PROVE  QuotaInv'
<1>. DEFINE r == RowOf(b)
<1>1. /\ r.size = tab[b].size /\ r.overlapped = tab[b].overlapped /\ r \in RowType /\ tab[b].size \in Nat
  BY SizesAssumption DEF FilesInv, TypeOK, ReceiptsPart, SubmissionsAreSound, RowOf, RowType, TabType
<1>2. /\ \A v \in Txns : row'[v] = IF v = t THEN r ELSE row[v]
      /\ \A c \in Tabs : tab'[c] = IF c = b THEN new ELSE tab[c]
      /\ row[t] = Absent
  BY DEF FilesInv, TypeOK, TabBecomes, FreshTxn
<1>. HIDE DEF r
<1>3. t \notin Saved /\ Saved' \subseteq Saved \cup {t} /\ \A v \in Saved : v \in Saved' /\ row'[v] = row[v]
  BY <1>2 DEF Saved
<1>4. FewRows'
  <2>1. IsFiniteSet(Saved \cup {t})
    BY FS_AddElement DEF QuotaInv, FewRows
  <2>. QED
    BY <1>3, <2>1, FS_Subset DEF FewRows
<1>5. \A v \in Plain : SizeOf'[v] = SizeOf[v] /\ SizeOf[v] \in Nat
  BY <1>3, SizesTyped DEF SizeOf, Plain, QuotaInv
<1>6. IsFiniteSet(Plain) /\ Sized(Plain) \in Int
  BY SizesTyped DEF QuotaInv
<1>7. SumFunctionOnSet(SizeOf', Plain) = Sized(Plain)
  BY <1>5, <1>6, SumSame DEF Sized
<1>8. CASE tab[b].overlapped \/ t \notin Saved'
  <2>1. Plain' = Plain
    BY <1>1, <1>2, <1>3, <1>8 DEF Plain
  <2>2. Sized(Plain)' = Sized(Plain)
    BY <1>7, <2>1 DEF Sized
  <2>3. PlainFits'
    BY <2>2 DEF QuotaInv, PlainFits
  <2>4. MeasuredFits' /\ CompanyIsKnown'
    BY <1>2, <2>2 DEF QuotaInv, MeasuredFits, CompanyIsKnown
  <2>. QED
    BY <1>4, <2>3, <2>4 DEF QuotaInv
<1>9. CASE ~ tab[b].overlapped /\ t \in Saved'
  <2>1. Plain' = Plain \cup {t} /\ t \notin Plain
    BY <1>1, <1>2, <1>3, <1>9 DEF Plain
  <2>2. SizeOf'[t] = tab[b].size
    BY <1>1, <1>2, <1>9 DEF SizeOf
  <2>3. SumFunctionOnSet(SizeOf', Plain \cup {t}) = SizeOf'[t] + SumFunctionOnSet(SizeOf', Plain)
    <3>1. (\A v \in Plain : SizeOf'[v] \in Int) /\ SizeOf'[t] \in Int
      BY <1>1, <1>5, <2>2
    <3>. HIDE DEF Plain
    <3>. QED
      BY <1>6, <2>1, <3>1, SumWith
  <2>4. Sized(Plain)' = Sized(Plain) + tab[b].size
    BY <1>1, <1>6, <1>7, <2>1, <2>2, <2>3 DEF Sized
  <2>5. Sized(Plain) + tab[b].size <= Quota
    BY <1>9 DEF QuotaInv, MeasuredFits
  <2>6. PlainFits'
    BY <2>4, <2>5 DEF PlainFits
  <2>7. \A c \in Tabs : tab'[c].at = "idle"
    BY <1>2, <1>9 DEF QuotaInv, CompanyIsKnown
  <2>8. MeasuredFits' /\ CompanyIsKnown'
    BY <2>7 DEF MeasuredFits, CompanyIsKnown
  <2>. QED
    BY <1>4, <2>6, <2>8 DEF QuotaInv
<1>. QED
  BY <1>8, <1>9

LEMMA CreateQuota ==
    ASSUME FilesInv, QuotaInv, NEW b \in Tabs, NEW t \in Txns, Create(b, t) \/ CreateFails(b, t)
    PROVE  QuotaInv'
<1>. USE FormTyped
<1>1. CASE row' = row
  BY <1>1, FormQuota DEF Create, CreateFails
<1>2. CASE row' = [row EXCEPT ![t] = RowOf(b)]
  BY <1>2, RowQuota DEF Create, CreateFails
<1>. QED
  BY <1>1, <1>2 DEF Create, CreateFails

LEMMA DeletionQuota ==
    ASSUME FilesInv, QuotaInv, UNCHANGED tab, NEW d \in Deletions,
           row' = row \/ row' = [row EXCEPT ![del[d].txn] = Absent]
    PROVE  QuotaInv'
<1>1. \A t \in Saved' : t \in Saved /\ row'[t] = row[t]
  BY DEF Saved, FilesInv, TypeOK
<1>2. \A b \in Tabs : GoesOn(b)
  BY DEF GoesOn
<1>. QED
  BY <1>1, <1>2, QuotaGoesOn

LEMMA QuotaStep == FilesInv /\ QuotaInv /\ [Next]_vars => QuotaInv'
<1>. SUFFICES ASSUME FilesInv, QuotaInv, [Next]_vars PROVE QuotaInv'
  OBVIOUS
<1>1. CASE UNCHANGED <<row, tab>>
  <2>1. UNCHANGED <<row, tab, Saved, SizeOf, Plain>>
    BY <1>1 DEF Saved, SizeOf, Plain
  <2>. QED
    BY <2>1 DEF QuotaInv, FewRows, PlainFits, MeasuredFits, CompanyIsKnown, Sized
<1>2. CASE \E b \in Tabs :
              \/ OpenModal(b) \/ CloseModal(b) \/ \E s \in Sizes : Submit(b, s)
              \/ \E k \in Keys : Presign(b, k)
              \/ QuotaExceeded(b) \/ ReceiptRefused(b) \/ PresignFails(b) \/ PutAnswered(b) \/ PutFails(b)
              \/ \E t \in Txns : Create(b, t) \/ CreateFails(b, t)
  BY <1>2, FormStepsQuota, SubmitQuota, PresignQuota, CreateQuota
<1>3. CASE \E k \in Keys : Stored(k)
  BY <1>3, <1>1 DEF Stored
<1>4. CASE \E d \in Deletions :
              \/ \E t \in Txns : DeleteRead(d, t)
              \/ DeleteCommit(d) \/ DeleteFails(d) \/ DeleteFile(d)
  BY <1>4, DeletionQuota DEF DeleteRead, DeleteCommit, DeleteFails, DeleteFile, ServerOnly
<1>5. CASE \E u \in Uploads :
              \/ ReadWorkspace(u) \/ \E k \in Keys : StoreCertificate(u, k)
              \/ CertificateRefused(u) \/ StoreFails(u) \/ UpdateWorkspace(u) \/ UpdateFails(u) \/ Undo(u)
              \/ DeleteOld(u)
  BY <1>5, <1>1 DEF ReadWorkspace, StoreCertificate, CertificateRefused, StoreFails, UpdateWorkspace, UpdateFails,
                    Undo, DeleteOld, RowsOnly, ServerOnly
<1>6. CASE UNCHANGED vars
  BY <1>6, <1>1 DEF vars
<1>. QED
  BY <1>2, <1>3, <1>4, <1>5, <1>6 DEF Next

\* Only submissions that were under way together can take the receipts over the quota.
LEMMA QuotaInvSuffices == FilesInv /\ QuotaInv => QuotaHolds
<1>. SUFFICES ASSUME FilesInv, QuotaInv, ~ \E t \in Saved : row[t].overlapped PROVE Used <= Quota
  BY DEF QuotaHolds
<1>1. Plain = Saved
  BY DEF Plain
<1>. QED
  BY <1>1 DEF QuotaInv, PlainFits, Sized, Used

LEMMA QuotaInit == Init => QuotaInv
<1>. SUFFICES ASSUME Init PROVE QuotaInv
  OBVIOUS
<1>1. Saved = {} /\ Plain = {}
  BY DEF Init, Saved, Plain
<1>2. FewRows /\ Sized(Plain) = 0
  BY <1>1, FS_EmptySet, SumOfNone DEF FewRows, Sized
<1>. QED
  BY <1>2, SizesAssumption DEF Init, QuotaInv, PlainFits, MeasuredFits, CompanyIsKnown, Closed

-----------------------------------------------------------------------------
(* Theorems.                                                               *)

\* Who holds which key, on every path of an upload, a deletion or a replacement.
THEOREM FilesInvariant == Spec => []FilesInv
BY InitInv, NextKeepsInv, PTL DEF Spec

\* Rows, keys and the requests in flight keep their types.
THEOREM FilesTypeCorrect == Spec => []TypeOK
<1>1. FilesInv => TypeOK
  BY DEF FilesInv
<1>2. QED
  BY <1>1, FilesInvariant, PTL

\* TransactionService.delete and useTransactionMutation never leave a row whose receipt is gone
\* or never came, however submissions and deletions fail or overlap.
THEOREM ReceiptsAreThere == Spec => []AttachmentIsStored
<1>1. FilesInv => AttachmentIsStored
  BY DEF FilesInv, ReceiptsPart
<1>2. QED
  BY <1>1, FilesInvariant, PTL

\* WorkspaceService.uploadCertificate never leaves the workspace without the certificate it
\* names, unless the update went through unanswered.
THEOREM CertificatesAreThere == Spec => []CertificateIsStored
<1>1. FilesInv => CertificateIsStored
  BY DEF FilesInv, CertificatesPart
<1>2. QED
  BY <1>1, FilesInvariant, PTL

\* UploadService signs an upload only if the saved receipts leave room for it: what submissions
\* that met no other have saved never exceeds the quota.
THEOREM QuotaIsKept == Spec => []QuotaHolds
BY QuotaInit, QuotaStep, QuotaInvSuffices, FilesInvariant, PTL DEF Spec

-----------------------------------------------------------------------------
(* The viewer beside the files.                                            *)

\* The link and the file of a press are those of its transaction's receipt, as long as that is there.
LinkIsOwn ==
    \A p \in Presses : press[p].at \in {"signed", "fetch"} =>
        /\ press[p].txn \in Txns /\ press[p].key \in Keys
        /\ press[p].txn \in Saved => row[press[p].txn].key = press[p].key

\* So is the link the viewer has, unless a message or a spinner is in front of it.
LinkOfSelected ==
    viewer.selected \in Saved /\ viewer.link \in Keys /\ ~ viewer.linkError /\ ~ viewer.loading =>
        row[viewer.selected].key = viewer.link

\* Only the file the viewer's link is for is still awaited.
ActiveIsLinked ==
    \A p \in Presses : press[p].active => press[p].at = "fetch" /\ press[p].key = viewer.link

BlobOfLink ==
    viewer.blob # Absent =>
        /\ viewer.link \in Keys
        /\ ~ viewer.fetching /\ ~ viewer.fileError => viewer.blob = viewer.link

ViewerInv == VTypeOK /\ LinkIsOwn /\ LinkOfSelected /\ ActiveIsLinked /\ BlobOfLink

\* A row is made once and never names another receipt.
LEMMA RowsStay ==
    ASSUME TypeOK, Next, NEW t \in Txns, row[t] # Absent, row'[t] # Absent
    PROVE  row'[t] = row[t]
<1>1. CASE UNCHANGED row
  BY <1>1
<1>2. ASSUME NEW v \in Txns, NEW new, row' = [row EXCEPT ![v] = new], row[v] = Absent \/ new = Absent
      PROVE  row'[t] = row[t]
  BY <1>2 DEF TypeOK
<1>3. ASSUME NEW b \in Tabs, NEW v \in Txns, Create(b, v) \/ CreateFails(b, v) PROVE row'[t] = row[t]
  BY <1>1, <1>2, <1>3 DEF Create, CreateFails, FreshTxn
<1>4. ASSUME NEW d \in Deletions, DeleteCommit(d) PROVE row'[t] = row[t]
  BY <1>2, <1>4 DEF DeleteCommit, Saved
<1>5. QED
  BY <1>1, <1>3, <1>4 DEF Next, OpenModal, CloseModal, Submit, Presign, QuotaExceeded, ReceiptRefused, PresignFails,
     PutAnswered, PutFails, Stored, DeleteRead, DeleteFails, DeleteFile, ReadWorkspace, StoreCertificate,
     CertificateRefused, StoreFails, UpdateWorkspace, UpdateFails, Undo, DeleteOld, BrowserOnly, RowsOnly

\* What the page holds is not used again.
LEMMA HeldStays ==
    ASSUME TypeOK, FilesStep, NEW t \in HeldTxns, t \in Saved', t \in Txns
    PROVE  t \in Saved /\ row'[t] = row[t]
<1>1. t \in Saved
  BY DEF FilesStep, NothingReused
<1>2. QED
  BY <1>1, RowsStay DEF FilesStep, Saved

LEMMA FilesStepView == TypeOK /\ ViewerInv /\ FilesStep => ViewerInv'
<1>. SUFFICES ASSUME TypeOK, ViewerInv, FilesStep PROVE ViewerInv'
  OBVIOUS
<1>1. press' = press /\ viewer' = viewer
  BY DEF FilesStep
<1>2. LinkIsOwn'
  <2>. SUFFICES ASSUME NEW p \in Presses, press[p].at \in {"signed", "fetch"}, press[p].txn \in Saved'
                PROVE  row'[press[p].txn].key = press[p].key
    BY <1>1 DEF ViewerInv, LinkIsOwn
  <2>1. press[p].txn \in HeldTxns
    BY DEF HeldTxns
  <2>2. QED
    BY <2>1, HeldStays DEF ViewerInv, LinkIsOwn
<1>3. LinkOfSelected'
  <2>. SUFFICES ASSUME viewer.selected \in Saved', viewer.link \in Keys, ~ viewer.linkError, ~ viewer.loading
                PROVE  row'[viewer.selected].key = viewer.link
    BY <1>1 DEF LinkOfSelected
  <2>1. viewer.selected \in HeldTxns /\ viewer.selected \in Txns
    BY DEF HeldTxns, Saved
  <2>2. QED
    BY <2>1, HeldStays DEF ViewerInv, LinkOfSelected
<1>4. QED
  BY <1>1, <1>2, <1>3 DEF ViewerInv, VTypeOK, ActiveIsLinked, BlobOfLink

\* The viewer's own steps leave the files alone.
LEMMA FilesAlone ==
    ASSUME StorageOnly \/ FaultOnly
    PROVE  row' = row /\ object' = object /\ Saved' = Saved
BY DEF StorageOnly, FaultOnly, vars, Saved

\* A press that is over holds nothing.
LEMMA OverTyped == \A at \in {"unused", "asked", "done"} : Became(at) \in PressType /\ ~ Became(at).active
BY DEF Became, PressType, MaybeKey

LEMMA PreviewStep ==
    ASSUME ViewerInv, NEW p \in Presses, NEW t \in Txns, Preview(p, t)
    PROVE  ViewerInv'
<1>. DEFINE new == [Became("asked") EXCEPT !.txn = t]
<1>1. press' = [press EXCEPT ![p] = new] /\ new \in PressType /\ new.at = "asked" /\ ~ new.active
  BY DEF Preview, PressBecomes, Became, PressType, MaybeKey
<1>2. viewer' = [viewer EXCEPT !.loading = TRUE, !.linkError = FALSE] /\ StorageOnly
  BY DEF Preview
<1>. HIDE DEF new
<1>3. QED
  BY <1>1, <1>2, FilesAlone, ZenonT(40) DEF ViewerInv, VTypeOK, ViewerType, PressType, LinkIsOwn, LinkOfSelected, ActiveIsLinked, BlobOfLink

LEMMA SignStep ==
    ASSUME TypeOK, ViewerInv, NEW p \in Presses, SignLink(p)
    PROVE  ViewerInv'
<1>1. PICK new : press' = [press EXCEPT ![p] = new] /\ new \in PressType /\ ~ new.active
                 /\ new.at \in {"signed", "refused"}
                 /\ (new.at = "signed" => /\ new.txn \in Saved /\ new.txn \in Txns
                                          /\ new.key = row[new.txn].key /\ new.key \in Keys)
  <2>. DEFINE t == press[p].txn
  <2>1. press[p] \in PressType /\ ~ press[p].active
    BY DEF ViewerInv, VTypeOK, ActiveIsLinked, SignLink
  <2>2. CASE t \in Saved
    <3>1. row[t].key \in Keys /\ t \in Txns
      BY <2>2 DEF TypeOK, Saved, RowType
    <3>. DEFINE signed == [press[p] EXCEPT !.at = "signed", !.key = row[t].key]
    <3>2. press' = [press EXCEPT ![p] = signed]
      BY <2>2 DEF SignLink, PressBecomes
    <3>3. signed \in PressType /\ ~ signed.active /\ signed.at = "signed" /\ signed.txn = t /\ signed.key = row[t].key
      BY <2>1, <3>1 DEF PressType, MaybeKey
    <3>4. QED
      BY <2>2, <3>1, <3>2, <3>3
  <2>3. CASE t \notin Saved
    <3>. DEFINE refused == [press[p] EXCEPT !.at = "refused"]
    <3>2. press' = [press EXCEPT ![p] = refused]
      BY <2>3 DEF SignLink, PressBecomes
    <3>3. refused \in PressType /\ ~ refused.active /\ refused.at = "refused"
      BY <2>1 DEF PressType
    <3>4. QED
      BY <3>2, <3>3
  <2>4. QED
    BY <2>2, <2>3
<1>2. viewer' = viewer /\ StorageOnly
  BY DEF SignLink
<1>3. QED
  BY <1>1, <1>2, FilesAlone DEF ViewerInv, VTypeOK, LinkIsOwn, LinkOfSelected, ActiveIsLinked, BlobOfLink

LEMMA DeactivatedFits ==
    ASSUME ViewerInv
    PROVE  /\ Deactivated \in [Presses -> PressType]
           /\ \A q \in Presses : /\ ~ Deactivated[q].active /\ Deactivated[q].at = press[q].at
                                 /\ Deactivated[q].txn = press[q].txn /\ Deactivated[q].key = press[q].key
BY DEF Deactivated, ViewerInv, VTypeOK, PressType

LEMMA OpenStep ==
    ASSUME ViewerInv, NEW p \in Presses, OpenLink(p)
    PROVE  ViewerInv'
<1>. DEFINE all == Deactivated
<1>1. /\ all \in [Presses -> PressType]
      /\ \A q \in Presses : ~ all[q].active /\ all[q].at = press[q].at /\ all[q].txn = press[q].txn /\ all[q].key = press[q].key
  BY DeactivatedFits
<1>2. press' = [all EXCEPT ![p].at = "fetch", ![p].active = TRUE]
  BY DEF OpenLink
<1>3. viewer' = [viewer EXCEPT !.selected = press[p].txn, !.link = press[p].key, !.loading = FALSE,
                               !.fetching = TRUE, !.fileError = FALSE]
  BY DEF OpenLink
<1>4. press[p].at = "signed" /\ press[p].txn \in Txns /\ press[p].key \in Keys /\ StorageOnly
      /\ (press[p].txn \in Saved => row[press[p].txn].key = press[p].key)
  BY DEF OpenLink, ViewerInv, LinkIsOwn
<1>. HIDE DEF all
<1>5. \A q \in Presses : /\ press'[q].txn = press[q].txn /\ press'[q].key = press[q].key
                         /\ press'[q].at = IF q = p THEN "fetch" ELSE press[q].at
                         /\ press'[q].active = (q = p)
  <2>. SUFFICES ASSUME NEW q \in Presses
                PROVE  /\ press'[q].txn = press[q].txn /\ press'[q].key = press[q].key
                       /\ press'[q].at = IF q = p THEN "fetch" ELSE press[q].at
                       /\ press'[q].active = (q = p)
    OBVIOUS
  <2>1. CASE q = p
    BY <1>1, <1>2, <2>1 DEF PressType
  <2>2. CASE q # p
    BY <1>1, <1>2, <2>2 DEF PressType
  <2>3. QED
    BY <2>1, <2>2
<1>6. press' \in [Presses -> PressType]
  BY <1>1, <1>2 DEF PressType
<1>7. /\ viewer'.selected = press[p].txn /\ viewer'.link = press[p].key /\ viewer'.fetching = TRUE
      /\ viewer' \in ViewerType
  BY <1>3, <1>4 DEF ViewerInv, VTypeOK, ViewerType, MaybeKey
<1>8. LinkIsOwn'
  BY <1>4, <1>5, FilesAlone DEF ViewerInv, LinkIsOwn
<1>9. ActiveIsLinked'
  BY <1>5, <1>7 DEF ActiveIsLinked
<1>10. QED
  BY <1>4, <1>6, <1>7, <1>8, <1>9, FilesAlone DEF ViewerInv, VTypeOK, LinkOfSelected, BlobOfLink

\* A press that is over takes part in nothing.
LEMMA PressOver ==
    ASSUME ViewerInv, NEW p \in Presses, PressBecomes(p, Became("done")), StorageOnly \/ FaultOnly
    PROVE  /\ press' \in [Presses -> PressType]
           /\ LinkIsOwn'
           /\ viewer'.link = viewer.link => ActiveIsLinked'
BY FilesAlone, OverTyped DEF ViewerInv, VTypeOK, PressBecomes, Became, LinkIsOwn, ActiveIsLinked

LEMMA SameLinkStep ==
    ASSUME ViewerInv, NEW p \in Presses, SameLink(p)
    PROVE  ViewerInv'
<1>1. viewer' = [viewer EXCEPT !.selected = press[p].txn, !.loading = FALSE]
  BY DEF SameLink
<1>2. press[p].txn \in Txns /\ press[p].key = viewer.link
      /\ (press[p].txn \in Saved => row[press[p].txn].key = press[p].key)
  BY DEF SameLink, ViewerInv, LinkIsOwn
<1>3. /\ viewer' \in ViewerType /\ viewer'.selected = press[p].txn /\ viewer'.link = viewer.link
      /\ viewer'.blob = viewer.blob /\ viewer'.fetching = viewer.fetching /\ viewer'.fileError = viewer.fileError
  BY <1>1, <1>2 DEF ViewerInv, VTypeOK, ViewerType
<1>4. QED
  BY <1>2, <1>3, PressOver, FilesAlone DEF SameLink, ViewerInv, VTypeOK, LinkOfSelected, BlobOfLink

LEMMA LinkErrorStep ==
    ASSUME ViewerInv, NEW p \in Presses, LinkRefused(p) \/ LinkFails(p)
    PROVE  ViewerInv'
<1>1. ShowsLinkError(p) /\ (StorageOnly \/ FaultOnly)
  BY DEF LinkRefused, LinkFails
<1>2. viewer' = [viewer EXCEPT !.selected = press[p].txn, !.loading = FALSE, !.linkError = TRUE]
  BY <1>1 DEF ShowsLinkError
<1>3. press[p].txn \in Txns \cup {Absent}
  BY DEF ViewerInv, VTypeOK, PressType
<1>4. /\ viewer' \in ViewerType /\ viewer'.linkError = TRUE /\ viewer'.link = viewer.link
      /\ viewer'.blob = viewer.blob /\ viewer'.fetching = viewer.fetching /\ viewer'.fileError = viewer.fileError
  BY <1>2, <1>3 DEF ViewerInv, VTypeOK, ViewerType
<1>5. QED
  BY <1>1, <1>4, PressOver DEF ShowsLinkError, ViewerInv, VTypeOK, LinkOfSelected, BlobOfLink

LEMMA FileStep ==
    ASSUME ViewerInv, NEW p \in Presses, FileArrives(p) \/ FileFails(p)
    PROVE  ViewerInv'
<1>1. PressBecomes(p, Became("done")) /\ (StorageOnly \/ FaultOnly) /\ press[p].at = "fetch" /\ press[p].key \in Keys
  BY DEF FileArrives, FileFails, ViewerGets, ViewerInv, LinkIsOwn
<1>2. press' \in [Presses -> PressType] /\ LinkIsOwn' /\ (viewer'.link = viewer.link => ActiveIsLinked')
  BY <1>1, PressOver
<1>3. CASE viewer' = viewer
  BY <1>1, <1>2, <1>3, FilesAlone DEF ViewerInv, VTypeOK, LinkOfSelected, BlobOfLink
<1>4. CASE press[p].active /\ viewer' = [viewer EXCEPT !.blob = press[p].key, !.fetching = FALSE]
  <2>1. press[p].key = viewer.link
    BY <1>4 DEF ViewerInv, ActiveIsLinked
  <2>2. /\ viewer' \in ViewerType /\ viewer'.selected = viewer.selected /\ viewer'.link = viewer.link
        /\ viewer'.linkError = viewer.linkError /\ viewer'.loading = viewer.loading /\ viewer'.blob = viewer.link
    BY <1>1, <1>4, <2>1 DEF ViewerInv, VTypeOK, ViewerType, MaybeKey
  <2>3. QED
    BY <1>1, <1>2, <2>1, <2>2, FilesAlone DEF ViewerInv, VTypeOK, LinkOfSelected, BlobOfLink
<1>5. CASE press[p].active /\ viewer' = [viewer EXCEPT !.fileError = TRUE, !.fetching = FALSE]
  <2>1. /\ viewer' \in ViewerType /\ viewer'.selected = viewer.selected /\ viewer'.link = viewer.link
        /\ viewer'.linkError = viewer.linkError /\ viewer'.loading = viewer.loading /\ viewer'.blob = viewer.blob
        /\ viewer'.fileError = TRUE
    BY <1>5 DEF ViewerInv, VTypeOK, ViewerType
  <2>2. QED
    BY <1>1, <1>2, <2>1, FilesAlone DEF ViewerInv, VTypeOK, LinkOfSelected, BlobOfLink
<1>6. QED
  BY <1>3, <1>4, <1>5 DEF FileArrives, FileFails, ViewerGets, Awaited

LEMMA CloseStep == ViewerInv /\ CloseViewer => ViewerInv'
<1>. SUFFICES ASSUME ViewerInv, CloseViewer PROVE ViewerInv'
  OBVIOUS
<1>1. /\ press' \in [Presses -> PressType]
      /\ \A q \in Presses : /\ ~ press'[q].active /\ press'[q].at = press[q].at
                            /\ press'[q].txn = press[q].txn /\ press'[q].key = press[q].key
  BY DeactivatedFits DEF CloseViewer
<1>2. viewer' \in ViewerType /\ viewer'.blob = Absent /\ viewer'.link = Absent
  BY DEF CloseViewer, ClosePreview, ViewerType, MaybeKey, ViewerInv, VTypeOK
<1>3. QED
  BY <1>1, <1>2, AbsentAssumption, FilesAlone
     DEF CloseViewer, ViewerInv, VTypeOK, LinkIsOwn, LinkOfSelected, ActiveIsLinked, BlobOfLink

LEMMA ViewerInitInv == VInit => ViewerInv
BY AbsentAssumption DEF VInit, ViewerInv, VTypeOK, Became, PressType, NoViewer, ViewerType, MaybeKey, LinkIsOwn, LinkOfSelected,
   ActiveIsLinked, BlobOfLink

LEMMA ViewerNextKeepsInv == TypeOK /\ ViewerInv /\ [VNext]_viewerVars => ViewerInv'
<1>1. ASSUME ViewerInv, UNCHANGED viewerVars PROVE ViewerInv'
  BY <1>1 DEF viewerVars, vars, ViewerInv, VTypeOK, LinkIsOwn, LinkOfSelected, ActiveIsLinked, BlobOfLink, Saved
<1>2. QED
  BY <1>1, FilesStepView, PreviewStep, SignStep, OpenStep, SameLinkStep, LinkErrorStep, FileStep, CloseStep DEF VNext

\* A step of the viewer is a failure, or nothing, to the files.
LEMMA ViewerStepsOverFiles == [VNext]_viewerVars => [Next]_vars \/ FaultOnly
BY DEF VNext, FilesStep, Preview, SignLink, OpenLink, SameLink, LinkRefused, LinkFails, FileArrives, FileFails,
   CloseViewer, StorageOnly, viewerVars

\* A failure of the viewer's requests counts as one and changes no file.
LEMMA ViewerFault == FilesInv /\ QuotaInv /\ FaultOnly => FilesInv' /\ QuotaInv'
<1>. SUFFICES ASSUME FilesInv, QuotaInv, FaultOnly PROVE FilesInv' /\ QuotaInv'
  OBVIOUS
<1>1. faults' \in 0..MaxFaults
  BY FaultsAssumption DEF FaultOnly, Fault, FilesInv, TypeOK
<1>2. FilesInv'
  BY <1>1 DEF FaultOnly, FilesInv, TypeOK, ReceiptsPart, SubmissionsAreSound, RowsApart, TabsApart, DeletionsMatch,
              AttachmentIsStored, FamiliesApart, ReceiptKeys, CertKeys, CertificatesPart, CertificatesApart,
              CertificateIsStored, KeysOfRows, Saved
<1>3. Plain' = Plain /\ Saved' = Saved /\ SizeOf' = SizeOf
  BY DEF FaultOnly, Plain, Saved, SizeOf
<1>4. Sized(Plain)' = Sized(Plain)
  BY <1>3 DEF Sized
<1>5. QuotaInv'
  BY <1>3, <1>4 DEF FaultOnly, QuotaInv, FewRows, PlainFits, MeasuredFits, CompanyIsKnown
<1>6. QED
  BY <1>2, <1>5

LEMMA ViewerInvariant == VSpec => [](FilesInv /\ QuotaInv /\ ViewerInv)
<1>1. VInit => FilesInv /\ QuotaInv /\ ViewerInv
  BY InitInv, QuotaInit, ViewerInitInv DEF VInit
<1>2. FilesInv /\ QuotaInv /\ ViewerInv /\ [VNext]_viewerVars => (FilesInv /\ QuotaInv /\ ViewerInv)'
  <2>1. FilesInv => TypeOK
    BY DEF FilesInv
  <2>2. QED
    BY <2>1, ViewerNextKeepsInv, ViewerStepsOverFiles, NextKeepsInv, QuotaStep, ViewerFault
<1>3. QED
  BY <1>1, <1>2, PTL DEF VSpec

\* TransactionHistoryPage, RecentTransactions, useAttachment and AttachmentPreview show the receipt
\* of the transaction that is selected, whatever order links and files come in, whichever fail,
\* and whatever is deleted meanwhile.
THEOREM PreviewShowsItsReceipt == VSpec => []PreviewIsItsOwn
<1>1. ViewerInv => PreviewIsItsOwn
  BY DEF ViewerInv, LinkOfSelected, BlobOfLink, PreviewIsItsOwn, Rendered
<1>2. QED
  BY <1>1, ViewerInvariant, PTL

\* The presses and the viewer's state keep their types.
THEOREM ViewerTypeCorrect == VSpec => [](TypeOK /\ VTypeOK)
<1>1. FilesInv /\ ViewerInv => TypeOK /\ VTypeOK
  BY DEF FilesInv, ViewerInv
<1>2. QED
  BY <1>1, ViewerInvariant, PTL

\* The promises about the files hold with the viewer beside them.
THEOREM FilesBesideTheViewer == VSpec => [](AttachmentIsStored /\ CertificateIsStored /\ QuotaHolds)
<1>1. FilesInv /\ QuotaInv => AttachmentIsStored /\ CertificateIsStored /\ QuotaHolds
  BY QuotaInvSuffices DEF FilesInv, ReceiptsPart, CertificatesPart
<1>2. QED
  BY <1>1, ViewerInvariant, PTL

-----------------------------------------------------------------------------
(* Export.  What a request may carry, by what it read and by its file.     *)

HoldsRows == {"vMapping", "gConfig", "gRows", "gMapping", "upload", "commit", "cleanUp"}

\* What was read of the transactions that did not change since; a validated request has
\* nothing but exportable rows.
RowsFit(q) ==
    /\ q.at \in HoldsRows \/ q.said = "file" =>
          \A t \in q.untouched :
              /\ t \in DOMAIN q.rows <=> InPeriod(t, q.period)
              /\ t \in DOMAIN q.rows => q.rows[t] = txn[t]
    /\ q.at \in {"gConfig", "gRows"} => \A t \in DOMAIN q.rows : Exportable(q.rows[t])

\* As long as nothing changed, what was read is what there is, and the lines can be made of it.
CalmFits(q) ==
    q.calm =>
        /\ q.at \in {"vRows", "vMapping", "gConfig", "gRows", "gMapping"} => q.config = ActiveConfig
        /\ q.at \in {"vMapping", "gConfig", "gRows"} => q.rows = RowsOf(q.period)
        /\ q.at \in {"gConfig", "gRows"} => ~ Blocked(q.config, q.rows)
        /\ q.at = "gMapping" => \A t \in DOMAIN q.rows : ~ LineFails(q.config, q.rows[t])
        /\ q.said = "error" => ~ cnpj

\* A file between its upload and its row has no row, unless the database committed without
\* saying so; what is handed over has one.
Unrecorded == {"commit", "cleanUp"}
KeyFits(q) ==
    /\ q.at \in Unrecorded => q.key \in object
    /\ q.at = "commit" => q.key \notin DOMAIN archive \cup doubtful
    /\ q.at = "cleanUp" /\ q.key \in DOMAIN archive => q.key \in doubtful
    /\ q.said = "file" => q.key \in DOMAIN archive \ doubtful /\ archive[q.key] = DOMAIN q.rows
    /\ q.at = "sign" \/ q.said = "url" => q.key \in DOMAIN archive

SaidLast == \A r \in Requests : req[r].said # "nothing" => req[r].at = "reply"
DataAgree == \A r \in Requests : RowsFit(req[r]) /\ CalmFits(req[r])
KeysAgree == \A r \in Requests : KeyFits(req[r])
FilesApart ==
    \A r, s \in Requests :
        req[r].at \in Unrecorded /\ req[s].at \in Unrecorded /\ req[r].key = req[s].key => r = s
RecordedIsStored == DOMAIN archive \ doubtful \subseteq object

ExportInv ==
    ExportTypeOK /\ SaidLast /\ DataAgree /\ KeysAgree /\ FilesApart /\ RecordedIsStored

\* One request becomes another, whatever happens to the files.
LEMMA RequestChanges ==
    ASSUME ExportInv, NEW r \in Requests, NEW new \in Request, Become(r, new), UNCHANGED data,
           new.said # "nothing" => new.at = "reply",
           RowsFit(new), CalmFits(new)
    PROVE  /\ \A c \in Requests : req'[c] = IF c = r THEN new ELSE req[c]
           /\ req' \in [Requests -> Request]
           /\ SaidLast' /\ DataAgree'
<1>1. \A c \in Requests : req'[c] = IF c = r THEN new ELSE req[c]
  BY DEF ExportInv, ExportTypeOK, Become
<1>2. req' \in [Requests -> Request]
  BY DEF ExportInv, ExportTypeOK, Become
<1>3. SaidLast'
  BY <1>1 DEF ExportInv, SaidLast
<1>4. txn' = txn /\ config' = config /\ mapping' = mapping /\ cnpj' = cnpj
  BY DEF data
<1>5. \A c \in Requests : RowsFit(req[c])'
  BY <1>1, <1>4 DEF ExportInv, DataAgree, RowsFit, InPeriod
<1>6. \A c \in Requests : CalmFits(req[c])'
  <2>. SUFFICES ASSUME NEW c \in Requests, req'[c].calm PROVE CalmFits(req[c])'
    BY DEF CalmFits
  <2>1. CalmFits(req'[c])
    BY <1>1 DEF ExportInv, DataAgree
  <2>2. req'[c].at \in {"vRows", "vMapping", "gConfig", "gRows", "gMapping"} => req'[c].config = ActiveConfig'
    BY <1>4, <2>1 DEF CalmFits, ActiveConfig
  <2>3. req'[c].at \in {"vMapping", "gConfig", "gRows"} => (req[c].rows = RowsOf(req[c].period))'
    BY <1>4, <2>1 DEF CalmFits, RowsOf, InPeriod
  <2>4. req'[c].at \in {"gConfig", "gRows"} => ~ Blocked(req[c].config, req[c].rows)'
    BY <1>4, <2>1 DEF CalmFits, Blocked, BlocksRow, ActiveMapping, LacksHistoryCode
  <2>5. req'[c].at = "gMapping" => (\A t \in DOMAIN req[c].rows : ~ LineFails(req[c].config, req[c].rows[t]))'
    BY <1>4, <2>1 DEF CalmFits, LineFails, ActiveMapping, LacksHistoryCode
  <2>6. req'[c].said = "error" => ~ cnpj'
    BY <1>4, <2>1 DEF CalmFits
  <2>7. QED
    BY <2>2, <2>3, <2>4, <2>5, <2>6 DEF CalmFits
<1>7. QED
  BY <1>1, <1>2, <1>3, <1>5, <1>6 DEF DataAgree

\* The same, with the files left alone.
LEMMA RequestReads ==
    ASSUME ExportInv, NEW r \in Requests, NEW new \in Request, Become(r, new),
           UNCHANGED <<data, object, archive, doubtful>>, edits' = edits,
           faults' \in 0..MaxFaults,
           modal' \in [open : BOOLEAN, state : ModalStates, period : Periods \cup {NoPeriod}],
           new.said # "nothing" => new.at = "reply",
           RowsFit(new), CalmFits(new), KeyFits(new),
           new.at \in Unrecorded => req[r].at \in Unrecorded /\ new.key = req[r].key
    PROVE  ExportInv'
<1>1. \A c \in Requests : req'[c] = IF c = r THEN new ELSE req[c]
  BY RequestChanges
<1>2. req' \in [Requests -> Request] /\ SaidLast' /\ DataAgree'
  BY RequestChanges
<1>3. ExportTypeOK'
  BY <1>2 DEF ExportInv, ExportTypeOK, data
<1>4. KeysAgree'
  BY <1>1 DEF ExportInv, KeysAgree, KeyFits
<1>5. FilesApart'
  BY <1>1 DEF ExportInv, FilesApart
<1>6. QED
  BY <1>2, <1>3, <1>4, <1>5 DEF ExportInv, RecordedIsStored

LEMMA IdleFits ==
    /\ Idle \in Request
    /\ ExportInv => RowsFit(Idle) /\ CalmFits(Idle) /\ KeyFits(Idle)
<1>1. NoRows \in [{} -> TxnRows]
  BY DEF NoRows
<1>2. NoRows \in UNION {[s -> TxnRows] : s \in SUBSET Txns}
  BY <1>1
<1>3. QED
  BY <1>2 DEF Idle, Request, RowsFit, CalmFits, KeyFits, HoldsRows, Unrecorded

\* The rows of a period, and the exportable ones among them.
LEMMA RowsTyped ==
    ASSUME ExportInv, NEW p
    PROVE  LET rows == RowsOf(p)
               kept == [t \in ExportableIn(rows) |-> rows[t]]
           IN  /\ rows \in UNION {[s -> TxnRows] : s \in SUBSET Txns}
               /\ kept \in UNION {[s -> TxnRows] : s \in SUBSET Txns}
               /\ \A t \in Txns : t \in DOMAIN rows <=> InPeriod(t, p)
               /\ \A t \in DOMAIN rows : t \in Txns /\ rows[t] = txn[t]
               /\ DOMAIN kept = ExportableIn(rows)
               /\ \A t \in DOMAIN kept : kept[t] = rows[t]
<1>. DEFINE S == {u \in Txns : InPeriod(u, p)}
            rows == RowsOf(p)
            kept == [t \in ExportableIn(rows) |-> rows[t]]
<1>1. txn \in [Txns -> TxnRows]
  BY DEF ExportInv, ExportTypeOK
<1>2. rows = [t \in S |-> txn[t]]
  BY DEF RowsOf
<1>3. rows \in [S -> TxnRows] /\ S \in SUBSET Txns
  BY <1>1, <1>2
<1>4. ExportableIn(rows) \subseteq S
  BY <1>2 DEF ExportableIn
<1>5. kept \in [ExportableIn(rows) -> TxnRows] /\ ExportableIn(rows) \in SUBSET Txns
  BY <1>3, <1>4
<1>6. QED
  BY <1>2, <1>3, <1>5

AnyRows == UNION {[s -> TxnRows] : s \in SUBSET Txns}

\* A request with other values in some fields.
Like(q, new) ==
    /\ new.op = q.op /\ new.period = q.period /\ new.untouched = q.untouched /\ new.calm = q.calm

ModalType == [open : BOOLEAN, state : ModalStates, period : Periods \cup {NoPeriod}]

LEMMA ReadingOnly ==
    ASSUME ExportInv, Reading
    PROVE  /\ UNCHANGED <<data, object, archive, doubtful>> /\ edits' = edits
           /\ faults' \in 0..MaxFaults /\ modal' \in ModalType
BY DEF ExportInv, ExportTypeOK, Reading, ModalType

LEMMA FaultCounts ==
    ASSUME ExportInv, Fault
    PROVE  faults' \in 0..MaxFaults
BY FaultsAssumption DEF ExportInv, ExportTypeOK, Fault

\* A request that reads, and holds no file.
LEMMA RequestGoesOn ==
    ASSUME ExportInv, NEW r \in Requests, NEW new \in Request, Become(r, new),
           Reading \/ (Fault /\ UNCHANGED <<data, object, archive, modal, doubtful, edits>>),
           new.said # "nothing" => new.at = "reply",
           RowsFit(new), CalmFits(new), KeyFits(new), new.at \notin Unrecorded
    PROVE  ExportInv'
<1>1. /\ UNCHANGED <<data, object, archive, doubtful>> /\ edits' = edits
      /\ faults' \in 0..MaxFaults
      /\ modal' \in [open : BOOLEAN, state : ModalStates, period : Periods \cup {NoPeriod}]
  BY ReadingOnly, FaultCounts DEF ModalType, ExportInv, ExportTypeOK
<1>2. QED
  BY <1>1, RequestReads

\* An answer that hands over no file and claims no calm failure.
LEMMA AnswerFits ==
    ASSUME ExportInv, NEW new \in Request, new.at = "reply",
           new.said \notin {"file", "url"}, new.said = "error" => ~ new.calm \/ ~ cnpj
    PROVE  RowsFit(new) /\ CalmFits(new) /\ KeyFits(new)
BY DEF RowsFit, CalmFits, KeyFits, HoldsRows, Unrecorded

LEMMA Typed ==
    ASSUME ExportInv, NEW r \in Requests
    PROVE  /\ req[r] \in Request
           /\ req[r].said # "nothing" => req[r].at = "reply"
           /\ RowsFit(req[r]) /\ CalmFits(req[r]) /\ KeyFits(req[r])
           /\ req[r].calm \in BOOLEAN
BY DEF ExportInv, ExportTypeOK, SaidLast, DataAgree, KeysAgree, Request

LEMMA ConfigTyped ==
    ExportInv => ActiveConfig \in ConfigRows \cup {Absent}
BY DEF ExportInv, ExportTypeOK, ActiveConfig

LEMMA ValidateSteps ==
    ASSUME ExportInv, NEW r \in Requests,
           ValidateConfig(r) \/ ValidateRows(r) \/ ValidateMapping(r)
    PROVE  ExportInv'
<1>. USE Typed
<1>1. CASE ValidateConfig(r)
  <2>2. /\ Reading /\ req[r].at = "vConfig"
        /\ Become(r, [req[r] EXCEPT !.at = "vRows", !.config = ActiveConfig])
    BY <1>1 DEF ValidateConfig, ReadConfig
  <2>. PICK new : new = [req[r] EXCEPT !.at = "vRows", !.config = ActiveConfig]
    OBVIOUS
  <2>1. /\ new \in Request /\ new.at = "vRows" /\ new.said = req[r].said /\ new.config = ActiveConfig
    <3>1. req[r] \in Request /\ ActiveConfig \in ConfigRows \cup {Absent}
      BY ConfigTyped
    <3>2. QED
      BY <3>1 DEF Request
  <2>3. new.said = "nothing"
    BY <2>1, <2>2
  <2>4. RowsFit(new) /\ CalmFits(new) /\ KeyFits(new) /\ new.at \notin Unrecorded
    BY <2>1, <2>3 DEF RowsFit, CalmFits, KeyFits, HoldsRows, Unrecorded
  <2>5. QED
    BY <2>1, <2>2, <2>3, <2>4, RequestGoesOn
<1>2. CASE ValidateRows(r)
  <2>. PICK rows : rows = RowsOf(req[r].period)
    OBVIOUS
  <2>. PICK new : new = [req[r] EXCEPT !.at = "vMapping", !.rows = rows]
    OBVIOUS
  <2>1. /\ rows \in AnyRows
        /\ \A t \in Txns : t \in DOMAIN rows <=> InPeriod(t, req[r].period)
        /\ \A t \in DOMAIN rows : t \in Txns /\ rows[t] = txn[t]
    BY RowsTyped DEF AnyRows
  <2>2. Become(r, new) /\ Reading /\ req[r].at = "vRows"
    BY <1>2 DEF ValidateRows, ReadRows
  <2>3. /\ new \in Request /\ new.at = "vMapping" /\ Like(req[r], new)
        /\ new.said = req[r].said /\ new.rows = rows /\ new.config = req[r].config
    <3>1. req[r] \in Request
      OBVIOUS
    <3>2. QED
      BY <2>1, <3>1, ZenonT(40) DEF Request, Like, AnyRows
  <2>4. new.said = "nothing" /\ new.period = req[r].period /\ new.untouched \subseteq Txns
    BY <2>2, <2>3 DEF Like, Request
  <2>5. RowsFit(new)
    BY <2>1, <2>3, <2>4 DEF RowsFit
  <2>6. CalmFits(new)
    BY <2>2, <2>3, <2>4 DEF CalmFits, Like
  <2>7. KeyFits(new) /\ new.at \notin Unrecorded
    BY <2>3, <2>4 DEF KeyFits, Unrecorded
  <2>8. QED
    BY <2>2, <2>3, <2>4, <2>5, <2>6, <2>7, RequestGoesOn
<1>3. CASE ValidateMapping(r)
  <2>1. req[r].at = "vMapping" /\ Reading
    BY <1>3 DEF ValidateMapping
  <2>2. CASE ~ Blocked(req[r].config, req[r].rows) /\ Goto(r, "gConfig")
    <3>. PICK new : new = [req[r] EXCEPT !.at = "gConfig"]
      OBVIOUS
    <3>1. /\ new \in Request /\ new.at = "gConfig" /\ Like(req[r], new)
          /\ new.said = req[r].said /\ new.rows = req[r].rows /\ new.config = req[r].config
      <4>1. req[r] \in Request
        OBVIOUS
      <4>2. QED
        BY <4>1 DEF Request, Like
    <3>2. Become(r, new)
      BY <2>2 DEF Goto
    <3>3. \A t \in DOMAIN new.rows : Exportable(new.rows[t])
      BY <2>2, <3>1 DEF Blocked, ExportableIn
    <3>4. RowsFit(new)
      BY <2>1, <3>1, <3>3 DEF RowsFit, Like, HoldsRows
    <3>5. CalmFits(new)
      BY <2>1, <2>2, <3>1 DEF CalmFits, Like
    <3>6. KeyFits(new) /\ new.at \notin Unrecorded /\ new.said = "nothing"
      BY <2>1, <3>1 DEF KeyFits, Unrecorded
    <3>7. QED
      BY <2>1, <3>1, <3>2, <3>4, <3>5, <3>6, RequestGoesOn
  <2>3. CASE Say(r, "blocked") \/ Say(r, "valid")
    <3>1. PICK said \in {"blocked", "valid"} : Say(r, said)
      BY <2>3
    <3>. PICK new : new = [req[r] EXCEPT !.at = "reply", !.said = said]
      OBVIOUS
    <3>2. new \in Request /\ new.at = "reply" /\ new.said = said /\ Become(r, new)
      <4>1. req[r] \in Request /\ Become(r, new)
        BY <3>1 DEF Say
      <4>2. QED
        BY <4>1 DEF Request
    <3>3. QED
      BY <2>1, <3>1, <3>2, AnswerFits, RequestGoesOn DEF Unrecorded
  <2>4. QED
    BY <1>3, <2>2, <2>3 DEF ValidateMapping
<1>4. QED
  BY <1>1, <1>2, <1>3

\* Any answer that hands over no file, and no calm failure unless there is no CNPJ.
LEMMA RequestAnswers ==
    ASSUME ExportInv, NEW r \in Requests,
           NEW said \in {"nothing", "valid", "blocked", "missing", "unavailable", "error"},
           Say(r, said),
           Reading \/ (Fault /\ UNCHANGED <<data, object, archive, modal, doubtful, edits>>),
           said = "error" => ~ req[r].calm \/ ~ cnpj
    PROVE  ExportInv'
<1>. PICK new : new = [req[r] EXCEPT !.at = "reply", !.said = said]
  OBVIOUS
<1>1. req[r] \in Request /\ Become(r, new)
  BY Typed DEF Say
<1>2. new \in Request /\ new.at = "reply" /\ new.said = said /\ new.calm = req[r].calm
  BY <1>1 DEF Request
<1>3. RowsFit(new) /\ CalmFits(new) /\ KeyFits(new) /\ new.at \notin Unrecorded
  BY <1>2, AnswerFits DEF Unrecorded
<1>4. QED
  BY <1>1, <1>2, <1>3, RequestGoesOn

\* Generating after a validation that let it pass: the settings are those it saw.
LEMMA GenerateConfigStep ==
    ASSUME ExportInv, NEW r \in Requests, GenerateConfig(r)
    PROVE  ExportInv'
<1>. USE Typed
<1>1. req[r] \in Request /\ Reading /\ req[r].at = "gConfig"
  BY DEF GenerateConfig
<1>2. CASE HasCnpj /\ ActiveConfig # Absent
  <2>. PICK new : new = [req[r] EXCEPT !.at = "gRows", !.config = ActiveConfig]
    OBVIOUS
  <2>1. Become(r, new) /\ ActiveConfig \in ConfigRows \cup {Absent}
    BY <1>2, ConfigTyped DEF GenerateConfig
  <2>2. /\ new \in Request /\ new.at = "gRows" /\ Like(req[r], new) /\ new.config = ActiveConfig
        /\ new.said = req[r].said /\ new.rows = req[r].rows
    BY <1>1, <2>1 DEF Request, Like
  <2>3. RowsFit(new)
    BY <1>1, <2>2 DEF RowsFit, Like, HoldsRows
  <2>4. CalmFits(new)
    BY <1>1, <2>2 DEF CalmFits, Like
  <2>5. KeyFits(new) /\ new.at \notin Unrecorded /\ new.said = "nothing"
    BY <1>1, <2>2 DEF KeyFits, Unrecorded
  <2>6. QED
    BY <1>1, <2>1, <2>2, <2>3, <2>4, <2>5, RequestGoesOn
<1>3. CASE ~ (HasCnpj /\ ActiveConfig # Absent)
  <2>1. Say(r, "error")
    BY <1>3 DEF GenerateConfig
  <2>2. req[r].calm => ActiveConfig # Absent
    BY <1>1 DEF CalmFits, Blocked
  <2>3. ~ req[r].calm \/ ~ cnpj
    BY <1>3, <2>2 DEF HasCnpj
  <2>4. QED
    BY <1>1, <2>1, <2>3, RequestAnswers
<1>4. QED
  BY <1>2, <1>3

\* A row that did not block an export can be a line of it.
LEMMA NoBlockerMakesALine ==
    ASSUME NEW cfg, NEW rows, ~ Blocked(cfg, rows), NEW t \in DOMAIN rows
    PROVE  ~ LineFails(cfg, rows[t])
<1>1. t \in ExportableIn(rows) /\ cfg # Absent
  BY DEF Blocked
<1>2. ~ BlocksRow(cfg, rows[t])
  BY <1>1 DEF Blocked
<1>3. QED
  BY <1>1, <1>2 DEF BlocksRow, LineFails

LEMMA GenerateRowsStep ==
    ASSUME ExportInv, NEW r \in Requests, GenerateRows(r)
    PROVE  ExportInv'
<1>. USE Typed
<1>. PICK rows : rows = RowsOf(req[r].period)
  OBVIOUS
<1>. PICK kept : kept = [t \in ExportableIn(rows) |-> rows[t]]
  OBVIOUS
<1>1. req[r] \in Request /\ Reading /\ req[r].at = "gRows"
  BY DEF GenerateRows
<1>2. /\ kept \in AnyRows
      /\ \A t \in Txns : t \in DOMAIN rows <=> InPeriod(t, req[r].period)
      /\ \A t \in DOMAIN rows : t \in Txns /\ rows[t] = txn[t]
      /\ DOMAIN kept = ExportableIn(rows)
      /\ \A t \in DOMAIN kept : kept[t] = rows[t]
  BY RowsTyped DEF AnyRows
<1>3. CASE kept # NoRows
  <2>. PICK new : new = [req[r] EXCEPT !.at = "gMapping", !.rows = kept]
    OBVIOUS
  <2>1. Become(r, new)
    BY <1>3 DEF GenerateRows
  <2>2. /\ new \in Request /\ new.at = "gMapping" /\ Like(req[r], new) /\ new.config = req[r].config
        /\ new.said = req[r].said /\ new.rows = kept
    BY <1>1, <1>2, ZenonT(40) DEF Request, Like, AnyRows
  <2>3. RowsFit(new)
    <3>1. new.untouched \subseteq Txns /\ new.untouched = req[r].untouched /\ new.period = req[r].period
      BY <1>1, <2>2 DEF Request, Like
    <3>2. \A t \in new.untouched : InPeriod(t, new.period) => Exportable(txn[t])
      BY <1>1, <3>1 DEF RowsFit, HoldsRows
    <3>3. QED
      BY <1>2, <2>2, <3>1, <3>2 DEF RowsFit, ExportableIn
  <2>4. CalmFits(new)
    <3>1. req[r].calm => ~ Blocked(req[r].config, rows)
      BY <1>1 DEF CalmFits
    <3>2. req[r].calm => \A t \in DOMAIN rows : ~ LineFails(req[r].config, rows[t])
      BY <3>1, NoBlockerMakesALine
    <3>3. req[r].calm => req[r].config = ActiveConfig
      BY <1>1 DEF CalmFits
    <3>4. DOMAIN kept \subseteq DOMAIN rows
      BY <1>2 DEF ExportableIn
    <3>5. QED
      BY <1>1, <1>2, <2>2, <3>2, <3>3, <3>4 DEF CalmFits, Like
  <2>5. KeyFits(new) /\ new.at \notin Unrecorded /\ new.said = "nothing"
    BY <1>1, <2>2 DEF KeyFits, Unrecorded
  <2>6. QED
    BY <1>1, <2>1, <2>2, <2>3, <2>4, <2>5, RequestGoesOn
<1>4. CASE kept = NoRows
  <2>1. Say(r, "error")
    BY <1>4 DEF GenerateRows
  <2>2. ExportableIn(rows) = {}
    BY <1>2, <1>4 DEF NoRows
  <2>3. ~ req[r].calm
    BY <1>1, <2>2 DEF CalmFits, Blocked
  <2>4. QED
    BY <1>1, <2>1, <2>3, RequestAnswers
<1>5. QED
  BY <1>3, <1>4

LEMMA GenerateLinesStep ==
    ASSUME ExportInv, NEW r \in Requests, GenerateLines(r)
    PROVE  ExportInv'
<1>. USE Typed
<1>1. req[r] \in Request /\ Reading /\ req[r].at = "gMapping"
  BY DEF GenerateLines
<1>2. CASE Goto(r, "upload")
  <2>. PICK new : new = [req[r] EXCEPT !.at = "upload"]
    OBVIOUS
  <2>1. /\ new \in Request /\ new.at = "upload" /\ Like(req[r], new)
        /\ new.said = req[r].said /\ new.rows = req[r].rows /\ Become(r, new)
    BY <1>1, <1>2 DEF Request, Like, Goto
  <2>2. RowsFit(new) /\ CalmFits(new) /\ KeyFits(new) /\ new.at \notin Unrecorded /\ new.said = "nothing"
    BY <1>1, <2>1 DEF RowsFit, CalmFits, KeyFits, Like, HoldsRows, Unrecorded
  <2>3. QED
    BY <1>1, <2>1, <2>2, RequestGoesOn
<1>3. CASE Say(r, "error") /\ \E t \in DOMAIN req[r].rows : LineFails(req[r].config, req[r].rows[t])
  <2>1. ~ req[r].calm
    BY <1>1, <1>3 DEF CalmFits
  <2>2. QED
    BY <1>1, <1>3, <2>1, RequestAnswers
<1>4. QED
  BY <1>2, <1>3 DEF GenerateLines

LEMMA FailingSteps ==
    ASSUME ExportInv, NEW r \in Requests,
           ReadFails(r) \/ SignFails(r) \/ \E k \in Keys : UploadFails(r, k)
    PROVE  ExportInv'
<1>. USE Typed
<1>1. CASE ReadFails(r)
  <2>. PICK new : new = [req[r] EXCEPT !.at = "reply", !.said = "error", !.calm = FALSE]
    OBVIOUS
  <2>1. req[r] \in Request /\ Become(r, new)
    BY <1>1 DEF ReadFails
  <2>2. new \in Request /\ new.at = "reply" /\ new.said = "error" /\ new.calm = FALSE
    BY <2>1 DEF Request
  <2>3. RowsFit(new) /\ CalmFits(new) /\ KeyFits(new) /\ new.at \notin Unrecorded
    BY <2>2, AnswerFits DEF Unrecorded
  <2>4. QED
    BY <1>1, <2>1, <2>2, <2>3, RequestGoesOn DEF ReadFails
<1>2. CASE SignFails(r)
  BY <1>2, RequestAnswers DEF SignFails
<1>3. CASE \E k \in Keys : UploadFails(r, k)
  BY <1>3, RequestAnswers DEF UploadFails, GiveUp
<1>4. QED
  BY <1>1, <1>2, <1>3

LEMMA LinkSteps ==
    ASSUME ExportInv, NEW r \in Requests,
           \/ \E k \in Keys : DownloadLink(r, k)
           \/ FindArchive(r) \/ Sign(r) \/ LinkAnswered(r)
    PROVE  ExportInv'
<1>. USE Typed
<1>1. CASE \E k \in Keys : DownloadLink(r, k)
  <2>. PICK k \in Keys : DownloadLink(r, k)
    BY <1>1
  <2>. PICK new : new = [Idle EXCEPT !.op = "link", !.at = "lookUp", !.key = k]
    OBVIOUS
  <2>1. Idle \in Request
    BY IdleFits
  <2>2. new \in Request /\ new.at = "lookUp" /\ new.said = "nothing"
    BY <2>1, ZenonT(40) DEF Request, Idle
  <2>3. RowsFit(new) /\ CalmFits(new) /\ KeyFits(new) /\ new.at \notin Unrecorded
    BY <2>2 DEF RowsFit, CalmFits, KeyFits, HoldsRows, Unrecorded
  <2>4. QED
    BY <2>2, <2>3, RequestGoesOn DEF DownloadLink
<1>2. CASE FindArchive(r)
  <2>1. CASE req[r].key \in DOMAIN archive
    <3>. PICK new : new = [req[r] EXCEPT !.at = "sign"]
      OBVIOUS
    <3>1. req[r] \in Request /\ Become(r, new) /\ Reading /\ req[r].at = "lookUp"
      BY <1>2, <2>1 DEF FindArchive, Goto
    <3>2. new \in Request /\ new.at = "sign" /\ new.said = "nothing" /\ new.key = req[r].key
      BY <3>1 DEF Request
    <3>3. RowsFit(new) /\ CalmFits(new) /\ KeyFits(new) /\ new.at \notin Unrecorded
      BY <2>1, <3>2 DEF RowsFit, CalmFits, KeyFits, HoldsRows, Unrecorded
    <3>4. QED
      BY <3>1, <3>2, <3>3, RequestGoesOn
  <2>2. CASE req[r].key \notin DOMAIN archive
    BY <1>2, <2>2, RequestAnswers DEF FindArchive
  <2>3. QED
    BY <2>1, <2>2
<1>3. CASE Sign(r)
  <2>. PICK new : new = [req[r] EXCEPT !.at = "reply", !.said = "url"]
    OBVIOUS
  <2>1. req[r] \in Request /\ Become(r, new) /\ Reading /\ req[r].at = "sign"
    BY <1>3 DEF Sign, Say
  <2>2. new \in Request /\ new.at = "reply" /\ new.said = "url" /\ new.key = req[r].key
    BY <2>1 DEF Request
  <2>3. RowsFit(new) /\ CalmFits(new) /\ KeyFits(new) /\ new.at \notin Unrecorded
    BY <2>1, <2>2 DEF RowsFit, CalmFits, KeyFits, HoldsRows, Unrecorded
  <2>4. QED
    BY <2>1, <2>2, <2>3, RequestGoesOn
<1>4. CASE LinkAnswered(r)
  <2>1. Become(r, Idle) /\ Reading /\ Idle.said = "nothing" /\ Idle.at \notin Unrecorded
    BY <1>4 DEF LinkAnswered, Idle, Unrecorded
  <2>2. QED
    BY <2>1, IdleFits, RequestGoesOn
<1>5. QED
  BY <1>1, <1>2, <1>3, <1>4

-----------------------------------------------------------------------------
(* The files of the requests.                                              *)

LEMMA ReadsAsBefore ==
    ASSUME NEW q, NEW w, RowsFit(q), CalmFits(q), Like(q, w), w.rows = q.rows,
           w.at \in Unrecorded => q.at \in HoldsRows,
           w.at \in Unrecorded \cup {"reply"},
           w.said = "file" => q.at \in HoldsRows, w.said # "error"
    PROVE  RowsFit(w) /\ CalmFits(w)
BY DEF RowsFit, CalmFits, Like, HoldsRows, Unrecorded

\* A request whose file is nobody else's.
LEMMA ApartKept ==
    ASSUME ExportInv, NEW r \in Requests,
           \A c \in Requests \ {r} : req'[c] = req[c],
           \A c \in Requests \ {r} :
              req'[r].at \in Unrecorded /\ req[c].at \in Unrecorded => req[c].key # req'[r].key
    PROVE  FilesApart'
<1>. SUFFICES ASSUME NEW c \in Requests, NEW d \in Requests, c # d,
                     req'[c].at \in Unrecorded, req'[d].at \in Unrecorded, req'[c].key = req'[d].key
              PROVE  FALSE
  BY DEF FilesApart
<1>1. CASE c = r
  <2>1. d \in Requests \ {r} /\ req'[d] = req[d]
    BY <1>1
  <2>2. QED
    BY <1>1, <2>1
<1>2. CASE d = r
  <2>1. c \in Requests \ {r} /\ req'[c] = req[c]
    BY <1>2
  <2>2. QED
    BY <1>2, <2>1
<1>3. CASE c # r /\ d # r
  BY <1>3 DEF ExportInv, FilesApart
<1>4. QED
  BY <1>1, <1>2, <1>3

LEMMA UploadStep ==
    ASSUME ExportInv, NEW r \in Requests, NEW k \in Keys, Upload(r, k)
    PROVE  ExportInv'
<1>. USE Typed
<1>. PICK new : new = [req[r] EXCEPT !.at = "commit", !.key = k]
  OBVIOUS
<1>1. /\ req[r] \in Request /\ Become(r, new) /\ req[r].at = "upload"
      /\ UNCHANGED <<data, archive, modal, doubtful, edits, faults>>
      /\ k \notin object \cup DOMAIN archive \cup doubtful
      /\ object' = object \cup {k}
  BY DEF Upload
<1>2. /\ new \in Request /\ new.at = "commit" /\ new.said = "nothing" /\ new.key = k
      /\ Like(req[r], new) /\ new.rows = req[r].rows
  BY <1>1 DEF Request, Like
<1>3. RowsFit(new) /\ CalmFits(new)
  BY <1>1, <1>2, ReadsAsBefore DEF HoldsRows, Unrecorded
<1>4. \A c \in Requests : req'[c] = IF c = r THEN new ELSE req[c]
  BY <1>1, <1>2, <1>3, RequestChanges
<1>5. req' \in [Requests -> Request] /\ SaidLast' /\ DataAgree'
  BY <1>1, <1>2, <1>3, RequestChanges
<1>6. ExportTypeOK'
  BY <1>1, <1>5 DEF ExportInv, ExportTypeOK, data
<1>7. KeysAgree'
  BY <1>1, <1>2, <1>4, ZenonT(40) DEF ExportInv, KeysAgree, KeyFits, Unrecorded
<1>8. FilesApart'
  <2>1. \A c \in Requests : req[c].at \in Unrecorded => req[c].key # k
    BY <1>1 DEF ExportInv, KeysAgree, KeyFits
  <2>2. \A c \in Requests \ {r} : req'[c] = req[c]
    BY <1>4
  <2>3. req'[r].key = k
    BY <1>2, <1>4
  <2>4. QED
    BY <2>1, <2>2, <2>3, ApartKept
<1>9. RecordedIsStored'
  BY <1>1 DEF ExportInv, RecordedIsStored
<1>10. QED
  BY <1>5, <1>6, <1>7, <1>8, <1>9 DEF ExportInv

LEMMA RecordedTyped ==
    ASSUME ExportInv, NEW r \in Requests, req[r].at \in Unrecorded
    PROVE  /\ req[r].key \in Keys
           /\ Recorded(r) \in UNION {[s -> SUBSET Txns] : s \in SUBSET Keys}
           /\ DOMAIN Recorded(r) = DOMAIN archive \cup {req[r].key}
           /\ Recorded(r)[req[r].key] = DOMAIN req[r].rows
           /\ \A k \in DOMAIN archive : k # req[r].key => Recorded(r)[k] = archive[k]
<1>1. req[r] \in Request
  BY Typed
<1>2. DOMAIN req[r].rows \in SUBSET Txns
  BY <1>1 DEF Request
<1>3. req[r].key \in Keys
  BY DEF ExportInv, ExportTypeOK, KeysAgree, KeyFits
<1>4. DOMAIN archive \in SUBSET Keys /\ \A k \in DOMAIN archive : archive[k] \in SUBSET Txns
  BY DEF ExportInv, ExportTypeOK
<1>5. Recorded(r) \in [DOMAIN archive \cup {req[r].key} -> SUBSET Txns]
  BY <1>2, <1>4 DEF Recorded, Lines
<1>6. DOMAIN archive \cup {req[r].key} \in SUBSET Keys
  BY <1>3, <1>4
<1>7. QED
  BY <1>3, <1>5, <1>6 DEF Recorded, Lines

LEMMA CommitStep ==
    ASSUME ExportInv, NEW r \in Requests, Commit(r)
    PROVE  ExportInv'
<1>. USE Typed
<1>. PICK new : new = [req[r] EXCEPT !.at = "reply", !.said = "file"]
  OBVIOUS
<1>1. /\ req[r] \in Request /\ Become(r, new) /\ req[r].at = "commit"
      /\ UNCHANGED <<data, object, modal, doubtful, edits, faults>>
      /\ archive' = Recorded(r)
  BY DEF Commit, Say
<1>2. /\ new \in Request /\ new.at = "reply" /\ new.said = "file" /\ new.key = req[r].key
      /\ Like(req[r], new) /\ new.rows = req[r].rows
  BY <1>1 DEF Request, Like
<1>3. RowsFit(new) /\ CalmFits(new)
  BY <1>1, <1>2, ReadsAsBefore DEF HoldsRows, Unrecorded
<1>4. \A c \in Requests : req'[c] = IF c = r THEN new ELSE req[c]
  BY <1>1, <1>2, <1>3, RequestChanges
<1>5. req' \in [Requests -> Request] /\ SaidLast' /\ DataAgree'
  BY <1>1, <1>2, <1>3, RequestChanges
<1>6. /\ req[r].key \in object /\ req[r].key \notin DOMAIN archive \cup doubtful
      /\ \A c \in Requests \ {r} : req[c].at \in Unrecorded => req[c].key # req[r].key
  BY <1>1 DEF KeyFits, Unrecorded, ExportInv, FilesApart
<1>7. /\ DOMAIN archive' = DOMAIN archive \cup {req[r].key}
      /\ archive'[req[r].key] = DOMAIN req[r].rows
      /\ \A k \in DOMAIN archive : archive'[k] = archive[k]
      /\ archive' \in UNION {[s -> SUBSET Txns] : s \in SUBSET Keys}
  BY <1>1, <1>6, RecordedTyped DEF Unrecorded
<1>8. ExportTypeOK'
  BY <1>1, <1>5, <1>7 DEF ExportInv, ExportTypeOK, data
<1>9. KeysAgree'
  <2>1. KeyFits(new)'
    BY <1>1, <1>2, <1>6, <1>7 DEF KeyFits, Unrecorded
  <2>2. ASSUME NEW c \in Requests, c # r PROVE KeyFits(req[c])'
    <3>1. KeyFits(req[c])
      BY <2>2
    <3>2. req'[c] = req[c]
      BY <1>4, <2>2
    <3>3. QED
      BY <1>1, <1>6, <1>7, <2>2, <3>1, <3>2 DEF KeyFits, Unrecorded
  <2>3. KeyFits(req[r])'
    BY <1>1, <1>2, <1>4, <1>6, <1>7 DEF KeyFits, Unrecorded
  <2>4. QED
    BY <2>2, <2>3 DEF KeysAgree
<1>10. FilesApart'
  <2>1. req'[r].at \notin Unrecorded /\ \A c \in Requests \ {r} : req'[c] = req[c]
    BY <1>2, <1>4 DEF Unrecorded
  <2>2. QED
    BY <2>1, ApartKept
<1>11. RecordedIsStored'
  BY <1>1, <1>6, <1>7 DEF ExportInv, RecordedIsStored
<1>12. QED
  BY <1>5, <1>8, <1>9, <1>10, <1>11 DEF ExportInv

LEMMA CommitFailsStep ==
    ASSUME ExportInv, NEW r \in Requests, CommitFails(r)
    PROVE  ExportInv'
<1>. USE Typed
<1>. PICK new : new = [req[r] EXCEPT !.at = "cleanUp"]
  OBVIOUS
<1>1. /\ req[r] \in Request /\ Become(r, new) /\ req[r].at = "commit" /\ Fault
      /\ UNCHANGED <<data, object, modal, edits>>
      /\ \/ UNCHANGED <<archive, doubtful>>
         \/ archive' = Recorded(r) /\ doubtful' = doubtful \cup {req[r].key}
  BY DEF CommitFails, Goto
<1>2. /\ new \in Request /\ new.at = "cleanUp" /\ new.said = "nothing" /\ new.key = req[r].key
      /\ Like(req[r], new) /\ new.rows = req[r].rows
  BY <1>1 DEF Request, Like
<1>3. RowsFit(new) /\ CalmFits(new)
  BY <1>1, <1>2, ReadsAsBefore DEF HoldsRows, Unrecorded
<1>4. \A c \in Requests : req'[c] = IF c = r THEN new ELSE req[c]
  BY <1>1, <1>2, <1>3, RequestChanges
<1>5. req' \in [Requests -> Request] /\ SaidLast' /\ DataAgree'
  BY <1>1, <1>2, <1>3, RequestChanges
<1>6. /\ req[r].key \in object /\ req[r].key \notin DOMAIN archive \cup doubtful
      /\ \A c \in Requests \ {r} : req[c].at \in Unrecorded => req[c].key # req[r].key
  BY <1>1 DEF KeyFits, Unrecorded, ExportInv, FilesApart
<1>7. /\ \/ DOMAIN archive' = DOMAIN archive /\ doubtful' = doubtful
         \/ /\ DOMAIN archive' = DOMAIN archive \cup {req[r].key}
            /\ doubtful' = doubtful \cup {req[r].key}
      /\ \A k \in DOMAIN archive : archive'[k] = archive[k]
      /\ archive' \in UNION {[s -> SUBSET Txns] : s \in SUBSET Keys}
  <2>1. archive \in UNION {[s -> SUBSET Txns] : s \in SUBSET Keys}
    BY DEF ExportInv, ExportTypeOK
  <2>2. CASE UNCHANGED <<archive, doubtful>>
    BY <2>1, <2>2
  <2>3. CASE archive' = Recorded(r) /\ doubtful' = doubtful \cup {req[r].key}
    BY <1>1, <1>6, <2>3, RecordedTyped DEF Unrecorded
  <2>4. QED
    BY <1>1, <2>2, <2>3
<1>8. ExportTypeOK'
  <2>1. req[r].key \in Keys
    BY <1>1, RecordedTyped DEF Unrecorded
  <2>2. doubtful' \subseteq Keys
    BY <1>7, <2>1 DEF ExportInv, ExportTypeOK
  <2>3. QED
    BY <1>1, <1>5, <1>7, <2>2, FaultCounts DEF ExportInv, ExportTypeOK, data
<1>9. KeysAgree'
  <2>1. ASSUME NEW c \in Requests, c # r PROVE KeyFits(req[c])'
    <3>1. KeyFits(req[c])
      BY <2>1
    <3>2. req'[c] = req[c]
      BY <1>4, <2>1
    <3>3. QED
      BY <1>1, <1>6, <1>7, <2>1, <3>1, <3>2 DEF KeyFits, Unrecorded
  <2>2. KeyFits(req[r])'
    BY <1>1, <1>2, <1>4, <1>6, <1>7 DEF KeyFits, Unrecorded
  <2>3. QED
    BY <2>1, <2>2 DEF KeysAgree
<1>10. FilesApart'
  <2>1. \A c \in Requests \ {r} : req'[c] = req[c]
    BY <1>4
  <2>2. req'[r].key = req[r].key
    BY <1>2, <1>4
  <2>3. QED
    BY <1>6, <2>1, <2>2, ApartKept
<1>11. RecordedIsStored'
  BY <1>1, <1>6, <1>7 DEF ExportInv, RecordedIsStored
<1>12. QED
  BY <1>5, <1>8, <1>9, <1>10, <1>11 DEF ExportInv

LEMMA CleanUpStep ==
    ASSUME ExportInv, NEW r \in Requests, CleanUp(r)
    PROVE  ExportInv'
<1>. USE Typed
<1>. PICK new : new = [req[r] EXCEPT !.at = "reply", !.said = "unavailable"]
  OBVIOUS
<1>1. /\ req[r] \in Request /\ Become(r, new) /\ req[r].at = "cleanUp"
      /\ UNCHANGED <<data, archive, modal, doubtful, edits>>
      /\ Fault \/ UNCHANGED faults
      /\ object' = object \/ object' = object \ {req[r].key}
  BY DEF CleanUp, Say, Discard
<1>2. /\ new \in Request /\ new.at = "reply" /\ new.said = "unavailable"
  BY <1>1 DEF Request
<1>3. RowsFit(new) /\ CalmFits(new)
  BY <1>2, AnswerFits
<1>4. \A c \in Requests : req'[c] = IF c = r THEN new ELSE req[c]
  BY <1>1, <1>2, <1>3, RequestChanges, ZenonT(40)
<1>5. req' \in [Requests -> Request] /\ SaidLast' /\ DataAgree'
  BY <1>1, <1>2, <1>3, RequestChanges
<1>6. /\ req[r].key \in DOMAIN archive => req[r].key \in doubtful
      /\ \A c \in Requests \ {r} : req[c].at \in Unrecorded => req[c].key # req[r].key
  BY <1>1 DEF KeyFits, Unrecorded, ExportInv, FilesApart
<1>7. ExportTypeOK'
  BY <1>1, <1>5, FaultCounts DEF ExportInv, ExportTypeOK, data
<1>8. KeysAgree'
  <2>1. ASSUME NEW c \in Requests, c # r PROVE KeyFits(req[c])'
    <3>1. KeyFits(req[c])
      BY <2>1
    <3>2. req'[c] = req[c]
      BY <1>4, <2>1
    <3>3. req[c].said = "file" => req[c].key \in DOMAIN archive \ doubtful
      BY <3>1 DEF KeyFits
    <3>4. QED
      BY <1>1, <1>6, <2>1, <3>1, <3>2, <3>3 DEF KeyFits, Unrecorded
  <2>2. KeyFits(req[r])'
    BY <1>2, <1>4 DEF KeyFits, Unrecorded
  <2>3. QED
    BY <2>1, <2>2 DEF KeysAgree
<1>9. FilesApart'
  <2>1. req'[r].at \notin Unrecorded /\ \A c \in Requests \ {r} : req'[c] = req[c]
    BY <1>2, <1>4 DEF Unrecorded
  <2>2. QED
    BY <2>1, ApartKept
<1>10. RecordedIsStored'
  BY <1>1, <1>6 DEF ExportInv, RecordedIsStored
<1>11. QED
  BY <1>5, <1>7, <1>8, <1>9, <1>10 DEF ExportInv

-----------------------------------------------------------------------------
(* The modal, crashes, and changes of transactions and settings.           *)

LEMMA ModalTyped ==
    ASSUME ExportInv,
           \/ \E b \in BOOLEAN : modal' = [modal EXCEPT !.open = b]
           \/ modal' = [open |-> FALSE, state |-> "idle", period |-> NoPeriod]
           \/ \E p \in Periods : modal' = [modal EXCEPT !.state = "idle", !.period = p]
           \/ \E s \in ModalStates : modal' = [modal EXCEPT !.state = s]
           \/ modal' = modal
    PROVE  modal' \in [open : BOOLEAN, state : ModalStates, period : Periods \cup {NoPeriod}]
<1>1. modal \in [open : BOOLEAN, state : ModalStates, period : Periods \cup {NoPeriod}]
  BY DEF ExportInv, ExportTypeOK
<1>2. CASE \E b \in BOOLEAN : modal' = [modal EXCEPT !.open = b]
  BY <1>1, <1>2
<1>3. CASE modal' = [open |-> FALSE, state |-> "idle", period |-> NoPeriod]
  BY <1>3 DEF ModalStates
<1>4. CASE \E p \in Periods : modal' = [modal EXCEPT !.state = "idle", !.period = p]
  BY <1>1, <1>4 DEF ModalStates
<1>5. CASE \E s \in ModalStates : modal' = [modal EXCEPT !.state = s]
  BY <1>1, <1>5
<1>6. QED
  BY <1>1, <1>2, <1>3, <1>4, <1>5

\* Nothing happens to the requests.
LEMMA ModalSteps ==
    ASSUME ExportInv,
           Open \/ Close \/ ValidateRefused \/ \E p \in Periods : ChangeDates(p)
    PROVE  ExportInv'
<1>1. UNCHANGED <<req, data, object, archive, doubtful, edits, faults>>
  BY DEF Open, Close, ValidateRefused, ChangeDates, ModalStep
<1>2. modal' \in [open : BOOLEAN, state : ModalStates, period : Periods \cup {NoPeriod}]
  BY ModalTyped DEF Open, Close, ValidateRefused, ChangeDates, ModalStates
<1>3. ExportTypeOK'
  BY <1>1, <1>2 DEF ExportInv, ExportTypeOK, data
<1>4. txn' = txn /\ config' = config /\ mapping' = mapping /\ cnpj' = cnpj
  BY <1>1 DEF data
<1>5. DataAgree'
  <2>1. ASSUME NEW c \in Requests PROVE RowsFit(req[c])'
    BY <1>1, <1>4 DEF ExportInv, DataAgree, RowsFit, InPeriod
  <2>2. ASSUME NEW c \in Requests PROVE CalmFits(req[c])'
    <3>1. PICK r \in Requests : r = c
      OBVIOUS
    <3>2. Become(r, req[r]) /\ req[r] \in Request
      BY <1>1, Typed DEF Become, ExportInv, ExportTypeOK
    <3>3. QED
      BY <1>1, <3>1, <3>2, Typed, RequestChanges DEF DataAgree
  <2>3. QED
    BY <2>1, <2>2 DEF DataAgree
<1>6. SaidLast' /\ KeysAgree' /\ FilesApart' /\ RecordedIsStored'
  BY <1>1 DEF ExportInv, SaidLast, KeysAgree, KeyFits, FilesApart, RecordedIsStored
<1>7. QED
  BY <1>3, <1>5, <1>6 DEF ExportInv

LEMMA BeginSteps ==
    ASSUME ExportInv, NEW r \in Requests, Validate(r) \/ Download(r)
    PROVE  ExportInv'
<1>. PICK op \in {"validate", "generate"} : Begin(r, op)
  BY DEF Validate, Download
<1>. PICK new : new = [Idle EXCEPT !.op = op, !.at = "vConfig", !.period = modal.period, !.untouched = Txns]
  OBVIOUS
<1>1. /\ Become(r, new)
      /\ UNCHANGED <<data, object, archive, doubtful, edits, faults>>
      /\ modal.period \in Periods \cup {NoPeriod}
      /\ Idle \in Request
  BY IdleFits DEF Begin, Validate, Download, ModalStep, ExportInv, ExportTypeOK
<1>2. new \in Request /\ new.at = "vConfig" /\ new.said = "nothing"
  BY <1>1 DEF Request, Idle
<1>3. RowsFit(new) /\ CalmFits(new) /\ KeyFits(new) /\ new.at \notin Unrecorded
  BY <1>2 DEF RowsFit, CalmFits, KeyFits, HoldsRows, Unrecorded
<1>4. modal' \in [open : BOOLEAN, state : ModalStates, period : Periods \cup {NoPeriod}]
  BY ModalTyped DEF Validate, Download, ModalStates
<1>5. edits' = edits /\ faults' \in 0..MaxFaults
  BY <1>1 DEF ExportInv, ExportTypeOK
<1>6. QED
  BY <1>1, <1>2, <1>3, <1>4, <1>5, RequestReads

LEMMA EndSteps ==
    ASSUME ExportInv, NEW r \in Requests, Answered(r) \/ Crash(r)
    PROVE  ExportInv'
<1>1. /\ Become(r, Idle)
      /\ UNCHANGED <<data, object, archive, doubtful, edits>>
      /\ Fault \/ UNCHANGED faults
  BY DEF Answered, Crash, ModalStep
<1>2. modal' \in [open : BOOLEAN, state : ModalStates, period : Periods \cup {NoPeriod}]
  BY ModalTyped DEF Answered, Crash, ModalStates, Shown
<1>3. faults' \in 0..MaxFaults /\ edits' = edits
  BY <1>1, FaultCounts DEF ExportInv, ExportTypeOK
<1>4. Idle.said = "nothing" /\ Idle.at \notin Unrecorded
  BY DEF Idle, Unrecorded
<1>5. QED
  BY <1>1, <1>2, <1>3, <1>4, IdleFits, RequestReads

\* Requests under way are no longer calm, and forget what was touched.
LEMMA EditChanges ==
    ASSUME ExportInv, NEW touched \in SUBSET Txns, Edit(touched), ExportTypeOK',
           \A t \in Txns \ touched : txn'[t] = txn[t]
    PROVE  ExportInv'
<1>1. \A r \in Requests :
         \/ req[r] = Idle /\ req'[r] = Idle
         \/ req'[r] = [req[r] EXCEPT !.untouched = @ \ touched, !.calm = FALSE]
  BY DEF Edit
<1>2. ASSUME NEW r \in Requests
      PROVE  /\ req'[r].at = req[r].at /\ req'[r].said = req[r].said /\ req'[r].key = req[r].key
             /\ req'[r].rows = req[r].rows /\ req'[r].period = req[r].period
             /\ req'[r].untouched \subseteq Txns
             /\ req'[r] = Idle \/ (req'[r].untouched = req[r].untouched \ touched /\ ~ req'[r].calm)
  <2>1. req[r] \in Request
    BY Typed
  <2>2. CASE req'[r] = [req[r] EXCEPT !.untouched = @ \ touched, !.calm = FALSE]
    BY <2>1, <2>2 DEF Request
  <2>3. CASE req[r] = Idle /\ req'[r] = Idle
    BY <2>3 DEF Idle
  <2>4. QED
    BY <1>1, <2>2, <2>3
<1>3. ASSUME NEW r \in Requests PROVE RowsFit(req[r])' /\ CalmFits(req[r])'
  <2>1. CASE req'[r] = Idle
    BY <2>1 DEF Idle, RowsFit, CalmFits, HoldsRows
  <2>2. CASE req'[r].untouched = req[r].untouched \ touched /\ ~ req'[r].calm
    <3>1. RowsFit(req[r])
      BY Typed
    <3>2. \A t \in req'[r].untouched : t \in req[r].untouched /\ txn'[t] = txn[t]
      BY <1>2, <2>2
    <3>3. RowsFit(req[r])'
      BY <1>2, <3>1, <3>2 DEF RowsFit, InPeriod
    <3>4. QED
      BY <2>2, <3>3 DEF CalmFits
  <2>3. QED
    BY <1>2, <2>1, <2>2
<1>4. UNCHANGED <<object, archive, doubtful>>
  BY DEF Edit
<1>5. SaidLast' /\ KeysAgree' /\ FilesApart' /\ RecordedIsStored'
  BY <1>2, <1>4 DEF ExportInv, SaidLast, KeysAgree, KeyFits, FilesApart, RecordedIsStored
<1>6. QED
  BY <1>3, <1>5 DEF ExportInv, DataAgree

LEMMA EditTyped ==
    ASSUME ExportInv, NEW touched \in SUBSET Txns, Edit(touched)
    PROVE  /\ req' \in [Requests -> Request] /\ edits' \in 0..MaxEdits
           /\ UNCHANGED <<cnpj, object, archive, modal, doubtful, faults>>
<1>1. ASSUME NEW r \in Requests
      PROVE  [req[r] EXCEPT !.untouched = @ \ touched, !.calm = FALSE] \in Request
  <2>1. req[r] \in Request
    BY Typed
  <2>2. QED
    BY <2>1 DEF Request
<1>2. req' \in [Requests -> Request]
  BY <1>1, IdleFits DEF Edit
<1>3. edits \in Nat /\ edits <= MaxEdits
  BY EditsAssumption DEF ExportInv, ExportTypeOK
<1>4. edits' \in 0..MaxEdits
  <2>1. edits < MaxEdits /\ edits' = edits + 1
    BY DEF Edit
  <2>2. QED
    BY <1>3, <2>1, EditsAssumption
<1>5. QED
  BY <1>2, <1>4 DEF Edit

LEMMA EditSteps ==
    ASSUME ExportInv,
           \/ \E t \in Txns, w \in TxnRows : EditTransaction(t, w)
           \/ \E w \in ConfigRows : CreateConfig(w)
           \/ \E m \in Macros : DeactivateMapping(m) \/ \E w \in MappingRows : CreateMapping(m, w)
    PROVE  ExportInv'
<1>1. /\ txn \in [Txns -> TxnRows] /\ config \in ConfigRows \cup {Absent}
      /\ mapping \in [Macros -> MappingRows \cup {Absent}]
  BY DEF ExportInv, ExportTypeOK
<1>2. CASE \E t \in Txns, w \in TxnRows : EditTransaction(t, w)
  <2>. PICK t \in Txns, w \in TxnRows : EditTransaction(t, w)
    BY <1>2
  <2>1. /\ txn' = [txn EXCEPT ![t] = w] /\ Edit({t}) /\ UNCHANGED <<config, mapping>>
    BY DEF EditTransaction
  <2>2. ExportTypeOK'
    BY <1>1, <2>1, EditTyped DEF ExportInv, ExportTypeOK
  <2>3. \A u \in Txns \ {t} : txn'[u] = txn[u]
    BY <1>1, <2>1
  <2>4. QED
    BY <2>1, <2>2, <2>3, EditChanges
<1>3. CASE \E w \in ConfigRows : CreateConfig(w)
  <2>1. /\ config' \in ConfigRows /\ Edit({}) /\ UNCHANGED <<txn, mapping>>
    BY <1>3 DEF CreateConfig
  <2>2. ExportTypeOK'
    BY <1>1, <2>1, EditTyped DEF ExportInv, ExportTypeOK
  <2>3. QED
    BY <2>1, <2>2, EditChanges
<1>4. CASE \E m \in Macros : DeactivateMapping(m) \/ \E w \in MappingRows : CreateMapping(m, w)
  <2>1. Edit({}) /\ UNCHANGED <<txn, config>>
    BY <1>4 DEF DeactivateMapping, CreateMapping
  <2>2. mapping' \in [Macros -> MappingRows \cup {Absent}]
    <3>. PICK m \in Macros : DeactivateMapping(m) \/ \E w \in MappingRows : CreateMapping(m, w)
      BY <1>4
    <3>1. CASE DeactivateMapping(m)
      <4>1. [mapping[m] EXCEPT !.active = FALSE] \in MappingRows
        BY <1>1, <3>1, RowsAssumption DEF DeactivateMapping, ActiveMapping
      <4>2. QED
        BY <1>1, <3>1, <4>1 DEF DeactivateMapping
    <3>2. CASE \E w \in MappingRows : CreateMapping(m, w)
      BY <1>1, <3>2 DEF CreateMapping
    <3>3. QED
      BY <3>1, <3>2
  <2>3. ExportTypeOK'
    BY <1>1, <2>1, <2>2, EditTyped DEF ExportInv, ExportTypeOK
  <2>4. QED
    BY <2>1, <2>3, EditChanges
<1>5. QED
  BY <1>2, <1>3, <1>4

-----------------------------------------------------------------------------

LEMMA ExportInitInv == ExportInit => ExportInv
<1>. SUFFICES ASSUME ExportInit PROVE ExportInv
  OBVIOUS
<1>1. \A r \in Requests : req[r] = Idle
  BY DEF ExportInit
<1>2. ExportTypeOK
  <2>1. NoRows \in [{} -> SUBSET Txns]
    BY DEF NoRows
  <2>2. archive \in UNION {[s -> SUBSET Txns] : s \in SUBSET Keys}
    BY <2>1 DEF ExportInit
  <2>3. QED
    BY <2>2, IdleFits, EditsAssumption, FaultsAssumption DEF ExportInit, ExportTypeOK, ModalStates
<1>3. DOMAIN archive = {}
  BY DEF ExportInit, NoRows
<1>4. QED
  BY <1>1, <1>2, <1>3 DEF ExportInv, SaidLast, DataAgree, KeysAgree, FilesApart, RecordedIsStored,
                          Idle, RowsFit, CalmFits, KeyFits, HoldsRows, Unrecorded

LEMMA ExportNextKeepsInv == ExportInv /\ [ExportNext]_exportVars => ExportInv'
<1>. SUFFICES ASSUME ExportInv, [ExportNext]_exportVars PROVE ExportInv'
  OBVIOUS
<1>1. ASSUME NEW r \in Requests,
             ValidateConfig(r) \/ ValidateRows(r) \/ ValidateMapping(r)
      PROVE  ExportInv'
  BY <1>1, ValidateSteps
<1>2. ASSUME NEW r \in Requests,
             \/ GenerateConfig(r) \/ GenerateRows(r) \/ GenerateLines(r)
             \/ \E k \in Keys : Upload(r, k)
             \/ Commit(r) \/ CommitFails(r) \/ CleanUp(r)
      PROVE  ExportInv'
  BY <1>2, GenerateConfigStep, GenerateRowsStep, GenerateLinesStep, UploadStep, CommitStep,
     CommitFailsStep, CleanUpStep
<1>3. ASSUME NEW r \in Requests,
             ReadFails(r) \/ SignFails(r) \/ \E k \in Keys : UploadFails(r, k)
      PROVE  ExportInv'
  BY <1>3, FailingSteps
<1>4. ASSUME NEW r \in Requests,
             (\E k \in Keys : DownloadLink(r, k)) \/ FindArchive(r) \/ Sign(r) \/ LinkAnswered(r)
      PROVE  ExportInv'
  BY <1>4, LinkSteps
<1>5. ASSUME NEW r \in Requests, Validate(r) \/ Download(r) \/ Answered(r) \/ Crash(r)
      PROVE  ExportInv'
  BY <1>5, BeginSteps, EndSteps
<1>6. CASE Open \/ Close \/ ValidateRefused \/ \E p \in Periods : ChangeDates(p)
  BY <1>6, ModalSteps
<1>7. CASE \/ \E t \in Txns, w \in TxnRows : EditTransaction(t, w)
           \/ \E w \in ConfigRows : CreateConfig(w)
           \/ \E m \in Macros : DeactivateMapping(m) \/ \E w \in MappingRows : CreateMapping(m, w)
  BY <1>7, EditSteps
<1>8. CASE UNCHANGED exportVars
  <2>1. UNCHANGED <<req, data, object, archive, doubtful, edits, faults, modal>>
    BY <1>8 DEF exportVars
  <2>2. txn' = txn /\ config' = config /\ mapping' = mapping /\ cnpj' = cnpj
    BY <2>1 DEF data
  <2>3. ExportTypeOK' /\ SaidLast' /\ KeysAgree' /\ FilesApart' /\ RecordedIsStored'
    BY <2>1, <2>2 DEF ExportInv, ExportTypeOK, SaidLast, KeysAgree, KeyFits, FilesApart, RecordedIsStored
  <2>4. DataAgree'
    <3>1. ASSUME NEW c \in Requests PROVE RowsFit(req[c])' /\ CalmFits(req[c])'
      <4>1. Become(c, req[c]) /\ req[c] \in Request
        BY <2>1, Typed DEF Become, ExportInv, ExportTypeOK
      <4>2. QED
        BY <2>1, <4>1, Typed, RequestChanges DEF DataAgree
    <3>2. QED
      BY <3>1 DEF DataAgree
  <2>5. QED
    BY <2>3, <2>4 DEF ExportInv
<1>9. QED
  BY <1>1, <1>2, <1>3, <1>4, <1>5, <1>6, <1>7, <1>8 DEF ExportNext

LEMMA ExportInvariant == ExportSpec => []ExportInv
BY ExportInitInv, ExportNextKeepsInv, PTL DEF ExportSpec

\* Every request, row, key and answer is of its kind.
THEOREM ExportTypeIsCorrect == ExportSpec => []ExportTypeOK
<1>1. ExportInv => ExportTypeOK
  BY DEF ExportInv
<1>2. QED
  BY <1>1, ExportInvariant, PTL

\* A file that is handed over holds exactly the transactions of its period, as far as they did
\* not change while it was made, although generating reads everything a second time: what the
\* validation saw, and found exportable, is what the second reading finds.
THEOREM ExportedFileIsComplete == ExportSpec => []FileIsComplete
<1>1. ExportInv => FileIsComplete
  <2>. SUFFICES ASSUME ExportInv, NEW r \in Requests, req[r].said = "file", NEW t \in req[r].untouched
                PROVE  t \in DOMAIN req[r].rows
                          <=> (req[r].period[1] <= txn[t].day /\ txn[t].day <= req[r].period[2])
    BY DEF FileIsComplete, Lines
  <2>1. req[r] \in Request /\ RowsFit(req[r])
    BY Typed
  <2>2. t \in DOMAIN req[r].rows <=> InPeriod(t, req[r].period)
    BY <2>1 DEF RowsFit
  <2>3. txn[t].day \in Nat /\ req[r].period[1] \in Nat /\ req[r].period[2] \in Nat
    <3>1. t \in Txns /\ txn[t] \in TxnRows
      BY <2>1 DEF Request, ExportInv, ExportTypeOK
    <3>2. req[r].period \in Nat \X Nat
      BY <2>1, DaysAssumption DEF Request, NoPeriod
    <3>3. QED
      BY <3>1, <3>2, DaysAssumption
  <2>4. QED
    BY <2>2, <2>3 DEF InPeriod
<1>2. QED
  BY <1>1, ExportInvariant, PTL

\* With nothing changed and no failure, what was not blocked can be generated, as far as the
\* validation can tell (it does not look at the workspace's document).
THEOREM ValidationSuffices == ExportSpec => []ValidatedGenerates
<1>1. ExportInv => ValidatedGenerates
  BY Typed DEF ValidatedGenerates, CalmFits
<1>2. QED
  BY <1>1, ExportInvariant, PTL

\* A recorded export is stored, and what is handed over is recorded with the same lines, unless
\* the database committed without saying so.
THEOREM RecordedExportIsStored == ExportSpec => []ArchivedIsStored
<1>1. ExportInv => ArchivedIsStored
  <2>. SUFFICES ASSUME ExportInv PROVE ArchivedIsStored
    OBVIOUS
  <2>1. DOMAIN archive \ doubtful \subseteq object
    BY DEF ExportInv, RecordedIsStored
  <2>2. ASSUME NEW r \in Requests, req[r].said = "file"
        PROVE  req[r].key \in object \cap DOMAIN archive /\ archive[req[r].key] = DOMAIN req[r].rows
    BY <2>1, <2>2, Typed DEF KeyFits
  <2>3. ASSUME NEW r \in Requests, req[r].said = "url"
        PROVE  req[r].key \in object \cup doubtful
    BY <2>1, <2>3, Typed DEF KeyFits
  <2>4. QED
    BY <2>1, <2>2, <2>3 DEF ArchivedIsStored, Lines
<1>2. QED
  BY <1>1, ExportInvariant, PTL
================================================================================
