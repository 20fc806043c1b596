-------------------------------- MODULE Viewer ---------------------------------
(***************************************************************************)
(* The viewer of receipts, beside the files it shows.                      *)
(*                                                                         *)
(* A press of a paper-clip button asks the server for a link (hook         *)
(* useAttachment, UploadService), the answer opens the viewer, and then    *)
(* an effect of the viewer fetches the file from the storage               *)
(* (AttachmentPreview).  No button waits for the answer to another, the    *)
(* viewer may be closed meanwhile, and the transaction may be deleted.     *)
(*                                                                         *)
(* The effect is part of the step that changes its dependencies: React     *)
(* runs it before it handles anything else, though maybe after it has      *)
(* painted.  The object URL that stands for the blob and the audit record  *)
(* of the view are left out.                                               *)
(***************************************************************************)
EXTENDS Files

CONSTANT Presses  \* bound: presses of a preview button

VARIABLES
    press,   \* what became of each press
    viewer   \* the state of the page's and of the viewer's hooks

viewerVars == <<vars, press, viewer>>

-----------------------------------------------------------------------------
\* active: the flag in the closure of the effect.
PressType == [at : {"unused", "asked", "signed", "refused", "fetch", "done"},
              txn : Txns \cup {Absent}, key : MaybeKey, active : BOOLEAN]
Became(at) == [at |-> at, txn |-> Absent, key |-> Absent, active |-> FALSE]

\* selected, link: selectedTxId and previewData; loading, linkError: useAttachment's; the
\* others are AttachmentPreview's.
ViewerType == [selected : Txns \cup {Absent}, link : MaybeKey, loading : BOOLEAN, linkError : BOOLEAN,
               blob : MaybeKey, fetching : BOOLEAN, fileError : BOOLEAN]
NoViewer == [selected |-> Absent, link |-> Absent, loading |-> FALSE, linkError |-> FALSE,
             blob |-> Absent, fetching |-> FALSE, fileError |-> FALSE]

VTypeOK ==
    /\ press \in [Presses -> PressType]
    /\ viewer \in ViewerType

VInit == Init /\ press = [p \in Presses |-> Became("unused")] /\ viewer = NoViewer

PressBecomes(p, new) == press' = [press EXCEPT ![p] = new]
Deactivated == [q \in Presses |-> [press[q] EXCEPT !.active = FALSE]]
StorageOnly == UNCHANGED <<vars>>
FaultOnly == Fault /\ UNCHANGED <<row, object, cert, sending, tab, del, up, doubtful>>

\* Identifiers and keys that the page still holds are not used again.
HeldTxns == {press[p].txn : p \in Presses} \cup {viewer.selected}
HeldKeys == Keys \cap ({press[p].key : p \in Presses} \cup {viewer.link})
KeysInUse == object \cup InTransit
NothingReused == /\ Saved' \cap HeldTxns \subseteq Saved
                 /\ KeysInUse' \cap HeldKeys \subseteq KeysInUse

-----------------------------------------------------------------------------
(* The link.                                                               *)

\* The list shows a paper clip for a transaction with a receipt.
HasClip(t) == t \in Saved

Preview(p, t) ==
    /\ press[p].at = "unused" /\ HasClip(t)
    /\ PressBecomes(p, [Became("asked") EXCEPT !.txn = t])
    /\ viewer' = [viewer EXCEPT !.loading = TRUE, !.linkError = FALSE]
    /\ StorageOnly

\* getAttachmentUrl: a transaction that is gone is answered 404.
SignLink(p) ==
    /\ press[p].at = "asked"
    /\ LET t == press[p].txn
       IN  PressBecomes(p, IF t \in Saved THEN [press[p] EXCEPT !.at = "signed", !.key = row[t].key]
                           ELSE [press[p] EXCEPT !.at = "refused"])
    /\ UNCHANGED viewer /\ StorageOnly

\* The link reaches the page.  The effect gives up the file it was waiting for, if any, and
\* fetches this one.
OpenLink(p) ==
    /\ press[p].at = "signed"
    /\ press' = [Deactivated EXCEPT ![p].at = "fetch", ![p].active = TRUE]
    /\ viewer' = [viewer EXCEPT !.selected = press[p].txn, !.link = press[p].key, !.loading = FALSE,
                                !.fetching = TRUE, !.fileError = FALSE]
    /\ StorageOnly

\* Two links to one file that are signed in the same second are equal: no dependency of the
\* effect changes.
SameLink(p) ==
    /\ press[p].at = "signed" /\ viewer.link = press[p].key
    /\ PressBecomes(p, Became("done"))
    /\ viewer' = [viewer EXCEPT !.selected = press[p].txn, !.loading = FALSE]
    /\ StorageOnly

ShowsLinkError(p) ==
    /\ PressBecomes(p, Became("done"))
    /\ viewer' = [viewer EXCEPT !.selected = press[p].txn, !.loading = FALSE, !.linkError = TRUE]

\* The viewer opens, or stays open, with a message; the link it had stays.
LinkRefused(p) == press[p].at = "refused" /\ ShowsLinkError(p) /\ StorageOnly
LinkFails(p) == press[p].at \in {"asked", "signed"} /\ ShowsLinkError(p) /\ FaultOnly

-----------------------------------------------------------------------------
(* The file.                                                               *)

\* A plausible mistake: an answer counts whichever link the viewer has by then.
AnyAnswer(p) == TRUE                                                 \* mutant
Awaited(p) == press[p].active

ViewerGets(p, new) ==
    /\ PressBecomes(p, Became("done"))
    /\ viewer' = IF Awaited(p) THEN new ELSE viewer

FileArrives(p) ==
    /\ press[p].at = "fetch" /\ press[p].key \in object
    /\ ViewerGets(p, [viewer EXCEPT !.blob = press[p].key, !.fetching = FALSE])
    /\ StorageOnly

\* The file is gone; or the link is more than five minutes old, or the network fails.
FileFails(p) ==
    /\ press[p].at = "fetch"
    /\ IF press[p].key \in object THEN FaultOnly ELSE StorageOnly
    /\ ViewerGets(p, [viewer EXCEPT !.fileError = TRUE, !.fetching = FALSE])

\* The page's part of it.
ClosePreview(v) == [v EXCEPT !.selected = Absent, !.link = Absent, !.linkError = FALSE]

\* The effect is cleaned up; nobody resets isFetchingBlob.
CloseViewer ==
    /\ viewer.selected # Absent
    /\ press' = Deactivated
    /\ viewer' = [ClosePreview(viewer) EXCEPT !.blob = Absent, !.fileError = FALSE]
    /\ StorageOnly

-----------------------------------------------------------------------------
FilesStep == Next /\ NothingReused /\ UNCHANGED <<press, viewer>>

VNext ==
    \/ FilesStep
    \/ \E p \in Presses :
          \/ \E t \in Txns : Preview(p, t)
          \/ SignLink(p) \/ OpenLink(p) \/ SameLink(p) \/ LinkRefused(p) \/ LinkFails(p)
          \/ FileArrives(p) \/ FileFails(p)
    \/ CloseViewer

VSpec == VInit /\ [][VNext]_viewerVars

-----------------------------------------------------------------------------
\* What AttachmentPreview renders as the receipt.
Rendered == /\ viewer.selected # Absent /\ viewer.blob # Absent
         /\ ~ viewer.loading /\ ~ viewer.fetching /\ ~ viewer.linkError /\ ~ viewer.fileError

\* The viewer shows the receipt of the transaction the page has selected, as long as that is
\* there: links and files may come in another order than they were asked for, fail, or come
\* after the viewer was closed and opened again.
PreviewIsItsOwn == Rendered /\ viewer.selected \in Saved => viewer.blob = row[viewer.selected].key
===============================================================================
