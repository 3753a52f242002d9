----------------------------- MODULE DocumentService -----------------------------
(***************************************************************************)
(* Uploading and deleting documents (DocumentService).  The file is        *)
(* written between the checks and the row, and no file is ever removed.    *)
(***************************************************************************)
EXTENDS InvoiceState

Open(s, transaction) == session' = [session EXCEPT ![s] = transaction]

\* The transaction is rolled back: an error, or the end of the process.  A file it
\* wrote stays.
Rollback(s) ==
    /\ session[s].op # "idle"
    /\ Open(s, Idle)
    /\ UNCHANGED <<phase, disk, documents, lines>>

\* The statuses in which each kind of document is accepted.
AcceptedIn(kind) ==
    CASE kind = "proposal" -> {"DRAFT"}
      [] kind = "photo"    -> {"IN_PROGRESS", "COMPLETED"}
      [] kind = "proof"    -> {"SCHEDULED", "IN_PROGRESS", "COMPLETED", "CANCELLED"}
      [] OTHER             -> {"COMPLETED"}

\* The active invoice documents with this content, of this event and of others.
SameEventBill(e, file) ==
    {d \in DOMAIN documents : /\ documents[d].active
                              /\ documents[d].kind = "invoice"
                              /\ documents[d].hash = file
                              /\ documents[d].event = e}

OtherEventsBill(e, file) ==
    {d \in DOMAIN documents : /\ documents[d].active
                              /\ documents[d].kind = "invoice"
                              /\ documents[d].hash = file
                              /\ documents[d].event # e}

\* The bill is refused when another event has it, and nothing is stored when this
\* event has it: the handler returns the document there is.
Upload(s, e, kind, file, path) ==
    /\ session[s].op = "idle"
    /\ phase[e] \in AcceptedIn(kind)
    /\ kind = "invoice" => SameEventBill(e, file) = {} /\ OtherEventsBill(e, file) = {}
    /\ Len(disk) < MaxUploads
    /\ disk' = Append(disk, file)
    /\ Open(s, [op |-> "upload",
                row |-> [event |-> e, kind |-> kind, path |-> path, active |-> TRUE,
                         hash |-> IF kind \in Hashed THEN file ELSE NoHash]])
    /\ UNCHANGED <<phase, documents, lines>>

\* Slip: files are stored under the number of rows instead of a name of their own.
WriteFileByRow(s, e, kind, file) == Upload(s, e, kind, file, Len(documents) + 1)

\* A name nobody has used.
WriteFile(s, e, kind, file) == Upload(s, e, kind, file, Len(disk) + 1)

CommitUpload(s) ==
    /\ session[s].op = "upload"
    /\ documents' = Append(documents, session[s].row)
    /\ Open(s, Idle)
    /\ UNCHANGED <<phase, disk, lines>>

\* Slip: a document may be deleted whatever its event's status.
ReadDocumentAnyStatus(s, d) ==
    /\ session[s].op = "idle"
    /\ documents[d].active
    /\ Open(s, [op |-> "delete", document |-> d])
    /\ UNCHANGED <<phase, disk, documents, lines>>

\* delete_document, which keeps the file; only while the proposal is being written.
ReadDocument(s, d) ==
    /\ session[s].op = "idle"
    /\ phase[documents[d].event] = "DRAFT"
    /\ documents[d].active
    /\ Open(s, [op |-> "delete", document |-> d])
    /\ UNCHANGED <<phase, disk, documents, lines>>

CommitDelete(s) ==
    /\ session[s].op = "delete"
    /\ documents' = [documents EXCEPT ![session[s].document].active = FALSE]
    /\ Open(s, Idle)
    /\ UNCHANGED <<phase, disk, lines>>

DocumentNext ==
    \E s \in Sessions :
        \/ \E e \in Events, kind \in Kinds, file \in Files : WriteFile(s, e, kind, file)
        \/ CommitUpload(s)
        \/ \E d \in DOMAIN documents : ReadDocument(s, d)
        \/ CommitDelete(s)
        \/ Rollback(s)
===============================================================================
