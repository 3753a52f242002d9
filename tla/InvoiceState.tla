------------------------------ MODULE InvoiceState ------------------------------
(***************************************************************************)
(* The documents of all events, the files behind them, and the expense     *)
(* lines that claim an invoice on the strength of a document.  Uploads and *)
(* claims are transactions of a session: checked when they read, written   *)
(* when they commit.                                                       *)
(***************************************************************************)
EXTENDS Integers, Sequences

CONSTANTS
    Events,      \* proposals, and the events they become
    Files,       \* contents of files
    Invoices,    \* vendor, number and date of an invoice
    Lines,       \* identities of expense lines
    Sessions,    \* database sessions open at a time
    NoInvoice,   \* a voucher without an invoice number
    NoHash,      \* the hash of a document that was stored without one
    MaxUploads   \* bound on the files ever written

ASSUME NoInvoiceAssumption == NoInvoice \notin Invoices
ASSUME NoHashAssumption == NoHash \notin Files
ASSUME UploadsAssumption == MaxUploads \in Nat

VARIABLES
    phase,      \* how far each event is
    disk,       \* contents of the files written, in the order of their paths
    documents,  \* the Document rows
    lines,      \* the ActualExpense rows
    session     \* the transaction each session has open

vars == <<phase, disk, documents, lines, session>>

-----------------------------------------------------------------------------
\* REVISION_REQUIRED is DRAFT, every other status of a proposal before its approval
\* IN_REVIEW, and ARCHIVED is CLOSED.
Phases == {"DRAFT", "IN_REVIEW", "SCHEDULED", "IN_PROGRESS", "COMPLETED", "CANCELLED", "CLOSED"}

Kinds == {"proposal", "photo", "invoice", "income", "proof"}
Hashed == {"invoice", "income", "proof"}

Document == [event : Events, kind : Kinds, hash : Files \cup {NoHash},
             path : 1 .. MaxUploads, active : BOOLEAN]

\* VERIFIED stands for PARTIALLY_VERIFIED too; NONE is a row that does not exist.
LineStatuses == {"NONE", "DRAFT", "SUBMITTED", "QUERIED", "VERIFIED", "DISALLOWED"}
Line == [event : Events, invoice : Invoices \cup {NoInvoice},
         bill : 1 .. MaxUploads, status : LineStatuses \ {"NONE"}]
NoLine == [status |-> "NONE"]

\* An open transaction and what it will write.
Idle == [op |-> "idle"]
Transaction ==
    {Idle}
    \cup [op : {"upload"}, row : Document]
    \cup [op : {"delete"}, document : 1 .. MaxUploads]
    \cup [op : {"create"}, row : Line]
    \cup [op : {"update"}, line : Lines, row : Line]

TypeOK ==
    /\ phase \in [Events -> Phases]
    /\ disk \in Seq(Files)
    /\ Len(disk) <= MaxUploads
    /\ documents \in Seq(Document)
    /\ lines \in [Lines -> Line \cup {NoLine}]
    /\ session \in [Sessions -> Transaction]

Init ==
    /\ phase = [e \in Events |-> "DRAFT"]
    /\ disk = <<>>
    /\ documents = <<>>
    /\ lines = [x \in Lines |-> NoLine]
    /\ session = [s \in Sessions |-> Idle]
===============================================================================
