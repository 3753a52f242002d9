----------------------------- MODULE InvoiceProofs -----------------------------
(***************************************************************************)
(* Theorems about InvoiceLedger: the stored files for any number of        *)
(* sessions, the bills and the claims for requests one after the other.    *)
(***************************************************************************)
EXTENDS InvoiceLedger, FiniteSetTheorems, TLAPS

-----------------------------------------------------------------------------
(* Open transactions *)

\* What each kind of open transaction holds.
LEMMA Opened ==
  ASSUME TypeOK, NEW s \in Sessions
  PROVE  /\ session[s].op \in {"idle", "upload", "delete", "create", "update"}
         /\ session[s].op = "upload" => session[s].row \in Document
         /\ session[s].op = "delete" => session[s].document \in 1 .. MaxUploads
         /\ session[s].op = "create" => session[s].row \in Line
         /\ session[s].op = "update" => session[s].line \in Lines /\ session[s].row \in Line
BY DEF TypeOK, Transaction, Idle

\* A line that exists is a row.
LEMMA LineRow ==
  ASSUME TypeOK, NEW x \in Lines, lines[x].status # "NONE"
  PROVE  lines[x] \in Line
BY DEF TypeOK, NoLine

\* Opening or ending a transaction leaves the others alone.
LEMMA OpenedType ==
  ASSUME TypeOK, NEW s \in Sessions, NEW t \in Transaction, Open(s, t)
  PROVE  /\ session' \in [Sessions -> Transaction]
         /\ session'[s] = t
         /\ \A r \in Sessions : r # s => session'[r] = session[r]
BY DEF TypeOK, Open

-----------------------------------------------------------------------------
(* Files, whatever overlaps *)

\* A file is behind the row, with the content that was hashed.
HasFile(row) == row.path \in 1 .. Len(disk) /\ row.hash \in {NoHash, disk[row.path]}

Uploading(s) == session[s].op = "upload"

\* The files of documents and of open uploads are there, and each has one owner.
FileInv ==
    /\ \A d \in 1 .. Len(documents) : HasFile(documents[d])
    /\ \A s \in Sessions : Uploading(s) => HasFile(session[s].row)
    /\ \A c, d \in 1 .. Len(documents) : documents[c].path = documents[d].path => c = d
    /\ \A s \in Sessions, d \in 1 .. Len(documents) :
          Uploading(s) => session[s].row.path # documents[d].path
    /\ \A s, t \in Sessions :
          (Uploading(s) /\ Uploading(t) /\ session[s].row.path = session[t].row.path) => s = t

StoreInv == TypeOK /\ FileInv

\* There are no more documents than files.
LEMMA DocumentsFit == StoreInv => 1 .. Len(documents) \subseteq 1 .. MaxUploads
<1> SUFFICES ASSUME StoreInv PROVE Len(documents) <= MaxUploads
  BY UploadsAssumption DEF StoreInv, TypeOK
<1> DEFINE m == Len(documents)
           n == Len(disk)
           f == [d \in 1 .. m |-> documents[d].path]
<1>1. m \in Nat /\ n \in Nat /\ n <= MaxUploads
  BY DEF StoreInv, TypeOK
<1>2. f \in [1 .. m -> 1 .. n]
  BY DEF StoreInv, FileInv, HasFile
<1>3. \A c, d \in 1 .. m : f[c] = f[d] => c = d
  BY DEF StoreInv, FileInv
<1> HIDE DEF m, n, f
<1>4. \A k \in Nat : IsFiniteSet(1 .. k) /\ Cardinality(1 .. k) = k
  <2> TAKE k \in Nat
  <2>1. 1 \in Int /\ k \in Int
    OBVIOUS
  <2>2. IsFiniteSet(1 .. k) /\ Cardinality(1 .. k) = IF 1 > k THEN 0 ELSE k - 1 + 1
    BY ONLY <2>1, FS_Interval
  <2> QED
    BY <2>2
<1>5. ASSUME n < m PROVE FALSE
  <2>1. Cardinality(1 .. n) < Cardinality(1 .. m)
    BY <1>1, <1>4, <1>5
  <2>2. \E c, d \in 1 .. m : c # d /\ f[c] = f[d]
    BY <1>1, <1>2, <1>4, <2>1, FS_PigeonHole
  <2> QED
    BY <1>3, <2>2
<1> QED
  BY <1>1, <1>5, UploadsAssumption DEF m

\* A transaction that is no upload is opened or ended: the files are as they were.
LEMMA FilesKept ==
  ASSUME StoreInv, NEW s \in Sessions, NEW t \in Transaction, t.op # "upload", Open(s, t),
         UNCHANGED <<disk, documents>>
  PROVE  FileInv'
<1>1. /\ session'[s] = t
      /\ \A r \in Sessions : r # s => session'[r] = session[r]
  BY OpenedType DEF StoreInv
<1>2. \A r \in Sessions : Uploading(r)' => Uploading(r) /\ session'[r] = session[r]
  BY <1>1 DEF Uploading
<1> QED
  BY <1>2 DEF StoreInv, FileInv, HasFile

LEMMA IdleType == Idle \in Transaction /\ Idle.op = "idle"
BY DEF Idle, Transaction

\* Opening a transaction that has not written anything.
LEMMA StoreOpened ==
  ASSUME StoreInv, NEW s \in Sessions, NEW t \in Transaction, t.op # "upload", Open(s, t),
         UNCHANGED <<phase, disk, documents, lines>>
  PROVE  StoreInv'
<1>1. FileInv'
  BY FilesKept
<1>2. session' \in [Sessions -> Transaction]
  BY OpenedType DEF StoreInv
<1> QED
  BY <1>1, <1>2 DEF StoreInv, TypeOK

LEMMA StoreWritten ==
  ASSUME StoreInv, NEW s \in Sessions, NEW e \in Events, NEW kind \in Kinds, NEW file \in Files,
         WriteFile(s, e, kind, file)
  PROVE  StoreInv'
<1> DEFINE row == [event |-> e, kind |-> kind, path |-> Len(disk) + 1, active |-> TRUE,
                   hash |-> IF kind \in Hashed THEN file ELSE NoHash]
           t == [op |-> "upload", row |-> row]
<1>0. /\ disk \in Seq(Files) /\ Len(disk) \in Nat /\ Len(disk) < MaxUploads
      /\ disk' = Append(disk, file) /\ Open(s, t)
      /\ UNCHANGED <<phase, documents, lines>>
  BY DEF WriteFile, Upload, StoreInv, TypeOK
<1>1. row \in Document
  <2>1. Len(disk) + 1 \in 1 .. MaxUploads
    BY <1>0, UploadsAssumption
  <2>2. (IF kind \in Hashed THEN file ELSE NoHash) \in Files \cup {NoHash}
    OBVIOUS
  <2> QED
    BY <2>1, <2>2 DEF Document
<1>2. t \in Transaction
  BY <1>1 DEF Transaction
<1>3. /\ session' \in [Sessions -> Transaction]
      /\ session'[s] = t
      /\ \A r \in Sessions : r # s => session'[r] = session[r]
  BY <1>0, <1>2, OpenedType DEF StoreInv
<1>4. /\ disk' \in Seq(Files) /\ Len(disk') = Len(disk) + 1
      /\ \A k \in 1 .. Len(disk) : disk'[k] = disk[k]
      /\ disk'[Len(disk) + 1] = file
  BY <1>0
<1>5. TypeOK'
  BY <1>0, <1>3, <1>4, UploadsAssumption DEF StoreInv, TypeOK
<1>6. t.op = "upload" /\ t.row.path = Len(disk) + 1 /\ t.row.hash \in {NoHash, file}
  OBVIOUS
<1> HIDE DEF t, row
<1>7. \A r \in Sessions : Uploading(r) => session[r].row.path \in 1 .. Len(disk)
                                          /\ session[r].row.path # Len(disk) + 1
  BY <1>0 DEF StoreInv, FileInv, HasFile
<1>8. \A d \in 1 .. Len(documents) : documents[d].path # Len(disk) + 1
  BY <1>0 DEF StoreInv, FileInv, HasFile
<1>9. \A d \in 1 .. Len(documents) : HasFile(documents[d])'
  BY <1>0, <1>4 DEF StoreInv, FileInv, HasFile
<1>10. \A r \in Sessions : Uploading(r)' => HasFile(session[r].row)'
  BY <1>0, <1>3, <1>4, <1>6 DEF StoreInv, FileInv, HasFile, Uploading
<1>11. \A r \in Sessions, d \in 1 .. Len(documents) :
          Uploading(r)' => session'[r].row.path # documents[d].path
  BY <1>3, <1>6, <1>8 DEF StoreInv, FileInv, Uploading
<1>12. \A r, q \in Sessions :
          (Uploading(r)' /\ Uploading(q)' /\ session'[r].row.path = session'[q].row.path) => r = q
  BY <1>3, <1>6, <1>7 DEF StoreInv, FileInv, Uploading
<1>13. FileInv'
  BY <1>0, <1>9, <1>10, <1>11, <1>12 DEF StoreInv, FileInv
<1> QED
  BY <1>5, <1>13 DEF StoreInv

LEMMA StoreCommitted ==
  ASSUME StoreInv, NEW s \in Sessions, CommitUpload(s)
  PROVE  StoreInv'
<1> DEFINE row == session[s].row
<1>0. /\ documents' = Append(documents, row) /\ Open(s, Idle) /\ Uploading(s)
      /\ UNCHANGED <<phase, disk, lines>>
  BY DEF CommitUpload, Uploading
<1>1. row \in Document
  BY <1>0, Opened DEF StoreInv, Uploading
<1>2. /\ session' \in [Sessions -> Transaction]
      /\ session'[s].op = "idle"
      /\ \A r \in Sessions : r # s => session'[r] = session[r]
  BY <1>0, IdleType, OpenedType DEF StoreInv
<1>3. /\ documents \in Seq(Document) /\ Len(documents) \in Nat
      /\ documents' \in Seq(Document) /\ Len(documents') = Len(documents) + 1
      /\ \A d \in 1 .. Len(documents) : documents'[d] = documents[d]
      /\ documents'[Len(documents) + 1] = row
  BY <1>0, <1>1 DEF StoreInv, TypeOK
<1>4. TypeOK'
  BY <1>0, <1>2, <1>3 DEF StoreInv, TypeOK
<1>5. \A r \in Sessions : Uploading(r)' => r # s /\ Uploading(r) /\ session'[r] = session[r]
  BY <1>2 DEF Uploading
<1>6. HasFile(row) /\ \A d \in 1 .. Len(documents) : row.path # documents[d].path
  BY <1>0 DEF StoreInv, FileInv
<1>7. \A r \in Sessions : Uploading(r)' => session[r].row.path # row.path
  BY <1>0, <1>5 DEF StoreInv, FileInv
<1> HIDE DEF row
<1>8. \A d \in 1 .. Len(documents') : HasFile(documents'[d])
  BY <1>3, <1>6 DEF StoreInv, FileInv
<1>9. \A c, d \in 1 .. Len(documents') : documents'[c].path = documents'[d].path => c = d
  BY <1>3, <1>6 DEF StoreInv, FileInv
<1>10. \A r \in Sessions, d \in 1 .. Len(documents') :
          Uploading(r)' => session'[r].row.path # documents'[d].path
  BY <1>3, <1>5, <1>7 DEF StoreInv, FileInv
<1>11. FileInv'
  BY <1>0, <1>5, <1>8, <1>9, <1>10 DEF StoreInv, FileInv, HasFile
<1> QED
  BY <1>4, <1>11 DEF StoreInv

Deleted(row) == [row EXCEPT !.active = FALSE]

LEMMA DeletedRow ==
  ASSUME NEW row \in Document
  PROVE  /\ Deleted(row) \in Document
         /\ Deleted(row).path = row.path /\ Deleted(row).hash = row.hash
         /\ Deleted(row).event = row.event /\ Deleted(row).kind = row.kind
         /\ Deleted(row).active = FALSE
BY DEF Document, Deleted

\* The document that an open deletion has read.
LEMMA StoreDeleted ==
  ASSUME StoreInv, NEW s \in Sessions, CommitDelete(s)
  PROVE  StoreInv'
<1> DEFINE n == session[s].document
<1>0. /\ documents' = [documents EXCEPT ![n].active = FALSE] /\ Open(s, Idle)
      /\ UNCHANGED <<phase, disk, lines>>
  BY DEF CommitDelete
<1>1. /\ documents' \in Seq(Document) /\ Len(documents') = Len(documents)
      /\ \A d \in 1 .. Len(documents) : /\ documents'[d].path = documents[d].path
                                        /\ documents'[d].hash = documents[d].hash
  <2>1. documents \in Seq(Document)
    BY DEF StoreInv, TypeOK
  <2>2. Len(documents) \in Nat /\ documents \in [1 .. Len(documents) -> Document]
    BY <2>1
  <2>3. \A d \in 1 .. Len(documents) :
           documents'[d] = IF d = n THEN Deleted(documents[d]) ELSE documents[d]
    BY <1>0, <2>2 DEF Deleted
  <2>4. \A d \in 1 .. Len(documents) : documents'[d] \in Document
    BY <2>2, <2>3, DeletedRow
  <2>5. documents' = [d \in 1 .. Len(documents) |-> documents'[d]]
    BY <1>0, <2>2
  <2>6. documents' \in Seq(Document) /\ Len(documents') = Len(documents)
    BY <2>2, <2>4, <2>5
  <2> QED
    BY <2>2, <2>3, <2>6, DeletedRow
<1>2. /\ session' \in [Sessions -> Transaction]
      /\ session'[s].op = "idle"
      /\ \A r \in Sessions : r # s => session'[r] = session[r]
  BY <1>0, IdleType, OpenedType DEF StoreInv
<1>3. TypeOK'
  BY <1>0, <1>1, <1>2 DEF StoreInv, TypeOK
<1>4. \A r \in Sessions : Uploading(r)' => Uploading(r) /\ session'[r] = session[r]
  BY <1>2 DEF Uploading
<1>5. FileInv'
  BY <1>0, <1>1, <1>4 DEF StoreInv, FileInv, HasFile
<1> QED
  BY <1>3, <1>5 DEF StoreInv

\* Steps of the ledger and of the events leave the documents and every open upload alone.
LEMMA StoreLines ==
  ASSUME StoreInv, lines' \in [Lines -> Line \cup {NoLine}],
         UNCHANGED <<phase, disk, documents, session>>
  PROVE  StoreInv'
BY DEF StoreInv, TypeOK, FileInv, HasFile, Uploading

LEMMA StoreClosed ==
  ASSUME StoreInv, NEW s \in Sessions, lines' \in [Lines -> Line \cup {NoLine}], Open(s, Idle),
         UNCHANGED <<phase, disk, documents>>
  PROVE  StoreInv'
<1>1. FileInv'
  BY FilesKept, IdleType
<1>2. session' \in [Sessions -> Transaction]
  BY OpenedType, IdleType DEF StoreInv
<1> QED
  BY <1>1, <1>2 DEF StoreInv, TypeOK

\* A line may be given another status, invoice or bill.
LEMMA ChangedLine ==
  ASSUME NEW row \in Line, NEW status \in LineStatuses \ {"NONE"},
         NEW i \in Invoices \cup {NoInvoice}, NEW d \in 1 .. MaxUploads
  PROVE  /\ [row EXCEPT !.status = status] \in Line
         /\ [row EXCEPT !.invoice = i, !.bill = d] \in Line
         /\ [row EXCEPT !.status = status].status = status
         /\ [row EXCEPT !.status = status].event = row.event
         /\ [row EXCEPT !.status = status].invoice = row.invoice
         /\ [row EXCEPT !.status = status].bill = row.bill
         /\ [row EXCEPT !.invoice = i, !.bill = d].status = row.status
         /\ [row EXCEPT !.invoice = i, !.bill = d].event = row.event
         /\ [row EXCEPT !.invoice = i, !.bill = d].invoice = i
         /\ [row EXCEPT !.invoice = i, !.bill = d].bill = d
BY DEF Line

\* What deleting, submitting and auditing do to a line.
LineStep(x) ==
    /\ ~Locked(x)
    /\ lines[x] \in Line
    /\ \/ lines[x].status \in Editable /\ lines' = [lines EXCEPT ![x] = NoLine]
       \/ \E status \in LineStatuses \ {"NONE"} :
             /\ lines' = [lines EXCEPT ![x] = [lines[x] EXCEPT !.status = status]]
             /\ lines[x].status # "DISALLOWED"
    /\ UNCHANGED <<phase, disk, documents, session>>

LEMMA LineSteps ==
  ASSUME TypeOK, NEW x \in Lines,
         \/ DeleteDraftExpense(x)
         \/ SubmitExpenses(x)
         \/ \E decision \in {"VERIFIED", "QUERIED", "DISALLOWED"} : AuditExpense(x, decision)
  PROVE  LineStep(x)
<1>1. lines[x].status \in Editable \cup {"SUBMITTED"}
  BY DEF DeleteDraftExpense, SubmitExpenses, AuditExpense
<1>2. lines[x] \in Line /\ lines[x].status # "DISALLOWED"
  BY <1>1, LineRow DEF Editable
<1>3. CASE DeleteDraftExpense(x)
  BY <1>2, <1>3 DEF DeleteDraftExpense, SetLine, LineStep
<1>4. CASE SubmitExpenses(x)
  BY <1>2, <1>4 DEF SubmitExpenses, SetLine, LineStep, LineStatuses
<1>5. CASE \E decision \in {"VERIFIED", "QUERIED", "DISALLOWED"} : AuditExpense(x, decision)
  BY <1>2, <1>5 DEF AuditExpense, SetLine, LineStep, LineStatuses
<1> QED
  BY <1>3, <1>4, <1>5

LEMMA StoreStep == StoreInv /\ [Next]_vars => StoreInv'
<1> SUFFICES ASSUME StoreInv, [Next]_vars PROVE StoreInv'
  OBVIOUS
<1>t. TypeOK
  BY DEF StoreInv
<1>1. ASSUME NEW s \in Sessions, NEW e \in Events, NEW kind \in Kinds, NEW file \in Files,
             WriteFile(s, e, kind, file)
      PROVE  StoreInv'
  BY <1>1, StoreWritten
<1>2. ASSUME NEW s \in Sessions, CommitUpload(s) PROVE StoreInv'
  BY <1>2, StoreCommitted
<1>3. ASSUME NEW s \in Sessions, NEW d \in DOMAIN documents, ReadDocument(s, d) PROVE StoreInv'
  <2>1. d \in 1 .. MaxUploads
    BY <1>t, DocumentsFit DEF TypeOK
  <2> DEFINE t == [op |-> "delete", document |-> d]
  <2>2. t \in Transaction /\ t.op # "upload"
    BY <2>1 DEF Transaction
  <2> QED
    BY <1>3, <2>2, StoreOpened DEF ReadDocument
<1>4. ASSUME NEW s \in Sessions, CommitDelete(s) PROVE StoreInv'
  BY <1>4, StoreDeleted
<1>5. ASSUME NEW s \in Sessions, Rollback(s) PROVE StoreInv'
  <2>1. Idle \in Transaction /\ Idle.op # "upload"
    BY IdleType
  <2> QED
    BY <1>5, <2>1, StoreOpened DEF Rollback
<1>6. ASSUME NEW s \in Sessions, NEW x \in Lines, NEW i \in Invoices \cup {NoInvoice},
             NEW d \in DOMAIN documents, NEW e \in Events, ReadForCreate(s, x, e, i, d)
      PROVE  StoreInv'
  <2> DEFINE row == [event |-> e, invoice |-> i, bill |-> d, status |-> "DRAFT"]
             t == [op |-> "create", row |-> row]
  <2>1. d \in 1 .. MaxUploads
    BY <1>t, DocumentsFit DEF TypeOK
  <2>2. row \in Line
    BY <2>1 DEF Line, LineStatuses
  <2>3. t \in Transaction /\ t.op # "upload"
    BY <2>2 DEF Transaction
  <2> QED
    BY <1>6, <2>3, StoreOpened DEF ReadForCreate
<1>7. ASSUME NEW s \in Sessions, NEW x \in Lines, CreateDraftExpense(s, x) PROVE StoreInv'
  <2>1. session[s].row \in Line /\ lines' = [lines EXCEPT ![x] = session[s].row]
    BY <1>t, <1>7, Opened DEF CreateDraftExpense
  <2>2. lines' \in [Lines -> Line \cup {NoLine}]
    BY <1>t, <2>1 DEF TypeOK
  <2> QED
    BY <1>7, <2>2, StoreClosed DEF CreateDraftExpense
<1>8. ASSUME NEW s \in Sessions, NEW x \in Lines, NEW i \in Invoices \cup {NoInvoice},
             NEW d \in DOMAIN documents, ReadForUpdate(s, x, i, d)
      PROVE  StoreInv'
  <2> DEFINE row == [lines[x] EXCEPT !.invoice = i, !.bill = d]
             t == [op |-> "update", line |-> x, row |-> row]
  <2>1. d \in 1 .. MaxUploads
    BY <1>t, DocumentsFit DEF TypeOK
  <2>2. lines[x] \in Line
    BY <1>t, <1>8, LineRow DEF ReadForUpdate, Editable
  <2>3. row \in Line
    BY <2>1, <2>2 DEF Line
  <2>4. t \in Transaction /\ t.op # "upload"
    BY <2>3 DEF Transaction
  <2> QED
    BY <1>8, <2>4, StoreOpened DEF ReadForUpdate
<1>9. ASSUME NEW s \in Sessions, UpdateExpense(s) PROVE StoreInv'
  <2>1. session[s].row \in Line /\ lines' = [lines EXCEPT ![session[s].line] = session[s].row]
    BY <1>t, <1>9, Opened DEF UpdateExpense
  <2>2. lines' \in [Lines -> Line \cup {NoLine}]
    BY <1>t, <2>1 DEF TypeOK
  <2> QED
    BY <1>9, <2>2, StoreClosed DEF UpdateExpense
<1>10. ASSUME NEW x \in Lines, LineStep(x) PROVE StoreInv'
  <2>1. lines' \in [Lines -> Line \cup {NoLine}]
    BY <1>t, <1>10 DEF LineStep, TypeOK, Line
  <2> QED
    BY <1>10, <2>1, StoreLines DEF LineStep
<1>11. ASSUME NEW e \in Events, NEW to \in Phases, MoveEvent(e, to) PROVE StoreInv'
  BY <1>t, <1>11 DEF MoveEvent, StoreInv, TypeOK, FileInv, HasFile, Uploading
<1>12. CASE UNCHANGED vars
  BY <1>12 DEF vars, StoreInv, TypeOK, FileInv, HasFile, Uploading
<1>13. CASE DocumentNext
  BY <1>13, <1>1, <1>2, <1>3, <1>4, <1>5 DEF DocumentNext
<1>14. CASE LedgerNext
  BY <1>t, <1>14, <1>6, <1>7, <1>8, <1>9, <1>10, LineSteps DEF LedgerNext
<1> QED
  BY <1>11, <1>12, <1>13, <1>14 DEF Next

LEMMA StoreInit == Init => StoreInv
<1> SUFFICES ASSUME Init PROVE StoreInv
  OBVIOUS
<1>1. Idle \in Transaction /\ Idle.op = "idle"
  BY IdleType
<1>2. TypeOK
  BY <1>1, UploadsAssumption DEF Init, TypeOK, Phases
<1>3. FileInv
  BY <1>1 DEF Init, FileInv, Uploading
<1> QED
  BY <1>2, <1>3 DEF StoreInv

LEMMA StoreAlways == Spec => []StoreInv
BY StoreInit, StoreStep, PTL DEF Spec

\* The rows have their types, whatever sessions overlap.
THEOREM TypeCorrect == Spec => []TypeOK
<1>1. StoreInv => TypeOK
  BY DEF StoreInv
<1> QED
  BY <1>1, StoreAlways, PTL

\* Every document has the file that was uploaded for it and shares it with no other,
\* however many uploads overlap, fail or are rolled back.
THEOREM FilesAreStored == Spec => []StoredFile
<1>1. StoreInv => StoredFile
  <2>1. StoreInv => DOMAIN documents = 1 .. Len(documents) /\ DOMAIN disk = 1 .. Len(disk)
    BY DEF StoreInv, TypeOK
  <2> QED
    BY <2>1 DEF StoreInv, FileInv, HasFile, StoredFile
<1> QED
  BY <1>1, StoreAlways, PTL

-----------------------------------------------------------------------------
(* Bills and claims, one request after the other *)

OneAtATime == \A s, t \in Sessions : s = t

\* Events that lines can be of.
Held == {"COMPLETED", "CLOSED"}

Exists(x) == lines[x].status # "NONE"
Counts(x) == lines[x].status \notin {"NONE", "DISALLOWED"}

IsBill(d) == documents[d].active /\ documents[d].kind = "invoice"

\* The line, written or to be written, has an accepted bill and its event is over.
LineOK(row) ==
    /\ row.bill \in 1 .. Len(documents)
    /\ BillAccepted(row.event, row.bill)
    /\ phase[row.event] \in Held

\* The lines other than x do not contradict what the row claims.
Agrees(row, x) ==
    row.invoice # NoInvoice =>
        \A y \in Lines : (y # x /\ Counts(y) /\ lines[y].invoice = row.invoice) =>
            lines[y].event = row.event /\ lines[y].bill = row.bill

\* What an open transaction has checked still holds.
OpenOK(t) ==
    /\ (t.op = "upload" /\ t.row.kind = "invoice") =>
          \A d \in 1 .. Len(documents) : IsBill(d) => documents[d].hash # t.row.hash
    /\ t.op = "delete" => /\ t.document \in 1 .. Len(documents)
                          /\ \A x \in Lines : Exists(x) => lines[x].bill # t.document
    /\ t.op = "create" => /\ t.row.status = "DRAFT" /\ LineOK(t.row)
                          /\ \A x \in Lines : Agrees(t.row, x)
    /\ t.op = "update" => /\ t.row.status \in Editable /\ LineOK(t.row)
                          /\ lines[t.line].status = t.row.status
                          /\ lines[t.line].event = t.row.event
                          /\ Agrees(t.row, t.line)

LedgerOK ==
    /\ \A c, d \in 1 .. Len(documents) :
          (IsBill(c) /\ IsBill(d) /\ documents[c].hash = documents[d].hash) => c = d
    /\ \A x \in Lines : Exists(x) => LineOK(lines[x])
    /\ \A x \in Lines : Counts(x) => Agrees(lines[x], x)

LedgerInv == StoreInv /\ LedgerOK /\ \A s \in Sessions : OpenOK(session[s])

LEMMA IdleOK == OpenOK(Idle)
BY DEF Idle, OpenOK

\* A transaction is opened with what it has just checked.
LEMMA LedgerRead ==
  ASSUME LedgerInv, OneAtATime, NEW s \in Sessions, NEW t \in Transaction, OpenOK(t), Open(s, t),
         UNCHANGED <<phase, documents, lines>>
  PROVE  LedgerOK' /\ \A r \in Sessions : OpenOK(session[r])'
<1>1. \A r \in Sessions : session'[r] = t
  BY OpenedType DEF OneAtATime, LedgerInv, StoreInv
<1>2. LedgerOK'
  BY DEF LedgerInv, LedgerOK, IsBill, Exists, Counts, LineOK, BillAccepted, Agrees
<1>3. \A r \in Sessions : OpenOK(session[r])'
  BY <1>1 DEF OpenOK, IsBill, Exists, Counts, LineOK, BillAccepted, Agrees
<1> QED
  BY <1>2, <1>3

\* It ends: nothing is open any more.
LEMMA AllIdle ==
  ASSUME TypeOK, OneAtATime, NEW s \in Sessions, Open(s, Idle)
  PROVE  \A r \in Sessions : OpenOK(session[r])'
<1>1. \A r \in Sessions : session'[r] = Idle
  BY OpenedType, IdleType DEF OneAtATime
<1> QED
  BY <1>1 DEF OpenOK, Idle

LEMMA UploadRead ==
  ASSUME LedgerInv, OneAtATime, NEW s \in Sessions, NEW e \in Events, NEW kind \in Kinds,
         NEW file \in Files, WriteFile(s, e, kind, file)
  PROVE  LedgerOK' /\ \A r \in Sessions : OpenOK(session[r])'
<1> DEFINE row == [event |-> e, kind |-> kind, path |-> Len(disk) + 1, active |-> TRUE,
                   hash |-> IF kind \in Hashed THEN file ELSE NoHash]
           t == [op |-> "upload", row |-> row]
<1>1. /\ Open(s, t) /\ UNCHANGED <<phase, documents, lines>>
      /\ kind = "invoice" => SameEventBill(e, file) = {} /\ OtherEventsBill(e, file) = {}
      /\ Len(disk) < MaxUploads /\ Len(disk) \in Nat /\ documents \in Seq(Document)
  BY DEF WriteFile, Upload, LedgerInv, StoreInv, TypeOK
<1>2. kind = "invoice" => row.hash = file
  BY DEF Hashed
<1>3. kind = "invoice" => \A d \in 1 .. Len(documents) : IsBill(d) => documents[d].hash # file
  <2> SUFFICES ASSUME kind = "invoice", NEW d \in 1 .. Len(documents), IsBill(d),
                      documents[d].hash = file
               PROVE  FALSE
    OBVIOUS
  <2>1. d \in DOMAIN documents
    BY <1>1
  <2>2. d \in SameEventBill(e, file) \cup OtherEventsBill(e, file)
    BY <2>1 DEF SameEventBill, OtherEventsBill, IsBill
  <2> QED
    BY <1>1, <2>2
<1>4. t.op = "upload" /\ t.row.kind = kind /\ (kind = "invoice" => t.row.hash = file)
  BY <1>2
<1>5. row \in Document
  <2>1. Len(disk) + 1 \in 1 .. MaxUploads
    BY <1>1, UploadsAssumption
  <2>2. (IF kind \in Hashed THEN file ELSE NoHash) \in Files \cup {NoHash}
    OBVIOUS
  <2> QED
    BY <2>1, <2>2 DEF Document
<1>6. t \in Transaction
  BY <1>5 DEF Transaction
<1> HIDE DEF t, row
<1>7. OpenOK(t)
  BY <1>3, <1>4 DEF OpenOK
<1> QED
  BY <1>1, <1>6, <1>7, LedgerRead

LEMMA UploadCommitted ==
  ASSUME LedgerInv, OneAtATime, NEW s \in Sessions, CommitUpload(s)
  PROVE  LedgerOK' /\ \A r \in Sessions : OpenOK(session[r])'
<1> DEFINE row == session[s].row
<1>0. /\ documents' = Append(documents, row) /\ Open(s, Idle) /\ session[s].op = "upload"
      /\ UNCHANGED <<phase, lines>>
  BY DEF CommitUpload
<1>1. \A r \in Sessions : OpenOK(session[r])'
  BY <1>0, AllIdle DEF LedgerInv, StoreInv
<1>2. row \in Document
  BY <1>0, Opened DEF LedgerInv, StoreInv
<1>3. /\ Len(documents) \in Nat /\ Len(documents') = Len(documents) + 1
      /\ \A d \in 1 .. Len(documents) : documents'[d] = documents[d]
      /\ documents'[Len(documents) + 1] = row
  BY <1>0, <1>2 DEF LedgerInv, StoreInv, TypeOK
<1>4. row.kind = "invoice" => \A d \in 1 .. Len(documents) : IsBill(d) => documents[d].hash # row.hash
  BY <1>0 DEF LedgerInv, OpenOK
<1> HIDE DEF row
<1>5. \A c, d \in 1 .. Len(documents') :
         (IsBill(c)' /\ IsBill(d)' /\ documents'[c].hash = documents'[d].hash) => c = d
  BY <1>3, <1>4 DEF LedgerInv, LedgerOK, IsBill
<1>6. \A x \in Lines : Exists(x)' => LineOK(lines[x])'
  BY <1>0, <1>3 DEF LedgerInv, LedgerOK, Exists, LineOK, BillAccepted
<1>7. LedgerOK'
  BY <1>0, <1>5, <1>6 DEF LedgerInv, LedgerOK, Counts, Agrees
<1> QED
  BY <1>1, <1>7

LEMMA DeleteRead ==
  ASSUME LedgerInv, OneAtATime, NEW s \in Sessions, NEW d \in DOMAIN documents, ReadDocument(s, d)
  PROVE  LedgerOK' /\ \A r \in Sessions : OpenOK(session[r])'
<1> DEFINE t == [op |-> "delete", document |-> d]
<1>1. d \in 1 .. Len(documents) /\ d \in 1 .. MaxUploads
  BY DocumentsFit DEF LedgerInv, StoreInv, TypeOK
<1>2. t \in Transaction /\ t.op = "delete" /\ t.document = d
  BY <1>1 DEF Transaction
<1>3. \A x \in Lines : Exists(x) => lines[x].bill # d
  BY DEF ReadDocument, LedgerInv, LedgerOK, LineOK, BillAccepted, Held
<1>4. Open(s, t) /\ UNCHANGED <<phase, documents, lines>>
  BY DEF ReadDocument
<1> HIDE DEF t
<1>5. OpenOK(t)
  BY <1>1, <1>2, <1>3 DEF OpenOK
<1> QED
  BY <1>2, <1>4, <1>5, LedgerRead

LEMMA DeleteCommitted ==
  ASSUME LedgerInv, OneAtATime, NEW s \in Sessions, CommitDelete(s)
  PROVE  LedgerOK' /\ \A r \in Sessions : OpenOK(session[r])'
<1> DEFINE n == session[s].document
<1>0. /\ documents' = [documents EXCEPT ![n].active = FALSE] /\ Open(s, Idle)
      /\ session[s].op = "delete" /\ UNCHANGED <<phase, lines>>
  BY DEF CommitDelete
<1>1. \A r \in Sessions : OpenOK(session[r])'
  BY <1>0, AllIdle DEF LedgerInv, StoreInv
<1>2. \A x \in Lines : Exists(x) => lines[x].bill # n
  BY <1>0 DEF LedgerInv, OpenOK
<1>3. Len(documents) \in Nat /\ documents \in [1 .. Len(documents) -> Document]
  BY DEF LedgerInv, StoreInv, TypeOK
<1>4. \A d \in 1 .. Len(documents) :
         documents'[d] = IF d = n THEN Deleted(documents[d]) ELSE documents[d]
  BY <1>0, <1>3 DEF Deleted
<1>5. documents' = [d \in 1 .. Len(documents) |-> documents'[d]]
  BY <1>0, <1>3
<1>6. Len(documents') = Len(documents)
  BY <1>3, <1>5
<1> HIDE DEF n
<1>7. \A d \in 1 .. Len(documents) : IsBill(d)' => IsBill(d) /\ documents'[d] = documents[d]
  BY <1>3, <1>4, DeletedRow DEF IsBill
<1>8. \A x \in Lines : Exists(x)' => LineOK(lines[x])'
  BY <1>0, <1>2, <1>4, <1>6 DEF LedgerInv, LedgerOK, Exists, LineOK, BillAccepted
<1>9. LedgerOK'
  BY <1>0, <1>6, <1>7, <1>8 DEF LedgerInv, LedgerOK, Counts, Agrees
<1> QED
  BY <1>1, <1>9

\* The duplicate check is what keeps the claims in agreement.
LEMMA CheckedAgrees ==
  ASSUME NEW e, NEW i, NEW d, NEW x, ~DuplicateInvoice(e, i, d, x),
         NEW row, row.event = e, row.invoice = i, row.bill = d
  PROVE  Agrees(row, x)
BY DEF DuplicateInvoice, Claims, Agrees, Counts

LEMMA CreateRead ==
  ASSUME LedgerInv, OneAtATime, NEW s \in Sessions, NEW x \in Lines, NEW e \in Events,
         NEW i \in Invoices \cup {NoInvoice}, NEW d \in DOMAIN documents,
         ReadForCreate(s, x, e, i, d)
  PROVE  LedgerOK' /\ \A r \in Sessions : OpenOK(session[r])'
<1> DEFINE row == [event |-> e, invoice |-> i, bill |-> d, status |-> "DRAFT"]
           t == [op |-> "create", row |-> row]
<1>0. /\ Open(s, t) /\ UNCHANGED <<phase, documents, lines>>
      /\ lines[x] = NoLine /\ phase[e] = "COMPLETED" /\ BillAccepted(e, d)
      /\ ~DuplicateInvoice(e, i, d, x)
  BY DEF ReadForCreate
<1>1. d \in 1 .. Len(documents) /\ d \in 1 .. MaxUploads
  BY DocumentsFit DEF LedgerInv, StoreInv, TypeOK
<1>2. row \in Line
  BY <1>1 DEF Line, LineStatuses
<1>3. t \in Transaction /\ t.op = "create" /\ t.row = row
  BY <1>2 DEF Transaction
<1>4. row.event = e /\ row.invoice = i /\ row.bill = d /\ row.status = "DRAFT"
  OBVIOUS
<1> HIDE DEF t, row
<1>5. LineOK(row)
  BY <1>0, <1>1, <1>4 DEF LineOK, Held
<1>6. Agrees(row, x)
  BY <1>0, <1>4, CheckedAgrees
<1>7. \A y \in Lines : Agrees(row, y)
  BY <1>0, <1>6 DEF Agrees, Counts, NoLine
<1>8. OpenOK(t)
  BY <1>3, <1>4, <1>5, <1>7 DEF OpenOK
<1> QED
  BY <1>0, <1>3, <1>8, LedgerRead

LEMMA UpdateRead ==
  ASSUME LedgerInv, OneAtATime, NEW s \in Sessions, NEW x \in Lines,
         NEW i \in Invoices \cup {NoInvoice}, NEW d \in DOMAIN documents,
         ReadForUpdate(s, x, i, d)
  PROVE  LedgerOK' /\ \A r \in Sessions : OpenOK(session[r])'
<1> DEFINE row == [lines[x] EXCEPT !.invoice = i, !.bill = d]
           t == [op |-> "update", line |-> x, row |-> row]
<1>0. /\ Open(s, t) /\ UNCHANGED <<phase, documents, lines>>
      /\ lines[x].status \in Editable
      /\ d # lines[x].bill => BillAccepted(lines[x].event, d)
      /\ ~DuplicateInvoice(lines[x].event, i, d, x)
  BY DEF ReadForUpdate
<1>1. d \in 1 .. Len(documents) /\ d \in 1 .. MaxUploads
  BY DocumentsFit DEF LedgerInv, StoreInv, TypeOK
<1>2. lines[x] \in Line /\ Exists(x)
  BY <1>0, LineRow DEF LedgerInv, StoreInv, Editable, Exists
<1>3. /\ row \in Line /\ row.event = lines[x].event /\ row.invoice = i /\ row.bill = d
      /\ row.status = lines[x].status
  BY <1>1, <1>2 DEF Line
<1>4. t \in Transaction /\ t.op = "update" /\ t.line = x /\ t.row = row
  BY <1>3 DEF Transaction
<1> HIDE DEF t, row
<1>5. LineOK(row)
  BY <1>0, <1>1, <1>2, <1>3 DEF LineOK, LedgerInv, LedgerOK
<1>6. Agrees(row, x)
  BY <1>0, <1>3, CheckedAgrees
<1>7. OpenOK(t)
  BY <1>0, <1>3, <1>4, <1>5, <1>6 DEF OpenOK
<1> QED
  BY <1>0, <1>4, <1>7, LedgerRead

\* A row that agrees with all other lines is written.
LEMMA LineWritten ==
  ASSUME LedgerInv, NEW x \in Lines, NEW row \in Line, LineOK(row), Agrees(row, x),
         lines' = [lines EXCEPT ![x] = row], UNCHANGED <<phase, documents>>
  PROVE  LedgerOK'
<1>1. /\ lines'[x] = row
      /\ \A y \in Lines : y # x => lines'[y] = lines[y]
  BY DEF LedgerInv, StoreInv, TypeOK
<1>2. \A y \in Lines : Exists(y)' => LineOK(lines[y])'
  BY <1>1 DEF LedgerInv, LedgerOK, Exists, LineOK, BillAccepted
<1>3. \A y \in Lines : Counts(y)' => Agrees(lines[y], y)'
  BY <1>1 DEF LedgerInv, LedgerOK, Counts, Agrees
<1> QED
  BY <1>2, <1>3 DEF LedgerInv, LedgerOK, IsBill

LEMMA CreateCommitted ==
  ASSUME LedgerInv, OneAtATime, NEW s \in Sessions, NEW x \in Lines, CreateDraftExpense(s, x)
  PROVE  LedgerOK' /\ \A r \in Sessions : OpenOK(session[r])'
<1>1. \A r \in Sessions : OpenOK(session[r])'
  BY AllIdle DEF CreateDraftExpense, LedgerInv, StoreInv
<1>2. session[s].row \in Line
  BY Opened DEF CreateDraftExpense, LedgerInv, StoreInv
<1>3. LineOK(session[s].row) /\ Agrees(session[s].row, x)
  BY DEF CreateDraftExpense, LedgerInv, OpenOK
<1>4. LedgerOK'
  BY <1>2, <1>3, LineWritten DEF CreateDraftExpense
<1> QED
  BY <1>1, <1>4

LEMMA UpdateCommitted ==
  ASSUME LedgerInv, OneAtATime, NEW s \in Sessions, UpdateExpense(s)
  PROVE  LedgerOK' /\ \A r \in Sessions : OpenOK(session[r])'
<1>1. \A r \in Sessions : OpenOK(session[r])'
  BY AllIdle DEF UpdateExpense, LedgerInv, StoreInv
<1>2. session[s].row \in Line /\ session[s].line \in Lines
  BY Opened DEF UpdateExpense, LedgerInv, StoreInv
<1>3. LineOK(session[s].row) /\ Agrees(session[s].row, session[s].line)
  BY DEF UpdateExpense, LedgerInv, OpenOK
<1>4. LedgerOK'
  BY <1>2, <1>3, LineWritten DEF UpdateExpense
<1> QED
  BY <1>1, <1>4

\* Deleting, submitting and auditing a line takes claims away and adds none.
LEMMA LineDecided ==
  ASSUME LedgerInv, NEW x \in Lines, LineStep(x)
  PROVE  LedgerOK' /\ \A r \in Sessions : OpenOK(session[r])'
<1>0. /\ lines[x] \in Line /\ lines \in [Lines -> Line \cup {NoLine}]
      /\ UNCHANGED <<phase, documents, session>>
      /\ \A r \in Sessions : session[r].op = "update" => session[r].line # x
  BY DEF LineStep, Locked, LedgerInv, StoreInv, TypeOK
<1>1. lines[x].status # "NONE"
  BY <1>0 DEF Line
<1>2. \A y \in Lines : y # x => lines'[y] = lines[y]
  BY <1>0 DEF LineStep
<1>3. lines[x].status # "DISALLOWED"
  BY DEF LineStep, Editable
<1>4. \/ lines'[x] = NoLine
      \/ /\ lines'[x].event = lines[x].event
         /\ lines'[x].invoice = lines[x].invoice
         /\ lines'[x].bill = lines[x].bill
  <2>1. CASE lines' = [lines EXCEPT ![x] = NoLine]
    BY <1>0, <2>1
  <2>2. CASE \E status \in LineStatuses \ {"NONE"} :
                lines' = [lines EXCEPT ![x] = [lines[x] EXCEPT !.status = status]]
    <3> PICK status \in LineStatuses \ {"NONE"} :
                lines' = [lines EXCEPT ![x] = [lines[x] EXCEPT !.status = status]]
      BY <2>2
    <3>1. lines'[x] = [lines[x] EXCEPT !.status = status]
      BY <1>0
    <3> QED
      BY <1>0, <3>1 DEF Line
  <2> QED
    BY <2>1, <2>2 DEF LineStep
<1>5. \A y \in Lines :
         Exists(y)' => /\ Exists(y) /\ lines'[y].event = lines[y].event
                       /\ lines'[y].invoice = lines[y].invoice /\ lines'[y].bill = lines[y].bill
  BY <1>1, <1>2, <1>4 DEF Exists, NoLine
<1>6. \A y \in Lines : Counts(y)' => Exists(y)' /\ Counts(y)
  BY <1>1, <1>2, <1>3 DEF Counts, Exists
<1>7. LedgerOK'
  <2>1. \A y \in Lines : Exists(y)' => LineOK(lines[y])'
    BY <1>0, <1>5 DEF LedgerInv, LedgerOK, LineOK, BillAccepted
  <2>2. \A y \in Lines : Counts(y)' => Agrees(lines[y], y)'
    BY <1>5, <1>6 DEF LedgerInv, LedgerOK, Agrees
  <2> QED
    BY <1>0, <2>1, <2>2 DEF LedgerInv, LedgerOK, IsBill
<1>8. \A r \in Sessions : OpenOK(session[r])'
  <2> TAKE r \in Sessions
  <2> DEFINE t == session[r]
  <2>1. OpenOK(t) /\ t = session'[r]
    BY <1>0 DEF LedgerInv
  <2>2. t.op = "update" => t.line \in Lines /\ lines'[t.line] = lines[t.line]
    BY <1>0, <1>2, Opened DEF LedgerInv, StoreInv
  <2>3. t.op = "create" => \A y \in Lines : Agrees(t.row, y)'
    BY <1>5, <1>6, <2>1 DEF OpenOK, Agrees
  <2> QED
    BY <1>0, <1>5, <1>6, <2>1, <2>2, <2>3 DEF OpenOK, LineOK, BillAccepted, IsBill, Agrees
<1> QED
  BY <1>7, <1>8

LEMMA EventMoved ==
  ASSUME LedgerInv, NEW e \in Events, NEW to \in Phases, MoveEvent(e, to)
  PROVE  LedgerOK' /\ \A r \in Sessions : OpenOK(session[r])'
<1>1. \A f \in Events : phase[f] \in Held => phase'[f] \in Held
  BY DEF MoveEvent, Moves, Held, LedgerInv, StoreInv, TypeOK
<1>2. UNCHANGED <<documents, lines, session>>
  BY DEF MoveEvent
<1>3. \A x \in Lines : Exists(x) => lines[x] \in Line
  BY LineRow DEF LedgerInv, StoreInv, Exists
<1>4. \A x \in Lines : Exists(x) => LineOK(lines[x])'
  BY <1>1, <1>2, <1>3 DEF LedgerInv, LedgerOK, LineOK, BillAccepted, Line
<1>5. LedgerOK'
  BY <1>2, <1>4 DEF LedgerInv, LedgerOK, IsBill, Exists, Counts, Agrees
<1>6. \A r \in Sessions : OpenOK(session[r])'
  <2> TAKE r \in Sessions
  <2> DEFINE t == session[r]
  <2>1. OpenOK(t) /\ t = session'[r] /\ (t.op \in {"create", "update"} => t.row \in Line)
    BY <1>2, Opened DEF LedgerInv, StoreInv
  <2>2. t.op \in {"create", "update"} => LineOK(t.row)'
    BY <1>1, <1>2, <2>1 DEF OpenOK, LineOK, BillAccepted, Line
  <2> QED
    BY <1>2, <2>1, <2>2 DEF OpenOK, IsBill, Exists, Counts, Agrees
<1> QED
  BY <1>5, <1>6

LEMMA LedgerStep == LedgerInv /\ OneAtATime /\ [Next]_vars => LedgerInv'
<1> SUFFICES ASSUME LedgerInv, OneAtATime, [Next]_vars
             PROVE  LedgerOK' /\ \A r \in Sessions : OpenOK(session[r])'
  BY StoreStep DEF LedgerInv
<1>1. ASSUME NEW s \in Sessions, Rollback(s)
      PROVE  LedgerOK' /\ \A r \in Sessions : OpenOK(session[r])'
  BY <1>1, IdleOK, IdleType, LedgerRead DEF Rollback
<1>2. CASE DocumentNext
  BY <1>2, <1>1, UploadRead, UploadCommitted, DeleteRead, DeleteCommitted DEF DocumentNext
<1>3. CASE LedgerNext
  BY <1>3, CreateRead, CreateCommitted, UpdateRead, UpdateCommitted, LineSteps, LineDecided
     DEF LedgerNext, LedgerInv, StoreInv
<1>4. CASE \E e \in Events, to \in Phases : MoveEvent(e, to)
  BY <1>4, EventMoved
<1>5. CASE UNCHANGED vars
  BY <1>5 DEF vars, LedgerInv, LedgerOK, OpenOK, IsBill, Exists, Counts, LineOK, BillAccepted, Agrees
<1> QED
  BY <1>2, <1>3, <1>4, <1>5 DEF Next

LEMMA LedgerInit == Init => LedgerInv
<1> SUFFICES ASSUME Init PROVE LedgerInv
  OBVIOUS
<1>1. \A s \in Sessions : OpenOK(session[s])
  BY IdleOK DEF Init
<1>2. LedgerOK
  BY DEF Init, LedgerOK, Exists, Counts, NoLine
<1> QED
  BY <1>1, <1>2, StoreInit DEF LedgerInv

LEMMA LedgerAlways == ASSUME OneAtATime PROVE Spec => []LedgerInv
<1>1. Init => LedgerInv
  BY LedgerInit
<1>2. LedgerInv /\ [Next]_vars => LedgerInv'
  BY LedgerStep
<1> QED
  BY <1>1, <1>2, PTL DEF Spec

\* While requests do not overlap, the same bill is never uploaded for two events, nor
\* twice for one.
THEOREM BillsAreUploadedOnce == ASSUME OneAtATime PROVE Spec => []BillUploadedOnce
<1>1. LedgerInv => BillUploadedOnce
  <2>1. LedgerInv => DOMAIN documents = 1 .. Len(documents)
    BY DEF LedgerInv, StoreInv, TypeOK
  <2> QED
    BY <2>1 DEF LedgerInv, LedgerOK, IsBill, BillUploadedOnce
<1> QED
  BY <1>1, LedgerAlways, PTL

\* Nor is an invoice claimed for two events, or on two bills.
THEOREM InvoicesAreClaimedOnce == ASSUME OneAtATime PROVE Spec => []OneClaim
<1>1. LedgerInv => OneClaim
  BY DEF LedgerInv, LedgerOK, Counts, Agrees, OneClaim, Claims
<1> QED
  BY <1>1, LedgerAlways, PTL

\* And a line's bill stays where it was: only a proposal in DRAFT may delete documents,
\* and only events that are over have lines.
THEOREM BillsStayInForce == ASSUME OneAtATime PROVE Spec => []BillInForce
<1>1. LedgerInv => BillInForce
  <2>1. LedgerInv => DOMAIN documents = 1 .. Len(documents)
    BY DEF LedgerInv, StoreInv, TypeOK
  <2> QED
    BY <2>1 DEF LedgerInv, LedgerOK, LineOK, Exists, BillInForce
<1> QED
  BY <1>1, LedgerAlways, PTL
===============================================================================
