------------------------- MODULE SettlementsSyncProofs -------------------------
(***************************************************************************)
(* Proofs about SettlementsSync, for every set of months and bills and any *)
(* number of changes, interruptions and deletions.                         *)
(***************************************************************************)
EXTENDS SettlementsSync, TLAPS

(* As long as a link was only ever added, never replaced, the platform,    *)
(* the page a run read and the manifest agree on it.                       *)
LinksAgree ==
  \A m \in Months \ replaced :
    /\ shown[m] \in {None, link[m]}
    /\ row[m] # None => row[m].bill \in {None, link[m]}

(* A month in hand has its summary; before the invoice its row is the one  *)
(* that was read, and after it the file is that of the link shown.         *)
PhaseIsSound ==
  /\ pc \in {"record", "invoice", "stamp"} => month \in summary
  /\ pc = "invoice" => known = row[month]
  /\ pc = "stamp" => shown[month] # None /\ invoice[month] = shown[month]

IInv == TypeOK /\ LinksAgree /\ PhaseIsSound /\ StampsAreBacked

RowIsBacked(m) ==
  row[m] # None =>
    /\ m \in summary
    /\ row[m].stamped =>
         /\ row[m].bill # None
         /\ deletions = 0 => (invoice[m] # None)
         /\ m \notin replaced => (invoice[m] \in {row[m].bill, None})

LEMMA Backed == StampsAreBacked <=> \A m \in Months : RowIsBacked(m)
  BY DEF StampsAreBacked, RowIsBacked

LEMMA InitIInv == Init => IInv
<1> SUFFICES ASSUME Init PROVE IInv
  OBVIOUS
<1> USE DEF Init
<1>1. TypeOK
  BY ConstantsAssumption, NoneAssumption DEF TypeOK, Links, Phases
<1>2. LinksAgree /\ PhaseIsSound /\ StampsAreBacked
  BY DEF LinksAgree, PhaseIsSound, StampsAreBacked
<1>3. QED
  BY <1>1, <1>2 DEF IInv

-----------------------------------------------------------------------------
LEMMA TypeStep == TypeOK /\ [Next]_vars => TypeOK'
<1> SUFFICES ASSUME TypeOK, [Next]_vars PROVE TypeOK'
  OBVIOUS
<1> USE ConstantsAssumption, NoneAssumption
    DEF TypeOK, Phases, platform, disk, run, counts
<1>1. ASSUME NEW m \in Months, BillMonth(m) PROVE TypeOK'
  BY <1>1 DEF BillMonth
<1>2. ASSUME NEW m \in Months, ChangeLink(m) PROVE TypeOK'
  BY <1>2 DEF ChangeLink
<1>3. ASSUME NEW m \in Months, DeleteInvoice(m) PROVE TypeOK'
  BY <1>3 DEF DeleteInvoice, Links
<1>4. ASSUME NEW F \in SUBSET Months, StartRun(F) PROVE TypeOK'
  BY <1>4 DEF StartRun
<1>5. CASE FetchHistory
  BY <1>5 DEF FetchHistory
<1>6. CASE EndRun
  BY <1>6 DEF EndRun, Stop, Links
<1>7. ASSUME NEW m \in Months, WriteSummary(m) PROVE TypeOK'
  BY <1>7 DEF WriteSummary
<1>8. CASE ReadRow
  BY <1>8 DEF ReadRow, ForcedRow
<1>9. CASE RecordBare
  BY <1>9 DEF RecordBare, BareRow, BlankRow, NextMonth, Rows, Links
<1>10. CASE RefreshRow
  BY <1>10 DEF RefreshRow, NeedsInvoice, NextMonth, Rows
<1>11. CASE DownloadInvoice
  BY <1>11 DEF DownloadInvoice
<1>12. CASE StampRow
  BY <1>12 DEF StampRow, NextMonth, Rows
<1>13. CASE Interrupt
  BY <1>13 DEF Interrupt, Stop, Links
<1>14. CASE UNCHANGED vars
  BY <1>14 DEF vars
<1>15. QED
  BY <1>1, <1>2, <1>3, <1>4, <1>5, <1>6, <1>7, <1>8, <1>9, <1>10, <1>11, <1>12, <1>13, <1>14
  DEF Next, Process

LEMMA LinksStep == IInv /\ [Next]_vars => LinksAgree'
<1> SUFFICES ASSUME IInv, [Next]_vars PROVE LinksAgree'
  OBVIOUS
<1> USE NoneAssumption DEF IInv, LinksAgree, platform, disk, run, counts
<1>0. TypeOK /\ LinksAgree
  OBVIOUS
<1>1. ASSUME NEW m \in Months, BillMonth(m) PROVE LinksAgree'
  BY <1>1 DEF BillMonth
<1>2. ASSUME NEW m \in Months, ChangeLink(m) PROVE LinksAgree'
  BY <1>2 DEF ChangeLink, TypeOK
<1>3. ASSUME NEW m \in Months, DeleteInvoice(m) PROVE LinksAgree'
  BY <1>3 DEF DeleteInvoice
<1>4. ASSUME NEW F \in SUBSET Months, StartRun(F) PROVE LinksAgree'
  BY <1>4 DEF StartRun
<1>5. CASE FetchHistory
  BY <1>5 DEF FetchHistory
<1>6. CASE EndRun
  BY <1>6 DEF EndRun, Stop
<1>7. ASSUME NEW m \in Months, WriteSummary(m) PROVE LinksAgree'
  BY <1>7 DEF WriteSummary
<1>8. CASE ReadRow
  BY <1>8 DEF ReadRow, ForcedRow, TypeOK
<1>9. CASE RecordBare
  BY <1>9 DEF RecordBare, BareRow, BlankRow, NextMonth, PhaseIsSound, TypeOK
<1>10. CASE RefreshRow
  BY <1>10 DEF RefreshRow, NextMonth, TypeOK
<1>11. CASE DownloadInvoice
  BY <1>11 DEF DownloadInvoice
<1>12. CASE StampRow
  BY <1>12 DEF StampRow, NextMonth, TypeOK
<1>13. CASE Interrupt
  BY <1>13 DEF Interrupt, Stop
<1>14. CASE UNCHANGED vars
  BY <1>14 DEF vars
<1>15. QED
  BY <1>1, <1>2, <1>3, <1>4, <1>5, <1>6, <1>7, <1>8, <1>9, <1>10, <1>11, <1>12, <1>13, <1>14
  DEF Next, Process

LEMMA PhaseStep == IInv /\ [Next]_vars => PhaseIsSound'
<1> SUFFICES ASSUME IInv, [Next]_vars PROVE PhaseIsSound'
  OBVIOUS
<1> USE DEF IInv, PhaseIsSound, platform, disk, run, counts
<1>1. ASSUME NEW m \in Months, BillMonth(m) PROVE PhaseIsSound'
  BY <1>1 DEF BillMonth
<1>2. ASSUME NEW m \in Months, ChangeLink(m) PROVE PhaseIsSound'
  BY <1>2 DEF ChangeLink
<1>3. ASSUME NEW m \in Months, DeleteInvoice(m) PROVE PhaseIsSound'
  BY <1>3 DEF DeleteInvoice
<1>4. ASSUME NEW F \in SUBSET Months, StartRun(F) PROVE PhaseIsSound'
  BY <1>4 DEF StartRun
<1>5. CASE FetchHistory
  BY <1>5 DEF FetchHistory
<1>6. CASE EndRun
  BY <1>6 DEF EndRun, Stop
<1>7. ASSUME NEW m \in Months, WriteSummary(m) PROVE PhaseIsSound'
  BY <1>7 DEF WriteSummary
<1>8. CASE ReadRow
  BY <1>8 DEF ReadRow
<1>9. CASE RecordBare
  BY <1>9 DEF RecordBare, NextMonth
<1>10. CASE RefreshRow
  BY <1>10 DEF RefreshRow, NextMonth
<1>11. CASE DownloadInvoice
  BY <1>11 DEF DownloadInvoice, TypeOK
<1>12. CASE StampRow
  BY <1>12 DEF StampRow, NextMonth
<1>13. CASE Interrupt
  BY <1>13 DEF Interrupt, Stop
<1>14. CASE UNCHANGED vars
  BY <1>14 DEF vars
<1>15. QED
  BY <1>1, <1>2, <1>3, <1>4, <1>5, <1>6, <1>7, <1>8, <1>9, <1>10, <1>11, <1>12, <1>13, <1>14
  DEF Next, Process

LEMMA BackedStep == IInv /\ [Next]_vars => StampsAreBacked'
<1> SUFFICES ASSUME IInv, [Next]_vars, NEW m \in Months PROVE RowIsBacked(m)'
  BY DEF StampsAreBacked, RowIsBacked
<1>0. RowIsBacked(m) /\ TypeOK
  BY Backed DEF IInv
<1> USE NoneAssumption DEF RowIsBacked, platform, disk, run, counts
<1>1. ASSUME NEW n \in Months, BillMonth(n) PROVE RowIsBacked(m)'
  BY <1>0, <1>1 DEF BillMonth
<1>2. ASSUME NEW n \in Months, ChangeLink(n) PROVE RowIsBacked(m)'
  BY <1>0, <1>2 DEF ChangeLink
<1>3. ASSUME NEW n \in Months, DeleteInvoice(n) PROVE RowIsBacked(m)'
  <2>1. deletions' # 0
    BY <1>3, ConstantsAssumption DEF DeleteInvoice, IInv, TypeOK
  <2>2. QED
    BY <1>0, <1>3, <2>1 DEF DeleteInvoice, TypeOK
<1>4. ASSUME NEW F \in SUBSET Months, StartRun(F) PROVE RowIsBacked(m)'
  BY <1>0, <1>4 DEF StartRun
<1>5. CASE FetchHistory
  BY <1>0, <1>5 DEF FetchHistory
<1>6. CASE EndRun
  BY <1>0, <1>6 DEF EndRun
<1>7. ASSUME NEW n \in Months, WriteSummary(n) PROVE RowIsBacked(m)'
  BY <1>0, <1>7 DEF WriteSummary
<1>8. CASE ReadRow
  BY <1>0, <1>8 DEF ReadRow, ForcedRow, TypeOK
<1>9. CASE RecordBare
  <2>1. month = m => BareRow = BlankRow \/ BareRow = row[m]
    BY <1>9 DEF RecordBare, BareRow, IInv, PhaseIsSound
  <2>2. month = m => m \in summary
    BY <1>9 DEF RecordBare, IInv, PhaseIsSound
  <2>3. QED
    BY <1>0, <1>9, <2>1, <2>2 DEF RecordBare, BlankRow, TypeOK
<1>10. CASE RefreshRow
  <2>1. CASE month = m
    <3>1. /\ row[m] # None /\ row[m].stamped /\ invoice[m] # None /\ m \in summary
          /\ row'[m] = [bill |-> shown[m], stamped |-> TRUE] /\ shown[m] # None
      BY <1>10, <2>1 DEF RefreshRow, NeedsInvoice, IInv, PhaseIsSound, TypeOK, Rows
    <3>2. m \notin replaced => invoice[m] = shown[m]
      BY <1>0, <3>1 DEF IInv, LinksAgree
    <3>3. QED
      BY <1>10, <3>1, <3>2 DEF RefreshRow
  <2>2. CASE month # m
    BY <1>0, <1>10, <2>2 DEF RefreshRow, TypeOK
  <2>3. QED
    BY <2>1, <2>2
<1>11. CASE DownloadInvoice
  <2>1. m \notin replaced /\ month = m /\ row[m] # None /\ row[m].stamped =>
          shown[m] = row[m].bill
    BY <1>0, <1>11 DEF DownloadInvoice, IInv, LinksAgree
  <2>2. QED
    BY <1>0, <1>11, <2>1 DEF DownloadInvoice, TypeOK
<1>12. CASE StampRow
  BY <1>0, <1>12 DEF StampRow, IInv, PhaseIsSound, TypeOK
<1>13. CASE Interrupt
  BY <1>0, <1>13 DEF Interrupt
<1>14. CASE UNCHANGED vars
  BY <1>0, <1>14 DEF vars
<1>15. QED
  BY <1>1, <1>2, <1>3, <1>4, <1>5, <1>6, <1>7, <1>8, <1>9, <1>10, <1>11, <1>12, <1>13, <1>14
  DEF Next, Process

LEMMA Invariance == Spec => []IInv
<1>1. IInv /\ [Next]_vars => IInv'
  BY TypeStep, LinksStep, PhaseStep, BackedStep DEF IInv
<1>2. QED
  BY <1>1, InitIInv, PTL DEF Spec

-----------------------------------------------------------------------------
(* Type correctness, which the runs leave to this proof.                   *)
THEOREM TypeCorrect == Spec => []TypeOK
<1>1. IInv => TypeOK
  BY DEF IInv
<1>2. QED
  BY <1>1, Invariance, PTL

(* A stamped row has its invoice, and the one it names: a run abandoned    *)
(* between any two steps never leaves a download that passes for complete, *)
(* for any number of months, changes and runs (run_settlements).           *)
THEOREM StampsStayBacked == Spec => []StampsAreBacked
<1>1. IInv => StampsAreBacked
  BY DEF IInv
<1>2. QED
  BY <1>1, Invariance, PTL

(* What a step may do to the row of a month that is not forced.            *)
RowIsKept(m) ==
  row[m] # None /\ m \notin force => row'[m] # None /\ (row[m].stamped => row'[m].stamped)

LEMMA RowStep == IInv /\ [Next]_vars => \A m \in Months : RowIsKept(m)
<1> SUFFICES ASSUME IInv, [Next]_vars, NEW m \in Months PROVE RowIsKept(m)
  OBVIOUS
<1> USE NoneAssumption DEF RowIsKept
<1>1. CASE UNCHANGED row
  BY <1>1
<1>2. CASE ReadRow
  BY <1>2 DEF ReadRow, IInv, TypeOK
<1>3. CASE RecordBare
  <2>1. month = m /\ row[m] # None => BareRow = row[m]
    BY <1>3 DEF RecordBare, BareRow, IInv, PhaseIsSound
  <2>2. BareRow # None \/ month # m \/ row[m] = None
    BY <2>1
  <2>3. QED
    BY <1>3, <2>1, <2>2 DEF RecordBare, IInv, TypeOK
<1>4. CASE RefreshRow
  <2>1. known.stamped
    BY <1>4 DEF RefreshRow, NeedsInvoice
  <2>2. row' = [row EXCEPT ![month] = [bill |-> shown[month], stamped |-> known.stamped]]
    BY <1>4 DEF RefreshRow
  <2>3. [bill |-> shown[month], stamped |-> known.stamped] \in Rows
    BY <1>4 DEF RefreshRow, NeedsInvoice, IInv, TypeOK, Rows
  <2>4. QED
    BY <2>1, <2>2, <2>3 DEF IInv, TypeOK
<1>5. CASE StampRow
  <2>1. shown[month] \in Links
    BY <1>5 DEF StampRow, IInv, TypeOK
  <2>2. [bill |-> shown[month], stamped |-> TRUE] \in Rows
    BY <2>1 DEF Rows
  <2>3. QED
    BY <1>5, <2>2 DEF StampRow, IInv, TypeOK
<1>6. ASSUME NEW n \in Months, BillMonth(n) \/ ChangeLink(n) \/ DeleteInvoice(n) \/ WriteSummary(n)
      PROVE  UNCHANGED row
  BY <1>6 DEF BillMonth, ChangeLink, DeleteInvoice, WriteSummary
<1>7. ASSUME NEW F \in SUBSET Months, StartRun(F) PROVE UNCHANGED row
  BY <1>7 DEF StartRun
<1>8. CASE FetchHistory \/ EndRun \/ DownloadInvoice \/ Interrupt
  BY <1>1, <1>8 DEF FetchHistory, EndRun, DownloadInvoice, Interrupt
<1>9. CASE UNCHANGED vars
  BY <1>1, <1>9 DEF vars
<1>10. QED
  BY <1>1, <1>2, <1>3, <1>4, <1>5, <1>6, <1>7, <1>8, <1>9 DEF Next, Process

(* Only --force for a month makes a run forget its recorded download, for  *)
(* any platform and any number of runs (run_settlements).                  *)
THEOREM HistoryStays == Spec => HistoryIsNotErased
<1>1. IInv /\ [Next]_vars =>
        [\A m \in Months : row[m] # None /\ m \notin force =>
           row'[m] # None /\ (row[m].stamped => row'[m].stamped)]_vars
  BY RowStep DEF RowIsKept
<1>2. QED
  BY <1>1, Invariance, PTL DEF Spec, HistoryIsNotErased

=============================================================================
