--------------------------- MODULE SettlementsSync ---------------------------
(***************************************************************************)
(* The dump of one child's settlement months: run_settlements of           *)
(* dump/sync.py, the settlements manifest of dump/manifest.py and the two  *)
(* files of dump/settlements.py.  Every run scrapes the whole history page *)
(* once, rewrites each settlement.json and downloads the invoices it lacks.*)
(* As in the other modules every durable step is an action and Interrupt   *)
(* stands for whatever abandons a run.                                     *)
(***************************************************************************)
EXTENDS Naturals, FiniteSets

CONSTANTS
  Months,         \* month keys
  Bills,          \* bill uuids: what a month's invoice link may name
  MaxChanges,     \* bound on the number of such changes
  MaxInterrupts,  \* bound on the number of abandoned runs
  MaxDeletions,   \* bound on the invoices the user deletes
  CanForce,       \* whether the user ever passes --force
  None

Links == Bills \cup {None}
Rows == [bill : Links, stamped : BOOLEAN]   \* stamped: invoice_downloaded_at
Phases == {"idle", "fetch", "months", "record", "invoice", "stamp"}

ASSUME ConstantsAssumption ==
  /\ MaxChanges \in Nat /\ MaxInterrupts \in Nat /\ MaxDeletions \in Nat
  /\ CanForce \in BOOLEAN
ASSUME NoneAssumption == None \notin Months /\ None \notin Bills /\ None \notin Rows

VARIABLES
  billed,      \* the months the platform lists
  link,        \* the bill a month's card links, or None
  replaced,    \* the months whose link was ever replaced or removed
  row,         \* the manifest
  summary,     \* the months with a settlement.json
  invoice,     \* the bill whose PDF invoice.pdf is, or None
  pc, force, page, shown, month, known,  \* the running process
  changes, interrupts, deletions

platform == <<billed, link, replaced, changes>>
disk     == <<summary, invoice>>
run      == <<force, page, shown>>
counts   == <<interrupts, deletions>>
vars == <<platform, row, disk, pc, run, month, known, counts>>

Init ==
  /\ billed = {} /\ link = [m \in Months |-> None] /\ replaced = {}
  /\ row = [m \in Months |-> None]
  /\ summary = {} /\ invoice = [m \in Months |-> None]
  /\ pc = "idle" /\ force = {} /\ page = {}
  /\ shown = [m \in Months |-> None]
  /\ month = None /\ known = None
  /\ changes = 0 /\ interrupts = 0 /\ deletions = 0

-----------------------------------------------------------------------------
BillMonth(m) ==
  /\ m \notin billed
  /\ billed' = billed \cup {m}
  /\ UNCHANGED <<link, replaced, changes, row, disk, pc, run, month, known, counts>>

(* A first invoice appears, or a link is replaced or removed.              *)
ChangeLink(m) ==
  /\ m \in billed /\ changes < MaxChanges
  /\ \E b \in Links \ {link[m]} : link' = [link EXCEPT ![m] = b]
  /\ replaced' = IF link[m] = None THEN replaced ELSE replaced \cup {m}
  /\ changes' = changes + 1
  /\ UNCHANGED <<billed, row, disk, pc, run, month, known, counts>>

DeleteInvoice(m) ==
  /\ pc = "idle" /\ invoice[m] # None /\ deletions < MaxDeletions
  /\ deletions' = deletions + 1
  /\ invoice' = [invoice EXCEPT ![m] = None]
  /\ UNCHANGED <<platform, row, summary, pc, run, month, known, interrupts>>

StartRun(F) ==
  /\ pc = "idle"
  /\ F = {} \/ CanForce
  /\ pc' = "fetch" /\ force' = F
  /\ UNCHANGED <<platform, row, disk, page, shown, month, known, counts>>

(* One GET of the history page; its links age while months are handled.    *)
FetchHistory ==
  /\ pc = "fetch"
  /\ page' = billed /\ shown' = link
  /\ pc' = "months"
  /\ UNCHANGED <<platform, row, disk, force, month, known, counts>>

Stop ==
  /\ pc' = "idle" /\ force' = {} /\ page' = {}
  /\ shown' = [m \in Months |-> None]
  /\ month' = None /\ known' = None

EndRun ==
  /\ pc = "months" /\ page = {}
  /\ Stop
  /\ UNCHANGED <<platform, row, disk, counts>>

WriteSummary(m) ==
  /\ pc = "months" /\ m \in page
  /\ page' = page \ {m}
  /\ month' = m
  /\ summary' = summary \cup {m}
  /\ pc' = "record"
  /\ UNCHANGED <<platform, row, invoice, force, shown, known, counts>>

ForcedRowKept(m) == row[m]
ForcedRow(m) == None

NeedsInvoiceIfUnstamped(r) == ~(r # None /\ r.stamped)
(* Unless its download is recorded and the file still there.               *)
NeedsInvoice(r) == (r # None /\ r.stamped) => invoice[month] = None

(* The recorded row is read; a forced month first loses it, durably.       *)
ReadRow ==
  /\ pc = "record"
  /\ row' = [row EXCEPT ![month] = IF month \in force THEN ForcedRow(month) ELSE @]
  /\ known' = row'[month]
  /\ pc' = "invoice"
  /\ UNCHANGED <<platform, disk, run, month, counts>>

NextMonth == pc' = "months" /\ month' = None /\ known' = None

BlankRow == [bill |-> None, stamped |-> FALSE]
BareRowRefreshed ==
  IF known = None THEN BlankRow ELSE [bill |-> None, stamped |-> known.stamped]
BareRow == IF known = None THEN BlankRow ELSE known

(* A card without a link: a first sight is recorded, a row is left alone.  *)
RecordBare ==
  /\ pc = "invoice" /\ shown[month] = None
  /\ row' = [row EXCEPT ![month] = BareRow]
  /\ NextMonth
  /\ UNCHANGED <<platform, disk, run, counts>>

(* The invoice is at hand: the row takes the shown link, the stamp stays.  *)
RefreshRow ==
  /\ pc = "invoice" /\ shown[month] # None /\ ~NeedsInvoice(known)
  /\ row' = [row EXCEPT ![month] = [bill |-> shown[month], stamped |-> known.stamped]]
  /\ NextMonth
  /\ UNCHANGED <<platform, disk, run, counts>>

DownloadInvoice ==
  /\ pc = "invoice" /\ shown[month] # None /\ NeedsInvoice(known)
  /\ invoice' = [invoice EXCEPT ![month] = shown[month]]
  /\ pc' = "stamp"
  /\ UNCHANGED <<platform, row, summary, run, month, known, counts>>

StampRow ==
  /\ pc = "stamp"
  /\ row' = [row EXCEPT ![month] = [bill |-> shown[month], stamped |-> TRUE]]
  /\ NextMonth
  /\ UNCHANGED <<platform, disk, run, counts>>

Interrupt ==
  /\ pc # "idle" /\ interrupts < MaxInterrupts
  /\ interrupts' = interrupts + 1
  /\ Stop
  /\ UNCHANGED <<platform, row, disk, deletions>>

-----------------------------------------------------------------------------
Process ==
  \/ FetchHistory \/ EndRun
  \/ \E m \in Months : WriteSummary(m)
  \/ ReadRow \/ RecordBare \/ RefreshRow \/ DownloadInvoice \/ StampRow

Next ==
  \/ \E m \in Months : BillMonth(m) \/ ChangeLink(m) \/ DeleteInvoice(m)
  \/ \E F \in SUBSET Months : StartRun(F)
  \/ Process
  \/ Interrupt

Spec == Init /\ [][Next]_vars

(* A run goes on until it ends or is interrupted, and the user starts runs *)
(* again and again.                                                        *)
FairSpec ==
  Spec /\ WF_vars(Process) /\ WF_vars(\E F \in SUBSET Months : StartRun(F))

-----------------------------------------------------------------------------
(* Every variable stays in its range, and the run has a month in hand just *)
(* while it handles one.                                                   *)
TypeOK ==
  /\ billed \subseteq Months /\ link \in [Months -> Links] /\ replaced \subseteq billed
  /\ row \in [Months -> Rows \cup {None}]
  /\ summary \subseteq Months /\ invoice \in [Months -> Links]
  /\ pc \in Phases /\ force \subseteq Months /\ page \subseteq Months
  /\ shown \in [Months -> Links] /\ month \in Months \cup {None}
  /\ known \in Rows \cup {None}
  /\ month = None <=> pc \in {"idle", "fetch", "months"}
  /\ changes \in 0 .. MaxChanges
  /\ interrupts \in 0 .. MaxInterrupts /\ deletions \in 0 .. MaxDeletions

(* A row has its month's summary, and a stamped one the invoice of a bill. *)
(* As long as the platform has not replaced the link it is the very bill   *)
(* the row names, unless the user deleted it: an interrupted download,     *)
(* forced or not, is never mistaken for a complete one (run_settlements).  *)
StampsAreBacked ==
  \A m \in Months : row[m] # None =>
    /\ m \in summary
    /\ row[m].stamped =>
         /\ row[m].bill # None
         /\ deletions = 0 => (invoice[m] # None)
         /\ m \notin replaced => (invoice[m] \in {row[m].bill, None})

(* Nothing but --force for that very month makes a run forget a download   *)
(* once recorded, whatever cards and links the platform shows later.       *)
HistoryIsNotErased ==
  [][\A m \in Months : row[m] # None /\ m \notin force =>
       row'[m] # None /\ (row[m].stamped => row'[m].stamped)]_vars

(* Again and again every linked month has its summary, its invoice on disk *)
(* and a stamped row, whatever was interrupted or deleted before.          *)
ArchiveCompletes ==
  []<>(\A m \in billed :
         /\ m \in summary /\ row[m] # None
         /\ link[m] # None => row[m].stamped /\ invoice[m] # None)

(* A user who forces every month again and again gets the invoices of the  *)
(* present links: what a plain run leaves as it is, a forced one replaces. *)
ForcedRunsRefresh ==
  []<><<StartRun(Months)>>_vars =>
    []<>(\A m \in billed : link[m] # None => invoice[m] = link[m])

=============================================================================
