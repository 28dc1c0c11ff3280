---------------------------- MODULE RecordedFile ----------------------------
(***************************************************************************)
(* A file and the manifest row that claims it, as the syncs of dump/sync.py*)
(* write them: _write_bytes first, then, if it returned Ok, an upsert that *)
(* sqlite commits durably.  The rename is durable only with the next one   *)
(* (AtomicFile), so a power cut may leave the row ahead of the file.       *)
(***************************************************************************)
EXTENDS AtomicFile

VARIABLES
  row,    \* the call whose content the manifest claims, or None
  last    \* the call that began last, or None

record == <<row, last>>
allVars == <<vars, record>>

RInit == Init /\ row = None /\ last = None

CommitsEarly(w) == pc[w] \in Under
Commits(w) == saved = w

(* upsert, upsert_conversation, upsert_settlement: after the file.         *)
Upsert(w) ==
  /\ Commits(w) /\ row # w
  /\ row' = w
  /\ UNCHANGED <<vars, last>>

FileStep ==
  /\ \/ \E w \in Writers : OpenTmp(w) /\ last' = w
     \/ (\E w \in Writers : WriteChunk(w) \/ Fsync(w) \/ Replace(w) \/ Fail(w)) /\ UNCHANGED last
     \/ PowerCut /\ UNCHANGED last
  /\ UNCHANGED row

RNext == FileStep \/ \E w \in Writers : Upsert(w)

RSpec == RInit /\ [][RNext]_allVars

-----------------------------------------------------------------------------
(* What a row claims survives every power cut: it is in the file or, if    *)
(* the cut undid the rename, whole in the .tmp beside it, until the next   *)
(* call empties that.  A call that was not alone claims nothing for sure   *)
(* (run, run_messages, run_settlements).                                   *)
ClaimSurvives ==
  row # None /\ alone[row] /\ row = last =>
    \/ target # None /\ Holds(target, row)
    \/ tmp # None /\ Holds(tmp, row)

=============================================================================
