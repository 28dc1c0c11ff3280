---------------------------- MODULE HistoryWalk -----------------------------
(***************************************************************************)
(* fetch_messages of http/messages.py, and what run_messages of            *)
(* dump/sync.py makes of its pages: the history of one conversation, the   *)
(* oldest message first, from the number of recorded messages on.  Beside  *)
(* the platform that serves what follows startingIndex ("exact"), the code *)
(* is prepared for one that answers an index past the end with its last    *)
(* page ("clamped") and for one that ignores the index ("ignored").  A     *)
(* message is its place in the history.                                    *)
(***************************************************************************)
EXTENDS Integers, FiniteSets

CONSTANTS
  MessagePageSize,   \* of the platform; the code does not rely on it
  MaxHistory         \* bound on the length of the history

VARIABLES
  history,       \* the number of messages on the platform
  serving,       \* what the platform does with startingIndex
  onDisk,        \* the messages in messages.json
  count,         \* the recorded message_count, 0 without a row
  histPc,        \* "idle", "walk", or how the last walk ended
  offset,        \* the next startingIndex
  got,           \* messages this walk has yielded
  atBegin,       \* the length of the history when the walk began
  overtaken      \* a message arrived while offset was past the end

hostVars == <<history, serving>>
recordVars == <<onDisk, count>>
fetchVars == <<histPc, offset, got, atBegin>>

Init ==
  /\ history = 0 /\ serving \in {"exact", "clamped", "ignored"}
  /\ onDisk = {} /\ count = 0
  /\ histPc = "idle" /\ offset = 0 /\ got = {} /\ atBegin = 0
  /\ overtaken = FALSE

-----------------------------------------------------------------------------
Arrive ==
  /\ history < MaxHistory
  /\ history' = history + 1
  /\ overtaken' = (overtaken \/ (histPc = "walk" /\ history < offset))
  /\ UNCHANGED <<serving, recordVars, fetchVars>>

(* --force clears the row first and so starts from the first message.      *)
StartFetch(from) ==
  /\ histPc # "walk" /\ history > 0
  /\ from \in {0, count}
  /\ histPc' = "walk" /\ offset' = from /\ got' = {} /\ atBegin' = history
  /\ count' = from
  /\ overtaken' = (overtaken /\ from > 0)
  /\ UNCHANGED <<hostVars, onDisk>>

LowerOf(m, n) == IF m < n THEN m ELSE n
Skipped ==
  CASE serving = "ignored" -> 0
    [] serving = "clamped" /\ history <= offset -> history - LowerOf(MessagePageSize, history)
    [] OTHER -> offset
Page == (Skipped + 1) .. LowerOf(Skipped + MessagePageSize, history)

HasNews == ~(Page \subseteq got)

PastFullPage == offset + MessagePageSize
PastPage == offset + Cardinality(Page)

(* The index advances by the length of the page, news or not.              *)
YieldPage ==
  /\ histPc = "walk" /\ HasNews
  /\ got' = got \cup Page
  /\ offset' = PastPage
  /\ UNCHANGED <<hostVars, recordVars, histPc, atBegin, overtaken>>

(* An empty page, or one of known messages only.  What the walk brought is *)
(* merged by id into the tail's file, or makes up a new one, and the row   *)
(* counts it.                                                              *)
Kept == IF count = 0 THEN {} ELSE onDisk
EndFetch ==
  /\ histPc = "walk" /\ ~HasNews
  /\ histPc' = "ended"
  /\ onDisk' = Kept \cup got
  /\ count' = count + Cardinality(got \ Kept)
  /\ UNCHANGED <<hostVars, offset, got, atBegin, overtaken>>

(* A transport error, a status other than 200 or a page that is not one:   *)
(* nothing of the walk reaches the disk.                                   *)
RequestFails ==
  /\ histPc = "walk"
  /\ histPc' = "request_failed"
  /\ UNCHANGED <<hostVars, recordVars, offset, got, atBegin, overtaken>>

Step == YieldPage \/ EndFetch
Next ==
  \/ Arrive
  \/ \E from \in 0 .. MaxHistory : StartFetch(from)
  \/ Step \/ RequestFails

-----------------------------------------------------------------------------
(* The history on disk after a walk has no gap and reaches at least as far *)
(* as the platform's did when the walk began, whatever arrives meanwhile.  *)
(* Two platforms get less than that.  One that ignores the index serves    *)
(* its first page only: the walk then ends well and in silence, and the    *)
(* file holds that page and whatever more of it earlier walks saw, still   *)
(* without a gap.  And one that clamps may repeat a page the count already *)
(* covers, so that the index lies past the end; if a message arrives       *)
(* before such a walk is over, nothing is claimed.                         *)
Reach == IF serving = "ignored" THEN LowerOf(MessagePageSize, atBegin) ELSE atBegin
HistoryHasNoGap ==
  histPc = "ended" /\ ~(serving = "clamped" /\ overtaken)
    => \E n \in Reach .. history : onDisk = 1 .. n

=============================================================================
