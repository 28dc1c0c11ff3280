------------------------------ MODULE ListWalk ------------------------------
(***************************************************************************)
(* list_conversations of http/messages.py: the pages of the conversation   *)
(* list, most recent activity first.  Only the first request differs from  *)
(* the others (loadOlder=1, no cursor): what comes next is up to the       *)
(* platform, and what that is is an open question of docs/api-notes.md.    *)
(* The three answers the code is written for are modelled: the platform    *)
(* goes on behind the oldest entry served ("cursor"), or at the place it   *)
(* had reached ("offset"), or ignores loadOlder ("ignored").  Meanwhile a  *)
(* message brings its conversation to the front of the list.  A            *)
(* conversation is its place in the list when the walk begins, or, if it   *)
(* is new, a number that was free; activity between two walks, which carry *)
(* nothing over, only renames them.                                        *)
(***************************************************************************)
EXTENDS Integers, FiniteSets, Sequences

CONSTANTS
  MaxConvs,      \* bound on the number of conversations
  MaxMoved,      \* bound on those with a message during one walk
  ListPageSize   \* of the platform; the code does not rely on it

VARIABLES
  list,          \* the conversations, most recent activity first
  paging,        \* what the platform does with loadOlder
  tail,          \* conversations behind the oldest one served
  served,        \* the number of entries served
  listPc,        \* "idle", "walk", or how the last walk ended
  loadOlder,     \* the walk has had its first page
  seenIds,       \* conversations the walk has yielded
  listed,        \* conversations in the list when the walk began
  moved,         \* conversations with a message between two pages
  shifts         \* entries that came in front of the rest since the last page

platformVars == <<list, paging>>
walkVars == <<tail, served, listPc, loadOlder, seenIds, listed, moved, shifts>>

Ids(places) == {list[i] : i \in places}
Least(m, n) == IF m < n THEN m ELSE n

Init ==
  /\ \E n \in 0 .. MaxConvs : list = [i \in 1 .. n |-> i]
  /\ paging \in {"cursor", "offset", "ignored"}
  /\ tail = {} /\ served = 0
  /\ listPc = "idle" /\ loadOlder = FALSE
  /\ seenIds = {} /\ listed = {} /\ moved = {} /\ shifts = 0

-----------------------------------------------------------------------------
(* A message, the first one of a conversation included, between two pages: *)
(* before the first page it makes no difference to the walk.  The count of *)
(* shifts stops at the page size, where it has done its worst.             *)
Place(c) ==
  IF c \in Ids(DOMAIN list) THEN CHOOSE i \in DOMAIN list : list[i] = c ELSE Len(list) + 1
IsBehind(c) == served < Place(c)
InFront(c) ==
  [i \in DOMAIN list \cup {Place(c)} |->
     IF i = 1 THEN c ELSE IF i <= Place(c) THEN list[i - 1] ELSE list[i]]
WriteTo(c) ==
  /\ listPc = "walk" /\ loadOlder
  /\ c # list[1] /\ Cardinality(moved \cup {c}) <= MaxMoved
  /\ list' = InFront(c)
  /\ tail' = tail \ {c}
  /\ moved' = moved \cup {c}
  /\ shifts' = IF IsBehind(c) THEN Least(shifts + 1, ListPageSize) ELSE shifts
  /\ UNCHANGED <<paging, served, listPc, loadOlder, seenIds, listed>>

StartWalk ==
  /\ listPc # "walk"
  /\ list' = [i \in DOMAIN list |-> i]
  /\ listPc' = "walk" /\ loadOlder' = FALSE
  /\ tail' = {} /\ served' = 0
  /\ seenIds' = {} /\ listed' = DOMAIN list /\ moved' = {} /\ shifts' = 0
  /\ UNCHANGED paging

(* The places of the list the platform has still to serve, and those of    *)
(* the page it serves now.                                                 *)
Rest ==
  CASE ~loadOlder \/ paging = "ignored" -> DOMAIN list
    [] loadOlder /\ paging = "cursor" -> {i \in DOMAIN list : list[i] \in tail}
    [] loadOlder /\ paging = "offset" -> {i \in DOMAIN list : served < i}
PagePlaces == {i \in Rest : Cardinality({j \in Rest : j < i}) < ListPageSize}
Page == Ids(PagePlaces)

HasEntries == Page # {}
IsAllNew == Page # {} /\ Page \cap seenIds = {}
Progressed == ~(Page \subseteq seenIds)

(* The ids of a page not yielded before; shifts too many for one page are  *)
(* remembered for the rest of the walk.  More entries than the list has    *)
(* are only served by a platform that ignores loadOlder.                   *)
YieldPage ==
  /\ listPc = "walk" /\ Progressed
  /\ seenIds' = seenIds \cup Page
  /\ loadOlder' = TRUE
  /\ tail' = Ids(Rest) \ Page
  /\ served' = Least(served + Cardinality(PagePlaces), Len(list))
  /\ shifts' = IF shifts = ListPageSize THEN shifts ELSE 0
  /\ UNCHANGED <<platformVars, listPc, listed, moved>>

(* An empty page, or one of known conversations only.                      *)
EndWalk ==
  /\ listPc = "walk" /\ ~Progressed
  /\ listPc' = "ended"
  /\ UNCHANGED <<platformVars, tail, served, loadOlder, seenIds, listed, moved, shifts>>

(* A transport error, a status other than 200 or a page that is not one.   *)
RequestFails ==
  /\ listPc = "walk"
  /\ listPc' = "request_failed"
  /\ UNCHANGED <<platformVars, tail, served, loadOlder, seenIds, listed, moved, shifts>>

Step == YieldPage \/ EndWalk
Next ==
  \/ \E c \in 1 .. MaxConvs : WriteTo(c)
  \/ StartWalk \/ Step \/ RequestFails

-----------------------------------------------------------------------------
(* What a walk that ends well owes its caller (MessagesSync's EndWalk      *)
(* relies on it): every conversation listed when it began that nobody      *)
(* wrote to meanwhile, if the platform honours loadOlder and, paging by    *)
(* place, was not overtaken by a whole page of activity between two        *)
(* requests: then a page of known ids ends the walk early.                 *)
QuietAreListed ==
  listPc = "ended" /\ (paging = "cursor" \/ (paging = "offset" /\ shifts < ListPageSize))
    => listed \ moved \subseteq seenIds

=============================================================================
