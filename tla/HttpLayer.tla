------------------------------ MODULE HttpLayer ------------------------------
(***************************************************************************)
(* The machines of http/ a sync is built on: the client's rate limiter,    *)
(* the three paged walks, the timeline's, of a child's posts, and the two  *)
(* of the account's messages, and the two parsers of HTML pages.  They     *)
(* share no state, and the walks and parsers take turns: the list's        *)
(* generator, for one, stands still while a conversation is fetched.  So   *)
(* one of them is looked at in each behaviour.                             *)
(***************************************************************************)
EXTENDS TimelineWalk, RateLimiter

CONSTANTS
  MaxConvs, MaxMoved, ListPageSize, MessagePageSize, MaxHistory,
  MaxCards, Children, MaxAnchors, MaxDrifts, None

ASSUME PagesAssumption ==
  ListPageSize \in Nat \ {0} /\ MessagePageSize \in Nat \ {0} /\ MaxCards \in Nat

VARIABLES
  part,
  list, paging, tail, served, listPc, loadOlder, seenIds, listed, moved, shifts,
  history, serving, onDisk, count, histPc, offset, got, atBegin, overtaken,
  shown, month, place, fedAs, drifts, depth, since, text, row, cell, pending, card, cards, outcome,
  anchors, at, step, changed, lost, matching, colour, spans, anchorSeen, span, known, verdict

Conversations == INSTANCE ListWalk
Messages == INSTANCE HistoryWalk
Settlements == INSTANCE SettlementsPage
Menu == INSTANCE ChildrenMenu

ASSUME NoneAssumption ==
  None \notin Nat \cup Seq([of : Nat, is : {"initials", "name"}])
        \cup Settlements!Texts \cup Seq(Settlements!Texts) \cup Settlements!Cards

listVars == <<list, paging, tail, served, listPc, loadOlder, seenIds, listed, moved, shifts>>
histVars == <<history, serving, onDisk, count, histPc, offset, got, atBegin, overtaken>>
parserVars ==
  <<shown, month, place, fedAs, drifts, depth, since, text, row, cell, pending, card, cards, outcome>>
menuVars ==
  <<anchors, at, step, changed, lost, matching, colour, spans, anchorSeen, span, known, verdict>>
htmlVars == <<parserVars, menuVars>>
layerVars == <<vars, part, listVars, histVars, htmlVars, limiterVars>>

LayerInit ==
  /\ Init /\ Conversations!Init /\ Messages!Init /\ LimiterInit
  /\ Settlements!Init /\ Menu!Init
  /\ part \in {"timeline", "conversations", "history", "settlements", "children", "limiter"}
  /\ part # "conversations" => paging = "cursor" /\ list = <<>>
  /\ part # "history" => serving = "exact"
  /\ part # "settlements" => shown = <<>>
  /\ part # "children" => anchors = <<>>

TimelineNext ==
  /\ part = "timeline" /\ Next
  /\ UNCHANGED <<part, listVars, histVars, htmlVars, limiterVars>>
ListNext ==
  /\ part = "conversations" /\ Conversations!Next
  /\ UNCHANGED <<part, vars, histVars, htmlVars, limiterVars>>
HistoryNext ==
  /\ part = "history" /\ Messages!Next
  /\ UNCHANGED <<part, vars, listVars, htmlVars, limiterVars>>
SettlementsNext ==
  /\ part = "settlements" /\ Settlements!Next
  /\ UNCHANGED <<part, vars, listVars, histVars, menuVars, limiterVars>>
MenuNext ==
  /\ part = "children" /\ Menu!Next
  /\ UNCHANGED <<part, vars, listVars, histVars, parserVars, limiterVars>>
LimitedNext ==
  /\ part = "limiter" /\ LimiterNext
  /\ UNCHANGED <<part, vars, listVars, histVars, htmlVars>>

LayerNext ==
  TimelineNext \/ ListNext \/ HistoryNext \/ SettlementsNext \/ MenuNext \/ LimitedNext

(* Every request is answered or times out.                                 *)
LayerSpec ==
  /\ LayerInit /\ [][LayerNext]_layerVars
  /\ WF_layerVars(Step /\ TimelineNext)
  /\ WF_layerVars(Conversations!Step /\ ListNext)
  /\ WF_layerVars(Messages!Step /\ HistoryNext)

-----------------------------------------------------------------------------
QuietAreListed == Conversations!QuietAreListed
HistoryHasNoGap == Messages!HistoryHasNoGap
MonthsAreAsShown == Settlements!MonthsAreAsShown
MenuIsRead == Menu!MenuIsRead

(* Every walk ends, whatever the platform answers: one that never settles  *)
(* its timeline, that ignores loadOlder or startingIndex and serves a page *)
(* again and again, or whose list is reshuffled all the time.              *)
WalksEnd ==
  /\ WalkEnds
  /\ listPc = "walk" ~> listPc # "walk"
  /\ histPc = "walk" ~> histPc # "walk"

=============================================================================
