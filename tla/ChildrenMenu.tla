----------------------------- MODULE ChildrenMenu -----------------------------
(***************************************************************************)
(* The parser of the child switcher, _SwitcherParser of http/children.py,  *)
(* fed tag by tag with the anchors of the dashboard: entries of the        *)
(* switcher, with the avatar's colour, initials and a name, and links of   *)
(* the navigation to the same address that have none of these.  The same   *)
(* child may have several of either.  As in SettlementsPage a piece may    *)
(* lose what the parser knows it by.                                       *)
(***************************************************************************)
EXTENDS Naturals, Sequences, FiniteSets

CONSTANTS
  Children,    \* the uuids of the children
  MaxAnchors,  \* bound on the anchors of the dashboard
  MaxDrifts,   \* bound on the pieces that are not as the parser knows them
  None

VARIABLES
  anchors,   \* what the dashboard shows
  at, step,  \* the piece to be fed next: the step-th of the anchor at
  changed,   \* it is not as the parser knows it
  lost,      \* the pieces that were not
  matching,  \* the anchor the parser is in, None outside one that matches
  colour, spans, span,  \* what it has of it; span is None outside a span
  anchorSeen, \* whether an anchor matched
  known,     \* the children it has listed
  verdict    \* "parsing", "read" or "refused"

pageVars   == <<anchors, at, step, changed, lost>>
anchorVars == <<matching, colour, spans, anchorSeen>>
menuVars   == <<pageVars, anchorVars, span, known, verdict>>

-----------------------------------------------------------------------------
Piece(i, is) == [of |-> i, is |-> is]
Pieces(a) ==
  IF a.entry
  THEN <<"link", "colour", "span", "initials", "/span", "span", "name", "/span", "/a">>
  ELSE <<"link", "navigation", "/a">>

HasMore == at \in DOMAIN anchors
Shown == Piece(at, Pieces(anchors[at])[step])
Fed == IF changed THEN Piece(at, "other") ELSE Shown

Init ==
  /\ \E n \in 0 .. MaxAnchors : anchors \in [1 .. n -> [child : Children, entry : BOOLEAN]]
  /\ at = 1 /\ step = 1 /\ changed = FALSE /\ lost = {}
  /\ matching = None /\ colour = None /\ spans = <<>> /\ span = None
  /\ anchorSeen = FALSE
  /\ known = <<>> /\ verdict = "parsing"

(* A link goes elsewhere, a colour is not one, a span is another element,  *)
(* a text is empty.                                                        *)
Drift ==
  /\ HasMore /\ ~changed /\ Cardinality(lost) < MaxDrifts
  /\ Shown.is \in {"link", "colour", "span", "initials", "name"}
  /\ changed' = TRUE /\ lost' = lost \cup {Shown}
  /\ UNCHANGED <<anchors, at, step, anchorVars, span, known, verdict>>

-----------------------------------------------------------------------------
NothingOfIt == colour' = None /\ spans' = <<>>

(* handle_starttag.                                                        *)
StartAnchor(i) ==
  /\ matching' = i /\ anchorSeen' = TRUE /\ NothingOfIt
  /\ UNCHANGED <<span, known>>

StartAvatar(i) ==
  /\ colour' = IF matching = None THEN colour ELSE i
  /\ UNCHANGED <<matching, spans, anchorSeen, span, known>>

StartSpan ==
  /\ span' = IF matching = None THEN span ELSE <<>>
  /\ UNCHANGED <<anchorVars, known>>

(* handle_data.                                                            *)
Feed(p) ==
  /\ span' = IF span = None THEN None ELSE Append(span, p)
  /\ UNCHANGED <<anchorVars, known>>

(* handle_endtag.                                                          *)
EndSpan ==
  /\ spans' = IF span = None THEN spans ELSE Append(spans, span)
  /\ span' = None
  /\ UNCHANGED <<matching, colour, anchorSeen, known>>

IsUsableIfFirst ==
  /\ matching # None /\ colour # None /\ Len(spans) >= 2 /\ spans[2] # <<>>
  /\ \A i \in 1 .. matching - 1 : anchors[i].child # anchors[matching].child
(* The anchor makes a child if it has a colour, initials and a name, and   *)
(* the child is not listed yet (_finalize).                                *)
IsUsable ==
  /\ matching # None /\ colour # None /\ Len(spans) >= 2 /\ spans[2] # <<>>
  /\ \A k \in DOMAIN known : known[k].child # anchors[matching].child

EndAnchor ==
  /\ known' = IF IsUsable
              THEN Append(known, [child |-> anchors[matching].child, id |-> matching,
                                  colour |-> colour, name |-> spans[2]])
              ELSE known
  /\ matching' = None /\ NothingOfIt
  /\ UNCHANGED <<anchorSeen, span>>

Handle(p) ==
  CASE p.is = "link" -> StartAnchor(p.of)
    [] p.is = "colour" -> StartAvatar(p.of)
    [] p.is = "span" -> StartSpan
    [] p.is \in {"initials", "name", "navigation"} -> Feed(p)
    [] p.is = "/span" -> EndSpan
    [] p.is = "/a" -> EndAnchor
    [] OTHER -> UNCHANGED <<anchorVars, span, known>>

IsLastPiece == step = Len(Pieces(anchors[at]))

Parse ==
  /\ HasMore
  /\ Handle(Fed)
  /\ at' = IF IsLastPiece THEN at + 1 ELSE at
  /\ step' = IF IsLastPiece THEN 1 ELSE step + 1
  /\ changed' = FALSE
  /\ UNCHANGED <<anchors, lost, verdict>>

(* parse_children_list: no anchor at all is drift.                         *)
Conclude ==
  /\ ~HasMore /\ verdict = "parsing"
  /\ verdict' = IF anchorSeen THEN "read" ELSE "refused"
  /\ UNCHANGED <<pageVars, anchorVars, span, known>>

Next == Drift \/ Parse \/ Conclude

-----------------------------------------------------------------------------
(* A child of the menu has its address, its colour and its name from one   *)
(* anchor, is there once, and is there if any entry of it is as the parser *)
(* knows it: what is missing is never taken from a neighbour, and a broken *)
(* or bare anchor does not use up the child's place (_finalize).  A menu   *)
(* that is refused has no anchor the parser knows (parse_children_list).   *)
MenuIsRead ==
  /\ verdict = "refused" =>
       \A i \in DOMAIN anchors : Piece(i, "link") \in lost
  /\ \A j, k \in DOMAIN known : LET c == known[k] IN
       /\ c.colour = c.id /\ c.name = <<Piece(c.id, "name")>>
       /\ c.child = known[j].child => j = k
  /\ verdict # "parsing" =>
       \A i \in DOMAIN anchors : anchors[i].entry /\ (\A p \in lost : p.of # i)
         => \E k \in DOMAIN known : known[k].child = anchors[i].child

=============================================================================
