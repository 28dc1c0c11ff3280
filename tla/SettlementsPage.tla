--------------------------- MODULE SettlementsPage ---------------------------
(***************************************************************************)
(* The parser of the settlements history page, _SettlementsParser of       *)
(* http/settlements.py, fed tag by tag with the page the platform's        *)
(* template renders: a label and a card for each month, the card with a    *)
(* badge, a summary grid and, unless it is a bare one, a table of charges  *)
(* whose head row is never closed, and an invoice link.  The template may  *)
(* change: an element loses what the parser knows it by, a text is empty   *)
(* or cannot be parsed.                                                    *)
(***************************************************************************)
EXTENDS Integers, Sequences, FiniteSets

CONSTANTS
  MaxCards,   \* bound on the months of a page
  MaxDrifts,  \* bound on the pieces that are not as the parser knows them
  None

VARIABLES
  shown,   \* what the platform shows: a sequence of months
  month, place, \* the piece to be fed next: the place-th of a month
  fedAs,    \* what it is fed as, "itself" unless it changed
  drifts,  \* the pieces that changed
  depth,   \* open div elements
  since,   \* the depth at which each context started, Closed if it is not open
  text,    \* the text of the open contexts
  row,     \* the cells of the open table row, None outside one
  cell,    \* the text of the open cell, None outside one
  pending, \* the label read last and not taken by a card yet
  card,    \* the open card, None outside one
  cards,   \* the finished ones
  outcome  \* "parsing", "read" or "refused"

pageVars == <<shown, month, place, fedAs, drifts>>
rowVars  == <<row, cell>>
cardVars == <<pending, card, cards>>
parserVars ==
  <<pageVars, depth, since, text, rowVars, cardVars, outcome>>

-----------------------------------------------------------------------------
(* The page.  A piece tells which month it belongs to and what it is.      *)
Piece(i, is) == [of |-> i, is |-> is]
Divs == {"label", "card", "grid", "item", "plain"}
Words ==
  {"month", "paid", "head", "charge", "price",
   "Kwota", "amount", "Saldo", "saldo", "Termin", "due"}
Said == Words \cup {"garbled"}

Template ==
  <<"label", "month", "/div",
    "card", "badge", "paid", "/span",
      "plain", "table",
        "tr", "td", "head", "/td",
        "tr", "td", "charge", "/td", "td", "price", "/td", "/tr",
        "tr", "td", "invoice", "/td", "/tr",
      "/div",
      "grid", "item", "Kwota", "amount", "/div",
              "item", "Saldo", "saldo", "/div",
              "item", "Termin", "due", "/div", "/div", "/div">>

(* The places of a month's pieces: of the badge's end and of the grid.     *)
Badged == 7
Grid == 28
LastPlace == 42
Following ==
  IF place = Badged /\ shown[month].bare THEN Grid ELSE place + 1

HasMore == month \in DOMAIN shown
Shown == Piece(month, Template[place])
Fed == IF fedAs = "itself" THEN Shown ELSE Piece(month, fedAs)

(* An element loses what the parser knows it by, a text is empty or cannot *)
(* be parsed.                                                              *)
Drifted(is) ==
  CASE is \in Divs \ {"plain"} -> {"plain"}
    [] is \in {"badge", "table", "tr", "td", "invoice"} -> {"other"}
    [] is \in Words -> {"other", "garbled"}
    [] OTHER -> {}

-----------------------------------------------------------------------------
(* What the parser makes of the pieces: a text, and what a card keeps.     *)
Texts == Seq([of : Nat, is : Said])
Cards ==
  [label : Texts, paid : Texts, amount : Texts, saldo : Texts, due : Texts,
   rows : Seq(Texts \X Texts), bill : Nat \cup {None}]

Contexts == {"label", "card", "badge", "grid", "item"}
Closed == -1
IsOpen(c) == since[c] # Closed

Init ==
  /\ \E n \in 0 .. MaxCards : shown \in [1 .. n -> [key : 1 .. n, bare : BOOLEAN]]
  /\ \A i \in DOMAIN shown : shown[i].key \in {i - 1, i}
  /\ month = 1 /\ place = 1 /\ fedAs = "itself" /\ drifts = {}
  /\ depth = 0 /\ since = [c \in Contexts |-> Closed]
  /\ text = [c \in {"label", "badge", "item"} |-> <<>>]
  /\ row = None /\ cell = None
  /\ pending = <<>> /\ card = None /\ cards = <<>>
  /\ outcome = "parsing"

Drift ==
  /\ HasMore /\ fedAs = "itself" /\ Cardinality(drifts) < MaxDrifts
  /\ fedAs' \in Drifted(Shown.is)
  /\ drifts' = drifts \cup {Shown}
  /\ UNCHANGED <<shown, month, place, depth, since, text, rowVars, cardVars, outcome>>

-----------------------------------------------------------------------------
NewCardReused(label) ==
  IF cards = <<>>
  THEN [label |-> label, paid |-> <<>>, amount |-> <<>>, saldo |-> <<>>, due |-> <<>>,
        rows |-> <<>>, bill |-> None]
  ELSE [cards[Len(cards)] EXCEPT !.label = label]
NewCard(label) ==
  [label |-> label, paid |-> <<>>, amount |-> <<>>, saldo |-> <<>>, due |-> <<>>,
   rows |-> <<>>, bill |-> None]

Begins(c, d) == since' = [since EXCEPT ![c] = d]
Cleared(c) == text' = [text EXCEPT ![c] = <<>>]

(* handle_starttag.                                                        *)
StartDiv(role) ==
  /\ depth' = depth + 1
  /\ CASE role = "label" /\ ~IsOpen("card") ->
            Begins("label", depth') /\ Cleared("label") /\ UNCHANGED cardVars
       [] role = "card" /\ ~IsOpen("card") ->
            /\ Begins("card", depth')
            /\ card' = NewCard(pending) /\ pending' = <<>>
            /\ UNCHANGED <<cards, text>>
       [] role = "grid" /\ IsOpen("card") /\ ~IsOpen("grid") ->
            Begins("grid", depth') /\ UNCHANGED <<cardVars, text>>
       [] role = "item" /\ IsOpen("grid") ->
            Begins("item", depth') /\ Cleared("item") /\ UNCHANGED cardVars
       [] OTHER -> UNCHANGED <<since, text, cardVars>>
  /\ UNCHANGED rowVars

StartBadge ==
  /\ IF IsOpen("card") THEN Begins("badge", depth) /\ Cleared("badge")
                       ELSE UNCHANGED <<since, text>>
  /\ UNCHANGED <<depth, rowVars, cardVars>>

StartRow(tag) ==
  /\ row' = CASE tag = "table" /\ IsOpen("card") -> None
              [] tag = "tr" /\ IsOpen("card") /\ ~IsOpen("grid") -> <<>>
              [] OTHER -> row
  /\ UNCHANGED <<depth, since, text, cell, cardVars>>

StartCell ==
  /\ cell' = IF row = None THEN cell ELSE <<>>
  /\ UNCHANGED <<depth, since, text, row, cardVars>>

(* The first invoice link of a card counts.                                *)
StartLink(i) ==
  /\ card' = IF card # None /\ card.bill = None THEN [card EXCEPT !.bill = i] ELSE card
  /\ UNCHANGED <<depth, since, text, rowVars, pending, cards>>

-----------------------------------------------------------------------------
(* handle_endtag.                                                          *)
Ends(c) == IsOpen(c) /\ depth <= since[c]

Field == [Kwota |-> "amount", Saldo |-> "saldo", Termin |-> "due"]
(* The card with a finished item of its grid: a word and the rest.         *)
WithItem(t) ==
  IF t # <<>> /\ Head(t).is \in DOMAIN Field
  THEN [card EXCEPT ![Field[Head(t).is]] = Tail(t)]
  ELSE card

EndDiv ==
  LET kept == IF Ends("item") THEN WithItem(text.item) ELSE card
  IN  /\ cards' = IF Ends("card") THEN Append(cards, kept) ELSE cards
      /\ card' = IF Ends("card") THEN None ELSE kept
      /\ pending' = IF Ends("label") THEN text.label ELSE pending
      /\ since' = [c \in Contexts |->
                     IF \/ Ends(c) /\ c # "badge"
                        \/ Ends("card") /\ c \in {"grid", "badge"}
                     THEN Closed ELSE since[c]]
      /\ depth' = IF depth = 0 THEN 0 ELSE depth - 1
      /\ UNCHANGED <<text, rowVars>>

EndSpan ==
  /\ IF Ends("badge")
     THEN /\ card' = [card EXCEPT !.paid = text.badge]
          /\ since' = [since EXCEPT !.badge = Closed]
     ELSE UNCHANGED <<card, since>>
  /\ UNCHANGED <<depth, text, rowVars, pending, cards>>

EndCell ==
  /\ row' = IF row # None /\ cell # None THEN Append(row, cell) ELSE row
  /\ cell' = None
  /\ UNCHANGED <<depth, since, text, cardVars>>

(* A row of two cells, neither of them empty, is a charge.                 *)
EndRow ==
  /\ row' = None
  /\ card' = IF card # None /\ row # None /\ Len(row) >= 2 /\ row[1] # <<>> /\ row[2] # <<>>
             THEN [card EXCEPT !.rows = Append(@, <<row[1], row[2]>>)] ELSE card
  /\ UNCHANGED <<depth, since, text, cell, pending, cards>>

(* handle_data.                                                            *)
Feed(p) ==
  /\ text' = [c \in DOMAIN text |-> IF IsOpen(c) THEN Append(text[c], p) ELSE text[c]]
  /\ cell' = IF cell = None THEN None ELSE Append(cell, p)
  /\ UNCHANGED <<depth, since, row, cardVars>>

-----------------------------------------------------------------------------
Handle(p) ==
  \/ p.is \in Said /\ Feed(p)
  \/ p.is \in Divs /\ StartDiv(p.is)
  \/ p.is = "badge" /\ StartBadge
  \/ p.is \in {"table", "tr"} /\ StartRow(p.is)
  \/ p.is = "td" /\ StartCell
  \/ p.is = "invoice" /\ StartLink(p.of)
  \/ p.is = "/div" /\ EndDiv
  \/ p.is = "/span" /\ EndSpan
  \/ p.is = "/td" /\ EndCell
  \/ p.is = "/tr" /\ EndRow
  \/ p.is = "other" /\ UNCHANGED <<depth, since, text, rowVars, cardVars>>

Parse ==
  /\ HasMore
  /\ Handle(Fed)
  /\ month' = IF place = LastPlace THEN month + 1 ELSE month
  /\ place' = IF place = LastPlace THEN 1 ELSE Following
  /\ fedAs' = "itself"
  /\ UNCHANGED <<shown, drifts, outcome>>

(* What parse_month_key, parse_money and parse_due_date make of a text.    *)
Is(t, words) == Len(t) = 1 /\ t[1].is \in words
IsMonth(t) == Is(t, {"month"})
IsMoney(t) == Is(t, {"amount", "saldo", "price"})
IsDate(t) == Is(t, {"due"})

IsWhole(c) ==
  /\ IsMonth(c.label) /\ IsMoney(c.amount) /\ IsMoney(c.saldo)
  /\ c.due = <<>> \/ IsDate(c.due)
  /\ \A k \in DOMAIN c.rows : IsMoney(c.rows[k][2])

(* months: one card that does not make a month, or a second one of a       *)
(* month, and the page is refused as a whole.                              *)
Validate ==
  /\ ~HasMore /\ outcome = "parsing"
  /\ outcome' = IF /\ \A k \in DOMAIN cards : IsWhole(cards[k])
                   /\ \A j, k \in DOMAIN cards :
                        shown[cards[j].label[1].of].key = shown[cards[k].label[1].of].key
                        => j = k
                THEN "read" ELSE "refused"
  /\ UNCHANGED <<pageVars, depth, since, text, rowVars, cardVars>>

Next == Drift \/ Parse \/ Validate

-----------------------------------------------------------------------------
(* What a month's card shows.                                              *)
Text(i, is) == <<Piece(i, is)>>
Shows(i) ==
  [label |-> Text(i, "month"), paid |-> Text(i, "paid"), amount |-> Text(i, "amount"),
   saldo |-> Text(i, "saldo"), due |-> Text(i, "due"),
   rows |-> IF shown[i].bare THEN <<>> ELSE << <<Text(i, "charge"), Text(i, "price")>> >>,
   bill |-> IF shown[i].bare THEN None ELSE i]

IsOf(i, t) == \A k \in DOMAIN t : t[k].of = i

(* The label of month j reaches the card of month i if no card took it and *)
(* no label took its place.                                                *)
Reaches(j, i) ==
  /\ \A k \in j .. i - 1 : Piece(k, "card") \in drifts
  /\ \A k \in j + 1 .. i : Piece(k, "label") \in drifts

(* A month that is read has its amounts and whatever else it has from one  *)
(* card, and the label too: nothing is carried over from the card before   *)
(* when a piece is missing.  Only a card that lost its label right after   *)
(* labels that lost their cards is taken for another month (_pending_label *)
(* is cleared by a card and not by a label).                               *)
MonthsAreNotMixed ==
  outcome = "read" => \A k \in DOMAIN cards : LET c == cards[k] IN \E i \in DOMAIN shown :
    /\ \E j \in 1 .. i : c.label = Text(j, "month") /\ Reaches(j, i)
    /\ c.amount = Shows(i).amount /\ c.saldo = Shows(i).saldo
    /\ c.due \in {Shows(i).due, <<>>} /\ c.bill \in {i, None} /\ IsOf(i, c.paid)
    /\ \A r \in DOMAIN c.rows : IsOf(i, c.rows[r][1]) /\ IsOf(i, c.rows[r][2])

(* A page that is read is read as a whole: every card that is as the       *)
(* parser knows it with all it shows, and every other with its amounts,    *)
(* but for one that is not even known for a card (months).                 *)
NoMonthIsLost ==
  outcome = "read" => \A i \in DOMAIN shown :
    \/ \E k \in DOMAIN cards : cards[k] = Shows(i)
    \/ Piece(i, "card") \in drifts
    \/ /\ \E d \in drifts : d.of = i
       /\ \E k \in DOMAIN cards : cards[k].amount = Shows(i).amount

(* Any structural surprise refuses the page as a whole, or costs no more   *)
(* than the piece that is surprising, and never mixes up two months; but   *)
(* the docstring's "never a partial dump" takes more, since an unknown     *)
(* card is passed over (parse_settlements_history).                        *)
MonthsAreAsShown == MonthsAreNotMixed /\ NoMonthIsLost

=============================================================================
