--------------------------- MODULE MCMessagesSync ---------------------------
(* Small instances of MessagesSync.  Both conversations have a recipient   *)
(* of the same name, as two conversations with one teacher do, so their    *)
(* base directory names collide whenever their dates agree.                *)
EXTENDS MessagesSync, Sequences, TLC

CONSTANTS c1, c2

OneTeacher  == [c \in Convs |-> "anna"]
Numbered    == [s \in {"anna"}, n \in 2 .. MaxSuffix |-> s \o "-" \o ToString(n)]
OneDay      == [t \in 0 .. MaxTime |-> 0]
TwoDays     == [t \in 0 .. MaxTime |-> IF t <= 1 THEN 0 ELSE 1]

(* Two conversations with one recipient can be exchanged.                  *)
Exchanges == Permutations(Convs)

=============================================================================
