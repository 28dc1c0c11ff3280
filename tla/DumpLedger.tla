----------------------------- MODULE DumpLedger -----------------------------
(***************************************************************************)
(* What the dumps of conversations and of posts promise alike, whatever    *)
(* their files and tables look like: the manifest claims an item only as   *)
(* far as the disk holds it, the disk holds it only as far as the platform *)
(* published it, and what is claimed stays stored until the claim is       *)
(* withdrawn.                                                              *)
(***************************************************************************)
EXTENDS Naturals

CONSTANT Items
VARIABLES published,  \* how far the platform has published an item
          stored,     \* how far the disk holds it, where a claim would point
          claimed     \* how far the manifest claims it

ledger == <<published, stored, claimed>>

Init ==
  /\ published \in [Items -> Nat]
  /\ stored = [i \in Items |-> 0]
  /\ claimed = [i \in Items |-> 0]

Publish(i) ==
  /\ published' = [published EXCEPT ![i] = @ + 1]
  /\ UNCHANGED <<stored, claimed>>

(* Writing may add and, as long as nothing claimed goes, drop.             *)
Store(i) ==
  /\ \E n \in claimed[i] .. published[i] : stored' = [stored EXCEPT ![i] = n]
  /\ UNCHANGED <<published, claimed>>

Claim(i) ==
  /\ claimed' = [claimed EXCEPT ![i] = stored[i]]
  /\ UNCHANGED <<published, stored>>

(* Before a forced re-dump; what was stored may be dropped with the claim. *)
Withdraw(i) ==
  /\ claimed' = [claimed EXCEPT ![i] = 0]
  /\ \E n \in 0 .. published[i] : stored' = [stored EXCEPT ![i] = n]
  /\ UNCHANGED published

Next == \E i \in Items : Publish(i) \/ Store(i) \/ Claim(i) \/ Withdraw(i)

Spec == Init /\ [][Next]_ledger

=============================================================================
