-------------------------- MODULE SyncCommandProofs --------------------------
(***************************************************************************)
(* Proofs about SyncCommand, for every set of categories and any number of *)
(* sessions and failures: the exit codes mean what they say.               *)
(***************************************************************************)
EXTENDS SyncCommand, TLAPS

(* Of a plan that is not done there is a first segment, and it is planned. *)
LEMMA CurrentIsPlanned ==
  ASSUME Todo # {}
  PROVE  /\ Current \in ToSet(Segments)
         /\ Current \in Planned(choice) \ handled
<1>1. DOMAIN Segments = 1 .. 5
  BY DEF Segments
<1>2. Todo \subseteq 1 .. 5
  BY <1>1 DEF Todo
<1>3. \E i \in Todo : \A j \in Todo : i <= j
  <2>1. CASE 1 \in Todo
    BY <1>2, <2>1
  <2>2. CASE 1 \notin Todo /\ 2 \in Todo
    BY <1>2, <2>2
  <2>3. CASE 1 \notin Todo /\ 2 \notin Todo /\ 3 \in Todo
    BY <1>2, <2>3
  <2>4. CASE 1 \notin Todo /\ 2 \notin Todo /\ 3 \notin Todo /\ 4 \in Todo
    BY <1>2, <2>4
  <2>5. CASE 1 \notin Todo /\ 2 \notin Todo /\ 3 \notin Todo /\ 4 \notin Todo
    <3>1. PICK i \in Todo : TRUE
      OBVIOUS
    <3>2. \A j \in Todo : j = 5
      BY <1>2, <2>5
    <3>3. QED
      BY <3>1, <3>2
  <2>6. QED
    BY <2>1, <2>2, <2>3, <2>4, <2>5
<1>4. Min(Todo) \in Todo
  BY <1>3 DEF Min
<1>5. QED
  BY <1>4 DEF Current, Todo, ToSet

(* A plan has nothing but segments.                                        *)
LEMMA PlansAreSegments == ASSUME NEW c \in Categories PROVE Planned(c) \subseteq ToSet(Segments)
BY ConstantsAssumption DEF Planned

-----------------------------------------------------------------------------
(* What a command has done so far: a summary of all it is through with but *)
(* the documents, nothing refused while it runs, and no session before it *)
(* loads one.  At its end its exit code says which of it happened.         *)
Progress ==
  /\ choice \in Categories
  /\ totals = handled \ {"documents"}
  /\ pc # "idle" => refused = "none"
  /\ pc = "load" => loaded = NoSession
IInv == TypeOK /\ Progress /\ SuccessIsComplete /\ LoginIsNeeded

(* The codes there are, none of them that of another kind of failure.      *)
LEMMA CodesAre ==
  ASSUME NEW kind \in {"config", "auth", "session_expired", "http", "platform_changed", "internal"}
  PROVE  /\ ExitCode[kind] \in Codes /\ ExitCode[kind] # 0
         /\ ExitCode[kind] = ExitCode.session_expired => kind = "session_expired"
<1>1. DOMAIN ExitCode =
        {"config", "auth", "session_expired", "http", "platform_changed", "internal"}
  BY DEF ExitCode
<1>2. ExitCode[kind] \in Codes
  BY <1>1 DEF Codes
<1>3. ExitCode[kind] # 0 /\ (ExitCode[kind] = ExitCode.session_expired => kind = "session_expired")
  BY DEF ExitCode
<1>4. QED
  BY <1>2, <1>3

LEMMA InitIInv == Init => IInv
<1> SUFFICES ASSUME Init PROVE IInv
  OBVIOUS
<1> USE DEF Init
<1>1. TypeOK
  <2>1. file \in 0 .. issued \cup {BadFile} /\ issued \in 0 .. MaxSessions /\ faults \in 0 .. MaxFaults
    BY ConstantsAssumption DEF NoSession, BadFile
  <2>2. exit \in Codes /\ loaded \in 0 .. issued
    BY DEF Codes, NoSession
  <2>3. refused \in {"none", "children"} \cup ToSet(Segments)
    OBVIOUS
  <2>4. QED
    BY <2>1, <2>2, <2>3 DEF TypeOK
<1>2. Progress
  BY DEF Progress
<1>3. SuccessIsComplete /\ LoginIsNeeded
  BY DEF SuccessIsComplete, LoginIsNeeded, NoExit, ExitCode
<1>4. QED
  BY <1>1, <1>2, <1>3 DEF IInv

-----------------------------------------------------------------------------
(* A command ends with the code of a failure: nothing is claimed complete. *)
LEMMA DyingIsSafe ==
  ASSUME IInv, NEW kind \in DOMAIN ExitCode, Die(kind),
         pc # "idle", UNCHANGED <<file, platform, choice, handled, totals>>,
         loaded' = loaded, refused' \in {"none", "children"} \cup ToSet(Segments),
         faults' \in 0 .. MaxFaults,
         kind = "session_expired" => loaded \notin accepted \/ refused' \in Timelines
  PROVE  IInv'
<1>1. DOMAIN ExitCode =
        {"config", "auth", "session_expired", "http", "platform_changed", "internal"}
  BY DEF ExitCode
<1>2. /\ exit' \in Codes /\ exit' # 0
      /\ exit' = ExitCode.session_expired => kind = "session_expired"
  BY <1>1, CodesAre DEF Die
<1>3. TypeOK'
  BY <1>2 DEF IInv, TypeOK, Die, platform
<1>4. Progress'
  BY DEF IInv, Progress, Die
<1>5. SuccessIsComplete' /\ LoginIsNeeded'
  BY <1>2 DEF SuccessIsComplete, LoginIsNeeded, platform
<1>6. QED
  BY <1>3, <1>4, <1>5 DEF IInv

LEMMA NextIInv == IInv /\ [Next]_vars => IInv'
<1> SUFFICES ASSUME IInv, [Next]_vars PROVE IInv'
  OBVIOUS
<1> USE ConstantsAssumption
<1>1. CASE Login
  <2>1. issued \in 0 .. MaxSessions /\ issued < MaxSessions /\ issued' = issued + 1
    BY <1>1 DEF Login, IInv, TypeOK
  <2>2. file' \in 0 .. issued' /\ issued' \in 0 .. MaxSessions
    BY <1>1, <2>1 DEF Login
  <2>3. accepted' \subseteq 1 .. issued' /\ loaded' \in 0 .. issued'
    <3>1. accepted \subseteq 1 .. issued /\ loaded \in 0 .. issued
      BY DEF IInv, TypeOK
    <3>2. accepted' = accepted \cup {issued'} /\ loaded' = loaded
      BY <1>1 DEF Login, command
    <3>3. QED
      BY <2>1, <3>1, <3>2
  <2>4. exit' \in Codes /\ exit' # 0 /\ exit' # ExitCode.session_expired
    BY <1>1 DEF Login, Codes, NoExit, ExitCode
  <2>5. TypeOK'
    BY <1>1, <2>2, <2>3, <2>4 DEF Login, command, IInv, TypeOK
  <2>6. Progress'
    BY <1>1 DEF Login, command, IInv, Progress
  <2>7. QED
    BY <2>4, <2>5, <2>6 DEF IInv, SuccessIsComplete, LoginIsNeeded
<1>2. ASSUME NEW s \in Issued, Expire(s) PROVE IInv'
  BY <1>2 DEF Expire, command, IInv, TypeOK, Progress, SuccessIsComplete, LoginIsNeeded
<1>3. ASSUME NEW c \in Categories, StartSync(c) PROVE IInv'
  <2>1. TypeOK'
    <3>1. refused' \in {"none", "children"} \cup ToSet(Segments)
      BY <1>3 DEF StartSync
    <3>2. loaded' \in 0 .. issued'
      BY <1>3 DEF StartSync, platform, IInv, TypeOK, NoSession
    <3>3. QED
      BY <1>3, <3>1, <3>2 DEF StartSync, platform, IInv, TypeOK
  <2>2. Progress' /\ SuccessIsComplete' /\ LoginIsNeeded'
    BY <1>3 DEF StartSync, IInv, Progress, SuccessIsComplete, LoginIsNeeded
  <2>3. QED
    BY <2>1, <2>2 DEF IInv
<1>4. CASE LoadSession
  <2>1. pc = "load" /\ loaded = NoSession /\ UNCHANGED <<platform, handled, totals>>
    BY <1>4 DEF LoadSession, IInv, Progress, command
  <2>2. NoSession \notin accepted
    BY DEF IInv, TypeOK, NoSession
  <2>3. "session_expired" \in DOMAIN ExitCode /\ "config" \in DOMAIN ExitCode
    BY DEF ExitCode
  <2>4. ASSUME NEW kind \in {"session_expired", "config"}, Die(kind), UNCHANGED loaded
        PROVE  IInv'
    BY <1>4, <2>1, <2>2, <2>3, <2>4, DyingIsSafe DEF LoadSession, IInv, TypeOK
  <2>5. CASE file \in Issued /\ loaded' = file /\ pc' = "prepare" /\ UNCHANGED exit
    BY <1>4, <2>1, <2>5 DEF LoadSession, Issued, BadFile, platform, IInv, TypeOK, Progress, NoSession,
       SuccessIsComplete, LoginIsNeeded
  <2>6. QED
    BY <1>4, <2>4, <2>5 DEF LoadSession
<1>5. CASE Prepare
  BY <1>5 DEF Prepare, platform, command, IInv, TypeOK, Progress, SuccessIsComplete, LoginIsNeeded
<1>6. CASE ResolveChild
  BY <1>6 DEF ResolveChild, platform, command, IInv, TypeOK, Progress, SuccessIsComplete,
     LoginIsNeeded
<1>7. CASE SkipSegment
  <2>1. Current = "documents" /\ Current \in Planned(choice)
    BY <1>7, CurrentIsPlanned DEF SkipSegment, IsSkipped
  <2>2. QED
    BY <1>7, <2>1 DEF SkipSegment, platform, IInv, TypeOK, Progress, SuccessIsComplete,
       LoginIsNeeded
<1>8. CASE RunSegment
  <2>1. Current # "documents" /\ Current \in Planned(choice)
    BY <1>8, CurrentIsPlanned DEF RunSegment, IsSkipped
  <2>2. QED
    BY <1>8, <2>1 DEF RunSegment, platform, IInv, TypeOK, Progress, SuccessIsComplete,
       LoginIsNeeded
<1>9. CASE RejectRequest
  <2>1. RejectionKind \in DOMAIN ExitCode
    BY DEF RejectionKind, ExitCode
  <2>2. Asking \in {"none", "children"} \cup ToSet(Segments)
    BY <1>9, CurrentIsPlanned DEF RejectRequest, AtWork, Asking
  <2>3. QED
    BY <1>9, <2>1, <2>2, DyingIsSafe DEF RejectRequest, AtWork, IInv, TypeOK
<1>10. CASE BlockRequest
  <2>1. /\ BlockedKind \in DOMAIN ExitCode
        /\ BlockedKind = "session_expired" => Asking \in Timelines
    BY DEF BlockedKind, ExitCode
  <2>2. Asking \in {"none", "children"} \cup ToSet(Segments)
    BY <1>10, CurrentIsPlanned DEF BlockRequest, AtWork, Asking
  <2>3. faults' \in 0 .. MaxFaults
    BY <1>10 DEF BlockRequest, IInv, TypeOK
  <2>4. QED
    BY <1>10, <2>1, <2>2, <2>3, DyingIsSafe DEF BlockRequest, AtWork, IInv, TypeOK
<1>11. CASE FailOtherwise
  <2>1. PICK kind \in OtherKinds : Die(kind)
    BY <1>11 DEF FailOtherwise
  <2>2. kind \in DOMAIN ExitCode /\ kind # "session_expired"
    BY <2>1 DEF OtherKinds, ExitCode
  <2>3. faults' \in 0 .. MaxFaults
    BY <1>11 DEF FailOtherwise, IInv, TypeOK
  <2>4. QED
    BY <1>11, <2>1, <2>2, <2>3, DyingIsSafe DEF FailOtherwise, AtWork, command, IInv, TypeOK
<1>12. CASE Finish
  <2>1. handled = Planned(choice)
    <3>1. Planned(choice) \subseteq ToSet(Segments)
      BY PlansAreSegments DEF IInv, Progress
    <3>2. Planned(choice) \subseteq handled
      BY <1>12, <3>1 DEF Finish, Todo, ToSet
    <3>3. QED
      BY <3>2 DEF IInv, TypeOK
  <2>2. TypeOK'
    <3>1. exit' \in Codes
      BY <1>12 DEF Finish, Codes
    <3>2. QED
      BY <1>12, <3>1 DEF Finish, platform, command, IInv, TypeOK
  <2>3. Progress' /\ SuccessIsComplete'
    BY <1>12, <2>1 DEF Finish, command, IInv, Progress, SuccessIsComplete
  <2>4. LoginIsNeeded'
    BY <1>12 DEF Finish, LoginIsNeeded, ExitCode
  <2>5. QED
    BY <2>2, <2>3, <2>4 DEF IInv
<1>13. CASE UNCHANGED vars
  BY <1>13 DEF vars, platform, command, IInv, TypeOK, Progress, SuccessIsComplete, LoginIsNeeded
<1>14. QED
  BY <1>1, <1>2, <1>3, <1>4, <1>5, <1>6, <1>7, <1>8, <1>9, <1>10, <1>11, <1>12, <1>13 DEF Next, Process

-----------------------------------------------------------------------------
LEMMA Invariance == Spec => []IInv
  BY InitIInv, NextIInv, PTL DEF Spec

(* Type correctness, which the runs leave to this proof.                   *)
THEOREM TypeCorrect == Spec => []TypeOK
<1>1. IInv => TypeOK
  BY DEF IInv
<1>2. QED
  BY <1>1, Invariance, PTL

(* Exit code 0 means that every planned category but the documents ran to  *)
(* its end, whatever the category and however often sessions expire        *)
(* (_do_sync).                                                             *)
THEOREM ZeroIsComplete == Spec => []SuccessIsComplete
<1>1. IInv => SuccessIsComplete
  BY DEF IInv
<1>2. QED
  BY <1>1, Invariance, PTL

(* Exit code 4 is given to no one whose session the platform accepts,      *)
(* unless a request of the timeline was refused (_die, list_posts).        *)
THEOREM FourNeedsLogin == Spec => []LoginIsNeeded
<1>1. IInv => LoginIsNeeded
  BY DEF IInv
<1>2. QED
  BY <1>1, Invariance, PTL

=============================================================================
