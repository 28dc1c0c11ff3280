----------------------------- MODULE SyncCommand -----------------------------
(***************************************************************************)
(* The sync command of cli.py: it loads the saved session, prepares the    *)
(* dump root and the configuration, resolves the child if a per-child      *)
(* category is planned, runs the planned categories one after the other    *)
(* and turns the first error into an exit code.  What a category does to   *)
(* its part of the dump is the subject of PostsSync, MessagesSync and      *)
(* SettlementsSync; here it completes, fails, or has a request refused,    *)
(* because the platform dropped the session meanwhile or because what is   *)
(* in front of the platform takes the client for a robot.                  *)
(***************************************************************************)
EXTENDS Naturals, Sequences, SequencesExt

Segments == <<"announcements", "galleries", "messages", "documents", "settlements">>

CONSTANTS
  Categories,   \* what the user passes as --category
  MaxSessions,  \* bound on the sessions ever issued; the last one stays
  MaxFaults     \* bound on the failures that have nothing to do with them

ASSUME ConstantsAssumption ==
  /\ Categories \subseteq ToSet(Segments) \cup {"all"} /\ "all" \in Categories
  /\ MaxSessions \in Nat \ {0} /\ MaxFaults \in Nat

(* _plan_for.                                                              *)
Planned(c) == IF c = "all" THEN ToSet(Segments) ELSE {c}
PerChild == {"announcements", "galleries", "settlements"}
Timelines == {"announcements", "galleries"}

(* session.json is missing (0), does not parse, or holds a session.        *)
NoSession == 0
BadFile == MaxSessions + 1
Issued == 1 .. MaxSessions

ExitCode ==
  [config |-> 2, auth |-> 3, session_expired |-> 4, http |-> 5, platform_changed |-> 6,
   internal |-> 99]
NoExit == 1000
Codes == {0, NoExit} \cup {ExitCode[k] : k \in DOMAIN ExitCode}

VARIABLES
  file,      \* session.json
  issued,    \* how many sessions the platform issued
  accepted,  \* those it still accepts
  pc,        \* "idle", "load", "prepare", "child" or "segments"
  choice,    \* the command's --category
  loaded,    \* its session
  handled,   \* the segments it is through with
  totals,    \* those it has a summary of
  refused,   \* whose request was refused: "none", "children" or a segment
  exit,      \* the exit code of the last sync, NoExit before one and after a login
  faults

platform == <<issued, accepted>>
command  == <<choice, loaded, handled, totals, refused>>
vars == <<file, platform, pc, command, exit, faults>>

Init ==
  /\ file \in {NoSession, BadFile} /\ issued = 0 /\ accepted = {}
  /\ pc = "idle" /\ choice \in Categories /\ loaded = NoSession
  /\ handled = {} /\ totals = {} /\ refused = "none"
  /\ exit = NoExit /\ faults = 0

-----------------------------------------------------------------------------
(* A login that succeeds: LoginFlow, then save_session.                    *)
Login ==
  /\ pc = "idle" /\ issued < MaxSessions
  /\ issued' = issued + 1
  /\ accepted' = accepted \cup {issued'}
  /\ file' = issued'
  /\ exit' = NoExit
  /\ UNCHANGED <<pc, command, faults>>

Expire(s) ==
  /\ s \in accepted /\ issued < MaxSessions
  /\ accepted' = accepted \ {s}
  /\ UNCHANGED <<file, issued, pc, command, exit, faults>>

-----------------------------------------------------------------------------
StartSync(c) ==
  /\ pc = "idle"
  /\ pc' = "load" /\ choice' = c
  /\ loaded' = NoSession /\ handled' = {} /\ totals' = {} /\ refused' = "none"
  /\ UNCHANGED <<file, platform, exit, faults>>

Die(kind) == pc' = "idle" /\ exit' = ExitCode[kind]

(* ensure_session_loaded.                                                  *)
LoadSession ==
  /\ pc = "load"
  /\ \/ file = NoSession /\ Die("session_expired") /\ UNCHANGED loaded
     \/ file = BadFile /\ Die("config") /\ UNCHANGED loaded
     \/ file \in Issued /\ loaded' = file /\ pc' = "prepare" /\ UNCHANGED exit
  /\ UNCHANGED <<file, platform, choice, handled, totals, refused, faults>>

(* The dump root and the configuration.                                    *)
Prepare ==
  /\ pc = "prepare"
  /\ pc' = IF Planned(choice) \cap PerChild # {} THEN "child" ELSE "segments"
  /\ UNCHANGED <<file, platform, command, exit, faults>>

ResolveChild ==
  /\ pc = "child" /\ loaded \in accepted
  /\ pc' = "segments"
  /\ UNCHANGED <<file, platform, command, exit, faults>>

Todo == {i \in DOMAIN Segments : Segments[i] \in Planned(choice) \ handled}
Current == IF Todo = {} THEN "none" ELSE Segments[Min(Todo)]

IsSkippedIfRejected(s) == s = "documents" \/ loaded \notin accepted
IsSkipped(s) == s = "documents"

(* The documents: a warning instead of an error.                           *)
SkipSegment ==
  /\ pc = "segments" /\ Todo # {} /\ IsSkipped(Current)
  /\ handled' = handled \cup {Current}
  /\ UNCHANGED <<file, platform, pc, choice, loaded, totals, refused, exit, faults>>

RunSegment ==
  /\ pc = "segments" /\ Todo # {} /\ ~IsSkipped(Current)
  /\ loaded \in accepted
  /\ handled' = handled \cup {Current}
  /\ totals' = totals \cup {Current}
  /\ UNCHANGED <<file, platform, pc, choice, loaded, refused, exit, faults>>

AtWork == pc = "child" \/ (pc = "segments" /\ Todo # {} /\ ~IsSkipped(Current))

Asking == IF pc = "child" THEN "children" ELSE Current

(* What the shells make of a rejected session: they know a redirect to the *)
(* login page, or a 401 or 403 from the timeline, for what it is; for the  *)
(* messages it is a status other than 200.                                 *)
RejectionAlwaysHttp == "http"
RejectionKind == IF Asking = "messages" THEN "http" ELSE "session_expired"

RejectRequest ==
  /\ AtWork /\ loaded \notin accepted
  /\ refused' = Asking
  /\ Die(RejectionKind)
  /\ UNCHANGED <<file, platform, choice, loaded, handled, totals, faults>>

(* A 401 or 403 that is not about the session.  The timeline takes it for  *)
(* an expired session all the same; the children's list has no menu in it. *)
BlockedMeansExpired == "session_expired"
BlockedKind ==
  CASE Asking = "children" -> "platform_changed"
    [] Asking \in Timelines -> "session_expired"
    [] OTHER -> "http"

BlockRequest ==
  /\ AtWork /\ loaded \in accepted
  /\ faults < MaxFaults
  /\ faults' = faults + 1
  /\ refused' = Asking
  /\ Die(BlockedKind)
  /\ UNCHANGED <<file, platform, choice, loaded, handled, totals>>

(* A bad path or configuration; an unknown child, a transport error, a     *)
(* drifted payload, an exception that reaches the last-resort catch.       *)
OtherKinds ==
  IF pc = "prepare" THEN {"config"} ELSE {"config", "http", "platform_changed", "internal"}

FailOtherwise ==
  /\ pc = "prepare" \/ AtWork
  /\ faults < MaxFaults
  /\ faults' = faults + 1
  /\ \E kind \in OtherKinds : Die(kind)
  /\ UNCHANGED <<file, platform, command>>

Finish ==
  /\ pc = "segments" /\ Todo = {}
  /\ pc' = "idle" /\ exit' = 0
  /\ UNCHANGED <<file, platform, command, faults>>

-----------------------------------------------------------------------------
Process ==
  \/ LoadSession \/ Prepare \/ ResolveChild
  \/ SkipSegment \/ RunSegment \/ RejectRequest \/ BlockRequest \/ FailOtherwise
  \/ Finish

Next ==
  \/ Login
  \/ \E s \in Issued : Expire(s)
  \/ \E c \in Categories : StartSync(c)
  \/ Process

Spec == Init /\ [][Next]_vars

(* A command ends.  The user tries --category all again and again, between *)
(* other syncs, and, after being told to often enough, logs in.  Only exit *)
(* code 4 comes with that advice.                                          *)
LoginAsTold == exit = ExitCode.session_expired /\ Login

FairSpec ==
  /\ Spec
  /\ WF_vars(Process) /\ SF_vars(LoginAsTold)
  /\ SF_vars(StartSync("all"))

-----------------------------------------------------------------------------
(* Every variable stays in its range, and a command has a session past     *)
(* loading it.                                                             *)
TypeOK ==
  /\ file \in 0 .. issued \cup {BadFile}
  /\ issued \in 0 .. MaxSessions /\ accepted \subseteq 1 .. issued
  /\ pc \in {"idle", "load", "prepare", "child", "segments"}
  /\ choice \in Categories
  /\ loaded \in 0 .. issued
  /\ pc \in {"prepare", "child", "segments"} => loaded # NoSession
  /\ totals \subseteq handled /\ handled \subseteq Planned(choice)
  /\ refused \in {"none", "children"} \cup ToSet(Segments) /\ faults \in 0 .. MaxFaults
  /\ exit \in Codes

(* Exit code 0 means that every planned category but the documents ran to  *)
(* its end and no request was refused (_do_sync).  The documents are never *)
(* done: --category documents alone ends with 0 and nothing on disk.       *)
SuccessIsComplete ==
  pc = "idle" /\ exit = 0 => totals = Planned(choice) \ {"documents"} /\ refused = "none"

(* Who is told to log in needs to: exit code 4 is given only when there is *)
(* no session or one that the platform no longer accepts, or else when it  *)
(* was a timeline's request that was refused (_die, list_posts).  For the  *)
(* timeline no more is true: any 401 or 403 there reads as an expired      *)
(* session, one from the bot management too.                               *)
LoginIsNeeded ==
  pc = "idle" /\ exit = ExitCode.session_expired =>
    loaded \notin accepted \/ refused \in Timelines

(* A user who logs in when told so, and tries again otherwise, gets a      *)
(* complete sync again and again.  Only a session file that does not parse *)
(* is without advice: as long as the user leaves it there, nothing works.  *)
FollowingAdviceSuffices ==
  []<>(file = BadFile \/ (pc = "idle" /\ choice = "all" /\ exit = 0))

=============================================================================
