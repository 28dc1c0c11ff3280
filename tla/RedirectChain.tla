---------------------------- MODULE RedirectChain ----------------------------
(***************************************************************************)
(* A GET of an HTML page: list_children of http/children_shell.py and      *)
(* _get_following_redirects of http/settlements.py with its two callers.   *)
(* The client follows no redirect by itself; these shells follow at most   *)
(* MaxRedirects, on the platform's origin only, and take a redirect to the *)
(* login page for the platform's way to say that the session is gone.      *)
(***************************************************************************)
EXTENDS Naturals

CONSTANT MaxRedirects   \* MAX_REDIRECTS

Shells == {"children", "settlements"}
Locations == {"none", "within", "login", "foreign"}
(* status: 200, one of REDIRECT_STATUSES, or any other.                    *)
Responses == [status : {"ok", "redirect", "other"}, location : Locations]
NoResponse == [status |-> "ok", location |-> "none"]
Errors == {"transport", "off_domain_redirect", "session_expired", "redirect_loop",
           "http_status", "platform_changed"}

VARIABLES
  shell,     \* the function that asks
  valid,     \* whether the platform still accepts the session
  pc,        \* "get", "follow", "final", "ok" or "failed"
  response,
  hops,      \* redirects followed
  error,
  turnedAway \* whether a response pointed at the login page

vars == <<shell, valid, pc, response, hops, error, turnedAway>>

Init ==
  /\ shell \in Shells /\ valid \in BOOLEAN
  /\ pc = "get" /\ response = NoResponse /\ hops = 0
  /\ error = "none" /\ turnedAway = FALSE

Fail(e) == pc' = "failed" /\ error' = e

Expire ==
  /\ valid /\ pc \notin {"ok", "failed"}
  /\ valid' = FALSE
  /\ UNCHANGED <<shell, pc, response, hops, error, turnedAway>>

(* Without a valid session the platform serves no page, and redirects to   *)
(* the login page, perhaps after a hop of its own; with one, never there.  *)
Receive ==
  /\ response' \in Responses
  /\ response'.status # "redirect" => response'.location = "none"
  /\ response'.location = "login" => ~valid
  /\ response'.status = "ok" => valid
  /\ turnedAway' = (response'.location = "login")

Get ==
  /\ pc = "get"
  /\ \/ Receive /\ pc' = "follow" /\ UNCHANGED error
     \/ Fail("transport") /\ UNCHANGED <<response, turnedAway>>
  /\ UNCHANGED <<shell, valid, hops>>

MayFollow == hops < MaxRedirects
IsRedirect == response.status = "redirect" /\ response.location # "none"
PointsAtLoginNever == FALSE
PointsAtLogin == response.location = "login"

StopFollowing ==
  /\ pc = "follow" /\ MayFollow /\ ~IsRedirect
  /\ pc' = "final"
  /\ UNCHANGED <<shell, valid, response, hops, error, turnedAway>>

LeaveOrigin ==
  /\ pc = "follow" /\ MayFollow /\ IsRedirect
  /\ response.location = "foreign"
  /\ Fail("off_domain_redirect")
  /\ UNCHANGED <<shell, valid, response, hops, turnedAway>>

TurnAway ==
  /\ pc = "follow" /\ MayFollow /\ IsRedirect
  /\ PointsAtLogin
  /\ Fail("session_expired")
  /\ UNCHANGED <<shell, valid, response, hops, turnedAway>>

FollowRedirect ==
  /\ pc = "follow" /\ MayFollow /\ IsRedirect
  /\ response.location # "foreign" /\ ~PointsAtLogin
  /\ hops' = hops + 1
  /\ \/ Receive /\ UNCHANGED <<pc, error>>
     \/ Fail("transport") /\ UNCHANGED <<response, turnedAway>>
  /\ UNCHANGED <<shell, valid>>

ExhaustedTooLate == hops > MaxRedirects
Exhausted == hops = MaxRedirects

(* The for-else: the last response allowed is in hand.                     *)
ExhaustLoop ==
  /\ pc = "follow" /\ Exhausted
  /\ IF IsRedirect THEN Fail("redirect_loop") ELSE pc' = "final" /\ UNCHANGED error
  /\ UNCHANGED <<shell, valid, response, hops, turnedAway>>

(* The settlements look at the status first; the children's menu is looked *)
(* for, and perhaps found, in whatever came.                               *)
IsParsed == shell = "settlements" => response.status = "ok"
Parse ==
  /\ pc = "final"
  /\ \/ ~IsParsed /\ Fail("http_status")
     \/ IsParsed /\ Fail("platform_changed")
     \/ IsParsed /\ pc' = "ok" /\ UNCHANGED error
  /\ UNCHANGED <<shell, valid, response, hops, turnedAway>>

Step ==
  \/ Get \/ StopFollowing \/ LeaveOrigin \/ TurnAway \/ FollowRedirect
  \/ ExhaustLoop \/ Parse

Spec == Init /\ [][Expire \/ Step]_vars

-----------------------------------------------------------------------------
(* Every variable stays in its range: no chain is followed further than    *)
(* MAX_REDIRECTS hops.                                                     *)
TypeOK ==
  /\ shell \in Shells /\ valid \in BOOLEAN
  /\ pc \in {"get", "follow", "final", "ok", "failed"}
  /\ response \in Responses /\ hops \in 0 .. MaxRedirects
  /\ error \in Errors \cup {"none"} /\ turnedAway \in BOOLEAN

=============================================================================
