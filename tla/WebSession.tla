------------------------------ MODULE WebSession ------------------------------
(***************************************************************************)
(* A login and the first command after it: LoginFlow obtains a PHPSESSID   *)
(* and the command, children or sync --category settlements, asks for its  *)
(* page with it (RedirectChain).  The platform accepts the PHPSESSID it    *)
(* issued last, until the session expires.  Of saving the session and      *)
(* loading it again this module says nothing; AtomicFile and SyncCommand   *)
(* do.                                                                     *)
(***************************************************************************)
EXTENDS Naturals

CONSTANT MaxRedirects   \* MAX_REDIRECTS
ASSUME MaxRedirectsAssumption == MaxRedirects \in Nat \ {0}

VARIABLES
  command,   \* whether the command after the login has started
  expired,   \* whether the platform ended the session of its own accord
  loginPc, current, loginHops, gathered, lastUrl, session, loginError, issued,
  shell, valid, pagePc, response, pageHops, pageError, turnedAway

Login == INSTANCE LoginFlow WITH
  pc <- loginPc, hops <- loginHops, error <- loginError
Page == INSTANCE RedirectChain WITH
  pc <- pagePc, hops <- pageHops, error <- pageError

loginVars == <<loginPc, current, loginHops, gathered, lastUrl, session, loginError, issued>>
pageVars  == <<shell, valid, pagePc, response, pageHops, pageError, turnedAway>>
vars == <<command, expired, loginVars, pageVars>>

Init ==
  /\ command = FALSE /\ expired = FALSE
  /\ Login!Init
  /\ Page!Init /\ ~valid

LoginStep ==
  /\ Login!Step
  /\ UNCHANGED <<command, expired, pageVars>>

(* The user runs the command.  A PHPSESSID other than the last is stale.   *)
StartCommand ==
  /\ ~command /\ loginPc = "ok"
  /\ command' = TRUE
  /\ valid' = (session = issued)
  /\ UNCHANGED <<expired, loginVars, shell, pagePc, response, pageHops, pageError, turnedAway>>

PageStep ==
  /\ command /\ Page!Step
  /\ UNCHANGED <<command, expired, loginVars>>

Expire ==
  /\ command /\ Page!Expire
  /\ expired' = TRUE
  /\ UNCHANGED <<command, loginVars>>

LoginEnded == loginPc \in {"ok", "failed"}
PageEnded == pagePc \in {"ok", "failed"}
Done == (loginPc = "failed" \/ PageEnded) /\ UNCHANGED vars

Next == LoginStep \/ StartCommand \/ PageStep \/ Expire \/ Done

(* Every request is answered or times out, and the user goes on after OK.  *)
Spec ==
  Init /\ [][Next]_vars /\ WF_vars(LoginStep) /\ WF_vars(StartCommand) /\ WF_vars(PageStep)

-----------------------------------------------------------------------------
(* Every variable stays in its range: neither shell follows more than      *)
(* MAX_REDIRECTS redirects.                                                *)
TypeOK ==
  /\ command \in BOOLEAN /\ expired \in BOOLEAN
  /\ Login!TypeOK /\ Page!TypeOK

(* A cookie set anywhere along the chain is not lost: the login complains  *)
(* of a missing PHPSESSID only if no response carried one (login).         *)
NoCookieIsLost == loginError = "missing_phpsessid" => issued = 0

(* The command after a login is told that its session expired only if it   *)
(* did: of the cookies rotated along the chain the login kept the latest.  *)
(* This is for logins that end before the longest chain (parse_login_      *)
(* response).                                                              *)
FreshSessionIsAccepted ==
  pageError = "session_expired" /\ loginHops < MaxRedirects => expired

(* The strong form: whatever its chain, the latest PHPSESSID wins.         *)
LatestCookieWins == loginPc = "ok" => session = issued

(* A redirect to the login page is reported as an expired session and      *)
(* nothing else is, up to the last redirect that is followed               *)
(* (list_children, _get_following_redirects).                              *)
LoginRedirectIsExpiry ==
  PageEnded /\ pageHops < MaxRedirects => (turnedAway <=> pageError = "session_expired")

(* However the platform redirects, login and command come to an end.       *)
EverythingEnds == <>LoginEnded /\ (command ~> PageEnded)

=============================================================================
