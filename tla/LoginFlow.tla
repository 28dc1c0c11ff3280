------------------------------ MODULE LoginFlow ------------------------------
(***************************************************************************)
(* login of http/login.py with parse_login_response of http/auth.py: a     *)
(* warm-up GET, the POST of the form, at most MaxRedirects hops, and the   *)
(* session read from the cookies gathered on the way.  The server answers  *)
(* as it likes.  A cookie is the number of the PHPSESSID the server has    *)
(* issued, 0 standing for a response that sets none.                       *)
(***************************************************************************)
EXTENDS Naturals, Sequences, SequencesExt

CONSTANT MaxRedirects   \* MAX_REDIRECTS

Targets == {"home", "elsewhere", "foreign"}
(* location: where a redirect points; "none" for a final response and for  *)
(* a redirect without a Location header.                                   *)
Responses == [cookie : Nat, location : Targets \cup {"none"}]
Errors == {"transport", "off_domain_redirect", "redirect_loop",
           "missing_phpsessid", "no_user_uuid"}
NoResponse == [cookie |-> 0, location |-> "none"]

VARIABLES
  pc,        \* "warmup", "post", "follow", "parse", "ok" or "failed"
  current,   \* the response in hand
  hops,      \* redirects followed
  gathered,  \* accumulated_cookies, oldest first
  lastUrl,   \* "login" or the target of the last redirect
  session,   \* the PHPSESSID of the session, 0 before there is one
  error,
  issued     \* PHPSESSIDs issued by the server since the form was posted

vars == <<pc, current, hops, gathered, lastUrl, session, error, issued>>

Init ==
  /\ pc = "warmup" /\ current = NoResponse /\ hops = 0
  /\ gathered = <<>> /\ lastUrl = "login"
  /\ session = 0 /\ error = "none" /\ issued = 0

Fail(e) == pc' = "failed" /\ error' = e

(* The server's answer: with or without a new cookie, final or a redirect. *)
Receive ==
  \E sets \in BOOLEAN, l \in Targets \cup {"none"} :
    /\ issued' = IF sets THEN issued + 1 ELSE issued
    /\ current' = [cookie |-> IF sets THEN issued + 1 ELSE 0, location |-> l]

(* Whatever the login page answers; its cookies are not gathered.          *)
WarmUp ==
  /\ pc = "warmup"
  /\ \/ pc' = "post" /\ UNCHANGED error
     \/ Fail("transport")
  /\ UNCHANGED <<current, hops, gathered, lastUrl, session, issued>>

PostForm ==
  /\ pc = "post"
  /\ \/ Receive /\ pc' = "follow" /\ UNCHANGED error
     \/ Fail("transport") /\ UNCHANGED <<current, issued>>
  /\ UNCHANGED <<hops, gathered, lastUrl, session>>

CookiesOf(response) == IF response.cookie = 0 THEN <<>> ELSE <<response.cookie>>
GatheredOnlyNow == CookiesOf(current)
Gathered == gathered \o CookiesOf(current)

MayFollow == hops < MaxRedirects

(* An iteration of the loop that finds no redirect to follow.              *)
StopFollowing ==
  /\ pc = "follow" /\ MayFollow
  /\ current.location = "none"
  /\ gathered' = Gathered
  /\ pc' = "parse"
  /\ UNCHANGED <<current, hops, lastUrl, session, error, issued>>

LeaveOrigin ==
  /\ pc = "follow" /\ MayFollow
  /\ current.location = "foreign"
  /\ gathered' = Gathered /\ lastUrl' = "foreign"
  /\ Fail("off_domain_redirect")
  /\ UNCHANGED <<current, hops, session, issued>>

FollowRedirect ==
  /\ pc = "follow" /\ MayFollow
  /\ current.location \in {"home", "elsewhere"}
  /\ gathered' = Gathered
  /\ lastUrl' = current.location
  /\ hops' = hops + 1
  /\ \/ Receive /\ UNCHANGED <<pc, error>>
     \/ Fail("transport") /\ UNCHANGED <<current, issued>>
  /\ UNCHANGED session

Exhausted == hops = MaxRedirects

(* The for-else: MaxRedirects iterations ran, the last response is in hand.*)
ExhaustLoop ==
  /\ pc = "follow" /\ Exhausted
  /\ \/ current.location # "none" /\ Fail("redirect_loop")
     \/ current.location = "none" /\ pc' = "parse" /\ UNCHANGED error
  /\ UNCHANGED <<current, hops, gathered, lastUrl, session, issued>>

(* The final response's own cookies, then the gathered ones; the last wins.*)
FinalCookies == CookiesOf(current) \o gathered
FirstCookie == FinalCookies[1]
ExtractedCookie == Last(FinalCookies)

ParseLogin ==
  /\ pc = "parse"
  /\ \/ FinalCookies = <<>> /\ Fail("missing_phpsessid") /\ UNCHANGED session
     \/ FinalCookies # <<>> /\ lastUrl # "home" /\ Fail("no_user_uuid") /\ UNCHANGED session
     \/ /\ FinalCookies # <<>> /\ lastUrl = "home"
        /\ session' = ExtractedCookie
        /\ pc' = "ok" /\ UNCHANGED error
  /\ UNCHANGED <<current, hops, gathered, lastUrl, issued>>

Step ==
  \/ WarmUp \/ PostForm
  \/ StopFollowing \/ LeaveOrigin \/ FollowRedirect \/ ExhaustLoop
  \/ ParseLogin

Spec == Init /\ [][Step]_vars

-----------------------------------------------------------------------------
(* Every variable stays in its range: no chain is followed further than    *)
(* MAX_REDIRECTS hops.                                                     *)
TypeOK ==
  /\ pc \in {"warmup", "post", "follow", "parse", "ok", "failed"}
  /\ current \in Responses /\ hops \in 0 .. MaxRedirects
  /\ gathered \in Seq(Nat) /\ lastUrl \in Targets \cup {"login"}
  /\ session \in Nat /\ issued \in Nat /\ error \in Errors \cup {"none"}

=============================================================================
