--------------------------- MODULE WebSessionProofs ---------------------------
(***************************************************************************)
(* Proofs about WebSession, for every bound on the redirects: what the     *)
(* login keeps of the cookies and what the command makes of a redirect.    *)
(***************************************************************************)
EXTENDS WebSession, Sequences, TLAPS

(* The cookie gathered last, 0 if there is none.                           *)
Latest(s) == IF s = <<>> THEN 0 ELSE s[Len(s)]

LEMMA Gathering ==
  ASSUME NEW s \in Seq(Nat), NEW r \in Login!Responses
  PROVE  /\ s \o Login!CookiesOf(r) \in Seq(Nat)
         /\ Latest(s \o Login!CookiesOf(r)) = IF r.cookie = 0 THEN Latest(s) ELSE r.cookie
<1>1. r.cookie \in Nat
  BY DEF Login!Responses
<1>2. CASE r.cookie = 0
  <2>1. s \o Login!CookiesOf(r) = s
    BY <1>2 DEF Login!CookiesOf
  <2>2. QED
    BY <1>2, <2>1
<1>3. CASE r.cookie # 0
  <2>1. /\ s \o Login!CookiesOf(r) \in Seq(Nat)
        /\ Len(s \o Login!CookiesOf(r)) = Len(s) + 1
        /\ (s \o Login!CookiesOf(r))[Len(s) + 1] = r.cookie
    BY <1>1, <1>3 DEF Login!CookiesOf
  <2>2. s \o Login!CookiesOf(r) # <<>>
    BY <2>1
  <2>3. QED
    BY <1>3, <2>1, <2>2 DEF Latest
<1>4. QED
  BY <1>2, <1>3

(* Of the final response's cookie and then the gathered ones the last is   *)
(* the latest gathered, if there is one at all.                            *)
LEMMA Extraction ==
  ASSUME NEW s \in Seq(Nat), NEW r \in Login!Responses, Login!CookiesOf(r) \o s # <<>>
  PROVE  /\ (Login!CookiesOf(r) \o s)[Len(Login!CookiesOf(r) \o s)] \in Nat
         /\ s # <<>> =>
              (Login!CookiesOf(r) \o s)[Len(Login!CookiesOf(r) \o s)] = Latest(s)
<1>1. r.cookie \in Nat
  BY DEF Login!Responses
<1>2. CASE r.cookie = 0
  BY <1>2 DEF Login!CookiesOf, Latest
<1>3. CASE r.cookie # 0
  BY <1>1, <1>3 DEF Login!CookiesOf, Latest
<1>4. QED
  BY <1>2, <1>3

-----------------------------------------------------------------------------
(* While the chain is followed, what is gathered and the response in hand  *)
(* have the PHPSESSID issued last; once the login has read its session     *)
(* within the bound, it is that one.                                       *)
LoginIsSound ==
  /\ loginPc \in {"warmup", "post"} => issued = 0 /\ current.cookie = 0 /\ gathered = <<>>
  /\ loginPc \notin {"failed"} => loginError = "none"
  /\ loginPc \in {"follow", "parse"} =>
       /\ current.cookie = 0 => Latest(gathered) = issued
       /\ loginPc = "follow" => current.cookie \in {0, issued}
       /\ loginPc = "parse" /\ loginHops < MaxRedirects =>
            /\ Latest(gathered) = issued
            /\ current.cookie = 0 \/ gathered # <<>>
  /\ loginPc = "ok" /\ loginHops < MaxRedirects => session = issued

(* The command runs with what the login left; only a session that is not   *)
(* valid is turned away, and that shows in the response in hand.           *)
PageIsSound ==
  /\ command => loginPc = "ok"
  /\ command /\ loginHops < MaxRedirects /\ ~expired => valid
  /\ ~command => pageError = "none" /\ pagePc = "get" /\ ~turnedAway
  /\ turnedAway = (response.location = "login")
  /\ response.location = "login" => ~valid
  /\ pageError = "session_expired" => ~valid
  /\ pagePc = "get" => response.location = "none"
  /\ response.location # "none" => response.status = "redirect"
  /\ pagePc \in {"final", "ok"} /\ pageHops < MaxRedirects => response.location = "none"
  /\ pagePc # "failed" => pageError = "none"

IInv == TypeOK /\ LoginIsSound /\ PageIsSound /\ NoCookieIsLost /\ LoginRedirectIsExpiry

LEMMA InitIInv == Init => IInv
<1> SUFFICES ASSUME Init PROVE IInv
  OBVIOUS
<1> USE DEF Init, Login!Init, Page!Init, Login!NoResponse, Page!NoResponse
<1>1. Login!TypeOK
  BY MaxRedirectsAssumption DEF Login!TypeOK, Login!Responses, Login!Targets, Login!Errors
<1>2. Page!TypeOK
  <2>1. valid \in BOOLEAN /\ turnedAway \in BOOLEAN
    OBVIOUS
  <2>2. response \in Page!Responses
    BY DEF Page!Responses, Page!Locations
  <2>3. pageHops \in 0 .. MaxRedirects
    BY MaxRedirectsAssumption
  <2>4. QED
    BY <2>1, <2>2, <2>3 DEF Page!TypeOK
<1>3. LoginIsSound /\ NoCookieIsLost
  BY DEF LoginIsSound, NoCookieIsLost
<1>4. PageIsSound /\ LoginRedirectIsExpiry
  BY DEF PageIsSound, LoginRedirectIsExpiry, PageEnded
<1>5. QED
  BY <1>1, <1>2, <1>3, <1>4 DEF IInv, TypeOK

-----------------------------------------------------------------------------
LEMMA LoginTypes ==
  ASSUME Login!TypeOK, LoginIsSound, Login!Step
  PROVE  Login!TypeOK'
<1> USE MaxRedirectsAssumption DEF Login!TypeOK, Login!Errors, Login!Targets, Login!Fail
<1>1. ASSUME Login!Receive PROVE current' \in Login!Responses /\ issued' \in Nat
  BY <1>1 DEF Login!Receive, Login!Responses
<1>2. Login!Gathered \in Seq(Nat)
  BY Gathering DEF Login!Gathered
<1>3. CASE Login!WarmUp
  BY <1>3 DEF Login!WarmUp
<1>4. CASE Login!PostForm
  BY <1>1, <1>4 DEF Login!PostForm
<1>5. CASE Login!StopFollowing
  BY <1>2, <1>5 DEF Login!StopFollowing
<1>6. CASE Login!LeaveOrigin
  BY <1>2, <1>6 DEF Login!LeaveOrigin
<1>7. CASE Login!FollowRedirect
  BY <1>1, <1>2, <1>7 DEF Login!FollowRedirect, Login!MayFollow
<1>8. CASE Login!ExhaustLoop
  BY <1>8 DEF Login!ExhaustLoop
<1>9. CASE Login!ParseLogin
  BY <1>9, Extraction DEF Login!ParseLogin, Login!ExtractedCookie, Login!FinalCookies, Login!Last
<1>10. QED
  BY <1>3, <1>4, <1>5, <1>6, <1>7, <1>8, <1>9 DEF Login!Step

LEMMA LoginStepIsSound ==
  ASSUME Login!TypeOK, LoginIsSound, NoCookieIsLost, Login!Step
  PROVE  LoginIsSound' /\ NoCookieIsLost'
<1> USE DEF LoginIsSound, NoCookieIsLost, Login!Fail
<1>0. /\ current \in Login!Responses /\ gathered \in Seq(Nat) /\ issued \in Nat
      /\ loginHops \in 0 .. MaxRedirects
  BY DEF Login!TypeOK
<1>1. ASSUME Login!Receive
      PROVE  /\ current'.cookie \in {0, issued'}
             /\ current'.cookie = 0 => issued' = issued
  BY <1>0, <1>1 DEF Login!Receive
<1>2. Latest(Login!Gathered) = IF current.cookie = 0 THEN Latest(gathered) ELSE current.cookie
  BY <1>0, Gathering DEF Login!Gathered
<1>3. CASE Login!WarmUp
  BY <1>3 DEF Login!WarmUp
<1>4. CASE Login!PostForm
  <2>1. CASE Login!Receive /\ loginPc' = "follow" /\ UNCHANGED loginError
    BY <1>1, <1>4, <2>1 DEF Login!PostForm, Latest
  <2>2. CASE loginPc' = "failed" /\ loginError' = "transport"
    BY <1>4, <2>2 DEF Login!PostForm
  <2>3. QED
    BY <1>4, <2>1, <2>2 DEF Login!PostForm
<1>5. CASE Login!StopFollowing
  <2>1. Latest(Login!Gathered) = issued
    BY <1>2, <1>5 DEF Login!StopFollowing
  <2>2. current.cookie = 0 \/ Login!Gathered # <<>>
    BY <1>2 DEF Latest
  <2>3. QED
    BY <1>5, <2>1, <2>2 DEF Login!StopFollowing
<1>6. CASE Login!LeaveOrigin
  BY <1>6 DEF Login!LeaveOrigin
<1>7. CASE Login!FollowRedirect
  <2>1. Latest(gathered') = issued
    BY <1>2, <1>7 DEF Login!FollowRedirect
  <2>2. CASE Login!Receive /\ UNCHANGED <<loginPc, loginError>>
    BY <1>1, <1>7, <2>1, <2>2 DEF Login!FollowRedirect
  <2>3. CASE loginPc' = "failed" /\ loginError' = "transport"
    BY <1>7, <2>3 DEF Login!FollowRedirect
  <2>4. QED
    BY <1>7, <2>2, <2>3 DEF Login!FollowRedirect
<1>8. CASE Login!ExhaustLoop
  BY <1>0, <1>8 DEF Login!ExhaustLoop, Login!Exhausted
<1>9. CASE Login!ParseLogin
  <2>1. CASE Login!FinalCookies = <<>>
    <3>1. gathered = <<>> /\ current.cookie = 0
      BY <1>0, <2>1 DEF Login!FinalCookies, Login!CookiesOf, Login!Responses
    <3>2. issued = 0
      BY <1>9, <3>1 DEF Login!ParseLogin, Latest
    <3>3. QED
      BY <1>9, <2>1, <3>2 DEF Login!ParseLogin
  <2>2. CASE Login!FinalCookies # <<>> /\ lastUrl # "home"
    BY <1>9, <2>2 DEF Login!ParseLogin
  <2>3. CASE Login!FinalCookies # <<>> /\ lastUrl = "home"
    <3>1. ASSUME loginHops < MaxRedirects PROVE gathered # <<>> /\ Latest(gathered) = issued
      BY <1>9, <2>3, <3>1 DEF Login!ParseLogin, Login!FinalCookies, Login!CookiesOf
    <3>2. loginHops < MaxRedirects => session' = issued
      BY <1>0, <1>9, <2>3, <3>1, Extraction
      DEF Login!ParseLogin, Login!ExtractedCookie, Login!FinalCookies, Login!Last
    <3>3. QED
      BY <1>9, <2>3, <3>2 DEF Login!ParseLogin
  <2>4. QED
    BY <2>1, <2>2, <2>3
<1>10. QED
  BY <1>3, <1>4, <1>5, <1>6, <1>7, <1>8, <1>9 DEF Login!Step

-----------------------------------------------------------------------------
(* The page's half of the invariant: a redirect to the login page comes    *)
(* only of a session that is not valid, and ends the command at once.      *)
PageFacts == Page!TypeOK /\ PageIsSound /\ LoginRedirectIsExpiry

LEMMA PageReceives ==
  ASSUME Page!Receive
  PROVE  /\ response' \in Page!Responses /\ turnedAway' \in BOOLEAN
         /\ turnedAway' = (response'.location = "login")
         /\ response'.location = "login" => ~valid
         /\ response'.location # "none" => response'.status = "redirect"
  BY DEF Page!Receive

LEMMA PageTypes ==
  ASSUME Page!TypeOK, Page!Step
  PROVE  Page!TypeOK'
<1> USE MaxRedirectsAssumption DEF Page!TypeOK, Page!Errors, Page!Fail
<1>1. CASE Page!Get
  BY <1>1, PageReceives DEF Page!Get
<1>2. CASE Page!StopFollowing
  BY <1>2 DEF Page!StopFollowing
<1>3. CASE Page!LeaveOrigin
  BY <1>3 DEF Page!LeaveOrigin
<1>4. CASE Page!TurnAway
  BY <1>4 DEF Page!TurnAway
<1>5. CASE Page!FollowRedirect
  <2>1. pageHops' \in 0 .. MaxRedirects
    BY <1>5 DEF Page!FollowRedirect, Page!MayFollow
  <2>2. QED
    BY <1>5, <2>1, PageReceives DEF Page!FollowRedirect
<1>6. CASE Page!ExhaustLoop
  BY <1>6 DEF Page!ExhaustLoop
<1>7. CASE Page!Parse
  BY <1>7 DEF Page!Parse
<1>8. QED
  BY <1>1, <1>2, <1>3, <1>4, <1>5, <1>6, <1>7 DEF Page!Step

LEMMA PageStepIsSound ==
  ASSUME PageFacts, command, Page!Step,
         UNCHANGED <<command, expired, loginPc, loginHops>>
  PROVE  PageIsSound' /\ LoginRedirectIsExpiry'
<1> USE DEF PageFacts, PageIsSound, LoginRedirectIsExpiry, PageEnded, Page!Fail
<1>1. CASE Page!Get
  BY <1>1, PageReceives DEF Page!Get
<1>2. CASE Page!StopFollowing
  BY <1>2 DEF Page!StopFollowing, Page!IsRedirect
<1>3. CASE Page!LeaveOrigin
  BY <1>3 DEF Page!LeaveOrigin
<1>4. CASE Page!TurnAway
  BY <1>4 DEF Page!TurnAway, Page!PointsAtLogin
<1>5. CASE Page!FollowRedirect
  BY <1>5, PageReceives DEF Page!FollowRedirect, Page!PointsAtLogin
<1>6. CASE Page!ExhaustLoop
  <2>1. ~(pageHops' < MaxRedirects)
    BY <1>6 DEF Page!ExhaustLoop, Page!Exhausted, Page!TypeOK
  <2>2. UNCHANGED <<response, turnedAway, valid>>
    BY <1>6 DEF Page!ExhaustLoop
  <2>3. \/ pagePc' = "failed" /\ pageError' = "redirect_loop"
        \/ pagePc' = "final" /\ pageError' = "none"
    BY <1>6 DEF Page!ExhaustLoop
  <2>4. QED
    BY <2>1, <2>2, <2>3
<1>7. CASE Page!Parse
  BY <1>7 DEF Page!Parse
<1>8. QED
  BY <1>1, <1>2, <1>3, <1>4, <1>5, <1>6, <1>7 DEF Page!Step

-----------------------------------------------------------------------------
LEMMA NextIInv == IInv /\ [Next]_vars => IInv'
<1> SUFFICES ASSUME IInv, [Next]_vars PROVE IInv'
  OBVIOUS
<1> USE DEF IInv
<1>1. CASE LoginStep
  <2>1. ~command
    BY <1>1 DEF LoginStep, PageIsSound, Login!Step, Login!WarmUp, Login!PostForm,
      Login!StopFollowing, Login!LeaveOrigin, Login!FollowRedirect, Login!ExhaustLoop,
      Login!ParseLogin
  <2>2. Login!TypeOK' /\ LoginIsSound' /\ NoCookieIsLost'
    BY <1>1, LoginTypes, LoginStepIsSound DEF LoginStep, TypeOK
  <2>3. Page!TypeOK' /\ command' \in BOOLEAN /\ expired' \in BOOLEAN
    BY <1>1 DEF LoginStep, pageVars, TypeOK, Page!TypeOK
  <2>4. PageIsSound' /\ LoginRedirectIsExpiry'
    BY <1>1, <2>1 DEF LoginStep, pageVars, PageIsSound, LoginRedirectIsExpiry, PageEnded
  <2>5. QED
    BY <2>2, <2>3, <2>4 DEF TypeOK
<1>2. CASE StartCommand
  <2>1. Login!TypeOK' /\ LoginIsSound' /\ NoCookieIsLost'
    BY <1>2 DEF StartCommand, loginVars, TypeOK, Login!TypeOK, LoginIsSound, NoCookieIsLost
  <2>2. valid' = (session = issued)
    BY <1>2 DEF StartCommand
  <2>3. Page!TypeOK' /\ command' \in BOOLEAN /\ expired' \in BOOLEAN
    BY <1>2, <2>2 DEF StartCommand, TypeOK, Page!TypeOK
  <2>4. response.location = "none"
    BY <1>2 DEF StartCommand, PageIsSound
  <2>5. PageIsSound'
    BY <1>2, <2>2, <2>4 DEF StartCommand, loginVars, PageIsSound, LoginIsSound
  <2>6. LoginRedirectIsExpiry'
    BY <1>2 DEF StartCommand, LoginRedirectIsExpiry, PageEnded
  <2>7. QED
    BY <2>1, <2>3, <2>5, <2>6 DEF TypeOK
<1>3. CASE PageStep
  <2>1. Login!TypeOK' /\ LoginIsSound' /\ NoCookieIsLost'
    BY <1>3 DEF PageStep, loginVars, TypeOK, Login!TypeOK, LoginIsSound, NoCookieIsLost
  <2>2. Page!TypeOK'
    BY <1>3, PageTypes DEF PageStep, TypeOK
  <2>3. PageIsSound' /\ LoginRedirectIsExpiry'
    BY <1>3, PageStepIsSound DEF PageStep, PageFacts, TypeOK, loginVars
  <2>4. QED
    BY <1>3, <2>1, <2>2, <2>3 DEF PageStep, TypeOK
<1>4. CASE Expire
  <2>1. Login!TypeOK' /\ LoginIsSound' /\ NoCookieIsLost'
    BY <1>4 DEF Expire, loginVars, TypeOK, Login!TypeOK, LoginIsSound, NoCookieIsLost
  <2>2. Page!TypeOK' /\ command' \in BOOLEAN /\ expired' \in BOOLEAN
    BY <1>4 DEF Expire, Page!Expire, TypeOK, Page!TypeOK
  <2>3. PageIsSound' /\ LoginRedirectIsExpiry'
    BY <1>4 DEF Expire, Page!Expire, loginVars, PageIsSound, LoginRedirectIsExpiry, PageEnded
  <2>4. QED
    BY <2>1, <2>2, <2>3 DEF TypeOK
<1>5. CASE UNCHANGED vars
  BY <1>5 DEF vars, loginVars, pageVars, TypeOK, Login!TypeOK, Page!TypeOK, LoginIsSound,
    PageIsSound, NoCookieIsLost, LoginRedirectIsExpiry, PageEnded
<1>6. QED
  BY <1>1, <1>2, <1>3, <1>4, <1>5 DEF Next, Done

LEMMA AlwaysIInv == Spec => []IInv
  BY InitIInv, NextIInv, PTL DEF Spec

-----------------------------------------------------------------------------
(* Every variable stays in its range, however many redirects are allowed.  *)
THEOREM TypeCorrect == Spec => []TypeOK
<1>1. IInv => TypeOK
  BY DEF IInv
<1>2. QED
  BY AlwaysIInv, <1>1, PTL

(* The login never complains of a missing PHPSESSID that a response on the *)
(* way had set (login, _extract_phpsessid).                                *)
THEOREM CookiesAreKept == Spec => []NoCookieIsLost
<1>1. IInv => NoCookieIsLost
  BY DEF IInv
<1>2. QED
  BY AlwaysIInv, <1>1, PTL

(* A fresh login whose chain was not the longest one is never told that    *)
(* its session expired, unless it did.                                     *)
THEOREM FreshSessionsWork == Spec => []FreshSessionIsAccepted
<1>1. IInv => FreshSessionIsAccepted
  BY DEF IInv, PageIsSound, FreshSessionIsAccepted
<1>2. QED
  BY AlwaysIInv, <1>1, PTL

(* Below the last redirect allowed, a redirect to the login page and the   *)
(* error session_expired are the same (_get_following_redirects).          *)
THEOREM ExpiryIsReported == Spec => []LoginRedirectIsExpiry
<1>1. IInv => LoginRedirectIsExpiry
  BY DEF IInv
<1>2. QED
  BY AlwaysIInv, <1>1, PTL

=============================================================================
