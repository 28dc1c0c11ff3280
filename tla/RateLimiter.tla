----------------------------- MODULE RateLimiter -----------------------------
(***************************************************************************)
(* HttpxClient._throttle and request of http/client.py: callers of one     *)
(* event loop take an asyncio lock, read the clock, sleep until a gap has  *)
(* passed since the remembered request, remember a time for the next       *)
(* caller and release the lock.  Only then does httpx look for a           *)
(* connection and send, as late as that takes it.  Time is counted in      *)
(* ticks, Gap of them being 1 / rate_limit_per_second; Gap = 0 is the      *)
(* disabled limiter.                                                       *)
(***************************************************************************)
EXTENDS Integers

CONSTANTS
  Callers,   \* tasks that issue requests
  Gap,       \* ticks between two requests
  MaxTime,   \* bound on the clock
  Nobody

ASSUME LimiterAssumption == Gap \in Nat /\ MaxTime \in Nat /\ Nobody \notin Callers

VARIABLES
  clock,
  lastRequest,  \* _last_request
  holder,       \* the caller inside the lock
  noted,        \* its local variable now
  wake,         \* when its sleep ends, at the earliest
  ready,        \* the callers let go whose request is not on its way yet
  inFlight,     \* the callers whose request has been sent and not answered
  released      \* when the last three callers were let go, the newest first

limiterVars == <<clock, lastRequest, holder, noted, wake, ready, inFlight, released>>

(* The loop's clock is far from 0 when a client is made.                   *)
LimiterInit ==
  /\ clock = Gap
  /\ lastRequest = 0
  /\ holder = Nobody /\ noted = 0 /\ wake = 0
  /\ ready = {} /\ inFlight = {}
  /\ released = [i \in 1 .. 3 |-> -Gap * (i - 1)]

Tick ==
  /\ clock < MaxTime
  /\ clock' = clock + 1
  /\ UNCHANGED <<lastRequest, holder, noted, wake, ready, inFlight, released>>

Earliest == lastRequest + Gap

(* Inside the lock: read the clock, and sleep only if it is too early.     *)
EnterThrottle(c) ==
  /\ holder = Nobody /\ c \notin ready \cup inFlight
  /\ holder' = c
  /\ noted' = clock
  /\ wake' = IF Earliest > clock THEN Earliest ELSE clock
  /\ UNCHANGED <<clock, lastRequest, ready, inFlight, released>>

RememberedNever == lastRequest
Remembered == noted

(* The sleep is over: the time read before it is remembered and the lock   *)
(* is released.                                                            *)
Release(c) ==
  /\ holder = c /\ clock >= wake
  /\ lastRequest' = Remembered
  /\ holder' = Nobody
  /\ ready' = ready \cup {c}
  /\ released' = [i \in 1 .. 3 |-> IF i = 1 THEN clock ELSE released[i - 1]]
  /\ UNCHANGED <<clock, noted, wake, inFlight>>

Dispatch(c) ==
  /\ c \in ready
  /\ ready' = ready \ {c}
  /\ inFlight' = inFlight \cup {c}
  /\ UNCHANGED <<clock, lastRequest, holder, noted, wake, released>>

(* The response, or an error, which may come before anything was sent.     *)
Answer(c) ==
  /\ c \in ready \cup inFlight
  /\ ready' = ready \ {c}
  /\ inFlight' = inFlight \ {c}
  /\ UNCHANGED <<clock, lastRequest, holder, noted, wake, released>>

LimiterNext ==
  \/ Tick
  \/ \E c \in Callers : EnterThrottle(c) \/ Release(c) \/ Dispatch(c) \/ Answer(c)

LimiterSpec == LimiterInit /\ [][LimiterNext]_limiterVars

-----------------------------------------------------------------------------
(* Every variable stays in its range; a caller throttles before it sends.  *)
LimiterTypeOK ==
  /\ clock \in Nat
  /\ lastRequest \in Nat /\ noted \in Nat /\ wake \in Nat
  /\ holder \in Callers \cup {Nobody}
  /\ ready \subseteq Callers /\ inFlight \subseteq Callers
  /\ holder \notin ready \cup inFlight /\ ready \cap inFlight = {}
  /\ released \in [1 .. 3 -> Int]

(* What the limiter does guarantee: of three callers in a row the first    *)
(* and the last are let go a gap apart, so at most two are within any gap. *)
(* When their requests reach the wire is another matter: those let go may  *)
(* wait for a connection and then go out together (_throttle, request).    *)
AtMostTwoPerGap == released[1] - released[3] >= Gap

(* Why: the remembered time may lie before the last caller was let go, but *)
(* not before the one preceding it, because it was read under the lock.    *)
RememberedIsRecent ==
  /\ released[2] <= lastRequest /\ released[1] <= clock
  /\ holder # Nobody => released[1] <= noted /\ Earliest <= wake

=============================================================================
