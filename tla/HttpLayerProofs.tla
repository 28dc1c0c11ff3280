--------------------------- MODULE HttpLayerProofs ---------------------------
(***************************************************************************)
(* The machines of http/ for every page size, number of retries, list,     *)
(* history and gap.                                                        *)
(*                                                                         *)
(* The limiter: whoever remembers a time read it under the lock, after the *)
(* caller before was let go, so the limiter is one caller behind at most.  *)
(*                                                                         *)
(* The timeline: what is owed is ahead.  A new post pushes it further      *)
(* ahead, a page turned moves it into yielded, and from an empty page on   *)
(* nothing is ahead.                                                       *)
(*                                                                         *)
(* A history: what the walk has follows what is recorded, without a gap.   *)
(*                                                                         *)
(* The list: what is owed is in the tail, or behind the places served, and *)
(* what was yielded is not, unless as many shifts pushed it there.         *)
(*                                                                         *)
(* The menu: whatever the parser has in hand is of the anchor it is in.    *)
(*                                                                         *)
(* The settlements page: where the parser is in a month's template tells   *)
(* what can be open and at which depth, whatever is in hand is of the      *)
(* month it is in, and of a month that did not change it is all there is.  *)
(***************************************************************************)
EXTENDS HttpLayer, FiniteSetTheorems, SequenceTheorems, TLAPS

LimiterInv == LimiterTypeOK /\ RememberedIsRecent /\ AtMostTwoPerGap

LEMMA LimiterInvInit == LimiterInit => LimiterInv
  BY LimiterAssumption
  DEF LimiterInit, LimiterInv, LimiterTypeOK, RememberedIsRecent, AtMostTwoPerGap

LEMMA LimiterInvNext == LimiterInv /\ [LimiterNext]_limiterVars => LimiterInv'
<1> SUFFICES ASSUME LimiterInv, [LimiterNext]_limiterVars PROVE LimiterInv'
  OBVIOUS
<1> USE LimiterAssumption
<1>1. CASE Tick
  BY <1>1 DEF Tick, LimiterInv, LimiterTypeOK, RememberedIsRecent, AtMostTwoPerGap, Earliest
<1>2. ASSUME NEW c \in Callers, EnterThrottle(c) PROVE LimiterInv'
  BY <1>2 DEF EnterThrottle, LimiterInv, LimiterTypeOK, RememberedIsRecent, AtMostTwoPerGap, Earliest
<1>3. ASSUME NEW c \in Callers, Release(c) PROVE LimiterInv'
  <2>1. /\ released'[1] = clock /\ released'[2] = released[1] /\ released'[3] = released[2]
        /\ released' \in [1 .. 3 -> Int]
    BY <1>3 DEF Release, LimiterInv, LimiterTypeOK
  <2>2. /\ lastRequest' = noted /\ holder' = Nobody /\ clock' = clock
        /\ released[1] <= noted /\ lastRequest + Gap <= wake /\ wake <= clock
    BY <1>3 DEF Release, Remembered, LimiterInv, LimiterTypeOK, RememberedIsRecent, Earliest
  <2>3. LimiterTypeOK' BY <1>3, <2>1 DEF Release, Remembered, LimiterInv, LimiterTypeOK
  <2>4. RememberedIsRecent' BY <2>1, <2>2 DEF LimiterInv, LimiterTypeOK, RememberedIsRecent
  <2>5. AtMostTwoPerGap'
    BY <2>1, <2>2 DEF LimiterInv, LimiterTypeOK, RememberedIsRecent, AtMostTwoPerGap
  <2> QED BY <2>3, <2>4, <2>5 DEF LimiterInv
<1>4. ASSUME NEW c \in Callers, Answer(c) PROVE LimiterInv'
  BY <1>4 DEF Answer, LimiterInv, LimiterTypeOK, RememberedIsRecent, AtMostTwoPerGap, Earliest
<1>5. ASSUME NEW c \in Callers, Dispatch(c) PROVE LimiterInv'
  BY <1>5 DEF Dispatch, LimiterInv, LimiterTypeOK, RememberedIsRecent, AtMostTwoPerGap, Earliest
<1>6. CASE UNCHANGED limiterVars
  BY <1>6 DEF limiterVars, LimiterInv, LimiterTypeOK, RememberedIsRecent, AtMostTwoPerGap, Earliest
<1> QED
  BY <1>1, <1>2, <1>3, <1>4, <1>5, <1>6 DEF LimiterNext

(* At most two callers are let go within any gap, whatever the gap and     *)
(* however many tasks share the client (_throttle, request).               *)
THEOREM RateIsBounded == LimiterSpec => []AtMostTwoPerGap
  <1>1. LimiterInv => AtMostTwoPerGap BY DEF LimiterInv
  <1> QED BY <1>1, LimiterInvInit, LimiterInvNext, PTL DEF LimiterSpec

(* The remembered time is never older than the last caller but one.        *)
THEOREM OneBehindAtMost == LimiterSpec => []RememberedIsRecent
  <1>1. LimiterInv => RememberedIsRecent BY DEF LimiterInv
  <1> QED BY <1>1, LimiterInvInit, LimiterInvNext, PTL DEF LimiterSpec

-----------------------------------------------------------------------------
WalkInv == TypeOK /\ OwedIsAhead /\ WalkCoversItsStart

(* Turning a page passes exactly PageSize further places.                  *)
LEMMA PassedGrows ==
  ASSUME NEW n \in Nat \ {0}, NEW s \in Nat
  PROVE  /\ (n - 1) * s \in Nat
         /\ ((n + 1) - 1) * s = (n - 1) * s + s
  <1>1. PICK k \in Nat : n = k + 1 BY Z3
  <1>2. n - 1 = k /\ (n + 1) - 1 = k + 1 BY <1>1
  <1>3. k * s \in Nat /\ (k + 1) * s = k * s + s BY Z3
  <1> QED BY <1>2, <1>3

(* A processed post goes to the front: every other moves one place on.     *)
LEMMA FrontShifts ==
  ASSUME NEW p \in Posts, feed \in Seq(Posts), feed' = <<p>> \o feed, NEW n \in Nat
  PROVE  /\ feed' \in Seq(Posts)
         /\ InFeed' = InFeed \cup {p}
         /\ Beyond(n) \subseteq Beyond(n)'
         /\ Beyond(0)' = InFeed'
  <1>1. /\ feed' \in Seq(Posts) /\ Len(feed') = Len(feed) + 1
        /\ feed'[1] = p /\ \A i \in DOMAIN feed : feed'[i + 1] = feed[i]
    OBVIOUS
  <1>2. DOMAIN feed = 1 .. Len(feed) /\ DOMAIN feed' = 1 .. (Len(feed) + 1)
        /\ Len(feed) \in Nat
    BY <1>1
  <1>3. InFeed' = InFeed \cup {p}
    <2>1. ASSUME NEW i \in DOMAIN feed' PROVE feed'[i] \in InFeed \cup {p}
      <3>1. CASE i = 1 BY <3>1, <1>1
      <3>2. CASE i # 1
        <4>1. i - 1 \in DOMAIN feed /\ (i - 1) + 1 = i BY <3>2, <1>2
        <4> QED BY <4>1, <1>1 DEF InFeed
      <3> QED BY <3>1, <3>2
    <2>2. p \in InFeed' BY <1>1, <1>2 DEF InFeed
    <2>3. ASSUME NEW i \in DOMAIN feed PROVE feed[i] \in InFeed'
      <3>1. i + 1 \in DOMAIN feed' /\ feed'[i + 1] = feed[i] BY <1>1, <1>2
      <3> QED BY <3>1 DEF InFeed
    <2> QED BY <2>1, <2>2, <2>3 DEF InFeed
  <1>4. Beyond(n) \subseteq Beyond(n)'
    <2> SUFFICES ASSUME NEW i \in DOMAIN feed, n < i PROVE feed[i] \in Beyond(n)'
      BY DEF Beyond
    <2>1. i + 1 \in DOMAIN feed' /\ n < i + 1 /\ feed'[i + 1] = feed[i] BY <1>1, <1>2
    <2> QED BY <2>1 DEF Beyond
  <1>5. Beyond(0)' = InFeed'
    <2>1. \A j \in DOMAIN feed' : 0 < j BY <1>2
    <2> QED BY <2>1 DEF Beyond, InFeed
  <1> QED BY <1>1, <1>3, <1>4, <1>5

-----------------------------------------------------------------------------
LEMMA WalkInvInit == Init => WalkInv
  BY ConstantsAssumption DEF Init, WalkInv, TypeOK, Walks, InFeed, OwedIsAhead, WalkCoversItsStart

LEMMA WalkInvNext == WalkInv /\ [Next]_vars => WalkInv'
<1> SUFFICES ASSUME WalkInv, [Next]_vars PROVE WalkInv'
  OBVIOUS
<1> USE ConstantsAssumption
<1>0. /\ pageNumber \in Nat \ {0} /\ PageSize \in Nat
      /\ Passed \in Nat /\ (pageNumber = 1 => Passed = 0)
  BY PassedGrows DEF WalkInv, TypeOK, Passed
<1>1. ASSUME NEW p \in Posts, WritePost(p) PROVE WalkInv'
  BY <1>1 DEF WritePost, walk, WalkInv, TypeOK, Walks, OwedIsAhead, WalkCoversItsStart,
              InFeed, Beyond, Passed
<1>2. ASSUME NEW p \in Posts, ProcessPost(p) PROVE WalkInv'
  <2>1. /\ feed' \in Seq(Posts) /\ InFeed' = InFeed \cup {p}
        /\ \A n \in Nat : Beyond(n) \subseteq Beyond(n)'
        /\ Beyond(0)' = InFeed'
    <3>1. feed \in Seq(Posts) /\ feed' = <<p>> \o feed
      BY <1>2 DEF ProcessPost, WalkInv, TypeOK
    <3> HIDE <1>2
    <3> QED BY <3>1, FrontShifts
  <2>2. /\ p \in queue /\ queue' = queue \ {p} /\ UNCHANGED walk
    BY <1>2 DEF ProcessPost
  <2>3. Passed' = Passed BY <2>2 DEF walk, Passed
  <2>4. TypeOK' BY <2>1, <2>2 DEF walk, WalkInv, TypeOK, Walks
  <2>5. WalkCoversItsStart' BY <2>2 DEF walk, WalkInv, WalkCoversItsStart
  <2>6. OwedIsAhead'
    <3> SUFFICES ASSUME pc = "walk" PROVE OwedIsAhead'
      BY <2>2 DEF walk, OwedIsAhead
    <3>1. atStart' \subseteq queue' \cup InFeed'
      BY <2>1, <2>2 DEF walk, WalkInv, OwedIsAhead
    <3>2. (pageNumber > 1 => atStart \cap queue = {})' 
      BY <2>2 DEF walk, WalkInv, OwedIsAhead
    <3>3. CASE pageNumber = 1
      <4>1. Beyond(Passed)' = InFeed' BY <3>3, <1>0, <2>1, <2>3
      <4> QED BY <4>1, <3>1, <3>2, <2>2 DEF walk, OwedIsAhead
    <3>4. CASE pageNumber # 1
      <4>1. p \notin atStart BY <3>4, <1>0, <2>2 DEF WalkInv, OwedIsAhead
      <4>2. Beyond(Passed) \subseteq Beyond(Passed)' BY <1>0, <2>1, <2>3
      <4> QED BY <4>1, <4>2, <3>1, <3>2, <2>2 DEF walk, WalkInv, OwedIsAhead
    <3> QED BY <3>3, <3>4
  <2> QED BY <2>4, <2>5, <2>6 DEF WalkInv
<1>3. CASE StartWalk
  <2>1. Passed' = 0 BY <1>3 DEF StartWalk, Passed
  <2>2. Beyond(0)' = InFeed
    <3>1. feed' = feed /\ \A i \in DOMAIN feed : 0 < i
      BY <1>3 DEF StartWalk, platform, WalkInv, TypeOK
    <3> QED BY <3>1 DEF Beyond, InFeed
  <2>3. InFeed' = InFeed BY <1>3 DEF StartWalk, platform, InFeed
  <2>4. TypeOK'
    <3>1. InFeed \subseteq Posts BY DEF WalkInv, TypeOK, InFeed
    <3> QED BY <1>3, <2>3, <3>1 DEF StartWalk, platform, WalkInv, TypeOK, Walks
  <2> QED BY <1>3, <2>1, <2>2, <2>3, <2>4
          DEF StartWalk, platform, WalkInv, OwedIsAhead, WalkCoversItsStart
<1>4. CASE AskAgain
  BY <1>4 DEF RetriesLeft, AskAgain, platform, WalkInv, TypeOK, Walks, OwedIsAhead, WalkCoversItsStart,
              InFeed, Beyond, Passed
<1>5. CASE GiveUp
  BY <1>5 DEF GiveUp, platform, WalkInv, TypeOK, Walks, OwedIsAhead, WalkCoversItsStart, InFeed
<1>6. CASE YieldPage
  <2>1. /\ pc = "walk" /\ pc' = "walk" /\ queue = {} /\ UNCHANGED <<platform, atStart>>
        /\ yielded' = yielded \cup Items /\ pageNumber' = pageNumber + 1 /\ retries' = 0
    BY <1>6 DEF YieldPage, MustWait, NextPage
  <2>2. Passed' = Passed + PageSize
    BY <2>1, <1>0, PassedGrows DEF Passed
  <2>3. Beyond(Passed) \subseteq Items \cup Beyond(Passed')
    <3> SUFFICES ASSUME NEW i \in DOMAIN feed, Passed < i, ~(Passed' < i)
                 PROVE  feed[i] \in Items
      BY DEF Beyond
    <3>1. i \in Nat BY DEF WalkInv, TypeOK
    <3>2. i <= Passed + PageSize BY <3>1, <2>2, <1>0
    <3> QED BY <3>2 DEF Items
  <2>4. Beyond(Passed)' = Beyond(Passed') BY <2>1 DEF platform, Beyond
  <2>5. Items \subseteq Posts BY DEF Items, WalkInv, TypeOK
  <2>6. TypeOK' BY <2>1, <2>5, <1>0 DEF platform, WalkInv, TypeOK, Walks, InFeed
  <2>7. OwedIsAhead'
    BY <2>1, <2>3, <2>4 DEF platform, WalkInv, OwedIsAhead, InFeed
  <2> QED BY <2>1, <2>6, <2>7 DEF WalkInv, WalkCoversItsStart
<1>7. CASE EndWalk
  <2>1. /\ pc = "walk" /\ pc' = "ended" /\ queue = {} /\ Items = {}
        /\ UNCHANGED <<platform, pageNumber, retries, yielded, atStart>>
    BY <1>7 DEF EndWalk, MustWait
  <2>2. Beyond(Passed) = {}
    <3> SUFFICES ASSUME NEW i \in DOMAIN feed, Passed < i PROVE FALSE
      BY DEF Beyond
    <3>1. DOMAIN feed = 1 .. Len(feed) /\ Len(feed) \in Nat BY DEF WalkInv, TypeOK
    <3>2. /\ Passed + 1 \in DOMAIN feed
          /\ Passed < Passed + 1 /\ Passed + 1 <= Passed + PageSize
      BY <3>1, <1>0
    <3> QED BY <3>2, <2>1 DEF Items
  <2>3. TypeOK' BY <2>1 DEF platform, WalkInv, TypeOK, Walks, InFeed
  <2> QED BY <2>1, <2>2, <2>3 DEF WalkInv, OwedIsAhead, WalkCoversItsStart
<1>8. CASE RequestFails
  BY <1>8 DEF RequestFails, platform, WalkInv, TypeOK, Walks, OwedIsAhead, WalkCoversItsStart, InFeed
<1>9. CASE UNCHANGED vars
  BY <1>9 DEF vars, platform, walk, WalkInv, TypeOK, Walks, OwedIsAhead, WalkCoversItsStart,
              InFeed, Beyond, Passed
<1> QED
  BY <1>1, <1>2, <1>3, <1>4, <1>5, <1>6, <1>7, <1>8, <1>9 DEF Next, Step

(* A walk that ends well has yielded every post written before it began,   *)
(* for every page size and number of retries (list_posts).                 *)
THEOREM CoversItsStart == Spec => []WalkCoversItsStart
  <1>1. WalkInv => WalkCoversItsStart BY DEF WalkInv
  <1> QED BY <1>1, WalkInvInit, WalkInvNext, PTL DEF Spec

(* What a running walk still owes is always ahead of it, so that the pages *)
(* may shift under it (list_posts, the order of the feed).                 *)
THEOREM OwedStaysAhead == Spec => []OwedIsAhead
  <1>1. WalkInv => OwedIsAhead BY DEF WalkInv
  <1> QED BY <1>1, WalkInvInit, WalkInvNext, PTL DEF Spec

(* Every variable of the walk stays in its range (list_posts).             *)
THEOREM TypeCorrect == Spec => []TypeOK
  <1>1. WalkInv => TypeOK BY DEF WalkInv
  <1> QED BY <1>1, WalkInvInit, WalkInvNext, PTL DEF Spec

-----------------------------------------------------------------------------
(* The history of a conversation.  As long as the platform answers an      *)
(* index past the end in a way the walk can cope with, the recorded count  *)
(* is the length of the history on disk, and what the walk has follows it. *)
(* If it ignores the index, all there ever is begins at the first message. *)
CanBeFollowed == serving = "exact" \/ (serving = "clamped" /\ ~overtaken)
CountIsLength ==
  CanBeFollowed => count <= history /\ Messages!Kept = 1 .. count
GotFollows ==
  histPc = "walk" /\ CanBeFollowed =>
    /\ count <= offset
    /\ offset <= history => got = (count + 1) .. offset
    /\ offset > history => serving = "clamped" /\ (count + 1) .. history \subseteq got
IsInitial(S) == \E n \in 0 .. history : S = 1 .. n
IgnoredBeginsAtFirst ==
  serving = "ignored" => IsInitial(onDisk) /\ (histPc = "walk" => IsInitial(got))
HistoryInv ==
  /\ serving \in {"exact", "clamped", "ignored"}
  /\ history \in Nat /\ count \in Nat /\ offset \in Nat /\ atBegin \in Nat
  /\ overtaken \in BOOLEAN
  /\ histPc = "walk" => got \subseteq 1 .. history /\ atBegin <= history
  /\ CountIsLength /\ GotFollows /\ IgnoredBeginsAtFirst /\ HistoryHasNoGap

LEMMA MessagesCardinality == \A S : Messages!Cardinality(S) = Cardinality(S)
  BY DEF Messages!Cardinality, Cardinality

LEMMA IntervalsJoin ==
  ASSUME NEW m \in Nat, NEW n \in Nat, NEW S, m <= n,
         (m + 1) .. n \subseteq S, S \subseteq 1 .. n
  PROVE  S \ (1 .. m) = (m + 1) .. n /\ (1 .. m) \cup S = 1 .. n
  <1>1. ASSUME NEW x \in S \ (1 .. m) PROVE x \in (m + 1) .. n
    <2>1. x \in 1 .. n /\ ~(x \in 1 .. m) OBVIOUS
    <2> QED BY <2>1
  <1>2. ASSUME NEW x \in (m + 1) .. n PROVE x \in S \ (1 .. m)
    <2>1. x \in S /\ x \in Int /\ x > m OBVIOUS
    <2> QED BY <2>1
  <1>3. ASSUME NEW x \in (1 .. m) \cup S PROVE x \in 1 .. n
    <2>1. x \in 1 .. m => x \in 1 .. n OBVIOUS
    <2>2. x \in S => x \in 1 .. n OBVIOUS
    <2> QED BY <2>1, <2>2
  <1>4. ASSUME NEW x \in 1 .. n PROVE x \in (1 .. m) \cup S
    <2>1. x \in 1 .. m \/ x \in (m + 1) .. n OBVIOUS
    <2> QED BY <2>1
  <1>5. S \ (1 .. m) = (m + 1) .. n BY <1>1, <1>2, Zenon
  <1>6. (1 .. m) \cup S = 1 .. n BY <1>3, <1>4, Zenon
  <1> QED BY <1>5, <1>6

LEMMA InitialsJoin ==
  ASSUME NEW S, NEW T, IsInitial(S), IsInitial(T)
  PROVE  /\ IsInitial(S \cup T)
         /\ \A m \in Nat : 1 .. m \subseteq T => \E n \in m .. history : S \cup T = 1 .. n
  <1>1. PICK m \in 0 .. history : S = 1 .. m BY DEF IsInitial
  <1>2. PICK n \in 0 .. history : T = 1 .. n BY DEF IsInitial
  <1> DEFINE top == IF m < n THEN n ELSE m
  <1>3. top \in 0 .. history /\ m <= top /\ n <= top BY <1>1, <1>2
  <1>4. S \cup T = 1 .. top
    <2>1. ASSUME NEW x \in S \cup T PROVE x \in 1 .. top BY <1>1, <1>2, <2>1
    <2>2. ASSUME NEW x \in 1 .. top PROVE x \in S \cup T
      <3>1. x \in 1 .. m \/ x \in 1 .. n BY <1>1, <1>2
      <3> QED BY <1>1, <1>2, <3>1
    <2> HIDE DEF top
    <2> QED BY <2>1, <2>2, Zenon
  <1>5. ASSUME NEW k \in Nat, 1 .. k \subseteq T PROVE k <= n
    <2>1. CASE k = 0 BY <1>2, <2>1
    <2>2. CASE k > 0
      <3>1. k \in 1 .. k BY <2>2
      <3>2. k \in 1 .. n BY <1>2, <1>5, <3>1
      <3> QED BY <3>2
    <2> QED BY <2>1, <2>2
  <1>6. ASSUME NEW k \in Nat, 1 .. k \subseteq T PROVE \E l \in k .. history : S \cup T = 1 .. l
    <2>1. k <= n BY <1>5, <1>6
    <2>2. top \in k .. history BY <1>2, <1>3, <2>1
    <2> HIDE DEF top
    <2> QED BY <1>4, <2>2
  <1> HIDE DEF top
  <1> QED BY <1>3, <1>4, <1>6 DEF IsInitial

(* A page is an interval of the history, of the length the walk adds.      *)
LEMMA PageIsInterval ==
  ASSUME HistoryInv
  PROVE  /\ Messages!Skipped \in Nat
         /\ Messages!Page \subseteq 1 .. history
         /\ Cardinality(Messages!Page) \in Nat
         /\ Messages!Skipped < history =>
              LET last == Messages!LowerOf(Messages!Skipped + MessagePageSize, history)
              IN  /\ Messages!Page = (Messages!Skipped + 1) .. last
                  /\ Cardinality(Messages!Page) = last - Messages!Skipped
                  /\ Messages!Skipped < last /\ last <= history
  <1> DEFINE m == Messages!Skipped
             l == Messages!LowerOf(Messages!Skipped + MessagePageSize, history)
  <1>1. m \in Nat /\ l \in Nat /\ l <= history /\ (m < history => m < l)
    BY PagesAssumption DEF Messages!Skipped, Messages!LowerOf, HistoryInv
  <1>2. Messages!Page = (m + 1) .. l BY DEF Messages!Page
  <1> HIDE DEF m, l
  <1>3. /\ Cardinality((m + 1) .. l) = IF m + 1 > l THEN 0 ELSE l - (m + 1) + 1
    BY <1>1, FS_Interval
  <1>4. (m + 1) .. l \subseteq 1 .. history BY <1>1 DEF HistoryInv
  <1> QED BY <1>1, <1>2, <1>3, <1>4 DEF m, l

(* Where the index is ignored, the page is the first one.                  *)
LEMMA IgnoredPage ==
  ASSUME HistoryInv, serving = "ignored"
  PROVE  /\ Messages!LowerOf(MessagePageSize, history) \in 0 .. history
         /\ Messages!Page = 1 .. Messages!LowerOf(MessagePageSize, history)
  <1>1. Messages!Skipped = 0 BY DEF Messages!Skipped
  <1>2. /\ Messages!LowerOf(MessagePageSize, history) \in 0 .. history
        /\ Messages!LowerOf(0 + MessagePageSize, history) = Messages!LowerOf(MessagePageSize, history)
    BY PagesAssumption DEF HistoryInv, Messages!LowerOf
  <1> QED BY <1>1, <1>2 DEF Messages!Page

LEMMA HistoryInvInit == LayerInit => HistoryInv
  <1> SUFFICES ASSUME LayerInit PROVE HistoryInv
    OBVIOUS
  <1>1. Messages!Init BY DEF LayerInit
  <1>2. Messages!Kept = 1 .. count BY <1>1 DEF Messages!Init, Messages!Kept
  <1>3. CountIsLength BY <1>1, <1>2 DEF Messages!Init, CountIsLength
  <1>4. GotFollows /\ HistoryHasNoGap
    BY <1>1 DEF Messages!Init, GotFollows, HistoryHasNoGap, Messages!HistoryHasNoGap
  <1>5. IgnoredBeginsAtFirst
    BY <1>1 DEF Messages!Init, IgnoredBeginsAtFirst, IsInitial
  <1> QED BY <1>1, <1>3, <1>4, <1>5 DEF Messages!Init, HistoryInv

LEMMA HistoryInvNext == HistoryInv /\ [LayerNext]_layerVars => HistoryInv'
<1> SUFFICES ASSUME HistoryInv, [LayerNext]_layerVars PROVE HistoryInv'
  OBVIOUS
<1> USE DEF CanBeFollowed
<1>1. CASE Messages!Arrive
  <2>1. /\ history' = history + 1 /\ serving' = serving
        /\ overtaken' = (overtaken \/ (histPc = "walk" /\ history < offset))
        /\ UNCHANGED <<onDisk, count, histPc, offset, got, atBegin>>
    BY <1>1 DEF Messages!Arrive, Messages!recordVars, Messages!fetchVars
  <2>2. CanBeFollowed' => CanBeFollowed BY <2>1
  <2>3. Messages!Kept' = Messages!Kept BY <2>1 DEF Messages!Kept
  <2>4. CountIsLength' BY <2>1, <2>2, <2>3 DEF HistoryInv, CountIsLength
  <2>5. GotFollows'
    <3> SUFFICES ASSUME histPc = "walk", CanBeFollowed' PROVE GotFollows'
      BY <2>1 DEF GotFollows
    <3>1. offset <= history \/ serving # "exact" BY <2>2 DEF HistoryInv, GotFollows
    <3>2. ASSUME history < offset PROVE overtaken'
      BY <2>1, <3>2, Zenon
    <3>3. offset <= history
      <4>1. CASE serving = "exact" BY <3>1, <4>1
      <4>2. CASE serving # "exact"
        <5>1. ~(history < offset) BY <2>1, <3>2, <4>2
        <5> QED BY <5>1 DEF HistoryInv
      <4> QED BY <4>1, <4>2
    <3> QED BY <2>1, <2>2, <3>3 DEF HistoryInv, GotFollows
  <2>6. HistoryHasNoGap'
    <3> SUFFICES ASSUME histPc = "ended", ~(serving = "clamped" /\ overtaken')
                 PROVE  \E n \in Messages!Reach .. history' : onDisk = 1 .. n
      BY <2>1 DEF HistoryHasNoGap, Messages!HistoryHasNoGap, Messages!Reach
    <3>1. PICK n \in Messages!Reach .. history : onDisk = 1 .. n
      BY <2>1 DEF HistoryInv, HistoryHasNoGap, Messages!HistoryHasNoGap
    <3>2. n \in Messages!Reach .. history'
      BY <2>1, PagesAssumption DEF HistoryInv, Messages!Reach, Messages!LowerOf
    <3> QED BY <3>1, <3>2
  <2>7. IgnoredBeginsAtFirst'
    <3>1. \A S : IsInitial(S) => (\E n \in 0 .. history' : S = 1 .. n)
      BY <2>1 DEF HistoryInv, IsInitial
    <3> QED BY <2>1, <3>1 DEF HistoryInv, IgnoredBeginsAtFirst, IsInitial
  <2> QED BY <2>1, <2>4, <2>5, <2>6, <2>7 DEF HistoryInv
<1>2. ASSUME NEW from \in 0 .. MaxHistory, Messages!StartFetch(from) PROVE HistoryInv'
  <2>1. /\ from = 0 \/ from = count
        /\ histPc' = "walk" /\ offset' = from /\ got' = {} /\ atBegin' = history /\ count' = from
        /\ overtaken' = (overtaken /\ from > 0)
        /\ UNCHANGED <<history, serving, onDisk>>
    BY <1>2 DEF Messages!StartFetch, Messages!hostVars
  <2>2. from \in Nat BY <2>1 DEF HistoryInv
  <2>3. CountIsLength'
    <3>1. CASE from = 0 BY <2>1, <3>1 DEF HistoryInv, CountIsLength, Messages!Kept
    <3>2. CASE from # 0
      <4>1. from = count /\ from > 0 BY <2>1, <2>2, <3>2
      <4>2. overtaken' = overtaken BY <2>1, <4>1 DEF HistoryInv
      <4> QED BY <2>1, <4>1, <4>2 DEF HistoryInv, CountIsLength, Messages!Kept
    <3> QED BY <3>1, <3>2
  <2>4. GotFollows' BY <2>1, <2>2, <2>3 DEF HistoryInv, GotFollows, CountIsLength
  <2>5. IgnoredBeginsAtFirst'
    BY <2>1 DEF HistoryInv, IgnoredBeginsAtFirst, IsInitial
  <2> QED BY <2>1, <2>2, <2>3, <2>4, <2>5
          DEF HistoryInv, HistoryHasNoGap, Messages!HistoryHasNoGap
<1>3. CASE Messages!YieldPage
  <2>1. /\ histPc = "walk" /\ histPc' = "walk" /\ Messages!HasNews
        /\ got' = got \cup Messages!Page /\ offset' = offset + Cardinality(Messages!Page)
        /\ UNCHANGED <<history, serving, onDisk, count, atBegin, overtaken>>
    BY <1>3, MessagesCardinality
       DEF Messages!YieldPage, Messages!PastPage, Messages!hostVars, Messages!recordVars
  <2>2. CountIsLength' BY <2>1 DEF HistoryInv, CountIsLength, Messages!Kept
  <2>3. Messages!Page \subseteq 1 .. history /\ offset' \in Nat /\ offset <= offset'
    BY <2>1, PageIsInterval DEF HistoryInv
  <2>4. GotFollows'
    <3> SUFFICES ASSUME CanBeFollowed PROVE GotFollows'
      BY <2>1 DEF GotFollows
    <3> USE DEF HistoryInv, GotFollows
    <3>1. CASE offset < history
      <4> DEFINE l == Messages!LowerOf(offset + MessagePageSize, history)
      <4>1. Messages!Skipped = offset BY <3>1 DEF Messages!Skipped
      <4>2. /\ Messages!Page = (offset + 1) .. l /\ offset' = l
            /\ offset < l /\ l <= history /\ l \in Nat
        BY <2>1, <3>1, <4>1, PageIsInterval, PagesAssumption DEF Messages!LowerOf
      <4> HIDE DEF l
      <4>3. got' = (count + 1) .. offset' BY <2>1, <3>1, <4>2
      <4> QED BY <2>1, <3>1, <4>2, <4>3
    <3>2. CASE offset >= history /\ serving = "clamped"
      <4>1. (count + 1) .. history \subseteq got BY <2>1, <3>2
      <4>2. history > 0
        BY <2>1, <2>3 DEF Messages!HasNews
      <4>3. Messages!Skipped < history
        BY <3>2, <4>2, PagesAssumption DEF Messages!Skipped, Messages!LowerOf
      <4>4. Cardinality(Messages!Page) > 0 
        BY <4>3, PageIsInterval, PagesAssumption DEF Messages!LowerOf
      <4>5. offset' > history BY <2>1, <3>2, <4>4, PageIsInterval
      <4> QED BY <2>1, <2>3, <3>2, <4>1, <4>5
    <3>3. CASE offset >= history /\ serving = "exact"
      <4>1. Messages!Skipped = offset BY <3>3 DEF Messages!Skipped
      <4>2. Messages!LowerOf(offset + MessagePageSize, history) = history
        BY <3>3, PagesAssumption DEF Messages!LowerOf
      <4>3. Messages!Page = {} BY <3>3, <4>1, <4>2 DEF Messages!Page
      <4> QED BY <2>1, <4>3 DEF Messages!HasNews
    <3> QED BY <3>1, <3>2, <3>3
  <2>5. IgnoredBeginsAtFirst'
    <3> SUFFICES ASSUME serving = "ignored" PROVE IgnoredBeginsAtFirst'
      BY <2>1 DEF IgnoredBeginsAtFirst
    <3>1. IsInitial(onDisk) /\ IsInitial(got) BY <2>1 DEF HistoryInv, IgnoredBeginsAtFirst
    <3>2. IsInitial(Messages!Page) BY IgnoredPage DEF IsInitial
    <3>3. IsInitial(got') BY <2>1, <3>1, <3>2, InitialsJoin
    <3> QED BY <2>1, <3>1, <3>3 DEF IgnoredBeginsAtFirst, IsInitial
  <2> QED BY <2>1, <2>2, <2>3, <2>4, <2>5
          DEF HistoryInv, HistoryHasNoGap, Messages!HistoryHasNoGap
<1>4. CASE Messages!EndFetch
  <2>1. /\ histPc = "walk" /\ histPc' = "ended" /\ Messages!Page \subseteq got
        /\ onDisk' = Messages!Kept \cup got
        /\ count' = count + Cardinality(got \ Messages!Kept)
        /\ UNCHANGED <<history, serving, offset, got, atBegin, overtaken>>
    BY <1>4, MessagesCardinality DEF Messages!EndFetch, Messages!HasNews, Messages!hostVars
  <2>2. count' \in Nat
    <3>1. IsFiniteSet(1 .. history) BY FS_Interval DEF HistoryInv
    <3>2. IsFiniteSet(got \ Messages!Kept) BY <2>1, <3>1, FS_Subset DEF HistoryInv
    <3> QED BY <2>1, <3>2, FS_CardinalityType DEF HistoryInv
  <2>3. ASSUME CanBeFollowed
        PROVE  count' = history /\ onDisk' = 1 .. history /\ atBegin <= history
    <3> USE DEF HistoryInv, GotFollows, CountIsLength
    <3>1. history <= offset
      <4> SUFFICES ASSUME offset < history PROVE FALSE
        OBVIOUS
      <4>1. Messages!Skipped = offset BY <2>3 DEF Messages!Skipped
      <4>2. offset + 1 \in Messages!Page
        BY <4>1, PageIsInterval, PagesAssumption DEF Messages!LowerOf
      <4> QED BY <2>1, <2>3, <4>2
    <3>2. (count + 1) .. history \subseteq got /\ got \subseteq 1 .. history
      BY <2>1, <2>3, <3>1
    <3>3. /\ Messages!Kept = 1 .. count /\ count <= history /\ atBegin <= history
          /\ count \in Nat /\ history \in Nat
      BY <2>1, <2>3
    <3>4. /\ got \ Messages!Kept = (count + 1) .. history
          /\ Messages!Kept \cup got = 1 .. history
      <4> HIDE DEF HistoryInv, GotFollows, CountIsLength
      <4> QED BY <3>2, <3>3, IntervalsJoin
    <3>5. Cardinality((count + 1) .. history)
            = IF count + 1 > history THEN 0 ELSE history - (count + 1) + 1
      BY FS_Interval
    <3>6. Cardinality((count + 1) .. history) = history - count BY <3>3, <3>5
    <3>7. count' = history
      <4>1. Cardinality(got \ Messages!Kept) = history - count BY <3>4, <3>6
      <4>2. count' = count + (history - count) BY <2>1, <4>1
      <4> QED BY <4>2
    <3>8. onDisk' = 1 .. history BY <2>1, <3>4
    <3> HIDE DEF HistoryInv, GotFollows, CountIsLength
    <3> QED BY <3>3, <3>7, <3>8
  <2>4. CanBeFollowed' = CanBeFollowed BY <2>1
  <2>5. CountIsLength'
    <3>1. CanBeFollowed => Messages!Kept' = IF history = 0 THEN {} ELSE 1 .. history
      BY <2>3 DEF Messages!Kept
    <3>2. history = 0 => 1 .. history = {} OBVIOUS
    <3>3. CASE CanBeFollowed
      <4>1. Messages!Kept' = 1 .. count' BY <2>3, <3>1, <3>2, <3>3
      <4> QED BY <2>1, <2>3, <3>3, <4>1 DEF CountIsLength, HistoryInv
    <3>4. CASE ~CanBeFollowed BY <2>4, <3>4 DEF CountIsLength
    <3> QED BY <3>3, <3>4
  <2>6. ASSUME serving = "ignored"
        PROVE  IsInitial(onDisk') /\ \E n \in Messages!Reach .. history : onDisk' = 1 .. n
    <3>1. IsInitial(got) BY <2>1, <2>6 DEF HistoryInv, IgnoredBeginsAtFirst
    <3>2. IsInitial(Messages!Kept)
      <4>1. IsInitial({}) BY DEF HistoryInv, IsInitial
      <4> QED BY <2>6, <4>1 DEF HistoryInv, IgnoredBeginsAtFirst, Messages!Kept
    <3>3. Messages!Reach \in Nat /\ 1 .. Messages!Reach \subseteq got
      <4>1. /\ Messages!Reach \in Nat
            /\ Messages!Reach <= Messages!LowerOf(MessagePageSize, history)
        BY <2>1, <2>6, PagesAssumption DEF HistoryInv, Messages!Reach, Messages!LowerOf
      <4>2. 1 .. Messages!LowerOf(MessagePageSize, history) \subseteq got
        BY <2>1, <2>6, IgnoredPage
      <4>3. Messages!LowerOf(MessagePageSize, history) \in Nat
        BY <2>6, IgnoredPage DEF HistoryInv
      <4> QED BY <4>1, <4>2, <4>3
    <3>4. /\ IsInitial(Messages!Kept \cup got)
          /\ \E n \in Messages!Reach .. history : Messages!Kept \cup got = 1 .. n
      BY <3>1, <3>2, <3>3, InitialsJoin
    <3> QED BY <2>1, <3>4 DEF IsInitial
  <2>7. HistoryHasNoGap'
    <3> SUFFICES ASSUME ~(serving = "clamped" /\ overtaken)
                 PROVE  \E n \in Messages!Reach .. history : onDisk' = 1 .. n
      BY <2>1 DEF HistoryHasNoGap, Messages!HistoryHasNoGap, Messages!Reach
    <3>1. CASE serving = "ignored" BY <2>6, <3>1
    <3>2. CASE serving # "ignored"
      <4>1. CanBeFollowed BY <3>2 DEF HistoryInv
      <4>2. Messages!Reach = atBegin BY <3>2 DEF Messages!Reach
      <4> QED BY <2>3, <4>1, <4>2 DEF HistoryInv
    <3> QED BY <3>1, <3>2
  <2>8. IgnoredBeginsAtFirst'
    BY <2>1, <2>6 DEF IgnoredBeginsAtFirst, IsInitial
  <2> QED BY <2>1, <2>2, <2>5, <2>7, <2>8 DEF HistoryInv, GotFollows
<1>5. CASE Messages!RequestFails
  BY <1>5 DEF Messages!RequestFails, Messages!hostVars, Messages!recordVars, HistoryInv,
              CountIsLength, Messages!Kept, GotFollows, IgnoredBeginsAtFirst, IsInitial,
              HistoryHasNoGap, Messages!HistoryHasNoGap
<1>6. CASE UNCHANGED histVars
  BY <1>6 DEF histVars, HistoryInv, CountIsLength, Messages!Kept, GotFollows,
              IgnoredBeginsAtFirst, IsInitial,
              HistoryHasNoGap, Messages!HistoryHasNoGap, Messages!Reach
<1>7. CASE HistoryNext
  BY <1>1, <1>2, <1>3, <1>4, <1>5, <1>7 DEF HistoryNext, Messages!Next, Messages!Step
<1> QED
  BY <1>6, <1>7 DEF LayerNext, layerVars, TimelineNext, ListNext, SettlementsNext, MenuNext,
                    LimitedNext

(* Whatever arrives while a conversation is walked and wherever a walk     *)
(* fails, its history on disk has no gap and reaches as far as the walk    *)
(* was to: to the end of the history or, where the platform ignores the    *)
(* index, of its first page.  A platform that clamps the index and is      *)
(* overtaken is exempt (fetch_messages, append_messages).                  *)
THEOREM HistoryNeverHasGap == LayerSpec => []HistoryHasNoGap
  <1>1. HistoryInv => HistoryHasNoGap BY DEF HistoryInv
  <1> QED BY <1>1, HistoryInvInit, HistoryInvNext, PTL DEF LayerSpec

-----------------------------------------------------------------------------
(* The list of conversations.  What the walk owes is in the tail, or in    *)
(* the list behind the places served; what it has yielded is not, unless   *)
(* activity pushed it there, which the count of shifts bounds.             *)
ListOK ==
  /\ list \in Seq(Nat) /\ \A i, j \in DOMAIN list : list[i] = list[j] => i = j
  /\ paging \in {"cursor", "offset", "ignored"} /\ loadOlder \in BOOLEAN
  /\ served \in 0 .. Len(list) /\ shifts \in 0 .. ListPageSize
FirstPageIsAhead ==
  listPc = "walk" /\ ~loadOlder =>
    listed \subseteq Conversations!Ids(DOMAIN list) /\ seenIds = {} /\ served = 0 /\ shifts = 0
TailIsAhead ==
  listPc = "walk" /\ loadOlder /\ paging = "cursor" =>
    /\ listed \ moved \subseteq seenIds \cup tail
    /\ tail \subseteq Conversations!Ids(DOMAIN list) /\ tail \cap seenIds = {}
BehindIsAhead ==
  listPc = "walk" /\ loadOlder /\ paging = "offset" =>
    /\ \A c \in listed \ moved : c \in seenIds \/ \E i \in DOMAIN list : served < i /\ list[i] = c
    /\ shifts < ListPageSize =>
         \A i \in DOMAIN list : served + shifts < i => list[i] \notin seenIds
ListInv == ListOK /\ FirstPageIsAhead /\ TailIsAhead /\ BehindIsAhead /\ QuietAreListed

LEMMA ConversationsCardinality == \A S : Conversations!Cardinality(S) = Cardinality(S)
  BY DEF Conversations!Cardinality, Cardinality

LEMMA SomeLeast ==
  ASSUME NEW S \in SUBSET Nat, S # {}
  PROVE  \E m \in S : \A k \in S : m <= k
  <1> DEFINE R == {ss \in Nat \X Nat : ss[1] < ss[2]}
  <1>1. IsWellFoundedOn(R, Nat) BY NatLessThanWellFounded DEF OpToRel
  <1>2. PICK m \in S : \A k \in S : <<k, m>> \notin R
    <2> HIDE DEF R
    <2> QED BY <1>1, WFMin
  <1>3. ASSUME NEW k \in S PROVE m <= k
    <2>1. k \in Nat /\ m \in Nat OBVIOUS
    <2>2. ~(k < m) BY <1>2, <2>1
    <2> QED BY <2>1, <2>2
  <1> QED BY <1>3

LEMMA ListLength ==
  ASSUME ListOK
  PROVE  Len(list) \in Nat /\ DOMAIN list = 1 .. Len(list) /\ \A i \in DOMAIN list : list[i] \in Nat
  BY DEF ListOK

(* If the platform has something left, it serves some of it.               *)
LEMMA PageIsOfRest ==
  ASSUME ListOK
  PROVE  /\ Conversations!PagePlaces \subseteq Conversations!Rest
         /\ Conversations!Rest \subseteq DOMAIN list
         /\ Conversations!Page = {} => Conversations!Rest = {}
  <1>1. Conversations!Rest \subseteq DOMAIN list /\ DOMAIN list \subseteq Nat
    BY ListLength DEF Conversations!Rest, ListOK
  <1>2. Conversations!PagePlaces \subseteq Conversations!Rest
    BY DEF Conversations!PagePlaces
  <1>3. ASSUME Conversations!Rest # {} PROVE Conversations!Page # {}
    <2>1. PICK m \in Conversations!Rest : \A k \in Conversations!Rest : m <= k
      BY <1>1, <1>3, SomeLeast
    <2>2. {j \in Conversations!Rest : j < m} = {}
      <3> SUFFICES ASSUME NEW j \in Conversations!Rest, j < m PROVE FALSE
        OBVIOUS
      <3> QED BY <1>1, <2>1
    <2>3. Conversations!Cardinality({j \in Conversations!Rest : j < m}) = 0
      BY <2>2, FS_EmptySet, ConversationsCardinality
    <2>4. m \in Conversations!PagePlaces
      BY <2>3, PagesAssumption DEF Conversations!PagePlaces
    <2> QED BY <2>4 DEF Conversations!Page, Conversations!Ids
  <1> QED BY <1>1, <1>2, <1>3

(* A page of the places from k on is the next ListPageSize of them.        *)
LEMMA PageFrom ==
  ASSUME ListOK, NEW k \in 0 .. Len(list),
         Conversations!Rest = {i \in DOMAIN list : k < i}
  PROVE  LET last == Conversations!Least(k + ListPageSize, Len(list))
         IN  /\ Conversations!PagePlaces = (k + 1) .. last
             /\ Cardinality(Conversations!PagePlaces) = last - k
             /\ last \in k .. Len(list)
  <1> DEFINE last == Conversations!Least(k + ListPageSize, Len(list))
  <1>1. last \in k .. Len(list) /\ (k < Len(list) => k < last)
    BY ListLength, PagesAssumption DEF Conversations!Least
  <1>2. ASSUME NEW i \in Conversations!Rest
        PROVE  Conversations!Cardinality({j \in Conversations!Rest : j < i}) = i - 1 - k
    <2>1. i \in Nat /\ k < i /\ i <= Len(list) BY ListLength
    <2>2. {j \in Conversations!Rest : j < i} = (k + 1) .. (i - 1)
      BY <2>1, ListLength
    <2>3. Cardinality((k + 1) .. (i - 1)) = IF k + 1 > i - 1 THEN 0 ELSE i - 1 - (k + 1) + 1
      BY <2>1, FS_Interval
    <2>4. Cardinality((k + 1) .. (i - 1)) = i - 1 - k BY <2>1, <2>3
    <2> QED BY <2>2, <2>4, ConversationsCardinality
  <1>3. ASSUME NEW i \in Conversations!Rest
        PROVE  i \in Conversations!PagePlaces <=> i <= last
    <2>1. i \in Nat /\ i <= Len(list) BY ListLength
    <2>2. i \in Conversations!PagePlaces <=> i - 1 - k < ListPageSize
      BY <1>2 DEF Conversations!PagePlaces
    <2> QED BY <2>1, <2>2, ListLength, PagesAssumption DEF Conversations!Least
  <1>4. Conversations!PagePlaces = (k + 1) .. last
    <2>1. ASSUME NEW i \in Conversations!PagePlaces PROVE i \in (k + 1) .. last
      <3>1. i \in Conversations!Rest BY DEF Conversations!PagePlaces
      <3>2. i \in Nat /\ k < i /\ i <= last BY <1>3, <3>1, ListLength
      <3> QED BY <1>1, <3>2
    <2>2. ASSUME NEW i \in (k + 1) .. last PROVE i \in Conversations!PagePlaces
      <3>1. i \in Conversations!Rest /\ i <= last BY <1>1, ListLength
      <3> QED BY <1>3, <3>1
    <2> QED BY <2>1, <2>2
  <1>5. Cardinality((k + 1) .. last) = last - k
    <2> HIDE DEF last
    <2>1. k \in Nat /\ last \in Nat /\ k <= last BY <1>1, ListLength
    <2>2. Cardinality((k + 1) .. last) = IF k + 1 > last THEN 0 ELSE last - (k + 1) + 1
      BY <2>1, FS_Interval
    <2> QED BY <2>1, <2>2
  <1> QED BY <1>1, <1>4, <1>5

(* A message brings its conversation to the front: what was before it      *)
(* moves one place back, what was behind it stays.                         *)
LEMMA FrontOfList ==
  ASSUME ListOK, NEW c \in Nat
  PROVE  LET p == Conversations!Place(c)
             l == Conversations!InFront(c)
         IN  /\ p \in 1 .. Len(list) + 1
             /\ p \in DOMAIN list => list[p] = c
             /\ p \notin DOMAIN list => \A i \in DOMAIN list : list[i] # c
             /\ l \in Seq(Nat) /\ DOMAIN l = DOMAIN list \cup {p} /\ Len(list) <= Len(l)
             /\ l[1] = c
             /\ \A i \in DOMAIN l \ {1} : l[i] = IF i <= p THEN list[i - 1] ELSE list[i]
  <1> DEFINE p == Conversations!Place(c)
             l == Conversations!InFront(c)
             n == IF p = Len(list) + 1 THEN p ELSE Len(list)
  <1>1. /\ p \in 1 .. Len(list) + 1
        /\ p \in DOMAIN list => list[p] = c
        /\ p \notin DOMAIN list => \A i \in DOMAIN list : list[i] # c
    <2>1. CASE \E i \in DOMAIN list : list[i] = c
      <3>1. p = CHOOSE i \in DOMAIN list : list[i] = c
        BY <2>1 DEF Conversations!Place, Conversations!Ids
      <3>2. p \in DOMAIN list /\ list[p] = c BY <2>1, <3>1
      <3> QED BY <3>2, ListLength
    <2>2. CASE ~ \E i \in DOMAIN list : list[i] = c
      <3>1. p = Len(list) + 1 BY <2>2 DEF Conversations!Place, Conversations!Ids
      <3> QED BY <2>2, <3>1, ListLength
    <2> QED BY <2>1, <2>2
  <1>2. l = [i \in DOMAIN list \cup {p} |->
               IF i = 1 THEN c ELSE IF i <= p THEN list[i - 1] ELSE list[i]]
    BY DEF Conversations!InFront
  <1> HIDE DEF p, l
  <1>3. DOMAIN list \cup {p} = 1 .. n /\ n \in Nat /\ Len(list) <= n
    BY <1>1, ListLength
  <1>4. \A i \in 1 .. n : l[i] \in Nat
    <2> SUFFICES ASSUME NEW i \in 1 .. n, i # 1 PROVE l[i] \in Nat
      BY <1>2, <1>3
    <2>1. CASE i <= p
      <3>1. i - 1 \in DOMAIN list BY <1>1, <1>3, <2>1, ListLength
      <3> QED BY <1>2, <1>3, <2>1, <3>1, ListLength
    <2>2. CASE ~(i <= p)
      <3>1. i \in DOMAIN list BY <1>1, <1>3, <2>2, ListLength
      <3> QED BY <1>2, <1>3, <2>2, <3>1, ListLength
    <2> QED BY <2>1, <2>2
  <1>5. l \in [1 .. n -> Nat]
    <2> HIDE DEF n
    <2>1. l = [i \in 1 .. n |-> l[i]] BY <1>2, <1>3
    <2> QED BY <1>4, <2>1
  <1>6. l \in Seq(Nat) /\ Len(l) = n
    <2> HIDE DEF n
    <2> QED BY <1>3, <1>5
  <1>7. l[1] = c BY <1>1, <1>2, <1>3, ListLength
  <1>8. DOMAIN l = DOMAIN list \cup {p} BY <1>2
  <1>9. \A i \in DOMAIN l \ {1} : l[i] = IF i <= p THEN list[i - 1] ELSE list[i]
    BY <1>2
  <1> QED BY <1>1, <1>3, <1>6, <1>7, <1>8, <1>9 DEF p, l

LEMMA ListInvInit == LayerInit => ListInv
  <1> SUFFICES ASSUME LayerInit PROVE ListInv
    OBVIOUS
  <1>1. Conversations!Init BY DEF LayerInit
  <1>2. PICK n \in 0 .. MaxConvs : list = [i \in 1 .. n |-> i]
    BY <1>1 DEF Conversations!Init
  <1>3. n \in Nat BY <1>2
  <1>4. list \in [1 .. n -> Nat] BY <1>2
  <1>5. list \in Seq(Nat) /\ Len(list) \in Nat BY <1>3, <1>4
  <1>6. \A i, j \in DOMAIN list : list[i] = list[j] => i = j BY <1>2
  <1>7. ListOK
    <2>1. 0 \in 0 .. Len(list) /\ 0 \in 0 .. ListPageSize BY <1>5, PagesAssumption
    <2> QED BY <1>1, <1>5, <1>6, <2>1 DEF Conversations!Init, ListOK
  <1> QED BY <1>1, <1>7
          DEF Conversations!Init, ListInv, FirstPageIsAhead, TailIsAhead, BehindIsAhead,
              QuietAreListed, Conversations!QuietAreListed

(* A message between two pages.                                            *)
LEMMA WrittenKeepsList ==
  ASSUME ListInv, NEW c \in 1 .. MaxConvs, Conversations!WriteTo(c)
  PROVE  ListInv'
  <1> DEFINE p == Conversations!Place(c)
  <1>1. /\ listPc = "walk" /\ loadOlder /\ list' = Conversations!InFront(c)
        /\ tail' = tail \ {c} /\ moved' = moved \cup {c}
        /\ shifts' = IF served < p THEN Conversations!Least(shifts + 1, ListPageSize) ELSE shifts
        /\ UNCHANGED <<paging, served, listPc, loadOlder, seenIds, listed>>
    BY DEF Conversations!WriteTo, Conversations!IsBehind
  <1>2. c \in Nat /\ ListOK BY DEF ListInv
  <1>3. /\ p \in 1 .. Len(list) + 1
        /\ p \in DOMAIN list => list[p] = c
        /\ p \notin DOMAIN list => \A i \in DOMAIN list : list[i] # c
        /\ list' \in Seq(Nat) /\ DOMAIN list' = DOMAIN list \cup {p} /\ Len(list) <= Len(list')
        /\ list'[1] = c
        /\ \A i \in DOMAIN list' \ {1} : list'[i] = IF i <= p THEN list[i - 1] ELSE list[i]
    BY <1>1, <1>2, FrontOfList
  <1> HIDE DEF p
  <1>4. Len(list) \in Nat /\ DOMAIN list = 1 .. Len(list) /\ served \in 0 .. Len(list)
        /\ shifts \in 0 .. ListPageSize
    BY <1>2, ListLength DEF ListOK
  <1>5. \A i, j \in DOMAIN list : list[i] = list[j] => i = j BY <1>2 DEF ListOK
  (* Where an entry was before.                                            *)
  <1>6. ASSUME NEW i \in DOMAIN list', i # 1
        PROVE  \E j \in DOMAIN list :
                 /\ list'[i] = list[j] /\ j # p
                 /\ (j = i /\ p < i) \/ (j = i - 1 /\ i <= p)
    <2>1. i \in Nat /\ i > 1 BY <1>3, <1>4, <1>6
    <2>2. CASE i <= p
      <3>1. i - 1 \in DOMAIN list /\ i - 1 # p BY <1>3, <1>4, <2>1, <2>2
      <3> QED BY <1>3, <1>6, <2>2, <3>1
    <2>3. CASE ~(i <= p)
      <3>1. p < i /\ i \in DOMAIN list /\ i # p BY <1>3, <1>4, <2>1, <2>3
      <3> QED BY <1>3, <1>6, <2>3, <3>1
    <2> QED BY <2>2, <2>3
  (* And where it is now.                                                  *)
  <1>7. ASSUME NEW j \in DOMAIN list, list[j] # c
        PROVE  \E i \in DOMAIN list' : list'[i] = list[j] /\ j <= i
    <2>1. j # p /\ j \in Nat /\ 1 <= j /\ j <= Len(list) BY <1>3, <1>4, <1>7
    <2>2. CASE j < p
      <3>1. j + 1 \in DOMAIN list'
        <4>1. CASE j + 1 <= Len(list) BY <1>3, <1>4, <2>1, <4>1
        <4>2. CASE ~(j + 1 <= Len(list))
          <5>1. j + 1 = p BY <1>3, <1>4, <2>1, <2>2, <4>2
          <5> QED BY <1>3, <5>1
        <4> QED BY <4>1, <4>2
      <3>2. (j + 1) - 1 = j /\ j + 1 # 1 /\ j + 1 <= p BY <1>3, <1>4, <2>1, <2>2
      <3>3. list'[j + 1] = list[(j + 1) - 1] BY <1>3, <3>1, <3>2
      <3> QED BY <2>1, <3>1, <3>2, <3>3
    <2>3. CASE ~(j < p)
      <3>1. p < j /\ j # 1 /\ j \in DOMAIN list' BY <1>3, <2>1, <2>3
      <3>2. list'[j] = list[j] BY <1>3, <2>1, <3>1
      <3> QED BY <2>1, <3>1, <3>2
    <2> QED BY <2>2, <2>3
  <1>8. ListOK'
    <2>1. shifts' \in 0 .. ListPageSize BY <1>1, <1>4, PagesAssumption DEF Conversations!Least
    <2>2. served' \in 0 .. Len(list')
      BY <1>1, <1>3, <1>4
    <2>3. ASSUME NEW i \in DOMAIN list', NEW j \in DOMAIN list', list'[i] = list'[j]
          PROVE  i = j
      <3>1. ASSUME NEW k \in DOMAIN list', k # 1 PROVE list'[k] # c
        <4>1. PICK m \in DOMAIN list : list'[k] = list[m] /\ m # p BY <1>6, <3>1
        <4> QED BY <1>3, <1>5, <4>1
      <3>2. CASE i = 1 \/ j = 1 BY <1>3, <2>3, <3>1, <3>2
      <3>3. CASE i # 1 /\ j # 1
        <4>1. PICK m \in DOMAIN list :
                /\ list'[i] = list[m]
                /\ (m = i /\ p < i) \/ (m = i - 1 /\ i <= p)
          BY <1>6, <3>3
        <4>2. PICK n \in DOMAIN list :
                /\ list'[j] = list[n]
                /\ (n = j /\ p < j) \/ (n = j - 1 /\ j <= p)
          BY <1>6, <3>3
        <4>3. m = n BY <1>5, <2>3, <4>1, <4>2
        <4>4. i \in Nat /\ j \in Nat /\ p \in Nat BY <1>3, <1>4
        <4> QED BY <4>1, <4>2, <4>3, <4>4
      <3> QED BY <3>2, <3>3
    <2> QED BY <1>1, <1>2, <1>3, <2>1, <2>2, <2>3 DEF ListOK
  <1>9. TailIsAhead'
    <2> SUFFICES ASSUME paging = "cursor" PROVE TailIsAhead'
      BY <1>1 DEF TailIsAhead
    <2>1. /\ listed \ moved \subseteq seenIds \cup tail
          /\ tail \subseteq Conversations!Ids(DOMAIN list) /\ tail \cap seenIds = {}
      BY <1>1 DEF ListInv, TailIsAhead
    <2>2. ASSUME NEW d \in tail \ {c} PROVE \E i \in DOMAIN list' : list'[i] = d
      <3>1. PICK j \in DOMAIN list : list[j] = d BY <2>1 DEF Conversations!Ids
      <3> QED BY <1>7, <3>1
    <2> QED BY <1>1, <2>1, <2>2 DEF TailIsAhead, Conversations!Ids
  <1>10. BehindIsAhead'
    <2> SUFFICES ASSUME paging = "offset" PROVE BehindIsAhead'
      BY <1>1 DEF BehindIsAhead
    <2>1. /\ \A d \in listed \ moved : d \in seenIds \/ \E i \in DOMAIN list : served < i /\ list[i] = d
          /\ shifts < ListPageSize =>
               \A i \in DOMAIN list : served + shifts < i => list[i] \notin seenIds
      BY <1>1 DEF ListInv, BehindIsAhead
    <2>2. ASSUME NEW d \in listed \ moved, d # c, d \notin seenIds
          PROVE  \E i \in DOMAIN list' : served < i /\ list'[i] = d
      <3>1. PICK j \in DOMAIN list : served < j /\ list[j] = d BY <2>1, <2>2
      <3>2. PICK i \in DOMAIN list' : list'[i] = list[j] /\ j <= i BY <1>7, <2>2, <3>1
      <3>3. served < i BY <1>3, <1>4, <3>1, <3>2
      <3> QED BY <3>1, <3>2, <3>3
    <2>3. ASSUME shifts' < ListPageSize, NEW i \in DOMAIN list', served + shifts' < i
          PROVE  list'[i] \notin seenIds
      <3>1. /\ shifts < ListPageSize
            /\ served < p => shifts' = shifts + 1
            /\ ~(served < p) => shifts' = shifts
        BY <1>1, <1>4, <2>3, PagesAssumption DEF Conversations!Least
      <3>2. i \in Nat /\ p \in Nat /\ p >= 1 BY <1>3, <1>4
      <3>3. i # 1 BY <1>4, <2>3, <3>1, <3>2
      <3>4. PICK j \in DOMAIN list :
              /\ list'[i] = list[j]
              /\ (j = i /\ p < i) \/ (j = i - 1 /\ i <= p)
        BY <1>6, <3>3
      <3>5. served + shifts < j BY <1>4, <2>3, <3>1, <3>2, <3>4
      <3> QED BY <2>1, <3>1, <3>4, <3>5
    <2> QED BY <1>1, <2>2, <2>3 DEF BehindIsAhead
  <1> QED
    BY <1>1, <1>8, <1>9, <1>10
    DEF ListInv, FirstPageIsAhead, QuietAreListed, Conversations!QuietAreListed

(* A page of the list.                                                     *)
LEMMA PageKeepsList ==
  ASSUME ListInv, Conversations!YieldPage
  PROVE  ListInv'
  <1> DEFINE page0 == Conversations!Page
             places == Conversations!PagePlaces
             rest == Conversations!Rest
  <1>1. /\ listPc = "walk" /\ listPc' = "walk" /\ loadOlder' = TRUE
        /\ seenIds' = seenIds \cup page0 /\ tail' = Conversations!Ids(rest) \ page0
        /\ served' = Conversations!Least(served + Cardinality(places), Len(list))
        /\ shifts' = IF shifts = ListPageSize THEN shifts ELSE 0
        /\ UNCHANGED <<list, paging, listed, moved>>
    BY ConversationsCardinality DEF Conversations!YieldPage, Conversations!platformVars
  <1>2. ListOK BY DEF ListInv
  <1>3. /\ Len(list) \in Nat /\ DOMAIN list = 1 .. Len(list) /\ served \in 0 .. Len(list)
        /\ shifts \in 0 .. ListPageSize
    BY <1>2, ListLength DEF ListOK
  <1>4. \A i, j \in DOMAIN list : list[i] = list[j] => i = j BY <1>2 DEF ListOK
  <1>5. page0 = {list[i] : i \in places} /\ Conversations!Ids(rest) = {list[i] : i \in rest}
    BY DEF Conversations!Page, Conversations!Ids
  <1>6. places \subseteq rest /\ rest \subseteq DOMAIN list BY <1>2, PageIsOfRest
  <1>7. /\ ~loadOlder => rest = DOMAIN list
        /\ loadOlder /\ paging = "cursor" => rest = {i \in DOMAIN list : list[i] \in tail}
        /\ loadOlder /\ paging = "offset" => rest = {i \in DOMAIN list : served < i}
    BY DEF Conversations!Rest
  <1> HIDE DEF page0, places, rest
  <1>8. Cardinality(places) \in Nat
    <2>1. IsFiniteSet(DOMAIN list) BY <1>3, FS_Interval
    <2>2. IsFiniteSet(places) BY <1>6, <2>1, FS_Subset
    <2> QED BY <2>2, FS_CardinalityType
  <1>9. ListOK'
    <2>1. served' \in 0 .. Len(list) BY <1>1, <1>3, <1>8 DEF Conversations!Least
    <2>2. shifts' \in 0 .. ListPageSize BY <1>1, PagesAssumption
    <2> QED BY <1>1, <1>2, <2>1, <2>2 DEF ListOK
  <1>10. TailIsAhead'
    <2> SUFFICES ASSUME paging = "cursor" PROVE TailIsAhead'
      BY <1>1 DEF TailIsAhead
    <2>1. listed \ moved \subseteq seenIds \cup Conversations!Ids(rest)
      <3>1. CASE ~loadOlder
        BY <1>1, <1>5, <1>7, <3>1 DEF ListInv, FirstPageIsAhead, Conversations!Ids
      <3>2. CASE loadOlder
        <4>1. listed \ moved \subseteq seenIds \cup tail /\ tail \subseteq Conversations!Ids(DOMAIN list)
          BY <1>1, <3>2 DEF ListInv, TailIsAhead
        <4>2. tail \subseteq Conversations!Ids(rest)
          BY <1>5, <1>7, <3>2, <4>1 DEF Conversations!Ids
        <4> QED BY <4>1, <4>2
      <3> QED BY <3>1, <3>2
    <2>2. Conversations!Ids(rest) \cap seenIds = {}
      <3>1. CASE ~loadOlder BY <1>1, <3>1 DEF ListInv, FirstPageIsAhead
      <3>2. CASE loadOlder
        <4>1. tail \cap seenIds = {} BY <1>1, <3>2 DEF ListInv, TailIsAhead
        <4> QED BY <1>5, <1>7, <3>2, <4>1
      <3> QED BY <3>1, <3>2
    <2>3. Conversations!Ids(rest) \subseteq Conversations!Ids(DOMAIN list)
      BY <1>6 DEF Conversations!Ids
    <2>4. (Conversations!Ids(DOMAIN list))' = Conversations!Ids(DOMAIN list)
      BY <1>1 DEF Conversations!Ids
    <2> QED BY <1>1, <2>1, <2>2, <2>3, <2>4 DEF TailIsAhead
  <1>11. BehindIsAhead'
    <2> SUFFICES ASSUME paging = "offset" PROVE BehindIsAhead'
      BY <1>1 DEF BehindIsAhead
    <2>1. rest = {i \in DOMAIN list : served < i}
      <3>1. CASE ~loadOlder
        <4>1. served = 0 BY <1>1, <3>1 DEF ListInv, FirstPageIsAhead
        <4> QED BY <1>3, <1>7, <3>1, <4>1
      <3>2. CASE loadOlder BY <1>7, <3>2
      <3> QED BY <3>1, <3>2
    <2>2. PICK last \in served .. Len(list) :
            /\ last = Conversations!Least(served + ListPageSize, Len(list))
            /\ places = (served + 1) .. last /\ Cardinality(places) = last - served
      <3>1. Conversations!Rest = {i \in DOMAIN list : served < i} BY <2>1 DEF rest
      <3> QED BY <1>2, <1>3, <3>1, PageFrom DEF places
    <2>3. served' = last
      <3>1. served \in Nat /\ last \in Nat /\ last <= Len(list) /\ Len(list) \in Nat BY <1>3, <2>2
      <3>2. served + Cardinality(places) = last BY <2>2, <3>1
      <3>3. Conversations!Least(last, Len(list)) = last BY <3>1 DEF Conversations!Least
      <3> QED BY <1>1, <3>2, <3>3
    <2>4. ASSUME NEW d \in listed \ moved, d \notin seenIds
          PROVE  \E i \in DOMAIN list : served < i /\ list[i] = d
      <3>1. CASE ~loadOlder
        <4>1. served = 0 /\ d \in Conversations!Ids(DOMAIN list)
          BY <1>1, <3>1 DEF ListInv, FirstPageIsAhead
        <4> QED BY <1>3, <4>1 DEF Conversations!Ids
      <3>2. CASE loadOlder BY <1>1, <2>4, <3>2 DEF ListInv, BehindIsAhead
      <3> QED BY <3>1, <3>2
    <2>5. ASSUME NEW d \in listed \ moved, d \notin seenIds'
          PROVE  \E i \in DOMAIN list : served' < i /\ list[i] = d
      <3>1. PICK i \in DOMAIN list : served < i /\ list[i] = d BY <1>1, <2>4, <2>5
      <3>2. i \notin places BY <1>1, <1>5, <2>5, <3>1
      <3>3. served' < i BY <1>3, <2>2, <2>3, <3>1, <3>2
      <3> QED BY <3>1, <3>3
    <2>6. ASSUME shifts' < ListPageSize, NEW i \in DOMAIN list, served' + shifts' < i
          PROVE  list[i] \notin seenIds'
      <3>1. shifts' = 0 /\ shifts < ListPageSize BY <1>1, <1>3, <2>6, PagesAssumption
      <3>2. served' < i /\ i \in Nat /\ i <= Len(list) BY <1>3, <2>2, <2>3, <2>6, <3>1
      <3>3. served + ListPageSize < i
        <4>1. last < Len(list) /\ last \in Nat BY <1>3, <2>2, <2>3, <3>2
        <4>2. last = IF served + ListPageSize < Len(list) THEN served + ListPageSize ELSE Len(list)
          BY <2>2 DEF Conversations!Least
        <4>3. last = served + ListPageSize BY <4>1, <4>2
        <4> QED BY <2>3, <3>2, <4>3
      <3>4. list[i] \notin seenIds
        <4>1. CASE ~loadOlder BY <1>1, <4>1 DEF ListInv, FirstPageIsAhead
        <4>2. CASE loadOlder
          <5>1. served + shifts < i BY <1>3, <3>1, <3>2, <3>3, PagesAssumption
          <5> QED BY <1>1, <3>1, <4>2, <5>1 DEF ListInv, BehindIsAhead
        <4> QED BY <4>1, <4>2
      <3>5. list[i] \notin page0
        <4>1. i \notin places BY <1>3, <2>2, <2>3, <3>2
        <4> QED BY <1>4, <1>5, <1>6, <4>1
      <3> QED BY <1>1, <3>4, <3>5
    <2> QED BY <1>1, <2>5, <2>6 DEF BehindIsAhead
  <1> QED
    BY <1>1, <1>9, <1>10, <1>11
    DEF ListInv, FirstPageIsAhead, QuietAreListed, Conversations!QuietAreListed

(* The last page.                                                          *)
LEMMA EndListsQuiet ==
  ASSUME ListInv, Conversations!EndWalk
  PROVE  ListInv'
  <1>1. /\ listPc = "walk" /\ listPc' = "ended" /\ Conversations!Page \subseteq seenIds
        /\ UNCHANGED <<list, paging, tail, served, loadOlder, seenIds, listed, moved, shifts>>
    BY DEF Conversations!EndWalk, Conversations!Progressed, Conversations!platformVars
  <1>2. ListOK /\ ListOK'
    BY <1>1 DEF ListInv, ListOK
  <1>3. /\ Len(list) \in Nat /\ DOMAIN list = 1 .. Len(list) /\ served \in 0 .. Len(list)
        /\ shifts \in 0 .. ListPageSize
    BY <1>2, ListLength DEF ListOK
  <1>4. ASSUME ~loadOlder PROVE listed \ moved \subseteq seenIds
    <2>1. seenIds = {} /\ listed \subseteq Conversations!Ids(DOMAIN list)
      BY <1>1, <1>4 DEF ListInv, FirstPageIsAhead
    <2>2. Conversations!Rest = {} BY <1>1, <1>2, <2>1, PageIsOfRest
    <2>3. DOMAIN list = {} BY <1>4, <2>2 DEF Conversations!Rest
    <2> QED BY <2>1, <2>3 DEF Conversations!Ids
  <1>5. ASSUME loadOlder, paging = "cursor" PROVE listed \ moved \subseteq seenIds
    <2>1. /\ listed \ moved \subseteq seenIds \cup tail
          /\ tail \subseteq Conversations!Ids(DOMAIN list) /\ tail \cap seenIds = {}
      BY <1>1, <1>5 DEF ListInv, TailIsAhead
    <2>2. Conversations!Rest = {i \in DOMAIN list : list[i] \in tail}
      BY <1>5 DEF Conversations!Rest
    <2>3. Conversations!Page \subseteq tail
      BY <1>2, <2>2, PageIsOfRest DEF Conversations!Page, Conversations!Ids
    <2>4. Conversations!Rest = {} BY <1>1, <1>2, <2>1, <2>3, PageIsOfRest
    <2>5. tail = {} BY <2>1, <2>2, <2>4 DEF Conversations!Ids
    <2> QED BY <2>1, <2>5
  <1>6. ASSUME loadOlder, paging = "offset", shifts < ListPageSize PROVE listed \ moved \subseteq seenIds
    <2>1. /\ \A d \in listed \ moved : d \in seenIds \/ \E i \in DOMAIN list : served < i /\ list[i] = d
          /\ \A i \in DOMAIN list : served + shifts < i => list[i] \notin seenIds
      BY <1>1, <1>6 DEF ListInv, BehindIsAhead
    <2>2. Conversations!Rest = {i \in DOMAIN list : served < i}
      BY <1>6 DEF Conversations!Rest
    <2>3. PICK last \in served .. Len(list) :
            /\ last = Conversations!Least(served + ListPageSize, Len(list))
            /\ Conversations!PagePlaces = (served + 1) .. last
      BY <1>2, <1>3, <2>2, PageFrom
    <2>4. \A i \in (served + 1) .. last : list[i] \in seenIds
      BY <1>1, <2>3 DEF Conversations!Page, Conversations!Ids
    <2>5. last = Len(list)
      <3> SUFFICES ASSUME last # Len(list) PROVE FALSE
        OBVIOUS
      <3>1. last = served + ListPageSize /\ last < Len(list)
        BY <1>3, <2>3, PagesAssumption DEF Conversations!Least
      <3>2. served \in Nat /\ shifts \in Nat /\ last \in Nat /\ ListPageSize \in Nat
        BY <1>3, <2>3, PagesAssumption
      <3>3. served + shifts < last /\ served < last BY <1>6, <3>1, <3>2, PagesAssumption
      <3>4. last \in (served + 1) .. last BY <3>2, <3>3
      <3>5. last \in DOMAIN list
        <4>1. last \in 1 .. Len(list) BY <3>1, <3>2, <3>3
        <4> QED BY <1>3, <4>1
      <3> QED BY <2>1, <2>4, <3>3, <3>4, <3>5
    <2>6. ASSUME NEW d \in listed \ moved PROVE d \in seenIds
      <3> SUFFICES ASSUME NEW i \in DOMAIN list, served < i, list[i] = d PROVE d \in seenIds
        BY <2>1
      <3>1. i \in (served + 1) .. last BY <1>3, <2>5
      <3> QED BY <2>4, <3>1
    <2> QED BY <2>6
  <1>7. QuietAreListed'
    BY <1>1, <1>4, <1>5, <1>6 DEF QuietAreListed, Conversations!QuietAreListed
  <1> QED
    BY <1>1, <1>2, <1>7 DEF ListInv, FirstPageIsAhead, TailIsAhead, BehindIsAhead

LEMMA ListInvNext == ListInv /\ [LayerNext]_layerVars => ListInv'
<1> SUFFICES ASSUME ListInv, [LayerNext]_layerVars PROVE ListInv'
  OBVIOUS
<1>1. ASSUME NEW c \in 1 .. MaxConvs, Conversations!WriteTo(c) PROVE ListInv'
  BY <1>1, WrittenKeepsList
<1>2. CASE Conversations!StartWalk
  <2>1. /\ list' = [i \in DOMAIN list |-> i]
        /\ listPc' = "walk" /\ loadOlder' = FALSE /\ served' = 0 /\ seenIds' = {}
        /\ listed' = DOMAIN list /\ moved' = {} /\ shifts' = 0 /\ paging' = paging
    BY <1>2 DEF Conversations!StartWalk
  <2>2. Len(list) \in Nat /\ DOMAIN list = 1 .. Len(list) BY ListLength DEF ListInv
  <2>3. list' \in [1 .. Len(list) -> Nat] BY <2>1, <2>2
  <2>4. list' \in Seq(Nat) /\ Len(list') \in Nat BY <2>2, <2>3
  <2>5. \A i, j \in DOMAIN list' : list'[i] = list'[j] => i = j BY <2>1
  <2>6. 0 \in 0 .. Len(list') /\ 0 \in 0 .. ListPageSize BY <2>4, PagesAssumption
  <2>7. ListOK' BY <2>1, <2>4, <2>5, <2>6 DEF ListInv, ListOK
  <2>8. FirstPageIsAhead' BY <2>1 DEF FirstPageIsAhead, Conversations!Ids
  <2> QED BY <2>1, <2>7, <2>8 DEF ListInv, TailIsAhead, BehindIsAhead,
                                  QuietAreListed, Conversations!QuietAreListed
<1>3. CASE Conversations!YieldPage BY <1>3, PageKeepsList
<1>4. CASE Conversations!EndWalk BY <1>4, EndListsQuiet
<1>5. CASE Conversations!RequestFails
  BY <1>5 DEF Conversations!RequestFails, Conversations!platformVars, ListInv, ListOK,
              FirstPageIsAhead, TailIsAhead, BehindIsAhead, QuietAreListed,
              Conversations!QuietAreListed, Conversations!Ids
<1>6. CASE UNCHANGED listVars
  BY <1>6 DEF listVars, ListInv, ListOK, FirstPageIsAhead, TailIsAhead, BehindIsAhead,
              QuietAreListed, Conversations!QuietAreListed, Conversations!Ids
<1>7. CASE ListNext
  BY <1>1, <1>2, <1>3, <1>4, <1>5, <1>7 DEF ListNext, Conversations!Next, Conversations!Step
<1> QED
  BY <1>6, <1>7 DEF LayerNext, layerVars, TimelineNext, HistoryNext, SettlementsNext, MenuNext,
                    LimitedNext

(* A walk of the list that ends well has yielded every conversation nobody *)
(* wrote to meanwhile, whatever the pages are and however the list is      *)
(* reshuffled under them (list_conversations).                             *)
THEOREM QuietAlwaysListed == LayerSpec => []QuietAreListed
  <1>1. ListInv => QuietAreListed BY DEF ListInv
  <1> QED BY <1>1, ListInvInit, ListInvNext, PTL DEF LayerSpec

-----------------------------------------------------------------------------
(* The menu of the children.  What the parser has of the anchor it is in   *)
(* depends on how far it has come, and on what of the anchor was lost.     *)
Anchors == [child : Children, entry : BOOLEAN]
Texts == Seq([of : Nat, is : {"initials", "name"}])
Entry(i) ==
  [child |-> anchors[i].child, id |-> i, colour |-> i, name |-> <<Menu!Piece(i, "name")>>]
IsEntry == Menu!HasMore /\ anchors[at].entry
IsInside == Menu!HasMore /\ step > 1
MenuTypeOK ==
  /\ anchors \in Seq(Anchors) /\ at \in 1 .. Len(anchors) + 1
  /\ step \in IF IsEntry THEN 1 .. 9 ELSE IF Menu!HasMore THEN 1 .. 3 ELSE {1}
  /\ changed \in BOOLEAN /\ anchorSeen \in BOOLEAN
  /\ span \in Texts \cup {None} /\ spans \in Seq(Texts)
  /\ known \in Seq({Entry(i) : i \in DOMAIN anchors})
  /\ verdict \in {"parsing", "read", "refused"}

IsIntact(i) == anchors[i].entry /\ \A p \in lost : p.of # i
TheInitials == <<Menu!Piece(at, "initials")>>
TheName == <<Menu!Piece(at, "name")>>
AnchorIsOwn ==
  /\ ~IsInside => matching = None
  /\ matching = None => colour = None /\ spans = <<>> /\ span = None
  /\ matching # None => matching = at /\ anchorSeen
  /\ colour \in {None, at}
SpanIsOwn ==
  /\ ~IsEntry \/ step \notin {4, 5, 7, 8} => span = None
  /\ IsEntry /\ step = 5 => span \in {None, <<>>, TheInitials}
  /\ IsEntry /\ step = 8 => span \in {None, <<>>, TheName}
  /\ IsEntry /\ step \in {4, 7} => span \in {None, <<>>}
SpansAreOwn ==
  /\ ~IsEntry \/ step <= 5 => spans = <<>>
  /\ IsEntry /\ step \in 6 .. 8 => Len(spans) <= 1
  /\ IsEntry /\ step = 9 => Len(spans) <= 2 /\ (Len(spans) = 2 => spans[2] \in {<<>>, TheName})
IntactIsTaken ==
  IsEntry /\ IsIntact(at) =>
    /\ ~changed /\ (step > 1 => matching = at) /\ (step > 2 => colour = at)
    /\ step \in {4, 7} => span = <<>>
    /\ step = 5 => span = TheInitials
    /\ step = 8 => span = TheName
    /\ step \in 6 .. 8 => Len(spans) = 1
    /\ step = 9 => Len(spans) = 2 /\ spans[2] = TheName
LostIsUnseen ==
  /\ changed => Menu!HasMore /\ Menu!Shown \in lost /\ Menu!Shown.is \notin {"/span", "/a"}
  /\ ~anchorSeen =>
       \A i \in DOMAIN anchors : i < at \/ (i = at /\ step > 1) => Menu!Piece(i, "link") \in lost
IntactAreKnown ==
  \A i \in DOMAIN anchors :
    i < at /\ IsIntact(i) => \E k \in DOMAIN known : known[k].child = anchors[i].child
KnownOnce == \A j, k \in DOMAIN known : known[k].child = known[j].child => j = k
VerdictIsLast ==
  /\ verdict # "parsing" => ~Menu!HasMore
  /\ verdict = "refused" => ~anchorSeen
MenuInv ==
  /\ MenuTypeOK /\ AnchorIsOwn /\ SpanIsOwn /\ SpansAreOwn /\ IntactIsTaken
  /\ LostIsUnseen /\ IntactAreKnown /\ KnownOnce /\ VerdictIsLast

LEMMA PieceIsShown ==
  ASSUME MenuTypeOK, Menu!HasMore
  PROVE  /\ at \in DOMAIN anchors /\ at \in Nat /\ anchors[at].entry \in BOOLEAN
         /\ IsEntry => /\ step \in 1 .. 9 /\ (Menu!IsLastPiece <=> step = 9)
                       /\ step = 1 => Menu!Shown = Menu!Piece(at, "link")
                       /\ step = 2 => Menu!Shown = Menu!Piece(at, "colour")
                       /\ step = 3 => Menu!Shown = Menu!Piece(at, "span")
                       /\ step = 4 => Menu!Shown = Menu!Piece(at, "initials")
                       /\ step = 5 => Menu!Shown = Menu!Piece(at, "/span")
                       /\ step = 6 => Menu!Shown = Menu!Piece(at, "span")
                       /\ step = 7 => Menu!Shown = Menu!Piece(at, "name")
                       /\ step = 8 => Menu!Shown = Menu!Piece(at, "/span")
                       /\ step = 9 => Menu!Shown = Menu!Piece(at, "/a")
         /\ ~IsEntry => /\ step \in 1 .. 3 /\ (Menu!IsLastPiece <=> step = 3)
                        /\ step = 1 => Menu!Shown = Menu!Piece(at, "link")
                        /\ step = 2 => Menu!Shown = Menu!Piece(at, "navigation")
                        /\ step = 3 => Menu!Shown = Menu!Piece(at, "/a")
  <1>1. at \in DOMAIN anchors /\ at \in Nat BY DEF Menu!HasMore, MenuTypeOK
  <1>2. anchors[at] \in Anchors BY <1>1 DEF MenuTypeOK
  <1>3. anchors[at].entry \in BOOLEAN BY <1>2 DEF Anchors
  <1>4. CASE IsEntry
    <2>1. step \in 1 .. 9 BY <1>4 DEF MenuTypeOK
    <2>2. Menu!Pieces(anchors[at])
            = <<"link", "colour", "span", "initials", "/span", "span", "name", "/span", "/a">>
      BY <1>4 DEF IsEntry, Menu!Pieces
    <2> QED BY <1>1, <1>3, <1>4, <2>1, <2>2 DEF Menu!Shown, Menu!IsLastPiece
  <1>5. CASE ~IsEntry
    <2>1. step \in 1 .. 3 BY <1>5 DEF MenuTypeOK
    <2>2. Menu!Pieces(anchors[at]) = <<"link", "navigation", "/a">>
      BY <1>5 DEF IsEntry, Menu!Pieces
    <2> QED BY <1>1, <1>3, <1>5, <2>1, <2>2 DEF Menu!Shown, Menu!IsLastPiece
  <1> QED BY <1>4, <1>5

LEMMA MenuInvInit == LayerInit => MenuInv
  <1> SUFFICES ASSUME LayerInit PROVE MenuInv
    OBVIOUS
  <1>1. Menu!Init BY DEF LayerInit
  <1>2. PICK n \in 0 .. MaxAnchors : anchors \in [1 .. n -> Anchors]
    BY <1>1 DEF Menu!Init, Anchors
  <1>3. /\ at = 1 /\ step = 1 /\ changed = FALSE /\ lost = {}
        /\ matching = None /\ colour = None /\ spans = <<>> /\ span = None
        /\ anchorSeen = FALSE /\ known = <<>> /\ verdict = "parsing"
    BY <1>1 DEF Menu!Init
  <1>4. anchors \in Seq(Anchors) /\ Len(anchors) \in Nat /\ DOMAIN anchors = 1 .. Len(anchors)
    BY <1>2
  <1>5. MenuTypeOK
    <2>1. step \in IF IsEntry THEN 1 .. 9 ELSE IF Menu!HasMore THEN 1 .. 3 ELSE {1}
      <3>1. 1 \in 1 .. 9 /\ 1 \in 1 .. 3 OBVIOUS
      <3> QED BY <1>3, <3>1
    <2>2. spans \in Seq(Texts) /\ known \in Seq({Entry(i) : i \in DOMAIN anchors}) BY <1>3
    <2>3. at \in 1 .. Len(anchors) + 1 BY <1>3, <1>4
    <2>4. changed \in BOOLEAN /\ anchorSeen \in BOOLEAN BY <1>3
    <2>5. span \in Texts \cup {None} /\ verdict \in {"parsing", "read", "refused"} BY <1>3
    <2> QED BY <1>4, <2>1, <2>2, <2>3, <2>4, <2>5 DEF MenuTypeOK
  <1> QED
    BY <1>3, <1>4, <1>5
    DEF MenuInv, AnchorIsOwn, SpanIsOwn, SpansAreOwn, IntactIsTaken, LostIsUnseen, IntactAreKnown,
        KnownOnce, VerdictIsLast, IsInside, IsEntry

(* What the parser makes of a piece.                                       *)
LEMMA PieceIsHandled ==
  ASSUME Menu!Handle(Menu!Fed)
  PROVE  /\ Menu!Fed.is = "link" =>
              /\ matching' = Menu!Fed.of /\ anchorSeen' = TRUE /\ colour' = None /\ spans' = <<>>
              /\ UNCHANGED <<span, known>>
         /\ Menu!Fed.is = "colour" =>
              /\ colour' = IF matching = None THEN colour ELSE Menu!Fed.of
              /\ UNCHANGED <<matching, spans, anchorSeen, span, known>>
         /\ Menu!Fed.is = "span" =>
              /\ span' = IF matching = None THEN span ELSE <<>>
              /\ UNCHANGED <<matching, colour, spans, anchorSeen, known>>
         /\ Menu!Fed.is \in {"initials", "name", "navigation"} =>
              /\ span' = IF span = None THEN None ELSE Append(span, Menu!Fed)
              /\ UNCHANGED <<matching, colour, spans, anchorSeen, known>>
         /\ Menu!Fed.is = "/span" =>
              /\ spans' = (IF span = None THEN spans ELSE Append(spans, span)) /\ span' = None
              /\ UNCHANGED <<matching, colour, anchorSeen, known>>
         /\ Menu!Fed.is = "/a" =>
              /\ known' = IF Menu!IsUsable
                          THEN Append(known, [child |-> anchors[matching].child, id |-> matching,
                                              colour |-> colour, name |-> spans[2]])
                          ELSE known
              /\ matching' = None /\ colour' = None /\ spans' = <<>>
              /\ UNCHANGED <<anchorSeen, span>>
         /\ Menu!Fed.is = "other" =>
              UNCHANGED <<matching, colour, spans, anchorSeen, span, known>>
  <1> USE DEF Menu!Handle
  <1>1. CASE Menu!Fed.is = "link" BY <1>1 DEF Menu!StartAnchor, Menu!NothingOfIt
  <1>2. CASE Menu!Fed.is = "colour" BY <1>2 DEF Menu!StartAvatar
  <1>3. CASE Menu!Fed.is = "span" BY <1>3 DEF Menu!StartSpan, Menu!anchorVars
  <1>4. CASE Menu!Fed.is \in {"initials", "name", "navigation"} BY <1>4 DEF Menu!Feed, Menu!anchorVars
  <1>5. CASE Menu!Fed.is = "/span" BY <1>5 DEF Menu!EndSpan
  <1>6. CASE Menu!Fed.is = "/a" BY <1>6 DEF Menu!EndAnchor, Menu!NothingOfIt
  <1>7. CASE Menu!Fed.is = "other" BY <1>7 DEF Menu!anchorVars
  <1> QED BY <1>1, <1>2, <1>3, <1>4, <1>5, <1>6, <1>7

(* A piece that does not end its anchor.                                   *)
LEMMA PieceKeepsMenu ==
  ASSUME MenuInv, Menu!Parse, ~Menu!IsLastPiece
  PROVE  MenuInv'
<1>1. /\ Menu!HasMore /\ Menu!Handle(Menu!Fed)
      /\ at' = at /\ step' = step + 1 /\ changed' = FALSE
      /\ UNCHANGED <<anchors, lost, verdict>>
  BY DEF Menu!Parse
<1>2. MenuTypeOK BY DEF MenuInv
<1>3. /\ at \in Nat /\ step \in Nat /\ (IsEntry => step \in 1 .. 8) /\ (~IsEntry => step \in 1 .. 2)
      /\ None \notin Texts /\ None # at
  <2>1. (IsEntry => step \in 1 .. 9 /\ step # 9) /\ (~IsEntry => step \in 1 .. 3 /\ step # 3)
    BY <1>1, <1>2, PieceIsShown
  <2>2. at \in Nat BY <1>1, <1>2, PieceIsShown
  <2> QED BY <2>1, <2>2, NoneAssumption DEF Texts
<1>4. Menu!HasMore' /\ (IsEntry' <=> IsEntry) /\ IsInside'
  BY <1>1, <1>3 DEF Menu!HasMore, IsEntry, IsInside
<1>5. /\ TheInitials' = TheInitials /\ TheName' = TheName
      /\ TheInitials \in Texts /\ TheName \in Texts /\ <<>> \in Texts
  <2>1. \A is \in {"initials", "name"} : Menu!Piece(at, is) \in [of : Nat, is : {"initials", "name"}]
    BY <1>3 DEF Menu!Piece
  <2>4. TheInitials \in Texts /\ TheName \in Texts /\ <<>> \in Texts
    <3> DEFINE P == [of : Nat, is : {"initials", "name"}]
    <3>1. Menu!Piece(at, "initials") \in P /\ Menu!Piece(at, "name") \in P BY <2>1
    <3> HIDE DEF P
    <3> QED BY <3>1 DEF TheInitials, TheName, Texts, P
  <2> QED BY <1>1, <2>4 DEF TheInitials, TheName, Menu!Piece
<1>6. /\ changed => /\ Menu!Fed.is = "other" /\ Menu!Shown \in lost /\ Menu!Shown.of = at
                     /\ Menu!Shown.is \notin {"/span", "/a"}
      /\ ~changed => Menu!Fed = Menu!Shown
      /\ changed \in BOOLEAN
  BY <1>2 DEF Menu!Fed, Menu!Shown, Menu!Piece, MenuInv, LostIsUnseen, MenuTypeOK
<1>7. IsIntact(at)' <=> IsIntact(at) BY <1>1 DEF IsIntact
<1>8. /\ AnchorIsOwn /\ SpanIsOwn /\ SpansAreOwn /\ IntactIsTaken /\ LostIsUnseen
      /\ span \in Texts \cup {None} /\ spans \in Seq(Texts)
  BY DEF MenuInv, MenuTypeOK
(* The piece is none that the parser knows.                                *)
<1> DEFINE PartsAreKept ==
             /\ span' \in Texts \cup {None} /\ spans' \in Seq(Texts) /\ known' = known
             /\ anchorSeen' \in BOOLEAN
             /\ AnchorIsOwn' /\ SpanIsOwn' /\ SpansAreOwn' /\ IntactIsTaken' /\ LostIsUnseen'
<1>9. ASSUME changed
      PROVE  PartsAreKept
  <2>1. UNCHANGED <<matching, colour, spans, anchorSeen, span, known>>
    BY <1>1, <1>6, <1>9, PieceIsHandled
  <2>2. /\ step = 1 => Menu!Piece(at, "link") \in lost
        /\ IsEntry => step \notin {5, 8}
    BY <1>1, <1>2, <1>3, <1>6, <1>9, PieceIsShown DEF Menu!Piece
  <2>3. AnchorIsOwn' BY <1>1, <1>3, <1>4, <1>8, <2>1 DEF AnchorIsOwn
  <2>4. SpanIsOwn' BY <1>1, <1>3, <1>4, <1>5, <1>8, <2>1, <2>2 DEF SpanIsOwn
  <2>5. SpansAreOwn' BY <1>1, <1>3, <1>4, <1>5, <1>8, <2>1, <2>2 DEF SpansAreOwn
  <2>6. IntactIsTaken' BY <1>1, <1>4, <1>6, <1>7, <1>9 DEF IntactIsTaken, IsIntact
  <2>7. LostIsUnseen'
    <3> SUFFICES ASSUME ~anchorSeen, NEW i \in DOMAIN anchors, i < at \/ i = at
                 PROVE  Menu!Piece(i, "link") \in lost
      BY <1>1, <2>1 DEF LostIsUnseen, Menu!Piece
    <3> QED BY <1>3, <1>8, <2>2 DEF LostIsUnseen
  <2> QED BY <1>2, <1>8, <2>1, <2>3, <2>4, <2>5, <2>6, <2>7 DEF MenuTypeOK
(* What was seen of the links so far stays seen.                           *)
<1>10. ASSUME ~changed, step > 1, UNCHANGED anchorSeen PROVE LostIsUnseen'
  BY <1>1, <1>3, <1>8, <1>10 DEF LostIsUnseen, Menu!Piece
<1>11. ASSUME ~changed, step = 1 PROVE PartsAreKept
  <2>1. Menu!Fed = Menu!Piece(at, "link")
    BY <1>1, <1>2, <1>6, <1>11, PieceIsShown
  <2>2. /\ matching' = at /\ anchorSeen' = TRUE /\ colour' = None /\ spans' = <<>>
        /\ UNCHANGED <<span, known>>
    BY <1>1, <2>1, PieceIsHandled DEF Menu!Piece
  <2>3. span = None BY <1>8, <1>11 DEF SpanIsOwn
  <2>4. spans' \in Seq(Texts) BY <2>2
  <2>5. AnchorIsOwn' BY <1>1, <1>3, <1>4, <2>2 DEF AnchorIsOwn
  <2>6. SpanIsOwn' /\ SpansAreOwn'
    BY <1>1, <1>3, <1>4, <1>11, <2>2, <2>3 DEF SpanIsOwn, SpansAreOwn
  <2>7. IntactIsTaken' BY <1>1, <1>11, <2>2 DEF IntactIsTaken
  <2>8. LostIsUnseen' BY <1>1, <2>2 DEF LostIsUnseen
  <2> QED BY <2>2, <2>3, <2>4, <2>5, <2>6, <2>7, <2>8
<1>12. ASSUME ~changed, IsEntry, step = 2 PROVE PartsAreKept
  <2>1. Menu!Fed = Menu!Piece(at, "colour")
    BY <1>1, <1>2, <1>6, <1>12, PieceIsShown
  <2>2. /\ colour' = IF matching = None THEN colour ELSE at
        /\ UNCHANGED <<matching, spans, anchorSeen, span, known>>
    BY <1>1, <2>1, PieceIsHandled DEF Menu!Piece
  <2>3. AnchorIsOwn' BY <1>1, <1>3, <1>4, <1>8, <1>12, <2>2 DEF AnchorIsOwn, IsInside
  <2>4. SpanIsOwn' /\ SpansAreOwn'
    BY <1>1, <1>3, <1>4, <1>8, <1>12, <2>2 DEF SpanIsOwn, SpansAreOwn
  <2>5. IntactIsTaken'
    BY <1>1, <1>3, <1>4, <1>7, <1>8, <1>12, <2>2 DEF IntactIsTaken
  <2> QED BY <1>2, <1>8, <1>10, <1>12, <2>2, <2>3, <2>4, <2>5 DEF MenuTypeOK
<1>13. ASSUME ~changed, IsEntry, step \in {3, 6} PROVE PartsAreKept
  <2>1. Menu!Fed = Menu!Piece(at, "span")
    BY <1>1, <1>2, <1>6, <1>13, PieceIsShown
  <2>2. /\ span' = IF matching = None THEN span ELSE <<>>
        /\ UNCHANGED <<matching, colour, spans, anchorSeen, known>>
    BY <1>1, <2>1, PieceIsHandled DEF Menu!Piece
  <2>3. AnchorIsOwn' BY <1>1, <1>3, <1>4, <1>8, <1>13, <2>2 DEF AnchorIsOwn, IsInside
  <2>4. SpanIsOwn' /\ SpansAreOwn'
    BY <1>1, <1>3, <1>4, <1>8, <1>13, <2>2 DEF SpanIsOwn, SpansAreOwn
  <2>5. IntactIsTaken'
    BY <1>1, <1>3, <1>4, <1>7, <1>8, <1>13, <2>2 DEF IntactIsTaken
  <2> QED BY <1>2, <1>5, <1>8, <1>10, <1>13, <2>2, <2>3, <2>4, <2>5 DEF MenuTypeOK
<1>14. ASSUME ~changed, IsEntry, step \in {4, 7} PROVE PartsAreKept
  <2>1. Menu!Fed = Menu!Piece(at, IF step = 4 THEN "initials" ELSE "name")
    BY <1>1, <1>2, <1>6, <1>14, PieceIsShown
  <2>2. /\ span' = IF span = None THEN None ELSE Append(span, Menu!Fed)
        /\ UNCHANGED <<matching, colour, spans, anchorSeen, known>>
    BY <1>1, <2>1, PieceIsHandled DEF Menu!Piece
  <2>3. span \in {None, <<>>} BY <1>8, <1>14 DEF SpanIsOwn
  <2>4. span # None => span' = IF step = 4 THEN TheInitials ELSE TheName
    <3>1. Append(<<>>, Menu!Fed) = <<Menu!Fed>> OBVIOUS
    <3> QED BY <2>1, <2>2, <2>3, <3>1 DEF TheInitials, TheName
  <2>5. AnchorIsOwn' BY <1>1, <1>3, <1>4, <1>8, <1>14, <2>2 DEF AnchorIsOwn, IsInside
  <2>6. SpanIsOwn'
    <3>1. CASE step = 4 BY <1>1, <1>3, <1>4, <1>5, <2>2, <2>4, <3>1 DEF SpanIsOwn
    <3>2. CASE step = 7 BY <1>1, <1>3, <1>4, <1>5, <2>2, <2>4, <3>2 DEF SpanIsOwn
    <3> QED BY <1>14, <3>1, <3>2
  <2>7. SpansAreOwn' BY <1>1, <1>3, <1>4, <1>8, <1>14, <2>2 DEF SpansAreOwn
  <2>8. IntactIsTaken'
    <3>1. CASE step = 4
      BY <1>1, <1>3, <1>4, <1>5, <1>7, <1>8, <1>14, <2>2, <2>4, <3>1 DEF IntactIsTaken
    <3>2. CASE step = 7
      BY <1>1, <1>3, <1>4, <1>5, <1>7, <1>8, <1>14, <2>2, <2>4, <3>2 DEF IntactIsTaken
    <3> QED BY <1>14, <3>1, <3>2
  <2> QED BY <1>2, <1>5, <1>8, <1>10, <1>14, <2>2, <2>4, <2>5, <2>6, <2>7, <2>8 DEF MenuTypeOK
<1>15. ASSUME ~changed, IsEntry, step \in {5, 8} PROVE PartsAreKept
  <2>1. Menu!Fed = Menu!Piece(at, "/span")
    BY <1>1, <1>2, <1>6, <1>15, PieceIsShown
  <2>2. /\ spans' = (IF span = None THEN spans ELSE Append(spans, span)) /\ span' = None
        /\ UNCHANGED <<matching, colour, anchorSeen, known>>
    BY <1>1, <2>1, PieceIsHandled DEF Menu!Piece
  <2>3. span # None =>
          /\ spans' \in Seq(Texts) /\ Len(spans') = Len(spans) + 1
          /\ spans'[Len(spans) + 1] = span /\ Len(spans) \in Nat
    BY <1>8, <2>2
  <2>4. Len(spans) \in Nat /\ (spans = <<>> => Len(spans) = 0) BY <1>8
  <2>5. AnchorIsOwn' BY <1>1, <1>3, <1>4, <1>8, <1>15, <2>2 DEF AnchorIsOwn, IsInside
  <2>6. SpanIsOwn' BY <1>1, <1>3, <1>4, <1>15, <2>2 DEF SpanIsOwn
  <2>7. SpansAreOwn'
    <3>1. CASE step = 5
      BY <1>1, <1>3, <1>4, <1>8, <2>2, <2>3, <2>4, <3>1 DEF SpansAreOwn
    <3>2. CASE step = 8
      BY <1>1, <1>3, <1>4, <1>5, <1>8, <1>15, <2>2, <2>3, <2>4, <3>2 DEF SpansAreOwn, SpanIsOwn
    <3> QED BY <1>15, <3>1, <3>2
  <2>8. IntactIsTaken'
    <3>1. CASE step = 5
      BY <1>1, <1>3, <1>4, <1>5, <1>7, <1>8, <1>15, <2>2, <2>3, <2>4, <3>1
      DEF IntactIsTaken, SpansAreOwn
    <3>2. CASE step = 8
      BY <1>1, <1>3, <1>4, <1>5, <1>7, <1>8, <1>15, <2>2, <2>3, <2>4, <3>2
      DEF IntactIsTaken, SpansAreOwn
    <3> QED BY <1>15, <3>1, <3>2
  <2> QED BY <1>2, <1>8, <1>10, <1>15, <2>2, <2>3, <2>5, <2>6, <2>7, <2>8 DEF MenuTypeOK
<1>16. ASSUME ~changed, ~IsEntry, step = 2 PROVE PartsAreKept
  <2>1. Menu!Fed = Menu!Piece(at, "navigation")
    BY <1>1, <1>2, <1>6, <1>16, PieceIsShown
  <2>2. UNCHANGED <<matching, colour, spans, anchorSeen, span, known>>
    BY <1>1, <1>8, <1>16, <2>1, PieceIsHandled DEF Menu!Piece, SpanIsOwn
  <2>3. AnchorIsOwn' BY <1>1, <1>3, <1>4, <1>8, <1>16, <2>2 DEF AnchorIsOwn, IsInside
  <2>4. SpanIsOwn' /\ SpansAreOwn' /\ IntactIsTaken'
    BY <1>1, <1>4, <1>8, <1>16, <2>2 DEF SpanIsOwn, SpansAreOwn, IntactIsTaken
  <2> QED BY <1>2, <1>8, <1>10, <1>16, <2>2, <2>3, <2>4 DEF MenuTypeOK
<1>17. PartsAreKept
  BY <1>3, <1>9, <1>11, <1>12, <1>13, <1>14, <1>15, <1>16
<1>18. MenuTypeOK'
  <2>1. step' \in IF IsEntry' THEN 1 .. 9 ELSE IF Menu!HasMore' THEN 1 .. 3 ELSE {1}
    <3>1. IsEntry => step + 1 \in 1 .. 9 BY <1>3
    <3>2. ~IsEntry => step + 1 \in 1 .. 3 BY <1>3
    <3> QED BY <1>1, <1>4, <3>1, <3>2
  <2>2. known' \in Seq({Entry(i)' : i \in DOMAIN anchors'})
    <3>1. \A i : Entry(i)' = Entry(i) BY <1>1 DEF Entry, Menu!Piece
    <3>2. {Entry(i)' : i \in DOMAIN anchors'} = {Entry(i) : i \in DOMAIN anchors}
      BY <1>1, <3>1
    <3> QED BY <1>2, <1>17, <3>2 DEF MenuTypeOK
  <2> QED BY <1>1, <1>2, <1>17, <2>1, <2>2 DEF MenuTypeOK
<1>19. IntactAreKnown' /\ KnownOnce' /\ VerdictIsLast'
  BY <1>1, <1>4, <1>17 DEF MenuInv, IntactAreKnown, IsIntact, KnownOnce, VerdictIsLast
<1> QED BY <1>17, <1>18, <1>19 DEF MenuInv

(* The end of an anchor.                                                   *)
LEMMA AnchorEnds ==
  ASSUME MenuInv, Menu!Parse, Menu!IsLastPiece
  PROVE  MenuInv'
<1>1. /\ Menu!HasMore /\ Menu!Handle(Menu!Fed)
      /\ at' = at + 1 /\ step' = 1 /\ changed' = FALSE
      /\ UNCHANGED <<anchors, lost, verdict>>
  BY DEF Menu!Parse
<1>2. MenuTypeOK /\ LostIsUnseen BY DEF MenuInv
<1>3. /\ at \in DOMAIN anchors /\ at \in Nat /\ Menu!Shown = Menu!Piece(at, "/a")
      /\ IsEntry => step = 9
      /\ ~IsEntry => step = 3
  BY <1>1, <1>2, PieceIsShown
<1>4. ~changed /\ Menu!Fed = Menu!Piece(at, "/a")
  BY <1>2, <1>3 DEF LostIsUnseen, Menu!Piece, Menu!Fed, MenuTypeOK
<1>5. /\ known' = IF Menu!IsUsable
                  THEN Append(known, [child |-> anchors[matching].child, id |-> matching,
                                      colour |-> colour, name |-> spans[2]])
                  ELSE known
      /\ matching' = None /\ colour' = None /\ spans' = <<>>
      /\ UNCHANGED <<anchorSeen, span>>
  BY <1>1, <1>4, PieceIsHandled DEF Menu!Piece
<1>6. span = None BY <1>3 DEF MenuInv, SpanIsOwn
(* What makes a child is the anchor's own.                                 *)
<1>7. ASSUME Menu!IsUsable
      PROVE  /\ known' = Append(known, Entry(at))
             /\ \A k \in DOMAIN known : known[k].child # anchors[at].child
  <2>1. /\ matching # None /\ colour # None /\ Len(spans) >= 2 /\ spans[2] # <<>>
        /\ \A k \in DOMAIN known : known[k].child # anchors[matching].child
    BY <1>7 DEF Menu!IsUsable
  <2>2. matching = at /\ colour = at BY <2>1 DEF MenuInv, AnchorIsOwn
  <2>3. IsEntry
    <3> SUFFICES ASSUME ~IsEntry PROVE FALSE
      OBVIOUS
    <3>1. spans = <<>> BY DEF MenuInv, SpansAreOwn
    <3> QED BY <2>1, <3>1
  <2>4. spans[2] = TheName
    <3>1. Len(spans) <= 2 /\ (Len(spans) = 2 => spans[2] \in {<<>>, TheName})
      BY <1>3, <2>3 DEF MenuInv, SpansAreOwn
    <3>2. Len(spans) \in Nat BY <1>2 DEF MenuTypeOK
    <3>3. Len(spans) = 2 BY <2>1, <3>1, <3>2
    <3> QED BY <2>1, <3>1, <3>3
  <2> QED BY <1>5, <1>7, <2>1, <2>2, <2>4 DEF Entry, TheName
<1>8. \A i : Entry(i)' = Entry(i) /\ (IsIntact(i)' <=> IsIntact(i))
  BY <1>1 DEF Entry, Menu!Piece, IsIntact
<1> DEFINE E == {Entry(i) : i \in DOMAIN anchors}
<1>9. known \in Seq(E) /\ Entry(at) \in E BY <1>2, <1>3 DEF MenuTypeOK
<1>10. {Entry(i)' : i \in DOMAIN anchors'} = E BY <1>1, <1>8
<1>11. Entry(at).child = anchors[at].child BY DEF Entry
<1> HIDE DEF E
<1>12. /\ known' \in Seq(E)
       /\ DOMAIN known \subseteq DOMAIN known' /\ \A k \in DOMAIN known : known'[k] = known[k]
       /\ \/ known' = known
          \/ /\ DOMAIN known' = DOMAIN known \cup {Len(known) + 1}
             /\ known'[Len(known) + 1] = Entry(at)
             /\ \A k \in DOMAIN known : known[k].child # anchors[at].child
  <2>1. CASE Menu!IsUsable
    <3>1. known' = Append(known, Entry(at)) BY <1>7, <2>1
    <3>2. /\ Append(known, Entry(at)) \in Seq(E)
          /\ DOMAIN Append(known, Entry(at)) = DOMAIN known \cup {Len(known) + 1}
          /\ \A k \in DOMAIN known : Append(known, Entry(at))[k] = known[k]
          /\ Append(known, Entry(at))[Len(known) + 1] = Entry(at)
      BY <1>9
    <3> QED BY <1>7, <2>1, <3>1, <3>2
  <2>2. CASE ~Menu!IsUsable BY <1>5, <1>9, <2>2
  <2> QED BY <2>1, <2>2
<1>13. MenuTypeOK'
  <2>1. at' \in 1 .. Len(anchors') + 1
    <3>1. DOMAIN anchors = 1 .. Len(anchors) /\ Len(anchors) \in Nat BY <1>2 DEF MenuTypeOK
    <3> QED BY <1>1, <1>3, <3>1
  <2>2. step' \in IF IsEntry' THEN 1 .. 9 ELSE IF Menu!HasMore' THEN 1 .. 3 ELSE {1}
    <3>1. 1 \in 1 .. 9 /\ 1 \in 1 .. 3 OBVIOUS
    <3> QED BY <1>1, <3>1
  <2>3. spans' \in Seq(Texts) BY <1>5
  <2> QED BY <1>1, <1>2, <1>5, <1>6, <1>10, <1>12, <2>1, <2>2, <2>3 DEF MenuTypeOK
<1>14. AnchorIsOwn' /\ SpanIsOwn' /\ SpansAreOwn'
  BY <1>1, <1>5, <1>6 DEF AnchorIsOwn, SpanIsOwn, SpansAreOwn, IsInside
<1>15. IntactIsTaken' BY <1>1 DEF IntactIsTaken
<1>16. LostIsUnseen'
  <2> SUFFICES ASSUME ~anchorSeen, NEW i \in DOMAIN anchors, i < at + 1
               PROVE  Menu!Piece(i, "link") \in lost
    BY <1>1, <1>5 DEF LostIsUnseen, Menu!Piece
  <2>1. i \in Nat BY <1>2 DEF MenuTypeOK
  <2>2. i < at \/ (i = at /\ step > 1) BY <1>3, <2>1
  <2> QED BY <1>2, <2>2 DEF LostIsUnseen
<1>17. IntactAreKnown'
  <2> SUFFICES ASSUME NEW i \in DOMAIN anchors, i < at + 1, IsIntact(i)
               PROVE  \E k \in DOMAIN known' : known'[k].child = anchors[i].child
    BY <1>1, <1>8 DEF IntactAreKnown
  <2>1. CASE i < at
    <3>1. PICK k \in DOMAIN known : known[k].child = anchors[i].child
      BY <2>1 DEF MenuInv, IntactAreKnown
    <3> QED BY <1>12, <3>1
  <2>2. CASE i = at
    <3>1. IsEntry /\ step = 9 BY <1>1, <1>3, <2>2 DEF IsIntact, IsEntry
    <3>2. matching = at /\ colour = at /\ Len(spans) = 2 /\ spans[2] = TheName
      BY <2>2, <3>1 DEF MenuInv, IntactIsTaken
    <3>3. matching # None /\ colour # None /\ spans[2] # <<>>
      BY <1>3, <3>2, NoneAssumption DEF TheName
    <3>4. CASE Menu!IsUsable
      <4>1. known' = Append(known, Entry(at)) BY <1>7, <3>4
      <4>2. Len(known) + 1 \in DOMAIN Append(known, Entry(at))
            /\ Append(known, Entry(at))[Len(known) + 1] = Entry(at)
        BY <1>9
      <4> QED BY <1>11, <2>2, <4>1, <4>2
    <3>5. CASE ~Menu!IsUsable
      <4>1. PICK k \in DOMAIN known : known[k].child = anchors[matching].child
        BY <3>2, <3>3, <3>5 DEF Menu!IsUsable
      <4> QED BY <1>12, <2>2, <3>2, <4>1
    <3> QED BY <3>4, <3>5
  <2>3. i \in Nat BY <1>2 DEF MenuTypeOK
  <2> QED BY <1>3, <2>1, <2>2, <2>3
<1>18. KnownOnce'
  <2>1. KnownOnce BY DEF MenuInv
  <2> QED BY <1>11, <1>12, <2>1 DEF KnownOnce
<1>19. VerdictIsLast' BY <1>1 DEF MenuInv, VerdictIsLast
<1> QED BY <1>13, <1>14, <1>15, <1>16, <1>17, <1>18, <1>19 DEF MenuInv

LEMMA MenuInvNext == MenuInv /\ [LayerNext]_layerVars => MenuInv'
<1> SUFFICES ASSUME MenuInv, [LayerNext]_layerVars PROVE MenuInv'
  OBVIOUS
<1>1. CASE Menu!Parse BY <1>1, PieceKeepsMenu, AnchorEnds
<1>2. CASE Menu!Drift
  <2>1. /\ Menu!HasMore /\ changed' = TRUE /\ lost' = lost \cup {Menu!Shown}
        /\ Menu!Shown.is \notin {"/span", "/a"}
        /\ UNCHANGED <<anchors, at, step, matching, colour, spans, anchorSeen, span, known, verdict>>
    BY <1>2 DEF Menu!Drift, Menu!anchorVars
  <2>2. Menu!Shown.of = at BY DEF Menu!Shown, Menu!Piece
  <2>3. /\ IsEntry' = IsEntry /\ IsInside' = IsInside /\ Menu!HasMore' = Menu!HasMore
        /\ Menu!Shown' = Menu!Shown /\ TheName' = TheName /\ TheInitials' = TheInitials
        /\ \A i : Entry(i)' = Entry(i) /\ (IsIntact(i)' => IsIntact(i))
        /\ ~IsIntact(at)'
    BY <2>1, <2>2 DEF IsEntry, IsInside, Menu!HasMore, Menu!Shown, Menu!Piece, Menu!Pieces,
                      TheName, TheInitials, Entry, IsIntact
  <2>4. MenuTypeOK'
    <3>1. {Entry(i)' : i \in DOMAIN anchors'} = {Entry(i) : i \in DOMAIN anchors} BY <2>1, <2>3
    <3> QED BY <2>1, <2>3, <3>1 DEF MenuInv, MenuTypeOK
  <2>5. AnchorIsOwn' /\ SpanIsOwn' /\ SpansAreOwn'
    BY <2>1, <2>3 DEF MenuInv, AnchorIsOwn, SpanIsOwn, SpansAreOwn
  <2>6. IntactIsTaken' BY <2>1, <2>3 DEF IntactIsTaken
  <2>7. LostIsUnseen' BY <2>1, <2>3 DEF MenuInv, LostIsUnseen, Menu!Piece
  <2>8. IntactAreKnown' /\ KnownOnce' /\ VerdictIsLast'
    BY <2>1, <2>3 DEF MenuInv, IntactAreKnown, KnownOnce, VerdictIsLast
  <2> QED BY <2>4, <2>5, <2>6, <2>7, <2>8 DEF MenuInv
<1>3. ASSUME UNCHANGED <<anchors, at, step, changed, lost, matching, colour, spans, anchorSeen, span, known>>,
             \/ verdict' = verdict
             \/ ~Menu!HasMore /\ verdict' = IF anchorSeen THEN "read" ELSE "refused"
      PROVE  MenuInv'
  <2>1. /\ IsEntry' = IsEntry /\ IsInside' = IsInside /\ Menu!HasMore' = Menu!HasMore
        /\ Menu!Shown' = Menu!Shown /\ TheName' = TheName /\ TheInitials' = TheInitials
        /\ \A i : Entry(i)' = Entry(i) /\ (IsIntact(i)' <=> IsIntact(i))
    BY <1>3 DEF IsEntry, IsInside, Menu!HasMore, Menu!Shown, Menu!Piece, Menu!Pieces,
                TheName, TheInitials, Entry, IsIntact
  <2>2. MenuTypeOK'
    <3>1. {Entry(i)' : i \in DOMAIN anchors'} = {Entry(i) : i \in DOMAIN anchors} BY <1>3, <2>1
    <3>2. verdict' \in {"parsing", "read", "refused"} BY <1>3 DEF MenuInv, MenuTypeOK
    <3> QED BY <1>3, <2>1, <3>1, <3>2 DEF MenuInv, MenuTypeOK
  <2>3. AnchorIsOwn' /\ SpanIsOwn' /\ SpansAreOwn'
    BY <1>3, <2>1 DEF MenuInv, AnchorIsOwn, SpanIsOwn, SpansAreOwn
  <2>4. IntactIsTaken' BY <1>3, <2>1 DEF MenuInv, IntactIsTaken
  <2>5. LostIsUnseen' BY <1>3, <2>1 DEF MenuInv, LostIsUnseen, Menu!Piece
  <2>6. IntactAreKnown' /\ KnownOnce' BY <1>3, <2>1 DEF MenuInv, IntactAreKnown, KnownOnce
  <2>7. VerdictIsLast' BY <1>3, <2>1 DEF MenuInv, VerdictIsLast
  <2> QED BY <2>2, <2>3, <2>4, <2>5, <2>6, <2>7 DEF MenuInv
<1>4. CASE Menu!Conclude
  BY <1>3, <1>4 DEF Menu!Conclude, Menu!pageVars, Menu!anchorVars
<1>5. CASE UNCHANGED menuVars BY <1>3, <1>5 DEF menuVars
<1>6. CASE MenuNext BY <1>1, <1>2, <1>4, <1>6 DEF MenuNext, Menu!Next
<1> QED
  BY <1>5, <1>6 DEF LayerNext, layerVars, htmlVars, TimelineNext, ListNext, HistoryNext,
                    SettlementsNext, LimitedNext

(* The switcher is read as it is: however many anchors the dashboard has   *)
(* and however many of their pieces are not as the parser knows them, no   *)
(* child has a colour or a name of another anchor, none is there twice or  *)
(* missing, and only a page without a link to a child is refused           *)
(* (_SwitcherParser, parse_children_list).                                 *)
THEOREM MenuAlwaysRead == LayerSpec => []MenuIsRead
  <1>1. MenuInv => MenuIsRead
    <2> SUFFICES ASSUME MenuInv PROVE MenuIsRead
      OBVIOUS
    <2>1. \A k \in DOMAIN known : \E i \in DOMAIN anchors : known[k] = Entry(i)
      BY DEF MenuInv, MenuTypeOK
    <2>2. \A k \in DOMAIN known :
            known[k].colour = known[k].id /\ known[k].name = <<Menu!Piece(known[k].id, "name")>>
      BY <2>1 DEF Entry
    <2>3. verdict # "parsing" => \A i \in DOMAIN anchors : i < at
      BY DEF MenuInv, MenuTypeOK, VerdictIsLast, Menu!HasMore
    <2>4. verdict = "refused" => \A i \in DOMAIN anchors : Menu!Piece(i, "link") \in lost
      BY <2>3 DEF MenuInv, VerdictIsLast, LostIsUnseen
    <2>5. verdict # "parsing" =>
            \A i \in DOMAIN anchors : anchors[i].entry /\ (\A p \in lost : p.of # i)
              => \E k \in DOMAIN known : known[k].child = anchors[i].child
      BY <2>3 DEF MenuInv, IntactAreKnown, IsIntact
    <2> QED BY <2>2, <2>4, <2>5 DEF MenuIsRead, Menu!MenuIsRead, MenuInv, KnownOnce
  <1> QED BY <1>1, MenuInvInit, MenuInvNext, PTL DEF LayerSpec

-----------------------------------------------------------------------------
(* The settlements page.  Where the parser is in a month's template tells  *)
(* how many div elements are open and which contexts can be, each at its   *)
(* own depth.                                                              *)
ItemPlaces == {30, 31, 32, 34, 35, 36, 38, 39, 40}
CellPlaces == {12, 13, 16, 17, 19, 20, 24, 25}
DepthAt(p) ==
  IF p \in {1, 4} THEN 0
  ELSE IF p \in {2, 3, 5, 6, 7, 8, 28, 42} THEN 1
  ELSE IF p \in 9 .. 27 \cup {29, 33, 37, 41} THEN 2
  ELSE 3
MaybeOpen(c, level, places) ==
  Settlements!IsOpen(c) => since[c] = level /\ place \in places

PlaceIsKnown ==
  /\ \E n \in Nat : /\ DOMAIN shown = 1 .. n /\ month \in 1 .. n + 1
                    /\ \A i \in 1 .. n : shown[i].bare \in BOOLEAN
  /\ place \in 1 .. Settlements!LastPlace
  /\ ~Settlements!HasMore => place = 1
  /\ place \in 8 .. 27 => shown[month].bare = FALSE
  /\ fedAs # "itself" =>
       /\ Settlements!HasMore
       /\ fedAs \in Settlements!Drifted(Settlements!Shown.is) /\ Settlements!Shown \in drifts
ContextsAreNested ==
  /\ depth = DepthAt(place)
  /\ since \in [Settlements!Contexts -> Int]
  /\ MaybeOpen("label", 1, 2 .. 3)
  /\ MaybeOpen("card", 1, 5 .. 42)
  /\ MaybeOpen("badge", 1, 6 .. 7)
  /\ MaybeOpen("grid", 2, 29 .. 41)
  /\ MaybeOpen("item", 3, ItemPlaces)
  /\ Settlements!IsOpen("badge") \/ Settlements!IsOpen("grid") => Settlements!IsOpen("card")
  /\ Settlements!IsOpen("item") => Settlements!IsOpen("grid")
  /\ card # None <=> Settlements!IsOpen("card")
  /\ row # None => Settlements!IsOpen("card") /\ place \in 11 .. 26
  /\ cell # None => row # None /\ place \in CellPlaces
(* A context that is not open where the template has it changed.           *)
LostIsRecorded ==
  /\ place \in {2, 3} => Settlements!IsOpen("label") \/ Settlements!Piece(month, "label") \in drifts
  /\ place >= 5 => Settlements!IsOpen("card") \/ Settlements!Piece(month, "card") \in drifts

(* What is read of month i is a text of its own, empty or garbled.         *)
PiecesOf(i) == [of : {i}, is : Settlements!Said]
Says(t, i, is) == t \in {<<>>, Settlements!Text(i, is), Settlements!Text(i, "garbled")}
(* A label came over the labels up to l and the cards up to c.             *)
Carried(t, l, c) ==
  Settlements!IsMonth(t) =>
    \E j \in 1 .. l :
      /\ t = Settlements!Text(j, "month")
      /\ \A k \in j .. c : Settlements!Piece(k, "card") \in drifts
      /\ \A k \in j + 1 .. l : Settlements!Piece(k, "label") \in drifts
CardOf(c, i) ==
  /\ c \in Settlements!Cards
  /\ Carried(c.label, i, i - 1)
  /\ Says(c.paid, i, "paid") /\ Says(c.amount, i, "amount") /\ Says(c.saldo, i, "saldo")
  /\ Says(c.due, i, "due")
  /\ c.bill \in {i, None}
  /\ \A r \in DOMAIN c.rows :
       Settlements!IsOf(i, c.rows[r][1]) /\ Settlements!IsOf(i, c.rows[r][2])
ItemSays(t, i, word, value) ==
  t # <<>> /\ Head(t).is \in {"Kwota", "Saldo", "Termin"} =>
    Head(t).is = word /\ Says(Tail(t), i, value)

TextsAreTyped == text \in [{"label", "badge", "item"} -> Settlements!Texts]
LabelIsOwn ==
  Settlements!IsOpen("label") =>
    Says(text.label, month, "month") /\ (place = 2 => text.label = <<>>)
BadgeIsOwn ==
  Settlements!IsOpen("badge") =>
    Says(text.badge, month, "paid") /\ (place = 6 => text.badge = <<>>)
ItemIsOwn ==
  Settlements!IsOpen("item") =>
    /\ place \in {30, 34, 38} => text.item = <<>>
    /\ place = 31 => Says(text.item, month, "Kwota")
    /\ place = 32 => ItemSays(text.item, month, "Kwota", "amount")
    /\ place = 35 => Says(text.item, month, "Saldo")
    /\ place = 36 => ItemSays(text.item, month, "Saldo", "saldo")
    /\ place = 39 => Says(text.item, month, "Termin")
    /\ place = 40 => ItemSays(text.item, month, "Termin", "due")
TextsAreOwn == TextsAreTyped /\ LabelIsOwn /\ BadgeIsOwn /\ ItemIsOwn
CellsAreOwn ==
  /\ row # None => row \in Seq(Seq(PiecesOf(month)))
  /\ cell # None => cell \in Seq(PiecesOf(month))
CardIsOwn == card # None => CardOf(card, month)
PendingIsCarried ==
  /\ pending \in Settlements!Texts
  /\ Carried(pending, IF place <= 3 THEN month - 1 ELSE month,
                      IF place <= 4 THEN month - 1 ELSE month)

(* A month none of whose pieces changed is read as it is.                  *)
IsUnchanged(i) == \A d \in drifts : d.of # i
SoFar ==
  [label |-> Settlements!Text(month, "month"),
   paid |-> IF place >= 8 THEN Settlements!Text(month, "paid") ELSE <<>>,
   amount |-> IF place >= 33 THEN Settlements!Text(month, "amount") ELSE <<>>,
   saldo |-> IF place >= 37 THEN Settlements!Text(month, "saldo") ELSE <<>>,
   due |-> IF place >= 41 THEN Settlements!Text(month, "due") ELSE <<>>,
   rows |-> IF place >= 22 /\ ~shown[month].bare
            THEN << <<Settlements!Text(month, "charge"), Settlements!Text(month, "price")>> >>
            ELSE <<>>,
   bill |-> IF place >= 25 /\ ~shown[month].bare THEN month ELSE None]
TheItem(word, value) ==
  <<Settlements!Piece(month, word), Settlements!Piece(month, value)>>

ContextsAreOpen ==
  /\ place \in 2 .. 3 => Settlements!IsOpen("label")
  /\ place \in 6 .. 7 => Settlements!IsOpen("badge")
  /\ place \in 29 .. 41 => Settlements!IsOpen("grid")
  /\ place \in ItemPlaces => Settlements!IsOpen("item")
  /\ place >= 5 => Settlements!IsOpen("card")
TextsAreAsShown ==
  /\ place = 3 => text.label = Settlements!Text(month, "month")
  /\ place = 4 => pending = Settlements!Text(month, "month")
  /\ place = 7 => text.badge = Settlements!Text(month, "paid")
  /\ place = 31 => text.item = Settlements!Text(month, "Kwota")
  /\ place = 32 => text.item = TheItem("Kwota", "amount")
  /\ place = 35 => text.item = Settlements!Text(month, "Saldo")
  /\ place = 36 => text.item = TheItem("Saldo", "saldo")
  /\ place = 39 => text.item = Settlements!Text(month, "Termin")
  /\ place = 40 => text.item = TheItem("Termin", "due")
CellsAreAsShown ==
  /\ place \in 15 .. 17 => row = <<>>
  /\ place \in 18 .. 20 => row = <<Settlements!Text(month, "charge")>>
  /\ place = 21 => row = <<Settlements!Text(month, "charge"), Settlements!Text(month, "price")>>
  /\ place \in 23 .. 25 => row = <<>>
  /\ place = 26 => row = << <<>> >>
  /\ place \in {16, 19, 24, 25} => cell = <<>>
  /\ place = 17 => cell = Settlements!Text(month, "charge")
  /\ place = 20 => cell = Settlements!Text(month, "price")
CardIsAsShown == place >= 5 => card = SoFar
MonthIsAsShown ==
  IsUnchanged(month) =>
    ContextsAreOpen /\ TextsAreAsShown /\ CellsAreAsShown /\ CardIsAsShown

(* What is finished: a card for each month but one that is not known for   *)
(* a card, the month as it is unless it changed.                           *)
CardsAreOfMonths ==
  /\ cards \in Seq(Settlements!Cards)
  /\ \A k \in DOMAIN cards : \E i \in 1 .. month - 1 : CardOf(cards[k], i)
MonthsHaveCards ==
  \A i \in 1 .. month - 1 :
    \/ \E k \in DOMAIN cards : cards[k] = Settlements!Shows(i)
    \/ Settlements!Piece(i, "card") \in drifts
    \/ ~IsUnchanged(i) /\ \E k \in DOMAIN cards : CardOf(cards[k], i)
OutcomeIsLast ==
  /\ outcome # "parsing" => ~Settlements!HasMore
  /\ outcome = "read" => \A k \in DOMAIN cards : Settlements!IsWhole(cards[k])

PageInv ==
  /\ PlaceIsKnown /\ ContextsAreNested /\ LostIsRecorded
  /\ TextsAreOwn /\ CellsAreOwn /\ CardIsOwn /\ PendingIsCarried
  /\ MonthIsAsShown
  /\ CardsAreOfMonths /\ MonthsHaveCards /\ OutcomeIsLast

LEMMA AppendOne ==
  ASSUME NEW a, NEW b
  PROVE  Append(<<a>>, b) = <<a, b>>
<1>1. <<a>> \in Seq({a, b}) /\ <<a, b>> \in Seq({a, b}) OBVIOUS
<1>2. /\ Append(<<a>>, b) \in Seq({a, b}) /\ Len(Append(<<a>>, b)) = 2
      /\ Append(<<a>>, b)[1] = a /\ Append(<<a>>, b)[2] = b
  BY <1>1
<1>3. \A i \in 1 .. Len(Append(<<a>>, b)) : Append(<<a>>, b)[i] = <<a, b>>[i]
  BY <1>2
<1> QED BY <1>1, <1>2, <1>3, SeqEqual

LEMMA NoneIsNoValue ==
  /\ None # <<>>
  /\ \A t \in Settlements!Texts : None # t
  /\ \A r \in Seq(Settlements!Texts) : None # r
  /\ \A c \in Settlements!Cards : None # c
  /\ \A n \in Nat : None # n
<1>1. <<>> \in Settlements!Texts BY DEF Settlements!Texts
<1> QED BY <1>1, NoneAssumption

(* An item whose word alone was read.                                      *)
LEMMA WordIsItem ==
  ASSUME NEW i, NEW word, NEW value, NEW t, Says(t, i, word)
  PROVE  ItemSays(t, i, word, value)
<1>1. CASE t = <<>> BY <1>1 DEF ItemSays
<1>2. ASSUME NEW is, t = Settlements!Text(i, is) PROVE Tail(t) = <<>> /\ Head(t).is = is
  <2>1. t = <<Settlements!Piece(i, is)>> BY <1>2 DEF Settlements!Text
  <2>2. Settlements!Piece(i, is).is = is BY DEF Settlements!Piece
  <2> HIDE DEF Settlements!Piece
  <2> QED BY <2>1, <2>2
<1>3. CASE t = Settlements!Text(i, word) BY <1>2, <1>3 DEF ItemSays, Says
<1>4. CASE t = Settlements!Text(i, "garbled")
  <2>1. Head(t).is = "garbled" BY <1>2, <1>4
  <2> QED BY <2>1 DEF ItemSays
<1> QED BY <1>1, <1>3, <1>4 DEF Says

(* Its value is read after it.                                             *)
LEMMA ValueIsItem ==
  ASSUME NEW i, NEW word, NEW value \in {"amount", "saldo", "due"}, NEW t, Says(t, i, word),
         NEW is \in {value, "garbled"}
  PROVE  ItemSays(Append(t, Settlements!Piece(i, is)), i, word, value)
<1> DEFINE u == Append(t, Settlements!Piece(i, is))
<1>1. \A w : Settlements!Piece(i, w).is = w BY DEF Settlements!Piece
<1> HIDE DEF Settlements!Piece
<1>2. CASE t = <<>>
  <2>1. u = <<Settlements!Piece(i, is)>> BY <1>2
  <2>2. Head(u).is = is BY <1>1, <2>1
  <2> QED BY <2>2 DEF ItemSays
<1>3. ASSUME NEW w, t = Settlements!Text(i, w)
      PROVE  Head(u).is = w /\ Tail(u) = Settlements!Text(i, is)
  <2>1. \A a, b : Append(<<a>>, b) = <<a, b>> BY AppendOne
  <2>2. t = <<Settlements!Piece(i, w)>> BY <1>3 DEF Settlements!Text
  <2>3. u = <<Settlements!Piece(i, w), Settlements!Piece(i, is)>> BY <2>1, <2>2
  <2> HIDE DEF u
  <2> QED BY <1>1, <2>3 DEF Settlements!Text
<1>4. CASE t = Settlements!Text(i, word)
  <2>1. Head(u).is = word /\ Tail(u) = Settlements!Text(i, is) BY <1>3, <1>4
  <2> HIDE DEF u
  <2>2. ItemSays(u, i, word, value) BY <2>1 DEF ItemSays, Says
  <2> QED BY <2>2 DEF u
<1>5. CASE t = Settlements!Text(i, "garbled")
  <2>1. Head(u).is = "garbled" BY <1>3, <1>5
  <2> QED BY <2>1 DEF ItemSays
<1> QED BY <1>2, <1>4, <1>5 DEF Says

(* The pieces of the template and their places.                            *)
WordPlaces == {2, 6, 12, 16, 19, 30, 31, 34, 35, 38, 39}
ElementPlaces == {5, 9, 10, 11, 14, 15, 18, 22, 23, 24}
DivPlaces == {1, 4, 8, 28, 29, 33, 37}
EndPlaces == {3, 7, 13, 17, 20, 21, 25, 26, 27, 32, 36, 40, 41, 42}

LEMMA TemplateIsFixed ==
  LET T == Settlements!Template IN
  /\ T[1] = "label" /\ T[2] = "month" /\ T[3] = "/div" /\ T[4] = "card"
  /\ T[5] = "badge" /\ T[6] = "paid" /\ T[7] = "/span" /\ T[8] = "plain" /\ T[9] = "table"
  /\ T[10] = "tr" /\ T[11] = "td" /\ T[12] = "head" /\ T[13] = "/td"
  /\ T[14] = "tr" /\ T[15] = "td" /\ T[16] = "charge" /\ T[17] = "/td"
  /\ T[18] = "td" /\ T[19] = "price" /\ T[20] = "/td" /\ T[21] = "/tr"
  /\ T[22] = "tr" /\ T[23] = "td" /\ T[24] = "invoice" /\ T[25] = "/td" /\ T[26] = "/tr"
  /\ T[27] = "/div" /\ T[28] = "grid"
  /\ T[29] = "item" /\ T[30] = "Kwota" /\ T[31] = "amount" /\ T[32] = "/div"
  /\ T[33] = "item" /\ T[34] = "Saldo" /\ T[35] = "saldo" /\ T[36] = "/div"
  /\ T[37] = "item" /\ T[38] = "Termin" /\ T[39] = "due" /\ T[40] = "/div"
  /\ T[41] = "/div" /\ T[42] = "/div"
  BY DEF Settlements!Template

LEMMA KindOfPiece ==
  ASSUME PlaceIsKnown
  PROVE  LET is == Settlements!Template[place] IN
         /\ place \in WordPlaces \cup ElementPlaces \cup DivPlaces \cup EndPlaces
         /\ place \in WordPlaces => is \in Settlements!Words
         /\ place \in ElementPlaces => is \in {"badge", "table", "tr", "td", "invoice"}
         /\ place \in DivPlaces => is \in Settlements!Divs
         /\ place \in EndPlaces => is \in {"/div", "/span", "/td", "/tr"}
<1>1. place \in 1 .. 42 BY DEF PlaceIsKnown, Settlements!LastPlace
<1>2. place \in WordPlaces \cup ElementPlaces \cup DivPlaces \cup EndPlaces
  BY <1>1 DEF WordPlaces, ElementPlaces, DivPlaces, EndPlaces
<1>3. place \in WordPlaces => Settlements!Template[place] \in Settlements!Words
  BY TemplateIsFixed DEF WordPlaces, Settlements!Words
<1>4. place \in ElementPlaces =>
        Settlements!Template[place] \in {"badge", "table", "tr", "td", "invoice"}
  BY TemplateIsFixed DEF ElementPlaces
<1>5. place \in DivPlaces => Settlements!Template[place] \in Settlements!Divs
  BY TemplateIsFixed DEF DivPlaces, Settlements!Divs
<1>6. place \in EndPlaces => Settlements!Template[place] \in {"/div", "/span", "/td", "/tr"}
  BY TemplateIsFixed DEF EndPlaces
<1> QED BY <1>2, <1>3, <1>4, <1>5, <1>6

(* A piece that is not as the parser knows it is recorded, and is fed as a *)
(* plain div, an element the parser passes over or a garbled text.         *)
LEMMA PieceIsFed ==
  ASSUME PlaceIsKnown, Settlements!HasMore
  PROVE  /\ Settlements!Shown = Settlements!Piece(month, Settlements!Template[place])
         /\ Settlements!Shown.is = Settlements!Template[place]
         /\ Settlements!Fed.of = month
         /\ fedAs = "itself" => Settlements!Fed = Settlements!Shown
         /\ fedAs # "itself" =>
              /\ ~IsUnchanged(month) /\ Settlements!Shown \in drifts
              /\ \/ Settlements!Fed.is = "plain" /\ place \in DivPlaces
                 \/ Settlements!Fed.is = "other" /\ place \in WordPlaces \cup ElementPlaces
                 \/ Settlements!Fed = Settlements!Piece(month, "garbled") /\ place \in WordPlaces
<1>1. /\ Settlements!Shown = Settlements!Piece(month, Settlements!Template[place])
      /\ Settlements!Shown.is = Settlements!Template[place]
      /\ Settlements!Fed.of = month
      /\ fedAs = "itself" => Settlements!Fed = Settlements!Shown
      /\ fedAs # "itself" => Settlements!Fed = Settlements!Piece(month, fedAs)
  BY DEF Settlements!Shown, Settlements!Fed, Settlements!Piece
<1>2. ASSUME fedAs # "itself" PROVE ~IsUnchanged(month) /\ Settlements!Shown \in drifts
  BY <1>1, <1>2 DEF PlaceIsKnown, IsUnchanged, Settlements!Piece
<1>3. ASSUME fedAs # "itself"
      PROVE  \/ Settlements!Fed.is = "plain" /\ place \in DivPlaces
             \/ Settlements!Fed.is = "other" /\ place \in WordPlaces \cup ElementPlaces
             \/ Settlements!Fed = Settlements!Piece(month, "garbled") /\ place \in WordPlaces
  <2>1. fedAs \in Settlements!Drifted(Settlements!Template[place])
    BY <1>1, <1>3 DEF PlaceIsKnown, Settlements!Piece
  <2>2. Settlements!Fed = Settlements!Piece(month, fedAs) /\ Settlements!Fed.is = fedAs
    <3>1. Settlements!Fed = Settlements!Piece(month, fedAs) BY <1>1, <1>3
    <3> QED BY <3>1 DEF Settlements!Piece
  <2> USE DEF Settlements!Drifted, Settlements!Divs, Settlements!Words
  <2>3. CASE place \in WordPlaces BY <2>1, <2>2, <2>3, KindOfPiece
  <2>4. CASE place \in ElementPlaces BY <2>1, <2>2, <2>4, KindOfPiece
  <2>5. CASE place \in DivPlaces BY <2>1, <2>2, <2>5, KindOfPiece
  <2>6. CASE place \in EndPlaces BY <2>1, <2>6, KindOfPiece
  <2> QED BY <2>3, <2>4, <2>5, <2>6, KindOfPiece
<1> QED BY <1>1, <1>2, <1>3

(* Where the parser is after a piece that does not end its month.          *)
LEMMA NextPlace ==
  ASSUME PlaceIsKnown, Settlements!Parse, place # 42
  PROVE  /\ Settlements!HasMore /\ Settlements!Handle(Settlements!Fed) /\ place \in 1 .. 41
         /\ month' = month /\ fedAs' = "itself" /\ month \in Nat \ {0}
         /\ shown[month].bare \in BOOLEAN
         /\ shown' = shown /\ drifts' = drifts /\ outcome' = outcome
         /\ place' = place + 1 \/ (place = 7 /\ place' = 28 /\ shown[month].bare = TRUE)
         /\ PlaceIsKnown' /\ Settlements!HasMore'
<1>1. /\ Settlements!HasMore /\ Settlements!Handle(Settlements!Fed)
      /\ month' = month /\ fedAs' = "itself"
      /\ shown' = shown /\ drifts' = drifts /\ outcome' = outcome
      /\ place' = IF place = 7 /\ shown[month].bare THEN 28 ELSE place + 1
  BY DEF Settlements!Parse, Settlements!LastPlace, Settlements!Following, Settlements!Badged,
         Settlements!Grid
<1>2. place \in 1 .. 41 /\ month \in Nat \ {0} /\ shown[month].bare \in BOOLEAN
  <2>1. place \in 1 .. 42 BY DEF PlaceIsKnown, Settlements!LastPlace
  <2>2. PICK n \in Nat : /\ DOMAIN shown = 1 .. n /\ month \in 1 .. n + 1
                         /\ \A i \in 1 .. n : shown[i].bare \in BOOLEAN
    BY DEF PlaceIsKnown
  <2>3. month \in 1 .. n BY <1>1, <2>2 DEF Settlements!HasMore
  <2> QED BY <2>1, <2>2, <2>3
<1>3. place' = place + 1 \/ (place = 7 /\ place' = 28 /\ shown[month].bare = TRUE)
  <2>1. CASE shown[month].bare = TRUE BY <1>1, <2>1
  <2>2. CASE shown[month].bare = FALSE BY <1>1, <2>2
  <2> QED BY <1>2, <2>1, <2>2
<1>5. Settlements!HasMore' BY <1>1 DEF Settlements!HasMore
<1>6. PlaceIsKnown'
  <2>1. place' \in 1 .. 42 BY <1>2, <1>3
  <2>2. place' \in 8 .. 27 => shown[month].bare = FALSE
    <3>1. place \in 8 .. 27 => shown[month].bare = FALSE BY DEF PlaceIsKnown
    <3>2. shown[month].bare = TRUE /\ place = 7 => place' = 28 BY <1>1
    <3>3. shown[month].bare = TRUE /\ place # 7 => place' \notin 8 .. 27 BY <1>2, <1>3, <3>1
    <3> QED BY <1>2, <3>2, <3>3
  <2> QED BY <1>1, <1>5, <2>1, <2>2 DEF PlaceIsKnown, Settlements!LastPlace
<1> QED BY <1>1, <1>2, <1>3, <1>5, <1>6

MonthInv ==
  /\ ContextsAreNested /\ LostIsRecorded
  /\ TextsAreOwn /\ CellsAreOwn /\ CardIsOwn /\ PendingIsCarried
  /\ MonthIsAsShown

(* A piece that is passed over.                                            *)
LEMMA PassedOver ==
  ASSUME PlaceIsKnown, MonthInv, Settlements!Parse, place # 42, Settlements!Fed.is = "other"
  PROVE  MonthInv' /\ cards' = cards
<1>1. /\ place \in WordPlaces \cup ElementPlaces /\ ~IsUnchanged(month)
      /\ place' = place + 1 /\ place \in Nat
      /\ UNCHANGED <<month, drifts>>
  <2>1. place \in WordPlaces \cup ElementPlaces /\ ~IsUnchanged(month)
    <3>1. Settlements!Template[place] # "other"
      BY KindOfPiece DEF Settlements!Words, Settlements!Divs
    <3>2. Settlements!HasMore BY NextPlace
    <3>3. Settlements!Fed # Settlements!Piece(month, "garbled") BY DEF Settlements!Piece
    <3>4. fedAs # "itself"
      BY <3>1, <3>2, PieceIsFed
    <3> QED BY <3>2, <3>3, <3>4, PieceIsFed
  <2>2. place # 7 BY <2>1 DEF WordPlaces, ElementPlaces
  <2>3. place' = place + 1 BY <2>2, NextPlace
  <2>4. place \in Nat
    <3>1. place \in 1 .. 41 BY NextPlace
    <3> QED BY <3>1
  <2>5. UNCHANGED <<month, drifts>> BY NextPlace
  <2> QED BY <2>1, <2>3, <2>4, <2>5
<1>2. UNCHANGED <<depth, since, text, row, cell, pending, card, cards>>
  BY NextPlace DEF Settlements!Handle, Settlements!Said, Settlements!Words, Settlements!Divs, Settlements!rowVars,
                   Settlements!cardVars
<1>3. ContextsAreNested'
  BY <1>1, <1>2 DEF MonthInv, ContextsAreNested, DepthAt, MaybeOpen, ItemPlaces, CellPlaces,
     WordPlaces, ElementPlaces, Settlements!IsOpen, Settlements!Closed
<1>4. LostIsRecorded'
  BY <1>1, <1>2 DEF MonthInv, LostIsRecorded, WordPlaces, ElementPlaces, Settlements!IsOpen, Settlements!Closed,
  Settlements!Piece
<1>5. TextsAreOwn'
  <2> USE DEF WordPlaces, ElementPlaces, Settlements!IsOpen, Settlements!Closed
  <2>1. TextsAreOwn /\ ContextsAreNested BY DEF MonthInv
  <2>2. LabelIsOwn' BY <1>1, <1>2, <2>1 DEF TextsAreOwn, LabelIsOwn, Says
  <2>3. BadgeIsOwn'
    BY <1>1, <1>2, <2>1 DEF TextsAreOwn, BadgeIsOwn, Says, ContextsAreNested, MaybeOpen
  <2>4. ItemIsOwn'
    <3> SUFFICES ASSUME Settlements!IsOpen("item") PROVE ItemIsOwn'
      BY <1>2 DEF ItemIsOwn
    <3>1. ItemIsOwn /\ place \in ItemPlaces
      BY <2>1 DEF TextsAreOwn, ContextsAreNested, MaybeOpen
    <3>2. CASE place \in {30, 34, 38} BY <1>1, <1>2, <3>1, <3>2 DEF ItemIsOwn, Says
    <3>3. CASE place = 31 BY <1>1, <1>2, <3>1, <3>3, WordIsItem DEF ItemIsOwn
    <3>4. CASE place = 35 BY <1>1, <1>2, <3>1, <3>4, WordIsItem DEF ItemIsOwn
    <3>5. CASE place = 39 BY <1>1, <1>2, <3>1, <3>5, WordIsItem DEF ItemIsOwn
    <3> QED BY <1>1, <3>1, <3>2, <3>3, <3>4, <3>5 DEF ItemPlaces
  <2> QED BY <1>2, <2>1, <2>2, <2>3, <2>4 DEF TextsAreOwn, TextsAreTyped
<1>6. CellsAreOwn' BY <1>1, <1>2 DEF MonthInv, CellsAreOwn, PiecesOf
<1>7. CardIsOwn' BY <1>1, <1>2 DEF MonthInv, CardIsOwn, CardOf, Carried, Says,
   Settlements!Text, Settlements!Piece, Settlements!IsOf
<1>8. PendingIsCarried'
  BY <1>1, <1>2 DEF MonthInv, PendingIsCarried, Carried, WordPlaces, ElementPlaces, Settlements!Text, Settlements!Piece
<1>9. MonthIsAsShown' BY <1>1 DEF MonthIsAsShown, IsUnchanged
<1> QED BY <1>2, <1>3, <1>4, <1>5, <1>6, <1>7, <1>8, <1>9 DEF MonthInv

(* A text is appended to whatever is open.                                 *)
LEMMA WordIsRead ==
  ASSUME PlaceIsKnown, MonthInv, Settlements!Parse, place \in WordPlaces, Settlements!Fed.is # "other"
  PROVE  MonthInv' /\ cards' = cards
<1>1. /\ place' = place + 1 /\ place \in Nat /\ UNCHANGED <<month, shown, drifts>>
      /\ Settlements!HasMore /\ month \in Nat /\ Settlements!Handle(Settlements!Fed)
  <2>1. place # 7 /\ place # 42 /\ place \in Nat BY DEF WordPlaces
  <2> QED BY <2>1, NextPlace
<1> DEFINE p == Settlements!Fed
<1>2. /\ p.of = month
      /\ p = Settlements!Piece(month, Settlements!Template[place])
         \/ p = Settlements!Piece(month, "garbled")
      /\ IsUnchanged(month) => p = Settlements!Piece(month, Settlements!Template[place])
      /\ p \in PiecesOf(month) /\ p \in [of : Nat, is : Settlements!Said]
      /\ p.is \in Settlements!Said
  <2>1. Settlements!Template[place] \in Settlements!Words
    BY KindOfPiece
  <2>2. place \notin DivPlaces BY DEF WordPlaces, DivPlaces
  <2>3. /\ p = Settlements!Piece(month, Settlements!Template[place])
           \/ p = Settlements!Piece(month, "garbled")
        /\ IsUnchanged(month) => p = Settlements!Piece(month, Settlements!Template[place])
    BY <1>1, <2>2, PieceIsFed
  <2> HIDE DEF p
  <2>4. /\ p.of = month /\ p \in PiecesOf(month) /\ p \in [of : Nat, is : Settlements!Said]
        /\ p.is \in Settlements!Said
    <3>1. CASE p = Settlements!Piece(month, Settlements!Template[place])
      <4>1. Settlements!Template[place] \in Settlements!Said BY <2>1 DEF Settlements!Said
      <4> QED BY <1>1, <3>1, <4>1 DEF PiecesOf, Settlements!Piece
    <3>2. CASE p = Settlements!Piece(month, "garbled")
      BY <1>1, <3>2 DEF PiecesOf, Settlements!Piece, Settlements!Said
    <3> QED BY <2>3, <3>1, <3>2
  <2> QED BY <2>3, <2>4
<1>3. /\ text' = [c \in DOMAIN text |-> IF Settlements!IsOpen(c) THEN Append(text[c], p) ELSE text[c]]
      /\ cell' = IF cell = None THEN None ELSE Append(cell, p)
      /\ UNCHANGED <<depth, since, row, pending, card, cards>>
  BY <1>1, <1>2 DEF Settlements!Handle, Settlements!Feed, Settlements!cardVars, Settlements!Said,
     Settlements!Words, Settlements!Divs
<1> HIDE DEF p
<1>4. /\ ContextsAreNested /\ LostIsRecorded
      /\ TextsAreTyped /\ LabelIsOwn /\ BadgeIsOwn /\ ItemIsOwn
      /\ CellsAreOwn /\ CardIsOwn /\ PendingIsCarried /\ MonthIsAsShown
  BY DEF MonthInv, TextsAreOwn
<1> USE DEF WordPlaces
<1>5. ContextsAreNested'
  BY <1>1, <1>3, <1>4
  DEF ContextsAreNested, DepthAt, MaybeOpen, ItemPlaces, CellPlaces, Settlements!IsOpen,
      Settlements!Closed
<1>6. LostIsRecorded'
  BY <1>1, <1>3, <1>4 DEF LostIsRecorded, Settlements!IsOpen, Settlements!Closed, Settlements!Piece
<1>7. /\ text.label \in Settlements!Texts /\ text.badge \in Settlements!Texts
      /\ text.item \in Settlements!Texts /\ DOMAIN text = {"label", "badge", "item"}
      /\ text'.label = IF Settlements!IsOpen("label") THEN Append(text.label, p) ELSE text.label
      /\ text'.badge = IF Settlements!IsOpen("badge") THEN Append(text.badge, p) ELSE text.badge
      /\ text'.item = IF Settlements!IsOpen("item") THEN Append(text.item, p) ELSE text.item
  BY <1>3, <1>4 DEF TextsAreTyped
<1>8. TextsAreTyped'
  <2>1. \A t \in Settlements!Texts : Append(t, p) \in Settlements!Texts
    BY <1>2 DEF Settlements!Texts
  <2> QED BY <1>3, <1>4, <2>1 DEF TextsAreTyped
<1>9. /\ place = 2 => Settlements!Template[place] = "month"
      /\ place = 6 => Settlements!Template[place] = "paid"
      /\ place = 30 => Settlements!Template[place] = "Kwota"
      /\ place = 31 => Settlements!Template[place] = "amount"
      /\ place = 34 => Settlements!Template[place] = "Saldo"
      /\ place = 35 => Settlements!Template[place] = "saldo"
      /\ place = 38 => Settlements!Template[place] = "Termin"
      /\ place = 39 => Settlements!Template[place] = "due"
      /\ place = 16 => Settlements!Template[place] = "charge"
      /\ place = 19 => Settlements!Template[place] = "price"
  BY TemplateIsFixed
<1>10. Append(<<>>, p) = <<p>> OBVIOUS
<1>11. \A is : p = Settlements!Piece(month, is) => <<p>> = Settlements!Text(month, is)
  BY DEF Settlements!Text
<1>12. \A is : is = Settlements!Template[place] => Says(<<p>>, month, is)
  BY <1>2, <1>11 DEF Says
<1>13. LabelIsOwn'
  <2> SUFFICES ASSUME Settlements!IsOpen("label") PROVE LabelIsOwn'
    BY <1>3 DEF LabelIsOwn, Settlements!IsOpen, Settlements!Closed
  <2>1. place = 2 /\ text.label = <<>> BY <1>4 DEF ContextsAreNested, MaybeOpen, LabelIsOwn
  <2>2. Says(text'.label, month, "month") BY <1>7, <1>9, <1>10, <1>12, <2>1
  <2> QED BY <1>1, <2>1, <2>2 DEF LabelIsOwn, Says, Settlements!Text, Settlements!Piece
<1>14. BadgeIsOwn'
  <2> SUFFICES ASSUME Settlements!IsOpen("badge") PROVE BadgeIsOwn'
    BY <1>3 DEF BadgeIsOwn, Settlements!IsOpen, Settlements!Closed
  <2>1. place = 6 /\ text.badge = <<>> BY <1>4 DEF ContextsAreNested, MaybeOpen, BadgeIsOwn
  <2>2. Says(text'.badge, month, "paid") BY <1>7, <1>9, <1>10, <1>12, <2>1
  <2> QED BY <1>1, <2>1, <2>2 DEF BadgeIsOwn, Says, Settlements!Text, Settlements!Piece
<1>15. ItemIsOwn'
  <2> SUFFICES ASSUME Settlements!IsOpen("item") PROVE ItemIsOwn'
    BY <1>3 DEF ItemIsOwn, Settlements!IsOpen, Settlements!Closed
  <2>1. place \in ItemPlaces BY <1>4 DEF ContextsAreNested, MaybeOpen
  <2>2. text'.item = Append(text.item, p) BY <1>7
  <2>3. ASSUME NEW word, place \in {30, 34, 38}, word = Settlements!Template[place]
        PROVE  Says(text'.item, month, word)
    BY <1>4, <1>10, <1>12, <2>2, <2>3 DEF ItemIsOwn
  <2>4. ASSUME NEW word, NEW value \in {"amount", "saldo", "due"},
               Says(text.item, month, word), value = Settlements!Template[place]
        PROVE  ItemSays(text'.item, month, word, value)
    <3>1. CASE p = Settlements!Piece(month, value) BY <2>2, <2>4, <3>1, ValueIsItem
    <3>2. CASE p = Settlements!Piece(month, "garbled") BY <2>2, <2>4, <3>2, ValueIsItem
    <3> QED BY <1>2, <2>4, <3>1, <3>2
  <2>5. CASE place = 30 BY <1>1, <1>3, <1>9, <2>3, <2>5 DEF ItemIsOwn
  <2>6. CASE place = 34 BY <1>1, <1>3, <1>9, <2>3, <2>6 DEF ItemIsOwn
  <2>7. CASE place = 38 BY <1>1, <1>3, <1>9, <2>3, <2>7 DEF ItemIsOwn
  <2>8. CASE place = 31
    <3>1. ItemSays(text'.item, month, "Kwota", "amount") BY <1>3, <1>4, <1>9, <2>4, <2>8 DEF ItemIsOwn
    <3> QED BY <1>1, <2>8, <3>1 DEF ItemIsOwn, ItemSays, Says, Settlements!Text, Settlements!Piece
  <2>9. CASE place = 35
    <3>1. ItemSays(text'.item, month, "Saldo", "saldo") BY <1>3, <1>4, <1>9, <2>4, <2>9 DEF ItemIsOwn
    <3> QED BY <1>1, <2>9, <3>1 DEF ItemIsOwn, ItemSays, Says, Settlements!Text, Settlements!Piece
  <2>10. CASE place = 39
    <3>1. ItemSays(text'.item, month, "Termin", "due") BY <1>3, <1>4, <1>9, <2>4, <2>10 DEF ItemIsOwn
    <3> QED BY <1>1, <2>10, <3>1 DEF ItemIsOwn, ItemSays, Says, Settlements!Text, Settlements!Piece
  <2> QED BY <2>1, <2>5, <2>6, <2>7, <2>8, <2>9, <2>10 DEF ItemPlaces
<1>16. CellsAreOwn'
  <2>1. cell # None => cell' \in Seq(PiecesOf(month))
    BY <1>2, <1>3, <1>4 DEF CellsAreOwn
  <2> QED BY <1>1, <1>3, <1>4, <2>1 DEF CellsAreOwn, PiecesOf
<1>17. CardIsOwn'
  BY <1>1, <1>3, <1>4 DEF CardIsOwn, CardOf, Carried, Says, Settlements!Text, Settlements!Piece,
                          Settlements!IsOf
<1>18. PendingIsCarried'
  BY <1>1, <1>3, <1>4 DEF PendingIsCarried, Carried, Settlements!Text, Settlements!Piece
<1>19. MonthIsAsShown'
  <2> SUFFICES ASSUME IsUnchanged(month)
               PROVE  (ContextsAreOpen /\ TextsAreAsShown /\ CellsAreAsShown /\ CardIsAsShown)'
    BY <1>1 DEF MonthIsAsShown, IsUnchanged
  <2>1. ContextsAreOpen /\ TextsAreAsShown /\ CellsAreAsShown /\ CardIsAsShown
    BY <1>4 DEF MonthIsAsShown
  <2>2. ContextsAreOpen'
    BY <1>1, <1>3, <2>1 DEF ContextsAreOpen, ItemPlaces, Settlements!IsOpen, Settlements!Closed
  <2>3. p = Settlements!Piece(month, Settlements!Template[place]) BY <1>2
  <2>4. TextsAreAsShown'
    <3>1. place = 2 => text'.label = <<p>>
      <4> SUFFICES ASSUME place = 2 PROVE text'.label = <<p>>
        OBVIOUS
      <4>1. Settlements!IsOpen("label") BY <2>1 DEF ContextsAreOpen
      <4>2. text.label = <<>> BY <1>4, <4>1 DEF LabelIsOwn
      <4> QED BY <1>7, <1>10, <4>1, <4>2
    <3>2. place = 6 => text'.badge = <<p>>
      <4> SUFFICES ASSUME place = 6 PROVE text'.badge = <<p>>
        OBVIOUS
      <4>1. Settlements!IsOpen("badge") BY <2>1 DEF ContextsAreOpen
      <4>2. text.badge = <<>> BY <1>4, <4>1 DEF BadgeIsOwn
      <4> QED BY <1>7, <1>10, <4>1, <4>2
    <3>3. place \in {30, 34, 38} => text'.item = <<p>>
      BY <1>4, <1>7, <1>10, <2>1 DEF ContextsAreOpen, ItemIsOwn, ItemPlaces
    <3>4. ASSUME NEW is, text.item = Settlements!Text(month, is), place \in ItemPlaces
          PROVE  text'.item = <<Settlements!Piece(month, is), p>>
      BY <1>7, <2>1, <3>4, AppendOne DEF ContextsAreOpen, Settlements!Text
    <3>5. place = 31 => text'.item = TheItem("Kwota", "amount")
      BY <1>9, <2>1, <2>3, <3>4 DEF TextsAreAsShown, TheItem, ItemPlaces
    <3>6. place = 35 => text'.item = TheItem("Saldo", "saldo")
      BY <1>9, <2>1, <2>3, <3>4 DEF TextsAreAsShown, TheItem, ItemPlaces
    <3>7. place = 39 => text'.item = TheItem("Termin", "due")
      BY <1>9, <2>1, <2>3, <3>4 DEF TextsAreAsShown, TheItem, ItemPlaces
    <3> HIDE DEF TheItem
    <3>8. TheItem("Kwota", "amount")' = TheItem("Kwota", "amount")
          /\ TheItem("Saldo", "saldo")' = TheItem("Saldo", "saldo")
          /\ TheItem("Termin", "due")' = TheItem("Termin", "due")
      BY <1>1 DEF TheItem, Settlements!Piece
    <3>9. \A is : Settlements!Text(month, is)' = Settlements!Text(month, is)
      BY <1>1 DEF Settlements!Text, Settlements!Piece
    <3> QED BY <1>1, <1>9, <1>11, <2>3, <3>1, <3>2, <3>3, <3>5, <3>6, <3>7, <3>8, <3>9
        DEF TextsAreAsShown
  <2>5. CellsAreAsShown'
    <3>1. place \in {16, 19} => cell' = <<p>>
      BY <1>3, <1>10, <2>1, NoneIsNoValue DEF CellsAreAsShown
    <3> QED BY <1>1, <1>3, <1>9, <1>11, <2>1, <2>3, <3>1
        DEF CellsAreAsShown, Settlements!Text, Settlements!Piece
  <2>6. CardIsAsShown'
    BY <1>1, <1>3, <2>1 DEF CardIsAsShown, SoFar, Settlements!Text, Settlements!Piece
  <2> QED BY <2>2, <2>4, <2>5, <2>6
<1> QED
  BY <1>3, <1>5, <1>6, <1>8, <1>13, <1>14, <1>15, <1>16, <1>17, <1>18, <1>19
  DEF MonthInv, TextsAreOwn

(* What a piece leaves alone stays as it was.                              *)
LEMMA KeptParts ==
  ASSUME month' = month, drifts' = drifts
  PROVE  /\ CardIsOwn /\ card' = card => CardIsOwn'
         /\ CellsAreOwn /\ row' = row /\ cell' = cell => CellsAreOwn'
         /\ /\ PendingIsCarried /\ pending' = pending
            /\ place' <= 3 <=> place <= 3
            /\ place' <= 4 <=> place <= 4
            => PendingIsCarried'
<1>1. CardIsOwn /\ card' = card => CardIsOwn'
  BY DEF CardIsOwn, CardOf, Carried, Says, Settlements!Text, Settlements!Piece, Settlements!IsOf
<1>2. CellsAreOwn /\ row' = row /\ cell' = cell => CellsAreOwn'
  BY DEF CellsAreOwn, PiecesOf
<1>3. ASSUME PendingIsCarried, pending' = pending,
             place' <= 3 <=> place <= 3, place' <= 4 <=> place <= 4
      PROVE  PendingIsCarried'
  BY <1>3 DEF PendingIsCarried, Carried, Settlements!Text, Settlements!Piece
<1> QED BY <1>1, <1>2, <1>3

(* A div that is no context of the parser's: one of the template's, or one *)
(* that changed.                                                           *)
LEMMA PlainIsOpened ==
  ASSUME PlaceIsKnown, MonthInv, Settlements!Parse, place \in DivPlaces, Settlements!Fed.is = "plain"
  PROVE  MonthInv' /\ cards' = cards
<1>1. /\ place' = place + 1 /\ place \in Nat /\ UNCHANGED <<month, shown, drifts>>
      /\ Settlements!HasMore /\ month \in Nat /\ Settlements!Handle(Settlements!Fed)
  <2>1. place # 7 /\ place # 42 /\ place \in Nat BY DEF DivPlaces
  <2> QED BY <2>1, NextPlace
<1>2. /\ depth' = depth + 1
      /\ UNCHANGED <<since, text, row, cell, pending, card, cards>>
  BY <1>1 DEF Settlements!Handle, Settlements!StartDiv, Settlements!Said, Settlements!Words,
              Settlements!rowVars, Settlements!cardVars
<1>3. \/ place = 8
      \/ /\ ~IsUnchanged(month)
         /\ Settlements!Piece(month, Settlements!Template[place]) \in drifts
  <2>1. place # 8 => Settlements!Template[place] # "plain"
    BY TemplateIsFixed DEF DivPlaces
  <2>2. fedAs = "itself" => Settlements!Template[place] = "plain" BY <1>1, PieceIsFed
  <2> QED BY <1>1, <2>1, <2>2, PieceIsFed
<1>4. place = 1 => Settlements!Template[place] = "label"
  BY TemplateIsFixed
<1>5. place = 4 => Settlements!Template[place] = "card"
  BY TemplateIsFixed
<1>6. /\ ContextsAreNested /\ LostIsRecorded
      /\ TextsAreTyped /\ LabelIsOwn /\ BadgeIsOwn /\ ItemIsOwn
      /\ CellsAreOwn /\ CardIsOwn /\ PendingIsCarried /\ MonthIsAsShown
  BY DEF MonthInv, TextsAreOwn
<1> USE DEF DivPlaces, Settlements!IsOpen, Settlements!Closed
<1>7. ContextsAreNested'
  BY <1>1, <1>2, <1>6
  DEF ContextsAreNested, DepthAt, MaybeOpen, ItemPlaces, CellPlaces
<1>8. LostIsRecorded'
  BY <1>1, <1>2, <1>3, <1>4, <1>5, <1>6 DEF LostIsRecorded, Settlements!Piece
<1>9. TextsAreOwn'
  BY <1>1, <1>2, <1>6 DEF ContextsAreNested, MaybeOpen, ItemPlaces, TextsAreOwn, TextsAreTyped,
     LabelIsOwn, BadgeIsOwn, ItemIsOwn
<1>10. CellsAreOwn' /\ CardIsOwn' BY <1>1, <1>2, <1>6, KeptParts
<1>11. PendingIsCarried'
  <2>1. CASE place # 4 BY <1>1, <1>2, <1>6, <2>1, KeptParts
  <2>2. CASE place = 4
    <3>1. Settlements!Piece(month, "card") \in drifts BY <1>3, <1>5, <2>2
    <3>2. Carried(pending, month, month - 1) BY <1>6, <2>2 DEF PendingIsCarried
    <3>3. Carried(pending, month, month) BY <1>1, <3>1, <3>2 DEF Carried
    <3>4. Carried(pending, month, month)' BY <1>1, <1>2, <3>3
      DEF Carried, Settlements!Text, Settlements!Piece
    <3> QED BY <1>1, <1>2, <1>6, <2>2, <3>4 DEF PendingIsCarried
  <2> QED BY <2>1, <2>2
<1>12. MonthIsAsShown'
  <2>1. CASE ~IsUnchanged(month) BY <1>1, <2>1 DEF MonthIsAsShown, IsUnchanged
  <2>2. CASE IsUnchanged(month)
    <3>1. place = 8 BY <1>3, <2>2
    <3> QED BY <1>1, <1>2, <1>6, <2>2, <3>1
        DEF MonthIsAsShown, ContextsAreOpen, TextsAreAsShown, CellsAreAsShown, CardIsAsShown, ItemPlaces, SoFar,
            Settlements!Text, Settlements!Piece
  <2> QED BY <2>1, <2>2
<1> QED BY <1>2, <1>7, <1>8, <1>9, <1>10, <1>11, <1>12 DEF MonthInv

(* A month's label.                                                        *)
LEMMA LabelIsOpened ==
  ASSUME PlaceIsKnown, MonthInv, Settlements!Parse, place = 1, Settlements!Fed.is = "label"
  PROVE  MonthInv' /\ cards' = cards
<1>1. /\ place' = 2 /\ UNCHANGED <<month, shown, drifts>>
      /\ month \in Nat /\ Settlements!Handle(Settlements!Fed)
  <2>1. place # 7 /\ place # 42 OBVIOUS
  <2>2. place' = place + 1 BY <2>1, NextPlace
  <2>3. place' = 2 BY <2>2
  <2> QED BY <2>1, <2>3, NextPlace
<1>2. /\ ContextsAreNested /\ LostIsRecorded
      /\ TextsAreTyped /\ LabelIsOwn /\ BadgeIsOwn /\ ItemIsOwn
      /\ CellsAreOwn /\ CardIsOwn /\ PendingIsCarried
  BY DEF MonthInv, TextsAreOwn
<1> USE DEF Settlements!IsOpen, Settlements!Closed, Settlements!Contexts
<1>3. /\ depth' = depth + 1 /\ depth = 0
      /\ since' = [since EXCEPT !["label"] = 1] /\ text' = [text EXCEPT !["label"] = <<>>]
      /\ UNCHANGED <<row, cell, pending, card, cards>>
  BY <1>1, <1>2 DEF Settlements!Handle, Settlements!StartDiv, Settlements!Said, Settlements!Words,
     Settlements!Divs, Settlements!rowVars, Settlements!cardVars, ContextsAreNested, MaybeOpen,
     Settlements!Begins, Settlements!Cleared, DepthAt
<1>4. ContextsAreNested'
  BY <1>1, <1>2, <1>3 DEF ContextsAreNested, DepthAt, MaybeOpen, ItemPlaces, CellPlaces
<1>5. LostIsRecorded'
  BY <1>1, <1>2, <1>3 DEF LostIsRecorded, ContextsAreNested, Settlements!Piece
<1>6. TextsAreOwn'
  <2>1. TextsAreTyped' BY <1>2, <1>3 DEF TextsAreTyped, Settlements!Texts
  <2> QED BY <1>1, <1>2, <1>3, <2>1 DEF TextsAreOwn, ContextsAreNested, MaybeOpen, ItemPlaces,
     LabelIsOwn, BadgeIsOwn, ItemIsOwn, Says, TextsAreTyped
<1>7. CellsAreOwn' /\ CardIsOwn' /\ PendingIsCarried' BY <1>1, <1>2, <1>3, KeptParts
<1>8. MonthIsAsShown'
  BY <1>1, <1>2, <1>3 DEF MonthIsAsShown, ContextsAreOpen, TextsAreAsShown, CellsAreAsShown, CardIsAsShown,
     ItemPlaces, ContextsAreNested
<1> QED BY <1>3, <1>4, <1>5, <1>6, <1>7, <1>8 DEF MonthInv

(* A card takes the label that is pending.                                 *)
LEMMA CardIsOpened ==
  ASSUME PlaceIsKnown, MonthInv, Settlements!Parse, place = 4, Settlements!Fed.is = "card"
  PROVE  MonthInv' /\ cards' = cards
<1>1. /\ place' = 5 /\ UNCHANGED <<month, shown, drifts>>
      /\ month \in Nat \ {0} /\ Settlements!Handle(Settlements!Fed)
  <2>1. place # 7 /\ place # 42 OBVIOUS
  <2>2. place' = place + 1 BY <2>1, NextPlace
  <2>3. place' = 5 BY <2>2
  <2> QED BY <2>1, <2>3, NextPlace
<1>2. /\ ContextsAreNested /\ LostIsRecorded
      /\ TextsAreTyped /\ LabelIsOwn /\ BadgeIsOwn /\ ItemIsOwn
      /\ CellsAreOwn /\ CardIsOwn /\ PendingIsCarried /\ MonthIsAsShown
  BY DEF MonthInv, TextsAreOwn
<1> USE DEF Settlements!IsOpen, Settlements!Closed, Settlements!Contexts
<1>3. /\ depth' = depth + 1 /\ depth = 0
      /\ since' = [since EXCEPT !["card"] = 1]
      /\ card' = Settlements!NewCard(pending) /\ pending' = <<>>
      /\ UNCHANGED <<row, cell, text, cards>>
  BY <1>1, <1>2 DEF Settlements!Handle, Settlements!StartDiv, Settlements!Said, Settlements!Words,
     Settlements!Divs, Settlements!rowVars, Settlements!cardVars, ContextsAreNested, MaybeOpen,
     Settlements!Begins, DepthAt
<1>4. card' \in Settlements!Cards /\ card' # None /\ <<>> \in Settlements!Texts
  <2>1. pending \in Settlements!Texts BY <1>2 DEF PendingIsCarried
  <2>2. <<>> \in Settlements!Texts /\ <<>> \in Seq(Settlements!Texts \X Settlements!Texts)
    BY DEF Settlements!Texts
  <2>3. card' \in Settlements!Cards
    BY <1>3, <2>1, <2>2 DEF Settlements!NewCard, Settlements!Cards
  <2> QED BY <2>2, <2>3, NoneIsNoValue
<1>5. ContextsAreNested'
  BY <1>1, <1>2, <1>3, <1>4 DEF ContextsAreNested, DepthAt, MaybeOpen, ItemPlaces, CellPlaces
<1>6. LostIsRecorded'
  BY <1>1, <1>2, <1>3 DEF LostIsRecorded, ContextsAreNested, Settlements!Piece
<1>7. TextsAreOwn'
  BY <1>1, <1>2, <1>3 DEF TextsAreOwn, ContextsAreNested, MaybeOpen, ItemPlaces,
     LabelIsOwn, BadgeIsOwn, ItemIsOwn, TextsAreTyped
<1>8. CellsAreOwn' BY <1>1, <1>2, <1>3, KeptParts
<1>9. CardIsOwn'
  <2>1. Carried(pending, month, month - 1) BY <1>2 DEF PendingIsCarried
  <2>2. /\ card'.label = pending /\ card'.paid = <<>> /\ card'.amount = <<>>
        /\ card'.saldo = <<>> /\ card'.due = <<>> /\ card'.bill = None /\ card'.rows = <<>>
    BY <1>3 DEF Settlements!NewCard
  <2>3. \A r \in DOMAIN card'.rows : FALSE BY <2>2
  <2>4. CardOf(card', month) BY <1>4, <2>1, <2>2, <2>3 DEF CardOf, Says
  <2> QED BY <1>1, <2>4 DEF CardIsOwn, CardOf, Carried, Says, Settlements!Text, Settlements!Piece, Settlements!IsOf
<1>10. PendingIsCarried'
  BY <1>1, <1>3, <1>4 DEF PendingIsCarried, Carried, Settlements!IsMonth, Settlements!Is
<1>11. MonthIsAsShown'
  <2> SUFFICES ASSUME IsUnchanged(month)
               PROVE  (ContextsAreOpen /\ TextsAreAsShown /\ CellsAreAsShown /\ CardIsAsShown)'
    BY <1>1 DEF MonthIsAsShown, IsUnchanged
  <2>1. ContextsAreOpen' /\ TextsAreAsShown' /\ CellsAreAsShown'
    BY <1>1, <1>2, <1>3 DEF ContextsAreOpen, TextsAreAsShown, CellsAreAsShown, ItemPlaces,
       ContextsAreNested
  <2>2. pending = Settlements!Text(month, "month") BY <1>2 DEF MonthIsAsShown, TextsAreAsShown
  <2>3. CardIsAsShown'
    BY <1>1, <1>3, <2>2 DEF CardIsAsShown, SoFar, Settlements!NewCard, Settlements!Text, Settlements!Piece
  <2> QED BY <2>1, <2>3
<1> QED BY <1>3, <1>5, <1>6, <1>7, <1>8, <1>9, <1>10, <1>11 DEF MonthInv

(* The badge of an open card.                                              *)
LEMMA BadgeIsOpened ==
  ASSUME PlaceIsKnown, MonthInv, Settlements!Parse, place = 5, Settlements!Fed.is = "badge"
  PROVE  MonthInv' /\ cards' = cards
<1>1. /\ place' = 6 /\ UNCHANGED <<month, shown, drifts>>
      /\ month \in Nat \ {0} /\ Settlements!Handle(Settlements!Fed)
  <2>1. place # 7 /\ place # 42 OBVIOUS
  <2>2. place' = place + 1 BY <2>1, NextPlace
  <2>3. place' = 6 BY <2>2
  <2> QED BY <2>1, <2>3, NextPlace
<1>2. /\ ContextsAreNested /\ LostIsRecorded
      /\ TextsAreTyped /\ LabelIsOwn /\ BadgeIsOwn /\ ItemIsOwn
      /\ CellsAreOwn /\ CardIsOwn /\ PendingIsCarried /\ MonthIsAsShown
  BY DEF MonthInv, TextsAreOwn
<1> USE DEF Settlements!IsOpen, Settlements!Closed, Settlements!Contexts
<1>3. /\ depth = 1
      /\ Settlements!IsOpen("card") =>
           since' = [since EXCEPT !["badge"] = 1] /\ text' = [text EXCEPT !["badge"] = <<>>]
      /\ ~Settlements!IsOpen("card") => UNCHANGED <<since, text>>
      /\ UNCHANGED <<depth, row, cell, pending, card, cards>>
  BY <1>1, <1>2 DEF Settlements!Handle, Settlements!StartBadge, Settlements!Said, Settlements!Words,
     Settlements!Divs, Settlements!rowVars, Settlements!cardVars, ContextsAreNested,
     Settlements!Begins, Settlements!Cleared, DepthAt
<1>4. ContextsAreNested'
  BY <1>1, <1>2, <1>3 DEF ContextsAreNested, DepthAt, MaybeOpen, ItemPlaces, CellPlaces
<1>5. LostIsRecorded'
  BY <1>1, <1>2, <1>3 DEF LostIsRecorded, ContextsAreNested, Settlements!Piece
<1>6. TextsAreOwn'
  <2>1. TextsAreTyped'
    <3>1. <<>> \in Settlements!Texts BY DEF Settlements!Texts
    <3>2. CASE text' = text BY <1>2, <3>2 DEF TextsAreTyped
    <3>3. CASE text' # text BY <1>2, <1>3, <3>1, <3>3 DEF TextsAreTyped
    <3> QED BY <3>2, <3>3
  <2> QED BY <1>1, <1>2, <1>3, <2>1 DEF TextsAreOwn, ContextsAreNested, MaybeOpen, ItemPlaces,
     LabelIsOwn, BadgeIsOwn, ItemIsOwn, Says, TextsAreTyped
<1>7. CellsAreOwn' /\ CardIsOwn' /\ PendingIsCarried' BY <1>1, <1>2, <1>3, KeptParts
<1>8. MonthIsAsShown'
  BY <1>1, <1>2, <1>3 DEF MonthIsAsShown, ContextsAreOpen, TextsAreAsShown, CellsAreAsShown, CardIsAsShown,
     ItemPlaces, ContextsAreNested, IsUnchanged, SoFar, Settlements!Text, Settlements!Piece
<1> QED BY <1>3, <1>4, <1>5, <1>6, <1>7, <1>8 DEF MonthInv

(* The grid of an open card, and an item of an open grid.                  *)
LEMMA GridIsOpened ==
  ASSUME PlaceIsKnown, MonthInv, Settlements!Parse, place = 28, Settlements!Fed.is = "grid"
  PROVE  MonthInv' /\ cards' = cards
<1>1. /\ place' = 29 /\ UNCHANGED <<month, shown, drifts>>
      /\ month \in Nat \ {0} /\ Settlements!Handle(Settlements!Fed)
  <2>1. place # 7 /\ place # 42 OBVIOUS
  <2>2. place' = place + 1 BY <2>1, NextPlace
  <2>3. place' = 29 BY <2>2
  <2> QED BY <2>1, <2>3, NextPlace
<1>2. /\ ContextsAreNested /\ LostIsRecorded
      /\ TextsAreTyped /\ LabelIsOwn /\ BadgeIsOwn /\ ItemIsOwn
      /\ CellsAreOwn /\ CardIsOwn /\ PendingIsCarried /\ MonthIsAsShown
  BY DEF MonthInv, TextsAreOwn
<1> USE DEF Settlements!IsOpen, Settlements!Closed, Settlements!Contexts
<1>3. /\ depth' = depth + 1 /\ depth = 1
      /\ since' = IF Settlements!IsOpen("card") THEN [since EXCEPT !["grid"] = 2] ELSE since
      /\ UNCHANGED <<text, row, cell, pending, card, cards>>
  BY <1>1, <1>2 DEF Settlements!Handle, Settlements!StartDiv, Settlements!Said, Settlements!Words,
     Settlements!Divs, Settlements!rowVars, Settlements!cardVars, ContextsAreNested, MaybeOpen,
     Settlements!Begins, DepthAt
<1>4. ContextsAreNested'
  BY <1>1, <1>2, <1>3 DEF ContextsAreNested, DepthAt, MaybeOpen, ItemPlaces, CellPlaces
<1>5. LostIsRecorded'
  BY <1>1, <1>2, <1>3 DEF LostIsRecorded, ContextsAreNested, Settlements!Piece
<1>6. TextsAreOwn'
  BY <1>1, <1>2, <1>3 DEF TextsAreOwn, ContextsAreNested, MaybeOpen, ItemPlaces,
     LabelIsOwn, BadgeIsOwn, ItemIsOwn, TextsAreTyped
<1>7. CellsAreOwn' /\ CardIsOwn' /\ PendingIsCarried' BY <1>1, <1>2, <1>3, KeptParts
<1>8. MonthIsAsShown'
  BY <1>1, <1>2, <1>3 DEF MonthIsAsShown, ContextsAreOpen, TextsAreAsShown, CellsAreAsShown, CardIsAsShown,
     ItemPlaces, ContextsAreNested, IsUnchanged, SoFar, Settlements!Text, Settlements!Piece
<1> QED BY <1>3, <1>4, <1>5, <1>6, <1>7, <1>8 DEF MonthInv

LEMMA ItemIsOpened ==
  ASSUME PlaceIsKnown, MonthInv, Settlements!Parse, place \in {29, 33, 37}, Settlements!Fed.is = "item"
  PROVE  MonthInv' /\ cards' = cards
<1>1. /\ place' = place + 1 /\ UNCHANGED <<month, shown, drifts>>
      /\ month \in Nat \ {0} /\ Settlements!Handle(Settlements!Fed)
  <2>1. place # 7 /\ place # 42 OBVIOUS
  <2> QED BY <2>1, NextPlace
<1>2. /\ ContextsAreNested /\ LostIsRecorded
      /\ TextsAreTyped /\ LabelIsOwn /\ BadgeIsOwn /\ ItemIsOwn
      /\ CellsAreOwn /\ CardIsOwn /\ PendingIsCarried /\ MonthIsAsShown
  BY DEF MonthInv, TextsAreOwn
<1> USE DEF Settlements!IsOpen, Settlements!Closed, Settlements!Contexts
<1>3. /\ depth' = depth + 1 /\ depth = 2
      /\ Settlements!IsOpen("grid") =>
           since' = [since EXCEPT !["item"] = 3] /\ text' = [text EXCEPT !["item"] = <<>>]
      /\ ~Settlements!IsOpen("grid") => UNCHANGED <<since, text>>
      /\ UNCHANGED <<row, cell, pending, card, cards>>
  BY <1>1, <1>2 DEF Settlements!Handle, Settlements!StartDiv, Settlements!Said, Settlements!Words,
     Settlements!Divs, Settlements!rowVars, Settlements!cardVars, ContextsAreNested, MaybeOpen,
     Settlements!Begins, Settlements!Cleared, DepthAt
<1>4. ContextsAreNested'
  BY <1>1, <1>2, <1>3 DEF ContextsAreNested, DepthAt, MaybeOpen, ItemPlaces, CellPlaces
<1>5. LostIsRecorded'
  BY <1>1, <1>2, <1>3 DEF LostIsRecorded, ContextsAreNested, Settlements!Piece
<1>6. TextsAreOwn'
  <2>1. TextsAreTyped'
    <3>1. <<>> \in Settlements!Texts BY DEF Settlements!Texts
    <3>2. CASE text' = text BY <1>2, <3>2 DEF TextsAreTyped
    <3>3. CASE text' # text BY <1>2, <1>3, <3>1, <3>3 DEF TextsAreTyped
    <3> QED BY <3>2, <3>3
  <2> QED BY <1>1, <1>2, <1>3, <2>1 DEF TextsAreOwn, ContextsAreNested, MaybeOpen, ItemPlaces,
     LabelIsOwn, BadgeIsOwn, ItemIsOwn, Says, TextsAreTyped
<1>7. CellsAreOwn' /\ CardIsOwn' /\ PendingIsCarried' BY <1>1, <1>2, <1>3, KeptParts
<1>8. MonthIsAsShown'
  BY <1>1, <1>2, <1>3 DEF MonthIsAsShown, ContextsAreOpen, TextsAreAsShown, CellsAreAsShown, CardIsAsShown,
     ItemPlaces, ContextsAreNested, IsUnchanged, SoFar, Settlements!Text, Settlements!Piece
<1> QED BY <1>3, <1>4, <1>5, <1>6, <1>7, <1>8 DEF MonthInv

(* A row of the table of an open card, and a cell of an open row.          *)
LEMMA RowIsOpened ==
  ASSUME PlaceIsKnown, MonthInv, Settlements!Parse, place \in {9, 10, 14, 22},
         Settlements!Fed.is = IF place = 9 THEN "table" ELSE "tr"
  PROVE  MonthInv' /\ cards' = cards
<1>1. /\ place' = place + 1 /\ UNCHANGED <<month, shown, drifts>>
      /\ month \in Nat \ {0} /\ Settlements!Handle(Settlements!Fed)
  <2>1. place # 7 /\ place # 42 OBVIOUS
  <2> QED BY <2>1, NextPlace
<1>2. /\ ContextsAreNested /\ LostIsRecorded
      /\ TextsAreTyped /\ LabelIsOwn /\ BadgeIsOwn /\ ItemIsOwn
      /\ CellsAreOwn /\ CardIsOwn /\ PendingIsCarried /\ MonthIsAsShown
  BY DEF MonthInv, TextsAreOwn
<1> USE DEF Settlements!IsOpen, Settlements!Closed, Settlements!Contexts
<1>3. /\ place # 9 /\ Settlements!IsOpen("card") => row' = <<>>
      /\ place = 9 \/ ~Settlements!IsOpen("card") => row' = row
      /\ row = None \/ place # 9
      /\ UNCHANGED <<depth, since, text, cell, pending, card, cards>>
  <2>1. Settlements!StartRow(Settlements!Fed.is)
    <3>1. Settlements!Fed.is \in {"table", "tr"} OBVIOUS
    <3> QED BY <1>1, <3>1 DEF Settlements!Handle, Settlements!Said, Settlements!Words, Settlements!Divs
  <2>2. ~Settlements!IsOpen("grid") /\ (row = None \/ place # 9)
    BY <1>2 DEF ContextsAreNested, MaybeOpen
  <2>3. CASE place = 9 BY <2>1, <2>2, <2>3 DEF Settlements!StartRow, Settlements!cardVars
  <2>4. CASE place # 9 BY <2>1, <2>2, <2>4 DEF Settlements!StartRow, Settlements!cardVars
  <2> QED BY <2>2, <2>3, <2>4
<1>4. ContextsAreNested'
  BY <1>1, <1>2, <1>3 DEF ContextsAreNested, DepthAt, MaybeOpen, ItemPlaces, CellPlaces
<1>5. LostIsRecorded'
  BY <1>1, <1>2, <1>3 DEF LostIsRecorded, ContextsAreNested, Settlements!Piece
<1>6. TextsAreOwn'
  BY <1>1, <1>2, <1>3 DEF TextsAreOwn, ContextsAreNested, MaybeOpen, ItemPlaces,
     LabelIsOwn, BadgeIsOwn, ItemIsOwn, TextsAreTyped
<1>7. CellsAreOwn'
  <2>1. <<>> \in Seq(Seq(PiecesOf(month))) OBVIOUS
  <2> QED BY <1>1, <1>2, <1>3, <2>1 DEF CellsAreOwn, PiecesOf, ContextsAreNested, MaybeOpen, CellPlaces
<1>8. CardIsOwn' /\ PendingIsCarried' BY <1>1, <1>2, <1>3, KeptParts
<1>9. MonthIsAsShown'
  <2> SUFFICES ASSUME IsUnchanged(month)
               PROVE  (ContextsAreOpen /\ TextsAreAsShown /\ CellsAreAsShown /\ CardIsAsShown)'
    BY <1>1 DEF MonthIsAsShown, IsUnchanged
  <2>1. ContextsAreOpen /\ TextsAreAsShown /\ CellsAreAsShown /\ CardIsAsShown
    BY <1>2 DEF MonthIsAsShown
  <2>2. place # 9 => row' = <<>> BY <1>3, <2>1 DEF ContextsAreOpen
  <2>3. CellsAreAsShown' BY <1>1, <2>2 DEF CellsAreAsShown
  <2>4. ContextsAreOpen' BY <1>1, <1>3, <2>1 DEF ContextsAreOpen, ItemPlaces
  <2>5. TextsAreAsShown' BY <1>1 DEF TextsAreAsShown
  <2>6. CardIsAsShown' BY <1>1, <1>3, <2>1 DEF CardIsAsShown, SoFar, Settlements!Text, Settlements!Piece
  <2> QED BY <2>3, <2>4, <2>5, <2>6
<1> QED BY <1>3, <1>4, <1>5, <1>6, <1>7, <1>8, <1>9 DEF MonthInv

LEMMA CellIsOpened ==
  ASSUME PlaceIsKnown, MonthInv, Settlements!Parse, place \in {11, 15, 18, 23},
         Settlements!Fed.is = "td"
  PROVE  MonthInv' /\ cards' = cards
<1>1. /\ place' = place + 1 /\ UNCHANGED <<month, shown, drifts>>
      /\ month \in Nat \ {0} /\ Settlements!Handle(Settlements!Fed)
  <2>1. place # 7 /\ place # 42 OBVIOUS
  <2> QED BY <2>1, NextPlace
<1>2. /\ ContextsAreNested /\ LostIsRecorded
      /\ TextsAreTyped /\ LabelIsOwn /\ BadgeIsOwn /\ ItemIsOwn
      /\ CellsAreOwn /\ CardIsOwn /\ PendingIsCarried /\ MonthIsAsShown
  BY DEF MonthInv, TextsAreOwn
<1> USE DEF Settlements!IsOpen, Settlements!Closed, Settlements!Contexts
<1>3. /\ row # None => cell' = <<>>
      /\ row = None => cell' = cell
      /\ UNCHANGED <<depth, since, text, row, pending, card, cards>>
  BY <1>1 DEF Settlements!Handle, Settlements!Said, Settlements!Words, Settlements!Divs,
              Settlements!StartCell, Settlements!cardVars
<1>4. ContextsAreNested'
  BY <1>1, <1>2, <1>3 DEF ContextsAreNested, DepthAt, MaybeOpen, ItemPlaces, CellPlaces
<1>5. LostIsRecorded'
  BY <1>1, <1>2, <1>3 DEF LostIsRecorded, ContextsAreNested, Settlements!Piece
<1>6. TextsAreOwn'
  BY <1>1, <1>2, <1>3 DEF TextsAreOwn, ContextsAreNested, MaybeOpen, ItemPlaces,
     LabelIsOwn, BadgeIsOwn, ItemIsOwn, TextsAreTyped
<1>7. CellsAreOwn'
  <2>1. <<>> \in Seq(PiecesOf(month)) OBVIOUS
  <2> QED BY <1>1, <1>2, <1>3, <2>1 DEF CellsAreOwn, PiecesOf, ContextsAreNested, MaybeOpen, CellPlaces
<1>8. CardIsOwn' /\ PendingIsCarried' BY <1>1, <1>2, <1>3, KeptParts
<1>9. MonthIsAsShown'
  <2> SUFFICES ASSUME IsUnchanged(month)
               PROVE  (ContextsAreOpen /\ TextsAreAsShown /\ CellsAreAsShown /\ CardIsAsShown)'
    BY <1>1 DEF MonthIsAsShown, IsUnchanged
  <2>1. ContextsAreOpen /\ TextsAreAsShown /\ CellsAreAsShown /\ CardIsAsShown
    BY <1>2 DEF MonthIsAsShown
  <2>2. row = <<>> \/ row = <<Settlements!Text(month, "charge")>> => row # None
    <3>1. Settlements!Text(month, "charge") \in Settlements!Texts
      BY <1>1 DEF Settlements!Text, Settlements!Texts, Settlements!Piece, Settlements!Said, Settlements!Words
    <3>2. <<Settlements!Text(month, "charge")>> \in Seq(Settlements!Texts)
      BY <3>1
    <3> QED BY <3>2, NoneIsNoValue
  <2>3. CellsAreAsShown'
    BY <1>1, <1>3, <2>1, <2>2 DEF CellsAreAsShown, Settlements!Text, Settlements!Piece
  <2> QED BY <1>1, <1>3, <2>1, <2>3 DEF ContextsAreOpen, TextsAreAsShown, CardIsAsShown,
     ItemPlaces, SoFar
<1> QED BY <1>3, <1>4, <1>5, <1>6, <1>7, <1>8, <1>9 DEF MonthInv

(* The invoice's link is the card's if it is the first.                    *)
LEMMA LinkIsRead ==
  ASSUME PlaceIsKnown, MonthInv, Settlements!Parse, place = 24, Settlements!Fed.is = "invoice"
  PROVE  MonthInv' /\ cards' = cards
<1>1. /\ place' = 25 /\ UNCHANGED <<month, shown, drifts>> /\ Settlements!HasMore
      /\ month \in Nat \ {0} /\ Settlements!Handle(Settlements!Fed)
  <2>1. place # 7 /\ place # 42 OBVIOUS
  <2>2. place' = place + 1 BY <2>1, NextPlace
  <2>3. place' = 25 BY <2>2
  <2> QED BY <2>1, <2>3, NextPlace
<1>2. /\ ContextsAreNested /\ LostIsRecorded
      /\ TextsAreTyped /\ LabelIsOwn /\ BadgeIsOwn /\ ItemIsOwn
      /\ CellsAreOwn /\ CardIsOwn /\ PendingIsCarried /\ MonthIsAsShown
  BY DEF MonthInv, TextsAreOwn
<1> USE DEF Settlements!IsOpen, Settlements!Closed, Settlements!Contexts
<1>3. /\ card' = IF card # None /\ card.bill = None THEN [card EXCEPT !.bill = month] ELSE card
      /\ UNCHANGED <<depth, since, text, row, cell, pending, cards>>
  <2>1. Settlements!Fed.of = month BY <1>1, PieceIsFed
  <2> QED BY <1>1, <2>1 DEF Settlements!Handle, Settlements!Said, Settlements!Words, Settlements!Divs,
              Settlements!StartLink, Settlements!rowVars
<1>4. /\ card # None => card \in Settlements!Cards /\ card' \in Settlements!Cards /\ card' # None
      /\ card = None => card' = None
  <2>1. card # None => card \in Settlements!Cards BY <1>2 DEF CardIsOwn, CardOf
  <2>2. card # None => card' \in Settlements!Cards BY <1>1, <1>3, <2>1 DEF Settlements!Cards
  <2> QED BY <1>3, <2>1, <2>2, NoneIsNoValue
<1>5. ContextsAreNested'
  BY <1>1, <1>2, <1>3, <1>4 DEF ContextsAreNested, DepthAt, MaybeOpen, ItemPlaces, CellPlaces
<1>6. LostIsRecorded'
  BY <1>1, <1>2, <1>3 DEF LostIsRecorded, ContextsAreNested, Settlements!Piece
<1>7. TextsAreOwn'
  BY <1>1, <1>2, <1>3 DEF TextsAreOwn, ContextsAreNested, MaybeOpen, ItemPlaces,
     LabelIsOwn, BadgeIsOwn, ItemIsOwn, TextsAreTyped
<1>8. CellsAreOwn' /\ PendingIsCarried' BY <1>1, <1>2, <1>3, KeptParts
<1>9. CardIsOwn'
  <2> SUFFICES ASSUME card # None PROVE CardIsOwn'
    BY <1>4 DEF CardIsOwn
  <2>1. /\ card'.label = card.label /\ card'.paid = card.paid /\ card'.amount = card.amount
        /\ card'.saldo = card.saldo /\ card'.due = card.due /\ card'.rows = card.rows
        /\ card'.bill \in {card.bill, month}
    BY <1>3, <1>4 DEF Settlements!Cards
  <2>2. CardOf(card, month) BY <1>2 DEF CardIsOwn
  <2>3. CardOf(card', month) BY <1>4, <2>1, <2>2 DEF CardOf
  <2> QED BY <1>1, <2>3 DEF CardIsOwn, CardOf, Carried, Says, Settlements!Text, Settlements!Piece,
                            Settlements!IsOf
<1>10. MonthIsAsShown'
  <2> SUFFICES ASSUME IsUnchanged(month)
               PROVE  (ContextsAreOpen /\ TextsAreAsShown /\ CellsAreAsShown /\ CardIsAsShown)'
    BY <1>1 DEF MonthIsAsShown, IsUnchanged
  <2>1. ContextsAreOpen /\ TextsAreAsShown /\ CellsAreAsShown /\ CardIsAsShown
    BY <1>2 DEF MonthIsAsShown
  <2>2. ContextsAreOpen' /\ TextsAreAsShown' /\ CellsAreAsShown'
    BY <1>1, <1>3, <2>1 DEF ContextsAreOpen, TextsAreAsShown, CellsAreAsShown, ItemPlaces,
                            Settlements!Text, Settlements!Piece
  <2>3. CardIsAsShown'
    <3>1. shown[month].bare = FALSE
      <4>1. place \in 8 .. 27 => shown[month].bare = FALSE BY DEF PlaceIsKnown
      <4> QED BY <4>1
    <3>2. card = SoFar /\ card # None BY <1>2, <2>1 DEF CardIsAsShown, ContextsAreOpen, ContextsAreNested
    <3>3. card' = [card EXCEPT !.bill = month] BY <1>3, <3>2 DEF SoFar
    <3>4. card' = SoFar' BY <1>1, <3>1, <3>2, <3>3 DEF SoFar, Settlements!Text, Settlements!Piece
    <3> QED BY <3>4 DEF CardIsAsShown
  <2> QED BY <2>2, <2>3
<1> QED BY <1>3, <1>5, <1>6, <1>7, <1>8, <1>9, <1>10 DEF MonthInv

(* The ends.  A label's end makes its text the pending one.                *)
LEMMA LabelIsClosed ==
  ASSUME PlaceIsKnown, MonthInv, Settlements!Parse, place = 3, Settlements!Fed.is = "/div"
  PROVE  MonthInv' /\ cards' = cards
<1>1. /\ place' = 4 /\ UNCHANGED <<month, shown, drifts>>
      /\ month \in Nat \ {0} /\ Settlements!Handle(Settlements!Fed)
  <2>1. place # 7 /\ place # 42 OBVIOUS
  <2>2. place' = place + 1 BY <2>1, NextPlace
  <2>3. place' = 4 BY <2>2
  <2> QED BY <2>1, <2>3, NextPlace
<1>2. /\ ContextsAreNested /\ LostIsRecorded
      /\ TextsAreTyped /\ LabelIsOwn /\ BadgeIsOwn /\ ItemIsOwn
      /\ CellsAreOwn /\ CardIsOwn /\ PendingIsCarried /\ MonthIsAsShown
  BY DEF MonthInv, TextsAreOwn
<1> USE DEF Settlements!IsOpen, Settlements!Closed, Settlements!Contexts
<1>3. Settlements!EndDiv
  BY <1>1 DEF Settlements!Handle, Settlements!Said, Settlements!Words, Settlements!Divs
<1>4. /\ depth = 1 /\ since \in [Settlements!Contexts -> Int]
      /\ Settlements!Ends("label") <=> Settlements!IsOpen("label")
      /\ ~Settlements!Ends("card") /\ ~Settlements!Ends("item")
      /\ ~Settlements!Ends("grid") /\ ~Settlements!Ends("badge")
  BY <1>2 DEF ContextsAreNested, MaybeOpen, DepthAt, Settlements!Ends, ItemPlaces
<1>5. /\ depth' = 0 /\ since' \in [Settlements!Contexts -> Int]
      /\ since'["label"] = -1 /\ since'["card"] = since["card"] /\ since'["badge"] = since["badge"]
      /\ since'["grid"] = since["grid"] /\ since'["item"] = since["item"]
      /\ pending' = IF Settlements!IsOpen("label") THEN text.label ELSE pending
      /\ UNCHANGED <<text, row, cell, card, cards>>
  BY <1>3, <1>4 DEF Settlements!EndDiv, Settlements!rowVars
<1>6. ContextsAreNested'
  BY <1>1, <1>2, <1>5 DEF ContextsAreNested, DepthAt, MaybeOpen, ItemPlaces, CellPlaces
<1>7. LostIsRecorded' BY <1>1 DEF LostIsRecorded
<1>8. TextsAreOwn'
  BY <1>1, <1>2, <1>5 DEF TextsAreOwn, ContextsAreNested, MaybeOpen, ItemPlaces,
     LabelIsOwn, BadgeIsOwn, ItemIsOwn, TextsAreTyped
<1>9. CellsAreOwn' /\ CardIsOwn' BY <1>1, <1>2, <1>5, KeptParts
<1>10. PendingIsCarried'
  <2>1. pending' \in Settlements!Texts BY <1>2, <1>5 DEF PendingIsCarried, TextsAreTyped
  <2>2. Carried(pending', month, month - 1)
    <3>1. CASE Settlements!IsOpen("label")
      <4>1. Says(text.label, month, "month") BY <1>2, <3>1 DEF LabelIsOwn
      <4>2. CASE text.label = Settlements!Text(month, "month")
        BY <1>1, <1>5, <3>1, <4>2 DEF Carried
      <4>3. ~Settlements!IsMonth(<<>>) /\ ~Settlements!IsMonth(Settlements!Text(month, "garbled"))
        BY DEF Settlements!IsMonth, Settlements!Is, Settlements!Text, Settlements!Piece
      <4>4. CASE text.label # Settlements!Text(month, "month")
        BY <1>5, <3>1, <4>1, <4>3, <4>4 DEF Carried, Says
      <4> QED BY <4>2, <4>4
    <3>2. CASE ~Settlements!IsOpen("label")
      <4>1. Settlements!Piece(month, "label") \in drifts BY <1>2, <3>2 DEF LostIsRecorded
      <4>2. Carried(pending, month - 1, month - 1) BY <1>2 DEF PendingIsCarried
      <4> QED BY <1>1, <1>5, <3>2, <4>1, <4>2 DEF Carried
    <3> QED BY <3>1, <3>2
  <2> QED BY <1>1, <2>1, <2>2 DEF PendingIsCarried, Carried, Settlements!Text, Settlements!Piece
<1>11. MonthIsAsShown'
  <2> SUFFICES ASSUME IsUnchanged(month)
               PROVE  (ContextsAreOpen /\ TextsAreAsShown /\ CellsAreAsShown /\ CardIsAsShown)'
    BY <1>1 DEF MonthIsAsShown, IsUnchanged
  <2>1. pending' = Settlements!Text(month, "month")
    BY <1>2, <1>5 DEF MonthIsAsShown, TextsAreAsShown, ContextsAreOpen
  <2> QED BY <1>1, <2>1 DEF ContextsAreOpen, TextsAreAsShown, CellsAreAsShown, CardIsAsShown, ItemPlaces,
     Settlements!Text, Settlements!Piece
<1> QED BY <1>5, <1>6, <1>7, <1>8, <1>9, <1>10, <1>11 DEF MonthInv

(* The end of a div that is no context, and of the grid.                   *)
LEMMA PlainIsClosed ==
  ASSUME PlaceIsKnown, MonthInv, Settlements!Parse, place \in {27, 41}, Settlements!Fed.is = "/div"
  PROVE  MonthInv' /\ cards' = cards
<1>1. /\ place' = place + 1 /\ UNCHANGED <<month, shown, drifts>>
      /\ month \in Nat \ {0} /\ Settlements!Handle(Settlements!Fed)
  <2>1. place # 7 /\ place # 42 OBVIOUS
  <2> QED BY <2>1, NextPlace
<1>2. /\ ContextsAreNested /\ LostIsRecorded
      /\ TextsAreTyped /\ LabelIsOwn /\ BadgeIsOwn /\ ItemIsOwn
      /\ CellsAreOwn /\ CardIsOwn /\ PendingIsCarried /\ MonthIsAsShown
  BY DEF MonthInv, TextsAreOwn
<1> USE DEF Settlements!IsOpen, Settlements!Closed, Settlements!Contexts
<1>3. Settlements!EndDiv
  BY <1>1 DEF Settlements!Handle, Settlements!Said, Settlements!Words, Settlements!Divs
<1>4. /\ depth = 2 /\ since \in [Settlements!Contexts -> Int]
      /\ Settlements!Ends("grid") <=> Settlements!IsOpen("grid")
      /\ ~Settlements!Ends("card") /\ ~Settlements!Ends("item")
      /\ ~Settlements!Ends("label") /\ ~Settlements!IsOpen("item") /\ ~Settlements!Ends("badge")
  BY <1>2 DEF ContextsAreNested, MaybeOpen, DepthAt, Settlements!Ends, ItemPlaces
<1>5. /\ depth' = 1 /\ since' \in [Settlements!Contexts -> Int]
      /\ since'["label"] = since["label"] /\ since'["card"] = since["card"]
      /\ since'["badge"] = since["badge"] /\ since'["grid"] = -1 /\ since'["item"] = since["item"]
      /\ UNCHANGED <<text, row, cell, pending, card, cards>>
  BY <1>3, <1>4 DEF Settlements!EndDiv, Settlements!rowVars
<1>6. ContextsAreNested'
  BY <1>1, <1>2, <1>4, <1>5 DEF ContextsAreNested, DepthAt, MaybeOpen, ItemPlaces, CellPlaces
<1>7. LostIsRecorded' BY <1>1, <1>2, <1>5 DEF LostIsRecorded, Settlements!Piece
<1>8. TextsAreOwn'
  BY <1>1, <1>2, <1>5 DEF TextsAreOwn, ContextsAreNested, MaybeOpen, ItemPlaces,
     LabelIsOwn, BadgeIsOwn, ItemIsOwn, TextsAreTyped
<1>9. CellsAreOwn' /\ CardIsOwn' /\ PendingIsCarried' BY <1>1, <1>2, <1>5, KeptParts
<1>10. MonthIsAsShown'
  <2> SUFFICES ASSUME IsUnchanged(month)
               PROVE  (ContextsAreOpen /\ TextsAreAsShown /\ CellsAreAsShown /\ CardIsAsShown)'
    BY <1>1 DEF MonthIsAsShown, IsUnchanged
  <2>1. ContextsAreOpen /\ TextsAreAsShown /\ CellsAreAsShown /\ CardIsAsShown
    BY <1>2 DEF MonthIsAsShown
  <2>2. ContextsAreOpen' BY <1>1, <1>5, <2>1 DEF ContextsAreOpen, ItemPlaces
  <2>3. TextsAreAsShown' /\ CellsAreAsShown' BY <1>1 DEF TextsAreAsShown, CellsAreAsShown
  <2>4. CardIsAsShown' BY <1>1, <1>5, <2>1 DEF CardIsAsShown, SoFar, Settlements!Text, Settlements!Piece
  <2> QED BY <2>2, <2>3, <2>4
<1> QED BY <1>5, <1>6, <1>7, <1>8, <1>9, <1>10 DEF MonthInv

(* An item's end gives the card the value, if it knows the word.           *)
LEMMA ItemIsClosed ==
  ASSUME PlaceIsKnown, MonthInv, Settlements!Parse, place \in {32, 36, 40}, Settlements!Fed.is = "/div"
  PROVE  MonthInv' /\ cards' = cards
<1>1. /\ place' = place + 1 /\ UNCHANGED <<month, shown, drifts>>
      /\ month \in Nat \ {0} /\ Settlements!Handle(Settlements!Fed)
  <2>1. place # 7 /\ place # 42 OBVIOUS
  <2> QED BY <2>1, NextPlace
<1>2. /\ ContextsAreNested /\ LostIsRecorded
      /\ TextsAreTyped /\ LabelIsOwn /\ BadgeIsOwn /\ ItemIsOwn
      /\ CellsAreOwn /\ CardIsOwn /\ PendingIsCarried /\ MonthIsAsShown
  BY DEF MonthInv, TextsAreOwn
<1> USE DEF Settlements!IsOpen, Settlements!Closed, Settlements!Contexts
<1>3. Settlements!EndDiv
  BY <1>1 DEF Settlements!Handle, Settlements!Said, Settlements!Words, Settlements!Divs
<1>4. /\ depth = 3 /\ since \in [Settlements!Contexts -> Int]
      /\ Settlements!Ends("item") <=> Settlements!IsOpen("item")
      /\ ~Settlements!Ends("card") /\ ~Settlements!Ends("grid")
      /\ ~Settlements!Ends("label") /\ ~Settlements!Ends("badge")
  BY <1>2 DEF ContextsAreNested, MaybeOpen, DepthAt, Settlements!Ends, ItemPlaces
<1>5. /\ depth' = 2 /\ since' \in [Settlements!Contexts -> Int]
      /\ since'["label"] = since["label"] /\ since'["card"] = since["card"]
      /\ since'["badge"] = since["badge"] /\ since'["grid"] = since["grid"] /\ since'["item"] = -1
      /\ card' = IF Settlements!IsOpen("item") THEN Settlements!WithItem(text.item) ELSE card
      /\ UNCHANGED <<text, row, cell, pending, cards>>
  BY <1>3, <1>4 DEF Settlements!EndDiv, Settlements!rowVars
<1>6. Settlements!IsOpen("item") => card \in Settlements!Cards /\ CardOf(card, month) /\ card # None
  BY <1>2 DEF ContextsAreNested, CardIsOwn, CardOf
<1> DEFINE word == IF place = 32 THEN "Kwota" ELSE IF place = 36 THEN "Saldo" ELSE "Termin"
           value == IF place = 32 THEN "amount" ELSE IF place = 36 THEN "saldo" ELSE "due"
<1>7. /\ DOMAIN Settlements!Field = {"Kwota", "Saldo", "Termin"}
      /\ Settlements!Field[word] = value /\ word \in {"Kwota", "Saldo", "Termin"}
  BY DEF Settlements!Field
<1>8. ASSUME Settlements!IsOpen("item")
      PROVE  /\ ItemSays(text.item, month, word, value)
             /\ \/ card' = card
                \/ card' = [card EXCEPT ![value] = Tail(text.item)] /\ Says(Tail(text.item), month, value)
             /\ text.item # <<>> /\ Head(text.item).is = word =>
                  card' = [card EXCEPT ![value] = Tail(text.item)]
  <2>1. ItemSays(text.item, month, word, value) BY <1>2, <1>8 DEF ItemIsOwn
  <2>2. card' = Settlements!WithItem(text.item) BY <1>5, <1>8
  <2> HIDE DEF word, value
  <2>3. CASE text.item # <<>> /\ Head(text.item).is \in {"Kwota", "Saldo", "Termin"}
    <3>1. Head(text.item).is = word /\ Says(Tail(text.item), month, value)
      BY <2>1, <2>3 DEF ItemSays
    <3>2. card' = [card EXCEPT ![value] = Tail(text.item)]
      BY <1>7, <2>2, <2>3, <3>1 DEF Settlements!WithItem
    <3> QED BY <2>1, <3>1, <3>2
  <2>4. CASE ~(text.item # <<>> /\ Head(text.item).is \in {"Kwota", "Saldo", "Termin"})
    <3>1. card' = card BY <1>7, <2>2, <2>4 DEF Settlements!WithItem
    <3> QED BY <1>7, <2>1, <2>4, <3>1
  <2> QED BY <2>3, <2>4
<1>9. ASSUME Settlements!IsOpen("item")
      PROVE  card' \in Settlements!Cards /\ CardOf(card', month)
  <2>1. CASE card' = card BY <1>6, <1>9, <2>1
  <2>2. ASSUME card' = [card EXCEPT ![value] = Tail(text.item)], Says(Tail(text.item), month, value)
        PROVE  CardOf(card', month)
    <3>1. Tail(text.item) \in Settlements!Texts
      <4>1. \A w \in {"amount", "saldo", "due", "garbled"} :
              Settlements!Text(month, w) \in Settlements!Texts
        BY <1>1 DEF Settlements!Text, Settlements!Texts, Settlements!Piece, Settlements!Said,
                    Settlements!Words
      <4>2. <<>> \in Settlements!Texts BY DEF Settlements!Texts
      <4> QED BY <2>2, <4>1, <4>2 DEF Says
    <3> DEFINE t == Tail(text.item)
    <3> HIDE DEF t
    <3>2. card' \in Settlements!Cards
      BY <1>6, <1>9, <2>2, <3>1 DEF Settlements!Cards, t
    <3>3. /\ card'.label = card.label /\ card'.paid = card.paid /\ card'.bill = card.bill
          /\ card'.rows = card.rows
          /\ Says(card'.amount, month, "amount") /\ Says(card'.saldo, month, "saldo")
          /\ Says(card'.due, month, "due")
      BY <1>6, <1>9, <2>2 DEF Settlements!Cards, CardOf
    <3> QED BY <1>6, <1>9, <3>2, <3>3 DEF CardOf
  <2> QED BY <1>8, <1>9, <2>1, <2>2 DEF CardOf
<1>10. Settlements!IsOpen("item") => card' # None BY <1>9, NoneIsNoValue
<1>11. ContextsAreNested'
  BY <1>1, <1>2, <1>4, <1>5, <1>10 DEF ContextsAreNested, DepthAt, MaybeOpen, ItemPlaces, CellPlaces
<1>12. LostIsRecorded' BY <1>1, <1>2, <1>5 DEF LostIsRecorded, Settlements!Piece
<1>13. TextsAreOwn'
  BY <1>1, <1>2, <1>5 DEF TextsAreOwn, ContextsAreNested, MaybeOpen, ItemPlaces,
     LabelIsOwn, BadgeIsOwn, ItemIsOwn, TextsAreTyped
<1>14. CellsAreOwn' /\ PendingIsCarried' BY <1>1, <1>2, <1>5, KeptParts
<1>15. CardIsOwn'
  <2>1. CASE Settlements!IsOpen("item")
    BY <1>1, <1>9, <2>1 DEF CardIsOwn, CardOf, Carried, Says, Settlements!Text, Settlements!Piece, Settlements!IsOf
  <2>2. CASE ~Settlements!IsOpen("item") BY <1>1, <1>2, <1>5, <2>2, KeptParts
  <2> QED BY <2>1, <2>2
<1>16. MonthIsAsShown'
  <2> SUFFICES ASSUME IsUnchanged(month)
               PROVE  (ContextsAreOpen /\ TextsAreAsShown /\ CellsAreAsShown /\ CardIsAsShown)'
    BY <1>1 DEF MonthIsAsShown, IsUnchanged
  <2>1. ContextsAreOpen /\ TextsAreAsShown /\ CellsAreAsShown /\ CardIsAsShown
    BY <1>2 DEF MonthIsAsShown
  <2>2. ContextsAreOpen' BY <1>1, <1>5, <2>1 DEF ContextsAreOpen, ItemPlaces
  <2>3. TextsAreAsShown' /\ CellsAreAsShown' BY <1>1 DEF TextsAreAsShown, CellsAreAsShown
  <2>4. text.item = TheItem(word, value) /\ Settlements!IsOpen("item")
    BY <2>1 DEF TextsAreAsShown, ContextsAreOpen, ItemPlaces
  <2>5. /\ text.item # <<>> /\ Head(text.item).is = word
        /\ Tail(text.item) = Settlements!Text(month, value)
    <3>1. \A w : Settlements!Piece(month, w).is = w BY DEF Settlements!Piece
    <3> HIDE DEF Settlements!Piece, word, value
    <3> QED BY <2>4, <3>1 DEF TheItem, Settlements!Text
  <2>6. card' = [card EXCEPT ![value] = Settlements!Text(month, value)] BY <1>8, <2>4, <2>5
  <2>7. card = SoFar BY <2>1 DEF CardIsAsShown
  <2>8. CardIsAsShown'
    <3> DEFINE of(w) == Settlements!Text(month, w)
               rows == << <<of("charge"), of("price")>> >>
    <3> HIDE DEF Settlements!Text, rows
    <3>1. shown'[month'].bare = shown[month].bare /\ shown[month].bare \in BOOLEAN
      <4>1. place # 42 OBVIOUS
      <4>2. shown[month].bare \in BOOLEAN BY <4>1, NextPlace
      <4> QED BY <1>1, <4>2
    <3>2. SoFar = [label |-> of("month"), paid |-> of("paid"),
                   amount |-> IF place = 32 THEN <<>> ELSE of("amount"),
                   saldo |-> IF place \in {32, 36} THEN <<>> ELSE of("saldo"), due |-> <<>>,
                   rows |-> IF shown[month].bare = TRUE THEN <<>> ELSE rows,
                   bill |-> IF shown[month].bare = TRUE THEN None ELSE month]
      <4>1. CASE shown[month].bare = TRUE BY <4>1 DEF SoFar
      <4>2. CASE shown[month].bare = FALSE BY <4>2 DEF SoFar, rows
      <4> QED BY <3>1, <4>1, <4>2
    <3>3. \A w : of(w)' = of(w) BY <1>1 DEF Settlements!Text, Settlements!Piece
    <3>4. SoFar' = [label |-> of("month"), paid |-> of("paid"), amount |-> of("amount"),
                    saldo |-> IF place = 32 THEN <<>> ELSE of("saldo"),
                    due |-> IF place = 40 THEN of("due") ELSE <<>>,
                    rows |-> IF shown[month].bare = TRUE THEN <<>> ELSE rows,
                    bill |-> IF shown[month].bare = TRUE THEN None ELSE month]
      <4>1. CASE shown[month].bare = TRUE BY <1>1, <3>1, <3>3, <4>1 DEF SoFar
      <4>2. CASE shown[month].bare = FALSE BY <1>1, <3>1, <3>3, <4>2 DEF SoFar, rows
      <4> QED BY <3>1, <4>1, <4>2
    <3>5. card' = [SoFar EXCEPT ![value] = of(value)] BY <2>6, <2>7
    <3>6. SoFar' = [SoFar EXCEPT ![value] = of(value)]
      <4> DEFINE charges == IF shown[month].bare = TRUE THEN <<>> ELSE rows
                 invoice == IF shown[month].bare = TRUE THEN None ELSE month
      <4> HIDE DEF charges, invoice
      <4>1. SoFar = [label |-> of("month"), paid |-> of("paid"),
                     amount |-> IF place = 32 THEN <<>> ELSE of("amount"),
                     saldo |-> IF place \in {32, 36} THEN <<>> ELSE of("saldo"), due |-> <<>>,
                     rows |-> charges, bill |-> invoice]
        BY <3>2 DEF charges, invoice
      <4>2. SoFar' = [label |-> of("month"), paid |-> of("paid"), amount |-> of("amount"),
                      saldo |-> IF place = 32 THEN <<>> ELSE of("saldo"),
                      due |-> IF place = 40 THEN of("due") ELSE <<>>,
                      rows |-> charges, bill |-> invoice]
        BY <3>4 DEF charges, invoice
      <4> HIDE DEF SoFar, of
      <4>3. CASE place = 32 BY <4>1, <4>2, <4>3
      <4>4. CASE place = 36 BY <4>1, <4>2, <4>4
      <4>5. CASE place = 40 BY <4>1, <4>2, <4>5
      <4> QED BY <4>3, <4>4, <4>5
    <3>7. card' = SoFar' BY <3>5, <3>6
    <3> QED BY <3>7 DEF CardIsAsShown
  <2> QED BY <2>2, <2>3, <2>8
<1> QED BY <1>5, <1>11, <1>12, <1>13, <1>14, <1>15, <1>16 DEF MonthInv

(* The badge's text is what the card is paid by.                           *)
LEMMA BadgeIsClosed ==
  ASSUME PlaceIsKnown, MonthInv, Settlements!Parse, place = 7, Settlements!Fed.is = "/span"
  PROVE  MonthInv' /\ cards' = cards
<1>1. /\ place' \in {8, 28} /\ UNCHANGED <<month, shown, drifts>>
      /\ place' = 28 => shown[month].bare = TRUE
      /\ place' = 8 => shown[month].bare = FALSE
      /\ month \in Nat \ {0} /\ Settlements!Handle(Settlements!Fed)
  <2>1. place # 42 OBVIOUS
  <2>2. place' = 8 \/ (place' = 28 /\ shown[month].bare = TRUE)
    <3>1. place' = place + 1 \/ (place' = 28 /\ shown[month].bare = TRUE) BY <2>1, NextPlace
    <3>2. place + 1 = 8 OBVIOUS
    <3> QED BY <3>1, <3>2
  <2>3. place' = 8 => shown[month].bare = FALSE
    <3>1. PlaceIsKnown' /\ month' = month /\ shown' = shown BY <2>1, NextPlace
    <3>2. place' \in 8 .. 27 => shown'[month'].bare = FALSE BY <3>1 DEF PlaceIsKnown
    <3> QED BY <3>1, <3>2
  <2>4. UNCHANGED <<month, shown, drifts>> /\ month \in Nat \ {0}
        /\ Settlements!Handle(Settlements!Fed)
    BY <2>1, NextPlace
  <2>5. place' \in {8, 28} BY <2>2
  <2>6. place' = 28 => shown[month].bare = TRUE BY <2>2
  <2> QED BY <2>3, <2>4, <2>5, <2>6
<1>2. /\ ContextsAreNested /\ LostIsRecorded
      /\ TextsAreTyped /\ LabelIsOwn /\ BadgeIsOwn /\ ItemIsOwn
      /\ CellsAreOwn /\ CardIsOwn /\ PendingIsCarried /\ MonthIsAsShown
  BY DEF MonthInv, TextsAreOwn
<1> USE DEF Settlements!IsOpen, Settlements!Closed, Settlements!Contexts
<1>3. /\ Settlements!IsOpen("badge") =>
           /\ card' = [card EXCEPT !.paid = text.badge] /\ since' = [since EXCEPT !["badge"] = -1]
           /\ card # None
      /\ ~Settlements!IsOpen("badge") => UNCHANGED <<card, since>>
      /\ UNCHANGED <<depth, text, row, cell, pending, cards>>
  <2>1. Settlements!EndSpan
    BY <1>1 DEF Settlements!Handle, Settlements!Said, Settlements!Words, Settlements!Divs
  <2>2. Settlements!Ends("badge") <=> Settlements!IsOpen("badge")
    BY <1>2 DEF ContextsAreNested, MaybeOpen, DepthAt, Settlements!Ends
  <2>3. Settlements!IsOpen("badge") => card # None BY <1>2 DEF ContextsAreNested
  <2> QED BY <2>1, <2>2, <2>3 DEF Settlements!EndSpan, Settlements!rowVars
<1>4. /\ since' \in [Settlements!Contexts -> Int] /\ since'["badge"] = -1
      /\ since'["label"] = since["label"] /\ since'["card"] = since["card"]
      /\ since'["grid"] = since["grid"] /\ since'["item"] = since["item"]
  BY <1>2, <1>3 DEF ContextsAreNested
<1>5. /\ card # None => /\ CardOf(card, month) /\ CardOf(card', month) /\ card' # None
                        /\ card' = card \/ card' = [card EXCEPT !.paid = text.badge]
      /\ card = None => card' = None
  <2>1. card # None => CardOf(card, month) BY <1>2 DEF CardIsOwn
  <2>2. ASSUME Settlements!IsOpen("badge") PROVE CardOf(card', month)
    <3>1. /\ card \in Settlements!Cards /\ CardOf(card, month)
          /\ text.badge \in Settlements!Texts /\ Says(text.badge, month, "paid")
      BY <1>2, <1>3, <2>1, <2>2 DEF TextsAreTyped, BadgeIsOwn, CardOf
    <3>2. card' \in Settlements!Cards BY <1>3, <2>2, <3>1 DEF Settlements!Cards
    <3>3. /\ card'.label = card.label /\ card'.paid = text.badge /\ card'.amount = card.amount
          /\ card'.saldo = card.saldo /\ card'.due = card.due /\ card'.rows = card.rows
          /\ card'.bill = card.bill
      BY <1>3, <2>2, <3>1 DEF Settlements!Cards
    <3> QED BY <3>1, <3>2, <3>3 DEF CardOf
  <2>3. card # None => CardOf(card', month) BY <1>3, <2>1, <2>2
  <2>4. card # None => card' # None BY <2>3, NoneIsNoValue DEF CardOf
  <2> QED BY <1>3, <2>1, <2>3, <2>4
<1>6. ContextsAreNested'
  BY <1>1, <1>2, <1>3, <1>4, <1>5 DEF ContextsAreNested, DepthAt, MaybeOpen, ItemPlaces, CellPlaces
<1>7. LostIsRecorded' BY <1>1, <1>2, <1>4 DEF LostIsRecorded, Settlements!Piece
<1>8. TextsAreOwn'
  BY <1>1, <1>2, <1>3, <1>4 DEF TextsAreOwn, ContextsAreNested, MaybeOpen, ItemPlaces,
     LabelIsOwn, BadgeIsOwn, ItemIsOwn, TextsAreTyped
<1>9. CellsAreOwn' /\ PendingIsCarried' BY <1>1, <1>2, <1>3, KeptParts
<1>10. CardIsOwn'
  BY <1>1, <1>5 DEF CardIsOwn, CardOf, Carried, Says, Settlements!Text, Settlements!Piece,
                    Settlements!IsOf
<1>11. MonthIsAsShown'
  <2> SUFFICES ASSUME IsUnchanged(month)
               PROVE  (ContextsAreOpen /\ TextsAreAsShown /\ CellsAreAsShown /\ CardIsAsShown)'
    BY <1>1 DEF MonthIsAsShown, IsUnchanged
  <2>1. ContextsAreOpen /\ TextsAreAsShown /\ CellsAreAsShown /\ CardIsAsShown
    BY <1>2 DEF MonthIsAsShown
  <2>2. ContextsAreOpen' BY <1>1, <1>4, <2>1 DEF ContextsAreOpen, ItemPlaces
  <2>3. TextsAreAsShown' /\ CellsAreAsShown' BY <1>1 DEF TextsAreAsShown, CellsAreAsShown
  <2>4. CardIsAsShown'
    <3>1. card = SoFar /\ Settlements!IsOpen("badge") BY <2>1 DEF CardIsAsShown, ContextsAreOpen
    <3>2. text.badge = Settlements!Text(month, "paid") BY <2>1 DEF TextsAreAsShown
    <3>3. card' = [SoFar EXCEPT !.paid = Settlements!Text(month, "paid")] BY <1>3, <3>1, <3>2
    <3>4. SoFar' = [SoFar EXCEPT !.paid = Settlements!Text(month, "paid")]
      <4>1. CASE place' = 8 BY <1>1, <4>1 DEF SoFar, Settlements!Text, Settlements!Piece
      <4>2. CASE place' = 28 BY <1>1, <4>2 DEF SoFar, Settlements!Text, Settlements!Piece
      <4> QED BY <1>1, <4>1, <4>2
    <3> QED BY <3>3, <3>4 DEF CardIsAsShown
  <2> QED BY <2>2, <2>3, <2>4
<1> QED BY <1>3, <1>6, <1>7, <1>8, <1>9, <1>10, <1>11 DEF MonthInv

(* A cell's end gives the row its text.                                    *)
LEMMA CellIsClosed ==
  ASSUME PlaceIsKnown, MonthInv, Settlements!Parse, place \in {13, 17, 20, 25},
         Settlements!Fed.is = "/td"
  PROVE  MonthInv' /\ cards' = cards
<1>1. /\ place' = place + 1 /\ UNCHANGED <<month, shown, drifts>>
      /\ month \in Nat \ {0} /\ Settlements!Handle(Settlements!Fed)
  <2>1. place # 7 /\ place # 42 OBVIOUS
  <2> QED BY <2>1, NextPlace
<1>2. /\ ContextsAreNested /\ LostIsRecorded
      /\ TextsAreTyped /\ LabelIsOwn /\ BadgeIsOwn /\ ItemIsOwn
      /\ CellsAreOwn /\ CardIsOwn /\ PendingIsCarried /\ MonthIsAsShown
  BY DEF MonthInv, TextsAreOwn
<1> USE DEF Settlements!IsOpen, Settlements!Closed, Settlements!Contexts
<1>3. /\ row' = IF row # None /\ cell # None THEN Append(row, cell) ELSE row
      /\ cell' = None
      /\ UNCHANGED <<depth, since, text, pending, card, cards>>
  BY <1>1 DEF Settlements!Handle, Settlements!Said, Settlements!Words, Settlements!Divs,
              Settlements!EndCell, Settlements!cardVars
<1>4. ContextsAreNested'
  BY <1>1, <1>2, <1>3 DEF ContextsAreNested, DepthAt, MaybeOpen, ItemPlaces, CellPlaces
<1>5. LostIsRecorded' BY <1>1, <1>2, <1>3 DEF LostIsRecorded, Settlements!Piece
<1>6. TextsAreOwn'
  BY <1>1, <1>2, <1>3 DEF TextsAreOwn, ContextsAreNested, MaybeOpen, ItemPlaces,
     LabelIsOwn, BadgeIsOwn, ItemIsOwn, TextsAreTyped
<1>7. CellsAreOwn'
  <2>1. row # None /\ cell # None => Append(row, cell) \in Seq(Seq(PiecesOf(month)))
    BY <1>2 DEF CellsAreOwn
  <2> QED BY <1>1, <1>2, <1>3, <2>1 DEF CellsAreOwn, PiecesOf
<1>8. CardIsOwn' /\ PendingIsCarried' BY <1>1, <1>2, <1>3, KeptParts
<1>9. MonthIsAsShown'
  <2> SUFFICES ASSUME IsUnchanged(month)
               PROVE  (ContextsAreOpen /\ TextsAreAsShown /\ CellsAreAsShown /\ CardIsAsShown)'
    BY <1>1 DEF MonthIsAsShown, IsUnchanged
  <2>1. ContextsAreOpen /\ TextsAreAsShown /\ CellsAreAsShown /\ CardIsAsShown
    BY <1>2 DEF MonthIsAsShown
  <2>2. ContextsAreOpen' BY <1>1, <1>3, <2>1 DEF ContextsAreOpen, ItemPlaces
  <2>3. TextsAreAsShown' BY <1>1 DEF TextsAreAsShown
  <2>4. CellsAreAsShown'
    <3> DEFINE charge == Settlements!Text(month, "charge")
               price == Settlements!Text(month, "price")
    <3>1. /\ place = 17 => row = <<>> /\ cell = charge
          /\ place = 20 => row = <<charge>> /\ cell = price
          /\ place = 25 => row = <<>> /\ cell = <<>>
      BY <2>1 DEF CellsAreAsShown
    <3>2. charge' = charge /\ price' = price
      BY <1>1 DEF Settlements!Text, Settlements!Piece
    <3>3. charge \in Settlements!Texts /\ price \in Settlements!Texts
      BY <1>1 DEF Settlements!Text, Settlements!Texts, Settlements!Piece, Settlements!Said,
                  Settlements!Words
    <3> HIDE DEF charge, price
    <3>4. None # charge /\ None # price /\ None # <<>> /\ None # <<charge>>
      <4>1. <<charge>> \in Seq(Settlements!Texts)
        <5> HIDE DEF Settlements!Texts
        <5> QED BY <3>3
      <4> QED BY <3>3, <4>1, NoneIsNoValue
    <3>5. place = 17 => row' = <<charge>> BY <1>3, <3>1, <3>4
    <3>6. place = 20 => row' = <<charge, price>> BY <1>3, <3>1, <3>4, AppendOne
    <3>7. place = 25 => row' = << <<>> >> BY <1>3, <3>1, <3>4
    <3> QED BY <1>1, <3>2, <3>5, <3>6, <3>7 DEF CellsAreAsShown, charge, price
  <2>5. CardIsAsShown'
    BY <1>1, <1>3, <2>1 DEF CardIsAsShown, SoFar, Settlements!Text, Settlements!Piece
  <2> QED BY <2>2, <2>3, <2>4, <2>5
<1> QED BY <1>3, <1>4, <1>5, <1>6, <1>7, <1>8, <1>9 DEF MonthInv

(* A row's end gives the card a charge, if the row has one.                *)
LEMMA RowIsClosed ==
  ASSUME PlaceIsKnown, MonthInv, Settlements!Parse, place \in {21, 26}, Settlements!Fed.is = "/tr"
  PROVE  MonthInv' /\ cards' = cards
<1>1. /\ place' = place + 1 /\ UNCHANGED <<month, shown, drifts>>
      /\ month \in Nat \ {0} /\ Settlements!Handle(Settlements!Fed)
  <2>1. place # 7 /\ place # 42 OBVIOUS
  <2> QED BY <2>1, NextPlace
<1>2. /\ ContextsAreNested /\ LostIsRecorded
      /\ TextsAreTyped /\ LabelIsOwn /\ BadgeIsOwn /\ ItemIsOwn
      /\ CellsAreOwn /\ CardIsOwn /\ PendingIsCarried /\ MonthIsAsShown
  BY DEF MonthInv, TextsAreOwn
<1> USE DEF Settlements!IsOpen, Settlements!Closed, Settlements!Contexts
<1> DEFINE IsCharge == /\ card # None /\ row # None /\ Len(row) >= 2
                       /\ row[1] # <<>> /\ row[2] # <<>>
           charge == <<row[1], row[2]>>
<1>3. /\ row' = None
      /\ card' = IF IsCharge THEN [card EXCEPT !.rows = Append(@, charge)] ELSE card
      /\ UNCHANGED <<depth, since, text, cell, pending, cards>>
  BY <1>1 DEF Settlements!Handle, Settlements!Said, Settlements!Words, Settlements!Divs,
              Settlements!EndRow
<1>4. IsCharge => charge \in Settlements!Texts \X Settlements!Texts
                  /\ Settlements!IsOf(month, charge[1]) /\ Settlements!IsOf(month, charge[2])
  <2> SUFFICES ASSUME IsCharge PROVE charge \in Settlements!Texts \X Settlements!Texts
                 /\ Settlements!IsOf(month, charge[1]) /\ Settlements!IsOf(month, charge[2])
    OBVIOUS
  <2>1. row[1] \in Seq(PiecesOf(month)) /\ row[2] \in Seq(PiecesOf(month))
    BY <1>2 DEF CellsAreOwn
  <2>2. \A t \in Seq(PiecesOf(month)) : t \in Settlements!Texts /\ Settlements!IsOf(month, t)
    <3>1. \A p \in PiecesOf(month) : p.of = month /\ p \in [of : Nat, is : Settlements!Said]
      BY <1>1 DEF PiecesOf
    <3> DEFINE Pieces == [of : Nat, is : Settlements!Said]
    <3> HIDE DEF PiecesOf, Pieces
    <3> SUFFICES ASSUME NEW t \in Seq(PiecesOf(month))
                 PROVE  t \in Seq(Pieces) /\ \A k \in DOMAIN t : t[k].of = month
      BY DEF Settlements!Texts, Settlements!IsOf, Pieces
    <3>2. t \in [1 .. Len(t) -> PiecesOf(month)] /\ Len(t) \in Nat OBVIOUS
    <3>3. \A k \in 1 .. Len(t) : t[k] \in Pieces /\ t[k].of = month
      BY <3>1, <3>2 DEF Pieces
    <3>4. t \in [1 .. Len(t) -> Pieces] BY <3>2, <3>3
    <3> QED BY <3>2, <3>3, <3>4
  <2> QED BY <2>1, <2>2 DEF charge
<1> HIDE DEF charge
<1>5. card # None =>
        /\ card' \in Settlements!Cards /\ card' # None /\ card \in Settlements!Cards
        /\ card'.label = card.label /\ card'.paid = card.paid /\ card'.amount = card.amount
        /\ card'.saldo = card.saldo /\ card'.due = card.due /\ card'.bill = card.bill
        /\ card'.rows = IF IsCharge THEN Append(card.rows, charge) ELSE card.rows
  <2>1. card # None => card \in Settlements!Cards BY <1>2 DEF CardIsOwn, CardOf
  <2>2. CASE ~IsCharge BY <1>3, <2>1, <2>2
  <2>3. CASE IsCharge
    <3>1. card' = [card EXCEPT !.rows = Append(@, charge)] /\ card \in Settlements!Cards
      BY <1>3, <2>1, <2>3
    <3>2. Append(card.rows, charge) \in Seq(Settlements!Texts \X Settlements!Texts)
      <4>1. card.rows \in Seq(Settlements!Texts \X Settlements!Texts)
        BY <3>1 DEF Settlements!Cards
      <4> HIDE DEF Settlements!Texts
      <4> QED BY <1>4, <2>3, <4>1
    <3> HIDE DEF Settlements!Texts, IsCharge
    <3>3. card' \in Settlements!Cards BY <3>1, <3>2 DEF Settlements!Cards
    <3>4. card' # None BY <3>3, NoneIsNoValue
    <3> QED BY <2>3, <3>1, <3>3, <3>4 DEF Settlements!Cards
  <2> QED BY <2>2, <2>3
<1> HIDE DEF IsCharge
<1>6. /\ card' = None <=> card = None
      /\ row' = None /\ UNCHANGED <<depth, since, text, cell, pending, cards>>
  <2>1. card = None => card' = None BY <1>3 DEF IsCharge
  <2> QED BY <1>3, <1>5, <2>1
<1>7. ContextsAreNested'
  BY <1>1, <1>2, <1>6
  DEF ContextsAreNested, DepthAt, MaybeOpen, ItemPlaces, CellPlaces
<1>8. LostIsRecorded' BY <1>1, <1>2, <1>6 DEF LostIsRecorded, Settlements!Piece
<1>9. TextsAreOwn'
  BY <1>1, <1>2, <1>6 DEF TextsAreOwn, ContextsAreNested, MaybeOpen, ItemPlaces,
     LabelIsOwn, BadgeIsOwn, ItemIsOwn, TextsAreTyped
<1>10. CellsAreOwn' BY <1>1, <1>2, <1>6 DEF CellsAreOwn, PiecesOf, ContextsAreNested, CellPlaces
<1>11. PendingIsCarried' BY <1>1, <1>2, <1>6, KeptParts
<1>12. CardIsOwn'
  <2> SUFFICES ASSUME card # None PROVE CardIsOwn'
    BY <1>6 DEF CardIsOwn
  <2>1. CardOf(card, month) BY <1>2 DEF CardIsOwn
  <2>2. \A r \in DOMAIN card'.rows : /\ Settlements!IsOf(month, card'.rows[r][1])
                                     /\ Settlements!IsOf(month, card'.rows[r][2])
    <3>1. CASE ~IsCharge BY <1>5, <2>1, <3>1 DEF CardOf
    <3>2. CASE IsCharge
      <4>1. card.rows \in Seq(Settlements!Texts \X Settlements!Texts)
        BY <1>5 DEF Settlements!Cards
      <4>2. ASSUME NEW r \in DOMAIN card'.rows
            PROVE  card'.rows[r] = charge \/ (r \in DOMAIN card.rows /\ card'.rows[r] = card.rows[r])
        <5>1. card'.rows = Append(card.rows, charge) BY <1>5, <3>2
        <5> HIDE DEF Settlements!Texts
        <5> QED BY <4>1, <4>2, <5>1
      <4> QED BY <1>4, <2>1, <3>2, <4>2 DEF CardOf
    <3> QED BY <3>1, <3>2
  <2>3. CardOf(card', month) BY <1>5, <2>1, <2>2 DEF CardOf
  <2> QED BY <1>1, <2>3 DEF CardIsOwn, CardOf, Carried, Says, Settlements!Text, Settlements!Piece,
                            Settlements!IsOf
<1>13. MonthIsAsShown'
  <2> SUFFICES ASSUME IsUnchanged(month)
               PROVE  (ContextsAreOpen /\ TextsAreAsShown /\ CellsAreAsShown /\ CardIsAsShown)'
    BY <1>1 DEF MonthIsAsShown, IsUnchanged
  <2>1. ContextsAreOpen /\ TextsAreAsShown /\ CellsAreAsShown /\ CardIsAsShown
    BY <1>2 DEF MonthIsAsShown
  <2>2. ContextsAreOpen' BY <1>1, <1>6, <2>1 DEF ContextsAreOpen, ItemPlaces
  <2>3. TextsAreAsShown' /\ CellsAreAsShown' BY <1>1 DEF TextsAreAsShown, CellsAreAsShown
  <2>4. CardIsAsShown'
    <3> DEFINE word(w) == Settlements!Text(month, w)
    <3>1. card = SoFar /\ card # None
      BY <1>2, <2>1 DEF CardIsAsShown, ContextsAreOpen, ContextsAreNested
    <3>2. shown[month].bare = FALSE
      <4>1. place \in 8 .. 27 => shown[month].bare = FALSE BY DEF PlaceIsKnown
      <4> QED BY <4>1
    <3>3. CASE place = 26
      <4>1. ~IsCharge BY <2>1, <3>3 DEF CellsAreAsShown, IsCharge
      <4>2. card' = SoFar BY <1>3, <3>1, <4>1
      <4>3. SoFar' = SoFar BY <1>1, <3>3 DEF SoFar, Settlements!Text, Settlements!Piece
      <4> QED BY <4>2, <4>3 DEF CardIsAsShown
    <3>4. CASE place = 21
      <4>1. row = <<word("charge"), word("price")>> BY <2>1, <3>4 DEF CellsAreAsShown
      <4>2. word("charge") # <<>> /\ word("price") # <<>> BY DEF Settlements!Text
      <4>3. word("charge") \in Settlements!Texts /\ word("price") \in Settlements!Texts
        BY <1>1 DEF Settlements!Text, Settlements!Texts, Settlements!Piece, Settlements!Said,
                    Settlements!Words
      <4> HIDE DEF word
      <4>4. row \in Seq(Settlements!Texts)
        <5> HIDE DEF Settlements!Texts
        <5> QED BY <4>1, <4>3
      <4>5. IsCharge /\ charge = <<word("charge"), word("price")>>
        <5>1. row # None BY <4>4, NoneIsNoValue
        <5> QED BY <3>1, <4>1, <4>2, <5>1 DEF IsCharge, charge
      <4>6. SoFar.rows = <<>> BY <3>4 DEF SoFar
      <4>7. card' = [SoFar EXCEPT !.rows = <<charge>>]
        <5>1. Append(<<>>, charge) = <<charge>> OBVIOUS
        <5>2. card' = [SoFar EXCEPT !.rows = Append(SoFar.rows, charge)] BY <1>3, <3>1, <4>5
        <5> QED BY <4>6, <5>1, <5>2
      <4>8. SoFar' = [SoFar EXCEPT !.rows = <<charge>>]
        BY <1>1, <3>2, <3>4, <4>5 DEF SoFar, word, Settlements!Text, Settlements!Piece
      <4> QED BY <4>7, <4>8 DEF CardIsAsShown
    <3> QED BY <3>3, <3>4
  <2> QED BY <2>2, <2>3, <2>4
<1> QED BY <1>3, <1>7, <1>8, <1>9, <1>10, <1>11, <1>12, <1>13 DEF MonthInv

(* What is said of a finished card stays true if no other piece changes.   *)
LEMMA CardIsKept ==
  ASSUME drifts' = drifts, shown' = shown
  PROVE  /\ \A c, i : CardOf(c, i)' <=> CardOf(c, i)
         /\ \A i : Settlements!Shows(i)' = Settlements!Shows(i) /\ (IsUnchanged(i)' <=> IsUnchanged(i))
         /\ \A i : Settlements!Piece(i, "card")' = Settlements!Piece(i, "card")
  BY DEF CardOf, Carried, Says, Settlements!Text, Settlements!Piece, Settlements!IsOf,
         Settlements!Shows, IsUnchanged
LEMMA CardsAreKept ==
  ASSUME drifts' = drifts, shown' = shown, cards' = cards, month' = month
  PROVE  (CardsAreOfMonths => CardsAreOfMonths') /\ (MonthsHaveCards => MonthsHaveCards')
<1>1. ASSUME CardsAreOfMonths PROVE CardsAreOfMonths'
  <2>1. ASSUME NEW k \in DOMAIN cards, NEW c, c = cards[k]
        PROVE  \E i \in 1 .. month - 1 : CardOf(c, i)'
    BY <1>1, <2>1, CardIsKept DEF CardsAreOfMonths
  <2> QED BY <1>1, <2>1 DEF CardsAreOfMonths
<1>2. ASSUME MonthsHaveCards PROVE MonthsHaveCards'
  <2>1. ASSUME NEW i \in 1 .. month - 1, NEW k \in DOMAIN cards, NEW c, c = cards[k], CardOf(c, i)
        PROVE  CardOf(c, i)'
    BY <2>1, CardIsKept
  <2>2. \A i \in 1 .. month - 1 : \A k \in DOMAIN cards : CardOf(cards[k], i) => CardOf(cards[k], i)'
    BY <2>1
  <2> QED BY <1>2, <2>2, CardIsKept DEF MonthsHaveCards
<1> QED BY <1>1, <1>2

(* A month's end: an open card is finished, and nothing else is open.      *)
LEMMA MonthIsClosed ==
  ASSUME PageInv, Settlements!Parse, place = 42
  PROVE  PageInv'
<1>1. /\ Settlements!HasMore /\ Settlements!Handle(Settlements!Fed)
      /\ month' = month + 1 /\ place' = 1 /\ fedAs' = "itself"
      /\ UNCHANGED <<shown, drifts, outcome>>
  BY DEF Settlements!Parse, Settlements!LastPlace
<1>2. /\ PlaceIsKnown /\ ContextsAreNested /\ LostIsRecorded
      /\ TextsAreTyped /\ CardIsOwn /\ PendingIsCarried /\ MonthIsAsShown
      /\ CardsAreOfMonths /\ MonthsHaveCards /\ OutcomeIsLast
  BY DEF PageInv, TextsAreOwn
<1>3. PICK n \in Nat : /\ DOMAIN shown = 1 .. n /\ month \in 1 .. n
                       /\ \A i \in 1 .. n : shown[i].bare \in BOOLEAN
  BY <1>1, <1>2 DEF PlaceIsKnown, Settlements!HasMore
<1>4. Settlements!EndDiv
  <2>1. Settlements!Fed = Settlements!Shown
    <3>1. place \notin DivPlaces \cup WordPlaces \cup ElementPlaces
      BY DEF DivPlaces, WordPlaces, ElementPlaces
    <3> QED BY <1>1, <1>2, <3>1, PieceIsFed
  <2>2. Settlements!Fed.is = "/div" BY <1>1, <1>2, <2>1, PieceIsFed, TemplateIsFixed
  <2> QED BY <1>1, <2>2 DEF Settlements!Handle, Settlements!Said, Settlements!Words, Settlements!Divs
<1> USE DEF Settlements!IsOpen, Settlements!Closed, Settlements!Contexts
<1>5. /\ depth = 1 /\ since \in [Settlements!Contexts -> Int] /\ row = None /\ cell = None
      /\ Settlements!Ends("card") <=> Settlements!IsOpen("card")
      /\ ~Settlements!IsOpen("item") /\ ~Settlements!IsOpen("grid")
      /\ ~Settlements!IsOpen("label") /\ ~Settlements!IsOpen("badge")
      /\ card # None <=> Settlements!IsOpen("card")
  BY <1>2 DEF ContextsAreNested, MaybeOpen, DepthAt, Settlements!Ends, ItemPlaces, CellPlaces
<1>6. /\ depth' = 0 /\ since' \in [Settlements!Contexts -> Int]
      /\ since'["label"] = -1 /\ since'["card"] = -1 /\ since'["badge"] = -1
      /\ since'["grid"] = -1 /\ since'["item"] = -1
      /\ card' = None
      /\ card # None => cards' = Append(cards, card)
      /\ card = None => cards' = cards
      /\ UNCHANGED <<text, row, cell, pending>>
  BY <1>4, <1>5 DEF Settlements!EndDiv, Settlements!Ends, Settlements!rowVars
<1>7. PlaceIsKnown' BY <1>1, <1>3 DEF PlaceIsKnown, Settlements!LastPlace
<1>8. ContextsAreNested' BY <1>1, <1>5, <1>6 DEF ContextsAreNested, MaybeOpen, DepthAt
<1>9. LostIsRecorded' /\ CellsAreOwn' /\ CardIsOwn'
  BY <1>1, <1>5, <1>6 DEF LostIsRecorded, CellsAreOwn, CardIsOwn
<1>10. TextsAreOwn'
  BY <1>2, <1>6 DEF TextsAreOwn, TextsAreTyped, LabelIsOwn, BadgeIsOwn, ItemIsOwn
<1>11. PendingIsCarried'
  <2>1. Carried(pending, month, month) BY <1>2 DEF PendingIsCarried
  <2>2. month' - 1 = month BY <1>1, <1>3
  <2> QED BY <1>1, <1>2, <1>6, <2>1, <2>2
      DEF PendingIsCarried, Carried, Settlements!Text, Settlements!Piece
<1>12. MonthIsAsShown'
  BY <1>1 DEF MonthIsAsShown, ContextsAreOpen, TextsAreAsShown, CellsAreAsShown, CardIsAsShown,
              ItemPlaces
<1>13. /\ \A c, i : CardOf(c, i)' <=> CardOf(c, i)
       /\ \A i : Settlements!Shows(i)' = Settlements!Shows(i) /\ (IsUnchanged(i)' <=> IsUnchanged(i))
       /\ \A i : Settlements!Piece(i, "card")' = Settlements!Piece(i, "card")
  BY <1>1, CardIsKept
<1>14. /\ cards \in Seq(Settlements!Cards) /\ cards' \in Seq(Settlements!Cards)
       /\ \A k \in DOMAIN cards : k \in DOMAIN cards' /\ cards'[k] = cards[k]
       /\ \A k \in DOMAIN cards' : k \in DOMAIN cards \/ (card # None /\ cards'[k] = card)
       /\ card # None => \E k \in DOMAIN cards' : cards'[k] = card
       /\ card # None => CardOf(card, month)
  <2>1. cards \in Seq(Settlements!Cards) /\ (card # None => CardOf(card, month))
    BY <1>2 DEF CardsAreOfMonths, CardIsOwn
  <2>2. card # None => card \in Settlements!Cards BY <2>1 DEF CardOf
  <2> HIDE DEF Settlements!Cards
  <2>3. CASE card = None BY <1>6, <2>1, <2>3
  <2>4. CASE card # None
    <3>1. /\ cards' \in Seq(Settlements!Cards) /\ Len(cards') = Len(cards) + 1
          /\ cards'[Len(cards) + 1] = card /\ Len(cards) \in Nat
          /\ \A k \in 1 .. Len(cards) : cards'[k] = cards[k]
          /\ DOMAIN cards' = 1 .. Len(cards) + 1 /\ DOMAIN cards = 1 .. Len(cards)
      BY <1>6, <2>1, <2>2, <2>4
    <3>2. Len(cards) + 1 \in DOMAIN cards' BY <3>1
    <3>3. \A k \in DOMAIN cards : k \in DOMAIN cards' /\ cards'[k] = cards[k] BY <3>1
    <3>4. \A k \in DOMAIN cards' : k \in DOMAIN cards \/ cards'[k] = card BY <3>1
    <3>5. \E k \in DOMAIN cards' : cards'[k] = card BY <3>1, <3>2
    <3> QED BY <2>1, <2>4, <3>1, <3>3, <3>4, <3>5
  <2> QED BY <2>3, <2>4
<1>15. CardsAreOfMonths'
  <2>1. ASSUME NEW k \in DOMAIN cards', NEW c, c = cards'[k]
        PROVE  \E i \in 1 .. month' - 1 : CardOf(c, i)'
    <3>1. CASE k \in DOMAIN cards
      <4>1. PICK i \in 1 .. month - 1 : CardOf(cards[k], i) BY <1>2, <3>1 DEF CardsAreOfMonths
      <4>2. i \in 1 .. month' - 1 BY <1>1, <1>3
      <4>3. CardOf(c, i) BY <1>14, <2>1, <3>1, <4>1
      <4> QED BY <1>13, <4>2, <4>3
    <3>2. CASE k \notin DOMAIN cards
      <4>1. CardOf(c, month) BY <1>14, <2>1, <3>2
      <4>2. month \in 1 .. month' - 1 BY <1>1, <1>3
      <4> QED BY <1>13, <4>1, <4>2
    <3> QED BY <3>1, <3>2
  <2> QED BY <1>14, <2>1 DEF CardsAreOfMonths
<1>16. MonthsHaveCards'
  <2> DEFINE Has(i, s) ==
        \/ \E k \in DOMAIN s : s[k] = Settlements!Shows(i)
        \/ Settlements!Piece(i, "card") \in drifts
        \/ ~IsUnchanged(i) /\ \E k \in DOMAIN s : CardOf(s[k], i)
  <2>1. ASSUME NEW i \in 1 .. month - 1 PROVE Has(i, cards')
    <3>1. Has(i, cards) BY <1>2 DEF MonthsHaveCards
    <3> QED BY <1>14, <3>1
  <2>2. Has(month, cards')
    <3>1. CASE card = None
      BY <1>2, <1>5, <3>1 DEF LostIsRecorded
    <3>2. CASE card # None /\ ~IsUnchanged(month) BY <1>14, <3>2
    <3>3. CASE card # None /\ IsUnchanged(month)
      <4>1. card = SoFar BY <1>2, <3>3 DEF MonthIsAsShown, CardIsAsShown
      <4>2. SoFar = Settlements!Shows(month)
        <5>1. shown[month].bare \in BOOLEAN BY <1>3
        <5>2. CASE shown[month].bare = TRUE BY <5>2 DEF SoFar, Settlements!Shows
        <5>3. CASE shown[month].bare = FALSE BY <5>3 DEF SoFar, Settlements!Shows
        <5> QED BY <5>1, <5>2, <5>3
      <4> QED BY <1>14, <3>3, <4>1, <4>2
    <3> QED BY <3>1, <3>2, <3>3
  <2>3. \A i \in 1 .. month' - 1 : i \in 1 .. month - 1 \/ i = month BY <1>1, <1>3
  <2>4. \A i \in 1 .. month' - 1 : Has(i, cards') BY <2>1, <2>2, <2>3
  <2> QED BY <1>1, <1>13, <2>4 DEF MonthsHaveCards
<1>17. OutcomeIsLast' BY <1>1, <1>2 DEF OutcomeIsLast
<1> QED BY <1>7, <1>8, <1>9, <1>10, <1>11, <1>12, <1>15, <1>16, <1>17 DEF PageInv

(* A piece within a month.                                                 *)
LEMMA MonthGoesOn ==
  ASSUME PlaceIsKnown, MonthInv, Settlements!Parse, place # 42
  PROVE  MonthInv' /\ cards' = cards
<1> DEFINE is == Settlements!Fed.is
<1>1. place \in WordPlaces \cup ElementPlaces \cup DivPlaces \cup EndPlaces BY KindOfPiece
<1>2. Settlements!HasMore BY NextPlace
<1>3. \/ is = Settlements!Template[place]
      \/ is = "plain" /\ place \in DivPlaces
      \/ is = "other" /\ place \in WordPlaces \cup ElementPlaces
      \/ is = "garbled" /\ place \in WordPlaces
  <2>1. Settlements!Fed = Settlements!Piece(month, "garbled") => is = "garbled"
    BY DEF Settlements!Piece
  <2> QED BY <1>2, <2>1, PieceIsFed
<1>4. CASE is = "other"
  <2>1. Settlements!Fed.is = "other" BY <1>4
  <2> QED BY <2>1, PassedOver
<1>5. CASE is # "other" /\ place \in WordPlaces
  <2>1. Settlements!Fed.is # "other" BY <1>5
  <2> QED BY <1>5, <2>1, WordIsRead
<1>6. CASE is = "plain" /\ place \in DivPlaces
  <2>1. Settlements!Fed.is = "plain" BY <1>6
  <2> QED BY <1>6, <2>1, PlainIsOpened
<1>7. CASE is # "plain" /\ place \in DivPlaces
  <2>1. /\ place \in {1, 4, 8, 28, 29, 33, 37}
        /\ place \notin WordPlaces \cup ElementPlaces
    BY <1>7 DEF DivPlaces, WordPlaces, ElementPlaces
  <2>2. Settlements!Fed.is = Settlements!Template[place] BY <1>3, <1>7, <2>1
  <2>3. place # 8 BY <1>7, <2>2, TemplateIsFixed
  <2>4. CASE place = 1 BY <2>2, <2>4, TemplateIsFixed, LabelIsOpened
  <2>5. CASE place = 4 BY <2>2, <2>5, TemplateIsFixed, CardIsOpened
  <2>6. CASE place = 28 BY <2>2, <2>6, TemplateIsFixed, GridIsOpened
  <2>7. CASE place \in {29, 33, 37}
    <3>1. Settlements!Fed.is = "item" BY <2>2, <2>7, TemplateIsFixed
    <3> QED BY <2>7, <3>1, ItemIsOpened
  <2> QED BY <2>1, <2>3, <2>4, <2>5, <2>6, <2>7
<1>8. CASE is # "other" /\ place \in ElementPlaces
  <2>1. /\ place \in {5, 9, 10, 11, 14, 15, 18, 22, 23, 24}
        /\ place \notin WordPlaces \cup DivPlaces
    BY <1>8 DEF DivPlaces, WordPlaces, ElementPlaces
  <2>2. Settlements!Fed.is = Settlements!Template[place] BY <1>3, <1>8, <2>1
  <2>3. CASE place = 5 BY <2>2, <2>3, TemplateIsFixed, BadgeIsOpened
  <2>4. CASE place \in {9, 10, 14, 22}
    <3>1. Settlements!Fed.is = IF place = 9 THEN "table" ELSE "tr"
      BY <2>2, <2>4, TemplateIsFixed
    <3> QED BY <2>4, <3>1, RowIsOpened
  <2>5. CASE place \in {11, 15, 18, 23}
    <3>1. Settlements!Fed.is = "td" BY <2>2, <2>5, TemplateIsFixed
    <3> QED BY <2>5, <3>1, CellIsOpened
  <2>6. CASE place = 24 BY <2>2, <2>6, TemplateIsFixed, LinkIsRead
  <2> QED BY <2>1, <2>3, <2>4, <2>5, <2>6
<1>9. CASE place \in EndPlaces
  <2>1. /\ place \in {3, 7, 13, 17, 20, 21, 25, 26, 27, 32, 36, 40, 41}
        /\ place \notin WordPlaces \cup DivPlaces \cup ElementPlaces
    BY <1>9 DEF DivPlaces, WordPlaces, ElementPlaces, EndPlaces
  <2>2. Settlements!Fed.is = Settlements!Template[place] BY <1>3, <2>1
  <2>3. CASE place = 3 BY <2>2, <2>3, TemplateIsFixed, LabelIsClosed
  <2>4. CASE place = 7 BY <2>2, <2>4, TemplateIsFixed, BadgeIsClosed
  <2>5. CASE place \in {13, 17, 20, 25}
    <3>1. Settlements!Fed.is = "/td" BY <2>2, <2>5, TemplateIsFixed
    <3> QED BY <2>5, <3>1, CellIsClosed
  <2>6. CASE place \in {21, 26}
    <3>1. Settlements!Fed.is = "/tr" BY <2>2, <2>6, TemplateIsFixed
    <3> QED BY <2>6, <3>1, RowIsClosed
  <2>7. CASE place \in {27, 41}
    <3>1. Settlements!Fed.is = "/div" BY <2>2, <2>7, TemplateIsFixed
    <3> QED BY <2>7, <3>1, PlainIsClosed
  <2>8. CASE place \in {32, 36, 40}
    <3>1. Settlements!Fed.is = "/div" BY <2>2, <2>8, TemplateIsFixed
    <3> QED BY <2>8, <3>1, ItemIsClosed
  <2> QED BY <2>1, <2>3, <2>4, <2>5, <2>6, <2>7, <2>8
<1> HIDE DEF is
<1> QED BY <1>1, <1>4, <1>5, <1>6, <1>7, <1>8, <1>9

LEMMA PieceKeepsPage ==
  ASSUME PageInv, Settlements!Parse
  PROVE  PageInv'
<1>1. CASE place = 42 BY <1>1, MonthIsClosed
<1>2. CASE place # 42
  <2>1. PlaceIsKnown /\ MonthInv /\ CardsAreOfMonths /\ MonthsHaveCards /\ OutcomeIsLast
    BY DEF PageInv, MonthInv
  <2>2. MonthInv' /\ cards' = cards BY <1>2, <2>1, MonthGoesOn
  <2>3. /\ PlaceIsKnown' /\ Settlements!HasMore'
        /\ UNCHANGED <<month, shown, drifts, outcome>> /\ Settlements!HasMore
    BY <1>2, <2>1, NextPlace
  <2>4. CardsAreOfMonths' /\ MonthsHaveCards' BY <2>1, <2>2, <2>3, CardsAreKept
  <2>5. OutcomeIsLast' BY <2>1, <2>3 DEF OutcomeIsLast
  <2> QED BY <2>2, <2>3, <2>4, <2>5 DEF PageInv, MonthInv
<1> QED BY <1>1, <1>2

(* A piece changes before it is fed.                                       *)
LEMMA DriftKeepsPage ==
  ASSUME PageInv, Settlements!Drift
  PROVE  PageInv'
<1>1. /\ Settlements!HasMore /\ fedAs' \in Settlements!Drifted(Settlements!Shown.is)
      /\ drifts' = drifts \cup {Settlements!Shown}
      /\ UNCHANGED <<shown, month, place, depth, since, text, row, cell, pending, card, cards, outcome>>
  BY DEF Settlements!Drift, Settlements!rowVars, Settlements!cardVars
<1>2. Settlements!Shown.of = month /\ Settlements!Shown' = Settlements!Shown
      /\ (Settlements!HasMore' <=> Settlements!HasMore)
  BY <1>1 DEF Settlements!Shown, Settlements!Piece, Settlements!HasMore
<1>3. ~IsUnchanged(month)' BY <1>1, <1>2 DEF IsUnchanged
<1>4. /\ \A c, i : CardOf(c, i) => CardOf(c, i)'
      /\ \A t, l, c : Carried(t, l, c) => Carried(t, l, c)'
      /\ \A t, i, is : Says(t, i, is)' <=> Says(t, i, is)
      /\ \A i : Settlements!Shows(i)' = Settlements!Shows(i)
      /\ \A i : ~IsUnchanged(i) => ~IsUnchanged(i)'
      /\ \A i, is : Settlements!Piece(i, is)' = Settlements!Piece(i, is)
  <2>1. \A i, is : /\ Settlements!Piece(i, is)' = Settlements!Piece(i, is)
                   /\ Settlements!Text(i, is)' = Settlements!Text(i, is)
    BY DEF Settlements!Piece, Settlements!Text
  <2>2. \A t : Settlements!IsMonth(t)' <=> Settlements!IsMonth(t)
    BY DEF Settlements!IsMonth, Settlements!Is
  <2>3. \A t, l, c : Carried(t, l, c) => Carried(t, l, c)'
    BY <1>1, <2>1, <2>2 DEF Carried
  <2>4. \A t, i, is : Says(t, i, is)' <=> Says(t, i, is) BY <2>1 DEF Says
  <2>5. \A c, i : CardOf(c, i) => CardOf(c, i)'
    BY <2>3, <2>4 DEF CardOf, Settlements!IsOf
  <2>6. \A i : Settlements!Shows(i)' = Settlements!Shows(i)
    BY <1>1, <2>1 DEF Settlements!Shows
  <2>7. \A i : ~IsUnchanged(i) => ~IsUnchanged(i)' BY <1>1 DEF IsUnchanged
  <2> QED BY <2>1, <2>3, <2>4, <2>5, <2>6, <2>7
<1>5. /\ PlaceIsKnown /\ ContextsAreNested /\ LostIsRecorded
      /\ TextsAreOwn /\ CellsAreOwn /\ CardIsOwn /\ PendingIsCarried
      /\ CardsAreOfMonths /\ MonthsHaveCards /\ OutcomeIsLast
  BY DEF PageInv
<1>6. PlaceIsKnown'
  <2>1. /\ Settlements!Shown' \in drifts' BY <1>1, <1>2
  <2> QED BY <1>1, <1>2, <1>5, <2>1 DEF PlaceIsKnown
<1>7. ContextsAreNested' BY <1>1, <1>5 DEF ContextsAreNested, MaybeOpen, Settlements!IsOpen, DepthAt
<1>8. LostIsRecorded' BY <1>1, <1>4, <1>5 DEF LostIsRecorded, Settlements!IsOpen
<1>9. TextsAreOwn'
  BY <1>1, <1>4, <1>5 DEF TextsAreOwn, TextsAreTyped, LabelIsOwn, BadgeIsOwn, ItemIsOwn, ItemSays,
     Settlements!IsOpen
<1>10. CellsAreOwn' BY <1>1, <1>5 DEF CellsAreOwn, PiecesOf
<1>11. CardIsOwn' /\ PendingIsCarried' BY <1>1, <1>4, <1>5 DEF CardIsOwn, PendingIsCarried
<1>12. MonthIsAsShown' BY <1>1, <1>3 DEF MonthIsAsShown
<1>13. CardsAreOfMonths' BY <1>1, <1>4, <1>5 DEF CardsAreOfMonths
<1>14. MonthsHaveCards' BY <1>1, <1>4, <1>5 DEF MonthsHaveCards
<1>15. OutcomeIsLast' BY <1>1, <1>2, <1>5 DEF OutcomeIsLast
<1> QED BY <1>6, <1>7, <1>8, <1>9, <1>10, <1>11, <1>12, <1>13, <1>14, <1>15 DEF PageInv

LEMMA PageInvInit == LayerInit => PageInv
<1> SUFFICES ASSUME LayerInit PROVE PageInv
  OBVIOUS
<1>1. /\ month = 1 /\ place = 1 /\ fedAs = "itself" /\ drifts = {}
      /\ depth = 0 /\ since = [c \in Settlements!Contexts |-> -1]
      /\ text = [c \in {"label", "badge", "item"} |-> <<>>]
      /\ row = None /\ cell = None /\ pending = <<>> /\ card = None /\ cards = <<>>
      /\ outcome = "parsing"
  BY DEF LayerInit, Settlements!Init, Settlements!Closed
<1>2. \E n \in Nat : /\ DOMAIN shown = 1 .. n /\ month \in 1 .. n + 1
                     /\ \A i \in 1 .. n : shown[i].bare \in BOOLEAN
  <2>1. PICK n \in 0 .. MaxCards : shown \in [1 .. n -> [key : 1 .. n, bare : BOOLEAN]]
    BY DEF LayerInit, Settlements!Init
  <2>2. n \in Nat BY <2>1, PagesAssumption
  <2>3. DOMAIN shown = 1 .. n /\ \A i \in 1 .. n : shown[i].bare \in BOOLEAN BY <2>1
  <2>4. month \in 1 .. n + 1 BY <1>1, <2>2
  <2> QED BY <2>2, <2>3, <2>4
<1>3. PlaceIsKnown BY <1>1, <1>2 DEF PlaceIsKnown, Settlements!LastPlace
<1>4. ContextsAreNested
  BY <1>1 DEF ContextsAreNested, MaybeOpen, DepthAt, Settlements!Contexts, Settlements!IsOpen, Settlements!Closed
<1>5. LostIsRecorded /\ CellsAreOwn /\ CardIsOwn BY <1>1 DEF LostIsRecorded, CellsAreOwn, CardIsOwn
<1>6. <<>> \in Settlements!Texts BY DEF Settlements!Texts
<1>7. TextsAreOwn
  <2>1. TextsAreTyped BY <1>1, <1>6 DEF TextsAreTyped
  <2>2. \A c \in Settlements!Contexts : ~Settlements!IsOpen(c)
    BY <1>1 DEF Settlements!IsOpen, Settlements!Closed
  <2> QED BY <2>1, <2>2 DEF TextsAreOwn, LabelIsOwn, BadgeIsOwn, ItemIsOwn, Settlements!Contexts
<1>8. PendingIsCarried
  BY <1>1, <1>6 DEF PendingIsCarried, Carried, Settlements!IsMonth, Settlements!Is
<1>9. MonthIsAsShown
  BY <1>1 DEF MonthIsAsShown, ContextsAreOpen, TextsAreAsShown, CellsAreAsShown, CardIsAsShown,
              ItemPlaces
<1>10. CardsAreOfMonths BY <1>1 DEF CardsAreOfMonths
<1>11. MonthsHaveCards BY <1>1 DEF MonthsHaveCards
<1>12. OutcomeIsLast BY <1>1 DEF OutcomeIsLast
<1> QED BY <1>3, <1>4, <1>5, <1>7, <1>8, <1>9, <1>10, <1>11, <1>12 DEF PageInv

LEMMA PageInvNext == PageInv /\ [LayerNext]_layerVars => PageInv'
<1> SUFFICES ASSUME PageInv, [LayerNext]_layerVars PROVE PageInv'
  OBVIOUS
<1>1. ASSUME UNCHANGED <<shown, month, place, fedAs, drifts, depth, since, text, row, cell, pending,
                         card, cards>>,
             outcome' = outcome \/ (~Settlements!HasMore /\
               (outcome' = "read" => \A k \in DOMAIN cards : Settlements!IsWhole(cards[k])))
      PROVE  PageInv'
  <2>1. PlaceIsKnown' /\ ContextsAreNested' /\ LostIsRecorded'
    BY <1>1 DEF PageInv, PlaceIsKnown, ContextsAreNested, LostIsRecorded, MaybeOpen, DepthAt,
       Settlements!IsOpen, Settlements!HasMore, Settlements!Shown, Settlements!Piece
  <2>2. TextsAreOwn' /\ CellsAreOwn'
    BY <1>1 DEF PageInv, TextsAreOwn, CellsAreOwn, TextsAreTyped, LabelIsOwn, BadgeIsOwn, ItemIsOwn,
       ItemSays, Says, PiecesOf, Settlements!IsOpen, Settlements!Text, Settlements!Piece
  <2>3. CardIsOwn' /\ PendingIsCarried' BY <1>1, KeptParts DEF PageInv
  <2>4. MonthIsAsShown'
    BY <1>1 DEF PageInv, MonthIsAsShown, IsUnchanged, ContextsAreOpen, TextsAreAsShown, CellsAreAsShown,
       CardIsAsShown, SoFar, TheItem, Settlements!IsOpen, Settlements!Text, Settlements!Piece
  <2>5. CardsAreOfMonths' /\ MonthsHaveCards' BY <1>1, CardsAreKept DEF PageInv
  <2>6. OutcomeIsLast'
    BY <1>1 DEF PageInv, OutcomeIsLast, Settlements!HasMore, Settlements!IsWhole, Settlements!IsMonth,
       Settlements!IsMoney, Settlements!IsDate, Settlements!Is
  <2> QED BY <2>1, <2>2, <2>3, <2>4, <2>5, <2>6 DEF PageInv
<1>2. CASE UNCHANGED layerVars
  BY <1>1, <1>2 DEF layerVars, htmlVars, parserVars
<1>3. CASE TimelineNext BY <1>1, <1>3 DEF TimelineNext, htmlVars, parserVars
<1>4. CASE ListNext BY <1>1, <1>4 DEF ListNext, htmlVars, parserVars
<1>5. CASE HistoryNext BY <1>1, <1>5 DEF HistoryNext, htmlVars, parserVars
<1>6. CASE MenuNext BY <1>1, <1>6 DEF MenuNext, parserVars
<1>7. CASE LimitedNext BY <1>1, <1>7 DEF LimitedNext, htmlVars, parserVars
<1>8. CASE SettlementsNext
  <2>1. CASE Settlements!Drift BY <2>1, DriftKeepsPage
  <2>2. CASE Settlements!Parse BY <2>2, PieceKeepsPage
  <2>3. CASE Settlements!Validate
    BY <1>1, <2>3 DEF Settlements!Validate, Settlements!pageVars, Settlements!rowVars,
                      Settlements!cardVars
  <2> QED BY <1>8, <2>1, <2>2, <2>3 DEF SettlementsNext, Settlements!Next
<1> QED BY <1>2, <1>3, <1>4, <1>5, <1>6, <1>7, <1>8 DEF LayerNext

(* What of a card that makes a month is exactly as shown.                  *)
LEMMA WholeIsAsShown ==
  ASSUME NEW c, NEW i, CardOf(c, i), Settlements!IsWhole(c)
  PROVE  /\ \E j \in 1 .. i : c.label = Settlements!Text(j, "month") /\ Settlements!Reaches(j, i)
         /\ c.amount = Settlements!Shows(i).amount /\ c.saldo = Settlements!Shows(i).saldo
         /\ c.due \in {Settlements!Shows(i).due, <<>>} /\ c.bill \in {i, None}
         /\ Settlements!IsOf(i, c.paid)
         /\ \A r \in DOMAIN c.rows : /\ Settlements!IsOf(i, c.rows[r][1])
                                     /\ Settlements!IsOf(i, c.rows[r][2])
<1>1. \A words : ~Settlements!Is(<<>>, words) BY DEF Settlements!Is
<1>2. \A words : Settlements!Is(Settlements!Text(i, "garbled"), words) => "garbled" \in words
  BY DEF Settlements!Is, Settlements!Text, Settlements!Piece
<1>3. \A t, is, words : /\ Says(t, i, is) /\ Settlements!Is(t, words) /\ "garbled" \notin words
                        => t = Settlements!Text(i, is)
  BY <1>1, <1>2 DEF Says
<1>4. /\ Settlements!Shows(i).amount = Settlements!Text(i, "amount")
      /\ Settlements!Shows(i).saldo = Settlements!Text(i, "saldo")
      /\ Settlements!Shows(i).due = Settlements!Text(i, "due")
  BY DEF Settlements!Shows
<1>5. c.amount = Settlements!Text(i, "amount") /\ c.saldo = Settlements!Text(i, "saldo")
  BY <1>3 DEF CardOf, Settlements!IsWhole, Settlements!IsMoney
<1>6. c.due = <<>> \/ c.due = Settlements!Text(i, "due")
  BY <1>3 DEF CardOf, Settlements!IsWhole, Settlements!IsDate
<1>7. \E j \in 1 .. i : c.label = Settlements!Text(j, "month") /\ Settlements!Reaches(j, i)
  BY DEF CardOf, Carried, Settlements!IsWhole, Settlements!Reaches
<1>8. Settlements!IsOf(i, c.paid)
  <2>1. \A is : Settlements!IsOf(i, Settlements!Text(i, is))
    BY DEF Settlements!IsOf, Settlements!Text, Settlements!Piece
  <2>2. Settlements!IsOf(i, <<>>) BY DEF Settlements!IsOf
  <2> QED BY <2>1, <2>2 DEF CardOf, Says
<1> QED BY <1>4, <1>5, <1>6, <1>7, <1>8 DEF CardOf

(* Whatever changes about the page, a page that is read has its months as  *)
(* they are shown: no card is mixed of two months, but for the label of a  *)
(* card that was not known as one, and no card known as one is missing     *)
(* (_SettlementsParser, parse_settlements_history).                        *)
THEOREM MonthsAlwaysAsShown == LayerSpec => []MonthsAreAsShown
  <1>1. PageInv => MonthsAreAsShown
    <2> SUFFICES ASSUME PageInv, outcome = "read"
                 PROVE  Settlements!MonthsAreNotMixed /\ Settlements!NoMonthIsLost
      BY DEF MonthsAreAsShown, Settlements!MonthsAreAsShown, Settlements!MonthsAreNotMixed,
             Settlements!NoMonthIsLost
    <2>1. /\ \A k \in DOMAIN cards : Settlements!IsWhole(cards[k])
          /\ DOMAIN shown = 1 .. month - 1
      <3>1. OutcomeIsLast /\ PlaceIsKnown BY DEF PageInv
      <3>2. month \notin DOMAIN shown BY <3>1 DEF OutcomeIsLast, Settlements!HasMore
      <3>3. PICK n \in Nat : DOMAIN shown = 1 .. n /\ month \in 1 .. n + 1
        BY <3>1 DEF PlaceIsKnown
      <3>4. n = month - 1 BY <3>2, <3>3
      <3> QED BY <3>1, <3>3, <3>4 DEF OutcomeIsLast
    <2>2. Settlements!MonthsAreNotMixed
      <3> SUFFICES ASSUME NEW k \in DOMAIN cards
                   PROVE  \E i \in DOMAIN shown : CardOf(cards[k], i)
        BY <2>1, WholeIsAsShown DEF Settlements!MonthsAreNotMixed
      <3> QED BY <2>1 DEF PageInv, CardsAreOfMonths
    <2>3. Settlements!NoMonthIsLost
      <3>1. \A i \in DOMAIN shown :
              \/ \E k \in DOMAIN cards : cards[k] = Settlements!Shows(i)
              \/ Settlements!Piece(i, "card") \in drifts
              \/ ~IsUnchanged(i) /\ \E k \in DOMAIN cards : CardOf(cards[k], i)
        BY <2>1 DEF PageInv, MonthsHaveCards
      <3>2. \A i, k : k \in DOMAIN cards /\ CardOf(cards[k], i)
                      => cards[k].amount = Settlements!Shows(i).amount
        BY <2>1, WholeIsAsShown
      <3> QED BY <3>1, <3>2 DEF Settlements!NoMonthIsLost, IsUnchanged
    <2> QED BY <2>2, <2>3
  <1> QED BY <1>1, PageInvInit, PageInvNext, PTL DEF LayerSpec

=============================================================================
