---------------------------- MODULE TimelineWalk ----------------------------
(***************************************************************************)
(* list_posts of http/timeline.py: pages of the timeline are requested     *)
(* from the first on until one is empty.  The feed is newest first, so a   *)
(* post that appears during the walk shifts every later page by one.       *)
(* The platform queues what people write; while something is queued each   *)
(* page says so (waitingToProcess > 0) and may be incomplete, and the walk *)
(* asks again, WaitRetries times at most.                                  *)
(*                                                                         *)
(* Nothing leaves the feed here.  A post that is removed, archived or no   *)
(* longer sticky would shift pages the other way, and a walk under way may *)
(* miss the post that comes first on the next page.                        *)
(***************************************************************************)
EXTENDS Integers, Sequences

CONSTANTS
  Posts,        \* post ids
  PageSize,     \* of the platform; the code does not rely on it
  WaitRetries   \* _WAIT_RETRIES

ASSUME ConstantsAssumption == PageSize \in Nat \ {0} /\ WaitRetries \in Nat

VARIABLES
  feed,         \* the timeline, newest first
  queue,        \* posts written and not yet processed into the feed
  pc,           \* "idle", "walk", or how the last walk ended
  pageNumber,
  retries,      \* repetitions of the current page's request
  yielded,      \* posts the walk has yielded
  atStart       \* posts written before the walk began

platform == <<feed, queue>>
walk == <<pc, pageNumber, retries, yielded, atStart>>
vars == <<platform, walk>>

Walks == {"idle", "walk", "ended", "waiting_to_process", "request_failed"}
InFeed == {feed[i] : i \in DOMAIN feed}

Init ==
  /\ feed = <<>> /\ queue = {}
  /\ pc = "idle" /\ pageNumber = 1 /\ retries = 0
  /\ yielded = {} /\ atStart = {}

-----------------------------------------------------------------------------
WritePost(p) ==
  /\ p \notin queue \cup InFeed
  /\ queue' = queue \cup {p}
  /\ UNCHANGED <<feed, walk>>

ProcessPost(p) ==
  /\ p \in queue
  /\ queue' = queue \ {p}
  /\ feed' = <<p>> \o feed
  /\ UNCHANGED walk

-----------------------------------------------------------------------------
StartWalk ==
  /\ pc # "walk"
  /\ pc' = "walk" /\ pageNumber' = 1 /\ retries' = 0
  /\ yielded' = {} /\ atStart' = queue \cup InFeed
  /\ UNCHANGED platform

(* The posts from place n + 1 of the feed on; the items of the page the    *)
(* platform would serve now.                                               *)
Beyond(n) == {feed[i] : i \in {j \in DOMAIN feed : n < j}}
Passed == (pageNumber - 1) * PageSize
Items ==
  {feed[i] : i \in {j \in DOMAIN feed : Passed < j /\ j <= Passed + PageSize}}

MustWaitNever == FALSE
MustWait == queue # {}

RetriesLeft == retries < WaitRetries

(* The answer is unsettled: sleep and repeat the request, or give up.      *)
AskAgain ==
  /\ pc = "walk" /\ MustWait
  /\ RetriesLeft
  /\ retries' = retries + 1
  /\ UNCHANGED <<platform, pc, pageNumber, yielded, atStart>>

GiveUp ==
  /\ pc = "walk" /\ MustWait
  /\ ~RetriesLeft
  /\ pc' = "waiting_to_process"
  /\ UNCHANGED <<platform, pageNumber, retries, yielded, atStart>>

NextPage == pageNumber + 1

YieldPage ==
  /\ pc = "walk" /\ ~MustWait
  /\ Items # {}
  /\ yielded' = yielded \cup Items
  /\ pageNumber' = NextPage /\ retries' = 0
  /\ UNCHANGED <<platform, pc, atStart>>

EndWalk ==
  /\ pc = "walk" /\ ~MustWait
  /\ Items = {}
  /\ pc' = "ended"
  /\ UNCHANGED <<platform, pageNumber, retries, yielded, atStart>>

(* A transport error, a status other than 200 or a page that is not one.   *)
RequestFails ==
  /\ pc = "walk"
  /\ pc' = "request_failed"
  /\ UNCHANGED <<platform, pageNumber, retries, yielded, atStart>>

Step == AskAgain \/ GiveUp \/ YieldPage \/ EndWalk

Next ==
  \/ \E p \in Posts : WritePost(p) \/ ProcessPost(p)
  \/ StartWalk \/ Step \/ RequestFails

Spec == Init /\ [][Next]_vars

-----------------------------------------------------------------------------
(* Every variable stays in its range; a post is queued or in the feed.     *)
TypeOK ==
  /\ feed \in Seq(Posts) /\ queue \subseteq Posts
  /\ pc \in Walks
  /\ pageNumber \in Nat \ {0} /\ retries \in 0 .. WaitRetries
  /\ yielded \subseteq Posts /\ atStart \subseteq Posts
  /\ queue \cap InFeed = {}

(* A walk that ends well has yielded every post written before it began,   *)
(* those the platform had still queued included, however the pages shifted *)
(* under it: a shift can repeat a post, never drop one (list_posts).       *)
WalkCoversItsStart == pc = "ended" => atStart \subseteq yielded

(* Why: what is still owed sits in the queue, as long as the first page is *)
(* not read, or on pages to come.                                          *)
OwedIsAhead ==
  pc = "walk" =>
    /\ atStart \subseteq yielded \cup queue \cup Beyond(Passed)
    /\ atStart \subseteq queue \cup InFeed
    /\ pageNumber > 1 => atStart \cap queue = {}

(* A walk ends, even if the platform never settles a page.                 *)
WalkEnds == pc = "walk" ~> pc # "walk"

=============================================================================
