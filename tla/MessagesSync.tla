---------------------------- MODULE MessagesSync ----------------------------
(***************************************************************************)
(* The incremental dump of the account's conversations: run_messages of    *)
(* dump/sync.py, the conversations table of dump/manifest.py, and the      *)
(* directories that dump/messages.py writes.                               *)
(*                                                                         *)
(* One process runs at a time, again and again.  Every durable write is an *)
(* action of its own, so that Interrupt can separate any two of them; it   *)
(* stands for Ctrl-C, a crash, a transport error and an OSError alike,     *)
(* which all abandon the run with the disk as it is.  Meanwhile people     *)
(* keep writing messages, also between two pages of one fetch.             *)
(*                                                                         *)
(* A message is the pair of its conversation and its place in the history. *)
(* Histories only grow: the platform flags a removed message and keeps it. *)
(* messages.json is the set of messages it lists (the code never lists an  *)
(* id twice; the order, oldest first, is the server's).                    *)
(***************************************************************************)
EXTENDS Integers, FiniteSets

CONSTANTS
  Convs,          \* conversation ids
  Recipient,      \* Recipient[c]: the slug of the recipient's name
  Suffixed,       \* Suffixed[s, n]: s-n, which may be another recipient's slug
  Day,            \* Day[t]: the UTC date of second t
  MinGap,         \* 0: two messages may carry the same second, 1: never
  MaxTime,        \* bound on the clock
  MaxHistory,     \* bound on the length of one history
  MaxSuffix,      \* bound on the collision suffixes tried
  MaxInterrupts,  \* bound on the number of abandoned runs
  MaxDeletions,   \* bound on the directories the user deletes
  CanForce,       \* whether the user ever passes --force
  None

Times    == 0 .. MaxTime
Messages == Convs \X (1 .. MaxHistory)
History(c, n) == {c} \X (1 .. n)

(* <date>-<recipient slug>, the first candidate, then with -2, -3, ...     *)
DirName(c, stamp, n) ==
  <<Day[stamp], IF n = 1 THEN Recipient[c] ELSE Suffixed[Recipient[c], n]>>
DirNames == {DirName(c, t, n) : c \in Convs, t \in Times, n \in 1 .. MaxSuffix}

Rows    == [dir : DirNames, stamp : Times, count : 0 .. MaxHistory]
Entries == [conv : Convs, stamp : Times]
Phases  == {"idle", "walk", "fetch", "append", "mkdir", "payload", "history", "attach"}
NoTail  == -1

Jobs == [entry  : Entries,                       \* the list item being handled
         home   : DirNames \cup {None},          \* dir_record
         tail   : (0 .. MaxHistory) \cup {NoTail},  \* tail_record's count
         offset : 0 .. MaxHistory,               \* the next startingIndex
         got    : SUBSET Messages,               \* new_messages
         target : DirNames \cup {None},
         todo   : SUBSET Messages,               \* attachments still to link
         total  : 0 .. MaxHistory]

ASSUME ConstantsAssumption ==
  /\ IsFiniteSet(Convs)
  /\ MaxTime \in Nat /\ MaxHistory \in Nat /\ MaxSuffix \in Nat
  /\ MaxInterrupts \in Nat /\ MaxDeletions \in Nat
  /\ MinGap \in {0, 1} /\ CanForce \in BOOLEAN
ASSUME NoneAssumption ==
  /\ None \notin Convs /\ None \notin Rows /\ None \notin DirNames /\ None \notin Jobs

VARIABLES
  now, hist, lastUpdate,     \* the server
  row,                       \* the manifest: a row or None per conversation
  dirs,                      \* the directories that exist
  owner,                     \* the id in a directory's conversation.json
  file,                      \* the messages in its messages.json
  links,                     \* the messages whose attachments it links
  pc, force, seen, owed, page, job,  \* the running process
  refused,                   \* the last run ended in messages_history_truncated
  interrupts, deletions

server  == <<now, hist, lastUpdate>>
disk    == <<dirs, owner, file, links>>
walking == <<force, seen, owed, page>>
counts  == <<interrupts, deletions>>
vars == <<server, row, disk, pc, walking, job, refused, counts>>

Init ==
  /\ now = 0
  /\ hist = [c \in Convs |-> 0]
  /\ lastUpdate = [c \in Convs |-> 0]
  /\ row = [c \in Convs |-> None]
  /\ dirs = {}
  /\ owner = [d \in DirNames |-> None]
  /\ file  = [d \in DirNames |-> {}]
  /\ links = [d \in DirNames |-> {}]
  /\ pc = "idle" /\ force = {} /\ seen = {} /\ owed = {} /\ page = {} /\ job = None
  /\ refused = FALSE /\ interrupts = 0 /\ deletions = 0

-----------------------------------------------------------------------------
(* The people who write messages, and the user who deletes directories.    *)

PostMessage(c) ==
  /\ hist[c] < MaxHistory
  /\ \E t \in Times :
       /\ t \in {now + MinGap, now + 1}
       /\ now' = t
       /\ lastUpdate' = [lastUpdate EXCEPT ![c] = t]
  /\ hist' = [hist EXCEPT ![c] = @ + 1]
  /\ UNCHANGED <<row, disk, pc, walking, job, refused, counts>>

DeleteDirectory(d) ==
  /\ pc = "idle"
  /\ d \in dirs /\ deletions < MaxDeletions
  /\ deletions' = deletions + 1
  /\ dirs' = dirs \ {d}
  /\ owner' = [owner EXCEPT ![d] = None]
  /\ file' = [file EXCEPT ![d] = {}]
  /\ links' = [links EXCEPT ![d] = {}]
  /\ UNCHANGED <<server, row, pc, walking, job, refused, interrupts>>

-----------------------------------------------------------------------------
(* The run and its walk over the conversation list.                        *)

(* What --force may name: conversation ids and recorded directory names.   *)
RecordedDirs == {row[c].dir : c \in {x \in Convs : row[x] # None}}

StartRun(F) ==
  /\ pc = "idle"
  /\ F = {} \/ CanForce
  /\ pc' = "walk"
  /\ force' = F
  /\ owed' = {c \in Convs : hist[c] > 0}
  /\ seen' = {} /\ page' = {}
  /\ refused' = FALSE
  /\ UNCHANGED <<server, row, disk, job, counts>>

(* A page of the list; conversations a page repeats are not yielded again. *)
(* Its lastUpdate values age while its conversations are being dumped.     *)
ListPage(S) ==
  /\ pc = "walk" /\ page = {}
  /\ S # {} /\ S \cap seen = {} /\ \A c \in S : hist[c] > 0
  /\ page' = {[conv |-> c, stamp |-> lastUpdate[c]] : c \in S}
  /\ seen' = seen \cup S
  /\ owed' = owed \ S
  /\ UNCHANGED <<server, row, disk, pc, force, job, refused, counts>>

(* An empty or no-progress page ends the walk.  The server is taken to     *)
(* serve, over the pages of a walk, each conversation that existed when    *)
(* the walk began.                                                         *)
EndWalk ==
  /\ pc = "walk" /\ page = {} /\ owed = {}
  /\ pc' = "idle"
  /\ force' = {} /\ seen' = {}
  /\ UNCHANGED <<server, row, disk, owed, page, job, refused, counts>>

IsForcedByDirOnly(c) == row[c] # None /\ row[c].dir \in force
IsForced(c) == c \in force \/ (row[c] # None /\ row[c].dir \in force)

UnchangedIfRecorded(e) == row[e.conv] # None
IsUnchanged(e) == row[e.conv] # None /\ row[e.conv].stamp = e.stamp

SkipConversation(e) ==
  /\ pc = "walk" /\ e \in page
  /\ IsUnchanged(e) /\ ~IsForced(e.conv)
  /\ page' = page \ {e}
  /\ UNCHANGED <<server, row, disk, pc, force, seen, owed, job, refused, counts>>

NewJobSkippingOne(e, home, tail) ==
  [entry |-> e, home |-> home, tail |-> tail,
   offset |-> IF tail = NoTail THEN 0 ELSE tail + 1,
   got |-> {}, target |-> None, todo |-> {}, total |-> 0]
NewJob(e, home, tail) ==
  [entry |-> e, home |-> home, tail |-> tail,
   offset |-> IF tail = NoTail THEN 0 ELSE tail,
   got |-> {}, target |-> None, todo |-> {}, total |-> 0]

BeginTail(e) ==
  /\ pc = "walk" /\ e \in page
  /\ row[e.conv] # None /\ ~IsUnchanged(e) /\ ~IsForced(e.conv)
  /\ page' = page \ {e}
  /\ job' = NewJob(e, row[e.conv].dir, row[e.conv].count)
  /\ pc' = "fetch"
  /\ UNCHANGED <<server, row, disk, force, seen, owed, refused, counts>>

(* A first dump, or a forced one: the row goes before anything is fetched, *)
(* and the directory it named is remembered by this process alone.         *)
BeginFull(e) ==
  /\ pc = "walk" /\ e \in page
  /\ row[e.conv] = None \/ IsForced(e.conv)
  /\ page' = page \ {e}
  /\ job' = NewJob(e, IF row[e.conv] = None THEN None ELSE row[e.conv].dir, NoTail)
  /\ row' = [row EXCEPT ![e.conv] = None]
  /\ pc' = "fetch"
  /\ UNCHANGED <<server, disk, force, seen, owed, refused, counts>>

-----------------------------------------------------------------------------
(* One conversation.                                                       *)

Conv == job.entry.conv

(* A page reaches some way past the offset: its size is not assumed.       *)
FetchPage(n) ==
  /\ pc = "fetch"
  /\ job.offset < n /\ n <= hist[Conv]
  /\ job' = [job EXCEPT !.got = @ \cup {<<Conv, i>> : i \in (job.offset + 1) .. n},
                        !.offset = n]
  /\ UNCHANGED <<server, row, disk, pc, walking, refused, counts>>

AvailableAlways(d, c) == TRUE
Available(d, c) == d \notin dirs \/ owner[d] = c

(* resolve_conversation_dir: a recorded name wins, else the first free or  *)
(* own one among base, base-2, base-3, ...                                 *)
ResolveAfresh(d) ==
  \E n \in 1 .. MaxSuffix :
    /\ d = DirName(Conv, job.entry.stamp, n)
    /\ Available(d, Conv)
    /\ \A m \in 1 .. (n - 1) : ~Available(DirName(Conv, job.entry.stamp, m), Conv)
ResolvesIgnoringRecord(d) == ResolveAfresh(d)
Resolves(d) == IF job.home = None THEN ResolveAfresh(d) ELSE d = job.home

(* The empty page past the end of the history.                             *)
EndFetch ==
  /\ pc = "fetch"
  /\ job.offset = hist[Conv]
  /\ \E d \in DirNames :
       /\ Resolves(d)
       /\ job' = [job EXCEPT !.target = d]
  /\ pc' = IF job.tail = NoTail THEN "mkdir" ELSE "append"
  /\ UNCHANGED <<server, row, disk, walking, refused, counts>>

TailFits == Cardinality(file[job.target]) = job.tail
Fresh == job.got \ file[job.target]
ExtendedToTail == Fresh
Extended == file[job.target] \cup Fresh

(* append_messages: one atomic replacement of messages.json.               *)
AppendMessages ==
  /\ pc = "append" /\ TailFits
  /\ file' = [file EXCEPT ![job.target] = Extended]
  /\ job' = [job EXCEPT !.total = job.tail + Cardinality(Fresh), !.todo = job.got]
  /\ pc' = "mkdir"
  /\ UNCHANGED <<server, row, dirs, owner, links, walking, refused, counts>>

(* The file disagrees with the recorded count, which is at least 1: it is  *)
(* longer, or a missing directory makes it empty.  The whole run ends.     *)
RefuseTail ==
  /\ pc = "append" /\ ~TailFits
  /\ refused' = TRUE
  /\ pc' = "idle" /\ job' = None
  /\ force' = {} /\ seen' = {} /\ owed' = {} /\ page' = {}
  /\ UNCHANGED <<server, row, disk, counts>>

MakeDirectory ==
  /\ pc = "mkdir"
  /\ dirs' = dirs \cup {job.target}
  /\ pc' = "payload"
  /\ UNCHANGED <<server, row, owner, file, links, walking, job, refused, counts>>

WritePayload ==
  /\ pc = "payload"
  /\ owner' = [owner EXCEPT ![job.target] = Conv]
  /\ pc' = IF job.tail = NoTail THEN "history" ELSE "attach"
  /\ UNCHANGED <<server, row, dirs, file, links, walking, job, refused, counts>>

WriteHistory ==
  /\ pc = "history"
  /\ file' = [file EXCEPT ![job.target] = job.got]
  /\ job' = [job EXCEPT !.total = Cardinality(job.got), !.todo = job.got]
  /\ pc' = "attach"
  /\ UNCHANGED <<server, row, dirs, owner, links, walking, refused, counts>>

(* The attachments of the fetched messages, oldest first.  A link an       *)
(* earlier run left goes before the new one is made.                       *)
IsNextToLink(m) == m \in job.todo /\ \A x \in job.todo : m[2] <= x[2]

UnlinkAttachments(m) ==
  /\ pc = "attach" /\ IsNextToLink(m)
  /\ m \in links[job.target]
  /\ links' = [links EXCEPT ![job.target] = @ \ {m}]
  /\ UNCHANGED <<server, row, dirs, owner, file, pc, walking, job, refused, counts>>

LinkAttachments(m) ==
  /\ pc = "attach" /\ IsNextToLink(m)
  /\ m \notin links[job.target]
  /\ links' = [links EXCEPT ![job.target] = @ \cup {m}]
  /\ job' = [job EXCEPT !.todo = @ \ {m}]
  /\ UNCHANGED <<server, row, dirs, owner, file, pc, walking, refused, counts>>

RecordedRowRestamped ==
  [dir |-> job.target, stamp |-> lastUpdate[Conv], count |-> job.total]
RecordedRowCountingTail ==
  [dir |-> job.target, stamp |-> job.entry.stamp, count |-> Cardinality(job.got)]
RecordedRow == [dir |-> job.target, stamp |-> job.entry.stamp, count |-> job.total]

AllLinkedAtOnce == TRUE
AllLinked == job.todo = {}

RecordConversation ==
  /\ pc = "attach" /\ AllLinked
  /\ row' = [row EXCEPT ![Conv] = RecordedRow]
  /\ pc' = "walk" /\ job' = None
  /\ UNCHANGED <<server, disk, walking, refused, counts>>

Interrupt ==
  /\ pc # "idle" /\ interrupts < MaxInterrupts
  /\ interrupts' = interrupts + 1
  /\ pc' = "idle" /\ job' = None
  /\ force' = {} /\ seen' = {} /\ owed' = {} /\ page' = {}
  /\ UNCHANGED <<server, row, disk, refused, deletions>>

-----------------------------------------------------------------------------
Environment ==
  \/ \E c \in Convs : PostMessage(c)
  \/ \E d \in DirNames : DeleteDirectory(d)

Process ==
  \/ \E S \in SUBSET Convs : ListPage(S)
  \/ EndWalk
  \/ \E e \in Entries : SkipConversation(e) \/ BeginTail(e) \/ BeginFull(e)
  \/ \E n \in 1 .. MaxHistory : FetchPage(n)
  \/ EndFetch
  \/ AppendMessages \/ RefuseTail
  \/ MakeDirectory \/ WritePayload \/ WriteHistory
  \/ \E m \in Messages : UnlinkAttachments(m) \/ LinkAttachments(m)
  \/ RecordConversation

ForceArguments == {{}} \cup {{x} : x \in Convs \cup RecordedDirs} \cup {Convs}

Next ==
  \/ Environment
  \/ \E F \in ForceArguments : StartRun(F)
  \/ Process
  \/ Interrupt

Spec == Init /\ [][Next]_vars

(* A run goes on until it ends or is interrupted, and the user starts runs *)
(* again and again.                                                        *)
FairSpec ==
  Spec /\ WF_vars(Process) /\ WF_vars(StartRun({}))

-----------------------------------------------------------------------------
(* Every variable stays in its range.                                      *)
TypeOK ==
  /\ now \in Times
  /\ hist \in [Convs -> 0 .. MaxHistory]
  /\ lastUpdate \in [Convs -> Times]
  /\ row \in [Convs -> Rows \cup {None}]
  /\ dirs \subseteq DirNames
  /\ owner \in [DirNames -> Convs \cup {None}]
  /\ file \in [DirNames -> SUBSET Messages]
  /\ links \in [DirNames -> SUBSET Messages]
  /\ pc \in Phases
  /\ force \subseteq Convs \cup DirNames
  /\ seen \subseteq Convs /\ owed \subseteq Convs
  /\ page \subseteq Entries
  /\ job \in Jobs \cup {None}
  /\ refused \in BOOLEAN
  /\ interrupts \in 0 .. MaxInterrupts /\ deletions \in 0 .. MaxDeletions

(* A directory whose conversation.json names a conversation holds an       *)
(* initial part of that conversation's history: nothing is missing from    *)
(* its middle and nothing of another conversation is in it, whatever was   *)
(* interrupted and whichever of append and full write came last            *)
(* (append_messages, write_conversation).                                  *)
HistoriesArePrefixes ==
  \A d \in DirNames :
    /\ owner[d] = None => file[d] = {}
    /\ owner[d] # None =>
         d \in dirs /\ \E n \in 0 .. hist[owner[d]] : file[d] = History(owner[d], n)

(* A manifest row never claims what the disk lacks: its directory exists   *)
(* and belongs to the conversation, holds at least the recorded number of  *)
(* messages, and links the attachments of every one of them.  So two rows  *)
(* never share a directory (resolve_conversation_dir, upsert_conversation).*)
RowIsBacked(c) ==
  row[c] # None =>
    /\ row[c].dir \in dirs /\ owner[row[c].dir] = c
    /\ History(c, row[c].count) \subseteq file[row[c].dir] \cap links[row[c].dir]
RowsAreBacked == \A c \in Convs : RowIsBacked(c)

(* The skip check is sound: a row stamped with the conversation's current  *)
(* last_update covers its whole history.  last_update is read from the     *)
(* list before the messages are fetched, and messages arrive in between.   *)
StampCoversHistory ==
  \A c \in Convs :
    row[c] # None /\ row[c].stamp = lastUpdate[c] => row[c].count = hist[c]

(* Why these hold.  A process counts what it fetched: always, whatever *)
(* is deleted or however the clock ticks.                                  *)
Start == IF job.tail = NoTail THEN 0 ELSE job.tail

CountsFit ==
  /\ \A c \in Convs : row[c] # None => row[c].count <= hist[c]
  /\ job = None <=> pc \in {"idle", "walk"}
  /\ job # None =>
       /\ Start <= job.offset /\ job.offset <= hist[Conv] /\ job.total <= job.offset
       /\ job.got = History(Conv, job.offset) \ History(Conv, Start)
       /\ job.todo \subseteq job.got
  /\ pc = "append" => job.tail # NoTail
  /\ pc \notin {"idle", "walk", "fetch"} => job.target # None

(* And, as long as no directory is deleted, a conversation in the middle   *)
(* of its dump satisfies, phase by phase, what its row and its directory   *)
(* will be taken for.                                                      *)
BindingIsSound ==
  /\ job.home # None => job.home \in dirs /\ owner[job.home] = Conv
  /\ job.tail = NoTail => row[Conv] = None
  /\ job.tail # NoTail =>
       row[Conv] # None /\ row[Conv].dir = job.home /\ row[Conv].count = job.tail

TargetIsSound ==
  /\ owner[job.target] \in {None, Conv}
  /\ job.tail # NoTail => job.target = job.home

HistoryIsWritten ==
  /\ file[job.target] = History(Conv, job.offset) /\ job.total = job.offset
  /\ History(Conv, job.offset) \subseteq links[job.target] \cup job.todo

JobIsSound ==
  /\ job # None => BindingIsSound
  /\ job # None /\ pc # "fetch" => TargetIsSound
  /\ pc \in {"mkdir", "payload", "history"} /\ job.tail = NoTail =>
       file[job.target] \subseteq History(Conv, job.offset)
  /\ pc \in {"mkdir", "payload"} /\ job.tail # NoTail => HistoryIsWritten
  /\ pc \in {"payload", "history", "attach"} => job.target \in dirs
  /\ pc = "history" => job.tail = NoTail /\ owner[job.target] = Conv
  /\ pc = "attach" => owner[job.target] = Conv /\ HistoryIsWritten

(* And no stamp is ahead of the clock, and one that is still current when  *)
(* the messages are in belongs to a whole history.                         *)
StampsAreSound ==
  /\ \A c \in Convs : lastUpdate[c] <= now /\ (row[c] # None => row[c].stamp <= now)
  /\ \A e \in page : e.stamp <= now
  /\ job # None => job.entry.stamp <= now
  /\ job # None /\ pc # "fetch" /\ job.entry.stamp = lastUpdate[Conv] =>
       job.offset = hist[Conv]

(* As long as no run was interrupted, the directory of a conversation is   *)
(* remembered by its row or by the process that is dumping it, and a       *)
(* messages.json that no process is changing holds what its row counts.    *)
Remembers(c, d) ==
  \/ row[c] # None /\ row[c].dir = d
  \/ /\ job # None /\ Conv = c
     /\ job.home = d \/ (job.home = None /\ job.target = d)

IsAtRest(c) == job = None \/ Conv # c \/ pc \in {"fetch", "append"}

UninterruptedIsSound ==
  interrupts = 0 =>
    /\ ~refused
    /\ \A d \in DirNames : owner[d] # None => Remembers(owner[d], d)
    /\ \A c \in Convs : row[c] # None /\ IsAtRest(c) =>
         file[row[c].dir] = History(c, row[c].count)

(* A directory is chosen after the fetch, and is the recorded one if there *)
(* is a record.                                                            *)
TargetIsChosen ==
  /\ pc = "fetch" => job.target = None
  /\ job # None /\ pc # "fetch" /\ job.home # None => job.target = job.home

(* All together, of which the proofs make their invariant.                 *)
EveryPhaseIsSound ==
  CountsFit /\ JobIsSound /\ StampsAreSound /\ TargetIsChosen /\ UninterruptedIsSound

(* A conversation has one directory, assigned once, forced or not: the     *)
(* date prefix does not chase later activity.  An interrupted forced run   *)
(* loses the assignment (resolve_conversation_dir, dir_record).            *)
OneDirectoryEach ==
  interrupts = 0 =>
    \A d1, d2 \in DirNames : owner[d1] # None /\ owner[d1] = owner[d2] => d1 = d2

(* A run interrupted anywhere can be repeated: messages.json never         *)
(* disagrees with the manifest, so no run is refused (append_messages).    *)
NoRunIsRefused == ~refused

(* The same as long as no run was interrupted.                             *)
RefusedOnlyIfInterrupted == refused => interrupts > 0

(* No step, forced or not, loses a stored message, and a row that stays    *)
(* keeps its directory and never goes back to fewer messages.              *)
NothingStoredIsLost ==
  [][/\ \A d \in DirNames : file[d] \subseteq file'[d]
     /\ \A c \in Convs : row[c] # None /\ row'[c] # None =>
          row'[c].dir = row[c].dir /\ row'[c].count >= row[c].count]_vars

IsDumped(c) ==
  hist[c] > 0 =>
    /\ row[c] # None
    /\ row[c].count = hist[c]
    /\ History(c, hist[c]) = file[row[c].dir]

AllDumped == \A c \in Convs : IsDumped(c)

(* Once people stop writing, runs of any kind complete the archive again   *)
(* and again, if none is interrupted and no directory is deleted.          *)
ArchiveCompletes == [](interrupts + deletions = 0) => []<>AllDumped

(* And whatever was interrupted or deleted, runs that force everything     *)
(* repair it, but for two conversations whose rows name one directory: a   *)
(* deleted name can be given to another conversation, a forced run keeps   *)
(* every recorded name, and the two overwrite each other from then on      *)
(* (run_messages, dir_record, resolve_conversation_dir).                   *)
SharesDirectory(c) ==
  \E x \in Convs \ {c} :
    row[c] # None /\ row[x] # None /\ row[x].dir = row[c].dir
ForcedRunsRepair ==
  []<><<StartRun(Convs)>>_vars =>
    []<>(\A c \in Convs : SharesDirectory(c) \/ IsDumped(c))

(* The run as a ledger of conversations: a claim is a row's count, and     *)
(* what is stored are the messages listed and fully linked in the recorded *)
(* directory, or in the one being written.                                 *)
Place(c) ==
  IF row[c] # None THEN row[c].dir
  ELSE IF job # None /\ job.entry.conv = c THEN job.target ELSE None

Ledger == INSTANCE DumpLedger WITH
  Items     <- Convs,
  published <- hist,
  stored    <- [c \in Convs |-> IF Place(c) = None THEN 0
                 ELSE Cardinality({m \in file[Place(c)] \cap links[Place(c)] : m[1] = c})],
  claimed   <- [c \in Convs |-> IF row[c] = None THEN 0 ELSE row[c].count]

(* Every step of the program is a step the ledger allows.                  *)
ImplementsLedger == Ledger!Spec

=============================================================================
