------------------------------ MODULE PostsSync ------------------------------
(***************************************************************************)
(* The dump of one child's posts (announcements and galleries): run of     *)
(* dump/sync.py, the posts table of dump/manifest.py, the directories and  *)
(* the shared media store of dump/writer.py.                               *)
(*                                                                         *)
(* As in MessagesSync every durable step is an action, Interrupt stands    *)
(* for whatever abandons a run, and posts keep appearing.  A post never    *)
(* changes once published.  Removing a directory tree is not atomic: its   *)
(* entries go one by one, in an order nobody chooses.                      *)
(***************************************************************************)
EXTENDS Integers, Sequences, FiniteSets

CONSTANTS
  Posts,          \* post ids
  Slug,           \* Slug[p]: the date and title slug, not unique
  Suffixed,       \* Suffixed[s, n]: s-n, which may be the slug of another post
  Media,          \* Media[p]: the sequence of the post's media contents
  MaxSuffix,      \* bound on the collision suffixes tried
  MaxMishaps,     \* bound on abandoned runs and directories the user deletes
  CanForce,       \* whether the user ever passes --force
  None

Slugs == {Slug[p] : p \in Posts}
Blobs == UNION {{Media[p][i] : i \in DOMAIN Media[p]} : p \in Posts}
Links == Nat \X Blobs    \* photos/<n><ext> -> _common/...

(* The names tried for a post, in turn: the base, base-1, base-2, ...      *)
Suffixes == 0 .. MaxSuffix
Try(p, n) == IF n = 0 THEN Slug[p] ELSE Suffixed[Slug[p], n]
NamesOf(p) == {Try(p, n) : n \in Suffixes}
DirNames == UNION {NamesOf(p) : p \in Posts}

Phases == {"idle", "walk", "resolve", "remove", "mkdir", "json", "texts", "media", "link"}

ASSUME ConstantsAssumption ==
  /\ Posts # {}
  /\ Media \in [Posts -> Seq(Blobs)]
  /\ MaxSuffix \in Nat /\ MaxMishaps \in Nat
  /\ CanForce \in BOOLEAN
ASSUME NamesAssumption ==
  \A p \in Posts : \A m, n \in Suffixes : Try(p, m) = Try(p, n) => m = n
ASSUME NoneAssumption == None \notin Posts /\ None \notin DirNames

VARIABLES
  published,              \* the posts on the platform
  row,                    \* row[p]: the recorded directory, or None
  dirs, owner, texts,     \* directories, the id in post.json, html and md written
  links, blobs,           \* media links of a directory, contents in _common/
  pc, force, owed, post, target, done,  \* the running process
  interrupts, deletions

disk   == <<dirs, owner, texts, links, blobs>>
job    == <<post, target, done>>
counts == <<interrupts, deletions>>
vars == <<published, row, disk, pc, force, owed, job, counts>>

Init ==
  /\ published = {} /\ row = [p \in Posts |-> None]
  /\ dirs = {} /\ blobs = {}
  /\ owner = [d \in DirNames |-> None]
  /\ texts = [d \in DirNames |-> FALSE]
  /\ links = [d \in DirNames |-> {}]
  /\ pc = "idle" /\ force = {} /\ owed = {}
  /\ post = None /\ target = None /\ done = 0
  /\ interrupts = 0 /\ deletions = 0

-----------------------------------------------------------------------------
PublishPost(p) ==
  /\ p \notin published
  /\ published' = published \cup {p}
  /\ UNCHANGED <<row, disk, pc, force, owed, job, counts>>

MishapsLeft == interrupts + deletions < MaxMishaps

(* A directory, with everything in it, disappears.                         *)
Vanish(d) ==
  /\ dirs' = dirs \ {d}
  /\ owner' = [owner EXCEPT ![d] = None]
  /\ texts' = [texts EXCEPT ![d] = FALSE]
  /\ links' = [links EXCEPT ![d] = {}]
  /\ UNCHANGED blobs

DeleteDirectory(d) ==
  /\ pc = "idle" /\ d \in dirs /\ MishapsLeft
  /\ deletions' = deletions + 1
  /\ Vanish(d)
  /\ UNCHANGED <<published, row, pc, force, owed, job, interrupts>>

StartRun(F) ==
  /\ pc = "idle"
  /\ F = {} \/ CanForce
  /\ pc' = "walk" /\ force' = F /\ owed' = published
  /\ UNCHANGED <<published, row, disk, job, counts>>

(* Both ends of a run: the process forgets everything.                     *)
Stop ==
  /\ pc' = "idle" /\ force' = {} /\ owed' = {}
  /\ post' = None /\ target' = None /\ done' = 0

(* The first empty page ends the walk; TimelineWalk shows that every post  *)
(* that existed when the walk began has been yielded by then.              *)
EndWalk ==
  /\ pc = "walk" /\ owed = {}
  /\ Stop
  /\ UNCHANGED <<published, row, disk, counts>>

IsForced(p) == Slug[p] \in force
IsDumpedIfRecorded(p) == row[p] # None
IsDumped(p) == row[p] # None /\ row[p] \in dirs

(* The walk may yield a post twice, when a new one shifts the pages.       *)
SkipPost(p) ==
  /\ pc = "walk" /\ p \in published
  /\ ~IsForced(p) /\ IsDumped(p)
  /\ owed' = owed \ {p}
  /\ UNCHANGED <<published, row, disk, pc, force, job, counts>>

ForcedRowKept(p) == row[p]
ForcedRow(p) == None

(* A forced post loses its row before anything on disk is touched.         *)
TakePost(p) ==
  /\ pc = "walk" /\ p \in published
  /\ IsForced(p) \/ ~IsDumped(p)
  /\ owed' = owed \ {p}
  /\ post' = p
  /\ row' = [row EXCEPT ![p] = IF IsForced(p) THEN ForcedRow(p) ELSE @]
  /\ pc' = "resolve"
  /\ UNCHANGED <<published, disk, force, target, done, counts>>

-----------------------------------------------------------------------------
(* resolve_post_dir: the first of base, base-1, base-2, ... that is free   *)
(* or holds a post.json naming this post, removed if it exists and made    *)
(* anew.                                                                   *)
AvailableIfFree(d) == d \notin dirs
Available(d) == d \notin dirs \/ owner[d] = post

ResolveDir ==
  /\ pc = "resolve"
  /\ \E n \in Suffixes :
       /\ Available(Try(post, n))
       /\ \A m \in 0 .. (n - 1) : ~Available(Try(post, m))
       /\ target' = Try(post, n)
  /\ pc' = IF target' \in dirs THEN "remove" ELSE "mkdir"
  /\ UNCHANGED <<published, row, disk, force, owed, post, done, counts>>

(* One more entry of the tree is unlinked.                                 *)
RemoveEntry ==
  /\ pc = "remove"
  /\ \/ /\ owner[target] # None
        /\ owner' = [owner EXCEPT ![target] = None]
        /\ UNCHANGED <<texts, links>>
     \/ /\ texts[target]
        /\ texts' = [texts EXCEPT ![target] = FALSE]
        /\ UNCHANGED <<owner, links>>
     \/ \E l \in links[target] :
          /\ links' = [links EXCEPT ![target] = @ \ {l}]
          /\ UNCHANGED <<owner, texts>>
  /\ UNCHANGED <<published, row, dirs, blobs, pc, force, owed, job, counts>>

RemoveDirectory ==
  /\ pc = "remove"
  /\ owner[target] = None /\ ~texts[target] /\ links[target] = {}
  /\ dirs' = dirs \ {target}
  /\ pc' = "mkdir"
  /\ UNCHANGED <<published, row, owner, texts, links, blobs, force, owed, job, counts>>

MakeDirectory ==
  /\ pc = "mkdir"
  /\ dirs' = dirs \cup {target}
  /\ pc' = "json"
  /\ UNCHANGED <<published, row, owner, texts, links, blobs, force, owed, job, counts>>

WriteJson ==
  /\ pc = "json"
  /\ owner' = [owner EXCEPT ![target] = post]
  /\ pc' = "texts"
  /\ UNCHANGED <<published, row, dirs, texts, links, blobs, force, owed, job, counts>>

(* post.html, then post.md.                                                *)
WriteTexts ==
  /\ pc = "texts"
  /\ texts' = [texts EXCEPT ![target] = TRUE]
  /\ pc' = "media"
  /\ UNCHANGED <<published, row, dirs, owner, links, blobs, force, owed, job, counts>>

(* An OSError in write_post removes the directory and fails the run.       *)
WritePostFails ==
  /\ pc \in {"json", "texts"} /\ MishapsLeft
  /\ interrupts' = interrupts + 1
  /\ Vanish(target)
  /\ Stop
  /\ UNCHANGED <<published, row, deletions>>

(* The next medium: into _common/ unless its content is there already...   *)
StoreMedium ==
  /\ pc = "media" /\ done < Len(Media[post])
  /\ blobs' = blobs \cup {Media[post][done + 1]}
  /\ pc' = "link"
  /\ UNCHANGED <<published, row, dirs, owner, texts, links, force, owed, job, counts>>

(* ... then linked under its number, or copied where links are refused     *)
(* (DumpTree has the copy that is cut short).                              *)
LinkMedium ==
  /\ pc = "link"
  /\ links' = [links EXCEPT ![target] = @ \cup {<<done + 1, Media[post][done + 1]>>}]
  /\ done' = done + 1
  /\ pc' = "media"
  /\ UNCHANGED <<published, row, dirs, owner, texts, blobs, force, owed, post, target, counts>>

MediaMayLag == TRUE
MediaAreDone == done = Len(Media[post])

RecordPost ==
  /\ pc = "media" /\ MediaAreDone
  /\ row' = [row EXCEPT ![post] = target]
  /\ pc' = "walk"
  /\ post' = None /\ target' = None /\ done' = 0
  /\ UNCHANGED <<published, disk, force, owed, counts>>

Interrupt ==
  /\ pc # "idle" /\ MishapsLeft
  /\ interrupts' = interrupts + 1
  /\ Stop
  /\ UNCHANGED <<published, row, disk, deletions>>

-----------------------------------------------------------------------------
Yield(p) == SkipPost(p) \/ TakePost(p)

Process ==
  \/ EndWalk
  \/ \E p \in owed : Yield(p)
  \/ ResolveDir \/ RemoveEntry \/ RemoveDirectory \/ MakeDirectory
  \/ WriteJson \/ WriteTexts
  \/ StoreMedium \/ LinkMedium \/ RecordPost

Next ==
  \/ \E p \in Posts : PublishPost(p)
  \/ \E d \in DirNames : DeleteDirectory(d)
  \/ \E F \in SUBSET Slugs : StartRun(F)
  \/ \E p \in Posts : Yield(p)
  \/ Process
  \/ WritePostFails
  \/ Interrupt

Spec == Init /\ [][Next]_vars

(* A run goes on until it ends or fails: a walk has finitely many pages,   *)
(* so posts yielded again do not keep it from those it owes, nor from its  *)
(* end.  The user keeps starting plain runs.                               *)
FairSpec ==
  /\ Spec
  /\ WF_vars(Process) /\ SF_vars(EndWalk \/ \E p \in owed : Yield(p))
  /\ WF_vars(StartRun({}))

-----------------------------------------------------------------------------
(* Every variable stays in its range, and files exist in directories only. *)
TypeOK ==
  /\ published \subseteq Posts
  /\ row \in [Posts -> DirNames \cup {None}]
  /\ dirs \subseteq DirNames
  /\ owner \in [DirNames -> Posts \cup {None}]
  /\ texts \in [DirNames -> BOOLEAN]
  /\ links \in [DirNames -> SUBSET Links]
  /\ blobs \subseteq Blobs
  /\ pc \in Phases /\ force \subseteq Slugs /\ owed \subseteq Posts
  /\ post \in Posts \cup {None} /\ target \in DirNames \cup {None}
  /\ done \in Nat
  /\ \A d \in DirNames \ dirs : owner[d] = None /\ ~texts[d] /\ links[d] = {}
  /\ interrupts \in Nat /\ deletions \in Nat /\ interrupts + deletions <= MaxMishaps

(* Directory d is a complete dump of p: all three files, every medium      *)
(* linked under its number, and every link leading to stored bytes.        *)
Complete(p, d) ==
  /\ d \in dirs /\ owner[d] = p /\ texts[d]
  /\ links[d] = {<<i, Media[p][i]>> : i \in DOMAIN Media[p]}
  /\ \A l \in links[d] : l[2] \in blobs

(* A manifest row is never ahead of the disk, unless the user deletes what *)
(* it claims: an interrupted dump, forced or not, cannot be mistaken for a *)
(* complete one, and no dump removes or overwrites another post's          *)
(* directory (force_clear, resolve_post_dir).                              *)
RecordedIsComplete ==
  deletions = 0 => \A p \in Posts : row[p] # None => Complete(p, row[p])

(* A post that runs can be trusted with: no directory was deleted, or no   *)
(* run was interrupted and no other post can be given the directory's      *)
(* name, neither as its own slug nor with a suffix ("walk" and 1, "walk    *)
(* 1" and none).                                                           *)
IsSafe(p) ==
  \/ deletions = 0
  \/ interrupts = 0 /\ \A q \in Posts \ {p} : row[p] \notin NamesOf(q)

(* What a run skips is there: the skip check accepts only whole dumps of   *)
(* the post itself.  Otherwise a deleted directory may be half rebuilt, or *)
(* taken by another post, with the row in place (run, recorded_dir).       *)
SkippedIsComplete ==
  [][\A p \in Posts : SkipPost(p) /\ IsSafe(p) => Complete(p, row[p])]_vars

(* A post sits in a suffixed directory only because other posts hold the   *)
(* names before it: no orphans, unless a directory was deleted or a run    *)
(* interrupted between making one and writing its post.json                *)
(* (resolve_post_dir).                                                     *)
NoOrphanedNames ==
  interrupts = 0 /\ deletions = 0 /\ pc \in {"idle", "walk"} =>
    \A p \in Posts : \A n \in Suffixes : row[p] = Try(p, n) =>
      \A m \in 0 .. (n - 1) : owner[Try(p, m)] \notin {None, p}

(* Runs repair interruptions, and deleted directories: again and again     *)
(* every published post is recorded and complete, except where the skip    *)
(* check is no longer sound (run).                                         *)
ArchiveCompletes ==
  []<>(\A p \in published : IsSafe(p) => row[p] # None /\ Complete(p, row[p]))

(* The run as a ledger of posts, each published, stored and claimed at     *)
(* most once; the ledger does not see what the user deletes.               *)
Place(p) == IF row[p] # None THEN row[p] ELSE IF post = p THEN target ELSE None
Once(b) == IF b THEN 1 ELSE 0

Ledger == INSTANCE DumpLedger WITH
  Items     <- Posts,
  published <- [p \in Posts |-> Once(p \in published)],
  stored    <- [p \in Posts |->
                   Once(\/ Place(p) # None /\ Complete(p, Place(p))
                        \/ deletions > 0 /\ row[p] # None)],
  claimed   <- [p \in Posts |-> Once(row[p] # None)]

(* Every step of the program is a step the ledger allows.                  *)
ImplementsLedger == Ledger!Spec

=============================================================================
