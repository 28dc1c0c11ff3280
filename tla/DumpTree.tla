------------------------------ MODULE DumpTree ------------------------------
(***************************************************************************)
(* The media of a dump: the content-addressed store _common/ and the files *)
(* of the posts that point into it, as run of dump/sync.py and             *)
(* write_deduped_media and link_media_to_post of dump/writer.py leave them.*)
(* PostsSync says which directory a post gets; here a post has one, and    *)
(* what matters is the content: a blob of the store is good or, after disk *)
(* damage, bad, and a media file is a link into the store or a copy.       *)
(* Messages link their attachments the same way (link_message_attachment). *)
(***************************************************************************)
EXTENDS Naturals, Sequences, FiniteSets

CONSTANTS
  Items,        \* Items[p]: the media of post p, pairs of a kind and the bytes:
                \* photos and videos as they are mixed, then attachments
  MaxMishaps,   \* bound on damages, deletions and abandoned runs together
  None

Posts == DOMAIN Items    \* numbered as the timeline lists them
Kinds == {"photos", "videos", "attachments"}

(* A file of the store has its kind in its path: bytes that come as two    *)
(* kinds are stored twice.  A media file of a post: photos/<n><ext>, ...   *)
Blobs == UNION {{Items[p][i] : i \in DOMAIN Items[p]} : p \in Posts}
Slots == UNION {{<<p, Items[p][i][1], n>> : i, n \in DOMAIN Items[p]} : p \in Posts}
Files == {"link", "good", "bad", "torn"} \X Blobs
OfPost(p) == {s \in Slots : s[1] = p}

ASSUME DumpConstants ==
  /\ Items \in Seq(Seq(Blobs)) /\ None \notin Posts \cup Files
  /\ \A b \in Blobs : b[1] \in Kinds
  /\ MaxMishaps \in Nat

VARIABLES
  symlinks,     \* the file system has symbolic links
  store,        \* store[b]: "absent", "good" or "bad"
  temps,        \* blobs with a .tmp beside them in the store
  dirs,         \* posts whose directory exists
  written,      \* posts whose directory holds post.json
  media,        \* media[s]: None, or a link to a blob or a copy of one: good,
                \* bad, or torn, that is, not all of it
  recorded,     \* posts with a row
  pc, force, owed, post, done,   \* the running sync
  counts,       \* post_counts
  mishaps

tree == <<symlinks, store, temps, dirs, written, media>>
NoneYet == [k \in Kinds |-> 0]
sync == <<pc, force, owed, post, done, counts>>
syncVars == <<tree, recorded, sync, mishaps>>

SyncInit ==
  /\ symlinks \in BOOLEAN
  /\ store = [b \in Blobs |-> "absent"] /\ temps = {}
  /\ dirs = {} /\ written = {} /\ media = [s \in Slots |-> None]
  /\ recorded = {}
  /\ pc = "idle" /\ force = {} /\ owed = {} /\ post = None
  /\ done = 0 /\ counts = NoneYet /\ mishaps = 0

-----------------------------------------------------------------------------
StartSync(F) ==
  /\ pc = "idle"
  /\ pc' = "walk" /\ force' = F /\ owed' = Posts
  /\ UNCHANGED <<tree, recorded, post, done, counts, mishaps>>

Stop ==
  /\ pc' = "idle" /\ force' = {} /\ owed' = {} /\ post' = None
  /\ done' = 0 /\ counts' = NoneYet

EndSync ==
  /\ pc = "walk" /\ owed = {}
  /\ Stop
  /\ UNCHANGED <<tree, recorded, mishaps>>

IsNext(p) == p \in owed /\ \A r \in owed : p <= r
IsForcedNever(p) == FALSE
IsForced(p) == p \in force
IsDumped(p) == p \in recorded /\ p \in dirs

SkipPost(p) ==
  /\ pc = "walk" /\ IsNext(p)
  /\ IsDumped(p) /\ ~IsForced(p)
  /\ owed' = owed \ {p}
  /\ UNCHANGED <<tree, recorded, pc, force, post, done, counts, mishaps>>

TakePost(p) ==
  /\ pc = "walk" /\ IsNext(p)
  /\ ~IsDumped(p) \/ IsForced(p)
  /\ owed' = owed \ {p} /\ post' = p /\ done' = 0 /\ counts' = NoneYet
  /\ recorded' = recorded \ {r \in {p} : IsForced(r)}
  /\ pc' = "prepare"
  /\ UNCHANGED <<tree, force, mishaps>>

WithoutMedia(p) == [s \in Slots |-> IF s[1] = p THEN None ELSE media[s]]

(* resolve_post_dir: what is left of an earlier dump goes, and a new       *)
(* directory is made.  One without a post.json stays behind under its      *)
(* name, and the post moves on to the next name.                           *)
PrepareDirectory ==
  /\ pc = "prepare"
  /\ dirs' = dirs \cup {post} /\ written' = written \ {post}
  /\ media' = WithoutMedia(post)
  /\ pc' = "texts"
  /\ UNCHANGED <<symlinks, store, temps, recorded, force, owed, post, done, counts, mishaps>>

WriteTexts ==
  /\ pc = "texts"
  /\ written' = written \cup {post}
  /\ pc' = "media"
  /\ UNCHANGED <<symlinks, store, temps, dirs, media, recorded, force, owed, post, done, counts, mishaps>>

-----------------------------------------------------------------------------
HasMore == done < Len(Items[post])
Blob == Items[post][done + 1]

(* photos and videos number their files independently.                     *)
NumberedTogether == done + 1
NumberedByKind == counts[Blob[1]] + 1
Slot == <<post, Blob[1], NumberedByKind>>

(* write_deduped_media: a file that is there is read and checked.          *)
FindBlob ==
  /\ pc = "media" /\ HasMore /\ store[Blob] = "good"
  /\ pc' = "link"
  /\ UNCHANGED <<tree, recorded, force, owed, post, done, counts, mishaps>>

(* dedup_collision: the whole run ends.                                    *)
RefuseBlob ==
  /\ pc = "media" /\ HasMore /\ store[Blob] = "bad"
  /\ Stop
  /\ UNCHANGED <<tree, recorded, mishaps>>

(* What the store holds of a file while it is written: nothing, its bytes  *)
(* are in the .tmp.                                                        *)
InPlace(b) == [store EXCEPT ![b] = "bad"]
Aside(b) == store

OpenBlob ==
  /\ pc = "media" /\ HasMore /\ store[Blob] = "absent"
  /\ temps' = temps \cup {Blob}
  /\ store' = Aside(Blob)
  /\ pc' = "rename"
  /\ UNCHANGED <<symlinks, dirs, written, media, recorded, force, owed, post, done, counts, mishaps>>

RenameBlob ==
  /\ pc = "rename"
  /\ temps' = temps \ {Blob}
  /\ store' = [store EXCEPT ![Blob] = "good"]
  /\ pc' = "link"
  /\ UNCHANGED <<symlinks, dirs, written, media, recorded, force, owed, post, done, counts, mishaps>>

LinkMedia ==
  /\ pc = "link" /\ symlinks
  /\ media' = [media EXCEPT ![Slot] = <<"link", Blob>>]
  /\ done' = done + 1 /\ counts' = [counts EXCEPT ![Blob[1]] = @ + 1]
  /\ pc' = "media"
  /\ UNCHANGED <<symlinks, store, temps, dirs, written, recorded, force, owed, post, mishaps>>

(* Without symbolic links the file is copied, straight onto its name, and  *)
(* a run that ends meanwhile leaves what there is of it.  The copy is of   *)
(* what the store holds by now; the user deletes nothing from the store    *)
(* under a running sync.                                                   *)
BeginCopy ==
  /\ pc = "link" /\ ~symlinks
  /\ media' = [media EXCEPT ![Slot] = <<"torn", Blob>>]
  /\ pc' = "copy"
  /\ UNCHANGED <<symlinks, store, temps, dirs, written, recorded, force, owed, post, done,
                 counts, mishaps>>

EndCopy ==
  /\ pc = "copy"
  /\ media' = [media EXCEPT ![Slot] = <<store[Blob], Blob>>]
  /\ done' = done + 1 /\ counts' = [counts EXCEPT ![Blob[1]] = @ + 1]
  /\ pc' = "media"
  /\ UNCHANGED <<symlinks, store, temps, dirs, written, recorded, force, owed, post, mishaps>>

RecordPost ==
  /\ pc = "media" /\ ~HasMore
  /\ recorded' = recorded \cup {post}
  /\ post' = None /\ done' = 0 /\ counts' = NoneYet /\ pc' = "walk"
  /\ UNCHANGED <<tree, force, owed, mishaps>>

InterruptSync ==
  /\ pc # "idle" /\ mishaps < MaxMishaps
  /\ mishaps' = mishaps + 1
  /\ Stop
  /\ UNCHANGED <<tree, recorded>>

SyncStep ==
  \/ EndSync
  \/ \E p \in Posts : SkipPost(p) \/ TakePost(p)
  \/ PrepareDirectory \/ WriteTexts
  \/ FindBlob \/ RefuseBlob \/ OpenBlob \/ RenameBlob
  \/ LinkMedia \/ BeginCopy \/ EndCopy
  \/ RecordPost

=============================================================================
