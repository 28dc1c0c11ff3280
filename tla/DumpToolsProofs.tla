--------------------------- MODULE DumpToolsProofs ---------------------------
(***************************************************************************)
(* For every timeline with its media and any number of mishaps: what the   *)
(* commands and the sync make of the tree, whoever comes between whom.     *)
(*                                                                         *)
(* OnlyHarmIsSeen: a link is only made to a blob that is there, as no user *)
(* deletes one under a running sync, and a copy is of what was there.  One *)
(* that is not whole is the copy in hand, or left by a run that ended.     *)
(*                                                                         *)
(* CleanIsSound: as long as nothing is damaged a blob only comes into      *)
(* being, so what verify has seen stays as it was.                         *)
(*                                                                         *)
(* RecordedIsWhole: the post being dumped has the media files of the items *)
(* done so far, and the number of each kind is the one of its last file;   *)
(* materialize puts a copy of the same blob where the link was, or where   *)
(* the link of a new dump will be.                                         *)
(***************************************************************************)
EXTENDS DumpTools, FiniteSetTheorems, TLAPS

(* The values the variables take.                                          *)
Statuses == {"absent", "good", "bad"}
Phases == {"idle", "walk", "prepare", "texts", "media", "rename", "link", "copy"}
Copies == {"good", "bad"} \X Blobs
DumpTypeOK ==
  /\ symlinks \in BOOLEAN /\ store \in [Blobs -> Statuses]
  /\ media \in [Slots -> Files \cup {None}]
  /\ pc \in Phases /\ post \in Posts \cup {None} /\ done \in Nat /\ counts \in [Kinds -> Nat]
  /\ copying \in (Slots \X Copies) \cup {None}
  /\ damaged \in BOOLEAN

(* A blob to be linked is there, one to be renamed into place is not.      *)
BlobIsReady ==
  /\ pc \notin {"idle", "walk"} => post \in Posts
  /\ pc \in {"rename", "link", "copy"} => HasMore
  /\ pc \in {"link", "copy"} => store[Blob] # "absent"
  /\ pc = "rename" => store[Blob] = "absent"
CopyIsGood == "bad" \notin harms /\ copying # None => copying[2][1] # "bad"
HarmIsSeen ==
  /\ "absent" \notin harms => \A s \in Slots : ~Dangles(s)
  /\ "bad" \notin harms =>
       /\ \A b \in Blobs : store[b] # "bad"
       /\ \A s \in Slots : media[s] # None => media[s][1] # "bad"
StoreInv == DumpTypeOK /\ BlobIsReady /\ CopyIsGood /\ HarmIsSeen

(* A verify that nothing overtakes has seen whatever is wrong, but for     *)
(* what it has still to do.                                                *)
Resolves(s) == IsLink(s) => store[BlobAt(s)] # "absent"
LinksAreSeen ==
  tool \in {"links", "blobs"} /\ ~damaged =>
    \A s \in Slots : Resolves(s) \/ s \in dangling \/ (tool = "links" /\ s \in todo)
BlobsAreSeen ==
  tool = "blobs" /\ ~damaged =>
    \A b \in Blobs : store[b] = "bad" => b \in todo \cup corrupt
VerifyHasNoVerdict == tool \in {"links", "blobs"} => verdict = "none"
CleanIsClean ==
  verdict = "clean" =>
    /\ \A s \in Slots : Resolves(s)
    /\ \A b \in Blobs : store[b] # "bad"
VerifyInv == LinksAreSeen /\ BlobsAreSeen /\ VerifyHasNoVerdict /\ CleanIsClean

(* The media files of a post, and those its first items make.              *)
FilesOf(p) == {<<s, BlobAt(s)>> : s \in {r \in OfPost(p) : media[r] # None}}
LinkOf(p, i) == <<<<p, Items[p][i][1], Cardinality(Before(p, i)) + 1>>, Items[p][i]>>
UpTo(p, n) == {LinkOf(p, i) : i \in 1 .. n}
KindUpTo(p, k, n) == {j \in 1 .. n : Items[p][j][1] = k}
PostIsPart ==
  pc \notin {"idle", "walk", "prepare"} =>
    /\ post \in dirs /\ done <= Len(Items[post])
    /\ UpTo(post, done) \subseteq FilesOf(post)
    /\ \A k \in Kinds : counts[k] = Cardinality(KindUpTo(post, k, done))
    /\ pc # "texts" => post \in written
NothingIsDone ==
  /\ pc \in {"idle", "walk", "prepare", "texts"} => done = 0 /\ counts = NoneYet
  /\ pc \in {"idle", "walk"} => post = None

(* Whatever is on a media file's name, or will be put there by materialize,*)
(* is of the item of that name.                                            *)
FilesAreItems ==
  \A s \in Slots : media[s] # None => s[1] \in dirs /\ <<s, BlobAt(s)>> \in PageLinks(s[1])
CopyIsItem ==
  copying # None =>
    /\ <<copying[1], copying[2][2]>> \in PageLinks(copying[1][1])
    /\ tool = "replace" => copying[1][1] \in dirs

IsWhole(p) == p \in written /\ PageLinks(p) = FilesOf(p)
IsExempt(p) == p \in hollow \/ (p = post /\ pc # "walk")
AllAreWhole == \A p \in recorded \cap dirs : IsExempt(p) \/ IsWhole(p)
WholeInv == PostIsPart /\ NothingIsDone /\ FilesAreItems /\ CopyIsItem /\ AllAreWhole

(* What is torn is the copy in hand, or in a post to be dumped again.      *)
TornIsInHand ==
  \A s \in Slots : IsTorn(s) =>
    /\ ~symlinks /\ Unfinished(s[1])
    /\ s[1] = post /\ pc # "prepare" => pc = "copy" /\ s = Slot

-----------------------------------------------------------------------------
(* The post being dumped has an item to go, and a media file to make of it.*)
LEMMA ItemIsBlob ==
  ASSUME NEW p \in Posts, NEW i \in DOMAIN Items[p]
  PROVE  Items[p][i] \in Blobs /\ Items[p][i][1] \in Kinds
  <1>1. Items[p][i] \in Blobs BY DEF Blobs
  <1> QED BY <1>1, DumpConstants

LEMMA BlobIsBlob ==
  ASSUME DumpTypeOK, HasMore, post \in Posts
  PROVE  /\ done + 1 \in DOMAIN Items[post]
         /\ Blob = Items[post][done + 1] /\ Blob \in Blobs /\ Blob[1] \in Kinds
  <1>1. Items[post] \in Seq(Blobs) BY DumpConstants DEF Posts
  <1>2. done + 1 \in DOMAIN Items[post] BY <1>1 DEF DumpTypeOK, HasMore
  <1> QED BY <1>2, ItemIsBlob DEF Blob

LEMMA NoFileIsNone == None \notin Files /\ None \notin Posts
  BY DumpConstants

LEMMA LinksAreFiles ==
  ASSUME DumpTypeOK, NEW s \in Slots, media[s] # None
  PROVE  media[s] \in Files /\ BlobAt(s) \in Blobs /\ media[s][1] \in {"link", "good", "bad", "torn"}
  BY DEF DumpTypeOK, Files, BlobAt

-----------------------------------------------------------------------------
LEMMA StoreInvInit == Init => StoreInv
  <1> SUFFICES ASSUME Init PROVE StoreInv
    OBVIOUS
  <1>1. /\ symlinks \in BOOLEAN /\ store = [b \in Blobs |-> "absent"] /\ media = [s \in Slots |-> None]
        /\ pc = "idle" /\ post = None /\ done = 0 /\ counts = [k \in Kinds |-> 0] /\ copying = None
        /\ damaged = FALSE
    BY DEF Init, SyncInit, NoneYet
  <1>2. DumpTypeOK BY <1>1 DEF DumpTypeOK, Statuses, Phases
  <1>3. HarmIsSeen BY <1>1 DEF HarmIsSeen, Dangles, IsLink
  <1> QED BY <1>1, <1>2, <1>3 DEF StoreInv, BlobIsReady, CopyIsGood

(* The steps of a sync.                                                    *)
LEMMA SyncKeepsStore ==
  ASSUME StoreInv, Sync
  PROVE  StoreInv'
<1> USE DEF DumpTypeOK
<1>1. DumpTypeOK /\ UNCHANGED <<damaged, harms>> /\ (pc # "prepare" => copying' = copying)
      /\ (copying' = copying \/ copying' = None)
  BY DEF StoreInv, Sync, Lost
<1>2. CASE EndSync \/ RefuseBlob \/ RecordPost
  BY <1>1, <1>2 DEF EndSync, RefuseBlob, RecordPost, Stop, tree, NoneYet, Phases, StoreInv,
      BlobIsReady, CopyIsGood, HarmIsSeen, Dangles, IsLink, BlobAt
<1>3. ASSUME NEW p \in Posts, SkipPost(p) \/ TakePost(p) PROVE StoreInv'
  BY <1>1, <1>3 DEF SkipPost, TakePost, tree, NoneYet, Phases, StoreInv,
      BlobIsReady, HasMore, Blob, CopyIsGood, HarmIsSeen, Dangles, IsLink, BlobAt
<1>4. CASE PrepareDirectory
  <2>1. /\ pc = "prepare" /\ pc' = "texts" /\ media' = WithoutMedia(post)
        /\ UNCHANGED <<symlinks, store, post, done, counts>>
    BY <1>4 DEF PrepareDirectory
  <2>2. media' \in [Slots -> Files \cup {None}]
        /\ \A r \in Slots : media'[r] = media[r] \/ media'[r] = None
    BY <1>1, <2>1 DEF WithoutMedia
  <2>3. HarmIsSeen'
    BY <1>1, <2>1, <2>2 DEF StoreInv, HarmIsSeen, Dangles, IsLink, BlobAt
  <2> QED BY <1>1, <2>1, <2>2, <2>3 DEF StoreInv, BlobIsReady, CopyIsGood, Phases
<1>5. CASE WriteTexts
  BY <1>1, <1>5 DEF WriteTexts, Phases, StoreInv,
      BlobIsReady, HasMore, Blob, CopyIsGood, HarmIsSeen, Dangles, IsLink, BlobAt
<1>6. CASE FindBlob
  BY <1>1, <1>6 DEF FindBlob, tree, Phases, StoreInv,
      BlobIsReady, HasMore, Blob, CopyIsGood, HarmIsSeen, Dangles, IsLink, BlobAt
<1>7. CASE OpenBlob
  BY <1>1, <1>7 DEF OpenBlob, Aside, Phases, StoreInv,
      BlobIsReady, HasMore, Blob, CopyIsGood, HarmIsSeen, Dangles, IsLink, BlobAt
<1>8. CASE RenameBlob
  <2>1. /\ pc = "rename" /\ pc' = "link" /\ store' = [store EXCEPT ![Blob] = "good"]
        /\ UNCHANGED <<symlinks, media, post, done, counts>>
    BY <1>8 DEF RenameBlob
  <2>2. post \in Posts /\ HasMore /\ Blob \in Blobs
    BY <1>1, <2>1, BlobIsBlob DEF StoreInv, BlobIsReady
  <2>3. Blob' = Blob /\ HasMore' = HasMore BY <2>1 DEF Blob, HasMore
  <2>4. /\ store' \in [Blobs -> Statuses] /\ store'[Blob] = "good"
        /\ \A b \in Blobs : store'[b] = "good" \/ store'[b] = store[b]
    BY <1>1, <2>1, <2>2 DEF Statuses
  <2>5. HarmIsSeen'
    <3>1. \A r \in Slots : Dangles(r)' => Dangles(r)
      BY <1>1, <2>1, <2>4, LinksAreFiles DEF Dangles, IsLink, BlobAt
    <3> QED BY <1>1, <2>1, <2>4, <3>1 DEF StoreInv, HarmIsSeen
  <2>6. BlobIsReady' BY <2>1, <2>2, <2>3, <2>4 DEF BlobIsReady
  <2> QED BY <1>1, <2>1, <2>4, <2>5, <2>6 DEF StoreInv, CopyIsGood, Phases
<1>9. CASE LinkMedia \/ BeginCopy \/ EndCopy
  <2>1. /\ pc \in {"link", "copy"} /\ copying' = copying
        /\ UNCHANGED <<symlinks, store, post>>
        /\ \/ pc' = "media" /\ done' = done + 1 /\ counts' = [counts EXCEPT ![Blob[1]] = @ + 1]
           \/ pc' = "copy" /\ UNCHANGED <<done, counts>>
    BY <1>1, <1>9 DEF LinkMedia, BeginCopy, EndCopy
  <2>2. /\ post \in Posts /\ HasMore /\ Blob \in Blobs /\ Blob[1] \in Kinds
        /\ store[Blob] \in {"good", "bad"}
    BY <1>1, <2>1, BlobIsBlob DEF StoreInv, BlobIsReady, Statuses
  <2>3. PICK f \in Files : /\ media' = [media EXCEPT ![Slot] = f]
                          /\ f[2] = Blob /\ f[1] \in {"link", "torn", store[Blob]}
    <3>1. PICK x \in {"link", "torn", store[Blob]} : media' = [media EXCEPT ![Slot] = <<x, Blob>>]
      BY <1>9 DEF LinkMedia, BeginCopy, EndCopy
    <3>2. <<x, Blob>> \in Files BY <2>2, <3>1 DEF Files
    <3> QED BY <3>1, <3>2
  <2>4. /\ media' \in [Slots -> Files \cup {None}]
        /\ \A r \in Slots : media'[r] = media[r] \/ media'[r] = f
    BY <1>1, <2>3
  <2>5. HarmIsSeen'
    <3>1. \A r \in Slots : Dangles(r)' => Dangles(r)
      BY <2>1, <2>2, <2>3, <2>4 DEF Dangles, IsLink, BlobAt
    <3> QED BY <1>1, <2>1, <2>2, <2>3, <2>4, <3>1 DEF StoreInv, HarmIsSeen
  <2>6. counts' \in [Kinds -> Nat] /\ done' \in Nat BY <1>1, <2>1, <2>2
  <2>7. BlobIsReady'
    <3>1. CASE pc' = "media" BY <2>1, <2>2, <3>1 DEF BlobIsReady
    <3>2. CASE pc' = "copy" /\ UNCHANGED <<done, counts>>
      <4>1. Blob' = Blob /\ HasMore' = HasMore BY <2>1, <3>2 DEF Blob, HasMore
      <4> QED BY <2>1, <2>2, <3>2, <4>1 DEF BlobIsReady
    <3> QED BY <2>1, <3>1, <3>2
  <2> QED BY <1>1, <2>1, <2>4, <2>5, <2>6, <2>7 DEF StoreInv, CopyIsGood, Phases
<1> QED
  BY <1>2, <1>3, <1>4, <1>5, <1>6, <1>7, <1>8, <1>9 DEF Sync, SyncStep

LEMMA StoreInvNext == StoreInv /\ [Next]_vars => StoreInv'
<1> SUFFICES ASSUME StoreInv, [Next]_vars PROVE StoreInv'
  OBVIOUS
<1> USE DEF DumpTypeOK
<1>0. DumpTypeOK BY DEF StoreInv
(* Nothing the invariant is about changes.                                 *)
<1>1. ASSUME UNCHANGED <<symlinks, store, media, pc, post, done, counts, harms>>,
             copying' = copying \/ copying' = None, damaged' \in BOOLEAN
      PROVE  StoreInv'
  BY <1>1 DEF StoreInv, BlobIsReady, HasMore, Blob, CopyIsGood, HarmIsSeen, Dangles, IsLink, BlobAt
<1>2. CASE Sync BY <1>2, SyncKeepsStore
<1>3. CASE BreakSync
  BY <1>0, <1>3 DEF BreakSync, InterruptSync, Stop, tree, toolVars, NoneYet, Phases, StoreInv,
      BlobIsReady, CopyIsGood, HarmIsSeen, Dangles, IsLink, BlobAt
<1>4. ASSUME \/ \E F \in {{}, Posts} : BeginSync(F)
             \/ ForceReported
      PROVE  StoreInv'
  BY <1>0, <1>4 DEF BeginSync, ForceReported, StartSync, tree, toolVars, Phases, StoreInv,
      BlobIsReady, HasMore, Blob, CopyIsGood, HarmIsSeen, Dangles, IsLink, BlobAt
<1>5. CASE StartVerify \/ StartMaterialize \/ StartIndex \/ ListBlobs \/ Report \/ OpenCopy
  BY <1>0, <1>1, <1>5
  DEF StartVerify, StartMaterialize, StartIndex, ListBlobs, Report, OpenCopy, syncVars, tree, sync
<1>6. ASSUME NEW s \in Slots, CheckLink(s) \/ PassLink(s) PROVE StoreInv'
  BY <1>0, <1>1, <1>6 DEF CheckLink, PassLink, syncVars, tree, sync
<1>7. ASSUME NEW b \in Blobs, HashBlob(b) PROVE StoreInv'
  BY <1>0, <1>1, <1>7 DEF HashBlob, syncVars, tree, sync
<1>8. ASSUME NEW p \in Posts, WritePage(p) PROVE StoreInv'
  BY <1>0, <1>1, <1>8 DEF WritePage, sync
<1>9. CASE Finish \/ Fail \/ BreakTool
  BY <1>0, <1>1, <1>9 DEF Finish, Fail, BreakTool, Forget, tree, sync
<1>10. ASSUME NEW s \in Slots, ReadLink(s) PROVE StoreInv'
  <2>1. /\ IsLink(s) /\ ~Dangles(s)
        /\ copying' = <<s, <<store[BlobAt(s)], BlobAt(s)>>>>
        /\ UNCHANGED <<symlinks, store, media, pc, post, done, counts, harms, damaged>>
    BY <1>10 DEF ReadLink, syncVars, tree, sync
  <2>2. BlobAt(s) \in Blobs /\ store[BlobAt(s)] \in {"good", "bad"}
    BY <1>0, <2>1, LinksAreFiles DEF IsLink, Dangles, Statuses
  <2>3. copying' \in Slots \X Copies BY <2>1, <2>2 DEF Copies
  <2>4. CopyIsGood' BY <2>1, <2>2 DEF StoreInv, HarmIsSeen, CopyIsGood
  <2> QED BY <1>0, <2>1, <2>3, <2>4
          DEF StoreInv, BlobIsReady, HasMore, Blob, HarmIsSeen, Dangles, IsLink, BlobAt
<1>11. CASE ReplaceLink
  <2>1. /\ copying # None /\ copying' = None
        /\ media' = [media EXCEPT ![copying[1]] = copying[2]]
        /\ UNCHANGED <<symlinks, store, pc, post, done, counts, harms, damaged>>
    BY <1>11 DEF ReplaceLink, sync
  <2>2. copying[1] \in Slots /\ copying[2] \in Files /\ copying[2][1] \in {"good", "bad"}
    BY <1>0, <2>1 DEF Copies, Files
  <2>3. /\ media' \in [Slots -> Files \cup {None}]
        /\ \A r \in Slots : media'[r] = media[r] \/ media'[r] = copying[2]
    BY <1>0, <2>1, <2>2
  <2>4. HarmIsSeen'
    BY <2>1, <2>2, <2>3 DEF StoreInv, CopyIsGood, HarmIsSeen, Dangles, IsLink, BlobAt
  <2> QED BY <1>0, <2>1, <2>3, <2>4 DEF StoreInv, BlobIsReady, HasMore, Blob, CopyIsGood
<1>12. ASSUME NEW b \in Blobs, NEW how \in {"bad", "absent"}, HarmBlob(b, how) PROVE StoreInv'
  <2>1. /\ store[b] = "good" /\ store' = [store EXCEPT ![b] = how]
        /\ how = "absent" => pc = "idle"
        /\ harms' = harms \cup {how} /\ damaged' \in BOOLEAN
        /\ UNCHANGED <<symlinks, media, pc, post, done, counts, copying>>
    BY <1>12 DEF HarmBlob, Damage, sync
  <2>2. store' \in [Blobs -> Statuses]
        /\ \A c \in Blobs : store'[c] = store[c] \/ (store[c] = "good" /\ store'[c] = how)
    BY <1>0, <2>1 DEF Statuses
  <2>3. BlobIsReady'
    <3>1. HasMore' = HasMore /\ Blob' = Blob BY <2>1 DEF HasMore, Blob
    <3>2. pc \in {"rename", "link", "copy"} => Blob \in Blobs
      BY <1>0, BlobIsBlob DEF StoreInv, BlobIsReady
    <3> QED BY <2>1, <2>2, <3>1, <3>2 DEF StoreInv, BlobIsReady
  <2>4. HarmIsSeen'
    <3>1. "absent" \notin harms' => \A s \in Slots : ~Dangles(s)'
      <4> SUFFICES ASSUME "absent" \notin harms', NEW s \in Slots, Dangles(s)' PROVE FALSE
        OBVIOUS
      <4>1. how = "bad" /\ "absent" \notin harms BY <2>1
      <4>2. media[s] # None /\ media[s][1] = "link" /\ store'[media[s][2]] = "absent"
        BY <2>1 DEF Dangles, IsLink, BlobAt
      <4>3. media[s][2] \in Blobs BY <1>0, <4>2, LinksAreFiles DEF BlobAt
      <4>4. store[media[s][2]] = "absent" BY <2>2, <4>1, <4>2, <4>3
      <4> QED BY <4>1, <4>2, <4>4 DEF StoreInv, HarmIsSeen, Dangles, IsLink, BlobAt
    <3>2. "bad" \notin harms' =>
            /\ \A c \in Blobs : store'[c] # "bad"
            /\ \A s \in Slots : media'[s] # None => media'[s][1] # "bad"
      BY <2>1, <2>2 DEF StoreInv, HarmIsSeen
    <3> QED BY <3>1, <3>2 DEF HarmIsSeen
  <2> QED BY <1>0, <2>1, <2>2, <2>3, <2>4 DEF StoreInv, CopyIsGood
<1>13. ASSUME NEW p \in Posts, DeleteDirectory(p) PROVE StoreInv'
  <2>1. /\ media' = WithoutMedia(p) /\ (copying' = copying \/ copying' = None)
        /\ UNCHANGED <<symlinks, store, pc, post, done, counts, harms, damaged>>
    BY <1>13 DEF DeleteDirectory, Lost, sync
  <2>2. media' \in [Slots -> Files \cup {None}]
        /\ \A r \in Slots : media'[r] = media[r] \/ media'[r] = None
    BY <1>0, <2>1 DEF WithoutMedia
  <2>3. HarmIsSeen'
    BY <2>1, <2>2 DEF StoreInv, HarmIsSeen, Dangles, IsLink, BlobAt
  <2> QED BY <1>0, <2>1, <2>2, <2>3 DEF StoreInv, BlobIsReady, HasMore, Blob, CopyIsGood
<1>14. CASE DeleteReported
  <2>1. /\ pc = "idle" /\ store' = [b \in Blobs |-> IF b \in corrupt THEN "absent" ELSE store[b]]
        /\ harms' = harms \cup {h \in {"absent"} : corrupt # {}}
        /\ UNCHANGED <<symlinks, media, pc, post, done, counts, copying, damaged>>
    BY <1>14 DEF DeleteReported, sync
  <2>2. /\ store' \in [Blobs -> Statuses]
        /\ \A c \in Blobs : store'[c] = store[c] \/ (store'[c] = "absent" /\ "absent" \in harms')
    BY <1>0, <2>1 DEF Statuses
  <2>3. HarmIsSeen'
    <3>1. "absent" \notin harms' => \A s \in Slots : ~Dangles(s)'
      <4> SUFFICES ASSUME "absent" \notin harms', NEW s \in Slots, Dangles(s)' PROVE FALSE
        OBVIOUS
      <4>1. "absent" \notin harms BY <2>1
      <4>2. media[s] # None /\ media[s][1] = "link" /\ store'[media[s][2]] = "absent"
        BY <2>1 DEF Dangles, IsLink, BlobAt
      <4>3. media[s][2] \in Blobs BY <1>0, <4>2, LinksAreFiles DEF BlobAt
      <4>4. store[media[s][2]] = "absent" BY <2>2, <4>2, <4>3
      <4> QED BY <4>1, <4>2, <4>4 DEF StoreInv, HarmIsSeen, Dangles, IsLink, BlobAt
    <3>2. "bad" \notin harms' =>
            /\ \A c \in Blobs : store'[c] # "bad"
            /\ \A s \in Slots : media'[s] # None => media'[s][1] # "bad"
      BY <2>1, <2>2 DEF StoreInv, HarmIsSeen
    <3> QED BY <3>1, <3>2 DEF HarmIsSeen
  <2> QED BY <1>0, <2>1, <2>2, <2>3 DEF StoreInv, BlobIsReady, CopyIsGood
<1>15. CASE UNCHANGED vars
  BY <1>0, <1>1, <1>15 DEF vars, toolVars, syncVars, tree, sync
<1> QED
  BY <1>2, <1>3, <1>4, <1>5, <1>6, <1>7, <1>8, <1>9, <1>10, <1>11, <1>12, <1>13, <1>14, <1>15
  DEF Next, ToolStep

-----------------------------------------------------------------------------
(* Where nothing is damaged, a blob that is there stays there, and none    *)
(* goes bad.                                                               *)
NothingGetsWorse ==
  /\ \A s \in Slots : Resolves(s) => Resolves(s)'
  /\ \A b \in Blobs : store'[b] = "bad" => store[b] = "bad"

LEMMA SyncMakesNothingWorse ==
  ASSUME StoreInv, Sync
  PROVE  NothingGetsWorse
<1>1. DumpTypeOK BY DEF StoreInv
<1>2. CASE UNCHANGED <<store, media>>
  BY <1>2 DEF NothingGetsWorse, Resolves, IsLink, BlobAt
<1>3. CASE PrepareDirectory
  <2>1. store' = store /\ media' = WithoutMedia(post) BY <1>3 DEF PrepareDirectory
  <2>2. \A s \in Slots : media'[s] = media[s] \/ media'[s] = None
    BY <2>1 DEF WithoutMedia
  <2> QED BY <2>1, <2>2 DEF NothingGetsWorse, Resolves, IsLink, BlobAt
<1>4. CASE RenameBlob
  <2>1. pc = "rename" /\ store' = [store EXCEPT ![Blob] = "good"] /\ media' = media
    BY <1>4 DEF RenameBlob
  <2>2. \A b \in Blobs : store'[b] = "good" \/ store'[b] = store[b]
    BY <1>1, <2>1 DEF DumpTypeOK
  <2> QED BY <1>1, <2>1, <2>2, LinksAreFiles DEF NothingGetsWorse, Resolves, IsLink, BlobAt
<1>5. CASE LinkMedia \/ BeginCopy \/ EndCopy
  <2>1. pc \in {"link", "copy"} /\ store' = store
    BY <1>5 DEF LinkMedia, BeginCopy, EndCopy
  <2>2. store[Blob] # "absent" BY <2>1 DEF StoreInv, BlobIsReady
  <2>3. PICK x : media' = [media EXCEPT ![Slot] = <<x, Blob>>]
    BY <1>5 DEF LinkMedia, BeginCopy, EndCopy
  <2>4. ASSUME NEW s \in Slots, Resolves(s) PROVE Resolves(s)'
    <3>1. media'[s] = media[s] \/ media'[s] = <<x, Blob>>
      BY <1>1, <2>3 DEF DumpTypeOK
    <3> QED BY <2>1, <2>2, <2>4, <3>1 DEF Resolves, IsLink, BlobAt
  <2> QED BY <2>1, <2>4 DEF NothingGetsWorse
<1> QED
  BY <1>2, <1>3, <1>4, <1>5
  DEF Sync, SyncStep, EndSync, SkipPost, TakePost, WriteTexts, FindBlob, RefuseBlob, OpenBlob,
      RecordPost, Stop, tree, Aside

LEMMA VerifyGoesOn ==
  ASSUME VerifyInv, NothingGetsWorse,
         tool' \notin {"links", "blobs"} \/ UNCHANGED <<tool, todo, dangling, corrupt, damaged>>,
         tool' \notin {"links", "blobs"} \/ verdict' = verdict,
         verdict' = "clean" => verdict = "clean"
  PROVE  VerifyInv'
<1> USE DEF VerifyInv, NothingGetsWorse
<1>1. LinksAreSeen' BY DEF LinksAreSeen
<1>2. BlobsAreSeen' BY DEF BlobsAreSeen
<1>3. VerifyHasNoVerdict' BY DEF VerifyHasNoVerdict
<1>4. CleanIsClean' BY DEF CleanIsClean
<1> QED BY <1>1, <1>2, <1>3, <1>4

LEMMA VerifyInvInit == Init => VerifyInv
  BY DEF Init, VerifyInv, LinksAreSeen, BlobsAreSeen, VerifyHasNoVerdict, CleanIsClean

LEMMA VerifyInvNext == StoreInv /\ VerifyInv /\ [Next]_vars => VerifyInv'
<1> SUFFICES ASSUME StoreInv, VerifyInv, [Next]_vars PROVE VerifyInv'
  OBVIOUS
<1>1. ASSUME UNCHANGED <<store, media>> PROVE NothingGetsWorse
  BY <1>1 DEF NothingGetsWorse, Resolves, IsLink, BlobAt
<1>2. CASE Sync
  <2>1. NothingGetsWorse BY <1>2, SyncMakesNothingWorse
  <2>2. UNCHANGED <<tool, todo, dangling, corrupt, verdict, damaged>>
    BY <1>2 DEF Sync, findings
  <2> QED BY <2>1, <2>2, VerifyGoesOn
<1>3. CASE BreakSync \/ \E F \in {{}, Posts} : BeginSync(F)
  <2>1. UNCHANGED <<store, media, tool, todo, dangling, corrupt, verdict, damaged>>
    BY <1>3 DEF BreakSync, InterruptSync, BeginSync, StartSync, tree, toolVars, findings
  <2> QED BY <1>1, <2>1, VerifyGoesOn
<1>4. CASE ForceReported
  <2>1. /\ verdict = "cleared" /\ verdict' = "none"
        /\ UNCHANGED <<store, media, tool, todo, corrupt, damaged>>
    BY <1>4 DEF ForceReported, StartSync, tree
  <2>2. tool' \notin {"links", "blobs"} BY <2>1 DEF VerifyInv, VerifyHasNoVerdict
  <2> QED BY <1>1, <2>1, <2>2, VerifyGoesOn
<1>5. CASE StartMaterialize \/ StartIndex \/ OpenCopy
  BY <1>1, <1>5, VerifyGoesOn DEF StartMaterialize, StartIndex, OpenCopy, syncVars, tree, findings
<1>6. ASSUME NEW s \in Slots, PassLink(s) \/ ReadLink(s) PROVE VerifyInv'
  BY <1>1, <1>6, VerifyGoesOn DEF PassLink, ReadLink, syncVars, tree, findings
<1>7. ASSUME NEW p \in Posts, WritePage(p) PROVE VerifyInv'
  BY <1>1, <1>7, VerifyGoesOn DEF WritePage, findings
<1>8. CASE Finish \/ Fail \/ BreakTool
  BY <1>1, <1>8, VerifyGoesOn DEF Finish, Fail, BreakTool, Forget, tree, findings
<1>9. CASE StartVerify
  BY <1>9 DEF StartVerify, syncVars, tree, VerifyInv, LinksAreSeen, BlobsAreSeen,
              VerifyHasNoVerdict, CleanIsClean, Resolves, IsLink, BlobAt, Links
<1>10. ASSUME NEW s \in Slots, CheckLink(s) PROVE VerifyInv'
  <2>1. /\ tool = "links" /\ todo' = todo \ {s}
        /\ dangling' = dangling \cup {r \in {s} : Dangles(r) \/ media[r] = None}
        /\ UNCHANGED <<store, media, tool, corrupt, verdict, damaged>>
    BY <1>10 DEF CheckLink, syncVars, tree
  <2>2. \A r \in Slots : Resolves(r)' = Resolves(r)
    BY <2>1 DEF Resolves, IsLink, BlobAt
  <2>3. Resolves(s) \/ s \in dangling'
    BY <2>1 DEF Resolves, Dangles
  <2>4. LinksAreSeen' BY <2>1, <2>2, <2>3 DEF VerifyInv, LinksAreSeen
  <2> QED BY <2>1, <2>2, <2>4
          DEF VerifyInv, BlobsAreSeen, VerifyHasNoVerdict, CleanIsClean
<1>11. CASE ListBlobs
  <2>1. /\ tool = "links" /\ todo = {} /\ tool' = "blobs"
        /\ todo' = {b \in Blobs : store[b] # "absent"}
        /\ UNCHANGED <<store, media, dangling, corrupt, verdict, damaged>>
    BY <1>11 DEF ListBlobs, syncVars, tree
  <2>2. \A r \in Slots : Resolves(r)' = Resolves(r)
    BY <2>1 DEF Resolves, IsLink, BlobAt
  <2> QED BY <2>1, <2>2
          DEF VerifyInv, LinksAreSeen, BlobsAreSeen, VerifyHasNoVerdict, CleanIsClean
<1>12. ASSUME NEW b \in Blobs, HashBlob(b) PROVE VerifyInv'
  <2>1. /\ tool = "blobs" /\ todo' = todo \ {b}
        /\ corrupt' = corrupt \cup {c \in {b} : store[c] = "bad"}
        /\ UNCHANGED <<store, media, tool, dangling, verdict, damaged>>
    BY <1>12 DEF HashBlob, IsCorrupt, syncVars, tree
  <2>2. \A r \in Slots : Resolves(r)' = Resolves(r)
    BY <2>1 DEF Resolves, IsLink, BlobAt
  <2>3. BlobsAreSeen' BY <2>1 DEF VerifyInv, BlobsAreSeen
  <2> QED BY <2>1, <2>2, <2>3
          DEF VerifyInv, LinksAreSeen, VerifyHasNoVerdict, CleanIsClean
<1>13. CASE Report
  <2>1. /\ tool = "blobs" /\ todo = {} /\ tool' = "idle"
        /\ verdict' = "clean" => dangling = {} /\ corrupt = {} /\ ~damaged
        /\ UNCHANGED <<store, media>>
    BY <1>13 DEF Report, syncVars, tree
  <2>2. \A r \in Slots : Resolves(r)' = Resolves(r)
    BY <2>1 DEF Resolves, IsLink, BlobAt
  <2>3. CleanIsClean'
    BY <2>1, <2>2 DEF VerifyInv, LinksAreSeen, BlobsAreSeen, CleanIsClean
  <2> QED BY <2>1, <2>3 DEF VerifyInv, LinksAreSeen, BlobsAreSeen, VerifyHasNoVerdict
<1>14. CASE ReplaceLink
  <2>1. /\ copying # None /\ media' = [media EXCEPT ![copying[1]] = copying[2]] /\ store' = store
        /\ tool' = "copy" /\ UNCHANGED <<verdict, damaged>>
    BY <1>14 DEF ReplaceLink, findings
  <2>2. copying[2][1] # "link" /\ media \in [Slots -> Files \cup {None}]
    BY <2>1 DEF StoreInv, DumpTypeOK, Copies
  <2>3. \A r \in Slots : media'[r] = media[r] \/ media'[r] = copying[2]
    BY <2>1, <2>2
  <2>4. NothingGetsWorse
    BY <2>1, <2>2, <2>3 DEF NothingGetsWorse, Resolves, IsLink, BlobAt
  <2> QED BY <2>1, <2>4, VerifyGoesOn
<1>15. ASSUME NEW b \in Blobs, NEW how \in {"bad", "absent"}, HarmBlob(b, how) PROVE VerifyInv'
  <2>1. /\ tool' = tool /\ (tool \in {"links", "blobs"} => damaged')
        /\ verdict' # "clean" /\ (verdict' = verdict \/ verdict' = "none")
    BY <1>15 DEF HarmBlob, Damage
  <2> QED BY <2>1 DEF VerifyInv, LinksAreSeen, BlobsAreSeen, VerifyHasNoVerdict, CleanIsClean
<1>16. ASSUME NEW p \in Posts, DeleteDirectory(p) PROVE VerifyInv'
  <2>1. /\ media' = WithoutMedia(p) /\ store' = store
        /\ UNCHANGED <<tool, todo, dangling, corrupt, verdict, damaged>>
    BY <1>16 DEF DeleteDirectory, findings
  <2>2. \A r \in Slots : media'[r] = media[r] \/ media'[r] = None
    BY <2>1 DEF WithoutMedia
  <2>3. NothingGetsWorse
    BY <2>1, <2>2 DEF NothingGetsWorse, Resolves, IsLink, BlobAt
  <2> QED BY <2>1, <2>3, VerifyGoesOn
<1>17. CASE DeleteReported
  <2>1. /\ verdict = "findings" /\ verdict' = "cleared" /\ tool' = tool
    BY <1>17 DEF DeleteReported
  <2> QED BY <2>1 DEF VerifyInv, LinksAreSeen, BlobsAreSeen, VerifyHasNoVerdict, CleanIsClean
<1>18. CASE UNCHANGED vars
  BY <1>1, <1>18, VerifyGoesOn DEF vars, toolVars, findings, syncVars, tree
<1> QED
  BY <1>2, <1>3, <1>4, <1>5, <1>6, <1>7, <1>8, <1>9, <1>10, <1>11, <1>12, <1>13, <1>14, <1>15,
     <1>16, <1>17, <1>18
  DEF Next, ToolStep

(* A clean report of verify is true, although a sync may have gone on      *)
(* under it, until something is damaged (verify, run).                     *)
THEOREM CleanReportIsSound == Spec => []CleanIsSound
  <1>1. StoreInv /\ VerifyInv => CleanIsSound
    <2> SUFFICES ASSUME StoreInv, VerifyInv, verdict = "clean", NEW s \in Links
                 PROVE  store[BlobAt(s)] = "good"
      BY DEF CleanIsSound
    <2>1. s \in Slots /\ IsLink(s) BY DEF Links
    <2>2. BlobAt(s) \in Blobs BY <2>1, LinksAreFiles DEF StoreInv, IsLink
    <2>3. store[BlobAt(s)] # "absent" /\ store[BlobAt(s)] # "bad"
      BY <2>1, <2>2 DEF VerifyInv, CleanIsClean, Resolves
    <2> QED BY <2>2, <2>3 DEF StoreInv, DumpTypeOK, Statuses
  <1> QED
    BY <1>1, StoreInvInit, StoreInvNext, VerifyInvInit, VerifyInvNext, PTL DEF Spec

-----------------------------------------------------------------------------
(* Numbering by kind.                                                      *)
LEMMA KindsAreFinite ==
  ASSUME NEW p, NEW k, NEW n \in Nat
  PROVE  IsFiniteSet(KindUpTo(p, k, n)) /\ Cardinality(KindUpTo(p, k, n)) \in 0 .. n
  <1>1. IsFiniteSet(1 .. n) /\ Cardinality(1 .. n) = n
    <2>1. /\ IsFiniteSet(1 .. n) 
          /\ Cardinality(1 .. n) = IF 1 > n THEN 0 ELSE n - 1 + 1
      BY FS_Interval
    <2> QED BY <2>1
  <1>2. KindUpTo(p, k, n) \subseteq 1 .. n BY DEF KindUpTo
  <1>3. /\ IsFiniteSet(KindUpTo(p, k, n))
        /\ Cardinality(KindUpTo(p, k, n)) <= Cardinality(1 .. n)
    BY <1>1, <1>2, FS_Subset
  <1>4. Cardinality(KindUpTo(p, k, n)) \in Nat BY <1>3, FS_CardinalityType
  <1> QED BY <1>1, <1>3, <1>4

LEMMA KindGrows ==
  ASSUME NEW p, NEW k, NEW n \in Nat
  PROVE  Cardinality(KindUpTo(p, k, n + 1))
           = Cardinality(KindUpTo(p, k, n)) + (IF Items[p][n + 1][1] = k THEN 1 ELSE 0)
  <1>1. CASE Items[p][n + 1][1] = k
    <2>1. KindUpTo(p, k, n + 1) = KindUpTo(p, k, n) \cup {n + 1}
      BY <1>1 DEF KindUpTo
    <2>2. n + 1 \notin KindUpTo(p, k, n) BY DEF KindUpTo
    <2>3. Cardinality(KindUpTo(p, k, n) \cup {n + 1}) = Cardinality(KindUpTo(p, k, n)) + 1
      BY <2>2, KindsAreFinite, FS_AddElement
    <2> QED BY <1>1, <2>1, <2>3
  <1>2. CASE Items[p][n + 1][1] # k
    <2>1. KindUpTo(p, k, n + 1) = KindUpTo(p, k, n)
      BY <1>2 DEF KindUpTo
    <2>2. Cardinality(KindUpTo(p, k, n)) \in Nat BY KindsAreFinite
    <2> QED BY <1>2, <2>1, <2>2
  <1> QED BY <1>1, <1>2

(* The next file of a kind has a number no earlier one has.                *)
LEMMA NumberIsNew ==
  ASSUME NEW p, NEW n \in Nat, NEW i \in 1 .. n
  PROVE  Cardinality(Before(p, i)) + 1 \in 1 .. Cardinality(KindUpTo(p, Items[p][i][1], n))
  <1> DEFINE k == Items[p][i][1]
  <1>1. PICK m \in Nat : i = m + 1 /\ m + 1 <= n
    <2>1. i - 1 \in Nat /\ i = (i - 1) + 1 /\ i <= n OBVIOUS
    <2> QED BY <2>1
  <1>2. Before(p, i) = KindUpTo(p, k, m)
    <2>1. i - 1 = m BY <1>1
    <2> QED BY <2>1 DEF Before, KindUpTo
  <1>3. Cardinality(KindUpTo(p, k, m + 1)) = Cardinality(KindUpTo(p, k, m)) + 1
    <2>1. Items[p][m + 1][1] = k BY <1>1
    <2> HIDE DEF k
    <2>2. Cardinality(KindUpTo(p, k, m + 1))
            = Cardinality(KindUpTo(p, k, m)) + (IF Items[p][m + 1][1] = k THEN 1 ELSE 0)
      BY KindGrows
    <2> QED BY <2>1, <2>2
  <1>4. Cardinality(KindUpTo(p, k, m + 1)) <= Cardinality(KindUpTo(p, k, n))
    <2> HIDE DEF k
    <2>1. KindUpTo(p, k, m + 1) \subseteq KindUpTo(p, k, n) BY <1>1 DEF KindUpTo
    <2>2. IsFiniteSet(KindUpTo(p, k, n)) BY KindsAreFinite
    <2> QED BY <2>1, <2>2, FS_Subset
  <1>5. /\ Cardinality(KindUpTo(p, k, m)) \in Nat /\ Cardinality(KindUpTo(p, k, n)) \in Nat
    <2> HIDE DEF k
    <2> QED BY KindsAreFinite
  <1> HIDE DEF k
  <1>6. Cardinality(Before(p, i)) + 1 \in 1 .. Cardinality(KindUpTo(p, k, n))
    BY <1>2, <1>3, <1>4, <1>5
  <1> QED BY <1>6 DEF k

LEMMA UpToGrows ==
  ASSUME NEW p, NEW n \in Nat
  PROVE  UpTo(p, n + 1) = UpTo(p, n) \cup {LinkOf(p, n + 1)}
  <1>1. 1 .. (n + 1) = (1 .. n) \cup {n + 1} OBVIOUS
  <1> QED BY <1>1 DEF UpTo

LEMMA NextLink ==
  ASSUME NEW p, NEW n \in Nat
  PROVE  LinkOf(p, n + 1) =
           LET k == Items[p][n + 1][1]
           IN  <<<<p, k, Cardinality(KindUpTo(p, k, n)) + 1>>, Items[p][n + 1]>>
  <1>1. (n + 1) - 1 = n OBVIOUS
  <1>2. Before(p, n + 1) = KindUpTo(p, Items[p][n + 1][1], n)
    BY <1>1 DEF Before, KindUpTo
  <1> QED BY <1>2 DEF LinkOf

LEMMA PageIsUpToLast ==
  ASSUME NEW p \in Posts
  PROVE  PageLinks(p) = UpTo(p, Len(Items[p])) /\ Len(Items[p]) \in Nat
  <1>1. Items[p] \in Seq(Blobs) BY DumpConstants DEF Posts
  <1>2. DOMAIN Items[p] = 1 .. Len(Items[p]) /\ Len(Items[p]) \in Nat BY <1>1
  <1> QED BY <1>2 DEF PageLinks, UpTo, LinkOf

(* No two items of a post have the same name.                              *)
LEMMA NumbersRise ==
  ASSUME NEW p, NEW j \in Nat \ {0}, NEW i \in 1 .. (j - 1), Items[p][i][1] = Items[p][j][1]
  PROVE  Cardinality(Before(p, i)) + 1 # Cardinality(Before(p, j)) + 1
  <1> DEFINE n == j - 1  k == Items[p][j][1]
  <1>1. n \in Nat /\ i \in 1 .. n OBVIOUS
  <1>2. Before(p, j) = KindUpTo(p, k, n) BY DEF Before, KindUpTo
  <1> HIDE DEF n, k
  <1>3. Cardinality(Before(p, i)) + 1 \in 1 .. Cardinality(KindUpTo(p, Items[p][i][1], n))
    BY <1>1, NumberIsNew
  <1>4. Items[p][i][1] = k BY DEF k
  <1>5. Cardinality(KindUpTo(p, k, n)) \in Nat BY <1>1, KindsAreFinite
  <1> QED BY <1>2, <1>3, <1>4, <1>5

LEMMA NamesDiffer ==
  ASSUME NEW p, NEW i \in Nat \ {0}, NEW j \in Nat \ {0}, LinkOf(p, i)[1] = LinkOf(p, j)[1]
  PROVE  i = j
  <1>1. /\ Items[p][i][1] = Items[p][j][1]
        /\ Cardinality(Before(p, i)) + 1 = Cardinality(Before(p, j)) + 1
    BY DEF LinkOf
  <1>2. CASE i < j
    <2>1. i \in 1 .. (j - 1) BY <1>2
    <2> QED BY <1>1, <2>1, NumbersRise
  <1>3. CASE j < i
    <2>1. j \in 1 .. (i - 1) BY <1>3
    <2> QED BY <1>1, <2>1, NumbersRise
  <1> QED BY <1>2, <1>3

LEMMA OneItemOfEachName ==
  ASSUME NEW p \in Posts, NEW s, NEW a, NEW b,
         <<s, a>> \in PageLinks(p), <<s, b>> \in PageLinks(p)
  PROVE  a = b
  <1>1. PageLinks(p) = UpTo(p, Len(Items[p])) /\ Len(Items[p]) \in Nat BY PageIsUpToLast
  <1>2. PICK i \in 1 .. Len(Items[p]) : <<s, a>> = LinkOf(p, i) BY <1>1 DEF UpTo
  <1>3. PICK j \in 1 .. Len(Items[p]) : <<s, b>> = LinkOf(p, j) BY <1>1 DEF UpTo
  <1>4. LinkOf(p, i)[1] = LinkOf(p, j)[1] BY <1>2, <1>3
  <1>5. i = j BY <1>1, <1>4, NamesDiffer
  <1>6. a = LinkOf(p, i)[2] /\ b = LinkOf(p, j)[2] BY <1>2, <1>3
  <1> QED BY <1>5, <1>6

(* A post keeps its files as long as each still has its content.           *)
LEMMA FilesStay ==
  ASSUME NEW p,
         \A s \in OfPost(p) : /\ (media'[s] = None) = (media[s] = None)
                              /\ media[s] # None => media'[s][2] = media[s][2]
  PROVE  FilesOf(p)' = FilesOf(p)
  BY DEF FilesOf, BlobAt

LEMMA FilesAreOfPage ==
  ASSUME WholeInv, NEW p
  PROVE  FilesOf(p) \subseteq PageLinks(p)
  BY DEF WholeInv, FilesAreItems, FilesOf, OfPost

LEMMA WholeInvInit == Init => WholeInv
  BY DEF Init, SyncInit, WholeInv, PostIsPart, NothingIsDone, FilesAreItems, CopyIsItem, AllAreWhole

LEMMA WholeGoesOn ==
  ASSUME WholeInv, UNCHANGED <<media, written, dirs, recorded, pc, post, done, counts, hollow>>,
         copying' = None \/ (copying' = copying /\ (tool' = tool \/ tool' # "replace"))
  PROVE  WholeInv'
<1>1. \A p : FilesOf(p)' = FilesOf(p) BY DEF FilesOf, BlobAt
<1>2. PostIsPart' /\ NothingIsDone' BY <1>1 DEF WholeInv, PostIsPart, NothingIsDone
<1>3. FilesAreItems' /\ CopyIsItem' BY DEF WholeInv, FilesAreItems, CopyIsItem, BlobAt
<1>4. AllAreWhole' BY <1>1 DEF WholeInv, AllAreWhole, IsExempt, IsWhole
<1> QED BY <1>2, <1>3, <1>4 DEF WholeInv

(* A step of the sync that writes no media file.                           *)
LEMMA SyncKeepsFiles ==
  ASSUME StoreInv, WholeInv, Sync, ~PrepareDirectory, ~(LinkMedia \/ BeginCopy \/ EndCopy)
  PROVE  WholeInv'
<1>1. UNCHANGED <<media, dirs, tool>>
  BY DEF Sync, SyncStep, EndSync, SkipPost, TakePost, WriteTexts, FindBlob, RefuseBlob,
         OpenBlob, RenameBlob, RecordPost, Stop, tree
<1>2. pc # "prepare" /\ copying' = copying
  BY DEF Sync, SyncStep, EndSync, SkipPost, TakePost, WriteTexts, FindBlob, RefuseBlob,
         OpenBlob, RenameBlob, RecordPost
<1>3. \A p : FilesOf(p)' = FilesOf(p) BY <1>1 DEF FilesOf, BlobAt
<1>4. FilesAreItems' /\ CopyIsItem' BY <1>1, <1>2 DEF WholeInv, FilesAreItems, CopyIsItem, BlobAt
<1>5. \A p \in recorded \cap dirs : IsExempt(p) \/ IsWhole(p)
  BY DEF WholeInv, AllAreWhole
<1>6. \A p : written' = written => (IsWhole(p)' <=> IsWhole(p)) BY <1>3 DEF IsWhole
<1>7. ASSUME PostIsPart', NothingIsDone',
             \A p \in recorded' \cap dirs : IsExempt(p)' \/ IsWhole(p)'
      PROVE  WholeInv'
  BY <1>1, <1>4, <1>7 DEF WholeInv, AllAreWhole
<1>8. CASE EndSync
  <2>1. /\ pc = "walk" /\ pc' = "idle" /\ post' = None /\ done' = 0 /\ counts' = NoneYet
        /\ recorded' = recorded /\ written' = written /\ hollow \subseteq hollow'
    BY <1>8 DEF EndSync, Stop, tree, Sync
  <2> QED BY <1>5, <1>6, <1>7, <2>1 DEF PostIsPart, NothingIsDone, IsExempt
<1>9. CASE RefuseBlob
  <2>1. /\ pc = "media" /\ pc' = "idle" /\ post' = None /\ done' = 0 /\ counts' = NoneYet
        /\ recorded' = recorded /\ written' = written /\ hollow' = hollow \cup Begun
    BY <1>9 DEF RefuseBlob, Stop, tree, Sync
  <2>2. \A p \in recorded' \cap dirs : IsExempt(p)' \/ IsWhole(p)'
    BY <1>5, <1>6, <2>1 DEF IsExempt, Begun
  <2> QED BY <1>7, <2>1, <2>2 DEF PostIsPart, NothingIsDone
<1>10. ASSUME NEW p \in Posts, SkipPost(p) PROVE WholeInv'
  <2>1. /\ pc' # "idle" /\ UNCHANGED <<written, recorded, pc, post, done, counts>>
    BY <1>10 DEF SkipPost, tree
  <2>2. hollow' = hollow BY <1>2, <2>1 DEF Sync
  <2> QED BY <1>1, <1>2, <2>1, <2>2, WholeGoesOn
<1>11. ASSUME NEW p \in Posts, TakePost(p) PROVE WholeInv'
  <2>1. /\ pc = "walk" /\ pc' = "prepare" /\ post' = p /\ done' = 0 /\ counts' = NoneYet
        /\ written' = written /\ recorded' \subseteq recorded
    BY <1>11 DEF TakePost, tree
  <2>2. hollow' = hollow BY <1>2, <2>1 DEF Sync
  <2>3. \A q \in recorded' \cap dirs : IsExempt(q)' \/ IsWhole(q)'
    BY <1>5, <1>6, <2>1, <2>2 DEF IsExempt
  <2> QED BY <1>7, <2>1, <2>3 DEF PostIsPart, NothingIsDone
<1>12. CASE WriteTexts
  <2>1. /\ pc = "texts" /\ pc' = "media" /\ written' = written \cup {post}
        /\ UNCHANGED <<recorded, post, done, counts>>
    BY <1>12 DEF WriteTexts
  <2>2. hollow' = hollow BY <1>2, <2>1 DEF Sync
  <2>3. \A q : IsWhole(q) => IsWhole(q)' BY <1>3, <2>1 DEF IsWhole
  <2>4. \A q \in recorded' \cap dirs : IsExempt(q)' \/ IsWhole(q)'
    BY <1>5, <2>1, <2>2, <2>3 DEF IsExempt
  <2>5. PostIsPart' BY <1>1, <1>3, <2>1 DEF WholeInv, PostIsPart
  <2> QED BY <1>7, <2>1, <2>4, <2>5 DEF NothingIsDone
<1>13. CASE FindBlob \/ OpenBlob \/ RenameBlob
  <2>1. /\ pc \in {"media", "rename"} /\ pc' \in {"rename", "link"}
        /\ UNCHANGED <<written, recorded, post, done, counts>>
    BY <1>13 DEF FindBlob, OpenBlob, RenameBlob, tree
  <2>2. hollow' = hollow BY <1>2, <2>1 DEF Sync
  <2>3. \A q \in recorded' \cap dirs : IsExempt(q)' \/ IsWhole(q)'
    BY <1>5, <1>6, <2>1, <2>2 DEF IsExempt
  <2>4. PostIsPart' BY <1>1, <1>3, <2>1 DEF WholeInv, PostIsPart
  <2> QED BY <1>7, <2>1, <2>3, <2>4 DEF NothingIsDone
<1>14. CASE RecordPost
  <2>1. /\ pc = "media" /\ pc' = "walk" /\ ~HasMore /\ written' = written
        /\ recorded' = recorded \cup {post} /\ post' = None /\ done' = 0 /\ counts' = NoneYet
    BY <1>14 DEF RecordPost, tree
  <2>2. hollow' = hollow BY <1>2, <2>1 DEF Sync
  <2>3. post \in Posts /\ done \in Nat BY <2>1 DEF StoreInv, BlobIsReady, DumpTypeOK
  <2>4. done = Len(Items[post])
    BY <2>1, <2>3, PageIsUpToLast DEF HasMore, WholeInv, PostIsPart
  <2>5. UpTo(post, done) \subseteq FilesOf(post) /\ post \in written
    BY <2>1 DEF WholeInv, PostIsPart
  <2>6. IsWhole(post)
    BY <2>3, <2>4, <2>5, PageIsUpToLast, FilesAreOfPage DEF IsWhole
  <2>7. \A q \in recorded' \cap dirs : IsExempt(q)' \/ IsWhole(q)'
    BY <1>5, <1>6, <2>1, <2>2, <2>6 DEF IsExempt
  <2> QED BY <1>7, <2>1, <2>7 DEF PostIsPart, NothingIsDone
<1> QED
  BY <1>8, <1>9, <1>10, <1>11, <1>12, <1>13, <1>14 DEF Sync, SyncStep

(* A directory that goes takes the .tmp in it along, and one that stays    *)
(* keeps its files.                                                        *)
LEMMA RemovedIsGone ==
  ASSUME StoreInv, WholeInv, NEW r, media' = WithoutMedia(r), copying' = Lost(r), tool' = tool,
         dirs \ {r} \subseteq dirs'
  PROVE  /\ FilesAreItems' /\ CopyIsItem'
         /\ FilesOf(r)' = {}
         /\ \A p : p # r => FilesOf(p)' = FilesOf(p)
<1>1. \A s \in Slots : media'[s] = IF s[1] = r THEN None ELSE media[s]
  BY DEF WithoutMedia
<1>2. FilesAreItems' BY <1>1 DEF WholeInv, FilesAreItems, BlobAt
<1>3. CopyIsItem' BY DEF WholeInv, CopyIsItem, Lost
<1>4. FilesOf(r)' = {}
  <2>1. \A s \in OfPost(r) : media'[s] = None BY <1>1 DEF OfPost
  <2> QED BY <2>1 DEF FilesOf
<1>5. ASSUME NEW p, p # r PROVE FilesOf(p)' = FilesOf(p)
  <2>1. \A s \in OfPost(p) : media'[s] = media[s] BY <1>1, <1>5 DEF OfPost
  <2> QED BY <2>1, FilesStay
<1> QED BY <1>2, <1>3, <1>4, <1>5

(* The directory is made anew.                                             *)
LEMMA PreparedIsEmpty ==
  ASSUME StoreInv, WholeInv, Sync, PrepareDirectory
  PROVE  WholeInv'
<1>1. /\ pc = "prepare" /\ pc' = "texts"
      /\ dirs' = dirs \cup {post} /\ written' = written \ {post}
      /\ media' = WithoutMedia(post)
      /\ UNCHANGED <<recorded, post, done, counts>>
  BY DEF PrepareDirectory
<1>2. copying' = Lost(post) /\ hollow' = hollow \ {post} /\ tool' = tool BY <1>1 DEF Sync
<1>3. post \in Posts /\ done = 0 /\ counts = NoneYet
  BY <1>1 DEF StoreInv, BlobIsReady, WholeInv, NothingIsDone
<1>4. /\ FilesAreItems' /\ CopyIsItem'
      /\ \A p : p # post => FilesOf(p)' = FilesOf(p)
  BY <1>1, <1>2, RemovedIsGone
<1>5. PostIsPart'
  <2>1. UpTo(post, 0) = {} BY DEF UpTo
  <2>2. \A k \in Kinds : counts[k] = Cardinality(KindUpTo(post, k, 0))
    <3>1. \A k : KindUpTo(post, k, 0) = {} BY DEF KindUpTo
    <3> QED BY <1>3, <3>1, FS_EmptySet DEF NoneYet
  <2>3. 0 <= Len(Items[post]) BY <1>3, PageIsUpToLast
  <2> QED BY <1>1, <1>3, <2>1, <2>2, <2>3 DEF PostIsPart
<1>6. AllAreWhole'
  BY <1>1, <1>2, <1>4 DEF WholeInv, AllAreWhole, IsExempt, IsWhole
<1> QED BY <1>1, <1>3, <1>4, <1>5, <1>6 DEF WholeInv, NothingIsDone

(* One media file more, or the beginning of it.                            *)
LEMMA LinkedIsOneMore ==
  ASSUME StoreInv, WholeInv, Sync, LinkMedia \/ BeginCopy \/ EndCopy
  PROVE  WholeInv'
<1> DEFINE k == Blob[1]
<1>1. /\ pc \in {"link", "copy"} /\ pc' \in {"media", "copy"}
      /\ IF pc' = "media"
         THEN done' = done + 1 /\ counts' = [counts EXCEPT ![k] = @ + 1]
         ELSE UNCHANGED <<done, counts>>
      /\ UNCHANGED <<written, dirs, recorded, post>>
  BY DEF LinkMedia, BeginCopy, EndCopy
<1>2. copying' = copying /\ hollow' = hollow /\ tool' = tool BY <1>1 DEF Sync
<1>3. /\ post \in Posts /\ HasMore /\ done \in Nat /\ counts \in [Kinds -> Nat]
      /\ media \in [Slots -> Files \cup {None}]
  BY <1>1 DEF StoreInv, BlobIsReady, DumpTypeOK
<1>4. /\ done + 1 \in DOMAIN Items[post] /\ Blob = Items[post][done + 1]
      /\ Blob \in Blobs /\ k \in Kinds
  BY <1>3, BlobIsBlob DEF StoreInv
<1>5. /\ post \in dirs /\ done <= Len(Items[post]) /\ post \in written
      /\ UpTo(post, done) \subseteq FilesOf(post)
      /\ \A j \in Kinds : counts[j] = Cardinality(KindUpTo(post, j, done))
  BY <1>1 DEF WholeInv, PostIsPart
<1>6. Slot = <<post, k, counts[k] + 1>> BY DEF Slot, NumberedByKind
<1>7. Slot \in Slots /\ Slot \in OfPost(post)
  <2>1. counts[k] \in 0 .. done BY <1>3, <1>4, <1>5, KindsAreFinite
  <2>2. DOMAIN Items[post] = 1 .. Len(Items[post]) /\ Len(Items[post]) \in Nat
    <3>1. Items[post] \in Seq(Blobs) BY <1>3, DumpConstants DEF Posts
    <3> QED BY <3>1
  <2>3. counts[k] + 1 \in DOMAIN Items[post]
    BY <1>3, <1>4, <2>1, <2>2
  <2>4. <<post, Items[post][done + 1][1], counts[k] + 1>> \in Slots
    BY <1>3, <1>4, <2>3 DEF Slots
  <2> QED BY <1>4, <1>6, <2>4 DEF OfPost
<1>8. PICK file \in Files : media' = [media EXCEPT ![Slot] = file] /\ file[2] = Blob
  <2>1. PICK x \in {"link", "torn", store[Blob]} : media' = [media EXCEPT ![Slot] = <<x, Blob>>]
    BY DEF LinkMedia, BeginCopy, EndCopy
  <2>2. store[Blob] \in {"good", "bad"}
    BY <1>1, <1>4 DEF StoreInv, BlobIsReady, DumpTypeOK, Statuses
  <2>3. <<x, Blob>> \in Files BY <1>4, <2>1, <2>2 DEF Files
  <2> QED BY <2>1, <2>3
<1>9. file # None BY NoFileIsNone
<1> HIDE DEF k
<1>10. /\ media'[Slot] = file
       /\ \A s \in Slots : s # Slot => media'[s] = media[s]
  BY <1>3, <1>7, <1>8
<1>11. LinkOf(post, done + 1) = <<Slot, Blob>>
  BY <1>3, <1>4, <1>5, <1>6, NextLink DEF k
<1>12. <<Slot, Blob>> \in FilesOf(post)'
  BY <1>1, <1>7, <1>8, <1>9, <1>10 DEF FilesOf, BlobAt, OfPost
<1>13. UpTo(post, done) \subseteq FilesOf(post)'
  <2> SUFFICES ASSUME NEW i \in 1 .. done PROVE LinkOf(post, i) \in FilesOf(post)'
    BY DEF UpTo
  <2>1. LinkOf(post, i) \in FilesOf(post) BY <1>5 DEF UpTo
  <2>2. PICK s \in OfPost(post) : media[s] # None /\ LinkOf(post, i) = <<s, media[s][2]>>
    BY <2>1 DEF FilesOf, BlobAt
  <2>3. s # Slot
    <3>1. LinkOf(post, i)[1] = s /\ LinkOf(post, done + 1)[1] = Slot BY <1>11, <2>2
    <3>2. i \in Nat \ {0} /\ done + 1 \in Nat \ {0} /\ i # done + 1 BY <1>3
    <3> QED BY <3>1, <3>2, NamesDiffer
  <2>4. media'[s] = media[s] /\ s \in OfPost(post)' BY <1>1, <1>10, <2>2, <2>3 DEF OfPost
  <2> QED BY <2>2, <2>4 DEF FilesOf, BlobAt
<1>14. PostIsPart'
  <2>1. CASE pc' = "copy" /\ UNCHANGED <<done, counts>>
    BY <1>1, <1>5, <1>13, <2>1 DEF PostIsPart
  <2>2. CASE pc' = "media" /\ done' = done + 1 /\ counts' = [counts EXCEPT ![k] = @ + 1]
    <3>1. UpTo(post, done + 1) \subseteq FilesOf(post)'
      BY <1>3, <1>11, <1>12, <1>13, UpToGrows
    <3>2. ASSUME NEW j \in Kinds PROVE counts'[j] = Cardinality(KindUpTo(post, j, done + 1))
      <4>1. Cardinality(KindUpTo(post, j, done + 1))
              = Cardinality(KindUpTo(post, j, done)) + (IF k = j THEN 1 ELSE 0)
        BY <1>3, <1>4, KindGrows DEF k
      <4>2. counts'[j] = counts[j] + (IF k = j THEN 1 ELSE 0) BY <1>3, <2>2
      <4> QED BY <1>5, <4>1, <4>2
    <3>3. done + 1 <= Len(Items[post]) BY <1>3, PageIsUpToLast DEF HasMore
    <3> QED BY <1>1, <1>5, <2>2, <3>1, <3>2, <3>3 DEF PostIsPart
  <2> QED BY <1>1, <2>1, <2>2 DEF k
<1>15. FilesAreItems'
  <2>1. <<Slot, Blob>> \in PageLinks(post)
    BY <1>4, <1>11 DEF PageLinks, LinkOf
  <2>2. Slot[1] = post BY <1>6
  <2>3. ASSUME NEW s \in Slots, media'[s] # None
        PROVE  s[1] \in dirs /\ <<s, media'[s][2]>> \in PageLinks(s[1])
    <3>1. CASE s = Slot BY <1>5, <1>8, <1>10, <2>1, <2>2, <3>1
    <3>2. CASE s # Slot BY <1>10, <2>3, <3>2 DEF WholeInv, FilesAreItems, BlobAt
    <3> QED BY <3>1, <3>2
  <2> QED BY <1>1, <2>3 DEF FilesAreItems, BlobAt
<1>16. CopyIsItem' BY <1>1, <1>2 DEF WholeInv, CopyIsItem
<1>17. AllAreWhole'
  <2>1. ASSUME NEW p, p # post PROVE FilesOf(p)' = FilesOf(p)
    <3>1. \A s \in OfPost(p) : media'[s] = media[s]
      BY <1>6, <1>10, <2>1 DEF OfPost
    <3> QED BY <3>1, FilesStay
  <2> QED BY <1>1, <1>2, <2>1 DEF WholeInv, AllAreWhole, IsExempt, IsWhole
<1> QED
  BY <1>1, <1>14, <1>15, <1>16, <1>17 DEF WholeInv, NothingIsDone

(* Only posts have rows.                                                   *)
RecordedArePosts == recorded \subseteq Posts
LEMMA PostsAreRecorded == StoreInv /\ RecordedArePosts /\ [Next]_vars => RecordedArePosts'
<1> SUFFICES ASSUME StoreInv, RecordedArePosts, [Next]_vars PROVE RecordedArePosts'
  OBVIOUS
<1>1. recorded' \subseteq recorded \/ (recorded' = recorded \cup {post} /\ pc = "media")
  <2>1. CASE Sync
    BY <2>1 DEF Sync, SyncStep, EndSync, SkipPost, TakePost, PrepareDirectory, WriteTexts, FindBlob,
           RefuseBlob, OpenBlob, RenameBlob, LinkMedia, BeginCopy, EndCopy, RecordPost, Stop, tree
  <2>2. CASE BreakSync \/ ToolStep \/ BreakTool
    BY <2>2 DEF BreakSync, InterruptSync, ToolStep, CheckLink, PassLink, ReadLink, HashBlob, WritePage,
           ListBlobs, Report, OpenCopy, ReplaceLink, Finish, Fail, BreakTool, Forget, syncVars
  <2>3. ASSUME NEW F, BeginSync(F) PROVE recorded' = recorded
    BY <2>3 DEF BeginSync, StartSync
  <2>4. CASE StartVerify \/ StartMaterialize \/ StartIndex \/ DeleteReported \/ ForceReported
    BY <2>4 DEF StartVerify, StartMaterialize, StartIndex, DeleteReported, ForceReported, StartSync, syncVars
  <2>5. ASSUME NEW b \in Blobs, NEW how, HarmBlob(b, how) PROVE recorded' = recorded
    BY <2>5 DEF HarmBlob
  <2>6. ASSUME NEW p \in Posts, DeleteDirectory(p) PROVE recorded' = recorded
    BY <2>6 DEF DeleteDirectory
  <2>7. CASE UNCHANGED vars BY <2>7 DEF vars, syncVars
  <2> QED BY <2>1, <2>2, <2>3, <2>4, <2>5, <2>6, <2>7 DEF Next
<1>2. pc = "media" => post \in Posts BY DEF StoreInv, BlobIsReady
<1> QED BY <1>1, <1>2 DEF RecordedArePosts

(* The user deletes a directory, and no sync is running.                   *)
LEMMA DeletedIsGone ==
  ASSUME StoreInv, WholeInv, NEW r \in Posts, DeleteDirectory(r)
  PROVE  WholeInv'
<1>1. /\ pc = "idle" /\ dirs' = dirs \ {r} /\ written' = written \ {r}
      /\ media' = WithoutMedia(r) /\ copying' = Lost(r) /\ hollow' = hollow \ {r}
      /\ UNCHANGED <<recorded, tool, pc, post, done, counts>>
  BY DEF DeleteDirectory, sync
<1>2. /\ FilesAreItems' /\ CopyIsItem'
      /\ \A p : p # r => FilesOf(p)' = FilesOf(p)
  BY <1>1, RemovedIsGone
<1>3. AllAreWhole'
  BY <1>1, <1>2 DEF WholeInv, AllAreWhole, IsExempt, IsWhole
<1> QED BY <1>1, <1>2, <1>3 DEF WholeInv, PostIsPart, NothingIsDone

(* Where the link was is now a copy of the same blob; where nothing was is *)
(* one of the blob that belongs there.                                     *)
LEMMA ReplacedIsSame ==
  ASSUME StoreInv, WholeInv, ReplaceLink
  PROVE  WholeInv'
<1> DEFINE s == copying[1]  b == copying[2][2]
<1>1. /\ copying # None /\ copying' = None /\ tool = "replace"
      /\ media' = [media EXCEPT ![copying[1]] = copying[2]]
      /\ UNCHANGED <<written, dirs, recorded, pc, post, done, counts, hollow>>
  BY DEF ReplaceLink, sync
<1>2. /\ media \in [Slots -> Files \cup {None}]
      /\ s \in Slots /\ copying[2] \in Files /\ copying[2] # None
  BY <1>1, NoFileIsNone DEF StoreInv, DumpTypeOK, Copies, Files
<1>3. s[1] \in dirs /\ <<s, b>> \in PageLinks(s[1])
  BY <1>1 DEF WholeInv, CopyIsItem
<1>4. media'[s] # None /\ media'[s][2] = b /\ \A r \in Slots : r # s => media'[r] = media[r]
  BY <1>1, <1>2
<1> HIDE DEF s, b
<1>5. FilesAreItems'
  <2>1. ASSUME NEW r \in Slots, media'[r] # None
        PROVE  r[1] \in dirs /\ <<r, media'[r][2]>> \in PageLinks(r[1])
    <3>1. CASE r = s BY <1>3, <1>4, <3>1
    <3>2. CASE r # s BY <1>4, <2>1, <3>2 DEF WholeInv, FilesAreItems, BlobAt
    <3> QED BY <3>1, <3>2
  <2> QED BY <1>1, <2>1 DEF FilesAreItems, BlobAt
<1>6. ASSUME NEW p, s[1] = p => <<s, b>> \in FilesOf(p) PROVE FilesOf(p)' = FilesOf(p)
  <2>1. s[1] = p => media[s] # None /\ media[s][2] = b BY <1>6 DEF FilesOf, BlobAt
  <2>2. ASSUME NEW r \in OfPost(p)
        PROVE  /\ (media'[r] = None) = (media[r] = None)
               /\ media[r] # None => media'[r][2] = media[r][2]
    <3>1. r \in Slots /\ r[1] = p BY DEF OfPost
    <3> QED BY <1>4, <2>1, <3>1
  <2> QED BY <2>2, FilesStay
<1>7. AllAreWhole'
  <2>1. \A p : IsWhole(p) => IsWhole(p)' BY <1>1, <1>3, <1>6 DEF IsWhole
  <2> QED BY <1>1, <2>1 DEF WholeInv, AllAreWhole, IsExempt
<1>8. PostIsPart'
  <2> SUFFICES ASSUME pc \notin {"idle", "walk", "prepare"}, NEW i \in 1 .. done
               PROVE  LinkOf(post, i) \in FilesOf(post)'
    BY <1>1 DEF WholeInv, PostIsPart, UpTo
  <2>1. LinkOf(post, i) \in FilesOf(post) BY DEF WholeInv, PostIsPart, UpTo
  <2>2. PICK r \in OfPost(post) : media[r] # None /\ LinkOf(post, i) = <<r, media[r][2]>>
    BY <2>1 DEF FilesOf, BlobAt
  <2>3. post \in Posts BY DEF StoreInv, BlobIsReady
  <2>4. r \in Slots /\ r[1] = post /\ r \in OfPost(post)' BY <1>1, <2>2 DEF OfPost
  <2>5. media'[r] # None /\ media'[r][2] = media[r][2]
    <3>1. CASE r # s BY <1>4, <2>2, <2>4, <3>1
    <3>2. CASE r = s
      <4>1. <<r, media[r][2]>> \in PageLinks(post)
        BY <2>2, <2>4 DEF WholeInv, FilesAreItems, BlobAt
      <4>2. media[r][2] = b BY <1>3, <2>3, <2>4, <3>2, <4>1, OneItemOfEachName
      <4> QED BY <1>4, <3>2, <4>2
    <3> QED BY <3>1, <3>2
  <2> QED BY <2>2, <2>4, <2>5 DEF FilesOf, BlobAt
<1>9. CopyIsItem' BY <1>1 DEF CopyIsItem
<1>10. NothingIsDone' BY <1>1 DEF WholeInv, NothingIsDone
<1> QED BY <1>5, <1>7, <1>8, <1>9, <1>10 DEF WholeInv

LEMMA WholeInvNext == StoreInv /\ RecordedArePosts /\ WholeInv /\ [Next]_vars => WholeInv'
<1> SUFFICES ASSUME StoreInv, RecordedArePosts, WholeInv, [Next]_vars PROVE WholeInv'
  OBVIOUS
<1>0. ASSUME UNCHANGED media PROVE \A q : FilesOf(q)' = FilesOf(q)
  BY <1>0 DEF FilesOf, BlobAt
<1>1. CASE Sync BY <1>1, SyncKeepsFiles, PreparedIsEmpty, LinkedIsOneMore
(* The remains of an unfinished directory are exempt from here on.         *)
<1>2. CASE BreakSync
  <2>1. /\ pc' = "idle" /\ post' = None /\ done' = 0 /\ counts' = NoneYet
        /\ hollow' = hollow \cup Begun
        /\ UNCHANGED <<media, written, dirs, recorded, copying, tool>>
    BY <1>2 DEF BreakSync, InterruptSync, Stop, tree, toolVars
  <2>2. AllAreWhole' BY <1>0, <2>1 DEF WholeInv, AllAreWhole, IsExempt, IsWhole, Begun
  <2> QED BY <2>1, <2>2
          DEF WholeInv, PostIsPart, NothingIsDone, FilesAreItems, CopyIsItem, BlobAt
<1>3. ASSUME \/ \E F \in {{}, Posts} : BeginSync(F)
             \/ ForceReported
      PROVE  WholeInv'
  <2>1. /\ pc = "idle" /\ pc' = "walk"
        /\ UNCHANGED <<media, written, dirs, recorded, copying, tool, hollow, post, done, counts>>
    BY <1>3 DEF BeginSync, ForceReported, StartSync, tree, toolVars
  <2>2. post = None /\ None \notin recorded
    BY <2>1, NoFileIsNone DEF WholeInv, NothingIsDone, RecordedArePosts
  <2>3. AllAreWhole' BY <1>0, <2>1, <2>2 DEF WholeInv, AllAreWhole, IsExempt, IsWhole
  <2> QED BY <2>1, <2>3
          DEF WholeInv, PostIsPart, NothingIsDone, FilesAreItems, CopyIsItem, BlobAt
<1>4. ASSUME NEW s \in Slots, ReadLink(s) PROVE WholeInv'
  <2>1. /\ media[s] # None /\ copying' = <<s, <<store[BlobAt(s)], BlobAt(s)>>>> /\ tool' = "open"
        /\ UNCHANGED <<media, written, dirs, recorded, pc, hollow, post, done, counts>>
    BY <1>4 DEF ReadLink, IsLink, syncVars, tree, sync
  <2>2. CopyIsItem' BY <2>1 DEF WholeInv, FilesAreItems, CopyIsItem
  <2>3. PostIsPart' /\ NothingIsDone' /\ FilesAreItems' /\ AllAreWhole'
    BY <1>0, <2>1
       DEF WholeInv, PostIsPart, NothingIsDone, FilesAreItems, BlobAt, AllAreWhole, IsExempt, IsWhole
  <2> QED BY <2>2, <2>3 DEF WholeInv
(* The .tmp is made in a directory that is there.                          *)
<1>5. CASE OpenCopy
  <2>1. /\ HasFolder(copying[1]) \/ IsMakingFolder(copying[1])
        /\ UNCHANGED <<media, written, dirs, recorded, copying, pc, hollow, post, done, counts>>
    BY <1>5 DEF OpenCopy, syncVars, tree, sync
  <2>2. copying[1][1] \in dirs
    BY <2>1 DEF HasFolder, IsMakingFolder, OfPost, WholeInv, FilesAreItems, PostIsPart
  <2>3. CopyIsItem' BY <2>1, <2>2 DEF WholeInv, CopyIsItem
  <2>4. PostIsPart' /\ NothingIsDone' /\ FilesAreItems' /\ AllAreWhole'
    BY <1>0, <2>1
       DEF WholeInv, PostIsPart, NothingIsDone, FilesAreItems, BlobAt, AllAreWhole, IsExempt, IsWhole
  <2> QED BY <2>3, <2>4 DEF WholeInv
<1>6. CASE ReplaceLink BY <1>6, ReplacedIsSame
(* A directory that index has brought back is exempt from here on.         *)
<1>7. ASSUME NEW p \in Posts, WritePage(p) PROVE WholeInv'
  <2>1. /\ dirs' = dirs \cup {p} /\ hollow' = hollow \cup (({p} \cap recorded) \ dirs)
        /\ UNCHANGED <<media, written, recorded, copying, tool, pc, post, done, counts>>
    BY <1>7 DEF WritePage, sync
  <2>2. PostIsPart' /\ NothingIsDone' /\ FilesAreItems' /\ CopyIsItem'
    BY <1>0, <2>1 DEF WholeInv, PostIsPart, NothingIsDone, FilesAreItems, CopyIsItem, BlobAt
  <2>3. AllAreWhole' BY <1>0, <2>1 DEF WholeInv, AllAreWhole, IsExempt, IsWhole
  <2> QED BY <2>2, <2>3 DEF WholeInv
<1>8. ASSUME NEW p \in Posts, DeleteDirectory(p) PROVE WholeInv'
  BY <1>8, DeletedIsGone
(* The other commands, and a damage to the store.                          *)
<1>9. CASE StartVerify \/ StartMaterialize \/ StartIndex \/ ListBlobs \/ Report \/ DeleteReported
  BY <1>9, WholeGoesOn
     DEF StartVerify, StartMaterialize, StartIndex, ListBlobs, Report, DeleteReported, syncVars, tree, sync
<1>10. ASSUME NEW s \in Slots, CheckLink(s) \/ PassLink(s) PROVE WholeInv'
  BY <1>10, WholeGoesOn DEF CheckLink, PassLink, syncVars, tree, sync
<1>11. ASSUME NEW b \in Blobs, HashBlob(b) \/ \E how \in {"bad", "absent"} : HarmBlob(b, how)
       PROVE  WholeInv'
  BY <1>11, WholeGoesOn DEF HashBlob, HarmBlob, syncVars, tree, sync
<1>12. CASE Finish \/ Fail \/ BreakTool
  BY <1>12, WholeGoesOn DEF Finish, Fail, BreakTool, Forget, tree, sync
<1>13. CASE UNCHANGED vars
  BY <1>13, WholeGoesOn DEF vars, syncVars, toolVars, tree, sync
<1> QED
  BY <1>1, <1>2, <1>3, <1>4, <1>5, <1>6, <1>7, <1>8, <1>9, <1>10, <1>11, <1>12, <1>13
  DEF Next, ToolStep

-----------------------------------------------------------------------------
(* A copy that is not whole is the one in hand or in an unfinished post.   *)
LEMMA TornGoesOn ==
  ASSUME TornIsInHand, UNCHANGED <<symlinks, recorded, pc, post, done, counts>>,
         \A s \in Slots : IsTorn(s)' => IsTorn(s),
         \A s \in Slots : IsTorn(s)' /\ s[1] \in hollow => s[1] \in hollow'
  PROVE  TornIsInHand'
<1>1. Slot' = Slot BY DEF Slot, Blob, NumberedByKind
<1> QED BY <1>1 DEF TornIsInHand, Unfinished

(* A run that ends leaves a torn copy where the post has no row, or where  *)
(* it is being dumped anew in the directory it has.                        *)
LEMMA TornIsLeft ==
  ASSUME NothingIsDone, FilesAreItems, TornIsInHand, post' = None,
         UNCHANGED <<symlinks, media, recorded>>,
         (pc = "walk" /\ hollow \subseteq hollow') \/ hollow' = hollow \cup Begun
  PROVE  TornIsInHand'
<1> SUFFICES ASSUME NEW s \in Slots, IsTorn(s)
             PROVE  ~symlinks' /\ Unfinished(s[1])' /\ s[1] # post'
  BY DEF TornIsInHand, IsTorn
<1>1. ~symlinks /\ Unfinished(s[1]) BY DEF TornIsInHand
<1>2. s[1] \in dirs BY DEF IsTorn, FilesAreItems
<1>3. s[1] # None
  <2>1. s[1] \in Posts BY DEF Slots
  <2> QED BY <2>1, NoFileIsNone
<1> QED BY <1>1, <1>2, <1>3 DEF Unfinished, NothingIsDone, Begun

LEMMA SyncKeepsTorn ==
  ASSUME StoreInv, WholeInv, TornIsInHand, Sync
  PROVE  TornIsInHand'
<1>1. PostIsPart /\ NothingIsDone /\ FilesAreItems /\ DumpTypeOK BY DEF WholeInv, StoreInv
<1>2. UNCHANGED media => \A s \in Slots : IsTorn(s)' = IsTorn(s) BY DEF IsTorn
<1>3. CASE EndSync
  <2>1. /\ pc = "walk" /\ hollow \subseteq hollow' /\ post' = None
        /\ UNCHANGED <<symlinks, media, recorded>>
    BY <1>3 DEF EndSync, Stop, tree, Sync
  <2> QED BY <1>1, <2>1, TornIsLeft
<1>4. CASE RefuseBlob
  <2>1. /\ hollow' = hollow \cup Begun /\ post' = None
        /\ UNCHANGED <<symlinks, media, recorded>>
    BY <1>4 DEF RefuseBlob, Stop, tree, Sync
  <2> QED BY <1>1, <2>1, TornIsLeft
<1>5. ASSUME NEW p \in Posts, SkipPost(p) PROVE TornIsInHand'
  <2>1. UNCHANGED <<symlinks, media, recorded, pc, post, done, counts>> /\ pc = "walk"
    BY <1>5 DEF SkipPost, tree
  <2>2. hollow' = hollow BY <2>1 DEF Sync
  <2> QED BY <1>2, <2>1, <2>2, TornGoesOn
<1>6. ASSUME NEW p \in Posts, TakePost(p) PROVE TornIsInHand'
  <2>1. /\ pc = "walk" /\ pc' = "prepare" /\ recorded' \subseteq recorded
        /\ UNCHANGED <<symlinks, media>>
    BY <1>6 DEF TakePost, tree
  <2>2. hollow' = hollow /\ post = None BY <1>1, <2>1 DEF Sync, NothingIsDone
  <2> QED BY <1>2, <2>1, <2>2 DEF TornIsInHand, Unfinished
<1>7. CASE PrepareDirectory
  <2>1. /\ pc = "prepare" /\ pc' = "texts" /\ media' = WithoutMedia(post)
        /\ UNCHANGED <<symlinks, recorded, post>>
    BY <1>7 DEF PrepareDirectory
  <2>2. hollow' = hollow \ {post} BY <2>1 DEF Sync
  <2>3. \A s \in Slots : IsTorn(s)' => IsTorn(s) /\ s[1] # post
    BY <2>1 DEF IsTorn, WithoutMedia
  <2> QED BY <2>1, <2>2, <2>3 DEF TornIsInHand, Unfinished
<1>8. CASE WriteTexts \/ FindBlob \/ OpenBlob \/ RenameBlob
  <2>1. /\ pc \in {"texts", "media", "rename"} /\ pc' \in {"media", "link", "rename"}
        /\ UNCHANGED <<symlinks, media, recorded, post>>
    BY <1>8 DEF WriteTexts, FindBlob, OpenBlob, RenameBlob, tree
  <2>2. hollow' = hollow BY <2>1 DEF Sync
  <2> QED BY <1>2, <2>1, <2>2 DEF TornIsInHand, Unfinished
<1>9. CASE LinkMedia
  <2>1. symlinks /\ media' = [media EXCEPT ![Slot] = <<"link", Blob>>] /\ UNCHANGED symlinks
    BY <1>9 DEF LinkMedia
  <2>2. \A s \in Slots : media'[s] = media[s] \/ media'[s] = <<"link", Blob>>
    BY <1>1, <2>1 DEF DumpTypeOK
  <2>3. \A s \in Slots : ~IsTorn(s)' BY <2>1, <2>2 DEF IsTorn, TornIsInHand
  <2> QED BY <2>3 DEF TornIsInHand
<1>10. CASE BeginCopy \/ EndCopy
  <2>1. PICK f : /\ media' = [media EXCEPT ![Slot] = f]
                 /\ pc \in {"link", "copy"} /\ pc' \in {"copy", "media"}
                 /\ pc' = "media" => pc = "copy" /\ f[1] # "torn"
                 /\ pc' = "copy" => pc = "link" /\ ~symlinks /\ Slot' = Slot
                 /\ UNCHANGED <<symlinks, recorded, post>>
    <3>1. CASE BeginCopy
      <4>1. /\ media' = [media EXCEPT ![Slot] = <<"torn", Blob>>] /\ pc = "link" /\ pc' = "copy"
            /\ ~symlinks /\ UNCHANGED <<symlinks, recorded, post, done, counts>>
        BY <3>1 DEF BeginCopy
      <4>2. Slot' = Slot BY <4>1 DEF Slot, Blob, NumberedByKind
      <4> QED BY <4>1, <4>2
    <3>2. CASE EndCopy
      <4>1. /\ media' = [media EXCEPT ![Slot] = <<store[Blob], Blob>>] /\ pc = "copy" /\ pc' = "media"
            /\ UNCHANGED <<symlinks, recorded, post>>
        BY <3>2 DEF EndCopy
      <4>2. Blob \in Blobs BY <4>1, BlobIsBlob DEF StoreInv, BlobIsReady
      <4>3. store[Blob] # "torn" BY <1>1, <4>2 DEF DumpTypeOK, Statuses
      <4> QED BY <4>1, <4>3
    <3> QED BY <1>10, <3>1, <3>2
  <2>2. hollow' = hollow BY <2>1 DEF Sync
  <2>3. Slot[1] = post BY DEF Slot
  <2>4. \A s \in Slots : media'[s] = IF s = Slot THEN f ELSE media[s]
    BY <1>1, <2>1 DEF DumpTypeOK
  <2>5. ASSUME NEW s \in Slots, IsTorn(s)' PROVE IsTorn(s) \/ (s = Slot /\ pc' = "copy")
    BY <2>1, <2>4, <2>5 DEF IsTorn
  <2>6. ASSUME NEW s \in Slots, IsTorn(s)'
        PROVE  ~symlinks' /\ Unfinished(s[1])' /\ (s[1] = post => pc' = "copy" /\ s = Slot)
    <3>1. CASE IsTorn(s)
      <4>1. s[1] = post => pc = "copy" /\ s = Slot BY <2>1, <3>1 DEF TornIsInHand
      <4>2. s[1] # post BY <2>1, <2>4, <2>6, <4>1 DEF IsTorn
      <4> QED BY <2>1, <2>2, <3>1, <4>2 DEF TornIsInHand, Unfinished
    <3>2. CASE s = Slot /\ pc' = "copy"
      BY <2>1, <2>3, <3>2 DEF Unfinished
    <3> QED BY <2>5, <2>6, <3>1, <3>2
  <2> QED BY <2>1, <2>6 DEF TornIsInHand
<1>11. CASE RecordPost
  <2>1. /\ pc = "media" /\ pc' = "walk" /\ post' = None /\ recorded' = recorded \cup {post}
        /\ UNCHANGED <<symlinks, media>>
    BY <1>11 DEF RecordPost, tree
  <2>2. hollow' = hollow BY <2>1 DEF Sync
  <2>3. \A s \in Slots : s[1] # None
    <3>1. \A s \in Slots : s[1] \in Posts BY DEF Slots
    <3> QED BY <3>1, NoFileIsNone
  <2> QED BY <1>2, <2>1, <2>2, <2>3 DEF TornIsInHand, Unfinished
<1> QED
  BY <1>3, <1>4, <1>5, <1>6, <1>7, <1>8, <1>9, <1>10, <1>11 DEF Sync, SyncStep

LEMMA TornInit == Init => TornIsInHand
  BY DEF Init, SyncInit, TornIsInHand, IsTorn

LEMMA TornNext == StoreInv /\ WholeInv /\ TornIsInHand /\ [Next]_vars => TornIsInHand'
<1> SUFFICES ASSUME StoreInv, WholeInv, TornIsInHand, [Next]_vars PROVE TornIsInHand'
  OBVIOUS
<1>0. PostIsPart /\ NothingIsDone /\ FilesAreItems /\ DumpTypeOK BY DEF WholeInv, StoreInv
<1>1. UNCHANGED media => \A s \in Slots : IsTorn(s)' = IsTorn(s) BY DEF IsTorn
<1>2. CASE Sync BY <1>2, SyncKeepsTorn
<1>3. CASE BreakSync
  <2>1. /\ hollow' = hollow \cup Begun /\ post' = None
        /\ UNCHANGED <<symlinks, media, recorded>>
    BY <1>3 DEF BreakSync, InterruptSync, Stop, tree
  <2> QED BY <1>0, <2>1, TornIsLeft
<1>4. ASSUME \/ \E F \in {{}, Posts} : BeginSync(F)
             \/ ForceReported
      PROVE  TornIsInHand'
  <2>1. /\ pc = "idle" /\ pc' = "walk"
        /\ UNCHANGED <<symlinks, media, recorded, hollow, post>>
    BY <1>4 DEF BeginSync, ForceReported, StartSync, tree
  <2>2. post = None BY <1>0, <2>1 DEF NothingIsDone
  <2>3. \A s \in Slots : s[1] # None
    <3>1. \A s \in Slots : s[1] \in Posts BY DEF Slots
    <3> QED BY <3>1, NoFileIsNone
  <2> QED BY <1>1, <2>1, <2>2, <2>3 DEF TornIsInHand, Unfinished
<1>5. CASE ReplaceLink
  <2>1. /\ copying # None /\ media' = [media EXCEPT ![copying[1]] = copying[2]]
        /\ UNCHANGED <<symlinks, recorded, pc, post, done, counts, hollow>>
    BY <1>5 DEF ReplaceLink, sync
  <2>2. copying[2][1] # "torn" BY <1>0, <2>1 DEF DumpTypeOK, Copies
  <2>3. \A s \in Slots : media'[s] = media[s] \/ media'[s] = copying[2]
    BY <1>0, <2>1 DEF DumpTypeOK
  <2>4. \A s \in Slots : IsTorn(s)' => IsTorn(s) BY <2>2, <2>3 DEF IsTorn
  <2> QED BY <2>1, <2>4, TornGoesOn
<1>6. ASSUME NEW p \in Posts, WritePage(p) PROVE TornIsInHand'
  BY <1>1, <1>6, TornGoesOn DEF WritePage, sync
<1>7. ASSUME NEW p \in Posts, DeleteDirectory(p) PROVE TornIsInHand'
  <2>1. /\ media' = WithoutMedia(p) /\ hollow' = hollow \ {p}
        /\ UNCHANGED <<symlinks, recorded, pc, post, done, counts>>
    BY <1>7 DEF DeleteDirectory, sync
  <2>2. \A s \in Slots : IsTorn(s)' => IsTorn(s) /\ s[1] # p
    BY <2>1 DEF IsTorn, WithoutMedia
  <2> QED BY <2>1, <2>2, TornGoesOn
<1>8. CASE \/ StartVerify \/ StartMaterialize \/ StartIndex \/ ListBlobs \/ Report
           \/ OpenCopy \/ DeleteReported
  BY <1>1, <1>8, TornGoesOn
     DEF StartVerify, StartMaterialize, StartIndex, ListBlobs, Report, OpenCopy, DeleteReported,
         syncVars, tree, sync
<1>9. ASSUME NEW s \in Slots, CheckLink(s) \/ PassLink(s) \/ ReadLink(s) PROVE TornIsInHand'
  BY <1>1, <1>9, TornGoesOn DEF CheckLink, PassLink, ReadLink, syncVars, tree, sync
<1>10. ASSUME NEW b \in Blobs, HashBlob(b) \/ \E how \in {"bad", "absent"} : HarmBlob(b, how)
       PROVE  TornIsInHand'
  BY <1>1, <1>10, TornGoesOn DEF HashBlob, HarmBlob, syncVars, tree, sync
<1>11. CASE Finish \/ Fail \/ BreakTool
  BY <1>1, <1>11, TornGoesOn DEF Finish, Fail, BreakTool, Forget, tree, sync
<1>12. CASE UNCHANGED vars
  BY <1>1, <1>12, TornGoesOn DEF vars, syncVars, toolVars, tree, sync
<1> QED
  BY <1>2, <1>3, <1>4, <1>5, <1>6, <1>7, <1>8, <1>9, <1>10, <1>11, <1>12 DEF Next, ToolStep

-----------------------------------------------------------------------------
(* A link leads to a blob unless the user has deleted one, and a blob or a *)
(* copy is bad only if a disk has failed; a copy is cut short only where   *)
(* there are no symbolic links, in a post whose dump is unfinished, for    *)
(* any timeline and whatever is interrupted (write_deduped_media,          *)
(* link_media_to_post, materialize).                                       *)
THEOREM OnlyHarmIsEverSeen == Spec => []OnlyHarmIsSeen
<1>1. Init => RecordedArePosts BY DEF Init, SyncInit, RecordedArePosts
<1>2. StoreInv /\ TornIsInHand => OnlyHarmIsSeen
  BY DEF StoreInv, HarmIsSeen, TornIsInHand, OnlyHarmIsSeen
<1> QED
  BY <1>1, <1>2, StoreInvInit, StoreInvNext, PostsAreRecorded, WholeInvInit, WholeInvNext,
     TornInit, TornNext, PTL DEF Spec

(* A row stands for a complete dump: the page that dump/indexing.py writes *)
(* for a recorded post links to exactly the media files that run of        *)
(* dump/sync.py has made of its items, each with its own content and all   *)
(* of it, for any timeline and any number of interruptions, deletions and  *)
(* damages, and whatever materialize and index do meanwhile.               *)
THEOREM RecordedAlwaysWhole == Spec => []RecordedIsWhole
<1>1. Init => RecordedArePosts BY DEF Init, SyncInit, RecordedArePosts
<1>2. ASSUME WholeInv, TornIsInHand PROVE RecordedIsWhole
  <2> SUFFICES ASSUME NEW p \in recorded \cap dirs, ~Unfinished(p)
               PROVE  IsWhole(p) /\ \A s \in OfPost(p) : ~IsTorn(s)
    BY DEF RecordedIsWhole, IsWhole, FilesOf
  <2>1. IsWhole(p) BY <1>2 DEF WholeInv, AllAreWhole, IsExempt, Unfinished
  <2>2. \A s \in OfPost(p) : ~IsTorn(s) BY <1>2 DEF TornIsInHand, OfPost
  <2> QED BY <2>1, <2>2
<1> QED
  BY <1>1, <1>2, StoreInvInit, StoreInvNext, PostsAreRecorded, WholeInvInit, WholeInvNext,
     TornInit, TornNext, PTL DEF Spec

=============================================================================
