------------------------------ MODULE DumpTools ------------------------------
(***************************************************************************)
(* The offline commands verify and materialize (dump/audit.py) and index   *)
(* (dump/indexing.py), one at a time, over the tree of DumpTree, while a   *)
(* sync may be running: nothing keeps them apart.  Disks go bad, the user  *)
(* deletes post directories, and what verify reports.                      *)
(***************************************************************************)
EXTENDS DumpTree

VARIABLES
  tool,         \* "idle", or the phase the running command is in
  todo,         \* the media files, blobs or posts it has still to handle
  copying,      \* the media file materialize is replacing, and the bytes it has
                \* read, then the .tmp with them; None if that is gone
  dangling, corrupt, strays,   \* what the last verify has found so far
  verdict,      \* its result: "none", "clean", "findings" or, acted on, "cleared"
  damaged,      \* a blob was damaged or deleted while verify ran
  harms,        \* what has ever happened to the store
  hollow        \* recorded posts whose directory only looks like a dump

findings == <<dangling, corrupt, strays, verdict>>
toolVars == <<tool, todo, copying, findings>>
vars == <<syncVars, toolVars, damaged, harms, hollow>>

Init ==
  /\ SyncInit
  /\ tool = "idle" /\ todo = {} /\ copying = None
  /\ dangling = {} /\ corrupt = {} /\ strays = {} /\ verdict = "none"
  /\ damaged = FALSE /\ harms = {} /\ hollow = {}

-----------------------------------------------------------------------------
(* A post with a row whose directory was gone keeps the row while it is    *)
(* dumped again; a run that ends before it has finished leaves the row and *)
(* the beginnings of a new directory.                                      *)
Begun == {post} \cap recorded \cap dirs

(* A directory that is removed takes the .tmp of materialize in it along,  *)
(* not the bytes materialize has read but not begun to write.              *)
Lost(p) == IF tool = "replace" /\ copying # None /\ copying[1][1] = p THEN None ELSE copying

Sync ==
  /\ SyncStep
  /\ copying' = IF pc = "prepare" THEN Lost(post) ELSE copying
  /\ hollow' = CASE pc = "prepare"  -> hollow \ {post}
                 [] pc' = "idle"   -> hollow \cup Begun
                 [] OTHER          -> hollow
  /\ UNCHANGED <<tool, todo, findings, damaged, harms>>

BreakSync ==
  /\ InterruptSync
  /\ hollow' = hollow \cup Begun
  /\ UNCHANGED <<toolVars, damaged, harms>>

BeginSync(F) == StartSync(F) /\ UNCHANGED <<toolVars, damaged, harms, hollow>>

-----------------------------------------------------------------------------
BlobAt(s) == media[s][2]
IsLink(s) == media[s] # None /\ media[s][1] = "link"
Dangles(s) == IsLink(s) /\ store[BlobAt(s)] = "absent"
IsNextLink(s) == s \in todo /\ \A r \in todo : s[1] <= r[1]
Links == {s \in Slots : IsLink(s)}

(* verify: the links first, as they were when the command began.  A link   *)
(* that is gone by the time it is looked at counts as dangling.            *)
StartVerify ==
  /\ tool = "idle" /\ verdict \in {"none", "clean"}
  /\ tool' = "links" /\ todo' = Links
  /\ dangling' = {} /\ corrupt' = {} /\ strays' = {} /\ verdict' = "none"
  /\ damaged' = FALSE
  /\ UNCHANGED <<syncVars, copying, harms, hollow>>

CheckLink(s) ==
  /\ tool = "links" /\ IsNextLink(s)
  /\ todo' = todo \ {s}
  /\ dangling' = dangling \cup {x \in {s} : Dangles(x) \/ media[x] = None}
  /\ UNCHANGED <<syncVars, tool, copying, corrupt, strays, verdict,
                 damaged, harms, hollow>>

(* Then the names in the store, where a .tmp is not expected.              *)
ListBlobs ==
  /\ tool = "links" /\ todo = {}
  /\ tool' = "blobs" /\ todo' = {b \in Blobs : store[b] # "absent"}
  /\ strays' = temps
  /\ UNCHANGED <<syncVars, copying, dangling, corrupt, verdict,
                 damaged, harms, hollow>>

IsCorruptNever(b) == FALSE
IsCorrupt(b) == store[b] = "bad"

HashBlob(b) ==
  /\ tool = "blobs" /\ b \in todo /\ store[b] # "absent"
  /\ todo' = todo \ {b}
  /\ corrupt' = corrupt \cup {x \in {b} : IsCorrupt(x)}
  /\ UNCHANGED <<syncVars, tool, copying, dangling, strays, verdict,
                 damaged, harms, hollow>>

(* A clean report that a damage has overtaken is worth nothing.            *)
Report ==
  /\ tool = "blobs" /\ todo = {}
  /\ tool' = "idle"
  /\ verdict' = CASE dangling \cup corrupt \cup strays # {} -> "findings"
                  [] damaged -> "none"
                  [] OTHER   -> "clean"
  /\ damaged' = FALSE
  /\ UNCHANGED <<syncVars, todo, copying, dangling, corrupt, strays,
                 harms, hollow>>

-----------------------------------------------------------------------------
StartMaterialize ==
  /\ tool = "idle"
  /\ tool' = "copy" /\ todo' = Links
  /\ UNCHANGED <<syncVars, copying, findings, damaged, harms, hollow>>

(* Nothing behind the link: a warning.  A file that has been replaced      *)
(* meanwhile is read and written as it is.                                 *)
PassLink(s) ==
  /\ tool = "copy" /\ IsNextLink(s)
  /\ Dangles(s) \/ ~IsLink(s)
  /\ todo' = todo \ {s}
  /\ UNCHANGED <<syncVars, tool, copying, findings, damaged, harms, hollow>>

(* What the link leads to is read, to be copied as it is.                  *)
ReadLink(s) ==
  /\ tool = "copy" /\ IsNextLink(s)
  /\ IsLink(s) /\ ~Dangles(s)
  /\ todo' = todo \ {s}
  /\ copying' = <<s, <<store[BlobAt(s)], BlobAt(s)>>>>
  /\ tool' = "open"
  /\ UNCHANGED <<syncVars, findings, damaged, harms, hollow>>

(* The .tmp is made beside the link, in the photos, videos or attachments  *)
(* of the post; by now these may be those of a new dump, which link_media_ *)
(* to_post makes just before it links the first of them.                   *)
HasFolder(s) == \E n \in OfPost(s[1]) : n[2] = s[2] /\ media[n] # None
IsMakingFolder(s) == pc = "link" /\ <<post, Blob[1]>> = <<s[1], s[2]>>

OpenCopy ==
  /\ tool = "open"
  /\ HasFolder(copying[1]) \/ IsMakingFolder(copying[1])
  /\ tool' = "replace"
  /\ UNCHANGED <<syncVars, todo, copying, findings, damaged, harms, hollow>>

(* Whatever has the name by now: the link, that of a new dump, or nothing. *)
ReplaceLink ==
  /\ tool = "replace" /\ copying # None
  /\ media' = [media EXCEPT ![copying[1]] = copying[2]]
  /\ copying' = None /\ tool' = "copy"
  /\ UNCHANGED <<symlinks, store, temps, dirs, written, recorded, sync, mishaps,
                 todo, findings, damaged, harms, hollow>>

-----------------------------------------------------------------------------
(* index reads the tree and then writes a page into the directory of each  *)
(* post it has seen, which it creates if it is gone by now.                *)
StartIndex ==
  /\ tool = "idle"
  /\ tool' = "pages" /\ todo' = written
  /\ UNCHANGED <<syncVars, copying, findings, damaged, harms, hollow>>

WritePage(p) ==
  /\ tool = "pages" /\ p \in todo
  /\ todo' = todo \ {p}
  /\ dirs' = dirs \cup {p}
  /\ hollow' = hollow \cup (({p} \cap recorded) \ dirs)
  /\ UNCHANGED <<symlinks, store, temps, written, media, recorded, sync, mishaps,
                 tool, copying, findings, damaged, harms>>

(* A .tmp of materialize stays in the post's directory.  No command looks  *)
(* at it, and it is gone with the directory or the next copy of that file. *)
Forget ==
  /\ tool' = "idle" /\ todo' = {} /\ copying' = None
  /\ damaged' = FALSE
  /\ IF tool \in {"links", "blobs"}
     THEN dangling' = {} /\ corrupt' = {} /\ strays' = {} /\ UNCHANGED verdict
     ELSE UNCHANGED findings
  /\ UNCHANGED <<tree, recorded, sync, harms, hollow>>

Finish == tool \in {"copy", "pages"} /\ todo = {} /\ Forget /\ UNCHANGED mishaps

(* verify_scan: a blob it has listed is gone.  materialize_write: so is the*)
(* directory it writes to, before or after it has made its .tmp there.     *)
Fail ==
  /\ \/ tool = "blobs" /\ \E b \in todo : store[b] = "absent"
     \/ tool = "open" /\ ~HasFolder(copying[1])
     \/ tool = "replace" /\ copying = None
  /\ Forget /\ UNCHANGED mishaps

BreakTool ==
  /\ tool # "idle" /\ mishaps < MaxMishaps
  /\ mishaps' = mishaps + 1
  /\ Forget

ToolStep ==
  \/ \E s \in Slots : CheckLink(s) \/ PassLink(s) \/ ReadLink(s)
  \/ \E b \in Blobs : HashBlob(b)
  \/ \E p \in Posts : WritePage(p)
  \/ ListBlobs \/ Report \/ OpenCopy \/ ReplaceLink \/ Finish \/ Fail

-----------------------------------------------------------------------------
(* A damage overtakes the verify that is running, or the last clean report.*)
Damage ==
  /\ damaged' = (tool \in {"links", "blobs"})
  /\ verdict' = IF verdict = "clean" THEN "none" ELSE verdict

(* A blob goes bad at any time; the user deletes one between two syncs.    *)
HarmBlob(b, how) ==
  /\ store[b] = "good" /\ mishaps < MaxMishaps
  /\ how = "absent" => pc = "idle"
  /\ mishaps' = mishaps + 1
  /\ store' = [store EXCEPT ![b] = how]
  /\ Damage /\ harms' = harms \cup {how}
  /\ UNCHANGED <<symlinks, temps, dirs, written, media, recorded, sync, tool, todo,
                 copying, dangling, corrupt, strays, hollow>>

DeleteDirectory(p) ==
  /\ pc = "idle" /\ p \in dirs /\ mishaps < MaxMishaps
  /\ mishaps' = mishaps + 1
  /\ dirs' = dirs \ {p} /\ written' = written \ {p}
  /\ media' = WithoutMedia(p) /\ copying' = Lost(p)
  /\ hollow' = hollow \ {p}
  /\ UNCHANGED <<symlinks, store, temps, recorded, sync, tool, todo, findings, damaged, harms>>

(* The user acts on a report before asking for another: what is corrupt or *)
(* not expected in the store goes, and the next sync is forced to dump the *)
(* posts with dangling links again.                                        *)
DeleteReported ==
  /\ pc = "idle" /\ verdict = "findings"
  /\ store' = [b \in Blobs |-> IF b \in corrupt THEN "absent" ELSE store[b]]
  /\ temps' = temps \ strays
  /\ verdict' = "cleared" /\ corrupt' = {} /\ strays' = {}
  /\ harms' = harms \cup {h \in {"absent"} : corrupt # {}}
  /\ UNCHANGED <<symlinks, dirs, written, media, recorded, sync, mishaps, tool, todo,
                 copying, dangling, damaged, hollow>>

ForceReported ==
  /\ verdict = "cleared"
  /\ StartSync({s[1] : s \in dangling})
  /\ verdict' = "none" /\ dangling' = {}
  /\ UNCHANGED <<tool, todo, copying, corrupt, strays, damaged, harms, hollow>>

Next ==
  \/ Sync \/ BreakSync \/ ToolStep \/ BreakTool
  \/ \E F \in {{}, Posts} : BeginSync(F)
  \/ StartVerify \/ StartMaterialize \/ StartIndex
  \/ \E b \in Blobs, how \in {"bad", "absent"} : HarmBlob(b, how)
  \/ \E p \in Posts : DeleteDirectory(p)
  \/ DeleteReported \/ ForceReported

Spec == Init /\ [][Next]_vars

(* Processes go on until they end, and the user runs verify again and      *)
(* again and acts on what it reports.                                      *)
FairSpec ==
  /\ Spec
  /\ WF_vars(Sync) /\ WF_vars(ToolStep)
  /\ SF_vars(StartVerify) /\ SF_vars(DeleteReported) /\ SF_vars(ForceReported)

-----------------------------------------------------------------------------
(* The dump of a post is under way, was given up, or has been begun anew   *)
(* and given up under an old row.                                          *)
IsTorn(s) == media[s] # None /\ media[s][1] = "torn"
Unfinished(p) == p \notin recorded \/ p \in hollow \/ (p = post /\ pc # "walk")

(* Whatever is interrupted, and in whatever order syncs and commands write,*)
(* a link leads to a blob unless the user has deleted one, and unless a    *)
(* disk has failed every blob and every copy is what its name says.  Only  *)
(* where there are no symbolic links can a media file be cut short, and    *)
(* only in a post whose dump is unfinished (write_deduped_media,           *)
(* _write_bytes, link_media_to_post).                                      *)
OnlyHarmIsSeen ==
  /\ "absent" \notin harms => \A s \in Slots : ~Dangles(s)
  /\ "bad" \notin harms =>
       /\ \A b \in Blobs : store[b] # "bad"
       /\ \A s \in Slots : media[s] # None => media[s][1] # "bad"
  /\ \A s \in Slots : IsTorn(s) => ~symlinks /\ Unfinished(s[1])

(* event_entry: the media files a page of the index links to, numbered by  *)
(* kind, each with the content post.json lists there.                      *)
Before(p, i) == {j \in 1 .. (i - 1) : Items[p][j][1] = Items[p][i][1]}
PageLinks(p) ==
  {<<<<p, Items[p][i][1], Cardinality(Before(p, i)) + 1>>, Items[p][i]>> :
    i \in DOMAIN Items[p]}

(* A row stands for a complete dump: the directory of a recorded post, if  *)
(* the user has not deleted it, holds post.json and exactly the media      *)
(* files that its page in the index links to, each with its own content    *)
(* and all of it, whatever the commands have made of it.  Two races are    *)
(* exempt: index that brings a directory back while the user deletes it,   *)
(* and a run that ends before it has filled a lost directory anew; a sync  *)
(* takes the remains for the dump from then on.                            *)
RecordedIsWhole ==
  \A p \in recorded \cap dirs :
    \/ Unfinished(p)
    \/ /\ p \in written
       /\ \A s \in OfPost(p) : ~IsTorn(s)
       /\ PageLinks(p) = {<<s, BlobAt(s)>> : s \in {x \in OfPost(p) : media[x] # None}}

(* A clean report is true of the moment it is made, although the sync goes *)
(* on under it: if nothing was damaged while verify ran, no link dangles   *)
(* or leads to wrong bytes.                                                *)
CleanIsSound ==
  verdict = "clean" => \A s \in Links : store[BlobAt(s)] = "good"

(* What audit.py:7 says of verify ("this walk is the whole truth"), for    *)
(* every media file of a tree that was made of links: violated, since      *)
(* materialize copies a corrupt blob as it is, and verify looks at no copy.*)
CleanIsWholeTruth ==
  symlinks /\ verdict = "clean" =>
    \A s \in Slots : media[s] # None =>
      media[s][1] = "good" \/ (IsLink(s) /\ store[BlobAt(s)] = "good")

(* A user who runs verify, deletes the corrupt blobs and the strays it     *)
(* reports and forces the posts with dangling links gets a store without   *)
(* damage and links that all resolve, again and again.                     *)
IsSound ==
  /\ \A b \in Blobs : store[b] # "bad"
  /\ \A s \in Links : store[BlobAt(s)] = "good"
DumpHeals == []<>IsSound

=============================================================================
