--------------------------- MODULE PostsSyncProofs ---------------------------
(***************************************************************************)
(* Proofs about PostsSync, for every set of posts, their slugs and media   *)
(* and any number of interruptions and deletions.                          *)
(***************************************************************************)
EXTENDS PostsSync, TLAPS

(* The first n media of a post, linked under their numbers.                *)
Linked(p, n) == {<<i, Media[p][i]>> : i \in 1 .. n}

LEMMA MediaType ==
  ASSUME NEW p \in Posts
  PROVE  /\ Len(Media[p]) \in Nat /\ DOMAIN Media[p] = 1 .. Len(Media[p])
         /\ \A i \in 1 .. Len(Media[p]) : Media[p][i] \in Blobs
         /\ {<<i, Media[p][i]>> : i \in DOMAIN Media[p]} = Linked(p, Len(Media[p]))
<1>1. Media[p] \in Seq(Blobs)
  BY ConstantsAssumption
<1>2. Len(Media[p]) \in Nat /\ DOMAIN Media[p] = 1 .. Len(Media[p])
  BY <1>1
<1>3. \A i \in 1 .. Len(Media[p]) : Media[p][i] \in Blobs
  BY <1>1
<1>4. QED
  BY <1>2, <1>3 DEF Linked

LEMMA NextLink ==
  ASSUME NEW p \in Posts, NEW n \in Nat
  PROVE  Linked(p, n + 1) = Linked(p, n) \cup {<<n + 1, Media[p][n + 1]>>}
<1>1. 1 .. n + 1 = (1 .. n) \cup {n + 1}
  OBVIOUS
<1>2. QED
  BY <1>1 DEF Linked

-----------------------------------------------------------------------------
(* What the running process has in hand: which variables of the job are in *)
(* use, and how much of its post the target holds, phase by phase.         *)
JobShape ==
  /\ post = None <=> pc \in {"idle", "walk"}
  /\ target = None <=> pc \in {"idle", "walk", "resolve"}
  /\ done # 0 => pc \in {"media", "link"}

TargetShape ==
  /\ pc = "mkdir" => target \notin dirs
  /\ pc \in {"json", "texts", "media", "link"} => target \in dirs
  /\ pc \in {"json", "texts"} => links[target] = {}
  /\ pc \in {"texts", "media", "link"} => owner[target] = post
  /\ pc \in {"media", "link"} =>
       /\ texts[target] /\ done <= Len(Media[post])
       /\ links[target] = Linked(post, done)
       /\ \A l \in links[target] : l[2] \in blobs
  /\ pc = "link" => done < Len(Media[post]) /\ Media[post][done + 1] \in blobs

(* The post in hand has no row, so no row names the directory it is        *)
(* written to: whatever happens to that directory, no claim is affected.   *)
TargetIsFree ==
  /\ post # None => row[post] = None
  /\ target # None => \A p \in Posts : row[p] # target

IInv ==
  /\ TypeOK /\ JobShape /\ TargetShape
  /\ deletions = 0 => TargetIsFree
  /\ RecordedIsComplete

LEMMA InitIInv == Init => IInv
<1> SUFFICES ASSUME Init PROVE IInv
  OBVIOUS
<1> USE DEF Init
<1>1. TypeOK
  BY ConstantsAssumption, NoneAssumption DEF TypeOK, Phases
<1>2. JobShape /\ TargetShape /\ TargetIsFree /\ RecordedIsComplete
  BY DEF JobShape, TargetShape, TargetIsFree, RecordedIsComplete
<1>3. QED
  BY <1>1, <1>2 DEF IInv

-----------------------------------------------------------------------------
LEMMA TypeStep == IInv /\ [Next]_vars => TypeOK'
<1> SUFFICES ASSUME IInv, [Next]_vars PROVE TypeOK'
  OBVIOUS
<1>0. TypeOK /\ JobShape
  BY DEF IInv
<1> USE <1>0, ConstantsAssumption, NoneAssumption
    DEF TypeOK, JobShape, Phases, disk, job, counts
<1>1. ASSUME NEW p \in Posts, PublishPost(p) PROVE TypeOK'
  BY <1>1 DEF PublishPost
<1>2. ASSUME NEW d \in DirNames, DeleteDirectory(d) PROVE TypeOK'
  BY <1>2 DEF DeleteDirectory, Vanish, MishapsLeft
<1>3. ASSUME NEW F \in SUBSET Slugs, StartRun(F) PROVE TypeOK'
  BY <1>3 DEF StartRun
<1>4. ASSUME NEW p \in Posts, SkipPost(p) PROVE TypeOK'
  BY <1>4 DEF SkipPost
<1>5. ASSUME NEW p \in Posts, TakePost(p) PROVE TypeOK'
  BY <1>5 DEF TakePost, ForcedRow
<1>6. CASE EndWalk
  BY <1>6 DEF EndWalk, Stop
<1>7. CASE ResolveDir
  <2>1. post \in Posts
    BY <1>7 DEF ResolveDir
  <2>2. target' \in DirNames
    BY <1>7, <2>1 DEF ResolveDir, DirNames, NamesOf
  <2>3. QED
    BY <1>7, <2>2 DEF ResolveDir
<1>8. CASE RemoveEntry
  <2>1. target \in DirNames
    BY <1>8 DEF RemoveEntry
  <2>2. owner' \in [DirNames -> Posts \cup {None}] /\ texts' \in [DirNames -> BOOLEAN]
    BY <1>8, <2>1 DEF RemoveEntry
  <2>3. links' \in [DirNames -> SUBSET Links]
    <3>1. ASSUME NEW l, links' = [links EXCEPT ![target] = @ \ {l}]
          PROVE  links' \in [DirNames -> SUBSET Links]
      BY <2>1, <3>1
    <3>2. QED
      BY <1>8, <3>1 DEF RemoveEntry
  <2>4. \A d \in DirNames : /\ owner[d] = None => owner'[d] = None
                            /\ ~texts[d] => ~texts'[d]
                            /\ links'[d] \subseteq links[d]
    <3>1. ASSUME NEW l, links' = [links EXCEPT ![target] = @ \ {l}]
          PROVE  \A d \in DirNames : links'[d] \subseteq links[d]
      BY <2>1, <3>1
    <3>2. \A d \in DirNames : links'[d] \subseteq links[d]
      BY <1>8, <3>1 DEF RemoveEntry
    <3>3. QED
      BY <1>8, <2>1, <3>2 DEF RemoveEntry
  <2>5. QED
    BY <1>8, <2>2, <2>3, <2>4 DEF RemoveEntry
<1>9. CASE RemoveDirectory
  BY <1>9 DEF RemoveDirectory
<1>10. CASE MakeDirectory
  BY <1>10 DEF MakeDirectory
<1>11. CASE WriteJson
  BY <1>11 DEF WriteJson, IInv, TargetShape
<1>12. CASE WriteTexts
  BY <1>12 DEF WriteTexts, IInv, TargetShape
<1>13. CASE LinkMedium
  <2>1. <<done + 1, Media[post][done + 1]>> \in Links
    <3>1. post \in Posts /\ done \in Nat /\ done < Len(Media[post])
      BY <1>13 DEF LinkMedium, IInv, TargetShape
    <3>2. Len(Media[post]) \in Nat /\ \A i \in 1 .. Len(Media[post]) : Media[post][i] \in Blobs
      BY <3>1, MediaType
    <3>3. Media[post][done + 1] \in Blobs
      BY <3>1, <3>2
    <3>4. QED
      BY <3>1, <3>3 DEF Links
  <2>2. target \in dirs
    BY <1>13 DEF LinkMedium, IInv, TargetShape
  <2>3. links' \in [DirNames -> SUBSET Links]
    <3>1. PICK l \in Links : links' = [links EXCEPT ![target] = @ \cup {l}]
      BY <1>13, <2>1 DEF LinkMedium
    <3>2. QED
      BY <2>2, <3>1
  <2>4. \A d \in DirNames \ {target} : links'[d] = links[d]
    BY <1>13 DEF LinkMedium
  <2>5. QED
    BY <1>13, <2>2, <2>3, <2>4 DEF LinkMedium
<1>14. CASE StoreMedium
  <2>1. Media[post][done + 1] \in Blobs
    BY <1>14, MediaType DEF StoreMedium
  <2>2. QED
    BY <1>14, <2>1 DEF StoreMedium
<1>15. CASE RecordPost
  BY <1>15 DEF RecordPost
<1>16. CASE WritePostFails
  BY <1>16 DEF WritePostFails, Vanish, Stop, MishapsLeft
<1>17. CASE Interrupt
  BY <1>17 DEF Interrupt, Stop, MishapsLeft
<1>18. CASE UNCHANGED vars
  BY <1>18 DEF vars
<1>19. QED
  BY <1>1, <1>2, <1>3, <1>4, <1>5, <1>6, <1>7, <1>8, <1>9, <1>10, <1>11, <1>12, <1>13, <1>14,
     <1>15, <1>16, <1>17, <1>18
  DEF Next, Process, Yield

-----------------------------------------------------------------------------
LEMMA ShapeStep == IInv /\ [Next]_vars => (JobShape /\ TargetShape)'
<1> SUFFICES ASSUME IInv, [Next]_vars PROVE (JobShape /\ TargetShape)'
  OBVIOUS
<1>0. TypeOK /\ JobShape /\ TargetShape
  BY DEF IInv
<1> USE <1>0, NoneAssumption DEF JobShape, TargetShape, disk, job, counts
<1>1. ASSUME NEW p \in Posts, PublishPost(p) PROVE (JobShape /\ TargetShape)'
  BY <1>1 DEF PublishPost
<1>2. ASSUME NEW d \in DirNames, DeleteDirectory(d) PROVE (JobShape /\ TargetShape)'
  BY <1>2 DEF DeleteDirectory
<1>3. ASSUME NEW F \in SUBSET Slugs, StartRun(F) PROVE (JobShape /\ TargetShape)'
  BY <1>3 DEF StartRun
<1>4. ASSUME NEW p \in Posts, SkipPost(p) PROVE (JobShape /\ TargetShape)'
  BY <1>4 DEF SkipPost
<1>5. ASSUME NEW p \in Posts, TakePost(p) PROVE (JobShape /\ TargetShape)'
  BY <1>5 DEF TakePost
<1>6. CASE EndWalk
  BY <1>6 DEF EndWalk, Stop
<1>7. CASE ResolveDir
  <2>1. target' # None
    BY <1>7 DEF ResolveDir, DirNames, NamesOf, TypeOK
  <2>2. QED
    BY <1>7, <2>1 DEF ResolveDir
<1>8. CASE RemoveEntry
  BY <1>8 DEF RemoveEntry
<1>9. CASE RemoveDirectory
  BY <1>9 DEF RemoveDirectory
<1>10. CASE MakeDirectory
  BY <1>10 DEF MakeDirectory, TypeOK
<1>11. CASE WriteJson
  BY <1>11 DEF WriteJson, TypeOK
<1>12. CASE WriteTexts
  <2>1. post \in Posts /\ done = 0 /\ target \in DirNames /\ links[target] = {}
    BY <1>12 DEF WriteTexts, TypeOK
  <2>2. Linked(post, 0) = {}
    BY DEF Linked
  <2>3. 0 <= Len(Media[post])
    BY <2>1, MediaType
  <2>4. QED
    BY <1>12, <2>1, <2>2, <2>3 DEF WriteTexts, TypeOK
<1>13. CASE LinkMedium
  <2>1. post \in Posts /\ done \in Nat /\ target \in DirNames /\ Len(Media[post]) \in Nat
    BY <1>13, MediaType DEF LinkMedium, TypeOK
  <2>2. links'[target] = Linked(post, done + 1)
    BY <1>13, <2>1, NextLink DEF LinkMedium, TypeOK
  <2>3. \A l \in links'[target] : l[2] \in blobs
    BY <1>13, <2>1 DEF LinkMedium, TypeOK
  <2>4. done + 1 <= Len(Media[post])
    BY <1>13, <2>1 DEF LinkMedium
  <2>5. QED
    BY <1>13, <2>2, <2>3, <2>4 DEF LinkMedium
<1>14. CASE StoreMedium
  BY <1>14 DEF StoreMedium
<1>15. CASE RecordPost
  BY <1>15 DEF RecordPost
<1>16. CASE WritePostFails
  BY <1>16 DEF WritePostFails, Stop
<1>17. CASE Interrupt
  BY <1>17 DEF Interrupt, Stop
<1>18. CASE UNCHANGED vars
  BY <1>18 DEF vars
<1>19. QED
  BY <1>1, <1>2, <1>3, <1>4, <1>5, <1>6, <1>7, <1>8, <1>9, <1>10, <1>11, <1>12, <1>13, <1>14,
     <1>15, <1>16, <1>17, <1>18
  DEF Next, Process, Yield, TypeOK

(* The target of a post without a row is no one else's: it is free, or its *)
(* post.json names the post, and a row that named it would be complete.    *)
LEMMA FreeStep == IInv /\ [Next]_vars /\ deletions' = 0 => TargetIsFree'
<1> SUFFICES ASSUME IInv, [Next]_vars, deletions' = 0 PROVE TargetIsFree'
  OBVIOUS
<1>0. TypeOK /\ JobShape
  BY DEF IInv
<1>00. ASSUME deletions = 0
       PROVE  TargetIsFree /\ \A p \in Posts : row[p] # None => Complete(p, row[p])
  BY <1>00 DEF IInv, RecordedIsComplete
<1> USE <1>0, NoneAssumption DEF TargetIsFree, disk, job, counts
<1>1. ASSUME NEW p \in Posts, PublishPost(p) PROVE TargetIsFree'
  BY <1>00, <1>1 DEF PublishPost
<1>2. ASSUME NEW d \in DirNames, DeleteDirectory(d) PROVE TargetIsFree'
  BY <1>2 DEF DeleteDirectory, TypeOK
<1>3. ASSUME NEW F \in SUBSET Slugs, StartRun(F) PROVE TargetIsFree'
  BY <1>00, <1>3 DEF StartRun
<1>4. ASSUME NEW p \in Posts, SkipPost(p) PROVE TargetIsFree'
  BY <1>00, <1>4 DEF SkipPost
<1>5. ASSUME NEW p \in Posts, TakePost(p) PROVE TargetIsFree'
  <2>1. deletions = 0 /\ target' = None /\ post' = p
    BY <1>5 DEF TakePost, JobShape
  <2>2. row'[p] = None
    BY <1>00, <1>5, <2>1 DEF TakePost, ForcedRow, IsDumped, Complete, TypeOK
  <2>3. QED
    BY <2>1, <2>2
<1>6. CASE EndWalk
  BY <1>6 DEF EndWalk, Stop
<1>7. CASE ResolveDir
  <2>1. deletions = 0 /\ row' = row /\ dirs' = dirs /\ Available(target')
    BY <1>7 DEF ResolveDir
  <2>2. post # None /\ post' = post
    BY <1>7 DEF ResolveDir, JobShape
  <2>3. ASSUME NEW p \in Posts, row[p] = target', row[p] # None PROVE FALSE
    <3>1. target' \in dirs /\ owner[target'] = p
      BY <1>00, <2>1, <2>3 DEF Complete
    <3>2. p = post
      BY <2>1, <3>1 DEF Available
    <3>3. QED
      BY <1>00, <2>1, <2>2, <2>3, <3>2
  <2>4. QED
    BY <1>00, <2>1, <2>2, <2>3
<1>8. CASE RemoveEntry
  BY <1>00, <1>8 DEF RemoveEntry
<1>9. CASE RemoveDirectory
  BY <1>00, <1>9 DEF RemoveDirectory
<1>10. CASE MakeDirectory
  BY <1>00, <1>10 DEF MakeDirectory
<1>11. CASE WriteJson
  BY <1>00, <1>11 DEF WriteJson
<1>12. CASE WriteTexts
  BY <1>00, <1>12 DEF WriteTexts
<1>13. CASE LinkMedium
  BY <1>00, <1>13 DEF LinkMedium
<1>14. CASE StoreMedium
  BY <1>00, <1>14 DEF StoreMedium
<1>15. CASE RecordPost
  BY <1>15 DEF RecordPost
<1>16. CASE WritePostFails
  BY <1>16 DEF WritePostFails, Stop
<1>17. CASE Interrupt
  BY <1>17 DEF Interrupt, Stop
<1>18. CASE UNCHANGED vars
  BY <1>00, <1>18 DEF vars
<1>19. QED
  BY <1>1, <1>2, <1>3, <1>4, <1>5, <1>6, <1>7, <1>8, <1>9, <1>10, <1>11, <1>12, <1>13, <1>14,
     <1>15, <1>16, <1>17, <1>18
  DEF Next, Process, Yield, TypeOK

(* A step that leaves the directory of a row as it is, and takes no blob   *)
(* away, leaves the dump it holds complete.                                *)
LEMMA CompleteIsStable ==
  ASSUME NEW p, NEW d, Complete(p, d), blobs \subseteq blobs',
         d \in dirs => d \in dirs', owner'[d] = owner[d], texts'[d] = texts[d],
         links'[d] = links[d]
  PROVE  Complete(p, d)'
BY DEF Complete

LEMMA RecordedStep == IInv /\ [Next]_vars => RecordedIsComplete'
<1> SUFFICES ASSUME IInv, [Next]_vars, deletions' = 0, NEW p \in Posts, row'[p] # None
             PROVE  Complete(p, row[p])'
  BY DEF RecordedIsComplete
<1>0. TypeOK /\ JobShape /\ TargetShape
  BY DEF IInv
<1>00. ASSUME deletions = 0
       PROVE  /\ TargetIsFree /\ (row[p] # None => Complete(p, row[p]))
              /\ row[p] # None => row[p] \in DirNames /\ row[p] # target
  BY <1>0, <1>00, NoneAssumption DEF IInv, RecordedIsComplete, TargetIsFree, TypeOK
<1> USE <1>0 DEF disk, job, counts
<1>1. ASSUME NEW q \in Posts, PublishPost(q) PROVE Complete(p, row[p])'
  BY <1>00, <1>1 DEF PublishPost, Complete
<1>2. ASSUME NEW d \in DirNames, DeleteDirectory(d) PROVE FALSE
  BY <1>2 DEF DeleteDirectory, TypeOK
<1>3. ASSUME NEW F \in SUBSET Slugs, StartRun(F) PROVE Complete(p, row[p])'
  BY <1>00, <1>3 DEF StartRun, Complete
<1>4. ASSUME NEW q \in Posts, SkipPost(q) PROVE Complete(p, row[p])'
  BY <1>00, <1>4 DEF SkipPost, Complete
<1>5. ASSUME NEW q \in Posts, TakePost(q) PROVE Complete(p, row[p])'
  <2>1. row'[p] = row[p] /\ UNCHANGED <<disk, deletions>>
    BY <1>5 DEF TakePost, ForcedRow, TypeOK
  <2>2. QED
    BY <1>00, <2>1 DEF Complete
<1>6. CASE EndWalk
  BY <1>00, <1>6 DEF EndWalk, Complete
<1>7. CASE ResolveDir
  BY <1>00, <1>7 DEF ResolveDir, Complete
<1>8. CASE RemoveEntry
  <2>1. row'[p] = row[p] /\ row[p] \in DirNames /\ row[p] # target /\ Complete(p, row[p])
    BY <1>00, <1>8 DEF RemoveEntry
  <2>2. /\ owner'[row[p]] = owner[row[p]] /\ texts'[row[p]] = texts[row[p]]
        /\ links'[row[p]] = links[row[p]] /\ UNCHANGED <<dirs, blobs>>
    BY <1>8, <2>1 DEF RemoveEntry, TypeOK
  <2>3. QED
    BY <2>1, <2>2, CompleteIsStable
<1>9. CASE RemoveDirectory
  BY <1>00, <1>9 DEF RemoveDirectory, Complete
<1>10. CASE MakeDirectory
  BY <1>00, <1>10 DEF MakeDirectory, Complete
<1>11. CASE WriteJson
  BY <1>00, <1>11 DEF WriteJson, Complete, TypeOK
<1>12. CASE WriteTexts
  BY <1>00, <1>12 DEF WriteTexts, Complete, TypeOK
<1>13. CASE LinkMedium
  <2>1. row'[p] = row[p] /\ row[p] \in DirNames /\ row[p] # target /\ Complete(p, row[p])
    BY <1>00, <1>13 DEF LinkMedium
  <2>2. links'[row[p]] = links[row[p]] /\ UNCHANGED <<dirs, owner, texts, blobs>>
    BY <1>13, <2>1 DEF LinkMedium, TypeOK
  <2>3. QED
    BY <2>1, <2>2, CompleteIsStable
<1>14. CASE StoreMedium
  <2>1. row'[p] = row[p] /\ Complete(p, row[p])
    BY <1>00, <1>14 DEF StoreMedium
  <2>2. blobs \subseteq blobs' /\ UNCHANGED <<dirs, owner, texts, links>>
    BY <1>14 DEF StoreMedium
  <2>3. QED
    BY <2>1, <2>2, CompleteIsStable
<1>15. CASE RecordPost
  <2>1. CASE p = post
    <3>1. row'[p] = target /\ UNCHANGED disk /\ done = Len(Media[p]) /\ target \in DirNames
      BY <1>15, <2>1 DEF RecordPost, MediaAreDone, JobShape, TypeOK
    <3>2. Complete(p, target)
      BY <1>15, <2>1, <3>1, MediaType DEF RecordPost, TargetShape, Complete
    <3>3. QED
      BY <3>1, <3>2 DEF Complete
  <2>2. CASE p # post
    <3>1. row'[p] = row[p] /\ UNCHANGED <<disk, deletions>>
      BY <1>15, <2>2 DEF RecordPost, TypeOK
    <3>2. QED
      BY <1>00, <3>1 DEF Complete
  <2>3. QED
    BY <2>1, <2>2
<1>16. CASE WritePostFails
  <2>1. row'[p] = row[p] /\ row[p] \in DirNames /\ row[p] # target /\ Complete(p, row[p])
    BY <1>00, <1>16 DEF WritePostFails
  <2>2. /\ owner'[row[p]] = owner[row[p]] /\ texts'[row[p]] = texts[row[p]]
        /\ links'[row[p]] = links[row[p]] /\ dirs' = dirs \ {target} /\ UNCHANGED blobs
    BY <1>16, <2>1 DEF WritePostFails, Vanish, TypeOK
  <2>3. QED
    BY <2>1, <2>2, CompleteIsStable
<1>17. CASE Interrupt
  BY <1>00, <1>17 DEF Interrupt, Complete
<1>18. CASE UNCHANGED vars
  BY <1>00, <1>18 DEF vars, Complete
<1>19. QED
  BY <1>1, <1>2, <1>3, <1>4, <1>5, <1>6, <1>7, <1>8, <1>9, <1>10, <1>11, <1>12, <1>13, <1>14,
     <1>15, <1>16, <1>17, <1>18
  DEF Next, Process, Yield, TypeOK

LEMMA Invariance == Spec => []IInv
<1>1. IInv /\ [Next]_vars => IInv'
  BY TypeStep, ShapeStep, FreeStep, RecordedStep DEF IInv
<1>2. QED
  BY <1>1, InitIInv, PTL DEF Spec

-----------------------------------------------------------------------------
(* Type correctness, which the runs leave to this proof; files exist in    *)
(* directories only.                                                       *)
THEOREM TypeCorrect == Spec => []TypeOK
<1>1. IInv => TypeOK
  BY DEF IInv
<1>2. QED
  BY <1>1, Invariance, PTL

(* A manifest row is never ahead of the disk unless the user deletes what  *)
(* it claims, for any posts, media, slugs and interruptions (run).         *)
THEOREM RowsAreComplete == Spec => []RecordedIsComplete
<1>1. IInv => RecordedIsComplete
  BY DEF IInv
<1>2. QED
  BY <1>1, Invariance, PTL

-----------------------------------------------------------------------------
(* Names: every directory, row and target is a name tried for its post.    *)
OwnNames ==
  /\ \A d \in DirNames : owner[d] # None => d \in NamesOf(owner[d])
  /\ \A p \in Posts : row[p] # None => row[p] \in NamesOf(p)
  /\ target # None => target \in NamesOf(post)

LEMMA NamesInit == Init => OwnNames
  BY DEF Init, OwnNames

LEMMA NamesStep == IInv /\ OwnNames /\ [Next]_vars => OwnNames'
<1> SUFFICES ASSUME IInv, OwnNames, [Next]_vars PROVE OwnNames'
  OBVIOUS
<1>0. TypeOK /\ JobShape /\ TargetShape
  BY DEF IInv
<1> USE <1>0, NoneAssumption DEF OwnNames, disk, job, counts
<1>1. ASSUME UNCHANGED <<row, target, post>>,
             \A d \in DirNames : owner'[d] # None => owner'[d] = owner[d]
      PROVE  OwnNames'
  BY <1>1
<1>2. ASSUME NEW d \in DirNames, DeleteDirectory(d) PROVE OwnNames'
  BY <1>1, <1>2 DEF DeleteDirectory, Vanish, TypeOK
<1>3. ASSUME NEW p \in Posts, TakePost(p) PROVE OwnNames'
  BY <1>3 DEF TakePost, ForcedRow, TypeOK, JobShape
<1>4. ASSUME UNCHANGED <<row, owner>>, target' = None PROVE OwnNames'
  BY <1>4
<1>5. CASE EndWalk
  BY <1>4, <1>5 DEF EndWalk, Stop
<1>6. CASE ResolveDir
  BY <1>6 DEF ResolveDir, NamesOf
<1>7. CASE RemoveEntry
  BY <1>1, <1>7 DEF RemoveEntry, TypeOK
<1>8. CASE WriteJson
  <2>1. target \in DirNames /\ post \in Posts
    BY <1>8 DEF WriteJson, TargetShape, JobShape, TypeOK
  <2>2. QED
    BY <1>8, <2>1 DEF WriteJson, JobShape, TypeOK
<1>9. CASE RecordPost
  <2>1. target \in DirNames /\ post \in Posts
    BY <1>9 DEF RecordPost, TargetShape, JobShape, TypeOK
  <2>2. QED
    BY <1>9, <2>1 DEF RecordPost, JobShape, TypeOK
<1>10. CASE WritePostFails
  <2>1. target \in DirNames
    BY <1>10 DEF WritePostFails, JobShape, TypeOK
  <2>2. QED
    BY <1>10, <2>1 DEF WritePostFails, Vanish, Stop, TypeOK
<1>11. CASE Interrupt
  BY <1>4, <1>11 DEF Interrupt, Stop
<1>12. QED
  BY <1>1, <1>2, <1>3, <1>5, <1>6, <1>7, <1>8, <1>9, <1>10, <1>11
  DEF Next, Process, Yield, PublishPost, StartRun, SkipPost, RemoveDirectory, MakeDirectory,
      WriteTexts, StoreMedium, LinkMedium, vars, TypeOK

-----------------------------------------------------------------------------
(* As long as nothing was interrupted or deleted, every directory but the  *)
(* one being written is held by the row of the post it names, or by a post *)
(* about to be dumped again; a post has one directory; and the names tried *)
(* before a post's directory are taken, whether by posts of the same slug  *)
(* or not.  So a post that is dumped again finds its own directory first.  *)
HasPlace(p, d) == (d \in dirs /\ owner[d] = p) \/ (post = p /\ target = d)

NamesAreHeld ==
  interrupts = 0 /\ deletions = 0 =>
    /\ \A d \in dirs \ {target} :
         /\ owner[d] # None
         /\ row[owner[d]] = d \/ (owner[d] = post /\ pc = "resolve")
    /\ \A d1, d2 \in dirs : owner[d1] # None /\ owner[d1] = owner[d2] => d1 = d2
    /\ \A p \in Posts, n \in Suffixes : HasPlace(p, Try(p, n)) =>
         \A m \in 0 .. (n - 1) : Try(p, m) \in dirs \cup {target}

LEMMA HeldInit == Init => NamesAreHeld
  BY NoneAssumption DEF Init, NamesAreHeld, HasPlace

LEMMA HeldStep == IInv /\ OwnNames /\ NamesAreHeld /\ [Next]_vars => NamesAreHeld'
<1> SUFFICES ASSUME IInv, OwnNames, NamesAreHeld, [Next]_vars,
                    interrupts' = 0, deletions' = 0
             PROVE  NamesAreHeld'
  BY DEF NamesAreHeld
<1>0. TypeOK /\ JobShape /\ TargetShape
  BY DEF IInv
<1>a. interrupts = 0 /\ deletions = 0
  <2>1. interrupts \in Nat /\ deletions \in Nat
    BY <1>0 DEF TypeOK
  <2>2. QED
    BY <2>1
    DEF Next, Process, Yield, PublishPost, DeleteDirectory, StartRun, SkipPost, TakePost, EndWalk,
        ResolveDir, RemoveEntry, RemoveDirectory, MakeDirectory, WriteJson, WriteTexts,
        StoreMedium, LinkMedium, RecordPost, WritePostFails, Interrupt, counts, vars
<1>b. /\ \A d \in dirs \ {target} :
           /\ owner[d] # None
           /\ row[owner[d]] = d \/ (owner[d] = post /\ pc = "resolve")
      /\ \A d1, d2 \in dirs : owner[d1] # None /\ owner[d1] = owner[d2] => d1 = d2
      /\ \A p \in Posts, n \in Suffixes : HasPlace(p, Try(p, n)) =>
           \A m \in 0 .. (n - 1) : Try(p, m) \in dirs \cup {target}
      /\ TargetIsFree /\ \A p \in Posts : row[p] # None => Complete(p, row[p])
  BY <1>a DEF NamesAreHeld, IInv, RecordedIsComplete
<1>c. ASSUME dirs \cup {target} \subseteq dirs' \cup {target', None},
             \A p \in Posts, n \in Suffixes : HasPlace(p, Try(p, n))' => HasPlace(p, Try(p, n))
      PROVE  \A p \in Posts, n \in Suffixes : HasPlace(p, Try(p, n))' =>
               \A m \in 0 .. (n - 1) : Try(p, m) \in dirs' \cup {target'}
  <2>1. \A p \in Posts, n \in Suffixes : \A m \in 0 .. (n - 1) : Try(p, m) # None
    BY ConstantsAssumption, NoneAssumption DEF DirNames, NamesOf, Suffixes
  <2>2. QED
    BY <1>b, <1>c, <2>1
<1>d. \A p \in Posts, n \in Suffixes : p # None /\ Try(p, n) \in DirNames /\ Try(p, n) # None
  BY NoneAssumption DEF DirNames, NamesOf
<1>1. ASSUME UNCHANGED <<row, dirs, owner, target, post>>, pc = "resolve" => pc' = "resolve"
      PROVE  NamesAreHeld'
  BY <1>b, <1>1 DEF NamesAreHeld, HasPlace
<1>2. ASSUME NEW p \in Posts, TakePost(p) PROVE NamesAreHeld'
  <2>1. target = None /\ target' = None /\ post' = p /\ pc # "resolve" /\ pc' = "resolve"
        /\ UNCHANGED <<dirs, owner>>
    BY <1>0, <1>2 DEF TakePost, JobShape, disk
  <2>2. \A q \in Posts : q # p => row'[q] = row[q]
    BY <1>0, <1>2 DEF TakePost, TypeOK
  <2>3. ASSUME NEW d \in dirs \ {target}
        PROVE  owner[d] # None /\ (row'[owner[d]] = d \/ owner[d] = p)
    BY <1>0, <1>b, <2>1, <2>2 DEF TypeOK
  <2>4. \A q \in Posts, n \in Suffixes : HasPlace(q, Try(q, n))' => HasPlace(q, Try(q, n))
    BY <1>d, <2>1 DEF HasPlace
  <2>5. QED
    BY <1>b, <1>c, <2>1, <2>3, <2>4 DEF NamesAreHeld
<1>3. CASE EndWalk
  BY <1>0, <1>b, <1>3 DEF EndWalk, Stop, disk, JobShape, NamesAreHeld, HasPlace
<1>4. CASE ResolveDir
  <2>1. PICK n \in Suffixes :
          /\ Available(Try(post, n)) /\ target' = Try(post, n)
          /\ \A m \in 0 .. (n - 1) : ~Available(Try(post, m))
    BY <1>4 DEF ResolveDir
  <2>2. /\ post \in Posts /\ target = None /\ None \notin DirNames
        /\ UNCHANGED <<row, dirs, owner, post>> /\ dirs \subseteq DirNames
    BY <1>0, <1>4, NoneAssumption DEF ResolveDir, disk, JobShape, TypeOK
  <2>3. \A p \in Posts, k \in Suffixes : \A m \in 0 .. (k - 1) : Try(p, m) # None
    BY <2>2, ConstantsAssumption DEF DirNames, NamesOf, Suffixes
  <2>4. ASSUME NEW d \in dirs, owner[d] = post PROVE d = target'
    <3>1. PICK k \in Suffixes : d = Try(post, k)
      BY <2>2, <2>4, NoneAssumption DEF OwnNames, NamesOf
    <3>2. Available(d)
      BY <2>4 DEF Available
    <3>3. n <= k
      BY <2>1, <3>1, <3>2, ConstantsAssumption DEF Suffixes
    <3>4. CASE n < k
      <4>1. n \in 0 .. (k - 1)
        BY <2>1, <3>1, <3>4, ConstantsAssumption DEF Suffixes
      <4>2. Try(post, n) \in dirs
        BY <1>b, <2>2, <2>3, <2>4, <3>1, <4>1 DEF HasPlace
      <4>3. owner[Try(post, n)] = post
        BY <2>1, <4>2 DEF Available
      <4>4. QED
        BY <1>b, <2>1, <2>2, <2>4, <4>2, <4>3, NoneAssumption
    <3>5. QED
      BY <2>1, <3>1, <3>3, <3>4, ConstantsAssumption DEF Suffixes
  <2>5. \A d \in dirs \ {target'} : owner[d] # None /\ row[owner[d]] = d
    BY <1>b, <2>2, <2>4
  <2>6. ASSUME NEW p \in Posts, NEW k \in Suffixes, HasPlace(p, Try(p, k))',
               NEW m \in 0 .. (k - 1)
        PROVE  Try(p, m) \in dirs \cup {target'}
    <3>1. CASE Try(p, k) \in dirs /\ owner[Try(p, k)] = p
      BY <1>b, <2>2, <2>3, <2>6, <3>1 DEF HasPlace
    <3>2. CASE post = p /\ target' = Try(p, k)
      <4>1. n = k
        BY <2>1, <2>6, <3>2, NamesAssumption
      <4>2. QED
        BY <2>1, <2>6, <3>2, <4>1 DEF Available
    <3>3. QED
      BY <2>2, <2>6, <3>1, <3>2 DEF HasPlace
  <2>7. QED
    BY <1>b, <2>2, <2>5, <2>6 DEF NamesAreHeld
<1>5. CASE RemoveEntry
  <2>1. /\ UNCHANGED <<row, dirs, target, post, pc>> /\ target \in DirNames
        /\ \A d \in DirNames : d # target => owner'[d] = owner[d]
        /\ owner'[target] = owner[target] \/ owner'[target] = None
    BY <1>0, <1>5 DEF RemoveEntry, job, TypeOK, JobShape
  <2>2. \A d \in dirs : owner'[d] # None => owner'[d] = owner[d]
    BY <1>0, <2>1 DEF TypeOK
  <2>3. \A q \in Posts, n \in Suffixes : HasPlace(q, Try(q, n))' => HasPlace(q, Try(q, n))
    BY <1>d, <2>1, <2>2 DEF HasPlace
  <2>4. QED
    BY <1>0, <1>b, <1>c, <2>1, <2>2, <2>3 DEF NamesAreHeld, TypeOK
<1>6. CASE RemoveDirectory
  BY <1>b, <1>6 DEF RemoveDirectory, job, NamesAreHeld, HasPlace
<1>7. CASE MakeDirectory
  <2>1. target \in DirNames /\ target \notin dirs /\ owner[target] = None
    BY <1>0, <1>7 DEF MakeDirectory, JobShape, TargetShape, TypeOK
  <2>2. UNCHANGED <<row, owner, target, post>> /\ dirs' = dirs \cup {target} /\ pc # "resolve"
    BY <1>7 DEF MakeDirectory, job
  <2>3. \A q \in Posts, n \in Suffixes : HasPlace(q, Try(q, n))' => HasPlace(q, Try(q, n))
    BY <1>d, <2>1, <2>2 DEF HasPlace
  <2>4. QED
    BY <1>b, <1>c, <2>1, <2>2, <2>3 DEF NamesAreHeld
<1>8. CASE WriteJson
  <2>1. /\ target \in DirNames /\ post # None /\ post \in Posts /\ row[post] = None
        /\ UNCHANGED <<row, dirs, target, post>> /\ pc # "resolve" /\ pc' # "resolve"
        /\ owner' = [owner EXCEPT ![target] = post]
    BY <1>0, <1>b, <1>8 DEF WriteJson, job, JobShape, TypeOK, TargetIsFree
  <2>2. \A d \in dirs \ {target} : owner'[d] = owner[d] /\ owner[d] # post
    BY <1>0, <1>b, <2>1, NoneAssumption DEF TypeOK
  <2>3. owner'[target] = post
    BY <1>0, <2>1 DEF TypeOK
  <2>4. QED
    BY <1>b, <2>1, <2>2, <2>3 DEF NamesAreHeld, HasPlace
<1>9. CASE RecordPost
  <2>1. /\ target \in dirs /\ target \in DirNames /\ post \in Posts /\ owner[target] = post
        /\ row' = [row EXCEPT ![post] = target] /\ target' = None
        /\ UNCHANGED <<dirs, owner>> /\ row[post] = None
    BY <1>0, <1>b, <1>9, NoneAssumption
    DEF RecordPost, disk, JobShape, TargetShape, TypeOK, TargetIsFree
  <2>2. \A d \in dirs : owner[d] # None /\ row'[owner[d]] = d
    <3>1. ASSUME NEW d \in dirs, d # target PROVE owner[d] # None /\ row'[owner[d]] = d
      <4>1. /\ owner[d] # None /\ row[owner[d]] = d /\ d # None /\ owner[d] \in Posts
        BY <1>0, <1>9, <1>b, <3>1, NoneAssumption DEF RecordPost, TypeOK
      <4>2. QED
        BY <1>0, <2>1, <4>1 DEF TypeOK
    <3>2. QED
      BY <1>0, <2>1, <3>1, NoneAssumption DEF TypeOK
  <2>3. \A q \in Posts, n \in Suffixes : HasPlace(q, Try(q, n))' => HasPlace(q, Try(q, n))
    BY <1>d, <1>9, <2>1 DEF HasPlace, RecordPost
  <2>4. QED
    BY <1>b, <1>c, <2>1, <2>2, <2>3 DEF NamesAreHeld
<1>10. CASE WritePostFails
  BY <1>a, <1>10 DEF WritePostFails
<1>11. CASE Interrupt
  BY <1>a, <1>11 DEF Interrupt
<1>12. ASSUME NEW d \in DirNames, DeleteDirectory(d) PROVE FALSE
  BY <1>a, <1>12 DEF DeleteDirectory
<1>13. QED
  BY <1>0, <1>1, <1>2, <1>3, <1>4, <1>5, <1>6, <1>7, <1>8, <1>9, <1>10, <1>11, <1>12
  DEF Next, Process, Yield, PublishPost, StartRun, SkipPost, WriteTexts, StoreMedium, LinkMedium,
      disk, job, vars, TypeOK, JobShape

(* A post is in a suffixed directory only because other posts hold the     *)
(* names before it (resolve_post_dir).                                     *)
THEOREM NoNameIsOrphaned == Spec => []NoOrphanedNames
<1>1. IInv /\ OwnNames /\ NamesAreHeld => NoOrphanedNames
  <2> SUFFICES ASSUME IInv, OwnNames, NamesAreHeld, interrupts = 0, deletions = 0,
                        pc \in {"idle", "walk"}, NEW p \in Posts,
                        NEW n \in Suffixes, row[p] = Try(p, n),
                        NEW m \in 0 .. (n - 1)
                 PROVE  owner[Try(p, m)] \notin {None, p}
    BY DEF NoOrphanedNames
  <2>1. m \in Suffixes /\ m # n
    BY ConstantsAssumption DEF Suffixes
  <2>2. Try(p, m) \in DirNames /\ Try(p, n) \in DirNames /\ Try(p, m) # Try(p, n)
    BY <2>1, NamesAssumption DEF DirNames, NamesOf
  <2>3. row[p] \in dirs /\ owner[row[p]] = p /\ target = None
    BY <2>2, NoneAssumption DEF IInv, JobShape, RecordedIsComplete, Complete
  <2>4. Try(p, m) \in dirs \ {target}
    BY <2>2, <2>3, NoneAssumption DEF NamesAreHeld, HasPlace
  <2>5. /\ owner[Try(p, m)] # None
        /\ row[owner[Try(p, m)]] = Try(p, m)
    BY <2>4 DEF NamesAreHeld
  <2>6. QED
    BY <2>2, <2>5
<1>2. Init => OwnNames /\ NamesAreHeld
  BY NamesInit, HeldInit
<1>3. QED
  BY <1>1, <1>2, NamesStep, HeldStep, Invariance, PTL DEF Spec

-----------------------------------------------------------------------------
(* A directory deleted by the user can be half rebuilt with the row in     *)
(* place.  But as long as no run is interrupted, and no other post can be  *)
(* given the name in a post's row, what the row names is complete if it    *)
(* exists.                                                                 *)
HasOwnName(p) == \A q \in Posts \ {p} : row[p] \notin NamesOf(q)

LoneDirIsComplete ==
  interrupts = 0 =>
    \A p \in Posts : HasOwnName(p) /\ post # p /\ row[p] \in dirs => Complete(p, row[p])

LEMMA LoneInit == Init => LoneDirIsComplete
  BY DEF Init, LoneDirIsComplete

LEMMA LoneStep == IInv /\ OwnNames /\ LoneDirIsComplete /\ [Next]_vars => LoneDirIsComplete'
<1> SUFFICES ASSUME IInv, OwnNames, LoneDirIsComplete, [Next]_vars, interrupts' = 0,
                    NEW p \in Posts, HasOwnName(p)', post' # p, row'[p] \in dirs'
             PROVE  Complete(p, row[p])'
  BY DEF LoneDirIsComplete
<1>0. TypeOK /\ JobShape /\ TargetShape
  BY DEF IInv
<1>a. interrupts = 0
  <2>1. interrupts \in Nat
    BY <1>0 DEF TypeOK
  <2>2. QED
    BY <2>1
    DEF Next, Process, Yield, PublishPost, DeleteDirectory, StartRun, SkipPost, TakePost, EndWalk,
        ResolveDir, RemoveEntry, RemoveDirectory, MakeDirectory, WriteJson, WriteTexts,
        StoreMedium, LinkMedium, RecordPost, WritePostFails, Interrupt, counts, vars
<1>b. row'[p] = row[p] /\ post # p /\ row[p] \in dirs => Complete(p, row[p])
  BY <1>a DEF LoneDirIsComplete, HasOwnName
<1>c. row'[p] = row[p] /\ post # p /\ row[p] # None /\ target # None => row[p] # target
  BY <1>0 DEF OwnNames, HasOwnName, JobShape, TypeOK
<1>d. \A d \in dirs : d \in DirNames /\ d # None
  BY <1>0, NoneAssumption DEF TypeOK
<1> USE DEF disk, job, counts
<1>1. ASSUME UNCHANGED <<row, dirs, owner, texts, links>>, post # p, blobs \subseteq blobs'
      PROVE  Complete(p, row[p])'
  BY <1>b, <1>1, CompleteIsStable
<1>2. ASSUME UNCHANGED row, post # p, target # None, blobs \subseteq blobs',
             row[p] \in dirs' => row[p] \in dirs,
             \A d \in DirNames : d # target => /\ owner'[d] = owner[d] /\ texts'[d] = texts[d]
                                               /\ links'[d] = links[d]
      PROVE  Complete(p, row[p])'
  <2>1. row[p] \in dirs /\ row'[p] = row[p] /\ Complete(p, row[p])
    BY <1>b, <1>2
  <2>2. row[p] # target
    BY <1>c, <1>d, <1>2, <2>1
  <2>3. QED
    BY <1>d, <1>2, <2>1, <2>2, CompleteIsStable
<1>3. ASSUME NEW d \in DirNames, DeleteDirectory(d) PROVE Complete(p, row[p])'
  <2>1. post # p /\ row[p] \in dirs /\ row[p] # d
    BY <1>0, <1>3 DEF DeleteDirectory, Vanish, JobShape
  <2>2. /\ owner'[row[p]] = owner[row[p]] /\ texts'[row[p]] = texts[row[p]]
        /\ links'[row[p]] = links[row[p]] /\ UNCHANGED <<row, blobs>>
    BY <1>0, <1>3, <1>d, <2>1 DEF DeleteDirectory, Vanish, TypeOK
  <2>3. QED
    BY <1>b, <2>1, <2>2, CompleteIsStable
<1>4. ASSUME NEW q \in Posts, TakePost(q) PROVE Complete(p, row[p])'
  <2>1. post # p /\ row'[p] = row[p] /\ UNCHANGED disk
    BY <1>0, <1>4, NoneAssumption DEF TakePost, JobShape, TypeOK
  <2>2. QED
    BY <1>b, <2>1, CompleteIsStable
<1>5. CASE EndWalk
  BY <1>0, <1>1, <1>5, NoneAssumption DEF EndWalk, Stop, JobShape
<1>6. CASE RemoveEntry
  <2>1. /\ UNCHANGED <<row, dirs, blobs, post>> /\ target # None
        /\ \A d \in DirNames : d # target => owner'[d] = owner[d] /\ texts'[d] = texts[d]
    BY <1>0, <1>6 DEF RemoveEntry, JobShape, TypeOK
  <2>2. \A d \in DirNames : d # target => links'[d] = links[d]
    BY <1>0, <1>6 DEF RemoveEntry, TypeOK
  <2>3. QED
    BY <1>2, <2>1, <2>2
<1>7. CASE RemoveDirectory
  BY <1>0, <1>2, <1>7 DEF RemoveDirectory, JobShape
<1>8. CASE MakeDirectory
  <2>1. /\ UNCHANGED <<row, owner, texts, links, blobs, post>> /\ target # None
        /\ dirs' = dirs \cup {target}
    BY <1>0, <1>8 DEF MakeDirectory, JobShape
  <2>2. row[p] # target
    BY <1>0, <1>c, <2>1
  <2>3. QED
    BY <1>2, <2>1, <2>2
<1>9. CASE WriteJson
  BY <1>0, <1>2, <1>9 DEF WriteJson, JobShape, TypeOK
<1>10. CASE WriteTexts
  BY <1>0, <1>2, <1>10 DEF WriteTexts, JobShape, TypeOK
<1>11. CASE StoreMedium
  BY <1>1, <1>11 DEF StoreMedium
<1>12. CASE LinkMedium
  <2>1. /\ UNCHANGED <<row, dirs, owner, texts, blobs, post>> /\ target # None
        /\ \A d \in DirNames : d # target => links'[d] = links[d]
    BY <1>0, <1>12 DEF LinkMedium, JobShape, TypeOK
  <2>2. QED
    BY <1>2, <2>1
<1>13. CASE RecordPost
  <2>1. CASE p = post
    <3>1. row'[p] = target /\ UNCHANGED disk /\ done = Len(Media[p]) /\ target \in DirNames
      BY <1>0, <1>13, <2>1 DEF RecordPost, MediaAreDone, JobShape, TypeOK
    <3>2. Complete(p, target)
      BY <1>0, <1>13, <2>1, <3>1, MediaType DEF RecordPost, TargetShape, Complete
    <3>3. QED
      BY <3>1, <3>2 DEF Complete
  <2>2. CASE p # post
    <3>1. row'[p] = row[p] /\ UNCHANGED disk
      BY <1>0, <1>13, <2>2 DEF RecordPost, TypeOK
    <3>2. QED
      BY <1>b, <2>2, <3>1, CompleteIsStable
  <2>3. QED
    BY <2>1, <2>2
<1>14. CASE WritePostFails
  BY <1>0, <1>a, <1>14 DEF WritePostFails
<1>15. CASE Interrupt
  BY <1>0, <1>a, <1>15 DEF Interrupt
<1>16. QED
  BY <1>0, <1>1, <1>3, <1>4, <1>5, <1>6, <1>7, <1>8, <1>9, <1>10, <1>11, <1>12, <1>13, <1>14, <1>15
  DEF Next, Process, Yield, PublishPost, StartRun, SkipPost, ResolveDir, vars, TypeOK

(* What a run skips is a whole dump of the post itself, if nothing was     *)
(* deleted, or nothing interrupted and the name is the post's own (run).   *)
THEOREM SkippedPostsAreComplete == Spec => SkippedIsComplete
<1>1. IInv /\ LoneDirIsComplete =>
        \A p \in Posts : SkipPost(p) /\ IsSafe(p) => Complete(p, row[p])
  <2> SUFFICES ASSUME IInv, LoneDirIsComplete, NEW p \in Posts, SkipPost(p), IsSafe(p)
                 PROVE  Complete(p, row[p])
    OBVIOUS
  <2>2. post # p /\ row[p] # None /\ row[p] \in dirs
    BY NoneAssumption DEF SkipPost, IsDumped, IInv, JobShape, TypeOK
  <2>3. CASE deletions = 0
    BY <2>2, <2>3 DEF IInv, RecordedIsComplete
  <2>4. CASE interrupts = 0 /\ HasOwnName(p)
    BY <2>2, <2>4 DEF LoneDirIsComplete
  <2>5. QED
    BY <2>3, <2>4 DEF IsSafe, HasOwnName
<1>2. QED
  BY <1>1, NamesInit, NamesStep, LoneInit, LoneStep, Invariance, PTL DEF Spec, SkippedIsComplete

-----------------------------------------------------------------------------
(* The run implements the ledger.  A post no process is dumping is stored  *)
(* exactly if it is claimed, so a step of the process is a Store of the    *)
(* post in hand whatever it does to that post's directory.                 *)

PublishedFirst ==
  /\ \A p \in Posts : row[p] # None => p \in published
  /\ post # None => post \in published

LEMMA PublishedInit == Init => PublishedFirst
  BY DEF Init, PublishedFirst

LEMMA PublishedStep == IInv /\ PublishedFirst /\ [Next]_vars => PublishedFirst'
<1> SUFFICES ASSUME IInv, PublishedFirst, [Next]_vars PROVE PublishedFirst'
  OBVIOUS
<1>0. TypeOK /\ JobShape
  BY DEF IInv
<1> USE <1>0 DEF PublishedFirst, disk, job, counts
<1>1. ASSUME UNCHANGED row, post' \in {post, None}, published \subseteq published'
      PROVE  PublishedFirst'
  BY <1>1
<1>2. ASSUME NEW p \in Posts, TakePost(p) PROVE PublishedFirst'
  BY <1>2 DEF TakePost, ForcedRow, TypeOK
<1>3. CASE RecordPost
  BY <1>3, NoneAssumption DEF RecordPost, JobShape, TypeOK
<1>4. QED
  BY <1>1, <1>2, <1>3
  DEF Next, Process, Yield, PublishPost, DeleteDirectory, StartRun, SkipPost, EndWalk, Stop,
      ResolveDir, RemoveEntry, RemoveDirectory, MakeDirectory, WriteJson, WriteTexts,
      StoreMedium, LinkMedium, WritePostFails, Interrupt, vars, TypeOK

Stored(p)  == Once(\/ Place(p) # None /\ Complete(p, Place(p))
                   \/ deletions > 0 /\ row[p] # None)
Claimed(p) == Once(row[p] # None)
Out(p)     == Once(p \in published)

StoredIsBetween ==
  \A p \in Posts : /\ Stored(p) \in Nat /\ Claimed(p) \in Nat /\ Out(p) \in Nat
                   /\ Claimed(p) <= Stored(p) /\ Stored(p) <= Out(p)
                   /\ p # post => Stored(p) = Claimed(p)
                   /\ row[p] # None => Stored(p) = 1

LEMMA StoredBetween == IInv /\ PublishedFirst => StoredIsBetween
<1> SUFFICES ASSUME IInv, PublishedFirst, NEW p \in Posts
             PROVE  /\ Stored(p) \in Nat /\ Claimed(p) \in Nat /\ Out(p) \in Nat
                    /\ Claimed(p) <= Stored(p) /\ Stored(p) <= Out(p)
                    /\ p # post => Stored(p) = Claimed(p)
                    /\ row[p] # None => Stored(p) = 1
  BY DEF StoredIsBetween
<1>1. row[p] # None => Stored(p) = 1
  <2>1. CASE deletions = 0
    BY <2>1 DEF Stored, Once, Place, IInv, RecordedIsComplete
  <2>2. CASE deletions > 0
    BY <2>2 DEF Stored, Once
  <2>3. QED
    BY <2>1, <2>2 DEF IInv, TypeOK
<1>2. p # post => Stored(p) = Claimed(p)
  BY <1>1 DEF Stored, Claimed, Once, Place
<1>3. Stored(p) \in {0, 1} /\ (Stored(p) = 1 => p \in published)
  BY <1>1, <1>2, NoneAssumption DEF Stored, Claimed, Once, PublishedFirst
<1>4. QED
  BY <1>1, <1>2, <1>3 DEF Claimed, Out, Once

LedgerNext ==
  [Ledger!Next]_<<[p \in Posts |-> Out(p)], [p \in Posts |-> Stored(p)],
                  [p \in Posts |-> Claimed(p)]>>

(* The ways in which a step of the run is a step of the ledger.            *)
LEMMA LedgerSteps ==
  ASSUME StoredIsBetween, StoredIsBetween', UNCHANGED published, NEW c \in Posts,
         \A x \in Posts \ {c} : Stored(x)' = Stored(x) /\ Claimed(x)' = Claimed(x),
         \/ Claimed(c)' = Claimed(c)
         \/ Claimed(c)' = Stored(c) /\ Stored(c)' = Stored(c)
         \/ Claimed(c)' = 0
  PROVE  LedgerNext
<1> DEFINE out     == [p \in Posts |-> Out(p)]
           stored  == [p \in Posts |-> Stored(p)]
           claimed == [p \in Posts |-> Claimed(p)]
           n == Stored(c)'
<1>0. /\ stored' = [stored EXCEPT ![c] = n] /\ out' = out
      /\ n \in Nat /\ Claimed(c)' <= n /\ n <= out[c]
  <2>1. Stored(c)' \in Nat /\ Claimed(c)' <= Stored(c)' /\ Stored(c)' <= Out(c)'
    BY DEF StoredIsBetween
  <2>2. QED
    BY <2>1 DEF Out
<1>1. ASSUME Claimed(c)' = Claimed(c) PROVE Ledger!Store(c)
  <2>1. claimed' = claimed /\ n \in claimed[c] .. out[c]
    BY <1>0, <1>1 DEF StoredIsBetween
  <2> HIDE DEF n
  <2>2. QED
    BY <1>0, <2>1 DEF Ledger!Store, Stored, Claimed, Out
<1>2. ASSUME Claimed(c)' = Stored(c), Stored(c)' = Stored(c) PROVE Ledger!Claim(c)
  <2>1. claimed' = [claimed EXCEPT ![c] = stored[c]] /\ stored' = stored
    BY <1>2
  <2>2. QED
    BY <1>0, <2>1 DEF Ledger!Claim, Stored, Claimed, Out
<1>3. ASSUME Claimed(c)' = 0 PROVE Ledger!Withdraw(c)
  <2>1. claimed' = [claimed EXCEPT ![c] = 0]
    BY <1>3
  <2>2. out[c] \in Nat
    BY DEF StoredIsBetween
  <2> HIDE DEF n
  <2>3. n \in 0 .. out[c]
    BY <1>0, <2>2
  <2>4. QED
    BY <1>0, <2>1, <2>3 DEF Ledger!Withdraw, Stored, Claimed, Out
<1>4. QED
  BY <1>1, <1>2, <1>3 DEF Ledger!Next, LedgerNext

LEMMA RunStepsAreLedgerSteps ==
  ASSUME IInv, PublishedFirst, StoredIsBetween, StoredIsBetween', [Next]_vars
  PROVE  LedgerNext
<1>0. TypeOK /\ JobShape /\ TargetShape
  BY DEF IInv
<1> USE <1>0, NoneAssumption DEF disk, job, counts
(* A row is forgotten or made, if at all, for the post in hand.            *)
<1>1. ASSUME UNCHANGED <<published, row>>, NEW c \in Posts,
             \A x \in Posts \ {c} : x # post /\ x # post'
      PROVE  LedgerNext
  <2>1. \A x \in Posts : Claimed(x)' = Claimed(x)
    BY <1>1 DEF Claimed, Once
  <2>2. \A x \in Posts \ {c} : Stored(x)' = Stored(x)
    BY <1>1, <2>1 DEF StoredIsBetween
  <2>3. QED
    BY <1>1, <2>1, <2>2, LedgerSteps
<1>2. ASSUME UNCHANGED <<published, row>>, post = None, post' = None PROVE LedgerNext
  <2>1. PICK c \in Posts : TRUE
    BY ConstantsAssumption
  <2>2. QED
    BY <1>1, <1>2, <2>1
<1>3. ASSUME UNCHANGED <<published, row>>, post # None, post' \in {post, None} PROVE LedgerNext
  BY <1>1, <1>3 DEF TypeOK
<1>4. ASSUME NEW p \in Posts, PublishPost(p) PROVE LedgerNext
  <2>0. UNCHANGED <<row, disk, post, target, deletions>>
    BY <1>4 DEF PublishPost
  <2>a. \A x \in Posts : Out(x)' = IF x = p THEN Out(p) + 1 ELSE Out(x)
    BY <1>4 DEF PublishPost, Out, Once
  <2>1. [x \in Posts |-> Out(x)]' = [[x \in Posts |-> Out(x)] EXCEPT ![p] = @ + 1]
    BY <2>a
  <2>2. /\ [x \in Posts |-> Stored(x)]' = [x \in Posts |-> Stored(x)]
        /\ [x \in Posts |-> Claimed(x)]' = [x \in Posts |-> Claimed(x)]
    BY <2>0 DEF Stored, Claimed, Place, Complete
  <2>3. Ledger!Publish(p)
    BY <2>1, <2>2 DEF Ledger!Publish, Out, Stored, Claimed
  <2>4. QED
    BY <2>3 DEF Ledger!Next, LedgerNext
<1>5. ASSUME NEW d \in DirNames, DeleteDirectory(d) PROVE LedgerNext
  BY <1>2, <1>5 DEF DeleteDirectory, JobShape
<1>6. ASSUME NEW F \in SUBSET Slugs, StartRun(F) PROVE LedgerNext
  BY <1>2, <1>6 DEF StartRun, JobShape
<1>7. ASSUME NEW p \in Posts, SkipPost(p) PROVE LedgerNext
  BY <1>2, <1>7 DEF SkipPost, JobShape
<1>8. CASE EndWalk
  BY <1>2, <1>8 DEF EndWalk, Stop, JobShape
<1>9. ASSUME NEW p \in Posts, TakePost(p) PROVE LedgerNext
  <2>1. /\ UNCHANGED <<published, disk, target, deletions>>
        /\ post = None /\ post' = p /\ target = None
        /\ row' = row \/ (row'[p] = None /\ \A x \in Posts \ {p} : row'[x] = row[x])
    BY <1>9 DEF TakePost, ForcedRow, JobShape, TypeOK
  <2>2. \A x \in Posts \ {p} : Claimed(x)' = Claimed(x)
    BY <2>1 DEF Claimed
  <2>3. \A x \in Posts \ {p} : Stored(x)' = Stored(x)
    BY <2>1, <2>2 DEF StoredIsBetween
  <2>4. Claimed(p)' = Claimed(p) \/ Claimed(p)' = 0
    BY <2>1 DEF Claimed, Once
  <2>5. QED
    BY <2>1, <2>2, <2>3, <2>4, LedgerSteps
<1>10. CASE RecordPost
  <2>1. PICK c \in Posts : c = post
    BY <1>10 DEF RecordPost, JobShape, TypeOK
  <2>2. /\ target \in DirNames /\ row'[c] = target
        /\ UNCHANGED <<published, disk, deletions>>
        /\ \A x \in Posts \ {c} : row'[x] = row[x] /\ x # post /\ x # post'
    BY <1>10, <2>1 DEF RecordPost, JobShape, TypeOK
  <2>3. \A x \in Posts \ {c} : Claimed(x)' = Claimed(x)
    BY <2>2 DEF Claimed
  <2>4. \A x \in Posts \ {c} : Stored(x)' = Stored(x)
    BY <2>2, <2>3 DEF StoredIsBetween
  <2>5. Complete(c, target)
    BY <1>10, <2>1, MediaType DEF RecordPost, MediaAreDone, TargetShape, Complete
  <2>6. Stored(c) = 1
    BY <2>1, <2>2, <2>5 DEF StoredIsBetween, Stored, Once, Place
  <2>7. Stored(c)' = 1 /\ Claimed(c)' = 1
    BY <2>2 DEF StoredIsBetween, Claimed, Once
  <2>8. QED
    BY <2>2, <2>3, <2>4, <2>6, <2>7, LedgerSteps
<1>11. CASE ResolveDir
  BY <1>3, <1>11 DEF ResolveDir, JobShape
<1>12. CASE RemoveEntry \/ RemoveDirectory \/ MakeDirectory
  BY <1>3, <1>12 DEF RemoveEntry, RemoveDirectory, MakeDirectory, JobShape
<1>13. CASE WriteJson \/ WriteTexts \/ StoreMedium \/ LinkMedium
  BY <1>3, <1>13 DEF WriteJson, WriteTexts, StoreMedium, LinkMedium, JobShape
<1>14. CASE WritePostFails
  BY <1>3, <1>14 DEF WritePostFails, Stop, JobShape
<1>15. CASE Interrupt
  BY <1>2, <1>3, <1>15 DEF Interrupt, Stop
<1>16. CASE UNCHANGED vars
  BY <1>2, <1>3, <1>16 DEF vars
<1>17. QED
  BY <1>4, <1>5, <1>6, <1>7, <1>8, <1>9, <1>10, <1>11, <1>12, <1>13, <1>14, <1>15, <1>16
  DEF Next, Process, Yield, TypeOK

(* The run is an implementation of the ledger, whatever is interrupted and *)
(* deleted: a post is claimed when it is stored, and what is claimed stays *)
(* stored until the claim is withdrawn (run, force_clear).                 *)
THEOREM RunImplementsLedger == Spec => ImplementsLedger
<1>1. Init => Ledger!Init
  BY DEF Init, Ledger!Init, Place, Once
<1>2. IInv /\ PublishedFirst => StoredIsBetween
  BY StoredBetween
<1>3. IInv /\ PublishedFirst /\ StoredIsBetween /\ StoredIsBetween' /\ [Next]_vars => LedgerNext
  BY RunStepsAreLedgerSteps
<1>4. LedgerNext => [Ledger!Next]_(Ledger!ledger)
  BY DEF LedgerNext, Ledger!ledger, Stored, Claimed, Out
<1>5. QED
  BY <1>1, <1>2, <1>3, <1>4, PublishedInit, PublishedStep, Invariance, PTL
  DEF Spec, ImplementsLedger, Ledger!Spec

=============================================================================
