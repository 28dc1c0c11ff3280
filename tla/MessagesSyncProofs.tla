------------------------- MODULE MessagesSyncProofs -------------------------
(***************************************************************************)
(* Proofs about MessagesSync for every set of conversations, calendar and  *)
(* bound.  There are three layers: what a process counted (CountsFit, with *)
(* the types), what the disk and the rows hold while no directory is       *)
(* deleted (JobIsSound with the invariants it supports), and what a stamp  *)
(* means while no two messages share a second (StampsAreSound).            *)
(***************************************************************************)
EXTENDS MessagesSync, FiniteSetTheorems, TLAPS

-----------------------------------------------------------------------------
(* Histories and their sizes.                                              *)

LEMMA HistoryInclusion ==
  ASSUME NEW c, NEW m \in Nat, NEW n \in Nat
  PROVE  /\ History(c, m) \subseteq History(c, n) <=> m <= n
         /\ History(c, m) \ History(c, n) = {} <=> m <= n
         /\ m <= n => History(c, m) \cup (History(c, n) \ History(c, m)) = History(c, n)
         /\ History(c, 0) = {}
<1>1. ASSUME m <= n PROVE History(c, m) \subseteq History(c, n)
  BY <1>1 DEF History
<1>2. ASSUME ~(m <= n) PROVE ~(History(c, m) \subseteq History(c, n))
  <2>1. <<c, m>> \in History(c, m) /\ <<c, m>> \notin History(c, n) BY <1>2 DEF History
  <2> QED BY <2>1
<1>3. History(c, 0) = {}
  BY DEF History
<1> QED BY <1>1, <1>2, <1>3

LEMMA HistorySize ==
  ASSUME NEW c, NEW m \in Nat, NEW n \in Nat, m <= n
  PROVE  /\ IsFiniteSet(History(c, n) \ History(c, m))
         /\ Cardinality(History(c, n) \ History(c, m)) = n - m
<1> DEFINE T == History(c, n) \ History(c, m)
           f == [i \in (m + 1) .. n |-> <<c, i>>]
<1>1. \A i : i \in (m + 1) .. n <=> i \in 1 .. n /\ i \notin 1 .. m
  OBVIOUS
<1>2. T = {<<c, i>> : i \in (m + 1) .. n}
  BY <1>1 DEF History
<1>3. f \in Bijection((m + 1) .. n, T)
  <2>1. f \in [(m + 1) .. n -> T] BY <1>2
  <2>2. \A i, j \in (m + 1) .. n : f[i] = f[j] => i = j BY SMT
  <2>3. \A t \in T : \E i \in (m + 1) .. n : f[i] = t BY <1>2
  <2> QED BY <2>1, <2>2, <2>3 DEF Bijection, Injection, Surjection, IsInjective
<1>4. ExistsBijection((m + 1) .. n, T)
  BY <1>3 DEF ExistsBijection
<1>5. IsFiniteSet((m + 1) .. n) /\ Cardinality((m + 1) .. n) = n - m
  <2>1. m + 1 \in Int /\ n \in Int OBVIOUS
  <2>2. /\ IsFiniteSet((m + 1) .. n)
        /\ Cardinality((m + 1) .. n) = IF m + 1 > n THEN 0 ELSE n - (m + 1) + 1
    BY ONLY <2>1, FS_Interval, Zenon
  <2> QED BY <2>2
<1> HIDE DEF T
<1>6. IsFiniteSet(T) /\ Cardinality(T) = n - m
  BY <1>4, <1>5, FS_Bijection
<1> QED BY <1>6 DEF T

LEMMA WholeHistorySize ==
  ASSUME NEW c, NEW n \in Nat
  PROVE  IsFiniteSet(History(c, n)) /\ Cardinality(History(c, n)) = n
  BY HistorySize, HistoryInclusion

LEMMA PartSize ==
  ASSUME NEW c, NEW m \in Nat, NEW n \in Nat, m <= n,
         NEW S \in SUBSET (History(c, n) \ History(c, m))
  PROVE  Cardinality(S) \in Nat /\ Cardinality(S) <= n - m
<1> DEFINE T == History(c, n) \ History(c, m)
<1>1. IsFiniteSet(T) /\ Cardinality(T) = n - m BY HistorySize
<1> HIDE DEF T
<1>2. IsFiniteSet(S) /\ Cardinality(S) <= Cardinality(T)
  <2>1. S \in SUBSET T BY DEF T
  <2> QED BY <1>1, <2>1, FS_Subset
<1> QED BY <1>1, <1>2, FS_CardinalityType

-----------------------------------------------------------------------------
(* Types and counts.                                                       *)

CountInv == TypeOK /\ CountsFit

LEMMA CountInit == Init => CountInv
<1> SUFFICES ASSUME Init PROVE CountInv
  OBVIOUS
<1> USE ConstantsAssumption, NoneAssumption DEF Init
<1>1. 0 \in Times /\ 0 \in 0 .. MaxHistory /\ 0 \in 0 .. MaxInterrupts /\ 0 \in 0 .. MaxDeletions
  BY DEF Times
<1>2. TypeOK BY <1>1 DEF TypeOK, Phases
<1>3. CountsFit BY DEF CountsFit
<1> QED BY <1>2, <1>3 DEF CountInv

(* The job in hand, field by field.                                        *)
LEMMA JobFields ==
  ASSUME CountInv, job # None
  PROVE  /\ job \in Jobs /\ Conv \in Convs /\ job.entry \in Entries
         /\ job.entry.stamp \in Times
         /\ job.home \in DirNames \cup {None} /\ job.target \in DirNames \cup {None}
         /\ job.tail \in (0 .. MaxHistory) \cup {NoTail} /\ Start \in 0 .. MaxHistory
         /\ job.offset \in 0 .. MaxHistory /\ job.total \in 0 .. MaxHistory
         /\ hist[Conv] \in 0 .. MaxHistory
         /\ job.got \subseteq Messages /\ job.todo \subseteq Messages
         /\ row[Conv] # None => row[Conv].count \in 0 .. MaxHistory
  BY ConstantsAssumption DEF CountInv, TypeOK, Jobs, Entries, Rows, Conv, Start, NoTail

LEMMA CountNext == CountInv /\ [Next]_vars => CountInv'
<1> SUFFICES ASSUME CountInv, [Next]_vars PROVE CountInv'
  OBVIOUS
<1> USE ConstantsAssumption, NoneAssumption
<1>1. ASSUME NEW c \in Convs, PostMessage(c) PROVE CountInv'
  <2>1. TypeOK' BY <1>1 DEF PostMessage, disk, walking, counts, CountInv, TypeOK, Times
  <2>2. hist' \in [Convs -> Int] /\ \A x \in Convs : hist[x] <= hist'[x]
    BY <1>1 DEF PostMessage, CountInv, TypeOK
  <2>3. CountsFit'
    BY <1>1, <2>2, JobFields
    DEF PostMessage, disk, walking, counts, CountInv, TypeOK, CountsFit, Rows, Start, Conv, History
  <2> QED BY <2>1, <2>3 DEF CountInv
<1>2. ASSUME NEW d \in DirNames, DeleteDirectory(d) PROVE CountInv'
  BY <1>2 DEF DeleteDirectory, server, walking, counts, CountInv, TypeOK, CountsFit, Start, Conv
<1>3. ASSUME NEW F \in ForceArguments, StartRun(F) PROVE CountInv'
  <2>1. F \subseteq Convs \cup DirNames
    BY DEF ForceArguments, RecordedDirs, CountInv, TypeOK, Rows
  <2> QED BY <1>3, <2>1 DEF StartRun, server, disk, counts, CountInv, TypeOK, CountsFit, Phases, Start, Conv
<1>4. ASSUME NEW S \in SUBSET Convs, ListPage(S) PROVE CountInv'
  BY <1>4 DEF ListPage, server, disk, counts, CountInv, TypeOK, CountsFit, Entries, Start, Conv
<1>5. CASE EndWalk
  BY <1>5 DEF EndWalk, server, disk, counts, CountInv, TypeOK, CountsFit, Phases, Start, Conv
<1>6. ASSUME NEW e \in Entries, SkipConversation(e) PROVE CountInv'
  BY <1>6 DEF SkipConversation, server, disk, counts, CountInv, TypeOK, CountsFit, Start, Conv
<1>7. ASSUME NEW e \in Entries, BeginTail(e) PROVE CountInv'
  <2> DEFINE c == e.conv
  <2>1. /\ c \in Convs /\ row[c] \in Rows /\ row[c].dir \in DirNames
        /\ row[c].count \in 0 .. MaxHistory /\ row[c].count <= hist[c]
        /\ hist[c] \in 0 .. MaxHistory
    BY <1>7 DEF BeginTail, CountInv, TypeOK, CountsFit, Entries, Rows
  <2>2. job' = NewJob(e, row[c].dir, row[c].count) /\ row[c].count # NoTail
    BY <1>7, <2>1 DEF BeginTail, NoTail
  <2> HIDE DEF c
  <2>3. job' \in Jobs /\ job'.entry.conv = c /\ job'.tail = row[c].count
        /\ job'.offset = row[c].count /\ job'.total = 0 /\ job'.got = {} /\ job'.todo = {}
    BY <2>1, <2>2 DEF NewJob, Jobs, c
  <2>4. UNCHANGED <<server, row, disk, force, seen, owed, refused, counts>>
        /\ page' \subseteq page /\ pc' = "fetch"
    BY <1>7 DEF BeginTail
  <2>5. TypeOK' BY <2>3, <2>4 DEF server, disk, counts, CountInv, TypeOK, Phases
  <2>6. CountsFit'
    BY <2>1, <2>2, <2>3, <2>4 DEF server, CountInv, CountsFit, Start, Conv, History
  <2> QED BY <2>5, <2>6 DEF CountInv
<1>8. ASSUME NEW e \in Entries, BeginFull(e) PROVE CountInv'
  <2> DEFINE c == e.conv
             home == IF row[c] = None THEN None ELSE row[c].dir
  <2>1. /\ c \in Convs /\ home \in DirNames \cup {None} /\ hist[c] \in 0 .. MaxHistory
    BY DEF CountInv, TypeOK, Entries, Rows
  <2>2. job' = NewJob(e, home, NoTail)
    BY <1>8 DEF BeginFull
  <2> HIDE DEF c, home
  <2>3. job' \in Jobs /\ job'.entry.conv = c /\ job'.tail = NoTail
        /\ job'.offset = 0 /\ job'.total = 0 /\ job'.got = {} /\ job'.todo = {}
    BY <2>1, <2>2 DEF NewJob, Jobs, c
  <2>4. UNCHANGED <<server, disk, force, seen, owed, refused, counts>>
        /\ page' \subseteq page /\ pc' = "fetch" /\ row' = [row EXCEPT ![c] = None]
    BY <1>8 DEF BeginFull, c
  <2>5. TypeOK' BY <2>3, <2>4 DEF server, disk, counts, CountInv, TypeOK, Phases
  <2>6. CountsFit'
    BY <2>1, <2>3, <2>4 DEF server, CountInv, TypeOK, CountsFit, Start, Conv, History
  <2> QED BY <2>5, <2>6 DEF CountInv
<1>9. ASSUME NEW n \in 1 .. MaxHistory, FetchPage(n) PROVE CountInv'
  <2>1. /\ job # None /\ job.offset < n /\ n <= hist[Conv]
        /\ job' = [job EXCEPT !.got = @ \cup {<<Conv, i>> : i \in (job.offset + 1) .. n},
                              !.offset = n]
        /\ UNCHANGED <<server, row, disk, pc, walking, refused, counts>>
    BY <1>9 DEF FetchPage, CountInv, CountsFit
  <2>2. {<<Conv, i>> : i \in (job.offset + 1) .. n} \subseteq Messages
    BY <2>1, JobFields DEF Messages
  <2>3. job' \in Jobs /\ job'.entry = job.entry /\ job'.tail = job.tail /\ job'.offset = n
        /\ job'.total = job.total /\ job'.target = job.target
        /\ job'.got = job.got \cup {<<Conv, i>> : i \in (job.offset + 1) .. n}
    <3> DEFINE fetched == {<<Conv, i>> : i \in (job.offset + 1) .. n}
    <3>1. /\ job' = [job EXCEPT !.got = job.got \cup fetched, !.offset = n]
          /\ fetched \subseteq Messages /\ job \in Jobs /\ job.got \subseteq Messages
          /\ n \in 0 .. MaxHistory
      BY <2>1, <2>2, JobFields
    <3> HIDE DEF fetched
    <3>2. /\ job' \in Jobs /\ job'.entry = job.entry /\ job'.tail = job.tail /\ job'.offset = n
          /\ job'.total = job.total /\ job'.target = job.target
          /\ job'.got = job.got \cup fetched
      BY <3>1 DEF Jobs
    <3> QED BY <3>2 DEF fetched
  <2>4. TypeOK' BY <2>1, <2>3 DEF server, disk, walking, counts, CountInv, TypeOK
  <2>5. job'.got = History(Conv, n) \ History(Conv, Start)
    <3>1. job.got = History(Conv, job.offset) \ History(Conv, Start) /\ Start <= job.offset
      BY <2>1 DEF CountInv, CountsFit
    <3> QED BY <3>1, <2>1, <2>3, JobFields DEF History
  <2>6. Conv' = Conv /\ Start' = Start BY <2>3 DEF Conv, Start
  <2>7. CountsFit'
    BY <2>1, <2>3, <2>5, <2>6, JobFields DEF server, walking, CountInv, CountsFit
  <2> QED BY <2>4, <2>7 DEF CountInv
<1>10. CASE EndFetch
  <2>1. PICK d \in DirNames :
          /\ job # None /\ job' = [job EXCEPT !.target = d]
          /\ pc' = IF job.tail = NoTail THEN "mkdir" ELSE "append"
          /\ UNCHANGED <<server, row, disk, walking, refused, counts>>
    BY <1>10 DEF EndFetch, CountInv, CountsFit
  <2>2. job' \in Jobs /\ job'.entry = job.entry /\ job'.tail = job.tail /\ job'.offset = job.offset
        /\ job'.total = job.total /\ job'.target = d /\ job'.got = job.got
    BY <2>1, JobFields DEF Jobs
  <2>3. Conv' = Conv /\ Start' = Start BY <2>2 DEF Conv, Start
  <2>4. TypeOK' BY <2>1, <2>2 DEF server, disk, walking, counts, CountInv, TypeOK, Phases
  <2>5. CountsFit' BY <2>1, <2>2, <2>3 DEF server, CountInv, CountsFit
  <2> QED BY <2>4, <2>5 DEF CountInv
<1>11. CASE AppendMessages
  <2>1. /\ job # None /\ job.tail # NoTail /\ job.target \in DirNames
        /\ file' = [file EXCEPT ![job.target] = file[job.target] \cup Fresh]
        /\ job' = [job EXCEPT !.total = job.tail + Cardinality(Fresh), !.todo = job.got]
        /\ pc' = "mkdir"
        /\ UNCHANGED <<server, row, dirs, owner, links, walking, refused, counts>>
    BY <1>11, JobFields DEF AppendMessages, Extended, CountInv, CountsFit
  <2>2. Fresh \subseteq job.got /\ Fresh \subseteq Messages
    BY <2>1, JobFields DEF Fresh
  <2>3. job.tail + Cardinality(Fresh) \in 0 .. job.offset
    <3>1. Start = job.tail BY <2>1 DEF Start
    <3>2. /\ Fresh \in SUBSET (History(Conv, job.offset) \ History(Conv, job.tail))
          /\ job.tail <= job.offset /\ job.tail \in Nat /\ job.offset \in Nat
      BY <3>1, <2>1, <2>2, JobFields DEF CountInv, CountsFit
    <3>3. Cardinality(Fresh) \in Nat /\ Cardinality(Fresh) <= job.offset - job.tail
      BY <3>2, PartSize
    <3> QED BY <3>2, <3>3
  <2>4. job' \in Jobs /\ job'.entry = job.entry /\ job'.tail = job.tail /\ job'.offset = job.offset
        /\ job'.total <= job.offset /\ job'.target = job.target /\ job'.got = job.got
    <3> DEFINE t == job.tail + Cardinality(Fresh)
    <3>1. /\ job' = [job EXCEPT !.total = t, !.todo = job.got]
          /\ t \in 0 .. MaxHistory /\ t <= job.offset
          /\ job \in Jobs /\ job.got \subseteq Messages
      BY <2>1, <2>3, JobFields
    <3> HIDE DEF t
    <3> QED BY <3>1 DEF Jobs
  <2>5. Conv' = Conv /\ Start' = Start BY <2>4 DEF Conv, Start
  <2>6. TypeOK' BY <2>1, <2>2, <2>4 DEF server, walking, counts, CountInv, TypeOK, Phases
  <2>7. CountsFit' BY <2>1, <2>4, <2>5 DEF server, CountInv, CountsFit
  <2> QED BY <2>6, <2>7 DEF CountInv
<1>12. CASE RefuseTail
  BY <1>12 DEF RefuseTail, server, disk, counts, CountInv, TypeOK, CountsFit, Phases, Start, Conv
<1>13. CASE MakeDirectory
  <2>1. job # None /\ job.target \in DirNames
    BY <1>13, JobFields DEF MakeDirectory, CountInv, CountsFit
  <2> QED BY <1>13, <2>1 DEF MakeDirectory, server, walking, counts, CountInv, TypeOK, CountsFit,
                             Phases, Start, Conv
<1>14. CASE WritePayload
  <2>1. job # None /\ job.target \in DirNames /\ Conv \in Convs
    BY <1>14, JobFields DEF WritePayload, CountInv, CountsFit
  <2> QED BY <1>14, <2>1 DEF WritePayload, server, walking, counts, CountInv, TypeOK, CountsFit,
                             Phases, Start, Conv
<1>15. CASE WriteHistory
  <2>1. /\ job # None /\ job.target \in DirNames
        /\ file' = [file EXCEPT ![job.target] = job.got]
        /\ job' = [job EXCEPT !.total = Cardinality(job.got), !.todo = job.got]
        /\ pc' = "attach"
        /\ UNCHANGED <<server, row, dirs, owner, links, walking, refused, counts>>
    BY <1>15, JobFields DEF WriteHistory, CountInv, CountsFit
  <2>2. Cardinality(job.got) \in 0 .. job.offset
    <3>1. /\ job.got = History(Conv, job.offset) \ History(Conv, Start)
          /\ Start <= job.offset /\ Start \in Nat /\ job.offset \in Nat
      BY <2>1, JobFields DEF CountInv, CountsFit
    <3>2. Cardinality(job.got) = job.offset - Start BY <3>1, HistorySize
    <3> QED BY <3>1, <3>2
  <2>3. job' \in Jobs /\ job'.entry = job.entry /\ job'.tail = job.tail /\ job'.offset = job.offset
        /\ job'.total <= job.offset /\ job'.target = job.target /\ job'.got = job.got
    <3> DEFINE t == Cardinality(job.got)
    <3>1. /\ job' = [job EXCEPT !.total = t, !.todo = job.got]
          /\ t \in 0 .. MaxHistory /\ t <= job.offset
          /\ job \in Jobs /\ job.got \subseteq Messages
      BY <2>1, <2>2, JobFields
    <3> HIDE DEF t
    <3> QED BY <3>1 DEF Jobs
  <2>4. Conv' = Conv /\ Start' = Start BY <2>3 DEF Conv, Start
  <2>5. TypeOK' BY <2>1, <2>3, JobFields DEF server, walking, counts, CountInv, TypeOK, Phases
  <2>6. CountsFit' BY <2>1, <2>3, <2>4 DEF server, CountInv, CountsFit
  <2> QED BY <2>5, <2>6 DEF CountInv
<1>16. ASSUME NEW m \in Messages, LinkAttachments(m) PROVE CountInv'
  <2>1. /\ job # None /\ job.target \in DirNames
        /\ links' = [links EXCEPT ![job.target] = @ \cup {m}]
        /\ job' = [job EXCEPT !.todo = @ \ {m}]
        /\ UNCHANGED <<server, row, dirs, owner, file, pc, walking, refused, counts>>
    BY <1>16, JobFields DEF LinkAttachments, CountInv, CountsFit
  <2>2. job' \in Jobs /\ job'.entry = job.entry /\ job'.tail = job.tail /\ job'.offset = job.offset
        /\ job'.total = job.total /\ job'.target = job.target /\ job'.got = job.got
    BY <2>1, JobFields DEF Jobs
  <2>3. Conv' = Conv /\ Start' = Start BY <2>2 DEF Conv, Start
  <2>4. TypeOK' BY <2>1, <2>2 DEF server, walking, counts, CountInv, TypeOK
  <2>5. CountsFit' BY <2>1, <2>2, <2>3 DEF server, CountInv, CountsFit
  <2> QED BY <2>4, <2>5 DEF CountInv
<1>16a. ASSUME NEW m \in Messages, UnlinkAttachments(m) PROVE CountInv'
  <2>1. /\ job # None /\ job.target \in DirNames
        /\ links' = [links EXCEPT ![job.target] = @ \ {m}]
        /\ UNCHANGED <<server, row, dirs, owner, file, pc, walking, job, refused, counts>>
    BY <1>16a, JobFields DEF UnlinkAttachments, CountInv, CountsFit
  <2>2. TypeOK' BY <2>1 DEF server, walking, counts, CountInv, TypeOK
  <2>3. CountsFit' BY <2>1 DEF server, CountInv, CountsFit, Conv, Start
  <2> QED BY <2>2, <2>3 DEF CountInv
<1>17. CASE RecordConversation
  <2>1. /\ job # None /\ job.target \in DirNames
        /\ row' = [row EXCEPT ![Conv] = RecordedRow] /\ pc' = "walk" /\ job' = None
        /\ UNCHANGED <<server, disk, walking, refused, counts>>
    BY <1>17, JobFields DEF RecordConversation, CountInv, CountsFit
  <2>2. RecordedRow \in Rows /\ RecordedRow.count = job.total
    BY <2>1, JobFields DEF RecordedRow, Rows
  <2>3. TypeOK' BY <2>1, <2>2 DEF server, disk, walking, counts, CountInv, TypeOK, Phases
  <2>4. job.total <= hist[Conv] BY <2>1, JobFields DEF CountInv, CountsFit
  <2>5. CountsFit' BY <2>1, <2>2, <2>4 DEF server, CountInv, TypeOK, CountsFit
  <2> QED BY <2>3, <2>5 DEF CountInv
<1>18. CASE Interrupt
  BY <1>18 DEF Interrupt, server, disk, CountInv, TypeOK, CountsFit, Phases, Start, Conv
<1>19. CASE UNCHANGED vars
  BY <1>19 DEF vars, server, disk, walking, counts, CountInv, TypeOK, CountsFit, Start, Conv
<1> QED
  BY <1>1, <1>2, <1>3, <1>4, <1>5, <1>6, <1>7, <1>8, <1>9, <1>10, <1>11, <1>12, <1>13,
     <1>14, <1>15, <1>16, <1>16a, <1>17, <1>18, <1>19
  DEF Next, Environment, Process

(* Every variable stays in its range, whatever the bounds and whichever    *)
(* directories are deleted (run_messages).                                 *)
THEOREM TypeCorrect == Spec => []TypeOK
  <1>1. CountInv => TypeOK BY DEF CountInv
  <1> QED BY <1>1, CountInit, CountNext, PTL DEF Spec

-----------------------------------------------------------------------------
(* Directories and rows, as long as no directory is deleted.               *)

DiskInv == HistoriesArePrefixes /\ RowsAreBacked /\ JobIsSound

LEMMA DiskInit == Init => DiskInv
  BY NoneAssumption
  DEF Init, DiskInv, HistoriesArePrefixes, RowsAreBacked, RowIsBacked, JobIsSound

LEMMA DiskNext ==
  ASSUME MaxDeletions = 0, CountInv, CountInv', DiskInv, [Next]_vars
  PROVE  DiskInv'
<1> USE ConstantsAssumption, NoneAssumption
<1> DEFINE Sound == HistoriesArePrefixes /\ RowsAreBacked
<1>0. ASSUME UNCHANGED <<hist, row, dirs, owner, file, links>> PROVE Sound'
  BY <1>0 DEF DiskInv, HistoriesArePrefixes, RowsAreBacked, RowIsBacked
<1>1. ASSUME NEW c \in Convs, PostMessage(c) PROVE DiskInv'
  <2>1. /\ UNCHANGED <<row, dirs, owner, file, links, pc, job>>
        /\ \A x \in Convs : hist[x] \in Nat /\ hist'[x] \in Nat /\ hist[x] <= hist'[x]
    BY <1>1 DEF PostMessage, disk, CountInv, TypeOK
  <2>2. RowsAreBacked' BY <2>1 DEF DiskInv, RowsAreBacked, RowIsBacked
  <2>3. HistoriesArePrefixes'
    <3> SUFFICES ASSUME NEW d \in DirNames
                 PROVE  /\ owner[d] = None => file[d] = {}
                        /\ owner[d] # None =>
                             d \in dirs /\ \E n \in 0 .. hist'[owner[d]] :
                                             file[d] = History(owner[d], n)
      BY <2>1 DEF HistoriesArePrefixes, History
    <3>1. owner[d] \in Convs \cup {None} BY DEF CountInv, TypeOK
    <3>2. CASE owner[d] # None
      <4>1. PICK n \in 0 .. hist[owner[d]] : file[d] = History(owner[d], n)
        BY <3>2 DEF DiskInv, HistoriesArePrefixes
      <4>2. n \in 0 .. hist'[owner[d]] BY <2>1, <3>1, <3>2
      <4> QED BY <4>1, <4>2, <3>2 DEF DiskInv, HistoriesArePrefixes
    <3> QED BY <3>2 DEF DiskInv, HistoriesArePrefixes
  <2>4. JobIsSound'
    BY <2>1 DEF DiskInv, JobIsSound, BindingIsSound, TargetIsSound, HistoryIsWritten, Conv, History
  <2> QED BY <2>2, <2>3, <2>4 DEF DiskInv
<1>2. ASSUME NEW d \in DirNames, DeleteDirectory(d) PROVE FALSE
  BY <1>2 DEF DeleteDirectory, CountInv, TypeOK
<1>3. ASSUME UNCHANGED <<server, row, disk, job>>, job = None, pc' \in {"idle", "walk"}
      PROVE  DiskInv'
  BY <1>0, <1>3 DEF server, disk, DiskInv, JobIsSound
<1>4. ASSUME UNCHANGED <<server, row, disk>>, job' = None, pc' \in {"idle", "walk"}
      PROVE  DiskInv'
  BY <1>0, <1>4 DEF server, disk, DiskInv, JobIsSound
<1>5. ASSUME NEW F \in ForceArguments, StartRun(F) PROVE DiskInv'
  BY <1>5, <1>3 DEF StartRun, CountInv, CountsFit
<1>6. ASSUME NEW S \in SUBSET Convs, ListPage(S) PROVE DiskInv'
  BY <1>6, <1>3 DEF ListPage, CountInv, CountsFit
<1>7. CASE EndWalk
  BY <1>7, <1>3 DEF EndWalk, CountInv, CountsFit
<1>8. ASSUME NEW e \in Entries, SkipConversation(e) PROVE DiskInv'
  BY <1>8, <1>3 DEF SkipConversation, CountInv, CountsFit
<1>9. ASSUME NEW e \in Entries, BeginTail(e) PROVE DiskInv'
  <2> DEFINE c == e.conv
  <2>1. /\ c \in Convs /\ row[c] # None /\ row[c] \in Rows
        /\ row[c].dir \in DirNames /\ row[c].count \in Nat
        /\ job' = NewJob(e, row[c].dir, row[c].count) /\ pc' = "fetch"
        /\ UNCHANGED <<server, row, disk>>
    BY <1>9 DEF BeginTail, CountInv, TypeOK, Entries, Rows
  <2>2. row[c].dir \in dirs /\ owner[row[c].dir] = c
    BY <2>1 DEF DiskInv, RowsAreBacked, RowIsBacked
  <2> HIDE DEF c
  <2>3. Conv' = c /\ job'.home = row[c].dir /\ job'.tail = row[c].count
    BY <2>1 DEF NewJob, Conv, c
  <2>4. JobIsSound'
    BY <2>1, <2>2, <2>3 DEF disk, JobIsSound, BindingIsSound, NoTail
  <2>5. Sound' BY <1>0, <2>1 DEF server, disk
  <2> QED BY <2>4, <2>5 DEF DiskInv
<1>10. ASSUME NEW e \in Entries, BeginFull(e) PROVE DiskInv'
  <2> DEFINE c == e.conv
             home == IF row[c] = None THEN None ELSE row[c].dir
  <2>1. /\ c \in Convs /\ row \in [Convs -> Rows \cup {None}]
        /\ job' = NewJob(e, home, NoTail) /\ pc' = "fetch"
        /\ row' = [row EXCEPT ![c] = None] /\ UNCHANGED <<server, disk>>
    BY <1>10 DEF BeginFull, CountInv, TypeOK, Entries
  <2>2. home # None => home \in dirs /\ owner[home] = c
    BY <2>1 DEF DiskInv, RowsAreBacked, RowIsBacked
  <2> HIDE DEF c, home
  <2>3. Conv' = c /\ job'.home = home /\ job'.tail = NoTail
    BY <2>1 DEF NewJob, Conv, c
  <2>4. JobIsSound'
    BY <2>1, <2>2, <2>3 DEF disk, JobIsSound, BindingIsSound
  <2>5. HistoriesArePrefixes'
    BY <2>1 DEF server, disk, DiskInv, HistoriesArePrefixes
  <2>6. RowsAreBacked'
    BY <2>1 DEF server, disk, DiskInv, RowsAreBacked, RowIsBacked
  <2> QED BY <2>4, <2>5, <2>6 DEF DiskInv
<1>11. ASSUME NEW n \in 1 .. MaxHistory, FetchPage(n) PROVE DiskInv'
  <2>1. /\ job # None /\ pc = "fetch" /\ UNCHANGED <<server, row, disk, pc>>
    BY <1>11 DEF FetchPage, CountInv, CountsFit
  <2>2. job'.entry = job.entry /\ job'.home = job.home /\ job'.tail = job.tail
    BY <1>11, <2>1, JobFields DEF FetchPage, Jobs
  <2>3. Sound' BY <1>0, <2>1 DEF server, disk
  <2>4. JobIsSound' BY <2>1, <2>2 DEF disk, DiskInv, JobIsSound, BindingIsSound, Conv
  <2> QED BY <2>3, <2>4 DEF DiskInv
<1>12. CASE EndFetch
  <2>1. PICK d \in DirNames :
          /\ job # None /\ pc = "fetch" /\ job.offset = hist[Conv] /\ Resolves(d)
          /\ job' = [job EXCEPT !.target = d]
          /\ pc' = IF job.tail = NoTail THEN "mkdir" ELSE "append"
          /\ UNCHANGED <<server, row, disk>>
    BY <1>12 DEF EndFetch, CountInv, CountsFit
  <2>2. /\ job'.entry = job.entry /\ job'.home = job.home /\ job'.tail = job.tail
        /\ job'.offset = job.offset /\ job'.target = d
    BY <2>1, JobFields DEF Jobs
  <2>3. BindingIsSound BY <2>1 DEF DiskInv, JobIsSound
  <2>4. job.home # None => d = job.home /\ owner[d] = Conv
    BY <2>1, <2>3 DEF Resolves, BindingIsSound
  <2>5. job.tail # NoTail => job.home # None
    BY <2>1, <2>3, JobFields DEF BindingIsSound, CountInv, TypeOK, Rows
  <2>6. owner[d] \in {None, Conv}
    <3>1. job.home = None => d \notin dirs \/ owner[d] = Conv
      BY <2>1 DEF Resolves, ResolveAfresh, Available
    <3> QED BY <3>1, <2>4 DEF DiskInv, HistoriesArePrefixes
  <2>7. file[d] \subseteq History(Conv, job.offset)
    <3>1. CASE owner[d] = None
      BY <3>1 DEF DiskInv, HistoriesArePrefixes
    <3>2. CASE owner[d] # None
      <4>1. owner[d] = Conv BY <2>6, <3>2
      <4>2. PICK n \in 0 .. hist[Conv] : file[d] = History(Conv, n)
        BY <3>2, <4>1 DEF DiskInv, HistoriesArePrefixes
      <4>3. n \in Nat /\ n <= hist[Conv] /\ hist[Conv] \in Nat BY <2>1, JobFields
      <4> QED BY <4>2, <4>3, <2>1, HistoryInclusion
    <3> QED BY <3>1, <3>2
  <2>8. Conv' = Conv BY <2>2 DEF Conv
  <2>9. JobIsSound'
    BY <2>1, <2>2, <2>3, <2>4, <2>5, <2>6, <2>7, <2>8
    DEF disk, JobIsSound, BindingIsSound, TargetIsSound, History
  <2> QED BY <1>0, <2>1, <2>9 DEF server, disk, DiskInv
<1>13. ASSUME job # None, job.target \in DirNames, TargetIsSound,
              NEW x \in Convs, x # Conv, row[x] # None
       PROVE  row[x].dir # job.target /\ row[x].dir \in DirNames
  BY <1>13 DEF TargetIsSound, DiskInv, RowsAreBacked, RowIsBacked, CountInv, TypeOK, Rows
<1>14. CASE AppendMessages
  <2>1. /\ job # None /\ pc = "append" /\ TailFits
        /\ job.tail # NoTail /\ job.target \in DirNames
        /\ file' = [file EXCEPT ![job.target] = file[job.target] \cup Fresh]
        /\ job' = [job EXCEPT !.total = job.tail + Cardinality(Fresh), !.todo = job.got]
        /\ pc' = "mkdir" /\ UNCHANGED <<server, row, dirs, owner, links>>
    BY <1>14, JobFields DEF AppendMessages, Extended, CountInv, CountsFit
  <2>2. /\ job'.entry = job.entry /\ job'.home = job.home /\ job'.tail = job.tail
        /\ job'.offset = job.offset /\ job'.target = job.target /\ job'.got = job.got
        /\ job'.total = job.tail + Cardinality(Fresh) /\ job'.todo = job.got
    <3> DEFINE t == job.tail + Cardinality(Fresh)
    <3>1. job' = [job EXCEPT !.total = t, !.todo = job.got] /\ job \in Jobs
      BY <2>1, JobFields
    <3> HIDE DEF t
    <3>2. /\ job'.entry = job.entry /\ job'.home = job.home /\ job'.tail = job.tail
          /\ job'.offset = job.offset /\ job'.target = job.target /\ job'.got = job.got
          /\ job'.total = t /\ job'.todo = job.got
      BY <3>1 DEF Jobs
    <3> QED BY <3>2 DEF t
  <2>3. /\ BindingIsSound /\ TargetIsSound BY <2>1 DEF DiskInv, JobIsSound
  <2>4. /\ row[Conv] # None /\ row[Conv].dir = job.target /\ row[Conv].count = job.tail
        /\ job.home = job.target /\ owner[job.target] = Conv /\ job.target \in dirs
    BY <2>1, <2>3, NoneAssumption DEF BindingIsSound, TargetIsSound
  <2>5. History(Conv, job.tail) \subseteq file[job.target] \cap links[job.target]
    BY <2>1, <2>4, JobFields DEF DiskInv, RowsAreBacked, RowIsBacked
  <2>6. /\ job.tail \in Nat /\ job.offset \in Nat /\ job.tail <= job.offset
        /\ job.offset <= hist[Conv] /\ hist[Conv] \in Nat
        /\ job.got = History(Conv, job.offset) \ History(Conv, job.tail)
    BY <2>1, JobFields DEF CountInv, CountsFit, Start
  <2>7. file[job.target] = History(Conv, job.tail)
    <3>1. PICK n \in 0 .. hist[Conv] : file[job.target] = History(Conv, n)
      BY <2>1, <2>4, JobFields DEF DiskInv, HistoriesArePrefixes
    <3>2. n \in Nat BY <3>1, <2>6
    <3>3. n = job.tail BY <2>1, <3>1, <3>2, WholeHistorySize DEF TailFits
    <3> QED BY <3>1, <3>3
  <2>8. Fresh = job.got BY <2>6, <2>7 DEF Fresh
  <2>9. job.tail + Cardinality(Fresh) = job.offset
    <3>1. Cardinality(History(Conv, job.offset) \ History(Conv, job.tail)) = job.offset - job.tail
      BY <2>6, HistorySize
    <3>2. Fresh = History(Conv, job.offset) \ History(Conv, job.tail) BY <2>6, <2>8
    <3> QED BY <3>1, <3>2, <2>6
  <2>10. /\ file'[job.target] = History(Conv, job.offset)
         /\ file[job.target] \subseteq file'[job.target]
         /\ \A d \in DirNames : d # job.target => file'[d] = file[d]
    <3>1. file'[job.target] = History(Conv, job.tail) \cup job.got
      BY <2>1, <2>7, <2>8 DEF CountInv, TypeOK
    <3> QED BY <3>1, <2>1, <2>6, <2>7, HistoryInclusion DEF CountInv, TypeOK
  <2>11. Conv' = Conv BY <2>2 DEF Conv
  <2>12. HistoryIsWritten'
    <3>1. History(Conv, job.offset) \subseteq links[job.target] \cup job.got
      BY <2>5, <2>6, HistoryInclusion
    <3> QED BY <3>1, <2>1, <2>2, <2>9, <2>10, <2>11 DEF HistoryIsWritten, History
  <2>13. JobIsSound'
    BY <2>1, <2>2, <2>3, <2>11, <2>12 DEF JobIsSound, BindingIsSound, TargetIsSound
  <2>14. HistoriesArePrefixes'
    <3> SUFFICES ASSUME NEW d \in DirNames
                 PROVE  /\ owner[d] = None => file'[d] = {}
                        /\ owner[d] # None =>
                             d \in dirs /\ \E n \in 0 .. hist[owner[d]] :
                                             file'[d] = History(owner[d], n)
      BY <2>1 DEF server, HistoriesArePrefixes, History
    <3>1. job.offset \in 0 .. hist[Conv] /\ Conv # None BY <2>6, <2>1, JobFields
    <3>2. CASE d = job.target BY <3>1, <3>2, <2>4, <2>10
    <3>3. CASE d # job.target BY <3>3, <2>10 DEF DiskInv, HistoriesArePrefixes
    <3> QED BY <3>2, <3>3
  <2>15. RowsAreBacked'
    <3> SUFFICES ASSUME NEW x \in Convs, row[x] # None
                 PROVE  /\ row[x].dir \in dirs /\ owner[row[x].dir] = x
                        /\ History(x, row[x].count) \subseteq file'[row[x].dir] \cap links[row[x].dir]
      BY <2>1 DEF RowsAreBacked, RowIsBacked, History
    <3>1. row[x].dir \in DirNames BY DEF CountInv, TypeOK, Rows
    <3>2. file[row[x].dir] \subseteq file'[row[x].dir] BY <3>1, <2>10
    <3> QED BY <3>2 DEF DiskInv, RowsAreBacked, RowIsBacked
  <2> QED BY <2>13, <2>14, <2>15 DEF DiskInv
<1>15. CASE RefuseTail
  BY <1>15, <1>4 DEF RefuseTail
<1>16. CASE MakeDirectory
  <2>1. /\ job # None /\ pc = "mkdir" /\ dirs' = dirs \cup {job.target} /\ pc' = "payload"
        /\ UNCHANGED <<server, row, owner, file, links, job>>
    BY <1>16 DEF MakeDirectory, CountInv, CountsFit
  <2>2. JobIsSound'
    BY <2>1 DEF DiskInv, JobIsSound, BindingIsSound, TargetIsSound, HistoryIsWritten, Conv, History
  <2>3. Sound'
    BY <2>1 DEF server, DiskInv, HistoriesArePrefixes, RowsAreBacked, RowIsBacked
  <2> QED BY <2>2, <2>3 DEF DiskInv
<1>17. CASE WritePayload
  <2>1. /\ job # None /\ pc = "payload" /\ job.target \in DirNames /\ Conv \in Convs
        /\ owner' = [owner EXCEPT ![job.target] = Conv]
        /\ pc' = IF job.tail = NoTail THEN "history" ELSE "attach"
        /\ UNCHANGED <<server, row, dirs, file, links, job>>
    BY <1>17, JobFields DEF WritePayload, CountInv, CountsFit
  <2>2. /\ BindingIsSound /\ TargetIsSound /\ job.target \in dirs
        /\ job.tail # NoTail => HistoryIsWritten
        /\ job.tail = NoTail => file[job.target] \subseteq History(Conv, job.offset)
    BY <2>1 DEF DiskInv, JobIsSound
  <2>3. /\ owner'[job.target] = Conv /\ \A d \in DirNames : d # job.target => owner'[d] = owner[d]
    BY <2>1 DEF CountInv, TypeOK
  <2>4. Conv' = Conv BY <2>1 DEF Conv
  <2>5. JobIsSound'
    <3>1. job.home # None => owner'[job.home] = Conv
      BY <2>2, <2>3, JobFields, <2>1 DEF BindingIsSound
    <3>2. BindingIsSound' BY <3>1, <2>1, <2>2, <2>4 DEF BindingIsSound
    <3>3. TargetIsSound' BY <2>1, <2>2, <2>3, <2>4 DEF TargetIsSound
    <3> QED BY <3>2, <3>3, <2>1, <2>2, <2>3, <2>4 DEF JobIsSound, HistoryIsWritten, History
  <2>6. HistoriesArePrefixes'
    <3>1. \E n \in 0 .. hist[Conv] : file[job.target] = History(Conv, n)
      <4>1. CASE owner[job.target] = None
        <5>1. file[job.target] = History(Conv, 0)
          BY <4>1, <2>1, HistoryInclusion DEF DiskInv, HistoriesArePrefixes
        <5>2. 0 \in 0 .. hist[Conv] BY <2>1, JobFields
        <5> QED BY <5>1, <5>2
      <4>2. CASE owner[job.target] = Conv
        BY <4>2, <2>1 DEF DiskInv, HistoriesArePrefixes
      <4> QED BY <4>1, <4>2, <2>2 DEF TargetIsSound
    <3> QED BY <3>1, <2>1, <2>2, <2>3 DEF server, DiskInv, HistoriesArePrefixes, History
  <2>7. RowsAreBacked'
    <3> SUFFICES ASSUME NEW x \in Convs, row[x] # None
                 PROVE  /\ row[x].dir \in dirs /\ owner'[row[x].dir] = x
                        /\ History(x, row[x].count) \subseteq file[row[x].dir] \cap links[row[x].dir]
      BY <2>1 DEF RowsAreBacked, RowIsBacked, History
    <3>1. row[x].dir \in DirNames BY DEF CountInv, TypeOK, Rows
    <3>2. x # Conv => row[x].dir # job.target BY <1>13, <2>1, <2>2
    <3>3. owner[row[x].dir] = x BY DEF DiskInv, RowsAreBacked, RowIsBacked
    <3>4. owner'[row[x].dir] = x BY <3>1, <3>2, <3>3, <2>3
    <3> QED BY <3>4 DEF DiskInv, RowsAreBacked, RowIsBacked
  <2> QED BY <2>5, <2>6, <2>7 DEF DiskInv
<1>18. CASE WriteHistory
  <2>1. /\ job # None /\ pc = "history" /\ job.target \in DirNames
        /\ file' = [file EXCEPT ![job.target] = job.got]
        /\ job' = [job EXCEPT !.total = Cardinality(job.got), !.todo = job.got]
        /\ pc' = "attach" /\ UNCHANGED <<server, row, dirs, owner, links>>
    BY <1>18, JobFields DEF WriteHistory, CountInv, CountsFit
  <2>2. /\ job'.entry = job.entry /\ job'.home = job.home /\ job'.tail = job.tail
        /\ job'.offset = job.offset /\ job'.target = job.target
        /\ job'.total = Cardinality(job.got) /\ job'.todo = job.got
    <3> DEFINE t == Cardinality(job.got)
    <3>1. job' = [job EXCEPT !.total = t, !.todo = job.got] /\ job \in Jobs
      BY <2>1, JobFields
    <3> HIDE DEF t
    <3>2. /\ job'.entry = job.entry /\ job'.home = job.home /\ job'.tail = job.tail
          /\ job'.offset = job.offset /\ job'.target = job.target
          /\ job'.total = t /\ job'.todo = job.got
      BY <3>1 DEF Jobs
    <3> QED BY <3>2 DEF t
  <2>3. /\ BindingIsSound /\ TargetIsSound /\ job.target \in dirs
        /\ job.tail = NoTail /\ owner[job.target] = Conv
    BY <2>1 DEF DiskInv, JobIsSound
  <2>4. job.offset \in Nat /\ job.offset \in 0 .. hist[Conv] /\ job.got = History(Conv, job.offset)
    <3>1. /\ job.got = History(Conv, job.offset) \ History(Conv, 0) /\ job.offset <= hist[Conv]
          /\ job.offset \in Nat /\ hist[Conv] \in Nat
      BY <2>1, <2>3, JobFields DEF CountInv, CountsFit, Start
    <3> QED BY <3>1, HistoryInclusion
  <2>5. Cardinality(job.got) = job.offset BY <2>4, WholeHistorySize
  <2>6. /\ file'[job.target] = History(Conv, job.offset)
        /\ \A d \in DirNames : d # job.target => file'[d] = file[d]
    BY <2>1, <2>4 DEF CountInv, TypeOK
  <2>7. Conv' = Conv BY <2>2 DEF Conv
  <2>8. HistoryIsWritten' BY <2>1, <2>2, <2>4, <2>5, <2>6, <2>7 DEF HistoryIsWritten, History
  <2>9. JobIsSound'
    BY <2>1, <2>2, <2>3, <2>7, <2>8 DEF JobIsSound, BindingIsSound, TargetIsSound
  <2>10. HistoriesArePrefixes'
    BY <2>1, <2>3, <2>4, <2>6, JobFields DEF server, DiskInv, HistoriesArePrefixes, History
  <2>11. RowsAreBacked'
    <3> SUFFICES ASSUME NEW x \in Convs, row[x] # None
                 PROVE  /\ row[x].dir \in dirs /\ owner[row[x].dir] = x
                        /\ History(x, row[x].count) \subseteq file'[row[x].dir] \cap links[row[x].dir]
      BY <2>1 DEF RowsAreBacked, RowIsBacked, History
    <3>1. x # Conv BY <2>3 DEF BindingIsSound
    <3>2. row[x].dir # job.target /\ row[x].dir \in DirNames BY <3>1, <1>13, <2>1, <2>3
    <3> QED BY <3>2, <2>6 DEF DiskInv, RowsAreBacked, RowIsBacked
  <2> QED BY <2>9, <2>10, <2>11 DEF DiskInv
<1>19. ASSUME NEW m \in Messages, LinkAttachments(m) PROVE DiskInv'
  <2>1. /\ job # None /\ pc = "attach" /\ job.target \in DirNames
        /\ links' = [links EXCEPT ![job.target] = @ \cup {m}]
        /\ job' = [job EXCEPT !.todo = @ \ {m}]
        /\ UNCHANGED <<server, row, dirs, owner, file, pc>>
    BY <1>19, JobFields DEF LinkAttachments, CountInv, CountsFit
  <2>2. /\ job'.entry = job.entry /\ job'.home = job.home /\ job'.tail = job.tail
        /\ job'.offset = job.offset /\ job'.target = job.target /\ job'.total = job.total
        /\ job'.todo = job.todo \ {m}
    BY <2>1, JobFields DEF Jobs
  <2>3. /\ links'[job.target] = links[job.target] \cup {m}
        /\ \A d \in DirNames : links[d] \subseteq links'[d]
    BY <2>1 DEF CountInv, TypeOK
  <2>4. Conv' = Conv BY <2>2 DEF Conv
  <2>5. /\ BindingIsSound /\ TargetIsSound /\ job.target \in dirs
        /\ owner[job.target] = Conv /\ HistoryIsWritten
    BY <2>1 DEF DiskInv, JobIsSound
  <2>6. HistoryIsWritten' BY <2>1, <2>2, <2>3, <2>4, <2>5 DEF HistoryIsWritten, History
  <2>7. JobIsSound'
    BY <2>1, <2>2, <2>4, <2>5, <2>6 DEF JobIsSound, BindingIsSound, TargetIsSound
  <2>8. HistoriesArePrefixes' BY <2>1 DEF server, DiskInv, HistoriesArePrefixes
  <2>9. RowsAreBacked'
    <3> SUFFICES ASSUME NEW x \in Convs, row[x] # None
                 PROVE  /\ row[x].dir \in dirs /\ owner[row[x].dir] = x
                        /\ History(x, row[x].count) \subseteq file[row[x].dir] \cap links'[row[x].dir]
      BY <2>1 DEF RowsAreBacked, RowIsBacked, History
    <3>1. row[x].dir \in DirNames BY DEF CountInv, TypeOK, Rows
    <3>2. links[row[x].dir] \subseteq links'[row[x].dir] BY <3>1, <2>3
    <3> QED BY <3>2 DEF DiskInv, RowsAreBacked, RowIsBacked
  <2> QED BY <2>7, <2>8, <2>9 DEF DiskInv
<1>19a. ASSUME NEW m \in Messages, UnlinkAttachments(m) PROVE DiskInv'
  <2>1. /\ job # None /\ pc = "attach" /\ job.target \in DirNames /\ m \in job.todo
        /\ links' = [links EXCEPT ![job.target] = @ \ {m}]
        /\ UNCHANGED <<server, row, dirs, owner, file, pc, job>>
    BY <1>19a, JobFields DEF UnlinkAttachments, IsNextToLink, CountInv, CountsFit
  <2>2. /\ links'[job.target] = links[job.target] \ {m}
        /\ \A d \in DirNames : d # job.target => links'[d] = links[d]
    BY <2>1 DEF CountInv, TypeOK
  <2>3. /\ BindingIsSound /\ TargetIsSound /\ job.target \in dirs
        /\ owner[job.target] = Conv /\ HistoryIsWritten
    BY <2>1 DEF DiskInv, JobIsSound
  <2>4. HistoryIsWritten' BY <2>1, <2>2, <2>3 DEF HistoryIsWritten, History, Conv
  <2>5. JobIsSound'
    BY <2>1, <2>3, <2>4 DEF JobIsSound, BindingIsSound, TargetIsSound, Conv
  <2>6. HistoriesArePrefixes' BY <2>1 DEF server, DiskInv, HistoriesArePrefixes
  <2>7. RowsAreBacked'
    <3> SUFFICES ASSUME NEW x \in Convs, row[x] # None
                 PROVE  /\ row[x].dir \in dirs /\ owner[row[x].dir] = x
                        /\ History(x, row[x].count) \subseteq file[row[x].dir] \cap links'[row[x].dir]
      BY <2>1 DEF RowsAreBacked, RowIsBacked, History
    <3>1. /\ row[x].dir \in DirNames /\ row[x].dir \in dirs /\ owner[row[x].dir] = x
          /\ History(x, row[x].count) \subseteq file[row[x].dir] \cap links[row[x].dir]
      BY DEF CountInv, TypeOK, Rows, DiskInv, RowsAreBacked, RowIsBacked
    <3>2. CASE row[x].dir # job.target
      BY <2>2, <3>1, <3>2
    <3>3. CASE row[x].dir = job.target
      <4>1. x = Conv BY <2>3, <3>1, <3>3
      <4>2. row[x].count = Start BY <2>3, <4>1 DEF BindingIsSound, Start
      <4>3. m \notin History(x, row[x].count)
        BY <2>1, <4>1, <4>2 DEF CountInv, CountsFit
      <4> QED BY <2>2, <3>1, <3>3, <4>3
    <3> QED BY <3>2, <3>3
  <2> QED BY <2>5, <2>6, <2>7 DEF DiskInv
<1>20. CASE RecordConversation
  <2>1. /\ job # None /\ pc = "attach" /\ job.todo = {} /\ Conv \in Convs
        /\ row' = [row EXCEPT ![Conv] = RecordedRow] /\ pc' = "walk" /\ job' = None
        /\ UNCHANGED <<server, disk>>
    BY <1>20, JobFields DEF RecordConversation, AllLinked, CountInv, CountsFit
  <2>2. JobIsSound' BY <2>1 DEF JobIsSound
  <2>3. HistoriesArePrefixes' BY <2>1 DEF server, disk, DiskInv, HistoriesArePrefixes
  <2>4. job.target \in dirs /\ owner[job.target] = Conv /\ HistoryIsWritten
    BY <2>1 DEF DiskInv, JobIsSound
  <2>5. row'[Conv].dir = job.target /\ row'[Conv].count = job.offset
    BY <2>1, <2>4 DEF RecordedRow, HistoryIsWritten, CountInv, TypeOK
  <2>6. RowsAreBacked'
    <3> SUFFICES ASSUME NEW x \in Convs, row'[x] # None
                 PROVE  /\ row'[x].dir \in dirs /\ owner[row'[x].dir] = x
                        /\ History(x, row'[x].count) \subseteq file[row'[x].dir] \cap links[row'[x].dir]
      BY <2>1 DEF disk, RowsAreBacked, RowIsBacked, History
    <3>1. CASE x = Conv BY <3>1, <2>1, <2>4, <2>5 DEF HistoryIsWritten
    <3>2. CASE x # Conv
      <4>1. row'[x] = row[x] BY <3>2, <2>1 DEF CountInv, TypeOK
      <4> QED BY <4>1 DEF DiskInv, RowsAreBacked, RowIsBacked
    <3> QED BY <3>1, <3>2
  <2> QED BY <2>2, <2>3, <2>6 DEF DiskInv
<1>21. CASE Interrupt
  BY <1>21, <1>4 DEF Interrupt
<1>22. CASE UNCHANGED vars
  <2>1. UNCHANGED <<server, row, disk, pc, job>> BY <1>22 DEF vars
  <2>2. JobIsSound'
    BY <2>1 DEF disk, DiskInv, JobIsSound, BindingIsSound, TargetIsSound, HistoryIsWritten, Conv, History
  <2> QED BY <1>0, <2>1, <2>2 DEF server, disk, DiskInv
<1> QED
  BY <1>1, <1>2, <1>5, <1>6, <1>7, <1>8, <1>9, <1>10, <1>11, <1>12, <1>14, <1>15, <1>16,
     <1>17, <1>18, <1>19, <1>19a, <1>20, <1>21, <1>22
  DEF Next, Environment, Process

(* While the user deletes no directory, the properties of the disk follow. *)
LEMMA DiskAlways == MaxDeletions = 0 => (Spec => [](CountInv /\ DiskInv))
<1> SUFFICES ASSUME MaxDeletions = 0 PROVE Spec => [](CountInv /\ DiskInv)
  OBVIOUS
<1>1. Init => CountInv /\ DiskInv BY CountInit, DiskInit
<1>2. (CountInv /\ DiskInv) /\ [Next]_vars => (CountInv /\ DiskInv)'
  BY CountNext, DiskNext
<1> QED BY <1>1, <1>2, PTL DEF Spec

(* No row claims what the disk lacks: its directory is there, belongs to   *)
(* the conversation, and holds and links the recorded messages             *)
(* (run_messages, resolve_conversation_dir).                               *)
THEOREM RowsAlwaysBacked == MaxDeletions = 0 => (Spec => []RowsAreBacked)
<1> SUFFICES ASSUME MaxDeletions = 0 PROVE Spec => []RowsAreBacked
  OBVIOUS
<1>1. CountInv /\ DiskInv => RowsAreBacked BY DEF DiskInv
<1> QED BY <1>1, DiskAlways, PTL

(* Every directory holds an initial part of its conversation's history     *)
(* (append_messages, write_conversation).                                  *)
THEOREM HistoriesAlwaysPrefixes == MaxDeletions = 0 => (Spec => []HistoriesArePrefixes)
<1> SUFFICES ASSUME MaxDeletions = 0 PROVE Spec => []HistoriesArePrefixes
  OBVIOUS
<1>1. CountInv /\ DiskInv => HistoriesArePrefixes BY DEF DiskInv
<1> QED BY <1>1, DiskAlways, PTL

(* A step loses nothing: each action either leaves files and rows alone,   *)
(* forgets a row, or is one of three that are shown to extend what is      *)
(* there.                                                                  *)
Loses == ~(/\ \A d \in DirNames : file[d] \subseteq file'[d]
           /\ \A c \in Convs : row[c] # None /\ row'[c] # None =>
                row'[c].dir = row[c].dir /\ row'[c].count >= row[c].count)

LEMMA LosesNothing ==
  ASSUME MaxDeletions = 0, CountInv, DiskInv, [Next]_vars
  PROVE  ~Loses
<1> USE ConstantsAssumption, NoneAssumption
<1>1. \A c \in Convs : row[c] # None => row[c].count \in Int
  BY DEF CountInv, TypeOK, Rows
<1>2. ASSUME UNCHANGED file,
             \A c \in Convs : row'[c] # None => row'[c] = row[c]
      PROVE  ~Loses
  BY <1>1, <1>2 DEF Loses
<1>3. ASSUME NEW d \in DirNames, DeleteDirectory(d) PROVE FALSE
  BY <1>3 DEF DeleteDirectory, CountInv, TypeOK
<1>4. ASSUME NEW e \in Entries, BeginFull(e) PROVE ~Loses
  BY <1>2, <1>4 DEF BeginFull, disk, CountInv, TypeOK
<1>5. CASE AppendMessages
  <2>1. UNCHANGED row /\ \A d \in DirNames : file[d] \subseteq file'[d]
    BY <1>5 DEF AppendMessages, Extended, CountInv, TypeOK
  <2> QED BY <1>1, <2>1 DEF Loses
<1>6. CASE WriteHistory
  <2>1. /\ job # None /\ job.tail = NoTail /\ UNCHANGED row
        /\ file' = [file EXCEPT ![job.target] = job.got]
        /\ file[job.target] \subseteq History(Conv, job.offset)
    BY <1>6 DEF WriteHistory, CountInv, CountsFit, DiskInv, JobIsSound
  <2>2. /\ job.got = History(Conv, job.offset) \ History(Conv, 0)
        /\ job.offset \in Nat /\ job.target \in DirNames
    BY <1>6, <2>1, JobFields DEF WriteHistory, CountInv, CountsFit, Start
  <2>3. file[job.target] \subseteq job.got BY <2>1, <2>2, HistoryInclusion
  <2>4. \A d \in DirNames : file[d] \subseteq file'[d]
    BY <2>1, <2>2, <2>3 DEF CountInv, TypeOK
  <2> QED BY <1>1, <2>1, <2>4 DEF Loses
<1>7. CASE RecordConversation
  <2>1. /\ job # None /\ Conv \in Convs /\ UNCHANGED file
        /\ row' = [row EXCEPT ![Conv] = RecordedRow]
        /\ BindingIsSound /\ TargetIsSound /\ HistoryIsWritten
    BY <1>7, JobFields
    DEF RecordConversation, disk, CountInv, CountsFit, DiskInv, JobIsSound
  <2>2. row'[Conv].dir = job.target /\ row'[Conv].count = job.offset
    BY <2>1 DEF RecordedRow, HistoryIsWritten, CountInv, TypeOK
  <2>3. row[Conv] # None => /\ job.target = row[Conv].dir /\ row[Conv].count <= job.offset
                            /\ job.offset \in Int
    BY <2>1, JobFields DEF BindingIsSound, TargetIsSound, CountInv, CountsFit, Start
  <2>4. \A c \in Convs : c # Conv => row'[c] = row[c] BY <2>1 DEF CountInv, TypeOK
  <2> QED BY <1>1, <2>1, <2>2, <2>3, <2>4 DEF Loses
<1>8. CASE Environment
  BY <1>2, <1>3, <1>8 DEF Environment, PostMessage, disk
<1>9. CASE Process
  BY <1>2, <1>4, <1>5, <1>6, <1>7, <1>9
  DEF Process, disk, ListPage, EndWalk, SkipConversation, BeginTail, FetchPage, EndFetch,
      RefuseTail, MakeDirectory, WritePayload, UnlinkAttachments, LinkAttachments
<1> QED
  BY <1>2, <1>8, <1>9 DEF Next, StartRun, Interrupt, vars, disk

(* No step, forced or not, loses a stored message, and a row that stays    *)
(* keeps its directory and its messages (append_messages,                  *)
(* write_conversation, upsert_conversation).                               *)
THEOREM NothingIsEverLost == MaxDeletions = 0 => (Spec => NothingStoredIsLost)
<1> SUFFICES ASSUME MaxDeletions = 0 PROVE Spec => NothingStoredIsLost
  OBVIOUS
<1>1. (CountInv /\ DiskInv) /\ [Next]_vars => ~Loses BY LosesNothing
<1>2. ~Loses => [/\ \A d \in DirNames : file[d] \subseteq file'[d]
                 /\ \A c \in Convs : row[c] # None /\ row'[c] # None =>
                      row'[c].dir = row[c].dir /\ row'[c].count >= row[c].count]_vars
  BY DEF Loses
<1> QED BY <1>1, <1>2, DiskAlways, PTL DEF Spec, NothingStoredIsLost

-----------------------------------------------------------------------------
(* Stamps, as long as no two messages share a second.                      *)

StampInv == StampsAreSound /\ StampCoversHistory

LEMMA StampInit == Init => StampInv
  BY NoneAssumption DEF Init, StampInv, StampsAreSound, StampCoversHistory

LEMMA StampNext ==
  ASSUME MinGap = 1, CountInv, CountInv', DiskInv, StampInv, [Next]_vars
  PROVE  StampInv'
<1> USE ConstantsAssumption, NoneAssumption
<1>1. ASSUME NEW c \in Convs, PostMessage(c) PROVE StampInv'
  <2>1. PICK t \in Times : /\ t \in {now + MinGap, now + 1} /\ now' = t
                           /\ lastUpdate' = [lastUpdate EXCEPT ![c] = t]
    BY <1>1 DEF PostMessage
  <2>a. now \in Int /\ lastUpdate \in [Convs -> Int] /\ hist \in [Convs -> Int]
    BY DEF CountInv, TypeOK, Times
  <2>b. now + MinGap = now + 1 BY <2>a
  <2>c. t = now + 1 BY <2>1, <2>b
  <2>d. /\ UNCHANGED <<row, page, pc, job>>
        /\ hist' = [hist EXCEPT ![c] = @ + 1]
    BY <1>1 DEF PostMessage, walking
  <2>2. /\ \A x \in Convs : row[x] # None => row[x].stamp \in Int
        /\ \A e \in page : e.stamp \in Int
        /\ job # None => job.entry.stamp \in Int /\ Conv \in Convs
    BY JobFields DEF CountInv, TypeOK, Rows, Entries, Times
  <2>3. StampsAreSound'
    BY <2>1, <2>a, <2>c, <2>d, <2>2 DEF StampInv, StampsAreSound, Conv
  <2>4. StampCoversHistory'
    BY <2>1, <2>a, <2>c, <2>d, <2>2 DEF StampInv, StampsAreSound, StampCoversHistory
  <2> QED BY <2>3, <2>4 DEF StampInv
<1>2. ASSUME NEW d \in DirNames, DeleteDirectory(d) PROVE StampInv'
  BY <1>2 DEF DeleteDirectory, server, walking, StampInv, StampsAreSound, StampCoversHistory, Conv
<1>3. ASSUME UNCHANGED <<server, row>>, page' = {} \/ page' \subseteq page, job' = None
      PROVE  StampInv'
  BY <1>3 DEF server, StampInv, StampsAreSound, StampCoversHistory
<1>4. ASSUME NEW F \in ForceArguments, StartRun(F) PROVE StampInv'
  BY <1>4, <1>3 DEF StartRun, CountInv, CountsFit
<1>5. ASSUME NEW S \in SUBSET Convs, ListPage(S) PROVE StampInv'
  BY <1>5 DEF ListPage, server, StampInv, StampsAreSound, StampCoversHistory, CountInv, CountsFit
<1>6. CASE EndWalk
  BY <1>6, <1>3 DEF EndWalk, CountInv, CountsFit
<1>7. ASSUME NEW e \in Entries, SkipConversation(e) PROVE StampInv'
  BY <1>7, <1>3 DEF SkipConversation, CountInv, CountsFit
<1>8. ASSUME NEW e \in Entries, BeginTail(e) PROVE StampInv'
  BY <1>8 DEF BeginTail, NewJob, server, StampInv, StampsAreSound, StampCoversHistory
<1>9. ASSUME NEW e \in Entries, BeginFull(e) PROVE StampInv'
  BY <1>9 DEF BeginFull, NewJob, server, StampInv, StampsAreSound, StampCoversHistory, CountInv, TypeOK
<1>10. ASSUME UNCHANGED <<server, row, page>>, job # None, job' # None,
              job'.entry = job.entry, job'.offset = job.offset, pc # "fetch"
       PROVE  StampInv'
  BY <1>10 DEF server, StampInv, StampsAreSound, StampCoversHistory, Conv
<1>11. ASSUME NEW n \in 1 .. MaxHistory, FetchPage(n) PROVE StampInv'
  <2>1. /\ job # None /\ pc' = "fetch" /\ UNCHANGED <<server, row, page>>
    BY <1>11 DEF FetchPage, walking, CountInv, CountsFit
  <2>2. job'.entry = job.entry
    BY <1>11, <2>1, JobFields DEF FetchPage, Jobs
  <2> QED BY <2>1, <2>2 DEF server, StampInv, StampsAreSound, StampCoversHistory, Conv
<1>12. CASE EndFetch
  <2>1. PICK d \in DirNames :
          /\ job # None /\ job.offset = hist[Conv] /\ job' = [job EXCEPT !.target = d]
          /\ UNCHANGED <<server, row, page>>
    BY <1>12 DEF EndFetch, walking, CountInv, CountsFit
  <2>2. job'.entry = job.entry /\ job'.offset = job.offset
    BY <2>1, JobFields DEF Jobs
  <2> QED BY <2>1, <2>2 DEF server, StampInv, StampsAreSound, StampCoversHistory, Conv
<1>13. CASE AppendMessages
  <2>1. job # None BY <1>13 DEF AppendMessages, CountInv, CountsFit
  <2>2. job'.entry = job.entry /\ job'.offset = job.offset /\ job' # None
    BY <1>13, <2>1, JobFields DEF AppendMessages, Jobs, CountInv, CountsFit
  <2> QED BY <1>10, <1>13, <2>1, <2>2 DEF AppendMessages, walking
<1>14. CASE RefuseTail
  BY <1>14, <1>3 DEF RefuseTail
<1>15. CASE MakeDirectory
  BY <1>10, <1>15 DEF MakeDirectory, walking, CountInv, CountsFit
<1>16. CASE WritePayload
  BY <1>10, <1>16 DEF WritePayload, walking, CountInv, CountsFit
<1>17. CASE WriteHistory
  <2>1. job # None BY <1>17 DEF WriteHistory, CountInv, CountsFit
  <2>2. job'.entry = job.entry /\ job'.offset = job.offset /\ job' # None
    BY <1>17, <2>1, JobFields DEF WriteHistory, Jobs, CountInv, CountsFit
  <2> QED BY <1>10, <1>17, <2>1, <2>2 DEF WriteHistory, walking
<1>17a. ASSUME NEW m \in Messages, UnlinkAttachments(m) PROVE StampInv'
  <2>1. job # None BY <1>17a DEF UnlinkAttachments, CountInv, CountsFit
  <2> QED BY <1>10, <1>17a, <2>1 DEF UnlinkAttachments, walking
<1>18. ASSUME NEW m \in Messages, LinkAttachments(m) PROVE StampInv'
  <2>1. job # None BY <1>18 DEF LinkAttachments, CountInv, CountsFit
  <2>2. job'.entry = job.entry /\ job'.offset = job.offset /\ job' # None
    BY <1>18, <2>1, JobFields DEF LinkAttachments, Jobs, CountInv, CountsFit
  <2> QED BY <1>10, <1>18, <2>1, <2>2 DEF LinkAttachments, walking
<1>19. CASE RecordConversation
  <2>1. /\ job # None /\ pc = "attach" /\ Conv \in Convs /\ job.total = job.offset
        /\ row' = [row EXCEPT ![Conv] = RecordedRow] /\ job' = None
        /\ UNCHANGED <<server, page>>
    BY <1>19, JobFields
    DEF RecordConversation, walking, CountInv, CountsFit, DiskInv, JobIsSound, HistoryIsWritten
  <2>2. /\ row'[Conv].stamp = job.entry.stamp /\ row'[Conv].count = job.offset
        /\ \A x \in Convs : x # Conv => row'[x] = row[x]
    BY <2>1 DEF RecordedRow, CountInv, TypeOK
  <2>3. job.entry.stamp <= now /\ (job.entry.stamp = lastUpdate[Conv] => job.offset = hist[Conv])
    BY <2>1 DEF StampInv, StampsAreSound
  <2> QED BY <2>1, <2>2, <2>3 DEF server, StampInv, StampsAreSound, StampCoversHistory
<1>20. CASE Interrupt
  BY <1>20, <1>3 DEF Interrupt
<1>21. CASE UNCHANGED vars
  BY <1>21 DEF vars, server, walking, StampInv, StampsAreSound, StampCoversHistory, Conv
<1> QED
  BY <1>1, <1>2, <1>4, <1>5, <1>6, <1>7, <1>8, <1>9, <1>11, <1>12, <1>13, <1>14, <1>15,
     <1>16, <1>17, <1>17a, <1>18, <1>19, <1>20, <1>21
  DEF Next, Environment, Process

(* The skip check is sound: a row whose stamp is current covers the whole  *)
(* history, although messages arrive while others are fetched              *)
(* (run_messages), if no two messages share a second.                      *)
THEOREM StampsAlwaysCover ==
  MaxDeletions = 0 /\ MinGap = 1 => (Spec => []StampCoversHistory)
<1> SUFFICES ASSUME MaxDeletions = 0, MinGap = 1 PROVE Spec => []StampCoversHistory
  OBVIOUS
<1>1. (CountInv /\ DiskInv) /\ (CountInv /\ DiskInv)' /\ StampInv /\ [Next]_vars => StampInv'
  BY StampNext
<1>2. StampInv => StampCoversHistory BY DEF StampInv
<1> QED BY <1>1, <1>2, StampInit, DiskAlways, PTL DEF Spec

-----------------------------------------------------------------------------
(* The directory is chosen once the messages are in.                       *)

LEMMA ChosenInit == Init => TargetIsChosen
  BY DEF Init, TargetIsChosen

LEMMA ChosenNext ==
  ASSUME CountInv, TargetIsChosen, [Next]_vars
  PROVE  TargetIsChosen'
<1> USE ConstantsAssumption, NoneAssumption
<1>1. ASSUME UNCHANGED <<pc, job>> PROVE TargetIsChosen'
  BY <1>1 DEF TargetIsChosen
<1>2. ASSUME job' = None, pc' \in {"idle", "walk"} PROVE TargetIsChosen'
  BY <1>2 DEF TargetIsChosen
<1>3. ASSUME NEW e \in Entries, BeginTail(e) PROVE TargetIsChosen'
  BY <1>3 DEF BeginTail, NewJob, TargetIsChosen
<1>4. ASSUME NEW e \in Entries, BeginFull(e) PROVE TargetIsChosen'
  BY <1>4 DEF BeginFull, NewJob, TargetIsChosen
<1>5. ASSUME NEW n \in 1 .. MaxHistory, FetchPage(n) PROVE TargetIsChosen'
  <2>1. job # None /\ pc = "fetch" /\ pc' = "fetch" /\ job.target = None
    BY <1>5 DEF FetchPage, CountInv, CountsFit, TargetIsChosen
  <2>2. job'.target = job.target
    BY <1>5, <2>1, JobFields DEF FetchPage, Jobs
  <2> QED BY <2>1, <2>2 DEF TargetIsChosen
<1>6. CASE EndFetch
  <2>1. PICK d \in DirNames :
          /\ job # None /\ Resolves(d) /\ job' = [job EXCEPT !.target = d]
          /\ pc' \in {"mkdir", "append"}
    BY <1>6 DEF EndFetch, CountInv, CountsFit
  <2>2. job'.target = d /\ job'.home = job.home BY <2>1, JobFields DEF Jobs
  <2> QED BY <2>1, <2>2 DEF TargetIsChosen, Resolves
<1>7. ASSUME job # None, pc # "fetch", pc' # "fetch",
             job'.home = job.home, job'.target = job.target
      PROVE  TargetIsChosen'
  BY <1>7 DEF TargetIsChosen
<1>8. CASE AppendMessages
  <2>1. job # None /\ job'.home = job.home /\ job'.target = job.target
    BY <1>8, JobFields DEF AppendMessages, Jobs, CountInv, CountsFit
  <2> QED BY <1>7, <1>8, <2>1 DEF AppendMessages
<1>9. CASE MakeDirectory
  BY <1>7, <1>9 DEF MakeDirectory, CountInv, CountsFit
<1>10. CASE WritePayload
  BY <1>7, <1>10 DEF WritePayload, CountInv, CountsFit
<1>11. CASE WriteHistory
  <2>1. job # None /\ job'.home = job.home /\ job'.target = job.target
    BY <1>11, JobFields DEF WriteHistory, Jobs, CountInv, CountsFit
  <2> QED BY <1>7, <1>11, <2>1 DEF WriteHistory
<1>11a. ASSUME NEW m \in Messages, UnlinkAttachments(m) PROVE TargetIsChosen'
  BY <1>1, <1>11a DEF UnlinkAttachments
<1>12. ASSUME NEW m \in Messages, LinkAttachments(m) PROVE TargetIsChosen'
  <2>1. job # None /\ job'.home = job.home /\ job'.target = job.target
    BY <1>12, JobFields DEF LinkAttachments, Jobs, CountInv, CountsFit
  <2> QED BY <1>7, <1>12, <2>1 DEF LinkAttachments
<1>13. CASE Environment
  BY <1>1, <1>13 DEF Environment, PostMessage, DeleteDirectory
<1>14. ASSUME NEW F \in ForceArguments, StartRun(F) PROVE TargetIsChosen'
  BY <1>14 DEF StartRun, TargetIsChosen, CountInv, CountsFit
<1>15. CASE Process
  BY <1>1, <1>2, <1>3, <1>4, <1>5, <1>6, <1>8, <1>9, <1>10, <1>11, <1>11a, <1>12, <1>15
  DEF Process, ListPage, EndWalk, SkipConversation, RefuseTail, RecordConversation,
      TargetIsChosen, CountInv, CountsFit
<1> QED
  BY <1>1, <1>2, <1>13, <1>14, <1>15 DEF Next, Interrupt, vars

-----------------------------------------------------------------------------
(* Runs that nothing interrupted.                                          *)

LEMMA UninterruptedInit == Init => UninterruptedIsSound
  BY NoneAssumption DEF Init, UninterruptedIsSound

(* What is at rest is what the row counts, so its size is the row's count  *)
(* and append_messages finds the tail it expects.                          *)
LEMMA TailAlwaysFits ==
  ASSUME CountInv, DiskInv, UninterruptedIsSound, interrupts = 0, pc = "append"
  PROVE  TailFits
<1>1. job # None /\ job.tail # NoTail /\ job.target \in DirNames
  BY JobFields DEF CountInv, CountsFit
<1>2. /\ row[Conv] # None /\ row[Conv].dir = job.target /\ row[Conv].count = job.tail
  BY <1>1 DEF DiskInv, JobIsSound, BindingIsSound, TargetIsSound
<1>3. file[job.target] = History(Conv, job.tail)
  BY <1>1, <1>2, JobFields DEF UninterruptedIsSound, IsAtRest
<1>4. job.tail \in Nat BY <1>1, JobFields
<1> QED BY <1>3, <1>4, WholeHistorySize DEF TailFits

LEMMA UninterruptedNext ==
  ASSUME MaxDeletions = 0, CountInv, CountInv', DiskInv, TargetIsChosen,
         UninterruptedIsSound, [Next]_vars
  PROVE  UninterruptedIsSound'
<1> USE ConstantsAssumption, NoneAssumption
<1>0. CASE Interrupt
  <2>1. interrupts' > 0 BY <1>0 DEF Interrupt, CountInv, TypeOK
  <2> QED BY <2>1 DEF UninterruptedIsSound
<1> SUFFICES ASSUME interrupts = 0, ~Interrupt
             PROVE  UninterruptedIsSound'
  <2>1. ~Interrupt => interrupts' = interrupts
    BY DEF Next, Environment, Process, PostMessage, DeleteDirectory, StartRun, ListPage, EndWalk,
           SkipConversation, BeginTail, BeginFull, FetchPage, EndFetch, AppendMessages, RefuseTail,
           MakeDirectory, WritePayload, WriteHistory, UnlinkAttachments, LinkAttachments,
           RecordConversation,
           counts, vars
  <2> QED BY <1>0, <2>1 DEF UninterruptedIsSound
<1>a. /\ ~refused
      /\ \A d \in DirNames : owner[d] # None => Remembers(owner[d], d)
      /\ \A c \in Convs : row[c] # None /\ IsAtRest(c) =>
           file[row[c].dir] = History(c, row[c].count)
  BY DEF UninterruptedIsSound
<1>1. ASSUME UNCHANGED <<row, owner, file, refused>>, job = None, job' = None
      PROVE  UninterruptedIsSound'
  BY <1>a, <1>1 DEF UninterruptedIsSound, Remembers, IsAtRest, History
<1>2. ASSUME UNCHANGED <<row, owner, file, pc, job, refused>>
      PROVE  UninterruptedIsSound'
  BY <1>a, <1>2 DEF UninterruptedIsSound, Remembers, IsAtRest, History, Conv
<1>3. ASSUME NEW d \in DirNames, DeleteDirectory(d) PROVE FALSE
  BY <1>3 DEF DeleteDirectory, CountInv, TypeOK
<1>4. ASSUME NEW F \in ForceArguments, StartRun(F) PROVE UninterruptedIsSound'
  <2>1. UNCHANGED <<row, owner, file, job>> /\ job = None /\ ~refused'
    BY <1>4 DEF StartRun, disk, CountInv, CountsFit
  <2> QED BY <1>a, <2>1 DEF UninterruptedIsSound, Remembers, IsAtRest, History
<1>5. ASSUME NEW e \in Entries, BeginTail(e) PROVE UninterruptedIsSound'
  <2>1. UNCHANGED <<row, owner, file, refused>> /\ job = None /\ pc' = "fetch"
    BY <1>5 DEF BeginTail, disk, CountInv, CountsFit
  <2> QED BY <1>a, <2>1 DEF UninterruptedIsSound, Remembers, IsAtRest, History
<1>6. ASSUME NEW e \in Entries, BeginFull(e) PROVE UninterruptedIsSound'
  <2> DEFINE c == e.conv
             home == IF row[c] = None THEN None ELSE row[c].dir
  <2>1. /\ c \in Convs /\ row \in [Convs -> Rows \cup {None}]
        /\ job' = NewJob(e, home, NoTail) /\ pc' = "fetch" /\ job = None
        /\ row' = [row EXCEPT ![c] = None] /\ UNCHANGED <<owner, file, refused>>
    BY <1>6 DEF BeginFull, disk, CountInv, CountsFit, TypeOK, Entries
  <2>2. row[c] # None => home = row[c].dir
    OBVIOUS
  <2> HIDE DEF c, home
  <2>3. Conv' = c /\ job'.home = home /\ job' # None
    BY <2>1 DEF NewJob, Conv, c, CountInv, CountsFit
  <2>4. \A d \in DirNames : owner[d] # None => Remembers(owner[d], d)'
    BY <1>a, <2>1, <2>2, <2>3 DEF Remembers
  <2>5. \A x \in Convs : row'[x] # None => x # c /\ row'[x] = row[x]
    BY <2>1
  <2> QED BY <1>a, <2>1, <2>4, <2>5 DEF UninterruptedIsSound, IsAtRest, History, Remembers
<1>7. ASSUME NEW n \in 1 .. MaxHistory, FetchPage(n) PROVE UninterruptedIsSound'
  <2>1. job # None /\ pc = "fetch" /\ UNCHANGED <<row, owner, file, pc, refused>>
    BY <1>7 DEF FetchPage, disk, CountInv, CountsFit
  <2>2. job' # None /\ job'.entry = job.entry /\ job'.home = job.home /\ job'.target = job.target
    BY <1>7, <2>1, JobFields DEF FetchPage, Jobs, CountInv, CountsFit
  <2> QED BY <1>a, <2>1, <2>2 DEF UninterruptedIsSound, Remembers, IsAtRest, History, Conv
<1>8. CASE EndFetch
  <2>1. PICK d \in DirNames :
          /\ job # None /\ pc = "fetch" /\ job' = [job EXCEPT !.target = d]
          /\ pc' = IF job.tail = NoTail THEN "mkdir" ELSE "append"
          /\ UNCHANGED <<row, owner, file, refused>>
    BY <1>8 DEF EndFetch, disk, CountInv, CountsFit
  <2>2. job' # None /\ job'.entry = job.entry /\ job'.home = job.home /\ job'.tail = job.tail
    BY <2>1, JobFields DEF Jobs, CountInv, CountsFit
  <2>3. job.target = None /\ (job.tail = NoTail => row[Conv] = None) /\ Conv' = Conv
    BY <2>1, <2>2 DEF TargetIsChosen, DiskInv, JobIsSound, BindingIsSound, Conv
  <2>4. \A x \in DirNames : owner[x] # None => Remembers(owner[x], x)'
    BY <1>a, <2>1, <2>2, <2>3 DEF Remembers
  <2>5. \A c \in Convs : row[c] # None /\ IsAtRest(c)' => IsAtRest(c)
    BY <2>1, <2>2, <2>3 DEF IsAtRest
  <2> QED BY <1>a, <2>1, <2>4, <2>5 DEF UninterruptedIsSound, History, Remembers
<1>9. ASSUME job # None, job.target \in DirNames, pc # "fetch",
             NEW x \in Convs, x # Conv, row[x] # None
      PROVE  row[x].dir # job.target /\ row[x].dir \in DirNames
  BY <1>9 DEF JobIsSound, TargetIsSound, DiskInv, RowsAreBacked, RowIsBacked, CountInv, TypeOK, Rows
<1>10. ASSUME job # None, job' # None, pc # "fetch", job.target \in DirNames,
              UNCHANGED <<row, refused>>,
              \A d \in DirNames : d # job.target => owner'[d] = owner[d] /\ file'[d] = file[d],
              owner'[job.target] \in {owner[job.target], Conv},
              job'.entry = job.entry, job'.home = job.home, job'.target = job.target,
              pc' \notin {"fetch", "append"}
       PROVE  UninterruptedIsSound'
  <2>1. Conv' = Conv BY <1>10 DEF Conv
  <2>2. job.home # None => job.target = job.home BY <1>10 DEF TargetIsChosen
  <2>3. ASSUME NEW d \in DirNames, owner'[d] # None PROVE Remembers(owner[d], d)'
    <3>1. CASE owner'[d] = owner[d]
      BY <1>a, <1>10, <2>1, <2>3, <3>1 DEF Remembers
    <3>2. CASE d = job.target /\ owner'[d] = Conv
      BY <1>10, <2>1, <2>2, <3>2 DEF Remembers
    <3> QED BY <1>10, <3>1, <3>2
  <2>4. ASSUME NEW c \in Convs, row'[c] # None, IsAtRest(c)'
        PROVE  file'[row[c].dir] = History(c, row[c].count)
    <3>1. c # Conv BY <1>10, <2>1, <2>4 DEF IsAtRest
    <3>2. row[c].dir # job.target /\ row[c].dir \in DirNames BY <3>1, <1>9, <1>10, <2>4
    <3>3. file[row[c].dir] = History(c, row[c].count) BY <1>a, <1>10, <2>4, <3>1 DEF IsAtRest
    <3> QED BY <1>10, <3>2, <3>3
  <2> QED BY <1>a, <1>10, <2>3, <2>4 DEF UninterruptedIsSound, History
<1>11. CASE AppendMessages
  <2>1. /\ job # None /\ job.target \in DirNames
        /\ file' = [file EXCEPT ![job.target] = Extended]
        /\ pc' = "mkdir" /\ pc = "append" /\ UNCHANGED <<row, owner, refused>>
    BY <1>11, JobFields DEF AppendMessages, CountInv, CountsFit
  <2>2. job' # None /\ job'.entry = job.entry /\ job'.home = job.home /\ job'.target = job.target
    BY <1>11, <2>1, JobFields DEF AppendMessages, Jobs, CountInv, CountsFit
  <2> QED BY <1>10, <2>1, <2>2 DEF CountInv, TypeOK
<1>12. CASE RefuseTail
  BY <1>12, TailAlwaysFits DEF RefuseTail
<1>13. CASE MakeDirectory
  <2>1. job # None /\ job.target \in DirNames
    BY <1>13, JobFields DEF MakeDirectory, CountInv, CountsFit
  <2> QED BY <1>10, <1>13, <2>1 DEF MakeDirectory
<1>14. CASE WritePayload
  <2>1. job # None /\ job.target \in DirNames
    BY <1>14, JobFields DEF WritePayload, CountInv, CountsFit
  <2> QED BY <1>10, <1>14, <2>1 DEF WritePayload, CountInv, TypeOK
<1>15. CASE WriteHistory
  <2>1. /\ job # None /\ job.target \in DirNames
        /\ file' = [file EXCEPT ![job.target] = job.got]
        /\ pc' = "attach" /\ pc = "history" /\ UNCHANGED <<row, owner, refused>>
    BY <1>15, JobFields DEF WriteHistory, CountInv, CountsFit
  <2>2. job' # None /\ job'.entry = job.entry /\ job'.home = job.home /\ job'.target = job.target
    BY <1>15, <2>1, JobFields DEF WriteHistory, Jobs, CountInv, CountsFit
  <2> QED BY <1>10, <2>1, <2>2 DEF CountInv, TypeOK
<1>16. ASSUME NEW m \in Messages, LinkAttachments(m) PROVE UninterruptedIsSound'
  <2>1. /\ job # None /\ job.target \in DirNames
        /\ pc' = "attach" /\ pc = "attach" /\ UNCHANGED <<row, owner, file, refused>>
    BY <1>16, JobFields DEF LinkAttachments, CountInv, CountsFit
  <2>2. job' # None /\ job'.entry = job.entry /\ job'.home = job.home /\ job'.target = job.target
    BY <1>16, <2>1, JobFields DEF LinkAttachments, Jobs, CountInv, CountsFit
  <2> QED BY <1>10, <2>1, <2>2
<1>16a. ASSUME NEW m \in Messages, UnlinkAttachments(m) PROVE UninterruptedIsSound'
  BY <1>2, <1>16a DEF UnlinkAttachments
<1>17. CASE RecordConversation
  <2>1. /\ job # None /\ pc = "attach" /\ Conv \in Convs /\ job.target \in DirNames
        /\ row' = [row EXCEPT ![Conv] = RecordedRow] /\ job' = None
        /\ UNCHANGED <<owner, file, refused>>
    BY <1>17, JobFields DEF RecordConversation, disk, CountInv, CountsFit
  <2>2. /\ HistoryIsWritten /\ BindingIsSound /\ TargetIsSound
        /\ (job.home # None => job.target = job.home)
    BY <2>1 DEF DiskInv, JobIsSound, TargetIsChosen
  <2>3. /\ row'[Conv] # None /\ row'[Conv].dir = job.target /\ row'[Conv].count = job.offset
        /\ \A x \in Convs : x # Conv => row'[x] = row[x]
    <3>1. RecordedRow \in Rows BY <2>1, JobFields DEF RecordedRow, Rows
    <3> QED BY <2>1, <2>2, <3>1 DEF RecordedRow, HistoryIsWritten, CountInv, TypeOK
  <2>4. ASSUME NEW d \in DirNames, owner[d] # None PROVE Remembers(owner[d], d)'
    <3>1. owner[d] \in Convs BY <2>4 DEF CountInv, TypeOK
    <3>2. CASE owner[d] # Conv BY <1>a, <2>1, <2>3, <2>4, <3>1, <3>2 DEF Remembers
    <3>3. CASE owner[d] = Conv
      <4>1. job.target = d
        BY <1>a, <2>1, <2>2, <2>4, <3>3 DEF Remembers, BindingIsSound, TargetIsSound
      <4> QED BY <2>1, <2>3, <3>3, <4>1 DEF Remembers
    <3> QED BY <3>2, <3>3
  <2>5. ASSUME NEW c \in Convs, row'[c] # None
        PROVE  file[row'[c].dir] = History(c, row'[c].count)
    <3>1. CASE c = Conv BY <2>2, <2>3, <3>1 DEF HistoryIsWritten
    <3>2. CASE c # Conv BY <1>a, <2>3, <2>5, <3>2 DEF IsAtRest
    <3> QED BY <3>1, <3>2
  <2> QED BY <1>a, <2>1, <2>4, <2>5 DEF UninterruptedIsSound, History
<1>18. CASE Environment
  BY <1>2, <1>3, <1>18 DEF Environment, PostMessage, disk
<1>19. CASE Process
  BY <1>1, <1>5, <1>6, <1>7, <1>8, <1>11, <1>12, <1>13, <1>14, <1>15, <1>16, <1>16a, <1>17, <1>19
  DEF Process, ListPage, EndWalk, SkipConversation, disk, CountInv, CountsFit
<1> QED
  BY <1>2, <1>4, <1>18, <1>19 DEF Next, vars, disk

LEMMA PhaseAlways ==
  MaxDeletions = 0 =>
    (Spec => [](CountInv /\ DiskInv /\ TargetIsChosen /\ UninterruptedIsSound))
<1> DEFINE Inv == CountInv /\ DiskInv /\ TargetIsChosen /\ UninterruptedIsSound
<1> SUFFICES ASSUME MaxDeletions = 0 PROVE Spec => []Inv
  OBVIOUS
<1>1. Init => Inv BY CountInit, DiskInit, ChosenInit, UninterruptedInit
<1>2. Inv /\ [Next]_vars => Inv'
  BY CountNext, DiskNext, ChosenNext, UninterruptedNext
<1> QED BY <1>1, <1>2, PTL DEF Spec

(* Every phase of a run is what its row and its directory will be taken    *)
(* for, whatever is interrupted: the strengthening all the others rest on  *)
(* (run_messages).                                                         *)
THEOREM PhasesAlwaysSound ==
  MaxDeletions = 0 /\ MinGap = 1 => (Spec => []EveryPhaseIsSound)
<1> SUFFICES ASSUME MaxDeletions = 0, MinGap = 1 PROVE Spec => []EveryPhaseIsSound
  OBVIOUS
<1>1. (CountInv /\ DiskInv) /\ (CountInv /\ DiskInv)' /\ StampInv /\ [Next]_vars => StampInv'
  BY StampNext
<1>2. CountInv /\ DiskInv /\ TargetIsChosen /\ UninterruptedIsSound /\ StampInv => EveryPhaseIsSound
  BY DEF CountInv, DiskInv, StampInv, EveryPhaseIsSound
<1> QED BY <1>1, <1>2, StampInit, DiskAlways, PhaseAlways, PTL DEF Spec

(* A conversation has one directory, forced or not, as long as no run was  *)
(* interrupted (resolve_conversation_dir): what remembers a directory, the *)
(* row or the process, remembers one.                                      *)
THEOREM OneDirectoryAlways == MaxDeletions = 0 => (Spec => []OneDirectoryEach)
<1> SUFFICES ASSUME MaxDeletions = 0 PROVE Spec => []OneDirectoryEach
  OBVIOUS
<1>1. CountInv /\ DiskInv /\ TargetIsChosen /\ UninterruptedIsSound => OneDirectoryEach
  <2> SUFFICES ASSUME CountInv, DiskInv, TargetIsChosen, UninterruptedIsSound, interrupts = 0,
                      NEW d1 \in DirNames, NEW d2 \in DirNames,
                      owner[d1] # None, owner[d1] = owner[d2]
               PROVE  d1 = d2
    BY DEF OneDirectoryEach
  <2>1. Remembers(owner[d1], d1) /\ Remembers(owner[d1], d2)
    BY DEF UninterruptedIsSound
  <2>2. job # None /\ Conv = owner[d1] /\ row[Conv] # None => row[Conv].dir = job.home
    BY DEF DiskInv, JobIsSound, BindingIsSound
  <2> QED BY <2>1, <2>2, NoneAssumption DEF Remembers
<1> QED BY <1>1, PhaseAlways, PTL

(* No run is refused unless one was interrupted before (append_messages    *)
(* raising messages_history_truncated).                                    *)
THEOREM RefusalsFollowInterrupts == MaxDeletions = 0 => (Spec => []RefusedOnlyIfInterrupted)
<1> SUFFICES ASSUME MaxDeletions = 0 PROVE Spec => []RefusedOnlyIfInterrupted
  OBVIOUS
<1>1. CountInv /\ UninterruptedIsSound => RefusedOnlyIfInterrupted
  BY DEF CountInv, TypeOK, UninterruptedIsSound, RefusedOnlyIfInterrupted
<1> QED BY <1>1, PhaseAlways, PTL

-----------------------------------------------------------------------------
(* The run implements the ledger.  What is stored lies between what is     *)
(* claimed and what is published, in every state; so a step that touches   *)
(* one directory and no row is a Store of its conversation.                *)

Held(c)    == {m \in file[Place(c)] \cap links[Place(c)] : m[1] = c}
Stored(c)  == IF Place(c) = None THEN 0 ELSE Cardinality(Held(c))
Claimed(c) == IF row[c] = None THEN 0 ELSE row[c].count

PhaseInv == CountInv /\ DiskInv /\ TargetIsChosen

StoredIsBetween ==
  \A c \in Convs : /\ Stored(c) \in Nat /\ Claimed(c) \in Nat /\ hist[c] \in Nat
                   /\ Claimed(c) <= Stored(c) /\ Stored(c) <= hist[c]

LEMMA StoredBetween == PhaseInv => StoredIsBetween
<1> USE ConstantsAssumption, NoneAssumption
<1> SUFFICES ASSUME PhaseInv, NEW c \in Convs
             PROVE  /\ Stored(c) \in Nat /\ Claimed(c) \in Nat /\ hist[c] \in Nat
                    /\ Claimed(c) <= Stored(c) /\ Stored(c) <= hist[c]
  BY DEF StoredIsBetween
<1>1. /\ hist[c] \in Nat /\ row[c] \in Rows \cup {None}
      /\ row[c] # None => row[c].dir \in DirNames /\ row[c].count \in Nat
    BY DEF PhaseInv, CountInv, TypeOK, Rows
<1>2. CASE Place(c) = None
  <2>1. row[c] = None BY <1>1, <1>2 DEF Place
  <2> QED BY <1>1, <1>2, <2>1 DEF Stored, Claimed
<1>3. CASE Place(c) # None
  <2>1. Place(c) \in DirNames /\ owner[Place(c)] \in {None, c}
    <3>1. CASE row[c] # None
      BY <1>1, <3>1 DEF Place, PhaseInv, DiskInv, RowsAreBacked, RowIsBacked
    <3>2. CASE row[c] = None
      <4>1. job # None /\ Conv = c /\ Place(c) = job.target /\ job.target # None
        BY <1>3, <3>2 DEF Place, Conv
      <4>2. pc # "fetch" /\ job.target \in DirNames
        BY <4>1, JobFields DEF PhaseInv, TargetIsChosen
      <4> QED BY <4>1, <4>2 DEF PhaseInv, DiskInv, JobIsSound, TargetIsSound
    <3> QED BY <3>1, <3>2
  <2>2. file[Place(c)] \subseteq History(c, hist[c])
    <3>1. CASE owner[Place(c)] = None
      BY <2>1, <3>1 DEF PhaseInv, DiskInv, HistoriesArePrefixes
    <3>2. CASE owner[Place(c)] = c
      <4>1. PICK n \in 0 .. hist[c] : file[Place(c)] = History(c, n)
        BY <2>1, <3>2 DEF PhaseInv, DiskInv, HistoriesArePrefixes
      <4>2. n \in Nat /\ n <= hist[c] BY <4>1, <1>1
      <4> QED BY <4>1, <4>2, <1>1, HistoryInclusion
    <3> QED BY <2>1, <3>1, <3>2
  <2>3. Held(c) \subseteq History(c, hist[c]) BY <2>2 DEF Held
  <2>4. /\ IsFiniteSet(Held(c)) /\ Cardinality(Held(c)) \in Nat
        /\ Cardinality(Held(c)) <= hist[c]
    <3>1. /\ IsFiniteSet(History(c, hist[c]))
          /\ Cardinality(History(c, hist[c])) = hist[c]
      BY <1>1, WholeHistorySize
    <3>2. /\ IsFiniteSet(Held(c))
          /\ Cardinality(Held(c)) <= Cardinality(History(c, hist[c]))
      BY <2>3, <3>1, FS_Subset
    <3> QED BY <3>1, <3>2, FS_CardinalityType
  <2>5. row[c] # None => row[c].count <= Cardinality(Held(c))
    <3> SUFFICES ASSUME row[c] # None PROVE row[c].count <= Cardinality(Held(c))
      OBVIOUS
    <3>1. History(c, row[c].count) \subseteq file[row[c].dir] \cap links[row[c].dir]
      BY DEF PhaseInv, DiskInv, RowsAreBacked, RowIsBacked
    <3>2. \A m \in History(c, row[c].count) : m[1] = c
      BY DEF History
    <3>3. History(c, row[c].count) \subseteq Held(c)
      BY <3>1, <3>2 DEF Held, Place
    <3>4. Cardinality(History(c, row[c].count)) = row[c].count
      BY <1>1, WholeHistorySize
    <3>5. Cardinality(History(c, row[c].count)) <= Cardinality(Held(c))
      BY <2>4, <3>3, FS_Subset
    <3> QED BY <3>4, <3>5
  <2> QED BY <1>1, <1>3, <2>4, <2>5 DEF Stored, Claimed
<1> QED BY <1>2, <1>3

(* A conversation that no process is dumping keeps what it has.            *)
LEMMA OthersKeep ==
  ASSUME PhaseInv, NEW x \in Convs, row'[x] = row[x],
         job = None \/ Conv # x, job' = None \/ Conv' # x,
         \A d \in DirNames : (job = None \/ pc = "fetch" \/ d # job.target) =>
                               file'[d] = file[d] /\ links'[d] = links[d]
  PROVE  Stored(x)' = Stored(x) /\ Claimed(x)' = Claimed(x)
<1> USE ConstantsAssumption, NoneAssumption
<1>1. CASE row[x] = None
  BY <1>1 DEF Stored, Claimed, Place, Conv
<1>2. CASE row[x] # None
  <2>1. row[x].dir \in DirNames /\ owner[row[x].dir] = x /\ x # None
    BY <1>2 DEF PhaseInv, CountInv, TypeOK, Rows, DiskInv, RowsAreBacked, RowIsBacked
  <2>2. job = None \/ pc = "fetch" \/ row[x].dir # job.target
    BY <2>1 DEF PhaseInv, DiskInv, JobIsSound, TargetIsSound
  <2>3. file'[row[x].dir] = file[row[x].dir] /\ links'[row[x].dir] = links[row[x].dir]
    BY <2>1, <2>2
  <2> QED BY <1>2, <2>3 DEF Stored, Claimed, Place, Held
<1> QED BY <1>1, <1>2

(* The four ways in which a step of the run is a step of the ledger.       *)
Stands ==
  UNCHANGED hist /\ \A x \in Convs : Stored(x)' = Stored(x) /\ Claimed(x)' = Claimed(x)
Stores(c) ==
  /\ UNCHANGED hist
  /\ \A x \in Convs : /\ x # c => Stored(x)' = Stored(x)
                      /\ Claimed(x)' = Claimed(x)
Claims(c) ==
  /\ UNCHANGED hist
  /\ \A x \in Convs : /\ Stored(x)' = Stored(x)
                      /\ Claimed(x)' = IF x = c THEN Stored(c) ELSE Claimed(x)
Withdraws(c) ==
  /\ UNCHANGED hist
  /\ \A x \in Convs : /\ x # c => Stored(x)' = Stored(x)
                      /\ Claimed(x)' = IF x = c THEN 0 ELSE Claimed(x)

LedgerNext ==
  [Ledger!Next]_<<hist, [c \in Convs |-> Stored(c)], [c \in Convs |-> Claimed(c)]>>

LEMMA LedgerSteps ==
  ASSUME StoredIsBetween, StoredIsBetween',
         Stands \/ \E c \in Convs : Stores(c) \/ Claims(c) \/ Withdraws(c)
  PROVE  LedgerNext
<1> DEFINE stored  == [c \in Convs |-> Stored(c)]
           claimed == [c \in Convs |-> Claimed(c)]
<1>0. /\ stored = [c \in Convs |-> IF Place(c) = None THEN 0
                     ELSE Cardinality({m \in file[Place(c)] \cap links[Place(c)] : m[1] = c})]
      /\ claimed = [c \in Convs |-> IF row[c] = None THEN 0 ELSE row[c].count]
  BY DEF Stored, Claimed, Held
<1>1. CASE Stands
  <2>1. stored' = stored /\ claimed' = claimed /\ hist' = hist BY <1>1 DEF Stands
  <2> QED BY <2>1 DEF LedgerNext
<1>2. ASSUME NEW c \in Convs, Stores(c) PROVE Ledger!Store(c)
  <2> DEFINE n == Stored(c)'
  <2>1. stored' = [stored EXCEPT ![c] = n] /\ claimed' = claimed /\ hist' = hist
    BY <1>2 DEF Stores
  <2>2. n \in claimed[c] .. hist[c]
    BY <1>2, <2>1 DEF Stores, StoredIsBetween
  <2> HIDE DEF n
  <2> QED BY <1>0, <2>1, <2>2 DEF Ledger!Store, Stored, Claimed, Held
<1>3. ASSUME NEW c \in Convs, Claims(c) PROVE Ledger!Claim(c)
  <2>1. claimed' = [claimed EXCEPT ![c] = stored[c]] /\ stored' = stored /\ hist' = hist
    BY <1>3 DEF Claims
  <2> QED BY <2>1 DEF Ledger!Claim, Stored, Claimed, Held
<1>4. ASSUME NEW c \in Convs, Withdraws(c) PROVE Ledger!Withdraw(c)
  <2> DEFINE n == Stored(c)'
  <2>1. /\ claimed' = [claimed EXCEPT ![c] = 0]
        /\ stored' = [stored EXCEPT ![c] = n] /\ hist' = hist
    BY <1>4 DEF Withdraws
  <2>2. n \in 0 .. hist[c]
    BY <1>4, <2>1 DEF Withdraws, StoredIsBetween
  <2> HIDE DEF n
  <2> QED BY <2>1, <2>2 DEF Ledger!Withdraw, Stored, Claimed, Held
<1> QED BY <1>1, <1>2, <1>3, <1>4 DEF Ledger!Next, LedgerNext

LEMMA RunStepsAreLedgerSteps ==
  ASSUME MaxDeletions = 0, PhaseInv, PhaseInv', StoredIsBetween, StoredIsBetween', [Next]_vars
  PROVE  LedgerNext
<1> USE ConstantsAssumption, NoneAssumption
<1>1. ASSUME UNCHANGED <<hist, row, file, links, job>> PROVE LedgerNext
  <2>1. Stands BY <1>1 DEF Stands, Stored, Held, Place, Claimed
  <2> QED BY <2>1, LedgerSteps
<1>2. ASSUME NEW c \in Convs, PostMessage(c) PROVE LedgerNext
  <2>1. /\ hist' = [hist EXCEPT ![c] = @ + 1]
        /\ UNCHANGED <<row, file, links, job>>
    BY <1>2 DEF PostMessage, disk
  <2>2. Ledger!Publish(c) BY <2>1 DEF Ledger!Publish, Place
  <2>3. Ledger!Next BY <2>2 DEF Ledger!Next
  <2> QED BY <2>3 DEF LedgerNext
<1>3. ASSUME NEW d \in DirNames, DeleteDirectory(d) PROVE FALSE
  BY <1>3 DEF DeleteDirectory, PhaseInv, CountInv, TypeOK
<1>4. ASSUME NEW e \in Entries, BeginTail(e) PROVE LedgerNext
  <2> DEFINE c == e.conv
  <2>1. /\ c \in Convs /\ row[c] # None /\ job = None
        /\ UNCHANGED <<hist, row, file, links>> /\ Conv' = c
    BY <1>4 DEF BeginTail, NewJob, Conv, Entries, server, disk, PhaseInv, CountInv, CountsFit
  <2> HIDE DEF c
  <2>2. ASSUME NEW x \in Convs PROVE Stored(x)' = Stored(x) /\ Claimed(x)' = Claimed(x)
    <3>1. CASE x = c BY <2>1, <3>1 DEF Stored, Held, Place, Claimed
    <3>2. CASE x # c BY <2>1, <3>2, OthersKeep
    <3> QED BY <3>1, <3>2
  <2>3. Stands BY <2>1, <2>2 DEF Stands
  <2> QED BY <2>3, LedgerSteps
<1>5. ASSUME NEW e \in Entries, BeginFull(e) PROVE LedgerNext
  <2> DEFINE c == e.conv
  <2>1. /\ c \in Convs /\ job = None /\ Conv' = c
        /\ UNCHANGED <<hist, file, links>> /\ row' = [row EXCEPT ![c] = None]
    BY <1>5 DEF BeginFull, NewJob, Conv, Entries, server, disk, PhaseInv, CountInv, CountsFit
  <2> HIDE DEF c
  <2>2. row'[c] = None /\ \A x \in Convs : x # c => row'[x] = row[x]
    BY <2>1 DEF PhaseInv, CountInv, TypeOK
  <2>3. ASSUME NEW x \in Convs, x # c PROVE Stored(x)' = Stored(x) /\ Claimed(x)' = Claimed(x)
    BY <2>1, <2>2, <2>3, OthersKeep
  <2>4. Claimed(c)' = 0 BY <2>2 DEF Claimed
  <2>5. Withdraws(c) BY <2>1, <2>3, <2>4 DEF Withdraws
  <2> QED BY <2>1, <2>5, LedgerSteps
<1>6. ASSUME NEW n \in 1 .. MaxHistory, FetchPage(n) PROVE LedgerNext
  <2>1. job # None /\ UNCHANGED <<hist, row, file, links>>
    BY <1>6 DEF FetchPage, server, disk, PhaseInv, CountInv, CountsFit
  <2>2. job' # None /\ job'.entry = job.entry /\ job'.target = job.target
    BY <1>6, <2>1, JobFields DEF FetchPage, Jobs, PhaseInv, CountInv, CountsFit
  <2>3. Stands BY <2>1, <2>2 DEF Stands, Stored, Held, Place, Claimed
  <2> QED BY <2>3, LedgerSteps
<1>7. ASSUME job # None, Conv \in Convs, UNCHANGED <<hist, row>>, job' = None \/ Conv' = Conv,
             \A d \in DirNames : pc = "fetch" \/ d # job.target =>
                                   file'[d] = file[d] /\ links'[d] = links[d]
      PROVE  LedgerNext
  <2>1. ASSUME NEW x \in Convs, x # Conv PROVE Stored(x)' = Stored(x)
    BY <1>7, <2>1, OthersKeep
  <2>2. ASSUME NEW x \in Convs PROVE Claimed(x)' = Claimed(x)
    BY <1>7 DEF Claimed
  <2>3. Stores(Conv) BY <1>7, <2>1, <2>2 DEF Stores
  <2> QED BY <1>7, <2>3, LedgerSteps
<1>8. CASE EndFetch
  <2>1. job # None /\ Conv \in Convs /\ UNCHANGED <<hist, row, file, links>>
    BY <1>8, JobFields DEF EndFetch, server, disk, PhaseInv, CountInv, CountsFit
  <2>2. job'.entry = job.entry
    BY <1>8, <2>1, JobFields DEF EndFetch, Jobs, PhaseInv
  <2> QED BY <1>7, <2>1, <2>2 DEF Conv
<1>9. CASE AppendMessages
  <2>1. /\ job # None /\ pc # "fetch" /\ Conv \in Convs /\ UNCHANGED <<hist, row, links>>
        /\ file' = [file EXCEPT ![job.target] = Extended]
    BY <1>9, JobFields DEF AppendMessages, server, PhaseInv, CountInv, CountsFit
  <2>2. job'.entry = job.entry
    BY <1>9, <2>1, JobFields DEF AppendMessages, Jobs, PhaseInv
  <2>3. Conv' = Conv BY <2>2 DEF Conv
  <2>4. \A d \in DirNames : d # job.target => file'[d] = file[d] /\ links'[d] = links[d]
    BY <2>1 DEF PhaseInv, CountInv, TypeOK
  <2> QED BY <1>7, <2>1, <2>3, <2>4
<1>10. CASE RefuseTail
  <2>1. /\ job # None /\ Conv \in Convs /\ UNCHANGED <<hist, row, file, links>> /\ job' = None
    BY <1>10, JobFields DEF RefuseTail, server, disk, PhaseInv, CountInv, CountsFit
  <2> QED BY <1>7, <2>1
<1>11. CASE MakeDirectory
  BY <1>1, <1>11 DEF MakeDirectory, server
<1>12. CASE WritePayload
  BY <1>1, <1>12 DEF WritePayload, server
<1>13. CASE WriteHistory
  <2>1. /\ job # None /\ pc # "fetch" /\ Conv \in Convs /\ UNCHANGED <<hist, row, links>>
        /\ file' = [file EXCEPT ![job.target] = job.got]
    BY <1>13, JobFields DEF WriteHistory, server, PhaseInv, CountInv, CountsFit
  <2>2. job'.entry = job.entry
    BY <1>13, <2>1, JobFields DEF WriteHistory, Jobs, PhaseInv
  <2>3. Conv' = Conv BY <2>2 DEF Conv
  <2>4. \A d \in DirNames : d # job.target => file'[d] = file[d] /\ links'[d] = links[d]
    BY <2>1 DEF PhaseInv, CountInv, TypeOK
  <2> QED BY <1>7, <2>1, <2>3, <2>4
<1>14. ASSUME NEW m \in Messages, LinkAttachments(m) PROVE LedgerNext
  <2>1. /\ job # None /\ pc # "fetch" /\ Conv \in Convs /\ UNCHANGED <<hist, row, file>>
        /\ links' = [links EXCEPT ![job.target] = @ \cup {m}]
    BY <1>14, JobFields DEF LinkAttachments, server, PhaseInv, CountInv, CountsFit
  <2>2. job'.entry = job.entry
    BY <1>14, <2>1, JobFields DEF LinkAttachments, Jobs, PhaseInv
  <2>3. Conv' = Conv BY <2>2 DEF Conv
  <2>4. \A d \in DirNames : d # job.target => file'[d] = file[d] /\ links'[d] = links[d]
    BY <2>1 DEF PhaseInv, CountInv, TypeOK
  <2> QED BY <1>7, <2>1, <2>3, <2>4
<1>14a. ASSUME NEW m \in Messages, UnlinkAttachments(m) PROVE LedgerNext
  <2>1. /\ job # None /\ pc # "fetch" /\ Conv \in Convs /\ UNCHANGED <<hist, row, file, job>>
        /\ links' = [links EXCEPT ![job.target] = @ \ {m}]
    BY <1>14a, JobFields DEF UnlinkAttachments, server, PhaseInv, CountInv, CountsFit
  <2>2. \A d \in DirNames : d # job.target => file'[d] = file[d] /\ links'[d] = links[d]
    BY <2>1 DEF PhaseInv, CountInv, TypeOK
  <2> QED BY <1>7, <2>1, <2>2 DEF Conv
<1>15. CASE RecordConversation
  <2>1. /\ job # None /\ pc = "attach" /\ job.todo = {} /\ Conv \in Convs /\ job.target \in DirNames
        /\ row' = [row EXCEPT ![Conv] = RecordedRow] /\ job' = None
        /\ UNCHANGED <<hist, file, links>> /\ job.offset \in Nat
    BY <1>15, JobFields
    DEF RecordConversation, AllLinked, server, disk, PhaseInv, CountInv, CountsFit
  <2>2. HistoryIsWritten /\ BindingIsSound /\ TargetIsSound
    BY <2>1 DEF PhaseInv, DiskInv, JobIsSound
  <2>c. PICK c \in Convs : c = Conv BY <2>1
  <2>3. /\ row'[c] # None /\ row'[c].dir = job.target /\ row'[c].count = job.offset
        /\ \A x \in Convs : x # c => row'[x] = row[x]
    <3>1. RecordedRow \in Rows BY <2>1, JobFields DEF RecordedRow, Rows, PhaseInv
    <3> QED BY <2>1, <2>2, <2>c, <3>1 DEF RecordedRow, HistoryIsWritten, PhaseInv, CountInv, TypeOK
  <2>4. Place(c) = job.target /\ Place(c)' = job.target
    BY <2>1, <2>2, <2>c, <2>3 DEF Place, Conv, BindingIsSound, TargetIsSound
  <2>5. Stored(c)' = Stored(c) BY <2>1, <2>4 DEF Stored, Held
  <2>6. Held(c) = History(c, job.offset)
    <3>1. file[job.target] = History(c, job.offset) /\ History(c, job.offset) \subseteq links[job.target]
      BY <2>1, <2>2, <2>c DEF HistoryIsWritten
    <3>2. \A m \in History(c, job.offset) : m[1] = c BY DEF History
    <3> QED BY <2>4, <3>1, <3>2 DEF Held
  <2>7. Claimed(c)' = Stored(c)
    BY <2>1, <2>3, <2>4, <2>6, WholeHistorySize DEF Claimed, Stored
  <2>8. ASSUME NEW x \in Convs, x # c PROVE Stored(x)' = Stored(x) /\ Claimed(x)' = Claimed(x)
    BY <2>1, <2>c, <2>3, <2>8, OthersKeep
  <2>9. Claims(c) BY <2>1, <2>5, <2>7, <2>8 DEF Claims
  <2> QED BY <2>1, <2>9, LedgerSteps
<1>16. CASE Interrupt
  <2>1. UNCHANGED <<hist, row, file, links>> /\ job' = None
    BY <1>16 DEF Interrupt, server, disk
  <2>2. CASE job = None BY <1>1, <2>1, <2>2
  <2>3. CASE job # None
    <3>1. Conv \in Convs BY <2>3, JobFields DEF PhaseInv
    <3> QED BY <1>7, <2>1, <2>3, <3>1
  <2> QED BY <2>2, <2>3
<1>17. CASE Environment
  BY <1>2, <1>3, <1>17 DEF Environment
<1>18. CASE Process
  BY <1>1, <1>4, <1>5, <1>6, <1>8, <1>9, <1>10, <1>11, <1>12, <1>13, <1>14, <1>14a, <1>15, <1>18
  DEF Process, ListPage, EndWalk, SkipConversation, server, disk
<1> QED
  BY <1>1, <1>16, <1>17, <1>18 DEF Next, StartRun, server, disk, vars

(* The whole run is an implementation of the ledger: every step publishes, *)
(* stores, claims or withdraws for one conversation, or changes nothing    *)
(* the ledger shows (run_messages, upsert_conversation,                    *)
(* delete_conversation).                                                   *)
THEOREM RunImplementsLedger == MaxDeletions = 0 => (Spec => ImplementsLedger)
<1> SUFFICES ASSUME MaxDeletions = 0 PROVE Spec => ImplementsLedger
  OBVIOUS
<1>1. Init => Ledger!Init
  BY ConstantsAssumption, NoneAssumption DEF Init, Ledger!Init, Place
<1>2. PhaseInv => StoredIsBetween BY StoredBetween
<1>3. PhaseInv /\ PhaseInv' /\ StoredIsBetween /\ StoredIsBetween' /\ [Next]_vars => LedgerNext
  BY RunStepsAreLedgerSteps
<1>4. LedgerNext => [Ledger!Next]_(Ledger!ledger)
  BY DEF LedgerNext, Ledger!ledger, Stored, Claimed, Held
<1>5. CountInv /\ DiskInv /\ TargetIsChosen /\ UninterruptedIsSound => PhaseInv
  BY DEF PhaseInv
<1> QED BY <1>1, <1>2, <1>3, <1>4, <1>5, PhaseAlways, PTL DEF Spec, ImplementsLedger, Ledger!Spec

=============================================================================
