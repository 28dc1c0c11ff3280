-------------------------- MODULE AtomicFileProofs --------------------------
(* As many calls, chunks and power cuts as you like, overlapping or not:   *)
(* the file is whole as long as no calls overlapped, and a call that had   *)
(* the file to itself leaves its own content, which a row may then claim.  *)
EXTENDS RecordedFile, TLAPS

Settled(i) == (\E w \in Writers : Holds(i, w)) /\ durable[i] = cached[i]

(* The three names lead to different inodes, and never to the one of a     *)
(* call that has not begun.                                                *)
NamesApart ==
  /\ target # None => target # tmp /\ target # before
  /\ before # None => before # tmp
  /\ \A w \in Writers : pc[w] = "new" =>
       w \notin {target, tmp, before} /\ alone[w] /\ pos[w] = 0
  /\ \A w \in Writers : IsUnder(w) => fd[w] \in Writers

(* A call under way and alone so far writes the .tmp from its beginning on.*)
AloneIsSound ==
  \A w \in Writers : IsUnder(w) /\ alone[w] =>
    /\ \A v \in Writers : IsUnder(v) => v = w
    /\ tmp # None /\ fd[w] = tmp
    /\ \A k \in 1 .. pos[w] : cached[tmp][k] = w
    /\ pc[w] = "synced" => pos[w] = Chunks /\ durable[tmp] = cached[tmp]

(* What such a call has left in the file, nobody has open any more.        *)
SavedIsSafe ==
  saved # None /\ alone[saved] =>
    /\ pc[saved] = "ok" /\ target # None /\ Holds(target, saved)
    /\ \A v \in Writers : IsUnder(v) => fd[v] # target

(* And if no calls overlapped, the file before the last rename was whole   *)
(* and on the medium as well.                                              *)
FilesAreSettled ==
  (\A w \in Writers : alone[w]) =>
    /\ target # None => Settled(target)
    /\ before # None => Settled(before)

IInv == TypeOK /\ NamesApart /\ AloneIsSound /\ SavedIsSafe /\ FilesAreSettled

LEMMA Initially == Init => IInv
  BY ConstantsAssumption
  DEF Init, IInv, TypeOK, NamesApart, AloneIsSound, SavedIsSafe, FilesAreSettled,
      IsUnder, Under, Empty, Contents

LEMMA Step == IInv /\ [Next]_vars => IInv'
<1> SUFFICES ASSUME IInv, [Next]_vars PROVE IInv'
  OBVIOUS
<1> USE ConstantsAssumption DEF Under, IsUnder
<1>1. ASSUME NEW w \in Writers, OpenTmp(w) PROVE IInv'
  <2> DEFINE i == fd'[w]
  <2>1. /\ pc[w] = "new"
        /\ fd' = [fd EXCEPT ![w] = i] /\ i = IF tmp = None THEN w ELSE tmp
        /\ tmp' = i /\ i \in Writers
        /\ cached' = [cached EXCEPT ![i] = Empty]
        /\ pc' = [pc EXCEPT ![w] = "write"]
        /\ alone' = [v \in Writers |->
             IF v = w THEN \A u \in Writers : ~IsUnder(u) ELSE alone[v] /\ ~IsUnder(v)]
        /\ UNCHANGED <<target, before, durable, pos, saved, powerCuts>>
    BY <1>1 DEF OpenTmp, IInv, TypeOK
  <2> HIDE DEF i
  <2>2. i # target /\ i # before
    BY <2>1 DEF IInv, NamesApart, TypeOK
  <2>3. TypeOK' BY <2>1 DEF IInv, TypeOK, Contents, Empty
  <2>4. \A j \in Writers : j # i => cached'[j] = cached[j] /\ durable'[j] = durable[j]
    BY <2>1 DEF IInv, TypeOK
  <2>5. NamesApart'
    BY <2>1, <2>2 DEF IInv, TypeOK, NamesApart
  <2>6. AloneIsSound'
    <3> SUFFICES ASSUME NEW v \in Writers, IsUnder(v)', alone'[v]
                 PROVE /\ \A u \in Writers : IsUnder(u)' => u = v
                       /\ tmp' # None /\ fd'[v] = tmp'
                       /\ \A k \in 1 .. pos'[v] : cached'[tmp'][k] = v
                       /\ pc'[v] # "synced"
      BY DEF AloneIsSound
    <3>1. v = w BY <2>1 DEF IInv, TypeOK
    <3>2. \A u \in Writers : u # w => ~IsUnder(u)' BY <2>1, <3>1 DEF IInv, TypeOK
    <3>3. pos'[w] = 0 /\ 1 .. 0 = {} BY <2>1 DEF IInv, NamesApart
    <3>4. pc'[w] = "write" /\ fd'[w] = i BY <2>1 DEF IInv, TypeOK
    <3> QED BY <2>1, <3>1, <3>2, <3>3, <3>4
  <2>7. SavedIsSafe'
    <3> SUFFICES ASSUME saved # None, alone'[saved] PROVE SavedIsSafe'
      BY <2>1 DEF SavedIsSafe
    <3>1. saved \in Writers /\ saved # w /\ alone[saved]
      <4>1. saved \in Writers BY DEF IInv, TypeOK
      <4>2. CASE saved = w
        BY <2>1, <4>1, <4>2 DEF IInv, NamesApart, SavedIsSafe
      <4> QED BY <2>1, <4>1, <4>2
    <3>2. pc[saved] = "ok" /\ target # None /\ Holds(target, saved)
          /\ \A v \in Writers : IsUnder(v) => fd[v] # target
      BY <3>1 DEF IInv, SavedIsSafe
    <3>3. target \in Writers /\ target # i BY <2>2, <3>2 DEF IInv, TypeOK
    <3>4. Holds(target, saved)' BY <2>1, <2>4, <3>2, <3>3 DEF Holds
    <3>5. pc'[saved] = "ok" BY <2>1, <3>1, <3>2 DEF IInv, TypeOK
    <3>6. \A v \in Writers : IsUnder(v)' => fd'[v] # target
      BY <2>1, <3>2, <3>3 DEF IInv, TypeOK
    <3> QED BY <2>1, <3>2, <3>4, <3>5, <3>6 DEF SavedIsSafe
  <2>8. FilesAreSettled'
    <3> SUFFICES ASSUME \A v \in Writers : alone'[v] PROVE FilesAreSettled'
      BY DEF FilesAreSettled
    <3>1. \A v \in Writers : alone[v] BY <2>1 DEF IInv, NamesApart
    <3> QED BY <2>1, <2>2, <2>4, <3>1 DEF IInv, TypeOK, FilesAreSettled, Settled, Holds
  <2> QED BY <2>3, <2>5, <2>6, <2>7, <2>8 DEF IInv
<1>2. ASSUME NEW w \in Writers, WriteChunk(w) PROVE IInv'
  <2> DEFINE n == pos[w] + 1
  <2> DEFINE i == fd[w]
  <2>1. /\ pc[w] = "write" /\ n \in 1 .. Chunks /\ pos[w] \in Nat /\ i \in Writers
        /\ pos' = [pos EXCEPT ![w] = n]
        /\ cached' = [cached EXCEPT ![i] = [@ EXCEPT ![n] = w]]
        /\ UNCHANGED <<names, durable, pc, fd, alone, saved, powerCuts>>
    <3>1. /\ pc[w] = "write" /\ pos[w] < Chunks /\ pos' = [pos EXCEPT ![w] = @ + 1]
          /\ cached' = [cached EXCEPT ![fd[w]][pos'[w]] = w]
          /\ UNCHANGED <<names, durable, pc, fd, alone, saved, powerCuts>>
      BY <1>2 DEF WriteChunk
    <3>2. pos \in [Writers -> 0 .. Chunks] /\ fd[w] \in Writers
      BY <3>1 DEF IInv, TypeOK, NamesApart
    <3>3. pos[w] \in Nat /\ n \in 1 .. Chunks /\ pos'[w] = n /\ pos' = [pos EXCEPT ![w] = n]
      BY <3>1, <3>2
    <3> QED BY <3>1, <3>2, <3>3
  <2> HIDE DEF i
  <2>2. TypeOK' BY <2>1 DEF names, IInv, TypeOK, Contents
  <2>3. /\ \A j \in Writers : j # i => cached'[j] = cached[j]
        /\ \A k \in 1 .. Chunks : cached'[i][k] = IF k = n THEN w ELSE cached[i][k]
    BY <2>1 DEF IInv, TypeOK, Contents
  <2>4. NamesApart' BY <2>1 DEF names, IInv, TypeOK, NamesApart
  <2>5. AloneIsSound'
    <3> SUFFICES ASSUME NEW v \in Writers, IsUnder(v), alone[v]
                 PROVE /\ \A u \in Writers : IsUnder(u) => u = v
                       /\ tmp # None /\ fd[v] = tmp
                       /\ \A k \in 1 .. pos'[v] : cached'[tmp][k] = v
                       /\ pc[v] = "synced" => pos'[v] = Chunks /\ durable[tmp] = cached'[tmp]
      BY <2>1 DEF names, AloneIsSound
    <3>1. v = w /\ fd[v] = tmp /\ tmp # None /\ i = tmp
          /\ \A u \in Writers : IsUnder(u) => u = v
          /\ \A k \in 1 .. pos[w] : cached[tmp][k] = w
      BY <2>1 DEF IInv, AloneIsSound, i
    <3>2. \A k \in 1 .. n : k \in 1 .. Chunks /\ (k = n \/ k \in 1 .. pos[w])
      BY <2>1 DEF IInv, TypeOK
    <3>3. pos'[w] = n BY <2>1 DEF IInv, TypeOK
    <3> QED BY <2>1, <2>3, <3>1, <3>2, <3>3
  <2>6. SavedIsSafe'
    BY <2>1, <2>3 DEF names, IInv, TypeOK, SavedIsSafe, Holds, i
  <2>7. FilesAreSettled'
    <3> SUFFICES ASSUME \A v \in Writers : alone[v] PROVE FilesAreSettled'
      BY <2>1 DEF FilesAreSettled
    <3>1. i = tmp /\ i # target /\ i # before
      BY <2>1 DEF IInv, NamesApart, AloneIsSound, TypeOK, i
    <3> QED BY <2>1, <2>3, <3>1 DEF names, IInv, TypeOK, FilesAreSettled, Settled, Holds
  <2> QED BY <2>2, <2>4, <2>5, <2>6, <2>7 DEF IInv
<1>3. ASSUME NEW w \in Writers, Fsync(w) PROVE IInv'
  <2>1. /\ pc[w] = "write" /\ pos[w] = Chunks /\ fd[w] \in Writers
        /\ durable' = [durable EXCEPT ![fd[w]] = cached[fd[w]]]
        /\ pc' = [pc EXCEPT ![w] = "synced"]
        /\ UNCHANGED <<names, cached, fd, pos, alone, saved, powerCuts>>
    BY <1>3 DEF Fsync, AllWritten, Fsynced, IInv, TypeOK, NamesApart
  <2>2. TypeOK' BY <2>1 DEF names, IInv, TypeOK
  <2>3. NamesApart' BY <2>1 DEF names, IInv, TypeOK, NamesApart
  <2>4. AloneIsSound' BY <2>1 DEF names, IInv, TypeOK, AloneIsSound
  <2>5. SavedIsSafe' BY <2>1 DEF names, IInv, TypeOK, SavedIsSafe, Holds
  <2>6. FilesAreSettled' BY <2>1 DEF names, IInv, TypeOK, FilesAreSettled, Settled, Holds
  <2> QED BY <2>2, <2>3, <2>4, <2>5, <2>6 DEF IInv
<1>4. ASSUME NEW w \in Writers, Replace(w) PROVE IInv'
  <2>1. /\ pc[w] = "synced" /\ tmp \in Writers
        /\ target' = tmp /\ tmp' = None /\ before' = target
        /\ pc' = [pc EXCEPT ![w] = "ok"] /\ saved' = w
        /\ UNCHANGED <<cached, durable, fd, pos, alone, powerCuts>>
    BY <1>4 DEF Replace, IInv, TypeOK
  <2>2. alone[w] => Holds(tmp, w) /\ durable[tmp] = cached[tmp]
                    /\ \A v \in Writers : IsUnder(v) => v = w
    BY <2>1 DEF IInv, AloneIsSound, Holds
  <2>3. TypeOK' BY <2>1 DEF IInv, TypeOK
  <2>4. NamesApart' BY <2>1 DEF IInv, TypeOK, NamesApart
  <2>5. AloneIsSound' BY <2>1 DEF IInv, TypeOK, AloneIsSound
  <2>6. SavedIsSafe' BY <2>1, <2>2 DEF IInv, TypeOK, SavedIsSafe, Holds
  <2>7. FilesAreSettled' BY <2>1, <2>2 DEF IInv, TypeOK, FilesAreSettled, Settled, Holds
  <2> QED BY <2>3, <2>4, <2>5, <2>6, <2>7 DEF IInv
<1>5. ASSUME NEW w \in Writers, Fail(w) PROVE IInv'
  <2>1. /\ pc[w] \in Under /\ pc' = [pc EXCEPT ![w] = "failed"]
        /\ UNCHANGED <<names, cached, durable, fd, pos, alone, saved, powerCuts>>
    BY <1>5 DEF Fail
  <2>2. TypeOK' BY <2>1 DEF names, IInv, TypeOK
  <2>3. NamesApart' BY <2>1 DEF names, IInv, TypeOK, NamesApart
  <2>4. AloneIsSound' BY <2>1 DEF names, IInv, TypeOK, AloneIsSound
  <2>5. SavedIsSafe' BY <2>1 DEF names, IInv, TypeOK, SavedIsSafe, Holds
  <2>6. FilesAreSettled' BY <2>1 DEF names, IInv, TypeOK, FilesAreSettled, Settled, Holds
  <2> QED BY <2>2, <2>3, <2>4, <2>5, <2>6 DEF IInv
<1>6. CASE PowerCut
  <2>1. /\ powerCuts < MaxPowerCuts /\ powerCuts' = powerCuts + 1
        /\ UNCHANGED <<target, tmp>> \/ (target' = before /\ tmp' = target)
        /\ before' = None /\ saved' = None
        /\ \A i \in Writers : cached'[i] \in {cached[i], durable[i]}
        /\ cached' \in [Writers -> Contents] /\ durable' = cached'
        /\ pc' = [w \in Writers |-> IF pc[w] \in Under THEN "failed" ELSE pc[w]]
        /\ UNCHANGED <<fd, pos, alone>>
    BY <1>6 DEF PowerCut, IInv, TypeOK
  <2>2. TypeOK' BY <2>1 DEF IInv, TypeOK
  <2>3. \A i \in Writers : Settled(i) => Settled(i)'
    BY <2>1 DEF Settled, Holds
  <2>4. NamesApart' BY <2>1 DEF IInv, TypeOK, NamesApart
  <2>5. AloneIsSound' BY <2>1 DEF AloneIsSound
  <2>6. SavedIsSafe' BY <2>1 DEF SavedIsSafe
  <2>7. FilesAreSettled' BY <2>1, <2>3 DEF IInv, TypeOK, FilesAreSettled
  <2> QED BY <2>2, <2>4, <2>5, <2>6, <2>7 DEF IInv
<1>7. CASE UNCHANGED vars
  BY <1>7 DEF vars, names, IInv, TypeOK, NamesApart, AloneIsSound, SavedIsSafe,
     FilesAreSettled, Settled, Holds
<1> QED BY <1>1, <1>2, <1>3, <1>4, <1>5, <1>6, <1>7 DEF Next

(* A replacement is atomic as long as calls do not overlap: a reader finds *)
(* the whole content of one call (save_session, _write_bytes).             *)
THEOREM FileIsAlwaysWhole == Spec => []FileIsWhole
<1>1. IInv => FileIsWhole
  BY DEF IInv, FilesAreSettled, Settled, FileIsWhole
<1> QED BY <1>1, Initially, Step, PTL DEF Spec

(* And a call that had the file to itself finds its own content in it,     *)
(* whatever calls overlapped before (save_session, _write_bytes).          *)
THEOREM SavedIsAlwaysThere == Spec => []SavedIsThere
<1>1. IInv => SavedIsThere BY DEF IInv, SavedIsSafe, SavedIsThere
<1> QED BY <1>1, Initially, Step, PTL DEF Spec

-----------------------------------------------------------------------------
(* What a call alone has left in the file is on the medium; a call whose   *)
(* row is committed has returned Ok; and nobody but the last call can be   *)
(* under way, if that one found nobody under way.                          *)
SavedIsDurable ==
  /\ saved # None => pc[saved] = "ok"
  /\ saved # None /\ alone[saved] => durable[target] = cached[target]

LastIsAlone ==
  /\ last \in Writers \cup {None}
  /\ last # None => pc[last] # "new"
  /\ last # None /\ alone[last] => \A v \in Writers : IsUnder(v) => v = last

(* So a claim stays where the rename put it until a power cut, which may   *)
(* undo the rename once and not again.                                     *)
SafeAt(i) == i # None /\ Holds(i, row) /\ durable[i] = cached[i]

ClaimIsSafe ==
  /\ row \in Writers \cup {None}
  /\ row # None => pc[row] = "ok"
  /\ row # None /\ alone[row] /\ row = last =>
       \/ saved = row /\ SafeAt(target)
       \/ saved = None /\ (SafeAt(target) \/ SafeAt(tmp))

RInv == IInv /\ SavedIsDurable /\ LastIsAlone /\ ClaimIsSafe

LEMMA RInitially == RInit => RInv
  BY Initially, ConstantsAssumption
  DEF RInit, Init, RInv, SavedIsDurable, LastIsAlone, ClaimIsSafe, IsUnder, Under

LEMMA DurableStep == IInv /\ SavedIsDurable /\ [Next]_vars => SavedIsDurable'
<1> SUFFICES ASSUME IInv, SavedIsDurable, [Next]_vars PROVE SavedIsDurable'
  OBVIOUS
<1> USE ConstantsAssumption DEF Under, IsUnder, SavedIsDurable
<1>0. /\ saved \in Writers \cup {None} /\ pc \in [Writers -> {"new", "write", "synced", "ok", "failed"}]
      /\ target \in Writers \cup {None} /\ tmp \in Writers \cup {None}
      /\ cached \in [Writers -> Contents] /\ durable \in [Writers -> Contents]
      /\ saved # None /\ alone[saved] =>
           target # None /\ \A v \in Writers : IsUnder(v) => fd[v] # target
  BY DEF IInv, TypeOK, SavedIsSafe
<1>1. ASSUME NEW w \in Writers, OpenTmp(w) PROVE SavedIsDurable'
  <2> DEFINE i == fd'[w]
  <2>1. /\ pc[w] = "new" /\ tmp' = i /\ i \in Writers
        /\ i = IF tmp = None THEN w ELSE tmp
        /\ cached' = [cached EXCEPT ![i] = Empty] /\ pc' = [pc EXCEPT ![w] = "write"]
        /\ alone' = [v \in Writers |->
             IF v = w THEN \A u \in Writers : ~IsUnder(u) ELSE alone[v] /\ ~IsUnder(v)]
        /\ UNCHANGED <<target, durable, saved>>
    BY <1>1 DEF OpenTmp, IInv, TypeOK
  <2> HIDE DEF i
  <2>2. saved # None => saved # w /\ pc'[saved] = "ok"
    BY <1>0, <2>1
  <2>3. i # target
    BY <2>1 DEF IInv, NamesApart, TypeOK
  <2>4. saved # None /\ alone'[saved] => durable'[target] = cached'[target]
    BY <1>0, <2>1, <2>2, <2>3
  <2> QED BY <2>1, <2>2, <2>4
<1>2. ASSUME NEW w \in Writers, WriteChunk(w) PROVE SavedIsDurable'
  <2>1. /\ pc[w] = "write" /\ \A j \in Writers : j # fd[w] => cached'[j] = cached[j]
        /\ UNCHANGED <<target, durable, saved, pc, alone>>
    BY <1>0, <1>2 DEF WriteChunk, names
  <2> QED BY <1>0, <2>1
<1>3. ASSUME NEW w \in Writers, Fsync(w) PROVE SavedIsDurable'
  BY <1>0, <1>3 DEF Fsync, Fsynced, names
<1>4. ASSUME NEW w \in Writers, Replace(w) PROVE SavedIsDurable'
  <2>1. /\ pc[w] = "synced" /\ target' = tmp /\ pc'[w] = "ok" /\ saved' = w
        /\ UNCHANGED <<cached, durable, alone>>
    BY <1>0, <1>4 DEF Replace
  <2>2. alone[w] => durable[tmp] = cached[tmp]
    BY <2>1 DEF IInv, AloneIsSound
  <2> QED BY <2>1, <2>2
<1>5. ASSUME NEW w \in Writers, Fail(w) PROVE SavedIsDurable'
  BY <1>0, <1>5 DEF Fail, names
<1>6. CASE PowerCut
  BY <1>6 DEF PowerCut
<1>7. CASE UNCHANGED vars
  BY <1>7 DEF vars, names
<1> QED BY <1>1, <1>2, <1>3, <1>4, <1>5, <1>6, <1>7 DEF Next

LEMMA LastStep == IInv /\ LastIsAlone /\ [RNext]_allVars => LastIsAlone'
<1> SUFFICES ASSUME IInv, LastIsAlone, [RNext]_allVars PROVE LastIsAlone'
  OBVIOUS
<1> USE ConstantsAssumption DEF Under, IsUnder, LastIsAlone
<1>0. pc \in [Writers -> {"new", "write", "synced", "ok", "failed"}] /\ alone \in [Writers -> BOOLEAN]
  BY DEF IInv, TypeOK
<1>1. ASSUME NEW w \in Writers, OpenTmp(w), last' = w PROVE LastIsAlone'
  <2>1. /\ pc' = [pc EXCEPT ![w] = "write"]
        /\ alone'[w] = \A u \in Writers : ~IsUnder(u)
    BY <1>1 DEF OpenTmp
  <2> QED BY <1>0, <1>1, <2>1
<1>2. ASSUME UNCHANGED <<last, alone>>, \A v \in Writers : pc'[v] = "new" <=> pc[v] = "new",
             \A v \in Writers : IsUnder(v)' => IsUnder(v)
      PROVE  LastIsAlone'
  BY <1>2
<1>3. ASSUME NEW w \in Writers, WriteChunk(w) \/ Fsync(w) \/ Replace(w) \/ Fail(w), UNCHANGED last
      PROVE  LastIsAlone'
  <2>1. UNCHANGED alone /\ pc[w] \in Under /\ pc'[w] # "new"
        /\ \A v \in Writers : v # w => pc'[v] = pc[v]
    BY <1>0, <1>3 DEF WriteChunk, Fsync, Replace, Fail
  <2> QED BY <1>2, <1>3, <2>1
<1>4. ASSUME PowerCut, UNCHANGED last PROVE LastIsAlone'
  BY <1>0, <1>2, <1>4 DEF PowerCut
<1>5. ASSUME UNCHANGED vars, UNCHANGED last PROVE LastIsAlone'
  BY <1>2, <1>5 DEF vars
<1> QED BY <1>1, <1>3, <1>4, <1>5 DEF RNext, FileStep, Upsert, allVars, record

LEMMA ClaimStep == RInv /\ [RNext]_allVars => ClaimIsSafe'
<1> SUFFICES ASSUME RInv, [RNext]_allVars PROVE ClaimIsSafe'
  OBVIOUS
<1> USE ConstantsAssumption DEF Under, IsUnder
<1>0. /\ saved \in Writers \cup {None} /\ pc \in [Writers -> {"new", "write", "synced", "ok", "failed"}]
      /\ target \in Writers \cup {None} /\ tmp \in Writers \cup {None}
      /\ cached \in [Writers -> Contents] /\ durable \in [Writers -> Contents]
      /\ ClaimIsSafe
  BY DEF RInv, IInv, TypeOK
(* Nobody is under way beside a call that has returned and was the last.   *)
<1>1. ASSUME row # None, alone[row], row = last, NEW v \in Writers PROVE ~IsUnder(v)
  BY <1>0, <1>1 DEF RInv, LastIsAlone, ClaimIsSafe
<1>2. ASSUME NEW w \in Writers, OpenTmp(w), last' = w, UNCHANGED row PROVE ClaimIsSafe'
  <2>1. pc[w] = "new" /\ \A v \in Writers : v # w => pc'[v] = pc[v]
    BY <1>0, <1>2 DEF OpenTmp
  <2> QED BY <1>0, <1>2, <2>1 DEF ClaimIsSafe
<1>3. ASSUME NEW w \in Writers, WriteChunk(w) \/ Fsync(w) \/ Replace(w) \/ Fail(w),
             UNCHANGED <<row, last>>
      PROVE  ClaimIsSafe'
  <2>1. IsUnder(w) /\ UNCHANGED alone /\ \A v \in Writers : v # w => pc'[v] = pc[v]
    BY <1>0, <1>3 DEF WriteChunk, Fsync, Replace, Fail
  <2> QED BY <1>0, <1>1, <1>3, <2>1 DEF ClaimIsSafe
<1>4. ASSUME PowerCut, UNCHANGED <<row, last>> PROVE ClaimIsSafe'
  <2>1. /\ UNCHANGED <<target, tmp>> \/ (saved # None /\ target' = before /\ tmp' = target)
        /\ saved' = None /\ UNCHANGED alone
        /\ \A i \in Writers : cached'[i] \in {cached[i], durable[i]}
        /\ durable' = cached'
        /\ \A v \in Writers : pc[v] = "ok" => pc'[v] = "ok"
    BY <1>4 DEF PowerCut
  <2>2. ASSUME NEW i \in Writers, Holds(i, row), durable[i] = cached[i]
        PROVE  Holds(i, row)' /\ durable'[i] = cached'[i]
    BY <1>4, <2>1, <2>2 DEF Holds
  <2>3. row # None /\ alone[row] /\ row = last => SafeAt(target)' \/ SafeAt(tmp)'
    <3>1. CASE saved = row /\ SafeAt(target)
      BY <1>0, <2>1, <2>2, <3>1 DEF SafeAt
    <3>2. CASE saved = None /\ (SafeAt(target) \/ SafeAt(tmp))
      BY <1>0, <2>1, <2>2, <3>2 DEF SafeAt
    <3> QED BY <1>0, <3>1, <3>2 DEF ClaimIsSafe
  <2> QED BY <1>0, <1>4, <2>1, <2>3 DEF ClaimIsSafe
<1>5. ASSUME NEW w \in Writers, Upsert(w) PROVE ClaimIsSafe'
  <2>1. saved = w /\ row' = w /\ UNCHANGED vars /\ last' = last
    BY <1>5 DEF Upsert, Commits
  <2>2. pc[w] = "ok" /\ (alone[w] => target # None /\ Holds(target, w) /\ durable[target] = cached[target])
    BY <2>1 DEF RInv, SavedIsDurable, IInv, SavedIsSafe
  <2> QED BY <2>1, <2>2 DEF ClaimIsSafe, SafeAt, Holds, vars, names
<1>6. ASSUME UNCHANGED allVars PROVE ClaimIsSafe'
  BY <1>0, <1>6 DEF allVars, vars, names, record, ClaimIsSafe, SafeAt, Holds
<1> QED BY <1>2, <1>3, <1>4, <1>5, <1>6 DEF RNext, FileStep

(* What a row claims survives every power cut, in the file or beside it,   *)
(* until the next call begins (_write_bytes, upsert).                      *)
THEOREM ClaimAlwaysSurvives == RSpec => []ClaimSurvives
<1>1. [RNext]_allVars => [Next]_vars
  BY DEF RNext, FileStep, Upsert, Next, allVars
<1>2. RInv /\ [RNext]_allVars => RInv'
  BY <1>1, Step, DurableStep, LastStep, ClaimStep DEF RInv
<1>3. RInv => ClaimSurvives
  BY DEF RInv, ClaimIsSafe, SafeAt, ClaimSurvives
<1> QED BY <1>2, <1>3, RInitially, PTL DEF RSpec

=============================================================================
