----------------------------- MODULE AtomicFile -----------------------------
(***************************************************************************)
(* How one file is replaced: save_session of session/store.py and          *)
(* _write_bytes of dump/writer.py, which take the same steps.  The new     *)
(* content goes to <name>.tmp, is fsynced, and the .tmp is renamed over    *)
(* the file.  Nothing keeps two processes from doing so at once, and the   *)
(* name of the .tmp is the same for both: the calls here overlap freely.   *)
(*                                                                         *)
(* An inode is named after the writer that created it; its content is, for *)
(* each chunk, the writer the chunk comes from, or None for a hole or an   *)
(* end of file.                                                            *)
(***************************************************************************)
EXTENDS Naturals

CONSTANTS
  Writers,       \* one for each call
  Chunks,        \* os.write calls a content takes
  MaxPowerCuts,  \* bound on the power cuts
  None

ASSUME ConstantsAssumption ==
  /\ Chunks \in Nat \ {0} /\ MaxPowerCuts \in Nat /\ None \notin Writers

Contents == [1 .. Chunks -> Writers \cup {None}]
Empty == [k \in 1 .. Chunks |-> None]

VARIABLES
  target, tmp,  \* the inodes the two names lead to, or None
  before,       \* the inode target led to before the last rename
  cached,       \* the content of an inode
  durable,      \* the content that survives a power cut
  pc, fd, pos,  \* a call's phase, its open inode, the chunks it has written
  alone,        \* whether no other call was under way during it
  saved,        \* the last call that returned Ok since a power cut
  powerCuts

names == <<target, tmp, before>>
vars == <<names, cached, durable, pc, fd, pos, alone, saved, powerCuts>>

Under == {"write", "synced"}

Init ==
  /\ target = None /\ tmp = None /\ before = None
  /\ cached = [i \in Writers |-> Empty] /\ durable = [i \in Writers |-> Empty]
  /\ pc = [w \in Writers |-> "new"] /\ fd = [w \in Writers |-> None]
  /\ pos = [w \in Writers |-> 0] /\ alone = [w \in Writers |-> TRUE]
  /\ saved = None /\ powerCuts = 0

-----------------------------------------------------------------------------
IsUnder(w) == pc[w] \in Under

(* O_CREAT | O_TRUNC: a .tmp that somebody left or still writes is emptied.*)
OpenTmp(w) ==
  /\ pc[w] = "new"
  /\ fd' = [fd EXCEPT ![w] = IF tmp = None THEN w ELSE tmp]
  /\ tmp' = fd'[w]
  /\ cached' = [cached EXCEPT ![tmp'] = Empty]
  /\ pc' = [pc EXCEPT ![w] = "write"]
  /\ alone' = [v \in Writers |->
       IF v = w THEN \A u \in Writers : ~IsUnder(u) ELSE alone[v] /\ ~IsUnder(v)]
  /\ UNCHANGED <<target, before, durable, pos, saved, powerCuts>>

WriteChunk(w) ==
  /\ pc[w] = "write" /\ pos[w] < Chunks
  /\ pos' = [pos EXCEPT ![w] = @ + 1]
  /\ cached' = [cached EXCEPT ![fd[w]][pos'[w]] = w]
  /\ UNCHANGED <<names, durable, pc, fd, alone, saved, powerCuts>>

AllWrittenOnce(w) == pos[w] > 0
AllWritten(w) == pos[w] = Chunks

FsyncedNothing(w) == durable
Fsynced(w) == [durable EXCEPT ![fd[w]] = cached[fd[w]]]

Fsync(w) ==
  /\ pc[w] = "write" /\ AllWritten(w)
  /\ durable' = Fsynced(w)
  /\ pc' = [pc EXCEPT ![w] = "synced"]
  /\ UNCHANGED <<names, cached, fd, pos, alone, saved, powerCuts>>

Replace(w) ==
  /\ pc[w] = "synced" /\ tmp # None
  /\ target' = tmp /\ tmp' = None /\ before' = target
  /\ pc' = [pc EXCEPT ![w] = "ok"]
  /\ saved' = w
  /\ UNCHANGED <<cached, durable, fd, pos, alone, powerCuts>>

(* An OSError anywhere (a rename that finds no .tmp is one), or the end of *)
(* the process: the .tmp stays as it is.                                   *)
Fail(w) ==
  /\ pc[w] \in Under
  /\ pc' = [pc EXCEPT ![w] = "failed"]
  /\ UNCHANGED <<names, cached, durable, fd, pos, alone, saved, powerCuts>>

(* Nobody fsyncs the directory, so the last rename may be undone; content  *)
(* that was not fsynced may be there or not.  The entry of the .tmp itself *)
(* is kept, as file systems do that save a new file's name along with its  *)
(* fsync, although POSIX does not ask for it.                              *)
PowerCut ==
  /\ powerCuts < MaxPowerCuts
  /\ powerCuts' = powerCuts + 1
  /\ \/ UNCHANGED <<target, tmp>>
     \/ saved # None /\ target' = before /\ tmp' = target
  /\ before' = None /\ saved' = None
  /\ cached' \in [Writers -> {cached[i] : i \in Writers} \cup {durable[i] : i \in Writers}]
  /\ \A i \in Writers : cached'[i] \in {cached[i], durable[i]}
  /\ durable' = cached'
  /\ pc' = [w \in Writers |-> IF pc[w] \in Under THEN "failed" ELSE pc[w]]
  /\ UNCHANGED <<fd, pos, alone>>

Next ==
  \/ \E w \in Writers : OpenTmp(w) \/ WriteChunk(w) \/ Fsync(w) \/ Replace(w) \/ Fail(w)
  \/ PowerCut

Spec == Init /\ [][Next]_vars

-----------------------------------------------------------------------------
(* Every variable stays in its range.                                      *)
TypeOK ==
  /\ target \in Writers \cup {None} /\ tmp \in Writers \cup {None}
  /\ before \in Writers \cup {None}
  /\ cached \in [Writers -> Contents] /\ durable \in [Writers -> Contents]
  /\ pc \in [Writers -> {"new", "write", "synced", "ok", "failed"}]
  /\ fd \in [Writers -> Writers \cup {None}] /\ pos \in [Writers -> 0 .. Chunks]
  /\ alone \in [Writers -> BOOLEAN]
  /\ saved \in Writers \cup {None} /\ powerCuts \in 0 .. MaxPowerCuts

Holds(i, w) == \A k \in 1 .. Chunks : cached[i][k] = w

(* The replacement is atomic: whoever reads the file, at any moment and    *)
(* after any power cut, finds the whole content of one call, as long as no *)
(* two calls overlapped (save_session, _write_bytes).                      *)
FileIsWhole ==
  (\A w \in Writers : alone[w]) /\ target # None => \E w \in Writers : Holds(target, w)

(* A call that returned Ok, and that no other overlapped, has its own      *)
(* content in the file, whatever overlapping calls made of it before.      *)
SavedIsThere == saved # None /\ alone[saved] => target # None /\ Holds(target, saved)

=============================================================================
