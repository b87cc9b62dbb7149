------------------------------- MODULE AuditLog -------------------------------
(***************************************************************************)
(* The audit log of src/logger.rs.  Every hook invocation is a process of  *)
(* its own that appends one record to the same file and, when the file is  *)
(* full, first shifts it and its predecessors by one: path to path.1,      *)
(* path.1 to path.2, and so on, the oldest being removed.  Nothing is      *)
(* locked, so the system calls of two invocations interleave freely, and   *)
(* an invocation that overruns the hook's timeout is killed between any    *)
(* two of them.                                                            *)
(*                                                                         *)
(* A file is an inode: a rename moves it, and a descriptor opened before   *)
(* the rename still writes to it.  Records are numbered in the order of    *)
(* their writes and have length one, the newline included.                 *)
(***************************************************************************)
EXTENDS Integers, FiniteSets

CONSTANTS
  Writers,        \* the processes that may log at the same time
  Keep,           \* keep_files, the number of rotated files
  MaxBytes,       \* max_bytes, the length from which a file is rotated
  MaxInvocations, \* bound: hook invocations in a behaviour
  MaxKills        \* bound: invocations killed by the hook's timeout

ASSUME AuditAssumption ==
  /\ IsFiniteSet(Writers)
  /\ Keep \in Nat
  /\ MaxBytes \in Nat
  /\ MaxInvocations \in Nat
  /\ MaxKills \in Nat

VARIABLES
  dir,      \* the file behind each name: 0 is path, k is path.k
  content,  \* the records in each file
  pc,       \* the next system call of each writer, "idle" between invocations
  index,    \* the loop index of its rotation
  fd,       \* the file it has opened
  written,  \* records written so far
  started,  \* invocations so far
  kills,    \* invocations killed so far
  abandoned, \* history: rotations given up because another one was faster
  overlapped \* history: two invocations were under way at once

histVars == <<abandoned, overlapped>>
vars == <<dir, content, pc, index, fd, written, started, kills, histVars>>

Slot == 0..Keep
NoFile == 0
\* Enough for every name and every open descriptor, and one more to create.
Inode == 1..(Keep + Cardinality(Writers) + 2)
RecordNo == 1..MaxInvocations

\* metadata(path).len(), or 0 when there is no such file.
CurrentBytes == IF dir[0] = NoFile THEN 0 ELSE Cardinality(content[dir[0]])

Init ==
  /\ dir = [k \in Slot |-> NoFile]
  /\ content = [i \in Inode |-> {}]
  /\ pc = [w \in Writers |-> "idle"]
  /\ index = [w \in Writers |-> 0]
  /\ fd = [w \in Writers |-> NoFile]
  /\ written = 0 /\ started = 0 /\ kills = 0 /\ abandoned = 0
  /\ overlapped = FALSE

Goto(w, step) == pc' = [pc EXCEPT ![w] = step]

-----------------------------------------------------------------------------
\* A decision is to be logged.
Begin(w) ==
  /\ pc[w] = "idle"
  /\ started < MaxInvocations
  /\ started' = started + 1
  /\ Goto(w, "stat")
  /\ overlapped' = (overlapped \/ \E other \in Writers : pc[other] # "idle")
  /\ UNCHANGED <<dir, content, index, fd, written, kills, abandoned>>

\* Mutated: the record to be written is left out of the projection.
MustRotateLate == MaxBytes # 0 /\ CurrentBytes > MaxBytes

\* Would the record make the file longer than it may be?
MustRotate == MaxBytes # 0 /\ CurrentBytes + 1 > MaxBytes

Stat(w) ==
  /\ pc[w] = "stat"
  /\ Goto(w, IF MustRotate /\ Keep > 0 THEN "find_oldest" ELSE "open")
  /\ UNCHANGED <<dir, content, index, fd, written, started, kills, histVars>>

\* Mutated: the loop starts one name too low, and the last but one is overwritten.
FindOldestShort(w) ==
  /\ pc[w] = "find_oldest"
  /\ Goto(w, IF dir[Keep] # NoFile THEN "remove_oldest" ELSE "find")
  /\ index' = [index EXCEPT ![w] = Keep - 2]
  /\ UNCHANGED <<dir, content, fd, written, started, kills, histVars>>

\* exists() of the oldest name, ahead of its removal.
FindOldest(w) ==
  /\ pc[w] = "find_oldest"
  /\ Goto(w, IF dir[Keep] # NoFile THEN "remove_oldest" ELSE "find")
  /\ index' = [index EXCEPT ![w] = Keep - 1]
  /\ UNCHANGED <<dir, content, fd, written, started, kills, histVars>>

\* remove_file or rename fails, the file being gone: the rotation ends here, and
\* the caller goes on to the append.
Abandon(w) ==
  /\ Goto(w, "open")
  /\ abandoned' = abandoned + 1
  /\ UNCHANGED <<dir, index, overlapped>>

\* Mutated: the names of the rotated files are taken to start at 0.
RemoveOldestButOne(w) ==
  /\ pc[w] = "remove_oldest"
  /\ IF dir[Keep - 1] = NoFile THEN Abandon(w)
     ELSE /\ dir' = [dir EXCEPT ![Keep - 1] = NoFile]
          /\ Goto(w, "find")
          /\ UNCHANGED <<index, histVars>>
  /\ UNCHANGED <<content, fd, written, started, kills>>

\* remove_file of the oldest name.
RemoveOldest(w) ==
  /\ pc[w] = "remove_oldest"
  /\ IF dir[Keep] = NoFile THEN Abandon(w)
     ELSE /\ dir' = [dir EXCEPT ![Keep] = NoFile]
          /\ Goto(w, "find")
          /\ UNCHANGED <<index, histVars>>
  /\ UNCHANGED <<content, fd, written, started, kills>>

\* On to the next name down, or, after path itself, to the append.
NextName(w) ==
  /\ index' = [index EXCEPT ![w] = IF @ = 0 THEN 0 ELSE @ - 1]
  /\ Goto(w, IF index[w] = 0 THEN "open" ELSE "find")

\* exists() of the name to be shifted, path.(Keep-1) first and path last.
FindSource(w) ==
  /\ pc[w] = "find"
  /\ IF dir[index[w]] # NoFile
     THEN Goto(w, "shift") /\ UNCHANGED index
     ELSE NextName(w)
  /\ UNCHANGED <<dir, content, fd, written, started, kills, histVars>>

\* rename: whatever has the next name up is replaced.
Shift(w) ==
  /\ pc[w] = "shift"
  /\ IF dir[index[w]] = NoFile THEN Abandon(w)
     ELSE /\ dir' = [dir EXCEPT ![index[w] + 1] = dir[index[w]], ![index[w]] = NoFile]
          /\ NextName(w)
          /\ UNCHANGED histVars
  /\ UNCHANGED <<content, fd, written, started, kills>>

\* A file nobody names and nobody has open can be allocated again.
Free == {i \in Inode : (\A k \in Slot : dir[k] # i) /\ (\A w \in Writers : fd[w] # i)}

\* open(create, append), whether or not the rotation went well.
Open(w) ==
  /\ pc[w] = "open"
  /\ IF dir[0] # NoFile
     THEN fd' = [fd EXCEPT ![w] = dir[0]] /\ UNCHANGED <<dir, content>>
     ELSE \E i \in Free :
            /\ \A j \in Free : i <= j
            /\ fd' = [fd EXCEPT ![w] = i]
            /\ dir' = [dir EXCEPT ![0] = i]
            /\ content' = [content EXCEPT ![i] = {}]
  /\ Goto(w, "write")
  /\ UNCHANGED <<index, written, started, kills, histVars>>

\* The one write of the record, at the end of the file wherever it is by now.
Write(w) ==
  /\ pc[w] = "write"
  /\ content' = [content EXCEPT ![fd[w]] = @ \cup {written + 1}]
  /\ written' = written + 1
  /\ fd' = [fd EXCEPT ![w] = NoFile]
  /\ Goto(w, "idle")
  /\ UNCHANGED <<dir, index, started, kills, histVars>>

\* The agent gives up on the hook and kills it.
Killed(w) ==
  /\ pc[w] # "idle"
  /\ kills < MaxKills
  /\ kills' = kills + 1
  /\ fd' = [fd EXCEPT ![w] = NoFile]
  /\ Goto(w, "idle")
  /\ UNCHANGED <<dir, content, index, written, started, histVars>>

Step(w) ==
  \/ Stat(w) \/ FindOldest(w) \/ RemoveOldest(w) \/ FindSource(w) \/ Shift(w)
  \/ Open(w) \/ Write(w)

Next == \E w \in Writers : Begin(w) \/ Step(w) \/ Killed(w)

Spec == Init /\ [][Next]_vars

-----------------------------------------------------------------------------
TypeOK ==
  /\ dir \in [Slot -> Inode \cup {NoFile}]
  /\ content \in [Inode -> SUBSET RecordNo]
  /\ pc \in [Writers -> {"idle", "stat", "find_oldest", "remove_oldest", "find",
                         "shift", "open", "write"}]
  /\ index \in [Writers -> Slot]
  /\ fd \in [Writers -> Inode \cup {NoFile}]
  /\ written \in 0..started /\ started \in 0..MaxInvocations
  /\ kills \in 0..MaxKills /\ abandoned \in Nat /\ overlapped \in BOOLEAN

InFile(k) == IF dir[k] = NoFile THEN {} ELSE content[dir[k]]
Kept == UNION {InFile(k) : k \in Slot}
Lost == (1..written) \ Kept

\* However many invocations find the file full at once, it outgrows the limit by
\* no more than one record for each other writer, and one for each rotation that
\* was given up because another writer's was under way.  With no rotated files to
\* keep nothing is rotated, and the limit does not hold at all.
SizeIsBounded ==
  MaxBytes > 0 /\ Keep > 0 => \A k \in Slot :
    Cardinality(InFile(k)) <= MaxBytes + Cardinality(Writers) - 1 + abandoned

\* As long as no two invocations overlap, and wherever they are killed: what is
\* lost is older than everything kept.
KeptAreNewest ==
  ~overlapped => \A lost \in Lost : \A kept \in Kept : lost < kept

\* As long as no two invocations overlap, a record is only lost with Keep full
\* files of newer ones behind it; a kill in the middle of a rotation costs one.
LossNeedsRetention ==
  ~overlapped => \A lost \in Lost : written - lost >= (Keep - kills) * MaxBytes
=============================================================================
