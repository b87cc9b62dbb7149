---------------------------- MODULE AuditLogProofs ----------------------------
(***************************************************************************)
(* What AuditLog promises, proved for any number of writers, any limit,    *)
(* any number of rotated files, of invocations and of kills.  TypeInv and  *)
(* SizeInv hold however the writers interleave; SoloInv and RetentionInv   *)
(* are about one invocation at a time, each of which may be killed between *)
(* any two of its system calls.                                            *)
(***************************************************************************)
EXTENDS AuditLog, FiniteSetTheorems, TLAPS

Rotating == {"find_oldest", "remove_oldest", "find", "shift"}
Shifting == {"find", "shift"}
Active == {w \in Writers : pc[w] # "idle"}

-----------------------------------------------------------------------------
(* Invariants.                                                             *)

TypeInv ==
  /\ TypeOK
  /\ written + Cardinality(Active) <= started
  /\ \A i \in Inode : content[i] \subseteq 1..written
  /\ \A k, l \in Slot : dir[k] = dir[l] /\ dir[k] # NoFile => k = l
  /\ \A w \in Writers :
       /\ fd[w] # NoFile <=> pc[w] = "write"
       /\ pc[w] \in Rotating => Keep > 0 /\ MaxBytes > 0
       /\ pc[w] \in Rotating \ {"find_oldest"} => index[w] < Keep
       /\ pc[w] = "remove_oldest" => index[w] + 1 = Keep

\* The writers whose records will go into file i, as things stand.
Pending(i) == {w \in Writers : fd[w] = i \/ (pc[w] = "open" /\ dir[0] = i)}

\* What file i may still grow to, and what it may grow to at most.
Prospect(i) == Cardinality(content[i]) + Cardinality(Pending(i))
Limit == MaxBytes + Cardinality(Writers) - 1 + abandoned

SizeInv ==
  MaxBytes > 0 /\ Keep > 0 =>
    \A i \in Inode : (\E k \in Slot : dir[k] = i) => Prospect(i) <= Limit

\* Newer records are in files of lower numbers.
Ordered == \A k, l \in Slot : k < l =>
  \A newer \in InFile(k), older \in InFile(l) : older < newer

\* No record is lost ahead of an older one.
LostAreOlder == \A lost \in Lost : \A kept \in Kept : lost < kept

\* Of the invocations under way there is one at most.
Alone == \A v, w \in Active : v = w

\* Where it has got to: what it saw of the directory is still so.
CourseOf(w) ==
  /\ pc[w] = "write" => fd[w] = dir[0]
  /\ pc[w] = "remove_oldest" => dir[Keep] # NoFile
  /\ pc[w] \in Shifting => dir[index[w] + 1] = NoFile
  /\ pc[w] = "shift" => dir[index[w]] # NoFile
  /\ pc[w] \in Rotating => CurrentBytes >= MaxBytes

Course == \A w \in Writers : CourseOf(w)

SoloInv == ~overlapped => Alone /\ Course /\ Ordered /\ LostAreOlder

\* Names below k that a killed rotation has left, or that the one under way has
\* made so far, without a file.
Holes(k) == kills + (IF \E w \in Writers : pc[w] \in Shifting /\ index[w] + 1 < k
                     THEN 1 ELSE 0)

\* Each name between path and path.k stands for MaxBytes newer records, but for
\* the holes.
FilesBehind == \A k \in 1..Keep : \A x \in InFile(k) :
  written - x >= (k - 1 - Holes(k)) * MaxBytes + CurrentBytes

LossesBehind == \A lost \in Lost : written - lost >= (Keep - kills) * MaxBytes

RetentionInv == ~overlapped => FilesBehind /\ LossesBehind
-----------------------------------------------------------------------------
(* Types.                                                                  *)

Steps == {"idle", "stat", "find_oldest", "remove_oldest", "find", "shift", "open", "write"}

\* The numbers of the constants, and the elements of the sets made from them.
LEMMA ConstantTypes ==
  /\ IsFiniteSet(Writers) /\ Cardinality(Writers) \in Nat
  /\ Keep \in Nat /\ MaxBytes \in Nat /\ MaxInvocations \in Nat /\ MaxKills \in Nat
  /\ Slot \subseteq Nat /\ 0 \in Slot /\ Keep \in Slot
  /\ Inode \subseteq Nat /\ NoFile \notin Inode
BY AuditAssumption, FS_CardinalityType DEF Slot, Inode, NoFile

\* The types hold from the start.
LEMMA TypeInvInit == Init => TypeInv
<1> SUFFICES ASSUME Init PROVE TypeInv
  OBVIOUS
<1>1. Active = {} /\ Cardinality(Active) = 0
  BY FS_EmptySet DEF Init, Active
<1>2. /\ dir \in [Slot -> Inode \cup {NoFile}] /\ content \in [Inode -> SUBSET RecordNo]
      /\ fd \in [Writers -> Inode \cup {NoFile}] /\ index \in [Writers -> Slot]
  BY ConstantTypes DEF Init
<1>3. /\ written = 0 /\ started = 0 /\ kills = 0 /\ abandoned = 0 /\ overlapped = FALSE
  BY DEF Init
<1>4. pc \in [Writers -> {"idle", "stat", "find_oldest", "remove_oldest", "find",
                         "shift", "open", "write"}]
  BY DEF Init
<1>5. written \in 0..started /\ started \in 0..MaxInvocations /\ kills \in 0..MaxKills
  BY <1>3, ConstantTypes
<1>6. TypeOK
  BY <1>2, <1>3, <1>4, <1>5 DEF TypeOK
<1> QED
  BY <1>1, <1>6, ConstantTypes DEF Init, TypeInv, Rotating

\* The invocations under way are a finite number.
LEMMA ActiveFinite == IsFiniteSet(Active) /\ Cardinality(Active) \in Nat
BY ConstantTypes, FS_Subset, FS_CardinalityType DEF Active

\* One writer more, or one fewer, is under way.
LEMMA ActiveGrows ==
  ASSUME pc \in [Writers -> Steps], NEW w \in Writers, pc[w] = "idle",
         NEW s \in Steps \ {"idle"}, pc' = [pc EXCEPT ![w] = s]
  PROVE  Cardinality(Active') = Cardinality(Active) + 1
<1>1. Active' = Active \cup {w} /\ w \notin Active
  BY DEF Active
<1> QED
  BY <1>1, ActiveFinite, FS_AddElement

\* A writer that ends its invocation leaves one fewer under way,
LEMMA ActiveShrinks ==
  ASSUME pc \in [Writers -> Steps], NEW w \in Writers, pc[w] # "idle",
         pc' = [pc EXCEPT ![w] = "idle"]
  PROVE  Cardinality(Active') = Cardinality(Active) - 1
<1>1. Active' = Active \ {w} /\ w \in Active
  BY DEF Active, Steps
<1> QED
  BY <1>1, ActiveFinite, FS_RemoveElement

\* and one that goes on leaves as many.
LEMMA ActiveStays ==
  ASSUME pc \in [Writers -> Steps], NEW w \in Writers, pc[w] # "idle",
         NEW s \in Steps \ {"idle"}, pc' = [pc EXCEPT ![w] = s]
  PROVE  Active' = Active
BY DEF Active

\* Some invocation is under way as long as a writer is not idle.
LEMMA ActiveCounts ==
  ASSUME pc \in [Writers -> Steps], NEW w \in Writers, pc[w] # "idle"
  PROVE  Cardinality(Active) >= 1
<1>1. w \in Active
  BY DEF Active
<1>2. Cardinality(Active \ {w}) = Cardinality(Active) - 1 /\ Cardinality(Active \ {w}) \in Nat
  BY <1>1, ActiveFinite, FS_RemoveElement, FS_CardinalityType
<1> QED
  BY <1>2, ActiveFinite

\* Every system call keeps the types.
LEMMA TypeInvStep == TypeInv /\ [Next]_vars => TypeInv'
<1> SUFFICES ASSUME TypeInv, [Next]_vars PROVE TypeInv'
  OBVIOUS
<1> USE ConstantTypes, ActiveFinite
<1>0. TypeOK /\ pc \in [Writers -> Steps]
  BY DEF TypeInv, TypeOK, Steps
<1>1. ASSUME NEW w \in Writers, Begin(w) PROVE TypeInv'
  <2>1. Cardinality(Active') = Cardinality(Active) + 1
    BY <1>0, <1>1, ActiveGrows DEF Begin, Goto, Steps
  <2>2. TypeOK'
    BY <1>0, <1>1 DEF TypeOK, Begin, Goto
  <2> QED
    BY <1>0, <1>1, <2>1, <2>2 DEF TypeInv, TypeOK, Begin, Goto, Rotating
<1>2. ASSUME NEW w \in Writers, Stat(w) PROVE TypeInv'
  <2>1. Active' = Active
    BY <1>0, <1>2, ActiveStays DEF Stat, Goto, Steps
  <2>2. TypeOK'
    BY <1>0, <1>2 DEF TypeOK, Stat, Goto, histVars
  <2> QED
    BY <1>0, <1>2, <2>1, <2>2 DEF TypeInv, TypeOK, Stat, Goto, Rotating, MustRotate, histVars
<1>3. ASSUME NEW w \in Writers, FindOldest(w) PROVE TypeInv'
  <2>1. Active' = Active
    BY <1>0, <1>3, ActiveStays DEF FindOldest, Goto, Steps
  <2>2. Keep > 0 /\ MaxBytes > 0
    BY <1>3 DEF TypeInv, FindOldest, Rotating
  <2>3. TypeOK'
    BY <1>0, <1>3, <2>2 DEF TypeOK, FindOldest, Goto, Slot, histVars
  <2> QED
    BY <1>0, <1>3, <2>1, <2>2, <2>3 DEF TypeInv, TypeOK, FindOldest, Goto, Rotating, histVars
<1>4. ASSUME NEW w \in Writers, RemoveOldest(w) PROVE TypeInv'
  <2>1. Active' = Active
    BY <1>0, <1>4, ActiveStays DEF RemoveOldest, Abandon, Goto, Steps
  <2>2. TypeOK'
    BY <1>0, <1>4 DEF TypeOK, RemoveOldest, Abandon, Goto, histVars
  <2> QED
    BY <1>0, <1>4, <2>1, <2>2 DEF TypeInv, TypeOK, RemoveOldest, Abandon, Goto, Rotating, histVars
<1>5. ASSUME NEW w \in Writers, FindSource(w) PROVE TypeInv'
  <2>1. Active' = Active
    BY <1>0, <1>5, ActiveStays DEF FindSource, NextName, Goto, Steps
  <2>2. TypeOK'
    BY <1>0, <1>5 DEF TypeOK, FindSource, NextName, Goto, Slot, histVars
  <2>3. /\ index' = [index EXCEPT ![w] = index'[w]] /\ index'[w] <= index[w]
        /\ pc' = [pc EXCEPT ![w] = pc'[w]] /\ pc'[w] \in {"shift", "find", "open"}
        /\ pc[w] = "find"
    BY <1>0, <1>5 DEF TypeOK, FindSource, NextName, Goto, Slot
  <2>4. UNCHANGED <<dir, content, fd, written, started>>
    BY <1>5 DEF FindSource
  <2>5. \A v \in Writers :
          /\ fd'[v] # NoFile <=> pc'[v] = "write"
          /\ pc'[v] \in Rotating => Keep > 0 /\ MaxBytes > 0
          /\ pc'[v] \in Rotating \ {"find_oldest"} => index'[v] < Keep
          /\ pc'[v] = "remove_oldest" => index'[v] + 1 = Keep
    <3> SUFFICES ASSUME NEW v \in Writers
                 PROVE  /\ fd'[v] # NoFile <=> pc'[v] = "write"
                        /\ pc'[v] \in Rotating => Keep > 0 /\ MaxBytes > 0
                        /\ pc'[v] \in Rotating \ {"find_oldest"} => index'[v] < Keep
                        /\ pc'[v] = "remove_oldest" => index'[v] + 1 = Keep
      OBVIOUS
    <3>1. CASE v = w
      BY <1>0, <2>2, <2>3, <2>4, <3>1 DEF TypeInv, TypeOK, Rotating, Slot
    <3>2. CASE v # w
      BY <1>0, <2>3, <2>4, <3>2 DEF TypeInv, TypeOK, Rotating
    <3> QED
      BY <3>1, <3>2
  <2> QED
    BY <2>1, <2>2, <2>4, <2>5 DEF TypeInv
<1>6. ASSUME NEW w \in Writers, Shift(w) PROVE TypeInv'
  <2>1. Active' = Active
    BY <1>0, <1>6, ActiveStays DEF Shift, Abandon, NextName, Goto, Steps
  <2>2. index[w] \in Slot /\ index[w] + 1 \in Slot
    BY <1>0, <1>6 DEF TypeInv, TypeOK, Shift, Rotating, Slot
  <2>3. /\ index' = [index EXCEPT ![w] = index'[w]] /\ index'[w] \in Slot
        /\ index'[w] <= index[w]
        /\ pc' = [pc EXCEPT ![w] = pc'[w]] /\ pc'[w] \in {"find", "open"}
        /\ pc[w] = "shift"
    BY <1>0, <1>6 DEF TypeOK, Shift, Abandon, NextName, Goto, Slot
  <2>4. UNCHANGED <<content, fd, written, started, kills, overlapped>> /\ abandoned' \in Nat
    BY <1>0, <1>6 DEF Shift, Abandon, TypeOK, histVars
  <2>5. \/ dir' = dir
        \/ dir' = [dir EXCEPT ![index[w] + 1] = dir[index[w]], ![index[w]] = NoFile]
    BY <1>6 DEF Shift, Abandon
  <2>6. dir' \in [Slot -> Inode \cup {NoFile}]
    BY <1>0, <2>2, <2>5 DEF TypeOK
  <2>7. (\A k, l \in Slot : dir[k] = dir[l] /\ dir[k] # NoFile => k = l)'
    <3>1. /\ \A k, l \in Slot : dir[k] = dir[l] /\ dir[k] # NoFile => k = l
          /\ dir \in [Slot -> Inode \cup {NoFile}]
      BY DEF TypeInv, TypeOK
    <3>2. CASE dir' = dir
      BY <3>1, <3>2
    <3>3. CASE dir' = [dir EXCEPT ![index[w] + 1] = dir[index[w]], ![index[w]] = NoFile]
      <4>1. dir'[index[w] + 1] \in {NoFile, dir[index[w]]} /\ dir'[index[w]] = NoFile
        BY <2>2, <3>1, <3>3
      <4>2. \A k \in Slot \ {index[w], index[w] + 1} : dir'[k] = dir[k]
        BY <2>2, <3>1, <3>3
      <4> QED
        BY <2>2, <3>1, <4>1, <4>2
    <3> QED
      BY <2>5, <3>2, <3>3
  <2>8. TypeOK'
    BY <1>0, <2>3, <2>4, <2>6 DEF TypeOK
  <2>9. \A v \in Writers :
          /\ fd'[v] # NoFile <=> pc'[v] = "write"
          /\ pc'[v] \in Rotating => Keep > 0 /\ MaxBytes > 0
          /\ pc'[v] \in Rotating \ {"find_oldest"} => index'[v] < Keep
          /\ pc'[v] = "remove_oldest" => index'[v] + 1 = Keep
    <3> SUFFICES ASSUME NEW v \in Writers
                 PROVE  /\ fd'[v] # NoFile <=> pc'[v] = "write"
                        /\ pc'[v] \in Rotating => Keep > 0 /\ MaxBytes > 0
                        /\ pc'[v] \in Rotating \ {"find_oldest"} => index'[v] < Keep
                        /\ pc'[v] = "remove_oldest" => index'[v] + 1 = Keep
      OBVIOUS
    <3>1. CASE v = w
      BY <1>0, <2>3, <2>4, <3>1 DEF TypeInv, TypeOK, Rotating, Slot
    <3>2. CASE v # w
      BY <1>0, <2>3, <2>4, <3>2 DEF TypeInv, TypeOK, Rotating
    <3> QED
      BY <3>1, <3>2
  <2> QED
    BY <2>1, <2>4, <2>7, <2>8, <2>9 DEF TypeInv
<1>7. ASSUME NEW w \in Writers, Open(w) PROVE TypeInv'
  <2>1. Active' = Active
    BY <1>0, <1>7, ActiveStays DEF Open, Goto, Steps
  <2>2. TypeOK'
    BY <1>0, <1>7 DEF TypeOK, Open, Goto, Free, histVars
  <2>3. (\A k, l \in Slot : dir[k] = dir[l] /\ dir[k] # NoFile => k = l)'
    BY <1>0, <1>7 DEF TypeInv, TypeOK, Open, Free
  <2> QED
    BY <1>0, <1>7, <2>1, <2>2, <2>3 DEF TypeInv, TypeOK, Open, Goto, Free, Rotating, histVars
<1>8. ASSUME NEW w \in Writers, Write(w) PROVE TypeInv'
  <2>1. Cardinality(Active') = Cardinality(Active) - 1 /\ Cardinality(Active) >= 1
    BY <1>0, <1>8, ActiveShrinks, ActiveCounts DEF Write, Goto
  <2>2. written' = written + 1 /\ written' \in 1..started
    BY <1>0, <1>8, <2>1 DEF TypeInv, TypeOK, Write
  <2>3. TypeOK'
    <3>1. fd[w] \in Inode /\ written + 1 \in RecordNo
      BY <1>0, <1>8, <2>2 DEF TypeInv, TypeOK, Write, RecordNo
    <3>2. content' \in [Inode -> SUBSET RecordNo]
      BY <1>0, <1>8, <3>1 DEF TypeOK, Write
    <3>3. fd' \in [Writers -> Inode \cup {NoFile}] /\ pc' \in [Writers -> Steps]
      BY <1>0, <1>8 DEF TypeOK, Write, Goto, Steps
    <3> QED
      BY <1>0, <1>8, <2>2, <3>2, <3>3 DEF TypeOK, Write, histVars, Steps
  <2> QED
    BY <1>0, <1>8, <2>1, <2>2, <2>3 DEF TypeInv, TypeOK, Write, Goto, Rotating, histVars
<1>9. ASSUME NEW w \in Writers, Killed(w) PROVE TypeInv'
  <2>1. Cardinality(Active') = Cardinality(Active) - 1
    BY <1>0, <1>9, ActiveShrinks DEF Killed, Goto
  <2>2. TypeOK'
    BY <1>0, <1>9 DEF TypeOK, Killed, Goto, histVars
  <2> QED
    BY <1>0, <1>9, <2>1, <2>2 DEF TypeInv, TypeOK, Killed, Goto, Rotating, histVars
<1>10. CASE UNCHANGED vars
  BY <1>10 DEF TypeInv, TypeOK, vars, histVars, Active
<1> QED
  BY <1>1, <1>2, <1>3, <1>4, <1>5, <1>6, <1>7, <1>8, <1>9, <1>10 DEF Next, Step

\* The types hold in every state of the log, and no more is written than begun.
THEOREM TypeCorrect == Spec => []TypeInv
BY TypeInvInit, TypeInvStep, PTL DEF Spec
-----------------------------------------------------------------------------
(* The size of a file.                                                     *)

\* There are finitely many records in a file and writers to come.
LEMMA CountsAreFinite ==
  ASSUME TypeInv, NEW i \in Inode
  PROVE  /\ IsFiniteSet(content[i]) /\ Cardinality(content[i]) \in Nat
         /\ IsFiniteSet(Pending(i)) /\ Cardinality(Pending(i)) \in Nat
         /\ Cardinality(Pending(i)) <= Cardinality(Writers)
<1>1. content[i] \subseteq 1..written /\ IsFiniteSet(1..written)
  BY FS_Interval DEF TypeInv, TypeOK
<1>2. Pending(i) \subseteq Writers
  BY DEF Pending
<1> QED
  BY <1>1, <1>2, ConstantTypes, FS_Subset, FS_CardinalityType

\* The same after a step.
LEMMA CountsStayFinite ==
  ASSUME TypeInv', NEW i \in Inode
  PROVE  /\ Cardinality(content'[i]) \in Nat /\ Cardinality(Pending(i)') \in Nat
         /\ Cardinality(Pending(i)') <= Cardinality(Writers)
<1>1. content'[i] \subseteq 1..written' /\ IsFiniteSet(1..written')
  BY FS_Interval DEF TypeInv, TypeOK
<1>2. Pending(i)' \subseteq Writers
  BY DEF Pending
<1> QED
  BY <1>1, <1>2, ConstantTypes, FS_Subset, FS_CardinalityType

\* The limit of a file is a number.
LEMMA LimitIsInt == TypeOK => Limit \in Int
BY ConstantTypes DEF TypeOK, Limit

\* A file whose prospect does not grow, or grows with the limit, stays within it.
LEMMA ProspectStays ==
  ASSUME TypeInv, TypeInv', NEW i \in Inode, Prospect(i) <= Limit,
         content'[i] = content[i], abandoned <= abandoned', Pending(i)' \subseteq Pending(i)
  PROVE  Prospect(i)' <= Limit'
<1>1. Cardinality(Pending(i)') <= Cardinality(Pending(i)) /\ Cardinality(Pending(i)') \in Nat
  BY CountsAreFinite, FS_Subset, FS_CardinalityType
<1> QED
  BY <1>1, CountsAreFinite, ConstantTypes DEF Prospect, Limit, TypeInv, TypeOK

\* An invocation that is abandoned lets the limit grow by a record, and one more
\* writer may be about to write to the file.
LEMMA ProspectGrows ==
  ASSUME TypeInv, TypeInv', NEW i \in Inode, Prospect(i) <= Limit,
         content'[i] = content[i], abandoned' = abandoned + 1,
         NEW w, Pending(i)' \subseteq Pending(i) \cup {w}
  PROVE  Prospect(i)' <= Limit'
<1>1. /\ IsFiniteSet(Pending(i) \cup {w})
      /\ Cardinality(Pending(i) \cup {w}) <= Cardinality(Pending(i)) + 1
      /\ Cardinality(Pending(i) \cup {w}) \in Nat
  BY CountsAreFinite, FS_AddElement, FS_CardinalityType
<1>2. /\ Cardinality(Pending(i)') <= Cardinality(Pending(i)) + 1
      /\ Cardinality(Pending(i)') \in Nat
  BY <1>1, CountsAreFinite, FS_Subset, FS_CardinalityType
<1> QED
  BY <1>2, CountsAreFinite, ConstantTypes DEF Prospect, Limit, TypeInv, TypeOK

\* There are no files to start with.
LEMMA SizeInvInit == Init => SizeInv
BY ConstantTypes DEF Init, SizeInv

\* Every system call keeps the files within the limit.
LEMMA SizeInvStep == TypeInv /\ TypeInv' /\ SizeInv /\ [Next]_vars => SizeInv'
<1> SUFFICES ASSUME TypeInv, TypeInv', SizeInv, [Next]_vars, MaxBytes > 0, Keep > 0,
                    NEW i \in Inode, NEW k \in Slot, dir'[k] = i
             PROVE  Prospect(i)' <= Limit'
  BY DEF SizeInv
<1>0. /\ TypeOK /\ TypeOK' /\ pc \in [Writers -> Steps]
      /\ \A l \in Slot : dir[l] = i => Prospect(i) <= Limit
  BY DEF TypeInv, TypeOK, Steps, SizeInv
<1> USE ConstantTypes
<1>1. ASSUME NEW w \in Writers, Begin(w) PROVE Prospect(i)' <= Limit'
  <2>1. Pending(i)' \subseteq Pending(i)
    BY <1>0, <1>1 DEF Begin, Goto, Pending
  <2> QED
    BY <1>0, <1>1, <2>1, ProspectStays DEF Begin, TypeOK
<1>2. ASSUME NEW w \in Writers, Stat(w) PROVE Prospect(i)' <= Limit'
  <2>1. CASE i = dir[0] /\ pc'[w] = "open"
    <3>1. ~MustRotate
      BY <1>0, <1>2, <2>1 DEF Stat, Goto
    <3>2. Cardinality(content[i]) <= MaxBytes - 1
      BY <1>0, <2>1, <3>1, CountsAreFinite DEF MustRotate, CurrentBytes
    <3>3. content' = content /\ abandoned' = abandoned
      BY <1>2 DEF Stat, histVars
    <3> QED
      <4>1. /\ Cardinality(Pending(i)') <= Cardinality(Writers)
            /\ Cardinality(Pending(i)') \in Nat
        BY CountsStayFinite
      <4> QED
        BY <1>0, <3>2, <3>3, <4>1, CountsAreFinite DEF Prospect, Limit, TypeOK
  <2>2. CASE ~(i = dir[0] /\ pc'[w] = "open")
    <3>1. Pending(i)' \subseteq Pending(i)
      BY <1>0, <1>2, <2>2 DEF Stat, Goto, Pending
    <3> QED
      BY <1>0, <1>2, <3>1, ProspectStays DEF Stat, TypeOK, histVars
  <2> QED
    BY <2>1, <2>2
<1>3. ASSUME NEW w \in Writers, FindOldest(w) PROVE Prospect(i)' <= Limit'
  <2>1. Pending(i)' \subseteq Pending(i)
    BY <1>0, <1>3 DEF FindOldest, Goto, Pending
  <2> QED
    BY <1>0, <1>3, <2>1, ProspectStays DEF FindOldest, TypeOK, histVars
<1>4. ASSUME NEW w \in Writers, content' = content, fd' = fd, Abandon(w)
      PROVE  Prospect(i)' <= Limit'
  <2>1. Pending(i)' \subseteq Pending(i) \cup {w}
    BY <1>0, <1>4 DEF Abandon, Goto, Pending
  <2> QED
    BY <1>0, <1>4, <2>1, ProspectGrows DEF Abandon
<1>5. ASSUME NEW w \in Writers, RemoveOldest(w) PROVE Prospect(i)' <= Limit'
  <2>1. CASE dir[Keep] = NoFile
    BY <1>4, <1>5, <2>1 DEF RemoveOldest
  <2>2. CASE dir[Keep] # NoFile
    <3>1. dir[0] = dir'[0] /\ dir[k] = i
      BY <1>0, <1>5, <2>2 DEF RemoveOldest, TypeOK
    <3>2. Pending(i)' \subseteq Pending(i)
      BY <1>0, <1>5, <2>2, <3>1 DEF RemoveOldest, Goto, Pending
    <3> QED
      BY <1>0, <1>5, <2>2, <3>1, <3>2, ProspectStays DEF RemoveOldest, TypeOK, histVars
  <2> QED
    BY <2>1, <2>2
<1>6. ASSUME NEW w \in Writers, FindSource(w) PROVE Prospect(i)' <= Limit'
  <2>1. Pending(i)' \subseteq Pending(i)
    <3>1. pc' = [pc EXCEPT ![w] = pc'[w]] /\ (pc'[w] = "open" => dir[0] = NoFile)
      BY <1>0, <1>6 DEF FindSource, NextName, Goto, TypeOK
    <3> QED
      BY <1>0, <1>6, <3>1 DEF FindSource, Pending
  <2> QED
    BY <1>0, <1>6, <2>1, ProspectStays DEF FindSource, TypeOK, histVars
<1>7. ASSUME NEW w \in Writers, Shift(w) PROVE Prospect(i)' <= Limit'
  <2>1. CASE dir[index[w]] = NoFile
    BY <1>4, <1>7, <2>1 DEF Shift
  <2>2. CASE dir[index[w]] # NoFile
    <3>1. /\ index[w] \in Slot /\ index[w] + 1 \in Slot
          /\ dir' = [dir EXCEPT ![index[w] + 1] = dir[index[w]], ![index[w]] = NoFile]
      <4>1. index[w] \in Slot /\ index[w] < Keep
        BY <1>0, <1>7 DEF Shift, TypeInv, TypeOK, Rotating
      <4> QED
        BY <1>7, <2>2, <4>1 DEF Shift, Slot
    <3>2. \E l \in Slot : dir[l] = i
      BY <1>0, <3>1 DEF TypeOK
    <3>3. IF index[w] = 0 THEN dir'[0] = NoFile ELSE dir'[0] = dir[0]
      <4>1. index[w] \in Nat /\ index[w] + 1 # 0
        BY <3>1
      <4>2. dir \in [Slot -> Inode \cup {NoFile}]
        BY <1>0 DEF TypeOK
      <4> QED
        BY <3>1, <4>1, <4>2
    <3>4. pc' = [pc EXCEPT ![w] = IF index[w] = 0 THEN "open" ELSE "find"] /\ fd' = fd
      BY <1>7, <2>2 DEF Shift, NextName, Goto
    <3>5. Pending(i)' \subseteq Pending(i)
      BY <1>0, <3>3, <3>4 DEF Pending
    <3> QED
      BY <1>0, <1>7, <2>2, <3>2, <3>5, ProspectStays DEF Shift, TypeOK, histVars
  <2> QED
    BY <2>1, <2>2
<1>8. ASSUME NEW w \in Writers, Open(w) PROVE Prospect(i)' <= Limit'
  <2>1. CASE dir[0] # NoFile
    <3>1. Pending(i)' \subseteq Pending(i)
      BY <1>0, <1>8, <2>1 DEF Open, Goto, Pending, TypeOK
    <3> QED
      BY <1>0, <1>8, <2>1, <3>1, ProspectStays DEF Open, TypeOK, histVars
  <2>2. CASE dir[0] = NoFile
    <3>1. PICK j \in Free : /\ fd' = [fd EXCEPT ![w] = j] /\ dir' = [dir EXCEPT ![0] = j]
                            /\ content' = [content EXCEPT ![j] = {}]
      BY <1>8, <2>2 DEF Open
    <3>2. j \in Inode /\ abandoned' = abandoned /\ pc' = [pc EXCEPT ![w] = "write"]
      BY <1>8, <3>1 DEF Free, Open, Goto, histVars
    <3>3. CASE i = j
      <4>1. Cardinality(content'[i]) = 0
        BY <1>0, <3>1, <3>2, <3>3, FS_EmptySet DEF TypeOK
      <4>2. /\ Cardinality(Pending(i)') <= Cardinality(Writers)
            /\ Cardinality(Pending(i)') \in Nat
        BY CountsStayFinite
      <4> QED
        BY <1>0, <4>1, <4>2 DEF Prospect, Limit, TypeOK
    <3>4. CASE i # j
      <4>1. dir[k] = i /\ content'[i] = content[i]
        BY <1>0, <3>1, <3>2, <3>4 DEF TypeOK
      <4>2. Pending(i)' \subseteq Pending(i)
        BY <1>0, <3>1, <3>2, <3>4 DEF Pending, TypeOK
      <4> QED
        BY <1>0, <3>2, <4>1, <4>2, ProspectStays DEF TypeOK
    <3> QED
      BY <3>3, <3>4
  <2> QED
    BY <2>1, <2>2
<1>9. ASSUME NEW w \in Writers, Write(w) PROVE Prospect(i)' <= Limit'
  <2>1. dir[k] = i /\ abandoned' = abandoned
    BY <1>9 DEF Write, histVars
  <2>2. CASE fd[w] = i
    <3>1. Pending(i)' = Pending(i) \ {w} /\ w \in Pending(i)
      BY <1>0, <1>9, <2>2 DEF Write, Goto, Pending, TypeOK
    <3>2. Cardinality(Pending(i)') = Cardinality(Pending(i)) - 1
      BY <1>0, <3>1, CountsAreFinite, FS_RemoveElement
    <3>3. content'[i] = content[i] \cup {written + 1}
      BY <1>0, <1>9, <2>2 DEF Write, TypeOK
    <3>4. Cardinality(content'[i]) <= Cardinality(content[i]) + 1
      <4>1. IsFiniteSet(content[i]) /\ Cardinality(content[i]) \in Nat
        BY <1>0, CountsAreFinite
      <4>2. Cardinality(content[i] \cup {written + 1})
              = IF written + 1 \in content[i] THEN Cardinality(content[i])
                                              ELSE Cardinality(content[i]) + 1
        BY <4>1, FS_AddElement
      <4> QED
        BY <3>3, <4>1, <4>2
    <3>5. Cardinality(content'[i]) \in Nat
      BY CountsStayFinite
    <3> QED
      BY <1>0, <2>1, <3>2, <3>4, <3>5, CountsAreFinite DEF Prospect, Limit, TypeOK
  <2>3. CASE fd[w] # i
    <3>1. content'[i] = content[i] /\ Pending(i)' \subseteq Pending(i)
      BY <1>0, <1>9, <2>3 DEF Write, Goto, Pending, TypeOK
    <3> QED
      BY <1>0, <2>1, <3>1, ProspectStays DEF TypeOK
  <2> QED
    BY <2>2, <2>3
<1>10. ASSUME NEW w \in Writers, Killed(w) PROVE Prospect(i)' <= Limit'
  <2>1. Pending(i)' \subseteq Pending(i)
    BY <1>0, <1>10 DEF Killed, Goto, Pending, TypeOK
  <2> QED
    BY <1>0, <1>10, <2>1, ProspectStays DEF Killed, TypeOK, histVars
<1>11. CASE UNCHANGED vars
  <2>1. Pending(i)' = Pending(i)
    BY <1>11 DEF vars, Pending
  <2> QED
    BY <1>0, <1>11, <2>1, ProspectStays DEF vars, histVars, TypeOK
<1> QED
  BY <1>1, <1>2, <1>3, <1>5, <1>6, <1>7, <1>8, <1>9, <1>10, <1>11 DEF Next, Step

\* However the writers interleave and wherever they are killed, no file of the
\* log outgrows max_bytes by more than a record for each other writer and one for
\* each rotation given up (rotate_logs and append of src/logger.rs).
THEOREM SizeAlwaysBounded == Spec => []SizeIsBounded
<1>1. TypeInv /\ SizeInv => SizeIsBounded
  <2> SUFFICES ASSUME TypeInv, SizeInv, MaxBytes > 0, Keep > 0, NEW k \in Slot
               PROVE  Cardinality(InFile(k)) <= Limit
    BY DEF SizeIsBounded, Limit
  <2>1. CASE dir[k] = NoFile
    <3>1. started >= 0 /\ Limit >= 0
      <4>1. Cardinality(Writers) >= 0 /\ abandoned >= 0
        BY ConstantTypes DEF TypeInv, TypeOK
      <4> QED
        BY <4>1, ConstantTypes DEF TypeInv, TypeOK, Limit
    <3> QED
      BY <2>1, <3>1, FS_EmptySet DEF InFile
  <2>2. CASE dir[k] # NoFile
    <3>1. dir[k] \in Inode /\ Prospect(dir[k]) <= Limit
      BY <2>2 DEF TypeInv, TypeOK, SizeInv
    <3> QED
      BY <2>2, <3>1, CountsAreFinite, LimitIsInt DEF InFile, Prospect, TypeInv
  <2> QED
    BY <2>1, <2>2
<1> QED
  BY <1>1, TypeInvInit, TypeInvStep, SizeInvInit, SizeInvStep, PTL DEF Spec
-----------------------------------------------------------------------------
(* What a system call does to the records, when nobody else is at work.    *)

\* The records of each file and their number stay.
Untouched ==
  (\A k \in Slot : InFile(k)' = InFile(k)) /\ CurrentBytes' = CurrentBytes /\ written' = written

\* A step that leaves the files alone touches no record.
LEMMA RestUntouched ==
  ASSUME UNCHANGED <<dir, content, written>>
  PROVE  Untouched
BY DEF Untouched, InFile, CurrentBytes

\* Opening the log, or creating it, leaves the records alone.
LEMMA OpenUntouched ==
  ASSUME TypeInv, NEW w \in Writers, Open(w)
  PROVE  Untouched
<1>1. dir \in [Slot -> Inode \cup {NoFile}] /\ content \in [Inode -> SUBSET RecordNo]
  BY DEF TypeInv, TypeOK
<1>2. written' = written
  BY DEF Open
<1>3. CASE dir[0] # NoFile
  BY <1>2, <1>3, RestUntouched DEF Open
<1>4. CASE dir[0] = NoFile
  <2>1. PICK i \in Free : dir' = [dir EXCEPT ![0] = i] /\ content' = [content EXCEPT ![i] = {}]
    BY <1>4 DEF Open
  <2>2. i \in Inode /\ \A k \in Slot : dir[k] # i
    BY <2>1 DEF Free
  <2>3. \A k \in Slot : InFile(k)' = InFile(k)
    BY <1>1, <1>4, <2>1, <2>2, ConstantTypes DEF InFile
  <2>4. dir'[0] = i /\ i # NoFile /\ content'[i] = {}
    BY <1>1, <2>1, <2>2, ConstantTypes
  <2>5. CurrentBytes' = 0 /\ CurrentBytes = 0
    BY <1>4, <2>4, FS_EmptySet DEF CurrentBytes
  <2> QED
    BY <1>2, <2>3, <2>5 DEF Untouched
<1> QED
  BY <1>3, <1>4

\* The removal of the oldest file takes its records.
LEMMA OldestRemoved ==
  ASSUME TypeInv, NEW w \in Writers, RemoveOldest(w), dir[Keep] # NoFile
  PROVE  /\ InFile(Keep)' = {} /\ \A k \in Slot \ {Keep} : InFile(k)' = InFile(k)
         /\ CurrentBytes' = CurrentBytes /\ written' = written
<1>1. dir \in [Slot -> Inode \cup {NoFile}] /\ Keep > 0
  BY DEF TypeInv, TypeOK, RemoveOldest, Rotating
<1>2. dir' = [dir EXCEPT ![Keep] = NoFile] /\ content' = content /\ written' = written
  BY DEF RemoveOldest
<1> QED
  BY <1>1, <1>2, ConstantTypes DEF InFile, CurrentBytes

\* A rename onto a free name moves the records up by one.
LEMMA FileShifted ==
  ASSUME TypeInv, NEW w \in Writers, Shift(w), NEW j \in Nat, index[w] = j,
         dir[j] # NoFile, dir[j + 1] = NoFile
  PROVE  /\ j \in Slot /\ j + 1 \in Slot
         /\ InFile(j + 1)' = InFile(j) /\ InFile(j)' = {} /\ InFile(j + 1) = {}
         /\ \A k \in Slot \ {j, j + 1} : InFile(k)' = InFile(k)
         /\ CurrentBytes' = (IF j = 0 THEN 0 ELSE CurrentBytes) /\ written' = written
<1>1. dir \in [Slot -> Inode \cup {NoFile}] /\ j \in Slot /\ j + 1 \in Slot
  <2>1. dir \in [Slot -> Inode \cup {NoFile}] /\ j < Keep
    BY DEF TypeInv, TypeOK, Shift, Rotating
  <2> QED
    BY <2>1, ConstantTypes DEF Slot
<1>2. /\ dir' = [dir EXCEPT ![j + 1] = dir[j], ![j] = NoFile]
      /\ content' = content /\ written' = written
  BY DEF Shift
<1>3. dir'[j + 1] = dir[j] /\ dir'[j] = NoFile
  BY <1>1, <1>2
<1>4. \A k \in Slot \ {j, j + 1} : dir'[k] = dir[k]
  BY <1>1, <1>2
<1>5. CurrentBytes' = (IF j = 0 THEN 0 ELSE CurrentBytes)
  <2>1. CASE j = 0
    BY <1>3, <2>1 DEF CurrentBytes
  <2>2. CASE j # 0
    <3>1. dir'[0] = dir[0]
      BY <1>4, <2>2, ConstantTypes
    <3> QED
      BY <1>2, <2>2, <3>1 DEF CurrentBytes
  <2> QED
    BY <2>1, <2>2
<1>6. InFile(j + 1)' = InFile(j) /\ InFile(j)' = {} /\ InFile(j + 1) = {}
  BY <1>2, <1>3 DEF InFile
<1>7. ASSUME NEW k \in Slot \ {j, j + 1} PROVE InFile(k)' = InFile(k)
  <2>1. dir'[k] = dir[k] /\ content' = content
    BY <1>2, <1>4
  <2> QED
    BY <2>1 DEF InFile
<1> QED
  BY <1>1, <1>2, <1>5, <1>6, <1>7

\* The write adds the newest record to the file that is named path.
LEMMA RecordAppended ==
  ASSUME TypeInv, NEW w \in Writers, Write(w), fd[w] = dir[0]
  PROVE  /\ InFile(0)' = InFile(0) \cup {written + 1}
         /\ \A k \in Slot \ {0} : InFile(k)' = InFile(k)
         /\ CurrentBytes' = CurrentBytes + 1 /\ written' = written + 1
<1>1. /\ dir \in [Slot -> Inode \cup {NoFile}] /\ content \in [Inode -> SUBSET RecordNo]
      /\ dir[0] \in Inode /\ written \in Nat
      /\ \A k \in Slot \ {0} : dir[k] # dir[0]
  BY ConstantTypes DEF TypeInv, TypeOK, Write
<1>2. /\ content' = [content EXCEPT ![dir[0]] = @ \cup {written + 1}]
      /\ dir' = dir /\ written' = written + 1
  BY DEF Write
<1>3. dir[0] # NoFile /\ content'[dir[0]] = content[dir[0]] \cup {written + 1}
  BY <1>1, <1>2, ConstantTypes
<1>4. Cardinality(content'[dir[0]]) = Cardinality(content[dir[0]]) + 1
  <2>1. written + 1 \notin content[dir[0]]
    BY <1>1 DEF TypeInv
  <2> QED
    BY <1>1, <1>3, <2>1, CountsAreFinite, FS_AddElement
<1>5. CurrentBytes' = CurrentBytes + 1
  BY <1>2, <1>3, <1>4 DEF CurrentBytes
<1> QED
  BY <1>1, <1>2, <1>3, <1>5 DEF InFile

\* All records of the log have been written.
LEMMA RecordsAreWritten ==
  ASSUME TypeInv
  PROVE  /\ written \in Nat /\ CurrentBytes \in Nat
         /\ \A k \in Slot : InFile(k) \subseteq 1..written
<1>1. dir[0] \in Inode \cup {NoFile}
  BY ConstantTypes DEF TypeInv, TypeOK
<1>2. CurrentBytes \in Nat
  BY <1>1, CountsAreFinite DEF CurrentBytes
<1>3. \A k \in Slot : InFile(k) \subseteq 1..written
  BY DEF InFile, TypeInv, TypeOK
<1> QED
  BY <1>2, <1>3 DEF TypeInv, TypeOK
-----------------------------------------------------------------------------
(* One invocation at a time.                                               *)

StepOf(w) == Begin(w) \/ Step(w) \/ Killed(w)

\* As long as nothing has overlapped, the others are idle and stay so.
LEMMA OthersIdle ==
  ASSUME TypeInv, SoloInv, NEW w \in Writers, StepOf(w), ~overlapped'
  PROVE  /\ ~overlapped
         /\ \A v \in Writers \ {w} : pc[v] = "idle" /\ pc'[v] = "idle"
<1>1. /\ ~overlapped /\ pc' = [pc EXCEPT ![w] = pc'[w]]
      /\ pc[w] = "idle" => \A v \in Writers : pc[v] = "idle"
  BY DEF StepOf, Step, TypeInv, TypeOK, Begin, Stat, FindOldest, RemoveOldest, FindSource,
     Shift, Open, Write, Killed, Abandon, NextName, Goto, histVars
<1>2. \A v \in Writers \ {w} : pc[v] = "idle"
  BY <1>1 DEF SoloInv, Alone, Active
<1> QED
  BY <1>1, <1>2 DEF TypeInv, TypeOK

\* The order of the records is kept when nothing is moved,
LEMMA OrderStays ==
  ASSUME Ordered, LostAreOlder, Untouched
  PROVE  Ordered' /\ LostAreOlder'
<1>1. Ordered'
  BY DEF Ordered, Untouched
<1>2. Kept' = Kept /\ Lost' = Lost
  BY DEF Kept, Lost, Untouched
<1> QED
  BY <1>1, <1>2 DEF LostAreOlder

\* when the oldest file is removed,
LEMMA OrderAfterRemoval ==
  ASSUME TypeInv, Ordered, LostAreOlder, Keep > 0, written' = written,
         InFile(Keep)' = {}, \A k \in Slot \ {Keep} : InFile(k)' = InFile(k)
  PROVE  Ordered' /\ LostAreOlder'
<1>1. Ordered'
  BY DEF Ordered
<1>2. LostAreOlder'
  <2> SUFFICES ASSUME NEW lost \in Lost', NEW kept \in Kept' PROVE lost < kept
    BY DEF LostAreOlder
  <2>1. PICK k \in Slot \ {Keep} : kept \in InFile(k)
    BY DEF Kept
  <2>2. kept \in Kept
    BY <2>1 DEF Kept
  <2>3. CASE lost \in InFile(Keep)
    <3>1. k < Keep
      BY <2>1, ConstantTypes DEF Slot
    <3> QED
      BY <2>1, <2>3, <3>1, ConstantTypes DEF Ordered
  <2>4. CASE lost \notin InFile(Keep)
    <3>1. lost \in Lost
      BY <2>4 DEF Lost, Kept
    <3> QED
      BY <2>2, <3>1 DEF LostAreOlder
  <2> QED
    BY <2>3, <2>4
<1> QED
  BY <1>1, <1>2

\* when a file goes up to a free name, which loses nothing,
LEMMA KeptAfterShift ==
  ASSUME NEW j \in Slot, j + 1 \in Slot, j + 1 # j,
         InFile(j + 1)' = InFile(j), InFile(j)' = {}, InFile(j + 1) = {},
         \A k \in Slot \ {j, j + 1} : InFile(k)' = InFile(k)
  PROVE  Kept' = Kept
<1>1. ASSUME NEW r \in Kept PROVE r \in Kept'
  <2>1. PICK k \in Slot : r \in InFile(k)
    BY DEF Kept
  <2>2. r \in InFile(IF k = j THEN j + 1 ELSE k)'
    BY <2>1
  <2> QED
    BY <2>2 DEF Kept
<1>2. ASSUME NEW r \in Kept' PROVE r \in Kept
  <2>1. PICK k \in Slot : r \in InFile(k)'
    BY DEF Kept
  <2>2. r \in InFile(IF k = j + 1 THEN j ELSE k)
    BY <2>1
  <2> QED
    BY <2>2 DEF Kept
<1> QED
  BY <1>1, <1>2

\* A file that moves up into an empty place keeps the order, and
LEMMA OrderAfterShift ==
  ASSUME TypeInv, Ordered, LostAreOlder, NEW j \in Slot, j + 1 \in Slot,
         written' = written, InFile(j + 1)' = InFile(j), InFile(j)' = {}, InFile(j + 1) = {},
         \A k \in Slot \ {j, j + 1} : InFile(k)' = InFile(k)
  PROVE  Ordered' /\ LostAreOlder'
<1>1. Ordered'
  <2> SUFFICES ASSUME NEW k \in Slot, NEW l \in Slot, k < l,
                      NEW newer \in InFile(k)', NEW older \in InFile(l)'
               PROVE  older < newer
    BY DEF Ordered
  <2>1. k \in Nat /\ l \in Nat /\ j \in Nat /\ k # j /\ l # j
    BY ConstantTypes
  <2>2. CASE k = j + 1
    <3>1. newer \in InFile(j) /\ older \in InFile(l) /\ j < l
      BY <2>1, <2>2
    <3> QED
      BY <3>1 DEF Ordered
  <2>3. CASE l = j + 1
    <3>1. newer \in InFile(k) /\ older \in InFile(j) /\ k < j
      BY <2>1, <2>3
    <3> QED
      BY <3>1 DEF Ordered
  <2>4. CASE k # j + 1 /\ l # j + 1
    BY <2>1, <2>4 DEF Ordered
  <2> QED
    BY <2>2, <2>3, <2>4
<1>2. Kept' = Kept
  <2>1. j + 1 # j
    BY ConstantTypes
  <2> QED
    BY <2>1, KeptAfterShift
<1> QED
  BY <1>1, <1>2 DEF LostAreOlder, Lost

\* and when the newest record is added to path, which loses nothing either.
LEMMA LostAfterWrite ==
  ASSUME TypeInv, written' = written + 1, InFile(0)' = InFile(0) \cup {written + 1},
         \A k \in Slot \ {0} : InFile(k)' = InFile(k)
  PROVE  Lost' \subseteq Lost
<1> SUFFICES ASSUME NEW lost \in Lost' PROVE lost \in Lost
  OBVIOUS
<1>1. written + 1 \in Kept' /\ Kept \subseteq Kept'
  BY ConstantTypes DEF Kept
<1>2. lost \in 1..(written + 1) /\ lost # written + 1 /\ lost \notin Kept
  BY <1>1 DEF Lost
<1> QED
  BY <1>2, RecordsAreWritten DEF Lost

\* so does a record added to the current file: it is the newest.
LEMMA OrderAfterWrite ==
  ASSUME TypeInv, Ordered, LostAreOlder, written' = written + 1,
         InFile(0)' = InFile(0) \cup {written + 1},
         \A k \in Slot \ {0} : InFile(k)' = InFile(k)
  PROVE  Ordered' /\ LostAreOlder'
<1>1. \A k \in Slot : \A r \in InFile(k) : r \in Nat /\ r < written + 1
  BY RecordsAreWritten
<1>2. Ordered'
  <2> SUFFICES ASSUME NEW k \in Slot, NEW l \in Slot, k < l,
                      NEW newer \in InFile(k)', NEW older \in InFile(l)'
               PROVE  older < newer
    BY DEF Ordered
  <2>1. l # 0 /\ older \in InFile(l)
    BY ConstantTypes
  <2> QED
    BY <1>1, <2>1 DEF Ordered
<1>3. LostAreOlder'
  <2> SUFFICES ASSUME NEW lost \in Lost', NEW kept \in Kept' PROVE lost < kept
    BY DEF LostAreOlder
  <2>1. kept = written + 1 \/ kept \in Kept
    BY DEF Kept
  <2>2. lost \in Lost /\ lost < written + 1
    BY LostAfterWrite, RecordsAreWritten DEF Lost
  <2> QED
    BY <2>1, <2>2 DEF LostAreOlder
<1> QED
  BY <1>2, <1>3

\* At first there is no record and nobody rotates.
LEMMA SoloInvInit == Init => SoloInv
<1> SUFFICES ASSUME Init PROVE SoloInv
  OBVIOUS
<1>1. Active = {} /\ Course
  BY DEF Init, Active, Course, CourseOf, Shifting, Rotating
<1>2. \A k \in Slot : InFile(k) = {}
  BY DEF Init, InFile
<1>3. Ordered /\ Kept = {}
  BY <1>2 DEF Ordered, Kept
<1> QED
  BY <1>1, <1>3 DEF SoloInv, Alone, LostAreOlder

\* An idle writer is nowhere.
LEMMA IdleCourse ==
  ASSUME NEW v \in Writers, pc'[v] = "idle"
  PROVE  CourseOf(v)'
BY DEF CourseOf, Shifting, Rotating

\* One invocation at a time, killed wherever it is, keeps the records in order.
LEMMA SoloInvStep == TypeInv /\ TypeInv' /\ SoloInv /\ [Next]_vars => SoloInv'
<1> SUFFICES ASSUME TypeInv, TypeInv', SoloInv, [Next]_vars, ~overlapped'
             PROVE  Alone' /\ Course' /\ Ordered' /\ LostAreOlder'
  BY DEF SoloInv
<1>1. CASE UNCHANGED vars
  <2>1. SoloInv' = SoloInv
    BY <1>1 DEF vars, histVars, SoloInv, Alone, Active, Course, CourseOf, CurrentBytes,
       Ordered, InFile, LostAreOlder, Lost, Kept
  <2> QED
    BY <2>1 DEF SoloInv
<1>2. ASSUME NEW w \in Writers, StepOf(w)
      PROVE  Alone' /\ Course' /\ Ordered' /\ LostAreOlder'
  <2>1. ~overlapped /\ \A v \in Writers \ {w} : pc'[v] = "idle"
    BY <1>2, OthersIdle
  <2>2. CourseOf(w) /\ Ordered /\ LostAreOlder
    BY <2>1 DEF SoloInv, Course
  <2>3. Alone'
    BY <2>1 DEF Alone, Active
  <2>4. SUFFICES CourseOf(w)' /\ Ordered' /\ LostAreOlder'
    BY <2>1, <2>3, IdleCourse DEF Course
  <2>5. /\ dir \in [Slot -> Inode \cup {NoFile}] /\ fd \in [Writers -> Inode \cup {NoFile}]
        /\ pc \in [Writers -> Steps] /\ index \in [Writers -> Slot]
        /\ index[w] \in Nat /\ CurrentBytes \in Nat
    BY ConstantTypes, RecordsAreWritten DEF TypeInv, TypeOK, Steps
  <2> USE ConstantTypes
  <2>6. CASE Begin(w)
    <3>1. Untouched
      BY <2>6, RestUntouched DEF Begin
    <3> QED
      BY <2>2, <2>5, <2>6, <3>1, OrderStays DEF Begin, Goto, CourseOf, Shifting, Rotating
  <2>7. CASE Stat(w)
    <3>1. Untouched
      BY <2>7, RestUntouched DEF Stat
    <3>2. pc'[w] \in {"find_oldest", "open"} /\ (pc'[w] = "find_oldest" => CurrentBytes' >= MaxBytes)
      BY <2>5, <2>7, <3>1 DEF Stat, Goto, MustRotate, Untouched
    <3> QED
      BY <2>2, <3>1, <3>2, OrderStays DEF CourseOf, Shifting, Rotating
  <2>8. CASE FindOldest(w)
    <3>1. Untouched
      BY <2>8, RestUntouched DEF FindOldest
    <3>2. CurrentBytes' >= MaxBytes
      BY <2>2, <2>8, <3>1 DEF FindOldest, CourseOf, Rotating, Untouched
    <3>3. /\ dir' = dir /\ index'[w] + 1 = Keep
          /\ pc'[w] = IF dir[Keep] # NoFile THEN "remove_oldest" ELSE "find"
      BY <2>5, <2>8 DEF FindOldest, Goto
    <3> QED
      BY <2>2, <3>1, <3>2, <3>3, OrderStays DEF CourseOf, Shifting, Rotating
  <2>9. CASE RemoveOldest(w)
    <3>1. dir[Keep] # NoFile /\ CurrentBytes >= MaxBytes /\ Keep > 0 /\ index[w] + 1 = Keep
      BY <2>2, <2>9 DEF RemoveOldest, CourseOf, Rotating, TypeInv
    <3>2. pc'[w] = "find" /\ index' = index /\ dir'[Keep] = NoFile
      BY <2>5, <2>9, <3>1 DEF RemoveOldest, Goto
    <3> QED
      BY <2>2, <2>9, <3>1, <3>2, OldestRemoved, OrderAfterRemoval
         DEF CourseOf, Shifting, Rotating
  <2>10. CASE FindSource(w)
    <3>1. Untouched
      BY <2>10, RestUntouched DEF FindSource
    <3>2. dir' = dir /\ CurrentBytes' >= MaxBytes /\ dir[index[w] + 1] = NoFile
      BY <2>2, <2>10, <3>1 DEF FindSource, CourseOf, Shifting, Rotating, Untouched
    <3>3. CASE dir[index[w]] # NoFile
      BY <2>2, <2>5, <2>10, <3>1, <3>2, <3>3, OrderStays
         DEF FindSource, Goto, CourseOf, Shifting, Rotating
    <3>4. CASE dir[index[w]] = NoFile
      <4>1. IF index[w] = 0 THEN pc'[w] = "open" ELSE pc'[w] = "find" /\ index'[w] + 1 = index[w]
        BY <2>5, <2>10, <3>4 DEF FindSource, NextName, Goto
      <4> QED
        BY <2>2, <3>1, <3>2, <3>4, <4>1, OrderStays DEF CourseOf, Shifting, Rotating
    <3> QED
      BY <3>3, <3>4
  <2>11. CASE Shift(w)
    <3>1. PICK j \in Nat : j = index[w]
      BY <2>5
    <3>2. dir[j] # NoFile /\ dir[j + 1] = NoFile /\ CurrentBytes >= MaxBytes
      BY <2>2, <2>11, <3>1 DEF Shift, CourseOf, Shifting, Rotating
    <3>3. /\ j \in Slot /\ j + 1 \in Slot /\ dir'[j] = NoFile
          /\ CurrentBytes' = IF j = 0 THEN 0 ELSE CurrentBytes
      BY <2>5, <2>11, <3>1, <3>2, FileShifted DEF Shift
    <3>4. Ordered' /\ LostAreOlder'
      BY <2>2, <2>11, <3>1, <3>2, FileShifted, OrderAfterShift
    <3>5. IF j = 0 THEN pc'[w] = "open" ELSE pc'[w] = "find" /\ index'[w] + 1 = j
      BY <2>5, <2>11, <3>1, <3>2 DEF Shift, NextName, Goto
    <3> QED
      BY <3>2, <3>3, <3>4, <3>5 DEF CourseOf, Shifting, Rotating
  <2>12. CASE Open(w)
    <3>1. Untouched /\ fd'[w] = dir'[0] /\ pc'[w] = "write"
      BY <2>5, <2>12, OpenUntouched DEF Open, Goto
    <3> QED
      BY <2>2, <3>1, OrderStays DEF CourseOf, Shifting, Rotating
  <2>13. CASE Write(w)
    <3>1. fd[w] = dir[0] /\ pc'[w] = "idle"
      BY <2>2, <2>5, <2>13 DEF Write, Goto, CourseOf
    <3> QED
      BY <2>2, <2>13, <3>1, RecordAppended, OrderAfterWrite, IdleCourse
  <2>14. CASE Killed(w)
    <3>1. Untouched /\ pc'[w] = "idle"
      BY <2>5, <2>14, RestUntouched DEF Killed, Goto
    <3> QED
      BY <2>2, <3>1, OrderStays, IdleCourse
  <2> QED
    BY <1>2, <2>6, <2>7, <2>8, <2>9, <2>10, <2>11, <2>12, <2>13, <2>14 DEF StepOf, Step
<1> QED
  BY <1>1, <1>2 DEF Next, StepOf

\* As long as no two invocations overlap, and wherever they are killed, what the
\* log loses is older than everything it keeps (rotate_logs of src/logger.rs).
THEOREM KeptAlwaysNewest == Spec => []KeptAreNewest
<1>1. SoloInv => KeptAreNewest
  BY DEF SoloInv, KeptAreNewest, LostAreOlder
<1> QED
  BY <1>1, TypeInvInit, TypeInvStep, SoloInvInit, SoloInvStep, PTL DEF Spec
-----------------------------------------------------------------------------
(* How much is kept.                                                       *)

\* Two facts about products that the provers need to be told.
LEMMA OneMoreFile ==
  ASSUME NEW n \in Int, NEW m \in Nat
  PROVE  (n + 1) * m = n * m + m
OBVIOUS

\* More files hold more records.
LEMMA MoreFiles ==
  ASSUME NEW a \in Int, NEW b \in Int, a <= b, NEW m \in Nat
  PROVE  a * m <= b * m /\ a * m \in Int /\ b * m \in Int
OBVIOUS

\* With the others idle, the holes are those of earlier rotations and of writer w's.
LEMMA HolesOfOne ==
  ASSUME NEW w \in Writers, \A v \in Writers \ {w} : pc[v] = "idle"
  PROVE  \A k \in Nat : Holes(k) = kills + (IF pc[w] \in Shifting /\ index[w] + 1 < k
                                            THEN 1 ELSE 0)
BY DEF Holes, Shifting

\* The same after a step.
LEMMA HolesOfOneStill ==
  ASSUME NEW w \in Writers, \A v \in Writers \ {w} : pc'[v] = "idle"
  PROVE  \A k \in Nat : Holes(k)' = kills' + (IF pc'[w] \in Shifting /\ index'[w] + 1 < k
                                              THEN 1 ELSE 0)
BY DEF Holes, Shifting

\* The holes are counted by a number.
LEMMA HolesType ==
  ASSUME TypeInv, NEW k \in Nat
  PROVE  Holes(k) \in Nat
BY ConstantTypes DEF Holes, TypeInv, TypeOK

\* What is behind the rotated files stays when they do, the holes do not get
\* fewer, and path grows as the records do.
LEMMA FilesStayBehind ==
  ASSUME TypeInv, TypeInv', FilesBehind,
         \A k \in 1..Keep : InFile(k)' \subseteq InFile(k),
         \A k \in 1..Keep : InFile(k)' # {} => Holes(k)' >= Holes(k) /\ Holes(k)' \in Nat,
         NEW n \in Nat, written' = written + n, CurrentBytes' = CurrentBytes + n
  PROVE  FilesBehind'
<1> SUFFICES ASSUME NEW k \in 1..Keep, NEW x \in InFile(k)'
             PROVE  written' - x >= (k - 1 - Holes(k)') * MaxBytes + CurrentBytes'
  BY DEF FilesBehind
<1>1. /\ k \in Nat /\ k \in Slot /\ x \in InFile(k) /\ MaxBytes \in Nat
      /\ Holes(k)' >= Holes(k) /\ Holes(k)' \in Nat /\ Holes(k) \in Nat
  BY ConstantTypes, HolesType DEF Slot
<1>2. x \in Nat /\ written \in Nat /\ CurrentBytes \in Nat
  BY <1>1, RecordsAreWritten
<1>3. written - x >= (k - 1 - Holes(k)) * MaxBytes + CurrentBytes
  BY <1>1 DEF FilesBehind
<1>4. /\ k - 1 - Holes(k)' \in Int /\ k - 1 - Holes(k) \in Int
      /\ k - 1 - Holes(k)' <= k - 1 - Holes(k)
  BY <1>1
<1> DEFINE p == (k - 1 - Holes(k)) * MaxBytes
           q == (k - 1 - Holes(k)') * MaxBytes
<1>5. q <= p /\ q \in Int /\ p \in Int
  BY <1>1, <1>4, MoreFiles
<1>6. written - x >= p + CurrentBytes
  BY <1>3
<1> HIDE DEF p, q
<1>7. written' - x >= q + CurrentBytes'
  BY <1>2, <1>5, <1>6
<1> QED
  BY <1>7 DEF q

\* What is behind the losses stays when nothing more is lost.
LEMMA LossesStayBehind ==
  ASSUME TypeInv, TypeInv', LossesBehind, Lost' \subseteq Lost,
         NEW n \in Nat, written' = written + n, NEW m \in Nat, kills' = kills + m
  PROVE  LossesBehind'
<1> SUFFICES ASSUME NEW lost \in Lost
             PROVE  written' - lost >= (Keep - kills') * MaxBytes
  BY DEF LossesBehind
<1>1. kills \in Nat /\ kills' \in Nat /\ written \in Nat /\ written' \in Nat
  BY ConstantTypes DEF TypeInv, TypeOK
<1>2. lost \in Nat /\ written \in Int /\ written' \in Int
  BY <1>1 DEF Lost
<1>3. /\ Keep - kills' \in Int /\ Keep - kills \in Int /\ Keep - kills' <= Keep - kills
      /\ MaxBytes \in Nat
  BY <1>1, ConstantTypes
<1> DEFINE p == (Keep - kills) * MaxBytes
           q == (Keep - kills') * MaxBytes
<1>4. q <= p /\ q \in Int /\ p \in Int
  BY <1>3, MoreFiles
<1>5. written - lost >= p
  BY DEF LossesBehind
<1> HIDE DEF p, q
<1>6. written' - lost >= q
  BY <1>1, <1>2, <1>4, <1>5
<1> QED
  BY <1>6 DEF q

\* When the oldest file is removed, the records in it have Keep files behind them.
LEMMA RemovalIsBehind ==
  ASSUME TypeInv, TypeInv', FilesBehind, LossesBehind, Keep > 0, Holes(Keep) = kills,
         CurrentBytes >= MaxBytes, written' = written, kills' = kills,
         \A k \in Slot \ {Keep} : InFile(k)' = InFile(k)
  PROVE  LossesBehind'
<1> SUFFICES ASSUME NEW lost \in Lost'
             PROVE  written - lost >= (Keep - kills) * MaxBytes
  BY DEF LossesBehind
<1>1. CASE lost \in InFile(Keep)
  <2>1. kills \in Nat /\ written \in Nat /\ lost \in Nat /\ CurrentBytes \in Nat
    BY <1>1, ConstantTypes, RecordsAreWritten DEF TypeInv, TypeOK
  <2> DEFINE n == Keep - 1 - kills
             p == n * MaxBytes
  <2>2. n \in Int /\ n + 1 = Keep - kills
    BY <2>1, ConstantTypes
  <2>3. written - lost >= p + CurrentBytes
    BY <1>1, ConstantTypes DEF FilesBehind
  <2>4. p \in Int /\ (n + 1) * MaxBytes = p + MaxBytes
    BY <2>2, ConstantTypes, OneMoreFile, MoreFiles
  <2> HIDE DEF n, p
  <2>5. written - lost >= p + MaxBytes
    BY <2>1, <2>3, <2>4, ConstantTypes
  <2> QED
    BY <2>2, <2>4, <2>5
<1>2. CASE lost \notin InFile(Keep)
  <2>1. lost \in Lost
    BY <1>2 DEF Lost, Kept
  <2> QED
    BY <2>1 DEF LossesBehind
<1> QED
  BY <1>1, <1>2

\* A file that goes up by one leaves one more hole below it, until path itself,
\* which is full, has gone up too.
LEMMA ShiftIsBehind ==
  ASSUME TypeInv, TypeInv', FilesBehind, NEW j \in Nat, j \in Slot, j + 1 \in Slot,
         \A k \in Nat : Holes(k) = kills + (IF j + 1 < k THEN 1 ELSE 0),
         \A k \in Nat : Holes(k)' = kills + (IF 0 < j /\ j < k THEN 1 ELSE 0),
         InFile(j + 1)' = InFile(j), InFile(j)' = {},
         \A k \in Slot \ {j, j + 1} : InFile(k)' = InFile(k),
         CurrentBytes >= MaxBytes, written' = written,
         CurrentBytes' = (IF j = 0 THEN 0 ELSE CurrentBytes)
  PROVE  FilesBehind'
<1> SUFFICES ASSUME NEW k \in 1..Keep, NEW x \in InFile(k)'
             PROVE  written - x >= (k - 1 - Holes(k)') * MaxBytes + CurrentBytes'
  BY DEF FilesBehind
<1>1. /\ k \in Nat /\ k >= 1 /\ k \in Slot /\ k # j /\ kills \in Nat /\ MaxBytes \in Nat
      /\ written \in Nat /\ CurrentBytes \in Nat
  BY ConstantTypes, RecordsAreWritten DEF Slot, TypeInv, TypeOK
<1>2. CASE k = j + 1 /\ j = 0
  <2>1. Holes(k)' = kills /\ x \in InFile(0)
    BY <1>1, <1>2
  <2>2. x \in Nat /\ x <= written
    BY <2>1, ConstantTypes, RecordsAreWritten
  <2>3. (0 - kills) * MaxBytes <= 0 * MaxBytes /\ (0 - kills) * MaxBytes \in Int
    BY <1>1, MoreFiles
  <2>4. 0 * MaxBytes = 0 /\ k - 1 - Holes(k)' = 0 - kills
    BY <1>1, <1>2, <2>1
  <2> DEFINE p == (0 - kills) * MaxBytes
  <2>5. p <= 0 /\ p \in Int
    BY <2>3, <2>4
  <2> HIDE DEF p
  <2>6. written - x >= p + 0
    BY <1>1, <2>2, <2>5
  <2> QED
    BY <1>2, <2>4, <2>6 DEF p
<1>3. CASE k = j + 1 /\ j # 0
  <2>1. j \in 1..Keep /\ x \in InFile(j)
    BY <1>1, <1>3, ConstantTypes DEF Slot
  <2>2. Holes(j) = kills /\ Holes(k)' = kills + 1
    BY <1>1, <1>3
  <2>3. k - 1 - Holes(k)' = j - 1 - Holes(j) /\ CurrentBytes' = CurrentBytes
    BY <1>1, <1>3, <2>2
  <2> QED
    BY <2>1, <2>3 DEF FilesBehind
<1>4. CASE k # j + 1
  <2>1. x \in InFile(k) /\ x \in Nat
    BY <1>1, <1>4, RecordsAreWritten
  <2>2. written - x >= (k - 1 - Holes(k)) * MaxBytes + CurrentBytes
    BY <2>1 DEF FilesBehind
  <2>3. CASE j # 0
    <3>1. Holes(k)' = Holes(k) /\ CurrentBytes' = CurrentBytes
      BY <1>1, <1>4, <2>3
    <3> QED
      BY <2>2, <3>1
  <2>4. CASE j = 0
    <3> DEFINE n == k - 1 - Holes(k)
               p == n * MaxBytes
    <3>1. Holes(k) = kills + 1 /\ Holes(k)' = kills /\ CurrentBytes' = 0
      BY <1>1, <1>4, <2>4
    <3>2. n \in Int /\ k - 1 - Holes(k)' = n + 1
      BY <1>1, <3>1
    <3>3. p \in Int /\ (n + 1) * MaxBytes = p + MaxBytes
      BY <1>1, <3>2, OneMoreFile, MoreFiles
    <3>4. written - x >= p + CurrentBytes
      BY <2>2
    <3> HIDE DEF n, p
    <3>5. written - x >= p + MaxBytes
      BY <1>1, <2>1, <3>3, <3>4
    <3> QED
      BY <1>1, <3>1, <3>2, <3>3, <3>5
  <2> QED
    BY <2>3, <2>4
<1> QED
  BY <1>2, <1>3, <1>4

\* At first there is nothing to be behind of.
LEMMA RetentionInvInit == Init => RetentionInv
<1> SUFFICES ASSUME Init PROVE FilesBehind /\ LossesBehind
  BY DEF RetentionInv
<1>1. \A k \in Slot : InFile(k) = {}
  BY DEF Init, InFile
<1>2. 1..Keep \subseteq Slot /\ Lost = {}
  BY ConstantTypes DEF Slot, Init, Lost
<1> QED
  BY <1>1, <1>2 DEF FilesBehind, LossesBehind

\* Every system call keeps MaxBytes records behind each rotated file and each
\* hole, one hole for each killed invocation.
LEMMA RetentionInvStep ==
  TypeInv /\ TypeInv' /\ SoloInv /\ RetentionInv /\ [Next]_vars => RetentionInv'
<1> SUFFICES ASSUME TypeInv, TypeInv', SoloInv, RetentionInv, [Next]_vars, ~overlapped'
             PROVE  FilesBehind' /\ LossesBehind'
  BY DEF RetentionInv
<1>1. CASE UNCHANGED vars
  <2>1. RetentionInv' = RetentionInv
    BY <1>1 DEF vars, histVars, RetentionInv, FilesBehind, LossesBehind, Holes, CurrentBytes,
       InFile, Lost, Kept
  <2> QED
    BY <2>1 DEF RetentionInv
<1>2. ASSUME NEW w \in Writers, StepOf(w) PROVE FilesBehind' /\ LossesBehind'
  <2>1. ~overlapped /\ \A v \in Writers \ {w} : pc[v] = "idle" /\ pc'[v] = "idle"
    BY <1>2, OthersIdle
  <2>2. CourseOf(w) /\ FilesBehind /\ LossesBehind
    BY <2>1 DEF SoloInv, Course, RetentionInv
  <2>3. /\ \A k \in Nat : Holes(k) = kills + (IF pc[w] \in Shifting /\ index[w] + 1 < k
                                              THEN 1 ELSE 0)
        /\ \A k \in Nat : Holes(k)' = kills' + (IF pc'[w] \in Shifting /\ index'[w] + 1 < k
                                                THEN 1 ELSE 0)
    BY <2>1, HolesOfOne, HolesOfOneStill
  <2>4. /\ dir \in [Slot -> Inode \cup {NoFile}] /\ fd \in [Writers -> Inode \cup {NoFile}]
        /\ pc \in [Writers -> Steps] /\ index \in [Writers -> Slot]
        /\ index[w] \in Nat /\ CurrentBytes \in Nat /\ kills \in Nat /\ kills' \in Nat
    <3>1. kills \in Nat /\ kills' \in Nat
      BY ConstantTypes DEF TypeInv, TypeOK
    <3> QED
      BY <3>1, ConstantTypes, RecordsAreWritten DEF TypeInv, TypeOK, Steps
  <2>5. 1..Keep \subseteq Slot /\ 1..Keep \subseteq Nat \ {0}
    BY ConstantTypes DEF Slot
  <2>6. ASSUME Untouched, NEW m \in Nat, kills' = kills + m,
               \A k \in 1..Keep : InFile(k)' # {} => Holes(k)' >= Holes(k)
        PROVE  FilesBehind' /\ LossesBehind'
    <3>1. \A k \in 1..Keep : InFile(k)' # {} => Holes(k)' >= Holes(k) /\ Holes(k)' \in Nat
      BY <2>3, <2>4, <2>5, <2>6
    <3>2. Lost' = Lost /\ written' = written + 0 /\ CurrentBytes' = CurrentBytes + 0
      BY <2>4, <2>6, RecordsAreWritten DEF Untouched, Lost, Kept
    <3> QED
      BY <2>2, <2>5, <2>6, <3>1, <3>2, FilesStayBehind, LossesStayBehind DEF Untouched
  <2>7. CASE Begin(w) \/ Stat(w) \/ FindOldest(w) \/ Killed(w)
    <3>1. Untouched
      BY <2>7, RestUntouched DEF Begin, Stat, FindOldest, Killed
    <3>2. kills' \in {kills, kills + 1} /\ (kills' = kills + 1 \/ pc[w] \notin Shifting)
      BY <2>4, <2>7 DEF Begin, Stat, FindOldest, Killed, Shifting, histVars
    <3>3. \A k \in 1..Keep : Holes(k)' >= Holes(k)
      BY <2>3, <2>4, <2>5, <3>2
    <3> QED
      BY <2>4, <2>6, <3>1, <3>2, <3>3
  <2>8. CASE Open(w)
    <3>1. Untouched /\ kills' = kills /\ pc[w] \notin Shifting
      BY <2>8, OpenUntouched DEF Open, Shifting
    <3>2. \A k \in 1..Keep : Holes(k)' >= Holes(k)
      BY <2>3, <2>4, <2>5, <3>1
    <3> QED
      BY <2>4, <2>6, <3>1, <3>2
  <2>9. CASE FindSource(w)
    <3>1. Untouched /\ kills' = kills
      BY <2>9, RestUntouched DEF FindSource
    <3>2. /\ MaxBytes > 0 /\ CurrentBytes >= MaxBytes /\ dir[index[w] + 1] = NoFile
      BY <2>2, <2>9 DEF FindSource, CourseOf, Shifting, Rotating, TypeInv
    <3>3. dir[0] # NoFile
      BY <3>2, ConstantTypes DEF CurrentBytes
    <3>4. /\ pc'[w] \in Shifting
          /\ index'[w] = index[w] \/ index'[w] + 1 = index[w]
      BY <2>4, <2>9, <3>3 DEF FindSource, NextName, Goto, Shifting
    <3>5. \A k \in 1..Keep : Holes(k)' >= Holes(k)
      <4>1. index'[w] \in Nat
        BY ConstantTypes DEF TypeInv, TypeOK
      <4> QED
        BY <2>3, <2>4, <2>5, <3>1, <3>4, <4>1
    <3> QED
      BY <2>4, <2>6, <3>1, <3>5
  <2>10. CASE RemoveOldest(w)
    <3>1. /\ dir[Keep] # NoFile /\ CurrentBytes >= MaxBytes /\ Keep > 0
          /\ pc[w] = "remove_oldest" /\ index[w] + 1 = Keep
      BY <2>2, <2>10 DEF RemoveOldest, CourseOf, Rotating, TypeInv
    <3>2. kills' = kills /\ pc'[w] = "find" /\ index' = index
      BY <2>4, <2>10, <3>1 DEF RemoveOldest, Goto
    <3>3. /\ \A k \in 1..Keep : Holes(k) = kills /\ Holes(k)' = kills
          /\ Holes(Keep) = kills
      BY <2>3, <2>4, <2>5, <3>1, <3>2, ConstantTypes DEF Shifting
    <3>4. /\ InFile(Keep)' = {} /\ \A k \in Slot \ {Keep} : InFile(k)' = InFile(k)
          /\ CurrentBytes' = CurrentBytes + 0 /\ written' = written /\ written' = written + 0
      BY <2>4, <2>10, <3>1, OldestRemoved, RecordsAreWritten
    <3>5. FilesBehind'
      BY <2>2, <2>4, <2>5, <3>3, <3>4, FilesStayBehind
    <3> QED
      BY <2>2, <3>1, <3>2, <3>3, <3>4, <3>5, RemovalIsBehind
  <2>11. CASE Shift(w)
    <3>1. PICK j \in Nat : j = index[w]
      BY <2>4
    <3>2. dir[j] # NoFile /\ dir[j + 1] = NoFile /\ CurrentBytes >= MaxBytes
      BY <2>2, <2>11, <3>1 DEF Shift, CourseOf, Shifting, Rotating
    <3>3. kills' = kills /\ IF j = 0 THEN pc'[w] = "open" ELSE pc'[w] = "find" /\ index'[w] + 1 = j
      BY <2>4, <2>11, <3>1, <3>2 DEF Shift, NextName, Goto
    <3>4. /\ \A k \in Nat : Holes(k) = kills + (IF j + 1 < k THEN 1 ELSE 0)
          /\ \A k \in Nat : Holes(k)' = kills + (IF 0 < j /\ j < k THEN 1 ELSE 0)
      BY <2>3, <2>11, <3>1, <3>3 DEF Shift, Shifting
    <3>5. FilesBehind'
      BY <2>2, <2>11, <3>1, <3>2, <3>4, FileShifted, ShiftIsBehind
    <3>6. Kept' = Kept /\ written' = written
      BY <2>11, <3>1, <3>2, FileShifted, KeptAfterShift
    <3>7. Lost' = Lost /\ written' = written + 0 /\ kills' = kills + 0
      BY <2>4, <3>3, <3>6, RecordsAreWritten DEF Lost
    <3> QED
      BY <2>2, <3>5, <3>7, LossesStayBehind
  <2>12. CASE Write(w)
    <3>1. fd[w] = dir[0] /\ kills' = kills /\ pc[w] = "write" /\ pc'[w] = "idle"
      BY <2>2, <2>4, <2>12 DEF Write, Goto, CourseOf
    <3>2. /\ InFile(0)' = InFile(0) \cup {written + 1}
          /\ \A k \in Slot \ {0} : InFile(k)' = InFile(k)
          /\ CurrentBytes' = CurrentBytes + 1 /\ written' = written + 1
      BY <2>12, <3>1, RecordAppended
    <3>3. \A k \in 1..Keep : Holes(k)' >= Holes(k) /\ Holes(k)' \in Nat
      BY <2>3, <2>4, <2>5, <3>1 DEF Shifting
    <3>4. FilesBehind'
      BY <2>2, <2>5, <3>2, <3>3, FilesStayBehind
    <3>5. Lost' \subseteq Lost /\ kills' = kills + 0
      BY <2>4, <3>1, <3>2, LostAfterWrite
    <3> QED
      BY <2>2, <3>2, <3>4, <3>5, LossesStayBehind
  <2> QED
    BY <1>2, <2>7, <2>8, <2>9, <2>10, <2>11, <2>12 DEF StepOf, Step
<1> QED
  BY <1>1, <1>2 DEF Next, StepOf

\* As long as no two invocations overlap, a record is lost only with keep_files
\* full files of newer ones behind it, less one for each invocation killed
\* (rotate_logs and append of src/logger.rs).
THEOREM LossAlwaysNeedsRetention == Spec => []LossNeedsRetention
<1>1. RetentionInv => LossNeedsRetention
  BY DEF RetentionInv, LossesBehind, LossNeedsRetention
<1> QED
  BY <1>1, TypeInvInit, TypeInvStep, SoloInvInit, SoloInvStep, RetentionInvInit,
     RetentionInvStep, PTL DEF Spec
=============================================================================
