------------------------- MODULE ConfigFinalizeProofs -------------------------
(***************************************************************************)
(* The properties of ConfigFinalize for any number of profiles, rules and  *)
(* settings.  Nothing but the user writes the state, so the invariant is   *)
(* its types (FilesInv), and each property is a fact about every pair of   *)
(* files.  The first of them is what the walk along "extends" finds.       *)
(***************************************************************************)
EXTENDS ConfigFinalize, Recursion, FiniteSetTheorems, TLAPS

-----------------------------------------------------------------------------
(* Types.                                                                  *)

Names == ProfileNames \cup {"nowhere"}

Rulings == [RuleIds -> Seq({"allow", "ask"})]

Entry ==
  [extends : Names \cup {Unset}, safety : Levels \cup {Unset}, rules : Rulings,
   allow : BOOLEAN, prompt : Prompts \cup {Unset}]

Profiles == UNION {[S -> Entry] : S \in SUBSET ProfileNames}

File ==
  [status : {"readable", "broken", "unreadable"}, safety : Levels \cup {Unset},
   trust : {"full", Unset}, disable : SUBSET RuleIds, rules : Rulings, allow : BOOLEAN,
   prompt : Prompts \cup {Unset}, defaults : [Runtimes -> Names \cup {Unset}],
   profiles : Profiles]

FilesInv == files \in [Overlays -> File]

\* Rules of one id are rulings.
LEMMA RulingsOf ==
  ASSUME NEW id, NEW decisions \in Seq({"allow", "ask"})
  PROVE  RulesOf(id, decisions) \in Rulings
<1> DEFINE R == Seq({"allow", "ask"})
<1>1. NoRules \in [RuleIds -> R]
  BY DEF NoRules
<1>2. decisions \in R
  OBVIOUS
<1> HIDE DEF R
<1>3. [NoRules EXCEPT ![id] = decisions] \in [RuleIds -> R]
  BY <1>1, <1>2
<1> QED
  BY <1>3 DEF RulesOf, Rulings, R

\* Nothing is written in an empty file and an empty entry, and
LEMMA EmptyTypes == EmptyFile \in File /\ EmptyEntry \in Entry
<1>1. NoProfiles \in [{} -> Entry]
  BY DEF NoProfiles
<1>2. NoProfiles \in Profiles
  BY <1>1 DEF Profiles
<1>3. NoRules \in Rulings
  BY DEF NoRules, Rulings
<1> QED
  BY <1>2, <1>3 DEF EmptyFile, EmptyEntry, File, Entry, NoDefaults

\* an entry that occurs is one.
LEMMA EntriesTypes == Entries \subseteq Entry
<1> SUFFICES ASSUME NEW e \in Entries PROVE e \in Entry
  OBVIOUS
<1>1. EmptyEntry \in Entry
  BY EmptyTypes
<1>2. <<"allow">> \in Seq({"allow", "ask"}) /\ <<"ask">> \in Seq({"allow", "ask"})
      /\ <<"allow", "ask">> \in Seq({"allow", "ask"})
  OBVIOUS
<1>3. \A id : /\ RulesOf(id, <<"allow">>) \in Rulings /\ RulesOf(id, <<"ask">>) \in Rulings
              /\ RulesOf(id, <<"allow", "ask">>) \in Rulings
  BY <1>2, RulingsOf
<1>4. Bodies \subseteq Entry
  <2>1. ASSUME NEW id
        PROVE  [EmptyEntry EXCEPT !.safety = "critical", !.allow = TRUE, !.prompt = "good",
                                  !.rules = RulesOf(id, <<"allow">>)] \in Entry
    BY <1>1, <1>3 DEF Entry, Levels, Prompts
  <2>2. ASSUME NEW id
        PROVE  [EmptyEntry EXCEPT !.safety = "strict", !.prompt = "blank",
                                  !.rules = RulesOf(id, <<"ask">>)] \in Entry
    BY <1>1, <1>3 DEF Entry, Levels, Prompts
  <2> QED
    BY <1>1, <2>1, <2>2 DEF Bodies
<1>5. ASSUME NEW body \in Bodies, NEW parent \in {Unset, "nowhere"} \cup (ProfileNames \ {"unresolved"})
      PROVE  [body EXCEPT !.extends = parent] \in Entry
  BY <1>4 DEF Entry, Names
<1>6. ASSUME NEW id PROVE [EmptyEntry EXCEPT !.rules = RulesOf(id, <<"allow", "ask">>)] \in Entry
  BY <1>1, <1>3 DEF Entry
<1>7. [EmptyEntry EXCEPT !.prompt = "bad"] \in Entry
  BY <1>1 DEF Entry, Prompts
<1> QED
  BY <1>5, <1>6, <1>7 DEF Entries

\* No file is written at first.
LEMMA FilesInvInit == Init => FilesInv
BY EmptyTypes DEF Init, FilesInv

\* What the user writes has its type.
LEMMA FilesInvStep == FilesInv /\ [Next]_vars => FilesInv'
<1> SUFFICES ASSUME FilesInv, [Next]_vars PROVE FilesInv'
  OBVIOUS
<1>1. CASE UNCHANGED vars
  BY <1>1 DEF vars, FilesInv
<1>2. ASSUME NEW f \in Overlays, Edit(f) PROVE FilesInv'
  <2>0. files[f] \in File
    BY DEF FilesInv
  <2>1. ASSUME NEW file \in File, files' = [files EXCEPT ![f] = file] PROVE FilesInv'
    BY <2>1 DEF FilesInv
  <2>2. ASSUME NEW s \in {"broken", "unreadable"}, Set(f, "status", s) PROVE FilesInv'
    <3>1. files' = [files EXCEPT ![f] = [files[f] EXCEPT !.status = s]]
      BY <2>2 DEF Set, FilesInv
    <3> QED
      BY <2>0, <2>1, <3>1 DEF File
  <2>3. ASSUME NEW l \in Levels, Set(f, "safety", l) PROVE FilesInv'
    <3>1. files' = [files EXCEPT ![f] = [files[f] EXCEPT !.safety = l]]
      BY <2>3 DEF Set, FilesInv
    <3> QED
      BY <2>0, <2>1, <3>1 DEF File
  <2>4. CASE Set(f, "trust", "full")
    <3>1. files' = [files EXCEPT ![f] = [files[f] EXCEPT !.trust = "full"]]
      BY <2>4 DEF Set, FilesInv
    <3> QED
      BY <2>0, <2>1, <3>1 DEF File
  <2>5. CASE Set(f, "allow", TRUE)
    <3>1. files' = [files EXCEPT ![f] = [files[f] EXCEPT !.allow = TRUE]]
      BY <2>5 DEF Set, FilesInv
    <3> QED
      BY <2>0, <2>1, <3>1 DEF File
  <2>6. ASSUME NEW id \in OverlayIds, Set(f, "disable", {id}) PROVE FilesInv'
    <3>1. files' = [files EXCEPT ![f] = [files[f] EXCEPT !.disable = {id}]]
      BY <2>6 DEF Set, FilesInv
    <3> QED
      BY <2>0, <2>1, <3>1 DEF File, RuleIds
  <2>7. ASSUME NEW id \in OverlayIds, Set(f, "rules", RulesOf(id, <<"ask">>)) PROVE FilesInv'
    <3>1. files' = [files EXCEPT ![f] = [files[f] EXCEPT !.rules = RulesOf(id, <<"ask">>)]]
      BY <2>7 DEF Set, FilesInv
    <3>2. <<"ask">> \in Seq({"allow", "ask"})
      OBVIOUS
    <3>3. RulesOf(id, <<"ask">>) \in Rulings
      BY <3>2, RulingsOf
    <3> QED
      BY <2>0, <2>1, <3>1, <3>3 DEF File
  <2>8. ASSUME NEW p \in Prompts, Set(f, "prompt", p) PROVE FilesInv'
    <3>1. files' = [files EXCEPT ![f] = [files[f] EXCEPT !.prompt = p]]
      BY <2>8 DEF Set, FilesInv
    <3> QED
      BY <2>0, <2>1, <3>1 DEF File
  <2>9. ASSUME NEW rt \in Runtimes, NEW n \in (ProfileNames \ {"unresolved"}) \cup {"nowhere"},
               Set(f, "defaults", [NoDefaults EXCEPT ![rt] = n])
        PROVE  FilesInv'
    <3>1. files' = [files EXCEPT ![f] = [files[f] EXCEPT !.defaults = [NoDefaults EXCEPT ![rt] = n]]]
      BY <2>9 DEF Set, FilesInv
    <3>2. [NoDefaults EXCEPT ![rt] = n] \in [Runtimes -> Names \cup {Unset}]
      BY DEF NoDefaults, Names
    <3> QED
      BY <2>0, <2>1, <3>1, <3>2 DEF File
  <2>10. ASSUME NEW n \in ProfileNames, NEW entry \in Entry, AddProfile(f, n, entry) PROVE FilesInv'
    <3> DEFINE old == files[f].profiles
               new == [m \in DOMAIN old \cup {n} |-> IF m = n THEN entry ELSE old[m]]
    <3>1. files' = [files EXCEPT ![f] = [files[f] EXCEPT !.profiles = new]]
      BY <2>10 DEF AddProfile, FilesInv
    <3>2. PICK S \in SUBSET ProfileNames : old \in [S -> Entry]
      BY <2>0 DEF File, Profiles
    <3>3. new \in [S \cup {n} -> Entry]
      BY <3>2
    <3>4. new \in Profiles
      BY <3>3 DEF Profiles
    <3> HIDE DEF new
    <3> QED
      BY <2>0, <2>1, <3>1, <3>4 DEF File
  <2>11. CASE AddProfile(f, "unresolved", EmptyEntry)
    BY <2>10, <2>11, ConfigAssumption, EmptyTypes
  <2>12. ASSUME NEW n \in ProfileNames \ {"unresolved"}, NEW entry \in Entries, AddProfile(f, n, entry)
         PROVE  FilesInv'
    BY <2>10, <2>12, EntriesTypes
  <2> QED
    BY <1>2, <2>2, <2>3, <2>4, <2>5, <2>6, <2>7, <2>8, <2>9, <2>11, <2>12 DEF Edit
<1> QED
  BY <1>1, <1>2 DEF Next

\* Everything in the two files has its type.
THEOREM TypeCorrect == Spec => []FilesInv
BY FilesInvInit, FilesInvStep, PTL DEF Spec

-----------------------------------------------------------------------------
(* What is above a profile.                                                *)

\* The files as their types leave them to the operators.
LEMMA ContentTypes == FilesInv => \A f \in Overlays : Content(f) \in File
BY EmptyTypes DEF FilesInv, Content

\* Every merged profile is one of ProfileNames, its parent is a name, and so is
\* whatever a default selects.
LEMMA MergedTypes ==
  FilesInv => /\ MergedNames \subseteq ProfileNames
              /\ \A n \in MergedNames : Union[n] \in Entry /\ Parent(n) \in Names
<1> SUFFICES ASSUME FilesInv
             PROVE  /\ MergedNames \subseteq ProfileNames
                    /\ \A n \in MergedNames : Union[n] \in Entry /\ Parent(n) \in Names
  OBVIOUS
<1>1. Global \in File /\ Project \in File
  BY ContentTypes DEF Global, Project, Overlays
<1>2. PICK S \in SUBSET ProfileNames : Global.profiles \in [S -> Entry]
  BY <1>1 DEF File, Profiles
<1>3. PICK T \in SUBSET ProfileNames : Project.profiles \in [T -> Entry]
  BY <1>1 DEF File, Profiles
<1>4. MergedNames = S \cup T
  BY <1>2, <1>3 DEF MergedNames
<1>5. \A n \in MergedNames : Union[n] \in Entry
  BY <1>2, <1>3, <1>4 DEF Union
<1>6. \A n \in MergedNames : Parent(n) \in Names
  BY <1>5, ConfigAssumption DEF Parent, Entry, Names
<1> QED
  BY <1>4, <1>5, <1>6

\* A set of names that holds the parents of its members.
HoldsParents(C) == \A m \in (C \cap MergedNames) \ {"default"} : Parent(m) \in C

Rounds == Cardinality(ProfileNames)

Upward(up, n) ==
  up = [k \in 0..Rounds |->
          IF k = 0 THEN {n}
          ELSE up[k - 1] \cup {Parent(m) : m \in (up[k - 1] \cap MergedNames) \ {"default"}}]

\* There is a profile at least: the default one.
LEMMA RoundsType == Rounds \in Nat /\ Rounds # 0
<1>1. IsFiniteSet(ProfileNames) /\ ProfileNames # {}
  BY ConfigAssumption
<1> QED
  BY <1>1, FS_CardinalityType, FS_EmptySet DEF Rounds

\* The rounds in which Above collects its names.
LEMMA AboveInRounds ==
  FilesInv =>
    \A n \in Names :
      \E up \in [0..Rounds -> SUBSET Names] : Upward(up, n) /\ Above(n) = up[Rounds]
<1> SUFFICES ASSUME FilesInv, NEW n \in Names
             PROVE  \E up \in [0..Rounds -> SUBSET Names] : Upward(up, n) /\ Above(n) = up[Rounds]
  OBVIOUS
<1> DEFINE A == SUBSET Names
           grow == [S \in A |-> S \cup {Parent(m) : m \in (S \cap MergedNames) \ {"default"}}]
           step == [k \in 1..Rounds |-> grow]
<1>1. grow \in [A -> A]
  BY MergedTypes
<1>2. \A S \in A : grow[S] = S \cup {Parent(m) : m \in (S \cap MergedNames) \ {"default"}}
  OBVIOUS
<1> HIDE DEF grow
<1>3. step \in [1..Rounds -> [A -> A]]
  BY <1>1
<1>4. {n} \in A
  OBVIOUS
<1>5. PICK up \in [0..Rounds -> A] : Iterates(up, Rounds, {n}, step)
  <2> HIDE DEF A, step
  <2> QED
    BY <1>3, <1>4, RoundsType, Iteration
<1>6. ASSUME NEW k \in 0..Rounds, k # 0 PROVE step[k][up[k - 1]] = grow[up[k - 1]] /\ up[k - 1] \in A
  <2>1. k \in 1..Rounds /\ k - 1 \in 0..Rounds
    BY <1>6, RoundsType
  <2> QED
    BY <1>5, <2>1
<1>6a. up = [k \in 0..Rounds |-> IF k = 0 THEN {n} ELSE step[k][up[k - 1]]]
  BY <1>5 DEF Iterates
<1>7. Upward(up, n)
  <2>1. \A k \in 0..Rounds : up[k] = IF k = 0 THEN {n} ELSE step[k][up[k - 1]]
    BY <1>6a
  <2>2. ASSUME NEW k \in 0..Rounds
        PROVE  up[k] = IF k = 0 THEN {n}
                       ELSE up[k - 1] \cup {Parent(m) : m \in (up[k - 1] \cap MergedNames) \ {"default"}}
    BY <1>2, <1>6, <2>1
  <2>3. up = [k \in 0..Rounds |-> up[k]]
    BY <1>5
  <2> QED
    BY <2>2, <2>3 DEF Upward
<1> DEFINE chosen == CHOOSE f : Upward(f, n)
<1>8. Upward(chosen, n)
  BY <1>7
<1>9. Above(n) = chosen[Rounds]
  BY DEF Above, Upward, Rounds
<1>10. chosen = up
  <2> HIDE DEF chosen
  <2>1. chosen = [k \in 0..Rounds |-> chosen[k]] /\ up = [k \in 0..Rounds |-> up[k]]
    BY <1>7, <1>8 DEF Upward
  <2> DEFINE G == {k \in 0..Rounds : chosen[k] = up[k]}
  <2>2. 0 \in G
    BY <1>7, <1>8, RoundsType DEF Upward
  <2>3. ASSUME NEW k \in 0..(Rounds - 1), k \in G PROVE k + 1 \in G
    <3>1. k + 1 \in 0..Rounds /\ k + 1 # 0 /\ (k + 1) - 1 = k
      BY RoundsType
    <3>2. up[k + 1] = up[k] \cup {Parent(m) : m \in (up[k] \cap MergedNames) \ {"default"}}
      BY <1>7, <3>1 DEF Upward
    <3>3. chosen[k + 1] = chosen[k] \cup {Parent(m) : m \in (chosen[k] \cap MergedNames) \ {"default"}}
      BY <1>8, <3>1 DEF Upward
    <3> QED
      BY <2>3, <3>1, <3>2, <3>3
  <2> HIDE DEF G
  <2>4. 0..Rounds \subseteq G
    BY <2>2, <2>3, RoundsType, CountingUp
  <2>5. \A k \in 0..Rounds : chosen[k] = up[k]
    BY <2>4 DEF G
  <2> QED
    BY <2>1, <2>5
<1> QED
  BY <1>5, <1>7, <1>9, <1>10

\* Above has the profile, and no more than a set that holds it and its parents.
LEMMA AboveIsLeast ==
  FilesInv =>
    \A n \in Names :
      /\ n \in Above(n) /\ Above(n) \subseteq Names
      /\ \A C \in SUBSET Names : n \in C /\ HoldsParents(C) => Above(n) \subseteq C
<1> SUFFICES ASSUME FilesInv, NEW n \in Names
             PROVE  /\ n \in Above(n) /\ Above(n) \subseteq Names
                    /\ \A C \in SUBSET Names : n \in C /\ HoldsParents(C) => Above(n) \subseteq C
  OBVIOUS
<1>1. PICK up \in [0..Rounds -> SUBSET Names] : Upward(up, n) /\ Above(n) = up[Rounds]
  BY AboveInRounds
<1>2. up[0] = {n}
  BY <1>1, RoundsType DEF Upward
<1>3. ASSUME NEW k \in 0..(Rounds - 1)
      PROVE  up[k + 1] = up[k] \cup {Parent(m) : m \in (up[k] \cap MergedNames) \ {"default"}}
  <2>1. k + 1 \in 0..Rounds /\ k + 1 # 0 /\ (k + 1) - 1 = k
    BY RoundsType
  <2> QED
    BY <1>1, <2>1 DEF Upward
<1>4. n \in Above(n)
  <2> DEFINE G == {k \in 0..Rounds : n \in up[k]}
  <2>1. 0 \in G
    BY <1>2, RoundsType
  <2>2. \A k \in 0..(Rounds - 1) : k \in G => k + 1 \in G
    BY <1>3, RoundsType
  <2> HIDE DEF G
  <2>3. 0..Rounds \subseteq G
    BY <2>1, <2>2, RoundsType, CountingUp
  <2> QED
    BY <1>1, <2>3, RoundsType DEF G
<1>5. ASSUME NEW C \in SUBSET Names, n \in C, HoldsParents(C) PROVE Above(n) \subseteq C
  <2> DEFINE G == {k \in 0..Rounds : up[k] \subseteq C}
  <2>1. 0 \in G
    BY <1>2, <1>5, RoundsType
  <2>2. ASSUME NEW k \in 0..(Rounds - 1), k \in G PROVE k + 1 \in G
    <3>1. \A m \in (up[k] \cap MergedNames) \ {"default"} : Parent(m) \in C
      BY <1>5, <2>2 DEF HoldsParents
    <3> QED
      BY <1>3, <2>2, <3>1, RoundsType
  <2> HIDE DEF G
  <2>3. 0..Rounds \subseteq G
    BY <2>1, <2>2, RoundsType, CountingUp
  <2> QED
    BY <1>1, <2>3, RoundsType DEF G
<1>6. Above(n) \subseteq Names
  BY <1>1, RoundsType
<1> QED
  BY <1>4, <1>5, <1>6

\* A path of defined profiles, each the parent of the one before it, that has not
\* come back to one of them but may have with its last step.
Trail(p, n) ==
  /\ p \in Seq(Names)
  /\ Len(p) # 0
  /\ p[1] = n
  /\ \A k \in 1..(Len(p) - 1) : /\ p[k] \in MergedNames \ {"default"}
                                /\ p[k + 1] = Parent(p[k])
  /\ \A j, k \in 1..(Len(p) - 1) : p[j] = p[k] => j = k

\* There are at most as many steps in one as there are profiles,
LEMMA TrailsAreShort ==
  FilesInv => \A n, p : Trail(p, n) => Len(p) \in Nat /\ Len(p) <= Rounds
<1> SUFFICES ASSUME FilesInv, NEW n, NEW p, Trail(p, n)
             PROVE  Len(p) \in Nat /\ Len(p) <= Rounds
  OBVIOUS
<1> DEFINE S == 1..(Len(p) - 1)
           T == ProfileNames \ {"default"}
           f == [k \in S |-> p[k]]
<1>1. Len(p) \in Nat
  BY DEF Trail
<1>2. IsFiniteSet(S) /\ Cardinality(S) = Len(p) - 1
  <2>1. Len(p) - 1 \in Int /\ Len(p) # 0
    BY <1>1 DEF Trail
  <2> QED
    BY <1>1, <2>1, FS_Interval
<1>3. IsFiniteSet(T) /\ Cardinality(T) = Rounds - 1
  BY ConfigAssumption, FS_RemoveElement DEF Rounds
<1>4. f \in [S -> T]
  BY MergedTypes DEF Trail
<1>5. \A j, k \in S : f[j] = f[k] => j = k
  BY DEF Trail
<1> HIDE DEF S, T, f
<1>6. ~(Cardinality(T) < Cardinality(S))
  BY <1>2, <1>3, <1>4, <1>5, FS_PigeonHole
<1> QED
  BY <1>1, <1>2, <1>3, <1>6, RoundsType

\* so that Above has all it passes.
LEMMA TrailsAreAbove ==
  FilesInv => \A n \in Names : \A p : Trail(p, n) => \A k \in 1..Len(p) : p[k] \in Above(n)
<1> SUFFICES ASSUME FilesInv, NEW n \in Names, NEW p, Trail(p, n)
             PROVE  \A k \in 1..Len(p) : p[k] \in Above(n)
  OBVIOUS
<1>1. PICK up \in [0..Rounds -> SUBSET Names] : Upward(up, n) /\ Above(n) = up[Rounds]
  BY AboveInRounds
<1>2. Len(p) \in Nat /\ Len(p) <= Rounds /\ Len(p) # 0
  BY TrailsAreShort DEF Trail
<1> DEFINE Seen(j) == \A k \in 1..Len(p) : k <= j + 1 => p[k] \in up[j]
           G == {j \in 0..Rounds : Seen(j)}
<1>3. 0 \in G
  <2>1. up[0] = {n}
    BY <1>1, RoundsType DEF Upward
  <2> QED
    BY <1>2, <2>1, RoundsType DEF Trail
<1>4. ASSUME NEW j \in 0..(Rounds - 1), j \in G PROVE j + 1 \in G
  <2>1. j + 1 \in 0..Rounds /\ j + 1 # 0 /\ (j + 1) - 1 = j
    BY RoundsType
  <2>2. up[j + 1] = up[j] \cup {Parent(m) : m \in (up[j] \cap MergedNames) \ {"default"}}
    BY <1>1, <2>1 DEF Upward
  <2>3. ASSUME NEW k \in 1..Len(p), k <= (j + 1) + 1 PROVE p[k] \in up[j + 1]
    <3>1. CASE k <= j + 1
      BY <1>4, <2>2, <3>1
    <3>2. CASE k > j + 1
      <4>1. k - 1 \in 1..(Len(p) - 1) /\ k - 1 \in 1..Len(p) /\ k - 1 <= j + 1 /\ (k - 1) + 1 = k
        BY <1>2, <2>1, <2>3, <3>2
      <4>2. p[k - 1] \in MergedNames \ {"default"} /\ p[k] = Parent(p[k - 1])
        BY <4>1 DEF Trail
      <4>3. p[k - 1] \in up[j]
        BY <1>4, <4>1
      <4> QED
        BY <2>2, <4>2, <4>3
    <3> QED
      BY <1>2, <2>1, <3>1, <3>2
  <2> QED
    BY <2>1, <2>3
<1> HIDE DEF G
<1>5. 0..Rounds \subseteq G
  BY <1>3, <1>4, RoundsType, CountingUp
<1>6. Seen(Rounds)
  BY <1>5, RoundsType DEF G
<1> QED
  BY <1>1, <1>2, <1>6, RoundsType

-----------------------------------------------------------------------------
(* What walk_extends_chain finds.                                          *)

InCircle(p) == \E k \in 1..(Len(p) - 1) : p[k] = p[Len(p)]

\* The walk: nothing, and the profile is not rooted, or everything above it in
\* the order of inheritance, up to the default profile.
Found(w, n) ==
  IF w = <<>> THEN ~Rooted(n)
  ELSE /\ Trail(w, n) /\ ~InCircle(w) /\ w[Len(w)] = "default"
       /\ Rooted(n)
       /\ Above(n) = {w[k] : k \in 1..Len(w)}

\* Where a trail cannot go on, it is known what is above its first profile,
LEMMA TrailsEnd ==
  FilesInv =>
    \A n \in Names : \A p : Trail(p, n) =>
      /\ InCircle(p) => ~Rooted(n)
      /\ ~InCircle(p) /\ p[Len(p)] = "default" =>
           IF "default" \in MergedNames /\ Union["default"].extends # Unset THEN ~Rooted(n)
           ELSE Found(p, n)
      /\ p[Len(p)] \notin MergedNames \cup {"default"} => ~Rooted(n)
<1> SUFFICES ASSUME FilesInv, NEW n \in Names, NEW p, Trail(p, n)
             PROVE  /\ InCircle(p) => ~Rooted(n)
                    /\ ~InCircle(p) /\ p[Len(p)] = "default" =>
                         IF "default" \in MergedNames /\ Union["default"].extends # Unset
                         THEN ~Rooted(n) ELSE Found(p, n)
                    /\ p[Len(p)] \notin MergedNames \cup {"default"} => ~Rooted(n)
  OBVIOUS
<1> DEFINE C == {p[k] : k \in 1..Len(p)}
<1>1. p \in Seq(Names) /\ Len(p) \in Nat /\ Len(p) # 0 /\ Len(p) \in 1..Len(p)
  BY DEF Trail
<1>2. C \in SUBSET Names /\ n \in C /\ C \subseteq Above(n)
  BY <1>1, TrailsAreAbove DEF Trail
<1>3. ASSUME NEW k \in 1..(Len(p) - 1)
      PROVE  p[k] \in MergedNames \ {"default"} /\ Parent(p[k]) \in C
  BY <1>1 DEF Trail
<1>4. ASSUME InCircle(p) PROVE ~Rooted(n)
  <2>1. \A m \in C : m \in MergedNames \ {"default"} /\ Parent(m) \in C
    BY <1>1, <1>3, <1>4 DEF InCircle
  <2>2. HoldsParents(C)
    BY <2>1 DEF HoldsParents
  <2>3. Above(n) \subseteq C
    BY <1>2, <2>2, AboveIsLeast
  <2> QED
    BY <2>1, <2>3 DEF Rooted
<1>5. ASSUME ~InCircle(p), p[Len(p)] = "default",
             "default" \in MergedNames => Union["default"].extends = Unset
      PROVE  Found(p, n)
  <2>1. HoldsParents(C)
    <3> SUFFICES ASSUME NEW m \in (C \cap MergedNames) \ {"default"} PROVE Parent(m) \in C
      BY DEF HoldsParents
    <3>1. PICK k \in 1..Len(p) : p[k] = m
      OBVIOUS
    <3>2. k \in 1..(Len(p) - 1)
      BY <1>1, <1>5, <3>1
    <3> QED
      BY <1>3, <3>1, <3>2
  <2>2. Above(n) = C
    BY <1>2, <2>1, AboveIsLeast
  <2>3. "default" \in C /\ C \subseteq MergedNames \cup {"default"}
    BY <1>1, <1>3, <1>5
  <2>4. Rooted(n)
    BY <1>5, <2>2, <2>3 DEF Rooted
  <2>5. p # <<>>
    BY <1>1
  <2> QED
    BY <1>5, <2>2, <2>4, <2>5 DEF Found
<1>6. ASSUME "default" \in MergedNames, Union["default"].extends # Unset PROVE ~Rooted(n)
  BY <1>6 DEF Rooted
<1>7. ASSUME p[Len(p)] \notin MergedNames \cup {"default"} PROVE ~Rooted(n)
  BY <1>1, <1>2, <1>7 DEF Rooted
<1> QED
  BY <1>4, <1>5, <1>6, <1>7

\* and everywhere else it goes on.
LEMMA TrailsGoOn ==
  FilesInv =>
    \A n, p : Trail(p, n) /\ ~InCircle(p) /\ p[Len(p)] \in MergedNames \ {"default"} =>
      /\ Trail(Append(p, Parent(p[Len(p)])), n)
      /\ Len(Append(p, Parent(p[Len(p)]))) = Len(p) + 1
<1> SUFFICES ASSUME FilesInv, NEW n, NEW p, Trail(p, n), ~InCircle(p),
                    p[Len(p)] \in MergedNames \ {"default"}
             PROVE  /\ Trail(Append(p, Parent(p[Len(p)])), n)
                    /\ Len(Append(p, Parent(p[Len(p)]))) = Len(p) + 1
  OBVIOUS
<1> DEFINE next == Parent(p[Len(p)])
           q == Append(p, next)
<1>1. p \in Seq(Names) /\ Len(p) \in Nat /\ Len(p) # 0
  BY DEF Trail
<1>2. next \in Names
  BY MergedTypes
<1>3. /\ q \in Seq(Names) /\ Len(q) = Len(p) + 1 /\ q[Len(p) + 1] = next
      /\ \A k \in 1..Len(p) : q[k] = p[k]
  <2> HIDE DEF next
  <2> QED
    BY <1>1, <1>2
<1>4. next = Parent(p[Len(p)])
  OBVIOUS
<1> HIDE DEF q, next
<1>5. ASSUME NEW k \in 1..Len(p) PROVE q[k] \in MergedNames \ {"default"} /\ q[k + 1] = Parent(q[k])
  <2>1. CASE k = Len(p)
    BY <1>1, <1>3, <1>4, <2>1
  <2>2. CASE k # Len(p)
    <3>1. k \in 1..(Len(p) - 1) /\ k + 1 \in 1..Len(p)
      BY <1>1, <2>2
    <3>2. p[k] \in MergedNames \ {"default"} /\ p[k + 1] = Parent(p[k])
      BY <3>1 DEF Trail
    <3> QED
      BY <1>3, <3>1, <3>2
  <2> QED
    BY <2>1, <2>2
<1>6. ASSUME NEW j \in 1..Len(p), NEW k \in 1..Len(p), q[j] = q[k] PROVE j = k
  <2>1. p[j] = p[k]
    BY <1>3, <1>6
  <2>2. CASE j # Len(p) /\ k # Len(p)
    <3>1. j \in 1..(Len(p) - 1) /\ k \in 1..(Len(p) - 1)
      BY <1>1, <2>2
    <3> QED
      BY <2>1, <3>1 DEF Trail
  <2>3. CASE j = Len(p) /\ k # Len(p)
    BY <1>1, <2>1, <2>3 DEF InCircle
  <2>4. CASE j # Len(p) /\ k = Len(p)
    BY <1>1, <2>1, <2>4 DEF InCircle
  <2> QED
    BY <2>2, <2>3, <2>4
<1>7. q[1] = n
  BY <1>1, <1>3 DEF Trail
<1>8. Len(q) - 1 = Len(p) /\ Len(q) # 0
  BY <1>1, <1>3
<1>9. Trail(q, n)
  BY <1>3, <1>5, <1>6, <1>7, <1>8 DEF Trail
<1> QED
  BY <1>3, <1>9 DEF q, next

Walks(walk) ==
  walk = [path \in Seq(Names) |->
            IF InCircle(path) THEN <<>>
            ELSE IF path[Len(path)] = "default"
            THEN IF "default" \in MergedNames /\ Union["default"].extends # Unset
                 THEN <<>> ELSE path
            ELSE IF path[Len(path)] \notin MergedNames THEN <<>>
            ELSE walk[Append(path, Parent(path[Len(path)]))]]

\* The recursion is sound: a function walks.
LEMMA WalkExists == FilesInv => \E walk : Walks(walk)
<1> SUFFICES ASSUME FilesInv PROVE \E walk : Walks(walk)
  OBVIOUS
<1> DEFINE S == Seq(Names)
           stops == {p \in S : InCircle(p) \/ p[Len(p)] = "default" \/ p[Len(p)] \notin MergedNames}
           out == [p \in S |-> IF InCircle(p) THEN <<>>
                               ELSE IF p[Len(p)] = "default"
                               THEN IF "default" \in MergedNames /\ Union["default"].extends # Unset
                                    THEN <<>> ELSE p
                               ELSE <<>>]
           next == [p \in S |-> Append(p, Parent(p[Len(p)]))]
<1>1. ASSUME NEW p \in S \ stops PROVE next[p] \in S
  <2>1. Parent(p[Len(p)]) \in Names
    BY MergedTypes
  <2> QED
    BY <2>1
<1>2. stops \in SUBSET S
  OBVIOUS
<1>3. PICK f : Follows(f, S, stops, out, next)
  <2> HIDE DEF S, stops, out, next
  <2> QED
    BY <1>1, <1>2, TailRecursion
<1>4. ASSUME NEW p \in S
      PROVE  f[p] = IF InCircle(p) THEN <<>>
                    ELSE IF p[Len(p)] = "default"
                    THEN IF "default" \in MergedNames /\ Union["default"].extends # Unset
                         THEN <<>> ELSE p
                    ELSE IF p[Len(p)] \notin MergedNames THEN <<>>
                    ELSE f[Append(p, Parent(p[Len(p)]))]
  <2>1. f[p] = IF p \in stops THEN out[p] ELSE f[next[p]]
    <3> HIDE DEF S, stops, out, next
    <3> QED
      BY <1>3 DEF Follows
  <2>2. next[p] = Append(p, Parent(p[Len(p)]))
    OBVIOUS
  <2> HIDE DEF next
  <2> QED
    BY <2>1, <2>2
<1>5. f = [p \in S |-> f[p]]
  <2> HIDE DEF S, stops, out, next
  <2> QED
    BY <1>3 DEF Follows
<1>6. Walks(f)
  BY <1>4, <1>5 DEF Walks
<1> QED
  BY <1>6

\* Every profile is walked from to one end or the other.
LEMMA WalkFinds == FilesInv => \A n \in Names : Found(Walk(n), n)
<1> SUFFICES ASSUME FilesInv, NEW n \in Names PROVE Found(Walk(n), n)
  OBVIOUS
<1> DEFINE walk == CHOOSE w : Walks(w)
<1>1. Walks(walk)
  BY WalkExists
<1>2. Walk(n) = walk[<<n>>]
  BY DEF Walk, Walks, Last, InCircle, Names
<1> HIDE DEF walk
<1> DEFINE G == {j \in 0..Rounds : \A p : Trail(p, n) /\ Len(p) = Rounds - j => Found(walk[p], n)}
<1>3. ASSUME NEW p, Trail(p, n),
             \A q : Trail(q, n) /\ Len(q) = Len(p) + 1 => Found(walk[q], n)
      PROVE  Found(walk[p], n)
  <2> DEFINE c == p[Len(p)]
  <2>1. walk[p] = IF InCircle(p) THEN <<>>
                  ELSE IF c = "default"
                  THEN IF "default" \in MergedNames /\ Union["default"].extends # Unset
                       THEN <<>> ELSE p
                  ELSE IF c \notin MergedNames THEN <<>>
                  ELSE walk[Append(p, Parent(c))]
    BY <1>1, <1>3 DEF Walks, Trail
  <2>2. ASSUME walk[p] = <<>>, ~Rooted(n) PROVE Found(walk[p], n)
    BY <2>2 DEF Found
  <2>3. CASE InCircle(p)
    BY <1>3, <2>1, <2>2, <2>3, TrailsEnd
  <2>4. CASE ~InCircle(p) /\ c = "default"
    BY <1>3, <2>1, <2>2, <2>4, TrailsEnd
  <2>5. CASE ~InCircle(p) /\ c # "default" /\ c \notin MergedNames
    BY <1>3, <2>1, <2>2, <2>5, TrailsEnd
  <2>6. CASE ~InCircle(p) /\ c # "default" /\ c \in MergedNames
    BY <1>3, <2>1, <2>6, TrailsGoOn
  <2> QED
    BY <2>3, <2>4, <2>5, <2>6
<1>4. 0 \in G
  <2>1. ASSUME NEW p, Trail(p, n), Len(p) = Rounds - 0 PROVE Found(walk[p], n)
    <3>1. \A q : Trail(q, n) => Len(q) # Len(p) + 1
      BY <2>1, TrailsAreShort, RoundsType
    <3> QED
      BY <1>3, <2>1, <3>1
  <2> QED
    BY <2>1, RoundsType
<1>5. ASSUME NEW j \in 0..(Rounds - 1), j \in G PROVE j + 1 \in G
  <2>1. ASSUME NEW p, Trail(p, n), Len(p) = Rounds - (j + 1) PROVE Found(walk[p], n)
    <3>1. Len(p) + 1 = Rounds - j
      BY <2>1, RoundsType
    <3> QED
      BY <1>3, <1>5, <2>1, <3>1
  <2> QED
    BY <2>1, RoundsType
<1> HIDE DEF G
<1>6. 0..Rounds \subseteq G
  BY <1>4, <1>5, RoundsType, CountingUp
<1>7. Rounds - 1 \in G
  BY <1>6, RoundsType
<1>8. Trail(<<n>>, n) /\ Len(<<n>>) = Rounds - (Rounds - 1)
  BY RoundsType DEF Trail
<1> QED
  BY <1>2, <1>7, <1>8 DEF G

\* What an invocation resolves to is a name, whichever level named it.
LEMMA ResolvedTypes == FilesInv => \A i \in Invocations : ResolveProfileName(i) \in Names
<1> SUFFICES ASSUME FilesInv, NEW i \in Invocations PROVE ResolveProfileName(i) \in Names
  OBVIOUS
<1>1. Global \in File /\ Project \in File
  BY ContentTypes DEF Global, Project, Overlays
<1>2. i.runtime \in Runtimes /\ i.profile \in {Unset} \cup Names
  BY DEF Invocations, Names
<1>3. /\ Global.defaults[i.runtime] \in Names \cup {Unset}
      /\ Project.defaults[i.runtime] \in Names \cup {Unset}
  BY <1>1, <1>2 DEF File
<1>4. "default" \in Names
  BY ConfigAssumption DEF Names
<1> QED
  BY <1>2, <1>3, <1>4 DEF ResolveProfileName

\* The walk holds exactly where the profile is rooted.
LEMMA WalkIsRooted == FilesInv => \A n \in Names : Walk(n) # <<>> <=> Rooted(n)
BY WalkFinds DEF Found

\* Acceptance is a matter of roots.
LEMMA RootedHolds == FilesInv => AcceptedIsRooted
<1> SUFFICES ASSUME FilesInv, Loads /\ EdgesAreDeclaredOnce /\ Validated, NEW i \in Invocations
             PROVE  Accepts(i) <=> \A n \in MergedNames \cup {ResolveProfileName(i)} : Rooted(n)
  BY DEF AcceptedIsRooted
<1> DEFINE resolved == ResolveProfileName(i)
<1>1. resolved \in Names /\ MergedNames \subseteq Names
  BY ResolvedTypes, MergedTypes DEF Names
<1>2. Rooted(resolved) => resolved \in MergedNames \cup {"default"}
  BY <1>1, AboveIsLeast DEF Rooted
<1>3. Accepts(i) <=> ChainsHold(i)
  BY DEF Accepts
<1> QED
  BY <1>1, <1>2, <1>3, WalkIsRooted DEF ChainsHold

\* A hook without --profile adds nothing to what the command checks: the defaults
\* that it may resolve to are validated, and an undefined default profile is a
\* chain of its own.
LEMMA ProfilesCommandHolds == FilesInv => ProfilesCommandAgrees
<1> SUFFICES ASSUME FilesInv PROVE ProfilesCommandAgrees
  OBVIOUS
<1>1. ASSUME ProfilesCommandAccepts, NEW i \in Invocations, i.profile = Unset
      PROVE  Accepts(i)
  <2> DEFINE resolved == ResolveProfileName(i)
  <2>1. i.runtime \in Runtimes
    BY DEF Invocations
  <2>2. ValidProfiles(Union, Project.defaults) /\ ValidProfiles(Union, Global.defaults)
    BY <1>1 DEF ProfilesCommandAccepts, Validated
  <2>3. DOMAIN Union = MergedNames
    BY DEF Union
  <2>4. resolved \in MergedNames \cup {"default"}
    BY <1>1, <2>1, <2>2, <2>3 DEF ValidProfiles, ResolveProfileName
  <2>5. ASSUME resolved \notin MergedNames PROVE Walk(resolved) # <<>>
    <3> DEFINE C == {"default"}
    <3>1. resolved = "default" /\ "default" \notin MergedNames /\ "default" \in Names
      BY <2>4, <2>5, ConfigAssumption DEF Names
    <3>2. HoldsParents(C) /\ C \in SUBSET Names /\ "default" \in C
      BY <3>1 DEF HoldsParents
    <3>3. "default" \in Above("default") /\ Above("default") \subseteq C
      BY <3>1, <3>2, AboveIsLeast
    <3>4. Rooted("default")
      BY <3>1, <3>3 DEF Rooted
    <3> QED
      BY <3>1, <3>4, WalkIsRooted
  <2>6. \A n \in MergedNames \cup {resolved} : Walk(n) # <<>>
    BY <1>1, <2>5 DEF ProfilesCommandAccepts
  <2> QED
    BY <1>1, <2>4, <2>6 DEF Accepts, ChainsHold, ProfilesCommandAccepts
<1>2. ASSUME \A i \in Invocations : i.profile = Unset => Accepts(i)
      PROVE  ProfilesCommandAccepts
  <2> DEFINE plain == [runtime |-> "claude", profile |-> Unset, safety |-> Unset, trust |-> Unset]
  <2>1. plain \in Invocations /\ plain.profile = Unset
    BY DEF Invocations, Runtimes, Unset
  <2>2. Accepts(plain)
    BY <1>2, <2>1
  <2> QED
    BY <2>2 DEF Accepts, ChainsHold, ProfilesCommandAccepts
<1> QED
  BY <1>1, <1>2 DEF ProfilesCommandAgrees

\* The chains of "extends" are checked as they must be: whatever the files say,
\* the walk of finalize_config accepts them exactly if every profile inherits from
\* the default profile over defined ones and in no circle.
THEOREM AcceptedAlwaysRooted == Spec => []AcceptedIsRooted
BY TypeCorrect, RootedHolds, PTL

\* `longline profiles` and the hooks accept the same files, whatever they say.
THEOREM ProfilesCommandAlwaysAgrees == Spec => []ProfilesCommandAgrees
BY TypeCorrect, ProfilesCommandHolds, PTL

-----------------------------------------------------------------------------
(* The configuration that is built.                                        *)

Sources == {"builtin"} \cup Overlays

Rule == [decision : {"allow", "ask", "deny"}, source : Sources]

Config ==
  [safety : {"high"} \cup Levels, trust : {"standard", "full", "minimal"},
   allow : SUBSET (({"top"} \cup Names) \X Overlays),
   prompt : ({Unset, "top"} \cup Names) \X ({Unset} \cup Overlays),
   rules : [RuleIds -> Seq(Rule)], replaced : SUBSET (RuleIds \X Sources)]

\* What a layer rules keeps its length, its order and its decisions.
LEMMA TaggedTypes ==
  ASSUME NEW rules \in Rulings, NEW source \in Overlays
  PROVE  /\ Tagged(rules, source) \in [RuleIds -> Seq(Rule)]
         /\ \A id \in RuleIds :
              /\ Len(Tagged(rules, source)[id]) = Len(rules[id])
              /\ \A k \in 1..Len(rules[id]) :
                   Tagged(rules, source)[id][k] = [decision |-> rules[id][k], source |-> source]
<1>1. ASSUME NEW id \in RuleIds
      PROVE  /\ Tagged(rules, source)[id] \in Seq(Rule)
             /\ Len(Tagged(rules, source)[id]) = Len(rules[id])
             /\ \A k \in 1..Len(rules[id]) :
                  Tagged(rules, source)[id][k] = [decision |-> rules[id][k], source |-> source]
  <2> DEFINE s == rules[id]
             t == [k \in 1..Len(s) |-> [decision |-> s[k], source |-> source]]
  <2>1. s \in Seq({"allow", "ask"}) /\ DOMAIN s = 1..Len(s)
    BY DEF Rulings
  <2>2. Tagged(rules, source)[id] = t
    BY <2>1 DEF Tagged
  <2>3. \A k \in 1..Len(s) : [decision |-> s[k], source |-> source] \in Rule
    BY <2>1 DEF Rule, Sources
  <2> HIDE DEF s
  <2>4. Len(s) \in Nat
    BY <2>1
  <2>5. t \in Seq(Rule) /\ Len(t) = Len(s)
    BY <2>3, <2>4
  <2>6. Len(Tagged(rules, source)[id]) = Len(s) /\ Tagged(rules, source)[id] \in Seq(Rule)
    BY <2>2, <2>5
  <2>7. \A k \in 1..Len(s) :
          Tagged(rules, source)[id][k] = [decision |-> s[k], source |-> source]
    BY <2>2
  <2> QED
    BY <2>6, <2>7 DEF s
<1>2. Tagged(rules, source) \in [RuleIds -> Seq(Rule)]
  BY <1>1 DEF Tagged
<1> QED
  BY <1>1, <1>2

\* Overlays and profiles give configurations, from the built-in one on.
LEMMA BuiltInTypes == BuiltIn \in Config
<1>1. <<[decision |-> "deny", source |-> "builtin"]>> \in Seq(Rule)
  BY DEF Rule, Sources
<1>2. <<>> \in Seq(Rule)
  OBVIOUS
<1>3. NoPrompt \in ({Unset, "top"} \cup Names) \X ({Unset} \cup Overlays)
  BY DEF NoPrompt
<1>4. BuiltIn.rules \in [RuleIds -> Seq(Rule)]
  BY <1>1, <1>2 DEF BuiltIn
<1> QED
  BY <1>3, <1>4 DEF BuiltIn, Config

\* An overlay gives a configuration,
LEMMA MergedConfigTypes ==
  FilesInv => \A c \in Config, f \in Overlays : MergeOverlay(c, f) \in Config
<1> SUFFICES ASSUME FilesInv, NEW c \in Config, NEW f \in Overlays
             PROVE  MergeOverlay(c, f) \in Config
  OBVIOUS
<1>1. Content(f) \in File
  BY ContentTypes
<1>2. Tagged(Content(f).rules, f) \in [RuleIds -> Seq(Rule)]
  BY <1>1, TaggedTypes DEF File
<1>3. ASSUME NEW id \in RuleIds
      PROVE  (IF id \in Content(f).disable THEN <<>> ELSE c.rules[id])
               \o Tagged(Content(f).rules, f)[id] \in Seq(Rule)
  <2>1. c.rules[id] \in Seq(Rule) /\ Tagged(Content(f).rules, f)[id] \in Seq(Rule)
    BY <1>2 DEF Config
  <2> QED
    BY <2>1
<1>4. /\ Override(c.safety, Content(f).safety) \in {"high"} \cup Levels
      /\ Override(c.trust, Content(f).trust) \in {"standard", "full", "minimal"}
  BY <1>1 DEF Override, File, Config
<1>5. (IF Content(f).allow THEN c.allow \cup {<<"top", f>>} ELSE c.allow)
        \in SUBSET (({"top"} \cup Names) \X Overlays)
  BY DEF Config
<1> QED
  BY <1>3, <1>4, <1>5 DEF MergeOverlay, Config

\* both overlays do,
LEMMA TopLevelTypes == FilesInv => TopLevel \in Config
<1> SUFFICES ASSUME FilesInv PROVE TopLevel \in Config
  OBVIOUS
<1> DEFINE merged == MergeOverlay(MergeOverlay(BuiltIn, "global"), "project")
<1>1. merged \in Config
  BY BuiltInTypes, MergedConfigTypes DEF Overlays
<1>2. <<"top", "project">> \in ({Unset, "top"} \cup Names) \X ({Unset} \cup Overlays)
  BY DEF Overlays
<1> HIDE DEF merged
<1>3. [merged EXCEPT !.prompt = <<"top", "project">>] \in Config
  BY <1>1, <1>2 DEF Config
<1> QED
  BY <1>1, <1>3 DEF TopLevel, merged

\* a profile's rules in the place of others are rules,
LEMMA ReplacedTypes ==
  ASSUME NEW c \in Config, NEW rules \in [RuleIds -> Seq(Rule)]
  PROVE  ReplaceRules(c, rules) \in Config
<1>1. [id \in RuleIds |-> IF rules[id] = <<>> THEN c.rules[id] ELSE rules[id]]
        \in [RuleIds -> Seq(Rule)]
  BY DEF Config
<1>2. ASSUME NEW id \in RuleIds, c.rules[id] # <<>>
      PROVE  <<id, Head(c.rules[id]).source>> \in RuleIds \X Sources
  <2>1. c.rules[id] \in Seq(Rule)
    BY DEF Config
  <2>2. Head(c.rules[id]) \in Rule
    BY <1>2, <2>1
  <2> QED
    BY <2>2 DEF Rule
<1>3. c.replaced \cup {<<id, Head(c.rules[id]).source>> :
                         id \in {d \in RuleIds : rules[d] # <<>> /\ c.rules[d] # <<>>}}
        \in SUBSET (RuleIds \X Sources)
  BY <1>2 DEF Config
<1> QED
  BY <1>1, <1>3 DEF ReplaceRules, Config

\* What the entry of a profile is.
LEMMA EntryOfFile ==
  FilesInv => \A f \in Overlays : \A n \in DOMAIN Content(f).profiles :
                n \in MergedNames /\ Content(f).profiles[n] \in Entry
<1> SUFFICES ASSUME FilesInv, NEW f \in Overlays, NEW n \in DOMAIN Content(f).profiles
             PROVE  n \in MergedNames /\ Content(f).profiles[n] \in Entry
  OBVIOUS
<1>1. PICK S \in SUBSET ProfileNames : Content(f).profiles \in [S -> Entry]
  BY ContentTypes DEF File, Profiles
<1> QED
  BY <1>1 DEF MergedNames, Global, Project, Overlays

\* and so a profile gives a configuration.
LEMMA AppliedTypes ==
  FilesInv => \A c \in Config, n \in Names, f \in Overlays : ApplyProfile(c, n, f) \in Config
<1> SUFFICES ASSUME FilesInv, NEW c \in Config, NEW n \in Names, NEW f \in Overlays
             PROVE  ApplyProfile(c, n, f) \in Config
  OBVIOUS
<1> DEFINE entry == Content(f).profiles[n]
           set == [c EXCEPT !.safety = Override(@, entry.safety),
                            !.allow = IF entry.allow THEN @ \cup {<<n, f>>} ELSE @,
                            !.prompt = IF entry.prompt = "good" THEN <<n, f>> ELSE @]
<1>1. CASE n \notin DOMAIN Content(f).profiles
  BY <1>1 DEF ApplyProfile
<1>2. CASE n \in DOMAIN Content(f).profiles
  <2>1. entry \in Entry
    BY <1>2, EntryOfFile
  <2>2. Tagged(entry.rules, f) \in [RuleIds -> Seq(Rule)]
    BY <2>1, TaggedTypes DEF Entry
  <2>3. /\ Override(c.safety, entry.safety) \in {"high"} \cup Levels
        /\ (IF entry.allow THEN c.allow \cup {<<n, f>>} ELSE c.allow)
             \in SUBSET (({"top"} \cup Names) \X Overlays)
        /\ (IF entry.prompt = "good" THEN <<n, f>> ELSE c.prompt)
             \in ({Unset, "top"} \cup Names) \X ({Unset} \cup Overlays)
    BY <2>1 DEF Override, Entry, Config
  <2>4. ApplyProfile(c, n, f) = ReplaceRules(set, Tagged(entry.rules, f))
    BY <1>2 DEF ApplyProfile
  <2> HIDE DEF entry
  <2>5. set \in Config
    BY <2>3 DEF Config
  <2> HIDE DEF set
  <2> QED
    BY <2>2, <2>4, <2>5, ReplacedTypes
<1> QED
  BY <1>1, <1>2

\* The steps in which a chain is applied.
LEMMA AppliedInSteps ==
  FilesInv =>
    \A chain \in Seq(Names) :
      \E h \in [0..Len(chain) -> Config] :
        /\ h[0] = TopLevel
        /\ \A k \in 1..Len(chain) : h[k] = ApplyStep(h[k - 1], chain[k])
        /\ Applied(chain) = h[Len(chain)]
<1> SUFFICES ASSUME FilesInv, NEW chain \in Seq(Names)
             PROVE  \E h \in [0..Len(chain) -> Config] :
                      /\ h[0] = TopLevel
                      /\ \A k \in 1..Len(chain) : h[k] = ApplyStep(h[k - 1], chain[k])
                      /\ Applied(chain) = h[Len(chain)]
  OBVIOUS
<1> DEFINE L == Len(chain)
           step == [k \in 1..L |-> [c \in Config |-> ApplyStep(c, chain[k])]]
           Goes(h) == h = [k \in 0..L |-> IF k = 0 THEN TopLevel ELSE ApplyStep(h[k - 1], chain[k])]
<1>1. L \in Nat
  OBVIOUS
<1>2. ASSUME NEW k \in 1..L, NEW c \in Config PROVE ApplyStep(c, chain[k]) \in Config
  <2>1. chain[k] \in Names
    OBVIOUS
  <2> QED
    BY <2>1, AppliedTypes DEF ApplyStep, Overlays
<1>3. step \in [1..L -> [Config -> Config]]
  BY <1>2
<1>4. PICK f \in [0..L -> Config] : Iterates(f, L, TopLevel, step)
  <2> HIDE DEF step, L
  <2> QED
    BY <1>1, <1>3, TopLevelTypes, Iteration
<1>5. ASSUME NEW k \in 0..L, k # 0
      PROVE  step[k][f[k - 1]] = ApplyStep(f[k - 1], chain[k])
  <2>1. k \in 1..L /\ k - 1 \in 0..L
    BY <1>1, <1>5
  <2>2. f[k - 1] \in Config
    BY <1>4, <2>1
  <2> QED
    BY <2>1, <2>2
<1>6. Goes(f)
  <2>1. \A k \in 0..L : f[k] = IF k = 0 THEN TopLevel ELSE step[k][f[k - 1]]
    <3> HIDE DEF step, L
    <3> QED
      BY <1>4 DEF Iterates
  <2>2. f = [k \in 0..L |-> f[k]]
    BY <1>4
  <2> HIDE DEF step, L
  <2> QED
    BY <1>5, <2>1, <2>2
<1> DEFINE chosen == CHOOSE h : Goes(h)
<1>7. Goes(chosen)
  <2> HIDE DEF Goes
  <2> QED
    BY <1>6
<1>8. Applied(chain) = chosen[L]
  BY DEF Applied
<1> HIDE DEF chosen
<1>9. /\ chosen[0] = TopLevel
      /\ \A k \in 1..L : chosen[k] = ApplyStep(chosen[k - 1], chain[k])
  BY <1>1, <1>7
<1>10. \A k \in 0..L : chosen[k] \in Config
  <2> DEFINE G == {k \in 0..L : chosen[k] \in Config}
  <2>1. 0 \in G
    BY <1>1, <1>9, TopLevelTypes
  <2>2. ASSUME NEW k \in 0..(L - 1), k \in G PROVE k + 1 \in G
    <3>1. k + 1 \in 1..L /\ (k + 1) - 1 = k
      BY <1>1
    <3> QED
      BY <1>2, <1>9, <2>2, <3>1
  <2> HIDE DEF G, L
  <2>3. 0..L \subseteq G
    BY <1>1, <2>1, <2>2, CountingUp
  <2> QED
    BY <2>3 DEF G
<1>11. chosen \in [0..L -> Config]
  BY <1>7, <1>10
<1> QED
  BY <1>8, <1>9, <1>11

\* A profile nobody defined changes nothing.
LEMMA UndefinedStep == \A c, n : n \notin MergedNames => ApplyStep(c, n) = c
BY DEF ApplyStep, ApplyProfile, MergedNames, Global, Project

\* What is built step by step along the walk, from its end to its first profile.
Along(h, n) ==
  LET L == Len(Walk(n))
  IN /\ h \in [0..L -> Config]
     /\ h[0] = TopLevel
     /\ \A k \in 1..L : h[k] = ApplyStep(h[k - 1], Walk(n)[L + 1 - k])
     /\ Applied(Chain(n)) = h[L]

\* Chain leaves the default profile out where it is undefined, which makes no
\* difference.
LEMMA AppliedAlong == FilesInv => \A n \in Names : Walk(n) # <<>> => \E h : Along(h, n)
<1> SUFFICES ASSUME FilesInv, NEW n \in Names, Walk(n) # <<>> PROVE \E h : Along(h, n)
  OBVIOUS
<1> DEFINE w == Walk(n)
           L == Len(w)
           r == Reverse(w)
<1>1. Trail(w, n) /\ w[L] = "default"
  BY WalkFinds DEF Found
<1>2. w \in Seq(Names) /\ L \in Nat /\ L # 0
  BY <1>1 DEF Trail
<1> HIDE DEF w
<1>3. r \in Seq(Names) /\ Len(r) = L /\ \A k \in 1..L : r[k] = w[L + 1 - k]
  <2>1. r = [k \in 1..L |-> w[(L - k) + 1]]
    BY DEF Reverse
  <2>2. ASSUME NEW k \in 1..L PROVE w[(L - k) + 1] \in Names /\ (L - k) + 1 = L + 1 - k
    BY <1>2
  <2> HIDE DEF L, r
  <2> QED
    BY <1>2, <2>1, <2>2
<1>4. Chain(n) = IF "default" \in MergedNames THEN r ELSE Tail(r)
  BY DEF Chain, w
<1> HIDE DEF r, L
<1>5. CASE "default" \in MergedNames
  <2>1. PICK h \in [0..L -> Config] :
          /\ h[0] = TopLevel
          /\ \A k \in 1..L : h[k] = ApplyStep(h[k - 1], r[k])
          /\ Applied(r) = h[L]
    BY <1>3, AppliedInSteps
  <2>2. Along(h, n)
    BY <1>3, <1>4, <1>5, <2>1 DEF Along, w, L
  <2> QED
    BY <2>2
<1>6. CASE "default" \notin MergedNames
  <2> DEFINE t == Tail(r)
  <2>1. t \in Seq(Names) /\ Len(t) = L - 1 /\ \A k \in 1..(L - 1) : t[k] = r[k + 1]
    <3>1. r # <<>>
      BY <1>2, <1>3
    <3> QED
      BY <1>2, <1>3, <3>1
  <2> HIDE DEF t
  <2>2. PICK g \in [0..(L - 1) -> Config] :
          /\ g[0] = TopLevel
          /\ \A k \in 1..(L - 1) : g[k] = ApplyStep(g[k - 1], t[k])
          /\ Applied(t) = g[L - 1]
    <3>1. PICK g \in [0..Len(t) -> Config] :
            /\ g[0] = TopLevel
            /\ \A k \in 1..Len(t) : g[k] = ApplyStep(g[k - 1], t[k])
            /\ Applied(t) = g[Len(t)]
      BY <2>1, AppliedInSteps
    <3> QED
      BY <2>1, <3>1
  <2> DEFINE h == [k \in 0..L |-> IF k = 0 THEN TopLevel ELSE g[k - 1]]
  <2>3. h \in [0..L -> Config]
    BY <1>2, <2>2, TopLevelTypes
  <2>4. h[0] = TopLevel /\ h[L] = g[L - 1]
    BY <1>2
  <2>5. ASSUME NEW k \in 1..L PROVE h[k] = ApplyStep(h[k - 1], r[k])
    <3>1. CASE k = 1
      <4>1. r[1] = "default"
        BY <1>1, <1>2, <1>3 DEF L
      <4>2. h[1] = TopLevel /\ h[0] = TopLevel
        BY <1>2, <2>2
      <4> QED
        BY <1>6, <3>1, <4>1, <4>2, UndefinedStep
    <3>2. CASE k # 1
      <4>1. k - 1 \in 1..(L - 1) /\ (k - 1) + 1 = k /\ k \in 0..L /\ k - 1 \in 0..L /\ k # 0 /\ k - 1 # 0
        BY <1>2, <3>2
      <4>2. h[k] = g[k - 1] /\ h[k - 1] = g[(k - 1) - 1]
        BY <4>1
      <4>3. g[k - 1] = ApplyStep(g[(k - 1) - 1], t[k - 1]) /\ t[k - 1] = r[k]
        BY <2>1, <2>2, <4>1
      <4> QED
        BY <4>2, <4>3
    <3> QED
      BY <3>1, <3>2
  <2> HIDE DEF h
  <2>6. Along(h, n)
    BY <1>3, <1>4, <1>6, <2>2, <2>3, <2>4, <2>5 DEF Along, w, L, t
  <2> QED
    BY <2>6
<1> QED
  BY <1>5, <1>6

-----------------------------------------------------------------------------
(* Weakening is reported.                                                  *)

HasBuiltIn(c, id) == \E k \in 1..Len(c.rules[id]) : c.rules[id][k].source = "builtin"

\* While profiles are applied, the built-in rule of id stands first or is noted.
Accounted(c, id) ==
  /\ HasBuiltIn(c, id) <=> <<id, "builtin">> \notin c.replaced
  /\ HasBuiltIn(c, id) => Head(c.rules[id]).source = "builtin"

\* The files that do not disable a built-in rule leave it standing first,
LEMMA TopLevelAccounts ==
  FilesInv =>
    \A id \in BuiltInIds :
      (\A f \in Overlays : id \notin Content(f).disable) => Accounted(TopLevel, id)
<1> SUFFICES ASSUME FilesInv, NEW id \in BuiltInIds,
                    \A f \in Overlays : id \notin Content(f).disable
             PROVE  Accounted(TopLevel, id)
  OBVIOUS
<1> DEFINE builtin == [decision |-> "deny", source |-> "builtin"]
           g == Tagged(Global.rules, "global")[id]
           p == Tagged(Project.rules, "project")[id]
           s == (<<builtin>> \o g) \o p
<1>1. id \in RuleIds /\ "global" \in Overlays /\ "project" \in Overlays
  BY DEF RuleIds, Overlays
<1>2. g \in Seq(Rule) /\ p \in Seq(Rule)
  BY <1>1, ContentTypes, TaggedTypes DEF Global, Project, File
<1>3. TopLevel.rules[id] = s /\ TopLevel.replaced = {}
  BY <1>1 DEF TopLevel, MergeOverlay, BuiltIn, Global, Project
<1> HIDE DEF g, p
<1>4. builtin \in Rule
  BY DEF Rule, Sources
<1>5. s \in Seq(Rule) /\ 1 \in 1..Len(s) /\ s[1] = builtin /\ Head(s) = builtin
  <2> HIDE DEF builtin
  <2> QED
    BY <1>2, <1>4
<1> HIDE DEF s
<1> QED
  BY <1>3, <1>5 DEF Accounted, HasBuiltIn

\* and the entry of a profile takes it away only with a note.
LEMMA ProfileAccounts ==
  FilesInv =>
    \A c \in Config, n \in Names, f \in Overlays, id \in RuleIds :
      Accounted(c, id) => Accounted(ApplyProfile(c, n, f), id)
<1> SUFFICES ASSUME FilesInv, NEW c \in Config, NEW n \in Names, NEW f \in Overlays,
                    NEW id \in RuleIds, Accounted(c, id)
             PROVE  Accounted(ApplyProfile(c, n, f), id)
  OBVIOUS
<1> DEFINE entry == Content(f).profiles[n]
           rules == Tagged(entry.rules, f)
           d == ApplyProfile(c, n, f)
<1>1. CASE n \notin DOMAIN Content(f).profiles
  BY <1>1 DEF ApplyProfile
<1>2. CASE n \in DOMAIN Content(f).profiles
  <2>1. entry \in Entry
    BY <1>2, EntryOfFile
  <2>2. /\ rules[id] \in Seq(Rule)
        /\ \A k \in 1..Len(rules[id]) : rules[id][k].source = f
    <3>1. entry.rules \in Rulings
      BY <2>1 DEF Entry
    <3> HIDE DEF entry
    <3>2. /\ rules[id] \in Seq(Rule) /\ Len(rules[id]) = Len(entry.rules[id])
          /\ \A k \in 1..Len(entry.rules[id]) :
               rules[id][k] = [decision |-> entry.rules[id][k], source |-> f]
      BY <3>1, TaggedTypes
    <3> HIDE DEF rules
    <3>3. ASSUME NEW k \in 1..Len(rules[id]) PROVE rules[id][k].source = f
      <4>1. rules[id][k] = [decision |-> entry.rules[id][k], source |-> f]
        BY <3>2
      <4> QED
        BY <4>1
    <3> QED
      BY <3>2, <3>3
  <2>3. /\ d.rules[id] = IF rules[id] = <<>> THEN c.rules[id] ELSE rules[id]
        /\ d.replaced = c.replaced \cup
             {<<b, Head(c.rules[b]).source>> : b \in {b \in RuleIds : rules[b] # <<>> /\ c.rules[b] # <<>>}}
    BY <1>2 DEF ApplyProfile, ReplaceRules, Config
  <2>4. <<id, "builtin">> \in d.replaced
          <=> \/ <<id, "builtin">> \in c.replaced
              \/ rules[id] # <<>> /\ c.rules[id] # <<>> /\ Head(c.rules[id]).source = "builtin"
    BY <2>3
  <2> HIDE DEF rules, d
  <2>5. c.rules[id] \in Seq(Rule)
    BY DEF Config
  <2>6. HasBuiltIn(c, id) => c.rules[id] # <<>>
    <3>1. ASSUME c.rules[id] = <<>> PROVE ~HasBuiltIn(c, id)
      <4>1. Len(c.rules[id]) = 0
        BY <3>1
      <4> QED
        BY <4>1 DEF HasBuiltIn
    <3> QED
      BY <3>1
  <2>7. CASE rules[id] = <<>>
    BY <2>3, <2>4, <2>7 DEF Accounted, HasBuiltIn, d
  <2>8. CASE rules[id] # <<>>
    <3>1. f # "builtin"
      BY DEF Overlays
    <3>2. ~HasBuiltIn(d, id)
      BY <2>2, <2>3, <2>8, <3>1 DEF HasBuiltIn
    <3>3. <<id, "builtin">> \in d.replaced
      <4>1. CASE HasBuiltIn(c, id)
        BY <2>4, <2>6, <2>8, <4>1 DEF Accounted
      <4>2. CASE ~HasBuiltIn(c, id)
        BY <2>4, <4>2 DEF Accounted
      <4> QED
        BY <4>1, <4>2
    <3> QED
      BY <3>2, <3>3 DEF Accounted, d
  <2> QED
    BY <2>7, <2>8 DEF d
<1> QED
  BY <1>1, <1>2

\* By induction along the chain, from the files that leave the built-in rule in.
LEMMA WeakeningHolds == FilesInv => WeakeningIsReported
<1> SUFFICES ASSUME FilesInv, NEW i \in Invocations, Accepts(i), NEW id \in BuiltInIds,
                    \A f \in Overlays : id \notin Content(f).disable
             PROVE  (<<id, "builtin">> \in FinalConfig(i).replaced)
                      # (\E r \in Range(FinalConfig(i).rules[id]) : r.source = "builtin")
  BY DEF WeakeningIsReported
<1> DEFINE n == ResolveProfileName(i)
           L == Len(Walk(n))
<1>1. n \in Names /\ Walk(n) # <<>> /\ id \in RuleIds
  BY ResolvedTypes DEF Accepts, ChainsHold, RuleIds
<1>2. Walk(n) \in Seq(Names) /\ L \in Nat
  BY <1>1, WalkFinds DEF Found, Trail
<1>3. PICK h : Along(h, n)
  BY <1>1, AppliedAlong
<1>4. /\ h \in [0..L -> Config] /\ h[0] = TopLevel
      /\ \A k \in 1..L : h[k] = ApplyStep(h[k - 1], Walk(n)[L + 1 - k])
      /\ Applied(Chain(n)) = h[L]
  BY <1>3 DEF Along
<1> DEFINE G == {k \in 0..L : Accounted(h[k], id)}
<1>5. 0 \in G
  BY <1>2, <1>4, TopLevelAccounts
<1>6. ASSUME NEW k \in 0..(L - 1), k \in G PROVE k + 1 \in G
  <2> DEFINE m == Walk(n)[L + 1 - (k + 1)]
  <2>1. k \in 0..L /\ k + 1 \in 1..L /\ k + 1 \in 0..L /\ (k + 1) - 1 = k /\ m \in Names
    BY <1>2
  <2>2. h[k] \in Config /\ Accounted(h[k], id) /\ h[k + 1] = ApplyStep(h[k], m)
    BY <1>4, <1>6, <2>1
  <2> HIDE DEF m
  <2>3. /\ ApplyProfile(h[k], m, "global") \in Config
        /\ Accounted(ApplyProfile(h[k], m, "global"), id)
    BY <1>1, <2>1, <2>2, AppliedTypes, ProfileAccounts DEF Overlays
  <2>4. Accounted(h[k + 1], id)
    BY <1>1, <2>1, <2>2, <2>3, ProfileAccounts DEF Overlays, ApplyStep
  <2> QED
    BY <2>1, <2>4
<1> HIDE DEF G, L
<1>7. 0..L \subseteq G
  BY <1>2, <1>5, <1>6, CountingUp
<1>8. Accounted(h[L], id) /\ h[L] \in Config
  BY <1>2, <1>4, <1>7 DEF G
<1>9. FinalConfig(i).rules[id] = h[L].rules[id] /\ FinalConfig(i).replaced = h[L].replaced
  BY <1>4, <1>8 DEF FinalConfig, Config
<1>10. DOMAIN h[L].rules[id] = 1..Len(h[L].rules[id])
  BY <1>1, <1>8 DEF Config
<1>11. (\E r \in Range(h[L].rules[id]) : r.source = "builtin") <=> HasBuiltIn(h[L], id)
  BY <1>10 DEF Range, HasBuiltIn
<1> QED
  BY <1>8, <1>9, <1>11 DEF Accounted

\* No profile, however deep the chain and whoever wrote it, takes a built-in rule
\* away in silence.
THEOREM WeakeningAlwaysReported == Spec => []WeakeningIsReported
BY TypeCorrect, WeakeningHolds, PTL

-----------------------------------------------------------------------------
(* Precedence.                                                             *)

\* From the root, the k-th profile of a chain has k profiles in its own,
LEMMA AboveAlong ==
  FilesInv =>
    \A n \in Names : Walk(n) # <<>> =>
      \A k \in 1..Len(Walk(n)) :
        /\ IsFiniteSet(Above(Walk(n)[k]))
        /\ Cardinality(Above(Walk(n)[k])) = Len(Walk(n)) + 1 - k
<1> SUFFICES ASSUME FilesInv, NEW n \in Names, Walk(n) # <<>>, NEW k \in 1..Len(Walk(n))
             PROVE  /\ IsFiniteSet(Above(Walk(n)[k]))
                    /\ Cardinality(Above(Walk(n)[k])) = Len(Walk(n)) + 1 - k
  OBVIOUS
<1> DEFINE w == Walk(n)
           L == Len(w)
           S == k..L
           C == {w[j] : j \in S}
           q == [j \in 1..(L + 1 - k) |-> w[k - 1 + j]]
<1>1. Trail(w, n) /\ ~InCircle(w) /\ w[L] = "default"
  BY WalkFinds DEF Found
<1>2. w \in Seq(Names) /\ L \in Nat /\ L # 0 /\ k \in 1..L
  BY <1>1 DEF Trail
<1> HIDE DEF w
<1>3. \A i, j \in 1..L : w[i] = w[j] => i = j
  <2> SUFFICES ASSUME NEW i \in 1..L, NEW j \in 1..L, w[i] = w[j] PROVE i = j
    OBVIOUS
  <2>1. CASE i # L /\ j # L
    <3>1. i \in 1..(L - 1) /\ j \in 1..(L - 1)
      BY <1>2, <2>1
    <3> QED
      BY <1>1, <3>1 DEF Trail
  <2>2. CASE (i = L) # (j = L)
    BY <1>1, <1>2, <2>2 DEF InCircle
  <2> QED
    BY <2>1, <2>2
<1>4. \A j \in 1..(L - 1) : w[j] \in MergedNames \ {"default"} /\ w[j + 1] = Parent(w[j])
  BY <1>1 DEF Trail
<1>5. Above(w[k]) \subseteq C
  <2>1. C \in SUBSET Names /\ w[k] \in C /\ w[k] \in Names
    BY <1>2
  <2>2. ASSUME NEW m \in (C \cap MergedNames) \ {"default"} PROVE Parent(m) \in C
    <3>1. PICK j \in S : w[j] = m
      OBVIOUS
    <3>2. j \in 1..(L - 1) /\ j + 1 \in S
      BY <1>1, <1>2, <3>1
    <3> QED
      BY <1>4, <3>1, <3>2
  <2>3. HoldsParents(C)
    BY <2>2 DEF HoldsParents
  <2> HIDE DEF C
  <2> QED
    BY <2>1, <2>3, AboveIsLeast
<1>6. C \subseteq Above(w[k])
  <2>0. L + 1 - k \in Nat /\ L + 1 - k # 0
    BY <1>2
  <2>1. \A j \in 1..(L + 1 - k) : w[k - 1 + j] \in Names /\ k - 1 + j \in 1..L
    BY <1>2
  <2>2. q \in Seq(Names) /\ Len(q) = L + 1 - k
    <3> HIDE DEF L
    <3> QED
      BY <2>0, <2>1
  <2>3. \A j \in 1..(L + 1 - k) : q[j] = w[k - 1 + j]
    OBVIOUS
  <2>4. q[1] = w[k]
    BY <1>2, <2>0, <2>3
  <2> HIDE DEF q
  <2>5. ASSUME NEW j \in 1..(Len(q) - 1)
        PROVE  q[j] \in MergedNames \ {"default"} /\ q[j + 1] = Parent(q[j])
    <3>1. /\ j \in 1..(L + 1 - k) /\ j + 1 \in 1..(L + 1 - k) /\ k - 1 + j \in 1..(L - 1)
          /\ k - 1 + (j + 1) = (k - 1 + j) + 1
      BY <1>2, <2>2
    <3> QED
      BY <1>4, <2>3, <3>1
  <2>6. ASSUME NEW i \in 1..(Len(q) - 1), NEW j \in 1..(Len(q) - 1), q[i] = q[j] PROVE i = j
    <3>1. /\ i \in 1..(L + 1 - k) /\ j \in 1..(L + 1 - k)
          /\ k - 1 + i \in 1..L /\ k - 1 + j \in 1..L
      BY <1>2, <2>2
    <3>2. k - 1 + i = k - 1 + j
      BY <1>3, <2>3, <2>6, <3>1
    <3> QED
      BY <1>2, <3>1, <3>2
  <2>7. Trail(q, w[k])
    BY <2>0, <2>2, <2>4, <2>5, <2>6 DEF Trail
  <2>8. w[k] \in Names
    BY <1>2
  <2>9. ASSUME NEW j \in S PROVE w[j] \in Above(w[k])
    <3>1. j + 1 - k \in 1..(L + 1 - k) /\ k - 1 + (j + 1 - k) = j
      BY <1>2
    <3>2. q[j + 1 - k] \in Above(w[k])
      BY <2>2, <2>7, <2>8, <3>1, TrailsAreAbove
    <3> QED
      BY <2>3, <3>1, <3>2
  <2> QED
    BY <2>9
<1>7. Above(w[k]) = C
  BY <1>5, <1>6
<1>8. IsFiniteSet(C) /\ Cardinality(C) = L + 1 - k
  <2>1. IsFiniteSet(S) /\ Cardinality(S) = L - k + 1
    BY <1>2, FS_Interval
  <2> DEFINE f == [j \in S |-> w[j]]
  <2>2. f \in [S -> C] /\ \A t \in C : \E s \in S : f[s] = t
    OBVIOUS
  <2>3. \A i, j \in S : f[i] = f[j] => i = j
    BY <1>2, <1>3
  <2> HIDE DEF S, C, f
  <2>4. f \in Surjection(S, C)
    BY <2>2 DEF Surjection
  <2>5. f \in Injection(S, C)
    BY <2>2, <2>3 DEF Injection, IsInjective
  <2>6. IsFiniteSet(C) /\ Cardinality(C) = Cardinality(S)
    BY <2>1, <2>4, <2>5, FS_Surjection
  <2> QED
    BY <1>2, <2>1, <2>6
<1> QED
  BY <1>7, <1>8 DEF w

AllLayers ==
  {l \in ({"top"} \cup Names) \X Overlays : l[1] # "top" => l[1] \in DOMAIN Content(l[2]).profiles}

\* so that ranks are numbers, and
LEMMA RankTypes == FilesInv => \A l \in AllLayers : Rank(l) \in Nat
<1> SUFFICES ASSUME FilesInv, NEW l \in AllLayers PROVE Rank(l) \in Nat
  OBVIOUS
<1>1. IsFiniteSet(Names)
  BY ConfigAssumption, FS_AddElement DEF Names
<1>2. ASSUME NEW n \in Names PROVE Cardinality(Above(n)) \in Nat
  <2>1. IsFiniteSet(Above(n))
    BY <1>1, AboveIsLeast, FS_Subset
  <2> QED
    BY <2>1, FS_CardinalityType
<1>3. l[1] # "top" => l[1] \in Names
  BY DEF AllLayers
<1> QED
  BY <1>2, <1>3 DEF Rank

\* the highest layer is the one that outranks the others.
LEMMA HighestIs ==
  FilesInv =>
    \A K \in SUBSET AllLayers : \A l \in K :
      (\A m \in K \ {l} : Rank(m) < Rank(l)) => Highest(K) = l
<1> SUFFICES ASSUME FilesInv, NEW K \in SUBSET AllLayers, NEW l \in K,
                    \A m \in K \ {l} : Rank(m) < Rank(l)
             PROVE  Highest(K) = l
  OBVIOUS
<1>1. \A m \in K : Rank(m) \in Nat
  BY RankTypes
<1>2. \A m \in K : Rank(m) <= Rank(l)
  BY <1>1
<1>3. \A h \in K : (\A m \in K : Rank(m) <= Rank(h)) => h = l
  BY <1>1
<1> QED
  BY <1>2, <1>3 DEF Highest

Setting(K) == {l \in K : Says(l).safety # Unset}
Prompting(K) == {l \in K : Says(l).prompt = "good"}
Ruling(K, id) == {l \in K : l[1] # "top" /\ Says(l).rules[id] # <<>>}
Own(layer, id) == Range(Tagged(Says(layer).rules, layer[2])[id])

TopRules(id) ==
  (IF \E f \in Overlays : id \in Content(f).disable THEN {} ELSE Range(BuiltIn.rules[id]))
    \cup (IF \E f \in {"project"} : id \in Content(f).disable THEN {} ELSE Own(<<"top", "global">>, id))
    \cup Own(<<"top", "project">>, id)

\* A configuration is what the precedence makes of the layers K.
Agrees(c, K) ==
  /\ c.safety = IF Setting(K) = {} THEN "high" ELSE Says(Highest(Setting(K))).safety
  /\ c.trust = Override(Override("standard", Global.trust), Project.trust)
  /\ c.prompt = IF Prompting(K) = {} THEN NoPrompt ELSE Highest(Prompting(K))
  /\ c.allow = {l \in K : Says(l).allow}
  /\ \A id \in RuleIds :
       Range(c.rules[id]) = IF Ruling(K, id) # {} THEN Own(Highest(Ruling(K, id)), id)
                            ELSE TopRules(id)

Tops == {<<"top", f>> : f \in Overlays}
Part(n, f) == IF n \in DOMAIN Content(f).profiles THEN {<<n, f>>} ELSE {}

\* The part of a profile that outranks the layers so far adds itself to them.
LEMMA PartFollows ==
  FilesInv =>
    \A K \in SUBSET AllLayers, c \in Config, n \in Names, f \in Overlays :
      Agrees(c, K) /\ (\A m \in K : Rank(m) < Rank(<<n, f>>)) =>
        Agrees(ApplyProfile(c, n, f), K \cup Part(n, f))
<1> SUFFICES ASSUME FilesInv, NEW K \in SUBSET AllLayers, NEW c \in Config,
                    NEW n \in Names, NEW f \in Overlays,
                    Agrees(c, K), \A m \in K : Rank(m) < Rank(<<n, f>>)
             PROVE  Agrees(ApplyProfile(c, n, f), K \cup Part(n, f))
  OBVIOUS
<1> DEFINE entry == Content(f).profiles[n]
           l == <<n, f>>
           J == K \cup {l}
           d == ApplyProfile(c, n, f)
<1>1. CASE n \notin DOMAIN Content(f).profiles
  <2>1. K \cup Part(n, f) = K /\ ApplyProfile(c, n, f) = c
    BY <1>1 DEF Part, ApplyProfile
  <2> QED
    BY <2>1
<1>2. CASE n \in DOMAIN Content(f).profiles
  <2>1. K \cup Part(n, f) = J
    BY <1>2 DEF Part
  <2>2. entry \in Entry /\ n \in ProfileNames /\ n # "top"
    BY <1>2, EntryOfFile, MergedTypes, ConfigAssumption
  <2>3. l \in AllLayers /\ Says(l) = entry /\ l[1] = n /\ l[2] = f
    BY <1>2, <2>2 DEF AllLayers, Says
  <2>4. /\ d.safety = Override(c.safety, entry.safety)
        /\ d.trust = c.trust
        /\ d.allow = IF entry.allow THEN c.allow \cup {l} ELSE c.allow
        /\ d.prompt = IF entry.prompt = "good" THEN l ELSE c.prompt
        /\ \A id \in RuleIds :
             d.rules[id] = IF Tagged(entry.rules, f)[id] = <<>> THEN c.rules[id]
                           ELSE Tagged(entry.rules, f)[id]
    BY <1>2 DEF ApplyProfile, ReplaceRules, Config
  <2> HIDE DEF d, l, entry
  <2>5. ASSUME NEW M \in SUBSET J, l \in M PROVE Highest(M) = l
    <3>1. \A m \in M \ {l} : Rank(m) < Rank(l)
      BY DEF l
    <3> QED
      BY <2>3, <2>5, <3>1, HighestIs
  <2>6. d.safety = IF Setting(J) = {} THEN "high" ELSE Says(Highest(Setting(J))).safety
    <3>1. CASE entry.safety = Unset
      <4>1. Setting(J) = Setting(K)
        BY <2>3, <3>1 DEF Setting
      <4> QED
        BY <2>4, <3>1, <4>1 DEF Agrees, Override
    <3>2. CASE entry.safety # Unset
      <4>1. l \in Setting(J) /\ Setting(J) \in SUBSET J
        BY <2>3, <3>2 DEF Setting
      <4>2. Highest(Setting(J)) = l
        BY <2>5, <4>1
      <4> QED
        BY <2>3, <2>4, <3>2, <4>1, <4>2 DEF Override
    <3> QED
      BY <3>1, <3>2
  <2>7. d.prompt = IF Prompting(J) = {} THEN NoPrompt ELSE Highest(Prompting(J))
    <3>1. CASE entry.prompt # "good"
      <4>1. Prompting(J) = Prompting(K)
        BY <2>3, <3>1 DEF Prompting
      <4> QED
        BY <2>4, <3>1, <4>1 DEF Agrees
    <3>2. CASE entry.prompt = "good"
      <4>1. l \in Prompting(J) /\ Prompting(J) \in SUBSET J
        BY <2>3, <3>2 DEF Prompting
      <4>2. Highest(Prompting(J)) = l
        BY <2>5, <4>1
      <4> QED
        BY <2>4, <3>2, <4>1, <4>2
    <3> QED
      BY <3>1, <3>2
  <2>8. d.allow = {m \in J : Says(m).allow}
    <3>1. c.allow = {m \in K : Says(m).allow}
      BY DEF Agrees
    <3>2. entry.allow \in BOOLEAN
      BY <2>2 DEF Entry
    <3> QED
      BY <2>3, <2>4, <3>1, <3>2
  <2>9. ASSUME NEW id \in RuleIds
        PROVE  Range(d.rules[id]) = IF Ruling(J, id) # {} THEN Own(Highest(Ruling(J, id)), id)
                                    ELSE TopRules(id)
    <3>1. Tagged(entry.rules, f)[id] = <<>> <=> entry.rules[id] = <<>>
      <4>1. entry.rules \in Rulings
        BY <2>2 DEF Entry
      <4>2. entry.rules[id] \in Seq({"allow", "ask"})
        BY <4>1 DEF Rulings
      <4>3. /\ Tagged(entry.rules, f)[id] \in Seq(Rule)
            /\ Len(Tagged(entry.rules, f)[id]) = Len(entry.rules[id])
        BY <4>1, TaggedTypes
      <4>4. /\ entry.rules[id] = <<>> <=> Len(entry.rules[id]) = 0
            /\ Tagged(entry.rules, f)[id] = <<>> <=> Len(Tagged(entry.rules, f)[id]) = 0
        BY <4>2, <4>3
      <4> QED
        BY <4>3, <4>4
    <3>2. CASE entry.rules[id] = <<>>
      <4>1. Ruling(J, id) = Ruling(K, id)
        BY <2>3, <3>2 DEF Ruling
      <4>2. d.rules[id] = c.rules[id]
        BY <2>4, <3>1, <3>2
      <4> QED
        BY <4>1, <4>2 DEF Agrees
    <3>3. CASE entry.rules[id] # <<>>
      <4>1. l \in Ruling(J, id) /\ Ruling(J, id) \in SUBSET J
        BY <2>2, <2>3, <3>3 DEF Ruling
      <4>2. Highest(Ruling(J, id)) = l
        BY <2>5, <4>1
      <4>3. d.rules[id] = Tagged(entry.rules, f)[id]
        BY <2>4, <3>1, <3>3
      <4> QED
        BY <2>3, <4>1, <4>2, <4>3 DEF Own
    <3> QED
      BY <3>2, <3>3
  <2>10. Agrees(d, J)
    BY <2>4, <2>6, <2>7, <2>8, <2>9 DEF Agrees
  <2> QED
    BY <2>1, <2>10 DEF d
<1> QED
  BY <1>1, <1>2

\* The files alone follow it, and
LEMMA TopLevelAgrees == FilesInv /\ Loads => Agrees(TopLevel, Tops)
<1> SUFFICES ASSUME FilesInv, Loads PROVE Agrees(TopLevel, Tops)
  OBVIOUS
<1> DEFINE g == <<"top", "global">>
           p == <<"top", "project">>
<1>1. Tops = {g, p} /\ g # p /\ Tops \in SUBSET AllLayers
  BY DEF Tops, Overlays, AllLayers
<1>2. /\ Says(g) = Global /\ Says(p) = Project /\ g[1] = "top" /\ p[1] = "top"
      /\ g[2] = "global" /\ p[2] = "project"
  BY DEF Says, Global, Project
<1>3. Rank(g) = 0 /\ Rank(p) = 1
  BY DEF Rank
<1>4. Global \in File /\ Project \in File
  BY ContentTypes DEF Global, Project, Overlays
<1>5. Global.prompt = Unset
  BY DEF Loads
<1>6. /\ TopLevel.safety = Override(Override("high", Global.safety), Project.safety)
      /\ TopLevel.trust = Override(Override("standard", Global.trust), Project.trust)
      /\ TopLevel.prompt = IF Project.prompt = "good" THEN p ELSE NoPrompt
      /\ TopLevel.allow = (IF Global.allow THEN {g} ELSE {}) \cup (IF Project.allow THEN {p} ELSE {})
  BY DEF TopLevel, MergeOverlay, BuiltIn, Global, Project
<1> HIDE DEF g, p
<1>7. ASSUME NEW M \in SUBSET Tops, p \in M PROVE Highest(M) = p
  BY <1>1, <1>3, <1>7, HighestIs
<1>8. Highest({g}) = g
  BY <1>1, HighestIs
<1>9. TopLevel.safety = IF Setting(Tops) = {} THEN "high" ELSE Says(Highest(Setting(Tops))).safety
  <2>1. CASE Project.safety # Unset
    <3>1. p \in Setting(Tops) /\ Setting(Tops) \in SUBSET Tops
      BY <1>1, <1>2, <2>1 DEF Setting
    <3>2. Highest(Setting(Tops)) = p
      BY <1>7, <3>1
    <3> QED
      BY <1>2, <1>6, <2>1, <3>1, <3>2 DEF Override
  <2>2. CASE Project.safety = Unset /\ Global.safety # Unset
    <3>1. Setting(Tops) = {g}
      BY <1>1, <1>2, <2>2 DEF Setting
    <3> QED
      BY <1>2, <1>6, <1>8, <2>2, <3>1 DEF Override
  <2>3. CASE Project.safety = Unset /\ Global.safety = Unset
    <3>1. Setting(Tops) = {}
      BY <1>1, <1>2, <2>3 DEF Setting
    <3> QED
      BY <1>6, <2>3, <3>1 DEF Override
  <2> QED
    BY <2>1, <2>2, <2>3
<1>10. TopLevel.prompt = IF Prompting(Tops) = {} THEN NoPrompt ELSE Highest(Prompting(Tops))
  <2>1. CASE Project.prompt = "good"
    <3>1. p \in Prompting(Tops) /\ Prompting(Tops) \in SUBSET Tops
      BY <1>1, <1>2, <2>1 DEF Prompting
    <3>2. Highest(Prompting(Tops)) = p
      BY <1>7, <3>1
    <3> QED
      BY <1>6, <2>1, <3>1, <3>2
  <2>2. CASE Project.prompt # "good"
    <3>1. Prompting(Tops) = {}
      BY <1>1, <1>2, <1>5, <2>2 DEF Prompting, Unset
    <3> QED
      BY <1>6, <2>2, <3>1
  <2> QED
    BY <2>1, <2>2
<1>11. TopLevel.allow = {l \in Tops : Says(l).allow}
  <2>1. Global.allow \in BOOLEAN /\ Project.allow \in BOOLEAN
    BY <1>4 DEF File
  <2> QED
    BY <1>1, <1>2, <1>6, <2>1
<1>12. ASSUME NEW id \in RuleIds
       PROVE  Range(TopLevel.rules[id])
                = IF Ruling(Tops, id) # {} THEN Own(Highest(Ruling(Tops, id)), id) ELSE TopRules(id)
  <2> DEFINE b == BuiltIn.rules[id]
             u == Tagged(Global.rules, "global")[id]
             v == Tagged(Project.rules, "project")[id]
             first == (IF id \in Global.disable THEN <<>> ELSE b) \o u
             rest == IF id \in Project.disable THEN <<>> ELSE first
  <2>1. Ruling(Tops, id) = {}
    BY <1>1, <1>2 DEF Ruling
  <2>2. TopLevel.rules[id] = rest \o v
    <3> DEFINE merged == MergeOverlay(BuiltIn, "global")
    <3>0. merged \in Config
      BY BuiltInTypes, MergedConfigTypes DEF Overlays
    <3>1. merged.rules[id] = first
      BY BuiltInTypes DEF MergeOverlay, Global, Config
    <3> HIDE DEF merged, first
    <3>2. MergeOverlay(merged, "project").rules[id]
            = (IF id \in Content("project").disable THEN <<>> ELSE merged.rules[id])
                \o Tagged(Content("project").rules, "project")[id]
      BY <3>0 DEF MergeOverlay, Config
    <3>3. TopLevel.rules = MergeOverlay(merged, "project").rules
      BY DEF TopLevel, MergeOverlay, merged
    <3> QED
      BY <3>1, <3>2, <3>3 DEF Project
  <2>3. u \in Seq(Rule) /\ v \in Seq(Rule)
    BY <1>4, TaggedTypes DEF File, Overlays
  <2>4. b \in Seq(Rule)
    BY BuiltInTypes DEF Config
  <2>5. TopRules(id) = (IF id \in Global.disable \/ id \in Project.disable THEN {} ELSE Range(b))
                         \cup (IF id \in Project.disable THEN {} ELSE Range(u)) \cup Range(v)
    <3>1. Own(g, id) = Range(u) /\ Own(p, id) = Range(v)
      BY <1>2 DEF Own
    <3>2. /\ (\E f \in Overlays : id \in Content(f).disable)
                <=> id \in Global.disable \/ id \in Project.disable
          /\ (\E f \in {"project"} : id \in Content(f).disable) <=> id \in Project.disable
      BY DEF Overlays, Global, Project
    <3> HIDE DEF b, u, v
    <3> QED
      BY <3>1, <3>2 DEF TopRules, b, g, p
  <2> HIDE DEF b, u, v
  <2>6. ASSUME NEW s \in Seq(Rule), NEW t \in Seq(Rule)
        PROVE  s \o t \in Seq(Rule) /\ Range(s \o t) = Range(s) \cup Range(t)
    <3>1. /\ s \o t \in Seq(Rule) /\ Len(s \o t) = Len(s) + Len(t)
          /\ DOMAIN (s \o t) = 1..(Len(s) + Len(t))
          /\ DOMAIN s = 1..Len(s) /\ DOMAIN t = 1..Len(t)
          /\ Len(s) \in Nat /\ Len(t) \in Nat
      OBVIOUS
    <3>2. \A k \in 1..(Len(s) + Len(t)) :
            (s \o t)[k] = IF k <= Len(s) THEN s[k] ELSE t[k - Len(s)]
      OBVIOUS
    <3>3. ASSUME NEW k \in DOMAIN s PROVE s[k] = (s \o t)[k] /\ k \in DOMAIN (s \o t)
      BY <3>1, <3>2
    <3>4. ASSUME NEW k \in DOMAIN t
          PROVE  t[k] = (s \o t)[k + Len(s)] /\ k + Len(s) \in DOMAIN (s \o t)
      <4>1. k + Len(s) \in 1..(Len(s) + Len(t)) /\ ~(k + Len(s) <= Len(s)) /\ (k + Len(s)) - Len(s) = k
        BY <3>1
      <4> QED
        BY <3>1, <3>2, <4>1
    <3>5. ASSUME NEW k \in DOMAIN (s \o t)
          PROVE  (s \o t)[k] \in Range(s) \cup Range(t)
      <4>1. CASE k <= Len(s)
        <5>1. k \in DOMAIN s /\ (s \o t)[k] = s[k]
          BY <3>1, <3>2, <4>1
        <5> QED
          BY <5>1 DEF Range
      <4>2. CASE ~(k <= Len(s))
        <5>1. k - Len(s) \in DOMAIN t /\ (s \o t)[k] = t[k - Len(s)]
          BY <3>1, <3>2, <4>2
        <5> QED
          BY <5>1 DEF Range
      <4> QED
        BY <4>1, <4>2
    <3> DEFINE both == s \o t
    <3>6. both \in Seq(Rule)
      BY <3>1
    <3> HIDE DEF both
    <3>7. Range(both) = Range(s) \cup Range(t)
      <4>1. \A k \in DOMAIN s : s[k] \in Range(both)
        BY <3>3 DEF Range, both
      <4>2. \A k \in DOMAIN t : t[k] \in Range(both)
        BY <3>4 DEF Range, both
      <4>3. \A k \in DOMAIN both : both[k] \in Range(s) \cup Range(t)
        BY <3>5 DEF both
      <4> QED
        BY <4>1, <4>2, <4>3 DEF Range
    <3> QED
      BY <3>6, <3>7 DEF both
  <2>7. <<>> \in Seq(Rule) /\ Range(<<>>) = {}
    BY DEF Range
  <2>8. /\ first \in Seq(Rule)
        /\ Range(first) = (IF id \in Global.disable THEN {} ELSE Range(b)) \cup Range(u)
    <3>1. CASE id \in Global.disable
      BY <2>3, <2>6, <2>7, <3>1
    <3>2. CASE id \notin Global.disable
      BY <2>3, <2>4, <2>6, <3>2
    <3> QED
      BY <3>1, <3>2
  <2> HIDE DEF first
  <2>9. rest \in Seq(Rule) /\ Range(rest) = IF id \in Project.disable THEN {} ELSE Range(first)
    BY <2>7, <2>8
  <2> HIDE DEF rest
  <2>10. Range(rest \o v) = Range(rest) \cup Range(v)
    BY <2>3, <2>6, <2>9
  <2> QED
    BY <2>1, <2>2, <2>5, <2>8, <2>9, <2>10
<1> QED
  BY <1>6, <1>9, <1>10, <1>11, <1>12 DEF Agrees

\* each profile of the chain outranks the ones before it: the layers up to rank
\* 2k + 1 are the files and the first k profiles from the root.
LEMMA LayersAlong ==
  FilesInv =>
    \A i \in Invocations : Walk(ResolveProfileName(i)) # <<>> =>
      LET n == ResolveProfileName(i)
          L == Len(Walk(n))
          r(k) == Walk(n)[L + 1 - k]
          Upto(k) == {l \in Layers(i) : Rank(l) <= 2 * k + 1}
      IN /\ Layers(i) \subseteq AllLayers
         /\ Upto(0) = Tops /\ Upto(L) = Layers(i)
         /\ \A k \in 1..L :
              /\ r(k) \in Names
              /\ \A f \in Overlays :
                   Rank(<<r(k), f>>) = 2 * k + (IF f = "project" THEN 1 ELSE 0)
              /\ Upto(k) = (Upto(k - 1) \cup Part(r(k), "global")) \cup Part(r(k), "project")
<1> SUFFICES ASSUME FilesInv, NEW i \in Invocations, Walk(ResolveProfileName(i)) # <<>>
             PROVE  LET n == ResolveProfileName(i)
                        L == Len(Walk(n))
                        r(k) == Walk(n)[L + 1 - k]
                        Upto(k) == {l \in Layers(i) : Rank(l) <= 2 * k + 1}
                    IN /\ Layers(i) \subseteq AllLayers
                       /\ Upto(0) = Tops /\ Upto(L) = Layers(i)
                       /\ \A k \in 1..L :
                            /\ r(k) \in Names
                            /\ \A f \in Overlays :
                                 Rank(<<r(k), f>>) = 2 * k + (IF f = "project" THEN 1 ELSE 0)
                            /\ Upto(k) = (Upto(k - 1) \cup Part(r(k), "global"))
                                           \cup Part(r(k), "project")
  OBVIOUS
<1> DEFINE n == ResolveProfileName(i)
           w == Walk(n)
           L == Len(w)
           r(k) == w[L + 1 - k]
           Upto(k) == {l \in Layers(i) : Rank(l) <= 2 * k + 1}
<1>1. n \in Names /\ Trail(w, n) /\ Above(n) = {w[j] : j \in 1..L}
  BY ResolvedTypes, WalkFinds DEF Found
<1>2. w \in Seq(Names) /\ L \in Nat
  BY <1>1 DEF Trail
<1>3. \A k \in 1..L : Cardinality(Above(w[k])) = L + 1 - k
  BY <1>1, AboveAlong
<1>4. Layers(i) = Tops \cup {layer \in Above(n) \X Overlays :
                              layer[1] \in DOMAIN Content(layer[2]).profiles}
  BY DEF Layers, Tops
<1> HIDE DEF w, L, n
<1>5. ASSUME NEW k \in 1..L PROVE L + 1 - k \in 1..L /\ L + 1 - (L + 1 - k) = k /\ r(k) \in Names
  BY <1>2 DEF L
<1>6. ASSUME NEW k \in 1..L, NEW f \in Overlays
      PROVE  Rank(<<r(k), f>>) = 2 * k + (IF f = "project" THEN 1 ELSE 0)
  <2>1. r(k) # "top"
    BY <1>5, ConfigAssumption DEF Names
  <2>2. Cardinality(Above(r(k))) = k
    BY <1>3, <1>5
  <2> QED
    BY <2>1, <2>2 DEF Rank
<1>7. ASSUME NEW l \in Layers(i)
      PROVE  l \in Tops \/ \E k \in 1..L, f \in Overlays : l = <<r(k), f>> /\ l \in Part(r(k), f)
  <2> SUFFICES ASSUME l \notin Tops
               PROVE  \E k \in 1..L, f \in Overlays : l = <<r(k), f>> /\ l \in Part(r(k), f)
    OBVIOUS
  <2>1. l \in Above(n) \X Overlays /\ l[1] \in DOMAIN Content(l[2]).profiles
    BY <1>4
  <2>2. PICK j \in 1..L : l[1] = w[j]
    BY <1>1, <2>1
  <2>3. L + 1 - j \in 1..L /\ r(L + 1 - j) = l[1]
    BY <1>2, <2>2
  <2>4. l = <<l[1], l[2]>> /\ l[2] \in Overlays
    BY <2>1
  <2> QED
    BY <2>1, <2>3, <2>4 DEF Part
<1>8. ASSUME NEW k \in 1..L, NEW f \in Overlays PROVE Part(r(k), f) \subseteq Layers(i)
  BY <1>1, <1>4, <1>5 DEF Part
<1>9. \A l \in Tops : l \in Layers(i) /\ Rank(l) \in {0, 1}
  BY <1>4 DEF Tops, Rank
<1>10. Layers(i) \subseteq AllLayers
  <2>1. Above(n) \subseteq Names
    BY <1>1, AboveIsLeast
  <2> QED
    BY <1>4, <2>1 DEF AllLayers, Tops
<1>11. Upto(0) = Tops
  <2>1. ASSUME NEW l \in Layers(i), Rank(l) <= 2 * 0 + 1 PROVE l \in Tops
    BY <1>6, <1>7, <2>1
  <2> QED
    BY <1>9, <2>1
<1>12. Upto(L) = Layers(i)
  <2>1. ASSUME NEW l \in Layers(i) PROVE Rank(l) <= 2 * L + 1
    <3>1. CASE l \in Tops
      BY <1>2, <1>9, <3>1
    <3>2. CASE l \notin Tops
      BY <1>2, <1>6, <1>7, <3>2
    <3> QED
      BY <3>1, <3>2
  <2> QED
    BY <2>1
<1>13. ASSUME NEW k \in 1..L
       PROVE  Upto(k) = (Upto(k - 1) \cup Part(r(k), "global")) \cup Part(r(k), "project")
  <2>1. ASSUME NEW l \in Upto(k)
        PROVE  l \in Upto(k - 1) \/ l \in Part(r(k), "global") \/ l \in Part(r(k), "project")
    <3>1. CASE l \in Tops
      BY <1>9, <3>1
    <3>2. CASE l \notin Tops
      <4>1. PICK j \in 1..L : \E f \in Overlays : l = <<r(j), f>> /\ l \in Part(r(j), f)
        BY <1>7, <3>2
      <4>2. PICK f \in Overlays : l = <<r(j), f>> /\ l \in Part(r(j), f)
        BY <4>1
      <4>3. Rank(l) = 2 * j + (IF f = "project" THEN 1 ELSE 0)
        BY <1>6, <4>2
      <4>4. CASE j = k
        BY <4>2, <4>4 DEF Overlays
      <4>5. CASE j # k
        <5>1. Rank(l) <= 2 * (k - 1) + 1
          BY <4>3, <4>5
        <5> QED
          BY <5>1
      <4> QED
        BY <4>4, <4>5
    <3> QED
      BY <3>1, <3>2
  <2>2. ASSUME NEW f \in Overlays, NEW l \in Part(r(k), f) PROVE l \in Upto(k)
    <3>1. l = <<r(k), f>>
      BY DEF Part
    <3>2. Rank(l) <= 2 * k + 1
      BY <1>6, <3>1
    <3> QED
      BY <1>8, <3>2
  <2>3. ASSUME NEW l \in Upto(k - 1) PROVE l \in Upto(k)
    BY <1>10, RankTypes
  <2> HIDE DEF Upto, r
  <2> QED
    BY <2>1, <2>2, <2>3 DEF Overlays
<1> QED
  BY <1>5, <1>6, <1>10, <1>11, <1>12, <1>13 DEF w, L, n

\* By induction along the chain: each part outranks all that came before it.
LEMMA PrecedenceHolds == FilesInv => FollowsPrecedence
<1> SUFFICES ASSUME FilesInv, NEW i \in Invocations, Accepts(i)
             PROVE  LET final == FinalConfig(i)
                    IN /\ final.safety = ExpectedSafety(i)
                       /\ final.trust = ExpectedTrust(i)
                       /\ final.prompt = ExpectedPrompt(i)
                       /\ final.allow = {l \in Layers(i) : Says(l).allow}
                       /\ \A id \in RuleIds : Range(final.rules[id]) = ExpectedRules(i, id)
  BY DEF FollowsPrecedence
<1> DEFINE n == ResolveProfileName(i)
           w == Walk(n)
           L == Len(w)
           r(k) == w[L + 1 - k]
           Upto(k) == {l \in Layers(i) : Rank(l) <= 2 * k + 1}
<1>1. n \in Names /\ w # <<>> /\ Loads
  BY ResolvedTypes DEF Accepts, ChainsHold
<1>2. L \in Nat
  BY <1>1, WalkFinds DEF Found, Trail
<1>3. /\ Layers(i) \subseteq AllLayers
      /\ Upto(0) = Tops /\ Upto(L) = Layers(i)
      /\ \A k \in 1..L :
           /\ r(k) \in Names
           /\ \A f \in Overlays : Rank(<<r(k), f>>) = 2 * k + (IF f = "project" THEN 1 ELSE 0)
           /\ Upto(k) = (Upto(k - 1) \cup Part(r(k), "global")) \cup Part(r(k), "project")
  BY <1>1, LayersAlong
<1>4. PICK h : Along(h, n)
  BY <1>1, AppliedAlong
<1>5. /\ h \in [0..L -> Config] /\ h[0] = TopLevel
      /\ \A k \in 1..L : h[k] = ApplyStep(h[k - 1], r(k))
      /\ Applied(Chain(n)) = h[L]
  BY <1>4 DEF Along
<1> HIDE DEF w, L, n, r
<1> DEFINE G == {k \in 0..L : Agrees(h[k], Upto(k))}
<1>6. 0 \in G
  <2>1. Agrees(TopLevel, Tops)
    BY <1>1, TopLevelAgrees
  <2> HIDE DEF Upto
  <2> QED
    BY <1>2, <1>3, <1>5, <2>1
<1>7. ASSUME NEW k \in 0..(L - 1), k \in G PROVE k + 1 \in G
  <2>1. k \in 0..L /\ k + 1 \in 1..L /\ k + 1 \in 0..L /\ (k + 1) - 1 = k
    BY <1>2
  <2> DEFINE K == Upto(k)
             J == K \cup Part(r(k + 1), "global")
             half == ApplyProfile(h[k], r(k + 1), "global")
  <2>2. /\ r(k + 1) \in Names /\ h[k] \in Config /\ Agrees(h[k], K)
        /\ h[k + 1] = ApplyProfile(half, r(k + 1), "project")
    BY <1>3, <1>5, <1>7, <2>1 DEF ApplyStep
  <2>3. /\ Rank(<<r(k + 1), "global">>) = 2 * (k + 1)
        /\ Rank(<<r(k + 1), "project">>) = 2 * (k + 1) + 1
    BY <1>3, <2>1 DEF Overlays
  <2>4. Upto(k + 1) = J \cup Part(r(k + 1), "project")
    BY <1>3, <2>1
  <2>5. K \in SUBSET AllLayers /\ \A m \in K : Rank(m) \in Nat /\ Rank(m) <= 2 * k + 1
    BY <1>3, RankTypes
  <2> HIDE DEF K, half, Upto
  <2>6. half \in Config
    BY <2>2, AppliedTypes DEF half, Overlays
  <2>7. Agrees(half, J)
    <3>1. \A m \in K : Rank(m) < Rank(<<r(k + 1), "global">>)
      BY <2>1, <2>3, <2>5
    <3> QED
      BY <2>2, <2>5, <3>1, PartFollows DEF half, Overlays
  <2>8. J \in SUBSET AllLayers /\ \A m \in J : Rank(m) < Rank(<<r(k + 1), "project">>)
    <3>1. \A m \in Part(r(k + 1), "global") : m = <<r(k + 1), "global">>
      BY DEF Part
    <3>2. Part(r(k + 1), "global") \subseteq AllLayers
      BY <2>2 DEF Part, AllLayers, Overlays
    <3>3. \A m \in Part(r(k + 1), "global") : Rank(m) < Rank(<<r(k + 1), "project">>)
      BY <2>1, <2>3, <3>1
    <3>4. \A m \in K : Rank(m) < Rank(<<r(k + 1), "project">>)
      BY <2>1, <2>3, <2>5
    <3> QED
      BY <2>5, <3>2, <3>3, <3>4
  <2> HIDE DEF J
  <2>9. Agrees(h[k + 1], J \cup Part(r(k + 1), "project"))
    BY <2>2, <2>6, <2>7, <2>8, PartFollows DEF Overlays
  <2> QED
    BY <2>1, <2>4, <2>9
<1> HIDE DEF G
<1>8. 0..L \subseteq G
  BY <1>2, <1>6, <1>7, CountingUp
<1>9. Agrees(h[L], Layers(i)) /\ h[L] \in Config
  BY <1>2, <1>3, <1>5, <1>8 DEF G
<1>10. /\ FinalConfig(i).safety = Override(h[L].safety, i.safety)
       /\ FinalConfig(i).trust = Override(h[L].trust, i.trust)
       /\ FinalConfig(i).prompt = h[L].prompt
       /\ FinalConfig(i).allow = h[L].allow
       /\ FinalConfig(i).rules = h[L].rules
  BY <1>5, <1>9 DEF FinalConfig, Config, n
<1>11. FinalConfig(i).safety = ExpectedSafety(i)
  BY <1>9, <1>10 DEF Agrees, ExpectedSafety, Override, Setting
<1>12. FinalConfig(i).trust = ExpectedTrust(i)
  BY <1>9, <1>10 DEF Agrees, ExpectedTrust
<1>13. FinalConfig(i).prompt = ExpectedPrompt(i)
  BY <1>9, <1>10 DEF Agrees, ExpectedPrompt, Prompting
<1>14. FinalConfig(i).allow = {l \in Layers(i) : Says(l).allow}
  BY <1>9, <1>10 DEF Agrees
<1>15. ASSUME NEW id \in RuleIds PROVE Range(FinalConfig(i).rules[id]) = ExpectedRules(i, id)
  <2>1. Range(h[L].rules[id]) = IF Ruling(Layers(i), id) # {}
                                THEN Own(Highest(Ruling(Layers(i), id)), id) ELSE TopRules(id)
    BY <1>9 DEF Agrees
  <2>2. ExpectedRules(i, id) = IF Ruling(Layers(i), id) # {}
                               THEN Own(Highest(Ruling(Layers(i), id)), id) ELSE TopRules(id)
    BY DEF ExpectedRules, Ruling, Own, TopRules
  <2> QED
    BY <1>10, <2>1, <2>2
<1> QED
  BY <1>11, <1>12, <1>13, <1>14, <1>15

\* The documented precedence holds for files of any size and chains of any depth.
THEOREM PrecedenceAlwaysFollowed == Spec => []FollowsPrecedence
BY TypeCorrect, PrecedenceHolds, PTL

-----------------------------------------------------------------------------
(* Strangers do not matter.                                                *)

\* A profile that is written stays as it is.
LEMMA ProfilesStay ==
  FilesInv /\ Next =>
    \A f \in Overlays : \A n \in DOMAIN files[f].profiles :
      n \in DOMAIN files'[f].profiles /\ files'[f].profiles[n] = files[f].profiles[n]
<1> SUFFICES ASSUME FilesInv, NEW g \in Overlays, Edit(g),
                    NEW f \in Overlays, NEW n \in DOMAIN files[f].profiles
             PROVE  n \in DOMAIN files'[f].profiles /\ files'[f].profiles[n] = files[f].profiles[n]
  BY DEF Next
<1>0. files[f] \in File /\ files[g] \in File
  BY DEF FilesInv
<1>1. ASSUME NEW s, NEW v, s # "profiles", Set(g, s, v) PROVE files'[f].profiles = files[f].profiles
  BY <1>0, <1>1 DEF Set, FilesInv, File
<1>2. ASSUME NEW m, NEW entry, AddProfile(g, m, entry)
      PROVE  n \in DOMAIN files'[f].profiles /\ files'[f].profiles[n] = files[f].profiles[n]
  <2> DEFINE old == files[g].profiles
             new == [k \in DOMAIN old \cup {m} |-> IF k = m THEN entry ELSE old[k]]
  <2>1. files' = [files EXCEPT ![g] = [files[g] EXCEPT !.profiles = new]]
    BY <1>2 DEF AddProfile, FilesInv
  <2>2. m \notin DOMAIN old
    BY <1>2 DEF AddProfile
  <2>3. CASE f = g
    <3>1. files'[f].profiles = new
      BY <1>0, <2>1, <2>3 DEF FilesInv, File
    <3>2. n \in DOMAIN new /\ new[n] = old[n]
      BY <2>2, <2>3
    <3> QED
      BY <2>3, <3>1, <3>2
  <2>4. CASE f # g
    BY <2>1, <2>4 DEF FilesInv
  <2> QED
    BY <2>3, <2>4
<1>3. ASSUME NEW s, NEW v, s # "profiles", Set(g, s, v)
      PROVE  n \in DOMAIN files'[f].profiles /\ files'[f].profiles[n] = files[f].profiles[n]
  BY <1>1, <1>3
<1> QED
  BY <1>2, <1>3 DEF Edit

\* When profiles are added, what is not one of them is as it was.
LEMMA ContentStays ==
  FilesInv /\ FilesInv' /\ Next /\ OnlyProfilesAdded =>
    \A f \in Overlays :
      /\ Content(f)'.safety = Content(f).safety
      /\ Content(f)'.trust = Content(f).trust
      /\ Content(f)'.disable = Content(f).disable
      /\ Content(f)'.rules = Content(f).rules
      /\ Content(f)'.allow = Content(f).allow
      /\ Content(f)'.prompt = Content(f).prompt
      /\ Content(f)'.defaults = Content(f).defaults
      /\ \A m : m \notin Added =>
           /\ m \in DOMAIN Content(f)'.profiles <=> m \in DOMAIN Content(f).profiles
           /\ m \in DOMAIN Content(f).profiles => Content(f)'.profiles[m] = Content(f).profiles[m]
<1> SUFFICES ASSUME FilesInv, FilesInv', Next, OnlyProfilesAdded, NEW f \in Overlays
             PROVE  /\ Content(f)'.safety = Content(f).safety
                    /\ Content(f)'.trust = Content(f).trust
                    /\ Content(f)'.disable = Content(f).disable
                    /\ Content(f)'.rules = Content(f).rules
                    /\ Content(f)'.allow = Content(f).allow
                    /\ Content(f)'.prompt = Content(f).prompt
                    /\ Content(f)'.defaults = Content(f).defaults
                    /\ \A m : m \notin Added =>
                         /\ m \in DOMAIN Content(f)'.profiles <=> m \in DOMAIN Content(f).profiles
                         /\ m \in DOMAIN Content(f).profiles
                              => Content(f)'.profiles[m] = Content(f).profiles[m]
  OBVIOUS
<1> DEFINE old == files[f]
           new == files'[f]
<1>1. old \in File /\ new \in File
  BY DEF FilesInv
<1>2. [old EXCEPT !.profiles = NoProfiles] = [new EXCEPT !.profiles = NoProfiles]
  BY DEF OnlyProfilesAdded
<1>3. ASSUME NEW m, m \notin Added
      PROVE  /\ m \in DOMAIN new.profiles <=> m \in DOMAIN old.profiles
             /\ m \in DOMAIN old.profiles => new.profiles[m] = old.profiles[m]
  BY <1>3, ProfilesStay DEF Added
<1>4. Content(f) = IF old.status = "unreadable" THEN EmptyFile ELSE old
  BY DEF Content
<1>5. Content(f)' = IF new.status = "unreadable" THEN EmptyFile ELSE new
  BY DEF Content, EmptyFile
<1> HIDE DEF old, new
<1>6. /\ new.status = old.status /\ new.safety = old.safety /\ new.trust = old.trust
      /\ new.disable = old.disable /\ new.rules = old.rules /\ new.allow = old.allow
      /\ new.prompt = old.prompt /\ new.defaults = old.defaults
  BY <1>1, <1>2 DEF File
<1>7. CASE old.status = "unreadable"
  BY <1>4, <1>5, <1>6, <1>7
<1>8. CASE old.status # "unreadable"
  BY <1>3, <1>4, <1>5, <1>6, <1>8
<1> QED
  BY <1>7, <1>8

\* Nothing that a chain within A is made of has changed.
Unmoved(A) ==
  /\ TopLevel' = TopLevel
  /\ \A m \in A :
       /\ m \in MergedNames' <=> m \in MergedNames
       /\ m \in MergedNames => Parent(m)' = Parent(m)
       /\ \A c : ApplyStep(c, m)' = ApplyStep(c, m)

\* What a chain is made of changes only with a profile in it.
LEMMA StrangersMoveNothing ==
  FilesInv /\ FilesInv' /\ Next /\ OnlyProfilesAdded =>
    /\ \A i \in Invocations : ResolveProfileName(i)' = ResolveProfileName(i)
    /\ \A A : Added \cap A = {} => Unmoved(A)
<1> SUFFICES ASSUME FilesInv, FilesInv', Next, OnlyProfilesAdded
             PROVE  /\ \A i \in Invocations : ResolveProfileName(i)' = ResolveProfileName(i)
                    /\ \A A : Added \cap A = {} => Unmoved(A)
  OBVIOUS
<1>1. \A i \in Invocations : ResolveProfileName(i)' = ResolveProfileName(i)
  BY ContentStays DEF ResolveProfileName, Global, Project, Overlays
<1>2. TopLevel' = TopLevel
  <2>1. ASSUME NEW c, NEW f \in Overlays PROVE MergeOverlay(c, f)' = MergeOverlay(c, f)
    <3>1. /\ Content(f)'.safety = Content(f).safety
          /\ Content(f)'.trust = Content(f).trust
          /\ Content(f)'.disable = Content(f).disable
          /\ Content(f)'.rules = Content(f).rules
          /\ Content(f)'.allow = Content(f).allow
      BY ContentStays
    <3> QED
      BY <3>1 DEF MergeOverlay, Override, Tagged
  <2>2. Project.prompt' = Project.prompt
    BY ContentStays DEF Project, Overlays
  <2> QED
    BY <2>1, <2>2 DEF TopLevel, Overlays
<1>3. ASSUME NEW m, m \notin Added
      PROVE  /\ m \in MergedNames' <=> m \in MergedNames
             /\ m \in MergedNames => Parent(m)' = Parent(m)
             /\ \A c : ApplyStep(c, m)' = ApplyStep(c, m)
  <2>1. m \in MergedNames' <=> m \in MergedNames
    BY <1>3, ContentStays DEF MergedNames, Global, Project, Overlays
  <2>2. ASSUME m \in MergedNames PROVE Parent(m)' = Parent(m)
    <3>1. Union[m] = IF m \in DOMAIN Global.profiles THEN Global.profiles[m] ELSE Project.profiles[m]
      BY <2>2 DEF Union
    <3>2. Union'[m] = IF m \in DOMAIN Global'.profiles THEN Global'.profiles[m] ELSE Project'.profiles[m]
      BY <2>1, <2>2 DEF Union
    <3>3. Union'[m] = Union[m]
      BY <1>3, <2>2, <3>1, <3>2, ContentStays DEF MergedNames, Global, Project, Overlays
    <3> QED
      BY <3>3 DEF Parent
  <2>3. ASSUME NEW c, NEW f \in Overlays PROVE ApplyProfile(c, m, f)' = ApplyProfile(c, m, f)
    <3>1. /\ m \in DOMAIN Content(f)'.profiles <=> m \in DOMAIN Content(f).profiles
          /\ m \in DOMAIN Content(f).profiles => Content(f)'.profiles[m] = Content(f).profiles[m]
      BY <1>3, ContentStays
    <3> DEFINE Made(entry) ==
                 ReplaceRules(
                   [c EXCEPT
                      !.safety = Override(@, entry.safety),
                      !.allow = IF entry.allow THEN @ \cup {<<m, f>>} ELSE @,
                      !.prompt = IF entry.prompt = "good" THEN <<m, f>> ELSE @],
                   Tagged(entry.rules, f))
    <3>2. ApplyProfile(c, m, f) = IF m \notin DOMAIN Content(f).profiles THEN c
                                  ELSE Made(Content(f).profiles[m])
      BY DEF ApplyProfile
    <3>3. ApplyProfile(c, m, f)' = IF m \notin DOMAIN Content(f)'.profiles THEN c
                                   ELSE Made(Content(f)'.profiles[m])
      BY DEF ApplyProfile, ReplaceRules, Override, Tagged
    <3> HIDE DEF Made
    <3> QED
      BY <3>1, <3>2, <3>3
  <2>4. ASSUME NEW c PROVE ApplyStep(c, m)' = ApplyStep(c, m)
    BY <2>3 DEF ApplyStep, Overlays
  <2> QED
    BY <2>1, <2>2, <2>4
<1> QED
  BY <1>1, <1>2, <1>3 DEF Unmoved

\* What is true of every pair of files is true of the next one.
LEMMA NextWalkFinds == (FilesInv => \A n \in Names : Found(Walk(n), n))'
BY WalkFinds, PTL

\* The same of the steps in which a chain is applied.
LEMMA NextAppliedAlong == (FilesInv => \A n \in Names : Walk(n) # <<>> => \E h : Along(h, n))'
BY AppliedAlong, PTL

\* So the walk is the same one,
LEMMA WalkStays ==
  FilesInv /\ FilesInv' =>
    \A n \in Names :
      Unmoved(Above(n)) /\ Walk(n) # <<>> /\ Walk(n)' # <<>> => Walk(n)' = Walk(n)
<1> SUFFICES ASSUME FilesInv, FilesInv', NEW n \in Names, Unmoved(Above(n)),
                    Walk(n) # <<>>, Walk(n)' # <<>>
             PROVE  Walk(n)' = Walk(n)
  OBVIOUS
<1>1. PICK w : w = Walk(n)
  OBVIOUS
<1>2. PICK v : v = Walk(n)'
  OBVIOUS
<1>3. FilesInv => \A m \in Names : Found(Walk(m), m)
  BY WalkFinds
<1>4. (FilesInv => \A m \in Names : Found(Walk(m), m))'
  BY NextWalkFinds
<1>5. Found(w, n)
  BY <1>1, <1>3
<1>6. Found(v, n)'
  BY <1>2, <1>4
<1>7. /\ w \in Seq(Names) /\ Len(w) # 0 /\ w[1] = n /\ w[Len(w)] = "default"
      /\ \A k \in 1..(Len(w) - 1) : w[k] \in MergedNames \ {"default"} /\ w[k + 1] = Parent(w[k])
      /\ \A k \in 1..Len(w) : w[k] \in Above(n)
  BY <1>1, <1>5 DEF Found, Trail
<1>8. /\ v \in Seq(Names) /\ Len(v) # 0 /\ v[1] = n /\ v[Len(v)] = "default"
      /\ \A k \in 1..(Len(v) - 1) : v[k] \in MergedNames' \ {"default"} /\ v[k + 1] = Parent(v[k])'
  BY <1>2, <1>6 DEF Found, Trail, Names
<1>9. Len(w) \in Nat /\ Len(v) \in Nat
  BY <1>7, <1>8
<1> DEFINE L == Len(w) - 1
           G == {k \in 0..L : k + 1 <= Len(v) /\ v[k + 1] = w[k + 1]}
<1>10. L \in Nat
  BY <1>7, <1>9
<1>11. 0 \in G
  BY <1>7, <1>8, <1>9
<1>12. ASSUME NEW k \in 0..(L - 1), k \in G PROVE k + 1 \in G
  <2>1. k + 1 \in 1..(Len(w) - 1) /\ k + 1 \in 1..Len(w)
    BY <1>9
  <2>2. w[k + 1] \in MergedNames \ {"default"} /\ w[(k + 1) + 1] = Parent(w[k + 1]) /\ w[k + 1] \in Above(n)
    BY <1>7, <2>1
  <2>3. v[k + 1] = w[k + 1] /\ k + 1 <= Len(v)
    BY <1>12
  <2>4. k + 1 # Len(v)
    BY <1>8, <2>2, <2>3
  <2>5. k + 1 \in 1..(Len(v) - 1)
    BY <1>9, <2>1, <2>3, <2>4
  <2>6. v[(k + 1) + 1] = Parent(v[k + 1])'
    BY <1>8, <2>5
  <2>7. Parent(w[k + 1])' = Parent(w[k + 1])
    BY <2>2 DEF Unmoved
  <2>8. v[(k + 1) + 1] = w[(k + 1) + 1]
    <3>1. PICK m : m = w[k + 1]
      OBVIOUS
    <3> QED
      BY <2>2, <2>3, <2>6, <2>7
  <2> QED
    BY <1>9, <2>1, <2>5, <2>8
<1> HIDE DEF G, L
<1>13. 0..L \subseteq G
  BY <1>10, <1>11, <1>12, CountingUp
<1>14. ASSUME NEW k \in 1..Len(w) PROVE k <= Len(v) /\ v[k] = w[k]
  <2>1. k - 1 \in 0..L /\ (k - 1) + 1 = k
    BY <1>9 DEF L
  <2> QED
    BY <1>13, <2>1 DEF G
<1>15. Len(v) = Len(w)
  <2>1. Len(w) <= Len(v) /\ v[Len(w)] = "default"
    BY <1>7, <1>9, <1>14
  <2>2. ASSUME Len(w) < Len(v) PROVE FALSE
    <3>1. Len(w) \in 1..(Len(v) - 1)
      BY <1>7, <1>9, <2>2
    <3> QED
      BY <1>8, <2>1, <3>1
  <2> QED
    BY <1>9, <2>1, <2>2
<1>16. v = w
  BY <1>7, <1>8, <1>14, <1>15
<1> QED
  BY <1>1, <1>2, <1>16

\* and so is what it makes of the files.
LEMMA StrangersStep == FilesInv /\ FilesInv' /\ Next =>
  (OnlyProfilesAdded =>
     \A i \in Invocations :
       Added \cap Above(ResolveProfileName(i)) = {} /\ Accepts(i) /\ Accepts(i)'
         => FinalConfig(i) = FinalConfig(i)')
<1> SUFFICES ASSUME FilesInv, FilesInv', Next, OnlyProfilesAdded, NEW i \in Invocations,
                    Added \cap Above(ResolveProfileName(i)) = {}, Accepts(i), Accepts(i)'
             PROVE  FinalConfig(i) = FinalConfig(i)'
  OBVIOUS
<1>1. PICK n \in Names : n = ResolveProfileName(i)
  BY ResolvedTypes
<1>2. n = ResolveProfileName(i)'
  BY <1>1, StrangersMoveNothing
<1>3. Unmoved(Above(n))
  BY <1>1, StrangersMoveNothing
<1>4. Walk(n) # <<>>
  BY <1>1 DEF Accepts, ChainsHold
<1>5. Walk(n)' # <<>>
  BY <1>2 DEF Accepts, ChainsHold
<1>6. Walk(n)' = Walk(n)
  BY <1>3, <1>4, <1>5, WalkStays
<1>7. PICK w : w = Walk(n)
  OBVIOUS
<1>8. w = Walk(n)'
  BY <1>6, <1>7
<1>9. PICK h : Along(h, n)
  BY <1>4, AppliedAlong
<1>10. (FilesInv => \A m \in Names : Walk(m) # <<>> => \E g : Along(g, m))'
  BY NextAppliedAlong
<1>11. PICK g : Along(g, n)'
  BY <1>5, <1>10
<1> DEFINE L == Len(w)
           r(k) == w[L + 1 - k]
<1>12. /\ h \in [0..L -> Config] /\ h[0] = TopLevel
       /\ \A k \in 1..L : h[k] = ApplyStep(h[k - 1], r(k))
       /\ Applied(Chain(n)) = h[L]
  BY <1>7, <1>9 DEF Along
<1>13. /\ g[0] = TopLevel'
       /\ \A k \in 1..L : g[k] = ApplyStep(g[k - 1], r(k))'
       /\ Applied(Chain(n))' = g[L]
  BY <1>8, <1>11 DEF Along
<1>14. L \in Nat /\ \A k \in 1..L : r(k) \in Above(n)
  <2>1. Found(w, n)
    BY <1>7, WalkFinds
  <2>2. L \in Nat /\ Above(n) = {w[k] : k \in 1..L}
    BY <1>4, <1>7, <2>1 DEF Found, Trail
  <2>3. \A k \in 1..L : L + 1 - k \in 1..L
    BY <2>2
  <2> HIDE DEF L
  <2> QED
    BY <2>2, <2>3
<1> DEFINE G == {k \in 0..L : g[k] = h[k]}
<1>15. 0 \in G
  BY <1>3, <1>12, <1>13, <1>14 DEF Unmoved
<1>16. ASSUME NEW k \in 0..(L - 1), k \in G PROVE k + 1 \in G
  <2>1. k + 1 \in 1..L /\ k + 1 \in 0..L /\ (k + 1) - 1 = k
    BY <1>14
  <2>2. r(k + 1) \in Above(n)
    BY <1>14, <2>1
  <2>3. h[k + 1] = ApplyStep(h[k], r(k + 1))
    BY <1>12, <2>1
  <2>4. g[k + 1] = ApplyStep(g[k], r(k + 1))'
    BY <1>13, <2>1
  <2>5. ApplyStep(h[k], r(k + 1))' = ApplyStep(h[k], r(k + 1))
    BY <1>3, <2>2 DEF Unmoved
  <2>6. g[k] = h[k]
    BY <1>16
  <2> QED
    BY <2>1, <2>3, <2>4, <2>5, <2>6
<1> HIDE DEF G, L, r
<1>17. 0..L \subseteq G
  BY <1>14, <1>15, <1>16, CountingUp
<1>18. Applied(Chain(n))' = Applied(Chain(n))
  BY <1>12, <1>13, <1>14, <1>17 DEF G
<1>19. FinalConfig(i) = [Applied(Chain(n)) EXCEPT !.safety = Override(@, i.safety),
                                                  !.trust = Override(@, i.trust)]
  BY <1>1 DEF FinalConfig
<1>20. FinalConfig(i)' = [Applied(Chain(n))' EXCEPT !.safety = Override(@, i.safety),
                                                    !.trust = Override(@, i.trust)]
  BY <1>2 DEF FinalConfig, Override
<1> QED
  BY <1>18, <1>19, <1>20

\* A profile that the invocation does not inherit from changes nothing in what it
\* gets, whatever the files say.
THEOREM StrangersNeverMatter == Spec => StrangersDoNotMatter
<1>1. FilesInv /\ FilesInv' /\ [Next]_vars =>
        [OnlyProfilesAdded =>
           \A i \in Invocations :
             Added \cap Above(ResolveProfileName(i)) = {} /\ Accepts(i) /\ Accepts(i)'
               => FinalConfig(i) = FinalConfig(i)']_vars
  BY StrangersStep
<1> QED
  BY <1>1, TypeCorrect, PTL DEF Spec, StrangersDoNotMatter
=============================================================================
