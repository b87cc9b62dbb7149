---------------------------- MODULE ConfigFinalize ----------------------------
(***************************************************************************)
(* How src/config builds the configuration of one invocation: the built-in *)
(* rules, the overlay files of the user (global) and of the project, and   *)
(* the chain of profiles the invocation resolves to.  The files are        *)
(* written setting by setting, so that every pair of files of up to        *)
(* MaxEdits settings is a reachable state; what an invocation makes of     *)
(* them is a function of the two files and its command line.               *)
(*                                                                         *)
(* Rules meet only others of their id, so a list of rules is kept for each *)
(* id: the decisions, in their order.  Allowlist entries are only ever     *)
(* appended, so what counts is which layers have contributed.              *)
(***************************************************************************)
EXTENDS Integers, FiniteSets, SequencesExt

CONSTANTS
  ProfileNames,  \* names of profiles, "default" and "unresolved" among them
  BuiltInIds,    \* ids of the built-in rules, all of which deny
  OverlayIds,    \* ids of rules in overlays and profiles
  MaxEdits       \* bound: settings in the two files together

ASSUME ConfigAssumption ==
  /\ {"default", "unresolved"} \subseteq ProfileNames
  /\ ProfileNames \cap {"unset", "top"} = {}  \* said of no profile
  /\ IsFiniteSet(ProfileNames)
  /\ MaxEdits \in Nat

VARIABLES
  files,  \* the overlay files: "global" and "project"
  edits   \* settings written so far

vars == <<files, edits>>

-----------------------------------------------------------------------------
Overlays == {"global", "project"}
Runtimes == {"claude", "codex"}
Unset == "unset"
Levels == {"critical", "strict"}
Prompts == {"blank", "bad", "good"}  \* "bad" lacks a placeholder

RuleIds == BuiltInIds \cup OverlayIds
NoRules == [id \in RuleIds |-> <<>>]
RulesOf(id, decisions) == [NoRules EXCEPT ![id] = decisions]
NoDefaults == [rt \in Runtimes |-> Unset]
NoProfiles == <<>>
NoPrompt == <<Unset, Unset>>

\* ProjectConfig; an absent file and an empty one have the same effect.
EmptyFile ==
  [status |-> "readable", safety |-> Unset, trust |-> Unset, disable |-> {},
   rules |-> NoRules, allow |-> FALSE, prompt |-> Unset, defaults |-> NoDefaults,
   profiles |-> NoProfiles]

\* ProfileEntry.
EmptyEntry ==
  [extends |-> Unset, safety |-> Unset, rules |-> NoRules, allow |-> FALSE,
   prompt |-> Unset]

\* The entries that occur: one of two full bodies or none, under any parent, and
\* two kinds that are refused.
Bodies ==
  {EmptyEntry}
    \cup {[EmptyEntry EXCEPT !.safety = "critical", !.allow = TRUE, !.prompt = "good",
                            !.rules = RulesOf(id, <<"allow">>)] : id \in OverlayIds}
    \cup {[EmptyEntry EXCEPT !.safety = "strict", !.prompt = "blank",
                            !.rules = RulesOf(id, <<"ask">>)] : id \in OverlayIds}

Entries ==
  {[body EXCEPT !.extends = parent] :
     body \in Bodies, parent \in {Unset, "nowhere"} \cup (ProfileNames \ {"unresolved"})}
  \cup {[EmptyEntry EXCEPT !.rules = RulesOf(id, <<"allow", "ask">>)] : id \in OverlayIds}
  \cup {[EmptyEntry EXCEPT !.prompt = "bad"]}

\* Command lines: a runtime, a profile, or levels, as each shows only in its own
\* part of the result.
Invocations ==
  {i \in [runtime : Runtimes, profile : {Unset, "nowhere"} \cup ProfileNames,
          safety : {Unset, "high"}, trust : {Unset, "minimal"}] :
     /\ i.profile # Unset \/ i.safety # Unset => i.runtime = "claude"
     /\ i.profile = Unset \/ i.safety = Unset
     /\ i.safety = Unset <=> i.trust = Unset}

-----------------------------------------------------------------------------
\* Somebody adds a setting to a file.
Set(f, setting, value) ==
  /\ files[f][setting] = EmptyFile[setting]
  /\ files' = [files EXCEPT ![f][setting] = value]

AddProfile(f, name, entry) ==
  /\ name \notin DOMAIN files[f].profiles
  /\ files' = [files EXCEPT ![f].profiles =
                 [n \in DOMAIN @ \cup {name} |-> IF n = name THEN entry ELSE @[n]]]

Edit(f) ==
  \/ \E s \in {"broken", "unreadable"} : Set(f, "status", s)
  \/ \E l \in Levels : Set(f, "safety", l)
  \/ Set(f, "trust", "full")
  \/ Set(f, "allow", TRUE)
  \/ \E id \in OverlayIds : Set(f, "disable", {id}) \/ Set(f, "rules", RulesOf(id, <<"ask">>))
  \/ \E p \in Prompts : Set(f, "prompt", p)
  \/ \E rt \in Runtimes, n \in (ProfileNames \ {"unresolved"}) \cup {"nowhere"} :
       Set(f, "defaults", [NoDefaults EXCEPT ![rt] = n])
  \/ AddProfile(f, "unresolved", EmptyEntry)
  \/ \E n \in ProfileNames \ {"unresolved"}, entry \in Entries : AddProfile(f, n, entry)

Init == files = [f \in Overlays |-> EmptyFile] /\ edits = 0

Next == /\ edits < MaxEdits
        /\ edits' = edits + 1
        /\ \E f \in Overlays : Edit(f)

Spec == Init /\ [][Next]_vars

-----------------------------------------------------------------------------
\* A file that cannot be read is treated as absent.
Content(f) == IF files[f].status = "unreadable" THEN EmptyFile ELSE files[f]
Global == Content("global")
Project == Content("project")

\* load_global_config and load_project_config.
Loads ==
  /\ \A f \in Overlays : files[f].status # "broken"
  /\ Global.prompt = Unset
  /\ Project.prompt # "bad"

\* check_and_merge_profile_names: no project may redeclare a parent.
EdgesAreDeclaredOnce ==
  \A n \in DOMAIN Global.profiles \cap DOMAIN Project.profiles :
    Project.profiles[n].extends = Unset

MergedNames == DOMAIN Global.profiles \cup DOMAIN Project.profiles

\* The union in which parents are looked up: the global entry comes first.
Union == [n \in MergedNames |-> IF n \in DOMAIN Global.profiles
                                THEN Global.profiles[n] ELSE Project.profiles[n]]

ValidProfiles(profiles, defaults) ==
  /\ "unresolved" \notin DOMAIN profiles
  /\ \A n \in DOMAIN profiles :
       /\ \A id \in RuleIds : Len(profiles[n].rules[id]) <= 1
       /\ profiles[n].prompt # "bad"
  /\ \A rt \in Runtimes : defaults[rt] \in {Unset, "default"} \cup DOMAIN profiles

\* The four calls of validate_profiles.
Validated ==
  /\ ValidProfiles(Union, Project.defaults)
  /\ ValidProfiles(Union, Global.defaults)
  /\ ValidProfiles(Global.profiles, NoDefaults)
  /\ ValidProfiles(Project.profiles, NoDefaults)

Parent(n) == IF Union[n].extends = Unset THEN "default" ELSE Union[n].extends

\* walk_extends_chain from the leaf to the root; <<>> if it ends in an error:
\* a cycle, an unknown profile, or a default profile with a parent.
Walk(start) ==
  LET walk[path \in Seq(ProfileNames \cup {"nowhere"})] ==
        LET cursor == Last(path)
        IN IF \E i \in 1..(Len(path) - 1) : path[i] = cursor THEN <<>>
           ELSE IF cursor = "default"
           THEN IF "default" \in MergedNames /\ Union["default"].extends # Unset
                THEN <<>> ELSE path
           ELSE IF cursor \notin MergedNames THEN <<>>
           ELSE walk[Append(path, Parent(cursor))]
  IN walk[<<start>>]

\* Mutated: every profile there is, and not only the chain.
ChainOfEverything(name) == SetToSeq(MergedNames)

\* Root first; the root is left out if nobody defined a default profile.
Chain(name) ==
  LET rootFirst == Reverse(Walk(name))
  IN IF "default" \in MergedNames THEN rootFirst ELSE Tail(rootFirst)

ResolveProfileName(i) ==
  IF i.profile # Unset THEN i.profile
  ELSE IF Project.defaults[i.runtime] # Unset THEN Project.defaults[i.runtime]
  ELSE IF Global.defaults[i.runtime] # Unset THEN Global.defaults[i.runtime]
  ELSE "default"

\* Mutated: only the chain that is used is walked.
ChainsHoldWhereUsed(i) ==
  LET resolved == ResolveProfileName(i)
  IN resolved \in MergedNames \cup {"default"} /\ Walk(resolved) # <<>>

\* Every chain is walked, whether or not it is used.
ChainsHold(i) ==
  LET resolved == ResolveProfileName(i)
  IN /\ \A n \in MergedNames \cup {resolved} : Walk(n) # <<>>
     /\ resolved \in MergedNames \cup {"default"}

Accepts(i) == Loads /\ EdgesAreDeclaredOnce /\ Validated /\ ChainsHold(i)

-----------------------------------------------------------------------------
Override(old, new) == IF new = Unset THEN old ELSE new

Tagged(rules, source) ==
  [id \in RuleIds |->
     [k \in DOMAIN rules[id] |-> [decision |-> rules[id][k], source |-> source]]]

\* The built-in configuration.
BuiltIn ==
  [safety |-> "high", trust |-> "standard", allow |-> {}, prompt |-> NoPrompt,
   rules |-> [id \in RuleIds |-> IF id \in BuiltInIds
                                THEN <<[decision |-> "deny", source |-> "builtin"]>> ELSE <<>>],
   replaced |-> {}]

\* merge_overlay_config: disable_rules reaches what came before, never the
\* overlay's own rules, and a rule of the same id stands beside the old one.
MergeOverlay(config, f) ==
  [config EXCEPT
     !.safety = Override(@, Content(f).safety),
     !.trust = Override(@, Content(f).trust),
     !.allow = IF Content(f).allow THEN @ \cup {<<"top", f>>} ELSE @,
     !.rules = [id \in RuleIds |-> (IF id \in Content(f).disable THEN <<>> ELSE @[id])
                                     \o Tagged(Content(f).rules, f)[id]]]

TopLevel ==
  LET merged == MergeOverlay(MergeOverlay(BuiltIn, "global"), "project")
  IN IF Project.prompt = "good" THEN [merged EXCEPT !.prompt = <<"top", "project">>]
     ELSE merged

\* Mutated: the rule to be replaced is looked for when it is already gone.
ReplaceRulesFirst(config, rules) ==
  [config EXCEPT !.rules = [id \in RuleIds |-> IF rules[id] = <<>> THEN @[id] ELSE rules[id]]]

\* A profile's rule takes the place of all rules of its id; the first of them is
\* noted with its source.  A profile has only one rule of an id.
ReplaceRules(config, rules) ==
  [config EXCEPT
     !.rules = [id \in RuleIds |-> IF rules[id] = <<>> THEN @[id] ELSE rules[id]],
     !.replaced = @ \cup {<<id, Head(config.rules[id]).source>> :
                            id \in {d \in RuleIds : rules[d] # <<>> /\ config.rules[d] # <<>>}}]

\* apply_profile_overlay_full, for the entry of profile n in file f, if any.
ApplyProfile(config, n, f) ==
  IF n \notin DOMAIN Content(f).profiles THEN config
  ELSE LET entry == Content(f).profiles[n]
       IN ReplaceRules(
            [config EXCEPT
               !.safety = Override(@, entry.safety),
               !.allow = IF entry.allow THEN @ \cup {<<n, f>>} ELSE @,
               !.prompt = IF entry.prompt = "good" THEN <<n, f>> ELSE @],
            Tagged(entry.rules, f))

\* Mutated: the project's entry is applied ahead of the global one.
ApplyProjectFirst(config, n) ==
  ApplyProfile(ApplyProfile(config, n, "project"), n, "global")

ApplyStep(config, n) == ApplyProfile(ApplyProfile(config, n, "global"), n, "project")

\* The profiles of the chain are applied from the root to the leaf.
Applied(chain) ==
  LET upTo[k \in 0..Len(chain)] ==
        IF k = 0 THEN TopLevel ELSE ApplyStep(upTo[k - 1], chain[k])
  IN upTo[Len(chain)]

\* finalize_config, for an invocation it accepts.
FinalConfig(i) ==
  [Applied(Chain(ResolveProfileName(i))) EXCEPT !.safety = Override(@, i.safety),
                                                !.trust = Override(@, i.trust)]

\* Mutated: names and contents are checked, but not the chains.
ProfilesCommandSkipsChains == Loads /\ EdgesAreDeclaredOnce /\ Validated

\* `longline profiles` checks the files on its own, without an invocation.
ProfilesCommandAccepts ==
  /\ Loads
  /\ EdgesAreDeclaredOnce
  /\ Validated
  /\ \A n \in MergedNames : Walk(n) # <<>>

-----------------------------------------------------------------------------
\* Reference: a profile and all it inherits from, by closure of the parents.
Above(n) ==
  LET up[k \in 0..Cardinality(ProfileNames)] ==
        IF k = 0 THEN {n}
        ELSE LET below == up[k - 1]
             IN below \cup {Parent(m) : m \in (below \cap MergedNames) \ {"default"}}
  IN up[Cardinality(ProfileNames)]

\* The layers that have a say, and how much: the files, then the profiles from
\* the root down, the project's part of each over the global one.
Layers(i) ==
  {<<"top", f>> : f \in Overlays}
    \cup {layer \in Above(ResolveProfileName(i)) \X Overlays :
            layer[1] \in DOMAIN Content(layer[2]).profiles}

Rank(layer) ==
  (IF layer[1] = "top" THEN 0 ELSE 2 * Cardinality(Above(layer[1])))
    + (IF layer[2] = "project" THEN 1 ELSE 0)

Highest(layers) == CHOOSE l \in layers : \A m \in layers : Rank(m) <= Rank(l)

Says(layer) == IF layer[1] = "top" THEN Content(layer[2])
               ELSE Content(layer[2]).profiles[layer[1]]

ExpectedSafety(i) ==
  LET setting == {l \in Layers(i) : Says(l).safety # Unset}
  IN IF i.safety # Unset THEN i.safety
     ELSE IF setting = {} THEN "high" ELSE Says(Highest(setting)).safety

ExpectedTrust(i) ==
  Override(Override(Override("standard", Global.trust), Project.trust), i.trust)

ExpectedPrompt(i) ==
  LET setting == {l \in Layers(i) : Says(l).prompt = "good"}
  IN IF setting = {} THEN NoPrompt ELSE Highest(setting)

ExpectedRules(i, id) ==
  LET ruling == {l \in Layers(i) : l[1] # "top" /\ Says(l).rules[id] # <<>>}
      own(layer) == Range(Tagged(Says(layer).rules, layer[2])[id])
      disabled(later) == \E f \in later : id \in Content(f).disable
  IN IF ruling # {} THEN own(Highest(ruling))
     ELSE (IF disabled(Overlays) THEN {} ELSE Range(BuiltIn.rules[id]))
            \cup (IF disabled({"project"}) THEN {} ELSE own(<<"top", "global">>))
            \cup own(<<"top", "project">>)

\* The documented precedence, for every field: command line, then profiles from
\* leaf to root with the project's part over the global one, then the project's
\* file, the global file, the built-in rules.  A profile's rule stands alone for
\* its id, and whatever no layer touches is as it was.
FollowsPrecedence ==
  \A i \in Invocations : Accepts(i) =>
    LET final == FinalConfig(i)
    IN /\ final.safety = ExpectedSafety(i)
       /\ final.trust = ExpectedTrust(i)
       /\ final.prompt = ExpectedPrompt(i)
       /\ final.allow = {l \in Layers(i) : Says(l).allow}
       /\ \A id \in RuleIds : Range(final.rules[id]) = ExpectedRules(i, id)

\* No profile takes away a built-in rule in silence: one that no file disables is
\* in force, or `longline rules` names it as overridden, and never both.
WeakeningIsReported ==
  \A i \in Invocations : Accepts(i) =>
    \A id \in BuiltInIds :
      (\A f \in Overlays : id \notin Content(f).disable) =>
        LET final == FinalConfig(i)
        IN (<<id, "builtin">> \in final.replaced)
             # (\E r \in Range(final.rules[id]) : r.source = "builtin")

\* Files are accepted only if every profile in them, used or not, inherits from
\* the default profile over defined ones and in no circle; and nothing else about
\* the parents makes them rejected.
Rooted(n) ==
  /\ "default" \in Above(n)
  /\ Above(n) \subseteq MergedNames \cup {"default"}
  /\ "default" \in MergedNames => Union["default"].extends = Unset

AcceptedIsRooted ==
  Loads /\ EdgesAreDeclaredOnce /\ Validated =>
    \A i \in Invocations :
      Accepts(i) <=> \A n \in MergedNames \cup {ResolveProfileName(i)} : Rooted(n)

OnlyProfilesAdded ==
  \A f \in Overlays :
    [files[f] EXCEPT !.profiles = NoProfiles] = [files'[f] EXCEPT !.profiles = NoProfiles]

Added == UNION {DOMAIN files'[f].profiles \ DOMAIN files[f].profiles : f \in Overlays}

\* A profile that the invocation does not inherit from can make the files invalid
\* but never changes what an invocation gets out of valid ones.
StrangersDoNotMatter ==
  [][OnlyProfilesAdded =>
       \A i \in Invocations :
         Added \cap Above(ResolveProfileName(i)) = {} /\ Accepts(i) /\ Accepts(i)'
           => FinalConfig(i) = FinalConfig(i)']_vars

\* `longline profiles`, which repeats the checks of finalize_config, accepts
\* exactly the files that a hook of either runtime accepts.
ProfilesCommandAgrees ==
  ProfilesCommandAccepts <=>
    \A i \in Invocations : i.profile = Unset => Accepts(i)
=============================================================================
