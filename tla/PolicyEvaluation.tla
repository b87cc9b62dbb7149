--------------------------- MODULE PolicyEvaluation ---------------------------
(***************************************************************************)
(* How src/policy/mod.rs decides on a parsed command line, with the        *)
(* extraction of hidden commands of src/parser/wrappers.rs.  A statement   *)
(* tree is written node by node, so that every tree up to MaxNodes is a    *)
(* reachable state, and the decision is a function of the tree.            *)
(*                                                                         *)
(* A node hangs on its parent by what makes it run: as a "part" of a       *)
(* pipeline, list or subshell; as a "subst", a command or process          *)
(* substitution in a command; as what a transparent wrapper "wraps" (env,  *)
(* timeout, ...); as what find or xargs "execs"; as the body of a "shell"  *)
(* wrapper (bash -c '...').  What the matchers say of a command is a set   *)
(* of facts: the rules, allowlists and classifiers are data here.          *)
(***************************************************************************)
EXTENDS Integers, Sequences, FiniteSets

CONSTANTS
  FactSets,         \* what the matchers may say of a command
  DefaultDecision,  \* config.default_decision
  MaxUnwrapDepth,   \* MAX_UNWRAP_DEPTH
  MaxNodes,         \* bound: nodes of a tree
  MaxSpecial        \* bound: nodes with facts that neither {} nor {"listed"} are

\* What is known of a command:
\*   "deny_rule", "ask_rule"  the worst rule that matches, or an opaque env
\*   "allow_rule"   a permissive rule of an overlay matches
\*   "sensitive"    a sensitive variable is assigned or read
\*   "listed"       on the allowlist, or a version check
\*   "names"        listed by an entry of several words (uv run ruff) ...
\*   "named"        ... one of which is the name of this command (ruff)
\*   "first_hand"   covered by a classifier, unless extracted (gh api, set -e)
\*   "redirected"   its output goes into a file
\*   "descriptive"  one of the descriptive asks names it (python, ./script, ...)
\*   "bare"         an assignment without a command
Facts == {"deny_rule", "ask_rule", "allow_rule", "sensitive", "listed", "names",
          "named", "first_hand", "redirected", "descriptive", "bare"}
Decisions == {"allow", "ask", "deny"}

ASSUME PolicyAssumption ==
  /\ FactSets \subseteq SUBSET Facts
  /\ DefaultDecision \in Decisions
  /\ MaxUnwrapDepth \in Nat \ {0}
  /\ MaxNodes \in Nat \ {0}
  /\ MaxSpecial \in Nat

VARIABLE tree  \* the nodes, every one after its parent

Nodes == DOMAIN tree
Root == 1
Edges == {"part", "subst", "wraps", "execs", "shell"}
Kinds == {"command", "pipeline", "list", "opaque", "empty"}

Kind(n) == tree[n].kind
Has(n, fact) == fact \in tree[n].facts
IsCommand(n) == n \in Nodes /\ Kind(n) = "command"
Kids(n, edge) == {m \in Nodes : tree[m].parent = n /\ tree[m].edge = edge}

-----------------------------------------------------------------------------
\* What the parser can build.
FactsOf(kind) ==
  CASE kind = "command" -> FactSets
    [] kind = "pipeline" -> {{}, {"deny_rule"}}
    [] kind \in {"list", "opaque", "empty"} -> {{}}

\* May a statement of this kind hang on n in this way?  A command runs another
\* in one way only (by its name it is a wrapper, find, xargs or a shell), and an
\* unwrapped command is made of the words of its wrapper, whose substitutions
\* stay with the wrapper.  A loop or a group is its only statement or the list of
\* them, so a pipeline can be a stage of another one.
Fits(n, edge, kind) ==
  CASE edge = "part" -> Kind(n) \in {"pipeline", "list"}
    [] edge = "subst" ->
         Kind(n) = "command" /\ tree[n].edge \notin {"wraps", "execs"}
    [] edge \in {"wraps", "shell"} ->
         /\ Kind(n) = "command" /\ ~Has(n, "bare")
         /\ \A e \in Edges \ {"subst"} : Kids(n, e) = {}
         /\ edge = "wraps" => kind = "command"
    [] edge = "execs" ->
         /\ Kind(n) = "command" /\ ~Has(n, "bare") /\ kind = "command"
         /\ \A e \in Edges \ {"subst", "execs"} : Kids(n, e) = {}

Node(kind, parent, edge, facts) ==
  [kind |-> kind, parent |-> parent, edge |-> edge, facts |-> facts]

Special(facts) == facts \notin {{}, {"listed"}}

Init == \E kind \in Kinds : \E facts \in FactsOf(kind) :
          tree = <<Node(kind, 0, "root", facts)>>

\* Nodes are written in the order of their parents: one order for each tree.
Write(n, edge, kind, facts) ==
  /\ Len(tree) < MaxNodes
  /\ n >= tree[Len(tree)].parent
  /\ Fits(n, edge, kind)
  /\ "bare" \in facts => edge \notin {"wraps", "execs"}
  /\ Special(facts) => Cardinality({m \in Nodes : Special(tree[m].facts)}) < MaxSpecial
  /\ tree' = Append(tree, Node(kind, n, edge, facts))

Next == \E n \in Nodes, edge \in Edges, kind \in Kinds :
          \E facts \in FactsOf(kind) : Write(n, edge, kind, facts)

Spec == Init /\ [][Next]_tree

\* A list has an entry and a pipeline a stage, one only if it is a negation.
Complete ==
  \A n \in Nodes : Kind(n) \in {"pipeline", "list"} => Kids(n, "part") # {}

-----------------------------------------------------------------------------
(* Collecting what is to be evaluated.                                     *)

\* parser::flatten: the leaves, with those of all substitutions.
Flatten ==
  LET f[n \in Nodes] ==
        CASE Kind(n) = "command" -> {n} \cup UNION {f[m] : m \in Kids(n, "subst")}
          [] Kind(n) \in {"pipeline", "list"} -> UNION {f[m] : m \in Kids(n, "part")}
          [] Kind(n) \in {"opaque", "empty"} -> {n}
  IN f

\* flatten_top_only: the leaves without the substitutions ...
FlattenTopOnly ==
  LET f[n \in Nodes] ==
        IF Kind(n) \in {"pipeline", "list"}
        THEN UNION {f[m] : m \in Kids(n, "part")} ELSE {n}
  IN f[Root]

\* ... and collect_substitution_leaves: the leaves of those.
CollectSubstitutionLeaves ==
  UNION {Flatten[m] : m \in UNION {Kids(n, "subst") : n \in FlattenTopOnly}}

\* collect_pipelines: a pipeline itself, but nothing inside its stages, those of
\* the entries of a list and those of the substitutions of a command.
CollectPipelines ==
  LET f[n \in Nodes] ==
        IF Kind(n) = "pipeline" THEN {n}
        ELSE UNION {f[m] : m \in Kids(n, "part") \cup Kids(n, "subst")}
  IN f

\* The Opaque statement that stands for what lies beyond MAX_UNWRAP_DEPTH.
TooDeep == 0
Depths == 0..MaxUnwrapDepth

\* unwrap_recursive: what a wrapper wraps, and what that wraps, ...
Unwrapped ==
  LET f[x \in Nodes \X Depths] ==
        LET n == x[1]
            depth == x[2]
        IN UNION {IF depth = MaxUnwrapDepth THEN {TooDeep} ELSE {m} \cup f[<<m, depth + 1>>] :
                    m \in Kids(n, "wraps")}
  IN [n \in Nodes |-> f[<<n, 0>>]]

\* push_find_xargs_extra: what find or xargs runs, and what that wraps.
Found(m) == {m} \cup Unwrapped[m]

\* collect_find_xargs_extras: what find and xargs run, again and again.
Executed ==
  LET f[x \in Nodes \X Depths] ==
        LET n == x[1]
            depth == x[2]
        IN UNION {IF depth = MaxUnwrapDepth THEN {TooDeep}
                  ELSE Found(m) \cup
                         UNION {f[<<c, depth + 1>>] : c \in Found(m) \ {TooDeep}} :
                    m \in Kids(n, "execs")}
  IN [n \in Nodes |-> f[<<n, 0>>]]

\* Mutated: what find or xargs runs is not looked for behind a wrapper.
InnerUnexecuted(n) == Unwrapped[n] \cup Executed[n]

\* What a command runs without a shell in between.
Inner(n) ==
  Unwrapped[n] \cup UNION {Executed[m] : m \in {n} \cup (Unwrapped[n] \ {TooDeep})}

\* What shells run for a command, or for what it runs.
Bodies(n) == UNION {Kids(m, "shell") : m \in ({n} \cup Inner(n)) \ {TooDeep}}

\* collect_inner_commands and collect_shell_c_recursive, which differ in that
\* the latter adds the statement itself and counts the shells it is inside of.
ExtractInnerCommands ==
  LET f[x \in {"collect", "shell"} \X Nodes \X Depths] ==
        LET mode == x[1]
            n == x[2]
            depth == x[3]
            inside == IF mode = "shell" THEN depth + 1 ELSE 0
        IN IF mode = "shell" /\ depth = MaxUnwrapDepth THEN {TooDeep}
           ELSE (IF mode = "shell" THEN {n} ELSE {}) \cup
                CASE Kind(n) = "command" ->
                       Inner(n) \cup (UNION {f[<<"collect", m, 0>>] : m \in Kids(n, "subst")})
                                \cup (UNION {f[<<"shell", m, inside>>] : m \in Bodies(n)})
                  [] Kind(n) \in {"pipeline", "list"} ->
                       UNION {f[<<"collect", m, 0>>] : m \in Kids(n, "part")}
                  [] Kind(n) \in {"opaque", "empty"} -> {}
  IN f[<<"collect", Root, 0>>]

ExtraLeaves(extras) ==
  UNION {IF s = TooDeep THEN {TooDeep} ELSE Flatten[s] : s \in extras}

-----------------------------------------------------------------------------
(* Deciding.                                                               *)

\* The body of a shell wrapper, if it could be parsed.
Body(n) == {m \in Kids(n, "shell") : Kind(m) # "opaque"}

\* evaluate_leaf: rules, then sensitive variables, then whatever may allow, and
\* at last the descriptive asks, that of a redirected shell among them; what
\* nothing is said of is allowed for now.  A permissive rule returns nothing here.
EvaluateLeaf(n, isExtra) ==
  CASE n = TooDeep -> "ask"
    [] n # TooDeep /\ Kind(n) = "opaque" -> "ask"
    [] n # TooDeep /\ Kind(n) # "opaque" ->
         IF Has(n, "deny_rule") THEN "deny"
         ELSE IF Has(n, "ask_rule") \/ Has(n, "sensitive") THEN "ask"
         ELSE IF Has(n, "listed") \/ (Has(n, "first_hand") /\ ~isExtra) THEN "allow"
         ELSE IF Has(n, "descriptive") \/ (Has(n, "redirected") /\ Body(n) # {}) THEN "ask"
         ELSE "allow"

Worst(decisions) ==
  IF "deny" \in decisions THEN "deny"
  ELSE IF "ask" \in decisions THEN "ask" ELSE "allow"

\* is_allowlisted: a bare assignment is as good as its substitutions.
IsAllowlisted ==
  LET f[n \in Nodes] ==
        IF Kind(n) = "command" /\ Has(n, "bare")
        THEN \A s \in Kids(n, "subst") : \A m \in Flatten[s] : f[m]
        ELSE Kind(n) = "empty" \/ (Kind(n) = "command" /\ Has(n, "listed"))
  IN f

\* shell_c_covered_via_extras: the body is evaluated in the wrapper's place.
ShellCovered(n, extras) ==
  ~Has(n, "redirected") /\ Body(n) # {} /\ Body(n) \subseteq extras

\* is_covered_by_wrapper_entry: an entry that allows one of the commands as they
\* stand names this one.
NamedByEntry(n, leaves) ==
  Has(n, "named") /\ \E m \in leaves : IsCommand(m) /\ Has(m, "names")

\* classifier_covers and allow_rule_covers.
OtherwiseCovered(n, isExtra) ==
  Has(n, "allow_rule") \/ (Has(n, "first_hand") /\ ~isExtra)

\* Mutated: what is extracted is covered by what it was extracted from.
AllCoveredOutside(leaves, extras, extraLeaves, substLeaves) ==
  /\ \A n \in leaves : IsAllowlisted[n] \/ ShellCovered(n, extras)
                       \/ OtherwiseCovered(n, FALSE)
  /\ \A n \in substLeaves : IsAllowlisted[n] \/ OtherwiseCovered(n, TRUE)

\* The all-covered gate.
AllCovered(leaves, extras, extraLeaves, substLeaves) ==
  /\ \A n \in leaves : IsAllowlisted[n] \/ ShellCovered(n, extras)
                       \/ OtherwiseCovered(n, FALSE)
  /\ \A n \in extraLeaves : IsAllowlisted[n] \/ NamedByEntry(n, leaves)
                            \/ ShellCovered(n, extras) \/ OtherwiseCovered(n, TRUE)
  /\ \A n \in substLeaves : IsAllowlisted[n] \/ OtherwiseCovered(n, TRUE)

\* Mutated: the gate is left out once a permissive classifier has spoken.
GateIsDueUnclassified(worst) ==
  worst = "allow" /\ \A n \in Nodes : ~Has(n, "first_hand")

\* The gate looks at what nothing has objected to, whatever has allowed it.
GateIsDue(worst) == worst = "allow"

\* evaluate: the worst that a pipeline rule or a leaf calls for, and the default
\* for a command line that nothing objects to but that is not covered either.
Evaluation ==
  LET leaves      == FlattenTopOnly
      extras      == ExtractInnerCommands
      extraLeaves == ExtraLeaves(extras)
      substLeaves == CollectSubstitutionLeaves
      pipelines   == CollectPipelines[Root] \cup
                     UNION {CollectPipelines[s] : s \in extras \ {TooDeep}}
      worst == Worst({"deny" : p \in {q \in pipelines : Has(q, "deny_rule")}}
                     \cup {EvaluateLeaf(n, FALSE) : n \in leaves}
                     \cup {EvaluateLeaf(n, TRUE) : n \in extraLeaves \cup substLeaves})
  IN IF GateIsDue(worst) /\ ~AllCovered(leaves, extras, extraLeaves, substLeaves)
     THEN DefaultDecision ELSE worst

-----------------------------------------------------------------------------
TypeOK ==
  /\ Len(tree) \in 1..MaxNodes
  /\ \A n \in Nodes :
       /\ Kind(n) \in Kinds /\ tree[n].facts \in FactsOf(Kind(n))
       /\ tree[n].parent \in 0..(n - 1)
       \* What is run without a shell is a command; it has no substitutions.
       /\ tree[n].edge \in {"wraps", "execs"} =>
            Kind(n) = "command" /\ Kids(n, "subst") = {} /\ ~Has(n, "bare")
       /\ \A e \in Edges \ {"part"} : Kids(n, e) # {} => Kind(n) = "command"
  /\ Evaluation \in Decisions

\* Is some chain of wrappers longer than longline follows it?
BeyondDepth == TooDeep \in ExtractInnerCommands

\* However deep a denied command is hidden in pipelines, substitutions, wrappers,
\* find, xargs and shells, and whatever stands next to it, the line is denied; if
\* it is hidden deeper than longline looks, the line is not allowed at least.
DenialIsFinal ==
  (Complete /\ \E n \in Nodes : IsCommand(n) /\ Has(n, "deny_rule"))
    => Evaluation = "deny" \/ (BeyondDepth /\ Evaluation # "allow")

\* Does n run as it stands, and not extracted from another command?
AsItStands ==
  LET f[n \in Nodes] == n = Root \/ (tree[n].edge = "part" /\ f[tree[n].parent])
  IN f

\* Reference: what may stand behind the permission to run one command.
Vouched(n) ==
  /\ {"deny_rule", "ask_rule", "sensitive"} \cap tree[n].facts = {}
  /\ "descriptive" \in tree[n].facts => {"listed", "first_hand"} \cap tree[n].facts # {}
  /\ \/ {"listed", "allow_rule", "bare"} \cap tree[n].facts # {}
     \/ Has(n, "first_hand") /\ AsItStands[n]
     \/ /\ Has(n, "named") /\ ~AsItStands[n]
        /\ \E m \in Nodes : Has(m, "names") /\ AsItStands[m]
     \/ ~Has(n, "redirected") /\ \E m \in Kids(n, "shell") : Kind(m) # "opaque"

\* With the default to ask, a line is allowed only if every command in it, at
\* whatever depth, is vouched for by itself, and nothing in it is opaque.
AllowIsVouched ==
  (Complete /\ DefaultDecision = "ask" /\ Evaluation = "allow")
    => \A n \in Nodes : Kind(n) # "opaque" /\ (IsCommand(n) => Vouched(n))

Rank(decision) == CASE decision = "allow" -> 0 [] decision = "ask" -> 1 [] decision = "deny" -> 2

\* The most restrictive decision wins: one more command in a list or a pipeline
\* never makes the line's decision less restrictive, except where the new one's
\* allowlist entry names a command that is wrapped elsewhere.  It takes a default
\* that is not to deny, since the default yields to an ask.
OneMoreNeverHelps ==
  [][LET new == tree'[Len(tree')]
     IN (Complete /\ Complete' /\ new.edge = "part" /\ "names" \notin new.facts)
          => Rank(Evaluation) <= Rank(Evaluation')]_tree
=============================================================================
