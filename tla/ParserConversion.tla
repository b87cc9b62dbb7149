-------------------------- MODULE ParserConversion --------------------------
(***************************************************************************)
(* How longline turns the syntax tree of a command line into the Statement *)
(* tree that the policy evaluates (src/src/parser/convert.rs).             *)
(*                                                                         *)
(* tree-sitter is external: a behaviour writes a syntax tree node by node, *)
(* in preorder, within the grammar of tree-sitter-bash 0.25, the kinds the *)
(* converters tell apart.  A node is a record of its kind, its parent and  *)
(* its role; the constructs' `do`, `elif` and `else` groups are written as *)
(* children of the construct with a role of their own.  Text is left out:  *)
(* a command is its node, and no target of a redirect is the empty text.   *)
(***************************************************************************)
EXTENDS Naturals, FiniteSets, SequencesExt

CONSTANTS MaxNodes,       \* bound: nodes of a tree, the program included
          MaxConstructs   \* bound: nodes that hold other nodes

ASSUME BoundsAssumption == MaxNodes \in Nat \ {0} /\ MaxConstructs \in Nat

VARIABLE tree

-----------------------------------------------------------------------------
(* The grammar, as far as the converters look at it. *)

Expansions == {"substitution", "process", "concatenation"}
Redirects == {"file_redirect", "heredoc_redirect"}
Statements == {"command", "declaration", "assignment", "other", "pipeline",
               "list", "subshell", "redirected", "negated", "for", "while",
               "if", "case", "compound", "function", "test"}
Block == Statements \cup {"comment", "error"}

\* What a node of a kind may have as children: roles in their order.
Slots == [
  program |-> << <<"stmt", Block>> >>,
  command |-> << <<"name", {"substitution"}>>,
                 <<"arg", Expansions \cup {"assignment"}>>,
                 <<"redirect", {"file_redirect"}>> >>,
  declaration |-> << <<"arg", Expansions>> >>,
  assignment |-> << <<"arg", Expansions>> >>,
  concatenation |-> << <<"arg", {"substitution", "process"}>> >>,
  \* The target is the first of one or more words.
  file_redirect |-> << <<"arg", Expansions>>, <<"more", Expansions>> >>,
  \* After the delimiter: further words, or redirects, and the statement its
  \* line goes on with after `|`, `&&` or `||`; then the body.
  heredoc_redirect |-> << <<"more", Expansions>>,
                          <<"redirect", {"file_redirect"}>>,
                          <<"rest", Statements>>,
                          <<"heredoc_body", {"substitution"}>> >>,
  pipeline |-> << <<"stmt", Statements \cup {"comment"}>> >>,
  list |-> << <<"stmt", Statements \cup {"comment"}>> >>,
  subshell |-> << <<"stmt", Block>> >>,
  substitution |-> << <<"stmt", Block>> >>,
  process |-> << <<"stmt", Block>> >>,
  redirected |-> << <<"body", Statements \ {"redirected"}>>,
                    <<"redirect", Redirects>> >>,
  negated |-> << <<"body", Statements>> >>,
  for |-> << <<"in", Expansions>>, <<"body", Block>> >>,
  while |-> << <<"cond", Statements>>, <<"body", Block>> >>,
  if |-> << <<"stmt", Block>>, <<"elif", Block>>, <<"else", Block>> >>,
  case |-> << <<"subject", Expansions>>, <<"pattern", Expansions>>,
              <<"item", Block>> >>,
  compound |-> << <<"stmt", Block>> >>,
  function |-> << <<"body", {"compound", "subshell", "if", "test"}>>,
                  <<"redirect", {"file_redirect"}>> >>,
  test |-> << <<"arg", Expansions>>, <<"redirect", {"file_redirect"}>> >>,
  comment |-> << >>, error |-> << >>, other |-> << >>]

Program == <<[kind |-> "program", parent |-> 0, role |-> "root"]>>
Nodes == DOMAIN tree
Kind(n) == tree[n].kind
Role(n) == tree[n].role
Parent(n) == tree[n].parent
Children(n) == SelectSeq([i \in Nodes |-> i], LAMBDA c: Parent(c) = n)
InRole(n, role) == SelectSeq(Children(n), LAMBDA c: Role(c) = role)
Has(n, role, least) == Len(InRole(n, role)) >= least

\* A node and what it stands in, up to the program.
RECURSIVE Ancestors(_)
Ancestors(n) == {n} \cup (IF n = 1 THEN {} ELSE Ancestors(Parent(n)))
\* The nodes a next one may be added to.
Open == Ancestors(Len(tree))

NotComments(n) == SelectSeq(Children(n), LAMBDA c: Kind(c) # "comment")

\* Nothing that the grammar asks for is missing.
Complete ==
  \A n \in Nodes:
    CASE Kind(n) \in {"subshell", "substitution", "process", "compound", "if"}
           -> Has(n, "stmt", 1)
      [] Kind(n) = "pipeline" -> Len(NotComments(n)) >= 2
      [] Kind(n) = "list"     -> Len(NotComments(n)) = 2
      [] Kind(n) = "redirected" -> Has(n, "redirect", 1)
      [] Kind(n) \in {"negated", "function"} -> Has(n, "body", 1)
      [] Kind(n) = "for"   -> Has(n, "body", 1)
      [] Kind(n) = "while" -> Has(n, "cond", 1) /\ Has(n, "body", 1)
      [] OTHER -> TRUE

\* A list is binary, a redirected statement has one body, and a
\* here-document's line goes on in one way.
Full(n, role) == \/ Kind(n) = "list" /\ Len(NotComments(n)) = 2
                 \/ Kind(n) \in {"negated", "redirected", "function"}
                    /\ role = "body" /\ Has(n, "body", 1)
                 \/ role \in {"name", "subject", "heredoc_body", "rest"}
                    /\ Has(n, role, 1)
                 \/ Kind(n) = "file_redirect" /\ role = "arg" /\ Has(n, role, 1)
                 \/ Kind(n) = "function" /\ Has(n, "redirect", 1)
                 \/ Kind(n) = "heredoc_redirect" /\ role \in {"redirect", "rest"}
                    /\ Has(n, "more", 1)

\* Kinds of nodes that stand alone; all others are there to hold something.
Alone == {"program", "command", "declaration", "other", "comment", "error",
          "file_redirect", "heredoc_redirect", "test"}

-----------------------------------------------------------------------------
(* Statements.  A statement keeps the node it was made from, its parts (a  *)
(* simple command's parts are its embedded substitutions), the redirects   *)
(* a simple command has, and the ERROR nodes that were merged into it.     *)

Statement(tag, n, parts) ==
  [tag |-> tag, node |-> n, parts |-> parts, redirects |-> << >>,
   merged |-> << >>]
Opaque(n) == Statement("opaque", n, << >>)
EmptyStatement(n) == Statement("empty", n, << >>)

WrapAsList(n, parts) == CASE Len(parts) = 0 -> EmptyStatement(n)
                          [] Len(parts) = 1 -> parts[1]
                          [] OTHER -> Statement("list", n, parts)

RECURSIVE Convert(_), CollectSubstitutions(_), FindSubstitutions(_),
          InjectRedirects(_, _), MergeError(_, _), Flatten(_)

ConvertAll(ns) == [i \in DOMAIN ns |-> Convert(ns[i])]
CollectAll(ns) == FlattenSeq([i \in DOMAIN ns |-> CollectSubstitutions(ns[i])])

FirstOf(n) == IF Children(n) = << >> THEN Opaque(n)
              ELSE Convert(Children(n)[1])
ConvertSubshell(n) == Statement("subshell", n, <<FirstOf(n)>>)
ConvertCommandSubstitution(n) == Statement("substitution", n, <<FirstOf(n)>>)

\* Substitutions below an argument, but not below another substitution.
CollectSubstitutions(n) ==
  IF Kind(n) \in {"substitution", "process"}
  THEN <<ConvertCommandSubstitution(n)>>
  ELSE CollectAll(Children(n))

\* A redirect's target is its first named child, a here-document's its
\* delimiter.  Of what follows, a word takes the target's place and is looked
\* into; a child of any other kind is passed over.
ParseRedirects(ns) ==
  CollectAll(FlattenSeq([i \in DOMAIN ns |->
    SelectSeq(Children(ns[i]), LAMBDA c:
      \/ Role(c) = "arg"
      \/ Role(c) = "more" /\ Kind(c) = "concatenation")]))

ConvertCommand(n) ==
  LET redirects == InRole(n, "redirect")
  IN [Statement("simple", n, CollectAll(InRole(n, "arg"))
                             \o ParseRedirects(redirects))
        EXCEPT !.redirects = redirects]

\* Bare assignments, and export, declare, local, readonly, typeset, unset.
ConvertBareAssignment(n) == Statement("simple", n, CollectAll(Children(n)))
ConvertDeclarationCommand(n) == Statement("simple", n, CollectAll(Children(n)))

ConvertPipeline(n) == Statement("pipeline", n, ConvertAll(Children(n)))

\* Items are paired with operators; a list node has one operator.
ConvertList(n) ==
  LET items == ConvertAll(Children(n))
  IN Statement("list", n, SubSeq(items, 1, IF Len(items) < 2 THEN 1 ELSE 2))

ConvertNegatedCommand(n) ==
  LET inner == FirstOf(n)
  IN IF inner.tag = "pipeline" THEN inner
     ELSE Statement("pipeline", n, <<inner>>)

\* Mutant: a redirect goes to the last command of a group only.
InjectRedirectsLast(s, redirects) ==
  CASE s.tag = "simple" -> [s EXCEPT !.redirects = @ \o redirects]
    [] s.parts = << >> -> s
    [] OTHER -> [s EXCEPT !.parts[Len(s.parts)] =
                            InjectRedirects(@, redirects)]

\* Redirects of a compound statement go to all its simple commands.
InjectRedirects(s, redirects) ==
  CASE s.tag = "simple" -> [s EXCEPT !.redirects = @ \o redirects]
    [] s.tag \in {"opaque", "empty"} -> s
    [] OTHER -> [s EXCEPT !.parts = [i \in DOMAIN @ |->
                                       InjectRedirects(@[i], redirects)]]

ConvertRedirectedStatement(n) ==
  LET redirects == InRole(n, "redirect")
      subs == ParseRedirects(redirects)
      body == IF Has(n, "body", 1) THEN Convert(InRole(n, "body")[1])
              ELSE Opaque(n)
      injected == InjectRedirects(body, redirects)
  IN IF body.tag = "simple" THEN [injected EXCEPT !.parts = @ \o subs]
     ELSE WrapAsList(n, <<injected>> \o subs)

ConvertForStatement(n) == WrapAsList(n, ConvertAll(InRole(n, "body")))
\* Mutant: the condition of a loop is not converted.
ConvertWhileBody(n) == WrapAsList(n, ConvertAll(InRole(n, "body")))

ConvertWhileStatement(n) ==
  WrapAsList(n, <<Convert(InRole(n, "cond")[1]),
                  WrapAsList(n, ConvertAll(InRole(n, "body")))>>)
ConvertIfStatement(n) == WrapAsList(n, ConvertAll(Children(n)))
ConvertCompoundStatement(n) == WrapAsList(n, ConvertAll(Children(n)))

\* Patterns that are words or concatenations are skipped, others converted.
ConvertCaseStatement(n) ==
  WrapAsList(n, ConvertAll(SelectSeq(Children(n), LAMBDA c:
                  Role(c) # "subject" /\ Kind(c) # "concatenation")))

ConvertFunctionDefinition(n) ==
  LET bodies == SelectSeq(Children(n), LAMBDA c: Kind(c) = "compound")
  IN IF bodies = << >> THEN EmptyStatement(n)
     ELSE ConvertCompoundStatement(bodies[1])

\* Every command substitution, those within another one once more.
FindSubstitutions(n) ==
  (IF Kind(n) = "substitution" THEN <<ConvertCommandSubstitution(n)>> ELSE << >>)
  \o FlattenSeq([i \in DOMAIN Children(n) |->
                   FindSubstitutions(Children(n)[i])])
ConvertTestCommand(n) == WrapAsList(n, FindSubstitutions(n))

Convert(n) ==
  CASE Kind(n) = "command" -> ConvertCommand(n)
    [] Kind(n) = "declaration" -> ConvertDeclarationCommand(n)
    [] Kind(n) = "assignment" -> ConvertBareAssignment(n)
    [] Kind(n) = "pipeline" -> ConvertPipeline(n)
    [] Kind(n) = "list" -> ConvertList(n)
    [] Kind(n) = "subshell" -> ConvertSubshell(n)
    [] Kind(n) = "substitution" -> ConvertCommandSubstitution(n)
    [] Kind(n) = "redirected" -> ConvertRedirectedStatement(n)
    [] Kind(n) = "negated" -> ConvertNegatedCommand(n)
    [] Kind(n) = "for" -> ConvertForStatement(n)
    [] Kind(n) = "while" -> ConvertWhileStatement(n)
    [] Kind(n) = "if" -> ConvertIfStatement(n)
    [] Kind(n) = "case" -> ConvertCaseStatement(n)
    [] Kind(n) = "compound" -> ConvertCompoundStatement(n)
    [] Kind(n) = "function" -> ConvertFunctionDefinition(n)
    [] Kind(n) = "test" -> ConvertTestCommand(n)
    [] Kind(n) = "comment" -> EmptyStatement(n)
    [] OTHER -> Opaque(n)

\* An ERROR after a command becomes one more argument of it; after a
\* pipeline, of its last stage; after anything else it is dropped.
MergeError(s, n) ==
  CASE s.tag = "simple" -> [s EXCEPT !.merged = Append(@, n)]
    [] s.tag = "pipeline" /\ s.parts # << >> ->
         [s EXCEPT !.parts[Len(s.parts)] = MergeError(@, n)]
    [] OTHER -> s

ConvertProgram ==
  LET Step(done, n) == IF Kind(n) # "error" THEN Append(done, Convert(n))
                       ELSE IF done = << >> THEN <<Opaque(n)>>
                       ELSE [done EXCEPT ![Len(done)] = MergeError(@, n)]
      all == FoldLeft(Step, << >>, Children(1))
  IN IF all = << >> THEN Opaque(1) ELSE WrapAsList(1, all)

\* The leaves that the policy evaluates (parser::flatten).
Flatten(s) == LET below == FlattenSeq([i \in DOMAIN s.parts |->
                                         Flatten(s.parts[i])])
              IN IF s.tag \in {"simple", "opaque", "empty"}
                 THEN <<s>> \o below ELSE below
Leaves == Flatten(ConvertProgram)

-----------------------------------------------------------------------------
(* Writing a tree. *)

Init == tree = Program

\* The next node in preorder, below any node that is still open.  The roles
\* of a node's children come in the grammar's order.
Add(n, i, kind) ==
  LET slots == Slots[Kind(n)]
      role == slots[i][1]
  IN /\ Len(tree) < MaxNodes
     /\ kind \in slots[i][2]
     /\ ~Full(n, role)
     /\ \A c \in Nodes: Parent(c) = n =>
          \E j \in 1..i: slots[j][1] = Role(c)
     /\ kind \notin Alone =>
          Cardinality({c \in Nodes : Kind(c) \notin Alone}) < MaxConstructs
     /\ tree' = Append(tree, [kind |-> kind, parent |-> n, role |-> role])

Next == \E n \in Open: \E i \in DOMAIN Slots[Kind(n)]:
          \E kind \in Slots[Kind(n)][i][2]: Add(n, i, kind)

Spec == Init /\ [][Next]_tree

-----------------------------------------------------------------------------
(* Properties. *)

TypeOK == /\ tree[1] = Program[1]
          /\ \A n \in Nodes \ {1}: Parent(n) \in 1..(n - 1)

\* What runs, or cannot be read and so must be asked about.
Code == {n \in Nodes : Kind(n) \in {"command", "declaration", "other", "error"}}
Heard == LET leaves == ToSet(Leaves)
         IN {s.node : s \in leaves} \cup UNION {ToSet(s.merged) : s \in leaves}

Before(c) == SelectSeq(Children(Parent(c)), LAMBDA b: b < c)
\* The places whose contents the converters leave out: all but the first
\* statement of a subshell or substitution, and condition of a loop; a
\* command's name, what a loop ranges over, the subject of a case; what
\* follows a redirect's target, the rest of a here-document's line and its
\* body; a function's redirect, and its body unless a group; and process
\* substitutions in tests and patterns.
Skipped(c) ==
  LET p == Parent(c) IN
  \/ Kind(p) \in {"subshell", "substitution", "process"} /\ Before(c) # << >>
  \/ Kind(p) = "list" /\ Len(Before(c)) >= 2
  \/ Role(c) = "cond" /\ Before(c) # << >>
  \/ Role(c) \in {"name", "in", "subject", "heredoc_body", "rest"}
  \/ Role(c) = "more" /\ Kind(c) # "concatenation"
  \/ Role(c) = "redirect" /\ Kind(p) = "heredoc_redirect"
  \/ Role(c) = "pattern" /\ Kind(c) = "concatenation"
  \/ Kind(p) = "function" /\ Kind(c) # "compound"
  \/ /\ Kind(c) = "process"
     /\ \E t \in Ancestors(c):
          /\ Kind(t) = "test"
          /\ \A a \in Ancestors(c) \ Ancestors(t):
               Kind(a) \in {"process", "concatenation", "file_redirect"}
  \/ Role(c) = "pattern" /\ Kind(c) = "process"

Unskipped(nodes) == \A a \in nodes \ {1}: ~Skipped(a)

\* What the policy is to hear of: what is in no such place.  A test looks for
\* command substitutions in all that is below it, those places included.
Extracted(c) ==
  \/ Unskipped(Ancestors(c))
  \/ \E s \in Ancestors(c): \E t \in Ancestors(s):
       /\ Kind(s) = "substitution" /\ Kind(t) = "test"
       /\ Unskipped(Ancestors(t) \cup (Ancestors(c) \ Ancestors(s)))

Ordinary(c) == Kind(c) # "error" \/ Parent(c) # 1
Follows(c, b) == Before(c) # << >> /\ Last(Before(c)) = b

\* Every command of a line, and every part of it that the parser could not
\* read, is a leaf that the policy evaluates or, for an ERROR that follows a
\* command or a pipeline of commands, an argument of it; what stands in one
\* of the skipped places, and only that, is not seen by the policy at all.
LossesAreKnown ==
  Complete => LET heard == Heard IN
    /\ \A c \in {d \in Code : Ordinary(d)}: c \in heard <=> Extracted(c)
    /\ \A c \in Code \ {1}: \A b \in Nodes:
         /\ ~Ordinary(c)
         /\ Follows(c, b)
         /\ \/ Kind(b) = "command"
            \/ Kind(b) = "pipeline" /\ Kind(Last(Children(b))) = "command"
         => c \in heard

\* The redirects given to a statement; those of a here-document's line are
\* given to the statement the here-document is.
Given(n) == UNION {ToSet(InRole(r, "redirect")) :
              r \in {n} \cup {h \in ToSet(InRole(n, "redirect")) :
                              Kind(h) = "heredoc_redirect"}}
\* The redirects that are lost: after a here-document's delimiter, after a
\* function's body and in a test.
DroppedRedirect(r) == Kind(Parent(r)) \in {"heredoc_redirect", "function", "test"}

\* A redirect of a group, a loop or a subshell is a redirect of each command
\* that runs in it (not of those in its arguments, whose output is taken
\* elsewhere) unless it is lost in one of those three places, and no command
\* has a redirect that is not around it.
RedirectsReach ==
  Complete => \A leaf \in ToSet(Leaves):
    LET around == Ancestors(leaf.node) \ {leaf.node}
        apart == UNION {Ancestors(a) : a \in
                   {b \in around : Kind(b) \in {"command", "declaration",
                                                "assignment"} \cup Redirects}}
        reaching(ns) == {r \in UNION {Given(n) : n \in ns} : ~DroppedRedirect(r)}
    IN leaf.tag = "simple" =>
         /\ reaching(Ancestors(leaf.node) \ apart) \subseteq ToSet(leaf.redirects)
         /\ ToSet(leaf.redirects) \subseteq reaching(Ancestors(leaf.node))

\* README: "All commands within these constructs are extracted and
\* evaluated", of subshells, substitutions, loops, conditionals, cases,
\* groups, functions, tests and redirect targets.
AllCommandsAreExtracted ==
  Complete => \A c \in Nodes: Kind(c) = "command" => c \in Heard

=============================================================================
