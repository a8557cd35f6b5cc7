------------------------- MODULE PipelineLanguage -------------------------
(***************************************************************************)
(* The language of pipelines (agenthandler/pipeline_poml.py): a document   *)
(* that a caller wrote or an LLM answered is parsed into the nodes of a    *)
(* Pipeline (agenthandler/pipeline.py), or refused; its conditions and     *)
(* thresholds then choose a branch from the output of the step before.     *)
(*                                                                         *)
(* A value is a record with a kind: none, number, numeral (a text that     *)
(* reads as a number), text, opaque (anything whose repr is no literal),   *)
(* list (literal: whether its repr is one), map.  A test is a sequence of  *)
(* the nodes of its syntax tree, operands before the node they belong to.  *)
(***************************************************************************)
EXTENDS Integers, Sequences, SequencesExt

CONSTANTS
    ToolRegistry,      \* the registry: a document may name other tools
    Document,  \* bound: [block, xml |-> BOOLEAN, elements |-> sequence of elements]
    Output,    \* bound: what tools return and LLMs decide
    IndexOf    \* the path parts that read as an index, and which

\* What ast.parse makes of a text: each comparison has a term on either side, and
\* each node's operands come before it.
Tree(test) ==
    /\ test # <<>>
    /\ \A i \in DOMAIN test :
          /\ test[i].op = "compare" =>
                /\ DOMAIN test[i].ops \subseteq Nat
                /\ \A k \in DOMAIN test[i].ops : {k, k + 1} \subseteq DOMAIN test[i].terms
          /\ test[i].op = "not" => test[i].of \in 1..(i - 1)
          /\ test[i].op \in {"and", "or"} => {test[i].left, test[i].right} \subseteq 1..(i - 1)

ASSUME LanguageAssumption ==
    /\ \A d \in Document :
          /\ d.block \in BOOLEAN /\ d.xml \in BOOLEAN /\ Len(d.elements) \in Nat
          /\ DOMAIN d.elements = 1..Len(d.elements)
          /\ \A i \in DOMAIN d.elements :
                LET e == d.elements[i]
                IN  e.tag = "condition" =>
                      /\ Len(e.test) \in Nat /\ DOMAIN e.test = 1..Len(e.test) /\ Tree(e.test)
    /\ \A p \in DOMAIN IndexOf : IndexOf[p] \in Int

VARIABLES
    document,  \* the text at hand
    review,    \* how it got here: "answered", "reviewed" or "given"
    nodes,     \* Pipeline._nodes so far
    parse,     \* "no", "parsing", "built", "refused" or "raised"
    routed     \* the last branch taken: node, output and branch

languageVars == <<document, review, nodes, parse, routed>>

Unrouted == [node |-> 0]

LanguageInit ==
    /\ document \in Document /\ review \in {"answered", "given"}
    /\ nodes = <<>> /\ parse = "no" /\ routed = Unrouted

-----------------------------------------------------------------------------
\* Values, and the two ways of looking into one.

NoValue == [kind |-> "none"]
Failed  == [kind |-> "failed"]
Number(n) == [kind |-> "number", n |-> n]

\* val[int(part)]: negative indices count from the end.
ItemAt(list, part) ==
    LET i == IF part \in DOMAIN IndexOf THEN IndexOf[part] ELSE Len(list)
        k == IF i < 0 THEN Len(list) + i + 1 ELSE i + 1
    IN  IF k \in DOMAIN list THEN list[k] ELSE Failed

Into(val, part) ==
    CASE val.kind = "map"  -> IF part \in DOMAIN val.of THEN val.of[part] ELSE NoValue
      [] val.kind = "list" -> ItemAt(val.of, part)
      [] OTHER -> Failed

Look(val, path) == FoldLeft(Into, val, path)

\* _extract of add_threshold: float(val) >= threshold, else not above.
Above(output, key, threshold) ==
    LET val == Look(output, key)
    IN  val.kind \in {"number", "numeral"} /\ val.n >= threshold

-----------------------------------------------------------------------------
\* _make_predicate: the text of output.a.b is replaced by the repr of what it
\* finds, and the result parsed and evaluated.  Truth values are "true" and
\* "false"; "raise" is an exception.

\* repr(val), read back: only literals of the safe subset survive.
Literal(val) ==
    CASE val.kind = "failed" -> NoValue
      [] val.kind \in {"opaque", "map"} -> Failed
      [] val.kind = "list" -> IF val.literal THEN val ELSE Failed
      [] OTHER -> val

\* (Attributes and subscripts pass _validate_ast, but never evaluate.)
Operand(term, output) ==
    CASE term.op = "constant" -> term.value
      [] term.op = "output" -> output
      [] term.op = "path" -> Literal(Look(output, term.path))
      [] term.op = "subscript" -> Failed

Truth(b) == IF b THEN "true" ELSE "false"

\* ==, !=, >=, < and `in` of Python; `is` is not in _SAFE_COMPARE_OPS.
Compared(op, l, r) ==
    IF l = Failed \/ r = Failed THEN "raise"
    ELSE CASE op = "==" -> Truth(l = r)
           [] op = "!=" -> Truth(l # r)
           [] op \in {">=", "<"} /\ l.kind = "number" /\ r.kind = "number" ->
                 Truth(IF op = "<" THEN l.n < r.n ELSE l.n >= r.n)
           [] op = "in" /\ r.kind = "map" ->
                 Truth(\E k \in DOMAIN r.of : l = [kind |-> "text", t |-> k])
           [] op = "in" /\ r.kind = "list" -> Truth(\E i \in DOMAIN r.of : r.of[i] = l)
           [] op = "in" /\ r.kind = "text" /\ l.kind = "text" ->
                 Truth(l = r) \* texts are atoms here
           [] OTHER -> "raise"

\* What the first link that is not true gives.
FirstOf(links) ==
    LET stops == {i \in DOMAIN links : links[i] # "true"}
    IN  IF stops = {} THEN "true" ELSE links[Min(stops)]

\* A chain: the first comparison that is not true decides.
\* (Bug: every term is compared with the leftmost one.)
ChainFromFirst(ops, vals) ==
    FirstOf([i \in DOMAIN ops |-> Compared(ops[i], vals[1], vals[i + 1])])

Chain(ops, vals) ==
    FirstOf([i \in DOMAIN ops |-> Compared(ops[i], vals[i], vals[i + 1])])

\* _safe_eval_node, for the nodes that give a truth value, given their operands'.
NodeTruth(e, truth, output) ==
    CASE e.op = "compare" ->
            Chain(e.ops, [i \in DOMAIN e.terms |-> Operand(e.terms[i], output)])
      [] e.op = "not" ->
            LET v == truth[e.of]
            IN  CASE v = "true" -> "false" [] v = "false" -> "true" [] OTHER -> v
      [] e.op \in {"and", "or"} ->
            LET l == truth[e.left]
            IN  IF l = (IF e.op = "and" THEN "true" ELSE "false") THEN truth[e.right] ELSE l
      [] OTHER -> "raise"

Truths(test, output) ==
    LET truth[i \in DOMAIN test] == NodeTruth(test[i], truth, output) IN truth

\* _predicate: any exception makes it false.
Holds(test, output) == Truths(test, output)[Len(test)] = "true"

\* _validate_ast: calls, arithmetic and the rest are refused with the document.
Valid(test) == \A i \in DOMAIN test : test[i].op # "call"

-----------------------------------------------------------------------------
\* The parser: one element at a time, appended to the pipeline.

Known(tool) == tool \in ToolRegistry

\* The last child with a tag wins; children of other tags only need a tool.
Child(element, tag) ==
    LET found == SelectSeq(element.children, LAMBDA c : c.tag = tag)
    IN  IF found = <<>> THEN <<>> ELSE <<found[Len(found)].tool>>

ChildrenKnown(element) == \A i \in DOMAIN element.children : Known(element.children[i].tool)

Branching(element, first) ==
    ChildrenKnown(element) /\ Child(element, first) # <<>>

\* Element attributes that add_step has parameters for: TypeError, not ValueError.
Clashes(element) ==
    element.tag = "step" /\ element.attributes \cap {"fn", "tool_name", "chain_input"} # {}

Accepts(element) ==
    CASE element.tag = "step" -> Known(element.tool)
      [] element.tag = "threshold" -> element.key # <<>> /\ Branching(element, "above")
      [] element.tag = "condition" -> Branching(element, "then") /\ Valid(element.test)
      [] OTHER -> FALSE

\* The attributes, chain among them, are the arguments the tool is called with
\* (chain stands for chain="false").
StepOf(element) ==
    [kind |-> "step", tools |-> <<element.tool>>, arguments |-> element.attributes,
     chained |-> "chain" \notin element.attributes]

BranchOf(element, first, second, test) ==
    [kind |-> element.tag, test |-> test,
     tools |-> Child(element, first) \o Child(element, second)]

NodeOf(element) ==
    CASE element.tag = "step" -> StepOf(element)
      [] element.tag = "threshold" ->
            BranchOf(element, "above", "below", [key |-> element.key, value |-> element.value])
      [] element.tag = "condition" -> BranchOf(element, "then", "else", element.test)

\* create_poml and refine look at the block and its XML only; create parses
\* the answer as parse_pipeline_poml does a document that was given.
Review ==
    /\ review = "answered" /\ parse = "no"
    /\ IF document.block /\ document.xml
       THEN review' = "reviewed" /\ UNCHANGED parse
       ELSE parse' = "refused" /\ UNCHANGED review
    /\ UNCHANGED <<document, nodes, routed>>

BeginParse ==
    /\ parse = "no"
    /\ parse' = IF document.block /\ document.xml THEN "parsing" ELSE "refused"
    /\ UNCHANGED <<document, review, nodes, routed>>

\* The caller of refine gets another text instead.
Refine ==
    /\ review = "reviewed" /\ parse = "no"
    /\ document' \in Document /\ review' = "answered"
    /\ UNCHANGED <<nodes, parse, routed>>

Element == document.elements[Len(nodes) + 1]

ParseElement ==
    /\ parse = "parsing" /\ Len(nodes) < Len(document.elements)
    /\ CASE ~Accepts(Element) -> parse' = "refused" /\ nodes' = <<>>
         [] Accepts(Element) /\ Clashes(Element) -> parse' = "raised" /\ nodes' = <<>>
         [] OTHER -> nodes' = Append(nodes, NodeOf(Element)) /\ UNCHANGED parse
    /\ UNCHANGED <<document, review, routed>>

EndParse ==
    /\ parse = "parsing" /\ Len(nodes) = Len(document.elements)
    /\ parse' = "built" /\ UNCHANGED <<document, review, nodes, routed>>

-----------------------------------------------------------------------------
\* Routing.

\* llm_step: an answer that is no JSON is an output like any other.
Undecided == [kind |-> "map", of |-> [raw |-> [kind |-> "text", t |-> "?"],
                                      error |-> [kind |-> "text", t |-> "Failed to parse"]]]

Takes(node, output) ==
    IF node.kind = "threshold" THEN Above(output, node.test.key, node.test.value)
    ELSE Holds(node.test, output)

\* chosen: without an else step the condition is skipped.
ToolTaken(node, output) ==
    CASE Takes(node, output) -> <<node.tools[1]>>
      [] ~Takes(node, output) /\ Len(node.tools) > 1 -> <<node.tools[2]>>
      [] OTHER -> <<>>

Route(i, output) ==
    /\ parse = "built" /\ nodes[i].kind # "step"
    /\ routed' = [node |-> i, output |-> output, taken |-> ToolTaken(nodes[i], output)]
    /\ UNCHANGED <<document, review, nodes, parse>>

LanguageNext ==
    \/ Review \/ Refine \/ BeginParse \/ ParseElement \/ EndParse
    \/ \E i \in DOMAIN nodes, output \in Output \cup {Undecided} : Route(i, output)

LanguageSpec == LanguageInit /\ [][LanguageNext]_languageVars

-----------------------------------------------------------------------------
Routed == routed # Unrouted

RoutedElement == document.elements[routed.node]

\* The tool of the document's own child with this tag.
Written(tag) == Child(RoutedElement, tag)

\* What Python itself makes of a comparison: each pair of neighbours compares.
Means(e, output) ==
    \A i \in DOMAIN e.ops :
        Compared(e.ops[i], Operand(e.terms[i], output), Operand(e.terms[i + 1], output)) = "true"

AtLeast(key, value) ==
    [op |-> "compare", ops |-> <<">=">>,
     terms |-> << [op |-> "path", path |-> key], [op |-> "constant", value |-> Number(value)] >>]

\* A comparison takes <then> exactly when all of its links hold.  A negation
\* takes <else> when what it negates holds, a conjunction <then> exactly when
\* both sides hold, a disjunction <then> when the left one does and <else> when
\* neither.  A threshold takes <above> exactly when the
\* condition output.key >= value would take <then>, whatever the output: two
\* lookups of one path, two comparisons and the branch that was parsed agree
\* (pipeline.py:257-274 and pipeline_poml.py:297-357).  Numerals are the
\* exception: float() reads them, >= does not.
ConditionAsWritten(test, output, taken) ==
    LET root == test[Len(test)]
        Plain(i) == test[i].op = "compare"
        Met(i) == Means(test[i], output)
    IN  /\ root.op = "compare" =>
              taken = IF Means(root, output) THEN Written("then") ELSE Written("else")
        /\ root.op = "not" => (Plain(root.of) /\ Met(root.of) => taken = Written("else"))
        /\ root.op = "and" /\ Plain(root.left) /\ Plain(root.right) =>
              taken = IF Met(root.left) /\ Met(root.right) THEN Written("then") ELSE Written("else")
        /\ root.op = "or" /\ Plain(root.left) /\ Plain(root.right) =>
              /\ Met(root.left) => taken = Written("then")
              /\ ~Met(root.left) /\ ~Met(root.right) => taken = Written("else")

ThresholdAsWritten(e, output, taken) ==
    Look(output, e.key).kind # "numeral" =>
        taken = IF Means(AtLeast(e.key, e.value), output) THEN Written("above") ELSE Written("below")

BranchesAreAsWritten ==
    Routed =>
    LET e == RoutedElement
    IN  /\ e.tag = "condition" => ConditionAsWritten(e.test, routed.output, routed.taken)
        /\ e.tag = "threshold" => ThresholdAsWritten(e, routed.output, routed.taken)

-----------------------------------------------------------------------------
\* The inductive invariant behind BranchesAreAsWritten: the nodes are those of the
\* elements that were accepted, in their order, and the branch is the node's.
LanguageInv ==
    /\ document \in Document
    /\ parse \notin {"parsing", "built"} => nodes = <<>>
    /\ nodes \in Seq({NodeOf(document.elements[i]) : i \in DOMAIN nodes})
    /\ Len(nodes) <= Len(document.elements)
    /\ \A i \in DOMAIN nodes :
          nodes[i] = NodeOf(document.elements[i]) /\ Accepts(document.elements[i])
    /\ Routed =>
          /\ parse = "built" /\ routed.node \in DOMAIN nodes
          /\ nodes[routed.node].kind # "step"
          /\ routed.taken = ToolTaken(nodes[routed.node], routed.output)
=============================================================================
