---------------------------- MODULE PipelineVariables ----------------------------
(***************************************************************************)
(* The variables of a pipeline in the builder: the panel that edits them   *)
(* (VariablesPanel.tsx, VariableValueFields.tsx), the static environment   *)
(* derived from them (variable-env.ts), the input node's accepted          *)
(* arguments (IoDeclarationEditors.tsx) and an identity field of a node,   *)
(* which may be an expression but must not depend on caller input          *)
(* (ConfigFieldRow.tsx, ExpressionInput.tsx, expression-suggest.ts).  An   *)
(* expression is the set of names it reads; its types are module           *)
(* Expressions' matter.                                                    *)
(***************************************************************************)
EXTENDS Naturals, Sequences, FiniteSets, FiniteSetsExt

CONSTANTS
    Names,         \* the names the user types, free of reserved ones
    MaxVariables,  \* bound: rows of the panel
    MaxChanges,    \* bound: edits
    None

VARIABLES
    rows,          \* the variables: [name, source, reads], in order
    accepted,      \* the names the retrieval.input node accepts
    field,         \* the identity field: the names its expression reads, or None for a literal
    menu,          \* the suggestions listed under the field, and the highlighted one
    changes

vars == <<rows, accepted, field, menu, changes>>

Query == "query"
Sources == {"value", "expression", "input"}

\* A constant starts with a value; an emptied number field leaves none.
NewVariable(n) == [name |-> n, source |-> "value", set |-> TRUE, reads |-> {}]

Init ==
    /\ rows = <<>> /\ accepted = {} /\ field = None
    /\ menu = [open |-> FALSE, index |-> 0] /\ changes = 0

Changed == changes < MaxChanges /\ changes' = changes + 1

-------------------------------------------------------------------------------
(* buildStaticEnvironment: types, sources, taint and problems by name.     *)

FirstOf(rs, n) == CHOOSE i \in DOMAIN rs : rs[i].name = n /\ \A j \in 1..(i - 1) : rs[j].name # n

\* Input variables come first and the first declaration of a name wins.
InputNames(rs) == {rs[i].name : i \in {j \in DOMAIN rs : rs[j].source = "input"}}
Known(rs) == {rs[i].name : i \in DOMAIN rs} \cup {Query}
Declared(rs) == Known(rs) \ (InputNames(rs) \cup {Query})

\* The non-input declarations, by name.
DeclarationOf(rs) ==
    LET own == SelectSeq(rs, LAMBDA r : r.source # "input")
    IN [n \in Declared(rs) |-> own[FirstOf(own, n)]]

\* An expression field that is still empty does not parse.
Parsed(rs) == {n \in Declared(rs) : DeclarationOf(rs)[n].source = "expression" /\ DeclarationOf(rs)[n].reads # {}}

\* Mutant: taint does not pass through a variable.
RoundsDirectTaint(rs) ==
    LET of == DeclarationOf(rs)
        parsed == Parsed(rs)
        constants == {n \in Declared(rs) : of[n].source = "value" /\ of[n].set}
        f[k \in 0..Cardinality(parsed)] ==
            IF k = 0
            THEN [done |-> {}, tainted |-> InputNames(rs) \cup {Query},
                  valued |-> InputNames(rs) \cup {Query} \cup constants]
            ELSE LET before == f[k - 1]
                     ready == {n \in parsed \ before.done : of[n].reads \cap parsed \subseteq before.done}
                 IN [before EXCEPT !.done = @ \cup ready,
                                   !.valued = @ \cup {n \in ready : of[n].reads \subseteq before.valued}]
    IN f[Cardinality(parsed)]

\* evaluationOrder: in each round, the variables whose dependencies are done.
\* A variable is tainted by a tainted name it reads; it gets a value when the
\* names it reads are known and have one.
Rounds(rs) ==
    LET of == DeclarationOf(rs)
        parsed == Parsed(rs)
        constants == {n \in Declared(rs) : of[n].source = "value" /\ of[n].set}
        f[k \in 0..Cardinality(parsed)] ==
            IF k = 0
            THEN [done |-> {}, tainted |-> InputNames(rs) \cup {Query},
                  valued |-> InputNames(rs) \cup {Query} \cup constants]
            ELSE LET before == f[k - 1]
                     ready == {n \in parsed \ before.done : of[n].reads \cap parsed \subseteq before.done}
                 IN [done |-> before.done \cup ready,
                     tainted |-> before.tainted \cup {n \in ready : of[n].reads \cap before.tainted # {}},
                     valued |-> before.valued \cup {n \in ready : of[n].reads \subseteq before.valued}]
    IN f[Cardinality(parsed)]

Environment(rs) ==
    LET r == Rounds(rs)
    IN [known |-> Known(rs), tainted |-> r.tainted, valued |-> r.valued, problems |-> Known(rs) \ r.valued]

env == Environment(rows)

-------------------------------------------------------------------------------
(* The panel.                                                              *)

\* addVariable: a name no row has.
AddVariable(n) ==
    /\ Len(rows) < MaxVariables /\ Changed
    /\ n \in Names \ {rows[i].name : i \in DOMAIN rows}
    /\ rows' = Append(rows, NewVariable(n))
    /\ UNCHANGED <<accepted, field, menu>>

Patch(i, row) ==
    /\ row # rows[i] /\ Changed
    /\ rows' = [rows EXCEPT ![i] = row]
    /\ UNCHANGED <<accepted, field, menu>>

\* The name is free text: it may repeat another, and nothing that reads the old
\* name follows.
Rename(i, n) == Patch(i, [rows[i] EXCEPT !.name = n])

\* sourcePatch: the value, or an empty expression, or the caller's.
SourcePatch(i, source) ==
    /\ source # rows[i].source
    /\ Patch(i, [rows[i] EXCEPT !.source = source, !.reads = {}, !.set = (source = "value")])

\* The constant's value field may be emptied.
ConstantValue(i) ==
    /\ rows[i].source = "value"
    /\ Patch(i, [rows[i] EXCEPT !.set = ~@])

EditExpression(i, reads) ==
    /\ rows[i].source = "expression"
    /\ Patch(i, [rows[i] EXCEPT !.reads = reads])

RemoveVariable(i) ==
    /\ Changed
    /\ rows' = SubSeq(rows, 1, i - 1) \o SubSeq(rows, i + 1, Len(rows))
    /\ UNCHANGED <<accepted, field, menu>>

\* referenceSites: where the panel says a variable is used.
ReferenceSites(n) ==
    {<<"variable", rows[i].name>> : i \in {j \in DOMAIN rows : rows[j].name # n /\ n \in rows[j].reads}}
    \cup (IF n \in accepted THEN {<<"input node", None>>} ELSE {})
    \cup (IF field # None /\ n \in field THEN {<<"field", None>>} ELSE {})

\* ArgumentsPicker: input variables can be accepted; an accepted name can be
\* dropped, one that is no longer an input variable too.
ToggleArgument(n) ==
    /\ Changed
    /\ \/ n \in InputNames(rows) \ accepted /\ accepted' = accepted \cup {n}
       \/ n \in accepted /\ accepted' = accepted \ {n}
    /\ UNCHANGED <<rows, field, menu>>

-------------------------------------------------------------------------------
(* An identity field (static_only) that takes a number.                    *)

\* buildSuggestions for a static-only field, and the literal field's own filter.
BuildSuggestions == (env.known \ env.problems) \ env.tainted
Suggestions == BuildSuggestions \ {Query}

\* evaluateExpressionFeedback.
Feedback(reads) ==
    CASE reads = {} -> "empty"
      [] ~(reads \subseteq env.known) -> "unknown"
      [] reads \cap env.tainted # {} -> "tainted"
      [] ~(reads \subseteq env.valued) -> "no value"
      [] OTHER -> "ok"

\* Focus lists the matching variables; the arrow keys move among them.
FocusField ==
    /\ field = None /\ ~menu.open
    /\ menu' = [open |-> TRUE, index |-> 0]
    /\ UNCHANGED <<rows, accepted, field, changes>>

Arrow(d) ==
    /\ menu.open /\ Suggestions # {}
    /\ menu' = [menu EXCEPT !.index = IF d = "down" THEN Min({@ + 1, Cardinality(Suggestions) - 1})
                                                    ELSE Max({@, 1}) - 1]
    /\ menu' # menu
    /\ UNCHANGED <<rows, accepted, field, changes>>

BlurField ==
    /\ menu.open
    /\ menu' = [menu EXCEPT !.open = FALSE]
    /\ UNCHANGED <<rows, accepted, field, changes>>

\* convertToExpression: a picked variable becomes the field's expression.
AcceptSuggestion(n) ==
    /\ menu.open /\ n \in Suggestions /\ Changed
    /\ field' = {n}
    /\ menu' = [menu EXCEPT !.open = FALSE]
    /\ UNCHANGED <<rows, accepted>>

\* In expression mode anything may be typed; the toggle goes back to a literal.
TypeField(reads) ==
    /\ field # None /\ reads # field /\ Changed
    /\ field' = reads
    /\ UNCHANGED <<rows, accepted, menu>>

ToggleExpression ==
    /\ Changed
    /\ field' = IF field = None THEN {} ELSE None
    /\ menu' = [menu EXCEPT !.open = FALSE]
    /\ UNCHANGED <<rows, accepted>>

Reads == {r \in SUBSET (Names \cup {Query}) : Cardinality(r) \in 1..2}

Next ==
    \/ \E n \in Names : AddVariable(n) \/ ToggleArgument(n) \/ AcceptSuggestion(n)
    \/ \E i \in DOMAIN rows :
         \/ \E n \in Names : Rename(i, n)
         \/ \E s \in Sources : SourcePatch(i, s)
         \/ \E r \in Reads : EditExpression(i, r)
         \/ ConstantValue(i) \/ RemoveVariable(i)
    \/ \E r \in {{n} : n \in Names \cup {Query}} : TypeField(r)
    \/ \E d \in {"up", "down"} : Arrow(d)
    \/ FocusField \/ BlurField \/ ToggleExpression

Spec == Init /\ [][Next]_vars

-------------------------------------------------------------------------------
\* Only expressions read names, and only constants have values.
TypeOK ==
    /\ \A i \in DOMAIN rows :
         /\ rows[i].source \in Sources /\ rows[i].reads \subseteq Names \cup {Query}
         /\ rows[i].reads # {} => rows[i].source = "expression"
         /\ rows[i].set = (rows[i].source = "value") \/ rows[i].source = "value"
    /\ Len(rows) <= MaxVariables /\ accepted \subseteq Names /\ changes \in 0..MaxChanges

\* What a name reaches through the expressions that define it.
Reachable(S) ==
    LET of == DeclarationOf(rows)
        step(T) == T \cup UNION {IF n \in Declared(rows) THEN of[n].reads ELSE {} : n \in T}
        f[k \in 0..MaxVariables] == IF k = 0 THEN S ELSE step(f[k - 1])
    IN f[MaxVariables]

CallerInput == InputNames(rows) \cup {Query}

\* An identity field the editor accepts takes its value from constants alone,
\* through however many variables, in whatever order they were declared,
\* renamed, re-sourced and removed.
IdentityIsStatic ==
    field # None /\ Feedback(field) = "ok" =>
        /\ Reachable(field) \cap CallerInput = {}
        /\ Reachable(field) \subseteq Known(rows)

\* The variables without a value are those the panel marks, and they are exactly
\* the ones that reach a cycle, an undeclared name, an empty constant or an
\* empty expression.
Broken(n) ==
    /\ n \in Declared(rows)
    /\ \/ DeclarationOf(rows)[n].source = "value" /\ ~DeclarationOf(rows)[n].set
       \/ DeclarationOf(rows)[n].source = "expression" /\ DeclarationOf(rows)[n].reads = {}
       \/ n \in Reachable(DeclarationOf(rows)[n].reads)

ProblemsAreExact ==
    \A n \in Declared(rows) :
        n \in env.problems <=> \E x \in Reachable({n}) : x \notin Known(rows) \/ Broken(x)

\* A variable offered for an identity field is accepted by it.
SuggestionsAreAccepted == \A n \in Suggestions : Feedback({n}) = "ok"

\* A variable whose removal would break something is listed as used: a name the
\* environment cannot resolve after it goes was in its reference sites.
RemovalIsAnnounced ==
    \A i \in DOMAIN rows :
        LET left == SubSeq(rows, 1, i - 1) \o SubSeq(rows, i + 1, Len(rows))
            newly == {n \in Declared(left) : n \in Environment(left).problems /\ n \notin env.problems
                                             /\ n # rows[i].name}
        IN newly # {} => ReferenceSites(rows[i].name) # {}
==================================================================================
