-------------------------- MODULE EvalGenerateWizard --------------------------
(***************************************************************************)
(* The wizard that generates an evaluation dataset from a collection       *)
(* (GenerateDatasetWizard and its reducer): a source, a model that can     *)
(* produce structured output, how many questions of which kinds, and       *)
(* example queries to imitate.  It is mounted anew each time it is opened. *)
(***************************************************************************)
EXTENDS Integers, ListOrder

CONSTANTS
    Collections, Models,
    Structured,        \* models that advertise structured outputs
    Kinds,             \* question types
    Numbers,           \* numbers typed for the question count
    MaxQuestions,      \* the most questions a dataset may have (500)
    MaxExamples,       \* bound: example query fields
    None

VARIABLES
    gen,               \* GenerateWizardState, None while not mounted
    models,            \* chatModels: what the catalog offered last
    sent               \* the payload of the request in flight, or None

vars == <<gen, models, sent>>

Unset == -1
Presets == [standard |-> 2, deep |-> 3]
NoText == ""           \* a name that was cleared, an example not yet written
Mine == "mine"         \* the name the user typed

initialGenerateWizardState ==
    [step |-> 0, name |-> NoText, touched |-> FALSE, collection |-> None, model |-> None,
     preset |-> "standard", count |-> Unset, shares |-> Kinds, examples |-> <<NoText>>, busy |-> FALSE,
     message |-> FALSE]

Init == gen = None /\ models = Models /\ sent = None

OpenGenerate ==
    /\ gen = None /\ sent = None /\ gen' = initialGenerateWizardState
    /\ UNCHANGED <<models, sent>>

CloseGenerate == gen # None /\ gen' = None /\ UNCHANGED <<models, sent>>

\* generateWizardReducer; as in EvalRunWizard, edits of an abandoned or running
\* launch are left out.
Reduce(g) == ~gen.busy /\ gen' = g /\ UNCHANGED <<models, sent>>

mixIsEmpty(shares) == shares = {}

StepReady ==
    CASE gen.step = 0 -> gen.collection # None /\ gen.name # NoText
      [] gen.step = 1 -> gen.model # None
      [] gen.step = 2 -> ~mixIsEmpty(gen.shares)

SetStep(s) ==
    /\ gen # None /\ s # gen.step
    /\ Reduce([gen EXCEPT !.step = s, !.message = FALSE])

SourceStep(c) ==
    /\ gen # None /\ gen.step = 0
    /\ Reduce([gen EXCEPT !.collection = c, !.name = IF gen.touched THEN @ ELSE c])

SetName(n) ==
    /\ gen # None /\ gen.step = 0
    /\ Reduce([gen EXCEPT !.name = n, !.touched = TRUE])

supportsStructuredOutputs(m) == m \in Structured

ModelStep(m) ==
    /\ gen # None /\ gen.step = 1 /\ m \in models /\ supportsStructuredOutputs(m)
    /\ Reduce([gen EXCEPT !.model = m])

CountStep(p, n) ==
    /\ gen # None /\ gen.step = 2
    /\ \/ Reduce([gen EXCEPT !.preset = p, !.count = Unset])
       \/ Reduce([gen EXCEPT !.count = n])

Steering(i, text) ==
    LET others == gen.examples IN
    /\ gen # None /\ gen.step = 2
    /\ \/ i \in DOMAIN others /\ Reduce([gen EXCEPT !.examples[i] = text])
       \/ i \in DOMAIN others /\ Reduce([gen EXCEPT !.examples =
              SubSeq(others, 1, i - 1) \o SubSeq(others, i + 1, Len(others))])
       \/ Len(others) < MaxExamples /\ Reduce([gen EXCEPT !.examples = Append(@, NoText)])

\* A weight of zero takes the kind out of the mix.
QuestionMix(k) ==
    /\ gen # None /\ gen.step = 2
    /\ Reduce([gen EXCEPT !.shares = IF k \in @ THEN @ \ {k} ELSE @ \cup {k}])

resolvedQuestionCount(g) ==
    IF g.count > 0 THEN IF g.count > MaxQuestions THEN MaxQuestions ELSE g.count
    ELSE Presets[g.preset]

buildGeneratePayload(g) ==
    [name |-> g.name, collection |-> g.collection, model |-> g.model,
     questions |-> resolvedQuestionCount(g), mix |-> g.shares,
     examples |-> Without(g.examples, {NoText}), touched |-> g.touched]

LaunchGenerate ==
    /\ gen # None /\ gen.step = 2 /\ StepReady /\ ~gen.busy
    /\ gen' = [gen EXCEPT !.busy = TRUE, !.message = FALSE]
    /\ sent' = buildGeneratePayload(gen)
    /\ UNCHANGED models

\* The sidebar reaches the last step without a source or a model; the server
\* refuses such a request.
GenerateAnswers ==
    /\ sent # None /\ sent' = None
    /\ \/ sent.collection # None /\ sent.model # None /\ sent.name # NoText /\ gen' = None
       \/ gen' = IF gen = None THEN None ELSE [gen EXCEPT !.busy = FALSE, !.message = TRUE]
    /\ UNCHANGED models

\* The catalog is read again: a model may disappear from it.
ModelGone(m) ==
    /\ m \in models /\ models' = models \ {m} /\ UNCHANGED <<gen, sent>>

Next ==
    \/ OpenGenerate \/ CloseGenerate \/ LaunchGenerate \/ GenerateAnswers
    \/ \E s \in 0..2 : SetStep(s)
    \/ \E c \in Collections : SourceStep(c)
    \/ \E n \in {NoText, Mine} : SetName(n)
    \/ \E m \in Models : ModelStep(m) \/ ModelGone(m)
    \/ \E p \in DOMAIN Presets, n \in Numbers : CountStep(p, n)
    \/ \E i \in 1..MaxExamples, text \in {NoText, "likeThis"} : Steering(i, text)
    \/ \E k \in Kinds : QuestionMix(k)

Spec == Init /\ [][Next]_vars

--------------------------------------------------------------------------------
\* The values the variables take.
TypeOK ==
    /\ gen # None =>
          /\ gen.step \in 0..2 /\ gen.shares \subseteq Kinds
          /\ gen.collection \in Collections \cup {None} /\ gen.model \in Structured \cup {None}
          /\ Len(gen.examples) <= MaxExamples
          /\ gen.busy => sent # None
    /\ models \subseteq Models

Named(x) == IF x.touched THEN x.name \in {NoText, Mine} ELSE x.collection # None => x.name = x.collection

\* "A name the user typed is theirs; only the default follows the source": the
\* dataset's name is the typed one for as long as the wizard is open, and an
\* untouched name is that of the collection chosen now.
NameIsTheirs == \A x \in {gen, sent} \ {None} : Named(x)

\* What is sent can be generated: a number of questions within the limit, some
\* kind of question, no empty example, and a model that supports the output
\* format the generation calls ask for.
PayloadUsable ==
    sent # None =>
        /\ sent.questions \in 1..MaxQuestions /\ sent.mix # {}
        /\ NoText \notin {sent.examples[i] : i \in DOMAIN sent.examples}
        /\ sent.model # None => sent.model \in Structured

\* Inductive: an untouched name follows the source, and what is sent has the
\* values a wizard makes of its choices.
Wizards ==
    [step : 0..2, name : {NoText, Mine} \cup Collections, touched : BOOLEAN,
     collection : Collections \cup {None}, model : Structured \cup {None}, preset : DOMAIN Presets,
     count : Numbers \cup {Unset}, shares : SUBSET Kinds, examples : Seq({NoText, "likeThis"}),
     busy : BOOLEAN, message : BOOLEAN]

Payloads ==
    [name : {NoText, Mine} \cup Collections, collection : Collections \cup {None},
     model : Structured \cup {None}, questions : 1..MaxQuestions, mix : (SUBSET Kinds) \ {{}},
     examples : Seq({"likeThis"}), touched : BOOLEAN]

GenerateInv ==
    /\ gen # None =>
          /\ gen \in Wizards /\ Named(gen) /\ Len(gen.examples) <= MaxExamples
          /\ gen.busy => sent # None
    /\ models \subseteq Models
    /\ sent # None => sent \in Payloads /\ Named(sent)
===============================================================================
