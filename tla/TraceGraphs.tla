------------------------------ MODULE TraceGraphs ------------------------------
(***************************************************************************)
(* What the trace debugger derives from a recorded run: the playback graph *)
(* that joins an ingestion and a retrieval run (trace-graph), the journey  *)
(* of one focused item through the lists the nodes recorded (lib/journey), *)
(* and the ledger of everything that ran (lib/execution).  The trace is    *)
(* read at any moment of the two runs; records arrive in no order, and     *)
(* each names its place in the sequence.                                   *)
(***************************************************************************)
EXTENDS Naturals, Integers, Sequences, FiniteSets, SequencesExt

CONSTANTS
    Items,         \* chunks, by id: the same id in both runs
    Definition,    \* [stage -> [nodes: a sequence in the order of execution, edges]]
    Indexes,       \* the indexes a node may be bound to
    Targets        \* the ways the nodes may be bound, functions to Indexes

VARIABLES
    records,       \* the node runs recorded so far
    target,        \* node of either stage -> the index it is bound to
    origin,        \* whether the trace joins the ingestion run the chunk came from
    legacy,        \* stages recorded before nodes attached item lists
    focused        \* the focused item

vars == <<records, target, origin, legacy, focused>>

Stages == <<"origin", "retrieval">>
Indexers == {"indexer"}
Retrievers == {"dense", "lexical"}
Lists == {s \in SeqOf(Items, Cardinality(Items)) : IsInjective(s)}
Ran(stage) == {r \in records : r.stage = stage}

--------------------------------------------------------------------------------
(***************************************************************************)
(* The runs behind the trace (external to the page): nodes run in order,   *)
(* each reads the lists of the nodes before it, and a node that fails ends *)
(* the run.  An ingestion that made the chunk had completed.               *)
(***************************************************************************)
Emitted(stage, n) == CHOOSE r \in Ran(stage) : r.node = n
Inputs(stage, n) ==
    LET before == SelectSeq(Definition[stage].nodes, LAMBDA m : <<m, n>> \in Definition[stage].edges)
    IN  FoldLeft(LAMBDA ins, m : ins \o Emitted(stage, m).outs, << >>, before)

\* A splitter lists every chunk, a retriever any, an embedder hands on what it got (a query has none),
\* the rest filter, reorder and fuse.
Outputs(n, ins) ==
    IF n = "splitter" THEN {<<l>> : l \in {m \in Lists : ToSet(m) = Items}}
    ELSE IF n \in Retrievers THEN {<<l>> : l \in Lists}
    ELSE IF n \in Indexers THEN {<< >>}
    ELSE IF n = "embed" THEN {ins}
    ELSE {<<l>> : l \in {m \in Lists : ToSet(m) \subseteq UNION {ToSet(i) : i \in ToSet(ins)}}}

Step(stage) ==
    LET at == Cardinality(Ran(stage)) + 1 IN
    /\ at <= Len(Definition[stage].nodes) /\ \A r \in Ran(stage) : r.status = "ok"
    /\ stage = "retrieval" /\ origin => Cardinality(Ran("origin")) = Len(Definition["origin"].nodes)
    /\ LET n == Definition[stage].nodes[at]
           ins == Inputs(stage, n)
       IN \/ \E outs \in Outputs(n, ins) :
                 records' = records \cup {[stage |-> stage, node |-> n, at |-> at, ins |-> ins,
                                           outs |-> outs, status |-> "ok"]}
          \/ /\ stage = "retrieval"
             /\ records' = records \cup {[stage |-> stage, node |-> n, at |-> at, ins |-> ins,
                                          outs |-> << >>, status |-> "failed"]}
    /\ UNCHANGED <<target, origin, legacy, focused>>

Init ==
    /\ records = {} /\ target \in Targets
    /\ origin \in BOOLEAN /\ legacy \in {{}, {"origin"}, {"origin", "retrieval"}} /\ focused \in Items

Next ==
    \/ origin /\ Step("origin")
    \/ Step("retrieval")

Spec == Init /\ [][Next]_vars

--------------------------------------------------------------------------------
(***************************************************************************)
(* trace-graph: one stage, and two joined at the indexes they share.       *)
(***************************************************************************)
\* buildStage: the steps in the order of their sequence numbers.
buildStage(stage) ==
    [nodes |-> Definition[stage].nodes,
     edges |-> Definition[stage].edges,
     steps |-> SetToSortSeq(Ran(stage), LAMBDA a, b : a.at < b.at)]

\* The two pipelines name their nodes alike: ids are told apart by stage.
prefixStage(g, prefix) ==
    LET id(n) == <<prefix, n>> IN
    [nodes |-> [i \in DOMAIN g.nodes |-> id(g.nodes[i])],
     edges |-> {<<id(e[1]), id(e[2])>> : e \in g.edges},
     steps |-> [i \in DOMAIN g.steps |-> [g.steps[i] EXCEPT !.node = id(@)]]]

nodeIndexTarget(id) == target[id[2]]

\* Mutant: every index is a store, joined to all retrievers.
collectIndexTargetsOneSided(nodes) ==
 LET on(side) == {id \in ToSet(nodes) : id[2] \in side}
 IN  {[index |-> x,
       indexers |-> {id \in on(Indexers) : nodeIndexTarget(id) = x},
       retrievers |-> on(Retrievers)] : x \in {nodeIndexTarget(id) : id \in on(Indexers)}}

\* An index is a store when one node writes it and one reads it.
collectIndexTargets(nodes) ==
    LET on(side) == {id \in ToSet(nodes) : id[2] \in side}
        both == {x \in Indexes : /\ \E id \in on(Indexers) : nodeIndexTarget(id) = x
                                 /\ \E id \in on(Retrievers) : nodeIndexTarget(id) = x}
    IN  {[index |-> x,
          indexers |-> {id \in on(Indexers) : nodeIndexTarget(id) = x},
          retrievers |-> {id \in on(Retrievers) : nodeIndexTarget(id) = x}] : x \in both}

Store(t) == <<"store", t.index>>

graphOf(up, down, targets) ==
    LET stores == {Store(t) : t \in targets} IN
    [nodes |-> ToSet(up.nodes) \cup ToSet(down.nodes) \cup stores,
     edges |-> up.edges \cup down.edges
               \cup UNION {{<<i, Store(t)>> : i \in t.indexers} : t \in targets}
               \cup UNION {{<<Store(t), r>> : r \in t.retrievers} : t \in targets},
     steps |-> up.steps \o down.steps, stores |-> stores]

NoStage == [nodes |-> << >>, edges |-> {}, steps |-> << >>]

buildTraceGraph ==
    LET prefixed(stage) == prefixStage(buildStage(stage), stage)
        join(up, down) == graphOf(up, down, collectIndexTargets(up.nodes \o down.nodes))
    IN  IF origin THEN join(prefixed("origin"), prefixed("retrieval"))
        ELSE graphOf(NoStage, prefixed("retrieval"), {})

--------------------------------------------------------------------------------
(***************************************************************************)
(* lib/journey: where the focused item was in the lists of every step.     *)
(***************************************************************************)
Nowhere == 0

\* locate and bestRank: the best place of the item among several lists.
locate(lists) == {l \in ToSet(lists) : focused \in ToSet(l)}
RankIn(l) == CHOOSE i \in DOMAIN l : l[i] = focused
bestRank(lists) ==
    IF locate(lists) = {} THEN Nowhere
    ELSE CHOOSE k \in {RankIn(l) : l \in locate(lists)} : \A l \in locate(lists) : k <= RankIn(l)

deriveEffect(ins, in, out, role) ==
    CASE out = Nowhere -> IF in = Nowhere THEN "absent" ELSE "dropped"
      [] out # Nowhere /\ ins = << >> -> IF role = "chunks" THEN "created" ELSE "introduced"
      [] out # Nowhere /\ ins # << >> /\ in = Nowhere -> "introduced"
      [] out # Nowhere /\ Len(ins) > 1 /\ in # Nowhere -> "merged"
      [] OTHER -> IF in = out THEN "passed" ELSE "reordered"

\* A node whose summary holds no list says nothing of the item.
stepItemLists(r) == r.stage \notin legacy /\ r.status = "ok" /\ (r.ins # << >> \/ r.outs # << >>)

traceRole(r) == IF r.stage = "origin" THEN "chunks" ELSE "matches"

buildJourneyStep(r) ==
    LET in == bestRank(r.ins)
        out == bestRank(r.outs)
    IN  [node |-> r.node, stage |-> r.stage, role |-> traceRole(r), inputRank |-> in,
         rank |-> IF out # Nowhere THEN out ELSE in,
         delta |-> IF in # Nowhere /\ out # Nowhere THEN in - out ELSE 0,
         effect |-> deriveEffect(r.ins, in, out, traceRole(r))]

\* Steps of one stage follow one another: a section each.
Sections(steps) ==
    LET stages == SelectSeq(Stages, LAMBDA s : \E i \in DOMAIN steps : steps[i].stage = s)
    IN  [k \in DOMAIN stages |-> [stage |-> stages[k],
                                  steps |-> SelectSeq(steps, LAMBDA r : r.stage = stages[k])]]

journeySection(s) ==
    LET listed == SelectSeq(s.steps, stepItemLists)
    IN  [stage |-> s.stage, recorded |-> listed # << >>,
         steps |-> [i \in DOMAIN listed |-> buildJourneyStep(listed[i])]]

buildJourneySections ==
    LET sections == Sections(buildTraceGraph.steps)
    IN  [k \in DOMAIN sections |-> journeySection(sections[k])]

buildJourney == FoldLeft(LAMBDA all, s : all \o s.steps, << >>, buildJourneySections)

\* The tints of the focused path.
focusIn(g, traveled, absent) ==
    LET joins(e) == {e[1], e[2]} \subseteq traveled \cup g.stores /\ {e[1], e[2]} \cap traveled # {}
    IN  [traveledNodes |-> traveled, absentNodes |-> absent,
         traveledEdges |-> {e \in g.edges : joins(e)},
         absentEdges |-> {e \in g.edges : ~ joins(e) /\ {e[1], e[2]} \cap absent # {}}]

buildJourneyFocus ==
    LET nodesIn(journey, missed) == {s.node : s \in {x \in ToSet(journey) : (x.effect = "absent") = missed}}
    IN  focusIn(buildTraceGraph, nodesIn(buildJourney, FALSE), nodesIn(buildJourney, TRUE))

--------------------------------------------------------------------------------
(***************************************************************************)
(* lib/execution: the ledger, every step annotated with its effect.        *)
(***************************************************************************)
annotated(steps, journey) ==
    [i \in DOMAIN steps |->
        [node |-> steps[i].node,
         effect |-> {s.effect : s \in {x \in ToSet(journey) : x.node = steps[i].node}}]]

buildExecutionSections ==
    LET sections == Sections(buildTraceGraph.steps)
    IN  [k \in DOMAIN sections |-> annotated(sections[k].steps, buildJourney)]

--------------------------------------------------------------------------------
(***************************************************************************)
(* Properties.                                                             *)
(***************************************************************************)
TypeOK ==
    /\ \A r \in records : /\ r.stage \in {"origin", "retrieval"} /\ r.status \in {"ok", "failed"}
                          /\ ToSet(r.ins) \cup ToSet(r.outs) \subseteq Lists
    /\ target \in [Indexers \cup Retrievers -> Indexes]
    /\ legacy \subseteq {"origin", "retrieval"} /\ focused \in Items
    /\ buildTraceGraph.edges \subseteq buildTraceGraph.nodes \X buildTraceGraph.nodes

LedgerIs(entries) ==
    LET order(r) == IF r.stage = "origin" THEN r.at ELSE Cardinality(Ran("origin")) + r.at
    IN  /\ Len(entries) = Cardinality(records)
        /\ \A r \in records : /\ entries[order(r)].node = <<r.stage, r.node>>
                              /\ (entries[order(r)].effect # {}) = stepItemLists(r)

\* The ledger holds every node run once, in the order of execution, ingestion
\* first, and carries an effect only where that very run recorded item lists.
LedgerIsTheRun == LedgerIs(FoldLeft(LAMBDA all, s : all \o s, << >>, buildExecutionSections))

MeetIn(g) ==
    /\ \A e \in g.edges : e[1][1] # e[2][1] => "store" \in {e[1][1], e[2][1]}
    /\ \A i \in Indexers, r \in Retrievers :
           (\E s \in g.stores : {<<<<"origin", i>>, s>>, <<s, <<"retrieval", r>>>>} \subseteq g.edges)
               = (target[i] = target[r])

\* The pipelines touch only at an index one writes and the other reads: from a
\* node of ingestion a retrieval node is reached through their common index,
\* and through nothing else.
MeetAtTheIndex == origin => MeetIn(buildTraceGraph)

Follows(a, b) == a.stage = b.stage /\ <<a.node[2], b.node[2]>> \in Definition[a.stage].edges
OneInput(b) == Cardinality({e \in Definition[b.stage].edges : e[2] = b.node[2]}) = 1

DroppedStaysDroppedIn(journey) ==
    \A i \in DOMAIN journey : \A j \in i + 1..Len(journey) :
        (journey[i].effect = "dropped" /\ Follows(journey[i], journey[j]) /\ OneInput(journey[j]))
            => journey[j].effect = "absent"

\* After the last node of a chain dropped the item, no later node of the chain
\* has it: a drop in the journey is where the item was really lost.
DroppedStaysDropped == DroppedStaysDroppedIn(buildJourney)

ConnectedBy(a, b, lit) ==
    (a.effect \notin {"absent", "dropped"} /\ Follows(a, b)) =>
        /\ b.inputRank # Nowhere /\ b.inputRank <= a.rank
        /\ (OneInput(b) => b.inputRank = a.rank)
        /\ <<a.node, b.node>> \in lit

RanksConnectIn(journey, lit) ==
    \A i \in DOMAIN journey : \A j \in i + 1..Len(journey) : ConnectedBy(journey[i], journey[j], lit)

\* The moves along a chain add up: what a node received is what the one before
\* it delivered, so the rank path has no jump between two nodes.
RanksConnect == RanksConnectIn(buildJourney, buildJourneyFocus.traveledEdges)

\* A stage of a trace that predates item lists is shown as unrecorded: the
\* item is never reported absent from it.
UnrecordedIsNotAbsent ==
    /\ \A s \in ToSet(buildJourneySections) : s.stage \in legacy => ~ s.recorded
    /\ \A n \in buildJourneyFocus.absentNodes : n[1] \notin legacy
================================================================================
