------------------------------ MODULE EvalResults ------------------------------
(***************************************************************************)
(* How the results of an evaluation run are read: the aggregate metrics    *)
(* (lib/metrics), the path of an expected document through the stages of   *)
(* the pipeline (lib/journey), and the tables that show them.  Metrics     *)
(* arrive as queries complete, and the catalog that orders them is read by *)
(* a request of its own, so each view may find either of them first.       *)
(***************************************************************************)
EXTENDS Naturals, Sequences, Functions, FiniteSets

CONSTANTS
    Catalog,       \* the metric catalog: a sequence of metric names
    Unlisted,      \* metrics computed but not in the catalog, in name order
    Cutoffs,       \* the k values of the run
    MaxMetrics,    \* bound: metric values of the run
    MaxStages      \* bound: stages of the pipeline

VARIABLES
    catalog,       \* metricCatalog.data: <<>> until it is read
    aggregates,    \* the run's "name@k" keys, in the order they were stored
    item,          \* one expected document: its presence per stage, by rank
    retrieved,     \* its rank in the final results, 0 if it is not there
    expanded       \* whether the item's row is open

vars == <<catalog, aggregates, item, retrieved, expanded>>

Names == Range(Catalog) \cup Range(Unlisted)

Init ==
    /\ catalog = <<>> /\ aggregates = <<>>
    /\ item = <<>> /\ retrieved = 0 /\ expanded = FALSE

CatalogLands ==
    /\ catalog' = Catalog
    /\ UNCHANGED <<aggregates, item, retrieved, expanded>>

MetricLands(m, k) ==
    /\ Len(aggregates) < MaxMetrics
    /\ <<m, k>> \notin Range(aggregates)
    /\ aggregates' = Append(aggregates, <<m, k>>)
    /\ UNCHANGED <<catalog, item, retrieved, expanded>>

\* A stage of the trace: the document's place in what the stage emitted, 0 if
\* it was not there; or the item has no record of the stage.
StageLands(stage) ==
    /\ Len(item) < MaxStages /\ retrieved = 0
    /\ item' = Append(item, stage)
    /\ UNCHANGED <<catalog, aggregates, retrieved, expanded>>

ResultLands(rank) ==
    /\ item # <<>> /\ retrieved = 0 /\ retrieved' = rank
    /\ UNCHANGED <<catalog, aggregates, item, expanded>>

ToggleRow ==
    /\ expanded' = ~expanded
    /\ UNCHANGED <<catalog, aggregates, item, retrieved>>

Ranks == 0..2
Unrecorded == 9

Next ==
    \/ CatalogLands
    \/ \E m \in Names, k \in Cutoffs : MetricLands(m, k)
    \/ \E stage \in Ranks \cup {Unrecorded} : StageLands(stage)
    \/ \E rank \in Ranks : ResultLands(rank)
    \/ ToggleRow

Spec == Init /\ [][Next]_vars

--------------------------------------------------------------------------------
(***************************************************************************)
(* lib/metrics.                                                            *)
(***************************************************************************)
CutoffsOf(name) == {a[2] : a \in {x \in Range(aggregates) : x[1] = name}}
Deepest(K) == CHOOSE k \in K : \A j \in K : j <= k
Ascending(K) == CHOOSE s \in [1 .. Cardinality(K) -> K] : \A i, j \in DOMAIN s : i < j => s[i] < s[j]

headlineMetric(name) == IF CutoffsOf(name) = {} THEN 0 ELSE Deepest(CutoffsOf(name))

\* The names of the aggregates, each at its first appearance.
FirstSeen ==
    LET names == [i \in DOMAIN aggregates |-> aggregates[i][1]] IN
    SelectSeq([i \in DOMAIN names |->
                 IF \E j \in 1..(i - 1) : names[j] = names[i] THEN "" ELSE names[i]],
              LAMBDA n : n # "")

Computed(names) == SelectSeq(names, LAMBDA n : CutoffsOf(n) # {})

\* The cards of the run page: the catalog's metrics, then the others as stored.
groupMetrics ==
    LET names == Computed(catalog) \o SelectSeq(FirstSeen, LAMBDA n : n \notin Range(catalog)) IN
    [i \in DOMAIN names |-> [name |-> names[i], ks |-> Ascending(CutoffsOf(names[i]))]]

\* The score of the runs table: the catalog's first computed metric, then the
\* others by name, each at its deepest cutoff.
headlineAggregate ==
    LET names == Computed(catalog) \o Computed(Catalog \o Unlisted) IN
    IF names = <<>> THEN <<>> ELSE <<names[1], headlineMetric(names[1])>>

\* The columns of the per-query table: the metrics computed at the deepest
\* selected cutoff.
itemMetricNames ==
    LET at == {m \in Names : <<m, Deepest(Cutoffs)>> \in Range(aggregates)} IN
    SelectSeq(catalog, LAMBDA n : n \in at)
      \o SelectSeq(Catalog \o Unlisted, LAMBDA n : n \in at \ Range(catalog))

(***************************************************************************)
(* lib/journey.                                                            *)
(***************************************************************************)
\* The stages the item has a record of, as <<stage, rank>>.
goldDocJourney ==
    LET all == [i \in DOMAIN item |-> <<i, item[i]>>] IN
    SelectSeq(all, LAMBDA s : s[2] # Unrecorded)

dropStage(steps) ==
    LET present == {i \in DOMAIN steps : steps[i][2] > 0}
        last == IF present = {} THEN 0 ELSE Deepest(present)
        absent == {i \in DOMAIN steps : i > last}
    IN
    IF last = 0 THEN IF steps = <<>> THEN 0 ELSE steps[1][1]
    ELSE IF absent = {} THEN 0 ELSE steps[CHOOSE i \in absent : \A j \in absent : i <= j][1]

droppedAt == IF retrieved > 0 THEN 0 ELSE dropStage(goldDocJourney)

\* An expanded row's line for an expected document.
DrilldownLine ==
    IF ~expanded THEN "closed"
    ELSE IF retrieved > 0 THEN "retrieved"
    ELSE IF droppedAt > 0 THEN "lost at a stage" ELSE "not retrieved"

goldHitCount == IF retrieved > 0 THEN 1 ELSE 0

\* What the views show: the cards of the run page, the score cell of the runs
\* table, and the item's row.
MetricCards == groupMetrics
HeadlineCell == headlineAggregate
ItemRow == [gold |-> goldHitCount, columns |-> itemMetricNames, open |-> DrilldownLine]

--------------------------------------------------------------------------------
\* The values the variables take; a column or a card is listed once.
TypeOK ==
    /\ catalog \in {<<>>, Catalog}
    /\ retrieved \in Ranks /\ Len(item) <= MaxStages
    /\ IsInjective(ItemRow.columns)
    /\ \A i, j \in DOMAIN groupMetrics : groupMetrics[i].name = groupMetrics[j].name => i = j

\* Two pages show the same score: once the catalog is known to both and the run
\* has a metric of it, the headline of the runs table is the deepest cutoff of
\* the first card of the run's own page.
HeadlineIsFirstCard ==
    catalog # <<>> /\ Computed(catalog) # <<>> =>
        LET first == MetricCards[1] IN HeadlineCell = <<first.name, first.ks[Len(first.ks)]>>

\* Nothing computed is left out of the cards, and every column of the table has
\* a value to show.
EveryMetricShown ==
    /\ {<<g.name, k>> : g \in Range(groupMetrics), k \in Cutoffs} \cap Range(aggregates)
         = Range(aggregates)
    /\ \A i \in DOMAIN groupMetrics : Range(groupMetrics[i].ks) = CutoffsOf(groupMetrics[i].name)
    /\ \A n \in Range(ItemRow.columns) : headlineMetric(n) = Deepest(Cutoffs)

\* The stage blamed for losing a document really lost it: the document was not
\* in what that stage or any later recorded stage emitted, and the recorded
\* stage before it (if any stage ever had it) did have it.  A document that is
\* in the results, or in the last recorded stage, is blamed on nobody.
BlameIsReal ==
    LET steps == goldDocJourney IN
    IF droppedAt = 0
    THEN ItemRow.gold = 1 \/ steps = <<>> \/ steps[Len(steps)][2] > 0
    ELSE LET at == CHOOSE i \in DOMAIN steps : steps[i][1] = droppedAt IN
         /\ ItemRow.gold = 0 /\ ItemRow.open # "retrieved"
         /\ \A i \in at..Len(steps) : steps[i][2] = 0
         /\ IF at = 1 THEN \A i \in DOMAIN steps : steps[i][2] = 0 ELSE steps[at - 1][2] > 0
================================================================================
