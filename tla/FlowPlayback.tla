----------------------------- MODULE FlowPlayback -----------------------------
(***************************************************************************)
(* The animated pipeline graph (FlowPlayer over useFlowPlayback): waves of *)
(* nodes are derived from the graph, each wave is highlighted for a while, *)
(* then a comet crosses every edge that leaves it.  Comets that outlast    *)
(* their hop fly on, each on a clock of its own.  A unit of time is a      *)
(* stretch of light's path: speed is the same everywhere.                  *)
(***************************************************************************)
EXTENDS Naturals, FiniteSets, Sequences

CONSTANTS
    Nodes,         \* the nodes of the graph
    Column, Row,   \* [Nodes -> Nat], where their cards are
    Size,          \* [Nodes -> Nat], half the way around their card
    Graphs,        \* the sets of edges, pairs of nodes, to be played
    Loop,          \* whether playback starts over at the end
    MaxClicks      \* bound: uses of the controls

VARIABLES
    edges,         \* the edges of the graph
    steps,         \* its waves
    activeIndex,   \* the wave highlighted, from 1
    phase,         \* "process" or "travel"
    playing, completed, autoPlay,
    left,          \* time left to the timer of the phase
    longHaul,      \* edge -> time left, for comets that outlast their hop
    clicks

vars == <<edges, steps, activeIndex, phase, playing, completed, autoPlay, left, longHaul, clicks>>
shown == <<activeIndex, phase, playing, completed>>

Most(S) == CHOOSE m \in S : \A n \in S : n <= m
Distance(m, n) == IF m < n THEN n - m ELSE m - n

--------------------------------------------------------------------------------
(***************************************************************************)
(* Waves: all nodes whose predecessors are in earlier ones.  A graph with  *)
(* a cycle never becomes ready as a whole, and is refused.                 *)
(***************************************************************************)
\* Mutant: a node starts with the first of its inputs.
StepsOnFirstInput(E) ==
    LET ready(done) == {n \in Nodes \ done : (\E e \in E : e[2] = n) => \E e \in E : e[2] = n /\ e[1] \in done}
        from[done \in SUBSET Nodes] ==
            IF ready(done) = {} THEN << >> ELSE <<ready(done)>> \o from[done \cup ready(done)]
        waves == from[{}]
    IN  IF UNION {waves[i] : i \in DOMAIN waves} = Nodes THEN waves ELSE << >>

buildTopologyPlaybackSteps(E) ==
    LET ready(done) == {n \in Nodes \ done : \A e \in E : e[2] = n => e[1] \in done}
        from[done \in SUBSET Nodes] ==
            IF ready(done) = {} THEN << >> ELSE <<ready(done)>> \o from[done \cup ready(done)]
        waves == from[{}]
    IN  IF UNION {waves[i] : i \in DOMAIN waves} = Nodes THEN waves ELSE << >>

Wave(i) == IF i \in DOMAIN steps THEN steps[i] ELSE {}

\* buildFlowTiming: a wire lasts as long as its way along the grid.
processMs(n) == Size[n]
travelMs(e) == Distance(Column[e[1]], Column[e[2]]) + Distance(Row[e[1]], Row[e[2]])

\* The edges that leave a wave: to any wave after it.
edgesBetween(i) ==
    {e \in edges : /\ e[1] \in Wave(i) /\ e[1] \notin Wave(i + 1)
                   /\ \E j \in i + 1..Len(steps) : e[2] \in Wave(j)}

\* An empty stage lasts the default.
stepProcessMs(i) == Most({1} \cup {processMs(n) : n \in Wave(i)})

\* Edges into the next wave decide how long a hop lasts, if there are any.
Gating(i) == {e \in edgesBetween(i) : e[2] \in Wave(i + 1)}
\* Mutant: the shortest comet ends the hop.
hopTravelShortest(i) ==
    IF edgesBetween(i) = {} THEN 1
    ELSE CHOOSE m \in {travelMs(e) : e \in edgesBetween(i)} : \A e \in edgesBetween(i) : m <= travelMs(e)

hopTravel(i) ==
    Most({1} \cup {travelMs(e) : e \in IF Gating(i) # {} THEN Gating(i) ELSE edgesBetween(i)})

\* The timer of the phase starts whenever what it depends on changes.
Window(i, ph) == IF ph = "process" THEN stepProcessMs(i) ELSE hopTravel(i)

Show(i, ph, plays, done) ==
    /\ activeIndex' = i /\ phase' = ph /\ playing' = plays /\ completed' = done
    /\ left' = IF <<i, ph, plays>> = <<activeIndex, phase, playing>> THEN left ELSE Window(i, ph)

Init ==
    /\ edges \in Graphs /\ steps = buildTopologyPlaybackSteps(edges)
    /\ activeIndex = 1 /\ phase = "process" /\ autoPlay \in BOOLEAN
    /\ playing = autoPlay /\ completed = FALSE
    /\ left = IF steps = << >> THEN 0 ELSE stepProcessMs(1)
    /\ longHaul = << >> /\ clicks = 0

--------------------------------------------------------------------------------
(***************************************************************************)
(* The clock and its timers: time does not pass while one is due.          *)
(***************************************************************************)
Due == {e \in DOMAIN longHaul : longHaul[e] = 0}

Tick ==
    /\ steps # << >> /\ Due = {} /\ (playing => left > 0)
    /\ playing \/ DOMAIN longHaul # {}
    /\ left' = IF playing THEN left - 1 ELSE left
    /\ longHaul' = [e \in DOMAIN longHaul |-> longHaul[e] - 1]
    /\ UNCHANGED <<edges, steps, shown, autoPlay, clicks>>

Expire(e) ==
    /\ e \in Due /\ longHaul' = [f \in DOMAIN longHaul \ {e} |-> longHaul[f]]
    /\ UNCHANGED <<edges, steps, shown, autoPlay, left, clicks>>

\* Mutant: a wave without edges is not left.
WaveEndsOnEdges ==
    /\ playing /\ steps # << >> /\ left = 0 /\ phase = "process"
    /\ IF activeIndex = Len(steps) THEN Show(activeIndex, "process", FALSE, TRUE)
       ELSE activeIndex < 2 /\ edgesBetween(activeIndex) # {} /\ Show(activeIndex, "travel", playing, completed)
    /\ UNCHANGED <<edges, steps, autoPlay, longHaul, clicks>>

\* The end of a wave's window: it is the last, or its edges are crossed next,
\* or it has none.
WaveEnds ==
    /\ playing /\ steps # << >> /\ left = 0 /\ phase = "process"
    /\ IF activeIndex = Len(steps)
       THEN IF Loop THEN /\ activeIndex' = 1 /\ left' = stepProcessMs(1)
                         /\ UNCHANGED <<phase, playing, completed>>
                    ELSE Show(activeIndex, "process", FALSE, TRUE)
       ELSE IF edgesBetween(activeIndex) # {}
            THEN Show(activeIndex, "travel", playing, completed)
            ELSE Show(activeIndex + 1, "process", playing, completed)
    /\ UNCHANGED <<edges, steps, autoPlay, longHaul, clicks>>

\* The end of a hop: comets that need longer stay lit past it.
HopEnds ==
    /\ playing /\ left = 0 /\ phase = "travel"
    /\ LET late == {e \in edgesBetween(activeIndex) : travelMs(e) > hopTravel(activeIndex)}
       IN  longHaul' = [e \in late \cup DOMAIN longHaul |->
                            IF e \in late THEN travelMs(e) - hopTravel(activeIndex) ELSE longHaul[e]]
    /\ Show(activeIndex + 1, "process", playing, completed)
    /\ UNCHANGED <<edges, steps, autoPlay, clicks>>

--------------------------------------------------------------------------------
(***************************************************************************)
(* The controls.                                                           *)
(***************************************************************************)
Click ==
    /\ steps # << >> /\ clicks < MaxClicks /\ clicks' = clicks + 1
    /\ UNCHANGED <<edges, steps, autoPlay, longHaul>>

\* A node or a dot of the scrubber.
seek(i) == Click /\ i \in DOMAIN steps /\ Show(i, "process", playing, FALSE)

stepForward == Click /\ activeIndex < Len(steps) /\ Show(activeIndex + 1, "process", FALSE, FALSE)
stepBack == Click /\ activeIndex > 1 /\ Show(activeIndex - 1, "process", FALSE, FALSE)

toggle ==
    /\ Click
    /\ IF ~playing /\ completed THEN Show(1, "process", TRUE, FALSE)
       ELSE Show(activeIndex, phase, ~playing, completed)

restart == Click /\ Show(1, "process", TRUE, FALSE)

\* The preference for reduced motion changes while the player is shown.
AutoPlayChanges ==
    /\ steps # << >> /\ clicks < MaxClicks /\ clicks' = clicks + 1
    /\ autoPlay' = ~autoPlay /\ Show(1, "process", autoPlay', FALSE)
    /\ UNCHANGED <<edges, steps, longHaul>>

Next ==
    \/ Tick \/ WaveEnds \/ HopEnds \/ \E e \in edges : Expire(e)
    \/ toggle \/ restart \/ stepForward \/ stepBack \/ AutoPlayChanges
    \/ \E i \in 1..Cardinality(Nodes) : seek(i)

\* Time passes and timers fire.
Fairness == WF_vars(Tick) /\ WF_vars(WaveEnds) /\ WF_vars(HopEnds) /\ \A e \in Nodes \X Nodes : WF_vars(Expire(e))

Spec == Init /\ [][Next]_vars /\ Fairness

--------------------------------------------------------------------------------
visitedEdgeIds == UNION {edgesBetween(i) : i \in 1..activeIndex - 1}

\* The values the variables take; only a wave before the last is travelled from.
TypeOK ==
    /\ steps # << >> => activeIndex \in DOMAIN steps
    /\ phase \in {"process", "travel"} /\ phase = "travel" => activeIndex < Len(steps)
    /\ playing \in BOOLEAN /\ completed \in BOOLEAN /\ left \in Nat
    /\ DOMAIN longHaul \subseteq edges /\ \A e \in DOMAIN longHaul : longHaul[e] \in Nat

\* The waves are the graph's levels: every edge leads to a later wave, every
\* node but those of the first follows one of the wave before it (it starts as
\* soon as its inputs are there), and a graph is refused exactly if it has a cycle.
Cyclic == \E S \in SUBSET Nodes \ {{}} : \A n \in S : \E m \in S : <<m, n>> \in edges
WavesAreLevels ==
    /\ (steps = << >>) <=> Cyclic
    /\ \A i \in DOMAIN steps : \A n \in steps[i] :
          /\ \A e \in edges : e[2] = n => \E j \in 1..i - 1 : e[1] \in steps[j]
          /\ i > 1 => \E m \in steps[i - 1] : <<m, n>> \in edges

\* When playback says the run is over, the last wave is shown, nothing plays, and
\* every edge of the graph has been crossed.
CompletedIsWhole ==
    completed => ~playing /\ activeIndex = Len(steps) /\ visitedEdgeIds = edges

\* A comet that outlasts its hop is never one the next wave waits for: a wave is
\* not highlighted while the edges from the wave before it are still in flight.
NextWaveArrivedStep ==
    \A e \in DOMAIN longHaul' \ DOMAIN longHaul : e[2] \notin Wave(activeIndex')
NextWaveArrived == [][NextWaveArrivedStep]_vars

\* Playback gets to its end: left alone, what plays completes (a loop comes back
\* to its first wave), whatever was clicked before.
PlayEnds == playing /\ steps # << >> ~> (IF Loop THEN activeIndex = 1 ELSE completed) \/ ~playing

\* No comet stays lit for ever, paused or not.
CometsLand == DOMAIN longHaul # {} ~> DOMAIN longHaul = {} \/ playing
===============================================================================
