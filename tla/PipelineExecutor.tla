--------------------------- MODULE PipelineExecutor ---------------------------
(***************************************************************************)
(* One run of a pipeline graph: app/pipelines/execution/executor.py, with  *)
(* the structural half of app/pipelines/validation.py that guards it.      *)
(*                                                                         *)
(* The executor scans the pending nodes in the iteration order of a Python *)
(* set of strings, which differs from process to process: the model scans  *)
(* them in every order.  A node's `run' is abstracted to the set of output *)
(* ports it emits; a router emits only some of them, so a branch may never *)
(* be delivered and the fan-in behind it has to be settled with what came. *)
(* The value an edge carries is named by its source and output port, which *)
(* is enough to tell which payload a node was given and in which order.    *)
(***************************************************************************)
EXTENDS ListOrder

CONSTANTS
    Nodes,          \* the node ids of the definition
    Ins,            \* Ins[n]: the input port keys of n's type
    Required,       \* Required[n]: those with NodePort.required
    Many,           \* Many[n]: those with NodePort.accepts_many
    Emissions,      \* Emissions[n]: the sets of output ports run() may return
    Definitions     \* the edge lists to execute, each a sequence of edges

(* Every variadic port of the node catalogue is a required one.            *)
PortsAssumption ==
    /\ IsFiniteSet(Nodes) /\ Ins \in [Nodes -> SUBSET STRING]
    /\ \A n \in Nodes : Many[n] \subseteq Required[n] /\ Required[n] \subseteq Ins[n]

Key(e) == <<e.target, e.port, e.id>>

(* The edges of a definition join nodes and ports that exist, no two into  *)
(* one port have the same id, an optional port is the only one wired of    *)
(* its node, and no node that takes input is unwired.                      *)
WiringAssumption ==
    \A def \in Definitions :
        /\ def \in Seq([id : Nat, source : Nodes, out : STRING, target : Nodes, port : STRING])
        /\ \A i \in DOMAIN def : def[i].port \in Ins[def[i].target]
        /\ \A i, j \in DOMAIN def : Key(def[i]) = Key(def[j]) => i = j
        /\ \A i, j \in DOMAIN def :
              def[i].target = def[j].target /\ def[i].port \notin Required[def[i].target] => i = j
        /\ \A n \in Nodes : Ins[n] = {} \/ \E i \in DOMAIN def : def[i].target = n

VARIABLES
    edges,          \* definition.edges
    pc,             \* where execute() is
    todo,           \* what is left of the loop over list(state.pending)
    progressed,     \* the flag of the loop: `progressed' or `changed'
    pending, dead, outputs, inputs, delivered, fanin,   \* _RunState
    seen            \* history: the inputs each node was run with

vars == <<edges, pc, todo, progressed, pending, dead, outputs, inputs,
          delivered, fanin, seen>>

Ended == {"completed", "failed", "stalled", "rejected"}

Value(e) == <<e.source, e.out>>
Into(n)  == {e \in {edges[i] : i \in DOMAIN edges} : e.target = n}
IntoPort(n, p) == {i \in DOMAIN edges : edges[i].target = n /\ edges[i].port = p}
NoInputs == [n \in Nodes |-> [p \in Ins[n] |-> << >>]]
HasInputs(n) == \E p \in Ins[n] : inputs[n][p] # << >>
Ran == DOMAIN outputs
SettledNodes == Ran \cup dead

-----------------------------------------------------------------------------
(* PipelineValidator: one edge per single-value port, an edge for every    *)
(* required port, no cycle.                                                *)

PortFanin(def) ==
    \A i, j \in DOMAIN def :
        /\ i # j
        /\ def[i].target = def[j].target
        /\ def[i].port = def[j].port
        => def[i].port \in Many[def[i].target]

RequiredInputs(def) ==
    \A n \in Nodes : \A p \in Required[n] :
        \E i \in DOMAIN def : def[i].target = n /\ def[i].port = p

HasCycle(def) ==
    \E S \in (SUBSET Nodes) \ {{}} : \A n \in S :
        \E i \in DOMAIN def : def[i].source = n /\ def[i].target \in S

Valid(def) == PortFanin(def) /\ RequiredInputs(def) /\ ~HasCycle(def)

-----------------------------------------------------------------------------
Init ==
    /\ edges \in Definitions
    /\ pc = "validate"
    /\ todo = {} /\ progressed = FALSE
    /\ pending = Nodes /\ dead = {}
    /\ outputs = << >> /\ delivered = << >> /\ seen = << >>
    /\ inputs = NoInputs
    /\ fanin = [n \in Nodes |-> [p \in Ins[n] |-> Cardinality(IntoPort(n, p))]]

Validate ==
    /\ pc = "validate"
    /\ IF Valid(edges) THEN pc' = "scan" /\ todo' = pending
                       ELSE pc' = "rejected" /\ UNCHANGED todo
    /\ UNCHANGED <<edges, progressed, pending, dead, outputs, inputs, delivered, fanin, seen>>

(* A plausible slip: any arrival makes a variadic port ready.              *)
ReadyOnFirst(n) ==
    /\ Ins[n] # {} => HasInputs(n)
    /\ \A p \in Required[n] : inputs[n][p] # << >>

(* _is_ready: a variadic port waits for its expected fan-in.               *)
Ready(n) ==
    /\ Ins[n] # {} => HasInputs(n)
    /\ \A p \in Many[n] : Len(inputs[n][p]) >= fanin[n][p] /\ fanin[n][p] > 0
    /\ \A p \in Required[n] \ Many[n] : inputs[n][p] # << >>

(* _propagate: what the edges out of n that carry an emitted port leave in *)
(* delivered_many and in the targets' inputs; the later edge overwrites.   *)
Carried(n, emitted) == {i \in DOMAIN edges : edges[i].source = n /\ edges[i].out \in emitted}

Latest(I, k) ==
    LET J == {i \in I : Key(edges[i]) = k}
    IN  Value(edges[CHOOSE i \in J : \A j \in J : j <= i])

DeliveredBy(I) ==
    LET keys == {Key(edges[i]) : i \in I}
    IN  [k \in DOMAIN delivered \cup keys |-> IF k \in keys THEN Latest(I, k) ELSE delivered[k]]

Arrived(d, n, p) ==
    LET here == {i \in IntoPort(n, p) : Key(edges[i]) \in DOMAIN d}
    IN  [k \in 1 .. Cardinality(here) |-> d[Key(edges[Nth(here, k)])]]

Propagate(n, emitted) ==
    LET I == Carried(n, emitted)
    IN  /\ delivered' = DeliveredBy(I)
        /\ inputs' = [m \in Nodes |-> [p \in Ins[m] |->
               IF I \cap IntoPort(m, p) # {} THEN Arrived(delivered', m, p) ELSE inputs[m][p]]]

(* _execute_nodes, one turn of the loop over the pending nodes.            *)
RunNode(n) ==
    /\ pc = "scan" /\ n \in todo
    /\ Ready(n)
    /\ \E emitted \in Emissions[n] :
          /\ outputs' = [m \in Ran \cup {n} |-> IF m = n THEN emitted ELSE outputs[m]]
          /\ Propagate(n, emitted)
    /\ seen' = [m \in Ran \cup {n} |-> IF m = n THEN inputs[n] ELSE seen[m]]
    /\ pending' = pending \ {n}
    /\ todo' = todo \ {n}
    /\ progressed' = TRUE
    /\ UNCHANGED <<edges, pc, dead, fanin>>

NodeRaises(n) ==
    /\ pc = "scan" /\ n \in todo
    /\ Ready(n)
    /\ pc' = "failed"
    /\ UNCHANGED <<edges, todo, progressed, pending, dead, outputs, inputs, delivered, fanin, seen>>

SkipNode(n) ==
    /\ pc = "scan" /\ n \in todo
    /\ ~Ready(n)
    /\ todo' = todo \ {n}
    /\ UNCHANGED <<edges, pc, progressed, pending, dead, outputs, inputs, delivered, fanin, seen>>

(* The end of a scan: the loop ends, goes round, or turns to settling.     *)
ScanEnds ==
    /\ pc = "scan" /\ todo = {}
    /\ pc' = IF pending = {} THEN "completed" ELSE IF progressed THEN "scan" ELSE "settle"
    /\ todo' = pending
    /\ progressed' = FALSE
    /\ UNCHANGED <<edges, pending, dead, outputs, inputs, delivered, fanin, seen>>

(* _settle_undeliverable, one turn of its loop.                            *)
Undeliverable(n) == \A e \in Into(n) : e.source \in SettledNodes

Shrunk(n) ==
    [p \in Ins[n] |-> IF p \in Many[n] /\ inputs[n][p] # << >>
                      THEN Len(inputs[n][p]) ELSE fanin[n][p]]

SettleNode(n) ==
    /\ pc = "settle" /\ n \in todo
    /\ todo' = todo \ {n}
    /\ \/ /\ Undeliverable(n) /\ ~HasInputs(n) /\ Into(n) # {}
          /\ pending' = pending \ {n}
          /\ dead' = dead \cup {n}
          /\ progressed' = TRUE
          /\ UNCHANGED fanin
       \/ /\ Undeliverable(n) /\ (HasInputs(n) \/ Into(n) = {})
          /\ fanin' = [fanin EXCEPT ![n] = Shrunk(n)]
          /\ progressed' = (progressed \/ Shrunk(n) # fanin[n])
          /\ UNCHANGED <<pending, dead>>
       \/ /\ ~Undeliverable(n)
          /\ UNCHANGED <<progressed, pending, dead, fanin>>
    /\ UNCHANGED <<edges, pc, outputs, inputs, delivered, seen>>

(* The end of settling: another scan, or _resolve_stalled.                 *)
SettleEnds ==
    /\ pc = "settle" /\ todo = {}
    /\ \/ /\ progressed /\ pending # {}
          /\ pc' = "scan" /\ todo' = pending /\ UNCHANGED pending
       \/ /\ ~progressed \/ pending = {}
          /\ IF \A n \in pending : ~HasInputs(n)
             THEN pc' = "completed" /\ pending' = {}
             ELSE pc' = "stalled" /\ UNCHANGED pending
          /\ UNCHANGED todo
    /\ progressed' = FALSE
    /\ UNCHANGED <<edges, dead, outputs, inputs, delivered, fanin, seen>>

ExecuteStep ==
    \/ Validate \/ ScanEnds \/ SettleEnds
    \/ \E n \in Nodes : RunNode(n) \/ NodeRaises(n) \/ SkipNode(n) \/ SettleNode(n)

(* The caller has its result: nothing more happens in this run.            *)
Returned == pc \in Ended /\ UNCHANGED vars

Next == ExecuteStep \/ Returned

Spec == Init /\ [][Next]_vars

(* The executor is a loop on one thread: while it can step, it does.       *)
FairSpec == Spec /\ WF_vars(ExecuteStep)

-----------------------------------------------------------------------------
(* What the run should amount to, read off the graph and the emissions     *)
(* alone.                                                                  *)

Emitted(e) == e.source \in Ran /\ e.out \in outputs[e.source]

(* The values a port is owed: those of its edges that were emitted, in     *)
(* the order the definition lists the edges.                               *)
Owed(n, p) ==
    LET owed == {i \in IntoPort(n, p) : Emitted(edges[i])}
    IN  [k \in 1 .. Cardinality(owed) |-> Value(edges[Nth(owed, k)])]

(* A node can run when it takes no input, or was given one and lacks none  *)
(* of the required ones.                                                   *)
Runnable(n) ==
    \/ Ins[n] = {}
    \/ /\ \E p \in Ins[n] : Owed(n, p) # << >>
       /\ \A p \in Required[n] : Owed(n, p) # << >>

(* The pending set, the dead set and the outputs are what _RunState says.  *)
TypeOK ==
    /\ edges \in Definitions
    /\ pc \in Ended \cup {"validate", "scan", "settle"}
    /\ todo \subseteq Nodes /\ progressed \in BOOLEAN
    /\ pending \subseteq Nodes /\ dead \subseteq Nodes /\ Ran \subseteq Nodes
    /\ pending \cap SettledNodes = {} /\ Ran \cap dead = {}
    /\ \A n \in Ran : outputs[n] \in Emissions[n]
    /\ \A n \in Nodes : DOMAIN inputs[n] = Ins[n] /\ DOMAIN fanin[n] = Ins[n]

(* However the pending set is iterated, a node runs after everything wired *)
(* into it is settled, with exactly the values emitted to it, each list in *)
(* the order of the definition's edges, and nothing reaches it afterwards. *)
CompleteInputs ==
    \A n \in Ran :
        /\ \A e \in Into(n) : e.source \in SettledNodes
        /\ \A p \in Ins[n] : seen[n][p] = Owed(n, p) /\ inputs[n][p] = seen[n][p]

(* A run that completes has run every node the emissions reach and no      *)
(* other: the graph being acyclic, that fixes the outcome whatever the     *)
(* iteration order was.                                                    *)
OutcomeFixed ==
    pc = "completed" => Ran = {n \in Nodes : Runnable(n)}

(* The run is abandoned as stalled only over a node that was given some    *)
(* input and will never be given one that it requires.                     *)
StallIsReal ==
    pc = "stalled" =>
        \E n \in pending :
            /\ HasInputs(n)
            /\ \E p \in Required[n] : Owed(n, p) = << >>

(* Every run comes to an end: scanning and settling never chase each other.*)
RunEnds == <>(pc \in Ended)

-----------------------------------------------------------------------------
(* The invariant that carries them.                                        *)

Owing(n, p) == {i \in IntoPort(n, p) : Emitted(edges[i])}

\* What has been delivered is what was emitted, and the inputs are made of it.
DeliveredFacts ==
    /\ \A i \in DOMAIN edges :
         /\ Key(edges[i]) \in DOMAIN delivered <=> Emitted(edges[i])
         /\ Emitted(edges[i]) => delivered[Key(edges[i])] = Value(edges[i])
    /\ \A n \in Nodes : \A p \in Ins[n] : inputs[n][p] = Arrived(delivered, n, p)

\* A fan-in is what the graph says until nothing can arrive any more.
FaninFacts ==
    /\ DOMAIN fanin = Nodes
    /\ \A n \in Nodes : \A p \in Ins[n] :
         /\ fanin[n][p] \in Nat
         /\ fanin[n][p] = Cardinality(IntoPort(n, p)) \/ Undeliverable(n)

\* Each node waits, ran with all there is for it, or can be given nothing.
NodeFacts ==
    /\ pc # "completed" => Nodes = pending \cup SettledNodes
    /\ \A n \in Ran : /\ Undeliverable(n) /\ Runnable(n)
                      /\ \A p \in Ins[n] : seen[n][p] = inputs[n][p]
    /\ \A n \in dead : Undeliverable(n) /\ Ins[n] # {} /\ ~HasInputs(n)

\* What a scan or a settling that changed nothing says of the nodes it has been
\* over.
LoopFacts ==
    /\ pc \in {"scan", "settle"} => Valid(edges) /\ todo \subseteq pending
    /\ pc = "scan" => \A n \in pending \ todo : Ins[n] # {} /\ (progressed \/ ~Ready(n))
    /\ pc = "settle" =>
         /\ \A n \in pending : Ins[n] # {} /\ (progressed \/ ~Ready(n))
         /\ \A n \in pending \ todo :
              \/ progressed
              \/ ~Undeliverable(n)
              \/ (HasInputs(n) \/ Into(n) = {}) /\ Shrunk(n) = fanin[n]

ExecInv ==
    /\ TypeOK /\ DeliveredFacts /\ FaninFacts /\ NodeFacts /\ LoopFacts
    /\ OutcomeFixed /\ StallIsReal
=============================================================================
