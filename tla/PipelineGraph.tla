------------------------------ MODULE PipelineGraph ------------------------------
(***************************************************************************)
(* The graph on the builder's canvas: nodes dropped from the library       *)
(* (use-canvas-drag-drop.ts, PipelineNodeLibrary.tsx) or added from their  *)
(* preview, wires drawn between typed ports (use-connection-typing.ts,     *)
(* pipeline-io.ts), the configuration edited in the drawer's draft         *)
(* (NodeConfigSections.tsx and its pickers) and the errors that keep the   *)
(* save dialog shut (use-canvas-decorations.ts).  Positions, labels and    *)
(* free-form fields are left out.                                          *)
(***************************************************************************)
EXTENDS Naturals, FiniteSets, TLC

CONSTANTS
    Backends,      \* vector stores; the default one is DefaultBackend
    DefaultBackend,
    Indexes,       \* the dense indexes listed: records of backend, name, dim
    Models,        \* embedding models
    Resizable,     \* those that accept a dimension override
    ModelVariables,\* pipeline variables of type model
    None,
    MaxNodes,      \* bound: node ids
    MaxEdits       \* bound: nodes and wires added or removed and draft edits, together

VARIABLES
    nodes,         \* the canvas: node id -> [type, config]
    edges,         \* the wires: [src, out, tgt, in]
    connecting,    \* the wire being dragged: [type, from, node], or None
    drag,          \* the library entry being dragged, or None
    ghost,         \* the drop preview's entry, or None
    preview,       \* the library entry shown read-only in the drawer, or None
    draft,         \* the drawer's draft: [node, config], or None
    edits,         \* how many edits were made
    provider,      \* hasRerankingProvider
    saveOpen       \* the save dialog is open

vars == <<nodes, edges, edits, connecting, drag, ghost, preview, draft, provider, saveOpen>>
canvas == <<nodes, edges, edits>>

\* The ports of the node types, as the backend's node classes declare them.
Ports ==
    [chunker   |-> [ins |-> {}, outs |-> {<<"chunks", "chunk_batch">>}],
     embedder  |-> [ins |-> {<<"chunks", "chunk_batch">>},
                    outs |-> {<<"embedded", "embedded_batch">>, <<"query_embedding", "query_embedding">>}],
     indexer   |-> [ins |-> {<<"embedded", "embedded_batch">>}, outs |-> {<<"indexed", "indexed_batch">>}],
     retriever |-> [ins |-> {<<"query_embedding", "query_embedding">>}, outs |-> {<<"results", "retrieval_results">>}],
     fusion    |-> [ins |-> {<<"results", "retrieval_results">>}, outs |-> {<<"results", "retrieval_results">>}],
     reranker  |-> [ins |-> {<<"results", "retrieval_results">>}, outs |-> {<<"results", "retrieval_results">>}]]

NodeTypes == DOMAIN Ports
AcceptsMany(t, port) == t = "fusion" /\ port = "results"
VectorTypes == {"indexer", "retriever"}

Ids == 1..MaxNodes
Canvas == DOMAIN nodes
NoConfig == [backend |-> None, index |-> None, dim |-> None, model |-> None, tokenizer |-> None, hf |-> None]

\* specToNodeData: a new node carries the defaults of its specification.
SpecToNodeData(t) == [type |-> t, config |-> NoConfig]

\* A stored pipeline: a chunker, an embedder with an explicit dimension, an
\* indexer whose index has it.
Init ==
    /\ \E ix \in Indexes, m \in Resizable :
         nodes = (1 :> [SpecToNodeData("chunker") EXCEPT !.config.tokenizer = "wordpiece"]) @@
                 (2 :> [SpecToNodeData("embedder") EXCEPT !.config.model = m, !.config.dim = ix.dim]) @@
                 (3 :> [SpecToNodeData("indexer") EXCEPT !.config.backend = ix.backend,
                                !.config.index = ix.name, !.config.dim = ix.dim])
    /\ edges = {[src |-> 1, out |-> "chunks", tgt |-> 2, in |-> "chunks"],
                [src |-> 2, out |-> "embedded", tgt |-> 3, in |-> "embedded"]}
    /\ edits = 0 /\ connecting = None /\ drag = None /\ ghost = None /\ preview = None
    /\ draft = None /\ provider \in BOOLEAN /\ saveOpen = FALSE

-------------------------------------------------------------------------------
\* resolvePortType.
PortType(n, side, port) ==
    LET found == IF n \in Canvas THEN {p \in Ports[nodes[n].type][side] : p[1] = port} ELSE {}
    IN IF found = {} THEN None ELSE (CHOOSE p \in found : TRUE)[2]

\* validatePortFanIn: a port that takes one wire has one already.
Occupied(e) ==
    /\ ~AcceptsMany(nodes[e.tgt].type, e.in)
    /\ \E f \in edges : f # e /\ f.tgt = e.tgt /\ f.in = e.in

\* resolveDimension: the dimension a node's configuration states, if any.
ResolveDimension(n) == {nodes[n].config.dim} \ {None}

\* validateDimensionConnection: an embedder feeds an index of another dimension.
DimensionError(e) ==
    /\ e.src \in Canvas /\ e.tgt \in Canvas
    /\ nodes[e.src].type = "embedder" /\ nodes[e.tgt].type = "indexer"
    /\ \E d1 \in ResolveDimension(e.src), d2 \in ResolveDimension(e.tgt) : d1 # d2

\* validatePipelineConnection.
Valid(e) ==
    /\ e.src # e.tgt
    /\ PortType(e.src, "outs", e.out) # None
    /\ PortType(e.tgt, "ins", e.in) = PortType(e.src, "outs", e.out)
    /\ ~Occupied(e)
    /\ ~DimensionError(e)

\* validatePipelineConfig.
ConfigError(n) ==
    LET c == nodes[n].config IN
    \/ nodes[n].type = "chunker" /\ c.tokenizer = "huggingface" /\ c.hf = None
    \/ nodes[n].type \in VectorTypes /\ c.index = None

\* validatePipelineEdges: the nodes that bad edges lead to.
EdgeErrors == {e.tgt : e \in {f \in edges : DimensionError(f)}}

\* useCanvasDecorations: the nodes that carry an error.
NodeErrors == EdgeErrors \cup {n \in Canvas : ConfigError(n)}

\* The modal overlays keep the pointer off the canvas.
Uncovered == draft = None /\ preview = None /\ ~saveOpen

-------------------------------------------------------------------------------
Edited == edits < MaxEdits /\ edits' = edits + 1

\* A wire is picked up at a port: handleConnectStart.
ConnectStart(n, from, port) ==
    /\ Uncovered /\ connecting = None /\ drag = None
    /\ LET type == PortType(n, IF from = "source" THEN "outs" ELSE "ins", port) IN
         /\ type # None
         /\ connecting' = [type |-> type, from |-> from, node |-> n, port |-> port]
    /\ UNCHANGED <<canvas, drag, ghost, preview, draft, provider, saveOpen>>

Wire(n, port) ==
    IF connecting.from = "source"
    THEN [src |-> connecting.node, out |-> connecting.port, tgt |-> n, in |-> port]
    ELSE [src |-> n, out |-> port, tgt |-> connecting.node, in |-> connecting.port]

\* The ports of a node that take the other end of the wire in hand.
OtherSide == IF connecting.from = "source" THEN "ins" ELSE "outs"
PortRows(n) == Ports[nodes[n].type][OtherSide]

\* It is dropped on a port (addEdge never draws the same wire twice) ...
Connect(n, port) ==
    /\ connecting # None /\ n \in Canvas
    /\ port \in {p[1] : p \in PortRows(n)}
    /\ LET e == Wire(n, port) IN
         /\ edges' = IF Valid(e) THEN edges \cup {e} ELSE edges
    /\ Edited
    /\ connecting' = None
    /\ UNCHANGED <<nodes, drag, ghost, preview, draft, provider, saveOpen>>

\* ... or on nothing.
ConnectEnd ==
    /\ connecting # None
    /\ connecting' = None
    /\ UNCHANGED <<canvas, drag, ghost, preview, draft, provider, saveOpen>>

\* Backspace removes what is selected, whatever lies over the canvas; wires go
\* with their nodes, and the drawer of a removed node closes.
DeleteNode(n) ==
    /\ n \in Canvas /\ Edited
    /\ nodes' = [m \in Canvas \ {n} |-> nodes[m]]
    /\ edges' = {e \in edges : e.src # n /\ e.tgt # n}
    /\ draft' = IF draft # None /\ draft.node = n THEN None ELSE draft
    /\ UNCHANGED <<connecting, drag, ghost, preview, provider, saveOpen>>

DeleteEdge(e) ==
    /\ edges' = edges \ {e} /\ Edited
    /\ UNCHANGED <<nodes, connecting, drag, ghost, preview, draft, provider, saveOpen>>

-------------------------------------------------------------------------------
\* canAddNode.
CanAddNode(t) == t # "reranker" \/ provider

\* The library: an entry is previewed or picked up.
PreviewNode(t) ==
    /\ Uncovered /\ drag = None /\ connecting = None
    /\ CanAddNode(t)
    /\ preview' = t
    /\ UNCHANGED <<canvas, connecting, drag, ghost, draft, provider, saveOpen>>

DragStart(t) ==
    /\ Uncovered /\ drag = None /\ connecting = None
    /\ CanAddNode(t)
    /\ drag' = t
    /\ UNCHANGED <<canvas, connecting, ghost, preview, draft, provider, saveOpen>>

\* Over the canvas the browser may or may not let the handler read the entry.
DragOver(readable) ==
    /\ drag # None
    /\ ghost' = IF readable /\ CanAddNode(drag) THEN drag ELSE None
    /\ UNCHANGED <<canvas, connecting, drag, preview, draft, provider, saveOpen>>

DragLeave ==
    /\ drag # None
    /\ ghost' = None /\ drag' \in {drag, None}
    /\ UNCHANGED <<canvas, connecting, preview, draft, provider, saveOpen>>

\* addNode: the new node is selected, so the drawer opens on it.
AddNode(t, n) ==
    /\ n \in Ids \ Canvas /\ 1..(n - 1) \subseteq Canvas /\ Edited
    /\ nodes' = nodes @@ (n :> SpecToNodeData(t))
    /\ draft' = [node |-> n, config |-> NoConfig]
    /\ preview' = None /\ ghost' = None

Drop(n) ==
    /\ drag # None
    /\ drag' = None
    /\ \/ CanAddNode(drag) /\ AddNode(drag, n)
       \/ /\ ~CanAddNode(drag)
          /\ ghost' = None
          /\ UNCHANGED <<nodes, edits, draft, preview>>
    /\ UNCHANGED <<edges, connecting, provider, saveOpen>>

AddToCanvas(n) ==
    /\ preview # None /\ CanAddNode(preview)
    /\ AddNode(preview, n)
    /\ UNCHANGED <<edges, connecting, drag, provider, saveOpen>>

ClosePreview ==
    /\ preview # None
    /\ preview' = None
    /\ UNCHANGED <<canvas, connecting, drag, ghost, draft, provider, saveOpen>>

\* The reranking catalog is polled: its provider comes and goes.
ProviderChanges ==
    /\ provider' = ~provider
    /\ UNCHANGED <<canvas, connecting, drag, ghost, preview, draft, saveOpen>>

-------------------------------------------------------------------------------
OpenNode(n) ==
    /\ Uncovered /\ drag = None /\ connecting = None /\ n \in Canvas
    /\ draft' = [node |-> n, config |-> nodes[n].config]
    /\ UNCHANGED <<canvas, connecting, drag, ghost, preview, provider, saveOpen>>

DraftType == nodes[draft.node].type

\* The sections the drawer shows for the node.
StoreSection == draft # None /\ DraftType \in VectorTypes
EmbedderSection == draft # None /\ DraftType = "embedder"

\* onConfigChange: every picker hands over the next configuration.
ConfigChange(next) ==
    /\ Edited
    /\ draft' = [draft EXCEPT !.config = next]
    /\ UNCHANGED <<nodes, edges, connecting, drag, ghost, preview, provider, saveOpen>>

NodeBackend == IF draft.config.backend = None THEN DefaultBackend ELSE draft.config.backend
BackendIndexes == {ix \in Indexes : ix.backend = NodeBackend}

\* Mutant: another store keeps the index of the old one.
BackendChangeKeepsIndex(b) ==
    /\ StoreSection /\ b # NodeBackend
    /\ ConfigChange([draft.config EXCEPT !.backend = b])

\* The store of a vector node: its index and dimension go with the old one.
BackendChange(b) ==
    /\ StoreSection /\ b # NodeBackend
    /\ ConfigChange([draft.config EXCEPT !.backend = b, !.index = None, !.dim = None])

\* The index: a listed one brings its dimension.
IndexChange(ix) ==
    /\ StoreSection
    /\ ix = None \/ ix \in BackendIndexes
    /\ ConfigChange(IF ix = None THEN [draft.config EXCEPT !.index = None, !.dim = None]
                    ELSE [draft.config EXCEPT !.index = ix.name, !.dim = ix.dim])

\* The embedder's model, picked or bound to a variable: handleSelectEmbeddingModel
\* and handleModelBinding drop a stored dimension.
BoundToVariable == draft.config.model \in ModelVariables

SelectModel(m) ==
    /\ EmbedderSection /\ ~BoundToVariable
    /\ ConfigChange([draft.config EXCEPT !.model = m, !.dim = None])

ModelBinding(v) ==
    /\ EmbedderSection
    /\ ConfigChange([draft.config EXCEPT !.model = v, !.dim = None])

\* The tokenizer of a chunker; a HuggingFace one needs a model id.
TokenizerChange(t) ==
    /\ draft # None /\ DraftType = "chunker"
    /\ ConfigChange([draft.config EXCEPT !.tokenizer = t, !.hf = IF t = "huggingface" THEN @ ELSE None])

HfModelChange(id) ==
    /\ draft # None /\ DraftType = "chunker" /\ draft.config.tokenizer = "huggingface"
    /\ ConfigChange([draft.config EXCEPT !.hf = id])

\* Save node writes the draft to the canvas; closing drops it.
SaveNode ==
    /\ draft # None /\ draft.config # nodes[draft.node].config
    /\ nodes' = [nodes EXCEPT ![draft.node].config = draft.config]
    /\ draft' = None
    /\ UNCHANGED <<edges, edits, connecting, drag, ghost, preview, provider, saveOpen>>

CloseNode ==
    /\ draft # None
    /\ draft' = None
    /\ UNCHANGED <<canvas, connecting, drag, ghost, preview, provider, saveOpen>>

\* The save dialog opens on a graph without errors.
OpenSave ==
    /\ Uncovered /\ drag = None /\ connecting = None
    /\ NodeErrors = {}
    /\ saveOpen' = TRUE
    /\ UNCHANGED <<canvas, connecting, drag, ghost, preview, draft, provider>>

CloseSave ==
    /\ saveOpen
    /\ saveOpen' = FALSE
    /\ UNCHANGED <<canvas, connecting, drag, ghost, preview, draft, provider>>

PortNames == {"chunks", "embedded", "query_embedding", "indexed", "results"}

Next ==
    \/ \E n \in Ids, port \in PortNames :
         \/ \E from \in {"source", "target"} : ConnectStart(n, from, port)
         \/ Connect(n, port)
    \/ ConnectEnd
    \/ \E n \in Ids : DeleteNode(n) \/ Drop(n) \/ AddToCanvas(n) \/ OpenNode(n)
    \/ \E e \in edges : DeleteEdge(e)
    \/ \E t \in NodeTypes \ {"chunker"} : PreviewNode(t) \/ DragStart(t)
    \/ \E readable \in BOOLEAN : DragOver(readable)
    \/ DragLeave \/ ClosePreview \/ ProviderChanges
    \/ \E b \in Backends : BackendChange(b)
    \/ \E ix \in Indexes \cup {None} : IndexChange(ix)
    \/ \E m \in Models : SelectModel(m)
    \/ \E v \in ModelVariables \cup {None} : ModelBinding(v)
    \/ \E t \in {"wordpiece", "huggingface"} : TokenizerChange(t)
    \/ \E id \in {"owner/model", None} : HfModelChange(id)
    \/ SaveNode \/ CloseNode \/ OpenSave \/ CloseSave

Spec == Init /\ [][Next]_vars

-------------------------------------------------------------------------------
Config == [backend : Backends \cup {None}, index : {ix.name : ix \in Indexes} \cup {None},
           dim : {ix.dim : ix \in Indexes} \cup {None}, model : Models \cup ModelVariables \cup {None},
           tokenizer : {"wordpiece", "huggingface", None}, hf : {"owner/model", None}]

\* The canvas holds well-typed nodes, and the drawer's draft is of one of them.
TypeOK ==
    /\ Canvas \subseteq Ids
    /\ \A n \in Canvas : nodes[n] \in [type : NodeTypes, config : Config]
    /\ draft # None => draft.node \in Canvas /\ draft.config \in Config
    /\ ghost \in NodeTypes \cup {None} /\ drag \in NodeTypes \cup {None} /\ preview \in NodeTypes \cup {None}
    /\ edits \in 0..MaxEdits

\* Every wire joins two different nodes on the canvas through ports of one data
\* type, and a port that is not variadic has at most one, whatever is drawn from
\* either end and removed in between.
EdgesTyped ==
    \A e \in edges :
        /\ {e.src, e.tgt} \subseteq Canvas /\ e.src # e.tgt
        /\ \E type \in {p[2] : p \in Ports[nodes[e.src].type].outs} :
             /\ <<e.out, type>> \in Ports[nodes[e.src].type].outs
             /\ <<e.in, type>> \in Ports[nodes[e.tgt].type].ins
        /\ AcceptsMany(nodes[e.tgt].type, e.in)
             \/ Cardinality({f \in edges : f.tgt = e.tgt /\ f.in = e.in}) = 1

\* A configuration, on the canvas or drafted, is coherent: a vector node's
\* dimension is that of its index in its own store, an embedder keeps a dimension
\* only with a model that takes one, and only a HuggingFace tokenizer has a model.
Coherent(type, c) ==
    /\ type \in VectorTypes =>
         IF c.index = None THEN c.dim = None
         ELSE [backend |-> IF c.backend = None THEN DefaultBackend ELSE c.backend,
               name |-> c.index, dim |-> c.dim] \in Indexes
    /\ type = "embedder" /\ c.dim # None => c.model \in Resizable
    /\ c.hf # None => c.tokenizer = "huggingface"

ConfigCoherent ==
    /\ \A n \in Canvas : Coherent(nodes[n].type, nodes[n].config)
    /\ draft # None => Coherent(DraftType, draft.config)

\* PortRow: the handles that swell while a wire is dragged.
Compatible(n, side, p) ==
    /\ connecting.node # n
    /\ side = OtherSide
    /\ connecting.type = p[2]

\* PipelineNode: the nodes that fade as a whole.
DimWholeNode(n) ==
    /\ connecting.node # n
    /\ ~\E p \in PortRows(n) : p[2] = connecting.type

\* Wherever the wire in hand would be accepted, the port is highlighted and its
\* node is not dimmed.
AcceptedIsHighlighted ==
    connecting # None =>
        \A n \in Canvas :
            \A p \in PortRows(n) :
                Valid(Wire(n, p[1])) => Compatible(n, OtherSide, p) /\ ~DimWholeNode(n)

\* While the save dialog is open, the graph behind it can be saved: no embedder
\* feeds an index of another dimension, every store node has an index and every
\* HuggingFace tokenizer a model, even as nodes are deleted under the dialog.
SaveableBehindDialog ==
    saveOpen =>
        /\ \A e \in edges :
             nodes[e.src].type = "embedder" /\ nodes[e.tgt].type = "indexer" =>
               \/ None \in {nodes[e.src].config.dim, nodes[e.tgt].config.dim}
               \/ nodes[e.src].config.dim = nodes[e.tgt].config.dim
        /\ \A n \in Canvas :
             /\ nodes[n].type \in VectorTypes => nodes[n].config.index # None
             /\ nodes[n].config.tokenizer = "huggingface" => nodes[n].config.hf # None

\* A reranker joins the canvas only while a reranking provider is connected,
\* whichever way it was picked up and whenever the provider went away.
RerankerGatedStep ==
    \A n \in DOMAIN nodes' : n \notin DOMAIN nodes /\ nodes'[n].type = "reranker" => provider
RerankerGated == [][RerankerGatedStep]_vars
==================================================================================
