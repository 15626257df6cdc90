---------------------------- MODULE PipelineBuilder ----------------------------
(***************************************************************************)
(* The pipeline editor (PipelineBuilder.tsx and its hooks) against the     *)
(* stored revisions it edits (services/pipelines.py).  A definition is     *)
(* abstracted to the pipeline its nodes belong to, its material content    *)
(* and its layout.  Explicit saves pass the tokenizer consent and the      *)
(* validation before they are sent; dragged positions are saved silently   *)
(* after a pause, one request at a time; the token's rotation reloads the  *)
(* catalog behind the user's back.                                         *)
(***************************************************************************)
EXTENDS Naturals, Sequences, FiniteSets

CONSTANTS
    Pipelines,    \* pipeline ids
    InUse,        \* the ones a collection binds
    None,         \* no pipeline
    Overlap,      \* whether two requests of the page may be in flight together
    MaxEdits, MaxDrags, MaxRows   \* bounds: edits, drags, revisions of a pipeline

PipelinesAssumption == InUse \subseteq Pipelines /\ None \notin Pipelines

VARIABLES
    rows, current,     \* stored revisions in insertion order; pipeline.current_version
    list,              \* the client's pipelines: id -> snapshot, None when absent
    selected,          \* selectedPipeline, a snapshot or None
    canvas,            \* nodes, edges and variables on the canvas, a definition or None
    modal, stash,      \* the open dialog; the action behind the discard prompt
    writes,            \* this page's write requests
    layoutTimer, pendingLayout,
    load,              \* the catalog read in flight: [st, snaps]
    edits, drags       \* counters naming contents and layouts

server == <<rows, current>>
client == <<list, selected, canvas, modal, stash>>
vars == <<server, client, writes, layoutTimer, pendingLayout, load, edits, drags>>

Definition == [own : Pipelines, mat : 0 .. MaxEdits, pos : 0 .. MaxDrags]
NoLoad == [st |-> "idle", snaps |-> {}]

-------------------------------------------------------------------------------
\* diff_definitions and its client mirror: only what is not layout is material.
Material(a, b) == a.own # b.own \/ a.mat # b.mat

\* get_by_version takes the first row of that number, in no stated order.
CurrentRows(p) == {i \in DOMAIN rows[p] : rows[p][i].ver = current[p]}

Snapshot(p, i) == [id |-> p, ver |-> current[p], def |-> rows[p][i].def]

\* Mutant: a snapshot is the same only when its stored content is.
SameObject(s, t) == s # None /\ s = t

\* What the page shows for a snapshot: a changed pipeline or revision rebuilds
\* the canvas and closes the node editor, a silent layout answer does neither.
Same(s, t) == s # None /\ t # None /\ s.id = t.id /\ s.ver = t.ver

Show(s) ==
    /\ selected' = s
    /\ canvas' = IF Same(selected, s) THEN canvas ELSE IF s = None THEN None ELSE s.def

ClosesEditor(s) == ~Same(selected, s) /\ modal \in {"drawer", "draft", "draftPrompt"}

Dirty == selected # None /\ Material(selected.def, canvas)

Saving == \E w \in writes : w.op \in {"save", "activate", "delete"} /\ w.st \in {"sent", "served", "failed"}
Validating == \E w \in writes : w.op = "save" /\ w.st \in {"validating", "sent", "served", "failed"}
LayoutBusy == \E w \in writes : w.op = "layout"

\* In the serial instance nothing is sent while another request is under way.
MaySend == Overlap \/ (writes = {} /\ load = NoLoad)

Write(op, p, d, v, st) == [op |-> op, id |-> p, def |-> d, ver |-> v, st |-> st, snap |-> None]

Listed == {p \in Pipelines : list[p] # None}

Init ==
    /\ \E stored \in SUBSET Pipelines :
         /\ rows = [p \in Pipelines |-> IF p \in stored THEN <<[ver |-> 1, def |-> [own |-> p, mat |-> 0, pos |-> 0]]>> ELSE <<>>]
         /\ current = [p \in Pipelines |-> IF p \in stored THEN 1 ELSE 0]
    /\ list = [p \in Pipelines |-> None] /\ selected = None /\ canvas = None
    /\ modal = "loading" /\ stash = None /\ writes = {}
    /\ layoutTimer = FALSE /\ pendingLayout = None
    /\ load = [st |-> "sent", snaps |-> {}] /\ edits = 0 /\ drags = 0

-------------------------------------------------------------------------------
\* The catalog read, on mount and on every rotation of the token.
TokenRotates ==
    /\ modal # "loading" /\ load = NoLoad /\ MaySend
    /\ load' = [st |-> "sent", snaps |-> {}]
    /\ UNCHANGED <<server, client, writes, layoutTimer, pendingLayout, edits, drags>>

LoadServed ==
    /\ load.st = "sent"
    /\ \E pick \in [Pipelines -> 0 .. MaxRows] :
         /\ \A p \in Pipelines : IF rows[p] = <<>> THEN pick[p] = 0 ELSE pick[p] \in CurrentRows(p)
         /\ load' = [st |-> "served", snaps |-> {Snapshot(p, pick[p]) : p \in {q \in Pipelines : rows[q] # <<>>}}]
    /\ UNCHANGED <<server, client, writes, layoutTimer, pendingLayout, edits, drags>>

\* The selection is kept when it is still listed, and as the same object when
\* its content is the same; a first load of an empty catalog opens the wizard.
LoadAnswers ==
    /\ load.st = "served" /\ load' = NoLoad
    /\ LET snaps == load.snaps
           match == {s \in snaps : selected # None /\ s.id = selected.id}
       IN /\ list' = [p \in Pipelines |-> IF \E s \in snaps : s.id = p THEN CHOOSE s \in snaps : s.id = p ELSE None]
          /\ \E s \in IF match # {} THEN match ELSE IF snaps # {} THEN snaps ELSE {None} :
               /\ Show(s)
               /\ modal' = IF modal = "loading" THEN IF snaps = {} THEN "wizard" ELSE "none"
                           ELSE IF ClosesEditor(s) THEN "none" ELSE modal
    /\ UNCHANGED <<server, stash, writes, layoutTimer, pendingLayout, edits, drags>>

LoadFails ==
    /\ load.st = "sent" /\ load' = NoLoad
    /\ modal' = IF modal = "loading" THEN "none" ELSE modal
    /\ UNCHANGED <<server, list, selected, canvas, stash, writes, layoutTimer, pendingLayout, edits, drags>>

-------------------------------------------------------------------------------
\* The node editor: a draft that "Save node" applies to the canvas.
OpenDrawer ==
    /\ modal = "none" /\ canvas # None /\ modal' = "drawer"
    /\ UNCHANGED <<server, list, selected, canvas, stash, writes, layoutTimer, pendingLayout, load, edits, drags>>

EditDraft ==
    /\ modal = "drawer" /\ modal' = "draft"
    /\ UNCHANGED <<server, list, selected, canvas, stash, writes, layoutTimer, pendingLayout, load, edits, drags>>

\* A node with an unavailable model cannot be saved; the draft then stays.
SaveNode ==
    /\ modal = "draft" /\ edits < MaxEdits
    /\ edits' = edits + 1 /\ canvas' = [canvas EXCEPT !.mat = edits + 1] /\ modal' = "none"
    /\ UNCHANGED <<server, list, selected, stash, writes, layoutTimer, pendingLayout, load, drags>>

\* Closing a changed draft asks first.
CloseDrawer ==
    /\ modal \in {"drawer", "draft", "draftPrompt"}
    /\ modal' \in CASE modal = "drawer" -> {"none"}
                    [] modal = "draft" -> {"draftPrompt"}
                    [] modal = "draftPrompt" -> {"none", "draft"}
    /\ UNCHANGED <<server, list, selected, canvas, stash, writes, layoutTimer, pendingLayout, load, edits, drags>>

\* A node dropped or added, an edge connected, a variable edited.
EditCanvas ==
    /\ modal = "none" /\ canvas # None /\ edits < MaxEdits
    /\ edits' = edits + 1 /\ canvas' = [canvas EXCEPT !.mat = edits + 1]
    /\ UNCHANGED <<server, list, selected, modal, stash, writes, layoutTimer, pendingLayout, load, drags>>

-------------------------------------------------------------------------------
\* A drag's end, or "Tidy layout": the position save is scheduled.
DragNode ==
    /\ modal = "none" /\ canvas # None /\ drags < MaxDrags
    /\ drags' = drags + 1 /\ canvas' = [canvas EXCEPT !.pos = drags + 1] /\ layoutTimer' = TRUE
    /\ UNCHANGED <<server, list, selected, modal, stash, writes, pendingLayout, load, edits>>

\* The positions on the canvas are grafted onto the saved definition of
\* whichever pipeline is selected when the timer fires.
Graft(s) == IF s.def.own = canvas.own THEN [s.def EXCEPT !.pos = canvas.pos] ELSE s.def

\* A save under way keeps the new layout for its next round.
LayoutTimerFires ==
    /\ layoutTimer /\ layoutTimer' = FALSE
    /\ IF selected = None \/ Graft(selected) = selected.def THEN UNCHANGED <<writes, pendingLayout>>
       ELSE IF LayoutBusy THEN Overlap /\ pendingLayout' = Graft(selected) /\ UNCHANGED writes
       ELSE /\ MaySend /\ UNCHANGED pendingLayout
            /\ writes' = writes \cup {Write("layout", selected.id, Graft(selected), 0, "sent")}
    /\ UNCHANGED <<server, client, load, edits, drags>>

-------------------------------------------------------------------------------
\* Selecting, behind the discard prompt when there are unsaved edits.
SelectPipeline(p) ==
    /\ modal = "none" /\ p \in Listed /\ selected # None /\ p # selected.id
    /\ (Overlap \/ writes = {})
    /\ IF Dirty THEN stash' = p /\ modal' = "discard" /\ UNCHANGED <<selected, canvas>>
       ELSE Show(list[p]) /\ UNCHANGED <<stash, modal>>
    /\ UNCHANGED <<server, list, writes, layoutTimer, pendingLayout, load, edits, drags>>

\* The stashed action closes over the snapshot that was in the list; a list
\* that has changed since is read again here (the page is modal meanwhile).
ConfirmDiscard ==
    /\ modal = "discard" /\ modal' = "none" /\ stash' = None
    /\ IF list[stash] # None THEN Show(list[stash]) ELSE UNCHANGED <<selected, canvas>>
    /\ UNCHANGED <<server, list, writes, layoutTimer, pendingLayout, load, edits, drags>>

CancelDiscard ==
    /\ modal = "discard" /\ modal' = "none" /\ stash' = None
    /\ UNCHANGED <<server, list, selected, canvas, writes, layoutTimer, pendingLayout, load, edits, drags>>

OpenDialog(d) ==
    /\ modal = "none"
    /\ CASE d = "save" -> selected # None /\ Dirty
         [] d = "history" -> selected # None
         [] d = "wizard" -> TRUE
    /\ modal' = d
    /\ UNCHANGED <<server, list, selected, canvas, stash, writes, layoutTimer, pendingLayout, load, edits, drags>>

CloseDialog ==
    /\ modal \in {"save", "history", "wizard"} /\ modal' = "none"
    /\ UNCHANGED <<server, list, selected, canvas, stash, writes, layoutTimer, pendingLayout, load, edits, drags>>

\* The wizard's create call answered: the new pipeline is listed and selected.
PipelineCreated(p) ==
    /\ modal = "wizard" /\ rows[p] = <<>> /\ current[p] = 0 /\ MaySend
    /\ rows' = [rows EXCEPT ![p] = <<[ver |-> 1, def |-> [own |-> p, mat |-> 0, pos |-> 0]]>>]
    /\ current' = [current EXCEPT ![p] = 1]
    /\ LET s == [id |-> p, ver |-> 1, def |-> [own |-> p, mat |-> 0, pos |-> 0]] IN
         /\ list' = [list EXCEPT ![p] = s] /\ Show(s)
    /\ modal' = "none"
    /\ UNCHANGED <<stash, writes, layoutTimer, pendingLayout, load, edits, drags>>

-------------------------------------------------------------------------------
\* Saving a version: tokenizers first, then validation, then the request.  The
\* definition and the pipeline are the ones of the click.
ClickSave ==
    /\ modal = "save" /\ selected # None /\ ~Saving /\ ~Validating /\ MaySend
    /\ Cardinality({w \in writes : w.op = "save"}) < 2
    /\ writes' = writes \cup {Write("save", selected.id, canvas, 0, "ensuring")}
    /\ UNCHANGED <<server, client, layoutTimer, pendingLayout, load, edits, drags>>

Advance(w, st) == writes' = (writes \ {w}) \cup {[w EXCEPT !.st = st]}

\* A tokenizer that is not cached asks for consent, once per model; the prompt
\* goes on with the save or drops it.
TokenizerChecked(w) ==
    /\ w \in writes /\ w.st = "ensuring"
    /\ Advance(w, "consent") \/ Advance(w, "validating") \/ writes' = writes \ {w}
    /\ UNCHANGED <<server, client, layoutTimer, pendingLayout, load, edits, drags>>

ConsentAnswered(w) ==
    /\ w \in writes /\ w.st = "consent"
    /\ Advance(w, "ensuring") \/ writes' = writes \ {w}
    /\ UNCHANGED <<server, client, layoutTimer, pendingLayout, load, edits, drags>>

\* An invalid definition ends the save with its issues on screen.
ValidateAnswers(w) ==
    /\ w \in writes /\ w.st = "validating"
    /\ Advance(w, "sent") \/ writes' = writes \ {w}
    /\ UNCHANGED <<server, client, layoutTimer, pendingLayout, load, edits, drags>>

ActivateVersion(v) ==
    /\ modal = "history" /\ selected # None /\ ~Saving /\ MaySend /\ v # selected.ver
    /\ \E i \in DOMAIN rows[selected.id] : rows[selected.id][i].ver = v
    /\ writes' = writes \cup {Write("activate", selected.id, None, v, "sent")}
    /\ UNCHANGED <<server, client, layoutTimer, pendingLayout, load, edits, drags>>

\* Confirmed in the dialog; a pipeline a collection uses is refused.
DeletePipeline(p) ==
    /\ modal = "none" /\ p \in Listed \ InUse /\ ~Saving /\ MaySend
    /\ writes' = writes \cup {[Write("delete", p, None, 0, "sent") EXCEPT !.snap = list]}
    /\ UNCHANGED <<server, client, layoutTimer, pendingLayout, load, edits, drags>>

-------------------------------------------------------------------------------
\* The routes.  update_pipeline refuses a definition equal to the current one,
\* changes the current revision in place when only the layout differs, and
\* otherwise stores it under the number after the current one.
Stored(p, i, d) ==
    IF Material(rows[p][i].def, d)
    THEN /\ Len(rows[p]) < MaxRows
         /\ rows' = [rows EXCEPT ![p] = Append(@, [ver |-> current[p] + 1, def |-> d])]
         /\ current' = [current EXCEPT ![p] = @ + 1]
    ELSE rows' = [rows EXCEPT ![p][i].def = d] /\ UNCHANGED current

Served(w, snap) == writes' = (writes \ {w}) \cup {[w EXCEPT !.st = "served", !.snap = snap]}

UpdateServed(w) ==
    /\ w \in writes /\ w.op \in {"save", "layout"} /\ w.st = "sent" /\ rows[w.id] # <<>>
    /\ \E i \in CurrentRows(w.id) :
         /\ rows[w.id][i].def # w.def /\ Stored(w.id, i, w.def)
         /\ \E j \in CurrentRows(w.id)' : Served(w, Snapshot(w.id, j)')
    /\ UNCHANGED <<client, layoutTimer, pendingLayout, load, edits, drags>>

ActivateServed(w) ==
    /\ w \in writes /\ w.op = "activate" /\ w.st = "sent" /\ rows[w.id] # <<>>
    /\ current' = [current EXCEPT ![w.id] = w.ver] /\ UNCHANGED rows
    /\ \E j \in CurrentRows(w.id)' : Served(w, Snapshot(w.id, j)')
    /\ UNCHANGED <<client, layoutTimer, pendingLayout, load, edits, drags>>

DeleteServed(w) ==
    /\ w \in writes /\ w.op = "delete" /\ w.st = "sent" /\ rows[w.id] # <<>>
    /\ rows' = [rows EXCEPT ![w.id] = <<>>] /\ UNCHANGED current
    /\ Advance(w, "served")
    /\ UNCHANGED <<client, layoutTimer, pendingLayout, load, edits, drags>>

\* Refused by the server (nothing changed, invalid, not found) or lost on the way.
WriteFails(w) ==
    /\ w \in writes /\ w.st = "sent" /\ Advance(w, "failed")
    /\ UNCHANGED <<server, client, layoutTimer, pendingLayout, load, edits, drags>>

-------------------------------------------------------------------------------
\* applyUpdatedPipeline replaces the pipeline where it is listed and selected.
ApplyUpdated(s) ==
    /\ list' = [list EXCEPT ![s.id] = IF @ = None THEN None ELSE s]
    /\ IF selected # None /\ selected.id = s.id THEN Show(s) ELSE UNCHANGED <<selected, canvas>>

WriteAnswers(w) ==
    /\ w \in writes /\ w.op \in {"save", "activate"} /\ w.st = "served"
    /\ writes' = writes \ {w} /\ ApplyUpdated(w.snap)
    /\ modal' = IF (w.op = "save" /\ modal = "save") \/ (selected # None /\ w.snap.id = selected.id /\ ClosesEditor(w.snap))
                THEN "none" ELSE modal
    /\ UNCHANGED <<server, stash, layoutTimer, pendingLayout, load, edits, drags>>

\* The loop's next round sends what was left for it, under the loop's own pipeline.
LayoutAnswers(w) ==
    /\ w \in writes /\ w.op = "layout" /\ w.st = "served"
    /\ ApplyUpdated(w.snap)
    /\ modal' = IF selected # None /\ w.snap.id = selected.id /\ ClosesEditor(w.snap) THEN "none" ELSE modal
    /\ pendingLayout' = None
    /\ writes' = (writes \ {w}) \cup
                 (IF pendingLayout = None THEN {} ELSE {Write("layout", w.id, pendingLayout, 0, "sent")})
    /\ UNCHANGED <<server, stash, layoutTimer, load, edits, drags>>

\* The list becomes the one of the click, without the deleted pipeline.
DeleteAnswers(w) ==
    /\ w \in writes /\ w.op = "delete" /\ w.st = "served"
    /\ writes' = writes \ {w} /\ list' = [w.snap EXCEPT ![w.id] = None]
    /\ IF selected # None /\ selected.id = w.id
       THEN \E s \in LET left == {list'[p] : p \in Pipelines} \ {None} IN IF left = {} THEN {None} ELSE left :
              /\ Show(s) /\ modal' = IF ClosesEditor(s) THEN "none" ELSE modal
       ELSE UNCHANGED <<selected, canvas, modal>>
    /\ UNCHANGED <<server, stash, layoutTimer, pendingLayout, load, edits, drags>>

\* A failed save keeps the dialog and the edits; a failed layout save ends its loop.
FailureAnswers(w) ==
    /\ w \in writes /\ w.st = "failed" /\ writes' = writes \ {w}
    /\ UNCHANGED <<server, client, layoutTimer, pendingLayout, load, edits, drags>>

Background == LoadAnswers \/ \E w \in writes : LayoutAnswers(w)

Next ==
    \/ TokenRotates \/ LoadServed \/ LoadAnswers \/ LoadFails
    \/ OpenDrawer \/ EditDraft \/ SaveNode \/ CloseDrawer \/ EditCanvas \/ DragNode \/ LayoutTimerFires
    \/ ConfirmDiscard \/ CancelDiscard \/ CloseDialog \/ ClickSave
    \/ \E p \in Pipelines : SelectPipeline(p) \/ PipelineCreated(p) \/ DeletePipeline(p)
    \/ \E d \in {"save", "history", "wizard"} : OpenDialog(d)
    \/ \E v \in 1 .. MaxRows : ActivateVersion(v)
    \/ \E w \in writes :
         \/ TokenizerChecked(w) \/ ConsentAnswered(w) \/ ValidateAnswers(w)
         \/ UpdateServed(w) \/ ActivateServed(w) \/ DeleteServed(w) \/ WriteFails(w)
         \/ WriteAnswers(w) \/ LayoutAnswers(w) \/ DeleteAnswers(w) \/ FailureAnswers(w)

Spec == Init /\ [][Next]_vars

-------------------------------------------------------------------------------
(* The page's state has its types, and a canvas goes with a selection.      *)
TypeOK ==
    /\ \A p \in Pipelines : \A i \in DOMAIN rows[p] : rows[p][i].def \in Definition
    /\ (selected = None) <=> (canvas = None)
    /\ canvas # None => canvas \in Definition
    /\ (stash # None) <=> (modal = "discard")
    /\ pendingLayout # None => LayoutBusy

(* No request ends up writing one pipeline's nodes into another: every      *)
(* stored revision holds the nodes of its own pipeline.                     *)
OwnNodes == \A p \in Pipelines : \A i \in DOMAIN rows[p] : rows[p][i].def.own = p

(* Background work is invisible: the answer of a catalog reload or of a     *)
(* silent layout save changes neither the canvas nor the open dialog of an  *)
(* editor that has something selected (use-pipelines.ts, lines 90-94).      *)
BackgroundInvisibleStep ==
    Background /\ selected # None /\ load # [st |-> "sent", snaps |-> {}]
       => canvas' = canvas /\ modal' = modal
BackgroundInvisible == [][BackgroundInvisibleStep]_vars

(* Saving a layout is never a revision: the material content of a stored    *)
(* revision changes and revisions are added by explicit saves alone.        *)
LayoutIsNotARevisionStep ==
    \A w \in writes : w.op = "layout" /\ UpdateServed(w) => Len(rows'[w.id]) = Len(rows[w.id])
LayoutIsNotARevision == [][LayoutIsNotARevisionStep]_vars
================================================================================
