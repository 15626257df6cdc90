------------------------------ MODULE FilesPage ------------------------------
(***************************************************************************)
(* The files of a collection and the page that shows them.                 *)
(*                                                                         *)
(* First the tree as the server keeps it: an adjacency list whose shape    *)
(* (no cycles, no two siblings of a name) only the service layer guards,   *)
(* by reading before it writes (app/services/files.py, file_copy.py,       *)
(* file_deletion.py).  A request reads in one step and commits in a later  *)
(* one; the database serialises neither.                                   *)
(*                                                                         *)
(* Then the page (FilesBrowser and its hooks): one fetched tree polled     *)
(* while a file is processing, a folder named by the URL, a clipboard,     *)
(* drags, dialogs, and the tray of uploads.  Several requests may be out   *)
(* at once; answers come in any order.                                     *)
(***************************************************************************)
EXTENDS Naturals, Sequences, FiniteSets, FiniteSetsExt, SequencesExt, ApiQueries

CONSTANTS
    Start,         \* the tree at first, its nodes numbered from 1
    MaxNodes,      \* bound: nodes are numbered as they are created
    Bases,         \* names a person types
    Overlap        \* whether one request may read between another's read and commit

Root == 0
NoName == [base |-> "", copy |-> 0]
Plain(b) == [base |-> b, copy |-> 0]     \* "report.pdf"; copy n is "report (n).pdf"

VARIABLES
    tree,          \* node -> [parent, kind, name, status]: the rows; status is the document's
    born,          \* nodes created so far
    requests       \* changes asked for: see Asked

server == <<tree, born, requests>>

ServerInit == tree = Start /\ born = Cardinality(DOMAIN Start) /\ requests = {}

--------------------------------------------------------------------------------
(***************************************************************************)
(* Reading the tree.                                                       *)
(***************************************************************************)
Nodes(t) == DOMAIN t
Folders(t) == {n \in Nodes(t) : t[n].kind = "folder"}
Siblings(t, p) == {n \in Nodes(t) : t[n].parent = p}

find_child_by_name(t, p, name) == {n \in Siblings(t, p) : t[n].name = name}

\* The nodes met climbing from n; a cycle never reaches the root.
Climb(t, n) ==
    LET met[k \in 0..Cardinality(Nodes(t))] ==
            IF k = 0 THEN {n}
            ELSE met[k - 1] \cup {t[m].parent : m \in met[k - 1] \cap Nodes(t)}
    IN  met[Cardinality(Nodes(t))]

Subtree(t, n) == {m \in Nodes(t) : n \in Climb(t, m)}

\* Mutant: only the new parent itself is compared with the node that moves.
CycleOneLevel(t, n, p) == p = n

reject_cycle(t, n, p) == n \in Climb(t, p)

dedupe_name(t, p, name) ==
    IF find_child_by_name(t, p, name) = {} THEN name
    ELSE [name EXCEPT !.copy = Min({k \in 1..MaxNodes + 1 :
                                      find_child_by_name(t, p, [name EXCEPT !.copy = k]) = {}})]

require_folder(t, p) == p = Root \/ p \in Folders(t)

--------------------------------------------------------------------------------
(***************************************************************************)
(* What each request checks, and what it then writes to the rows.          *)
(***************************************************************************)
\* Renaming and moving are one update: the parent and the name it asks for.
UpdateAllowed(t, r) ==
    /\ r.node \in Nodes(t) /\ require_folder(t, r.parent)
    /\ r.parent # t[r.node].parent => ~reject_cycle(t, r.node, r.parent)
    /\ <<r.parent, r.name>> # <<t[r.node].parent, t[r.node].name>> =>
          find_child_by_name(t, r.parent, r.name) \subseteq {r.node}

update_node(t, r) ==
    [t EXCEPT ![r.node] = [@ EXCEPT !.parent = r.parent, !.name = r.name]]

CreateAllowed(t, r) == require_folder(t, r.parent) /\ find_child_by_name(t, r.parent, r.name) = {}

Row(p, kind, name, status) == [parent |-> p, kind |-> kind, name |-> name, status |-> status]
Extend(t, new) == [n \in Nodes(t) \cup DOMAIN new |-> IF n \in DOMAIN new THEN new[n] ELSE t[n]]

create_folder(t, r) == Extend(t, born + 1 :> Row(r.parent, "folder", r.name, "none"))

\* A file dropped with its folder: the folder is reused, or created, unless a file has its name.
_ensure_folder(t, r) == find_child_by_name(t, r.parent, r.under)
UploadAllowed(t, r) ==
    /\ require_folder(t, r.parent)
    /\ r.under # NoName => _ensure_folder(t, r) \subseteq Folders(t)

register_upload(t, r) ==
    IF r.under = NoName
    THEN Extend(t, born + 1 :> Row(r.parent, "file", r.name, "pending"))
    ELSE Extend(t, born + 1 :> Row(r.parent, "folder", r.under, "none")
                   @@ born + 2 :> Row(born + 1, "file", r.name, "pending"))

CopyAllowed(t, r) ==
    /\ r.node \in Nodes(t) /\ require_folder(t, r.parent)
    /\ t[r.node].kind = "folder" => ~reject_cycle(t, r.node, r.parent)

_copy_node(t, r) ==
    LET old == SetToSortSeq(Subtree(t, r.node), LAMBDA m, n : m < n)
        clone(n) == born + (CHOOSE i \in DOMAIN old : old[i] = n)
    IN  Extend(t, [c \in born + 1..born + Len(old) |->
            LET n == old[c - born]
            IN  IF n = r.node
                THEN Row(r.parent, t[n].kind, r.name, IF t[n].kind = "file" THEN "pending" ELSE "none")
                ELSE Row(clone(t[n].parent), t[n].kind, t[n].name,
                         IF t[n].kind = "file" THEN "pending" ELSE "none")])

delete(t, r) == [n \in Nodes(t) \ Subtree(t, r.node) |-> t[n]]

RetryAllowed(t, r) == r.node \in Nodes(t) /\ t[r.node].status \notin {"pending", "none"}
ensure_pending_document(t, r) == [t EXCEPT ![r.node].status = "pending"]

--------------------------------------------------------------------------------
(***************************************************************************)
(* A request's life: sent, read (its checks made), committed or refused.   *)
(***************************************************************************)
Allowed(r) ==
    CASE r.op = "update" -> UpdateAllowed(tree, r)
      [] r.op = "folder" -> CreateAllowed(tree, r)
      [] r.op = "upload" -> UploadAllowed(tree, r)
      [] r.op = "copy"   -> CopyAllowed(tree, r)
      [] r.op = "delete" -> r.node \in Nodes(tree)
      [] r.op = "retry"  -> RetryAllowed(tree, r)

Written(r) ==
    CASE r.op = "update" -> update_node(tree, r)
      [] r.op = "folder" -> create_folder(tree, r)
      [] r.op = "upload" -> register_upload(tree, r)
      [] r.op = "copy"   -> _copy_node(tree, r)
      [] r.op = "delete" -> delete(tree, r)
      [] r.op = "retry"  -> ensure_pending_document(tree, r)

\* What the reads settle: the folder an upload lands in, the free name of an upload or a copy.
Resolved(r) ==
    LET t == tree
        p == IF r.op = "upload" /\ r.under # NoName /\ _ensure_folder(t, r) # {}
             THEN CHOOSE n \in _ensure_folder(t, r) : TRUE ELSE r.parent
    IN  CASE r.op = "copy" -> [r EXCEPT !.name = dedupe_name(t, p, t[r.node].name)]
          [] r.op = "upload" /\ (r.under = NoName \/ p # r.parent) ->
                [r EXCEPT !.parent = p, !.under = NoName, !.name = dedupe_name(t, p, r.name)]
          [] OTHER -> r

\* Foreign keys: a row's parent exists, and the row an update writes still does.
Fits(t) == \A n \in Nodes(t) : t[n].parent \in Nodes(t) \cup {Root}

To(r, q, stage) == requests' = (requests \ {r}) \cup {[q EXCEPT !.stage = stage]}

Read(r) ==
    /\ r.stage = "sent" /\ (Overlap \/ ~Allowed(r))
    /\ IF Allowed(r) THEN To(r, Resolved(r), "read") ELSE To(r, r, "refused")
    /\ UNCHANGED <<tree, born>>

Newborn(t) == Cardinality(Nodes(t) \ Nodes(tree))

Write(r, q) ==
    IF (q.op \in {"folder", "upload"} \/ q.node \in Nodes(tree)) /\ Fits(Written(q))
    THEN /\ born + Newborn(Written(q)) <= MaxNodes
         /\ To(r, q, "done") /\ tree' = Written(q) /\ born' = born + Newborn(Written(q))
    ELSE To(r, q, "refused") /\ UNCHANGED <<tree, born>>

\* Unless requests overlap, one reads and commits in a single step.
Commit(r) ==
    \/ r.stage = "read" /\ Write(r, r)
    \/ ~Overlap /\ r.stage = "sent" /\ Allowed(r) /\ Write(r, Resolved(r))

\* The ingestion worker settles a pending document, well or badly.
Ingested ==
    /\ \E n \in Nodes(tree), s \in {"ready", "failed"} :
          tree[n].status = "pending" /\ tree' = [tree EXCEPT ![n].status = s]
    /\ UNCHANGED <<born, requests>>

ServerStep == (\E r \in requests : Read(r) \/ Commit(r)) \/ Ingested

--------------------------------------------------------------------------------
CONSTANTS
    MaxFlights, MaxOps,    \* bounds: requests out at once, and in all
    Uses                   \* bound: what a person does in one visit, as sets of features

VARIABLES
    listing,       \* query: the tree as last fetched
    path,          \* names in the URL
    selected,      \* the file previewed, or None
    clipboard,     \* None or [node, mode]: the node as it was when it was held
    newFolder,     \* [open, busy]
    renaming,      \* [node, busy]: node is None while the dialog is closed
    deleting,      \* the browser's confirmation, likewise
    panel,         \* the preview's confirmation: [asking, waits: the request it waits for, or 0]
    tray,          \* uploads: number -> "uploading", "done", "error"
    dragged,       \* the node a drag carries, or None
    ops,           \* requests sent so far
    uses           \* the features this visit uses

page == <<path, selected, clipboard, newFolder, renaming, deleting, panel, dragged>>
vars == <<server, listing, page, tray, ops, uses>>

Init ==
    /\ ServerInit /\ listing = Ask(NewQuery)
    /\ path = << >> /\ selected = None /\ clipboard = None
    /\ newFolder = [open |-> FALSE, busy |-> FALSE]
    /\ renaming = [node |-> None, busy |-> FALSE] /\ deleting = [node |-> None, busy |-> FALSE]
    /\ panel = [asking |-> FALSE, waits |-> 0]
    /\ tray = << >> /\ dragged = None /\ ops = 0 /\ uses \in Uses

--------------------------------------------------------------------------------
(***************************************************************************)
(* What the page derives from the tree it holds.                           *)
(***************************************************************************)
nodes == IF listing.data = None THEN << >> ELSE listing.data
Loaded == listing.data # None

\* The folder the path names; None when a name on the way is gone.
resolveFolder(names) ==
    LET step[k \in 0..Len(names)] ==
            IF k = 0 THEN Root
            ELSE LET at == {n \in find_child_by_name(nodes, step[k - 1], names[k]) : n \in Folders(nodes)}
                 IN  IF step[k - 1] = None \/ at = {} THEN None ELSE CHOOSE n \in at : TRUE
    IN  step[Len(names)]

\* A path that leads nowhere shows the root, under a notice.
folder == IF resolveFolder(path) = None THEN Root ELSE resolveFolder(path)

\* The names from the root to n, as the server annotates the node.
folderHref(n) ==
    LET up[k \in 0..Cardinality(Nodes(nodes))] ==
            IF k = 0 THEN << <<n>>, << >> >>
            ELSE LET m == up[k - 1][1][1]
                 IN  IF m = Root THEN up[k - 1]
                     ELSE << <<nodes[m].parent>>, <<nodes[m].name>> \o up[k - 1][2] >>
    IN  up[Cardinality(Nodes(nodes))][2]

selectedFile == IF selected # None /\ selected \in Nodes(nodes) THEN selected ELSE None

canDropInto(n, p) == nodes[n].parent # p /\ n # p /\ (n \notin Climb(nodes, p))

isProcessing(t) == \E n \in Nodes(t) : t[n].status = "pending"

\* A file's badge; one that was not ingested offers to try again.
badge(n) == CASE nodes[n].kind # "file" -> "none"
              [] nodes[n].status \in {"ready", "pending"} -> nodes[n].status
              [] OTHER -> "retry"

\* What a row or a tile offers: a folder opens and takes drops, a file is previewed.
entries == Siblings(nodes, folder)
activate(n) == IF nodes[n].kind = "folder" THEN "navigate" ELSE "select"
dropTargets == {n \in entries : activate(n) = "navigate"}

\* Nothing is open over the page, and no drag holds the pointer.
NoDialog == dragged = None /\ ~newFolder.open /\ renaming.node = None /\ deleting.node = None /\ ~panel.asking

--------------------------------------------------------------------------------
(***************************************************************************)
(* Sending a change and taking its answer.                                 *)
(***************************************************************************)
Asked(op, n, p, name, under, by) ==
    [op |-> op, node |-> n, parent |-> p, name |-> name, under |-> under, by |-> by,
     id |-> ops + 1, stage |-> "sent"]

Send(op, n, p, name, under, by) ==
    /\ Loaded /\ ops < MaxOps /\ Cardinality(requests) < MaxFlights
    /\ requests' = requests \cup {Asked(op, n, p, name, under, by)} /\ ops' = ops + 1
    /\ UNCHANGED <<tree, born, listing>>

\* Every success refreshes the tree; a failure is told in the page's one notice.
run(r) ==
    listing' = IF r.stage = "done" THEN Ask(listing) ELSE listing

confirmDelete(r) ==
    deleting' = IF r.by # "delete" THEN deleting
                ELSE IF r.stage = "done" THEN [node |-> None, busy |-> FALSE]
                ELSE [deleting EXCEPT !.busy = FALSE]

PanelClosed == [asking |-> FALSE, waits |-> 0]

\* Without a file to show the panel unmounts, its confirmation with it.
Mounted(p) == panel' = IF selectedFile' = None THEN PanelClosed ELSE p

Answered(r) ==
    /\ r.stage \in {"done", "refused"} /\ requests' = requests \ {r} /\ run(r)
    /\ newFolder' = IF r.by # "folder" THEN newFolder
                    ELSE [open |-> newFolder.open /\ r.stage # "done", busy |-> FALSE]
    /\ renaming' = IF r.by # "rename" THEN renaming
                   ELSE [node |-> IF r.stage = "done" THEN None ELSE renaming.node, busy |-> FALSE]
    /\ confirmDelete(r)
    /\ selected' = IF r.op = "delete" /\ r.stage = "done" /\ (r.by = "panel" \/ selected = r.node)
                   THEN None ELSE selected
    /\ Mounted(IF panel.waits = r.id THEN PanelClosed ELSE panel)
    /\ clipboard' = IF r.by = "delete" /\ r.stage = "done" /\ clipboard # None /\ clipboard.node = r.node
                    THEN None ELSE clipboard
    /\ tray' = IF r.by = "upload" /\ r.id \in DOMAIN tray
               THEN [tray EXCEPT ![r.id] = IF r.stage = "done" THEN "done" ELSE "error"] ELSE tray
    /\ UNCHANGED <<tree, born, path, dragged, ops>>

--------------------------------------------------------------------------------
(***************************************************************************)
(* Browsing.                                                               *)
(***************************************************************************)
Fetch ==
    /\ listing.loading
    /\ \/ Unserved(listing) /\ listing' = Serve(listing, tree)
       \/ listing.served /\ listing' = Land(listing)
       \/ listing' = Fault(listing)
    /\ UNCHANGED selected /\ Mounted(panel)
    /\ UNCHANGED <<server, path, clipboard, newFolder, renaming, deleting, dragged, tray, ops>>

\* The poll asks again every two seconds while a file shown is processing.
Poll ==
    /\ ~listing.loading /\ isProcessing(nodes) /\ listing' = Ask(listing)
    /\ UNCHANGED <<server, page, tray, ops>>

Select(n) == selected' = n

navigate(p) ==
    /\ NoDialog /\ Loaded /\ p \in Folders(nodes) \cup {Root} /\ p # folder
    /\ path' = (IF p = Root THEN << >> ELSE folderHref(p)) /\ Select(None) /\ Mounted(panel)
    /\ UNCHANGED <<server, listing, clipboard, newFolder, renaming, deleting, tray, dragged, ops>>

openNode ==
    /\ "dialogs" \in uses /\ NoDialog
    /\ \E n \in entries : activate(n) = "select" /\ Select(n)
    /\ UNCHANGED panel
    /\ UNCHANGED <<server, listing, path, clipboard, newFolder, renaming, deleting, tray, dragged, ops>>

onClosePreview ==
    /\ NoDialog /\ selectedFile # None /\ Select(None) /\ Mounted(panel)
    /\ UNCHANGED <<server, listing, path, clipboard, newFolder, renaming, deleting, tray, dragged, ops>>

\* The clipboard holds the node; it is not read again from later trees.
hold(mode) ==
    /\ "clipboard" \in uses /\ ops < MaxOps /\ NoDialog
    /\ \E n \in entries : clipboard' = [node |-> n, mode |-> mode]
    /\ UNCHANGED <<server, listing, path, selected, newFolder, renaming, deleting, panel, tray, dragged, ops>>

\* The menu over the folder shown, or a folder in it, pastes there: a copy
\* always, a cut where it would move.  The server decides again.
menuFolders == {folder} \cup dropTargets
canPaste(p) ==
    clipboard.mode = "copy" \/ (clipboard.node \in Nodes(nodes) /\ canDropInto(clipboard.node, p))

paste ==
    /\ NoDialog /\ clipboard # None
    /\ \E p \in menuFolders :
         /\ canPaste(p)
         /\ IF clipboard.mode = "copy"
            THEN Send("copy", clipboard.node, p, NoName, NoName, "menu") /\ UNCHANGED clipboard
            ELSE Send("update", clipboard.node, p, nodes[clipboard.node].name, NoName, "menu")
                 /\ clipboard' = None
    /\ UNCHANGED <<path, selected, newFolder, renaming, deleting, panel, tray, dragged>>

\* A drag of a node, dropped on a folder, a crumb, or nowhere.
onDragStart ==
    /\ "drags" \in uses /\ NoDialog /\ \E n \in entries : dragged' = n
    /\ UNCHANGED <<server, listing, path, selected, clipboard, newFolder, renaming, deleting, panel, tray, ops>>

onDrop ==
    /\ dragged # None /\ dragged' = None
    /\ \/ UNCHANGED <<server, listing, ops>>
       \/ \E p \in {Root} \cup (Climb(nodes, folder) \cap Nodes(nodes))
                          \cup dropTargets :
            /\ dragged \in Nodes(nodes) /\ canDropInto(dragged, p)
            /\ Send("update", dragged, p, nodes[dragged].name, NoName, "menu")
    /\ UNCHANGED <<path, selected, clipboard, newFolder, renaming, deleting, panel, tray>>

--------------------------------------------------------------------------------
(***************************************************************************)
(* Dialogs.  Escape closes one that waits for its answer; opened again it  *)
(* still waits, and the answer closes it.                                  *)
(***************************************************************************)
OpenDialog ==
    /\ "dialogs" \in uses /\ NoDialog /\ Loaded
    /\ \/ newFolder' = [newFolder EXCEPT !.open = TRUE] /\ UNCHANGED <<renaming, deleting, panel>>
       \/ \E n \in entries : renaming' = [renaming EXCEPT !.node = n]
          /\ UNCHANGED <<newFolder, deleting, panel>>
       \/ \E n \in entries : deleting' = [deleting EXCEPT !.node = n]
          /\ UNCHANGED <<newFolder, renaming, panel>>
       \/ selectedFile # None /\ panel' = [panel EXCEPT !.asking = TRUE]
          /\ UNCHANGED <<newFolder, renaming, deleting>>
    /\ UNCHANGED <<server, listing, path, selected, clipboard, tray, dragged, ops>>

CloseDialog ==
    /\ ~NoDialog /\ dragged = None
    /\ newFolder' = [newFolder EXCEPT !.open = FALSE] /\ renaming' = [renaming EXCEPT !.node = None]
    /\ deleting' = [deleting EXCEPT !.node = None] /\ panel' = [panel EXCEPT !.asking = FALSE]
    /\ UNCHANGED <<server, listing, path, selected, clipboard, tray, dragged, ops>>

createFolder ==
    /\ newFolder.open /\ ~newFolder.busy /\ newFolder' = [newFolder EXCEPT !.busy = TRUE]
    /\ \E b \in Bases : Send("folder", Root, folder, Plain(b), NoName, "folder")
    /\ UNCHANGED <<path, selected, clipboard, renaming, deleting, panel, tray, dragged>>

\* The dialog still holds a node that the tree has lost or moved meanwhile.
renameNode ==
    /\ renaming.node # None /\ ~renaming.busy /\ renaming' = [renaming EXCEPT !.busy = TRUE]
    /\ renaming.node \in Nodes(nodes)
    /\ \E b \in Bases : Send("update", renaming.node, nodes[renaming.node].parent, Plain(b), NoName, "rename")
    /\ UNCHANGED <<path, selected, clipboard, newFolder, deleting, panel, tray, dragged>>

deleteNode ==
    /\ \/ deleting.node # None /\ ~deleting.busy /\ deleting' = [deleting EXCEPT !.busy = TRUE]
          /\ Send("delete", deleting.node, Root, NoName, NoName, "delete") /\ UNCHANGED panel
       \/ panel.asking /\ selectedFile # None /\ panel.waits = 0 /\ panel' = [panel EXCEPT !.waits = ops + 1]
          /\ Send("delete", selected, Root, NoName, NoName, "panel") /\ UNCHANGED deleting
    /\ UNCHANGED <<path, selected, clipboard, newFolder, renaming, tray, dragged>>

\* The badge, and the panel, offer to ingest a file that was not.
retryIngestion ==
    /\ NoDialog /\ \E n \in entries : badge(n) = "retry"
                      /\ Send("retry", n, Root, NoName, NoName, "menu")
    /\ UNCHANGED <<page, tray>>

--------------------------------------------------------------------------------
(***************************************************************************)
(* Uploads.                                                                *)
(***************************************************************************)
Running == {k \in DOMAIN tray : tray[k] = "uploading"}

\* Rows that have ended leave the tray as the next upload enters it.
enqueued(k) == [i \in Running \cup {k} |-> "uploading"]

enqueue ==
    /\ "uploads" \in uses /\ NoDialog
    /\ \E b \in Bases, u \in {Plain(c) : c \in Bases} \cup {NoName} :
          Send("upload", Root, folder, Plain(b), u, "upload")
    /\ tray' = enqueued(ops + 1)
    /\ UNCHANGED page

dismiss ==
    /\ DOMAIN tray # Running /\ tray' = [k \in Running |-> "uploading"]
    /\ UNCHANGED <<server, listing, page, ops>>

--------------------------------------------------------------------------------
Step ==
    \/ ServerStep /\ UNCHANGED <<listing, page, tray, ops>>
    \/ \E r \in requests : Answered(r)
    \/ Fetch \/ Poll \/ \E p \in 0..MaxNodes : navigate(p)
    \/ openNode \/ onClosePreview \/ \E m \in {"copy", "cut"} : hold(m)
    \/ paste \/ onDragStart \/ onDrop
    \/ OpenDialog \/ CloseDialog \/ createFolder \/ renameNode \/ deleteNode \/ retryIngestion
    \/ enqueue \/ dismiss

Next == Step /\ UNCHANGED uses

Spec == Init /\ [][Next]_vars

--------------------------------------------------------------------------------
(***************************************************************************)
(* Properties.                                                             *)
(***************************************************************************)
\* Types: requests name nodes that exist or existed, rows have a parent, the
\* clipboard holds a node of some tree, the preview's confirmation has a
\* file to ask about.
TypeOK ==
    /\ Nodes(tree) \subseteq 1..MaxNodes /\ born \in 0..MaxNodes /\ Fits(tree)
    /\ \A n \in Nodes(tree) : /\ tree[n].kind \in {"file", "folder"}
                              /\ tree[n].parent \in Folders(tree) \cup {Root}
                              /\ tree[n].status \in {"none", "pending", "ready", "failed"}
    /\ Cardinality(requests) <= MaxFlights
    /\ \A r \in requests : r.stage \in {"sent", "read", "done", "refused"} /\ r.node \in 0..born
    /\ clipboard # None => clipboard.mode \in {"copy", "cut"} /\ clipboard.node \in 1..born
    /\ panel # PanelClosed => selectedFile # None
    /\ \A k \in DOMAIN tray : k \in 1..ops /\ tray[k] \in {"uploading", "done", "error"}

\* With nothing out and nothing processing, the page shows the server's
\* tree: each success asks for it again, superseding a read that may have
\* come before the change, and documents that a worker settles are polled
\* (useFileActions.run, useFileTree).
SettledTreeIsTrue ==
    requests = {} /\ Loaded /\ Settled(listing) /\ ~isProcessing(nodes) => nodes = tree

\* Opening a folder shows that folder: the names of its path lead back to
\* it (folderHref, resolveFolder), which needs the server's sibling names
\* to differ.
PathsLeadBack == Loaded => \A n \in Folders(nodes) : resolveFolder(folderHref(n)) = n

\* A row of the tray says "uploading" exactly while its upload is out,
\* whatever was dismissed or enqueued since (useFileUploads).
TrayIsTrue == Running = {r.id : r \in {q \in requests : q.by = "upload"}}

\* A dialog waits only for a request that is out, whether it was answered
\* or refused, so it can be used again (NewFolderDialog, RenameDialog,
\* confirmDelete).
BusyHasRequest ==
    /\ newFolder.busy => \E r \in requests : r.by = "folder"
    /\ renaming.busy => \E r \in requests : r.by = "rename"
    /\ deleting.busy => \E r \in requests : r.by = "delete"
    /\ panel.waits # 0 => \E r \in requests : r.id = panel.waits

\* The tree stays a tree: from every node the root can be reached.  Each
\* move refuses the node's own subtree, by climbing from the new parent
\* through rows it reads as it goes (reject_cycle).
Acyclic == \A n \in Nodes(tree) : Root \in Climb(tree, n)

\* No two siblings have one name: creating, renaming and moving refuse a
\* taken name, uploads and copies choose a free one.  No database
\* constraint says so.
SiblingNames ==
    \A m, n \in Nodes(tree) : tree[m].parent = tree[n].parent /\ tree[m].name = tree[n].name => m = n
================================================================================
