----------------------------- MODULE FilePreview -----------------------------
(***************************************************************************)
(* What the files page shows of one file: the preview of its bytes, read   *)
(* over an authenticated request and released when it leaves the screen    *)
(* (FilePreviewContent, lib/preview.ts), and its chunks in an expanded row *)
(* (FileRowDetails).  The tree behind both is refetched while they show.   *)
(***************************************************************************)
EXTENDS ApiQueries, Naturals, FiniteSets, Sequences

CONSTANTS
    Files,         \* id -> [type, ext, large]: content type, extension, over the text limit
    MaxVersions    \* bound: times a file's row or its ingestion changes

VARIABLES
    version,       \* server and tree: file -> its updated_at
    chunked,       \* file -> [ready, at]: its ingestion and that row's updated_at
    shown,         \* the file previewed, or None
    key,           \* <<id, updated_at>> the preview is mounted for
    loaded,        \* what it shows: [state, of]
    fetches,       \* reads of bytes: [of, cancelled, stage]
    urls,          \* object URLs not yet released, by the key they were made for
    expanded,      \* the file whose row is expanded, or None
    chunks         \* query: the expanded row's chunks

vars == <<version, chunked, shown, key, loaded, fetches, urls, expanded, chunks>>
preview == <<shown, key, loaded, fetches, urls>>
row == <<expanded, chunks>>

Ids == DOMAIN Files
Loading == [state |-> "loading", of |-> None]

Init ==
    /\ version = [f \in Ids |-> 1] /\ chunked = [f \in Ids |-> [ready |-> FALSE, at |-> 1]]
    /\ shown = None /\ key = None /\ loaded = Loading /\ fetches = {} /\ urls = {}
    /\ expanded = None /\ chunks = NewQuery

--------------------------------------------------------------------------------
(***************************************************************************)
(* The preview.                                                            *)
(***************************************************************************)
\* A few types and extensions of each matcher; a type's prefix is told by its members.
Meets(kind, types, exts) == [kind |-> kind, types |-> types, exts |-> exts]
MATCHERS ==
    <<Meets("pdf", {"application/pdf"}, {"pdf"}), Meets("image", {"image/png"}, {"png", "svg"}),
      Meets("table", {"text/csv"}, {"csv"}), Meets("markdown", {"text/markdown"}, {"md"}),
      Meets("json", {"application/json"}, {"jsonl"}),
      Meets("text", {"text/csv", "text/markdown", "text/plain"}, {"log", "html"})>>

\* The first matcher that the content type or the extension meets.
resolvePreviewKind(f) ==
    LET hits == {i \in DOMAIN MATCHERS : Files[f].type \in MATCHERS[i].types \/ Files[f].ext \in MATCHERS[i].exts}
    IN  IF hits = {} THEN "none" ELSE MATCHERS[CHOOSE i \in hits : \A j \in hits : i <= j].kind

textual(f) == resolvePreviewKind(f) \in {"text", "markdown", "json", "table"}
oversizedText(f) == textual(f) /\ Files[f].large
enabled(f) == resolvePreviewKind(f) # "none" /\ ~oversizedText(f)

\* The effect's cleanup: its read is disowned, its URL released.
Cancelled == {[r EXCEPT !.cancelled = TRUE] : r \in fetches}
cleanup == urls' = urls \ {key}

\* A new key remounts the preview, loading.
Mount(f, k) ==
    /\ key' = k /\ loaded' = Loading /\ cleanup
    /\ fetches' = IF f # None /\ enabled(f)
                  THEN Cancelled \cup {[of |-> k, cancelled |-> FALSE, stage |-> "fetch"]}
                  ELSE Cancelled

Show(f) ==
    /\ f # shown /\ shown' = f
    /\ Mount(f, IF f = None THEN None ELSE <<f, version[f]>>)
    /\ UNCHANGED <<version, chunked, row>>

\* The row changed (renamed, moved, ingested again) and the tree with it was fetched.
FileChanges(f) ==
    /\ version[f] < MaxVersions /\ version' = [version EXCEPT ![f] = @ + 1]
    /\ IF f = shown THEN Mount(f, <<f, version[f] + 1>>) ELSE UNCHANGED <<key, loaded, fetches, urls>>
    /\ UNCHANGED <<chunked, shown, row>>

\* Bytes of text are decoded in a second wait.
BlobArrives(r) ==
    /\ r \in fetches /\ r.stage = "fetch"
    /\ IF r.cancelled THEN fetches' = fetches \ {r} /\ UNCHANGED <<loaded, urls>>
       ELSE IF textual(r.of[1])
       THEN fetches' = (fetches \ {r}) \cup {[r EXCEPT !.stage = "decode"]} /\ UNCHANGED <<loaded, urls>>
       ELSE /\ fetches' = fetches \ {r}
            /\ urls' = urls \cup {r.of} /\ loaded' = [state |-> "media", of |-> r.of]
    /\ UNCHANGED <<version, chunked, shown, key, row>>

TextDecoded(r) ==
    /\ r \in fetches /\ r.stage = "decode" /\ fetches' = fetches \ {r}
    /\ loaded' = IF r.cancelled THEN loaded ELSE [state |-> "text", of |-> r.of]
    /\ UNCHANGED <<version, chunked, shown, key, urls, row>>

FetchFails(r) ==
    /\ r \in fetches /\ fetches' = fetches \ {r}
    /\ loaded' = IF r.cancelled THEN loaded ELSE [state |-> "error", of |-> r.of]
    /\ UNCHANGED <<version, chunked, shown, key, urls, row>>

--------------------------------------------------------------------------------
(***************************************************************************)
(* The expanded row.  Its chunks are asked again when the ingestion's row  *)
(* changes; without a finished ingestion nothing is asked.                 *)
(***************************************************************************)
chunksQuery(ingestion) == IF ingestion.ready THEN Ask(NewQuery) ELSE NewQuery

toggleExpand(f) ==
    /\ IF expanded = f THEN expanded' = None /\ chunks' = NewQuery
       ELSE expanded' = f /\ chunks' = chunksQuery(chunked[f])
    /\ UNCHANGED <<version, chunked, preview>>

\* A worker finishes, or the file is queued again.
IngestionMoves(f) ==
    /\ chunked[f].at < MaxVersions
    /\ chunked' = [chunked EXCEPT ![f] = [ready |-> ~@.ready, at |-> @.at + 1]]
    /\ chunks' = IF expanded = f THEN chunksQuery(chunked'[f]) ELSE chunks
    /\ UNCHANGED <<version, preview, expanded>>

ChunksAnswer ==
    /\ chunks.loading
    /\ \/ Unserved(chunks) /\ chunks' = Serve(chunks, chunked[expanded].at)
       \/ chunks.served /\ chunks' = Land(chunks)
       \/ chunks' = Fault(chunks)
    /\ UNCHANGED <<version, chunked, preview, expanded>>

--------------------------------------------------------------------------------
Next ==
    \/ \E f \in Ids \cup {None} : Show(f)
    \/ \E f \in Ids : FileChanges(f) \/ toggleExpand(f) \/ IngestionMoves(f)
    \/ \E r \in fetches : BlobArrives(r) \/ TextDecoded(r) \/ FetchFails(r)
    \/ ChunksAnswer

Spec == Init /\ [][Next]_vars

--------------------------------------------------------------------------------
(***************************************************************************)
(* Properties.                                                             *)
(***************************************************************************)
\* Types: one read is not disowned at most, the preview is mounted for what is shown.
TypeOK ==
    /\ key = (IF shown = None THEN None ELSE <<shown, version[shown]>>)
    /\ loaded.state \in {"loading", "text", "media", "error"}
    /\ Cardinality({r \in fetches : ~r.cancelled}) <= 1
    /\ \A r \in fetches : r.stage \in {"fetch", "decode"}
    /\ chunks.data \in {None} \cup 1..MaxVersions

\* Whatever order reads end in, the preview shows the bytes of the file and
\* the version it is mounted for, never those of one shown before
\* (the cancelled flag of FilePreviewContent's effect, checked again after
\* the text is decoded).
PreviewIsCurrent == loaded.state # "loading" => loaded.of = key

\* Every object URL is released as its preview leaves, none before: one on
\* screen can still be read (URL.createObjectURL, revokeObjectURL).
UrlsReleased == urls \subseteq {key} /\ (loaded.state = "media" => key \in urls)

\* A row's chunks are those of its present ingestion: one that started
\* again takes the old chunks off the screen (FileRowDetails' query).
ChunksAreCurrent ==
    chunks.data # None => expanded # None /\ chunked[expanded].ready /\ chunks.data = chunked[expanded].at
===============================================================================
