------------------------------ MODULE PromptEditor ------------------------------
(***************************************************************************)
(* The system-prompt editor of the chat studio (use-prompt-editor.ts,      *)
(* PromptEditorOverlay.tsx): a base section and one section per selected   *)
(* tool collection, each with the details last read from the server and a  *)
(* draft.  Templates are abstracted to version numbers; Blank is the empty *)
(* text, which the server replaces by its default (version 0).             *)
(***************************************************************************)
EXTENDS Integers, FiniteSets

CONSTANTS
    Tools,        \* collections that can be selected
    MaxTexts      \* bound: texts the user types

Base == "base"
Sections == Tools \cup {Base}
Blank == -1
Unread == -2      \* no details read, no draft made

VARIABLES
    template,     \* server: stored template of each section
    selectedTools,
    details,      \* basePromptDetails, collectionPromptDetails
    drafts,       \* basePromptDraft, collectionPromptDrafts
    reads,        \* reads in flight: [section, value]
    saves,        \* saves in flight: [section, text]
    broken,       \* sections with an error
    editorOpen, activeSection,
    typed,        \* texts typed so far
    ownText       \* what the user typed last in each section, or Unread

promptVars == <<template, selectedTools, details, drafts, reads, saves, broken, editorOpen,
                activeSection, typed, ownText>>

Init ==
    /\ template = [s \in Sections |-> 0] /\ selectedTools = {}
    /\ details = [s \in Sections |-> Unread]
    /\ drafts = [s \in Sections |-> IF s = Base THEN Blank ELSE Unread]
    /\ reads = {[section |-> Base, value |-> 0]} /\ saves = {} /\ broken = {}
    /\ editorOpen = FALSE /\ activeSection = Base /\ typed = 0
    /\ ownText = [s \in Sections |-> Unread]

\* The effect over the selected collections: a read for each that has no
\* details, again on every change of the selection or of the details.
ReadsFor(tools, ds) == {[section |-> t, value |-> template[t]] : t \in {u \in tools : ds[u] = Unread}}

\* The draft a section shows: its own, or the template read.
DraftShown(s) == IF drafts[s] = Unread THEN details[s] ELSE drafts[s]

PromptSections == {Base} \cup selectedTools
HasChanges(s) == IF details[s] = Unread THEN drafts[s] \notin {Blank, Unread}
                 ELSE DraftShown(s) # details[s]
Saving(s) == \E v \in saves : v.section = s

SelectTools(ts) ==
    /\ ts # selectedTools /\ selectedTools' = ts
    /\ reads' = reads \cup ReadsFor(ts, details)
    /\ broken' = broken \ {t \in ts : details[t] = Unread}
    /\ activeSection' = IF activeSection \in ts \cup {Base} THEN activeSection ELSE Base
    /\ UNCHANGED <<template, details, drafts, saves, editorOpen, typed, ownText>>

\* Mutant: an answer replaces whatever draft there is.
ReadAnswersOverDraft(r) ==
    /\ details' = [details EXCEPT ![r.section] = r.value]
    /\ drafts' = [drafts EXCEPT ![r.section] = r.value]
    /\ reads' = (reads \ {r}) \cup ReadsFor(selectedTools, details')
    /\ UNCHANGED <<template, selectedTools, saves, broken, editorOpen, activeSection, typed, ownText>>

\* A read answers: the details are replaced, a draft only when there is none.
ReadAnswers(r) ==
    LET empty == IF r.section = Base THEN Blank ELSE Unread IN
    /\ details' = [details EXCEPT ![r.section] = r.value]
    /\ drafts' = [drafts EXCEPT ![r.section] = IF @ = empty THEN r.value ELSE @]
    /\ reads' = (reads \ {r}) \cup ReadsFor(selectedTools, details')
    /\ UNCHANGED <<template, selectedTools, saves, broken, editorOpen, activeSection, typed, ownText>>

ReadFails(r) ==
    /\ reads' = reads \ {r} /\ broken' = broken \cup {r.section}
    /\ UNCHANGED <<template, selectedTools, details, drafts, saves, editorOpen, activeSection, typed, ownText>>

OpenEditor ==
    /\ ~editorOpen /\ editorOpen' = TRUE
    /\ activeSection' = IF activeSection \in PromptSections THEN activeSection ELSE Base
    /\ UNCHANGED <<template, selectedTools, details, drafts, reads, saves, broken, typed, ownText>>

CloseEditor ==
    /\ editorOpen /\ editorOpen' = FALSE
    /\ UNCHANGED <<template, selectedTools, details, drafts, reads, saves, broken, activeSection, typed, ownText>>

SelectSection(s) ==
    /\ editorOpen /\ s \in PromptSections \ {activeSection} /\ activeSection' = s
    /\ UNCHANGED <<template, selectedTools, details, drafts, reads, saves, broken, editorOpen, typed, ownText>>

\* Typing and inserting a variable: the active section's draft.
ChangeDraft ==
    /\ editorOpen /\ typed < MaxTexts
    /\ typed' = typed + 1
    /\ drafts' = [drafts EXCEPT ![activeSection] = typed + 1]
    /\ ownText' = [ownText EXCEPT ![activeSection] = typed + 1]
    /\ UNCHANGED <<template, selectedTools, details, reads, saves, broken, editorOpen, activeSection>>

ResetDraft ==
    /\ editorOpen
    /\ drafts' = [drafts EXCEPT ![activeSection] = Blank]
    /\ ownText' = [ownText EXCEPT ![activeSection] = Unread]
    /\ UNCHANGED <<template, selectedTools, details, reads, saves, broken, editorOpen, activeSection, typed>>

Save ==
    /\ editorOpen /\ HasChanges(activeSection) /\ ~Saving(activeSection)
    /\ saves' = saves \cup {[section |-> activeSection, text |-> DraftShown(activeSection)]}
    /\ broken' = broken \ {activeSection}
    /\ UNCHANGED <<template, selectedTools, details, drafts, reads, editorOpen, activeSection, typed, ownText>>

\* The save answers with the stored template, which replaces details and
\* draft; the editor closes, whatever section it shows by then.
SaveAnswers(v) ==
    LET now == IF v.text = Blank THEN 0 ELSE v.text IN
    /\ template' = [template EXCEPT ![v.section] = now]
    /\ details' = [details EXCEPT ![v.section] = now]
    /\ drafts' = [drafts EXCEPT ![v.section] = now]
    /\ ownText' = [ownText EXCEPT ![v.section] = Unread]
    /\ saves' = saves \ {v} /\ editorOpen' = FALSE
    /\ reads' = reads \cup ReadsFor(selectedTools, details')
    /\ UNCHANGED <<selectedTools, broken, activeSection, typed>>

SaveFails(v) ==
    /\ saves' = saves \ {v} /\ broken' = broken \cup {v.section}
    /\ UNCHANGED <<template, selectedTools, details, drafts, reads, editorOpen, activeSection, typed, ownText>>

Next ==
    \/ \E ts \in SUBSET Tools : SelectTools(ts)
    \/ \E r \in reads : ReadAnswers(r) \/ ReadFails(r)
    \/ \E v \in saves : SaveAnswers(v) \/ SaveFails(v)
    \/ \E s \in Sections : SelectSection(s)
    \/ OpenEditor \/ CloseEditor \/ ChangeDraft \/ ResetDraft \/ Save

Spec == Init /\ [][Next]_promptVars

-------------------------------------------------------------------------------
TypeOK ==
    /\ activeSection \in Sections /\ selectedTools \subseteq Tools
    /\ \A s \in Sections : template[s] \in 0 .. MaxTexts

\* What the user typed in a section stays its draft until they revert it or a
\* save of that section answers: no late or repeated read, change of the tool
\* selection, failed save or closing of the editor loses it.
TypedTextKept == \A s \in Sections : ownText[s] # Unread => DraftShown(s) = ownText[s]

\* The section the editor edits is one it lists, after every change of the
\* tool selection.
ActiveSectionListed == activeSection \in PromptSections

\* Why they hold: what was typed last in a section is its draft, and differs
\* from no text and no draft; whatever is read or saved is a text.
PromptInv ==
    /\ TypeOK /\ typed \in 0 .. MaxTexts /\ ActiveSectionListed
    /\ template \in [Sections -> 0 .. typed]
    /\ details \in [Sections -> 0 .. typed \cup {Unread}]
    /\ drafts \in [Sections -> 0 .. typed \cup {Blank, Unread}]
    /\ ownText \in [Sections -> 1 .. typed \cup {Unread}]
    /\ \A s \in Sections : ownText[s] # Unread => drafts[s] = ownText[s]
    /\ reads \subseteq [section : Sections, value : 0 .. typed]
    /\ saves \subseteq [section : Sections, text : 0 .. typed \cup {Blank}]

===============================================================================
