------------------------------ MODULE ChatSettings ------------------------------
(***************************************************************************)
(* The run settings of the chat studio: the model and the connection that  *)
(* serves it, the tool collections and the parameter overrides.  There is  *)
(* one copy in the studio (cur) and one per session in the session list;   *)
(* effects keep them in step (use-session-lifecycle.ts,                    *)
(* use-collection-tools.ts), a response brings the stored ones back        *)
(* (use-chat-response.ts).  An action is an event together with the        *)
(* effects its commits run, in the order the hooks declare them.           *)
(***************************************************************************)
EXTENDS Naturals, FiniteSets

CONSTANTS
    Chats,        \* sessions of the list
    Models,       \* selectable models
    ServedBy,     \* connection that serves each model in the catalog
    NoConn,       \* a session stored before connections existed has none
    Collections,  \* tool collections
    Nobody,       \* no session selected
    MaxEdits      \* bound: edits the user makes

\* Overrides are abstracted to the model they were tuned for, or "default".
Settings == [model : Models, conn : {ServedBy[m] : m \in Models} \cup {NoConn},
             tools : SUBSET Collections, params : Models \cup {"default"}]
Legal(s) == s.conn \in {ServedBy[s.model], NoConn} /\ s.params \in {"default", s.model}

VARIABLES
    storedSettings,   \* server: settings of each session
    list,             \* sessions state: settings of each session as last listed
    chat,             \* selectedSessionId
    cur,              \* the studio's settings
    previousModel,    \* previousModelIdRef
    dirtyTools,       \* toolCollectionsDirtyRef
    listing,          \* a list request is in flight
    asked,            \* turns in flight: [chat, sent]
    validIds,         \* collections the catalog has, or {} before it is loaded
    edits,
    carried           \* settings in force when "New chat" was last clicked, if untouched since

settingsVars == <<storedSettings, list, chat, cur, previousModel, dirtyTools, listing,
          asked, validIds, edits, carried>>

InitialSettings == LET m == CHOOSE x \in Models : TRUE IN
    [model |-> m, conn |-> ServedBy[m], tools |-> {}, params |-> "default"]

Init ==
    /\ storedSettings \in [Chats -> {s \in Settings : s.tools = {} /\ Legal(s)}]
    /\ list = storedSettings /\ chat = Nobody
    /\ cur = InitialSettings /\ previousModel = InitialSettings.model
    /\ dirtyTools = FALSE /\ listing = FALSE /\ asked = {}
    /\ validIds = {} /\ edits = 0 /\ carried = {}

-------------------------------------------------------------------------------
\* The model effect: a model other than the previous one resets the overrides.
ModelEffect(s) ==
    IF s.model # previousModel THEN [s EXCEPT !.params = "default"] ELSE s

\* The session effects: model, connection, tools and overrides of the selected
\* session, whenever the selection or the list changes.  The model effect runs
\* one commit later and undoes the overrides when the model changed.
SessionEffects(c, l, now) ==
    IF c = Nobody THEN now
    ELSE [model |-> l[c].model, conn |-> l[c].conn, tools |-> l[c].tools, params |-> l[c].params]

Apply(s) == cur' = ModelEffect(s) /\ previousModel' = s.model

-------------------------------------------------------------------------------
SelectChat(c) ==
    /\ c # chat /\ c # Nobody
    /\ chat' = c /\ Apply(SessionEffects(c, list, cur))
    /\ dirtyTools' = FALSE /\ listing' = TRUE /\ carried' = {}
    /\ UNCHANGED <<storedSettings, list, asked, validIds, edits>>

\* handleStartNewChat takes a snapshot and the new-chat effect applies it.
StartNewChat ==
    /\ chat # Nobody
    /\ chat' = Nobody /\ Apply(cur)
    /\ dirtyTools' = FALSE /\ listing' = TRUE /\ carried' = {cur}
    /\ UNCHANGED <<storedSettings, list, asked, validIds, edits>>

\* The browser goes back to the new-chat screen: the latest session's settings.
BackToNewChat ==
    /\ chat # Nobody
    /\ chat' = Nobody /\ dirtyTools' = FALSE /\ listing' = TRUE /\ carried' = {}
    /\ \E c \in Chats : Apply(list[c])
    /\ UNCHANGED <<storedSettings, list, asked, validIds, edits>>

\* listChatSessions answers.
ListAnswers ==
    /\ listing /\ listing' = FALSE
    /\ list' = storedSettings
    /\ Apply(SessionEffects(chat, storedSettings, cur))
    /\ UNCHANGED <<storedSettings, chat, dirtyTools, asked, validIds, edits, carried>>

\* fetchCollections answers with the collections that still exist.
CatalogAnswers(ids) ==
    /\ validIds = {} /\ ids # {} /\ validIds' = ids
    /\ cur' = [cur EXCEPT !.tools = @ \cap ids]
    /\ carried' = {[s EXCEPT !.tools = @ \cap ids] : s \in carried}
    /\ UNCHANGED <<storedSettings, list, chat, previousModel, dirtyTools, listing, asked, edits>>

PickModel(m) ==
    /\ edits < MaxEdits /\ m # cur.model
    /\ Apply([cur EXCEPT !.model = m, !.conn = ServedBy[m]])
    /\ edits' = edits + 1 /\ carried' = {}
    /\ UNCHANGED <<storedSettings, list, chat, dirtyTools, listing, asked, validIds>>

TuneParameter ==
    /\ edits < MaxEdits /\ cur.params = "default"
    /\ cur' = [cur EXCEPT !.params = cur.model]
    /\ edits' = edits + 1 /\ carried' = {}
    /\ UNCHANGED <<storedSettings, list, chat, previousModel, dirtyTools, listing, asked, validIds>>

\* toggleToolCollection writes the session in the list too, which runs the
\* session effects again.
ToggleTool(k) ==
    LET next == IF k \in cur.tools THEN cur.tools \ {k} ELSE cur.tools \cup {k} IN
    /\ edits < MaxEdits /\ (validIds = {} \/ k \in validIds)
    /\ edits' = edits + 1 /\ carried' = {} /\ dirtyTools' = TRUE
    /\ IF chat = Nobody
       THEN cur' = [cur EXCEPT !.tools = next] /\ UNCHANGED <<list, previousModel>>
       ELSE /\ list' = [list EXCEPT ![chat].tools = next]
            /\ Apply(SessionEffects(chat, list', cur))
    /\ UNCHANGED <<storedSettings, chat, listing, asked, validIds>>

\* handleSend in a session: the settings go with the request, and the backend
\* stores them (persist_session_preferences).
SendTurn ==
    /\ chat # Nobody /\ asked = {}
    /\ asked' = {[chat |-> chat, sent |-> cur]}
    /\ UNCHANGED <<storedSettings, list, chat, cur, previousModel, dirtyTools, listing,
                   validIds, edits, carried>>

\* applyChatResponse: the settings of the response are taken over, except tool
\* collections toggled meanwhile; the session put in the list has the tools of
\* the render that sent the turn, and the list runs the session effects.  The
\* response's model is in force for one commit, so that a session with another
\* model loses its overrides.
TurnAnswers(a) ==
    LET back == [a.sent EXCEPT !.tools = IF dirtyTools THEN cur.tools ELSE @]
        resolved == a.sent
    IN
    /\ asked' = asked \ {a}
    /\ storedSettings' = [storedSettings EXCEPT ![a.chat] = a.sent]
    /\ list' = [list EXCEPT ![a.chat] = resolved]
    /\ IF chat = Nobody THEN Apply(back)
       ELSE LET now == SessionEffects(chat, list', back) IN
            /\ cur' = IF now.model # a.sent.model THEN [now EXCEPT !.params = "default"] ELSE now
            /\ previousModel' = now.model
    /\ carried' = {}
    /\ UNCHANGED <<chat, dirtyTools, listing, validIds, edits>>

Next ==
    \/ \E c \in Chats : SelectChat(c)
    \/ StartNewChat \/ BackToNewChat \/ ListAnswers \/ TuneParameter \/ SendTurn
    \/ \E ids \in SUBSET Collections : CatalogAnswers(ids)
    \/ \E m \in Models : PickModel(m)
    \/ \E k \in Collections : ToggleTool(k)
    \/ \E a \in asked : TurnAnswers(a)

Spec == Init /\ [][Next]_settingsVars

-------------------------------------------------------------------------------
TypeOK ==
    /\ storedSettings \in [Chats -> Settings] /\ list \in [Chats -> Settings]
    /\ cur \in Settings /\ chat \in Chats \cup {Nobody}

\* A model is never sent through another model's connection, in whatever order
\* switches, lists, edits and responses come: a session without a connection
\* clears the previous session's.
ConnectionOfModel == cur.conn \in {ServedBy[cur.model], NoConn}

\* Starting a new chat carries the settings over: until the user touches them,
\* switches, or a turn that is still running answers, they are the ones that
\* were in force, whatever lists land meanwhile.
NewChatCarriesOver == \A s \in carried : chat = Nobody => cur = s

\* Overrides in force were tuned for the model in force: switching model,
\* session or chat never carries one model's overrides to another.
TunedForModel == cur.params \in {"default", cur.model}

\* Why they hold: settings that break no rule are all there are, stored,
\* listed, sent or in force, and the model effect has seen the model in force.
LegalSettings == {s \in Settings : Legal(s)}

SettingsInv ==
    /\ TypeOK /\ NewChatCarriesOver
    /\ storedSettings \in [Chats -> LegalSettings] /\ list \in [Chats -> LegalSettings]
    /\ cur \in LegalSettings /\ previousModel = cur.model
    /\ asked \subseteq [chat : Chats, sent : LegalSettings]
===============================================================================
