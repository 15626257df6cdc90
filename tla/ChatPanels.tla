------------------------------- MODULE ChatPanels -------------------------------
(***************************************************************************)
(* The frame of the chat studio: its two side panels, which must not cover *)
(* each other on a narrow screen (use-panel-controls.ts); the order of the *)
(* run-settings sections, dragged by the user and saved to the profile     *)
(* after a pause (use-run-settings-order.ts, SortableSections.tsx); and    *)
(* the route that names the session (use-chat-session-routing.ts).         *)
(***************************************************************************)
EXTENDS ListOrder, SequencesExt

CONSTANTS
    SectionKeys,   \* DEFAULT_TELEMETRY_ORDER, as a sequence
    Chats,         \* session ids; NewChat is the route without one
    NewChat,
    MaxDrags,      \* bound: reorderings
    MaxPushes      \* bound: navigations

VARIABLES
    historyOpen, telemetryOpen,
    narrow,            \* isOverlayMode
    persisted,         \* localStorage: [history, telemetry]
    hydrated,
    order,             \* runSettingsOrder
    lastSaved,         \* lastSavedRef
    serverOrder,       \* user.run_settings_order as stored
    saveTimer,         \* the debounce timer runs
    puts,              \* saves in flight
    profiles,          \* profile reads in flight, with the order they read; answered in turn
    drags, failed,
    active, param,     \* activeSessionId, sessionIdParam
    pending,           \* pendingUrlSessionRef: [active, value]
    pushes,            \* the route pushed and not landed, at most one
    pushCount

panelVars == <<historyOpen, telemetryOpen, narrow, persisted, hydrated>>
orderVars == <<order, lastSaved, serverOrder, saveTimer, puts, profiles, drags, failed>>
routeVars == <<active, param, pending, pushes, pushCount>>
vars == <<panelVars, orderVars, routeVars>>

NoPush == [active |-> FALSE, value |-> NewChat]

\* normalizeRunSettingsOrder: known keys once, in the given order, the missing
\* ones appended in the default order.
NormalizeRunSettingsOrder(given) ==
    Once(given, ToSet(SectionKeys)) \o Without(SectionKeys, ToSet(given))

\* The stored order may be none, or an older one that lacks a section.
Init ==
    /\ persisted \in [history : BOOLEAN, telemetry : BOOLEAN] /\ narrow = FALSE
    /\ historyOpen = FALSE /\ telemetryOpen = FALSE /\ hydrated = FALSE
    /\ serverOrder \in {<<>>, SectionKeys, Tail(SectionKeys)}
    /\ order = NormalizeRunSettingsOrder(serverOrder) /\ lastSaved = order
    /\ saveTimer = FALSE /\ puts = {} /\ profiles = <<>> /\ drags = 0 /\ failed = FALSE
    /\ active = NewChat /\ param = NewChat /\ pending = NoPush /\ pushes = {} /\ pushCount = 0

-------------------------------------------------------------------------------
\* The overlay effect closes the run settings when both panels would cover the
\* chat; the toggles write through to localStorage once they are hydrated.
Panels(h, t, n) ==
    LET shut == n /\ h /\ t IN
    /\ historyOpen' = h /\ telemetryOpen' = (t /\ ~shut)
    /\ persisted' = [history |-> h, telemetry |-> t /\ ~shut]

\* After mount: the stored values are read back and the width is measured.
Hydrate(n) ==
    /\ ~hydrated /\ hydrated' = TRUE /\ narrow' = n
    /\ Panels(persisted.history, persisted.telemetry, n)
    /\ UNCHANGED <<orderVars, routeVars>>

Resize ==
    /\ hydrated /\ narrow' = ~narrow /\ Panels(historyOpen, telemetryOpen, narrow')
    /\ UNCHANGED <<hydrated, orderVars, routeVars>>

HistoryOpen ==
    /\ hydrated /\ Panels(TRUE, telemetryOpen /\ ~narrow, narrow)
    /\ UNCHANGED <<narrow, hydrated, orderVars, routeVars>>

HistoryClose ==
    /\ hydrated /\ Panels(FALSE, telemetryOpen, narrow)
    /\ UNCHANGED <<narrow, hydrated, orderVars, routeVars>>

TelemetryOpen ==
    /\ hydrated /\ Panels(historyOpen /\ ~narrow, TRUE, narrow)
    /\ UNCHANGED <<narrow, hydrated, orderVars, routeVars>>

TelemetryClose ==
    /\ hydrated /\ Panels(historyOpen, FALSE, narrow)
    /\ UNCHANGED <<narrow, hydrated, orderVars, routeVars>>

\* handleOverrideSelect opens the run settings without closing the history.
OverrideSelect ==
    /\ hydrated /\ Panels(historyOpen, TRUE, narrow)
    /\ UNCHANGED <<narrow, hydrated, orderVars, routeVars>>

-------------------------------------------------------------------------------
ArrayMove(s, from, to) == InsertAt(RemoveAt(s, from), to, s[from])

\* The save effect: a changed order restarts the timer, an unchanged one ends it.
SaveEffect(o, last) == saveTimer' = (o # last)

DragEnd(from, to) ==
    /\ from # to /\ drags < MaxDrags /\ drags' = drags + 1
    /\ order' = ArrayMove(order, from, to) /\ SaveEffect(order', lastSaved)
    /\ UNCHANGED <<lastSaved, serverOrder, puts, profiles, failed, panelVars, routeVars>>

SaveFires ==
    /\ saveTimer /\ saveTimer' = FALSE
    /\ puts' = puts \cup {order}
    /\ UNCHANGED <<order, lastSaved, serverOrder, profiles, drags, failed, panelVars, routeVars>>

\* The save is stored; the profile is read again.
SaveAnswers(o) ==
    /\ o \in puts /\ puts' = puts \ {o}
    /\ serverOrder' = o /\ lastSaved' = o /\ profiles' = Append(profiles, o)
    /\ UNCHANGED <<order, saveTimer, drags, failed, panelVars, routeVars>>

SaveFails(o) ==
    /\ o \in puts /\ puts' = puts \ {o} /\ failed' = TRUE
    /\ UNCHANGED <<order, lastSaved, serverOrder, saveTimer, profiles, drags, panelVars, routeVars>>

\* The profile arrives: its order replaces the one on screen.
ProfileAnswers ==
    /\ profiles # <<>> /\ profiles' = Tail(profiles)
    /\ order' = NormalizeRunSettingsOrder(Head(profiles)) /\ lastSaved' = order' /\ saveTimer' = FALSE
    /\ UNCHANGED <<serverOrder, puts, drags, failed, panelVars, routeVars>>

-------------------------------------------------------------------------------
\* navigateToChat: a target other than the current route is pushed.
Navigate(s) ==
    /\ pushCount < MaxPushes /\ pushCount' = pushCount + 1
    /\ active' = s
    /\ IF s # param
       THEN pending' = [active |-> TRUE, value |-> s] /\ pushes' = {s}
       ELSE UNCHANGED <<pending, pushes>>
    /\ UNCHANGED <<param, panelVars, orderVars>>

\* The routing effect: an awaited push is acknowledged by its own route only,
\* any other route waits for it; then the route wins.
RouteEffect(p, q) ==
    IF pending.active /\ p # pending.value
    THEN pending' = pending /\ active' = q
    ELSE pending' = NoPush /\ active' = p

PushLands(s) ==
    /\ s \in pushes /\ pushes' = {} /\ param' = s
    /\ RouteEffect(s, active)
    /\ UNCHANGED <<pushCount, panelVars, orderVars>>

\* Back or forward in the browser.
BrowserGoes(s) ==
    /\ pushes = {} /\ s # param /\ pushCount < MaxPushes /\ pushCount' = pushCount + 1
    /\ param' = s /\ RouteEffect(s, active)
    /\ UNCHANGED <<pushes, panelVars, orderVars>>

Next ==
    \/ \E n \in BOOLEAN : Hydrate(n)
    \/ Resize \/ HistoryOpen \/ HistoryClose \/ TelemetryOpen \/ TelemetryClose \/ OverrideSelect
    \/ \E i, j \in 1 .. Len(SectionKeys) : DragEnd(i, j)
    \/ SaveFires \/ \E o \in puts : SaveAnswers(o) \/ SaveFails(o)
    \/ ProfileAnswers
    \/ \E s \in Chats \cup {NewChat} : Navigate(s) \/ PushLands(s) \/ BrowserGoes(s)

Spec == Init /\ [][Next]_vars

-------------------------------------------------------------------------------
\* Every section once.
Whole(o) == o \in [1 .. Len(SectionKeys) -> ToSet(SectionKeys)] /\ Distinct(o)

TypeOK ==
    /\ Whole(order)
    /\ active \in Chats \cup {NewChat}

\* On a narrow screen the two panels never cover the chat together, however
\* they were opened, restored or the window resized.
OnePanelWhenNarrow == hydrated /\ narrow => ~(historyOpen /\ telemetryOpen)

\* When nothing is left to save or to read, the order on screen is the stored
\* one, unless a save failed (which the user is told).
SettledOrderSaved ==
    ~saveTimer /\ puts = {} /\ profiles = <<>> /\ ~failed
        => order = NormalizeRunSettingsOrder(serverOrder)

\* Once the route has landed, the session on screen is the one it names.
RouteIsSelection == pushes = {} /\ ~pending.active => active = param

\* Why they hold: the last profile still to come has the stored order, and when
\* none is to come, the order last saved is the stored one and the one on screen
\* waits for its save if it is another; a route is known.
Orders == Seq(ToSet(SectionKeys))

PanelsInv ==
    /\ TypeOK /\ OnePanelWhenNarrow /\ RouteIsSelection
    /\ serverOrder \in Orders /\ puts \subseteq Orders /\ profiles \in Seq(Orders)
    /\ profiles # <<>> => profiles[Len(profiles)] = serverOrder
    /\ profiles = <<>> => lastSaved = NormalizeRunSettingsOrder(serverOrder)
    /\ ~saveTimer /\ puts = {} /\ profiles = <<>> /\ ~failed => order = lastSaved
    /\ param \in Chats \cup {NewChat} /\ pushes \subseteq Chats \cup {NewChat}

===============================================================================
