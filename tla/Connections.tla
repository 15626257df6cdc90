----------------------------- MODULE Connections -----------------------------
(***************************************************************************)
(* Provider connections: the manager shared by the settings and the setup  *)
(* wizard (ConnectionsManager and its dialogs), and the service behind it, *)
(* which reads, probes the provider live, and writes.  A connection has a  *)
(* secret, never sent back to the browser, and one plain setting.          *)
(***************************************************************************)
EXTENDS Naturals, FiniteSets, Functions, ApiQueries

CONSTANTS
    Types,        \* provider types
    Limit,        \* type -> connections a user may have of it, or None
    Potential,    \* type -> kinds its descriptor names
    Serves,       \* type -> sets of kinds a server of it may really have
    Secrets, Values,   \* what is typed as the key, and as the plain setting
    Elsewhere,    \* what another tab sets the plain setting to
    Overlap,      \* whether dialogs are left, and other tabs write, during a request
    MaxIds        \* bound: connections ever stored

VARIABLES
    stored,       \* the rows: id -> type, key, url, kinds it serves, validity
    issued,       \* ids given so far
    meant,        \* id -> the settings its writers meant it to have
    connections,  \* the list's query
    fresh,        \* nothing was written elsewhere since the list was read
    catalogsOld,  \* models cached in the page may come from before a change
    adding,       \* the add dialog: open, type picked, form
    creating,     \* the creation out, or None
    probing,      \* the form is being tested
    editing,      \* the edit dialog, or None
    saving,       \* the update out, or None
    pendingRemoval, removing   \* the connection asked about, the deletion out

writes == <<creating, saving, removing>>
dialogs == <<adding, editing, pendingRemoval>>
rows == <<stored, issued, meant>>
page == <<connections, fresh, catalogsOld>>
vars == <<rows, page, dialogs, writes, probing>>

Ids == 1..MaxIds
Typed == [key |-> Secrets, url |-> Values]
Blank == [key |-> "", url |-> ""]
Closed == [open |-> FALSE, type |-> None, form |-> Blank]
Row(t, c, k) == [type |-> t, key |-> c.key, url |-> c.url, kinds |-> k, valid |-> TRUE]
Settings(r) == [key |-> r.key, url |-> r.url]

\* A row may be left from a version whose configuration is no longer valid.
Left == [type : Types, key : Secrets, url : {""}, kinds : UNION {Serves[t] : t \in Types},
         valid : BOOLEAN]

Init ==
    /\ stored \in {<<>>} \cup {<<r>> : r \in Left}
    /\ \A i \in DOMAIN stored : stored[i].kinds \in Serves[stored[i].type]
    /\ issued = Cardinality(DOMAIN stored) /\ meant = [i \in DOMAIN stored |-> Settings(stored[i])]
    /\ connections = Ask(NewQuery) /\ fresh = FALSE /\ catalogsOld = FALSE
    /\ adding = Closed /\ creating = None /\ probing = FALSE /\ editing = None /\ saving = None
    /\ pendingRemoval = None /\ removing = None

Idle == creating = None /\ saving = None /\ removing = None
NoDialog == ~adding.open /\ editing = None /\ pendingRemoval = None
Extend(f, i, r) == [j \in DOMAIN f \cup {i} |-> IF j = i THEN r ELSE f[j]]
Listed == IF connections.data = None THEN <<>> ELSE connections.data

--------------------------------------------------------------------------------
(***************************************************************************)
(* The list, as it is sent: the secret stays behind, and a row that is not *)
(* valid shows what its descriptor names.                                  *)
(***************************************************************************)
connection_to_read(r) ==
    [type |-> r.type, url |-> r.url, valid |-> r.valid,
     kinds |-> IF r.valid THEN r.kinds ELSE Potential[r.type]]
list_connections == [i \in DOMAIN stored |-> connection_to_read(stored[i])]

ServeList ==
    /\ Unserved(connections) /\ connections' = Serve(connections, list_connections) /\ fresh' = TRUE
    /\ UNCHANGED <<rows, catalogsOld, dialogs, writes, probing>>

ListAnswers ==
    /\ \/ connections.served /\ connections' = Land(connections)
       \/ connections.loading /\ connections' = Fault(connections)
    /\ UNCHANGED <<rows, fresh, catalogsOld, dialogs, writes, probing>>

handleChanged == connections' = Ask(connections) /\ catalogsOld' = FALSE /\ UNCHANGED fresh

\* Another tab of the user writes a plain setting.
WrittenElsewhere(i, v) ==
    /\ (Overlap \/ Idle) /\ i \in DOMAIN stored /\ stored[i].url # v
    /\ stored' = [stored EXCEPT ![i].url = v] /\ meant' = [meant EXCEPT ![i].url = v]
    /\ fresh' = FALSE
    /\ UNCHANGED <<issued, connections, catalogsOld, dialogs, writes, probing>>

computeKindCoverage == UNION {Listed[i].kinds : i \in {j \in DOMAIN Listed : Listed[j].valid}}

\* The set-up's status asks what the descriptors name, not what is served.
provider_coverage == UNION {Potential[stored[i].type] : i \in {j \in DOMAIN stored : stored[j].valid}}

--------------------------------------------------------------------------------
(***************************************************************************)
(* Adding.                                                                 *)
(***************************************************************************)
Shows(d) == adding' = d /\ UNCHANGED <<rows, page, editing, pendingRemoval, writes, probing>>

OpenAdd == NoDialog /\ Shows([adding EXCEPT !.open = TRUE])
handleClose == adding.open /\ (Overlap \/ creating = None) /\ Shows(Closed)

Count(f, t) == Cardinality({i \in DOMAIN f : f[i].type = t})

selectableTypes == {t \in Types : Limit[t] = None \/ Count(Listed, t) < Limit[t]}

handlePickType(t) ==
    /\ adding.open /\ adding.type = None /\ t \in selectableTypes
    /\ Shows([adding EXCEPT !.type = t, !.form = Blank])

AddBack == adding.open /\ adding.type # None /\ (Overlap \/ creating = None) /\ Shows([adding EXCEPT !.type = None])

TypeField(f, v) ==
    /\ adding.open /\ adding.type # None /\ adding.form[f] # v /\ (Overlap \/ creating = None)
    /\ Shows([adding EXCEPT !.form[f] = v])

Submittable == adding.open /\ adding.type # None /\ adding.form.key # "" /\ creating = None /\ ~probing

handleProbe ==
    /\ Submittable /\ probing' = TRUE /\ UNCHANGED <<rows, page, dialogs, writes>>

ProbeAnswers ==
    /\ probing /\ probing' = FALSE /\ UNCHANGED <<rows, page, dialogs, writes>>

handleCreate ==
    /\ Submittable
    /\ creating' = [type |-> adding.type, form |-> adding.form, phase |-> "sent"]
    /\ UNCHANGED <<rows, page, dialogs, saving, removing, probing>>

\* The service counts, then asks the provider, then writes.
WithinLimit(t) == Limit[t] = None \/ Count(stored, t) < Limit[t]

CreateCounts ==
    /\ creating # None /\ creating.phase = "sent"
    /\ creating' = [creating EXCEPT !.phase = IF WithinLimit(creating.type) THEN "counted" ELSE "bad"]
    /\ UNCHANGED <<rows, page, dialogs, saving, removing, probing>>

CreateCommits ==
    /\ creating # None /\ creating.phase = "counted" /\ issued < MaxIds
    /\ \E k \in Serves[creating.type] :
        stored' = Extend(stored, issued + 1, Row(creating.type, creating.form, k))
    /\ meant' = Extend(meant, issued + 1, creating.form)
    /\ issued' = issued + 1 /\ catalogsOld' = TRUE /\ creating' = [creating EXCEPT !.phase = "ok"]
    /\ UNCHANGED <<connections, fresh, dialogs, saving, removing, probing>>

\* The probe, or anything before the commit, may fail.
CreateFails ==
    /\ creating # None /\ creating.phase \in {"sent", "counted", "bad"} /\ creating' = None
    /\ UNCHANGED <<rows, page, dialogs, saving, removing, probing>>

CreateAnswers ==
    /\ creating # None /\ creating.phase = "ok" /\ creating' = None
    /\ handleChanged /\ adding' = Closed
    /\ UNCHANGED <<rows, editing, pendingRemoval, saving, removing, probing>>

--------------------------------------------------------------------------------
(***************************************************************************)
(* Editing.  The form starts from what the list shows; only what was       *)
(* changed in it is sent, and the service lays that over what it reads.    *)
(***************************************************************************)
Edits(d) == editing' = d /\ UNCHANGED <<rows, page, adding, pendingRemoval, writes, probing>>

onEdit(i) ==
    /\ NoDialog /\ i \in DOMAIN Listed
    /\ Edits([id |-> i, seen |-> Listed[i].url, form |-> [key |-> "", url |-> Listed[i].url]])

onClose == editing # None /\ (Overlap \/ saving = None) /\ Edits(None)

EditField(f, v) ==
    /\ editing # None /\ editing.form[f] # v /\ (Overlap \/ saving = None)
    /\ Edits([editing EXCEPT !.form[f] = v])

\* A field left blank is not sent: it keeps what it has.
Changed(d) == [key |-> d.form.key, url |-> IF d.form.url = d.seen THEN "" ELSE d.form.url]

handleSave ==
    /\ editing # None /\ saving = None
    /\ saving' = [id |-> editing.id, form |-> editing, payload |-> Changed(editing),
                  phase |-> "sent", read |-> None]
    /\ UNCHANGED <<rows, page, dialogs, creating, removing, probing>>

Over(old, p) == [f \in {"key", "url"} |-> IF p[f] = "" THEN old[f] ELSE p[f]]

\* What the user changed in the dialog, whatever is sent for it.
Intended(old, d) ==
    [key |-> IF d.form.key = "" THEN old.key ELSE d.form.key,
     url |-> IF d.form.url \in {"", d.seen} THEN old.url ELSE d.form.url]

UpdateReads ==
    /\ saving # None /\ saving.phase = "sent"
    /\ saving' = IF saving.id \in DOMAIN stored
                 THEN [saving EXCEPT !.phase = "read", !.read = Settings(stored[saving.id])]
                 ELSE [saving EXCEPT !.phase = "bad"]
    /\ UNCHANGED <<rows, page, dialogs, creating, removing, probing>>

UpdateCommits ==
    /\ saving # None /\ saving.phase = "read" /\ saving.id \in DOMAIN stored
    /\ LET new == Over(saving.read, saving.payload)
       IN stored' = [stored EXCEPT ![saving.id].key = new.key, ![saving.id].url = new.url,
                                   ![saving.id].valid = @ \/ saving.payload # Blank]
    /\ meant' = [meant EXCEPT ![saving.id] = Intended(@, saving.form)]
    /\ catalogsOld' = TRUE /\ saving' = [saving EXCEPT !.phase = "ok"]
    /\ UNCHANGED <<issued, connections, fresh, dialogs, creating, removing, probing>>

UpdateFails ==
    /\ saving # None /\ saving.phase \in {"sent", "read", "bad"} /\ saving' = None
    /\ UNCHANGED <<rows, page, dialogs, creating, removing, probing>>

UpdateAnswers ==
    /\ saving # None /\ saving.phase = "ok" /\ saving' = None
    /\ handleChanged /\ editing' = None
    /\ UNCHANGED <<rows, adding, pendingRemoval, creating, removing, probing>>

--------------------------------------------------------------------------------
(***************************************************************************)
(* Removing.  The answer closes whatever is asked about by then.           *)
(***************************************************************************)
onRemove(i) ==
    /\ NoDialog /\ i \in DOMAIN Listed /\ pendingRemoval' = i
    /\ UNCHANGED <<rows, page, adding, editing, writes, probing>>

onCancel ==
    /\ pendingRemoval # None /\ (Overlap \/ removing = None) /\ pendingRemoval' = None
    /\ UNCHANGED <<rows, page, adding, editing, writes, probing>>

handleRemove ==
    /\ pendingRemoval # None /\ removing = None
    /\ removing' = [id |-> pendingRemoval, phase |-> "sent"]
    /\ UNCHANGED <<rows, page, dialogs, creating, saving, probing>>

DeleteCommits ==
    /\ removing # None /\ removing.phase = "sent" /\ removing.id \in DOMAIN stored
    /\ LET rest == DOMAIN stored \ {removing.id}
       IN stored' = Restrict(stored, rest) /\ meant' = Restrict(meant, rest)
    /\ catalogsOld' = TRUE /\ removing' = [removing EXCEPT !.phase = "ok"]
    /\ UNCHANGED <<issued, connections, fresh, dialogs, creating, saving, probing>>

DeleteAnswers ==
    /\ removing # None /\ removing' = None /\ pendingRemoval' = None
    /\ IF removing.phase = "ok" THEN handleChanged ELSE UNCHANGED page
    /\ UNCHANGED <<rows, adding, editing, creating, saving, probing>>

--------------------------------------------------------------------------------
Next ==
    \/ ServeList \/ ListAnswers
    \/ \E i \in Ids, v \in Elsewhere : WrittenElsewhere(i, v)
    \/ OpenAdd \/ handleClose \/ AddBack \/ handleProbe \/ ProbeAnswers \/ handleCreate
    \/ \E t \in Types : handlePickType(t)
    \/ \E f \in {"key", "url"} : \E v \in Typed[f] \cup {""} : TypeField(f, v) \/ EditField(f, v)
    \/ CreateCounts \/ CreateCommits \/ CreateFails \/ CreateAnswers
    \/ \E i \in Ids : onEdit(i) \/ onRemove(i)
    \/ onClose \/ handleSave \/ UpdateReads \/ UpdateCommits \/ UpdateFails \/ UpdateAnswers
    \/ onCancel \/ handleRemove \/ DeleteCommits \/ DeleteAnswers

Spec == Init /\ [][Next]_vars

--------------------------------------------------------------------------------
(***************************************************************************)
(* Properties.                                                             *)
(***************************************************************************)
\* Types, and: every row has its required secret, ids are not given twice.
TypeOK ==
    /\ DOMAIN stored \subseteq 1..issued /\ DOMAIN meant = DOMAIN stored
    /\ \A i \in DOMAIN stored : stored[i].key \in Secrets /\ stored[i].url \in Values \cup Elsewhere \cup {""}
    /\ (pendingRemoval # None => editing = None /\ ~adding.open)
    /\ (creating # None => creating.form.key \in Secrets)

\* No write loses a setting it was not about: a secret not typed again, one
\* changed from another tab after the dialog was opened, one left blank.
SettingsAreMeant == \A i \in DOMAIN stored : Settings(stored[i]) = meant[i]

\* With nothing out and the list loaded, it shows the rows the server has,
\* and no cached model comes from before the last change made here.
ConnectionsListed ==
    /\ Idle => ~catalogsOld
    /\ Idle /\ Settled(connections) /\ fresh => connections.data = list_connections

\* A user never has more connections of a type than it allows.
LimitHolds == \A t \in Types : Limit[t] # None => Count(stored, t) <= Limit[t]

\* What the wizard's checklist shows as covered, the status the gate asks for
\* counts as covered: passing the one is never stopped by the other.
ChecklistOpensGate ==
    Idle /\ Settled(connections) /\ fresh => computeKindCoverage \subseteq provider_coverage

\* Why they hold: a write is out only while its own dialog is open, and one
\* dialog is open at a time, so nothing else is written between the reading
\* and the writing of one request; until the answer of a committed one has
\* been handled it is at its last phase, and only then may the page be stale.
Urls == Values \cup Elsewhere \cup {""}
Forms == [key : Secrets \cup {""}, url : Urls]
Records == [type : Types, key : Secrets, url : Urls, kinds : UNION {Serves[t] : t \in Types},
            valid : BOOLEAN]
AddDialogs == [open : BOOLEAN, type : Types \cup {None}, form : Forms]
EditDialogs == [id : Ids, seen : Urls, form : Forms]
Creations == [type : Types, form : Forms, phase : {"sent", "counted", "bad", "ok"}]
Updates == [id : Ids, form : EditDialogs, payload : Forms, phase : {"sent", "read", "bad", "ok"},
            read : [key : Secrets, url : Urls] \cup {None}]
Removals == [id : Ids, phase : {"sent", "ok"}]

Readable(d) == d = None \/ \A i \in DOMAIN d : d[i].url \in Urls
Committed(w) == w # None /\ w.phase = "ok"
Unanswered == Committed(creating) \/ Committed(saving) \/ Committed(removing)

ConnectionsInv ==
    /\ SettingsAreMeant /\ LimitHolds
    /\ issued \in Nat /\ DOMAIN stored \subseteq 1..issued /\ DOMAIN meant = DOMAIN stored
    /\ stored \in [DOMAIN stored -> Records]
    /\ \A i \in DOMAIN stored : stored[i].kinds \in Serves[stored[i].type]
    /\ connections \in [data : {connections.data}, loading : BOOLEAN, error : BOOLEAN,
                        served : BOOLEAN, answer : {connections.answer}]
    /\ Readable(connections.data) /\ Readable(connections.answer)
    /\ (connections.served => connections.loading)
    /\ fresh \in BOOLEAN /\ catalogsOld \in BOOLEAN /\ (catalogsOld => Unanswered)
    /\ fresh /\ ~Unanswered =>
          /\ connections.served => connections.answer = list_connections
          /\ Settled(connections) => connections.data = list_connections
    /\ adding \in AddDialogs /\ editing \in EditDialogs \cup {None}
    /\ pendingRemoval \in Ids \cup {None}
    /\ (adding.open => editing = None /\ pendingRemoval = None)
    /\ (editing = None \/ pendingRemoval = None)
    /\ creating \in Creations \cup {None} /\ saving \in Updates \cup {None}
    /\ removing \in Removals \cup {None}
    /\ creating # None =>
          /\ adding.open /\ creating.form.key \in Secrets
          /\ creating.phase = "counted" => WithinLimit(creating.type)
    /\ saving # None =>
          /\ editing # None /\ saving.payload = Changed(saving.form)
          /\ saving.phase = "read" /\ saving.id \in DOMAIN stored =>
                saving.read = Settings(stored[saving.id])
    /\ removing # None => pendingRemoval # None
===============================================================================
