------------------------------- MODULE Accounts --------------------------------
(***************************************************************************)
(* User accounts and the last-admin rule: registration and the startup     *)
(* promotion in app/services/accounts.py, role and active updates in       *)
(* app/services/admin_users.py, the counts of UserRepository and the       *)
(* require_admin dependency.                                               *)
(*                                                                         *)
(* One step is one SQL statement with the checks on what it returned, or   *)
(* one commit.  A request keeps one session: get_current_user loads the    *)
(* caller's row, and when the caller targets itself session.get returns    *)
(* that same object.  A flush writes the attributes that differ from what  *)
(* was loaded, and only those.                                             *)
(***************************************************************************)
EXTENDS Naturals, FiniteSetTheorems

CONSTANTS
    Users,       \* accounts that may be registered (distinct emails)
    Requests,    \* concurrent HTTP requests
    AdminClients,\* the requests an administrator may send
    Nobody,
    MaxRequests, \* bound on the requests made
    MaxStarts    \* bound on restarts of the server

Roles == {"admin", "user"}
\* payload.role and payload.is_active of AdminUserUpdate: "keep" is None.
Payloads == [role : Roles \union {"keep"}, active : {"yes", "no", "keep"}]
NoPayload == [role |-> "keep", active |-> "keep"]

AccountsAssumption ==
    /\ IsFiniteSet(Users)
    /\ Nobody \notin Users
    /\ AdminClients \subseteq Requests
    /\ {MaxRequests, MaxStarts} \subseteq Nat

VARIABLES
    born,     \* users: when the row was created, 0 if there is none
    role,     \* users.role
    active,   \* users.is_active
    req,      \* each request: where it is, its caller, target and payload,
              \* and what its session has loaded of the target
    made,     \* requests made so far
    up,       \* the server has started and takes requests
    starts    \* starts so far

vars == <<born, role, active, req, made, up, starts>>

NoRequest == [phase |-> "idle", caller |-> Nobody, target |-> Nobody,
              payload |-> NoPayload, role |-> "user", active |-> FALSE]
RequestType ==
    [phase : {"idle", "emailFree", "decided", "admitted", "loaded", "allowed"},
     caller : Users \union {Nobody}, target : Users \union {Nobody},
     payload : Payloads, role : Roles, active : BOOLEAN]

TypeOK ==
    /\ born \in [Users -> Nat]
    /\ role \in [Users -> Roles]
    /\ active \in [Users -> BOOLEAN]
    /\ req \in [Requests -> RequestType]
    /\ made \in 0 .. MaxRequests
    /\ up \in BOOLEAN
    /\ starts \in 0 .. MaxStarts
    /\ \A u, v \in Users : born[u] = born[v] /\ born[u] > 0 => u = v
    /\ \A r \in Requests :
           req[r].phase \in {"loaded", "allowed"} => born[req[r].target] > 0

\* A new database, or one from before roles: every account a plain user.
Init ==
    /\ \/ born = [u \in Users |-> 0]
       \/ /\ born \in [Users -> 1 .. Cardinality(Users)]
          /\ \A u, v \in Users : born[u] = born[v] => u = v
    /\ role = [u \in Users |-> "user"]
    /\ active = [u \in Users |-> TRUE]
    /\ req = [r \in Requests |-> NoRequest]
    /\ made = 0
    /\ up = FALSE
    /\ starts = 0
--------------------------------------------------------------------------------
Rows == {u \in Users : born[u] > 0}
Admins == {u \in Rows : role[u] = "admin"}
ActiveAdmins == {u \in Admins : active[u]}

Ends(r) == req' = [req EXCEPT ![r] = NoRequest]
Begins(r) ==
    /\ up
    /\ req[r].phase = "idle"
    /\ made < MaxRequests
    /\ made' = made + 1

\* POST /register: the email is not taken.
RegisterChecks(r, u) ==
    /\ Begins(r)
    /\ u \notin Rows
    /\ req' = [req EXCEPT ![r] = [NoRequest EXCEPT !.phase = "emailFree", !.target = u]]
    /\ UNCHANGED <<born, role, active, up, starts>>

\* The role: administrator if there is no account yet.
RegisterDecides(r) ==
    /\ req[r].phase = "emailFree"
    /\ req' = [req EXCEPT ![r].phase = "decided",
                          ![r].role = IF Rows = {} THEN "admin" ELSE "user"]
    /\ UNCHANGED <<born, role, active, made, up, starts>>

\* Insert and commit; the unique email rejects the second of two.
RegisterCommits(r) ==
    LET u == req[r].target IN
    /\ req[r].phase = "decided"
    /\ \/ /\ u \notin Rows
          /\ born' = [born EXCEPT ![u] = 1 + Cardinality(Rows)]
          /\ role' = [role EXCEPT ![u] = req[r].role]
          /\ active' = [active EXCEPT ![u] = TRUE]
       \/ /\ u \in Rows
          /\ UNCHANGED <<born, role, active>>
    /\ Ends(r)
    /\ UNCHANGED <<made, up, starts>>
--------------------------------------------------------------------------------
\* PATCH /admin/users/{id}: get_current_user and require_admin.
Admit(r, a, u, p) ==
    /\ Begins(r)
    /\ r \in AdminClients
    /\ a \in ActiveAdmins
    /\ req' = [req EXCEPT ![r] =
                 [phase |-> "admitted", caller |-> a, target |-> u, payload |-> p,
                  role |-> role[a], active |-> active[a]]]
    /\ UNCHANGED <<born, role, active, up, starts>>

\* What the session holds of the target: the caller's own row is loaded
\* already, any other is read now.
Loaded(q) ==
    IF q.target = q.caller
      THEN [q EXCEPT !.phase = "loaded"]
      ELSE [q EXCEPT !.phase = "loaded", !.role = role[q.target],
                     !.active = active[q.target]]

\* session.get of the target, or a 404.
Load(r) ==
    /\ req[r].phase = "admitted"
    /\ \/ req[r].target \in Rows /\ req' = [req EXCEPT ![r] = Loaded(@)]
       \/ req[r].target \notin Rows /\ Ends(r)
    /\ UNCHANGED <<born, role, active, made, up, starts>>

Demotes(q) == q.payload.role = "user"
Deactivates(q) == q.payload.active = "no"
\* Mutant: deactivating is not counted as losing an administrator.
EndangersByDemotion(q) == Demotes(q) /\ q.role = "admin" /\ q.active

Endangers(q) == (Demotes(q) \/ Deactivates(q)) /\ q.role = "admin" /\ q.active

\* The last-admin guard: count_active_admins, or a 400.
Guard(r) ==
    /\ req[r].phase = "loaded"
    /\ IF Endangers(req[r]) /\ Cardinality(ActiveAdmins) <= 1
         THEN Ends(r)
         ELSE req' = [req EXCEPT ![r].phase = "allowed"]
    /\ UNCHANGED <<born, role, active, made, up, starts>>

\* Flush of the changed attributes, and commit.
Commit(r) ==
    LET q == req[r]
        u == q.target
        wanted == q.payload.active = "yes"
    IN
    /\ q.phase = "allowed"
    /\ role' = IF q.payload.role \in {"keep", q.role} THEN role
               ELSE [role EXCEPT ![u] = q.payload.role]
    /\ active' = IF q.payload.active = "keep" \/ wanted = q.active THEN active
                 ELSE [active EXCEPT ![u] = wanted]
    /\ Ends(r)
    /\ UNCHANGED <<born, made, up, starts>>

\* The server stops; the requests under way are gone.
Stop ==
    /\ up
    /\ up' = FALSE
    /\ req' = [r \in Requests |-> NoRequest]
    /\ UNCHANGED <<born, role, active, made, starts>>

Earliest(S) == CHOOSE u \in S : \A v \in S : born[u] <= born[v]

\* The server starts: ensure_admin_exists promotes the earliest account when
\* no row holds the admin role.
Start ==
    /\ ~up /\ starts < MaxStarts
    /\ up' = TRUE
    /\ starts' = starts + 1
    /\ role' = IF Admins = {} /\ Rows # {}
                 THEN [role EXCEPT ![Earliest(Rows)] = "admin"] ELSE role
    /\ UNCHANGED <<born, active, req, made>>
--------------------------------------------------------------------------------
RegisterStep(r) ==
    \/ \E u \in Users : RegisterChecks(r, u)
    \/ RegisterDecides(r) \/ RegisterCommits(r)
UpdateStep(r) ==
    \/ \E a, u \in Users, p \in Payloads : Admit(r, a, u, p)
    \/ Load(r) \/ Guard(r) \/ Commit(r)

Next ==
    \/ \E r \in Requests : RegisterStep(r) \/ UpdateStep(r)
    \/ Start \/ Stop

Spec == Init /\ [][Next]_vars
--------------------------------------------------------------------------------
\* "The system must always retain at least one active admin" (admin_users.py).
AdminRemains == up /\ Rows # {} => ActiveAdmins # {}
--------------------------------------------------------------------------------
(***************************************************************************)
(* Why an administrator remains while administrators act one at a time:    *)
(* what a session has loaded of its target stays true until it commits, so *)
(* the guard's count is still right when the change is written.            *)
(***************************************************************************)
SerialAdmins == \A r, s \in AdminClients : r = s

RegistrationHolds(q) ==
    /\ q.phase \in {"emailFree", "decided"} => q.target \in Users
    /\ q.phase = "decided" /\ q.role = "user" => Rows # {}

UpdateHolds(q) ==
    /\ q.phase = "admitted" =>
           /\ q.target \in Users /\ q.caller \in Users
           /\ q.role = role[q.caller] /\ q.active = active[q.caller] /\ born[q.caller] > 0
    /\ q.phase \in {"loaded", "allowed"} =>
           q.target \in Users /\ q.role = role[q.target] /\ q.active = active[q.target]
    /\ q.phase = "allowed" /\ Endangers(q) => \E v \in ActiveAdmins : v # q.target

ServerHolds ==
    /\ ~up => \A r \in Requests : req[r].phase = "idle"
    /\ starts = 0 => ~up /\ \A u \in Users : role[u] = "user" /\ active[u]
    /\ starts > 0 /\ Rows # {} => ActiveAdmins # {}

AccountsInv ==
    /\ TypeOK
    /\ \A u \in Users : born[u] <= Cardinality(Rows)
    /\ \A r \in Requests :
           /\ RegistrationHolds(req[r]) /\ UpdateHolds(req[r])
           /\ req[r].phase \in {"admitted", "loaded", "allowed"} => r \in AdminClients
    /\ ServerHolds
================================================================================
