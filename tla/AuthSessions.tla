----------------------------- MODULE AuthSessions ------------------------------
(***************************************************************************)
(* One signed-in browser's refresh session: app/api/routes/auth.py (login, *)
(* refresh, logout, revocation), AuthSessionRepository in                  *)
(* app/db/repositories/user.py, and the tabs that refresh it from          *)
(* frontend/src/providers/auth-provider.tsx.                               *)
(*                                                                         *)
(* A refresh token is replaced by its one successor (an HMAC of it), so    *)
(* the tokens of a session are 0, 1, 2, ... and a digest stands for its    *)
(* token.  The tabs share a cookie jar; a request carries the cookie of    *)
(* the moment it was sent.  One step is one SQL statement with the checks  *)
(* on what it returned, or the arrival of a response.                      *)
(***************************************************************************)
EXTENDS Naturals, TLAPS

CONSTANTS
    Tabs,         \* pages of the browser; a page loaded again is another one
    NoToken,      \* no cookie, or no previous token
    Grace,        \* _ROTATION_GRACE
    Lifetime,     \* remember_session_days, in the model's time unit
    MaxLatency,   \* longest time between a request and its response
    MinGap,       \* shortest time between two refreshes of a tab
    MaxRefreshes, \* bound on the refresh requests
    MaxTime       \* bound on the clock

TimingAssumption ==
    /\ {Grace, Lifetime, MaxLatency, MinGap, MaxRefreshes, MaxTime} \subseteq Nat
    /\ NoToken \notin Nat

\* When a request is answered, and what convergence rests on: no more than two
\* tabs, and times that fit each other.
TwoTabsInTime ==
    /\ \A t, u, v \in Tabs : t = u \/ u = v \/ t = v
    /\ Lifetime > 0
    /\ 2 * MaxLatency <= Grace
    /\ MaxLatency < MinGap

VARIABLES
    now,      \* utc_now()
    row,      \* the auth_sessions row
    active,   \* users.is_active
    jar,      \* the refresh cookie
    req,      \* the request of each tab
    shown,    \* a tab: "opening", "in", "out" after a refusal, "left" after logout
    rested,   \* when a tab's last refresh ended
    sent,     \* refresh requests made so far
    ended     \* somebody ended the session on purpose, or it has expired

vars == <<now, row, active, jar, req, shown, rested, sent, ended>>

\* Phases of POST /refresh, then of POST /logout.
Phases == {"idle", "lookup", "replay", "claim", "beaten", "granted", "refused",
           "leaving", "revoking", "left"}
InFlight == Phases \ {"idle"}
NoRequest == [phase |-> "idle", token |-> NoToken, at |-> 0, since |-> 0,
              late |-> FALSE]

Row == [current : Nat, previous : Nat \union {NoToken}, usedAt : Nat, expiresAt : Nat,
        revoked : BOOLEAN]
Request == [phase : Phases, token : Nat \union {NoToken}, at : Nat, since : Nat,
            late : BOOLEAN]

TypeOK ==
    /\ now \in Nat /\ row \in Row /\ active \in BOOLEAN /\ jar \in Nat \union {NoToken}
    /\ req \in [Tabs -> Request]
    /\ shown \in [Tabs -> {"opening", "in", "out", "left"}]
    /\ rested \in [Tabs -> Nat]
    /\ sent \in Nat /\ ended \in BOOLEAN

\* Login has committed its row and set the cookie.
Init ==
    /\ now = 0
    /\ row = [current |-> 0, previous |-> NoToken, usedAt |-> 0,
              expiresAt |-> Lifetime, revoked |-> FALSE]
    /\ active = TRUE
    /\ jar = 0
    /\ req = [t \in Tabs |-> NoRequest]
    /\ shown = [t \in Tabs |-> "opening"]
    /\ rested = [t \in Tabs |-> 0]
    /\ sent = 0
    /\ ended = FALSE
--------------------------------------------------------------------------------
Goes(t, phase) == req' = [req EXCEPT ![t].phase = phase]
Revoke == row' = [row EXCEPT !.revoked = TRUE]

\* A row found by its previous digest that may still be answered with its
\* current token: not revoked, not expired, rotated within the grace period.
InGrace(t) ==
    /\ ~row.revoked
    /\ row.expiresAt > req[t].at
    /\ req[t].at <= row.usedAt + Grace

\* refreshSession() of a tab: on mount, and every twelve minutes.
Send(t) ==
    /\ req[t].phase = "idle"
    /\ sent < MaxRefreshes
    /\ shown[t] = "opening" \/ now >= rested[t] + MinGap
    /\ sent' = sent + 1
    /\ req' = [req EXCEPT ![t] = [phase |-> "lookup", token |-> jar, at |-> now,
                                  since |-> now, late |-> row.revoked]]
    /\ UNCHANGED <<now, row, active, jar, shown, rested, ended>>

\* get_by_digest, the clock, and the checks on a row that was found.
Lookup(t) ==
    /\ req[t].phase = "lookup"
    /\ \/ /\ row.current # req[t].token
          /\ req' = [req EXCEPT ![t].phase = "replay", ![t].at = now]
          /\ UNCHANGED row
       \/ /\ row.current = req[t].token
          /\ row.revoked \/ row.expiresAt <= now
          /\ Goes(t, "refused")
          /\ UNCHANGED row
       \/ /\ row.current = req[t].token
          /\ ~row.revoked /\ row.expiresAt > now /\ ~active
          /\ Revoke
          /\ Goes(t, "refused")
       \/ /\ row.current = req[t].token
          /\ ~row.revoked /\ row.expiresAt > now /\ active
          /\ req' = [req EXCEPT ![t].phase = "claim", ![t].at = now]
          /\ UNCHANGED row
    /\ UNCHANGED <<now, active, jar, shown, rested, sent, ended>>

\* get_by_previous_digest: a tab that was beaten to the rotation gets the
\* same successor within the grace period; a later use ends the session.
Replay(t) ==
    LET found == row.previous = req[t].token IN
    /\ req[t].phase = "replay"
    /\ \/ ~found /\ Goes(t, "refused") /\ UNCHANGED row
       \/ found /\ InGrace(t) /\ active /\ Goes(t, "granted") /\ UNCHANGED row
       \/ /\ found /\ ~(InGrace(t) /\ active)
          /\ Revoke
          /\ Goes(t, "refused")
    /\ UNCHANGED <<now, active, jar, shown, rested, sent, ended>>

\* Mutant: the UPDATE does not ask whether the session was revoked meanwhile.
ClaimRevoked(t) ==
    /\ req[t].phase = "claim"
    /\ IF row.current = req[t].token
         THEN /\ row' = [row EXCEPT !.previous = req[t].token,
                                    !.current = req[t].token + 1,
                                    !.usedAt = req[t].at]
              /\ Goes(t, "granted")
         ELSE /\ UNCHANGED row
              /\ Goes(t, "beaten")
    /\ UNCHANGED <<now, active, jar, shown, rested, sent, ended>>

\* rotate_if_current: compare and swap the digest, and commit.
Claim(t) ==
    /\ req[t].phase = "claim"
    /\ IF row.current = req[t].token /\ ~row.revoked
         THEN /\ row' = [row EXCEPT !.previous = req[t].token,
                                    !.current = req[t].token + 1,
                                    !.usedAt = req[t].at]
              /\ Goes(t, "granted")
         ELSE /\ UNCHANGED row
              /\ Goes(t, "beaten")
    /\ UNCHANGED <<now, active, jar, shown, rested, sent, ended>>

\* Mutant: the loser of the swap is refused.
BeatenRefused(t) ==
    /\ req[t].phase = "beaten"
    /\ Goes(t, "refused")
    /\ UNCHANGED <<now, row, active, jar, shown, rested, sent, ended>>

\* The swap failed: look for the concurrent winner.
Beaten(t) ==
    /\ req[t].phase = "beaten"
    /\ Goes(t, IF row.previous = req[t].token /\ InGrace(t)
                 THEN "granted" ELSE "refused")
    /\ UNCHANGED <<now, row, active, jar, shown, rested, sent, ended>>

\* The response arrives.  A refusal is raised, so its Set-Cookie is dropped.
Granted(t) ==
    /\ req[t].phase = "granted"
    /\ jar' = req[t].token + 1
    /\ shown' = [shown EXCEPT ![t] = "in"]
    /\ rested' = [rested EXCEPT ![t] = now]
    /\ req' = [req EXCEPT ![t] = NoRequest]
    /\ UNCHANGED <<now, row, active, sent, ended>>

Refused(t) ==
    /\ req[t].phase = "refused"
    /\ shown' = [shown EXCEPT ![t] = "out"]
    /\ rested' = [rested EXCEPT ![t] = now]
    /\ req' = [req EXCEPT ![t] = NoRequest]
    /\ UNCHANGED <<now, row, active, jar, sent, ended>>
--------------------------------------------------------------------------------
\* signOut(): POST /logout with the cookie the jar holds.
Leave(t) ==
    /\ req[t].phase = "idle"
    /\ shown[t] = "in"
    /\ ended' = TRUE
    /\ req' = [req EXCEPT ![t] = [phase |-> "leaving", token |-> jar, at |-> now,
                                  since |-> now, late |-> row.revoked]]
    /\ UNCHANGED <<now, row, active, jar, shown, rested, sent>>

\* logout: get_by_digest only, then UPDATE of revoked_at.
LogoutReads(t) ==
    /\ req[t].phase = "leaving"
    /\ Goes(t, IF row.current = req[t].token /\ ~row.revoked
                 THEN "revoking" ELSE "left")
    /\ UNCHANGED <<now, row, active, jar, shown, rested, sent, ended>>

LogoutWrites(t) ==
    /\ req[t].phase = "revoking"
    /\ Revoke
    /\ Goes(t, "left")
    /\ UNCHANGED <<now, active, jar, shown, rested, sent, ended>>

LogoutAnswered(t) ==
    /\ req[t].phase = "left"
    /\ jar' = NoToken
    /\ shown' = [shown EXCEPT ![t] = "left"]
    /\ rested' = [rested EXCEPT ![t] = now]
    /\ req' = [req EXCEPT ![t] = NoRequest]
    /\ UNCHANGED <<now, row, active, sent, ended>>

\* DELETE /sessions/{id} or /sessions, from another device of the user.
RevokedElsewhere ==
    /\ ~row.revoked
    /\ Revoke
    /\ ended' = TRUE
    /\ UNCHANGED <<now, active, jar, req, shown, rested, sent>>

\* An administrator deactivates the account.
Deactivate ==
    /\ active
    /\ active' = FALSE
    /\ ended' = TRUE
    /\ UNCHANGED <<now, row, jar, req, shown, rested, sent>>

\* Time passes, but no request takes longer than MaxLatency.
Tick ==
    /\ now < MaxTime
    /\ \A t \in Tabs : req[t].phase \in InFlight => now < req[t].since + MaxLatency
    /\ now' = now + 1
    /\ ended' = (ended \/ now + 1 >= row.expiresAt)
    /\ UNCHANGED <<row, active, jar, req, shown, rested, sent>>
--------------------------------------------------------------------------------
RefreshStep(t) ==
    \/ Send(t) \/ Lookup(t) \/ Replay(t) \/ Claim(t) \/ Beaten(t)
    \/ Granted(t) \/ Refused(t)
LogoutStep(t) ==
    Leave(t) \/ LogoutReads(t) \/ LogoutWrites(t) \/ LogoutAnswered(t)

Next ==
    \/ \E t \in Tabs : RefreshStep(t) \/ LogoutStep(t)
    \/ RevokedElsewhere \/ Deactivate \/ Tick

Spec == Init /\ [][Next]_vars
--------------------------------------------------------------------------------
\* Concurrent refreshes converge: whatever the tabs' requests do to each
\* other, none is refused, and no tab falls back to the login page, while
\* nobody ended the session.
TabsStaySignedIn == ended \/ \A t \in Tabs : shown[t] \in {"opening", "in"}

\* A refresh sent after the session was revoked is never answered with a
\* token, by whichever of the three ways to an answer it takes.
RevokedIsRefused == \A t \in Tabs : req[t].late => req[t].phase # "granted"

\* Revocation is final: a rotation that read the row before cannot move a
\* revoked session on, and nothing lifts the revocation.
RevocationIsFinalStep == row.revoked => row'.revoked /\ row'.current = row.current
RevocationIsFinal == [][RevocationIsFinalStep]_vars

\* The cookie a browser holds is never more than one rotation behind the row,
\* so the grace period can save every tab.
JarIsUsable == jar = NoToken \/ row.current <= jar + 1
--------------------------------------------------------------------------------
\* What the two revocation properties rest on.  A request that carries no cookie
\* was sent after a logout, hence after a rotation, so it is never taken for the
\* successor of "no previous token".
Rotated(t) ==
    \/ jar = NoToken \/ shown[t] = "in"
    \/ req[t].token = NoToken /\ req[t].phase # "idle"
    \/ req[t].phase \in {"granted", "leaving", "revoking", "left"}

SessionInv ==
    /\ TypeOK
    /\ row.previous = IF row.current = 0 THEN NoToken ELSE row.current - 1
    /\ \A t \in Tabs : Rotated(t) => row.current > 0
    /\ \A t \in Tabs : req[t].phase \in {"claim", "granted"} => req[t].token \in Nat
    /\ \A t \in Tabs : req[t].late => row.revoked /\ req[t].phase # "granted"
\* A request for a token that carries a cookie, not yet refused.
Asking ==
    {t \in Tabs : /\ req[t].phase \in {"lookup", "replay", "claim", "beaten", "granted"}
                  /\ req[t].token # NoToken}

\* A request is answered with the cookie of its own time.
InTime ==
    \A t \in Tabs : req[t].phase # "idle" =>
        req[t].since <= req[t].at /\ req[t].at <= now /\ now <= req[t].since + MaxLatency

\* What is asked for: the current token, which can still be claimed, or its
\* predecessor, by a request that was under way at the rotation.
AskedIsRecent ==
    \A t \in Asking :
        /\ req[t].token = row.current =>
               \/ req[t].phase \in {"lookup", "claim"}
               \/ row.revoked /\ req[t].phase = "beaten"
        /\ req[t].token # row.current =>
               req[t].token + 1 = row.current /\ req[t].since <= row.usedAt + MaxLatency

AskedIsOne == \A t, u \in Asking : req[t].token = req[u].token

\* While a request for a replaced cookie is under way, no other tab sends one
\* for the cookie of the jar: it is busy or has just been answered.
OthersRest ==
    \A t \in Asking : jar \notin {NoToken, req[t].token} =>
        \A u \in Tabs \ {t} : \/ req[u].phase # "idle"
                              \/ shown[u] # "opening" /\ req[t].since <= rested[u]

\* The jar holds the current token, or its answer is on the way.
JarIsCurrent ==
    jar \in {NoToken, row.current} \/
    /\ jar + 1 = row.current
    /\ \E t \in Asking : /\ req[t].token = jar /\ req[t].phase = "granted"
                         /\ req[t].since <= row.usedAt

NobodyIsOut ==
    /\ ~row.revoked /\ active /\ now < row.expiresAt /\ jar # NoToken
    /\ \A t \in Tabs : req[t].phase # "idle" => t \in Asking
    /\ \A t \in Tabs : shown[t] \in {"opening", "in"}

ConvergeInv ==
    /\ InTime /\ AskedIsRecent /\ AskedIsOne /\ OthersRest /\ JarIsCurrent
    /\ ended \/ NobodyIsOut

\* A request that goes to another phase keeps what it presented, and the other
\* tabs their requests.
LEMMA Moves ==
    ASSUME TypeOK, NEW t \in Tabs, NEW p \in Phases, Goes(t, p)
    PROVE  /\ req' \in [Tabs -> Request]
           /\ req'[t].phase = p /\ req'[t].token = req[t].token /\ req'[t].late = req[t].late
           /\ \A u \in Tabs \ {t} : req'[u] = req[u]
BY DEF Goes, TypeOK, Request

\* Revoking leaves the tokens of the row alone.
LEMMA Revokes ==
    ASSUME TypeOK, Revoke
    PROVE  /\ row' \in Row /\ row'.revoked
           /\ row'.current = row.current /\ row'.previous = row.previous
BY DEF Revoke, TypeOK, Row

\* A request that is found by the previous digest, or by none, carries a cookie.
LEMMA FoundHasToken ==
    ASSUME TimingAssumption, SessionInv, NEW t \in Tabs, req[t].phase # "idle", row.previous = req[t].token
    PROVE  req[t].token \in Nat /\ row.current > 0
<1>1. row.current > 0
  BY DEF TimingAssumption, SessionInv, TypeOK, Rotated, Request, Row
<1>2. row.previous = row.current - 1 /\ row.current \in Nat
  BY <1>1 DEF SessionInv, TypeOK, Row
<1>3. QED
  BY <1>1, <1>2

\* Refreshing keeps the session invariant.
LEMMA RefreshKeeps ==
    ASSUME TimingAssumption, SessionInv, NEW t \in Tabs, RefreshStep(t)
    PROVE  SessionInv'
<1> USE DEF Phases
<1>1. NoToken \notin Nat
  BY DEF TimingAssumption
<1>2. req[t] \in Request /\ row \in Row /\ req \in [Tabs -> Request] /\ TypeOK
  BY DEF SessionInv, TypeOK
<1>3. CASE Send(t)
  <2> DEFINE sends == [phase |-> "lookup", token |-> jar, at |-> now, since |-> now, late |-> row.revoked]
  <2>1. sends \in Request /\ req' = [req EXCEPT ![t] = sends]
    BY <1>3, <1>2 DEF Send, TypeOK, Request, Row
  <2>2. req' \in [Tabs -> Request] /\ req'[t] = sends /\ \A u \in Tabs \ {t} : req'[u] = req[u]
    BY <2>1, <1>2
  <2>3. TypeOK'
    BY <1>3, <2>2 DEF Send, SessionInv, TypeOK
  <2>4. ASSUME NEW u \in Tabs, Rotated(u)' PROVE row.current > 0
    <3>1. UNCHANGED <<jar, shown>>
      BY <1>3 DEF Send
    <3>2. CASE u # t
      BY <2>2, <2>4, <3>1, <3>2 DEF SessionInv, Rotated
    <3>3. CASE u = t
      <4>1. req'[t].phase = "lookup" /\ req'[t].token = jar
        BY <1>3, <2>2 DEF Send
      <4>2. Rotated(t)
        BY <2>4, <3>1, <3>3, <4>1 DEF Rotated
      <4>3. QED
        BY <4>2 DEF SessionInv
    <3>4. QED
      BY <3>2, <3>3
  <2>5. \A u \in Tabs : req'[u].late => row.revoked /\ req'[u].phase # "granted"
    BY <1>2, <2>2 DEF SessionInv, Row
  <2>6. QED
    BY <1>3, <2>2, <2>3, <2>4, <2>5 DEF Send, SessionInv
<1>4. CASE Lookup(t)
  <2>1. PICK p \in {"replay", "refused", "claim"} :
          /\ req'[t].phase = p /\ req'[t].token = req[t].token /\ req'[t].late = req[t].late
          /\ req' \in [Tabs -> Request] /\ \A u \in Tabs \ {t} : req'[u] = req[u]
          /\ p = "claim" => row.current = req[t].token /\ ~row.revoked
    BY <1>4, <1>2, Moves DEF Lookup, Goes, TypeOK, Request
  <2>2. UNCHANGED row \/ Revoke
    BY <1>4 DEF Lookup
  <2>3. /\ row' \in Row /\ row'.current = row.current /\ row'.previous = row.previous
        /\ row.revoked => row'.revoked
    BY <2>2, <1>2, Revokes
  <2>4. row.current \in Nat
    BY <1>2 DEF Row
  <2>5. QED
    BY <1>4, <2>1, <2>3, <2>4 DEF Lookup, SessionInv, TypeOK, Rotated
<1>5. CASE Replay(t)
  <2>1. PICK p \in {"granted", "refused"} :
          Goes(t, p) /\ (p = "granted" => row.previous = req[t].token /\ ~row.revoked)
    BY <1>5 DEF Replay, InGrace
  <2>2. /\ req'[t].phase = p /\ req'[t].token = req[t].token /\ req'[t].late = req[t].late
        /\ req' \in [Tabs -> Request] /\ \A u \in Tabs \ {t} : req'[u] = req[u]
    BY <2>1, <1>2, Moves
  <2>3. /\ row' \in Row /\ row'.current = row.current /\ row'.previous = row.previous
        /\ row.revoked => row'.revoked
    BY <1>5, <1>2, Revokes DEF Replay
  <2>4. p = "granted" => req[t].token \in Nat /\ row.current > 0
    BY <1>5, <2>1, FoundHasToken DEF Replay
  <2>5. QED
    BY <1>5, <2>1, <2>2, <2>3, <2>4 DEF Replay, SessionInv, TypeOK, Rotated
<1>6. CASE Claim(t)
  <2>1. CASE row.current = req[t].token /\ ~row.revoked
    <3>1. /\ row' \in Row /\ row'.current > 0 /\ row'.previous = row'.current - 1
          /\ ~row'.revoked
      <4>1. req[t].token \in Nat /\ req[t].token + 1 \in Nat /\ req[t].at \in Nat
        BY <2>1, <1>2 DEF Row, Request
      <4>2. row' = [row EXCEPT !.previous = req[t].token, !.current = req[t].token + 1,
                               !.usedAt = req[t].at]
        BY <1>6, <2>1 DEF Claim
      <4> DEFINE new == [current |-> req[t].token + 1, previous |-> req[t].token, usedAt |-> req[t].at,
                         expiresAt |-> row.expiresAt, revoked |-> row.revoked]
      <4>3. row' \in Row
        <5>1. row' = new
          BY <4>2, <1>2 DEF Row
        <5>2. new \in Row
          BY <4>1, <1>2 DEF Row
        <5>3. QED
          BY <5>1, <5>2
      <4>4. row'.current = req[t].token + 1 /\ row'.previous = req[t].token /\ row'.revoked = row.revoked
        BY <4>2, <1>2 DEF Row
      <4>5. QED
        BY <4>1, <4>3, <4>4, <2>1
    <3>2. /\ req'[t].phase = "granted" /\ req'[t].token = req[t].token /\ req'[t].late = req[t].late
          /\ req' \in [Tabs -> Request] /\ \A u \in Tabs \ {t} : req'[u] = req[u]
      BY <1>6, <2>1, <1>2, Moves DEF Claim
    <3>3. QED
      BY <1>6, <2>1, <3>1, <3>2, <1>1 DEF Claim, SessionInv, TypeOK, Rotated
  <2>2. CASE ~(row.current = req[t].token /\ ~row.revoked)
    <3>1. UNCHANGED row /\ Goes(t, "beaten")
      BY <1>6, <2>2 DEF Claim
    <3>2. /\ req'[t].phase = "beaten" /\ req'[t].token = req[t].token /\ req'[t].late = req[t].late
          /\ req' \in [Tabs -> Request] /\ \A u \in Tabs \ {t} : req'[u] = req[u]
      BY <3>1, <1>2, Moves
    <3>3. QED
      BY <1>6, <3>1, <3>2 DEF Claim, SessionInv, TypeOK, Rotated
  <2>3. QED
    BY <2>1, <2>2
<1>7. CASE Beaten(t)
  <2>1. PICK p \in {"granted", "refused"} :
          Goes(t, p) /\ (p = "granted" => row.previous = req[t].token /\ ~row.revoked)
    BY <1>7 DEF Beaten, InGrace
  <2>2. /\ req'[t].phase = p /\ req'[t].token = req[t].token /\ req'[t].late = req[t].late
        /\ req' \in [Tabs -> Request] /\ \A u \in Tabs \ {t} : req'[u] = req[u]
    BY <2>1, <1>2, Moves
  <2>3. p = "granted" => req[t].token \in Nat /\ row.current > 0
    BY <1>7, <2>1, FoundHasToken DEF Beaten
  <2>4. QED
    BY <1>7, <2>1, <2>2, <2>3 DEF Beaten, SessionInv, TypeOK, Rotated
<1>8. CASE Granted(t) \/ Refused(t)
  <2>1. NoRequest \in Request /\ NoRequest.phase = "idle" /\ ~NoRequest.late
    BY DEF NoRequest, Request
  <2>2. req' \in [Tabs -> Request] /\ req'[t] = NoRequest /\ \A u \in Tabs \ {t} : req'[u] = req[u]
    BY <1>8, <1>2, <2>1 DEF Granted, Refused
  <2>3. /\ shown' \in [Tabs -> {"opening", "in", "out", "left"}]
        /\ \A u \in Tabs \ {t} : shown'[u] = shown[u]
        /\ Granted(t) \/ shown'[t] # "in"
    BY <1>8 DEF Granted, Refused, SessionInv, TypeOK
  <2>4. Granted(t) => row.current > 0 /\ jar' \in Nat
    BY DEF Granted, SessionInv, Rotated
  <2>5. jar' \in Nat \union {NoToken} /\ (jar' = NoToken => jar = NoToken \/ row.current > 0)
    BY <1>8, <2>4 DEF Granted, Refused, SessionInv, TypeOK
  <2>6. QED
    BY <1>8, <2>1, <2>2, <2>3, <2>4, <2>5 DEF Granted, Refused, SessionInv, TypeOK, Rotated
<1>9. QED
  BY <1>3, <1>4, <1>5, <1>6, <1>7, <1>8 DEF RefreshStep

\* Logging out keeps it.
LEMMA LogoutKeeps ==
    ASSUME TimingAssumption, SessionInv, NEW t \in Tabs, LogoutStep(t)
    PROVE  SessionInv'
<1> USE DEF Phases
<1>1. NoToken \notin Nat
  BY DEF TimingAssumption
<1>2. req[t] \in Request /\ row \in Row /\ req \in [Tabs -> Request] /\ TypeOK
  BY DEF SessionInv, TypeOK
<1>3. CASE Leave(t)
  <2> DEFINE leaves == [phase |-> "leaving", token |-> jar, at |-> now, since |-> now, late |-> row.revoked]
  <2>1. leaves \in Request /\ req' = [req EXCEPT ![t] = leaves]
    BY <1>3, <1>2 DEF Leave, TypeOK, Request, Row
  <2>2. req' \in [Tabs -> Request] /\ req'[t] = leaves /\ \A u \in Tabs \ {t} : req'[u] = req[u]
    BY <2>1, <1>2
  <2>3. TypeOK'
    BY <1>3, <2>2 DEF Leave, SessionInv, TypeOK
  <2>4. ASSUME NEW u \in Tabs, Rotated(u)' PROVE row.current > 0
    <3>1. UNCHANGED <<jar, shown>>
      BY <1>3 DEF Leave
    <3>2. CASE u # t
      BY <2>2, <2>4, <3>1, <3>2 DEF SessionInv, Rotated
    <3>3. CASE u = t
      <4>1. req'[t].phase = "leaving" /\ req'[t].token = jar /\ shown[t] = "in"
        BY <1>3, <2>2 DEF Leave
      <4>2. Rotated(t)
        BY <2>4, <3>1, <3>3, <4>1 DEF Rotated
      <4>3. QED
        BY <4>2 DEF SessionInv
    <3>4. QED
      BY <3>2, <3>3
  <2>5. \A u \in Tabs : req'[u].late => row.revoked /\ req'[u].phase # "granted"
    BY <1>2, <2>2 DEF SessionInv, Row
  <2>6. QED
    BY <1>3, <2>2, <2>3, <2>4, <2>5 DEF Leave, SessionInv
<1>4. CASE LogoutReads(t) \/ LogoutWrites(t)
  <2>1. PICK p \in {"revoking", "left"} : Goes(t, p)
    BY <1>4 DEF LogoutReads, LogoutWrites
  <2>2. /\ req'[t].phase = p /\ req'[t].token = req[t].token /\ req'[t].late = req[t].late
        /\ req' \in [Tabs -> Request] /\ \A u \in Tabs \ {t} : req'[u] = req[u]
    BY <2>1, <1>2, Moves
  <2>3. /\ row' \in Row /\ row'.current = row.current /\ row'.previous = row.previous
        /\ row.revoked => row'.revoked
    BY <1>4, <1>2, Revokes DEF LogoutReads, LogoutWrites
  <2>4. row.current > 0
    BY <1>4 DEF LogoutReads, LogoutWrites, SessionInv, Rotated
  <2>5. QED
    BY <1>4, <2>2, <2>3, <2>4 DEF LogoutReads, LogoutWrites, SessionInv, TypeOK, Rotated
<1>5. CASE LogoutAnswered(t)
  <2>1. NoRequest \in Request /\ NoRequest.phase = "idle" /\ ~NoRequest.late
    BY DEF NoRequest, Request
  <2>2. req' \in [Tabs -> Request] /\ req'[t] = NoRequest /\ \A u \in Tabs \ {t} : req'[u] = req[u]
    BY <1>5, <1>2, <2>1 DEF LogoutAnswered
  <2>3. shown' \in [Tabs -> {"opening", "in", "out", "left"}]
    BY <1>5 DEF LogoutAnswered, SessionInv, TypeOK
  <2>4. row.current > 0
    BY <1>5 DEF LogoutAnswered, SessionInv, Rotated
  <2>5. QED
    BY <1>5, <2>1, <2>2, <2>3, <2>4 DEF LogoutAnswered, SessionInv, TypeOK, Rotated
<1>6. QED
  BY <1>3, <1>4, <1>5 DEF LogoutStep

\* It holds of a session just opened.
LEMMA SessionStart ==
    ASSUME TimingAssumption, Init
    PROVE  SessionInv
<1>1. Lifetime \in Nat /\ NoToken \notin Nat
  BY DEF TimingAssumption
<1>2. row \in Row /\ row.current = 0 /\ row.previous = NoToken
  BY <1>1 DEF Init, Row
<1>3. \A t \in Tabs : req[t] = NoRequest /\ shown[t] = "opening"
  BY DEF Init
<1>4. NoRequest \in Request /\ NoRequest.phase = "idle" /\ ~NoRequest.late
  BY DEF NoRequest, Request, Phases
<1>5. TypeOK
  BY <1>2, <1>4 DEF Init, TypeOK
<1>6. QED
  BY <1>1, <1>2, <1>3, <1>4, <1>5 DEF Init, SessionInv, Rotated

\* Every step keeps it.
LEMMA SessionStep ==
    ASSUME TimingAssumption, SessionInv, [Next]_vars
    PROVE  SessionInv'
<1>1. ASSUME NEW t \in Tabs, RefreshStep(t) \/ LogoutStep(t) PROVE SessionInv'
  BY <1>1, RefreshKeeps, LogoutKeeps
<1>2. CASE RevokedElsewhere
  BY <1>2, Revokes DEF RevokedElsewhere, SessionInv, TypeOK, Rotated
<1>3. CASE Deactivate \/ Tick \/ UNCHANGED vars
  <2>1. now' \in Nat
    BY <1>3 DEF Deactivate, Tick, vars, SessionInv, TypeOK
  <2>4. active' \in BOOLEAN
    BY <1>3 DEF Deactivate, Tick, vars, SessionInv, TypeOK
  <2>5. ended' \in BOOLEAN
    BY <1>3 DEF Deactivate, Tick, vars, SessionInv, TypeOK
  <2>2. UNCHANGED <<row, jar, req, shown, rested, sent>>
    BY <1>3 DEF Deactivate, Tick, vars
  <2>3. QED
    BY <2>1, <2>2, <2>4, <2>5 DEF SessionInv, TypeOK, Rotated
<1>4. QED
  BY <1>1, <1>2, <1>3 DEF Next

\* It holds always.
LEMMA SessionInvariant ==
    ASSUME TimingAssumption
    PROVE  Spec => []SessionInv
BY SessionStart, SessionStep, PTL DEF Spec

\* For any tabs, times and bounds, a refresh sent after the session was revoked
\* is not answered with a token.
THEOREM LateRequestsAreRefused ==
    ASSUME TimingAssumption
    PROVE  Spec => []RevokedIsRefused
<1>1. SessionInv => RevokedIsRefused
  BY DEF SessionInv, RevokedIsRefused
<1>2. QED
  BY <1>1, SessionInvariant, PTL

\* No step takes a revocation back.
LEMMA RevokedStays ==
    ASSUME SessionInv, [Next]_vars
    PROVE  RevocationIsFinalStep
<1>1. UNCHANGED row \/ Revoke \/ \E t \in Tabs : Claim(t) /\ ~row.revoked
  BY DEF Next, vars, RefreshStep, LogoutStep, Send, Lookup, Replay, Claim, Beaten, Granted,
         Refused, Leave, LogoutReads, LogoutWrites, LogoutAnswered, RevokedElsewhere,
         Deactivate, Tick
<1>2. QED
  BY <1>1, Revokes DEF RevocationIsFinalStep, SessionInv

\* For any tabs, times and bounds, no step moves a revoked session on or lifts
\* its revocation.
THEOREM RevocationHolds ==
    ASSUME TimingAssumption
    PROVE  Spec => RevocationIsFinal
<1>1. SessionInv /\ [Next]_vars => [RevocationIsFinalStep]_vars
  BY RevokedStays
<1>2. QED
  BY <1>1, SessionInvariant, PTL DEF Spec, RevocationIsFinal

\* The other tabs' requests are as they were.
LEMMA OthersAsk ==
    ASSUME NEW t \in Tabs, \A u \in Tabs \ {t} : req'[u] = req[u]
    PROVE  \A u \in Tabs \ {t} : u \in Asking' <=> u \in Asking
BY DEF Asking

\* The numbers that the steps compare.
LEMMA AsksTypes ==
    ASSUME TimingAssumption, SessionInv
    PROVE  /\ now \in Nat /\ MaxLatency \in Nat /\ MinGap \in Nat /\ Grace \in Nat
           /\ row.current \in Nat /\ row.usedAt \in Nat /\ row.expiresAt \in Nat
           /\ NoToken \notin Nat
           /\ \A t \in Tabs : /\ req[t].at \in Nat /\ req[t].since \in Nat
                              /\ req[t].token \in Nat \union {NoToken}
                              /\ rested[t] \in Nat
           /\ \A t \in Asking : t \in Tabs /\ req[t].token \in Nat
BY DEF TimingAssumption, SessionInv, TypeOK, Row, Request, Asking

\* Sending a request keeps two tabs in step.
LEMMA SendConverges ==
    ASSUME TimingAssumption, TwoTabsInTime, SessionInv, ConvergeInv, NEW t \in Tabs, Send(t)
    PROVE  ConvergeInv'
<1> DEFINE sends == [phase |-> "lookup", token |-> jar, at |-> now, since |-> now, late |-> row.revoked]
<1>1. req' = [req EXCEPT ![t] = sends] /\ UNCHANGED <<now, row, active, jar, shown, rested, ended>>
  BY DEF Send
<1>2. req'[t] = sends /\ \A u \in Tabs \ {t} : req'[u] = req[u]
  BY <1>1 DEF SessionInv, TypeOK
<1>3. /\ req'[t].phase = "lookup" /\ req'[t].token = jar
      /\ req'[t].at = now /\ req'[t].since = now
  BY <1>2
<1> HIDE DEF sends
<1>4. t \notin Asking /\ (t \in Asking' <=> jar # NoToken)
  BY <1>3 DEF Send, Asking
<1>5. \A u \in Tabs \ {t} : u \in Asking' <=> u \in Asking
  BY <1>2, OthersAsk
<1>6. \A u \in Asking : jar # NoToken => jar = req[u].token
  <2> SUFFICES ASSUME NEW u \in Asking, jar \notin {NoToken, req[u].token} PROVE FALSE
    OBVIOUS
  <2>1. u \in Tabs /\ u # t /\ req[u].phase # "idle"
    BY <1>4 DEF Asking
  <2>2. req[u].since <= rested[t] /\ rested[t] + MinGap <= now
    BY <2>1, AsksTypes DEF Send, ConvergeInv, OthersRest
  <2>3. now <= req[u].since + MaxLatency
    BY <2>1 DEF ConvergeInv, InTime
  <2>4. QED
    BY <2>1, <2>2, <2>3, AsksTypes DEF TwoTabsInTime
<1>7. InTime'
  BY <1>1, <1>2, <1>3, AsksTypes DEF ConvergeInv, InTime
<1>8. AskedIsRecent'
  <2>1. ASSUME jar # NoToken, jar # row.current
        PROVE  jar + 1 = row.current /\ now <= row.usedAt + MaxLatency
    <3>1. PICK u \in Asking : req[u].phase = "granted" /\ req[u].since <= row.usedAt
      BY <2>1 DEF ConvergeInv, JarIsCurrent
    <3>2. now <= req[u].since + MaxLatency
      BY <3>1, AsksTypes DEF ConvergeInv, InTime
    <3>3. QED
      BY <2>1, <3>1, <3>2, AsksTypes DEF ConvergeInv, JarIsCurrent
  <2>2. \A u \in Asking' : u \in Tabs
    BY DEF Asking
  <2>3. QED
    BY <1>1, <1>2, <1>3, <1>4, <1>5, <2>1, <2>2 DEF ConvergeInv, AskedIsRecent
<1>9. \A u \in Asking' : /\ u # t => u \in Asking
                         /\ u = t => jar # NoToken
                         /\ jar # NoToken => req'[u].token = jar
  BY <1>2, <1>3, <1>4, <1>5, <1>6 DEF Asking
<1>10. QED
  <2>1. AskedIsOne'
    <3>1. CASE jar = NoToken
      BY <3>1, <1>2, <1>4, <1>9 DEF ConvergeInv, AskedIsOne, Asking
    <3>2. CASE jar # NoToken
      BY <3>2, <1>9 DEF AskedIsOne
    <3>3. QED
      BY <3>1, <3>2
  <2>5. OthersRest'
    BY <1>1, <1>9 DEF OthersRest
  <2>2. JarIsCurrent'
    BY <1>1, <1>2, <1>4, <1>5, AsksTypes DEF ConvergeInv, JarIsCurrent
  <2>3. ended' \/ NobodyIsOut'
    BY <1>1, <1>2, <1>4, <1>5 DEF ConvergeInv, NobodyIsOut
  <2>4. QED
    BY <1>7, <1>8, <2>1, <2>2, <2>3, <2>5 DEF ConvergeInv

\* A step of a request that is asking, other than the rotation: it goes on
\* asking or is refused, and refused only if the session has ended.
LEMMA AnswerConverges ==
    ASSUME TimingAssumption, TwoTabsInTime, SessionInv, ConvergeInv, NEW t \in Tabs,
           req[t].phase \in {"lookup", "replay", "claim", "beaten"},
           req'[t].phase \in {"replay", "claim", "beaten", "granted", "refused"},
           req'[t].token = req[t].token, req'[t].since = req[t].since,
           req'[t].at \in {req[t].at, now},
           \A u \in Tabs \ {t} : req'[u] = req[u],
           UNCHANGED <<now, active, jar, shown, rested, ended>>,
           row'.current = row.current, row'.usedAt = row.usedAt,
           row'.expiresAt = row.expiresAt, row.revoked => row'.revoked,
           req[t].token = row.current => \/ req'[t].phase \in {"claim", "refused"}
                                         \/ row'.revoked /\ req'[t].phase = "beaten",
           NobodyIsOut => ~row'.revoked /\ req'[t].phase # "refused"
    PROVE  ConvergeInv'
<1>1. \A u \in Tabs \ {t} : u \in Asking' <=> u \in Asking
  BY OthersAsk
<1>2. /\ t \in Asking <=> req[t].token # NoToken
      /\ t \in Asking' <=> req[t].token # NoToken /\ req'[t].phase # "refused"
  BY DEF Asking
<1>3. \A u \in Asking' : u \in Tabs /\ u \in Asking /\ req'[u].token = req[u].token
                         /\ req'[u].since = req[u].since
  BY <1>1, <1>2 DEF Asking
<1>4. \A u \in Tabs : req'[u].phase = "idle" <=> req[u].phase = "idle"
  OBVIOUS
<1>5. InTime'
  BY AsksTypes DEF ConvergeInv, InTime
<1>6. AskedIsRecent'
  <2> SUFFICES ASSUME NEW u \in Asking'
               PROVE  /\ req'[u].token = row.current =>
                             \/ req'[u].phase \in {"lookup", "claim"}
                             \/ row'.revoked /\ req'[u].phase = "beaten"
                      /\ req'[u].token # row.current =>
                             /\ req'[u].token + 1 = row.current
                             /\ req'[u].since <= row.usedAt + MaxLatency
    BY DEF AskedIsRecent
  <2>1. CASE u = t
    BY <2>1, <1>2, <1>3 DEF ConvergeInv, AskedIsRecent
  <2>2. CASE u # t
    BY <2>2, <1>3 DEF ConvergeInv, AskedIsRecent
  <2>3. QED
    BY <2>1, <2>2
<1>7. AskedIsOne'
  BY <1>3 DEF ConvergeInv, AskedIsOne
<1>8. OthersRest'
  <2> SUFFICES ASSUME NEW v \in Asking', jar \notin {NoToken, req[v].token}, NEW u \in Tabs \ {v}
               PROVE  \/ req'[u].phase # "idle"
                      \/ shown[u] # "opening" /\ req[v].since <= rested[u]
    BY <1>3 DEF OthersRest
  <2>1. QED
    BY <1>3, <1>4 DEF ConvergeInv, OthersRest
<1>9. JarIsCurrent'
  BY <1>1, <1>3 DEF ConvergeInv, JarIsCurrent, Asking
<1>10. ended' \/ NobodyIsOut'
  <2>1. CASE ended
    BY <2>1
  <2>2. CASE NobodyIsOut
    <3>1. t \in Asking'
      BY <2>2, <1>2 DEF NobodyIsOut
    <3>2. \A u \in Tabs : req'[u].phase # "idle" => u \in Asking'
      BY <2>2, <3>1, <1>1 DEF NobodyIsOut
    <3>3. QED
      BY <2>2, <3>2 DEF NobodyIsOut
  <2>3. QED
    BY <2>1, <2>2 DEF ConvergeInv
<1>11. QED
  BY <1>5, <1>6, <1>7, <1>8, <1>9, <1>10 DEF ConvergeInv

\* A request that has found the row by its previous token asks in time for it.
LEMMA AsksInGrace ==
    ASSUME TimingAssumption, TwoTabsInTime, SessionInv, ConvergeInv, NobodyIsOut, NEW t \in Tabs,
           req[t].phase \in {"replay", "beaten"}
    PROVE  row.previous = req[t].token /\ InGrace(t) /\ active
<1>1. t \in Asking /\ ~row.revoked /\ active /\ now < row.expiresAt
  BY DEF NobodyIsOut
<1>2. req[t].token + 1 = row.current /\ req[t].since <= row.usedAt + MaxLatency
  BY <1>1 DEF ConvergeInv, AskedIsRecent
<1>3. req[t].at <= now /\ now <= req[t].since + MaxLatency
  BY DEF ConvergeInv, InTime
<1>4. row.previous = req[t].token
  BY <1>1, <1>2, AsksTypes DEF SessionInv
<1>5. req[t].at <= row.usedAt + Grace /\ row.expiresAt > req[t].at
  BY <1>1, <1>2, <1>3, AsksTypes DEF TwoTabsInTime
<1>6. QED
  BY <1>1, <1>4, <1>5 DEF InGrace

\* Reading the row for a request keeps them in step.
LEMMA LookupConverges ==
    ASSUME TimingAssumption, TwoTabsInTime, SessionInv, ConvergeInv, NEW t \in Tabs, Lookup(t)
    PROVE  ConvergeInv'
<1>1. PICK p \in {"replay", "refused", "claim"} :
        /\ req'[t].phase = p /\ req'[t].token = req[t].token
        /\ req'[t].since = req[t].since /\ req'[t].at \in {req[t].at, now}
        /\ \A u \in Tabs \ {t} : req'[u] = req[u]
        /\ p = "replay" => req[t].token # row.current
        /\ p = "refused" => row.revoked \/ row.expiresAt <= now \/ ~active
  BY DEF Lookup, Goes, SessionInv, TypeOK, Request
<1>2. /\ row'.current = row.current /\ row'.usedAt = row.usedAt
      /\ row'.expiresAt = row.expiresAt
      /\ row.revoked => row'.revoked
      /\ row' = row \/ ~active
  BY DEF Lookup, Revoke, SessionInv, TypeOK, Row
<1>3. req[t].phase = "lookup" /\ UNCHANGED <<now, active, jar, shown, rested, ended>>
  BY DEF Lookup
<1>4. NobodyIsOut => ~row'.revoked /\ p # "refused"
  BY <1>1, <1>2, AsksTypes DEF NobodyIsOut
<1>5. QED
  <2>1. req'[t].phase \in {"replay", "claim", "beaten", "granted", "refused"}
        /\ (req[t].token = row.current => req'[t].phase \in {"claim", "refused"})
    BY <1>1
  <2>2. NobodyIsOut => ~row'.revoked /\ req'[t].phase # "refused"
    BY <1>1, <1>4
  <2>3. QED
    BY <1>1, <1>2, <1>3, <2>1, <2>2, AnswerConverges

\* So does the answer to the token before the current one.
LEMMA ReplayConverges ==
    ASSUME TimingAssumption, TwoTabsInTime, SessionInv, ConvergeInv, NEW t \in Tabs,
           Replay(t) \/ Beaten(t)
    PROVE  ConvergeInv'
<1>1. PICK p \in {"granted", "refused"} :
        Goes(t, p) /\ (p = "granted" => row.previous = req[t].token)
  BY DEF Replay, Beaten
<1>2. /\ req'[t].phase = p /\ req'[t].token = req[t].token
      /\ req'[t].since = req[t].since /\ req'[t].at = req[t].at
      /\ \A u \in Tabs \ {t} : req'[u] = req[u]
  BY <1>1 DEF Goes, SessionInv, TypeOK, Request
<1>3. /\ row'.current = row.current /\ row'.usedAt = row.usedAt
      /\ row'.expiresAt = row.expiresAt
      /\ row.revoked => row'.revoked
  BY DEF Replay, Beaten, Revoke, SessionInv, TypeOK, Row
<1>4. req[t].phase \in {"replay", "beaten"} /\ UNCHANGED <<now, active, jar, shown, rested, ended>>
  BY DEF Replay, Beaten
<1>5. p = "granted" => req[t].token # row.current
  BY <1>1, AsksTypes DEF SessionInv
<1>6. NobodyIsOut => ~row'.revoked /\ p # "refused"
  <2> SUFFICES ASSUME NobodyIsOut PROVE ~row'.revoked /\ p # "refused"
    OBVIOUS
  <2>1. row.previous = req[t].token /\ InGrace(t) /\ active
    BY <1>4, AsksInGrace
  <2>2. Goes(t, "granted") /\ UNCHANGED row
    BY <2>1 DEF Replay, Beaten
  <2>3. req'[t].phase = "granted"
    BY <2>2 DEF Goes, SessionInv, TypeOK, Request
  <2>4. QED
    BY <1>2, <2>2, <2>3 DEF NobodyIsOut
<1>7. QED
  <2>1. req'[t].phase \in {"replay", "claim", "beaten", "granted", "refused"}
        /\ (req[t].token = row.current => req'[t].phase \in {"claim", "refused"})
    BY <1>2, <1>5
  <2>2. NobodyIsOut => ~row'.revoked /\ req'[t].phase # "refused"
    BY <1>2, <1>6
  <2>3. QED
    BY <1>2, <1>3, <1>4, <2>1, <2>2, AnswerConverges

\* So does a rotation.
LEMMA ClaimConverges ==
    ASSUME TimingAssumption, TwoTabsInTime, SessionInv, ConvergeInv, NEW t \in Tabs, Claim(t)
    PROVE  ConvergeInv'
<1> DEFINE won == row.current = req[t].token /\ ~row.revoked
<1>1. /\ req'[t].phase = IF won THEN "granted" ELSE "beaten"
      /\ req'[t].token = req[t].token
      /\ req'[t].since = req[t].since /\ req'[t].at = req[t].at
      /\ \A u \in Tabs \ {t} : req'[u] = req[u]
  BY DEF Claim, Goes, SessionInv, TypeOK, Request
<1>2. req[t].phase = "claim" /\ UNCHANGED <<now, active, jar, shown, rested, ended>>
  BY DEF Claim
<1>3. CASE ~won
  <2>1. UNCHANGED row
    BY <1>3 DEF Claim
  <2>2. NobodyIsOut => ~row.revoked
    BY DEF NobodyIsOut
  <2>3. QED
    BY <1>1, <1>2, <1>3, <2>1, <2>2, AnswerConverges
<1>4. CASE won
  <2>1. /\ row'.current = row.current + 1 /\ row'.usedAt = req[t].at
        /\ row'.expiresAt = row.expiresAt /\ row'.revoked = row.revoked
    BY <1>4 DEF Claim, SessionInv, TypeOK, Row
  <2>2. t \in Asking /\ \A u \in Asking : req[u].token = row.current
    BY <1>2, <1>4, AsksTypes DEF Asking, ConvergeInv, AskedIsOne
  <2>3. \A u \in Tabs : u \in Asking' <=> u \in Asking
    BY <1>1, <1>2, <1>4, OthersAsk, <2>2 DEF Asking
  <2>4. \A u \in Tabs : req'[u].token = req[u].token /\ req'[u].since = req[u].since
                        /\ req'[u].at = req[u].at /\ (req'[u].phase = "idle" <=> req[u].phase = "idle")
    BY <1>1, <1>2, <1>4
  <2>5. \A u \in Asking' : u \in Tabs /\ u \in Asking /\ req'[u].token = row.current
                           /\ req'[u].since = req[u].since
    BY <2>2, <2>3, <2>4 DEF Asking
  <2>6. InTime'
    BY <1>2, <2>4 DEF ConvergeInv, InTime
  <2>7. AskedIsRecent'
    <3>1. \A u \in Asking : req[u].since <= req[t].at + MaxLatency
      BY <1>2, <2>2, AsksTypes DEF ConvergeInv, InTime, Asking
    <3>2. QED
      BY <2>1, <2>5, <3>1, AsksTypes DEF AskedIsRecent
  <2>8. AskedIsOne'
    BY <2>5 DEF AskedIsOne
  <2>9. OthersRest'
    <3> SUFFICES ASSUME NEW v \in Asking', jar \notin {NoToken, req[v].token}, NEW u \in Tabs \ {v}
                 PROVE  \/ req'[u].phase # "idle"
                        \/ shown[u] # "opening" /\ req[v].since <= rested[u]
      BY <1>2, <2>4, <2>5 DEF OthersRest
    <3>1. QED
      BY <2>4, <2>5 DEF ConvergeInv, OthersRest
  <2>10. JarIsCurrent'
    <3>1. jar \in {NoToken, row.current}
      BY <2>2, AsksTypes DEF ConvergeInv, JarIsCurrent
    <3>2. t \in Asking' /\ req'[t].token = row.current /\ req'[t].phase = "granted"
          /\ req'[t].since <= row'.usedAt
      BY <1>1, <1>2, <1>4, <2>1, <2>2, <2>3 DEF ConvergeInv, InTime
    <3>3. QED
      BY <1>2, <2>1, <3>1, <3>2 DEF JarIsCurrent
  <2>11. ended' \/ NobodyIsOut'
    BY <1>2, <2>1, <2>3, <2>4 DEF ConvergeInv, NobodyIsOut
  <2>12. QED
    BY <2>6, <2>7, <2>8, <2>9, <2>10, <2>11 DEF ConvergeInv
<1>5. QED
  BY <1>3, <1>4

\* The end of a request: the tab rests, and what it was told is not older than
\* what the others ask for.
LEMMA ArrivalConverges ==
    ASSUME TimingAssumption, TwoTabsInTime, SessionInv, ConvergeInv, NEW t \in Tabs,
           Granted(t) \/ Refused(t) \/ LogoutAnswered(t)
    PROVE  ConvergeInv'
<1>1. req' = [req EXCEPT ![t] = NoRequest] /\ UNCHANGED <<now, row, active, ended>>
  BY DEF Granted, Refused, LogoutAnswered
<1>2. req'[t].phase = "idle" /\ \A u \in Tabs \ {t} : req'[u] = req[u]
  BY <1>1 DEF SessionInv, TypeOK, NoRequest
<1>3. t \notin Asking' /\ \A u \in Tabs \ {t} : u \in Asking' <=> u \in Asking
  BY <1>2, OthersAsk DEF Asking
<1>4. \A u \in Asking' : u \in Tabs \ {t} /\ u \in Asking /\ req'[u] = req[u]
  BY <1>2, <1>3 DEF Asking
<1>5. /\ rested'[t] = now /\ shown'[t] # "opening"
      /\ \A u \in Tabs \ {t} : rested'[u] = rested[u] /\ shown'[u] = shown[u]
  BY DEF Granted, Refused, LogoutAnswered, SessionInv, TypeOK
<1>6. \/ UNCHANGED jar /\ ~NobodyIsOut /\ req[t].phase # "granted"
      \/ jar' = NoToken /\ ~NobodyIsOut
      \/ jar' = row.current /\ Granted(t)
  <2>1. CASE Granted(t)
    <3>1. t \in Asking /\ req[t].phase = "granted"
      BY <2>1, AsksTypes DEF Granted, Asking, SessionInv
    <3>2. req[t].token # row.current
      BY <3>1 DEF ConvergeInv, AskedIsRecent
    <3>3. req[t].token + 1 = row.current
      BY <3>1, <3>2 DEF ConvergeInv, AskedIsRecent
    <3>4. QED
      BY <2>1, <3>3 DEF Granted
  <2>2. CASE Refused(t) \/ LogoutAnswered(t)
    BY <2>2 DEF Refused, LogoutAnswered, NobodyIsOut, Asking
  <2>3. QED
    BY <2>1, <2>2
<1>7. InTime'
  BY <1>1, <1>2 DEF ConvergeInv, InTime
<1>8. AskedIsRecent' /\ AskedIsOne'
  BY <1>1, <1>4 DEF ConvergeInv, AskedIsRecent, AskedIsOne
<1>9. OthersRest'
  <2> SUFFICES ASSUME NEW v \in Asking', NEW u \in Tabs \ {v}
               PROVE  shown'[u] # "opening" /\ req[v].since <= rested'[u]
    BY <1>4 DEF OthersRest
  <2>1. u = t
    BY <1>4 DEF TwoTabsInTime
  <2>2. req[v].since <= now
    BY <1>4, AsksTypes DEF ConvergeInv, InTime, Asking
  <2>3. QED
    BY <2>1, <2>2, <1>5
<1>10. JarIsCurrent'
  BY <1>1, <1>3, <1>2, <1>6 DEF ConvergeInv, JarIsCurrent, Asking
<1>11. ended' \/ NobodyIsOut'
  <2>1. CASE ended
    BY <2>1, <1>1
  <2>2. CASE NobodyIsOut
    <3>1. jar' = row.current /\ Granted(t)
      BY <2>2, <1>6
    <3>2. shown'[t] = "in"
      BY <3>1 DEF Granted, SessionInv, TypeOK
    <3>3. QED
      BY <2>2, <3>1, <3>2, <1>1, <1>2, <1>3, <1>5, AsksTypes DEF NobodyIsOut
  <2>3. QED
    BY <2>1, <2>2 DEF ConvergeInv
<1>12. QED
  BY <1>7, <1>8, <1>9, <1>10, <1>11 DEF ConvergeInv

\* So does a logout, at each of its steps.
LEMMA LogoutConverges ==
    ASSUME TimingAssumption, TwoTabsInTime, SessionInv, ConvergeInv, NEW t \in Tabs,
           Leave(t) \/ LogoutReads(t) \/ LogoutWrites(t)
    PROVE  ConvergeInv'
<1>1. /\ UNCHANGED <<now, active, jar, shown, rested>>
      /\ ended' = TRUE \/ UNCHANGED ended
  BY DEF Leave, LogoutReads, LogoutWrites
<1>2. /\ row'.current = row.current /\ row'.usedAt = row.usedAt
      /\ row.revoked => row'.revoked
  BY DEF Leave, LogoutReads, LogoutWrites, Revoke, SessionInv, TypeOK, Row
<1>3. /\ req'[t].phase \in {"leaving", "revoking", "left"}
      /\ \A u \in Tabs \ {t} : req'[u] = req[u]
      /\ \/ req'[t].since = now /\ req'[t].at = now
         \/ req[t].phase # "idle" /\ req'[t].since = req[t].since /\ req'[t].at = req[t].at
  BY DEF Leave, LogoutReads, LogoutWrites, Goes, SessionInv, TypeOK, Request
<1>4. \A u \in Asking' : u \in Tabs \ {t} /\ u \in Asking /\ req'[u] = req[u]
  BY <1>3, OthersAsk DEF Asking
<1>5. t \notin Asking /\ \A u \in Asking : u \in Asking' /\ req'[u] = req[u]
  BY <1>3, OthersAsk DEF Asking, Leave, LogoutReads, LogoutWrites
<1>6. InTime'
  BY <1>1, <1>3, AsksTypes DEF ConvergeInv, InTime
<1>7. AskedIsRecent' /\ AskedIsOne'
  BY <1>1, <1>2, <1>4 DEF ConvergeInv, AskedIsRecent, AskedIsOne
<1>8. OthersRest'
  <2> SUFFICES ASSUME NEW v \in Asking', jar \notin {NoToken, req[v].token}, NEW u \in Tabs \ {v}
               PROVE  \/ req'[u].phase # "idle"
                      \/ shown[u] # "opening" /\ req[v].since <= rested[u]
    BY <1>1, <1>4 DEF OthersRest
  <2>1. QED
    BY <1>3, <1>4 DEF ConvergeInv, OthersRest
<1>9. JarIsCurrent'
  BY <1>1, <1>2, <1>5 DEF ConvergeInv, JarIsCurrent
<1>10. ended' = TRUE
  BY <1>5 DEF Leave, LogoutReads, LogoutWrites, ConvergeInv, NobodyIsOut
<1>11. QED
  BY <1>6, <1>7, <1>8, <1>9, <1>10 DEF ConvergeInv

\* So do the clock and what happens to the session elsewhere.
LEMMA WorldConverges ==
    ASSUME TimingAssumption, TwoTabsInTime, SessionInv, ConvergeInv,
           RevokedElsewhere \/ Deactivate \/ Tick \/ UNCHANGED vars
    PROVE  ConvergeInv'
<1>1. UNCHANGED <<jar, req, shown, rested>> /\ Asking' = Asking
  BY DEF RevokedElsewhere, Deactivate, Tick, vars, Asking
<1>2. /\ row'.current = row.current /\ row'.usedAt = row.usedAt
      /\ row.revoked => row'.revoked
  BY DEF RevokedElsewhere, Deactivate, Tick, vars, Revoke, SessionInv, TypeOK, Row
<1>3. InTime'
  BY <1>1, AsksTypes DEF RevokedElsewhere, Deactivate, Tick, vars, ConvergeInv, InTime, InFlight,
                         SessionInv, TypeOK, Request
<1>4. AskedIsRecent' /\ AskedIsOne' /\ OthersRest' /\ JarIsCurrent'
  BY <1>1, <1>2 DEF ConvergeInv, AskedIsRecent, AskedIsOne, OthersRest, JarIsCurrent
<1>5. ended' \/ NobodyIsOut'
  <2>1. CASE RevokedElsewhere \/ Deactivate
    <3>1. ended' = TRUE
      BY <2>1 DEF RevokedElsewhere, Deactivate
    <3>2. QED
      BY <3>1
  <2>2. CASE Tick
    <3>1. CASE ended
      BY <2>2, <3>1 DEF Tick
    <3>2. CASE NobodyIsOut /\ now + 1 >= row.expiresAt
      BY <2>2, <3>2 DEF Tick
    <3>3. CASE NobodyIsOut /\ now + 1 < row.expiresAt
      <4>1. now' < row'.expiresAt /\ UNCHANGED <<row, active>>
        BY <2>2, <3>3 DEF Tick
      <4>2. NobodyIsOut'
        BY <3>3, <4>1, <1>1 DEF NobodyIsOut
      <4>3. QED
        BY <4>2
    <3>4. QED
      BY <3>1, <3>2, <3>3, AsksTypes DEF ConvergeInv
  <2>3. CASE UNCHANGED vars
    BY <2>3, <1>1 DEF vars, ConvergeInv, NobodyIsOut
  <2>4. QED
    BY <2>1, <2>2, <2>3
<1>6. QED
  BY <1>3, <1>4, <1>5 DEF ConvergeInv

\* Two tabs start in step.
LEMMA ConvergeStart ==
    ASSUME TimingAssumption, TwoTabsInTime, Init
    PROVE  ConvergeInv
<1>1. \A t \in Tabs : req[t].phase = "idle" /\ shown[t] = "opening"
  BY DEF Init, NoRequest
<1>2. Asking = {} /\ jar = row.current /\ jar # NoToken
  BY <1>1 DEF Init, Asking, TimingAssumption
<1>3. NobodyIsOut
  BY <1>1, <1>2 DEF Init, NobodyIsOut, TwoTabsInTime
<1>4. QED
  BY <1>1, <1>2, <1>3 DEF ConvergeInv, InTime, AskedIsRecent, AskedIsOne, OthersRest, JarIsCurrent

\* Every step keeps two tabs in step.
LEMMA ConvergeStep ==
    ASSUME TimingAssumption, TwoTabsInTime, SessionInv, ConvergeInv, [Next]_vars
    PROVE  ConvergeInv'
<1>1. ASSUME NEW t \in Tabs, RefreshStep(t) PROVE ConvergeInv'
  BY <1>1, SendConverges, LookupConverges, ReplayConverges, ClaimConverges, ArrivalConverges
     DEF RefreshStep
<1>2. ASSUME NEW t \in Tabs, LogoutStep(t) PROVE ConvergeInv'
  BY <1>2, LogoutConverges, ArrivalConverges DEF LogoutStep
<1>3. QED
  BY <1>1, <1>2, WorldConverges DEF Next

\* What being in step is for.
LEMMA Converged ==
    ASSUME TimingAssumption, TwoTabsInTime, SessionInv, ConvergeInv
    PROVE  TypeOK /\ TabsStaySignedIn /\ JarIsUsable /\ RevokedIsRefused
<1>1. TypeOK /\ RevokedIsRefused
  BY DEF SessionInv, RevokedIsRefused
<1>2. TabsStaySignedIn
  BY DEF ConvergeInv, NobodyIsOut, TabsStaySignedIn
<1>3. JarIsUsable
  BY AsksTypes DEF ConvergeInv, JarIsCurrent, JarIsUsable
<1>4. QED
  BY <1>1, <1>2, <1>3

\* Two tabs whose requests are answered within half of the grace period, and
\* that wait longer than that before the next one, stay signed in whatever their
\* requests do to each other, and the cookie they share stays usable.
THEOREM TwoTabsConverge ==
    ASSUME TimingAssumption, TwoTabsInTime
    PROVE  Spec => [](TypeOK /\ TabsStaySignedIn /\ JarIsUsable)
<1>1. Init => SessionInv /\ ConvergeInv
  BY SessionStart, ConvergeStart
<1>2. SessionInv /\ ConvergeInv /\ [Next]_vars => (SessionInv /\ ConvergeInv)'
  BY SessionStep, ConvergeStep
<1>3. SessionInv /\ ConvergeInv => TypeOK /\ TabsStaySignedIn /\ JarIsUsable
  BY Converged
<1>4. QED
  BY <1>1, <1>2, <1>3, PTL DEF Spec
================================================================================
