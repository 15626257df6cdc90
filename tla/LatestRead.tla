------------------------------ MODULE LatestRead ------------------------------
(***************************************************************************)
(* What a component that reads the server through useApiQuery relies on:   *)
(* it wants one key at a time, and once it is settled it shows a value     *)
(* that key had on the server at some moment since the component last      *)
(* asked.  An answer to an earlier question never appears.                 *)
(***************************************************************************)
CONSTANTS Keys, Values, None

VARIABLES
    want,      \* the key in demand, or None while the read is disabled
    held,      \* every value the wanted key has had since the last question
    shown,     \* the value on screen, or None
    state      \* "idle", "pending", "settled" or "failed"

vars == <<want, held, shown, state>>

Init == want = None /\ held = {} /\ shown = None /\ state = "idle"

\* A new question: the previous value stays on screen until this one settles.
Ask ==
    /\ want' \in Keys /\ state' = "pending"
    /\ \E v \in Values : held' = {v}
    /\ UNCHANGED shown

\* The wanted key changes on the server.
Change ==
    /\ want # None
    /\ \E v \in Values : held' = held \cup {v}
    /\ UNCHANGED <<want, shown, state>>

Settle == state = "pending" /\ state' = "settled" /\ shown' \in held /\ UNCHANGED <<want, held>>

Fail == state = "pending" /\ state' = "failed" /\ UNCHANGED <<want, held, shown>>

\* The read is switched off: nothing stays on screen.
Disable == want' = None /\ held' = {} /\ shown' = None /\ state' = "idle"

Next == Ask \/ Change \/ Settle \/ Fail \/ Disable

Spec == Init /\ [][Next]_vars
===============================================================================
