------------------------------ MODULE ApiQueries ------------------------------
(***************************************************************************)
(* A page's use of useApiQuery, as the values its result goes through.     *)
(* Only the newest request can be answered: ApiQuery shows that the hook   *)
(* ignores the others.                                                     *)
(***************************************************************************)
CONSTANT None      \* no data

IsQuery(q) ==
    q \in [data : {q.data}, loading : BOOLEAN, error : BOOLEAN, served : BOOLEAN, answer : {q.answer}]

NewQuery == [data |-> None, loading |-> FALSE, error |-> FALSE, served |-> FALSE, answer |-> None]

Ask(q) == [q EXCEPT !.loading = TRUE, !.error = FALSE, !.served = FALSE, !.answer = None]

Unserved(q) == q.loading /\ ~q.served
Serve(q, v) == [q EXCEPT !.served = TRUE, !.answer = v]

Land(q) == [q EXCEPT !.data = q.answer, !.loading = FALSE, !.served = FALSE, !.answer = None]
Fault(q) == [q EXCEPT !.error = TRUE, !.loading = FALSE, !.served = FALSE, !.answer = None]

Settled(q) == ~q.loading /\ ~q.error
===============================================================================
