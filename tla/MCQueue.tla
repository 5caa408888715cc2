------------------------------ MODULE MCQueue ------------------------------
(* Instances of Queue for TLC. *)
EXTENDS Queue, TLC

CONSTANTS s1, s2, s3

MCRule == [s \in Slots |-> IF s = s2 THEN "line" ELSE "corners"]

\* Every order of the slots at the start; and one that leaves a slot out.
MCOrders == SetToSeqs(Created \ Big)
MCPartialOrders == {<<s2>>}

Interchangeable == Permutations(Sessions)

\* The state without what nobody reads again: rows free for use, and deadlines of
\* sessions that do not wait any more.
Seen ==
    <<slot, tx, opening, review, asked, opened,
      [x \in Sessions |->
         IF x \in Free THEN NoSession
         ELSE IF session[x].status = "READY" THEN session[x]
         ELSE [session[x] EXCEPT !.due = "unset"]]>>
=============================================================================
