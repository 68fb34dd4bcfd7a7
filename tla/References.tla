----------------------------- MODULE References -----------------------------
(***************************************************************************)
(* What the foreign keys of the schema promise, whatever requests do: a    *)
(* row appears once, refers only to rows that are there, never refers to   *)
(* others later, and is only deleted when nothing refers to it.            *)
(***************************************************************************)
CONSTANT Row

VARIABLES
    rows,      \* the rows that are there
    gone,      \* those that were deleted: an id does not come back
    refs       \* refs[x]: the rows x refers to

vars == <<rows, gone, refs>>

Init == rows \in SUBSET Row /\ gone = {} /\ refs \in [Row -> SUBSET rows]

Insert(x) ==
    /\ x \notin rows \cup gone
    /\ rows' = rows \cup {x}
    /\ refs'[x] \subseteq rows
    /\ refs' = [refs EXCEPT ![x] = refs'[x]]
    /\ UNCHANGED gone

Delete(x) ==
    /\ x \in rows
    /\ \A y \in rows : x \notin refs[y]
    /\ rows' = rows \ {x}
    /\ gone' = gone \cup {x}
    /\ UNCHANGED refs

Next == \E x \in Row : Insert(x) \/ Delete(x)

Spec == Init /\ [][Next]_vars

=============================================================================
