------------------------------ MODULE LogFeed -------------------------------
(***************************************************************************)
(* What `bulwark logs --follow` promises: from some row on it shows every   *)
(* row of the growing table, in order, each once, and none before it is     *)
(* stored.                                                                  *)
(***************************************************************************)
EXTENDS Integers, Sequences

CONSTANT Ids  \* the ids rows may have

VARIABLES on,    \* somebody is watching
          rows,  \* the number of rows in the table
          shown  \* the ids shown so far

Init == on \in BOOLEAN /\ rows = 0 /\ shown = <<>>

Grow == rows' \in Ids /\ rows' > rows /\ UNCHANGED <<on, shown>>

Show ==
    /\ on
    /\ \E id \in 1..rows :
          /\ shown # <<>> => id = shown[Len(shown)] + 1
          /\ shown' = Append(shown, id)
    /\ UNCHANGED <<on, rows>>

\* Every row is shown, or one behind it, with which the feed began.
Reaches(id) == \E k \in DOMAIN shown : shown[k] >= id

Safety == Init /\ [][Grow \/ Show]_<<on, rows, shown>>

Spec == Safety /\ \A id \in Ids : (on /\ id <= rows) ~> Reaches(id)
=============================================================================
