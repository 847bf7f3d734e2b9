----------------------------- MODULE LogFollow ------------------------------
(***************************************************************************)
(* stream_events of storage.py, which `bulwark logs --follow` iterates: the *)
(* last rows first, then a poll for ids behind a cursor.                    *)
(***************************************************************************)
EXTENDS AuditTable

CONSTANTS Tails,    \* values of initial_tail
          PollLimit \* rows one poll returns at most (500 in the code)

ASSUME LogFollowAssumption == Tails \subseteq Nat /\ PollLimit \in Nat \ {0}

VARIABLES phase,   \* "off", "start", then "seed" and "poll"
          cursor,  \* the id polls start behind
          fetched, \* ids of the rows of the last query that are not yielded yet
          shown    \* ids of the rows yielded

followVars == <<phase, cursor, fetched, shown>>

FollowTypeOK ==
    /\ phase \in {"off", "start", "seed", "poll"} /\ cursor \in 0..MaxRows
    /\ fetched \in Seq(1..MaxRows) /\ shown \in Seq(1..MaxRows)

FollowInit(on) ==
    /\ phase = IF on THEN "start" ELSE "off"
    /\ cursor = 0 /\ fetched = <<>> /\ shown = <<>>

\* latest_events(limit): the ids of the newest rows, oldest first ...
Newest(limit) ==
    LET last == Len(table) IN
    [i \in 1..(IF limit < last THEN limit ELSE last) |->
        i + (IF limit < last THEN last - limit ELSE 0)]

\* ... and latest_events(limit, since_id): the oldest rows behind the cursor.
Behind(limit) ==
    LET new == Len(table) - cursor IN
    [i \in 1..(IF limit < new THEN limit ELSE new) |-> cursor + i]

Seed ==
    /\ phase = "start" /\ phase' = "seed"
    /\ \E tail \in Tails :
          /\ fetched' = Newest(tail)
          /\ cursor' = IF Newest(tail) = <<>> THEN 0 ELSE Last(Newest(tail))
    /\ UNCHANGED shown

Poll ==
    /\ phase \in {"seed", "poll"} /\ fetched = <<>> /\ phase' = "poll"
    /\ fetched' = Behind(PollLimit)
    /\ UNCHANGED <<cursor, shown>>

\* The cursor moves with the rows a poll yields.
CursorAfter_newest(id) == IF phase = "poll" THEN Len(table) ELSE cursor
CursorAfter(id) == IF phase = "poll" THEN id ELSE cursor

Yield ==
    /\ fetched # <<>>
    /\ shown' = Append(shown, Head(fetched))
    /\ cursor' = CursorAfter(Head(fetched))
    /\ fetched' = Tail(fetched)
    /\ UNCHANGED phase

FollowNext == (Seed \/ Poll \/ Yield) /\ UNCHANGED tableVars
=============================================================================
