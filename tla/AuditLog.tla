------------------------------ MODULE AuditLog ------------------------------
(***************************************************************************)
(* What the audit-log writer promises to whoever reads the `events` table:  *)
(* a first-in first-out log of bounded delay.  Accepted events wait in      *)
(* `pending`; a commit makes a prefix of them durable at once; a database   *)
(* failure may cost a run of consecutive events, and nothing else is lost,  *)
(* reordered or stored twice.                                               *)
(***************************************************************************)
EXTENDS Integers, Sequences

CONSTANTS MaxPending,  \* most events that are accepted and not yet durable
          MaxLosses    \* database failures

VARIABLES pending,  \* accepted events that are not durable, oldest first
          stored,   \* durable events
          next,     \* number of the next event
          losses    \* failures so far

vars == <<pending, stored, next, losses>>

Init == pending = <<>> /\ stored = <<>> /\ next = 1 /\ losses = 0

Accept ==
    /\ Len(pending) < MaxPending
    /\ pending' = Append(pending, next)
    /\ next' = next + 1
    /\ UNCHANGED <<stored, losses>>

Commit ==
    /\ \E n \in 1..Len(pending) :
          /\ stored' = stored \o SubSeq(pending, 1, n)
          /\ pending' = SubSeq(pending, n + 1, Len(pending))
    /\ UNCHANGED <<next, losses>>

\* The events a+1 .. b of `pending` are lost (none when a = b).
Lose ==
    /\ losses < MaxLosses
    /\ losses' = losses + 1
    /\ \E a \in 0..Len(pending) : \E b \in a..Len(pending) :
          pending' = SubSeq(pending, 1, a) \o SubSeq(pending, b + 1, Len(pending))
    /\ UNCHANGED <<stored, next>>

Next == Accept \/ Commit \/ Lose

Spec == Init /\ [][Next]_vars
=============================================================================
