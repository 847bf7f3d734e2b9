---------------------------- MODULE MCObservers -----------------------------
EXTENDS Observers

CONSTANTS ProbeRows, ProbeTime, \* bounds where the reader is the health endpoint
          ReportRows            \* ... and where it is the side-car

(* Where TLC goes no further: the follower never looks at the clock; nobody *)
(* looks at the table once the side-car ended or every request is answered. *)
AllServed == Len(request) = MaxRequests /\ \A r \in DOMAIN request : ~Pending(r)
Explored ==
    /\ phase # "off" => now = 0
    /\ serving => Recorded <= ProbeRows /\ now <= ProbeTime
    /\ loop # "off" => Recorded <= ReportRows
    /\ loop # "ended" /\ ~AllServed
=============================================================================
