----------------------------- MODULE Observers ------------------------------
(***************************************************************************)
(* The readers of the events table next to the proxies that write it: in    *)
(* each behaviour one of the log follower, the health endpoint and the      *)
(* telemetry side-car.  They share nothing but the table, so that running   *)
(* two at a time would show no more.                                        *)
(***************************************************************************)
EXTENDS LogFollow, Health, Telemetry

vars == <<tableVars, followVars, healthVars, telemetryVars>>

TypeOK == TableTypeOK /\ FollowTypeOK /\ HealthTypeOK /\ TelemetryTypeOK

Init ==
    /\ TableInit
    /\ \E reader \in {"follow", "health", "telemetry"} :
          /\ FollowInit(reader = "follow")
          /\ HealthInit(reader = "health")
          /\ TelemetryInit(reader = "telemetry")

Follow  == FollowNext /\ UNCHANGED <<healthVars, telemetryVars>>
Probe   == HealthNext /\ UNCHANGED <<followVars, telemetryVars>>
Report  == TelemetryNext /\ UNCHANGED <<followVars, healthVars>>
\* A killed Own takes its readers with it, but not the follower, a process apart.
Proxies == TableNext /\ UNCHANGED <<followVars, healthVars, telemetryVars>>
Killed  == /\ \E w \in Writers : (phase = "off" => w # Own) /\ Rollback(w)
           /\ UNCHANGED <<followVars, healthVars, telemetryVars>>
Clock   == Tick /\ HealthMayTick /\ UNCHANGED <<followVars, healthVars, telemetryVars>>

Next == Follow \/ Probe \/ Report \/ Proxies \/ Killed \/ Clock

\* The follower is a loop of awaits that always return.
Spec == Init /\ [][Next]_vars /\ WF_vars(Follow)

-----------------------------------------------------------------------------
\* The follower shows every row once and in order from the row it began with,
\* though its polls are short and two proxies commit behind its cursor.
Feed == INSTANCE LogFeed WITH Ids <- 1..MaxRows, on <- phase # "off", rows <- Len(table)
FollowsLog == Feed!Spec
=============================================================================
