----------------------------- MODULE Telemetry ------------------------------
(***************************************************************************)
(* The telemetry side-car of one proxy: _telemetry_loop of proxy.py, the    *)
(* payload that telemetry.py builds from compute_stats of stats.py, and     *)
(* send() with its local log.  compute_stats reads the table in four        *)
(* queries over one window of time, and writers commit between them.        *)
(***************************************************************************)
EXTENDS AuditTable

CONSTANTS WarmUp, \* initial_delay_s
          Day     \* daily_s, which is also the window of a payload

ASSUME TelemetryAssumption == {WarmUp, Day} \subseteq Nat \ {0}

VARIABLES url,    \* BULWARK_TELEMETRY_URL: an endpoint, or "disabled"
          loop,    \* "off", "sleep", "stats", "post", or "ended" (cancelled)
          due,     \* when the sleep is over
          end,     \* period_end of the statistics in hand
          queries, \* how many of its four queries compute_stats has made
          total,   \* the rows the first of them counted
          sent,    \* the payloads handed to the HTTP client, by their total; what the server got;
                   \* whose line the disk refused
          log      \* telemetry.log: the payload of each line, and its status

telemetryVars == <<url, loop, due, end, queries, total, sent, log>>

TelemetryTypeOK ==
    /\ url \in {"endpoint", "disabled"} /\ loop \in {"off", "sleep", "stats", "post", "ended"}
    /\ due \in Nat /\ end \in 0..MaxTime
    /\ queries \in 0..4 /\ total \in SUBSET (1..MaxRows)
    /\ sent \in Seq([total : SUBSET (1..MaxRows), got : BOOLEAN, unwritten : BOOLEAN])
    /\ log \in Seq([payload : {0} \cup DOMAIN sent,
                   status : {"ok", "error", "disabled-by-config"}])

TelemetryInit(on) ==
    /\ url \in IF on THEN {"endpoint", "disabled"} ELSE {"disabled"}
    /\ loop = IF on THEN "sleep" ELSE "off"
    /\ due = WarmUp /\ end = 0 /\ queries = 0 /\ total = {} /\ sent = <<>> /\ log = <<>>

\* asyncio.sleep never returns early.
Wake ==
    /\ loop = "sleep" /\ now >= due
    /\ loop' = "stats" /\ end' = now /\ queries' = 0
    /\ UNCHANGED <<url, due, total, sent, log>>

\* One SELECT of compute_stats.
Query ==
    /\ loop = "stats" /\ queries < 4
    /\ queries' = queries + 1
    /\ total' = IF queries = 0 THEN Window(end - Day, end) ELSE total
    /\ UNCHANGED <<url, loop, due, end, sent, log>>

\* build_payload is through, and send() calls post() ...
Post ==
    /\ loop = "stats" /\ queries = 4 /\ url # "disabled"
    /\ loop' = "post"
    /\ sent' = Append(sent, [total |-> total, got |-> FALSE, unwritten |-> FALSE])
    /\ UNCHANGED <<url, due, end, queries, total, log>>

\* The request arrives, whether or not its answer will.
Deliver ==
    /\ loop = "post" /\ ~Last(sent).got
    /\ sent' = [sent EXCEPT ![Len(sent)].got = TRUE]
    /\ UNCHANGED <<url, loop, due, end, queries, total, log>>

\* After the first round the loop waits a day.
NextDelay_warmUp == WarmUp
NextDelay == Day

Again == loop' = "sleep" /\ due' = now + NextDelay

\* Which outcomes of post() _append_log writes down.
Logs_successOnly(status) == status = "ok"
Logs(status) == status \in {"ok", "error"}

\* The answer, an HTTP error, or 5 s without one; then _append_log, which may
\* fail on the disk (OSError) and is content with a warning.
Answered ==
    /\ loop = "post"
    /\ \E status \in {"ok", "error"}, disk \in BOOLEAN :
          /\ status = "ok" => Last(sent).got
          /\ log' = IF Logs(status) /\ disk
                    THEN Append(log, [payload |-> Len(sent), status |-> status]) ELSE log
          /\ sent' = [sent EXCEPT ![Len(sent)].unwritten = ~disk]
    /\ Again
    /\ UNCHANGED <<url, end, queries, total>>

\* ... or, where the endpoint is "disabled", writes the line and is done.
LogOnly ==
    /\ loop = "stats" /\ queries = 4 /\ url = "disabled"
    /\ \E disk \in BOOLEAN :
          log' = IF disk THEN Append(log, [payload |-> 0, status |-> "disabled-by-config"]) ELSE log
    /\ Again
    /\ UNCHANGED <<url, end, queries, total, sent>>

\* A query of build_payload raises: no payload, a warning, and the next delay.
BuildFails ==
    /\ loop = "stats"
    /\ Again
    /\ UNCHANGED <<url, end, queries, total, sent, log>>

\* run_proxy cancels the task when the session ends, at whatever await it is.
Cancel ==
    /\ loop \in {"sleep", "stats", "post"}
    /\ loop' = "ended"
    /\ UNCHANGED <<url, due, end, queries, total, sent, log>>

TelemetryNext ==
    /\ Wake \/ Query \/ Post \/ Deliver \/ Answered \/ LogOnly \/ BuildFails \/ Cancel
    /\ UNCHANGED tableVars

-----------------------------------------------------------------------------
\* No event is counted in two payloads of a process: their windows do not overlap,
\* however long a round takes and however late a row was stored.
CountedOnce ==
    \A i, j \in DOMAIN sent : i # j => sent[i].total \cap sent[j].total = {}

\* The local log shows every payload that may have left the machine, but for the
\* last one of a process that was cancelled in post(), and for a disk that failed;
\* and it calls no payload delivered that was not.
SentIsLogged ==
    /\ \A k \in DOMAIN sent :
          \/ \E i \in DOMAIN log : log[i].payload = k
          \/ k = Len(sent) /\ loop \in {"post", "ended"}
          \/ sent[k].unwritten
    /\ \A i \in DOMAIN log : log[i].status = "ok" => sent[log[i].payload].got
=============================================================================
