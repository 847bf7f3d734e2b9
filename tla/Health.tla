------------------------------- MODULE Health -------------------------------
(***************************************************************************)
(* The health endpoint of health.py: handlers on the event loop, each with  *)
(* a time limit, that share HealthState's lock and its cached snapshot.     *)
(***************************************************************************)
EXTENDS AuditTable

CONSTANTS MaxRequests,    \* requests in all (a bound)
          TTL,            \* _SNAPSHOT_TTL_S
          RequestTimeout  \* _REQUEST_TIMEOUT_S

ASSUME HealthAssumption == MaxRequests \in Nat /\ {TTL, RequestTimeout} \subseteq Nat \ {0}

VARIABLES serving,  \* the listener is open
          request,  \* the requests in the order they came, and how far each is
          cache,    \* _cache and _cache_ts: the count and when it was taken, or <<>>
          scan,     \* the scan of the lock's holder: who, when it began, what it counted
          scans     \* every scan: when it began, and whether it was cut short

healthVars == <<serving, request, cache, scan, scans>>

HealthTypeOK ==
    /\ serving \in BOOLEAN /\ Len(request) <= MaxRequests
    /\ request \in Seq([state : {"read", "busy", "answered", "refused"},
                         came : 0..MaxTime, count : 0..MaxRows])
    /\ cache \in {<<>>} \cup (0..MaxRows) \X (0..MaxTime)
    /\ scan \in {<<>>} \cup (DOMAIN request) \X (0..MaxTime) \X (-1..MaxRows)
    /\ scans \in Seq([at : 0..MaxTime, cut : BOOLEAN]) /\ Len(scans) <= MaxRequests

HealthInit(on) ==
    /\ serving = on /\ request = <<>>
    /\ cache = <<>> /\ scan = <<>> /\ scans = <<>>

Pending(r) == request[r].state \in {"read", "busy"}

\* _handle starts, and with it the time limit; the request is read byte by byte.
Accept ==
    /\ serving /\ Len(request) < MaxRequests
    /\ request' = Append(request, [state |-> "read", came |-> now, count |-> 0])
    /\ UNCHANGED <<serving, cache, scan, scans>>

\* 400, 404, 405 or 431: no snapshot.
Refuse(r) ==
    /\ request[r].state = "read"
    /\ request' = [request EXCEPT ![r].state = "refused"]
    /\ UNCHANGED <<serving, cache, scan, scans>>

Fresh == cache # <<>> /\ now - cache[2] < TTL

LockFree_ignored == TRUE
LockFree == scan = <<>>

\* snapshot: under the lock, from the cache ...
Cached(r) ==
    /\ request[r].state = "read" /\ LockFree /\ Fresh
    /\ request' = [request EXCEPT ![r] = [@ EXCEPT !.state = "answered", !.count = cache[1]]]
    /\ UNCHANGED <<serving, cache, scan, scans>>

\* ... or by two queries, with the lock held.
StartScan(r) ==
    /\ request[r].state = "read" /\ LockFree /\ ~Fresh
    /\ request' = [request EXCEPT ![r].state = "busy"]
    /\ scan' = <<r, now, -1>>
    /\ scans' = Append(scans, [at |-> now, cut |-> FALSE])
    /\ UNCHANGED <<serving, cache>>

\* event_count.
Count ==
    /\ scan # <<>> /\ scan[3] = -1
    /\ scan' = [scan EXCEPT ![3] = Len(Seen)]
    /\ UNCHANGED <<serving, request, cache, scans>>

\* The time of a snapshot is taken before its queries.
CacheTime_afterScan == now
CacheTime == scan[2]

\* _last_event_ts, and the snapshot is kept and sent.
Snapshot ==
    /\ scan # <<>> /\ scan[3] # -1
    /\ cache' = <<scan[3], CacheTime>>
    /\ request' = [request EXCEPT ![scan[1]] = [@ EXCEPT !.state = "answered", !.count = scan[3]]]
    /\ scan' = <<>>
    /\ UNCHANGED <<serving, scans>>

\* A query raises (500), or the limit of _handle expires (408): the lock is
\* given back, the cache stays, and a query on the database thread goes on.
GiveUp(r) ==
    /\ request' = [request EXCEPT ![r].state = "refused"]
    /\ IF scan # <<>> /\ scan[1] = r
       THEN scan' = <<>> /\ scans' = [scans EXCEPT ![Len(scans)].cut = TRUE]
       ELSE UNCHANGED <<scan, scans>>
    /\ UNCHANGED <<serving, cache>>

QueryFails == scan # <<>> /\ GiveUp(scan[1])

Expire(r) == Pending(r) /\ now = request[r].came + RequestTimeout /\ GiveUp(r)

\* The loop's timers are punctual: no tick passes a limit.
HealthMayTick == \A r \in DOMAIN request : Pending(r) => now < request[r].came + RequestTimeout

HealthNext ==
    /\ \/ \E r \in DOMAIN request : Refuse(r) \/ Cached(r) \/ StartScan(r) \/ Expire(r)
       \/ Accept \/ Count \/ Snapshot \/ QueryFails
    /\ UNCHANGED tableVars

-----------------------------------------------------------------------------
\* An answer counts every event that was stored TTL before the request came, be
\* it from the cache or from a scan that writers overtook.
AnswersFresh ==
    \A r \in DOMAIN request : request[r].state = "answered" =>
        request[r].count >= StoredBefore(request[r].came - TTL + 1)

\* Two scans of the table begin at least TTL apart, however many ask, unless the
\* earlier one was given up: the writer does not compete with a scan per request.
ScansSpaced ==
    \A i, j \in DOMAIN scans :
        i < j /\ ~scans[i].cut => scans[j].at - scans[i].at >= TTL
=============================================================================
