------------------------------ MODULE ChatHealth ------------------------------
(***************************************************************************)
(* The readiness of a chat pod (services/chat/health.go): each request     *)
(* pings all shards at the same time and waits for all of them.  The       *)
(* goroutines share firstErr; shards come and go meanwhile.  A ping ends   *)
(* with an answer, or with an error: the shard is down, or the context or  *)
(* the client's own read timeout has passed, which may also happen to a    *)
(* shard that is up.                                                       *)
(***************************************************************************)
CONSTANTS
    Probes,     \* requests to /healthz being served at the same time
    Shards,     \* the Redis shards
    NoError     \* the nil of firstErr

ASSUME HealthAssumption == NoError \notin Shards

VARIABLES
    up,         \* the shards that answer
    status,     \* of each probe: "none", "pinging" or what was answered
    ping,       \* of each goroutine: "sent", "failed" or "done"
    firstErr,   \* of each probe: the shard whose error was kept
    reached     \* history: the shards that have answered each probe

healthVars == <<up, status, ping, firstErr, reached>>

HealthTypeOK ==
    /\ up \subseteq Shards
    /\ status \in [Probes -> {"none", "pinging", "ok", "error"}]
    /\ ping \in [Probes -> [Shards -> {"sent", "failed", "done"}]]
    /\ firstErr \in [Probes -> Shards \cup {NoError}]
    /\ reached \in [Probes -> SUBSET Shards]

HealthInit ==
    /\ up = Shards
    /\ status = [p \in Probes |-> "none"]
    /\ ping = [p \in Probes |-> [s \in Shards |-> "done"]]
    /\ firstErr = [p \in Probes |-> NoError]
    /\ reached = [p \in Probes |-> {}]
-----------------------------------------------------------------------------
\* The kubelet asks, and a goroutine is started for each shard.
Probe(p) ==
    /\ status[p] # "pinging"
    /\ status' = [status EXCEPT ![p] = "pinging"]
    /\ ping' = [ping EXCEPT ![p] = [s \in Shards |-> "sent"]]
    /\ firstErr' = [firstErr EXCEPT ![p] = NoError]
    /\ reached' = [reached EXCEPT ![p] = {}]
    /\ UNCHANGED up

PingAnswered(p, s) ==
    /\ ping[p][s] = "sent" /\ s \in up
    /\ ping' = [ping EXCEPT ![p][s] = "done"]
    /\ reached' = [reached EXCEPT ![p] = @ \cup {s}]
    /\ UNCHANGED <<up, status, firstErr>>

PingFails(p, s) ==
    /\ ping[p][s] = "sent"
    /\ ping' = [ping EXCEPT ![p][s] = "failed"]
    /\ UNCHANGED <<up, status, firstErr, reached>>

\* Variant: wg.Done is called before the error is recorded.
AwaitedTooEarly(p) == \A s \in Shards : ping[p][s] # "sent"

\* wg.Wait returns when every goroutine is done.
Awaited(p) == \A s \in Shards : ping[p][s] = "done"

\* Variant: the goroutine returns on an error without wg.Done.
RecordWithoutDone(p, s) ==
    /\ ping[p][s] = "failed"
    /\ firstErr' = [firstErr EXCEPT ![p] = IF @ = NoError THEN s ELSE @]
    /\ UNCHANGED <<up, status, ping, reached>>

\* Under the mutex: the first error is kept, and the goroutine is done.
Record(p, s) ==
    /\ ping[p][s] = "failed"
    /\ firstErr' = [firstErr EXCEPT ![p] = IF @ = NoError THEN s ELSE @]
    /\ ping' = [ping EXCEPT ![p][s] = "done"]
    /\ UNCHANGED <<up, status, reached>>

\* 200 without an error, 503 with the first one.
Respond(p) ==
    /\ status[p] = "pinging" /\ Awaited(p)
    /\ status' = [status EXCEPT ![p] = IF firstErr[p] = NoError THEN "ok" ELSE "error"]
    /\ UNCHANGED <<up, ping, firstErr, reached>>

ShardChanges(s) ==
    /\ up' = IF s \in up THEN up \ {s} ELSE up \cup {s}
    /\ UNCHANGED <<status, ping, firstErr, reached>>

Goroutine(p, s) == PingAnswered(p, s) \/ PingFails(p, s) \/ Record(p, s)

HealthNext ==
    \/ \E p \in Probes :
          Probe(p) \/ Respond(p) \/ \E s \in Shards : Goroutine(p, s)
    \/ \E s \in Shards : ShardChanges(s)

\* The Go scheduler runs every goroutine, and go-redis ends every ping.
HealthFairness ==
    \A p \in Probes :
        WF_healthVars(Respond(p)) /\ \A s \in Shards : WF_healthVars(Goroutine(p, s))

HealthSpec == HealthInit /\ [][HealthNext]_healthVars /\ HealthFairness
-----------------------------------------------------------------------------
(* Properties *)

\* A probe that reports ok has had an answer from every shard, in its own time
\* and not in that of another probe, and one that reports an error names a
\* shard that has not answered it (health.go:23-25).  While it is pinging, a
\* shard that is done has answered or its error is kept.
HealthyMeansReached ==
    /\ HealthTypeOK
    /\ \A p \in Probes :
          /\ status[p] = "ok" => reached[p] = Shards
          /\ status[p] = "error" => firstErr[p] \in Shards \ reached[p]
          /\ firstErr[p] = NoError => \A s \in Shards \ reached[p] :
                status[p] = "none" \/ ping[p][s] # "done"

\* Every probe is answered, also when a shard answers no more (health.go:28).
ProbeEnds ==
    \A p \in Probes : status[p] = "pinging" ~> status[p] \in {"ok", "error"}
=============================================================================
