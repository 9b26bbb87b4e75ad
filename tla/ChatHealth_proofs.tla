-------------------------- MODULE ChatHealth_proofs --------------------------
(***************************************************************************)
(* The readiness probe of a chat pod, for any number of shards and of      *)
(* overlapping probes: HealthyMeansReached is not inductive by itself.     *)
(* What a probe reports rests on its goroutines while it waits for them.   *)
(***************************************************************************)
EXTENDS ChatHealth, TLAPS

\* What the shared variables of a probe say at any time: a kept error is that
\* of a shard that has not answered, and a goroutine that is done has either
\* seen its shard answer or left an error.
Accounted(p) ==
    /\ firstErr[p] # NoError => firstErr[p] \notin reached[p]
    /\ \A s \in Shards :
          /\ ping[p][s] \in {"sent", "failed"} => s \notin reached[p]
          /\ firstErr[p] = s => ping[p][s] = "done"
          /\ status[p] # "none" /\ ping[p][s] = "done" /\ firstErr[p] = NoError => s \in reached[p]

\* What was reported is what the goroutines, all done, had left.
Reported(p) ==
    /\ status[p] # "pinging" => \A s \in Shards : ping[p][s] = "done"
    /\ status[p] = "ok" => firstErr[p] = NoError
    /\ status[p] = "error" => firstErr[p] # NoError

HealthInv == HealthTypeOK /\ \A p \in Probes : Accounted(p) /\ Reported(p)

\* A probe that starts has heard of no shard.
LEMMA ProbeKeeps ==
    ASSUME HealthInv, NEW p \in Probes, Probe(p)
    PROVE  HealthInv'
<1>1. HealthTypeOK'
  BY DEF HealthInv, HealthTypeOK, Probe
<1>2. ASSUME NEW q \in Probes
      PROVE  Accounted(q)' /\ Reported(q)'
  <2>1. CASE q = p
    BY <2>1, HealthAssumption DEF HealthInv, HealthTypeOK, Probe, Accounted, Reported
  <2>2. CASE q # p
    BY <2>2 DEF HealthInv, HealthTypeOK, Probe, Accounted, Reported
  <2> QED
    BY <2>1, <2>2
<1> QED
  BY <1>1, <1>2 DEF HealthInv

\* A goroutine answers, fails, or records its error under the mutex.
LEMMA GoroutineKeeps ==
    ASSUME HealthInv, NEW p \in Probes, NEW s \in Shards, Goroutine(p, s)
    PROVE  HealthInv'
<1> USE HealthAssumption DEF HealthInv, HealthTypeOK
<1>1. ping[p][s] \in {"sent", "failed"} /\ status' = status /\ status[p] = "pinging"
  BY DEF Goroutine, PingAnswered, PingFails, Record, Reported
<1>2. CASE PingAnswered(p, s)
  <2>1. HealthTypeOK'
    BY <1>2 DEF PingAnswered
  <2>2. \A q \in Probes : Accounted(q)' /\ Reported(q)'
    BY <1>1, <1>2 DEF PingAnswered, Accounted, Reported
  <2> QED
    BY <2>1, <2>2
<1>3. CASE PingFails(p, s)
  <2>1. HealthTypeOK'
    BY <1>3 DEF PingFails
  <2>2. \A q \in Probes : Accounted(q)' /\ Reported(q)'
    BY <1>1, <1>3 DEF PingFails, Accounted, Reported
  <2> QED
    BY <2>1, <2>2
<1>4. CASE Record(p, s)
  <2>1. HealthTypeOK'
    BY <1>4 DEF Record
  <2>2. \A q \in Probes : Accounted(q)' /\ Reported(q)'
    BY <1>1, <1>4 DEF Record, Accounted, Reported
  <2> QED
    BY <2>1, <2>2
<1> QED
  BY <1>2, <1>3, <1>4 DEF Goroutine

\* The answer is given when wg.Wait has returned.
LEMMA RespondKeeps ==
    ASSUME HealthInv, NEW p \in Probes, Respond(p)
    PROVE  HealthInv'
<1>1. HealthTypeOK'
  BY DEF HealthInv, HealthTypeOK, Respond
<1>2. \A q \in Probes : Accounted(q)' /\ Reported(q)'
  BY DEF HealthInv, HealthTypeOK, Respond, Awaited, Accounted, Reported
<1> QED
  BY <1>1, <1>2 DEF HealthInv

\* Every step keeps the invariant: shards may come and go at any time.
LEMMA HealthStep ==
    ASSUME HealthInv, [HealthNext]_healthVars
    PROVE  HealthInv'
<1>1. CASE \E p \in Probes : Probe(p)
  BY <1>1, ProbeKeeps
<1>2. CASE \E p \in Probes : \E s \in Shards : Goroutine(p, s)
  BY <1>2, GoroutineKeeps
<1>3. CASE \E p \in Probes : Respond(p)
  BY <1>3, RespondKeeps
<1>4. ASSUME NEW s \in Shards, ShardChanges(s)
      PROVE  HealthInv'
  BY <1>4 DEF ShardChanges, HealthInv, HealthTypeOK, Accounted, Reported
<1>5. CASE UNCHANGED healthVars
  BY <1>5 DEF healthVars, HealthInv, HealthTypeOK, Accounted, Reported
<1> QED
  BY <1>1, <1>2, <1>3, <1>4, <1>5 DEF HealthNext

\* A probe that reports ok has had an answer from every shard in its own time,
\* and one that reports an error names a shard that has not answered it
\* (health.go:23-56), whatever the other probes and the shards do meanwhile.
THEOREM HealthHealthyMeansReached == HealthSpec => []HealthyMeansReached
<1>1. HealthInit => HealthInv
  BY HealthAssumption DEF HealthInit, HealthInv, HealthTypeOK, Accounted, Reported
<1>2. HealthInv => HealthyMeansReached
  <2> SUFFICES ASSUME HealthInv, NEW p \in Probes
               PROVE  /\ status[p] = "ok" => reached[p] = Shards
                      /\ status[p] = "error" => firstErr[p] \in Shards \ reached[p]
                      /\ firstErr[p] = NoError => \A s \in Shards \ reached[p] :
                            status[p] = "none" \/ ping[p][s] # "done"
    BY DEF HealthInv, HealthyMeansReached
  <2>1. Accounted(p) /\ Reported(p) /\ reached[p] \subseteq Shards /\ firstErr[p] \in Shards \cup {NoError}
    BY DEF HealthInv, HealthTypeOK
  <2>2. status[p] = "ok" => Shards \subseteq reached[p]
    BY <2>1 DEF Accounted, Reported
  <2> QED
    BY <2>1, <2>2 DEF Accounted, Reported
<1> QED
  BY <1>1, <1>2, HealthStep, PTL DEF HealthSpec
=============================================================================
