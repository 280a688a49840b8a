----------------------------- MODULE GatewayProofs -----------------------------
(***************************************************************************)
(* Proofs about Readiness and Gateway, for any set of requests (finite or  *)
(* not), any number of dependencies, any timeout and batch size, any       *)
(* required acks, and with authentication on or off.                       *)
(***************************************************************************)
EXTENDS Gateway, FiniteSetTheorems, TLAPS

(* The readiness part of the state.                                        *)
ReadyTypeOK ==
    /\ reach \in [Deps -> BOOLEAN]
    /\ status \in [Requests -> {"none", "probing", "ok", "degraded"}]
    /\ checks \in [Requests -> Seq({"ok", "failed"})]
    /\ clock \in [Requests -> 0..ProbeTime]
    /\ waited \in [Requests -> Nat]
    /\ canceled \in [Requests -> BOOLEAN]
    /\ seen \in [Requests -> [up : SUBSET Deps, faulty : SUBSET Deps]]

(* How far the loop of a request is, and how long it has run: no longer    *)
(* than a timeout for each probe that ended and the time of the one that   *)
(* runs.                                                                   *)
LoopInv ==
    \A r \in Requests :
        /\ Len(checks[r]) <= NumDeps
        /\ status[r] = "none" => checks[r] = <<>>
        /\ Probing(r) => Target(r) \in Deps
        /\ ~Probing(r) => clock[r] = 0
        /\ waited[r] <= Len(checks[r]) * ProbeTime + clock[r]
        /\ status[r] = "ok" =>
              Len(checks[r]) = NumDeps /\ \A d \in Deps : checks[r][d] = "ok"

(* What a check is based on was so while the request was probing.          *)
SeenInv ==
    \A r \in Requests :
        /\ Probing(r) =>
              \A d \in Deps : d \in (IF reach[d] THEN seen[r].up ELSE seen[r].faulty)
        /\ Probing(r) /\ Timeout > 0 /\ clock[r] = ProbeTime => Target(r) \in seen[r].faulty
        /\ \A d \in DOMAIN checks[r] :
              /\ checks[r][d] = "ok" => d \in seen[r].up
              /\ checks[r][d] = "failed" /\ Timeout > 0 /\ ~canceled[r] => d \in seen[r].faulty

ReadyInv == ReadyTypeOK /\ LoopInv /\ SeenInv

(* The rest of the state.                                                  *)
Results == Codes \cup {"none", "unauthorized", "not_found", "degraded"}

InProducer == {"produce", "succeeded", "counted", "failed"}

GatewayTypeOK ==
    /\ pc \in [Requests -> {"idle", "auth", "handler", "written", "done"} \cup InProducer]
    /\ route \in [Requests -> Public \cup DataPlane]
    /\ passed \subseteq Requests
    /\ size \in [Requests -> Nat]
    /\ result \in [Requests -> Results]
    /\ IsABag(http) /\ IsABag(kafkaOps) /\ messages \in Nat

(* What a request has behind it, from where its goroutine is: with         *)
(* authentication on, no handler of /topics runs before the token passed.  *)
FlowInv ==
    \A r \in Requests :
        /\ result[r] = "none" <=> pc[r] \notin {"written", "done"}
        /\ pc[r] = "idle" => route[r] = "unmatched"
        /\ pc[r] \in {"idle", "auth", "handler"} => size[r] = 0
        /\ pc[r] = "auth" => route[r] \in DataPlane
        /\ pc[r] \in InProducer => size[r] > 0
        /\ size[r] > 0 => route[r] = "publish"
        /\ result[r] = "unauthorized" => route[r] \in DataPlane /\ size[r] = 0

TokenInv ==
    AuthEnabled => \A r \in Requests :
        route[r] \in DataPlane
        /\ (pc[r] \in {"handler", "produce"} \/ size[r] > 0 \/ result[r] = "ok") => r \in passed

(* The messages of a publish are counted once the operation is.            *)
HasCounted(r) == pc[r] = "counted" \/ (route[r] = "publish" /\ result[r] = "ok")
HasSucceeded(r) == pc[r] = "succeeded" \/ HasCounted(r)

(* The topic holds messages of accepted batches, and all of those whose    *)
(* publish succeeded, if acks are required.                                *)
TopicInv ==
    /\ \A record \in stored : \E r \in Requests : record \in BatchOf(r)
    /\ Acks # "none" => \A r \in Requests : HasSucceeded(r) => BatchOf(r) \subseteq stored

(* What the counters have counted.                                         *)
Answered(labels) == {r \in Requests : pc[r] = "done" /\ <<Label(r), result[r]>> = labels}
Successful == {r \in Requests : HasSucceeded(r)}
Counted == {r \in Requests : HasCounted(r)}
Confirmed == UNION {BatchOf(r) : r \in Counted}

CountersInv ==
    /\ IsFiniteSet({r \in Requests : pc[r] # "idle"})
    /\ IsFiniteSet(stored) /\ IsFiniteSet(Confirmed)
    /\ \A labels : Value(labels, http) = Cardinality(Answered(labels))
    /\ Value(<<"publish", "success">>, kafkaOps) = Cardinality(Successful)
    /\ messages = Cardinality(Confirmed) /\ Cardinality(Counted) <= messages

RequestInv == GatewayTypeOK /\ FlowInv /\ TokenInv /\ TopicInv

IInv == ReadyInv /\ RequestInv /\ CountersInv

(* What a step of the gateway does to the readiness part of the state.     *)
ReadyNext ==
    \/ \E r \in Requests : BeginReady(r) \/ Probe(r) \/ Cancel(r)
    \/ Environment
-------------------------------------------------------------------------------
(* Readiness.                                                              *)

LEMMA ReadyStep == [GatewayNext]_allVars => [ReadyNext]_readyVars
<1> USE DEF readyVars
<1>1. ASSUME NEW r \in Requests, Arrive(r) PROVE UNCHANGED readyVars
  BY <1>1 DEF Arrive
<1>2. ASSUME NEW r \in Requests, Serve(r) PROVE [ReadyNext]_readyVars
  <2>1. CASE CheckToken(r)
    BY <2>1 DEF CheckToken
  <2>2. CASE Immediate(r)
    BY <2>2 DEF Immediate
  <2>3. CASE Ready(r)
    BY <2>3 DEF Ready, ReadyNext
  <2>4. CASE Query(r)
    BY <2>4 DEF Query
  <2>5. CASE RejectPublish(r) \/ CallProducer(r)
    BY <2>5 DEF RejectPublish, CallProducer
  <2>6. CASE ProducerReturns(r) \/ CountMessages(r) \/ Reply(r)
    BY <2>6 DEF ProducerReturns, CountMessages, Reply
  <2>7. CASE Finish(r)
    BY <2>7 DEF Finish
  <2>8. QED
    BY <1>2, <2>1, <2>2, <2>3, <2>4, <2>5, <2>6, <2>7 DEF Serve
<1>3. ASSUME NEW r \in Requests, Store(r) PROVE UNCHANGED readyVars
  BY <1>3 DEF Store
<1>4. ASSUME NEW r \in Requests, ClientGoesAway(r) PROVE ReadyNext
  BY <1>4 DEF ClientGoesAway, ReadyNext
<1>5. CASE Environment /\ UNCHANGED gatewayVars
  BY <1>5 DEF ReadyNext
<1>6. CASE UNCHANGED allVars
  BY <1>6 DEF allVars
<1>7. QED
  BY <1>1, <1>2, <1>3, <1>4, <1>5, <1>6 DEF GatewayNext

LEMMA ProbeTimeType == ProbeTime \in Nat
  BY TimeoutAssumption DEF ProbeTime

LEMMA ReadyInitial == ReadyInit => ReadyInv
<1> SUFFICES ASSUME ReadyInit PROVE ReadyInv
  OBVIOUS
<1> USE NumDepsAssumption, ProbeTimeType DEF ReadyInit
<1>1. ReadyTypeOK
  BY DEF ReadyTypeOK
<1>2. ASSUME NEW r \in Requests
      PROVE  /\ ~Probing(r) /\ status[r] # "ok" /\ checks[r] = <<>>
             /\ Len(checks[r]) = 0 /\ DOMAIN checks[r] = {}
             /\ clock[r] = 0 /\ waited[r] = 0
  BY DEF Probing
<1>3. ASSUME NEW r \in Requests
      PROVE  waited[r] <= Len(checks[r]) * ProbeTime + clock[r] /\ Len(checks[r]) <= NumDeps
  <2>1. 0 * ProbeTime = 0
    OBVIOUS
  <2>2. QED
    BY <1>2, <2>1
<1>4. LoopInv
  BY <1>2, <1>3 DEF LoopInv
<1>5. SeenInv
  BY <1>2 DEF SeenInv
<1>6. QED
  BY <1>1, <1>4, <1>5 DEF ReadyInv

LEMMA OneMore == \A n, t \in Nat : (n + 1) * t = n * t + t
  OBVIOUS

LEMMA FewerTimes == \A m, n, t \in Nat : m <= n => m * t <= n * t
<1>1. TAKE m, n, t \in Nat
<1>2. HAVE m <= n
<1>3. PICK k \in Nat : n = m + k
  BY <1>2
<1>4. n * t = m * t + k * t
  BY <1>3
<1>5. k * t \in Nat /\ m * t \in Nat
  OBVIOUS
<1>6. QED
  BY <1>4, <1>5

(* The start of the loop.                                                  *)
LEMMA BeginKeepsReady ==
    ASSUME ReadyInv, NEW r \in Requests, BeginReady(r) PROVE ReadyInv'
<1> USE DEF ReadyInv, BeginReady
<1>1. ReadyTypeOK'
  BY DEF ReadyTypeOK
<1>2. LoopInv'
  <2> SUFFICES ASSUME NEW q \in Requests PROVE LoopInv!(q)'
    BY DEF LoopInv
  <2>1. CASE q = r
    BY <2>1, NumDepsAssumption DEF ReadyTypeOK, LoopInv, Probing, Target, Deps
  <2>2. CASE q # r
    BY <2>2 DEF ReadyTypeOK, LoopInv, Probing, Target
  <2>3. QED
    BY <2>1, <2>2
<1>3. SeenInv'
  <2> SUFFICES ASSUME NEW q \in Requests PROVE SeenInv!(q)'
    BY DEF SeenInv
  <2>1. CASE q = r
    BY <2>1, TimeoutAssumption DEF ReadyTypeOK, LoopInv, SeenInv, Probing, Target, ProbeTime
  <2>2. CASE q # r
    BY <2>2 DEF ReadyTypeOK, SeenInv, Probing, Target
  <2>3. QED
    BY <2>1, <2>2
<1>4. QED
  BY <1>1, <1>2, <1>3

(* A turn of the loop ends, and with the last one Ready returns.           *)
LEMMA ProbeKeepsReady ==
    ASSUME ReadyInv, NEW r \in Requests, Probe(r) PROVE ReadyInv'
<1> USE DEF ReadyInv
<1>1. PICK res \in {"ok", "failed"} :
         /\ EndProbe(r, res) /\ Probing(r)
         /\ IF res = "ok" THEN reach[Target(r)] ELSE GivesUp(r)
  BY DEF Probe, ProbeSucceeds, ProbeFails
<1> DEFINE cs == Append(checks[r], res)
<1>2. /\ checks[r] \in Seq({"ok", "failed"}) /\ Len(checks[r]) \in Nat
      /\ cs \in Seq({"ok", "failed"}) /\ Len(cs) = Target(r) /\ Target(r) \in Deps
      /\ cs[Target(r)] = res
      /\ \A i \in 1..Len(checks[r]) : cs[i] = checks[r][i]
  BY <1>1 DEF ReadyTypeOK, LoopInv, Target
<1>3. /\ checks' = [checks EXCEPT ![r] = cs]
      /\ status' = [status EXCEPT ![r] = IF Len(cs) = NumDeps THEN overall(cs) ELSE @]
      /\ clock' = [clock EXCEPT ![r] = 0]
      /\ UNCHANGED <<reach, waited, canceled, seen>>
  BY <1>1 DEF EndProbe
<1>4. overall(cs) \in {"ok", "degraded"} /\ (overall(cs) = "ok" => \A i \in DOMAIN cs : cs[i] = "ok")
  BY <1>2 DEF overall
<1>5. ReadyTypeOK'
  BY <1>2, <1>3, <1>4, ProbeTimeType DEF ReadyTypeOK
<1>6. /\ checks'[r] = cs /\ clock'[r] = 0 /\ status[r] = "probing"
      /\ status'[r] = IF Len(cs) = NumDeps THEN overall(cs) ELSE "probing"
  BY <1>1, <1>3 DEF ReadyTypeOK, Probing
<1>7. ASSUME NEW q \in Requests \ {r}
      PROVE  status'[q] = status[q] /\ checks'[q] = checks[q] /\ clock'[q] = clock[q]
  BY <1>3 DEF ReadyTypeOK
<1> HIDE DEF cs
<1>8. waited[r] <= Target(r) * ProbeTime
  <2>1. waited[r] <= Len(checks[r]) * ProbeTime + clock[r] /\ clock[r] \in 0..ProbeTime /\ waited[r] \in Nat
    BY DEF ReadyTypeOK, LoopInv
  <2>2. Target(r) * ProbeTime = Len(checks[r]) * ProbeTime + ProbeTime
    <3>1. Len(checks[r]) \in Nat /\ ProbeTime \in Nat
      BY <1>2, ProbeTimeType
    <3>2. (Len(checks[r]) + 1) * ProbeTime = Len(checks[r]) * ProbeTime + ProbeTime
      BY <3>1, OneMore, Zenon
    <3>3. QED
      BY <3>2 DEF Target
  <2>3. QED
    BY <1>2, <2>1, <2>2, ProbeTimeType
<1>9. LoopInv'
  <2> SUFFICES ASSUME NEW q \in Requests PROVE LoopInv!(q)'
    BY DEF LoopInv
  <2>1. CASE q = r
    <3>1. waited'[r] <= Len(checks'[r]) * ProbeTime + clock'[r]
      <4>1. Target(r) * ProbeTime \in Nat
        BY <1>2, ProbeTimeType, NumDepsAssumption DEF Deps
      <4>2. waited'[r] = waited[r] /\ Len(checks'[r]) = Target(r) /\ clock'[r] = 0
        BY <1>2, <1>3, <1>6
      <4>3. waited[r] <= Target(r) * ProbeTime + 0
        BY <1>8, <4>1
      <4>4. QED
        BY <4>2, <4>3
    <3>2. /\ Len(checks'[r]) <= NumDeps
          /\ status'[r] # "none" /\ clock'[r] = 0
          /\ status'[r] = "probing" => Len(checks'[r]) + 1 \in Deps
      BY <1>2, <1>4, <1>6, NumDepsAssumption DEF Deps
    <3>3. status'[r] = "ok" => Len(checks'[r]) = NumDeps /\ \A d \in Deps : checks'[r][d] = "ok"
      BY <1>2, <1>4, <1>6, NumDepsAssumption DEF Deps
    <3>4. QED
      BY <2>1, <3>1, <3>2, <3>3 DEF Probing, Target
  <2>2. CASE q # r
    BY <1>3, <1>7, <2>2 DEF LoopInv, Probing, Target
  <2>3. QED
    BY <2>1, <2>2
<1>10. /\ res = "ok" => Target(r) \in seen[r].up
       /\ res = "failed" /\ Timeout > 0 /\ ~canceled[r] => Target(r) \in seen[r].faulty
  <2>1. CASE res = "ok"
    BY <1>1, <1>2, <2>1 DEF SeenInv
  <2>2. CASE res # "ok" /\ ~reach[Target(r)]
    BY <1>1, <1>2, <2>2 DEF SeenInv
  <2>3. CASE res # "ok" /\ Timeout > 0 /\ Expired(r)
    <3>1. clock[r] = ProbeTime
      BY <2>3, ProbeTimeType DEF Expired, ReadyTypeOK
    <3>2. QED
      BY <1>1, <1>2, <2>3, <3>1 DEF SeenInv
  <2>4. QED
    BY <1>1, <1>2, <2>1, <2>2, <2>3 DEF GivesUp, MustEnd
<1>11. SeenInv'
  <2> SUFFICES ASSUME NEW q \in Requests PROVE SeenInv!(q)'
    BY DEF SeenInv
  <2>1. CASE q = r
    <3>1. Probing(r)' => \A d \in Deps : d \in (IF reach[d] THEN seen[r].up ELSE seen[r].faulty)
      BY <1>1 DEF SeenInv
    <3>2. Timeout > 0 => clock'[r] # ProbeTime
      BY <1>6, TimeoutAssumption DEF ProbeTime
    <3>3. \A d \in DOMAIN cs :
             /\ cs[d] = "ok" => d \in seen[r].up
             /\ cs[d] = "failed" /\ Timeout > 0 /\ ~canceled[r] => d \in seen[r].faulty
      <4> SUFFICES ASSUME NEW d \in DOMAIN cs
                   PROVE  /\ cs[d] = "ok" => d \in seen[r].up
                          /\ cs[d] = "failed" /\ Timeout > 0 /\ ~canceled[r] => d \in seen[r].faulty
        OBVIOUS
      <4>1. CASE d = Target(r)
        BY <1>1, <1>2, <1>10, <4>1
      <4>2. CASE d # Target(r)
        <5>1. d \in DOMAIN checks[r] /\ cs[d] = checks[r][d]
          BY <1>2, <4>2 DEF Target
        <5>2. QED
          BY <5>1 DEF SeenInv
      <4>3. QED
        BY <4>1, <4>2
    <3>4. QED
      BY <1>3, <1>6, <2>1, <3>1, <3>2, <3>3
  <2>2. CASE q # r
    BY <1>3, <1>7, <2>2 DEF SeenInv, Probing, Target
  <2>3. QED
    BY <2>1, <2>2
<1>12. QED
  BY <1>5, <1>9, <1>11

LEMMA CancelKeepsReady ==
    ASSUME ReadyInv, NEW r \in Requests, Cancel(r) PROVE ReadyInv'
<1> USE DEF ReadyInv, Cancel
<1>1. ReadyTypeOK'
  BY DEF ReadyTypeOK
<1>2. LoopInv'
  BY DEF LoopInv, Probing, Target
<1>3. SeenInv'
  BY DEF ReadyTypeOK, SeenInv, Probing, Target
<1>4. QED
  BY <1>1, <1>2, <1>3

(* A dependency that goes or comes while a request probes is seen.         *)
LEMMA ChangeKeepsReady ==
    ASSUME ReadyInv, NEW d \in Deps, DependencyChanges(d) PROVE ReadyInv'
<1> USE DEF ReadyInv, DependencyChanges
<1>1. ReadyTypeOK'
  <2>1. seen' \in [Requests -> [up : SUBSET Deps, faulty : SUBSET Deps]]
    BY DEF ReadyTypeOK
  <2>2. QED
    BY <2>1 DEF ReadyTypeOK
<1>2. LoopInv'
  BY DEF LoopInv, Probing, Target
<1>3. ASSUME NEW q \in Requests
      PROVE  /\ seen[q].up \subseteq seen'[q].up /\ seen[q].faulty \subseteq seen'[q].faulty
             /\ Probing(q) => d \in (IF reach'[d] THEN seen'[q].up ELSE seen'[q].faulty)
  BY DEF ReadyTypeOK
<1>4. \A e \in Deps \ {d} : reach'[e] = reach[e]
  BY DEF ReadyTypeOK
<1>5. SeenInv'
  <2> SUFFICES ASSUME NEW q \in Requests PROVE SeenInv!(q)'
    BY DEF SeenInv
  <2>1. Probing(q)' <=> Probing(q)
    BY DEF Probing
  <2>2. Probing(q) => \A e \in Deps : e \in (IF reach'[e] THEN seen'[q].up ELSE seen'[q].faulty)
    BY <1>3, <1>4 DEF SeenInv
  <2>3. Probing(q) /\ Timeout > 0 /\ clock'[q] = ProbeTime => Target(q)' \in seen'[q].faulty
    BY <1>3 DEF SeenInv, Target
  <2>4. \A e \in DOMAIN checks'[q] :
           /\ checks'[q][e] = "ok" => e \in seen'[q].up
           /\ checks'[q][e] = "failed" /\ Timeout > 0 /\ ~canceled'[q] => e \in seen'[q].faulty
    BY <1>3 DEF SeenInv
  <2>5. QED
    BY <2>1, <2>2, <2>3, <2>4
<1>6. QED
  BY <1>1, <1>2, <1>5

(* Time passes only while no context is done, so that no clock passes the  *)
(* timeout; the probe whose time is up has met a dependency that failed.   *)
LEMMA TickKeepsReady == ASSUME ReadyInv, Tick PROVE ReadyInv'
<1> USE DEF ReadyInv
<1> DEFINE busy == {r \in Requests : Probing(r)}
<1>1. /\ UNCHANGED <<reach, status, checks, canceled>>
      /\ \A r \in busy : ~MustEnd(r)
      /\ clock' = [r \in Requests |-> IF r \in busy THEN clock[r] + 1 ELSE clock[r]]
      /\ waited' = [r \in Requests |-> IF r \in busy THEN waited[r] + 1 ELSE waited[r]]
      /\ seen' = [r \in Requests |->
                    IF r \in busy /\ clock'[r] = ProbeTime
                    THEN [seen[r] EXCEPT !.faulty = @ \cup {Target(r)}] ELSE seen[r]]
  BY DEF Tick
<1>2. ASSUME NEW q \in Requests
      PROVE  /\ clock'[q] \in 0..ProbeTime /\ waited'[q] \in Nat
             /\ Probing(q) => clock'[q] = clock[q] + 1 /\ waited'[q] = waited[q] + 1
             /\ ~Probing(q) => clock'[q] = clock[q] /\ waited'[q] = waited[q]
  BY <1>1, ProbeTimeType DEF ReadyTypeOK, MustEnd, Expired
<1>3. ASSUME NEW q \in Requests
      PROVE  /\ seen'[q] \in [up : SUBSET Deps, faulty : SUBSET Deps]
             /\ seen[q].up \subseteq seen'[q].up /\ seen[q].faulty \subseteq seen'[q].faulty
             /\ Probing(q) /\ clock'[q] = ProbeTime => Target(q) \in seen'[q].faulty
  <2>1. Probing(q) => Target(q) \in Deps
    BY DEF LoopInv
  <2>2. QED
    BY <1>1, <2>1 DEF ReadyTypeOK
<1>4. ReadyTypeOK'
  BY <1>1, <1>2, <1>3 DEF ReadyTypeOK
<1>5. LoopInv'
  <2> SUFFICES ASSUME NEW q \in Requests PROVE LoopInv!(q)'
    BY DEF LoopInv
  <2>1. waited'[q] <= Len(checks'[q]) * ProbeTime + clock'[q]
    <3>1. PICK n \in Nat : n = Len(checks[q]) * ProbeTime
      BY ProbeTimeType DEF ReadyTypeOK
    <3>2. waited[q] <= n + clock[q] /\ waited[q] \in Nat /\ clock[q] \in Nat
      BY <3>1, ProbeTimeType DEF ReadyTypeOK, LoopInv
    <3>3. waited'[q] <= n + clock'[q]
      BY <1>2, <3>1, <3>2
    <3>4. QED
      BY <1>1, <3>1, <3>3
  <2>2. QED
    BY <1>1, <1>2, <2>1 DEF LoopInv, Probing, Target
<1>6. SeenInv'
  <2> SUFFICES ASSUME NEW q \in Requests PROVE SeenInv!(q)'
    BY DEF SeenInv
  <2>1. QED
    BY <1>1, <1>3 DEF SeenInv, Probing, Target
<1>7. QED
  BY <1>4, <1>5, <1>6

LEMMA ReadyInvariant == GatewaySpec => []ReadyInv
<1>1. GatewayInit => ReadyInv
  BY ReadyInitial DEF GatewayInit
<1>2. ReadyInv /\ [GatewayNext]_allVars => ReadyInv'
  <2> SUFFICES ASSUME ReadyInv, [ReadyNext]_readyVars PROVE ReadyInv'
    BY ReadyStep
  <2>1. CASE UNCHANGED readyVars
    BY <2>1 DEF readyVars, ReadyInv, ReadyTypeOK, LoopInv, SeenInv, Probing, Target
  <2>2. QED
    BY <2>1, BeginKeepsReady, ProbeKeepsReady, CancelKeepsReady, ChangeKeepsReady, TickKeepsReady
       DEF ReadyNext, Environment
<1>3. QED
  BY <1>1, <1>2, PTL DEF GatewaySpec

(* No check that the answer is made of claims what was not so while the    *)
(* request was probing, unless the timeout leaves a probe no time, and a   *)
(* 200 claims it of every dependency (service/health.go:85-101).           *)
THEOREM ReadyTellsTheTruth == GatewaySpec => []ReadyIsTruthful
<1>1. ReadyInv => ReadyIsTruthful
  <2> SUFFICES ASSUME ReadyInv, NEW r \in Requests, status[r] = "ok"
               PROVE  seen[r].up = Deps
    BY DEF ReadyInv, SeenInv, ReadyIsTruthful
  <2>1. seen[r].up \subseteq Deps
    BY DEF ReadyInv, ReadyTypeOK
  <2>2. DOMAIN checks[r] = Deps /\ \A d \in Deps : checks[r][d] = "ok"
    BY DEF ReadyInv, ReadyTypeOK, LoopInv, Deps
  <2>3. Deps \subseteq seen[r].up
    BY <2>2 DEF ReadyInv, SeenInv
  <2>4. QED
    BY <2>1, <2>3
<1>2. QED
  BY <1>1, ReadyInvariant, PTL

(* A readiness probe is over after the timeouts of its dependencies taken  *)
(* together (service/health.go:88).                                        *)
THEOREM ReadyKeepsItsBudget == GatewaySpec => []ReadyWithinBudget
<1>1. ReadyInv => ReadyWithinBudget
  <2> SUFFICES ASSUME ReadyInv, NEW r \in Requests PROVE waited[r] <= NumDeps * ProbeTime
    BY DEF ReadyWithinBudget
  <2>1. /\ waited[r] <= Len(checks[r]) * ProbeTime + clock[r]
        /\ waited[r] \in Nat /\ Len(checks[r]) \in Nat /\ clock[r] \in 0..ProbeTime
    BY ProbeTimeType DEF ReadyInv, ReadyTypeOK, LoopInv
  <2>2. CASE Probing(r)
    <3>1. Len(checks[r]) + 1 <= NumDeps
      BY <2>2, NumDepsAssumption DEF ReadyInv, LoopInv, Target, Deps
    <3>2. (Len(checks[r]) + 1) * ProbeTime <= NumDeps * ProbeTime
      <4>1. Len(checks[r]) + 1 \in Nat /\ NumDeps \in Nat /\ ProbeTime \in Nat
        BY <2>1, NumDepsAssumption, ProbeTimeType
      <4>2. QED
        BY <3>1, <4>1, FewerTimes, Zenon
    <3>3. (Len(checks[r]) + 1) * ProbeTime = Len(checks[r]) * ProbeTime + ProbeTime
      <4>1. Len(checks[r]) \in Nat /\ ProbeTime \in Nat
        BY <2>1, ProbeTimeType
      <4>2. QED
        BY <4>1, OneMore, Zenon
    <3>4. Len(checks[r]) * ProbeTime \in Nat /\ NumDeps * ProbeTime \in Nat
      BY <2>1, NumDepsAssumption, ProbeTimeType
    <3>5. QED
      BY <2>1, <3>2, <3>3, <3>4, ProbeTimeType
  <2>3. CASE ~Probing(r)
    <3>0. Len(checks[r]) <= NumDeps /\ clock[r] = 0
      BY <2>1, <2>3 DEF ReadyInv, LoopInv
    <3>1. Len(checks[r]) * ProbeTime <= NumDeps * ProbeTime
      <4>1. Len(checks[r]) \in Nat /\ NumDeps \in Nat /\ ProbeTime \in Nat
        BY <2>1, NumDepsAssumption, ProbeTimeType
      <4>2. QED
        BY <3>0, <4>1, FewerTimes, Zenon
    <3>2. Len(checks[r]) * ProbeTime \in Nat /\ NumDeps * ProbeTime \in Nat
      BY <2>1, NumDepsAssumption, ProbeTimeType
    <3>3. QED
      BY <2>1, <3>0, <3>1, <3>2
  <2>4. QED
    BY <2>2, <2>3
<1>2. QED
  BY <1>1, ReadyInvariant, PTL
-------------------------------------------------------------------------------
(* Bags and codes.                                                         *)

LEMMA CountOne ==
    ASSUME NEW B, IsABag(B), NEW e
    PROVE  /\ IsABag(B (+) SetToBag({e}))
           /\ \A x : Value(x, B (+) SetToBag({e})) = Value(x, B) + (IF x = e THEN 1 ELSE 0)
<1>1. IsABag(B (+) SetToBag({e}))
  BY DEF IsABag, (+), SetToBag
<1>2. ASSUME NEW x
      PROVE  Value(x, B (+) SetToBag({e})) = Value(x, B) + (IF x = e THEN 1 ELSE 0)
  BY DEF IsABag, (+), SetToBag, Value
<1>3. QED
  BY <1>1, <1>2

LEMMA EmptyCounter == IsABag(EmptyBag) /\ \A x : Value(x, EmptyBag) = 0
  BY DEF IsABag, EmptyBag, SetToBag, Value

-------------------------------------------------------------------------------
(* The requests and the topic.                                             *)

LEMMA RequestInitial == GatewayInit => RequestInv
<1> SUFFICES ASSUME GatewayInit PROVE RequestInv
  OBVIOUS
<1> USE DEF GatewayInit
<1>1. GatewayTypeOK
  BY EmptyCounter DEF GatewayTypeOK, InProducer, Results, Public
<1>2. FlowInv
  <2> SUFFICES ASSUME NEW r \in Requests PROVE FlowInv!(r)
    BY DEF FlowInv, InProducer
  <2>1. pc[r] = "idle" /\ route[r] = "unmatched" /\ size[r] = 0 /\ result[r] = "none"
    OBVIOUS
  <2>2. ~(size[r] > 0)
    BY <2>1
  <2>3. QED
    BY <2>1, <2>2 DEF InProducer
<1>3. TokenInv
  BY DEF TokenInv, DataPlane
<1>4. TopicInv
  BY DEF TopicInv, HasSucceeded, HasCounted
<1>5. QED
  BY <1>1, <1>2, <1>3, <1>4 DEF RequestInv

LEMMA ArriveKeepsRequests ==
    ASSUME RequestInv, NEW r \in Requests, Arrive(r) PROVE RequestInv'
<1> USE DEF RequestInv
<1>1. PICK p \in Public \cup DataPlane :
         /\ pc[r] = "idle"
         /\ route' = [route EXCEPT ![r] = p]
         /\ pc' = [pc EXCEPT ![r] = IF AuthEnabled /\ Guarded(p) THEN "auth" ELSE "handler"]
         /\ UNCHANGED <<passed, size, stored, result, http, kafkaOps, messages>>
  BY DEF Arrive
<1>2. result[r] = "none" /\ size[r] = 0
  BY <1>1 DEF FlowInv, InProducer
<1>3. GatewayTypeOK'
  BY <1>1 DEF GatewayTypeOK, InProducer
<1>4. FlowInv'
  BY <1>1, <1>2 DEF GatewayTypeOK, FlowInv, InProducer, Guarded
<1>5. TokenInv'
  BY <1>1, <1>2 DEF GatewayTypeOK, InProducer, TokenInv, Guarded
<1>6. TopicInv'
  BY <1>1, <1>2 DEF GatewayTypeOK, InProducer, TopicInv, HasSucceeded, HasCounted, BatchOf
<1>7. QED
  BY <1>3, <1>4, <1>5, <1>6

LEMMA CheckTokenKeepsRequests ==
    ASSUME RequestInv, NEW r \in Requests, CheckToken(r) PROVE RequestInv'
<1> USE DEF RequestInv, CheckToken
<1>1. GatewayTypeOK'
  BY DEF GatewayTypeOK, InProducer, Results
<1>2. FlowInv'
  BY DEF GatewayTypeOK, FlowInv, InProducer
<1>3. TokenInv'
  BY DEF GatewayTypeOK, FlowInv, InProducer, TokenInv
<1>4. TopicInv'
  BY DEF GatewayTypeOK, FlowInv, InProducer, TopicInv, HasSucceeded, HasCounted, BatchOf
<1>5. QED
  BY <1>1, <1>2, <1>3, <1>4

(* A handler that answers without touching the topic.                      *)
LEMMA AnswerKeepsRequests ==
    ASSUME RequestInv, NEW r \in Requests, NEW code \in Results \ {"none", "unauthorized"},
           pc[r] = "handler", route[r] = "publish" => code # "ok", Write(r, code),
           UNCHANGED <<route, passed, size, stored>>, GatewayTypeOK'
    PROVE  RequestInv'
<1> USE DEF RequestInv, Write
<1>1. FlowInv'
  BY DEF GatewayTypeOK, FlowInv, InProducer
<1>2. TokenInv'
  BY DEF GatewayTypeOK, FlowInv, InProducer, TokenInv
<1>3. TopicInv'
  BY DEF GatewayTypeOK, FlowInv, InProducer, TopicInv, HasSucceeded, HasCounted, BatchOf
<1>4. QED
  BY <1>1, <1>2, <1>3

(* The call of the producer, what the decorator counts, and the answer.    *)
LEMMA ProducerKeepsRequests ==
    ASSUME RequestInv, NEW r \in Requests, ProducerReturns(r) \/ CountMessages(r) \/ Reply(r)
    PROVE  RequestInv'
<1> USE DEF RequestInv
<1>1. /\ pc[r] \in InProducer /\ size[r] > 0 /\ size[r] \in Nat /\ route[r] = "publish"
      /\ result[r] = "none"
  BY DEF ProducerReturns, CountMessages, Reply, GatewayTypeOK, FlowInv, InProducer
<1>2. CASE ProducerReturns(r)
  <2> USE <1>2
  <2>1. PICK failed \in BOOLEAN :
           /\ pc[r] = "produce"
           /\ failed \/ Acks = "none" \/ BatchOf(r) \subseteq stored
           /\ Record("publish", failed)
           /\ pc' = [pc EXCEPT ![r] = IF failed THEN "failed" ELSE "succeeded"]
           /\ UNCHANGED <<route, passed, size, stored, result, http, messages>>
    BY DEF ProducerReturns
  <2>2. IsABag(kafkaOps')
    BY <2>1, CountOne DEF Record, GatewayTypeOK, InProducer
  <2>3. GatewayTypeOK'
    BY <2>1, <2>2 DEF GatewayTypeOK, InProducer
  <2>4. FlowInv'
    BY <1>1, <2>1 DEF GatewayTypeOK, FlowInv, InProducer
  <2>5. TokenInv'
    BY <1>1, <2>1 DEF GatewayTypeOK, InProducer, TokenInv
  <2>6. TopicInv'
    BY <2>1 DEF GatewayTypeOK, InProducer, TopicInv, HasSucceeded, HasCounted, BatchOf
  <2>7. QED
    BY <2>3, <2>4, <2>5, <2>6
<1>3. CASE CountMessages(r)
  <2> USE <1>3 DEF CountMessages
  <2>1. GatewayTypeOK'
    BY <1>1 DEF GatewayTypeOK, InProducer
  <2>2. FlowInv'
    BY <1>1 DEF GatewayTypeOK, FlowInv, InProducer
  <2>3. TokenInv'
    BY <1>1 DEF GatewayTypeOK, InProducer, TokenInv
  <2>4. TopicInv'
    BY DEF GatewayTypeOK, InProducer, TopicInv, HasSucceeded, HasCounted, BatchOf
  <2>5. QED
    BY <2>1, <2>2, <2>3, <2>4
<1>4. CASE Reply(r)
  <2>1. PICK code \in Codes :
           /\ Write(r, code) /\ code # "invalid_request"
           /\ code = "ok" => pc[r] = "counted"
           /\ UNCHANGED <<route, passed, size, stored, http, kafkaOps, messages>>
    BY <1>4 DEF Reply, Codes, ErrorCodes
  <2> USE <2>1 DEF Write
  <2>2. GatewayTypeOK'
    BY DEF GatewayTypeOK, InProducer, Results
  <2>3. FlowInv'
    BY <1>1 DEF GatewayTypeOK, FlowInv, InProducer, Codes, ErrorCodes
  <2>4. TokenInv'
    BY <1>1 DEF GatewayTypeOK, InProducer, TokenInv
  <2>5. TopicInv'
    BY DEF GatewayTypeOK, InProducer, TopicInv, HasSucceeded, HasCounted, BatchOf
  <2>6. QED
    BY <2>2, <2>3, <2>4, <2>5
<1>5. QED
  BY <1>2, <1>3, <1>4

LEMMA ServeKeepsRequests ==
    ASSUME RequestInv, ReadyInv, NEW r \in Requests, Serve(r) PROVE RequestInv'
<1>1. CASE CheckToken(r)
  BY <1>1, CheckTokenKeepsRequests
<1>2. CASE Immediate(r)
  <2>1. PICK code \in {"ok", "not_found"} :
           /\ pc[r] = "handler" /\ route[r] # "publish" /\ Write(r, code)
           /\ UNCHANGED <<route, passed, size, stored, http, kafkaOps, messages>>
    BY <1>2 DEF Immediate, Handling
  <2>2. GatewayTypeOK'
    BY <2>1 DEF RequestInv, GatewayTypeOK, InProducer, Write, Results, Codes
  <2>3. QED
    BY <2>1, <2>2, AnswerKeepsRequests DEF Results, Codes
<1>3. CASE Ready(r) /\ UNCHANGED <<pc, result>>
  BY <1>3 DEF Ready, RequestInv, GatewayTypeOK, FlowInv, InProducer, TokenInv, TopicInv, HasSucceeded, HasCounted, BatchOf
<1>4. CASE Ready(r) /\ ~UNCHANGED <<pc, result>>
  <2>1. PICK code \in {"ok", "degraded"} :
           /\ pc[r] = "handler" /\ route[r] # "publish" /\ Write(r, code)
           /\ UNCHANGED <<route, passed, size, stored, http, kafkaOps, messages>>
    BY <1>4 DEF Ready, Handling
  <2>2. GatewayTypeOK'
    BY <2>1 DEF RequestInv, GatewayTypeOK, InProducer, Write, Results, Codes
  <2>3. QED
    BY <2>1, <2>2, AnswerKeepsRequests DEF Results, Codes
<1>5. CASE Query(r)
  <2>1. PICK code \in Codes :
           /\ pc[r] = "handler" /\ route[r] # "publish" /\ Write(r, code)
           /\ UNCHANGED <<route, passed, size, stored, http, messages>>
    BY <1>5 DEF Query, Handling, Codes, ErrorCodes
  <2>2. IsABag(kafkaOps')
    BY <1>5, CountOne DEF Query, Record, RequestInv, GatewayTypeOK, InProducer
  <2>3. GatewayTypeOK'
    BY <2>1, <2>2 DEF RequestInv, GatewayTypeOK, InProducer, Write, Results
  <2>4. QED
    BY <2>1, <2>3, AnswerKeepsRequests DEF Results, Codes, ErrorCodes
<1>6. CASE RejectPublish(r)
  <2>1. GatewayTypeOK'
    BY <1>6 DEF RejectPublish, RequestInv, GatewayTypeOK, InProducer, Write, Results, Codes, ErrorCodes
  <2>2. QED
    BY <1>6, <2>1, AnswerKeepsRequests DEF RejectPublish, Handling, Results, Codes, ErrorCodes
<1>7. CASE CallProducer(r)
  <2> USE <1>7 DEF RequestInv
  <2>1. PICK n \in 1..MaxBatchSize :
           /\ pc[r] = "handler" /\ route[r] = "publish" /\ size[r] = 0
           /\ size' = [size EXCEPT ![r] = n] /\ pc' = [pc EXCEPT ![r] = "produce"]
           /\ UNCHANGED <<route, passed, stored, result, http, kafkaOps, messages>>
    BY DEF CallProducer, Handling
  <2>2. n \in Nat /\ n > 0
    BY MaxBatchSizeAssumption
  <2>3. GatewayTypeOK'
    BY <2>1, <2>2 DEF GatewayTypeOK, InProducer
  <2>4. FlowInv'
    BY <2>1, <2>2 DEF GatewayTypeOK, FlowInv, InProducer, DataPlane
  <2>5. TokenInv'
    BY <2>1, <2>2 DEF GatewayTypeOK, InProducer, TokenInv
  <2>6. TopicInv'
    <3>1. BatchOf(r) = {} /\ \A q \in Requests \ {r} : BatchOf(q)' = BatchOf(q)
      BY <2>1 DEF GatewayTypeOK, InProducer, BatchOf
    <3>2. result[r] # "ok"
      BY <2>1 DEF FlowInv, InProducer
    <3>3. QED
      BY <2>1, <3>1, <3>2 DEF GatewayTypeOK, InProducer, TopicInv, HasSucceeded, HasCounted
  <2>7. QED
    BY <2>3, <2>4, <2>5, <2>6
<1>8. CASE ProducerReturns(r) \/ CountMessages(r) \/ Reply(r)
  BY <1>8, ProducerKeepsRequests
<1>9. CASE Finish(r)
  <2> USE <1>9 DEF RequestInv, Finish
  <2>1. IsABag(http')
    BY CountOne DEF GatewayTypeOK, InProducer
  <2>2. GatewayTypeOK'
    BY <2>1 DEF GatewayTypeOK, InProducer
  <2>3. FlowInv'
    BY DEF GatewayTypeOK, FlowInv, InProducer
  <2>4. TokenInv'
    BY DEF GatewayTypeOK, InProducer, TokenInv
  <2>5. TopicInv'
    BY DEF GatewayTypeOK, InProducer, TopicInv, HasSucceeded, HasCounted, BatchOf
  <2>6. QED
    BY <2>2, <2>3, <2>4, <2>5
<1>10. QED
  BY <1>1, <1>2, <1>3, <1>4, <1>5, <1>6, <1>7, <1>8, <1>9 DEF Serve

LEMMA StoreKeepsRequests ==
    ASSUME RequestInv, NEW r \in Requests, Store(r) PROVE RequestInv'
  BY DEF RequestInv, Store, GatewayTypeOK, FlowInv, InProducer, TokenInv, TopicInv, HasSucceeded, HasCounted, BatchOf

LEMMA OthersKeepRequests == ASSUME RequestInv, UNCHANGED gatewayVars PROVE RequestInv'
  BY DEF gatewayVars, RequestInv, GatewayTypeOK, FlowInv, InProducer, TokenInv, TopicInv, HasSucceeded, HasCounted, BatchOf

LEMMA RequestInvariant == GatewaySpec => []RequestInv
<1>1. RequestInv /\ ReadyInv /\ [GatewayNext]_allVars => RequestInv'
  BY ArriveKeepsRequests, ServeKeepsRequests, StoreKeepsRequests, OthersKeepRequests
     DEF GatewayNext, ClientGoesAway, allVars
<1>2. QED
  BY <1>1, RequestInitial, ReadyInvariant, PTL DEF GatewaySpec

(* With authentication on, only a request whose token was accepted has     *)
(* anything recorded or answered from the cluster, and only a route below  *)
(* /topics is refused (middleware/auth.go, README.md "API                  *)
(* authentication").                                                       *)
THEOREM OnlyTheDataPlaneIsGuarded == GatewaySpec => []OnlyDataPlaneIsGuarded
<1>1. RequestInv => OnlyDataPlaneIsGuarded
  <2> SUFFICES ASSUME RequestInv, NEW r \in Requests, AuthEnabled
               PROVE  /\ result[r] = "unauthorized" => route[r] \in DataPlane
                      /\ BatchOf(r) \cap stored # {} \/ (route[r] \in DataPlane /\ result[r] = "ok")
                            => r \in passed
    BY DEF OnlyDataPlaneIsGuarded
  <2>1. BatchOf(r) # {} => size[r] > 0
    BY DEF RequestInv, GatewayTypeOK, InProducer, BatchOf
  <2>2. size[r] > 0 => route[r] \in DataPlane
    BY DEF RequestInv, FlowInv, InProducer, DataPlane
  <2>3. QED
    BY <2>1, <2>2 DEF RequestInv, FlowInv, InProducer, TokenInv
<1>2. QED
  BY <1>1, RequestInvariant, PTL
-------------------------------------------------------------------------------
(* The contract.  What the client has been told of its publish.            *)

Outcome == [r \in Requests |->
              IF route[r] = "publish" /\ result[r] # "unauthorized" THEN result[r] ELSE "none"]

(* What a client is told when a handler answers.                           *)
LEMMA AnswerIsTold ==
    ASSUME RequestInv, NEW r \in Requests, NEW code \in Results \ {"unauthorized"},
           pc[r] \in {"handler", "counted", "failed"}, Write(r, code), UNCHANGED route
    PROVE  /\ Outcome[r] = "none"
           /\ Outcome' = [Outcome EXCEPT ![r] = IF route[r] = "publish" THEN code ELSE "none"]
<1>1. result[r] = "none"
  BY DEF RequestInv, FlowInv, InProducer
<1>2. result' = [result EXCEPT ![r] = code] /\ route' = route /\ DOMAIN result = Requests
  BY DEF Write, RequestInv, GatewayTypeOK, InProducer
<1>3. \A q \in Requests :
         Outcome'[q] = IF q = r THEN IF route[r] = "publish" THEN code ELSE "none" ELSE Outcome[q]
  BY <1>2 DEF Outcome
<1>4. QED
  BY <1>1, <1>3 DEF Outcome

LEMMA ServeIsAllowed ==
    ASSUME Acks # "none", RequestInv, NEW r \in Requests, Serve(r)
    PROVE  Contract!Next \/ UNCHANGED <<size, stored, Outcome>>
<1> USE DEF RequestInv
<1>1. CASE CheckToken(r)
  <2>1. result[r] = "none" /\ UNCHANGED <<size, stored, route>>
    BY <1>1 DEF CheckToken, FlowInv, InProducer
  <2>2. \A q \in Requests : Outcome'[q] = Outcome[q]
    BY <1>1, <2>1 DEF CheckToken, GatewayTypeOK, InProducer, Outcome
  <2>3. QED
    BY <2>1, <2>2 DEF Outcome
<1>2. CASE Immediate(r) \/ Query(r) \/ (Ready(r) /\ ~UNCHANGED <<pc, result>>)
  <2>1. PICK code \in Results \ {"unauthorized"} :
           pc[r] = "handler" /\ Write(r, code) /\ route[r] # "publish" /\ UNCHANGED <<size, stored, route>>
    BY <1>2 DEF Immediate, Query, Ready, Handling, Results, Codes, ErrorCodes
  <2>2. Outcome' = [Outcome EXCEPT ![r] = "none"] /\ Outcome[r] = "none"
    BY <2>1, AnswerIsTold
  <2>3. QED
    BY <2>1, <2>2 DEF Outcome
<1>3. CASE Finish(r) \/ (Ready(r) /\ UNCHANGED <<pc, result>>)
  BY <1>3 DEF Finish, Ready, Outcome
<1>4. CASE RejectPublish(r)
  <2>1. /\ pc[r] = "handler" /\ Write(r, "invalid_request") /\ route[r] = "publish"
        /\ size[r] = 0 /\ UNCHANGED <<size, stored, route>>
    BY <1>4 DEF RejectPublish, Handling
  <2>2. Outcome[r] = "none" /\ Outcome' = [Outcome EXCEPT ![r] = "invalid_request"]
    BY <2>1, AnswerIsTold DEF Results, Codes, ErrorCodes
  <2>3. Contract!Reject(r)
    BY <2>1, <2>2 DEF Contract!Reject, Contract!Answer, Outcome
  <2>4. QED
    BY <2>3 DEF Contract!Next
<1>5. CASE CallProducer(r)
  <2>1. PICK n \in 1..MaxBatchSize :
           /\ pc[r] = "handler" /\ size[r] = 0 /\ size' = [size EXCEPT ![r] = n]
           /\ UNCHANGED <<stored, route, result>>
    BY <1>5 DEF CallProducer, Handling
  <2>2. UNCHANGED Outcome /\ Outcome[r] = "none"
    BY <2>1 DEF FlowInv, InProducer, Outcome
  <2>3. size'[r] = n /\ n \in Nat \ {0}
    BY <2>1, MaxBatchSizeAssumption DEF GatewayTypeOK, InProducer
  <2>4. Contract!Accept(r)
    BY <2>1, <2>2, <2>3 DEF Contract!Accept, Outcome
  <2>5. QED
    BY <2>4 DEF Contract!Next
<1>6. CASE ProducerReturns(r) \/ CountMessages(r)
  BY <1>6 DEF ProducerReturns, CountMessages, Outcome
<1>7. CASE Reply(r)
  <2>1. PICK code \in Codes :
           /\ pc[r] \in {"counted", "failed"} /\ Write(r, code)
           /\ code # "invalid_request" /\ (code = "ok" => pc[r] = "counted")
           /\ UNCHANGED <<route, size, stored>>
    BY <1>7 DEF Reply, Codes, ErrorCodes
  <2>2. route[r] = "publish" /\ size[r] > 0
    BY <2>1 DEF FlowInv, InProducer
  <2>3. Outcome[r] = "none" /\ Outcome' = [Outcome EXCEPT ![r] = code]
    BY <2>1, <2>2, AnswerIsTold DEF Results, Codes, ErrorCodes
  <2>4. CASE code = "ok"
    <3>1. BatchOf(r) \subseteq stored
      BY <2>1, <2>4 DEF TopicInv, HasSucceeded, HasCounted
    <3>2. Contract!Confirm(r)
      BY <2>1, <2>2, <2>3, <2>4, <3>1
         DEF Contract!Confirm, Contract!Answer, Contract!RecordsOf, BatchOf, Outcome
    <3>3. QED
      BY <3>2 DEF Contract!Next
  <2>5. CASE code # "ok"
    <3>1. code \in Contract!ErrorCodes \ {"invalid_request"}
      BY <2>1, <2>5 DEF Codes, ErrorCodes, Contract!ErrorCodes
    <3>2. Contract!Answer(r, code)
      BY <2>3 DEF Contract!Answer, Outcome
    <3>3. Contract!Fail(r)
      BY <2>1, <2>2, <3>1, <3>2 DEF Contract!Fail
    <3>4. QED
      BY <3>3 DEF Contract!Next
  <2>6. QED
    BY <2>4, <2>5
<1>8. QED
  BY <1>1, <1>2, <1>3, <1>4, <1>5, <1>6, <1>7 DEF Serve

LEMMA StepIsAllowed ==
    ASSUME Acks # "none", RequestInv, [GatewayNext]_allVars
    PROVE  Contract!Next \/ UNCHANGED <<size, stored, Outcome>>
<1>1. ASSUME NEW r \in Requests, Arrive(r) PROVE UNCHANGED <<size, stored, Outcome>>
  <2>1. result[r] = "none" /\ UNCHANGED <<size, stored, result>>
    BY <1>1 DEF Arrive, RequestInv, FlowInv, InProducer
  <2>2. \A q \in Requests : Outcome'[q] = Outcome[q]
    BY <1>1, <2>1 DEF Arrive, RequestInv, GatewayTypeOK, InProducer, Outcome
  <2>3. QED
    BY <2>1, <2>2 DEF Outcome
<1>2. ASSUME NEW r \in Requests, Store(r) PROVE Contract!Next
  <2>1. Contract!Store(r)
    BY <1>2 DEF Store, BatchOf, Contract!Store, Contract!RecordsOf
  <2>2. QED
    BY <2>1 DEF Contract!Next
<1>3. CASE UNCHANGED gatewayVars
  BY <1>3 DEF gatewayVars, Outcome
<1>4. QED
  BY <1>1, <1>2, <1>3, ServeIsAllowed DEF GatewayNext, ClientGoesAway, allVars

(* Between the HTTP surface and the topic there is nothing but the         *)
(* contract: the middleware, the metrics decorator and the handlers add    *)
(* and lose no answer (api/publish.go, metrics/kafka.go:41-46).  The acks  *)
(* are assumed to be required: without them no producer knows more than    *)
(* that it has sent the batch (config.go:177).                             *)
THEOREM GatewayImplementsContract ==
  ASSUME Acks # "none"
  PROVE  GatewaySpec => ImplementsContract
<1>1. GatewayInit => Contract!Init
  BY DEF GatewayInit, Contract!Init
<1>2. RequestInv /\ [GatewayNext]_allVars => [Contract!Next]_(Contract!contractVars)
  BY StepIsAllowed DEF Contract!contractVars, Outcome
<1>3. QED
  BY <1>1, <1>2, RequestInvariant, PTL DEF GatewaySpec, ImplementsContract, Contract!Spec
-------------------------------------------------------------------------------
(* The counters.                                                           *)

LEMMA Finite ==
    ASSUME CountersInv, RequestInv
    PROVE  /\ \A labels : IsFiniteSet(Answered(labels))
           /\ IsFiniteSet(Successful) /\ IsFiniteSet(Counted)
           /\ Acks # "none" => Confirmed \subseteq stored
<1>1. ASSUME NEW labels PROVE IsFiniteSet(Answered(labels))
  <2>1. Answered(labels) \in SUBSET {r \in Requests : pc[r] # "idle"}
    BY DEF Answered
  <2>2. QED
    BY <2>1, FS_Subset DEF CountersInv
<1>2. IsFiniteSet(Successful)
  <2>1. Successful \in SUBSET {r \in Requests : pc[r] # "idle"}
    BY DEF Successful, HasSucceeded, HasCounted, RequestInv, FlowInv
  <2>2. QED
    BY <2>1, FS_Subset DEF CountersInv
<1>3. IsFiniteSet(Counted)
  <2>1. Counted \in SUBSET Successful
    BY DEF Counted, Successful, HasSucceeded
  <2>2. QED
    BY <1>2, <2>1, FS_Subset
<1>4. Acks # "none" => Confirmed \subseteq stored
  BY DEF Confirmed, Counted, HasSucceeded, RequestInv, TopicInv
<1>5. QED
  BY <1>1, <1>2, <1>3, <1>4

(* A batch of n messages is n messages.                                    *)
LEMMA BatchSize ==
    ASSUME RequestInv, NEW r \in Requests
    PROVE  IsFiniteSet(BatchOf(r)) /\ Cardinality(BatchOf(r)) = size[r] /\ size[r] \in Nat
<1>1. size[r] \in Nat
  BY DEF RequestInv, GatewayTypeOK
<1>2. IsFiniteSet(1..size[r]) /\ Cardinality(1..size[r]) = size[r]
  <2>1. \A n \in Nat : IsFiniteSet(1..n) /\ Cardinality(1..n) = n
    BY FS_Interval
  <2>2. QED
    BY <1>1, <2>1, Zenon
<1>3. IsFiniteSet({r}) /\ Cardinality({r}) = 1
  BY FS_Singleton
<1>4. IsFiniteSet(BatchOf(r)) /\ Cardinality(BatchOf(r)) = 1 * size[r]
  <2>1. BatchOf(r) = {r} \X (1..size[r])
    BY DEF BatchOf
  <2>2. /\ IsFiniteSet({r} \X (1..size[r]))
        /\ Cardinality({r} \X (1..size[r])) = Cardinality({r}) * Cardinality(1..size[r])
    BY <1>2, <1>3, FS_Product
  <2>3. QED
    BY <1>2, <1>3, <2>1, <2>2
<1>5. QED
  BY <1>1, <1>4

(* What a step leaves alone that touches one request, before its answer is *)
(* counted.                                                                *)
LEMMA SameAnswers ==
    ASSUME NEW r \in Requests, pc[r] # "done", pc'[r] # "done",
           \A q \in Requests \ {r} : pc'[q] = pc[q] /\ route'[q] = route[q] /\ result'[q] = result[q]
    PROVE  \A labels : Answered(labels)' = Answered(labels)
<1> SUFFICES ASSUME NEW CONSTANT labels PROVE Answered(labels)' = Answered(labels)
  OBVIOUS
<1>1. \A q \in Requests \ {r} : Label(q)' = Label(q)
  BY DEF Label
<1>2. \A q \in Requests \ {r} : q \in Answered(labels)' <=> q \in Answered(labels)
  BY <1>1 DEF Answered
<1>3. r \notin Answered(labels) /\ r \notin Answered(labels)'
  BY DEF Answered
<1>4. Answered(labels) \subseteq Requests /\ Answered(labels)' \subseteq Requests
  BY DEF Answered
<1>5. QED
  BY <1>2, <1>3, <1>4

LEMMA SameSuccess ==
    ASSUME NEW r \in Requests, HasSucceeded(r)' <=> HasSucceeded(r),
           HasCounted(r)' <=> HasCounted(r), HasCounted(r) => size'[r] = size[r],
           \A q \in Requests \ {r} :
              pc'[q] = pc[q] /\ route'[q] = route[q] /\ result'[q] = result[q] /\ size'[q] = size[q]
    PROVE  Successful' = Successful /\ Counted' = Counted /\ Confirmed' = Confirmed
<1>1. ASSUME NEW q \in Requests \ {r}
      PROVE  /\ HasSucceeded(q)' <=> HasSucceeded(q)
             /\ HasCounted(q)' <=> HasCounted(q)
  BY DEF HasSucceeded, HasCounted
<1>2. Successful' = Successful /\ Counted' = Counted
  <2>1. \A q \in Requests : q \in Successful' <=> q \in Successful
    BY <1>1 DEF Successful
  <2>2. \A q \in Requests : q \in Counted' <=> q \in Counted
    BY <1>1 DEF Counted
  <2>3. Successful \subseteq Requests /\ Successful' \subseteq Requests
    BY DEF Successful
  <2>4. Counted \subseteq Requests /\ Counted' \subseteq Requests
    BY DEF Counted
  <2>5. Successful' = Successful
    BY <2>1, <2>3
  <2>6. Counted' = Counted
    BY <2>2, <2>4
  <2>7. QED
    BY <2>5, <2>6
<1>3. \A q \in Counted : BatchOf(q)' = BatchOf(q)
  BY DEF Counted, BatchOf
<1>4. QED
  BY <1>2, <1>3 DEF Confirmed

LEMMA CountersInitial == GatewayInit => CountersInv
<1> SUFFICES ASSUME GatewayInit PROVE CountersInv
  OBVIOUS
<1>1. {r \in Requests : pc[r] # "idle"} = {} /\ stored = {}
  BY DEF GatewayInit
<1>2. Successful = {} /\ Counted = {} /\ \A labels : Answered(labels) = {}
  BY DEF GatewayInit, Successful, Counted, HasSucceeded, HasCounted, Answered
<1>3. Confirmed = {}
  BY <1>2 DEF Confirmed
<1>4. http = EmptyBag /\ kafkaOps = EmptyBag /\ messages = 0
  BY DEF GatewayInit
<1>5. QED
  BY <1>1, <1>2, <1>3, <1>4, EmptyCounter, FS_EmptySet DEF CountersInv

(* The counters stand while what they count does.                          *)
LEMMA NothingToCount ==
    ASSUME CountersInv, NEW r \in Requests,
           \A q \in Requests \ {r} : pc'[q] = pc[q],
           \A labels : Answered(labels)' = Answered(labels),
           Successful' = Successful, Counted' = Counted, Confirmed' = Confirmed,
           \A labels : Value(labels, http)' = Value(labels, http),
           Value(<<"publish", "success">>, kafkaOps)' = Value(<<"publish", "success">>, kafkaOps),
           UNCHANGED messages, IsFiniteSet(stored')
    PROVE  CountersInv'
<1>1. IsFiniteSet({q \in Requests : pc[q] # "idle"} \cup {r})
  BY FS_AddElement DEF CountersInv
<1>2. {q \in Requests : pc'[q] # "idle"} \in SUBSET ({q \in Requests : pc[q] # "idle"} \cup {r})
  OBVIOUS
<1>3. IsFiniteSet({q \in Requests : pc'[q] # "idle"})
  BY <1>1, <1>2, FS_Subset
<1>4. QED
  BY <1>3 DEF CountersInv

LEMMA ArriveKeepsCounters ==
    ASSUME RequestInv, CountersInv, NEW r \in Requests, Arrive(r) PROVE CountersInv'
<1>1. /\ pc[r] = "idle" /\ pc'[r] # "done" /\ result[r] # "ok" /\ result'[r] # "ok"
      /\ \A q \in Requests \ {r} : pc'[q] = pc[q] /\ route'[q] = route[q]
      /\ UNCHANGED <<size, stored, result, http, kafkaOps, messages>>
  BY DEF Arrive, RequestInv, GatewayTypeOK, FlowInv
<1>2. \A labels : Answered(labels)' = Answered(labels)
  BY <1>1, SameAnswers
<1>3. ~HasSucceeded(r) /\ ~HasSucceeded(r)' /\ ~HasCounted(r) /\ ~HasCounted(r)'
  BY <1>1 DEF Arrive, HasSucceeded, HasCounted, RequestInv, GatewayTypeOK
<1>4. IsFiniteSet(stored')
  BY <1>1 DEF CountersInv
<1>5. Successful' = Successful /\ Counted' = Counted /\ Confirmed' = Confirmed
  BY <1>1, <1>3, SameSuccess
<1>6. QED
  BY <1>1, <1>2, <1>4, <1>5, NothingToCount

(* The count of successful publishes ignores the other operations.         *)
LEMMA OtherOperation ==
    ASSUME RequestInv, NEW operation, NEW outcome, <<operation, outcome>> # <<"publish", "success">>,
           kafkaOps' = kafkaOps (+) SetToBag({<<operation, outcome>>})
    PROVE  Value(<<"publish", "success">>, kafkaOps)' = Value(<<"publish", "success">>, kafkaOps)
<1>1. IsABag(kafkaOps)
  BY DEF RequestInv, GatewayTypeOK
<1>2. Value(<<"publish", "success">>, kafkaOps') = Value(<<"publish", "success">>, kafkaOps) + 0
  BY <1>1, CountOne
<1>3. Value(<<"publish", "success">>, kafkaOps) \in Nat
  BY <1>1 DEF IsABag, Value
<1>4. QED
  BY <1>2, <1>3 DEF Value

(* Any step of a handler or of the middleware but the two that count a     *)
(* success: the only operations counted are queries and failures.          *)
LEMMA ServeKeepsCounters ==
    ASSUME RequestInv, CountersInv, NEW r \in Requests, Serve(r), ~Finish(r), ~CountMessages(r),
           ProducerReturns(r) => pc'[r] = "failed"
    PROVE  CountersInv'
<1>1. /\ pc[r] \in {"auth", "handler"} \cup InProducer /\ pc'[r] # "done"
      /\ \A q \in Requests \ {r} :
            pc'[q] = pc[q] /\ route'[q] = route[q] /\ result'[q] = result[q] /\ size'[q] = size[q]
      /\ UNCHANGED <<stored, http, route>>
  BY DEF Serve, RequestInv, GatewayTypeOK, CheckToken, Immediate, Handling, Ready, Query,
         RejectPublish, CallProducer, ProducerReturns, Reply, Write, InProducer
<1>2. \A labels : Answered(labels)' = Answered(labels)
  <2>1. pc[r] # "done"
    BY <1>1 DEF InProducer
  <2>2. QED
    BY <1>1, <2>1, SameAnswers
<1>3. result[r] = "none"
  BY <1>1 DEF RequestInv, FlowInv, InProducer
<1>4. CASE Reply(r)
  <2>1. PICK code \in Codes :
           /\ Write(r, code) /\ (code = "ok" <=> pc[r] = "counted") /\ pc[r] \in {"counted", "failed"}
           /\ UNCHANGED <<size, kafkaOps, messages>>
    BY <1>4 DEF Reply, Codes, ErrorCodes
  <2>2. route[r] = "publish"
    BY <2>1 DEF RequestInv, FlowInv, InProducer
  <2>3. /\ HasSucceeded(r)' <=> HasSucceeded(r)
        /\ HasCounted(r)' <=> HasCounted(r)
    BY <1>1, <1>3, <2>1, <2>2 DEF HasSucceeded, HasCounted, Write, RequestInv, GatewayTypeOK
  <2>4. Successful' = Successful /\ Counted' = Counted /\ Confirmed' = Confirmed
    BY <1>1, <2>1, <2>3, SameSuccess
  <2>5. /\ \A labels : Value(labels, http)' = Value(labels, http)
        /\ Value(<<"publish", "success">>, kafkaOps)' = Value(<<"publish", "success">>, kafkaOps)
        /\ IsFiniteSet(stored')
    BY <1>1, <2>1 DEF CountersInv, Value
  <2>6. QED
    BY <1>1, <1>2, <2>1, <2>4, <2>5, NothingToCount
<1>5. CASE ~Reply(r)
  <2>1. pc[r] \notin {"succeeded", "counted"} /\ pc'[r] \notin {"succeeded", "counted"}
    BY <1>5 DEF Serve, RequestInv, GatewayTypeOK, CheckToken, Immediate, Handling, Ready, Query,
                RejectPublish, CallProducer, ProducerReturns, Write
  <2>2. route[r] = "publish" => result'[r] # "ok"
    BY <1>3, <1>5 DEF Serve, RequestInv, GatewayTypeOK, CheckToken, Immediate, Handling, Ready,
                      Query, RejectPublish, CallProducer, ProducerReturns, Write
  <2>3. ~HasSucceeded(r) /\ ~HasSucceeded(r)' /\ ~HasCounted(r) /\ ~HasCounted(r)'
    BY <1>1, <1>3, <2>1, <2>2 DEF HasSucceeded, HasCounted
  <2>4. Successful' = Successful /\ Counted' = Counted /\ Confirmed' = Confirmed
    BY <1>1, <2>3, SameSuccess
  <2>5. /\ Value(<<"publish", "success">>, kafkaOps)' = Value(<<"publish", "success">>, kafkaOps)
        /\ UNCHANGED messages
    <3>1. CASE Query(r)
      <4>1. \/ kafkaOps' = kafkaOps
            \/ Record("query", FALSE)
            \/ Record("query", TRUE)
        BY <3>1 DEF Query
      <4>2. UNCHANGED messages
        BY <3>1 DEF Query
      <4>3. CASE kafkaOps' = kafkaOps
        BY <4>2, <4>3 DEF Value
      <4>4. CASE Record("query", FALSE)
        <5>1. kafkaOps' = kafkaOps (+) SetToBag({<<"query", "success">>})
          BY <4>4 DEF Record
        <5>2. <<"query", "success">> # <<"publish", "success">>
          OBVIOUS
        <5>3. QED
          BY <4>2, <5>1, <5>2, OtherOperation
      <4>5. CASE Record("query", TRUE)
        BY <4>2, <4>5, OtherOperation DEF Record
      <4>6. QED
        BY <4>1, <4>3, <4>4, <4>5
    <3>2. CASE ProducerReturns(r)
      <4>1. PICK failed \in BOOLEAN :
               /\ Record("publish", failed)
               /\ pc' = [pc EXCEPT ![r] = IF failed THEN "failed" ELSE "succeeded"]
        BY <3>2 DEF ProducerReturns
      <4>2. failed
        BY <3>2, <4>1 DEF RequestInv, GatewayTypeOK
      <4>3. Record("publish", TRUE) /\ UNCHANGED messages
        BY <3>2, <4>1, <4>2 DEF ProducerReturns
      <4>4. QED
        BY <4>3, OtherOperation DEF Record
    <3>3. CASE ~Query(r) /\ ~ProducerReturns(r)
      BY <1>5, <3>3 DEF Serve, CheckToken, Immediate, Ready, RejectPublish, CallProducer, Value
    <3>4. QED
      BY <3>1, <3>2, <3>3
  <2>6. /\ \A labels : Value(labels, http)' = Value(labels, http)
        /\ IsFiniteSet(stored')
    BY <1>1 DEF CountersInv, Value
  <2>7. QED
    BY <1>1, <1>2, <2>4, <2>5, <2>6, NothingToCount
<1>6. QED
  BY <1>4, <1>5

(* A publish succeeds: one operation, whose messages are counted next.     *)
LEMMA SuccessKeepsCounters ==
    ASSUME RequestInv, CountersInv, NEW r \in Requests, ProducerReturns(r), pc'[r] # "failed"
    PROVE  CountersInv'
<1>1. /\ pc[r] = "produce" /\ result[r] = "none"
      /\ pc' = [pc EXCEPT ![r] = "succeeded"]
      /\ kafkaOps' = kafkaOps (+) SetToBag({<<"publish", "success">>})
      /\ UNCHANGED <<route, size, stored, result, http, messages>>
  BY DEF ProducerReturns, Record, RequestInv, GatewayTypeOK, FlowInv
<1>2. \A q \in Requests \ {r} : pc'[q] = pc[q]
  BY <1>1 DEF RequestInv, GatewayTypeOK
<1>3. pc'[r] = "succeeded"
  BY <1>1 DEF RequestInv, GatewayTypeOK
<1>4. \A labels : Answered(labels)' = Answered(labels)
  BY <1>1, <1>2, <1>3, SameAnswers
<1>5. Successful' = Successful \cup {r} /\ r \notin Successful
  BY <1>1, <1>2, <1>3 DEF Successful, HasSucceeded, HasCounted
<1>6. Counted' = Counted
  BY <1>1, <1>2, <1>3 DEF Counted, HasCounted
<1>7. Confirmed' = Confirmed
  BY <1>1, <1>6 DEF Confirmed, BatchOf
<1>8. Cardinality(Successful') = Cardinality(Successful) + 1
  BY <1>5, Finite, FS_AddElement
<1>9. Value(<<"publish", "success">>, kafkaOps') = Value(<<"publish", "success">>, kafkaOps) + 1
  BY <1>1, CountOne DEF RequestInv, GatewayTypeOK
<1>10. {q \in Requests : pc'[q] # "idle"} = {q \in Requests : pc[q] # "idle"}
  BY <1>1, <1>2, <1>3
<1>11. Value(<<"publish", "success">>, kafkaOps') = Cardinality(Successful')
  BY <1>8, <1>9 DEF CountersInv
<1>12. \A labels : Value(labels, http') = Value(labels, http)
  BY <1>1
<1>13. \A labels : Value(labels, http') = Cardinality(Answered(labels)')
  BY <1>4, <1>12 DEF CountersInv
<1>14. /\ IsFiniteSet(stored') /\ IsFiniteSet(Confirmed')
       /\ messages' = Cardinality(Confirmed') /\ Cardinality(Counted') <= messages'
  BY <1>1, <1>6, <1>7 DEF CountersInv
<1>15. QED
  BY <1>10, <1>11, <1>13, <1>14 DEF CountersInv, Value

(* Its messages are counted.                                               *)
LEMMA CountKeepsCounters ==
    ASSUME RequestInv, CountersInv, NEW r \in Requests, CountMessages(r)
    PROVE  CountersInv'
<1>1. /\ pc[r] = "succeeded" /\ result[r] = "none" /\ size[r] > 0
      /\ pc' = [pc EXCEPT ![r] = "counted"]
      /\ messages' = messages + size[r]
      /\ UNCHANGED <<route, size, stored, result, http, kafkaOps>>
  BY DEF CountMessages, RequestInv, FlowInv, InProducer
<1>2. \A q \in Requests \ {r} : pc'[q] = pc[q]
  BY <1>1 DEF RequestInv, GatewayTypeOK
<1>3. pc'[r] = "counted"
  BY <1>1 DEF RequestInv, GatewayTypeOK
<1>4. \A labels : Answered(labels)' = Answered(labels)
  BY <1>1, <1>2, <1>3, SameAnswers
<1>5. Successful' = Successful
  BY <1>1, <1>2, <1>3 DEF Successful, HasSucceeded, HasCounted
<1>6. Counted' = Counted \cup {r} /\ r \notin Counted
  BY <1>1, <1>2, <1>3 DEF Counted, HasCounted
<1>7. Confirmed' = Confirmed \cup BatchOf(r) /\ Confirmed \cap BatchOf(r) = {}
  <2>1. \A q \in Requests : BatchOf(q)' = BatchOf(q)
    BY <1>1 DEF BatchOf
  <2>2. \A q \in Requests \ {r} : BatchOf(q) \cap BatchOf(r) = {}
    BY DEF BatchOf
  <2>3. Counted \subseteq Requests \ {r}
    BY <1>6 DEF Counted
  <2>4. QED
    BY <1>6, <2>1, <2>2, <2>3 DEF Confirmed
<1>8. Cardinality(Counted') = Cardinality(Counted) + 1
  BY <1>6, Finite, FS_AddElement
<1>9. /\ IsFiniteSet(Confirmed')
      /\ Cardinality(Confirmed') = Cardinality(Confirmed) + size[r]
  <2>0. IsFiniteSet(Confirmed) /\ IsFiniteSet(BatchOf(r))
    BY BatchSize DEF CountersInv
  <2>1. /\ IsFiniteSet(Confirmed \cup BatchOf(r))
        /\ Cardinality(Confirmed \cup BatchOf(r)) =
             Cardinality(Confirmed) + Cardinality(BatchOf(r)) - Cardinality(Confirmed \cap BatchOf(r))
    BY <2>0, FS_Union
  <2>2. Cardinality(Confirmed \cap BatchOf(r)) = 0
    BY <1>7, FS_EmptySet
  <2>3. Cardinality(BatchOf(r)) = size[r] /\ size[r] \in Nat /\ Cardinality(Confirmed) \in Nat
    BY <2>0, BatchSize, FS_CardinalityType
  <2>4. QED
    BY <1>7, <2>1, <2>2, <2>3
<1>10. {q \in Requests : pc'[q] # "idle"} = {q \in Requests : pc[q] # "idle"}
  BY <1>1, <1>2, <1>3
<1>11. Cardinality(Counted') <= messages'
  <2>1. /\ Cardinality(Counted) \in Nat /\ messages \in Nat /\ size[r] \in Nat
        /\ Cardinality(Counted) <= messages
    BY Finite, FS_CardinalityType DEF CountersInv, RequestInv, GatewayTypeOK
  <2>2. Cardinality(Counted) + 1 <= messages + size[r]
    BY <1>1, <2>1
  <2>3. QED
    BY <1>1, <1>8, <2>2
<1>12. messages' = Cardinality(Confirmed')
  BY <1>1, <1>9 DEF CountersInv
<1>13. \A labels : Value(labels, http') = Value(labels, http)
  BY <1>1
<1>14. \A labels : Value(labels, http') = Cardinality(Answered(labels)')
  BY <1>4, <1>13 DEF CountersInv
<1>15. /\ IsFiniteSet(stored')
       /\ Value(<<"publish", "success">>, kafkaOps') = Cardinality(Successful')
  BY <1>1, <1>5 DEF CountersInv
<1>16. QED
  BY <1>9, <1>10, <1>11, <1>12, <1>14, <1>15 DEF CountersInv, Value

(* An answer is counted when the request is done, under what it says then. *)
LEMMA FinishKeepsCounters ==
    ASSUME RequestInv, CountersInv, NEW r \in Requests, Finish(r) PROVE CountersInv'
<1> DEFINE label == <<Label(r), result[r]>>
<1>1. /\ pc[r] = "written" /\ pc' = [pc EXCEPT ![r] = "done"]
      /\ http' = http (+) SetToBag({label})
      /\ UNCHANGED <<route, size, stored, result, kafkaOps, messages>>
  BY DEF Finish
<1>2. Successful' = Successful /\ Counted' = Counted /\ Confirmed' = Confirmed
  <2>1. /\ \A q \in Requests \ {r} : pc'[q] = pc[q]
        /\ pc[r] = "written" /\ pc'[r] = "done"
    BY <1>1 DEF RequestInv, GatewayTypeOK
  <2>2. /\ HasSucceeded(r)' <=> HasSucceeded(r)
        /\ HasCounted(r)' <=> HasCounted(r)
    BY <1>1, <2>1 DEF HasSucceeded, HasCounted
  <2>3. QED
    BY <1>1, <2>1, <2>2, SameSuccess
<1>3. {q \in Requests : pc'[q] # "idle"} = {q \in Requests : pc[q] # "idle"}
  BY <1>1 DEF RequestInv, GatewayTypeOK
<1>4. ASSUME NEW CONSTANT labels
      PROVE  Value(labels, http') = Cardinality(Answered(labels)')
  <2>1. \A q \in Requests : Label(q)' = Label(q)
    BY <1>1 DEF Label
  <2>2. r \notin Answered(labels)
    BY <1>1 DEF Answered
  <2>3. Value(labels, http') = Value(labels, http) + (IF labels = label THEN 1 ELSE 0)
    BY <1>1, CountOne DEF RequestInv, GatewayTypeOK
  <2>4. Value(labels, http) = Cardinality(Answered(labels)) /\ IsFiniteSet(Answered(labels))
    BY Finite DEF CountersInv
  <2>5. Cardinality(Answered(labels)) \in Nat
    BY <2>4, FS_CardinalityType
  <2>6. CASE labels = label
    <3>1. Answered(labels)' = Answered(labels) \cup {r}
      BY <1>1, <2>1, <2>6 DEF Answered, RequestInv, GatewayTypeOK
    <3>2. Cardinality(Answered(labels) \cup {r}) = Cardinality(Answered(labels)) + 1
      BY <2>2, <2>4, FS_AddElement
    <3>3. QED
      BY <2>3, <2>4, <2>6, <3>1, <3>2
  <2>7. CASE labels # label
    <3>1. Answered(labels)' = Answered(labels)
      BY <1>1, <2>1, <2>7 DEF Answered, RequestInv, GatewayTypeOK
    <3>2. QED
      BY <2>3, <2>4, <2>5, <2>7, <3>1
  <2>8. QED
    BY <2>6, <2>7
<1>5. QED
  BY <1>1, <1>2, <1>3, <1>4 DEF CountersInv, Value

LEMMA StoreKeepsCounters ==
    ASSUME RequestInv, CountersInv, NEW r \in Requests, Store(r) PROVE CountersInv'
<1>1. UNCHANGED <<pc, route, size, result, http, kafkaOps, messages>>
  BY DEF Store
<1>2. IsFiniteSet(stored')
  BY FS_AddElement DEF Store, CountersInv
<1>3. QED
  BY <1>1, <1>2 DEF CountersInv, Answered, Label, Successful, Counted, HasSucceeded, HasCounted,
                    Confirmed, BatchOf, Value

LEMMA CountersInvariant == GatewaySpec => []CountersInv
<1>1. CountersInv /\ RequestInv /\ [GatewayNext]_allVars => CountersInv'
  <2>1. CountersInv /\ UNCHANGED gatewayVars => CountersInv'
    <3> SUFFICES ASSUME CountersInv, UNCHANGED gatewayVars PROVE CountersInv'
      OBVIOUS
    <3>1. /\ Successful' = Successful /\ Counted' = Counted
          /\ \A labels : Answered(labels)' = Answered(labels)
      BY DEF gatewayVars, Successful, Counted, HasSucceeded, HasCounted, Answered, Label
    <3>2. Confirmed' = Confirmed
      BY <3>1 DEF gatewayVars, Confirmed, BatchOf
    <3>3. QED
      BY <3>1, <3>2 DEF gatewayVars, CountersInv, Value
  <2>2. ASSUME CountersInv, RequestInv, NEW r \in Requests, Serve(r) PROVE CountersInv'
    BY <2>2, ServeKeepsCounters, SuccessKeepsCounters, CountKeepsCounters, FinishKeepsCounters
  <2>3. QED
    BY <2>1, <2>2, ArriveKeepsCounters, StoreKeepsCounters DEF GatewayNext, ClientGoesAway, allVars
<1>2. QED
  BY <1>1, CountersInitial, RequestInvariant, PTL DEF GatewaySpec

(* The counters agree with the answers, with each other and, if acks are   *)
(* required, with the topic (metrics/http.go:20-33, kafka.go:43-45).       *)
THEOREM CountersAlwaysAgree == GatewaySpec => []CountersAgree
<1>1. CountersInv /\ RequestInv => CountersAgree
  <2> SUFFICES ASSUME CountersInv, RequestInv PROVE CountersAgree
    OBVIOUS
  <2>1. \A p \in Public \cup DataPlane \cup {"mount"} :
           \A code \in Codes \cup {"unauthorized", "not_found", "degraded"} :
              Value(<<p, code>>, http) =
                 Cardinality({r \in Requests : pc[r] = "done" /\ Label(r) = p /\ result[r] = code})
    <3>1. TAKE p \in Public \cup DataPlane \cup {"mount"}
    <3> TAKE code \in Codes \cup {"unauthorized", "not_found", "degraded"}
    <3>2. Answered(<<p, code>>) = {r \in Requests : pc[r] = "done" /\ Label(r) = p /\ result[r] = code}
      BY DEF Answered
    <3>3. QED
      BY <3>2 DEF CountersInv
  <2>2. Value(<<"publish", "ok">>, http) <= Value(<<"publish", "success">>, kafkaOps)
    <3>1. Answered(<<"publish", "ok">>) \in SUBSET Successful
      BY DEF Answered, Successful, HasSucceeded, HasCounted, Label
    <3>2. Cardinality(Answered(<<"publish", "ok">>)) <= Cardinality(Successful)
      BY <3>1, Finite, FS_Subset
    <3>3. QED
      BY <3>2 DEF CountersInv
  <2>3. Acks # "none" => messages <= Cardinality(stored)
    BY Finite, FS_Subset DEF CountersInv
  <2>4. Value(<<"publish", "success">>, kafkaOps)
           <= messages + Cardinality({r \in Requests : pc[r] = "succeeded"})
    <3> DEFINE Uncounted == {r \in Requests : pc[r] = "succeeded"}
    <3>1. Successful = Counted \cup Uncounted
      BY DEF Successful, Counted, HasSucceeded
    <3>2. Uncounted \in SUBSET Successful
      BY <3>1
    <3>3. IsFiniteSet(Counted) /\ IsFiniteSet(Uncounted)
      BY <3>2, Finite, FS_Subset
    <3> HIDE DEF Uncounted
    <3>4. /\ Cardinality(Counted \cup Uncounted) =
                Cardinality(Counted) + Cardinality(Uncounted) - Cardinality(Counted \cap Uncounted)
          /\ IsFiniteSet(Counted \cap Uncounted)
      BY <3>3, FS_Union, FS_Intersection
    <3>5. /\ Cardinality(Counted) \in Nat /\ Cardinality(Uncounted) \in Nat
          /\ Cardinality(Counted \cap Uncounted) \in Nat
      BY <3>3, <3>4, FS_CardinalityType
    <3>6. Cardinality(Counted) <= messages /\ messages \in Nat
      BY DEF CountersInv, RequestInv, GatewayTypeOK
    <3>7. Cardinality(Successful) <= messages + Cardinality(Uncounted)
      BY <3>1, <3>4, <3>5, <3>6
    <3>8. QED
      BY <3>7 DEF CountersInv, Uncounted
  <2>5. QED
    BY <2>1, <2>2, <2>3, <2>4 DEF CountersAgree
<1>2. QED
  BY <1>1, CountersInvariant, RequestInvariant, PTL
================================================================================
