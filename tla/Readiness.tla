------------------------------- MODULE Readiness -------------------------------
(***************************************************************************)
(* The readiness probe: HealthService.Ready of internal/service/health.go  *)
(* and its handler in internal/api/health.go.  The dependencies are probed *)
(* one after the other, each within a time of its own, while they go down  *)
(* and come back.  A dependency that is down refuses or stays silent, one  *)
(* that is up may be slow.  The process registers one dependency today,    *)
(* the Kafka client (main.go:96); Ready() takes a list.                    *)
(***************************************************************************)
EXTENDS Integers, Sequences

CONSTANTS Requests,   \* HTTP requests
          NumDeps,    \* len(deps)
          Timeout     \* KRA_SERVER_HEALTH_TIMEOUT

ASSUME NumDepsAssumption == NumDeps \in Nat \ {0}
ASSUME TimeoutAssumption == Timeout \in Int

Deps == 1..NumDeps

(* What context.WithTimeout leaves of a timeout, which the configuration   *)
(* accepts below zero too: the context is then done when the probe begins. *)
ProbeTime == IF Timeout > 0 THEN Timeout ELSE 0

VARIABLES reach,     \* reach[d]: dependency d answers
          status,    \* status[r]: what Ready has come to for request r
          checks,    \* checks[r]: the probes that have ended, in order
          clock,     \* clock[r]: since when the probe of r runs
          waited,    \* waited[r]: since when r is probing
          canceled,  \* canceled[r]: the client of r has gone
          seen       \* what has been the case while r was probing

readyVars == <<reach, status, checks, clock, waited, canceled, seen>>

ReadyInit ==
    /\ reach \in [Deps -> BOOLEAN]
    /\ status = [r \in Requests |-> "none"]
    /\ checks = [r \in Requests |-> <<>>]
    /\ clock = [r \in Requests |-> 0]
    /\ waited = [r \in Requests |-> 0]
    /\ canceled = [r \in Requests |-> FALSE]
    /\ seen = [r \in Requests |-> [up |-> {}, faulty |-> {}]]

Probing(r) == status[r] = "probing"

(* The dependency that is probed next, or now.                             *)
Target(r) == Len(checks[r]) + 1

BeginReady(r) ==
    /\ status[r] = "none"
    /\ status' = [status EXCEPT ![r] = "probing"]
    /\ seen' = [seen EXCEPT ![r] = [up |-> {d \in Deps : reach[d]},
                                    faulty |-> {d \in Deps : ~reach[d]}]]
    /\ UNCHANGED <<reach, checks, clock, waited, canceled>>

(* overall() of a program that forgets what failed before.                 *)
overallOfLast(cs) == IF cs[Len(cs)] = "failed" THEN "degraded" ELSE "ok"

(* Degraded once any check has failed.                                     *)
overall(cs) == IF "failed" \in {cs[i] : i \in DOMAIN cs} THEN "degraded" ELSE "ok"

(* One turn of the loop ends, and with the last one Ready returns.         *)
EndProbe(r, result) ==
    LET cs == Append(checks[r], result)
    IN  /\ checks' = [checks EXCEPT ![r] = cs]
        /\ status' = [status EXCEPT ![r] = IF Len(cs) = NumDeps THEN overall(cs) ELSE @]
        /\ clock' = [clock EXCEPT ![r] = 0]
        /\ UNCHANGED <<reach, waited, canceled, seen>>

ProbeSucceeds(r) ==
    /\ Probing(r)
    /\ reach[Target(r)]
    /\ EndProbe(r, "ok")

(* Expired of a program that gives all the probes one deadline.            *)
ExpiredTogether(r) == waited[r] >= ProbeTime

(* The deadline of the probe, set when it began, is over.                  *)
Expired(r) == clock[r] >= ProbeTime

(* MustEnd of a program that probes with the context of the request.       *)
MustEndWhenCanceled(r) == canceled[r]

(* The context of the probe is done: it ends before more time passes.      *)
MustEnd(r) == Expired(r) \/ canceled[r]

(* GivesUp of a program whose Check ignores its context.                   *)
GivesUpIfRefused(r) == ~reach[Target(r)]

GivesUp(r) == ~reach[Target(r)] \/ MustEnd(r)

ProbeFails(r) ==
    /\ Probing(r)
    /\ GivesUp(r)
    /\ EndProbe(r, "failed")

Cancel(r) ==
    /\ Probing(r)
    /\ ~canceled[r]
    /\ canceled' = [canceled EXCEPT ![r] = TRUE]
    /\ UNCHANGED <<reach, status, checks, clock, waited, seen>>

-------------------------------------------------------------------------------
(* The environment.                                                        *)

DependencyChanges(d) ==
    /\ \E r \in Requests : Probing(r)
    /\ reach' = [reach EXCEPT ![d] = ~@]
    /\ seen' = [r \in Requests |->
                  IF ~Probing(r) THEN seen[r]
                  ELSE IF reach[d] THEN [seen[r] EXCEPT !.faulty = @ \cup {d}]
                  ELSE [seen[r] EXCEPT !.up = @ \cup {d}]]
    /\ UNCHANGED <<status, checks, clock, waited, canceled>>

(* Time passes for the requests that are probing.                          *)
Tick ==
    LET busy == {r \in Requests : Probing(r)}
    IN  /\ busy # {}
        /\ \A r \in busy : ~MustEnd(r)
        /\ clock' = [r \in Requests |-> IF r \in busy THEN clock[r] + 1 ELSE clock[r]]
        /\ waited' = [r \in Requests |-> IF r \in busy THEN waited[r] + 1 ELSE waited[r]]
        /\ seen' = [r \in Requests |->
                      IF r \in busy /\ clock'[r] = ProbeTime
                      THEN [seen[r] EXCEPT !.faulty = @ \cup {Target(r)}] ELSE seen[r]]
        /\ UNCHANGED <<reach, status, checks, canceled>>

Environment == Tick \/ \E d \in Deps : DependencyChanges(d)

(* Ready() goes on for request r.                                          *)
Probe(r) == ProbeSucceeds(r) \/ ProbeFails(r)

-------------------------------------------------------------------------------
(* Properties.                                                             *)

(* What a readiness answer says was so while it was made: a check that     *)
(* failed met a dependency that was down or that let a whole timeout pass, *)
(* whatever the probes before it took, and one that did not fail met one   *)
(* that was up; and a 200 means that all of them did (health.go:85-101,    *)
(* README.md "Observability").  A failure says nothing to a client that    *)
(* went away, or where the timeout is not positive, which the              *)
(* configuration accepts (config.go:114, :168): every probe may then fail. *)
ReadyIsTruthful ==
    \A r \in Requests :
        /\ \A d \in DOMAIN checks[r] :
              /\ checks[r][d] = "ok" => d \in seen[r].up
              /\ checks[r][d] = "failed" /\ Timeout > 0 /\ ~canceled[r] => d \in seen[r].faulty
        /\ status[r] = "ok" => seen[r].up = Deps

(* A readiness probe ends within the timeouts of its dependencies taken    *)
(* together, so that it is answered if they fit into the server's write    *)
(* timeout, which the configuration does not check (health.go:88).         *)
ReadyWithinBudget ==
    \A r \in Requests : waited[r] <= NumDeps * ProbeTime
===============================================================================
