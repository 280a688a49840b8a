--------------------------- MODULE PublishContract ---------------------------
(***************************************************************************)
(* What the gateway promises an HTTP client that publishes, in either      *)
(* produce mode (README.md "Publishing", internal/service/publisher.go):   *)
(*   - a batch is validated as a whole before anything is sent, so nothing *)
(*     of a request answered invalid_request is ever recorded;             *)
(*   - a 200 is sent only when every message of the batch is recorded;     *)
(*   - any other answer promises nothing: none, some or all of the batch   *)
(*     may be recorded, also after the answer;                             *)
(*   - nothing recorded is lost, and a request is answered once.           *)
(***************************************************************************)
EXTENDS Errors, Naturals

CONSTANT Requests

VARIABLES size,      \* size[r]: messages in the batch, 0 until it is accepted
          stored,    \* the records <<r, i>> that are in the topic
          outcome    \* outcome[r]: the code answered, or "none"

contractVars == <<size, stored, outcome>>

Init ==
    /\ size = [r \in Requests |-> 0]
    /\ stored = {}
    /\ outcome = [r \in Requests |-> "none"]

Answer(r, code) ==
    /\ outcome[r] = "none"
    /\ outcome' = [outcome EXCEPT ![r] = code]

RecordsOf(r, n) == {r} \X (1..n)

Accept(r) ==
    /\ size[r] = 0 /\ outcome[r] = "none"
    /\ size'[r] \in Nat \ {0}
    /\ size' = [size EXCEPT ![r] = size'[r]]
    /\ UNCHANGED <<stored, outcome>>

Reject(r) ==
    /\ size[r] = 0
    /\ Answer(r, "invalid_request")
    /\ UNCHANGED <<size, stored>>

(* Records of an accepted batch become visible in the topic.               *)
Store(r) ==
    /\ stored' \subseteq stored \cup RecordsOf(r, size[r])
    /\ stored \subseteq stored'
    /\ UNCHANGED <<size, outcome>>

Confirm(r) ==
    /\ size[r] > 0
    /\ RecordsOf(r, size[r]) \subseteq stored
    /\ Answer(r, "ok")
    /\ UNCHANGED <<size, stored>>

Fail(r) ==
    /\ size[r] > 0
    /\ \E code \in ErrorCodes \ {"invalid_request"} : Answer(r, code)
    /\ UNCHANGED <<size, stored>>

Next == \E r \in Requests : Accept(r) \/ Reject(r) \/ Store(r) \/ Confirm(r) \/ Fail(r)

Spec == Init /\ [][Next]_contractVars
===============================================================================
