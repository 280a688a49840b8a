-------------------------------- MODULE Gateway --------------------------------
(***************************************************************************)
(* The HTTP surface: the router (internal/api/router.go), the JWT          *)
(* middleware on /topics (internal/middleware/auth.go), the metrics around *)
(* every request and every Kafka operation (internal/metrics), and the     *)
(* handlers, of which readiness is Readiness, and a publish is what        *)
(* PublishContract allows a producer: SyncPublish and BatchedPublish       *)
(* implement it.                                                           *)
(***************************************************************************)
EXTENDS Readiness, Errors, Bags, FiniteSets

CONSTANTS AuthEnabled,    \* KRA_AUTH_ENABLED
          MaxBatchSize,   \* KRA_KAFKA_MAX_BATCH_SIZE
          Acks            \* KRA_KAFKA_REQUIRED_ACKS

ASSUME AuthEnabledAssumption == AuthEnabled \in BOOLEAN
ASSUME MaxBatchSizeAssumption == MaxBatchSize \in Nat \ {0}
ASSUME AcksAssumption == Acks \in {"all", "one", "none"}

VARIABLES pc,         \* pc[r]: where the goroutine of r is
          route,      \* route[r]: the route that matches r
          passed,     \* requests whose token the middleware has accepted
          size,       \* size[r]: messages in the batch of a publish, once it validates
          stored,     \* the records <<r, i>> in the topic
          result,     \* result[r]: the code the handler or a middleware answers with
          http,       \* kra_http_requests_total, a bag of <<label, code>>
          kafkaOps,   \* kra_kafka_operations_total, a bag of <<operation, status>>
          messages    \* kra_kafka_messages_total for publish

gatewayVars == <<pc, route, passed, size, stored, result, http, kafkaOps, messages>>
allVars == <<readyVars, gatewayVars>>

Public == {"health", "ready", "static", "unmatched"}
DataPlane == {"publish", "query", "unmatched topic"}

(* What the Authorization header holds: nothing, no bearer token, or a     *)
(* token that verification refuses, or one it accepts while it finds the   *)
(* key.                                                                    *)
Tokens == {"missing", "malformed", "refused", "genuine"}

GatewayInit ==
    /\ ReadyInit
    /\ pc = [r \in Requests |-> "idle"]
    /\ route = [r \in Requests |-> "unmatched"]
    /\ passed = {}
    /\ size = [r \in Requests |-> 0]
    /\ stored = {}
    /\ result = [r \in Requests |-> "none"]
    /\ http = EmptyBag
    /\ kafkaOps = EmptyBag
    /\ messages = 0

-------------------------------------------------------------------------------
(* The router and the middleware.                                          *)

(* Guarded of a program that mounts the publish routes beside /topics.     *)
GuardedQueries(p) == p \in {"query", "unmatched topic"}

(* The routes below /topics, matched or not, and no others.                *)
Guarded(p) == p \in DataPlane

(* A request arrives and is routed; one below /topics is checked first.    *)
Arrive(r) ==
    /\ pc[r] = "idle"
    /\ \E p \in Public \cup DataPlane :
          /\ route' = [route EXCEPT ![r] = p]
          /\ pc' = [pc EXCEPT ![r] = IF AuthEnabled /\ Guarded(p) THEN "auth" ELSE "handler"]
    /\ UNCHANGED <<readyVars, passed, size, stored, result, http, kafkaOps, messages>>

(* JWTAuth: no bearer token, no valid token, or no key for it: 401.  The   *)
(* handler is not called.                                                  *)
CheckToken(r) ==
    /\ pc[r] = "auth"
    /\ \E token \in Tokens :
          \/ /\ token = "genuine"
             /\ passed' = passed \cup {r}
             /\ pc' = [pc EXCEPT ![r] = "handler"]
             /\ UNCHANGED result
          \/ /\ result' = [result EXCEPT ![r] = "unauthorized"]
             /\ pc' = [pc EXCEPT ![r] = "written"]
             /\ UNCHANGED passed
    /\ UNCHANGED <<readyVars, route, size, stored, http, kafkaOps, messages>>

Write(r, code) ==
    /\ pc' = [pc EXCEPT ![r] = "written"]
    /\ result' = [result EXCEPT ![r] = code]

(* The "route" label: the pattern matched so far.  For a request that is   *)
(* refused on its way in, or that nothing below /topics matches, that is   *)
(* the pattern of the mount, "/topics/*" or "/topics/{topic}/*".           *)
Label(r) == IF route[r] = "unmatched topic" \/ result[r] = "unauthorized" THEN "mount" ELSE route[r]

(* The handlers have returned: the deferred part of Metrics.Middleware.    *)
Finish(r) ==
    /\ pc[r] = "written"
    /\ pc' = [pc EXCEPT ![r] = "done"]
    /\ http' = http (+) SetToBag({<<Label(r), result[r]>>})
    /\ UNCHANGED <<readyVars, route, passed, size, stored, result, kafkaOps, messages>>

-------------------------------------------------------------------------------
(* The handlers.                                                           *)

Handling(r, p) == pc[r] = "handler" /\ route[r] = p

(* Routes that do no more than answer.                                     *)
Immediate(r) ==
    /\ \/ /\ \E p \in {"health", "static"} : Handling(r, p)
          /\ Write(r, "ok")
       \/ /\ \E p \in {"unmatched", "unmatched topic"} : Handling(r, p)
          /\ Write(r, "not_found")
    /\ UNCHANGED <<readyVars, route, passed, size, stored, http, kafkaOps, messages>>

Ready(r) ==
    /\ Handling(r, "ready")
    /\ \/ BeginReady(r) /\ UNCHANGED <<pc, result>>
       \/ Probe(r) /\ UNCHANGED <<pc, result>>
       \/ /\ status[r] \in {"ok", "degraded"}
          /\ Write(r, status[r])
          /\ UNCHANGED readyVars
    /\ UNCHANGED <<route, passed, size, stored, http, kafkaOps, messages>>

(* record() of internal/metrics/kafka.go.                                  *)
Record(operation, failed) ==
    kafkaOps' = kafkaOps (+) SetToBag({<<operation, IF failed THEN "error" ELSE "success">>})

(* List, describe and consume: one instrumented operation, or none when    *)
(* the handler or the service refuses the request, with a 502 in the case  *)
(* of ErrInvalidQuery (see Errors).                                        *)
Query(r) ==
    /\ Handling(r, "query")
    /\ \/ Record("query", FALSE) /\ Write(r, "ok")
       \/ Record("query", TRUE) /\ \E code \in ErrorCodes \ {"invalid_request"} : Write(r, code)
       \/ UNCHANGED kafkaOps /\ \E code \in {"invalid_request", "kafka_error"} : Write(r, code)
    /\ UNCHANGED <<readyVars, route, passed, size, stored, http, messages>>

(* Refused before the producer is called: no operation.                    *)
RejectPublish(r) ==
    /\ Handling(r, "publish") /\ size[r] = 0
    /\ Write(r, "invalid_request")
    /\ UNCHANGED <<readyVars, route, passed, size, stored, http, kafkaOps, messages>>

CallProducer(r) ==
    /\ Handling(r, "publish") /\ size[r] = 0
    /\ \E n \in 1..MaxBatchSize : size' = [size EXCEPT ![r] = n]
    /\ pc' = [pc EXCEPT ![r] = "produce"]
    /\ UNCHANGED <<readyVars, route, passed, stored, result, http, kafkaOps, messages>>

BatchOf(r) == {r} \X (1..size[r])

(* The broker records a message, perhaps after the request was answered.   *)
Store(r) ==
    /\ \E record \in BatchOf(r) \ stored : stored' = stored \cup {record}
    /\ UNCHANGED <<readyVars, pc, route, passed, size, result, http, kafkaOps, messages>>

(* The producer returns: with an error at any time, and without one when   *)
(* everything is recorded, or at any time if no acks are required.  The    *)
(* decorator counts the operation.                                         *)
ProducerReturns(r) ==
    /\ pc[r] = "produce"
    /\ \E failed \in BOOLEAN :
          /\ failed \/ Acks = "none" \/ BatchOf(r) \subseteq stored
          /\ Record("publish", failed)
          /\ pc' = [pc EXCEPT ![r] = IF failed THEN "failed" ELSE "succeeded"]
    /\ UNCHANGED <<readyVars, route, passed, size, stored, result, http, messages>>

(* CountMessages of a program that does not look at the error.             *)
CountMessagesAlways(r) ==
    /\ pc[r] \in {"succeeded", "failed"}
    /\ messages' = messages + size[r]
    /\ pc' = [pc EXCEPT ![r] = "counted"]
    /\ UNCHANGED <<readyVars, route, passed, size, stored, result, http, kafkaOps>>

(* It counts the messages of a success after that.                         *)
CountMessages(r) ==
    /\ pc[r] = "succeeded"
    /\ messages' = messages + size[r]
    /\ pc' = [pc EXCEPT ![r] = "counted"]
    /\ UNCHANGED <<readyVars, route, passed, size, stored, result, http, kafkaOps>>

(* Reply of a program whose decorator drops the error.                     *)
ReplySwallowingError(r) ==
    /\ pc[r] \in {"counted", "failed"}
    /\ Write(r, "ok")
    /\ UNCHANGED <<readyVars, route, passed, size, stored, http, kafkaOps, messages>>

(* The handler answers what the decorator returns.                         *)
Reply(r) ==
    /\ \/ pc[r] = "counted" /\ Write(r, "ok")
       \/ pc[r] = "failed" /\ \E code \in ErrorCodes \ {"invalid_request"} : Write(r, code)
    /\ UNCHANGED <<readyVars, route, passed, size, stored, http, kafkaOps, messages>>

ClientGoesAway(r) == Cancel(r) /\ UNCHANGED gatewayVars

-------------------------------------------------------------------------------
Serve(r) ==
    \/ CheckToken(r)
    \/ Immediate(r)
    \/ Ready(r)
    \/ Query(r)
    \/ RejectPublish(r) \/ CallProducer(r)
    \/ ProducerReturns(r) \/ CountMessages(r) \/ Reply(r)
    \/ Finish(r)

GatewayNext ==
    \/ \E r \in Requests : Arrive(r)
    \/ \E r \in Requests : Serve(r)
    \/ \E r \in Requests : Store(r)
    \/ \E r \in Requests : ClientGoesAway(r)
    \/ Environment /\ UNCHANGED gatewayVars

GatewaySpec == GatewayInit /\ [][GatewayNext]_allVars

(* A goroutine runs on, a context that is done ends the probe it was given *)
(* to, and time passes.  That a producer returns is shown of each of them; *)
(* nothing is assumed of the dependencies.                                 *)
FairGatewaySpec ==
    /\ GatewaySpec
    /\ \A r \in Requests : WF_allVars(~Probing(r) /\ Serve(r))
    /\ \A r \in Requests : WF_allVars(MustEnd(r) /\ ProbeFails(r) /\ UNCHANGED gatewayVars)
    /\ WF_allVars(Tick /\ UNCHANGED gatewayVars)

-------------------------------------------------------------------------------
(* Properties.                                                             *)

(* With authentication on, nothing of a request without an accepted token  *)
(* is ever recorded or answered from the cluster, and the public routes    *)
(* are answered without one (README.md "API authentication":               *)
(* "/health, /ready, /metrics, and the docs are always open").             *)
OnlyDataPlaneIsGuarded ==
    \A r \in Requests :
        /\ AuthEnabled /\ result[r] = "unauthorized" => route[r] \in DataPlane
        /\ AuthEnabled /\ (BatchOf(r) \cap stored # {} \/ (route[r] \in DataPlane /\ result[r] = "ok"))
              => r \in passed

(* The value of one series of a counter: 0 until it is first incremented.  *)
Value(labels, counter) == IF labels \in DOMAIN counter THEN counter[labels] ELSE 0

(* The counters agree with each other and with the topic whenever they are *)
(* scraped: an HTTP request is counted once, under the code it was         *)
(* answered with; each publish that was answered 200 has a successful      *)
(* operation; that operation has messages, but for the requests between    *)
(* its count and theirs; and the messages counted are recorded, if acks    *)
(* are required (metrics/http.go:20-33, kafka.go:43-45).                   *)
CountersAgree ==
    /\ \A p \in Public \cup DataPlane \cup {"mount"} :
          \A code \in Codes \cup {"unauthorized", "not_found", "degraded"} :
             Value(<<p, code>>, http) =
                Cardinality({r \in Requests : pc[r] = "done" /\ Label(r) = p /\ result[r] = code})
    /\ Value(<<"publish", "ok">>, http) <= Value(<<"publish", "success">>, kafkaOps)
    /\ Value(<<"publish", "success">>, kafkaOps)
          <= messages + Cardinality({r \in Requests : pc[r] = "succeeded"})
    /\ Acks # "none" => messages <= Cardinality(stored)

(* A request is answered, whatever the dependencies do; a readiness probe  *)
(* also when none of them ever answers.                                    *)
EveryRequestAnswered == \A r \in Requests : pc[r] # "idle" ~> pc[r] = "done"

(* Seen by a client, the gateway keeps the contract of the publish         *)
(* endpoints, if acks are required; a request that is refused for its      *)
(* token publishes nothing.                                                *)
Contract == INSTANCE PublishContract WITH
    outcome <- [r \in Requests |->
        IF route[r] = "publish" /\ result[r] # "unauthorized" THEN result[r] ELSE "none"]

ImplementsContract == Contract!Spec
===============================================================================
