---------------------------- MODULE BatchedPublish ----------------------------
(***************************************************************************)
(* The "batched" produce mode: internal/kafka/writer.go, driven by the     *)
(* publish handler and the publisher service.  One call of the kafka-go    *)
(* Writer sends a whole batch; the Writer resends what was not             *)
(* acknowledged, and Produce calls it again, with the whole batch, while   *)
(* the topic is being created.                                             *)
(***************************************************************************)
EXTENDS PublishRequest

CONSTANT ClientRetries   \* bound: times the Writer resends one message in a call

ASSUME ClientRetriesAssumption == ClientRetries \in Nat

autoCreateMaxAttempts == 5

VARIABLES requireAcks,       \* KRA_KAFKA_REQUIRED_ACKS is not "none", never changed
          allowAutoCreate,   \* KRA_KAFKA_ALLOW_AUTO_TOPIC_CREATION, never changed
          pc,       \* pc[r]: where the goroutine serving r is
          batch,    \* batch[r]: the messages being published
          attempt,  \* attempt[r]: calls of WriteMessages so far
          pending,  \* pending[r]: messages of the call whose write is not settled
          resent,   \* resent[r][i]: times message i was resent within the call
          err,      \* err[r]: the failures of the call
          copies,   \* copies[r][i]: times message i is recorded in the topic
          late,     \* late[r][i]: tries of message i that nobody waits for any more
          resp      \* resp[r]: the HTTP response

vars == <<requireAcks, allowAutoCreate, pc, batch, attempt, pending, resent, err, copies, late, resp>>

Index == 1..MaxBatchSize

(* The error of a call: what errors.Is finds in its chain, and in the      *)
(* elements of a kafka.WriteErrors, which errors.Is does not traverse.     *)
Unknown == "UnknownTopicOrPartition"
NoFailure == [chain |-> NoError, elements |-> {}]
Failures == [chain : SUBSET (Sentinels \cup {Unknown}), elements : SUBSET {Unknown, "other"}]

containsKafkaError(e, target) == target \in e.chain \cup e.elements

Init ==
    /\ requireAcks \in BOOLEAN
    /\ allowAutoCreate \in BOOLEAN
    /\ pc = [r \in Requests |-> "idle"]
    /\ batch = [r \in Requests |-> <<>>]
    /\ attempt = [r \in Requests |-> 0]
    /\ pending = [r \in Requests |-> {}]
    /\ resent = [r \in Requests |-> [i \in Index |-> 0]]
    /\ err = [r \in Requests |-> NoFailure]
    /\ copies = [r \in Requests |-> [i \in Index |-> 0]]
    /\ late = [r \in Requests |-> [i \in Index |-> 0]]
    /\ resp = [r \in Requests |-> NoResponse]

-------------------------------------------------------------------------------
(* The handler, up to the call of WriteMessages.                           *)

Respond(r, response) ==
    /\ pc' = [pc EXCEPT ![r] = "done"]
    /\ resp' = [resp EXCEPT ![r] = response]

RejectRequest(r) ==
    /\ pc[r] = "idle"
    /\ \E e \in RefusedWith : Respond(r, Failure(e))
    /\ UNCHANGED <<requireAcks, allowAutoCreate, batch, attempt, pending, resent, err, copies, late>>

(* One iteration of the loop: all of ms is handed to the Writer.           *)
CallWriter(r, ms) ==
    /\ attempt' = [attempt EXCEPT ![r] = @ + 1]
    /\ pending' = [pending EXCEPT ![r] = DOMAIN ms]
    /\ resent' = [resent EXCEPT ![r] = [i \in Index |-> 0]]
    /\ err' = [err EXCEPT ![r] = NoFailure]
    /\ pc' = [pc EXCEPT ![r] = "write"]

AcceptRequest(r) ==
    /\ pc[r] = "idle"
    /\ \E ms \in AcceptedBatches :
          /\ batch' = [batch EXCEPT ![r] = ms]
          /\ CallWriter(r, ms)
    /\ UNCHANGED <<requireAcks, allowAutoCreate, copies, late, resp>>

-------------------------------------------------------------------------------
(* The kafka-go Writer and the broker, which are not under src/.  A        *)
(* message in flight may be handled after the caller has gone, and a try   *)
(* that timed out after the Writer has stopped waiting for it.             *)

Settle(r, i) == pending' = [pending EXCEPT ![r] = @ \ {i}]

Store(r, i) == copies' = [copies EXCEPT ![r][i] = @ + 1] /\ UNCHANGED late

(* The Writer does not wait for the broker: it stores the message later,   *)
(* or never.                                                               *)
Leave(r, i) == late' = [late EXCEPT ![r][i] = @ + 1] /\ UNCHANGED copies

(* Without required acks a message counts as written when it is sent.      *)
Acknowledged(r, i) ==
    /\ i \in pending[r]
    /\ Settle(r, i)
    /\ \/ requireAcks /\ Store(r, i)
       \/ ~requireAcks /\ Leave(r, i)
    /\ UNCHANGED <<requireAcks, allowAutoCreate, pc, batch, attempt, resent, err, resp>>

(* No acknowledgement arrives in time, and the Writer sends the message    *)
(* again.                                                                  *)
Resend(r, i) ==
    /\ i \in pending[r]
    /\ resent[r][i] < ClientRetries
    /\ Leave(r, i)
    /\ resent' = [resent EXCEPT ![r][i] = @ + 1]
    /\ UNCHANGED <<requireAcks, allowAutoCreate, pc, batch, attempt, pending, err, resp>>

(* The Writer gives up on a message: its partition is unknown, or the last *)
(* try failed another way.                                                 *)
GiveUp(r, i) ==
    /\ i \in pending[r]
    /\ Settle(r, i)
    /\ \/ /\ err' = [err EXCEPT ![r] = [chain |-> {"upstream"}, elements |-> @.elements \cup {Unknown}]]
          /\ UNCHANGED <<copies, late>>
       \/ /\ err' = [err EXCEPT ![r] = [chain |-> {"upstream"}, elements |-> @.elements \cup {"other"}]]
          /\ Leave(r, i)
    /\ UNCHANGED <<requireAcks, allowAutoCreate, pc, batch, attempt, resent, resp>>

(* The broker handles a try that nobody waits for.                         *)
StoreLate(r, i) ==
    /\ late[r][i] > 0
    /\ copies' = [copies EXCEPT ![r][i] = @ + 1]
    /\ late' = [late EXCEPT ![r][i] = @ - 1]
    /\ UNCHANGED <<requireAcks, allowAutoCreate, pc, batch, attempt, pending, resent, err, resp>>

(* The partitions of the topic cannot be looked up: nothing is sent, and   *)
(* the error is not an aggregate.                                          *)
LookupFails(r) ==
    /\ pc[r] = "write"
    /\ pending[r] = DOMAIN batch[r]
    /\ \A i \in Index : resent[r][i] = 0
    /\ \E e \in {{"upstream"}, {"upstream", "DeadlineExceeded"}, {Unknown}} :
          err' = [err EXCEPT ![r] = [chain |-> e, elements |-> {}]]
    /\ pending' = [pending EXCEPT ![r] = {}]
    /\ UNCHANGED <<requireAcks, allowAutoCreate, pc, batch, attempt, resent, copies, late, resp>>

-------------------------------------------------------------------------------
(* The loop of Produce.                                                    *)

(* WriteMessages of an asynchronous Writer, then of the one configured     *)
(* (Async: false): the call returns when every message is settled.         *)
WriteAsync(r) == pc[r] = "write"

Write(r) == pc[r] = "write" /\ pending[r] = {}

(* What Produce returns for the failure of its last call.                  *)
ProduceError(e) ==
    IF containsKafkaError(e, Unknown) THEN TopicNotFound ELSE e.chain

WriteSucceeds(r) ==
    /\ Write(r)
    /\ err[r] = NoFailure
    /\ Respond(r, Published(<<>>))
    /\ UNCHANGED <<requireAcks, allowAutoCreate, batch, attempt, pending, resent, err, copies, late>>

(* MayRetry of a program that forgets to look at the configuration.     *)
MayRetryAlways(r) == containsKafkaError(err[r], Unknown)

MayRetry(r) == allowAutoCreate /\ containsKafkaError(err[r], Unknown)

WriteFails(r) ==
    /\ Write(r)
    /\ err[r] # NoFailure
    /\ ~MayRetry(r)
    /\ Respond(r, Failure(ProduceError(err[r])))
    /\ UNCHANGED <<requireAcks, allowAutoCreate, batch, attempt, pending, resent, err, copies, late>>

(* The topic is being created: wait autoCreateBackoff.                     *)
StartBackoff(r) ==
    /\ Write(r)
    /\ err[r] # NoFailure
    /\ MayRetry(r)
    /\ pc' = [pc EXCEPT ![r] = "backoff"]
    /\ UNCHANGED <<requireAcks, allowAutoCreate, batch, attempt, pending, resent, err, copies, late, resp>>

(* Retry of a program whose loop runs once more.                           *)
RetryOnceMore(r) ==
    /\ pc[r] = "backoff"
    /\ attempt[r] <= autoCreateMaxAttempts
    /\ CallWriter(r, batch[r])
    /\ UNCHANGED <<requireAcks, allowAutoCreate, batch, copies, late, resp>>

Retry(r) ==
    /\ pc[r] = "backoff"
    /\ attempt[r] < autoCreateMaxAttempts
    /\ CallWriter(r, batch[r])
    /\ UNCHANGED <<requireAcks, allowAutoCreate, batch, copies, late, resp>>

(* StopRetrying of a program that compares with the wrong bound.           *)
StopRetryingLate(r) ==
    /\ pc[r] = "backoff"
    /\ attempt[r] > autoCreateMaxAttempts
    /\ Respond(r, Failure(ProduceError(err[r])))
    /\ UNCHANGED <<requireAcks, allowAutoCreate, batch, attempt, pending, resent, err, copies, late>>

(* The loop is over after the pause that follows the last attempt.         *)
StopRetrying(r) ==
    /\ pc[r] = "backoff"
    /\ attempt[r] = autoCreateMaxAttempts
    /\ Respond(r, Failure(ProduceError(err[r])))
    /\ UNCHANGED <<requireAcks, allowAutoCreate, batch, attempt, pending, resent, err, copies, late>>

(* The HTTP client goes away: WriteMessages and the pause both end with    *)
(* ctx.Err().  What the Writer still holds is not taken back.              *)
ClientGoesAway(r) ==
    /\ pc[r] \in {"write", "backoff"}
    /\ Respond(r, Failure({"Canceled"}))
    /\ UNCHANGED <<requireAcks, allowAutoCreate, batch, attempt, pending, resent, err, copies, late>>

-------------------------------------------------------------------------------
Serve(r) ==
    \/ WriteSucceeds(r)
    \/ WriteFails(r)
    \/ StartBackoff(r)
    \/ Retry(r)
    \/ StopRetrying(r)

Next ==
    \/ \E r \in Requests : RejectRequest(r)
    \/ \E r \in Requests : AcceptRequest(r)
    \/ \E r \in Requests : Serve(r)
    \/ \E r \in Requests : ClientGoesAway(r)
    \/ \E r \in Requests : LookupFails(r)
    \/ \E r \in Requests, i \in Index : Acknowledged(r, i)
    \/ \E r \in Requests, i \in Index : Resend(r, i)
    \/ \E r \in Requests, i \in Index : GiveUp(r, i)
    \/ \E r \in Requests, i \in Index : StoreLate(r, i)

Spec == Init /\ [][Next]_vars

(* The Writer settles every message: it makes a bounded number of tries,   *)
(* each within KRA_KAFKA_WRITE_TIMEOUT.  The loop of Produce runs on.  The *)
(* broker need not handle what nobody waits for.                           *)
FairSpec ==
    /\ Spec
    /\ \A r \in Requests : WF_vars(Serve(r))
    /\ \A r \in Requests : \A i \in Index : WF_vars(Acknowledged(r, i) \/ GiveUp(r, i))

-------------------------------------------------------------------------------
(* Properties.                                                             *)

TypeOK ==
    /\ requireAcks \in BOOLEAN
    /\ allowAutoCreate \in BOOLEAN
    /\ pc \in [Requests -> {"idle", "write", "backoff", "done"}]
    /\ batch \in [Requests -> Seq(WireMessage)]
    /\ attempt \in [Requests -> 0..autoCreateMaxAttempts]
    /\ pending \in [Requests -> SUBSET Index]
    /\ resent \in [Requests -> [Index -> 0..ClientRetries]]
    /\ err \in [Requests -> Failures]
    /\ copies \in [Requests -> [Index -> Nat]]
    /\ late \in [Requests -> [Index -> Nat]]
    /\ resp \in [Requests -> [code : Codes \cup {"none"}, offsets : Seq(Coordinate)]]

(* How often a message can be recorded.  Every call of WriteMessages sends *)
(* the whole batch again, also the messages the previous call recorded     *)
(* (writer.go:92-105): without auto-creation only the Writer's own         *)
(* resending duplicates a message, and with it the five attempts multiply  *)
(* that.                                                                   *)
DuplicatesBounded ==
    \A r \in Requests : \A i \in Index :
        copies[r][i] <= (1 + ClientRetries) * (IF allowAutoCreate THEN autoCreateMaxAttempts ELSE 1)

(* The Writer is synchronous (writer.go:62) and the loop waits for each of *)
(* its calls, so nothing of a batch is sent after its answer: a record     *)
(* that appears later, also after a 404, is a try that was made before the *)
(* answer and whose acknowledgement nobody waited for.  A client that left *)
(* was not told anything.                                                  *)
NothingSentAfterAnswer ==
    [][\A r \in Requests : resp[r].code \notin {"none", "client_closed_request"} =>
          \A i \in Index : copies'[r][i] + late'[r][i] <= copies[r][i] + late[r][i]]_vars

(* Every accepted publish is answered, also when the topic never appears   *)
(* (writer.go:92: the attempts are bounded).                               *)
EveryRequestAnswered ==
    \A r \in Requests : pc[r] = "write" ~> resp[r].code # "none"

(* The Writer keeps the contract of the publish endpoints (writer.go:61,   *)
(* 76-112), but that a 200 says nothing when acks are not required: then   *)
(* WriteMessages returns before the broker has recorded anything, and what *)
(* remains is that only accepted batches are recorded and any other answer *)
(* tells why.                                                              *)
Contract == INSTANCE PublishContract WITH
    size <- [r \in Requests |-> Len(batch[r])],
    stored <- {ri \in Requests \X Index : copies[ri[1]][ri[2]] > 0},
    outcome <- [r \in Requests |->
        IF requireAcks \/ resp[r].code # "ok" THEN resp[r].code ELSE "none"]

ImplementsContract == Contract!Spec
===============================================================================
