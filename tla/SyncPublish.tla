------------------------------ MODULE SyncPublish ------------------------------
(***************************************************************************)
(* The "sync" produce mode: internal/kafka/syncproducer.go, driven by the  *)
(* publish handler and the publisher service.  A request is grouped by     *)
(* partition and one Produce call is made per group, in the order a Go map *)
(* is iterated.  The broker keeps one log per partition; a call may fail   *)
(* at the gateway while its records are still on their way.                *)
(***************************************************************************)
EXTENDS PublishRequest, Functions

CONSTANTS NumPartitions,   \* partitions of the topic
          Hash,            \* Hash[k]: the partition segkafka.Hash gives key k
          Acks             \* KRA_KAFKA_REQUIRED_ACKS

Partition == 0..(NumPartitions - 1)

ASSUME NumPartitionsAssumption == NumPartitions \in Nat \ {0}
ASSUME HashAssumption == Hash \in [Keys -> Partition]
ASSUME AcksAssumption == Acks \in {"all", "one", "none"}

VARIABLES pc,        \* pc[r]: where the goroutine serving r is
          batch,     \* batch[r]: the messages being published
          groups,    \* groups[r][p]: indices of the messages bound for p
          todo,      \* todo[r]: partitions not yet produced to
          cur,       \* cur[r]: partition of the Produce call under way
          results,   \* results[r]: coordinates gathered so far, in input order
          reply,     \* reply[r]: the broker's answer to the call under way
          resp,      \* resp[r]: the HTTP response
          inflight,  \* <<r, p>>: groups sent and not yet handled by the broker
          log        \* log[p]: the records <<r, i>> of partition p

vars == <<pc, batch, groups, todo, cur, results, reply, resp, inflight, log>>

NoReply == [state |-> "none", base |-> 0, error |-> NoError]
Replies == [state : {"none", "stored", "refused"}, base : Nat, error : SUBSET Sentinels]

(* make([]service.PublishResult, n): every coordinate is zero.             *)
ZeroResults(n) == [i \in 1..n |-> [partition |-> 0, offset |-> 0]]

Init ==
    /\ pc = [r \in Requests |-> "idle"]
    /\ batch = [r \in Requests |-> <<>>]
    /\ groups = [r \in Requests |-> [p \in Partition |-> <<>>]]
    /\ todo = [r \in Requests |-> {}]
    /\ cur = [r \in Requests |-> 0]
    /\ results = [r \in Requests |-> <<>>]
    /\ reply = [r \in Requests |-> NoReply]
    /\ resp = [r \in Requests |-> NoResponse]
    /\ inflight = {}
    /\ log = [p \in Partition |-> <<>>]

-------------------------------------------------------------------------------
(* Grouping: the balancer sends a keyed message to the partition of its    *)
(* key and an unkeyed one to any partition, and the loop over the batch    *)
(* appends each index to its group, so a group is in input order.          *)

Indices(g) == Range(g)

InAnyOrder(g) == \A j, k \in DOMAIN g : j # k => g[j] # g[k]

InInputOrder(g) == \A j, k \in DOMAIN g : j < k => g[j] < g[k]

(* Index sequences that could be one group of a batch of n messages.       *)
GroupsOf(n) == {g \in UNION {[1..k -> 1..n] : k \in 0..n} : InInputOrder(g)}

(* The grouping of a program that sends keyed messages round-robin too.    *)
IsGroupingIgnoringKeys(gs, ms) ==
    \A i \in DOMAIN ms :
        /\ \E p \in Partition : i \in Indices(gs[p])
        /\ \A p, q \in Partition : i \in Indices(gs[p]) \cap Indices(gs[q]) => p = q

IsGrouping(gs, ms) ==
    \A i \in DOMAIN ms :
        /\ \E p \in Partition : i \in Indices(gs[p])
        /\ \A p, q \in Partition : i \in Indices(gs[p]) \cap Indices(gs[q]) => p = q
        /\ ms[i].key # NoKey => i \in Indices(gs[Hash[ms[i].key]])

-------------------------------------------------------------------------------
(* The handler.                                                            *)

Respond(r, response) ==
    /\ pc' = [pc EXCEPT ![r] = "done"]
    /\ resp' = [resp EXCEPT ![r] = response]

(* WHO   the publish handler, or the service's validation                  *)
(* WHAT  refuses the request before anything is sent.                      *)
RejectRequest(r) ==
    /\ pc[r] = "idle"
    /\ \E e \in RefusedWith : Respond(r, Failure(e))
    /\ UNCHANGED <<batch, groups, todo, cur, results, reply, inflight, log>>

AcceptRequest(r) ==
    /\ pc[r] = "idle"
    /\ \E ms \in AcceptedBatches : batch' = [batch EXCEPT ![r] = ms]
    /\ pc' = [pc EXCEPT ![r] = "metadata"]
    /\ UNCHANGED <<groups, todo, cur, results, reply, resp, inflight, log>>

(* The error of a failed call, wrapped by the service and classified.      *)
Abort(r, err) ==
    /\ Respond(r, Failure(err))
    /\ UNCHANGED <<batch, groups, todo, cur, results, reply, inflight>>

(* WHO   the handler's goroutine                                           *)
(* WHAT  learns the partitions, groups the batch, allocates the results.   *)
Metadata(r) ==
    /\ pc[r] = "metadata"
    /\ \E gs \in [Partition -> GroupsOf(Len(batch[r]))] :
          /\ IsGrouping(gs, batch[r])
          /\ groups' = [groups EXCEPT ![r] = gs]
          /\ todo' = [todo EXCEPT ![r] = {p \in Partition : gs[p] # <<>>}]
    /\ results' = [results EXCEPT ![r] = ZeroResults(Len(batch[r]))]
    /\ pc' = [pc EXCEPT ![r] = "produce"]
    /\ UNCHANGED <<batch, cur, reply, resp, inflight, log>>

(* The call fails, or the topic is unknown or has no partition.            *)
MetadataFails(r) ==
    /\ pc[r] = "metadata"
    /\ \E e \in CallErrors \cup {TopicNotFound} : Abort(r, e)
    /\ UNCHANGED log

(* SendProduce of a program that sends a group again when it comes back.   *)
SendProduceAgain(r) ==
    /\ pc[r] = "produce"
    /\ \E p \in todo[r] :
          /\ todo' = [todo EXCEPT ![r] = IF p = cur[r] THEN @ \ {p} ELSE @]
          /\ cur' = [cur EXCEPT ![r] = p]
          /\ inflight' = inflight \cup {<<r, p>>}
    /\ reply' = [reply EXCEPT ![r] = NoReply]
    /\ pc' = [pc EXCEPT ![r] = "await"]
    /\ UNCHANGED <<batch, groups, results, resp, log>>

(* WHO   the handler's goroutine                                           *)
(* WHAT  takes the next group of the map, in any order, and produces it.   *)
SendProduce(r) ==
    /\ pc[r] = "produce"
    /\ \E p \in todo[r] :
          /\ todo' = [todo EXCEPT ![r] = @ \ {p}]
          /\ cur' = [cur EXCEPT ![r] = p]
          /\ inflight' = inflight \cup {<<r, p>>}
    /\ reply' = [reply EXCEPT ![r] = NoReply]
    /\ pc' = [pc EXCEPT ![r] = "await"]
    /\ UNCHANGED <<batch, groups, results, resp, log>>

-------------------------------------------------------------------------------
(* The broker, which is not under src/.  Nothing makes it act: a call may  *)
(* go unanswered for good.  It handles a group as one record batch, and    *)
(* also when the gateway no longer waits for the answer.                   *)

Awaits(r, p) == pc[r] = "await" /\ cur[r] = p

Answered(r, p, answer) ==
    reply' = IF Awaits(r, p) THEN [reply EXCEPT ![r] = answer] ELSE reply

BrokerAppend(r, p) ==
    /\ <<r, p>> \in inflight
    /\ inflight' = inflight \ {<<r, p>>}
    /\ log' = [log EXCEPT ![p] = @ \o [j \in DOMAIN groups[r][p] |-> <<r, groups[r][p][j]>>]]
    /\ Answered(r, p, [state |-> "stored", base |-> Len(log[p]), error |-> NoError])
    /\ UNCHANGED <<pc, batch, groups, todo, cur, results, resp>>

(* A protocol error in the response, or none but the topic's absence,      *)
(* which translate() turns into ErrTopicNotFound.                          *)
BrokerRefuse(r, p) ==
    /\ <<r, p>> \in inflight
    /\ inflight' = inflight \ {<<r, p>>}
    /\ \E e \in {{"upstream"}, TopicNotFound} :
          Answered(r, p, [state |-> "refused", base |-> 0, error |-> e])
    /\ UNCHANGED <<pc, batch, groups, todo, cur, results, resp, log>>

-------------------------------------------------------------------------------
(* The rest of the loop.                                                   *)

(* res with every message of group g, produced to partition p, at the      *)
(* offset after the one before it.  The first form reads BaseOffset as the *)
(* offset of every record, the second as the offset before the first.      *)
FilledWithBase(res, g, p, base) ==
    [i \in DOMAIN res |-> IF i \in Indices(g) THEN [partition |-> p, offset |-> base] ELSE res[i]]

FilledFromBefore(res, g, p, base) ==
    [i \in DOMAIN res |->
        IF i \in Indices(g)
        THEN [partition |-> p, offset |-> base + (CHOOSE j \in DOMAIN g : g[j] = i) - 2]
        ELSE res[i]]

Filled(res, g, p, base) ==
    [i \in DOMAIN res |->
        IF i \in Indices(g)
        THEN [partition |-> p, offset |-> base + (CHOOSE j \in DOMAIN g : g[j] = i) - 1]
        ELSE res[i]]

Record(r, base) ==
    /\ results' = [results EXCEPT ![r] = Filled(@, groups[r][cur[r]], cur[r], base)]
    /\ pc' = [pc EXCEPT ![r] = "produce"]
    /\ UNCHANGED <<batch, groups, todo, cur, reply, resp, inflight, log>>

(* ReceiveOffsets of a program that does not look at resp.Error.           *)
ReceiveOffsetsAnyReply(r) ==
    /\ pc[r] = "await"
    /\ Acks # "none"
    /\ reply[r].state # "none"
    /\ Record(r, reply[r].base)

ReceiveOffsets(r) ==
    /\ pc[r] = "await"
    /\ Acks # "none"
    /\ reply[r].state = "stored"
    /\ Record(r, reply[r].base)

(* With required acks "none" the client does not wait for the broker and   *)
(* returns an empty ProduceResponse: no error, BaseOffset zero.            *)
ReceiveNothing(r) ==
    /\ pc[r] = "await"
    /\ Acks = "none"
    /\ Record(r, 0)

ReceiveError(r) ==
    /\ pc[r] = "await"
    /\ Acks # "none"
    /\ reply[r].state = "refused"
    /\ Abort(r, reply[r].error)
    /\ UNCHANGED log

(* CallFails of a client without a timeout, whose caller never goes away.  *)
CallFailsNever(r) == FALSE /\ UNCHANGED vars

(* The connection, the deadline or the HTTP client is lost before the      *)
(* answer is read.  The group may still be in flight, or recorded.         *)
CallFails(r) ==
    /\ pc[r] = "await"
    /\ \E e \in CallErrors : Abort(r, e)
    /\ UNCHANGED log

(* Finish when the first partition has answered.                           *)
FinishEarly(r) ==
    /\ pc[r] = "produce"
    /\ cur[r] \notin todo[r] /\ results[r] # ZeroResults(Len(batch[r]))
    /\ Respond(r, Published(results[r]))
    /\ UNCHANGED <<batch, groups, todo, cur, results, reply, inflight, log>>

Finish(r) ==
    /\ pc[r] = "produce"
    /\ todo[r] = {}
    /\ Respond(r, Published(results[r]))
    /\ UNCHANGED <<batch, groups, todo, cur, results, reply, inflight, log>>

-------------------------------------------------------------------------------
(* Steps of the goroutine serving r, and of the broker.                    *)
Serve(r) ==
    \/ Metadata(r)
    \/ MetadataFails(r)
    \/ SendProduce(r)
    \/ ReceiveOffsets(r)
    \/ ReceiveNothing(r)
    \/ ReceiveError(r)
    \/ CallFails(r)
    \/ Finish(r)

Next ==
    \/ \E r \in Requests : RejectRequest(r)
    \/ \E r \in Requests : AcceptRequest(r)
    \/ \E r \in Requests : Serve(r)
    \/ \E r \in Requests, p \in Partition : BrokerAppend(r, p)
    \/ \E r \in Requests, p \in Partition : BrokerRefuse(r, p)

Spec == Init /\ [][Next]_vars

(* Every call of kafka.Client ends: its Timeout is KRA_KAFKA_WRITE_TIMEOUT *)
(* (10s by default).  Nothing is assumed of the broker.                    *)
FairSpec == Spec /\ \A r \in Requests : WF_vars(Serve(r))

-------------------------------------------------------------------------------
(* Properties.                                                             *)

TypeOK ==
    /\ pc \in [Requests -> {"idle", "metadata", "produce", "await", "done"}]
    /\ batch \in [Requests -> Seq(WireMessage)]
    /\ groups \in [Requests -> [Partition -> Seq(Nat)]]
    /\ todo \in [Requests -> SUBSET Partition]
    /\ cur \in [Requests -> Partition]
    /\ results \in [Requests -> Seq(Coordinate)]
    /\ reply \in [Requests -> Replies]
    /\ resp \in [Requests -> [code : Codes \cup {"none"}, offsets : Seq(Coordinate)]]
    /\ inflight \subseteq Requests \X Partition
    /\ log \in [Partition -> Seq(Requests \X Nat)]

(* The coordinate at is that of the record of message i of request r.      *)
Located(logs, r, i, at) ==
    /\ at.partition \in Partition
    /\ at.offset + 1 \in DOMAIN logs[at.partition]
    /\ logs[at.partition][at.offset + 1] = <<r, i>>

(* "reports each record's exact (partition, offset)" (syncproducer.go:15): *)
(* a 200 has one coordinate per message, and the record at the i-th one is *)
(* the i-th message of the batch, whatever the other requests write and in *)
(* whatever order the groups are produced.                                 *)
OffsetsExact ==
    \A r \in Requests : resp[r].code = "ok" =>
        /\ Len(resp[r].offsets) = Len(batch[r])
        /\ \A i \in DOMAIN batch[r] : Located(log, r, i, resp[r].offsets[i])

(* The sync producer never retries a Produce call, so no message of a      *)
(* request is recorded twice, not even by a call that was given up on and  *)
(* is handled by the broker after the client was answered.                 *)
RecordedAtMostOnce ==
    \A p, q \in Partition : \A j \in DOMAIN log[p], k \in DOMAIN log[q] :
        log[p][j] = log[q][k] => p = q /\ j = k

(* Messages of one batch that share a key are consumed in batch order:     *)
(* the Hash balancer sends them to one partition and the grouping loop     *)
(* keeps their order (writer.go:58 "same key -> same partition").          *)
PerKeyOrder ==
    \A p, q \in Partition : \A j \in DOMAIN log[p], k \in DOMAIN log[q] :
        LET r == log[p][j][1]
        IN  /\ r = log[q][k][1]
            /\ log[p][j][2] < log[q][k][2]
            /\ batch[r][log[p][j][2]].key = batch[r][log[q][k][2]].key
            /\ batch[r][log[p][j][2]].key # NoKey
            => p = q /\ j < k

(* Every accepted publish is answered, with the broker free to go silent:  *)
(* the loop ends and no call waits for ever (syncproducer.go:45 Timeout).  *)
EveryRequestAnswered ==
    \A r \in Requests : pc[r] = "metadata" ~> resp[r].code # "none"

(* The sync producer keeps the contract of the publish endpoints.          *)
RecordedSet == UNION {Range(log[p]) : p \in Partition}

Contract == INSTANCE PublishContract WITH
    size <- [r \in Requests |-> Len(batch[r])],
    stored <- RecordedSet,
    outcome <- [r \in Requests |-> resp[r].code]

ImplementsContract == Contract!Spec
===============================================================================
