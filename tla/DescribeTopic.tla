---------------------------- MODULE DescribeTopic ----------------------------
(***************************************************************************)
(* GET /topics and GET /topics/{topic}: internal/api/topics.go,            *)
(* internal/service/topic.go, ListTopics and DescribeTopic of              *)
(* internal/kafka/client.go.  A client may list the topics and describes   *)
(* one of them, the subject.  The description reads the topic's metadata   *)
(* and then its watermarks, with the first and the last offset of each     *)
(* partition in requests of their own, while the subject is written to,    *)
(* truncated, deleted and created again, and its metadata get an error.    *)
(* Requests share no state: the module follows one client.                 *)
(***************************************************************************)
EXTENDS Errors, Order, SequencesExt

CONSTANTS NumTopics,       \* bound on the topics of the cluster
          MaxPartitions,   \* bound on the partitions of the topic
          MaxOffset,       \* bound on the records of a partition
          MaxGeneration    \* bound on the creations of the topic

ASSUME NumTopicsAssumption == NumTopics \in Nat \ {0}
ASSUME MaxPartitionsAssumption == MaxPartitions \in Nat \ {0}
ASSUME MaxOffsetAssumption == MaxOffset \in Nat
ASSUME MaxGenerationAssumption == MaxGeneration \in Nat \ {0}

VARIABLES kind,        \* kind[t]: what the metadata say of topic t
          generation,  \* how often the subject was created
          parts,       \* parts[p]: the partitions of the subject, none when deleted
          pc,          \* where the handler is
          found,       \* the partitions in the metadata, in the broker's order
          wanted,      \* offsets still to be received: <<p, "first">>, <<p, "last">>
          low, high,   \* the maps of watermarks()
          listing,     \* the response to the list
          resp,        \* the response to the description
          asOf,        \* history: the subject when its metadata were read
          changed      \* history: the subject is not what it was when listed

cluster == <<kind, generation, parts>>
vars == <<cluster, pc, found, wanted, low, high, listing, resp, asOf, changed>>

(* Topic names are numbers in the order of the names.  A topic in the      *)
(* metadata is a plain one, internal to Kafka, or carries an error.        *)
Topics == 1..NumTopics
Subject == 1
Kinds == {"plain", "internal", "ill"}

PartitionId == 0..(MaxPartitions - 1)
Ids == DOMAIN parts

Watermarks == [first : 0..MaxOffset, last : 0..MaxOffset]
NewPartition == [first |-> 0, last |-> 0]

Zero == [p \in PartitionId |-> 0]
NoResponse == [code |-> "none", partitions |-> <<>>]
NoListing == [code |-> "none", topics |-> <<>>]
NoTopic == [generation |-> 0, parts |-> <<>>]

Init ==
    /\ kind \in [Topics -> Kinds]
    /\ generation = 1
    /\ \E n \in 0..MaxPartitions : parts = [p \in 0..(n - 1) |-> NewPartition]
    /\ pc \in {"list", "metadata"}
    /\ found = <<>>
    /\ wanted = {}
    /\ low = Zero
    /\ high = Zero
    /\ listing = NoListing
    /\ resp = NoResponse
    /\ asOf = NoTopic
    /\ changed = FALSE

-------------------------------------------------------------------------------
(* The list.                                                               *)

(* The metadata of the whole cluster have the topics that exist.           *)
Existing == {t \in Topics : t = Subject => Ids # {}}

(* named of a program that does not look at Internal.                      *)
namedWithInternal(ts) == Ascending({t \in Range(ts) : kind[t] # "ill"})

(* The topics that are neither internal nor in error, sorted; the metadata *)
(* have each topic once.                                                   *)
named(ts) == Ascending({t \in Range(ts) : kind[t] = "plain"})

List(code, topics) ==
    /\ pc = "list"
    /\ listing' = [code |-> code, topics |-> topics]
    /\ UNCHANGED <<cluster, found, wanted, low, high, resp, asOf, changed>>

(* The client goes on and describes the subject.                           *)
ListTopics ==
    /\ \E ts \in SetToSeqs(Existing) : List("ok", named(ts))
    /\ pc' = "metadata"

ListFails ==
    /\ \E e \in CallErrors : List(classify(e), <<>>)
    /\ pc' = "done"

-------------------------------------------------------------------------------
(* The description.                                                        *)

(* The handler answers and is done with its variables.                     *)
Respond(code, partitions) ==
    /\ pc' = "done"
    /\ resp' = [code |-> code, partitions |-> partitions]
    /\ found' = <<>> /\ wanted' = {}
    /\ low' = Zero /\ high' = Zero
    /\ UNCHANGED <<cluster, listing, asOf, changed>>

Abort(err) == Respond(classify(err), <<>>)

(* The metadata list the partitions in any order; the offsets of each are  *)
(* asked for.                                                              *)
ReadMetadata ==
    /\ pc = "metadata"
    /\ Ids # {} /\ kind[Subject] # "ill"
    /\ found' \in SetToSeqs(Ids)
    /\ wanted' = Ids \X {"first", "last"}
    /\ asOf' = [generation |-> generation, parts |-> parts]
    /\ pc' = "offsets"
    /\ UNCHANGED <<cluster, low, high, listing, resp, changed>>

TopicIsUnknown ==
    /\ pc = "metadata"
    /\ Ids = {}
    /\ Abort(TopicNotFound)

TopicIsIll ==
    /\ pc = "metadata"
    /\ Ids # {} /\ kind[Subject] = "ill"
    /\ Abort({"upstream"})

(* CallFails of a program whose second call has no timeout.                *)
CallFailsAtFirst ==
    /\ pc = "metadata"
    /\ \E e \in CallErrors : Abort(e)

(* Either call fails: its own error, AdminTimeout, or the client's         *)
(* connection.                                                             *)
CallFails ==
    /\ pc = "metadata" \/ (pc = "offsets" /\ wanted # {})
    /\ \E e \in CallErrors : Abort(e)

(* ReceiveOffset of a program that mixes the two maps up.                  *)
ReceiveOffsetSwapped(p, which) ==
    /\ pc = "offsets"
    /\ <<p, which>> \in wanted
    /\ p \in Ids
    /\ wanted' = wanted \ {<<p, which>>}
    /\ low' = IF which = "last" THEN [low EXCEPT ![p] = parts[p].last] ELSE low
    /\ high' = IF which = "first" THEN [high EXCEPT ![p] = parts[p].first] ELSE high
    /\ UNCHANGED <<cluster, pc, found, listing, resp, asOf, changed>>

(* ReceiveOffset of a program that counts one record too many.             *)
ReceiveOffsetPastEnd(p, which) ==
    /\ pc = "offsets"
    /\ <<p, which>> \in wanted
    /\ p \in Ids
    /\ wanted' = wanted \ {<<p, which>>}
    /\ low' = IF which = "first" THEN [low EXCEPT ![p] = parts[p].first] ELSE low
    /\ high' = IF which = "last" THEN [high EXCEPT ![p] = parts[p].last + 1] ELSE high
    /\ UNCHANGED <<cluster, pc, found, listing, resp, asOf, changed>>

(* WHO   the leader of partition p                                         *)
(* WHAT  answers the request for its first or its last offset.             *)
ReceiveOffset(p, which) ==
    /\ pc = "offsets"
    /\ <<p, which>> \in wanted
    /\ p \in Ids
    /\ wanted' = wanted \ {<<p, which>>}
    /\ low' = IF which = "first" THEN [low EXCEPT ![p] = parts[p].first] ELSE low
    /\ high' = IF which = "last" THEN [high EXCEPT ![p] = parts[p].last] ELSE high
    /\ UNCHANGED <<cluster, pc, found, listing, resp, asOf, changed>>

(* The partition is gone: the leader answers UNKNOWN_TOPIC_OR_PARTITION.   *)
OffsetUnknown(p) ==
    /\ pc = "offsets"
    /\ \E which \in {"first", "last"} : <<p, which>> \in wanted
    /\ p \notin Ids
    /\ Abort({"upstream"})

(* buildTopicMetadata: one entry per partition, sorted by id.              *)
buildTopicMetadata(ids, lows, highs) ==
    LET sorted == Ascending(Range(ids))
    IN  [i \in DOMAIN ids |-> [id |-> sorted[i], low |-> lows[sorted[i]], high |-> highs[sorted[i]]]]

Answer ==
    /\ pc = "offsets"
    /\ wanted = {}
    /\ Respond("ok", buildTopicMetadata(found, low, high))

-------------------------------------------------------------------------------
(* The cluster.                                                            *)

(* What happens before the list and after the answers is no concern of     *)
(* theirs.                                                                 *)
Describing == pc \in {"metadata", "offsets"}

HandlerUnchanged == UNCHANGED <<pc, found, wanted, low, high, listing, resp, asOf>>

Write(p) ==
    /\ Describing /\ p \in Ids
    /\ parts[p].last < MaxOffset
    /\ parts' = [parts EXCEPT ![p].last = @ + 1]
    /\ UNCHANGED <<kind, generation, changed>> /\ HandlerUnchanged

Truncate(p) ==
    /\ Describing /\ p \in Ids
    /\ parts[p].first < parts[p].last
    /\ parts' = [parts EXCEPT ![p].first = @ + 1]
    /\ UNCHANGED <<kind, generation, changed>> /\ HandlerUnchanged

Delete ==
    /\ Describing /\ Ids # {}
    /\ parts' = <<>>
    /\ changed' = TRUE
    /\ UNCHANGED <<kind, generation>> /\ HandlerUnchanged

Create ==
    /\ Describing /\ Ids = {}
    /\ generation < MaxGeneration
    /\ generation' = generation + 1
    /\ \E n \in 1..MaxPartitions : parts' = [p \in 0..(n - 1) |-> NewPartition]
    /\ changed' = TRUE
    /\ UNCHANGED kind /\ HandlerUnchanged

(* The error of the subject comes or goes.                                 *)
FallIllOrRecover ==
    /\ Describing /\ kind[Subject] # "internal"
    /\ kind' = [kind EXCEPT ![Subject] = IF @ = "ill" THEN "plain" ELSE "ill"]
    /\ changed' = TRUE
    /\ UNCHANGED <<generation, parts>> /\ HandlerUnchanged

Handler ==
    \/ ListTopics
    \/ ListFails
    \/ ReadMetadata
    \/ TopicIsUnknown
    \/ TopicIsIll
    \/ CallFails
    \/ \E p \in PartitionId, which \in {"first", "last"} : ReceiveOffset(p, which)
    \/ \E p \in PartitionId : OffsetUnknown(p)
    \/ Answer

Next ==
    \/ Handler
    \/ \E p \in PartitionId : Write(p) \/ Truncate(p)
    \/ Delete
    \/ Create
    \/ FallIllOrRecover

Spec == Init /\ [][Next]_vars

(* Every call of the client ends, if need be with its Timeout              *)
(* (KRA_KAFKA_ADMIN_TIMEOUT), and the handler then answers.  No broker is  *)
(* assumed to reply.                                                       *)
FairSpec == Spec /\ WF_vars(ListFails \/ CallFails \/ Answer)

-------------------------------------------------------------------------------
(* Properties.                                                             *)

TypeOK ==
    /\ kind \in [Topics -> Kinds]
    /\ generation \in 1..MaxGeneration
    /\ \E n \in 0..MaxPartitions : parts \in [0..(n - 1) -> Watermarks]
    /\ pc \in {"list", "metadata", "offsets", "done"}
    /\ found \in Seq(PartitionId)
    /\ wanted \subseteq PartitionId \X {"first", "last"}
    /\ low \in [PartitionId -> 0..MaxOffset]
    /\ high \in [PartitionId -> 0..MaxOffset]
    /\ listing \in [code : Codes \cup {"none"}, topics : Seq(Topics)]
    /\ resp \in [code : Codes \cup {"none"},
                 partitions : Seq([id : PartitionId, low : 0..MaxOffset, high : 0..MaxOffset])]
    /\ asOf.generation \in 0..MaxGeneration
    /\ changed \in BOOLEAN

(* The list is sorted and has each topic once, and it is the list of the   *)
(* topics that can be described: while the subject stays what it was, it   *)
(* is listed only if it is not then unknown, and if it is described it was *)
(* listed, unless it is internal (client.go:129-144, 157-162).             *)
DescribedAsListed ==
    LET listed == Subject \in Range(listing.topics)
    IN  /\ \A i \in 2..Len(listing.topics) : listing.topics[i - 1] < listing.topics[i]
        /\ listing.code = "ok" /\ ~changed =>
              /\ resp.code = "topic_not_found" => ~listed
              /\ resp.code = "ok" => (listed <=> kind[Subject] # "internal")

(* A description is one the cluster could have given: it has the           *)
(* partitions of the metadata, in order, however the broker lists them,    *)
(* and each watermark was the partition's at some moment between the       *)
(* metadata and the answer, if the topic was not created again meanwhile:  *)
(* it never goes back behind the metadata nor runs ahead of the cluster    *)
(* (client.go:177-201).  The two of one partition are not of the same      *)
(* moment.                                                                 *)
DescriptionWasTrue ==
    resp.code = "ok" =>
        /\ Len(resp.partitions) = Cardinality(DOMAIN asOf.parts)
        /\ \A i \in DOMAIN resp.partitions :
            LET entry == resp.partitions[i]
            IN  /\ entry.id = i - 1
                /\ asOf.generation = generation =>
                      /\ entry.low >= asOf.parts[entry.id].first
                      /\ entry.high >= asOf.parts[entry.id].last
                      /\ entry.id \in Ids =>
                            entry.low <= parts[entry.id].first /\ entry.high <= parts[entry.id].last

(* Every list and every description is answered, also when the topic comes *)
(* and goes.                                                               *)
EveryDescriptionAnswered ==
    /\ pc = "list" ~> listing.code # "none"
    /\ pc = "metadata" ~> resp.code # "none"
===============================================================================
