-------------------------- MODULE DescribeTopicProofs --------------------------
(***************************************************************************)
(* Proofs about DescribeTopic, for any number of topics, partitions,       *)
(* records and creations.                                                  *)
(***************************************************************************)
EXTENDS DescribeTopic, OrderProofs

(* The partitions of a topic are numbered from 0; none are those of a      *)
(* topic that does not exist.                                              *)
PartitionMap(f) == \E n \in 0..MaxPartitions : f \in [0..(n - 1) -> Watermarks]

(* What the metadata said, and what has become of it: while the subject is *)
(* the same, it has the same partitions or none, and their records only    *)
(* grow and age.                                                           *)
AsOfInv ==
    /\ PartitionMap(asOf.parts) /\ asOf.generation <= generation
    /\ asOf.generation = generation /\ Ids # {} =>
          /\ Ids = DOMAIN asOf.parts
          /\ \A p \in Ids : asOf.parts[p].first <= parts[p].first
                            /\ asOf.parts[p].last <= parts[p].last

(* A watermark received was the partition's since the metadata were read.  *)
Between(value, p, which) ==
    asOf.generation = generation =>
        /\ value >= asOf.parts[p][which]
        /\ p \in Ids => value <= parts[p][which]

OffsetsInv ==
    pc = "offsets" =>
        /\ found \in SetToSeqs(DOMAIN asOf.parts)
        /\ wanted \subseteq (DOMAIN asOf.parts) \X {"first", "last"}
        /\ \A p \in DOMAIN asOf.parts :
              /\ <<p, "first">> \in wanted \/ Between(low[p], p, "first")
              /\ <<p, "last">> \in wanted \/ Between(high[p], p, "last")

(* A subject that has not changed since the list is in it if it is plain,  *)
(* and if it could be described it still can.                              *)
ListInv ==
    /\ pc = "list" => listing = NoListing /\ ~changed
    /\ \A i, j \in DOMAIN listing.topics : i < j => listing.topics[i] < listing.topics[j]
    /\ ~changed =>
          /\ listing.code = "ok" =>
                (Subject \in Range(listing.topics) <=> Ids # {} /\ kind[Subject] = "plain")
          /\ pc = "offsets" \/ resp.code = "ok" => Ids # {} /\ kind[Subject] # "ill"

RespInv ==
    /\ resp.code # "none" => pc = "done"
    /\ resp.code = "topic_not_found" => Ids = {}
    /\ DescriptionWasTrue

IInv == TypeOK /\ AsOfInv /\ OffsetsInv /\ ListInv /\ RespInv
-------------------------------------------------------------------------------
(* Lemmas about the operators.                                             *)

LEMMA PartitionMapFacts ==
    ASSUME NEW f, PartitionMap(f)
    PROVE  /\ \E n \in Nat : DOMAIN f = 0..(n - 1)
           /\ DOMAIN f \subseteq PartitionId /\ IsFiniteSet(DOMAIN f)
           /\ \A p \in DOMAIN f : f[p] \in Watermarks
<1>1. PICK n \in 0..MaxPartitions : f \in [0..(n - 1) -> Watermarks]
  BY DEF PartitionMap
<1>2. n \in Nat /\ n <= MaxPartitions /\ MaxPartitions \in Nat
  BY MaxPartitionsAssumption
<1>3. DOMAIN f = 0..(n - 1) /\ \A p \in DOMAIN f : f[p] \in Watermarks
  BY <1>1
<1>4. IsFiniteSet(0..(n - 1))
  BY <1>2, FS_Interval
<1>5. 0..(n - 1) \subseteq PartitionId
  BY <1>2 DEF PartitionId
<1>6. QED
  BY <1>2, <1>3, <1>4, <1>5

LEMMA NoPartitions == PartitionMap(<<>>)
<1>1. <<>> \in [0..(0 - 1) -> Watermarks]
  OBVIOUS
<1>2. QED
  BY <1>1, MaxPartitionsAssumption DEF PartitionMap

(* A list has the topics to be named, each once, in order.                 *)
LEMMA Named ==
    ASSUME NEW ts \in SetToSeqs(Existing)
    PROVE  /\ named(ts) \in Seq(Topics)
           /\ Range(named(ts)) = {t \in Existing : kind[t] = "plain"}
           /\ \A i, j \in DOMAIN named(ts) : i < j => named(ts)[i] < named(ts)[j]
<1> DEFINE S == {t \in Existing : kind[t] = "plain"}
<1>1. IsFiniteSet(Topics) /\ Topics \subseteq Int
  BY NumTopicsAssumption, FS_Interval DEF Topics
<1>2. Existing \in SUBSET Topics /\ S \in SUBSET Topics
  BY DEF Existing
<1>3. IsFiniteSet(Existing) /\ IsFiniteSet(S) /\ S \in SUBSET Int
  BY <1>1, <1>2, FS_Subset
<1>4. Range(ts) = Existing
  BY <1>3, Arrangements
<1>5. named(ts) = Ascending(S)
  BY <1>4 DEF named
<1> HIDE DEF S
<1>6. /\ Ascending(S) \in Seq(S)
      /\ \A x \in S : \E n \in DOMAIN Ascending(S) : Ascending(S)[n] = x
      /\ \A i, j \in DOMAIN Ascending(S) : i < j => Ascending(S)[i] < Ascending(S)[j]
  BY <1>3, AscendingOrders
<1>7. Range(Ascending(S)) = S
  BY <1>6 DEF Range
<1>8. Ascending(S) \in Seq(Topics)
  BY <1>2, <1>6
<1>9. QED
  BY <1>5, <1>6, <1>7, <1>8 DEF S

(* A description has the partitions of the metadata in order.              *)
LEMMA Built ==
    ASSUME NEW f, PartitionMap(f), NEW ids \in SetToSeqs(DOMAIN f), NEW lows, NEW highs
    PROVE  LET built == buildTopicMetadata(ids, lows, highs)
           IN  /\ DOMAIN built = 1..Cardinality(DOMAIN f) /\ Cardinality(DOMAIN f) \in Nat
               /\ built = [i \in 1..Cardinality(DOMAIN f) |->
                             [id |-> i - 1, low |-> lows[i - 1], high |-> highs[i - 1]]]
               /\ \A i \in 1..Cardinality(DOMAIN f) : i - 1 \in DOMAIN f
<1>1. PICK n \in Nat : DOMAIN f = 0..(n - 1)
  BY PartitionMapFacts
<1>2. /\ Cardinality(DOMAIN f) = n /\ IsFiniteSet(DOMAIN f)
      /\ \A i \in 1..n : Ascending(DOMAIN f)[i] = i - 1
  BY <1>1, AscendingInterval
<1>3. DOMAIN ids = 1..n /\ Range(ids) = DOMAIN f
  BY <1>2, Arrangements
<1>4. buildTopicMetadata(ids, lows, highs) =
         [i \in 1..n |-> [id |-> i - 1, low |-> lows[i - 1], high |-> highs[i - 1]]]
  BY <1>2, <1>3 DEF buildTopicMetadata
<1>5. \A i \in 1..n : i - 1 \in DOMAIN f
  BY <1>1
<1>6. QED
  BY <1>2, <1>4, <1>5

-------------------------------------------------------------------------------
LEMMA InitInvariant == Init => IInv
<1> SUFFICES ASSUME Init PROVE IInv
  OBVIOUS
<1> USE DEF Init
<1>1. PICK n \in 0..MaxPartitions : parts = [p \in 0..(n - 1) |-> NewPartition]
  OBVIOUS
<1>2. NewPartition \in Watermarks
  BY MaxOffsetAssumption DEF NewPartition, Watermarks
<1>3. PartitionMap(parts)
  BY <1>1, <1>2 DEF PartitionMap
<1>4. Zero \in [PartitionId -> 0..MaxOffset]
  BY MaxOffsetAssumption DEF Zero
<1>5. TypeOK
  <2>1. found \in Seq(PartitionId) /\ wanted \subseteq PartitionId \X {"first", "last"}
    OBVIOUS
  <2>2. /\ listing \in [code : Codes \cup {"none"}, topics : Seq(Topics)]
        /\ resp \in [code : Codes \cup {"none"},
                     partitions : Seq([id : PartitionId, low : 0..MaxOffset, high : 0..MaxOffset])]
    BY DEF NoListing, NoResponse
  <2>3. generation \in 1..MaxGeneration /\ asOf.generation \in 0..MaxGeneration
    BY MaxGenerationAssumption DEF NoTopic
  <2>4. QED
    BY <1>3, <1>4, <2>1, <2>2, <2>3 DEF TypeOK, PartitionMap
<1>6. AsOfInv
  BY NoPartitions DEF AsOfInv, NoTopic
<1>7. OffsetsInv
  BY DEF OffsetsInv
<1>8. ListInv
  BY DEF ListInv, NoListing, NoResponse
<1>9. RespInv
  BY DEF RespInv, DescriptionWasTrue, NoResponse
<1>10. QED
  BY <1>5, <1>6, <1>7, <1>8, <1>9 DEF IInv

(* What an error of a call is told as: never as an unknown topic, nor as a *)
(* success.                                                                *)
LEMMA CallErrorCodes ==
    \A e \in CallErrors \cup {{"upstream"}} :
        classify(e) \in Codes /\ classify(e) \notin {"ok", "none", "topic_not_found"}
  BY DEF CallErrors, classify, Codes, ErrorCodes

(* The list: only the response to it is new.                               *)
LEMMA ListStep ==
    ASSUME IInv, NEW code \in Codes, NEW topics \in Seq(Topics), List(code, topics),
           pc' \in {"metadata", "done"},
           \A i, j \in DOMAIN topics : i < j => topics[i] < topics[j],
           code = "ok" => (Subject \in Range(topics) <=> Ids # {} /\ kind[Subject] = "plain")
    PROVE  IInv'
<1> USE DEF IInv, List
<1>1. pc = "list" /\ resp.code = "none"
  BY DEF RespInv
<1>2. UNCHANGED <<kind, generation, parts, found, wanted, low, high, resp, asOf, changed>>
  BY DEF cluster
<1>3. listing' = [code |-> code, topics |-> topics]
  OBVIOUS
<1>4. TypeOK'
  BY <1>2, <1>3 DEF TypeOK
<1>5. AsOfInv'
  BY <1>2 DEF AsOfInv, PartitionMap, Ids
<1>6. OffsetsInv'
  BY DEF OffsetsInv
<1>7. ListInv'
  BY <1>1, <1>2, <1>3 DEF ListInv, Ids
<1>8. RespInv'
  BY <1>1, <1>2 DEF RespInv, DescriptionWasTrue, Ids
<1>9. QED
  BY <1>4, <1>5, <1>6, <1>7, <1>8

LEMMA ListTopicsKeeps == ASSUME IInv, ListTopics PROVE IInv'
<1>1. PICK ts \in SetToSeqs(Existing) : List("ok", named(ts)) /\ pc' = "metadata"
  BY DEF ListTopics
<1>2. Subject \in Existing <=> Ids # {}
  BY NumTopicsAssumption DEF Existing, Subject, Topics
<1>3. Subject \in Range(named(ts)) <=> Ids # {} /\ kind[Subject] = "plain"
  BY <1>2, Named
<1>4. "ok" \in Codes
  BY DEF Codes
<1>5. QED
  BY <1>1, <1>3, <1>4, Named, ListStep

LEMMA ListFailsKeeps == ASSUME IInv, ListFails PROVE IInv'
<1>1. PICK e \in CallErrors : List(classify(e), <<>>) /\ pc' = "done"
  BY DEF ListFails
<1>2. <<>> \in Seq(Topics) /\ DOMAIN <<>> = {}
  OBVIOUS
<1>3. QED
  BY <1>1, <1>2, CallErrorCodes, ListStep

(* An answer: everything but the response is over.                         *)
LEMMA RespondStep ==
    ASSUME IInv, NEW code \in Codes,
           NEW entries \in Seq([id : PartitionId, low : 0..MaxOffset, high : 0..MaxOffset]),
           Respond(code, entries), pc \in {"metadata", "offsets"},
           code = "topic_not_found" => Ids = {},
           code = "ok" => pc = "offsets" /\ DescriptionWasTrue'
    PROVE  IInv'
<1> USE DEF IInv, Respond
<1>1. UNCHANGED <<kind, generation, parts, listing, asOf, changed>>
  BY DEF cluster
<1>2. /\ resp' = [code |-> code, partitions |-> entries] /\ pc' = "done"
      /\ found' = <<>> /\ wanted' = {} /\ low' = Zero /\ high' = Zero
  OBVIOUS
<1>3. Zero \in [PartitionId -> 0..MaxOffset]
  BY MaxOffsetAssumption DEF Zero
<1>4. resp' \in [code : Codes \cup {"none"},
                 partitions : Seq([id : PartitionId, low : 0..MaxOffset, high : 0..MaxOffset])]
  BY <1>2
<1>5. TypeOK'
  BY <1>1, <1>2, <1>3, <1>4 DEF TypeOK
<1>6. AsOfInv'
  BY <1>1 DEF AsOfInv, PartitionMap, Ids
<1>7. OffsetsInv'
  BY <1>2 DEF OffsetsInv
<1>8. ListInv'
  BY <1>1, <1>2 DEF ListInv, Ids
<1>9. RespInv'
  <2>1. code = "ok" \/ DescriptionWasTrue'
    BY <1>2 DEF DescriptionWasTrue
  <2>2. QED
    BY <1>1, <1>2, <2>1 DEF RespInv, Ids
<1>10. QED
  BY <1>5, <1>6, <1>7, <1>8, <1>9

(* The answers that are errors.                                            *)
LEMMA AbortKeeps ==
    ASSUME IInv, TopicIsUnknown \/ TopicIsIll \/ CallFails \/ \E p \in PartitionId : OffsetUnknown(p)
    PROVE  IInv'
<1>1. PICK e \in CallErrors \cup {{"upstream"}, TopicNotFound} :
         Abort(e) /\ pc \in {"metadata", "offsets"} /\ (e = TopicNotFound => Ids = {})
  <2>1. TopicNotFound \notin CallErrors \cup {{"upstream"}}
    BY DEF TopicNotFound, CallErrors
  <2>2. CASE TopicIsUnknown
    BY <2>2 DEF TopicIsUnknown
  <2>3. CASE TopicIsIll
    BY <2>1, <2>3 DEF TopicIsIll
  <2>4. CASE CallFails
    <3>1. PICK e \in CallErrors : Abort(e)
      BY <2>4 DEF CallFails
    <3>2. e # TopicNotFound
      BY <2>1
    <3>3. QED
      BY <2>4, <3>1, <3>2 DEF CallFails
  <2>5. CASE \E p \in PartitionId : OffsetUnknown(p)
    BY <2>1, <2>5 DEF OffsetUnknown
  <2>6. QED
    BY <2>2, <2>3, <2>4, <2>5
<1>2. classify(TopicNotFound) = "topic_not_found"
  BY DEF TopicNotFound, classify
<1>3. /\ classify(e) \in Codes \ {"ok"}
      /\ classify(e) = "topic_not_found" => Ids = {}
  BY <1>1, <1>2, CallErrorCodes DEF Codes, ErrorCodes
<1>4. <<>> \in Seq([id : PartitionId, low : 0..MaxOffset, high : 0..MaxOffset])
  OBVIOUS
<1>5. Respond(classify(e), <<>>)
  BY <1>1 DEF Abort
<1>6. QED
  BY <1>1, <1>3, <1>4, <1>5, RespondStep

LEMMA ReadMetadataKeeps == ASSUME IInv, ReadMetadata PROVE IInv'
<1> USE DEF IInv, ReadMetadata
<1>1. PartitionMap(parts)
  BY DEF TypeOK, PartitionMap
<1>2. /\ UNCHANGED <<kind, generation, parts, low, high, listing, resp, changed>>
      /\ asOf' = [generation |-> generation, parts |-> parts]
      /\ resp.code = "none" /\ pc' = "offsets"
  BY DEF cluster, RespInv
<1>3. found' \in Seq(PartitionId) /\ wanted' \subseteq PartitionId \X {"first", "last"}
  <2>1. found' \in Seq(Ids) /\ Ids \subseteq PartitionId
    BY <1>1, PartitionMapFacts, Arrangements DEF Ids
  <2>2. QED
    BY <2>1
<1>4. TypeOK'
  <2>1. generation \in 0..MaxGeneration /\ TypeOK
    BY MaxGenerationAssumption DEF TypeOK
  <2> HIDE DEF IInv, ReadMetadata
  <2>2. QED
    BY <1>2, <1>3, <2>1 DEF TypeOK
<1>5. AsOfInv'
  <2>1. \A p \in Ids : parts[p].first \in Int /\ parts[p].last \in Int
    BY <1>1, PartitionMapFacts, MaxOffsetAssumption DEF Ids, Watermarks
  <2>2. generation <= generation
    BY MaxGenerationAssumption DEF TypeOK
  <2>3. PartitionMap(asOf'.parts)
    BY <1>1, <1>2
  <2> HIDE DEF IInv, ReadMetadata
  <2>4. QED
    BY <1>2, <2>1, <2>2, <2>3 DEF AsOfInv, PartitionMap, Ids
<1>6. OffsetsInv'
  BY <1>2 DEF OffsetsInv, Ids
<1>7. ListInv'
  BY <1>2 DEF ListInv, Ids
<1>8. RespInv'
  BY <1>2 DEF RespInv, DescriptionWasTrue
<1>9. QED
  BY <1>4, <1>5, <1>6, <1>7, <1>8

(* A watermark arrives: what the partition has now is what it has.         *)
LEMMA ReceiveKeeps ==
    ASSUME IInv, NEW p \in PartitionId, NEW which \in {"first", "last"}, ReceiveOffset(p, which)
    PROVE  IInv'
<1> USE DEF IInv, ReceiveOffset
<1>1. PartitionMap(parts) /\ PartitionMap(asOf.parts)
  BY DEF TypeOK, PartitionMap, AsOfInv
<1>2. /\ UNCHANGED <<kind, generation, parts, found, listing, resp, asOf, changed, pc>>
      /\ resp.code = "none" /\ pc = "offsets" /\ <<p, which>> \in wanted /\ p \in Ids
  BY DEF cluster, RespInv
<1>3. p \in DOMAIN asOf.parts
  BY <1>2 DEF OffsetsInv
<1>4. /\ parts[p].first \in 0..MaxOffset /\ parts[p].last \in 0..MaxOffset
      /\ asOf.parts[p].first \in 0..MaxOffset /\ asOf.parts[p].last \in 0..MaxOffset
  BY <1>1, <1>2, <1>3, PartitionMapFacts DEF Ids, Watermarks
<1>5. /\ low' \in [PartitionId -> 0..MaxOffset] /\ high' \in [PartitionId -> 0..MaxOffset]
      /\ which = "first" => low'[p] = parts[p].first
      /\ which = "last" => high'[p] = parts[p].last
      /\ \A q \in PartitionId : (q # p \/ which # "first") => low'[q] = low[q]
      /\ \A q \in PartitionId : (q # p \/ which # "last") => high'[q] = high[q]
  BY <1>4 DEF TypeOK
<1>6. TypeOK'
  BY <1>2, <1>5 DEF TypeOK
<1>7. AsOfInv'
  BY <1>2 DEF AsOfInv, PartitionMap, Ids
<1>8. Between(parts[p][which], p, which)
  BY <1>2, <1>3, <1>4, MaxOffsetAssumption DEF AsOfInv, Between
<1>9. OffsetsInv'
  <2>1. /\ found' \in SetToSeqs(DOMAIN asOf'.parts)
        /\ wanted' \subseteq (DOMAIN asOf'.parts) \X {"first", "last"}
    BY <1>2 DEF OffsetsInv
  <2>2. ASSUME NEW q \in DOMAIN asOf.parts
        PROVE  <<q, "first">> \in wanted' \/ Between(low[q], q, "first")'
    <3>1. q \in PartitionId
      BY <1>1, PartitionMapFacts
    <3>2. CASE q = p /\ which = "first"
      BY <1>2, <1>5, <1>8, <3>2 DEF Between, Ids
    <3>3. CASE q # p \/ which # "first"
      <4>1. low'[q] = low[q] /\ (<<q, "first">> \in wanted' <=> <<q, "first">> \in wanted)
        BY <1>5, <3>1, <3>3
      <4>2. QED
        BY <1>2, <4>1 DEF OffsetsInv, Between, Ids
    <3>4. QED
      BY <3>2, <3>3
  <2>3. ASSUME NEW q \in DOMAIN asOf.parts
        PROVE  <<q, "last">> \in wanted' \/ Between(high[q], q, "last")'
    <3>1. q \in PartitionId
      BY <1>1, PartitionMapFacts
    <3>2. CASE q = p /\ which = "last"
      BY <1>2, <1>5, <1>8, <3>2 DEF Between, Ids
    <3>3. CASE q # p \/ which # "last"
      <4>1. high'[q] = high[q] /\ (<<q, "last">> \in wanted' <=> <<q, "last">> \in wanted)
        BY <1>5, <3>1, <3>3
      <4>2. QED
        BY <1>2, <4>1 DEF OffsetsInv, Between, Ids
    <3>4. QED
      BY <3>2, <3>3
  <2>4. QED
    BY <1>2, <2>1, <2>2, <2>3 DEF OffsetsInv, Between, Ids
<1>10. ListInv'
  BY <1>2 DEF ListInv, Ids
<1>11. RespInv'
  BY <1>2 DEF RespInv, DescriptionWasTrue
<1>12. QED
  BY <1>6, <1>7, <1>9, <1>10, <1>11

LEMMA AnswerKeeps == ASSUME IInv, Answer PROVE IInv'
<1> USE DEF IInv
<1> DEFINE entries == buildTopicMetadata(found, low, high)
           D == DOMAIN asOf.parts
<1>1. /\ pc = "offsets" /\ wanted = {} /\ Respond("ok", entries)
      /\ PartitionMap(asOf.parts) /\ found \in SetToSeqs(D)
  BY DEF Answer, OffsetsInv, AsOfInv
<1>2. /\ Cardinality(D) \in Nat
      /\ entries = [i \in 1..Cardinality(D) |-> [id |-> i - 1, low |-> low[i - 1], high |-> high[i - 1]]]
      /\ \A i \in 1..Cardinality(D) : i - 1 \in D
  BY <1>1, Built
<1>3. \A p \in D : /\ p \in PartitionId /\ low[p] \in 0..MaxOffset /\ high[p] \in 0..MaxOffset
                   /\ Between(low[p], p, "first") /\ Between(high[p], p, "last")
  BY <1>1, PartitionMapFacts DEF TypeOK, OffsetsInv
<1>4. entries \in Seq([id : PartitionId, low : 0..MaxOffset, high : 0..MaxOffset])
  <2> DEFINE Entry == [id : PartitionId, low : 0..MaxOffset, high : 0..MaxOffset]
  <2>1. \A i \in 1..Cardinality(D) :
           [id |-> i - 1, low |-> low[i - 1], high |-> high[i - 1]] \in Entry
    BY <1>2, <1>3
  <2> HIDE DEF entries, D, Entry
  <2>2. PICK n \in Nat : n = Cardinality(D)
    BY <1>2
  <2>3. entries \in [1..n -> Entry]
    BY <1>2, <2>1, <2>2
  <2>4. \A f \in [1..n -> Entry] : f \in Seq(Entry)
    OBVIOUS
  <2>5. QED
    BY <2>3, <2>4 DEF Entry
<1>5. DescriptionWasTrue'
  <2>1. resp' = [code |-> "ok", partitions |-> entries] /\ UNCHANGED <<generation, parts, asOf>>
    BY <1>1 DEF Respond, cluster
  <2>2. Len(entries) = Cardinality(D) /\ DOMAIN entries = 1..Cardinality(D)
    BY <1>2
  <2>3. ASSUME NEW i \in 1..Cardinality(D)
        PROVE  /\ entries[i].id = i - 1
               /\ asOf.generation = generation =>
                     /\ entries[i].low >= asOf.parts[i - 1].first
                     /\ entries[i].high >= asOf.parts[i - 1].last
                     /\ i - 1 \in Ids =>
                           entries[i].low <= parts[i - 1].first /\ entries[i].high <= parts[i - 1].last
    BY <1>2, <1>3 DEF Between
  <2> HIDE DEF entries, D
  <2>4. QED
    BY <2>1, <2>2, <2>3 DEF DescriptionWasTrue, Ids, D
<1>6. "ok" \in Codes
  BY DEF Codes
<1>7. QED
  BY <1>1, <1>4, <1>5, <1>6, RespondStep
-------------------------------------------------------------------------------
(* The cluster.  Nothing has been answered yet while it moves.             *)

LEMMA Unanswered ==
    ASSUME IInv, Describing, HandlerUnchanged
    PROVE  /\ resp.code = "none" /\ RespInv'
           /\ pc # "list" /\ pc' = pc
           /\ UNCHANGED <<found, wanted, low, high, listing, resp, asOf>>
<1>1. resp.code = "none"
  BY DEF IInv, RespInv, Describing
<1>2. QED
  BY <1>1 DEF HandlerUnchanged, Describing, RespInv, DescriptionWasTrue

(* Records are appended to a partition, or age.                            *)
LEMMA RecordsKeep ==
    ASSUME IInv, NEW p \in PartitionId, Write(p) \/ Truncate(p) PROVE IInv'
<1> USE DEF IInv
<1>1. /\ p \in Ids /\ UNCHANGED <<kind, generation, changed>>
      /\ Describing /\ HandlerUnchanged
      /\ PartitionMap(parts) /\ PartitionMap(asOf.parts)
  BY DEF Write, Truncate, TypeOK, PartitionMap, AsOfInv
<1>2. PICK w \in Watermarks : /\ parts' = [parts EXCEPT ![p] = w]
                              /\ parts[p].first <= w.first /\ parts[p].last <= w.last
  <2>1. parts[p] \in [first : 0..MaxOffset, last : 0..MaxOffset]
    BY <1>1, PartitionMapFacts DEF Ids, Watermarks
  <2>2. CASE Write(p)
    <3> DEFINE w == [parts[p] EXCEPT !.last = @ + 1]
    <3>1. /\ parts' = [parts EXCEPT ![p] = w] /\ w \in Watermarks
          /\ parts[p].first <= w.first /\ parts[p].last <= w.last
      BY <2>1, <2>2, MaxOffsetAssumption DEF Write, Watermarks
    <3>2. QED
      BY <3>1
  <2>3. CASE Truncate(p)
    <3> DEFINE w == [parts[p] EXCEPT !.first = @ + 1]
    <3>1. /\ parts' = [parts EXCEPT ![p] = w] /\ w \in Watermarks
          /\ parts[p].first <= w.first /\ parts[p].last <= w.last
      BY <2>1, <2>3, MaxOffsetAssumption DEF Truncate, Watermarks
    <3>2. QED
      BY <3>1
  <2>4. QED
    BY <2>2, <2>3
<1>3. UNCHANGED <<pc, found, wanted, low, high, listing, resp, asOf>> /\ RespInv' /\ pc # "list"
  BY <1>1, Unanswered
<1>4. Ids' = Ids /\ PartitionMap(parts')
  BY <1>1, <1>2 DEF Ids, PartitionMap
<1>5. \A q \in Ids : /\ parts[q].first <= parts'[q].first /\ parts[q].last <= parts'[q].last
                     /\ parts[q] \in Watermarks /\ parts'[q] \in Watermarks
  <2>1. \A q \in Ids : parts[q] \in Watermarks /\ parts'[q] \in Watermarks
    BY <1>1, <1>4, PartitionMapFacts DEF Ids
  <2>2. \A q \in Ids \ {p} : parts'[q] = parts[q]
    BY <1>2 DEF Ids
  <2>3. parts'[p] = w
    BY <1>1, <1>2 DEF Ids
  <2>4. \A q \in Ids \ {p} : parts[q].first <= parts'[q].first /\ parts[q].last <= parts'[q].last
    BY <2>1, <2>2, MaxOffsetAssumption DEF Watermarks
  <2>5. QED
    BY <1>2, <2>1, <2>3, <2>4
<1>6. TypeOK'
  BY <1>1, <1>3, <1>4 DEF TypeOK, PartitionMap
<1>7. AsOfInv'
  <2>1. PartitionMap(asOf.parts)' /\ asOf'.generation <= generation'
    BY <1>1, <1>3 DEF AsOfInv, PartitionMap
  <2>2. ASSUME asOf.generation = generation, NEW q \in Ids
        PROVE  /\ Ids = DOMAIN asOf.parts
               /\ asOf.parts[q].first <= parts'[q].first /\ asOf.parts[q].last <= parts'[q].last
    <3>1. /\ Ids = DOMAIN asOf.parts
          /\ asOf.parts[q].first <= parts[q].first /\ asOf.parts[q].last <= parts[q].last
      BY <2>2 DEF AsOfInv
    <3>2. asOf.parts[q] \in Watermarks
      BY <1>1, <3>1, PartitionMapFacts
    <3>3. QED
      BY <1>5, <3>1, <3>2, MaxOffsetAssumption DEF Watermarks
  <2>3. QED
    BY <1>1, <1>3, <1>4, <2>1, <2>2 DEF AsOfInv
<1>8. OffsetsInv'
  <2> SUFFICES ASSUME pc = "offsets", NEW q \in DOMAIN asOf.parts
               PROVE  /\ <<q, "first">> \in wanted \/ Between(low[q], q, "first")'
                      /\ <<q, "last">> \in wanted \/ Between(high[q], q, "last")'
    BY <1>3 DEF OffsetsInv
  <2>1. low[q] \in Int /\ high[q] \in Int
    BY <1>1, PartitionMapFacts, MaxOffsetAssumption DEF TypeOK
  <2>2. /\ <<q, "first">> \in wanted \/ Between(low[q], q, "first")
        /\ <<q, "last">> \in wanted \/ Between(high[q], q, "last")
    BY DEF OffsetsInv
  <2>3. Between(low[q], q, "first") => Between(low[q], q, "first")'
    BY <1>1, <1>3, <1>4, <1>5, <2>1, MaxOffsetAssumption DEF Between, Watermarks
  <2>4. Between(high[q], q, "last") => Between(high[q], q, "last")'
    BY <1>1, <1>3, <1>4, <1>5, <2>1, MaxOffsetAssumption DEF Between, Watermarks
  <2>5. QED
    BY <2>2, <2>3, <2>4
<1>9. ListInv'
  BY <1>1, <1>3, <1>4 DEF ListInv
<1>10. QED
  BY <1>3, <1>6, <1>7, <1>8, <1>9

(* The subject goes or comes, or its error does: it has changed.           *)
LEMMA SubjectKeeps == ASSUME IInv, Delete \/ Create \/ FallIllOrRecover PROVE IInv'
<1> USE DEF IInv
<1>1. /\ Describing /\ HandlerUnchanged /\ changed'
      /\ PartitionMap(parts) /\ PartitionMap(asOf.parts)
      /\ generation \in 1..MaxGeneration /\ asOf.generation \in 0..MaxGeneration
  BY DEF Delete, Create, FallIllOrRecover, TypeOK, PartitionMap, AsOfInv
<1>2. UNCHANGED <<pc, found, wanted, low, high, listing, resp, asOf>> /\ RespInv' /\ pc # "list"
      /\ resp.code = "none"
  BY <1>1, Unanswered
<1>3. /\ kind' \in [Topics -> Kinds] /\ changed' \in BOOLEAN
      /\ generation' \in 1..MaxGeneration /\ generation <= generation'
      /\ PartitionMap(parts')
      /\ \/ Ids' = {}
         \/ generation < generation'
         \/ parts' = parts
  <2>1. CASE Delete
    BY <1>1, <2>1, NoPartitions DEF Delete, TypeOK, Ids
  <2>2. CASE Create
    <3>1. PICK n \in 1..MaxPartitions : parts' = [p \in 0..(n - 1) |-> NewPartition]
      BY <2>2 DEF Create
    <3>2. NewPartition \in Watermarks
      BY MaxOffsetAssumption DEF NewPartition, Watermarks
    <3>3. n \in 0..MaxPartitions
      BY MaxPartitionsAssumption
    <3>4. PartitionMap(parts')
      BY <3>1, <3>2, <3>3 DEF PartitionMap
    <3>5. /\ generation' = generation + 1 /\ generation < MaxGeneration /\ kind' = kind
          /\ changed' = TRUE
      BY <2>2 DEF Create
    <3>6. generation \in 1..MaxGeneration /\ kind \in [Topics -> Kinds]
      BY <1>1 DEF TypeOK
    <3>7. generation' \in 1..MaxGeneration /\ generation < generation' /\ generation <= generation'
      BY <3>5, <3>6, MaxGenerationAssumption
    <3>8. kind' \in [Topics -> Kinds] /\ changed' \in BOOLEAN
      BY <3>5, <3>6
    <3>9. QED
      BY <3>4, <3>7, <3>8
  <2>3. CASE FallIllOrRecover
    <3>1. "ill" \in Kinds /\ "plain" \in Kinds
      BY DEF Kinds
    <3>2. generation' = generation /\ parts' = parts /\ kind \in [Topics -> Kinds]
          /\ kind' = [kind EXCEPT ![Subject] = IF @ = "ill" THEN "plain" ELSE "ill"]
      BY <2>3 DEF FallIllOrRecover, TypeOK
    <3>3. kind' \in [Topics -> Kinds]
      BY <3>1, <3>2
    <3>4. generation <= generation
      BY <1>1, MaxGenerationAssumption
    <3>5. changed' = TRUE
      BY <2>3 DEF FallIllOrRecover
    <3>6. QED
      BY <1>1, <3>2, <3>3, <3>4, <3>5
  <2>4. QED
    BY <2>1, <2>2, <2>3
<1>4. TypeOK'
  BY <1>1, <1>2, <1>3 DEF TypeOK, PartitionMap
<1>5. generation < generation' => asOf.generation # generation'
  BY <1>1, <1>3, MaxGenerationAssumption DEF AsOfInv
<1>6. parts' = parts => generation' = generation \/ generation < generation'
  BY <1>1, <1>3, MaxGenerationAssumption
<1>7. AsOfInv'
  <2>1. PartitionMap(asOf.parts)' /\ asOf'.generation <= generation'
    <3>1. PartitionMap(asOf.parts)'
      BY <1>1, <1>2 DEF PartitionMap
    <3>2. asOf.generation <= generation
      BY DEF AsOfInv
    <3>3. asOf.generation <= generation'
      BY <1>1, <1>3, <3>2, MaxGenerationAssumption
    <3>4. QED
      BY <1>2, <3>1, <3>3
  <2>2. asOf.generation = generation' /\ Ids' # {} =>
           /\ asOf.generation = generation /\ parts' = parts /\ Ids' = Ids
    BY <1>3, <1>5, <1>6 DEF Ids
  <2>3. QED
    BY <1>2, <2>1, <2>2 DEF AsOfInv
<1>8. OffsetsInv'
  <2>1. asOf.generation = generation' => asOf.generation = generation /\ (Ids' = {} \/ parts' = parts)
    BY <1>1, <1>3, <1>5, MaxGenerationAssumption DEF AsOfInv
  <2> SUFFICES ASSUME pc = "offsets", NEW q \in DOMAIN asOf.parts
               PROVE  /\ <<q, "first">> \in wanted \/ Between(low[q], q, "first")'
                      /\ <<q, "last">> \in wanted \/ Between(high[q], q, "last")'
    BY <1>2 DEF OffsetsInv
  <2>2. /\ <<q, "first">> \in wanted \/ Between(low[q], q, "first")
        /\ <<q, "last">> \in wanted \/ Between(high[q], q, "last")
    BY DEF OffsetsInv
  <2>3. Between(low[q], q, "first") => Between(low[q], q, "first")'
    BY <1>2, <2>1 DEF Between, Ids
  <2>4. Between(high[q], q, "last") => Between(high[q], q, "last")'
    BY <1>2, <2>1 DEF Between, Ids
  <2>5. QED
    BY <2>2, <2>3, <2>4
<1>9. ListInv'
  BY <1>1, <1>2 DEF ListInv
<1>10. QED
  BY <1>2, <1>4, <1>7, <1>8, <1>9

LEMMA NextInvariant == IInv /\ [Next]_vars => IInv'
<1> SUFFICES ASSUME IInv, [Next]_vars PROVE IInv'
  OBVIOUS
<1>1. CASE UNCHANGED vars
  BY <1>1 DEF vars, cluster, IInv, TypeOK, AsOfInv, PartitionMap, OffsetsInv, Between, ListInv,
              RespInv, DescriptionWasTrue, Ids
<1>2. CASE Handler
  BY <1>2, ListTopicsKeeps, ListFailsKeeps, ReadMetadataKeeps, AbortKeeps, ReceiveKeeps, AnswerKeeps
     DEF Handler
<1>3. CASE Next /\ ~Handler
  BY <1>3, RecordsKeep, SubjectKeeps DEF Next
<1>4. QED
  BY <1>1, <1>2, <1>3

LEMMA Invariance == Spec => []IInv
  BY InitInvariant, NextInvariant, PTL DEF Spec

(* Type correctness: no watermark leaves the records of a partition, and   *)
(* no list or description the topics and partitions there are.             *)
THEOREM TypeCorrect == Spec => []TypeOK
<1>1. IInv => TypeOK
  BY DEF IInv
<1>2. QED
  BY <1>1, Invariance, PTL

(* A description is one the cluster could have given while it was made     *)
(* (client.go:177-237).                                                    *)
THEOREM DescriptionIsTrue == Spec => []DescriptionWasTrue
<1>1. IInv => DescriptionWasTrue
  BY DEF IInv, RespInv
<1>2. QED
  BY <1>1, Invariance, PTL

(* A list is in order and, while the subject stays what it was, agrees     *)
(* with its description (client.go:129-144, 157-162).                      *)
THEOREM ListsWhatItDescribes == Spec => []DescribedAsListed
<1>1. IInv => DescribedAsListed
  <2> SUFFICES ASSUME IInv PROVE DescribedAsListed
    OBVIOUS
  <2>1. ASSUME NEW i \in 2..Len(listing.topics) PROVE listing.topics[i - 1] < listing.topics[i]
    <3>1. listing.topics \in Seq(Topics)
      BY DEF IInv, TypeOK
    <3>2. i - 1 \in DOMAIN listing.topics /\ i \in DOMAIN listing.topics /\ i - 1 < i
      BY <3>1
    <3>3. QED
      BY <3>2 DEF IInv, ListInv
  <2>2. kind[Subject] \in Kinds
    BY NumTopicsAssumption DEF IInv, TypeOK, Subject, Topics
  <2>3. QED
    BY <2>1, <2>2 DEF IInv, ListInv, RespInv, DescribedAsListed, Kinds
<1>2. QED
  BY <1>1, Invariance, PTL
================================================================================
