--------------------------- MODULE SyncPublishProofs ---------------------------
(***************************************************************************)
(* Proofs about SyncPublish, for any sets of requests and keys, any number *)
(* of partitions, any batch size and any hash.                             *)
(***************************************************************************)
EXTENDS SyncPublish, TLAPS

(* Once a request is grouped it stays grouped; before that it has no group. *)
Grouped(r) == IsGrouping(groups[r], batch[r])

PcInv ==
    \A r \in Requests :
        /\ resp[r].code = "none" <=> pc[r] # "done"
        /\ pc[r] = "idle" => batch[r] = <<>>
        /\ pc[r] \in {"metadata", "produce", "await"} => batch[r] # <<>>
        /\ pc[r] \in {"idle", "metadata"} => todo[r] = {}
        /\ pc[r] \in {"produce", "await"} => Len(results[r]) = Len(batch[r])
        /\ reply[r].state = "refused" => reply[r].error \in {{"upstream"}, TopicNotFound}

GroupsInv ==
    \A r \in Requests :
        /\ groups[r] \in [Partition -> GroupsOf(Len(batch[r]))]
        /\ Grouped(r) \/ groups[r] = [p \in Partition |-> <<>>]
        /\ pc[r] \in {"produce", "await"} => Grouped(r)

(* Once the producer has taken the group of p from the map, it never       *)
(* takes it again.                                                         *)
Taken(r, p) == p \notin todo[r] /\ pc[r] \notin {"idle", "metadata"}

(* What is in the logs was sent once, as a whole, and handled.             *)
LogInv ==
    /\ \A r \in Requests, p \in Partition : <<r, p>> \in inflight => Taken(r, p)
    /\ \A r \in Requests, p \in Partition : \A j \in DOMAIN log[p] :
          log[p][j][1] = r =>
              /\ log[p][j][2] \in Indices(groups[r][p])
              /\ <<r, p>> \notin inflight
              /\ Taken(r, p)

OrderInv ==
    \A p \in Partition : \A j, k \in DOMAIN log[p] :
        j < k /\ log[p][j][1] = log[p][k][1] => log[p][j][2] < log[p][k][2]

IInv == TypeOK /\ PcInv /\ GroupsInv /\ LogInv /\ OrderInv

(* Groups the broker has answered for are located by the results, and the  *)
(* answer not yet read locates the group under way.                        *)
ResultsLocated(r) ==
    \A p \in Partition :
        pc[r] \in {"produce", "await"} /\ p \notin todo[r] /\ ~Awaits(r, p) =>
            \A i \in Indices(groups[r][p]) : Located(log, r, i, results[r][i])

ReplyLocated(r) ==
    pc[r] = "await" /\ reply[r].state = "stored" =>
        \A j \in DOMAIN groups[r][cur[r]] :
            /\ reply[r].base + j \in DOMAIN log[cur[r]]
            /\ log[cur[r]][reply[r].base + j] = <<r, groups[r][cur[r]][j]>>

OffsetInv == \A r \in Requests : ResultsLocated(r) /\ ReplyLocated(r)

OInv == IInv /\ OffsetInv /\ OffsetsExact
-------------------------------------------------------------------------------
(* Lemmas about the operators.                                             *)

(* Every error is answered with an error code.                             *)
LEMMA ClassifyIsErrorCode == \A err : classify(err) \in ErrorCodes
  BY DEF classify, ErrorCodes

(* No upstream failure is answered as a client's mistake.                  *)
LEMMA UpstreamIsNotInvalid ==
    \A err \in CallErrors \cup {TopicNotFound} : classify(err) # "invalid_request"
  BY DEF classify, CallErrors, TopicNotFound

(* Every refused request is answered as a client's mistake.                *)
LEMMA RefusedIsInvalid == \A err \in RefusedWith : classify(err) = "invalid_request"
  BY DEF classify, RefusedWith, BadRequest, ValidationErrors

(* A batch that reaches the producer is a nonempty sequence of messages.   *)
LEMMA AcceptedBatchIsNonEmpty ==
    \A ms \in AcceptedBatches : ms \in Seq(WireMessage) /\ Len(ms) \in Nat \ {0} /\ ms # <<>>
<1> SUFFICES ASSUME NEW ms \in AcceptedBatches
             PROVE  ms \in Seq(WireMessage) /\ Len(ms) \in Nat \ {0} /\ ms # <<>>
  OBVIOUS
<1>1. PICK n \in 0..(MaxBatchSize + 1) : ms \in [1..n -> WireMessage]
  BY DEF AcceptedBatches, Bodies
<1>2. n \in Nat
  BY MaxBatchSizeAssumption
<1>3. ms \in Seq(WireMessage) /\ Len(ms) = n
  BY <1>1, <1>2
<1>4. Len(ms) # 0
  BY <1>3 DEF AcceptedBatches, ValidationErrors, Sentinels
<1> QED
  BY <1>2, <1>3, <1>4

(* A group is a sequence of indices of the batch, in input order.          *)
LEMMA GroupIsSequence ==
  ASSUME NEW n \in Nat, NEW g \in GroupsOf(n)
  PROVE  /\ g \in Seq(1..n) /\ g \in Seq(Nat)
         /\ DOMAIN g = 1..Len(g) /\ Len(g) \in Nat
         /\ \A j \in DOMAIN g : g[j] \in 1..n
         /\ \A j, k \in DOMAIN g : g[j] = g[k] => j = k
         /\ \A j, k \in DOMAIN g : j < k => g[j] < g[k]
<1>1. PICK k \in 0..n : g \in [1..k -> 1..n]
  BY DEF GroupsOf
<1>2. InInputOrder(g)
  BY DEF GroupsOf
<1>3. k \in Nat /\ DOMAIN g = 1..k
  BY <1>1
<1>4. g \in Seq(1..n) /\ g \in Seq(Nat) /\ Len(g) = k
  BY <1>1, <1>3
<1>5. \A j, l \in DOMAIN g : j < l => g[j] < g[l]
  BY <1>2 DEF InInputOrder
<1>6. \A j, l \in DOMAIN g : g[j] = g[l] => j = l
  BY <1>1, <1>3, <1>5
<1> QED
  BY <1>1, <1>3, <1>4, <1>5, <1>6

(* A concatenation has the elements of the first sequence, then of the     *)
(* second.                                                                 *)
LEMMA Appended ==
  ASSUME NEW S, NEW s \in Seq(S), NEW t \in Seq(S)
  PROVE  /\ s \o t \in Seq(S) /\ Len(s) \in Nat /\ Len(t) \in Nat
         /\ DOMAIN s = 1..Len(s) /\ DOMAIN t = 1..Len(t)
         /\ DOMAIN (s \o t) = 1..(Len(s) + Len(t))
         /\ \A j \in DOMAIN s : j \in DOMAIN (s \o t) /\ (s \o t)[j] = s[j]
         /\ \A j \in DOMAIN t : (s \o t)[Len(s) + j] = t[j]
         /\ \A j \in DOMAIN (s \o t) \ DOMAIN s :
               j > Len(s) /\ j - Len(s) \in DOMAIN t /\ (s \o t)[j] = t[j - Len(s)]
         /\ \A j \in DOMAIN (s \o t) : j \in Nat
         /\ \A j \in DOMAIN s : j <= Len(s)
  OBVIOUS

(* Appending the records of r to a log without any keeps the log ordered.  *)
LEMMA AppendedOrder ==
  ASSUME NEW S, NEW s \in Seq(S), NEW t \in Seq(S), NEW r,
         \A j, k \in DOMAIN s : j < k /\ s[j][1] = s[k][1] => s[j][2] < s[k][2],
         \A j, k \in DOMAIN t : j < k => t[j][2] < t[k][2],
         \A j \in DOMAIN s : s[j][1] # r,
         \A j \in DOMAIN t : t[j][1] = r,
         NEW j \in DOMAIN (s \o t), NEW k \in DOMAIN (s \o t),
         j < k, (s \o t)[j][1] = (s \o t)[k][1]
  PROVE  (s \o t)[j][2] < (s \o t)[k][2]
<1>1. Len(s) \in Nat /\ j \in Nat /\ k \in Nat /\ \A i \in DOMAIN s : i <= Len(s)
  BY Appended
<1>2. \A i \in DOMAIN (s \o t) \ DOMAIN s :
               i > Len(s) /\ i - Len(s) \in DOMAIN t /\ (s \o t)[i] = t[i - Len(s)]
  BY Appended
<1>3. \A i \in DOMAIN s : (s \o t)[i] = s[i]
  BY Appended
<1>4. CASE j \in DOMAIN s /\ k \in DOMAIN s
  BY <1>3, <1>4
<1>5. CASE j \in DOMAIN s /\ k \notin DOMAIN s
  BY <1>2, <1>3, <1>5
<1>6. CASE j \notin DOMAIN s /\ k \in DOMAIN s
  BY <1>1, <1>2, <1>6
<1>7. CASE j \notin DOMAIN s /\ k \notin DOMAIN s
  <2>1. j - Len(s) < k - Len(s)
    BY <1>1
  <2> QED
    BY <1>2, <1>7, <2>1
<1> QED
  BY <1>4, <1>5, <1>6, <1>7

(* The empty sequence is a group of any batch.                             *)
LEMMA EmptyGroup == \A n \in Nat : <<>> \in GroupsOf(n)
<1> SUFFICES ASSUME NEW n \in Nat PROVE <<>> \in GroupsOf(n)
  OBVIOUS
<1>1. <<>> \in [1..0 -> 1..n] /\ 0 \in 0..n
  OBVIOUS
<1>2. InInputOrder(<<>>)
  BY DEF InInputOrder
<1> QED
  BY <1>1, <1>2 DEF GroupsOf

(* Filled gives message g[j] the j-th offset and leaves the others alone.  *)
LEMMA FilledResults ==
  ASSUME NEW res \in Seq(Coordinate), NEW g \in GroupsOf(Len(res)),
         NEW p \in Nat, NEW base \in Nat
  PROVE  /\ Filled(res, g, p, base) \in Seq(Coordinate)
         /\ Len(Filled(res, g, p, base)) = Len(res)
         /\ \A j \in DOMAIN g :
               Filled(res, g, p, base)[g[j]] = [partition |-> p, offset |-> base + j - 1]
         /\ \A i \in 1..Len(res) : i \notin Indices(g) => Filled(res, g, p, base)[i] = res[i]
<1> DEFINE n == Len(res)
           new == Filled(res, g, p, base)
           pos(i) == CHOOSE j \in DOMAIN g : g[j] = i
<1>0. n \in Nat
  OBVIOUS
<1>1. DOMAIN res = 1..n /\ \A i \in 1..Len(res) : res[i] \in Coordinate
  OBVIOUS
<1>2. \A j \in DOMAIN g : pos(g[j]) = j
  BY <1>0, GroupIsSequence
<1>3. \A j \in DOMAIN g : j \in Nat \ {0} /\ g[j] \in 1..n /\ g[j] \in Indices(g)
  BY <1>0, GroupIsSequence DEF Indices, Range
<1>4. \A i \in Indices(g) : \E j \in DOMAIN g : g[j] = i
  BY DEF Indices, Range
<1>5. DOMAIN new = 1..n
  BY <1>1 DEF Filled
<1>6. \A j \in DOMAIN g : new[g[j]] = [partition |-> p, offset |-> base + j - 1]
  BY <1>1, <1>2, <1>3 DEF Filled
<1>7. \A i \in 1..Len(res) : i \notin Indices(g) => new[i] = res[i]
  BY <1>1 DEF Filled
<1>8. \A i \in 1..Len(res) : new[i] \in Coordinate
  <2> SUFFICES ASSUME NEW i \in 1..n PROVE new[i] \in Coordinate
    OBVIOUS
  <2>1. CASE i \in Indices(g)
    <3>1. PICK j \in DOMAIN g : g[j] = i
      BY <1>4, <2>1
    <3>2. base + j - 1 \in Nat
      BY <1>3
    <3>3. new[i] = [partition |-> p, offset |-> base + j - 1]
      BY <1>6, <3>1
    <3> QED
      BY <3>2, <3>3 DEF Coordinate
  <2>2. CASE i \notin Indices(g)
    BY <1>1, <1>7, <2>2
  <2> QED
    BY <2>1, <2>2
<1>9. new = [i \in 1..n |-> new[i]]
  BY <1>1 DEF Filled
<1>10. new \in Seq(Coordinate) /\ Len(new) = Len(res)
  BY <1>8, <1>9
<1> QED
  BY <1>6, <1>7, <1>10
-------------------------------------------------------------------------------
(* IInv is inductive.                                                      *)

LEMMA PartitionZero == Partition \subseteq Nat /\ 0 \in Partition
  BY NumPartitionsAssumption DEF Partition

LEMMA InitInv == Init => IInv
<1> SUFFICES ASSUME Init PROVE IInv
  OBVIOUS
<1>1. TypeOK
  BY PartitionZero DEF Init, TypeOK, NoReply, Replies, NoError, NoResponse
<1>2. PcInv
  BY DEF Init, PcInv, NoReply, NoResponse
<1>3. GroupsInv
  BY EmptyGroup DEF Init, GroupsInv, Grouped, IsGrouping
<1>4. LogInv /\ OrderInv
  BY DEF Init, LogInv, OrderInv
<1> QED
  BY <1>1, <1>2, <1>3, <1>4 DEF IInv

(* A response ends a request: the steps that only answer keep IInv.        *)
LEMMA RespondStep ==
  ASSUME IInv, NEW r \in Requests, pc[r] # "done",
         NEW answer \in [code : Codes, offsets : Seq(Coordinate)],
         Respond(r, answer),
         UNCHANGED <<batch, groups, todo, cur, results, reply, inflight, log>>
  PROVE  IInv'
<1>1. TypeOK'
  BY DEF IInv, TypeOK, Respond
<1>2. answer.code # "none"
  BY DEF Codes, ErrorCodes
<1>3. PcInv'
  BY <1>2 DEF IInv, TypeOK, PcInv, Respond
<1>4. GroupsInv'
  <2>1. \A q \in Requests : Grouped(q)' <=> Grouped(q)
    BY DEF Grouped
  <2> QED
    BY <2>1 DEF IInv, TypeOK, GroupsInv, Respond
<1>5. \A q \in Requests, p \in Partition : Taken(q, p) => Taken(q, p)'
  BY DEF IInv, TypeOK, Taken, Respond
<1>6. LogInv'
  BY <1>5 DEF IInv, TypeOK, LogInv, Respond
<1>7. OrderInv'
  BY DEF IInv, OrderInv, Respond
<1> QED
  BY <1>1, <1>3, <1>4, <1>6, <1>7 DEF IInv

LEMMA FailureStep ==
  ASSUME IInv, NEW r \in Requests, pc[r] # "done", NEW err,
         Respond(r, Failure(err)),
         UNCHANGED <<batch, groups, todo, cur, results, reply, inflight, log>>
  PROVE  IInv'
<1>1. Failure(err) \in [code : Codes, offsets : Seq(Coordinate)]
  BY ClassifyIsErrorCode DEF Failure, Codes
<1> QED
  BY <1>1, RespondStep

LEMMA AcceptStep ==
  ASSUME IInv, NEW r \in Requests, AcceptRequest(r)
  PROVE  IInv'
<1> USE DEF AcceptRequest
<1>1. PICK ms \in AcceptedBatches : batch' = [batch EXCEPT ![r] = ms]
  OBVIOUS
<1>2. ms \in Seq(WireMessage) /\ ms # <<>> /\ Len(ms) \in Nat
  BY AcceptedBatchIsNonEmpty
<1>3. TypeOK'
  BY <1>1, <1>2 DEF IInv, TypeOK
<1>4. PcInv'
  BY <1>1, <1>2 DEF IInv, TypeOK, PcInv
<1>5. batch[r] = <<>>
  BY DEF IInv, PcInv
<1>6. \A p \in Partition : groups[r][p] = <<>>
  <2> TAKE p \in Partition
  <2>1. groups[r][p] \in GroupsOf(0)
    BY <1>5 DEF IInv, GroupsInv
  <2>2. groups[r][p] \in Seq(1..0)
    BY <2>1, GroupIsSequence
  <2> QED
    BY <2>2
<1>7. groups[r] = [p \in Partition |-> <<>>]
  BY <1>6 DEF IInv, TypeOK
<1>8. GroupsInv'
  <2>1. \A q \in Requests \ {r} : batch'[q] = batch[q] /\ pc'[q] = pc[q] /\ (Grouped(q)' <=> Grouped(q))
    BY <1>1 DEF IInv, TypeOK, Grouped
  <2>2. batch'[r] = ms /\ pc'[r] = "metadata"
    BY <1>1 DEF IInv, TypeOK
  <2>3. groups'[r] \in [Partition -> GroupsOf(Len(batch'[r]))]
    BY <1>2, <1>7, <2>2, EmptyGroup
  <2> QED
    BY <1>7, <2>1, <2>2, <2>3 DEF IInv, GroupsInv
<1>9. \A q \in Requests, p \in Partition : Taken(q, p) => Taken(q, p)'
  BY DEF IInv, TypeOK, Taken
<1>10. LogInv'
  BY <1>9 DEF IInv, TypeOK, LogInv
<1>11. OrderInv'
  BY DEF IInv, OrderInv
<1> QED
  BY <1>3, <1>4, <1>8, <1>10, <1>11 DEF IInv

LEMMA MetadataStep ==
  ASSUME IInv, NEW r \in Requests, Metadata(r)
  PROVE  IInv'
<1> USE DEF Metadata
<1>1. PICK gs \in [Partition -> GroupsOf(Len(batch[r]))] :
          /\ IsGrouping(gs, batch[r])
          /\ groups' = [groups EXCEPT ![r] = gs]
          /\ todo' = [todo EXCEPT ![r] = {p \in Partition : gs[p] # <<>>}]
  OBVIOUS
<1>2. Len(batch[r]) \in Nat
  BY DEF IInv, TypeOK
<1>3. gs \in [Partition -> Seq(Nat)]
  BY <1>2, GroupIsSequence
<1>4. ZeroResults(Len(batch[r])) \in Seq(Coordinate) /\ Len(ZeroResults(Len(batch[r]))) = Len(batch[r])
  BY <1>2 DEF ZeroResults, Coordinate
<1>5. TypeOK'
  BY <1>1, <1>3, <1>4 DEF IInv, TypeOK
<1>6. PcInv'
  BY <1>1, <1>4 DEF IInv, TypeOK, PcInv
<1>7. GroupsInv'
  <2>1. \A q \in Requests \ {r} : groups'[q] = groups[q] /\ pc'[q] = pc[q] /\ (Grouped(q)' <=> Grouped(q))
    BY <1>1 DEF IInv, TypeOK, Grouped
  <2>2. groups'[r] = gs
    BY <1>1 DEF IInv, TypeOK
  <2>3. Grouped(r)'
    BY <1>1, <2>2 DEF Grouped
  <2> QED
    BY <1>1, <2>1, <2>2, <2>3 DEF IInv, GroupsInv
<1>8. \A p \in Partition : ~Taken(r, p)
  BY DEF Taken
<1>9. \A q \in Requests \ {r}, p \in Partition : Taken(q, p) => Taken(q, p)'
  BY <1>1 DEF IInv, TypeOK, Taken
<1>10. LogInv'
  <2>1. \A p \in Partition : <<r, p>> \notin inflight /\ \A j \in DOMAIN log[p] : log[p][j][1] # r
    BY <1>8 DEF IInv, LogInv
  <2>2. \A q \in Requests \ {r} : groups'[q] = groups[q]
    BY <1>1 DEF IInv, TypeOK
  <2> QED
    BY <1>9, <2>1, <2>2 DEF IInv, LogInv
<1>11. OrderInv'
  BY DEF IInv, OrderInv
<1> QED
  BY <1>5, <1>6, <1>7, <1>10, <1>11 DEF IInv

LEMMA SendStep ==
  ASSUME IInv, NEW r \in Requests, SendProduce(r)
  PROVE  IInv'
<1> USE DEF SendProduce
<1>1. PICK p \in todo[r] :
          /\ todo' = [todo EXCEPT ![r] = @ \ {p}]
          /\ cur' = [cur EXCEPT ![r] = p]
          /\ inflight' = inflight \cup {<<r, p>>}
  OBVIOUS
<1>2. TypeOK'
  BY <1>1 DEF IInv, TypeOK, NoReply, Replies, NoError
<1>3. PcInv'
  BY <1>1 DEF IInv, TypeOK, PcInv, NoReply
<1>4. GroupsInv'
  <2>1. \A q \in Requests : Grouped(q)' <=> Grouped(q)
    BY DEF Grouped
  <2> QED
    BY <2>1 DEF IInv, TypeOK, GroupsInv
<1>5. ~Taken(r, p)
  BY DEF Taken
<1>5a. p \notin todo'[r] /\ pc'[r] = "await"
  BY <1>1 DEF IInv, TypeOK
<1>5b. Taken(r, p)'
  BY <1>5a DEF Taken
<1>6. \A q \in Requests, s \in Partition : Taken(q, s) => Taken(q, s)'
  BY <1>1 DEF IInv, TypeOK, Taken
<1>7. LogInv'
  BY <1>1, <1>5, <1>5b, <1>6 DEF IInv, TypeOK, LogInv
<1>8. OrderInv'
  BY DEF IInv, OrderInv
<1> QED
  BY <1>2, <1>3, <1>4, <1>7, <1>8 DEF IInv

(* A log, and the records of a group, are sequences of the same kind.      *)
LEMMA AppendedGroup ==
  ASSUME IInv, NEW r \in Requests, NEW p \in Partition
  PROVE  LET new == [j \in DOMAIN groups[r][p] |-> <<r, groups[r][p][j]>>]
         IN  \E S : log[p] \in Seq(S) /\ new \in Seq(S)
<1> DEFINE g == groups[r][p]
           new == [j \in DOMAIN g |-> <<r, g[j]>>]
<1>1. Len(batch[r]) \in Nat /\ g \in GroupsOf(Len(batch[r]))
  BY DEF IInv, TypeOK, GroupsInv
<1>2. DOMAIN g = 1..Len(g) /\ Len(g) \in Nat /\ \A j \in DOMAIN g : g[j] \in Nat
  BY <1>1, GroupIsSequence
<1>3. new \in Seq(Requests \X Nat)
  BY <1>2
<1>4. log[p] \in Seq(Requests \X Nat)
  BY DEF IInv, TypeOK
<1> QED
  BY <1>3, <1>4

(* The only step that writes a log.  The group of r and p is not recorded  *)
(* yet, for it is in flight, so appending it keeps OrderInv.               *)
LEMMA AppendStep ==
  ASSUME IInv, NEW r \in Requests, NEW p \in Partition, BrokerAppend(r, p)
  PROVE  IInv'
<1> DEFINE g == groups[r][p]
           new == [j \in DOMAIN g |-> <<r, g[j]>>]
<1>1. /\ <<r, p>> \in inflight
      /\ inflight' = inflight \ {<<r, p>>}
      /\ log' = [log EXCEPT ![p] = @ \o new]
      /\ Answered(r, p, [state |-> "stored", base |-> Len(log[p]), error |-> NoError])
      /\ UNCHANGED <<pc, batch, groups, todo, cur, results, resp>>
  BY DEF BrokerAppend
<1>2. Len(batch[r]) \in Nat /\ g \in GroupsOf(Len(batch[r]))
  BY DEF IInv, TypeOK, GroupsInv
<1>3. /\ DOMAIN g = 1..Len(g) /\ Len(g) \in Nat
      /\ \A j \in DOMAIN g : g[j] \in Nat
      /\ \A j, k \in DOMAIN g : j < k => g[j] < g[k]
  BY <1>2, GroupIsSequence
<1>4. new \in Seq(Requests \X Nat) /\ Len(new) = Len(g)
  BY <1>3
<1>5. log[p] \in Seq(Requests \X Nat) /\ log[p] \o new \in Seq(Requests \X Nat)
  BY <1>4 DEF IInv, TypeOK
<1>6. /\ log'[p] = log[p] \o new
      /\ \A q \in Partition \ {p} : log'[q] = log[q]
  BY <1>1 DEF IInv, TypeOK
<1> HIDE DEF new
<1>a. PICK S : log[p] \in Seq(S) /\ new \in Seq(S)
  BY AppendedGroup DEF new
<1>7. /\ Len(log[p]) \in Nat
      /\ DOMAIN log[p] = 1..Len(log[p])
      /\ DOMAIN log'[p] = 1..(Len(log[p]) + Len(g))
  <2>1. /\ Len(log[p]) \in Nat /\ DOMAIN log[p] = 1..Len(log[p])
        /\ DOMAIN (log[p] \o new) = 1..(Len(log[p]) + Len(new))
    BY <1>a, Appended
  <2> QED
    BY <2>1, <1>4, <1>6
<1>8. /\ \A j \in DOMAIN log[p] : j \in DOMAIN log'[p] /\ log'[p][j] = log[p][j]
      /\ \A j \in DOMAIN log'[p] \ DOMAIN log[p] :
            /\ j > Len(log[p])
            /\ j - Len(log[p]) \in DOMAIN g
            /\ log'[p][j] = <<r, g[j - Len(log[p])]>>
  <2>1. DOMAIN new = DOMAIN g /\ \A j \in DOMAIN g : new[j] = <<r, g[j]>>
    BY DEF new
  <2>2. /\ DOMAIN new = 1..Len(new)
        /\ \A j \in DOMAIN log[p] :
              j \in DOMAIN (log[p] \o new) /\ (log[p] \o new)[j] = log[p][j]
        /\ \A j \in DOMAIN (log[p] \o new) \ DOMAIN log[p] :
              /\ j > Len(log[p]) /\ j - Len(log[p]) \in DOMAIN new
              /\ (log[p] \o new)[j] = new[j - Len(log[p])]
    BY <1>a, Appended
  <2> QED
    BY <2>1, <2>2, <1>6
<1>9. TypeOK'
  <2>1. log' \in [Partition -> Seq(Requests \X Nat)]
    BY <1>1, <1>5 DEF IInv, TypeOK
  <2>2. reply' \in [Requests -> Replies]
    BY <1>1, <1>7 DEF IInv, TypeOK, Answered, Replies, NoError
  <2> QED
    BY <1>1, <2>1, <2>2 DEF IInv, TypeOK
<1>10. PcInv'
  BY <1>1 DEF IInv, TypeOK, PcInv, Answered
<1>11. GroupsInv'
  <2>1. \A q \in Requests : Grouped(q)' <=> Grouped(q)
    BY <1>1 DEF Grouped
  <2> QED
    BY <1>1, <2>1 DEF IInv, GroupsInv
<1>12. \A q \in Requests, s \in Partition : Taken(q, s) <=> Taken(q, s)'
  BY <1>1 DEF Taken
<1>13. Taken(r, p) /\ \A j \in DOMAIN log[p] : log[p][j][1] # r
  BY <1>1 DEF IInv, LogInv
<1>14. LogInv'
  <2>1. \A q \in Requests, s \in Partition : <<q, s>> \in inflight' => Taken(q, s)'
    BY <1>1, <1>12 DEF IInv, LogInv
  <2>2. ASSUME NEW q \in Requests, NEW s \in Partition, NEW j \in DOMAIN log'[s], log'[s][j][1] = q
        PROVE  log'[s][j][2] \in Indices(groups'[q][s]) /\ <<q, s>> \notin inflight' /\ Taken(q, s)'
    <3>1. CASE s = p /\ j \notin DOMAIN log[p]
      <4>1. q = r /\ log'[s][j][2] \in Indices(g)
        BY <1>8, <2>2, <3>1 DEF Indices, Range
      <4> QED
        BY <1>1, <1>12, <1>13, <3>1, <4>1
    <3>2. CASE s # p \/ j \in DOMAIN log[p]
      <4>1. j \in DOMAIN log[s] /\ log'[s][j] = log[s][j]
        BY <1>6, <1>8, <3>2
      <4> QED
        BY <1>1, <1>12, <2>2, <4>1 DEF IInv, LogInv
    <3> QED
      BY <3>1, <3>2
  <2> QED
    BY <2>1, <2>2 DEF LogInv
<1>15. OrderInv'
  <2> SUFFICES ASSUME NEW s \in Partition, NEW j \in DOMAIN log'[s], NEW k \in DOMAIN log'[s],
                      j < k, log'[s][j][1] = log'[s][k][1]
               PROVE  log'[s][j][2] < log'[s][k][2]
    BY DEF OrderInv
  <2>1. CASE s # p
    BY <1>6, <2>1 DEF IInv, OrderInv
  <2>2. CASE s = p
    <3>1. \A i, l \in DOMAIN log[p] : i < l /\ log[p][i][1] = log[p][l][1] => log[p][i][2] < log[p][l][2]
      BY DEF IInv, OrderInv
    <3>2. /\ \A i, l \in DOMAIN new : i < l => new[i][2] < new[l][2]
          /\ \A i \in DOMAIN new : new[i][1] = r
      BY <1>3 DEF new
    <3>3. /\ j \in DOMAIN (log[p] \o new) /\ k \in DOMAIN (log[p] \o new)
          /\ (log[p] \o new)[j][1] = (log[p] \o new)[k][1]
      BY <1>6, <2>2
    <3>4. (log[p] \o new)[j][2] < (log[p] \o new)[k][2]
      BY <1>a, <1>13, <3>1, <3>2, <3>3, AppendedOrder, Zenon
    <3> QED
      BY <1>6, <2>2, <3>4
  <2> QED
    BY <2>1, <2>2
<1> QED
  BY <1>9, <1>10, <1>11, <1>14, <1>15 DEF IInv

LEMMA RefuseStep ==
  ASSUME IInv, NEW r \in Requests, NEW p \in Partition, BrokerRefuse(r, p)
  PROVE  IInv'
<1> USE DEF BrokerRefuse
<1>1. PICK e \in {{"upstream"}, TopicNotFound} :
          Answered(r, p, [state |-> "refused", base |-> 0, error |-> e])
  OBVIOUS
<1>2. reply' \in [Requests -> Replies]
  BY <1>1 DEF IInv, TypeOK, Answered, Replies, TopicNotFound, Sentinels
<1>3. TypeOK'
  BY <1>2 DEF IInv, TypeOK
<1>4. PcInv'
  BY <1>1 DEF IInv, TypeOK, PcInv, Answered
<1>5. GroupsInv'
  <2>1. \A q \in Requests : Grouped(q)' <=> Grouped(q)
    BY DEF Grouped
  <2> QED
    BY <2>1 DEF IInv, GroupsInv
<1>6. \A q \in Requests, s \in Partition : Taken(q, s) <=> Taken(q, s)'
  BY DEF Taken
<1>7. LogInv' /\ OrderInv'
  BY <1>6 DEF IInv, LogInv, OrderInv
<1> QED
  BY <1>3, <1>4, <1>5, <1>7 DEF IInv

(* Reading offsets changes only the results.                               *)
LEMMA RecordStep ==
  ASSUME IInv, NEW r \in Requests, pc[r] = "await", NEW base \in Nat, Record(r, base)
  PROVE  IInv'
<1> DEFINE n == Len(batch[r])
           new == Filled(results[r], groups[r][cur[r]], cur[r], base)
<1>1. /\ n \in Nat /\ groups[r][cur[r]] \in GroupsOf(n)
      /\ results[r] \in Seq(Coordinate) /\ Len(results[r]) = n
      /\ cur[r] \in Nat
  <2>1. batch[r] \in Seq(WireMessage) /\ cur[r] \in Partition /\ results[r] \in Seq(Coordinate)
    BY DEF IInv, TypeOK
  <2>2. groups[r] \in [Partition -> GroupsOf(n)] /\ Len(results[r]) = n
    BY DEF IInv, PcInv, GroupsInv
  <2>3. n \in Nat
    BY <2>1
  <2> QED
    BY <2>1, <2>2, <2>3, PartitionZero
<1> HIDE DEF n
<1>2. new \in Seq(Coordinate) /\ Len(new) = n
  <2>1. base \in Nat
    OBVIOUS
  <2> QED
    BY <1>1, <2>1, FilledResults
<1>3. /\ results' = [results EXCEPT ![r] = new]
      /\ pc' = [pc EXCEPT ![r] = "produce"]
      /\ UNCHANGED <<batch, groups, todo, cur, reply, resp, inflight, log>>
  BY DEF Record
<1>4. TypeOK'
  BY <1>2, <1>3 DEF IInv, TypeOK
<1>5. PcInv'
  BY <1>2, <1>3 DEF IInv, TypeOK, PcInv, n
<1>6. GroupsInv'
  <2>1. \A q \in Requests : Grouped(q)' <=> Grouped(q)
    BY <1>3 DEF Grouped
  <2> QED
    BY <1>3, <2>1 DEF IInv, TypeOK, GroupsInv
<1>7. \A q \in Requests, s \in Partition : Taken(q, s) => Taken(q, s)'
  BY <1>3 DEF IInv, TypeOK, Taken
<1>8. LogInv' /\ OrderInv'
  BY <1>3, <1>7 DEF IInv, LogInv, OrderInv
<1> QED
  BY <1>4, <1>5, <1>6, <1>8 DEF IInv

LEMMA StutterStep == IInv /\ UNCHANGED vars => IInv'
<1> SUFFICES ASSUME IInv, UNCHANGED vars PROVE IInv'
  OBVIOUS
<1> USE DEF vars
<1>1. TypeOK' /\ PcInv'
  BY DEF IInv, TypeOK, PcInv
<1>2. \A q \in Requests : Grouped(q)' <=> Grouped(q)
  BY DEF Grouped
<1>3. \A q \in Requests, s \in Partition : Taken(q, s) <=> Taken(q, s)'
  BY DEF Taken
<1>4. GroupsInv' /\ LogInv' /\ OrderInv'
  BY <1>2, <1>3 DEF IInv, GroupsInv, LogInv, OrderInv
<1> QED
  BY <1>1, <1>4 DEF IInv

LEMMA NextInv == IInv /\ [Next]_vars => IInv'
<1> SUFFICES ASSUME IInv, [Next]_vars PROVE IInv'
  OBVIOUS
<1>1. ASSUME NEW r \in Requests, RejectRequest(r) PROVE IInv'
  BY <1>1, FailureStep DEF RejectRequest
<1>2. ASSUME NEW r \in Requests, AcceptRequest(r) PROVE IInv'
  BY <1>2, AcceptStep
<1>3. ASSUME NEW r \in Requests, Serve(r) PROVE IInv'
  <2>1. CASE Metadata(r)
    BY <2>1, MetadataStep
  <2>2. CASE MetadataFails(r)
    BY <2>2, FailureStep DEF MetadataFails, Abort
  <2>3. CASE SendProduce(r)
    BY <2>3, SendStep
  <2>4. CASE ReceiveOffsets(r)
    <3>1. reply[r].base \in Nat
      BY DEF IInv, TypeOK, Replies
    <3> QED
      BY <2>4, <3>1, RecordStep DEF ReceiveOffsets
  <2>5. CASE ReceiveNothing(r)
    BY <2>5, RecordStep DEF ReceiveNothing
  <2>6. CASE ReceiveError(r)
    BY <2>6, FailureStep DEF ReceiveError, Abort
  <2>7. CASE CallFails(r)
    BY <2>7, FailureStep DEF CallFails, Abort
  <2>8. CASE Finish(r)
    <3>1. Published(results[r]) \in [code : Codes, offsets : Seq(Coordinate)]
      BY DEF IInv, TypeOK, Published, Codes
    <3> QED
      BY <2>8, <3>1, RespondStep DEF Finish
  <2> QED
    BY <1>3, <2>1, <2>2, <2>3, <2>4, <2>5, <2>6, <2>7, <2>8 DEF Serve
<1>4. ASSUME NEW r \in Requests, NEW p \in Partition, BrokerAppend(r, p) PROVE IInv'
  BY <1>4, AppendStep
<1>5. ASSUME NEW r \in Requests, NEW p \in Partition, BrokerRefuse(r, p) PROVE IInv'
  BY <1>5, RefuseStep
<1>6. CASE UNCHANGED vars
  BY <1>6, StutterStep
<1> QED
  BY <1>1, <1>2, <1>3, <1>4, <1>5, <1>6 DEF Next

LEMMA Invariance == Spec => []IInv
<1> QED
  BY InitInv, NextInv, PTL DEF Spec

-------------------------------------------------------------------------------
(* What follows from IInv.                                                 *)

(* Every variable keeps its type: whatever the map order, the replies and  *)
(* the failures, the coordinates gathered are natural numbers.             *)
THEOREM TypeCorrect == Spec => []TypeOK
<1>1. IInv => TypeOK
  BY DEF IInv
<1> QED
  BY <1>1, Invariance, PTL

(* A recorded index is one of the batch, which is grouped.                 *)
LEMMA RecordedIsGrouped ==
  ASSUME IInv, NEW r \in Requests, NEW p \in Partition, NEW i \in Indices(groups[r][p])
  PROVE  Grouped(r) /\ i \in DOMAIN batch[r] /\ i \in 1..Len(batch[r])
<1>1. batch[r] \in Seq(WireMessage)
  BY DEF IInv, TypeOK
<1>2. /\ Len(batch[r]) \in Nat /\ DOMAIN batch[r] = 1..Len(batch[r])
      /\ groups[r][p] \in GroupsOf(Len(batch[r]))
  BY <1>1 DEF IInv, GroupsInv
<1>3. PICK l \in DOMAIN groups[r][p] : groups[r][p][l] = i
  BY DEF Indices, Range
<1>4. i \in 1..Len(batch[r])
  BY <1>2, <1>3, GroupIsSequence
<1>5. groups[r] # [s \in Partition |-> <<>>]
  BY <1>3
<1> QED
  BY <1>2, <1>4, <1>5 DEF IInv, GroupsInv

(* Records of one request, seen from two places of the logs.               *)
LEMMA RecordsOfRequest ==
  ASSUME IInv, NEW p \in Partition, NEW q \in Partition,
         NEW j \in DOMAIN log[p], NEW k \in DOMAIN log[q], log[p][j][1] = log[q][k][1]
  PROVE  /\ j \in Nat /\ k \in Nat
         /\ log[p][j][1] \in Requests
         /\ log[p][j][2] \in Nat /\ log[q][k][2] \in Nat
         /\ log[p][j] = <<log[p][j][1], log[p][j][2]>>
         /\ log[q][k] = <<log[q][k][1], log[q][k][2]>>
         /\ log[p][j][2] \in Indices(groups[log[p][j][1]][p])
         /\ log[q][k][2] \in Indices(groups[log[p][j][1]][q])
<1>1. log[p] \in Seq(Requests \X Nat) /\ log[q] \in Seq(Requests \X Nat)
  BY DEF IInv, TypeOK
<1>2. j \in Nat /\ k \in Nat /\ log[p][j] \in Requests \X Nat /\ log[q][k] \in Requests \X Nat
  BY <1>1
<1>3. \A r \in Requests : log[p][j][1] = r =>
          log[p][j][2] \in Indices(groups[r][p]) /\ log[q][k][2] \in Indices(groups[r][q])
  BY DEF IInv, LogInv
<1> QED
  BY <1>2, <1>3

(* No message of a publish request is recorded twice by the sync producer. *)
THEOREM AtMostOnce == Spec => []RecordedAtMostOnce
<1>1. IInv => RecordedAtMostOnce
  <2> SUFFICES ASSUME IInv, NEW p \in Partition, NEW q \in Partition,
                      NEW j \in DOMAIN log[p], NEW k \in DOMAIN log[q], log[p][j] = log[q][k]
               PROVE  p = q /\ j = k
    BY DEF RecordedAtMostOnce
  <2> DEFINE r == log[p][j][1]
             i == log[p][j][2]
  <2>1. /\ r \in Requests /\ i \in Nat /\ j \in Nat /\ k \in Nat
        /\ i \in Indices(groups[r][p]) /\ i \in Indices(groups[r][q])
    BY RecordsOfRequest
  <2>2. Grouped(r) /\ i \in DOMAIN batch[r]
    BY <2>1, RecordedIsGrouped
  <2>3. p = q
    BY <2>1, <2>2 DEF Grouped, IsGrouping
  <2> QED
    BY <2>1, <2>3 DEF IInv, OrderInv
<1> QED
  BY <1>1, Invariance, PTL

(* Messages of a batch that share a key are in one partition, in order.    *)
THEOREM KeyOrder == Spec => []PerKeyOrder
<1>1. IInv => PerKeyOrder
  <2> SUFFICES ASSUME IInv, NEW p \in Partition, NEW q \in Partition,
                      NEW j \in DOMAIN log[p], NEW k \in DOMAIN log[q]
               PROVE  LET r == log[p][j][1]
                      IN  /\ r = log[q][k][1]
                          /\ log[p][j][2] < log[q][k][2]
                          /\ batch[r][log[p][j][2]].key = batch[r][log[q][k][2]].key
                          /\ batch[r][log[p][j][2]].key # NoKey
                          => p = q /\ j < k
    BY DEF PerKeyOrder
  <2> SUFFICES ASSUME log[p][j][1] = log[q][k][1],
                      log[p][j][2] < log[q][k][2],
                      batch[log[p][j][1]][log[p][j][2]].key = batch[log[p][j][1]][log[q][k][2]].key,
                      batch[log[p][j][1]][log[p][j][2]].key # NoKey
               PROVE  p = q /\ j < k
    OBVIOUS
  <2> DEFINE r == log[p][j][1]
             i == log[p][j][2]
             l == log[q][k][2]
  <2>1. /\ r \in Requests /\ i \in Nat /\ l \in Nat /\ j \in Nat /\ k \in Nat
        /\ i \in Indices(groups[r][p]) /\ l \in Indices(groups[r][q])
    BY RecordsOfRequest
  <2>2. Grouped(r) /\ i \in DOMAIN batch[r] /\ l \in DOMAIN batch[r]
    BY <2>1, RecordedIsGrouped
  <2>3. batch[r][i].key \in Keys
    <3>1. batch[r] \in Seq(WireMessage)
      BY <2>1 DEF IInv, TypeOK
    <3>2. batch[r][i] \in WireMessage
      BY <2>2, <3>1
    <3>3. batch[r][i].key \in Keys \cup {NoKey}
      BY <3>2 DEF WireMessage
    <3> QED
      BY <3>3
  <2>4. Hash[batch[r][i].key] \in Partition
    BY <2>3, HashAssumption
  <2>5. p = Hash[batch[r][i].key] /\ q = Hash[batch[r][i].key]
    <3> DEFINE h == Hash[batch[r][i].key]
    <3> HIDE DEF r, i, l
    <3>1. i \in Indices(groups[r][h]) /\ l \in Indices(groups[r][h])
      BY <2>2 DEF Grouped, IsGrouping, r, i, l
    <3>2. /\ \A p1, q1 \in Partition : i \in Indices(groups[r][p1]) \cap Indices(groups[r][q1]) => p1 = q1
          /\ \A p1, q1 \in Partition : l \in Indices(groups[r][p1]) \cap Indices(groups[r][q1]) => p1 = q1
      BY <2>2 DEF Grouped, IsGrouping
    <3> HIDE DEF h
    <3> QED
      BY <2>1, <2>4, <3>1, <3>2 DEF h
  <2>6. p = q
    BY <2>5
  <2>7. ~(k < j) /\ k # j
    BY <2>1, <2>6 DEF IInv, OrderInv
  <2> QED
    BY <2>1, <2>6, <2>7
<1> QED
  BY <1>1, Invariance, PTL
-------------------------------------------------------------------------------
(* Offsets, when the broker acknowledges.                                  *)

(* A log only grows.                                                       *)
LogGrows ==
    \A p \in Partition : \A j \in DOMAIN log[p] :
        j \in DOMAIN log'[p] /\ log'[p][j] = log[p][j]

LEMMA LogOnlyGrows == IInv /\ [Next]_vars => LogGrows
<1> SUFFICES ASSUME IInv, [Next]_vars PROVE LogGrows
  OBVIOUS
<1>1. CASE UNCHANGED log
  BY <1>1 DEF LogGrows
<1>2. ASSUME NEW r \in Requests, NEW p \in Partition, BrokerAppend(r, p) PROVE LogGrows
  <2> DEFINE new == [j \in DOMAIN groups[r][p] |-> <<r, groups[r][p][j]>>]
  <2>1. log' = [log EXCEPT ![p] = @ \o new]
    BY <1>2 DEF BrokerAppend
  <2>2. PICK S : log[p] \in Seq(S) /\ new \in Seq(S)
    BY AppendedGroup
  <2> HIDE DEF new
  <2>3. \A j \in DOMAIN log[p] : j \in DOMAIN (log[p] \o new) /\ (log[p] \o new)[j] = log[p][j]
    BY <2>2, Appended
  <2>4. log'[p] = log[p] \o new /\ \A q \in Partition \ {p} : log'[q] = log[q]
    BY <2>1 DEF IInv, TypeOK
  <2> QED
    BY <2>3, <2>4 DEF LogGrows
<1>3. UNCHANGED log \/ \E r \in Requests, p \in Partition : BrokerAppend(r, p)
  BY DEF Next, vars, RejectRequest, AcceptRequest, Serve, Metadata, MetadataFails, SendProduce,
         ReceiveOffsets, ReceiveNothing, ReceiveError, CallFails, Finish, Record, BrokerRefuse
<1> QED
  BY <1>1, <1>2, <1>3

LEMMA LocatedStays ==
  ASSUME LogGrows, NEW r, NEW i, NEW at, Located(log, r, i, at)
  PROVE  Located(log', r, i, at)
  BY DEF LogGrows, Located

(* A step that leaves what the producer holds for q alone keeps it located. *)
LEMMA Unmoved ==
  ASSUME LogGrows, NEW q \in Requests, ResultsLocated(q), ReplyLocated(q), cur[q] \in Partition,
         pc'[q] = pc[q], groups'[q] = groups[q], todo'[q] = todo[q],
         cur'[q] = cur[q], results'[q] = results[q], reply'[q] = reply[q]
  PROVE  ResultsLocated(q)' /\ ReplyLocated(q)'
<1>1. ResultsLocated(q)'
  BY LocatedStays DEF ResultsLocated, Awaits
<1>2. ReplyLocated(q)'
  BY DEF ReplyLocated, LogGrows
<1> QED
  BY <1>1, <1>2

(* A request that is not producing has nothing to locate.                  *)
LEMMA NotProducing ==
  ASSUME NEW q \in Requests, pc'[q] \notin {"produce", "await"}
  PROVE  ResultsLocated(q)' /\ ReplyLocated(q)'
  BY DEF ResultsLocated, ReplyLocated
(* Appending the group a request waits for puts message g[j] at base + j.  *)
LEMMA AppendLocates ==
  ASSUME IInv, NEW r \in Requests, NEW p \in Partition, BrokerAppend(r, p), Awaits(r, p)
  PROVE  ReplyLocated(r)'
<1> DEFINE g == groups[r][p]
           new == [j \in DOMAIN g |-> <<r, g[j]>>]
<1>1. PICK S : log[p] \in Seq(S) /\ new \in Seq(S)
  BY AppendedGroup
<1>2. DOMAIN new = DOMAIN g /\ \A j \in DOMAIN g : new[j] = <<r, g[j]>>
  OBVIOUS
<1>3. log' = [log EXCEPT ![p] = @ \o new]
  BY DEF BrokerAppend
<1> HIDE DEF new
<1>4. log'[p] = log[p] \o new
  BY <1>3 DEF IInv, TypeOK
<1>5. \A j \in DOMAIN new : Len(log[p]) + j \in DOMAIN (log[p] \o new)
                           /\ (log[p] \o new)[Len(log[p]) + j] = new[j]
  BY <1>1, Appended
<1>6. reply'[r].base = Len(log[p]) /\ cur'[r] = p /\ groups'[r] = groups[r]
  BY DEF IInv, TypeOK, BrokerAppend, Answered, Awaits
<1> QED
  BY <1>2, <1>4, <1>5, <1>6 DEF ReplyLocated

(* Reading the offsets of the group of cur[r] locates its messages and     *)
(* moves no other coordinate, for groups have no index in common.          *)
LEMMA ReadLocates ==
  ASSUME IInv, LogGrows, NEW r \in Requests, ReceiveOffsets(r), ResultsLocated(r), ReplyLocated(r)
  PROVE  ResultsLocated(r)' /\ ReplyLocated(r)'
<1> DEFINE c == cur[r]
           g == groups[r][c]
           base == reply[r].base
<1>1. /\ results' = [results EXCEPT ![r] = Filled(results[r], g, c, base)]
      /\ pc' = [pc EXCEPT ![r] = "produce"]
      /\ UNCHANGED <<groups, todo, log>>
      /\ pc[r] = "await" /\ reply[r].state = "stored"
  BY DEF ReceiveOffsets, Record
<1>2. /\ c \in Partition /\ c \in Nat /\ base \in Nat
      /\ results[r] \in Seq(Coordinate) /\ Len(results[r]) = Len(batch[r])
      /\ g \in GroupsOf(Len(results[r]))
  <2>1. cur[r] \in Partition /\ reply[r] \in Replies /\ results[r] \in Seq(Coordinate)
    BY DEF IInv, TypeOK
  <2>2. groups[r] \in [Partition -> GroupsOf(Len(batch[r]))] /\ Len(results[r]) = Len(batch[r])
    BY <1>1 DEF IInv, PcInv, GroupsInv
  <2>3. reply[r].base \in Nat
    BY <2>1 DEF Replies
  <2> QED
    BY <2>1, <2>2, <2>3, PartitionZero
<1>3. results'[r] = Filled(results[r], g, c, base) /\ pc'[r] = "produce"
  BY <1>1 DEF IInv, TypeOK
<1>4. /\ \A j \in DOMAIN g : results'[r][g[j]] = [partition |-> c, offset |-> base + j - 1]
      /\ \A i \in 1..Len(results[r]) : i \notin Indices(g) => results'[r][i] = results[r][i]
  BY <1>2, <1>3, FilledResults
<1>5. ASSUME NEW i \in Indices(g) PROVE Located(log', r, i, results'[r][i])
  <2>1. PICK j \in DOMAIN g : g[j] = i
    BY DEF Indices, Range
  <2>2. results'[r][i] = [partition |-> c, offset |-> base + j - 1]
    BY <1>4, <2>1
  <2>3. j \in Nat
    BY <1>2, GroupIsSequence
  <2>4. base + j - 1 + 1 = base + j
    BY <1>2, <2>3
  <2>5. base + j \in DOMAIN log[c] /\ log[c][base + j] = <<r, i>>
    BY <1>1, <2>1 DEF ReplyLocated
  <2>6. results'[r][i].partition = c /\ results'[r][i].offset + 1 = base + j
    BY <2>2, <2>4
  <2>7. log'[c] = log[c]
    BY <1>1
  <2> QED
    BY <1>2, <2>5, <2>6, <2>7 DEF Located
<1>6. ASSUME NEW q \in Partition, q # c, q \notin todo[r], NEW i \in Indices(groups[r][q])
      PROVE  Located(log', r, i, results'[r][i])
  <2>1. Grouped(r) /\ i \in DOMAIN batch[r] /\ i \in 1..Len(results[r])
    BY <1>2, RecordedIsGrouped
  <2>2. i \notin Indices(g)
    BY <1>2, <1>6, <2>1 DEF Grouped, IsGrouping
  <2>3. Located(log, r, i, results[r][i])
    BY <1>1, <1>6 DEF ResultsLocated, Awaits
  <2> QED
    BY <1>1, <1>4, <2>1, <2>2, <2>3
<1>7. ResultsLocated(r)'
  BY <1>1, <1>5, <1>6 DEF ResultsLocated
<1>8. ReplyLocated(r)'
  BY <1>3 DEF ReplyLocated
<1> QED
  BY <1>7, <1>8

LEMMA OffsetStep ==
  ASSUME Acks # "none", IInv, OffsetInv, [Next]_vars
  PROVE  OffsetInv'
<1>0. LogGrows
  BY LogOnlyGrows
<1> SUFFICES ASSUME NEW q \in Requests PROVE ResultsLocated(q)' /\ ReplyLocated(q)'
  BY DEF OffsetInv
<1> DEFINE Same == /\ pc'[q] = pc[q] /\ groups'[q] = groups[q] /\ todo'[q] = todo[q]
                   /\ cur'[q] = cur[q] /\ results'[q] = results[q] /\ reply'[q] = reply[q]
           Goal == ResultsLocated(q)' /\ ReplyLocated(q)'
<1>1. Same => Goal
  <2>1. ResultsLocated(q) /\ ReplyLocated(q) /\ cur[q] \in Partition
    BY DEF OffsetInv, IInv, TypeOK
  <2> QED
    BY <1>0, <2>1, Unmoved
<1> HIDE DEF Goal
<1>2. pc'[q] \notin {"produce", "await"} => Goal
  BY NotProducing DEF Goal
<1>3. ASSUME NEW r \in Requests, RejectRequest(r) \/ AcceptRequest(r) \/ MetadataFails(r)
                                  \/ ReceiveError(r) \/ CallFails(r) \/ Finish(r)
      PROVE  Goal
  <2>1. CASE q = r
    <3>1. pc'[q] \notin {"produce", "await"}
      BY <1>3, <2>1 DEF IInv, TypeOK, RejectRequest, AcceptRequest, MetadataFails, ReceiveError,
                        CallFails, Finish, Abort, Respond
    <3> QED
      BY <1>2, <3>1
  <2>2. CASE q # r
    <3>1. Same
      BY <1>3, <2>2 DEF IInv, TypeOK, RejectRequest, AcceptRequest, MetadataFails, ReceiveError,
                        CallFails, Finish, Abort, Respond
    <3> QED
      BY <1>1, <3>1
  <2> QED
    BY <2>1, <2>2
<1>4. ASSUME NEW r \in Requests, Metadata(r) PROVE Goal
  <2>1. CASE q = r
    <3>1. PICK gs : /\ groups' = [groups EXCEPT ![r] = gs]
                    /\ todo' = [todo EXCEPT ![r] = {p \in Partition : gs[p] # <<>>}]
                    /\ pc' = [pc EXCEPT ![r] = "produce"]
      BY <1>4 DEF Metadata
    <3>2. groups'[r] = gs /\ todo'[r] = {p \in Partition : gs[p] # <<>>} /\ pc'[r] = "produce"
      BY <3>1 DEF IInv, TypeOK
    <3>3. \A p \in Partition : p \notin todo'[r] => Indices(groups'[r][p]) = {}
      BY <3>2 DEF Indices, Range
    <3> QED
      BY <2>1, <3>2, <3>3 DEF Goal, ResultsLocated, ReplyLocated
  <2>2. CASE q # r
    BY <1>1, <1>4, <2>2 DEF IInv, TypeOK, Metadata
  <2> QED
    BY <2>1, <2>2
<1>5. ASSUME NEW r \in Requests, SendProduce(r) PROVE Goal
  <2>1. CASE q = r
    <3>1. PICK p \in todo[r] : todo' = [todo EXCEPT ![r] = @ \ {p}] /\ cur' = [cur EXCEPT ![r] = p]
      BY <1>5 DEF SendProduce
    <3>2. /\ pc[r] = "produce" /\ pc'[r] = "await" /\ cur'[r] = p /\ todo'[r] = todo[r] \ {p}
          /\ reply'[r].state = "none" /\ groups'[r] = groups[r] /\ results'[r] = results[r]
          /\ log' = log
      BY <1>5, <3>1 DEF SendProduce, IInv, TypeOK, NoReply
    <3>3. ResultsLocated(r)
      BY DEF OffsetInv
    <3>4. ResultsLocated(r)'
      BY <3>2, <3>3 DEF ResultsLocated, Awaits
    <3>5. ReplyLocated(r)'
      BY <3>2 DEF ReplyLocated
    <3> QED
      BY <2>1, <3>4, <3>5 DEF Goal
  <2>2. CASE q # r
    BY <1>1, <1>5, <2>2 DEF IInv, TypeOK, SendProduce
  <2> QED
    BY <2>1, <2>2
<1>6. ASSUME NEW r \in Requests, ReceiveOffsets(r) \/ ReceiveNothing(r) PROVE Goal
  <2>1. ReceiveOffsets(r)
    BY <1>6 DEF ReceiveNothing
  <2>2. CASE q = r
    BY <1>0, <2>1, <2>2, ReadLocates DEF Goal, OffsetInv
  <2>3. CASE q # r
    BY <1>1, <2>1, <2>3 DEF IInv, TypeOK, ReceiveOffsets, Record
  <2> QED
    BY <2>2, <2>3
<1>7. ASSUME NEW r \in Requests, NEW p \in Partition, BrokerAppend(r, p) \/ BrokerRefuse(r, p)
      PROVE  Goal
  <2>1. CASE q = r /\ Awaits(r, p)
    <3>1. /\ pc'[r] = pc[r] /\ groups'[r] = groups[r] /\ todo'[r] = todo[r]
          /\ cur'[r] = cur[r] /\ results'[r] = results[r]
      BY <1>7 DEF BrokerAppend, BrokerRefuse
    <3>2. ResultsLocated(r)
      BY DEF OffsetInv
    <3>3. ResultsLocated(r)'
      BY <1>0, <3>1, <3>2, LocatedStays DEF ResultsLocated, Awaits
    <3>4. ReplyLocated(r)'
      <4>1. CASE BrokerAppend(r, p)
        BY <2>1, <4>1, AppendLocates
      <4>2. CASE BrokerRefuse(r, p)
        <5>1. reply'[r].state = "refused"
          BY <2>1, <4>2 DEF BrokerRefuse, Answered, IInv, TypeOK
        <5> QED
          BY <5>1 DEF ReplyLocated
      <4> QED
        BY <1>7, <4>1, <4>2
    <3> QED
      BY <2>1, <3>3, <3>4 DEF Goal
  <2>2. CASE ~(q = r /\ Awaits(r, p))
    <3>1. PICK answer : Answered(r, p, answer)
      BY <1>7 DEF BrokerAppend, BrokerRefuse
    <3>2. reply'[q] = reply[q]
      BY <2>2, <3>1 DEF Answered, IInv, TypeOK
    <3>3. UNCHANGED <<pc, groups, todo, cur, results>>
      BY <1>7 DEF BrokerAppend, BrokerRefuse
    <3>4. Same
      BY <3>2, <3>3
    <3> QED
      BY <1>1, <3>4
  <2> QED
    BY <2>1, <2>2
<1>8. CASE UNCHANGED vars
  <2>1. Same
    BY <1>8 DEF vars
  <2> QED
    BY <1>1, <2>1 DEF Goal
<1> QED
  BY <1>3, <1>4, <1>5, <1>6, <1>7, <1>8 DEF Next, Serve, Goal

LEMMA ExactStep ==
  ASSUME IInv, OffsetInv, OffsetsExact, [Next]_vars
  PROVE  OffsetsExact'
<1>0. LogGrows
  BY LogOnlyGrows
<1> SUFFICES ASSUME NEW q \in Requests, resp'[q].code = "ok"
             PROVE  /\ Len(resp'[q].offsets) = Len(batch'[q])
                    /\ \A i \in DOMAIN batch'[q] : Located(log', q, i, resp'[q].offsets[i])
  BY DEF OffsetsExact
<1>1. CASE resp'[q] = resp[q]
  <2>1. Len(resp[q].offsets) = Len(batch[q])
        /\ \A i \in DOMAIN batch[q] : Located(log, q, i, resp[q].offsets[i])
    BY <1>1 DEF OffsetsExact
  <2>2. batch'[q] = batch[q]
    <3>1. pc[q] # "idle"
      BY <1>1 DEF IInv, PcInv
    <3> QED
      BY <3>1 DEF IInv, TypeOK, Next, vars, RejectRequest, AcceptRequest, Serve, Metadata, MetadataFails,
             SendProduce, ReceiveOffsets, ReceiveNothing, ReceiveError, CallFails, Finish, Record, Abort,
             BrokerAppend, BrokerRefuse
  <2> QED
    BY <1>0, <1>1, <2>1, <2>2, LocatedStays
<1>2. CASE Finish(q)
  <2>1. /\ pc[q] = "produce" /\ todo[q] = {} /\ log' = log /\ batch' = batch
        /\ resp'[q] = Published(results[q])
    BY <1>2 DEF Finish, Respond, IInv, TypeOK
  <2>2. Len(results[q]) = Len(batch[q]) /\ Grouped(q)
    BY <2>1 DEF IInv, PcInv, GroupsInv
  <2>3. ASSUME NEW i \in DOMAIN batch[q] PROVE Located(log, q, i, results[q][i])
    <3>1. PICK p \in Partition : i \in Indices(groups[q][p])
      BY <2>2 DEF Grouped, IsGrouping
    <3>2. ResultsLocated(q)
      BY DEF OffsetInv
    <3> QED
      BY <2>1, <3>1, <3>2 DEF ResultsLocated, Awaits
  <2> QED
    BY <2>1, <2>2, <2>3 DEF Published
<1>3. resp'[q] = resp[q] \/ Finish(q)
  <2>1. \A err : Failure(err).code # "ok"
    BY ClassifyIsErrorCode DEF Failure, ErrorCodes
  <2>2. \/ UNCHANGED resp
        \/ \E r \in Requests : Finish(r)
        \/ \E r \in Requests : \E err : resp' = [resp EXCEPT ![r] = Failure(err)]
    BY DEF Next, vars, RejectRequest, AcceptRequest, Serve, Metadata, MetadataFails, SendProduce,
           ReceiveOffsets, ReceiveNothing, ReceiveError, CallFails, Record, Abort, BrokerAppend,
           BrokerRefuse, Respond
  <2>3. ASSUME NEW r \in Requests, Finish(r) PROVE r # q => resp'[q] = resp[q]
    BY <2>3 DEF Finish, Respond, IInv, TypeOK
  <2>4. ASSUME NEW r \in Requests, NEW err, resp' = [resp EXCEPT ![r] = Failure(err)]
        PROVE  resp'[q] = resp[q]
    BY <2>1, <2>4 DEF IInv, TypeOK
  <2> QED
    BY <2>2, <2>3, <2>4
<1> QED
  BY <1>1, <1>2, <1>3

(* When the broker acknowledges, a 200 reports where each record is: no    *)
(* other request, map order, late reply or failed call can make it wrong.  *)
THEOREM OffsetsAreExact ==
  ASSUME Acks # "none"
  PROVE  Spec => []OffsetsExact
<1>1. Init => OInv
  BY InitInv DEF Init, NoResponse, OInv, OffsetInv, OffsetsExact, ResultsLocated, ReplyLocated
<1>2. OInv /\ [Next]_vars => OInv'
  BY NextInv, OffsetStep, ExactStep DEF OInv
<1>3. OInv => OffsetsExact
  BY DEF OInv
<1> QED
  BY <1>1, <1>2, <1>3, PTL DEF Spec
-------------------------------------------------------------------------------
(* The contract of the publish endpoints.                                  *)

size == [r \in Requests |-> Len(batch[r])]
outcome == [r \in Requests |-> resp[r].code]

(* A step that leaves the batches, the logs and the responses alone.       *)
LEMMA Hidden ==
  UNCHANGED <<batch, log, resp>> => UNCHANGED <<size, RecordedSet, outcome>>
  BY DEF size, RecordedSet, outcome

LEMMA RejectRefines ==
  ASSUME IInv, NEW r \in Requests, RejectRequest(r)
  PROVE  Contract!Reject(r)
<1>1. PICK e \in RefusedWith : resp' = [resp EXCEPT ![r] = Failure(e)]
  BY DEF RejectRequest, Respond
<1>2. Failure(e).code = "invalid_request"
  BY RefusedIsInvalid DEF Failure
<1>3. pc[r] = "idle" /\ UNCHANGED <<batch, log>>
  BY DEF RejectRequest
<1>4. resp[r].code = "none" /\ batch[r] = <<>>
  BY <1>3 DEF IInv, PcInv
<1>5. outcome' = [outcome EXCEPT ![r] = "invalid_request"]
  BY <1>1, <1>2 DEF outcome, IInv, TypeOK
<1>6. size[r] = 0 /\ outcome[r] = "none" /\ UNCHANGED <<size, RecordedSet>>
  BY <1>3, <1>4 DEF size, outcome, RecordedSet
<1> QED
  BY <1>5, <1>6 DEF Contract!Reject, Contract!Answer, size, outcome

LEMMA AcceptRefines ==
  ASSUME IInv, NEW r \in Requests, AcceptRequest(r)
  PROVE  Contract!Accept(r)
<1>1. PICK ms \in AcceptedBatches : batch' = [batch EXCEPT ![r] = ms]
  BY DEF AcceptRequest
<1>2. pc[r] = "idle" /\ UNCHANGED <<resp, log>>
  BY DEF AcceptRequest
<1>3. resp[r].code = "none" /\ batch[r] = <<>>
  BY <1>2 DEF IInv, PcInv
<1>4. size[r] = 0 /\ outcome[r] = "none" /\ UNCHANGED <<outcome, RecordedSet>>
  BY <1>2, <1>3 DEF size, outcome, RecordedSet
<1>5. batch'[r] = ms /\ \A q \in Requests \ {r} : batch'[q] = batch[q]
  BY <1>1 DEF IInv, TypeOK
<1>6. size'[r] \in Nat \ {0}
  BY <1>5, AcceptedBatchIsNonEmpty DEF size
<1>7. size' = [size EXCEPT ![r] = size'[r]]
  BY <1>5 DEF size
<1> QED
  BY <1>4, <1>6, <1>7 DEF Contract!Accept, size, outcome

LEMMA FailRefines ==
  ASSUME IInv, NEW r \in Requests, pc[r] \in {"metadata", "await"},
         NEW err \in CallErrors \cup {TopicNotFound},
         resp' = [resp EXCEPT ![r] = Failure(err)], UNCHANGED <<batch, log>>
  PROVE  Contract!Fail(r)
<1>1. Failure(err).code \in ErrorCodes \ {"invalid_request"}
  BY UpstreamIsNotInvalid, ClassifyIsErrorCode DEF Failure
<1>2. resp[r].code = "none" /\ batch[r] # <<>> /\ batch[r] \in Seq(WireMessage)
  BY DEF IInv, PcInv, TypeOK
<1>3. size[r] > 0
  <2>1. Len(batch[r]) # 0 /\ Len(batch[r]) \in Nat
    BY <1>2
  <2> QED
    BY <2>1 DEF size
<1>4. outcome[r] = "none" /\ outcome' = [outcome EXCEPT ![r] = Failure(err).code]
  BY <1>2 DEF outcome, IInv, TypeOK
<1>5. UNCHANGED <<size, RecordedSet>>
  BY DEF size, RecordedSet
<1>6. Contract!Answer(r, Failure(err).code)
  BY <1>4 DEF Contract!Answer, outcome
<1>7. \E code \in Contract!ErrorCodes \ {"invalid_request"} : Contract!Answer(r, code)
  BY <1>1, <1>6 DEF ErrorCodes, Contract!ErrorCodes
<1> QED
  BY <1>3, <1>5, <1>7 DEF Contract!Fail, size

LEMMA ConfirmRefines ==
  ASSUME IInv, OffsetsExact', NEW r \in Requests, Finish(r)
  PROVE  Contract!Confirm(r)
<1>1. /\ pc[r] = "produce" /\ resp'[r].code = "ok" /\ UNCHANGED <<batch, log>>
      /\ resp' = [resp EXCEPT ![r] = Published(results[r])]
  BY DEF Finish, Respond, Published, IInv, TypeOK
<1>2. resp[r].code = "none" /\ batch[r] # <<>> /\ batch[r] \in Seq(WireMessage)
  BY <1>1 DEF IInv, PcInv, TypeOK
<1>3. Len(batch[r]) \in Nat \ {0} /\ DOMAIN batch[r] = 1..Len(batch[r])
  BY <1>2
<1>4. ASSUME NEW i \in DOMAIN batch[r] PROVE <<r, i>> \in RecordedSet
  <2>1. Located(log, r, i, resp'[r].offsets[i])
    BY <1>1 DEF OffsetsExact
  <2> QED
    <3> DEFINE at == resp'[r].offsets[i]
    <3>1. /\ at.partition \in Partition /\ at.offset + 1 \in DOMAIN log[at.partition]
          /\ log[at.partition][at.offset + 1] = <<r, i>>
      BY <2>1 DEF Located
    <3> HIDE DEF at
    <3>2. <<r, i>> \in Range(log[at.partition])
      BY <3>1 DEF Range
    <3> QED
      BY <3>1, <3>2 DEF RecordedSet
<1>5. Contract!RecordsOf(r, size[r]) \subseteq RecordedSet
  BY <1>3, <1>4 DEF Contract!RecordsOf, size
<1>6. size[r] > 0
  BY <1>3 DEF size
<1>7. outcome[r] = "none" /\ outcome' = [outcome EXCEPT ![r] = "ok"]
  BY <1>1, <1>2 DEF outcome, Published, IInv, TypeOK
<1>8. UNCHANGED <<size, RecordedSet>>
  BY <1>1 DEF size, RecordedSet
<1> QED
  BY <1>5, <1>6, <1>7, <1>8 DEF Contract!Confirm, Contract!Answer, size, outcome

LEMMA StoreRefines ==
  ASSUME IInv, IInv', LogGrows, NEW r \in Requests, NEW p \in Partition, BrokerAppend(r, p)
  PROVE  Contract!Store(r)
<1>1. UNCHANGED <<batch, resp, groups>>
  BY DEF BrokerAppend
<1>2. UNCHANGED <<size, outcome>>
  BY <1>1 DEF size, outcome
<1>3. RecordedSet \subseteq RecordedSet'
  BY DEF LogGrows, RecordedSet, Range
<1>4. ASSUME NEW x \in RecordedSet', x \notin RecordedSet PROVE x \in Contract!RecordsOf(r, size[r])
  <2>1. PICK q \in Partition : \E j \in DOMAIN log'[q] : log'[q][j] = x
    BY DEF RecordedSet, Range
  <2>1a. PICK j \in DOMAIN log'[q] : log'[q][j] = x
    BY <2>1
  <2> DEFINE new == [l \in DOMAIN groups[r][p] |-> <<r, groups[r][p][l]>>]
  <2>2. log' = [log EXCEPT ![p] = @ \o new]
    BY DEF BrokerAppend
  <2>3. PICK S : log[p] \in Seq(S) /\ new \in Seq(S)
    BY AppendedGroup
  <2>4. DOMAIN new = DOMAIN groups[r][p] /\ \A l \in DOMAIN new : new[l] = <<r, groups[r][p][l]>>
    OBVIOUS
  <2> HIDE DEF new
  <2>5. q = p
    BY <1>4, <2>1a, <2>2 DEF IInv, TypeOK, RecordedSet, Range
  <2>6. log'[p] = log[p] \o new
    BY <2>2 DEF IInv, TypeOK
  <2>7. j \notin DOMAIN log[p]
    BY <1>4, <2>1a, <2>5 DEF LogGrows, RecordedSet, Range
  <2>8. j - Len(log[p]) \in DOMAIN new /\ (log[p] \o new)[j] = new[j - Len(log[p])]
    BY <2>1a, <2>3, <2>5, <2>6, <2>7, Appended
  <2>9. PICK l \in DOMAIN groups[r][p] : x = <<r, groups[r][p][l]>>
    BY <2>1a, <2>4, <2>5, <2>6, <2>8
  <2>10. groups[r][p][l] \in 1..Len(batch[r])
    BY RecordedIsGrouped DEF Indices, Range
  <2> QED
    BY <2>9, <2>10 DEF Contract!RecordsOf, size
<1> QED
  BY <1>2, <1>3, <1>4 DEF Contract!Store, size, outcome

(* The sync producer keeps the promises of the publish endpoints when the  *)
(* broker acknowledges: a 200 is sent only when the whole batch is         *)
(* recorded, and nothing of a refused request ever is.                     *)
THEOREM SyncImplementsContract ==
  ASSUME Acks # "none"
  PROVE  Spec => ImplementsContract
<1>1. Init => Contract!Init
  BY DEF Init, NoResponse, Contract!Init, RecordedSet, Range
<1>2. Init => OInv
  BY InitInv DEF Init, NoResponse, OInv, OffsetInv, OffsetsExact, ResultsLocated, ReplyLocated
<1>3. OInv /\ [Next]_vars => OInv'
  BY NextInv, OffsetStep, ExactStep DEF OInv
<1>4. OInv /\ [Next]_vars => [Contract!Next]_Contract!contractVars
  <2> SUFFICES ASSUME OInv, [Next]_vars PROVE Contract!Next \/ UNCHANGED Contract!contractVars
    OBVIOUS
  <2>1. IInv /\ LogGrows /\ OffsetsExact' /\ IInv'
    BY <1>3, LogOnlyGrows DEF OInv
  <2>2. UNCHANGED <<batch, log, resp>> => UNCHANGED Contract!contractVars
    BY Hidden DEF Contract!contractVars, size, outcome
  <2>3. ASSUME NEW r \in Requests, RejectRequest(r) PROVE Contract!Next
    BY <2>1, <2>3, RejectRefines DEF Contract!Next
  <2>4. ASSUME NEW r \in Requests, AcceptRequest(r) PROVE Contract!Next
    BY <2>1, <2>4, AcceptRefines DEF Contract!Next
  <2>5. ASSUME NEW r \in Requests, MetadataFails(r) \/ ReceiveError(r) \/ CallFails(r) PROVE Contract!Next
    <3>1. \E err \in CallErrors \cup {TopicNotFound} : resp' = [resp EXCEPT ![r] = Failure(err)]
      BY <2>1, <2>5 DEF MetadataFails, ReceiveError, CallFails, Abort, Respond, CallErrors, IInv, PcInv
    <3>2. pc[r] \in {"metadata", "await"} /\ UNCHANGED <<batch, log>>
      BY <2>5 DEF MetadataFails, ReceiveError, CallFails, Abort
    <3> QED
      BY <2>1, <3>1, <3>2, FailRefines DEF Contract!Next
  <2>6. ASSUME NEW r \in Requests, Finish(r) PROVE Contract!Next
    BY <2>1, <2>6, ConfirmRefines DEF Contract!Next
  <2>7. ASSUME NEW r \in Requests, NEW p \in Partition, BrokerAppend(r, p) PROVE Contract!Next
    BY <2>1, <2>7, StoreRefines DEF Contract!Next
  <2>8. CASE \/ UNCHANGED vars
             \/ \E r \in Requests : \/ Metadata(r) \/ SendProduce(r)
                                    \/ ReceiveOffsets(r) \/ ReceiveNothing(r)
             \/ \E r \in Requests, p \in Partition : BrokerRefuse(r, p)
    <3>1. UNCHANGED <<batch, log, resp>>
      BY <2>8 DEF vars, Metadata, SendProduce, ReceiveOffsets, ReceiveNothing, Record, BrokerRefuse
    <3> QED
      BY <2>2, <3>1
  <2> QED
    BY <2>3, <2>4, <2>5, <2>6, <2>7, <2>8 DEF Next, Serve
<1> QED
  BY <1>1, <1>2, <1>3, <1>4, PTL DEF Spec, ImplementsContract, Contract!Spec
===============================================================================
