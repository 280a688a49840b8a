------------------------- MODULE BatchedPublishProofs -------------------------
(***************************************************************************)
(* Proofs about BatchedPublish, for any sets of requests and keys, any     *)
(* batch size and any number of retries inside the Writer.                 *)
(***************************************************************************)
EXTENDS BatchedPublish, TLAPS

(* Where the goroutine of a request is, and what it holds there.           *)
PcInv ==
    \A r \in Requests :
        /\ resp[r].code = "none" <=> pc[r] # "done"
        /\ pc[r] = "idle" => batch[r] = <<>> /\ attempt[r] = 0
        /\ pc[r] \in {"write", "backoff"} => batch[r] \in AcceptedBatches /\ attempt[r] >= 1
        /\ pc[r] = "backoff" => allowAutoCreate /\ pending[r] = {}
        /\ ~allowAutoCreate => attempt[r] <= 1

(* Why a call of the Writer failed is never the client's mistake.  When    *)
(* acks are required, every message of a call that has not failed is       *)
(* recorded or with the Writer.                                            *)
CallInv ==
    \A r \in Requests :
        /\ classify(ProduceError(err[r])) # "invalid_request"
        /\ pending[r] \subseteq DOMAIN batch[r]
        /\ requireAcks /\ pc[r] = "write" /\ err[r] = NoFailure =>
              \A i \in DOMAIN batch[r] : i \in pending[r] \/ copies[r][i] > 0

(* What a message may still cost: each call sends it at most once per try  *)
(* of the Writer, and the call under way has used some of its tries.  What *)
(* was sent is recorded, or may still be.                                  *)
Budget(n) == (1 + ClientRetries) * n

Unused(r, i) == IF i \in pending[r] THEN 1 + ClientRetries - resent[r][i] ELSE 0

CopiesInv ==
    \A r \in Requests : \A i \in Index :
        /\ copies[r][i] + late[r][i] + Unused(r, i) <= Budget(attempt[r])
        /\ copies[r][i] > 0 \/ late[r][i] > 0 => i \in DOMAIN batch[r]

(* A request is answered when the Writer holds none of its messages, or    *)
(* when its client has gone.                                               *)
AnsweredInv ==
    \A r \in Requests : resp[r].code \notin {"none", "client_closed_request"} => pending[r] = {}

IInv == TypeOK /\ PcInv /\ CallInv /\ CopiesInv /\ AnsweredInv
-------------------------------------------------------------------------------
(* Lemmas about the operators.                                             *)

LEMMA ClassifyIsErrorCode == \A e : classify(e) \in ErrorCodes
  BY DEF classify, ErrorCodes

(* Every refused request is answered as a client's mistake.                *)
LEMMA RefusedIsInvalid == \A e \in RefusedWith : classify(e) = "invalid_request"
  BY DEF classify, RefusedWith, BadRequest, ValidationErrors

(* A response is of one of two kinds.                                      *)
LEMMA FailureType ==
    \A e : /\ Failure(e) \in [code : Codes \cup {"none"}, offsets : Seq(Coordinate)]
           /\ Failure(e).code = classify(e) /\ Failure(e).code # "none" /\ Failure(e).code # "ok"
  BY ClassifyIsErrorCode DEF Failure, Codes, ErrorCodes

LEMMA PublishedType ==
    /\ Published(<<>>) \in [code : Codes \cup {"none"}, offsets : Seq(Coordinate)]
    /\ Published(<<>>).code = "ok"
  BY DEF Published, Codes

(* A batch that reaches the producer is a nonempty sequence of at most     *)
(* MaxBatchSize messages.                                                  *)
LEMMA AcceptedBatch ==
    ASSUME NEW ms \in AcceptedBatches
    PROVE  /\ ms \in Seq(WireMessage)
           /\ Len(ms) \in Nat \ {0}
           /\ DOMAIN ms = 1..Len(ms) /\ DOMAIN ms \subseteq Index
           /\ ms # <<>>
<1>1. PICK n \in 0..(MaxBatchSize + 1) : ms \in [1..n -> WireMessage]
  BY DEF AcceptedBatches, Bodies
<1>2. n \in Nat
  BY MaxBatchSizeAssumption
<1>3. ms \in Seq(WireMessage) /\ Len(ms) = n /\ DOMAIN ms = 1..n
  BY <1>1, <1>2
<1>4. "ErrNoMessages" \notin ValidationErrors("topic", ms)
      /\ "errBadRequest" \notin ValidationErrors("topic", ms)
  BY DEF AcceptedBatches
<1>5. Len(ms) # 0 /\ ~ (Len(ms) > MaxBatchSize)
  BY <1>4 DEF ValidationErrors, Sentinels
<1> QED
  BY <1>2, <1>3, <1>5, MaxBatchSizeAssumption DEF Index

(* The budget grows by one round of tries per call.                        *)
LEMMA BudgetGrows ==
    ASSUME NEW n \in Nat
    PROVE  /\ Budget(n) \in Nat
           /\ Budget(n + 1) = Budget(n) + 1 + ClientRetries
           /\ Budget(0) = 0
<1>1. \A a \in Nat, m \in Nat : a * m \in Nat /\ a * (m + 1) = a * m + a /\ a * 0 = 0
  OBVIOUS
<1> QED
  BY <1>1, ClientRetriesAssumption DEF Budget

LEMMA BudgetMonotonic ==
    ASSUME NEW m \in Nat, NEW n \in Nat, m <= n
    PROVE  Budget(m) <= Budget(n)
<1>1. \A a \in Nat, x \in Nat, y \in Nat : x <= y => a * x <= a * y
  OBVIOUS
<1> QED
  BY <1>1, ClientRetriesAssumption DEF Budget

LEMMA BudgetIsNat ==
    ASSUME TypeOK, NEW r \in Requests
    PROVE  attempt[r] \in Nat /\ Budget(attempt[r]) \in Nat
<1>1. attempt[r] \in 0..5
  BY DEF TypeOK, autoCreateMaxAttempts
<1> QED
  BY <1>1, BudgetGrows

(* What a try of message i changes: one more record, or one more try that  *)
(* the broker may still handle.                                            *)
LEMMA Tried ==
    ASSUME TypeOK, NEW r \in Requests, NEW i \in Index, Store(r, i) \/ Leave(r, i)
    PROVE  /\ copies' \in [Requests -> [Index -> Nat]] /\ late' \in [Requests -> [Index -> Nat]]
           /\ \A q \in Requests : \A j \in Index : q # r \/ j # i =>
                 (copies'[q][j] = copies[q][j] /\ late'[q][j] = late[q][j])
           /\ copies'[r][i] + late'[r][i] = copies[r][i] + late[r][i] + 1
           /\ copies'[r][i] >= copies[r][i]
           /\ Store(r, i) => copies'[r][i] > 0
<1>0. copies[r][i] \in Nat /\ late[r][i] \in Nat
  BY DEF TypeOK
<1>1. copies \in [Requests -> [Index -> Nat]] /\ late \in [Requests -> [Index -> Nat]]
  BY DEF TypeOK
<1>2. CASE Store(r, i)
  <2>1. copies' = [copies EXCEPT ![r][i] = @ + 1] /\ late' = late
    BY <1>2 DEF Store
  <2>2. copies' \in [Requests -> [Index -> Nat]]
    BY <1>1, <2>1
  <2>2a. copies'[r][i] = copies[r][i] + 1 /\ late'[r][i] = late[r][i]
    BY <1>1, <2>1
  <2>3. \A q \in Requests : \A j \in Index : q # r \/ j # i => copies'[q][j] = copies[q][j]
    BY <1>1, <2>1
  <2>4. /\ copies'[r][i] + late'[r][i] = copies[r][i] + late[r][i] + 1
        /\ copies'[r][i] >= copies[r][i] /\ copies'[r][i] > 0
    BY <1>0, <2>2a
  <2>5. late' \in [Requests -> [Index -> Nat]]
    BY <1>1, <2>1
  <2>6. \A q \in Requests : \A j \in Index : late'[q][j] = late[q][j]
    BY <2>1
  <2> QED
    BY <2>2, <2>3, <2>4, <2>5, <2>6
<1>3. CASE Leave(r, i) /\ ~Store(r, i)
  <2>1. late' = [late EXCEPT ![r][i] = @ + 1] /\ copies' = copies
    BY <1>3 DEF Leave
  <2>2. late' \in [Requests -> [Index -> Nat]]
    BY <1>1, <2>1
  <2>2a. late'[r][i] = late[r][i] + 1 /\ copies'[r][i] = copies[r][i]
    BY <1>1, <2>1
  <2>3. \A q \in Requests : \A j \in Index : q # r \/ j # i => late'[q][j] = late[q][j]
    BY <1>1, <2>1
  <2>4. /\ copies'[r][i] + late'[r][i] = copies[r][i] + late[r][i] + 1
        /\ copies'[r][i] >= copies[r][i]
    BY <1>0, <2>2a
  <2>5. copies' \in [Requests -> [Index -> Nat]]
    BY <1>1, <2>1
  <2>6. \A q \in Requests : \A j \in Index : copies'[q][j] = copies[q][j]
    BY <2>1
  <2> QED
    BY <1>3, <2>2, <2>3, <2>4, <2>5, <2>6
<1> QED
  BY <1>2, <1>3

(* What the handling of a late try changes: the try becomes a record.      *)
LEMMA Handled ==
    ASSUME TypeOK, NEW r \in Requests, NEW i \in Index, StoreLate(r, i)
    PROVE  /\ copies' \in [Requests -> [Index -> Nat]] /\ late' \in [Requests -> [Index -> Nat]]
           /\ \A q \in Requests : \A j \in Index : q # r \/ j # i =>
                 (copies'[q][j] = copies[q][j] /\ late'[q][j] = late[q][j])
           /\ late[r][i] > 0 /\ copies'[r][i] = copies[r][i] + 1 /\ late'[r][i] = late[r][i] - 1
<1>1. /\ copies \in [Requests -> [Index -> Nat]] /\ late \in [Requests -> [Index -> Nat]]
      /\ copies[r][i] \in Nat /\ late[r][i] \in Nat
  BY DEF TypeOK
<1>2. /\ late[r][i] > 0
      /\ copies' = [copies EXCEPT ![r][i] = @ + 1] /\ late' = [late EXCEPT ![r][i] = @ - 1]
  BY DEF StoreLate
<1>3. late[r][i] - 1 \in Nat /\ copies[r][i] + 1 \in Nat
  BY <1>1, <1>2
<1>4. copies' \in [Requests -> [Index -> Nat]] /\ copies'[r][i] = copies[r][i] + 1
  BY <1>1, <1>2
<1>5. late' \in [Requests -> [Index -> Nat]] /\ late'[r][i] = late[r][i] - 1
  BY <1>1, <1>2, <1>3
<1>6. \A q \in Requests : \A j \in Index : q # r \/ j # i => copies'[q][j] = copies[q][j]
  BY <1>1, <1>2
<1>7. \A q \in Requests : \A j \in Index : q # r \/ j # i => late'[q][j] = late[q][j]
  BY <1>1, <1>2
<1> QED
  BY <1>2, <1>4, <1>5, <1>6, <1>7

-------------------------------------------------------------------------------
(* The invariant holds at first, and each action preserves it.             *)

LEMMA InitInv == Init => IInv
<1> SUFFICES ASSUME Init PROVE IInv
  OBVIOUS
<1>1. NoFailure \in Failures /\ classify(ProduceError(NoFailure)) # "invalid_request"
  BY DEF NoFailure, Failures, NoError, ProduceError, containsKafkaError, TopicNotFound, classify, Unknown
<1>2. NoResponse \in [code : Codes \cup {"none"}, offsets : Seq(Coordinate)]
  BY DEF NoResponse
<1>3. TypeOK
  BY <1>1, <1>2, ClientRetriesAssumption DEF Init, TypeOK, autoCreateMaxAttempts
<1>4. PcInv /\ CallInv /\ AnsweredInv
  BY <1>1 DEF Init, PcInv, CallInv, AnsweredInv, NoResponse
<1>5. CopiesInv
  BY BudgetGrows DEF Init, CopiesInv, Unused
<1> QED
  BY <1>3, <1>4, <1>5 DEF IInv

(* An answer, at a point where it is one of those that point may give.     *)
LEMMA RespondStep ==
    ASSUME IInv, NEW r \in Requests, NEW response, Respond(r, response),
           response \in [code : Codes \cup {"none"}, offsets : Seq(Coordinate)],
           response.code # "none",
           response.code # "client_closed_request" => pending[r] = {},
           UNCHANGED <<requireAcks, allowAutoCreate, batch, attempt, pending, resent, err, copies, late>>
    PROVE  IInv'
<1> USE DEF IInv, TypeOK, Respond
<1>1. TypeOK'
  OBVIOUS
<1>2. PcInv'
  BY DEF PcInv
<1>3. CallInv'
  BY DEF CallInv
<1>4. CopiesInv'
  BY DEF CopiesInv, Unused
<1>5. AnsweredInv'
  BY DEF AnsweredInv
<1> QED
  BY <1>1, <1>2, <1>3, <1>4, <1>5

(* A call of the Writer, the first one or one more.                        *)
LEMMA CallStep ==
    ASSUME IInv, NEW r \in Requests, NEW ms \in AcceptedBatches, CallWriter(r, ms),
           batch' = [batch EXCEPT ![r] = ms],
           \/ pc[r] = "idle"
           \/ pc[r] = "backoff" /\ ms = batch[r] /\ attempt[r] < autoCreateMaxAttempts,
           UNCHANGED <<requireAcks, allowAutoCreate, copies, late, resp>>
    PROVE  IInv'
<1> USE DEF IInv, TypeOK, CallWriter
<1>1. /\ ms \in Seq(WireMessage) /\ DOMAIN ms \subseteq Index /\ ms # <<>>
  BY AcceptedBatch
<1>2. /\ attempt[r] \in Nat /\ attempt[r] < autoCreateMaxAttempts
      /\ attempt[r] + 1 \in 0..autoCreateMaxAttempts
      /\ ~allowAutoCreate => attempt[r] = 0
      /\ resp[r].code = "none" /\ pending[r] = {}
  <2>1. CASE pc[r] = "idle"
    <3>1. batch[r] = <<>> /\ attempt[r] = 0 /\ resp[r].code = "none"
      BY <2>1 DEF PcInv
    <3>2. pending[r] = {}
      BY <3>1 DEF CallInv
    <3> QED
      BY <3>1, <3>2 DEF autoCreateMaxAttempts
  <2>2. CASE pc[r] = "backoff" /\ attempt[r] < autoCreateMaxAttempts
    <3>1. allowAutoCreate /\ pending[r] = {} /\ resp[r].code = "none"
      BY <2>2 DEF PcInv
    <3>2. attempt[r] \in 0..5
      BY DEF autoCreateMaxAttempts
    <3> QED
      BY <2>2, <3>1, <3>2 DEF autoCreateMaxAttempts
  <2> QED
    BY <2>1, <2>2
<1>3. NoFailure \in Failures /\ classify(ProduceError(NoFailure)) # "invalid_request"
  BY DEF NoFailure, Failures, NoError, ProduceError, containsKafkaError, TopicNotFound, classify, Unknown
<1>4. TypeOK'
  BY <1>1, <1>2, <1>3, ClientRetriesAssumption
<1>5. PcInv'
  <2> SUFFICES ASSUME NEW q \in Requests PROVE PcInv!(q)'
    BY DEF PcInv
  <2>1. CASE q = r
    BY <1>2, <2>1 DEF PcInv
  <2>2. CASE q # r
    BY <2>2 DEF PcInv
  <2> QED
    BY <2>1, <2>2
<1>6. CallInv'
  BY <1>1, <1>3 DEF CallInv
<1>7. CopiesInv'
  <2> SUFFICES ASSUME NEW q \in Requests, NEW i \in Index
               PROVE  /\ copies'[q][i] + late'[q][i] + Unused(q, i)' <= Budget(attempt'[q])
                      /\ copies'[q][i] > 0 \/ late'[q][i] > 0 => i \in DOMAIN batch'[q]
    BY DEF CopiesInv, Budget
  <2>1. CASE q # r
    BY <2>1 DEF CopiesInv, Unused
  <2>2. CASE q = r
    <3>1. /\ copies'[r][i] = copies[r][i] /\ late'[r][i] = late[r][i]
          /\ copies[r][i] \in Nat /\ late[r][i] \in Nat
      OBVIOUS
    <3>2. Unused(r, i)' <= 1 + ClientRetries /\ Unused(r, i)' \in Nat
      BY ClientRetriesAssumption DEF Unused
    <3>3. Budget(attempt'[r]) = Budget(attempt[r]) + 1 + ClientRetries /\ Budget(attempt[r]) \in Nat
      BY <1>2, BudgetGrows
    <3>4. /\ copies[r][i] + late[r][i] <= Budget(attempt[r])
          /\ copies[r][i] > 0 \/ late[r][i] > 0 => i \in DOMAIN batch[r]
      <4>1. /\ copies[r][i] + late[r][i] + Unused(r, i) <= Budget(attempt[r])
            /\ copies[r][i] > 0 \/ late[r][i] > 0 => i \in DOMAIN batch[r]
        BY DEF CopiesInv
      <4>2. Unused(r, i) = 0
        BY <1>2 DEF Unused
      <4> HIDE DEF IInv, TypeOK, CallWriter
      <4> QED
        BY <3>1, <3>3, <4>1, <4>2
    <3>5. copies[r][i] > 0 \/ late[r][i] > 0 => i \in DOMAIN batch'[r]
      <4>1. CASE pc[r] = "idle"
        BY <3>4, <4>1 DEF PcInv
      <4>2. CASE ms = batch[r]
        BY <3>4, <4>2
      <4> QED
        BY <4>1, <4>2
    <3> HIDE DEF IInv, TypeOK, CallWriter
    <3>6. copies[r][i] + late[r][i] + Unused(r, i)' <= Budget(attempt'[r])
      BY <3>1, <3>2, <3>3, <3>4, ClientRetriesAssumption
    <3> QED
      BY <2>2, <3>1, <3>5, <3>6
  <2> QED
    BY <2>1, <2>2
<1>8. AnsweredInv'
  BY <1>2 DEF AnsweredInv
<1> QED
  BY <1>4, <1>5, <1>6, <1>7, <1>8

(* The Writer settles message i, which it may have tried once more.        *)
LEMMA SettleStep ==
    ASSUME IInv, NEW r \in Requests, NEW i \in Index, i \in pending[r],
           Settle(r, i), Store(r, i) \/ Leave(r, i) \/ UNCHANGED <<copies, late>>,
           NEW e \in Failures, err' = [err EXCEPT ![r] = e],
           classify(ProduceError(e)) # "invalid_request",
           e = NoFailure /\ requireAcks => err[r] = NoFailure /\ Store(r, i),
           UNCHANGED <<requireAcks, allowAutoCreate, pc, batch, attempt, resent, resp>>
    PROVE  IInv'
<1> USE DEF IInv, Settle
<1>0. /\ copies' \in [Requests -> [Index -> Nat]] /\ late' \in [Requests -> [Index -> Nat]]
      /\ \A q \in Requests, j \in Index : q # r \/ j # i =>
            copies'[q][j] = copies[q][j] /\ late'[q][j] = late[q][j]
      /\ copies'[r][i] + late'[r][i] <= copies[r][i] + late[r][i] + 1
      /\ copies'[r][i] >= copies[r][i]
      /\ Store(r, i) => copies'[r][i] > 0
  <2>1. CASE Store(r, i) \/ Leave(r, i)
    <3>1. copies'[r][i] + late'[r][i] = copies[r][i] + late[r][i] + 1
      BY <2>1, Tried
    <3>2. copies[r][i] + late[r][i] + 1 \in Nat
      BY DEF TypeOK
    <3> QED
      BY <2>1, <3>1, <3>2, Tried
  <2>2. CASE UNCHANGED <<copies, late>> /\ ~Store(r, i)
    BY <2>2 DEF TypeOK
  <2> QED
    BY <2>1, <2>2
<1>1. TypeOK'
  BY <1>0 DEF TypeOK
<1>2. PcInv'
  BY DEF PcInv, TypeOK
<1>3. CallInv'
  <2> SUFFICES ASSUME NEW q \in Requests
               PROVE  /\ classify(ProduceError(err'[q])) # "invalid_request"
                      /\ pending'[q] \subseteq DOMAIN batch[q]
                      /\ requireAcks /\ pc[q] = "write" /\ err'[q] = NoFailure =>
                            \A j \in DOMAIN batch[q] : j \in pending'[q] \/ copies'[q][j] > 0
    BY DEF CallInv
  <2>0. err'[r] = e /\ pending'[r] = pending[r] \ {i}
        /\ (q # r => err'[q] = err[q] /\ pending'[q] = pending[q])
    BY DEF TypeOK
  <2>1. classify(ProduceError(err'[q])) # "invalid_request" /\ pending'[q] \subseteq DOMAIN batch[q]
    BY <2>0 DEF CallInv
  <2>2. ASSUME requireAcks, pc[q] = "write", err'[q] = NoFailure, NEW j \in DOMAIN batch[q]
        PROVE  j \in pending'[q] \/ copies'[q][j] > 0
    <3>1. j \in Index /\ err[q] = NoFailure
      BY <2>0, <2>2, AcceptedBatch DEF PcInv
    <3>2. j \in pending[q] \/ copies[q][j] > 0
      BY <2>2, <3>1 DEF CallInv
    <3>3. CASE q = r /\ j = i
      BY <1>0, <2>0, <2>2, <3>3
    <3>4. CASE q # r \/ j # i
      BY <1>0, <2>0, <3>1, <3>2, <3>4
    <3> QED
      BY <3>3, <3>4
  <2> QED
    BY <2>1, <2>2
<1>4. CopiesInv'
  <2> SUFFICES ASSUME NEW q \in Requests, NEW j \in Index
               PROVE  /\ copies'[q][j] + late'[q][j] + Unused(q, j)' <= Budget(attempt[q])
                      /\ copies'[q][j] > 0 \/ late'[q][j] > 0 => j \in DOMAIN batch[q]
    BY DEF CopiesInv, Budget
  <2>1. Budget(attempt[q]) \in Nat
    BY BudgetIsNat
  <2>2. /\ copies[q][j] + late[q][j] + Unused(q, j) <= Budget(attempt[q])
        /\ copies[q][j] > 0 \/ late[q][j] > 0 => j \in DOMAIN batch[q]
    BY DEF CopiesInv
  <2>3. CASE q # r \/ j # i
    <3>1. Unused(q, j)' = Unused(q, j)
      BY <2>3 DEF Unused, TypeOK
    <3> QED
      BY <1>0, <2>2, <2>3, <3>1
  <2>4. CASE q = r /\ j = i
    <3>1. resent[r][i] \in 0..ClientRetries /\ i \notin pending'[r]
      BY DEF TypeOK
    <3>2. Unused(r, i) >= 1 /\ Unused(r, i) \in Nat /\ Unused(r, i)' = 0
      BY <3>1, ClientRetriesAssumption DEF Unused
    <3>3. /\ copies[r][i] \in Nat /\ late[r][i] \in Nat
          /\ copies'[r][i] \in Nat /\ late'[r][i] \in Nat
      BY <1>1 DEF TypeOK
    <3>4. i \in DOMAIN batch[r]
      BY DEF CallInv
    <3>5. copies'[r][i] + late'[r][i] + Unused(r, i)' <= Budget(attempt[r])
      <4> HIDE DEF IInv, Settle
      <4> QED
        BY <1>0, <2>1, <2>2, <2>4, <3>2, <3>3
    <3> QED
      BY <2>4, <3>4, <3>5
  <2> QED
    BY <2>3, <2>4
<1>5. AnsweredInv'
  BY DEF AnsweredInv, TypeOK
<1> QED
  BY <1>1, <1>2, <1>3, <1>4, <1>5

LEMMA ResendStep ==
    ASSUME IInv, NEW r \in Requests, NEW i \in Index, Resend(r, i)
    PROVE  IInv'
<1> USE DEF IInv
<1>0. /\ i \in pending[r] /\ resent[r][i] < ClientRetries /\ Leave(r, i)
      /\ resent' = [resent EXCEPT ![r][i] = @ + 1]
      /\ UNCHANGED <<requireAcks, allowAutoCreate, pc, batch, attempt, pending, err, resp>>
      /\ UNCHANGED copies
  BY DEF Resend, Leave
<1>1. TypeOK'
  <2>1. resent[r][i] + 1 \in 0..ClientRetries
    BY <1>0, ClientRetriesAssumption DEF TypeOK
  <2>2. copies' \in [Requests -> [Index -> Nat]] /\ late' \in [Requests -> [Index -> Nat]]
    BY <1>0, Tried
  <2> QED
    BY <1>0, <2>1, <2>2 DEF TypeOK
<1>2. PcInv' /\ CallInv' /\ AnsweredInv'
  BY <1>0 DEF PcInv, CallInv, AnsweredInv
<1>3. CopiesInv'
  <2> SUFFICES ASSUME NEW q \in Requests, NEW j \in Index
               PROVE  /\ copies'[q][j] + late'[q][j] + Unused(q, j)' <= Budget(attempt[q])
                      /\ copies'[q][j] > 0 \/ late'[q][j] > 0 => j \in DOMAIN batch[q]
    BY <1>0 DEF CopiesInv, Budget
  <2>1. Budget(attempt[q]) \in Nat
    BY BudgetIsNat
  <2>2. /\ copies[q][j] + late[q][j] + Unused(q, j) <= Budget(attempt[q])
        /\ copies[q][j] > 0 \/ late[q][j] > 0 => j \in DOMAIN batch[q]
    BY DEF CopiesInv
  <2>3. CASE q # r \/ j # i
    <3>1. Unused(q, j)' = Unused(q, j)
      BY <1>0, <2>3 DEF Unused, TypeOK
    <3> QED
      BY <1>0, <2>2, <2>3, <3>1, Tried
  <2>4. CASE q = r /\ j = i
    <3>0. resent'[r][i] = resent[r][i] + 1 /\ resent[r][i] \in 0..ClientRetries /\ pending' = pending
      BY <1>0 DEF TypeOK
    <3>1. \E m \in Nat : Unused(r, i)' = m /\ Unused(r, i) = m + 1
      <4> HIDE DEF IInv
      <4> DEFINE m == ClientRetries - resent[r][i]
      <4>1. m \in Nat
        BY <3>0, ClientRetriesAssumption
      <4>2. Unused(r, i) = m + 1
        BY <1>0, <3>0, ClientRetriesAssumption DEF Unused
      <4>3. Unused(r, i)' = 1 + ClientRetries - resent'[r][i]
        BY <1>0, <3>0 DEF Unused
      <4>4. 1 + ClientRetries - resent'[r][i] = m
        BY <3>0, ClientRetriesAssumption
      <4> QED
        BY <4>1, <4>2, <4>3, <4>4
    <3>2. copies'[r][i] + late'[r][i] = copies[r][i] + late[r][i] + 1
      BY <1>0, Tried
    <3>3. /\ copies[r][i] \in Nat /\ late[r][i] \in Nat
          /\ copies'[r][i] \in Nat /\ late'[r][i] \in Nat
      BY <1>1 DEF TypeOK
    <3>4. i \in DOMAIN batch[r]
      BY <1>0 DEF CallInv
    <3>5. copies'[r][i] + late'[r][i] + Unused(r, i)' <= Budget(attempt[r])
      <4> HIDE DEF IInv
      <4> QED
        BY <2>1, <2>2, <2>4, <3>1, <3>2, <3>3
    <3> QED
      BY <2>4, <3>4, <3>5
  <2> QED
    BY <2>3, <2>4
<1> QED
  BY <1>1, <1>2, <1>3

LEMMA StoreLateStep ==
    ASSUME IInv, NEW r \in Requests, NEW i \in Index, StoreLate(r, i)
    PROVE  IInv'
<1> USE DEF IInv
<1>0. UNCHANGED <<requireAcks, allowAutoCreate, pc, batch, attempt, pending, resent, err, resp>>
  BY DEF StoreLate
<1>1. TypeOK'
  BY <1>0, Handled DEF TypeOK
<1>2. \A q \in Requests, j \in Index :
         /\ copies[q][j] \in Nat /\ late[q][j] \in Nat
         /\ copies'[q][j] \in Nat /\ late'[q][j] \in Nat
         /\ copies'[q][j] + late'[q][j] = copies[q][j] + late[q][j]
         /\ copies'[q][j] >= copies[q][j]
  <2> SUFFICES ASSUME NEW q \in Requests, NEW j \in Index
               PROVE  /\ copies[q][j] \in Nat /\ late[q][j] \in Nat
                      /\ copies'[q][j] \in Nat /\ late'[q][j] \in Nat
                      /\ copies'[q][j] + late'[q][j] = copies[q][j] + late[q][j]
                      /\ copies'[q][j] >= copies[q][j]
    OBVIOUS
  <2>1. /\ copies[q][j] \in Nat /\ late[q][j] \in Nat
        /\ copies'[q][j] \in Nat /\ late'[q][j] \in Nat
    BY <1>1 DEF TypeOK
  <2>2. \/ copies'[q][j] = copies[q][j] /\ late'[q][j] = late[q][j]
        \/ copies'[q][j] = copies[q][j] + 1 /\ late'[q][j] = late[q][j] - 1
    BY Handled
  <2> QED
    BY <2>1, <2>2
<1>3. PcInv' /\ AnsweredInv'
  BY <1>0 DEF PcInv, AnsweredInv
<1>4. CallInv'
  <2> SUFFICES ASSUME NEW q \in Requests, requireAcks, pc[q] = "write", err[q] = NoFailure,
                      NEW j \in DOMAIN batch[q]
               PROVE  j \in pending[q] \/ copies'[q][j] > 0
    BY <1>0 DEF CallInv
  <2>1. j \in Index /\ (j \in pending[q] \/ copies[q][j] > 0)
    BY AcceptedBatch DEF PcInv, CallInv
  <2> QED
    BY <1>2, <2>1
<1>5. CopiesInv'
  <2> SUFFICES ASSUME NEW q \in Requests, NEW j \in Index
               PROVE  /\ copies'[q][j] + late'[q][j] + Unused(q, j) <= Budget(attempt[q])
                      /\ copies'[q][j] > 0 \/ late'[q][j] > 0 => j \in DOMAIN batch[q]
    BY <1>0 DEF CopiesInv, Budget, Unused
  <2>1. /\ copies[q][j] + late[q][j] + Unused(q, j) <= Budget(attempt[q])
        /\ copies[q][j] > 0 \/ late[q][j] > 0 => j \in DOMAIN batch[q]
    BY DEF CopiesInv
  <2>2. copies'[q][j] > 0 \/ late'[q][j] > 0 => copies[q][j] > 0 \/ late[q][j] > 0
    BY <1>2
  <2> QED
    BY <1>2, <2>1, <2>2
<1> QED
  BY <1>1, <1>3, <1>4, <1>5

LEMMA LookupFailsStep ==
    ASSUME IInv, NEW r \in Requests, LookupFails(r)
    PROVE  IInv'
<1> USE DEF IInv, TypeOK, LookupFails
<1>1. PICK e \in {{"upstream"}, {"upstream", "DeadlineExceeded"}, {Unknown}} :
         err' = [err EXCEPT ![r] = [chain |-> e, elements |-> {}]]
  OBVIOUS
<1>2. [chain |-> e, elements |-> {}] \in Failures /\ [chain |-> e, elements |-> {}] # NoFailure
      /\ classify(ProduceError([chain |-> e, elements |-> {}])) # "invalid_request"
  BY DEF Failures, NoFailure, NoError, Sentinels, ProduceError, containsKafkaError, TopicNotFound,
         classify, Unknown
<1>3. TypeOK'
  BY <1>1, <1>2
<1>4. PcInv'
  BY DEF PcInv
<1>5. CallInv'
  BY <1>1, <1>2 DEF CallInv
<1>6. CopiesInv'
  <2> SUFFICES ASSUME NEW q \in Requests, NEW j \in Index
               PROVE  /\ copies[q][j] + late[q][j] + Unused(q, j)' <= Budget(attempt[q])
                      /\ copies[q][j] > 0 \/ late[q][j] > 0 => j \in DOMAIN batch[q]
    BY DEF CopiesInv, Budget
  <2>1. Budget(attempt[q]) \in Nat /\ copies[q][j] \in Nat /\ late[q][j] \in Nat
    BY BudgetIsNat
  <2>2. /\ copies[q][j] + late[q][j] + Unused(q, j) <= Budget(attempt[q])
        /\ copies[q][j] > 0 \/ late[q][j] > 0 => j \in DOMAIN batch[q]
    BY DEF CopiesInv
  <2>3. Unused(q, j)' <= Unused(q, j) /\ Unused(q, j) \in Nat /\ Unused(q, j)' \in Nat
    <3>1. resent[q][j] \in 0..ClientRetries /\ resent' = resent /\ (j \in pending'[q] => j \in pending[q])
      OBVIOUS
    <3> HIDE DEF IInv, TypeOK, LookupFails
    <3> QED
      BY <3>1, ClientRetriesAssumption DEF Unused
  <2> HIDE DEF IInv, TypeOK, LookupFails
  <2> QED
    BY <2>1, <2>2, <2>3
<1>7. AnsweredInv'
  BY DEF AnsweredInv
<1> QED
  BY <1>3, <1>4, <1>5, <1>6, <1>7

LEMMA BackoffStep ==
    ASSUME IInv, NEW r \in Requests, StartBackoff(r)
    PROVE  IInv'
<1> USE DEF IInv, TypeOK, StartBackoff, Write, MayRetry
<1>1. TypeOK' /\ PcInv' /\ CallInv' /\ AnsweredInv'
  BY DEF PcInv, CallInv, AnsweredInv
<1>2. CopiesInv'
  BY DEF CopiesInv, Unused
<1> QED
  BY <1>1, <1>2

LEMMA GiveUpStep ==
    ASSUME IInv, NEW r \in Requests, NEW i \in Index, GiveUp(r, i)
    PROVE  IInv'
<1>1. err[r] \in Failures
  BY DEF IInv, TypeOK
<1>2. PICK e \in {Unknown, "other"} :
         err' = [err EXCEPT ![r] = [chain |-> {"upstream"}, elements |-> @.elements \cup {e}]]
  BY DEF GiveUp
<1> DEFINE failure == [chain |-> {"upstream"}, elements |-> err[r].elements \cup {e}]
<1>3. /\ failure \in Failures /\ failure # NoFailure
      /\ classify(ProduceError(failure)) # "invalid_request"
  BY <1>1 DEF Failures, NoFailure, NoError, Sentinels, ProduceError, containsKafkaError,
              TopicNotFound, classify, Unknown
<1>4. err' = [err EXCEPT ![r] = failure]
  BY <1>2
<1>5. /\ i \in pending[r] /\ Settle(r, i) /\ (Leave(r, i) \/ UNCHANGED <<copies, late>>)
      /\ UNCHANGED <<requireAcks, allowAutoCreate, pc, batch, attempt, resent, resp>>
  BY DEF GiveUp
<1> HIDE DEF failure
<1> QED
  BY <1>3, <1>4, <1>5, SettleStep

LEMMA AcknowledgedStep ==
    ASSUME IInv, NEW r \in Requests, NEW i \in Index, Acknowledged(r, i)
    PROVE  IInv'
<1>1. /\ i \in pending[r] /\ Settle(r, i) /\ (Store(r, i) \/ Leave(r, i))
      /\ requireAcks => Store(r, i)
      /\ UNCHANGED <<requireAcks, allowAutoCreate, pc, batch, attempt, resent, err, resp>>
  BY DEF Acknowledged
<1>2. err[r] \in Failures /\ classify(ProduceError(err[r])) # "invalid_request"
  BY DEF IInv, TypeOK, CallInv
<1>3. err' = [err EXCEPT ![r] = err[r]]
  BY <1>1 DEF IInv, TypeOK
<1> QED
  BY <1>1, <1>2, <1>3, SettleStep

(* The answers of Produce, of the validation, and of a context that is     *)
(* done.                                                                   *)
LEMMA AnswerStep ==
    ASSUME IInv, NEW r \in Requests,
           \/ RejectRequest(r) \/ WriteSucceeds(r) \/ WriteFails(r)
           \/ StopRetrying(r) \/ ClientGoesAway(r)
    PROVE  IInv'
<1>1. UNCHANGED <<requireAcks, allowAutoCreate, batch, attempt, pending, resent, err, copies, late>>
  BY DEF RejectRequest, WriteSucceeds, WriteFails, StopRetrying, ClientGoesAway
<1>2. CASE RejectRequest(r)
  <2>1. PICK e \in RefusedWith : Respond(r, Failure(e))
    BY <1>2 DEF RejectRequest
  <2>2. pending[r] = {}
    BY <1>2 DEF RejectRequest, IInv, PcInv, CallInv
  <2> QED
    BY <1>1, <2>1, <2>2, FailureType, RespondStep
<1>3. CASE WriteSucceeds(r)
  BY <1>1, <1>3, PublishedType, RespondStep DEF WriteSucceeds, Write
<1>4. CASE WriteFails(r) \/ StopRetrying(r)
  <2>1. Respond(r, Failure(ProduceError(err[r]))) /\ pending[r] = {}
    BY <1>4 DEF WriteFails, StopRetrying, Write, IInv, PcInv
  <2> QED
    BY <1>1, <2>1, FailureType, RespondStep
<1>5. CASE ClientGoesAway(r)
  <2>1. Respond(r, Failure({"Canceled"})) /\ classify({"Canceled"}) = "client_closed_request"
    BY <1>5 DEF ClientGoesAway, classify
  <2> QED
    BY <1>1, <2>1, FailureType, RespondStep
<1> QED
  BY <1>2, <1>3, <1>4, <1>5

LEMMA NextInv == IInv /\ [Next]_vars => IInv'
<1> SUFFICES ASSUME IInv, [Next]_vars PROVE IInv'
  OBVIOUS
<1>1. ASSUME NEW r \in Requests, RejectRequest(r) \/ ClientGoesAway(r) PROVE IInv'
  BY <1>1, AnswerStep
<1>2. ASSUME NEW r \in Requests, AcceptRequest(r) PROVE IInv'
  BY <1>2, CallStep DEF AcceptRequest
<1>3. ASSUME NEW r \in Requests, Serve(r) PROVE IInv'
  <2>1. CASE WriteSucceeds(r) \/ WriteFails(r) \/ StopRetrying(r)
    BY <2>1, AnswerStep
  <2>2. CASE StartBackoff(r)
    BY <2>2, BackoffStep
  <2>3. CASE Retry(r)
    <3>1. batch[r] \in AcceptedBatches /\ batch' = [batch EXCEPT ![r] = batch[r]]
      BY <2>3 DEF Retry, IInv, PcInv, TypeOK
    <3> QED
      BY <2>3, <3>1, CallStep DEF Retry
  <2> QED
    BY <1>3, <2>1, <2>2, <2>3 DEF Serve
<1>4. ASSUME NEW r \in Requests, LookupFails(r) PROVE IInv'
  BY <1>4, LookupFailsStep
<1>5. ASSUME NEW r \in Requests, NEW i \in Index,
             Acknowledged(r, i) \/ Resend(r, i) \/ GiveUp(r, i) \/ StoreLate(r, i)
      PROVE  IInv'
  BY <1>5, AcknowledgedStep, ResendStep, GiveUpStep, StoreLateStep
<1>6. CASE UNCHANGED vars
  <2>1. TypeOK' /\ PcInv' /\ CallInv' /\ AnsweredInv'
    BY <1>6 DEF IInv, TypeOK, PcInv, CallInv, AnsweredInv, vars
  <2>2. CopiesInv'
    BY <1>6 DEF IInv, CopiesInv, Unused, vars
  <2> QED
    BY <2>1, <2>2 DEF IInv
<1> QED
  BY <1>1, <1>2, <1>3, <1>4, <1>5, <1>6 DEF Next

LEMMA Invariance == Spec => []IInv
  BY InitInv, NextInv, PTL DEF Spec

-------------------------------------------------------------------------------
(* The theorems.                                                           *)

(* The variables keep their types, and the loop of Produce its five        *)
(* attempts (writer.go:92).                                                *)
THEOREM TypeCorrect == Spec => []TypeOK
<1>1. IInv => TypeOK
  BY DEF IInv
<1> QED
  BY <1>1, Invariance, PTL

(* How often a message can be recorded, whatever is resent by the Writer   *)
(* and by the loop around it (writer.go:92-105).                           *)
THEOREM BoundedDuplicates == Spec => []DuplicatesBounded
<1>1. IInv => DuplicatesBounded
  <2> SUFFICES ASSUME IInv, NEW r \in Requests, NEW i \in Index
               PROVE  copies[r][i] <= (1 + ClientRetries) *
                                      (IF allowAutoCreate THEN autoCreateMaxAttempts ELSE 1)
    BY DEF DuplicatesBounded
  <2> DEFINE most == IF allowAutoCreate THEN autoCreateMaxAttempts ELSE 1
  <2>1. attempt[r] \in 0..5 /\ most \in Nat /\ attempt[r] <= most
    BY DEF IInv, TypeOK, PcInv, autoCreateMaxAttempts
  <2>1a. attempt[r] \in Nat
    BY <2>1
  <2> HIDE DEF most
  <2>2. Budget(attempt[r]) <= Budget(most) /\ Budget(attempt[r]) \in Nat /\ Budget(most) \in Nat
    BY <2>1, <2>1a, BudgetMonotonic, BudgetGrows
  <2>3. Unused(r, i) \in Nat /\ copies[r][i] \in Nat /\ late[r][i] \in Nat
    BY ClientRetriesAssumption DEF Unused, IInv, TypeOK
  <2>4. copies[r][i] + late[r][i] + Unused(r, i) <= Budget(attempt[r])
    BY DEF IInv, CopiesInv
  <2>5. copies[r][i] <= Budget(most)
    BY <2>2, <2>3, <2>4
  <2> QED
    BY <2>5 DEF Budget, most
<1> QED
  BY <1>1, Invariance, PTL

(* Only a message the Writer holds is sent.                                *)
LEMMA SendsPending ==
    ASSUME IInv, [Next]_vars, NEW r \in Requests, pending[r] = {}, NEW i \in Index
    PROVE  copies'[r][i] + late'[r][i] <= copies[r][i] + late[r][i]
<1>0. copies[r][i] \in Nat /\ late[r][i] \in Nat
  BY DEF IInv, TypeOK
<1>1. ASSUME UNCHANGED <<copies, late>>
      PROVE  copies'[r][i] + late'[r][i] <= copies[r][i] + late[r][i]
  BY <1>0, <1>1
<1>2. ASSUME NEW q \in Requests, NEW j \in Index,
             Acknowledged(q, j) \/ Resend(q, j) \/ GiveUp(q, j)
      PROVE  copies'[r][i] + late'[r][i] <= copies[r][i] + late[r][i]
  <2>1. q # r /\ (Store(q, j) \/ Leave(q, j) \/ UNCHANGED <<copies, late>>)
    BY <1>2 DEF Acknowledged, Resend, GiveUp
  <2>2. CASE Store(q, j) \/ Leave(q, j)
    <3>1. copies'[r][i] = copies[r][i] /\ late'[r][i] = late[r][i]
      BY <2>1, <2>2, Tried DEF IInv
    <3> QED
      BY <1>0, <3>1
  <2> QED
    BY <1>1, <2>1, <2>2
<1>3. ASSUME NEW q \in Requests, NEW j \in Index, StoreLate(q, j)
      PROVE  copies'[r][i] + late'[r][i] <= copies[r][i] + late[r][i]
  <2>1. \/ copies'[r][i] = copies[r][i] /\ late'[r][i] = late[r][i]
        \/ copies'[r][i] = copies[r][i] + 1 /\ late'[r][i] = late[r][i] - 1
    BY <1>3, Handled DEF IInv
  <2> QED
    BY <1>0, <2>1
<1>4. ASSUME NEW q \in Requests,
             \/ RejectRequest(q) \/ AcceptRequest(q) \/ Serve(q)
             \/ ClientGoesAway(q) \/ LookupFails(q)
      PROVE  UNCHANGED <<copies, late>>
  BY <1>4 DEF RejectRequest, AcceptRequest, Serve, ClientGoesAway, LookupFails,
              WriteSucceeds, WriteFails, StartBackoff, Retry, StopRetrying
<1>5. CASE UNCHANGED vars
  BY <1>1, <1>5 DEF vars
<1> QED
  BY <1>1, <1>2, <1>3, <1>4, <1>5 DEF Next

(* Whatever a client is told, nothing of its batch is sent afterwards      *)
(* (writer.go:62, 92-117): what is recorded later was sent before.         *)
THEOREM AnswerEndsTheBatch == Spec => NothingSentAfterAnswer
<1>1. IInv /\ [Next]_vars =>
         \A r \in Requests : resp[r].code \notin {"none", "client_closed_request"} =>
             \A i \in Index : copies'[r][i] + late'[r][i] <= copies[r][i] + late[r][i]
  BY SendsPending DEF IInv, AnsweredInv
<1> QED
  BY <1>1, Invariance, PTL DEF Spec, NothingSentAfterAnswer

-------------------------------------------------------------------------------
(* The contract of the publish endpoints.                                  *)

size == [r \in Requests |-> Len(batch[r])]
stored == {ri \in Requests \X Index : copies[ri[1]][ri[2]] > 0}
outcome == [r \in Requests |->
    IF requireAcks \/ resp[r].code # "ok" THEN resp[r].code ELSE "none"]

LEMMA Hidden ==
    /\ UNCHANGED batch => UNCHANGED size
    /\ UNCHANGED copies => UNCHANGED stored
    /\ UNCHANGED <<requireAcks, resp>> => UNCHANGED outcome
  BY DEF size, stored, outcome

(* A batch that is with the producer has been accepted.                    *)
LEMMA SizePositive ==
    ASSUME IInv, NEW r \in Requests, pc[r] \in {"write", "backoff"}
    PROVE  /\ size[r] \in Nat \ {0} /\ outcome[r] = "none"
           /\ DOMAIN batch[r] = 1..size[r] /\ 1..size[r] \subseteq Index
  BY AcceptedBatch DEF size, outcome, IInv, PcInv

LEMMA AnswerRefines ==
    ASSUME IInv, NEW r \in Requests, NEW response, Respond(r, response), pc[r] # "done",
           UNCHANGED requireAcks, requireAcks \/ response.code # "ok"
    PROVE  Contract!Answer(r, response.code)
<1>1. resp[r].code = "none" /\ resp' = [resp EXCEPT ![r] = response]
  BY DEF IInv, PcInv, Respond
<1>2. outcome[r] = "none" /\ outcome' = [outcome EXCEPT ![r] = response.code]
  BY <1>1 DEF outcome, IInv, TypeOK
<1> QED
  BY <1>2 DEF Contract!Answer, outcome

LEMMA RejectRefines ==
    ASSUME IInv, NEW r \in Requests, RejectRequest(r)
    PROVE  Contract!Reject(r)
<1>1. PICK e \in RefusedWith : Respond(r, Failure(e))
  BY DEF RejectRequest
<1>2. Failure(e).code = "invalid_request"
  BY RefusedIsInvalid, FailureType
<1>3. Contract!Answer(r, "invalid_request")
  BY <1>1, <1>2, AnswerRefines DEF RejectRequest
<1>4. UNCHANGED <<size, stored>> /\ size[r] = 0
  BY Hidden DEF RejectRequest, size, IInv, PcInv
<1> QED
  BY <1>3, <1>4 DEF Contract!Reject, size, stored

LEMMA AcceptRefines ==
    ASSUME IInv, NEW r \in Requests, AcceptRequest(r)
    PROVE  Contract!Accept(r)
<1>1. PICK ms \in AcceptedBatches : batch' = [batch EXCEPT ![r] = ms]
  BY DEF AcceptRequest
<1>2. batch'[r] = ms /\ \A q \in Requests \ {r} : batch'[q] = batch[q]
  BY <1>1 DEF IInv, TypeOK
<1>3. size' = [size EXCEPT ![r] = size'[r]] /\ size'[r] \in Nat \ {0}
  BY <1>2, AcceptedBatch DEF size
<1>4. size[r] = 0 /\ outcome[r] = "none"
  BY DEF AcceptRequest, size, outcome, IInv, PcInv
<1>5. UNCHANGED <<stored, outcome>>
  BY Hidden DEF AcceptRequest
<1> QED
  BY <1>3, <1>4, <1>5 DEF Contract!Accept, size, stored, outcome

LEMMA FailRefines ==
    ASSUME IInv, NEW r \in Requests, pc[r] \in {"write", "backoff"},
           NEW e, Respond(r, Failure(e)), classify(e) # "invalid_request",
           UNCHANGED <<requireAcks, batch, copies>>
    PROVE  Contract!Fail(r)
<1>1. Contract!Answer(r, classify(e))
  BY AnswerRefines, FailureType
<1>2. classify(e) \in Contract!ErrorCodes \ {"invalid_request"}
  BY ClassifyIsErrorCode DEF ErrorCodes, Contract!ErrorCodes
<1>3. size[r] > 0 /\ UNCHANGED <<size, stored>>
  BY SizePositive, Hidden
<1> QED
  BY <1>1, <1>2, <1>3 DEF Contract!Fail, size, stored

(* A 200 when acks are required: no message is with the Writer, and none   *)
(* failed.                                                                 *)
LEMMA ConfirmRefines ==
    ASSUME requireAcks, IInv, NEW r \in Requests, WriteSucceeds(r)
    PROVE  Contract!Confirm(r)
<1>1. /\ pc[r] = "write" /\ pending[r] = {} /\ err[r] = NoFailure
      /\ Respond(r, Published(<<>>)) /\ UNCHANGED <<requireAcks, batch, copies>>
  BY DEF WriteSucceeds, Write
<1>2. Contract!Answer(r, "ok")
  BY <1>1, AnswerRefines, PublishedType
<1>3. \A i \in 1..size[r] : i \in Index /\ copies[r][i] > 0
  BY <1>1, SizePositive DEF IInv, CallInv
<1>4. Contract!RecordsOf(r, size[r]) \subseteq stored
  BY <1>3 DEF Contract!RecordsOf, stored
<1>5. size[r] > 0 /\ UNCHANGED <<size, stored>>
  BY <1>1, SizePositive, Hidden
<1> QED
  BY <1>2, <1>4, <1>5 DEF Contract!Confirm, size, stored

(* A record, of a message that the Writer holds or that was left behind.   *)
LEMMA StoreRefines ==
    ASSUME IInv, NEW r \in Requests, NEW i \in Index,
           i \in pending[r] \/ late[r][i] > 0,
           copies' = [copies EXCEPT ![r][i] = @ + 1] \/ UNCHANGED copies,
           UNCHANGED <<requireAcks, batch, resp>>
    PROVE  Contract!Store(r)
<1>1. UNCHANGED <<size, outcome>>
  BY Hidden
<1>2. CASE copies' = [copies EXCEPT ![r][i] = @ + 1]
  <2>1. stored' = stored \cup {<<r, i>>}
    BY <1>2 DEF stored, IInv, TypeOK
  <2>2. i \in DOMAIN batch[r]
    BY DEF IInv, CallInv, CopiesInv
  <2>2a. i \in 1..size[r]
    BY <2>2 DEF IInv, TypeOK, size
  <2> QED
    BY <1>1, <2>1, <2>2a DEF Contract!Store, Contract!RecordsOf, size, stored, outcome
<1>3. CASE UNCHANGED copies
  BY <1>1, <1>3, Hidden DEF Contract!Store, size, stored, outcome
<1> QED
  BY <1>2, <1>3

(* A 200 without required acks: nothing is promised.                       *)
LEMMA UnacknowledgedRefines ==
    ASSUME ~requireAcks, IInv, NEW r \in Requests, WriteSucceeds(r)
    PROVE  UNCHANGED <<size, stored, outcome>>
<1>1. /\ pc[r] = "write" /\ UNCHANGED <<requireAcks, batch, copies>>
      /\ resp' = [resp EXCEPT ![r] = Published(<<>>)]
  BY DEF WriteSucceeds, Write, Respond
<1>2. resp[r].code = "none" /\ resp'[r].code = "ok" /\ \A q \in Requests \ {r} : resp'[q] = resp[q]
  BY <1>1, PublishedType DEF IInv, TypeOK, PcInv
<1>3. UNCHANGED outcome
  BY <1>1, <1>2 DEF outcome
<1> QED
  BY <1>1, <1>3, Hidden

(* The Writer keeps the promises of the publish endpoints: nothing of a    *)
(* refused batch is ever recorded, and if acks are required, a 200 is sent *)
(* only when the whole batch is (publisher.go, writer.go:61, 76-112).      *)
THEOREM BatchedImplementsContract == Spec => ImplementsContract
<1>1. Init => Contract!Init
  BY DEF Init, NoResponse, Contract!Init
<1>2. IInv /\ [Next]_vars => [Contract!Next]_Contract!contractVars
  <2> SUFFICES ASSUME IInv, [Next]_vars PROVE Contract!Next \/ UNCHANGED Contract!contractVars
    OBVIOUS
  <2>1. UNCHANGED <<requireAcks, batch, copies, resp>> => UNCHANGED Contract!contractVars
    BY Hidden DEF Contract!contractVars, size, stored, outcome
  <2>2. ASSUME NEW r \in Requests, RejectRequest(r) PROVE Contract!Next
    BY <2>2, RejectRefines DEF Contract!Next
  <2>3. ASSUME NEW r \in Requests, AcceptRequest(r) PROVE Contract!Next
    BY <2>3, AcceptRefines DEF Contract!Next
  <2>4. ASSUME NEW r \in Requests, WriteSucceeds(r)
        PROVE  Contract!Next \/ UNCHANGED Contract!contractVars
    <3>1. CASE requireAcks
      BY <2>4, <3>1, ConfirmRefines DEF Contract!Next
    <3>2. CASE ~requireAcks
      BY <2>4, <3>2, UnacknowledgedRefines DEF Contract!contractVars, size, stored, outcome
    <3> QED
      BY <3>1, <3>2
  <2>5. ASSUME NEW r \in Requests, WriteFails(r) \/ StopRetrying(r) PROVE Contract!Next
    <3>1. /\ pc[r] \in {"write", "backoff"} /\ Respond(r, Failure(ProduceError(err[r])))
          /\ UNCHANGED <<requireAcks, batch, copies>>
      BY <2>5 DEF WriteFails, StopRetrying, Write
    <3> QED
      BY <3>1, FailRefines DEF IInv, CallInv, Contract!Next
  <2>6. ASSUME NEW r \in Requests, ClientGoesAway(r) PROVE Contract!Next
    <3>1. classify({"Canceled"}) # "invalid_request"
      BY DEF classify
    <3> QED
      BY <2>6, <3>1, FailRefines DEF ClientGoesAway, Contract!Next
  <2>7. ASSUME NEW r \in Requests, NEW i \in Index,
               Acknowledged(r, i) \/ Resend(r, i) \/ GiveUp(r, i) \/ StoreLate(r, i)
        PROVE  Contract!Next
    <3>1. /\ i \in pending[r] \/ late[r][i] > 0
          /\ copies' = [copies EXCEPT ![r][i] = @ + 1] \/ UNCHANGED copies
          /\ UNCHANGED <<requireAcks, batch, resp>>
      BY <2>7 DEF Acknowledged, Resend, GiveUp, StoreLate, Store, Leave
    <3> QED
      BY <3>1, StoreRefines DEF Contract!Next
  <2>8. CASE \/ UNCHANGED vars
             \/ \E r \in Requests : StartBackoff(r) \/ Retry(r) \/ LookupFails(r)
    <3>1. UNCHANGED <<requireAcks, batch, copies, resp>>
      BY <2>8 DEF vars, StartBackoff, Retry, LookupFails
    <3> QED
      BY <2>1, <3>1
  <2> QED
    BY <2>2, <2>3, <2>4, <2>5, <2>6, <2>7, <2>8 DEF Next, Serve
<1> QED
  BY <1>1, <1>2, Invariance, PTL DEF Spec, ImplementsContract, Contract!Spec
===============================================================================
