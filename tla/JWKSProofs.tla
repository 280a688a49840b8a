------------------------------ MODULE JWKSProofs ------------------------------
(* What the key cache promises, for any number of goroutines, key ids and  *)
(* rotations, and any ttl, floor and timeout.                              *)
(*                                                                         *)
(* The argument: the cached set was served at most one fetch before        *)
(* fetchedAt, because a response was under way for at most FetchTimeout,   *)
(* and a slower fetch that overwrites a newer set still satisfies this.    *)
(* A lookup trusts the cache while it is fresh or within the floor.        *)
EXTENDS JWKS, SequenceTheorems, TLAPS

(* Version v was still served at time t, or is served now.                 *)
ServedAt(v, t) == v = Current \/ docs[v + 1].since >= t

CacheInv ==
    version # 0 => version = Current \/ docs[version + 1].since + FetchTimeout >= fetchedAt

FetchInv ==
    \A c \in Callers :
        /\ pc[c] \in {"sent", "answered"} => now <= sentAt[c] + FetchTimeout
        /\ pc[c] = "answered" => got[c] # 0 /\ ServedAt(got[c], sentAt[c])

(* After a refresh that did not fail the cache is no older than the floor. *)
RereadInv ==
    \A c \in Callers : pc[c] = "reread" => version # 0 /\ now <= fetchedAt + MinRefresh

VerdictInv == WithdrawnKeyExpires /\ PublishedKeyIsFound

IInv == TypeOK /\ CacheInv /\ FetchInv /\ RereadInv /\ VerdictInv

USE NoKidAssumption, TTLAssumption, MinRefreshAssumption, FetchTimeoutAssumption,
    MaxTimeAssumption, MaxVersionsAssumption

-------------------------------------------------------------------------------
LEMMA UndecidedIsVerdict == Undecided \in Verdicts
  BY DEF Undecided, Verdicts

(* Nothing is promised of a step that decides no lookup.                   *)
LEMMA UndecidedPromisesNothing == verdict = Undecided => VerdictInv
  BY DEF Undecided, VerdictInv, WithdrawnKeyExpires, PublishedKeyIsFound

LEMMA DocTypes ==
    ASSUME TypeOK, NEW v \in 1..Current
    PROVE  docs[v].kids \subseteq Kids /\ docs[v].since \in Nat
<1>1. docs[v] \in [kids : SUBSET Kids, since : 0..MaxTime]
  BY ElementOfSeq DEF TypeOK, Current
<1> QED
  BY <1>1

(* The time at which the successor of a version was published.             *)
LEMMA SuccessorType ==
    TypeOK => \A v \in 1..Current : v # Current => docs[v + 1].since \in Nat
<1> SUFFICES ASSUME TypeOK, NEW v \in 1..Current, v # Current PROVE docs[v + 1].since \in Nat
  OBVIOUS
<1>1. v + 1 \in 1..Current
  BY DEF TypeOK, Current
<1> QED
  BY <1>1, DocTypes

LEMMA KeysAreKids == TypeOK => keys \subseteq Kids /\ (keys # {} => version # 0)
<1> SUFFICES ASSUME TypeOK PROVE keys \subseteq Kids /\ (keys # {} => version # 0)
  OBVIOUS
<1>1. CASE version = 0
  BY <1>1 DEF keys, KeysOf
<1>2. CASE version # 0
  <2>1. version \in 1..Current
    BY <1>2 DEF TypeOK, Current
  <2> QED
    BY <1>2, <2>1, DocTypes DEF keys, KeysOf
<1> QED
  BY <1>1, <1>2

LEMMA InitInvariant == Init => IInv
<1> SUFFICES ASSUME Init PROVE IInv
  OBVIOUS
<1>1. VerdictInv
  BY UndecidedPromisesNothing DEF Init
<1>2. TypeOK
  <2>1. PICK ks \in SUBSET Kids : docs = <<[kids |-> ks, since |-> 0]>>
    BY DEF Init
  <2>2. docs \in Seq([kids : SUBSET Kids, since : 0..MaxTime]) /\ Len(docs) = 1
    BY <2>1
  <2> QED
    BY <2>2, UndecidedIsVerdict DEF Init, TypeOK, Current
<1> QED
  BY <1>1, <1>2 DEF Init, IInv, CacheInv, FetchInv, RereadInv

(* A decision leaves the cache alone, and c with nothing to remember.      *)
LEMMA DecisionKeeps ==
    ASSUME IInv, NEW c \in Callers, NEW k \in Kids, NEW v \in Nat,
           NEW result \in {"accepted", "stale", "unknown", "failed"},
           Decide(c, k, result, v), UNCHANGED <<now, docs, version, fetchedAt>>
    PROVE  TypeOK' /\ CacheInv' /\ FetchInv' /\ RereadInv'
<1> USE DEF IInv, Decide
<1>1. TypeOK'
  BY DEF TypeOK, Current, Verdicts
<1>2. CacheInv'
  BY DEF CacheInv, Current
<1>3. FetchInv'
  BY DEF FetchInv, TypeOK, ServedAt, Current
<1>4. RereadInv'
  BY DEF RereadInv, TypeOK
<1> QED
  BY <1>1, <1>2, <1>3, <1>4

LEMMA NextInvariant == IInv /\ [Next]_vars => IInv'
<1> SUFFICES ASSUME IInv, [Next]_vars PROVE IInv'
  OBVIOUS
<1> USE DEF IInv
<1>1. ASSUME NEW c \in Callers, Hit(c) PROVE IInv'
  <2>1. PICK k \in keys : Decide(c, k, "accepted", version)
    BY <1>1 DEF Hit
  <2>2. k \in Kids /\ version \in Nat /\ version # 0
    BY <2>1, KeysAreKids DEF TypeOK, Current
  <2>3. TypeOK' /\ CacheInv' /\ FetchInv' /\ RereadInv'
    BY <1>1, <2>1, <2>2, DecisionKeeps DEF Hit
  <2>4. ServedWithin(version, Longest(TTL, MinRefresh) + FetchTimeout)
    <3>1. version \in 1..Current /\ now \in Nat /\ fetchedAt \in Nat /\ fetchedAt <= now
      BY <2>2 DEF TypeOK, Current
    <3>2. now < fetchedAt + Longest(TTL, MinRefresh)
      BY <1>1, <3>1 DEF Hit, Fresh, Longest
    <3> QED
      BY <2>2, <3>1, <3>2, SuccessorType DEF CacheInv, ServedWithin, Longest
  <2>5. VerdictInv'
    BY <1>1, <2>1, <2>4 DEF Hit, Decide, VerdictInv, WithdrawnKeyExpires, PublishedKeyIsFound,
          ServedWithin, Current, keys, KeysOf
  <2> QED
    BY <2>3, <2>5
<1>2. ASSUME NEW c \in Callers, Miss(c) PROVE IInv'
  <2>1. VerdictInv'
    BY <1>2, UndecidedPromisesNothing DEF Miss, VerdictInv, Undecided, WithdrawnKeyExpires, PublishedKeyIsFound
  <2>2. TypeOK'
    BY <1>2, UndecidedIsVerdict, KeysAreKids DEF Miss, TypeOK, Current
  <2> QED
    BY <1>2, <2>1, <2>2 DEF Miss, CacheInv, FetchInv, RereadInv, ServedAt, Current, TypeOK
<1>3. ASSUME NEW c \in Callers, SkipRefresh(c) PROVE IInv'
  <2>1. VerdictInv'
    BY <1>3 DEF SkipRefresh, VerdictInv, Undecided, WithdrawnKeyExpires, PublishedKeyIsFound
  <2>2. TypeOK'
    BY <1>3, UndecidedIsVerdict DEF SkipRefresh, TypeOK, Current
  <2>3. version # 0 /\ now <= fetchedAt + MinRefresh
    BY <1>3, KeysAreKids DEF SkipRefresh, TooSoon, TypeOK
  <2> QED
    BY <1>3, <2>1, <2>2, <2>3 DEF SkipRefresh, CacheInv, FetchInv, RereadInv, ServedAt, Current, TypeOK
<1>4. ASSUME NEW c \in Callers, SendFetch(c) PROVE IInv'
  <2>1. VerdictInv'
    BY <1>4 DEF SendFetch, VerdictInv, Undecided, WithdrawnKeyExpires, PublishedKeyIsFound
  <2>2. TypeOK'
    BY <1>4, UndecidedIsVerdict DEF SendFetch, TypeOK, Current
  <2> QED
    BY <1>4, <2>1, <2>2 DEF SendFetch, CacheInv, FetchInv, RereadInv, ServedAt, Current, TypeOK
<1>5. ASSUME NEW c \in Callers, Answer(c) PROVE IInv'
  <2>1. VerdictInv'
    BY <1>5 DEF Answer, VerdictInv, Undecided, WithdrawnKeyExpires, PublishedKeyIsFound
  <2>2. TypeOK'
    BY <1>5, UndecidedIsVerdict DEF Answer, TypeOK, Current
  <2> QED
    BY <1>5, <2>1, <2>2 DEF Answer, CacheInv, FetchInv, RereadInv, ServedAt, Current, TypeOK
<1>6. ASSUME NEW c \in Callers, Store(c) PROVE IInv'
  <2>1. VerdictInv'
    BY <1>6 DEF Store, VerdictInv, Undecided, WithdrawnKeyExpires, PublishedKeyIsFound
  <2>2. TypeOK'
    BY <1>6, UndecidedIsVerdict DEF Store, TypeOK, Current
  <2>3. CacheInv'
    <3>1. now <= sentAt[c] + FetchTimeout /\ got[c] \in 1..Current /\ ServedAt(got[c], sentAt[c])
      BY <1>6 DEF Store, FetchInv, TypeOK, Current
    <3>2. sentAt[c] \in Nat /\ now \in Nat
      BY DEF TypeOK
    <3>3. got[c] # Current => docs[got[c] + 1].since + FetchTimeout >= now
      BY <3>1, <3>2, SuccessorType DEF ServedAt
    <3> QED
      BY <1>6, <3>3 DEF Store, CacheInv, Current
  <2>4. FetchInv'
    BY <1>6 DEF Store, FetchInv, ServedAt, Current, TypeOK
  <2>5. RereadInv'
    BY <1>6 DEF Store, FetchInv, RereadInv, TypeOK
  <2> QED
    BY <2>1, <2>2, <2>3, <2>4, <2>5
<1>7. ASSUME NEW c \in Callers, FetchFails(c) PROVE IInv'
  <2>1. PICK result \in {"stale", "failed"}, v \in Nat : Decide(c, kid[c], result, v)
    BY <1>7 DEF FetchFails, TypeOK, Current
  <2>2. TypeOK' /\ CacheInv' /\ FetchInv' /\ RereadInv'
    BY <1>7, <2>1, DecisionKeeps DEF FetchFails, TypeOK
  <2>3. VerdictInv'
    BY <2>1 DEF Decide, VerdictInv, WithdrawnKeyExpires, PublishedKeyIsFound
  <2> QED
    BY <2>2, <2>3
<1>8. ASSUME NEW c \in Callers, Reread(c) PROVE IInv'
  <2>1. version # 0 /\ now <= fetchedAt + MinRefresh
    BY <1>8 DEF Reread, RereadInv
  <2>2. ServedWithin(version, MinRefresh + FetchTimeout)
    <3>1. version \in 1..Current /\ now \in Nat /\ fetchedAt \in Nat
      BY <2>1 DEF TypeOK, Current
    <3> QED
      BY <2>1, <3>1, SuccessorType DEF CacheInv, ServedWithin
  <2>3. ServedWithin(version, Longest(TTL, MinRefresh) + FetchTimeout)
    <3>1. version \in 1..Current /\ now \in Nat
      BY <2>1 DEF TypeOK, Current
    <3> QED
      BY <2>2, <3>1, SuccessorType DEF ServedWithin, Longest
  <2>4. CASE kid[c] \in keys
    <3>1. Decide(c, kid[c], "accepted", version)
      BY <1>8, <2>4 DEF Reread
    <3>2. TypeOK' /\ CacheInv' /\ FetchInv' /\ RereadInv'
      <4>1. kid[c] \in Kids /\ version \in Nat /\ "accepted" \in {"accepted", "stale", "unknown", "failed"}
        BY DEF TypeOK, Current
      <4>2. UNCHANGED <<now, docs, version, fetchedAt>>
        BY <1>8 DEF Reread
      <4> QED
        BY <3>1, <4>1, <4>2, DecisionKeeps
    <3>3. VerdictInv'
      BY <1>8, <2>3, <2>4, <3>1 DEF Reread, Decide, VerdictInv, WithdrawnKeyExpires,
            PublishedKeyIsFound, ServedWithin, Current, keys, KeysOf
    <3> QED
      BY <3>2, <3>3
  <2>5. CASE kid[c] \notin keys
    <3>1. Decide(c, kid[c], "unknown", 0)
      BY <1>8, <2>5 DEF Reread
    <3>2. TypeOK' /\ CacheInv' /\ FetchInv' /\ RereadInv'
      BY <1>8, <3>1, DecisionKeeps DEF Reread, TypeOK, Current
    <3>3. version \in 1..Current
      BY <2>1 DEF TypeOK, Current
    <3>4. VerdictInv'
      BY <1>8, <2>2, <2>5, <3>1, <3>3 DEF Reread, Decide, VerdictInv, WithdrawnKeyExpires,
            PublishedKeyIsFound, ServedWithin, Current, keys, KeysOf
    <3> QED
      BY <3>2, <3>4
  <2> QED
    BY <2>4, <2>5
<1>9. ASSUME Rotate PROVE IInv'
  <2>1. VerdictInv'
    BY <1>9 DEF Rotate, VerdictInv, Undecided, WithdrawnKeyExpires, PublishedKeyIsFound
  <2>2. PICK ks \in SUBSET Kids : docs' = Append(docs, [kids |-> ks, since |-> now])
    BY <1>9 DEF Rotate
  <2>3. /\ Current' = Current + 1
        /\ docs'[Current + 1].since = now
        /\ \A i \in 1..Current : docs'[i] = docs[i]
    BY <2>2 DEF TypeOK, Current
  <2>4. TypeOK'
    BY <1>9, <2>2, <2>3, UndecidedIsVerdict DEF Rotate, TypeOK, Current
  <2>5. ASSUME NEW v \in 1..Current, NEW t \in Nat, NEW d \in Nat, t <= now,
               v = Current \/ docs[v + 1].since + d >= t
        PROVE  docs'[v + 1].since + d >= t
    <3>1. CASE v = Current
      BY <2>3, <2>5, <3>1 DEF TypeOK
    <3>2. CASE v # Current
      <4>1. v + 1 \in 1..Current
        BY <3>2 DEF TypeOK, Current
      <4> QED
        BY <2>3, <2>5, <3>2, <4>1
    <3> QED
      BY <3>1, <3>2
  <2>6. CacheInv'
    <3>1. version # 0 => version \in 1..Current
      BY DEF TypeOK, Current
    <3>2. fetchedAt \in Nat /\ fetchedAt <= now
      BY DEF TypeOK
    <3>3. version # 0 => docs'[version + 1].since + FetchTimeout >= fetchedAt
      BY <2>5, <3>1, <3>2 DEF CacheInv
    <3> QED
      BY <1>9, <3>3 DEF Rotate, CacheInv
  <2>7. FetchInv'
    <3>1. \A c \in Callers : pc[c] = "answered" => got[c] \in 1..Current /\ sentAt[c] \in Nat
      BY DEF FetchInv, TypeOK, Current
    <3>2. \A c \in Callers : pc[c] = "answered" => docs'[got[c] + 1].since >= sentAt[c]
      <4> SUFFICES ASSUME NEW c \in Callers, pc[c] = "answered"
                   PROVE  docs'[got[c] + 1].since >= sentAt[c]
        OBVIOUS
      <4>1. got[c] = Current \/ docs[got[c] + 1].since + 0 >= sentAt[c]
        BY <3>1, SuccessorType DEF FetchInv, ServedAt
      <4>2. sentAt[c] <= now
        BY DEF TypeOK
      <4>3. docs'[got[c] + 1].since + 0 >= sentAt[c]
        BY <2>5, <3>1, <4>1, <4>2
      <4>4. got[c] + 1 \in 1..Current'
        BY <2>3, <3>1 DEF TypeOK, Current
      <4>5. docs'[got[c] + 1].since \in Nat
        <5>1. docs' \in Seq([kids : SUBSET Kids, since : 0..MaxTime])
          BY <2>4 DEF TypeOK
        <5>2. docs'[got[c] + 1] \in [kids : SUBSET Kids, since : 0..MaxTime]
          BY <4>4, <5>1, ElementOfSeq DEF Current
        <5> QED
          BY <5>2
      <4> QED
        BY <4>3, <4>5
    <3> QED
      BY <1>9, <3>2 DEF Rotate, FetchInv, ServedAt
  <2>8. RereadInv'
    BY <1>9 DEF Rotate, RereadInv
  <2> QED
    BY <2>1, <2>4, <2>6, <2>7, <2>8
<1>10. ASSUME Tick PROVE IInv'
  <2>1. VerdictInv'
    BY <1>10 DEF Tick, VerdictInv, Undecided, WithdrawnKeyExpires, PublishedKeyIsFound
  <2>2. TypeOK'
    BY <1>10, UndecidedIsVerdict DEF Tick, TypeOK, Current
  <2>3. FetchInv'
    <3> SUFFICES ASSUME NEW c \in Callers, pc[c] \in {"sent", "answered"}
                 PROVE  now + 1 <= sentAt[c] + FetchTimeout
      BY <1>10 DEF Tick, FetchInv, ServedAt, Current
    <3>1. now - sentAt[c] < FetchTimeout
      BY <1>10 DEF Tick
    <3> QED
      BY <3>1 DEF TypeOK
  <2> QED
    BY <1>10, <2>1, <2>2, <2>3 DEF Tick, CacheInv, RereadInv, Current
<1>11. CASE UNCHANGED vars
  BY <1>11 DEF vars, CacheInv, FetchInv, RereadInv, VerdictInv, WithdrawnKeyExpires,
        PublishedKeyIsFound, ServedWithin, ServedAt, Current, KeysOf, TypeOK
<1> QED
  BY <1>1, <1>2, <1>3, <1>4, <1>5, <1>6, <1>7, <1>8, <1>9, <1>10, <1>11 DEF Next, Resolve

LEMMA Invariance == Spec => []IInv
  BY InitInvariant, NextInvariant, PTL DEF Spec

-------------------------------------------------------------------------------
(* Type correctness of the cache and of the lookups.                       *)
THEOREM TypeCorrect == Spec => []TypeOK
<1>1. IInv => TypeOK
  BY DEF IInv
<1> QED
  BY <1>1, Invariance, PTL

(* A withdrawn key stops being accepted within the longer of ttl and floor *)
(* and one fetch, whatever slower fetches overwrite (jwks.go:72-97).       *)
THEOREM WithdrawnExpires == Spec => []WithdrawnKeyExpires
<1>1. IInv => WithdrawnKeyExpires
  BY DEF IInv, VerdictInv
<1> QED
  BY <1>1, Invariance, PTL

(* A token is only refused for an unknown key if the endpoint served a set *)
(* without it within the floor and one fetch (jwks.go:90-97).              *)
THEOREM PublishedFound == Spec => []PublishedKeyIsFound
<1>1. IInv => PublishedKeyIsFound
  BY DEF IInv, VerdictInv
<1> QED
  BY <1>1, Invariance, PTL
===============================================================================
