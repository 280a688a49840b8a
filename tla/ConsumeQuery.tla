---------------------------- MODULE ConsumeQuery ----------------------------
(***************************************************************************)
(* A consume query: its validation and limits                              *)
(* (internal/service/consumer.go), its parameters (internal/api/params.go, *)
(* parseConsumeQuery), and the filter applied to what was read.            *)
(*                                                                         *)
(* Times and header names are abstract; a parameter that does not parse is *)
(* the action Malformed of module Consume.                                 *)
(***************************************************************************)
EXTENDS Errors, MessageCodec, Integers

CONSTANTS Keys,           \* record keys
          AnyKey,         \* no key parameter
          Pairs,          \* header name and value pairs <<name, value>>
          MaxTime,        \* timestamps are 0..MaxTime
          DefaultLimit,   \* KRA_KAFKA_CONSUME_DEFAULT_LIMIT
          MaxLimit,       \* KRA_KAFKA_CONSUME_MAX_LIMIT
          DefaultWait,    \* KRA_KAFKA_CONSUME_DEFAULT_TIMEOUT
          MaxWait         \* KRA_KAFKA_CONSUME_MAX_TIMEOUT

(* What config.validate() makes sure of, and no more.                      *)
ASSUME LimitAssumption == DefaultLimit \in Nat \ {0} /\ MaxLimit \in Nat /\ MaxLimit >= DefaultLimit
ASSUME WaitAssumption == DefaultWait \in Int /\ MaxWait \in Int /\ MaxWait >= DefaultWait
ASSUME TimeAssumption == MaxTime \in Nat
ASSUME KeysAssumption == Keys \subseteq Bytes /\ AnyKey \notin Keys
ASSUME PairsAssumption == \A p \in Pairs : p = <<p[1], p[2]>> /\ p[2] \in Bytes

NoTime == -1
Time == 0..MaxTime

OffsetEarliest == -2
OffsetLatest == -1

(* A record: several headers may have one name.                            *)
Record == [key : Keys, value : Bytes, headers : Seq(Pairs), time : Time]

(* The query as the handler has parsed it; "header" is still the list of   *)
(* header parameters.                                                      *)
Query == [partition : Int, offset : Int, from : Time \cup {NoTime}, limit : Int,
          timeout : Nat, key : Keys \cup {AnyKey}, header : Seq(Pairs),
          since : Time \cup {NoTime}, until : Time \cup {NoTime}]

(* The required headers: out[name] = value for each parameter in turn.     *)
headerFilters(raw) == asMap(raw)

(* The checks of ConsumerService.Consume.                                  *)
QueryError(q) ==
    IF \/ q.partition < 0
       \/ q.since # NoTime /\ q.until # NoTime /\ q.until < q.since
    THEN {"ErrInvalidQuery"}
    ELSE NoError

(* clamp of a program that forgets the maximum.                            *)
clampDefaultOnly(v, def, max) == IF v <= 0 THEN def ELSE v

(* clamp and clampDuration.                                                *)
clamp(v, def, max) ==
    LET w == IF v <= 0 THEN def ELSE v
    IN  IF w > max THEN max ELSE w

Limit(q) == clamp(q.limit, DefaultLimit, MaxLimit)
Wait(q) == clamp(q.timeout, DefaultWait, MaxWait)

(* Matches of a program whose upper time bound is exclusive.               *)
MatchesUntilExclusive(q, m) ==
    /\ q.key # AnyKey => m.key = q.key
    /\ q.since # NoTime => m.time >= q.since
    /\ q.until # NoTime => m.time < q.until
    /\ headerFilters(q.header) \subseteq Range(m.headers)

(* MessageFilter.Matches; hasHeader looks for a header with the name and   *)
(* the value.                                                              *)
Matches(q, m) ==
    /\ q.key # AnyKey => m.key = q.key
    /\ q.since # NoTime => m.time >= q.since
    /\ q.until # NoTime => m.time <= q.until
    /\ headerFilters(q.header) \subseteq Range(m.headers)
===============================================================================
