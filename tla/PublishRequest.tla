---------------------------- MODULE PublishRequest ----------------------------
(***************************************************************************)
(* What the two produce modes share: a publish request as it arrives, its  *)
(* validation by the handler (internal/api/publish.go) and the service     *)
(* (internal/service/publisher.go), and the response.                      *)
(***************************************************************************)
EXTENDS Errors, Naturals, Sequences

CONSTANTS Requests,      \* publish requests, each served by its own goroutine
          Keys,          \* message keys
          NoKey,         \* a message without a key
          MaxBatchSize   \* KRA_KAFKA_MAX_BATCH_SIZE

ASSUME MaxBatchSizeAssumption == MaxBatchSize \in Nat \ {0}
ASSUME NoKeyAssumption == NoKey \notin Keys

(* A message on the wire.  Its value either yields bytes, yields no bytes, *)
(* or is not what its value_encoding says (decodePublishValue fails).      *)
WireMessage == [key : Keys \cup {NoKey}, value : {"payload", "empty", "undecodable"}]

(* The batches a request may carry.  A longer one is treated like one of   *)
(* MaxBatchSize + 1 messages.  POST .../publish is a batch of one.         *)
Bodies == UNION {[1..n -> WireMessage] : n \in 0..(MaxBatchSize + 1)}

(* Why the handler or the service refuses a batch.  The code reports the   *)
(* first reason it meets.                                                  *)
ValidationErrors(topic, ms) ==
    {e \in Sentinels :
        \/ e = "errBadRequest"  /\ Len(ms) > MaxBatchSize
        \/ e = "errBadRequest"  /\ \E i \in DOMAIN ms : ms[i].value = "undecodable"
        \/ e = "ErrEmptyTopic"  /\ topic = ""
        \/ e = "ErrNoMessages"  /\ Len(ms) = 0
        \/ e = "ErrEmptyValue"  /\ \E i \in DOMAIN ms : ms[i].value = "empty"}

(* The errors of requests that never reach the producer: a body that       *)
(* decode() refuses, or a batch that does not validate.                    *)
RefusedWith ==
    {BadRequest} \cup {{e} : e \in UNION {ValidationErrors(t, ms) : t \in {"", "topic"}, ms \in Bodies}}

(* The batches that reach Producer.Produce: messages with a value, keyed   *)
(* or not.                                                                 *)
AcceptedBatches == {ms \in Bodies : ValidationErrors("topic", ms) = {}}

(* A response: its code, and for each record of a successful publish in    *)
(* "sync" mode the coordinate it was written to.                           *)
Coordinate == [partition : Nat, offset : Nat]
NoResponse == [code |-> "none", offsets |-> <<>>]
Failure(err) == [code |-> classify(err), offsets |-> <<>>]
Published(results) == [code |-> "ok", offsets |-> results]
===============================================================================
