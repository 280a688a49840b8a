-------------------------------- MODULE Errors --------------------------------
(***************************************************************************)
(* Go error values and their HTTP classification (internal/api/errors.go). *)
(*                                                                         *)
(* An error is modelled by the set of sentinel errors that errors.Is finds *)
(* in its wrap chain: nil is {}, and an upstream failure that wraps no     *)
(* sentinel is {"upstream"}.  Messages and wrapping text are abstracted.   *)
(***************************************************************************)

Sentinels == {"ErrEmptyTopic", "ErrEmptyValue", "ErrNoMessages", "errBadRequest",
              "ErrInvalidQuery", "ErrTopicNotFound",
              "DeadlineExceeded", "Canceled", "upstream"}

NoError == {}
BadRequest == {"errBadRequest"}
TopicNotFound == {"ErrTopicNotFound"}

(* What a call to the Kafka client may fail with besides a protocol error  *)
(* about the topic: a plain failure, the deadline of the call (the         *)
(* client's Timeout), or the cancellation of the request's context when    *)
(* the HTTP client goes away.                                              *)
CallErrors == {{"upstream"}, {"upstream", "DeadlineExceeded"}, {"upstream", "Canceled"}}

(* The machine-readable codes of the error envelope; each stands for one   *)
(* HTTP status (400, 404, 504, 499, 502).  "ok" is a 200 response.         *)
ErrorCodes == {"invalid_request", "topic_not_found", "kafka_timeout",
               "client_closed_request", "kafka_error"}
Codes == ErrorCodes \cup {"ok"}

(* classify without its first case: the sentinels that answer 400 forgotten. *)
classifyNoValidation(err) ==
    IF "ErrTopicNotFound" \in err THEN "topic_not_found"
    ELSE IF "DeadlineExceeded" \in err THEN "kafka_timeout"
    ELSE IF "Canceled" \in err THEN "client_closed_request"
    ELSE "kafka_error"

(* The first case that matches decides.  ErrInvalidQuery has no case.      *)
classify(err) ==
    IF err \cap {"ErrEmptyTopic", "ErrEmptyValue", "ErrNoMessages", "errBadRequest"} # {}
    THEN "invalid_request"
    ELSE IF "ErrTopicNotFound" \in err THEN "topic_not_found"
    ELSE IF "DeadlineExceeded" \in err THEN "kafka_timeout"
    ELSE IF "Canceled" \in err THEN "client_closed_request"
    ELSE "kafka_error"
===============================================================================
