------------------------------- MODULE Consume -------------------------------
(***************************************************************************)
(* One GET /topics/{topic}/consume: the handler (internal/api/consume.go), *)
(* the service and Client.Read (internal/kafka/client.go), reading a       *)
(* partition that other programs append to and that the broker truncates.  *)
(* Consume requests share no state, so the module follows one of them.     *)
(***************************************************************************)
EXTENDS ConsumeQuery, Order

CONSTANTS Queries,        \* the queries a client may send
          Records,        \* the records producers may append
          MaxLog,         \* bound on the records ever appended
          WriteTimeout    \* KRA_SERVER_WRITE_TIMEOUT

ASSUME QueriesAssumption == Queries \subseteq Query
ASSUME RecordsAssumption == Records \subseteq Record
ASSUME MaxLogAssumption == MaxLog \in Nat
ASSUME WriteTimeoutAssumption == WriteTimeout \in Int

VARIABLES log,       \* every record ever appended; log[o + 1] is at offset o
          low,       \* first offset retained by the broker
          pc,        \* where the handler is
          query,     \* the query being served
          elapsed,   \* time since the request was read
          pos,       \* the reader's position, or a sentinel offset
          out,       \* offsets of the messages read so far
          resp,      \* the response
          endBefore  \* history: the end of the log when the query was accepted

vars == <<log, low, pc, query, elapsed, pos, out, resp, endBefore>>

NoQuery == [partition |-> 0, offset |-> OffsetEarliest, from |-> NoTime, limit |-> 0,
            timeout |-> 0, key |-> AnyKey, header |-> <<>>, since |-> NoTime, until |-> NoTime]

NoResponse == [code |-> "none", scanned |-> <<>>, messages |-> <<>>, sent |-> FALSE]

high == Len(log)
At(o) == log[o + 1]

Init ==
    /\ log = <<>>
    /\ low = 0
    /\ pc = "idle"
    /\ query = NoQuery
    /\ elapsed = 0
    /\ pos = 0
    /\ out = <<>>
    /\ resp = NoResponse
    /\ endBefore = 0

-------------------------------------------------------------------------------
(* The handler and the service.                                            *)

(* A response written after the server's write deadline never arrives.     *)
Respond(code, scanned, messages, connected) ==
    /\ pc' = "done"
    /\ resp' = [code |-> code, scanned |-> scanned, messages |-> messages,
                sent |-> connected /\ elapsed <= WriteTimeout]

Fail(err, connected) == Respond(classify(err), <<>>, <<>>, connected)

(* Some parameter does not parse.                                          *)
Malformed ==
    /\ pc = "idle"
    /\ Fail(BadRequest, TRUE)
    /\ UNCHANGED <<log, low, query, elapsed, pos, out, endBefore>>

(* The service's validation refuses the query.                             *)
Refuse ==
    /\ pc = "idle"
    /\ \E q \in Queries :
          /\ QueryError(q) # NoError
          /\ query' = q
          /\ Fail(QueryError(q), TRUE)
    /\ UNCHANGED <<log, low, elapsed, pos, out, endBefore>>

(* The limits are clamped, the deadline is set and a reader is made.       *)
Accept ==
    /\ pc = "idle"
    /\ \E q \in Queries : QueryError(q) = NoError /\ query' = q
    /\ pc' = "seek"
    /\ endBefore' = high
    /\ UNCHANGED <<log, low, elapsed, pos, out, resp>>

-------------------------------------------------------------------------------
(* seek().                                                                 *)

SetPosition(p) ==
    /\ pos' = p
    /\ pc' = "start"
    /\ UNCHANGED <<log, low, query, elapsed, out, resp, endBefore>>

(* SeekTime of a program that looks for a later timestamp.                 *)
SeekTimeAfter ==
    /\ pc = "seek"
    /\ query.from # NoTime
    /\ LET late == {o \in low..(high - 1) : At(o).time > query.from}
       IN  SetPosition(IF late = {} THEN OffsetLatest ELSE Min(late))

(* The broker looks the time up: the first offset at or after it, or       *)
(* offset -1, which SetOffset takes for the end of the partition.          *)
SeekTime ==
    /\ pc = "seek"
    /\ query.from # NoTime
    /\ LET late == {o \in low..(high - 1) : At(o).time >= query.from}
       IN  SetPosition(IF late = {} THEN OffsetLatest ELSE Min(late))

(* resolveOffset keeps the two sentinels and absolute offsets as they are. *)
SeekOffset ==
    /\ pc = "seek"
    /\ query.from = NoTime
    /\ SetPosition(query.offset)

(* The time cannot be looked up.                                           *)
SeekFails ==
    /\ pc = "seek"
    /\ query.from # NoTime
    /\ \E e \in CallErrors \cup {TopicNotFound} : Fail(e, "Canceled" \notin e)
    /\ UNCHANGED <<log, low, query, elapsed, pos, out, endBefore>>

-------------------------------------------------------------------------------
(* The loop of Read.  The kafka-go Reader fetches in the background; its   *)
(* first fetch turns the position into an offset of the partition.         *)

Start ==
    /\ pc = "start"
    /\ pos <= high
    /\ pos' = CASE pos = OffsetEarliest -> low
                [] pos = OffsetLatest -> high
                [] OTHER -> Max({pos, low})
    /\ pc' = "read"
    /\ UNCHANGED <<log, low, query, elapsed, out, resp, endBefore>>

Scanned == Len(out)

(* ReadMessage of a program that puts the newest message first.            *)
ReadMessageNewestFirst ==
    /\ pc = "read"
    /\ Scanned < Limit(query)
    /\ \E o \in {pos, low} :
          /\ o >= pos /\ o < high
          /\ out' = <<o>> \o out
          /\ pos' = o + 1
    /\ UNCHANGED <<log, low, pc, query, elapsed, resp, endBefore>>

(* The next record: the one at the position, which may have been fetched   *)
(* before it was truncated, or the first one that is left.                 *)
ReadMessage ==
    /\ pc = "read"
    /\ Scanned < Limit(query)
    /\ \E o \in {pos, low} :
          /\ o >= pos /\ o < high
          /\ out' = Append(out, o)
          /\ pos' = o + 1
    /\ UNCHANGED <<log, low, pc, query, elapsed, resp, endBefore>>

(* ReadMessage returns an error that is not the end of the context: what   *)
(* was read is dropped.                                                    *)
ReadFails ==
    /\ pc \in {"start", "read"}
    /\ Scanned < Limit(query)
    /\ \E e \in {{"upstream"}, TopicNotFound} : Fail(e, TRUE)
    /\ UNCHANGED <<log, low, query, elapsed, pos, out, endBefore>>

(* The filter goes through the messages in their order.                    *)
Found ==
    LET kept == Ascending({i \in DOMAIN out : Matches(query, At(out[i]))})
    IN  [n \in DOMAIN kept |-> out[kept[n]]]

toConsumedMessages(found) == [i \in DOMAIN found |-> toConsumedMessage(found[i], At(found[i]))]

(* Read returns without an error and the service applies the filter.       *)
Return(connected) ==
    /\ Respond("ok", out, toConsumedMessages(Found), connected)
    /\ UNCHANGED <<log, low, query, elapsed, pos, out, endBefore>>

Full ==
    /\ pc = "read"
    /\ Scanned = Limit(query)
    /\ Return(TRUE)

(* TimesOut of a program that only looks at its budget between messages.   *)
TimesOutBetweenMessages ==
    /\ pc = "read"
    /\ elapsed >= Wait(query)
    /\ Return(TRUE)

TimesOut ==
    /\ pc \in {"start", "read"}
    /\ elapsed >= Wait(query)
    /\ Return(TRUE)

(* The client closes the connection; the loop ends as if timed out.        *)
ClientGoesAway ==
    /\ pc \in {"start", "read"}
    /\ Return(FALSE)

-------------------------------------------------------------------------------
(* The environment.                                                        *)

Tick ==
    /\ pc \in {"seek", "start", "read"}
    /\ elapsed < Wait(query)
    /\ elapsed' = elapsed + 1
    /\ UNCHANGED <<log, low, pc, query, pos, out, resp, endBefore>>

Produce ==
    /\ high < MaxLog
    /\ \E rec \in Records : log' = Append(log, rec)
    /\ UNCHANGED <<low, pc, query, elapsed, pos, out, resp, endBefore>>

(* Retention deletes the oldest record.                                    *)
Truncate ==
    /\ low < high
    /\ low' = low + 1
    /\ UNCHANGED <<log, pc, query, elapsed, pos, out, resp, endBefore>>

Seek == SeekTime \/ SeekOffset \/ SeekFails

Next ==
    \/ Malformed \/ Refuse \/ Accept
    \/ Seek
    \/ Start \/ ReadMessage \/ ReadFails \/ Full \/ TimesOut \/ ClientGoesAway
    \/ Tick \/ Produce \/ Truncate

Spec == Init /\ [][Next]_vars

(* Time passes; a seek ends with its deadline; a loop whose condition is   *)
(* false or whose context is done returns.  The broker owes no message.    *)
FairSpec == Spec /\ WF_vars(Tick) /\ WF_vars(Seek) /\ WF_vars(Full) /\ WF_vars(TimesOut)

-------------------------------------------------------------------------------
(* Properties.                                                             *)

Offset == 0..(MaxLog - 1)
Rendering == [text : Bytes \cup {base64(b) : b \in Bytes} \cup {quote(base64(b)) : b \in Bytes},
              encoding : {"", "utf8", "json", "base64"}]
Shown == [offset : Offset, key : Rendering, value : Rendering,
          headers : SUBSET {<<h[1], asString(h[2])>> : h \in Pairs}]

TypeOK ==
    /\ log \in Seq(Records)
    /\ low \in 0..high
    /\ pc \in {"idle", "seek", "start", "read", "done"}
    /\ query \in Queries \cup {NoQuery}
    /\ elapsed \in Nat
    /\ pos \in Int
    /\ out \in Seq(Offset) /\ Scanned <= MaxLimit
    /\ resp \in [code : Codes \cup {"none"}, scanned : Seq(Offset),
                 messages : Seq(Shown), sent : BOOLEAN]
    /\ endBefore \in 0..high

(* The window of a page is contiguous and in offset order: between its     *)
(* first and last record only what retention deleted is missing            *)
(* (client.go:82-95).                                                      *)
WindowContiguous ==
    \A i \in 2..Len(resp.scanned) :
        /\ resp.scanned[i - 1] < resp.scanned[i]
        /\ \A o \in (resp.scanned[i - 1] + 1)..(resp.scanned[i] - 1) : o < low

(* The documented filters (openapi.yaml:136-152): the key, the times, and  *)
(* all given headers.                                                      *)
Wanted(o) ==
    /\ query.key \in {AnyKey, At(o).key}
    /\ query.since = NoTime \/ At(o).time >= query.since
    /\ query.until = NoTime \/ At(o).time <= query.until
    /\ Range(query.header) \subseteq Range(At(o).headers)

(* No header name is given with two values.                                *)
NamedOnce ==
    \A i, j \in DOMAIN query.header :
        query.header[i][1] = query.header[j][1] => query.header[i] = query.header[j]

(* A page has all the wanted messages of its window, in order, and no      *)
(* others, unless the query gives a header name two values: of those the   *)
(* code keeps the last one (params.go:110), and the page can have more.    *)
FilterExact ==
    LET page == {m.offset : m \in Range(resp.messages)}
        wanted == {o \in Range(resp.scanned) : Wanted(o)}
    IN  /\ wanted \subseteq page /\ page \subseteq Range(resp.scanned)
        /\ NamedOnce => page = wanted
        /\ \A i \in 2..Len(resp.messages) : resp.messages[i - 1].offset < resp.messages[i].offset

(* A message of a page, sent back to the publish endpoint.                 *)
Republished(m) ==
    toMessage([key |-> m.key.text, value |-> m.value.text,
               encoding |-> m.value.encoding, headers |-> m.headers])

(* What a page shows of a record can be published again, with its tag as   *)
(* value_encoding, and is the same message, but for what a response cannot *)
(* say: a document is spelled the way encoding/json does, no value comes   *)
(* back as the document null, a key that is no UTF-8 as its base64 text,   *)
(* and each header name has one value, which is the record's if it is      *)
(* UTF-8 (params.go:115-139, consume.go:138-164, respond.go:18).           *)
ReplayKeepsMessages ==
    \A m \in Range(resp.messages) :
        LET record == At(m.offset)
        IN  /\ Republished(m) # {}
            /\ \A again \in Republished(m) :
                  /\ again.value = (IF record.value = Empty THEN Null ELSE compact(record.value))
                  /\ utf8Valid(record.key) => again.key = record.key
                  /\ \A h \in Range(again.headers) : h[2] # Replaced => h \in Range(record.headers)
                  /\ \A h \in Range(record.headers) :
                        Cardinality({g \in Range(again.headers) : g[1] = h[1]}) = 1

(* The records a query must not begin after: for "earliest" everything     *)
(* retained when it was accepted, for an absolute offset everything from   *)
(* it on, for a time everything accepted before it and not older.          *)
OwedFrom(o) ==
    IF query.from # NoTime
    THEN o < endBefore /\ At(o).time >= query.from
    ELSE query.offset # OffsetLatest /\ o >= query.offset

(* The records a query may begin with: none before its offset, and for     *)
(* "latest" none that was there when it was accepted.  For a time one that *)
(* is not older, or the one that is left where such a record was deleted;  *)
(* and when the look-up found none, one appended after the query.          *)
MayBeginWith(o) ==
    IF query.from = NoTime
    THEN o >= query.offset /\ (query.offset = OffsetLatest => o >= endBefore)
    ELSE \/ At(o).time >= query.from
         \/ o >= endBefore
         \/ \E gone \in 0..(low - 1) : gone < o /\ At(gone).time >= query.from

(* A page starts where the query says: no record it owes comes before its  *)
(* first one unless retention deleted it, and its first one is one it may  *)
(* begin with (client.go:101-115, 203-212).                                *)
StartsWhereAsked ==
    resp.scanned # <<>> =>
        /\ \A o \in low..(resp.scanned[1] - 1) : ~OwedFrom(o)
        /\ MayBeginWith(resp.scanned[1])

(* Every accepted query is answered, whatever the broker does, also when   *)
(* it starts at an offset the partition never reaches (client.go:86).      *)
EveryQueryAnswered == pc = "seek" ~> resp.code # "none"

(* "Start at the first offset whose timestamp is >= this value"            *)
(* (openapi.yaml:126; client.go:62-63).                                    *)
StartsAtTime ==
    query.from # NoTime /\ resp.scanned # <<>> => At(resp.scanned[1]).time >= query.from

(* "A consume timeout reached while waiting is not an error - whatever was *)
(* read so far is returned" (README.md:285-286).                           *)
TimeoutReturnsWhatWasRead ==
    [][TimesOut => resp'.sent]_vars
===============================================================================
