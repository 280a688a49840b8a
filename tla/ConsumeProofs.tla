----------------------------- MODULE ConsumeProofs -----------------------------
(***************************************************************************)
(* Proofs about Consume, for any queries, records and header pairs, any    *)
(* limits, waits and write timeout the configuration accepts, and any      *)
(* number of records appended and truncated.                               *)
(***************************************************************************)
EXTENDS Consume, OrderProofs

(* What each stage of the handler has: no response before the end, and     *)
(* nothing read before the reader has a position in the partition.         *)
StageInv ==
    /\ high <= MaxLog
    /\ pc # "done" => resp = NoResponse
    /\ pc \in {"idle", "seek", "start"} => out = <<>>
    /\ pc \in {"seek", "start", "read"} => query \in Queries
    /\ pc = "read" => Scanned <= Limit(query) /\ pos \in 0..high

(* What was read lies in the log, in order, and only what was truncated is *)
(* missing in between; the reader stands right behind it.                  *)
WindowInv ==
    /\ \A i \in DOMAIN out : out[i] < high
    /\ \A i, j \in DOMAIN out : i < j => out[i] < out[j]
    /\ \A i \in 2..Len(out) : \A o \in (out[i - 1] + 1)..(out[i] - 1) : o < low
    /\ pc = "read" /\ out # <<>> => pos = out[Len(out)] + 1

(* A page may begin at position p, where there need not be a record yet.   *)
MayBeginAt(p) ==
    IF query.from = NoTime
    THEN p >= query.offset /\ (query.offset = OffsetLatest => p >= endBefore)
    ELSE \/ p < high /\ At(p).time >= query.from
         \/ p >= endBefore
         \/ \E gone \in 0..(low - 1) : gone < p /\ At(gone).time >= query.from

(* Nothing the query owes is retained before p, and the page may begin     *)
(* there.                                                                  *)
Sought(p) ==
    /\ \A o \in low..(p - 1) : ~OwedFrom(o)
    /\ MayBeginAt(p)

(* What a time was looked up to be.                                        *)
LookedUp(p) ==
    \/ p = OffsetLatest /\ \A o \in low..(high - 1) : ~OwedFrom(o)
    \/ /\ p \in 0..(high - 1) /\ At(p).time >= query.from
       /\ \A o \in low..(p - 1) : ~OwedFrom(o)

StartInv ==
    /\ pc = "start" =>
          IF query.from = NoTime THEN pos = query.offset ELSE LookedUp(pos)
    /\ pc = "read" /\ out = <<>> => Sought(pos)
    /\ out # <<>> => Sought(out[1])

(* A page shows records of the window as the codec renders them.           *)
PageInv ==
    /\ resp.scanned \in {<<>>, out}
    /\ \A m \in Range(resp.messages) :
          /\ m.offset \in 0..(high - 1)
          /\ m = toConsumedMessage(m.offset, At(m.offset))
    /\ FilterExact

IInv == TypeOK /\ StageInv /\ WindowInv /\ StartInv /\ PageInv
-------------------------------------------------------------------------------
(* The codec: what a response shows of a record, and what the publish      *)
(* endpoint makes of that.                                                 *)

LEMMA ShownBytes ==
    ASSUME NEW b \in Bytes
    PROVE  encodeKey(b) \in Rendering /\ respondJSON(encodeValue(b)) \in Rendering
<1>1. Null \in Bytes /\ Empty \in Bytes
  BY DEF Bytes
<1>1a. /\ compact(b) \in Bytes /\ compact(Null) = Null
       /\ compact(quote(base64(b))) = quote(base64(b))
  <2>1. compact(Null) = Null /\ compact(quote(base64(b))) = quote(base64(b))
    BY DEF compact, Null, quote
  <2>2. CASE b \in {spelled(Document), spelled(quote(Text))}
    <3>1. compact(spelled(Document)) = Document /\ compact(spelled(quote(Text))) = quote(Text)
      BY DEF compact, spelled
    <3>2. Document \in Bytes /\ quote(Text) \in Bytes
      BY DEF Bytes
    <3>3. QED
      BY <2>1, <2>2, <3>1, <3>2
  <2>3. CASE b \notin {spelled(Document), spelled(quote(Text))}
    BY <2>3 DEF compact, Bytes, Empty, Null, Document, Text, Binary, quote, base64
  <2>4. QED
    BY <2>1, <2>2, <2>3
<1>2. /\ base64(b) \in Bytes \cup {base64(c) : c \in Bytes} \cup {quote(base64(c)) : c \in Bytes}
      /\ quote(base64(b)) \in Bytes \cup {base64(c) : c \in Bytes} \cup {quote(base64(c)) : c \in Bytes}
  OBVIOUS
<1>3. encodeKey(b) \in Rendering
  BY <1>1, <1>2 DEF Rendering, encodeKey
<1>4. respondJSON(encodeValue(b)) \in Rendering
  <2>1. CASE b = Empty
    BY <1>1, <1>1a, <2>1 DEF Rendering, encodeValue, respondJSON
  <2>2. CASE b # Empty /\ jsonValid(b)
    BY <1>1a, <2>2 DEF Rendering, encodeValue, respondJSON
  <2>3. CASE b # Empty /\ ~jsonValid(b)
    BY <1>1a, <1>2, <2>3 DEF Rendering, encodeValue, respondJSON
  <2>4. QED
    BY <2>1, <2>2, <2>3
<1>5. QED
  BY <1>3, <1>4

LEMMA KeyComesBack == \A b \in Bytes : utf8Valid(b) => encodeKey(b).text = b
  BY DEF encodeKey

(* A value comes back as it is, whatever its rendering, but for the        *)
(* spelling of a document; none comes back as null.                        *)
LEMMA ValueComesBack ==
    ASSUME NEW b \in Bytes
    PROVE  LET shown == respondJSON(encodeValue(b))
           IN  decodePublishValue(shown.text, shown.encoding)
                  = {IF b = Empty THEN Null ELSE compact(b)}
<1>0. /\ compact(Null) = Null /\ compact(quote(base64(b))) = quote(base64(b))
      /\ ~jsonValid(b) => compact(b) = b
  BY DEF compact, Null, quote, jsonValid
<1>1. CASE b = Empty
  BY <1>0, <1>1 DEF encodeValue, respondJSON, decodePublishValue
<1>2. CASE b # Empty /\ jsonValid(b)
  BY <1>2 DEF encodeValue, respondJSON, decodePublishValue
<1>3. CASE b # Empty /\ ~jsonValid(b)
  <2>1. respondJSON(encodeValue(b)) = [text |-> quote(base64(b)), encoding |-> "base64"]
    BY <1>0, <1>3 DEF encodeValue, respondJSON
  <2>2. unmarshalString(quote(base64(b))) = {base64(b)}
    BY <1>0 DEF unmarshalString, quote
  <2>3. decodeBase64(base64(b)) = {b}
    BY DEF decodeBase64, base64
  <2>4. UNION {decodeBase64(c) : c \in {base64(b)}} = {b}
    BY <2>3
  <2>5. decodePublishValue(quote(base64(b)), "base64") = {b}
    BY <2>2, <2>4 DEF decodePublishValue
  <2>6. QED
    BY <1>0, <1>3, <2>1, <2>5
<1>4. QED
  BY <1>1, <1>2, <1>3

(* The headers of a response: finitely many, each the rendering of a       *)
(* header of the record, and one for each name the record has.             *)
LEMMA ShownHeaders ==
    ASSUME NEW pairs \in Seq(Pairs)
    PROVE  LET shown == {<<h[1], asString(h[2])>> : h \in asMap(pairs)}
           IN  /\ shown \subseteq {<<h[1], asString(h[2])>> : h \in Pairs}
               /\ IsFiniteSet(shown)
               /\ \A h \in shown : h[2] # Replaced => h \in Range(pairs)
               /\ \A h \in Range(pairs) : Cardinality({g \in shown : g[1] = h[1]}) = 1
<1> DEFINE last(i) == \A k \in DOMAIN pairs : k > i => pairs[k][1] # pairs[i][1]
           I == {i \in DOMAIN pairs : last(i)}
           show(p) == <<p[1], asString(p[2])>>
           shown == {show(h) : h \in asMap(pairs)}
<1>1. /\ Len(pairs) \in Nat /\ DOMAIN pairs = 1..Len(pairs)
      /\ \A i \in DOMAIN pairs : pairs[i] \in Pairs
  OBVIOUS
<1>2. asMap(pairs) = {pairs[i] : i \in I}
  BY DEF asMap
<1>3. \A h \in asMap(pairs) : h \in Pairs /\ h \in Range(pairs)
  BY <1>1, <1>2 DEF Range
<1>4. IsFiniteSet(shown)
  <2> DEFINE f == [i \in I |-> show(pairs[i])]
  <2>1. shown = {f[i] : i \in I}
    BY <1>2
  <2>2. f \in Surjection(I, shown)
    BY <2>1 DEF Surjection
  <2>3. IsFiniteSet(1..Len(pairs)) /\ I \in SUBSET (1..Len(pairs))
    BY <1>1, FS_Interval
  <2>4. IsFiniteSet(I)
    BY <2>3, FS_Subset
  <2>5. QED
    BY <2>2, <2>4, FS_Surjection
<1>5. ASSUME NEW h \in shown, h[2] # Replaced PROVE h \in Range(pairs)
  <2>1. PICK p \in asMap(pairs) : h = show(p)
    OBVIOUS
  <2>2. p = <<p[1], p[2]>> /\ p \in Range(pairs)
    BY <1>3, PairsAssumption
  <2>3. asString(p[2]) = p[2]
    BY <1>5, <2>1 DEF asString
  <2>4. QED
    BY <2>1, <2>2, <2>3
<1>6. ASSUME NEW h \in Range(pairs) PROVE Cardinality({g \in shown : g[1] = h[1]}) = 1
  <2> DEFINE J == {j \in DOMAIN pairs : pairs[j][1] = h[1]}
  <2>1. IsFiniteSet(J) /\ J \in SUBSET Int /\ J # {}
    <3>1. J \in SUBSET (1..Len(pairs)) /\ IsFiniteSet(1..Len(pairs))
      BY <1>1, FS_Interval
    <3>2. J # {}
      BY DEF Range
    <3>3. QED
      BY <3>1, <3>2, FS_Subset
  <2>2. PICK m \in J : \A j \in J : j <= m
    BY <2>1, LeastAndGreatest
  <2>3. m \in I
    BY <1>1, <2>2
  <2>4. ASSUME NEW i \in I, pairs[i][1] = h[1] PROVE i = m
    BY <1>1, <2>2, <2>3, <2>4
  <2>5. show(pairs[m]) \in shown /\ show(pairs[m])[1] = h[1]
    BY <1>2, <2>2, <2>3
  <2>6. ASSUME NEW g \in shown, g[1] = h[1] PROVE g = show(pairs[m])
    <3>1. PICK i \in I : g = show(pairs[i])
      BY <1>2
    <3>2. pairs[i][1] = h[1]
      BY <2>6, <3>1
    <3>3. QED
      BY <2>4, <3>1, <3>2
  <2>7. {g \in shown : g[1] = h[1]} = {show(pairs[m])}
    BY <2>5, <2>6
  <2>8. QED
    BY <2>7, FS_Singleton
<1>7. shown \subseteq {<<h[1], asString(h[2])>> : h \in Pairs}
  BY <1>3
<1>8. QED
  BY <1>4, <1>5, <1>6, <1>7

-------------------------------------------------------------------------------
(* Lemmas about the other operators.                                       *)

LEMMA Classified == \A err : classify(err) \in Codes
  BY DEF classify, Codes, ErrorCodes

LEMMA QueryType ==
    /\ \A q \in Queries \cup {NoQuery} : q \in Query
    /\ NoQuery \in Query
<1>1. NoQuery \in Query
  BY DEF NoQuery, Query, NoTime, OffsetEarliest
<1>2. QED
  BY <1>1, QueriesAssumption

LEMMA LimitBound == \A q \in Query : Limit(q) \in Int /\ Limit(q) <= MaxLimit
  BY LimitAssumption DEF Query, Limit, clamp

(* A record of the log, by its offset.                                     *)
LEMMA RecordAt ==
    ASSUME TypeOK, StageInv, NEW o \in 0..(high - 1)
    PROVE  /\ At(o) \in Record /\ o \in Offset
           /\ At(o).key \in Bytes /\ At(o).value \in Bytes
           /\ At(o).headers \in Seq(Pairs) /\ At(o).time \in Int
<1>1. At(o) \in Records
  BY DEF TypeOK, At, high
<1>2. At(o) \in Record
  BY <1>1, RecordsAssumption
<1>3. o \in Offset
  BY MaxLogAssumption DEF TypeOK, StageInv, Offset, high
<1>4. QED
  BY <1>2, <1>3, KeysAssumption, TimeAssumption DEF Record, Time

LEMMA ShownType ==
    ASSUME TypeOK, StageInv, NEW o \in 0..(high - 1)
    PROVE  toConsumedMessage(o, At(o)) \in Shown
<1>1. encodeKey(At(o).key) \in Rendering /\ respondJSON(encodeValue(At(o).value)) \in Rendering
  BY RecordAt, ShownBytes
<1>2. {<<h[1], asString(h[2])>> : h \in asMap(At(o).headers)}
         \in SUBSET {<<h[1], asString(h[2])>> : h \in Pairs}
  BY RecordAt, ShownHeaders
<1>3. QED
  BY <1>1, <1>2, RecordAt DEF toConsumedMessage, Shown

(* The code's filter keeps every wanted record, and no other when no       *)
(* header name is given two values: the last value given for a name is     *)
(* then the only one.                                                      *)
LEMMA MatchesWanted ==
    ASSUME TypeOK
    PROVE  \A o : (Wanted(o) => Matches(query, At(o)))
                 /\ (NamedOnce => (Matches(query, At(o)) => Wanted(o)))
<1> DEFINE hs == query.header
<1>1. headerFilters(hs) \subseteq Range(hs)
  BY DEF headerFilters, asMap, Range
<1>2. ASSUME NamedOnce PROVE Range(hs) \subseteq headerFilters(hs)
  <2> SUFFICES ASSUME NEW i \in DOMAIN hs PROVE hs[i] \in headerFilters(hs)
    BY DEF Range
  <2>1. PICK n \in Nat : DOMAIN hs = 1..n
    BY QueryType DEF TypeOK, Query
  <2> DEFINE J == {j \in DOMAIN hs : hs[j][1] = hs[i][1]}
  <2>2. IsFiniteSet(J) /\ J \in SUBSET Int /\ J # {}
    <3>1. J \in SUBSET (1..n) /\ IsFiniteSet(1..n) /\ i \in J
      BY <2>1, FS_Interval
    <3>2. QED
      BY <3>1, FS_Subset
  <2>3. PICK m \in J : \A j \in J : j <= m
    BY <2>2, LeastAndGreatest
  <2>4. \A k \in DOMAIN hs : k > m => hs[k][1] # hs[m][1]
    BY <2>1, <2>3
  <2>5. hs[m] \in headerFilters(hs)
    BY <2>3, <2>4 DEF headerFilters, asMap
  <2>6. hs[m] = hs[i]
    BY <1>2, <2>3 DEF NamedOnce
  <2>7. QED
    BY <2>5, <2>6
<1> HIDE DEF hs
<1>3. ASSUME NEW o, Wanted(o) PROVE Matches(query, At(o))
  BY <1>1, <1>3 DEF Matches, Wanted, hs
<1>4. ASSUME NEW o, NamedOnce, Matches(query, At(o)) PROVE Wanted(o)
  BY <1>2, <1>4 DEF Matches, Wanted, hs
<1>5. QED
  BY <1>3, <1>4

(* The filter keeps the messages that match, in their order.               *)
LEMMA FoundFacts ==
    ASSUME TypeOK, WindowInv
    PROVE  /\ Found \in Seq(0..(high - 1))
           /\ Range(Found) = {o \in Range(out) : Matches(query, At(o))}
           /\ \A i, j \in DOMAIN Found : i < j => Found[i] < Found[j]
<1> DEFINE I == {i \in DOMAIN out : Matches(query, At(out[i]))}
           kept == Ascending(I)
<1>1. PICK n \in Nat : DOMAIN out = 1..n
  BY DEF TypeOK
<1>2. I \in SUBSET Int /\ IsFiniteSet(I)
  <2>1. I \in SUBSET (1..n) /\ IsFiniteSet(1..n)
    BY <1>1, FS_Interval
  <2>2. QED
    BY <2>1, FS_Subset
<1>3. PICK k \in Nat : k = Cardinality(I)
  BY <1>2, FS_CardinalityType
<1> HIDE DEF I
<1>4. /\ kept \in Seq(I) /\ DOMAIN kept = 1..k
      /\ \A x \in I : \E m \in 1..k : kept[m] = x
      /\ \A i, j \in 1..k : i < j => kept[i] < kept[j]
  BY <1>2, <1>3, AscendingOrders
<1>5. Found = [m \in 1..k |-> out[kept[m]]]
  BY <1>4 DEF Found, I
<1>6. \A m \in 1..k : kept[m] \in I
  BY <1>4
<1> HIDE DEF kept
<1>7. \A i \in I : i \in DOMAIN out /\ Matches(query, At(out[i]))
  BY DEF I
<1>8. \A i \in DOMAIN out : out[i] \in 0..(high - 1)
  BY MaxLogAssumption DEF TypeOK, WindowInv, Offset, high
<1>9. Found \in Seq(0..(high - 1))
  <2>1. Found \in [1..k -> 0..(high - 1)]
    BY <1>5, <1>6, <1>7, <1>8
  <2>2. \A S : Found \in [1..k -> S] => Found \in Seq(S)
    BY <1>3
  <2>3. QED
    BY <2>1, <2>2
<1>10. Range(Found) = {o \in Range(out) : Matches(query, At(o))}
  <2>1. ASSUME NEW o \in Range(out), Matches(query, At(o)) PROVE \E m \in 1..k : o = out[kept[m]]
    <3>1. PICK i \in DOMAIN out : o = out[i]
      BY DEF Range
    <3>2. i \in I
      BY <2>1, <3>1 DEF I
    <3>3. QED
      BY <1>4, <3>1, <3>2
  <2>2. \A m \in 1..k : out[kept[m]] \in Range(out) /\ Matches(query, At(out[kept[m]]))
    BY <1>6, <1>7 DEF Range
  <2>3. Range(Found) = {out[kept[m]] : m \in 1..k}
    BY <1>5 DEF Range
  <2>4. QED
    BY <2>1, <2>2, <2>3
<1>11. \A i, j \in 1..k : i < j => Found[i] < Found[j]
  BY <1>4, <1>5, <1>6, <1>7 DEF WindowInv
<1>12. DOMAIN Found = 1..k
  BY <1>5
<1>13. QED
  BY <1>9, <1>10, <1>11, <1>12

(* What the page of a loop that returns shows.                             *)
LEMMA PageFacts ==
    ASSUME TypeOK, StageInv, WindowInv
    PROVE  LET page == toConsumedMessages(Found)
           IN  /\ page \in Seq(Shown)
               /\ \A m \in Range(page) : /\ m.offset \in 0..(high - 1)
                                          /\ m = toConsumedMessage(m.offset, At(m.offset))
               /\ {m.offset : m \in Range(page)} = {o \in Range(out) : Matches(query, At(o))}
               /\ \A i \in 2..Len(page) : page[i - 1].offset < page[i].offset
<1> DEFINE show(o) == toConsumedMessage(o, At(o))
           page == toConsumedMessages(Found)
<1>1. PICK k \in Nat : DOMAIN Found = 1..k /\ \A i \in 1..k : Found[i] \in 0..(high - 1)
  <2>1. Found \in Seq(0..(high - 1))
    BY FoundFacts
  <2>2. \A S : Found \in Seq(S) =>
           Len(Found) \in Nat /\ DOMAIN Found = 1..Len(Found) /\ \A i \in 1..Len(Found) : Found[i] \in S
    OBVIOUS
  <2>3. QED
    BY <2>1, <2>2
<1>2. page = [i \in 1..k |-> show(Found[i])]
  BY <1>1 DEF toConsumedMessages
<1>3. \A o \in 0..(high - 1) : show(o) \in Shown
  BY ShownType
<1>4. \A o : show(o).offset = o
  BY DEF toConsumedMessage
<1> HIDE DEF page, show
<1>5. page \in Seq(Shown) /\ Len(page) = k
  <2>1. page \in [1..k -> Shown]
    BY <1>1, <1>2, <1>3
  <2>2. QED
    BY <2>1
<1>6. Range(page) = {show(o) : o \in Range(Found)}
  BY <1>1, <1>2 DEF Range
<1>7. \A o \in Range(Found) : o \in 0..(high - 1)
  BY <1>1 DEF Range
<1>8. \A m \in Range(page) : m.offset \in 0..(high - 1) /\ m = show(m.offset)
  BY <1>4, <1>6, <1>7
<1>9. {m.offset : m \in Range(page)} = Range(Found)
  BY <1>4, <1>6
<1>10. ASSUME NEW i \in 2..k PROVE page[i - 1].offset < page[i].offset
  <2>1. i - 1 \in 1..k /\ i \in 1..k /\ i - 1 < i
    BY <1>1
  <2>2. Found[i - 1] < Found[i]
    BY <1>1, <2>1, FoundFacts
  <2>3. page[i - 1].offset = Found[i - 1] /\ page[i].offset = Found[i]
    BY <1>2, <1>4, <2>1
  <2>4. QED
    BY <2>2, <2>3
<1>11. QED
  BY <1>5, <1>8, <1>9, <1>10, FoundFacts DEF show, page

-------------------------------------------------------------------------------
LEMMA InitInvariant == Init => IInv
<1> SUFFICES ASSUME Init PROVE IInv
  OBVIOUS
<1> USE DEF Init
<1>1. high = 0 /\ Scanned = 0
  BY DEF high, Scanned
<1>2. TypeOK
  BY <1>1, LimitAssumption DEF TypeOK, NoResponse
<1>3. StageInv
  BY <1>1, MaxLogAssumption DEF StageInv
<1>4. WindowInv
  BY DEF WindowInv
<1>5. StartInv
  BY DEF StartInv
<1>6. PageInv
  BY DEF PageInv, FilterExact, NoResponse, Range
<1>7. QED
  BY <1>2, <1>3, <1>4, <1>5, <1>6 DEF IInv

(* A response ends the request; an error shows nothing.                    *)
LEMMA RespondStep ==
    ASSUME IInv, NEW code \in Codes, NEW scanned \in {<<>>, out}, NEW page \in Seq(Shown),
           NEW connected \in BOOLEAN, Respond(code, scanned, page, connected),
           UNCHANGED <<log, low, elapsed, pos, out, endBefore>>,
           query' \in Queries \cup {NoQuery}, query' = query \/ out = <<>>,
           \A m \in Range(page) : /\ m.offset \in 0..(high - 1)
                                  /\ m = toConsumedMessage(m.offset, At(m.offset)),
           FilterExact'
    PROVE  IInv'
<1> USE DEF IInv, Respond
<1>1. /\ resp' = [code |-> code, scanned |-> scanned, messages |-> page,
                  sent |-> connected /\ elapsed <= WriteTimeout]
      /\ pc' = "done" /\ high' = high /\ Scanned' = Scanned
  BY DEF high, Scanned
<1>2. TypeOK'
  <2>1. scanned \in Seq(Offset)
    <3>1. out \in Seq(Offset)
      BY DEF TypeOK
    <3>2. <<>> \in Seq(Offset)
      OBVIOUS
    <3>3. QED
      BY <3>1, <3>2
  <2>2. (connected /\ elapsed <= WriteTimeout) \in BOOLEAN
    OBVIOUS
  <2>3. resp' \in [code : Codes \cup {"none"}, scanned : Seq(Offset),
                   messages : Seq(Shown), sent : BOOLEAN]
    BY <1>1, <2>1, <2>2
  <2>4. QED
    BY <1>1, <2>3 DEF TypeOK, high
<1>3. StageInv'
  BY <1>1 DEF StageInv, high
<1>4. WindowInv'
  BY <1>1 DEF WindowInv, high
<1>5. StartInv'
  BY <1>1 DEF StartInv, LookedUp, Sought, MayBeginAt, OwedFrom, At
<1>6. PageInv'
  <2>1. \A m \in Range(page) : m = toConsumedMessage(m.offset, At(m.offset)')
    BY DEF At
  <2>2. QED
    BY <1>1, <2>1 DEF PageInv
<1>7. QED
  BY <1>2, <1>3, <1>4, <1>5, <1>6

LEMMA FailStep ==
    ASSUME IInv, NEW e, NEW connected \in BOOLEAN, Fail(e, connected),
           UNCHANGED <<log, low, elapsed, pos, out, endBefore>>,
           query' \in Queries \cup {NoQuery}, query' = query \/ out = <<>>
    PROVE  IInv'
<1>1. Respond(classify(e), <<>>, <<>>, connected) /\ classify(e) \in Codes
  BY Classified DEF Fail
<1>2. resp'.scanned = <<>> /\ resp'.messages = <<>>
  BY <1>1 DEF Respond
<1>3. FilterExact'
  BY <1>2 DEF FilterExact, Range
<1>4. /\ <<>> \in Seq(Shown) /\ <<>> \in {<<>>, out}
      /\ \A m \in Range(<<>>) : /\ m.offset \in 0..(high - 1)
                                /\ m = toConsumedMessage(m.offset, At(m.offset))
  BY DEF Range
<1>5. QED
  BY <1>1, <1>3, <1>4, RespondStep

LEMMA ErrorKeeps == ASSUME IInv, Malformed \/ Refuse \/ SeekFails \/ ReadFails PROVE IInv'
<1> USE DEF IInv
<1>1. query \in Queries \cup {NoQuery} /\ (pc = "idle" => out = <<>>)
  BY DEF TypeOK, StageInv
<1>2. CASE Malformed
  BY <1>1, <1>2, FailStep DEF Malformed
<1>3. CASE Refuse
  <2>1. PICK q \in Queries : query' = q /\ Fail(QueryError(q), TRUE)
    BY <1>3 DEF Refuse
  <2>2. UNCHANGED <<log, low, elapsed, pos, out, endBefore>> /\ out = <<>>
    BY <1>1, <1>3 DEF Refuse
  <2>3. QED
    BY <2>1, <2>2, FailStep
<1>4. CASE SeekFails
  <2>1. PICK e : Fail(e, "Canceled" \notin e)
    BY <1>4 DEF SeekFails
  <2>2. ("Canceled" \notin e) \in BOOLEAN
    OBVIOUS
  <2>3. UNCHANGED <<log, low, elapsed, pos, out, endBefore>> /\ query' = query
    BY <1>4 DEF SeekFails
  <2>4. QED
    BY <1>1, <2>1, <2>2, <2>3, FailStep
<1>5. CASE ReadFails
  BY <1>1, <1>5, FailStep DEF ReadFails
<1>6. QED
  BY <1>2, <1>3, <1>4, <1>5

LEMMA ReturnKeeps == ASSUME IInv, Full \/ TimesOut \/ ClientGoesAway PROVE IInv'
<1> USE DEF IInv
<1>1. PICK connected \in BOOLEAN : Return(connected)
  BY DEF Full, TimesOut, ClientGoesAway
<1>2. /\ Respond("ok", out, toConsumedMessages(Found), connected) /\ "ok" \in Codes
      /\ UNCHANGED <<log, low, query, elapsed, pos, out, endBefore>>
      /\ query \in Queries \cup {NoQuery}
  BY <1>1 DEF Return, Codes, TypeOK
<1> DEFINE page == toConsumedMessages(Found)
<1>3. /\ page \in Seq(Shown)
      /\ \A m \in Range(page) : /\ m.offset \in 0..(high - 1)
                                 /\ m = toConsumedMessage(m.offset, At(m.offset))
      /\ {m.offset : m \in Range(page)} = {o \in Range(out) : Matches(query, At(o))}
      /\ \A i \in 2..Len(page) : page[i - 1].offset < page[i].offset
  BY PageFacts
<1>4. resp'.scanned = out /\ resp'.messages = page
  BY <1>2 DEF Respond
<1> HIDE DEF page
<1>5. FilterExact'
  <2>1. (\A o : Wanted(o)' <=> Wanted(o)) /\ (NamedOnce' <=> NamedOnce)
    BY <1>2 DEF Wanted, NamedOnce, At
  <2>2. {o \in Range(out) : Wanted(o)'} = {o \in Range(out) : Wanted(o)}
    BY <2>1
  <2>3. /\ {o \in Range(out) : Wanted(o)} \subseteq {o \in Range(out) : Matches(query, At(o))}
        /\ NamedOnce => {o \in Range(out) : Matches(query, At(o))} = {o \in Range(out) : Wanted(o)}
    BY MatchesWanted
  <2>4. QED
    BY <1>3, <1>4, <2>1, <2>2, <2>3 DEF FilterExact
<1>6. QED
  BY <1>2, <1>3, <1>5, RespondStep DEF page

(* Before there is a response, nothing is shown.                           *)
LEMMA NothingShown ==
    ASSUME IInv, pc # "done", resp' = resp
    PROVE  PageInv'
<1>1. resp' = NoResponse
  BY DEF IInv, StageInv
<1>2. QED
  BY <1>1 DEF PageInv, FilterExact, NoResponse, Range

LEMMA AcceptKeeps == ASSUME IInv, Accept PROVE IInv'
<1> USE DEF IInv, Accept
<1>1. PICK q \in Queries : query' = q
  OBVIOUS
<1>2. out = <<>> /\ out' = <<>> /\ high' = high /\ endBefore' = high /\ Scanned' = Scanned
  BY DEF StageInv, high, Scanned
<1>3. TypeOK'
  <2>1. endBefore' \in 0..high'
    BY <1>2 DEF TypeOK, high
  <2>2. QED
    BY <1>1, <1>2, <2>1 DEF TypeOK
<1>4. StageInv'
  BY <1>1, <1>2 DEF StageInv
<1>5. WindowInv'
  BY <1>2 DEF WindowInv
<1>6. StartInv'
  BY <1>2 DEF StartInv
<1>7. PageInv'
  BY NothingShown
<1>8. QED
  BY <1>3, <1>4, <1>5, <1>6, <1>7

(* Where the reader is told to begin.                                      *)
LEMMA SeekStep ==
    ASSUME IInv, pc = "seek", NEW p \in Int, SetPosition(p),
           IF query.from = NoTime THEN p = query.offset
           ELSE LookedUp(p)
    PROVE  IInv'
<1> USE DEF IInv, SetPosition
<1>1. out = <<>> /\ out' = <<>> /\ high' = high /\ Scanned' = Scanned /\ pc' = "start"
  BY DEF StageInv, high, Scanned
<1>2. TypeOK'
  BY <1>1 DEF TypeOK
<1>3. StageInv'
  BY <1>1 DEF StageInv
<1>4. WindowInv'
  BY <1>1 DEF WindowInv
<1>5. StartInv'
  BY <1>1 DEF StartInv, LookedUp, OwedFrom, At
<1>6. PageInv'
  BY NothingShown
<1>7. QED
  BY <1>2, <1>3, <1>4, <1>5, <1>6

LEMMA SeekOffsetKeeps == ASSUME IInv, SeekOffset PROVE IInv'
<1>1. query.offset \in Int
  BY QueryType DEF IInv, TypeOK, Query
<1>2. QED
  BY <1>1, SeekStep DEF SeekOffset

LEMMA SeekTimeKeeps == ASSUME IInv, SeekTime PROVE IInv'
<1> DEFINE late == {o \in low..(high - 1) : At(o).time >= query.from}
           p == IF late = {} THEN OffsetLatest ELSE Min(late)
<1>1. pc = "seek" /\ query.from # NoTime /\ SetPosition(p)
  BY DEF SeekTime
<1>2. low \in Nat /\ high \in Nat
  BY DEF IInv, TypeOK, high
<1>3. CASE late = {}
  <2>1. p = OffsetLatest /\ p \in Int
    BY <1>3 DEF OffsetLatest
  <2>2. \A o \in low..(high - 1) : ~OwedFrom(o)
    BY <1>1, <1>3 DEF OwedFrom
  <2>3. QED
    BY <1>1, <2>1, <2>2, SeekStep DEF LookedUp
<1>4. CASE late # {}
  <2>1. late \in SUBSET Int /\ IsFiniteSet(late)
    <3>1. late \in SUBSET (low..(high - 1)) /\ IsFiniteSet(low..(high - 1))
      BY <1>2, FS_Interval
    <3>2. QED
      BY <1>2, <3>1, FS_Subset
  <2>2. \E m \in late : \A x \in late : m <= x
    BY <1>4, <2>1, LeastAndGreatest
  <2>3. p \in late /\ \A x \in late : p <= x
    BY <1>4, <2>2 DEF Min
  <2>4. p \in Int /\ p \in 0..(high - 1) /\ At(p).time >= query.from
    BY <1>2, <2>3
  <2>5. ASSUME NEW o \in low..(p - 1) PROVE ~OwedFrom(o)
    <3>1. o \in low..(high - 1) /\ o < p /\ o \in Int
      BY <1>2, <2>4
    <3>2. o \notin late
      BY <2>3, <2>4, <3>1
    <3>3. QED
      BY <1>1, <3>1, <3>2 DEF OwedFrom
  <2> HIDE DEF p
  <2>6. QED
    BY <1>1, <2>4, <2>5, SeekStep DEF LookedUp
<1>5. QED
  BY <1>3, <1>4

(* The first fetch: within the log, and behind nothing that is owed.       *)
LEMMA StartKeeps == ASSUME IInv, Start PROVE IInv'
<1> USE DEF IInv, Start
<1>1. /\ out = <<>> /\ out' = <<>> /\ high' = high /\ Scanned' = 0
      /\ low \in 0..high /\ high \in Nat /\ pos \in Int
  BY DEF StageInv, TypeOK, high, Scanned
<1>2. query \in Queries /\ query' = query /\ query \in Query
  BY QueryType DEF StageInv
<1>3. /\ pos' \in low..high
      /\ pos = OffsetLatest => pos' = high
      /\ pos # OffsetLatest /\ pos # OffsetEarliest => pos' >= pos /\ (pos' = pos \/ pos' = low)
  <2>1. CASE pos = OffsetEarliest
    BY <1>1, <2>1 DEF OffsetEarliest, OffsetLatest
  <2>2. CASE pos = OffsetLatest
    BY <1>1, <2>2 DEF OffsetEarliest, OffsetLatest
  <2>3. CASE pos # OffsetLatest /\ pos # OffsetEarliest
    <3>1. Max({pos, low}) = IF pos >= low THEN pos ELSE low
      <4>1. \E x \in {pos, low} : \A y \in {pos, low} : x >= y
        BY <1>1
      <4>2. Max({pos, low}) \in {pos, low} /\ \A y \in {pos, low} : Max({pos, low}) >= y
        BY <4>1 DEF Max
      <4>3. QED
        BY <1>1, <4>2
    <3>2. pos' = Max({pos, low})
      BY <2>3
    <3>3. QED
      BY <1>1, <2>3, <3>1, <3>2
  <2>4. QED
    BY <2>1, <2>2, <2>3
<1>4. TypeOK'
  BY <1>1, <1>2, <1>3, LimitAssumption DEF TypeOK
<1>5. StageInv'
  <2>1. 0 <= Limit(query)
    BY <1>2, LimitAssumption DEF Query, Limit, clamp
  <2>2. pos' \in 0..high
    BY <1>1, <1>3
  <2>3. pc' = "read" /\ resp' = resp /\ Limit(query)' = Limit(query)
    BY DEF Limit
  <2>4. QED
    BY <1>1, <1>2, <2>1, <2>2, <2>3 DEF StageInv
<1>6. WindowInv'
  BY <1>1 DEF WindowInv
<1>7. Sought(pos')
  <2>1. CASE query.from = NoTime
    <3>1. pos = query.offset
      BY <2>1 DEF StartInv
    <3>2. query.offset = OffsetLatest => pos' >= endBefore
      BY <1>1, <1>3, <3>1 DEF TypeOK
    <3>3. pos' >= query.offset
      BY <1>1, <1>3, <3>1 DEF OffsetEarliest, OffsetLatest
    <3>4. ASSUME NEW o \in low..(pos' - 1) PROVE ~OwedFrom(o)
      BY <1>1, <1>3, <2>1, <3>1 DEF OwedFrom, OffsetEarliest, OffsetLatest
    <3>5. QED
      BY <2>1, <3>2, <3>3, <3>4 DEF Sought, MayBeginAt
  <2>2. CASE query.from # NoTime /\ pos = OffsetLatest /\ \A o \in low..(high - 1) : ~OwedFrom(o)
    <3>1. pos' = high /\ high >= endBefore
      BY <1>1, <1>3, <2>2 DEF TypeOK
    <3>2. QED
      BY <2>2, <3>1 DEF Sought, MayBeginAt
  <2>3. CASE /\ query.from # NoTime /\ pos \in 0..(high - 1) /\ At(pos).time >= query.from
             /\ \A o \in low..(pos - 1) : ~OwedFrom(o)
    <3>1. pos' >= pos /\ (pos' = pos \/ pos' = low)
      BY <1>3, <2>3 DEF OffsetEarliest, OffsetLatest
    <3>2. CASE pos' = pos
      BY <1>1, <2>3, <3>2 DEF Sought, MayBeginAt
    <3>3. CASE pos' = low /\ pos < low
      <4>1. \A o \in low..(pos' - 1) : ~OwedFrom(o)
        BY <1>1, <3>3
      <4>2. pos \in 0..(low - 1) /\ pos < pos'
        BY <1>1, <2>3, <3>3
      <4>3. QED
        BY <2>3, <4>1, <4>2 DEF Sought, MayBeginAt
    <3>4. QED
      BY <1>1, <2>3, <3>1, <3>2, <3>3
  <2>4. QED
    BY <2>1, <2>2, <2>3 DEF StartInv, LookedUp
<1>8. StartInv'
  <2>1. Sought(pos)'
    BY <1>1, <1>7 DEF Sought, MayBeginAt, OwedFrom, At
  <2>2. QED
    BY <1>1, <2>1 DEF StartInv
<1>9. PageInv'
  BY NothingShown
<1>10. QED
  BY <1>4, <1>5, <1>6, <1>8, <1>9

(* The next record goes to the end of the page.                            *)
LEMMA ReadMessageKeeps == ASSUME IInv, ReadMessage PROVE IInv'
<1> USE DEF IInv, ReadMessage
<1>1. PICK o \in {pos, low} : o >= pos /\ o < high /\ out' = Append(out, o) /\ pos' = o + 1
  OBVIOUS
<1>2. PICK n \in Nat : /\ n = Len(out) /\ DOMAIN out = 1..n /\ out \in Seq(Offset)
                      /\ \A i \in 1..n : out[i] \in Offset
  BY DEF TypeOK
<1>3. /\ low \in 0..high /\ high \in Nat /\ high' = high /\ high <= MaxLog
      /\ pos \in 0..high /\ pc = "read" /\ resp' = resp
      /\ UNCHANGED <<log, low, query, endBefore>>
  BY DEF StageInv, TypeOK, high
<1>4. o \in Nat /\ o \in Offset /\ pos' \in 0..high /\ pos' \in Int
  BY <1>1, <1>3, MaxLogAssumption DEF Offset
<1>5. /\ out' \in Seq(Offset) /\ Len(out') = n + 1 /\ DOMAIN out' = 1..(n + 1)
      /\ \A i \in 1..n : out'[i] = out[i]
      /\ out'[n + 1] = o
  BY <1>1, <1>2, <1>4
<1>6. n + 1 <= Limit(query) /\ Limit(query) <= MaxLimit /\ Limit(query)' = Limit(query)
  <2>1. query \in Query
    BY QueryType DEF TypeOK
  <2>2. Limit(query) \in Int /\ Limit(query) <= MaxLimit
    BY <2>1, LimitBound
  <2>3. n < Limit(query)
    BY <1>2 DEF Scanned
  <2>4. Limit(query)' = Limit(query)
    BY <1>3 DEF Limit
  <2>5. QED
    BY <1>2, <2>2, <2>3, <2>4
<1>7. Scanned' = n + 1 /\ MaxLimit \in Nat
  BY <1>5, LimitAssumption DEF Scanned
<1>8. TypeOK'
  <2>1. Scanned' <= MaxLimit
    <3>1. Limit(query) \in Int
      BY QueryType, LimitBound DEF TypeOK
    <3>2. QED
      BY <1>6, <1>7, <3>1
  <2>2. QED
    BY <1>3, <1>4, <1>5, <2>1 DEF TypeOK
<1>9. StageInv'
  BY <1>3, <1>4, <1>6, <1>7 DEF StageInv
<1>10. WindowInv'
  <2>1. n # 0 => pos = out[n] + 1
    BY <1>2, <1>3 DEF WindowInv
  <2>2. \A i \in 1..n : out[i] \in Int /\ (i = n \/ out[i] < out[n]) /\ out[i] < o
    <3> TAKE i \in 1..n
    <3>1. out[i] \in Int /\ out[n] \in Int /\ n \in 1..n
      BY <1>2, MaxLogAssumption DEF Offset
    <3>2. i = n \/ out[i] < out[n]
      BY <1>2 DEF WindowInv
    <3>3. QED
      BY <1>1, <1>3, <1>4, <2>1, <3>1, <3>2
  <2>3. ASSUME NEW i \in DOMAIN out' PROVE out'[i] < high
    BY <1>1, <1>2, <1>5, <2>3 DEF WindowInv
  <2>4. ASSUME NEW i \in DOMAIN out', NEW j \in DOMAIN out', i < j PROVE out'[i] < out'[j]
    <3>1. i \in 1..n /\ j \in 1..(n + 1)
      BY <1>5, <2>4
    <3>2. CASE j = n + 1
      BY <1>5, <2>2, <3>1, <3>2
    <3>3. CASE j \in 1..n
      BY <1>2, <1>5, <2>4, <3>1, <3>3 DEF WindowInv
    <3>4. QED
      BY <3>1, <3>2, <3>3
  <2>5. ASSUME NEW i \in 2..(n + 1), NEW x \in (out'[i - 1] + 1)..(out'[i] - 1) PROVE x < low
    <3>1. CASE i \in 2..n
      <4>1. i - 1 \in 1..n /\ i \in 1..n
        BY <3>1
      <4>2. QED
        BY <1>2, <1>5, <3>1, <4>1, <2>5 DEF WindowInv
    <3>2. CASE i = n + 1
      <4>1. i - 1 = n /\ n \in 1..n /\ out'[n] = out[n] /\ out[n] \in Int
        BY <1>5, <2>2, <3>2
      <4>2. x \in pos..(o - 1)
        BY <1>5, <2>1, <2>5, <3>2, <4>1
      <4>3. QED
        BY <1>1, <1>3, <4>2
    <3>3. QED
      BY <3>1, <3>2
  <2>6. pos' = out'[Len(out')] + 1
    BY <1>1, <1>5
  <2>7. QED
    BY <1>3, <1>5, <2>3, <2>4, <2>5, <2>6 DEF WindowInv
<1>11. StartInv'
  <2>1. Sought(out'[1])
    <3>1. CASE n = 0
      <4>1. out = <<>> /\ out'[1] = o
        BY <1>2, <1>5, <3>1
      <4>2. Sought(pos)
        BY <1>3, <4>1 DEF StartInv
      <4>3. query.offset \in Int /\ endBefore \in Int
        BY QueryType, <1>3 DEF TypeOK, Query
      <4>4. \A x \in low..(o - 1) : ~OwedFrom(x)
        BY <1>1, <1>3, <1>4, <4>2 DEF Sought
      <4>4a. MayBeginAt(o)
        <5>1. CASE o = pos
          BY <4>2, <5>1 DEF Sought
        <5>2. CASE query.from = NoTime
          BY <1>1, <1>3, <1>4, <4>2, <4>3, <5>2 DEF Sought, MayBeginAt
        <5>3. CASE query.from # NoTime /\ o = low /\ pos < low
          <6>1. CASE pos < high /\ At(pos).time >= query.from
            <7>1. pos \in 0..(low - 1) /\ pos < o
              BY <1>3, <5>3
            <7>2. QED
              BY <5>3, <6>1, <7>1 DEF MayBeginAt
          <6>2. CASE pos >= endBefore
            BY <1>1, <1>3, <1>4, <4>3, <5>3, <6>2 DEF MayBeginAt
          <6>3. CASE \E gone \in 0..(low - 1) : gone < pos /\ At(gone).time >= query.from
            <7>1. \A gone \in 0..(low - 1) : gone < o
              BY <1>3, <5>3
            <7>2. QED
              BY <5>3, <6>3, <7>1 DEF MayBeginAt
          <6>4. QED
            BY <4>2, <5>3, <6>1, <6>2, <6>3 DEF Sought, MayBeginAt
        <5>4. QED
          BY <1>1, <1>3, <5>1, <5>2, <5>3
      <4>5. QED
        BY <4>1, <4>4, <4>4a DEF Sought
    <3>2. CASE n # 0
      <4>1. out # <<>> /\ out'[1] = out[1]
        BY <1>2, <1>5, <3>2
      <4>2. QED
        BY <4>1 DEF StartInv
    <3>3. QED
      BY <3>1, <3>2
  <2>2. out' # <<>> /\ pc' = "read"
    BY <1>3, <1>5
  <2>3. Sought(out[1])'
    BY <1>3, <2>1 DEF Sought, MayBeginAt, OwedFrom, At, high
  <2>4. QED
    BY <2>2, <2>3 DEF StartInv
<1>12. PageInv'
  BY <1>3, NothingShown
<1>13. QED
  BY <1>8, <1>9, <1>10, <1>11, <1>12

-------------------------------------------------------------------------------
(* The environment.                                                        *)

LEMMA TickKeeps == ASSUME IInv, Tick PROVE IInv'
<1> USE DEF IInv, Tick
<1>1. high' = high /\ Scanned' = Scanned /\ Limit(query)' = Limit(query)
  BY DEF high, Scanned, Limit
<1>2. TypeOK'
  BY <1>1 DEF TypeOK
<1>3. StageInv'
  BY <1>1 DEF StageInv
<1>4. WindowInv'
  BY <1>1 DEF WindowInv
<1>5. StartInv'
  BY <1>1 DEF StartInv, LookedUp, Sought, MayBeginAt, OwedFrom, At
<1>6. PageInv'
  BY NothingShown
<1>7. QED
  BY <1>2, <1>3, <1>4, <1>5, <1>6

(* A record is appended: those of the log stay what they are.              *)
LEMMA ProduceKeeps == ASSUME IInv, Produce PROVE IInv'
<1> USE DEF IInv, Produce
<1>1. PICK rec \in Records : log' = Append(log, rec)
  OBVIOUS
<1>2. /\ high \in Nat /\ high' = high + 1 /\ high' <= MaxLog /\ log' \in Seq(Records)
      /\ \A o \in 0..(high - 1) : At(o)' = At(o)
  BY <1>1, MaxLogAssumption DEF TypeOK, high, At
<1>3. UNCHANGED <<low, pc, query, elapsed, pos, out, resp, endBefore>>
  OBVIOUS
<1>4. low \in 0..high /\ endBefore \in 0..high
  BY DEF TypeOK
<1>5. Scanned' = Scanned /\ Limit(query)' = Limit(query)
  BY <1>3 DEF Scanned, Limit
<1>6. TypeOK'
  <2>1. low' \in 0..high' /\ endBefore' \in 0..high'
    BY <1>2, <1>3, <1>4
  <2>2. QED
    BY <1>2, <1>3, <1>5, <2>1 DEF TypeOK
<1>7. StageInv'
  BY <1>2, <1>3, <1>5 DEF StageInv
<1>8. \A i \in DOMAIN out : out[i] \in 0..(high - 1)
  BY MaxLogAssumption DEF TypeOK, WindowInv, Offset, high
<1>9. WindowInv'
  <2>1. \A i \in DOMAIN out' : out'[i] < high'
    BY <1>2, <1>3, <1>8
  <2>2. QED
    BY <1>3, <2>1 DEF WindowInv
<1>10. \A o \in low..high : OwedFrom(o)' => (o < high /\ OwedFrom(o)) \/ query.from = NoTime
  BY <1>2, <1>3, <1>4 DEF OwedFrom
<1>11. \A o : query.from = NoTime => (OwedFrom(o)' <=> OwedFrom(o))
  BY <1>3 DEF OwedFrom
<1>12. \A o \in low..(high - 1) : OwedFrom(o)' => OwedFrom(o)
  BY <1>2, <1>10, <1>11
<1>13. \A p \in 0..high : Sought(p) => \A o \in low..(p - 1) : ~OwedFrom(o)'
  BY <1>2, <1>4, <1>12 DEF Sought
<1>14. ASSUME NEW p \in 0..high, Sought(p)
       PROVE  /\ \A o \in low'..(p - 1) : ~OwedFrom(o)'
              /\ IF query'.from = NoTime
                 THEN p >= query'.offset /\ (query'.offset = OffsetLatest => p >= endBefore')
                 ELSE \/ p < high' /\ At(p)'.time >= query'.from
                      \/ p >= endBefore'
                      \/ \E gone \in 0..(low' - 1) : gone < p /\ At(gone)'.time >= query'.from
  <2>1. \A o \in low'..(p - 1) : ~OwedFrom(o)'
    BY <1>3, <1>13, <1>14
  <2>2. CASE query.from = NoTime
    BY <1>3, <1>14, <2>1, <2>2 DEF Sought, MayBeginAt
  <2>3. CASE query.from # NoTime /\ p < high /\ At(p).time >= query.from
    <3>1. p < high' /\ At(p)' = At(p)
      BY <1>2, <2>3
    <3>2. QED
      BY <1>3, <2>1, <2>3, <3>1
  <2>4. CASE query.from # NoTime /\ p >= endBefore
    BY <1>3, <2>1, <2>4
  <2>5. CASE query.from # NoTime /\ \E gone \in 0..(low - 1) : gone < p /\ At(gone).time >= query.from
    <3>1. \A gone \in 0..(low - 1) : At(gone)' = At(gone)
      BY <1>2, <1>4
    <3>2. QED
      BY <1>3, <2>1, <2>5, <3>1
  <2>6. QED
    BY <1>14, <2>2, <2>3, <2>4, <2>5 DEF Sought, MayBeginAt
<1>15. StartInv'
  <2>1. pc' = "start" => IF query'.from = NoTime THEN pos' = query'.offset ELSE LookedUp(pos)'
    <3> SUFFICES ASSUME pc = "start", query.from # NoTime
                 PROVE  LookedUp(pos)'
      BY <1>3 DEF StartInv
    <3>1. CASE pos = OffsetLatest /\ \A o \in low..(high - 1) : ~OwedFrom(o)
      <4>1. \A o \in low..high : OwedFrom(o)' => o < high /\ OwedFrom(o)
        BY <1>10
      <4>2. \A o \in low..high : ~OwedFrom(o)'
        BY <1>2, <1>4, <3>1, <4>1
      <4>3. low'..(high' - 1) = low..high
        BY <1>2, <1>3
      <4>4. QED
        BY <1>3, <3>1, <4>2, <4>3 DEF LookedUp
    <3>2. CASE /\ pos \in 0..(high - 1) /\ At(pos).time >= query.from
               /\ \A o \in low..(pos - 1) : ~OwedFrom(o)
      <4>1. \A o \in low..(pos - 1) : ~OwedFrom(o)'
        BY <1>2, <1>4, <1>12, <3>2
      <4>2. pos \in 0..(high' - 1) /\ At(pos)' = At(pos)
        <5>1. log'[pos + 1] = log[pos + 1]
          BY <1>2, <3>2 DEF At
        <5>2. QED
          BY <1>2, <1>3, <3>2, <5>1 DEF At
      <4>3. QED
        BY <1>3, <3>2, <4>1, <4>2 DEF LookedUp
    <3>3. QED
      BY <3>1, <3>2 DEF StartInv, LookedUp
  <2>2. pc' = "read" /\ out' = <<>> => Sought(pos)'
    <3>1. pc = "read" /\ out = <<>> => pos \in 0..high /\ Sought(pos)
      BY DEF StageInv, StartInv
    <3>2. QED
      BY <1>3, <1>14, <3>1 DEF Sought, MayBeginAt
  <2>3. out' # <<>> => Sought(out[1])'
    <3>1. out # <<>> => out[1] \in 0..high /\ Sought(out[1])
      <4>1. out # <<>> => 1 \in DOMAIN out
        BY DEF TypeOK
      <4>2. QED
        BY <1>2, <1>8, <4>1 DEF StartInv
    <3>2. QED
      BY <1>3, <1>14, <3>1 DEF Sought, MayBeginAt
  <2>4. QED
    BY <2>1, <2>2, <2>3 DEF StartInv
<1>16. PageInv'
  <2>1. /\ resp'.scanned \in {<<>>, out'} /\ resp'.messages = resp.messages
        /\ resp'.scanned = resp.scanned
    BY <1>3 DEF PageInv
  <2>2. \A m \in Range(resp.messages) : /\ m.offset \in 0..(high - 1)
                                        /\ m = toConsumedMessage(m.offset, At(m.offset)')
    BY <1>2 DEF PageInv
  <2>3. FilterExact'
    <3>1. \A o \in 0..(high - 1) : Wanted(o)' <=> Wanted(o)
      BY <1>2, <1>3 DEF Wanted
    <3>2. \A o \in Range(resp.scanned) : o \in 0..(high - 1)
      BY <1>8 DEF PageInv, Range
    <3>3. {o \in Range(resp.scanned) : Wanted(o)'} = {o \in Range(resp.scanned) : Wanted(o)}
      BY <3>1, <3>2
    <3>4. NamedOnce' <=> NamedOnce
      BY <1>3 DEF NamedOnce
    <3>5. QED
      BY <2>1, <3>3, <3>4 DEF PageInv, FilterExact
  <2>4. QED
    BY <1>2, <1>3, <2>1, <2>2, <2>3 DEF PageInv
<1>17. QED
  BY <1>6, <1>7, <1>9, <1>15, <1>16

LEMMA TruncateKeeps == ASSUME IInv, Truncate PROVE IInv'
<1> USE DEF IInv, Truncate
<1>1. /\ UNCHANGED <<log, pc, query, elapsed, pos, out, resp, endBefore>>
      /\ high' = high /\ Scanned' = Scanned /\ Limit(query)' = Limit(query)
  BY DEF high, Scanned, Limit
<1>2. low \in 0..high /\ high \in Nat /\ low' = low + 1 /\ low' \in 0..high
  BY DEF TypeOK, high
<1>3. TypeOK'
  BY <1>1, <1>2 DEF TypeOK
<1>4. StageInv'
  BY <1>1 DEF StageInv
<1>5. WindowInv'
  <2>1. \A o \in Int : o < low => o < low'
    BY <1>2
  <2>2. \A i \in 2..Len(out) : \A o \in (out[i - 1] + 1)..(out[i] - 1) : o < low'
    <3>1. \A i \in 2..Len(out) : \A o \in (out[i - 1] + 1)..(out[i] - 1) : o < low /\ o \in Int
      BY DEF WindowInv
    <3>2. QED
      BY <2>1, <3>1
  <2>3. QED
    BY <1>1, <2>2 DEF WindowInv
<1>6. StartInv'
  <2>1. \A o : OwedFrom(o)' <=> OwedFrom(o)
    BY <1>1 DEF OwedFrom, At
  <2>2. (\A p : \A o \in low'..p : o \in low..p) /\ (\A o \in 0..(low - 1) : o \in 0..(low' - 1))
    BY <1>2
  <2>3. LookedUp(pos) => LookedUp(pos)'
    BY <1>1, <2>1, <2>2 DEF LookedUp, At
  <2>4. \A p : MayBeginAt(p) => IF query.from = NoTime
                 THEN p >= query.offset /\ (query.offset = OffsetLatest => p >= endBefore)
                 ELSE \/ p < high /\ At(p).time >= query.from
                      \/ p >= endBefore
                      \/ \E gone \in 0..(low' - 1) : gone < p /\ At(gone).time >= query.from
    BY <2>2 DEF MayBeginAt
  <2>5. Sought(pos) => Sought(pos)'
    BY <1>1, <2>1, <2>2, <2>4 DEF Sought, MayBeginAt, At
  <2>6. Sought(out[1]) => Sought(out[1])'
    BY <1>1, <2>1, <2>2, <2>4 DEF Sought, MayBeginAt, At
  <2>7. QED
    BY <1>1, <2>3, <2>5, <2>6 DEF StartInv
<1>7. PageInv'
  BY <1>1 DEF PageInv, FilterExact, Wanted, NamedOnce, At
<1>8. QED
  BY <1>3, <1>4, <1>5, <1>6, <1>7

LEMMA StutterKeeps == ASSUME IInv, UNCHANGED vars PROVE IInv'
<1> USE DEF IInv, vars
<1>1. high' = high /\ Scanned' = Scanned /\ Limit(query)' = Limit(query)
  BY DEF high, Scanned, Limit
<1>2. TypeOK' /\ StageInv' /\ WindowInv'
  BY <1>1 DEF TypeOK, StageInv, WindowInv
<1>3. StartInv'
  BY <1>1 DEF StartInv, LookedUp, Sought, MayBeginAt, OwedFrom, At
<1>4. PageInv'
  BY <1>1 DEF PageInv, FilterExact, Wanted, NamedOnce, At
<1>5. QED
  BY <1>2, <1>3, <1>4

LEMMA NextInvariant == IInv /\ [Next]_vars => IInv'
  BY ErrorKeeps, ReturnKeeps, AcceptKeeps, SeekOffsetKeeps, SeekTimeKeeps, StartKeeps,
     ReadMessageKeeps, TickKeeps, ProduceKeeps, TruncateKeeps, StutterKeeps
     DEF Next, Seek

LEMMA Invariance == Spec => []IInv
  BY InitInvariant, NextInvariant, PTL DEF Spec

-------------------------------------------------------------------------------
(* The variables keep their types, and no page is longer than the          *)
(* configured maximum (consumer.go, clamp).                                *)
THEOREM TypeCorrect == Spec => []TypeOK
<1>1. IInv => TypeOK
  BY DEF IInv
<1>2. QED
  BY <1>1, Invariance, PTL

(* A page is a contiguous part of the log in order, but for the records    *)
(* retention deletes between two fetches (client.go, Read).                *)
THEOREM WindowIsContiguous == Spec => []WindowContiguous
<1>1. IInv => WindowContiguous
  <2> SUFFICES ASSUME IInv, resp.scanned = out, NEW i \in 2..Len(out)
               PROVE  /\ out[i - 1] < out[i]
                      /\ \A o \in (out[i - 1] + 1)..(out[i] - 1) : o < low
    BY DEF IInv, PageInv, WindowContiguous
  <2>1. i - 1 \in DOMAIN out /\ i \in DOMAIN out /\ i - 1 < i
    BY DEF IInv, TypeOK
  <2>2. QED
    BY <2>1 DEF IInv, WindowInv
<1>2. QED
  BY <1>1, Invariance, PTL

(* Whatever the filters of a query, its page has all the messages of the   *)
(* window that the documentation says they keep, in offset order, and no   *)
(* others if no header name is given two values (params.go, headerFilters; *)
(* consumer.go, MessageFilter.Matches).                                    *)
THEOREM FiltersExactly == Spec => []FilterExact
<1>1. IInv => FilterExact
  BY DEF IInv, PageInv
<1>2. QED
  BY <1>1, Invariance, PTL

(* However the partition grows and is truncated between the look-up of a   *)
(* time, the first fetch and the first message, a page skips nothing that  *)
(* is owed to the query and begins with a record it may begin with: for a  *)
(* time, one that is not older, one behind a deleted record that was not   *)
(* older, or one appended after the query (client.go, seek and Read).      *)
THEOREM StartsAsAsked == Spec => []StartsWhereAsked
<1>1. IInv => StartsWhereAsked
  <2> SUFFICES ASSUME IInv, resp.scanned = out, out # <<>>
               PROVE  /\ \A o \in low..(out[1] - 1) : ~OwedFrom(o)
                      /\ MayBeginWith(out[1])
    BY DEF IInv, PageInv, StartsWhereAsked
  <2>1. Sought(out[1])
    BY DEF IInv, StartInv
  <2>2. QED
    BY <2>1 DEF Sought, MayBeginAt, MayBeginWith
<1>2. QED
  BY <1>1, Invariance, PTL

(* What a page shows of any record is accepted by the publish endpoint and *)
(* is the same message, up to what a response cannot say, which includes   *)
(* how a document was spelled (params.go, encodeValue and encodeKey;       *)
(* respond.go:18; publish.go, toMessage).                                  *)
THEOREM ReplayIsFaithful == Spec => []ReplayKeepsMessages
<1>1. IInv => ReplayKeepsMessages
  <2> SUFFICES ASSUME IInv, NEW m \in Range(resp.messages)
               PROVE  LET record == At(m.offset)
                      IN  /\ Republished(m) # {}
                          /\ \A again \in Republished(m) :
                                /\ again.value = (IF record.value = Empty THEN Null ELSE compact(record.value))
                                /\ utf8Valid(record.key) => again.key = record.key
                                /\ \A h \in Range(again.headers) : h[2] # Replaced => h \in Range(record.headers)
                                /\ \A h \in Range(record.headers) :
                                      Cardinality({g \in Range(again.headers) : g[1] = h[1]}) = 1
    BY DEF ReplayKeepsMessages
  <2> DEFINE record == At(m.offset)
             shown == {<<h[1], asString(h[2])>> : h \in asMap(record.headers)}
             value == IF record.value = Empty THEN Null ELSE compact(record.value)
  <2>1. m.offset \in 0..(high - 1) /\ m = toConsumedMessage(m.offset, record)
    BY DEF IInv, PageInv
  <2>2. /\ record.key \in Bytes /\ record.value \in Bytes /\ record.headers \in Seq(Pairs)
    BY <2>1, RecordAt DEF IInv
  <2>3. /\ m.key = encodeKey(record.key) /\ m.headers = shown
        /\ m.value = respondJSON(encodeValue(record.value))
    BY <2>1 DEF toConsumedMessage
  <2>4. decodePublishValue(m.value.text, m.value.encoding) = {value}
    BY <2>2, <2>3, ValueComesBack
  <2>5. /\ IsFiniteSet(shown)
        /\ \A h \in shown : h[2] # Replaced => h \in Range(record.headers)
        /\ \A h \in Range(record.headers) : Cardinality({g \in shown : g[1] = h[1]}) = 1
    BY <2>2, ShownHeaders
  <2>6. utf8Valid(record.key) => m.key.text = record.key
    BY <2>2, <2>3, KeyComesBack
  <2> HIDE DEF record, shown, value
  <2>7. Republished(m) = {[key |-> m.key.text, value |-> v, headers |-> hs] :
                             v \in {value}, hs \in SetToSeqs(shown)}
    BY <2>3, <2>4 DEF Republished, toMessage
  <2>8. SetToSeqs(shown) # {} /\ \A hs \in SetToSeqs(shown) : Range(hs) = shown
    BY <2>5, Arrangements
  <2>9. Republished(m) # {}
    <3>1. PICK hs : hs \in SetToSeqs(shown)
      BY <2>8
    <3>2. [key |-> m.key.text, value |-> value, headers |-> hs] \in Republished(m)
      BY <2>7, <3>1
    <3>3. QED
      BY <3>2
  <2>10. \A again \in Republished(m) :
            again.value = value /\ again.key = m.key.text /\ Range(again.headers) = shown
    <3> TAKE again \in Republished(m)
    <3>1. PICK hs \in SetToSeqs(shown) : again = [key |-> m.key.text, value |-> value, headers |-> hs]
      BY <2>7
    <3>2. again.headers = hs /\ again.key = m.key.text /\ again.value = value
      BY <3>1
    <3>3. Range(again.headers) = shown
      BY <2>8, <3>2
    <3>4. QED
      BY <3>2, <3>3
  <2>11. \A again \in Republished(m) :
            /\ again.value = value
            /\ utf8Valid(record.key) => again.key = record.key
            /\ \A h \in Range(again.headers) : h[2] # Replaced => h \in Range(record.headers)
            /\ \A h \in Range(record.headers) :
                  Cardinality({g \in Range(again.headers) : g[1] = h[1]}) = 1
    BY <2>5, <2>6, <2>10
  <2>12. QED
    BY <2>9, <2>11 DEF record, value
<1>2. QED
  BY <1>1, Invariance, PTL
================================================================================
