------------------------------ MODULE MCConsume ------------------------------
(* A small instance of Consume: three kinds of records, two keys, three    *)
(* values of one header, and queries that position or filter.              *)
EXTENDS Consume

X == <<"source", Text>>
Y == <<"source", Document>>
Z == <<"source", Binary>>
MCPairs == {X, Y, Z}
MCKeys == {Text, Binary}

(* Published through the gateway as a "string".                            *)
Greeting == [key |-> Text, value |-> quote(Text), encoding |-> "string", headers |-> {}]

(* The others are another program's: one without a value, and one with a   *)
(* binary key, a document with spaces and several headers of one name.     *)
MCRecords ==
    {[key |-> m.key, value |-> m.value, headers |-> m.headers, time |-> 1] : m \in toMessage(Greeting)}
    \cup {[key |-> Text, value |-> Empty, headers |-> <<Y, Z>>, time |-> 0],
          [key |-> Binary, value |-> spelled(Document), headers |-> <<X, Y>>, time |-> 2]}

Starts == {[NoQuery EXCEPT !.offset = o] : o \in {OffsetEarliest, OffsetLatest, 1, 4}}
          \cup {[NoQuery EXCEPT !.from = 1]}

Positions ==
    {[q EXCEPT !.limit = n, !.timeout = t] : q \in Starts, n \in {0, 5}, t \in {0, 5}}

Filters ==
    {[NoQuery EXCEPT !.key = k, !.header = h, !.limit = 5] :
        k \in {AnyKey, Text}, h \in {<<>>, <<X>>, <<X, Y>>}}
    \cup {[NoQuery EXCEPT !.since = s, !.until = u, !.limit = 5] :
             s \in {NoTime, 1}, u \in {NoTime, 0, 1}}

MCQueries == Positions \cup Filters \cup {[NoQuery EXCEPT !.partition = -1]}
===============================================================================
