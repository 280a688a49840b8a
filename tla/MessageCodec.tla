----------------------------- MODULE MessageCodec -----------------------------
(***************************************************************************)
(* A message on the wire and in Kafka: what a publish request makes of its *)
(* "value", "key" and "headers" (internal/api/publish.go, toMessage), and  *)
(* what a consume response shows of a record (internal/api/consume.go,     *)
(* params.go and respond.go).                                              *)
(*                                                                         *)
(* Bytes are told apart by what the conversions ask of them: nothing at    *)
(* all, a JSON document, some other text, or no UTF-8; the JSON string and *)
(* the base64 text of other bytes; and a document that is spelled another  *)
(* way than encoding/json spells it, with spaces between its tokens or     *)
(* with a "<" in a string.                                                 *)
(***************************************************************************)
EXTENDS SequencesExt

Empty == <<"empty">>
Null == <<"null">>              \* the document null
Document == <<"document">>      \* a document that is no string
Text == <<"text">>              \* neither JSON nor base64
Binary == <<"binary">>
Replaced == <<"replaced">>      \* what encoding/json writes for invalid UTF-8
quote(b) == <<"quoted", b>>
base64(b) == <<"base64", b>>
spelled(b) == <<"spelled", b>>  \* the document b, spelled another way

(* The bytes of keys, values and header values.                            *)
Bytes == {Empty, Null, Document, Text, Binary, quote(Text), quote(Document), base64(Binary),
          spelled(Document), spelled(quote(Text))}

jsonValid(b) == b \in {Null, Document} \/ b[1] \in {"quoted", "spelled"}
utf8Valid(b) == b # Binary

(* A document the way encoding/json spells it.                             *)
compact(b) == IF b[1] = "spelled" THEN b[2] ELSE b

-------------------------------------------------------------------------------
(* Publishing.  A conversion that may fail yields a set: {} is an error.   *)

(* json.Unmarshal into a string: null leaves it as it was.                 *)
unmarshalString(raw) ==
    LET doc == compact(raw)
    IN  IF doc[1] = "quoted" THEN {doc[2]} ELSE IF doc = Null THEN {Empty} ELSE {}

decodeBase64(b) ==
    IF b[1] = "base64" THEN {b[2]} ELSE IF b = Empty THEN {Empty} ELSE {}

decodePublishValue(raw, encoding) ==
    CASE encoding \in {"", "json"} -> {raw}
      [] encoding = "string" -> unmarshalString(raw)
      [] encoding = "base64" -> UNION {decodeBase64(b) : b \in unmarshalString(raw)}
      [] OTHER -> {}

(* The messages a request may give: its headers are a map, taken in any    *)
(* order.                                                                  *)
toMessage(req) ==
    {[key |-> req.key, value |-> v, headers |-> hs] :
        v \in decodePublishValue(req.value, req.encoding), hs \in SetToSeqs(req.headers)}

-------------------------------------------------------------------------------
(* Consuming.                                                              *)

(* encodeValue of a program that tags every value as JSON.                 *)
encodeValueAsJSON(b) ==
    [text |-> IF b = Empty THEN Null ELSE IF jsonValid(b) THEN b ELSE quote(b), encoding |-> "json"]

encodeValue(b) ==
    IF b = Empty THEN [text |-> Null, encoding |-> "json"]
    ELSE IF jsonValid(b) THEN [text |-> b, encoding |-> "json"]
    ELSE [text |-> quote(base64(b)), encoding |-> "base64"]

encodeKey(b) ==
    IF b = Empty THEN [text |-> Empty, encoding |-> ""]
    ELSE IF utf8Valid(b) THEN [text |-> b, encoding |-> "utf8"]
    ELSE [text |-> base64(b), encoding |-> "base64"]

(* A map filled from a list of pairs: the last one of a name is left.      *)
asMap(pairs) ==
    {pairs[i] : i \in {j \in DOMAIN pairs : \A k \in DOMAIN pairs : k > j => pairs[k][1] # pairs[j][1]}}

asString(b) == IF utf8Valid(b) THEN b ELSE Replaced

(* The json.Encoder of respondJSON writes a value, which is a RawMessage,  *)
(* in its own spelling.                                                    *)
respondJSON(value) == [value EXCEPT !.text = compact(@)]

toConsumedMessage(offset, m) ==
    [offset |-> offset, key |-> encodeKey(m.key), value |-> respondJSON(encodeValue(m.value)),
     headers |-> {<<h[1], asString(h[2])>> : h \in asMap(m.headers)}]
===============================================================================
