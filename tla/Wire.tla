-------------------------------- MODULE Wire --------------------------------
(* The generated codec and service layer (go/abstraction/storage/content/   *)
(* rec.go; lend and api hold the same code over their own records): the     *)
(* strict reader, the writer, the service frame and reply, the dispatchers  *)
(* and the client stubs, over the records of Schemas.                       *)
(*                                                                          *)
(* Bytes are abstracted to documents: a text, a number, a flag, null, a     *)
(* list or an object whose members may repeat.  A document that is cut ends *)
(* before its closing bracket.  White space, escapes and trailing bytes are *)
(* left out; bytes that are not UTF-8 are the text Garbled.                 *)
EXTENDS Schemas, SequencesExt

CONSTANTS None,          \* a nil pointer
          DepthLimit,    \* rec.go:5903
          WordBits,      \* the width of uint64, narrowed
          CharBits       \* the width of a byte, narrowed

ASSUME WireAssumption == DepthLimit \in Nat \ {0} /\ WordBits \in Nat \ {0, 1}
                         /\ CharBits \in Nat \ {0} /\ CharBits % 4 = 0

Garbled == "<not UTF-8>"
Text(s) == [k |-> "text", v |-> s]
Number(spelling) == [k |-> "number", n |-> spelling]
Flag(b) == [k |-> "flag", b |-> b]
NullDoc == [k |-> "null"]
Items(s, cut) == [k |-> "items", v |-> s, cut |-> cut]
Obj(members, cut) == [k |-> "object", m |-> members, cut |-> cut]

Got(x) == [ok |-> TRUE, v |-> x]
Refused(word) == [ok |-> FALSE, word |-> word]

\* The first refusal of a sequence of results, or all of what they got.
Every(results) ==
    FoldLeft(LAMBDA r, x : IF ~r.ok THEN r ELSE IF ~x.ok THEN x ELSE Got(Append(r.v, x.v)),
             Got(<<>>), results)

-----------------------------------------------------------------------------
(* Integers.  A spelling is a sequence of digits with a Minus or a Dot; Dot *)
(* stands for '.', 'e' and 'E'.                                             *)

Minus == -1
Dot == -2
Digit == 0 .. 9
MaxInt == 2 ^ (WordBits - 1) - 1

RECURSIVE Digits(_)
Digits(u) == IF u < 10 THEN <<u>> ELSE Append(Digits(u \div 10), u % 10)

\* num: the least integer has no positive counterpart, its magnitude has.
Num(n) == IF n < 0 THEN <<Minus>> \o Digits((-n) % 2 ^ WordBits) ELSE Digits(n)

\* Mutant of Fits: the last digit is not left room for.
FitsAlmost(u) == u <= MaxInt

\* The test before u*10 + d, which is computed modulo the word.
Fits(u) == u <= MaxInt \div 10

Accumulated(ds) ==
    FoldLeft(LAMBDA r, d : IF r.ok /\ Fits(r.v) THEN Got((r.v * 10 + d) % 2 ^ WordBits)
                           ELSE Refused("number_spelling"), Got(0), ds)

Leading(s) == SubSeq(s, 1, Min({i \in 1 .. Len(s) : s[i] \notin Digit} \cup {Len(s) + 1}) - 1)

ReadInteger(s, min, max) ==
    LET neg == s # <<>> /\ Head(s) = Minus
        body == IF neg THEN Tail(s) ELSE s
        ds == IF body # <<>> /\ Head(body) = 0 THEN <<0>> ELSE Leading(body)
        rest == SubSeq(body, Len(ds) + 1, Len(body))
        u == Accumulated(ds)
        n == IF neg THEN -u.v ELSE u.v
    IN IF body = <<>> \/ Head(body) \notin Digit THEN Refused("malformed")
       ELSE IF ~u.ok THEN u
       ELSE IF rest # <<>> /\ Head(rest) # Minus THEN Refused("number_spelling")
       ELSE IF \/ neg /\ u.v = 0
               \/ u.v > MaxInt /\ ~(neg /\ u.v = MaxInt + 1)
               \/ n < min \/ n > max
            THEN Refused("number_spelling")
       ELSE IF rest # <<>> THEN Refused("malformed")
       ELSE Got(n)

\* skipNumber: a number carried in an opaque value is walked, never converted.
SkipNumber(s) ==
    LET body == IF s # <<>> /\ Head(s) = Minus THEN Tail(s) ELSE s
        whole == IF body # <<>> /\ Head(body) = 0 THEN <<0>> ELSE Leading(body)
        rest == SubSeq(body, Len(whole) + 1, Len(body))
        fraction == IF rest # <<>> /\ Head(rest) = Dot THEN Leading(Tail(rest)) ELSE <<>>
    IN IF whole = <<>> THEN "number_spelling"
       ELSE IF rest = <<>> THEN ""
       ELSE IF Head(rest) # Dot THEN "malformed"
       ELSE IF fraction = <<>> THEN "number_spelling"
       ELSE IF Len(fraction) + 1 < Len(rest) THEN "malformed"
       ELSE ""

-----------------------------------------------------------------------------
(* Timestamps: a date, minutes of the day, the minutes east of UTC.  The    *)
(* seconds and the fraction go through unchanged.                           *)

TimestampDays(y, m) ==
    IF m = 2 THEN IF y % 4 = 0 /\ (y % 100 # 0 \/ y % 400 = 0) THEN 29 ELSE 28
    ELSE IF m \in {4, 6, 9, 11} THEN 30 ELSE 31

\* Mutant of DayBefore: the day is taken from the month that is left.
DayBeforeOld(y, m) == IF m = 1 THEN <<y - 1, 12, 31>> ELSE <<y, m - 1, TimestampDays(y, m)>>

DayBefore(y, m) ==
    IF m = 1 THEN <<y - 1, 12, TimestampDays(y - 1, 12)>>
    ELSE <<y, m - 1, TimestampDays(y, m - 1)>>

DayAfter(y, m) == IF m = 12 THEN <<y + 1, 1, 1>> ELSE <<y, m + 1, 1>>

\* normalizedTimestamp, after the lexical test; None is its empty string.
Normalized(t) ==
    LET total == t.minutes - t.east
        d == IF total < 0 THEN t.d - 1 ELSE IF total >= 1440 THEN t.d + 1 ELSE t.d
        date == IF d = 0 THEN DayBefore(t.y, t.m)
                ELSE IF d > TimestampDays(t.y, t.m) THEN DayAfter(t.y, t.m)
                ELSE <<t.y, t.m, d>>
    IN IF \/ t.m < 1 \/ t.m > 12 \/ t.d < 1 \/ t.d > TimestampDays(t.y, t.m)
          \/ t.minutes > 1439 \/ t.east > 1439 \/ t.east < -1439
          \/ date[1] < 0 \/ date[1] > 9999
       THEN None
       ELSE [y |-> date[1], m |-> date[2], d |-> date[3], minutes |-> total % 1440, east |-> 0]

\* The texts a timestamp field is tried with.
Micros == "2024-03-01T00:00:00.000000Z"
Wide == "2024-02-29t23:00:00-01:00"
Normal(s) == IF s \in {Micros, Wide} THEN Micros ELSE ""

-----------------------------------------------------------------------------
(* Binary: groups of three bytes are written as four digits.  The digits of *)
(* the alphabet are 0 .. 2^DigitBits - 1 and '=' is Pad.                    *)

DigitBits == (3 * CharBits) \div 4
Pad == -1

\* The digits of the group of bytes b[i .. i+2].
Group(b, i) ==
    LET n == Len(b) - i + 1
        At(k) == IF k <= Len(b) THEN b[k] ELSE 0
        v == (At(i) * 2 ^ CharBits + At(i + 1)) * 2 ^ CharBits + At(i + 2)
        D(k) == (v \div 2 ^ (DigitBits * k)) % 2 ^ DigitBits
    IN <<D(3), D(2), IF n > 1 THEN D(1) ELSE Pad, IF n > 2 THEN D(0) ELSE Pad>>

EncodeBinary(b) ==
    FlattenSeq([g \in 1 .. ((Len(b) + 2) \div 3) |-> Group(b, 3 * g - 2)])

\* Mutant of Canonical: the bits a padded group leaves over are not looked at.
CanonicalNever(bytes, text) == TRUE

\* The last test of binary: bits left over by a padded group must be zero.
Canonical(bytes, text) == EncodeBinary(bytes) = text

ReadBinary(text) ==
    LET groups == Len(text) \div 4
        Pads(g) == Cardinality({j \in 1 .. 4 : text[4 * g - 4 + j] = Pad})
        Bad(g) == \E j \in 1 .. 4 :
            IF text[4 * g - 4 + j] = Pad THEN j < 3 \/ g # groups
            ELSE \E i \in 1 .. j : text[4 * g - 4 + i] = Pad
        V(g) == FoldLeft(LAMBDA v, j : v * 2 ^ DigitBits + Max({0, text[4 * g - 4 + j]}),
                         0, <<1, 2, 3, 4>>)
        B(g, k) == (V(g) \div 2 ^ (CharBits * k)) % 2 ^ CharBits
        Bytes(g) == SubSeq(<<B(g, 2), B(g, 1), B(g, 0)>>, 1, 3 - Pads(g))
        out == FlattenSeq([g \in 1 .. groups |-> Bytes(g)])
    IN IF Len(text) % 4 # 0 \/ \E g \in 1 .. groups : Bad(g) THEN Refused("bad_binary")
       ELSE IF Canonical(out, text) THEN Got(out)
       ELSE Refused("bad_binary")

\* The text a binary field is tried with, which is its own value.
Encoded == "YQ=="

-----------------------------------------------------------------------------
(* Records.  A value is a function from the record's keys; an optional field *)
(* that is left out has its zero value, as in the Go struct.                *)

Keys(fields) == {fields[i].key : i \in DOMAIN fields}
TypeOf(fields, key) == fields[CHOOSE i \in DOMAIN fields : fields[i].key = key].type

Zero(t) == CASE t.k \in {"str", "enum", "time", "binary"} -> ""
             [] t.k = "integer" -> 0
             [] t.k = "bool" -> FALSE
             [] t.k = "map" -> {}
             [] t.k = "list" -> <<>>
             [] OTHER -> None

\* Mutant of LeftOut: a required field too is left out when it is zero.
LeftOutZero(f, x) == x = Zero(f.type)

\* The encoder writes no optional field that is zero.
LeftOut(f, x) == f.opt /\ x = Zero(f.type)

\* The encoders.  A word that is no member and a text that is no timestamp are
\* refused by a panic; a garbled text is written as it is.
RECURSIVE Write(_, _)
Write(t, x) ==
    CASE t.k \in {"str", "binary"} -> Got(Text(x))
      [] t.k = "enum" -> IF x \in t.words THEN Got(Text(x)) ELSE Refused("bad_enum")
      [] t.k = "time" -> IF Normal(x) # "" THEN Got(Text(Normal(x))) ELSE Refused("bad_timestamp")
      [] t.k = "integer" -> Got(Number(Num(x)))
      [] t.k = "bool" -> Got(Flag(x))
      [] t.k = "raw" -> Got(x)
      [] t.k = "map" -> Got(Obj(SetToSeq({<<e[1], Text(e[2])>> : e \in x}), FALSE))
      [] t.k = "list" ->
            LET r == Every([i \in DOMAIN x |-> Write(t.of, x[i])])
            IN IF r.ok THEN Got(Items(r.v, FALSE)) ELSE r
      [] t.k = "struct" ->
            LET fs == SelectSeq(t.fields, LAMBDA f : ~LeftOut(f, x[f.key]))
                r == Every([i \in DOMAIN fs |-> Write(fs[i].type, x[fs[i].key])])
            IN IF r.ok THEN Got(Obj([i \in DOMAIN fs |-> <<fs[i].key, r.v[i]>>], FALSE)) ELSE r

ReadText(doc) == IF doc.k # "text" THEN Refused("wrong_type")
                 ELSE IF doc.v = Garbled THEN Refused("bad_string")
                 ELSE Got(doc.v)

\* A text of the set ts.
ReadWord(doc, ts, word) ==
    LET r == ReadText(doc) IN IF r.ok /\ r.v \notin ts THEN Refused(word) ELSE r

\* Mutant of Enter: the deepest level is refused too.
EnterAlmost(depth) == depth + 1 < DepthLimit

\* enter
Enter(depth) == depth + 1 <= DepthLimit

\* Mutant of Repeats: a repeated field is not looked for.
RepeatsNever(m, i) == FALSE

\* The key of member i has been seen.
Repeats(m, i) == \E j \in 1 .. i - 1 : m[j][1] = m[i][1]

\* The places of a list or of an object.
Places(doc) == IF doc.k = "items" THEN DOMAIN doc.v ELSE DOMAIN doc.m

\* skipValue, skipContainer: "" or the refusal of an opaque value.
RECURSIVE Skip(_, _)
Skip(doc, depth) ==
    CASE doc.k = "number" -> SkipNumber(doc.n)
      [] doc.k = "text" -> IF doc.v = Garbled THEN "bad_string" ELSE ""
      [] doc.k \in {"flag", "null"} -> ""
      [] doc.k \in {"items", "object"} ->
            LET Inner(i) == IF doc.k = "items" THEN Skip(doc.v[i], depth + 1)
                            ELSE IF doc.m[i][1] = Garbled THEN "bad_string"
                            ELSE IF Repeats(doc.m, i) THEN "duplicate_key"
                            ELSE Skip(doc.m[i][2], depth + 1)
                bad == {i \in Places(doc) : Inner(i) # ""}
            IN IF ~Enter(depth) THEN "depth_exceeded"
               ELSE IF bad # {} THEN Inner(Min(bad))
               ELSE IF doc.cut THEN "malformed" ELSE ""

\* What a list or an object, entered from depth, holds; r is what its places give.
Contents(doc, kind, depth, r) ==
    IF doc.k # kind THEN Refused("wrong_type")
    ELSE IF ~Enter(depth) THEN Refused("depth_exceeded")
    ELSE IF r.ok /\ doc.cut THEN Refused("malformed") ELSE r

\* Mutant of Missing: a decoder that requires nothing.
MissingNone(fields, keys) == FALSE

\* The mask of required fields.
Missing(fields, keys) == \E i \in DOMAIN fields : ~fields[i].opt /\ fields[i].key \notin keys

\* The decoders.
RECURSIVE Read(_, _, _)
Read(t, doc, depth) ==
    CASE t.k = "str" -> ReadText(doc)
      [] t.k = "enum" -> ReadWord(doc, t.words, "bad_enum")
      [] t.k = "time" -> ReadWord(doc, {Micros, Wide}, "bad_timestamp")
      [] t.k = "binary" -> ReadWord(doc, {"", Encoded}, "bad_binary")
      [] t.k = "bool" -> IF doc.k = "flag" THEN Got(doc.b) ELSE Refused("wrong_type")
      [] t.k = "integer" ->
            IF doc.k = "number" THEN ReadInteger(doc.n, t.min, t.max) ELSE Refused("wrong_type")
      [] t.k = "raw" -> IF Skip(doc, depth) = "" THEN Got(doc) ELSE Refused(Skip(doc, depth))
      [] t.k = "list" -> Contents(doc, "items", depth,
                                 Every([i \in Places(doc) |-> Read(t.of, doc.v[i], depth + 1)]))
      [] t.k = "map" ->
            LET Place(i) == IF doc.m[i][1] = Garbled THEN Refused("bad_string")
                            ELSE IF Repeats(doc.m, i) THEN Refused("duplicate_key")
                            ELSE ReadText(doc.m[i][2])
                r == Contents(doc, "object", depth, Every([i \in Places(doc) |-> Place(i)]))
            IN IF r.ok THEN Got({<<doc.m[i][1], r.v[i]>> : i \in DOMAIN doc.m}) ELSE r
      [] t.k = "struct" ->
            LET keys == Keys(t.fields)
                Place(i) == IF doc.m[i][1] = Garbled THEN Refused("bad_string")
                            ELSE IF doc.m[i][1] \notin keys THEN Refused("unknown_field")
                            ELSE IF Repeats(doc.m, i) THEN Refused("duplicate_field")
                            ELSE Read(TypeOf(t.fields, doc.m[i][1]), doc.m[i][2], depth + 1)
                r == Contents(doc, "object", depth, Every([i \in Places(doc) |-> Place(i)]))
                given == {doc.m[i][1] : i \in DOMAIN doc.m}
                At(key) == CHOOSE i \in DOMAIN doc.m : doc.m[i][1] = key
            IN IF ~r.ok THEN r
               ELSE IF Missing(t.fields, given) THEN Refused("missing_field")
               ELSE Got([key \in keys |-> IF key \in given THEN r.v[At(key)]
                                          ELSE Zero(TypeOf(t.fields, key))])
-----------------------------------------------------------------------------
(* Frames.  f is the record of a request frame.                             *)

EndpointContract == "abstraction.facade/endpoint@1"
NoArguments == Obj(<<>>, FALSE)

\* Mutant of ServicePayload: the version is not looked at.
ServicePayloadAny(frame) == Read(OAServiceFrame, frame, 0)

ServicePayload(frame) ==
    LET r == Read(OAServiceFrame, frame, 0)
    IN IF r.ok /\ r.v.version # 1 THEN Refused("unknown_version") ELSE r

\* What a handler answers: a result, a ServiceError, another error or a panic.
Result(x) == [k |-> "result", v |-> x]
ServiceError(code, message) == [k |-> "error", code |-> code, message |-> message]
HandlerFailed == ServiceError("handler_error", "handler failed")
Failure == [k |-> "failure"]
Panic == [k |-> "panic"]

\* serviceReply: the reply is read before it is made visible.
ServiceReply(f, answer) ==
    LET coded == IF answer.k # "error" THEN HandlerFailed
                 ELSE IF answer.code = "" THEN [answer EXCEPT !.code = HandlerFailed.code]
                 ELSE answer
        payload == IF answer.k = "result" THEN answer.v
                   ELSE Write(OAServiceError, [code |-> coded.code, message |-> coded.message]).v
        reply == Write(OAServiceReply, [version |-> 1, service |-> f.service, method |-> f.method,
                                        ok |-> answer.k = "result", payload |-> payload])
        r == Read(OAServiceReply, reply.v, 0)
    IN IF r.ok THEN reply ELSE r

RefusedWith(f, word) == ServiceReply(f, ServiceError(word, ""))

\* Mutant of Invoked: the result is not read again.
InvokedUnread(m, answer) ==
    LET p == Write(m[2], [value |-> answer.v])
    IN IF answer.k # "result" THEN answer
       ELSE IF p.ok THEN Result(p.v)
       ELSE ServiceError("invalid_result", "")

\* invokeX: the handler's answer, and its result encoded and read again.  A
\* handler's panic and a result that cannot be written are recovered from.
Invoked(m, answer) ==
    LET p == Write(m[2], [value |-> answer.v])
    IN IF answer.k # "result" THEN answer
       ELSE IF p.ok /\ Read(m[2], p.v, 1).ok THEN Result(p.v)
       ELSE ServiceError("invalid_result", "")

\* An exchange: the reply to the frame, and the call that reached a handler.
Served(reply, ran) == [reply |-> reply, ran |-> ran]

\* The typed arguments, read one level inside the frame.
Arguments(m, f) == Read(m[1], f.arguments, 1)

\* ExchangeFrame of the service's dispatcher, whose handler gives answer.
ExchangeFrame(service, f, answer) ==
    IF f.method \notin DOMAIN service.methods
    THEN Served(RefusedWith(f, "unknown_method"), None)
    ELSE LET m == service.methods[f.method]
             args == Arguments(m, f)
         IN IF ~args.ok THEN Served(RefusedWith(f, args.word), None)
            ELSE Served(ServiceReply(f, Invoked(m, answer)),
                        [service |-> f.service, method |-> f.method, arguments |-> args.v])

\* DescribeEndpoint lists the services of the endpoint; display facts are left out.
DescribeEndpoint(f, hosted) ==
    IF f.method # "Describe" THEN RefusedWith(f, "unknown_method")
    ELSE IF f.arguments # NoArguments THEN RefusedWith(f, "unknown_field")
    ELSE ServiceReply(f, Result(Obj(<<<<"value", Obj(<<<<"outcome", Text("described")>>,
        <<"services", Items(SetToSeq({Obj(<<<<"contract", Text(s.contract)>>>>, FALSE) : s \in hosted}),
                            FALSE)>>>>, FALSE)>>>>, FALSE)))

\* Mutant of Route: an endpoint of one service takes every frame for it.
RouteOnly(hosted, f) == IF Cardinality(hosted) = 1 THEN hosted
                        ELSE {s \in hosted : s.contract = f.service}

\* The service a frame is routed to by its wire name.
Route(hosted, f) == {s \in hosted : s.contract = f.service}

ServeEndpoint(frame, hosted, answer) ==
    LET r == ServicePayload(frame) IN
    IF ~r.ok THEN Served(r, None)
    ELSE IF r.v.service = EndpointContract THEN Served(DescribeEndpoint(r.v, hosted), None)
    ELSE IF Route(hosted, r.v) = {} THEN Served(RefusedWith(r.v, "unknown_service"), None)
    ELSE ExchangeFrame(CHOOSE s \in Route(hosted, r.v) : TRUE, r.v, answer)

-----------------------------------------------------------------------------
(* The client stub of a method: the frame it sends and what it makes of the *)
(* response.                                                                *)

Request(contract, method, m, args) ==
    LET a == Write(m[1], args)
        frame == Write(OAServiceFrame, [version |-> 1, service |-> contract, method |-> method,
                                        arguments |-> a.v])
        checked == ServicePayload(frame.v)
    IN IF ~a.ok THEN a ELSE IF ~checked.ok THEN checked ELSE frame

\* serviceResponse
ServiceResponse(response, contract, method) ==
    LET r == Read(OAServiceReply, response, 0)
        e == Read(OAServiceError, r.v.payload, 1)
    IN IF ~r.ok THEN r
       ELSE IF r.v.version # 1 THEN Refused("unknown_version")
       ELSE IF r.v.service # contract \/ r.v.method # method THEN Refused("mismatched_response")
       ELSE IF r.v.ok THEN Got(r.v.payload)
       ELSE IF ~e.ok THEN e
       ELSE Refused(IF e.v.code = "" THEN "invalid_error" ELSE e.v.code)

Heard(contract, method, m, response) ==
    LET p == ServiceResponse(response, contract, method)
        r == Read(m[2], p.v, 1)
    IN IF ~p.ok THEN p ELSE IF r.ok THEN Got(r.v.value) ELSE r

\* A call of the stub on an endpoint: what the caller hears, and the call that
\* reached a handler.  An endpoint that has no reply ends the connection.
Call(contract, method, m, args, hosted, answer) ==
    LET req == Request(contract, method, m, args)
        served == ServeEndpoint(req.v, hosted, answer)
    IN IF ~req.ok THEN [heard |-> req, ran |-> None]
       ELSE [heard |-> IF served.reply.ok THEN Heard(contract, method, m, served.reply.v)
                       ELSE Refused("no_reply"),
             ran |-> served.ran]

-----------------------------------------------------------------------------
(* The words go/service passes to the vocabularies at run time.             *)

\* beginOutcome and its like: a word that is no member becomes the zero value.
Outcome(words, word) == IF word \in words THEN word ELSE ""

\* inventoryOutcome falls back to a member.
InventoryWord(word) == IF word \in InventoryOutcome THEN word ELSE "unavailable"

Decided == {"forbidden", "unavailable"}      \* decide
FindWords == {"gap", "forbidden"}            \* registry.find, writers.find

\* Per method, the words passed at run time.
ReaderWords == [Open |-> Decided, Read |-> Decided \cup FindWords, Close |-> FindWords]
WriterWords == [Begin |-> Decided \cup {"committed", "present", "unsupported"},
                Append |-> Decided \cup FindWords,
                Commit |-> Decided \cup FindWords \cup {"mismatch"},
                Abort |-> FindWords]
ChangesWords == [Observe |-> Decided, List |-> Decided]
InventoryWords == [List |-> Decided \cup {"invalid"}, ListStore |-> Decided \cup {"invalid"},
                   Holders |-> Decided, Unheld |-> Decided, Find |-> Decided]
=============================================================================
