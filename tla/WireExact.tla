------------------------------ MODULE WireExact ------------------------------
(* What Wire promises, stated without its reading order, positions and      *)
(* accumulators, and the values and documents it is tried on.               *)
EXTENDS Wire

-----------------------------------------------------------------------------
(* The records, the services and the values of every type.                  *)

AllServices == {ContentReaderService, ContentWriterService, ContentChangesService, HoldsService,
             ManifestsService, InventoryService, ContentRemoverService, InventorySourceService,
             LendingService}
Handled == UNION {{s} \X DOMAIN s.methods : s \in AllServices}
Methods == {s.methods[n] : <<s, n>> \in Handled}

\* A record and the records it is made of.
RECURSIVE Parts(_)
Parts(t) == CASE t.k = "struct" -> {t} \cup UNION {Parts(f.type) : f \in ToSet(t.fields)}
              [] t.k = "list" -> Parts(t.of)
              [] OTHER -> {}

Records == UNION {Parts(m[1]) \cup Parts(m[2]) : m \in Methods}
           \cup {OAServiceFrame, OAServiceReply, OAServiceError}

\* The value every other one of the type differs from in one place.
RECURSIVE Base(_)
Base(t) == CASE t.k = "str" -> "s"
             [] t.k = "enum" -> CHOOSE w \in t.words : TRUE
             [] t.k = "time" -> Micros
             [] t.k = "binary" -> Encoded
             [] t.k = "integer" -> t.max
             [] t.k = "bool" -> TRUE
             [] t.k = "map" -> {}
             [] t.k = "raw" -> NoArguments
             [] t.k = "list" -> <<Base(t.of)>>
             [] t.k = "struct" ->
                [key \in Keys(t.fields) |->
                    LET f == CHOOSE g \in ToSet(t.fields) : g.key = key
                    IN IF f.opt THEN Zero(f.type) ELSE Base(f.type)]

\* Values that differ from it in one place; the records in it have their own.
RECURSIVE Variants(_)
Variants(t) ==
    CASE t.k = "str" -> {"", Garbled}
      [] t.k = "enum" -> t.words \cup {""}
      [] t.k = "time" -> {Wide, "", "s"}
      [] t.k = "binary" -> {""}
      [] t.k = "integer" -> {t.min, -1, 0}
      [] t.k = "bool" -> {FALSE}
      [] t.k = "map" -> {{<<"s", "">>}, {<<"s", "s">>, <<"t", "s">>}, {<<Garbled, "s">>}}
      [] t.k = "raw" -> {Text("s"), Number(<<Minus, 1, Dot, 0>>), Items(<<NullDoc, Flag(TRUE)>>, FALSE)}
      [] t.k = "list" -> {<<>>, <<Base(t.of), Base(t.of)>>}
                          \cup {<<x>> : x \in IF t.of.k = "struct" THEN {} ELSE Variants(t.of)}
      [] t.k = "struct" ->
            LET base == Base(t)
                Of(f) == (IF f.type.k = "struct" THEN {} ELSE Variants(f.type)) \cup (IF f.opt THEN {Base(f.type)} ELSE {})
            IN UNION {{[base EXCEPT ![f.key] = x] : x \in Of(f)} : f \in ToSet(t.fields)}

Values(t) == {Base(t)} \cup Variants(t)

-----------------------------------------------------------------------------
(* The promise of the codec.                                                *)

\* The value can be written and read.
RECURSIVE Sendable(_, _)
Sendable(t, x) ==
    CASE t.k = "str" -> x # Garbled
      [] t.k = "enum" -> x \in t.words
      [] t.k = "time" -> Normal(x) # ""
      [] t.k = "map" -> \A e \in x : e[1] # Garbled /\ e[2] # Garbled
      [] t.k = "list" -> \A i \in DOMAIN x : Sendable(t.of, x[i])
      [] t.k = "struct" ->
            \A f \in ToSet(t.fields) : (f.opt /\ x[f.key] = Zero(f.type)) \/ Sendable(f.type, x[f.key])
      [] OTHER -> TRUE

\* The value that arrives: timestamps are normalised.
RECURSIVE Arriving(_, _)
Arriving(t, x) ==
    CASE t.k = "time" -> Normal(x)
      [] t.k = "list" -> [i \in DOMAIN x |-> Arriving(t.of, x[i])]
      [] t.k = "struct" ->
            IF x = None THEN None
            ELSE [key \in DOMAIN x |-> Arriving(TypeOf(t.fields, key), x[key])]
      [] OTHER -> x

Missent ==
    {<<t, x>> \in UNION {{t} \X Values(t) : t \in Records} :
        LET w == Write(t, x)
            r == Read(t, w.v, 0)
        IN IF Sendable(t, x) THEN ~w.ok \/ r # Got(Arriving(t, x)) ELSE w.ok /\ r.ok}

\* Of every record, every value that can be sent arrives, whatever it holds;
\* every other one is refused by the writer or by the reader, and never arrives
\* as something else (rec.go:3804-5885 against 6620-13521).
EncodesExactly == Missent = {}

\* The document is one of the type: what a reader of the wire is to accept.
RECURSIVE Conforms(_, _, _)
Conforms(t, doc, levels) ==
    CASE t.k = "str" -> doc.k = "text" /\ doc.v # Garbled
      [] t.k = "enum" -> doc.k = "text" /\ doc.v \in t.words
      [] t.k = "time" -> doc.k = "text" /\ doc.v \in {Micros, Wide}
      [] t.k = "binary" -> doc.k = "text" /\ doc.v \in {"", Encoded}
      [] t.k = "bool" -> doc.k = "flag"
      [] t.k = "integer" -> doc.k = "number" /\ doc.n \in {Num(n) : n \in t.min .. t.max}
      [] t.k = "list" -> /\ doc.k = "items" /\ ~doc.cut /\ levels > 0
                         /\ \A i \in DOMAIN doc.v : Conforms(t.of, doc.v[i], levels - 1)
      [] t.k \in {"map", "struct"} ->
            /\ doc.k = "object" /\ ~doc.cut /\ levels > 0
            /\ Cardinality({doc.m[i][1] : i \in DOMAIN doc.m}) = Len(doc.m)
            /\ t.k = "map" => \A i \in DOMAIN doc.m :
                   doc.m[i][1] # Garbled /\ Conforms(Str, doc.m[i][2], levels - 1)
            /\ t.k = "struct" =>
                   /\ \A f \in ToSet(t.fields) : f.opt \/ \E i \in DOMAIN doc.m : doc.m[i][1] = f.key
                   /\ \A i \in DOMAIN doc.m : \E f \in ToSet(t.fields) :
                          f.key = doc.m[i][1] /\ Conforms(f.type, doc.m[i][2], levels - 1)
      [] t.k = "raw" ->
            CASE doc.k = "text" -> doc.v # Garbled
              [] doc.k = "number" -> SkipNumber(doc.n) = ""
              [] doc.k = "items" -> /\ ~doc.cut /\ levels > 0
                                    /\ \A i \in DOMAIN doc.v : Conforms(Raw, doc.v[i], levels - 1)
              [] doc.k = "object" ->
                    /\ ~doc.cut /\ levels > 0
                    /\ Cardinality({doc.m[i][1] : i \in DOMAIN doc.m}) = Len(doc.m)
                    /\ \A i \in DOMAIN doc.m :
                           doc.m[i][1] # Garbled /\ Conforms(Raw, doc.m[i][2], levels - 1)
              [] OTHER -> TRUE

\* What a document may have in a place where it should have another.
Strange == {Text(Garbled), Text("s"), Number(<<1>>), Number(<<1, Dot>>), Flag(FALSE), NullDoc,
            Items(<<>>, FALSE), Items(<<NullDoc>>, TRUE), Obj(<<>>, FALSE)}

\* The object with something wrong, or merely different, in one place.
Damaged(doc) ==
    Strange
    \cup {[doc EXCEPT !.cut = TRUE], [doc EXCEPT !.m = Append(@, <<"other", NullDoc>>)],
          [doc EXCEPT !.m = Append(@, <<Garbled, NullDoc>>)], [doc EXCEPT !.m = Reverse(@)]}
    \cup {[doc EXCEPT !.m = RemoveAt(@, i)] : i \in DOMAIN doc.m}
    \cup {[doc EXCEPT !.m = Append(@, @[i])] : i \in DOMAIN doc.m}
    \cup {[doc EXCEPT !.m[i][2] = d] : i \in DOMAIN doc.m, d \in Strange}
    \cup {[doc EXCEPT !.m[i][2].cut = TRUE] :
              i \in {j \in DOMAIN doc.m : doc.m[j][2].k \in {"items", "object"}}}

\* The fullest value: every optional field is there.
RECURSIVE Full(_)
Full(t) == CASE t.k = "map" -> {<<"s", "s">>}
             [] t.k = "list" -> <<Full(t.of)>>
             [] t.k = "struct" -> [key \in Keys(t.fields) |-> Full(TypeOf(t.fields, key))]
             [] OTHER -> Base(t)

Misread ==
    UNION {LET whole == Write(t, Full(t)).v IN
           {<<t, c>> : c \in {d \in (Damaged(whole) \X {0}) \cup ({whole} \X (0 .. DepthLimit)) :
                Read(t, d[1], d[2]).ok # Conforms(t, d[1], DepthLimit - d[2])}} : t \in Records}

\* Every reader accepts exactly the documents of its record: a member that is
\* missing, repeated, unknown, misspelt, of another type or too deep is refused
\* wherever it is, and the order of members does not matter (rec.go:5929-13521).
ReadsOnlyTheSchema == Misread = {}

-----------------------------------------------------------------------------
(* Spellings.                                                               *)

\* A spelling of at most four symbols, for a field of the widest integer or of a
\* narrower one.
Spellings == UNION {[1 .. n -> Digit \cup {Minus, Dot}] : n \in 1 .. 4}

\* The number a spelling stands for: no sign but a minus, no leading zero, no
\* negative zero, no fraction.
Magnitude(ds) == FoldLeft(LAMBDA v, d : 10 * v + d, 0, ds)
Stands(s) ==
    LET body == IF Head(s) = Minus THEN Tail(s) ELSE s
    IN IF body = <<>> \/ ~(ToSet(body) \subseteq Digit) \/ (Head(body) = 0 /\ s # <<0>>) THEN {}
       ELSE {IF Head(s) = Minus THEN -Magnitude(body) ELSE Magnitude(body)}

MisreadIntegers ==
    {<<s, type>> \in Spellings \X {Int64, Int32} :
        LET r == ReadInteger(s, type.min, type.max)
        IN Stands(s) \cap (type.min .. type.max) # (IF r.ok THEN {r.v} ELSE {})}

MiswrittenIntegers == {n \in Int64.min .. Int64.max : Stands(Num(n)) # {n}}

\* An integer is read from its one spelling and no other: nothing wraps at the
\* width of the word, at the least integer or at the limits of a narrower field
\* (rec.go:6086-6133 against 31-50).
IntegersExact == MisreadIntegers = {} /\ MiswrittenIntegers = {}

Leap(y) == y % 4 = 0 /\ (y % 100 = 0 => y % 400 = 0)
MonthDays(y) == <<31, IF Leap(y) THEN 29 ELSE 28, 31, 30, 31, 30, 31, 31, 30, 31, 30, 31>>
DayNumber(y, m, d) == 365 * y + (y + 3) \div 4 - (y + 99) \div 100 + (y + 399) \div 400
                      + FoldLeft(+, 0, SubSeq(MonthDays(y), 1, m - 1)) + d
Valid(t) == /\ t.m \in 1 .. 12 /\ t.d \in 1 .. MonthDays(t.y)[t.m]
            /\ t.minutes < 1440 /\ t.east \in -1439 .. 1439

Years == {0, 1, 4, 100, 1900, 2000, 2023, 2024, 9999}
Stamps == [y : Years, m : 0 .. 13, d : {0, 1, 2} \cup 28 .. 32, minutes : {0, 1439, 1440},
           east : {-1440, -1439, 0, 61, 1439, 1440}]

\* The instant a timestamp names, as a day and a minute of it.
Instant(t) == LET total == t.minutes - t.east
              IN <<DayNumber(t.y, t.m, t.d) + total \div 1440, total % 1440>>

MisreadTimestamps ==
    {t \in Stamps :
        LET r == Normalized(t)
            day == Instant(t)[1]
        IN IF Valid(t) /\ day \in DayNumber(0, 1, 1) .. DayNumber(9999, 12, 31)
           THEN \/ r = None
                \/ ~Valid(r) \/ r.y \notin 0 .. 9999 \/ r.east # 0 \/ Instant(r) # Instant(t)
           ELSE r # None}

\* The bits of the bytes b, most significant first, and the digits they make.
BitOf(b, i) == IF i >= Len(b) * CharBits THEN 0
               ELSE (b[1 + i \div CharBits] \div 2 ^ (CharBits - 1 - (i % CharBits))) % 2
TextOf(b) ==
    LET used == (Len(b) * CharBits + DigitBits - 1) \div DigitBits
    IN [k \in 1 .. 4 * ((Len(b) + 2) \div 3) |->
            IF k > used THEN Pad
            ELSE FoldLeft(LAMBDA v, i : 2 * v + BitOf(b, (k - 1) * DigitBits + i - 1), 0,
                          [i \in 1 .. DigitBits |-> i])]

Bytes == UNION {[1 .. n -> 0 .. 2 ^ CharBits - 1] : n \in 0 .. 2} \cup [1 .. 4 -> {0, 1, 6, 15}]
Texts == UNION {[1 .. n -> -1 .. 2 ^ DigitBits - 1] : n \in {0, 2, 4}}
         \cup {s \o t : s, t \in [1 .. 4 -> {-1, 0}] \cup [1 .. 4 -> {-1, 6}]}

MisreadBinary ==
    {b \in Bytes : EncodeBinary(b) # TextOf(b) \/ ReadBinary(TextOf(b)) # Got(b)}
    \cup {s \in Texts : LET r == ReadBinary(s) IN r.ok /\ TextOf(r.v) # s}

\* A timestamp is carried into UTC as the same instant, over the ends of months
\* and years, or refused when it is no date or its year leaves 0000-9999; bytes
\* have one text, and no other text is read as bytes (rec.go:6524-6611, 13550-13627).
TextsExact == MisreadTimestamps = {} /\ MisreadBinary = {}

-----------------------------------------------------------------------------
(* Calls.                                                                   *)

\* The words go/service answers with, for the services it hosts.
Words(s, n) == CASE s = ContentReaderService -> ReaderWords[n]
                 [] s = ContentWriterService -> WriterWords[n]
                 [] s = ContentChangesService -> ChangesWords[n]
                 [] s = InventoryService -> InventoryWords[n]
                 [] OTHER -> {}
Vocabulary(m) == TypeOf(TypeOf(m[2].fields, "value").fields, "outcome").words
Answering(s, n, word) ==
    IF s = InventoryService THEN InventoryWord(word) ELSE Outcome(Vocabulary(s.methods[n]), word)

\* What the handler of s's method n is tried with.
Answers(s, n) ==
    LET type == TypeOf(s.methods[n][2].fields, "value")
    IN {Result(x) : x \in {Base(type), Full(type)} \cup Variants(type)}
       \cup {Result([Base(type) EXCEPT !.outcome = Answering(s, n, w)]) : w \in Words(s, n)}
       \cup {ServiceError(code, message) : code \in {"", "gap"}, message \in {"", "s", Garbled}}
       \cup {Failure, Panic}

\* What the caller is to hear of an answer.
Conveyed(m, answer) ==
    CASE answer.k = "result" ->
            IF Sendable(m[2], [value |-> answer.v])
            THEN Got(Arriving(m[2], [value |-> answer.v]).value) ELSE Refused("invalid_result")
      [] answer.k = "error" ->
            IF answer.message = Garbled THEN Refused("no_reply")
            ELSE Refused(IF answer.code = "" THEN "handler_error" ELSE answer.code)
      [] OTHER -> Refused("handler_error")

MisheardAnswers ==
    UNION {{<<s.contract, n, a>> : a \in {b \in Answers(s, n) :
        LET m == s.methods[n]
            call == Call(s.contract, n, m, Full(m[1]), AllServices, b)
        IN call.heard # Conveyed(m, b) \/ call.ran = None}}
        : <<s, n>> \in Handled}

MisheardWords ==
    UNION {{w \in Words(s, n) : Answering(s, n, w) # w} : <<s, n>> \in Handled}

MiscarriedArguments ==
    UNION {LET m == s.methods[n]
               answer == Result(Base(TypeOf(m[2].fields, "value")))
           IN {<<s.contract, n, c>> : c \in
                 {d \in Values(m[1]) \X {{}, {s}, AllServices \ {s}, AllServices} :
                    LET call == Call(s.contract, n, m, d[1], d[2], answer)
                    IN IF ~Sendable(m[1], d[1]) THEN call.heard.ok \/ call.ran # None
                       ELSE IF s \notin d[2]
                            THEN call # [heard |-> Refused("unknown_service"), ran |-> None]
                       ELSE \/ ~call.heard.ok
                            \/ call.ran # [service |-> s.contract, method |-> n,
                                           arguments |-> Arriving(m[1], d[1])]}}
           : <<s, n>> \in Handled}

\* A call runs the handler it names, once, with the arguments that were passed, or
\* runs none; its caller hears the answer of that handler, every word this service
\* answers with included, or a refusal that says the handler gave none
\* (rec.go:13633-13751, 13852-13934, 14065-14151).
CallsExact == MisheardAnswers = {} /\ MisheardWords = {} /\ MiscarriedArguments = {}

\* FramesFor for the method, damaged in one place of the frame or of its arguments.
FramesFor(s, n) ==
    LET m == s.methods[n]
        frame == Request(s.contract, n, m, Full(m[1])).v
        With(i, doc) == [frame EXCEPT !.m[i][2] = doc]
    IN {frame, With(1, Number(<<2>>)), With(2, Text(EndpointContract)), With(3, Text("Describe"))}
       \cup Damaged(frame) \cup {With(4, doc) : doc \in Damaged(frame.m[4][2])}

MisranFrames ==
    UNION {{<<s.contract, n, c>> : c \in {d \in FramesFor(s, n) \X {{s}, {s, LendingService}, {LendingService}} :
        LET served == ServeEndpoint(d[1], d[2], Panic)
            At(key) == (CHOOSE e \in ToSet(d[1].m) : e[1] = key)[2]
            framed == Conforms(OAServiceFrame, d[1], DepthLimit) /\ At("version") = Number(<<1>>)
        IN \/ served.reply.ok # framed
           \/ (served.ran # None) #
                 /\ framed /\ \E h \in d[2] : /\ At("service") = Text(h.contract)
                                              /\ At("method").v \in DOMAIN h.methods
                                              /\ Conforms(h.methods[At("method").v][1], At("arguments"),
                                                          DepthLimit - 1)}}
        : <<s, n>> \in Handled}

\* A handler runs for no frame but one that names its service and method and holds
\* their arguments, and every frame whose envelope can be read has a reply.
RunsOnlyTyped == MisranFrames = {}
=============================================================================
