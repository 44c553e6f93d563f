----------------------------- MODULE JsonTexts -----------------------------
(***************************************************************************)
(* What MBParsing reads and writes: JSON (MBParsing.h's JSONLikeParser and *)
(* JSONObject), UBJSON and base64 (MBParsing.cpp).  A text is a sequence   *)
(* of characters, one string each; a binary is a sequence of bytes.  A     *)
(* parser is given the text and a place in it, from 1, and answers with    *)
(* [ok, value, at].  A value is its type's name and its data.              *)
(* An operator with _ is a plausible mistake.                              *)
(***************************************************************************)
EXTENDS Integers, Sequences, SequencesExt, FiniteSetsExt, TLC

At(t, i) == IF i \in DOMAIN t THEN t[i] ELSE ""
Next(t, i, S) == Min({k \in i .. (Len(t) + 1) : k > Len(t) \/ t[k] \in S})
Read(v, i) == [ok |-> TRUE, value |-> v, at |-> i]
Null == <<"Null">>
Fails(i) == [ok |-> FALSE, value |-> Null, at |-> i]

Space == {" ", "\t", "\n", "\r"}
SkipWhitespace(t, i) ==
    Min({k \in i .. Max({i, Len(t) + 1}) : At(t, k) \notin Space})
GetNextDelimiterPosition(delimiters, t, i) == Next(t, i, delimiters)
FindSubstring(t, u, i) ==              \* 0 for none
    LET found == {k \in i .. (Len(t) - Len(u) + 1) :
                      SubSeq(t, k, k + Len(u) - 1) = u}
    IN IF u = <<>> \/ found = {} THEN 0 ELSE Min(found)

Digits == <<"0", "1", "2", "3", "4", "5", "6", "7", "8", "9">>
IsDigit(c) == c \in Range(Digits)
DigitOf(c) == CHOOSE d \in 0 .. 9 : Digits[d + 1] = c
RECURSIVE ToDigits(_)
ToDigits(n) == CASE n < 0 -> <<"-">> \o ToDigits(-n)
                 [] n \in 0 .. 9 -> <<Digits[n + 1]>>
                 [] OTHER -> ToDigits(n \div 10) \o <<Digits[(n % 10) + 1]>>

-----------------------------------------------------------------------------
Backspace == "BS"
(* A tab comes back as a backspace: the source has \b in both places. *)
Unescape(c) == CASE c = "n" -> "\n" [] c = "f" -> "\f" [] c = "r" -> "\r"
                 [] c \in {"b", "t"} -> Backspace [] OTHER -> c

(* From after the quote.  What is given may end right after a quote or an  *)
(* escape, which nobody minds.                                             *)
RECURSIVE QuotedRest(_, _, _, _, _)
QuotedRest(t, i, quote, escapes, read) ==
    LET end == Next(t, i, {quote})
        back == Next(t, i, {"\\"})
        c == IF escapes THEN Unescape(At(t, back + 1)) ELSE At(t, back + 1)
    IN CASE i > Len(t) -> Read(read, i)
         [] i <= Len(t) /\ (back > Len(t) \/ end < back) ->
                IF end > Len(t) THEN Fails(i)
                ELSE Read(read \o SubSeq(t, i, end - 1), end + 1)
         [] OTHER ->
                IF back + 1 >= Len(t) THEN Fails(i)
                ELSE QuotedRest(t, back + 2, quote, escapes,
                                read \o SubSeq(t, i, back - 1) \o <<c>>)

ParseQuotedString(t, i) ==
    IF At(t, i) \in {"\"", "'"} THEN QuotedRest(t, i + 1, t[i], TRUE, <<>>)
                                ELSE Fails(i)
ParseQuotedBy(quote, t, i) ==
    IF At(t, i) = quote THEN QuotedRest(t, i + 1, quote, FALSE, <<>>) ELSE Fails(i)

ToJason_Quotes(text) ==
    <<"\"">> \o FlattenSeq([k \in DOMAIN text |->
        IF text[k] = "\"" THEN <<"\\", "\"">> ELSE <<text[k]>>]) \o <<"\"">>
ToJason(text) ==
    LET escaped(c) == CASE c \in {"\"", "\\"} -> <<"\\", c>>
                        [] c = Backspace -> <<"\\", "b">> [] c = "\f" -> <<"\\", "f">>
                        [] c = "\n" -> <<"\\", "n">> [] c = "\r" -> <<"\\", "r">>
                        [] c = "\t" -> <<"\\", "t">> [] OTHER -> <<c>>
    IN <<"\"">> \o FlattenSeq([k \in DOMAIN text |-> escaped(text[k])]) \o <<"\"">>

(* std::stoll takes what it can of the characters that were collected. *)
Stoll(s) ==
    LET neg == At(s, 1) = "-"
        first == IF neg THEN 2 ELSE 1
        last == Min({k \in first .. (Len(s) + 1) : ~IsDigit(At(s, k))}) - 1
        v[k \in (first - 1) .. last] ==
            IF k < first THEN 0 ELSE 10 * v[k - 1] + DigitOf(s[k])
    IN [ok |-> last >= first, value |-> IF neg THEN -v[last] ELSE v[last]]
ParseJSONInteger(t, i) ==
    LET end == Min({k \in i .. (Len(t) + 1) : ~(IsDigit(At(t, k)) \/ At(t, k) = "-")})
        n == Stoll(SubSeq(t, i, end - 1))
    IN IF n.ok THEN Read(n.value, end) ELSE Fails(i)
ParseJSONNumber(t, i) ==
    LET end == Min({k \in i .. (Len(t) + 1) :
                       ~(IsDigit(At(t, k)) \/ At(t, k) \in {"-", ".", "e", "E"})})
        s == SubSeq(t, i, end - 1)
        n == Stoll(s)
    IN IF ~n.ok THEN Fails(i)
       ELSE IF Range(s) \cap {".", "e", "E"} = {}
            THEN Read(<<"Integer", n.value>>, end) ELSE Read(<<"Float", s>>, end)

True == <<"t", "r", "u", "e">>
False == <<"f", "a", "l", "s", "e">>
NullText == <<"n", "u", "l", "l">>
Begins(t, i, word) == SubSeq(t, i, Min({Len(t), i + Len(word) - 1})) = word
ParseJSONBoolean(t, from) ==
    LET i == SkipWhitespace(t, from)
    IN CASE Begins(t, i, True) -> Read(<<"Bool", TRUE>>, i + 4)
         [] Begins(t, i, False) -> Read(<<"Bool", FALSE>>, i + 5)
         [] OTHER -> Fails(i)

RECURSIVE ParseObject(_, _), ArrayRest(_, _, _), AggregateRest(_, _, _)

(* A comma may be missing or one too many, and a text that ends where an   *)
(* element could begin is an array that ends.                              *)
ArrayRest(t, from, read) ==
    LET i == SkipWhitespace(t, from)
        element == ParseObject(t, i)
        next == SkipWhitespace(t, element.at)
    IN CASE from > Len(t) -> Read(<<"Array", read>>, from)
         [] from <= Len(t) /\ At(t, i) = "]" -> Read(<<"Array", read>>, i + 1)
         [] OTHER -> IF ~element.ok THEN Fails(element.at)
                     ELSE ArrayRest(t, IF At(t, next) = "," THEN next + 1 ELSE next,
                                    Append(read, element.value))

(* A name that comes again replaces the first. *)
AggregateRest(t, i, read) ==
    LET name == ParseQuotedString(t, SkipWhitespace(t, i))
        colon == SkipWhitespace(t, name.at)
        value == ParseObject(t, colon + 1)
        next == SkipWhitespace(t, value.at)
        more == (name.value :> value.value) @@ read
    IN CASE i > Len(t) -> Read(<<"Aggregate", read>>, i)
         [] At(t, i) = "}" -> Read(<<"Aggregate", read>>, i + 1)
         [] OTHER ->
                IF ~name.ok \/ At(t, colon) # ":" THEN Fails(colon)
                ELSE IF ~value.ok THEN Fails(value.at)
                ELSE IF next > Len(t) THEN Read(<<"Aggregate", more>>, next)
                ELSE AggregateRest(t, IF t[next] = "," THEN SkipWhitespace(t, next + 1)
                                                      ELSE next, more)

ParseObject(t, from) ==
    LET i == SkipWhitespace(t, from)
        c == At(t, i)
        text == ParseQuotedString(t, i)
    IN CASE c = "{" -> AggregateRest(t, SkipWhitespace(t, i + 1), <<>>)
         [] c = "[" -> ArrayRest(t, i + 1, <<>>)
         [] c \in {"T", "t", "F", "f"} -> ParseJSONBoolean(t, i)
         [] IsDigit(c) \/ c = "-" -> ParseJSONNumber(t, i)
         [] c = "\"" -> [text EXCEPT !.value = <<"String", @>>]
         [] c = "n" -> IF Begins(t, i, NullText) THEN Read(Null, i + 4) ELSE Fails(i)
         [] OTHER -> Fails(i)
ParseJSONObject(t, i) == ParseObject(t, i)

-----------------------------------------------------------------------------
Between(parts, separator) ==           \* no separator after the last
    FlattenSeq([k \in DOMAIN parts |->
        IF k < Len(parts) THEN parts[k] \o separator ELSE parts[k]])

Atomic(v) == CASE v[1] = "Bool" -> IF v[2] THEN True ELSE False
               [] v[1] = "String" -> ToJason(v[2])
               [] v[1] = "Integer" -> ToDigits(v[2])
               [] v[1] = "Float" -> v[2]
               [] v[1] = "Null" -> NullText
Names(v) == SetToSeq(DOMAIN v[2])
RECURSIVE JsonText(_)
JsonText(v) ==
    CASE v[1] = "Array" ->
             <<"[">> \o Between([k \in DOMAIN v[2] |-> JsonText(v[2][k])], <<",">>)
                     \o <<"]">>
      [] v[1] = "Aggregate" ->
             <<"{">> \o Between([k \in DOMAIN Names(v) |->
                           ToJason(Names(v)[k]) \o <<":">> \o JsonText(v[2][Names(v)[k]])],
                           <<",">>) \o <<"}">>
      [] OTHER -> Atomic(v)

IndentSpaceWidth == 4
Indent(level) == [k \in 1 .. (IndentSpaceWidth * level) |-> " "]
RECURSIVE PrettyAt(_, _)
PrettyAt(v, level) ==          \* p_ToPrettyString: the names are not escaped
    LET lines(begin, parts, end) ==
            Indent(level) \o <<begin, "\n">> \o Between(parts, <<",", "\n">>)
            \o <<"\n">> \o Indent(level) \o <<end>>
        member(name) ==
            Indent(level + 1) \o <<"\"">> \o name \o <<"\"", ":", " ">>
            \o (IF v[2][name][1] \in {"Array", "Aggregate"}
                THEN <<"\n">> \o PrettyAt(v[2][name], level + 1)
                ELSE JsonText(v[2][name]))
    IN CASE v[1] = "Array" ->
                lines("[", [k \in DOMAIN v[2] |-> PrettyAt(v[2][k], level + 1)], "]")
         [] v[1] = "Aggregate" ->
                lines("{", [k \in DOMAIN Names(v) |-> member(Names(v)[k])], "}")
         [] OTHER -> Indent(level) \o JsonText(v)
ToPrettyString(v) == PrettyAt(v, 0)

-----------------------------------------------------------------------------
(* Binaries: integers, most significant byte first. *)
WriteBigEndianInteger(n, size) ==
    [k \in 1 .. size |-> IF size - k > 3 THEN 0 ELSE (n \div (256 ^ (size - k))) % 256]
ParseBigEndianInteger(b, size, i) ==
    LET v[k \in 0 .. size] == IF k = 0 THEN 0 ELSE 256 * v[k - 1] + b[i + k - 1]
    IN v[size]

(* The bytes of the letters that UBJSON_Type gives its types. *)
Type == [Null |-> 90, NoOp |-> 78, True |-> 84, False |-> 70, Int8 |-> 105,
         UInt8 |-> 85, Int16 |-> 73, Int32 |-> 108, Int64 |-> 76, TypeSpecifier |-> 36,
         CountSpecifier |-> 35, String |-> 83, Char |-> 67, ArrayBegin |-> 91,
         ArrayEnd |-> 93, ObjectBegin |-> 123, ObjectEnd |-> 125, Invalid |-> 126]
Size(type) == CASE type \in {Type.Int8, Type.UInt8} -> 1 [] type = Type.Int16 -> 2
                [] type = Type.Int32 -> 4 [] type = Type.Int64 -> 8 [] OTHER -> 0

Taken(b, i, n) ==
    IF i + n - 1 <= Len(b) THEN Read(SubSeq(b, i, i + n - 1), i + n) ELSE Fails(i)
ParseUBJSON_Integer(b, i, size) ==
    LET taken == Taken(b, i, size)
    IN IF taken.ok THEN Read(<<"Integer", ParseBigEndianInteger(b, size, i)>>, taken.at)
                   ELSE taken

RECURSIVE UbObject(_, _), UbValue(_, _, _), UbArray(_, _, _), UbCounted(_, _, _, _, _),
          UbAggregate(_, _, _)

(* A string is an integer and as many bytes. *)
UbString(b, i) ==
    LET size == UbObject(b, i)
        taken == Taken(b, size.at, size.value[2])
    IN IF ~size.ok \/ size.value[1] # "Integer" THEN Fails(i)
       ELSE [taken EXCEPT !.value = IF taken.ok THEN <<"String", @>> ELSE @]

UbValue(type, b, i) ==
    CASE type = Type.True -> Read(<<"Bool", TRUE>>, i)
      [] type = Type.False -> Read(<<"Bool", FALSE>>, i)
      [] Size(type) > 0 -> ParseUBJSON_Integer(b, i, Size(type))
      [] type = Type.Char -> IF Taken(b, i, 1).ok /\ b[i] <= 127
                             THEN Read(<<"Integer", b[i]>>, i + 1) ELSE Fails(i)
      [] type = Type.String -> UbString(b, i)
      [] type = Type.ArrayBegin -> UbArray(b, i, <<>>)
      [] type = Type.ObjectBegin -> UbAggregate(b, i, <<>>)
      [] OTHER -> Read(Null, i)
UbObject(b, i) == IF i > Len(b) THEN Fails(i) ELSE UbValue(b[i], b, i + 1)

(* After a count: with a type of integers everything is one string; with   *)
(* none, each element is followed by one that is null.                     *)
UbCounted(b, i, type, count, read) ==
    LET raw == Taken(b, i, Size(type) * count)
        one == IF type = Type.Invalid THEN UbObject(b, i) ELSE UbValue(type, b, i)
    IN IF Len(read) >= (IF type = Type.Invalid THEN 2 * count ELSE count)
       THEN Read(<<"Array", read>>, i)
       ELSE IF Size(type) > 0
            THEN [raw EXCEPT !.value = IF raw.ok THEN <<"String", @>> ELSE @]
       ELSE IF ~one.ok THEN one
       ELSE UbCounted(b, one.at, type, count,
                read \o (IF type = Type.Invalid THEN <<one.value, Null>> ELSE <<one.value>>))

UbArray(b, i, read) ==
    LET next == UbObject(b, i)
        typed == At(b, i) = Type.TypeSpecifier
        count == UbObject(b, IF typed THEN next.at + 2 ELSE next.at)
    IN IF ~next.ok THEN next
       ELSE IF b[i] \in {Type.TypeSpecifier, Type.CountSpecifier}
            THEN IF ~count.ok \/ count.value[1] # "Integer" THEN Fails(i)
                 ELSE UbCounted(b, count.at, IF typed THEN At(b, next.at) ELSE Type.Invalid,
                                count.value[2], read)
       ELSE IF b[i] = Type.ArrayEnd THEN Read(<<"Array", read>>, next.at)
       ELSE UbArray(b, next.at, Append(read, next.value))

UbAggregate(b, i, read) ==
    LET size == UbObject(b, i)
        name == Taken(b, size.at, size.value[2])
        value == UbObject(b, name.at)
    IN IF ~size.ok THEN size
       ELSE IF b[i] = Type.ObjectEnd THEN Read(<<"Aggregate", read>>, size.at)
       ELSE IF size.value[1] # "Integer" THEN Fails(i)
       ELSE IF ~name.ok THEN name
       ELSE IF ~value.ok THEN value
       ELSE UbAggregate(b, value.at, (name.value :> value.value) @@ read)
ParseUBJSON(b) == UbObject(b, 1)

SerialiseUBJSON_Integer(n) ==
    LET type == CASE n < 256 -> Type.UInt8 [] n \in 256 .. 65535 -> Type.Int16
                  [] OTHER -> Type.Int32
    IN <<type>> \o WriteBigEndianInteger(n, Size(type))
(* A string with a byte 0 is taken for an array of bytes. *)
SerialiseUBJSON_String(s) ==
    (IF 0 \in Range(s)
     THEN <<Type.ArrayBegin, Type.TypeSpecifier, Type.UInt8, Type.CountSpecifier>>
     ELSE <<Type.String>>) \o SerialiseUBJSON_Integer(Len(s)) \o s
(* "raw" goes first. *)
RECURSIVE SerialiseUBJSON(_, _)
SerialiseUBJSON(v, raw) ==
    LET names == SetToSeq(DOMAIN v[2] \cap {raw}) \o SetToSeq(DOMAIN v[2] \ {raw})
    IN CASE v[1] = "Integer" -> SerialiseUBJSON_Integer(v[2])
         [] v[1] = "String" -> SerialiseUBJSON_String(v[2])
         [] v[1] = "Bool" -> <<IF v[2] THEN Type.True ELSE Type.False>>
         [] v[1] = "Null" -> <<Type.Null>>
         [] v[1] = "Array" ->
                <<Type.ArrayBegin>> \o FlattenSeq([k \in DOMAIN v[2] |->
                    SerialiseUBJSON(v[2][k], raw)]) \o <<Type.ArrayEnd>>
         [] v[1] = "Aggregate" ->
                <<Type.ObjectBegin>> \o FlattenSeq([k \in DOMAIN names |->
                    SerialiseUBJSON_Integer(Len(names[k])) \o names[k]
                    \o SerialiseUBJSON(v[2][names[k]], raw)]) \o <<Type.ObjectEnd>>

-----------------------------------------------------------------------------
(* Base64, of characters as their codes: 61 is the padding. *)
Base64CharToBinary(c) ==
    CASE c \in 65 .. 90 -> c - 65 [] c \in 97 .. 122 -> c - 71
      [] c \in 48 .. 57 -> c + 4 [] c = 43 -> 62 [] c = 47 -> 63
ByteToBASE64(n) ==
    CASE n \in 0 .. 25 -> n + 65 [] n \in 26 .. 51 -> n + 71
      [] n \in 52 .. 61 -> n - 4 [] n = 62 -> 43 [] n = 63 -> 47
Padding == 61

BASE64Encode(b) ==                     \* six bits at a time
    LET byte(k) == IF k \in DOMAIN b THEN b[k] ELSE 0
        bits(k) == CASE k % 4 = 1 -> byte(3 * (k \div 4) + 1) \div 4
                     [] k % 4 = 2 -> (byte(3 * (k \div 4) + 1) % 4) * 16
                                     + byte(3 * (k \div 4) + 2) \div 16
                     [] k % 4 = 3 -> (byte(3 * (k \div 4) + 2) % 16) * 4
                                     + byte(3 * (k \div 4) + 3) \div 64
                     [] k % 4 = 0 -> byte(3 * (k \div 4)) % 64
        n == (8 * Len(b) + 5) \div 6
    IN [k \in 1 .. (4 * ((n + 3) \div 4)) |->
           IF k <= n THEN ByteToBASE64(bits(k)) ELSE Padding]

RECURSIVE Base64ToBinary(_)
Base64ToBinary(s) ==                   \* four characters make three bytes
    LET n == Min({k \in 1 .. 4 : k \in {4, Len(s)} \/ s[k + 1] = Padding})
        sum[k \in 0 .. n] == IF k = 0 THEN 0
                             ELSE sum[k - 1] + Base64CharToBinary(s[k]) * 64 ^ (4 - k)
        bytes == [k \in 1 .. (n - 1) |-> (sum[n] \div (256 ^ (3 - k))) % 256]
    IN IF s = <<>> THEN <<>>
       ELSE IF n < 4 THEN bytes
       ELSE bytes \o Base64ToBinary(SubSeq(s, 5, Len(s)))

-----------------------------------------------------------------------------
(* A value is read as it was written, in a line, in several, or after      *)
(* blanks, and nothing of what follows is taken.                           *)
JsonIsRead(v) ==
    /\ ParseJSONObject(JsonText(v), 1) = Read(v, Len(JsonText(v)) + 1)
    /\ ParseJSONObject(<<" ", "\n">> \o JsonText(v) \o <<",", " ">>, 1)
           = Read(v, Len(JsonText(v)) + 3)
    /\ ParseJSONObject(ToPrettyString(v), 1) = Read(v, Len(ToPrettyString(v)) + 1)

(* A text is read as it was quoted. *)
QuotedIsRead(text) ==
    /\ ParseQuotedString(ToJason(text) \o <<"x">>, 1)
           = Read(text, Len(ToJason(text)) + 1)
    /\ \A i \in 1 .. Len(text) : FindSubstring(text, SubSeq(text, i, Len(text)), 1)
                                   \in 1 .. i

(* So is a binary, whatever bytes are in it. *)
BinaryIsRead(v, raw) ==
    ParseUBJSON(SerialiseUBJSON(v, raw)) = Read(v, Len(SerialiseUBJSON(v, raw)) + 1)
Base64IsRead(b) == /\ Base64ToBinary(BASE64Encode(b)) = b
                   /\ Len(b) <= 4 => \A i \in DOMAIN b :
                         ParseBigEndianInteger(WriteBigEndianInteger(b[i], i), i, 1) = b[i]
=============================================================================
