----------------------------- MODULE TypeParser -----------------------------
(***************************************************************************)
(* The scalar parsers of forms.js (LIMITS, parseInterger32,               *)
(* parseInterger64 and the TypeParser table).  Every parser is a pure     *)
(* operator from the text of an input element to a result: Ok(value) or   *)
(* Err(message), where message is the string the code throws.            *)
(*                                                                         *)
(* Texts are sequences of one-character strings.  The numeric limits are  *)
(* CONSTANTS so that a model can scale them down: the 64-bit parser only   *)
(* compares texts against the limit texts, so it behaves the same for any *)
(* limit texts; HEX_LEN_CAP is the literal 18 of line 144, which is the    *)
(* length of both hex limits, and NUMBER_MAX is the largest finite value  *)
(* of a JavaScript Number.                                                *)
(***************************************************************************)
EXTENDS Integers, Sequences, SequencesExt

CONSTANTS INT32_MIN, INT32_MAX, UINT32_MAX, FLOAT_MAX,   \* integers
          INT64_MIN, INT64_MAX, UINT64_MAX,              \* decimal texts
          INT64_HEX_MAX, UINT64_HEX_MAX,                 \* hex texts
          HEX_LEN_CAP,                                   \* 18 in the code
          NUMBER_MAX                                     \* Number.MAX_VALUE

ASSUME LimitsAssumption ==
    /\ INT32_MIN < 0 /\ 0 < INT32_MAX /\ INT32_MAX < UINT32_MAX
    /\ UINT32_MAX < NUMBER_MAX /\ FLOAT_MAX < NUMBER_MAX
    /\ HEX_LEN_CAP = Len(INT64_HEX_MAX) /\ HEX_LEN_CAP = Len(UINT64_HEX_MAX)

(***************************************************************************)
(* Field types of descriptor.proto.  A descriptor spells a type either as *)
(* a number (FIELD_TYPE) or as a string "TYPE_..." (FIELD_TYPE_STRING);   *)
(* a spelled type is a record [sp, t] and the code's loose comparison     *)
(* `type == FIELD_TYPE.X` is `sp = "num" /\ t = X`.                        *)
(***************************************************************************)
FieldTypes == {"DOUBLE", "FLOAT", "INT64", "UINT64", "INT32", "FIXED64",
               "FIXED32", "BOOL", "STRING", "GROUP", "MESSAGE", "BYTES",
               "UINT32", "ENUM", "SFIXED32", "SFIXED64", "SINT32", "SINT64"}
Spellings == {"num", "str"}
Spelled(sp, t) == [sp |-> sp, t |-> t]

Ok(v) == [ok |-> TRUE, val |-> v]
Err(msg) == [ok |-> FALSE, err |-> msg]

(***************************************************************************)
(* Characters, JavaScript string order (UTF-16 code units), whitespace     *)
(* trimming ($.trim), toLowerCase.                                         *)
(***************************************************************************)
DecDigits == <<"0", "1", "2", "3", "4", "5", "6", "7", "8", "9">>
HexDigits == DecDigits \o <<"a", "b", "c", "d", "e", "f">>
UpperHex == <<"A", "B", "C", "D", "E", "F">>
\* the one character beyond ASCII of the model: U+00E9, UTF-8 bytes C3 A9
NonAscii == "U+00E9"
Pos(s, c) == CHOOSE i \in DOMAIN s : s[i] = c

Code(c) ==
    CASE c = " " -> 32
      [] c = "%" -> 37
      [] c = "-" -> 45
      [] c = NonAscii -> 233
      [] c = "X" -> 88
      [] c = "x" -> 120
      [] c \in ToSet(DecDigits) -> 47 + Pos(DecDigits, c)
      [] c \in ToSet(UpperHex)  -> 64 + Pos(UpperHex, c)
      [] OTHER                  -> 86 + Pos(HexDigits, c)

\* a < b for JavaScript strings: lexicographic by code unit
RECURSIVE StrLess(_, _)
StrLess(a, b) ==
    IF b = <<>> THEN FALSE
    ELSE IF a = <<>> THEN TRUE
    ELSE IF Head(a) = Head(b) THEN StrLess(Tail(a), Tail(b))
    ELSE Code(Head(a)) < Code(Head(b))

RECURSIVE TrimLeft(_)
TrimLeft(s) == IF s # <<>> /\ Head(s) = " " THEN TrimLeft(Tail(s)) ELSE s
Trim(s) == Reverse(TrimLeft(Reverse(TrimLeft(s))))

LowerOf(c) ==
    IF c = "X" THEN "x"
    ELSE IF c \in ToSet(UpperHex) THEN HexDigits[10 + Pos(UpperHex, c)]
    ELSE c
ToLowerCase(s) == [i \in DOMAIN s |-> LowerOf(s[i])]

(***************************************************************************)
(* decodeURIComponent, as setDefautValue (lines 439-444) runs it on a     *)
(* field's default text (ECMAScript Decode with an empty reserved set).   *)
(* A "%" must start an escape "%hh" of a byte; a byte below 80 is a       *)
(* character, a higher one must lead a well-formed UTF-8 sequence of      *)
(* escaped bytes (no overlong form, surrogate or code point past 10FFFF); *)
(* anything else throws URIError.  A decoded character outside the        *)
(* model's characters is the single stand-in OtherChar.                   *)
(***************************************************************************)
OtherChar == "other"
IsHexChar(c) == c \in ToSet(HexDigits) \cup ToSet(UpperHex)
HexVal(c) == IF c \in ToSet(UpperHex) THEN 9 + Pos(UpperHex, c) ELSE Pos(HexDigits, c) - 1

\* the byte escaped at position k of s, or -1 when no escape starts there
EscapedByte(s, k) ==
    IF k + 2 <= Len(s) /\ s[k] = "%" /\ IsHexChar(s[k + 1]) /\ IsHexChar(s[k + 2])
    THEN 16 * HexVal(s[k + 1]) + HexVal(s[k + 2])
    ELSE -1

\* the length of the UTF-8 sequence a byte leads; 0 when it leads none
Utf8Length(b) ==
    CASE b \in 0..127   -> 1
      [] b \in 194..223 -> 2
      [] b \in 224..239 -> 3
      [] b \in 240..244 -> 4
      [] OTHER         -> 0

\* the bytes allowed after the lead b at position i of its sequence
ContinuationBytes(b, i) ==
    CASE i > 2   -> 128..191
      [] b = 224 -> 160..191
      [] b = 237 -> 128..159
      [] b = 240 -> 144..191
      [] b = 244 -> 128..143
      [] OTHER   -> 128..191

\* the character a well-formed byte sequence stands for
CharOfBytes(bytes) ==
    LET named == {c \in ToSet(DecDigits \o HexDigits \o UpperHex) \cup {" ", "%", "-", "X", "x", NonAscii} :
                     bytes = IF c = NonAscii THEN <<195, 169>> ELSE <<Code(c)>>}
    IN IF named = {} THEN OtherChar ELSE CHOOSE c \in named : TRUE

RECURSIVE DecodeFrom(_, _)
DecodeFrom(s, k) ==
    IF k > Len(s) THEN Ok(<<>>)
    ELSE IF s[k] # "%"
    THEN LET r == DecodeFrom(s, k + 1) IN
         IF r.ok THEN Ok(<<s[k]>> \o r.val) ELSE r
    ELSE LET lead == EscapedByte(s, k)
             n == IF lead < 0 THEN 0 ELSE Utf8Length(lead)
             bytes == [i \in 1..n |-> EscapedByte(s, k + 3 * (i - 1))]
         IN IF n = 0 \/ \E i \in 2..n : bytes[i] \notin ContinuationBytes(lead, i)
            THEN Err("URIError")
            ELSE LET r == DecodeFrom(s, k + 3 * n) IN
                 IF r.ok THEN Ok(<<CharOfBytes(bytes)>> \o r.val) ELSE r

DecodeURIComponent(s) == DecodeFrom(s, 1)

\* setDefautValue: the decoded default, or the raw default when decoding throws
SetDefautValue(d) ==
    LET r == DecodeURIComponent(d) IN IF r.ok THEN r.val ELSE d

(***************************************************************************)
(* Lexical forms and the conversion Number(v) on them.                    *)
(***************************************************************************)
DigitSet == ToSet(DecDigits)
HexDigitSet == ToSet(HexDigits)
IsDecimal(s) == s # <<>> /\ \A i \in DOMAIN s : s[i] \in DigitSet
IsNegDecimal(s) == Len(s) >= 2 /\ s[1] = "-" /\ IsDecimal(Tail(s))
\* 0x[0-9a-f]+ ; Number() also takes 0X and A-F
IsHex(s, xs, ds) ==
    Len(s) >= 3 /\ s[1] = "0" /\ s[2] \in xs
    /\ \A i \in 3..Len(s) : s[i] \in ds

\* the regular expressions of lines 161 and 180
Matches(reg, v) ==
    \/ IsHex(v, {"x"}, HexDigitSet)
    \/ IsDecimal(v)
    \/ reg = "signed" /\ IsNegDecimal(v)

RECURSIVE DigitsValue(_, _)
DigitsValue(s, base) ==
    IF s = <<>> THEN 0
    ELSE DigitsValue(Front(s), base) * base
         + Pos(HexDigits, LowerOf(Last(s))) - 1

IsNumeric(v) ==
    \/ IsHex(v, {"x", "X"}, HexDigitSet \cup ToSet(UpperHex))
    \/ IsDecimal(v) \/ IsNegDecimal(v)
NumberValue(v) ==
    CASE IsNegDecimal(v) -> -DigitsValue(Tail(v), 10)
      [] IsDecimal(v)    -> DigitsValue(v, 10)
      [] OTHER           -> DigitsValue(SubSeq(v, 3, Len(v)), 16)
\* isFinite(v): Number(v) is neither NaN nor an infinity
IsFinite(v) == IsNumeric(v) /\ NumberValue(v) \in -NUMBER_MAX..NUMBER_MAX

(***************************************************************************)
(* parseInterger32: range check on the converted Number.                   *)
(***************************************************************************)
\* mutant of ParseInterger32: the lower bound compared with > instead of >=
ParseInterger32MinExcluded(input, reg, min, max) ==
    LET v == ToLowerCase(Trim(input)) IN
    CASE v = <<>>                          -> Err("is empty")
      [] ~Matches(reg, v)                  -> Err("is invalid")
      [] ~IsFinite(v)                      -> Err("out of range")
      [] NumberValue(v) \in (min + 1)..max -> Ok(NumberValue(v))
      [] OTHER                             -> Err("out of range")

ParseInterger32(input, reg, min, max) ==
    LET v == ToLowerCase(Trim(input)) IN
    CASE v = <<>>                    -> Err("is empty")
      [] ~Matches(reg, v)            -> Err("is invalid")
      [] ~IsFinite(v)                -> Err("out of range")
      [] NumberValue(v) \in min..max -> Ok(NumberValue(v))
      [] OTHER                       -> Err("out of range")

(***************************************************************************)
(* parseInterger64: range check by length and then string order against  *)
(* the limit texts; the result is the (lowercased) text itself.          *)
(***************************************************************************)
\* mutant of OutOfRange64: the hex length cap off by one
OutOfRange64HexCapOffByOne(v, max, hexMax, min) ==
    IF v[1] = "-"
    THEN Len(v) > Len(min) \/ (Len(v) = Len(min) /\ StrLess(min, v))
    ELSE IF Len(v) >= 2 /\ v[1] = "0" /\ v[2] = "x"
    THEN Len(v) > HEX_LEN_CAP + 1 \/ (Len(v) = HEX_LEN_CAP /\ StrLess(hexMax, v))
    ELSE Len(v) > Len(max) \/ (Len(v) = Len(max) /\ StrLess(max, v))

OutOfRange64(v, max, hexMax, min) ==
    IF v[1] = "-"
    THEN Len(v) > Len(min) \/ (Len(v) = Len(min) /\ StrLess(min, v))
    ELSE IF Len(v) >= 2 /\ v[1] = "0" /\ v[2] = "x"
    THEN Len(v) > HEX_LEN_CAP \/ (Len(v) = HEX_LEN_CAP /\ StrLess(hexMax, v))
    ELSE Len(v) > Len(max) \/ (Len(v) = Len(max) /\ StrLess(max, v))

ParseInterger64(input, reg, max, hexMax, min) ==
    LET v == ToLowerCase(Trim(input)) IN
    CASE v = <<>>                           -> Err("is empty")
      [] ~Matches(reg, v)                   -> Err("is invalid")
      [] ~IsFinite(v)                       -> Err("out of range")
      [] OutOfRange64(v, max, hexMax, min)  -> Err("out of range")
      [] OTHER                              -> Ok(v)

(***************************************************************************)
(* The other parsers of the table.  `checked` is input[0].checked of a    *)
(* checkbox; `input` is input.val().                                       *)
(***************************************************************************)
ParseDouble(input) ==
    LET v == Trim(input) IN
    CASE v = <<>>      -> Err("is empty")
      [] ~IsFinite(v)  -> Err("out of range")
      [] OTHER         -> Ok(NumberValue(v))

ParseFloat(input) ==
    LET r == ParseDouble(input) IN
    IF r.ok /\ r.val \in -FLOAT_MAX..FLOAT_MAX THEN r
    ELSE IF r.ok THEN Err("out of range") ELSE r

RECURSIVE DigitPrefix(_)
DigitPrefix(s) ==
    IF s # <<>> /\ Head(s) \in DigitSet THEN <<Head(s)>> \o DigitPrefix(Tail(s))
    ELSE <<>>

\* parseInt(v) on an option value: whitespace, an optional sign, then the
\* longest run of digits; NaN when there is none
ParseEnum(input) ==
    LET t == TrimLeft(input)
        neg == t # <<>> /\ Head(t) = "-"
        digits == DigitPrefix(IF neg THEN Tail(t) ELSE t)
    IN IF digits = <<>> THEN Err("is not selected.")
       ELSE Ok((IF neg THEN -1 ELSE 1) * DigitsValue(digits, 10))

ParseWith(parser, input, checked) ==
    CASE parser = "int32"  -> ParseInterger32(input, "signed", INT32_MIN, INT32_MAX)
      [] parser = "int64"  -> ParseInterger64(input, "signed", INT64_MAX,
                                              INT64_HEX_MAX, INT64_MIN)
      [] parser = "uint32" -> ParseInterger32(input, "unsigned", 0, UINT32_MAX)
      [] parser = "uint64" -> ParseInterger64(input, "unsigned", UINT64_MAX,
                                              UINT64_HEX_MAX, <<>>)
      [] parser = "double" -> ParseDouble(input)
      [] parser = "float"  -> ParseFloat(input)
      [] parser = "bool"   -> Ok(checked)
      [] parser = "enum"   -> ParseEnum(input)
      [] parser \in {"string", "bytes"} -> Ok(input)
      \* calling null or undefined throws a TypeError
      [] OTHER             -> Err("is not a function")

(***************************************************************************)
(* The table TypeParser, keyed by both spellings.  The numeric keys are   *)
(* filled by lines 157-234.  The string keys by lines 236-311, where line *)
(* 245 assigns FIELD_TYPE.INT64 a second time instead of the string key,  *)
(* so TYPE_INT64 has no entry and lines 252-253 copy that missing entry   *)
(* to TYPE_SINT64 and TYPE_SFIXED64.  GROUP has no entry in either.       *)
(***************************************************************************)
TypeParserNum ==
    [INT32 |-> "int32", SINT32 |-> "int32", SFIXED32 |-> "int32",
     INT64 |-> "int64", SINT64 |-> "int64", SFIXED64 |-> "int64",
     UINT32 |-> "uint32", FIXED32 |-> "uint32",
     UINT64 |-> "uint64", FIXED64 |-> "uint64",
     DOUBLE |-> "double", FLOAT |-> "float", BOOL |-> "bool",
     ENUM |-> "enum", STRING |-> "string", MESSAGE |-> "null",
     BYTES |-> "bytes"]

TypeParserStr ==
    [t \in DOMAIN TypeParserNum \ {"INT64"} |->
        IF t \in {"SINT64", "SFIXED64"} THEN "undefined" ELSE TypeParserNum[t]]

ParserFor(key) ==
    LET tbl == IF key.sp = "num" THEN TypeParserNum ELSE TypeParserStr
    IN IF key.t \in DOMAIN tbl THEN tbl[key.t] ELSE "undefined"

\* TypeParser[form.field.type](form.input)
TypeParse(key, input, checked) == ParseWith(ParserFor(key), input, checked)
=============================================================================
