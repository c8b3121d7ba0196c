---------------------------- MODULE MCTypeParser ----------------------------
(***************************************************************************)
(* Checks the parsers of TypeParser against reference definitions on      *)
(* every text of up to MaxTextLen characters over Alphabet.  A state is   *)
(* the text a user left in an input element; the parsers are run on it.  *)
(* The limits are scaled down (see MCTypeParser.cfg) so that every limit, *)
(* its neighbours, leading zeros, upper-case hex and blanks are reached.  *)
(***************************************************************************)
EXTENDS TypeParser, TextEscape

CONSTANTS Alphabet, MaxTextLen

MC_INT32_MIN == -8
MC_INT64_MIN == <<"-", "8">>
MC_INT64_MAX == <<"7">>
MC_UINT64_MAX == <<"1", "5">>
MC_INT64_HEX_MAX == <<"0", "x", "7">>
MC_UINT64_HEX_MAX == <<"0", "x", "f">>
MC_Alphabet == {" ", "-", "0", "1", "5", "7", "8", "9", "x", "X", "f", "&", "<", "'"}

Texts == UNION {[1..n -> Alphabet] : n \in 0..MaxTextLen}

VARIABLE text

Init == text \in Texts
\* the user leaves the text as it is; every text is an initial state
Next == UNCHANGED text
Spec == Init /\ [][Next]_text

\* the value of a lexically valid text, and of a limit text
Lexed == ToLowerCase(Trim(text))
Int64Lo == NumberValue(INT64_MIN)
Int64Hi == NumberValue(INT64_MAX)
Uint64Hi == NumberValue(UINT64_MAX)

(***************************************************************************)
(* The 32-bit parsers (parseInterger32 through TypeParser INT32 and        *)
(* UINT32) meet the spec: a text of the lexical form of the type is       *)
(* accepted with its value iff the value is in the type's range and is    *)
(* otherwise rejected as "out of range"; a signed text given to UINT32 is *)
(* "is invalid".  The conversion Number(v) and isFinite are involved.     *)
(***************************************************************************)
Int32MeetsSpec ==
    \A p \in {[parser |-> "int32", reg |-> "signed", lo |-> INT32_MIN, hi |-> INT32_MAX],
              [parser |-> "uint32", reg |-> "unsigned", lo |-> 0, hi |-> UINT32_MAX]} :
        LET r == ParseWith(p.parser, text, FALSE) IN
        /\ Matches(p.reg, Lexed) =>
              IF NumberValue(Lexed) \in p.lo..p.hi
              THEN r = Ok(NumberValue(Lexed))
              ELSE r = Err("out of range")
        /\ p.reg = "unsigned" /\ IsNegDecimal(Lexed) => r = Err("is invalid")

(***************************************************************************)
(* parseInterger64 (INT64 and UINT64) never accepts a text whose value is *)
(* outside the type's range, and what it returns is the lowercased text   *)
(* itself, of the lexical form of the type.  The range check compares     *)
(* lengths and then string order against the limit texts instead of       *)
(* values.                                                                 *)
(***************************************************************************)
Int64NeverAcceptsOutOfRange ==
    \A p \in {[parser |-> "int64", reg |-> "signed", lo |-> Int64Lo, hi |-> Int64Hi],
              [parser |-> "uint64", reg |-> "unsigned", lo |-> 0, hi |-> Uint64Hi]} :
        LET r == ParseWith(p.parser, text, FALSE) IN
        r.ok => /\ r.val = Lexed
                /\ Matches(p.reg, Lexed)
                /\ NumberValue(Lexed) \in p.lo..p.hi

(***************************************************************************)
(* Spec 4.2: a 64-bit text of the lexical form of the type whose value is *)
(* in range is accepted (only out-of-range text fails with OutOfRange).   *)
(* parseInterger64 rejects in-range texts with leading zeros, which are   *)
(* longer than the limit text.                                             *)
(***************************************************************************)
Int64AcceptsInRange ==
    \A p \in {[parser |-> "int64", reg |-> "signed", lo |-> Int64Lo, hi |-> Int64Hi],
              [parser |-> "uint64", reg |-> "unsigned", lo |-> 0, hi |-> Uint64Hi]} :
        Matches(p.reg, Lexed) /\ NumberValue(Lexed) \in p.lo..p.hi
            => ParseWith(p.parser, text, FALSE).ok

(***************************************************************************)
(* Spec 4.2/9: the numeric and the string spelling of a field type select *)
(* the same parser, so a field parses the same whichever spelling the     *)
(* descriptor uses.  Line 245 re-assigns the numeric INT64 entry instead  *)
(* of the string one.                                                      *)
(***************************************************************************)
SpellingsAgree ==
    \A t \in FieldTypes \ {"GROUP", "MESSAGE"} :
        TypeParse(Spelled("num", t), text, FALSE)
            = TypeParse(Spelled("str", t), text, FALSE)

(***************************************************************************)
(* Reference for htmlEscape: how the HTML tokenizer reads text content.   *)
(* A character reference stands for its character ("&nbsp;" for the       *)
(* no-break space U+00A0); any other character stands for itself.         *)
(***************************************************************************)
NoBreakSpace == "U+00A0"
CharRefs == {[ref |-> Amp, char |-> "&"], [ref |-> Gt, char |-> ">"],
             [ref |-> Lt, char |-> "<"], [ref |-> Quot, char |-> "\""],
             [ref |-> Apos, char |-> "'"], [ref |-> Nbsp, char |-> NoBreakSpace]}

RECURSIVE HtmlText(_)
HtmlText(h) ==
    IF h = <<>> THEN <<>>
    ELSE LET m == {c \in CharRefs : IsPrefix(c.ref, h)} IN
         IF m = {} THEN <<Head(h)>> \o HtmlText(Tail(h))
         ELSE LET c == CHOOSE c \in m : TRUE IN
              <<c.char>> \o HtmlText(SubSeq(h, Len(c.ref) + 1, Len(h)))

(***************************************************************************)
(* What error(), the input-error list and the response area put into the *)
(* page with .html(htmlEscape(text)) shows the text itself, blanks as     *)
(* no-break spaces, and can neither open a tag nor close an attribute:   *)
(* the escaping of "&" must come before the replacements that write "&". *)
(***************************************************************************)
EscapedTextShown ==
    LET h == HtmlEscape(text) IN
    /\ \A i \in DOMAIN h : h[i] \notin {"<", ">", "\"", "'"}
    /\ HtmlText(h) = ReplaceAll(text, " ", NoBreakSpace)

=============================================================================
