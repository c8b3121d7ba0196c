----------------------------- MODULE TextEscape -----------------------------
(***************************************************************************)
(* htmlEscape (lines 767-779): the text put into the page with .html() by *)
(* error() (line 342), the field labels (lines 685-690), the input-error  *)
(* list (line 926) and the response (line 960).  A text is a sequence of  *)
(* one-character strings; a non-string value is returned unchanged and is *)
(* not modelled.  The replacements run one after the other, each on the  *)
(* result of the one before, so their order matters.                      *)
(***************************************************************************)
EXTENDS Sequences, SequencesExt

\* the HTML character references htmlEscape writes
Amp  == <<"&", "a", "m", "p", ";">>
Gt   == <<"&", "g", "t", ";">>
Lt   == <<"&", "l", "t", ";">>
Quot == <<"&", "q", "u", "o", "t", ";">>
Apos == <<"&", "#", "3", "9", ";">>
Nbsp == <<"&", "n", "b", "s", "p", ";">>

\* value.replace(/c/g, r): every occurrence of the character c becomes r
ReplaceChar(s, c, r) == FlattenSeq([i \in DOMAIN s |-> IF s[i] = c THEN r ELSE <<s[i]>>])

\* mutant of HtmlEscape: "&" is replaced last, after the references that
\* the other replacements wrote
HtmlEscapeAmpLast(value) ==
    ReplaceChar(ReplaceChar(ReplaceChar(ReplaceChar(ReplaceChar(ReplaceChar(value,
        ">", Gt), "<", Lt), "\"", Quot), "'", Apos), " ", Nbsp), "&", Amp)

HtmlEscape(value) ==
    ReplaceChar(ReplaceChar(ReplaceChar(ReplaceChar(ReplaceChar(ReplaceChar(value,
        "&", Amp), ">", Gt), "<", Lt), "\"", Quot), "'", Apos), " ", Nbsp)
=============================================================================
