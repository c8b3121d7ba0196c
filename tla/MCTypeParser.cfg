\* Limits scaled down: 32-bit range -8..7 and 0..15, 64-bit limit texts
\* "-8", "7", "15", "0x7", "0xf" (hex cap 3 = their length, as 18 is for
\* the real ones), Number.MAX_VALUE 99.  Texts of up to 4 characters over
\* the alphabet reach every limit and its neighbours, "0x10", leading
\* zeros, "-0", upper-case "0X", blanks to trim, and non-finite "100".
CONSTANTS
    INT32_MIN <- MC_INT32_MIN
    INT32_MAX = 7
    UINT32_MAX = 15
    FLOAT_MAX = 50
    INT64_MIN <- MC_INT64_MIN
    INT64_MAX <- MC_INT64_MAX
    UINT64_MAX <- MC_UINT64_MAX
    INT64_HEX_MAX <- MC_INT64_HEX_MAX
    UINT64_HEX_MAX <- MC_UINT64_HEX_MAX
    HEX_LEN_CAP = 3
    NUMBER_MAX = 99
    Alphabet <- MC_Alphabet
    MaxTextLen = 4
SPECIFICATION Spec
INVARIANTS Int32MeetsSpec Int64NeverAcceptsOutOfRange EscapedTextShown
