\* Scaled parser limits as in MCTypeParser.cfg.  Texts: empty, valid and
\* invalid for every numeric type.  Two items per repeated field reach
\* delete-from-the-middle; depth 2 lets the nested message be expanded
\* and items be added to root-level repeated fields only.
CONSTANTS
    INT32_MIN <- MC_INT32_MIN
    INT32_MAX = 7
    UINT32_MAX = 15
    FLOAT_MAX = 50
    INT64_MIN <- MC_INT64_MIN
    INT64_MAX <- MC_INT64_MAX
    UINT64_MAX <- MC_UINT64_MAX
    INT64_HEX_MAX <- MC_INT64_HEX_MAX
    UINT64_HEX_MAX <- MC_UINT64_HEX_MAX
    HEX_LEN_CAP = 3
    NUMBER_MAX = 99
    Messages <- MC_Messages
    Enums <- MC_Enums
    RootType <- MC_RootType
    Texts <- MC_Texts
    MaxItems = 2
    MaxDepth = 2
    NoInput = NoInput
    NoFields = NoFields
    NoCheckbox = NoCheckbox
    Null = Null
SPECIFICATION Spec
INVARIANTS TypeOK ChildListsConsistent ExtractionReportsEveryFailure
