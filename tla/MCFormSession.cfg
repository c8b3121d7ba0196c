\* One int32 text that parses and one that does not; three panels and
\* two requests, so that a request survives a reset (or two) and a newer
\* one is sent after it.  The server answers with success or an error whose body
\* is JSON when labelled so.
CONSTANTS
    INT32_MIN <- MC_INT32_MIN
    INT32_MAX = 7
    UINT32_MAX = 15
    FLOAT_MAX = 50
    INT64_MIN <- MC_INT64_MIN
    INT64_MAX <- MC_INT64_MAX
    UINT64_MAX <- MC_UINT64_MAX
    INT64_HEX_MAX <- MC_INT64_HEX_MAX
    UINT64_HEX_MAX <- MC_UINT64_HEX_MAX
    HEX_LEN_CAP = 3
    NUMBER_MAX = 99
    Messages <- MC_PageMessages
    Enums <- MC_Enums
    RootType <- MC_PageRootType
    Texts <- MC_PageTexts
    MaxItems = 1
    MaxDepth = 2
    NoInput = NoInput
    NoFields = NoFields
    NoCheckbox = NoCheckbox
    Null = Null
    None = None
    ReplyKinds = {"success", "error_json", "error_text"}
    MaxButtons = 3
    MaxRequests = 2
SPECIFICATION SessionSpec
PROPERTIES SendButtonReenabled
