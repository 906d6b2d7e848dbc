SPECIFICATION Spec
CONSTANTS
    Files = {f1}
    Handles = {h1, h2}
    Modes <- ModesValue
    Seeks <- SeeksValue
    Data <- DataValue
    Formats <- FormatsValue
    LineFormats <- LineFormatsValue
    Contents <- ContentsValue
    NumeralBytes <- NumeralBytesValue
    NumeralLen = 5
    MaxLen = 2
    MaxShared = 1
    Capacity = 1
INVARIANTS
    NumeralsAgree
PROPERTIES
    FilesBehave
SYMMETRY Symmetry
CHECK_DEADLOCK FALSE
