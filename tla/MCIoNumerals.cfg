\* Format "n" against the manual: violated by 0x., see the README.
SPECIFICATION Spec
CONSTANTS
    Files = {f1}
    Handles = {h1, h2}
    Modes <- ModesValue
    Seeks <- SeeksValue
    Data <- DataValue
    Formats <- FormatsValue
    LineFormats <- LineFormatsValue
    Contents <- ContentsValue
    NumeralBytes <- NumeralBytesValue
    NumeralLen = 3
    MaxLen = 2
    MaxShared = 1
    Capacity = 1
INVARIANT OnlyNumerals
CHECK_DEADLOCK FALSE
