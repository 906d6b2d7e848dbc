\* The length operator against the manual: violated, see the README.
SPECIFICATION Spec
CONSTANTS
    Vals = {1}
    MinInt <- MinIntValue
    MaxInt = 5
    MaxLen = 3
    Comps = {"default"}
    Mutates = FALSE
INVARIANT LengthIsBorder
