SPECIFICATION Spec
CONSTANTS
    Half = 2048
    Numbers <- MCNumbers
    Words <- MCWords
    BufSize = 8
INVARIANT PositiveValues
