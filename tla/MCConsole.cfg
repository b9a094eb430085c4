SPECIFICATION Spec
CONSTANTS
    Ppsl = 64
    Heights = {70, 71}
    GlyphW = 8
    GlyphH = 16
    RowStep = 20
    ColumnStep = 24
    Margin = 10
    FirstRow = 55
    PanicText <- MCPanicText
    MaxLine = 4
    MaxLines = 6
    MaxPanics = 2
INVARIANTS
    GlyphsInFrame
    NoOverlap
    StaysOnScreen
    PanicScreen
CHECK_DEADLOCK FALSE
