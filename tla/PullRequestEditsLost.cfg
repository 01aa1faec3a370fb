SPECIFICATION EditsSpec
CONSTANTS
    Caller = {c1, c2}
    Text = {old, new}
    Blank = Blank

PROPERTY
    BlankKeepsCurrentValue
CHECK_DEADLOCK FALSE
