\* Any input of text, digits, signs and blanks, of lines that fit or do not.
CONSTANTS
    Chars = {"x", "9", "-", "+", " ", "newline", "CR"}
    MaxInput = 5
    buf_size = 4
    INT_MAX = 98
    LONG_MAX = 998
SPECIFICATION Spec
INVARIANTS
    OneLineOneAnswer
    ParsesStrictly
PROPERTY
    EveryLineAnswers
