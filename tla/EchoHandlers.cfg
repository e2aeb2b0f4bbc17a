\* Texts of up to three characters over two letters; times from -1 to 3.
CONSTANTS
    x = x
    y = y
    sp = sp
    Chars <- MCChars
    Blank = sp
    MaxLen = 3
    Times <- MCTimes
SPECIFICATION Spec
INVARIANT EchoText
