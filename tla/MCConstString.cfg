\* Every string constant of up to two bytes from MCBytes, every numeric
\* constant from MCNumbers that fits its type, every Color constant.
CONSTANTS
    Bytes <- MCBytes
    MaxLen = 2
    Numbers <- MCNumbers
    Enums <- MCEnums
    LexError = LexError
SPECIFICATION Spec
INVARIANT LiteralKeepsValue
