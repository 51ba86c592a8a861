\* The static operators, and methods testing a generated member against null.
CONSTANTS
    Def <- MCDef
    Entry <- RecursingCalls
    StackLimit = 6
    MaxElems = 3
SPECIFICATION Spec
INVARIANT NoStackOverflow
