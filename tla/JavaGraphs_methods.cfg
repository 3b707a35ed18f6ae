SPECIFICATION Spec
CONSTANTS
    Statements <- MCStatements
    Params = {"p"}
    Fields = {"f"}
    MaxStatements = 2
INVARIANTS
    FlowIsDrawn
    DrawnIsFlow
    DefUseReaches
\* A finished method has nothing left to do.
CHECK_DEADLOCK FALSE
