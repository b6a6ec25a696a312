SPECIFICATION MCSpec
CONSTANTS
    MaxLines = 3
    Scale = 3
    Threshold = 2
    Weights <- MCWeights
    NaN = NaN
    Huge = 1000
    MaxVectors = 2
    MaxGates = 2
CHECK_DEADLOCK FALSE
INVARIANTS
    SandboxComparesText
    ObjectiveKeepsHalf
    VectorsStayProper
