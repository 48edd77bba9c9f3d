CONSTANTS
    Patterns <- MCPatterns
    Passed <- MCPassed
    MaxCommands = 3
    MaxDeaths = 1
    MaxImages = 2
    Prefixes = {x1, x2}
    Counts = {0, 2}
    Declared = {}
SYMMETRY Symmetry
SPECIFICATION Spec
CHECK_DEADLOCK FALSE
INVARIANT
    OneArtifact
