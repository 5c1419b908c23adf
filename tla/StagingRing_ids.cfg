SPECIFICATION Spec
CONSTANTS
    capacity_tokens = 3
    Lengths <- MCLengths
    MaxNodes = 4
    MaxOps = 5
INVARIANTS CountsResidents
