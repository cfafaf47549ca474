SPECIFICATION ScopeAdoptionSpec
CONSTANTS
    Folders = {"hunt", "project"}
    Documents <- MCDocuments
    Noise <- MCNoise
    Targets <- MCTargets
    HandRules <- MCHandRules
    MaxWrites = 2
    MaxCandidates = 2
    Page = 1
INVARIANTS ExclusionsAlwaysAdded
CHECK_DEADLOCK FALSE
