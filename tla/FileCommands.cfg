SPECIFICATION Spec
CONSTANTS
    Base <- MCBase
    Hidden <- MCHidden
    IgnoreNames <- MCHidden
    Trees <- MCTrees
    Policies <- MCPolicies
    Requests <- MCRequests
    Patches <- MCPatches
INVARIANTS
    EffectsAuthorized
    ConsentFirst
    RunsLikeZsh
