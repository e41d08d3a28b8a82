SPECIFICATION Spec
CONSTANTS
    r = r
    n = n
    w = w
    d = d
    Agents <- MCAgents
    Root = r
    NameOf <- MCName
    ModeOf <- MCMode
    EndpointOf <- MCEndpoint
    Labels <- MCLabels
    Declared <- MCDeclared
    Extra = {"web"}
    Endpoints = {"m2"}
    Choices <- MCChoices
    NoSelection = NoSelection
    Attachments <- MCAttachments
    Attributes = {"path"}
    Models = {"m1", "m2"}
    DefaultModel = "m1"
    MaxEdges = 3
    MaxChanges = 2
    MaxChecks = 3
VIEW View
INVARIANTS WalkAcceptsTrees InspectionCovers BuildFollowsGraph OneCleanRun
PROPERTY StartedHeedsCancel
