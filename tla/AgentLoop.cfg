CONSTANTS
    Agents <- MCAgents
    Top = "root"
    Tools <- MCTools
    Setups <- AllSetups
    Defaults <- MCDefaults
    Chained <- MCChained
    Skills <- MCSkills
    DependsOn <- MCDependsOn
    SkillTools <- MCSkillTools
    Nested <- MCNested
    Stopping <- MCStopping
    Invokes <- MCInvokes
    HostOutput = "api"
    PromptLLM = PromptLLM
    NoTool = NoTool
    NoAgent = NoAgent
    NoOutput = NoOutput
SPECIFICATION FairSpec
INVARIANT ContextRestored
INVARIANT StartedIsStopped
PROPERTY CancelEndsRun
PROPERTY InterruptNotLost
