\* Two requests to a program whose agent is made in code or built.
SPECIFICATION ProgramSpec
CONSTANTS
    NodeNames = {"a", "b", "c", "d", "e"}
    NoName = NoName
    Registry = {"math"}
    Configs <- TheConfigs
    NoNode = NoNode
    Flows = {"root"}
    Calls = {r1, r2}
    FlowOf <- TheFlows
    ToolNames = {"expert", "math"}
    DeclaredAs <- TheDeclarations
    Undeclared = ""
    Offers <- TheOffers
    Unreliable = {"first"}
    NoMap = NoMap
    MaxSteps <- TheSteps
    Requests = {r1, r2}
    Sids = {"s", "sandbox"}
    ChildSid = "sandbox"
    Shared = Shared
    RootKeys = {"_adk", "map"}
    ChildKeys = {"user:k"}
    MergedKeys = {"map"}
    Internal = {"_adk"}
    OfUser = {"user:k"}
    AgentTools = {"expert"}
    ChildEvents <- TheChildEvents
    Arrivals <- TheArrivals
    NoArrival = NoArrival
    Replies <- TheReplies
    CodeClients <- PlainArrivals
    BuiltClients <- TheArrivals
    CodeTools <- TheCodeTools
    CodeToolsets <- TheCodeToolsets
SYMMETRY Symmetry
INVARIANTS
    AgentsAreWellBuilt
    ToolsOfOneResolver
    AgentToolIsApart
    
PROPERTIES
    ConversationGoesOn
