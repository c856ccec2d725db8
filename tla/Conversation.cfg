SPECIFICATION Spec
CONSTANTS
    None = None
    Words = {"hi", "ok", "then"}
    Ids = {"a", "b", "c", "call_0", "call_1", "call_2"}
    CallIds <- MCCallIds
    Names = {"f", "g"}
    Objects = {"x"}
    Limits <- MCLimits
    UserContents <- MCUserContents
    ParamSets <- MCParamSets
    AnthropicAnswers <- MCAnthropicAnswers
    VertexAnswers <- MCVertexAnswers
    MaxMessages = 5
    MaxAnswers = 2
INVARIANTS TypeOK ToolResultsPaired TurnsPreserved ResponsesNamed RequestAcceptable
CHECK_DEADLOCK FALSE
