SPECIFICATION Spec
CONSTANTS
    None = None
    Texts = {"", "fine", "bad"}
    Bad = {"bad"}
    Usages = {"u1", "u2"}
    Users = {"alice"}
    Clients <- MCClients
    RefLists <- MCRefLists
    Answers <- MCAnswers
INVARIANTS TypeOK AnswerMeteredOnce FailureReportedOnce BlockedStaysOut AnsweredInClientFormat DrawsMatchWeights
CHECK_DEADLOCK FALSE
