SPECIFICATION FairSpec
CONSTANTS
    k1 = k1
    k2 = k2
    r1 = r1
    r2 = r2
    None = None
    Keys = {k1, k2}
    Requests = {r1, r2}
    Texts <- MCTexts
    Fields <- MCFields
    SecretObjects <- MCObjects
    RequestData <- MCRequests
    BadAccounts = {"bad"}
    Lifetimes = {2}
    Margin = 1
    MaxTransit = 1
    MaxWrites = 2
    MaxRestarts = 1
INVARIANTS StoreFollowsCache CredentialServedMeanwhile TokenOutlivesRequest
PROPERTIES MirrorsSecrets StoreConverges RequestsAnswered
CHECK_DEADLOCK FALSE
