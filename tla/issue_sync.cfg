CONSTANTS
    Calls = {c1, c2}
    Tries = 2
    Scenarios <- MCScenarios
SPECIFICATION FairSpec
INVARIANTS TypeOK SyncedAgree OneIssue
PROPERTY EveryWebhookSettles
