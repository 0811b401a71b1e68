\* Three user actions and expiries, and one lost call, on a history of two pages.
\* The user may stop, and the bounds run out.
CONSTANTS
    None = None
    MaxTokens = 2
    MaxActs = 3
    MaxFails = 1
    MaxCalls = 3
    Pages = 2
SPECIFICATION HomeSpec
INVARIANTS HomeTypeOK TokenHasUser ViewsCurrent NoTokenNoDashboard
CHECK_DEADLOCK FALSE
