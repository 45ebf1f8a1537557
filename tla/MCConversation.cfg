CONSTANTS
    hello = hello
    c1 = c1
    c2 = c2
    Texts = {hello}
    Empty = Empty
    Calls = {c1, c2}
    NoCall = NoCall
    Systems <- MCSystems
    Extras <- MCExtras
    Returns <- MCReturns
    Natives <- MCNatives
    MaxTurns = 5

SPECIFICATION Spec

INVARIANTS
    ToolMessagesFollow
    UserHeard
    RepliesReturn

\* The conversation ends at the bound.
CHECK_DEADLOCK FALSE
