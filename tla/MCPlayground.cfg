SPECIFICATION Spec
CONSTANTS
    Token <- MCToken
    MaxRequests = 2
    MaxClicks = 2
    MaxChunks = 2
    MaxStored = 3
INVARIANTS TypeOK NothingLeftPending FullText SavedOrScheduled IInv
CHECK_DEADLOCK FALSE
PROPERTIES FinishedIsFinal GenerationEnds
