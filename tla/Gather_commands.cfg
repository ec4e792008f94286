SPECIFICATION FairSpec
CONSTANTS
    own = own
    other = other
    MaxKeys = 3
    MaxTokens = 4
    Own <- own
    Others <- OneOther
CHECK_DEADLOCK FALSE
INVARIANTS TypeOK AnswerAfterAllParts ContextAlive ReplyGathers NothingLeft
PROPERTIES OrderlyAnswered
