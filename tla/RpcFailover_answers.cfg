SPECIFICATION Spec
CONSTANTS
    N = 3
    Replies <- PlainReplies
INVARIANTS
    FirstAnswerWins
PROPERTIES
    CallEnds
