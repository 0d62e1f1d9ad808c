\* A ring of two events, filled by two keys while the shell works, and a poll
\* limit below what the keyboard holds back.  Three keys: two shift keys are
\* pressed and one is released, or an extended key comes between two others.
CONSTANTS
    BufferSize = 3
    PollLimit = 1
    OutputSize = 2
    MaxKeys = 3
SPECIFICATION FairSpec
INVARIANTS
    NoEventAsleep
    ModifiersFollowKeyboard
PROPERTIES
    Fifo
    EverythingTaken
\* The number of keys is bounded.
CHECK_DEADLOCK FALSE
