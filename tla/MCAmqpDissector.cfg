\* Two channels: up to three content messages of zero to two body frames
\* each and two content-less methods, whose frames interleave across the
\* channels.  Dissect stops at EOF.
CONSTANTS
    ch1 = ch1
    ch2 = ch2
    Channels <- MCTwoChannels
    MaxMessages = 3
    MaxOther = 2
    MaxBodyFrames = 2
SPECIFICATION Spec
INVARIANT EventFieldsFromOwnMessage
CHECK_DEADLOCK FALSE
