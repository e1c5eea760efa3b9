SPECIFICATION PathSpec
CONSTANTS
    Readers = {r1, r2}
    BufMax = 2
    MaxLength = 2
    MaxBytes = 3
    Junk = Junk
    Writers = {w1, w2}
    MaxRequest = 2
    MaxCalls = 3
    Default = Default
    Empty = Empty
INVARIANTS ByteAccounting AtMostOneLateJunk AtMostOneLateStore LineInOrder
PROPERTIES ImplementsLossyBuffer ThreadStops ReadsComplete LossNeedsTwo WritesComplete
\* The model stops once MaxBytes bytes came and the device is gone, or MaxCalls
\* write requests were served.
CHECK_DEADLOCK FALSE
