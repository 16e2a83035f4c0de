CONSTANTS
    mQueueLimit = 2
    MaxEvents = 6
    MaxLossNotes = 1
SPECIFICATION Spec
INVARIANTS QueueSound
PROPERTIES EventuallyHandled ImplementsFifo
