SPECIFICATION Spec
CONSTANTS
    Command = {plain, transcript, silent}
    Transcript = {transcript}
    Silent = {silent}
    Handle = {h1, h2}
    Shutdown = Shutdown
    MaxCrashes = 1
INVARIANTS
    ReplyTellsCommit
    EventBeforeReply
    ShutdownDrains
PROPERTIES
    Answered
    JoinReturns
    AtomicWrites
CHECK_DEADLOCK FALSE
