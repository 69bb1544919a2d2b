SPECIFICATION DesktopSpec
CONSTANTS
    Receiver = {"db_event_handler", "tauri_event_handler"}
    Mounted = FALSE
    CAPACITY = 2
    MaxEmits = 3
    MaxWrites = 2
INVARIANTS
    NoGaps
    

    
CHECK_DEADLOCK FALSE
