SPECIFICATION Spec
CONSTANTS
    None = None
INVARIANTS TypeOK FreeWaits ToldOnce SkippedIsPublished OnlyAllowed
PROPERTIES StoredKept
CHECK_DEADLOCK FALSE
