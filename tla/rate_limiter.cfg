SPECIFICATION Spec
CONSTANTS
    Callers = {"downloader", "other"}
    DEFAULT_DELAY = 5
    MAX_BACKOFF = 8
    BatchConfigs <- OneSlot
INVARIANT
    TypeOK
PROPERTY
    PacingKept
