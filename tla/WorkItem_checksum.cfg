CONSTANTS
    DATA_SEG_COUNT = 2
    HalfWidth = 2
    CHECKSUM_PATTERN = {1, 2}
    MaxErrors = 4
SPECIFICATION Spec
INVARIANTS TypeOK DetectsAllButCancelling
