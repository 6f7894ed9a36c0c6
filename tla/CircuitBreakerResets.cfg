CONSTANTS
    Request = {r1, r2, r3}
    failure_threshold = 2
    reset_timeout = 2
    half_open_requests = 2
SPECIFICATION Spec
SYMMETRY Interchangeable
PROPERTIES
    ResetsAfterTimeout
CHECK_DEADLOCK TRUE
