CONSTANTS
    q1 = q1
    q2 = q2
    q3 = q3
    Request = {q1, q2, q3}
    HttpStatus <- MCHttpStatus
    NoStatus = NoStatus
SPECIFICATION Spec
INVARIANTS TypeOK ExactlyOneEvent HudHasReason MessageIsReplaced FirstWaitIsShown
PROPERTY HudGoesAway
CHECK_DEADLOCK FALSE
