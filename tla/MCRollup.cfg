\* One caller and the daemon, three rows, calls that break off, a table with the
\* column the SELECT names.  The model stops when every row is committed and no
\* call runs: the deadlock check is off.
CHECK_DEADLOCK FALSE
SPECIFICATION Spec
CONSTANTS
    Rows = {r1, r2, r3}
    Callers = {web}
    Daemon = daemon
    LogIdColumn = TRUE
    Failures = TRUE
INVARIANTS
    AnsweredIsCommitted
    SerialCommitsCountOnce
    UnbatchedCameLate
PROPERTIES
    PendingIsCommitted
