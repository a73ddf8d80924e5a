\* Two requests at a time and a queue of one, so that handlers wait; one payload
\* whose proof verifies and one whose proof does not; a key that expires twice.
SPECIFICATION Spec
CONSTANTS
    Payloads = {good, bad}
    Sound = {good}
    Handlers = {h1, h2}
    QueueCap = 1
    MaxExpiries = 2
    Faults = TRUE
    None = None
INVARIANTS
    OncePerReservation
    AcceptedIsNotLost
PROPERTIES
    NonceComesBack
    HandlersEnd
