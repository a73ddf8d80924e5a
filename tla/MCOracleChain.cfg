\* The API, the daemon and a script; one agent, one deployment, three requests.
SPECIFICATION Spec
CONSTANTS
    Senders = {"api", "daemon", "script"}
    Agents = {a1}
    Contracts = {c1}
    MaxRequests = 3
    None = None
INVARIANTS
    ChainAgreesWithDatabase
    TrackedContractsExist
PROPERTIES
    AnchorsMoveForward
    RootsKeepComing
