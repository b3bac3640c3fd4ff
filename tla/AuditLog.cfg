SPECIFICATION Spec
CONSTANTS
    short = short
    long = long
    NoProcess = NoProcess
    Process = {server, cli}
    Event <- MCEvent
    EntrySize <- MCEntrySize
    Quotas = {2, 4}
INVARIANTS
    AnsweredIsDurable
    CheckpointsHold
    ChainWhole
PROPERTIES
    ImplementsDurableLog
    QuotaRespected
