\* Two journal entries, two publications, one fault anywhere.
SPECIFICATION LiveSpec
CONSTANTS
    Kinds = {"OPENED_PARTIAL", "CLOSED"}
    Snapshots <- HaltsAndProofs
    MaxEntries = 2
    MaxChanges = 2
    MaxFaults = 1
INVARIANTS
    LedgerDelivered
PROPERTIES
    AnnouncedOncePerHalt
    AlertsArrive
