CONSTANTS
    Procs = {p1, p2, p3}
    None = None
SPECIFICATION FairSpec
INVARIANTS OwnerHolds NoSleeperOnFreeLock
PROPERTY LockChangesHands
