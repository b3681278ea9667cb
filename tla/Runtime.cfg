SPECIFICATION Runs
INVARIANTS
    RepliesInOrder
    RequestsExact
    EventsServed
    SubscribersReached
    EvictionSound
    ModuleEffects
    ModuleObjects
    FileHoldsConfig
