SPECIFICATION LifecycleFairSpec
INVARIANTS
    LifecycleTypeOK
    StopsWhatItRegistered
PROPERTIES
    SignalEndsAgent
    PoolIsServed
