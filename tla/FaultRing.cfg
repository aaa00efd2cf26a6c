CONSTANTS
    RingSize = 3
    CounterMod = 6
    Pages = {1, 2}
SPECIFICATION Spec
INVARIANTS
    NoOverrun
    NoSlotRace
PROPERTY ImplementsFifo
