CONSTANTS
    Capacity = 4
    Data = {d1, d2}
    Zero = d1
SPECIFICATION Spec
INVARIANTS
    TypeOK
   
    NoSharedSlot
    HappensBefore
    SizeIsPromise
PROPERTIES
    FifoQueue
