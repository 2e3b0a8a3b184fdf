SPECIFICATION Spec
CONSTANTS
    QUEUE_SIZE = 4
    Event = {e1, e2, e3}
    Zero = zero
INVARIANTS
    IndicesAgree
PROPERTIES
    ImplementsFifo
