CONSTANTS
    Patches = {p1, p2}
    MaxRedeliveries = 1
SPECIFICATION Spec
INVARIANTS FiresOnlyOnce
