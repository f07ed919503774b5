CONSTANTS
    MapBytes = 2
    MaxCount = 3
    Offsets = {0, 5}
SPECIFICATION Spec
INVARIANT ScanMatchesReference
