SPECIFICATION Spec
CONSTANTS
    Holders = {h1, h2, h3}
    WriteBit = 4
INVARIANT Exclusion
