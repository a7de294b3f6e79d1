CONSTANTS
    Local = {p, q, r}
    Address = {a, b, c}
    Null = null
    Element = {1, 2}
    Hash <- MCHash
    MaxEntries = 2
SPECIFICATION Spec
INVARIANTS CountsRight IndexFaithful
PROPERTIES ContentKept
