SPECIFICATION Spec
CONSTANTS
    Rows = {1, 2, 3}
    Tags = {"in", "out"}
    Workers = {w1, w2}
    Clients = {c1}
    MaxChanges = 5
    Seeds = {0, 1, 2, 3}
    MaxIndices = 3
    BatchSize = 1
    PageSize = 1
    None = None
    FullImage = {1, 3}
    DbKey <- MCDbKey
    PyKey <- MCPyKey
    EsKey <- MCEsKey
    Setups <- MCSetups
SYMMETRY Symmetry
CHECK_DEADLOCK FALSE
INVARIANTS SwapLosesNoChange CaughtUpIndexIsExact ServingIndexExists FreshReadsAreCurrent ScanReturnsEachRowOnce
