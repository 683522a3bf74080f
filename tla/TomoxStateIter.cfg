CONSTANTS
    OrderBooks = {book1}
    Prices <- MCPrices
    OrderIds <- MCOrderIds
    MaxVolume <- MCMaxVolume
    Nil = Nil
    NoBytes = NoBytes
    Corrupt = Corrupt
SPECIFICATION Spec
INVARIANT
    SnapshotHoldsEveryLevel
