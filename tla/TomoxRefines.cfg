CONSTANTS
    OrderBooks = {book1}
    Prices <- MCPrices
    OrderIds <- MCOrderIds
    MaxVolume = 1
    Nil = Nil
    NoBytes = NoBytes
    Corrupt = Corrupt
SPECIFICATION SpecReliable
PROPERTIES
    ImplementsOrderBook
