CONSTANTS
    Callers = {c1, c2}
    Txs = {t1}
    Orders = {o1}
    MaxHead <- MCMaxHead
    RewardBlocks <- MCRewardBlocks
    BloomIndexerSet = TRUE
    Nil = Nil
SPECIFICATION Spec
SYMMETRY MCSymmetry
INVARIANTS
    TypeOK
    FailedRetrievalIsAnError
PROPERTIES
    RewardsOnlyForHeaderFound
