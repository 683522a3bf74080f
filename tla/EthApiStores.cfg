CONSTANTS
    Callers = {c1, c2}
    Txs = {t1}
    Orders = {o1}
    RewardBlocks <- MCRewardBlocks
    MaxHead <- MCMaxHead
    Nil = Nil
SPECIFICATION Spec
SYMMETRY MCSymmetry
INVARIANTS
    TypeOK
PROPERTIES
    RewardsAnsweredAreWritten
