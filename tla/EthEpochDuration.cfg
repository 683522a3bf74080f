CONSTANTS
    Callers = {c1, c2}
    Masternodes = {m1, m2}
    Epoch <- MCEpoch
    RewardCheckpoint <- MCRewardCheckpoint
    FoudationWalletSet = TRUE
    Width <- MCWidth
    MaxHead <- MCMaxHead
    BlockPeriod <- MCBlockPeriod
    Nil = Nil
SPECIFICATION Spec
SYMMETRY MCSymmetry
INVARIANT EpochDurationIsElapsedTime
