SPECIFICATION FairSpec
CONSTANTS
    Txs = {1, 2, 3, 4}
    Vin <- MCVin
    Vout <- MCVout
    HashX = {"a", "b"}
    OpReturn = "op"
    Genesis = 0
    kRedoCtMax = 1
    kFailedDownloadMax = 1
    Overlap <- MCOverlap
    MaxNodeSteps = 5
    MaxBlocks = 2
    MaxErrors = 1
INVARIANTS IndexedUnlessDamaged NoFixme ChangesAreNotified
PROPERTY Converges
