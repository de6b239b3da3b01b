SPECIFICATION Spec
CONSTANTS
  Block <- MCBlock
  Tx <- MCTx
  TXO <- MCTXO
  HashX <- MCHashX
  TxKey <- MCTxKey
  NoBlock = "null"
  Prev <- MCPrev
  Txs <- MCTxs
  TxOf <- MCTxOf
  ScriptOf <- MCScriptOf
  Spends <- MCSpends
  KeyOf <- MCKeyOf
  BigBlock <- MCBigBlock
  Depths = {1, 2, 3}
  InvalidUndoHeight = 9
PROPERTY RefinesChainStore
INVARIANTS
  IInv
  CleanIndexMatchesChain
  CleanDatabaseLoads
  NoInternalError
  TxHashIndexComplete
CHECK_DEADLOCK FALSE
