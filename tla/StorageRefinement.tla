------------------------- MODULE StorageRefinement --------------------------
(***************************************************************************)
(* Storage implements ChainStore.  An operation takes effect at its first  *)
(* write, setDirty(true): from then on the chain and the undo records are  *)
(* what they will be when the remaining writes are made.                   *)
(***************************************************************************)
EXTENDS Storage

Table == [at |-> DOMAIN undo, earliest |-> earliestUndoHeight]

Pure == INSTANCE ChainStore WITH db <- headers, undos <- Table, phase <- pc

Phase ==
  IF dirty THEN IF pc \in {"down", "refused"} THEN "lost" ELSE "busy"
  ELSE IF pc = "down" THEN "down"
  ELSE IF pc \in {"rebuild", "reindex", "loadundo"} THEN "starting" ELSE "idle"

\* The headers file once the operation under way has written it.
Chain ==
  IF Phase = "lost" THEN <<>>
  ELSE IF pc \in {"txnums", "utxoset", "shunspent", "shist", "blkinfo", "saveundo", "expire",
                  "header"}
         THEN Append(headers, cur)
  ELSE IF pc = "u_header" THEN SubSeq(headers, 1, verifier.n)
  ELSE headers

\* The undo table once the operation under way has written it.
Undos ==
  IF Phase = "lost" THEN Pure!NoUndos
  ELSE IF pc \in {"txnums", "utxoset", "shunspent", "shist", "blkinfo", "saveundo"}
         THEN Pure!Expired(Pure!Saved(Table, Len(headers), saveUndo), Len(headers) - depth)
  ELSE IF pc = "expire" THEN Pure!Expired(Table, Len(headers) - depth)
  ELSE IF pc \in {"u_header", "u_blkinfo", "u_shist", "u_utxoset", "u_shunspent", "u_undo"}
         THEN Pure!Deleted(Table, verifier.n)
  ELSE Table

Store == INSTANCE ChainStore WITH db <- Chain, undos <- Undos, phase <- Phase

\* Whatever is killed and whenever, the writes of addBlock and undoLatestBlock, the
\* dirty flag and the checks of startup amount to the atomic operations of ChainStore:
\* one block more or one block less, or a database that says it is lost.
RefinesChainStore == Store!Spec
=============================================================================
