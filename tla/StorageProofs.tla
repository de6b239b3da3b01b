---------------------------- MODULE StorageProofs -----------------------------
(***************************************************************************)
(* Theorems about Storage, for every set of blocks, every block tree and   *)
(* every configured undo depth.                                            *)
(***************************************************************************)
EXTENDS StorageAddProofs, StorageUndoProofs, StorageRefinement, FiniteSetTheorems, WellFoundedInduction

-----------------------------------------------------------------------------
(* Counts and least elements                                               *)

\* A non-empty set of heights has a least element: what the CHOOSE in
\* LoadEarliestUndo (loadCheckEarliestUndo) picks.
LEMMA LeastElement ==
  ASSUME NEW S \in SUBSET Nat, S # {}
  PROVE  \E h \in S : \A k \in S : h <= k
<1>1. PICK x \in S : \A y \in S : ~ (<<y, x>> \in OpToRel(<, Nat))
  BY NatLessThanWellFounded, WFMin
<1>2. ASSUME NEW y \in S PROVE x <= y
  <2>1. ~ (<<y, x>> \in OpToRel(<, Nat))
    BY <1>1
  <2>2. ~ (y < x)
    BY <2>1 DEF OpToRel
  <2> QED BY <2>2
<1> QED BY <1>1, <1>2

\* One more block changes the UTXO count by what it creates and spends.
LEMMA CountStep ==
  ASSUME MidChain, BaseLen \in Nat
  PROVE  CountsAdd
<1>1. /\ SpentBy(cur) \subseteq BaseUtxos /\ CreatedBy(cur) \cap BaseUtxos = {}
      /\ CreatedBy(cur) \subseteq TXO /\ BaseUtxos \subseteq TXO
  BY SpentAndCreated, BlockOutputs DEF MidChain, BaseUtxos, UtxosUpTo
<1>2. IsFiniteSet(TXO)
  BY ConstantsAssumption
<1>3. IsFiniteSet(CreatedBy(cur)) /\ IsFiniteSet(BaseUtxos)
  BY <1>1, <1>2, FS_Subset
<1>4. IsFiniteSet(SpentBy(cur))
  BY <1>1, <1>3, FS_Subset
<1>5. /\ Cardinality(CreatedBy(cur)) \in Nat /\ Cardinality(SpentBy(cur)) \in Nat
      /\ Cardinality(BaseUtxos) \in Nat
  BY <1>3, <1>4, FS_CardinalityType
<1> DEFINE D == BaseUtxos \ SpentBy(cur)
<1>6. IsFiniteSet(D) /\ Cardinality(D) = Cardinality(BaseUtxos) - Cardinality(BaseUtxos \cap SpentBy(cur))
  BY <1>3, FS_Difference, Zenon
<1>7. BaseUtxos \cap SpentBy(cur) = SpentBy(cur) /\ D \cap CreatedBy(cur) = {}
  BY <1>1
<1> HIDE DEF D
<1>8. Cardinality(D \cup CreatedBy(cur)) =
        Cardinality(D) + Cardinality(CreatedBy(cur)) - Cardinality(D \cap CreatedBy(cur))
  BY <1>3, <1>6, FS_Union
<1>9. Cardinality({}) = 0
  BY FS_EmptySet
<1>10. FullUtxos = D \cup CreatedBy(cur)
  BY DEF FullUtxos, D
<1>11. Cardinality(D) = Cardinality(BaseUtxos) - Cardinality(SpentBy(cur))
  BY <1>6, <1>7
<1>12. Cardinality(FullUtxos) = Cardinality(D) + Cardinality(CreatedBy(cur)) - 0
  BY <1>7, <1>8, <1>9, <1>10
<1> QED BY <1>5, <1>11, <1>12 DEF CountsAdd

\* Between operations the tables pass the checks of startup.
LEMMA RestAddsUp == TypeOK /\ RestInv => HeadersLinked /\ BlkInfosAddUp
<1> SUFFICES ASSUME TypeOK, RestInv PROVE HeadersLinked /\ BlkInfosAddUp
  OBVIOUS
<1>1. HeadersLinked
  BY DEF RestInv, Linked, HeadersLinked
<1>2. Numbered(Len(headers)) /\ Len(txNums) = TxTotal(Len(headers))
  BY Zenon DEF RestInv
<1>3. headers \in Seq(Block) /\ Len(headers) \in Nat /\ (headers = <<>> <=> Len(headers) = 0)
  <2>1. headers \in Seq(Block)
    BY Zenon DEF TypeOK, TablesTyped
  <2> QED BY <2>1, EmptyFile
<1>4. ASSUME NEW i \in 1..Len(headers)
      PROVE  blkinfo[i].txNum0 = IF i = 1 THEN 0 ELSE blkinfo[i - 1].txNum0 + blkinfo[i - 1].nTx
  <2>1. i - 1 = 0 <=> i = 1
    BY <1>3
  <2> QED BY <1>2, <2>1, Zenon DEF Numbered, TxTotal
<1> QED BY <1>1, <1>2, <1>3, <1>4, Zenon DEF Numbered, TxTotal, BlkInfosAddUp

-----------------------------------------------------------------------------
(* The last writes of both operations                                      *)

\* saveUtxoCt preserves IInv: the count in memory is right by then.
LEMMA SaveUtxoCtStep == IInv /\ SaveUtxoCt => IInv'
<1> SUFFICES ASSUME IInv, SaveUtxoCt PROVE IInv'
  OBVIOUS
<1> USE DEF SaveUtxoCt
<1>1. TypeOK'
  BY TypeFrames DEF IInv, TypeOK, MetaTyped, ControlTyped, CountersTyped
<1>2. FlagInv' /\ CounterInv' /\ WorkerInv'
  BY DEF IInv, FlagInv, CounterInv, WorkerInv, Mid, RestPcs, AddPcs, UndoPcs, Segment, BaseLen
<1>3. TxHashInv'
  BY DEF IInv, TxHashInv, TxHashesBelow, UndoPcs, Indexed, Claimed, Truncating
<1>4. AtRest' /\ RestInv' /\ ~ Mid'
  BY RestFrame DEF IInv, AtRest, Mid, AddPcs, UndoPcs
<1>c. CountInv'
  BY DEF IInv, CountInv, Mid, AddPcs, UndoPcs
<1> QED BY <1>c, <1>1, <1>2, <1>3, <1>4 DEF IInv

\* setDirty(false) preserves IInv: at that point the tables are an index.
LEMMA ClearDirtyStep == IInv /\ ClearDirty => IInv'
<1> SUFFICES ASSUME IInv, ClearDirty PROVE IInv'
  OBVIOUS
<1> USE DEF ClearDirty
<1>1. TypeOK'
  BY TypeFrames, Zenon DEF IInv, TypeOK, MetaTyped, ControlTyped
<1>2. FlagInv' /\ CounterInv' /\ WorkerInv'
  BY DEF IInv, FlagInv, CounterInv, WorkerInv, Mid, RestPcs, AddPcs, UndoPcs, Segment, BaseLen
<1>3. TxHashInv'
  BY DEF IInv, TxHashInv, TxHashesBelow, UndoPcs, Indexed, Claimed, Truncating
<1>4. AtRest' /\ RestInv' /\ ~ Mid'
  BY RestFrame DEF IInv, AtRest, RestPcs, Mid, AddPcs, UndoPcs
<1>c. CountInv'
  BY DEF IInv, CountInv, Mid, AddPcs, UndoPcs
<1> QED BY <1>c, <1>1, <1>2, <1>3, <1>4 DEF IInv

\* The return of addBlock or undoLatestBlock preserves IInv.
LEMMA ReturnStep == IInv /\ Return => IInv'
<1> SUFFICES ASSUME IInv, Return PROVE IInv'
  OBVIOUS
<1> USE DEF Return, disk
<1>1. TypeOK'
  BY InitialMemory, TypeFrames, Zenon DEF IInv, TypeOK, LocalsTyped, ControlTyped, IdlePcs
<1>2. FlagInv' /\ CounterInv' /\ WorkerInv'
  BY DEF IInv, FlagInv, CounterInv, WorkerInv, Mid, RestPcs, AddPcs, UndoPcs, Segment, BaseLen
<1>3. TxHashInv'
  BY DEF IInv, TxHashInv, TxHashesBelow, UndoPcs, Indexed, Claimed, Truncating
<1>4. AtRest' /\ RestInv' /\ ~ Mid'
  BY RestFrame DEF IInv, AtRest, RestPcs, Mid, AddPcs, UndoPcs
<1>c. CountInv'
  BY DEF IInv, CountInv, Mid, AddPcs, UndoPcs
<1> QED BY <1>c, <1>1, <1>2, <1>3, <1>4 DEF IInv

-----------------------------------------------------------------------------
(* The end of the process, and startup                                     *)

\* A kill preserves IInv: with the flag clear the tables are at rest, and an
\* unfinished txhash batch shows in largestTxNumSeen.
LEMMA KillStep == IInv /\ Kill => IInv'
<1> SUFFICES ASSUME IInv, Kill PROVE IInv'
  OBVIOUS
<1> USE DEF Kill, disk
<1>1. TypeOK'
  <2>1. LocalsTyped'
    BY InitialMemory, Zenon DEF LocalsTyped
  <2>2. CountersTyped'
    <3>1. InvalidUndoHeight \in Nat
      BY ConstantsAssumption
    <3>2. depth \in Depths
      BY DEF IInv, TypeOK, CountersTyped
    <3> QED BY <3>1, <3>2, InitialMemory DEF CountersTyped
  <2> QED BY <2>1, <2>2, TypeFrames DEF IInv, TypeOK, ControlTyped, IdlePcs
<1>2. FlagInv' /\ CounterInv' /\ WorkerInv'
  BY DEF IInv, FlagInv, CounterInv, WorkerInv, Mid, RestPcs, AddPcs, UndoPcs
<1>3. TxHashInv'
  <2>1. CASE dirty
    BY <2>1 DEF TxHashInv
  <2>2. CASE ~ dirty /\ pc = "rebuild"
    BY <2>2 DEF IInv, TxHashInv, TxHashesBelow
  <2>3. CASE ~ dirty /\ pc # "rebuild"
    <3>1. pc \in RestPcs
      BY <2>3 DEF IInv, TypeOK, ControlTyped, FlagInv, Mid, RestPcs, AddPcs, UndoPcs, IdlePcs
    <3>2. txhash2txnum = TxHashesBelow(Indexed) /\ largestTxNumSeen + 1 = Claimed
      BY <2>3, <3>1 DEF IInv, TxHashInv, RestPcs
    <3>3. Claimed = Len(txNums) => Indexed = Len(txNums)
      BY <3>1, BlockOutputs DEF IInv, TypeOK, ControlTyped, LocalsTyped, WorkerInv, Segment, Indexed, Claimed,
                                Truncating, RestPcs, UndoPcs
    <3> QED BY <3>2, <3>3 DEF TxHashInv, TxHashesBelow
  <2> QED BY <2>1, <2>2, <2>3 DEF IInv, TypeOK, MetaTyped
<1>4. AtRest' => RestInv'
  BY RestFrame DEF IInv, TypeOK, ControlTyped, FlagInv, AtRest, RestPcs, Mid, AddPcs, UndoPcs, IdlePcs
<1>5. ~ Mid'
  BY DEF Mid, AddPcs, UndoPcs
<1>c. CountInv'
  BY DEF IInv, CountInv, Mid, AddPcs, UndoPcs
<1> QED BY <1>c, <1>1, <1>2, <1>3, <1>4, <1>5 DEF IInv

\* startup preserves IInv: a clean database passes the loadCheck functions, and
\* a txhash index that claims to be complete is.
LEMMA StartupStep == IInv /\ (\E d \in Depths : Startup(d)) => IInv'
<1> SUFFICES ASSUME IInv, NEW d \in Depths, Startup(d) PROVE IInv'
  OBVIOUS
<1> USE DEF Startup, disk
<1>1. CASE dirty
  <2>0. pc' = "refused" /\ UNCHANGED <<verifier, txNumNext>>
    BY <1>1
  <2>1. TypeOK'
    BY <2>0, TypeFrames DEF IInv, TypeOK, ControlTyped, CountersTyped, IdlePcs
  <2>2. FlagInv' /\ CounterInv' /\ WorkerInv' /\ TxHashInv'
    BY <1>1, <2>0 DEF IInv, FlagInv, CounterInv, WorkerInv, TxHashInv, Mid, RestPcs,
                      AddPcs, UndoPcs
  <2>3. ~ AtRest' /\ ~ Mid'
    BY <2>0 DEF AtRest, RestPcs, Mid, AddPcs, UndoPcs
  <2>4. CountInv'
    BY <1>1, <2>0, <2>3 DEF CountInv
  <2> QED BY <2>1, <2>2, <2>3, <2>4 DEF IInv
<1>2. CASE ~ dirty
  <2>1. RestInv /\ pc = "down" /\ TypeOK
    BY <1>2 DEF IInv, AtRest
  <2>2. HeadersLinked /\ BlkInfosAddUp
    BY <2>1, RestAddsUp
  <2>3. /\ verifier' = Verified(headers) /\ txNumNext' = Len(txNums)
        /\ pc' = IF TxHashIndexLooksGood THEN "loadundo" ELSE "rebuild"
    BY <1>2, <2>2
  <2>4. TypeOK'
    <3>1. Verified(headers) \in [n : Nat, last : Block \cup {NoBlock}]
      BY <2>1 DEF TypeOK, TablesTyped, Verified, LastHeader
    <3>2. CountersTyped'
      BY <2>1, <2>3, <3>1 DEF TypeOK, TablesTyped, CountersTyped
    <3> QED BY <2>1, <2>3, <3>2, TypeFrames DEF TypeOK, ControlTyped, IdlePcs
  <2>5. FlagInv' /\ CounterInv' /\ WorkerInv'
    BY <1>2, <2>1, <2>3 DEF IInv, FlagInv, CounterInv, WorkerInv, Mid, RestPcs, AddPcs,
                            UndoPcs, Verified, LastHeader
  <2>6. TxHashInv'
    <3>1. worker' = "none" /\ dirty' = dirty
      BY <2>1 DEF IInv, TypeOK, ControlTyped, WorkerInv, AddPcs, UndoPcs
    <3>2. largestTxNumSeen + 1 = Len(txNums) => txhash2txnum = TxHashesBelow(Len(txNums))
      BY <1>2, <2>1 DEF IInv, TxHashInv
    <3>3. CASE TxHashIndexLooksGood
      <4>1. largestTxNumSeen + 1 = Len(txNums)
        BY <3>3 DEF TxHashIndexLooksGood
      <4>2. Indexed' = Len(txNums) /\ Claimed' = Len(txNums)
        BY <2>3, <3>1, <3>3 DEF Indexed, Claimed, Truncating, UndoPcs
      <4> QED BY <2>3, <3>2, <3>3, <4>1, <4>2 DEF TxHashInv, TxHashesBelow
    <3>4. CASE ~ TxHashIndexLooksGood
      BY <2>3, <3>2, <3>4 DEF TxHashInv, TxHashesBelow
    <3> QED BY <3>3, <3>4
  <2>7. RestInv' /\ ~ Mid'
    BY <2>1, <2>3, RestFrame DEF Mid, AddPcs, UndoPcs
  <2>8. CountInv'
    BY <1>2, <2>3, <2>7 DEF IInv, CountInv
  <2> QED BY <2>4, <2>5, <2>6, <2>7, <2>8 DEF IInv
<1> QED BY <1>1, <1>2 DEF IInv, TypeOK, MetaTyped

\* The deletion of the txhash index by rebuildDB preserves IInv.
LEMMA RebuildDeleteStep == IInv /\ RebuildDelete => IInv'
<1> SUFFICES ASSUME IInv, RebuildDelete PROVE IInv'
  OBVIOUS
<1> USE DEF RebuildDelete
<1>1. TypeOK'
  BY TypeFrames DEF IInv, TypeOK, MetaTyped, ControlTyped, IdlePcs
<1>2. FlagInv' /\ CounterInv' /\ WorkerInv'
  BY DEF IInv, FlagInv, CounterInv, WorkerInv, Mid, RestPcs, AddPcs, UndoPcs, Verified
<1>3. TxHashInv'
  <2>1. worker' = "none" /\ ~ Truncating'
    BY Zenon DEF IInv, TypeOK, ControlTyped, WorkerInv, Truncating, AddPcs, UndoPcs
  <2>2. Indexed' = 0 /\ Claimed' = 0
    BY <2>1 DEF Indexed, Claimed
  <2> QED BY <2>2 DEF TxHashInv, TxHashesBelow
<1>4. AtRest' /\ RestInv' /\ ~ Mid'
  BY RestFrame DEF IInv, AtRest, RestPcs, Mid, AddPcs, UndoPcs
<1>c. CountInv'
  BY DEF IInv, CountInv, FlagInv, RestPcs, Mid, AddPcs, UndoPcs
<1> QED BY <1>c, <1>1, <1>2, <1>3, <1>4 DEF IInv

\* The reindexing of the record file by rebuildDB preserves IInv.
LEMMA ReindexStep == IInv /\ Reindex => IInv'
<1> SUFFICES ASSUME IInv, Reindex PROVE IInv'
  OBVIOUS
<1> USE DEF Reindex
<1>1. TypeOK'
  <2>1. AllTxHashes \subseteq TxKey \X Nat
    <3>1. txNums \in Seq(Tx) /\ AllTxHashes = TxHashesBelow(Len(txNums))
      BY DEF IInv, TypeOK, TablesTyped, AllTxHashes, TxHashesBelow
    <3> QED BY <3>1, TxHashTypes
  <2>2. Len(txNums) - 1 \in Nat \cup {-1}
    BY DEF IInv, TypeOK, TablesTyped
  <2> QED BY <2>1, <2>2, TypeFrames DEF IInv, TypeOK, MetaTyped, ControlTyped, IdlePcs
<1>2. FlagInv' /\ CounterInv' /\ WorkerInv'
  BY DEF IInv, FlagInv, CounterInv, WorkerInv, Mid, RestPcs, AddPcs, UndoPcs, Verified
<1>3. TxHashInv'
  <2>1. worker' = "none" /\ ~ Truncating'
    BY Zenon DEF IInv, TypeOK, ControlTyped, WorkerInv, Truncating, AddPcs, UndoPcs
  <2>2. Indexed' = Len(txNums) /\ Claimed' = Len(txNums) /\ Len(txNums) \in Nat
    BY <2>1 DEF Indexed, Claimed, IInv, TypeOK, TablesTyped
  <2>3. largestTxNumSeen' + 1 = Len(txNums)
    BY <2>2
  <2> QED BY <2>2, <2>3, Zenon DEF TxHashInv, TxHashesBelow, AllTxHashes
<1>4. AtRest' /\ RestInv' /\ ~ Mid'
  BY RestFrame DEF IInv, AtRest, RestPcs, Mid, AddPcs, UndoPcs
<1>c. CountInv'
  BY DEF IInv, CountInv, FlagInv, RestPcs, Mid, AddPcs, UndoPcs
<1> QED BY <1>c, <1>1, <1>2, <1>3, <1>4 DEF IInv

\* loadCheckEarliestUndo preserves IInv: it only drops undo records.
LEMMA LoadEarliestUndoStep == IInv /\ LoadEarliestUndo => IInv'
<1> SUFFICES ASSUME IInv, LoadEarliestUndo PROVE IInv'
  OBVIOUS
<1> DEFINE kept == Newest(AboveLastHole(DOMAIN undo), depth)
<1>0. /\ kept \subseteq DOMAIN undo
      /\ undo' = [h \in kept |-> undo[h]]
      /\ earliestUndoHeight' = SmallestOr(kept, InvalidUndoHeight)
  BY DEF LoadEarliestUndo, Newest, AboveLastHole, Restricted
<1> HIDE DEF kept
<1>a. SmallestOr(kept, InvalidUndoHeight) \in Nat
  <2>1. kept \subseteq Nat
    BY <1>0 DEF IInv, TypeOK, UndoTyped
  <2>2. CASE kept = {}
    BY <2>2, ConstantsAssumption DEF SmallestOr
  <2>3. CASE kept # {}
    BY <2>1, <2>3, LeastElement, Zenon DEF SmallestOr
  <2> QED BY <2>2, <2>3
<1>1. TypeOK'
  <2>1. UndoTyped'
    BY <1>0 DEF IInv, TypeOK, UndoTyped
  <2> QED BY <1>0, <1>a, <2>1, TypeFrames
          DEF LoadEarliestUndo, IInv, TypeOK, MetaTyped, ControlTyped, CountersTyped, IdlePcs
<1> USE DEF LoadEarliestUndo
<1>2. FlagInv' /\ CounterInv' /\ WorkerInv'
  BY DEF IInv, FlagInv, CounterInv, WorkerInv, Mid, RestPcs, AddPcs, UndoPcs, Verified
<1>3. TxHashInv'
  BY ZenonT(30) DEF IInv, TypeOK, ControlTyped, WorkerInv, TxHashInv, TxHashesBelow, UndoPcs, Indexed, Claimed, Truncating,
         AddPcs
<1>4. RestInv'
  <2>1. RestInv
    BY DEF IInv, AtRest, RestPcs
  <2>2. UndoMatches'
    <3>1. \A r, b, bi : RecordReverts(r, b, bi) => RecordReverts(r, b, bi)'
      BY ZenonT(30) DEF RecordReverts
    <3>2. ASSUME NEW h \in DOMAIN undo' PROVE h \in DOMAIN undo /\ undo'[h] = undo[h]
      BY <1>0
    <3> QED BY <2>1, <3>1, <3>2 DEF RestInv, UndoMatches
  <2> QED BY <2>1, <2>2, ZenonT(30) DEF RestInv, Linked, ChainValid, Numbered, TxTotal, UtxosAre,
                            HistoriesBelow
<1>5. ~ Mid'
  BY DEF Mid, AddPcs, UndoPcs
<1>c. CountInv'
  BY DEF IInv, CountInv, FlagInv, RestPcs, Mid, AddPcs, UndoPcs
<1> QED BY <1>c, <1>1, <1>2, <1>3, <1>4, <1>5 DEF IInv

-----------------------------------------------------------------------------
(* The invariant holds initially and is preserved by every step.           *)

\* An empty data directory satisfies IInv.
LEMMA InitStep == Init => IInv
<1> SUFFICES ASSUME Init PROVE IInv
  OBVIOUS
<1> USE DEF Init
<1>1. Len(headers) = 0 /\ Len(txNums) = 0 /\ Len(blkinfo) = 0
  BY EmptyFile
<1>2. TypeOK
  <2>1. TablesTyped
    <3>1. TxNumMap(utxoset)
      BY DEF TxNumMap
    <3> QED BY <3>1, EmptyFile DEF TablesTyped
  <2>2. UndoTyped
    <3>1. DOMAIN undo = {} /\ undo = [h \in {} |-> undo[h]]
      OBVIOUS
    <3> QED BY <3>1 DEF UndoTyped
  <2>3. MetaTyped /\ ControlTyped
    <3>1. ControlTyped
      BY DEF ControlTyped, IdlePcs
    <3>2. largestTxNumSeen \in Nat \cup {-1} /\ utxoCtDb \in Int
      OBVIOUS
    <3>3. txhash2txnum \subseteq TxKey \X Nat /\ dirty \in BOOLEAN
      BY Zenon
    <3> QED BY <3>1, <3>2, <3>3 DEF MetaTyped
  <2>4. LocalsTyped
    BY InitialMemory, Zenon DEF LocalsTyped
  <2>5. CountersTyped
    <3>1. InvalidUndoHeight \in Nat
      BY ConstantsAssumption
    <3> QED BY <3>1, InitialMemory DEF CountersTyped
  <2> QED BY <2>1, <2>2, <2>3, <2>4, <2>5 DEF TypeOK
<1>3. FlagInv /\ CounterInv /\ WorkerInv
  <2>1. FlagInv
    BY DEF FlagInv, Mid, RestPcs, AddPcs, UndoPcs
  <2>2. CounterInv
    BY DEF CounterInv, Mid, RestPcs, AddPcs, UndoPcs
  <2>3. WorkerInv
    BY DEF WorkerInv, AddPcs, UndoPcs
  <2> QED BY <2>1, <2>2, <2>3
<1>4. TxHashInv
  BY <1>1 DEF TxHashInv, TxHashesBelow
<1>5. CountInv /\ ~ Mid
  <2>1. DOMAIN utxoset = {} /\ Cardinality({}) = 0
    BY FS_EmptySet
  <2> QED BY <2>1 DEF CountInv, Mid, AddPcs, UndoPcs
<1>6. RestInv
  <2>1. TxTotal(0) = 0
    BY DEF TxTotal
  <2>2. Linked(0) /\ ChainValid(0) /\ Numbered(0)
    BY <1>1, <2>1 DEF Linked, ChainValid, Numbered
  <2>3. UtxosAre(UtxosOf(headers), 0)
    BY <1>1 DEF UtxosAre, UtxosOf, UtxosUpTo
  <2>4. HistoriesBelow(0) /\ UndoMatches /\ shunspent = ShunspentKeys(utxoset)
    BY DEF HistoriesBelow, UndoMatches, ShunspentKeys
  <2> QED BY <1>1, <2>1, <2>2, <2>3, <2>4 DEF RestInv
<1> QED BY <1>2, <1>3, <1>4, <1>5, <1>6 DEF IInv

\* A stuttering step preserves IInv.
LEMMA StutterStep == IInv /\ UNCHANGED vars => IInv'
<1> SUFFICES ASSUME IInv, UNCHANGED vars PROVE IInv'
  OBVIOUS
<1> USE DEF vars, disk, mem
<1>1. TypeOK'
  BY TypeFrames DEF IInv, TypeOK, ControlTyped
<1>2. FlagInv' /\ CounterInv' /\ WorkerInv'
  BY DEF IInv, FlagInv, CounterInv, WorkerInv, Mid, BaseLen, Segment, Verified
<1>3. TxHashInv' /\ CountInv'
  BY Zenon DEF IInv, TxHashInv, TxHashesBelow, Indexed, Claimed, Truncating, CountInv, Mid,
         BaseUtxos, FullUtxos, BaseLen
<1>4. (AtRest => RestInv)'
  BY RestFrame DEF IInv, AtRest
<1>5. (Mid => MidInv)'
  BY MidFrame DEF IInv, Mid
<1> QED BY <1>1, <1>2, <1>3, <1>4, <1>5 DEF IInv

\* Every step of the specification preserves IInv.
LEMMA NextStep == IInv /\ [Next]_vars => IInv'
<1> SUFFICES ASSUME IInv, [Next]_vars PROVE IInv'
  OBVIOUS
<1>0. Mid => CountsAdd
  BY MidFacts, CountStep DEF MidInv
<1>1. CASE UNCHANGED vars
  BY <1>1, StutterStep
<1>2. CASE \E b \in Block, save \in BOOLEAN : AddBlock(b, save)
  BY <1>2, AddBlockStep
<1>3. CASE AppendTxNums \/ WriteUtxoSet \/ WriteShunspent \/ MergeShist
  BY <1>0, <1>3, AppendTxNumsStep, WriteUtxoSetStep, WriteShunspentStep, MergeShistStep
<1>4. CASE AppendBlkInfo \/ SaveUndo \/ ExpireUndo \/ AppendHeader
  BY <1>4, AppendBlkInfoStep, SaveUndoStep, ExpireUndoStep, AppendHeaderStep
<1>5. CASE SaveUtxoCt \/ ClearDirty \/ Return \/ WorkerBatch \/ WorkerSave
  BY <1>5, SaveUtxoCtStep, ClearDirtyStep, ReturnStep, WorkerBatchStep, WorkerSaveStep
<1>6. CASE UndoLatestBlock \/ UndoHeader \/ UndoBlkInfo \/ UndoShist
  BY <1>6, UndoLatestBlockStep, UndoHeaderStep, UndoBlkInfoStep, UndoShistStep
<1>7. CASE UndoUtxoSet \/ UndoShunspent \/ DeleteUndo \/ TruncateTxNums
  BY <1>0, <1>7, UndoUtxoSetStep, UndoShunspentStep, DeleteUndoStep, TruncateTxNumsStep
<1>8. CASE Kill \/ (\E d \in Depths : Startup(d))
  BY <1>8, KillStep, StartupStep
<1>9. CASE RebuildDelete \/ Reindex \/ LoadEarliestUndo
  BY <1>9, RebuildDeleteStep, ReindexStep, LoadEarliestUndoStep
<1> QED BY <1>1, <1>2, <1>3, <1>4, <1>5, <1>6, <1>7, <1>8, <1>9 DEF Next

\* IInv is an invariant of the specification: whatever sequence of added and
\* undone blocks, kills and restarts, each table of Storage is where pc says.
THEOREM Invariance == Spec => []IInv
BY InitStep, NextStep, PTL DEF Spec

\* Type correctness of every table, record file and local of addBlock and
\* undoLatestBlock.
THEOREM TypeCorrect == Spec => []TypeOK
<1>1. IInv => TypeOK
  BY DEF IInv
<1> QED BY <1>1, Invariance, PTL

\* What IInv says at rest is that the tables are the index of the chain.
LEMMA RestIsIndex == TypeOK /\ RestInv => IndexMatchesChain
<1> SUFFICES ASSUME TypeOK, RestInv PROVE IndexMatchesChain
  OBVIOUS
<1>1. HeadersLinked /\ BlkInfosAddUp
  BY RestAddsUp
<1>3. TxNumsMatch
  BY DEF RestInv, Numbered, TxNumsMatch
<1>4. UtxoSetMatches /\ shunspent = ShunspentKeys(utxoset)
  BY DEF RestInv, UtxosAre, UtxoSetMatches
<1>5. HistoriesMatch /\ UndoMatches
  BY DEF RestInv, HistoriesBelow, HistoriesMatch
<1> QED BY <1>1, <1>3, <1>4, <1>5 DEF IndexMatchesChain

\* A clear dirty flag means that no operation is half-way.
LEMMA CleanAtRest == IInv /\ ~ dirty => RestInv
BY DEF IInv, FlagInv, AtRest, TypeOK, ControlTyped, Mid, RestPcs, AddPcs, UndoPcs, IdlePcs

\* For every block tree and every history of addBlock, undoLatestBlock, kills
\* between two writes and restarts: a database whose dirty flag is clear is the
\* index of the chain in its headers file.
THEOREM CleanIndex == Spec => []CleanIndexMatchesChain
<1>1. IInv => CleanIndexMatchesChain
  BY CleanAtRest, RestIsIndex DEF IInv, CleanIndexMatchesChain
<1> QED BY <1>1, Invariance, PTL

\* startup never takes a database whose dirty flag is clear for a corrupt one.
THEOREM NoFalseAlarm == Spec => []CleanDatabaseLoads
<1>1. IInv => CleanDatabaseLoads
  BY DEF IInv, FlagInv, CleanDatabaseLoads
<1> QED BY <1>1, Invariance, PTL

\* No exception but UndoInfoMissing leaves addBlock or undoLatestBlock: no block of a
\* valid tree fails to spend, no counter disagrees, no undo record is unusable.
THEOREM NoInternalExceptions == Spec => []NoInternalError
<1>1. IInv => NoInternalError
  BY DEF IInv, FlagInv, NoInternalError
<1> QED BY <1>1, Invariance, PTL

\* Every transaction of an idle database is found by hash, although addBlock
\* clears the dirty flag while its worker may still be indexing the block.
THEOREM TxHashComplete == Spec => []TxHashIndexComplete
<1>1. IInv => TxHashIndexComplete
  <2> SUFFICES ASSUME IInv, pc = "idle" PROVE txhash2txnum = AllTxHashes
    BY DEF TxHashIndexComplete
  <2>1. worker = "none"
    BY DEF IInv, WorkerInv, TypeOK, ControlTyped, AddPcs, UndoPcs
  <2>2. txhash2txnum = TxHashesBelow(Len(txNums))
    BY <2>1 DEF IInv, TxHashInv, Indexed, Truncating, UndoPcs
  <2> QED BY <2>2 DEF TxHashesBelow, AllTxHashes
<1> QED BY <1>1, Invariance, PTL

\* The UTXO count that startup loads without counting is the size of utxoset.
THEOREM UtxoCountCorrect == Spec => []UtxoCountMatches
<1>1. IInv => UtxoCountMatches
  BY DEF IInv, CountInv, UtxoCountMatches
<1> QED BY <1>1, Invariance, PTL

\* addBlock only ever appends to a script hash's history txNums above those it
\* holds, so the histories stay sorted under the concatenating merge operator.
THEOREM HistoriesSorted == Spec => []HistoriesAppendInOrder
<1>1. IInv => HistoriesAppendInOrder
  <2> SUFFICES ASSUME IInv, pc = "shist", NEW hx \in HashX, NEW n \in shist[hx]
               PROVE  n < txNum0
    BY DEF HistoriesAppendInOrder
  <2>1. HistoriesBelow(txNum0) /\ txNum0 \in Nat
    BY DEF IInv, Mid, AddPcs, MidInv, MidShist, TypeOK, LocalsTyped
  <2> QED BY <2>1 DEF HistoriesBelow
<1> QED BY <1>1, Invariance, PTL

-----------------------------------------------------------------------------
(* Storage implements ChainStore.                                          *)

\* What the refinement needs of IInv: which pc goes with a clear flag, and where
\* the header verifier is.
LEMMA PhaseFacts ==
  ASSUME IInv
  PROVE  /\ pc \in RestPcs \cup {"down", "refused", "utxoct", "clean"} \cup AddPcs \cup UndoPcs
         /\ dirty \in BOOLEAN
         /\ pc \in AddPcs \cup UndoPcs \cup {"utxoct", "clean", "refused"} => dirty
         /\ pc \in RestPcs => ~ dirty
         /\ headers \in Seq(Block) /\ Len(headers) \in Nat
         /\ pc = "idle" => verifier = Verified(headers)
         /\ pc \in UndoPcs => verifier.n = BaseLen
<1>1. pc \in RestPcs \cup {"down", "refused", "utxoct", "clean"} \cup AddPcs \cup UndoPcs
  BY Zenon DEF IInv, TypeOK, ControlTyped, FlagInv, RestPcs, AddPcs, UndoPcs, IdlePcs
<1>2. dirty \in BOOLEAN /\ headers \in Seq(Block) /\ Len(headers) \in Nat
  BY EmptyFile DEF IInv, TypeOK, MetaTyped, TablesTyped
<1>3. /\ pc \in AddPcs \cup UndoPcs \cup {"utxoct", "clean", "refused"} => dirty
      /\ pc \in RestPcs => ~ dirty
  BY Zenon DEF IInv, FlagInv, Mid
<1>4. pc = "idle" => verifier = Verified(headers)
  BY Zenon DEF IInv, CounterInv, RestPcs
<1>5. pc \in UndoPcs => verifier.n = BaseLen
  BY DEF IInv, CounterInv
<1> QED BY <1>1, <1>2, <1>3, <1>4, <1>5

\* The mapping reads these variables only.
LEMMA SameStore ==
  ASSUME Phase' = Phase, Chain' = Chain, Undos' = Undos, depth' = depth
  PROVE  UNCHANGED Store!vars
BY DEF Store!vars

\* An empty data directory is an empty ChainStore.
LEMMA InitRefines == Init => Store!Init
<1> SUFFICES ASSUME Init PROVE Store!Init
  OBVIOUS
<1>1. Phase = "down" /\ Chain = <<>>
  BY DEF Init, Phase, Chain
<1>2. Undos = Pure!NoUndos
  <2>1. DOMAIN undo = {}
    BY DEF Init
  <2> QED BY <1>1, <2>1 DEF Init, Undos, Table, Pure!NoUndos
<1> QED BY <1>1, <1>2 DEF Init, Store!Init, Store!NoUndos, Pure!NoUndos

\* setDirty(true) in addBlock is where ChainStore's AddBlock happens.
LEMMA AddBlockRefines ==
  ASSUME IInv, NEW b \in Block, NEW save \in BOOLEAN, AddBlock(b, save)
  PROVE  Store!AddBlock(b, save)
<1>1. pc = "idle" /\ ~ dirty /\ verifier.last = LastHeader(headers)
  <2>1. pc = "idle"
    BY Zenon DEF AddBlock
  <2>2. ~ dirty /\ verifier = Verified(headers)
    BY <2>1, PhaseFacts DEF RestPcs
  <2> QED BY <2>1, <2>2 DEF Verified
<1>2. /\ pc' = "txnums" /\ dirty' /\ cur' = b /\ saveUndo' = save /\ Prev[b] = verifier.last
      /\ UNCHANGED <<headers, undo, earliestUndoHeight, depth>>
  BY DEF AddBlock
<1>3. Phase = "idle" /\ Phase' = "busy"
  BY <1>1, <1>2 DEF Phase
<1>4. Chain = headers /\ Chain' = Append(headers, b)
  BY <1>1, <1>2, <1>3 DEF Chain
<1>5. Undos = Table
  BY <1>1, <1>3 DEF Undos
<1>6. Undos' = Pure!Expired(Pure!Saved(Table, Len(headers), save), Len(headers) - depth)
  BY <1>2, <1>3 DEF Undos, Table, Pure!Expired, Pure!Saved
<1>7. Store!Tip = LastHeader(headers)
  BY <1>4 DEF Store!Tip, LastHeader
<1>8. Store!Added(b, save)
  BY <1>4, <1>5, <1>6 DEF Store!Added, Store!Expired, Store!Saved, Pure!Expired, Pure!Saved
<1> QED BY <1>1, <1>2, <1>3, <1>7, <1>8 DEF Store!AddBlock

\* The writes of addBlock before its undo record do not show in ChainStore.
LEMMA AddWritesRefine ==
  ASSUME IInv, IInv',
         AppendTxNums \/ WriteUtxoSet \/ WriteShunspent \/ MergeShist \/ AppendBlkInfo
  PROVE  UNCHANGED Store!vars
<1> DEFINE P == {"txnums", "utxoset", "shunspent", "shist", "blkinfo", "saveundo"}
<1>1. /\ pc \in P /\ pc' \in P
      /\ UNCHANGED <<headers, undo, dirty, cur, saveUndo, earliestUndoHeight, depth, verifier>>
  <2>1. pc' # "threw"
    BY PhaseFacts DEF IInv, FlagInv
  <2>2. pc \in P /\ pc' \in P
    BY <2>1, Zenon DEF AppendTxNums, WriteUtxoSet, WriteShunspent, MergeShist, AppendBlkInfo
  <2>3. UNCHANGED <<headers, undo, dirty, cur, saveUndo, earliestUndoHeight, depth, verifier>>
    BY Zenon DEF AppendTxNums, WriteUtxoSet, WriteShunspent, MergeShist, AppendBlkInfo
  <2> QED BY <2>2, <2>3
<1>2. dirty /\ dirty'
  BY <1>1, PhaseFacts DEF AddPcs
<1>3. Phase = "busy" /\ Phase' = "busy"
  BY <1>1, <1>2 DEF Phase
<1>4. Chain' = Chain
  BY <1>1, <1>3 DEF Chain
<1>5. Undos' = Undos
  BY <1>1, <1>3 DEF Undos, Table, Pure!Expired, Pure!Saved
<1> QED BY <1>1, <1>3, <1>4, <1>5, SameStore

\* Saving the undo record makes ChainStore's Saved come true.
LEMMA SaveUndoRefines ==
  ASSUME IInv, SaveUndo
  PROVE  UNCHANGED Store!vars
<1>1. /\ pc = "saveundo" /\ pc' = "expire" /\ dirty
      /\ UNCHANGED <<headers, dirty, cur, saveUndo, depth, verifier>>
  BY PhaseFacts DEF SaveUndo, AddPcs
<1>2. Phase = "busy" /\ Phase' = "busy"
  BY <1>1 DEF Phase
<1>3. Chain' = Chain
  BY <1>1, <1>2 DEF Chain
<1>4. Table' = Pure!Saved(Table, Len(headers), saveUndo)
  BY DEF SaveUndo, Table, Pure!Saved
<1>5. Undos' = Undos
  BY <1>1, <1>2, <1>4 DEF Undos, Pure!Expired
<1> QED BY <1>1, <1>2, <1>3, <1>5, SameStore

\* Expiring an undo record makes ChainStore's Expired come true.
LEMMA ExpireUndoRefines ==
  ASSUME IInv, ExpireUndo
  PROVE  UNCHANGED Store!vars
<1>1. /\ pc = "expire" /\ pc' = "header" /\ dirty
      /\ UNCHANGED <<headers, dirty, cur, saveUndo, depth, verifier>>
  BY PhaseFacts DEF ExpireUndo, AddPcs
<1>2. Phase = "busy" /\ Phase' = "busy"
  BY <1>1 DEF Phase
<1>3. Chain' = Chain
  BY <1>1, <1>2 DEF Chain
<1>4. Table' = Pure!Expired(Table, Len(headers) - depth)
  BY DEF ExpireUndo, Table, Pure!Expired, Restricted
<1>5. Undos' = Undos
  BY <1>1, <1>2, <1>4 DEF Undos
<1> QED BY <1>1, <1>2, <1>3, <1>5, SameStore

\* The header, the last table to be written, makes the chain come true.
LEMMA AppendHeaderRefines ==
  ASSUME IInv, AppendHeader
  PROVE  UNCHANGED Store!vars
<1>1. /\ pc = "header" /\ pc' = "utxoct" /\ dirty /\ headers' = Append(headers, cur)
      /\ UNCHANGED <<undo, dirty, earliestUndoHeight, depth>>
  BY PhaseFacts DEF AppendHeader, AddPcs
<1>2. Phase = "busy" /\ Phase' = "busy"
  BY <1>1 DEF Phase
<1>3. Chain' = Chain
  BY <1>1, <1>2 DEF Chain
<1>4. Undos' = Undos
  BY <1>1, <1>2 DEF Undos, Table
<1> QED BY <1>1, <1>2, <1>3, <1>4, SameStore

\* Clearing the flag ends the operation.
LEMMA ClearDirtyRefines ==
  ASSUME IInv, ClearDirty
  PROVE  Store!Finish
<1>1. /\ pc = "clean" /\ pc' = "return" /\ dirty /\ ~ dirty'
      /\ UNCHANGED <<headers, undo, earliestUndoHeight, depth>>
  BY PhaseFacts DEF ClearDirty
<1>2. Phase = "busy" /\ Phase' = "idle"
  BY <1>1 DEF Phase
<1>3. Chain' = Chain
  BY <1>1, <1>2 DEF Chain
<1>4. Undos' = Undos
  BY <1>1, <1>2 DEF Undos, Table
<1> QED BY <1>1, <1>2, <1>3, <1>4 DEF Store!Finish

\* Steps that ChainStore knows nothing of: the saved count, the return, the worker, the
\* repair of the txhash index.
LEMMA OtherStepsRefine ==
  ASSUME IInv, SaveUtxoCt \/ Return \/ WorkerBatch \/ WorkerSave \/ RebuildDelete \/ Reindex
               \/ UNCHANGED vars
  PROVE  UNCHANGED Store!vars
<1>1. CASE WorkerBatch \/ WorkerSave \/ UNCHANGED vars
  <2>1. UNCHANGED <<headers, undo, dirty, pc, cur, saveUndo, verifier, earliestUndoHeight, depth>>
    BY <1>1, Zenon DEF WorkerBatch, WorkerSave, vars, disk, mem
  <2>2. Phase' = Phase
    BY <2>1 DEF Phase
  <2>3. Chain' = Chain
    BY <2>1, <2>2 DEF Chain
  <2>4. Undos' = Undos
    BY <2>1, <2>2 DEF Undos, Table, Pure!Expired, Pure!Saved, Pure!Deleted, Pure!NoUndos
  <2> QED BY <2>1, <2>2, <2>3, <2>4, SameStore
<1>2. CASE SaveUtxoCt \/ Return \/ RebuildDelete \/ Reindex
  <2>1. UNCHANGED <<headers, undo, dirty, earliestUndoHeight, depth>>
    BY <1>2, Zenon DEF SaveUtxoCt, Return, RebuildDelete, Reindex, disk
  <2>2. \/ pc = "utxoct" /\ pc' = "clean" /\ dirty
        \/ pc = "return" /\ pc' = "idle" /\ ~ dirty
        \/ pc = "rebuild" /\ pc' = "reindex" /\ ~ dirty
        \/ pc = "reindex" /\ pc' = "loadundo" /\ ~ dirty
    BY <1>2, PhaseFacts DEF SaveUtxoCt, Return, RebuildDelete, Reindex, RestPcs
  <2>3. Phase' = Phase /\ Phase # "lost"
    BY <2>1, <2>2 DEF Phase
  <2>4. Chain = headers /\ Chain' = headers
    BY <2>1, <2>2, <2>3 DEF Chain
  <2>5. Undos = Table /\ Undos' = Table
    BY <2>1, <2>2, <2>3 DEF Undos, Table
  <2> QED BY <2>1, <2>3, <2>4, <2>5, SameStore
<1> QED BY <1>1, <1>2

\* setDirty(true) in undoLatestBlock is where ChainStore's UndoLatestBlock happens; an
\* undo that finds no record does nothing.
LEMMA UndoLatestBlockRefines ==
  ASSUME IInv, IInv', UndoLatestBlock
  PROVE  Store!UndoLatestBlock \/ UNCHANGED Store!vars
<1>1. /\ pc = "idle" /\ ~ dirty /\ verifier.n = Len(headers) /\ Len(headers) \in Nat
      /\ UNCHANGED <<headers, undo, earliestUndoHeight, depth>>
  <2>1. pc = "idle" /\ UNCHANGED <<headers, undo, earliestUndoHeight, depth>>
    BY Zenon DEF UndoLatestBlock
  <2>2. ~ dirty /\ verifier = Verified(headers) /\ Len(headers) \in Nat
    BY <2>1, PhaseFacts DEF RestPcs
  <2> QED BY <2>1, <2>2 DEF Verified
<1>2. Phase = "idle"
  BY <1>1 DEF Phase
<1>3. Chain = headers /\ Undos = Table
  BY <1>1, <1>2 DEF Chain, Undos
<1>4. CASE pc' = "noundo"
  <2>1. dirty' = dirty
    BY <1>4, Zenon DEF UndoLatestBlock
  <2>2. Phase' = "idle"
    BY <1>1, <1>4, <2>1 DEF Phase
  <2>3. Chain' = headers /\ Undos' = Table
    BY <1>1, <1>4, <2>2 DEF Chain, Undos, Table
  <2> QED BY <1>1, <1>2, <1>3, <2>2, <2>3, SameStore
<1>5. CASE pc' = "u_header"
  <2>1. /\ dirty' /\ Tip > 0 /\ Tip \in DOMAIN undo
        /\ verifier' = [n |-> verifier.n - 1, last |-> headers[Tip]]
    BY <1>5, Zenon DEF UndoLatestBlock
  <2>2. Phase' = "busy"
    BY <1>5, <2>1 DEF Phase
  <2>3. verifier'.n = Len(headers) - 1 /\ Tip = Len(headers) - 1
    BY <1>1, <2>1 DEF Tip
  <2>4. Chain' = SubSeq(headers, 1, Len(headers) - 1)
    BY <1>1, <1>5, <2>2, <2>3 DEF Chain
  <2>5. Undos' = Pure!Deleted(Table, Len(headers) - 1)
    <3> DEFINE Gone(table, h) ==
          [at |-> table.at \ {h},
           earliest |-> IF table.earliest >= h THEN InvalidUndoHeight ELSE table.earliest]
    <3>1. Undos' = Gone(Table', verifier'.n)
      BY <1>5, <2>2 DEF Undos, Pure!Deleted
    <3>2. Table' = Table
      BY <1>1 DEF Table
    <3>3. Pure!Deleted(Table, Len(headers) - 1) = Gone(Table, Len(headers) - 1)
      BY DEF Pure!Deleted
    <3> HIDE DEF Gone
    <3> QED BY <2>3, <3>1, <3>2, <3>3, Zenon
  <2>6. Store!CanUndo
    BY <1>1, <1>3, <2>1, <2>3 DEF Store!CanUndo, Table
  <2>7. Store!Undone
    BY <1>3, <2>4, <2>5 DEF Store!Undone, Store!Deleted, Pure!Deleted
  <2> QED BY <1>1, <1>2, <2>2, <2>6, <2>7 DEF Store!UndoLatestBlock
<1>6. pc' \in {"noundo", "u_header", "threw"}
  BY Zenon DEF UndoLatestBlock
<1>7. pc' # "threw"
  BY DEF IInv, FlagInv
<1> QED BY <1>4, <1>5, <1>6, <1>7

\* Truncating the headers file makes the shorter chain come true.
LEMMA UndoHeaderRefines ==
  ASSUME IInv, UndoHeader
  PROVE  UNCHANGED Store!vars
<1>1. /\ pc = "u_header" /\ pc' = "u_blkinfo" /\ dirty
      /\ headers' = SubSeq(headers, 1, verifier.n)
      /\ UNCHANGED <<undo, dirty, earliestUndoHeight, depth, verifier>>
  BY PhaseFacts DEF UndoHeader, UndoPcs
<1>2. Phase = "busy" /\ Phase' = "busy"
  BY <1>1 DEF Phase
<1>3. Chain' = Chain
  BY <1>1, <1>2 DEF Chain
<1>4. Undos' = Undos
  BY <1>1, <1>2 DEF Undos, Table, Pure!Deleted
<1> QED BY <1>1, <1>2, <1>3, <1>4, SameStore

\* The writes of undoLatestBlock to the other tables do not show in ChainStore.
LEMMA UndoWritesRefine ==
  ASSUME IInv, IInv', UndoBlkInfo \/ UndoShist \/ UndoUtxoSet \/ UndoShunspent
  PROVE  UNCHANGED Store!vars
<1> DEFINE P == {"u_blkinfo", "u_shist", "u_utxoset", "u_shunspent", "u_undo"}
<1>1. /\ pc \in P /\ pc' \in P
      /\ UNCHANGED <<headers, undo, dirty, earliestUndoHeight, depth, verifier>>
  <2>1. pc' # "threw"
    BY DEF IInv, FlagInv
  <2>2. pc \in P /\ pc' \in P
    BY <2>1, Zenon DEF UndoBlkInfo, UndoShist, UndoUtxoSet, UndoShunspent
  <2>3. UNCHANGED <<headers, undo, dirty, earliestUndoHeight, depth, verifier>>
    BY Zenon DEF UndoBlkInfo, UndoShist, UndoUtxoSet, UndoShunspent
  <2> QED BY <2>2, <2>3
<1>2. dirty /\ dirty'
  BY <1>1, PhaseFacts DEF UndoPcs
<1>3. Phase = "busy" /\ Phase' = "busy"
  BY <1>1, <1>2 DEF Phase
<1>4. Chain' = Chain
  BY <1>1, <1>3 DEF Chain
<1>5. Undos' = Undos
  BY <1>1, <1>3 DEF Undos, Table, Pure!Deleted
<1> QED BY <1>1, <1>3, <1>4, <1>5, SameStore

\* Deleting the undo record makes ChainStore's Deleted come true.
LEMMA DeleteUndoRefines ==
  ASSUME IInv, DeleteUndo \/ TruncateTxNums
  PROVE  UNCHANGED Store!vars
<1>1. CASE DeleteUndo
  <2>1. /\ pc = "u_undo" /\ pc' = "u_txnums" /\ dirty /\ verifier.n = Len(headers)
        /\ UNCHANGED <<headers, dirty, depth, verifier>>
    BY <1>1, PhaseFacts DEF DeleteUndo, UndoPcs, BaseLen
  <2>2. Phase = "busy" /\ Phase' = "busy"
    BY <2>1 DEF Phase
  <2>3. Chain' = Chain
    BY <2>1, <2>2 DEF Chain
  <2>4. Table' = Pure!Deleted(Table, Len(headers))
    BY <1>1 DEF DeleteUndo, Table, Pure!Deleted, Restricted
  <2>5. Undos' = Undos
    BY <2>1, <2>2, <2>4 DEF Undos
  <2> QED BY <2>1, <2>2, <2>3, <2>5, SameStore
<1>2. CASE TruncateTxNums
  <2>1. /\ pc = "u_txnums" /\ pc' = "utxoct" /\ dirty
        /\ UNCHANGED <<headers, undo, dirty, earliestUndoHeight, depth>>
    BY <1>2, PhaseFacts DEF TruncateTxNums, UndoPcs
  <2>2. Phase = "busy" /\ Phase' = "busy"
    BY <2>1 DEF Phase
  <2>3. Chain' = Chain
    BY <2>1, <2>2 DEF Chain
  <2>4. Undos' = Undos
    BY <2>1, <2>2 DEF Undos, Table
  <2> QED BY <2>1, <2>2, <2>3, <2>4, SameStore
<1> QED BY <1>1, <1>2

\* A kill loses the database if the flag is set, and nothing but memory otherwise.
LEMMA KillRefines ==
  ASSUME IInv, Kill
  PROVE  Store!Stop
<1>1. /\ pc \notin {"down", "refused", "corrupt"} /\ pc' = "down"
      /\ earliestUndoHeight' = InvalidUndoHeight
      /\ UNCHANGED <<headers, undo, dirty, depth>>
  BY DEF Kill, disk
<1>2. CASE dirty
  <2>1. Phase = "busy" /\ Phase' = "lost"
    BY <1>1, <1>2 DEF Phase
  <2>2. Chain' = <<>> /\ Undos' = Store!NoUndos
    BY <2>1 DEF Chain, Undos, Pure!NoUndos, Store!NoUndos
  <2> QED BY <1>1, <2>1, <2>2 DEF Store!Stop
<1>3. CASE ~ dirty
  <2>1. pc \in RestPcs
    BY <1>1, <1>3, PhaseFacts
  <2>2. Phase \in {"starting", "idle"} /\ Phase' = "down"
    BY <1>1, <1>3 DEF Phase
  <2>3. Chain = headers /\ Chain' = headers
    BY <1>1, <2>1, <2>2 DEF Chain, RestPcs
  <2>4. Undos = Table /\ Undos' = [Table EXCEPT !.earliest = InvalidUndoHeight]
    BY <1>1, <2>1, <2>2 DEF Undos, Table, RestPcs
  <2> QED BY <1>1, <2>2, <2>3, <2>4 DEF Store!Stop
<1> QED BY <1>2, <1>3, PhaseFacts

\* startup refuses a lost database, and accepts every other.
LEMMA StartupRefines ==
  ASSUME IInv, IInv', NEW d \in Depths, Startup(d)
  PROVE  Store!Start(d)
<1>1. /\ pc = "down" /\ depth' = d
      /\ UNCHANGED <<headers, undo, dirty, earliestUndoHeight>>
  BY DEF Startup, disk
<1>2. CASE dirty
  <2>1. pc' = "refused"
    BY <1>2 DEF Startup
  <2>2. Phase = "lost" /\ Phase' = "lost"
    BY <1>1, <1>2, <2>1 DEF Phase
  <2>3. Chain' = Chain /\ Undos' = Undos
    BY <2>2 DEF Chain, Undos, Pure!NoUndos
  <2> QED BY <1>1, <2>2, <2>3 DEF Store!Start
<1>3. CASE ~ dirty
  <2>1. pc' \in {"loadundo", "rebuild", "corrupt"}
    BY <1>3 DEF Startup
  <2>2. pc' # "corrupt"
    BY DEF IInv, FlagInv
  <2>3. Phase = "down" /\ Phase' = "starting"
    BY <1>1, <1>3, <2>1, <2>2 DEF Phase
  <2>4. Chain' = Chain /\ Undos' = Undos
    BY <1>1, <2>1, <2>2, <2>3 DEF Chain, Undos, Table
  <2> QED BY <1>1, <2>3, <2>4 DEF Store!Start
<1> QED BY <1>2, <1>3, PhaseFacts

\* loadCheckEarliestUndo, the last of startup, is ChainStore's Load.
LEMMA LoadRefines ==
  ASSUME IInv, LoadEarliestUndo
  PROVE  Store!Load
<1>1. pc = "loadundo" /\ pc' = "idle" /\ ~ dirty /\ UNCHANGED <<headers, dirty, depth>>
  BY PhaseFacts DEF LoadEarliestUndo, RestPcs
<1>2. Phase = "starting" /\ Phase' = "idle"
  BY <1>1 DEF Phase
<1>3. Chain = headers /\ Chain' = headers
  BY <1>1, <1>2 DEF Chain
<1>4. Undos = Table /\ Undos' = Table'
  BY <1>1, <1>2 DEF Undos
<1>5. Table' = Store!Loaded(DOMAIN undo, depth)
  <2> DEFINE kept == Newest(AboveLastHole(DOMAIN undo), depth)
  <2>1. undo' = Restricted(undo, kept) /\ earliestUndoHeight' = SmallestOr(kept, InvalidUndoHeight)
    BY Zenon DEF LoadEarliestUndo
  <2>2. DOMAIN undo' = kept
    BY <2>1, Zenon DEF Restricted
  <2>3. Store!Newest(Store!AboveLastHole(DOMAIN undo), depth) = kept
    <3>1. Store!AboveLastHole(DOMAIN undo) = AboveLastHole(DOMAIN undo)
      BY DEF AboveLastHole, Store!AboveLastHole
    <3>2. \A S : Store!Cardinality(S) = Cardinality(S)
      BY DEF Cardinality, Store!Cardinality, IsFiniteSet, Store!IsFiniteSet
    <3> QED BY <3>1, <3>2 DEF Newest, Store!Newest
  <2> DEFINE N == Store!Newest(Store!AboveLastHole(DOMAIN undo), depth)
  <2>4. Store!Loaded(DOMAIN undo, depth) = [at |-> N, earliest |-> SmallestOr(N, InvalidUndoHeight)]
    BY DEF Store!Loaded, SmallestOr
  <2> HIDE DEF kept, N
  <2>5. N = kept
    BY <2>3 DEF N, kept
  <2> QED BY <2>1, <2>2, <2>4, <2>5, Zenon DEF Table
<1>6. Undos.at = DOMAIN undo
  BY <1>4 DEF Table
<1> QED BY <1>1, <1>2, <1>3, <1>4, <1>5, <1>6 DEF Store!Load

\* Every step of Storage is a step of ChainStore or does not show in it.
LEMMA NextRefines ==
  ASSUME IInv, IInv', [Next]_vars
  PROVE  [Store!Next]_(Store!vars)
<1>1. CASE \E b \in Block, save \in BOOLEAN : AddBlock(b, save)
  BY <1>1, AddBlockRefines, Zenon DEF Store!Next
<1>2. CASE AppendTxNums \/ WriteUtxoSet \/ WriteShunspent \/ MergeShist \/ AppendBlkInfo
  BY <1>2, AddWritesRefine, Zenon
<1>3. CASE SaveUndo \/ ExpireUndo \/ AppendHeader
  BY <1>3, SaveUndoRefines, ExpireUndoRefines, AppendHeaderRefines, Zenon
<1>4. CASE ClearDirty
  BY <1>4, ClearDirtyRefines, Zenon DEF Store!Next
<1>5. CASE SaveUtxoCt \/ Return \/ WorkerBatch \/ WorkerSave \/ RebuildDelete \/ Reindex
           \/ UNCHANGED vars
  BY <1>5, OtherStepsRefine, Zenon
<1>6. CASE UndoLatestBlock
  BY <1>6, UndoLatestBlockRefines, Zenon DEF Store!Next
<1>7. CASE UndoHeader \/ UndoBlkInfo \/ UndoShist \/ UndoUtxoSet \/ UndoShunspent
           \/ DeleteUndo \/ TruncateTxNums
  BY <1>7, UndoHeaderRefines, UndoWritesRefine, DeleteUndoRefines, Zenon
<1>8. CASE Kill
  BY <1>8, KillRefines, Zenon DEF Store!Next
<1>9. CASE \E d \in Depths : Startup(d)
  BY <1>9, StartupRefines, Zenon DEF Store!Next
<1>10. CASE LoadEarliestUndo
  BY <1>10, LoadRefines, Zenon DEF Store!Next
<1> QED BY <1>1, <1>2, <1>3, <1>4, <1>5, <1>6, <1>7, <1>8, <1>9, <1>10, Zenon DEF Next

\* For every block tree and whatever is killed and whenever: the some twenty writes of
\* addBlock and undoLatestBlock, the dirty flag and the checks of startup implement the
\* atomic operations of ChainStore, the interface the Controller is modelled against.
THEOREM Refinement == Spec => RefinesChainStore
BY InitRefines, NextRefines, Invariance, PTL DEF Spec, RefinesChainStore, Store!Spec
=============================================================================
