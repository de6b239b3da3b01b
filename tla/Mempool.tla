------------------------------ MODULE Mempool ------------------------------
(***************************************************************************)
(* The data structure of Mempool.h and Mempool.cpp: the transactions that  *)
(* bitcoind has not put into a block, each with the outputs it spends and  *)
(* creates per script hash, and per script hash the transactions that      *)
(* touch it.  addNewTxs, dropTxs and confirmedInBlock are operators from a *)
(* mempool to a mempool; SynchMempool.tla runs them.                       *)
(*                                                                         *)
(* Transactions are numbers, in the order of their hashes.  An output is a *)
(* pair <<transaction, index>>.  Amounts, fees, sizes and the double-spend *)
(* proofs are left out.                                                    *)
(***************************************************************************)
EXTENDS Naturals, Sequences, FiniteSets, FiniteSetsExt, SequencesExt

CONSTANTS
    Txs,       \* the transactions there are, positive numbers
    Vin,       \* Vin[t]: the outputs t spends, a sequence
    Vout,      \* Vout[t]: the script hash of each output, a sequence
    HashX,     \* the script hashes
    OpReturn   \* what Vout[t] has for an output that cannot be spent

ASSUME MempoolAssumption ==
    /\ Txs \subseteq Nat \ {0}
    /\ OpReturn \notin HashX
    /\ \A t \in Txs : Vout[t] \in Seq(HashX \cup {OpReturn})

TXO == {<<t, n>> : t \in DOMAIN Vout, n \in 1 .. 3}

HashXOf(txo) == Vout[txo[1]][txo[2]]

\* Mempool::clear leaves this; it is also the state after construction.
Clear == [txs |-> <<>>, hashXTxs |-> <<>>]

EmptyIO == [confirmedSpends |-> {}, unconfirmedSpends |-> {}, utxo |-> {}]

\* f with f[x] changed to Upd(f[x]), where a map of C++ makes the entry first.
Upsert(f, x, default, Upd(_)) ==
    [y \in DOMAIN f \cup {x} |->
        IF y # x THEN f[y] ELSE Upd(IF x \in DOMAIN f THEN f[x] ELSE default)]

\* hashXTxs[sh].push_back(t)
Push(m, sh, t) ==
    [m EXCEPT !.hashXTxs = Upsert(@, sh, <<>>, LAMBDA vec : Append(vec, t))]

\* m with the IOInfo of t for script hash sh changed by Upd
WithIO(m, t, sh, Upd(_)) ==
    [m EXCEPT !.txs[t].hashXs = Upsert(@, sh, EmptyIO, Upd)]

(***************************************************************************)
(* Mempool::TxRefOrdering: first the transactions whose parents are all    *)
(* confirmed, each kind in the order of the hashes.                        *)
(***************************************************************************)
Before(m, t, u) ==
    LET nParent(x) == IF m.txs[x].hasUnconfirmedParentTx THEN 1 ELSE 0
    IN  \/ nParent(t) < nParent(u)
        \/ nParent(t) = nParent(u) /\ t < u

Ordered(m, S) == SetToSortSeq(S, LAMBDA t, u : Before(m, t, u))

(***************************************************************************)
(* addNewTxs, first loop: the outputs of t, and t itself, go in.           *)
(***************************************************************************)
AddOutputs(st, t) ==
    LET blank == [hasUnconfirmedParentTx |-> FALSE, hashXs |-> <<>>]
        Out(s, n) ==
            LET sh == Vout[t][n]
                AddUtxo(io) == [io EXCEPT !.utxo = @ \cup {n}]
            IN  IF sh = OpReturn THEN s
                ELSE [s EXCEPT !.m = Push(WithIO(@, t, sh, AddUtxo), sh, t),
                               !.affected = @ \cup {sh}]
    IN  FoldLeft(Out,
                 [st EXCEPT !.m.txs = Upsert(@, t, blank, LAMBDA x : blank)],
                 [n \in 1 .. Len(Vout[t]) |-> n])

\* A mutant for Throw: the entry for the script hash is made first.
ThrowAfterEntry(st, t, sh) ==
    [st EXCEPT !.thrown = TRUE, !.m = WithIO(@, t, sh, LAMBDA io : io)]

\* The exception for an input of t that is in neither place, at script hash
\* sh: nothing done so far is taken back.
Throw(st, t, sh) == [st EXCEPT !.thrown = TRUE]

(***************************************************************************)
(* addNewTxs, second loop, one input of t.  It spends an output of a       *)
(* transaction of the mempool, or one that the caller found in the         *)
(* database (cache); otherwise addNewTxs throws and leaves what it did.    *)
(***************************************************************************)
AddInput(st, t, txo, cache) ==
    LET p == txo[1]
        sh == HashXOf(txo)
        Spent(io) == [io EXCEPT !.utxo = @ \ {txo[2]}]
        Unconfirmed(io) ==
            [io EXCEPT !.unconfirmedSpends = @ \cup {txo}]
        Confirmed(io) == [io EXCEPT !.confirmedSpends = @ \cup {txo}]
        OfMempool(m) ==
            LET flagged == [m EXCEPT !.txs[t].hasUnconfirmedParentTx = TRUE]
            IN  WithIO(WithIO(flagged, t, sh, Unconfirmed), p, sh, Spent)
        OfDatabase(m) == WithIO(m, t, sh, Confirmed)
    IN  IF st.thrown THEN st
        ELSE IF p \notin DOMAIN st.m.txs /\ txo \notin cache
        THEN Throw(st, t, sh)
        ELSE [st EXCEPT !.m = Push(IF p \in DOMAIN @.txs THEN OfMempool(@)
                                                         ELSE OfDatabase(@),
                                   sh, t),
                        !.affected = @ \cup {sh}]

AddInputs(st, t, cache) ==
    FoldLeft(LAMBDA s, txo : AddInput(s, t, txo, cache), st, Vin[t])

(***************************************************************************)
(* addNewTxs, end: the vectors of the script hashes in the caller's        *)
(* cumulative set are sorted and freed of duplicates.                      *)
(***************************************************************************)
SortAndUniqueify(m, affected) ==
    [m EXCEPT !.hashXTxs =
        [sh \in DOMAIN @ |-> IF sh \in affected THEN Ordered(m, ToSet(@[sh]))
                                                ELSE @[sh]]]

\* Mempool::addNewTxs; order is how the unordered map of new transactions
\* happens to be iterated, affected the caller's scriptHashesAffected.
AddNewTxs(m, order, cache, affected) ==
    LET start == [m |-> m, affected |-> affected, thrown |-> FALSE]
        outs  == FoldLeft(AddOutputs, start, order)
        ins   == FoldLeft(LAMBDA s, t : AddInputs(s, t, cache), outs, order)
    IN  IF ins.thrown THEN ins
        ELSE [ins EXCEPT !.m = SortAndUniqueify(@, ins.affected)]

(***************************************************************************)
(* growTxHashSetToIncludeDescendants: transactions of the mempool whose    *)
(* recorded unconfirmed spends reach the set, transitively.                *)
(***************************************************************************)
SpendsUnconfirmed(m, t) ==
    UNION {m.txs[t].hashXs[sh].unconfirmedSpends :
              sh \in DOMAIN m.txs[t].hashXs}

Grow(m, txids) ==
    LET Children(S) ==
            {t \in DOMAIN m.txs : /\ m.txs[t].hasUnconfirmedParentTx
                                  /\ \E txo \in SpendsUnconfirmed(m, t) :
                                        txo[1] \in S}
        gen[i \in 0 .. Cardinality(Txs)] ==
            IF i = 0 THEN txids ELSE gen[i - 1] \cup Children(gen[i - 1])
    IN  gen[Cardinality(Txs)]

(***************************************************************************)
(* rmTxsInHashXTxs: the vectors of the affected script hashes lose the     *)
(* transactions of gone, those that become empty are erased, and those     *)
(* in needSort are sorted again.  A script hash without a vector is        *)
(* logged as an error (fixme).                                             *)
(***************************************************************************)
RmTxsInHashXTxs(st, gone, needSort) ==
    LET Rest(sh) == SelectSeq(st.m.hashXTxs[sh], LAMBDA t : t \notin gone)
        old == DOMAIN st.m.hashXTxs
        kept == {sh \in old : sh \in st.affected => Rest(sh) # <<>>}
        Vec(sh) == IF sh \notin st.affected THEN st.m.hashXTxs[sh]
                   ELSE IF sh \notin needSort THEN Rest(sh)
                   ELSE SortSeq(Rest(sh), LAMBDA t, u : Before(st.m, t, u))
    IN  [st EXCEPT !.m.hashXTxs = [sh \in kept |-> Vec(sh)],
                   !.fixme = @ \/ ~(st.affected \subseteq old)]

(***************************************************************************)
(* Mempool::dropTxs: the transactions of txids and their descendants leave *)
(* and the outputs they spent are credited to the parents that stay.       *)
(***************************************************************************)
DropTxs(m, txids) ==
    LET gone == Grow(m, txids)
        found == gone \cap DOMAIN m.txs
        stay == DOMAIN m.txs \ gone
        credits == {txo \in UNION {SpendsUnconfirmed(m, t) : t \in found} :
                       txo[1] \notin gone}
        Credited(p) ==
            [sh \in DOMAIN m.txs[p].hashXs |->
                [m.txs[p].hashXs[sh] EXCEPT !.utxo = @ \cup
                    {txo[2] : txo \in {c \in credits :
                                         c[1] = p /\ HashXOf(c) = sh}}]]
        dropped ==
            [m |-> [m EXCEPT !.txs = [p \in stay |->
                        [m.txs[p] EXCEPT !.hashXs = Credited(p)]]],
             affected |-> UNION {DOMAIN m.txs[t].hashXs : t \in found},
             fixme |-> \E txo \in credits : txo[1] \notin stay,
             gone |-> gone]
    IN  RmTxsInHashXTxs(dropped, gone, {})

\* A mutant for Recategorize: the flag is not looked at again.
RecategorizeKeepsFlag(tx, confirmed) ==
    LET Moved(io) == {txo \in io.unconfirmedSpends : txo[1] \in confirmed}
    IN  [tx EXCEPT !.hashXs =
            [sh \in DOMAIN @ |->
                [@[sh] EXCEPT !.unconfirmedSpends = @ \ Moved(tx.hashXs[sh]),
                              !.confirmedSpends =
                                    @ \cup Moved(tx.hashXs[sh])]]]

(***************************************************************************)
(* confirmedInBlock, a transaction that stays: its spends of outputs of  *)
(* the block's transactions become confirmed ones.                         *)
(***************************************************************************)
Recategorize(tx, confirmed) ==
    LET Moved(io) == {txo \in io.unconfirmedSpends : txo[1] \in confirmed}
        hashXs == [sh \in DOMAIN tx.hashXs |->
                     [tx.hashXs[sh] EXCEPT
                        !.unconfirmedSpends = @ \ Moved(tx.hashXs[sh]),
                        !.confirmedSpends = @ \cup Moved(tx.hashXs[sh])]]
    IN  [hashXs |-> hashXs,
         hasUnconfirmedParentTx |->
            /\ tx.hasUnconfirmedParentTx
            /\ \E sh \in DOMAIN hashXs : hashXs[sh].unconfirmedSpends # {}]

\* Mempool::confirmedInBlock
ConfirmedInBlock(m, confirmed) ==
    LET found == confirmed \cap DOMAIN m.txs
        stay == DOMAIN m.txs \ confirmed
        txs == [t \in stay |-> Recategorize(m.txs[t], confirmed)]
        freed == {t \in stay : /\ m.txs[t].hasUnconfirmedParentTx
                               /\ ~txs[t].hasUnconfirmedParentTx}
        HashXsOf(S) == UNION {DOMAIN m.txs[t].hashXs : t \in S}
    IN  RmTxsInHashXTxs([m |-> [m EXCEPT !.txs = txs],
                         affected |-> HashXsOf(found \cup freed),
                         fixme |-> FALSE],
                        confirmed, HashXsOf(freed))

-----------------------------------------------------------------------------

\* The script hashes transaction t touches.
Touches(t) == (ToSet(Vout[t]) \ {OpReturn}) \cup
              {HashXOf(txo) : txo \in ToSet(Vin[t])}

(***************************************************************************)
(* The reference: what a mempool that holds the transactions of S has      *)
(* recorded, in one definition and without its history.                    *)
(***************************************************************************)
IndexOf(S) ==
    LET spent == UNION {ToSet(Vin[t]) : t \in S}
        IO(t, sh) ==
            LET ins == {txo \in ToSet(Vin[t]) : HashXOf(txo) = sh}
            IN  [confirmedSpends |-> {txo \in ins : txo[1] \notin S},
                 unconfirmedSpends |-> {txo \in ins : txo[1] \in S},
                 utxo |-> {n \in DOMAIN Vout[t] : /\ Vout[t][n] = sh
                                                  /\ <<t, n>> \notin spent}]
        txs == [t \in S |->
                  [hasUnconfirmedParentTx |->
                      \E txo \in ToSet(Vin[t]) : txo[1] \in S,
                   hashXs |-> [sh \in Touches(t) |-> IO(t, sh)]]]
        m == [txs |-> txs, hashXTxs |-> <<>>]
    IN  [txs |-> txs,
         hashXTxs |-> [sh \in UNION {Touches(t) : t \in S} |->
                          Ordered(m, {t \in S : sh \in Touches(t)})]]

Indexed(m) == m = IndexOf(DOMAIN m.txs)

=============================================================================
