----------------------------- MODULE ChainStore -----------------------------
(***************************************************************************)
(* What Storage promises the Controller: a chain of blocks that grows by   *)
(* addBlock and shrinks by undoLatestBlock, one block at a time, with the  *)
(* heights that can be undone.  An operation happens at once; a process    *)
(* killed before it has returned loses the database, which startup then    *)
(* refuses ("the database has been corrupted"), and one killed at any      *)
(* other time loses nothing.  Module Storage implements this specification *)
(* by some twenty writes per block, and module Controller uses it.         *)
(***************************************************************************)
EXTENDS Integers, Sequences, FiniteSets

CONSTANTS
  Block, NoBlock,
  Prev,               \* [Block -> Block \cup {NoBlock}]: hashPrevBlock
  Depths,             \* the values max_reorg may be configured to
  InvalidUndoHeight   \* above every height

VARIABLES
  db,                 \* the chain, from the genesis block
  undos,              \* [at, earliest]: the heights that have undo info, and
                      \* earliestUndoHeight
  depth,              \* configuredUndoDepth()
  phase               \* "down", "starting", "idle", "busy" or "lost"

vars == <<db, undos, depth, phase>>

Tip == IF db = <<>> THEN NoBlock ELSE db[Len(db)]

NoUndos == [at |-> {}, earliest |-> InvalidUndoHeight]

-----------------------------------------------------------------------------
(* The undo records.                                                       *)

\* addBlock saves the record of height h if it is asked to ...
Saved(u, h, save) ==
  IF save THEN [at |-> u.at \cup {h}, earliest |-> IF h < u.earliest THEN h ELSE u.earliest]
          ELSE u

\* ... and then expires the record of height x, saved or not.
Expired(u, x) ==
  IF x >= 0 /\ x >= u.earliest THEN [at |-> u.at \ {x}, earliest |-> x + 1] ELSE u

\* undoLatestBlock deletes the record of the height it undoes.
Deleted(u, h) ==
  [at |-> u.at \ {h}, earliest |-> IF u.earliest >= h THEN InvalidUndoHeight ELSE u.earliest]

\* loadCheckEarliestUndo keeps the records above the last hole, and of these the
\* newest d.
AboveLastHole(S) == {h \in S : \A m \in S : \A k \in h..m : k \in S}

Newest(S, d) == {h \in S : Cardinality({k \in S : k > h}) < d}

Loaded(S, d) ==
  LET kept == Newest(AboveLastHole(S), d)
  IN [at |-> kept, earliest |-> IF kept = {} THEN InvalidUndoHeight
                                ELSE CHOOSE h \in kept : \A k \in kept : h <= k]

-----------------------------------------------------------------------------
(* The operations, apart from the phase they are made in.                  *)

Added(b, save) ==
  /\ db' = Append(db, b)
  /\ undos' = Expired(Saved(undos, Len(db), save), Len(db) - depth)

CanUndo == Len(db) > 1 /\ Len(db) - 1 \in undos.at

Undone ==
  /\ db' = SubSeq(db, 1, Len(db) - 1)
  /\ undos' = Deleted(undos, Len(db) - 1)

-----------------------------------------------------------------------------
Init ==
  /\ db = <<>> /\ undos = NoUndos
  /\ depth \in Depths /\ phase = "down"

AddBlock(b, save) ==
  /\ phase = "idle" /\ Prev[b] = Tip
  /\ Added(b, save)
  /\ phase' = "busy" /\ UNCHANGED depth

UndoLatestBlock ==
  /\ phase = "idle" /\ CanUndo
  /\ Undone
  /\ phase' = "busy" /\ UNCHANGED depth

Finish ==
  /\ phase = "busy" /\ phase' = "idle"
  /\ UNCHANGED <<db, undos, depth>>

\* A kill.  earliestUndoHeight is in memory only.
Stop ==
  /\ \/ phase \in {"starting", "idle"} /\ phase' = "down" /\ UNCHANGED db
        /\ undos' = [undos EXCEPT !.earliest = InvalidUndoHeight]
     \/ phase = "busy" /\ phase' = "lost" /\ db' = <<>> /\ undos' = NoUndos
  /\ UNCHANGED depth

\* startup, with max_reorg set to d; a lost database is refused.
Start(d) ==
  /\ phase \in {"down", "lost"}
  /\ phase' = IF phase = "down" THEN "starting" ELSE "lost"
  /\ depth' = d
  /\ UNCHANGED <<db, undos>>

Load ==
  /\ phase = "starting" /\ phase' = "idle"
  /\ undos' = Loaded(undos.at, depth)
  /\ UNCHANGED <<db, depth>>

Next ==
  \/ \E b \in Block, save \in BOOLEAN : AddBlock(b, save)
  \/ UndoLatestBlock \/ Finish \/ Stop
  \/ \E d \in Depths : Start(d)
  \/ Load

Spec == Init /\ [][Next]_vars
=============================================================================
