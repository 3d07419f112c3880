------------------------------- MODULE NoteStore -------------------------------
(***************************************************************************)
(* The note store of one pool (src/notes.rs): the pool's commitment tree   *)
(* as the store has built it, and which of its leaves are notes the vault  *)
(* can spend.  A store is a value here; module Scanner keeps two of them   *)
(* and says who changes them when.                                         *)
(*                                                                         *)
(* The tree is the sequence of its leaves: two trees have one root exactly *)
(* if they have the same leaves in the same order.  A leaf is the name of  *)
(* the note it commits to, which also stands for the note's nullifier.     *)
(***************************************************************************)
EXTENDS Integers, SequencesExt

CONSTANT CHECKPOINT_DEPTH   \* the block starts a tree remembers

ASSUME CheckpointAssumption == CHECKPOINT_DEPTH \in Nat \ {0}

(***************************************************************************)
(* from_frontier (and empty_at, with no leaves): a store that begins where *)
(* the chain is at `height`, and holds nothing.                            *)
(***************************************************************************)
FromFrontier(leaves, height) ==
  [tree |-> leaves, checkpoints |-> << >>, held |-> {}, in_flight |-> {},
   spent |-> {}, synced_to |-> height]

(***************************************************************************)
(* begin_block: remember the tree as it is before the block; the oldest    *)
(* checkpoint is forgotten when there are too many.                        *)
(***************************************************************************)
BeginBlock(s) ==
  LET all == Append(s.checkpoints, Len(s.tree))
  IN [s EXCEPT !.checkpoints = IF Len(all) > CHECKPOINT_DEPTH THEN Tail(all) ELSE all]

(***************************************************************************)
(* append, and hold if the note is ours: held notes are positions.         *)
(***************************************************************************)
AppendNote(s, note, ours) ==
  [s EXCEPT !.tree = Append(@, note),
            !.held = IF ours THEN @ \cup {Len(s.tree) + 1} ELSE @]

FinishBlock(s, height) == [s EXCEPT !.synced_to = height]

\* Mutant of Rewind: notes of the block that is undone stay.
RewindKeepsNotes(s) ==
  IF s.checkpoints = << >> THEN s
  ELSE [s EXCEPT !.tree = SubSeq(@, 1, Last(s.checkpoints)),
                 !.checkpoints = Front(@)]

(***************************************************************************)
(* rewind: the tree of the last checkpoint, and no note above it.  What    *)
(* was spent, is in flight, or was held below and taken since is not       *)
(* brought back.                                                           *)
(***************************************************************************)
Rewind(s) ==
  IF s.checkpoints = << >> THEN s
  ELSE [s EXCEPT !.tree = SubSeq(@, 1, Last(s.checkpoints)),
                 !.checkpoints = Front(@),
                 !.held = {p \in @ : p <= Last(s.checkpoints)}]

Positions(s, which, note) == {p \in which : p \in DOMAIN s.tree /\ s.tree[p] = note}

Held(s) == {s.tree[p] : p \in s.held}
InFlight(s) == {s.tree[p] : p \in s.in_flight}

(***************************************************************************)
(* holds_nullifier: the note is, or was, one of ours.                      *)
(***************************************************************************)
HoldsNullifier(s, note) == note \in s.spent \cup Held(s) \cup InFlight(s)

\* Mutant of SpendNullifier: what was spent is not remembered.
SpendNullifierForgets(s, note) ==
  LET flying == Positions(s, s.in_flight, note)
      holding == Positions(s, s.held, note)
      First(ps) == CHOOSE p \in ps : \A o \in ps : p <= o
  IN CASE flying # {} -> [s EXCEPT !.in_flight = @ \ {First(flying)}]
       [] flying = {} /\ holding # {} -> [s EXCEPT !.held = @ \ {First(holding)}]
       [] OTHER -> s

(***************************************************************************)
(* spend_nullifier: the chain shows the note spent.  It leaves in_flight,  *)
(* or else held, and is remembered if it was in either.                    *)
(***************************************************************************)
SpendNullifier(s, note) ==
  LET flying == Positions(s, s.in_flight, note)
      holding == Positions(s, s.held, note)
      First(ps) == CHOOSE p \in ps : \A o \in ps : p <= o
  IN CASE flying # {} ->
            [s EXCEPT !.in_flight = @ \ {First(flying)}, !.spent = @ \cup {note}]
       [] flying = {} /\ holding # {} ->
            [s EXCEPT !.held = @ \ {First(holding)}, !.spent = @ \cup {note}]
       [] OTHER -> s

\* Mutant of Spend: the note stays held until the chain shows it spent.
SpendStaysHeld(s, position) ==
  [s EXCEPT !.in_flight = @ \cup {position}]

(***************************************************************************)
(* spend: a payout takes a held note, which is in flight from then on.     *)
(***************************************************************************)
Spend(s, position) ==
  [s EXCEPT !.held = @ \ {position}, !.in_flight = @ \cup {position}]
=============================================================================
