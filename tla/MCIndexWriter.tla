---------------------------- MODULE MCIndexWriter ----------------------------
EXTENDS IndexWriter, TLC

Good(e, i, m) == [export |-> e, at |-> i, meta |-> m, kind |-> "good"]
Bad(e, i, kind) == [export |-> e, at |-> i, meta |-> 1, kind |-> kind]

\* First mail, a move, an export that moves twice and leaves its place to another, two
\* exports that claim one place, in one batch and in two, and records that are refused at
\* each stage.
MCBatches ==
  {[cursor |-> "first", messages |-> <<Good(1, "a", 1), Good(2, "b", 1)>>],
   [cursor |-> "move", messages |-> <<Good(1, "c", 1)>>],
   [cursor |-> "twice", messages |-> <<Good(1, "b", 1), Good(1, "a", 2), Good(2, "b", 2)>>],
   [cursor |-> "clash", messages |-> <<Good(2, "a", 1)>>],
   [cursor |-> "refused",
    messages |-> <<Bad(1, "a", "rejected"), Bad(2, "b", "invalid"), Good(1, "c", 1)>>],
   [cursor |-> "contest", messages |-> <<Good(1, "c", 1), Good(2, "c", 1)>>],
   [cursor |-> "unstorable", messages |-> <<Good(2, "b", 3)>>]}

Symmetry == Permutations(Process)
==============================================================================
