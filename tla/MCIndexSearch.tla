---------------------------- MODULE MCIndexSearch ----------------------------
EXTENDS IndexSearch

Mail(e, i, sent) == [export |-> e, at |-> i, meta |-> sent, kind |-> "good"]

\* Three messages, two sent at the same time; one is redated, moved or comes late; a
\* batch has none.
MCBatches ==
  {[cursor |-> "first", messages |-> <<Mail(1, "a", 2), Mail(2, "b", 2)>>],
   [cursor |-> "redated", messages |-> <<Mail(1, "a", 1)>>],
   [cursor |-> "moved", messages |-> <<Mail(2, "d", 2)>>],
   [cursor |-> "more", messages |-> <<Mail(3, "c", 2)>>],
   [cursor |-> "out of range", messages |-> <<Mail(3, "c", 3)>>],
   [cursor |-> "nothing new", messages |-> <<>>]}
==============================================================================
