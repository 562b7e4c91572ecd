------------------------- MODULE PublicationLedger -------------------------
(***************************************************************************)
(* What the promotion boundary promises to whoever reads the exported      *)
(* memory, with no queue, history, outbox or exporter: at any time at most *)
(* one revision of an artifact is granted; only the granted revision is    *)
(* ever recorded as published; when the grant changes, what was published  *)
(* under it is recalled in the same step; and a recalled revision never    *)
(* comes back. ReviewStore implements this (its Ledger instance).          *)
(***************************************************************************)
EXTENDS Naturals

CONSTANTS Artifact, Revision

VARIABLES
  granted,    \* the revision of each artifact that may be published, 0: none
  published,  \* pairs <<artifact, revision>> recorded as published
  recalled,   \* pairs that have to be removed
  removed     \* pairs recorded as removed

ledgerVars == <<granted, published, recalled, removed>>

Init ==
  /\ granted \in [Artifact -> Revision \cup {0}]
  /\ published = {} /\ recalled = {} /\ removed = {}

\* The grant of artifact a changes to a revision that was never published, or to
\* none. What it replaces is recalled, even if it was only about to be published.
Review(a, g) ==
  /\ \A r \in Revision : <<a, r>> \in published \cup recalled \cup removed => g = 0 \/ r < g
  /\ granted' = [granted EXCEPT ![a] = g]
  /\ \E S \in SUBSET {<<a, granted[a]>>} :
       /\ \A r \in Revision : <<a, r>> \in published => <<a, r>> \in S
       /\ published' = published \ S
       /\ recalled' = recalled \cup S
  /\ UNCHANGED removed

Publish(a) ==
  /\ granted[a] # 0
  /\ <<a, granted[a]>> \notin recalled \cup removed
  /\ published' = published \cup {<<a, granted[a]>>}
  /\ UNCHANGED <<granted, recalled, removed>>

Remove(a, r) ==
  /\ <<a, r>> \in recalled
  /\ recalled' = recalled \ {<<a, r>>}
  /\ removed' = removed \cup {<<a, r>>}
  /\ UNCHANGED <<granted, published>>

Next ==
  \E a \in Artifact :
    \/ \E g \in Revision \cup {0} : Review(a, g)
    \/ Publish(a)
    \/ \E r \in Revision : Remove(a, r)

Spec == Init /\ [][Next]_ledgerVars
============================================================================
