---------------------------- MODULE MCManualRun -----------------------------
EXTENDS ManualRun

CONSTANTS w1, k1, s1, a, b, c, d, e

OneFeed == [k \in Keyword |-> <<a, b, c, d, e>>]

\* The instance is one the theorems of ManualRunProofs speak of.
ASSUME InstanceIsCalm ==
  /\ CalmFeeds /\ Prompt /\ ReadsAll
  /\ HandlerWorks /\ RescheduleIsHeard /\ ErrorRowIsWritten
=============================================================================
