--------------------------- MODULE MCKeywordClaim ---------------------------
EXTENDS KeywordClaim, TLC

CONSTANTS w1, w2, k1, k2

AllScope == [w \in Worker |-> Keyword]
MCInterval == [k \in Keyword |-> 3]
\* Equal priorities leave the order of the candidates to next_discover_at.
MCPriority == [k \in Keyword |-> 0]

SymWorkers == Permutations(Worker)
=============================================================================
