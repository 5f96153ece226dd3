--------------------------- MODULE MCKeywordTurns ---------------------------
EXTENDS KeywordTurns

CONSTANTS w1, w2, k1, k2, k3

\* The second worker's filter leaves out the keyword of highest priority.
TwoScopes == [w \in Worker |-> IF w = w1 THEN Keyword ELSE {k2, k3}]
Ranked == [k \in Keyword |-> IF k = k1 THEN 2 ELSE IF k = k2 THEN 1 ELSE 0]
OneInterval == [k \in Keyword |-> 8]
=============================================================================
