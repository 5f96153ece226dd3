--------------------------- MODULE MCDiscoveryRun ---------------------------
EXTENDS DiscoveryRun

CONSTANTS w1, w2, k1, k2, a, b, c, d, e

OneFeed == [k \in Keyword |-> <<a, b, c, d, e>>]
ThreeArticles == [k \in Keyword |-> <<a, b, c>>]
SharedFeeds == [k \in Keyword |-> IF k = k1 THEN <<a, b, c>> ELSE <<b, c>>]
=============================================================================
