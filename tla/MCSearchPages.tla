--------------------------- MODULE MCSearchPages ---------------------------
EXTENDS SearchPages

CONSTANTS k1, k2, a1, b1, c1, p1, q1, r1, d1, f1, x1, old, naive

\* d1 is a redirect of Daum's that leads to c1.
MCFinal == [l \in Link |-> IF l = d1 THEN c1 ELSE l]
MCKind == [l \in Link |-> CASE l \in {p1, q1, r1} -> "press"
                            [] l = d1 -> "redirect"
                            [] l = f1 -> "front"
                            [] l = x1 -> "own"
                            [] OTHER -> "hosted"]
MCDate == [l \in Link |-> CASE l = old -> "old"
                            [] l = naive -> "naive"
                            [] l = b1 -> "undated"
                            [] OTHER -> "fresh"]

\* Full and short pages, more than MaxPages pages, repeats, foreign links, old
\* and oddly dated cards; the second keyword may share articles with the first.
MCListings ==
  [Keyword -> {<<>>, <<a1, b1, c1>>, <<p1, q1, r1>>, <<a1, b1, c1, d1, a1, x1, b1>>,
               <<x1, x1, a1>>, <<p1, f1, p1, q1>>, <<a1, old, b1>>, <<a1, naive>>,
               <<a1, b1, b1, a1, c1>>}]
=============================================================================
