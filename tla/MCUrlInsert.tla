---------------------------- MODULE MCUrlInsert -----------------------------
EXTENDS UrlInsert

CONSTANTS w1, w2, r1, r2, p1, p2, id, lang, utm, one, euckr, mark

MCLower == [h \in Host |-> IF h = "SITE" THEN "site" ELSE h]
MCDecoded == [v \in Value |-> IF v = euckr THEN mark ELSE v]

At(host, path, query) ==
  [scheme |-> "https", host |-> host, port |-> "", path |-> path,
   params |-> NoParams, slashed |-> FALSE, query |-> query, fragment |-> FALSE]

Is(n, v) == [name |-> n, value |-> v]

\* shared is one article, as a search lists it and as a campaign does.
first == At("site", p1, <<>>)
listed == At("site", p2, <<Is(id, one), Is(lang, euckr)>>)
shared == [At("SITE", p2, <<Is(lang, euckr), Is(utm, one), Is(id, one)>>)
             EXCEPT !.scheme = "http", !.port = ":80", !.slashed = TRUE,
                    !.fragment = TRUE]
other == At("elsewhere", p1, <<>>)
broken == At("[bad", p1, <<>>)

\* Overlapping pages in different orders, one with a repeated article and one
\* with an address that does not parse.
MCPages == {<<first, listed>>, <<shared, first, listed>>, <<other, first>>,
            <<other>>, <<other, broken>>}
MCRaw == UNION {ToSet(p) : p \in MCPages}
=============================================================================
