------------------------ MODULE UrlNormalizerProofs -------------------------
(***************************************************************************)
(* Which spellings of a URL meet in one url_hash, for all hosts, paths and *)
(* queries of any length.                                                  *)
(***************************************************************************)
EXTENDS UrlNormalizer, FunctionTheorems, FiniteSetTheorems, TLAPS

\* Where f has the value x.
At(f, x) == {i \in DOMAIN f : f[i] = x}

\* Two lists of arguments that are rearrangements of each other have one tally.
LEMMA RearrangedTally ==
  ASSUME NEW f, NEW g,
         IsFiniteSet(DOMAIN f), IsFiniteSet(DOMAIN g),
         NEW m \in Bijection(DOMAIN f, DOMAIN g),
         \A i \in DOMAIN f : f[i] = g[m[i]]
  PROVE  Tally(f) = Tally(g)
<1>1. /\ m \in [DOMAIN f -> DOMAIN g]
      /\ \A i, j \in DOMAIN f : m[i] = m[j] => i = j
      /\ \A k \in DOMAIN g : \E i \in DOMAIN f : m[i] = k
  BY Fun_BijectionProperties
<1>2. {f[i] : i \in DOMAIN f} = {g[i] : i \in DOMAIN g}
  BY <1>1
<1>3. ASSUME NEW x
      PROVE  Cardinality(At(f, x)) = Cardinality(At(g, x))
  <2> DEFINE n == [i \in At(f, x) |-> m[i]]
  <2>1. n \in [At(f, x) -> At(g, x)]
    BY <1>1 DEF At
  <2>2. \A i, j \in At(f, x) : n[i] = n[j] => i = j
    BY <1>1 DEF At
  <2>3. \A k \in At(g, x) : \E i \in At(f, x) : n[i] = k
    BY <1>1 DEF At
  <2>4. ExistsBijection(At(f, x), At(g, x))
    <3> HIDE DEF n
    <3> QED BY <2>1, <2>2, <2>3, Fun_IsBij DEF ExistsBijection
  <2>5. IsFiniteSet(At(f, x))
    BY FS_Subset DEF At
  <2> QED BY <2>4, <2>5, FS_Bijection
<1> QED BY <1>2, <1>3 DEF Tally, At

\* Equal tallies come from rearrangements.
LEMMA TallyRearranged ==
  ASSUME NEW f, NEW g,
         IsFiniteSet(DOMAIN f), IsFiniteSet(DOMAIN g), Tally(f) = Tally(g)
  PROVE  \E m \in Bijection(DOMAIN f, DOMAIN g) :
           \A i \in DOMAIN f : f[i] = g[m[i]]
<1> DEFINE X == {f[i] : i \in DOMAIN f}
<1>1. X = {g[i] : i \in DOMAIN g}
  <2>1. DOMAIN Tally(f) = X
    BY DEF Tally
  <2>2. DOMAIN Tally(g) = {g[i] : i \in DOMAIN g}
    BY DEF Tally
  <2> QED BY <2>1, <2>2
<1>2. ASSUME NEW x \in X
      PROVE  Bijection(At(f, x), At(g, x)) # {}
  <2>1. Tally(f)[x] = Cardinality(At(f, x))
    BY DEF Tally, At
  <2>2. Tally(g)[x] = Cardinality(At(g, x))
    BY <1>1 DEF Tally, At
  <2>3. IsFiniteSet(At(f, x)) /\ IsFiniteSet(At(g, x))
    BY FS_Subset DEF At
  <2> QED BY <2>1, <2>2, <2>3, FS_SameCardinalityBij DEF ExistsBijection
<1> DEFINE n == [x \in X |-> CHOOSE b \in Bijection(At(f, x), At(g, x)) : TRUE]
           m == [i \in DOMAIN f |-> n[f[i]][i]]
<1>3. ASSUME NEW x \in X
      PROVE  n[x] \in Bijection(At(f, x), At(g, x))
  BY <1>2
<1>4. ASSUME NEW x \in X
      PROVE  /\ n[x] \in [At(f, x) -> At(g, x)]
             /\ \A i, j \in At(f, x) : n[x][i] = n[x][j] => i = j
             /\ \A k \in At(g, x) : \E i \in At(f, x) : n[x][i] = k
  <2> HIDE DEF n
  <2> QED BY <1>3, Fun_BijectionProperties
<1> HIDE DEF n
<1>5. ASSUME NEW i \in DOMAIN f
      PROVE  /\ f[i] \in X /\ i \in At(f, f[i])
             /\ m[i] = n[f[i]][i]
             /\ m[i] \in DOMAIN g /\ g[m[i]] = f[i]
  <2>1. f[i] \in X /\ i \in At(f, f[i]) /\ m[i] = n[f[i]][i]
    BY DEF At
  <2>2. n[f[i]][i] \in At(g, f[i])
    BY <2>1, <1>4
  <2> QED BY <2>1, <2>2 DEF At
<1> HIDE DEF X
<1>6. m \in [DOMAIN f -> DOMAIN g]
  <2>1. \A i \in DOMAIN f : n[f[i]][i] \in DOMAIN g
    BY <1>5
  <2> QED BY <2>1
<1>7. ASSUME NEW i \in DOMAIN f, NEW j \in DOMAIN f, m[i] = m[j]
      PROVE  i = j
  <2> HIDE DEF m
  <2>1. f[i] = f[j]
    BY <1>5, <1>7
  <2> QED BY <2>1, <1>4, <1>5, <1>7
<1>8. ASSUME NEW k \in DOMAIN g
      PROVE  \E i \in DOMAIN f : m[i] = k
  <2>1. g[k] \in X /\ k \in At(g, g[k])
    BY <1>1 DEF X, At
  <2>2. PICK i \in At(f, g[k]) : n[g[k]][i] = k
    BY <2>1, <1>4
  <2> QED BY <2>2 DEF At
<1>9. m \in Bijection(DOMAIN f, DOMAIN g)
  <2> HIDE DEF m
  <2> QED BY <1>6, <1>7, <1>8, Fun_IsBij
<1> QED BY <1>5, <1>9

\* Any choice among the arguments of a query is finite.
LEMMA FiniteQuery ==
  ASSUME NEW u \in Url, NEW S \in SUBSET DOMAIN u.query
  PROVE  IsFiniteSet(S)
<1>1. DOMAIN u.query = 1..Len(u.query) /\ Len(u.query) \in Nat
  BY DEF Url
<1>2. IsFiniteSet(1..Len(u.query))
  BY <1>1, FS_Interval
<1> QED BY <1>1, <1>2, FS_Subset

\* What the code drops from a query is what the design document wants dropped,
\* as long as its utm_ names are the five that the code knows.
LEMMA DroppedIsIgnored ==
  ASSUME NEW u, KnownUtm(u), NEW i \in DOMAIN u.query
  PROVE  Meant(u.query[i]) <=> u.query[i].name \notin Tracking
BY DEF KnownUtm, Meant

\* Without ";..." in its path and without a utm_ name that _STRIP_PARAMS lacks
\* an article has one hash, however it is spelt: no spelling of it gets a
\* second row.
THEOREM NeverSplit ==
  ASSUME NEW u \in Url, NEW v \in Url, SameArticle(u, v), u.params = NoParams,
         KnownUtm(u), KnownUtm(v)
  PROVE  Normalize(u) = Normalize(v)
<1>1. PICK m \in Bijection(MeantAt(u.query), MeantAt(v.query)) :
        \A i \in MeantAt(u.query) : u.query[i] = v.query[m[i]]
  BY DEF SameArticle
<1>2. /\ m \in [MeantAt(u.query) -> MeantAt(v.query)]
      /\ \A i, j \in MeantAt(u.query) : m[i] = m[j] => i = j
      /\ \A k \in MeantAt(v.query) : \E i \in MeantAt(u.query) : m[i] = k
  BY Fun_BijectionProperties
<1> DEFINE f == KeptArgs(u.query)
           g == KeptArgs(v.query)
           n == [i \in DOMAIN f |-> m[i]]
<1>3. /\ DOMAIN f = {j \in DOMAIN u.query : Keeps(u.query[j])}
      /\ DOMAIN g = {j \in DOMAIN v.query : Keeps(v.query[j])}
      /\ DOMAIN f \subseteq MeantAt(u.query)
      /\ DOMAIN g \subseteq MeantAt(v.query)
  BY DroppedIsIgnored DEF KeptArgs, Keeps, MeantAt
<1>4. \A i \in DOMAIN f : m[i] \in DOMAIN g /\ f[i] = g[m[i]]
  BY <1>1, <1>2, <1>3 DEF KeptArgs, MeantAt
<1>5. \A k \in DOMAIN g : \E i \in DOMAIN f : m[i] = k
  BY <1>1, <1>2, <1>3 DEF MeantAt
<1>6. Tally(f) = Tally(g)
  <2>1. IsFiniteSet(DOMAIN f) /\ IsFiniteSet(DOMAIN g)
    BY <1>3, FiniteQuery
  <2> HIDE DEF f, g
  <2>2. n \in [DOMAIN f -> DOMAIN g]
    BY <1>4
  <2>3. \A i, j \in DOMAIN f : n[i] = n[j] => i = j
    BY <1>2, <1>3
  <2>4. \A k \in DOMAIN g : \E i \in DOMAIN f : n[i] = k
    BY <1>5
  <2>5. \A i \in DOMAIN f : f[i] = g[n[i]]
    BY <1>4
  <2> HIDE DEF n
  <2>6. n \in Bijection(DOMAIN f, DOMAIN g)
    BY <2>2, <2>3, <2>4, Fun_IsBij
  <2> QED BY <2>1, <2>5, <2>6, RearrangedTally
<1>7. Netloc(u) = Netloc(v)
  BY DEF SameArticle, Netloc
<1>8. PathKept(u) = PathKept(v)
  BY DEF SameArticle, PathKept
<1> QED BY <1>6, <1>7, <1>8 DEF Normalize

\* Of plain URLs no two articles share a hash: none is lost for another.
THEOREM NeverMerged ==
  ASSUME NEW u \in Url, NEW v \in Url, Plain(u), Plain(v),
         KnownUtm(u), KnownUtm(v), Normalize(u) = Normalize(v)
  PROVE  SameArticle(u, v)
<1>1. /\ Netloc(u) = Netloc(v)
      /\ PathKept(u) = PathKept(v)
      /\ Tally(KeptArgs(u.query)) = Tally(KeptArgs(v.query))
  BY DEF Normalize
<1>2. ASSUME NEW x \in Url, Plain(x), KnownUtm(x)
      PROVE  /\ DOMAIN KeptArgs(x.query) = MeantAt(x.query)
             /\ \A i \in MeantAt(x.query) : KeptArgs(x.query)[i] = x.query[i]
  <2>1. \A i \in DOMAIN x.query : x.query[i] \in Arg
    BY DEF Url
  <2>2. {j \in DOMAIN x.query : Keeps(x.query[j])} = MeantAt(x.query)
    BY <1>2, DroppedIsIgnored DEF Plain, Keeps, MeantAt
  <2>3. \A i \in MeantAt(x.query) :
          x.query[i] = [name |-> x.query[i].name,
                        value |-> Decoded[x.query[i].value]]
    BY <1>2, <2>1 DEF Plain, MeantAt, Arg
  <2> QED BY <2>2, <2>3 DEF KeptArgs
<1>3. \E m \in Bijection(MeantAt(u.query), MeantAt(v.query)) :
        \A i \in MeantAt(u.query) : u.query[i] = v.query[m[i]]
  <2>1. IsFiniteSet(MeantAt(u.query)) /\ IsFiniteSet(MeantAt(v.query))
    BY FiniteQuery DEF MeantAt
  <2>2. \E m \in Bijection(MeantAt(u.query), MeantAt(v.query)) :
          \A i \in MeantAt(u.query) :
            KeptArgs(u.query)[i] = KeptArgs(v.query)[m[i]]
    BY <1>1, <1>2, <2>1, TallyRearranged
  <2> QED BY <1>2, <2>2, Fun_BijectionProperties
<1>4. Lower[u.host] = Lower[v.host]
  BY <1>1 DEF Netloc
<1>5. u.port = v.port \/ {u.port, v.port} \subseteq DefaultPort
  BY <1>1, UrlAssumption DEF Netloc
<1>6. u.path = v.path /\ u.params = v.params
  BY <1>1 DEF PathKept, Plain
<1> QED BY <1>3, <1>4, <1>5, <1>6 DEF SameArticle

-----------------------------------------------------------------------------
(* Where the code and the design document part *)

\* "?utm_id=7" is none of the five names of _STRIP_PARAMS, though design.md:246
\* wants every utm_* gone: the article gets a second hash, and a second row.
THEOREM UnlistedUtmSplits ==
  ASSUME NEW n \in Utm \ Tracking, NEW x \in Value \ {Blank},
         NEW u \in Url, u.query = <<>>
  PROVE  LET v == [u EXCEPT !.query = <<[name |-> n, value |-> x]>>]
         IN  SameArticle(u, v) /\ Normalize(u) # Normalize(v)
<1> DEFINE v == [u EXCEPT !.query = <<[name |-> n, value |-> x]>>]
<1>1. /\ v.host = u.host /\ v.port = u.port /\ v.path = u.path
      /\ v.params = u.params /\ v.query = <<[name |-> n, value |-> x]>>
  BY DEF Url
<1> HIDE DEF v
<1>2. DOMAIN u.query = {} /\ DOMAIN v.query = {1}
  BY <1>1
<1>3. MeantAt(u.query) = {} /\ MeantAt(v.query) = {}
  BY <1>1, <1>2 DEF MeantAt, Meant
<1>4. SameArticle(u, v)
  <2>1. [i \in {} |-> i] \in [{} -> {}]
    OBVIOUS
  <2>2. [i \in {} |-> i] \in Bijection({}, {})
    BY <2>1, Fun_IsBij
  <2> QED BY <1>1, <1>3, <2>2 DEF SameArticle
<1>5. DOMAIN KeptArgs(u.query) = {} /\ DOMAIN KeptArgs(v.query) = {1}
  BY <1>1, <1>2 DEF KeptArgs, Keeps
<1>6. /\ DOMAIN Tally(KeptArgs(u.query)) = {}
      /\ KeptArgs(v.query)[1] \in DOMAIN Tally(KeptArgs(v.query))
  BY <1>5 DEF Tally
<1>7. Normalize(u) # Normalize(v)
  BY <1>6 DEF Normalize
<1> QED BY <1>4, <1>7 DEF v

\* "/view?17" and "/view?18": parse_qsl takes both for names without a value and
\* drops them, so two articles get one hash, and the second never gets a row.
THEOREM BlankValuesMerge ==
  ASSUME NEW m \in Name \ (Tracking \cup Utm), NEW n \in Name \ (Tracking \cup Utm),
         m # n, NEW w \in Url
  PROVE  LET u == [w EXCEPT !.query = <<[name |-> m, value |-> Blank]>>]
             v == [w EXCEPT !.query = <<[name |-> n, value |-> Blank]>>]
         IN  ~SameArticle(u, v) /\ Normalize(u) = Normalize(v)
<1> DEFINE u == [w EXCEPT !.query = <<[name |-> m, value |-> Blank]>>]
           v == [w EXCEPT !.query = <<[name |-> n, value |-> Blank]>>]
<1>1. /\ u.query = <<[name |-> m, value |-> Blank]>>
      /\ v.query = <<[name |-> n, value |-> Blank]>>
      /\ u.host = v.host /\ u.port = v.port /\ u.path = v.path
      /\ u.params = v.params /\ u.slashed = v.slashed
  BY DEF Url
<1> HIDE DEF u, v
<1>2. DOMAIN u.query = {1} /\ DOMAIN v.query = {1}
  BY <1>1
<1>3. MeantAt(u.query) = {1} /\ MeantAt(v.query) = {1}
  BY <1>1, <1>2 DEF MeantAt, Meant
<1>4. ~SameArticle(u, v)
  <2>1. ASSUME NEW b \in Bijection({1}, {1}) PROVE u.query[1] # v.query[b[1]]
    <3>1. b[1] = 1
      BY Fun_BijectionProperties
    <3> QED BY <1>1, <3>1
  <2> QED BY <1>3, <2>1 DEF SameArticle
<1>5. DOMAIN KeptArgs(u.query) = {} /\ DOMAIN KeptArgs(v.query) = {}
  BY <1>1, <1>2 DEF KeptArgs, Keeps
<1>6. KeptArgs(u.query) = KeptArgs(v.query)
  BY <1>5 DEF KeptArgs
<1>7. Normalize(u) = Normalize(v)
  BY <1>1, <1>6 DEF Normalize, Netloc, PathKept
<1> QED BY <1>4, <1>7 DEF u, v
=============================================================================
