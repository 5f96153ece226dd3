------------------------- MODULE SearchPagesProofs -------------------------
(***************************************************************************)
(* Theorems about SearchPages for any sources, keywords, listings of any   *)
(* length, page sizes, page limits and numbers of faults.                  *)
(***************************************************************************)
EXTENDS SearchPages, TLAPS, FiniteSetTheorems, SequenceTheorems

-----------------------------------------------------------------------------
(* Pages *)

\* The page after n pages is the n-th of a listing cut into pages.
LEMMA WholePages ==
  ASSUME NEW n \in Nat, NEW q \in Nat \ {0}
  PROVE  /\ n * q \in Nat /\ (n + 1) * q = n * q + q
         /\ (n * q) \div q = n
<1>1. n * q \in Nat /\ (n + 1) * q = n * q + q
  OBVIOUS
<1>2. (n * q) \div q = n
  OBVIOUS
<1>3. QED BY <1>1, <1>2

\* As many pages as divide the listing hold all of it.
LEMMA PagesHoldAll ==
  ASSUME NEW l \in Nat, NEW q \in Nat \ {0}, NEW n \in Nat,
         n >= (l + q - 1) \div q
  PROVE  n * q >= l
<1>1. PICK d \in Int : d = (l + q - 1) \div q
  OBVIOUS
<1>2. l + q - 1 < q * (d + 1)
  BY <1>1
<1>3. (n - d) * q >= 0 /\ n * q = (n - d) * q + d * q /\ q * (d + 1) = d * q + q
  BY <1>1
<1>4. n * q \in Int /\ d * q \in Int /\ (n - d) * q \in Int
  BY <1>1
<1>5. QED BY <1>2, <1>3, <1>4

\* What a slice holds: the listing's links from off on, PageSize at most.
LEMMA SliceHolds ==
  ASSUME NEW s \in Seq(Link), NEW off \in Nat
  PROVE  /\ Slice(s, off) \in Seq(Link)
         /\ DOMAIN Slice(s, off) =
              {j \in 1..PageSize : off + j <= Len(s)}
         /\ \A j \in DOMAIN Slice(s, off) : Slice(s, off)[j] = s[off + j]
<1>1. PageSize \in Nat \ {0} /\ Len(s) \in Nat /\ \A i \in 1..Len(s) : s[i] \in Link
  BY PagesAssumption DEF PagesAssumption
<1>2. PICK l \in Nat, q \in Nat \ {0} : l = Len(s) /\ q = PageSize
  BY <1>1
<1>3. PICK e \in Nat : /\ e <= l /\ e <= off + q /\ (e = l \/ e = off + q)
                      /\ Slice(s, off) = SubSeq(s, off + 1, e)
  <2>1. Least(off + q, l) \in Nat
    BY DEF Least
  <2>2. /\ Least(off + q, l) <= l /\ Least(off + q, l) <= off + q
        /\ (Least(off + q, l) = l \/ Least(off + q, l) = off + q)
    BY DEF Least
  <2>3. Slice(s, off) = SubSeq(s, off + 1, Least(off + q, l))
    BY <1>2 DEF Slice
  <2>4. QED BY <2>1, <2>2, <2>3
<1>4. \A i \in (off + 1)..e : s[i] \in Link
  BY <1>1, <1>2, <1>3
<1>5. /\ Slice(s, off) \in Seq(Link)
      /\ Len(Slice(s, off)) = IF off + 1 <= e THEN e - (off + 1) + 1 ELSE 0
      /\ \A i \in 1 .. (e - (off + 1) + 1) : Slice(s, off)[i] = s[(off + 1) + i - 1]
  <2>1. off + 1 \in Int /\ e \in Int
    OBVIOUS
  <2>2. QED BY <1>3, <1>4, <2>1, SubSeqProperties
<1>6. PICK p \in Seq(Link) : p = Slice(s, off)
  BY <1>5
<1>7. DOMAIN p = 1..Len(p) /\ Len(p) \in Nat
  OBVIOUS
<1>8. 1..Len(p) = {i \in 1..q : off + i <= l}
  <2>a. e - (off + 1) + 1 = e - off
    BY <1>3
  <2>b. Len(p) = IF off + 1 <= e THEN e - off ELSE 0
    BY <1>5, <1>6, <2>a
  <2>1. PICK m \in Nat : m = Len(p) /\ m = IF off + 1 <= e THEN e - off ELSE 0
    BY <1>7, <2>b
  <2>2. e <= l /\ e <= off + q /\ (e = l \/ e = off + q)
    BY <1>3
  <2>3. ASSUME NEW j \in 1..m PROVE j \in 1..q /\ off + j <= l
    BY <2>1, <2>2
  <2>4. ASSUME NEW j \in 1..q, off + j <= l PROVE j \in 1..m
    <3>1. off + j <= e
      BY <2>2, <2>4
    <3>2. off + 1 <= e
      BY <3>1
    <3>3. QED BY <2>1, <3>1, <3>2
  <2>5. QED BY <2>1, <2>3, <2>4
<1>9. \A j \in 1..Len(p) : p[j] = s[off + j]
  BY <1>3, <1>5, <1>6
<1>10. QED BY <1>2, <1>6, <1>7, <1>8, <1>9

-----------------------------------------------------------------------------
(* The inductive invariant: where a run stands *)

Running == pc \in {"ask", "submit", "sort", "read"}

\* The cursor of every source after n pages.
Mark(n) ==
  [n |-> CASE src = "naver_news" -> n * PageSize + 1
           [] src = "baidu_news" -> n * PageSize
           [] OTHER -> n + 1,
   offset |-> n * PageSize]

\* A run has returned fewer pages than the limit and its cursor stands for all of
\* them; before and after it there is none.
Position ==
  /\ pc = "idle" => got = <<>> /\ cursor = None
  /\ pc \in {"submit", "sort"} => got = <<>>
  /\ Running => /\ Len(got) < MaxPages
                /\ cursor = IF got = <<>> THEN None ELSE Mark(Len(got))

\* The marks of all sources stand for one place: the next page, and its offset.
LEMMA Place ==
  ASSUME TypeOK, Position, Running
  PROVE  /\ Len(got) \in Nat
         /\ PageNum = Len(got) + 1 /\ Offset = Len(got) * PageSize
         /\ NextCursor = Mark(Len(got) + 1)
         /\ BelowLimit <=> Len(got) + 1 < MaxPages
         /\ got = <<>> <=> Len(got) = 0
<1>1. PICK q \in Nat \ {0} : q = PageSize
  BY PagesAssumption DEF PagesAssumption
<1>2. got \in Seq(SUBSET Link)
  BY DEF TypeOK
<1>3. PICK n \in Nat : n = Len(got)
  BY <1>2
<1>4. got = <<>> <=> n = 0
  BY <1>2, <1>3
<1>5. PICK o \in Nat : o = n * q /\ (n + 1) * q = o + q /\ o \div q = n
  BY WholePages
<1>6. n = 0 => o = 0
  BY <1>5
<1>7. Mark(n) = [n |-> CASE src = "naver_news" -> o + 1
                         [] src = "baidu_news" -> o
                         [] OTHER -> n + 1,
                 offset |-> o]
  BY <1>1, <1>5 DEF Mark
<1>8. Mark(n + 1) = [n |-> CASE src = "naver_news" -> o + q + 1
                             [] src = "baidu_news" -> o + q
                             [] OTHER -> n + 2,
                     offset |-> o + q]
  <2>1. (n + 1) * q = o + q /\ (n + 1) + 1 = n + 2
    BY <1>5
  <2>2. QED BY <1>1, <2>1 DEF Mark
<1>9. cursor = IF n = 0 THEN None ELSE Mark(n)
  BY <1>3, <1>4 DEF Position
<1>10. n # 0 => Mark(n) # None
  <2>1. Mark(n) \in [n : Nat, offset : Nat]
    BY <1>7
  <2>2. QED BY <2>1, PagesAssumption DEF PagesAssumption
<1>11. Offset = o
  <2>1. CASE n = 0
    BY <1>6, <1>9, <2>1 DEF Offset
  <2>2. CASE n # 0
    <3>1. cursor # None /\ cursor.offset = o /\ cursor.n =
            CASE src = "naver_news" -> o + 1 [] src = "baidu_news" -> o [] OTHER -> n + 1
      BY <1>7, <1>9, <1>10, <2>2
    <3>2. src \notin {"naver_news", "baidu_news", "duckduckgo_news"}
            => (cursor.n - 1) * PageSize = o
      BY <1>1, <1>5, <3>1
    <3>3. QED BY <3>1, <3>2 DEF Offset
  <2>3. QED BY <2>1, <2>2
<1>12. PageNum = n + 1
  <2>1. CASE n = 0
    BY <1>9, <2>1 DEF PageNum
  <2>2. CASE n # 0
    <3>1. cursor # None /\ cursor.n =
            CASE src = "naver_news" -> o + 1 [] src = "baidu_news" -> o [] OTHER -> n + 1
      BY <1>7, <1>9, <1>10, <2>2
    <3>2. src = "naver_news" => (cursor.n - 1) \div PageSize = n
      <4>1. (o + 1) - 1 = o
        OBVIOUS
      <4>2. QED BY <1>1, <1>5, <3>1, <4>1
    <3>3. src = "baidu_news" => cursor.n \div PageSize = n
      BY <1>1, <1>5, <3>1
    <3>4. QED BY <3>1, <3>2, <3>3 DEF PageNum
  <2>3. QED BY <2>1, <2>2
<1>13. NextCursor = Mark(n + 1)
  <2> HIDE DEF Offset, PageNum
  <2>1. /\ o + 1 + q = o + q + 1 /\ n + 1 + 1 = n + 2
    BY <1>5
  <2>2. QED BY <1>1, <1>8, <1>11, <1>12, <2>1 DEF NextCursor
<1>14. QED
  BY <1>1, <1>3, <1>4, <1>5, <1>11, <1>12, <1>13 DEF BelowLimit

\* Tinhte's browser shows results of this run from the RETURN on.
Shown ==
  /\ pc \in {"submit", "sort", "read"} => src = "tinhte_forum"
  /\ src = "tinhte_forum" /\ (pc \in {"sort", "read"} \/ (pc = "ask" /\ got # <<>>))
       => widget.page >= 1 /\ widget.kw = kw
  /\ src = "tinhte_forum" /\ (pc = "read" \/ (pc = "ask" /\ got # <<>>))
       => performed

-----------------------------------------------------------------------------
(* The steps of a run *)

\* A page more, and with it the next mark or the end.
LEMMA AnswerMoves ==
  ASSUME TypeOK, Position, Running, NEW U \in SUBSET Link, NEW more,
         Answer(U, more)
  PROVE  /\ src' = src /\ listing' = listing /\ kw' = kw
         /\ got' \in Seq(SUBSET Link) /\ Len(got') = Len(got) + 1
         /\ \A i \in 1..Len(got) : got'[i] = got[i]
         /\ got'[Len(got) + 1] = U
         /\ \/ /\ pc' = "ask" /\ more /\ Len(got) + 1 < MaxPages
               /\ cursor' = Mark(Len(got) + 1) /\ result' = None
            \/ /\ pc' = "done" /\ result' = "ok" /\ cursor' = None
               /\ ~more \/ Len(got) + 1 = MaxPages
<1>1. got \in Seq(SUBSET Link) /\ Len(got) \in Nat /\ Len(got) < MaxPages
  BY DEF TypeOK, Position
<1>2. /\ src' = src /\ listing' = listing /\ kw' = kw /\ got' = Append(got, U)
  BY DEF Answer
<1>3. /\ Append(got, U) \in Seq(SUBSET Link)
      /\ Len(Append(got, U)) = Len(got) + 1
      /\ \A i \in 1..Len(got) : Append(got, U)[i] = got[i]
      /\ Append(got, U)[Len(got) + 1] = U
  BY <1>1, AppendProperties
<1>4. \/ /\ pc' = "ask" /\ more /\ BelowLimit
         /\ cursor' = NextCursor /\ result' = None
      \/ /\ pc' = "done" /\ result' = "ok" /\ cursor' = None
         /\ ~more \/ ~BelowLimit
  BY DEF Answer
<1>5. /\ NextCursor = Mark(Len(got) + 1)
      /\ BelowLimit <=> Len(got) + 1 < MaxPages
  BY Place
<1>6. ~BelowLimit => Len(got) + 1 = MaxPages
  BY <1>1, <1>5, PagesAssumption DEF PagesAssumption
<1>7. QED BY <1>2, <1>3, <1>4, <1>5, <1>6

\* The links of a listing, and what is kept of a page, are links.
LEMMA ListingOfRun ==
  ASSUME TypeOK, Running
  PROVE  /\ kw \in Keyword /\ listing[kw] \in Seq(Link)
         /\ Results \in Seq(Link) /\ Len(Results) = Len(listing[kw])
<1>1. kw \in Keyword /\ listing[kw] \in Seq(Link)
  BY PagesAssumption DEF PagesAssumption, TypeOK, Running
<1>2. PICK s \in Seq(Link) : s = listing[kw]
  BY <1>1
<1>3. Len(s) \in Nat /\ \A i \in 1..Len(s) : s[i] \in Link
  OBVIOUS
<1>4. Reverse(s) = [i \in 1..Len(s) |-> s[(Len(s) - i) + 1]]
  BY DEF Reverse
<1>5. Reverse(s) \in Seq(Link) /\ Len(Reverse(s)) = Len(s)
  <2>1. \A i \in 1..Len(s) : s[(Len(s) - i) + 1] \in Link
    BY <1>3
  <2>2. QED BY <1>3, <1>4, <2>1
<1>6. QED BY <1>1, <1>2, <1>5 DEF Results

\* The links an extractor keeps of a page.
LEMMA KeptLinks ==
  ASSUME NEW p \in Seq(Link)
  PROVE  /\ Kept(p) \in SUBSET Link /\ Recent(p) \in SUBSET Link
         /\ \A l : l \in Kept(p) <=> \E i \in DOMAIN p : l = p[i] /\ Kind[l] \in Keeps
<1>1. \A i \in DOMAIN p : p[i] \in Link
  OBVIOUS
<1>2. \A l : l \in Kept(p) <=> \E i \in DOMAIN p : l = p[i] /\ Kind[l] \in Keeps
  BY DEF Kept, ToSet
<1>3. Recent(p) \in SUBSET Link
  BY <1>1 DEF Recent, Cards
<1>4. QED BY <1>1, <1>2, <1>3

\* Where the redirects among links lead, and what that leaves out.
LEMMA ResolvedLinks ==
  ASSUME NEW S \in SUBSET Link, NEW U \in Resolved(S)
  PROVE  U \in SUBSET Link /\ \A l \in S : l \in U \/ Final[l] \in U
<1> DEFINE R == {l \in S : Kind[l] = "redirect"}
<1>1. PICK T \in SUBSET R : U = (S \ R) \cup T \cup {Final[l] : l \in R \ T}
  BY DEF Resolved
<1>2. \A l \in Link : Final[l] \in Link
  BY PagesAssumption DEF PagesAssumption
<1>3. QED BY <1>1, <1>2

\* What a step does to the run: a page, an exception, a command of Tinhte's in
\* the middle of a call, or nothing.
Paged == \E U \in SUBSET Link : \E more : Answer(U, more)
Raised == \E how \in Outcome \ {"ok"} : Raise(how)
Commanded ==
  /\ src = "tinhte_forum"
  /\ \/ pc = "ask" /\ got = <<>> /\ Goto("submit")
     \/ pc = "submit" /\ Goto("sort")
     \/ pc = "sort" /\ Goto("read")
     \/ pc = "ask" /\ got # <<>> /\ Goto("read")

\* A call of an HTTP adapter returns a page or raises.
LEMMA HttpKinds ==
  ASSUME TypeOK, Position, DiscoverHttp
  PROVE  pc = "ask" /\ (Paged \/ Raised) /\ UNCHANGED <<performed, widget>>
<1> USE DEF Http
<1>1. pc = "ask" /\ Running
  BY DEF DiscoverHttp, DiscoverNaver, DiscoverDaum, DiscoverBaidu, DiscoverBoard,
         DiscoverBaomoi, DiscoverDuck, Blocked, RequestFails, Running
<1>2. listing[kw] \in Seq(Link) /\ Offset \in Nat
  <2>1. Len(got) \in Nat /\ Offset = Len(got) * PageSize /\ PageSize \in Nat \ {0}
    BY <1>1, Place, PagesAssumption DEF PagesAssumption
  <2>2. Len(got) * PageSize \in Nat
    BY <2>1, WholePages
  <2>3. QED BY <1>1, <2>1, <2>2, ListingOfRun
<1>3. PICK p \in Seq(Link) : p = Slice(listing[kw], Offset)
  BY <1>2, SliceHolds
<1>4. PICK p0 \in Seq(Link) : p0 = Slice(listing[kw], 0)
  BY <1>2, SliceHolds
<1>5. /\ Kept(p) \in SUBSET Link /\ Recent(p) \in SUBSET Link
      /\ Kept(p0) \in SUBSET Link /\ {} \in SUBSET Link
  BY KeptLinks
<1>6. ASSUME NEW genuine, Empty(genuine) PROVE Paged \/ Raised
  BY <1>6 DEF Empty, Paged, Raised, Outcome
<1>7. ASSUME NEW A, A \subseteq SUBSET Link, Counted(p, A) PROVE Paged \/ Raised
  <2>1. CASE Kept(p) = {}
    <3>1. Empty(p = <<>>)
      BY <1>7, <2>1 DEF Counted
    <3>2. QED BY <3>1, <1>6
  <2>2. CASE Kept(p) # {}
    <3>1. PICK U \in A : Answer(U, Cardinality(Kept(p)) >= PageSize)
      BY <1>7, <2>2 DEF Counted
    <3>2. U \in SUBSET Link
      BY <1>7, <3>1
    <3>3. QED BY <3>1, <3>2, Zenon DEF Paged
  <2>3. QED BY <2>1, <2>2
<1>8. CASE DiscoverNaver \/ DiscoverBaidu
  <2>1. Counted(p, {Kept(p)})
    BY <1>3, <1>8 DEF DiscoverNaver, DiscoverBaidu
  <2>2. PICK S \in SUBSET Link : S = Kept(p)
    BY <1>5
  <2>3. Counted(p, {S}) /\ {S} \subseteq SUBSET Link
    BY <2>1, <2>2
  <2>4. Paged \/ Raised
    BY <1>7, <2>3
  <2>5. QED BY <1>1, <1>8, <2>4 DEF DiscoverNaver, DiscoverBaidu
<1>9. CASE DiscoverDaum
  <2>1. PICK S \in SUBSET Link : S = Kept(p)
    BY <1>5
  <2>2. PICK A : A = Resolved(S)
    OBVIOUS
  <2>3. Counted(p, A) /\ A \subseteq SUBSET Link
    BY <1>3, <1>9, <2>1, <2>2, ResolvedLinks DEF DiscoverDaum
  <2>4. QED BY <1>1, <1>7, <1>9, <2>3 DEF DiscoverDaum
<1>10. CASE DiscoverBoard
  <2>1. Answer(Kept(p), Kept(p) # {})
    BY <1>3, <1>10 DEF DiscoverBoard
  <2>2. QED BY <1>1, <1>5, <1>10, <2>1 DEF DiscoverBoard, Paged
<1>11. CASE DiscoverBaomoi
  <2>1. Raise("error") \/ Answer(Recent(p), MoreCards(p))
    BY <1>3, <1>11 DEF DiscoverBaomoi
  <2>2. MoreCards(p) \in BOOLEAN
    BY DEF MoreCards
  <2>3. Paged \/ Raised
    BY <1>5, <2>1, <2>2 DEF Paged, Raised, Outcome
  <2>4. QED BY <1>1, <1>11, <2>3 DEF DiscoverBaomoi
<1>12. CASE DiscoverDuck
  <2>1. PICK r \in {p, p0, <<>>}, more \in BOOLEAN :
          Answer(Kept(r) \ Seen, more /\ ~(Kept(r) # {} /\ Kept(r) \ Seen = {}))
    BY <1>3, <1>4, <1>12 DEF DiscoverDuck
  <2>2. r \in Seq(Link)
    <3>1. <<>> \in Seq(Link)
      OBVIOUS
    <3>2. QED BY <3>1
  <2>3. Kept(r) \ Seen \in SUBSET Link
    BY <2>2, KeptLinks
  <2>4. Paged
    BY <2>1, <2>3 DEF Paged
  <2>5. QED BY <1>1, <1>12, <2>4 DEF DiscoverDuck
<1>13. CASE Blocked
  <2>1. BlockPage \/ Answer({}, FALSE)
    BY <1>13 DEF Blocked
  <2>2. BlockPage => Empty(FALSE) \/ Raise("blocked") \/ Answer({}, FALSE)
    BY DEF BlockPage
  <2>3. Paged \/ Raised
    BY <1>5, <1>6, <2>1, <2>2 DEF Paged, Raised, Outcome
  <2>4. QED BY <1>1, <1>13, <2>3 DEF Blocked
<1>14. CASE RequestFails
  BY <1>1, <1>14 DEF RequestFails, Raised, Outcome
<1>15. QED
  BY <1>8, <1>9, <1>10, <1>11, <1>12, <1>13, <1>14 DEF DiscoverHttp

\* So does a command of Tinhte's, unless it leads on to the next one.
LEMMA TinhteKinds ==
  ASSUME TypeOK, Position, Shown, DiscoverTinhte
  PROVE  /\ src = "tinhte_forum" /\ Running
         /\ Paged \/ Raised \/ Commanded
         /\ seenUrls' = seenUrls
<1> USE DEF Tinhte
<1>1. src = "tinhte_forum" /\ Running /\ seenUrls' = seenUrls
  BY DEF DiscoverTinhte, OpenSearch, OpenFails, Submit, NoBox, SubmitFails, SortByDate,
         SortFails, TurnPage, TurnLate, PageFails, ReadResults, Running
<1>2. /\ PageNum = 1 => got = <<>>
      /\ PageNum > 1 => got # <<>>
  <2>1. /\ PageNum = Len(got) + 1 /\ Len(got) \in Nat
        /\ got = <<>> <=> Len(got) = 0
    BY <1>1, Place
  <2>2. QED BY <2>1
<1>3. CASE OpenSearch \/ Submit \/ SortByDate \/ SortFails \/ TurnLate
  BY <1>1, <1>2, <1>3 DEF OpenSearch, Submit, SortByDate, SortFails, TurnLate, Commanded
<1>4. CASE OpenFails \/ NoBox \/ SubmitFails \/ PageFails
  BY <1>1, <1>4 DEF OpenFails, NoBox, SubmitFails, PageFails, Raised, Outcome
<1>5. CASE TurnPage
  BY <1>1, <1>2, <1>5 DEF TurnPage, Commanded, Paged
<1>6. CASE ReadResults
  <2>1. widget.page \in Nat /\ widget.page >= 1
    BY <1>6 DEF ReadResults, Shown, TypeOK
  <2>2. PICK o \in Nat : o = (widget.page - 1) * PageSize
    <3>1. widget.page - 1 \in Nat /\ PageSize \in Nat \ {0}
      BY <2>1, PagesAssumption DEF PagesAssumption
    <3>2. QED BY <3>1, WholePages
  <2>3. PICK s \in Seq(Link) : s = Results
    BY <1>1, ListingOfRun
  <2>4. PICK U \in SUBSET Link : U = Kept(Slice(s, o))
    BY SliceHolds, KeptLinks
  <2>5. PICK b \in Buttons : Answer(U, PageNum + 1 <= b)
    BY <1>6, <2>2, <2>3, <2>4 DEF ReadResults
  <2>6. Paged
    BY <2>5, Zenon DEF Paged
  <2>7. QED BY <1>1, <2>6
<1>7. QED BY <1>3, <1>4, <1>5, <1>6 DEF DiscoverTinhte

\* Every step at once.
LEMMA Kinds ==
  ASSUME TypeOK, Position, Shown, [Next]_vars
  PROVE  \/ \E k \in Keyword : Begin(k)
         \/ Finish
         \/ Running /\ (Paged \/ Raised \/ Commanded)
         \/ UNCHANGED vars
BY HttpKinds, TinhteKinds DEF Next, Running

-----------------------------------------------------------------------------
(* Position and Shown are kept *)

\* A page moves the mark one further, and the limit ends the run.
LEMMA PositionStep ==
  TypeOK /\ Position /\ Shown /\ [Next]_vars => Position'
<1> SUFFICES ASSUME TypeOK, Position, Shown, [Next]_vars PROVE Position'
  OBVIOUS
<1>1. ASSUME NEW k \in Keyword, Begin(k) PROVE Position'
  <2>1. 0 < MaxPages /\ Len(<<>>) = 0
    BY PagesAssumption DEF PagesAssumption
  <2>2. QED BY <1>1, <2>1 DEF Begin, Position, Running
<1>2. CASE Finish
  BY <1>2 DEF Finish, Position, Running
<1>3. ASSUME Running, Paged PROVE Position'
  <2>1. PICK U \in SUBSET Link : \E more : Answer(U, more)
    BY <1>3 DEF Paged
  <2>2. PICK more : Answer(U, more)
    BY <2>1
  <2>3. /\ src' = src /\ Len(got') = Len(got) + 1 /\ Len(got) \in Nat
        /\ \/ /\ pc' = "ask" /\ Len(got) + 1 < MaxPages
              /\ cursor' = Mark(Len(got) + 1)
           \/ pc' = "done"
    BY <1>3, <2>2, AnswerMoves, Place
  <2>4. got' # <<>>
    BY <2>3
  <2>5. QED BY <2>3, <2>4 DEF Position, Running, Mark
<1>4. CASE Raised
  BY <1>4 DEF Raised, Raise, Position, Running
<1>5. CASE Commanded
  BY <1>5 DEF Commanded, Goto, Position, Running, Mark
<1>6. CASE UNCHANGED vars
  BY <1>6 DEF vars, run, Position, Running, Mark
<1>7. QED BY <1>1, <1>2, <1>3, <1>4, <1>5, <1>6, Kinds

\* Only Tinhte has commands, and the browser shows the results they asked for.
LEMMA ShownStep ==
  TypeOK /\ Position /\ Shown /\ [Next]_vars => Shown'
<1> SUFFICES ASSUME TypeOK, Position, Shown, [Next]_vars PROVE Shown'
  OBVIOUS
<1> USE DEF Shown, run
<1>1. ASSUME NEW k \in Keyword, Begin(k) PROVE Shown'
  BY <1>1 DEF Begin, Position
<1>2. CASE Finish
  BY <1>2 DEF Finish
<1>3. CASE DiscoverHttp
  <2>1. src # "tinhte_forum" /\ pc = "ask"
    BY <1>3 DEF DiscoverHttp, DiscoverNaver, DiscoverDaum, DiscoverBaidu, DiscoverBoard,
       DiscoverBaomoi, DiscoverDuck, Blocked, RequestFails, Http
  <2>2. Paged \/ Raised
    BY <1>3, HttpKinds
  <2>3. src' = src /\ pc' \in {"ask", "done"}
    BY <2>2 DEF Paged, Raised, Answer, Raise
  <2>4. QED BY <2>1, <2>3
<1>4. CASE DiscoverTinhte
  <2> USE DEF Tinhte, Goto, Raise
  <2>a. src = "tinhte_forum" /\ Running
    BY <1>4, TinhteKinds
  <2>b. /\ PageNum = Len(got) + 1 /\ Len(got) \in Nat
        /\ got = <<>> <=> Len(got) = 0
    BY <2>a, Place
  <2>c. /\ widget \in [kw : Keyword \cup {None}, page : 0..MaxPages, byDate : BOOLEAN]
        /\ MaxPages \in Nat \ {0}
    BY PagesAssumption DEF PagesAssumption, TypeOK
  <2>1. CASE OpenSearch
    BY <2>1, <2>b DEF OpenSearch
  <2>2. CASE OpenFails \/ NoBox \/ SubmitFails \/ PageFails
    BY <2>2 DEF OpenFails, NoBox, SubmitFails, PageFails
  <2>3. CASE Submit
    BY <2>3, <2>a DEF Submit
  <2>4. CASE SortByDate
    BY <2>4, <2>c DEF SortByDate
  <2>5. CASE SortFails
    BY <2>5 DEF SortFails
  <2>6. CASE TurnLate
    BY <2>6, <2>b DEF TurnLate
  <2>7. CASE TurnPage
    <3>1. pc = "ask" /\ got # <<>> /\ widget.kw = kw /\ performed
      BY <2>7, <2>a, <2>b DEF TurnPage
    <3>2. CASE widget' = [widget EXCEPT !.page = PageNum] /\ Goto("read")
      BY <2>7, <2>b, <2>c, <3>1, <3>2 DEF TurnPage
    <3>3. CASE Answer({}, FALSE)
      <4>1. pc' = "done"
        BY <3>3 DEF Answer
      <4>2. QED BY <4>1
    <3>4. QED BY <2>7, <3>2, <3>3 DEF TurnPage
  <2>8. CASE ReadResults
    <3>1. /\ pc = "read" /\ widget' = widget /\ performed' = performed
      BY <2>8 DEF ReadResults
    <3>2. pc' \in {"ask", "done"} /\ kw' = kw /\ src' = src
      BY <2>8 DEF ReadResults, Answer
    <3>3. QED BY <2>a, <3>1, <3>2
  <2>9. QED
    BY <1>4, <2>1, <2>2, <2>3, <2>4, <2>5, <2>6, <2>7, <2>8 DEF DiscoverTinhte
<1>5. CASE UNCHANGED vars
  BY <1>5 DEF vars
<1>6. QED BY <1>1, <1>2, <1>3, <1>4, <1>5 DEF Next

-----------------------------------------------------------------------------
(* Types *)

\* What the steps leave in the adapter and in the browser.
LEMMA AdapterTypes ==
  ASSUME TypeOK, Position, Shown, [Next]_vars
  PROVE  /\ seenUrls' \subseteq Link /\ performed' \in BOOLEAN
         /\ widget' \in [kw : Keyword \cup {None}, page : 0..MaxPages, byDate : BOOLEAN]
<1>a. /\ seenUrls \subseteq Link /\ performed \in BOOLEAN
      /\ widget \in [kw : Keyword \cup {None}, page : 0..MaxPages, byDate : BOOLEAN]
      /\ MaxPages \in Nat \ {0}
  BY PagesAssumption DEF PagesAssumption, TypeOK
<1>1. CASE DiscoverHttp
  <2>1. pc = "ask" /\ Running /\ UNCHANGED <<performed, widget>>
    BY <1>1, HttpKinds DEF Running
  <2>2. Seen \subseteq Link
    BY <1>a DEF Seen
  <2>3. CASE DiscoverDuck
    <3>1. /\ listing[kw] \in Seq(Link) /\ Offset \in Nat
      <4>1. Len(got) \in Nat /\ Offset = Len(got) * PageSize /\ PageSize \in Nat \ {0}
        BY <2>1, Place, PagesAssumption DEF PagesAssumption
      <4>2. Len(got) * PageSize \in Nat
        BY <4>1, WholePages
      <4>3. QED BY <2>1, <4>1, <4>2, ListingOfRun
    <3>2. PICK p \in {<<>>, Slice(listing[kw], 0), Slice(listing[kw], Offset)} :
            seenUrls' = Remember(Kept(p) \ Seen)
      BY <2>3 DEF DiscoverDuck
    <3>3. p \in Seq(Link)
      <4>1. <<>> \in Seq(Link)
        OBVIOUS
      <4>2. Slice(listing[kw], 0) \in Seq(Link) /\ Slice(listing[kw], Offset) \in Seq(Link)
        BY <3>1, SliceHolds
      <4>3. QED BY <3>2, <4>1, <4>2
    <3>4. Kept(p) \subseteq Link
      BY <3>3, KeptLinks
    <3>5. QED BY <1>a, <2>1, <2>2, <3>2, <3>4 DEF Remember
  <2>4. CASE Blocked \/ RequestFails
    BY <1>a, <2>1, <2>2, <2>4 DEF Blocked, RequestFails
  <2>5. CASE UNCHANGED seenUrls
    BY <1>a, <2>1, <2>5
  <2>6. QED
    BY <1>1, <2>3, <2>4, <2>5 DEF DiscoverHttp, DiscoverNaver, DiscoverDaum,
       DiscoverBaidu, DiscoverBoard, DiscoverBaomoi, Counted
<1>2. CASE DiscoverTinhte
  <2>1. Running /\ seenUrls' = seenUrls
    BY <1>2, TinhteKinds
  <2>2. kw \in Keyword /\ PageNum = Len(got) + 1 /\ Len(got) \in Nat /\ Len(got) < MaxPages
    BY <2>1, ListingOfRun, Place DEF Position
  <2>3. PageNum \in 0..MaxPages
    BY <1>a, <2>2
  <2>4. Home \in [kw : Keyword \cup {None}, page : 0..MaxPages, byDate : BOOLEAN]
    BY <1>a DEF Home
  <2>5. widget' \in {widget, Home, AtHome, [kw |-> kw, page |-> 1, byDate |-> FALSE],
                    [widget EXCEPT !.byDate = TRUE], [widget EXCEPT !.page = PageNum]}
    BY <1>2 DEF DiscoverTinhte, OpenSearch, OpenFails, Submit, NoBox, SubmitFails,
       SortByDate, SortFails, TurnPage, TurnLate, PageFails, ReadResults
  <2>6. performed' \in {performed, TRUE}
    BY <1>2 DEF DiscoverTinhte, OpenSearch, OpenFails, Submit, NoBox, SubmitFails,
       SortByDate, SortFails, TurnPage, TurnLate, PageFails, ReadResults
  <2>7. AtHome \in {widget, Home}
    BY DEF AtHome
  <2>8. /\ [kw |-> kw, page |-> 1, byDate |-> FALSE]
             \in [kw : Keyword \cup {None}, page : 0..MaxPages, byDate : BOOLEAN]
        /\ [widget EXCEPT !.byDate = TRUE]
             \in [kw : Keyword \cup {None}, page : 0..MaxPages, byDate : BOOLEAN]
        /\ [widget EXCEPT !.page = PageNum]
             \in [kw : Keyword \cup {None}, page : 0..MaxPages, byDate : BOOLEAN]
    <3>1. 1 \in 0..MaxPages
      BY <1>a
    <3>2. [kw |-> kw, page |-> 1, byDate |-> FALSE]
            \in [kw : Keyword \cup {None}, page : 0..MaxPages, byDate : BOOLEAN]
      BY <2>2, <3>1
    <3>3. [widget EXCEPT !.byDate = TRUE]
            \in [kw : Keyword \cup {None}, page : 0..MaxPages, byDate : BOOLEAN]
      BY <1>a
    <3>4. PICK n \in 0..MaxPages : n = PageNum
      BY <2>3
    <3>5. [widget EXCEPT !.page = n]
            \in [kw : Keyword \cup {None}, page : 0..MaxPages, byDate : BOOLEAN]
      BY <1>a
    <3>6. QED BY <3>2, <3>3, <3>4, <3>5
  <2>9. widget' \in [kw : Keyword \cup {None}, page : 0..MaxPages, byDate : BOOLEAN]
    BY <1>a, <2>4, <2>5, <2>7, <2>8
  <2>10. QED BY <1>a, <2>1, <2>6, <2>9
<1>3. CASE (\E k \in Keyword : Begin(k)) \/ Finish \/ UNCHANGED vars
  BY <1>a, <1>3 DEF Begin, Finish, vars
<1>4. QED BY <1>1, <1>2, <1>3 DEF Next

\* The faults of a run are counted, and what they leave is a truth value.
LEMMA FaultTypes ==
  ASSUME TypeOK, Position, Shown, [Next]_vars
  PROVE  /\ hit' \in BOOLEAN /\ clean' \in BOOLEAN /\ faults' \in 0..MaxFaults
<1>a. hit \in BOOLEAN /\ clean \in BOOLEAN /\ faults \in 0..MaxFaults
  BY DEF TypeOK
<1>b. ASSUME (\E site : Fault(site)) \/ NoFault
      PROVE  clean' \in BOOLEAN /\ faults' \in 0..MaxFaults
  <2>1. CASE \E site : Fault(site)
    <3>1. clean' = FALSE /\ faults' = faults + 1 /\ faults < MaxFaults
      BY <2>1 DEF Fault
    <3>2. faults' \in 0..MaxFaults
      BY <1>a, <3>1, PagesAssumption DEF PagesAssumption
    <3>3. QED BY <3>1, <3>2
  <2>2. CASE NoFault
    <3>1. clean' = clean /\ faults' = faults
      BY <2>2 DEF NoFault
    <3>2. QED BY <1>a, <3>1
  <2>3. QED BY <1>b, <2>1, <2>2
<1>1. CASE DiscoverHttp
  <2>1. ((\E site : Fault(site)) \/ NoFault) /\ (hit' = hit \/ hit' = TRUE)
    BY <1>1 DEF DiscoverHttp, DiscoverNaver, DiscoverDaum, DiscoverBaidu,
       DiscoverBoard, DiscoverBaomoi, DiscoverDuck, Blocked, RequestFails, Counted
  <2>2. QED BY <1>a, <1>b, <2>1
<1>2. CASE DiscoverTinhte
  <2>1. CASE NoBox
    <3>1. ((\E site : Fault(site)) \/ NoFault) /\ hit' \in BOOLEAN
      BY <2>1 DEF NoBox
    <3>2. QED BY <1>b, <3>1
  <2>2. CASE ~NoBox
    <3>1. CASE OpenSearch \/ Submit \/ SortByDate \/ TurnPage \/ ReadResults
      BY <1>a, <1>b, <3>1 DEF OpenSearch, Submit, SortByDate, TurnPage, ReadResults
    <3>2. CASE OpenFails \/ SubmitFails \/ SortFails \/ TurnLate \/ PageFails
      BY <1>a, <1>b, <3>2 DEF OpenFails, SubmitFails, SortFails, TurnLate, PageFails
    <3>3. QED BY <1>2, <2>2, <3>1, <3>2 DEF DiscoverTinhte
  <2>3. QED BY <2>1, <2>2
<1>3. CASE (\E k \in Keyword : Begin(k)) \/ Finish \/ UNCHANGED vars
  BY <1>3, <1>a DEF Begin, Finish, vars, run
<1>4. QED BY <1>1, <1>2, <1>3 DEF Next

\* The types and how phase, result and cursor go together.
LEMMA TypeStep ==
  TypeOK /\ Position /\ Shown /\ [Next]_vars => TypeOK'
<1> SUFFICES ASSUME TypeOK, Position, Shown, [Next]_vars PROVE TypeOK'
  OBVIOUS
<1>a. /\ seenUrls' \subseteq Link /\ performed' \in BOOLEAN
      /\ widget' \in [kw : Keyword \cup {None}, page : 0..MaxPages, byDate : BOOLEAN]
      /\ hit' \in BOOLEAN /\ clean' \in BOOLEAN /\ faults' \in 0..MaxFaults
  BY AdapterTypes, FaultTypes
<1>b. None \notin Keyword /\ None \notin Outcome /\ None \notin [n : Nat, offset : Nat]
  BY PagesAssumption DEF PagesAssumption
<1>1. ASSUME NEW k \in Keyword, Begin(k) PROVE TypeOK'
  BY <1>1, <1>a, <1>b DEF Begin, TypeOK, Position
<1>2. CASE Finish
  BY <1>2, <1>a, <1>b DEF Finish, TypeOK
<1>3. ASSUME Running, Paged PROVE TypeOK'
  <2>1. PICK U \in SUBSET Link : \E more : Answer(U, more)
    BY <1>3 DEF Paged
  <2>2. PICK more : Answer(U, more)
    BY <2>1
  <2>3. PICK n \in Nat : n = Len(got)
    BY DEF TypeOK
  <2>4. Mark(n + 1) \in [n : Nat, offset : Nat]
    <3>1. PICK o \in Nat : o = (n + 1) * PageSize
      BY WholePages, PagesAssumption DEF PagesAssumption
    <3>2. QED BY <3>1 DEF Mark
  <2>5. /\ src' = src /\ listing' = listing /\ kw' = kw
        /\ got' \in Seq(SUBSET Link) /\ Len(got') = n + 1
        /\ \/ pc' = "ask" /\ cursor' = Mark(n + 1) /\ result' = None
           \/ pc' = "done" /\ result' = "ok" /\ cursor' = None
    BY <1>3, <2>2, <2>3, AnswerMoves
  <2>6. got' # <<>>
    BY <2>5
  <2>7. kw \in Keyword /\ src \in Source /\ listing \in Listings
    BY <1>3, ListingOfRun DEF TypeOK
  <2>8. QED BY <1>a, <1>b, <2>4, <2>5, <2>6, <2>7 DEF TypeOK, Outcome
<1>4. ASSUME Running, Raised PROVE TypeOK'
  <2>1. PICK how \in Outcome \ {"ok"} : Raise(how)
    BY <1>4 DEF Raised
  <2>2. /\ pc' = "done" /\ result' = how
        /\ UNCHANGED <<src, listing, kw, cursor, got>>
    BY <2>1 DEF Raise
  <2>3. kw \in Keyword
    BY <1>4, ListingOfRun
  <2>4. QED BY <1>a, <1>b, <2>1, <2>2, <2>3 DEF TypeOK
<1>5. CASE Commanded
  <2>1. /\ pc' \in {"submit", "sort", "read"} /\ Running
        /\ UNCHANGED <<src, listing, kw, cursor, got, result>>
    BY <1>5 DEF Commanded, Goto, Running
  <2>2. kw \in Keyword
    BY <2>1, ListingOfRun
  <2>3. QED BY <1>a, <1>b, <2>1, <2>2 DEF TypeOK, Running
<1>6. CASE UNCHANGED vars
  BY <1>6 DEF vars, run, TypeOK
<1>7. QED BY <1>1, <1>2, <1>3, <1>4, <1>5, <1>6, Kinds

-----------------------------------------------------------------------------
(* Blocks and repeats *)

\* A source that can tell a block ends the run with it at once.
Told == src \in Telling /\ hit => pc = "done" /\ result = "blocked"

\* DuckDuckGo's memory is what this run has returned, and no link twice.
Apart ==
  src = "duckduckgo_news" =>
    /\ Running => Seen = Returned
    /\ \A i, j \in DOMAIN got : i # j => got[i] \cap got[j] = {}

\* After a page the run has returned its links as well.
LEMMA ReturnedMore ==
  ASSUME TypeOK, Position, Running, NEW U \in SUBSET Link, NEW more,
         Answer(U, more)
  PROVE  Returned' = Returned \cup U
<1>1. PICK n \in Nat : n = Len(got)
  BY DEF TypeOK
<1>2. got \in Seq(SUBSET Link) /\ DOMAIN got = 1..n
  BY <1>1 DEF TypeOK
<1>3. /\ got' \in Seq(SUBSET Link) /\ Len(got') = n + 1
      /\ \A i \in 1..n : got'[i] = got[i]
      /\ got'[n + 1] = U
  BY <1>1, AnswerMoves
<1>4. DOMAIN got' = 1..(n + 1)
  BY <1>3
<1>5. 1..(n + 1) = 1..n \cup {n + 1}
  OBVIOUS
<1>6. \A x : x \in Returned' <=> x \in Returned \cup U
  <2>1. \A x : x \in Returned' <=> \E i \in 1..(n + 1) : x \in got'[i]
    BY <1>4 DEF Returned
  <2>2. \A x : x \in Returned <=> \E i \in 1..n : x \in got[i]
    BY <1>2 DEF Returned
  <2>3. QED BY <1>3, <1>5, <2>1, <2>2
<1>7. QED BY <1>6

\* Blocked is the only step that tells the run of a block, and raises at once for
\* the sources that can tell.
LEMMA ToldStep ==
  TypeOK /\ Position /\ Shown /\ Told /\ [Next]_vars => Told'
<1> SUFFICES ASSUME TypeOK, Position, Shown, Told, [Next]_vars PROVE Told'
  OBVIOUS
<1> USE DEF Told
<1>1. CASE (\E k \in Keyword : Begin(k)) \/ Finish \/ UNCHANGED vars
  BY <1>1 DEF Begin, Finish, vars, run
<1>2. CASE DiscoverTinhte
  <2>1. src = "tinhte_forum" /\ src' = src
    BY <1>2, TinhteKinds DEF Paged, Raised, Commanded, Answer, Raise, Goto
  <2>2. QED BY <2>1 DEF Telling
<1>3. CASE DiscoverHttp
  <2>1. pc = "ask" /\ src' = src
    BY <1>3, HttpKinds DEF Paged, Raised, Answer, Raise
  <2>2. CASE Blocked
    <3>1. ASSUME src \in Telling PROVE BlockPage
      BY <2>2, <3>1 DEF Blocked, Telling
    <3>2. ASSUME src \in Telling PROVE Raise("blocked")
      BY <3>1, <3>2 DEF BlockPage, Empty, Telling
    <3>3. QED BY <2>1, <3>2 DEF Raise
  <2>3. CASE hit' = hit
    BY <2>1, <2>3
  <2>4. QED
    BY <1>3, <2>2, <2>3 DEF DiscoverHttp, DiscoverNaver, DiscoverDaum, DiscoverBaidu,
       DiscoverBoard, DiscoverBaomoi, DiscoverDuck, RequestFails, Counted
<1>4. QED BY <1>1, <1>2, <1>3 DEF Next

\* What a call of duckduckgo_news returns and remembers: the page at the offset
\* or, past the end, nothing or the first page again.
LEMMA DuckPage ==
  ASSUME TypeOK, Position, DiscoverDuck
  PROVE  \E p \in Seq(Link), more \in BOOLEAN :
           /\ \/ p = Slice(listing[kw], Offset)
              \/ ~(Offset < Len(listing[kw]))
           /\ Offset + PageSize < Len(listing[kw]) => more
           /\ seenUrls' = Seen \cup (Kept(p) \ Seen)
           /\ Answer(Kept(p) \ Seen, more /\ ~(Kept(p) # {} /\ Kept(p) \ Seen = {}))
<1>1. Running /\ src = "duckduckgo_news"
  BY DEF DiscoverDuck, Http, Running
<1>2. listing[kw] \in Seq(Link) /\ Offset \in Nat
  <2>1. Len(got) \in Nat /\ Offset = Len(got) * PageSize /\ PageSize \in Nat \ {0}
    BY <1>1, Place, PagesAssumption DEF PagesAssumption
  <2>2. Len(got) * PageSize \in Nat
    BY <2>1, WholePages
  <2>3. QED BY <1>1, <2>1, <2>2, ListingOfRun
<1>3. /\ <<>> \in Seq(Link)
      /\ Slice(listing[kw], 0) \in Seq(Link) /\ Slice(listing[kw], Offset) \in Seq(Link)
  <2>1. <<>> \in Seq(Link) /\ 0 \in Nat
    OBVIOUS
  <2>2. Slice(listing[kw], 0) \in Seq(Link)
    BY <1>2, <2>1, SliceHolds
  <2>3. Slice(listing[kw], Offset) \in Seq(Link)
    BY <1>2, SliceHolds
  <2>4. QED BY <2>1, <2>2, <2>3
<1>4. PICK p \in IF Offset < Len(listing[kw]) THEN {Slice(listing[kw], Offset)}
                 ELSE {<<>>, Slice(listing[kw], 0)},
           more \in IF Offset + PageSize < Len(listing[kw]) THEN {TRUE} ELSE BOOLEAN :
        /\ seenUrls' = Seen \cup (Kept(p) \ Seen)
        /\ Answer(Kept(p) \ Seen, more /\ ~(Kept(p) # {} /\ Kept(p) \ Seen = {}))
  BY DEF DiscoverDuck, Remember
<1>5. p \in Seq(Link) /\ (p = Slice(listing[kw], Offset) \/ ~(Offset < Len(listing[kw])))
  BY <1>3, <1>4
<1>6. more \in BOOLEAN /\ (Offset + PageSize < Len(listing[kw]) => more)
  BY <1>4
<1>7. QED BY <1>4, <1>5, <1>6

\* The memory starts empty with the first call of a run and grows by what is
\* returned, so what is new to it is new to the run.
LEMMA ApartStep ==
  TypeOK /\ Position /\ Shown /\ Apart /\ [Next]_vars => Apart'
<1> SUFFICES ASSUME TypeOK, Position, Shown, Apart, [Next]_vars PROVE Apart'
  OBVIOUS
<1>1. CASE \E k \in Keyword : Begin(k)
  <2>1. got' = <<>> /\ cursor' = None
    BY <1>1 DEF Begin, Position
  <2>2. QED BY <2>1 DEF Apart, Seen, Returned
<1>2. CASE Finish
  BY <1>2 DEF Finish, Apart, Running
<1>3. CASE UNCHANGED vars
  BY <1>3 DEF vars, run, Apart, Seen, Returned, Running
<1>4. CASE DiscoverTinhte
  <2>1. src' = "tinhte_forum"
    BY <1>4, TinhteKinds DEF Paged, Raised, Commanded, Answer, Raise, Goto
  <2>2. QED BY <2>1 DEF Apart
<1>5. CASE DiscoverHttp
  <2>a. src' = src /\ Running
    BY <1>5, HttpKinds DEF Paged, Raised, Answer, Raise, Running
  <2>1. CASE src # "duckduckgo_news"
    BY <2>a, <2>1 DEF Apart
  <2>2. ASSUME src = "duckduckgo_news", Raised PROVE Apart'
    BY <2>2 DEF Raised, Raise, Apart, Running
  <2>3. ASSUME src = "duckduckgo_news", DiscoverDuck PROVE Apart'
    <3>1. PICK p \in Seq(Link), more \in BOOLEAN :
            /\ seenUrls' = Seen \cup (Kept(p) \ Seen)
            /\ Answer(Kept(p) \ Seen, more /\ ~(Kept(p) # {} /\ Kept(p) \ Seen = {}))
      BY <2>3, DuckPage
    <3>2. Kept(p) \in SUBSET Link
      BY KeptLinks
    <3>3. PICK U \in SUBSET Link : U = Kept(p) \ Seen
      BY <3>2
    <3>4. PICK m : Answer(U, m)
      BY <3>1, <3>3, Zenon
    <3>5. PICK n \in Nat : n = Len(got)
      BY DEF TypeOK
    <3>6. /\ Len(got') = n + 1 /\ DOMAIN got' = 1..(n + 1)
          /\ \A i \in 1..n : got'[i] = got[i]
          /\ got'[n + 1] = U
          /\ Returned' = Returned \cup U
          /\ pc' = "ask" => cursor' = Mark(n + 1)
          /\ pc' \in {"ask", "done"}
      BY <2>a, <3>4, <3>5, AnswerMoves, ReturnedMore
    <3>7. Seen = Returned /\ \A i, j \in 1..n : i # j => got[i] \cap got[j] = {}
      BY <2>3, <2>a, <3>5 DEF Apart, TypeOK
    <3>8. \A i \in 1..n : got[i] \cap U = {}
      <4>1. DOMAIN got = 1..n
        BY <3>5 DEF TypeOK
      <4>2. \A i \in 1..n : got[i] \subseteq Returned
        BY <4>1 DEF Returned
      <4>3. QED BY <3>3, <3>7, <4>2
    <3>9. 1..(n + 1) = 1..n \cup {n + 1}
      OBVIOUS
    <3>10. \A i, j \in DOMAIN got' : i # j => got'[i] \cap got'[j] = {}
      BY <3>6, <3>7, <3>8, <3>9
    <3>11. Running' => Seen' = Returned'
      <4>1. Mark(n + 1) # None
        <5>1. PICK o \in Nat : o = (n + 1) * PageSize
          BY WholePages, PagesAssumption DEF PagesAssumption
        <5>2. Mark(n + 1) \in [n : Nat, offset : Nat]
          BY <5>1 DEF Mark
        <5>3. QED BY <5>2, PagesAssumption DEF PagesAssumption
      <4>2. pc' = "ask" => Seen' = seenUrls'
        BY <3>6, <4>1 DEF Seen
      <4>3. QED BY <3>1, <3>3, <3>6, <3>7, <4>2 DEF Running
    <3>12. QED BY <3>10, <3>11 DEF Apart
  <2>4. ASSUME src = "duckduckgo_news" PROVE DiscoverDuck \/ Raised
    <3>1. CASE Blocked
      <4>1. Raise("blocked")
        BY <2>4, <3>1 DEF Blocked, BlockPage
      <4>2. QED BY <4>1 DEF Raised, Outcome
    <3>2. CASE RequestFails
      BY <3>2 DEF RequestFails, Raised, Outcome
    <3>3. QED
      BY <1>5, <2>4, <3>1, <3>2 DEF DiscoverHttp, DiscoverNaver, DiscoverDaum,
         DiscoverBaidu, DiscoverBoard, DiscoverBaomoi, Http
  <2>5. QED BY <2>1, <2>2, <2>3, <2>4
<1>6. QED BY <1>1, <1>2, <1>3, <1>4, <1>5 DEF Next

-----------------------------------------------------------------------------
(* Reading to the end *)

\* Is the i-th link of the listing s wanted, and has the run returned l?
Wants(s, i) ==
  /\ Kind[s[i]] \in Keeps
  /\ src = "baomoi_news" => \A h \in 1..i : Kind[s[h]] \in Keeps => ~IsOld(s[h])
Has(l) == l \in Returned \/ Final[l] \in Returned

\* Of the first m links of the listing every one that is wanted is returned.
ReadUpTo(m) ==
  \A i \in 1..Len(listing[kw]) :
    i <= m /\ Wants(listing[kw], i) => Has(listing[kw][i])

\* An undisturbed run has returned what is wanted of its pages so far; it goes
\* on only above the first old card, and Tinhte's browser shows the next page, by
\* date.
Progress ==
  clean =>
    /\ Running => ReadUpTo(Len(got) * PageSize)
    /\ Running /\ src = "baomoi_news" =>
         \A h \in 1..Len(listing[kw]) :
           h <= Len(got) * PageSize /\ Kind[listing[kw][h]] \in Keeps
             => ~IsOld(listing[kw][h])
    /\ src = "tinhte_forum" /\ pc \in {"sort", "read"} => widget.page = Len(got) + 1
    /\ src = "tinhte_forum" =>
         (pc = "read" \/ (pc = "ask" /\ got # <<>>) \/ (pc = "done" /\ result = "ok")
            => widget.byDate)
    /\ pc = "done" /\ result = "ok" => CutShort \/ ReadUpTo(MaxPages * PageSize)

\* The wanted links of the module are those of the positions below the limit.
LEMMA WantedPlaces ==
  ASSUME TypeOK, pc # "idle", src = "tinhte_forum" => widget.byDate,
         NEW l \in Wanted
  PROVE  \E i \in 1..Len(listing[kw]) :
           i <= MaxPages * PageSize /\ Wants(listing[kw], i) /\ l = listing[kw][i]
<1>1. PICK s \in Seq(Link) : s = listing[kw]
  BY PagesAssumption DEF PagesAssumption, TypeOK
<1>2. PICK z \in Nat : z = Len(s)
  OBVIOUS
<1>3. PICK m \in Nat : m = MaxPages * PageSize
  BY PagesAssumption, WholePages DEF PagesAssumption
<1>4. PICK e \in Nat : e = Least(m, z) /\ e <= m /\ e <= z
  <2>1. Least(m, z) \in Nat /\ Least(m, z) <= m /\ Least(m, z) <= z
    BY DEF Least
  <2>2. QED BY <2>1
<1>5. PICK r : r = SubSeq(s, 1, e)
  OBVIOUS
<1>6. r \in Seq(Link) /\ DOMAIN r = 1..e /\ \A i \in 1..e : r[i] = s[i]
  <2>1. \A i \in 1..e : s[i] \in Link
    BY <1>2, <1>4
  <2>2. /\ r \in Seq(Link) /\ Len(r) = IF 1 <= e THEN e - 1 + 1 ELSE 0
        /\ \A i \in 1 .. (e - 1 + 1) : r[i] = s[1 + i - 1]
    BY <1>5, <2>1, SubSeqProperties
  <2>3. QED BY <2>2
<1>7. l \in IF src = "baomoi_news" THEN Recent(r) ELSE Kept(r)
  BY <1>1, <1>2, <1>3, <1>4, <1>5 DEF Wanted, Results
<1>8. CASE src = "baomoi_news"
  <2>1. l \in Recent(r)
    BY <1>7, <1>8
  <2>2. PICK i \in 1..e : /\ l = r[i] /\ Kind[r[i]] \in Keeps
                         /\ \A h \in 1..e : Kind[r[h]] \in Keeps /\ h <= i => ~IsOld(r[h])
    BY <1>6, <2>1 DEF Recent, Cards
  <2>3. Wants(s, i)
    <3>1. ASSUME NEW h \in 1..i, Kind[s[h]] \in Keeps PROVE ~IsOld(s[h])
      <4>1. h \in 1..e /\ h <= i
        OBVIOUS
      <4>2. r[h] = s[h]
        BY <1>6, <4>1
      <4>3. QED BY <2>2, <3>1, <4>1, <4>2
    <3>2. Kind[s[i]] \in Keeps
      BY <1>6, <2>2
    <3>3. QED BY <3>1, <3>2 DEF Wants
  <2>4. i \in 1..z /\ i <= m /\ l = s[i]
    BY <1>4, <1>6, <2>2
  <2>5. QED BY <1>1, <1>2, <1>3, <2>3, <2>4
<1>9. CASE src # "baomoi_news"
  <2>1. PICK i \in 1..e : l = r[i] /\ Kind[l] \in Keeps
    BY <1>6, <1>7, <1>9, KeptLinks
  <2>2. i \in 1..z /\ i <= m /\ l = s[i]
    BY <1>4, <1>6, <2>1
  <2>3. Wants(s, i)
    BY <1>9, <2>1, <2>2 DEF Wants
  <2>4. QED BY <1>1, <1>2, <1>3, <2>2, <2>3
<1>10. QED BY <1>8, <1>9

\* So an undisturbed run that is over has read to the end.
LEMMA ProgressReads ==
  TypeOK /\ Progress => ReadToTheEnd
<1> SUFFICES ASSUME TypeOK, Progress, result = "ok", clean, ~CutShort,
                    NEW l \in Wanted
             PROVE  l \in Returned \/ Final[l] \in Returned
  BY DEF ReadToTheEnd
<1>1. pc = "done"
  BY PagesAssumption DEF PagesAssumption, Outcome, TypeOK
<1>2. ReadUpTo(MaxPages * PageSize) /\ (src = "tinhte_forum" => widget.byDate)
  BY <1>1 DEF Progress
<1>3. PICK i \in 1..Len(listing[kw]) :
        i <= MaxPages * PageSize /\ Wants(listing[kw], i) /\ l = listing[kw][i]
  BY <1>1, <1>2, WantedPlaces
<1>4. QED BY <1>2, <1>3 DEF ReadUpTo, Has

\* The links of a page are the listing's next ones, and it keeps what is looked
\* for.
LEMMA PageKeeps ==
  ASSUME NEW s \in Seq(Link), NEW o \in Nat, NEW q \in Nat, q = PageSize,
         NEW i \in 1..Len(s), o < i, i <= o + q
  PROVE  /\ i - o \in DOMAIN Slice(s, o) /\ Slice(s, o)[i - o] = s[i]
         /\ Kind[s[i]] \in Keeps => s[i] \in Kept(Slice(s, o))
<1>1. Len(s) \in Nat
  OBVIOUS
<1>2. PICK j \in 1..q : j = i - o /\ o + j = i /\ o + j <= Len(s)
  BY <1>1
<1>3. i - o \in DOMAIN Slice(s, o) /\ Slice(s, o)[i - o] = s[i]
  <2>1. j \in DOMAIN Slice(s, o)
    BY <1>2, SliceHolds
  <2>2. Slice(s, o)[j] = s[o + j]
    BY <2>1, SliceHolds
  <2>3. QED BY <1>2, <2>1, <2>2
<1>4. Slice(s, o) \in Seq(Link)
  BY SliceHolds
<1>5. QED BY <1>3, <1>4, KeptLinks

\* A page that holds what is wanted of the next links of the listing carries the
\* run on, and may be the last if it cuts the run short or nothing beyond it is
\* wanted.
LEMMA PageReads ==
  ASSUME TypeOK, Position, Running, Progress, clean,
         NEW U \in SUBSET Link, NEW more \in BOOLEAN, Answer(U, more),
         NEW s \in Seq(Link), s = listing[kw],
         NEW n \in Nat, n = Len(got), NEW q \in Nat, q = PageSize,
         NEW o \in Nat, o = n * q,
         \A i \in 1..Len(s) : o < i /\ i <= o + q /\ Wants(s, i)
           => s[i] \in Returned \cup U \/ Final[s[i]] \in Returned \cup U,
         src = "baomoi_news" /\ more =>
           \A h \in 1..Len(s) : o < h /\ h <= o + q /\ Kind[s[h]] \in Keeps
             => ~IsOld(s[h]),
         ~more => \/ n + 1 = MaxPages \/ CutShort'
                  \/ \A i \in 1..Len(s) : o + q < i => ~Wants(s, i),
         src = "tinhte_forum" => widget'.byDate
  PROVE  Progress'
<1>1. Returned' = Returned \cup U
  BY ReturnedMore
<1>2. /\ src' = src /\ listing' = listing /\ kw' = kw /\ Len(got') = n + 1
      /\ \/ pc' = "ask" /\ more /\ result' = None
         \/ pc' = "done" /\ result' = "ok" /\ (~more \/ n + 1 = MaxPages)
  <2>1. /\ src' = src /\ listing' = listing /\ kw' = kw
        /\ Len(got') = Len(got) + 1
        /\ \/ pc' = "ask" /\ more /\ result' = None
           \/ pc' = "done" /\ result' = "ok" /\ (~more \/ Len(got) + 1 = MaxPages)
    BY AnswerMoves
  <2>2. QED BY <2>1
<1>3. PICK e \in Nat : e = (n + 1) * q /\ e = o + q
  BY WholePages, PagesAssumption DEF PagesAssumption
<1>4. \A i : Wants(s, i)' <=> Wants(s, i)
  BY <1>2 DEF Wants, Keeps
<1>5. \A i \in 1..Len(s) : i <= o /\ Wants(s, i) => Has(s[i])
  BY DEF Progress, ReadUpTo
<1>6. \A i \in 1..Len(s) : i <= e /\ Wants(s, i)
        => s[i] \in Returned \cup U \/ Final[s[i]] \in Returned \cup U
  <2> SUFFICES ASSUME NEW i \in 1..Len(s), i <= e, Wants(s, i)
               PROVE  s[i] \in Returned \cup U \/ Final[s[i]] \in Returned \cup U
    OBVIOUS
  <2>1. CASE i <= o
    BY <1>5, <2>1 DEF Has
  <2>2. CASE o < i
    BY <1>3, <2>2
  <2>3. QED BY <2>1, <2>2
<1>7. ReadUpTo(e)'
  BY <1>1, <1>2, <1>4, <1>6 DEF ReadUpTo, Has
<1>8. Len(got') * PageSize = e
  BY <1>2, <1>3
<1>9. CASE pc' = "ask"
  <2>1. more
    BY <1>2, <1>9
  <2>2. ReadUpTo(Len(got) * PageSize)'
    BY <1>2, <1>7, <1>8 DEF ReadUpTo
  <2>3. ASSUME src = "baomoi_news", NEW h \in 1..Len(s), h <= e, Kind[s[h]] \in Keeps
        PROVE  ~IsOld(s[h])
    <3>1. CASE h <= o
      BY <2>3, <3>1 DEF Progress
    <3>2. CASE o < h
      BY <1>3, <2>1, <2>3, <3>2
    <3>3. QED BY <3>1, <3>2
  <2>4. Keeps' = Keeps
    BY <1>2 DEF Keeps
  <2>5. (src = "baomoi_news" =>
           \A h \in 1..Len(listing[kw]) :
             h <= Len(got) * PageSize /\ Kind[listing[kw][h]] \in Keeps
               => ~IsOld(listing[kw][h]))'
    BY <1>2, <1>8, <2>3, <2>4 DEF IsOld
  <2>6. QED BY <1>2, <1>9, <2>2, <2>5 DEF Progress
<1>10. CASE pc' = "done"
  <2>1. CutShort' \/ ReadUpTo(MaxPages * PageSize)'
    <3>1. CASE n + 1 = MaxPages
      <4>1. MaxPages * PageSize = e
        BY <1>3, <3>1
      <4>2. QED BY <1>7, <4>1
    <3>2. CASE ~more /\ ~CutShort' /\ n + 1 # MaxPages
      <4>1. \A i \in 1..Len(s) : Wants(s, i) => i <= e
        BY <1>3, <3>2
      <4>2. QED BY <1>1, <1>2, <1>4, <1>6, <4>1 DEF ReadUpTo, Has
    <3>3. QED BY <1>2, <1>10, <3>1, <3>2
  <2>2. ~Running'
    BY <1>10 DEF Running
  <2>3. QED BY <1>2, <1>10, <2>1, <2>2 DEF Progress
<1>11. QED BY <1>2, <1>9, <1>10

\* A page that a source takes for the end is the last one allowed, cuts the run
\* short, or ends the listing.
LEMMA StopsAtEnd ==
  ASSUME TypeOK, Position, Running,
         NEW U \in SUBSET Link, Answer(U, FALSE),
         NEW s \in Seq(Link), s = listing[kw],
         NEW n \in Nat, n = Len(got), NEW q \in Nat \ {0}, q = PageSize,
         NEW o \in Nat, o = n * q,
         NEW S \in SUBSET Link, S = Kept(Slice(s, o)),
         \/ src \in Counting /\ Cardinality(S) < q
         \/ src \in {"naver_stock", "baomoi_news"} /\ S = {}
         \/ src = "duckduckgo_news" /\ U = {} /\ S # {} /\ S \subseteq Returned
  PROVE  n + 1 = MaxPages \/ CutShort' \/ \A i \in 1..Len(s) : ~(o + q < i)
<1>a. PICK m \in BOOLEAN : ~m
  OBVIOUS
<1>b. Answer(U, m)
  BY <1>a DEF Answer
<1>1. /\ src' = src /\ listing' = listing /\ kw' = kw
      /\ Len(got') = n + 1 /\ got'[n + 1] = U
  BY <1>b, AnswerMoves
<1>2. Returned' = Returned \cup U
  BY <1>b, ReturnedMore
<1>3. PICK e \in Nat : e = (n + 1) * q /\ e = o + q
  BY WholePages
<1>4. SUFFICES ASSUME n + 1 # MaxPages, NEW i \in 1..Len(s), e < i
               PROVE  CutShort'
  BY <1>3
<1>5. n + 1 < MaxPages
  BY <1>4, PagesAssumption DEF PagesAssumption, Position
<1>6. Len(got') * PageSize = e /\ e < Len(s)
  BY <1>1, <1>3, <1>4
<1>7. (Len(got') - 1) * PageSize = o
  <2>1. (n + 1) - 1 = n
    OBVIOUS
  <2>2. QED BY <1>1, <2>1
<1>8. Kept(Slice(listing[kw], (Len(got) - 1) * PageSize))' = S
  BY <1>1, <1>7 DEF Kept, Keeps, Slice
<1>9. src = "duckduckgo_news" /\ U = {} => got'[Len(got')] = {} /\ Returned' = Returned
  BY <1>1, <1>2
<1>10. QED BY <1>1, <1>5, <1>6, <1>8, <1>9 DEF CutShort

\* An exception ends a run without a success.
LEMMA RaiseProgress ==
  ASSUME Raised
  PROVE  Progress'
<1>1. PICK how \in Outcome \ {"ok"} : Raise(how)
  BY DEF Raised
<1>2. pc' = "done" /\ result' # "ok"
  BY <1>1 DEF Raise
<1>3. ~Running' /\ pc' \notin {"sort", "read", "ask"}
  BY <1>2 DEF Running
<1>4. QED BY <1>2, <1>3, Zenon DEF Progress

\* What a page keeps is finite.
LEMMA KeptFinite ==
  ASSUME NEW p \in Seq(Link)
  PROVE  IsFiniteSet(Kept(p))
<1>1. IsFiniteSet(DOMAIN p)
  <2>1. Len(p) \in Nat /\ DOMAIN p = 1..Len(p)
    OBVIOUS
  <2>2. 1 \in Int /\ Len(p) \in Int
    BY <2>1
  <2>3. IsFiniteSet(1..Len(p))
    BY <2>2, FS_Interval
  <2>4. QED BY <2>1, <2>3
<1>2. PICK D : D = {i \in DOMAIN p : Kind[p[i]] \in Keeps}
  OBVIOUS
<1>3. IsFiniteSet(D)
  BY <1>1, <1>2, FS_Subset
<1>4. PICK g : g = [i \in D |-> p[i]]
  OBVIOUS
<1>5. g \in Surjection(D, Kept(p))
  <2>1. \A l : l \in Kept(p) <=> \E i \in DOMAIN p : l = p[i] /\ Kind[l] \in Keeps
    BY KeptLinks
  <2>2. g \in [D -> Kept(p)] /\ \A l \in Kept(p) : \E i \in D : g[i] = l
    BY <1>2, <1>4, <2>1
  <2>3. QED BY <2>2 DEF Surjection
<1>6. QED BY <1>3, <1>5, FS_Surjection

\* The sources that count articles.
LEMMA CountedProgress ==
  ASSUME TypeOK, Position, Progress, clean, pc = "ask", src \in Counting,
         NEW A, Counted(Slice(listing[kw], Offset), A),
         A \subseteq Resolved(Kept(Slice(listing[kw], Offset)))
  PROVE  Progress'
<1>1. Running /\ src # "baomoi_news" /\ src # "tinhte_forum"
  BY DEF Running, Counting
<1>2. PICK n \in Nat : n = Len(got)
  BY DEF TypeOK
<1>3. PICK q \in Nat \ {0} : q = PageSize
  BY PagesAssumption DEF PagesAssumption
<1>4. PICK o \in Nat : o = n * q /\ o = Offset
  <2>1. Offset = n * q /\ n * q \in Nat
    BY <1>1, <1>2, <1>3, Place, WholePages
  <2>2. QED BY <2>1
<1>5. PICK s \in Seq(Link) : s = listing[kw]
  BY <1>1, ListingOfRun
<1>6. PICK p \in Seq(Link) : p = Slice(s, o)
  BY SliceHolds
<1>7. ASSUME NEW i \in 1..Len(s), o < i, i <= o + q, Wants(s, i)
      PROVE  s[i] \in Kept(p)
  BY <1>3, <1>6, <1>7, PageKeeps DEF Wants
<1>8. PICK S \in SUBSET Link : S = Kept(p)
  BY KeptLinks
<1>9. CASE Kept(p) = {}
  <2>1. Empty(p = <<>>)
    BY <1>4, <1>5, <1>6, <1>9 DEF Counted
  <2>2. CASE Raise("blocked")
    BY <2>2, RaiseProgress DEF Raised, Outcome
  <2>3. CASE Answer({}, FALSE)
    <3>1. {} \in SUBSET Link /\ Cardinality(S) < q
      BY <1>3, <1>8, <1>9, FS_EmptySet
    <3>2. n + 1 = MaxPages \/ CutShort' \/ \A i \in 1..Len(s) : ~(o + q < i)
      BY <1>1, <1>2, <1>3, <1>4, <1>5, <1>6, <1>8, <2>3, <3>1, StopsAtEnd
    <3>3. \A i \in 1..Len(s) : ~(o < i /\ i <= o + q /\ Wants(s, i))
      BY <1>7, <1>9
    <3>4. QED BY <1>1, <1>2, <1>3, <1>4, <1>5, <2>3, <3>1, <3>2, <3>3, PageReads
  <2>4. QED BY <2>1, <2>2, <2>3 DEF Empty
<1>10. CASE Kept(p) # {}
  <2>1. PICK U \in A : Answer(U, Cardinality(Kept(p)) >= PageSize)
    BY <1>4, <1>5, <1>6, <1>10 DEF Counted
  <2>2. PICK more \in BOOLEAN : more <=> Cardinality(Kept(p)) >= PageSize
    OBVIOUS
  <2>3. Answer(U, more)
    BY <2>1, <2>2 DEF Answer
  <2>5. U \in Resolved(S)
    BY <1>4, <1>5, <1>6, <1>8
  <2>6. U \in SUBSET Link /\ \A l \in S : l \in U \/ Final[l] \in U
    BY <2>5, ResolvedLinks
  <2>7. ~more => n + 1 = MaxPages \/ CutShort' \/ \A i \in 1..Len(s) : ~(o + q < i)
    <3>1. SUFFICES ASSUME ~more
                   PROVE  n + 1 = MaxPages \/ CutShort' \/ \A i \in 1..Len(s) : ~(o + q < i)
      OBVIOUS
    <3>2. Answer(U, FALSE)
      BY <2>3, <3>1 DEF Answer
    <3>3. Cardinality(S) < q
      <4>1. IsFiniteSet(S)
        BY <1>6, <1>8, KeptFinite
      <4>2. Cardinality(S) \in Nat
        BY <4>1, FS_CardinalityType
      <4>3. QED BY <1>3, <1>8, <2>2, <3>1, <4>2
    <3>4. QED BY <1>1, <1>2, <1>3, <1>4, <1>5, <1>6, <1>8, <2>6, <3>2, <3>3, StopsAtEnd
  <2>8. \A i \in 1..Len(s) : o < i /\ i <= o + q /\ Wants(s, i)
          => s[i] \in Returned \cup U \/ Final[s[i]] \in Returned \cup U
    BY <1>7, <1>8, <2>6
  <2>9. QED BY <1>1, <1>2, <1>3, <1>4, <1>5, <2>3, <2>6, <2>7, <2>8, PageReads
<1>11. QED BY <1>9, <1>10

\* naver_stock reads on until a page is empty.
LEMMA BoardProgress ==
  ASSUME TypeOK, Position, Progress, clean, pc = "ask", DiscoverBoard
  PROVE  Progress'
<1>1. Running
  BY DEF Running
<1>2. PICK n \in Nat : n = Len(got)
  BY DEF TypeOK
<1>3. PICK q \in Nat \ {0} : q = PageSize
  BY PagesAssumption DEF PagesAssumption
<1>4. PICK o \in Nat : o = n * q /\ o = Offset
  <2>1. Offset = n * q /\ n * q \in Nat
    BY <1>1, <1>2, <1>3, Place, WholePages
  <2>2. QED BY <2>1
<1>5. PICK s \in Seq(Link) : s = listing[kw]
  BY <1>1, ListingOfRun
<1>6. PICK p \in Seq(Link) : p = Slice(s, o)
  BY SliceHolds
<1>7. PICK U \in SUBSET Link : U = Kept(p)
  BY KeptLinks
<1>8. PICK more \in BOOLEAN : more <=> U # {}
  OBVIOUS
<1>9. src = "naver_stock" /\ Answer(U, more)
  <2>1. src = "naver_stock" /\ Answer(U, U # {})
    BY <1>4, <1>5, <1>6, <1>7 DEF DiscoverBoard, Http
  <2>2. QED BY <1>8, <2>1 DEF Answer
<1>10. \A i \in 1..Len(s) : o < i /\ i <= o + q /\ Wants(s, i) => s[i] \in Returned \cup U
  BY <1>3, <1>6, <1>7, PageKeeps DEF Wants
<1>11. ~more => n + 1 = MaxPages \/ CutShort' \/ \A i \in 1..Len(s) : ~(o + q < i)
  <2>1. SUFFICES ASSUME ~more
                 PROVE  n + 1 = MaxPages \/ CutShort' \/ \A i \in 1..Len(s) : ~(o + q < i)
    OBVIOUS
  <2>2. Answer(U, FALSE) /\ U = {}
    BY <1>8, <1>9, <2>1 DEF Answer
  <2>3. QED BY <1>1, <1>2, <1>3, <1>4, <1>5, <1>6, <1>7, <1>9, <2>2, StopsAtEnd
<1>12. QED BY <1>1, <1>2, <1>3, <1>4, <1>5, <1>9, <1>10, <1>11, PageReads

\* baomoi_news reads on until a page shows an old article or no article.
LEMMA BaomoiProgress ==
  ASSUME TypeOK, Position, Progress, clean, pc = "ask", DiscoverBaomoi
  PROVE  Progress'
<1>1. Running
  BY DEF Running
<1>2. PICK n \in Nat : n = Len(got)
  BY DEF TypeOK
<1>3. PICK q \in Nat \ {0} : q = PageSize
  BY PagesAssumption DEF PagesAssumption
<1>4. PICK o \in Nat : o = n * q /\ o = Offset
  <2>1. Offset = n * q /\ n * q \in Nat
    BY <1>1, <1>2, <1>3, Place, WholePages
  <2>2. QED BY <2>1
<1>5. PICK s \in Seq(Link) : s = listing[kw]
  BY <1>1, ListingOfRun
<1>6. PICK p \in Seq(Link) : p = Slice(s, o)
  BY SliceHolds
<1>7. PICK U \in SUBSET Link : U = Recent(p)
  BY KeptLinks
<1>8. PICK more \in BOOLEAN : more = MoreCards(p)
  BY DEF MoreCards
<1>9. src = "baomoi_news" /\ (Raise("error") \/ Answer(U, more))
  BY <1>4, <1>5, <1>6, <1>7, <1>8 DEF DiscoverBaomoi, Http
<1>10. CASE Raise("error")
  BY <1>10, RaiseProgress DEF Raised, Outcome
<1>11. CASE Answer(U, more)
  <2>1. \A j \in DOMAIN p : j \in 1..q /\ o + j \in 1..Len(s) /\ p[j] = s[o + j]
    <3>1. DOMAIN p = {j \in 1..q : o + j <= Len(s)}
      BY <1>3, <1>6, SliceHolds
    <3>2. \A j \in DOMAIN p : p[j] = s[o + j]
      BY <1>6, SliceHolds
    <3>3. QED BY <3>1, <3>2
  <2>2. ASSUME NEW i \in 1..Len(s), o < i, i <= o + q
        PROVE  \E j \in DOMAIN p : i = o + j /\ p[j] = s[i]
    <3>1. i - o \in DOMAIN p /\ p[i - o] = s[i] /\ i = o + (i - o)
      BY <1>3, <1>6, <2>2, PageKeeps
    <3>2. QED BY <3>1
  <2>3. ASSUME NEW i \in 1..Len(s), o < i, i <= o + q, Wants(s, i)
        PROVE  s[i] \in U
    <3>1. PICK j \in DOMAIN p : i = o + j /\ p[j] = s[i]
      BY <2>2, <2>3
    <3>2. j \in Cards(p)
      BY <2>3, <3>1 DEF Wants, Cards
    <3>3. ASSUME NEW h \in Cards(p), h <= j PROVE ~IsOld(p[h])
      <4>1. h \in DOMAIN p /\ Kind[p[h]] \in Keeps
        BY DEF Cards
      <4>2. o + h \in 1..i /\ p[h] = s[o + h]
        BY <2>1, <3>1, <3>3, <4>1
      <4>3. QED BY <1>9, <2>3, <4>1, <4>2 DEF Wants
    <3>4. QED BY <1>7, <3>1, <3>2, <3>3 DEF Recent
  <2>4. ASSUME more, NEW h \in 1..Len(s), o < h, h <= o + q, Kind[s[h]] \in Keeps
        PROVE  ~IsOld(s[h])
    <3>1. PICK j \in DOMAIN p : p[j] = s[h]
      BY <2>2, <2>4
    <3>2. QED BY <1>8, <2>4, <3>1 DEF MoreCards, Cards
  <2>5. CASE Cards(p) = {}
    <3>1. Kept(p) = {} /\ {} \in SUBSET Link
      BY <2>5, KeptLinks DEF Cards
    <3>2. Answer(U, FALSE)
      BY <1>8, <1>11, <2>5 DEF MoreCards
    <3>4. n + 1 = MaxPages \/ CutShort' \/ \A i \in 1..Len(s) : ~(o + q < i)
      BY <1>1, <1>2, <1>3, <1>4, <1>5, <1>6, <1>9, <3>1, <3>2, StopsAtEnd
    <3>5. QED
      BY <1>1, <1>2, <1>3, <1>4, <1>5, <1>9, <1>11, <2>3, <2>4, <3>4, PageReads
  <2>6. CASE Cards(p) # {}
    <3>1. ASSUME ~more, NEW i \in 1..Len(s), o + q < i PROVE ~Wants(s, i)
      <4>1. PICK j \in Cards(p) : IsOld(p[j])
        BY <1>8, <2>6, <3>1 DEF MoreCards
      <4>2. j \in DOMAIN p /\ Kind[p[j]] \in Keeps
        BY DEF Cards
      <4>3. o + j \in 1..i /\ p[j] = s[o + j]
        BY <2>1, <3>1, <4>2
      <4>4. QED BY <1>9, <4>1, <4>2, <4>3 DEF Wants
    <3>2. QED
      BY <1>1, <1>2, <1>3, <1>4, <1>5, <1>9, <1>11, <2>3, <2>4, <3>1, PageReads
  <2>7. QED BY <2>5, <2>6
<1>12. QED BY <1>9, <1>10, <1>11

\* duckduckgo_news reads on until the server promises nothing or repeats itself;
\* what it leaves out of a page the run has returned before.
LEMMA DuckProgress ==
  ASSUME TypeOK, Position, Apart, Progress, clean, pc = "ask", DiscoverDuck
  PROVE  Progress'
<1>1. Running
  BY DEF Running
<1>2. PICK n \in Nat : n = Len(got)
  BY DEF TypeOK
<1>3. PICK q \in Nat \ {0} : q = PageSize
  BY PagesAssumption DEF PagesAssumption
<1>4. PICK o \in Nat : o = n * q /\ o = Offset
  <2>1. Offset = n * q /\ n * q \in Nat
    BY <1>1, <1>2, <1>3, Place, WholePages
  <2>2. QED BY <2>1
<1>5. PICK s \in Seq(Link) : s = listing[kw]
  BY <1>1, ListingOfRun
<1>6. PICK p \in Seq(Link), m \in BOOLEAN :
        /\ p = Slice(s, o) \/ ~(o < Len(s))
        /\ o + q < Len(s) => m
        /\ Answer(Kept(p) \ Seen, m /\ ~(Kept(p) # {} /\ Kept(p) \ Seen = {}))
  BY <1>3, <1>4, <1>5, DuckPage
<1>7. src = "duckduckgo_news" /\ Seen = Returned
  BY <1>1 DEF DiscoverDuck, Http, Apart
<1>8. PICK S \in SUBSET Link : S = Kept(p)
  BY KeptLinks
<1>9. PICK U \in SUBSET Link : U = S \ Seen
  BY <1>8
<1>10. PICK more \in BOOLEAN : more <=> m /\ ~(S # {} /\ U = {})
  OBVIOUS
<1>11. Answer(U, more)
  <2>1. Answer(U, m /\ ~(S # {} /\ U = {}))
    BY <1>6, <1>8, <1>9
  <2>2. QED BY <1>10, <2>1 DEF Answer
<1>12. ASSUME NEW i \in 1..Len(s), o < i, i <= o + q, Wants(s, i)
       PROVE  s[i] \in Returned \cup U
  <2>1. p = Slice(s, o)
    BY <1>6, <1>12
  <2>2. s[i] \in S
    BY <1>3, <1>8, <1>12, <2>1, PageKeeps DEF Wants
  <2>3. QED BY <1>7, <1>9, <2>2
<1>13. ASSUME ~more
       PROVE  n + 1 = MaxPages \/ CutShort' \/ \A i \in 1..Len(s) : ~(o + q < i)
  <2>1. CASE ~m \/ ~(o < Len(s))
    <3>1. Len(s) <= o + q
      BY <1>6, <2>1
    <3>2. QED BY <3>1
  <2>2. CASE m /\ o < Len(s)
    <3>1. S # {} /\ U = {} /\ p = Slice(s, o)
      BY <1>6, <1>10, <1>13, <2>2
    <3>2. S \subseteq Returned /\ Answer(U, FALSE)
      BY <1>7, <1>9, <1>10, <1>11, <1>13, <3>1 DEF Answer
    <3>3. S = Kept(Slice(s, o))
      BY <1>8, <3>1
    <3>4. QED BY <1>1, <1>2, <1>3, <1>4, <1>5, <1>7, <3>1, <3>2, <3>3, StopsAtEnd
  <2>3. QED BY <2>1, <2>2
<1>14. QED
  BY <1>1, <1>2, <1>3, <1>4, <1>5, <1>7, <1>11, <1>12, <1>13, PageReads

\* Every HTTP adapter; a block or a failed request disturbs the run.
LEMMA HttpProgress ==
  ASSUME TypeOK, Position, Apart, Progress, DiscoverHttp
  PROVE  Progress'
<1>1. pc = "ask" /\ Running
  BY HttpKinds DEF Running
<1>2. CASE Blocked \/ RequestFails
  BY <1>2 DEF Blocked, RequestFails, Fault, Progress
<1>3. CASE ~clean
  <2>1. clean' = clean \/ clean' = FALSE
    BY DEF DiscoverHttp, DiscoverNaver, DiscoverDaum, DiscoverBaidu, DiscoverBoard,
       DiscoverBaomoi, DiscoverDuck, Counted, NoFault, Blocked, RequestFails, Fault
  <2>2. QED BY <1>3, <2>1 DEF Progress
<1>4. CASE clean
  <2>1. CASE DiscoverBoard \/ DiscoverBaomoi \/ DiscoverDuck
    BY <1>1, <1>4, <2>1, BoardProgress, BaomoiProgress, DuckProgress
  <2>2. CASE DiscoverDaum
    <3>1. /\ src \in Counting
          /\ Counted(Slice(listing[kw], Offset), Resolved(Kept(Slice(listing[kw], Offset))))
      BY <2>2 DEF DiscoverDaum, Http, Counting
    <3>2. PICK A : A = Resolved(Kept(Slice(listing[kw], Offset)))
      OBVIOUS
    <3>3. QED BY <1>1, <1>4, <3>1, <3>2, CountedProgress
  <2>3. CASE DiscoverNaver \/ DiscoverBaidu
    <3>1. /\ src \in Counting
          /\ Counted(Slice(listing[kw], Offset), {Kept(Slice(listing[kw], Offset))})
      BY <2>3 DEF DiscoverNaver, DiscoverBaidu, Http, Counting
    <3>2. PICK A : A = {Kept(Slice(listing[kw], Offset))}
      OBVIOUS
    <3>3. ASSUME NEW S PROVE S \in Resolved(S)
      <4>1. PICK R : R = {l \in S : Kind[l] = "redirect"}
        OBVIOUS
      <4>2. S = (S \ R) \cup R \cup {Final[l] : l \in R \ R} /\ R \in SUBSET R
        BY <4>1
      <4>3. QED BY <4>1, <4>2 DEF Resolved
    <3>4. PICK S : S = Kept(Slice(listing[kw], Offset))
      OBVIOUS
    <3>5. A \subseteq Resolved(Kept(Slice(listing[kw], Offset)))
      BY <3>2, <3>3, <3>4
    <3>6. QED BY <1>1, <1>4, <3>1, <3>2, <3>5, CountedProgress
  <2>4. QED BY <1>2, <2>1, <2>2, <2>3 DEF DiscoverHttp
<1>5. QED BY <1>3, <1>4 DEF TypeOK

\* Tinhte: the browser shows the page after those returned, and the buttons cover
\* all pages there are.
LEMMA TinhteProgress ==
  ASSUME TypeOK, Position, Shown, Progress, DiscoverTinhte
  PROVE  Progress'
<1> USE DEF Tinhte, Goto
<1>1. src = "tinhte_forum" /\ Running
  BY TinhteKinds
<1>2. PICK n \in Nat : n = Len(got) /\ PageNum = n + 1 /\ (got = <<>> <=> n = 0)
  BY <1>1, Place
<1>3. PICK q \in Nat \ {0} : q = PageSize
  BY PagesAssumption DEF PagesAssumption
<1>4. PICK o \in Nat : o = n * q /\ (n + 1) * q = o + q
  BY WholePages
<1>5. PICK s \in Seq(Link) : s = listing[kw] /\ Len(Results) = Len(s)
  BY <1>1, ListingOfRun
<1>6. \A b \in Buttons : b \in Int /\ b >= (Len(s) + q - 1) \div q
  <2>1. PICK l \in Nat : l = Len(s)
    OBVIOUS
  <2>2. PICK d \in Int : d = (l + q - 1) \div q
    OBVIOUS
  <2>3. Buttons = {d, d + 1}
    BY <1>3, <1>5, <2>1, <2>2 DEF Buttons
  <2>4. QED BY <2>1, <2>2, <2>3
<1>7. widget \in [kw : Keyword \cup {None}, page : 0..MaxPages, byDate : BOOLEAN]
  BY DEF TypeOK
<1>8. CASE OpenFails \/ NoBox \/ SubmitFails \/ PageFails
  BY <1>8, RaiseProgress DEF OpenFails, NoBox, SubmitFails, PageFails, Raised, Outcome
<1>9. CASE SortFails \/ TurnLate
  BY <1>9 DEF SortFails, TurnLate, Fault, Progress
<1>10. CASE ~clean
  <2>1. CASE OpenSearch \/ Submit \/ SortByDate \/ TurnPage \/ ReadResults
    BY <1>10, <2>1 DEF OpenSearch, Submit, SortByDate, TurnPage, ReadResults, NoFault,
       Progress
  <2>2. QED BY <1>8, <1>9, <2>1 DEF DiscoverTinhte
<1>11. ASSUME clean, pc' \in {"submit", "sort", "read"},
              UNCHANGED <<src, listing, kw, cursor, got, result>>,
              pc' \in {"sort", "read"} => widget'.page = Len(got) + 1,
              pc' = "read" => widget'.byDate
       PROVE  Progress'
  <2>1. ReadUpTo(Len(got) * PageSize)
    BY <1>1, <1>11 DEF Progress
  <2>2. ReadUpTo(Len(got) * PageSize)'
    BY <1>11, <2>1 DEF ReadUpTo, Wants, Has, Returned, Keeps
  <2>3. pc' \notin {"ask", "done"}
    BY <1>11
  <2>4. QED BY <1>1, <1>11, <2>2, <2>3 DEF Progress
<1>12. ASSUME clean, OpenSearch PROVE Progress'
  BY <1>11, <1>12 DEF OpenSearch
<1>13. ASSUME clean, Submit PROVE Progress'
  <2>1. /\ pc' = "sort" /\ widget'.page = 1
        /\ UNCHANGED <<src, listing, kw, cursor, got, result>>
    BY <1>13 DEF Submit
  <2>2. Len(got) = 0
    BY <1>2, <1>13 DEF Submit, Position
  <2>3. QED BY <1>11, <1>13, <2>1, <2>2
<1>14. ASSUME clean, SortByDate PROVE Progress'
  <2>1. /\ pc = "sort" /\ pc' = "read" /\ widget' = [widget EXCEPT !.byDate = TRUE]
        /\ UNCHANGED <<src, listing, kw, cursor, got, result>>
    BY <1>14 DEF SortByDate
  <2>2. widget'.page = widget.page /\ widget'.byDate
    BY <1>7, <2>1
  <2>3. widget.page = Len(got) + 1
    BY <1>1, <1>14, <2>1 DEF Progress
  <2>4. QED BY <1>11, <1>14, <2>1, <2>2, <2>3
<1>15. ASSUME clean, TurnPage PROVE Progress'
  <2>1. pc = "ask" /\ got # <<>> /\ widget.byDate
    BY <1>1, <1>2, <1>15 DEF TurnPage, Progress
  <2>2. PICK b \in Buttons :
          \/ PageNum <= b /\ widget' = [widget EXCEPT !.page = PageNum] /\ Goto("read")
          \/ PageNum > b /\ UNCHANGED widget /\ Answer({}, FALSE)
    BY <1>15 DEF TurnPage
  <2>3. CASE widget' = [widget EXCEPT !.page = PageNum] /\ Goto("read")
    <3>1. widget'.page = Len(got) + 1 /\ widget'.byDate
      BY <1>2, <1>7, <2>1, <2>3
    <3>2. QED BY <1>11, <1>15, <2>3, <3>1
  <2>4. CASE PageNum > b /\ UNCHANGED widget /\ Answer({}, FALSE)
    <3>1. b \in Int /\ n >= b /\ b >= (Len(s) + q - 1) \div q /\ Len(s) \in Nat
      BY <1>2, <1>6, <2>4
    <3>2. n >= (Len(s) + q - 1) \div q
      BY <3>1
    <3>3. o >= Len(s)
      BY <1>4, <3>1, <3>2, PagesHoldAll
    <3>4. \A i \in 1..Len(s) : ~(o < i) /\ ~(o + q < i)
      BY <3>1, <3>3
    <3>5. {} \in SUBSET Link /\ widget'.byDate
      BY <2>1, <2>4
    <3>6. QED
      BY <1>1, <1>2, <1>3, <1>4, <1>5, <1>15, <2>4, <3>4, <3>5, PageReads
  <2>5. QED BY <2>2, <2>3, <2>4
<1>16. ASSUME clean, ReadResults PROVE Progress'
  <2>1. pc = "read" /\ widget.page = n + 1 /\ widget.byDate /\ widget' = widget
    BY <1>1, <1>2, <1>16 DEF ReadResults, Progress
  <2>2. Results = s /\ (widget.page - 1) * PageSize = o
    <3>1. (n + 1) - 1 = n
      OBVIOUS
    <3>2. QED BY <1>3, <1>4, <1>5, <2>1, <3>1 DEF Results
  <2>3. PICK U \in SUBSET Link : U = Kept(Slice(s, o))
    BY SliceHolds, KeptLinks
  <2>4. PICK b \in Buttons : Answer(U, PageNum + 1 <= b)
    BY <1>16, <2>2, <2>3 DEF ReadResults
  <2>5. PICK more \in BOOLEAN : more <=> PageNum + 1 <= b
    OBVIOUS
  <2>6. Answer(U, more)
    BY <2>4, <2>5 DEF Answer
  <2>7. \A i \in 1..Len(s) : o < i /\ i <= o + q /\ Wants(s, i) => s[i] \in U
    BY <1>3, <2>3, PageKeeps DEF Wants
  <2>8. ASSUME ~more, NEW i \in 1..Len(s) PROVE ~(o + q < i)
    <3>1. b \in Int /\ n + 1 >= b /\ b >= (Len(s) + q - 1) \div q /\ Len(s) \in Nat
      BY <1>2, <1>6, <2>5, <2>8
    <3>2. n + 1 >= (Len(s) + q - 1) \div q /\ n + 1 \in Nat
      BY <3>1
    <3>3. (n + 1) * q >= Len(s)
      BY <3>1, <3>2, PagesHoldAll
    <3>4. QED BY <1>4, <3>1, <3>3
  <2>9. QED
    BY <1>1, <1>2, <1>3, <1>4, <1>5, <1>16, <2>1, <2>6, <2>7, <2>8, PageReads
<1>17. QED
  BY <1>8, <1>9, <1>10, <1>12, <1>13, <1>14, <1>15, <1>16 DEF DiscoverTinhte, TypeOK

\* Progress is kept by every step.
LEMMA ProgressStep ==
  TypeOK /\ Position /\ Shown /\ Apart /\ Progress /\ [Next]_vars => Progress'
<1> SUFFICES ASSUME TypeOK, Position, Shown, Apart, Progress, [Next]_vars
             PROVE  Progress'
  OBVIOUS
<1>1. ASSUME NEW k \in Keyword, Begin(k) PROVE Progress'
  <2>1. got' = <<>> /\ pc' = "ask"
    BY <1>1 DEF Begin, Position
  <2>2. PICK s \in Seq(Link) : s = listing'[kw']
    BY <1>1, PagesAssumption DEF PagesAssumption, Begin, TypeOK
  <2>3. Len(got') * PageSize = 0
    BY <2>1, PagesAssumption DEF PagesAssumption
  <2>4. \A i \in 1..Len(s) : ~(i <= 0)
    OBVIOUS
  <2>5. QED BY <2>1, <2>2, <2>3, <2>4 DEF Progress, ReadUpTo
<1>2. CASE Finish
  BY <1>2 DEF Finish, Progress, Running
<1>3. CASE UNCHANGED vars
  <2>1. /\ UNCHANGED <<src, listing, pc, kw, cursor, got, result, clean, widget>>
        /\ Returned' = Returned /\ Keeps' = Keeps
    BY <1>3 DEF vars, run, Returned, Keeps
  <2>2. CutShort' <=> CutShort
    BY <2>1 DEF CutShort, Kept, Slice
  <2>3. /\ ReadUpTo(Len(got) * PageSize)' <=> ReadUpTo(Len(got) * PageSize)
        /\ ReadUpTo(MaxPages * PageSize)' <=> ReadUpTo(MaxPages * PageSize)
    BY <2>1 DEF ReadUpTo, Wants, Has
  <2>4. QED BY <2>1, <2>2, <2>3 DEF Progress, Running
<1>4. QED
  BY <1>1, <1>2, <1>3, HttpProgress, TinhteProgress DEF Next

-----------------------------------------------------------------------------
(* The theorems *)

PagesInv == TypeOK /\ Position /\ Shown /\ Told /\ Apart /\ Progress

\* Before the first run every adapter is fresh.
LEMMA PagesInit == Init => PagesInv
<1> SUFFICES ASSUME Init PROVE PagesInv
  OBVIOUS
<1>1. /\ <<>> \in Seq(SUBSET Link) /\ DOMAIN <<>> = {}
      /\ 0 \in 0..MaxFaults /\ 0 \in 0..MaxPages
  BY PagesAssumption DEF PagesAssumption
<1>2. TypeOK
  BY <1>1 DEF Init, TypeOK, Home
<1>3. Position /\ Shown /\ Told
  BY DEF Init, Position, Shown, Told, Running
<1>4. Apart
  BY <1>1 DEF Init, Apart, Running
<1>5. Progress
  BY DEF Init, Progress, Running
<1>6. QED BY <1>2, <1>3, <1>4, <1>5 DEF PagesInv

\* The invariant is inductive.
THEOREM PagesInvariant == Spec => []PagesInv
<1>1. Init => PagesInv
  BY PagesInit
<1>2. PagesInv /\ [Next]_vars => PagesInv'
  BY TypeStep, PositionStep, ShownStep, ToldStep, ApartStep, ProgressStep DEF PagesInv
<1>3. QED BY <1>1, <1>2, PTL DEF Spec

\* Phase, result and cursor of a call of discover go together.
THEOREM PagesTypes == Spec => []TypeOK
<1>1. PagesInv => TypeOK
  BY DEF PagesInv
<1>2. QED BY <1>1, PagesInvariant, PTL

\* Whatever a source counts (results from 1, results from 0, pages, a page with
\* the server's offset), the cursor the dispatcher hands back stands for the page
\* after those returned: no page is skipped or read twice.
THEOREM CursorsFollowPages == Spec => []CursorFollowsPages
<1>1. PagesInv => CursorFollowsPages
  <2> SUFFICES ASSUME PagesInv, pc = "ask"
               PROVE  /\ PageNum = Len(got) + 1 /\ Offset = Len(got) * PageSize
                      /\ PageNum <= MaxPages
    BY DEF CursorFollowsPages
  <2>1. TypeOK /\ Position /\ Running
    BY DEF PagesInv, Running
  <2>2. /\ PageNum = Len(got) + 1 /\ Offset = Len(got) * PageSize
        /\ Len(got) \in Nat /\ Len(got) < MaxPages
    BY <2>1, Place DEF Position
  <2>3. PageNum <= MaxPages
    BY <2>2, PagesAssumption DEF PagesAssumption
  <2>4. QED BY <2>2, <2>3
<1>2. QED BY <1>1, PagesInvariant, PTL

\* An undisturbed run returns every article of the pages below the limit, unless
\* a full page in the middle of the listing cuts it short by its repeats and its
\* links of other kinds; nothing an earlier keyword left in the adapter hides one.
THEOREM RunsReadToTheEnd == Spec => []ReadToTheEnd
<1>1. PagesInv => ReadToTheEnd
  BY ProgressReads DEF PagesInv
<1>2. QED BY <1>1, PagesInvariant, PTL

\* No link of an earlier page of a run comes back with a later one from
\* DuckDuckGo's adapter, however the server repeats itself.
THEOREM LinksComeOnce == Spec => []NoLinkComesBack
<1>1. PagesInv => NoLinkComesBack
  BY DEF PagesInv, Apart, NoLinkComesBack
<1>2. QED BY <1>1, PagesInvariant, PTL

\* The sources that can tell a block never end a blocked run as a success.
THEOREM BlocksAreTold == Spec => []BlockIsTold
<1>1. PagesInv => BlockIsTold
  BY PagesAssumption DEF PagesAssumption, Outcome, PagesInv, Told, BlockIsTold
<1>2. QED BY <1>1, PagesInvariant, PTL
=============================================================================
