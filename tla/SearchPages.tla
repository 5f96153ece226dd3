---------------------------- MODULE SearchPages ----------------------------
(***************************************************************************)
(* The adapters that read a search listing page by page: naver_news,       *)
(* daum_news, naver_stock, baomoi_news, duckduckgo_news, baidu_news and    *)
(* tinhte_forum.  One instance serves the worker's keywords one run after  *)
(* the other, so what an instance keeps between two calls of discover      *)
(* (DuckDuckGo's _seen_urls, the state of Tinhte's search widget) meets    *)
(* the next keyword.                                                       *)
(*                                                                         *)
(* A listing is a sequence of links in the source's order, PageSize to a   *)
(* page.  Only what the extractors tell apart is kept of a link: its kind, *)
(* its date (Bao Moi) and where it redirects to (Daum).                    *)
(* A call of an HTTP adapter is one step; Tinhte's call is a step per      *)
(* webdriver command that changes the widget.                              *)
(***************************************************************************)
EXTENDS Integers, Sequences, FiniteSets, SequencesExt

CONSTANTS
  Source,       \* the adapters looked at
  Keyword, None,
  Link,
  Kind,         \* Kind[l]: see LinkKind
  Date,         \* Date[l]: "fresh", "old", "undated" or "naive" (no time zone)
  Final,        \* Final[l]: where cp.news.search.daum.net sends a reader of l
  Listings,     \* listings the source may have: functions from Keyword
  PageSize,     \* links on a full page (10 in the code)
  MaxPages,
  FaultSites, MaxFaults

Site == {"block", "unreadable", "http", "home", "type", "return", "page",
         "sort", "late"}

\* An article on a publisher's host or on the portal's own content host, a
\* redirect to one, a publisher's front page, or a link of the search page
\* itself (menus, tags, rows without an address).
LinkKind == {"press", "hosted", "redirect", "front", "own"}

Counting == {"naver_news", "daum_news", "baidu_news"}
Telling == {"naver_news", "daum_news", "duckduckgo_news"}

Outcome == {"ok", "blocked", "nobox", "error"}

ASSUME PagesAssumption ==
  /\ Source \subseteq Counting \cup Telling \cup
                  {"naver_stock", "baomoi_news", "tinhte_forum"}
  /\ None \notin Keyword \cup Outcome /\ None \notin [n : Nat, offset : Nat]
  /\ Listings \subseteq [Keyword -> Seq(Link)]
  /\ Kind \in [Link -> LinkKind]
  /\ Date \in [Link -> {"fresh", "old", "undated", "naive"}]
  /\ Final \in [Link -> Link]
  /\ PageSize \in Nat \ {0} /\ MaxPages \in Nat \ {0}
  /\ FaultSites \subseteq Site /\ MaxFaults \in Nat

VARIABLES
  src, listing,
  pc,           \* "idle", "ask", Tinhte's "submit", "sort", "read", or "done"
  kw,           \* keyword of the run
  cursor,       \* the cursor of the next call
  got,          \* got[n]: links the n-th call of the run returned
  result,       \* how the run ended: "ok", "blocked", "nobox" or "error"
  hit,          \* did a block answer a request of this run?
  clean,        \* did nothing disturb this run?
  seenUrls,     \* DuckDuckGoNewsAdapter._seen_urls
  performed,    \* TinhteForumAdapter._search_performed
  widget,       \* what Tinhte's browser shows
  faults

run == <<kw, cursor, got, result, hit, clean>>
vars == <<src, listing, pc, run, seenUrls, performed, widget, faults>>

Fault(site) ==
  /\ site \in FaultSites
  /\ faults < MaxFaults
  /\ faults' = faults + 1
  /\ clean' = FALSE

NoFault == UNCHANGED <<faults, clean>>

\* The home page: search box visible, no results.
Home == [kw |-> None, page |-> 0, byDate |-> FALSE]

Init ==
  /\ src \in Source
  /\ listing \in Listings
  /\ pc = "idle"
  /\ kw = None
  /\ cursor = None
  /\ got = <<>>
  /\ result = None
  /\ hit = FALSE /\ clean = TRUE
  /\ seenUrls = {}
  /\ performed = FALSE
  /\ widget = Home
  /\ faults = 0

\* The dispatcher starts a run: discover(keyword, None).
Begin(k) ==
  /\ pc = "idle"
  /\ pc' = "ask"
  /\ kw' = k
  /\ UNCHANGED <<src, listing, cursor, got, result, hit, clean, seenUrls,
                 performed, widget, faults>>

\* The run is over, or the dispatcher stops it early at a page of duplicates.
Finish ==
  /\ \/ pc = "done"
     \/ pc = "ask" /\ got # <<>>
  /\ pc' = "idle"
  /\ kw' = None /\ cursor' = None /\ got' = <<>> /\ result' = None
  /\ hit' = FALSE /\ clean' = TRUE
  /\ UNCHANGED <<src, listing, seenUrls, performed, widget, faults>>

-----------------------------------------------------------------------------
(* Cursors *)

\* naver_news counts results from 1, baidu_news from 0, duckduckgo_news pairs
\* the page with the server's offset, the others count pages.
PageNum ==
  IF cursor = None THEN 1
  ELSE CASE src = "naver_news" -> (cursor.n - 1) \div PageSize + 1
         [] src = "baidu_news" -> cursor.n \div PageSize + 1
         [] OTHER -> cursor.n

Offset ==
  IF cursor = None THEN 0
  ELSE CASE src = "naver_news" -> cursor.n - 1
         [] src = "baidu_news" -> cursor.n
         [] src = "duckduckgo_news" -> cursor.offset
         [] OTHER -> (cursor.n - 1) * PageSize

\* Mutant: naver_news skips a result.
NextCursorSkips ==
  LET next == IF src \in {"naver_news", "baidu_news"}
              THEN Offset + PageSize + 2 ELSE PageNum + 1
  IN  [n |-> next, offset |-> Offset + PageSize]

NextCursor ==
  LET next == CASE src = "naver_news" -> Offset + 1 + PageSize
                [] src = "baidu_news" -> Offset + PageSize
                [] OTHER -> PageNum + 1
  IN  [n |-> next, offset |-> Offset + PageSize]

\* The limit is checked before a next page is promised, so the same check at
\* the start of every call never fires.
BelowLimit == PageNum < MaxPages

\* discover returns U.
Answer(U, more) ==
  LET goOn == more /\ BelowLimit
  IN  /\ got' = Append(got, U)
      /\ cursor' = IF goOn THEN NextCursor ELSE None
      /\ pc' = IF goOn THEN "ask" ELSE "done"
      /\ result' = IF goOn THEN None ELSE "ok"
      /\ UNCHANGED <<src, listing, kw>>

\* Mutant: the exception is lost on its way to the dispatcher.
RaiseSilently(how) ==
  /\ pc' = "done"
  /\ result' = None
  /\ UNCHANGED <<src, listing, kw, cursor, got>>

Raise(how) ==
  /\ pc' = "done"
  /\ result' = how
  /\ UNCHANGED <<src, listing, kw, cursor, got>>

-----------------------------------------------------------------------------
(* Listings and extractors *)

Least(a, b) == IF a < b THEN a ELSE b

Slice(s, off) == SubSeq(s, off + 1, Least(off + PageSize, Len(s)))

\* What the extractors look for.  naver_news drops everything on its own hosts
\* and links without a path; daum_news takes v.daum.net and its redirects only;
\* baidu_news drops its own hosts but not baijiahao.baidu.com; duckduckgo_news
\* takes every row with an address.
NaverKeeps == {"press"}
DaumKeeps == {"hosted", "redirect"}
BaiduKeeps == {"press", "hosted", "front"}
BoardKeeps == {"hosted"}
CardKeeps == {"hosted"}
DuckKeeps == {"press", "hosted", "redirect", "front"}
ThreadKeeps == {"hosted"}

Keeps ==
  CASE src = "naver_news" -> NaverKeeps
    [] src = "daum_news" -> DaumKeeps
    [] src = "baidu_news" -> BaiduKeeps
    [] src = "naver_stock" -> BoardKeeps
    [] src = "baomoi_news" -> CardKeeps
    [] src = "duckduckgo_news" -> DuckKeeps
    [] src = "tinhte_forum" -> ThreadKeeps

\* The links the extractor keeps.  All but duckduckgo_news drop the repeats
\* within a page; a set does not tell.
Kept(p) == {l \in ToSet(p) : Kind[l] \in Keeps}

\* daum_news asks where its redirects lead; a failed request keeps the link.
Resolved(U) ==
  LET R == {l \in U : Kind[l] = "redirect"}
  IN  {(U \ R) \cup S \cup {Final[l] : l \in R \ S} : S \in SUBSET R}

Http(s) ==
  /\ pc = "ask"
  /\ src \in s
  /\ UNCHANGED <<performed, widget>>

\* Mutant: naver_news and daum_news take every empty page for no results.
EmptyAsIs(genuine) == Answer({}, FALSE)

\* A page without articles is the end if the source says that there are no
\* results, else a block or a broken selector; baidu_news cannot tell and takes
\* it for the end.
Empty(genuine) ==
  IF genuine \/ src = "baidu_news" THEN Answer({}, FALSE) ELSE Raise("blocked")

\* A page with fewer than PageSize articles is the last one.
Counted(p, answers) ==
  LET S == Kept(p)
  IN  /\ IF S = {} THEN Empty(p = <<>>)
         ELSE \E U \in answers : Answer(U, Cardinality(S) >= PageSize)
      /\ NoFault
      /\ UNCHANGED <<hit, seenUrls>>

DiscoverNaver ==
  LET p == Slice(listing[kw], Offset)
  IN  Http({"naver_news"}) /\ Counted(p, {Kept(p)})

DiscoverDaum ==
  LET p == Slice(listing[kw], Offset)
  IN  Http({"daum_news"}) /\ Counted(p, Resolved(Kept(p)))

DiscoverBaidu ==
  LET p == Slice(listing[kw], Offset)
  IN  Http({"baidu_news"}) /\ Counted(p, {Kept(p)})

\* naver_stock: pages are read until one is empty.
DiscoverBoard ==
  LET S == Kept(Slice(listing[kw], Offset))
  IN  /\ Http({"naver_stock"})
      /\ Answer(S, S # {})
      /\ NoFault
      /\ UNCHANGED <<hit, seenUrls>>

\* Where the cards of p are, and those down to the first one older than the
\* cutoff.
Cards(p) == {i \in DOMAIN p : Kind[p[i]] \in Keeps}
IsOld(l) == Date[l] = "old"
Recent(p) ==
  {p[i] : i \in {j \in Cards(p) : \A h \in Cards(p) : h <= j => ~IsOld(p[h])}}

MoreCards(p) == Cards(p) # {} /\ \A i \in Cards(p) : ~IsOld(p[i])

\* baomoi_news: everything down to the first old article; a date without a
\* time zone cannot be compared and raises TypeError.
DiscoverBaomoi ==
  LET p == Slice(listing[kw], Offset)
  IN  /\ Http({"baomoi_news"})
      /\ IF \E l \in Recent(p) : Date[l] = "naive"
         THEN Raise("error")
         ELSE Answer(Recent(p), MoreCards(p))
      /\ NoFault
      /\ UNCHANGED <<hit, seenUrls>>

\* Mutants: _seen_urls survives the end of a run; it is never filled.
SeenForEver == seenUrls
RememberNone(U) == {}

\* cursor None, a new keyword: _seen_urls starts empty.
Seen == IF cursor = None THEN {} ELSE seenUrls

Remember(U) == Seen \cup U

\* duckduckgo_news follows the server's next offset.  Past the end of a small
\* pool the server may repeat the first page and promise more.
DiscoverDuck ==
  LET f == listing[kw]
  IN  /\ Http({"duckduckgo_news"})
      /\ \E p \in IF Offset < Len(f) THEN {Slice(f, Offset)}
                  ELSE {<<>>, Slice(f, 0)} :
         \E more \in IF Offset + PageSize < Len(f) THEN {TRUE} ELSE BOOLEAN :
           LET U == Kept(p) \ Seen
           IN  /\ seenUrls' = Remember(U)
               /\ Answer(U, more /\ ~(Kept(p) # {} /\ U = {}))
      /\ NoFault
      /\ UNCHANGED hit

\* What a block page comes to: duckduckgo_news finds no vqd token or no JSON,
\* baidu_news sees the captcha's address, the others see a page without links.
BlockPage ==
  CASE src \in {"naver_news", "daum_news"} -> Empty(FALSE)
    [] src \in {"duckduckgo_news", "baidu_news"} -> Raise("blocked")
    [] OTHER -> Answer({}, FALSE)

\* The source answers with a block page; baidu_news takes one whose address it
\* cannot read for an empty listing.
Blocked ==
  /\ Http(Source \ {"tinhte_forum"})
  /\ hit' = TRUE
  /\ seenUrls' = IF src = "duckduckgo_news" THEN Seen ELSE seenUrls
  /\ \E site \in {"block", "unreadable"} :
       /\ Fault(site)
       /\ site = "unreadable" => src = "baidu_news"
       /\ IF site = "block" THEN BlockPage ELSE Answer({}, FALSE)

\* A request raises: an HTTP status, a timeout, a page load that hangs.
RequestFails ==
  /\ Http(Source \ {"tinhte_forum"})
  /\ Fault("http")
  /\ Raise("error")
  /\ seenUrls' = IF src = "duckduckgo_news" THEN Seen ELSE seenUrls
  /\ UNCHANGED hit

-----------------------------------------------------------------------------
(* Tinhte: a search widget that keeps its state from call to call *)

Tinhte(at) ==
  /\ src = "tinhte_forum"
  /\ pc = at
  /\ UNCHANGED seenUrls

Goto(to) ==
  /\ pc' = to
  /\ UNCHANGED <<src, listing, kw, cursor, got, result>>

\* Results hide the search box, so a session that has searched goes home first.
AtHome == IF performed THEN Home ELSE widget

OpenSearch ==
  /\ Tinhte("ask") /\ PageNum = 1
  /\ widget' = AtHome
  /\ Goto("submit")
  /\ NoFault
  /\ UNCHANGED <<hit, performed>>

\* driver.get raises, before or after the page has changed.
OpenFails ==
  /\ Tinhte("ask") /\ PageNum = 1 /\ performed
  /\ Fault("home")
  /\ widget' \in {widget, Home}
  /\ Raise("error")
  /\ UNCHANGED <<hit, performed>>

BoxVisible == widget.kw = None

\* The box is there: type the keyword, press RETURN, see results by relevance.
Submit ==
  /\ Tinhte("submit") /\ BoxVisible
  /\ widget' = [kw |-> kw, page |-> 1, byDate |-> FALSE]
  /\ Goto("sort")
  /\ NoFault
  /\ UNCHANGED <<hit, performed>>

\* No visible box within the timeout: BotBlockedError.
NoBox ==
  /\ Tinhte("submit")
  /\ \E blocked \in BOOLEAN :
       /\ blocked \/ ~BoxVisible
       /\ IF blocked THEN Fault("block") ELSE NoFault
       /\ hit' = blocked
  /\ Raise("nobox")
  /\ UNCHANGED <<performed, widget>>

\* A command raises while the keyword is typed, or when RETURN is sent: the
\* command times out but the browser has run the search.
SubmitFails ==
  /\ Tinhte("submit") /\ BoxVisible
  /\ \E at \in {"type", "return"} :
       /\ Fault(at)
       /\ widget' = IF at = "type" THEN widget
                    ELSE [kw |-> kw, page |-> 1, byDate |-> FALSE]
  /\ Raise("error")
  /\ UNCHANGED <<hit, performed>>

\* _sort_by_date; every failure of it is swallowed.
SortByDate ==
  /\ Tinhte("sort")
  /\ widget' = [widget EXCEPT !.byDate = TRUE]
  /\ performed' = TRUE
  /\ Goto("read")
  /\ NoFault
  /\ UNCHANGED hit

SortFails ==
  /\ Tinhte("sort")
  /\ Fault("sort")
  /\ performed' = TRUE
  /\ Goto("read")
  /\ UNCHANGED <<hit, widget>>

Results == IF widget.byDate THEN listing[kw] ELSE Reverse(listing[kw])

\* The widget's page buttons follow an estimate of the number of pages.
Buttons ==
  LET pages == (Len(Results) + PageSize - 1) \div PageSize
  IN  {pages, pages + 1}

\* A later page: click its button, or end the run if there is none.
TurnPage ==
  /\ Tinhte("ask") /\ PageNum > 1
  /\ \E b \in Buttons :
       \/ PageNum <= b /\ widget' = [widget EXCEPT !.page = PageNum] /\ Goto("read")
       \/ PageNum > b /\ UNCHANGED widget /\ Answer({}, FALSE)
  /\ NoFault
  /\ UNCHANGED <<hit, performed>>

\* The page has not changed when the fixed wait is over.
TurnLate ==
  /\ Tinhte("ask") /\ PageNum > 1
  /\ Fault("late")
  /\ Goto("read")
  /\ UNCHANGED <<hit, performed, widget>>

\* A command raises while the page is turned or read.
PageFails ==
  /\ src = "tinhte_forum"
  /\ pc = "read" \/ (pc = "ask" /\ PageNum > 1)
  /\ Fault("page")
  /\ Raise("error")
  /\ UNCHANGED <<hit, seenUrls, performed, widget>>

ReadResults ==
  /\ Tinhte("read")
  /\ \E b \in Buttons :
       Answer(Kept(Slice(Results, (widget.page - 1) * PageSize)), PageNum + 1 <= b)
  /\ NoFault
  /\ UNCHANGED <<hit, performed, widget>>

-----------------------------------------------------------------------------
DiscoverHttp ==
  \/ DiscoverNaver \/ DiscoverDaum \/ DiscoverBaidu
  \/ DiscoverBoard \/ DiscoverBaomoi \/ DiscoverDuck
  \/ Blocked \/ RequestFails

DiscoverTinhte ==
  \/ OpenSearch \/ OpenFails \/ Submit \/ NoBox \/ SubmitFails
  \/ SortByDate \/ SortFails
  \/ TurnPage \/ TurnLate \/ PageFails \/ ReadResults

Next ==
  \/ \E k \in Keyword : Begin(k)
  \/ DiscoverHttp
  \/ DiscoverTinhte
  \/ Finish

Spec == Init /\ [][Next]_vars

-----------------------------------------------------------------------------
(* Properties *)

\* Types; a run has a result exactly when it is over, and a call in the middle
\* of a run has a cursor exactly when it is not the first.
TypeOK ==
  /\ src \in Source /\ listing \in Listings
  /\ pc \in {"idle", "ask", "submit", "sort", "read", "done"}
  /\ kw \in Keyword \cup {None}
  /\ cursor = None \/ cursor \in [n : Nat, offset : Nat]
  /\ got \in Seq(SUBSET Link)
  /\ result \in Outcome \cup {None}
  /\ hit \in BOOLEAN /\ clean \in BOOLEAN
  /\ seenUrls \subseteq Link
  /\ performed \in BOOLEAN
  /\ widget \in [kw : Keyword \cup {None}, page : 0..MaxPages, byDate : BOOLEAN]
  /\ faults \in 0..MaxFaults
  /\ pc = "idle" <=> kw = None
  /\ pc = "done" <=> result # None
  /\ pc = "ask" => (cursor = None <=> got = <<>>)

\* The cursor of every source, however it counts, stands for the page after the
\* last one returned, within the page limit: no page is skipped or read twice.
CursorFollowsPages ==
  pc = "ask" =>
    /\ PageNum = Len(got) + 1
    /\ Offset = Len(got) * PageSize
    /\ PageNum <= MaxPages

\* What the pages below the limit hold: for Bao Moi down to the first old
\* article, for Tinhte in the order the widget shows.
Wanted ==
  LET s == IF src = "tinhte_forum" THEN Results ELSE listing[kw]
      reach == SubSeq(s, 1, Least(MaxPages * PageSize, Len(s)))
  IN  IF src = "baomoi_news" THEN Recent(reach) ELSE Kept(reach)

Returned == UNION {got[i] : i \in DOMAIN got}

\* Below the limit and with the listing going on, the last page held fewer than
\* PageSize articles (for the sources that count them), no article, or nothing
\* but links of earlier pages: the sources take such a page for the end.
CutShort ==
  LET p == Slice(listing[kw], (Len(got) - 1) * PageSize)
  IN  /\ Len(got) < MaxPages
      /\ Len(got) * PageSize < Len(listing[kw])
      /\ \/ src \in Counting /\ Cardinality(Kept(p)) < PageSize
         \/ src \in {"naver_stock", "baomoi_news"} /\ Kept(p) = {}
         \/ /\ src = "duckduckgo_news" /\ got[Len(got)] = {}
            /\ Kept(p) # {} /\ Kept(p) \subseteq Returned

\* An undisturbed run that ends by itself has returned every article of the
\* pages below the limit, possibly by the address a Daum link redirects to;
\* nothing an earlier keyword left in the adapter hides one.  The exception is
\* a full page in the middle of a listing that the source takes for its end
\* because of its repeats and links of other kinds (CutShort).
ReadToTheEnd ==
  result = "ok" /\ clean =>
    CutShort \/ \A l \in Wanted : l \in Returned \/ Final[l] \in Returned

\* DuckDuckGo repeats its pages when its pool of results is small; no link of an
\* earlier page of the run comes back with a later one, where the dispatcher
\* would take it for a known article.  (Repeats within one page do reach it.)
NoLinkComesBack ==
  src = "duckduckgo_news" =>
    \A i, j \in DOMAIN got : i # j => got[i] \cap got[j] = {}

\* The sources that can tell a block from an empty listing never let a run that
\* met a block end as a success, which would clear retry_pending.
BlockIsTold ==
  src \in Telling /\ hit => result \notin {None, "ok"}

\* tinhte_forum.py:129-137: results hide the search box, so an adapter that has
\* searched goes home first, and a box it still cannot find is reported as a
\* changed site or a block.  Results that an earlier run left are neither.
BoxErrorMeansBlock == result = "nobox" => hit
=============================================================================
