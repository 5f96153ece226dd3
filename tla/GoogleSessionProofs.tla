------------------------ MODULE GoogleSessionProofs -------------------------
(***************************************************************************)
(* Theorems about GoogleSession for any keywords, regions, feeds, page     *)
(* limits, cooldowns and numbers of faults.                                *)
(***************************************************************************)
EXTENDS GoogleSession, TLAPS, FiniteSetTheorems

-----------------------------------------------------------------------------
(* The inductive invariant *)

Control ==
  /\ mode \in {"search", "rss"}
  /\ pc \in {"idle", "discover", "get", "rss", "resolve"}
  /\ driver \in {"none", "up", "hung"}
  /\ faults \in 0..MaxFaults
  /\ driver = "hung" => faults > 0
  /\ kw \in Keyword \cup {None}
  /\ pc # "idle" => kw \in Keyword

\* The adapter holds the region of the keyword it serves and of no other.
OwnHost(k) == IF Region[k] = None THEN None ELSE Region[k].host
OwnParams(k) == IF Region[k] = None THEN <<>> ELSE Region[k].params

RegionKept == pc # "idle" => host = OwnHost(kw) /\ params = OwnParams(kw)

\* What was asked last carries it, and tells how the run goes on.
Asked ==
  /\ pc = "get" =>
       /\ asked.mode = "search"
       /\ asked.host = IF host = None THEN "www.google.com" ELSE host
       /\ asked.query = Query([hl |-> "ko", gl |-> "KR"])
       /\ asked.start = (Page - 1) * PageSize
  /\ pc = "rss" =>
       asked.query = Query([hl |-> "ko", gl |-> "KR", ceid |-> "KR:ko"])
  /\ pc \in {"rss", "resolve"} => asked.mode = "rss"
  /\ pc = "discover" /\ calls > 0 => asked.mode = "search"

\* The cursor of a run in progress counts its calls; a feed has none.
Paging ==
  /\ cursor \in (1..MaxPages) \cup {None}
  /\ calls \in 0..MaxPages
  /\ pc # "idle" => calls = Page - 1
  /\ pc \in {"rss", "resolve"} => cursor = None

\* The end of the cooldown and the time since the last block.
Cooling ==
  \/ cooldown = None /\ quiet = Cooldown
  \/ cooldown \in 0..Cooldown /\ quiet = Cooldown - cooldown

\* A link has not been visited, is resolved or was met by a fault; the hang of
\* the browser is counted before the link it costs is known.
Links ==
  /\ IsFiniteSet(links) /\ links \subseteq Nat
  /\ resolved \subseteq links /\ todo \subseteq links
  /\ resolved \cap todo = {}
  /\ mishaps \in Nat /\ mishaps <= faults
  /\ pc = "resolve" =>
       Cardinality(links) + (IF driver = "hung" THEN 1 ELSE 0)
         <= Cardinality(resolved) + mishaps + Cardinality(todo)

SessionInv == Control /\ RegionKept /\ Asked /\ Paging /\ Cooling /\ Links

-----------------------------------------------------------------------------
(* The invariants that are stated of the session *)

\* The inductive invariant says of a request what RegionIsTheKeywords says.
LEMMA RegionFromInv == SessionInv => RegionIsTheKeywords
<1> SUFFICES ASSUME SessionInv, pc \in {"get", "rss"}
             PROVE  /\ \A p \in Params \cap DOMAIN asked.query :
                         asked.query[p] =
                           IF p \in DOMAIN OwnParams(kw) THEN OwnParams(kw)[p]
                           ELSE CASE p = "hl" -> "ko" [] p = "gl" -> "KR"
                                  [] p = "ceid" -> "KR:ko"
                    /\ pc = "get" =>
                         asked.host = IF Region[kw] = None THEN "www.google.com"
                                      ELSE Region[kw].host
  BY DEF RegionIsTheKeywords, OwnParams
<1>1. kw \in Keyword /\ host = OwnHost(kw) /\ params = OwnParams(kw)
  BY DEF SessionInv, Control, RegionKept
<1>2. ASSUME NEW p \in Params \cap DOMAIN asked.query
      PROVE  asked.query[p] =
               IF p \in DOMAIN params THEN params[p]
               ELSE CASE p = "hl" -> "ko" [] p = "gl" -> "KR"
                      [] p = "ceid" -> "KR:ko"
  <2>1. CASE pc = "get"
    <3> DEFINE default == [hl |-> "ko", gl |-> "KR"]
    <3>1. asked.query = Query(default)
      BY <2>1 DEF SessionInv, Asked
    <3>2. DOMAIN default = {"hl", "gl"} /\ default["hl"] = "ko" /\ default["gl"] = "KR"
      OBVIOUS
    <3> HIDE DEF default
    <3>3. QED BY <3>1, <3>2 DEF Query, Params
  <2>2. CASE pc = "rss"
    <3> DEFINE default == [hl |-> "ko", gl |-> "KR", ceid |-> "KR:ko"]
    <3>1. asked.query = Query(default)
      BY <2>2 DEF SessionInv, Asked
    <3>2. /\ DOMAIN default = {"hl", "gl", "ceid"}
          /\ default["hl"] = "ko" /\ default["gl"] = "KR" /\ default["ceid"] = "KR:ko"
      OBVIOUS
    <3> HIDE DEF default
    <3>3. QED BY <3>1, <3>2 DEF Query, Params
  <2>3. QED BY <2>1, <2>2
<1>3. pc = "get" => asked.host = IF Region[kw] = None THEN "www.google.com"
                                 ELSE Region[kw].host
  BY <1>1, GoogleAssumption DEF GoogleAssumption, SessionInv, Asked, OwnHost
<1>4. QED BY <1>1, <1>2, <1>3

\* Nor do the other conjuncts say less than the invariants of the module.
LEMMA SessionInvImplies ==
  SessionInv => TypeOK /\ PagesInOrder /\ HangLosesOneUrl
<1> SUFFICES ASSUME SessionInv PROVE TypeOK /\ PagesInOrder /\ HangLosesOneUrl
  OBVIOUS
<1> USE GoogleAssumption DEF GoogleAssumption, SessionInv
<1>1. TypeOK
  <2>1. mishaps \in 0..MaxFaults
    BY DEF Links, Control
  <2>2. cooldown \in (0..Cooldown) \cup {None} /\ quiet \in 0..Cooldown
    BY DEF Cooling
  <2>3. QED BY <2>1, <2>2 DEF TypeOK, Control, Paging, Links
<1>2. PagesInOrder
  <2>1. CASE pc = "get"
    <3>1. asked.start = (Page - 1) * PageSize /\ Page - 1 = calls
      BY <2>1 DEF Asked, Paging
    <3>2. QED BY <3>1 DEF PagesInOrder
  <2>2. QED BY <2>1 DEF PagesInOrder
<1>3. HangLosesOneUrl
  <2>1. /\ Cardinality(links) \in Nat /\ Cardinality(resolved) \in Nat
        /\ Cardinality(todo) \in Nat /\ mishaps \in Nat
    BY FS_Subset, FS_CardinalityType DEF Links
  <2>2. QED BY <2>1 DEF HangLosesOneUrl, Links
<1>4. QED BY <1>1, <1>2, <1>3

-----------------------------------------------------------------------------
(* It holds at first, and every step keeps it *)

\* A new adapter: no run, no browser, no region, no cooldown.
LEMMA SessionInit == Init => SessionInv
<1> SUFFICES ASSUME Init PROVE SessionInv
  OBVIOUS
<1> USE GoogleAssumption DEF GoogleAssumption, Init
<1>1. Control
  BY DEF Control
<1>2. RegionKept /\ Asked /\ Paging /\ Cooling
  BY DEF RegionKept, Asked, Paging, Cooling
<1>3. Links
  BY FS_EmptySet DEF Links
<1>4. QED BY <1>1, <1>2, <1>3 DEF SessionInv

\* How a result and an exception move the run: a result counts one call more and
\* goes on with a cursor only to it.
LEMMA ReturnMoves ==
  ASSUME NEW next, Return(next), SessionInv, pc # "idle",
         next \in (1..MaxPages) \cup {None}
  PROVE  /\ kw' = kw /\ cursor' = next /\ calls' = calls + 1
         /\ pc' \in {"idle", "discover"}
         /\ pc' = "discover" => next # None
BY DEF Return

\* An exception ends the run and leaves its count alone.
LEMMA RaiseMoves ==
  ASSUME Raise, SessionInv, pc \in {"get", "rss", "resolve"}
  PROVE  /\ kw' = kw /\ cursor' = cursor /\ calls' = calls
         /\ pc' = "idle"
BY DEF Raise, run

\* A search reads no page beyond the last, so AskSearch asks whenever it runs.
LEMMA PageInRange ==
  ASSUME SessionInv
  PROVE  /\ Page \in 1..MaxPages
         /\ \A n \in 0..PageSize : NextCursor(n) \in (2..MaxPages) \cup {None}
         /\ pc # "idle" => calls = Page - 1
<1>1. Page \in 1..MaxPages
  BY GoogleAssumption DEF GoogleAssumption, SessionInv, Paging, Page
<1>2. QED BY <1>1, GoogleAssumption DEF GoogleAssumption, SessionInv, Paging, NextCursor

\* What the actions do to the control of the session, its run and its browser.
LEMMA ControlStep == SessionInv /\ [Next]_vars => Control'
<1> SUFFICES ASSUME SessionInv, [Next]_vars PROVE Control'
  OBVIOUS
<1> USE GoogleAssumption DEF GoogleAssumption, Control, run, region, resolve, Fault
<1>a. Control
  BY DEF SessionInv
<1>1. ASSUME NEW k \in Keyword, StartRun(k) PROVE Control'
  BY <1>1, <1>a DEF StartRun
<1>2. CASE AskSearch
  <2>1. ~(Page > MaxPages)
    BY PageInRange
  <2>2. QED BY <1>2, <1>a, <2>1 DEF AskSearch
<1>3. CASE AskRss
  <2>1. CASE cursor # None
    <3>1. Return(None) /\ pc # "idle"
      BY <1>3, <2>1 DEF AskRss
    <3>2. kw' = kw /\ pc' \in {"idle", "discover"}
      BY <3>1, ReturnMoves
    <3>3. QED BY <1>3, <1>a, <3>1, <3>2 DEF AskRss
  <2>2. CASE cursor = None
    BY <1>3, <1>a, <2>2 DEF AskRss
  <2>3. QED BY <2>1, <2>2
<1>4. CASE OpenBrowser
  BY <1>4, <1>a DEF OpenBrowser, NeedsDriver
<1>5. CASE OpenFails
  <2>1. Raise /\ pc \in {"get", "rss", "resolve"}
    BY <1>5 DEF OpenFails, NeedsDriver
  <2>2. QED BY <1>5, <1>a, <2>1, RaiseMoves DEF OpenFails, NeedsDriver
<1>6. CASE Hang
  BY <1>6, <1>a DEF Hang
<1>7. CASE GetHangs
  BY <1>7, <1>a, RaiseMoves DEF GetHangs
<1>8. CASE ReadPage
  <2>1. PICK n \in 0..PageSize : Return(NextCursor(n))
    BY <1>8 DEF ReadPage
  <2>2. NextCursor(n) \in (1..MaxPages) \cup {None}
    BY PageInRange
  <2>3. QED BY <1>8, <1>a, <2>1, <2>2, ReturnMoves DEF ReadPage
<1>9. CASE BlockPage
  BY <1>9, <1>a, RaiseMoves DEF BlockPage
<1>10. CASE ReadFails
  BY <1>10, <1>a, ReturnMoves, RaiseMoves DEF ReadFails
<1>11. CASE RssFails
  BY <1>11, <1>a, RaiseMoves DEF RssFails
<1>12. CASE ReadRss
  BY <1>12, <1>a DEF ReadRss
<1>13. CASE Visit
  BY <1>13, <1>a DEF Visit
<1>14. CASE VisitFails
  BY <1>14, <1>a DEF VisitFails
<1>15. CASE EndFeed
  BY <1>15, <1>a, ReturnMoves DEF EndFeed
<1>16. CASE Tick
  BY <1>16, <1>a DEF Tick
<1>17. CASE UNCHANGED vars
  BY <1>17, <1>a DEF vars
<1>18. QED
  BY <1>1, <1>2, <1>3, <1>4, <1>5, <1>6, <1>7, <1>8, <1>9, <1>10, <1>11, <1>12,
     <1>13, <1>14, <1>15, <1>16, <1>17 DEF Next, Step, Disturb

\* The region is changed only where the keyword is.
LEMMA RegionStep == SessionInv /\ [Next]_vars => RegionKept'
<1> SUFFICES ASSUME SessionInv, [Next]_vars PROVE RegionKept'
  OBVIOUS
<1>1. ASSUME NEW k \in Keyword, StartRun(k) PROVE RegionKept'
  BY <1>1 DEF StartRun, ApplyOptions, RegionKept, OwnHost, OwnParams
<1>2. ASSUME ~ \E k \in Keyword : StartRun(k)
      PROVE  /\ host' = host /\ params' = params /\ kw' = kw
             /\ pc' # "idle" => pc # "idle"
  <2> USE DEF run, region, Return, Raise
  <2>1. CASE Step
    BY <2>1 DEF Step, AskSearch, AskRss, OpenBrowser, GetHangs, ReadPage, ReadRss,
              Visit, VisitFails, EndFeed
  <2>2. CASE Disturb
    BY <2>2 DEF Disturb, OpenFails, Hang, BlockPage, ReadFails, RssFails
  <2>3. CASE Tick \/ UNCHANGED vars
    BY <2>3 DEF Tick, vars
  <2>4. QED BY <1>2, <2>1, <2>2, <2>3 DEF Next
<1>3. QED BY <1>1, <1>2 DEF SessionInv, RegionKept, OwnHost, OwnParams

\* A call more is counted exactly when the cursor moves on to its page.
LEMMA PagingStep == SessionInv /\ [Next]_vars => Paging'
<1> SUFFICES ASSUME SessionInv, [Next]_vars PROVE Paging'
  OBVIOUS
<1> USE GoogleAssumption DEF GoogleAssumption, Paging, Page, run
<1>a. Paging /\ Page \in 1..MaxPages
  BY PageInRange DEF SessionInv
<1>1. ASSUME NEW k \in Keyword, StartRun(k) PROVE Paging'
  BY <1>1, <1>a DEF StartRun
<1>2. CASE AskSearch
  <2>1. ~(Page > MaxPages)
    BY <1>a
  <2>2. QED BY <1>2, <1>a, <2>1 DEF AskSearch
<1>3. CASE AskRss
  <2>1. CASE cursor # None
    <3>1. Return(None) /\ pc # "idle"
      BY <1>3, <2>1 DEF AskRss
    <3>2. cursor' = None /\ calls' = calls + 1 /\ pc' = "idle"
      BY <3>1, ReturnMoves
    <3>3. QED BY <1>a, <3>1, <3>2
  <2>2. CASE cursor = None
    BY <1>3, <1>a, <2>2 DEF AskRss
  <2>3. QED BY <2>1, <2>2
<1>4. CASE OpenBrowser \/ Hang \/ Visit \/ VisitFails \/ Tick \/ UNCHANGED vars
  BY <1>4, <1>a DEF OpenBrowser, Hang, Visit, VisitFails, Tick, vars
<1>5. CASE OpenFails \/ GetHangs \/ BlockPage \/ RssFails
  <2>1. Raise /\ pc \in {"get", "rss", "resolve"}
    BY <1>5 DEF OpenFails, NeedsDriver, GetHangs, BlockPage, RssFails
  <2>2. QED BY <1>a, <2>1, RaiseMoves
<1>6. CASE ReadPage
  <2>1. PICK n \in 0..PageSize : Return(NextCursor(n)) /\ pc = "get"
    BY <1>6 DEF ReadPage
  <2>2. PICK p \in 1..MaxPages : p = Page
    BY <1>a
  <2>3. PICK c : c = NextCursor(n)
    OBVIOUS
  <2>4. c = None \/ (c = p + 1 /\ p < MaxPages)
    <3> HIDE DEF Page
    <3>1. QED BY <2>2, <2>3 DEF NextCursor
  <2>5. Return(c) /\ c \in (1..MaxPages) \cup {None}
    BY <2>1, <2>3, <2>4
  <2>6. cursor' = c /\ calls' = calls + 1 /\ pc' \in {"idle", "discover"}
        /\ (pc' = "discover" => c # None)
    BY <2>1, <2>5, ReturnMoves
  <2>7. calls = p - 1
    BY <2>1, <2>2, PageInRange
  <2>8. QED BY <2>4, <2>6, <2>7
<1>7. CASE ReadFails
  <2>1. pc = "get" /\ (Raise \/ Return(None))
    BY <1>7 DEF ReadFails
  <2>2. CASE Raise
    BY <1>a, <2>1, <2>2, RaiseMoves
  <2>3. CASE Return(None)
    <3>1. cursor' = None /\ calls' = calls + 1 /\ pc' = "idle"
      BY <2>1, <2>3, ReturnMoves
    <3>2. QED BY <1>a, <2>1, <3>1
  <2>4. QED BY <2>1, <2>2, <2>3
<1>8. CASE ReadRss
  BY <1>8, <1>a DEF ReadRss
<1>9. CASE EndFeed
  <2>1. pc = "resolve" /\ Return(None)
    BY <1>9 DEF EndFeed
  <2>2. cursor' = None /\ calls' = calls + 1 /\ pc' = "idle"
    BY <2>1, ReturnMoves
  <2>3. QED BY <1>a, <2>1, <2>2
<1>10. QED
  BY <1>1, <1>2, <1>3, <1>4, <1>5, <1>6, <1>7, <1>8, <1>9 DEF Next, Step, Disturb

\* A request is written only by AskSearch and AskRss, and its answer is read
\* before the next one.
LEMMA AskedStep == SessionInv /\ [Next]_vars => Asked'
<1> SUFFICES ASSUME SessionInv, [Next]_vars PROVE Asked'
  OBVIOUS
<1>a. Asked
  BY DEF SessionInv
<1>1. ASSUME NEW k \in Keyword, StartRun(k) PROVE Asked'
  BY <1>1 DEF StartRun, Asked
<1>2. CASE AskSearch
  <2>1. ~(Page > MaxPages) /\ pc = "discover"
    BY <1>2, PageInRange, GoogleAssumption DEF GoogleAssumption, AskSearch
  <2>2. /\ asked' = [mode |-> "search",
                     host |-> IF host = None THEN "www.google.com" ELSE host,
                     query |-> Query([hl |-> "ko", gl |-> "KR"]),
                     start |-> (Page - 1) * PageSize]
        /\ pc' = "get" /\ host' = host /\ params' = params /\ cursor' = cursor
    BY <1>2, <2>1 DEF AskSearch, run, region
  <2>3. QED BY <2>2 DEF Asked, Query, Page
<1>3. CASE AskRss
  <2>1. CASE cursor # None
    <3>1. Return(None) /\ pc # "idle"
      BY <1>3, <2>1 DEF AskRss
    <3>2. pc' = "idle"
      BY <3>1, ReturnMoves
    <3>3. QED BY <3>2 DEF Asked
  <2>2. CASE cursor = None
    <3>1. /\ asked' = [mode |-> "rss", host |-> "news.google.com",
                       query |->
                         Query([hl |-> "ko", gl |-> "KR", ceid |-> "KR:ko"]),
                       start |-> 0]
          /\ pc' = "rss" /\ params' = params
      BY <1>3, <2>2 DEF AskRss, region
    <3>2. QED BY <3>1 DEF Asked, Query
  <2>3. QED BY <2>1, <2>2
<1>4. CASE OpenBrowser \/ Hang \/ Visit \/ VisitFails \/ Tick \/ UNCHANGED vars
  BY <1>4, <1>a DEF OpenBrowser, Hang, Visit, VisitFails, Tick, vars, run, region,
                    Asked, Query, Page
<1>5. CASE OpenFails \/ GetHangs \/ BlockPage \/ RssFails
  <2>1. Raise
    BY <1>5 DEF OpenFails, GetHangs, BlockPage, RssFails
  <2>2. QED BY <2>1 DEF Raise, Asked
<1>6. CASE ReadPage \/ ReadFails
  <2>1. asked' = asked /\ asked.mode = "search" /\ pc' \in {"idle", "discover"}
    BY <1>6, <1>a DEF ReadPage, ReadFails, Return, Raise, Asked
  <2>2. QED BY <2>1 DEF Asked
<1>7. CASE ReadRss
  BY <1>7, <1>a DEF ReadRss, Asked
<1>8. CASE EndFeed
  <2>1. pc = "resolve" /\ Return(None)
    BY <1>8 DEF EndFeed
  <2>2. pc' = "idle"
    BY <2>1, ReturnMoves
  <2>3. QED BY <2>2 DEF Asked
<1>9. QED
  BY <1>1, <1>2, <1>3, <1>4, <1>5, <1>6, <1>7, <1>8 DEF Next, Step, Disturb

\* The two clocks of a block run together.
LEMMA CoolingStep == SessionInv /\ [Next]_vars => Cooling'
<1> SUFFICES ASSUME SessionInv, [Next]_vars PROVE Cooling'
  OBVIOUS
<1> USE GoogleAssumption DEF GoogleAssumption, Cooling
<1>a. Cooling
  BY DEF SessionInv
<1>1. CASE AskSearch
  BY <1>1, <1>a DEF AskSearch, CoolingDown
<1>2. CASE BlockPage
  BY <1>2 DEF BlockPage
<1>3. CASE Tick
  BY <1>3, <1>a DEF Tick
<1>4. CASE UNCHANGED <<cooldown, quiet>>
  BY <1>4, <1>a
<1>5. QED
  BY <1>1, <1>2, <1>3, <1>4
  DEF Next, Step, Disturb, StartRun, AskRss, OpenBrowser, GetHangs, ReadPage,
      ReadRss, Visit, VisitFails, EndFeed, OpenFails, Hang, ReadFails, RssFails, vars

\* A feed is finite, and none of its links is visited yet when it has been read.
LEMMA FeedIsFinite ==
  ASSUME NEW feed \in Feeds
  PROVE  IsFiniteSet(ParseRss(feed)) /\ ParseRss(feed) \subseteq Nat
<1>1. feed \in Seq(Dated)
  BY GoogleAssumption DEF GoogleAssumption
<1>2. Len(feed) \in Nat /\ DOMAIN feed = 1..Len(feed)
  BY <1>1
<1>3. IsFiniteSet(1..Len(feed))
  BY <1>2, FS_Interval
<1>4. ParseRss(feed) \subseteq 1..Len(feed)
  BY <1>2 DEF ParseRss
<1>5. QED BY <1>2, <1>3, <1>4, FS_Subset

\* Every link that leaves todo is resolved or has met a fault.
LEMMA LinksStep == SessionInv /\ [Next]_vars => Links'
<1> SUFFICES ASSUME SessionInv, [Next]_vars PROVE Links'
  OBVIOUS
<1>a. Links /\ Control /\ Control'
  BY ControlStep DEF SessionInv
<1>b. faults \in Nat /\ mishaps \in Nat /\ mishaps <= faults
  BY <1>a, GoogleAssumption DEF GoogleAssumption, Links, Control
<1>1. CASE ReadRss
  <2>1. PICK feed \in Feeds : links' = ParseRss(feed)
    BY <1>1 DEF ReadRss
  <2>2. IsFiniteSet(links') /\ links' \subseteq Nat
    BY <2>1, FeedIsFinite
  <2>3. /\ todo' = links' /\ resolved' = {} /\ driver' = driver /\ faults' = faults
        /\ mishaps' = IF driver = "hung" THEN 1 ELSE 0
    BY <1>1 DEF ReadRss
  <2>4. Cardinality(links') \in Nat /\ Cardinality(resolved') = 0
    BY <2>2, <2>3, FS_CardinalityType, FS_EmptySet
  <2>5. driver = "hung" => faults > 0
    BY <1>a DEF Control
  <2>6. PICK C \in Nat : C = Cardinality(links') /\ C = Cardinality(todo')
    BY <2>3, <2>4
  <2>7. mishaps' \in Nat /\ mishaps' <= faults'
    BY <1>b, <2>3, <2>5
  <2>8. Cardinality(links') + (IF driver' = "hung" THEN 1 ELSE 0)
          <= Cardinality(resolved') + mishaps' + Cardinality(todo')
    BY <2>3, <2>4, <2>6
  <2>9. QED BY <2>2, <2>3, <2>7, <2>8 DEF Links
<1>2. CASE Visit \/ VisitFails
  <2>1. PICK i \in todo :
          /\ todo' = todo \ {i} /\ resolved' \in {resolved, resolved \cup {i}}
          /\ links' = links /\ pc = "resolve"
          /\ \/ /\ resolved' = resolved \cup {i}
                /\ driver = "up" /\ driver' = "up"
                /\ mishaps' = mishaps /\ faults' = faults
             \/ /\ resolved' = resolved /\ mishaps' = mishaps + 1
                /\ faults' = faults + 1
                /\ driver = "up" /\ driver' = "up"
             \/ /\ driver = "hung" /\ driver' = "none"
                /\ mishaps' = mishaps /\ faults' = faults
    BY <1>2 DEF Visit, VisitFails, Fault
  <2>2. PICK L, R, T : L = links /\ R = resolved /\ T = todo
    OBVIOUS
  <2>3. /\ IsFiniteSet(L) /\ L \subseteq Nat /\ R \subseteq L /\ T \subseteq L
        /\ R \cap T = {} /\ i \in T
    BY <1>a, <2>1, <2>2 DEF Links
  <2>4. /\ T \ {i} \subseteq L /\ R \cup {i} \subseteq L
        /\ (R \cup {i}) \cap (T \ {i}) = {} /\ R \cap (T \ {i}) = {}
        /\ Cardinality(L) \in Nat /\ Cardinality(R) \in Nat
        /\ Cardinality(T) \in Nat
        /\ Cardinality(T \ {i}) = Cardinality(T) - 1
        /\ Cardinality(R \cup {i}) = Cardinality(R) + 1
    <3>1. /\ T \ {i} \subseteq L /\ R \cup {i} \subseteq L
          /\ (R \cup {i}) \cap (T \ {i}) = {} /\ R \cap (T \ {i}) = {}
          /\ i \notin R
      BY <2>3
    <3>2. /\ IsFiniteSet(R) /\ IsFiniteSet(T)
          /\ Cardinality(L) \in Nat /\ Cardinality(R) \in Nat
          /\ Cardinality(T) \in Nat
      BY <2>3, FS_Subset, FS_CardinalityType
    <3>3. Cardinality(T \ {i}) = Cardinality(T) - 1
      BY <2>3, <3>2, FS_RemoveElement
    <3>4. Cardinality(R \cup {i}) = Cardinality(R) + 1
      BY <3>1, <3>2, FS_AddElement
    <3>5. QED BY <3>1, <3>2, <3>3, <3>4
  <2>5. Cardinality(L) + (IF driver = "hung" THEN 1 ELSE 0)
          <= Cardinality(R) + mishaps + Cardinality(T)
    BY <1>a, <2>1, <2>2 DEF Links
  <2>6. /\ links' = L /\ todo' = T \ {i}
        /\ resolved' = R \/ resolved' = R \cup {i}
    BY <2>1, <2>2
  <2>7. mishaps' \in Nat /\ mishaps' <= faults'
    BY <1>b, <2>1
  <2>8. Cardinality(links') + (IF driver' = "hung" THEN 1 ELSE 0)
          <= Cardinality(resolved') + mishaps' + Cardinality(todo')
    <3>1. PICK l, r, d \in Nat :
            l = Cardinality(L) /\ r = Cardinality(R) /\ d = Cardinality(T)
      BY <2>4
    <3>2. /\ Cardinality(links') = l /\ Cardinality(todo') = d - 1
          /\ \/ resolved' = R /\ Cardinality(resolved') = r
             \/ resolved' = R \cup {i} /\ Cardinality(resolved') = r + 1
      BY <2>4, <2>6, <3>1
    <3>3. l + (IF driver = "hung" THEN 1 ELSE 0) <= r + mishaps + d
      BY <2>5, <3>1
    <3>4. R # R \cup {i} /\ R = resolved
      BY <2>2, <2>3
    <3>5. \/ /\ Cardinality(resolved') = r + 1 /\ mishaps' = mishaps
             /\ driver = "up" /\ driver' = "up"
          \/ /\ Cardinality(resolved') = r /\ mishaps' = mishaps + 1
             /\ driver = "up" /\ driver' = "up"
          \/ /\ Cardinality(resolved') \in {r, r + 1} /\ mishaps' = mishaps
             /\ driver = "hung" /\ driver' = "none"
      BY <2>1, <3>2, <3>4
    <3>6. QED BY <1>b, <3>1, <3>2, <3>3, <3>5
  <2>9. QED BY <2>3, <2>4, <2>6, <2>7, <2>8 DEF Links
<1>3. CASE Hang
  <2>1. /\ links' = links /\ todo' = todo /\ resolved' = resolved
        /\ driver = "up" /\ driver' = "hung" /\ pc' = pc /\ faults' = faults + 1
        /\ mishaps' = IF pc = "resolve" THEN mishaps + 1 ELSE mishaps
    BY <1>3 DEF Hang, Fault
  <2>2. /\ Cardinality(links) \in Nat /\ Cardinality(resolved) \in Nat
        /\ Cardinality(todo) \in Nat
    BY <1>a, FS_Subset, FS_CardinalityType DEF Links
  <2>3. PICK l, r, d \in Nat :
          l = Cardinality(links) /\ r = Cardinality(resolved) /\ d = Cardinality(todo)
    BY <2>2
  <2>4. pc = "resolve" => l <= r + mishaps + d
    BY <1>a, <2>1, <2>3 DEF Links
  <2>5. pc' = "resolve" =>
          Cardinality(links') + (IF driver' = "hung" THEN 1 ELSE 0)
            <= Cardinality(resolved') + mishaps' + Cardinality(todo')
    BY <1>b, <2>1, <2>3, <2>4
  <2>6. QED BY <1>a, <1>b, <2>1, <2>5 DEF Links
<1>4. CASE OpenBrowser
  BY <1>4, <1>a DEF Links, OpenBrowser, NeedsDriver, resolve
<1>5. CASE /\ UNCHANGED <<links, todo, resolved, mishaps>>
           /\ faults' \in {faults, faults + 1} /\ pc' # "resolve"
  BY <1>5, <1>a, <1>b DEF Links
<1>6. CASE UNCHANGED <<links, todo, resolved, mishaps, pc, driver, faults>>
  BY <1>6, <1>a DEF Links
<1>7. QED
  <2> USE DEF resolve, Fault
  <2>1. CASE \E k \in Keyword : StartRun(k)
    BY <1>5, <2>1 DEF StartRun
  <2>2. CASE AskSearch \/ AskRss
    BY <1>5, <2>2 DEF AskSearch, AskRss, Return
  <2>3. CASE GetHangs \/ ReadPage \/ BlockPage \/ ReadFails \/ RssFails \/ OpenFails
    BY <1>5, <2>3 DEF GetHangs, ReadPage, BlockPage, ReadFails, RssFails, OpenFails,
                     Return, Raise
  <2>4. CASE EndFeed
    BY <1>5, <2>4 DEF EndFeed, Return
  <2>5. CASE Tick \/ UNCHANGED vars
    BY <1>6, <2>5 DEF Tick, vars
  <2>6. QED
    BY <1>1, <1>2, <1>3, <1>4, <2>1, <2>2, <2>3, <2>4, <2>5 DEF Next, Step, Disturb

\* The conjuncts hold together after every step.
LEMMA SessionStep == SessionInv /\ [Next]_vars => SessionInv'
BY ControlStep, RegionStep, AskedStep, PagingStep, CoolingStep, LinksStep
DEF SessionInv

-----------------------------------------------------------------------------
(* The theorems *)

\* Every reachable state of a session satisfies the inductive invariant.
THEOREM SessionInvariant == Spec => []SessionInv
BY SessionInit, SessionStep, PTL DEF Spec

\* The types of the session: above all that no cursor points beyond the last
\* page and no more calls are made in a run than there are pages.
THEOREM SessionTypes == Spec => []TypeOK
BY SessionInvariant, SessionInvImplies, PTL

\* One adapter serves keyword after keyword, and its requests always carry the
\* region of the keyword they are made for (apply_source_options).
THEOREM RegionIsKept == Spec => []RegionIsTheKeywords
BY SessionInvariant, RegionFromInv, PTL

\* A search reads its pages from the first on, without a gap or a repetition.
THEOREM PagesAreInOrder == Spec => []PagesInOrder
BY SessionInvariant, SessionInvImplies, PTL

\* Of the links of a feed at most as many are lost as met a fault.
THEOREM HangCostsOneUrl == Spec => []HangLosesOneUrl
BY SessionInvariant, SessionInvImplies, PTL

\* After a block no page is asked of search until the cooldown is over.
THEOREM CooldownIsRespected == Spec => CooldownRespected
<1>1. ASSUME SessionInv, [Next]_vars
      PROVE  [pc = "discover" /\ pc' = "get" => quiet = Cooldown]_vars
  <2>1. SUFFICES ASSUME pc = "discover", pc' = "get" PROVE quiet = Cooldown
    OBVIOUS
  <2>2. AskSearch
    BY <1>1, <2>1
    DEF Next, Step, Disturb, StartRun, AskRss, OpenBrowser, GetHangs, ReadPage,
        ReadRss, Visit, VisitFails, EndFeed, OpenFails, Hang, BlockPage, ReadFails,
        RssFails, Tick, Return, vars, NeedsDriver
  <2>3. QED
    BY <1>1, <2>2, GoogleAssumption
    DEF GoogleAssumption, AskSearch, CoolingDown, SessionInv, Cooling
<1>2. QED BY <1>1, SessionInvariant, PTL DEF Spec, CooldownRespected

\* A run that has begun in search does not go on in rss, nor the other way
\* round, also when a block begins or a cooldown ends between two of its calls.
THEOREM RunKeepsItsMode == Spec => OneModePerRun
<1>1. ASSUME SessionInv, [Next]_vars
      PROVE  [pc = "discover" /\ pc' \in {"get", "rss"} /\ calls > 0 =>
                asked'.mode = asked.mode]_vars
  <2>1. SUFFICES ASSUME pc = "discover", pc' \in {"get", "rss"}, calls > 0
                 PROVE  asked'.mode = asked.mode
    OBVIOUS
  <2>2. asked.mode = "search" /\ cursor # None
    BY <1>1, <2>1, GoogleAssumption
    DEF GoogleAssumption, SessionInv, Asked, Paging, Page
  <2>3. AskSearch \/ AskRss
    BY <1>1, <2>1
    DEF Next, Step, Disturb, StartRun, OpenBrowser, GetHangs, ReadPage,
        ReadRss, Visit, VisitFails, EndFeed, OpenFails, Hang, BlockPage, ReadFails,
        RssFails, Tick, Return, vars, NeedsDriver
  <2>4. ~AskRss
    BY <2>1, <2>2 DEF AskRss, Return
  <2>5. ~(Page > MaxPages)
    BY <1>1, PageInRange, GoogleAssumption DEF GoogleAssumption
  <2>6. QED BY <2>2, <2>3, <2>4, <2>5 DEF AskSearch
<1>2. QED BY <1>1, SessionInvariant, PTL DEF Spec, OneModePerRun
=============================================================================
