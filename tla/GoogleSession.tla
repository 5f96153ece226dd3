--------------------------- MODULE GoogleSession ---------------------------
(***************************************************************************)
(* UCGoogleNewsAdapter, the google_news source: one adapter serves one     *)
(* keyword after another and keeps, between them, its browser, the region  *)
(* of the last keyword and the end of its cooldown.  search reads result   *)
(* pages; after a block page it falls back to rss, which reads one feed    *)
(* and visits every link of it to learn the article it stands for.         *)
(***************************************************************************)
EXTENDS Integers, Sequences, FiniteSets

CONSTANTS
  Keyword, None,
  Region,       \* Region[k]: None, or the [host, params] its options spell
  Feeds,        \* the rss feeds: sequences of how their items are dated
  MaxPages,     \* _max_pages
  FullPage,     \* a page of fewer links is the last one (8 in the code)
  PageSize,     \* results of a page (10 in the code)
  Cooldown,     \* GOOGLE_BLOCK_COOLDOWN_SEC (3600), in ticks
  FaultSites, MaxFaults

Dated == {"fresh", "old", "unreadable"}
Site == {"start", "hang", "slow", "http", "read"}

ASSUME GoogleAssumption ==
  /\ \A k \in Keyword :
       \/ Region[k] = None
       \/ DOMAIN Region[k] = {"host", "params"} /\ Region[k].host # None
  /\ None \notin Keyword /\ \A f \in Feeds : f \in Seq(Dated)
  /\ MaxPages \in Nat \ {0} /\ None \notin Nat
  /\ PageSize \in Nat /\ FullPage \in 1..PageSize
  /\ Cooldown \in Nat \ {0} /\ MaxFaults \in Nat
  /\ FaultSites \subseteq Site

VARIABLES
  mode,         \* GOOGLE_DISCOVERY_MODE
  pc,           \* "idle", "discover", "get", "rss" or "resolve"
  kw, cursor,   \* of the run: its keyword and the cursor of its next call
  calls,        \* calls of discover that have returned in the run
  host, params, \* _region_host and _region_extra_params
  cooldown,     \* ticks until _search_blocked_until, or None
  driver,       \* "none", "up" or "hung"
  asked,        \* the request being answered
  links, todo, resolved,  \* _resolve_cbmi: the feed's items that are not old,
                          \* by position; those left; those with an article
  mishaps,      \* faults that met the links of this call
  quiet,        \* ticks since the last BotBlockedError, at most Cooldown
  faults

run == <<kw, cursor, calls>>
region == <<host, params>>
resolve == <<links, todo, resolved, mishaps>>
vars == <<mode, pc, run, region, cooldown, driver, asked, resolve,
          quiet, faults>>

Fault(site) ==
  /\ site \in FaultSites
  /\ faults < MaxFaults
  /\ faults' = faults + 1

Init ==
  /\ mode \in {"search", "rss"}
  /\ pc = "idle"
  /\ kw = None /\ cursor = None /\ calls = 0
  /\ host = None /\ params = <<>>
  /\ cooldown = None
  /\ driver = "none"
  /\ asked = None
  /\ links = {} /\ todo = {} /\ resolved = {} /\ mishaps = 0
  /\ quiet = Cooldown
  /\ faults = 0

-----------------------------------------------------------------------------
(* The dispatcher's side: a run, its calls and their results.  Which keyword *)
(* is due is the matter of DiscoveryRun.                                     *)

\* Mutant: a keyword without a region leaves the last one's in place.
OptionsKept(k) ==
  IF Region[k] = None THEN UNCHANGED region
  ELSE host' = Region[k].host /\ params' = Region[k].params

\* apply_source_options
ApplyOptions(k) ==
  IF Region[k] = None THEN host' = None /\ params' = <<>>
  ELSE host' = Region[k].host /\ params' = Region[k].params

StartRun(k) ==
  /\ pc = "idle" /\ pc' = "discover"
  /\ kw' = k /\ cursor' = None /\ calls' = 0
  /\ ApplyOptions(k)
  /\ UNCHANGED <<mode, cooldown, driver, asked, resolve, quiet, faults>>

\* A result: the run goes on with the next cursor, or is over, also where the
\* dispatcher stops it early.
Return(next) ==
  /\ cursor' = next
  /\ calls' = calls + 1
  /\ pc' \in IF next = None THEN {"idle"} ELSE {"idle", "discover"}
  /\ UNCHANGED kw

\* An exception ends the run.
Raise ==
  /\ pc' = "idle"
  /\ UNCHANGED run

-----------------------------------------------------------------------------
(* discover *)

\* Mutants: the cooldown never expires; it is not looked at.
BlockedForEver == cooldown # None
BlockedNever == FALSE

\* The cooldown after a block; once it is over the flag is reset.
CoolingDown == cooldown # None /\ cooldown > 0

\* query.update(_region_extra_params)
Query(default) ==
  [p \in DOMAIN params \cup DOMAIN default |->
     IF p \in DOMAIN params THEN params[p] ELSE default[p]]

Page == IF cursor = None THEN 1 ELSE cursor

\* A request of search, or nothing beyond the last page.
AskSearch ==
  /\ pc = "discover" /\ mode = "search" /\ ~CoolingDown
  /\ cooldown' = None
  /\ IF Page > MaxPages THEN Return(None) /\ UNCHANGED asked
     ELSE /\ asked' = [mode |-> "search",
                       host |-> IF host = None THEN "www.google.com" ELSE host,
                       query |-> Query([hl |-> "ko", gl |-> "KR"]),
                       start |-> (Page - 1) * PageSize]
          /\ pc' = "get"
          /\ UNCHANGED run
  /\ UNCHANGED <<mode, region, driver, resolve, quiet, faults>>

\* A request of rss, which has no second page.  The feed has one host; of the
\* region only the parameters count.
AskRss ==
  /\ pc = "discover" /\ (mode = "rss" \/ CoolingDown)
  /\ IF cursor # None THEN Return(None) /\ UNCHANGED asked
     ELSE /\ asked' = [mode |-> "rss", host |-> "news.google.com",
                       query |->
                         Query([hl |-> "ko", gl |-> "KR", ceid |-> "KR:ko"]),
                       start |-> 0]
          /\ pc' = "rss"
          /\ UNCHANGED run
  /\ UNCHANGED <<mode, region, cooldown, driver, resolve, quiet, faults>>

-----------------------------------------------------------------------------
(* _ensure_driver, as its two callers see it *)

NeedsDriver == driver = "none" /\ (pc = "get" \/ (pc = "resolve" /\ todo # {}))

OpenBrowser ==
  /\ NeedsDriver
  /\ driver' = "up"
  /\ UNCHANGED <<mode, pc, run, region, cooldown, asked, resolve, quiet,
                 faults>>

\* The start of a browser fails, on the way through the links as well: there
\* the articles already resolved are lost with the call.
OpenFails ==
  /\ NeedsDriver
  /\ Fault("start")
  /\ Raise
  /\ UNCHANGED <<mode, region, cooldown, driver, asked, resolve, quiet>>

Hang ==
  /\ driver = "up"
  /\ Fault("hang")
  /\ driver' = "hung"
  /\ mishaps' = IF pc = "resolve" THEN mishaps + 1 ELSE mishaps
  /\ UNCHANGED <<mode, pc, run, region, cooldown, asked, links, todo,
                 resolved, quiet>>

-----------------------------------------------------------------------------
(* _discover_search *)

GetHangs ==
  /\ pc = "get" /\ driver = "hung"
  /\ driver' = "none"
  /\ Raise
  /\ UNCHANGED <<mode, region, cooldown, asked, resolve, quiet, faults>>

\* Mutants: a page is skipped; the last page is not known.
NextCursorSkips(n) == IF n >= FullPage /\ Page < MaxPages THEN Page + 2 ELSE None
NextCursorUnbounded(n) == IF n >= FullPage THEN Page + 1 ELSE None

NextCursor(n) == IF n >= FullPage /\ Page < MaxPages THEN Page + 1 ELSE None

\* Of the links of a page those to other hosts and with a path are kept, each
\* once; n are left.  None is the end of the results unless it is a block.
ReadPage ==
  /\ pc = "get" /\ driver = "up"
  /\ \E n \in 0..PageSize : Return(NextCursor(n))
  /\ UNCHANGED <<mode, region, cooldown, driver, asked, resolve, quiet,
                 faults>>

\* No links and the marks of a block page.
BlockPage ==
  /\ pc = "get" /\ driver = "up"
  /\ cooldown' = Cooldown
  /\ quiet' = 0
  /\ Raise
  /\ UNCHANGED <<mode, region, driver, asked, resolve, faults>>

\* The browser hangs between get and the end of the call: find_elements raises
\* and the hung driver is kept, or the page cannot be searched for the marks of
\* a block and counts as the end of the results.
ReadFails ==
  /\ pc = "get" /\ driver = "up"
  /\ Fault("read")
  /\ driver' = "hung"
  /\ Raise \/ Return(None)
  /\ UNCHANGED <<mode, region, cooldown, asked, resolve, quiet>>

-----------------------------------------------------------------------------
(* _discover_rss and _resolve_cbmi *)

RssFails ==
  /\ pc = "rss"
  /\ Fault("http")
  /\ Raise
  /\ UNCHANGED <<mode, region, cooldown, driver, asked, resolve, quiet>>

\* _parse_rss: an old item is left out, one with an unreadable date is not.
ParseRss(feed) == {i \in DOMAIN feed : feed[i] # "old"}

ReadRss ==
  /\ pc = "rss"
  /\ \E feed \in Feeds : links' = ParseRss(feed)
  /\ todo' = links'
  /\ resolved' = {}
  /\ mishaps' = IF driver = "hung" THEN 1 ELSE 0
  /\ pc' = "resolve"
  /\ UNCHANGED <<mode, run, region, cooldown, driver, asked, quiet,
                 faults>>

\* The next link in the order of the feed.
NextLink(i) == i \in todo /\ \A j \in todo : i <= j

\* A link, in a tab of its own, leads to its article, or is still at google.com
\* when the wait is over.
Visit ==
  /\ pc = "resolve" /\ driver = "up"
  /\ \E i \in todo :
       /\ NextLink(i)
       /\ todo' = todo \ {i}
       /\ \/ /\ resolved' = resolved \cup {i}
             /\ UNCHANGED <<mishaps, faults>>
          \/ /\ Fault("slow")
             /\ mishaps' = mishaps + 1
             /\ UNCHANGED resolved
  /\ UNCHANGED <<mode, pc, run, region, cooldown, driver, asked, links,
                 quiet>>

\* Mutant: the driver that hangs is kept.
VisitFailsAndStays ==
  /\ pc = "resolve" /\ driver = "hung"
  /\ \E i \in todo : NextLink(i) /\ todo' = todo \ {i}
  /\ UNCHANGED <<mode, pc, run, region, cooldown, driver, asked, links,
                 resolved, mishaps, quiet, faults>>

\* A command on the link raises: the link is given up, unless only its tab could
\* not be closed, and the driver is closed.
VisitFails ==
  /\ pc = "resolve" /\ driver = "hung"
  /\ \E i \in todo :
       /\ NextLink(i)
       /\ todo' = todo \ {i}
       /\ resolved' \in {resolved, resolved \cup {i}}
  /\ driver' = "none"
  /\ UNCHANGED <<mode, pc, run, region, cooldown, asked, links, mishaps,
                 quiet, faults>>

\* Mutant: the feed is said to go on.
FeedGoesOn ==
  /\ pc = "resolve" /\ todo = {}
  /\ Return(IF Cardinality(links) >= FullPage THEN 2 ELSE None)
  /\ UNCHANGED <<mode, region, cooldown, driver, asked, resolve, quiet,
                 faults>>

EndFeed ==
  /\ pc = "resolve" /\ todo = {}
  /\ Return(None)
  /\ UNCHANGED <<mode, region, cooldown, driver, asked, resolve, quiet,
                 faults>>

-----------------------------------------------------------------------------
(* Time *)

Tick ==
  /\ cooldown' = IF cooldown # None /\ cooldown > 0 THEN cooldown - 1 ELSE cooldown
  /\ quiet' = IF quiet < Cooldown THEN quiet + 1 ELSE quiet
  /\ <<cooldown, quiet>>' # <<cooldown, quiet>>
  /\ UNCHANGED <<mode, pc, run, region, driver, asked, resolve, faults>>

Step ==
  \/ AskSearch \/ AskRss \/ OpenBrowser \/ GetHangs \/ ReadPage
  \/ ReadRss \/ Visit \/ VisitFails \/ EndFeed

Disturb == OpenFails \/ Hang \/ BlockPage \/ ReadFails \/ RssFails

Next == (\E k \in Keyword : StartRun(k)) \/ Step \/ Disturb \/ Tick

\* The worker goes on with its run and finds a due keyword again and again; time
\* passes.
Fairness ==
  /\ WF_vars(Step)
  /\ WF_vars(\E k \in Keyword : StartRun(k))
  /\ WF_vars(Tick)

Spec == Init /\ [][Next]_vars /\ Fairness
-----------------------------------------------------------------------------
(* Properties *)

Params == {"hl", "gl", "ceid"}

\* Types; a cursor never points beyond the last page.
TypeOK ==
  /\ mode \in {"search", "rss"}
  /\ pc \in {"idle", "discover", "get", "rss", "resolve"}
  /\ kw \in Keyword \cup {None} /\ cursor \in (1..MaxPages) \cup {None}
  /\ calls \in 0..MaxPages
  /\ cooldown \in (0..Cooldown) \cup {None}
  /\ driver \in {"none", "up", "hung"}
  /\ links \subseteq Nat /\ resolved \subseteq links /\ todo \subseteq links
  /\ mishaps \in 0..MaxFaults /\ quiet \in 0..Cooldown /\ faults \in 0..MaxFaults

\* Every request carries the region of the keyword it is made for, whatever
\* keywords the adapter has served before: its parameters in both modes, its
\* host in search.
RegionIsTheKeywords ==
  pc \in {"get", "rss"} =>
    LET own == IF Region[kw] = None THEN <<>> ELSE Region[kw].params
    IN  /\ \A p \in Params \cap DOMAIN asked.query :
             asked.query[p] = IF p \in DOMAIN own THEN own[p]
                              ELSE CASE p = "hl" -> "ko" [] p = "gl" -> "KR"
                                     [] p = "ceid" -> "KR:ko"
        /\ pc = "get" => asked.host = IF Region[kw] = None THEN "www.google.com"
                                      ELSE Region[kw].host

\* The pages of a search are read from the first on, without a gap and without
\* reading one twice, across the cursors that go through the dispatcher.
PagesInOrder == pc = "get" => asked.start = calls * PageSize

\* A browser that hangs in the middle of a feed costs the link it was at and no
\* other: of the links of a feed that is read to its end at most as many are
\* missing as were met by a fault.
HangLosesOneUrl ==
  pc = "resolve" =>
    Cardinality(resolved) + mishaps + Cardinality(todo) >= Cardinality(links)

\* No page is asked of search within the cooldown of the last block.
CooldownRespected ==
  [][pc = "discover" /\ pc' = "get" => quiet = Cooldown]_vars

\* A run stays with the mode of its first request, also when a cooldown ends
\* in the middle of it: it never goes on at the second page of a search whose
\* first it has not read.
OneModePerRun ==
  [][pc = "discover" /\ pc' \in {"get", "rss"} /\ calls > 0 =>
       asked'.mode = asked.mode]_vars

\* The fallback is temporary: after a block, search is asked again some day.
SearchComesBack == cooldown # None ~> pc = "get"
=============================================================================
