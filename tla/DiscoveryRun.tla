---------------------------- MODULE DiscoveryRun ----------------------------
(***************************************************************************)
(* app/scheduling/dispatcher.py: workers that claim a keyword, page        *)
(* through its search results, store each page and record the outcome.     *)
(*                                                                         *)
(* The claim is the atomic Grant of KeywordLease, which KeywordClaim shows *)
(* claim_next to implement; storing a page is atomic but counts against an *)
(* earlier snapshot of t_crawl_url, as UrlInsert shows of                  *)
(* bulk_insert_discovered.  Time is abstract: a keyword is due, or put off *)
(* by its interval, or put off by the shorter retry delay.                 *)
(*                                                                         *)
(* A keyword's search results are a feed of URLs, newest first when the    *)
(* source sorts by date; articles keep appearing while a run reads it.     *)
(* Faults strike at the sites in FaultSites, at most MaxFaults times.      *)
(***************************************************************************)
EXTENDS Integers, Sequences, FiniteSets

CONSTANTS
  Worker, Keyword, None,
  Supply,       \* Supply[k]: URLs that k's source publishes, in that order
  Excluded,     \* URLs whose host has t_domain.excluded = 1
  Sorted,       \* does the source list its newest articles first?
  PageSize, MaxPages,
  MaxRetries,   \* _MAX_403_RETRIES = _MAX_BOT_DETECT_RETRIES (5 in the code)
  Prompt,       \* does a run's except clause end before its retry delay does?
  MaxDrift,     \* articles that may appear between two fetches of a run
  FaultSites, MaxFaults,
  MaxDays       \* midnights that may pass

ErrorKind == {"http403", "bot", "other"}
Throttled == {"http403", "bot"}

\* An error row of t_collection_log, as far as its two counts tell rows apart:
\* the class of the exception and whether its text contains "403".
ErrorRow == ErrorKind \X BOOLEAN

\* A short retry: the kind of block, and whether the run it is granted to began
\* before the last midnight.
Grant == Throttled \X BOOLEAN

Site == {"http403", "bot", "other", "store", "clear", "log", "count",
         "reschedule", "flag", "errlog", "death"}

Url == UNION {{Supply[k][i] : i \in DOMAIN Supply[k]} : k \in Keyword}

ASSUME RunAssumption ==
  /\ None \notin Keyword
  /\ \A k \in Keyword : Supply[k] \in Seq(Url)
  /\ Sorted \in BOOLEAN /\ Prompt \in BOOLEAN /\ MaxDrift \in Nat
  /\ PageSize \in Nat \ {0} /\ MaxPages \in Nat \ {0} /\ MaxRetries \in Nat
  /\ FaultSites \subseteq Site
  /\ MaxFaults \in Nat /\ MaxDays \in Nat

VARIABLES
  feed,         \* feed[k]: what a search for k lists now
  stored,       \* URLs with a row in t_crawl_url
  sched,        \* sched[k]: "due", or why next_discover_at is in the future
  pending,      \* pending[k]: t_keyword.retry_pending
  rows,         \* rows[k][r]: k's error rows r dated today in t_collection_log
  retries,      \* retries[k][g]: short retries g that k was granted today
  pc,           \* pc[w]: the next database or network call of w's run
  kw,           \* kw[w]: the claimed keyword, or None
  isRetry,      \* isRetry[w]: full scan without early stop
  pageNo, page, more, known,
  err,          \* err[w]: class of the exception being handled
  late,         \* late[w]: did the run begin before the last midnight?
  drift,        \* drift[w]: articles that appeared since w's last fetch
  faults, days

db    == <<stored, sched, pending, rows, retries>>
run   == <<kw, isRetry, pageNo, page, more, known, err, late, drift>>
bound == <<faults, days>>
vars  == <<feed, db, pc, run, bound>>

Goto(w, from, to) == pc[w] = from /\ pc' = [pc EXCEPT ![w] = to]

Fault(site) ==
  /\ site \in FaultSites
  /\ faults < MaxFaults
  /\ faults' = faults + 1

Holders(k) == {w \in Worker : kw[w] = k}

-----------------------------------------------------------------------------
(* A source adapter, as its contract with the dispatcher has it *)

Least(a, b) == IF a < b THEN a ELSE b

Page(f, n) == SubSeq(f, (n - 1) * PageSize + 1, Least(n * PageSize, Len(f)))
HasMore(f, n, limit) == n * PageSize < Len(f) /\ n < limit

Urls(s) == {s[i] : i \in DOMAIN s}

-----------------------------------------------------------------------------
Init ==
  /\ feed = [k \in Keyword |-> <<>>]
  /\ stored = {}
  /\ sched = [k \in Keyword |-> "due"]
  /\ pending = [k \in Keyword |-> FALSE]
  /\ rows = [k \in Keyword |-> [r \in ErrorRow |-> 0]]
  /\ retries = [k \in Keyword |-> [g \in Grant |-> 0]]
  /\ pc = [w \in Worker |-> "idle"]
  /\ kw = [w \in Worker |-> None]
  /\ isRetry = [w \in Worker |-> FALSE]
  /\ pageNo = [w \in Worker |-> 0]
  /\ page = [w \in Worker |-> {}]
  /\ more = [w \in Worker |-> FALSE]
  /\ known = [w \in Worker |-> {}]
  /\ err = [w \in Worker |-> None]
  /\ late = [w \in Worker |-> FALSE]
  /\ drift = [w \in Worker |-> 0]
  /\ faults = 0
  /\ days = 0

\* claim_next hands k to w together with its retry_pending.
Claim(w, k) ==
  /\ sched[k] = "due"
  /\ Goto(w, "idle", "discover")
  /\ sched' = [sched EXCEPT ![k] = "interval"]
  /\ kw' = [kw EXCEPT ![w] = k]
  /\ isRetry' = [isRetry EXCEPT ![w] = pending[k]]
  /\ pageNo' = [pageNo EXCEPT ![w] = 1]
  /\ UNCHANGED <<feed, stored, pending, rows, retries, page, more, known, err,
                 late, drift, bound>>

\* The adapter fetches a page; bulk_insert_discovered reads which of its URLs,
\* the excluded hosts left out, have rows already.
Discover(w) ==
  LET f == feed[kw[w]]
      p == Urls(Page(f, pageNo[w]))
  IN  /\ Goto(w, "discover", "store")
      /\ page' = [page EXCEPT ![w] = p]
      /\ more' = [more EXCEPT ![w] = HasMore(f, pageNo[w], MaxPages)]
      /\ known' = [known EXCEPT ![w] = p \cap stored]
      /\ drift' = [drift EXCEPT ![w] = 0]
      /\ UNCHANGED <<feed, db, kw, isRetry, pageNo, err, late, bound>>

Inserted(w) == Cardinality(page[w] \ (Excluded \cup known[w]))
Skipped(w) == Cardinality(page[w]) - Inserted(w)

\* Mutants: a retry run stops early too; one duplicate is enough to stop.
EarlyStopOnRetry(w) == Skipped(w) > 0 /\ Inserted(w) = 0
EarlyStopOnDuplicate(w) == ~isRetry[w] /\ Skipped(w) > 0

\* The branch of the page loop that ends the run before the last page.
EarlyStop(w) == ~isRetry[w] /\ Skipped(w) > 0 /\ Inserted(w) = 0

StorePage(w) == stored' = stored \cup (page[w] \ Excluded)
SetPending(w, b) == pending' = [pending EXCEPT ![kw[w]] = b]

\* Mutant: the cursor is not advanced.
StoreSamePage(w) ==
  LET goOn == more[w] /\ ~EarlyStop(w)
  IN  /\ Goto(w, "store", IF goOn THEN "discover" ELSE "clear")
      /\ StorePage(w)
      /\ UNCHANGED <<feed, sched, pending, rows, retries, run, bound>>

\* The page is committed; go on with the next one or leave the loop.
Store(w) ==
  LET goOn == more[w] /\ ~EarlyStop(w)
  IN  /\ Goto(w, "store", IF goOn THEN "discover" ELSE "clear")
      /\ StorePage(w)
      /\ pageNo' = [pageNo EXCEPT ![w] = IF goOn THEN @ + 1 ELSE @]
      /\ UNCHANGED <<feed, sched, pending, rows, retries, kw, isRetry, page,
                     more, known, err, late, drift, bound>>

\* Success: set_retry_pending(False), then the log row.
Clear(w) ==
  /\ Goto(w, "clear", "log")
  /\ SetPending(w, FALSE)
  /\ UNCHANGED <<feed, stored, sched, rows, retries, run, bound>>

\* _run_one returns, or its process is gone: the loop's state is as new.
Leave(w) ==
  /\ pc' = [pc EXCEPT ![w] = "idle"]
  /\ kw' = [kw EXCEPT ![w] = None]
  /\ isRetry' = [isRetry EXCEPT ![w] = FALSE]
  /\ pageNo' = [pageNo EXCEPT ![w] = 0]
  /\ page' = [page EXCEPT ![w] = {}]
  /\ more' = [more EXCEPT ![w] = FALSE]
  /\ known' = [known EXCEPT ![w] = {}]
  /\ err' = [err EXCEPT ![w] = None]
  /\ late' = [late EXCEPT ![w] = FALSE]
  /\ drift' = [drift EXCEPT ![w] = 0]

Log(w) ==
  /\ pc[w] = "log"
  /\ Leave(w)
  /\ UNCHANGED <<feed, db, bound>>

-----------------------------------------------------------------------------
(* The except clause of _run_one *)

\* Mutants: the exception is not kept; only blocks leave retry_pending set.
RaiseUnnamed(w, e) ==
  /\ pc' = [pc EXCEPT ![w] = IF e \in Throttled THEN "count" ELSE "flag"]
  /\ UNCHANGED <<feed, run, days>>

RaiseUnflagged(w, e) ==
  /\ pc' = [pc EXCEPT ![w] = IF e \in Throttled THEN "count" ELSE "errlog"]
  /\ err' = [err EXCEPT ![w] = e]
  /\ UNCHANGED <<feed, kw, isRetry, pageNo, page, more, known, late, drift, days>>

Raise(w, e) ==
  /\ pc' = [pc EXCEPT ![w] = IF e \in Throttled THEN "count" ELSE "flag"]
  /\ err' = [err EXCEPT ![w] = e]
  /\ UNCHANGED <<feed, kw, isRetry, pageNo, page, more, known, late, drift, days>>

\* adapter.discover raises: an HTTP 403, a BotBlockedError or anything else.
DiscoverFails(w, e) ==
  pc[w] = "discover" /\ Fault(e) /\ Raise(w, e) /\ UNCHANGED db

\* A statement of the try block raises: its transaction is rolled back, or it is
\* committed and the answer is lost.
CallFails(w, site) ==
  /\ pc[w] = site
  /\ Fault(site)
  /\ Raise(w, "other")
  /\ \/ UNCHANGED <<stored, pending>>
     \/ site = "store" /\ StorePage(w) /\ UNCHANGED pending
     \/ site = "clear" /\ SetPending(w, FALSE) /\ UNCHANGED stored
  /\ UNCHANGED <<sched, rows, retries>>

\* count_today_403: error_msg LIKE '%403%'.
\* count_today_bot_blocked: error_msg LIKE 'BotBlockedError%'.
CountToday(k, e) ==
  IF e = "http403"
  THEN rows[k][<<"http403", TRUE>>] + rows[k][<<"bot", TRUE>>]
         + rows[k][<<"other", TRUE>>]
  ELSE rows[k][<<"bot", TRUE>>] + rows[k][<<"bot", FALSE>>]

\* Mutant: one retry too many.
CountLoosely(w) ==
  /\ Goto(w, "count",
          IF CountToday(kw[w], err[w]) <= MaxRetries THEN "reschedule" ELSE "flag")
  /\ UNCHANGED <<feed, db, run, bound>>

\* count_today_403 or count_today_bot_blocked decides whether to try again
\* soon; otherwise next_discover_at stays where the claim put it.
Count(w) ==
  /\ Goto(w, "count",
          IF CountToday(kw[w], err[w]) < MaxRetries THEN "reschedule" ELSE "flag")
  /\ UNCHANGED <<feed, db, run, bound>>

PutOff(w) ==
  /\ sched' = [sched EXCEPT ![kw[w]] = "retry"]
  /\ retries' = [retries EXCEPT ![kw[w]][<<err[w], late[w]>>] = @ + 1]

Reschedule(w) ==
  /\ Goto(w, "reschedule", "flag")
  /\ PutOff(w)
  /\ UNCHANGED <<feed, stored, pending, rows, run, bound>>

\* Mutant: the handler clears the flag.
FlagCleared(w) ==
  /\ Goto(w, "flag", "errlog")
  /\ SetPending(w, FALSE)
  /\ UNCHANGED <<feed, stored, sched, rows, retries, run, bound>>

\* set_retry_pending(True); its failure is swallowed.
Flag(w) ==
  /\ Goto(w, "flag", "errlog")
  /\ SetPending(w, TRUE)
  /\ UNCHANGED <<feed, stored, sched, rows, retries, run, bound>>

FlagFails(w) ==
  /\ Fault("flag")
  /\ Goto(w, "flag", "errlog")
  /\ UNCHANGED pending \/ SetPending(w, TRUE)
  /\ UNCHANGED <<feed, stored, sched, rows, retries, run, days>>

\* The row is dated with the start of the run.  The text of a 403 always
\* mentions it; the text of any other exception may (a URL, an address).
AddErrorRow(w) ==
  \E mentions403 \in BOOLEAN :
    /\ err[w] = "http403" => mentions403
    /\ rows' = IF late[w] THEN rows
               ELSE [rows EXCEPT ![kw[w]][<<err[w], mentions403>>] = @ + 1]

ErrLog(w) ==
  /\ pc[w] = "errlog"
  /\ AddErrorRow(w)
  /\ Leave(w)
  /\ UNCHANGED <<feed, stored, sched, pending, retries, bound>>

ErrLogFails(w) ==
  /\ pc[w] = "errlog"
  /\ Fault("errlog")
  /\ Leave(w)
  /\ UNCHANGED rows \/ AddErrorRow(w)
  /\ UNCHANGED <<feed, stored, sched, pending, retries, days>>

\* An exception in the except clause before its inner try blocks leaves
\* _run_one and the loop: the process exits and docker starts it again.  The
\* keyword may be put off all the same, when the answer of reschedule is lost.
HandlerDies(w, site) ==
  /\ pc[w] = site
  /\ Fault(site)
  /\ Leave(w)
  /\ \/ UNCHANGED <<sched, retries>>
     \/ site = "reschedule" /\ PutOff(w)
  /\ UNCHANGED <<feed, stored, pending, rows, days>>

\* SIGTERM and SIGINT raise SystemExit, which except Exception does not catch;
\* an unknown source_type in --source ALL mode, a kill or an outage end the
\* process as well.
Death(w) ==
  /\ pc[w] # "idle"
  /\ Fault("death")
  /\ Leave(w)
  /\ UNCHANGED <<feed, db, days>>

-----------------------------------------------------------------------------
(* Environment *)

\* next_discover_at is reached.  The interval a claim adds to it (a day in the
\* code) is taken to outlast the run; the retry delay, which is shorter, may pass
\* while the run that was granted it is still in its except clause.
FallDue(k) ==
  /\ sched[k] # "due"
  /\ Prompt \/ sched[k] = "interval" => Holders(k) = {}
  /\ sched' = [sched EXCEPT ![k] = "due"]
  /\ UNCHANGED <<feed, stored, pending, rows, retries, pc, run, bound>>

Insertions(k, u) ==
  IF Sorted THEN {<<u>> \o feed[k]}
  ELSE {SubSeq(feed[k], 1, i) \o <<u>> \o SubSeq(feed[k], i + 1, Len(feed[k])) :
          i \in 0..Len(feed[k])}

Publish(k) ==
  /\ Len(feed[k]) < Len(Supply[k])
  /\ \A w \in Holders(k) : drift[w] < MaxDrift
  /\ \E f \in Insertions(k, Supply[k][Len(feed[k]) + 1]) :
       feed' = [feed EXCEPT ![k] = f]
  /\ drift' = [w \in Worker |-> IF kw[w] = k THEN drift[w] + 1 ELSE drift[w]]
  /\ UNCHANGED <<db, pc, kw, isRetry, pageNo, page, more, known, err, late,
                 bound>>

Midnight ==
  /\ days < MaxDays
  /\ days' = days + 1
  /\ rows' = [k \in Keyword |-> [r \in ErrorRow |-> 0]]
  /\ retries' = [k \in Keyword |-> [g \in Grant |-> 0]]
  /\ late' = [w \in Worker |-> kw[w] # None]
  /\ UNCHANGED <<feed, stored, sched, pending, pc, kw, isRetry, pageNo, page,
                 more, known, err, drift, faults>>

-----------------------------------------------------------------------------
Step(w) ==
  \/ Discover(w) \/ Store(w) \/ Clear(w) \/ Log(w)
  \/ Count(w) \/ Reschedule(w) \/ Flag(w) \/ ErrLog(w)

Failure(w) ==
  \/ \E e \in ErrorKind : DiscoverFails(w, e)
  \/ \E site \in {"store", "clear", "log"} : CallFails(w, site)
  \/ \E site \in {"count", "reschedule"} : HandlerDies(w, site)
  \/ FlagFails(w)
  \/ ErrLogFails(w)
  \/ Death(w)

RunNext ==
  \/ \E w \in Worker, k \in Keyword : Claim(w, k)
  \/ \E w \in Worker : Step(w) \/ Failure(w)
  \/ \E k \in Keyword : Publish(k)
  \/ Midnight

Next == RunNext \/ \E k \in Keyword : FallDue(k)

Spec == Init /\ [][Next]_vars

\* A worker keeps making its calls, time passes, and some idle worker takes
\* what is due.  Nothing is assumed of faults, new articles and midnights.
Fairness ==
  /\ \A w \in Worker : WF_vars(Step(w))
  /\ \A k \in Keyword :
       /\ WF_vars(FallDue(k))
       /\ SF_vars(\E w \in Worker : Claim(w, k))

FairSpec == Spec /\ Fairness

-----------------------------------------------------------------------------
(* Properties *)

\* Types; a run's fields belong to a claimed keyword, and the except clause
\* knows its exception.
TypeOK ==
  /\ feed \in [Keyword -> Seq(Url)]
  /\ stored \subseteq Url
  /\ sched \in [Keyword -> {"due", "interval", "retry"}]
  /\ pending \in [Keyword -> BOOLEAN]
  /\ rows \in [Keyword -> [ErrorRow -> Nat]]
  /\ retries \in [Keyword -> [Grant -> Nat]]
  /\ pc \in [Worker -> {"idle", "discover", "store", "clear", "log", "count",
                        "reschedule", "flag", "errlog"}]
  /\ kw \in [Worker -> Keyword \cup {None}]
  /\ isRetry \in [Worker -> BOOLEAN]
  /\ pageNo \in [Worker -> 0..MaxPages]
  /\ page \in [Worker -> SUBSET Url]
  /\ more \in [Worker -> BOOLEAN]
  /\ known \in [Worker -> SUBSET Url]
  /\ err \in [Worker -> ErrorKind \cup {None}]
  /\ late \in [Worker -> BOOLEAN]
  /\ drift \in [Worker -> Nat]
  /\ faults \in 0..MaxFaults
  /\ days \in 0..MaxDays
  /\ \A w \in Worker :
       /\ pc[w] = "idle" <=> kw[w] = None
       /\ pc[w] \in {"count", "reschedule"} => err[w] \in Throttled
       /\ pc[w] \in {"flag", "errlog"} => err[w] \in ErrorKind

\* The URLs of k's feed have rows down from the first one that has: nothing
\* that is listed below a collected article is missing.
NoGap(k) ==
  \A i, j \in DOMAIN feed[k] :
    i < j /\ feed[k][i] \in stored => feed[k][j] \in stored \cup Excluded

\* The early stop is only sound because a run that breaks off leaves
\* retry_pending set: whenever a keyword is at rest with the flag clear, its
\* collected articles form an unbroken tail of its feed, so a page without news
\* has nothing uncollected below it.
NoGapLeft ==
  \A k \in Keyword : ~pending[k] /\ Holders(k) = {} => NoGap(k)

\* At the early stop itself: every page below the one that showed no news is
\* collected already.
EarlyStopIsComplete ==
  \A w \in Worker :
    pc[w] = "store" /\ more[w] /\ EarlyStop(w) =>
      LET f == feed[kw[w]]
      IN  \A i \in DOMAIN f :
            (\E j \in DOMAIN f : j < i /\ f[j] \in page[w])
              => f[i] \in stored \cup Excluded

\* In a day a keyword is put off by the short retry delay at most MaxRetries times
\* for each of the two kinds of block, and once more for a run that midnight has
\* caught before its reschedule: the row of that run is dated yesterday, so the
\* counts of today neither see nor limit it.
RetryBudget ==
  \A k \in Keyword :
    /\ \A e \in Throttled : retries[k][<<e, FALSE>>] <= MaxRetries
    /\ retries[k][<<"http403", TRUE>>] + retries[k][<<"bot", TRUE>>] <= 1

\* A keyword that waits for its short retry has the flag that makes the retry a
\* full scan, but for one window: reschedule comes before set_retry_pending, and
\* until the worker that has put the keyword off is past both, the flag is clear.
RetryIsFullScan ==
  \A k \in Keyword :
    sched[k] = "retry" /\ (\A w \in Holders(k) : pc[w] # "flag") => pending[k]

\* A run that ends any other way than by its success leaves the flag up, at the
\* instant it ends: keyword_repo.py:83 and schema.sql:35 promise a full scan
\* after an interrupted run.
BrokenRunIsFlagged ==
  [][\A w \in Worker :
       kw[w] # None /\ kw'[w] = None /\ pc[w] # "log" => pending'[kw[w]]]_vars

\* Every article that appears in a feed is collected sooner or later, however
\* its runs fail, as long as the failures come to an end.
EveryArticleCollected ==
  \A k \in Keyword : \A u \in Urls(Supply[k]) :
    u \in Urls(feed[k]) ~> u \in stored \cup Excluded

\* A run ends: the page loop cannot go on for ever.
RunEnds == \A w \in Worker : pc[w] # "idle" ~> pc[w] = "idle"

\* No fault strands a keyword: it falls due and is taken again and again.
KeywordComesBack ==
  \A k \in Keyword : []<>(sched[k] = "due") /\ []<>(sched[k] # "due")

-----------------------------------------------------------------------------
(* Conditions under which some of the properties hold *)

\* Of as many successive articles as a page still shows when MaxDrift of its
\* places are taken by articles that moved down, one is on an included host.
Varied(s) ==
  \A m \in 0..Len(s) : m + (PageSize - MaxDrift) <= Len(s) =>
    \E i \in (m + 1)..(m + (PageSize - MaxDrift)) : s[i] \notin Excluded

\* The feeds the early stop was designed for: newest first, moving by less than
\* a page between two fetches, within the page limit, each article on one feed.
CalmFeeds ==
  /\ Sorted
  /\ MaxDrift < PageSize
  /\ \A k \in Keyword :
       /\ Len(Supply[k]) <= MaxPages * PageSize
       /\ \A i, j \in DOMAIN Supply[k] : Supply[k][i] = Supply[k][j] => i = j
       /\ Varied(Supply[k])
  /\ \A k, l \in Keyword : k # l => Urls(Supply[k]) \cap Urls(Supply[l]) = {}

\* set_retry_pending(True) succeeds, and no process ends within a run.
FlagIsSet == FaultSites \cap {"flag", "death"} = {}

\* Besides, the calls before it in the except clause succeed.
HandlerWorks == FlagIsSet /\ FaultSites \cap {"count", "reschedule"} = {}

\* Besides, no answer of reschedule is lost.
RescheduleIsHeard == FlagIsSet /\ "reschedule" \notin FaultSites

\* The error row of a run that was granted a retry is written.
ErrorRowIsWritten == FaultSites \cap {"reschedule", "errlog", "death"} = {}
=============================================================================
