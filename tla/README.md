# discovery-worker in TLA+

discovery-worker is a set of Python processes that take search keywords from a
MariaDB table, page through the results of nine sources (Naver, Daum, Google,
Baidu, DuckDuckGo, Báo Mới, Tinhte, Naver Stock ...), store the URLs they find
and schedule the keyword again. Several workers run side by side against one
database, each in a container that docker restarts; some drive a Chrome. This
directory specifies the parts whose correctness depends on the order of events:
who owns a keyword, when a run may stop reading, what a failed run leaves
behind, how a page of URLs is stored, what an adapter carries from one keyword
to the next, who may touch a Chrome profile, and which spellings of an address
are one article.

## 1. Inventory

| Part | State it keeps | Operations | Talks to | What makes it correct |
|---|---|---|---|---|
| Keyword schedule (`keyword_repo.py`, `schema.sql`) | `t_keyword`: `next_discover_at`, `enabled`, `retry_pending` | `claim_next`, `reschedule`, `set_retry_pending` | all workers, crawler-admin | a due keyword goes to one worker; a full scan asked for is not missed; every due keyword is collected some day |
| Discovery run (`dispatcher.py`, `collection_log_repo.py`) | the cursor, counts and retry mode of a run; `t_collection_log` | `_run_one`, the loop, the two daily counts | every other part | the early stop never hides an article; a broken run asks for a full scan; retries are bounded; runs end |
| URL store (`crawl_url_repo.py`, `domain_repo.py`) | `t_crawl_url`, `t_domain.excluded` | `bulk_insert_discovered` | dispatcher, other workers | pages are stored whole; the first discovery stays; counts never hide a new row |
| Page adapters (`_base.py`, naver, daum, naver_stock, baomoi, duckduckgo, baidu, tinhte) | cursor; DuckDuckGo's `_seen_urls`; Tinhte's search widget | `discover` | dispatcher, a web site | every page once and in order; a block is not an empty result |
| Google adapter (`google_news.py`) | region, end of the cooldown, browser | `apply_source_options`, `discover`, `_resolve_cbmi` | dispatcher, Google, Chrome | no state of one keyword leaks into the next; a hang costs one link; the cooldown holds and ends |
| Chrome lifecycle (`_chrome_behavior.py`, `_profile_lock.py`, `_process_kill.py`, `_profile_cleanup.py`, `clean_chrome_profiles.py`) | driver, flock, child processes | start, close, kill, reap, clean | health-check thread, other workers, cron | a profile in use is locked; nothing is left running; nothing else is killed |
| Manual script (`run_discovery.py`) | the URLs of the pages read so far | a given keyword, or the next due one | the tables of the workers beside it | what it stores has no hole; what it does to the flag of a keyword does not mislead the workers |
| URL normaliser (`url_normalizer.py`) | none | `normalize`, `url_hash` | URL store | one hash per article however it is spelt, one article per hash |
| Entry point and signals (`__main__.py`) | none | SystemExit on SIGTERM/SIGINT | dispatcher | only as the ways a run or a browser ends |
| Health check, memory log | a file's time stamp | write, reap | docker | only the reaping of children |
| Chrome detection, fetch client, engine, config, logging, deployment | none that the others read | | | not modelled: no protocol of their own; their failures are faults of the calls that use them |

What is hard here: transactions that read a snapshot and write the latest
version; locks taken in any order; a flag in the database that repairs what a
failure broke; processes that end between two statements; adapters, browsers
and process numbers that outlive the keyword they were used for.
`PROJECT.json` lists each such hazard with its line and the properties that
watch it; a hazard without a property has a note saying why.

## 2. Modules

    KeywordLease   <--implements--  KeywordClaim      (claim_next in detail)
        ^ the atomic Grant is the Take of KeywordTurns (whose turn it is)
        ^ and the Claim of
    DiscoveryRun   <--extended by-- ManualRun         (run_discovery.py beside it)
        v the atomic page store is the Store of
    UrlStore       <--implements--  UrlInsert         (bulk_insert_discovered)
                                        v extends
                                    UrlNormalizer     (url_hash, operators only)

    SearchPages, GoogleSession     what discover returns, adapter by adapter
    ChromeProfile                  the browsers beneath three adapters
    KeywordClaimProofs, DiscoveryRunProofs, ManualRunProofs, UrlInsertProofs,
    UrlNormalizerProofs, SearchPagesProofs, GoogleSessionProofs,
    ChromeProfileProofs            TLAPS proofs (section 4)
    MC...                          constants for TLC

**KeywordClaim** has one action per database round trip of `claim_next`:
`Select` (snapshot of the due candidates and of their `retry_pending`),
`StartUpdate` / `UpdateHit` / `UpdateMiss` (the conditional UPDATE, which waits
for the row lock and checks the latest committed row against its own `NOW()`),
`CommitClaim` / `CommitNothing`. A row that did not match stays locked until
the transaction ends, so claims can deadlock (`DeadlockVictim`). Failures are
exceptions, lost commits, dying processes and edits by crawler-admin.
**KeywordLease** is the promise: one atomic step that takes an enabled, due
keyword and moves it into the future.

**KeywordTurns** takes that step as given and asks whose turn it is: `Take` hands a
worker the `First` due row of its filter by priority and age, `Finish` and
`FinishBlocked` (the short delay) end its run. Clocks count from an event instead of
from a start (`wait`, `age`), so time need not end, and what falls due again and again
may starve what stands behind it.

**DiscoveryRun** has one action per call of `_run_one` that can fail: `Claim`,
`Discover`, `Store`, `Clear`, `Log`, and for the except clause `Count`,
`Reschedule`, `Flag`, `ErrLog`; a fault can strike at each, and `Death` is
everything `except Exception` does not catch. A call that fails may have been
committed before its answer was lost (`CallFails`, `FlagFails`, `ErrLogFails`, and
`HandlerDies` for `reschedule`). With `Prompt = FALSE` the short retry delay may pass
while the run that was granted it is still in its except clause, so the keyword has
two runs. A feed of URLs, newest first when the source sorts, grows while it is read.

**ManualRun** is an operator's script beside those workers: `StartGiven` (no look
at the schedule) or `StartClaimed`, one `ScanPage` per page up to the script's own
limit, one `StoreAll` for everything found, and for a claimed keyword `ClearFlag`,
`LogRow` and, when a call raises (`TryFails`), `RaiseFlag`. `Interrupt` is Ctrl-C
or an exception nothing catches. Its log row has no error, and a failure is
neither counted nor rescheduled; a dry run changes no variable.

**UrlInsert** splits `bulk_insert_discovered` into the filter by excluded hosts,
the SELECT of existing hashes, the INSERT row by row under the locks of the
unique key, and the commit. **UrlStore** is the promise: a page is stored in one
step, and the number reported lies between the rows created and the URLs that
were missing when the call looked.

**UrlNormalizer** is `normalize` over parsed addresses: host, port, path, what
follows the path's last `;`, trailing slash, query, fragment. A sorted query is
its `Tally`: which arguments it has how often. `SameArticle` is the design
document's list of what must not matter, every `utm_` name among it (`Utm`), where
the code knows five (`Tracking`); `KnownUtm` are the addresses without any other, and
`Plain` those of which `normalize` drops nothing the list does not name. `UrlInsert`
takes its hashes from here, and an address `urlparse` refuses (`CallRefused`) refuses
its page.

**SearchPages** is `discover` of seven adapters over one listing: how each
counts pages (page number, offset from 0 or 1), where it stops, which links it
keeps, what it makes of an empty page, and for Tinhte the search widget that
the adapter drives from keyword to keyword.

**GoogleSession** is the google_news adapter across keywords: `ApplyOptions`,
the choice between `AskSearch` and `AskRss`, the cooldown after `BlockPage`, and
the links of a feed one at a time (`Visit`, `VisitFails`). Which keyword comes next
is left open; the retry of a blocked search may come before the cooldown is over and
is then answered by rss, as design.md:331 says.

**ChromeProfile** is `_ensure_driver` and `close` step by step (`Acquire`,
`Launch`, `BuildDone` or a failure; `Quit`, `KillTree`, `Release`) for several
adapters in several containers, with the table of processes, their numbers,
the reaper thread, signals, and the cleanup script on the host. SIGKILL is sent in
one step and the browser dies in a later one (`Dies`), and a build that fails may
leave its browser running (`left`), as the code has it.

Abstractions that matter: a URL, link, region or profile is a model value or a
small record; HTML, XPath, logging and delays are left out; time is a counter
in KeywordClaim, KeywordTurns and GoogleSession and an order of events elsewhere.

## 3. Runs

Passing runs (all with two workers where workers interact; TLC explores every
interleaving):

| Run | Question | Bounds |
|---|---|---|
| `KeywordClaim_exclusive` | `AtMostOneHolder`, `FreshRetryFlag`, and `LeaseSpec` (claim_next implements the lease) while runs keep to their leases | 2 workers, 2 keywords, 5 time units with an interval of 3 and a retry of 2, 2 disturbances: a keyword falls due twice, and both candidates can be lost to the other worker |
| `KeywordClaim_live` | `ClaimReturns` | 2 candidates per claim, which two claims may list in opposite orders after a run-now: each keeps the row it lost locked and waits for the other; 2 disturbances |
| `KeywordTurns_due` | `DueIsRun`: a due keyword is collected some day | 3 keywords of 3 priorities, of which one worker serves two; an interval of 8 and a retry delay of 6 ticks, any number of blocked runs, 2 disturbances, and no end of time: the highest falls due for ever |
| `ManualRun_gap` | `NoGapLeft`, `EarlyStopIsComplete`, `RetryIsFullScan`, `RetryBudget`, `ScanIsUnbroken`, `EveryArticleCollected`, with a worker and the script on one keyword | 5 articles (one on an excluded host), pages of 3, 2 pages, at most one new article between two fetches, 2 faults at any call of a run that raises, 1 start of the script, free to fail or be interrupted anywhere, and a midnight: a run can break, be repaired and be followed by an early stop while a scan is under way |
| `DiscoveryRun_restart` | `RunEnds`, `KeywordComesBack` with an unsorted feed that grows while it is read and up to two faults: a detected block, a failing store, log write or `KeywordRepo` call (those of the except clause too) or the death of the process | 3 articles, pages of 1, 2 workers that take the keyword in turns or, when the retry delay is over before the except clause is, at the same time; a midnight within or between runs |
| `UrlInsert_pages` | `NewRowsAreCounted`, `FirstDiscoveryWins`, `PageIsStored`, `StoreSpec`, `CallReturns` | 3 articles, one in two spellings that differ in scheme, host case, default port, slash, fragment, tracking parameter and order; one address that cannot be parsed; pages that overlap in different orders; 3 calls, 1 fault, 1 edit |
| `SearchPages_listing` | `CursorFollowsPages`, `ReadToTheEnd`, `NoLinkComesBack`, `BlockIsTold` | 7 sources, 2 keywords, 9 listings (one with a page of repeats in the middle), pages of 2, 3 pages, 2 faults |
| `GoogleSession_modes` | `RegionIsTheKeywords`, `PagesInOrder`, `HangLosesOneUrl`, `CooldownRespected`, `OneModePerRun`, `SearchComesBack` | 3 keywords with different regions, feeds of 3 links, a cooldown of 2 ticks, 3 faults |
| `ChromeProfile_lifecycle` | `LiveBrowserIsLocked`, `NoSelfLockout`, `ClosedBrowserIsGone`, `KillSparesOthers` | 2 adapters in one ALL-mode worker, a second worker with the same WORKER_ID, the script; 3 process numbers per container, given again once they are reaped, and 2 faults |

Runs that end in a violation, each a disagreement between code and
documentation (`findings` quotes both):

* `DiscoveryRun_killed`: a SIGTERM inside a run leaves `retry_pending` clear, so
  the next run may stop early above the hole.
* `DiscoveryRun_shared`: the early stop looks at the rows of all keywords; two
  keywords that share articles hide each other's older ones for ever.
* `SearchPages_box`: a RETURN of a Tinhte search that times out after the browser
  has run the search leaves the box hidden and `_search_performed` clear, so the next
  keyword is reported as a changed site or a block (`BoxErrorMeansBlock`).

Every property of a passing run has a mutant in `PROJECT.json`: a plausible slip
in one definition under which TLC finds that property violated.

Some properties hold on conditions the reader should know. They are named
operators and hypotheses of the theorems of section 4; `MCManualRun` and
`MCChromeProfile` assert those they need of their instance, so that run and theorem
speak of the same case.

* `CalmFeeds` (`NoGapLeft`, `EarlyStopIsComplete`, `ScanIsUnbroken`): a sorted feed
  within the page limit that moves by at most `MaxDrift` articles, less than a page,
  between two fetches; no article on two keywords' feeds; and, by `Varied`, on any
  page at least one article that has not moved down from the page before and whose
  host is not excluded. Without the last part the early stop is wrong (section 5).
* `HandlerWorks`: no SIGTERM or death inside a run, and the calls of the except
  clause up to `set_retry_pending(True)` succeed; its failure is swallowed
  (`dispatcher.py:300`).
* `RescheduleIsHeard` (`RetryIsFullScan`): no answer of `reschedule` is lost, and the
  flag is written. The property itself excepts the window between the two calls
  (`dispatcher.py:268`, `:299`), in which the flag is clear.
* `ErrorRowIsWritten` (`RetryBudget`): the retries are counted by their error rows.
  The property allows one retry a day more than the budget of the code: the row of a
  run that midnight has caught is dated the day before and counts for nothing.
* `Prompt` (`RetryBudget`, `NoGapLeft`, `EarlyStopIsComplete`, `BrokenRunIsFlagged`): a
  run is past its except clause when the retry it was granted begins. The clause is
  two statements and a sleep of at most minutes, the delay half an hour; nothing
  enforces it.
* `ReadsAll`: scripts keep the source's page limit. A script with a given keyword
  may overlap the runs of the schedule; those end before their lease.
* `AtMostOneHolder` and `FreshRetryFlag` are stated for runs that end before their
  lease and without run-now on a held keyword (`Calm`); the lease is a day, and
  nothing in the code renews or enforces it (`dispatcher.py:13`).
* `PathsApart` (`KillSparesOthers`): no profile directory of a container has the path
  of another one inside its own.
* `LoadAssumption` (`DueIsRun`): a worker gets round all keywords of its filter
  within the retry delay. It is enough rather than needed, and an installation with
  many slow keywords is outside it. With a retry delay of one tick TLC finds the
  lowest priority starved: the higher ones are due again before it has its turn.
* `InUse` (`LiveBrowserIsLocked`, `ClosedBrowserIsGone`): a browser that an adapter
  with a `browser_pid` has built, until it is dead or was sent SIGKILL. The code frees
  the lock without waiting for the kill (`_process_kill.py:88-92`,
  `_chrome_behavior.py:88-89`), and under the browser of a failed build it neither
  keeps the lock nor kills (`_chrome_behavior.py:69-72`): a second browser in the same
  profile is among the reachable states.
* `CutShort` (`ReadToTheEnd`): the listing goes on behind a page that the source takes
  for its end: one with fewer than `PageSize` articles for those that count them, one
  without any, or one of repeats for DuckDuckGo. At the end of a listing nothing is
  excused.

### Fairness

* `KeywordClaim_live`: a worker keeps calling (WF on `Select`, `Finish`), the
  server breaks every cycle of waits (WF on `DeadlockVictim`) and queues lock
  requests, so a statement granted its row again and again is executed (SF on
  `ClaimStep`).
* `DiscoveryRun`: a worker makes its next call (WF on `Step`), time passes (WF
  on `FallDue`), and some idle worker takes a due keyword (SF on `Claim`), which
  `DueIsRun` of KeywordTurns shows under its load assumption. Nothing is assumed of faults, of new
  articles or of midnights. `ManualRun` assumes the same of its workers, and WF
  on `ScriptStep`: a script that runs makes its next call. Starts of the script
  are finitely many (`MaxManual`), so they do not keep a keyword for ever.
* `KeywordTurns`: WF on the clock and on each worker's loop; a run and a sleep are
  bounded (`RunBound`, `IdleBound`) by the guard of `Tick`.
* `UrlInsert`: WF on each call's steps and on the deadlock victim.
* `GoogleSession`: WF on the steps of a run, on taking the next keyword and on
  the clock.

## 4. Proofs

TLAPS checks the theorems below for every value of the constants that satisfies the
module's assumption: any number of workers, keywords, adapters and faults, feeds and
pages of any length. Each invariant and action property of a passing run has its
theorem, some under the conditions of section 3, and so have the two refinements. The argument is the same everywhere: an
inductive invariant that is stronger than the property, checked with TLC on the
run's instance first, then proved with one lemma per part or per action.

**KeywordClaimProofs.** `TypeCorrect`, `LeaseInvariant`, `Exclusion`
(`AtMostOneHolder`), `FreshFlag`, and `ClaimImplementsLease` (`Spec => LeaseSpec`,
without any assumption on the length of runs). `AtMostOneHolder` is not inductive: it
says nothing of a claim that has read a row another worker is about to take.
`LeaseInv` adds five parts. `Clocks`: a claim is younger than `TxnBound` and its
UPDATE no older than its SELECT. `ClaimedIsDue`: from the UPDATE to the commit the row
stays enabled and due, because its lock is held. `HeldIsLeased`: the row of a held
keyword carries the holder's unexpired lease. `OneHolder`. `SnapshotHolds`: a row on a
candidate list is either as the snapshot saw it, or was taken since and its new time
lies beyond the end of this transaction; this is where `TimingAssumption` is used (20
lock waits of 50 s are less than the retry delay of 1800 s, and a claim twice over is
less than an interval). A second claim can then only match a row nobody holds. For
the refinement a commit is a `Grant` or `GrantLost`, and every other step maps to one
action of the lease or to a stutter (`LeaseStep`).

**DiscoveryRunProofs.** `FeedsHaveNoGap` (`NoGapLeft`) and `EarlyStopsAreComplete`
under `Prompt`, `CalmFeeds` and `HandlerWorks`; `RetryScansInFull` under
`RescheduleIsHeard`, for a retry delay of any length; `RetriesAreBounded` under
`Prompt` and `ErrorRowIsWritten`; `BrokenRunsAreFlagged` under `Prompt` and
`HandlerWorks` (the violation run shows that this is needed); `RunTypes`. The
invariant `RunInv` speaks of places in `Supply`, the order of publication, where a
growing feed does not move anything: `FeedIsSupply` (a feed is the reversed beginning
of its supply), `GapsAtRest` (a keyword at rest with the flag clear is `Whole`: no
article is missing below a stored one) and `GapsInRuns` (a run that has read down to
place r has closed every gap above r, and a run that is no retry has only gaps it
opened itself). A full scan closes old gaps from the top; an early stop is right
because the article that made it stop is stored, is not a new arrival (`MaxDrift`,
`Varied`), and so nothing is missing below it. `RetryBudget` needs `BudgetKept` (a
granted retry has left its error row or its run still owes it) and `OneOvernight`
(midnight catches at most one run of a keyword before its reschedule).
`RetryScansInFull` does without one run per keyword: `OneFresh` says that a keyword
has at most one run whose reschedule is still to come, which is all its flag needs.

**ManualRunProofs.** The same properties of workers and scripts together
(`FeedsHaveNoGapBeside`, `EarlyStopsAreCompleteBeside`, `RetryScansInFullBeside`,
`RetriesAreBoundedBeside`, `ManualTypesHold`), `ScriptClaimsAlone` and
`ScansAreUnbroken`. `ManualInv` is `RunInv` with what a scan has found: between two
pages everything below a found article and above the next page is found
(`Scanning`), after the last page everything below it (`Keeping`), and a script that
claimed its keyword has found what the keyword's gaps miss before it clears the flag.
The gap theorems also ask for `ReadsAll`, `ScriptClaimsAlone` for `Prompt`.

**UrlInsertProofs.** `InsertTypes`, `EveryNewRowIsCounted`, `RowsAreKept`
(`FirstDiscoveryWins`), `CommittedPageIsStored` and `InsertImplementsStore`
(`Spec => StoreSpec`). The invariant: an uncommitted row is under the lock of its key, so a lock that is free
guards a committed row or none (`KeyLocks`), and every URL of a batch is in the table,
inserted by the call itself, or ahead of it (`Batches`). The commit is then exactly
the abstract step: what the call reports lies between the rows it created and the
URLs that were missing when it looked.

**UrlNormalizerProofs.** `NeverSplit`: spellings of one article share a hash unless
its path has `;...` or a query has a `utm_` name outside the code's five.
`NeverMerged`: two `Plain` addresses without such a name that share a hash are one
article. Two more theorems say where code and design document part, for every
address: `UnlistedUtmSplits` (`?utm_id=7` gives an article a second hash, though
design.md:246 wants `utm_*` removed) and `BlankValuesMerge` (`/view?17` and
`/view?18` are two articles with one hash, since `parse_qsl` drops arguments without a
value). sha256 is taken to be collision-free, by letting the normalised address
stand for its hash. Both rest on one fact about lists: two queries are
rearrangements of each other exactly when their tallies agree (`RearrangedTally`,
`TallyRearranged`). The condition on `;...` cannot be dropped either: "/a;b/" and
"/a;b" have two hashes.

**SearchPagesProofs.** `CursorsFollowPages`, `RunsReadToTheEnd` (`ReadToTheEnd`),
`LinksComeOnce` (`NoLinkComesBack`), `BlocksAreTold` and `PagesTypes`. `PagesInv`: the cursor of every source is the `Mark` of the pages returned
(`Position`), Tinhte's browser shows the results of this keyword from RETURN on
(`Shown`), a block has ended the run (`Told`), DuckDuckGo's memory is what this run
returned (`Apart`), and an undisturbed run has returned what is wanted of the links up
to its mark (`Progress`). `PageReads` is the core: a page that holds what is wanted of
the next `PageSize` links carries `Progress` on, and may be the last only if it cuts
the run short or nothing beyond it is wanted. Every adapter then owes that one fact
(`CountedProgress`, `BoardProgress`, `BaomoiProgress`, `DuckProgress`,
`TinhteProgress`). It uses that redirects lead to no more links than a page keeps
(`ResolvedFew`) and that as many pages as Tinhte has buttons hold the listing
(`PagesHoldAll`).

**GoogleSessionProofs.** `RegionIsKept`, `PagesAreInOrder`, `HangCostsOneUrl`,
`CooldownIsRespected`, `RunKeepsItsMode`, `SessionTypes`. `SessionInv`: outside "idle"
the adapter has the region of its keyword and of no other; the cursor counts the
calls; the time since the last block and the rest of the cooldown make up a whole
cooldown; and every link of a feed is ahead, resolved or met by a fault, where a hang
is counted before the link it costs is known.

**ChromeProfileProofs.** `ProfileInUseIsLocked` (`LiveBrowserIsLocked`),
`NoAdapterLocksItselfOut`, `NoBrowserSurvivesClose`, `ProfileTypes`, and
`KillHitsOwnProfile` (`KillSparesOthers`) under `PathsApart`. `ProfileInv`: an adapter
holds the flock of its own directory from `Acquire` to `Release` and no other
(`HoldsLock`, `NoStrayLock`), one adapter of a process acts at a time (`Sequential`),
and a browser in use has the number its adapter remembers until it was sent SIGKILL
(`Tracked`), although numbers are used again.

What an attempted proof changed: `ReadToTheEnd` was false for DuckDuckGo where a page
repeats what the run has returned (TLC found the listing at once when it was given
one), which is now part of `CutShort`; and the step of the early stop could not be
proved before `CalmFeeds` had `Varied`. Both are differences of the code, listed in
section 5.

Only model-checked: `EveryArticleCollected`, `RunEnds`, `KeywordComesBack`,
`ClaimReturns`, `DueIsRun`, `CallReturns` and `SearchComesBack`, which are liveness
properties (their fairness needs ENABLED, which TLAPS does not handle), and the three
runs that end in a violation.

## 5. Known differences that no run shows

* `schema.sql:34` calls the column UTC; the dispatcher writes KST (`Skew`).
* The counts of `dispatcher.py:237` count a URL that another worker stored in
  between as inserted, and an excluded one as skipped. A page of excluded and known
  URLs only, or of excluded ones alone, is thus reported as (0, n)
  (`crawl_url_repo.py:101-103`), which `dispatcher.py:238` takes for a page of
  duplicates: the run stops although older articles below have never been seen.
* `LIKE '%403%'` counts other errors whose text has 403 (`ErrorRow`).
* A retry whose delay is over before its except clause is may be claimed ahead of
  `set_retry_pending(True)`, and so without its full scan (`dispatcher.py:268`, `:299`);
  when that write fails, its failure is swallowed (`dispatcher.py:300`) and the next
  run may stop early above the hole.
* `dispatcher.py:267`: a run caught by midnight is granted its retry by the counts of
  the new day and leaves its error row in the old one: one retry more than five.
* One address `urlparse` refuses makes its whole page fail, at every retry again
  (`crawl_url_repo.py:86`).
* An unknown `source_type` in ALL mode ends the process after the claim.
* A driver whose set-up fails late leaves a Chrome in an unlocked profile; the
  quit of undetected_chromedriver signals a number without checking it; Tinhte's
  plain selenium driver has no `browser_pid` to kill and is kept after a hang.
* A Google browser that does not start in the middle of a feed loses what was
  resolved.
* `run_discovery.py --max-pages` below the source's own limit clears
  `retry_pending` over a hole it did not read. The script ignores
  `source_options` and neither counts nor reschedules a failure.
* `normalize` keeps "/a;b/" and drops the ";b" of "/a;b"; values that are not
  UTF-8 become one replacement character; ":80" and ":443" go whatever the scheme.
* DuckDuckGo's adapter ends a run at a page that holds only links it has returned
  before, also when the server has more (`CutShort`). Repeats within one page reach
  the dispatcher.
* Daum may store one article by two addresses; a silent empty page is taken for
  the end of the results by the sources outside `Telling`; baidu cannot tell
  (`baidu_news.py:165-177`).
* The retry of a blocked Google search is answered by rss while the cooldown lasts
  and clears `retry_pending`; design.md:331 describes this.

## 6. Not modelled

* `_chrome_detect.py` looks up an executable and starts Xvfb once; `_client.py`
  builds an HTTP client; `db.py` opens a tunnel and an engine. None keeps state
  between calls that a property could be about; that each may fail is a fault of
  the calls that use it.
* `config.py` and `logging_setup.py` are constants (they appear as CONSTANTS) and
  wording.
* `healthcheck.py`, `verify_schema.py`, `check_chrome_isolation.py` and the
  deployment files are one-shot checks and container start; a restart by docker
  is `Death` and `Exit`.
* Of the entry point only its signals, of the health check only the reaping, of
  the factory only the page limit: the rest chooses constants.
* `url_normalizer.py:48-140`, the id hash of Solr, has no caller in discovery.

## 7. Plan

1. done: claim, turns, run, store, adapters, Google session, Chrome lifecycle.
2. done: the script beside the worker, the normaliser and its proofs.
3. done: the invariants and action properties of every passing run and the two
   refinements proved (section 4).
4. next: a theorem that composes `InsertImplementsStore` with the `Store` step of
   DiscoveryRun; the safety part of `SearchComesBack` (a block is followed by a
   search no later than the cooldown) as a bound that can be proved.
