------------------------- MODULE DiscoveryRunProofs -------------------------
(***************************************************************************)
(* Theorems about DiscoveryRun for any number of workers and keywords, any *)
(* feeds, page sizes, limits and numbers of faults.                        *)
(***************************************************************************)
EXTENDS DiscoveryRun, FiniteSetTheorems, TLAPS

-----------------------------------------------------------------------------
(* The inductive invariants *)

\* The page number of a run that pages, and that of its next page.
Cursor ==
  \A w \in Worker :
    /\ pc[w] \in {"discover", "store"} => pageNo[w] >= 1
    /\ pc[w] = "store" /\ more[w] => pageNo[w] < MaxPages

Types == TypeOK /\ Cursor

\* A run whose reschedule is still to come.
Fresh(w) == kw[w] # None /\ pc[w] \notin {"flag", "errlog"}

\* A keyword has one such run at a time, and is put off by its interval meanwhile:
\* who falls due early is past its reschedule.
OneFresh ==
  \A w \in Worker : Fresh(w) =>
    /\ sched[kw[w]] = "interval"
    /\ \A v \in Worker : Fresh(v) /\ kw[v] = kw[w] => v = w

\* When runs end before their retry delay does, a keyword has one run at a time;
\* it is not due meanwhile, and put off by the retry delay only once the run is past
\* its reschedule.
OneRun ==
  \A w \in Worker : kw[w] # None =>
    /\ \A v \in Worker : kw[v] = kw[w] => v = w
    /\ sched[kw[w]] # "due"
    /\ pc[w] \notin {"flag", "errlog"} => sched[kw[w]] = "interval"

\* The flag is up once Flag is past.
FlagUp == \A w \in Worker : pc[w] = "errlog" => pending[kw[w]]

\* A scheduled retry has its flag, or its run is about to set it.
RetryFlagged ==
  \A k \in Keyword : sched[k] = "retry" =>
    pending[k] \/ \E w \in Holders(k) : pc[w] = "flag"

\* The error rows that every retry granted for e has left today: of r, the rows
\* of one keyword, and of k's rows.
Paid(r, e) ==
  IF e = "http403" THEN r[<<"http403", TRUE>>]
  ELSE r[<<"bot", TRUE>>] + r[<<"bot", FALSE>>]

Credit(k, e) == Paid(rows[k], e)

\* A run begun today that was granted its retry and has yet to write its row.
Owing(w, k, e) ==
  kw[w] = k /\ ~late[w] /\ pc[w] \in {"flag", "errlog"} /\ err[w] = e

\* The retries granted today to runs that began today, and those granted to runs
\* that began before midnight.
Today(k, e) == retries[k][<<e, FALSE>>]
Overnight(k) == retries[k][<<"http403", TRUE>>] + retries[k][<<"bot", TRUE>>]

BudgetKept ==
  /\ \A k \in Keyword, e \in Throttled :
       /\ Today(k, e) <= MaxRetries
       /\ \/ Today(k, e) <= Credit(k, e)
          \/ /\ Today(k, e) <= Credit(k, e) + 1
             /\ \E w \in Worker : Owing(w, k, e)
  /\ \A w \in Worker :
       pc[w] = "reschedule" => CountToday(kw[w], err[w]) < MaxRetries

\* Midnight catches at most one run of a keyword before its reschedule.
OneOvernight ==
  \A k \in Keyword :
    /\ Overnight(k) <= 1
    /\ Overnight(k) = 1 => \A w \in Worker : kw[w] = k /\ Fresh(w) => ~late[w]

\* Only a run can have begun before midnight.
LateRuns == \A w \in Worker : late[w] => kw[w] # None

\* A sorted feed lists what has been published, the last first, and only what
\* has been published is stored.
FeedIsSupply ==
  \A k \in Keyword :
    /\ Len(feed[k]) <= Len(Supply[k])
    /\ \A i \in 1..Len(feed[k]) : feed[k][i] = Supply[k][Len(feed[k]) + 1 - i]
    /\ \A m \in 1..Len(Supply[k]) :
         Supply[k][m] \in stored => m <= Len(feed[k])

\* Article j of k's supply is missing although the later article m is stored.
Gap(k, j, m) ==
  /\ j \in 1..Len(Supply[k]) /\ m \in 1..Len(Supply[k])
  /\ j < m
  /\ Supply[k][m] \in stored
  /\ Supply[k][j] \notin stored \cup Excluded

Whole(k) == \A j, m \in 1..Len(Supply[k]) : ~Gap(k, j, m)

\* A run that has read its feed down to article r + 1 has closed every gap above
\* r; one that is no retry opened those that are left itself.
ReadDownTo(k, r, full) ==
  \A j, m \in 1..Len(Supply[k]) :
    Gap(k, j, m) => j <= r /\ (full \/ r < m)

\* The articles on the page that ends T articles above the feed's first one.
Window(T) == {m \in 1..T : T < m + PageSize}

\* How many articles the feed had, at w's last fetch, from w's page down.
Depth(w) == Len(feed[kw[w]]) - drift[w] - (pageNo[w] - 1) * PageSize

Reading(w) == pc[w] = "discover" =>
  \/ pageNo[w] = 1 /\ (isRetry[w] \/ Whole(kw[w]))
  \/ /\ pageNo[w] > 1
     /\ drift[w] <= MaxDrift
     /\ Depth(w) > 0
     /\ ReadDownTo(kw[w], Depth(w), isRetry[w])

Storing(w) == pc[w] = "store" =>
  /\ drift[w] <= MaxDrift
  /\ Depth(w) >= 0
  /\ page[w] = {Supply[kw[w]][m] : m \in Window(Depth(w))}
  /\ known[w] \subseteq stored
  /\ more[w] <=> Depth(w) > PageSize
  /\ \E r \in (Depth(w) - MaxDrift)..Depth(w) :
       ReadDownTo(kw[w], r, isRetry[w])

Done(w) == pc[w] \in {"clear", "log"} => Whole(kw[w])

GapsInRuns == \A w \in Worker : Reading(w) /\ Storing(w) /\ Done(w)

GapsAtRest ==
  \A k \in Keyword : ~pending[k] /\ Holders(k) = {} => Whole(k)

RunInv ==
  /\ Types /\ OneRun /\ FlagUp
  /\ FeedIsSupply /\ GapsInRuns /\ GapsAtRest

-----------------------------------------------------------------------------
(* What a failure may leave *)

\* A call of the try block raises; its commit may have gone through unheard.
Breaks(w) ==
  /\ pc[w] \in {"discover", "store", "clear", "log"}
  /\ \E e \in ErrorKind : Raise(w, e)
  /\ \E p \in {"count", "flag"} : pc' = [pc EXCEPT ![w] = p]
  /\ \/ UNCHANGED <<stored, pending>>
     \/ pc[w] = "store" /\ StorePage(w) /\ UNCHANGED pending
     \/ pc[w] = "clear" /\ SetPending(w, FALSE) /\ UNCHANGED stored
  /\ UNCHANGED <<kw, sched, rows, retries>>

\* The run ends at one of the sites where it may.
EndsEarly(w) ==
  /\ Leave(w)
  /\ pc[w] # "idle"
  /\ \/ pc[w] = "count" /\ "count" \in FaultSites /\ UNCHANGED <<sched, rows, retries>>
     \/ /\ pc[w] = "reschedule" /\ "reschedule" \in FaultSites
        /\ UNCHANGED <<sched, retries>> \/ PutOff(w)
        /\ UNCHANGED rows
     \/ /\ pc[w] = "errlog" /\ "errlog" \in FaultSites
        /\ UNCHANGED rows \/ AddErrorRow(w)
        /\ UNCHANGED <<sched, retries>>
     \/ "death" \in FaultSites /\ UNCHANGED <<sched, rows, retries>>
  /\ UNCHANGED <<stored, pending>>

\* A failure is an exception that reaches the except clause, a flag that is not
\* set, or the end of the run.
LEMMA FailureCases ==
  ASSUME NEW w \in Worker, Failure(w)
  PROVE  /\ UNCHANGED <<feed, days>>
         /\ Breaks(w) \/ (FlagFails(w) /\ "flag" \in FaultSites) \/ EndsEarly(w)
<1>1. ASSUME NEW e \in ErrorKind, Raise(w, e)
      PROVE  /\ UNCHANGED <<feed, days, kw>>
             /\ \E p \in {"count", "flag"} : pc' = [pc EXCEPT ![w] = p]
  BY <1>1 DEF Raise
<1>2. CASE \E e \in ErrorKind : DiscoverFails(w, e)
  BY <1>1, <1>2 DEF DiscoverFails, Breaks, db
<1>3. CASE \E site \in {"store", "clear", "log"} : CallFails(w, site)
  <2>1. "other" \in ErrorKind
    BY DEF ErrorKind
  <2>2. pc[w] \in {"store", "clear", "log"} /\ Raise(w, "other")
    BY <1>3 DEF CallFails
  <2>3. QED BY <1>1, <1>3, <2>1, <2>2 DEF CallFails, Breaks
<1>4. CASE \E site \in {"count", "reschedule"} : HandlerDies(w, site)
  BY <1>4 DEF HandlerDies, Fault, EndsEarly
<1>5. CASE FlagFails(w)
  BY <1>5 DEF FlagFails, Fault, run
<1>6. CASE ErrLogFails(w)
  BY <1>6 DEF ErrLogFails, Fault, EndsEarly
<1>7. CASE Death(w)
  BY <1>7 DEF Death, Fault, EndsEarly, db
<1>8. QED BY <1>2, <1>3, <1>4, <1>5, <1>6, <1>7 DEF Failure

-----------------------------------------------------------------------------
(* Types *)

\* What a fetch returns has the types of page and more.
LEMMA PageType ==
  ASSUME RunAssumption, NEW f \in Seq(Url), NEW n \in Nat, n >= 1
  PROVE  Urls(Page(f, n)) \subseteq Url
<1> DEFINE a == (n - 1) * PageSize + 1
           b == Least(n * PageSize, Len(f))
<1>1. a \in Nat /\ a >= 1 /\ b \in Int /\ b <= Len(f)
  BY DEF RunAssumption, Least
<1>2. Page(f, n) = SubSeq(f, a, b)
  BY DEF Page
<1> HIDE DEF a, b
<1>3. SubSeq(f, a, b) \in Seq(Url)
  BY <1>1
<1>4. ASSUME NEW s \in Seq(Url), NEW i \in DOMAIN s PROVE s[i] \in Url
  OBVIOUS
<1>5. QED BY <1>2, <1>3, <1>4 DEF Urls

\* A keyword that is put off keeps its types.
LEMMA PutOffType ==
  ASSUME TypeOK, NEW w \in Worker, pc[w] = "reschedule", PutOff(w)
  PROVE  /\ sched' \in [Keyword -> {"due", "interval", "retry"}]
         /\ retries' \in [Keyword -> [Grant -> Nat]]
<1>1. kw[w] \in Keyword /\ err[w] \in Throttled /\ late[w] \in BOOLEAN
  BY DEF TypeOK
<1>2. PICK k \in Keyword, g \in Grant : k = kw[w] /\ g = <<err[w], late[w]>>
  BY <1>1 DEF Grant
<1>3. retries' = [retries EXCEPT ![k][g] = @ + 1]
  BY <1>2 DEF PutOff
<1>4. retries' \in [Keyword -> [Grant -> Nat]]
  BY <1>3 DEF TypeOK
<1>5. QED BY <1>2, <1>4 DEF PutOff, TypeOK

\* So does an error row.
LEMMA ErrorRowType ==
  ASSUME TypeOK, NEW w \in Worker, pc[w] = "errlog", AddErrorRow(w)
  PROVE  rows' \in [Keyword -> [ErrorRow -> Nat]]
<1>1. kw[w] \in Keyword /\ err[w] \in ErrorKind
  BY DEF TypeOK
<1>2. PICK b \in BOOLEAN :
        rows' = IF late[w] THEN rows
                ELSE [rows EXCEPT ![kw[w]][<<err[w], b>>] = @ + 1]
  BY DEF AddErrorRow
<1>3. <<err[w], b>> \in ErrorRow
  BY <1>1 DEF ErrorRow
<1>4. QED BY <1>1, <1>2, <1>3 DEF TypeOK

\* Every step keeps the types.
LEMMA TypeStep == RunAssumption /\ Types /\ [Next]_vars => Types'
<1> SUFFICES ASSUME RunAssumption, TypeOK, Cursor, [Next]_vars
             PROVE  TypeOK' /\ Cursor'
  BY DEF Types
<1> USE DEF RunAssumption, db, run, bound
<1>1. ASSUME NEW w \in Worker, NEW k \in Keyword, Claim(w, k)
      PROVE  TypeOK' /\ Cursor'
  BY <1>1 DEF Claim, Goto, TypeOK, Cursor
<1>2. ASSUME NEW w \in Worker, Discover(w) PROVE TypeOK' /\ Cursor'
  <2> DEFINE p == Urls(Page(feed[kw[w]], pageNo[w]))
             m == HasMore(feed[kw[w]], pageNo[w], MaxPages)
  <2>1. pc[w] = "discover" /\ kw[w] \in Keyword /\ pageNo[w] \in Nat /\ pageNo[w] >= 1
    BY <1>2 DEF Discover, Goto, TypeOK, Cursor
  <2>2. p \subseteq Url
    BY <2>1, PageType DEF TypeOK
  <2>3. m \in BOOLEAN /\ (m => pageNo[w] < MaxPages)
    BY DEF HasMore
  <2>4. /\ pc' = [pc EXCEPT ![w] = "store"]
        /\ page' = [page EXCEPT ![w] = p]
        /\ more' = [more EXCEPT ![w] = m]
        /\ known' = [known EXCEPT ![w] = p \cap stored]
        /\ drift' = [drift EXCEPT ![w] = 0]
        /\ UNCHANGED <<feed, db, kw, isRetry, pageNo, err, late, bound>>
    BY <1>2 DEF Discover, Goto
  <2> HIDE DEF p, m
  <2>5. TypeOK'
    BY <2>1, <2>2, <2>3, <2>4 DEF TypeOK
  <2>6. Cursor'
    BY <2>1, <2>3, <2>4 DEF TypeOK, Cursor
  <2>7. QED BY <2>5, <2>6
<1>3. ASSUME NEW w \in Worker, Store(w) PROVE TypeOK' /\ Cursor'
  BY <1>3 DEF Store, StorePage, Goto, TypeOK, Cursor
<1>4. ASSUME NEW w \in Worker, Clear(w) PROVE TypeOK' /\ Cursor'
  BY <1>4 DEF Clear, SetPending, Goto, TypeOK, Cursor
<1>5. ASSUME NEW w \in Worker, Log(w) PROVE TypeOK' /\ Cursor'
  BY <1>5 DEF Log, Leave, TypeOK, Cursor
<1>6. ASSUME NEW w \in Worker, Count(w) PROVE TypeOK' /\ Cursor'
  <2>1. PICK p \in {"reschedule", "flag"} : pc' = [pc EXCEPT ![w] = p]
    BY <1>6 DEF Count, Goto
  <2>2. pc[w] = "count" /\ UNCHANGED <<feed, db, run, bound>>
    BY <1>6 DEF Count, Goto
  <2>3. err[w] \in Throttled /\ err[w] \in ErrorKind
    BY <2>2 DEF TypeOK, ErrorKind, Throttled
  <2>4. TypeOK'
    BY <2>1, <2>2, <2>3 DEF TypeOK
  <2>5. QED BY <2>1, <2>2, <2>4 DEF TypeOK, Cursor
<1>7. ASSUME NEW w \in Worker, Reschedule(w) PROVE TypeOK' /\ Cursor'
  <2>1. /\ pc[w] = "reschedule" /\ kw[w] \in Keyword
        /\ err[w] \in Throttled /\ err[w] \in ErrorKind
    BY <1>7 DEF Reschedule, Goto, TypeOK, ErrorKind, Throttled
  <2>2. /\ sched' \in [Keyword -> {"due", "interval", "retry"}]
        /\ retries' \in [Keyword -> [Grant -> Nat]]
    BY <1>7, <2>1, PutOffType DEF Reschedule
  <2>3. TypeOK'
    BY <1>7, <2>1, <2>2 DEF Reschedule, Goto, TypeOK
  <2>4. QED BY <1>7, <2>3 DEF Reschedule, Goto, TypeOK, Cursor
<1>8. ASSUME NEW w \in Worker, Flag(w) PROVE TypeOK' /\ Cursor'
  BY <1>8 DEF Flag, SetPending, Goto, TypeOK, Cursor
<1>9. ASSUME NEW w \in Worker, ErrLog(w) PROVE TypeOK' /\ Cursor'
  <2>1. rows' \in [Keyword -> [ErrorRow -> Nat]]
    BY <1>9, ErrorRowType DEF ErrLog
  <2>2. Leave(w) /\ UNCHANGED <<feed, stored, sched, pending, retries, bound>>
    BY <1>9 DEF ErrLog
  <2>3. TypeOK'
    BY <2>1, <2>2 DEF Leave, TypeOK
  <2>4. QED BY <2>2, <2>3 DEF Leave, TypeOK, Cursor
<1>10. ASSUME NEW w \in Worker, Failure(w) PROVE TypeOK' /\ Cursor'
  <2>1. faults' \in 0..MaxFaults
    <3>1. \E site : Fault(site)
      BY <1>10 DEF Failure, DiscoverFails, CallFails, HandlerDies, FlagFails,
         ErrLogFails, Death
    <3>2. faults \in 0..MaxFaults /\ MaxFaults \in Nat
      BY DEF TypeOK
    <3>3. QED BY <3>1, <3>2 DEF Fault
  <2>2. UNCHANGED <<feed, days>>
    BY <1>10, FailureCases
  <2>3. CASE EndsEarly(w)
    <3>1. /\ sched' \in [Keyword -> {"due", "interval", "retry"}]
          /\ retries' \in [Keyword -> [Grant -> Nat]]
      <4>1. CASE UNCHANGED <<sched, retries>>
        BY <4>1 DEF TypeOK
      <4>2. CASE pc[w] = "reschedule" /\ PutOff(w)
        BY <4>2, PutOffType
      <4>3. QED BY <2>3, <4>1, <4>2 DEF EndsEarly
    <3>2. rows' \in [Keyword -> [ErrorRow -> Nat]]
      <4>1. CASE UNCHANGED rows
        BY <4>1 DEF TypeOK
      <4>2. CASE pc[w] = "errlog" /\ AddErrorRow(w)
        BY <4>2, ErrorRowType
      <4>3. QED BY <2>3, <4>1, <4>2 DEF EndsEarly
    <3>3. Leave(w) /\ UNCHANGED <<stored, pending>>
      BY <2>3 DEF EndsEarly
    <3>4. QED BY <2>1, <2>2, <3>1, <3>2, <3>3 DEF Leave, TypeOK, Cursor
  <2>4. CASE Breaks(w)
    <3>1. PICK e \in ErrorKind : Raise(w, e)
      BY <2>4 DEF Breaks
    <3>2. PICK p \in {"count", "flag"} :
            pc' = [pc EXCEPT ![w] = p] /\ (p = "count" => e \in Throttled)
      BY <3>1 DEF Raise
    <3>3. /\ stored' \subseteq Url /\ pending' \in [Keyword -> BOOLEAN]
          /\ UNCHANGED <<sched, rows, retries>>
      BY <2>4 DEF Breaks, StorePage, SetPending, TypeOK
    <3>4. pc[w] # "idle"
      BY <2>4 DEF Breaks
    <3>5. TypeOK'
      BY <2>1, <2>2, <3>1, <3>2, <3>3, <3>4 DEF Raise, TypeOK
    <3>6. QED BY <3>1, <3>2, <3>4, <3>5 DEF Raise, TypeOK, Cursor
  <2>5. CASE FlagFails(w)
    <3>1. pending' \in [Keyword -> BOOLEAN]
      BY <2>5 DEF FlagFails, SetPending, TypeOK
    <3>2. /\ pc[w] = "flag" /\ pc' = [pc EXCEPT ![w] = "errlog"]
          /\ UNCHANGED <<stored, sched, rows, retries, run>>
      BY <2>5 DEF FlagFails, Goto
    <3>3. QED BY <2>1, <2>2, <3>1, <3>2 DEF TypeOK, Cursor
  <2>6. QED BY <1>10, <2>3, <2>4, <2>5, FailureCases
<1>11. ASSUME NEW k \in Keyword, Publish(k) PROVE TypeOK' /\ Cursor'
  <2>1. PICK f \in Insertions(k, Supply[k][Len(feed[k]) + 1]) :
          feed' = [feed EXCEPT ![k] = f]
    BY <1>11 DEF Publish
  <2>2. Supply[k][Len(feed[k]) + 1] \in Url /\ feed[k] \in Seq(Url)
    BY <1>11 DEF Publish, TypeOK
  <2>3. f \in Seq(Url)
    <3> DEFINE u == <<Supply[k][Len(feed[k]) + 1]>>
    <3>1. u \in Seq(Url)
      BY <2>2
    <3> HIDE DEF u
    <3>2. CASE f = u \o feed[k]
      BY <2>2, <3>1, <3>2
    <3>3. ASSUME NEW i \in 0..Len(feed[k]),
                 f = SubSeq(feed[k], 1, i) \o u \o SubSeq(feed[k], i + 1, Len(feed[k]))
          PROVE  f \in Seq(Url)
      <4>1. SubSeq(feed[k], 1, i) \in Seq(Url)
        BY <2>2
      <4>2. SubSeq(feed[k], i + 1, Len(feed[k])) \in Seq(Url)
        BY <2>2
      <4>3. QED BY <3>1, <3>3, <4>1, <4>2
    <3>4. QED BY <2>1, <3>2, <3>3 DEF Insertions, u
  <2>4. drift' \in [Worker -> Nat]
    BY <1>11 DEF Publish, TypeOK
  <2>5. TypeOK'
    BY <1>11, <2>1, <2>3, <2>4 DEF Publish, TypeOK
  <2>6. QED BY <1>11, <2>5 DEF Publish, TypeOK, Cursor
<1>12. CASE Midnight
  BY <1>12 DEF Midnight, TypeOK, Cursor
<1>13. ASSUME NEW k \in Keyword, FallDue(k) PROVE TypeOK' /\ Cursor'
  BY <1>13 DEF FallDue, TypeOK, Cursor
<1>14. CASE UNCHANGED vars
  BY <1>14 DEF vars, TypeOK, Cursor
<1>15. QED
  BY <1>1, <1>2, <1>3, <1>4, <1>5, <1>6, <1>7, <1>8, <1>9, <1>10, <1>11, <1>12,
     <1>13, <1>14 DEF Next, RunNext, Step

\* The types hold before the first claim.
LEMMA TypeInit == RunAssumption /\ Init => Types
  BY DEF RunAssumption, Init, Types, TypeOK, Cursor

-----------------------------------------------------------------------------
(* One run at a time, and what the except clause leaves behind *)

\* While k has a run, k is not due; so nothing but that run moves it.
LEMMA OneRunStep ==
  RunAssumption /\ Prompt /\ Types /\ OneRun /\ [Next]_vars => OneRun'
<1> SUFFICES ASSUME RunAssumption, Prompt, TypeOK, OneRun, [Next]_vars
             PROVE  OneRun'
  BY DEF Types
<1> USE DEF RunAssumption, db, run, bound
<1>1. ASSUME NEW w \in Worker, NEW k \in Keyword, Claim(w, k)
      PROVE  OneRun'
  BY <1>1 DEF Claim, Goto, TypeOK, OneRun
<1>2. ASSUME NEW w \in Worker, NEW p, UNCHANGED <<sched, kw>>,
             pc' = [pc EXCEPT ![w] = p],
             pc[w] \in {"flag", "errlog"} => p \in {"flag", "errlog"}
      PROVE  OneRun'
  BY <1>2 DEF TypeOK, OneRun
<1>3. ASSUME NEW w \in Worker, Leave(w), UNCHANGED sched PROVE OneRun'
  BY <1>3 DEF Leave, TypeOK, OneRun
<1>4. ASSUME NEW w \in Worker, pc[w] = "reschedule", PutOff(w),
             \/ pc' = [pc EXCEPT ![w] = "flag"] /\ UNCHANGED kw
             \/ Leave(w)
      PROVE  OneRun'
  <2>1. kw[w] \in Keyword /\ \A v \in Worker : v # w => kw[v] # kw[w]
    BY <1>4 DEF TypeOK, OneRun
  <2>2. \A v \in Worker : v # w => kw'[v] = kw[v] /\ pc'[v] = pc[v]
    BY <1>4 DEF Leave, TypeOK
  <2>3. /\ kw'[w] = None \/ (kw'[w] = kw[w] /\ pc'[w] = "flag")
        /\ sched'[kw[w]] = "retry"
        /\ \A k \in Keyword : k # kw[w] => sched'[k] = sched[k]
    BY <1>4, <2>1 DEF PutOff, Leave, TypeOK
  <2>4. ASSUME NEW v \in Worker, v # w, kw'[v] # None
        PROVE  /\ \A u \in Worker : kw'[u] = kw'[v] => u = v
               /\ sched'[kw'[v]] # "due"
               /\ pc'[v] \notin {"flag", "errlog"} => sched'[kw'[v]] = "interval"
    <3>1. kw[v] \in Keyword /\ kw[v] # kw[w] /\ sched'[kw[v]] = sched[kw[v]]
      BY <2>1, <2>2, <2>3, <2>4 DEF TypeOK
    <3>2. QED BY <2>2, <2>3, <2>4, <3>1 DEF OneRun
  <2>5. CASE kw'[w] # None
    <3>1. \A u \in Worker : kw'[u] = kw'[w] => u = w
      BY <2>1, <2>2, <2>3, <2>5
    <3>2. QED BY <2>3, <2>4, <2>5, <3>1 DEF OneRun
  <2>6. CASE kw'[w] = None
    BY <2>4, <2>6 DEF OneRun
  <2>7. QED BY <2>5, <2>6
<1>5. ASSUME NEW w \in Worker, Step(w) PROVE OneRun'
  <2>1. CASE Reschedule(w)
    BY <1>4, <2>1 DEF Reschedule, Goto
  <2>2. CASE Log(w) \/ ErrLog(w)
    BY <1>3, <2>2 DEF Log, ErrLog
  <2>3. CASE Discover(w) \/ Store(w) \/ Clear(w) \/ Count(w) \/ Flag(w)
    <3>1. /\ UNCHANGED <<sched, kw>>
          /\ \E p :
               /\ pc' = [pc EXCEPT ![w] = p]
               /\ pc[w] \in {"flag", "errlog"} => p \in {"flag", "errlog"}
      BY <2>3 DEF Discover, Store, Clear, Count, Flag, Goto
    <3>2. QED BY <1>2, <3>1
  <2>4. QED BY <1>5, <2>1, <2>2, <2>3 DEF Step
<1>6. ASSUME NEW w \in Worker, Failure(w) PROVE OneRun'
  <2>1. CASE Breaks(w)
    <3>1. PICK p \in {"count", "flag"} : pc' = [pc EXCEPT ![w] = p]
      BY <2>1 DEF Breaks
    <3>2. QED BY <1>2, <2>1, <3>1 DEF Breaks
  <2>2. CASE FlagFails(w)
    <3>1. UNCHANGED <<sched, kw>> /\ pc' = [pc EXCEPT ![w] = "errlog"]
      BY <2>2 DEF FlagFails, Goto
    <3>2. QED BY <1>2, <3>1
  <2>3. CASE EndsEarly(w)
    BY <1>3, <1>4, <2>3 DEF EndsEarly
  <2>4. QED BY <1>6, <2>1, <2>2, <2>3, FailureCases
<1>7. CASE Midnight \/ \E k \in Keyword : Publish(k)
  BY <1>7 DEF Midnight, Publish, TypeOK, OneRun
<1>8. ASSUME NEW k \in Keyword, FallDue(k) PROVE OneRun'
  BY <1>8 DEF FallDue, Holders, TypeOK, OneRun
<1>9. CASE UNCHANGED vars
  BY <1>9 DEF vars, TypeOK, OneRun
<1>10. QED
  BY <1>1, <1>5, <1>6, <1>7, <1>8, <1>9 DEF Next, RunNext

\* Even when the retry delay may pass within the except clause, a keyword is claimed
\* again only once its run is past its reschedule.
LEMMA OneFreshStep ==
  RunAssumption /\ Types /\ OneFresh /\ [Next]_vars => OneFresh'
<1> SUFFICES ASSUME RunAssumption, TypeOK, OneFresh, [Next]_vars
             PROVE  OneFresh'
  BY DEF Types
<1> USE DEF RunAssumption, db, run, bound
<1>1. ASSUME NEW w \in Worker, NEW k \in Keyword, Claim(w, k)
      PROVE  OneFresh'
  BY <1>1 DEF Claim, Goto, TypeOK, OneFresh, Fresh
<1>2. ASSUME NEW w \in Worker, NEW p, UNCHANGED <<sched, kw>>,
             pc' = [pc EXCEPT ![w] = p],
             pc[w] \in {"flag", "errlog"} => p \in {"flag", "errlog"}
      PROVE  OneFresh'
  BY <1>2 DEF TypeOK, OneFresh, Fresh
<1>3. ASSUME NEW w \in Worker, Leave(w), UNCHANGED sched PROVE OneFresh'
  BY <1>3 DEF Leave, TypeOK, OneFresh, Fresh
<1>4. ASSUME NEW w \in Worker, pc[w] = "reschedule", PutOff(w),
             \/ pc' = [pc EXCEPT ![w] = "flag"] /\ UNCHANGED kw
             \/ Leave(w)
      PROVE  OneFresh'
  <2>1. kw[w] \in Keyword /\ \A v \in Worker : Fresh(v) /\ v # w => kw[v] # kw[w]
    BY <1>4 DEF TypeOK, OneFresh, Fresh
  <2>2. \A v \in Worker : /\ v # w => kw'[v] = kw[v] /\ (Fresh(v)' <=> Fresh(v))
                          /\ ~Fresh(w)'
    BY <1>4 DEF Leave, TypeOK, Fresh
  <2>3. \A k \in Keyword : k # kw[w] => sched'[k] = sched[k]
    BY <1>4, <2>1 DEF PutOff, TypeOK
  <2>4. \A v \in Worker : Fresh(v) => kw[v] \in Keyword
    BY DEF Fresh, TypeOK
  <2>5. QED BY <2>1, <2>2, <2>3, <2>4 DEF OneFresh
<1>5. ASSUME NEW w \in Worker, Step(w) PROVE OneFresh'
  <2>1. CASE Reschedule(w)
    BY <1>4, <2>1 DEF Reschedule, Goto
  <2>2. CASE Log(w) \/ ErrLog(w)
    BY <1>3, <2>2 DEF Log, ErrLog
  <2>3. CASE Discover(w) \/ Store(w) \/ Clear(w) \/ Count(w) \/ Flag(w)
    <3>1. /\ UNCHANGED <<sched, kw>>
          /\ \E p :
               /\ pc' = [pc EXCEPT ![w] = p]
               /\ pc[w] \in {"flag", "errlog"} => p \in {"flag", "errlog"}
      BY <2>3 DEF Discover, Store, Clear, Count, Flag, Goto
    <3>2. QED BY <1>2, <3>1
  <2>4. QED BY <1>5, <2>1, <2>2, <2>3 DEF Step
<1>6. ASSUME NEW w \in Worker, Failure(w) PROVE OneFresh'
  <2>1. CASE Breaks(w)
    <3>1. PICK p \in {"count", "flag"} : pc' = [pc EXCEPT ![w] = p]
      BY <2>1 DEF Breaks
    <3>2. QED BY <1>2, <2>1, <3>1 DEF Breaks
  <2>2. CASE FlagFails(w)
    <3>1. UNCHANGED <<sched, kw>> /\ pc' = [pc EXCEPT ![w] = "errlog"]
      BY <2>2 DEF FlagFails, Goto
    <3>2. QED BY <1>2, <3>1
  <2>3. CASE EndsEarly(w)
    BY <1>3, <1>4, <2>3 DEF EndsEarly
  <2>4. QED BY <1>6, <2>1, <2>2, <2>3, FailureCases
<1>7. CASE Midnight \/ \E k \in Keyword : Publish(k)
  BY <1>7 DEF Midnight, Publish, TypeOK, OneFresh, Fresh
<1>8. ASSUME NEW k \in Keyword, FallDue(k) PROVE OneFresh'
  <2>1. ASSUME NEW w \in Worker, Fresh(w) PROVE kw[w] # k
    BY <1>8, <2>1 DEF FallDue, Holders, OneFresh, Fresh
  <2>2. QED BY <1>8, <2>1 DEF FallDue, TypeOK, OneFresh, Fresh
<1>9. CASE UNCHANGED vars
  BY <1>9 DEF vars, TypeOK, OneFresh, Fresh
<1>10. QED
  BY <1>1, <1>5, <1>6, <1>7, <1>8, <1>9 DEF Next, RunNext

\* The flag is up at the last call of the except clause.
LEMMA FlagStep ==
  FlagIsSet /\ Types /\ OneRun /\ FlagUp /\ [Next]_vars => FlagUp'
<1> SUFFICES ASSUME FlagIsSet, TypeOK, OneRun, FlagUp, [Next]_vars
             PROVE  FlagUp'
  BY DEF Types
<1> USE DEF db, run, bound
<1>1. ASSUME NEW w \in Worker, NEW k \in Keyword, Claim(w, k)
      PROVE  FlagUp'
  BY <1>1 DEF Claim, Goto, TypeOK, FlagUp
<1>2. ASSUME NEW w \in Worker, NEW p, UNCHANGED <<pending, kw>>,
             pc' = [pc EXCEPT ![w] = p], p # "errlog"
      PROVE  FlagUp'
  BY <1>2 DEF TypeOK, FlagUp
<1>3. ASSUME NEW w \in Worker, Leave(w), UNCHANGED pending PROVE FlagUp'
  BY <1>3 DEF Leave, TypeOK, FlagUp
<1>4. ASSUME NEW w \in Worker, NEW b \in BOOLEAN, NEW p, pc[w] # "idle",
             SetPending(w, b), UNCHANGED kw, pc' = [pc EXCEPT ![w] = p],
             p = "errlog" => b
      PROVE  FlagUp'
  <2>1. SUFFICES ASSUME NEW v \in Worker, pc'[v] = "errlog"
                 PROVE  pending'[kw'[v]]
    BY DEF FlagUp
  <2>2. kw[w] \in Keyword
    BY <1>4 DEF TypeOK
  <2>3. CASE v = w
    BY <1>4, <2>1, <2>2, <2>3 DEF SetPending, TypeOK
  <2>4. CASE v # w
    <3>1. pc[v] = "errlog" /\ kw[v] \in Keyword /\ pending[kw[v]]
      BY <1>4, <2>1, <2>4 DEF TypeOK, FlagUp
    <3>2. kw[v] # kw[w]
      BY <2>2, <2>4, <3>1 DEF OneRun, TypeOK
    <3>3. QED BY <1>4, <2>2, <3>1, <3>2 DEF SetPending, TypeOK
  <2>5. QED BY <2>3, <2>4
<1>5. ASSUME NEW w \in Worker, Step(w) PROVE FlagUp'
  <2>1. CASE Clear(w)
    <3>1. /\ pc[w] # "idle" /\ SetPending(w, FALSE) /\ UNCHANGED kw
          /\ pc' = [pc EXCEPT ![w] = "log"]
      BY <2>1 DEF Clear, Goto
    <3>2. "log" = "errlog" => FALSE
      OBVIOUS
    <3>3. QED BY <1>4, <3>1, <3>2, Zenon
  <2>2. CASE Flag(w)
    BY <1>4, <2>2 DEF Flag, Goto
  <2>3. CASE Log(w) \/ ErrLog(w)
    BY <1>3, <2>3 DEF Log, ErrLog
  <2>4. CASE Discover(w) \/ Store(w) \/ Count(w) \/ Reschedule(w)
    <3>1. /\ UNCHANGED <<pending, kw>>
          /\ \E p : pc' = [pc EXCEPT ![w] = p] /\ p # "errlog"
      BY <2>4 DEF Discover, Store, Count, Reschedule, Goto
    <3>2. QED BY <1>2, <3>1
  <2>5. QED BY <1>5, <2>1, <2>2, <2>3, <2>4 DEF Step
<1>6. ASSUME NEW w \in Worker, Failure(w) PROVE FlagUp'
  <2>1. CASE Breaks(w)
    <3>1. PICK p \in {"count", "flag"} : pc' = [pc EXCEPT ![w] = p]
      BY <2>1 DEF Breaks
    <3>2. CASE UNCHANGED pending
      BY <1>2, <2>1, <3>1, <3>2 DEF Breaks
    <3>3. CASE pc[w] = "clear" /\ SetPending(w, FALSE)
      BY <1>4, <2>1, <3>1, <3>3 DEF Breaks
    <3>4. QED BY <2>1, <3>2, <3>3 DEF Breaks
  <2>2. CASE EndsEarly(w)
    BY <1>3, <2>2 DEF EndsEarly
  <2>3. "flag" \notin FaultSites
    BY DEF FlagIsSet
  <2>4. QED BY <1>6, <2>1, <2>2, <2>3, FailureCases
<1>7. CASE \/ Midnight
           \/ \E k \in Keyword : Publish(k) \/ FallDue(k)
           \/ UNCHANGED vars
  BY <1>7 DEF Midnight, Publish, FallDue, vars, FlagUp
<1>8. QED
  BY <1>1, <1>5, <1>6, <1>7 DEF Next, RunNext

\* A granted retry keeps its flag until the keyword is claimed: only the success
\* of a run lowers it, and the keyword of such a run waits for no retry.
LEMMA RetryStep ==
  /\ RescheduleIsHeard /\ Types /\ OneFresh /\ RetryFlagged /\ [Next]_vars
  => RetryFlagged'
<1> SUFFICES ASSUME RescheduleIsHeard, TypeOK, OneFresh, RetryFlagged, [Next]_vars,
                    NEW k \in Keyword, sched'[k] = "retry"
             PROVE  pending'[k] \/ \E v \in Worker : kw'[v] = k /\ pc'[v] = "flag"
  BY DEF Types, RetryFlagged, Holders
<1> USE DEF db, run, bound
<1>0. sched[k] = "retry" =>
        pending[k] \/ \E v \in Worker : kw[v] = k /\ pc[v] = "flag"
  BY DEF RetryFlagged, Holders
<1>1. ASSUME NEW w \in Worker, NEW l \in Keyword, Claim(w, l)
      PROVE  pending'[k] \/ \E v \in Worker : kw'[v] = k /\ pc'[v] = "flag"
  BY <1>0, <1>1 DEF Claim, Goto, TypeOK
<1>2. ASSUME NEW w \in Worker, pc[w] # "flag", UNCHANGED <<sched, pending>>,
             \A v \in Worker : v # w => kw'[v] = kw[v] /\ pc'[v] = pc[v]
      PROVE  pending'[k] \/ \E v \in Worker : kw'[v] = k /\ pc'[v] = "flag"
  BY <1>0, <1>2
<1>3. ASSUME NEW w \in Worker, NEW p, pc[w] = "clear", SetPending(w, FALSE),
             UNCHANGED <<kw, sched>>, pc' = [pc EXCEPT ![w] = p]
      PROVE  pending'[k] \/ \E v \in Worker : kw'[v] = k /\ pc'[v] = "flag"
  <2>1. kw[w] \in Keyword /\ sched[kw[w]] = "interval" /\ kw[w] # k
    BY <1>3 DEF TypeOK, OneFresh, Fresh
  <2>2. QED BY <1>0, <1>3, <2>1 DEF SetPending, TypeOK
<1>4. ASSUME NEW w \in Worker, Step(w)
      PROVE  pending'[k] \/ \E v \in Worker : kw'[v] = k /\ pc'[v] = "flag"
  <2>1. CASE Clear(w)
    BY <1>3, <2>1 DEF Clear, Goto
  <2>2. CASE Flag(w)
    <3>1. kw[w] \in Keyword
      BY <2>2 DEF Flag, Goto, TypeOK
    <3>2. CASE kw[w] = k
      BY <2>2, <3>1, <3>2 DEF Flag, SetPending, Goto, TypeOK
    <3>3. CASE kw[w] # k
      BY <1>0, <2>2, <3>1, <3>3 DEF Flag, SetPending, Goto, TypeOK
    <3>4. QED BY <3>2, <3>3
  <2>3. CASE Reschedule(w)
    <3>1. kw[w] \in Keyword
      BY <2>3 DEF Reschedule, Goto, TypeOK
    <3>2. CASE kw[w] = k
      BY <2>3, <3>1, <3>2 DEF Reschedule, Goto, TypeOK
    <3>3. CASE kw[w] # k
      BY <1>0, <2>3, <3>1, <3>3 DEF Reschedule, PutOff, Goto, TypeOK
    <3>4. QED BY <3>2, <3>3
  <2>4. CASE Log(w) \/ ErrLog(w)
    BY <1>2, <2>4 DEF Log, ErrLog, Leave, TypeOK
  <2>5. CASE Discover(w) \/ Store(w) \/ Count(w)
    BY <1>2, <2>5 DEF Discover, Store, Count, Goto, TypeOK
  <2>6. QED BY <1>4, <2>1, <2>2, <2>3, <2>4, <2>5 DEF Step
<1>5. ASSUME NEW w \in Worker, Failure(w)
      PROVE  pending'[k] \/ \E v \in Worker : kw'[v] = k /\ pc'[v] = "flag"
  <2>1. CASE Breaks(w)
    <3>1. PICK p \in {"count", "flag"} : pc' = [pc EXCEPT ![w] = p]
      BY <2>1 DEF Breaks
    <3>2. CASE UNCHANGED pending
      BY <1>2, <2>1, <3>1, <3>2 DEF Breaks, TypeOK
    <3>3. CASE pc[w] = "clear" /\ SetPending(w, FALSE)
      BY <1>3, <2>1, <3>1, <3>3 DEF Breaks
    <3>4. QED BY <2>1, <3>2, <3>3 DEF Breaks
  <2>2. FaultSites \cap {"flag", "death", "reschedule"} = {}
    BY DEF RescheduleIsHeard, FlagIsSet
  <2>3. CASE EndsEarly(w)
    <3>1. pc[w] # "flag" /\ Leave(w) /\ UNCHANGED <<sched, pending>>
      BY <2>2, <2>3 DEF EndsEarly
    <3>2. QED BY <1>2, <3>1 DEF Leave, TypeOK
  <2>4. QED BY <1>5, <2>1, <2>2, <2>3, FailureCases
<1>6. CASE Midnight \/ \E l \in Keyword : Publish(l) \/ FallDue(l)
  BY <1>0, <1>6 DEF Midnight, Publish, FallDue, TypeOK
<1>7. CASE UNCHANGED vars
  BY <1>0, <1>7 DEF vars
<1>8. QED
  BY <1>1, <1>4, <1>5, <1>6, <1>7 DEF Next, RunNext

-----------------------------------------------------------------------------
(* The retry budget *)

\* A row for e is counted as one, and no row lowers a count.
LEMMA PaidOneMore ==
  ASSUME NEW r \in [ErrorRow -> Nat], NEW e \in Throttled, NEW q \in ErrorRow
  PROVE  LET r1 == [r EXCEPT ![q] = @ + 1]
         IN  /\ Paid(r, e) \in Nat /\ Paid(r1, e) \in Nat
             /\ Paid(r1, e) >= Paid(r, e)
             /\ \A b \in BOOLEAN : q = <<e, b>> /\ (e = "http403" => b) =>
                  Paid(r1, e) = Paid(r, e) + 1
<1> DEFINE r1 == [r EXCEPT ![q] = @ + 1]
           A == <<"http403", TRUE>>
           B == <<"bot", TRUE>>
           C == <<"bot", FALSE>>
<1>1. A \in ErrorRow /\ B \in ErrorRow /\ C \in ErrorRow /\ A # B /\ A # C /\ B # C
  BY DEF ErrorRow, ErrorKind
<1>2. ASSUME NEW b \in BOOLEAN, q = <<e, b>>, e = "http403" => b
      PROVE  (e = "http403" /\ q = A) \/ (e # "http403" /\ q \in {B, C})
  <2>1. b = TRUE \/ b = FALSE
    OBVIOUS
  <2>2. CASE e = "http403"
    <3>1. b = TRUE
      BY <1>2, <2>1, <2>2
    <3>2. q = <<"http403", TRUE>>
      BY <1>2, <2>2, <3>1, Zenon
    <3>3. QED BY <2>2, <3>2
  <2>3. CASE e = "bot"
    BY <1>2, <2>1, <2>3
  <2>4. QED BY <2>2, <2>3 DEF Throttled
<1>3. /\ Paid(r, e) = IF e = "http403" THEN r[A] ELSE r[B] + r[C]
      /\ Paid(r1, e) = IF e = "http403" THEN r1[A] ELSE r1[B] + r1[C]
  BY DEF Paid
<1> HIDE DEF A, B, C
<1>4. \A x \in ErrorRow : r[x] \in Nat /\ r1[x] = IF x = q THEN r[x] + 1 ELSE r[x]
  OBVIOUS
<1> HIDE DEF r1
<1>5. Paid(r, e) \in Nat /\ Paid(r1, e) \in Nat /\ Paid(r1, e) >= Paid(r, e)
  BY <1>1, <1>3, <1>4
<1>6. ASSUME (e = "http403" /\ q = A) \/ (e # "http403" /\ q \in {B, C})
      PROVE  Paid(r1, e) = Paid(r, e) + 1
  BY <1>1, <1>3, <1>4, <1>6
<1>7. QED BY <1>2, <1>5, <1>6 DEF r1

\* Both counts of today's rows are numbers, and a credit is never above the count
\* it was granted from.
LEMMA CountTypes ==
  ASSUME TypeOK, NEW k \in Keyword, NEW e \in Throttled
  PROVE  /\ Credit(k, e) \in Nat /\ CountToday(k, e) \in Nat
         /\ Credit(k, e) <= CountToday(k, e)
         /\ Today(k, e) \in Nat
<1>1. /\ rows[k][<<"http403", TRUE>>] \in Nat /\ rows[k][<<"bot", TRUE>>] \in Nat
      /\ rows[k][<<"other", TRUE>>] \in Nat /\ rows[k][<<"bot", FALSE>>] \in Nat
  BY DEF TypeOK, ErrorRow, ErrorKind
<1>2. Today(k, e) \in Nat
  <2>1. <<e, FALSE>> \in Grant
    BY DEF Grant
  <2>2. QED BY <2>1 DEF Today, TypeOK
<1>3. CASE e = "http403"
  BY <1>1, <1>2, <1>3 DEF Credit, Paid, CountToday
<1>4. CASE e # "http403"
  BY <1>1, <1>2, <1>4 DEF Credit, Paid, CountToday
<1>5. QED BY <1>3, <1>4

\* Every retry granted today is paid for by an error row dated today, except the
\* one of a run that has yet to write it.
LEMMA BudgetStep ==
  /\ RunAssumption /\ ErrorRowIsWritten
  /\ Types /\ OneRun /\ BudgetKept /\ [Next]_vars
  => BudgetKept'
<1> SUFFICES ASSUME RunAssumption, ErrorRowIsWritten, TypeOK, TypeOK', OneRun,
                    BudgetKept, [Next]_vars
             PROVE  BudgetKept'
  BY TypeStep DEF Types
<1> USE DEF db, run, bound
<1>1. ASSUME NEW w \in Worker, UNCHANGED <<rows, retries>>,
             \A v \in Worker : v # w =>
               /\ kw'[v] = kw[v] /\ pc'[v] = pc[v]
               /\ late'[v] = late[v] /\ err'[v] = err[v],
             \/ pc[w] \notin {"flag", "errlog"}
             \/ /\ pc[w] = "flag" /\ pc'[w] = "errlog"
                /\ kw'[w] = kw[w] /\ late'[w] = late[w] /\ err'[w] = err[w],
             pc'[w] = "reschedule" =>
               CountToday(kw[w], err[w]) < MaxRetries /\ kw'[w] = kw[w] /\ err'[w] = err[w]
      PROVE  BudgetKept'
  <2>1. ASSUME NEW k \in Keyword, NEW e \in Throttled, NEW v \in Worker, Owing(v, k, e)
        PROVE  Owing(v, k, e)'
    BY <1>1, <2>1 DEF Owing
  <2>2. ASSUME NEW k \in Keyword, NEW e \in Throttled
        PROVE  UNCHANGED <<Credit(k, e), CountToday(k, e), Today(k, e)>>
    BY <1>1 DEF Credit, CountToday, Today
  <2>3. ASSUME NEW v \in Worker, pc'[v] = "reschedule"
        PROVE  CountToday(kw[v], err[v])' < MaxRetries
    <3>1. CASE v = w
      BY <1>1, <2>3, <3>1 DEF CountToday
    <3>2. CASE v # w
      BY <1>1, <2>3, <3>2 DEF CountToday, BudgetKept
    <3>3. QED BY <3>1, <3>2
  <2>4. QED BY <2>1, <2>2, <2>3 DEF BudgetKept
<1>2. ASSUME NEW w \in Worker, NEW k \in Keyword, Claim(w, k) PROVE BudgetKept'
  BY <1>1, <1>2 DEF Claim, Goto, TypeOK
<1>3. ASSUME NEW w \in Worker, Reschedule(w) PROVE BudgetKept'
  <2>0. PICK k \in Keyword, e \in Throttled, b \in BOOLEAN :
          k = kw[w] /\ e = err[w] /\ b = late[w]
    BY <1>3 DEF Reschedule, Goto, TypeOK
  <2>1. /\ pc[w] = "reschedule"
        /\ pc' = [pc EXCEPT ![w] = "flag"]
        /\ UNCHANGED <<rows, kw, late, err>>
        /\ retries' = [retries EXCEPT ![k][<<e, b>>] = @ + 1]
    BY <1>3, <2>0 DEF Reschedule, PutOff, Goto
  <2>2. \A v \in Worker : kw[v] = k => v = w
    BY <2>0 DEF OneRun, RunAssumption
  <2>3. Today(k, e) <= Credit(k, e) /\ Credit(k, e) < MaxRetries
    <3>1. CountToday(k, e) < MaxRetries
      BY <2>0, <2>1 DEF BudgetKept
    <3>2. \A v \in Worker : ~Owing(v, k, e)
      BY <2>1, <2>2 DEF Owing
    <3>3. Today(k, e) <= Credit(k, e)
      BY <2>1, <3>2 DEF BudgetKept
    <3>4. QED BY <2>1, <3>1, <3>3, CountTypes DEF RunAssumption
  <2>4. ASSUME NEW l \in Keyword, NEW c \in Throttled
        PROVE  /\ Today(l, c)' <= MaxRetries
               /\ \/ Today(l, c)' <= Credit(l, c)'
                  \/ /\ Today(l, c)' <= Credit(l, c)' + 1
                     /\ \E v \in Worker : Owing(v, l, c)'
    <3>1. Credit(l, c)' = Credit(l, c)
      BY <2>1 DEF Credit
    <3>2. PICK g \in Grant, h \in Grant : g = <<c, FALSE>> /\ h = <<e, b>>
      BY DEF Grant
    <3>6. /\ retries' = [retries EXCEPT ![k][h] = @ + 1]
          /\ Today(l, c) = retries[l][g] /\ Today(l, c)' = retries'[l][g]
      BY <2>1, <3>2 DEF Today
    <3>3. CASE l = k /\ c = e /\ b = FALSE
      <4>1. Today(k, e)' = Today(k, e) + 1
        <5>1. g = h /\ l = k /\ c = e
          BY <3>2, <3>3
        <5>2. QED BY <3>6, <5>1 DEF TypeOK
      <4>2. Owing(w, k, e)'
        BY <2>0, <2>1, <3>3 DEF Owing, TypeOK
      <4>3. Credit(k, e) \in Nat /\ Today(k, e) \in Nat /\ MaxRetries \in Nat
        BY <2>1, CountTypes DEF RunAssumption
      <4>4. Credit(k, e)' = Credit(k, e)
        BY <2>1 DEF Credit
      <4>5. Today(k, e)' <= MaxRetries /\ Today(k, e)' <= Credit(k, e)' + 1
        BY <2>3, <4>1, <4>3, <4>4
      <4>6. QED BY <3>3, <4>2, <4>5
    <3>4. CASE ~(l = k /\ c = e /\ b = FALSE)
      <4>1. l = k => g # h
        BY <3>2, <3>4
      <4>2. Today(l, c)' = Today(l, c)
        BY <3>6, <4>1 DEF TypeOK
      <4>3. ASSUME NEW v \in Worker, Owing(v, l, c) PROVE Owing(v, l, c)'
        BY <2>1, <4>3 DEF Owing, TypeOK
      <4>4. QED BY <3>1, <4>2, <4>3 DEF BudgetKept
    <3>5. QED BY <3>3, <3>4
  <2>5. ASSUME NEW v \in Worker, pc'[v] = "reschedule"
        PROVE  CountToday(kw[v], err[v])' < MaxRetries
    BY <2>1, <2>5 DEF BudgetKept, CountToday, TypeOK
  <2>6. QED BY <2>4, <2>5 DEF BudgetKept
<1>4. ASSUME NEW w \in Worker, ErrLog(w) PROVE BudgetKept'
  <2>0. PICK k \in Keyword, e \in ErrorKind : k = kw[w] /\ e = err[w]
    BY <1>4 DEF ErrLog, TypeOK
  <2>1. PICK b \in BOOLEAN :
          /\ e = "http403" => b
          /\ rows' = IF late[w] THEN rows
                     ELSE [rows EXCEPT ![k][<<e, b>>] = @ + 1]
    BY <1>4, <2>0 DEF ErrLog, AddErrorRow
  <2>2. /\ pc[w] = "errlog" /\ <<e, b>> \in ErrorRow
        /\ pc' = [pc EXCEPT ![w] = "idle"]
        /\ kw' = [kw EXCEPT ![w] = None]
        /\ late' = [late EXCEPT ![w] = FALSE]
        /\ err' = [err EXCEPT ![w] = None]
        /\ UNCHANGED retries
    BY <1>4 DEF ErrLog, Leave, TypeOK, ErrorRow
  <2>3. \A v \in Worker : kw[v] = k => v = w
    BY <2>0 DEF OneRun, RunAssumption
  <2>4. ASSUME NEW l \in Keyword
        PROVE  rows'[l] = IF l = k /\ ~late[w]
                          THEN [rows[l] EXCEPT ![<<e, b>>] = @ + 1] ELSE rows[l]
    BY <2>1, <2>2 DEF TypeOK
  <2>7. ASSUME NEW l \in Keyword, NEW c \in Throttled
        PROVE  /\ Credit(l, c) \in Nat /\ Credit(l, c)' \in Nat
               /\ Credit(l, c)' >= Credit(l, c)
               /\ l = k /\ c = e /\ ~late[w] => Credit(l, c)' = Credit(l, c) + 1
    <3>1. rows[l] \in [ErrorRow -> Nat]
      BY DEF TypeOK
    <3>2. CASE l = k /\ ~late[w]
      <4> DEFINE r1 == [rows[l] EXCEPT ![<<e, b>>] = @ + 1]
      <4>1. rows'[l] = r1
        BY <2>4, <3>2
      <4>2. /\ Paid(rows[l], c) \in Nat /\ Paid(r1, c) \in Nat
            /\ Paid(r1, c) >= Paid(rows[l], c)
            /\ c = e => Paid(r1, c) = Paid(rows[l], c) + 1
        BY <2>1, <2>2, <3>1, PaidOneMore
      <4>3. QED BY <4>1, <4>2 DEF Credit
    <3>3. CASE ~(l = k /\ ~late[w])
      <4>1. rows'[l] = rows[l]
        BY <2>4, <3>3
      <4>2. Credit(l, c) \in Nat
        BY CountTypes
      <4>3. QED BY <3>3, <4>1, <4>2 DEF Credit
    <3>4. QED BY <3>2, <3>3
  <2>8. ASSUME NEW l \in Keyword, NEW c \in Throttled
        PROVE  /\ Today(l, c)' <= MaxRetries
               /\ \/ Today(l, c)' <= Credit(l, c)'
                  \/ /\ Today(l, c)' <= Credit(l, c)' + 1
                     /\ \E v \in Worker : Owing(v, l, c)'
    <3>1. /\ Credit(l, c) \in Nat /\ Credit(l, c)' \in Nat /\ Today(l, c) \in Nat
          /\ Credit(l, c)' >= Credit(l, c) /\ Today(l, c)' = Today(l, c)
      BY <2>2, <2>7, CountTypes DEF Today
    <3>2. CASE Today(l, c) <= Credit(l, c)
      BY <3>1, <3>2 DEF BudgetKept, RunAssumption
    <3>3. CASE Today(l, c) <= Credit(l, c) + 1 /\ Owing(w, l, c)
      <4>1. l = k /\ c = e /\ ~late[w]
        BY <2>0, <3>3 DEF Owing
      <4>2. Credit(l, c)' = Credit(l, c) + 1
        BY <2>7, <4>1
      <4>3. Today(l, c) <= MaxRetries
        BY DEF BudgetKept
      <4>4. QED BY <3>1, <3>3, <4>2, <4>3
    <3>4. ASSUME NEW v \in Worker, v # w, Owing(v, l, c),
                 Today(l, c) <= Credit(l, c) + 1
          PROVE  Today(l, c)' <= Credit(l, c)' + 1 /\ Owing(v, l, c)'
      BY <2>2, <3>1, <3>4 DEF Owing
    <3>5. QED BY <3>1, <3>2, <3>3, <3>4 DEF BudgetKept
  <2>9. ASSUME NEW v \in Worker, pc'[v] = "reschedule"
        PROVE  CountToday(kw[v], err[v])' < MaxRetries
    <3>1. v # w /\ pc[v] = "reschedule" /\ kw'[v] = kw[v] /\ err'[v] = err[v]
      BY <2>2, <2>9 DEF TypeOK
    <3>2. kw[v] \in Keyword /\ kw[v] # k
      BY <2>3, <3>1 DEF TypeOK
    <3>3. CountToday(kw[v], err[v])' = CountToday(kw[v], err[v])
      BY <2>1, <2>2, <3>1, <3>2 DEF CountToday, TypeOK
    <3>4. QED BY <3>1, <3>3 DEF BudgetKept
  <2>10. QED BY <2>8, <2>9 DEF BudgetKept
<1>5. ASSUME NEW w \in Worker, Step(w) PROVE BudgetKept'
  <2>1. CASE Count(w)
    <3>1. /\ UNCHANGED <<rows, retries, kw, late, err>> /\ pc[w] = "count"
          /\ pc' = [pc EXCEPT ![w] =
                      IF CountToday(kw[w], err[w]) < MaxRetries THEN "reschedule" ELSE "flag"]
      BY <2>1 DEF Count, Goto
    <3>2. CASE CountToday(kw[w], err[w]) < MaxRetries
      BY <1>1, <3>1, <3>2 DEF TypeOK
    <3>3. CASE ~(CountToday(kw[w], err[w]) < MaxRetries)
      <4>1. pc' = [pc EXCEPT ![w] = "flag"]
        BY <3>1, <3>3
      <4>2. QED BY <1>1, <3>1, <4>1 DEF TypeOK
    <3>4. QED BY <3>2, <3>3
  <2>2. CASE Discover(w) \/ Store(w)
    <3>1. /\ UNCHANGED <<rows, retries, kw, late, err>>
          /\ pc[w] \in {"discover", "store"}
          /\ \E p \in {"discover", "store", "clear"} : pc' = [pc EXCEPT ![w] = p]
      BY <2>2 DEF Discover, Store, Goto
    <3>2. QED BY <1>1, <3>1 DEF TypeOK
  <2>5. CASE Clear(w) \/ Flag(w)
    BY <1>1, <2>5 DEF Clear, Flag, Goto, TypeOK
  <2>3. CASE Log(w)
    BY <1>1, <2>3 DEF Log, Leave, TypeOK
  <2>4. QED BY <1>3, <1>4, <1>5, <2>1, <2>2, <2>3, <2>5 DEF Step
<1>6. ASSUME NEW w \in Worker, Failure(w) PROVE BudgetKept'
  <2>1. CASE Breaks(w)
    <3>1. PICK e \in ErrorKind : Raise(w, e)
      BY <2>1 DEF Breaks
    <3>2. PICK p \in {"count", "flag"} : pc' = [pc EXCEPT ![w] = p]
      BY <2>1 DEF Breaks
    <3>3. /\ UNCHANGED <<rows, retries, kw, late>>
          /\ err' = [err EXCEPT ![w] = e]
          /\ pc[w] \notin {"flag", "errlog"}
      BY <2>1, <3>1 DEF Breaks, Raise
    <3>4. QED BY <1>1, <3>2, <3>3 DEF TypeOK
  <2>2. CASE FlagFails(w)
    BY <1>1, <2>2 DEF FlagFails, Goto, TypeOK
  <2>3. FaultSites \cap {"reschedule", "errlog", "death"} = {}
    BY DEF ErrorRowIsWritten
  <2>4. CASE EndsEarly(w)
    <3>1. pc[w] = "count" /\ Leave(w) /\ UNCHANGED <<rows, retries>>
      BY <2>3, <2>4 DEF EndsEarly
    <3>2. QED BY <1>1, <3>1 DEF Leave, TypeOK
  <2>5. QED BY <1>6, <2>1, <2>2, <2>4, FailureCases
<1>7. CASE Midnight
  <2>1. ASSUME NEW k \in Keyword, NEW c \in Throttled
        PROVE  Credit(k, c)' = 0 /\ CountToday(k, c)' = 0 /\ Today(k, c)' = 0
    <3>1. /\ rows' = [l \in Keyword |-> [r \in ErrorRow |-> 0]]
          /\ retries' = [l \in Keyword |-> [g \in Grant |-> 0]]
      BY <1>7 DEF Midnight
    <3>2. \A r \in ErrorRow : rows'[k][r] = 0
      BY <3>1
    <3>3. /\ rows'[k][<<"http403", TRUE>>] = 0 /\ rows'[k][<<"bot", TRUE>>] = 0
          /\ rows'[k][<<"other", TRUE>>] = 0 /\ rows'[k][<<"bot", FALSE>>] = 0
      BY <3>2 DEF ErrorRow, ErrorKind
    <3>4. Today(k, c)' = 0
      BY <3>1 DEF Today, Grant
    <3>5. QED BY <3>3, <3>4 DEF Credit, Paid, CountToday
  <2>2. ASSUME NEW v \in Worker, pc'[v] = "reschedule"
        PROVE  CountToday(kw[v], err[v])' < MaxRetries
    <3>1. /\ pc[v] = "reschedule" /\ kw'[v] = kw[v] /\ err'[v] = err[v]
          /\ kw[v] \in Keyword /\ err[v] \in Throttled
      BY <1>7, <2>2 DEF Midnight, TypeOK
    <3>2. CountToday(kw[v], err[v]) < MaxRetries /\ CountToday(kw[v], err[v]) \in Nat
      BY <3>1, CountTypes DEF BudgetKept
    <3>3. CountToday(kw[v], err[v])' = 0
      BY <2>1, <3>1
    <3>4. QED BY <3>2, <3>3 DEF RunAssumption
  <2>3. QED BY <2>1, <2>2 DEF BudgetKept, RunAssumption
<1>8. CASE \/ \E k \in Keyword : Publish(k) \/ FallDue(k)
           \/ UNCHANGED vars
  <2>1. UNCHANGED <<rows, retries, pc, kw, late, err>>
    BY <1>8 DEF Publish, FallDue, vars
  <2>2. /\ \A k, e : UNCHANGED <<Today(k, e), Credit(k, e), CountToday(k, e)>>
        /\ \A w, k, e : Owing(w, k, e)' <=> Owing(w, k, e)
    BY <2>1 DEF Today, Credit, CountToday, Owing
  <2>3. QED BY <2>1, <2>2 DEF BudgetKept, CountToday
<1>9. QED
  BY <1>2, <1>5, <1>6, <1>7, <1>8 DEF Next, RunNext

\* Of a keyword's runs at most one is caught by midnight before its reschedule, and
\* that run is past it once it has been granted its retry.
LEMMA OvernightStep ==
  /\ RunAssumption /\ Types /\ OneFresh /\ LateRuns /\ OneOvernight /\ [Next]_vars
  => LateRuns' /\ OneOvernight'
<1> SUFFICES ASSUME RunAssumption, TypeOK, OneFresh, LateRuns, OneOvernight,
                    [Next]_vars
             PROVE  LateRuns' /\ OneOvernight'
  BY DEF Types
<1> USE DEF RunAssumption, db, run, bound
<1>0. PICK g \in Grant, h \in Grant :
        g = <<"http403", TRUE>> /\ h = <<"bot", TRUE>> /\ g # h
  <2>1. <<"http403", TRUE>> \in Grant /\ <<"bot", TRUE>> \in Grant
    BY DEF Grant, Throttled
  <2>2. QED BY <2>1
<1>1. ASSUME NEW k \in Keyword
      PROVE  /\ retries[k][g] \in Nat /\ retries[k][h] \in Nat
             /\ Overnight(k) = retries[k][g] + retries[k][h]
             /\ Overnight(k)' = retries'[k][g] + retries'[k][h]
             /\ Overnight(k) \in Nat
  BY <1>0 DEF Overnight, TypeOK
<1>2. ASSUME UNCHANGED <<retries, late>>,
             \A v \in Worker :
               \/ kw'[v] = kw[v] /\ (Fresh(v)' => Fresh(v))
               \/ ~late[v] /\ kw'[v] # None
      PROVE  LateRuns' /\ OneOvernight'
  BY <1>2 DEF LateRuns, OneOvernight, Overnight
<1>3. ASSUME NEW w \in Worker, NEW k \in Keyword, Claim(w, k)
      PROVE  LateRuns' /\ OneOvernight'
  <2>1. ~late[w]
    BY <1>3 DEF Claim, Goto, LateRuns, TypeOK
  <2>2. QED BY <1>2, <1>3, <2>1 DEF Claim, Goto, Fresh, TypeOK
<1>4. ASSUME NEW w \in Worker, NEW p, UNCHANGED <<retries, late, kw>>,
             pc' = [pc EXCEPT ![w] = p],
             pc[w] \in {"flag", "errlog"} => p \in {"flag", "errlog"}
      PROVE  LateRuns' /\ OneOvernight'
  BY <1>2, <1>4 DEF Fresh, TypeOK
<1>5. ASSUME NEW w \in Worker, Leave(w), UNCHANGED retries
      PROVE  LateRuns' /\ OneOvernight'
  BY <1>5 DEF Leave, LateRuns, OneOvernight, Overnight, Fresh, TypeOK
<1>6. ASSUME NEW w \in Worker, pc[w] = "reschedule", PutOff(w),
             \/ pc' = [pc EXCEPT ![w] = "flag"] /\ UNCHANGED <<kw, late>>
             \/ Leave(w)
      PROVE  LateRuns' /\ OneOvernight'
  <2>1. PICK k \in Keyword, e \in Throttled, b \in BOOLEAN :
          k = kw[w] /\ e = err[w] /\ b = late[w]
    BY <1>6 DEF TypeOK
  <2>2. PICK q \in Grant :
          /\ retries' = [retries EXCEPT ![k][q] = @ + 1]
          /\ b = FALSE => q # g /\ q # h
          /\ b = TRUE => q = g \/ q = h
    <3>1. <<e, b>> \in Grant
      BY DEF Grant
    <3>2. retries' = [retries EXCEPT ![k][<<e, b>>] = @ + 1]
      BY <1>6, <2>1 DEF PutOff
    <3>3. b = FALSE => <<e, b>> # g /\ <<e, b>> # h
      BY <1>0
    <3>4. b = TRUE => <<e, b>> = g \/ <<e, b>> = h
      BY <1>0 DEF Throttled
    <3>5. QED BY <3>1, <3>2, <3>3, <3>4
  <2>3. Fresh(w) /\ \A v \in Worker : Fresh(v) /\ kw[v] = k => v = w
    BY <1>6, <2>1 DEF Fresh, OneFresh
  <2>4. \A v \in Worker : /\ Fresh(v)' => v # w /\ Fresh(v)
                          /\ v # w => kw'[v] = kw[v] /\ late'[v] = late[v]
    BY <1>6 DEF Fresh, Leave, TypeOK
  <2>5. LateRuns'
    BY <1>6 DEF Leave, LateRuns, TypeOK
  <2>6. ASSUME NEW l \in Keyword, l # k \/ b = FALSE
        PROVE  Overnight(l)' = Overnight(l)
    <3>1. retries'[l][g] = retries[l][g] /\ retries'[l][h] = retries[l][h]
      BY <2>2, <2>6 DEF TypeOK
    <3>2. QED BY <1>1, <3>1
  <2>7. ASSUME NEW l \in Keyword, l # k \/ b = FALSE
        PROVE  /\ Overnight(l)' <= 1
               /\ Overnight(l)' = 1 =>
                    \A v \in Worker : kw'[v] = l /\ Fresh(v)' => ~late'[v]
    BY <2>4, <2>6, <2>7 DEF OneOvernight
  <2>8. CASE b = TRUE
    <3>1. Overnight(k) = 0
      BY <1>1, <2>1, <2>3, <2>8 DEF OneOvernight
    <3>2. Overnight(k)' = 1
      <4>1. /\ retries[k][g] \in Nat /\ retries[k][h] \in Nat
            /\ retries[k][g] + retries[k][h] = 0
        BY <1>1, <3>1
      <4>2. /\ retries'[k][g] = IF g = q THEN retries[k][g] + 1 ELSE retries[k][g]
            /\ retries'[k][h] = IF h = q THEN retries[k][h] + 1 ELSE retries[k][h]
        BY <2>2 DEF TypeOK
      <4>3. q = g \/ q = h
        BY <2>2, <2>8
      <4>4. retries'[k][g] + retries'[k][h] = 1
        <5>1. retries[k][g] = 0 /\ retries[k][h] = 0
          BY <4>1
        <5>2. CASE q = g
          BY <1>0, <4>2, <5>1, <5>2
        <5>3. CASE q = h
          BY <1>0, <4>2, <5>1, <5>3
        <5>4. QED BY <4>3, <5>2, <5>3
      <4>5. QED BY <1>1, <4>4
    <3>3. \A v \in Worker : ~(kw'[v] = k /\ Fresh(v)')
      <4>1. ASSUME NEW v \in Worker, kw'[v] = k, Fresh(v)' PROVE FALSE
        <5>1. v # w /\ Fresh(v) /\ kw[v] = k
          BY <2>4, <4>1
        <5>2. QED BY <2>3, <5>1
      <4>2. QED BY <4>1
    <3>4. ASSUME NEW l \in Keyword
          PROVE  /\ Overnight(l)' <= 1
                 /\ Overnight(l)' = 1 =>
                      \A v \in Worker : kw'[v] = l /\ Fresh(v)' => ~late'[v]
      <4>1. CASE l = k
        BY <3>2, <3>3, <4>1
      <4>2. CASE l # k
        BY <2>7, <4>2
      <4>3. QED BY <4>1, <4>2
    <3>5. QED BY <2>5, <3>4 DEF OneOvernight
  <2>9. QED BY <2>5, <2>7, <2>8 DEF OneOvernight
<1>7. ASSUME NEW w \in Worker, Step(w) PROVE LateRuns' /\ OneOvernight'
  <2>1. CASE Reschedule(w)
    BY <1>6, <2>1 DEF Reschedule, Goto
  <2>2. CASE Log(w) \/ ErrLog(w)
    BY <1>5, <2>2 DEF Log, ErrLog
  <2>3. CASE Discover(w) \/ Store(w) \/ Clear(w) \/ Count(w) \/ Flag(w)
    <3>1. /\ UNCHANGED <<retries, late, kw>>
          /\ \E p :
               /\ pc' = [pc EXCEPT ![w] = p]
               /\ pc[w] \in {"flag", "errlog"} => p \in {"flag", "errlog"}
      BY <2>3 DEF Discover, Store, Clear, Count, Flag, Goto
    <3>2. QED BY <1>4, <3>1
  <2>4. QED BY <1>7, <2>1, <2>2, <2>3 DEF Step
<1>8. ASSUME NEW w \in Worker, Failure(w) PROVE LateRuns' /\ OneOvernight'
  <2>1. CASE Breaks(w)
    <3>1. PICK p \in {"count", "flag"} : pc' = [pc EXCEPT ![w] = p]
      BY <2>1 DEF Breaks
    <3>2. UNCHANGED <<retries, late, kw>> /\ pc[w] \notin {"flag", "errlog"}
      BY <2>1 DEF Breaks, Raise
    <3>3. QED BY <1>4, <3>1, <3>2
  <2>2. CASE FlagFails(w)
    BY <1>4, <2>2 DEF FlagFails, Goto
  <2>3. CASE EndsEarly(w)
    BY <1>5, <1>6, <2>3 DEF EndsEarly
  <2>4. QED BY <1>8, <2>1, <2>2, <2>3, FailureCases
<1>9. CASE Midnight
  <2>1. ASSUME NEW k \in Keyword PROVE Overnight(k)' = 0
    <3>1. retries' = [l \in Keyword |-> [q \in Grant |-> 0]]
      BY <1>9 DEF Midnight
    <3>2. retries'[k][g] = 0 /\ retries'[k][h] = 0
      BY <3>1
    <3>3. QED BY <1>1, <3>2
  <2>2. LateRuns'
    BY <1>9, Zenon DEF Midnight, LateRuns
  <2>3. OneOvernight'
    BY <2>1 DEF OneOvernight
  <2>4. QED BY <2>2, <2>3
<1>10. CASE \/ \E k \in Keyword : Publish(k) \/ FallDue(k)
            \/ UNCHANGED vars
  BY <1>2, <1>10 DEF Publish, FallDue, vars, Fresh
<1>11. QED
  BY <1>3, <1>7, <1>8, <1>9, <1>10 DEF Next, RunNext

-----------------------------------------------------------------------------
(* Pages of a sorted feed *)

\* The calm feeds, each as a sequence of included and excluded URLs.
LEMMA Calm ==
  ASSUME RunAssumption, CalmFeeds, NEW k \in Keyword
  PROVE  /\ Supply[k] \in Seq(Url) /\ Len(Supply[k]) \in Nat
         /\ \A i, j \in 1..Len(Supply[k]) : Supply[k][i] = Supply[k][j] => i = j
         /\ \A l \in Keyword : \A i \in 1..Len(Supply[k]), j \in 1..Len(Supply[l]) :
              Supply[k][i] = Supply[l][j] => k = l
<1>1. Supply[k] \in Seq(Url) /\ DOMAIN Supply[k] = 1..Len(Supply[k])
  BY DEF RunAssumption
<1>2. ASSUME NEW l \in Keyword, NEW i \in 1..Len(Supply[k]), NEW j \in 1..Len(Supply[l]),
             Supply[k][i] = Supply[l][j], k # l
      PROVE  FALSE
  <2>1. DOMAIN Supply[l] = 1..Len(Supply[l])
    BY DEF RunAssumption
  <2>2. Supply[k][i] \in Urls(Supply[k]) /\ Supply[k][i] \in Urls(Supply[l])
    BY <1>1, <1>2, <2>1 DEF Urls
  <2>3. QED BY <1>2, <2>2 DEF CalmFeeds
<1>3. QED BY <1>1, <1>2 DEF CalmFeeds

\* The links on p pages of q are those on the first p - 1 and q more.
LEMMA Product ==
  ASSUME NEW p \in Nat, p >= 1, NEW q \in Nat, q >= 1
  PROVE  (p - 1) * q \in Nat /\ p * q \in Nat /\ p * q = (p - 1) * q + q
  OBVIOUS

\* More pages hold at least as many links.
LEMMA Monotone ==
  ASSUME NEW p \in Nat, NEW l \in Nat, NEW q \in Nat, p >= l
  PROVE  p * q >= l * q
<1>1. (p - l) * q >= 0 /\ p * q = (p - l) * q + l * q
  OBVIOUS
<1>2. p * q \in Int /\ l * q \in Int /\ (p - l) * q \in Int
  OBVIOUS
<1>3. QED BY <1>1, <1>2

\* Page p of a feed that lists the first n articles of s in reverse shows a
\* window of s, and more is left when the window is not at the bottom.
LEMMA PageIsWindow ==
  ASSUME RunAssumption, NEW s \in Seq(Url), NEW f \in Seq(Url), Len(f) <= Len(s),
         \A i \in 1..Len(f) : f[i] = s[Len(f) + 1 - i],
         NEW p \in Nat, p >= 1
  PROVE  LET T == Len(f) - (p - 1) * PageSize
         IN  /\ Urls(Page(f, p)) = {s[m] : m \in Window(T)}
             /\ p * PageSize < Len(f) <=> T > PageSize
<1> DEFINE n == Len(f)
           a == (p - 1) * PageSize
           b == Least(p * PageSize, n)
           T == n - a
<1>1. /\ PageSize \in Nat /\ PageSize >= 1 /\ n \in Nat /\ a \in Nat
      /\ p * PageSize = a + PageSize
  BY Product DEF RunAssumption
<1>2. /\ b \in Nat /\ b <= n /\ b <= a + PageSize
      /\ b = n \/ b = a + PageSize
  BY <1>1 DEF Least
<1>3. Page(f, p) = SubSeq(f, a + 1, b)
  BY DEF Page
<1>4. p * PageSize < n <=> T > PageSize
  BY <1>1
<1> HIDE DEF a, b
<1> DEFINE g == SubSeq(f, a + 1, b)
<1>5. /\ \A i \in 1..(b - a) : i \in DOMAIN g
      /\ \A i \in DOMAIN g : i \in 1..(b - a) /\ g[i] = f[a + i]
  BY <1>1, <1>2
<1> HIDE DEF g
<1>6. ASSUME NEW u \in Urls(g) PROVE u \in {s[m] : m \in Window(T)}
  <2>1. PICK i \in DOMAIN g : u = g[i]
    BY DEF Urls
  <2>2. i \in 1..(b - a) /\ u = f[a + i] /\ a + i \in 1..n
    BY <1>1, <1>2, <1>5, <2>1
  <2>3. u = s[n + 1 - (a + i)]
    BY <2>2
  <2>4. n + 1 - (a + i) \in Window(T)
    BY <1>1, <1>2, <2>2 DEF Window
  <2>5. QED BY <2>3, <2>4
<1>7. ASSUME NEW m \in Window(T) PROVE s[m] \in Urls(g)
  <2> DEFINE i == n + 1 - a - m
  <2>1. m \in Int /\ 1 <= m /\ m <= n - a /\ n - a < m + PageSize
    BY <1>1 DEF Window
  <2>2. i \in 1..(b - a) /\ a + i \in 1..n /\ n + 1 - (a + i) = m
    BY <1>1, <1>2, <2>1
  <2> HIDE DEF i
  <2>3. i \in DOMAIN g /\ g[i] = f[a + i]
    BY <1>1, <1>2, <1>5, <2>2
  <2>4. f[a + i] = s[m]
    BY <2>2
  <2>5. QED BY <2>3, <2>4 DEF Urls
<1>8. Urls(g) = {s[m] : m \in Window(T)}
  BY <1>6, <1>7
<1>9. QED BY <1>3, <1>4, <1>8 DEF a, g

-----------------------------------------------------------------------------
(* The early stop *)

\* Where w's run is: as far down as its page, which is nowhere above its feed.
LEMMA DepthType ==
  ASSUME RunAssumption, Types, FeedIsSupply, NEW w \in Worker,
         pc[w] \in {"discover", "store"}
  PROVE  /\ kw[w] \in Keyword /\ pageNo[w] \in Nat /\ pageNo[w] >= 1
         /\ drift[w] \in Nat /\ Len(feed[kw[w]]) \in Nat
         /\ (pageNo[w] - 1) * PageSize \in Nat
         /\ Depth(w) \in Int /\ Depth(w) <= Len(feed[kw[w]])
         /\ Len(feed[kw[w]]) <= Len(Supply[kw[w]])
         /\ Len(Supply[kw[w]]) \in Nat
<1>1. /\ kw[w] \in Keyword /\ pageNo[w] \in Nat /\ pageNo[w] >= 1
      /\ drift[w] \in Nat /\ feed[kw[w]] \in Seq(Url)
  BY DEF Types, TypeOK, Cursor
<1>2. (pageNo[w] - 1) * PageSize \in Nat
  BY <1>1, Product DEF RunAssumption
<1>3. Supply[kw[w]] \in Seq(Url)
  BY <1>1 DEF RunAssumption
<1>4. Len(feed[kw[w]]) \in Nat /\ Len(Supply[kw[w]]) \in Nat
  BY <1>1, <1>3
<1>5. Len(feed[kw[w]]) <= Len(Supply[kw[w]])
  BY <1>1 DEF FeedIsSupply
<1> DEFINE q == (pageNo[w] - 1) * PageSize
<1>6. Depth(w) = Len(feed[kw[w]]) - drift[w] - q
  BY DEF Depth
<1> HIDE DEF q
<1>7. Depth(w) \in Int /\ Depth(w) <= Len(feed[kw[w]])
  BY <1>1, <1>2, <1>4, <1>6 DEF q
<1>8. QED BY <1>1, <1>2, <1>4, <1>5, <1>7

\* The articles on w's page are those of a window of its own keyword's supply.
LEMMA PageHolds ==
  ASSUME RunAssumption, CalmFeeds, Types, FeedIsSupply,
         NEW w \in Worker, pc[w] = "store", Storing(w),
         NEW k \in Keyword, NEW m \in 1..Len(Supply[k])
  PROVE  Supply[k][m] \in page[w] <=> k = kw[w] /\ m \in Window(Depth(w))
<1>1. page[w] = {Supply[kw[w]][i] : i \in Window(Depth(w))}
  BY DEF Storing
<1>2. /\ kw[w] \in Keyword
      /\ \A i \in Window(Depth(w)) : i \in 1..Len(Supply[kw[w]])
  BY DepthType DEF Window
<1>3. QED BY <1>1, <1>2, Calm

\* A page without news that is not the last shows, below the articles that moved
\* down, one that an earlier run collected; there is no gap below that one, and
\* the articles above it are on the page.
LEMMA StopIsComplete ==
  ASSUME RunAssumption, CalmFeeds, Types, FeedIsSupply,
         NEW w \in Worker, pc[w] = "store", Storing(w), more[w], EarlyStop(w)
  PROVE  /\ page[w] \subseteq stored \cup Excluded
         /\ \A j \in 1..Depth(w) : Supply[kw[w]][j] \in stored \cup Excluded
         /\ Whole(kw[w])
<1> DEFINE k == kw[w]
           T == Depth(w)
           s == Supply[kw[w]]
<1>1. /\ k \in Keyword /\ T \in Int /\ T <= Len(s) /\ Len(s) \in Nat
      /\ PageSize \in Nat /\ MaxDrift \in Nat /\ MaxDrift < PageSize /\ T > PageSize
  <2>1. /\ k \in Keyword /\ T \in Int /\ T <= Len(feed[k])
        /\ Len(feed[k]) \in Nat /\ Len(feed[k]) <= Len(s) /\ Len(s) \in Nat
    BY DepthType
  <2>2. T > PageSize
    BY DEF Storing
  <2>3. PageSize \in Nat /\ MaxDrift \in Nat /\ MaxDrift < PageSize
    BY DEF RunAssumption, CalmFeeds
  <2> HIDE DEF k, T, s
  <2>4. QED BY <2>1, <2>2, <2>3
<1>2. PICK r \in (T - MaxDrift)..T : ReadDownTo(k, r, isRetry[w])
  BY DEF Storing
<1>3. page[w] = {s[m] : m \in Window(T)} /\ known[w] \subseteq stored
  BY DEF Storing
<1> HIDE DEF k, T, s
<1>4. page[w] \subseteq known[w] \cup Excluded
  <2>1. IsFiniteSet(1..T)
    BY <1>1, FS_Interval, 1 \in Int
  <2>2. IsFiniteSet(Window(T))
    <3>1. Window(T) \in SUBSET (1..T)
      BY DEF Window
    <3>2. QED BY <2>1, <3>1, FS_Subset
  <2>3. IsFiniteSet(page[w])
    <3> DEFINE f == [m \in Window(T) |-> s[m]]
    <3>1. f \in Surjection(Window(T), page[w])
      BY <1>3 DEF Surjection
    <3>2. QED BY <2>2, <3>1, FS_Surjection
  <2>4. IsFiniteSet(page[w] \ (Excluded \cup known[w]))
    BY <2>3, FS_Subset
  <2>5. page[w] \ (Excluded \cup known[w]) = {}
    BY <2>4, FS_EmptySet DEF EarlyStop, Inserted
  <2>6. QED BY <2>5
<1>5. PICK i \in (T - PageSize + 1)..(T - MaxDrift) : s[i] \notin Excluded
  <2>1. Varied(s)
    BY <1>1 DEF CalmFeeds, k, s
  <2>2. /\ T - PageSize \in 0..Len(s)
        /\ (T - PageSize) + (PageSize - MaxDrift) <= Len(s)
        /\ (T - PageSize) + (PageSize - MaxDrift) = T - MaxDrift
    BY <1>1
  <2>3. QED BY <2>1, <2>2 DEF Varied
<1>6. i \in Window(T) /\ i <= r /\ i \in 1..Len(s)
  BY <1>1 DEF Window
<1>7. s[i] \in stored
  BY <1>3, <1>4, <1>5, <1>6
<1>8. ASSUME NEW j \in 1..T PROVE s[j] \in stored \cup Excluded
  <2>1. CASE j \in Window(T)
    BY <1>3, <1>4, <2>1
  <2>2. CASE j \notin Window(T)
    <3>1. j < i /\ j \in 1..Len(s)
      BY <1>1, <2>2 DEF Window
    <3>2. ~Gap(k, j, i)
      BY <1>1, <1>2, <1>6, <3>1 DEF ReadDownTo, EarlyStop, s, k
    <3>3. QED BY <1>6, <1>7, <3>1, <3>2 DEF Gap, s, k
  <2>3. QED BY <2>1, <2>2
<1>9. ASSUME NEW j \in 1..Len(s), NEW m \in 1..Len(s), Gap(k, j, m) PROVE FALSE
  <2>1. j <= r
    BY <1>2, <1>9 DEF ReadDownTo, s, k
  <2>2. j \in 1..T
    BY <1>1, <2>1
  <2>3. QED BY <1>8, <1>9, <2>2 DEF Gap, s, k
<1>10. page[w] \subseteq stored \cup Excluded
  BY <1>3, <1>4
<1>11. QED BY <1>8, <1>9, <1>10 DEF Whole, k, T, s

-----------------------------------------------------------------------------
(* The gaps *)

\* A step that neither publishes nor stores leaves every gap as it was, and a run
\* that it does not move, or moves into its except clause, as well.
LEMMA QuietStep ==
  ASSUME GapsInRuns, UNCHANGED <<feed, stored>>,
         \A v \in Worker :
           \/ pc'[v] \notin {"discover", "store", "clear", "log"}
           \/ /\ pc'[v] = pc[v] \/ (pc'[v] = "log" /\ pc[v] = "clear")
              /\ kw'[v] = kw[v] /\ isRetry'[v] = isRetry[v]
              /\ pageNo'[v] = pageNo[v] /\ page'[v] = page[v] /\ more'[v] = more[v]
              /\ known'[v] = known[v] /\ drift'[v] = drift[v]
  PROVE  /\ GapsInRuns'
         /\ \A k \in Keyword : Whole(k)' <=> Whole(k)
<1>1. /\ \A k, j, m : Gap(k, j, m)' <=> Gap(k, j, m)
      /\ \A k : Whole(k)' <=> Whole(k)
      /\ \A k, r, full : ReadDownTo(k, r, full)' <=> ReadDownTo(k, r, full)
  BY DEF Gap, Whole, ReadDownTo
<1>2. ASSUME NEW v \in Worker PROVE Reading(v)' /\ Storing(v)' /\ Done(v)'
  <2>1. CASE pc'[v] \notin {"discover", "store", "clear", "log"}
    BY <2>1 DEF Reading, Storing, Done
  <2>2. CASE /\ pc'[v] = pc[v] \/ (pc'[v] = "log" /\ pc[v] = "clear")
             /\ kw'[v] = kw[v] /\ isRetry'[v] = isRetry[v]
             /\ pageNo'[v] = pageNo[v] /\ page'[v] = page[v] /\ more'[v] = more[v]
             /\ known'[v] = known[v] /\ drift'[v] = drift[v]
    <3>1. Reading(v) /\ Storing(v) /\ Done(v)
      BY DEF GapsInRuns
    <3>2. Depth(v)' = Depth(v)
      BY <2>2 DEF Depth
    <3>3. Whole(kw[v])' <=> Whole(kw[v])
      BY <1>1, <2>2
    <3>4. QED BY <1>1, <2>2, <3>1, <3>2, <3>3 DEF Reading, Storing, Done
  <2>3. QED BY <2>1, <2>2
<1>3. QED BY <1>1, <1>2 DEF GapsInRuns

\* What a run knows survives a step of another run that opens no gap in its feed.
LEMMA RunKept ==
  ASSUME NEW v \in Worker, Reading(v), Storing(v), Done(v),
         pc'[v] = pc[v], kw'[v] = kw[v], isRetry'[v] = isRetry[v],
         pageNo'[v] = pageNo[v], page'[v] = page[v], more'[v] = more[v],
         known'[v] = known[v], Depth(v)' = Depth(v),
         drift'[v] = drift[v] \/ drift'[v] <= MaxDrift,
         stored \subseteq stored',
         \A j, m : Gap(kw[v], j, m)' => Gap(kw[v], j, m)
  PROVE  Reading(v)' /\ Storing(v)' /\ Done(v)'
<1>2. Whole(kw[v]) => Whole(kw[v])'
  BY DEF Whole
<1>3. \A r : ReadDownTo(kw[v], r, isRetry[v]) => ReadDownTo(kw[v], r, isRetry[v])'
  BY DEF ReadDownTo
<1>4. Reading(v)'
  BY <1>2, <1>3 DEF Reading
<1>5. Storing(v)'
  BY <1>3 DEF Storing
<1>6. Done(v)'
  BY <1>2 DEF Done
<1>7. QED BY <1>4, <1>5, <1>6

\* A fetch finds its page where the last one left off, or at most MaxDrift
\* articles above.
LEMMA DiscoverStep ==
  ASSUME RunAssumption, CalmFeeds, RunInv, NEW w \in Worker, Discover(w)
  PROVE  GapsInRuns'
<1> DEFINE k == kw[w]
           n == Len(feed[kw[w]])
           T == n - (pageNo[w] - 1) * PageSize
<1>1. /\ pc[w] = "discover" /\ k \in Keyword /\ feed[k] \in Seq(Url)
      /\ pageNo[w] \in Nat /\ pageNo[w] >= 1
      /\ drift[w] \in Nat /\ n \in Nat /\ Depth(w) \in Int
      /\ n <= Len(Supply[k]) /\ (pageNo[w] - 1) * PageSize \in Nat
  BY DepthType DEF Discover, Goto, RunInv, Types, TypeOK
<1>2. Supply[k] \in Seq(Url) /\ \A i \in 1..n : feed[k][i] = Supply[k][n + 1 - i]
  BY <1>1 DEF RunAssumption, RunInv, FeedIsSupply
<1>3. /\ Urls(Page(feed[k], pageNo[w])) = {Supply[k][m] : m \in Window(T)}
      /\ pageNo[w] * PageSize < n <=> T > PageSize
  BY <1>1, <1>2, PageIsWindow
<1>4. HasMore(feed[k], pageNo[w], MaxPages) <=> T > PageSize
  <2>1. pageNo[w] * PageSize < n => pageNo[w] < MaxPages
    <3>1. /\ MaxPages \in Nat /\ PageSize \in Nat
          /\ pageNo[w] * PageSize \in Nat /\ MaxPages * PageSize \in Nat
      BY <1>1 DEF RunAssumption
    <3>2. n <= MaxPages * PageSize
      BY <1>1, <1>2, <3>1 DEF CalmFeeds
    <3>3. pageNo[w] >= MaxPages => pageNo[w] * PageSize >= MaxPages * PageSize
      BY <1>1, <3>1, Monotone
    <3>4. QED BY <1>1, <3>1, <3>2, <3>3
  <2>2. QED BY <1>3, <2>1 DEF HasMore
<1>5. /\ T \in Int /\ Depth(w) = T - drift[w]
      /\ pageNo[w] = 1 => T = n
  <2> DEFINE q == (pageNo[w] - 1) * PageSize
  <2>1. q \in Nat /\ T = n - q /\ Depth(w) = n - drift[w] - q
    BY <1>1 DEF Depth
  <2>2. pageNo[w] = 1 => q = 0
    BY DEF RunAssumption
  <2> HIDE DEF q, n, T
  <2>3. QED BY <1>1, <2>1, <2>2
<1> HIDE DEF k, n, T
<1>6. \E r \in (T - MaxDrift)..T : ReadDownTo(k, r, isRetry[w])
  <2>1. MaxDrift \in Nat
    BY DEF RunAssumption
  <2>2. CASE pageNo[w] = 1
    <3>1. isRetry[w] \/ Whole(k)
      BY <1>1, <2>2 DEF RunInv, GapsInRuns, Reading, k
    <3>2. ASSUME NEW j \in 1..Len(Supply[k]), NEW m \in 1..Len(Supply[k]), Gap(k, j, m)
          PROVE  j <= n /\ isRetry[w]
      <4>1. m <= n
        BY <1>1, <3>2 DEF Gap, RunInv, FeedIsSupply, n, k
      <4>2. j <= n
        BY <1>1, <3>2, <4>1 DEF Gap
      <4>3. QED BY <3>1, <3>2, <4>2 DEF Whole
    <3>3. ReadDownTo(k, n, isRetry[w])
      BY <3>2 DEF ReadDownTo
    <3>4. n \in (T - MaxDrift)..T
      BY <1>1, <1>5, <2>1, <2>2
    <3>5. QED BY <3>3, <3>4
  <2>3. CASE pageNo[w] # 1
    <3>1. drift[w] <= MaxDrift /\ ReadDownTo(k, Depth(w), isRetry[w])
      BY <1>1, <2>3 DEF RunInv, GapsInRuns, Reading, k
    <3>2. Depth(w) \in (T - MaxDrift)..T
      BY <1>1, <1>5, <2>1, <3>1
    <3>3. QED BY <3>1, <3>2
  <2>4. QED BY <2>2, <2>3
<1>7. T >= 0
  <2>1. pageNo[w] # 1 => Depth(w) > 0
    BY <1>1 DEF RunInv, GapsInRuns, Reading
  <2>2. QED BY <1>1, <1>5, <2>1
<1>8. /\ pc'[w] = "store"
      /\ page'[w] = Urls(Page(feed[k], pageNo[w]))
      /\ more'[w] = HasMore(feed[k], pageNo[w], MaxPages)
      /\ known'[w] \subseteq stored
      /\ drift'[w] = 0
      /\ UNCHANGED <<feed, stored, kw, isRetry, pageNo>>
  BY DEF Discover, Goto, RunInv, Types, TypeOK, db, k
<1>9. Depth(w)' = T
  BY <1>1, <1>8 DEF Depth, T, n
<1>10. /\ \A l, j, m : Gap(l, j, m)' <=> Gap(l, j, m)
       /\ \A l, r, full : ReadDownTo(l, r, full)' <=> ReadDownTo(l, r, full)
  BY <1>8 DEF Gap, ReadDownTo
<1>11. Storing(w)'
  <2>1. 0 <= MaxDrift
    BY DEF RunAssumption
  <2>2. \E r \in (T - MaxDrift)..T : ReadDownTo(kw[w], r, isRetry[w])'
    BY <1>6, <1>8, <1>10 DEF k
  <2>3. kw'[w] = k
    BY <1>8 DEF k
  <2>4. page'[w] = {Supply[kw'[w]][m] : m \in Window(T)}
    BY <1>3, <1>8, <2>3
  <2>5. QED BY <1>4, <1>7, <1>8, <1>9, <2>1, <2>2, <2>4 DEF Storing
<1>12. Reading(w)' /\ Done(w)'
  BY <1>8 DEF Reading, Done
<1>13. ASSUME NEW v \in Worker, v # w PROVE Reading(v)' /\ Storing(v)' /\ Done(v)'
  <2>1. /\ pc'[v] = pc[v] /\ page'[v] = page[v] /\ more'[v] = more[v]
        /\ known'[v] = known[v] /\ drift'[v] = drift[v]
    BY <1>13 DEF Discover, Goto, RunInv, Types, TypeOK
  <2>2. Depth(v)' = Depth(v)
    BY <1>8, <2>1 DEF Depth
  <2>3. Reading(v) /\ Storing(v) /\ Done(v)
    BY DEF RunInv, GapsInRuns
  <2>4. QED BY <1>8, <1>10, <2>1, <2>2, <2>3, RunKept
<1>14. QED BY <1>11, <1>12, <1>13 DEF GapsInRuns

\* Storing a page opens no gap in the feed of another run or of a keyword at rest.
LEMMA StoredPage ==
  ASSUME RunAssumption, CalmFeeds, RunInv, NEW w \in Worker, pc[w] = "store",
         StorePage(w),
         UNCHANGED <<feed, pending, kw, isRetry, page, more, known, drift>>,
         \A v \in Worker : v # w => pc'[v] = pc[v] /\ pageNo'[v] = pageNo[v]
  PROVE  /\ FeedIsSupply' /\ GapsAtRest'
         /\ \A v \in Worker : v # w => Reading(v)' /\ Storing(v)' /\ Done(v)'
<1>0. Types /\ FeedIsSupply /\ Storing(w)
  BY DEF RunInv, GapsInRuns
<1>1. PICK k \in Keyword, T \in Int : k = kw[w] /\ T = Depth(w)
  BY <1>0, DepthType
<1>2. Len(feed[k]) \in Nat /\ T <= Len(feed[k])
  BY <1>0, <1>1, DepthType
<1>3. stored' = stored \cup (page[w] \ Excluded)
  BY DEF StorePage
<1>4. \A l \in Keyword : \A m \in 1..Len(Supply[l]) :
         Supply[l][m] \in page[w] <=> l = k /\ m \in Window(T)
  BY <1>0, <1>1, PageHolds
<1>5. ASSUME NEW l \in Keyword, l # k, NEW j, NEW m
      PROVE  Gap(l, j, m)' <=> Gap(l, j, m)
  BY <1>3, <1>4, <1>5 DEF Gap
<1>6. ASSUME NEW l \in Keyword, NEW m \in 1..Len(Supply[l]), Supply[l][m] \in stored'
      PROVE  m <= Len(feed[l])
  <2>1. CASE Supply[l][m] \in stored
    BY <1>0, <2>1 DEF FeedIsSupply
  <2>2. CASE Supply[l][m] \in page[w]
    <3>1. l = k /\ m \in Window(T)
      BY <1>4, <2>2
    <3>2. QED BY <1>2, <3>1 DEF Window
  <2>3. QED BY <1>3, <1>6, <2>1, <2>2
<1>7. FeedIsSupply'
  BY <1>0, <1>6 DEF FeedIsSupply
<1>8. ASSUME NEW v \in Worker, v # w PROVE Reading(v)' /\ Storing(v)' /\ Done(v)'
  <2>1. CASE kw[v] \in Keyword
    <3>1. kw[v] # k
      BY <1>1, <1>8, <2>1 DEF RunInv, OneRun, RunAssumption
    <3>2. pc'[v] = pc[v] /\ pageNo'[v] = pageNo[v]
      BY <1>8
    <3>3. Depth(v)' = Depth(v)
      BY <3>2 DEF Depth
    <3>4. \A j, m : Gap(kw[v], j, m)' => Gap(kw[v], j, m)
      BY <1>5, <2>1, <3>1
    <3>5. Reading(v) /\ Storing(v) /\ Done(v)
      BY DEF RunInv, GapsInRuns
    <3>6. QED BY <1>3, <3>2, <3>3, <3>4, <3>5, RunKept
  <2>2. CASE kw[v] \notin Keyword
    <3>1. pc'[v] = "idle"
      BY <1>0, <1>8, <2>2 DEF Types, TypeOK
    <3>2. QED BY <3>1 DEF Reading, Storing, Done
  <2>3. QED BY <2>1, <2>2
<1>9. GapsAtRest'
  <2>1. ASSUME NEW l \in Keyword, ~pending'[l], Holders(l)' = {} PROVE Whole(l)'
    <3>1. l # k /\ Holders(l) = {}
      BY <1>1, <2>1 DEF Holders
    <3>2. Whole(l)
      BY <2>1, <3>1 DEF RunInv, GapsAtRest
    <3>3. QED BY <1>5, <3>1, <3>2 DEF Whole
  <2>2. QED BY <2>1 DEF GapsAtRest
<1>10. QED BY <1>7, <1>8, <1>9

\* A stored page closes the gaps of its window and opens none but below it; a
\* run leaves the page loop when nothing is below, or nothing was missing.
LEMMA StoreStep ==
  ASSUME RunAssumption, CalmFeeds, RunInv, NEW w \in Worker, Store(w)
  PROVE  FeedIsSupply' /\ GapsInRuns' /\ GapsAtRest'
<1> DEFINE goOn == more[w] /\ ~EarlyStop(w)
<1>0. pc[w] = "store" /\ Types /\ FeedIsSupply /\ Storing(w)
  BY DEF Store, Goto, RunInv, GapsInRuns
<1>1. PICK k \in Keyword, T \in Int : k = kw[w] /\ T = Depth(w)
  BY <1>0, DepthType
<1> DEFINE n == Len(Supply[k])
<1>2. /\ Len(feed[k]) \in Nat /\ Len(feed[k]) <= n /\ n \in Nat
      /\ pageNo[w] \in Nat /\ pageNo[w] >= 1 /\ drift[w] \in Nat
      /\ T <= Len(feed[k]) /\ PageSize \in Nat /\ PageSize >= 1
      /\ MaxDrift \in Nat /\ MaxDrift < PageSize
  BY <1>0, <1>1, DepthType DEF RunAssumption, CalmFeeds
<1>3. /\ pc' = [pc EXCEPT ![w] = IF goOn THEN "discover" ELSE "clear"]
      /\ stored' = stored \cup (page[w] \ Excluded)
      /\ pageNo' = [pageNo EXCEPT ![w] = IF goOn THEN @ + 1 ELSE @]
      /\ UNCHANGED <<feed, pending, kw, isRetry, page, more, known, drift>>
  BY DEF Store, StorePage, Goto
<1>4. PICK r \in (T - MaxDrift)..T : ReadDownTo(k, r, isRetry[w])
  BY <1>0, <1>1 DEF Storing
<1>5. /\ drift[w] <= MaxDrift /\ T >= 0
      /\ more[w] <=> T > PageSize
      /\ known[w] \subseteq stored
  BY <1>0, <1>1 DEF Storing
<1>6. more[w] /\ EarlyStop(w) => Whole(k) /\ page[w] \subseteq stored \cup Excluded
  BY <1>0, <1>1, StopIsComplete
<1>7. \A l \in Keyword : \A m \in 1..Len(Supply[l]) :
         Supply[l][m] \in page[w] <=> l = k /\ m \in Window(T)
  BY <1>0, <1>1, PageHolds
<1> HIDE DEF n, goOn
<1>8. ASSUME NEW j, NEW m, Gap(k, j, m)'
      PROVE  /\ j \in 1..n /\ m \in 1..n /\ j < m
             /\ j \notin Window(T)
             /\ Gap(k, j, m) \/ m \in Window(T)
  <2>1. /\ j \in 1..n /\ m \in 1..n /\ j < m
        /\ Supply[k][m] \in stored' /\ Supply[k][j] \notin stored' \cup Excluded
    BY <1>8 DEF Gap, n
  <2>2. Supply[k][j] \notin page[w] /\ Supply[k][j] \notin stored \cup Excluded
    BY <1>3, <2>1
  <2>3. j \notin Window(T)
    BY <1>7, <2>1, <2>2 DEF n
  <2>4. Supply[k][m] \in stored \/ m \in Window(T)
    BY <1>3, <1>7, <2>1 DEF n
  <2>5. QED BY <2>1, <2>2, <2>3, <2>4 DEF Gap, n
<1>9. ASSUME NEW j, NEW m, Gap(k, j, m)' PROVE j + PageSize <= T
  <2>1. j \in 1..n /\ m \in 1..n /\ j < m /\ j \notin Window(T)
    BY <1>8, <1>9
  <2>2. j <= T
    <3>1. CASE Gap(k, j, m)
      BY <1>2, <1>4, <2>1, <3>1 DEF ReadDownTo, n
    <3>2. CASE m \in Window(T)
      BY <1>2, <2>1, <3>2 DEF Window
    <3>3. QED BY <1>8, <1>9, <3>1, <3>2
  <2>3. QED BY <1>2, <2>1, <2>2 DEF Window
<1>10. ASSUME goOn PROVE Reading(w)' /\ Storing(w)' /\ Done(w)'
  <2>1. T > PageSize
    BY <1>5, <1>10 DEF goOn
  <2>2. pc'[w] = "discover" /\ pageNo'[w] = pageNo[w] + 1
    BY <1>0, <1>2, <1>3, <1>10 DEF Types, TypeOK
  <2>3. Depth(w)' = T - PageSize
    <3> DEFINE q == (pageNo[w] - 1) * PageSize
    <3>1. q \in Nat /\ (pageNo'[w] - 1) * PageSize = q + PageSize
      <4>1. pageNo'[w] - 1 = pageNo[w]
        BY <1>2, <2>2
      <4>2. q \in Nat /\ pageNo[w] * PageSize = q + PageSize
        BY <1>2, Product
      <4>3. QED BY <4>1, <4>2
    <3>2. /\ Depth(w)' = Len(feed[k]) - drift[w] - (pageNo'[w] - 1) * PageSize
          /\ T = Len(feed[k]) - drift[w] - q
      BY <1>1, <1>3 DEF Depth
    <3> HIDE DEF q
    <3>3. QED BY <1>2, <3>1, <3>2
  <2>4. ASSUME NEW j, NEW m, Gap(k, j, m)'
        PROVE  j <= T - PageSize /\ (isRetry[w] \/ T - PageSize < m)
    <3>1. j \in 1..n /\ m \in 1..n /\ j + PageSize <= T
      BY <1>8, <1>9, <2>4
    <3>2. CASE Gap(k, j, m)
      <4>1. isRetry[w] \/ r < m
        BY <1>4, <3>1, <3>2 DEF ReadDownTo, n
      <4>2. T - PageSize < r
        BY <1>2, <1>4
      <4>3. QED BY <1>2, <1>4, <3>1, <4>1, <4>2
    <3>3. CASE m \in Window(T)
      BY <1>2, <3>1, <3>3 DEF Window
    <3>4. QED BY <1>8, <2>4, <3>2, <3>3
  <2>5. ReadDownTo(kw[w], Depth(w), isRetry[w])'
    BY <1>1, <1>3, <2>3, <2>4 DEF ReadDownTo
  <2>6. Reading(w)'
    <3>1. pageNo'[w] > 1 /\ Depth(w)' > 0
      BY <1>2, <2>1, <2>2, <2>3
    <3>2. drift'[w] <= MaxDrift
      BY <1>3, <1>5
    <3>3. QED BY <2>5, <3>1, <3>2 DEF Reading
  <2>7. pc'[w] # "store" /\ pc'[w] \notin {"clear", "log"}
    BY <2>2
  <2>8. Storing(w)' /\ Done(w)'
    BY <2>7 DEF Storing, Done
  <2>9. QED BY <2>6, <2>8
<1>11. ASSUME ~goOn PROVE Reading(w)' /\ Storing(w)' /\ Done(w)'
  <2>1. pc'[w] = "clear"
    BY <1>0, <1>3, <1>11 DEF Types, TypeOK
  <2>2. ASSUME NEW j, NEW m, Gap(k, j, m)' PROVE FALSE
    <3>1. CASE ~more[w]
      BY <1>2, <1>5, <1>8, <1>9, <2>2, <3>1
    <3>2. CASE more[w] /\ EarlyStop(w)
      <4>1. stored' = stored
        BY <1>3, <1>6, <3>2
      <4>2. Gap(k, j, m)
        BY <2>2, <4>1 DEF Gap
      <4>3. QED BY <1>6, <3>2, <4>2 DEF Whole, Gap
    <3>3. QED BY <1>11, <3>1, <3>2 DEF goOn
  <2>3. Whole(k)'
    BY <2>2 DEF Whole
  <2>4. Done(w)'
    <3>1. Whole(kw[w])'
      BY <1>1, <1>3, <2>3 DEF Whole, Gap
    <3>2. QED BY <3>1 DEF Done
  <2>5. Reading(w)' /\ Storing(w)'
    <3>1. pc'[w] # "discover" /\ pc'[w] # "store"
      BY <2>1
    <3>2. QED BY <3>1 DEF Reading, Storing
  <2>6. QED BY <2>4, <2>5
<1>12. Reading(w)' /\ Storing(w)' /\ Done(w)'
  BY <1>10, <1>11
<1>13. /\ FeedIsSupply' /\ GapsAtRest'
       /\ \A v \in Worker : v # w => Reading(v)' /\ Storing(v)' /\ Done(v)'
  <2>1. \A v \in Worker : v # w => pc'[v] = pc[v] /\ pageNo'[v] = pageNo[v]
    BY <1>0, <1>3 DEF Types, TypeOK
  <2>2. StorePage(w)
    BY DEF Store
  <2>3. QED BY <1>0, <1>3, <2>1, <2>2, StoredPage
<1>14. QED BY <1>12, <1>13 DEF GapsInRuns

\* An article appears at the head of a sorted feed: what a run has read of it
\* stays as deep as it was.
LEMMA PublishStep ==
  ASSUME RunAssumption, CalmFeeds, RunInv, NEW k \in Keyword, Publish(k)
  PROVE  FeedIsSupply' /\ GapsInRuns' /\ GapsAtRest'
<1>1. PICK n \in Nat : n = Len(feed[k])
  BY DEF RunInv, Types, TypeOK
<1> DEFINE u == Supply[k][n + 1]
<1>2. /\ feed[k] \in Seq(Url) /\ Supply[k] \in Seq(Url) /\ Len(Supply[k]) \in Nat
      /\ n < Len(Supply[k])
      /\ \A w \in Holders(k) : drift[w] < MaxDrift
      /\ feed' = [feed EXCEPT ![k] = <<u>> \o feed[k]]
      /\ drift' = [w \in Worker |-> IF kw[w] = k THEN drift[w] + 1 ELSE drift[w]]
      /\ UNCHANGED <<stored, pending, pc, kw, isRetry, pageNo, page, more, known>>
  <2>1. feed[k] \in Seq(Url) /\ Supply[k] \in Seq(Url) /\ Len(Supply[k]) \in Nat
    BY DEF RunInv, Types, TypeOK, RunAssumption
  <2>2. Insertions(k, u) = {<<u>> \o feed[k]}
    BY DEF Insertions, CalmFeeds
  <2>3. n < Len(Supply[k])
    BY <1>1 DEF Publish
  <2>4. \E f \in Insertions(k, u) : feed' = [feed EXCEPT ![k] = f]
    BY <1>1 DEF Publish
  <2> HIDE DEF u
  <2>5. QED BY <2>1, <2>2, <2>3, <2>4 DEF Publish, db
<1>3. /\ feed \in [Keyword -> Seq(Url)] /\ FeedIsSupply /\ Types
      /\ \A v \in Worker : Reading(v) /\ Storing(v) /\ Done(v)
  BY DEF RunInv, Types, TypeOK, GapsInRuns
<1>4. /\ Len(feed'[k]) = n + 1
      /\ \A i \in 1..(n + 1) : feed'[k][i] = Supply[k][n + 2 - i]
  <2>1. <<u>> \in Seq(Url) /\ feed'[k] = <<u>> \o feed[k]
    BY <1>2, <1>3
  <2>2. Len(feed'[k]) = n + 1
    BY <1>1, <1>2, <2>1
  <2>3. feed'[k][1] = Supply[k][n + 1]
    BY <1>2, <2>1
  <2>4. ASSUME NEW i \in 2..(n + 1) PROVE feed'[k][i] = Supply[k][n + 2 - i]
    <3>1. i - 1 \in 1..n /\ n + 1 - (i - 1) = n + 2 - i
      OBVIOUS
    <3>2. feed'[k][i] = feed[k][i - 1]
      BY <1>1, <1>2, <2>1, <3>1
    <3>3. feed[k][i - 1] = Supply[k][n + 1 - (i - 1)]
      BY <1>1, <1>3, <3>1 DEF FeedIsSupply
    <3>4. QED BY <3>1, <3>2, <3>3
  <2>5. QED BY <2>2, <2>3, <2>4
<1> HIDE DEF u
<1>5. FeedIsSupply'
  <2>1. ASSUME NEW l \in Keyword, l # k PROVE feed'[l] = feed[l]
    BY <1>2, <1>3, <2>1
  <2>2. ASSUME NEW i \in 1..(n + 1) PROVE feed'[k][i] = Supply[k][Len(feed'[k]) + 1 - i]
    BY <1>4
  <2>3. ASSUME NEW m \in 1..Len(Supply[k]), Supply[k][m] \in stored' PROVE m <= n + 1
    BY <1>1, <1>2, <1>3, <2>3 DEF FeedIsSupply
  <2>4. QED BY <1>2, <1>3, <1>4, <2>1, <2>2, <2>3 DEF FeedIsSupply
<1>6. /\ \A l, j, m : Gap(l, j, m)' <=> Gap(l, j, m)
      /\ \A l : Whole(l)' <=> Whole(l)
  BY <1>2 DEF Gap, Whole
<1>7. ASSUME NEW v \in Worker PROVE Reading(v)' /\ Storing(v)' /\ Done(v)'
  <2>1. CASE pc[v] = "idle"
    BY <1>2, <2>1 DEF Reading, Storing, Done
  <2>2. CASE pc[v] # "idle"
    <3>1. kw[v] \in Keyword /\ drift[v] \in Nat /\ MaxDrift \in Nat
      BY <1>3, <2>2 DEF Types, TypeOK, RunAssumption
    <3>2. drift'[v] = drift[v] \/ drift'[v] <= MaxDrift
      BY <1>2, <3>1 DEF Holders
    <3>3. CASE pc[v] \in {"discover", "store"}
      <4> DEFINE q == (pageNo[v] - 1) * PageSize
      <4>1. q \in Nat /\ Depth(v) = Len(feed[kw[v]]) - drift[v] - q
        BY <1>3, <3>3, DepthType DEF RunInv, Depth
      <4>2. Depth(v)' = Len(feed'[kw[v]]) - drift'[v] - q
        BY <1>2 DEF Depth
      <4> HIDE DEF q
      <4>3. kw[v] = k => Depth(v)' = Depth(v)
        <5>1. kw[v] = k => /\ Len(feed[kw[v]]) = n /\ Len(feed'[kw[v]]) = n + 1
                           /\ drift'[v] = drift[v] + 1
          BY <1>1, <1>2, <1>4
        <5>2. QED BY <3>1, <4>1, <4>2, <5>1
      <4>4. kw[v] # k => Depth(v)' = Depth(v)
        <5>1. kw[v] # k => feed'[kw[v]] = feed[kw[v]] /\ drift'[v] = drift[v]
          BY <1>2, <1>3, <3>1
        <5>2. QED BY <4>1, <4>2, <5>1
      <4>5. Depth(v)' = Depth(v)
        BY <4>3, <4>4
      <4>6. QED BY <1>2, <1>3, <1>6, <3>2, <4>5, RunKept
    <3>4. CASE pc[v] \notin {"discover", "store"}
      BY <1>2, <1>3, <1>6, <3>4 DEF Reading, Storing, Done
    <3>5. QED BY <3>3, <3>4
  <2>3. QED BY <2>1, <2>2
<1>8. GapsAtRest'
  BY <1>2, <1>6 DEF RunInv, GapsAtRest, Holders
<1>9. QED BY <1>5, <1>7, <1>8 DEF GapsInRuns

\* A claimed keyword either has its flag up or no gap.
LEMMA ClaimStep ==
  ASSUME RunAssumption, RunInv, NEW w \in Worker, NEW k \in Keyword, Claim(w, k)
  PROVE  GapsInRuns' /\ GapsAtRest'
<1>1. /\ pc' = [pc EXCEPT ![w] = "discover"]
      /\ kw' = [kw EXCEPT ![w] = k]
      /\ isRetry' = [isRetry EXCEPT ![w] = pending[k]]
      /\ pageNo' = [pageNo EXCEPT ![w] = 1]
      /\ UNCHANGED <<feed, stored, pending, page, more, known, drift>>
  BY DEF Claim, Goto
<1>2. Types /\ OneRun /\ GapsInRuns /\ GapsAtRest
  BY DEF RunInv
<1>3. /\ \A l, j, m : Gap(l, j, m)' <=> Gap(l, j, m)
      /\ \A l : Whole(l)' <=> Whole(l)
  BY <1>1 DEF Gap, Whole
<1>4. pending[k] \/ Whole(k)
  BY <1>2 DEF Claim, OneRun, GapsAtRest, Holders, Types, TypeOK, RunAssumption
<1>5. Reading(w)' /\ Storing(w)' /\ Done(w)'
  <2>1. /\ pc'[w] = "discover" /\ kw'[w] = k /\ isRetry'[w] = pending[k]
        /\ pageNo'[w] = 1
    BY <1>1, <1>2 DEF Types, TypeOK
  <2>2. isRetry'[w] \/ Whole(kw[w])'
    BY <1>3, <1>4, <2>1 DEF Whole, Gap
  <2>3. QED BY <2>1, <2>2 DEF Reading, Storing, Done
<1>6. ASSUME NEW v \in Worker, v # w PROVE Reading(v)' /\ Storing(v)' /\ Done(v)'
  <2>1. /\ pc'[v] = pc[v] /\ kw'[v] = kw[v] /\ isRetry'[v] = isRetry[v]
        /\ pageNo'[v] = pageNo[v] /\ page'[v] = page[v] /\ more'[v] = more[v]
        /\ known'[v] = known[v] /\ drift'[v] = drift[v]
    BY <1>1, <1>2, <1>6 DEF Types, TypeOK
  <2>2. Depth(v)' = Depth(v)
    BY <1>1, <2>1 DEF Depth
  <2>3. QED BY <1>1, <1>2, <1>3, <2>1, <2>2, RunKept DEF GapsInRuns
<1>7. GapsAtRest'
  <2>1. kw[w] = None
    BY <1>2 DEF Claim, Goto, Types, TypeOK
  <2>2. ASSUME NEW l \in Keyword, Holders(l)' = {} PROVE Holders(l) = {}
    BY <1>1, <2>1, <2>2 DEF Holders, RunAssumption
  <2>3. QED BY <1>1, <1>2, <1>3, <2>2 DEF GapsAtRest
<1>8. QED BY <1>5, <1>6, <1>7 DEF GapsInRuns

\* Every other step of a run.  A run ends whole, or with its flag up.
LEMMA GapStep ==
  /\ RunAssumption /\ Prompt /\ CalmFeeds /\ HandlerWorks
  /\ RunInv /\ [Next]_vars
  => RunInv'
<1> SUFFICES ASSUME RunAssumption, Prompt, CalmFeeds, HandlerWorks, RunInv,
                    [Next]_vars
             PROVE  FeedIsSupply' /\ GapsInRuns' /\ GapsAtRest'
  BY TypeStep, OneRunStep, FlagStep DEF RunInv, HandlerWorks
<1>1. /\ Types /\ OneRun /\ FlagUp /\ FeedIsSupply /\ GapsInRuns /\ GapsAtRest
      /\ \A w \in Worker : pc[w] # "idle" => kw[w] \in Keyword
      /\ pc \in [Worker -> {"idle", "discover", "store", "clear", "log", "count",
                            "reschedule", "flag", "errlog"}]
  BY DEF RunInv, Types, TypeOK
<1> DEFINE Quiet(v) ==
      \/ pc'[v] \notin {"discover", "store", "clear", "log"}
      \/ /\ pc'[v] = pc[v] \/ (pc'[v] = "log" /\ pc[v] = "clear")
         /\ kw'[v] = kw[v] /\ isRetry'[v] = isRetry[v]
         /\ pageNo'[v] = pageNo[v] /\ page'[v] = page[v] /\ more'[v] = more[v]
         /\ known'[v] = known[v] /\ drift'[v] = drift[v]
<1>2. UNCHANGED <<feed, stored>> => FeedIsSupply'
  BY <1>1 DEF FeedIsSupply
<1>3. ASSUME UNCHANGED <<feed, stored>>, \A v \in Worker : Quiet(v)
      PROVE  GapsInRuns' /\ \A k \in Keyword : Whole(k)' <=> Whole(k)
  BY <1>1, <1>3, QuietStep
<1> HIDE DEF Quiet
<1>4. ASSUME UNCHANGED <<feed, stored, kw>>, \A v \in Worker : Quiet(v),
             \A k \in Keyword : pending'[k] \/ pending'[k] = pending[k] \/ Holders(k) # {}
      PROVE  FeedIsSupply' /\ GapsInRuns' /\ GapsAtRest'
  <2>1. \A k \in Keyword : ~pending'[k] /\ Holders(k)' = {} =>
          ~pending[k] /\ Holders(k) = {}
    BY <1>4 DEF Holders
  <2>2. QED BY <1>1, <1>2, <1>3, <1>4, <2>1 DEF GapsAtRest
<1>5. ASSUME NEW w \in Worker, Leave(w), UNCHANGED <<feed, stored, pending>>,
             kw[w] \in Keyword, pending[kw[w]] \/ Whole(kw[w])
      PROVE  FeedIsSupply' /\ GapsInRuns' /\ GapsAtRest'
  <2>1. \A v \in Worker : Quiet(v)
    BY <1>1, <1>5 DEF Leave, Types, TypeOK, Quiet
  <2>2. ASSUME NEW k \in Keyword, ~pending'[k], Holders(k)' = {} PROVE Whole(k)
    <3>1. k # kw[w] => Holders(k) = {}
      BY <1>1, <1>5, <2>2 DEF Leave, Holders, Types, TypeOK
    <3>2. QED BY <1>1, <1>5, <2>2, <3>1 DEF GapsAtRest
  <2>3. QED BY <1>2, <1>3, <1>5, <2>1, <2>2 DEF GapsAtRest
<1>6. ASSUME NEW w \in Worker, NEW p \in {"count", "reschedule", "flag", "errlog"},
             pc' = [pc EXCEPT ![w] = p], UNCHANGED <<isRetry, pageNo, page, more, known, drift, kw>>
      PROVE  \A v \in Worker : Quiet(v)
  BY <1>1, <1>6 DEF Quiet
<1>7. ASSUME NEW w \in Worker, Step(w) PROVE FeedIsSupply' /\ GapsInRuns' /\ GapsAtRest'
  <2>1. CASE Discover(w)
    <3>1. UNCHANGED <<feed, stored, pending, kw>>
      BY <2>1 DEF Discover, db
    <3>2. GapsAtRest'
      BY <1>1, <3>1 DEF GapsAtRest, Holders, Whole, Gap
    <3>3. QED BY <1>2, <2>1, <3>1, <3>2, DiscoverStep
  <2>2. CASE Store(w)
    BY <2>2, StoreStep
  <2>3. CASE Clear(w)
    <3>1. /\ pc[w] = "clear" /\ kw[w] \in Keyword
          /\ pc' = [pc EXCEPT ![w] = "log"]
          /\ pending' = [pending EXCEPT ![kw[w]] = FALSE]
          /\ UNCHANGED <<feed, stored, run>>
      BY <1>1, <2>3 DEF Clear, SetPending, Goto
    <3>2. \A v \in Worker : Quiet(v)
      BY <1>1, <3>1 DEF Quiet, run
    <3>3. \A k \in Keyword : pending'[k] = pending[k] \/ Holders(k) # {}
      BY <1>1, <3>1 DEF Holders, Types, TypeOK
    <3>4. QED BY <1>4, <3>1, <3>2, <3>3 DEF run
  <2>4. CASE Log(w)
    <3>1. /\ kw[w] \in Keyword /\ Whole(kw[w])
          /\ Leave(w) /\ UNCHANGED <<feed, stored, pending>>
      BY <1>1, <2>4 DEF Log, GapsInRuns, Done, db
    <3>2. QED BY <1>5, <3>1
  <2>5. CASE Count(w)
    <3>1. PICK p \in {"reschedule", "flag"} : pc' = [pc EXCEPT ![w] = p]
      BY <2>5 DEF Count, Goto
    <3>2. UNCHANGED <<feed, stored, pending, run>>
      BY <2>5 DEF Count, db
    <3>3. QED BY <1>4, <1>6, <3>1, <3>2 DEF run
  <2>6. CASE Reschedule(w)
    <3>1. pc' = [pc EXCEPT ![w] = "flag"] /\ UNCHANGED <<feed, stored, pending, run>>
      BY <2>6 DEF Reschedule, Goto
    <3>2. QED BY <1>4, <1>6, <3>1 DEF run
  <2>7. CASE Flag(w)
    <3>1. /\ pc[w] = "flag" /\ kw[w] \in Keyword
          /\ pc' = [pc EXCEPT ![w] = "errlog"]
          /\ pending' = [pending EXCEPT ![kw[w]] = TRUE]
          /\ UNCHANGED <<feed, stored, run>>
      BY <1>1, <2>7 DEF Flag, SetPending, Goto
    <3>2. \A k \in Keyword : pending'[k] = pending[k] \/ Holders(k) # {}
      BY <1>1, <3>1 DEF Holders, Types, TypeOK
    <3>3. QED BY <1>4, <1>6, <3>1, <3>2 DEF run
  <2>8. CASE ErrLog(w)
    <3>1. /\ kw[w] \in Keyword /\ pending[kw[w]]
          /\ Leave(w) /\ UNCHANGED <<feed, stored, pending>>
      BY <1>1, <2>8 DEF ErrLog, FlagUp
    <3>2. QED BY <1>5, <3>1
  <2>9. QED BY <1>7, <2>1, <2>2, <2>3, <2>4, <2>5, <2>6, <2>7, <2>8 DEF Step
<1>8. ASSUME NEW w \in Worker, Failure(w) PROVE FeedIsSupply' /\ GapsInRuns' /\ GapsAtRest'
  <2>1. UNCHANGED feed
    BY <1>8, FailureCases
  <2>2. CASE Breaks(w)
    <3>1. PICK p \in {"count", "flag"} : pc' = [pc EXCEPT ![w] = p]
      BY <2>2 DEF Breaks
    <3>2. UNCHANGED <<isRetry, pageNo, page, more, known, drift, kw>>
      BY <2>2 DEF Breaks, Raise
    <3>3. CASE UNCHANGED <<stored, pending>>
      BY <1>4, <1>6, <2>1, <3>1, <3>2, <3>3
    <3>4. CASE pc[w] = "store" /\ StorePage(w) /\ UNCHANGED pending
      <4>1. \A v \in Worker : v # w => pc'[v] = pc[v] /\ pageNo'[v] = pageNo[v]
        BY <1>1, <3>1, <3>2
      <4>2. /\ FeedIsSupply' /\ GapsAtRest'
            /\ \A v \in Worker : v # w => Reading(v)' /\ Storing(v)' /\ Done(v)'
        BY <2>1, <3>2, <3>4, <4>1, StoredPage
      <4>3. pc'[w] \in {"count", "flag"}
        BY <1>1, <3>1
      <4>4. Reading(w)' /\ Storing(w)' /\ Done(w)'
        BY <4>3 DEF Reading, Storing, Done
      <4>5. QED BY <4>2, <4>4 DEF GapsInRuns
    <3>5. CASE pc[w] = "clear" /\ SetPending(w, FALSE) /\ UNCHANGED stored
      <4>1. kw[w] \in Keyword /\ pending' = [pending EXCEPT ![kw[w]] = FALSE]
        BY <1>1, <3>5 DEF SetPending
      <4>2. \A k \in Keyword : pending'[k] = pending[k] \/ Holders(k) # {}
        BY <1>1, <4>1 DEF Holders, Types, TypeOK
      <4>3. QED BY <1>4, <1>6, <2>1, <3>1, <3>2, <3>5, <4>2
    <3>6. QED BY <2>2, <3>3, <3>4, <3>5 DEF Breaks
  <2>3. FaultSites \cap {"flag", "death", "count", "reschedule"} = {}
    BY DEF HandlerWorks, FlagIsSet
  <2>4. CASE EndsEarly(w)
    <3>1. Leave(w) /\ pc[w] = "errlog" /\ UNCHANGED <<stored, pending>>
      BY <2>3, <2>4 DEF EndsEarly
    <3>2. kw[w] \in Keyword /\ pending[kw[w]]
      BY <1>1, <3>1 DEF FlagUp
    <3>3. QED BY <1>5, <2>1, <3>1, <3>2
  <2>5. QED BY <1>8, <2>2, <2>3, <2>4, FailureCases
<1>9. CASE Midnight \/ (\E k \in Keyword : FallDue(k)) \/ UNCHANGED vars
  <2>1. UNCHANGED <<feed, stored, pending, pc, kw, isRetry, pageNo, page, more, known, drift>>
    BY <1>9 DEF Midnight, FallDue, vars, run, db
  <2>2. \A v \in Worker : Quiet(v)
    BY <2>1 DEF Quiet
  <2>3. QED BY <1>4, <2>1, <2>2
<1>10. ASSUME NEW w \in Worker, NEW k \in Keyword, Claim(w, k)
       PROVE  FeedIsSupply' /\ GapsInRuns' /\ GapsAtRest'
  <2>1. UNCHANGED <<feed, stored>>
    BY <1>10 DEF Claim
  <2>2. QED BY <1>2, <1>10, <2>1, ClaimStep
<1>11. QED
  BY <1>7, <1>8, <1>9, <1>10, PublishStep DEF Next, RunNext

\* Before the first run there is nothing to miss.
LEMMA RunInit ==
  RunAssumption /\ Init =>
    /\ RunInv /\ OneFresh /\ RetryFlagged
    /\ BudgetKept /\ OneOvernight /\ LateRuns
<1> SUFFICES ASSUME RunAssumption, Init
             PROVE  /\ RunInv /\ OneFresh /\ RetryFlagged
                    /\ BudgetKept /\ OneOvernight /\ LateRuns
  OBVIOUS
<1>1. Types
  BY TypeInit
<1>2. OneRun /\ OneFresh /\ FlagUp /\ RetryFlagged /\ LateRuns
  BY DEF Init, OneRun, OneFresh, Fresh, FlagUp, RetryFlagged, LateRuns
<1>3. FeedIsSupply
  <2>1. \A k \in Keyword : feed[k] = <<>> /\ Len(Supply[k]) \in Nat
    BY DEF Init, RunAssumption
  <2>2. QED BY <2>1 DEF Init, FeedIsSupply
<1>4. GapsInRuns /\ GapsAtRest
  BY DEF Init, GapsInRuns, Reading, Storing, Done, GapsAtRest, Whole, Gap
<1>5. BudgetKept
  <2>1. ASSUME NEW k \in Keyword, NEW e \in Throttled
        PROVE  Today(k, e) = 0 /\ Credit(k, e) = 0
    <3>1. \A r \in ErrorRow : rows[k][r] = 0
      BY <2>1 DEF Init
    <3>2. /\ <<"http403", TRUE>> \in ErrorRow
          /\ <<"bot", TRUE>> \in ErrorRow /\ <<"bot", FALSE>> \in ErrorRow
      BY DEF ErrorRow, ErrorKind
    <3>3. Credit(k, e) = 0
      BY <3>1, <3>2 DEF Credit, Paid
    <3>4. QED BY <2>1, <3>3 DEF Init, Today, Grant
  <2>2. MaxRetries \in Nat
    BY DEF RunAssumption
  <2>3. QED BY <2>1, <2>2 DEF Init, BudgetKept
<1>6. OneOvernight
  <2>1. <<"http403", TRUE>> \in Grant /\ <<"bot", TRUE>> \in Grant
    BY DEF Grant, Throttled
  <2>2. \A k \in Keyword : Overnight(k) = 0
    BY <2>1 DEF Init, Overnight
  <2>3. QED BY <2>2 DEF Init, OneOvernight
<1>7. QED BY <1>1, <1>2, <1>3, <1>4, <1>5, <1>6 DEF RunInv

-----------------------------------------------------------------------------
(* What the invariants say of the feed as it is listed *)

\* Article i of a feed is article n+1-i of its supply.
LEMMA FeedType ==
  ASSUME RunAssumption, Types, FeedIsSupply, NEW k \in Keyword
  PROVE  /\ Len(feed[k]) \in Nat /\ DOMAIN feed[k] = 1..Len(feed[k])
         /\ Len(Supply[k]) \in Nat /\ Len(feed[k]) <= Len(Supply[k])
         /\ \A i \in 1..Len(feed[k]) : feed[k][i] = Supply[k][Len(feed[k]) + 1 - i]
<1>1. feed[k] \in Seq(Url) /\ Supply[k] \in Seq(Url)
  BY DEF RunAssumption, Types, TypeOK
<1>2. QED BY <1>1 DEF FeedIsSupply

\* When no article is missing below a stored one in order of appearance, the feed
\* as it is read now, newest first, has no gap either.
LEMMA WholeIsNoGap ==
  ASSUME RunAssumption, Types, FeedIsSupply, NEW k \in Keyword, Whole(k)
  PROVE  NoGap(k)
<1>1. PICK n \in Nat : n = Len(feed[k])
  BY FeedType
<1>2. /\ DOMAIN feed[k] = 1..n /\ Len(Supply[k]) \in Nat /\ n <= Len(Supply[k])
      /\ \A i \in 1..n : feed[k][i] = Supply[k][n + 1 - i]
  BY <1>1, FeedType
<1>3. ASSUME NEW i \in 1..n, NEW j \in 1..n, i < j, feed[k][i] \in stored
      PROVE  feed[k][j] \in stored \cup Excluded
  <2>1. /\ n + 1 - j \in 1..Len(Supply[k]) /\ n + 1 - i \in 1..Len(Supply[k])
        /\ n + 1 - j < n + 1 - i
    BY <1>2, <1>3
  <2>2. ~Gap(k, n + 1 - j, n + 1 - i)
    BY <2>1 DEF Whole
  <2>3. QED BY <1>2, <1>3, <2>1, <2>2 DEF Gap
<1>4. QED BY <1>2, <1>3 DEF NoGap

\* What the invariant says of a run that may stop early is, in the order of the
\* feed, EarlyStopIsComplete.
LEMMA StopInFeed ==
  RunAssumption /\ CalmFeeds /\ RunInv => EarlyStopIsComplete
<1> SUFFICES ASSUME RunAssumption, CalmFeeds, RunInv,
                    NEW w \in Worker, pc[w] = "store", more[w], EarlyStop(w),
                    NEW i \in DOMAIN feed[kw[w]], NEW j \in DOMAIN feed[kw[w]],
                    j < i, feed[kw[w]][j] \in page[w]
             PROVE  feed[kw[w]][i] \in stored \cup Excluded
  BY DEF EarlyStopIsComplete
<1>1. Types /\ FeedIsSupply /\ Storing(w)
  BY DEF RunInv, GapsInRuns
<1>2. PICK k \in Keyword, n \in Nat, T \in Int :
        k = kw[w] /\ n = Len(feed[k]) /\ T = Depth(w)
  BY <1>1, DepthType
<1>3. /\ DOMAIN feed[k] = 1..n /\ Len(Supply[k]) \in Nat /\ n <= Len(Supply[k])
      /\ \A l \in 1..n : feed[k][l] = Supply[k][n + 1 - l]
  BY <1>1, <1>2, FeedType
<1>4. i \in 1..n /\ j \in 1..n /\ n + 1 - j \in 1..Len(Supply[k])
  BY <1>2, <1>3
<1>5. PICK m \in 1..Len(Supply[k]) : m = n + 1 - j
  BY <1>4
<1>6. m \in Window(T)
  <2>1. Supply[k][m] \in page[w]
    BY <1>2, <1>3, <1>4, <1>5
  <2>2. m \in Window(Depth(w))
    BY <1>1, <2>1, PageHolds
  <2>3. QED BY <1>2, <2>2
<1>7. n + 1 - i \in 1..T
  BY <1>2, <1>4, <1>5, <1>6 DEF Window
<1>8. QED BY <1>1, <1>2, <1>3, <1>4, <1>7, StopIsComplete

-----------------------------------------------------------------------------
(* Theorems *)

\* Types: in every reachable state, whatever fails.
THEOREM RunTypes == Spec => []TypeOK
<1>1. Init => Types
  BY TypeInit, RunAssumption
<1>2. Types /\ [Next]_vars => Types'
  BY TypeStep, RunAssumption
<1>3. Types => TypeOK
  BY DEF Types
<1>4. QED BY <1>1, <1>2, <1>3, PTL DEF Spec

\* A keyword put off by the retry delay has the flag that makes its next run a full
\* scan, once the run that put it off is past set_retry_pending(True): when that call
\* does not fail and no answer of reschedule is lost.  However short the retry delay.
THEOREM RetryScansInFull ==
  ASSUME RescheduleIsHeard PROVE Spec => []RetryIsFullScan
<1> DEFINE I == Types /\ OneFresh /\ RetryFlagged
<1>1. Init => I
  BY RunInit, RunAssumption DEF RunInv
<1>2. I /\ [Next]_vars => I'
  BY TypeStep, OneFreshStep, RetryStep, RunAssumption
<1>3. I => RetryIsFullScan
  BY DEF RetryFlagged, RetryIsFullScan
<1>4. QED BY <1>1, <1>2, <1>3, PTL DEF Spec

\* At most MaxRetries retries a day and kind of block, and one more for a run that
\* midnight has caught: when the error rows that the counts read are written, each
\* before the retry it was granted for begins.
THEOREM RetriesAreBounded ==
  ASSUME Prompt, ErrorRowIsWritten PROVE Spec => []RetryBudget
<1> DEFINE I == /\ Types /\ OneRun /\ OneFresh
                /\ BudgetKept /\ OneOvernight /\ LateRuns
<1>1. Init => I
  BY RunInit, RunAssumption DEF RunInv
<1>2. I /\ [Next]_vars => I'
  BY TypeStep, OneRunStep, OneFreshStep, BudgetStep, OvernightStep, RunAssumption
<1>3. I => RetryBudget
  BY DEF BudgetKept, Today, OneOvernight, Overnight, RetryBudget
<1>4. QED BY <1>1, <1>2, <1>3, PTL DEF Spec

\* A run that ends without success leaves its flag up, when the except clause
\* gets as far as setting it before another run of the keyword begins.
THEOREM BrokenRunsAreFlagged ==
  ASSUME Prompt, HandlerWorks PROVE Spec => BrokenRunIsFlagged
<1> DEFINE I == Types /\ OneRun /\ FlagUp
<1>1. Init => I
  BY RunInit, RunAssumption DEF RunInv
<1>2. I /\ [Next]_vars => I'
  BY TypeStep, OneRunStep, FlagStep, RunAssumption DEF HandlerWorks
<1>3. ASSUME I, [Next]_vars, NEW w \in Worker,
             kw[w] # None, kw'[w] = None, pc[w] # "log"
      PROVE  pending'[kw[w]]
  <2>1. kw \in [Worker -> Keyword \cup {None}] /\ None \notin Keyword
    BY <1>3, RunAssumption DEF Types, TypeOK, RunAssumption
  <2>2. PICK v \in Worker : Step(v) \/ Failure(v)
    BY <1>3, <2>1 DEF Next, RunNext, Claim, Publish, Midnight, FallDue, run, vars
  <2>3. Leave(v) /\ v = w /\ UNCHANGED pending
    <3>1. ASSUME Leave(v) PROVE v = w
      BY <1>3, <2>1, <3>1 DEF Leave
    <3>2. CASE Step(v)
      BY <1>3, <3>1, <3>2 DEF Step, Discover, Store, Clear, Log, Count, Reschedule,
           Flag, ErrLog, run, db
    <3>3. CASE Failure(v)
      BY <1>3, <3>1, <3>3, FailureCases DEF Breaks, EndsEarly, FlagFails, run
    <3>4. QED BY <2>2, <3>2, <3>3
  <2>4. pc[w] = "errlog"
    <3>1. CASE Step(w)
      BY <1>3, <2>1, <3>1 DEF Step, Discover, Store, Clear, Log, Count, Reschedule,
           Flag, ErrLog, run
    <3>2. CASE Failure(w)
      <4>1. FaultSites \cap {"flag", "death", "count", "reschedule"} = {}
        BY DEF HandlerWorks, FlagIsSet
      <4>2. QED BY <1>3, <3>2, <4>1, FailureCases DEF Breaks, EndsEarly, FlagFails, run
    <3>3. QED BY <2>2, <2>3, <3>1, <3>2
  <2>5. QED BY <1>3, <2>3, <2>4 DEF FlagUp
<1>4. I /\ [Next]_vars =>
        \A w \in Worker : kw[w] # None /\ kw'[w] = None /\ pc[w] # "log" => pending'[kw[w]]
  BY <1>3
<1>5. QED BY <1>1, <1>2, <1>4, PTL DEF Spec, BrokenRunIsFlagged

\* A keyword at rest with its flag down has its articles in one unbroken piece.
THEOREM FeedsHaveNoGap ==
  ASSUME Prompt, CalmFeeds, HandlerWorks PROVE Spec => []NoGapLeft
<1>1. Init => RunInv
  BY RunInit, RunAssumption
<1>2. RunInv /\ [Next]_vars => RunInv'
  BY GapStep, RunAssumption
<1>3. RunInv => NoGapLeft
  BY WholeIsNoGap, RunAssumption DEF RunInv, GapsAtRest, NoGapLeft
<1>4. QED BY <1>1, <1>2, <1>3, PTL DEF Spec

\* The early stop passes over nothing uncollected.
THEOREM EarlyStopsAreComplete ==
  ASSUME Prompt, CalmFeeds, HandlerWorks PROVE Spec => []EarlyStopIsComplete
<1>1. Init => RunInv
  BY RunInit, RunAssumption
<1>2. RunInv /\ [Next]_vars => RunInv'
  BY GapStep, RunAssumption
<1>3. RunInv => EarlyStopIsComplete
  BY StopInFeed, RunAssumption
<1>4. QED BY <1>1, <1>2, <1>3, PTL DEF Spec
=============================================================================
