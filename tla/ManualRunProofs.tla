--------------------------- MODULE ManualRunProofs ---------------------------
(***************************************************************************)
(* Theorems about ManualRun: the invariants of DiscoveryRunProofs, kept by *)
(* the scripts as well as by the workers, and what a script's scan of all  *)
(* the pages has found.                                                    *)
(***************************************************************************)
EXTENDS ManualRun, DiscoveryRunProofs

-----------------------------------------------------------------------------
(* The inductive invariants *)

\* A script that runs has a page limit and a page; one that does not holds no
\* claim.
ScriptTypes ==
  /\ ManualTypeOK
  /\ \A s \in Script :
       /\ script[s].at # "ended" => script[s].limit \in PageLimits /\ script[s].page >= 1
       /\ script[s].claimed => script[s].at # "ended"

\* What a script took from the schedule stays put off, and no run of a worker is
\* still to reschedule it.
ClaimIsPutOff ==
  \A s \in Script : script[s].claimed =>
    /\ sched[script[s].kw] = "interval"
    /\ \A w \in Worker : Fresh(w) => kw[w] # script[s].kw

\* When runs end before their retry delay does, nobody else has it.
ClaimIsExclusive ==
  \A s \in Script : script[s].claimed =>
    /\ sched[script[s].kw] = "interval"
    /\ Holders(script[s].kw) = {}
    /\ \A t \in Claimers(script[s].kw) : t = s

ManualTypes == Types /\ ScriptTypes

Claims == ManualTypes /\ OneRun /\ ClaimIsExclusive

\* Article m of its keyword's supply is among what s has found.
Found(s, m) ==
  /\ m \in 1..Len(Supply[script[s].kw])
  /\ Supply[script[s].kw][m] \in script[s].found

\* How many articles the feed has from the page of s down.
Ahead(s) == Len(feed[script[s].kw]) - (script[s].page - 1) * PageSize

\* A scan has found nothing but what its feed lists.
Listed(s) == script[s].at \in {"scan", "store"} =>
  \A u \in script[s].found :
    \E m \in 1..Len(feed[script[s].kw]) : u = Supply[script[s].kw][m]

\* Between two pages everything is found that lies below something found and
\* above the next page.  (Right after a burst of articles the next page may lie
\* above the last one; then there is a hole, which the pages to come fill.)  A
\* claimed scan is past the lower end of no gap.
Scanning(s) == script[s].at = "scan" =>
  /\ script[s].page = 1 => script[s].found = {}
  /\ script[s].claimed /\ script[s].page > 1 =>
       \A j, m \in 1..Len(Supply[script[s].kw]) : Gap(script[s].kw, j, m) =>
         \E h \in j..Len(Supply[script[s].kw]) : Found(s, h)
  /\ \A l, m \in 1..Len(Supply[script[s].kw]) :
       l < m /\ Found(s, m) /\ Ahead(s) < l => Found(s, l)

\* After the last page everything below something found is found, and a claimed
\* scan has found what its keyword's gaps miss.
Keeping(s) == script[s].at = "store" =>
  /\ script[s].claimed =>
       \A j, m \in 1..Len(Supply[script[s].kw]) :
         Gap(script[s].kw, j, m) => Found(s, j)
  /\ \A l, m \in 1..Len(Supply[script[s].kw]) :
       l < m /\ Found(s, m) => Found(s, l)

Cleared(s) == script[s].at \in {"clear", "log"} => Whole(script[s].kw)

ScanInv(s) == Listed(s) /\ Scanning(s) /\ Keeping(s) /\ Cleared(s)

ManualInv == Claims /\ RunInv /\ \A s \in Script : ScanInv(s)

-----------------------------------------------------------------------------
(* Types *)

\* No script runs at first.
LEMMA ScriptTypeInit ==
  RunAssumption /\ ManualAssumption /\ ManualInit => Claims /\ ClaimIsPutOff
<1> SUFFICES ASSUME RunAssumption, ManualAssumption, ManualInit
             PROVE  Claims /\ ClaimIsPutOff
  OBVIOUS
<1>1. Types /\ OneRun
  BY RunInit DEF ManualInit, RunInv
<1>2. ScriptTypes
  BY <1>1 DEF ManualInit, Ended, ScriptTypes, ManualTypeOK, ManualAssumption, Types
<1>3. ClaimIsExclusive /\ ClaimIsPutOff
  BY DEF ManualInit, Ended, ClaimIsExclusive, ClaimIsPutOff
<1>4. QED BY <1>1, <1>2, <1>3 DEF Claims, ManualTypes

\* A script that fails lets its call be rolled back, or stores or clears unheard.
LEMMA TryCases ==
  ASSUME NEW s \in Script, TryFails(s)
  PROVE  /\ script[s].claimed
         /\ UNCHANGED <<feed, sched, rows, retries, pc, run, bound, manual>>
         /\ \/ /\ \E at \in {"scan", "store", "clear", "log"} : Proceed(s, at, "flag")
               /\ UNCHANGED <<stored, pending>>
            \/ Proceed(s, "store", "flag") /\ StoreFound(s) /\ UNCHANGED pending
            \/ Proceed(s, "clear", "flag") /\ SetFlag(s, FALSE) /\ UNCHANGED stored
  BY DEF TryFails

\* A step of ManualNext is one of the workers', with the scripts at rest; or it
\* is one of a script that leaves the workers' variables alone; or it is one of
\* the five that may not.
LEMMA ManualCases ==
  ASSUME [ManualNext]_allVars
  PROVE  \/ [RunNext]_vars /\ UNCHANGED scriptVars
         \/ \E k \in Keyword : FallDueAgain(k)
         \/ \E s \in Script :
              \/ /\ UNCHANGED vars
                 /\ \/ \E k \in Keyword : StartGiven(s, k)
                    \/ ScanPage(s) \/ LogRow(s) \/ Interrupt(s)
              \/ \E k \in Keyword : StartClaimed(s, k)
              \/ StoreAll(s) \/ ClearFlag(s) \/ RaiseFlag(s) \/ TryFails(s)
  BY DEF ManualNext, allVars, ScriptStep, StartGiven, ScanPage, LogRow, Interrupt

\* A page of a feed, as the script sees it.
LEMMA SeenType ==
  ASSUME RunAssumption, ManualTypes, NEW s \in Script, script[s].at = "scan"
  PROVE  /\ script[s].kw \in Keyword
         /\ Seen(feed[script[s].kw], script[s].page) \subseteq Url
<1>1. /\ script[s].kw \in Keyword /\ feed[script[s].kw] \in Seq(Url)
      /\ script[s].page \in Nat /\ script[s].page >= 1
  BY DEF ManualTypes, Types, TypeOK, ScriptTypes, ManualTypeOK
<1>2. QED BY <1>1, PageType DEF Seen

\* Every step keeps the types of the workers' variables.
LEMMA WorkerTypeStep ==
  RunAssumption /\ ManualTypes /\ [ManualNext]_allVars => Types'
<1> SUFFICES ASSUME RunAssumption, ManualTypes, [ManualNext]_allVars PROVE Types'
  OBVIOUS
<1>1. Types /\ ScriptTypes
  BY DEF ManualTypes
<1>2. ASSUME [Next]_vars PROVE Types'
  BY <1>1, <1>2, TypeStep
<1>3. ASSUME NEW s \in Script, NEW k \in Keyword, StartClaimed(s, k) PROVE Types'
  <2>1. /\ sched' = [sched EXCEPT ![k] = "interval"]
        /\ UNCHANGED <<feed, stored, pending, rows, retries, pc, run, bound>>
    BY <1>3 DEF StartClaimed
  <2>2. TypeOK'
    BY <1>1, <2>1 DEF Types, TypeOK, run, bound
  <2>3. Cursor'
    BY <1>1, <2>1 DEF Types, Cursor, run
  <2>4. QED BY <2>2, <2>3 DEF Types
<1>4. ASSUME UNCHANGED <<feed, sched, rows, retries, pc, run, bound>>,
             stored' \subseteq Url, pending' \in [Keyword -> BOOLEAN]
      PROVE  Types'
  BY <1>1, <1>4 DEF Types, TypeOK, Cursor, run, bound
<1>5. stored \subseteq Url /\ pending \in [Keyword -> BOOLEAN]
  BY <1>1 DEF Types, TypeOK
<1>6. ASSUME NEW s \in Script, NEW b \in BOOLEAN, SetFlag(s, b)
      PROVE  pending' \in [Keyword -> BOOLEAN]
  BY <1>5, <1>6 DEF SetFlag
<1>7. ASSUME NEW s \in Script, StoreFound(s) PROVE stored' \subseteq Url
  <2>1. script[s].found \subseteq Url
    BY <1>1 DEF ScriptTypes, ManualTypeOK
  <2>2. QED BY <1>5, <1>7, <2>1 DEF StoreFound
<1>8. ASSUME NEW s \in Script, ClearFlag(s) \/ RaiseFlag(s) PROVE Types'
  BY <1>4, <1>5, <1>6, <1>8 DEF ClearFlag, RaiseFlag
<1>9. ASSUME NEW s \in Script, StoreAll(s) PROVE Types'
  BY <1>4, <1>5, <1>7, <1>9 DEF StoreAll
<1>10. ASSUME NEW s \in Script, TryFails(s) PROVE Types'
  BY <1>4, <1>5, <1>6, <1>7, <1>10, TryCases
<1>11. QED
  BY <1>2, <1>3, <1>8, <1>9, <1>10, ManualCases DEF Next, FallDueAgain

\* Every step keeps the types of the scripts.
LEMMA ScriptTypeStep ==
  /\ RunAssumption /\ ManualAssumption /\ ManualTypes /\ [ManualNext]_allVars
  => ManualTypes'
<1> SUFFICES ASSUME RunAssumption, ManualAssumption, ManualTypes, [ManualNext]_allVars
             PROVE  ScriptTypes'
  BY WorkerTypeStep DEF ManualTypes
<1>1. TypeOK' /\ ScriptTypes
  BY WorkerTypeStep DEF ManualTypes, Types
<1> DEFINE Process ==
      [at : {"ended", "scan", "store", "clear", "log", "flag"},
       kw : Keyword \cup {None}, claimed : BOOLEAN,
       limit : PageLimits \cup {0}, page : Nat, found : SUBSET Url]
    Sound(r) ==
      /\ r \in Process
      /\ r.at = "ended" <=> r.kw = None
      /\ r.at \in {"clear", "log", "flag"} => r.claimed
      /\ r.at # "ended" => r.limit \in PageLimits /\ r.page >= 1
      /\ r.claimed => r.at # "ended"
<1>2. /\ script \in [Script -> Process] /\ manual \in 0..MaxManual
      /\ \A s \in Script : Sound(script[s])
  BY <1>1 DEF ScriptTypes, ManualTypeOK
<1>3. Sound(Ended)
  BY DEF Ended
<1>4. ASSUME NEW s \in Script, NEW r, Sound(r), script' = [script EXCEPT ![s] = r],
             manual' \in 0..MaxManual
      PROVE  ScriptTypes'
  <2>1. script' \in [Script -> Process] /\ \A t \in Script : Sound(script'[t])
    BY <1>2, <1>4
  <2>2. QED BY <1>1, <1>4, <2>1 DEF ScriptTypes, ManualTypeOK
<1>5. ASSUME NEW s \in Script, Exit(s), UNCHANGED manual PROVE ScriptTypes'
  BY <1>2, <1>3, <1>4, <1>5 DEF Exit
<1>6. ASSUME NEW s \in Script, NEW from, NEW to, Proceed(s, from, to), UNCHANGED manual,
             from # "ended", to \in {"clear", "log", "flag"}, script[s].claimed
      PROVE  ScriptTypes'
  <2> DEFINE r == [script[s] EXCEPT !.at = to]
  <2>1. script' = [script EXCEPT ![s] = r]
    BY <1>2, <1>6 DEF Proceed
  <2>2. script[s] \in Process /\ script[s].at # "ended"
    BY <1>2, <1>6 DEF Proceed
  <2>3. /\ r \in Process /\ r.at = to /\ r.kw = script[s].kw
        /\ r.claimed = script[s].claimed /\ r.limit = script[s].limit
        /\ r.page = script[s].page
    BY <1>6, <2>2
  <2> HIDE DEF r, Process
  <2>4. Sound(r)
    <3>1. r.claimed
      BY <1>6, <2>3
    <3>2. r.at # "ended" /\ r.kw # None
      BY <1>2, <1>6, <2>2, <2>3
    <3>3. r.limit \in PageLimits /\ r.page >= 1
      BY <1>2, <2>2, <2>3
    <3>4. QED BY <2>3, <3>1, <3>2, <3>3
  <2>5. QED BY <1>2, <1>4, <1>6, <2>1, <2>4 DEF r
<1>7. ASSUME NEW s \in Script, NEW k \in Keyword, NEW claimed \in BOOLEAN,
             Launch(s, k, claimed)
      PROVE  ScriptTypes'
  <2>1. PICK n \in PageLimits :
          script' = [script EXCEPT ![s] = [at |-> "scan", kw |-> k,
                                           claimed |-> claimed, limit |-> n,
                                           page |-> 1, found |-> {}]]
    BY <1>7 DEF Launch
  <2> DEFINE r == [at |-> "scan", kw |-> k, claimed |-> claimed, limit |-> n,
                   page |-> 1, found |-> {}]
  <2>2. Sound(r)
    BY DEF RunAssumption
  <2>3. manual' \in 0..MaxManual
    BY <1>2, <1>7 DEF Launch, ManualAssumption
  <2>4. QED BY <1>4, <2>1, <2>2, <2>3
<1>8. ASSUME NEW s \in Script, ScanPage(s) PROVE ScriptTypes'
  <2>1. /\ script[s].at = "scan" /\ UNCHANGED manual
        /\ \E a \in {"scan", "store"}, p \in {script[s].page, script[s].page + 1} :
             script' = [script EXCEPT ![s].found = @ \cup Seen(feed[script[s].kw], script[s].page),
                                      ![s].at = a, ![s].page = p]
    BY <1>8 DEF ScanPage
  <2>2. PICK a \in {"scan", "store"}, p \in {script[s].page, script[s].page + 1} :
          script' = [script EXCEPT ![s].found = @ \cup Seen(feed[script[s].kw], script[s].page),
                                   ![s].at = a, ![s].page = p]
    BY <2>1
  <2> DEFINE r == [script[s] EXCEPT !.found = @ \cup Seen(feed[script[s].kw], script[s].page),
                                    !.at = a, !.page = p]
  <2>3. script' = [script EXCEPT ![s] = r]
    BY <1>2, <2>2
  <2>4. script[s] \in Process /\ p \in Nat /\ p >= 1
    BY <1>2, <2>1
  <2>5. Seen(feed[script[s].kw], script[s].page) \subseteq Url
    BY <2>1, SeenType
  <2>6. Sound(r)
    BY <1>2, <2>1, <2>4, <2>5
  <2>7. QED BY <1>2, <1>4, <2>1, <2>3, <2>6
<1>9. ASSUME NEW s \in Script,
             StoreAll(s) \/ ClearFlag(s) \/ RaiseFlag(s) \/ LogRow(s) \/ TryFails(s) \/ Interrupt(s)
      PROVE  ScriptTypes'
  <2>1. UNCHANGED manual
    BY <1>9 DEF StoreAll, ClearFlag, RaiseFlag, LogRow, TryFails, Interrupt
  <2>2. \/ Exit(s)
        \/ \E from, to : /\ Proceed(s, from, to) /\ from # "ended"
                         /\ to \in {"clear", "log", "flag"} /\ script[s].claimed
    BY <1>2, <1>9 DEF StoreAll, ClearFlag, RaiseFlag, LogRow, TryFails, Interrupt, Proceed
  <2>3. QED BY <1>5, <1>6, <2>1, <2>2
<1>10. CASE UNCHANGED scriptVars
  BY <1>1, <1>10 DEF scriptVars, ScriptTypes, ManualTypeOK
<1>11. QED
  BY <1>7, <1>8, <1>9, <1>10, ManualCases DEF FallDueAgain, StartGiven, StartClaimed

-----------------------------------------------------------------------------
(* A claimed keyword is the script's alone *)

\* The workers leave a keyword alone that is put off and has no run.
LEMMA RestKept ==
  ASSUME RunAssumption, Types, [RunNext]_vars,
         NEW k \in Keyword, sched[k] = "interval", Holders(k) = {}
  PROVE  sched'[k] = "interval" /\ Holders(k)' = {}
<1> USE DEF db, run, bound
<1>1. /\ sched \in [Keyword -> {"due", "interval", "retry"}]
      /\ kw \in [Worker -> Keyword \cup {None}]
      /\ \A w \in Worker : kw[w] # k /\ (pc[w] # "idle" => kw[w] \in Keyword)
  BY DEF Types, TypeOK, Holders
<1>2. ASSUME sched' = sched, kw' = kw PROVE sched'[k] = "interval" /\ Holders(k)' = {}
  BY <1>1, <1>2 DEF Holders
<1>3. ASSUME NEW w \in Worker, Leave(w), sched' = sched
      PROVE  sched'[k] = "interval" /\ Holders(k)' = {}
  BY <1>1, <1>3 DEF Leave, Holders, RunAssumption
<1>4. ASSUME NEW w \in Worker, NEW l \in Keyword, Claim(w, l)
      PROVE  sched'[k] = "interval" /\ Holders(k)' = {}
  BY <1>1, <1>4 DEF Claim, Holders
<1>5. ASSUME NEW w \in Worker, Step(w)
      PROVE  sched'[k] = "interval" /\ Holders(k)' = {}
  <2>1. CASE Reschedule(w)
    BY <1>1, <2>1 DEF Reschedule, PutOff, Goto, Holders
  <2>2. CASE Log(w) \/ ErrLog(w)
    BY <1>3, <2>2 DEF Log, ErrLog
  <2>3. CASE Discover(w) \/ Store(w) \/ Clear(w) \/ Count(w) \/ Flag(w)
    BY <1>2, <2>3 DEF Discover, Store, Clear, Count, Flag
  <2>4. QED BY <1>5, <2>1, <2>2, <2>3 DEF Step
<1>6. ASSUME NEW w \in Worker, Failure(w)
      PROVE  sched'[k] = "interval" /\ Holders(k)' = {}
  <2>1. CASE pc[w] = "reschedule" /\ PutOff(w) /\ Leave(w)
    BY <1>1, <2>1 DEF PutOff, Leave, Holders, RunAssumption
  <2>2. QED BY <1>2, <1>3, <1>6, <2>1, FailureCases DEF Breaks, EndsEarly, FlagFails
<1>7. CASE Midnight \/ (\E l \in Keyword : Publish(l)) \/ UNCHANGED vars
  BY <1>2, <1>7 DEF Midnight, Publish, vars
<1>8. QED BY <1>4, <1>5, <1>6, <1>7 DEF RunNext

\* They do so as well when the runs it has are past their reschedule.
LEMMA PutOffKept ==
  ASSUME RunAssumption, Types, [RunNext]_vars,
         NEW k \in Keyword, sched[k] = "interval",
         \A w \in Worker : Fresh(w) => kw[w] # k
  PROVE  /\ sched'[k] = "interval"
         /\ \A w \in Worker : Fresh(w)' => kw'[w] # k
<1> USE DEF db, run, bound
<1> DEFINE Kept == /\ sched'[k] = "interval"
                   /\ \A w \in Worker : Fresh(w)' => kw'[w] # k
<1>1. /\ sched \in [Keyword -> {"due", "interval", "retry"}]
      /\ kw \in [Worker -> Keyword \cup {None}]
      /\ pc \in [Worker -> {"idle", "discover", "store", "clear", "log", "count",
                            "reschedule", "flag", "errlog"}]
      /\ \A w \in Worker : pc[w] # "idle" => kw[w] \in Keyword
  BY DEF Types, TypeOK
<1>2. ASSUME NEW w \in Worker, NEW p, UNCHANGED <<sched, kw>>,
             pc' = [pc EXCEPT ![w] = p],
             pc[w] \in {"flag", "errlog"} => p \in {"flag", "errlog"}
      PROVE  Kept
  BY <1>1, <1>2 DEF Fresh
<1>3. ASSUME NEW w \in Worker, Leave(w), sched' = sched PROVE Kept
  BY <1>1, <1>3 DEF Leave, Fresh
<1>4. ASSUME NEW w \in Worker, pc[w] = "reschedule", PutOff(w),
             \/ pc' = [pc EXCEPT ![w] = "flag"] /\ UNCHANGED kw
             \/ Leave(w)
      PROVE  Kept
  <2>1. kw[w] \in Keyword /\ kw[w] # k
    BY <1>1, <1>4 DEF Fresh, RunAssumption
  <2>2. QED BY <1>1, <1>4, <2>1 DEF PutOff, Leave, Fresh
<1>5. ASSUME NEW w \in Worker, NEW l \in Keyword, Claim(w, l) PROVE Kept
  BY <1>1, <1>5 DEF Claim, Goto, Fresh
<1>6. ASSUME NEW w \in Worker, Step(w) PROVE Kept
  <2>1. CASE Reschedule(w)
    BY <1>4, <2>1 DEF Reschedule, Goto
  <2>2. CASE Log(w) \/ ErrLog(w)
    BY <1>3, <2>2 DEF Log, ErrLog
  <2>3. CASE Discover(w) \/ Store(w) \/ Clear(w) \/ Count(w) \/ Flag(w)
    <3>1. /\ UNCHANGED <<sched, kw>>
          /\ \E p :
               /\ pc' = [pc EXCEPT ![w] = p]
               /\ pc[w] \in {"flag", "errlog"} => p \in {"flag", "errlog"}
      BY <2>3 DEF Discover, Store, Clear, Count, Flag, Goto
    <3>2. QED BY <1>2, <3>1
  <2>4. QED BY <1>6, <2>1, <2>2, <2>3 DEF Step
<1>7. ASSUME NEW w \in Worker, Failure(w) PROVE Kept
  <2>1. CASE Breaks(w)
    <3>1. PICK p \in {"count", "flag"} : pc' = [pc EXCEPT ![w] = p]
      BY <2>1 DEF Breaks
    <3>2. QED BY <1>2, <2>1, <3>1 DEF Breaks
  <2>2. CASE FlagFails(w)
    <3>1. UNCHANGED <<sched, kw>> /\ pc' = [pc EXCEPT ![w] = "errlog"]
      BY <2>2 DEF FlagFails, Goto
    <3>2. QED BY <1>2, <3>1
  <2>3. CASE EndsEarly(w)
    BY <1>3, <1>4, <2>3 DEF EndsEarly
  <2>4. QED BY <1>7, <2>1, <2>2, <2>3, FailureCases
<1>8. CASE Midnight \/ (\E l \in Keyword : Publish(l)) \/ UNCHANGED vars
  BY <1>8 DEF Midnight, Publish, vars, Fresh
<1>9. QED BY <1>5, <1>6, <1>7, <1>8 DEF RunNext

\* What a step of one script does to the scripts: s is left alone, ends, or keeps
\* its keyword and its claim; only StartGiven and StartClaimed give it new ones.
LEMMA ScriptFrame ==
  ASSUME ManualTypes, NEW s \in Script, NEW t \in Script,
         ScanPage(s) \/ LogRow(s) \/ TryFails(s) \/ Interrupt(s) \/ StoreAll(s)
           \/ ClearFlag(s) \/ RaiseFlag(s)
  PROVE  \/ script'[t] = script[t]
         \/ script'[t] = Ended
         \/ /\ script'[t].kw = script[t].kw
            /\ script'[t].claimed = script[t].claimed
<1>1. /\ script \in [Script ->
           [at : {"ended", "scan", "store", "clear", "log", "flag"},
            kw : Keyword \cup {None}, claimed : BOOLEAN,
            limit : PageLimits \cup {0}, page : Nat, found : SUBSET Url]]
  BY DEF ManualTypes, ScriptTypes, ManualTypeOK
<1>2. ASSUME Exit(s) PROVE script'[t] = script[t] \/ script'[t] = Ended
  BY <1>1, <1>2 DEF Exit
<1>3. ASSUME NEW from, NEW to, Proceed(s, from, to)
      PROVE  /\ script'[t].kw = script[t].kw
             /\ script'[t].claimed = script[t].claimed
  BY <1>1, <1>3 DEF Proceed
<1>4. ASSUME ScanPage(s)
      PROVE  /\ script'[t].kw = script[t].kw
             /\ script'[t].claimed = script[t].claimed
  BY <1>1, <1>4 DEF ScanPage
<1>5. QED
  BY <1>2, <1>3, <1>4 DEF LogRow, TryFails, Interrupt, StoreAll, ClearFlag, RaiseFlag

\* Every step keeps the claims exclusive.
LEMMA ClaimsStep ==
  /\ RunAssumption /\ ManualAssumption /\ Prompt /\ Claims /\ [ManualNext]_allVars
  => Claims'
<1> SUFFICES ASSUME RunAssumption, ManualAssumption, Prompt, Claims,
                    [ManualNext]_allVars
             PROVE  OneRun' /\ ClaimIsExclusive'
  BY ScriptTypeStep DEF Claims
<1>1. /\ Types /\ OneRun /\ ClaimIsExclusive /\ ManualTypes
      /\ \A s \in Script : script[s].claimed => script[s].kw \in Keyword
      /\ sched \in [Keyword -> {"due", "interval", "retry"}]
      /\ DOMAIN script = Script
      /\ \A w \in Worker : pc[w] # "idle" <=> kw[w] # None
      /\ kw \in [Worker -> Keyword \cup {None}]
  BY DEF Claims, ManualTypes, ScriptTypes, ManualTypeOK, Types, TypeOK
<1>2. CASE [RunNext]_vars /\ UNCHANGED scriptVars
  <2>1. OneRun'
    BY <1>1, <1>2, OneRunStep DEF Next
  <2>2. ASSUME NEW s \in Script, script[s].claimed
        PROVE  sched'[script[s].kw] = "interval" /\ Holders(script[s].kw)' = {}
    <3>1. PICK k \in Keyword : k = script[s].kw
      BY <1>1, <2>2
    <3>2. sched[k] = "interval" /\ Holders(k) = {}
      BY <1>1, <2>2, <3>1 DEF ClaimIsExclusive
    <3>3. sched'[k] = "interval" /\ Holders(k)' = {}
      BY <1>1, <1>2, <3>2, RestKept
    <3>4. QED BY <1>2, <3>1, <3>3 DEF scriptVars, Holders
  <2>3. script' = script
    BY <1>2 DEF scriptVars
  <2>4. ClaimIsExclusive'
    BY <1>1, <2>2, <2>3 DEF ClaimIsExclusive, Claimers, Holders
  <2>5. QED BY <2>1, <2>4
<1>3. ASSUME NEW k \in Keyword, FallDueAgain(k) PROVE OneRun' /\ ClaimIsExclusive'
  <2>1. OneRun'
    BY <1>1, <1>3, OneRunStep DEF Next, FallDueAgain
  <2>2. /\ sched' = [sched EXCEPT ![k] = "due"] /\ UNCHANGED <<script, kw>>
        /\ Claimers(k) = {}
    BY <1>3 DEF FallDueAgain, FallDue, scriptVars, run
  <2>3. QED BY <1>1, <2>1, <2>2 DEF ClaimIsExclusive, Claimers, Holders
<1>4. ASSUME UNCHANGED <<sched, kw, pc>> PROVE OneRun'
  BY <1>1, <1>4 DEF OneRun
<1>5. ASSUME NEW s \in Script, NEW k \in Keyword, StartClaimed(s, k)
      PROVE  OneRun' /\ ClaimIsExclusive'
  <2>1. /\ sched[k] = "due" /\ sched' = [sched EXCEPT ![k] = "interval"]
        /\ UNCHANGED <<kw, pc>>
        /\ script'[s].kw = k
        /\ \A t \in Script : t # s => script'[t] = script[t]
    BY <1>1, <1>5 DEF StartClaimed, Launch, run
  <2>2. OneRun'
    BY <1>1, <2>1 DEF OneRun
  <2>3. Holders(k) = {} /\ Claimers(k) = {}
    BY <1>1, <2>1 DEF OneRun, ClaimIsExclusive, Holders, Claimers, RunAssumption
  <2>4. ClaimIsExclusive'
    BY <1>1, <2>1, <2>3 DEF ClaimIsExclusive, Holders, Claimers
  <2>5. QED BY <2>2, <2>4
<1>6. ASSUME NEW s \in Script, NEW k \in Keyword, StartGiven(s, k)
      PROVE  OneRun' /\ ClaimIsExclusive'
  <2>1. /\ UNCHANGED <<sched, kw, pc>> /\ ~script'[s].claimed
        /\ \A t \in Script : t # s => script'[t] = script[t]
    BY <1>1, <1>6 DEF StartGiven, Launch, vars, db, run
  <2>2. QED BY <1>1, <1>4, <2>1 DEF ClaimIsExclusive, Holders, Claimers
<1>7. ASSUME NEW s \in Script,
             ScanPage(s) \/ LogRow(s) \/ TryFails(s) \/ Interrupt(s) \/ StoreAll(s)
               \/ ClearFlag(s) \/ RaiseFlag(s)
      PROVE  OneRun' /\ ClaimIsExclusive'
  <2>1. UNCHANGED <<sched, kw, pc>>
    BY <1>7 DEF ScanPage, LogRow, TryFails, Interrupt, StoreAll, ClearFlag, RaiseFlag,
       vars, db, run
  <2>2. ASSUME NEW t \in Script, script'[t].claimed
        PROVE  script[t].claimed /\ script'[t].kw = script[t].kw
    <3>1. script'[t] # Ended
      BY <2>2 DEF Ended
    <3>2. QED BY <1>1, <1>7, <2>2, <3>1, ScriptFrame
  <2>3. QED BY <1>1, <1>4, <2>1, <2>2 DEF ClaimIsExclusive, Holders, Claimers
<1>8. QED BY <1>2, <1>3, <1>5, <1>6, <1>7, ManualCases

\* However short the retry delay, what a script has claimed stays put off.
LEMMA ClaimsPutOffStep ==
  /\ RunAssumption /\ ManualAssumption /\ ManualTypes /\ OneFresh /\ ClaimIsPutOff
  /\ [ManualNext]_allVars
  => OneFresh' /\ ClaimIsPutOff'
<1> SUFFICES ASSUME RunAssumption, ManualAssumption, ManualTypes, OneFresh,
                    ClaimIsPutOff, [ManualNext]_allVars
             PROVE  OneFresh' /\ ClaimIsPutOff'
  OBVIOUS
<1>1. /\ Types
      /\ \A s \in Script : script[s].claimed => script[s].kw \in Keyword
      /\ sched \in [Keyword -> {"due", "interval", "retry"}]
      /\ DOMAIN script = Script
      /\ \A w \in Worker : Fresh(w) => kw[w] \in Keyword
  BY DEF ManualTypes, ScriptTypes, ManualTypeOK, Types, TypeOK, Fresh
<1>2. CASE [RunNext]_vars /\ UNCHANGED scriptVars
  <2>1. OneFresh'
    BY <1>1, <1>2, OneFreshStep DEF Next
  <2>2. ASSUME NEW s \in Script, script[s].claimed
        PROVE  /\ sched'[script[s].kw] = "interval"
               /\ \A w \in Worker : Fresh(w)' => kw'[w] # script[s].kw
    <3>1. PICK k \in Keyword : k = script[s].kw
      BY <1>1, <2>2
    <3>2. sched[k] = "interval" /\ \A w \in Worker : Fresh(w) => kw[w] # k
      BY <2>2, <3>1 DEF ClaimIsPutOff
    <3>3. sched'[k] = "interval" /\ \A w \in Worker : Fresh(w)' => kw'[w] # k
      BY <1>1, <1>2, <3>2, PutOffKept
    <3>4. QED BY <3>1, <3>3
  <2>3. QED BY <1>2, <2>1, <2>2 DEF ClaimIsPutOff, scriptVars
<1>3. ASSUME NEW k \in Keyword, FallDueAgain(k) PROVE OneFresh' /\ ClaimIsPutOff'
  <2>1. OneFresh'
    BY <1>1, <1>3, OneFreshStep DEF Next, FallDueAgain
  <2>2. /\ sched' = [sched EXCEPT ![k] = "due"] /\ UNCHANGED <<script, kw, pc>>
        /\ Claimers(k) = {}
    BY <1>3 DEF FallDueAgain, FallDue, scriptVars, run
  <2>3. QED BY <1>1, <2>1, <2>2 DEF ClaimIsPutOff, Claimers, Fresh
<1>4. ASSUME NEW s \in Script, NEW k \in Keyword, StartClaimed(s, k)
      PROVE  OneFresh' /\ ClaimIsPutOff'
  <2>1. /\ sched[k] = "due" /\ sched' = [sched EXCEPT ![k] = "interval"]
        /\ UNCHANGED <<kw, pc>>
        /\ script'[s].kw = k
        /\ \A t \in Script : t # s => script'[t] = script[t]
    BY <1>1, <1>4 DEF StartClaimed, Launch, run
  <2>2. \A w \in Worker : Fresh(w)' <=> Fresh(w)
    BY <2>1 DEF Fresh
  <2>3. OneFresh'
    BY <1>1, <2>1, <2>2 DEF OneFresh
  <2>4. \A w \in Worker : Fresh(w) => kw[w] # k
    BY <2>1 DEF OneFresh
  <2>5. ClaimIsPutOff'
    BY <1>1, <2>1, <2>2, <2>4 DEF ClaimIsPutOff
  <2>6. QED BY <2>3, <2>5
<1>5. ASSUME UNCHANGED <<sched, kw, pc>>,
             \A t \in Script : script'[t].claimed =>
               script[t].claimed /\ script'[t].kw = script[t].kw
      PROVE  OneFresh' /\ ClaimIsPutOff'
  BY <1>5 DEF OneFresh, ClaimIsPutOff, Fresh
<1>6. ASSUME NEW s \in Script, NEW k \in Keyword, StartGiven(s, k)
      PROVE  OneFresh' /\ ClaimIsPutOff'
  <2>1. /\ UNCHANGED <<sched, kw, pc>> /\ ~script'[s].claimed
        /\ \A t \in Script : t # s => script'[t] = script[t]
    BY <1>1, <1>6 DEF StartGiven, Launch, vars, db, run
  <2>2. QED BY <1>5, <2>1
<1>7. ASSUME NEW s \in Script,
             ScanPage(s) \/ LogRow(s) \/ TryFails(s) \/ Interrupt(s) \/ StoreAll(s)
               \/ ClearFlag(s) \/ RaiseFlag(s)
      PROVE  OneFresh' /\ ClaimIsPutOff'
  <2>1. UNCHANGED <<sched, kw, pc>>
    BY <1>7 DEF ScanPage, LogRow, TryFails, Interrupt, StoreAll, ClearFlag, RaiseFlag,
       vars, db, run
  <2>2. ASSUME NEW t \in Script, script'[t].claimed
        PROVE  script[t].claimed /\ script'[t].kw = script[t].kw
    <3>1. script'[t] # Ended
      BY <2>2 DEF Ended
    <3>2. QED BY <1>7, <2>2, <3>1, ScriptFrame
  <2>3. QED BY <1>5, <2>1, <2>2
<1>8. QED BY <1>2, <1>3, <1>4, <1>6, <1>7, ManualCases

-----------------------------------------------------------------------------
(* The scans *)

\* A feed never shrinks, and the workers store nothing of a feed that none of
\* them reads.
LEMMA FeedGrows ==
  ASSUME RunAssumption, CalmFeeds, RunInv, [Next]_vars, NEW k \in Keyword
  PROVE  Len(feed'[k]) \in Nat /\ Len(feed'[k]) >= Len(feed[k])
<1>1. feed[k] \in Seq(Url) /\ feed \in [Keyword -> Seq(Url)]
  BY DEF RunInv, Types, TypeOK
<1>2. CASE feed' = feed
  BY <1>1, <1>2
<1>3. ASSUME NEW l \in Keyword, Publish(l)
      PROVE  Len(feed'[k]) \in Nat /\ Len(feed'[k]) >= Len(feed[k])
  <2> DEFINE u == Supply[l][Len(feed[l]) + 1]
  <2>1. feed' = [feed EXCEPT ![l] = <<u>> \o feed[l]]
    BY <1>3 DEF Publish, Insertions, CalmFeeds
  <2>2. u \in Url
    <3>1. Supply[l] \in Seq(Url) /\ Len(feed[l]) + 1 \in 1..Len(Supply[l])
      BY <1>1, <1>3 DEF Publish, RunAssumption, RunInv, Types, TypeOK
    <3>2. QED BY <3>1
  <2> HIDE DEF u
  <2>3. CASE k = l
    <3>1. feed'[k] = <<u>> \o feed[k]
      BY <1>1, <2>1, <2>3
    <3>2. QED BY <1>1, <2>2, <3>1
  <2>4. CASE k # l
    BY <1>1, <2>1, <2>4
  <2>5. QED BY <2>3, <2>4
<1>4. QED
  BY <1>2, <1>3, FailureCases DEF Next, RunNext, Claim, Step, Discover, Store, Clear,
     Log, Count, Reschedule, Flag, ErrLog, Midnight, FallDue, vars

\* A step of the workers opens no gap in the feed of a keyword no worker holds.
LEMMA GapsElsewhere ==
  ASSUME RunAssumption, CalmFeeds, RunInv, [Next]_vars,
         NEW k \in Keyword, Holders(k) = {}, NEW j, NEW m, Gap(k, j, m)'
  PROVE  Gap(k, j, m)
<1>1. CASE stored' = stored
  BY <1>1 DEF Gap
<1>2. ASSUME NEW w \in Worker, pc[w] = "store", StorePage(w) PROVE Gap(k, j, m)
  <2>1. /\ pc[w] = "store" /\ Types /\ FeedIsSupply /\ Storing(w) /\ kw[w] # k
        /\ stored' = stored \cup (page[w] \ Excluded)
    BY <1>2 DEF StorePage, RunInv, GapsInRuns, Holders
  <2>2. m \in 1..Len(Supply[k]) /\ Supply[k][m] \in stored'
    BY DEF Gap
  <2>3. Supply[k][m] \notin page[w]
    BY <2>1, <2>2, PageHolds
  <2>4. QED BY <2>1, <2>2, <2>3 DEF Gap
<1>3. QED
  <2>1. ASSUME NEW w \in Worker, Store(w) PROVE pc[w] = "store" /\ StorePage(w)
    BY <2>1 DEF Store, Goto
  <2>2. ASSUME NEW w \in Worker, Failure(w)
        PROVE  stored' = stored \/ (pc[w] = "store" /\ StorePage(w))
    BY <2>2, FailureCases DEF Breaks, EndsEarly, FlagFails
  <2>3. QED
    BY <1>1, <1>2, <2>1, <2>2 DEF Next, RunNext, Claim, Step, Discover, Clear, Log,
       Count, Reschedule, Flag, ErrLog, Publish, Midnight, FallDue, vars, db

\* A scan is as good after a step of somebody else: its feed has only grown, and
\* if it holds a claim, no gap was opened.
LEMMA ScanKept ==
  ASSUME RunAssumption, ManualTypes, RunInv, NEW s \in Script, ScanInv(s),
         script'[s] = script[s],
         \A k \in Keyword : Len(feed'[k]) \in Nat /\ Len(feed'[k]) >= Len(feed[k]),
         \A k \in Keyword : script[s].claimed /\ k = script[s].kw =>
           \A j, m : Gap(k, j, m)' => Gap(k, j, m)
  PROVE  ScanInv(s)'
<1>1. CASE script[s].at \in {"ended", "flag"}
  BY <1>1 DEF ScanInv, Listed, Scanning, Keeping, Cleared
<1>2. CASE script[s].at \notin {"ended", "flag"}
  <2>1. PICK k \in Keyword, p \in Nat : k = script[s].kw /\ p = script[s].page /\ p >= 1
    BY <1>2 DEF ManualTypes, ScriptTypes, ManualTypeOK
  <2>2. Len(feed[k]) \in Nat /\ Len(feed'[k]) \in Nat /\ Len(feed'[k]) >= Len(feed[k])
    BY DEF RunInv, Types, TypeOK
  <2>3. Ahead(s)' >= Ahead(s) /\ Ahead(s) \in Int /\ Ahead(s)' \in Int
    <3> DEFINE q == (p - 1) * PageSize
    <3>1. q \in Nat
      BY <2>1, Product DEF RunAssumption
    <3>2. Ahead(s) = Len(feed[k]) - q /\ Ahead(s)' = Len(feed'[k]) - q
      BY <2>1 DEF Ahead
    <3> HIDE DEF q
    <3>3. QED BY <2>2, <3>1, <3>2
  <2>4. \A m : Found(s, m)' <=> Found(s, m)
    BY DEF Found
  <2>5. Len(Supply[k]) \in Nat
    BY DEF RunAssumption
  <2>6. script[s].claimed =>
          \A j, m : Gap(script[s].kw, j, m)' => Gap(script[s].kw, j, m)
    BY <2>1 DEF Gap
  <2>7. Listed(s)'
    BY <2>1, <2>2 DEF ScanInv, Listed
  <2>8. Scanning(s)'
    BY <2>1, <2>3, <2>4, <2>5, <2>6 DEF ScanInv, Scanning
  <2>9. Keeping(s)'
    BY <2>1, <2>4, <2>6 DEF ScanInv, Keeping
  <2>10. Cleared(s)'
    <3>1. script[s].at \in {"clear", "log"} => script[s].claimed
      BY DEF ManualTypes, ScriptTypes, ManualTypeOK
    <3>2. QED BY <2>1, <2>6, <3>1 DEF ScanInv, Cleared, Whole
  <2>11. QED BY <2>7, <2>8, <2>9, <2>10 DEF ScanInv
<1>3. QED BY <1>1, <1>2

\* What a script sees on a page, and whether it is the last.
LEMMA ScanSees ==
  ASSUME RunAssumption, CalmFeeds, ReadsAll, ManualInv,
         NEW s \in Script, script[s].at = "scan"
  PROVE  /\ script[s].kw \in Keyword
         /\ Len(feed[script[s].kw]) \in Nat /\ Len(Supply[script[s].kw]) \in Nat
         /\ Len(feed[script[s].kw]) <= Len(Supply[script[s].kw])
         /\ Ahead(s) \in Int /\ Ahead(s) <= Len(feed[script[s].kw])
         /\ script[s].page = 1 => Ahead(s) = Len(feed[script[s].kw])
         /\ Seen(feed[script[s].kw], script[s].page)
              = {Supply[script[s].kw][m] : m \in Window(Ahead(s))}
         /\ HasMore(feed[script[s].kw], script[s].page, script[s].limit)
              <=> Ahead(s) > PageSize
<1>1. PICK k \in Keyword, p \in Nat, L \in PageLimits :
        k = script[s].kw /\ p = script[s].page /\ L = script[s].limit /\ p >= 1
  BY DEF ManualInv, Claims, ManualTypes, ScriptTypes, ManualTypeOK
<1>2. PICK n \in Nat : n = Len(feed[k])
  BY FeedType DEF ManualInv, RunInv
<1>3. /\ feed[k] \in Seq(Url) /\ Supply[k] \in Seq(Url) /\ n <= Len(Supply[k])
      /\ Len(Supply[k]) \in Nat
      /\ \A i \in 1..n : feed[k][i] = Supply[k][n + 1 - i]
  BY <1>2, FeedType DEF ManualInv, RunInv, Types, TypeOK, RunAssumption
<1> DEFINE q == (p - 1) * PageSize
<1>4. q \in Nat /\ (p = 1 => q = 0)
  <2>1. q \in Nat
    BY <1>1, Product DEF RunAssumption
  <2>2. PageSize \in Nat
    BY DEF RunAssumption
  <2>3. p = 1 => q = 0
    BY <2>2
  <2>4. QED BY <2>1, <2>3
<1>5. Ahead(s) = n - q
  BY <1>1, <1>2 DEF Ahead
<1>6. /\ Urls(Page(feed[k], p)) = {Supply[k][m] : m \in Window(n - q)}
      /\ p * PageSize < n <=> n - q > PageSize
  BY <1>1, <1>2, <1>3, PageIsWindow
<1>7. p * PageSize < n => p < L
  <2>1. /\ L \in Nat /\ PageSize \in Nat /\ p * PageSize \in Nat /\ L * PageSize \in Nat
    BY <1>1, ManualAssumption DEF RunAssumption, ManualAssumption
  <2>2. n <= L * PageSize
    BY <1>1, <1>3, <2>1 DEF ReadsAll
  <2>3. p >= L => p * PageSize >= L * PageSize
    BY <1>1, <2>1, Monotone
  <2>4. QED BY <1>1, <2>1, <2>2, <2>3
<1> HIDE DEF q
<1>8. Ahead(s) \in Int /\ Ahead(s) <= n /\ (p = 1 => Ahead(s) = n)
  BY <1>2, <1>4, <1>5
<1>9. HasMore(feed[k], p, L) <=> Ahead(s) > PageSize
  BY <1>1, <1>2, <1>5, <1>6, <1>7 DEF HasMore
<1>10. QED BY <1>1, <1>2, <1>3, <1>5, <1>6, <1>8, <1>9 DEF Seen

\* A page joins what the scan has found before without a hole, whatever the feed
\* did between the two.
LEMMA ScanStep ==
  ASSUME RunAssumption, CalmFeeds, ReadsAll, ManualInv, NEW s \in Script, ScanPage(s)
  PROVE  ScanInv(s)'
<1>1. PICK k \in Keyword, p \in Nat, T \in Int, F, c \in BOOLEAN :
        /\ k = script[s].kw /\ p = script[s].page /\ p >= 1 /\ T = Ahead(s)
        /\ F = script[s].found /\ c = script[s].claimed /\ script[s].at = "scan"
  BY ScanSees DEF ScanPage, ManualInv, Claims, ManualTypes, ScriptTypes, ManualTypeOK
<1>2. PICK n \in Nat, N \in Nat : n = Len(feed[k]) /\ N = Len(Supply[k])
  BY <1>1, ScanSees
<1> DEFINE goOn == HasMore(feed[k], p, script[s].limit)
           W == {Supply[k][m] : m \in Window(T)}
<1>3. /\ n <= N /\ T <= n /\ (p = 1 => T = n)
      /\ Seen(feed[k], p) = W
      /\ goOn <=> T > PageSize
      /\ PageSize \in Nat /\ PageSize >= 1
  <2>1. PageSize \in Nat /\ PageSize >= 1
    BY DEF RunAssumption
  <2>2. n <= N /\ T <= n /\ (p = 1 => T = n)
    BY <1>1, <1>2, ScanSees
  <2>3. Seen(feed[k], p) = W
    BY <1>1, ScanSees
  <2>4. goOn <=> T > PageSize
    BY <1>1, ScanSees
  <2>5. QED BY <2>1, <2>2, <2>3, <2>4
<1>4. /\ script'[s].kw = k /\ script'[s].claimed = c /\ script'[s].found = F \cup W
      /\ script'[s].at = IF goOn THEN "scan" ELSE "store"
      /\ script'[s].page = IF goOn THEN p + 1 ELSE p
      /\ UNCHANGED <<feed, stored>>
  BY <1>1, <1>3 DEF ScanPage, ManualInv, Claims, ManualTypes, ScriptTypes, ManualTypeOK,
     vars, db
<1>5. ScanInv(s) /\ FeedIsSupply
  BY DEF ManualInv, RunInv
<1>6. \A i, j \in 1..N : Supply[k][i] = Supply[k][j] => i = j
  BY <1>2, Calm
<1>7. \A m : m \in Window(T) => m \in 1..N /\ m <= n
  BY <1>2, <1>3 DEF Window
<1> DEFINE Old(m) == m \in 1..N /\ Supply[k][m] \in F
<1>8. /\ \A m : Found(s, m) <=> Old(m)
      /\ \A m : Found(s, m)' <=> Old(m) \/ m \in Window(T)
  <2>1. \A m : Found(s, m) <=> Old(m)
    BY <1>1, <1>2 DEF Found
  <2>2. \A m : Found(s, m)' <=> m \in 1..N /\ Supply[k][m] \in F \cup W
    BY <1>2, <1>4 DEF Found
  <2>3. \A m \in 1..N : Supply[k][m] \in W <=> m \in Window(T)
    BY <1>6, <1>7
  <2> HIDE DEF W
  <2>4. QED BY <1>7, <2>1, <2>2, <2>3
<1>9. ASSUME NEW u \in W PROVE \E m \in 1..n : u = Supply[k][m]
  BY <1>7
<1> HIDE DEF goOn, W, Old
<1>10. Listed(s)'
  <2>1. \A u \in F : \E m \in 1..n : u = Supply[k][m]
    BY <1>1, <1>2, <1>5 DEF ScanInv, Listed
  <2>2. Len(feed'[k]) = n
    BY <1>2, <1>4
  <2>3. \A u \in script'[s].found : \E m \in 1..Len(feed'[k]) : u = Supply[k][m]
    BY <1>4, <1>9, <2>1, <2>2
  <2>4. QED BY <1>4, <2>3 DEF Listed
<1>11. \A j, m : /\ Gap(script[s].kw, j, m)' <=> Gap(k, j, m)
                 /\ Gap(script[s].kw, j, m) <=> Gap(k, j, m)
  BY <1>1, <1>4 DEF Gap
<1>12. ASSUME NEW l \in 1..N, NEW m \in 1..N, l < m, Found(s, m)', T < l
       PROVE  Found(s, l)'
  <2>1. Old(m)
    BY <1>8, <1>12 DEF Window
  <2>2. Found(s, l)
    BY <1>1, <1>2, <1>5, <1>8, <1>12, <2>1 DEF ScanInv, Scanning
  <2>3. QED BY <1>8, <2>2
<1>13. ASSUME NEW l \in 1..N, T < l + PageSize, l <= T PROVE Found(s, l)'
  BY <1>3, <1>8, <1>13 DEF Window
<1>14. ASSUME c, NEW j, NEW m, Gap(k, j, m)
       PROVE  \E h \in j..N : Found(s, h)'
  <2>1. j \in 1..N /\ m \in 1..n /\ j < m
    BY <1>2, <1>5, <1>14 DEF Gap, FeedIsSupply
  <2>2. CASE p = 1
    <3>1. n \in Window(T) /\ n \in j..N
      BY <1>2, <1>3, <2>1, <2>2 DEF Window
    <3>2. QED BY <1>8, <3>1
  <2>3. CASE p # 1
    <3>1. \E h \in j..N : Found(s, h)
      BY <1>1, <1>2, <1>5, <1>11, <1>14, <2>1, <2>3 DEF ScanInv, Scanning, Gap
    <3>2. QED BY <1>8, <3>1
  <2>4. QED BY <2>2, <2>3
<1>15. Scanning(s)' /\ Keeping(s)' /\ Cleared(s)'
  <2>1. CASE goOn
    <3>1. /\ script'[s].at = "scan" /\ script'[s].page = p + 1 /\ script'[s].page > 1
          /\ T > PageSize
      BY <1>1, <1>3, <1>4, <2>1
    <3>2. Ahead(s)' = T - PageSize
      <4>1. Ahead(s)' = n - p * PageSize /\ T = n - (p - 1) * PageSize
        BY <1>1, <1>2, <1>4, <3>1 DEF Ahead
      <4>2. /\ p * PageSize = (p - 1) * PageSize + PageSize
            /\ (p - 1) * PageSize \in Nat
        BY <1>1, <1>3, Product
      <4> DEFINE q == (p - 1) * PageSize
                 qq == p * PageSize
      <4>3. Ahead(s)' = n - qq /\ T = n - q /\ qq = q + PageSize /\ q \in Nat
        BY <4>1, <4>2
      <4> HIDE DEF q, qq
      <4>4. QED BY <1>2, <1>3, <4>3
    <3>3. ASSUME NEW l \in 1..N, NEW m \in 1..N, l < m, Found(s, m)', T - PageSize < l
          PROVE  Found(s, l)'
      BY <1>3, <1>12, <1>13, <3>3
    <3>4. Scanning(s)'
      BY <1>2, <1>4, <1>11, <1>14, <3>1, <3>2, <3>3 DEF Scanning
    <3>5. QED BY <3>1, <3>4 DEF Keeping, Cleared
  <2>2. CASE ~goOn
    <3>1. script'[s].at = "store" /\ T <= PageSize
      BY <1>3, <1>4, <2>2
    <3>2. ASSUME NEW l \in 1..N, NEW m \in 1..N, l < m, Found(s, m)'
          PROVE  Found(s, l)'
      BY <1>3, <1>12, <1>13, <3>1, <3>2
    <3>3. ASSUME c, NEW j, NEW m, Gap(k, j, m) PROVE Found(s, j)'
      <4>1. PICK h \in j..N : Found(s, h)'
        BY <1>14, <3>3
      <4>2. j \in 1..N
        BY <1>2, <3>3 DEF Gap
      <4>3. QED BY <3>2, <4>1, <4>2
    <3>4. Keeping(s)'
      BY <1>2, <1>4, <1>11, <3>2, <3>3 DEF Keeping
    <3>5. QED BY <3>1, <3>4 DEF Scanning, Cleared
  <2>3. QED BY <2>1, <2>2
<1>16. QED BY <1>10, <1>15 DEF ScanInv

-----------------------------------------------------------------------------
(* The steps of the scripts that the workers see *)

\* A scan that is stored opens no gap: with an article it has every earlier one.
LEMMA StoreAllGaps ==
  ASSUME RunAssumption, CalmFeeds, ManualInv, NEW s \in Script,
         script[s].at = "store", StoreFound(s),
         NEW k \in Keyword, NEW j, NEW m, Gap(k, j, m)'
  PROVE  Gap(k, j, m) /\ (script[s].claimed => k # script[s].kw)
<1>a. PICK l \in Keyword : l = script[s].kw
  BY DEF ManualInv, Claims, ManualTypes, ScriptTypes, ManualTypeOK
<1>b. PICK F : F = script[s].found
  OBVIOUS
<1>1. l = script[s].kw /\ F = script[s].found
  BY <1>a, <1>b
<1>2. /\ stored' = stored \cup (F \ Excluded) /\ script[s].at = "store"
      /\ Keeping(s) /\ Listed(s) /\ FeedIsSupply
  BY <1>1 DEF StoreFound, ManualInv, ScanInv, RunInv
<1>3. /\ j \in 1..Len(Supply[k]) /\ m \in 1..Len(Supply[k]) /\ j < m
      /\ Supply[k][m] \in stored \cup F
      /\ Supply[k][j] \notin stored \cup F \cup Excluded
  BY <1>2 DEF Gap
<1>4. Supply[k][m] \notin F
  <2>1. SUFFICES ASSUME Supply[k][m] \in F PROVE FALSE
    OBVIOUS
  <2>2. PICK i \in 1..Len(feed[l]) : Supply[k][m] = Supply[l][i]
    BY <1>1, <1>2, <2>1 DEF Listed
  <2>3. i \in 1..Len(Supply[l])
    BY <1>2, <2>2, FeedType DEF ManualInv, RunInv
  <2>4. k = l
    BY <1>3, <2>2, <2>3, Calm
  <2>5. Found(s, m)
    BY <1>1, <1>3, <2>1, <2>4 DEF Found
  <2>6. Found(s, j)
    BY <1>1, <1>2, <1>3, <2>4, <2>5 DEF Keeping
  <2>7. QED BY <1>1, <1>3, <2>4, <2>6 DEF Found
<1>5. Gap(k, j, m)
  BY <1>3, <1>4 DEF Gap
<1>6. ASSUME script[s].claimed, k = script[s].kw PROVE FALSE
  <2>1. Found(s, j)
    BY <1>2, <1>3, <1>5, <1>6 DEF Keeping
  <2>2. QED BY <1>1, <1>3, <1>6, <2>1 DEF Found
<1>7. QED BY <1>5, <1>6

\* Such a scan keeps what the workers' invariant says of them and of every feed.
LEMMA StoreAllStep ==
  ASSUME RunAssumption, CalmFeeds, ManualInv, Types', OneRun',
         NEW s \in Script, script[s].at = "store", StoreFound(s),
         UNCHANGED <<feed, pending, pc, run>>
  PROVE  RunInv'
<1>a. PICK l \in Keyword : l = script[s].kw
  BY DEF ManualInv, Claims, ManualTypes, ScriptTypes, ManualTypeOK
<1>b. PICK F : F = script[s].found
  OBVIOUS
<1>1. l = script[s].kw /\ F = script[s].found
  BY <1>a, <1>b
<1>2. /\ stored' = stored \cup (F \ Excluded) /\ script[s].at = "store"
      /\ UNCHANGED <<feed, pending, pc, kw, isRetry, pageNo, page, more, known, drift>>
      /\ Listed(s) /\ FeedIsSupply /\ GapsInRuns /\ GapsAtRest /\ FlagUp
  BY <1>1 DEF StoreFound, ManualInv, ScanInv, RunInv, run
<1>3. \A k \in Keyword : \A j, m : Gap(k, j, m)' => Gap(k, j, m)
  BY StoreAllGaps
<1>4. FeedIsSupply'
  <2>1. ASSUME NEW k \in Keyword, NEW m \in 1..Len(Supply[k]), Supply[k][m] \in F
        PROVE  m <= Len(feed[k])
    <3>1. PICK i \in 1..Len(feed[l]) : Supply[k][m] = Supply[l][i]
      BY <1>1, <1>2, <2>1 DEF Listed
    <3>2. i \in 1..Len(Supply[l])
      BY <1>2, <3>1, FeedType DEF ManualInv, RunInv
    <3>3. k = l
      BY <2>1, <3>1, <3>2, Calm
    <3>4. m = i
      BY <2>1, <3>1, <3>2, <3>3, Calm
    <3>5. QED BY <3>1, <3>3, <3>4
  <2>2. QED BY <1>2, <2>1 DEF FeedIsSupply
<1>5. ASSUME NEW v \in Worker PROVE Reading(v)' /\ Storing(v)' /\ Done(v)'
  <2>1. CASE pc[v] = "idle"
    BY <1>2, <2>1 DEF Reading, Storing, Done
  <2>2. CASE pc[v] # "idle"
    <3>1. kw[v] \in Keyword
      BY <2>2 DEF ManualInv, RunInv, Types, TypeOK
    <3>2. Depth(v)' = Depth(v)
      BY <1>2 DEF Depth
    <3>3. Reading(v) /\ Storing(v) /\ Done(v)
      BY <1>2 DEF GapsInRuns
    <3>4. QED BY <1>2, <1>3, <3>1, <3>2, <3>3, RunKept
  <2>3. QED BY <2>1, <2>2
<1>6. GapsAtRest'
  BY <1>2, <1>3 DEF GapsAtRest, Holders, Whole
<1>7. FlagUp'
  BY <1>2 DEF FlagUp
<1>8. QED BY <1>4, <1>5, <1>6, <1>7 DEF RunInv, GapsInRuns

\* A claimed scan that is stored leaves its keyword whole.
LEMMA StoredScan ==
  ASSUME RunAssumption, CalmFeeds, ManualInv, NEW s \in Script, StoreAll(s)
  PROVE  ScanInv(s)'
<1>1. PICK l \in Keyword : l = script[s].kw
  BY DEF StoreAll, ManualInv, Claims, ManualTypes, ScriptTypes, ManualTypeOK
<1>2. script[s].at = "store" /\ StoreFound(s)
  BY DEF StoreAll
<1>3. CASE script[s].claimed
  <2>1. script'[s].at = "clear" /\ script'[s].kw = l
    BY <1>1, <1>3 DEF StoreAll, Proceed, ManualInv, Claims, ManualTypes,
       ScriptTypes, ManualTypeOK
  <2>2. Whole(l)'
    BY <1>1, <1>2, <1>3, StoreAllGaps DEF Whole
  <2>3. Cleared(s)'
    BY <2>1, <2>2 DEF Cleared, Whole, Gap
  <2>4. QED BY <2>1, <2>3 DEF ScanInv, Listed, Scanning, Keeping
<1>4. CASE ~script[s].claimed
  <2>1. script'[s].at = "ended"
    BY <1>4 DEF StoreAll, Exit, Ended, ManualInv, Claims, ManualTypes,
       ScriptTypes, ManualTypeOK
  <2>2. QED BY <2>1 DEF ScanInv, Listed, Scanning, Keeping, Cleared
<1>5. QED BY <1>3, <1>4

\* A script that raises a flag, or lowers the one of its own whole keyword, leaves
\* the workers as they were.
LEMMA BesideStep ==
  ASSUME RunInv, Types', OneRun',
         UNCHANGED <<feed, stored, pc, run>>,
         \A k \in Keyword :
           \/ pending'[k]
           \/ pending'[k] = pending[k]
           \/ Whole(k) /\ Holders(k) = {}
  PROVE  RunInv'
<1>1. /\ Types /\ FlagUp /\ FeedIsSupply /\ GapsInRuns /\ GapsAtRest
      /\ UNCHANGED <<kw, isRetry, pageNo, page, more, known, drift>>
  BY DEF RunInv, run
<1>2. GapsInRuns' /\ \A k \in Keyword : Whole(k)' <=> Whole(k)
  BY <1>1, QuietStep
<1>3. FlagUp'
  <2>1. ASSUME NEW w \in Worker, pc[w] = "errlog" PROVE pending'[kw[w]]
    <3>1. kw[w] \in Keyword /\ pending[kw[w]] /\ Holders(kw[w]) # {}
      BY <1>1, <2>1 DEF FlagUp, Types, TypeOK, Holders
    <3>2. QED BY <3>1
  <2>2. QED BY <1>1, <2>1 DEF FlagUp
<1>4. FeedIsSupply'
  BY <1>1 DEF FeedIsSupply
<1>5. GapsAtRest'
  BY <1>1, <1>2 DEF GapsAtRest, Holders
<1>6. QED BY <1>2, <1>3, <1>4, <1>5 DEF RunInv

\* ManualInv is inductive.
LEMMA ManualStep ==
  /\ RunAssumption /\ ManualAssumption
  /\ Prompt /\ CalmFeeds /\ HandlerWorks /\ ReadsAll
  /\ ManualInv /\ [ManualNext]_allVars
  => ManualInv'
<1> SUFFICES ASSUME RunAssumption, ManualAssumption, Prompt, CalmFeeds, HandlerWorks,
                    ReadsAll, ManualInv, [ManualNext]_allVars
             PROVE  RunInv' /\ \A t \in Script : ScanInv(t)'
  BY ClaimsStep DEF ManualInv
<1>1. /\ Claims /\ ManualTypes /\ ScriptTypes /\ RunInv /\ ClaimIsExclusive
      /\ \A t \in Script : ScanInv(t)
      /\ Types' /\ OneRun'
      /\ \A k \in Keyword : Len(feed[k]) \in Nat
  <2>1. Claims'
    BY ClaimsStep DEF ManualInv
  <2>2. \A k \in Keyword : feed[k] \in Seq(Url)
    BY DEF ManualInv, RunInv, Types, TypeOK
  <2>3. QED BY <2>1, <2>2 DEF ManualInv, Claims, ManualTypes
<1>2. script \in [Script ->
         [at : {"ended", "scan", "store", "clear", "log", "flag"},
          kw : Keyword \cup {None}, claimed : BOOLEAN,
          limit : PageLimits \cup {0}, page : Nat, found : SUBSET Url]]
  BY <1>1 DEF ScriptTypes, ManualTypeOK
<1>3. ASSUME [Next]_vars, UNCHANGED script
      PROVE  RunInv' /\ \A t \in Script : ScanInv(t)'
  <2>1. RunInv'
    BY <1>1, <1>3, GapStep
  <2>2. ASSUME NEW t \in Script PROVE ScanInv(t)'
    <3>1. \A k \in Keyword : Len(feed'[k]) \in Nat /\ Len(feed'[k]) >= Len(feed[k])
      BY <1>1, <1>3, FeedGrows
    <3>2. \A k \in Keyword : script[t].claimed /\ k = script[t].kw => Holders(k) = {}
      BY <1>1 DEF ClaimIsExclusive
    <3>3. \A k \in Keyword : script[t].claimed /\ k = script[t].kw =>
            \A j, m : Gap(k, j, m)' => Gap(k, j, m)
      BY <1>1, <1>3, <3>2, GapsElsewhere
    <3>4. QED BY <1>1, <1>3, <3>1, <3>3, ScanKept
  <2>3. QED BY <2>1, <2>2
<1>4. ASSUME NEW s \in Script, UNCHANGED feed,
             \A t \in Script : t # s => script'[t] = script[t],
             \A k \in Keyword : \A j, m : Gap(k, j, m)' => Gap(k, j, m)
      PROVE  \A t \in Script : t # s => ScanInv(t)'
  BY <1>1, <1>4, ScanKept
<1>5. UNCHANGED stored => \A k \in Keyword : \A j, m : Gap(k, j, m)' => Gap(k, j, m)
  BY DEF Gap
<1>6. ASSUME NEW s \in Script, Exit(s) PROVE ScanInv(s)'
  <2>1. script'[s].at = "ended"
    BY <1>2, <1>6 DEF Exit, Ended
  <2>2. QED BY <2>1 DEF ScanInv, Listed, Scanning, Keeping, Cleared
<1>7. ASSUME NEW s \in Script, NEW from, Proceed(s, from, "flag") PROVE ScanInv(s)'
  <2>1. script'[s].at = "flag"
    BY <1>2, <1>7 DEF Proceed
  <2>2. QED BY <2>1 DEF ScanInv, Listed, Scanning, Keeping, Cleared
<1>8. ASSUME NEW s \in Script, NEW k \in Keyword, NEW c \in BOOLEAN, Launch(s, k, c)
      PROVE  ScanInv(s)'
  <2>1. script'[s].at = "scan" /\ script'[s].page = 1 /\ script'[s].found = {}
    BY <1>2, <1>8 DEF Launch
  <2>2. QED BY <2>1 DEF ScanInv, Listed, Scanning, Keeping, Cleared, Found
<1>9. ASSUME NEW s \in Script, UNCHANGED vars,
             \/ \E k \in Keyword : StartGiven(s, k)
             \/ ScanPage(s) \/ LogRow(s) \/ Interrupt(s)
      PROVE  RunInv' /\ \A t \in Script : ScanInv(t)'
  <2>1. RunInv'
    BY <1>1, <1>9, GapStep
  <2>2. \A t \in Script : t # s => script'[t] = script[t]
    BY <1>2, <1>9 DEF StartGiven, Launch, ScanPage, LogRow, Interrupt, Exit
  <2>3. ScanInv(s)'
    BY <1>6, <1>8, <1>9, ScanStep DEF StartGiven, LogRow, Interrupt
  <2>4. UNCHANGED <<feed, stored>>
    BY <1>9 DEF vars, db
  <2>5. QED BY <1>4, <1>5, <2>1, <2>2, <2>3, <2>4
<1>10. ASSUME NEW s \in Script, NEW k \in Keyword, StartClaimed(s, k)
       PROVE  RunInv' /\ \A t \in Script : ScanInv(t)'
  <2>1. UNCHANGED <<feed, stored, pending, pc, run>>
    BY <1>10 DEF StartClaimed
  <2>2. RunInv'
    BY <1>1, <2>1, BesideStep
  <2>3. \A t \in Script : t # s => script'[t] = script[t]
    BY <1>2, <1>10 DEF StartClaimed, Launch
  <2>4. ScanInv(s)'
    BY <1>8, <1>10 DEF StartClaimed
  <2>5. QED BY <1>4, <1>5, <2>1, <2>2, <2>3, <2>4
<1>11. ASSUME NEW s \in Script, script[s].at = "store", StoreFound(s), ScanInv(s)',
              UNCHANGED <<feed, pending, pc, run>>,
              \A t \in Script : t # s => script'[t] = script[t]
       PROVE  RunInv' /\ \A t \in Script : ScanInv(t)'
  <2>1. RunInv'
    BY <1>1, <1>11, StoreAllStep
  <2>2. \A k \in Keyword : \A j, m : Gap(k, j, m)' => Gap(k, j, m)
    BY <1>11, StoreAllGaps
  <2>3. QED BY <1>4, <1>11, <2>1, <2>2
<1>12. ASSUME NEW s \in Script, script[s].at = "clear", script[s].claimed,
              SetFlag(s, FALSE), UNCHANGED <<feed, stored, pc, run>>,
              \A t \in Script : t # s => script'[t] = script[t],
              NEW to \in {"log", "flag"}, Proceed(s, "clear", to)
       PROVE  RunInv' /\ \A t \in Script : ScanInv(t)'
  <2>1. PICK k \in Keyword : k = script[s].kw
    BY <1>1, <1>2, <1>12 DEF ScriptTypes, ManualTypeOK
  <2>2. pending' = [pending EXCEPT ![k] = FALSE]
    BY <1>12, <2>1 DEF SetFlag
  <2>3. Whole(k) /\ Holders(k) = {}
    BY <1>1, <1>12, <2>1 DEF ScanInv, Cleared, ClaimIsExclusive
  <2>4. RunInv'
    <3>1. pending \in [Keyword -> BOOLEAN]
      BY <1>1 DEF RunInv, Types, TypeOK
    <3>2. QED BY <1>1, <1>12, <2>2, <2>3, <3>1, BesideStep
  <2>5. script'[s].at = to /\ script'[s].kw = k
    BY <1>2, <1>12, <2>1 DEF Proceed
  <2>6. ScanInv(s)'
    <3>1. Whole(k)'
      BY <1>12, <2>3 DEF Whole, Gap
    <3>2. Cleared(s)'
      BY <2>5, <3>1 DEF Cleared, Whole, Gap
    <3>3. QED BY <2>5, <3>2 DEF ScanInv, Listed, Scanning, Keeping
  <2>7. QED BY <1>4, <1>5, <1>12, <2>4, <2>6
<1>13. ASSUME NEW s \in Script, StoreAll(s)
      PROVE  RunInv' /\ \A t \in Script : ScanInv(t)'
  <2>1. ScanInv(s)'
    BY <1>13, StoredScan
  <2>2. \A t \in Script : t # s => script'[t] = script[t]
    BY <1>2, <1>13 DEF StoreAll, Proceed, Exit
  <2>3. /\ script[s].at = "store" /\ StoreFound(s)
        /\ UNCHANGED <<feed, pending, pc, run>>
    BY <1>13 DEF StoreAll
  <2>4. QED BY <1>11, <2>1, <2>2, <2>3
<1>14. ASSUME NEW s \in Script, ClearFlag(s)
      PROVE  RunInv' /\ \A t \in Script : ScanInv(t)'
  <2>1. /\ Proceed(s, "clear", "log") /\ SetFlag(s, FALSE)
        /\ UNCHANGED <<feed, stored, pc, run>>
    BY <1>14 DEF ClearFlag
  <2>2. /\ script[s].at = "clear" /\ script[s].claimed
        /\ \A t \in Script : t # s => script'[t] = script[t]
    BY <1>1, <1>2, <2>1 DEF Proceed, ScriptTypes, ManualTypeOK
  <2>3. QED BY <1>12, <2>1, <2>2
<1>15. ASSUME NEW s \in Script, TryFails(s)
      PROVE  RunInv' /\ \A t \in Script : ScanInv(t)'
  <2>1. script[s].claimed /\ UNCHANGED <<feed, pc, run>>
    BY <1>15, TryCases
  <2>2. \A t \in Script : t # s => script'[t] = script[t]
    BY <1>2, <1>15, TryCases DEF Proceed
  <2>3. ScanInv(s)'
    BY <1>7, <1>15, TryCases
  <2>4. CASE UNCHANGED <<stored, pending>>
    <3>1. RunInv'
      BY <1>1, <2>1, <2>4, BesideStep
    <3>2. QED BY <1>4, <1>5, <2>1, <2>2, <2>3, <2>4, <3>1
  <2>5. CASE Proceed(s, "store", "flag") /\ StoreFound(s) /\ UNCHANGED pending
    BY <1>11, <2>1, <2>2, <2>3, <2>5 DEF Proceed
  <2>6. CASE Proceed(s, "clear", "flag") /\ SetFlag(s, FALSE) /\ UNCHANGED stored
    BY <1>12, <2>1, <2>2, <2>6 DEF Proceed
  <2>7. QED BY <1>15, <2>4, <2>5, <2>6, TryCases
<1>16. ASSUME NEW s \in Script, RaiseFlag(s)
       PROVE  RunInv' /\ \A t \in Script : ScanInv(t)'
  <2>1. /\ pending' = [pending EXCEPT ![script[s].kw] = TRUE]
        /\ UNCHANGED <<feed, stored, pc, run>> /\ Exit(s)
    BY <1>16 DEF RaiseFlag, SetFlag
  <2>2. RunInv'
    <3>1. \A k \in Keyword : pending'[k] \/ pending'[k] = pending[k]
      BY <1>1, <2>1 DEF RunInv, Types, TypeOK
    <3>2. QED BY <1>1, <2>1, <3>1, BesideStep
  <2>3. \A t \in Script : t # s => script'[t] = script[t]
    BY <1>2, <2>1 DEF Exit
  <2>4. QED BY <1>4, <1>5, <1>6, <2>1, <2>2, <2>3
<1>17. QED
  BY <1>3, <1>9, <1>10, <1>16, <1>13, <1>14, <1>15, ManualCases
     DEF Next, FallDueAgain, scriptVars

\* At first nothing is stored and nobody scans.
LEMMA ManualInvInit == RunAssumption /\ ManualAssumption /\ ManualInit => ManualInv
<1> SUFFICES ASSUME RunAssumption, ManualAssumption, ManualInit PROVE ManualInv
  OBVIOUS
<1>1. Claims /\ RunInv
  BY ScriptTypeInit, RunInit DEF ManualInit
<1>2. ASSUME NEW s \in Script PROVE ScanInv(s)
  <2>1. script[s].at = "ended"
    BY DEF ManualInit, Ended
  <2>2. QED BY <2>1 DEF ScanInv, Listed, Scanning, Keeping, Cleared
<1>3. QED BY <1>1, <1>2 DEF ManualInv

-----------------------------------------------------------------------------
(* Retries beside the scripts *)

\* The scripts leave the rows and the retries alone; one lowers a flag, that of
\* its own keyword, which is not put off by the retry delay.
LEMMA RetryKept ==
  /\ RunAssumption /\ ManualAssumption /\ RescheduleIsHeard
  /\ ManualTypes /\ OneFresh /\ ClaimIsPutOff /\ RetryFlagged /\ [ManualNext]_allVars
  => RetryFlagged'
<1> SUFFICES ASSUME RunAssumption, ManualAssumption, RescheduleIsHeard, ManualTypes,
                    OneFresh, ClaimIsPutOff, RetryFlagged, [ManualNext]_allVars
             PROVE  RetryFlagged'
  OBVIOUS
<1>1. /\ Types /\ ScriptTypes
      /\ sched \in [Keyword -> {"due", "interval", "retry"}]
      /\ pending \in [Keyword -> BOOLEAN]
  BY DEF ManualTypes, Types, TypeOK
<1>2. CASE [Next]_vars
  BY <1>1, <1>2, RetryStep
<1>3. ASSUME NEW s \in Script, NEW k \in Keyword, StartClaimed(s, k) PROVE RetryFlagged'
  BY <1>1, <1>3 DEF StartClaimed, RetryFlagged, Holders, run
<1>4. ASSUME UNCHANGED <<sched, pending, pc, kw>> PROVE RetryFlagged'
  BY <1>4 DEF RetryFlagged, Holders
<1>5. ASSUME NEW s \in Script, script[s].at = "clear", script[s].claimed,
             SetFlag(s, FALSE), UNCHANGED <<sched, pc, kw>>
      PROVE  RetryFlagged'
  <2>1. PICK k \in Keyword : k = script[s].kw
    BY <1>1, <1>5 DEF ScriptTypes, ManualTypeOK
  <2>2. sched[k] = "interval"
    BY <1>5, <2>1 DEF ClaimIsPutOff
  <2>3. pending' = [pending EXCEPT ![k] = FALSE]
    BY <1>5, <2>1 DEF SetFlag
  <2>4. QED BY <1>1, <1>5, <2>2, <2>3 DEF RetryFlagged, Holders
<1>6. ASSUME NEW s \in Script, StoreAll(s) PROVE RetryFlagged'
  BY <1>4, <1>6 DEF StoreAll, run
<1>7. ASSUME NEW s \in Script, ClearFlag(s) PROVE RetryFlagged'
  <2>1. script[s].at = "clear" /\ script[s].claimed
    BY <1>1, <1>7 DEF ClearFlag, Proceed, ScriptTypes, ManualTypeOK
  <2>2. QED BY <1>5, <1>7, <2>1 DEF ClearFlag, run
<1>8. ASSUME NEW s \in Script, TryFails(s) PROVE RetryFlagged'
  BY <1>4, <1>5, <1>8, TryCases DEF Proceed, run
<1>9. ASSUME NEW s \in Script, RaiseFlag(s) PROVE RetryFlagged'
  <2>1. /\ pending' = [pending EXCEPT ![script[s].kw] = TRUE]
        /\ UNCHANGED <<sched, pc, kw>>
    BY <1>9 DEF RaiseFlag, SetFlag, run
  <2>2. QED BY <1>1, <2>1 DEF RetryFlagged, Holders
<1>10. QED
  BY <1>2, <1>3, <1>6, <1>7, <1>8, <1>9, ManualCases DEF Next, FallDueAgain

\* The scripts write rows without an error and never reschedule a failure, so they
\* leave the budget of retries as it is.
LEMMA BudgetKeptToo ==
  /\ RunAssumption /\ ManualAssumption /\ ErrorRowIsWritten
  /\ Claims /\ BudgetKept /\ LateRuns /\ OneOvernight /\ [ManualNext]_allVars
  => BudgetKept' /\ LateRuns' /\ OneOvernight'
<1> SUFFICES ASSUME RunAssumption, ManualAssumption, ErrorRowIsWritten, Claims,
                    BudgetKept, LateRuns, OneOvernight, [ManualNext]_allVars
             PROVE  BudgetKept' /\ LateRuns' /\ OneOvernight'
  OBVIOUS
<1>1. Types /\ OneRun
  BY DEF Claims, ManualTypes
<1>2. OneFresh
  BY <1>1 DEF OneRun, OneFresh, Fresh
<1>3. CASE [Next]_vars
  BY <1>1, <1>2, <1>3, BudgetStep, OvernightStep
<1>4. CASE UNCHANGED <<rows, retries, pc, run>>
  <2>1. UNCHANGED <<rows, retries, pc, kw, late, err>>
    BY <1>4 DEF run
  <2>2. /\ \A k, e : UNCHANGED <<Today(k, e), Credit(k, e), CountToday(k, e)>>
        /\ \A w, k, e : Owing(w, k, e)' <=> Owing(w, k, e)
        /\ \A k : Overnight(k)' = Overnight(k)
        /\ \A w : Fresh(w)' <=> Fresh(w)
    BY <2>1 DEF Today, Credit, CountToday, Owing, Overnight, Fresh
  <2>3. BudgetKept'
    BY <2>1, <2>2 DEF BudgetKept, CountToday
  <2>4. LateRuns' /\ OneOvernight'
    BY <2>1, <2>2 DEF LateRuns, OneOvernight
  <2>5. QED BY <2>3, <2>4
<1>5. ASSUME NEW s \in Script,
             \/ \E k \in Keyword : StartClaimed(s, k)
             \/ StoreAll(s) \/ ClearFlag(s) \/ RaiseFlag(s) \/ TryFails(s)
      PROVE  UNCHANGED <<rows, retries, pc, run>>
  BY <1>5 DEF StartClaimed, StoreAll, ClearFlag, RaiseFlag, TryFails
<1>6. QED BY <1>3, <1>4, <1>5, ManualCases DEF Next, FallDueAgain

-----------------------------------------------------------------------------
(* Theorems *)

\* Types, with any number of scripts beside the workers.
THEOREM ManualTypesHold == ManualSpec => []ManualTypeOK
<1>1. ManualInit => ManualTypes
  BY ScriptTypeInit, RunAssumption, ManualAssumption DEF Claims
<1>2. ManualTypes /\ [ManualNext]_allVars => ManualTypes'
  BY ScriptTypeStep, RunAssumption, ManualAssumption
<1>3. ManualTypes => ManualTypeOK
  BY DEF ManualTypes, ScriptTypes
<1>4. QED BY <1>1, <1>2, <1>3, PTL DEF ManualSpec

\* What a script claims is its own until it ends, when no run outlasts the retry
\* delay it was granted.
THEOREM ScriptClaimsAlone ==
  ASSUME Prompt PROVE ManualSpec => []ClaimIsExclusive
<1>1. ManualInit => Claims
  BY ScriptTypeInit, RunAssumption, ManualAssumption
<1>2. Claims /\ [ManualNext]_allVars => Claims'
  BY ClaimsStep, RunAssumption, ManualAssumption
<1>3. Claims => ClaimIsExclusive
  BY DEF Claims
<1>4. QED BY <1>1, <1>2, <1>3, PTL DEF ManualSpec

\* No script takes a scheduled retry its full scan, however short the retry delay:
\* RescheduleIsHeard is all that RetryScansInFull asks for too.
THEOREM RetryScansInFullBeside ==
  ASSUME RescheduleIsHeard PROVE ManualSpec => []RetryIsFullScan
<1> DEFINE I == ManualTypes /\ OneFresh /\ ClaimIsPutOff /\ RetryFlagged
<1>1. ManualInit => I
  BY ScriptTypeInit, RunInit, RunAssumption, ManualAssumption DEF ManualInit, Claims
<1>2. I /\ [ManualNext]_allVars => I'
  BY ScriptTypeStep, ClaimsPutOffStep, RetryKept, RunAssumption, ManualAssumption
<1>3. I => RetryIsFullScan
  BY DEF RetryFlagged, RetryIsFullScan
<1>4. QED BY <1>1, <1>2, <1>3, PTL DEF ManualSpec

\* No script lets a keyword retry more often: MaxRetries a day and kind of block,
\* and one more for a run that midnight has caught.
THEOREM RetriesAreBoundedBeside ==
  ASSUME Prompt, ErrorRowIsWritten PROVE ManualSpec => []RetryBudget
<1> DEFINE I == Claims /\ BudgetKept /\ LateRuns /\ OneOvernight
<1>1. ManualInit => I
  BY ScriptTypeInit, RunInit, RunAssumption, ManualAssumption DEF ManualInit
<1>2. I /\ [ManualNext]_allVars => I'
  BY ClaimsStep, BudgetKeptToo, RunAssumption, ManualAssumption
<1>3. I => RetryBudget
  BY DEF BudgetKept, Today, OneOvernight, Overnight, RetryBudget
<1>4. QED BY <1>1, <1>2, <1>3, PTL DEF ManualSpec

\* ManualInv holds in every reachable state.
THEOREM ManualInvariant ==
  ASSUME Prompt, CalmFeeds, HandlerWorks, ReadsAll PROVE ManualSpec => []ManualInv
<1>1. ManualInit => ManualInv
  BY ManualInvInit, RunAssumption, ManualAssumption
<1>2. ManualInv /\ [ManualNext]_allVars => ManualInv'
  BY ManualStep, RunAssumption, ManualAssumption
<1>3. QED BY <1>1, <1>2, PTL DEF ManualSpec

\* Scripts and workers together leave no gap behind a flag that is down.
THEOREM FeedsHaveNoGapBeside ==
  ASSUME Prompt, CalmFeeds, HandlerWorks, ReadsAll PROVE ManualSpec => []NoGapLeft
<1>1. ManualInv => NoGapLeft
  BY WholeIsNoGap, RunAssumption DEF ManualInv, RunInv, GapsAtRest, NoGapLeft
<1>2. QED BY <1>1, ManualInvariant, PTL

\* The early stop of a worker is complete whatever the scripts stored meanwhile.
THEOREM EarlyStopsAreCompleteBeside ==
  ASSUME Prompt, CalmFeeds, HandlerWorks, ReadsAll PROVE ManualSpec => []EarlyStopIsComplete
<1>1. ManualInv => EarlyStopIsComplete
  BY StopInFeed, RunAssumption DEF ManualInv
<1>2. QED BY <1>1, ManualInvariant, PTL

\* A script's scan passes over no article, though its feed grows under it.
THEOREM ScansAreUnbroken ==
  ASSUME Prompt, CalmFeeds, HandlerWorks, ReadsAll PROVE ManualSpec => []ScanIsUnbroken
<1>1. ASSUME ManualInv, NEW s \in Script, script[s].at = "store",
             NEW i \in DOMAIN feed[script[s].kw], NEW j \in DOMAIN feed[script[s].kw],
             i < j, feed[script[s].kw][i] \in script[s].found
      PROVE  feed[script[s].kw][j] \in script[s].found
  <2>1. Types /\ FeedIsSupply /\ Keeping(s) /\ script[s].kw \in Keyword
    BY <1>1 DEF ManualInv, RunInv, ScanInv, Claims, ManualTypes, ScriptTypes, ManualTypeOK
  <2>2. PICK k \in Keyword, n \in Nat, N \in Nat :
          k = script[s].kw /\ n = Len(feed[k]) /\ N = Len(Supply[k]) /\ n <= N
    BY <2>1, FeedType, RunAssumption
  <2>3. /\ i \in 1..n /\ j \in 1..n
        /\ \A l \in 1..n : feed[k][l] = Supply[k][n + 1 - l]
    BY <1>1, <2>1, <2>2, FeedType, RunAssumption
  <2>4. PICK l \in 1..N, m \in 1..N : l = n + 1 - j /\ m = n + 1 - i /\ l < m
    <3>1. i \in 1..n /\ j \in 1..n /\ i < j /\ n <= N
      BY <1>1, <2>2, <2>3
    <3>2. n + 1 - j \in 1..N /\ n + 1 - i \in 1..N /\ n + 1 - j < n + 1 - i
      BY <3>1
    <3>3. QED BY <3>2
  <2>5. Found(s, m)
    BY <1>1, <2>2, <2>3, <2>4 DEF Found
  <2>6. Found(s, l)
    BY <1>1, <2>1, <2>2, <2>4, <2>5 DEF Keeping
  <2>7. QED BY <2>2, <2>3, <2>4, <2>6 DEF Found
<1>2. ManualInv => ScanIsUnbroken
  BY <1>1 DEF ScanIsUnbroken
<1>3. QED BY <1>2, ManualInvariant, PTL
=============================================================================
