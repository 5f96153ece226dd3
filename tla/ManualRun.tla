----------------------------- MODULE ManualRun ------------------------------
(***************************************************************************)
(* scripts/run_discovery.py beside the workers of DiscoveryRun.  An        *)
(* operator gives it a keyword of t_keyword, or lets it claim the next due *)
(* one; either way it reads every page (--max-pages in place of the        *)
(* source's own limit), never stops early, and stores all it found in one  *)
(* transaction.  With a given keyword that is all; a claimed one has its   *)
(* retry_pending and its log row written as in a worker's run, but a       *)
(* failure is neither counted nor rescheduled.  A --dry-run changes no     *)
(* variable, so it has no action.                                          *)
(***************************************************************************)
EXTENDS DiscoveryRun

CONSTANTS
  Script,
  PageLimits,   \* page limits the scripts run with; MaxPages without --max-pages
  MaxManual     \* runs of the script in all

ASSUME ManualAssumption == PageLimits \subseteq Nat \ {0} /\ MaxManual \in Nat

VARIABLES
  script,       \* script[s]: the process s, by its local variables
  manual        \* scripts started so far

scriptVars == <<script, manual>>
allVars == <<vars, scriptVars>>

Ended == [at |-> "ended", kw |-> None, claimed |-> FALSE, limit |-> 0,
          page |-> 0, found |-> {}]

ManualInit == Init /\ script = [s \in Script |-> Ended] /\ manual = 0

\* Scripts that took k from the schedule.
Claimers(k) == {s \in Script : script[s].claimed /\ script[s].kw = k}

Exit(s) == script' = [script EXCEPT ![s] = Ended]

Proceed(s, from, to) ==
  script[s].at = from /\ script' = [script EXCEPT ![s].at = to]

-----------------------------------------------------------------------------
Launch(s, k, claimed) ==
  /\ script[s].at = "ended"
  /\ manual < MaxManual
  /\ manual' = manual + 1
  /\ \E n \in PageLimits :
       script' = [script EXCEPT ![s] = [at |-> "scan", kw |-> k,
                                        claimed |-> claimed, limit |-> n,
                                        page |-> 1, found |-> {}]]

\* --keyword k: no look at the schedule.
StartGiven(s, k) == Launch(s, k, FALSE) /\ UNCHANGED vars

\* No --keyword: claim_next as a worker does.
StartClaimed(s, k) ==
  /\ sched[k] = "due"
  /\ Launch(s, k, TRUE)
  /\ sched' = [sched EXCEPT ![k] = "interval"]
  /\ UNCHANGED <<feed, stored, pending, rows, retries, pc, run, bound>>

\* Mutant: the last link of a page is dropped.
SeenShort(f, n) == {Page(f, n)[i] : i \in DOMAIN Page(f, n) \ {PageSize}}

\* result.urls of page n.
Seen(f, n) == Urls(Page(f, n))

\* _discover_all: one page after the other to the last.
ScanPage(s) ==
  LET r == script[s]
      goOn == HasMore(feed[r.kw], r.page, r.limit)
  IN  /\ r.at = "scan"
      /\ script' = [script EXCEPT
           ![s].found = @ \cup Seen(feed[r.kw], r.page),
           ![s].at = IF goOn THEN "scan" ELSE "store",
           ![s].page = IF goOn THEN @ + 1 ELSE @]
      /\ UNCHANGED <<vars, manual>>

StoreFound(s) == stored' = stored \cup (script[s].found \ Excluded)
SetFlag(s, b) == pending' = [pending EXCEPT ![script[s].kw] = b]

\* bulk_insert_discovered with the URLs of all pages.
StoreAll(s) ==
  /\ script[s].at = "store"
  /\ StoreFound(s)
  /\ IF script[s].claimed THEN Proceed(s, "store", "clear") ELSE Exit(s)
  /\ UNCHANGED <<feed, sched, pending, rows, retries, pc, run, bound, manual>>

\* set_retry_pending(False), then the log row, which carries no error.
ClearFlag(s) ==
  /\ Proceed(s, "clear", "log")
  /\ SetFlag(s, FALSE)
  /\ UNCHANGED <<feed, stored, sched, rows, retries, pc, run, bound, manual>>

LogRow(s) == script[s].at = "log" /\ Exit(s) /\ UNCHANGED <<vars, manual>>

\* The try block of _run_db_mode raises, be the call rolled back or its answer
\* lost; with a given keyword nothing catches it.
TryFails(s) ==
  /\ script[s].claimed
  /\ \E at \in {"scan", "store", "clear", "log"} :
       /\ Proceed(s, at, "flag")
       /\ \/ UNCHANGED <<stored, pending>>
          \/ at = "store" /\ StoreFound(s) /\ UNCHANGED pending
          \/ at = "clear" /\ SetFlag(s, FALSE) /\ UNCHANGED stored
  /\ UNCHANGED <<feed, sched, rows, retries, pc, run, bound, manual>>

\* set_retry_pending(True) and raise: the schedule stays as the claim left it.
RaiseFlag(s) ==
  /\ script[s].at = "flag"
  /\ SetFlag(s, TRUE)
  /\ Exit(s)
  /\ UNCHANGED <<feed, stored, sched, rows, retries, pc, run, bound, manual>>

\* An exception nothing catches, that of RaiseFlag's own call among them, or the
\* operator's Ctrl-C.  (A commit whose answer is lost here is the step of the call
\* itself, or that step and then this one.)
Interrupt(s) == script[s].at # "ended" /\ Exit(s) /\ UNCHANGED <<vars, manual>>

\* next_discover_at is reached, but not within a claimed run.
FallDueAgain(k) ==
  /\ Claimers(k) = {}
  /\ FallDue(k)
  /\ UNCHANGED scriptVars

-----------------------------------------------------------------------------
ScriptStep(s) ==
  ScanPage(s) \/ StoreAll(s) \/ ClearFlag(s) \/ LogRow(s) \/ RaiseFlag(s)

ManualNext ==
  \/ RunNext /\ UNCHANGED scriptVars
  \/ \E k \in Keyword : FallDueAgain(k)
  \/ \E s \in Script :
       \/ \E k \in Keyword : StartGiven(s, k) \/ StartClaimed(s, k)
       \/ ScriptStep(s)
       \/ TryFails(s)
       \/ Interrupt(s)

ManualSpec == ManualInit /\ [][ManualNext]_allVars

\* Workers, time and claims as in DiscoveryRun; a script that runs goes on.
ManualFairSpec ==
  /\ ManualSpec
  /\ \A w \in Worker : WF_allVars(Step(w) /\ UNCHANGED scriptVars)
  /\ \A k \in Keyword :
       /\ WF_allVars(FallDueAgain(k))
       /\ SF_allVars((\E w \in Worker : Claim(w, k)) /\ UNCHANGED scriptVars)
  /\ \A s \in Script : WF_allVars(ScriptStep(s))

-----------------------------------------------------------------------------
(* Properties *)

\* Types; a script past its scan knows its keyword, and only a claimed run
\* touches the flag and the log.
ManualTypeOK ==
  /\ TypeOK
  /\ manual \in 0..MaxManual
  /\ script \in [Script ->
       [at : {"ended", "scan", "store", "clear", "log", "flag"},
        kw : Keyword \cup {None}, claimed : BOOLEAN,
        limit : PageLimits \cup {0}, page : Nat, found : SUBSET Url]]
  /\ \A s \in Script :
       /\ script[s].at = "ended" <=> script[s].kw = None
       /\ script[s].at \in {"clear", "log", "flag"} => script[s].claimed

\* Page numbers are offsets into a feed that grows at its head while it is read.
\* What a scan has found is nevertheless an unbroken stretch of the feed: an
\* article may be seen twice, but none is passed over between two pages.
ScanIsUnbroken ==
  Sorted =>
    \A s \in Script : script[s].at = "store" =>
      LET f == feed[script[s].kw]
      IN  \A i, j, l \in DOMAIN f :
            i < j /\ j < l /\ {f[i], f[l]} \subseteq script[s].found
              => f[j] \in script[s].found

-----------------------------------------------------------------------------
(* A condition under which some of the properties hold *)

\* No page limit ends a scan before the feed does.
ReadsAll ==
  \A k \in Keyword, n \in PageLimits : Len(Supply[k]) <= n * PageSize
=============================================================================
