---------------------------- MODULE KeywordClaim ----------------------------
(***************************************************************************)
(* app/repository/keyword_repo.py as several worker processes drive it     *)
(* through one MariaDB (REPEATABLE READ, the engine's default in db.py).   *)
(*                                                                         *)
(* claim_next is one transaction: a snapshot SELECT of the due rows, then  *)
(* for each candidate a conditional UPDATE that locks the row and checks   *)
(* its latest committed version against the statement's own NOW(), then    *)
(* the commit that the return inside the with block runs.  A row that did  *)
(* not match stays locked until the transaction ends.  Between the claim   *)
(* and the end of its run a worker may call reschedule and                 *)
(* set_retry_pending for the keyword it holds.                             *)
(*                                                                         *)
(* Time is counted in units and stops at MaxTime; disturbances (exceptions *)
(* in a claim, lost commits, dying processes, edits of rows by an operator) *)
(* are at most MaxDisturbances.                                            *)
(***************************************************************************)
EXTENDS Integers, Sequences, FiniteSets

CONSTANTS
  Worker, Keyword, None, Scope, Interval, RetryDelay, Skew,
  Priority,     \* Priority[k]: t_keyword.priority
  Limit,        \* LIMIT of the candidate query (20 in the code)
  TxnBound,     \* longest claim transaction, in time units
  Overrun,      \* may a run outlast the lease its claim wrote?
  RunNow,       \* may an operator pull a keyword forward while it is held?
  MaxTime, MaxDisturbances

ASSUME DomainAssumption ==
  /\ None \notin Keyword
  /\ None \notin Worker
  /\ Scope \in [Worker -> SUBSET Keyword]
  /\ Interval \in [Keyword -> Nat \ {0}]
  /\ Priority \in [Keyword -> Int]
  /\ RetryDelay \in Nat \ {0} /\ Skew \in Nat
  /\ Limit \in Nat \ {0}
  /\ Overrun \in BOOLEAN /\ RunNow \in BOOLEAN
  /\ MaxTime \in Nat /\ MaxDisturbances \in Nat

\* A claim transaction waits at most innodb_lock_wait_timeout (50 s) for each
\* of its 20 UPDATEs, 1000 s, below the retry delay (1800 s) and below half of
\* an interval (86400 s by default).
ASSUME TimingAssumption ==
  /\ TxnBound \in Nat
  /\ TxnBound < RetryDelay
  /\ \A k \in Keyword : 2 * TxnBound < Interval[k]

VARIABLES
  now, next, enabled, pending,
  pc,           \* pc[w]: "idle", "selected", "update", "commit" or "run"
  cand,         \* cand[w]: candidates of the SELECT not yet tried
  seen,         \* seen[w]: candidates whose retry_pending was read as 1
  began,        \* began[w]: when w's SELECT took its snapshot
  stmt,         \* stmt[w]: NOW() of w's current UPDATE
  claimed,      \* claimed[w]: row w has updated and not yet committed, or None
  lock,         \* lock[k]: transaction (worker) holding k's row lock, or None
  hold, until,
  disturbances

rows  == <<next, enabled, pending>>
txn   == <<cand, seen, began, stmt, claimed>>
lease == <<hold, until>>
vars  == <<now, rows, pc, txn, lock, lease, disturbances>>

\* One disturbance more, while the bound allows it.
Disturb ==
  /\ disturbances < MaxDisturbances
  /\ disturbances' = disturbances + 1

InTxn(w) == pc[w] \in {"selected", "update", "commit"}

-----------------------------------------------------------------------------
(* The candidate query *)

Due(w) == {k \in Scope[w] : enabled[k] /\ next[k] <= now}

\* ORDER BY priority DESC, next_discover_at ASC; ties come in any order.
Before(a, b) ==
  \/ Priority[a] > Priority[b]
  \/ Priority[a] = Priority[b] /\ next[a] <= next[b]

Listed(s) == {s[i] : i \in DOMAIN s}

\* What the SELECT may return: the first Limit due rows in that order.
CandidateLists(w) ==
  {s \in UNION {[1..n -> Due(w)] : n \in 1..Limit} :
     /\ \A i, j \in DOMAIN s : i < j => s[i] # s[j] /\ Before(s[i], s[j])
     /\ \A k \in Due(w) \ Listed(s) :
          Len(s) = Limit /\ \A i \in DOMAIN s : Before(s[i], k)}

-----------------------------------------------------------------------------
Init ==
  /\ now = 0
  /\ next = [k \in Keyword |-> 0]
  /\ enabled \in [Keyword -> BOOLEAN]
  /\ pending \in [Keyword -> BOOLEAN]
  /\ pc = [w \in Worker |-> "idle"]
  /\ cand = [w \in Worker |-> <<>>]
  /\ seen = [w \in Worker |-> {}]
  /\ began = [w \in Worker |-> 0]
  /\ stmt = [w \in Worker |-> 0]
  /\ claimed = [w \in Worker |-> None]
  /\ lock = [k \in Keyword |-> None]
  /\ hold = [w \in Worker |-> None]
  /\ until = [w \in Worker |-> 0]
  /\ disturbances = 0

\* claim_next opens its transaction and reads the candidates.  With nothing due
\* it returns None and changes nothing.
Select(w) ==
  /\ pc[w] = "idle"
  /\ \E s \in CandidateLists(w) :
       /\ cand' = [cand EXCEPT ![w] = s]
       /\ seen' = [seen EXCEPT ![w] = {k \in Listed(s) : pending[k]}]
  /\ began' = [began EXCEPT ![w] = now]
  /\ pc' = [pc EXCEPT ![w] = "selected"]
  /\ UNCHANGED <<now, rows, stmt, claimed, lock, lease, disturbances>>

\* The UPDATE for the next candidate reaches the server, which fixes its NOW().
StartUpdate(w) ==
  /\ pc[w] = "selected"
  /\ stmt' = [stmt EXCEPT ![w] = now]
  /\ pc' = [pc EXCEPT ![w] = "update"]
  /\ UNCHANGED <<now, rows, cand, seen, began, claimed, lock, lease, disturbances>>

\* The row lock of the statement's row is granted to w.
Locks(w) ==
  /\ pc[w] = "update"
  /\ lock[Head(cand[w])] \in {None, w}
  /\ lock' = [lock EXCEPT ![Head(cand[w])] = w]

\* Mutants: the UPDATE checks only enabled, or only next_discover_at.
MatchesTaken(w, k) == enabled[k]
MatchesDisabled(w, k) == next[k] <= stmt[w]

\* The WHERE clause, on the latest committed version of the row.
Matches(w, k) == enabled[k] /\ next[k] <= stmt[w]

\* rowcount = 1: the candidate is w's once the transaction commits.
UpdateHit(w) ==
  /\ Locks(w)
  /\ Matches(w, Head(cand[w]))
  /\ claimed' = [claimed EXCEPT ![w] = Head(cand[w])]
  /\ pc' = [pc EXCEPT ![w] = "commit"]
  /\ UNCHANGED <<now, rows, cand, seen, began, stmt, lease, disturbances>>

\* rowcount = 0: go on with the next candidate, or leave with none.
UpdateMiss(w) ==
  /\ Locks(w)
  /\ ~Matches(w, Head(cand[w]))
  /\ cand' = [cand EXCEPT ![w] = Tail(@)]
  /\ pc' = [pc EXCEPT ![w] = IF Len(cand[w]) > 1 THEN "selected" ELSE "commit"]
  /\ UNCHANGED <<now, rows, seen, began, stmt, claimed, lease, disturbances>>

\* Mutant: the connection goes back to the pool with its transaction open.
EndTxnOpen(w) ==
  /\ lock' = lock
  /\ cand' = [cand EXCEPT ![w] = <<>>]
  /\ began' = [began EXCEPT ![w] = 0]
  /\ stmt' = [stmt EXCEPT ![w] = 0]
  /\ claimed' = [claimed EXCEPT ![w] = None]

\* The end of w's transaction: its row locks are free, its cursor is gone.
EndTxn(w) ==
  /\ lock' = [k \in Keyword |-> IF lock[k] = w THEN None ELSE lock[k]]
  /\ cand' = [cand EXCEPT ![w] = <<>>]
  /\ began' = [began EXCEPT ![w] = 0]
  /\ stmt' = [stmt EXCEPT ![w] = 0]
  /\ claimed' = [claimed EXCEPT ![w] = None]

\* next_discover_at of the UPDATE: its NOW() plus the keyword's interval.
LeaseEnd(w) == stmt[w] + Interval[claimed[w]]

\* Commit of a claim: claim_next returns the keyword with the flags of the
\* snapshot, and the worker starts to collect it.
CommitClaim(w) ==
  /\ pc[w] = "commit"
  /\ claimed[w] # None
  /\ next' = [next EXCEPT ![claimed[w]] = LeaseEnd(w)]
  /\ hold' = [hold EXCEPT ![w] = claimed[w]]
  /\ until' = [until EXCEPT ![w] = LeaseEnd(w)]
  /\ seen' = [seen EXCEPT ![w] = @ \cap {claimed[w]}]
  /\ pc' = [pc EXCEPT ![w] = "run"]
  /\ EndTxn(w)
  /\ UNCHANGED <<now, enabled, pending, disturbances>>

\* Every candidate was lost to others: commit, and claim_next returns None.
CommitNothing(w) ==
  /\ pc[w] = "commit"
  /\ claimed[w] = None
  /\ seen' = [seen EXCEPT ![w] = {}]
  /\ pc' = [pc EXCEPT ![w] = "idle"]
  /\ EndTxn(w)
  /\ UNCHANGED <<now, rows, lease, disturbances>>

-----------------------------------------------------------------------------
(* Failures *)

Rollback(w) ==
  /\ seen' = [seen EXCEPT ![w] = {}]
  /\ pc' = [pc EXCEPT ![w] = "idle"]
  /\ EndTxn(w)
  /\ UNCHANGED <<now, rows, lease>>

\* An exception inside the with block (lost connection, lock wait timeout,
\* json.loads of a malformed source_options_json) or the death of the process
\* rolls the transaction back; the dispatcher's loop tries again later.
ClaimFails(w) ==
  /\ InTxn(w)
  /\ Disturb
  /\ Rollback(w)

\* The server commits but the worker never learns of it.
CommitLost(w) ==
  /\ pc[w] = "commit"
  /\ claimed[w] # None
  /\ Disturb
  /\ next' = [next EXCEPT ![claimed[w]] = LeaseEnd(w)]
  /\ seen' = [seen EXCEPT ![w] = {}]
  /\ pc' = [pc EXCEPT ![w] = "idle"]
  /\ EndTxn(w)
  /\ UNCHANGED <<now, enabled, pending, lease>>

\* InnoDB's wait-for graph: w's UPDATE waits for the row lock of another claim.
Waiting(w) == pc[w] = "update" /\ lock[Head(cand[w])] \notin {None, w}
Blocker(w) == lock[Head(cand[w])]

\* Mutant: no wait-for graph (innodb_deadlock_detect = OFF).
DeadlockedUnseen(w) == FALSE

Deadlocked(w) ==
  \E S \in SUBSET Worker :
    /\ w \in S
    /\ \A v \in S : Waiting(v) /\ Blocker(v) \in S
    /\ \A v \in S : \E u \in S : Blocker(u) = v

\* The server breaks a cycle of waits by rolling one member back (error 1213).
DeadlockVictim(w) ==
  /\ Deadlocked(w)
  /\ Rollback(w)
  /\ UNCHANGED disturbances

-----------------------------------------------------------------------------
(* The run of a claimed keyword, as far as KeywordRepo sees it *)

\* Mutant: next_at without the delay.
RescheduleNow(w) ==
  /\ pc[w] = "run"
  /\ lock[hold[w]] = None
  /\ next' = [next EXCEPT ![hold[w]] = now]
  /\ until' = [until EXCEPT ![w] = now]
  /\ UNCHANGED <<now, enabled, pending, pc, txn, lock, hold, disturbances>>

Reschedule(w) ==
  /\ pc[w] = "run"
  /\ lock[hold[w]] = None
  /\ next' = [next EXCEPT ![hold[w]] = now + Skew + RetryDelay]
  /\ until' = [until EXCEPT ![w] = now + Skew + RetryDelay]
  /\ UNCHANGED <<now, enabled, pending, pc, txn, lock, hold, disturbances>>

SetRetryPending(w, b) ==
  /\ pc[w] = "run"
  /\ lock[hold[w]] = None
  /\ pending' = [pending EXCEPT ![hold[w]] = b]
  /\ UNCHANGED <<now, next, enabled, pc, txn, lock, lease, disturbances>>

EndRun(w) ==
  /\ pc[w] = "run"
  /\ hold' = [hold EXCEPT ![w] = None]
  /\ until' = [until EXCEPT ![w] = 0]
  /\ seen' = [seen EXCEPT ![w] = {}]
  /\ pc' = [pc EXCEPT ![w] = "idle"]
  /\ UNCHANGED <<now, rows, cand, began, stmt, claimed, lock>>

Finish(w) == EndRun(w) /\ UNCHANGED disturbances

\* SIGTERM, a crash or a kill: the row keeps the lease, nobody collects it.
RunDies(w) ==
  /\ Disturb
  /\ EndRun(w)

-----------------------------------------------------------------------------
(* Environment *)

\* crawler-admin writes the same rows, each change a transaction of its own.
AdminRunNow(k) ==
  /\ RunNow
  /\ lock[k] = None
  /\ Disturb
  /\ next' = [next EXCEPT ![k] = now]
  /\ UNCHANGED <<now, enabled, pending, pc, txn, lock, lease>>

AdminToggle(k) ==
  /\ lock[k] = None
  /\ Disturb
  /\ enabled' = [enabled EXCEPT ![k] = ~@]
  /\ UNCHANGED <<now, next, pending, pc, txn, lock, lease>>

\* A run that must be over before its lease is.
LeaseBinds(w) == pc[w] = "run" /\ until[w] <= now + 1

Tick ==
  /\ now < MaxTime
  /\ \A w \in Worker : InTxn(w) => now < began[w] + TxnBound
  /\ Overrun \/ \A w \in Worker : ~LeaseBinds(w)
  /\ now' = now + 1
  /\ UNCHANGED <<rows, pc, txn, lock, lease, disturbances>>

\* The end of the modelled time, with nothing left to claim.
Horizon ==
  /\ now = MaxTime
  /\ \A w \in Worker : pc[w] = "idle" /\ Due(w) = {}
  /\ UNCHANGED vars

ClaimStep(w) ==
  \/ StartUpdate(w)
  \/ UpdateHit(w)
  \/ UpdateMiss(w)
  \/ CommitClaim(w)
  \/ CommitNothing(w)

Next ==
  \/ Tick
  \/ Horizon
  \/ \E w \in Worker :
       \/ Select(w)
       \/ ClaimStep(w)
       \/ DeadlockVictim(w)
       \/ ClaimFails(w)
       \/ CommitLost(w)
       \/ Reschedule(w)
       \/ Finish(w)
       \/ RunDies(w)
  \/ \E w \in Worker, b \in BOOLEAN : SetRetryPending(w, b)
  \/ \E k \in Keyword : AdminRunNow(k) \/ AdminToggle(k)

Spec == Init /\ [][Next]_vars

\* Every worker keeps running.  The server grants row locks in the order they
\* were asked for, so an UPDATE that is granted its row again and again is
\* eventually executed: strong fairness for ClaimStep.
Fairness ==
  /\ WF_vars(Tick)
  /\ \A w \in Worker :
       /\ WF_vars(Select(w))
       /\ SF_vars(ClaimStep(w))
       /\ WF_vars(DeadlockVictim(w))
       /\ WF_vars(Finish(w))

FairSpec == Spec /\ Fairness

-----------------------------------------------------------------------------
(* Properties *)

Types ==
  /\ now \in 0..MaxTime
  /\ next \in [Keyword -> Nat]
  /\ enabled \in [Keyword -> BOOLEAN]
  /\ pending \in [Keyword -> BOOLEAN]
  /\ pc \in [Worker -> {"idle", "selected", "update", "commit", "run"}]
  /\ cand \in [Worker -> Seq(Keyword)]
  /\ seen \in [Worker -> SUBSET Keyword]
  /\ began \in [Worker -> Nat]
  /\ stmt \in [Worker -> Nat]
  /\ claimed \in [Worker -> Keyword \cup {None}]
  /\ lock \in [Keyword -> Worker \cup {None}]
  /\ hold \in [Worker -> Keyword \cup {None}]
  /\ until \in [Worker -> Nat]
  /\ disturbances \in 0..MaxDisturbances

Agreement ==
  /\ \A w \in Worker :
       /\ pc[w] = "run" <=> hold[w] # None
       /\ pc[w] \in {"selected", "update"} => cand[w] # <<>>
       /\ claimed[w] # None => pc[w] = "commit" /\ lock[claimed[w]] = w
  /\ \A k \in Keyword : lock[k] # None => InTxn(lock[k])

\* Types, and the agreement of pc with what it stands for: a worker is in "run"
\* exactly while it holds a keyword, and only a transaction holds row locks.
TypeOK == Types /\ Agreement

\* dispatcher.py's reason why several workers may run at once: while no run
\* outlasts the lease its claim wrote and no operator pulls a held keyword
\* forward, no two workers collect the same keyword, whatever the snapshots,
\* the lock waits, the failures and the reschedules.
AtMostOneHolder ==
  ~Overrun /\ ~RunNow =>
    \A v, w \in Worker : hold[v] # None /\ hold[v] = hold[w] => v = w

\* The retry_pending that claim_next returns was read by the SELECT, not by the
\* UPDATE that takes the row.  When runs keep to their leases it is still the
\* row's value at the commit, so a full scan asked for by the previous run of
\* the keyword is never missed.
FreshRetryFlag ==
  ~Overrun /\ ~RunNow =>
    \A w \in Worker :
      claimed[w] # None => (claimed[w] \in seen[w] <=> pending[claimed[w]])

-----------------------------------------------------------------------------
(* Inductive strengthening of AtMostOneHolder and FreshRetryFlag *)

\* A claim is younger than TxnBound, and its UPDATE is no older than its SELECT.
Clocks ==
  \A w \in Worker :
    /\ InTxn(w) => began[w] <= now /\ now <= began[w] + TxnBound
    /\ pc[w] \in {"update", "commit"} => began[w] <= stmt[w] /\ stmt[w] <= now

\* The row lock keeps what the UPDATE's WHERE clause found true until the commit.
ClaimedIsDue ==
  \A w \in Worker :
    /\ Listed(cand[w]) \subseteq Scope[w]
    /\ claimed[w] # None =>
         /\ claimed[w] \in Scope[w]
         /\ enabled[claimed[w]]
         /\ next[claimed[w]] <= stmt[w]

\* A held keyword is not due: its row carries the holder's unexpired lease.
HeldIsLeased ==
  \A w \in Worker :
    hold[w] # None => next[hold[w]] = until[w] /\ now < until[w]

OneHolder ==
  \A v, w \in Worker : hold[v] # None /\ hold[v] = hold[w] => v = w

\* A row that w's SELECT listed either is as the SELECT saw it, or was taken
\* since and stays out of reach until w's transaction must be over.
SnapshotHolds ==
  \A w \in Worker : InTxn(w) =>
    \A k \in Keyword : k \in Listed(cand[w]) \/ k = claimed[w] =>
      \/ next[k] <= began[w] /\ (k \in seen[w] <=> pending[k])
      \/ began[w] + TxnBound < next[k]

ClaimInv == TypeOK /\ Clocks /\ ClaimedIsDue

LeaseInv ==
  /\ ClaimInv
  /\ ~Overrun /\ ~RunNow => HeldIsLeased /\ OneHolder /\ SnapshotHolds

-----------------------------------------------------------------------------
(* Refinement and liveness *)

\* The claim transaction implements the atomic lease: whatever the order of the
\* two statements, the locks and the failures, it looks to the outside like one
\* step that takes an enabled, due keyword and moves it into the future.
Lease == INSTANCE KeywordLease

LeaseSpec == Lease!Spec

\* No claim waits for ever for the row locks of other claims: a claim keeps the
\* lock of every candidate it lost, so two claims that list the same rows in
\* opposite orders can each wait for the other; a claim_next call returns or
\* raises all the same.
ClaimReturns ==
  \A w \in Worker : InTxn(w) ~> ~InTxn(w)
=============================================================================
