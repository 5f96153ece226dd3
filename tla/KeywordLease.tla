---------------------------- MODULE KeywordLease ----------------------------
(***************************************************************************)
(* What KeywordRepo promises to a discovery worker, with the transaction   *)
(* hidden: taking a due keyword is one atomic step that checks the row as  *)
(* it is at that instant and moves its next_discover_at past it, so every  *)
(* due occurrence of a keyword is handed to at most one worker.            *)
(*                                                                         *)
(* KeywordClaim is the detailed version (snapshot SELECT, one conditional  *)
(* UPDATE per candidate, row locks, commit) and is shown to implement this *)
(* module.  DiscoveryRun takes its keywords with the atomic Grant.         *)
(***************************************************************************)
EXTENDS Integers

CONSTANTS
  Worker,       \* discovery worker processes
  Keyword,      \* rows of t_keyword
  None,         \* no keyword
  Scope,        \* Scope[w]: the rows whose source_type passes w's filter
  Interval,     \* Interval[k]: t_keyword.interval_seconds
  RetryDelay,   \* DISCOVERY_403_RESCHEDULE_SEC / BOT_DETECT_RETRY_SEC
  Skew          \* worker wall clock (KST) minus the database session's NOW()

VARIABLES
  now,          \* NOW() of the database session
  next,         \* next[k]: next_discover_at, 0 for NULL
  enabled,      \* enabled[k]: t_keyword.enabled
  pending,      \* pending[k]: t_keyword.retry_pending
  hold,         \* hold[w]: the keyword w is collecting, or None
  until         \* until[w]: the next_discover_at w last wrote for hold[w]

vars == <<now, next, enabled, pending, hold, until>>

Init ==
  /\ now = 0
  /\ next = [k \in Keyword |-> 0]
  /\ enabled \in [Keyword -> BOOLEAN]
  /\ pending \in [Keyword -> BOOLEAN]
  /\ hold = [w \in Worker |-> None]
  /\ until = [w \in Worker |-> 0]

Tick ==
  /\ now' = now + 1
  /\ UNCHANGED <<next, enabled, pending, hold, until>>

\* Worker w takes k, which is enabled and due now; the lease it writes runs
\* from an instant between the one at which k fell due and now.
Grant(w, k) ==
  /\ hold[w] = None
  /\ k \in Scope[w]
  /\ enabled[k]
  /\ \E t \in next[k]..now :
       /\ next' = [next EXCEPT ![k] = t + Interval[k]]
       /\ until' = [until EXCEPT ![w] = t + Interval[k]]
  /\ hold' = [hold EXCEPT ![w] = k]
  /\ UNCHANGED <<now, enabled, pending>>

\* The occurrence is consumed but its reply is lost: nobody collects k.
GrantLost(k) ==
  /\ enabled[k]
  /\ \E t \in next[k]..now : next' = [next EXCEPT ![k] = t + Interval[k]]
  /\ UNCHANGED <<now, enabled, pending, hold, until>>

\* The worker that holds k, and no other, postpones it.
Reschedule(w) ==
  /\ hold[w] # None
  /\ next' = [next EXCEPT ![hold[w]] = now + Skew + RetryDelay]
  /\ until' = [until EXCEPT ![w] = now + Skew + RetryDelay]
  /\ UNCHANGED <<now, enabled, pending, hold>>

SetRetryPending(w, b) ==
  /\ hold[w] # None
  /\ pending' = [pending EXCEPT ![hold[w]] = b]
  /\ UNCHANGED <<now, next, enabled, hold, until>>

\* The run ends, by itself or with its process.
Release(w) ==
  /\ hold[w] # None
  /\ hold' = [hold EXCEPT ![w] = None]
  /\ until' = [until EXCEPT ![w] = 0]
  /\ UNCHANGED <<now, next, enabled, pending>>

AdminRunNow(k) ==
  /\ next' = [next EXCEPT ![k] = now]
  /\ UNCHANGED <<now, enabled, pending, hold, until>>

AdminToggle(k) ==
  /\ enabled' = [enabled EXCEPT ![k] = ~@]
  /\ UNCHANGED <<now, next, pending, hold, until>>

Next ==
  \/ Tick
  \/ \E w \in Worker : Reschedule(w) \/ Release(w)
  \/ \E w \in Worker, k \in Keyword : Grant(w, k)
  \/ \E w \in Worker, b \in BOOLEAN : SetRetryPending(w, b)
  \/ \E k \in Keyword : GrantLost(k) \/ AdminRunNow(k) \/ AdminToggle(k)

Spec == Init /\ [][Next]_vars
=============================================================================
