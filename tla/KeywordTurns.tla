---------------------------- MODULE KeywordTurns ----------------------------
(***************************************************************************)
(* Whose turn it is: the loop of dispatcher.py and the ORDER BY of         *)
(* claim_next over unbounded time.  A claim is one step here, as           *)
(* KeywordClaim shows it to be, and takes the first due row of the         *)
(* worker's filter; a higher priority may fall due again and again and     *)
(* would starve the rest if the workers could not keep up.                 *)
(*                                                                         *)
(* Clocks count from an event, so that time need not end: wait[k] to the   *)
(* next_discover_at of k, age[w] from w's last claim or empty poll.        *)
(* Disturbances (lost or failing claims, dying processes, edits by an      *)
(* operator) are at most MaxDisturbances; failing runs are not bounded.    *)
(***************************************************************************)
EXTENDS Integers, FiniteSets

CONSTANTS
  Worker, Keyword, None, Scope, Priority, Interval, RetryDelay,
  RunBound,     \* longest run, its closing sleep included
  IdleBound,    \* longest sleep of an idle worker, a restart included
  LateBound,    \* rows that are due for longer are not told apart by age
  MaxDisturbances

ASSUME TurnsAssumption ==
  /\ None \notin Keyword
  /\ Scope \in [Worker -> SUBSET Keyword]
  /\ Priority \in [Keyword -> Int]
  /\ Interval \in [Keyword -> Nat \ {0}]
  /\ {RetryDelay, RunBound, IdleBound, LateBound} \subseteq Nat \ {0}
  /\ MaxDisturbances \in Nat

\* The load an installation must keep to: a worker gets round all keywords of
\* its filter before the first of them can be due again, even by the short
\* retry delay.  With more keywords than that the code serves the higher
\* priorities only.
ASSUME LoadAssumption ==
  \A w \in Worker :
    /\ Cardinality(Scope[w]) * (RunBound + IdleBound) <= RetryDelay
    /\ \A k \in Scope[w] : RetryDelay <= Interval[k]

VARIABLES wait, enabled, hold, age, disturbances

vars == <<wait, enabled, hold, age, disturbances>>

Disturb ==
  /\ disturbances < MaxDisturbances
  /\ disturbances' = disturbances + 1

Larger(a, b) == IF a > b THEN a ELSE b

Init ==
  /\ wait = [k \in Keyword |-> 0]
  /\ enabled \in [Keyword -> BOOLEAN]
  /\ hold = [w \in Worker |-> None]
  /\ age = [w \in Worker |-> 0]
  /\ disturbances = 0

-----------------------------------------------------------------------------
(* The loop of a worker *)

Due(w) == {k \in Scope[w] : enabled[k] /\ wait[k] <= 0}

\* ORDER BY priority DESC, next_discover_at ASC.
Before(a, b) ==
  \/ Priority[a] > Priority[b]
  \/ Priority[a] = Priority[b] /\ wait[a] <= wait[b]

First(w) == {k \in Due(w) : \A l \in Due(w) : Before(k, l)}

\* Mutant: the claim leaves next_discover_at where it is.
PushNothing(k) == wait' = wait

\* The claim's UPDATE moves k one interval ahead.
Push(k) == wait' = [wait EXCEPT ![k] = Interval[k]]

Take(w) ==
  /\ hold[w] = None
  /\ \E k \in First(w) : Push(k) /\ hold' = [hold EXCEPT ![w] = k]
  /\ age' = [age EXCEPT ![w] = 0]
  /\ UNCHANGED <<enabled, disturbances>>

\* Nothing due: sleep.
Sleep(w) ==
  /\ hold[w] = None
  /\ Due(w) = {}
  /\ age' = [age EXCEPT ![w] = 0]
  /\ UNCHANGED <<wait, enabled, hold, disturbances>>

\* The run is over; its keyword waits for what is left of the interval.
Finish(w) ==
  /\ hold[w] # None
  /\ hold' = [hold EXCEPT ![w] = None]
  /\ age' = [age EXCEPT ![w] = 0]
  /\ UNCHANGED <<wait, enabled, disturbances>>

\* The run was blocked, and its keyword gets the short delay.
FinishBlocked(w) ==
  /\ hold[w] # None
  /\ wait' = [wait EXCEPT ![hold[w]] = RetryDelay]
  /\ hold' = [hold EXCEPT ![w] = None]
  /\ age' = [age EXCEPT ![w] = 0]
  /\ UNCHANGED <<enabled, disturbances>>

-----------------------------------------------------------------------------
(* Disturbances *)

\* claim_next raises, or its commit is not heard of: sleep and try again.
ClaimFails(w) ==
  /\ hold[w] = None
  /\ Disturb
  /\ age' = [age EXCEPT ![w] = 0]
  /\ UNCHANGED <<wait, enabled, hold>>

TakeUnheard(w) ==
  /\ hold[w] = None
  /\ Disturb
  /\ \E k \in First(w) : Push(k)
  /\ age' = [age EXCEPT ![w] = 0]
  /\ UNCHANGED <<enabled, hold>>

\* The process ends in a run and is started again.
RunDies(w) ==
  /\ hold[w] # None
  /\ Disturb
  /\ hold' = [hold EXCEPT ![w] = None]
  /\ age' = [age EXCEPT ![w] = 0]
  /\ UNCHANGED <<wait, enabled>>

AdminRunNow(k) ==
  /\ Disturb
  /\ wait' = [wait EXCEPT ![k] = 0]
  /\ UNCHANGED <<enabled, hold, age>>

AdminToggle(k) ==
  /\ Disturb
  /\ enabled' = [enabled EXCEPT ![k] = ~@]
  /\ UNCHANGED <<wait, hold, age>>

-----------------------------------------------------------------------------
Tick ==
  /\ \A w \in Worker : age[w] < IF hold[w] = None THEN IdleBound ELSE RunBound
  /\ wait' = [k \in Keyword |-> Larger(wait[k] - 1, -LateBound)]
  /\ age' = [w \in Worker |-> age[w] + 1]
  /\ UNCHANGED <<enabled, hold, disturbances>>

Step(w) == Take(w) \/ Sleep(w) \/ Finish(w) \/ FinishBlocked(w)

Next ==
  \/ Tick
  \/ \E w \in Worker :
       Step(w) \/ ClaimFails(w) \/ TakeUnheard(w) \/ RunDies(w)
  \/ \E k \in Keyword : AdminRunNow(k) \/ AdminToggle(k)

\* Time passes, and no worker stands still for ever.
Fairness == WF_vars(Tick) /\ \A w \in Worker : WF_vars(Step(w))

FairSpec == Init /\ [][Next]_vars /\ Fairness

-----------------------------------------------------------------------------
\* A keyword that is due and enabled is collected some day, unless it is
\* disabled first: not just taken, for a claim that is not heard of moves it
\* on without a run.  ORDER BY priority serves the others first again and again,
\* and blocked runs bring those back early.
DueIsRun ==
  \A k \in UNION {Scope[w] : w \in Worker} :
    enabled[k] /\ wait[k] <= 0 ~> ~enabled[k] \/ \E w \in Worker : hold[w] = k
=============================================================================
