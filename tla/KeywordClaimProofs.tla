------------------------- MODULE KeywordClaimProofs -------------------------
(***************************************************************************)
(* Theorems about KeywordClaim for any number of workers and keywords.     *)
(***************************************************************************)
EXTENDS KeywordClaim, TLAPS

-----------------------------------------------------------------------------
(* The sequences of candidates *)

\* What is left of a candidate list after its head is a candidate list over the
\* same rows.
LEMMA TailListed ==
  ASSUME NEW S, NEW s \in Seq(S), s # <<>>
  PROVE  /\ Head(s) \in Listed(s) /\ Head(s) \in S
         /\ Tail(s) \in Seq(S)
         /\ Len(s) > 1 => Tail(s) # <<>>
         /\ Listed(Tail(s)) \subseteq Listed(s)
<1>1. /\ Len(s) \in Nat /\ Len(s) > 0
      /\ DOMAIN s = 1..Len(s)
      /\ Tail(s) \in Seq(S) /\ Len(Tail(s)) = Len(s) - 1
      /\ \A i \in 1..(Len(s) - 1) : Tail(s)[i] = s[i + 1]
  OBVIOUS
<1>2. Head(s) = s[1] /\ s[1] \in S
  BY <1>1
<1>3. Head(s) \in Listed(s)
  BY <1>1, <1>2 DEF Listed
<1>4. Listed(Tail(s)) \subseteq Listed(s)
  <2>1. ASSUME NEW i \in DOMAIN Tail(s)
        PROVE  Tail(s)[i] \in Listed(s)
    <3>1. i \in 1..(Len(s) - 1) /\ i + 1 \in DOMAIN s
      BY <1>1
    <3>2. QED BY <1>1, <3>1 DEF Listed
  <2>2. QED BY <2>1 DEF Listed
<1>5. Len(s) > 1 => Tail(s) # <<>>
  <2>1. Len(s) > 1 => Len(Tail(s)) # 0
    BY <1>1
  <2>2. QED BY <2>1
<1>6. QED BY <1>1, <1>2, <1>3, <1>4, <1>5

\* The candidate query returns a non-empty list of due rows.
LEMMA CandidatesAreDue ==
  ASSUME DomainAssumption, NEW w \in Worker, NEW s \in CandidateLists(w)
  PROVE  /\ s \in Seq(Keyword) /\ s # <<>>
         /\ Listed(s) \subseteq Due(w)
         /\ Due(w) \subseteq Scope[w] /\ Scope[w] \subseteq Keyword
<1>1. PICK n \in 1..Limit : s \in [1..n -> Due(w)]
  BY DEF CandidateLists
<1>2. Scope[w] \subseteq Keyword /\ Limit \in Nat
  BY DEF DomainAssumption
<1>3. Due(w) \subseteq Scope[w]
  BY DEF Due
<1>4. s \in Seq(Keyword) /\ s # <<>>
  BY <1>1, <1>2, <1>3
<1>5. Listed(s) \subseteq Due(w)
  BY <1>1 DEF Listed
<1>6. QED BY <1>2, <1>3, <1>4, <1>5

-----------------------------------------------------------------------------
(* Types *)

\* Every step keeps the types and the agreement of pc, claims and locks.
LEMMA TypeStep == TypeOK /\ [Next]_vars => TypeOK'
<1> USE DomainAssumption DEF DomainAssumption, TypeOK
<1> SUFFICES ASSUME Types, Agreement, [Next]_vars PROVE Types' /\ Agreement'
  OBVIOUS
<1>0. Disturb \/ UNCHANGED disturbances => disturbances' \in 0..MaxDisturbances
  BY DEF Disturb, Types
<1>1. CASE Tick
  BY <1>1 DEF Tick, Types, Agreement, rows, txn, lease, InTxn
<1>2. CASE UNCHANGED vars \/ Horizon
  BY <1>2 DEF Horizon, vars, Types, Agreement, rows, txn, lease, InTxn
<1>3. ASSUME NEW w \in Worker, Select(w) PROVE Types' /\ Agreement'
  <2>1. PICK s \in CandidateLists(w) :
          /\ cand' = [cand EXCEPT ![w] = s]
          /\ seen' = [seen EXCEPT ![w] = {k \in Listed(s) : pending[k]}]
    BY <1>3 DEF Select
  <2>2. s \in Seq(Keyword) /\ s # <<>> /\ Listed(s) \subseteq Keyword
    BY CandidatesAreDue
  <2>3. Types'
    BY <1>3, <2>1, <2>2 DEF Select, Types, rows, lease
  <2>4. Agreement'
    BY <1>3, <2>1, <2>2 DEF Select, Types, Agreement, lease, InTxn
  <2>5. QED BY <2>3, <2>4
<1>4. ASSUME NEW w \in Worker, StartUpdate(w) PROVE Types' /\ Agreement'
  BY <1>4 DEF StartUpdate, Types, Agreement, rows, lease, InTxn
<1>5. ASSUME NEW w \in Worker, UpdateHit(w) PROVE Types' /\ Agreement'
  <2>1. cand[w] \in Seq(Keyword) /\ cand[w] # <<>>
    BY <1>5 DEF UpdateHit, Locks, Types, Agreement
  <2>2. Head(cand[w]) \in Keyword
    BY <2>1, TailListed
  <2>3. Types'
    BY <1>5, <2>2 DEF UpdateHit, Locks, Types, rows, lease
  <2>4. Agreement'
    <3> DEFINE k == Head(cand[w])
    <3> HIDE DEF k
    <3>1. /\ pc[w] = "update" /\ claimed[w] = None /\ hold[w] = None
          /\ lock[k] \in {None, w} /\ lock' = [lock EXCEPT ![k] = w]
          /\ claimed' = [claimed EXCEPT ![w] = k]
          /\ pc' = [pc EXCEPT ![w] = "commit"]
          /\ k \in Keyword /\ UNCHANGED <<hold, cand>>
      BY <1>5, <2>2 DEF k, UpdateHit, Locks, Types, Agreement, lease
    <3>2. QED BY <3>1 DEF Types, Agreement, InTxn
  <2>5. QED BY <2>3, <2>4
<1>6. ASSUME NEW w \in Worker, UpdateMiss(w) PROVE Types' /\ Agreement'
  <2>1. cand[w] \in Seq(Keyword) /\ cand[w] # <<>>
    BY <1>6 DEF UpdateMiss, Locks, Types, Agreement
  <2>2. /\ Head(cand[w]) \in Keyword /\ Tail(cand[w]) \in Seq(Keyword)
        /\ Len(cand[w]) > 1 => Tail(cand[w]) # <<>>
    BY <2>1, TailListed
  <2>3. Types'
    BY <1>6, <2>2 DEF UpdateMiss, Locks, Types, rows, lease
  <2>4. Agreement'
    <3> DEFINE k == Head(cand[w])
    <3> DEFINE rest == Tail(cand[w])
    <3> DEFINE p == IF Len(cand[w]) > 1 THEN "selected" ELSE "commit"
    <3> HIDE DEF k, rest, p
    <3>1. /\ pc[w] = "update" /\ claimed[w] = None /\ hold[w] = None
          /\ lock[k] \in {None, w} /\ lock' = [lock EXCEPT ![k] = w]
          /\ cand' = [cand EXCEPT ![w] = rest]
          /\ pc' = [pc EXCEPT ![w] = p]
          /\ k \in Keyword /\ UNCHANGED <<hold, claimed>>
      BY <1>6, <2>2
         DEF k, rest, p, UpdateMiss, Locks, Types, Agreement, lease
    <3>2. p \in {"selected", "commit"} /\ (p = "selected" => rest # <<>>)
      BY <2>2 DEF p, rest
    <3>3. ASSUME NEW v \in Worker
          PROVE  /\ pc'[v] = "run" <=> hold'[v] # None
                 /\ pc'[v] \in {"selected", "update"} => cand'[v] # <<>>
                 /\ claimed'[v] # None =>
                      pc'[v] = "commit" /\ lock'[claimed'[v]] = v
      <4>1. CASE v = w
        BY <3>1, <3>2, <4>1 DEF Types
      <4>2. CASE v # w
        BY <3>1, <4>2 DEF Types, Agreement
      <4>3. QED BY <4>1, <4>2
    <3>4. ASSUME NEW j \in Keyword, lock'[j] # None
          PROVE  pc'[lock'[j]] \in {"selected", "update", "commit"}
      <4>1. CASE lock'[j] = w
        BY <3>1, <3>2, <4>1 DEF Types
      <4>2. CASE lock'[j] # w
        BY <3>1, <3>4, <4>2 DEF Types, Agreement, InTxn
      <4>3. QED BY <4>1, <4>2
    <3>5. QED BY <3>3, <3>4 DEF Agreement, InTxn
  <2>5. QED BY <2>3, <2>4
<1>7. ASSUME NEW w \in Worker, CommitClaim(w) PROVE Types' /\ Agreement'
  <2>1. /\ claimed[w] \in Keyword /\ LeaseEnd(w) \in Nat
        /\ pc[w] = "commit" /\ hold[w] = None
    BY <1>7 DEF CommitClaim, LeaseEnd, Types, Agreement
  <2>2. Types'
    BY <1>7, <2>1 DEF CommitClaim, EndTxn, Types
  <2>3. Agreement'
    BY <1>7, <2>1 DEF CommitClaim, EndTxn, Types, Agreement, InTxn
  <2>4. QED BY <2>2, <2>3
<1>8. ASSUME NEW w \in Worker, CommitNothing(w) PROVE Types' /\ Agreement'
  BY <1>8 DEF CommitNothing, EndTxn, Types, Agreement, rows, lease, InTxn
<1>9. ASSUME NEW w \in Worker, Rollback(w), InTxn(w),
             disturbances' \in 0..MaxDisturbances
      PROVE  Types' /\ Agreement'
  <2>1. Types'
    BY <1>9 DEF Rollback, EndTxn, Types, rows, lease
  <2>2. Agreement'
    BY <1>9 DEF Rollback, EndTxn, Types, Agreement, rows, lease, InTxn
  <2>3. QED BY <2>1, <2>2
<1>10. ASSUME NEW w \in Worker, DeadlockVictim(w) PROVE Types' /\ Agreement'
  <2>1. Waiting(w)
    BY <1>10 DEF DeadlockVictim, Deadlocked
  <2>2. QED BY <1>0, <1>9, <1>10, <2>1 DEF DeadlockVictim, Waiting, InTxn
<1>11. ASSUME NEW w \in Worker, ClaimFails(w) PROVE Types' /\ Agreement'
  BY <1>0, <1>9, <1>11 DEF ClaimFails
<1>12. ASSUME NEW w \in Worker, CommitLost(w) PROVE Types' /\ Agreement'
  <2>1. /\ claimed[w] \in Keyword /\ LeaseEnd(w) \in Nat
        /\ pc[w] = "commit" /\ hold[w] = None
    BY <1>12 DEF CommitLost, LeaseEnd, Types, Agreement
  <2>2. Types'
    BY <1>0, <1>12, <2>1 DEF CommitLost, EndTxn, Types, lease
  <2>3. Agreement'
    BY <1>12, <2>1 DEF CommitLost, EndTxn, Types, Agreement, lease, InTxn
  <2>4. QED BY <2>2, <2>3
<1>13. ASSUME NEW w \in Worker, Reschedule(w) PROVE Types' /\ Agreement'
  <2>1. hold[w] \in Keyword /\ now + Skew + RetryDelay \in Nat
    BY <1>13 DEF Reschedule, Types, Agreement
  <2>2. QED BY <1>13, <2>1 DEF Reschedule, Types, Agreement, txn, InTxn
<1>14. ASSUME NEW w \in Worker, EndRun(w), disturbances' \in 0..MaxDisturbances
       PROVE  Types' /\ Agreement'
  BY <1>14 DEF EndRun, Types, Agreement, rows, InTxn
<1>15. ASSUME NEW w \in Worker, Finish(w) \/ RunDies(w)
       PROVE  Types' /\ Agreement'
  BY <1>0, <1>14, <1>15 DEF Finish, RunDies
<1>16. ASSUME NEW w \in Worker, NEW b \in BOOLEAN, SetRetryPending(w, b)
       PROVE  Types' /\ Agreement'
  BY <1>16 DEF SetRetryPending, Types, Agreement, txn, lease, InTxn
<1>17. ASSUME NEW k \in Keyword, AdminRunNow(k) PROVE Types' /\ Agreement'
  BY <1>0, <1>17 DEF AdminRunNow, Types, Agreement, txn, lease, InTxn
<1>18. ASSUME NEW k \in Keyword, AdminToggle(k) PROVE Types' /\ Agreement'
  BY <1>0, <1>18 DEF AdminToggle, Types, Agreement, txn, lease, InTxn
<1>19. QED
  BY <1>1, <1>2, <1>3, <1>4, <1>5, <1>6, <1>7, <1>8, <1>10, <1>11, <1>12,
     <1>13, <1>15, <1>16, <1>17, <1>18 DEF Next, ClaimStep

\* Type correctness, for any workers and keywords: a worker holds a keyword
\* exactly while it runs it, and no row lock outlives its transaction.
THEOREM TypeCorrect == Spec => []TypeOK
<1>1. Init => TypeOK
  BY DomainAssumption
     DEF Init, TypeOK, Types, Agreement, DomainAssumption, InTxn
<1>2. QED BY <1>1, TypeStep, PTL DEF Spec

-----------------------------------------------------------------------------
(* What a claim knows of the row it is about to take *)

\* Every step keeps the claims in step with the clock.
LEMMA ClocksStep == TypeOK /\ Clocks /\ [Next]_vars => Clocks'
<1> USE DomainAssumption, TimingAssumption
    DEF DomainAssumption, TimingAssumption, TypeOK, Types
<1> SUFFICES ASSUME TypeOK, Clocks, [Next]_vars PROVE Clocks'
  OBVIOUS
<1>1. CASE Tick
  BY <1>1 DEF Tick, Clocks, txn, InTxn
<1>2. CASE UNCHANGED <<now, pc, began, stmt>>
  BY <1>2 DEF Clocks, InTxn
<1>3. ASSUME NEW w \in Worker, Select(w) PROVE Clocks'
  BY <1>3 DEF Select, Clocks, InTxn
<1>4. ASSUME NEW w \in Worker, StartUpdate(w) PROVE Clocks'
  BY <1>4 DEF StartUpdate, Clocks, InTxn
<1>5. ASSUME NEW w \in Worker, UpdateHit(w) PROVE Clocks'
  BY <1>5 DEF UpdateHit, Locks, Clocks, InTxn
<1>6. ASSUME NEW w \in Worker, UpdateMiss(w) PROVE Clocks'
  <2>1. /\ pc[w] = "update"
        /\ \E p \in {"selected", "commit"} : pc' = [pc EXCEPT ![w] = p]
        /\ UNCHANGED <<now, began, stmt>>
    BY <1>6 DEF UpdateMiss, Locks
  <2>2. QED BY <2>1 DEF Clocks, InTxn
<1>7. ASSUME NEW w \in Worker, pc'[w] \notin {"selected", "update", "commit"},
             now' = now,
             \A v \in Worker \ {w} :
               pc'[v] = pc[v] /\ began'[v] = began[v] /\ stmt'[v] = stmt[v]
      PROVE  Clocks'
  BY <1>7 DEF Clocks, InTxn
<1>8. ASSUME NEW w \in Worker,
             \/ CommitClaim(w) \/ CommitNothing(w) \/ DeadlockVictim(w)
             \/ ClaimFails(w) \/ CommitLost(w) \/ Finish(w) \/ RunDies(w)
      PROVE  Clocks'
  BY <1>7, <1>8 DEF CommitClaim, CommitNothing, DeadlockVictim, ClaimFails,
     CommitLost, Finish, RunDies, Rollback, EndTxn, EndRun
<1>9. ASSUME NEW w \in Worker, Reschedule(w) PROVE Clocks'
  BY <1>2, <1>9 DEF Reschedule, txn
<1>10. ASSUME NEW w \in Worker, NEW b \in BOOLEAN, SetRetryPending(w, b)
       PROVE  Clocks'
  BY <1>2, <1>10 DEF SetRetryPending, txn
<1>11. ASSUME NEW k \in Keyword, AdminRunNow(k) \/ AdminToggle(k) PROVE Clocks'
  BY <1>2, <1>11 DEF AdminRunNow, AdminToggle, txn
<1>12. CASE UNCHANGED vars \/ Horizon
  BY <1>2, <1>12 DEF Horizon, vars, txn
<1>13. QED
  BY <1>1, <1>3, <1>4, <1>5, <1>6, <1>8, <1>9, <1>10, <1>11, <1>12
     DEF Next, ClaimStep

\* Every step keeps the row of an uncommitted claim enabled and due.
LEMMA DueStep == TypeOK /\ ClaimedIsDue /\ [Next]_vars => ClaimedIsDue'
<1> USE DomainAssumption DEF DomainAssumption, TypeOK, Types
<1> SUFFICES ASSUME TypeOK, ClaimedIsDue, [Next]_vars PROVE ClaimedIsDue'
  OBVIOUS
<1>1. ASSUME UNCHANGED <<enabled, next, cand, claimed, stmt>>
      PROVE  ClaimedIsDue'
  BY <1>1 DEF ClaimedIsDue
<1>2. ASSUME NEW w \in Worker, Select(w) PROVE ClaimedIsDue'
  <2>1. PICK s \in CandidateLists(w) : cand' = [cand EXCEPT ![w] = s]
    BY <1>2 DEF Select
  <2>2. Listed(s) \subseteq Scope[w]
    BY CandidatesAreDue
  <2>3. QED BY <1>2, <2>1, <2>2 DEF Select, ClaimedIsDue, rows
<1>3. ASSUME NEW w \in Worker, StartUpdate(w) PROVE ClaimedIsDue'
  BY <1>3 DEF StartUpdate, ClaimedIsDue, Agreement, rows
<1>4. ASSUME NEW w \in Worker, UpdateHit(w) PROVE ClaimedIsDue'
  <2>1. cand[w] \in Seq(Keyword) /\ cand[w] # <<>>
    BY <1>4 DEF UpdateHit, Locks, Agreement
  <2>2. Head(cand[w]) \in Listed(cand[w])
    BY <2>1, TailListed
  <2>3. QED BY <1>4, <2>2 DEF UpdateHit, Matches, ClaimedIsDue, rows
<1>5. ASSUME NEW w \in Worker, UpdateMiss(w) PROVE ClaimedIsDue'
  <2>1. cand[w] \in Seq(Keyword) /\ cand[w] # <<>>
    BY <1>5 DEF UpdateMiss, Locks, Agreement
  <2>2. Listed(Tail(cand[w])) \subseteq Listed(cand[w])
    BY <2>1, TailListed
  <2>3. QED BY <1>5, <2>2 DEF UpdateMiss, ClaimedIsDue, rows
<1>6. ASSUME NEW w \in Worker, EndTxn(w), enabled' = enabled,
             \A v \in Worker \ {w} :
               claimed[v] # None => next'[claimed[v]] = next[claimed[v]]
      PROVE  ClaimedIsDue'
  <2>1. Listed(<<>>) = {}
    BY DEF Listed
  <2>2. QED BY <1>6, <2>1 DEF EndTxn, ClaimedIsDue
<1>7. ASSUME NEW w \in Worker, CommitClaim(w) \/ CommitLost(w)
      PROVE  ClaimedIsDue'
  <2>1. \A v \in Worker \ {w} : claimed[v] # None => claimed[v] # claimed[w]
    BY <1>7 DEF CommitClaim, CommitLost, Agreement
  <2>2. QED BY <1>6, <1>7, <2>1 DEF CommitClaim, CommitLost
<1>8. ASSUME NEW w \in Worker,
             CommitNothing(w) \/ DeadlockVictim(w) \/ ClaimFails(w)
      PROVE  ClaimedIsDue'
  BY <1>6, <1>8 DEF CommitNothing, DeadlockVictim, ClaimFails, Rollback, rows
<1>9. ASSUME NEW k \in Keyword, lock[k] = None,
             UNCHANGED <<cand, claimed, stmt>>,
             \A j \in Keyword \ {k} : next'[j] = next[j] /\ enabled'[j] = enabled[j]
      PROVE  ClaimedIsDue'
  <2>1. ASSUME NEW v \in Worker PROVE claimed[v] # k
    <3>1. claimed[v] # None => lock[claimed[v]] = v
      BY DEF Agreement
    <3>2. QED BY <1>9, <3>1
  <2>2. QED BY <1>9, <2>1 DEF ClaimedIsDue
<1>10. ASSUME NEW w \in Worker, Reschedule(w) PROVE ClaimedIsDue'
  <2>1. hold[w] \in Keyword
    BY <1>10 DEF Reschedule, Agreement
  <2>2. QED BY <1>9, <1>10, <2>1 DEF Reschedule, txn
<1>11. ASSUME NEW k \in Keyword, AdminRunNow(k) \/ AdminToggle(k)
       PROVE  ClaimedIsDue'
  BY <1>9, <1>11 DEF AdminRunNow, AdminToggle, txn
<1>12. ASSUME NEW w \in Worker, Finish(w) \/ RunDies(w) PROVE ClaimedIsDue'
  BY <1>1, <1>12 DEF Finish, RunDies, EndRun, rows
<1>13. ASSUME NEW w \in Worker, NEW b \in BOOLEAN, SetRetryPending(w, b)
       PROVE  ClaimedIsDue'
  BY <1>1, <1>13 DEF SetRetryPending, txn
<1>14. CASE Tick \/ Horizon \/ UNCHANGED vars
  BY <1>1, <1>14 DEF Tick, Horizon, vars, rows, txn
<1>15. QED
  BY <1>2, <1>3, <1>4, <1>5, <1>7, <1>8, <1>10, <1>11, <1>12, <1>13, <1>14
     DEF Next, ClaimStep

\* The types, the clocks and the claims are invariant.
LEMMA ClaimInvariant == Spec => []ClaimInv
<1>1. Init => ClaimInv
  <2>1. Init => TypeOK
    BY DomainAssumption
       DEF Init, TypeOK, Types, Agreement, DomainAssumption, InTxn
  <2>2. Init => Clocks /\ ClaimedIsDue
    BY DEF Init, Clocks, ClaimedIsDue, Listed, InTxn
  <2>3. QED BY <2>1, <2>2 DEF ClaimInv
<1>2. ClaimInv /\ [Next]_vars => ClaimInv'
  BY TypeStep, ClocksStep, DueStep DEF ClaimInv
<1>3. QED BY <1>1, <1>2, PTL DEF Spec

-----------------------------------------------------------------------------
(* One holder per keyword, when runs keep to their leases *)

Calm == ~Overrun /\ ~RunNow

\* The lease a claim writes outlives every claim transaction that is open when
\* it is written.
LEMMA LeaseOutlivesClaims ==
  ASSUME ClaimInv, NEW w \in Worker, claimed[w] # None
  PROVE  /\ claimed[w] \in Keyword /\ LeaseEnd(w) \in Nat
         /\ next[claimed[w]] <= now
         /\ now < LeaseEnd(w)
         /\ \A v \in Worker : InTxn(v) => began[v] + TxnBound < LeaseEnd(w)
<1> USE DomainAssumption, TimingAssumption
    DEF DomainAssumption, TimingAssumption, TypeOK, Types
<1>1. /\ claimed[w] \in Keyword /\ pc[w] = "commit" /\ InTxn(w)
      /\ next[claimed[w]] <= stmt[w]
  BY DEF ClaimInv, Agreement, ClaimedIsDue, InTxn
<1>2. /\ began[w] \in Nat /\ stmt[w] \in Nat /\ now \in Nat
      /\ next[claimed[w]] \in Nat /\ Interval[claimed[w]] \in Nat
      /\ 2 * TxnBound < Interval[claimed[w]]
  BY <1>1 DEF ClaimInv
<1>3. began[w] <= stmt[w] /\ stmt[w] <= now /\ now <= began[w] + TxnBound
  BY <1>1 DEF ClaimInv, Clocks
<1>4. LeaseEnd(w) \in Nat /\ now + TxnBound < LeaseEnd(w)
  BY <1>2, <1>3 DEF LeaseEnd
<1>5. ASSUME NEW v \in Worker, InTxn(v)
      PROVE  began[v] + TxnBound < LeaseEnd(w)
  <2>1. began[v] \in Nat /\ began[v] <= now
    BY <1>5 DEF ClaimInv, Clocks
  <2>2. QED BY <1>2, <1>4, <2>1
<1>6. QED BY <1>1, <1>2, <1>3, <1>4, <1>5

\* The steps that touch the clock, next_discover_at or the holders.
LEMMA ClockOrRowStep ==
  [Next]_vars =>
    \/ Tick
    \/ \E w \in Worker : CommitClaim(w) \/ CommitLost(w)
    \/ \E w \in Worker : Reschedule(w) \/ EndRun(w)
    \/ \E k \in Keyword : AdminRunNow(k)
    \/ UNCHANGED <<now, next, hold, until>>
BY DEF Next, ClaimStep, Horizon, vars, rows, lease, Select, StartUpdate,
       UpdateHit, UpdateMiss, CommitNothing, DeadlockVictim, ClaimFails,
       Rollback, Finish, RunDies, SetRetryPending, AdminToggle

\* Every step keeps the lease of every holder in the row it holds.
LEMMA HeldStep ==
  Calm /\ ClaimInv /\ HeldIsLeased /\ OneHolder /\ [Next]_vars
    => HeldIsLeased' /\ OneHolder'
<1> USE DomainAssumption DEF DomainAssumption, TypeOK, Types
<1> SUFFICES ASSUME Calm, ClaimInv, HeldIsLeased, OneHolder, [Next]_vars
             PROVE  HeldIsLeased' /\ OneHolder'
  OBVIOUS
<1> USE DEF ClaimInv
<1>1. CASE Tick
  <2>1. ASSUME NEW w \in Worker, hold[w] # None PROVE now + 1 < until[w]
    <3>1. pc[w] = "run" /\ now \in Nat /\ until[w] \in Nat
      BY <2>1 DEF Agreement
    <3>2. QED BY <1>1, <3>1 DEF Tick, LeaseBinds, Calm
  <2>2. QED
    BY <1>1, <2>1 DEF Tick, HeldIsLeased, OneHolder, rows, lease
<1>2. CASE UNCHANGED <<now, next, hold, until>>
  BY <1>2 DEF HeldIsLeased, OneHolder
<1>3. ASSUME NEW w \in Worker, CommitClaim(w) \/ CommitLost(w)
      PROVE  HeldIsLeased' /\ OneHolder'
  <2> DEFINE k == claimed[w]
  <2>1. k \in Keyword /\ LeaseEnd(w) \in Nat /\ next[k] <= now /\ now < LeaseEnd(w)
    BY <1>3, LeaseOutlivesClaims DEF CommitClaim, CommitLost
  <2>2. ASSUME NEW v \in Worker PROVE hold[v] # k
    <3>1. next[k] \in Nat /\ now \in Nat /\ k # None
      BY <2>1
    <3>2. hold[v] = k => now < next[k]
      BY <3>1 DEF HeldIsLeased
    <3>3. QED BY <2>1, <3>1, <3>2
  <2>3. CASE CommitClaim(w)
    <3>1. /\ next' = [next EXCEPT ![k] = LeaseEnd(w)]
          /\ hold' = [hold EXCEPT ![w] = k]
          /\ until' = [until EXCEPT ![w] = LeaseEnd(w)]
          /\ now' = now
      BY <2>3 DEF CommitClaim
    <3>2. QED BY <2>1, <2>2, <3>1 DEF HeldIsLeased, OneHolder
  <2>4. CASE CommitLost(w)
    <3>1. next' = [next EXCEPT ![k] = LeaseEnd(w)] /\ UNCHANGED <<now, hold, until>>
      BY <2>4 DEF CommitLost, lease
    <3>2. QED BY <2>1, <2>2, <3>1 DEF HeldIsLeased, OneHolder
  <2>5. QED BY <1>3, <2>3, <2>4
<1>4. ASSUME NEW w \in Worker, Reschedule(w) PROVE HeldIsLeased' /\ OneHolder'
  <2>1. hold[w] \in Keyword
    BY <1>4 DEF Reschedule, Agreement
  <2> DEFINE later == now + Skew + RetryDelay
  <2>2. now < later /\ later \in Nat
    OBVIOUS
  <2>3. /\ next' = [next EXCEPT ![hold[w]] = later]
        /\ until' = [until EXCEPT ![w] = later]
        /\ UNCHANGED <<now, hold>>
    BY <1>4 DEF Reschedule
  <2> HIDE DEF later
  <2>4. QED BY <2>1, <2>2, <2>3 DEF HeldIsLeased, OneHolder
<1>5. ASSUME NEW w \in Worker, EndRun(w) PROVE HeldIsLeased' /\ OneHolder'
  BY <1>5 DEF EndRun, HeldIsLeased, OneHolder, rows
<1>6. ASSUME NEW k \in Keyword, AdminRunNow(k) PROVE FALSE
  BY <1>6 DEF AdminRunNow, Calm
<1>7. QED
  BY <1>1, <1>2, <1>3, <1>4, <1>5, <1>6, ClockOrRowStep

\* Every step keeps what a claim's snapshot says of the rows it may still take.
LEMMA SnapshotStep ==
  Calm /\ ClaimInv /\ HeldIsLeased /\ SnapshotHolds /\ [Next]_vars
    => SnapshotHolds'
<1> USE DomainAssumption, TimingAssumption
    DEF DomainAssumption, TimingAssumption, TypeOK, Types
<1> SUFFICES ASSUME Calm, ClaimInv, HeldIsLeased, SnapshotHolds, [Next]_vars
             PROVE  SnapshotHolds'
  OBVIOUS
<1> DEFINE Listing(w, k) == k \in Listed(cand[w]) \/ k = claimed[w]
           Fresh(w, k) == next[k] <= began[w] /\ (k \in seen[w] <=> pending[k])
           Gone(w, k) == began[w] + TxnBound < next[k]
<1> USE DEF ClaimInv
<1>1. ASSUME UNCHANGED <<next, pending, began, seen>>,
             \A w \in Worker : InTxn(w)' => InTxn(w),
             \A w \in Worker, k \in Keyword :
               InTxn(w)' /\ Listing(w, k)' => Listing(w, k)
      PROVE  SnapshotHolds'
  BY <1>1 DEF SnapshotHolds
<1>2. ASSUME NEW w \in Worker, Select(w) PROVE SnapshotHolds'
  <2>1. PICK s \in CandidateLists(w) :
          /\ cand' = [cand EXCEPT ![w] = s]
          /\ seen' = [seen EXCEPT ![w] = {k \in Listed(s) : pending[k]}]
    BY <1>2 DEF Select
  <2>2. \A k \in Listed(s) : k \in Keyword /\ next[k] <= now
    BY CandidatesAreDue DEF Due
  <2>3. claimed[w] = None
    BY <1>2 DEF Select, Agreement
  <2>4. ASSUME NEW k \in Keyword, Listing(w, k)' PROVE Fresh(w, k)'
    BY <1>2, <2>1, <2>2, <2>3, <2>4 DEF Select, rows
  <2>5. ASSUME NEW v \in Worker \ {w}, NEW k \in Keyword
        PROVE  /\ InTxn(v)' <=> InTxn(v)
               /\ Listing(v, k)' <=> Listing(v, k)
               /\ Fresh(v, k)' <=> Fresh(v, k)
               /\ Gone(v, k)' <=> Gone(v, k)
    BY <1>2, <2>1 DEF Select, rows, InTxn
  <2>6. QED BY <2>4, <2>5 DEF SnapshotHolds
<1>3. ASSUME NEW w \in Worker, StartUpdate(w) PROVE SnapshotHolds'
  BY <1>1, <1>3 DEF StartUpdate, rows, InTxn
<1>4. ASSUME NEW w \in Worker, UpdateHit(w) PROVE SnapshotHolds'
  <2>1. cand[w] \in Seq(Keyword) /\ cand[w] # <<>> /\ pc[w] = "update"
    BY <1>4 DEF UpdateHit, Locks, Agreement
  <2>2. Head(cand[w]) \in Listed(cand[w])
    BY <2>1, TailListed
  <2>3. QED BY <1>1, <1>4, <2>1, <2>2 DEF UpdateHit, rows, InTxn
<1>5. ASSUME NEW w \in Worker, UpdateMiss(w) PROVE SnapshotHolds'
  <2>1. cand[w] \in Seq(Keyword) /\ cand[w] # <<>> /\ pc[w] = "update"
    BY <1>5 DEF UpdateMiss, Locks, Agreement
  <2>2. Listed(Tail(cand[w])) \subseteq Listed(cand[w])
    BY <2>1, TailListed
  <2>3. QED BY <1>1, <1>5, <2>1, <2>2 DEF UpdateMiss, rows, InTxn
<1>6. ASSUME NEW w \in Worker, EndTxn(w), ~InTxn(w)', UNCHANGED <<next, pending>>,
             \A v \in Worker \ {w} : pc'[v] = pc[v] /\ seen'[v] = seen[v]
      PROVE  SnapshotHolds'
  BY <1>6 DEF EndTxn, SnapshotHolds, InTxn
<1>7. ASSUME NEW w \in Worker,
             CommitNothing(w) \/ DeadlockVictim(w) \/ ClaimFails(w)
      PROVE  SnapshotHolds'
  BY <1>6, <1>7 DEF CommitNothing, DeadlockVictim, ClaimFails, Rollback, rows, InTxn
<1>8. ASSUME NEW w \in Worker, CommitClaim(w) \/ CommitLost(w)
      PROVE  SnapshotHolds'
  <2>1. /\ claimed[w] \in Keyword
        /\ \A v \in Worker : InTxn(v) => began[v] + TxnBound < LeaseEnd(w)
    BY <1>8, LeaseOutlivesClaims DEF CommitClaim, CommitLost
  <2>2. /\ EndTxn(w) /\ ~InTxn(w)' /\ pending' = pending
        /\ next' = [next EXCEPT ![claimed[w]] = LeaseEnd(w)]
        /\ \A v \in Worker \ {w} : pc'[v] = pc[v] /\ seen'[v] = seen[v]
    BY <1>8 DEF CommitClaim, CommitLost, InTxn
  <2>3. ASSUME NEW v \in Worker \ {w}, NEW k \in Keyword, InTxn(v), Listing(v, k)
        PROVE  Fresh(v, k)' \/ Gone(v, k)'
    <3>1. k = claimed[w] => Gone(v, k)'
      BY <2>1, <2>2, <2>3 DEF EndTxn
    <3>2. k # claimed[w] => (Fresh(v, k)' <=> Fresh(v, k)) /\ (Gone(v, k)' <=> Gone(v, k))
      BY <2>2 DEF EndTxn
    <3>3. Fresh(v, k) \/ Gone(v, k)
      BY <2>3 DEF SnapshotHolds
    <3>4. QED BY <3>1, <3>2, <3>3
  <2>4. QED BY <2>2, <2>3 DEF EndTxn, SnapshotHolds, InTxn
<1>9. ASSUME NEW h \in Worker, hold[h] # None, NEW v \in Worker, InTxn(v),
             NEW k \in Keyword, Listing(v, k), k = hold[h]
      PROVE  Gone(v, k)
  <2>1. began[v] <= now /\ now < next[k]
    BY <1>9 DEF Clocks, HeldIsLeased
  <2>2. ~Fresh(v, k)
    BY <2>1
  <2>3. QED BY <1>9, <2>2 DEF SnapshotHolds
<1>10. ASSUME NEW w \in Worker, Reschedule(w) PROVE SnapshotHolds'
  <2>1. hold[w] \in Keyword
    BY <1>10 DEF Reschedule, Agreement
  <2>2. /\ next' = [next EXCEPT ![hold[w]] = now + Skew + RetryDelay]
        /\ UNCHANGED <<pc, pending, cand, seen, began, claimed>>
    BY <1>10 DEF Reschedule, txn
  <2>3. ASSUME NEW v \in Worker, NEW k \in Keyword, InTxn(v), Listing(v, k)
        PROVE  Fresh(v, k)' \/ Gone(v, k)'
    <3>1. CASE k = hold[w]
      <4>1. began[v] \in Nat /\ began[v] <= now /\ now \in Nat
        BY <2>3 DEF Clocks
      <4>2. began[v] + TxnBound < now + Skew + RetryDelay
        BY <4>1
      <4>3. QED BY <2>1, <2>2, <3>1, <4>2
    <3>2. CASE k # hold[w]
      BY <2>2, <2>3, <3>2 DEF SnapshotHolds
    <3>3. QED BY <3>1, <3>2
  <2>4. QED BY <2>2, <2>3 DEF SnapshotHolds, InTxn
<1>11. ASSUME NEW w \in Worker, NEW b \in BOOLEAN, SetRetryPending(w, b)
       PROVE  SnapshotHolds'
  <2>1. hold[w] \in Keyword
    BY <1>11 DEF SetRetryPending, Agreement
  <2>2. /\ pending' = [pending EXCEPT ![hold[w]] = b]
        /\ UNCHANGED <<pc, next, cand, seen, began, claimed>>
    BY <1>11 DEF SetRetryPending, txn
  <2>3. ASSUME NEW v \in Worker, NEW k \in Keyword, InTxn(v), Listing(v, k)
        PROVE  Fresh(v, k)' \/ Gone(v, k)'
    <3>1. CASE k = hold[w]
      BY <1>9, <2>1, <2>2, <2>3, <3>1
    <3>2. CASE k # hold[w]
      BY <2>2, <2>3, <3>2 DEF SnapshotHolds
    <3>3. QED BY <3>1, <3>2
  <2>4. QED BY <2>2, <2>3 DEF SnapshotHolds, InTxn
<1>12. ASSUME NEW w \in Worker, Finish(w) \/ RunDies(w) PROVE SnapshotHolds'
  <2>1. EndRun(w)
    BY <1>12 DEF Finish, RunDies
  <2>2. QED BY <2>1 DEF EndRun, SnapshotHolds, rows, InTxn
<1>13. ASSUME NEW k \in Keyword, AdminRunNow(k) PROVE FALSE
  BY <1>13 DEF AdminRunNow, Calm
<1>14. ASSUME NEW k \in Keyword, AdminToggle(k) PROVE SnapshotHolds'
  BY <1>1, <1>14 DEF AdminToggle, txn, InTxn
<1>15. CASE Tick \/ Horizon \/ UNCHANGED vars
  BY <1>1, <1>15 DEF Tick, Horizon, vars, rows, txn, InTxn
<1>16. QED
  BY <1>2, <1>3, <1>4, <1>5, <1>7, <1>8, <1>10, <1>11, <1>12, <1>13, <1>14,
     <1>15 DEF Next, ClaimStep

\* LeaseInv is inductive.
THEOREM LeaseInvariant == Spec => []LeaseInv
<1>1. Init => HeldIsLeased /\ OneHolder /\ SnapshotHolds
  BY DEF Init, HeldIsLeased, OneHolder, SnapshotHolds, InTxn
<1>2. CASE Calm
  <2>1. Init => HeldIsLeased /\ OneHolder /\ SnapshotHolds
    BY <1>1
  <2>2. /\ ClaimInv /\ HeldIsLeased /\ OneHolder /\ SnapshotHolds /\ [Next]_vars
        => (HeldIsLeased /\ OneHolder /\ SnapshotHolds)'
    BY <1>2, HeldStep, SnapshotStep
  <2>3. ClaimInv /\ HeldIsLeased /\ OneHolder /\ SnapshotHolds => LeaseInv
    BY DEF LeaseInv
  <2>4. QED BY <2>1, <2>2, <2>3, ClaimInvariant, PTL DEF Spec
<1>3. CASE ~Calm
  <2>1. ClaimInv => LeaseInv
    BY <1>3 DEF Calm, LeaseInv
  <2>2. QED BY <2>1, ClaimInvariant, PTL
<1>4. QED BY <1>2, <1>3

\* Mutual exclusion: while runs keep to their leases, no two workers collect the
\* same keyword, for any number of workers, keywords and candidates.
THEOREM Exclusion == Spec => []AtMostOneHolder
<1>1. LeaseInv => AtMostOneHolder
  BY DEF LeaseInv, OneHolder, AtMostOneHolder
<1>2. QED BY <1>1, LeaseInvariant, PTL

\* The retry_pending a claim returns is the row's at the commit, though it was
\* read by an earlier statement without a lock.
THEOREM FreshFlag == Spec => []FreshRetryFlag
<1>1. LeaseInv => FreshRetryFlag
  <2> SUFFICES ASSUME LeaseInv, Calm, NEW w \in Worker, claimed[w] # None
               PROVE  claimed[w] \in seen[w] <=> pending[claimed[w]]
    BY DEF FreshRetryFlag, Calm
  <2>1. claimed[w] \in Keyword /\ InTxn(w) /\ pc[w] = "commit"
    BY DEF LeaseInv, ClaimInv, TypeOK, Types, Agreement, InTxn
  <2>2. next[claimed[w]] <= now /\ now <= began[w] + TxnBound
    BY <2>1, LeaseOutlivesClaims DEF LeaseInv, ClaimInv, Clocks
  <2>3. ~(began[w] + TxnBound < next[claimed[w]])
    BY <2>1, <2>2, TimingAssumption
       DEF LeaseInv, ClaimInv, TypeOK, Types, TimingAssumption
  <2>4. QED BY <2>1, <2>3 DEF LeaseInv, Calm, SnapshotHolds
<1>2. QED BY <1>1, LeaseInvariant, PTL

-----------------------------------------------------------------------------
(* The claim transaction implements the atomic lease of KeywordLease *)

leaseVars == <<now, next, enabled, pending, hold, until>>
\* The commit of a claim is a Grant: the row it writes is still enabled and due,
\* and the instant its lease runs from lies between its due time and now.
LEMMA CommitGrants ==
  ASSUME ClaimInv, NEW w \in Worker, CommitClaim(w)
  PROVE  Lease!Grant(w, claimed[w]) /\ claimed[w] \in Keyword
<1> USE DomainAssumption DEF DomainAssumption, ClaimInv, TypeOK, Types
<1>1. claimed[w] # None /\ claimed[w] \in Keyword /\ hold[w] = None
  BY DEF CommitClaim, Agreement
<1>2. /\ claimed[w] \in Scope[w] /\ enabled[claimed[w]]
      /\ next[claimed[w]] <= stmt[w] /\ stmt[w] <= now
  BY <1>1 DEF CommitClaim, ClaimedIsDue, Clocks
<1>3. stmt[w] \in next[claimed[w]]..now
  BY <1>1, <1>2
<1>4. QED
  BY <1>1, <1>2, <1>3 DEF CommitClaim, LeaseEnd, Lease!Grant

\* A commit whose answer is lost is a GrantLost.
LEMMA LostCommitGrants ==
  ASSUME ClaimInv, NEW w \in Worker, CommitLost(w)
  PROVE  Lease!GrantLost(claimed[w]) /\ claimed[w] \in Keyword
<1> USE DomainAssumption DEF DomainAssumption, ClaimInv, TypeOK, Types
<1>1. claimed[w] # None /\ claimed[w] \in Keyword
  BY DEF CommitLost
<1>2. /\ enabled[claimed[w]]
      /\ next[claimed[w]] <= stmt[w] /\ stmt[w] <= now
  BY <1>1 DEF CommitLost, ClaimedIsDue, Clocks
<1>3. stmt[w] \in next[claimed[w]]..now
  BY <1>1, <1>2
<1>4. QED
  BY <1>1, <1>2, <1>3 DEF CommitLost, LeaseEnd, lease, Lease!GrantLost

\* Every step of the claim is a step of the lease or changes nothing of it.
LEMMA LeaseStep == ClaimInv /\ [Next]_vars => [Lease!Next]_leaseVars
<1> SUFFICES ASSUME ClaimInv, [Next]_vars
             PROVE  Lease!Next \/ UNCHANGED leaseVars
  BY DEF leaseVars
<1> USE DEF ClaimInv, TypeOK
<1>1. CASE Tick
  BY <1>1 DEF Tick, rows, lease, Lease!Next, Lease!Tick
<1>2. CASE Horizon \/ UNCHANGED vars
  BY <1>2 DEF Horizon, vars, rows, lease, leaseVars
<1>3. ASSUME NEW w \in Worker,
             \/ Select(w) \/ StartUpdate(w) \/ UpdateHit(w) \/ UpdateMiss(w)
             \/ CommitNothing(w) \/ DeadlockVictim(w) \/ ClaimFails(w)
      PROVE  UNCHANGED leaseVars
  BY <1>3 DEF Select, StartUpdate, UpdateHit, UpdateMiss, CommitNothing,
     DeadlockVictim, ClaimFails, Rollback, rows, lease, leaseVars
<1>4. ASSUME NEW w \in Worker, CommitClaim(w) PROVE Lease!Next
  BY <1>4, CommitGrants DEF Lease!Next
<1>5. ASSUME NEW w \in Worker, CommitLost(w) PROVE Lease!Next
  BY <1>5, LostCommitGrants DEF Lease!Next
<1>6. ASSUME NEW w \in Worker, Reschedule(w) PROVE Lease!Next
  <2>1. Lease!Reschedule(w)
    BY <1>6 DEF Reschedule, Agreement, Lease!Reschedule
  <2>2. QED BY <2>1 DEF Lease!Next
<1>7. ASSUME NEW w \in Worker, Finish(w) \/ RunDies(w) PROVE Lease!Next
  <2>1. Lease!Release(w)
    BY <1>7 DEF Finish, RunDies, EndRun, Agreement, rows, Lease!Release
  <2>2. QED BY <2>1 DEF Lease!Next
<1>8. ASSUME NEW w \in Worker, NEW b \in BOOLEAN, SetRetryPending(w, b)
      PROVE  Lease!Next
  <2>1. Lease!SetRetryPending(w, b)
    BY <1>8 DEF SetRetryPending, Agreement, lease, Lease!SetRetryPending
  <2>2. QED BY <2>1 DEF Lease!Next
<1>9. ASSUME NEW k \in Keyword, AdminRunNow(k) \/ AdminToggle(k)
      PROVE  Lease!Next
  <2>1. Lease!AdminRunNow(k) \/ Lease!AdminToggle(k)
    BY <1>9 DEF AdminRunNow, AdminToggle, lease,
       Lease!AdminRunNow, Lease!AdminToggle
  <2>2. QED BY <2>1 DEF Lease!Next
<1>10. QED
  BY <1>1, <1>2, <1>3, <1>4, <1>5, <1>6, <1>7, <1>8, <1>9 DEF Next, ClaimStep

\* claim_next implements the atomic lease, for any workers, keywords, candidate
\* orders and failures, and with no assumption on the length of the runs.
THEOREM ClaimImplementsLease == Spec => LeaseSpec
<1>1. Init => Lease!Init
  BY DEF Init, Lease!Init
<1>2. ClaimInv /\ [Next]_vars => [Lease!Next]_(Lease!vars)
  BY LeaseStep DEF leaseVars, Lease!vars
<1>3. QED
  BY <1>1, <1>2, ClaimInvariant, PTL DEF Spec, LeaseSpec, Lease!Spec
=============================================================================
