-------------------------- MODULE UrlInsertProofs ---------------------------
(***************************************************************************)
(* Theorems about UrlInsert for any workers, pages, rows and numbers of    *)
(* calls, faults and edits, and that it implements UrlStore.               *)
(***************************************************************************)
EXTENDS UrlInsert, TLAPS, WellFoundedInduction,
        FiniteSetTheorems

-----------------------------------------------------------------------------
(* Positions *)

Less == {ss \in Nat \X Nat : ss[1] < ss[2]}

\* The least position of a set of positions is one of them.
LEMMA MinIsMember ==
  ASSUME NEW T, T \subseteq Nat, T # {}
  PROVE  Min(T) \in T
<1>1. IsWellFoundedOn(Less, Nat)
  BY NatLessThanWellFounded DEF OpToRel, Less
<1>2. PICK x \in T : \A y \in T : ~(<<y, x>> \in Less)
  BY <1>1, WFMin
<1>3. ASSUME NEW y \in T PROVE x <= y
  <2>1. x \in Nat /\ y \in Nat
    OBVIOUS
  <2>2. ~(y < x)
    BY <1>2, <2>1 DEF Less
  <2>3. QED BY <2>1, <2>2
<1>4. \E z \in T : \A y \in T : z <= y
  BY <1>3
<1>5. QED BY <1>4 DEF Min

\* The hashes at some positions of a page are finitely many.
LEMMA HashesFinite ==
  ASSUME NEW S, NEW s \in Seq(S), NEW I \in SUBSET DOMAIN s
  PROVE  IsFiniteSet({s[i] : i \in I})
<1>1. DOMAIN s = 1..Len(s) /\ Len(s) \in Nat
  OBVIOUS
<1>2. IsFiniteSet(I)
  <2>1. IsFiniteSet(1..Len(s))
    BY <1>1, FS_Interval
  <2>2. QED BY <1>1, <2>1, FS_Subset
<1>3. [i \in I |-> s[i]] \in Surjection(I, {s[i] : i \in I})
  BY DEF Surjection
<1>4. QED BY <1>2, <1>3, FS_Surjection

-----------------------------------------------------------------------------
(* The inductive invariant *)

Types ==
  /\ table \in [Hash -> Row \cup {NoRow}]
  /\ excluded \subseteq {h.netloc : h \in Hash}
  /\ pc \in [Worker -> {"idle", "filter", "select", "insert", "commit"}]
  /\ page \in [Worker -> Seq(Hash)]
  /\ todo \in [Worker -> SUBSET Nat]
  /\ \A w \in Worker : todo[w] \subseteq DOMAIN page[w]
  /\ row \in [Worker -> Row \cup {NoRow}]
  /\ batch \in [Worker -> SUBSET Hash]
  /\ existing \in [Worker -> SUBSET Hash]
  /\ wrote \in [Worker -> SUBSET Hash]
  /\ lock \in [Hash -> Worker \cup {None}]
  /\ inserted \in [Worker -> Nat \cup {Failed}]

\* Only a transaction in its INSERT holds key locks, and a row that is inserted
\* and not committed is under the lock of its key, which has no row.
KeyLocks ==
  /\ \A h \in Hash : lock[h] # None => pc[lock[h]] \in {"insert", "commit"}
  /\ \A w \in Worker : \A h \in wrote[w] : lock[h] = w /\ table[h] = NoRow

\* The row of a call is there until it returns.
HasRow == \A w \in Worker : pc[w] # "idle" => row[w] \in Row

\* The rows of a call, from the filter to the commit: those that were stored
\* when it looked, those it has inserted or met, and those that are ahead.
BatchKept(w) ==
  /\ IsFiniteSet(batch[w])
  /\ pc[w] \in {"select", "insert", "commit"} => batch[w] # {}
  /\ pc[w] \in {"select", "insert"} <=> todo[w] # {}
  /\ pc[w] \in {"insert", "commit"} \/ existing[w] = {}
  /\ \A i \in todo[w] : page[w][i] \in batch[w]
  /\ \A h \in existing[w] : h \in batch[w] /\ table[h] # NoRow
  /\ wrote[w] \subseteq batch[w]
  /\ pc[w] \in {"select", "insert", "commit"} =>
       \A h \in batch[w] :
         \/ table[h] # NoRow
         \/ h \in wrote[w]
         \/ pc[w] # "commit" /\ \E i \in todo[w] : page[w][i] = h

Batches == \A w \in Worker : BatchKept(w)

InsertInv == Types /\ KeyLocks /\ HasRow /\ Batches

\* The inductive invariant gives those that are stated of the calls.
LEMMA InsertInvImplies == InsertInv => TypeOK /\ NewRowsAreCounted
<1> SUFFICES ASSUME InsertInv PROVE TypeOK /\ NewRowsAreCounted
  OBVIOUS
<1>1. TypeOK
  BY DEF InsertInv, Types, KeyLocks, TypeOK
<1>2. NewRowsAreCounted
  BY DEF InsertInv, KeyLocks, Batches, BatchKept, NewRowsAreCounted
<1>3. QED BY <1>1, <1>2

\* An empty table and no call under way.
LEMMA InsertInvInit == Init => InsertInv
<1> SUFFICES ASSUME Init PROVE InsertInv
  OBVIOUS
<1> USE InsertAssumption DEF InsertAssumption, Init
<1>1. Types
  BY DEF Types
<1>2. KeyLocks /\ HasRow
  BY DEF KeyLocks, HasRow
<1>3. Batches
  BY FS_EmptySet DEF Batches, BatchKept
<1>4. QED BY <1>1, <1>2, <1>3 DEF InsertInv
-----------------------------------------------------------------------------
(* The steps of a call *)

\* What the commit of a call changes in the table: the keys it has written.
LEMMA CommittedRows ==
  ASSUME InsertInv, NEW w \in Worker, pc[w] # "idle"
  PROVE  /\ Committed(w) \in [Hash -> Row \cup {NoRow}]
         /\ \A h \in Hash : h \in wrote[w] => Committed(w)[h] = row[w]
         /\ \A h \in Hash : h \notin wrote[w] => Committed(w)[h] = table[h]
         /\ row[w] # NoRow
BY InsertAssumption DEF InsertAssumption, InsertInv, Types, HasRow, Committed

\* A call that returns, with or without its rows in the table.
LEMMA ReturnStep ==
  ASSUME InsertInv, NEW w \in Worker, NEW n \in Nat \cup {Failed},
         pc[w] # "idle", Return(w, n),
         table' = table \/ table' = Committed(w), UNCHANGED excluded
  PROVE  InsertInv'
<1> USE InsertAssumption DEF InsertAssumption, InsertInv
<1>0. /\ table' \in [Hash -> Row \cup {NoRow}]
      /\ \A h \in Hash : h \notin wrote[w] => table'[h] = table[h]
      /\ \A h \in Hash : table[h] # NoRow => table'[h] # NoRow
  BY CommittedRows DEF Types
<1>1. Types'
  <2>1. /\ pc' \in [Worker -> {"idle", "filter", "select", "insert", "commit"}]
        /\ page' \in [Worker -> Seq(Hash)]
        /\ todo' \in [Worker -> SUBSET Nat]
        /\ \A v \in Worker : todo'[v] \subseteq DOMAIN page'[v]
    BY DEF Return, Types
  <2>2. /\ row' \in [Worker -> Row \cup {NoRow}]
        /\ batch' \in [Worker -> SUBSET Hash]
        /\ existing' \in [Worker -> SUBSET Hash]
        /\ wrote' \in [Worker -> SUBSET Hash]
    BY DEF Return, Types
  <2>3. /\ lock' \in [Hash -> Worker \cup {None}]
        /\ inserted' \in [Worker -> Nat \cup {Failed}]
    BY DEF Return, Types
  <2>4. QED BY <1>0, <2>1, <2>2, <2>3 DEF Types
<1>2. KeyLocks'
  <2>1. \A h \in Hash : lock'[h] # None => pc'[lock'[h]] \in {"insert", "commit"}
    BY DEF Return, Types, KeyLocks
  <2>2. ASSUME NEW v \in Worker, NEW h \in wrote'[v]
        PROVE  lock'[h] = v /\ table'[h] = NoRow
    <3>1. v # w /\ h \in wrote[v] /\ h \in Hash
      BY <2>2 DEF Return, Types
    <3>2. lock[h] = v /\ table[h] = NoRow /\ h \notin wrote[w]
      BY <3>1 DEF KeyLocks
    <3>3. QED BY <1>0, <3>1, <3>2 DEF Return
  <2>3. QED BY <2>1, <2>2 DEF KeyLocks
<1>3. HasRow'
  BY DEF Return, Types, HasRow
<1>4. Batches'
  <2> SUFFICES ASSUME NEW v \in Worker
               PROVE  BatchKept(v)'
    BY DEF Batches
  <2>1. CASE v = w
    BY <2>1, FS_EmptySet DEF Return, Types, BatchKept
  <2>2. CASE v # w
    <3>1. /\ pc'[v] = pc[v] /\ page'[v] = page[v] /\ todo'[v] = todo[v]
          /\ batch'[v] = batch[v] /\ existing'[v] = existing[v]
          /\ wrote'[v] = wrote[v]
      BY <2>2 DEF Return, Types
    <3>2. batch[v] \subseteq Hash /\ existing[v] \subseteq Hash
      BY DEF Types
    <3>3. QED BY <1>0, <3>1, <3>2 DEF Batches, BatchKept
  <2>3. QED BY <2>1, <2>2
<1>5. QED BY <1>1, <1>2, <1>3, <1>4

\* A new call.
LEMMA CallKeeps ==
  ASSUME InsertInv, NEW w \in Worker, NEW p \in Pages, NEW r \in Row,
         Call(w, p, r)
  PROVE  InsertInv'
<1> USE InsertAssumption DEF InsertAssumption, InsertInv
<1> DEFINE q == [i \in DOMAIN p |-> Normalize(p[i])]
<1>1. q \in Seq(Hash)
  <2>1. p \in Seq(Raw)
    OBVIOUS
  <2>2. \A i \in DOMAIN p : p[i] \in Raw
    BY <2>1
  <2>3. \A i \in DOMAIN p : Normalize(p[i]) \in Hash
    BY <2>2 DEF Call, Hash
  <2>4. DOMAIN p = 1..Len(p) /\ Len(p) \in Nat
    BY <2>1
  <2> HIDE DEF q
  <2>5. DOMAIN q = DOMAIN p /\ \A i \in DOMAIN p : q[i] \in Hash
    BY <2>3 DEF q
  <2>6. q \in [1..Len(p) -> Hash]
    BY <2>3, <2>4 DEF q
  <2>7. QED BY <2>4, <2>6
<1> HIDE DEF q
<1>2. /\ page' = [page EXCEPT ![w] = q]
      /\ pc[w] = "idle" /\ pc' = [pc EXCEPT ![w] = "filter"]
      /\ row' = [row EXCEPT ![w] = r]
      /\ UNCHANGED <<table, excluded, todo, batch, existing, wrote, lock, inserted>>
  BY DEF Call, Goto, q
<1>3. todo[w] = {}
  BY <1>2 DEF Batches, BatchKept
<1>4. Types'
  <2>1. \A v \in Worker : todo'[v] \subseteq DOMAIN page'[v]
    BY <1>2, <1>3 DEF Types
  <2>2. page' \in [Worker -> Seq(Hash)]
    BY <1>1, <1>2 DEF Types
  <2>3. QED BY <1>2, <2>1, <2>2 DEF Types
<1>5. KeyLocks' /\ HasRow'
  BY <1>2 DEF Types, KeyLocks, HasRow
<1>6. Batches'
  BY <1>2, <1>3 DEF Types, Batches, BatchKept
<1>7. QED BY <1>4, <1>5, <1>6
\* The filter keeps the rows whose hosts are not excluded.
LEMMA FilterKeeps ==
  ASSUME InsertInv, NEW w \in Worker, Filter(w)
  PROVE  InsertInv'
<1> USE InsertAssumption DEF InsertAssumption, InsertInv
<1> DEFINE B == {page[w][i] : i \in Kept(w)}
<1>1. /\ Kept(w) \subseteq DOMAIN page[w] /\ Kept(w) # {}
      /\ page[w] \in Seq(Hash)
  BY DEF Filter, Kept, Types
<1>2. /\ IsFiniteSet(B) /\ B # {} /\ B \subseteq Hash
      /\ Kept(w) \subseteq Nat
      /\ \A i \in Kept(w) : page[w][i] \in B
  <2>1. IsFiniteSet(B)
    BY <1>1, HashesFinite
  <2>2. B # {} /\ B \subseteq Hash /\ Kept(w) \subseteq Nat
    BY <1>1
  <2>3. QED BY <2>1, <2>2
<1>3. /\ pc[w] = "filter" /\ pc' = [pc EXCEPT ![w] = "select"]
      /\ todo' = [todo EXCEPT ![w] = Kept(w)]
      /\ batch' = [batch EXCEPT ![w] = B]
      /\ UNCHANGED <<table, excluded, page, row, existing, wrote, lock, inserted>>
  BY DEF Filter, Goto
<1> HIDE DEF B
<1>4. existing[w] = {} /\ wrote[w] = {}
  <2>1. existing[w] = {}
    BY <1>3 DEF Batches, BatchKept
  <2>2. ASSUME NEW h \in wrote[w] PROVE FALSE
    <3>1. h \in Hash
      BY DEF Types
    <3>2. lock[h] = w
      BY DEF KeyLocks
    <3>3. pc[w] \in {"insert", "commit"}
      BY <3>1, <3>2 DEF KeyLocks
    <3>4. QED BY <1>3, <3>3
  <2>3. QED BY <2>1, <2>2
<1>5. Types'
  BY <1>1, <1>2, <1>3 DEF Types
<1>6. KeyLocks' /\ HasRow'
  BY <1>3 DEF Types, KeyLocks, HasRow
<1>7. Batches'
  <2> SUFFICES ASSUME NEW v \in Worker PROVE BatchKept(v)'
    BY DEF Batches
  <2>1. CASE v = w
    <3>1. /\ pc'[w] = "select" /\ todo'[w] = Kept(w) /\ batch'[w] = B
          /\ existing'[w] = {} /\ wrote'[w] = {}
          /\ page'[w] = page[w]
      BY <1>3, <1>4 DEF Types
    <3>2. \A h \in B : \E i \in Kept(w) : page[w][i] = h
      BY DEF B
    <3>3. QED BY <1>1, <1>2, <2>1, <3>1, <3>2 DEF BatchKept
  <2>2. CASE v # w
    BY <1>3, <2>2 DEF Types, Batches, BatchKept
  <2>3. QED BY <2>1, <2>2
<1>8. QED BY <1>5, <1>6, <1>7

\* The hashes that have a row when the call looks.
LEMMA SelectKeeps ==
  ASSUME InsertInv, NEW w \in Worker, SelectExisting(w)
  PROVE  InsertInv'
<1> USE InsertAssumption DEF InsertAssumption, InsertInv
<1>1. /\ pc[w] = "select" /\ pc' = [pc EXCEPT ![w] = "insert"]
      /\ existing' = [existing EXCEPT ![w] = {h \in batch[w] : table[h] # NoRow}]
      /\ UNCHANGED <<table, excluded, page, todo, row, batch, wrote, lock, inserted>>
  BY DEF SelectExisting, Goto
<1>2. Types'
  BY <1>1 DEF Types
<1>3. KeyLocks' /\ HasRow'
  BY <1>1 DEF Types, KeyLocks, HasRow
<1>4. Batches'
  <2> SUFFICES ASSUME NEW v \in Worker PROVE BatchKept(v)'
    BY DEF Batches
  <2>1. CASE v = w
    BY <1>1, <2>1 DEF Types, Batches, BatchKept
  <2>2. CASE v # w
    BY <1>1, <2>2 DEF Types, Batches, BatchKept
  <2>3. QED BY <2>1, <2>2
<1>5. QED BY <1>2, <1>3, <1>4

\* One row of the INSERT is stored under the lock of its key or met there.
LEMMA RowKeeps ==
  ASSUME InsertInv, NEW w \in Worker, InsertRow(w)
  PROVE  InsertInv'
<1> USE InsertAssumption DEF InsertAssumption, InsertInv
<1> DEFINE i == Ahead(w)
           h == AheadHash(w)
<1>1. i \in todo[w] /\ h = page[w][i] /\ h \in batch[w] /\ h \in Hash
  <2>1. todo[w] \subseteq Nat /\ todo[w] # {}
    BY DEF InsertRow, Types, Batches, BatchKept
  <2>2. i \in todo[w]
    BY <2>1, MinIsMember DEF Ahead
  <2>3. QED BY <2>2 DEF AheadHash, Types, Batches, BatchKept
<1>2. /\ pc[w] = "insert" /\ lock[h] \in {None, w}
      /\ pc' = [pc EXCEPT ![w] = IF Rest(w) # {} THEN "insert" ELSE "commit"]
      /\ lock' = [lock EXCEPT ![h] = w]
      /\ wrote' = [wrote EXCEPT ![w] = IF table[h] = NoRow
                                      THEN wrote[w] \cup {h} ELSE wrote[w]]
      /\ todo' = [todo EXCEPT ![w] = Rest(w)]
      /\ UNCHANGED <<table, excluded, page, row, batch, existing, inserted>>
  BY DEF InsertRow, Types
<1>3. Rest(w) = todo[w] \ {i}
  BY DEF Rest
<1> HIDE DEF i, h
<1>4. Types'
  <2>1. /\ todo' \in [Worker -> SUBSET Nat]
        /\ \A v \in Worker : todo'[v] \subseteq DOMAIN page'[v]
    BY <1>2, <1>3 DEF Types
  <2>2. pc' \in [Worker -> {"idle", "filter", "select", "insert", "commit"}]
    BY <1>2 DEF Types
  <2>3. wrote' \in [Worker -> SUBSET Hash] /\ lock' \in [Hash -> Worker \cup {None}]
    BY <1>1, <1>2 DEF Types
  <2>4. QED BY <1>2, <2>1, <2>2, <2>3 DEF Types
<1>5. KeyLocks'
  <2>1. \A g \in Hash : lock'[g] # None => pc'[lock'[g]] \in {"insert", "commit"}
    BY <1>1, <1>2 DEF Types, KeyLocks
  <2>2. ASSUME NEW v \in Worker, NEW g \in wrote'[v]
        PROVE  lock'[g] = v /\ table'[g] = NoRow
    <3>1. CASE g \in wrote[v]
      BY <1>1, <1>2, <3>1 DEF Types, KeyLocks
    <3>2. CASE g \notin wrote[v]
      BY <1>1, <1>2, <2>2, <3>2 DEF Types
    <3>3. QED BY <3>1, <3>2
  <2>3. QED BY <2>1, <2>2 DEF KeyLocks
<1>6. HasRow'
  BY <1>2 DEF Types, HasRow
<1>7. Batches'
  <2> SUFFICES ASSUME NEW v \in Worker PROVE BatchKept(v)'
    BY DEF Batches
  <2>1. CASE v = w
    <3>1. /\ pc'[w] = IF Rest(w) # {} THEN "insert" ELSE "commit"
          /\ todo'[w] = todo[w] \ {i}
          /\ wrote'[w] = IF table[h] = NoRow THEN wrote[w] \cup {h} ELSE wrote[w]
      BY <1>2, <1>3 DEF Types
    <3>2. BatchKept(w) /\ batch[w] # {}
      BY <1>2 DEF Batches, BatchKept
    <3>3. ASSUME NEW g \in batch[w]
          PROVE  \/ table[g] # NoRow
                 \/ g \in wrote'[w]
                 \/ pc'[w] # "commit" /\ \E j \in todo'[w] : page[w][j] = g
      BY <1>1, <1>2, <1>3, <3>1, <3>2 DEF BatchKept
    <3>4. QED BY <1>1, <1>2, <1>3, <2>1, <3>1, <3>2, <3>3 DEF BatchKept
  <2>2. CASE v # w
    BY <1>2, <2>2 DEF Types, Batches, BatchKept
  <2>3. QED BY <2>1, <2>2
<1>8. QED BY <1>4, <1>5, <1>6, <1>7

\* The counts that a call can report.
LEMMA CountIsNat ==
  ASSUME InsertInv, NEW w \in Worker
  PROVE  InsertedCount(w) \in Nat
<1>1. IsFiniteSet(batch[w] \ existing[w])
  BY FS_Difference DEF InsertInv, Batches, BatchKept
<1>2. QED BY <1>1, FS_CardinalityType DEF InsertedCount

\* Every step keeps the invariant.
LEMMA InsertInvStep == InsertInv /\ [Next]_vars => InsertInv'
<1> SUFFICES ASSUME InsertInv, [Next]_vars PROVE InsertInv'
  OBVIOUS
<1> USE InsertAssumption DEF InsertAssumption
<1>1. CASE UNCHANGED vars \/ Horizon
  BY <1>1 DEF Horizon, vars, callVars, InsertInv, Types, KeyLocks, HasRow,
              Batches, BatchKept
<1>2. ASSUME NEW w \in Worker, NEW p \in Pages, CallRefused(w, p)
      PROVE  InsertInv'
  BY <1>2 DEF CallRefused, callVars, InsertInv, Types, KeyLocks, HasRow,
              Batches, BatchKept
<1>3. ASSUME NEW w \in Worker, AllExcluded(w) PROVE InsertInv'
  BY <1>3, ReturnStep DEF AllExcluded
<1>4. ASSUME NEW w \in Worker, Commit(w) PROVE InsertInv'
  BY <1>4, CountIsNat, ReturnStep DEF Commit, Goto
<1>5. ASSUME NEW w \in Worker,
             CallFails(w) \/ CommitUnheard(w) \/ DeadlockVictim(w)
      PROVE  InsertInv'
  <2>1. pc[w] # "idle"
    BY <1>5 DEF CallFails, CommitUnheard, DeadlockVictim, Deadlocked, Waiting
  <2>2. QED
    BY <1>5, <2>1, ReturnStep DEF CallFails, CommitUnheard, DeadlockVictim
<1>6. ASSUME NEW h \in Hash, ToggleHost(h.netloc) PROVE InsertInv'
  <2>1. Types'
    BY <1>6 DEF ToggleHost, callVars, InsertInv, Types
  <2>2. QED
    BY <1>6, <2>1 DEF ToggleHost, callVars, InsertInv, KeyLocks, HasRow,
                      Batches, BatchKept
<1>7. QED
  BY <1>1, <1>2, <1>3, <1>4, <1>5, <1>6, CallKeeps, FilterKeeps, SelectKeeps,
     RowKeeps DEF Next, CallStep

\* Every reachable state satisfies the inductive invariant.
LEMMA InsertInvariant == Spec => []InsertInv
BY InsertInvInit, InsertInvStep, PTL DEF Spec
-----------------------------------------------------------------------------
(* Theorems *)

\* Types, and only a transaction in its INSERT holds the locks of the keys it
\* writes.
THEOREM InsertTypes == Spec => []TypeOK
BY InsertInvariant, InsertInvImplies, PTL

\* Every row a call creates is among the URLs it counts as inserted, whatever
\* other workers commit between its SELECT and its INSERT.
THEOREM EveryNewRowIsCounted == Spec => []NewRowsAreCounted
BY InsertInvariant, InsertInvImplies, PTL

\* The steps that change the table: a commit stores the written keys alone.
LEMMA TableSteps ==
  ASSUME InsertInv, Next
  PROVE  \/ UNCHANGED table
         \/ \E w \in Worker : pc[w] = "commit" /\ table' = Committed(w)
BY DEF Next, CallStep, Call, CallRefused, Filter, AllExcluded, SelectExisting,
       InsertRow, Commit, Goto, CallFails, CommitUnheard, DeadlockVictim,
       ToggleHost, Horizon, vars

\* A row is never overwritten and never lost: ON DUPLICATE KEY UPDATE id = id.
THEOREM RowsAreKept == Spec => FirstDiscoveryWins
<1> DEFINE Kept1 == \A h \in Hash : table[h] # NoRow => table'[h] = table[h]
<1>1. InsertInv /\ [Next]_vars => [Kept1]_table
  <2> SUFFICES ASSUME InsertInv, Next, NEW h \in Hash, table[h] # NoRow
               PROVE  table'[h] = table[h]
    BY DEF vars
  <2>1. ASSUME NEW w \in Worker, pc[w] = "commit", table' = Committed(w)
        PROVE  table'[h] = table[h]
    <3>1. h \notin wrote[w]
      BY DEF InsertInv, KeyLocks
    <3>2. QED BY <2>1, <3>1, CommittedRows
  <2>2. QED BY <2>1, TableSteps
<1>2. Spec => [][Kept1]_table
  BY InsertInvariant, <1>1, PTL DEF Spec
<1>3. QED BY <1>2 DEF FirstDiscoveryWins

\* A committed page is in the table completely, the excluded hosts apart.
THEOREM CommittedPageIsStored == Spec => PageIsStored
<1> DEFINE Stored1 ==
      \A w \in Worker :
        pc[w] = "commit" /\ pc'[w] = "idle" /\ inserted'[w] # Failed =>
          \A h \in batch[w] : table'[h] # NoRow
<1>1. InsertInv /\ [Next]_vars => [Stored1]_vars
  <2> SUFFICES ASSUME InsertInv, Next, NEW w \in Worker,
                      pc[w] = "commit", pc'[w] = "idle", inserted'[w] # Failed,
                      NEW h \in batch[w]
               PROVE  table'[h] # NoRow
    OBVIOUS
  <2>1. ASSUME NEW v \in Worker, Return(v, Failed) PROVE FALSE
    BY <2>1 DEF Return, InsertInv, Types
  <2>2. ASSUME NEW v \in Worker, CallStep(v) \/ \E p \in Pages, r \in Row : Call(v, p, r)
        PROVE  Commit(w)
    <3>1. v = w
      BY <2>2 DEF CallStep, Call, Filter, AllExcluded, SelectExisting, InsertRow,
                  Commit, Goto, Return, InsertInv, Types
    <3>2. QED
      BY <2>2, <3>1 DEF CallStep, Call, Filter, AllExcluded, SelectExisting,
                        InsertRow, Goto
  <2>3. Commit(w)
    BY <2>1, <2>2 DEF Next, CallRefused, callVars, CallFails, CommitUnheard,
                      DeadlockVictim, ToggleHost, Horizon, vars
  <2>4. h \in Hash /\ (table[h] # NoRow \/ h \in wrote[w])
    BY DEF InsertInv, Types, Batches, BatchKept
  <2>5. table' = Committed(w)
    BY <2>3 DEF Commit
  <2>6. QED BY <2>4, <2>5, CommittedRows
<1>2. Spec => [][Stored1]_vars
  BY InsertInvariant, <1>1, PTL DEF Spec
<1>3. QED BY <1>2 DEF PageIsStored

-----------------------------------------------------------------------------
(* The refinement *)

\* What the store's caller sees of the batches.
Held == [w \in Worker |-> IF Looking(w) THEN batch[w] ELSE {}]

\* What a step of the detailed module does to a call, seen by the store, is one
\* of the store's steps or nothing.
StoreStep == Store!Next \/ (UNCHANGED <<table, Held, existing, inserted>>)

\* The store counts as the detailed module does.
LEMMA StoreCounts == \A S : Store!Cardinality(S) = Cardinality(S)
BY DEF Store!Cardinality, Cardinality

\* The store starts empty as well.
LEMMA StoreInit == Init => Store!Init
BY DEF Init, Store!Init, Looking

\* A call that ends: the store sees its batch and what it looked at no more.
LEMMA ReturnSeen ==
  ASSUME InsertInv, NEW w \in Worker, NEW n, Return(w, n)
  PROVE  Store!Done(w, n)
<1>1. Held' = [Held EXCEPT ![w] = {}]
  BY DEF Return, InsertInv, Types, Held, Looking
<1>2. /\ existing' = [existing EXCEPT ![w] = {}]
      /\ inserted' = [inserted EXCEPT ![w] = n]
  BY DEF Return
<1>3. QED BY <1>1, <1>2 DEF Store!Done, Held

\* What a commit stores is what has no row in the batch.
LEMMA CommitSeen ==
  ASSUME InsertInv, NEW w \in Worker, pc[w] = "commit"
  PROVE  /\ Held[w] = batch[w] /\ batch[w] # {}
         /\ Store!Absent(batch[w]) = wrote[w]
         /\ Committed(w) = [h \in Hash |-> IF h \in wrote[w] THEN row[w] ELSE table[h]]
         /\ row[w] \in Row
<1>1. Held[w] = batch[w] /\ batch[w] # {}
  BY DEF InsertInv, Batches, BatchKept, Held, Looking
<1>2. Store!Absent(batch[w]) = wrote[w]
  BY DEF InsertInv, Types, KeyLocks, Batches, BatchKept, Store!Absent
<1>3. QED BY <1>1, <1>2 DEF Committed, InsertInv, HasRow

\* Every step is a step of the store, or the store does not see it.
LEMMA StoreSteps ==
  ASSUME InsertInv, [Next]_vars
  PROVE  StoreStep
<1> USE InsertAssumption DEF InsertAssumption
<1>1. CASE UNCHANGED vars \/ Horizon \/ \E h \in Hash : ToggleHost(h.netloc)
  <2>1. UNCHANGED <<table, pc, batch, existing, inserted>>
    BY <1>1 DEF Horizon, ToggleHost, vars, callVars
  <2>2. QED BY <2>1 DEF StoreStep, Held, Looking
<1>2. ASSUME NEW w \in Worker,
             Filter(w) \/ InsertRow(w) \/ \E p \in Pages, r \in Row : Call(w, p, r)
      PROVE  StoreStep
  <2>1. /\ UNCHANGED <<table, existing, inserted>>
        /\ \A v \in Worker : Looking(v)' <=> Looking(v)
        /\ \A v \in Worker : Looking(v) => batch'[v] = batch[v]
    BY <1>2 DEF Filter, InsertRow, Call, Goto, InsertInv, Types, Looking
  <2>2. Held' = Held
    BY <2>1 DEF Held
  <2>3. QED BY <2>1, <2>2 DEF StoreStep
<1>3. ASSUME NEW w \in Worker, NEW p \in Pages, CallRefused(w, p)
      PROVE  StoreStep
  <2>1. /\ Held' = [Held EXCEPT ![w] = {}]
        /\ existing' = [existing EXCEPT ![w] = {}]
    <3>1. /\ pc[w] = "idle"
          /\ UNCHANGED <<pc, batch, existing>>
      BY <1>3 DEF CallRefused, callVars
    <3>2. existing[w] = {} /\ Held[w] = {} /\ Held' = Held
      BY <3>1 DEF InsertInv, Batches, BatchKept, Held, Looking
    <3>3. DOMAIN existing = Worker /\ DOMAIN Held = Worker
      BY DEF InsertInv, Types, Held
    <3>4. existing = [existing EXCEPT ![w] = {}]
      BY <3>2, <3>3 DEF InsertInv, Types
    <3>5. Held = [Held EXCEPT ![w] = {}]
      BY <3>2 DEF Held
    <3>6. QED BY <3>1, <3>2, <3>4, <3>5
  <2>2. Store!Fail(w)
    BY <1>3, <2>1 DEF CallRefused, Store!Fail, Store!Done, Held
  <2>3. QED BY <2>2 DEF StoreStep, Store!Next
<1>4. ASSUME NEW w \in Worker, AllExcluded(w) PROVE StoreStep
  <2>1. Held[w] = {} /\ existing[w] = {}
    BY <1>4 DEF AllExcluded, InsertInv, Batches, BatchKept, Held, Looking
  <2>2. Held' = Held /\ existing' = existing
    BY <1>4, <2>1 DEF AllExcluded, Return, InsertInv, Types, Held, Looking
  <2>3. Store!Nothing(w)
    BY <1>4, <2>1, <2>2 DEF AllExcluded, Return, Store!Nothing, Held
  <2>4. QED BY <2>3 DEF StoreStep, Store!Next
<1>5. ASSUME NEW w \in Worker, SelectExisting(w) PROVE StoreStep
  <2>1. /\ pc[w] = "select" /\ pc' = [pc EXCEPT ![w] = "insert"]
        /\ existing' = [existing EXCEPT ![w] = {h \in batch[w] : table[h] # NoRow}]
        /\ UNCHANGED <<table, batch, inserted>>
    BY <1>5 DEF SelectExisting, Goto
  <2>2. Held[w] = {} /\ Held' = [Held EXCEPT ![w] = batch[w]]
    BY <2>1 DEF InsertInv, Types, Held, Looking
  <2>3. batch[w] # {} /\ batch[w] \in SUBSET Hash
    BY <2>1 DEF InsertInv, Types, Batches, BatchKept
  <2>4. existing' = [existing EXCEPT ![w] = batch[w] \ Store!Absent(batch[w])]
    BY <2>1 DEF Store!Absent
  <2>5. UNCHANGED <<table, inserted>>
    BY <2>1
  <2>6. PICK B \in SUBSET Hash : B = batch[w]
    BY <2>3
  <2>7. Store!Look(w, B)
    BY <2>2, <2>3, <2>4, <2>5, <2>6 DEF Store!Look, Held
  <2>8. QED BY <2>7 DEF StoreStep, Store!Next
<1>6. ASSUME NEW w \in Worker, Commit(w) PROVE StoreStep
  <2>1. pc[w] = "commit" /\ table' = Committed(w) /\ Return(w, InsertedCount(w))
    BY <1>6 DEF Commit
  <2>2. InsertedCount(w) \in
          Cardinality(Store!Absent(batch[w]))..Cardinality(batch[w] \ existing[w])
    <3>1. IsFiniteSet(batch[w] \ existing[w])
      BY FS_Difference DEF InsertInv, Batches, BatchKept
    <3>2. wrote[w] \subseteq batch[w] \ existing[w]
      BY InsertInvImplies DEF NewRowsAreCounted
    <3>3. /\ Cardinality(wrote[w]) \in Nat
          /\ Cardinality(batch[w] \ existing[w]) \in Nat
          /\ Cardinality(wrote[w]) <= Cardinality(batch[w] \ existing[w])
      BY <3>1, <3>2, FS_Subset, FS_CardinalityType
    <3>4. Store!Absent(batch[w]) = wrote[w]
      BY <2>1, CommitSeen
    <3>5. QED BY <3>3, <3>4 DEF InsertedCount
  <2>3. PICK n \in Nat : n = InsertedCount(w)
    BY CountIsNat
  <2>4. Store!Done(w, n)
    BY <2>1, <2>3, ReturnSeen
  <2>5. /\ Held[w] # {} /\ Held[w] = batch[w]
        /\ table' = [h \in Hash |-> IF h \in Store!Absent(batch[w]) THEN row[w]
                                   ELSE table[h]]
    BY <2>1, CommitSeen
  <2>6. n \in Store!Cardinality(Store!Absent(Held[w]))..
               Store!Cardinality(Held[w] \ existing[w])
    BY <2>2, <2>3, <2>5, StoreCounts
  <2>7. PICK r \in Row : r = row[w]
    BY <2>1, CommitSeen
  <2>8. Store!StorePage(w, r)
    BY <2>4, <2>5, <2>6, <2>7 DEF Store!StorePage, Held
  <2>9. QED BY <2>8 DEF StoreStep, Store!Next
<1>7. ASSUME NEW w \in Worker, CommitUnheard(w) PROVE StoreStep
  <2>1. pc[w] = "commit" /\ table' = Committed(w) /\ Return(w, Failed)
    BY <1>7 DEF CommitUnheard
  <2>2. Store!Done(w, Failed)
    BY <2>1, ReturnSeen
  <2>3. Store!StoreUnheard(w, row[w])
    BY <2>1, <2>2, CommitSeen DEF Store!StoreUnheard, Held
  <2>4. QED BY <2>1, <2>3, CommitSeen DEF StoreStep, Store!Next
<1>8. ASSUME NEW w \in Worker, CallFails(w) \/ DeadlockVictim(w)
      PROVE  StoreStep
  <2>1. Return(w, Failed) /\ UNCHANGED table
    BY <1>8 DEF CallFails, DeadlockVictim
  <2>2. Store!Fail(w)
    BY <2>1, ReturnSeen DEF Store!Fail
  <2>3. QED BY <2>2 DEF StoreStep, Store!Next
<1>9. QED
  BY <1>1, <1>2, <1>3, <1>4, <1>5, <1>6, <1>7, <1>8 DEF Next, CallStep

\* bulk_insert_discovered implements the atomic page store: a page is stored in
\* one step or not at all, and its count lies between the rows it created and
\* the URLs that had none when it looked.
THEOREM InsertImplementsStore == Spec => StoreSpec
<1>1. InsertInv /\ [Next]_vars => [Store!Next]_(Store!vars)
  BY StoreSteps DEF StoreStep, Store!vars, Held
<1>2. Spec => Store!Init /\ [][Store!Next]_(Store!vars)
  BY StoreInit, InsertInvariant, <1>1, PTL DEF Spec
<1>3. QED BY <1>2 DEF StoreSpec, Store!Spec
=============================================================================
