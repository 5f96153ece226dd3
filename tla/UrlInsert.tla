----------------------------- MODULE UrlInsert ------------------------------
(***************************************************************************)
(* CrawlUrlRepo.bulk_insert_discovered as workers with overlapping search  *)
(* results run it against one t_crawl_url: normalise, drop the excluded    *)
(* hosts (a query of its own), then in one transaction read which hashes   *)
(* exist and INSERT ... ON DUPLICATE KEY UPDATE the rows one after the     *)
(* other, each under the lock of its unique key until the commit.          *)
(***************************************************************************)
EXTENDS UrlNormalizer, SequencesExt

CONSTANTS
  Worker, Row, NoRow, Failed, None,
  Raw,          \* URLs as adapters return them
  Pages,        \* the pages adapters return: sequences of raw URLs
  MaxCalls,     \* calls in all
  MaxFaults,
  MaxEdits      \* changes of t_domain.excluded

ASSUME InsertAssumption ==
  /\ None \notin Worker /\ NoRow \notin Row
  /\ Raw \subseteq Url
  /\ \A p \in Pages : p \in Seq(Raw) /\ p # <<>>
  /\ MaxCalls \in Nat /\ MaxFaults \in Nat /\ MaxEdits \in Nat

Parses(u) == u.host \notin Malformed

\* The values of url_hash that can come up.
Hash == {Normalize(u) : u \in {v \in Raw : Parses(v)}}

VARIABLES
  table,        \* committed rows
  excluded,     \* hosts with t_domain.excluded = 1
  pc,           \* pc[w]: "idle", "filter", "select", "insert" or "commit"
  page,         \* page[w]: candidate hashes
  todo,         \* todo[w]: positions in page[w] of the rows still to insert
  row,          \* row[w]: keyword, source and mode of the call, or NoRow
  batch,        \* batch[w]: batch_hashes
  existing,     \* existing[w]: existing_before
  wrote,        \* wrote[w]: rows inserted and not yet committed
  lock,         \* lock[h]: transaction holding the unique-key entry
  inserted,     \* inserted[w]: first component of the last result
  calls, faults, edits

callVars == <<page, todo, row, batch, existing, wrote>>
bound == <<calls, faults, edits>>
vars == <<table, excluded, pc, callVars, lock, inserted, bound>>

Init ==
  /\ table = [h \in Hash |-> NoRow]
  /\ excluded = {}
  /\ pc = [w \in Worker |-> "idle"]
  /\ page = [w \in Worker |-> <<>>]
  /\ todo = [w \in Worker |-> {}]
  /\ row = [w \in Worker |-> NoRow]
  /\ batch = [w \in Worker |-> {}]
  /\ existing = [w \in Worker |-> {}]
  /\ wrote = [w \in Worker |-> {}]
  /\ lock = [h \in Hash |-> None]
  /\ inserted = [w \in Worker |-> 0]
  /\ calls = 0 /\ faults = 0 /\ edits = 0

Goto(w, from, to) == pc[w] = from /\ pc' = [pc EXCEPT ![w] = to]

\* The call: every raw URL becomes a candidate by its hash.
Call(w, p, r) ==
  /\ \A i \in DOMAIN p : Parses(p[i])
  /\ calls < MaxCalls
  /\ calls' = calls + 1
  /\ Goto(w, "idle", "filter")
  /\ page' = [page EXCEPT ![w] = [i \in DOMAIN p |-> Normalize(p[i])]]
  /\ row' = [row EXCEPT ![w] = r]
  /\ UNCHANGED <<table, excluded, todo, batch, existing, wrote, lock, inserted,
                 faults, edits>>

\* One URL that urlparse cannot split, and the whole page is refused.
CallRefused(w, p) ==
  /\ pc[w] = "idle"
  /\ \E i \in DOMAIN p : ~Parses(p[i])
  /\ calls < MaxCalls
  /\ calls' = calls + 1
  /\ inserted' = [inserted EXCEPT ![w] = Failed]
  /\ UNCHANGED <<table, excluded, pc, callVars, lock, faults, edits>>

\* get_excluded_hosts, in a transaction of its own.
Kept(w) == {i \in DOMAIN page[w] : page[w][i].netloc \notin excluded}

Filter(w) ==
  /\ Kept(w) # {}
  /\ Goto(w, "filter", "select")
  /\ todo' = [todo EXCEPT ![w] = Kept(w)]
  /\ batch' = [batch EXCEPT ![w] = {page[w][i] : i \in Kept(w)}]
  /\ UNCHANGED <<table, excluded, page, row, existing, wrote, lock, inserted,
                 bound>>

\* Mutant: the transaction of a call stays open.
ReturnOpen(w, n) ==
  /\ pc' = [pc EXCEPT ![w] = "idle"]
  /\ page' = [page EXCEPT ![w] = <<>>]
  /\ todo' = [todo EXCEPT ![w] = {}]
  /\ row' = [row EXCEPT ![w] = NoRow]
  /\ batch' = [batch EXCEPT ![w] = {}]
  /\ existing' = [existing EXCEPT ![w] = {}]
  /\ wrote' = [wrote EXCEPT ![w] = {}]
  /\ lock' = lock
  /\ inserted' = [inserted EXCEPT ![w] = n]

\* The call is over: its locks and locals are gone.
Return(w, n) ==
  /\ pc' = [pc EXCEPT ![w] = "idle"]
  /\ page' = [page EXCEPT ![w] = <<>>]
  /\ todo' = [todo EXCEPT ![w] = {}]
  /\ row' = [row EXCEPT ![w] = NoRow]
  /\ batch' = [batch EXCEPT ![w] = {}]
  /\ existing' = [existing EXCEPT ![w] = {}]
  /\ wrote' = [wrote EXCEPT ![w] = {}]
  /\ lock' = [h \in Hash |-> IF lock[h] = w THEN None ELSE lock[h]]
  /\ inserted' = [inserted EXCEPT ![w] = n]

\* Nothing is left after the filter: (0, len(candidates)).
AllExcluded(w) ==
  /\ pc[w] = "filter"
  /\ Kept(w) = {}
  /\ Return(w, 0)
  /\ UNCHANGED <<table, excluded, bound>>

SelectExisting(w) ==
  /\ Goto(w, "select", "insert")
  /\ existing' = [existing EXCEPT ![w] = {h \in batch[w] : table[h] # NoRow}]
  /\ UNCHANGED <<table, excluded, page, todo, row, batch, wrote, lock, inserted,
                 bound>>

\* The row the INSERT has come to.
Ahead(w) == Min(todo[w])
AheadHash(w) == page[w][Ahead(w)]
Rest(w) == todo[w] \ {Ahead(w)}

\* Mutants: the existing hashes are read after the INSERT; a plain INSERT that
\* ends at its first duplicate.
InsertRowSeen(w) ==
  LET h == AheadHash(w)
  IN  /\ pc[w] = "insert"
      /\ lock[h] \in {None, w}
      /\ pc' = [pc EXCEPT ![w] = IF Rest(w) # {} THEN @ ELSE "commit"]
      /\ lock' = [lock EXCEPT ![h] = w]
      /\ wrote' = [wrote EXCEPT ![w] = IF table[h] = NoRow THEN @ \cup {h} ELSE @]
      /\ existing' = [existing EXCEPT ![w] = @ \cup {h}]
      /\ todo' = [todo EXCEPT ![w] = Rest(w)]
      /\ UNCHANGED <<table, excluded, page, row, batch, inserted, bound>>

InsertRowPlain(w) ==
  LET h == AheadHash(w)
      on == table[h] = NoRow /\ Rest(w) # {}
  IN  /\ pc[w] = "insert"
      /\ lock[h] \in {None, w}
      /\ pc' = [pc EXCEPT ![w] = IF on THEN @ ELSE "commit"]
      /\ lock' = [lock EXCEPT ![h] = w]
      /\ wrote' = [wrote EXCEPT ![w] = IF table[h] = NoRow THEN @ \cup {h} ELSE @]
      /\ todo' = [todo EXCEPT ![w] = Rest(w)]
      /\ UNCHANGED <<table, excluded, page, row, batch, existing, inserted,
                     bound>>

\* One row of the INSERT: its key is locked; a key that is taken, by a committed
\* row or by an earlier row of this page, stays as it is.
InsertRow(w) ==
  LET h == AheadHash(w)
  IN  /\ pc[w] = "insert"
      /\ lock[h] \in {None, w}
      /\ pc' = [pc EXCEPT ![w] = IF Rest(w) # {} THEN @ ELSE "commit"]
      /\ lock' = [lock EXCEPT ![h] = w]
      /\ wrote' = [wrote EXCEPT ![w] = IF table[h] = NoRow THEN @ \cup {h} ELSE @]
      /\ todo' = [todo EXCEPT ![w] = Rest(w)]
      /\ UNCHANGED <<table, excluded, page, row, batch, existing, inserted,
                     bound>>

\* Mutant: ON DUPLICATE KEY UPDATE overwrites the row.
CommittedOver(w) ==
  [h \in Hash |-> IF h \in batch[w] THEN row[w] ELSE table[h]]

\* What the commit makes of the table.
Committed(w) ==
  [h \in Hash |-> IF h \in wrote[w] THEN row[w] ELSE table[h]]

\* Mutant: the driver's rowcount, which counts no-op duplicates as well.
InsertedRowcount(w) == Cardinality(batch[w])

\* len(batch_hashes - existing_before)
InsertedCount(w) == Cardinality(batch[w] \ existing[w])

Commit(w) ==
  /\ pc[w] = "commit"
  /\ table' = Committed(w)
  /\ Return(w, InsertedCount(w))
  /\ UNCHANGED <<excluded, bound>>

-----------------------------------------------------------------------------
(* Failures *)

\* A statement raises: rollback, and the exception goes to the dispatcher.
CallFails(w) ==
  /\ pc[w] # "idle"
  /\ faults < MaxFaults
  /\ faults' = faults + 1
  /\ Return(w, Failed)
  /\ UNCHANGED <<table, excluded, calls, edits>>

\* The commit is done but its answer is lost.
CommitUnheard(w) ==
  /\ pc[w] = "commit"
  /\ faults < MaxFaults
  /\ faults' = faults + 1
  /\ table' = Committed(w)
  /\ Return(w, Failed)
  /\ UNCHANGED <<excluded, calls, edits>>

Waiting(w) == pc[w] = "insert" /\ lock[AheadHash(w)] \notin {None, w}
Blocker(w) == lock[AheadHash(w)]

Deadlocked(w) ==
  \E S \in SUBSET Worker :
    /\ w \in S
    /\ \A v \in S : Waiting(v) /\ Blocker(v) \in S
    /\ \A v \in S : \E u \in S : Blocker(u) = v

\* Pages that share URLs in different orders: the server rolls one back.
DeadlockVictim(w) ==
  /\ Deadlocked(w)
  /\ Return(w, Failed)
  /\ UNCHANGED <<table, excluded, bound>>

\* An operator excludes a host or admits it again.
ToggleHost(x) ==
  /\ edits < MaxEdits
  /\ edits' = edits + 1
  /\ excluded' = IF x \in excluded THEN excluded \ {x} ELSE excluded \cup {x}
  /\ UNCHANGED <<table, pc, callVars, lock, inserted, calls, faults>>

\* The end of the modelled calls.
Horizon ==
  /\ calls = MaxCalls
  /\ \A w \in Worker : pc[w] = "idle"
  /\ UNCHANGED vars

CallStep(w) ==
  \/ Filter(w)
  \/ AllExcluded(w)
  \/ SelectExisting(w)
  \/ InsertRow(w)
  \/ Commit(w)

Next ==
  \/ \E w \in Worker :
       \/ \E p \in Pages, r \in Row : Call(w, p, r)
       \/ \E p \in Pages : CallRefused(w, p)
       \/ CallStep(w)
       \/ CallFails(w)
       \/ CommitUnheard(w)
       \/ DeadlockVictim(w)
  \/ \E h \in Hash : ToggleHost(h.netloc)
  \/ Horizon

Spec == Init /\ [][Next]_vars

\* Workers keep running, and the server breaks every cycle of lock waits.  The
\* calls are finitely many, so no worker is passed over for ever.
FairSpec ==
  /\ Spec
  /\ \A w \in Worker : WF_vars(CallStep(w)) /\ WF_vars(DeadlockVictim(w))

-----------------------------------------------------------------------------
(* Properties *)

\* Types; only a transaction in its INSERT holds key locks, and what it has
\* written it has locked.
TypeOK ==
  /\ table \in [Hash -> Row \cup {NoRow}]
  /\ excluded \subseteq {h.netloc : h \in Hash}
  /\ pc \in [Worker -> {"idle", "filter", "select", "insert", "commit"}]
  /\ page \in [Worker -> Seq(Hash)]
  /\ \A w \in Worker : todo[w] \subseteq DOMAIN page[w]
  /\ row \in [Worker -> Row \cup {NoRow}]
  /\ batch \in [Worker -> SUBSET Hash]
  /\ existing \in [Worker -> SUBSET Hash]
  /\ wrote \in [Worker -> SUBSET Hash]
  /\ lock \in [Hash -> Worker \cup {None}]
  /\ inserted \in [Worker -> Nat \cup {Failed}]
  /\ \A h \in Hash : lock[h] # None => pc[lock[h]] \in {"insert", "commit"}
  /\ \A w \in Worker : \A h \in wrote[w] : lock[h] = w /\ table[h] = NoRow

\* The count the dispatcher's early stop relies on: every row a call creates is
\* among the URLs it reports as inserted, whatever other workers insert between
\* its SELECT and its INSERT.  So (0, n) never hides a new article.
NewRowsAreCounted ==
  \A w \in Worker : wrote[w] \subseteq batch[w] \ existing[w]

\* The row of the first discovery survives every later one: keyword, source and
\* mode are never overwritten, and no row disappears.
FirstDiscoveryWins ==
  [][\A h \in Hash : table[h] # NoRow => table'[h] = table[h]]_table

\* A call that returns leaves every URL of its page, the excluded hosts apart,
\* in the table, though another call may have stored it.
PageIsStored ==
  [][\A w \in Worker :
       pc[w] = "commit" /\ pc'[w] = "idle" /\ inserted'[w] # Failed =>
         \A h \in batch[w] : table'[h] # NoRow]_vars

\* bulk_insert_discovered implements the atomic page store.
Looking(w) == pc[w] \in {"insert", "commit"}

Store == INSTANCE UrlStore WITH
  batch <- [w \in Worker |-> IF Looking(w) THEN batch[w] ELSE {}],
  floor <- existing

StoreSpec == Store!Spec

\* Every call returns or raises, though pages lock their URLs in any order.
CallReturns == \A w \in Worker : pc[w] # "idle" ~> pc[w] = "idle"
=============================================================================
