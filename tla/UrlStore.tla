------------------------------ MODULE UrlStore ------------------------------
(***************************************************************************)
(* What CrawlUrlRepo promises to the page loop of the dispatcher: a page   *)
(* is stored in one step, completely or not at all; a URL that has a row   *)
(* keeps it; and the number of URLs reported as inserted lies between the  *)
(* rows the call created and the URLs that had no row when it looked.      *)
(* UrlInsert is the detailed version.                                      *)
(***************************************************************************)
EXTENDS Integers, FiniteSets

CONSTANTS
  Worker,
  Hash,         \* url_hash values
  Row,          \* what a row remembers of its discovery
  NoRow,        \* no row
  Failed        \* the call raised

VARIABLES
  table,        \* table[h]: t_crawl_url by its unique key
  batch,        \* batch[w]: the hashes w is about to store
  floor,        \* floor[w]: those of them that had a row when w looked
  inserted      \* inserted[w]: result of w's last call

vars == <<table, batch, floor, inserted>>

Absent(B) == {h \in B : table[h] = NoRow}

Init ==
  /\ table = [h \in Hash |-> NoRow]
  /\ batch = [w \in Worker |-> {}]
  /\ floor = [w \in Worker |-> {}]
  /\ inserted = [w \in Worker |-> 0]

Look(w, B) ==
  /\ batch[w] = {} /\ B # {}
  /\ batch' = [batch EXCEPT ![w] = B]
  /\ floor' = [floor EXCEPT ![w] = B \ Absent(B)]
  /\ UNCHANGED <<table, inserted>>

Done(w, n) ==
  /\ batch' = [batch EXCEPT ![w] = {}]
  /\ floor' = [floor EXCEPT ![w] = {}]
  /\ inserted' = [inserted EXCEPT ![w] = n]

StorePage(w, r) ==
  /\ batch[w] # {}
  /\ table' = [h \in Hash |-> IF h \in Absent(batch[w]) THEN r ELSE table[h]]
  /\ \E n \in Cardinality(Absent(batch[w]))..Cardinality(batch[w] \ floor[w]) :
       Done(w, n)

\* The commit happened but the caller sees an exception.
StoreUnheard(w, r) ==
  /\ batch[w] # {}
  /\ table' = [h \in Hash |-> IF h \in Absent(batch[w]) THEN r ELSE table[h]]
  /\ Done(w, Failed)

\* An exception: nothing of the page is stored.
Fail(w) == Done(w, Failed) /\ UNCHANGED table

\* Every host of the page is excluded.
Nothing(w) ==
  /\ batch[w] = {}
  /\ inserted' = [inserted EXCEPT ![w] = 0]
  /\ UNCHANGED <<table, batch, floor>>

Next ==
  \E w \in Worker :
    \/ \E B \in SUBSET Hash : Look(w, B)
    \/ \E r \in Row : StorePage(w, r) \/ StoreUnheard(w, r)
    \/ Fail(w)
    \/ Nothing(w)

Spec == Init /\ [][Next]_vars
=============================================================================
