------------------------ MODULE ChromeProfileProofs -------------------------
(***************************************************************************)
(* Theorems about ChromeProfile for any adapters, processes, profile       *)
(* directories and numbers of faults.                                      *)
(***************************************************************************)
EXTENDS ChromeProfile, TLAPS

-----------------------------------------------------------------------------
(* The inductive invariant *)

Types ==
  /\ pc \in [Adapter -> {"rest", "locked", "started", "quit", "kill", "release"}]
  /\ pid \in [Adapter -> Pid \cup {None}]
  /\ lock \in [Profile -> Adapter \cup {Cleaner, None}]
  /\ proc \in [Worker -> [Pid -> Chrome \cup {None}]]
  /\ ending \subseteq Worker
  /\ faults \in 0..MaxFaults

\* One adapter of a process is in the middle of something, and it has a number
\* from the start of its browser to the end of close.
Sequential == \A a \in Adapter : pc[a] # "rest" => Turn(a)

Numbered ==
  \A a \in Adapter :
    /\ pc[a] = "locked" => pid[a] = None
    /\ pc[a] \in {"started", "quit", "kill", "release"} => pid[a] # None

\* Whoever starts or has a browser holds the flock of its directory.
HoldsLock ==
  \A a \in Adapter :
    Dir[a] # None /\ (pid[a] # None \/ pc[a] = "locked") => lock[Dir[a]] = a

\* An adapter holds no lock but that one, and only while it is starting, has a
\* driver or its process is on the way out.
NoStrayLock ==
  \A p \in Profile :
    lock[p] \in Adapter =>
      /\ p = Dir[lock[p]]
      /\ \/ pid[lock[p]] # None
         \/ pc[lock[p]] # "rest"
         \/ Process[lock[p]] \in ending

\* A browser in use has the number that its adapter remembers, until the kill is
\* over.
Tracked ==
  \A w \in Worker, n \in Pid :
    LET c == proc[w][n]
    IN  InUse(c) =>
          /\ w = Process[c.owner]
          /\ n = pid[c.owner]
          /\ c.dir = Dir[c.owner]
          /\ pc[c.owner] # "release"

\* The browsers of a container were started in directories of its adapters.
Local ==
  \A w \in Worker, n \in Pid :
    proc[w][n] # None =>
      \E a \in Adapter : Process[a] = w /\ Dir[a] = proc[w][n].dir

ProfileInv ==
  Types /\ Sequential /\ Numbered /\ HoldsLock /\ NoStrayLock /\ Tracked /\ Local

\* The inductive invariant gives the invariants that are stated of the profiles.
LEMMA ProfileInvImplies ==
  ProfileInv =>
    TypeOK /\ LiveBrowserIsLocked /\ NoSelfLockout /\ ClosedBrowserIsGone
<1> SUFFICES ASSUME ProfileInv
             PROVE  TypeOK /\ LiveBrowserIsLocked /\ NoSelfLockout /\ ClosedBrowserIsGone
  OBVIOUS
<1> USE ProfileAssumption DEF ProfileAssumption, ProfileInv
<1>1. TypeOK
  BY DEF TypeOK, Types, Sequential, Numbered
<1>2. ASSUME NEW c \in Browsers, InUse(c)
      PROVE  /\ pid[c.owner] # None /\ c = At(c.owner, pid[c.owner])
             /\ c.dir # None => lock[c.dir] = c.owner
  <2>1. PICK w \in Worker, n \in Pid : c = proc[w][n]
    BY DEF Browsers
  <2>2. /\ w = Process[c.owner] /\ n = pid[c.owner]
        /\ c.dir = Dir[c.owner]
    BY <1>2, <2>1 DEF Tracked
  <2>3. pid[c.owner] # None /\ c = At(c.owner, pid[c.owner])
    BY <2>1, <2>2 DEF At
  <2>4. c.owner \in Adapter
    BY <1>2 DEF InUse
  <2>5. QED BY <2>2, <2>3, <2>4 DEF HoldsLock
<1>3. LiveBrowserIsLocked
  BY <1>2 DEF LiveBrowserIsLocked
<1>4. ClosedBrowserIsGone
  BY <1>2 DEF ClosedBrowserIsGone
<1>5. NoSelfLockout
  BY DEF NoSelfLockout, NoStrayLock, Types
<1>6. QED BY <1>1, <1>3, <1>4, <1>5

-----------------------------------------------------------------------------
(* Types *)

\* One entry of the process table is replaced by a Chrome or by nothing.
LEMMA PutTypes ==
  ASSUME ProfileAssumption, Types,
         NEW a \in Adapter, NEW n \in Pid, NEW c \in Chrome \cup {None},
         Put(a, n, c)
  PROVE  proc' \in [Worker -> [Pid -> Chrome \cup {None}]]
BY DEF ProfileAssumption, Types, Put

\* What a dropped driver leaves in the process table.
LEMMA DropTypes ==
  ASSUME ProfileAssumption, Types, NEW a \in Adapter, pid[a] # None,
         DropStarted(a)
  PROVE  /\ pid' \in [Adapter -> Pid \cup {None}]
         /\ proc' \in [Worker -> [Pid -> Chrome \cup {None}]]
<1> USE DEF ProfileAssumption, Types
<1>1. pid[a] \in Pid /\ Process[a] \in Worker
  OBVIOUS
<1>2. pid' \in [Adapter -> Pid \cup {None}]
  BY DEF DropStarted
<1>3. CASE Live(At(a, pid[a]))
  <2>1. PICK d \in {[At(a, pid[a]) EXCEPT !.left = TRUE], None} :
          Put(a, pid[a], d)
    BY <1>3 DEF DropStarted
  <2>2. At(a, pid[a]) \in Chrome
    BY <1>1, <1>3 DEF At, Live
  <2>3. d \in Chrome \cup {None}
    BY <2>2 DEF Chrome
  <2>4. QED BY <1>1, <1>2, <2>1, <2>3, PutTypes
<1>4. CASE ~Live(At(a, pid[a]))
  BY <1>2, <1>4 DEF DropStarted
<1>5. QED BY <1>3, <1>4

\* Every step keeps the types.
LEMMA TypesStep ==
  ASSUME ProfileInv, [Next]_vars
  PROVE  Types'
<1> USE ProfileAssumption DEF ProfileAssumption
<1>0. Types /\ Numbered
  BY DEF ProfileInv
<1>a. ASSUME NEW site, Fault(site) PROVE faults' \in 0..MaxFaults
  BY <1>0, <1>a DEF Fault, Types
<1>b. ASSUME NEW a \in Adapter, Unlock(a)
      PROVE  lock' \in [Profile -> Adapter \cup {Cleaner, None}]
  BY <1>0, <1>b DEF Unlock, Types
<1>1. CASE UNCHANGED vars
  BY <1>0, <1>1 DEF vars, Types
<1>2. ASSUME NEW a \in Adapter,
             Acquire(a) \/ BuildDone(a) \/ Discard(a) \/ CloseAtExit(a)
      PROVE  Types'
  <2>1. /\ \E p \in {"locked", "rest", "quit"} : pc' = [pc EXCEPT ![a] = p]
        /\ UNCHANGED <<pid, proc, ending, faults>>
    BY <1>2 DEF Acquire, BuildDone, Discard, CloseAtExit, Goto
  <2>2. lock' \in [Profile -> Adapter \cup {Cleaner, None}]
    <3>1. CASE UNCHANGED lock
      BY <1>0, <3>1 DEF Types
    <3>2. CASE Acquire(a) /\ Dir[a] # None
      BY <1>0, <3>2 DEF Acquire, Types
    <3>3. QED BY <1>2, <3>1, <3>2 DEF Acquire, BuildDone, Discard, CloseAtExit
  <2>3. pc' \in [Adapter -> {"rest", "locked", "started", "quit", "kill", "release"}]
    BY <1>0, <2>1 DEF Types
  <2>4. QED BY <1>0, <2>1, <2>2, <2>3 DEF Types
<1>3. ASSUME NEW a \in Adapter, Launch(a) PROVE Types'
  <2>1. PICK n \in Pid :
          /\ Put(a, n, New(a))
          /\ pid' = [pid EXCEPT ![a] = n]
    BY <1>3 DEF Launch
  <2>2. New(a) \in Chrome
    BY DEF Chrome, New
  <2>3. proc' \in [Worker -> [Pid -> Chrome \cup {None}]]
    BY <1>0, <2>1, <2>2, PutTypes
  <2>4. QED BY <1>0, <1>3, <2>1, <2>3 DEF Launch, Goto, Types
<1>4. ASSUME NEW a \in Adapter, StartFails(a) PROVE Types'
  <2>1. /\ faults' \in 0..MaxFaults
        /\ lock' \in [Profile -> Adapter \cup {Cleaner, None}]
    BY <1>4, <1>a, <1>b DEF StartFails, Fail
  <2>2. QED BY <1>0, <1>4, <2>1 DEF StartFails, Goto, Types
<1>5. ASSUME NEW a \in Adapter, BuildFails(a) PROVE Types'
  <2>1. /\ faults' \in 0..MaxFaults
        /\ lock' \in [Profile -> Adapter \cup {Cleaner, None}]
    BY <1>5, <1>a, <1>b DEF BuildFails, Fail
  <2>2. pid[a] # None
    BY <1>0, <1>5 DEF BuildFails, Goto, Numbered
  <2>3. /\ pid' \in [Adapter -> Pid \cup {None}]
        /\ proc' \in [Worker -> [Pid -> Chrome \cup {None}]]
    BY <1>0, <1>5, <2>2, DropTypes DEF BuildFails
  <2>4. QED BY <1>0, <1>5, <2>1, <2>3 DEF BuildFails, Goto, Types
<1>6. ASSUME NEW a \in Adapter, Quit(a) PROVE Types'
  <2>1. pid[a] \in Pid
    BY <1>0, <1>6 DEF Quit, Goto, Numbered, Types
  <2>2. proc' \in [Worker -> [Pid -> Chrome \cup {None}]]
    <3>1. CASE UNCHANGED proc
      BY <1>0, <3>1 DEF Types
    <3>2. ASSUME NEW s \in {"zombie", "up"}, At(a, pid[a]) # None,
                 Put(a, pid[a], [At(a, pid[a]) EXCEPT !.state = s])
          PROVE  proc' \in [Worker -> [Pid -> Chrome \cup {None}]]
      <4>1. At(a, pid[a]) \in Chrome
        BY <1>0, <2>1, <3>2 DEF At, Types
      <4>2. [At(a, pid[a]) EXCEPT !.state = s] \in Chrome
        BY <4>1 DEF Chrome
      <4>3. QED BY <1>0, <2>1, <3>2, <4>2, PutTypes
    <3>3. QED BY <1>6, <3>1, <3>2 DEF Quit
  <2>3. QED BY <1>0, <1>6, <2>2 DEF Quit, Goto, Types
<1>7. ASSUME NEW a \in Adapter, KillTree(a) PROVE Types'
  <2>1. pid[a] \in Pid
    BY <1>0, <1>7 DEF KillTree, Goto, Numbered, Types
  <2>2. proc' \in [Worker -> [Pid -> Chrome \cup {None}]]
    <3>1. CASE UNCHANGED proc
      BY <1>0, <3>1 DEF Types
    <3>2. CASE LooksLikeChrome(a, At(a, pid[a])) /\ ~ UNCHANGED proc
      <4>1. PICK d \in {[At(a, pid[a]) EXCEPT !.state = "dying"], None} :
              Put(a, pid[a], d)
        BY <1>7, <3>2 DEF KillTree
      <4>2. At(a, pid[a]) \in Chrome
        BY <1>0, <2>1, <3>2 DEF At, Types, LooksLikeChrome, Live
      <4>3. [At(a, pid[a]) EXCEPT !.state = "dying"] \in Chrome
        BY <4>2 DEF Chrome
      <4>4. QED BY <1>0, <2>1, <4>1, <4>3, PutTypes
    <3>3. QED BY <1>7, <3>1, <3>2 DEF KillTree
  <2>3. QED BY <1>0, <1>7, <2>2 DEF KillTree, Goto, Types
<1>8. ASSUME NEW a \in Adapter, Release(a) PROVE Types'
  <2>1. lock' \in [Profile -> Adapter \cup {Cleaner, None}]
    BY <1>8, <1>b DEF Release
  <2>2. QED BY <1>0, <1>8, <2>1 DEF Release, Goto, Types
<1>9. ASSUME NEW w \in Worker, NEW n \in Pid, Hang(w, n) \/ Crash(w, n) \/ Dies(w, n)
      PROVE  Types'
  <2>1. /\ proc[w][n] \in Chrome
        /\ \E s \in {"hung", "zombie"} :
             proc' = [proc EXCEPT ![w][n].state = s]
        /\ UNCHANGED <<pc, pid, lock, ending>>
        /\ faults' \in 0..MaxFaults
    BY <1>0, <1>9, <1>a DEF Hang, Crash, Dies, Live, Types
  <2>2. PICK s \in {"hung", "zombie"} : proc' = [proc EXCEPT ![w][n].state = s]
    BY <2>1
  <2>3. [proc[w][n] EXCEPT !.state = s] \in Chrome
    BY <2>1 DEF Chrome
  <2>4. proc' = [proc EXCEPT ![w] = [@ EXCEPT ![n] = [proc[w][n] EXCEPT !.state = s]]]
    BY <2>2
  <2>5. proc' \in [Worker -> [Pid -> Chrome \cup {None}]]
    BY <1>0, <2>3, <2>4 DEF Types
  <2>6. QED BY <1>0, <2>1, <2>5 DEF Types
<1>10. ASSUME NEW w \in Worker, Reap(w) PROVE Types'
  BY <1>0, <1>10 DEF Reap, Types
<1>11. ASSUME NEW w \in Worker, Stop(w) PROVE Types'
  <2>1. pc' \in [Adapter -> {"rest", "locked", "started", "quit", "kill", "release"}]
    BY <1>0, <1>11 DEF Stop, Types
  <2>2. /\ pid' \in [Adapter -> Pid \cup {None}]
        /\ proc' \in [Worker -> [Pid -> Chrome \cup {None}]]
    <3>1. CASE UNCHANGED <<pid, proc>>
      BY <1>0, <3>1 DEF Types
    <3>2. ASSUME NEW a \in Adapter, pc[a] = "started", DropStarted(a)
          PROVE  /\ pid' \in [Adapter -> Pid \cup {None}]
                 /\ proc' \in [Worker -> [Pid -> Chrome \cup {None}]]
      BY <1>0, <3>2, DropTypes DEF Numbered
    <3>3. QED BY <1>11, <3>1, <3>2 DEF Stop
  <2>3. ending' \subseteq Worker /\ UNCHANGED <<lock, faults>>
    BY <1>0, <1>11 DEF Stop, Types
  <2>4. QED BY <1>0, <2>1, <2>2, <2>3 DEF Types
<1>12. ASSUME NEW w \in Worker, Death(w) \/ Exit(w) PROVE Types'
  <2>1. Restart(w) /\ faults' \in 0..MaxFaults
    BY <1>0, <1>12, <1>a DEF Death, Exit, Types
  <2>2. QED BY <1>0, <2>1 DEF Restart, Types
<1>13. ASSUME NEW p \in Profile, CleanStart(p) \/ CleanDone(p) PROVE Types'
  BY <1>0, <1>13 DEF CleanStart, CleanDone, Types
<1>14. QED
  BY <1>1, <1>2, <1>3, <1>4, <1>5, <1>6, <1>7, <1>8, <1>9, <1>10, <1>11,
     <1>12, <1>13 DEF Next, Ensure, Close
-----------------------------------------------------------------------------
(* The control of a process *)

\* Where the steps of an adapter lead: only from its own turn, and to rest or on
\* along start or close.
LEMMA AdapterMoves ==
  ASSUME ProfileInv, NEW a \in Adapter,
         Ensure(a) \/ Discard(a) \/ CloseAtExit(a) \/ Close(a)
  PROVE  /\ Turn(a)
         /\ \A b \in Adapter : b # a => pc'[b] = pc[b] /\ pid'[b] = pid[b]
         /\ UNCHANGED ending
         /\ pc'[a] = "locked" => pid'[a] = None
         /\ pc'[a] \in {"started", "quit", "kill", "release"} => pid'[a] # None
<1> USE ProfileAssumption DEF ProfileAssumption, ProfileInv
<1>1. CASE Ensure(a)
  <2>1. CASE Acquire(a)
    BY <2>1 DEF Acquire, Goto, Types
  <2>2. CASE Launch(a)
    BY <2>2 DEF Launch, Goto, Types, Sequential
  <2>3. CASE StartFails(a) \/ BuildDone(a)
    BY <2>3 DEF StartFails, BuildDone, Goto, Types, Sequential
  <2>4. CASE BuildFails(a)
    BY <2>4 DEF BuildFails, DropStarted, Goto, Types, Sequential
  <2>5. QED BY <1>1, <2>1, <2>2, <2>3, <2>4 DEF Ensure
<1>2. CASE Discard(a) \/ CloseAtExit(a)
  BY <1>2 DEF Discard, CloseAtExit, Goto, Types
<1>3. CASE Quit(a) \/ KillTree(a)
  BY <1>3 DEF Quit, KillTree, Goto, Types, Sequential, Numbered
<1>4. CASE Release(a)
  BY <1>4 DEF Release, Goto, Types, Sequential
<1>5. QED BY <1>1, <1>2, <1>3, <1>4 DEF Close

\* The steps of a whole process put its adapters to rest.
LEMMA ProcessMoves ==
  ASSUME ProfileInv, NEW w \in Worker, Stop(w) \/ Death(w) \/ Exit(w)
  PROVE  \A a \in Adapter :
           IF Process[a] = w THEN pc'[a] = "rest"
           ELSE pc'[a] = pc[a] /\ pid'[a] = pid[a]
<1> USE ProfileAssumption DEF ProfileAssumption, ProfileInv
<1>1. CASE Stop(w)
  BY <1>1 DEF Stop, DropStarted, Types
<1>2. CASE Death(w) \/ Exit(w)
  BY <1>2 DEF Death, Exit, Restart, Types
<1>3. QED BY <1>1, <1>2

\* The other steps leave the control alone.
LEMMA OtherMoves ==
  ASSUME [Next]_vars,
         ~ \E a \in Adapter :
             Ensure(a) \/ Discard(a) \/ CloseAtExit(a) \/ Close(a),
         ~ \E w \in Worker : Stop(w) \/ Death(w) \/ Exit(w)
  PROVE  UNCHANGED <<pc, pid, ending>>
BY DEF Next, Hang, Crash, Dies, Reap, CleanStart, CleanDone, vars

\* One adapter of a process acts at a time, and its number is that of a start or
\* of a close that is under way.
LEMMA ControlStep ==
  ASSUME ProfileInv, [Next]_vars
  PROVE  Sequential' /\ Numbered'
<1> USE DEF ProfileInv
<1>1. CASE UNCHANGED <<pc, pid, ending>>
  BY <1>1 DEF Sequential, Numbered, Turn
<1>2. ASSUME NEW a \in Adapter,
             Ensure(a) \/ Discard(a) \/ CloseAtExit(a) \/ Close(a)
      PROVE  Sequential' /\ Numbered'
  BY <1>2, AdapterMoves DEF Sequential, Numbered, Turn
<1>3. ASSUME NEW w \in Worker, Stop(w) \/ Death(w) \/ Exit(w)
      PROVE  Sequential' /\ Numbered'
  BY <1>3, ProcessMoves DEF Sequential, Numbered, Turn
<1>4. QED BY <1>1, <1>2, <1>3, OtherMoves

-----------------------------------------------------------------------------
(* The locks of the profiles *)

\* What a step of an adapter does to the locks: it takes the free one of its
\* directory when it starts, or frees its own when its number is gone.
LEMMA AdapterLocks ==
  ASSUME ProfileInv, NEW a \in Adapter,
         Ensure(a) \/ Discard(a) \/ CloseAtExit(a) \/ Close(a)
  PROVE  \/ /\ UNCHANGED lock
            /\ pid'[a] # None \/ pc'[a] = "locked"
            /\ Dir[a] # None => lock[Dir[a]] = a
         \/ /\ Dir[a] # None /\ lock[Dir[a]] = None
            /\ lock' = [lock EXCEPT ![Dir[a]] = a]
            /\ pc'[a] = "locked"
         \/ /\ Unlock(a)
            /\ pid'[a] = None /\ pc'[a] = "rest"
<1> USE ProfileAssumption DEF ProfileAssumption, ProfileInv
<1>1. CASE Acquire(a)
  BY <1>1 DEF Acquire, Goto, Types
<1>2. CASE Launch(a)
  BY <1>2 DEF Launch, Goto, Types, HoldsLock
<1>3. CASE StartFails(a)
  BY <1>3 DEF StartFails, Fail, Goto, Types, Numbered
<1>4. CASE BuildFails(a)
  BY <1>4 DEF BuildFails, Fail, DropStarted, Goto, Types
<1>5. CASE BuildDone(a) \/ Discard(a) \/ CloseAtExit(a)
  BY <1>5 DEF BuildDone, Discard, CloseAtExit, Goto, Numbered, HoldsLock
<1>6. CASE Quit(a) \/ KillTree(a)
  BY <1>6 DEF Quit, KillTree, Goto, Numbered, HoldsLock
<1>7. CASE Release(a)
  BY <1>7 DEF Release, Goto, Types
<1>8. QED
  BY <1>1, <1>2, <1>3, <1>4, <1>5, <1>6, <1>7 DEF Ensure, Close

\* The lock of a profile is held by the adapter that uses it and by no other.
LEMMA LockStep ==
  ASSUME ProfileInv, [Next]_vars
  PROVE  HoldsLock' /\ NoStrayLock'
<1> USE ProfileAssumption DEF ProfileAssumption, ProfileInv
<1>1. ASSUME NEW a \in Adapter,
             Ensure(a) \/ Discard(a) \/ CloseAtExit(a) \/ Close(a)
      PROVE  HoldsLock' /\ NoStrayLock'
  <2>1. /\ \A b \in Adapter : b # a => pc'[b] = pc[b] /\ pid'[b] = pid[b]
        /\ UNCHANGED ending
    BY <1>1, AdapterMoves
  <2>2. CASE /\ UNCHANGED lock
             /\ pid'[a] # None \/ pc'[a] = "locked"
             /\ Dir[a] # None => lock[Dir[a]] = a
    BY <2>1, <2>2 DEF HoldsLock, NoStrayLock
  <2>3. CASE /\ Dir[a] # None /\ lock[Dir[a]] = None
             /\ lock' = [lock EXCEPT ![Dir[a]] = a]
             /\ pc'[a] = "locked"
    BY <2>1, <2>3 DEF HoldsLock, NoStrayLock, Types
  <2>4. CASE Unlock(a) /\ pid'[a] = None /\ pc'[a] = "rest"
    BY <2>1, <2>4 DEF HoldsLock, NoStrayLock, Unlock
  <2>5. QED BY <1>1, <2>2, <2>3, <2>4, AdapterLocks
<1>2. ASSUME NEW w \in Worker, Stop(w) PROVE HoldsLock' /\ NoStrayLock'
  <2>1. /\ UNCHANGED lock /\ ending' = ending \cup {w}
        /\ \A b \in Adapter : pid'[b] # None => pid[b] # None
        /\ \A b \in Adapter : Process[b] = w => pc'[b] = "rest"
    BY <1>2, ProcessMoves DEF Stop, DropStarted, Types
  <2>2. \A b \in Adapter :
          Process[b] # w => pc'[b] = pc[b] /\ pid'[b] = pid[b]
    BY <1>2, ProcessMoves
  <2>3. QED BY <2>1, <2>2 DEF HoldsLock, NoStrayLock
<1>3. ASSUME NEW w \in Worker, Death(w) \/ Exit(w)
      PROVE  HoldsLock' /\ NoStrayLock'
  <2>1. Restart(w)
    BY <1>3 DEF Death, Exit
  <2>2. HoldsLock'
    BY <2>1 DEF Restart, HoldsLock, Types
  <2>3. NoStrayLock'
    BY <2>1 DEF Restart, NoStrayLock, Types
  <2>4. QED BY <2>2, <2>3
<1>4. ASSUME NEW p \in Profile, CleanStart(p) \/ CleanDone(p)
      PROVE  HoldsLock' /\ NoStrayLock'
  BY <1>4 DEF CleanStart, CleanDone, HoldsLock, NoStrayLock, Types
<1>5. CASE UNCHANGED <<pc, pid, lock, ending>>
  BY <1>5 DEF HoldsLock, NoStrayLock
<1>6. QED
  BY <1>1, <1>2, <1>3, <1>4, <1>5 DEF Next, Hang, Crash, Dies, Reap, vars
-----------------------------------------------------------------------------
(* The browsers *)

\* The Chrome d is what remains of c: no younger and no more in use.
Remains(c, d) ==
  /\ c # None
  /\ d.dir = c.dir
  /\ d.owner = c.owner
  /\ InUse(d) => InUse(c)

\* A dropped driver changes its own entry of the process table alone, and leaves
\* no browser in use there.
LEMMA DropEntries ==
  ASSUME ProfileInv, NEW a \in Adapter, pid[a] # None, DropStarted(a),
         NEW w \in Worker, NEW n \in Pid
  PROVE  /\ proc'[w][n] # None => Remains(proc[w][n], proc'[w][n])
         /\ w = Process[a] /\ n = pid[a] => ~InUse(proc'[w][n])
<1> USE ProfileAssumption DEF ProfileAssumption, ProfileInv, Types
<1>1. pid[a] \in Pid /\ Process[a] \in Worker
  OBVIOUS
<1>2. CASE Live(At(a, pid[a]))
  <2>1. PICK d \in {[At(a, pid[a]) EXCEPT !.left = TRUE], None} :
          Put(a, pid[a], d)
    BY <1>2 DEF DropStarted
  <2>2. At(a, pid[a]) \in Chrome
    BY <1>1, <1>2 DEF At, Live
  <2>3. /\ ~InUse(d)
        /\ d # None => /\ d.dir = At(a, pid[a]).dir
                       /\ d.owner = At(a, pid[a]).owner
    BY <2>1, <2>2 DEF Chrome, InUse, Live
  <2>4. proc'[w][n] = IF w = Process[a] /\ n = pid[a] THEN d ELSE proc[w][n]
    BY <1>1, <2>1 DEF Put
  <2>5. QED BY <1>2, <2>2, <2>3, <2>4 DEF At, Live, Remains
<1>3. CASE ~Live(At(a, pid[a]))
  BY <1>3 DEF DropStarted, At, Live, InUse, Remains
<1>4. QED BY <1>2, <1>3

\* Every browser after a step was there before it, or is the one that was
\* launched.
LEMMA Entries ==
  ASSUME ProfileInv, [Next]_vars, NEW w \in Worker, NEW n \in Pid,
         proc'[w][n] # None
  PROVE  \/ Remains(proc[w][n], proc'[w][n])
         \/ \E a \in Adapter :
              /\ Launch(a) /\ Process[a] = w /\ pid'[a] = n
              /\ proc'[w][n] = New(a)
<1> USE ProfileAssumption DEF ProfileAssumption, ProfileInv
<1>0. proc[w][n] \in Chrome \cup {None}
  BY DEF Types
<1>1. CASE UNCHANGED proc
  BY <1>1 DEF Remains
<1>2. ASSUME NEW a \in Adapter, Launch(a)
      PROVE  \/ Remains(proc[w][n], proc'[w][n])
             \/ /\ Process[a] = w /\ pid'[a] = n
                /\ proc'[w][n] = New(a)
  BY <1>2 DEF Launch, Put, Remains, Types
<1>3. ASSUME NEW a \in Adapter, BuildFails(a)
      PROVE  Remains(proc[w][n], proc'[w][n])
  <2>1. pid[a] # None /\ DropStarted(a)
    BY <1>3 DEF BuildFails, Goto, Numbered
  <2>2. QED BY <2>1, DropEntries
<1>4. ASSUME NEW a \in Adapter, Quit(a), ~ UNCHANGED proc
      PROVE  Remains(proc[w][n], proc'[w][n])
  <2>1. PICK s \in {"zombie", "up"} :
          /\ At(a, pid[a]).state = "up" /\ At(a, pid[a]) # None
          /\ Put(a, pid[a], [At(a, pid[a]) EXCEPT !.state = s])
    BY <1>4 DEF Quit
  <2>2. At(a, pid[a]) \in Chrome /\ pid[a] \in Pid /\ Process[a] \in Worker
    BY <1>4, <2>1 DEF At, Types, Quit, Goto, Numbered
  <2>3. CASE w = Process[a] /\ n = pid[a]
    <3>1. proc'[w][n] = [proc[w][n] EXCEPT !.state = s]
      BY <2>1, <2>2, <2>3 DEF Put, At, Types
    <3>2. QED BY <2>1, <2>2, <2>3, <3>1 DEF At, Remains, Chrome, InUse, Live
  <2>4. CASE ~(w = Process[a] /\ n = pid[a])
    BY <2>1, <2>2, <2>4 DEF Put, Remains, Types
  <2>5. QED BY <2>3, <2>4
<1>5. ASSUME NEW a \in Adapter, KillTree(a)
      PROVE  Remains(proc[w][n], proc'[w][n])
  <2>1. CASE UNCHANGED proc
    BY <2>1 DEF Remains
  <2>2. CASE LooksLikeChrome(a, At(a, pid[a])) /\ ~ UNCHANGED proc
    <3>1. PICK d \in {[At(a, pid[a]) EXCEPT !.state = "dying"], None} :
            Put(a, pid[a], d)
      BY <1>5, <2>2 DEF KillTree
    <3>2. At(a, pid[a]) \in Chrome /\ pid[a] \in Pid /\ Process[a] \in Worker
      BY <1>5, <2>2 DEF At, Types, KillTree, Goto, Numbered, LooksLikeChrome, Live
    <3>3. proc'[w][n] = IF w = Process[a] /\ n = pid[a] THEN d ELSE proc[w][n]
      BY <3>1, <3>2 DEF Put, Types
    <3>4. d # None => /\ d.dir = At(a, pid[a]).dir
                      /\ d.owner = At(a, pid[a]).owner /\ d.state = "dying"
      BY <3>1, <3>2 DEF Chrome
    <3>5. QED BY <1>0, <2>2, <3>3, <3>4 DEF At, Remains, InUse, LooksLikeChrome, Live
  <2>3. QED BY <1>5, <2>1, <2>2 DEF KillTree
<1>6. ASSUME NEW v \in Worker, NEW m \in Pid,
             Hang(v, m) \/ Crash(v, m) \/ Dies(v, m)
      PROVE  Remains(proc[w][n], proc'[w][n])
  <2>1. PICK s \in {"hung", "zombie"} :
          /\ proc[v][m] # None
          /\ s = "hung" => proc[v][m].state = "up"
          /\ proc' = [proc EXCEPT ![v][m].state = s]
    BY <1>6 DEF Hang, Crash, Dies, Live
  <2>2. proc'[w][n] = IF w = v /\ n = m THEN [proc[w][n] EXCEPT !.state = s]
                      ELSE proc[w][n]
    BY <2>1 DEF Types
  <2>3. QED BY <1>0, <2>1, <2>2 DEF Remains, Chrome, InUse, Live
<1>7. ASSUME NEW v \in Worker, Reap(v) PROVE Remains(proc[w][n], proc'[w][n])
  BY <1>7 DEF Reap, Remains, Types
<1>8. ASSUME NEW v \in Worker, Stop(v), ~ UNCHANGED proc
      PROVE  Remains(proc[w][n], proc'[w][n])
  <2>1. PICK a \in Adapter : pc[a] = "started" /\ DropStarted(a)
    BY <1>8 DEF Stop
  <2>2. QED BY <2>1, DropEntries DEF Numbered
<1>9. ASSUME NEW v \in Worker, Death(v) \/ Exit(v)
      PROVE  Remains(proc[w][n], proc'[w][n])
  BY <1>9 DEF Death, Exit, Restart, Remains, Types
<1>10. QED
  BY <1>1, <1>2, <1>3, <1>4, <1>5, <1>6, <1>7, <1>8, <1>9
  DEF Next, Ensure, Close, vars, Acquire, StartFails, BuildDone, Discard,
      CloseAtExit, Release, CleanStart, CleanDone

\* Browsers only live in directories of their own process.
LEMMA LocalStep ==
  ASSUME ProfileInv, [Next]_vars
  PROVE  Local'
<1> SUFFICES ASSUME NEW w \in Worker, NEW n \in Pid, proc'[w][n] # None
             PROVE  \E a \in Adapter :
                      Process[a] = w /\ Dir[a] = proc'[w][n].dir
  BY DEF Local
<1>1. CASE Remains(proc[w][n], proc'[w][n])
  BY <1>1 DEF ProfileInv, Local, Remains
<1>2. CASE ~Remains(proc[w][n], proc'[w][n])
  <2>1. PICK a \in Adapter :
          /\ Process[a] = w
          /\ proc'[w][n] = New(a)
    BY <1>2, Entries
  <2>2. proc'[w][n].dir = Dir[a]
    BY <2>1 DEF New
  <2>3. QED BY <2>1, <2>2
<1>3. QED BY <1>1, <1>2

\* As long as a browser in use survives a step as such, its adapter keeps its
\* number, and no close gets past the kill.
LEMMA OwnerKeepsNumber ==
  ASSUME ProfileInv, [Next]_vars, NEW w \in Worker, NEW n \in Pid,
         InUse(proc'[w][n]),
         Remains(proc[w][n], proc'[w][n])
  PROVE  LET a == proc[w][n].owner
         IN  /\ proc'[w][n].owner = a /\ a \in Uc
             /\ w = Process[a] /\ n = pid[a] /\ proc[w][n].dir = Dir[a]
             /\ pid'[a] = pid[a] /\ pc'[a] # "release"
<1> USE ProfileAssumption DEF ProfileAssumption
<1> DEFINE a == proc[w][n].owner
<1>1. proc'[w][n].owner = a /\ a \in Uc /\ a \in Adapter /\ InUse(proc[w][n])
  BY DEF Remains, InUse
<1>2. /\ w = Process[a] /\ n = pid[a] /\ proc[w][n].dir = Dir[a]
      /\ pc[a] # "release" /\ pid[a] # None
  BY <1>1 DEF ProfileInv, Tracked
<1> HIDE DEF a
<1>3. pid'[a] = pid[a] /\ pc'[a] # "release"
  <2>1. ASSUME NEW b \in Adapter,
               Ensure(b) \/ Discard(b) \/ CloseAtExit(b) \/ Close(b)
        PROVE  pid'[a] = pid[a] /\ pc'[a] # "release"
    <3>1. CASE b # a
      BY <1>1, <1>2, <2>1, <3>1, AdapterMoves
    <3>2. CASE b = a /\ BuildFails(a)
      BY <1>1, <1>2, <3>2, DropEntries DEF BuildFails
    <3>3. CASE b = a /\ KillTree(a)
      <4>1. LooksLikeChrome(a, At(a, pid[a]))
        BY <1>1, <1>2 DEF LooksLikeChrome, At, InUse
      <4>2. PICK d \in {[At(a, pid[a]) EXCEPT !.state = "dying"], None} :
              Put(a, pid[a], d)
        BY <1>1, <3>3, <4>1 DEF KillTree
      <4>3. At(a, pid[a]) \in Chrome
        BY <1>1, <1>2 DEF At, ProfileInv, Types, InUse, Live
      <4>4. ~InUse(d)
        BY <4>2, <4>3 DEF InUse, Live, Chrome
      <4>5. proc'[w][n] = d
        BY <1>1, <1>2, <4>2 DEF Put, ProfileInv, Types
      <4>6. QED BY <4>4, <4>5
    <3>4. CASE b = a /\ ~BuildFails(a) /\ ~KillTree(a)
      BY <1>1, <1>2, <2>1, <3>4
      DEF ProfileInv, Types, Numbered, Goto, Ensure, Close, Acquire, Launch,
          StartFails, BuildDone, Discard, CloseAtExit, Quit, Release
    <3>5. QED BY <3>1, <3>2, <3>3, <3>4
  <2>2. ASSUME NEW v \in Worker, Stop(v)
        PROVE  pid'[a] = pid[a] /\ pc'[a] # "release"
    <3>1. pc'[a] # "release"
      BY <1>1, <1>2, <2>2, ProcessMoves
    <3>2. CASE UNCHANGED pid
      BY <3>1, <3>2
    <3>3. ASSUME NEW b \in Adapter, pc[b] = "started", DropStarted(b)
          PROVE  pid'[a] = pid[a]
      <4>1. b # a
        BY <1>1, <1>2, <3>3, DropEntries
      <4>2. QED BY <1>1, <3>3, <4>1 DEF DropStarted, ProfileInv, Types
    <3>4. QED BY <2>2, <3>1, <3>2, <3>3 DEF Stop
  <2>3. ASSUME NEW v \in Worker, Death(v) \/ Exit(v)
        PROVE  pid'[a] = pid[a] /\ pc'[a] # "release"
    <3>1. Restart(v) /\ v # w
      BY <2>3 DEF Death, Exit, Restart, InUse, Live, ProfileInv, Types
    <3>2. QED BY <1>1, <1>2, <2>3, <3>1, ProcessMoves
  <2>4. CASE UNCHANGED <<pc, pid, ending>>
    BY <1>2, <2>4
  <2>5. QED BY <2>1, <2>2, <2>3, <2>4, OtherMoves
<1>4. QED BY <1>1, <1>2, <1>3 DEF a

\* A browser that lives is the one its adapter remembers.
LEMMA TrackedStep ==
  ASSUME ProfileInv, [Next]_vars
  PROVE  Tracked'
<1> USE ProfileAssumption DEF ProfileAssumption
<1> SUFFICES ASSUME NEW w \in Worker, NEW n \in Pid,
                    InUse(proc'[w][n])
             PROVE  /\ w = Process[proc'[w][n].owner]
                    /\ n = pid'[proc'[w][n].owner]
                    /\ proc'[w][n].dir = Dir[proc'[w][n].owner]
                    /\ pc'[proc'[w][n].owner] # "release"
  BY DEF Tracked
<1>1. CASE Remains(proc[w][n], proc'[w][n])
  <2>1. proc'[w][n].dir = proc[w][n].dir
    BY <1>1 DEF Remains
  <2>2. QED BY <1>1, <2>1, OwnerKeepsNumber
<1>2. CASE ~Remains(proc[w][n], proc'[w][n])
  <2>1. proc'[w][n] # None
    BY DEF InUse, Live
  <2>2. PICK a \in Adapter :
          /\ Launch(a) /\ Process[a] = w /\ pid'[a] = n
          /\ proc'[w][n] = New(a)
    BY <1>2, <2>1, Entries
  <2>3. proc'[w][n].owner = a /\ proc'[w][n].dir = Dir[a]
    BY <2>2 DEF New
  <2>4. pc'[a] = "started"
    BY <2>2 DEF Launch, Goto, ProfileInv, Types
  <2>5. QED BY <2>2, <2>3, <2>4
<1>3. QED BY <1>1, <1>2

-----------------------------------------------------------------------------
(* Theorems *)

\* No process, no lock, no adapter at work.
LEMMA ProfileInvInit == Init => ProfileInv
<1> SUFFICES ASSUME Init PROVE ProfileInv
  OBVIOUS
<1> USE ProfileAssumption DEF ProfileAssumption, Init
<1>1. Types
  BY DEF Types
<1>2. Sequential /\ Numbered /\ HoldsLock /\ NoStrayLock
  BY DEF Sequential, Numbered, HoldsLock, NoStrayLock
<1>3. Tracked /\ Local
  BY DEF Tracked, Local, InUse, Live
<1>4. QED BY <1>1, <1>2, <1>3 DEF ProfileInv

\* The conjuncts, each kept by a lemma above, hold together after every step.
LEMMA ProfileInvStep == ProfileInv /\ [Next]_vars => ProfileInv'
BY TypesStep, ControlStep, LockStep, TrackedStep, LocalStep DEF ProfileInv

\* Every reachable state satisfies the inductive invariant.
LEMMA ProfileInvariant == Spec => []ProfileInv
BY ProfileInvInit, ProfileInvStep, PTL DEF Spec

\* Types, and one adapter of a process acts at a time with a number of its own
\* from the start of its browser to the end of close.
THEOREM ProfileTypes == Spec => []TypeOK
BY ProfileInvariant, ProfileInvImplies, PTL

\* Whatever hangs, crashes, is restarted or reaped, a browser that an adapter
\* with a browser_pid has built keeps its profile locked until it is dead or was
\* sent SIGKILL: ChromeLifecycleMixin.close gives the lock back after the kill.
\* Browsers left by a failed build are not in it (InUse).
THEOREM ProfileInUseIsLocked == Spec => []LiveBrowserIsLocked
BY ProfileInvariant, ProfileInvImplies, PTL

\* No failed start and no close leaves an adapter with a lock it would meet at
\* its own next start.
THEOREM NoAdapterLocksItselfOut == Spec => []NoSelfLockout
BY ProfileInvariant, ProfileInvImplies, PTL

\* A driver with a browser_pid that was built and is dropped leaves no browser
\* that is neither dead nor was sent SIGKILL.
THEOREM NoBrowserSurvivesClose == Spec => []ClosedBrowserIsGone
BY ProfileInvariant, ProfileInvImplies, PTL

\* When the paths of profiles are not parts of one another, the forced kill hits
\* only browsers of the adapter's own directory, whoever has its number by then.
THEOREM KillHitsOwnProfile ==
  ASSUME PathsApart
  PROVE  Spec => KillSparesOthers
<1> DEFINE Spared ==
      \A a \in Adapter :
        Dir[a] # None /\ pc[a] = "kill" /\ pc'[a] = "release" =>
          \A n \in Pid :
            LET c == At(a, n)
            IN  Live(c) /\ c.dir # Dir[a] => proc'[Process[a]][n] = c
<1>1. ProfileInv /\ [Next]_vars => [Spared]_vars
  <2> SUFFICES ASSUME ProfileInv, Next,
                      NEW a \in Adapter, Dir[a] # None,
                      pc[a] = "kill", pc'[a] = "release",
                      NEW n \in Pid, Live(At(a, n)), At(a, n).dir # Dir[a]
               PROVE  proc'[Process[a]][n] = At(a, n)
    OBVIOUS
  <2> USE ProfileAssumption DEF ProfileAssumption
  <2>1. KillTree(a)
    <3>1. ASSUME NEW b \in Adapter,
                 Ensure(b) \/ Discard(b) \/ CloseAtExit(b) \/ Close(b)
          PROVE  KillTree(a)
      <4>1. b = a
        BY <3>1, AdapterMoves
      <4>2. QED
        BY <3>1, <4>1
        DEF ProfileInv, Types, Goto, Ensure, Close, Acquire, Launch, StartFails,
            BuildFails, BuildDone, Discard, CloseAtExit, Quit, Release
    <3>2. ASSUME NEW w \in Worker, Stop(w) \/ Death(w) \/ Exit(w)
          PROVE  KillTree(a)
      BY <3>2, ProcessMoves
    <3>3. QED BY <3>1, <3>2, OtherMoves
  <2>2. ~ <<Dir[a], At(a, n).dir>> \in Within
    <3>1. PICK b \in Adapter : Process[b] = Process[a] /\ Dir[b] = At(a, n).dir
      BY DEF ProfileInv, Local, At, Live
    <3>2. QED BY <3>1 DEF PathsApart
  <2>3. n = pid[a] => ~LooksLikeChrome(a, At(a, pid[a]))
    BY <2>2 DEF LooksLikeChrome
  <2>4. CASE UNCHANGED proc
    BY <2>4 DEF At
  <2>5. ASSUME NEW d, n # pid[a], Put(a, pid[a], d)
        PROVE  proc'[Process[a]][n] = At(a, n)
    BY <2>5 DEF Put, At, ProfileInv, Types
  <2>6. QED BY <2>1, <2>3, <2>4, <2>5 DEF KillTree
<1>2. Spec => [][Spared]_vars
  BY ProfileInvariant, <1>1, PTL DEF Spec
<1>3. QED BY <1>2 DEF KillSparesOthers
=============================================================================
