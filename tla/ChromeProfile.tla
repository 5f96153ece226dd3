--------------------------- MODULE ChromeProfile ---------------------------
(***************************************************************************)
(* The browsers of google_news, baidu_news and tinhte_forum: the flock on  *)
(* the profile directory, the start of Chrome inside it, what is done      *)
(* about a browser that hangs, and scripts/clean_chrome_profiles.py.       *)
(*                                                                         *)
(* A worker process runs in a container of its own, with its own process   *)
(* numbers; profile directories are mounted from the host, so two workers  *)
(* that were given one WORKER_ID share theirs.  In --source ALL mode one   *)
(* process drives several adapters, one at a time.  Numbers of processes   *)
(* that have been waited for are used again.                               *)
(***************************************************************************)
EXTENDS Integers, FiniteSets

CONSTANTS
  Adapter, Worker, Profile, None, Cleaner,
  Process,      \* Process[a]: the worker a belongs to
  Dir,          \* Dir[a]: a's profile directory, or None for a temporary one
  Within,       \* <<p, q>>: the path p is part of the path q
  Uc,           \* adapters whose driver knows its browser_pid
  Closers,      \* adapters that close a driver whose get() raises
  Pid,          \* process numbers of a container
  FaultSites, MaxFaults

Site == {"start", "build", "hang", "crash", "death"}

ASSUME ProfileAssumption ==
  /\ None \notin Profile /\ None \notin Adapter /\ None \notin Pid
  /\ Cleaner \notin Adapter \cup {None}
  /\ Process \in [Adapter -> Worker]
  /\ Dir \in [Adapter -> Profile \cup {None}]
  /\ \A p \in Profile : <<p, p>> \in Within
  /\ Uc \subseteq Adapter /\ Closers \subseteq Adapter
  /\ FaultSites \subseteq Site /\ MaxFaults \in Nat

VARIABLES
  pc,           \* "rest", "locked", "started", "quit", "kill" or "release"
  pid,          \* pid[a]: number of the Chrome of a's driver, or None
  lock,         \* lock[p]: who holds the flock on p
  proc,         \* proc[w][n]: the Chrome with number n in w's container, or None
  ending,       \* the workers that were told to stop and close their adapters
  faults

vars == <<pc, pid, lock, proc, ending, faults>>

\* A Chrome: the adapter that started it, whether its driver was dropped before
\* it was built, its profile, and whether it answers, hangs, was sent SIGKILL or
\* waits to be reaped.
Chrome == [owner : Adapter, left : BOOLEAN, dir : Profile \cup {None},
           state : {"up", "hung", "dying", "zombie"}]

Fault(site) ==
  /\ site \in FaultSites
  /\ faults < MaxFaults
  /\ faults' = faults + 1

Init ==
  /\ pc = [a \in Adapter |-> "rest"]
  /\ pid = [a \in Adapter |-> None]
  /\ lock = [p \in Profile |-> None]
  /\ proc = [w \in Worker |-> [n \in Pid |-> None]]
  /\ ending = {}
  /\ faults = 0

Goto(a, from, to) == pc[a] = from /\ pc' = [pc EXCEPT ![a] = to]

\* The process is single-threaded but for the health check.
Turn(a) ==
  \A b \in Adapter : b # a /\ Process[b] = Process[a] => pc[b] = "rest"

At(a, n) == proc[Process[a]][n]
Put(a, n, c) == proc' = [proc EXCEPT ![Process[a]][n] = c]

Live(c) == c # None /\ c.state # "zombie"

Unlock(a) ==
  lock' = [p \in Profile |-> IF p = Dir[a] /\ lock[p] = a THEN None ELSE lock[p]]

-----------------------------------------------------------------------------
(* _ensure_driver *)

\* The flock on the profile; while somebody else holds it ProfileLockError
\* ends the call and nothing has changed.
Acquire(a) ==
  /\ Turn(a) /\ pid[a] = None /\ Process[a] \notin ending
  /\ Goto(a, "rest", "locked")
  /\ IF Dir[a] = None THEN UNCHANGED lock
     ELSE lock[Dir[a]] = None /\ lock' = [lock EXCEPT ![Dir[a]] = a]
  /\ UNCHANGED <<pid, proc, ending, faults>>

New(a) == [owner |-> a, left |-> FALSE, dir |-> Dir[a], state |-> "up"]

Launch(a) ==
  /\ Goto(a, "locked", "started")
  /\ \E n \in Pid :
       /\ At(a, n) = None
       /\ Put(a, n, New(a))
       /\ pid' = [pid EXCEPT ![a] = n]
  /\ UNCHANGED <<lock, ending, faults>>

\* Mutant: a failed start keeps the lock.
FailKeepsLock(a) == UNCHANGED lock

\* _build_driver_or_release: any exception of build() frees the lock.
Fail(a) == Unlock(a)

StartFails(a) ==
  /\ Goto(a, "locked", "rest")
  /\ Fault("start")
  /\ Fail(a)
  /\ UNCHANGED <<pid, proc, ending>>

\* The driver object under construction is dropped; its browser may live on.
DropStarted(a) ==
  LET c == At(a, pid[a])
  IN  /\ pid' = [pid EXCEPT ![a] = None]
      /\ IF Live(c)
         THEN \E d \in {[c EXCEPT !.left = TRUE], None} : Put(a, pid[a], d)
         ELSE UNCHANGED proc

\* Chrome is running when a later command of build() raises.
BuildFails(a) ==
  /\ Goto(a, "started", "rest")
  /\ Fault("build")
  /\ Fail(a)
  /\ DropStarted(a)
  /\ UNCHANGED ending

BuildDone(a) ==
  /\ Goto(a, "started", "rest")
  /\ UNCHANGED <<pid, lock, proc, ending, faults>>

-----------------------------------------------------------------------------
(* close *)

\* driver.get raises, be the browser broken or the page late: google_news and
\* baidu_news close the driver, tinhte_forum keeps it.
Discard(a) ==
  /\ a \in Closers /\ pid[a] # None /\ Turn(a)
  /\ Goto(a, "rest", "quit")
  /\ UNCHANGED <<pid, lock, proc, ending, faults>>

\* The signal handler raises SystemExit wherever the process is; no handler on
\* the way catches it, so a start is lost with its lock kept and a close breaks
\* off, and the dispatcher's finally block closes every adapter that has a driver.
Stop(w) ==
  LET mine == {a \in Adapter : Process[a] = w}
      starting == {a \in mine : pc[a] = "started"}
  IN  /\ w \notin ending
      /\ ending' = ending \cup {w}
      /\ pc' = [a \in Adapter |-> IF a \in mine THEN "rest" ELSE pc[a]]
      /\ IF starting = {} THEN UNCHANGED <<pid, proc>>
         ELSE \E a \in starting : DropStarted(a)
      /\ UNCHANGED <<lock, faults>>

\* Mutant: close without a driver.
CloseNothing(a) ==
  /\ Process[a] \in ending /\ Turn(a)
  /\ Goto(a, "rest", "quit")
  /\ UNCHANGED <<pid, lock, proc, ending, faults>>

CloseAtExit(a) ==
  /\ Process[a] \in ending /\ pid[a] # None /\ Turn(a)
  /\ Goto(a, "rest", "quit")
  /\ UNCHANGED <<pid, lock, proc, ending, faults>>

\* Mutant: the lock is freed before the browser is killed.
QuitUnlocks(a) ==
  /\ Goto(a, "quit", "kill")
  /\ Unlock(a)
  /\ UNCHANGED <<pid, proc, ending, faults>>

\* driver.quit of uc sends a SIGTERM to browser_pid, whatever has that number
\* now, and waits for nothing.  Plain selenium asks its chromedriver, which
\* knows its own browser.
Quit(a) ==
  LET c == At(a, pid[a])
      reached == c # None /\ (a \in Uc \/ c.owner = a)
  IN  /\ Goto(a, "quit", "kill")
      /\ IF reached /\ c.state = "up"
         THEN \E s \in {"zombie"} \cup (IF a \in Uc THEN {"up"} ELSE {}) :
                Put(a, pid[a], [c EXCEPT !.state = s])
         ELSE UNCHANGED proc
      /\ UNCHANGED <<pid, lock, ending, faults>>

\* Mutants: only the process name is compared; a browser that ignores SIGTERM
\* is left alone.
LooksLikeAnyChrome(a, c) == Live(c)
LooksLikeResponsiveChrome(a, c) == Live(c) /\ Dir[a] = c.dir /\ c.state = "up"

\* Name and, for a persistent profile, --user-data-dir; a zombie has no command
\* line.
LooksLikeChrome(a, c) ==
  Live(c) /\ (Dir[a] = None \/ (c.dir # None /\ <<Dir[a], c.dir>> \in Within))

\* kill_process_tree: SIGTERM, five seconds in which a browser that answers may
\* end and is reaped, then SIGKILL, after which nobody waits.  Without a
\* browser_pid it does nothing.
KillTree(a) ==
  LET c == At(a, pid[a])
  IN  /\ Goto(a, "kill", "release")
      /\ IF a \in Uc /\ LooksLikeChrome(a, c)
         THEN \E d \in {[c EXCEPT !.state = "dying"]}
                       \cup (IF c.state = "up" THEN {None} ELSE {}) :
                Put(a, pid[a], d)
         ELSE UNCHANGED proc
      /\ UNCHANGED <<pid, lock, ending, faults>>

Release(a) ==
  /\ Goto(a, "release", "rest")
  /\ Unlock(a)
  /\ pid' = [pid EXCEPT ![a] = None]
  /\ UNCHANGED <<proc, ending, faults>>

-----------------------------------------------------------------------------
(* Browsers, containers and the cleanup script *)

Hang(w, n) ==
  /\ proc[w][n] # None /\ proc[w][n].state = "up"
  /\ Fault("hang")
  /\ proc' = [proc EXCEPT ![w][n].state = "hung"]
  /\ UNCHANGED <<pc, pid, lock, ending>>

Crash(w, n) ==
  /\ Live(proc[w][n])
  /\ Fault("crash")
  /\ proc' = [proc EXCEPT ![w][n].state = "zombie"]
  /\ UNCHANGED <<pc, pid, lock, ending>>

\* SIGKILL takes effect.
Dies(w, n) ==
  /\ proc[w][n] # None /\ proc[w][n].state = "dying"
  /\ proc' = [proc EXCEPT ![w][n].state = "zombie"]
  /\ UNCHANGED <<pc, pid, lock, ending, faults>>

\* reap_zombie_children, on the health check's thread: at any moment.
Reap(w) ==
  LET dead == {n \in Pid : proc[w][n] # None /\ ~Live(proc[w][n])}
  IN  /\ dead # {}
      /\ proc' = [proc EXCEPT ![w] =
                    [n \in Pid |-> IF n \in dead THEN None ELSE proc[w][n]]]
      /\ UNCHANGED <<pc, pid, lock, ending, faults>>

\* The process ends: it is the container's first, so its browsers go with it,
\* and the kernel frees its locks.  The container is started again.
Restart(w) ==
  LET gone == {a \in Adapter : Process[a] = w}
  IN  /\ pc' = [a \in Adapter |-> IF a \in gone THEN "rest" ELSE pc[a]]
      /\ pid' = [a \in Adapter |-> IF a \in gone THEN None ELSE pid[a]]
      /\ lock' = [p \in Profile |-> IF lock[p] \in gone THEN None ELSE lock[p]]
      /\ proc' = [proc EXCEPT ![w] = [n \in Pid |-> None]]
      /\ ending' = ending \ {w}

Death(w) == Restart(w) /\ Fault("death")

Exit(w) ==
  /\ w \in ending
  /\ \A a \in Adapter : Process[a] = w => pc[a] = "rest" /\ pid[a] = None
  /\ Restart(w)
  /\ UNCHANGED faults

\* clean_chrome_profiles.py, on the host, locks a profile or skips it.
CleanStart(p) ==
  /\ lock[p] = None
  /\ lock' = [lock EXCEPT ![p] = Cleaner]
  /\ UNCHANGED <<pc, pid, proc, ending, faults>>

CleanDone(p) ==
  /\ lock[p] = Cleaner
  /\ lock' = [lock EXCEPT ![p] = None]
  /\ UNCHANGED <<pc, pid, proc, ending, faults>>

-----------------------------------------------------------------------------
Ensure(a) ==
  Acquire(a) \/ Launch(a) \/ StartFails(a) \/ BuildFails(a) \/ BuildDone(a)

Close(a) == Quit(a) \/ KillTree(a) \/ Release(a)

Next ==
  \/ \E a \in Adapter : Ensure(a) \/ Discard(a) \/ CloseAtExit(a) \/ Close(a)
  \/ \E w \in Worker, n \in Pid : Hang(w, n) \/ Crash(w, n) \/ Dies(w, n)
  \/ \E w \in Worker : Reap(w) \/ Stop(w) \/ Death(w) \/ Exit(w)
  \/ \E p \in Profile : CleanStart(p) \/ CleanDone(p)

Spec == Init /\ [][Next]_vars

-----------------------------------------------------------------------------
(* Properties *)

\* A condition of KillSparesOthers: no adapter's directory has the path of
\* another directory of the same process inside its own.  The directories
\* <base>/<WORKER_ID> have it as long as the bases of the sources differ.
PathsApart ==
  \A a, b \in Adapter :
    Process[a] = Process[b] /\ <<Dir[a], Dir[b]>> \in Within => Dir[b] = Dir[a]

\* Types; a number is remembered exactly by an adapter with a driver or in the
\* middle of starting or closing one, and one process acts once at a time.
TypeOK ==
  /\ pc \in [Adapter -> {"rest", "locked", "started", "quit", "kill", "release"}]
  /\ pid \in [Adapter -> Pid \cup {None}]
  /\ lock \in [Profile -> Adapter \cup {Cleaner, None}]
  /\ proc \in [Worker -> [Pid -> Chrome \cup {None}]]
  /\ ending \subseteq Worker
  /\ faults \in 0..MaxFaults
  /\ \A a \in Adapter :
       /\ pc[a] = "locked" => pid[a] = None
       /\ pc[a] \in {"started", "quit", "kill", "release"} =>
            pid[a] # None /\ Turn(a)

Browsers == UNION {{proc[w][n] : n \in Pid} : w \in Worker}

\* A browser its adapter answers for.  Two kinds of living browsers are not: what
\* a build that failed leaves behind, whose number nobody knows, and what was sent
\* SIGKILL and is not dead yet.
InUse(c) ==
  Live(c) /\ c.owner \in Uc /\ ~c.left /\ c.state # "dying"

\* A profile in use is locked: as long as a browser that an adapter with a
\* browser_pid has built lives and was not sent SIGKILL, hanging or asked to quit
\* included, the adapter holds the flock of its directory.  So no second worker
\* with the same WORKER_ID builds another one in it, and the cleanup script, which
\* believes the lock, does not delete files under it.  It does not hold of the
\* browsers that InUse leaves out: _build_driver_or_release frees the lock under
\* the browser of a failed build, and close frees it without waiting for SIGKILL.
LiveBrowserIsLocked ==
  \A c \in Browsers : InUse(c) /\ c.dir # None => lock[c.dir] = c.owner

\* An adapter without a driver does not hold the lock of its own profile, which
\* it would meet at its next start: flock keeps out its own process as well.  Only a
\* process on its way out may still hold it.
NoSelfLockout ==
  \A a \in Adapter :
    pc[a] = "rest" /\ pid[a] = None /\ Process[a] \notin ending =>
      \A p \in Profile : lock[p] # a

\* The forced kill hits nothing but browsers of the adapter's own profile, even
\* when its browser is long gone and another one has got its number.
KillSparesOthers ==
  [][\A a \in Adapter :
       Dir[a] # None /\ pc[a] = "kill" /\ pc'[a] = "release" =>
         \A n \in Pid :
           LET c == At(a, n)
           IN  Live(c) /\ c.dir # Dir[a] => proc'[Process[a]][n] = c]_vars

\* close leaves no browser behind, though quit only asks: once the driver of an
\* adapter with a browser_pid is dropped, every browser it has built is dead or
\* was sent SIGKILL.
ClosedBrowserIsGone ==
  \A c \in Browsers :
    InUse(c) => pid[c.owner] # None /\ c = At(c.owner, pid[c.owner])
=============================================================================
