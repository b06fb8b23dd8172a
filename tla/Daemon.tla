-------------------------------- MODULE Daemon --------------------------------
(***************************************************************************)
(* The processes of the daemon (daemon/cmd/daemon) and what they share:    *)
(* the pid file that keeps a second watcher from starting, and the socket  *)
(* that the worker of a watcher listens on.                                *)
(*                                                                         *)
(* Every agent that cannot reach a daemon at startup launches one, and so  *)
(* does the init system, so several of them start at the same moment.      *)
(* Each element of Procs is one launch: its watcher process, and the one   *)
(* worker that the watcher has at a time.  A worker is a process of its    *)
(* own, which may outlive its watcher; inside it the goroutine that        *)
(* listens and the one that handles signals take their own steps.          *)
(***************************************************************************)
EXTENDS Integers, FiniteSets

CONSTANTS
    Procs,        \* launches of the daemon
    Inodes,       \* inodes for pid files; the file system reuses freed ones
    None,
    MaxRetries,   \* limits.MaxPidfileRetries
    MaxCrashes,   \* bound: how often workers crash
    Abstract,     \* the socket is a Linux abstract one, not a file
    Signals,      \* watchers may be sent SIGTERM, and
    Faults        \* ... SIGKILL; system calls of watchers may fail

ASSUME ProcAssumption == None \notin Procs \cup Inodes
ASSUME RetryAssumption == MaxRetries \in Nat \ {0} /\ MaxCrashes \in Nat
ASSUME FlagAssumption == Abstract \in BOOLEAN /\ Signals \in BOOLEAN /\ Faults \in BOOLEAN

VARIABLES
    \* the pid file
    path,      \* the inode its name leads to, or None
    content,   \* the process whose pid each inode holds, or None
    lock,      \* the owner of the write lock on each inode, or None
    fd,        \* the inode each watcher has open, or None
    retries,   \* attempts each watcher has left in CreatePidFile
    \* the processes
    watcher,   \* where each watcher is
    worker,    \* where each worker's main goroutine is
    listener,  \* where each worker's listener goroutine is
    term,      \* workers that have a SIGTERM pending
    exit,      \* how each worker ended
    crashes,   \* how many workers have crashed
    \* the socket
    sock       \* the worker that bound the socket's name, or None

pidfile == <<path, content, lock, fd, retries>>
workers == <<worker, listener, term, exit, crashes, sock>>
vars == <<path, content, lock, fd, retries, watcher, worker, listener, term, exit,
          crashes, sock>>

TypeOK ==
    /\ path \in Inodes \cup {None}
    /\ content \in [Inodes -> Procs \cup {None}]
    /\ lock \in [Inodes -> Procs \cup {None}]
    /\ fd \in [Procs -> Inodes \cup {None}]
    /\ retries \in [Procs -> 0..MaxRetries]
    /\ watcher \in [Procs -> {"new", "open", "lock", "check", "write", "spawn", "watch",
                              "remove", "close", "dead"}]
    /\ worker \in [Procs -> {"none", "run", "drain", "dead"}]
    /\ listener \in [Procs -> {"unlink", "listen", "serve", "closed"}]
    /\ term \in SUBSET Procs
    /\ exit \in [Procs -> {"clean", "error", "crash"}]
    /\ crashes \in 0..MaxCrashes
    /\ sock \in Procs \cup {None}

Init ==
    \* a pid file may be left over from a daemon that was killed
    /\ path \in {None} \cup Inodes
    /\ content = [i \in Inodes |-> None]
    /\ lock = [i \in Inodes |-> None]
    /\ fd = [p \in Procs |-> None]
    /\ retries = [p \in Procs |-> MaxRetries]
    /\ watcher = [p \in Procs |-> "new"]
    /\ worker = [p \in Procs |-> "none"]
    /\ listener = [p \in Procs |-> "closed"]
    /\ term = {}
    /\ exit = [p \in Procs |-> "clean"]
    /\ crashes = 0
    /\ sock = None

-----------------------------------------------------------------------------
(* CreatePidFile and PidFile.Write, by the watcher.                        *)

(* runProgenitor: spawnWatcher starts the watcher process.                 *)
Launch(p) ==
    /\ watcher[p] = "new"
    /\ watcher' = [watcher EXCEPT ![p] = "open"]
    /\ UNCHANGED <<pidfile, workers>>

(* Mutant: os.Create, which truncates the file.                            *)
OpenTruncates(p) ==
    /\ watcher[p] = "open"
    /\ \E i \in Inodes :
          /\ IF path = None THEN \A q \in Procs : fd[q] # i ELSE i = path
          /\ path' = i
          /\ fd' = [fd EXCEPT ![p] = i]
          /\ content' = [content EXCEPT ![i] = None]
    /\ watcher' = [watcher EXCEPT ![p] = "lock"]
    /\ UNCHANGED <<lock, retries, workers>>

(* os.OpenFile(O_CREATE|O_WRONLY): the file the name leads to, or a new one*)
OpenPidFile(p) ==
    /\ watcher[p] = "open"
    /\ \/ /\ path # None
          /\ fd' = [fd EXCEPT ![p] = path]
          /\ UNCHANGED <<path, content>>
       \/ /\ path = None
          /\ \E i \in Inodes :
               /\ \A q \in Procs : fd[q] # i
               /\ path' = i
               /\ fd' = [fd EXCEPT ![p] = i]
               /\ content' = [content EXCEPT ![i] = None]
    /\ watcher' = [watcher EXCEPT ![p] = "lock"]
    /\ UNCHANGED <<lock, retries, workers>>

(* Closing the file, as the end of the process does, releases its lock.    *)
CloseFd(p) ==
    /\ fd' = [fd EXCEPT ![p] = None]
    /\ lock' = [i \in Inodes |-> IF lock[i] = p THEN None ELSE lock[i]]

(* setWriteLock does not wait: ErrLocked ends the process.                 *)
SetWriteLock(p) ==
    /\ watcher[p] = "lock"
    /\ \/ /\ lock[fd[p]] = None
          /\ lock' = [lock EXCEPT ![fd[p]] = p]
          /\ watcher' = [watcher EXCEPT ![p] = "check"]
          /\ UNCHANGED fd
       \/ /\ lock[fd[p]] # None
          /\ CloseFd(p)
          /\ watcher' = [watcher EXCEPT ![p] = "dead"]
    /\ UNCHANGED <<path, content, retries, workers>>

(* Mutant: the file is not looked up again once it is locked.              *)
CheckSkipped(p) ==
    /\ watcher[p] = "check"
    /\ content' = [content EXCEPT ![fd[p]] = None]
    /\ watcher' = [watcher EXCEPT ![p] = "write"]
    /\ UNCHANGED <<path, lock, fd, retries, workers>>

(* os.Stat, f.Stat and os.SameFile: the name must lead to the locked file, *)
(* which then loses the stale pid; otherwise everything is tried again.    *)
CheckSameFile(p) ==
    /\ watcher[p] = "check"
    /\ \/ /\ path = fd[p]
          /\ content' = [content EXCEPT ![path] = None]
          /\ watcher' = [watcher EXCEPT ![p] = "write"]
          /\ UNCHANGED <<fd, lock, retries>>
       \/ /\ path # fd[p]
          /\ CloseFd(p)
          /\ retries' = [retries EXCEPT ![p] = @ - 1]
          /\ watcher' = [watcher EXCEPT ![p] = IF retries[p] > 1 THEN "open" ELSE "dead"]
          /\ UNCHANGED content
    /\ UNCHANGED <<path, workers>>

(* PidFile.Write: Truncate and WriteString replace the contents.           *)
WritePid(p) ==
    /\ watcher[p] = "write"
    /\ content' = [content EXCEPT ![fd[p]] = p]
    /\ watcher' = [watcher EXCEPT ![p] = "spawn"]
    /\ UNCHANGED <<path, lock, fd, retries, workers>>

(* PidFile.Remove, deferred by run: the name goes first, ...               *)
RemovePidFile(p) ==
    /\ watcher[p] = "remove"
    /\ path' = None
    /\ watcher' = [watcher EXCEPT ![p] = "close"]
    /\ UNCHANGED <<content, lock, fd, retries, workers>>

(* ... then the file is closed, and the process ends.                      *)
ClosePidFile(p) ==
    /\ watcher[p] = "close"
    /\ CloseFd(p)
    /\ watcher' = [watcher EXCEPT ![p] = "dead"]
    /\ UNCHANGED <<path, content, retries, workers>>

-----------------------------------------------------------------------------
(* runWatcher.                                                             *)

SpawnWorker(p) ==
    /\ watcher[p] = "spawn"
    /\ watcher' = [watcher EXCEPT ![p] = "watch"]
    /\ worker' = [worker EXCEPT ![p] = "run"]
    /\ listener' = [listener EXCEPT ![p] = "unlink"]
    /\ term' = term \ {p}
    /\ UNCHANGED <<pidfile, exit, crashes, sock>>

(* ShouldRespawn: exit status 2 and up, or any signal but SIGTERM.         *)
ShouldRespawn(how) == how = "crash"

(* <-supervise(worker)                                                     *)
WorkerEnded(p) ==
    /\ watcher[p] = "watch"
    /\ worker[p] = "dead"
    /\ watcher' = [watcher EXCEPT ![p] = IF ShouldRespawn(exit[p]) THEN "spawn" ELSE "remove"]
    /\ UNCHANGED <<pidfile, workers>>

(* SIGTERM: it is passed on to the worker, and the watcher does not wait.  *)
WatcherSignalled(p) ==
    /\ Signals
    /\ watcher[p] = "watch"
    /\ term' = IF worker[p] = "dead" THEN term ELSE term \cup {p}
    /\ watcher' = [watcher EXCEPT ![p] = "remove"]
    /\ UNCHANGED <<pidfile, worker, listener, exit, crashes, sock>>

(* A system call fails that a watcher cannot do without: OpenFile, Stat,   *)
(* Truncate, or the fork of the worker, after which the pid file goes.     *)
WatcherFails(p) ==
    /\ Faults
    /\ \/ /\ watcher[p] \in {"open", "lock", "check"}
          /\ CloseFd(p)
          /\ watcher' = [watcher EXCEPT ![p] = "dead"]
       \/ /\ watcher[p] \in {"write", "spawn"}
          /\ watcher' = [watcher EXCEPT ![p] = "remove"]
          /\ UNCHANGED <<fd, lock>>
    /\ UNCHANGED <<path, content, retries, workers>>

(* SIGKILL, or SIGTERM before runWatcher handles it.                       *)
WatcherKilled(p) ==
    /\ Faults
    /\ watcher[p] \notin {"new", "dead"}
    /\ CloseFd(p)
    /\ watcher' = [watcher EXCEPT ![p] = "dead"]
    /\ UNCHANGED <<path, content, retries, workers>>

-----------------------------------------------------------------------------
(* runWorker.                                                              *)

(* An abstract socket goes with the process that bound it; the name of a   *)
(* socket in the file system stays.                                        *)
ReleaseSocket(p) == sock' = IF Abstract /\ sock = p THEN None ELSE sock

(* The worker process ends, with all its goroutines.                       *)
EndWorker(p, how) ==
    /\ worker' = [worker EXCEPT ![p] = "dead"]
    /\ listener' = [listener EXCEPT ![p] = "closed"]
    /\ exit' = [exit EXCEPT ![p] = how]

(* Mutant: the stale socket is left alone.                                 *)
KeepStaleSocket(p) ==
    /\ listener[p] = "unlink"
    /\ listener' = [listener EXCEPT ![p] = "listen"]
    /\ UNCHANGED <<pidfile, watcher, worker, term, exit, crashes, sock>>

(* listenAndServe: os.Remove of a stale socket file.                       *)
RemoveStaleSocket(p) ==
    /\ listener[p] = "unlink"
    /\ sock' = IF Abstract THEN sock ELSE None
    /\ listener' = [listener EXCEPT ![p] = "listen"]
    /\ UNCHANGED <<pidfile, watcher, worker, term, exit, crashes>>

(* Listen.  An address in use is not a temporary error: no respawn.        *)
Listen(p) ==
    /\ listener[p] = "listen"
    /\ \/ /\ sock = None
          /\ sock' = p
          /\ listener' = [listener EXCEPT ![p] = "serve"]
          /\ UNCHANGED <<worker, exit>>
       \/ /\ sock # None
          /\ worker[p] = "run"
          /\ EndWorker(p, "error")
          /\ UNCHANGED sock
    /\ UNCHANGED <<pidfile, watcher, term, crashes>>

(* The signal is received: the context is cancelled and CleanExit begins.  *)
WorkerSignalled(p) ==
    /\ worker[p] = "run"
    /\ p \in term
    /\ worker' = [worker EXCEPT ![p] = "drain"]
    /\ term' = term \ {p}
    /\ UNCHANGED <<pidfile, watcher, listener, exit, crashes, sock>>

(* <-ctx.Done(), list.Close(): the runtime unlinks the socket file.        *)
CloseListener(p) ==
    /\ worker[p] = "drain"
    /\ listener[p] = "serve"
    /\ listener' = [listener EXCEPT ![p] = "closed"]
    /\ sock' = IF Abstract /\ sock # p THEN sock ELSE None
    /\ UNCHANGED <<pidfile, watcher, worker, term, exit, crashes>>

(* CleanExit has returned and the process ends.                            *)
WorkerDone(p) ==
    /\ worker[p] = "drain"
    /\ EndWorker(p, "clean")
    /\ ReleaseSocket(p)
    /\ UNCHANGED <<pidfile, watcher, term, crashes>>

(* A panic outside the guarded goroutines, a fatal runtime error, SIGKILL, *)
(* or a workerError with Respawn set.                                      *)
WorkerCrashes(p) ==
    /\ worker[p] \in {"run", "drain"}
    /\ crashes < MaxCrashes
    /\ crashes' = crashes + 1
    /\ EndWorker(p, "crash")
    /\ ReleaseSocket(p)
    /\ UNCHANGED <<pidfile, watcher, term>>

-----------------------------------------------------------------------------
PidFileStep(p) ==
    \/ OpenPidFile(p) \/ SetWriteLock(p) \/ CheckSameFile(p) \/ WritePid(p)
    \/ RemovePidFile(p) \/ ClosePidFile(p)
WatcherStep(p) == SpawnWorker(p) \/ WorkerEnded(p)
ListenerStep(p) == RemoveStaleSocket(p) \/ Listen(p) \/ CloseListener(p)
Environment(p) ==
    Launch(p) \/ WatcherSignalled(p) \/ WatcherFails(p) \/ WatcherKilled(p) \/ WorkerCrashes(p)

Next == \E p \in Procs :
    \/ PidFileStep(p) \/ WatcherStep(p) \/ ListenerStep(p)
    \/ WorkerSignalled(p) \/ WorkerDone(p) \/ Environment(p)

(* Processes and goroutines run on; CleanExit is not assumed to return.    *)
Fairness == \A p \in Procs :
    /\ WF_vars(PidFileStep(p)) /\ WF_vars(WatcherStep(p)) /\ WF_vars(ListenerStep(p))
    /\ WF_vars(WorkerSignalled(p))

Spec == Init /\ [][Next]_vars
FairSpec == Spec /\ Fairness

-----------------------------------------------------------------------------
Owns(p) == watcher[p] \in {"write", "spawn", "watch", "remove"}

(* At most one watcher is past CreatePidFile, although the pid file is     *)
(* removed on exit and others may have opened the old one before that.     *)
OneWatcher == \A p, q \in Procs : Owns(p) /\ Owns(q) => p = q

(* While a watcher supervises, the pid file is there and holds its pid:    *)
(* launches that lose the race must not have truncated or replaced it.     *)
PidFileNamesWatcher ==
    \A p \in Procs :
        watcher[p] \in {"spawn", "watch"} => path # None /\ content[path] = p

(* Whatever starts and crashes together, an agent can reach a worker again *)
(* and again as long as nobody stops the daemon.                           *)
Reachable(p) == worker[p] = "run" /\ listener[p] = "serve" /\ sock = p
DaemonServes == (\E p \in Procs : watcher[p] # "new") ~> (\E p \in Procs : Reachable(p))
=============================================================================
