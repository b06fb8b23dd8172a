----------------------------- MODULE DaemonProofs -----------------------------
(* For any number of launches: the pid file lets one watcher through, and  *)
(* names it.                                                               *)
EXTENDS Daemon, TLAPS

Locked == {"check", "write", "spawn", "watch", "remove", "close"}

(* From setWriteLock to the close, a watcher has its file open, holds the  *)
(* lock on it, ...                                                         *)
HoldsLock ==
    \A p \in Procs : /\ watcher[p] \in Locked \cup {"lock"} => fd[p] \in Inodes
                     /\ watcher[p] \in Locked => lock[fd[p]] = p

(* ... from the check on, the name leads to that file, ...                 *)
OwnsPath == \A p \in Procs : Owns(p) => path = fd[p]

(* ... and once it is written the file holds its pid.                      *)
PidWritten == \A p \in Procs : watcher[p] \in {"spawn", "watch"} => content[fd[p]] = p

(* A watcher in CreatePidFile has an attempt left.                         *)
TriesLeft ==
    \A p \in Procs : watcher[p] \in {"new", "open", "lock", "check"} => retries[p] >= 1

IInv == TypeOK /\ HoldsLock /\ OwnsPath /\ PidWritten /\ TriesLeft

(* Two watchers never own the pid file: they would hold the lock on one    *)
(* inode.                                                                  *)
LEMMA Exclusive == IInv => OneWatcher
  BY DEF IInv, HoldsLock, OwnsPath, OneWatcher, Owns, Locked

(* At the start no watcher runs.                                           *)
LEMMA InitIInv == Init => IInv
<1> SUFFICES ASSUME Init PROVE IInv
  OBVIOUS
<1>1. MaxRetries \in 0..MaxRetries /\ 0 \in 0..MaxCrashes
  BY RetryAssumption
<1>2. TypeOK
  BY <1>1 DEF Init, TypeOK
<1>3. TriesLeft
  BY RetryAssumption DEF Init, TriesLeft
<1> QED
  BY <1>2, <1>3 DEF Init, IInv, HoldsLock, OwnsPath, PidWritten, Owns, Locked

(* What closing the file does to the others: nothing.                      *)
LEMMA CloseFdFacts ==
    ASSUME TypeOK, NEW p \in Procs, CloseFd(p)
    PROVE  /\ fd' \in [Procs -> Inodes \cup {None}] /\ lock' \in [Inodes -> Procs \cup {None}]
           /\ \A q \in Procs : q # p => fd'[q] = fd[q]
           /\ \A q \in Procs, i \in Inodes : (q # p /\ lock[i] = q) => lock'[i] = q
  BY ProcAssumption DEF TypeOK, CloseFd

(* A watcher that leaves gives up what it held and nothing else.           *)
LEMMA LeavingIInv ==
    ASSUME IInv, NEW p \in Procs, CloseFd(p), NEW where \in {"open", "dead"},
           watcher' = [watcher EXCEPT ![p] = where], UNCHANGED <<path, content, workers>>,
           retries' \in [Procs -> 0..MaxRetries],
           \A q \in Procs : q # p => retries'[q] = retries[q],
           where = "open" => retries'[p] >= 1
    PROVE  IInv'
<1> USE DEF IInv, workers
<1>1. TypeOK'
  BY CloseFdFacts DEF TypeOK
<1>2. \A q \in Procs : watcher'[q] = IF q = p THEN where ELSE watcher[q]
  BY DEF TypeOK
<1>3. HoldsLock'
  BY <1>2, CloseFdFacts DEF HoldsLock, Locked
<1>4. OwnsPath' /\ PidWritten'
  BY <1>2, CloseFdFacts DEF OwnsPath, PidWritten, Owns
<1>5. TriesLeft'
  BY <1>2 DEF TriesLeft
<1> QED
  BY <1>1, <1>3, <1>4, <1>5

(* The steps of CreatePidFile, Write and Remove.                           *)
LEMMA PidFileIInv == ASSUME IInv, NEW p \in Procs, PidFileStep(p) PROVE IInv'
<1> USE ProcAssumption, RetryAssumption DEF IInv
<1>1. CASE OpenPidFile(p)
  <2>1. \A q \in Procs : watcher'[q] = IF q = p THEN "lock" ELSE watcher[q]
    BY <1>1 DEF OpenPidFile, TypeOK
  <2>2. PICK i \in Inodes : /\ path' = i /\ fd' = [fd EXCEPT ![p] = i]
                            /\ \/ path = i /\ content' = content
                               \/ /\ path = None /\ \A q \in Procs : fd[q] # i
                                  /\ content' = [content EXCEPT ![i] = None]
    BY <1>1 DEF OpenPidFile, TypeOK
  <2>3. UNCHANGED <<lock, retries, workers>> /\ watcher' = [watcher EXCEPT ![p] = "lock"]
    BY <1>1 DEF OpenPidFile
  <2>4. TypeOK'
    BY <2>2, <2>3 DEF TypeOK, workers
  <2>5. HoldsLock'
    BY <2>1, <2>2, <2>3 DEF HoldsLock, Locked, TypeOK
  <2>6. OwnsPath'
    BY <2>1, <2>2 DEF OwnsPath, HoldsLock, Owns, Locked, TypeOK
  <2>7. PidWritten'
    BY <2>1, <2>2 DEF PidWritten, HoldsLock, Locked, TypeOK
  <2>8. TriesLeft'
    BY <1>1, <2>1, <2>3 DEF TriesLeft, OpenPidFile
  <2> QED
    BY <2>4, <2>5, <2>6, <2>7, <2>8
<1>2. CASE SetWriteLock(p)
  <2>1. CASE lock[fd[p]] = None
    <3>1. /\ lock' = [lock EXCEPT ![fd[p]] = p] /\ watcher' = [watcher EXCEPT ![p] = "check"]
          /\ UNCHANGED <<path, content, fd, retries, workers>> /\ watcher[p] = "lock"
      BY <1>2, <2>1 DEF SetWriteLock
    <3>2. TypeOK'
      BY <3>1 DEF TypeOK, workers
    <3>3. HoldsLock'
      BY <2>1, <3>1 DEF HoldsLock, Locked, TypeOK
    <3>4. OwnsPath' /\ PidWritten'
      BY <3>1 DEF OwnsPath, PidWritten, Owns, TypeOK
    <3>5. TriesLeft'
      BY <3>1 DEF TriesLeft, TypeOK
    <3> QED
      BY <3>2, <3>3, <3>4, <3>5
  <2>2. CASE lock[fd[p]] # None
    <3>1. /\ CloseFd(p) /\ watcher' = [watcher EXCEPT ![p] = "dead"]
          /\ UNCHANGED <<path, content, retries, workers>>
      BY <1>2, <2>2 DEF SetWriteLock
    <3>2. retries' \in [Procs -> 0..MaxRetries]
      BY <3>1 DEF TypeOK
    <3> QED
      BY <3>1, <3>2, LeavingIInv
  <2> QED
    BY <2>1, <2>2
<1>3. CASE CheckSameFile(p)
  <2>1. CASE path = fd[p]
    <3>1. /\ content' = [content EXCEPT ![fd[p]] = None] /\ watcher[p] = "check"
          /\ watcher' = [watcher EXCEPT ![p] = "write"]
          /\ UNCHANGED <<path, fd, lock, retries, workers>>
      BY <1>3, <2>1 DEF CheckSameFile
    <3>2. /\ fd[p] \in Inodes
          /\ \A q \in Procs : watcher[q] \in {"spawn", "watch"} => fd[q] # fd[p]
      BY <3>1 DEF HoldsLock, Locked
    <3>3. TypeOK'
      BY <3>1, <3>2 DEF TypeOK, workers
    <3>4. HoldsLock' /\ OwnsPath'
      BY <2>1, <3>1 DEF TypeOK, HoldsLock, OwnsPath, Owns, Locked
    <3>5. PidWritten'
      BY <3>1, <3>2 DEF TypeOK, PidWritten
    <3>6. TriesLeft'
      BY <3>1 DEF TypeOK, TriesLeft
    <3> QED
      BY <3>3, <3>4, <3>5, <3>6
  <2>2. CASE path # fd[p]
    <3>1. /\ CloseFd(p) /\ retries' = [retries EXCEPT ![p] = @ - 1] /\ watcher[p] = "check"
          /\ watcher' = [watcher EXCEPT ![p] = IF retries[p] > 1 THEN "open" ELSE "dead"]
          /\ UNCHANGED <<path, content, workers>>
      BY <1>3, <2>2 DEF CheckSameFile
    <3>2. /\ retries' \in [Procs -> 0..MaxRetries] /\ retries'[p] = retries[p] - 1
          /\ \A q \in Procs : q # p => retries'[q] = retries[q]
      BY <3>1 DEF TypeOK, TriesLeft
    <3>3. CASE retries[p] > 1
      <4>1. watcher' = [watcher EXCEPT ![p] = "open"] /\ retries'[p] >= 1
        BY <3>1, <3>2, <3>3 DEF TypeOK
      <4> QED
        BY <3>1, <3>2, <4>1, LeavingIInv
    <3>4. CASE ~(retries[p] > 1)
      <4>1. watcher' = [watcher EXCEPT ![p] = "dead"]
        BY <3>1, <3>4
      <4> QED
        BY <3>1, <3>2, <4>1, LeavingIInv
    <3> QED
      BY <3>3, <3>4
  <2> QED
    BY <2>1, <2>2
<1>4. CASE WritePid(p)
  <2>1. /\ content' = [content EXCEPT ![fd[p]] = p] /\ watcher[p] = "write"
        /\ watcher' = [watcher EXCEPT ![p] = "spawn"]
        /\ UNCHANGED <<path, lock, fd, retries, workers>>
    BY <1>4 DEF WritePid
  <2>2. fd[p] \in Inodes
    BY <2>1 DEF HoldsLock, Locked
  <2>3. \A q \in Procs : watcher[q] \in {"spawn", "watch"} => fd[q] # fd[p]
    BY <2>1 DEF HoldsLock, Locked
  <2>4. TypeOK'
    BY <2>1, <2>2 DEF TypeOK, workers
  <2>5. HoldsLock' /\ OwnsPath'
    BY <2>1 DEF TypeOK, HoldsLock, OwnsPath, Owns, Locked
  <2>6. PidWritten'
    BY <2>1, <2>2, <2>3 DEF TypeOK, PidWritten
  <2>7. TriesLeft'
    BY <2>1 DEF TypeOK, TriesLeft
  <2> QED
    BY <2>4, <2>5, <2>6, <2>7
<1>5. CASE RemovePidFile(p)
  <2>1. /\ path' = None /\ watcher[p] = "remove" /\ watcher' = [watcher EXCEPT ![p] = "close"]
        /\ UNCHANGED <<content, lock, fd, retries, workers>>
    BY <1>5 DEF RemovePidFile
  <2>2. \A q \in Procs : Owns(q) => q = p
    BY <2>1, Exclusive DEF OneWatcher, Owns
  <2>3. TypeOK' /\ HoldsLock'
    BY <2>1 DEF TypeOK, HoldsLock, Locked, workers
  <2>4. OwnsPath' /\ PidWritten'
    BY <2>1, <2>2 DEF TypeOK, OwnsPath, PidWritten, Owns
  <2>5. TriesLeft'
    BY <2>1 DEF TypeOK, TriesLeft
  <2> QED
    BY <2>3, <2>4, <2>5
<1>6. CASE ClosePidFile(p)
  <2>1. /\ CloseFd(p) /\ watcher' = [watcher EXCEPT ![p] = "dead"]
        /\ UNCHANGED <<path, content, retries, workers>>
    BY <1>6 DEF ClosePidFile
  <2>2. retries' \in [Procs -> 0..MaxRetries]
    BY <2>1 DEF TypeOK
  <2> QED
    BY <2>1, <2>2, LeavingIInv
<1> QED
  BY <1>1, <1>2, <1>3, <1>4, <1>5, <1>6 DEF PidFileStep

(* A watcher that moves on without touching the pid file stays within the  *)
(* states in which it had what it needs.                                   *)
LEMMA MovingIInv ==
    ASSUME IInv, NEW p \in Procs, UNCHANGED pidfile, TypeOK',
           \/ UNCHANGED watcher
           \/ /\ watcher[p] \in {"spawn", "watch"}
              /\ \E to \in {"spawn", "watch", "remove"} : watcher' = [watcher EXCEPT ![p] = to]
           \/ watcher[p] = "write" /\ watcher' = [watcher EXCEPT ![p] = "remove"]
           \/ watcher[p] = "new" /\ watcher' = [watcher EXCEPT ![p] = "open"]
    PROVE  IInv'
<1> USE DEF IInv, pidfile
<1>1. HoldsLock'
  BY DEF HoldsLock, Locked, TypeOK
<1>2. OwnsPath' /\ PidWritten'
  BY DEF OwnsPath, PidWritten, Owns, TypeOK
<1>3. TriesLeft'
  BY DEF TriesLeft, TypeOK
<1> QED
  BY <1>1, <1>2, <1>3

(* Every other step.                                                       *)
LEMMA OtherIInv ==
    ASSUME IInv, NEW p \in Procs,
           \/ WatcherStep(p) \/ ListenerStep(p) \/ WorkerSignalled(p) \/ WorkerDone(p)
           \/ Environment(p)
    PROVE  IInv'
<1> USE ProcAssumption, RetryAssumption DEF IInv
<1>1. CASE SpawnWorker(p)
  <2>1. TypeOK'
    BY <1>1 DEF SpawnWorker, TypeOK, pidfile
  <2> QED
    BY <1>1, <2>1, MovingIInv DEF SpawnWorker
<1>2. CASE WorkerEnded(p)
  <2>1. TypeOK'
    BY <1>2 DEF WorkerEnded, TypeOK, pidfile, workers
  <2> QED
    BY <1>2, <2>1, MovingIInv DEF WorkerEnded
<1>3. CASE RemoveStaleSocket(p)
  <2>1. TypeOK' /\ UNCHANGED <<pidfile, watcher>>
    BY <1>3 DEF RemoveStaleSocket, TypeOK, pidfile
  <2> QED
    BY <2>1, MovingIInv
<1>4. CASE Listen(p)
  <2>1. TypeOK' /\ UNCHANGED <<pidfile, watcher>>
    BY <1>4 DEF Listen, EndWorker, TypeOK, pidfile
  <2> QED
    BY <2>1, MovingIInv
<1>5. CASE CloseListener(p)
  <2>1. TypeOK' /\ UNCHANGED <<pidfile, watcher>>
    BY <1>5 DEF CloseListener, TypeOK, pidfile
  <2> QED
    BY <2>1, MovingIInv
<1>6. CASE WorkerSignalled(p)
  <2>1. TypeOK' /\ UNCHANGED <<pidfile, watcher>>
    BY <1>6 DEF WorkerSignalled, TypeOK, pidfile
  <2> QED
    BY <2>1, MovingIInv
<1>7. CASE WorkerDone(p)
  <2>1. TypeOK' /\ UNCHANGED <<pidfile, watcher>>
    BY <1>7 DEF WorkerDone, EndWorker, ReleaseSocket, TypeOK, pidfile
  <2> QED
    BY <2>1, MovingIInv
<1>8. CASE WorkerCrashes(p)
  <2>1. crashes' \in 0..MaxCrashes
    BY <1>8 DEF WorkerCrashes, TypeOK
  <2>2. TypeOK' /\ UNCHANGED <<pidfile, watcher>>
    BY <1>8, <2>1 DEF WorkerCrashes, EndWorker, ReleaseSocket, TypeOK, pidfile
  <2> QED
    BY <2>2, MovingIInv
<1>9. CASE Launch(p)
  <2>1. TypeOK'
    BY <1>9 DEF Launch, TypeOK, pidfile, workers
  <2> QED
    BY <1>9, <2>1, MovingIInv DEF Launch
<1>10. CASE WatcherSignalled(p)
  <2>1. TypeOK'
    BY <1>10 DEF WatcherSignalled, TypeOK, pidfile
  <2> QED
    BY <1>10, <2>1, MovingIInv DEF WatcherSignalled
<1>11. CASE WatcherKilled(p)
  <2>1. retries' \in [Procs -> 0..MaxRetries]
    BY <1>11 DEF WatcherKilled, TypeOK
  <2> QED
    BY <1>11, <2>1, LeavingIInv DEF WatcherKilled
<1>12. CASE WatcherFails(p)
  <2>1. retries' \in [Procs -> 0..MaxRetries]
    BY <1>12 DEF WatcherFails, TypeOK
  <2>2. CASE watcher[p] \in {"open", "lock", "check"}
    BY <1>12, <2>1, <2>2, LeavingIInv DEF WatcherFails
  <2>3. CASE watcher[p] \in {"write", "spawn"}
    <3>1. TypeOK' /\ UNCHANGED pidfile /\ watcher' = [watcher EXCEPT ![p] = "remove"]
      BY <1>12, <2>3 DEF WatcherFails, TypeOK, pidfile, workers
    <3> QED
      BY <2>3, <3>1, MovingIInv
  <2> QED
    BY <1>12, <2>2, <2>3 DEF WatcherFails
<1> QED
  BY <1>1, <1>2, <1>3, <1>4, <1>5, <1>6, <1>7, <1>8, <1>9, <1>10, <1>11, <1>12
     DEF WatcherStep, ListenerStep, Environment

(* The invariant of the pid file, for any number of launches.              *)
THEOREM PidFileInvariant == Spec => []IInv
<1>1. IInv /\ UNCHANGED vars => IInv'
  BY DEF IInv, TypeOK, HoldsLock, OwnsPath, PidWritten, TriesLeft, Owns, vars
<1>2. IInv /\ [Next]_vars => IInv'
  BY <1>1, PidFileIInv, OtherIInv DEF Next
<1> QED
  BY InitIInv, <1>2, PTL DEF Spec

(* The pid file lets one watcher through at a time.                        *)
THEOREM OneWatcherAtATime == Spec => []OneWatcher
  BY PidFileInvariant, Exclusive, PTL

(* The pid file always names the watcher that supervises.                  *)
THEOREM PidFileNames == Spec => []PidFileNamesWatcher
<1>1. IInv => PidFileNamesWatcher
  BY ProcAssumption DEF IInv, HoldsLock, OwnsPath, PidWritten, PidFileNamesWatcher, Owns, Locked
<1> QED
  BY PidFileInvariant, <1>1, PTL
=============================================================================
