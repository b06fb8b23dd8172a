--------------------------- MODULE AgentProofs ------------------------------
(***************************************************************************)
(* The agent.  For any number of workers and threads, connections and      *)
(* restarts: the processes of a server have connections of their own, each *)
(* initialises itself once, and the SAPI's header handler is given back.   *)
(* For any list of functions of the table: a call of a wrapped function    *)
(* reaches that function's own original handler.  For any number of calls  *)
(* and any pages: a request sends the browser one loader and the daemon    *)
(* nothing that a security setting forbids, and reports its transaction    *)
(* under the name it told and with its worst error.  For any number of     *)
(* services that call each other: they keep to one trace.  For any number  *)
(* of calls of the API: it answers what it has done.                       *)
(***************************************************************************)
EXTENDS TraceChain, Api, Lifecycle, InternalFunctions, FiniteSetTheorems, WellFoundedInduction, TLAPS

Ats == {"idle", "lock", "locked", "unlock", "begin", "txn", "off"}

ProcessRecords ==
  [alive : BOOLEAN, enabled : BOOLEAN, handler : {"sapi", "newrelic"}, orig : {"sapi", NULL},
   fd : Nat \union {NULL}, done : BOOLEAN, mutex : LfThreads \union {NULL}, applists : {0, 1},
   wraprecs : BOOLEAN, at : [LfThreads -> Ats]]

(* One thread at a time is behind the lock of nr_php_global_once.          *)
OneBehindLock(r) == \A t \in LfThreads : r.at[t] \in {"locked", "unlock"} <=> r.mutex = t

(* What the process that has the record r can tell by itself: done is set  *)
(* by the late initialisation and by nothing else, whoever has passed the  *)
(* lock knows it set, and the header handler is the agent's while it runs. *)
Sound(r) ==
  /\ r.done <=> r.applists = 1
  /\ \A t \in LfThreads : r.at[t] \in {"unlock", "begin", "txn"} => r.done
  /\ OneBehindLock(r)
  /\ r.handler = "newrelic" <=> r.alive /\ r.enabled
  /\ r.alive /\ r.enabled => r.orig = "sapi"

(* A process that is not there, or that has shut the module down.          *)
Ended(r) ==
  /\ r.fd = NULL /\ ~r.enabled /\ r.applists = 0 /\ r.mutex = NULL
  /\ \A t \in LfThreads : r.at[t] = "idle"

(* The connections have the numbers up to lfConns, one process each, and a *)
(* master that forks has none.                                             *)
Connections ==
  /\ lfConns \in Nat
  /\ \A p \in LfProcesses : lfProcs[p].fd # NULL => lfProcs[p].fd <= lfConns
  /\ \A p, q \in LfProcesses : p # q /\ lfProcs[p].fd # NULL => lfProcs[p].fd # lfProcs[q].fd
  /\ ~lfHost.cli => lfProcs[Master].fd = NULL

LfInv ==
  /\ lfProcs \in [LfProcesses -> ProcessRecords]
  /\ \A p \in LfProcesses : Sound(lfProcs[p]) /\ (~lfProcs[p].alive => Ended(lfProcs[p]))
  /\ Connections

(* A step of one process: its record stays sound, and its connection is    *)
(* the one it had, none, or the next.                                      *)
LEMMA OneProcessMoves ==
  ASSUME LfInv, NEW p \in LfProcesses, NEW r \in ProcessRecords, Sound(r),
         ~r.alive => Ended(r), Update(p, r), UNCHANGED lfHost,
         \/ r.fd \in {lfProcs[p].fd, NULL} /\ lfConns' \in {lfConns, lfConns + 1}
         \/ r.fd = lfConns + 1 /\ lfConns' = lfConns + 1,
         p = Master /\ ~lfHost.cli => r.fd = NULL
  PROVE  LfInv'
<1>1. lfProcs' \in [LfProcesses -> ProcessRecords] /\ lfProcs'[p] = r
      /\ \A q \in LfProcesses : q # p => lfProcs'[q] = lfProcs[q]
  BY DEF LfInv, Update
<1>2. \A q \in LfProcesses : Sound(lfProcs'[q]) /\ (~lfProcs'[q].alive => Ended(lfProcs'[q]))
  BY <1>1 DEF LfInv
<1>3. Connections'
  <2>1. lfConns \in Nat /\ lfConns' \in Nat /\ lfConns <= lfConns' /\ NULL \notin Nat
    BY LfAssumption DEF LfInv, Connections
  <2>2. \A q \in LfProcesses : lfProcs[q].fd \in Nat \union {NULL} /\ lfProcs'[q].fd \in Nat \union {NULL}
    BY <1>1 DEF LfInv, ProcessRecords
  <2>3. \A q \in LfProcesses : lfProcs[q].fd # NULL => lfProcs[q].fd <= lfConns
    BY DEF LfInv, Connections
  <2>4. ASSUME NEW q \in LfProcesses, lfProcs'[q].fd # NULL PROVE lfProcs'[q].fd <= lfConns'
    BY <1>1, <2>1, <2>2, <2>3, <2>4
  <2>5. ASSUME NEW q \in LfProcesses, q # p
        PROVE  r.fd = NULL \/ r.fd # lfProcs[q].fd
    BY <2>1, <2>2, <2>3, <2>5 DEF LfInv, Connections
  <2>6. ASSUME NEW q \in LfProcesses, NEW s \in LfProcesses, q # s, lfProcs'[q].fd # NULL
        PROVE  lfProcs'[q].fd # lfProcs'[s].fd
    <3>1. CASE q # p /\ s # p
      BY <1>1, <2>6, <3>1 DEF LfInv, Connections
    <3>2. CASE q = p \/ s = p
      BY <1>1, <2>5, <2>6, <3>2
    <3> QED
      BY <3>1, <3>2
  <2>7. ~lfHost'.cli => lfProcs'[Master].fd = NULL
    BY <1>1 DEF LfInv, Connections, LfProcesses
  <2> QED
    BY <2>1, <2>4, <2>6, <2>7 DEF Connections
<1> QED
  BY <1>1, <1>2, <1>3 DEF LfInv

(* The three ways through MINIT leave a sound record.                      *)
LEMMA MinitInv ==
  ASSUME LfInv, Minit PROVE LfInv'
<1> DEFINE old == lfProcs[Master]
           r0 == [nr_php_global_init(Process(Master)) EXCEPT !.alive = TRUE]
           r  == [r0 EXCEPT !.wraprecs = TRUE]
           connected == IF lfDaemon.up THEN [r EXCEPT !.fd = lfConns + 1] ELSE r
           bad0 == [r0 EXCEPT !.enabled = FALSE]
           bad1 == [r EXCEPT !.enabled = FALSE]
           good == MinitHooks(lfHost, connected)
<1>1. Master \in LfProcesses /\ old \in ProcessRecords /\ Sound(old) /\ Ended(old) /\ ~old.alive
  BY DEF LfInv, LfProcesses, Minit, Process
<1>2. lfConns \in Nat
  BY DEF LfInv, Connections
<1>3. /\ old.fd = NULL /\ old.applists = 0 /\ ~old.done /\ old.mutex = NULL
      /\ old.handler = "sapi" /\ \A t \in LfThreads : old.at[t] = "idle"
  BY <1>1 DEF Sound, Ended, ProcessRecords
<1>4. /\ bad0 \in ProcessRecords /\ bad1 \in ProcessRecords /\ good \in ProcessRecords
  <2>1. /\ r0 \in ProcessRecords /\ r \in ProcessRecords /\ bad0 \in ProcessRecords
        /\ bad1 \in ProcessRecords
    BY <1>1 DEF ProcessRecords, nr_php_global_init, Process
  <2>2. r.handler = "sapi"
    BY <1>1, <1>3 DEF ProcessRecords, nr_php_global_init, Process
  <2> HIDE DEF r
  <2>3. connected \in ProcessRecords /\ connected.handler = "sapi"
    BY <1>2, <2>1, <2>2 DEF ProcessRecords
  <2> HIDE DEF connected
  <2>4. good \in ProcessRecords
    BY <2>3 DEF ProcessRecords, MinitHooks
  <2> QED
    BY <2>1, <2>4
<1>5. ASSUME NEW x \in {bad0, bad1}
      PROVE  /\ x.alive /\ x.fd = NULL /\ ~x.enabled /\ ~x.done /\ x.applists = 0
             /\ x.mutex = NULL /\ x.at = old.at /\ x.handler = "sapi"
  BY <1>1, <1>3 DEF ProcessRecords, nr_php_global_init, Process
<1>6. /\ good.alive /\ good.enabled /\ ~good.done /\ good.applists = 0 /\ good.mutex = NULL
      /\ good.at = old.at /\ good.handler = "newrelic" /\ good.orig = "sapi"
      /\ good.fd = IF lfHost.cli /\ lfDaemon.up THEN lfConns + 1 ELSE NULL
  BY <1>1, <1>3 DEF ProcessRecords, MinitHooks, nr_php_global_init, Process
<1>7. lfProcs' \in {[lfProcs EXCEPT ![Master] = x] : x \in {bad0, bad1, good}} /\ UNCHANGED lfHost
  BY DEF Minit, Update
<1> HIDE DEF old, r0, r, connected, bad0, bad1, good
<1>8. ASSUME NEW x \in {bad0, bad1}, Update(Master, x), UNCHANGED lfConns PROVE LfInv'
  <2>1. Sound(x)
    BY <1>3, <1>5, <1>8, LfAssumption DEF Sound, OneBehindLock
  <2> QED
    BY <1>1, <1>4, <1>5, <1>7, <1>8, <2>1, OneProcessMoves
<1>9. ASSUME Update(Master, good), lfConns' = IF lfDaemon.up THEN lfConns + 1 ELSE lfConns PROVE LfInv'
  <2>1. Sound(good)
    BY <1>3, <1>6, LfAssumption DEF Sound, OneBehindLock
  <2>2. good.fd = NULL \/ (good.fd = lfConns + 1 /\ lfConns' = lfConns + 1)
    <3>1. CASE lfDaemon.up
      BY <1>6, <1>9, <3>1
    <3>2. CASE ~lfDaemon.up
      BY <1>6, <3>2
    <3> QED
      BY <3>1, <3>2
  <2>3. lfConns' \in {lfConns, lfConns + 1}
    BY <1>9
  <2> QED
    BY <1>1, <1>4, <1>6, <1>7, <1>9, <2>1, <2>2, <2>3, OneProcessMoves
<1> QED
  BY <1>8, <1>9 DEF Minit, old, r0, r, connected, bad0, bad1, good

(* A worker begins as its master, which has no connection.                 *)
LEMMA ForkInv ==
  ASSUME LfInv, NEW w \in LfWorkers, Fork(w) PROVE LfInv'
<1>1. w \in LfProcesses /\ Master \in LfProcesses /\ w # Master
  BY LfAssumption DEF LfProcesses
<1>2. /\ lfProcs[Master] \in ProcessRecords /\ Sound(lfProcs[Master]) /\ lfProcs[Master].alive
      /\ lfProcs[Master].fd = NULL
  BY <1>1 DEF LfInv, Connections, Fork, Process
<1> QED
  BY <1>1, <1>2, OneProcessMoves DEF Fork, Process

(* What MSHUTDOWN leaves is as if the process had not been.                *)
LEMMA MshutdownInv ==
  ASSUME LfInv, NEW p \in LfProcesses, Mshutdown(p) PROVE LfInv'
<1> DEFINE r == nr_php_mshutdown(lfProcs[p])
<1>1. lfProcs[p] \in ProcessRecords /\ Sound(lfProcs[p]) /\ lfProcs[p].alive
  BY DEF LfInv, Mshutdown, Process
<1>2. ~lfProcs[p].enabled => lfProcs[p].handler = "sapi"
  BY <1>1 DEF Sound, ProcessRecords
<1>3. lfProcs[p].enabled => lfProcs[p].orig = "sapi"
  BY <1>1 DEF Sound
<1>4. /\ r \in ProcessRecords /\ ~r.alive /\ r.handler = "sapi" /\ Ended(r) /\ ~r.done
  BY <1>1, <1>2, <1>3 DEF ProcessRecords, nr_php_mshutdown, NewProcess, Ended, Ats
<1>5. Update(p, r) /\ UNCHANGED <<lfHost, lfConns>>
  BY DEF Mshutdown, Process
<1> HIDE DEF r
<1>6. Sound(r)
  BY <1>4, LfAssumption DEF Sound, Ended, OneBehindLock
<1> QED
  BY <1>4, <1>5, <1>6, OneProcessMoves DEF Ended

(* A thread of a process goes from one place to another.                   *)
LEMMA ThreadMoves ==
  ASSUME NEW r \in ProcessRecords, NEW t \in LfThreads, NEW to \in Ats
  PROVE  LET x == [r EXCEPT !.at[t] = to]
         IN /\ x \in ProcessRecords
            /\ x.alive = r.alive /\ x.enabled = r.enabled /\ x.handler = r.handler
            /\ x.orig = r.orig /\ x.fd = r.fd /\ x.done = r.done /\ x.mutex = r.mutex
            /\ x.applists = r.applists
            /\ x.at[t] = to /\ \A u \in LfThreads : u # t => x.at[u] = r.at[u]
  BY DEF ProcessRecords

(* A process that serves is there, and if it is the master it is alone.    *)
LEMMA ServerFacts ==
  ASSUME LfInv, NEW p \in LfProcesses, Serves(p)
  PROVE  /\ lfProcs[p] \in ProcessRecords /\ Sound(lfProcs[p]) /\ lfProcs[p].alive
         /\ p = Master => lfHost.cli
  BY DEF LfInv, Serves, Process

(* The two looks of nr_php_global_once and the lock between them.          *)
LEMMA OnceInv ==
  ASSUME LfInv, NEW p \in LfProcesses, NEW t \in LfThreads,
         OnceLock(p, t) \/ OnceRun(p, t) \/ OnceUnlock(p, t)
  PROVE  LfInv'
<1> DEFINE old == lfProcs[p]
<1>1. old \in ProcessRecords /\ Sound(old) /\ old.alive /\ (p = Master => lfHost.cli)
  BY ServerFacts DEF OnceLock, OnceRun, OnceUnlock, Go
<1>2. UNCHANGED <<lfHost, lfConns>>
  BY DEF OnceLock, OnceRun, OnceUnlock
<1>3. CASE OnceLock(p, t)
  <2> DEFINE r == [old EXCEPT !.mutex = t]
             x == [r EXCEPT !.at[t] = "locked"]
  <2>1. /\ old.mutex = NULL /\ old.at[t] = "lock" /\ Update(p, x)
    BY <1>3 DEF OnceLock, Go, Process
  <2>2. /\ r \in ProcessRecords /\ r.mutex = t /\ r.at = old.at /\ r.alive = old.alive
        /\ r.enabled = old.enabled /\ r.handler = old.handler /\ r.orig = old.orig
        /\ r.fd = old.fd /\ r.done = old.done /\ r.applists = old.applists
    BY <1>1 DEF ProcessRecords
  <2> HIDE DEF old, r
  <2>3. /\ x \in ProcessRecords
        /\ x.alive = r.alive /\ x.enabled = r.enabled /\ x.handler = r.handler
        /\ x.orig = r.orig /\ x.fd = r.fd /\ x.done = r.done /\ x.mutex = r.mutex
        /\ x.applists = r.applists
        /\ x.at[t] = "locked" /\ \A u \in LfThreads : u # t => x.at[u] = r.at[u]
    <3>1. {"locked", "unlock", "begin"} \subseteq Ats
      BY DEF Ats
    <3>2. r \in ProcessRecords
      BY <2>2
    <3> QED
      BY <3>1, <3>2, ThreadMoves
  <2> HIDE DEF x
  <2>4. Sound(x)
    BY <1>1, <2>1, <2>2, <2>3, LfAssumption DEF Sound, OneBehindLock
  <2> QED
    BY <1>1, <1>2, <2>1, <2>2, <2>3, <2>4, OneProcessMoves DEF old
<1>4. CASE OnceRun(p, t)
  <2> DEFINE r == nr_php_global_once(old)
             x == [r EXCEPT !.at[t] = "unlock"]
  <2>1. /\ old.at[t] = "locked" /\ Update(p, x)
    BY <1>4 DEF OnceRun, Go, Process
  <2>2. /\ r \in ProcessRecords /\ r.mutex = old.mutex /\ r.at = old.at /\ r.alive = old.alive
        /\ r.enabled = old.enabled /\ r.handler = old.handler /\ r.orig = old.orig
        /\ r.fd = old.fd /\ r.done /\ r.applists = 1
    <3>1. CASE old.done
      BY <1>1, <3>1 DEF nr_php_global_once, Sound
    <3>2. CASE ~old.done
      <4>1. old.applists = 0
        BY <1>1, <3>2 DEF Sound, ProcessRecords
      <4>2. r = [[old EXCEPT !.applists = @ + 1] EXCEPT !.done = TRUE]
        BY <3>2 DEF nr_php_global_once, nr_php_late_initialization
      <4> HIDE DEF old, r
      <4>3. 0 + 1 = 1 /\ r = [old EXCEPT !.applists = 1, !.done = TRUE]
        BY <1>1, <4>1, <4>2 DEF ProcessRecords
      <4> QED
        BY <1>1, <4>3 DEF ProcessRecords
    <3> QED
      BY <3>1, <3>2
  <2> HIDE DEF old, r
  <2>3. /\ x \in ProcessRecords
        /\ x.alive = r.alive /\ x.enabled = r.enabled /\ x.handler = r.handler
        /\ x.orig = r.orig /\ x.fd = r.fd /\ x.done = r.done /\ x.mutex = r.mutex
        /\ x.applists = r.applists
        /\ x.at[t] = "unlock" /\ \A u \in LfThreads : u # t => x.at[u] = r.at[u]
    <3>1. {"locked", "unlock", "begin"} \subseteq Ats
      BY DEF Ats
    <3>2. r \in ProcessRecords
      BY <2>2
    <3> QED
      BY <3>1, <3>2, ThreadMoves
  <2> HIDE DEF x
  <2>4. Sound(x)
    BY <1>1, <2>1, <2>2, <2>3 DEF Sound, OneBehindLock
  <2> QED
    BY <1>1, <1>2, <2>1, <2>2, <2>3, <2>4, OneProcessMoves DEF old
<1>5. CASE OnceUnlock(p, t)
  <2> DEFINE r == [old EXCEPT !.mutex = NULL]
             x == [r EXCEPT !.at[t] = "begin"]
  <2>1. /\ old.at[t] = "unlock" /\ Update(p, x)
    BY <1>5 DEF OnceUnlock, Go, Process
  <2>2. /\ r \in ProcessRecords /\ r.mutex = NULL /\ r.at = old.at /\ r.alive = old.alive
        /\ r.enabled = old.enabled /\ r.handler = old.handler /\ r.orig = old.orig
        /\ r.fd = old.fd /\ r.done = old.done /\ r.applists = old.applists
    BY <1>1 DEF ProcessRecords
  <2>a. old.mutex = t
    BY <1>1, <2>1 DEF Sound, OneBehindLock
  <2> HIDE DEF old, r
  <2>3. /\ x \in ProcessRecords
        /\ x.alive = r.alive /\ x.enabled = r.enabled /\ x.handler = r.handler
        /\ x.orig = r.orig /\ x.fd = r.fd /\ x.done = r.done /\ x.mutex = r.mutex
        /\ x.applists = r.applists
        /\ x.at[t] = "begin" /\ \A u \in LfThreads : u # t => x.at[u] = r.at[u]
    <3>1. {"locked", "unlock", "begin"} \subseteq Ats
      BY DEF Ats
    <3>2. r \in ProcessRecords
      BY <2>2
    <3> QED
      BY <3>1, <3>2, ThreadMoves
  <2> HIDE DEF x
  <2>4. Sound(x)
    BY <1>1, <2>1, <2>2, <2>3, <2>a, LfAssumption DEF Sound, OneBehindLock
  <2> QED
    BY <1>1, <1>2, <2>1, <2>2, <2>3, <2>4, OneProcessMoves DEF old
<1> QED
  BY <1>3, <1>4, <1>5

(* The other steps of a request keep done, the lock and the handler.       *)
LEMMA RequestInv ==
  ASSUME LfInv, NEW p \in LfProcesses, NEW t \in LfThreads,
         Rinit(p, t) \/ TxnBegin(p, t) \/ Rshutdown(p, t)
  PROVE  LfInv'
<1> DEFINE old == lfProcs[p]
<1>1. old \in ProcessRecords /\ Sound(old) /\ old.alive /\ (p = Master => lfHost.cli)
  BY ServerFacts DEF Rinit, TxnBegin, Rshutdown, Go
<1>2. lfConns \in Nat /\ UNCHANGED lfHost
  BY DEF LfInv, Connections, Rinit, TxnBegin, Rshutdown
<1>3. ASSUME NEW r \in ProcessRecords, NEW to \in Ats, Update(p, [r EXCEPT !.at[t] = to]),
             r.mutex = old.mutex, r.at = old.at, r.alive = old.alive, r.enabled = old.enabled,
             r.handler = old.handler, r.orig = old.orig, r.done = old.done,
             r.applists = old.applists,
             old.at[t] \notin {"locked", "unlock"}, to \notin {"locked", "unlock"},
             to \in {"begin", "txn"} => old.done,
             \/ r.fd = old.fd /\ lfConns' = lfConns
             \/ r.fd = lfConns + 1 /\ lfConns' = lfConns + 1
      PROVE  LfInv'
  <2> DEFINE x == [r EXCEPT !.at[t] = to]
  <2>1. /\ x \in ProcessRecords
        /\ x.alive = r.alive /\ x.enabled = r.enabled /\ x.handler = r.handler
        /\ x.orig = r.orig /\ x.fd = r.fd /\ x.done = r.done /\ x.mutex = r.mutex
        /\ x.applists = r.applists
        /\ x.at[t] = to /\ \A u \in LfThreads : u # t => x.at[u] = r.at[u]
    BY <1>3, ThreadMoves
  <2>2. Update(p, x)
    BY <1>3
  <2> HIDE DEF old, x
  <2>3. Sound(x)
    BY <1>1, <1>3, <2>1 DEF Sound, OneBehindLock
  <2> QED
    BY <1>1, <1>2, <1>3, <2>1, <2>2, <2>3, OneProcessMoves DEF old
<1>4. CASE Rinit(p, t)
  <2>1. PICK to \in {"off", "begin", "lock"} :
          /\ Update(p, [old EXCEPT !.at[t] = to]) /\ (to = "begin" => old.done)
          /\ old.at[t] = "idle" /\ UNCHANGED lfConns
    BY <1>4 DEF Rinit, Go, Process
  <2> HIDE DEF old
  <2> QED
    BY <1>1, <1>3, <2>1 DEF Ats
<1>5. CASE TxnBegin(p, t)
  <2>1. old.at[t] = "begin" /\ old.done
    BY <1>1, <1>5 DEF TxnBegin, Go, Process, Sound
  <2>2. CASE Process(p).fd = NULL /\ lfDaemon.up /\ lfConns < LfMaxConns
    <3> DEFINE r == [old EXCEPT !.fd = lfConns + 1]
    <3>1. Update(p, [r EXCEPT !.at[t] = "txn"]) /\ lfConns' = lfConns + 1
      BY <1>5, <2>2 DEF TxnBegin, Go, Process
    <3>2. /\ r \in ProcessRecords /\ r.mutex = old.mutex /\ r.at = old.at /\ r.alive = old.alive
          /\ r.enabled = old.enabled /\ r.handler = old.handler /\ r.orig = old.orig
          /\ r.fd = lfConns + 1 /\ r.done = old.done /\ r.applists = old.applists
      <4>1. lfConns + 1 \in Nat
        BY <1>2
      <4> HIDE DEF old
      <4> QED
        BY <1>1, <4>1 DEF ProcessRecords
    <3> HIDE DEF old, r
    <3> QED
      BY <1>3, <2>1, <3>1, <3>2 DEF Ats
  <2>3. CASE ~(Process(p).fd = NULL /\ lfDaemon.up /\ lfConns < LfMaxConns)
    <3>1. PICK to \in {"off", "txn"} : Update(p, [old EXCEPT !.at[t] = to]) /\ UNCHANGED lfConns
      BY <1>5, <2>3 DEF TxnBegin, Go, Process
    <3> HIDE DEF old
    <3> QED
      BY <1>1, <1>3, <2>1, <3>1 DEF Ats
  <2> QED
    BY <2>2, <2>3
<1>6. CASE Rshutdown(p, t)
  <2>1. /\ Update(p, [old EXCEPT !.at[t] = "idle"]) /\ old.at[t] \in {"txn", "off"}
        /\ UNCHANGED lfConns
    BY <1>6 DEF Rshutdown, Go, Process
  <2> HIDE DEF old
  <2> QED
    BY <1>1, <1>3, <2>1 DEF Ats
<1> QED
  BY <1>4, <1>5, <1>6

(* The inductive invariant.  The properties alone are not inductive: that  *)
(* a fork gives away no connection needs a master that has none, and that  *)
(* MINIT starts from a sound record needs what MSHUTDOWN leaves behind.    *)
THEOREM LifecycleInvariant == LfSpec => []LfInv
<1>1. ASSUME LfInit PROVE LfInv
  <2>1. NewProcess \in ProcessRecords /\ ~NewProcess.alive /\ NewProcess.handler = "sapi"
        /\ ~NewProcess.done /\ Ended(NewProcess)
    BY DEF NewProcess, ProcessRecords, Ended, Ats
  <2>2. Sound(NewProcess)
    BY <2>1, LfAssumption DEF Sound, OneBehindLock, Ended
  <2>3. /\ lfProcs = [p \in LfProcesses |-> NewProcess] /\ lfConns = 0
    BY <1>1 DEF LfInit
  <2>4. Connections
    BY <2>1, <2>3 DEF Connections, Ended, LfProcesses
  <2> QED
    BY <2>1, <2>2, <2>3, <2>4 DEF LfInv
<1>2. ASSUME LfInv, [LfNext]_lfVars PROVE LfInv'
  <2>1. CASE Minit
    BY <1>2, <2>1, MinitInv
  <2>2. CASE DaemonListens
    BY <1>2, <2>2 DEF DaemonListens, LfInv, Connections
  <2>3. ASSUME NEW w \in LfWorkers, Fork(w) PROVE LfInv'
    BY <1>2, <2>3, ForkInv
  <2>4. ASSUME NEW p \in LfProcesses, Mshutdown(p) PROVE LfInv'
    BY <1>2, <2>4, MshutdownInv
  <2>5. ASSUME NEW p \in LfProcesses, NEW t \in LfThreads,
               \/ Rinit(p, t) \/ OnceLock(p, t) \/ OnceRun(p, t)
               \/ OnceUnlock(p, t) \/ TxnBegin(p, t) \/ Rshutdown(p, t)
        PROVE  LfInv'
    BY <1>2, <2>5, OnceInv, RequestInv
  <2>6. CASE UNCHANGED lfVars
    BY <1>2, <2>6 DEF lfVars, LfInv, Connections
  <2> QED
    BY <1>2, <2>1, <2>2, <2>3, <2>4, <2>5, <2>6 DEF LfNext
<1> QED
  BY <1>1, <1>2, PTL DEF LfSpec

(* No two processes of a server share a connection to the daemon, the late *)
(* initialisation is done once and before a transaction begins, and the    *)
(* header handler is the agent's exactly where the agent runs, whatever    *)
(* the settings, the forks, the restarts and the threads                   *)
(* (PHP_MINIT_FUNCTION, nr_php_global_once, PHP_MSHUTDOWN_FUNCTION).       *)
THEOREM ProcessesStayApart == LfSpec => []ProcessesAreApart
<1>1. ASSUME LfInv PROVE ProcessesAreApart
  <2>1. OwnConnections
    BY <1>1 DEF LfInv, Connections, OwnConnections, Process
  <2>2. LateOnce
    BY <1>1 DEF LfInv, Sound, ProcessRecords, LateOnce, Process
  <2>3. HandlerBalanced
    <3>1. NULL # "newrelic"
      BY LfAssumption
    <3>2. \A p \in LfProcesses : lfProcs[p].orig \in {"sapi", NULL}
      BY <1>1 DEF LfInv, ProcessRecords
    <3>3. \A p \in LfProcesses : lfProcs[p].handler = "newrelic" <=> lfProcs[p].alive /\ lfProcs[p].enabled
      BY <1>1 DEF LfInv, Sound
    <3> QED
      BY <3>1, <3>2, <3>3 DEF HandlerBalanced, Process
  <2> QED
    BY <2>1, <2>2, <2>3 DEF ProcessesAreApart
<1> QED
  BY <1>1, LifecycleInvariant, PTL

(* In every process at most one thread is between the two looks of         *)
(* nr_php_global_once, so the late initialisation, which no lock of its    *)
(* own protects, is never entered by two (nr_php_global_once).             *)
THEOREM OneThreadInitialises ==
  LfSpec => [](\A p \in LfProcesses : \A t, u \in LfThreads :
                 {lfProcs[p].at[t], lfProcs[p].at[u]} \subseteq {"locked", "unlock"} => t = u)
<1>1. ASSUME LfInv
      PROVE  \A p \in LfProcesses : \A t, u \in LfThreads :
               {lfProcs[p].at[t], lfProcs[p].at[u]} \subseteq {"locked", "unlock"} => t = u
  BY <1>1 DEF LfInv, Sound, OneBehindLock
<1> QED
  BY <1>1, LifecycleInvariant, PTL

-----------------------------------------------------------------------------
(* Wrapped functions of PHP's extensions, for any table of them.           *)

PdoInners == {"pdo_construct", "pdo_query", "pdo_exec", "pdo_prepare"}

(* A record with an outer wrapper of its own, and one of a method of PDO,  *)
(* which shares it with the copies in the subclasses.                      *)
OwnWrapper(w) == w.outer = w.full_name /\ w.inner \notin PdoInners /\ w.disabled \in BOOLEAN
SharedWrapper(w) ==
  w.outer = <<"pdo", w.full_name[2]>> /\ w.inner \in PdoInners /\ w.disabled \in BOOLEAN

AllOwn(S) == \A w \in S : OwnWrapper(w)

LEMMA OwnRecord ==
  ASSUME NEW class, NEW f, NEW inner, NEW extra, inner \notin PdoInners
  PROVE  OwnWrapper(WrapRec(class, f, inner, extra, <<class, f>>))
  BY DEF WrapRec, OwnWrapper

LEMMA OwnOps ==
  ASSUME NEW class, NEW fs, NEW inner, NEW extra, inner \notin PdoInners
  PROVE  AllOwn(Ops(class, fs, inner, extra))
  BY OwnRecord DEF Ops, AllOwn

LEMMA OwnRecs ==
  ASSUME NEW class, NEW fs, NEW inner, inner \notin PdoInners
  PROVE  AllOwn(Recs(class, fs, inner))
  BY OwnOps DEF Recs

LEMMA OwnSame ==
  ASSUME NEW fs, \A f \in fs : f \notin PdoInners
  PROVE  AllOwn(Same(fs))
<1>1. \A f \in fs : OwnWrapper(WrapRec("", f, f, "", <<"", f>>))
  BY OwnRecord
<1> QED
  BY <1>1 DEF Same, AllOwn

LEMMA OwnUnion ==
  /\ \A S, T : AllOwn(S) /\ AllOwn(T) => AllOwn(S \cup T)
  /\ \A U : (\A S \in U : AllOwn(S)) => AllOwn(UNION U)
  BY DEF AllOwn

(* Methods that are listed with their inner wrappers, and commands with    *)
(* their own name as the operation.                                        *)
LEMMA OwnListed ==
  ASSUME NEW class, NEW M, \A m \in M : m[2] \notin PdoInners
  PROVE  AllOwn(Listed(class, M))
<1>1. \A m \in M : AllOwn(Recs(class, {m[1]}, m[2]))
  BY OwnRecs
<1> QED
  BY <1>1, OwnUnion DEF Listed

LEMMA OwnNamed ==
  ASSUME NEW class, NEW fs, NEW inner, inner \notin PdoInners
  PROVE  AllOwn(OpNamed(class, fs, inner))
<1>1. \A f \in fs : AllOwn(Ops(class, {f}, inner, f))
  BY OwnOps
<1> QED
  BY <1>1, OwnUnion DEF OpNamed

LEMMA MysqlRecords == AllOwn(MysqlFunctions)
<1>1. \A m \in MysqliMethods \cup MysqliStmtMethods : m[2] \notin PdoInners
  BY DEF MysqliMethods, MysqliStmtMethods, PdoInners
<1>2. AllOwn(Listed("mysqli", MysqliMethods)) /\ AllOwn(Listed("mysqli_stmt", MysqliStmtMethods))
  BY <1>1, OwnListed
<1> QED
  BY <1>2, OwnRecs, OwnSame, OwnUnion DEF MysqlFunctions, PdoInners

LEMMA MemcacheRecords == AllOwn(MemcacheFunctions) /\ AllOwn(MemcachedFunctions)
<1>1. /\ "memcache_function" \notin PdoInners
      /\ "memcached_add_server" \notin PdoInners /\ "memcached_add_servers" \notin PdoInners
  BY DEF PdoInners
<1>2. AllOwn(MemcacheFunctions)
  BY <1>1, OwnOps, OwnNamed, OwnUnion DEF MemcacheFunctions
<1>3. AllOwn(MemcachedFunctions)
  BY <1>1, OwnOps, OwnRecs, OwnUnion DEF MemcachedFunctions
<1> QED
  BY <1>2, <1>3

LEMMA RedisRecords ==
  /\ AllOwn(RedisConnections) /\ AllOwn(RedisFunctions)
  /\ AllOwn(RedisClusterAtoR) /\ AllOwn(RedisClusterRtoZ)
<1>1. /\ "redis_connect" \notin PdoInners /\ "redis_close" \notin PdoInners
      /\ "redis_select" \notin PdoInners /\ "redis_function" \notin PdoInners
      /\ "rediscluster_function" \notin PdoInners
  BY DEF PdoInners
<1>2. AllOwn(RedisConnections)
  BY <1>1, OwnOps, OwnNamed, OwnUnion DEF RedisConnections
<1>3. AllOwn(RedisFunctions)
  BY <1>1, OwnNamed DEF RedisFunctions
<1>4. AllOwn(RedisClusterAtoR) /\ AllOwn(RedisClusterRtoZ)
  BY <1>1, OwnNamed DEF RedisClusterAtoR, RedisClusterRtoZ
<1> QED
  BY <1>2, <1>3, <1>4

LEMMA PgsqlRecords == AllOwn(PgsqlAndSqliteFunctions)
  BY OwnRecs, OwnSame, OwnUnion DEF PgsqlAndSqliteFunctions, PdoInners

LEMMA OtherRecords == AllOwn(OtherFunctions)
  BY OwnRecs, OwnSame, OwnNamed, OwnUnion DEF OtherFunctions, PdoInners

LEMMA PdoRecords == \A w \in PdoFunctions : SharedWrapper(w)
<1>1. ASSUME NEW class, NEW m, m[2] \in PdoInners
      PROVE  SharedWrapper(WrapRec(class, m[1], m[2], "", <<"pdo", m[1]>>))
  BY <1>1 DEF WrapRec, SharedWrapper
<1>2. \A m \in PdoMethods : m[2] \in PdoInners
  BY DEF PdoMethods, PdoInners
<1>3. ASSUME NEW w \in PdoFunctions PROVE SharedWrapper(w)
  <2>1. PICK class \in PdoClasses, m \in PdoMethods :
          w = WrapRec(class, m[1], m[2], "", <<"pdo", m[1]>>)
    BY <1>3 DEF PdoFunctions
  <2> QED
    BY <1>1, <1>2, <2>1
<1> QED
  BY <1>3

(* The outer wrapper of a record is named for the original handler it      *)
(* stands before, so records that share a wrapper share the original.      *)
LEMMA OuterNamesOriginal ==
  ASSUME NEW f \in FnSample
  PROVE  RecordOf(f).outer = OriginalOf(f) /\ RecordOf(f).disabled \in BOOLEAN
<1> DEFINE T == nr_php_generate_internal_wrap_records
<1>1. \A w \in T : OwnWrapper(w) \/ SharedWrapper(w)
  BY MysqlRecords, MemcacheRecords, RedisRecords, PgsqlRecords, PdoRecords, OtherRecords
     DEF nr_php_generate_internal_wrap_records, AllOwn
<1>2. \E w \in T : w.full_name = f
  BY FnAssumption DEF FnSample, Range
<1> HIDE DEF T
<1>3. RecordOf(f) \in T /\ RecordOf(f).full_name = f
  BY <1>2 DEF RecordOf, T
<1> QED
  BY <1>1, <1>3 DEF OriginalOf, OwnWrapper, SharedWrapper, PdoInners

Outers == {RecordOf(f).outer : f \in FnSample}
Handlers == {Original(f) : f \in FnSample} \cup {Outer(o) : o \in Outers}
FnCalls == [fn : FnSample, reached : {OriginalOf(f) : f \in FnSample},
            counted : FnSample \cup {NULL}, callback : {NULL, "callback"}]

FnRecords ==
  [type : [FnSample -> FnTypes], phase : {"loaded", "running", "over"}, next : 0..Len(FnTable),
   handler : [FnSample -> Handlers], wrapped : [FnSample -> BOOLEAN], off : [FnSample -> BOOLEAN],
   old : [FnSample -> Handlers \cup {NULL}], global : [Outers -> FnSample \cup {NULL}],
   cufa : {NULL, "callback"}, called : FnCalls \cup {NULL}]

(* A function is wrapped once: its record has the original, and the global *)
(* of its outer wrapper leads to a record with that wrapper, this one or   *)
(* another, until MSHUTDOWN.                                               *)
WrappedOnce(s) ==
  \A f \in FnSample :
    IF s.wrapped[f]
    THEN /\ s.handler[f] = Outer(RecordOf(f).outer) /\ s.old[f] = Original(f)
         /\ s.phase # "over" => s.global[RecordOf(f).outer] # NULL
    ELSE s.handler[f] = Original(f)

GlobalsLead(s) ==
  \A o \in Outers : s.global[o] # NULL => s.wrapped[s.global[o]] /\ RecordOf(s.global[o]).outer = o

FnSound(s) == s \in FnRecords /\ WrappedOnce(s) /\ GlobalsLead(s)

FnInv == FnSound(fns) /\ FnReachesOriginal

LEMMA WrapKeepsSound ==
  ASSUME NEW s, FnSound(s), NEW f \in FnSample
  PROVE  /\ FnSound(nr_php_wrap_internal_function(s, f))
         /\ nr_php_wrap_internal_function(s, f).called = s.called
<1> DEFINE o == RecordOf(f).outer
           t == [s EXCEPT !.global[o] = f, !.old[f] = s.handler[f],
                          !.handler[f] = Outer(o), !.wrapped[f] = TRUE]
<1>1. CASE s.wrapped[f] \/ s.type[f] # "internal"
  BY <1>1 DEF nr_php_wrap_internal_function
<1>2. CASE ~(s.wrapped[f] \/ s.type[f] # "internal")
  <2>1. nr_php_wrap_internal_function(s, f) = t
    BY <1>2 DEF nr_php_wrap_internal_function
  <2>2. o \in Outers /\ Outer(o) \in Handlers /\ f # NULL
    BY FnAssumption DEF Outers, Handlers
  <2>3. s \in FnRecords /\ s.handler[f] = Original(f) /\ s.handler[f] \in Handlers
    BY <1>2 DEF FnSound, WrappedOnce, FnRecords
  <2> HIDE DEF o
  <2>4. t \in FnRecords
    BY <2>2, <2>3 DEF FnRecords
  <2>5. /\ t.phase = s.phase /\ t.called = s.called
        /\ t.wrapped = [s.wrapped EXCEPT ![f] = TRUE]
        /\ t.old = [s.old EXCEPT ![f] = Original(f)]
        /\ t.handler = [s.handler EXCEPT ![f] = Outer(o)]
        /\ t.global = [s.global EXCEPT ![o] = f]
    BY <2>3 DEF FnRecords
  <2> HIDE DEF t
  <2>6. WrappedOnce(t)
    BY <2>2, <2>3, <2>5 DEF WrappedOnce, FnSound, FnRecords, Outers, o
  <2>7. GlobalsLead(t)
    BY <2>2, <2>3, <2>5 DEF GlobalsLead, FnSound, FnRecords, Outers, o
  <2> QED
    BY <2>1, <2>4, <2>5, <2>6, <2>7 DEF FnSound
<1> QED
  BY <1>1, <1>2

LEMMA FnInitInv == FnInit => FnInv
<1> SUFFICES ASSUME NEW types \in [FnSample -> FnTypes], fns = FnStart(types) PROVE FnInv
  BY DEF FnInit
<1>1. FnTable \in Seq(FnSample) /\ Len(FnTable) \in Nat
  BY FnAssumption DEF FnSample, Range
<1>2. \A f \in FnSample : RecordOf(f).disabled \in BOOLEAN /\ Original(f) \in Handlers
  BY OuterNamesOriginal DEF Handlers
<1>3. fns \in FnRecords
  BY <1>1, <1>2 DEF FnStart, FnRecords, Outers
<1> QED
  BY <1>3 DEF FnStart, FnInv, FnSound, WrappedOnce, GlobalsLead, FnReachesOriginal, Outers

(* The loop of MINIT, and its end.                                         *)
LEMMA FnMinitInv ==
  ASSUME FnInv, FnMinit PROVE FnInv'
<1> DEFINE f == FnTable[fns.next]
           t == [fns EXCEPT !.next = @ - 1]
<1>1. fns \in FnRecords
  BY DEF FnInv, FnSound
<1>2. CASE fns.next > 0
  <2>1. fns.next \in 1..Len(FnTable)
    BY <1>1, <1>2 DEF FnRecords
  <2>2. f \in FnSample
    BY <2>1, FnAssumption DEF FnSample, Range
  <2>3. FnSound(t) /\ t.called = fns.called
    BY <1>1, <2>1 DEF FnInv, FnSound, FnRecords, WrappedOnce, GlobalsLead
  <2>4. fns' = IF ~fns.wrapped[f] /\ ~fns.off[f] THEN nr_php_wrap_internal_function(t, f) ELSE t
    BY <1>2 DEF FnMinit, nr_php_add_internal_instrumentation
  <2> HIDE DEF f, t
  <2>5. FnSound(fns') /\ fns'.called = fns.called
    BY <2>2, <2>3, <2>4, WrapKeepsSound
  <2> QED
    BY <2>5 DEF FnInv, FnReachesOriginal
<1>3. CASE ~(fns.next > 0)
  BY <1>1, <1>3 DEF FnMinit, FnInv, FnSound, FnRecords, WrappedOnce, GlobalsLead, FnReachesOriginal
<1> QED
  BY <1>2, <1>3

(* A framework switches the record of call_user_func_array on or off.      *)
LEMMA FnFrameworkInv ==
  ASSUME FnInv, FnFramework PROVE FnInv'
<1> DEFINE c == <<"", "call_user_func_array">>
<1>1. PICK callback \in {NULL, "callback"} :
        fns' = [nr_php_add_call_user_func_array_pre_callback(fns, callback) EXCEPT !.called = NULL]
  BY DEF FnFramework
<1> DEFINE t == [fns EXCEPT !.cufa = callback]
           u == [t EXCEPT !.off[c] = (callback = NULL)]
           r == nr_php_add_call_user_func_array_pre_callback(fns, callback)
<1>2. FnSound(t)
  BY DEF FnInv, FnSound, FnRecords, WrappedOnce, GlobalsLead
<1>3. FnSound(r)
  <2>1. CASE c \notin FnSample
    BY <1>2, <2>1 DEF nr_php_add_call_user_func_array_pre_callback
  <2>2. CASE c \in FnSample
    <3> HIDE DEF c, t
    <3>1. (callback = NULL) \in BOOLEAN
      OBVIOUS
    <3>2. FnSound(u)
      BY <1>2, <2>2, <3>1 DEF FnSound, FnRecords, WrappedOnce, GlobalsLead
    <3>3. r = nr_php_wrap_internal_function(u, c)
      BY <2>2 DEF nr_php_add_call_user_func_array_pre_callback, c, t
    <3> QED
      BY <2>2, <3>2, <3>3, WrapKeepsSound
  <2> QED
    BY <2>1, <2>2
<1> HIDE DEF r
<1>4. fns' = [r EXCEPT !.called = NULL]
  BY <1>1 DEF r
<1> QED
  BY <1>3, <1>4 DEF FnInv, FnSound, FnRecords, WrappedOnce, GlobalsLead, FnReachesOriginal

(* The outer wrapper a call meets has a global that leads to a record with *)
(* the same wrapper, whose old handler is the original of both.            *)
LEMMA FnCallInv ==
  ASSUME FnInv, FnCall PROVE FnInv'
<1>1. PICK f \in FnSample, recording \in BOOLEAN :
        /\ fns.phase = "running"
        /\ fns' = [fns EXCEPT !.called = nr_php_instrument_delegate(fns, f, recording)]
  BY DEF FnCall
<1> DEFINE d == nr_php_instrument_delegate(fns, f, recording)
           o == RecordOf(f).outer
           w == fns.global[o]
<1>2. fns \in FnRecords /\ WrappedOnce(fns) /\ GlobalsLead(fns) /\ o \in Outers
  BY DEF FnInv, FnSound, Outers
<1>3. d.fn = f /\ d.reached = Reaches(fns, fns.handler[f])
  BY DEF nr_php_instrument_delegate
<1>4. fns.wrapped[f] => w \in FnSample /\ w # NULL /\ fns.old[w] = Original(w) /\ o = RecordOf(w).outer
  BY <1>1, <1>2 DEF WrappedOnce, GlobalsLead, FnRecords
<1>5. Reaches(fns, fns.handler[f]) = OriginalOf(f)
  <2>1. CASE ~fns.wrapped[f]
    <3>1. fns.handler[f] = Original(f)
      BY <1>2, <2>1 DEF WrappedOnce
    <3> QED
      BY <3>1 DEF Reaches, Original
  <2>2. CASE fns.wrapped[f]
    <3>1. fns.handler[f] = Outer(o)
      BY <1>2, <2>2 DEF WrappedOnce
    <3>2. OriginalOf(w) = OriginalOf(f)
      BY <1>4, <2>2, OuterNamesOriginal
    <3>3. Original(w) # NULL
      BY <1>4, <2>2, FnAssumption
    <3> QED
      BY <1>4, <2>2, <3>1, <3>2, <3>3 DEF Reaches, Outer, Original
  <2> QED
    BY <2>1, <2>2
<1>6. d \in FnCalls
  <2>1. CASE fns.wrapped[f]
    <3>1. fns.handler[f] = Outer(o)
      BY <1>2, <2>1 DEF WrappedOnce
    <3>2. fns.handler[f].kind = "outer" /\ fns.global[fns.handler[f].of] = w
      BY <3>1 DEF Outer
    <3>3. d.counted \in FnSample \cup {NULL} /\ d.callback \in {NULL, "callback"}
      BY <1>2, <1>4, <2>1, <3>2 DEF nr_php_instrument_delegate, FnRecords
    <3>4. d = [fn |-> d.fn, reached |-> d.reached, counted |-> d.counted, callback |-> d.callback]
      BY DEF nr_php_instrument_delegate
    <3> HIDE DEF d
    <3> QED
      BY <1>3, <1>5, <3>3, <3>4 DEF FnCalls
  <2>2. CASE ~fns.wrapped[f]
    <3>1. fns.handler[f] = Original(f)
      BY <1>2, <2>2 DEF WrappedOnce
    <3> QED
      BY <1>2, <1>5, <2>2, <3>1 DEF nr_php_instrument_delegate, FnCalls, FnRecords, Original
  <2> QED
    BY <2>1, <2>2
<1> HIDE DEF d
<1>7. fns' = [fns EXCEPT !.called = d]
  BY <1>1 DEF d
<1> QED
  BY <1>2, <1>3, <1>5, <1>6, <1>7
     DEF FnInv, FnSound, FnRecords, WrappedOnce, GlobalsLead, FnReachesOriginal

(* The inductive invariant of wrapped functions.                           *)
THEOREM WrappedFunctionsInvariant == FnSpec => []FnInv
<1>1. ASSUME FnInv, [FnNext]_fnVars PROVE FnInv'
  <2>1. CASE FnMshutdown
    BY <1>1, <2>1 DEF FnMshutdown, nr_php_destroy_internal_wrap_records, FnInv, FnSound, FnRecords,
       WrappedOnce, GlobalsLead, FnReachesOriginal
  <2>2. CASE FnRequestEnd
    BY <1>1, <2>2 DEF FnRequestEnd, FnInv, FnSound, FnRecords, WrappedOnce, GlobalsLead,
       FnReachesOriginal
  <2>3. CASE UNCHANGED fnVars
    BY <1>1, <2>3 DEF fnVars, FnInv, FnSound, WrappedOnce, GlobalsLead, FnReachesOriginal
  <2> QED
    BY <1>1, <2>1, <2>2, <2>3, FnMinitInv, FnFrameworkInv, FnCallInv DEF FnNext
<1> QED
  BY <1>1, FnInitInv, PTL DEF FnSpec

(* For any table of functions, loaded, missing or disabled in any way, and *)
(* frameworks that come and go: a call reaches the original handler of its *)
(* own function, though the methods of PDO share their outer wrappers      *)
(* (nr_php_wrap_internal_function, nr_php_instrument_delegate).            *)
THEOREM CallsReachOriginals == FnSpec => []FnReachesOriginal
<1>1. FnInv => FnReachesOriginal
  BY DEF FnInv
<1> QED
  BY <1>1, WrappedFunctionsInvariant, PTL
-----------------------------------------------------------------------------
(* A request: Request, with Transaction, Headers and Rum.                  *)

(* The fields of a transaction, and the options security is about.         *)
TxnFields ==
  {"opts", "high_security", "lasp", "run", "recording", "ignore", "complete", "ignore_apdex",
   "background", "frozen", "path_type", "path", "name", "error", "metrics", "attrs",
   "custom_events", "logs", "packages", "type", "queue_start", "match_filenames", "request_uri",
   "cross_process", "cat", "synthetics", "rum_header", "rum_footer", "onetime", "span_queue",
   "composer", "dt"}
OptFields == {"recordsql", "allow_raw", "custom_events", "custom_parameters"}

IsTxn(t) == DOMAIN t = TxnFields /\ OptFields \subseteq DOMAIN t.opts

(* An attribute that is neither a custom nor a request parameter.          *)
Harmless(a) == ~IsUser(a.name) /\ ~IsParam(a.name)

(* u is bound by the settings t is bound by, and says nothing that t does  *)
(* not say and that a setting could forbid.                                *)
SaysNoMore(t, u) ==
  /\ IsTxn(u)
  /\ \A f \in OptFields : u.opts[f] = t.opts[f]
  /\ u.high_security = t.high_security /\ u.lasp = t.lasp
  /\ u.error = t.error /\ u.custom_events = t.custom_events /\ u.logs = t.logs
  /\ \A a \in u.attrs : a \in t.attrs \/ Harmless(a)

(* Moreover, what is known of the page stays.                              *)
Keeps(t, u) ==
  SaysNoMore(t, u) /\ u.rum_header = t.rum_header /\ u.rum_footer = t.rum_footer

(* The fields that a function which keeps leaves alone.                    *)
Protected == {"opts", "high_security", "lasp", "error", "custom_events", "logs", "attrs", "rum_header", "rum_footer"}

(* Keeping is transitive.                                                  *)
LEMMA KeepsTrans == 
  ASSUME NEW t, NEW u, NEW v, Keeps(t, u), Keeps(u, v) PROVE Keeps(t, v)
  BY DEF Keeps, SaysNoMore

(* A transaction keeps itself.                                             *)
LEMMA KeepsSelf == ASSUME NEW t, IsTxn(t) PROVE Keeps(t, t)
  BY DEF Keeps, SaysNoMore

(* A function that touches no protected field keeps.                       *)
LEMMA KeepsOther ==
  ASSUME NEW t, IsTxn(t), NEW u, DOMAIN u = TxnFields, \A f \in Protected : u[f] = t[f]
  PROVE Keeps(t, u)
<1>1. /\ u.opts = t.opts /\ u.high_security = t.high_security /\ u.lasp = t.lasp /\ u.error = t.error
      /\ u.custom_events = t.custom_events /\ u.logs = t.logs /\ u.attrs = t.attrs
      /\ u.rum_header = t.rum_header /\ u.rum_footer = t.rum_footer
  BY DEF Protected
<1> QED BY <1>1 DEF Keeps, SaysNoMore, IsTxn

(* One unprotected field is set.                                           *)
LEMMA KeepsField ==
  ASSUME NEW t, IsTxn(t), NEW k \in TxnFields \ Protected, NEW e PROVE Keeps(t, [t EXCEPT ![k] = e])
<1>1. Protected \subseteq TxnFields BY DEF Protected, TxnFields
<1> QED
  BY <1>1, KeepsOther DEF IsTxn

(* The fields the functions below set.                                     *)
LEMMA SmallFields == {"run", "recording", "ignore", "complete", "ignore_apdex", "background", "frozen", "path_type",
   "path", "name", "metrics", "packages", "type", "queue_start", "match_filenames", "request_uri", "cross_process",
   "cat", "synthetics", "onetime", "dt"} \subseteq TxnFields \ Protected
  BY DEF TxnFields, Protected

(* Metrics are added.                                                      *)
LEMMA KeepsMetrics == ASSUME NEW t, IsTxn(t), NEW S PROVE Keeps(t, AddMetrics(t, S))
  BY KeepsField, SmallFields DEF AddMetrics

(* A metric is counted.                                                    *)
LEMMA KeepsCount == ASSUME NEW t, IsTxn(t), NEW m PROVE Keeps(t, nr_txn_force_single_count(t, m))
  BY KeepsField, SmallFields DEF nr_txn_force_single_count

(* Two unprotected fields are set.                                         *)
LEMMA KeepsTwo ==
  ASSUME NEW t, IsTxn(t), NEW k \in TxnFields \ Protected, NEW e, NEW l \in TxnFields \ Protected, NEW d
  PROVE Keeps(t, [t EXCEPT ![k] = e, ![l] = d])
<1>1. Protected \subseteq TxnFields BY DEF Protected, TxnFields
<1> QED
  BY <1>1, KeepsOther DEF IsTxn

(* nr_txn_set_path keeps.                                                  *)
LEMMA KeepsPath == ASSUME NEW t, IsTxn(t), NEW path, NEW ptype, NEW ok
 PROVE Keeps(t, nr_txn_set_path(t, path, ptype, ok))
 <1>1. Keeps(t, t) BY KeepsSelf
 <1>2. Keeps(t, [t EXCEPT !.path_type = ptype, !.path = path])
   BY KeepsTwo, SmallFields
 <1> QED
 BY <1>1, <1>2 DEF nr_txn_set_path

(* So do the other two ways to a name.                                     *)
LEMMA KeepsNaming == ASSUME NEW t, IsTxn(t), NEW path
 PROVE /\ Keeps(t, nr_txn_name_from_function(t, path))
       /\ Keeps(t, nr_txn_match_file(t, path))
       /\ Keeps(t, nr_txn_add_file_naming_pattern(t, path))
 <1>1. Keeps(t, t) BY KeepsSelf
 <1>2. Keeps(t, [t EXCEPT !.match_filenames = @ \union {path}])
   BY KeepsField, SmallFields
 <1> QED
 BY <1>1, <1>2, KeepsPath DEF nr_txn_name_from_function, nr_txn_match_file, nr_txn_add_file_naming_pattern

(* newrelic_background_job keeps.                                          *)
LEMMA KeepsBackground == ASSUME NEW t, IsTxn(t), NEW b
 PROVE Keeps(t, nr_txn_change_background_status(t, b))
 BY KeepsField, SmallFields, KeepsCount DEF nr_txn_change_background_status

(* newrelic_ignore_transaction keeps.                                      *)
LEMMA KeepsIgnore == ASSUME NEW t, IsTxn(t)
 PROVE Keeps(t, nr_txn_ignore(t))
 BY KeepsTwo, SmallFields DEF nr_txn_ignore

(* nr_txn_freeze_name_update_apdex keeps, whatever the rules do.           *)
LEMMA KeepsFreeze == ASSUME NEW t, IsTxn(t), NEW app
 PROVE Keeps(t, nr_txn_freeze_name_update_apdex(t, app).t)
<1> DEFINE  frozen  == [t EXCEPT !.frozen = TRUE]
      ruled   == IF t.path # NULL /\ nr_txn_should_do_url_rules(t.path_type, t.background)
                 THEN nr_txn_apply_url_rules(frozen, app.url_rules) ELSE frozen
      name == [ruled EXCEPT !.name = FullName(ruled)]
      named   == nr_txn_apply_txn_rules(name, app.txn_rules)
      terms == nr_txn_apply_segment_terms(named, app.terms)
      whole   == nr_txn_update_apdex_if_key_txn(terms, app.key_apdex)
<1>0. \A u, v, w : Keeps(u, v) => IsTxn(v) /\ (Keeps(v, w) => Keeps(u, w))
  BY KeepsTrans DEF Keeps, SaysNoMore
<1>1. Keeps(t, frozen) /\ Keeps(t, t)
  BY KeepsField, KeepsSelf, SmallFields
<1>2. ASSUME NEW u, IsTxn(u), NEW r PROVE Keeps(u, nr_txn_apply_url_rules(u, r))
  BY <1>2, KeepsField, KeepsSelf, SmallFields DEF nr_txn_apply_url_rules
<1>3. ASSUME NEW u, IsTxn(u), NEW r PROVE Keeps(u, nr_txn_apply_txn_rules(u, r))
  BY <1>3, KeepsField, KeepsSelf, SmallFields DEF nr_txn_apply_txn_rules
<1>4. ASSUME NEW u, IsTxn(u), NEW r PROVE Keeps(u, nr_txn_apply_segment_terms(u, r))
  BY <1>4, KeepsField, KeepsSelf, SmallFields DEF nr_txn_apply_segment_terms
<1>5. ASSUME NEW u, IsTxn(u), NEW r PROVE Keeps(u, nr_txn_update_apdex_if_key_txn(u, r))
  BY <1>5, KeepsSelf DEF nr_txn_update_apdex_if_key_txn, Keeps, SaysNoMore, IsTxn, OptFields, TxnFields
<1>6. Keeps(t, ruled)
  <2> HIDE DEF frozen
  <2> QED BY <1>0, <1>1, <1>2
<1> HIDE DEF ruled
<1>7. Keeps(t, name)
  BY <1>0, <1>6, KeepsField, SmallFields
<1> HIDE DEF name
<1>8. Keeps(t, named)
  BY <1>0, <1>7, <1>3
<1> HIDE DEF named
<1>9. Keeps(t, terms)
  BY <1>0, <1>8, <1>4
<1> HIDE DEF terms
<1>10. Keeps(t, whole)
  BY <1>0, <1>9, <1>5
<1> HIDE DEF whole
<1>11. nr_txn_freeze_name_update_apdex(t, app).t \in {t, frozen, ruled, named, whole}
  BY DEF nr_txn_freeze_name_update_apdex, ruled, name, named, terms, whole
<1> HIDE DEF frozen
<1> QED
  BY <1>1, <1>6, <1>8, <1>10, <1>11

(* What a page consists of when the browser has it, and where in it.       *)
PageItems == HtmlItems \cup {"RUM_header", "RUM_footer"}

(* What is at each place after one piece was put in.                       *)
LEMMA InsertAtFacts ==
  ASSUME NEW S, NEW s \in Seq(S), NEW e \in S, NEW i \in 1..(Len(s) + 1)
  PROVE  /\ InsertAt(s, i, e) \in Seq(S) /\ Len(InsertAt(s, i, e)) = Len(s) + 1
         /\ \A k \in 1..(Len(s) + 1) :
              InsertAt(s, i, e)[k] = IF k < i THEN s[k] ELSE IF k = i THEN e ELSE s[k - 1]
<1> DEFINE a == SubSeq(s, 1, i - 1)
           b == SubSeq(s, i, Len(s))
           r == a \o <<e>> \o b
<1>0. Len(s) \in Nat /\ i \in Nat
  OBVIOUS
<1>1. a \in Seq(S) /\ Len(a) = i - 1 /\ \A k \in 1..(i - 1) : a[k] = s[k]
  OBVIOUS
<1>2. b \in Seq(S) /\ Len(b) = Len(s) - i + 1 /\ \A k \in 1..(Len(s) - i + 1) : b[k] = s[i + k - 1]
  OBVIOUS
<1>3. InsertAt(s, i, e) = r
  BY DEF InsertAt
<1> HIDE DEF a, b
<1> DEFINE c == a \o <<e>>
<1>4. c \in Seq(S) /\ Len(c) = i /\ c[i] = e /\ \A k \in 1..(i - 1) : c[k] = s[k]
  BY <1>0, <1>1
<1>5. r = c \o b
  OBVIOUS
<1> HIDE DEF c, r
<1>6. r \in Seq(S) /\ Len(r) = Len(s) + 1
  BY <1>0, <1>2, <1>4, <1>5
<1>7. ASSUME NEW k \in 1..(Len(s) + 1)
      PROVE r[k] = IF k < i THEN s[k] ELSE IF k = i THEN e ELSE s[k - 1]
  <2>1. CASE k <= i
    <3>1. r[k] = c[k]
      BY <1>0, <1>2, <1>4, <1>5, <2>1
    <3> QED
      BY <1>0, <1>4, <2>1, <3>1
  <2>2. CASE k > i
    <3>1. k - i \in 1..(Len(s) - i + 1) /\ i + (k - i) - 1 = k - 1
      BY <1>0, <2>2
    <3>2. r[k] = b[k - i]
      BY <1>0, <1>2, <1>4, <1>5, <2>2
    <3>3. b[k - i] = s[i + (k - i) - 1]
      BY <1>2, <3>1
    <3> QED
      BY <1>0, <2>2, <3>1, <3>2, <3>3
  <2> QED
    BY <1>0, <2>1, <2>2
<1> QED
  BY <1>3, <1>6, <1>7

(* The places of an item.                                                  *)
At(page, item) == {i \in DOMAIN page : page[i] = item}

(* Two pieces put into a buffer: each is there once, where it was put.     *)
LEMMA InsertFacts ==
  ASSUME NEW output \in Seq(HtmlItems), NEW hpos, NEW fpos, NEW header, NEW footer,
         NULL \notin Nat,
         hpos # NULL => hpos \in 0..Len(output) /\ header = "RUM_header",
         fpos # NULL => fpos \in 0..Len(output) /\ footer = "RUM_footer",
         hpos # NULL /\ fpos # NULL => hpos <= fpos
  PROVE  /\ Insert(output, hpos, header, fpos, footer) \in Seq(PageItems)
         /\ At(Insert(output, hpos, header, fpos, footer), "RUM_header")
              = IF hpos = NULL THEN {} ELSE {hpos + 1}
         /\ At(Insert(output, hpos, header, fpos, footer), "RUM_footer")
              = IF fpos = NULL THEN {} ELSE {IF hpos = NULL THEN fpos + 1 ELSE fpos + 2}
<1> DEFINE with == IF fpos = NULL THEN output ELSE InsertAt(output, fpos + 1, footer)
           p == Insert(output, hpos, header, fpos, footer)
<1>1. /\ output \in Seq(PageItems) /\ Len(output) \in Nat
      /\ At(output, "RUM_header") = {} /\ At(output, "RUM_footer") = {}
      /\ DOMAIN output = 1..Len(output)
  <2>1. \A i \in 1..Len(output) : output[i] \in HtmlItems
    OBVIOUS
  <2>2. "RUM_header" \notin HtmlItems /\ "RUM_footer" \notin HtmlItems
    BY DEF HtmlItems
  <2>3. output \in Seq(PageItems) /\ DOMAIN output = 1..Len(output)
    BY DEF PageItems
  <2> QED
    BY <2>1, <2>2, <2>3 DEF At
<1>2. /\ with \in Seq(PageItems) /\ DOMAIN with = 1..Len(with)
      /\ Len(with) = IF fpos = NULL THEN Len(output) ELSE Len(output) + 1
      /\ At(with, "RUM_header") = {}
      /\ At(with, "RUM_footer") = IF fpos = NULL THEN {} ELSE {fpos + 1}
  <2>1. CASE fpos = NULL
    BY <1>1, <2>1
  <2>2. CASE fpos # NULL
    <3>1. fpos + 1 \in 1..(Len(output) + 1) /\ fpos \in Nat /\ footer \in PageItems /\ footer # "RUM_header"
      BY <1>1, <2>2 DEF PageItems
    <3>2. /\ with \in Seq(PageItems) /\ Len(with) = Len(output) + 1
          /\ \A k \in 1..(Len(output) + 1) :
               with[k] = IF k < fpos + 1 THEN output[k] ELSE IF k = fpos + 1 THEN footer ELSE output[k - 1]
      BY <1>1, <2>2, <3>1, InsertAtFacts
    <3> HIDE DEF with
    <3>3. DOMAIN with = 1..(Len(output) + 1)
      BY <3>2
    <3>4. ASSUME NEW k \in 1..(Len(output) + 1)
          PROVE with[k] # "RUM_header" /\ (with[k] = "RUM_footer" <=> k = fpos + 1)
      <4>1. \A j \in 1..Len(output) : output[j] # "RUM_header" /\ output[j] # "RUM_footer"
        BY <1>1 DEF At
      <4>2. CASE k < fpos + 1
        BY <1>1, <2>2, <3>1, <3>2, <4>1, <4>2
      <4>3. CASE k = fpos + 1
        BY <2>2, <3>1, <3>2, <4>3
      <4>4. CASE k > fpos + 1
        <5>1. k - 1 \in 1..Len(output)
          BY <1>1, <3>1, <4>4
        <5> QED
          BY <1>1, <3>1, <3>2, <4>1, <4>4, <5>1
      <4> QED
        BY <3>1, <4>2, <4>3, <4>4
    <3> QED
      BY <2>2, <3>1, <3>2, <3>3, <3>4 DEF At
  <2> QED
    BY <2>1, <2>2
<1> HIDE DEF with
<1>3. CASE hpos = NULL
  <2>1. p = with
    BY <1>3 DEF Insert, with
  <2> QED
    BY <1>2, <1>3, <2>1
<1>4. CASE hpos # NULL
  <2>1. p = InsertAt(with, hpos + 1, header)
    BY <1>4 DEF Insert, with
  <2>2. hpos \in Nat /\ hpos + 1 \in 1..(Len(with) + 1) /\ Len(with) \in Nat /\ header = "RUM_header" /\ header \in PageItems
    BY <1>1, <1>2, <1>4 DEF PageItems
  <2>3. /\ p \in Seq(PageItems) /\ Len(p) = Len(with) + 1
        /\ \A k \in 1..(Len(with) + 1) :
             p[k] = IF k < hpos + 1 THEN with[k] ELSE IF k = hpos + 1 THEN header ELSE with[k - 1]
    <3> HIDE DEF p
    <3> DEFINE q == hpos + 1
    <3>1. with \in Seq(PageItems) /\ q \in 1..(Len(with) + 1) /\ header \in PageItems
      BY <1>2, <2>2
    <3> HIDE DEF q
    <3>2. /\ InsertAt(with, q, header) \in Seq(PageItems)
          /\ Len(InsertAt(with, q, header)) = Len(with) + 1
          /\ \A k \in 1..(Len(with) + 1) : InsertAt(with, q, header)[k] =
               IF k < q THEN with[k] ELSE IF k = q THEN header ELSE with[k - 1]
      BY <3>1, InsertAtFacts
    <3> QED
      BY <2>1, <3>2 DEF q
  <2>4. DOMAIN p = 1..(Len(with) + 1)
    BY <2>3
  <2> HIDE DEF p
  <2>5. \A j \in 1..Len(with) : with[j] # "RUM_header" /\ (with[j] = "RUM_footer" <=> fpos # NULL /\ j = fpos + 1)
    BY <1>2 DEF At
  <2>6. ASSUME NEW k \in 1..(Len(with) + 1)
        PROVE  /\ p[k] = "RUM_header" <=> k = hpos + 1
               /\ p[k] = "RUM_footer" <=> fpos # NULL /\ k = fpos + 2
    <3>1. fpos # NULL => fpos \in Nat /\ hpos <= fpos
      BY <1>4
    <3>2. CASE k < hpos + 1
      BY <2>2, <2>3, <2>5, <3>1, <3>2
    <3>3. CASE k = hpos + 1
      BY <2>2, <2>3, <3>1, <3>3
    <3>4. CASE k > hpos + 1
      <4>1. k - 1 \in 1..Len(with) /\ p[k] = with[k - 1]
        BY <2>2, <2>3, <3>4
      <4> QED
        BY <2>2, <2>5, <3>1, <3>4, <4>1
    <3> QED
      BY <2>2, <3>2, <3>3, <3>4
  <2>7. fpos # NULL => fpos \in Nat /\ fpos + 2 \in 1..(Len(with) + 1)
    BY <1>1, <1>2
  <2>8. At(p, "RUM_header") = {hpos + 1}
    BY <2>2, <2>4, <2>6 DEF At
  <2>9. At(p, "RUM_footer") = IF fpos = NULL THEN {} ELSE {fpos + 2}
    BY <2>4, <2>6, <2>7 DEF At
  <2> QED
    BY <1>4, <2>3, <2>8, <2>9 DEF p
<1> QED
  BY <1>3, <1>4

(* One step of a chain of functions that keep.                             *)
LEMMA KeepsThen == ASSUME NEW t, NEW u, NEW v, Keeps(t, u) PROVE IsTxn(u) /\ (Keeps(u, v) => Keeps(t, v))
  BY KeepsTrans DEF Keeps, SaysNoMore

(* An attribute of the agent is no parameter of anybody.                   *)
LEMMA KeepsAttribute ==
  ASSUME NEW t, IsTxn(t), NEW name, NEW value PROVE Keeps(t, nr_txn_set_attribute(t, name, value))
<1> DEFINE a == [name |-> <<name>>, dests |-> AttributeDestinations[name]]
           u == [t EXCEPT !.attrs = @ \union {a}]
<1>1. Harmless(a)
  BY DEF Harmless, IsUser, IsParam
<1> HIDE DEF a
<1>2. /\ DOMAIN u = DOMAIN t /\ u.attrs = t.attrs \union {a}
      /\ u.opts = t.opts /\ u.high_security = t.high_security /\ u.lasp = t.lasp /\ u.error = t.error
      /\ u.custom_events = t.custom_events /\ u.logs = t.logs
      /\ u.rum_header = t.rum_header /\ u.rum_footer = t.rum_footer
  BY DEF IsTxn, TxnFields
<1> HIDE DEF u
<1>3. Keeps(t, u)
  BY <1>1, <1>2 DEF Keeps, SaysNoMore, IsTxn
<1> QED
  BY <1>3, KeepsSelf DEF nr_txn_set_attribute, u, a

(* What is taken from $_SERVER and the response keeps.                     *)
LEMMA KeepsRequestData ==
  ASSUME NEW t, IsTxn(t), NEW x, NEW y
  PROVE  /\ Keeps(t, nr_txn_set_request_uri(t, x))
         /\ Keeps(t, nr_txn_set_http_status(t, x))
         /\ Keeps(t, nr_txn_set_request_headers(t, x, y))
         /\ Keeps(t, nr_txn_set_queue_start(t, x))
         /\ Keeps(t, nr_php_gather_global_params(t, x))
         /\ Keeps(t, nr_php_txn_set_response_header_attributes(t, x))
<1>0. Keeps(t, t)
  BY KeepsSelf
<1>1. Keeps(t, nr_txn_set_request_uri(t, x))
  <2> DEFINE u == [t EXCEPT !.request_uri = x]
  <2>1. Keeps(t, u)
    BY KeepsField, SmallFields
  <2> HIDE DEF u
  <2>2. Keeps(u, nr_txn_set_attribute(u, "request_uri", x))
    BY <2>1, KeepsThen, KeepsAttribute
  <2> QED
    BY <1>0, <2>1, <2>2, KeepsThen DEF nr_txn_set_request_uri, u
<1>2. Keeps(t, nr_txn_set_http_status(t, x))
  BY <1>0, KeepsAttribute DEF nr_txn_set_http_status
<1>3. ASSUME NEW r, NEW c PROVE Keeps(t, nr_txn_set_request_headers(t, r, c))
  <2> DEFINE u == nr_txn_set_attribute(t, "request_referer", r)
  <2>1. Keeps(t, u)
    BY KeepsAttribute
  <2> HIDE DEF u
  <2>2. Keeps(u, nr_txn_set_attribute(u, "request_headers", c))
    BY <2>1, KeepsThen, KeepsAttribute
  <2> QED
    BY <2>1, <2>2, KeepsThen DEF nr_txn_set_request_headers, u
<1>4. Keeps(t, nr_txn_set_queue_start(t, x))
  BY <1>0, KeepsField, SmallFields DEF nr_txn_set_queue_start
<1>5. Keeps(t, nr_php_gather_global_params(t, x))
  <2> DEFINE u == nr_txn_set_request_headers(t, x.referer, x.content_length)
             v == nr_txn_set_attribute(u, "user_agent", x.user_agent)
             w == nr_txn_set_attribute(v, "server_name", x.server_name)
  <2>1. Keeps(t, u)
    BY <1>3
  <2> HIDE DEF u
  <2>2. Keeps(t, v)
    BY <2>1, KeepsThen, KeepsAttribute
  <2> HIDE DEF v
  <2>3. Keeps(t, w)
    BY <2>2, KeepsThen, KeepsAttribute
  <2> QED
    BY <2>3 DEF nr_php_gather_global_params, u, v
<1>6. Keeps(t, nr_php_txn_set_response_header_attributes(t, x))
  BY <1>0, KeepsAttribute DEF nr_php_txn_set_response_header_attributes
<1> QED
  BY <1>1, <1>2, <1>3, <1>4, <1>5, <1>6

(* An inbound trace of either kind keeps.                                  *)
LEMMA KeepsTrace ==
  ASSUME NEW t, IsTxn(t), NEW app, NEW server PROVE Keeps(t, AcceptInbound(t, app, server))
<1>0. Keeps(t, t)
  BY KeepsSelf
<1>1. ASSUME NEW h, NEW tr PROVE Keeps(t, nr_txn_accept_new_relic_header(t, app, h, tr).t)
  <2>1. Keeps(t, [t EXCEPT !.dt = nr_distributed_trace_accept_inbound_payload(@, h, tr)])
    BY KeepsField, SmallFields
  <2> QED
    BY <2>1, KeepsCount DEF nr_txn_accept_new_relic_header
<1>2. ASSUME NEW p, NEW s, NEW tr PROVE Keeps(t, nr_txn_accept_w3c_trace_context_headers(t, app, p, s, tr).t)
  <2> DEFINE state == nr_distributed_trace_convert_w3c_headers_tracestate(s, app.trusted_key)
             counted == IF state.error = "" THEN t ELSE nr_txn_force_single_count(t, state.error)
             dt == nr_distributed_trace_accept_inbound_w3c_payload(t.dt, p, state, tr)
             final == nr_distributed_trace_handle_inbound_w3c_sampled_flag(
                        dt, p, t.opts.parent_sampled, t.opts.parent_not_sampled)
             u == [counted EXCEPT !.dt = final]
             v == nr_txn_force_single_count(u, "TraceContext/Accept/Success")
  <2>0. nr_txn_accept_w3c_trace_context_headers(t, app, p, s, tr).t
          \in {nr_txn_force_single_count(t, "TraceContext/TraceParent/Parse/Exception"), v}
    BY DEF nr_txn_accept_w3c_trace_context_headers
  <2> HIDE DEF state, final
  <2>1. Keeps(t, counted)
    BY <1>0, KeepsCount
  <2> HIDE DEF counted
  <2>2. Keeps(t, u)
    BY <2>1, KeepsThen, KeepsField, SmallFields
  <2> HIDE DEF u
  <2>3. Keeps(t, v)
    BY <2>2, KeepsThen, KeepsCount
  <2> HIDE DEF v
  <2> QED
    BY <2>0, <2>3, KeepsCount
<1>3. ASSUME NEW h, NEW tr PROVE Keeps(t, nr_txn_accept_distributed_trace_payload(t, app, h, tr))
  <2> DEFINE a == IF h.traceparent # NULL
                  THEN nr_txn_accept_w3c_trace_context_headers(t, app, h.traceparent, h.tracestate, tr)
                  ELSE nr_txn_accept_new_relic_header(t, app, h.newrelic, tr)
             ty == IF tr = NULL THEN (IF t.background THEN "Unknown" ELSE "HTTP") ELSE tr
             u == [a.t EXCEPT !.dt = nr_distributed_trace_inbound_set_transport_type(@, ty),
                              !.type = @ \union {"DT_INBOUND"}]
             v == nr_txn_force_single_count(u, "AcceptPayload/Success")
             w == nr_txn_create_dt_metrics(v, "TransportDuration")
  <2>0. nr_txn_accept_distributed_trace_payload(t, app, h, tr)
          \in {nr_txn_force_single_count(t, "AcceptPayload/Exception"),
               nr_txn_force_single_count(t, "AcceptPayload/Ignored/Multiple"),
               nr_txn_force_single_count(t, "AcceptPayload/Ignored/CreateBeforeAccept"), a.t, w}
    BY DEF nr_txn_accept_distributed_trace_payload
  <2>1. Keeps(t, a.t)
    BY <1>1, <1>2
  <2> HIDE DEF a, ty
  <2>2. Keeps(t, u)
    <3>1. IsTxn(a.t)
      BY <2>1, KeepsThen
    <3>2. Keeps(a.t, u)
      BY <3>1, KeepsTwo, SmallFields
    <3> QED
      BY <2>1, <3>2, KeepsThen
  <2> HIDE DEF u
  <2>3. Keeps(t, v)
    BY <2>2, KeepsThen, KeepsCount
  <2> HIDE DEF v
  <2>4. Keeps(t, w)
    BY <2>3, KeepsThen, KeepsMetrics DEF nr_txn_create_dt_metrics
  <2> HIDE DEF w
  <2> QED
    BY <2>0, <2>1, <2>4, KeepsCount
<1>4. ASSUME NEW h PROVE Keeps(t, nr_txn_accept_distributed_trace_payload_httpsafe(t, app, h, "HTTP"))
  BY <1>0, <1>3, KeepsCount DEF nr_txn_accept_distributed_trace_payload_httpsafe
<1>5. ASSUME NEW x, NEW y PROVE Keeps(t, nr_header_set_cat_txn(t, app, x, y).t)
  <2> DEFINE u == [t EXCEPT !.cat.client = nr_header_decode(app, x)]
  <2>1. Keeps(t, u)
    BY KeepsField, SmallFields
  <2>2. nr_header_set_cat_txn(t, app, x, y).t
          \in {t, u, nr_header_process_x_newrelic_transaction(u, nr_header_decode(app, y)).t}
    BY DEF nr_header_set_cat_txn
  <2> HIDE DEF u
  <2>3. ASSUME NEW f PROVE Keeps(u, nr_header_process_x_newrelic_transaction(u, f).t)
    <3>1. IsTxn(u) /\ Keeps(u, u)
      BY <2>1, KeepsThen, KeepsSelf
    <3> QED
      BY <3>1, KeepsTwo, SmallFields DEF nr_header_process_x_newrelic_transaction
  <2> QED
    BY <1>0, <2>1, <2>2, <2>3, KeepsThen
<1> QED
  BY <1>0, <1>4, <1>5 DEF AcceptInbound

(* nr_header_set_synthetics_txn keeps.                                     *)
LEMMA KeepsSynthetics ==
  ASSUME NEW t, IsTxn(t), NEW app, NEW h PROVE Keeps(t, nr_header_set_synthetics_txn(t, app, h))
<1>1. Keeps(t, [t EXCEPT !.synthetics = nr_header_inbound_synthetics(app, h), !.type = @ \union {"SYNTHETICS"}])
  BY KeepsTwo, SmallFields
<1> QED
  BY <1>1, KeepsSelf DEF nr_header_set_synthetics_txn

(* The response header of CAT keeps.                                       *)
LEMMA KeepsResponse ==
  ASSUME NEW t, IsTxn(t), NEW app, NEW start PROVE Keeps(t, nr_header_inbound_response(t, app, start).t)
<1> DEFINE f == nr_txn_freeze_name_update_apdex(t, app).t
           u == AddMetrics(f, {<<"ClientApplication", t.cat.client>>})
           v == [u EXCEPT !.cross_process = "RESPONSE_CREATED"]
<1>1. Keeps(t, f)
  BY KeepsFreeze
<1>2. nr_header_inbound_response(t, app, start).t \in {t, f, v}
  BY DEF nr_header_inbound_response, nr_header_inbound_response_internal
<1> HIDE DEF f
<1>3. Keeps(t, u)
  BY <1>1, KeepsThen, KeepsMetrics
<1> HIDE DEF u
<1>4. Keeps(t, v)
  BY <1>3, KeepsThen, KeepsField, SmallFields
<1> QED
  BY <1>1, <1>2, <1>4, KeepsSelf

(* A set of numbers has a least member.                                    *)
LEMMA LeastNumber ==
  ASSUME NEW S \in SUBSET Nat, S # {} PROVE \E x \in S : \A y \in S : x <= y
<1>1. PICK x \in S : \A y \in S : ~(<<y, x>> \in OpToRel(<, Nat))
  BY NatLessThanWellFounded, WFMin
<1>2. ASSUME NEW y \in S PROVE x <= y
  <2>1. x \in Nat /\ y \in Nat
    OBVIOUS
  <2>2. <<y, x>> \in OpToRel(<, Nat) <=> y < x
    <3> DEFINE p == <<y, x>>
    <3>1. p \in Nat \X Nat /\ p[1] = y /\ p[2] = x
      BY <2>1
    <3> HIDE DEF p
    <3>2. p \in OpToRel(<, Nat) <=> p[1] < p[2]
      BY <3>1 DEF OpToRel
    <3> QED
      BY <3>1, <3>2 DEF p
  <2>3. ~(<<y, x>> \in OpToRel(<, Nat))
    BY <1>1
  <2>4. ~(y < x)
    BY <2>2, <2>3
  <2> QED
    BY <2>1, <2>4
<1> QED
  BY <1>2

(* The place of the first tag of a kind, 0 for none.                       *)
LEMMA FirstFacts ==
  ASSUME NEW output \in Seq(HtmlItems), NEW item PROVE First(output, item) \in 0..Len(output)
<1> DEFINE at == {i \in DOMAIN output : output[i] = item}
<1>1. at \subseteq 1..Len(output) /\ Len(output) \in Nat
  OBVIOUS
<1>2. CASE at = {}
  BY <1>1, <1>2 DEF First
<1>3. CASE at # {}
  <2>0. at \in SUBSET Nat
    BY <1>1
  <2>1. \E i \in at : \A j \in at : i <= j
    <3> HIDE DEF at
    <3> QED BY <1>3, <2>0, LeastNumber
  <2>2. First(output, item) = CHOOSE i \in at : \A j \in at : i <= j
    BY <1>3 DEF First
  <2> HIDE DEF at
  <2>3. First(output, item) \in at
    BY <2>1, <2>2
  <2>4. First(output, item) \in 1..Len(output)
    BY <1>1, <2>3
  <2> QED
    BY <1>1, <2>4
<1> QED
  BY <1>2, <1>3

(* Both scans find a place in the buffer, or none.                         *)
LEMMA ScanFacts ==
  ASSUME NEW output \in Seq(HtmlItems)
  PROVE  /\ nr_rum_scan_html_for_head(output) \in {NULL} \union (0..Len(output))
         /\ nr_rum_scan_html_for_foot(output) \in {NULL} \union (0..Len(output))
<1>0. Len(output) \in Nat
  OBVIOUS
<1>1. nr_rum_scan_html_for_head(output) \in {NULL} \union (0..Len(output))
  <2> DEFINE ua == First(output, "ua")      charset == First(output, "charset")
             head == First(output, "head")  body == First(output, "body")
  <2>1. /\ ua \in 0..Len(output) /\ charset \in 0..Len(output)
        /\ head \in 0..Len(output) /\ body \in 0..Len(output)
    BY FirstFacts
  <2>2. nr_rum_scan_html_for_head(output) =
          CASE ua + charset > 0 -> IF ua > charset THEN ua ELSE charset
            [] ua + charset = 0 /\ head > 0 -> head
            [] ua + charset + head = 0 /\ body > 0 -> body - 1
            [] OTHER -> NULL
    BY DEF nr_rum_scan_html_for_head
  <2> HIDE DEF ua, charset, head, body
  <2> QED
    BY <1>0, <2>1, <2>2
<1>2. nr_rum_scan_html_for_foot(output) \in {NULL} \union (0..Len(output))
  <2> DEFINE at == {i \in DOMAIN output : output[i] = "/body"}
             n == Len(output)
             rest == {n - i : i \in at}
  <2>1. at \subseteq 1..n
    OBVIOUS
  <2>2. CASE at = {}
    BY <2>2 DEF nr_rum_scan_html_for_foot
  <2>3. CASE at # {}
    <3>1. nr_rum_scan_html_for_foot(output) = (CHOOSE i \in at : \A j \in at : j <= i) - 1
      BY <2>3 DEF nr_rum_scan_html_for_foot
    <3> HIDE DEF at
    <3>2. \E i \in at : \A j \in at : j <= i
      <4>1. rest \in SUBSET Nat /\ rest # {}
        <5>1. \A i \in at : i \in 1..n /\ n - i \in Nat
          BY <1>0, <2>1
        <5> QED
          BY <2>3, <5>1
      <4>2. PICK r \in rest : \A s \in rest : r <= s
        <5> HIDE DEF rest
        <5> QED BY <4>1, LeastNumber
      <4>3. PICK i \in at : r = n - i
        OBVIOUS
      <4>4. \A j \in at : n - i <= n - j
        BY <4>2, <4>3
      <4>5. \A j \in at : j <= i
        BY <1>0, <2>1, <4>4
      <4> QED
        BY <4>5
    <3>3. (CHOOSE i \in at : \A j \in at : j <= i) \in at
      BY <3>2
    <3> DEFINE c == CHOOSE i \in at : \A j \in at : j <= i
    <3> HIDE DEF c
    <3>4. c \in 1..n
      BY <2>1, <3>3 DEF c
    <3> QED
      BY <1>0, <3>1, <3>4 DEF c
  <2> QED
    BY <2>2, <2>3
<1> QED
  BY <1>1, <1>2

(* The two pieces.                                                         *)
Marks == {"RUM_header", "RUM_footer"}

(* Each piece is in the page once at most, the footer after the loader.    *)
Lined(page) ==
  /\ \A i, j \in At(page, "RUM_header") : i = j
  /\ \A i, j \in At(page, "RUM_footer") : i = j
  /\ \A f \in At(page, "RUM_footer") : \E h \in At(page, "RUM_header") : h < f

(* The transaction knows which pieces the browser has.                     *)
Knows(page, t) ==
  /\ t.rum_header = 0 <=> At(page, "RUM_header") = {}
  /\ t.rum_footer = 0 <=> At(page, "RUM_footer") = {}

(* What is added to the page when a transaction t becomes u.               *)
Adds(t, u, out) ==
  /\ out \in Seq(PageItems) /\ IsTxn(u)
  /\ \A i, j \in At(out, "RUM_header") : i = j
  /\ \A i, j \in At(out, "RUM_footer") : i = j
  /\ At(out, "RUM_header") # {} => t.rum_header = 0
  /\ At(out, "RUM_footer") # {} => t.rum_footer = 0
  /\ u.rum_header = 0 <=> t.rum_header = 0 /\ At(out, "RUM_header") = {}
  /\ u.rum_footer = 0 <=> t.rum_footer = 0 /\ At(out, "RUM_footer") = {}
  /\ \A f \in At(out, "RUM_footer") : t.rum_header # 0 \/ \E h \in At(out, "RUM_header") : h < f

(* A page stays in order when a step adds to it what it may add.           *)
LEMMA AddsPage ==
  ASSUME NEW page \in Seq(PageItems), NEW t, NEW u, NEW out, Lined(page), Knows(page, t), Adds(t, u, out)
  PROVE  page \o out \in Seq(PageItems) /\ Lined(page \o out) /\ Knows(page \o out, u)
<1> DEFINE n == Len(page)
           all == page \o out
<1>1. /\ n \in Nat /\ out \in Seq(PageItems) /\ Len(out) \in Nat
      /\ all \in Seq(PageItems) /\ DOMAIN all = 1..(n + Len(out))
      /\ DOMAIN page = 1..n /\ DOMAIN out = 1..Len(out)
  BY DEF Adds
<1>2. \A i \in 1..n : all[i] = page[i]
  BY <1>1
<1>3. \A i \in 1..Len(out) : all[n + i] = out[i]
  BY <1>1
<1> HIDE DEF all
<1>4. ASSUME NEW m, NEW i
      PROVE  i \in At(all, m) <=> i \in At(page, m) \/ (i \in (n + 1)..(n + Len(out)) /\ i - n \in At(out, m))
  <2>1. CASE i \in 1..n
    BY <1>1, <1>2, <2>1 DEF At
  <2>2. CASE i \in (n + 1)..(n + Len(out))
    <3>1. i - n \in 1..Len(out) /\ i = n + (i - n)
      BY <1>1, <2>2
    <3>2. all[i] = out[i - n]
      BY <1>3, <3>1
    <3>3. i \notin 1..n /\ i \in 1..(n + Len(out))
      BY <1>1, <2>2
    <3> QED
      BY <1>1, <2>2, <3>1, <3>2, <3>3 DEF At
  <2>3. CASE i \notin 1..(n + Len(out))
    <3>1. i \notin 1..n /\ i \notin (n + 1)..(n + Len(out))
      BY <1>1, <2>3
    <3> QED
      BY <1>1, <2>3, <3>1 DEF At
  <2> QED
    BY <1>1, <2>1, <2>2, <2>3
<1>5. \A m : \A i \in At(page, m) : i \in 1..n
  BY <1>1 DEF At
<1>6. \A m : \A i \in At(out, m) : i \in 1..Len(out) /\ n + i \in At(all, m)
  <2> SUFFICES ASSUME NEW m, NEW i \in At(out, m) PROVE i \in 1..Len(out) /\ n + i \in At(all, m)
    OBVIOUS
  <2>1. i \in 1..Len(out)
    BY <1>1 DEF At
  <2>2. n + i \in (n + 1)..(n + Len(out)) /\ (n + i) - n = i
    BY <1>1, <2>1
  <2> QED
    BY <1>4, <2>1, <2>2
<1>7. ASSUME NEW m \in Marks PROVE At(all, m) = {} <=> At(page, m) = {} /\ At(out, m) = {}
  BY <1>4, <1>6
<1>8. ASSUME NEW m, At(page, m) # {} => At(out, m) = {}, \A i, j \in At(page, m) : i = j,
             \A i, j \in At(out, m) : i = j
      PROVE  \A i, j \in At(all, m) : i = j
  <2> SUFFICES ASSUME NEW i \in At(all, m), NEW j \in At(all, m) PROVE i = j
    OBVIOUS
  <2>1. CASE At(page, m) # {}
    BY <1>4, <1>8, <2>1
  <2>2. CASE At(page, m) = {}
    <3>1. /\ i \in (n + 1)..(n + Len(out)) /\ i - n \in At(out, m)
          /\ j \in (n + 1)..(n + Len(out)) /\ j - n \in At(out, m)
      BY <1>4, <2>2
    <3>2. i - n = j - n
      BY <1>8, <3>1
    <3> QED
      BY <1>1, <3>1, <3>2
  <2> QED
    BY <2>1, <2>2
<1>9. Lined(all)
  <2>1. \A i, j \in At(all, "RUM_header") : i = j
    BY <1>8 DEF Lined, Knows, Adds
  <2>2. \A i, j \in At(all, "RUM_footer") : i = j
    BY <1>8 DEF Lined, Knows, Adds
  <2>3. ASSUME NEW f \in At(all, "RUM_footer") PROVE \E h \in At(all, "RUM_header") : h < f
    <3>1. CASE f \in At(page, "RUM_footer")
      BY <1>4, <3>1 DEF Lined
    <3>2. CASE f \in (n + 1)..(n + Len(out)) /\ f - n \in At(out, "RUM_footer")
      <4>1. CASE t.rum_header # 0
        <5>1. PICK h \in At(page, "RUM_header") : TRUE
          BY <4>1 DEF Knows
        <5>2. h \in At(all, "RUM_header") /\ h < f
          BY <1>1, <1>4, <1>5, <3>2
        <5> QED
          BY <5>2
      <4>2. CASE t.rum_header = 0
        <5>1. PICK h \in At(out, "RUM_header") : h < f - n
          BY <3>2, <4>2 DEF Adds
        <5>2. n + h \in At(all, "RUM_header") /\ n + h < f
          BY <1>1, <1>6, <3>2, <5>1
        <5> QED
          BY <5>2
      <4> QED
        BY <4>1, <4>2
    <3> QED
      BY <1>4, <3>1, <3>2
  <2> QED
    BY <2>1, <2>2, <2>3 DEF Lined
<1>10. Knows(all, u)
  BY <1>7 DEF Knows, Adds, Marks
<1> QED
  BY <1>1, <1>9, <1>10 DEF all

(* One step of a chain of functions that say no more.                      *)
LEMMA SaysNoMoreThen ==
  ASSUME NEW t, NEW u, NEW v, SaysNoMore(t, u)
  PROVE  IsTxn(u) /\ (SaysNoMore(u, v) => SaysNoMore(t, v))
  BY DEF SaysNoMore

(* The loader: once.                                                       *)
LEMMA HeaderFacts ==
  ASSUME NEW t, IsTxn(t), NEW app, NEW autorum,
         NEW r, r = nr_rum_produce_header(t, app, autorum)
  PROVE  /\ SaysNoMore(t, r.t)
         /\ r.out = NULL \/ r.out = "RUM_header"
         /\ r.out = NULL => r.t = t
         /\ r.out # NULL => /\ t.rum_header = 0 /\ r.t.rum_header # 0
                            /\ r.t.rum_footer = t.rum_footer
<1> DEFINE u == [t EXCEPT !.rum_header = Producer(autorum)]
<1>1. /\ DOMAIN u = DOMAIN t /\ u.rum_header = Producer(autorum) /\ u.rum_footer = t.rum_footer
      /\ u.opts = t.opts /\ u.high_security = t.high_security /\ u.lasp = t.lasp
      /\ u.error = t.error /\ u.custom_events = t.custom_events /\ u.logs = t.logs
      /\ u.attrs = t.attrs
  BY DEF IsTxn, TxnFields
<1>2. Producer(autorum) # 0
  BY DEF Producer
<1>3. r = [t |-> t, out |-> NULL] \/ (r = [t |-> u, out |-> "RUM_header"] /\ t.rum_header = 0)
  BY DEF nr_rum_produce_header
<1> HIDE DEF u
<1>4. SaysNoMore(t, t) /\ SaysNoMore(t, u)
  BY <1>1 DEF SaysNoMore, IsTxn
<1> QED
  BY <1>1, <1>2, <1>3, <1>4, RequestAssumption

(* The footer: once, and after the loader.                                 *)
LEMMA FooterFacts ==
  ASSUME NEW t, IsTxn(t), NEW app, NEW autorum,
         NEW r, r = nr_rum_produce_footer(t, app, autorum)
  PROVE  /\ SaysNoMore(t, r.t)
         /\ r.out = NULL \/ r.out = "RUM_footer"
         /\ r.t.rum_header = t.rum_header
         /\ r.out = NULL => r.t.rum_footer = t.rum_footer
         /\ r.out # NULL => t.rum_header # 0 /\ t.rum_footer = 0 /\ r.t.rum_footer # 0
<1> DEFINE f == nr_txn_freeze_name_update_apdex(t, app).t
           u == [f EXCEPT !.rum_footer = Producer(autorum)]
<1>0. Keeps(t, f) /\ Keeps(t, t)
  BY KeepsFreeze, KeepsSelf
<1>3. \/ r = [t |-> t, out |-> NULL] \/ r = [t |-> f, out |-> NULL]
      \/ r = [t |-> u, out |-> "RUM_footer"] /\ t.rum_header # 0 /\ t.rum_footer = 0
  BY DEF nr_rum_produce_footer
<1> HIDE DEF f
<1>1. /\ DOMAIN u = DOMAIN f /\ u.rum_footer = Producer(autorum) /\ u.rum_header = f.rum_header
      /\ u.opts = f.opts /\ u.high_security = f.high_security /\ u.lasp = f.lasp
      /\ u.error = f.error /\ u.custom_events = f.custom_events /\ u.logs = f.logs
      /\ u.attrs = f.attrs
  BY <1>0 DEF Keeps, SaysNoMore, IsTxn, TxnFields
<1>2. Producer(autorum) # 0
  BY DEF Producer
<1> HIDE DEF u
<1>4. SaysNoMore(t, u)
  BY <1>0, <1>1 DEF Keeps, SaysNoMore, IsTxn
<1> QED
  BY <1>0, <1>1, <1>2, <1>3, <1>4, RequestAssumption DEF Keeps

(* The output handler adds what it may add, on any buffer.                 *)
LEMMA HandlerFacts ==
  ASSUME NEW t, IsTxn(t), NEW app, NEW output \in Seq(HtmlItems), NEW has_length, NEW html,
         NEW r, r = nr_php_rum_output_handler(t, app, output, has_length, html)
  PROVE  SaysNoMore(t, r.t) /\ Adds(t, r.t, r.out)
<1> DEFINE found == IF t.rum_header = 0 THEN nr_rum_scan_html_for_head(output) ELSE NULL
           header == IF found = NULL THEN [t |-> t, out |-> NULL] ELSE nr_rum_produce_header(t, app, TRUE)
           head == IF found = NULL \/ header.out = NULL THEN NULL ELSE found
           last == IF (t.rum_header # 0 \/ head # NULL) /\ t.rum_footer = 0
                   THEN nr_rum_scan_html_for_foot(output) ELSE NULL
           skip == last = NULL \/ (head # NULL /\ last < head)
           footer == IF skip THEN [t |-> header.t, out |-> NULL]
                     ELSE nr_rum_produce_footer(header.t, app, TRUE)
           pos == IF footer.out = NULL THEN NULL ELSE last
           all == Insert(output, head, header.out, pos, footer.out)
<1>1. r = [t |-> t, out |-> output] \/ r = [t |-> footer.t, out |-> all]
  <2>1. CASE found = NULL
    BY <2>1 DEF nr_php_rum_output_handler, nr_rum_output_handler_worker
  <2>2. CASE found # NULL
    BY <2>2 DEF nr_php_rum_output_handler, nr_rum_output_handler_worker
  <2> QED
    BY <2>1, <2>2
<1>2. /\ found = NULL \/ found \in 0..Len(output)
      /\ last = NULL \/ last \in 0..Len(output)
  BY ScanFacts
<1> HIDE DEF found
<1>3. /\ SaysNoMore(t, header.t)
      /\ head = NULL => header.t = t /\ header.out = NULL
      /\ head # NULL => /\ header.out = "RUM_header" /\ t.rum_header = 0
                        /\ header.t.rum_header # 0 /\ header.t.rum_footer = t.rum_footer
  <2> DEFINE h == nr_rum_produce_header(t, app, TRUE)
  <2>1. /\ SaysNoMore(t, h.t) /\ (h.out = NULL \/ h.out = "RUM_header") /\ (h.out = NULL => h.t = t)
        /\ h.out # NULL => t.rum_header = 0 /\ h.t.rum_header # 0 /\ h.t.rum_footer = t.rum_footer
    <3>1. PICK autorum : h = nr_rum_produce_header(t, app, autorum)
      BY Zenon
    <3> HIDE DEF h
    <3> QED
      BY <3>1, HeaderFacts
  <2>2. SaysNoMore(t, t)
    BY KeepsSelf DEF Keeps
  <2>3. header = IF found = NULL THEN [t |-> t, out |-> NULL] ELSE h
    OBVIOUS
  <2> HIDE DEF h, header
  <2> QED
    BY <2>1, <2>2, <2>3
<1>4. head = NULL \/ head \in 0..Len(output)
  BY <1>2
<1> HIDE DEF header, head, last
<1>5. /\ SaysNoMore(t, footer.t)
      /\ footer.t.rum_header = header.t.rum_header
      /\ footer.out = NULL => footer.t.rum_footer = header.t.rum_footer
      /\ footer.out # NULL => /\ footer.out = "RUM_footer" /\ header.t.rum_header # 0
                              /\ header.t.rum_footer = 0 /\ footer.t.rum_footer # 0 /\ ~skip
  <2> DEFINE f == nr_rum_produce_footer(header.t, app, TRUE)
  <2>1. IsTxn(header.t)
    BY <1>3, SaysNoMoreThen
  <2>2. /\ SaysNoMore(header.t, f.t) /\ (f.out = NULL \/ f.out = "RUM_footer")
        /\ f.t.rum_header = header.t.rum_header
        /\ f.out = NULL => f.t.rum_footer = header.t.rum_footer
        /\ f.out # NULL => /\ header.t.rum_header # 0 /\ header.t.rum_footer = 0
                           /\ f.t.rum_footer # 0
    <3>1. PICK autorum : f = nr_rum_produce_footer(header.t, app, autorum)
      BY Zenon
    <3> HIDE DEF f
    <3> QED
      BY <2>1, <3>1, FooterFacts
  <2>3. SaysNoMore(t, f.t)
    BY <1>3, <2>2, SaysNoMoreThen
  <2>4. footer = IF skip THEN [t |-> header.t, out |-> NULL] ELSE f
    OBVIOUS
  <2> HIDE DEF f, footer, skip
  <2> QED
    BY <1>3, <2>2, <2>3, <2>4
<1> HIDE DEF footer
<1>6. Len(output) \in Nat
  OBVIOUS
<1>7. /\ all \in Seq(PageItems)
      /\ At(all, "RUM_header") = IF head = NULL THEN {} ELSE {head + 1}
      /\ At(all, "RUM_footer") = IF pos = NULL THEN {} ELSE {IF head = NULL THEN pos + 1 ELSE pos + 2}
      /\ pos # NULL => pos \in Nat /\ ~skip
      /\ pos # NULL /\ head # NULL => head <= pos
  <2>1. pos # NULL => pos = last /\ pos \in 0..Len(output) /\ footer.out = "RUM_footer" /\ ~skip
    BY <1>2, <1>5
  <2>2. pos # NULL /\ head # NULL => head <= pos
    BY <1>4, <1>6, <2>1
  <2>3. pos # NULL => pos \in Nat
    BY <1>6, <2>1
  <2> HIDE DEF pos, skip
  <2>4. head # NULL => head \in 0..Len(output) /\ header.out = "RUM_header"
    BY <1>3, <1>4
  <2>5. /\ all \in Seq(PageItems)
        /\ At(all, "RUM_header") = IF head = NULL THEN {} ELSE {head + 1}
        /\ At(all, "RUM_footer") = IF pos = NULL THEN {} ELSE {IF head = NULL THEN pos + 1 ELSE pos + 2}
    <3> DEFINE ho == header.out
               fo == footer.out
    <3>1. /\ head # NULL => head \in 0..Len(output) /\ ho = "RUM_header"
          /\ pos # NULL => pos \in 0..Len(output) /\ fo = "RUM_footer"
          /\ head # NULL /\ pos # NULL => head <= pos
      BY <2>1, <2>2, <2>4
    <3>2. all = Insert(output, head, ho, pos, fo)
      OBVIOUS
    <3> HIDE DEF all, ho, fo
    <3>3. NULL \notin Nat
      BY RequestAssumption
    <3>4. /\ Insert(output, head, ho, pos, fo) \in Seq(PageItems)
          /\ At(Insert(output, head, ho, pos, fo), "RUM_header")
               = IF head = NULL THEN {} ELSE {head + 1}
          /\ At(Insert(output, head, ho, pos, fo), "RUM_footer")
               = IF pos = NULL THEN {} ELSE {IF head = NULL THEN pos + 1 ELSE pos + 2}
      BY <3>1, <3>3, InsertFacts
    <3> QED
      BY <3>2, <3>4
  <2> HIDE DEF all
  <2> QED
    BY <2>1, <2>2, <2>3, <2>5
<1>8. pos # NULL <=> footer.out # NULL
  BY <1>5
<1> HIDE DEF all, pos, skip
<1>9. CASE r = [t |-> footer.t, out |-> all]
  <2>1. head # NULL => head \in Nat
    BY <1>4, <1>6
  <2>2. \A f \in At(all, "RUM_footer") : t.rum_header # 0 \/ \E h \in At(all, "RUM_header") : h < f
    <3>1. CASE head = NULL
      BY <1>3, <1>5, <1>7, <1>8, <3>1
    <3>2. CASE head # NULL /\ pos # NULL
      <4>1. /\ At(all, "RUM_header") = {head + 1} /\ At(all, "RUM_footer") = {pos + 2}
            /\ head \in Nat /\ pos \in Nat /\ head <= pos
        BY <1>7, <2>1, <3>2
      <4>2. head + 1 < pos + 2
        BY <4>1
      <4> QED
        BY <4>1, <4>2
    <3>3. CASE pos = NULL
      BY <1>7, <3>3
    <3> QED
      BY <3>1, <3>2, <3>3
  <2>3. Adds(t, footer.t, all)
    BY <1>3, <1>5, <1>7, <1>8, <2>2, SaysNoMoreThen DEF Adds
  <2> QED
    BY <1>5, <1>9, <2>3
<1>10. CASE r = [t |-> t, out |-> output]
  <2>1. \A i \in 1..Len(output) : output[i] \in HtmlItems
    OBVIOUS
  <2>2. "RUM_header" \notin HtmlItems /\ "RUM_footer" \notin HtmlItems
    BY DEF HtmlItems
  <2>3. output \in Seq(PageItems) /\ DOMAIN output = 1..Len(output)
    BY DEF PageItems
  <2>4. At(output, "RUM_header") = {} /\ At(output, "RUM_footer") = {}
    BY <2>1, <2>2, <2>3 DEF At
  <2> QED
    BY <1>10, <2>3, <2>4, KeepsSelf DEF Adds, Keeps
<1> QED
  BY <1>1, <1>9, <1>10

(* The settings of a transaction allow no more than its application does.  *)
Allowed(t, app) ==
  /\ t.high_security = app.high_security /\ t.lasp = app.lasp
  /\ t.opts.allow_raw => app.policies.allow_raw # FALSE
  /\ t.opts.custom_parameters => app.policies.custom_parameters # FALSE
  /\ t.opts.custom_events => app.policies.custom_events # FALSE
  /\ app.policies.record_sql = TRUE => t.opts.recordsql # "RAW"

(* What a transaction says, its settings allow.                            *)
Discreet(t) ==
  /\ IsRaw(t.error) => ~t.high_security /\ t.opts.allow_raw
  /\ \A a \in t.attrs : /\ IsUser(a.name) => ~t.high_security /\ t.opts.custom_parameters
                        /\ IsParam(a.name) => ~t.high_security /\ ~t.lasp
  /\ t.custom_events # 0 => ~t.high_security /\ t.opts.custom_events
  /\ t.high_security => t.logs = {}

(* Both, which is what every transaction of the request keeps.             *)
Secure(t, app) == IsTxn(t) /\ Allowed(t, app) /\ Discreet(t)

(* A function that says no more keeps what security demands.               *)
LEMMA SecureStays ==
  ASSUME NEW t, NEW u, NEW app, Secure(t, app), SaysNoMore(t, u) PROVE Secure(u, app)
<1>1. /\ u.opts.allow_raw = t.opts.allow_raw /\ u.opts.custom_parameters = t.opts.custom_parameters
      /\ u.opts.custom_events = t.opts.custom_events /\ u.opts.recordsql = t.opts.recordsql
  BY DEF SaysNoMore, OptFields
<1>2. IsTxn(u) /\ u.high_security = t.high_security /\ u.lasp = t.lasp
  BY DEF SaysNoMore
<1>3. Allowed(u, app)
  BY <1>1, <1>2 DEF Secure, Allowed
<1>4. Discreet(u)
  <2>1. IsRaw(u.error) => ~u.high_security /\ u.opts.allow_raw
    BY <1>1, <1>2 DEF Secure, Discreet, SaysNoMore
  <2>2. ASSUME NEW a \in u.attrs
        PROVE  /\ IsUser(a.name) => ~u.high_security /\ u.opts.custom_parameters
               /\ IsParam(a.name) => ~u.high_security /\ ~u.lasp
    BY <1>1, <1>2 DEF Secure, Discreet, SaysNoMore, Harmless
  <2>3. u.custom_events # 0 => ~u.high_security /\ u.opts.custom_events
    BY <1>1, <1>2 DEF Secure, Discreet, SaysNoMore
  <2>4. u.high_security => u.logs = {}
    BY <1>2 DEF Secure, Discreet, SaysNoMore
  <2> QED
    BY <2>1, <2>2, <2>3, <2>4 DEF Discreet
<1> QED
  BY <1>2, <1>3, <1>4 DEF Secure

(* The options of a new transaction: policies only take away.              *)
LEMMA OptionsFacts ==
  ASSUME NEW app, NEW ini, NEW o, o = BeginOptions(app, TxnOptions(ini))
  PROVE  /\ OptFields \subseteq DOMAIN o
         /\ o.allow_raw => app.policies.allow_raw # FALSE
         /\ o.custom_parameters => app.policies.custom_parameters # FALSE
         /\ o.custom_events => app.policies.custom_events # FALSE
         /\ app.policies.record_sql = TRUE => o.recordsql # "RAW"
<1> DEFINE opts == TxnOptions(ini)
           limited == [opts EXCEPT
              !.analytics_events = @ /\ app.limits.analytics_events > 0,
              !.custom_events = @ /\ app.limits.custom_events > 0,
              !.error_events = @ /\ app.limits.error_events > 0,
              !.span_events = @ /\ app.limits.span_events > 0,
              !.apdex_t = app.apdex_t,
              !.tt_threshold = IF opts.tt_is_apdex_f THEN 4 * app.apdex_t ELSE @]
           secured == nr_txn_enforce_security_settings(limited, app.reply, app.policies)
<1>1. DOMAIN opts = OptionNames
  BY DEF TxnOptions
<1>2. o = [secured EXCEPT !.request_params = @ /\ ~app.lasp]
  BY DEF BeginOptions
<1> HIDE DEF opts
<1>3. DOMAIN limited = OptionNames
  BY <1>1
<1> HIDE DEF limited
<1>4. /\ DOMAIN secured = OptionNames
      /\ secured.allow_raw => app.policies.allow_raw # FALSE
      /\ secured.custom_parameters => app.policies.custom_parameters # FALSE
      /\ secured.custom_events => app.policies.custom_events # FALSE
      /\ app.policies.record_sql = TRUE => secured.recordsql # "RAW"
  BY <1>3 DEF nr_txn_enforce_security_settings, OptionNames
<1> HIDE DEF secured
<1>5. /\ DOMAIN o = OptionNames /\ o.allow_raw = secured.allow_raw /\ o.recordsql = secured.recordsql
      /\ o.custom_parameters = secured.custom_parameters /\ o.custom_events = secured.custom_events
  BY <1>2, <1>4 DEF OptionNames
<1> QED
  BY <1>4, <1>5 DEF OptionNames, OptFields

(* nr_txn_begin gives a transaction that says nothing.                     *)
LEMMA NewFacts ==
  ASSUME NEW app, NEW ini, NEW guid, NEW prio, NEW sampled,
         NEW t, t = nr_txn_begin(app, TxnOptions(ini), guid, prio, sampled)
  PROVE  Secure(t, app) /\ t.rum_header = 0 /\ t.rum_footer = 0
<1> DEFINE o == BeginOptions(app, TxnOptions(ini))
           d == BeginTrace(app, TxnOptions(ini), guid, prio, sampled)
<1>1. /\ OptFields \subseteq DOMAIN o
      /\ o.allow_raw => app.policies.allow_raw # FALSE
      /\ o.custom_parameters => app.policies.custom_parameters # FALSE
      /\ o.custom_events => app.policies.custom_events # FALSE
      /\ app.policies.record_sql = TRUE => o.recordsql # "RAW"
  BY OptionsFacts
<1>2. /\ DOMAIN t = TxnFields /\ t.opts = o /\ t.high_security = app.high_security /\ t.lasp = app.lasp
      /\ t.error = NULL /\ t.attrs = {} /\ t.custom_events = 0 /\ t.logs = {}
      /\ t.rum_header = 0 /\ t.rum_footer = 0
  <2> HIDE DEF o, d
  <2>1. t = [opts |-> o, high_security |-> app.high_security, lasp |-> app.lasp,
      run |-> app.run, recording |-> TRUE, ignore |-> FALSE, complete |-> FALSE,
      ignore_apdex |-> FALSE, background |-> FALSE, frozen |-> FALSE,
      path_type |-> "UNKNOWN", path |-> NULL, name |-> NULL, error |-> NULL,
      metrics |-> {}, attrs |-> {}, custom_events |-> 0, logs |-> {}, packages |-> {},
      type |-> {}, queue_start |-> 0, match_filenames |-> {}, request_uri |-> NULL,
      cross_process |-> IF o.cat THEN "START" ELSE "DISABLED",
      cat |-> [client |-> NULL, guid |-> NULL, trip |-> NULL, ref |-> NULL, alt |-> {}],
      synthetics |-> NULL, rum_header |-> 0, rum_footer |-> 0, onetime |-> FALSE,
      span_queue |-> o.span_events /\ app.observer,
      composer |-> FALSE,
      dt |-> d]
    BY DEF nr_txn_begin, o, d
  <2> QED
    BY <2>1 DEF TxnFields
<1> HIDE DEF o
<1> QED
  BY <1>1, <1>2 DEF Secure, IsTxn, Allowed, Discreet, IsRaw

(* A transaction begins with nothing but what nr_txn_begin gives it.       *)
LEMMA BeginFacts ==
  ASSUME NEW app, NEW ini, NEW server, NEW guid, NEW prio, NEW sampled,
         NEW t, t = nr_php_txn_begin(app, ini, server, guid, prio, sampled), t # NULL
  PROVE  Secure(t, app) /\ t.rum_header = 0 /\ t.rum_footer = 0
<1> DEFINE new     == nr_txn_begin(app, TxnOptions(ini), guid, prio, sampled)
           once    == nr_php_txn_send_metrics_once(new)
           started == nr_php_collect_x_request_start(once, server)
           path    == nr_php_set_initial_path(started, server)
           job     == IF ini.cli THEN nr_txn_change_background_status(path, TRUE) ELSE path
           params  == nr_php_gather_global_params(job, server)
           inbound == AcceptInbound(params, app, server)
           last    == IF inbound.opts.synthetics
                      THEN nr_header_set_synthetics_txn(inbound, app, server.x_synthetics) ELSE inbound
<1>1. t = last
  BY DEF nr_php_txn_begin
<1>2. Secure(new, app) /\ new.rum_header = 0 /\ new.rum_footer = 0
  BY NewFacts
<1> HIDE DEF new
<1>3. Keeps(new, new) /\ IsTxn(new)
  BY <1>2, KeepsSelf DEF Secure
<1>4. Keeps(new, once)
  <2> DEFINE S == {<<"Logging/Forwarding/PHP", nr_txn_log_forwarding_enabled(new)>>,
                   <<"Logging/Metrics/PHP", new.opts.log_metrics>>,
                   <<"Logging/Labels/PHP", new.opts.log_labels>>}
             m == AddMetrics(new, S)
  <2>1. Keeps(new, m)
    <3> HIDE DEF S
    <3> QED BY <1>3, KeepsMetrics
  <2>2. once = IF new.onetime THEN new ELSE [m EXCEPT !.onetime = TRUE]
    BY DEF nr_php_txn_send_metrics_once
  <2> HIDE DEF m, once
  <2>3. Keeps(new, [m EXCEPT !.onetime = TRUE])
    BY <2>1, KeepsThen, KeepsField, SmallFields
  <2> QED
    BY <1>3, <2>2, <2>3
<1> HIDE DEF once
<1>5. Keeps(new, started)
  BY <1>4, KeepsThen, KeepsRequestData DEF nr_php_collect_x_request_start
<1> HIDE DEF started
<1>6. Keeps(new, path)
  <2> DEFINE b == IF server.script = NULL /\ server.argv # NULL /\ ~server.request_method
                  THEN nr_txn_change_background_status(started, TRUE) ELSE started
             p == IF server.script # NULL THEN nr_txn_set_path(b, server.script, "URI", FALSE)
                  ELSE nr_txn_set_path(b, <<"<unknown>">>, "UNKNOWN", FALSE)
  <2>1. path = p
    BY DEF nr_php_set_initial_path
  <2>2. PICK yes : nr_txn_change_background_status(started, TRUE) = nr_txn_change_background_status(started, yes)
    BY Zenon
  <2>3. Keeps(new, b)
    <3>1. Keeps(new, nr_txn_change_background_status(started, yes))
      BY <1>5, KeepsThen, KeepsBackground
    <3> QED
      BY <1>5, <2>2, <3>1
  <2> HIDE DEF b, path
  <2>4. PICK no, unknown : p \in {nr_txn_set_path(b, server.script, "URI", no),
                                  nr_txn_set_path(b, unknown, "UNKNOWN", no)}
    BY Zenon
  <2> HIDE DEF p
  <2>5. Keeps(new, p)
    BY <2>3, <2>4, KeepsThen, KeepsPath
  <2> QED
    BY <2>1, <2>5
<1> HIDE DEF path
<1>7. Keeps(new, job)
  <2>1. PICK yes : nr_txn_change_background_status(path, TRUE) = nr_txn_change_background_status(path, yes)
    BY Zenon
  <2>2. Keeps(new, nr_txn_change_background_status(path, yes))
    BY <1>6, KeepsThen, KeepsBackground
  <2> QED
    BY <1>6, <2>1, <2>2
<1> HIDE DEF job
<1>8. Keeps(new, params)
  BY <1>7, KeepsThen, KeepsRequestData
<1> HIDE DEF params
<1>9. Keeps(new, inbound)
  BY <1>8, KeepsThen, KeepsTrace
<1> HIDE DEF inbound
<1>10. Keeps(new, last)
  BY <1>9, KeepsThen, KeepsSynthetics
<1> HIDE DEF last
<1> QED
  BY <1>1, <1>2, <1>10, SecureStays DEF Keeps

(* What an application says is kept where the settings allow it.           *)
Says(t, u, app) ==
  Secure(u, app) /\ u.rum_header = t.rum_header /\ u.rum_footer = t.rum_footer

(* A function that keeps says only what is allowed.                        *)
LEMMA SaysKept == ASSUME NEW t, NEW u, NEW app, Secure(t, app), Keeps(t, u) PROVE Says(t, u, app)
  BY SecureStays DEF Says, Keeps

(* A message of an error is replaced where it must be.                     *)
LEMMA ErrorSays ==
  ASSUME NEW t, NEW app, Secure(t, app), NEW priority, NEW errmsg, NEW span
  PROVE  Says(t, nr_txn_record_error(t, priority, errmsg, span), app)
<1> DEFINE msg == IF t.opts.allow_raw
                  THEN (IF t.high_security THEN HighSecurityMessage ELSE errmsg) ELSE PolicyMessage
           spans == nr_txn_should_create_span_events(t)
           e == [priority |-> priority, msg |-> msg, span |-> IF spans THEN span ELSE NULL]
           u == [t EXCEPT !.error = e]
<1>1. nr_txn_record_error(t, priority, errmsg, span) \in {t, u}
  BY DEF nr_txn_record_error
<1>2. IsRaw(e) => ~t.high_security /\ t.opts.allow_raw
  BY DEF IsRaw
<1> HIDE DEF e
<1>3. /\ DOMAIN u = DOMAIN t /\ u.error = e
      /\ u.opts = t.opts /\ u.high_security = t.high_security /\ u.lasp = t.lasp
      /\ u.custom_events = t.custom_events /\ u.logs = t.logs /\ u.attrs = t.attrs
      /\ u.rum_header = t.rum_header /\ u.rum_footer = t.rum_footer
  BY DEF Secure, IsTxn, TxnFields
<1> HIDE DEF u
<1>4. IsTxn(u) /\ Allowed(u, app)
  BY <1>3 DEF Secure, IsTxn, Allowed
<1>5. Discreet(u)
  BY <1>2, <1>3 DEF Secure, Discreet
<1>6. Says(t, u, app)
  BY <1>3, <1>4, <1>5 DEF Says, Secure
<1>7. Says(t, t, app)
  BY SaysKept, KeepsSelf DEF Secure
<1> QED
  BY <1>1, <1>6, <1>7

(* Attributes are added that the settings allow.                           *)
LEMMA AttrsSay ==
  ASSUME NEW t, NEW app, Secure(t, app), NEW S,
         \A a \in S : /\ IsUser(a.name) => ~t.high_security /\ t.opts.custom_parameters
                      /\ IsParam(a.name) => ~t.high_security /\ ~t.lasp
  PROVE  Says(t, [t EXCEPT !.attrs = @ \union S], app)
<1> DEFINE u == [t EXCEPT !.attrs = @ \union S]
<1>3. /\ DOMAIN u = DOMAIN t /\ u.attrs = t.attrs \union S
      /\ u.opts = t.opts /\ u.high_security = t.high_security /\ u.lasp = t.lasp
      /\ u.custom_events = t.custom_events /\ u.logs = t.logs /\ u.error = t.error
      /\ u.rum_header = t.rum_header /\ u.rum_footer = t.rum_footer
  BY DEF Secure, IsTxn, TxnFields
<1> HIDE DEF u
<1>4. IsTxn(u) /\ Allowed(u, app)
  BY <1>3 DEF Secure, IsTxn, Allowed
<1>5. Discreet(u)
  BY <1>3 DEF Secure, Discreet
<1>6. Says(t, u, app)
  BY <1>3, <1>4, <1>5 DEF Says, Secure
<1> QED
  BY <1>6 DEF u

(* newrelic_add_custom_parameter respects the settings.                    *)
LEMMA ParameterSays ==
  ASSUME NEW t, NEW app, Secure(t, app), NEW key
  PROVE  Says(t, nr_txn_add_user_custom_parameter(t, key), app)
<1>0. Says(t, t, app)
  BY SaysKept, KeepsSelf DEF Secure
<1> DEFINE a == [name |-> <<"user", key>>, dests |-> {"trace", "error", "event", "browser", "log"}]
<1>1. ~IsParam(a.name)
  BY DEF IsParam
<1> DEFINE S == {a}
<1> HIDE DEF a
<1>2. CASE ~t.high_security /\ t.opts.custom_parameters
  <2>1. \A b \in S : /\ IsUser(b.name) => ~t.high_security /\ t.opts.custom_parameters
                     /\ IsParam(b.name) => ~t.high_security /\ ~t.lasp
    BY <1>1, <1>2
  <2>2. nr_txn_add_user_custom_parameter(t, key) = [t EXCEPT !.attrs = @ \union S]
    BY <1>2 DEF nr_txn_add_user_custom_parameter, a
  <2> HIDE DEF S
  <2>3. Says(t, [t EXCEPT !.attrs = @ \union S], app)
    BY <2>1, AttrsSay
  <2> QED
    BY <2>2, <2>3
<1>3. CASE ~(~t.high_security /\ t.opts.custom_parameters)
  BY <1>0, <1>3 DEF nr_txn_add_user_custom_parameter
<1> QED
  BY <1>2, <1>3

(* newrelic_record_custom_event respects the settings.                     *)
LEMMA EventSays ==
  ASSUME NEW t, NEW app, Secure(t, app) PROVE Says(t, nr_txn_record_custom_event(t), app)
<1> DEFINE u == [t EXCEPT !.custom_events = @ + 1]
<1>1. CASE ~t.high_security /\ t.opts.custom_events
  <2>1. nr_txn_record_custom_event(t) \in {t, u}
    BY DEF nr_txn_record_custom_event
  <2>3. /\ DOMAIN u = DOMAIN t /\ u.attrs = t.attrs
        /\ u.opts = t.opts /\ u.high_security = t.high_security /\ u.lasp = t.lasp
        /\ u.logs = t.logs /\ u.error = t.error
        /\ u.rum_header = t.rum_header /\ u.rum_footer = t.rum_footer
    BY DEF Secure, IsTxn, TxnFields
  <2> HIDE DEF u
  <2>4. Secure(u, app)
    BY <1>1, <2>3 DEF Secure, IsTxn, Allowed, Discreet
  <2> QED
    BY <2>1, <2>3, <2>4, SaysKept, KeepsSelf DEF Says, Secure
<1>2. CASE ~(~t.high_security /\ t.opts.custom_events)
  <2>1. nr_txn_record_custom_event(t) = t
    BY <1>2 DEF nr_txn_record_custom_event
  <2> QED
    BY <2>1, SaysKept, KeepsSelf DEF Secure
<1> QED
  BY <1>1, <1>2

(* A log line is forwarded only without high security.                     *)
LEMMA LogSays ==
  ASSUME NEW t, NEW app, Secure(t, app), NEW level, NEW message, NEW span
  PROVE  Says(t, nr_txn_record_log_event(t, level, message, span), app)
<1> DEFINE l == log_event_set_linking_metadata(t, level, span)
           u == [t EXCEPT !.logs = @ \union {l}]
           v == nr_txn_add_log_event(t, level, message, span)
<1>1. Says(t, v, app)
  <2>1. v \in {t, nr_txn_force_single_count(t, "Logging/Forwarding/Dropped")} \/ (v = u /\ ~t.high_security)
    BY DEF nr_txn_add_log_event, nr_txn_log_forwarding_enabled
  <2> HIDE DEF v, l
  <2>2. IsTxn(t) /\ Says(t, t, app)
    BY SaysKept, KeepsSelf DEF Secure
  <2>3. Says(t, nr_txn_force_single_count(t, "Logging/Forwarding/Dropped"), app)
    BY <2>2, SaysKept, KeepsCount
  <2>4. /\ DOMAIN u = DOMAIN t /\ u.attrs = t.attrs
        /\ u.opts = t.opts /\ u.high_security = t.high_security /\ u.lasp = t.lasp
        /\ u.custom_events = t.custom_events /\ u.error = t.error
        /\ u.rum_header = t.rum_header /\ u.rum_footer = t.rum_footer
    BY DEF Secure, IsTxn, TxnFields
  <2> HIDE DEF u
  <2>5. ~t.high_security => Secure(u, app)
    BY <2>4 DEF Secure, IsTxn, Allowed, Discreet
  <2> QED
    BY <2>1, <2>2, <2>3, <2>4, <2>5 DEF Says
<1>2. nr_txn_record_log_event(t, level, message, span) = nr_txn_add_logging_metrics(v, level)
  BY DEF nr_txn_record_log_event
<1> HIDE DEF v
<1>3. Keeps(v, nr_txn_add_logging_metrics(v, level))
  <2> DEFINE S == {<<"Logging/lines">>, <<"Logging/lines", level>>}
  <2>1. nr_txn_add_logging_metrics(v, level) \in {v, AddMetrics(v, S)}
    BY DEF nr_txn_add_logging_metrics
  <2> HIDE DEF S
  <2> QED
    BY <1>1, <2>1, KeepsMetrics, KeepsSelf DEF Says, Secure
<1>4. Says(v, nr_txn_add_logging_metrics(v, level), app)
  BY <1>1, <1>3, SaysKept DEF Says
<1> QED
  BY <1>1, <1>2, <1>4 DEF Says

(* Custom metrics and packages are nothing a setting forbids.              *)
LEMMA MetricAndPackageSay ==
  ASSUME NEW t, NEW app, Secure(t, app), NEW x, NEW y
  PROVE  /\ Says(t, nr_txn_add_custom_metric(t, x, y), app)
         /\ Says(t, nr_txn_add_php_package_from_source(t, x, y), app)
<1>1. IsTxn(t) /\ Keeps(t, t)
  BY KeepsSelf DEF Secure
<1>2. Keeps(t, nr_txn_add_custom_metric(t, x, y))
  BY <1>1, KeepsMetrics DEF nr_txn_add_custom_metric
<1>3. Keeps(t, nr_txn_add_php_package_from_source(t, x, y))
  BY <1>1, KeepsField, SmallFields DEF nr_txn_add_php_package_from_source
<1> QED
  BY <1>2, <1>3, SaysKept

(* The metrics of the end keep.                                            *)
LEMMA TotalTimeKeeps ==
  ASSUME NEW t, IsTxn(t), NEW duration PROVE Keeps(t, nr_txn_handle_total_time(t, duration))
<1>0. ASSUME NEW u, IsTxn(u), NEW p PROVE Keeps(u, nr_txn_create_dt_metrics(u, p))
  BY <1>0, KeepsMetrics DEF nr_txn_create_dt_metrics
<1>1. ASSUME NEW u, IsTxn(u) PROVE Keeps(u, nr_txn_create_duration_metrics(u))
  <2> DEFINE web == IF u.background THEN {<<"OtherTransaction/all">>, <<"OtherTransactionTotalTime">>}
                    ELSE {<<"WebTransaction">>, <<"WebTransactionTotalTime">>, <<"HttpDispatcher">>}
             S == web \union {<<"Duration", u.name>>, <<"TotalTime", u.name>>}
             c == AddMetrics(u, S)
  <2>1. nr_txn_create_duration_metrics(u) \in {nr_txn_create_dt_metrics(c, "DurationByCaller"), c}
    BY DEF nr_txn_create_duration_metrics
  <2>2. Keeps(u, c)
    <3> HIDE DEF S
    <3> QED BY <1>1, KeepsMetrics
  <2> HIDE DEF c
  <2> QED
    BY <1>0, <2>1, <2>2, KeepsThen
<1>2. ASSUME NEW u, IsTxn(u) PROVE Keeps(u, nr_txn_create_queue_metric(u))
  BY <1>2, KeepsMetrics, KeepsSelf DEF nr_txn_create_queue_metric
<1>3. ASSUME NEW u, IsTxn(u) PROVE Keeps(u, nr_txn_create_rollup_metrics(u))
  BY <1>3, KeepsMetrics DEF nr_txn_create_rollup_metrics
<1>4. ASSUME NEW u, IsTxn(u) PROVE Keeps(u, nr_txn_create_apdex_metrics(u, duration))
  <2> DEFINE S == {<<"Apdex">>} \union
                (IF u.name = NULL THEN {} ELSE {<<"Apdex/txn", u.name, nr_txn_apdex_zone(u, duration)>>})
  <2>1. nr_txn_create_apdex_metrics(u, duration) = AddMetrics(u, S)
    BY DEF nr_txn_create_apdex_metrics
  <2> HIDE DEF S
  <2> QED
    BY <1>4, <2>1, KeepsMetrics
<1>5. ASSUME NEW u, IsTxn(u) PROVE Keeps(u, nr_txn_create_error_metrics(u))
  <2> DEFINE S == {<<"Errors/all">>, <<"Errors", WebOrOther(u)>>, <<"Errors/txn", u.name>>}
             c == AddMetrics(u, S)
  <2>1. nr_txn_create_error_metrics(u) \in {u, nr_txn_create_dt_metrics(c, "ErrorsByCaller"), c}
    BY DEF nr_txn_create_error_metrics
  <2>2. Keeps(u, c) /\ Keeps(u, u)
    <3> HIDE DEF S
    <3> QED BY <1>5, KeepsMetrics, KeepsSelf
  <2> HIDE DEF c
  <2> QED
    BY <1>0, <2>1, <2>2, KeepsThen
<1>6. ASSUME NEW u, IsTxn(u) PROVE Keeps(u, nr_txn_add_error_attributes(u))
  BY <1>6, KeepsSelf, KeepsAttribute DEF nr_txn_add_error_attributes
<1> DEFINE r == nr_txn_create_rollup_metrics(t)
           d == nr_txn_create_duration_metrics(r)
           sums == nr_txn_create_queue_metric(d)
           apdex == IF nr_txn_should_create_apdex_metrics(sums)
                    THEN nr_txn_create_apdex_metrics(sums, duration) ELSE sums
           e == nr_txn_create_error_metrics(apdex)
           a == nr_txn_add_error_attributes(e)
<1>7. nr_txn_handle_total_time(t, duration) \in {apdex, a}
  BY DEF nr_txn_handle_total_time
<1>8. Keeps(t, r)
  BY <1>3
<1> HIDE DEF r
<1>9. Keeps(t, d)
  BY <1>1, <1>8, KeepsThen
<1> HIDE DEF d
<1>10. Keeps(t, sums)
  BY <1>2, <1>9, KeepsThen
<1> HIDE DEF sums
<1>11. Keeps(t, apdex)
  BY <1>4, <1>10, KeepsThen
<1> HIDE DEF apdex
<1>12. Keeps(t, e)
  BY <1>5, <1>11, KeepsThen
<1> HIDE DEF e
<1>13. Keeps(t, a)
  BY <1>6, <1>12, KeepsThen
<1> HIDE DEF a
<1> QED
  BY <1>7, <1>11, <1>13

(* nr_txn_end keeps, finished or not.                                      *)
LEMMA EndKeeps ==
  ASSUME NEW t, IsTxn(t), NEW app, NEW duration PROVE Keeps(t, nr_txn_end(t, app, duration).t)
<1> DEFINE over == [t EXCEPT !.complete = TRUE, !.recording = FALSE]
           f == nr_txn_freeze_name_update_apdex(over, app).t
           w == nr_txn_handle_total_time(f, duration)
<1>1. nr_txn_end(t, app, duration).t \in {t, over, f, w}
  BY DEF nr_txn_end
<1>2. Keeps(t, over) /\ Keeps(t, t)
  <2>1. PICK yes, no : over = [t EXCEPT !.complete = yes, !.recording = no]
    BY Zenon
  <2> QED
    BY <2>1, KeepsTwo, KeepsSelf, SmallFields
<1> HIDE DEF over
<1>3. Keeps(t, f)
  BY <1>2, KeepsThen, KeepsFreeze
<1> HIDE DEF f
<1>4. Keeps(t, w)
  BY <1>3, KeepsThen, TotalTimeKeeps
<1> HIDE DEF w
<1> QED
  BY <1>1, <1>2, <1>3, <1>4

(* Request parameters are captured only where they are allowed.            *)
LEMMA ShutdownSays ==
  ASSUME NEW t, NEW app, Secure(t, app), NEW server, NEW ini
  PROVE  Says(t, nr_php_txn_do_shutdown(t, server, ini), app)
<1> DEFINE u == nr_txn_set_request_uri(t, server.uri)
           S == UNION {nr_txn_add_request_parameter(u, k, ini.capture_params).attrs : k \in Range(server.params)}
<1>1. Says(t, u, app)
  BY KeepsRequestData, SaysKept DEF Secure
<1>2. nr_php_txn_do_shutdown(t, server, ini) = [u EXCEPT !.attrs = @ \union S]
  BY DEF nr_php_txn_do_shutdown, nr_php_capture_request_parameters
<1> HIDE DEF u
<1>3. ASSUME NEW k, NEW a \in nr_txn_add_request_parameter(u, k, ini.capture_params).attrs
      PROVE  /\ IsUser(a.name) => ~u.high_security /\ u.opts.custom_parameters
             /\ IsParam(a.name) => ~u.high_security /\ ~u.lasp
  <2> DEFINE p == [name |-> <<"request.parameters", k>>,
                   dests |-> IF ini.capture_params THEN {"trace", "error"} ELSE {}]
  <2>1. ~IsUser(p.name)
    BY DEF IsUser
  <2>2. \/ nr_txn_add_request_parameter(u, k, ini.capture_params) = u
        \/ /\ ~u.high_security /\ ~u.lasp
           /\ nr_txn_add_request_parameter(u, k, ini.capture_params) = [u EXCEPT !.attrs = @ \union {p}]
    BY DEF nr_txn_add_request_parameter
  <2> HIDE DEF p
  <2>3. "attrs" \in DOMAIN u
    BY <1>1 DEF Says, Secure, IsTxn, TxnFields
  <2>4. a \in u.attrs \/ (a = p /\ ~u.high_security /\ ~u.lasp)
    BY <2>2, <2>3
  <2> QED
    BY <1>1, <2>1, <2>4 DEF Says, Secure, Discreet
<1>4. \A a \in S : /\ IsUser(a.name) => ~u.high_security /\ u.opts.custom_parameters
                   /\ IsParam(a.name) => ~u.high_security /\ ~u.lasp
  BY <1>3
<1> HIDE DEF S
<1>5. Says(u, [u EXCEPT !.attrs = @ \union S], app)
  BY <1>1, <1>4, AttrsSay DEF Says
<1> QED
  BY <1>1, <1>2, <1>5 DEF Says

(* What nr_php_txn_end hands over is what is allowed.                      *)
LEMMA SentIsSecure ==
  ASSUME NEW t, NEW app, Secure(t, app), NEW ini, NEW server, NEW ignoretxn, NEW post,
         NEW r, r = nr_php_txn_end(t, app, ini, server, ignoretxn, post), r # NULL
  PROVE  Secure(r.t, app)
<1> DEFINE stopped == [t EXCEPT !.recording = FALSE]
           shut    == IF post THEN stopped ELSE nr_php_txn_do_shutdown(stopped, server, ini)
           version == VersionMetrics(shut)
           counted == PackageMetrics(version)
           status  == nr_txn_set_http_status(counted, server.code)
           headers == nr_php_txn_set_response_header_attributes(status, server)
           fpm     == nr_php_txn_handle_fpm_error(headers, server)
           ended   == nr_txn_end(fpm, app, 1)
<1>1. r = [t |-> ended.t, finished |-> ended.finished]
  BY DEF nr_php_txn_end
<1>2. Secure(stopped, app)
  <2>1. PICK no : stopped = [t EXCEPT !.recording = no]
    BY Zenon
  <2>2. Keeps(t, stopped)
    BY <2>1, KeepsField, SmallFields DEF Secure
  <2> QED
    BY <2>2, SaysKept DEF Says
<1> HIDE DEF stopped
<1>3. Secure(shut, app)
  BY <1>2, ShutdownSays DEF Says
<1> HIDE DEF shut
<1>4. Keeps(shut, shut) /\ IsTxn(shut)
  BY <1>3, KeepsSelf DEF Secure
<1>5. Keeps(shut, version)
  BY <1>4, KeepsMetrics DEF VersionMetrics
<1> HIDE DEF version
<1>6. Keeps(shut, counted)
  BY <1>5, KeepsThen, KeepsMetrics DEF PackageMetrics
<1> HIDE DEF counted
<1>7. Keeps(shut, status)
  BY <1>6, KeepsThen, KeepsRequestData
<1> HIDE DEF status
<1>8. Keeps(shut, headers)
  BY <1>7, KeepsThen, KeepsRequestData
<1> HIDE DEF headers
<1>9. Keeps(shut, fpm)
  <2> DEFINE a == nr_txn_set_attribute(headers, "request_uri", headers.path)
  <2>1. PICK path, no : fpm \in {headers, nr_txn_set_path(a, path, "STATUS_CODE", no)}
    BY Zenon DEF nr_php_txn_handle_fpm_error
  <2>2. Keeps(shut, a)
    BY <1>8, KeepsThen, KeepsAttribute
  <2> HIDE DEF a, fpm
  <2>3. Keeps(shut, nr_txn_set_path(a, path, "STATUS_CODE", no))
    BY <2>2, KeepsThen, KeepsPath
  <2> QED
    BY <1>8, <2>1, <2>3
<1> HIDE DEF fpm
<1>10. Keeps(shut, ended.t)
  BY <1>9, KeepsThen, EndKeeps
<1> HIDE DEF ended
<1>11. Secure(ended.t, app)
  BY <1>3, <1>10, SaysKept DEF Says
<1> QED
  BY <1>1, <1>11

(* The inductive invariant of a request.  OneLoader alone is not inductive:*)
(* the handler decides by what the transaction knows, so the transaction   *)
(* must know the page; and SecurityHolds speaks of what was sent, which is *)
(* what the running transaction says when it ends.                         *)
RqInv ==
  /\ {"high_security", "lasp", "policies"} \subseteq DOMAIN rapp
  /\ rpage \in Seq(PageItems) /\ Lined(rpage)
  /\ rtopic \notin {"name", "page"} => rpage = <<>>
  /\ rtxn # NULL => Secure(rtxn, rapp) /\ Knows(rpage, rtxn)
  /\ rsent \in Seq(Sent) /\ \A s \in Sent : Secure(s.t, rapp)

(* A new transaction knows that the browser has nothing.                   *)
LEMMA BeginHolds ==
  ASSUME NEW app, NEW ini, NEW server, NEW guid, NEW prio, NEW sampled,
         NEW t, t = nr_php_txn_begin(app, ini, server, guid, prio, sampled), t # NULL
  PROVE  Secure(t, app) /\ Knows(<<>>, t)
<1>1. Secure(t, app) /\ t.rum_header = 0 /\ t.rum_footer = 0
  BY BeginFacts
<1>2. At(<<>>, "RUM_header") = {} /\ At(<<>>, "RUM_footer") = {}
  BY DEF At
<1> QED
  BY <1>1, <1>2 DEF Knows

(* The invariant holds when the request begins.                            *)
LEMMA RequestBegins == RequestInit => RqInv
<1> SUFFICES ASSUME RequestInit PROVE RqInv
  OBVIOUS
<1>1. {"high_security", "lasp", "policies"} \subseteq DOMAIN rapp
  <2>1. DOMAIN DefaultApp = {"state", "run", "apdex_t", "high_security", "lasp", "observer", "trusted_key",
          "account_id", "app_id", "trusted_accounts", "encoding_key", "cross_process_id", "loader",
          "limits", "reply", "policies", "url_rules", "txn_rules", "terms", "key_apdex"}
    BY DEF DefaultApp
  <2>2. \A a \in AppChoices(rtopic) : DOMAIN a = DOMAIN DefaultApp
    <3> DEFINE N(u, x) == [DefaultApp EXCEPT !.url_rules = u, !.txn_rules = x, !.terms = (u = x),
                             !.key_apdex = IF u = "none" THEN NULL ELSE 2]
               S(h, l, p) == [DefaultApp EXCEPT !.high_security = h, !.lasp = l,
                                !.policies.allow_raw = p, !.policies.custom_parameters = p,
                                !.policies.custom_events = p, !.policies.record_sql = p]
               Ns == {N(u, x) : u, x \in {"none", "ignore", "change"}}
               Ss == {S(h, l, p) : h, l \in BOOLEAN, p \in {NULL, FALSE, TRUE}}
    <3>1. AppChoices(rtopic) = CASE rtopic = "name" -> Ns [] rtopic = "security" -> Ss [] OTHER -> {DefaultApp}
      BY DEF AppChoices
    <3>2. /\ \A u, x : DOMAIN N(u, x) = DOMAIN DefaultApp
          /\ \A h, l, p : DOMAIN S(h, l, p) = DOMAIN DefaultApp
      BY Zenon
    <3> HIDE DEF N, S
    <3>3. \A a \in Ns : DOMAIN a = DOMAIN DefaultApp
      BY <3>2
    <3>4. \A a \in Ss : DOMAIN a = DOMAIN DefaultApp
      <4> DEFINE B == BOOLEAN
                 P == {NULL, FALSE, TRUE}
      <4>1. Ss = {S(h, l, p) : h, l \in B, p \in P}
        OBVIOUS
      <4> HIDE DEF B, P, Ss
      <4> QED
        BY <3>2, <4>1
    <3> HIDE DEF Ns, Ss
    <3> QED
      BY <3>1, <3>3, <3>4
  <2> QED
    BY <2>1, <2>2 DEF RequestInit
<1>2. rpage = <<>> /\ rsent = <<>>
  BY DEF RequestInit
<1>3. rpage \in Seq(PageItems) /\ At(rpage, "RUM_header") = {} /\ At(rpage, "RUM_footer") = {}
  BY <1>2 DEF At
<1>4. Lined(rpage)
  BY <1>3 DEF Lined
<1>5. rtxn # NULL => Secure(rtxn, rapp) /\ Knows(rpage, rtxn)
  <2>1. PICK sampled : rtxn = nr_php_txn_begin(rapp, rini, rserver, <<"guid", 1>>, 1, sampled)
    BY Zenon DEF RequestInit
  <2> QED
    BY <1>2, <2>1, BeginHolds
<1>6. Sent = {} /\ rsent \in Seq(Sent)
  BY <1>2 DEF Sent
<1> QED
  BY <1>1, <1>2, <1>3, <1>4, <1>5, <1>6 DEF RqInv

(* A call that says something and writes nothing.                          *)
LEMMA QuietCall ==
  ASSUME RqInv, rtxn # NULL, NEW u, Says(rtxn, u, rapp), rtxn' = u,
         UNCHANGED <<rtopic, rapp, rsent, rpage>>
  PROVE  RqInv'
<1>1. Secure(rtxn', rapp') /\ Knows(rpage', rtxn')
  BY DEF RqInv, Says, Knows
<1> QED
  BY <1>1 DEF RqInv, Sent

(* A call that writes.                                                     *)
LEMMA WritingCall ==
  ASSUME RqInv, rtxn # NULL, NEW u, NEW out, SaysNoMore(rtxn, u), Adds(rtxn, u, out), rtxn' = u,
         rpage' = rpage \o out, rtopic \in {"name", "page"}, UNCHANGED <<rtopic, rapp, rsent>>
  PROVE  RqInv'
<1>1. Secure(rtxn', rapp')
  BY SecureStays DEF RqInv
<1>2. rpage' \in Seq(PageItems) /\ Lined(rpage') /\ Knows(rpage', rtxn')
  BY AddsPage DEF RqInv
<1> QED
  BY <1>1, <1>2 DEF RqInv, Sent

(* Every step of the request preserves the invariant.                      *)
LEMMA RequestStep == RqInv /\ [RequestNext]_requestVars => RqInv'
<1> SUFFICES ASSUME RqInv, [RequestNext]_requestVars PROVE RqInv'
  OBVIOUS
<1>0. rtxn # NULL => Secure(rtxn, rapp) /\ IsTxn(rtxn)
  BY DEF RqInv, Secure
<1>1. CASE SetPath
  <2>1. PICK ptype \in PathTypes \ {"UNKNOWN", "URI"}, overwrite \in BOOLEAN :
          /\ rtxn # NULL /\ rtxn' = nr_txn_set_path(rtxn, <<ptype, rcalls>>, ptype, overwrite)
          /\ UNCHANGED <<rtopic, rapp, rsent, rpage>>
    BY <1>1 DEF SetPath, Call
  <2>2. Says(rtxn, rtxn', rapp)
    BY <1>0, <2>1, KeepsPath, SaysKept
  <2> QED
    BY <2>1, <2>2, QuietCall
<1>2. CASE NameFromFunctionOrFile
  <2> DEFINE u == nr_txn_add_file_naming_pattern(rtxn, <<"f.php">>)
  <2>1. /\ rtxn # NULL
        /\ rtxn' \in {nr_txn_name_from_function(rtxn, <<"function", rcalls>>),
                      nr_txn_match_file(u, <<"f.php">>)}
        /\ UNCHANGED <<rtopic, rapp, rsent, rpage>>
    BY <1>2 DEF NameFromFunctionOrFile, Call
  <2>2. Keeps(rtxn, u)
    BY <1>0, <2>1, KeepsNaming
  <2> HIDE DEF u
  <2>3. Keeps(rtxn, rtxn')
    BY <1>0, <2>1, <2>2, KeepsThen, KeepsNaming
  <2> QED
    BY <1>0, <2>1, <2>3, SaysKept, QuietCall
<1>3. CASE BackgroundJob
  <2>1. PICK b \in BOOLEAN : /\ rtxn # NULL /\ rtxn' = nr_txn_change_background_status(rtxn, b)
                             /\ UNCHANGED <<rtopic, rapp, rsent, rpage>>
    BY <1>3 DEF BackgroundJob, Call
  <2>2. Says(rtxn, rtxn', rapp)
    BY <1>0, <2>1, KeepsBackground, SaysKept
  <2> QED
    BY <2>1, <2>2, QuietCall
<1>4. CASE IgnoreTransaction
  <2>1. /\ rtxn # NULL /\ rtxn' = nr_txn_ignore(rtxn) /\ UNCHANGED <<rtopic, rapp, rsent, rpage>>
    BY <1>4 DEF IgnoreTransaction, Call
  <2>2. Says(rtxn, rtxn', rapp)
    BY <1>0, <2>1, KeepsIgnore, SaysKept
  <2> QED
    BY <2>1, <2>2, QuietCall
<1>5. CASE nr_php_header_output_handler
  <2>1. /\ rtxn # NULL /\ rtxn' = nr_header_inbound_response(rtxn, rapp, 2).t
        /\ UNCHANGED <<rtopic, rapp, rsent, rpage>>
    BY <1>5 DEF nr_php_header_output_handler, Call
  <2>2. Says(rtxn, rtxn', rapp)
    BY <1>0, <2>1, KeepsResponse, SaysKept
  <2> QED
    BY <2>1, <2>2, QuietCall
<1>6. CASE BrowserTiming
  <2> DEFINE h == nr_rum_produce_header(rtxn, rapp, FALSE)
             f == nr_rum_produce_footer(rtxn, rapp, FALSE)
  <2>1. /\ rtxn # NULL /\ rtopic \in {"name", "page"} /\ UNCHANGED <<rtopic, rapp, rsent>>
        /\ \/ rtxn' = h.t /\ rpage' = IF h.out = NULL THEN rpage ELSE Append(rpage, h.out)
           \/ rtxn' = f.t /\ rpage' = IF f.out = NULL THEN rpage ELSE Append(rpage, f.out)
    BY <1>6 DEF BrowserTiming, Call
  <2>2. PICK no : h = nr_rum_produce_header(rtxn, rapp, no)
    BY Zenon
  <2>3. PICK no2 : f = nr_rum_produce_footer(rtxn, rapp, no2)
    BY Zenon
  <2> HIDE DEF h, f
  <2>4. rpage \in Seq(PageItems) /\ rpage \o <<>> = rpage
    BY DEF RqInv
  <2>5. /\ At(<<>>, "RUM_header") = {} /\ At(<<>>, "RUM_footer") = {} /\ <<>> \in Seq(PageItems)
        /\ At(<<"RUM_header">>, "RUM_header") = {1} /\ At(<<"RUM_header">>, "RUM_footer") = {}
        /\ At(<<"RUM_footer">>, "RUM_footer") = {1} /\ At(<<"RUM_footer">>, "RUM_header") = {}
        /\ <<"RUM_header">> \in Seq(PageItems) /\ <<"RUM_footer">> \in Seq(PageItems)
    <3>1. "RUM_header" \in PageItems /\ "RUM_footer" \in PageItems
      BY DEF PageItems
    <3> QED
      BY <3>1 DEF At
  <2>6. CASE rtxn' = h.t /\ rpage' = IF h.out = NULL THEN rpage ELSE Append(rpage, h.out)
    <3>1. /\ SaysNoMore(rtxn, h.t) /\ (h.out = NULL \/ h.out = "RUM_header") /\ (h.out = NULL => h.t = rtxn)
          /\ h.out # NULL => rtxn.rum_header = 0 /\ h.t.rum_header # 0 /\ h.t.rum_footer = rtxn.rum_footer
      BY <1>0, <2>1, <2>2, HeaderFacts
    <3>2. CASE h.out = NULL
      <4>1. Adds(rtxn, h.t, <<>>)
        BY <2>5, <3>1, <3>2, SaysNoMoreThen DEF Adds
      <4> QED
        BY <2>1, <2>4, <2>6, <3>1, <3>2, <4>1, WritingCall
    <3>3. CASE h.out # NULL
      <4>1. Adds(rtxn, h.t, <<"RUM_header">>)
        BY <2>5, <3>1, <3>3, SaysNoMoreThen DEF Adds
      <4>2. rpage' = rpage \o <<"RUM_header">>
        BY <2>4, <2>6, <3>1, <3>3
      <4> QED
        BY <2>1, <2>6, <3>1, <4>1, <4>2, WritingCall
    <3> QED
      BY <3>2, <3>3
  <2>7. CASE rtxn' = f.t /\ rpage' = IF f.out = NULL THEN rpage ELSE Append(rpage, f.out)
    <3>1. /\ SaysNoMore(rtxn, f.t) /\ (f.out = NULL \/ f.out = "RUM_footer")
          /\ f.t.rum_header = rtxn.rum_header
          /\ f.out = NULL => f.t.rum_footer = rtxn.rum_footer
          /\ f.out # NULL => rtxn.rum_header # 0 /\ rtxn.rum_footer = 0 /\ f.t.rum_footer # 0
      BY <1>0, <2>1, <2>3, FooterFacts
    <3>2. CASE f.out = NULL
      <4>1. Adds(rtxn, f.t, <<>>)
        BY <2>5, <3>1, <3>2, SaysNoMoreThen DEF Adds
      <4> QED
        BY <2>1, <2>4, <2>7, <3>1, <3>2, <4>1, WritingCall
    <3>3. CASE f.out # NULL
      <4>1. Adds(rtxn, f.t, <<"RUM_footer">>)
        BY <2>5, <3>1, <3>3, SaysNoMoreThen DEF Adds
      <4>2. rpage' = rpage \o <<"RUM_footer">>
        BY <2>4, <2>7, <3>1, <3>3
      <4> QED
        BY <2>1, <2>7, <3>1, <4>1, <4>2, WritingCall
    <3> QED
      BY <3>2, <3>3
  <2> QED
    BY <2>1, <2>6, <2>7
<1>7. CASE Output
  <2>1. PICK buffer \in RqPages, has_length \in BOOLEAN, html \in BOOLEAN :
          \E r \in {nr_php_rum_output_handler(rtxn, rapp, buffer, has_length, html)} :
            /\ rtxn # NULL /\ rtopic = "page" /\ rtxn' = r.t /\ rpage' = rpage \o r.out
            /\ UNCHANGED <<rtopic, rapp, rsent>>
    BY <1>7 DEF Output, Call
  <2> DEFINE r == nr_php_rum_output_handler(rtxn, rapp, buffer, has_length, html)
  <2>2. /\ rtxn # NULL /\ rtopic = "page" /\ rtxn' = r.t /\ rpage' = rpage \o r.out
        /\ UNCHANGED <<rtopic, rapp, rsent>>
    BY <2>1
  <2>3. buffer \in Seq(HtmlItems)
    BY RequestAssumption
  <2>4. SaysNoMore(rtxn, r.t) /\ Adds(rtxn, r.t, r.out)
    BY <1>0, <2>2, <2>3, HandlerFacts
  <2> HIDE DEF r
  <2> QED
    BY <2>2, <2>4, WritingCall
<1>8. CASE RecordError
  <2>1. PICK priority \in 1..3 :
          /\ rtxn # NULL /\ rtxn' = nr_txn_record_error(rtxn, priority, <<"raw", rcalls>>, "segment")
          /\ UNCHANGED <<rtopic, rapp, rsent, rpage>>
    BY <1>8 DEF RecordError, Call
  <2> QED
    BY <1>0, <2>1, ErrorSays, QuietCall
<1>9. CASE AddData
  <2>1. /\ rtxn # NULL /\ UNCHANGED <<rtopic, rapp, rsent, rpage>>
        /\ \/ rtxn' = nr_txn_add_user_custom_parameter(rtxn, "k")
           \/ rtxn' = nr_txn_record_custom_event(rtxn)
           \/ \E v \in {"nan", "1"} : rtxn' = nr_txn_add_custom_metric(rtxn, "m", v)
           \/ \E level \in {3, 5} : rtxn' = nr_txn_record_log_event(rtxn, level, "text", "segment")
           \/ \E source \in {"LEGACY", "COMPOSER"} :
                rtxn' = nr_txn_add_php_package_from_source(rtxn, "pkg", source)
    BY <1>9 DEF AddData, Call
  <2>2. Says(rtxn, rtxn', rapp)
    BY <1>0, <2>1, ParameterSays, EventSays, LogSays, MetricAndPackageSay
  <2> QED
    BY <2>1, <2>2, QuietCall
<1>10. CASE NewRun
  <2>1. /\ rapp' = [rapp EXCEPT !.run = 2] /\ UNCHANGED <<rtopic, rtxn, rpage, rsent>>
    BY <1>10 DEF NewRun
  <2>2. /\ DOMAIN rapp' = DOMAIN rapp /\ rapp'.high_security = rapp.high_security
        /\ rapp'.lasp = rapp.lasp /\ rapp'.policies = rapp.policies
    BY <2>1 DEF RqInv
  <2>3. \A t : Secure(t, rapp) => Secure(t, rapp')
    BY <2>2 DEF Secure, Allowed
  <2> QED
    BY <2>1, <2>2, <2>3 DEF RqInv, Sent
<1>11. CASE End
  <2>1. PICK ignoretxn \in BOOLEAN, post \in BOOLEAN :
          \E r \in {nr_php_txn_end(rtxn, rapp, rini, rserver, ignoretxn, post)} :
            /\ rtxn # NULL /\ rtxn' = NULL /\ UNCHANGED <<rtopic, rapp, rpage>>
            /\ rsent' = IF r = NULL THEN rsent
                  ELSE Append(rsent, [t |-> r.t, finished |-> r.finished, hist |-> rhist,
                                      run |-> rapp.run])
    BY <1>11 DEF End
  <2> DEFINE r == nr_php_txn_end(rtxn, rapp, rini, rserver, ignoretxn, post)
             x == [t |-> r.t, finished |-> r.finished, hist |-> rhist, run |-> rapp.run]
  <2>2. /\ rtxn # NULL /\ rtxn' = NULL /\ UNCHANGED <<rtopic, rapp, rpage>>
        /\ rsent' = IF r = NULL THEN rsent ELSE Append(rsent, x)
    BY <2>1
  <2>3. r # NULL => Secure(r.t, rapp)
    BY <1>0, <2>2, SentIsSecure
  <2>4. r # NULL => Secure(x.t, rapp)
    BY <2>3
  <2> HIDE DEF r, x
  <2>5. CASE r = NULL
    BY <2>2, <2>5 DEF RqInv, Sent
  <2>6. CASE r # NULL
    <3> DEFINE S == Sent \union {x}
    <3>1. rsent \in Seq(Sent)
      BY DEF RqInv
    <3>2. \A i \in DOMAIN rsent : rsent[i] \in Sent
      BY DEF Sent
    <3> HIDE DEF Sent
    <3>3. rsent \in Seq(S)
      BY <3>1
    <3>4. /\ rsent' = Append(rsent, x) /\ rsent' \in Seq(S) /\ Len(rsent) \in Nat
          /\ DOMAIN rsent = 1..Len(rsent)
          /\ DOMAIN rsent' = 1..(Len(rsent) + 1) /\ rsent'[Len(rsent) + 1] = x
          /\ \A i \in 1..Len(rsent) : rsent'[i] = rsent[i]
      BY <2>2, <2>6, <3>3
    <3>5. Sent' = S
      <4>1. Sent' = {rsent'[i] : i \in 1..(Len(rsent) + 1)} /\ Sent = {rsent[i] : i \in 1..Len(rsent)}
        BY <3>4 DEF Sent
      <4>2. \A i \in 1..(Len(rsent) + 1) : i \in 1..Len(rsent) \/ i = Len(rsent) + 1
        BY <3>4
      <4>3. Len(rsent) + 1 \in 1..(Len(rsent) + 1) /\ \A i \in 1..Len(rsent) : i \in 1..(Len(rsent) + 1)
        BY <3>4
      <4>4. \A s \in Sent' : s \in S
        BY <3>4, <4>1, <4>2
      <4>5. \A s \in S : s \in Sent'
        BY <3>4, <4>1, <4>3
      <4> QED
        BY <4>4, <4>5
    <3>6. \A s \in S : Secure(s.t, rapp')
      BY <2>2, <2>4, <2>6 DEF RqInv
    <3>7. rsent' \in Seq(Sent') /\ \A s \in Sent' : Secure(s.t, rapp')
      BY <3>4, <3>5, <3>6
    <3> QED
      BY <2>2, <3>7 DEF RqInv
  <2> QED
    BY <2>5, <2>6
<1>12. CASE Restart
  <2>1. /\ rtopic = "error" /\ UNCHANGED <<rtopic, rapp, rpage, rsent>>
        /\ rtxn' = nr_php_txn_begin(rapp, rini, rserver, <<"guid", 2>>, 1, TRUE)
    BY <1>12 DEF Restart
  <2>2. rpage = <<>>
    BY <2>1 DEF RqInv
  <2>3. rtxn' # NULL => Secure(rtxn', rapp) /\ Knows(<<>>, rtxn')
    <3>1. PICK sampled : rtxn' = nr_php_txn_begin(rapp, rini, rserver, <<"guid", 2>>, 1, sampled)
      BY <2>1, Zenon
    <3> QED
      BY <3>1, BeginHolds
  <2> QED
    BY <2>1, <2>2, <2>3 DEF RqInv, Sent
<1>13. CASE UNCHANGED requestVars
  BY <1>13 DEF requestVars, RqInv, Sent
<1> QED
  BY <1>1, <1>2, <1>3, <1>4, <1>5, <1>6, <1>7, <1>8, <1>9, <1>10, <1>11, <1>12, <1>13 DEF RequestNext

(* For any number of calls and any pages, whatever the application, its    *)
(* settings and the response are of those the request begins with, RqInv   *)
(* holds.                                                                  *)
THEOREM RequestInvariant == RequestSpec => []RqInv
  BY RequestBegins, RequestStep, PTL DEF RequestSpec

(* OneLoader: however a response is cut into buffers, and whoever asks for *)
(* the pieces in between (nr_php_rum_output_handler, the two API           *)
(* functions), the browser gets one loader and one footer at most, the     *)
(* footer behind the loader.                                               *)
THEOREM LoaderIsSentOnce == RequestSpec => []OneLoader
<1>1. RqInv => OneLoader
  <2> SUFFICES ASSUME RqInv PROVE OneLoader
    OBVIOUS
  <2>1. ASSUME NEW item, \A i, j \in At(rpage, item) : i = j PROVE Cardinality(At(rpage, item)) <= 1
    <3>1. CASE At(rpage, item) = {}
      BY <3>1, FS_EmptySet
    <3>2. CASE At(rpage, item) # {}
      <4>1. PICK i \in At(rpage, item) : TRUE
        BY <3>2
      <4>2. At(rpage, item) = {i}
        BY <2>1, <4>1
      <4>3. Cardinality({i}) = 1
        BY FS_Singleton
      <4> QED
        BY <4>2, <4>3
    <3> QED
      BY <3>1, <3>2
  <2>2. /\ Cardinality(At(rpage, "RUM_header")) <= 1 /\ Cardinality(At(rpage, "RUM_footer")) <= 1
        /\ \A f \in At(rpage, "RUM_footer") : \E h \in At(rpage, "RUM_header") : h < f
    BY <2>1 DEF RqInv, Lined
  <2> QED
    BY <2>2 DEF OneLoader, At
<1> QED
  BY <1>1, RequestInvariant, PTL

(* SecurityHolds: in any order of calls, what is handed to                 *)
(* nr_cmd_txndata_tx has no raw message, parameter, event, SQL or log line *)
(* that high security, a policy or a token of policies forbids, a run that *)
(* is replaced meanwhile included.                                         *)
THEOREM SentIsAllowed == RequestSpec => []SecurityHolds
<1>1. RqInv => SecurityHolds
  <2> SUFFICES ASSUME RqInv, NEW s \in Sent
        PROVE  LET names == {a.name : a \in s.t.attrs}
               IN /\ (rapp.high_security \/ rapp.policies.allow_raw = FALSE) => ~IsRaw(s.t.error)
                  /\ (rapp.high_security \/ rapp.policies.custom_parameters = FALSE)
                        => \A n \in names : ~IsUser(n)
                  /\ (rapp.high_security \/ rapp.policies.custom_events = FALSE)
                        => s.t.custom_events = 0
                  /\ (rapp.high_security \/ rapp.lasp) => \A n \in names : ~IsParam(n)
                  /\ (rapp.high_security \/ rapp.policies.record_sql = TRUE)
                        => nr_txn_sql_recording_level(s.t) # "RAW"
                  /\ rapp.high_security => s.t.logs = {}
    BY DEF SecurityHolds
  <2>1. Allowed(s.t, rapp) /\ Discreet(s.t)
    BY DEF RqInv, Secure
  <2>2. nr_txn_sql_recording_level(s.t) # "RAW"
          \/ ~(rapp.high_security \/ rapp.policies.record_sql = TRUE)
    BY <2>1 DEF Allowed, nr_txn_sql_recording_level
  <2> QED
    BY <2>1, <2>2 DEF Allowed, Discreet
<1> QED
  BY <1>1, RequestInvariant, PTL

---------------------------------------------------------------------------
(* Request: what a transaction reports of itself.                          *)

(* The metrics that decide: the kind of a finished transaction, and        *)
(* whether it has told its trace.                                          *)
Loud == {<<"OtherTransaction/all">>, <<"Apdex">>} \union CreateSuccess

(* u is t but for fields outside of K and for metrics that decide nothing. *)
Frame(K, t, u) ==
  /\ IsTxn(u)
  /\ \A f \in K : u[f] = t[f]
  /\ \A m \in Loud : m \in u.metrics <=> m \in t.metrics

(* What is only collected, whatever it is.                                 *)
Noise == {"metrics", "attrs", "packages", "queue_start", "match_filenames", "request_uri",
          "onetime", "logs", "custom_events"}

(* Every transaction is as itself.                                         *)
LEMMA FrameSelf == ASSUME NEW K, NEW t, IsTxn(t) PROVE Frame(K, t, t)
  BY DEF Frame

(* One step of a chain.                                                    *)
LEMMA FrameThen ==
  ASSUME NEW K, NEW t, NEW u, NEW v, Frame(K, t, u) PROVE IsTxn(u) /\ (Frame(K, u, v) => Frame(K, t, v))
  BY DEF Frame

(* What is kept of many fields is kept of fewer.                           *)
LEMMA FrameLess ==
  ASSUME NEW K, NEW L \in SUBSET K, NEW t, NEW u, Frame(K, t, u) PROVE Frame(L, t, u)
  BY DEF Frame

(* One field is set.                                                       *)
LEMMA FrameField ==
  ASSUME NEW t, IsTxn(t), NEW k \in TxnFields \ {"opts", "metrics"}, NEW e, NEW K \in SUBSET (TxnFields \ {k})
  PROVE  Frame(K, t, [t EXCEPT ![k] = e])
<1>1. "opts" \in TxnFields /\ "metrics" \in TxnFields
  BY DEF TxnFields
<1> QED
  BY <1>1 DEF Frame, IsTxn

(* Two fields are set.                                                     *)
LEMMA FrameTwo ==
  ASSUME NEW t, IsTxn(t), NEW k \in TxnFields \ {"opts", "metrics"}, NEW e,
         NEW l \in TxnFields \ {"opts", "metrics"}, NEW d, NEW K \in SUBSET (TxnFields \ {k, l})
  PROVE  Frame(K, t, [t EXCEPT ![k] = e, ![l] = d])
<1>1. "opts" \in TxnFields /\ "metrics" \in TxnFields
  BY DEF TxnFields
<1> QED
  BY <1>1 DEF Frame, IsTxn

(* Metrics are added that decide nothing.                                  *)
LEMMA FrameMetrics ==
  ASSUME NEW t, IsTxn(t), NEW S, S \intersect Loud = {}, NEW K \in SUBSET (TxnFields \ {"metrics"})
  PROVE  Frame(K, t, AddMetrics(t, S))
<1>1. "opts" \in TxnFields /\ "metrics" \in TxnFields
  BY DEF TxnFields
<1>2. DOMAIN AddMetrics(t, S) = TxnFields /\ \A f \in TxnFields \ {"metrics"} : AddMetrics(t, S)[f] = t[f]
  BY <1>1 DEF AddMetrics, IsTxn
<1>3. AddMetrics(t, S).metrics = t.metrics \union S
  BY <1>1 DEF AddMetrics, IsTxn
<1> QED
  BY <1>1, <1>2, <1>3 DEF Frame, IsTxn

(* A metric with more than its name decides nothing.                       *)
LEMMA LongMetrics == \A a, b, c : <<a, b>> \notin Loud /\ <<a, b, c>> \notin Loud
  BY DEF Loud, CreateSuccess

(* A metric is counted that decides nothing.                               *)
LEMMA FrameCount ==
  ASSUME NEW t, IsTxn(t), NEW m, <<m>> \notin Loud, NEW K \in SUBSET (TxnFields \ {"metrics"})
  PROVE  Frame(K, t, nr_txn_force_single_count(t, m))
<1> DEFINE S == {<<m>>}
<1>1. S \intersect Loud = {}
  OBVIOUS
<1>2. nr_txn_force_single_count(t, m) = AddMetrics(t, S)
  BY DEF nr_txn_force_single_count, AddMetrics
<1> HIDE DEF S
<1> QED
  BY <1>1, <1>2, FrameMetrics

(* The metrics of distributed tracing decide nothing.                      *)
LEMMA FrameDtMetrics ==
  ASSUME NEW t, IsTxn(t), NEW p, NEW K \in SUBSET (TxnFields \ {"metrics"})
  PROVE  Frame(K, t, nr_txn_create_dt_metrics(t, p))
<1> DEFINE c == IF t.dt.inbound.set
                THEN <<t.dt.inbound.type, t.dt.inbound.account_id, t.dt.inbound.app_id>>
                ELSE <<"Unknown", "Unknown", "Unknown">>
           w == WebOrOther(t)
           S == {<<p, c, "all">>, <<p, c, w>>}
<1>1. nr_txn_create_dt_metrics(t, p) = AddMetrics(t, S)
  BY DEF nr_txn_create_dt_metrics
<1> HIDE DEF c, w
<1>2. \A m \in S : m \notin Loud
  BY LongMetrics, ZenonT(40)
<1> HIDE DEF S
<1>3. S \intersect Loud = {}
  BY <1>2
<1> QED
  BY <1>1, <1>3, FrameMetrics

(* An attribute of the agent is set.                                       *)
LEMMA FrameAttribute ==
  ASSUME NEW t, IsTxn(t), NEW name, NEW value, NEW K \in SUBSET (TxnFields \ {"attrs"})
  PROVE  Frame(K, t, nr_txn_set_attribute(t, name, value))
<1> DEFINE e == t.attrs \union {[name |-> <<name>>, dests |-> AttributeDestinations[name]]}
<1>1. nr_txn_set_attribute(t, name, value) \in {t, [t EXCEPT !.attrs = e]}
  BY DEF nr_txn_set_attribute
<1> HIDE DEF e
<1>2. "attrs" \in TxnFields \ {"opts", "metrics"}
  BY DEF TxnFields
<1> QED
  BY <1>1, <1>2, FrameField, FrameSelf

(* What is taken from $_SERVER and the response.                           *)
LEMMA FrameRequestData ==
  ASSUME NEW t, IsTxn(t), NEW x, NEW y, NEW K \in SUBSET (TxnFields \ Noise)
  PROVE  /\ Frame(K, t, nr_txn_set_request_uri(t, x))
         /\ Frame(K, t, nr_txn_set_http_status(t, x))
         /\ Frame(K, t, nr_txn_set_request_headers(t, x, y))
         /\ Frame(K, t, nr_txn_set_queue_start(t, x))
         /\ Frame(K, t, nr_php_gather_global_params(t, x))
         /\ Frame(K, t, nr_php_txn_set_response_header_attributes(t, x))
<1>0. /\ Frame(K, t, t) /\ K \in SUBSET (TxnFields \ {"attrs"}) /\ K \in SUBSET (TxnFields \ {"request_uri"})
      /\ K \in SUBSET (TxnFields \ {"queue_start"})
      /\ "request_uri" \in TxnFields \ {"opts", "metrics"} /\ "queue_start" \in TxnFields \ {"opts", "metrics"}
  BY FrameSelf DEF Noise, TxnFields
<1>1. Frame(K, t, nr_txn_set_request_uri(t, x))
  <2> DEFINE u == [t EXCEPT !.request_uri = x]
  <2>1. Frame(K, t, u)
    BY <1>0, FrameField
  <2> HIDE DEF u
  <2>2. Frame(K, u, nr_txn_set_attribute(u, "request_uri", x))
    BY <1>0, <2>1, FrameThen, FrameAttribute
  <2> QED
    BY <1>0, <2>1, <2>2, FrameThen DEF nr_txn_set_request_uri, u
<1>2. Frame(K, t, nr_txn_set_http_status(t, x))
  BY <1>0, FrameAttribute DEF nr_txn_set_http_status
<1>3. ASSUME NEW r, NEW c PROVE Frame(K, t, nr_txn_set_request_headers(t, r, c))
  <2> DEFINE u == nr_txn_set_attribute(t, "request_referer", r)
  <2>1. Frame(K, t, u)
    BY <1>0, FrameAttribute
  <2> HIDE DEF u
  <2>2. Frame(K, u, nr_txn_set_attribute(u, "request_headers", c))
    BY <1>0, <2>1, FrameThen, FrameAttribute
  <2> QED
    BY <2>1, <2>2, FrameThen DEF nr_txn_set_request_headers, u
<1>4. Frame(K, t, nr_txn_set_queue_start(t, x))
  BY <1>0, FrameField DEF nr_txn_set_queue_start
<1>5. Frame(K, t, nr_php_gather_global_params(t, x))
  <2> DEFINE u == nr_txn_set_request_headers(t, x.referer, x.content_length)
             v == nr_txn_set_attribute(u, "user_agent", x.user_agent)
             w == nr_txn_set_attribute(v, "server_name", x.server_name)
  <2>1. Frame(K, t, u)
    BY <1>3
  <2> HIDE DEF u
  <2>2. Frame(K, t, v)
    BY <1>0, <2>1, FrameThen, FrameAttribute
  <2> HIDE DEF v
  <2>3. Frame(K, t, w)
    BY <1>0, <2>2, FrameThen, FrameAttribute
  <2> QED
    BY <2>3 DEF nr_php_gather_global_params, u, v
<1>6. Frame(K, t, nr_php_txn_set_response_header_attributes(t, x))
  BY <1>0, FrameAttribute DEF nr_php_txn_set_response_header_attributes
<1> QED
  BY <1>1, <1>2, <1>3, <1>4, <1>5, <1>6

(* The names of the metrics that decide something.                         *)
LEMMA LoudNames ==
  ASSUME NEW m, m \notin {"OtherTransaction/all", "Apdex", "CreatePayload/Success", "TraceContext/Create/Success"}
  PROVE  <<m>> \notin Loud
<1>1. ASSUME NEW x, <<m>> = <<x>> PROVE m = x
  BY <1>1
<1> QED
  BY <1>1 DEF Loud, CreateSuccess

(* The metrics the acceptance of a trace counts decide nothing.            *)
LEMMA AcceptMetrics ==
  /\ \A p : <<nr_distributed_trace_convert_payload_to_object(p)>> \notin Loud
  /\ \A s, k : <<nr_distributed_trace_convert_w3c_headers_tracestate(s, k).error>> \notin Loud
<1>1. ASSUME NEW p PROVE <<nr_distributed_trace_convert_payload_to_object(p)>> \notin Loud
  <2> DEFINE e == nr_distributed_trace_convert_payload_to_object(p)
  <2>1. e \in {"AcceptPayload/Ignored/Null", "AcceptPayload/ParseException", "AcceptPayload/Ignored/MajorVersion", ""}
    BY DEF nr_distributed_trace_convert_payload_to_object
  <2>2. e \notin {"OtherTransaction/all", "Apdex", "CreatePayload/Success", "TraceContext/Create/Success"}
    <3> HIDE DEF e
    <3> QED BY <2>1, Zenon
  <2> QED
    BY <2>2, LoudNames
<1>2. ASSUME NEW s, NEW k PROVE <<nr_distributed_trace_convert_w3c_headers_tracestate(s, k).error>> \notin Loud
  <2> DEFINE e == nr_distributed_trace_convert_w3c_headers_tracestate(s, k).error
  <2>1. e \in {"TraceState/NoNrEntry", "TraceState/InvalidNrEntry", ""}
    BY DEF nr_distributed_trace_convert_w3c_headers_tracestate
  <2>2. e \notin {"OtherTransaction/all", "Apdex", "CreatePayload/Success", "TraceContext/Create/Success"}
    <3> HIDE DEF e
    <3> QED BY <2>1, Zenon
  <2> QED
    BY <2>2, LoudNames
<1> QED
  BY <1>1, <1>2

(* An inbound trace touches the trace, the type and what CAT knows.        *)
LEMMA FrameAccept ==
  ASSUME NEW t, IsTxn(t), NEW app, NEW h, NEW tr, NEW K \in SUBSET (TxnFields \ (Noise \union {"dt", "type"}))
  PROVE  /\ Frame(K, t, nr_txn_accept_distributed_trace_payload(t, app, h, tr))
         /\ Frame(K, t, nr_txn_accept_distributed_trace_payload_httpsafe(t, app, h, tr))
<1>0. /\ Frame(K, t, t) /\ K \in SUBSET (TxnFields \ {"dt"}) /\ K \in SUBSET (TxnFields \ {"metrics"})
      /\ K \in SUBSET (TxnFields \ {"dt", "type"})
      /\ "dt" \in TxnFields \ {"opts", "metrics"} /\ "type" \in TxnFields \ {"opts", "metrics"}
  BY FrameSelf DEF Noise, TxnFields
<1>c. ASSUME NEW u, IsTxn(u), NEW m \in {"AcceptPayload/Ignored/UntrustedAccount", "TraceContext/TraceParent/Parse/Exception",
          "TraceContext/Accept/Success", "AcceptPayload/Exception", "AcceptPayload/Ignored/Multiple",
          "AcceptPayload/Ignored/CreateBeforeAccept", "AcceptPayload/Success", "AcceptPayload/ParseException"}
      PROVE Frame(K, u, nr_txn_force_single_count(u, m))
  <2>1. <<m>> \notin Loud
    BY DEF Loud, CreateSuccess
  <2> QED
    BY <1>0, <1>c, <2>1, FrameCount
<1>1. ASSUME NEW p PROVE Frame(K, t, nr_txn_accept_new_relic_header(t, app, p, tr).t)
  <2> DEFINE e == nr_distributed_trace_convert_payload_to_object(p)
             a == [t EXCEPT !.dt = nr_distributed_trace_accept_inbound_payload(@, p, tr)]
  <2>1. Frame(K, t, a)
    BY <1>0, FrameField
  <2>2. Frame(K, t, nr_txn_force_single_count(t, e))
    BY <1>0, AcceptMetrics, FrameCount
  <2>3. Frame(K, t, nr_txn_force_single_count(t, "AcceptPayload/Ignored/UntrustedAccount"))
    BY <1>c
  <2>4. nr_txn_accept_new_relic_header(t, app, p, tr).t
          \in {nr_txn_force_single_count(t, e), a, nr_txn_force_single_count(t, "AcceptPayload/Ignored/UntrustedAccount")}
    BY DEF nr_txn_accept_new_relic_header
  <2> HIDE DEF a, e
  <2> QED
    BY <2>1, <2>2, <2>3, <2>4
<1>2. ASSUME NEW p, NEW s PROVE Frame(K, t, nr_txn_accept_w3c_trace_context_headers(t, app, p, s, tr).t)
  <2> DEFINE state == nr_distributed_trace_convert_w3c_headers_tracestate(s, app.trusted_key)
             err == state.error
             counted == IF err = "" THEN t ELSE nr_txn_force_single_count(t, err)
             dt == nr_distributed_trace_accept_inbound_w3c_payload(t.dt, p, state, tr)
             final == nr_distributed_trace_handle_inbound_w3c_sampled_flag(
                        dt, p, t.opts.parent_sampled, t.opts.parent_not_sampled)
             u == [counted EXCEPT !.dt = final]
             v == nr_txn_force_single_count(u, "TraceContext/Accept/Success")
  <2>0. nr_txn_accept_w3c_trace_context_headers(t, app, p, s, tr).t
          \in {nr_txn_force_single_count(t, "TraceContext/TraceParent/Parse/Exception"), v}
    BY DEF nr_txn_accept_w3c_trace_context_headers
  <2>1. <<err>> \notin Loud
    BY AcceptMetrics
  <2> HIDE DEF state, err, final
  <2>2. Frame(K, t, counted)
    BY <1>0, <2>1, FrameCount
  <2> HIDE DEF counted
  <2>3. Frame(K, t, u)
    BY <1>0, <2>2, FrameThen, FrameField
  <2> HIDE DEF u
  <2>4. Frame(K, t, v)
    BY <1>c, <2>3, FrameThen
  <2> HIDE DEF v
  <2> QED
    BY <1>c, <2>0, <2>4
<1>3. Frame(K, t, nr_txn_accept_distributed_trace_payload(t, app, h, tr))
  <2> DEFINE a == IF h.traceparent # NULL
                  THEN nr_txn_accept_w3c_trace_context_headers(t, app, h.traceparent, h.tracestate, tr)
                  ELSE nr_txn_accept_new_relic_header(t, app, h.newrelic, tr)
             ty == IF tr = NULL THEN (IF t.background THEN "Unknown" ELSE "HTTP") ELSE tr
             u == [a.t EXCEPT !.dt = nr_distributed_trace_inbound_set_transport_type(@, ty),
                              !.type = @ \union {"DT_INBOUND"}]
             v == nr_txn_force_single_count(u, "AcceptPayload/Success")
             w == nr_txn_create_dt_metrics(v, "TransportDuration")
  <2>0. nr_txn_accept_distributed_trace_payload(t, app, h, tr)
          \in {nr_txn_force_single_count(t, "AcceptPayload/Exception"),
               nr_txn_force_single_count(t, "AcceptPayload/Ignored/Multiple"),
               nr_txn_force_single_count(t, "AcceptPayload/Ignored/CreateBeforeAccept"), a.t, w}
    BY DEF nr_txn_accept_distributed_trace_payload
  <2>1. Frame(K, t, a.t)
    BY <1>1, <1>2
  <2> HIDE DEF a, ty
  <2>2. Frame(K, t, u)
    <3>1. IsTxn(a.t)
      BY <2>1, FrameThen
    <3>2. Frame(K, a.t, u)
      BY <1>0, <3>1, FrameTwo
    <3> QED
      BY <2>1, <3>2, FrameThen
  <2> HIDE DEF u
  <2>3. Frame(K, t, v)
    BY <1>c, <2>2, FrameThen
  <2> HIDE DEF v
  <2>4. Frame(K, t, w)
    BY <1>0, <2>3, FrameThen, FrameDtMetrics
  <2> HIDE DEF w
  <2> QED
    BY <1>c, <2>0, <2>1, <2>4
<1> QED
  BY <1>0, <1>3, <1>c DEF nr_txn_accept_distributed_trace_payload_httpsafe

(* What a request brings along: a trace, CAT's headers or neither.         *)
LEMMA FrameInbound ==
  ASSUME NEW t, IsTxn(t), NEW app, NEW server, NEW K \in SUBSET (TxnFields \ (Noise \union {"dt", "type", "cat"}))
  PROVE  Frame(K, t, AcceptInbound(t, app, server))
<1>0. /\ Frame(K, t, t) /\ K \in SUBSET (TxnFields \ {"cat"}) /\ K \in SUBSET (TxnFields \ {"type", "cat"})
      /\ K \in SUBSET (TxnFields \ (Noise \union {"dt", "type"}))
      /\ "cat" \in TxnFields \ {"opts", "metrics"} /\ "type" \in TxnFields \ {"opts", "metrics"}
  BY FrameSelf DEF Noise, TxnFields
<1>1. ASSUME NEW x, NEW y PROVE Frame(K, t, nr_header_set_cat_txn(t, app, x, y).t)
  <2> DEFINE u == [t EXCEPT !.cat.client = nr_header_decode(app, x)]
  <2>1. Frame(K, t, u)
    BY <1>0, FrameField
  <2>2. nr_header_set_cat_txn(t, app, x, y).t
          \in {t, u, nr_header_process_x_newrelic_transaction(u, nr_header_decode(app, y)).t}
    BY DEF nr_header_set_cat_txn
  <2> HIDE DEF u
  <2>3. ASSUME NEW f PROVE Frame(K, u, nr_header_process_x_newrelic_transaction(u, f).t)
    <3>1. IsTxn(u) /\ Frame(K, u, u)
      BY <2>1, FrameThen, FrameSelf
    <3> QED
      BY <1>0, <3>1, FrameTwo DEF nr_header_process_x_newrelic_transaction
  <2> QED
    BY <1>0, <2>1, <2>2, <2>3, FrameThen
<1> QED
  BY <1>0, <1>1, FrameAccept DEF AcceptInbound

(* A synthetics header is taken.                                           *)
LEMMA FrameSynthetics ==
  ASSUME NEW t, IsTxn(t), NEW app, NEW h, NEW K \in SUBSET (TxnFields \ {"synthetics", "type"})
  PROVE  Frame(K, t, nr_header_set_synthetics_txn(t, app, h))
<1>1. "synthetics" \in TxnFields \ {"opts", "metrics"} /\ "type" \in TxnFields \ {"opts", "metrics"}
  BY DEF TxnFields
<1> DEFINE s == nr_header_inbound_synthetics(app, h)
           y == t.type \union {"SYNTHETICS"}
<1>2. nr_header_set_synthetics_txn(t, app, h) \in {t, [t EXCEPT !.synthetics = s, !.type = y]}
  BY DEF nr_header_set_synthetics_txn
<1> HIDE DEF s, y
<1>3. Frame(K, t, [t EXCEPT !.synthetics = s, !.type = y])
  BY <1>1, FrameTwo
<1>4. Frame(K, t, t)
  BY FrameSelf
<1> QED
  BY <1>2, <1>3, <1>4

(* A name that says what a transaction is at the moment.                   *)
NamedFor(t, name) == name \in TxnNames /\ name.kind = t.path_type /\ name.other = t.background

(* The values a path may have.                                             *)
IsPath(p) == p \in Texts \union {NULL}

(* A text with a word before it is a text.                                 *)
LEMMA LongerTexts ==
  ASSUME NEW p \in Texts PROVE Renamed(p) \in Texts /\ <<"*">> \o p \in Texts
<1> DEFINE S == Words \union Nat
<1>1. "renamed" \in S /\ "*" \in S
  BY Zenon DEF Words
<1>2. p \in Seq(S)
  BY DEF Texts
<1> HIDE DEF S
<1>3. ASSUME NEW w \in S PROVE <<w>> \o p \in Seq(S)
  <2>1. <<w>> \in Seq(S)
    OBVIOUS
  <2> QED
    BY <1>2, <2>1
<1> QED
  BY <1>1, <1>3 DEF Texts, Renamed, S

(* What a freeze touches.                                                  *)
Frozen == {"opts", "path", "name", "ignore", "frozen"}

(* The rules for URLs: they may change the path or ignore.                 *)
LEMMA UrlRules ==
  ASSUME NEW t, IsTxn(t), IsPath(t.path), t.path # NULL, NEW r
  PROVE  /\ Frame(TxnFields \ {"path", "ignore"}, t, nr_txn_apply_url_rules(t, r))
         /\ IsPath(nr_txn_apply_url_rules(t, r).path)
<1> DEFINE yes == [t EXCEPT !.ignore = TRUE]
           long == Renamed(t.path)
           new == [t EXCEPT !.path = long]
<1>1. nr_txn_apply_url_rules(t, r) \in {t, yes, new}
  BY DEF nr_txn_apply_url_rules
<1>2. long \in Texts
  BY LongerTexts DEF IsPath, Renamed
<1> HIDE DEF long
<1>3. "path" \in TxnFields \ {"opts", "metrics"} /\ "ignore" \in TxnFields \ {"opts", "metrics"}
  BY DEF TxnFields
<1>4. Frame(TxnFields \ {"path", "ignore"}, t, yes) /\ yes.path = t.path
  BY <1>3, FrameField DEF IsTxn
<1>5. Frame(TxnFields \ {"path", "ignore"}, t, new) /\ new.path = long
  BY <1>3, FrameField DEF IsTxn
<1> HIDE DEF yes, new
<1>6. Frame(TxnFields \ {"path", "ignore"}, t, t)
  BY FrameSelf
<1> QED
  BY <1>1, <1>2, <1>4, <1>5, <1>6 DEF IsPath

(* The rules for names and the terms: they may change the path of the name *)
(* or ignore.                                                              *)
LEMMA NameRules ==
  ASSUME NEW t, IsTxn(t), t.name \in TxnNames, NEW r
  PROVE  /\ Frame(TxnFields \ {"name", "ignore"}, t, nr_txn_apply_txn_rules(t, r))
         /\ Frame(TxnFields \ {"name"}, t, nr_txn_apply_segment_terms(t, r))
         /\ nr_txn_apply_txn_rules(t, r).name \in TxnNames
         /\ nr_txn_apply_segment_terms(t, r).name \in TxnNames
         /\ nr_txn_apply_txn_rules(t, r).name.kind = t.name.kind
         /\ nr_txn_apply_segment_terms(t, r).name.kind = t.name.kind
         /\ nr_txn_apply_txn_rules(t, r).name.other = t.name.other
         /\ nr_txn_apply_segment_terms(t, r).name.other = t.name.other
<1> DEFINE yes == [t EXCEPT !.ignore = TRUE]
           n == [t.name EXCEPT !.path = Renamed(@)]
           m == [t.name EXCEPT !.path = <<"*">> \o @]
           new == [t EXCEPT !.name = n]
           term == [t EXCEPT !.name = m]
<1>1. nr_txn_apply_txn_rules(t, r) \in {t, yes, new} /\ nr_txn_apply_segment_terms(t, r) \in {t, term}
  BY DEF nr_txn_apply_txn_rules, nr_txn_apply_segment_terms, IsTxn, TxnFields
<1>2. /\ t.name.path \in Texts /\ Renamed(t.name.path) \in Texts /\ <<"*">> \o t.name.path \in Texts
  BY LongerTexts DEF TxnNames, Renamed
<1>3. /\ n \in TxnNames /\ n.kind = t.name.kind /\ n.other = t.name.other
      /\ m \in TxnNames /\ m.kind = t.name.kind /\ m.other = t.name.other
  BY <1>2 DEF TxnNames
<1> HIDE DEF n, m
<1>4. "name" \in TxnFields \ {"opts", "metrics"} /\ "ignore" \in TxnFields \ {"opts", "metrics"}
  BY DEF TxnFields
<1>5. Frame(TxnFields \ {"name", "ignore"}, t, yes) /\ yes.name = t.name
  BY <1>4, FrameField DEF IsTxn
<1>6. Frame(TxnFields \ {"name", "ignore"}, t, new) /\ new.name = n
  BY <1>4, FrameField DEF IsTxn
<1>7. Frame(TxnFields \ {"name"}, t, term) /\ term.name = m
  BY <1>4, FrameField DEF IsTxn
<1> HIDE DEF yes, new, term
<1>8. Frame(TxnFields \ {"name", "ignore"}, t, t) /\ Frame(TxnFields \ {"name"}, t, t)
  BY FrameSelf
<1> QED
  BY <1>1, <1>3, <1>5, <1>6, <1>7, <1>8

(* The threshold of a key transaction.                                     *)
LEMMA KeyApdex ==
  ASSUME NEW t, IsTxn(t), NEW k
  PROVE  Frame(TxnFields \ {"opts"}, t, nr_txn_update_apdex_if_key_txn(t, k))
<1> DEFINE u == [t EXCEPT !.opts.apdex_t = k,
                 !.opts.tt_threshold = IF t.opts.tt_is_apdex_f THEN 4 * k ELSE @]
<1>1. nr_txn_update_apdex_if_key_txn(t, k) \in {t, u}
  BY DEF nr_txn_update_apdex_if_key_txn
<1>2. DOMAIN u = TxnFields /\ DOMAIN u.opts = DOMAIN t.opts /\ \A f \in TxnFields \ {"opts"} : u[f] = t[f]
  BY DEF IsTxn, TxnFields
<1> HIDE DEF u
<1>3. "metrics" \in TxnFields \ {"opts"}
  BY DEF TxnFields
<1>4. Frame(TxnFields \ {"opts"}, t, u)
  BY <1>2, <1>3 DEF Frame, IsTxn
<1> QED
  BY <1>1, <1>4, FrameSelf

(* The name a freeze computes.                                             *)
LEMMA FullNameFacts ==
  ASSUME NEW t, t.path_type \in PathTypes, IsPath(t.path), t.background \in BOOLEAN
  PROVE  NamedFor(t, FullName(t))
<1> DEFINE S == Words \union Nat
           p == IF t.path_type = "UNKNOWN" THEN <<"<unknown>">> ELSE IF t.path = NULL THEN <<"unknown">> ELSE t.path
<1>1. "<unknown>" \in S /\ "unknown" \in S
  BY Zenon DEF Words
<1>2. \A w \in S : <<w>> \in Seq(S)
  <2> HIDE DEF S
  <2> QED OBVIOUS
<1>3. <<"<unknown>">> \in Seq(S) /\ <<"unknown">> \in Seq(S)
  BY <1>1, <1>2, Zenon
<1>4. t.path = NULL \/ t.path \in Seq(S)
  BY DEF IsPath, Texts
<1> HIDE DEF S
<1>5. p \in Seq(S)
  BY <1>3, <1>4, Zenon
<1>6. FullName(t) = [other |-> t.background, kind |-> t.path_type, path |-> p]
  BY Zenon DEF FullName
<1> HIDE DEF p
<1>7. Seq(S) = Texts
  BY DEF S, Texts
<1> QED
  BY <1>5, <1>6, <1>7 DEF NamedFor, TxnNames

(* What nr_txn_freeze_name_update_apdex may come to: the transaction is    *)
(* ignored, was frozen before, has lost its application, is ignored by a   *)
(* rule, or is named.                                                      *)
FreezeOutcome(t, app, f) ==
  \/ t.ignore /\ f.t = t /\ ~f.ok
  \/ ~t.ignore /\ t.frozen /\ f.t = t /\ f.ok
  \/ /\ ~t.ignore /\ ~t.frozen /\ app.run # t.run /\ ~f.ok
     /\ f.t.frozen /\ f.t.name = t.name /\ f.t.ignore = t.ignore
  \/ /\ ~t.ignore /\ ~t.frozen /\ ~f.ok /\ f.t.frozen /\ f.t.ignore
     /\ f.t.name = t.name \/ NamedFor(t, f.t.name)
  \/ ~t.ignore /\ ~t.frozen /\ f.ok /\ f.t.frozen /\ ~f.t.ignore /\ NamedFor(t, f.t.name)

(* These, and nothing else is touched.                                     *)
LEMMA FreezeFacts ==
  ASSUME NEW t, IsTxn(t), NEW app, t.path_type \in PathTypes, IsPath(t.path), t.background \in BOOLEAN,
         NEW f, f = nr_txn_freeze_name_update_apdex(t, app)
  PROVE  /\ Frame(TxnFields \ Frozen, t, f.t) /\ IsPath(f.t.path)
         /\ FreezeOutcome(t, app, f)
<1> DEFINE K == TxnFields \ Frozen
           frozen == [t EXCEPT !.frozen = TRUE]
           ruled  == IF t.path # NULL /\ nr_txn_should_do_url_rules(t.path_type, t.background)
                     THEN nr_txn_apply_url_rules(frozen, app.url_rules) ELSE frozen
           new    == [ruled EXCEPT !.name = FullName(ruled)]
           named  == nr_txn_apply_txn_rules(new, app.txn_rules)
           terms  == nr_txn_apply_segment_terms(named, app.terms)
           whole  == nr_txn_update_apdex_if_key_txn(terms, app.key_apdex)
<1>0. /\ {"frozen", "name"} \subseteq TxnFields \ {"opts", "metrics"} /\ Frozen \subseteq TxnFields
      /\ K \in SUBSET (TxnFields \ {"frozen"}) /\ K \in SUBSET (TxnFields \ {"path", "ignore"})
      /\ K \in SUBSET (TxnFields \ {"name"}) /\ K \in SUBSET (TxnFields \ {"name", "ignore"})
      /\ K \in SUBSET (TxnFields \ {"opts"}) /\ "path_type" \in K /\ "background" \in K
  BY DEF TxnFields, Frozen
<1>1. f = IF t.ignore THEN [t |-> t, ok |-> FALSE]
          ELSE IF t.frozen THEN [t |-> t, ok |-> TRUE]
          ELSE IF app.run # t.run THEN [t |-> frozen, ok |-> FALSE]
          ELSE IF ruled.ignore THEN [t |-> ruled, ok |-> FALSE]
          ELSE IF named.ignore THEN [t |-> named, ok |-> FALSE]
          ELSE [t |-> whole, ok |-> TRUE]
  BY DEF nr_txn_freeze_name_update_apdex
<1>2. /\ Frame(K, t, frozen) /\ frozen.frozen /\ IsTxn(frozen) /\ frozen.path = t.path
      /\ frozen.name = t.name /\ frozen.ignore = t.ignore
  <2>1. Frame(K, t, frozen)
    BY <1>0, FrameField
  <2>2. frozen.frozen /\ frozen.path = t.path /\ frozen.name = t.name /\ frozen.ignore = t.ignore
    BY DEF IsTxn, TxnFields
  <2> QED
    BY <2>1, <2>2, FrameThen
<1> HIDE DEF frozen
<1>3. Frame(K, t, ruled) /\ ruled.frozen /\ IsTxn(ruled) /\ IsPath(ruled.path) /\ ruled.name = t.name
  <2>1. ASSUME t.path # NULL, NEW r
        PROVE  /\ Frame(K, t, nr_txn_apply_url_rules(frozen, r)) /\ nr_txn_apply_url_rules(frozen, r).frozen
               /\ IsPath(nr_txn_apply_url_rules(frozen, r).path)
               /\ nr_txn_apply_url_rules(frozen, r).name = t.name
    <3> DEFINE v == nr_txn_apply_url_rules(frozen, r)
    <3>1. Frame(TxnFields \ {"path", "ignore"}, frozen, v) /\ IsPath(v.path)
      BY <1>2, <2>1, UrlRules
    <3> HIDE DEF v
    <3>2. Frame(K, frozen, v)
      BY <1>0, <3>1, FrameLess
    <3>3. v.frozen = frozen.frozen /\ v.name = frozen.name
      BY <3>1 DEF Frame, TxnFields
    <3> QED
      BY <1>2, <3>1, <3>2, <3>3, FrameThen DEF v
  <2>2. CASE t.path # NULL /\ nr_txn_should_do_url_rules(t.path_type, t.background)
    BY <2>1, <2>2, FrameThen
  <2>3. CASE ~(t.path # NULL /\ nr_txn_should_do_url_rules(t.path_type, t.background))
    BY <1>2, <2>3
  <2> QED
    BY <2>2, <2>3
<1> HIDE DEF ruled
<1>4. /\ Frame(K, t, new) /\ new.frozen /\ IsTxn(new) /\ IsPath(new.path)
      /\ NamedFor(t, new.name)
  <2>1. ruled.path_type = t.path_type /\ ruled.background = t.background
    BY <1>0, <1>3 DEF Frame
  <2>2. NamedFor(ruled, FullName(ruled))
    BY <1>3, <2>1, FullNameFacts
  <2>3. NamedFor(t, FullName(ruled))
    BY <2>1, <2>2 DEF NamedFor
  <2>4. Frame(K, ruled, new)
    BY <1>0, <1>3, FrameField
  <2>5. new.frozen = ruled.frozen /\ new.path = ruled.path /\ new.name = FullName(ruled)
    BY <1>3 DEF IsTxn, TxnFields
  <2> HIDE DEF new
  <2>6. Frame(K, t, new)
    BY <1>3, <2>4, FrameThen
  <2> QED
    BY <1>3, <2>3, <2>5, <2>6, FrameThen
<1> HIDE DEF new
<1>5. /\ Frame(K, t, named) /\ named.frozen /\ IsTxn(named) /\ IsPath(named.path) /\ NamedFor(t, named.name)
  <2>1. /\ Frame(TxnFields \ {"name", "ignore"}, new, named) /\ named.name \in TxnNames
        /\ named.name.kind = new.name.kind /\ named.name.other = new.name.other
    BY <1>4, NameRules DEF NamedFor
  <2> HIDE DEF named
  <2>2. named.frozen = new.frozen /\ named.path = new.path
    BY <2>1 DEF Frame, TxnFields
  <2>3. Frame(K, t, named)
    BY <1>0, <1>4, <2>1, FrameLess, FrameThen
  <2>4. NamedFor(t, named.name)
    BY <1>4, <2>1 DEF NamedFor
  <2> QED
    BY <1>4, <2>2, <2>3, <2>4, FrameThen
<1> HIDE DEF named
<1>6. /\ Frame(K, t, terms) /\ terms.frozen /\ IsTxn(terms) /\ IsPath(terms.path) /\ NamedFor(t, terms.name)
      /\ terms.ignore = named.ignore
  <2>1. /\ Frame(TxnFields \ {"name"}, named, terms) /\ terms.name \in TxnNames
        /\ terms.name.kind = named.name.kind /\ terms.name.other = named.name.other
    BY <1>5, NameRules DEF NamedFor
  <2> HIDE DEF terms
  <2>2. terms.frozen = named.frozen /\ terms.path = named.path /\ terms.ignore = named.ignore
    BY <2>1 DEF Frame, TxnFields
  <2>3. Frame(K, t, terms)
    BY <1>0, <1>5, <2>1, FrameLess, FrameThen
  <2>4. NamedFor(t, terms.name)
    BY <1>5, <2>1 DEF NamedFor
  <2> QED
    BY <1>5, <2>2, <2>3, <2>4, FrameThen
<1> HIDE DEF terms
<1>7. /\ Frame(K, t, whole) /\ whole.frozen /\ IsPath(whole.path) /\ NamedFor(t, whole.name)
      /\ whole.ignore = named.ignore
  <2>1. Frame(TxnFields \ {"opts"}, terms, whole)
    BY <1>6, KeyApdex
  <2> HIDE DEF whole
  <2>2. whole.frozen = terms.frozen /\ whole.path = terms.path /\ whole.ignore = terms.ignore /\ whole.name = terms.name
    BY <2>1 DEF Frame, TxnFields
  <2>3. Frame(K, t, whole)
    BY <1>0, <1>6, <2>1, FrameLess, FrameThen
  <2> QED
    BY <1>6, <2>2, <2>3
<1> HIDE DEF whole
<1>8. Frame(K, t, t)
  BY FrameSelf
<1> HIDE DEF K
<1>9. CASE t.ignore
  BY <1>1, <1>8, <1>9 DEF K, FreezeOutcome
<1>10. CASE ~t.ignore /\ t.frozen
  BY <1>1, <1>8, <1>10 DEF K, FreezeOutcome
<1>11. CASE ~t.ignore /\ ~t.frozen /\ app.run # t.run
  <2>1. f = [t |-> frozen, ok |-> FALSE]
    BY <1>1, <1>11
  <2> QED
    BY <1>2, <1>11, <2>1 DEF K, FreezeOutcome
<1>12. CASE ~t.ignore /\ ~t.frozen /\ app.run = t.run /\ ruled.ignore
  <2>1. f = [t |-> ruled, ok |-> FALSE]
    BY <1>1, <1>12
  <2> QED
    BY <1>3, <1>12, <2>1 DEF K, FreezeOutcome
<1>13. CASE ~t.ignore /\ ~t.frozen /\ app.run = t.run /\ ~ruled.ignore /\ named.ignore
  <2>1. f = [t |-> named, ok |-> FALSE]
    BY <1>1, <1>13
  <2> QED
    BY <1>5, <1>13, <2>1 DEF K, FreezeOutcome
<1>14. CASE ~t.ignore /\ ~t.frozen /\ app.run = t.run /\ ~ruled.ignore /\ ~named.ignore
  <2>1. f = [t |-> whole, ok |-> TRUE]
    BY <1>1, <1>14
  <2> QED
    BY <1>7, <1>14, <2>1 DEF K, FreezeOutcome
<1> QED
  BY <1>9, <1>10, <1>11, <1>12, <1>13, <1>14

(* What a running transaction t is, as far as its report is concerned, with*)
(* its history h.  A name is not told before it is frozen, a frozen name   *)
(* is as good as the best one that came in time and says what the          *)
(* transaction is, and only another run leaves a frozen one without.       *)
Story(t, h, app) ==
  /\ IsTxn(t) /\ DOMAIN h = {"told", "errors", "ignored", "best"} /\ h.best \in 0..5
  /\ t.run = 1 /\ ~t.complete /\ t.background \in BOOLEAN
  /\ t.path_type \in PathTypes /\ IsPath(t.path)
  /\ t.rum_header \in 0..2 /\ t.rum_footer \in 0..2
  /\ Loud \intersect t.metrics = {}
  /\ h.ignored => t.ignore
  /\ t.rum_footer # 0 => t.frozen
  /\ ~t.frozen => h.told = {} /\ t.name = NULL /\ PathRank[t.path_type] >= h.best
  /\ t.frozen => h.told \subseteq {t.name}
  /\ t.frozen /\ t.name # NULL =>
       t.name \in TxnNames /\ PathRank[t.name.kind] >= h.best /\ t.name.other = t.background
  /\ t.frozen /\ t.name = NULL /\ ~t.ignore => app.run # t.run

(* The fields a story is about.                                            *)
StoryFields == {"run", "complete", "background", "path_type", "path", "rum_header", "rum_footer",
                "ignore", "frozen", "name"}

(* The ranks of path types.                                                *)
LEMMA Ranks == \A p \in PathTypes : PathRank[p] \in 0..5
<1>1. ASSUME NEW p \in PathTypes PROVE PathRank[p] \in 0..5
  BY DEF PathTypes, PathRank
<1> QED
  BY <1>1

(* A function that touches none of these fields keeps the story.           *)
LEMMA StoryFrame ==
  ASSUME NEW t, NEW h, NEW app, Story(t, h, app), NEW u, Frame(StoryFields, t, u)
  PROVE  Story(u, h, app)
<1>1. /\ u.run = t.run /\ u.complete = t.complete /\ u.background = t.background
      /\ u.path_type = t.path_type /\ u.path = t.path /\ u.rum_header = t.rum_header
      /\ u.rum_footer = t.rum_footer /\ u.ignore = t.ignore /\ u.frozen = t.frozen /\ u.name = t.name
      /\ IsTxn(u)
  BY DEF Frame, StoryFields
<1>2. Loud \intersect u.metrics = {}
  BY DEF Frame, Story
<1> QED
  BY <1>1, <1>2 DEF Story

(* A path is set; one that came in time counts for the best name.          *)
LEMMA StoryPath ==
  ASSUME NEW t, NEW h, NEW app, Story(t, h, app), NEW path, IsPath(path),
         NEW ptype \in PathTypes, NEW ok
  PROVE  /\ Story(nr_txn_set_path(t, path, ptype, ok), h, app)
         /\ path # NULL => Story(nr_txn_set_path(t, path, ptype, ok),
              IF t.frozen THEN h ELSE [h EXCEPT !.best = Higher(@, PathRank[ptype])], app)
<1> DEFINE u == nr_txn_set_path(t, path, ptype, ok)
           new == [t EXCEPT !.path_type = ptype, !.path = path]
           g == [h EXCEPT !.best = Higher(@, PathRank[ptype])]
<1>0. IsTxn(t) /\ PathRank[ptype] \in 0..5 /\ PathRank[t.path_type] \in 0..5 /\ h.best \in 0..5
  BY Ranks DEF Story
<1>1. /\ DOMAIN g = {"told", "errors", "ignored", "best"} /\ g.told = h.told /\ g.ignored = h.ignored
      /\ g.best = Higher(h.best, PathRank[ptype])
  BY DEF Story
<1> HIDE DEF g
<1>2. g.best \in 0..5 /\ g.best >= h.best /\ g.best >= PathRank[ptype] /\ (g.best = h.best \/ g.best = PathRank[ptype])
  BY <1>0, <1>1 DEF Higher
<1>3. CASE u = t /\ (path = NULL \/ t.frozen)
  <2>1. Story(u, h, app)
    BY <1>3
  <2> QED
    BY <1>3, <2>1 DEF g
<1>4. CASE u = t /\ path # NULL /\ ~t.frozen /\ PathRank[ptype] <= PathRank[t.path_type]
  <2>1. Story(t, g, app)
    BY <1>0, <1>1, <1>2, <1>4 DEF Story
  <2> QED
    BY <1>4, <2>1 DEF g
<1>5. CASE u = new /\ ~t.frozen /\ PathRank[ptype] >= PathRank[t.path_type]
  <2>1. Frame(StoryFields \ {"path_type", "path"}, t, new)
    <3>1. /\ "path_type" \in TxnFields \ {"opts", "metrics"} /\ "path" \in TxnFields \ {"opts", "metrics"}
          /\ StoryFields \ {"path_type", "path"} \in SUBSET (TxnFields \ {"path_type", "path"})
      BY DEF TxnFields, StoryFields
    <3> QED
      BY <1>0, <3>1, FrameTwo
  <2>2. new.path_type = ptype /\ new.path = path
    BY <1>0 DEF IsTxn, TxnFields
  <2> HIDE DEF new
  <2>3. /\ new.run = t.run /\ new.complete = t.complete /\ new.background = t.background
        /\ new.rum_header = t.rum_header /\ new.rum_footer = t.rum_footer /\ new.ignore = t.ignore
        /\ new.frozen = t.frozen /\ new.name = t.name /\ IsTxn(new)
    BY <2>1 DEF Frame, StoryFields
  <2>4. Loud \intersect new.metrics = {}
    BY <2>1 DEF Frame, Story
  <2>5. Story(new, h, app)
    BY <1>0, <1>5, <2>2, <2>3, <2>4 DEF Story
  <2>6. Story(new, g, app)
    BY <1>0, <1>1, <1>2, <1>5, <2>2, <2>3, <2>4 DEF Story
  <2> QED
    BY <1>5, <2>5, <2>6 DEF g
<1>6. \/ u = t /\ (path = NULL \/ t.frozen)
      \/ u = t /\ path # NULL /\ ~t.frozen /\ PathRank[ptype] <= PathRank[t.path_type]
      \/ u = new /\ ~t.frozen /\ PathRank[ptype] >= PathRank[t.path_type]
  BY <1>0 DEF nr_txn_set_path
<1> QED
  BY <1>3, <1>4, <1>5, <1>6

(* The two weaker ways to a name.                                          *)
LEMMA StoryNaming ==
  ASSUME NEW t, NEW h, NEW app, Story(t, h, app), NEW path, IsPath(path)
  PROVE  /\ Story(nr_txn_name_from_function(t, path), h, app)
         /\ Story(nr_txn_match_file(t, path), h, app)
         /\ Story(nr_txn_add_file_naming_pattern(t, path), h, app)
<1>1. "FUNCTION" \in PathTypes /\ "ACTION" \in PathTypes
  BY DEF PathTypes
<1>2. PICK no : \/ nr_txn_name_from_function(t, path) = t
                \/ nr_txn_name_from_function(t, path) = nr_txn_set_path(t, path, "FUNCTION", no)
  BY Zenon DEF nr_txn_name_from_function
<1>4. PICK n : \/ nr_txn_match_file(t, path) = t
               \/ nr_txn_match_file(t, path) = nr_txn_set_path(t, path, "ACTION", n)
  BY Zenon DEF nr_txn_match_file
<1>3. Story([t EXCEPT !.match_filenames = @ \union {path}], h, app)
  <2>1. "match_filenames" \in TxnFields \ {"opts", "metrics"} /\ StoryFields \in SUBSET (TxnFields \ {"match_filenames"})
    BY DEF TxnFields, StoryFields
  <2>2. Frame(StoryFields, t, [t EXCEPT !.match_filenames = @ \union {path}])
    BY <2>1, FrameField DEF Story
  <2> QED
    BY <2>2, StoryFrame
<1>5. Story(nr_txn_name_from_function(t, path), h, app)
  BY <1>1, <1>2, StoryPath
<1>6. Story(nr_txn_match_file(t, path), h, app)
  BY <1>1, <1>4, StoryPath
<1>7. Story(nr_txn_add_file_naming_pattern(t, path), h, app)
  BY <1>3 DEF nr_txn_add_file_naming_pattern
<1> QED
  BY <1>5, <1>6, <1>7

(* newrelic_background_job: the status of a frozen transaction stays.      *)
LEMMA StoryBackground ==
  ASSUME NEW t, NEW h, NEW app, Story(t, h, app), NEW b \in BOOLEAN
  PROVE  Story(nr_txn_change_background_status(t, b), h, app)
<1>0. IsTxn(t)
  BY DEF Story
<1>1. CASE t.frozen
  <2>1. <<"background_status_change_prevented">> \notin Loud /\ StoryFields \in SUBSET (TxnFields \ {"metrics"})
    BY DEF Loud, CreateSuccess, TxnFields, StoryFields
  <2>2. Frame(StoryFields, t, nr_txn_force_single_count(t, "background_status_change_prevented"))
    BY <1>0, <2>1, FrameCount
  <2> QED
    BY <1>1, <2>2, StoryFrame DEF nr_txn_change_background_status
<1>2. CASE ~t.frozen
  <2> DEFINE u == [t EXCEPT !.background = b]
  <2>1. Frame(StoryFields \ {"background"}, t, u)
    <3>1. /\ "background" \in TxnFields \ {"opts", "metrics"}
          /\ StoryFields \ {"background"} \in SUBSET (TxnFields \ {"background"})
      BY DEF TxnFields, StoryFields
    <3> QED
      BY <1>0, <3>1, FrameField
  <2>2. u.background = b
    BY <1>0 DEF IsTxn, TxnFields
  <2>3. u = nr_txn_change_background_status(t, b)
    BY <1>2 DEF nr_txn_change_background_status
  <2> HIDE DEF u
  <2>4. /\ u.run = t.run /\ u.complete = t.complete /\ u.path_type = t.path_type /\ u.path = t.path
        /\ u.rum_header = t.rum_header /\ u.rum_footer = t.rum_footer /\ u.ignore = t.ignore
        /\ u.frozen = t.frozen /\ u.name = t.name /\ IsTxn(u)
    BY <2>1 DEF Frame, StoryFields
  <2>5. Loud \intersect u.metrics = {}
    BY <2>1 DEF Frame, Story
  <2>6. Story(u, h, app)
    BY <1>2, <2>2, <2>4, <2>5 DEF Story
  <2> QED
    BY <2>3, <2>6
<1> QED
  BY <1>1, <1>2

(* newrelic_ignore_transaction is remembered.                              *)
LEMMA StoryIgnore ==
  ASSUME NEW t, NEW h, NEW app, Story(t, h, app)
  PROVE  Story(nr_txn_ignore(t), [h EXCEPT !.ignored = TRUE], app)
<1> DEFINE u == nr_txn_ignore(t)
           g == [h EXCEPT !.ignored = TRUE]
<1>0. IsTxn(t)
  BY DEF Story
<1>1. DOMAIN g = {"told", "errors", "ignored", "best"} /\ g.told = h.told /\ g.best = h.best
  BY DEF Story
<1> HIDE DEF g
<1>2. u.ignore /\ Frame(StoryFields \ {"ignore"}, t, u)
  <2>1. /\ "ignore" \in TxnFields \ {"opts", "metrics"} /\ "recording" \in TxnFields \ {"opts", "metrics"}
        /\ StoryFields \ {"ignore"} \in SUBSET (TxnFields \ {"ignore", "recording"})
    BY DEF TxnFields, StoryFields
  <2>2. PICK yes, no : u = [t EXCEPT !.ignore = yes, !.recording = no]
    BY Zenon DEF nr_txn_ignore
  <2>3. u.ignore
    BY <1>0 DEF nr_txn_ignore, IsTxn, TxnFields
  <2> HIDE DEF u
  <2> QED
    BY <1>0, <2>1, <2>2, <2>3, FrameTwo
<1> HIDE DEF u
<1>3. /\ u.run = t.run /\ u.complete = t.complete /\ u.path_type = t.path_type /\ u.path = t.path
      /\ u.rum_header = t.rum_header /\ u.rum_footer = t.rum_footer /\ u.background = t.background
      /\ u.frozen = t.frozen /\ u.name = t.name /\ IsTxn(u)
  BY <1>2 DEF Frame, StoryFields
<1>4. Loud \intersect u.metrics = {}
  BY <1>2 DEF Frame, Story
<1>5. Story(u, g, app)
  BY <1>1, <1>2, <1>3, <1>4 DEF Story
<1> QED
  BY <1>5 DEF u, g

(* A freeze keeps the story, and a transaction whose name may be told is   *)
(* frozen.                                                                 *)
LEMMA StoryFreeze ==
  ASSUME NEW t, NEW h, NEW app, Story(t, h, app), NEW f, f = nr_txn_freeze_name_update_apdex(t, app)
  PROVE  Story(f.t, h, app) /\ (f.ok => f.t.frozen)
<1>0. IsTxn(t) /\ t.path_type \in PathTypes /\ IsPath(t.path) /\ t.background \in BOOLEAN
  BY DEF Story
<1>1. /\ Frame(TxnFields \ Frozen, t, f.t) /\ IsPath(f.t.path)
      /\ FreezeOutcome(t, app, f)
  BY <1>0, FreezeFacts
<1> DEFINE u == f.t
<1> HIDE DEF u
<1>2. /\ u.run = t.run /\ u.complete = t.complete /\ u.background = t.background
      /\ u.path_type = t.path_type /\ u.rum_header = t.rum_header /\ u.rum_footer = t.rum_footer /\ IsTxn(u)
  BY <1>1 DEF Frame, TxnFields, Frozen, u
<1>3. Loud \intersect u.metrics = {}
  BY <1>1 DEF Frame, Story, u
<1>4. CASE f.t = t
  BY <1>1, <1>4 DEF FreezeOutcome
<1>5. CASE ~t.ignore /\ ~t.frozen /\ app.run # t.run /\ ~f.ok /\ u.frozen /\ u.name = t.name /\ u.ignore = t.ignore
  <2>1. Story(u, h, app)
    BY <1>1, <1>2, <1>3, <1>5 DEF Story, u
  <2> QED
    BY <1>5, <2>1 DEF u
<1>6. CASE /\ ~t.ignore /\ ~t.frozen /\ ~f.ok /\ u.frozen /\ u.ignore
           /\ u.name = t.name \/ NamedFor(t, u.name)
  <2>1. Story(u, h, app)
    BY <1>1, <1>2, <1>3, <1>6, RequestAssumption DEF Story, NamedFor, u
  <2> QED
    BY <1>6, <2>1 DEF u
<1>7. CASE ~t.ignore /\ ~t.frozen /\ f.ok /\ u.frozen /\ ~u.ignore /\ NamedFor(t, u.name)
  <2>1. u.name # NULL
    BY <1>7, RequestAssumption DEF NamedFor
  <2>2. Story(u, h, app)
    BY <1>1, <1>2, <1>3, <1>7, <2>1 DEF Story, NamedFor, u
  <2> QED
    BY <1>7, <2>2 DEF u
<1> QED
  BY <1>1, <1>4, <1>5, <1>6, <1>7 DEF u, FreezeOutcome

(* A name that is told once it is frozen.                                  *)
LEMMA StoryTold ==
  ASSUME NEW t, NEW h, NEW app, Story(t, h, app), t.frozen
  PROVE  Story(t, [h EXCEPT !.told = @ \union {t.name}], app)
<1> DEFINE g == [h EXCEPT !.told = @ \union {t.name}]
<1>1. /\ DOMAIN g = {"told", "errors", "ignored", "best"} /\ g.told = h.told \union {t.name}
      /\ g.ignored = h.ignored /\ g.best = h.best
  BY DEF Story
<1> HIDE DEF g
<1>2. Story(t, g, app)
  BY <1>1 DEF Story
<1> QED
  BY <1>2 DEF g

(* The response header of CAT.                                             *)
LEMMA StoryResponse ==
  ASSUME NEW t, NEW h, NEW app, Story(t, h, app), NEW start,
         NEW r, r = nr_header_inbound_response(t, app, start)
  PROVE  Story(r.t, IF r.header = NULL THEN h ELSE [h EXCEPT !.told = @ \union {r.header.val.name}], app)
<1> DEFINE f == nr_txn_freeze_name_update_apdex(t, app)
           S == {<<"ClientApplication", t.cat.client>>}
           u == AddMetrics(f.t, S)
           v == [u EXCEPT !.cross_process = "RESPONSE_CREATED"]
           q == nr_txn_queue_time(f.t, start)
           b == [id |-> app.cross_process_id, name |-> f.t.name, queue |-> q, guid |-> t.dt.txn_id]
           none == nr_header_encode(app, NULL)
           some == nr_header_encode(app, b)
<1>1. \/ r = [t |-> t, header |-> none]
      \/ r = [t |-> f.t, header |-> none]
      \/ f.ok /\ r = [t |-> v, header |-> some]
  BY DEF nr_header_inbound_response, nr_header_inbound_response_internal
<1>2. none = NULL
  BY DEF nr_header_encode
<1>3. some = NULL \/ some.val.name = f.t.name
  BY DEF nr_header_encode
<1> HIDE DEF none, some
<1>4. Story(f.t, h, app) /\ (f.ok => f.t.frozen)
  BY StoryFreeze
<1> HIDE DEF f
<1>5. Story(v, h, app) /\ v.frozen = f.t.frozen /\ v.name = f.t.name
  <2>1. S \intersect Loud = {}
    BY LongMetrics
  <2> HIDE DEF S
  <2>2. /\ StoryFields \in SUBSET (TxnFields \ {"metrics"}) /\ StoryFields \in SUBSET (TxnFields \ {"cross_process"})
        /\ "cross_process" \in TxnFields \ {"opts", "metrics"} /\ "frozen" \in StoryFields /\ "name" \in StoryFields
    BY DEF TxnFields, StoryFields
  <2>3. Frame(StoryFields, f.t, u)
    BY <1>4, <2>1, <2>2, FrameMetrics DEF Story
  <2> HIDE DEF u
  <2>4. Frame(StoryFields, u, v)
    BY <2>2, <2>3, FrameThen, FrameField
  <2>5. Frame(StoryFields, f.t, v)
    BY <2>3, <2>4, FrameThen
  <2> HIDE DEF v
  <2> QED
    BY <1>4, <2>2, <2>5, StoryFrame DEF Frame
<1> HIDE DEF v
<1>6. CASE f.ok /\ r = [t |-> v, header |-> some]
  <2>1. Story(v, [h EXCEPT !.told = @ \union {v.name}], app)
    BY <1>4, <1>5, <1>6, StoryTold
  <2> QED
    BY <1>3, <1>5, <1>6, <2>1
<1> QED
  BY <1>1, <1>2, <1>4, <1>6

(* The loader, and the footer, which tells the name.                       *)
LEMMA StoryRum ==
  ASSUME NEW t, NEW h, NEW app, Story(t, h, app), NEW autorum
  PROVE  /\ Story(nr_rum_produce_header(t, app, autorum).t, h, app)
         /\ Story(nr_rum_produce_footer(t, app, autorum).t, h, app)
         /\ nr_rum_produce_footer(t, app, autorum).out # NULL => nr_rum_produce_footer(t, app, autorum).t.frozen
<1> DEFINE p == Producer(autorum)
           u == [t EXCEPT !.rum_header = p]
           f == nr_txn_freeze_name_update_apdex(t, app)
           v == [f.t EXCEPT !.rum_footer = p]
           r == nr_rum_produce_footer(t, app, autorum)
<1>0. p \in 0..2
  BY DEF Producer
<1>1. nr_rum_produce_header(t, app, autorum).t \in {t, u}
  BY DEF nr_rum_produce_header
<1>2. \/ r = [t |-> t, out |-> NULL] \/ r = [t |-> f.t, out |-> NULL]
      \/ f.ok /\ r = [t |-> v, out |-> "RUM_footer"]
  BY DEF nr_rum_produce_footer
<1> HIDE DEF p
<1>3. Story(u, h, app)
  <2>1. /\ "rum_header" \in TxnFields \ {"opts", "metrics"}
        /\ StoryFields \ {"rum_header"} \in SUBSET (TxnFields \ {"rum_header"})
    BY DEF TxnFields, StoryFields
  <2>2. Frame(StoryFields \ {"rum_header"}, t, u) /\ u.rum_header = p
    BY <2>1, FrameField DEF Story, IsTxn
  <2> HIDE DEF u
  <2>3. /\ u.run = t.run /\ u.complete = t.complete /\ u.background = t.background
        /\ u.path_type = t.path_type /\ u.path = t.path /\ u.rum_footer = t.rum_footer
        /\ u.ignore = t.ignore /\ u.frozen = t.frozen /\ u.name = t.name /\ IsTxn(u)
    BY <2>2 DEF Frame, StoryFields
  <2>4. Loud \intersect u.metrics = {}
    BY <2>2 DEF Frame, Story
  <2> QED
    BY <1>0, <2>2, <2>3, <2>4 DEF Story
<1> HIDE DEF u
<1>4. Story(f.t, h, app) /\ (f.ok => f.t.frozen)
  BY StoryFreeze
<1> HIDE DEF f
<1>5. f.ok => Story(v, h, app) /\ v.frozen
  <2> SUFFICES ASSUME f.ok PROVE Story(v, h, app) /\ v.frozen
    OBVIOUS
  <2> DEFINE w == f.t
  <2>0. Story(w, h, app) /\ w.frozen /\ v = [w EXCEPT !.rum_footer = p]
    BY <1>4
  <2> HIDE DEF w
  <2>1. /\ "rum_footer" \in TxnFields \ {"opts", "metrics"}
        /\ StoryFields \ {"rum_footer"} \in SUBSET (TxnFields \ {"rum_footer"})
    BY DEF TxnFields, StoryFields
  <2>2. Frame(StoryFields \ {"rum_footer"}, w, v) /\ v.rum_footer = p
    BY <2>0, <2>1, FrameField DEF Story, IsTxn
  <2> HIDE DEF v
  <2>3. /\ v.run = w.run /\ v.complete = w.complete /\ v.background = w.background
        /\ v.path_type = w.path_type /\ v.path = w.path /\ v.rum_header = w.rum_header
        /\ v.ignore = w.ignore /\ v.frozen = w.frozen /\ v.name = w.name /\ IsTxn(v)
    BY <2>2 DEF Frame, StoryFields
  <2>4. Loud \intersect v.metrics = {}
    BY <2>0, <2>2 DEF Frame, Story
  <2> QED
    BY <1>0, <2>0, <2>2, <2>3, <2>4 DEF Story
<1> HIDE DEF v, r
<1>6. Story(r.t, h, app) /\ (r.out # NULL => r.t.frozen)
  BY <1>2, <1>4, <1>5
<1> QED
  BY <1>1, <1>3, <1>6 DEF r

(* The output handler; when its footer is in the page, the name is frozen. *)
LEMMA StoryHandler ==
  ASSUME NEW t, NEW h, NEW app, Story(t, h, app), NEW output \in Seq(HtmlItems), NEW has_length, NEW html,
         NEW r, r = nr_php_rum_output_handler(t, app, output, has_length, html)
  PROVE  Story(r.t, IF "RUM_footer" \in Range(r.out) THEN [h EXCEPT !.told = @ \union {r.t.name}] ELSE h, app)
<1> DEFINE found == IF t.rum_header = 0 THEN nr_rum_scan_html_for_head(output) ELSE NULL
           header == IF found = NULL THEN [t |-> t, out |-> NULL] ELSE nr_rum_produce_header(t, app, TRUE)
           f == nr_rum_produce_footer(header.t, app, TRUE)
<1>1. r.t = t \/ r.t = header.t \/ r.t = f.t
  <2>1. CASE found = NULL
    BY <2>1 DEF nr_php_rum_output_handler, nr_rum_output_handler_worker
  <2>2. CASE found # NULL
    BY <2>2 DEF nr_php_rum_output_handler, nr_rum_output_handler_worker
  <2> QED
    BY <2>1, <2>2
<1> HIDE DEF found
<1>2. Story(header.t, h, app)
  <2> DEFINE p == nr_rum_produce_header(t, app, TRUE)
  <2>1. PICK yes : p = nr_rum_produce_header(t, app, yes)
    BY Zenon
  <2>2. header = IF found = NULL THEN [t |-> t, out |-> NULL] ELSE p
    OBVIOUS
  <2> HIDE DEF p, header
  <2>3. Story(p.t, h, app)
    BY <2>1, StoryRum
  <2> QED
    BY <2>2, <2>3
<1> HIDE DEF header
<1>3. Story(f.t, h, app)
  <2>1. PICK yes : f = nr_rum_produce_footer(header.t, app, yes)
    BY Zenon
  <2> HIDE DEF f
  <2> QED
    BY <1>2, <2>1, StoryRum
<1> HIDE DEF f
<1>4. Story(r.t, h, app)
  BY <1>1, <1>2, <1>3
<1>5. Adds(t, r.t, r.out)
  BY HandlerFacts DEF Story
<1>6. CASE "RUM_footer" \in Range(r.out)
  <2>1. At(r.out, "RUM_footer") # {}
    BY <1>6 DEF Range, At
  <2>2. r.t.rum_footer # 0
    BY <1>5, <2>1 DEF Adds
  <2>3. r.t.frozen
    BY <1>4, <2>2 DEF Story
  <2> QED
    BY <1>4, <1>6, <2>3, StoryTold
<1> QED
  BY <1>4, <1>6

(* nr_txn_set_path touches the path only.                                  *)
LEMMA FramePath ==
  ASSUME NEW t, IsTxn(t), NEW path, NEW ptype, NEW ok, NEW K \in SUBSET (TxnFields \ {"path_type", "path"})
  PROVE  Frame(K, t, nr_txn_set_path(t, path, ptype, ok))
<1>1. "path_type" \in TxnFields \ {"opts", "metrics"} /\ "path" \in TxnFields \ {"opts", "metrics"}
  BY DEF TxnFields
<1>2. Frame(K, t, [t EXCEPT !.path_type = ptype, !.path = path])
  BY <1>1, FrameTwo
<1>3. Frame(K, t, t)
  BY FrameSelf
<1> QED
  BY <1>2, <1>3 DEF nr_txn_set_path

(* nr_txn_change_background_status touches the status, or counts.          *)
LEMMA FrameBackground ==
  ASSUME NEW t, IsTxn(t), NEW b, NEW K \in SUBSET (TxnFields \ {"background", "metrics"})
  PROVE  Frame(K, t, nr_txn_change_background_status(t, b))
<1>1. /\ "background" \in TxnFields \ {"opts", "metrics"} /\ K \in SUBSET (TxnFields \ {"background"})
      /\ K \in SUBSET (TxnFields \ {"metrics"}) /\ <<"background_status_change_prevented">> \notin Loud
  BY DEF TxnFields, Loud, CreateSuccess
<1>2. Frame(K, t, [t EXCEPT !.background = b])
  BY <1>1, FrameField
<1>3. Frame(K, t, nr_txn_force_single_count(t, "background_status_change_prevented"))
  BY <1>1, FrameCount
<1> QED
  BY <1>2, <1>3 DEF nr_txn_change_background_status

(* nr_txn_begin, field by field.                                           *)
LEMMA NewTxn ==
  ASSUME NEW app, NEW ini, NEW guid, NEW prio, NEW sampled,
         NEW t, t = nr_txn_begin(app, TxnOptions(ini), guid, prio, sampled)
  PROVE  /\ IsTxn(t) /\ t.opts = BeginOptions(app, TxnOptions(ini)) /\ t.run = app.run
         /\ t.high_security = app.high_security /\ t.error = NULL
         /\ t.recording /\ ~t.ignore /\ ~t.complete /\ ~t.background /\ t.background \in BOOLEAN /\ ~t.frozen
         /\ t.path_type = "UNKNOWN" /\ t.path = NULL /\ t.name = NULL /\ t.metrics = {} /\ t.type = {}
         /\ t.rum_header = 0 /\ t.rum_footer = 0
         /\ t.dt = BeginTrace(app, TxnOptions(ini), guid, prio, sampled)
<1> DEFINE o == BeginOptions(app, TxnOptions(ini))
           d == BeginTrace(app, TxnOptions(ini), guid, prio, sampled)
<1>1. IsTxn(t)
  BY NewFacts DEF Secure
<1>2. t = [opts |-> o, high_security |-> app.high_security, lasp |-> app.lasp,
      run |-> app.run, recording |-> TRUE, ignore |-> FALSE, complete |-> FALSE,
      ignore_apdex |-> FALSE, background |-> FALSE, frozen |-> FALSE,
      path_type |-> "UNKNOWN", path |-> NULL, name |-> NULL, error |-> NULL,
      metrics |-> {}, attrs |-> {}, custom_events |-> 0, logs |-> {}, packages |-> {},
      type |-> {}, queue_start |-> 0, match_filenames |-> {}, request_uri |-> NULL,
      cross_process |-> IF o.cat THEN "START" ELSE "DISABLED",
      cat |-> [client |-> NULL, guid |-> NULL, trip |-> NULL, ref |-> NULL, alt |-> {}],
      synthetics |-> NULL, rum_header |-> 0, rum_footer |-> 0, onetime |-> FALSE,
      span_queue |-> o.span_events /\ app.observer,
      composer |-> FALSE,
      dt |-> d]
  BY DEF nr_txn_begin
<1> HIDE DEF o, d
<1>3. /\ t.opts = o /\ t.run = app.run /\ t.high_security = app.high_security /\ t.error = NULL
      /\ t.recording = TRUE /\ t.ignore = FALSE /\ t.complete = FALSE /\ t.background = FALSE /\ t.frozen = FALSE
      /\ t.path_type = "UNKNOWN" /\ t.path = NULL /\ t.name = NULL /\ t.metrics = {} /\ t.type = {}
      /\ t.rum_header = 0 /\ t.rum_footer = 0 /\ t.dt = d
  BY <1>2
<1> QED
  BY <1>1, <1>3 DEF o, d

(* What the beginning touches before the headers are looked at.            *)
Prepared == Noise \union {"path_type", "path", "background"}

(* The beginning up to the headers, which a transaction without history    *)
(* goes through.                                                           *)
LEMMA BeginPrepares ==
  ASSUME NEW app, NEW ini, NEW server, NEW guid, NEW prio, NEW sampled, app.run = 1, IsPath(server.script),
         NEW t, t = nr_php_txn_begin(app, ini, server, guid, prio, sampled), t # NULL \/ app.state = "OK",
         NEW new, new = nr_txn_begin(app, TxnOptions(ini), guid, prio, sampled)
  PROVE  \E u : /\ Story(u, NoHistory, app) /\ Frame(TxnFields \ Prepared, new, u)
                /\ \/ t = AcceptInbound(u, app, server)
                   \/ t = nr_header_set_synthetics_txn(AcceptInbound(u, app, server), app, server.x_synthetics)
<1> DEFINE K == TxnFields \ Prepared
           Good(u) == Story(u, NoHistory, app) /\ Frame(K, new, u)
           once    == nr_php_txn_send_metrics_once(new)
           started == nr_php_collect_x_request_start(once, server)
           path    == nr_php_set_initial_path(started, server)
           job     == IF ini.cli THEN nr_txn_change_background_status(path, TRUE) ELSE path
           params  == nr_php_gather_global_params(job, server)
           inbound == AcceptInbound(params, app, server)
<1>1. t = inbound \/ t = nr_header_set_synthetics_txn(inbound, app, server.x_synthetics)
  BY DEF nr_php_txn_begin
<1>2. Good(new)
  <2>1. Frame(K, new, new)
    BY NewTxn, FrameSelf
  <2>2. /\ "UNKNOWN" \in PathTypes /\ PathRank["UNKNOWN"] >= 0 /\ IsPath(NULL)
        /\ DOMAIN NoHistory = {"told", "errors", "ignored", "best"} /\ NoHistory.told = {}
        /\ ~NoHistory.ignored /\ NoHistory.best = 0
    BY DEF PathTypes, PathRank, IsPath, NoHistory
  <2>3. Story(new, NoHistory, app)
    <3> HIDE DEF K
    <3> QED
    BY <2>2, NewTxn DEF Story
  <2> QED
    BY <2>1, <2>3
<1>0. /\ StoryFields \in SUBSET (TxnFields \ Noise) /\ K \in SUBSET (TxnFields \ Noise)
      /\ StoryFields \in SUBSET (TxnFields \ {"metrics"}) /\ K \in SUBSET (TxnFields \ {"metrics"})
      /\ K \in SUBSET (TxnFields \ {"path_type", "path"}) /\ K \in SUBSET (TxnFields \ {"background", "metrics"})
      /\ StoryFields \in SUBSET (TxnFields \ {"onetime"}) /\ K \in SUBSET (TxnFields \ {"onetime"})
      /\ "onetime" \in TxnFields \ {"opts", "metrics"}
  BY DEF TxnFields, Noise, Prepared, StoryFields
<1> HIDE DEF K
<1>3. ASSUME NEW u, NEW v, Good(u), Frame(StoryFields, u, v), Frame(K, u, v) PROVE Good(v)
  BY <1>3, StoryFrame, FrameThen
<1>4. \A u : Good(u) => IsTxn(u)
  BY DEF Story
<1>5. ASSUME NEW u, Good(u), NEW p, IsPath(p), NEW y \in PathTypes, NEW ok PROVE Good(nr_txn_set_path(u, p, y, ok))
  BY <1>0, <1>4, <1>5, StoryPath, FramePath, FrameThen
<1>6. ASSUME NEW u, Good(u), NEW b \in BOOLEAN PROVE Good(nr_txn_change_background_status(u, b))
  BY <1>0, <1>4, <1>6, StoryBackground, FrameBackground, FrameThen
<1>7. Good(once)
  <2> DEFINE a == nr_txn_log_forwarding_enabled(new)
             b == new.opts.log_metrics
             c == new.opts.log_labels
             S == {<<"Logging/Forwarding/PHP", a>>, <<"Logging/Metrics/PHP", b>>, <<"Logging/Labels/PHP", c>>}
             m == AddMetrics(new, S)
             last == [m EXCEPT !.onetime = TRUE]
  <2>1. once = new \/ once = last
    BY DEF nr_php_txn_send_metrics_once
  <2> HIDE DEF a, b, c, once
  <2>2. \A x \in S : x \notin Loud
    BY LongMetrics, Zenon
  <2> HIDE DEF S
  <2>3. Good(m)
    <3>0. S \intersect Loud = {}
      BY <2>2
    <3>1. Frame(StoryFields, new, m) /\ Frame(K, new, m)
      <4> HIDE DEF Good
      <4> QED
      BY <1>0, <1>2, <1>4, <3>0, FrameMetrics
    <3> HIDE DEF m, Good
    <3> QED
      BY <1>2, <1>3, <3>1
  <2> HIDE DEF m
  <2>4. Good(last)
    <3>0. PICK yes : last = [m EXCEPT !.onetime = yes]
      BY Zenon
    <3>1. Frame(StoryFields, m, last) /\ Frame(K, m, last)
      <4> HIDE DEF Good
      <4> QED
      BY <1>0, <2>3, <1>4, <3>0, FrameField
    <3> HIDE DEF last, Good
    <3> QED
      BY <1>3, <2>3, <3>1
  <2> HIDE DEF last, Good
  <2> QED
    BY <1>2, <2>1, <2>4
<1> HIDE DEF once, Good
<1>8. Good(started)
  <2>1. Frame(StoryFields, once, started) /\ Frame(K, once, started)
    BY <1>0, <1>4, <1>7, FrameRequestData DEF nr_php_collect_x_request_start
  <2> HIDE DEF started
  <2> QED
    BY <1>3, <1>7, <2>1
<1> HIDE DEF started
<1>9. Good(path)
  <2> DEFINE b == IF server.script = NULL /\ server.argv # NULL /\ ~server.request_method
                  THEN nr_txn_change_background_status(started, TRUE) ELSE started
             p == IF server.script # NULL THEN nr_txn_set_path(b, server.script, "URI", FALSE)
                  ELSE nr_txn_set_path(b, <<"<unknown>">>, "UNKNOWN", FALSE)
  <2>1. path = p
    BY DEF nr_php_set_initial_path
  <2>2. PICK yes \in BOOLEAN : nr_txn_change_background_status(started, TRUE) = nr_txn_change_background_status(started, yes)
    BY Zenon
  <2>3. Good(b)
    <3>1. Good(nr_txn_change_background_status(started, yes))
      BY <1>6, <1>8
    <3> QED
      BY <1>8, <2>2, <3>1
  <2> HIDE DEF b, path
  <2>4. PICK no, unknown : /\ unknown = <<"<unknown>">>
                           /\ \/ p = nr_txn_set_path(b, server.script, "URI", no)
                              \/ p = nr_txn_set_path(b, unknown, "UNKNOWN", no)
    BY Zenon
  <2> HIDE DEF p
  <2>5. IsPath(unknown)
    <3> DEFINE S == Words \union Nat
    <3>1. "<unknown>" \in S
      BY Zenon DEF Words
    <3>2. \A w \in S : <<w>> \in Seq(S)
      <4> HIDE DEF S
      <4> QED OBVIOUS
    <3>3. unknown \in Seq(S)
      BY <2>4, <3>1, <3>2, Zenon
    <3> QED
      BY <3>3 DEF IsPath, Texts
  <2>6. "URI" \in PathTypes /\ "UNKNOWN" \in PathTypes
    BY DEF PathTypes
  <2>7. Good(nr_txn_set_path(b, server.script, "URI", no)) /\ Good(nr_txn_set_path(b, unknown, "UNKNOWN", no))
    BY <1>5, <2>3, <2>5, <2>6
  <2> QED
    BY <2>1, <2>4, <2>7
<1> HIDE DEF path
<1>10. Good(job)
  <2>1. PICK yes \in BOOLEAN : nr_txn_change_background_status(path, TRUE) = nr_txn_change_background_status(path, yes)
    BY Zenon
  <2>2. Good(nr_txn_change_background_status(path, yes))
    BY <1>6, <1>9
  <2> QED
    BY <1>9, <2>1, <2>2
<1> HIDE DEF job
<1>11. Good(params)
  <2>1. Frame(StoryFields, job, params) /\ Frame(K, job, params)
    BY <1>0, <1>4, <1>10, FrameRequestData
  <2> HIDE DEF params
  <2> QED
    BY <1>3, <1>10, <2>1
<1> HIDE DEF params
<1>12. Story(params, NoHistory, app) /\ Frame(TxnFields \ Prepared, new, params)
  BY <1>11 DEF Good, K
<1> QED
  BY <1>1, <1>12

(* What decides whether an error is kept.                                  *)
ErrorFields == {"opts", "high_security", "recording", "error"}

(* A new transaction has a story without history.                          *)
LEMMA StoryBegins ==
  ASSUME NEW app, NEW ini, NEW server, NEW guid, NEW prio, NEW sampled, app.run = 1, IsPath(server.script),
         NEW t, t = nr_php_txn_begin(app, ini, server, guid, prio, sampled), t # NULL
  PROVE  /\ Story(t, NoHistory, app) /\ t.error = NULL /\ t.recording
         /\ t.opts = BeginOptions(app, TxnOptions(ini)) /\ t.high_security = app.high_security
<1> DEFINE new == nr_txn_begin(app, TxnOptions(ini), guid, prio, sampled)
           K == StoryFields \union ErrorFields
<1>1. PICK u : /\ Story(u, NoHistory, app) /\ Frame(TxnFields \ Prepared, new, u)
               /\ \/ t = AcceptInbound(u, app, server)
                  \/ t = nr_header_set_synthetics_txn(AcceptInbound(u, app, server), app, server.x_synthetics)
  BY BeginPrepares
<1>2. /\ IsTxn(new) /\ new.error = NULL /\ new.recording
      /\ new.opts = BeginOptions(app, TxnOptions(ini)) /\ new.high_security = app.high_security
  BY NewTxn
<1> HIDE DEF new
<1>3. /\ K \in SUBSET (TxnFields \ (Noise \union {"dt", "type", "cat"}))
      /\ K \in SUBSET (TxnFields \ {"synthetics", "type"}) /\ StoryFields \in SUBSET K
      /\ ErrorFields \in SUBSET K /\ ErrorFields \in SUBSET (TxnFields \ Prepared)
  BY DEF StoryFields, ErrorFields, TxnFields, Noise, Prepared
<1> HIDE DEF K
<1> DEFINE a == AcceptInbound(u, app, server)
<1>4. Frame(K, u, a)
  BY <1>1, <1>3, FrameInbound DEF Story
<1> HIDE DEF a
<1>5. Frame(K, a, nr_header_set_synthetics_txn(a, app, server.x_synthetics))
  BY <1>3, <1>4, FrameThen, FrameSynthetics
<1>6. Frame(K, u, t)
  BY <1>1, <1>4, <1>5, FrameThen DEF a
<1>7. Story(t, NoHistory, app)
  BY <1>1, <1>3, <1>6, FrameLess, StoryFrame
<1>8. Frame(ErrorFields, new, t)
  BY <1>1, <1>3, <1>6, FrameLess, FrameThen
<1>9. t.error = new.error /\ t.recording = new.recording /\ t.opts = new.opts /\ t.high_security = new.high_security
  BY <1>8 DEF Frame, ErrorFields
<1> QED
  BY <1>2, <1>7, <1>9

(* With the settings most requests have, errors are kept as they are.      *)
LEMMA DefaultKeepsErrors ==
  /\ BeginOptions(DefaultApp, TxnOptions(DefaultIni)).err
  /\ BeginOptions(DefaultApp, TxnOptions(DefaultIni)).allow_raw
  /\ ~DefaultApp.high_security /\ DefaultApp.run = 1 /\ IsPath(DefaultServer.script)
<1> DEFINE opts == TxnOptions(DefaultIni)
           limited == [opts EXCEPT
              !.analytics_events = @ /\ DefaultApp.limits.analytics_events > 0,
              !.custom_events = @ /\ DefaultApp.limits.custom_events > 0,
              !.error_events = @ /\ DefaultApp.limits.error_events > 0,
              !.span_events = @ /\ DefaultApp.limits.span_events > 0,
              !.apdex_t = DefaultApp.apdex_t,
              !.tt_threshold = IF opts.tt_is_apdex_f THEN 4 * DefaultApp.apdex_t ELSE @]
           secured == nr_txn_enforce_security_settings(limited, DefaultApp.reply, DefaultApp.policies)
           o == BeginOptions(DefaultApp, opts)
<1>1. DOMAIN opts = OptionNames /\ opts.err = DefaultIni.err /\ opts.allow_raw = DefaultIni.allow_raw
  BY DEF TxnOptions, OptionNames
<1>2. DefaultIni.err = TRUE /\ DefaultIni.allow_raw = TRUE
  BY DEF DefaultIni
<1>3. /\ DefaultApp.high_security = FALSE /\ DefaultApp.run = 1 /\ DefaultApp.reply.errors = TRUE
      /\ DefaultApp.policies.allow_raw = NULL
  BY DEF DefaultApp
<1>4. IsPath(DefaultServer.script)
  <2> DEFINE S == Words \union Nat
  <2>1. "a.php" \in S
    BY Zenon DEF Words
  <2>2. \A w \in S : <<w>> \in Seq(S)
    <3> HIDE DEF S
    <3> QED OBVIOUS
  <2>3. DefaultServer.script = <<"a.php">>
    BY DEF DefaultServer
  <2>4. DefaultServer.script \in Seq(S)
    BY <2>1, <2>2, <2>3, Zenon
  <2> QED
    BY <2>4 DEF IsPath, Texts
<1>5. o = [secured EXCEPT !.request_params = @ /\ ~DefaultApp.lasp]
  BY DEF BeginOptions
<1> HIDE DEF opts
<1>6. DOMAIN limited = OptionNames /\ limited.err = opts.err /\ limited.allow_raw = opts.allow_raw
  BY <1>1 DEF OptionNames
<1> HIDE DEF limited
<1>7. /\ DOMAIN secured = OptionNames /\ secured.err = (limited.err /\ DefaultApp.reply.errors = TRUE)
      /\ secured.allow_raw = (limited.allow_raw /\ DefaultApp.policies.allow_raw # FALSE)
  BY <1>6 DEF nr_txn_enforce_security_settings, OptionNames
<1> HIDE DEF secured
<1>8. o.err = secured.err /\ o.allow_raw = secured.allow_raw
  BY <1>5, <1>7 DEF OptionNames
<1>9. NULL # FALSE
  BY RequestAssumption
<1> QED
  BY <1>1, <1>2, <1>3, <1>4, <1>6, <1>7, <1>8, <1>9 DEF opts

(* What an application tells of itself is no part of the story.            *)
LEMMA StoryData ==
  ASSUME NEW t, NEW h, NEW app, Story(t, h, app), NEW x, NEW y, NEW z
  PROVE  /\ Story(nr_txn_add_user_custom_parameter(t, x), h, app)
         /\ Story(nr_txn_record_custom_event(t), h, app)
         /\ Story(nr_txn_add_custom_metric(t, x, y), h, app)
         /\ Story(nr_txn_record_log_event(t, x, y, z), h, app)
         /\ Story(nr_txn_add_php_package_from_source(t, x, y), h, app)
<1> DEFINE K == StoryFields
<1>0. /\ IsTxn(t) /\ K \in SUBSET (TxnFields \ {"attrs"}) /\ K \in SUBSET (TxnFields \ {"custom_events"})
      /\ K \in SUBSET (TxnFields \ {"metrics"}) /\ K \in SUBSET (TxnFields \ {"logs"})
      /\ K \in SUBSET (TxnFields \ {"packages"})
      /\ {"attrs", "custom_events", "logs", "packages"} \subseteq TxnFields \ {"opts", "metrics"}
  BY DEF Story, StoryFields, TxnFields
<1>1. Story(nr_txn_add_user_custom_parameter(t, x), h, app)
  <2> DEFINE e == t.attrs \union
          {[name |-> <<"user", x>>, dests |-> {"trace", "error", "event", "browser", "log"}]}
  <2>1. nr_txn_add_user_custom_parameter(t, x) \in {t, [t EXCEPT !.attrs = e]}
    BY DEF nr_txn_add_user_custom_parameter
  <2> HIDE DEF e
  <2>2. Frame(K, t, [t EXCEPT !.attrs = e])
    BY <1>0, FrameField
  <2> QED
    BY <2>1, <2>2, StoryFrame
<1>2. Story(nr_txn_record_custom_event(t), h, app)
  <2> DEFINE e == t.custom_events + 1
  <2>1. nr_txn_record_custom_event(t) \in {t, [t EXCEPT !.custom_events = e]}
    BY DEF nr_txn_record_custom_event
  <2> HIDE DEF e
  <2>2. Frame(K, t, [t EXCEPT !.custom_events = e])
    BY <1>0, FrameField
  <2> QED
    BY <2>1, <2>2, StoryFrame
<1>3. Story(nr_txn_add_custom_metric(t, x, y), h, app)
  <2> DEFINE S == {<<"Custom", x>>}
  <2>1. nr_txn_add_custom_metric(t, x, y) \in {t, AddMetrics(t, S)}
    BY DEF nr_txn_add_custom_metric
  <2>2. S \intersect Loud = {}
    BY LongMetrics
  <2> HIDE DEF S
  <2>3. Frame(K, t, AddMetrics(t, S))
    BY <1>0, <2>2, FrameMetrics
  <2> QED
    BY <2>1, <2>3, StoryFrame
<1>4. Story(nr_txn_record_log_event(t, x, y, z), h, app)
  <2> DEFINE v == nr_txn_add_log_event(t, x, y, z)
             e == t.logs \union {log_event_set_linking_metadata(t, x, z)}
             S == {<<"Logging/lines">>, <<"Logging/lines", x>>}
  <2>1. v \in {t, nr_txn_force_single_count(t, "Logging/Forwarding/Dropped"), [t EXCEPT !.logs = e]}
    BY DEF nr_txn_add_log_event
  <2>2. nr_txn_record_log_event(t, x, y, z) \in {v, AddMetrics(v, S)}
    BY DEF nr_txn_record_log_event, nr_txn_add_logging_metrics
  <2> HIDE DEF v, e
  <2>3. <<"Logging/Forwarding/Dropped">> \notin Loud /\ <<"Logging/lines">> \notin Loud
    BY DEF Loud, CreateSuccess
  <2>4. \A m \in S : m \notin Loud
    BY <2>3, LongMetrics, Zenon
  <2> HIDE DEF S
  <2>5. /\ Frame(K, t, nr_txn_force_single_count(t, "Logging/Forwarding/Dropped"))
        /\ Frame(K, t, [t EXCEPT !.logs = e])
    BY <1>0, <2>3, FrameCount, FrameField
  <2>6. Story(v, h, app)
    BY <2>1, <2>5, StoryFrame
  <2>7. S \intersect Loud = {} /\ IsTxn(v)
    BY <2>4, <2>6 DEF Story
  <2>8. Frame(K, v, AddMetrics(v, S))
    BY <1>0, <2>7, FrameMetrics
  <2> QED
    BY <2>2, <2>6, <2>8, StoryFrame
<1>5. Story(nr_txn_add_php_package_from_source(t, x, y), h, app)
  <2> DEFINE e == t.packages \union {[name |-> x, source |-> y]}
  <2>1. nr_txn_add_php_package_from_source(t, x, y) \in {t, [t EXCEPT !.packages = e]}
    BY DEF nr_txn_add_php_package_from_source
  <2> HIDE DEF e
  <2>2. Frame(K, t, [t EXCEPT !.packages = e])
    BY <1>0, FrameField
  <2> QED
    BY <2>1, <2>2, StoryFrame
<1> QED
  BY <1>1, <1>2, <1>3, <1>4, <1>5

(* The errors of a request, and the place of the one to be reported.       *)
ErrorRecords == [priority : 1..3, msg : Texts]
Latest(E, i) ==
  \A j \in DOMAIN E : E[j].priority < E[i].priority \/ (E[j].priority = E[i].priority /\ j <= i)

(* A transaction that keeps errors as they are.                            *)
KeepsErrors(t) == t.opts.err /\ t.opts.allow_raw /\ ~t.high_security /\ t.recording

(* The error of a transaction is the one to be reported.                   *)
ErrorTold(error, E) ==
  /\ E \in Seq(ErrorRecords)
  /\ E = <<>> => error = NULL
  /\ E # <<>> => error # NULL /\ \E i \in DOMAIN E :
       Latest(E, i) /\ error.priority = E[i].priority /\ error.msg = E[i].msg

(* Whatever it is about, an error is no part of the story.                 *)
LEMMA StoryError ==
  ASSUME NEW t, NEW h, NEW app, Story(t, h, app), NEW priority, NEW msg, NEW span, NEW E
  PROVE  /\ Story(nr_txn_record_error(t, priority, msg, span), h, app)
         /\ Story(nr_txn_record_error(t, priority, msg, span), [h EXCEPT !.errors = E], app)
<1> DEFINE u == nr_txn_record_error(t, priority, msg, span)
           g == [h EXCEPT !.errors = E]
<1>1. PICK e : u = t \/ u = [t EXCEPT !.error = e]
  BY Zenon DEF nr_txn_record_error
<1>2. "error" \in TxnFields \ {"opts", "metrics"} /\ StoryFields \in SUBSET (TxnFields \ {"error"})
  BY DEF TxnFields, StoryFields
<1>3. Frame(StoryFields, t, [t EXCEPT !.error = e])
  BY <1>2, FrameField DEF Story
<1> HIDE DEF u
<1>4. Story(u, h, app)
  BY <1>1, <1>3, StoryFrame
<1>5. /\ DOMAIN g = {"told", "errors", "ignored", "best"} /\ g.told = h.told
      /\ g.ignored = h.ignored /\ g.best = h.best
  BY DEF Story
<1> HIDE DEF g
<1>6. Story(u, g, app)
  BY <1>4, <1>5 DEF Story
<1> QED
  BY <1>4, <1>6 DEF u, g

(* Of the errors the one of the highest priority is kept, the latest of    *)
(* several.                                                                *)
LEMMA ErrorStep ==
  ASSUME NEW t, IsTxn(t), KeepsErrors(t), NEW E, ErrorTold(t.error, E), NEW priority \in 1..3, NEW msg \in Texts,
         NEW u, u = nr_txn_record_error(t, priority, msg, "segment")
  PROVE  KeepsErrors(u) /\ ErrorTold(u.error, Append(E, [priority |-> priority, msg |-> msg]))
<1> DEFINE n == Len(E)
           x == [priority |-> priority, msg |-> msg]
           F == Append(E, x)
           span == IF nr_txn_should_create_span_events(t) THEN "segment" ELSE NULL
           e == [priority |-> priority, msg |-> msg, span |-> span]
           v == [t EXCEPT !.error = e]
<1>1. NULL \notin Texts /\ NULL # "segment"
  BY RequestAssumption
<1>2. u = IF t.error # NULL /\ ~(priority >= t.error.priority) THEN t ELSE v
  BY <1>1 DEF nr_txn_record_error, nr_txn_record_error_worthy, KeepsErrors
<1>3. e # NULL /\ e.priority = priority /\ e.msg = msg
  <2>1. span \in {"segment", NULL}
    OBVIOUS
  <2> HIDE DEF span
  <2>2. e \in [priority : Nat, msg : Texts, span : {"segment", NULL}]
    BY <2>1
  <2> QED
    BY <2>2, RequestAssumption
<1> HIDE DEF e
<1>4. v.error = e /\ v.opts = t.opts /\ v.high_security = t.high_security /\ v.recording = t.recording
  BY DEF IsTxn, TxnFields
<1> HIDE DEF v
<1>5. KeepsErrors(u)
  BY <1>2, <1>4 DEF KeepsErrors
<1>6. x \in ErrorRecords /\ x.priority = priority /\ x.msg = msg
  BY DEF ErrorRecords
<1>7. /\ E \in Seq(ErrorRecords) /\ n \in Nat /\ DOMAIN E = 1..n
      /\ \A i \in 1..n : E[i] \in ErrorRecords /\ E[i].priority \in 1..3
  <2>1. E \in Seq(ErrorRecords)
    BY DEF ErrorTold
  <2>2. n \in Nat /\ DOMAIN E = 1..n /\ \A i \in 1..n : E[i] \in ErrorRecords
    BY <2>1
  <2>3. \A r \in ErrorRecords : r.priority \in 1..3
    BY DEF ErrorRecords
  <2> QED
    BY <2>1, <2>2, <2>3
<1> HIDE DEF x
<1>8. /\ F \in Seq(ErrorRecords) /\ F # <<>> /\ DOMAIN F = 1..(n + 1) /\ F[n + 1] = x
      /\ \A i \in 1..n : F[i] = E[i]
  BY <1>6, <1>7
<1> HIDE DEF F
<1>9. CASE t.error # NULL /\ ~(priority >= t.error.priority)
  <2>1. E # <<>>
    BY <1>9 DEF ErrorTold
  <2>2. PICK i \in 1..n : Latest(E, i) /\ t.error.priority = E[i].priority /\ t.error.msg = E[i].msg
    BY <1>7, <2>1 DEF ErrorTold
  <2>3. priority < E[i].priority
    BY <1>7, <1>9, <2>2
  <2>4. ASSUME NEW j \in 1..(n + 1)
        PROVE  F[j].priority < F[i].priority \/ (F[j].priority = F[i].priority /\ j <= i)
    <3>1. CASE j \in 1..n
      BY <1>7, <1>8, <2>2, <3>1 DEF Latest
    <3>2. CASE j = n + 1
      BY <1>6, <1>8, <2>2, <2>3, <3>2
    <3> QED
      BY <1>7, <3>1, <3>2
  <2>5. i \in DOMAIN F /\ Latest(F, i) /\ F[i] = E[i]
    BY <1>7, <1>8, <2>4 DEF Latest
  <2>6. ErrorTold(t.error, F)
    BY <1>8, <1>9, <2>2, <2>5 DEF ErrorTold
  <2> QED
    BY <1>2, <1>5, <1>9, <2>6 DEF F, x
<1>10. CASE ~(t.error # NULL /\ ~(priority >= t.error.priority))
  <2>1. ASSUME NEW j \in 1..(n + 1)
        PROVE  F[j].priority < F[n + 1].priority \/ (F[j].priority = F[n + 1].priority /\ j <= n + 1)
    <3>1. CASE j \in 1..n
      <4>1. E # <<>>
        BY <1>7, <3>1
      <4>2. PICK i \in 1..n : Latest(E, i) /\ t.error # NULL /\ t.error.priority = E[i].priority
        BY <1>7, <4>1 DEF ErrorTold
      <4>3. E[j].priority <= E[i].priority
        BY <1>7, <3>1, <4>2 DEF Latest
      <4>4. priority >= E[i].priority
        BY <1>10, <4>2
      <4> QED
        BY <1>6, <1>7, <1>8, <3>1, <4>3, <4>4
    <3>2. CASE j = n + 1
      BY <1>6, <1>7, <1>8, <3>2
    <3> QED
      BY <1>7, <3>1, <3>2
  <2>2. n + 1 \in DOMAIN F /\ Latest(F, n + 1)
    BY <1>7, <1>8, <2>1 DEF Latest
  <2>3. ErrorTold(e, F)
    BY <1>3, <1>6, <1>8, <2>2 DEF ErrorTold
  <2> QED
    BY <1>2, <1>4, <1>5, <1>10, <2>3 DEF F, x
<1> QED
  BY <1>9, <1>10

(* What the end does not touch once the name is frozen.                    *)
Settled == TxnFields \ {"metrics", "attrs"}

(* The metrics of the duration say what kind of transaction it was.        *)
LEMMA DurationSays ==
  ASSUME NEW t, IsTxn(t), Loud \intersect t.metrics = {},
         NEW u, u = nr_txn_create_duration_metrics(t)
  PROVE  /\ IsTxn(u) /\ \A f \in Settled : u[f] = t[f]
         /\ <<"OtherTransaction/all">> \in u.metrics <=> t.background
         /\ <<"Apdex">> \notin u.metrics
<1> DEFINE web == IF t.background THEN {<<"OtherTransaction/all">>, <<"OtherTransactionTotalTime">>}
                  ELSE {<<"WebTransaction">>, <<"WebTransactionTotalTime">>, <<"HttpDispatcher">>}
           S == web \union {<<"Duration", t.name>>, <<"TotalTime", t.name>>}
           c == AddMetrics(t, S)
<1>1. u \in {nr_txn_create_dt_metrics(c, "DurationByCaller"), c}
  BY DEF nr_txn_create_duration_metrics
<1>2. /\ <<"OtherTransaction/all">> \in S <=> t.background
      /\ <<"Apdex">> \notin S
  <2>1. \A a, b : <<"OtherTransaction/all">> # <<a, b>> /\ <<"Apdex">> # <<a, b>>
    OBVIOUS
  <2>2. (<<"OtherTransaction/all">> \in web <=> t.background) /\ <<"Apdex">> \notin web
    OBVIOUS
  <2> HIDE DEF web
  <2> QED
    BY <2>1, <2>2
<1> HIDE DEF S
<1>3. <<"OtherTransaction/all">> \notin t.metrics /\ <<"Apdex">> \notin t.metrics
  BY DEF Loud
<1>4. c.metrics = t.metrics \union S /\ IsTxn(c) /\ \A f \in Settled : c[f] = t[f]
  BY DEF AddMetrics, IsTxn, TxnFields, Settled
<1> HIDE DEF c
<1>5. Frame(Settled, c, nr_txn_create_dt_metrics(c, "DurationByCaller")) /\ Frame(Settled, c, c)
  BY <1>4, FrameDtMetrics, FrameSelf DEF Settled
<1>6. Frame(Settled, c, u)
  BY <1>1, <1>5
<1>7. <<"OtherTransaction/all">> \in Loud /\ <<"Apdex">> \in Loud
  BY DEF Loud
<1> QED
  BY <1>2, <1>3, <1>4, <1>6, <1>7 DEF Frame

(* nr_txn_handle_total_time: the metrics agree with the background status, *)
(* and all that is told of the transaction stays.                          *)
LEMMA TotalTimeSays ==
  ASSUME NEW t, IsTxn(t), Loud \intersect t.metrics = {}, NEW duration,
         NEW u, u = nr_txn_handle_total_time(t, duration)
  PROVE  /\ IsTxn(u) /\ \A f \in Settled : u[f] = t[f]
         /\ <<"OtherTransaction/all">> \in u.metrics <=> t.background
         /\ t.background => <<"Apdex">> \notin u.metrics
<1>0. Settled \in SUBSET (TxnFields \ {"metrics"}) /\ Settled \in SUBSET (TxnFields \ {"attrs"})
  BY DEF Settled
<1>1. Frame(Settled, t, nr_txn_create_rollup_metrics(t))
  <2> DEFINE S == {<<r, WebOrOther(t)>> : r \in {q \in Rollups : <<q, "all">> \in t.metrics}}
  <2>1. nr_txn_create_rollup_metrics(t) = AddMetrics(t, S)
    BY DEF nr_txn_create_rollup_metrics
  <2>2. S \intersect Loud = {}
    BY LongMetrics, Zenon
  <2> HIDE DEF S
  <2> QED
    BY <1>0, <2>1, <2>2, FrameMetrics
<1>2. ASSUME NEW v, IsTxn(v) PROVE Frame(Settled, v, nr_txn_create_queue_metric(v))
  <2> DEFINE S == {<<"WebFrontend/QueueTime">>}
  <2>1. nr_txn_create_queue_metric(v) \in {v, AddMetrics(v, S)}
    BY DEF nr_txn_create_queue_metric
  <2>2. S \intersect Loud = {}
    BY LoudNames
  <2> HIDE DEF S
  <2> QED
    BY <1>0, <1>2, <2>1, <2>2, FrameMetrics, FrameSelf
<1>3. ASSUME NEW v, IsTxn(v) PROVE Frame(Settled, v, nr_txn_create_error_metrics(v))
  <2> DEFINE S == {<<"Errors/all">>, <<"Errors", WebOrOther(v)>>, <<"Errors/txn", v.name>>}
             c == AddMetrics(v, S)
  <2>1. nr_txn_create_error_metrics(v) \in {v, nr_txn_create_dt_metrics(c, "ErrorsByCaller"), c}
    BY DEF nr_txn_create_error_metrics
  <2>2. <<"Errors/all">> \notin Loud
    BY LoudNames
  <2>3. \A m \in S : m \notin Loud
    BY <2>2, LongMetrics, Zenon
  <2> HIDE DEF S
  <2>4. Frame(Settled, v, c) /\ Frame(Settled, v, v)
    BY <1>0, <1>3, <2>3, FrameMetrics, FrameSelf
  <2> HIDE DEF c
  <2>5. Frame(Settled, v, nr_txn_create_dt_metrics(c, "ErrorsByCaller"))
    BY <1>0, <2>4, FrameThen, FrameDtMetrics
  <2> QED
    BY <2>1, <2>4, <2>5
<1>4. ASSUME NEW v, IsTxn(v) PROVE Frame(Settled, v, nr_txn_add_error_attributes(v))
  BY <1>0, <1>4, FrameSelf, FrameAttribute DEF nr_txn_add_error_attributes
<1> DEFINE r == nr_txn_create_rollup_metrics(t)
           d == nr_txn_create_duration_metrics(r)
           sums == nr_txn_create_queue_metric(d)
           apdex == IF nr_txn_should_create_apdex_metrics(sums)
                    THEN nr_txn_create_apdex_metrics(sums, duration) ELSE sums
           e == nr_txn_create_error_metrics(apdex)
           a == nr_txn_add_error_attributes(e)
<1>5. u \in {apdex, a}
  BY DEF nr_txn_handle_total_time
<1>6. Frame(Settled, t, r)
  BY <1>1
<1> HIDE DEF r
<1>7. IsTxn(r) /\ Loud \intersect r.metrics = {} /\ (\A f \in Settled : r[f] = t[f]) /\ "background" \in Settled
  BY <1>6 DEF Frame, Settled, TxnFields
<1>8. /\ IsTxn(d) /\ \A f \in Settled : d[f] = t[f]
      /\ <<"OtherTransaction/all">> \in d.metrics <=> t.background
      /\ <<"Apdex">> \notin d.metrics
  <2>1. r.background = t.background
    BY <1>7
  <2> QED
    BY <1>7, <2>1, DurationSays
<1> HIDE DEF d
<1>9. Frame(Settled, d, sums)
  BY <1>2, <1>8
<1> HIDE DEF sums
<1>10. <<"OtherTransaction/all">> \in Loud /\ <<"Apdex">> \in Loud
  BY DEF Loud
<1> DEFINE Good(v) == /\ IsTxn(v) /\ \A f \in Settled : v[f] = t[f]
                      /\ <<"OtherTransaction/all">> \in v.metrics <=> t.background
                      /\ t.background => <<"Apdex">> \notin v.metrics
<1>11. Good(sums) /\ sums.background = t.background
  BY <1>7, <1>8, <1>9, <1>10 DEF Frame
<1>12. Good(apdex)
  <2> DEFINE S == {<<"Apdex">>} \union
                (IF sums.name = NULL THEN {} ELSE {<<"Apdex/txn", sums.name, nr_txn_apdex_zone(sums, duration)>>})
             c == AddMetrics(sums, S)
  <2>1. \/ apdex = sums
        \/ apdex = c /\ ~t.background
    BY <1>11 DEF nr_txn_should_create_apdex_metrics, nr_txn_create_apdex_metrics
  <2>2. <<"OtherTransaction/all">> \notin S
    OBVIOUS
  <2> HIDE DEF S, apdex
  <2>3. c.metrics = sums.metrics \union S /\ IsTxn(c) /\ \A f \in Settled : c[f] = sums[f]
    BY <1>11 DEF AddMetrics, IsTxn, TxnFields, Settled
  <2> HIDE DEF c
  <2> QED
    BY <1>11, <2>1, <2>2, <2>3
<1> HIDE DEF apdex
<1>13. Frame(Settled, apdex, e)
  BY <1>3, <1>12
<1> HIDE DEF e
<1>14. Frame(Settled, e, a)
  BY <1>4, <1>13 DEF Frame
<1> HIDE DEF a
<1>15. Good(a)
  BY <1>10, <1>12, <1>13, <1>14 DEF Frame
<1> QED
  BY <1>5, <1>12, <1>15

(* A transaction t that was handed over agrees with its history h.  The    *)
(* application has the given run at that moment.                           *)
Faithful(t, finished, h, run) ==
  /\ t.complete /\ ~t.recording /\ ~h.ignored /\ h.told \subseteq {t.name}
  /\ (finished /\ t.name # NULL) \/ run # t.run
  /\ finished /\ t.name # NULL =>
       /\ PathRank[t.name.kind] >= h.best
       /\ t.name.other <=> <<"OtherTransaction/all">> \in t.metrics
       /\ t.name.other => <<"Apdex">> \notin t.metrics

(* What is done to a transaction before it is finished is no part of the   *)
(* story, but for the name FPM gives.                                      *)
LEMMA StoryShuts ==
  ASSUME NEW t, NEW h, NEW app, Story(t, h, app), NEW server, NEW ini, server.code \in Nat
  PROVE  /\ Story(nr_php_txn_do_shutdown(t, server, ini), h, app)
         /\ nr_php_txn_do_shutdown(t, server, ini).error = t.error
         /\ Story(VersionMetrics(t), h, app) /\ VersionMetrics(t).error = t.error
         /\ Story(PackageMetrics(t), h, app) /\ PackageMetrics(t).error = t.error
         /\ Story(nr_txn_set_http_status(t, server.code), h, app)
         /\ nr_txn_set_http_status(t, server.code).error = t.error
         /\ Story(nr_php_txn_set_response_header_attributes(t, server), h, app)
         /\ nr_php_txn_set_response_header_attributes(t, server).error = t.error
         /\ Story(nr_php_txn_handle_fpm_error(t, server), h, app)
         /\ nr_php_txn_handle_fpm_error(t, server).error = t.error
<1> DEFINE K == StoryFields \union {"error"}
<1>1. /\ IsTxn(t) /\ K \in SUBSET (TxnFields \ Noise) /\ K \in SUBSET (TxnFields \ {"attrs"})
      /\ K \in SUBSET (TxnFields \ {"metrics"}) /\ StoryFields \in SUBSET K /\ "error" \in K
      /\ {"error"} \in SUBSET (TxnFields \ {"path_type", "path"})
      /\ "attrs" \in TxnFields \ {"opts", "metrics"}
  BY DEF Story, StoryFields, TxnFields, Noise
<1> HIDE DEF K
<1>2. ASSUME NEW u, Frame(K, t, u) PROVE Story(u, h, app) /\ u.error = t.error
  <2>1. Frame(StoryFields, t, u)
    BY <1>1, <1>2, FrameLess
  <2> QED
    BY <1>1, <1>2, <2>1, StoryFrame DEF Frame
<1>3. Frame(K, t, nr_php_txn_do_shutdown(t, server, ini))
  <2> DEFINE u == nr_txn_set_request_uri(t, server.uri)
             S == u.attrs \union
                  UNION {nr_txn_add_request_parameter(u, k, ini.capture_params).attrs : k \in Range(server.params)}
  <2>1. nr_php_txn_do_shutdown(t, server, ini) = [u EXCEPT !.attrs = S]
    BY DEF nr_php_txn_do_shutdown, nr_php_capture_request_parameters
  <2>2. Frame(K, t, u)
    BY <1>1, FrameRequestData
  <2> HIDE DEF u, S
  <2>3. Frame(K, u, [u EXCEPT !.attrs = S])
    BY <1>1, <2>2, FrameField, FrameThen
  <2> QED
    BY <2>1, <2>2, <2>3, FrameThen
<1>4. Frame(K, t, VersionMetrics(t))
  <2> DEFINE S == {<<"PHP/AgentVersion">>, <<"PHP/Version">>}
  <2>1. <<"PHP/AgentVersion">> \notin Loud /\ <<"PHP/Version">> \notin Loud
    BY LoudNames
  <2>2. S \intersect Loud = {} /\ VersionMetrics(t) = AddMetrics(t, S)
    BY <2>1 DEF VersionMetrics
  <2> HIDE DEF S
  <2> QED
    BY <1>1, <2>2, FrameMetrics
<1>5. Frame(K, t, PackageMetrics(t))
  <2> DEFINE S == {<<"PHP/package", p.name>> : p \in t.packages}
  <2>1. S \intersect Loud = {}
    BY LongMetrics, Zenon
  <2>2. PackageMetrics(t) = AddMetrics(t, S)
    BY DEF PackageMetrics
  <2> HIDE DEF S
  <2> QED
    BY <1>1, <2>1, <2>2, FrameMetrics
<1>6. /\ Frame(K, t, nr_txn_set_http_status(t, server.code))
      /\ Frame(K, t, nr_php_txn_set_response_header_attributes(t, server))
  BY <1>1, FrameRequestData
<1>7. /\ Story(nr_php_txn_handle_fpm_error(t, server), h, app)
      /\ nr_php_txn_handle_fpm_error(t, server).error = t.error
  <2> DEFINE a == nr_txn_set_attribute(t, "request_uri", t.path)
             p == <<"status", server.code>>
  <2>1. PICK no : nr_php_txn_handle_fpm_error(t, server) \in {t, nr_txn_set_path(a, p, "STATUS_CODE", no)}
    BY Zenon DEF nr_php_txn_handle_fpm_error
  <2>2. Frame(K, t, a)
    BY <1>1, FrameAttribute
  <2>3. IsPath(p) /\ "STATUS_CODE" \in PathTypes
    BY DEF IsPath, Texts, Words, PathTypes
  <2> HIDE DEF a, p
  <2>4. Story(a, h, app) /\ a.error = t.error
    BY <1>2, <2>2
  <2>5. Story(nr_txn_set_path(a, p, "STATUS_CODE", no), h, app)
    BY <2>3, <2>4, StoryPath
  <2>6. Frame({"error"}, a, nr_txn_set_path(a, p, "STATUS_CODE", no))
    BY <1>1, <2>4, FramePath DEF Story
  <2>7. nr_txn_set_path(a, p, "STATUS_CODE", no).error = t.error
    BY <2>4, <2>6 DEF Frame
  <2> QED
    BY <2>1, <2>5, <2>7
<1> QED
  BY <1>2, <1>3, <1>4, <1>5, <1>6, <1>7

(* The end of a transaction that has a story: what is not ignored agrees   *)
(* with its history.                                                       *)
LEMMA StoryEnds ==
  ASSUME NEW t, NEW h, NEW app, Story(t, h, app), ~h.ignored, NEW r, r = nr_txn_end(t, app, 1), ~r.t.ignore
  PROVE  Faithful(r.t, r.finished, h, app.run) /\ r.t.error = t.error
<1> DEFINE over == [t EXCEPT !.complete = TRUE, !.recording = FALSE]
           f == nr_txn_freeze_name_update_apdex(over, app)
           w == nr_txn_handle_total_time(f.t, 1)
<1>0. IsTxn(t)
  BY DEF Story
<1>1. /\ IsTxn(over) /\ over.complete /\ ~over.recording
      /\ \A k \in TxnFields \ {"complete", "recording"} : over[k] = t[k]
  BY <1>0 DEF IsTxn, TxnFields
<1>2. \/ r.t = over /\ ~r.finished /\ t.ignore
      \/ r.t = f.t /\ ~r.finished /\ ~f.ok /\ ~t.ignore
      \/ r.t = w /\ r.finished /\ f.ok /\ ~t.ignore
  <2>1. r = IF t.complete THEN [t |-> t, finished |-> FALSE]
            ELSE IF t.ignore THEN [t |-> over, finished |-> FALSE]
            ELSE IF ~f.ok THEN [t |-> f.t, finished |-> FALSE]
            ELSE [t |-> w, finished |-> TRUE]
    BY DEF nr_txn_end
  <2>2. ~t.complete
    BY DEF Story
  <2> HIDE DEF over, f, w
  <2> QED
    BY <2>1, <2>2
<1> HIDE DEF over
<1>3. /\ over.ignore = t.ignore /\ over.frozen = t.frozen /\ over.name = t.name /\ over.run = t.run
      /\ over.path_type = t.path_type /\ over.path = t.path /\ over.background = t.background
      /\ over.metrics = t.metrics /\ over.error = t.error
  BY <1>1 DEF TxnFields
<1>4. /\ Frame(TxnFields \ Frozen, over, f.t) /\ FreezeOutcome(over, app, f)
  BY <1>1, <1>3, FreezeFacts DEF Story
<1> HIDE DEF f
<1>5. /\ IsTxn(f.t) /\ f.t.complete /\ ~f.t.recording /\ f.t.run = t.run /\ f.t.background = t.background
      /\ f.t.error = t.error /\ Loud \intersect f.t.metrics = {}
  <2>1. {"complete", "recording", "run", "background", "error"} \subseteq TxnFields \ Frozen
    BY DEF TxnFields, Frozen
  <2>2. Loud \intersect over.metrics = {}
    BY <1>3 DEF Story
  <2> QED
    BY <1>1, <1>3, <1>4, <2>1, <2>2 DEF Frame
<1>6. CASE t.ignore
  BY <1>2, <1>3, <1>6 DEF FreezeOutcome
<1>7. CASE ~t.ignore /\ ~f.ok /\ r.t = f.t /\ ~r.finished
  <2>1. ~t.frozen /\ app.run # t.run
    BY <1>3, <1>4, <1>7 DEF FreezeOutcome
  <2>2. h.told = {}
    BY <2>1 DEF Story
  <2> QED
    BY <1>5, <1>7, <2>1, <2>2 DEF Faithful
<1>8. CASE ~t.ignore /\ f.ok /\ r.t = w /\ r.finished
  <2>1. /\ IsTxn(w) /\ \A k \in Settled : w[k] = f.t[k]
        /\ <<"OtherTransaction/all">> \in w.metrics <=> t.background
        /\ t.background => <<"Apdex">> \notin w.metrics
    BY <1>5, TotalTimeSays
  <2>2. {"complete", "recording", "run", "background", "error", "name"} \subseteq Settled
    BY DEF Settled, TxnFields
  <2> HIDE DEF w
  <2>3. w.complete /\ ~w.recording /\ w.run = t.run /\ w.error = t.error /\ w.name = f.t.name
    BY <1>5, <2>1, <2>2
  <2>4. CASE t.frozen
    <3>1. f.t = over
      BY <1>3, <1>4, <1>8, <2>4 DEF FreezeOutcome
    <3>2. w.name = t.name
      BY <1>3, <2>3, <3>1
    <3>3. h.told \subseteq {w.name} /\ (w.name # NULL \/ app.run # w.run)
      BY <1>8, <2>3, <2>4, <3>2 DEF Story
    <3>4. w.name # NULL => PathRank[w.name.kind] >= h.best /\ w.name.other = t.background
      BY <2>4, <3>2 DEF Story
    <3> QED
      BY <1>8, <2>1, <2>3, <3>3, <3>4 DEF Faithful
  <2>5. CASE ~t.frozen
    <3>1. NamedFor(over, f.t.name)
      BY <1>3, <1>4, <1>8, <2>5 DEF FreezeOutcome
    <3>2. w.name \in TxnNames /\ w.name.kind = t.path_type /\ w.name.other = t.background
      BY <1>3, <2>3, <3>1 DEF NamedFor
    <3>3. h.told = {} /\ PathRank[t.path_type] >= h.best
      BY <2>5 DEF Story
    <3>4. w.name # NULL
      BY <3>2, RequestAssumption
    <3> QED
      BY <1>8, <2>1, <2>3, <3>2, <3>3, <3>4 DEF Faithful
  <2> QED
    BY <2>4, <2>5
<1> QED
  BY <1>2, <1>6, <1>7, <1>8

(* What nr_php_txn_end hands over agrees with the history.                 *)
LEMMA SentIsFaithful ==
  ASSUME NEW t, NEW h, NEW app, Story(t, h, app), NEW ini, NEW server, server.code \in Nat,
         NEW ignoretxn, NEW post,
         NEW r, r = nr_php_txn_end(t, app, ini, server, ignoretxn, post), r # NULL
  PROVE  Faithful(r.t, r.finished, h, app.run) /\ r.t.error = t.error
<1> DEFINE stopped == [t EXCEPT !.recording = FALSE]
           shut    == IF post THEN stopped ELSE nr_php_txn_do_shutdown(stopped, server, ini)
           version == VersionMetrics(shut)
           counted == PackageMetrics(version)
           status  == nr_txn_set_http_status(counted, server.code)
           headers == nr_php_txn_set_response_header_attributes(status, server)
           fpm     == nr_php_txn_handle_fpm_error(headers, server)
           ended   == nr_txn_end(fpm, app, 1)
           Kept(u) == Story(u, h, app) /\ u.error = t.error
<1>1. r = [t |-> ended.t, finished |-> ended.finished] /\ ~ended.t.ignore
  BY DEF nr_php_txn_end
<1>2. Kept(stopped) /\ ~stopped.ignore /\ stopped.ignore = t.ignore
  <2>1. PICK no : stopped = [t EXCEPT !.recording = no]
    BY Zenon
  <2>2. "recording" \in TxnFields \ {"opts", "metrics"} /\ StoryFields \union {"error"} \in SUBSET (TxnFields \ {"recording"})
    BY DEF TxnFields, StoryFields
  <2>3. Frame(StoryFields \union {"error"}, t, stopped)
    BY <2>1, <2>2, FrameField DEF Story
  <2>4. Frame(StoryFields, t, stopped) /\ stopped.error = t.error /\ stopped.ignore = t.ignore
    BY <2>3 DEF Frame, StoryFields
  <2>5. ~stopped.ignore
    BY DEF nr_php_txn_end, nr_php_txn_should_ignore
  <2> HIDE DEF stopped
  <2> QED
    BY <2>4, <2>5, StoryFrame
<1> HIDE DEF stopped
<1>3. ~h.ignored
  BY <1>2 DEF Story
<1>4. Kept(shut)
  BY <1>2, StoryShuts
<1> HIDE DEF shut
<1>5. Kept(version)
  BY <1>4, StoryShuts
<1> HIDE DEF version
<1>6. Kept(counted)
  BY <1>5, StoryShuts
<1> HIDE DEF counted
<1>7. Kept(status)
  BY <1>6, StoryShuts
<1> HIDE DEF status
<1>8. Kept(headers)
  BY <1>7, StoryShuts
<1> HIDE DEF headers
<1>9. Kept(fpm)
  BY <1>8, StoryShuts
<1> HIDE DEF fpm
<1>10. Faithful(ended.t, ended.finished, h, app.run) /\ ended.t.error = t.error
  BY <1>1, <1>3, <1>9, StoryEnds
<1> HIDE DEF ended
<1> QED
  BY <1>1, <1>10

(* The inductive invariant of the report.  ReportIsFaithful speaks of what *)
(* was sent; what is sent depends on how the running transaction came to   *)
(* be, which is its story: when it was frozen, under which run, and what   *)
(* the browser, a caller and the application were told before.             *)
ReportInv ==
  /\ "run" \in DOMAIN rapp /\ IsPath(rserver.script) /\ rserver.code \in Nat
  /\ rtopic = "error" => rini = DefaultIni /\ rapp = DefaultApp /\ rserver = DefaultServer
  /\ rcalls \in 0..RqMaxCalls /\ Len(rsent) <= 2
  /\ \E n : rhist.told \subseteq {n}
  /\ rtxn # NULL => Len(rsent) <= 1 /\ Story(rtxn, rhist, rapp)
  /\ rtxn # NULL /\ rtopic = "error" => KeepsErrors(rtxn) /\ ErrorTold(rtxn.error, rhist.errors)
  /\ \A s \in Sent : /\ Faithful(s.t, s.finished, s.hist, s.run)
                     /\ rtopic = "error" => ErrorTold(s.t.error, s.hist.errors)

(* A story has one name at most.                                           *)
LEMMA StoryOneName == ASSUME NEW t, NEW h, NEW app, Story(t, h, app) PROVE \E n : h.told \subseteq {n}
<1>1. h.told \subseteq {t.name}
  BY DEF Story
<1> QED
  BY <1>1

(* A new transaction of a request.                                         *)
LEMMA ReportBegun ==
  ASSUME NEW app, NEW ini, NEW server, NEW guid, NEW prio, NEW sampled, app.run = 1, IsPath(server.script),
         NEW t, t = nr_php_txn_begin(app, ini, server, guid, prio, sampled), t # NULL
  PROVE  /\ Story(t, NoHistory, app)
         /\ ini = DefaultIni /\ app = DefaultApp => KeepsErrors(t) /\ ErrorTold(t.error, NoHistory.errors)
<1>1. /\ Story(t, NoHistory, app) /\ t.error = NULL /\ t.recording
      /\ t.opts = BeginOptions(app, TxnOptions(ini)) /\ t.high_security = app.high_security
  BY StoryBegins
<1>2. ini = DefaultIni /\ app = DefaultApp => KeepsErrors(t)
  BY <1>1, DefaultKeepsErrors DEF KeepsErrors
<1>3. ErrorTold(NULL, <<>>) /\ NoHistory.errors = <<>>
  BY DEF ErrorTold, NoHistory
<1> QED
  BY <1>1, <1>2, <1>3

(* The application of a request has its first run.                         *)
LEMMA FirstRun == ASSUME NEW topic PROVE \A a \in AppChoices(topic) : "run" \in DOMAIN a /\ a.run = 1
<1> DEFINE N(u, x) == [DefaultApp EXCEPT !.url_rules = u, !.txn_rules = x, !.terms = (u = x),
                         !.key_apdex = IF u = "none" THEN NULL ELSE 2]
           S(h, l, p) == [DefaultApp EXCEPT !.high_security = h, !.lasp = l,
                            !.policies.allow_raw = p, !.policies.custom_parameters = p,
                            !.policies.custom_events = p, !.policies.record_sql = p]
           Ns == {N(u, x) : u, x \in {"none", "ignore", "change"}}
           Ss == {S(h, l, p) : h, l \in BOOLEAN, p \in {NULL, FALSE, TRUE}}
           Good(a) == "run" \in DOMAIN a /\ a.run = 1
<1>1. AppChoices(topic) = CASE topic = "name" -> Ns [] topic = "security" -> Ss [] OTHER -> {DefaultApp}
  BY DEF AppChoices
<1>2. Good(DefaultApp)
  BY DEF DefaultApp
<1>3. \A u, x : Good(N(u, x))
  BY <1>2, SMTT(30)
<1>4. \A h, l, p : Good(S(h, l, p))
  BY <1>2, SMTT(30)
<1> HIDE DEF N, S, Good
<1>5. \A a \in Ns : Good(a)
  BY <1>3
<1>6. \A a \in Ss : Good(a)
  <2> DEFINE B == BOOLEAN
             P == {NULL, FALSE, TRUE}
  <2>1. Ss = {S(h, l, p) : h, l \in B, p \in P}
    OBVIOUS
  <2> HIDE DEF B, P, Ss
  <2> QED
    BY <1>4, <2>1
<1> HIDE DEF Ns, Ss
<1>7. \A a \in AppChoices(topic) : Good(a)
  BY <1>1, <1>2, <1>5, <1>6
<1> QED
  BY <1>7 DEF Good

(* What a request begins with.                                             *)
LEMMA BeginsWith ==
  ASSUME NEW topic, NEW app \in AppChoices(topic), NEW ini \in Inis(topic), NEW server \in Servers(topic)
  PROVE  /\ "run" \in DOMAIN app /\ app.run = 1 /\ IsPath(server.script) /\ server.code = 200
         /\ topic = "error" => ini = DefaultIni /\ app = DefaultApp /\ server = DefaultServer
<1>1. "run" \in DOMAIN app /\ app.run = 1
  BY FirstRun
<1>2. IsPath(server.script) /\ server.code = 200
  <2> DEFINE Good(s) == IsPath(s.script) /\ s.code = 200
             Syn(k) == [DefaultServer EXCEPT !.x_synthetics = [key |-> k, val |-> [account |-> 1]]]
             Job == [DefaultServer EXCEPT !.script = NULL, !.argv = "x", !.request_method = FALSE]
             Fpm == [Called EXCEPT !.fpm = TRUE, !.executed = FALSE]
  <2>1. /\ "script" \in DOMAIN DefaultServer /\ "code" \in DOMAIN DefaultServer
        /\ DefaultServer.code = 200 /\ IsPath(DefaultServer.script)
    <3>1. /\ "script" \in DOMAIN DefaultServer /\ "code" \in DOMAIN DefaultServer /\ DefaultServer.code = 200
      BY DEF DefaultServer
    <3> QED
      BY <3>1, DefaultKeepsErrors
  <2>2. "script" \in DOMAIN Called /\ "code" \in DOMAIN Called /\ Called.code = 200 /\ Called.script = DefaultServer.script
    BY <2>1 DEF Called
  <2>3. Good(Called)
    BY <2>1, <2>2
  <2>4. Good(Fpm)
    BY <2>1, <2>2
  <2>5. Good(Job)
    BY <2>1 DEF IsPath
  <2>6. \A k : Good(Syn(k))
    BY <2>1
  <2>7. server \in {Called, Fpm, Job, DefaultServer} \/ \E k : server = Syn(k)
    BY DEF Servers
  <2>8. Good(DefaultServer)
    BY <2>1
  <2> HIDE DEF Good, Syn, Job, Fpm
  <2>9. Good(server)
    BY <2>3, <2>4, <2>5, <2>6, <2>7, <2>8
  <2> QED
    BY <2>9 DEF Good
<1>3. topic = "error" => ini = DefaultIni /\ app = DefaultApp /\ server = DefaultServer
  BY DEF Inis, AppChoices, Servers
<1> QED
  BY <1>1, <1>2, <1>3

(* The invariant holds when the request begins.                            *)
LEMMA ReportBegins == RequestInit => ReportInv
<1> SUFFICES ASSUME RequestInit PROVE ReportInv
  OBVIOUS
<1>1. /\ "run" \in DOMAIN rapp /\ rapp.run = 1 /\ IsPath(rserver.script) /\ rserver.code = 200
      /\ rtopic = "error" => rini = DefaultIni /\ rapp = DefaultApp /\ rserver = DefaultServer
  <2>1. rapp \in AppChoices(rtopic) /\ rini \in Inis(rtopic) /\ rserver \in Servers(rtopic)
    BY DEF RequestInit
  <2> QED
    BY <2>1, BeginsWith
<1>2. PICK sampled : rtxn = nr_php_txn_begin(rapp, rini, rserver, <<"guid", 1>>, 1, sampled)
  BY Zenon DEF RequestInit
<1>3. rcalls = 0 /\ rhist = NoHistory /\ rsent = <<>>
  BY DEF RequestInit
<1>4. rtxn # NULL => /\ Story(rtxn, rhist, rapp)
                     /\ rtopic = "error" => KeepsErrors(rtxn) /\ ErrorTold(rtxn.error, rhist.errors)
  BY <1>1, <1>2, <1>3, ReportBegun
<1>5. rhist.told = {} /\ Sent = {} /\ Len(rsent) = 0
  BY <1>3 DEF NoHistory, Sent
<1>6. rcalls \in 0..RqMaxCalls
  BY <1>3, RequestAssumption
<1> QED
  BY <1>1, <1>4, <1>5, <1>6 DEF ReportInv

(* A call that keeps the story and tells nothing of errors.                *)
LEMMA ReportCall ==
  ASSUME ReportInv, rtxn # NULL, rcalls < RqMaxCalls, rcalls' = rcalls + 1,
         UNCHANGED <<rtopic, rini, rapp, rserver, rsent>>, Story(rtxn', rhist', rapp),
         rtopic = "error" => KeepsErrors(rtxn') /\ ErrorTold(rtxn'.error, rhist'.errors)
  PROVE  ReportInv'
<1>1. \E n : rhist'.told \subseteq {n}
  BY StoryOneName
<1>2. Story(rtxn', rhist', rapp')
  OBVIOUS
<1>3. rcalls' \in 0..RqMaxCalls
  BY RequestAssumption DEF ReportInv
<1>4. Sent' = Sent
  BY DEF Sent
<1> QED
  BY <1>1, <1>2, <1>3, <1>4 DEF ReportInv

(* The texts a request gives to its transaction.                           *)
LEMMA RequestTexts ==
  ASSUME rcalls \in Nat
  PROVE  /\ \A p \in PathTypes : IsPath(<<p, rcalls>>) /\ <<p, rcalls>> # NULL
         /\ IsPath(<<"function", rcalls>>) /\ IsPath(<<"f.php">>) /\ <<"raw", rcalls>> \in Texts
<1> DEFINE S == Words \union Nat
<1>1. rcalls \in S /\ PathTypes \subseteq S
  BY DEF Words
<1>2. "function" \in S /\ "f.php" \in S /\ "raw" \in S
  BY Zenon DEF Words
<1>3. Texts = Seq(S)
  BY DEF Texts
<1> HIDE DEF S
<1>4. \A w \in S : <<w>> \in Seq(S) /\ <<w, rcalls>> \in Seq(S)
  BY <1>1
<1>5. \A w \in S : <<w>> \in Texts /\ <<w, rcalls>> \in Texts
  BY <1>3, <1>4
<1> QED
  BY <1>1, <1>2, <1>5, RequestAssumption DEF IsPath

(* What every call leaves alone.                                           *)
IsCall(topics) ==
  /\ rtopic \in topics /\ rtxn # NULL /\ rcalls < RqMaxCalls /\ rcalls' = rcalls + 1
  /\ UNCHANGED <<rtopic, rini, rapp, rserver, rsent>>

(* A call that is not about errors.                                        *)
LEMMA StoryCall ==
  ASSUME ReportInv, IsCall({"name", "page", "security"}), Story(rtxn', rhist', rapp)
  PROVE  ReportInv'
<1>1. rtopic # "error"
  BY DEF IsCall
<1> QED
  BY <1>1, ReportCall DEF IsCall

(* The end: one more report, which agrees with its history.                *)
LEMMA ReportEnds ==
  ASSUME RqInv, ReportInv, NEW r, rtxn # NULL, rtxn' = NULL,
         UNCHANGED <<rtopic, rini, rapp, rserver, rcalls, rhist>>,
         NEW x, rsent' = IF r = NULL THEN rsent ELSE Append(rsent, x),
         r # NULL => /\ Faithful(x.t, x.finished, x.hist, x.run)
                     /\ rtopic = "error" => ErrorTold(x.t.error, x.hist.errors)
  PROVE  ReportInv'
<1> DEFINE Good(s) == /\ Faithful(s.t, s.finished, s.hist, s.run)
                      /\ rtopic = "error" => ErrorTold(s.t.error, s.hist.errors)
<1>1. \A s \in Sent : Good(s)
  BY DEF ReportInv
<1>2. rsent \in Seq(Sent) /\ Len(rsent) \in Nat /\ Len(rsent) <= 1
  <2>1. rsent \in Seq(Sent)
    BY DEF RqInv
  <2> QED
    BY <2>1 DEF ReportInv
<1>3. \A s \in Sent' : s \in Sent \/ (r # NULL /\ s = x)
  <2>1. CASE r = NULL
    BY <2>1 DEF Sent
  <2>2. CASE r # NULL
    <3>1. \A i \in DOMAIN rsent : rsent[i] \in Sent
      BY DEF Sent
    <3>2. ASSUME NEW S, rsent \in Seq(S)
          PROVE  \A i \in DOMAIN Append(rsent, x) :
                   Append(rsent, x)[i] = x \/ (i \in DOMAIN rsent /\ Append(rsent, x)[i] = rsent[i])
      BY <3>2
    <3>3. \A i \in DOMAIN rsent' : rsent'[i] = x \/ (i \in DOMAIN rsent /\ rsent'[i] = rsent[i])
      BY <1>2, <2>2, <3>2
    <3> QED
      BY <2>2, <3>1, <3>3 DEF Sent
  <2> QED
    BY <2>1, <2>2
<1>4. r # NULL => Good(x)
  OBVIOUS
<1>5. \A s \in Sent' : Good(s)
  <2> HIDE DEF Good
  <2> QED
    BY <1>1, <1>3, <1>4
<1>6. Len(rsent') <= 2
  BY <1>2
<1> QED
  BY <1>5, <1>6 DEF ReportInv

(* Every step of the request preserves the invariant.                      *)
LEMMA ReportStep == RqInv /\ ReportInv /\ [RequestNext]_requestVars => ReportInv'
<1> SUFFICES ASSUME RqInv, ReportInv, [RequestNext]_requestVars PROVE ReportInv'
  OBVIOUS
<1>0. /\ rtxn # NULL => Story(rtxn, rhist, rapp)
      /\ rcalls \in Nat
  BY DEF ReportInv
<1> DEFINE Topics == {"name", "page", "security"}
<1>1. CASE SetPath
  <2>1. PICK ptype \in PathTypes \ {"UNKNOWN", "URI"}, overwrite \in BOOLEAN :
          /\ IsCall(Topics) /\ rtxn' = nr_txn_set_path(rtxn, <<ptype, rcalls>>, ptype, overwrite)
          /\ rhist' = IF rtxn.frozen THEN rhist ELSE [rhist EXCEPT !.best = Higher(@, PathRank[ptype])]
    BY <1>1 DEF SetPath, Call, IsCall
  <2>2. IsPath(<<ptype, rcalls>>) /\ <<ptype, rcalls>> # NULL
    BY <1>0, RequestTexts
  <2> DEFINE p == <<ptype, rcalls>>
  <2> HIDE DEF p
  <2>3. Story(rtxn, rhist, rapp)
    BY <1>0, <2>1 DEF IsCall
  <2>4. Story(rtxn', rhist', rapp)
    BY <2>1, <2>2, <2>3, StoryPath
  <2> QED
    BY <2>1, <2>4, StoryCall
<1>2. CASE NameFromFunctionOrFile
  <2> DEFINE u == nr_txn_add_file_naming_pattern(rtxn, <<"f.php">>)
  <2>1. /\ IsCall(Topics) /\ rhist' = rhist /\ rtxn # NULL
        /\ rtxn' \in {nr_txn_name_from_function(rtxn, <<"function", rcalls>>),
                      nr_txn_match_file(u, <<"f.php">>)}
    BY <1>2 DEF NameFromFunctionOrFile, Call, IsCall
  <2>2. IsPath(<<"function", rcalls>>) /\ IsPath(<<"f.php">>)
    BY <1>0, RequestTexts
  <2>3. Story(u, rhist, rapp)
    BY <1>0, <2>1, <2>2, StoryNaming
  <2> HIDE DEF u
  <2>4. Story(rtxn', rhist', rapp)
    BY <1>0, <2>1, <2>2, <2>3, StoryNaming
  <2> QED
    BY <2>1, <2>4, StoryCall
<1>3. CASE BackgroundJob
  <2>1. PICK b \in BOOLEAN : /\ IsCall(Topics) /\ rtxn # NULL /\ rhist' = rhist
                             /\ rtxn' = nr_txn_change_background_status(rtxn, b)
    BY <1>3 DEF BackgroundJob, Call, IsCall
  <2>2. Story(rtxn', rhist', rapp)
    BY <1>0, <2>1, StoryBackground
  <2> QED
    BY <2>1, <2>2, StoryCall
<1>4. CASE IgnoreTransaction
  <2>1. /\ IsCall(Topics) /\ rtxn # NULL /\ rtxn' = nr_txn_ignore(rtxn)
        /\ rhist' = [rhist EXCEPT !.ignored = TRUE]
    BY <1>4 DEF IgnoreTransaction, Call, IsCall
  <2>2. Story(rtxn', rhist', rapp)
    BY <1>0, <2>1, StoryIgnore
  <2> QED
    BY <2>1, <2>2, StoryCall
<1>5. CASE nr_php_header_output_handler
  <2> DEFINE r == nr_header_inbound_response(rtxn, rapp, 2)
  <2>1. /\ IsCall(Topics) /\ rtxn # NULL /\ rtxn' = r.t
        /\ rhist' = IF r.header = NULL THEN rhist ELSE [rhist EXCEPT !.told = @ \union {r.header.val.name}]
    BY <1>5 DEF nr_php_header_output_handler, Call, IsCall
  <2>2. Story(rtxn', rhist', rapp)
    BY <1>0, <2>1, StoryResponse
  <2> QED
    BY <2>1, <2>2, StoryCall
<1>6. CASE BrowserTiming
  <2> DEFINE h == nr_rum_produce_header(rtxn, rapp, FALSE)
             f == nr_rum_produce_footer(rtxn, rapp, FALSE)
  <2>1. /\ IsCall(Topics) /\ rtxn # NULL
        /\ \/ rtxn' = h.t /\ rhist' = rhist
           \/ rtxn' = f.t /\ rhist' = IF f.out = NULL THEN rhist ELSE [rhist EXCEPT !.told = @ \union {f.t.name}]
    BY <1>6 DEF BrowserTiming, Call, IsCall
  <2>2. PICK no : h = nr_rum_produce_header(rtxn, rapp, no)
    BY Zenon
  <2>3. PICK no2 : f = nr_rum_produce_footer(rtxn, rapp, no2)
    BY Zenon
  <2> HIDE DEF h, f
  <2>4. Story(h.t, rhist, rapp) /\ Story(f.t, rhist, rapp) /\ (f.out # NULL => f.t.frozen)
    BY <1>0, <2>1, <2>2, <2>3, StoryRum
  <2>5. Story(rtxn', rhist', rapp)
    BY <2>1, <2>4, StoryTold
  <2> QED
    BY <2>1, <2>5, StoryCall
<1>7. CASE Output
  <2>1. PICK buffer \in RqPages, has_length \in BOOLEAN, html \in BOOLEAN :
          \E r \in {nr_php_rum_output_handler(rtxn, rapp, buffer, has_length, html)} :
            /\ IsCall(Topics) /\ rtxn # NULL /\ rtxn' = r.t
            /\ rhist' = IF "RUM_footer" \in Range(r.out) THEN [rhist EXCEPT !.told = @ \union {r.t.name}] ELSE rhist
    BY <1>7 DEF Output, Call, IsCall
  <2> DEFINE r == nr_php_rum_output_handler(rtxn, rapp, buffer, has_length, html)
  <2>2. /\ IsCall(Topics) /\ rtxn # NULL /\ rtxn' = r.t
        /\ rhist' = IF "RUM_footer" \in Range(r.out) THEN [rhist EXCEPT !.told = @ \union {r.t.name}] ELSE rhist
    BY <2>1
  <2>3. buffer \in Seq(HtmlItems)
    BY RequestAssumption
  <2>4. Story(rtxn', rhist', rapp)
    BY <1>0, <2>2, <2>3, StoryHandler
  <2> QED
    BY <2>2, <2>4, StoryCall
<1>8. CASE RecordError
  <2>1. PICK priority \in 1..3 :
          /\ rtxn # NULL /\ rtxn' = nr_txn_record_error(rtxn, priority, <<"raw", rcalls>>, "segment")
          /\ rhist' = IF rtxn.recording
                      THEN [rhist EXCEPT !.errors = Append(@, [priority |-> priority, msg |-> <<"raw", rcalls>>])]
                      ELSE rhist
          /\ IsCall({"error", "security"})
    BY <1>8 DEF RecordError, Call, IsCall
  <2> DEFINE m == <<"raw", rcalls>>
             e == [priority |-> priority, msg |-> m]
             E == Append(rhist.errors, e)
  <2>2. rhist' = IF rtxn.recording THEN [rhist EXCEPT !.errors = E] ELSE rhist
    BY <2>1
  <2>3. m \in Texts /\ rtxn' = nr_txn_record_error(rtxn, priority, m, "segment")
    BY <1>0, <2>1, RequestTexts
  <2> HIDE DEF m
  <2>4. Story(rtxn', rhist', rapp)
    <3> HIDE DEF E
    <3>1. Story(rtxn, rhist, rapp)
      BY <1>0, <2>1
    <3>2. Story(rtxn', rhist, rapp) /\ Story(rtxn', [rhist EXCEPT !.errors = E], rapp)
      BY <2>3, <3>1, StoryError
    <3> QED
      BY <2>2, <3>2
  <2>5. rtopic = "error" => KeepsErrors(rtxn') /\ ErrorTold(rtxn'.error, rhist'.errors)
    <3> SUFFICES ASSUME rtopic = "error" PROVE KeepsErrors(rtxn') /\ ErrorTold(rtxn'.error, rhist'.errors)
      OBVIOUS
    <3>1. IsTxn(rtxn) /\ KeepsErrors(rtxn) /\ ErrorTold(rtxn.error, rhist.errors) /\ "errors" \in DOMAIN rhist
      BY <1>0, <2>1 DEF ReportInv, Story
    <3>2. KeepsErrors(rtxn') /\ ErrorTold(rtxn'.error, E)
      BY <2>1, <2>3, <3>1, ErrorStep
    <3> HIDE DEF E
    <3>3. rhist'.errors = E
      BY <2>2, <3>1 DEF KeepsErrors
    <3> QED
      BY <3>2, <3>3
  <2> QED
    BY <2>1, <2>4, <2>5, ReportCall DEF IsCall
<1>9. CASE AddData
  <2>1. /\ rtxn # NULL /\ rhist' = rhist /\ IsCall(Topics)
        /\ \/ rtxn' = nr_txn_add_user_custom_parameter(rtxn, "k")
           \/ rtxn' = nr_txn_record_custom_event(rtxn)
           \/ \E v \in {"nan", "1"} : rtxn' = nr_txn_add_custom_metric(rtxn, "m", v)
           \/ \E level \in {3, 5} : rtxn' = nr_txn_record_log_event(rtxn, level, "text", "segment")
           \/ \E source \in {"LEGACY", "COMPOSER"} :
                rtxn' = nr_txn_add_php_package_from_source(rtxn, "pkg", source)
    BY <1>9 DEF AddData, Call, IsCall
  <2>2. Story(rtxn', rhist', rapp)
    BY <1>0, <2>1, StoryData
  <2> QED
    BY <2>1, <2>2, StoryCall
<1>10. CASE NewRun
  <2>1. /\ rtopic = "name" /\ rapp' = [rapp EXCEPT !.run = 2]
        /\ UNCHANGED <<rtopic, rini, rserver, rtxn, rcalls, rhist, rsent>>
    BY <1>10 DEF NewRun
  <2>2. "run" \in DOMAIN rapp' /\ rapp'.run = 2
    BY <2>1 DEF ReportInv
  <2>3. rtxn # NULL => Story(rtxn, rhist, rapp')
    BY <1>0, <2>2 DEF Story
  <2>4. rtopic' # "error" /\ Sent' = Sent
    BY <2>1 DEF Sent
  <2> QED
    BY <2>1, <2>2, <2>3, <2>4 DEF ReportInv
<1>11. CASE End
  <2>1. PICK ignoretxn \in BOOLEAN, post \in BOOLEAN :
          \E r \in {nr_php_txn_end(rtxn, rapp, rini, rserver, ignoretxn, post)} :
            /\ rtxn # NULL /\ rtxn' = NULL /\ UNCHANGED <<rtopic, rini, rapp, rserver, rcalls, rhist>>
            /\ rsent' = IF r = NULL THEN rsent
                  ELSE Append(rsent, [t |-> r.t, finished |-> r.finished, hist |-> rhist,
                                      run |-> rapp.run])
    BY <1>11 DEF End
  <2> DEFINE r == nr_php_txn_end(rtxn, rapp, rini, rserver, ignoretxn, post)
             x == [t |-> r.t, finished |-> r.finished, hist |-> rhist, run |-> rapp.run]
  <2>2. /\ rtxn # NULL /\ rtxn' = NULL /\ UNCHANGED <<rtopic, rini, rapp, rserver, rcalls, rhist>>
        /\ rsent' = IF r = NULL THEN rsent ELSE Append(rsent, x)
    BY <2>1
  <2>3. r # NULL => Faithful(r.t, r.finished, rhist, rapp.run) /\ r.t.error = rtxn.error
    BY <1>0, <2>2, SentIsFaithful DEF ReportInv
  <2> HIDE DEF r
  <2>4. x.t = r.t /\ x.finished = r.finished /\ x.hist = rhist /\ x.run = rapp.run
    OBVIOUS
  <2> HIDE DEF x
  <2>5. rtopic = "error" => ErrorTold(rtxn.error, rhist.errors)
    BY <2>2 DEF ReportInv
  <2>6. r # NULL => /\ Faithful(x.t, x.finished, x.hist, x.run)
                    /\ rtopic = "error" => ErrorTold(x.t.error, x.hist.errors)
    BY <2>3, <2>4, <2>5
  <2> QED
    BY <2>2, <2>6, ReportEnds
<1>12. CASE Restart
  <2>1. /\ rtopic = "error" /\ Len(rsent) = 1 /\ UNCHANGED <<rtopic, rini, rapp, rserver, rcalls, rsent>>
        /\ rhist' = NoHistory /\ rtxn' = nr_php_txn_begin(rapp, rini, rserver, <<"guid", 2>>, 1, TRUE)
    BY <1>12 DEF Restart
  <2>2. rini = DefaultIni /\ rapp = DefaultApp /\ rserver = DefaultServer /\ rapp.run = 1 /\ IsPath(rserver.script)
    BY <2>1, DefaultKeepsErrors DEF ReportInv
  <2>3. PICK sampled : rtxn' = nr_php_txn_begin(rapp, rini, rserver, <<"guid", 2>>, 1, sampled)
    BY <2>1, Zenon
  <2>4. rtxn' # NULL => Story(rtxn', rhist', rapp) /\ KeepsErrors(rtxn') /\ ErrorTold(rtxn'.error, rhist'.errors)
    BY <2>1, <2>2, <2>3, ReportBegun
  <2>5. rhist'.told = {} /\ Sent' = Sent
    BY <2>1 DEF NoHistory, Sent
  <2>6. \E n : rhist'.told \subseteq {n}
    BY <2>5
  <2>7. Len(rsent') <= 1 /\ Len(rsent') <= 2
    BY <2>1
  <2> QED
    BY <2>1, <2>4, <2>5, <2>6, <2>7 DEF ReportInv
<1>13. CASE UNCHANGED requestVars
  BY <1>13 DEF requestVars, ReportInv, Sent
<1> QED
  BY <1>1, <1>2, <1>3, <1>4, <1>5, <1>6, <1>7, <1>8, <1>9, <1>10, <1>11, <1>12, <1>13 DEF RequestNext

(* ReportIsFaithful: for any number of calls and any pages, in whatever    *)
(* order a request names, ignores and ends its transaction, meets errors,  *)
(* tells its name and gets a new run, what nr_php_txn_end hands over has   *)
(* the one name that was told, the best that came in time, metrics of the  *)
(* same kind and the error of the highest priority.                        *)
THEOREM ReportsAreFaithful == RequestSpec => []ReportIsFaithful
<1>1. RequestSpec => []ReportInv
  BY RequestInvariant, ReportBegins, ReportStep, PTL DEF RequestSpec
<1>2. ReportInv => ReportIsFaithful
  <2> SUFFICES ASSUME ReportInv PROVE ReportIsFaithful
    OBVIOUS
  <2>1. RequestTypeOK
    <3>1. rtxn # NULL => /\ rtxn.path_type \in PathTypes /\ ~rtxn.complete
                         /\ rtxn.rum_header \in 0..2 /\ rtxn.rum_footer \in 0..2
      BY DEF ReportInv, Story
    <3>2. \A s \in Sent : s.t.complete /\ ~s.t.recording
      BY DEF ReportInv, Faithful
    <3>3. rcalls \in 0..RqMaxCalls /\ Len(rsent) <= 2
      BY DEF ReportInv
    <3> QED
      BY <3>1, <3>2, <3>3 DEF RequestTypeOK
  <2>2. OneName
    <3>1. PICK n : rhist.told \subseteq {n}
      BY DEF ReportInv
    <3>2. Cardinality(rhist.told) <= 1
      <4>1. rhist.told = {} \/ rhist.told = {n}
        BY <3>1
      <4>2. Cardinality({}) = 0 /\ Cardinality({n}) = 1
        BY FS_EmptySet, FS_Singleton
      <4> QED
        BY <4>1, <4>2
    <3>3. \A s \in Sent : s.hist.told \subseteq {s.t.name}
      BY DEF ReportInv, Faithful
    <3> QED
      BY <3>2, <3>3 DEF OneName
  <2>3. BestName /\ KindAgrees /\ IgnoredOrFinished
    BY DEF ReportInv, Faithful, BestName, KindAgrees, IgnoredOrFinished, IsNamed
  <2>4. HighestError
    <3> SUFFICES ASSUME NEW s \in Sent, rtopic = "error", NEW E, E = s.hist.errors
          PROVE  IF E = <<>> THEN s.t.error = NULL
                 ELSE \E i \in {i \in DOMAIN E : \A j \in DOMAIN E : E[j].priority < E[i].priority
                                    \/ (E[j].priority = E[i].priority /\ j <= i)} :
                        s.t.error.priority = E[i].priority /\ s.t.error.msg = E[i].msg
      BY DEF HighestError
    <3>1. ErrorTold(s.t.error, E)
      BY DEF ReportInv
    <3> QED
      BY <3>1 DEF ErrorTold, Latest
  <2> QED
    BY <2>1, <2>2, <2>3, <2>4 DEF ReportIsFaithful
<1> QED
  BY <1>1, <1>2, PTL

-----------------------------------------------------------------------------
(* The trace of a request through several services.                        *)

(* Every place of a set has a rank, and every rank a place.                *)
LEMMA Ranked ==
  ASSUME NEW n \in Nat, NEW J \in SUBSET (1..n), NEW i \in 1..Cardinality(J)
  PROVE  \E p \in J : Cardinality({q \in J : q <= p}) = i
<1> DEFINE C(p) == {q \in J : q <= p}
           f == [p \in J |-> Cardinality(C(p))]
           m == Cardinality(J)
<1>1. IsFiniteSet(J) /\ m \in Nat
  <2>1. IsFiniteSet(1..n)
    BY FS_Interval
  <2> QED
    BY <2>1, FS_Subset, FS_CardinalityType
<1>2. ASSUME NEW p \in J PROVE IsFiniteSet(C(p)) /\ Cardinality(C(p)) \in 1..m
  <2>1. C(p) \in SUBSET J /\ p \in C(p)
    BY <1>2
  <2> HIDE DEF C
  <2>2. IsFiniteSet(C(p)) /\ Cardinality(C(p)) <= m /\ Cardinality(C(p)) \in Nat
    BY <1>1, <2>1, FS_Subset, FS_CardinalityType
  <2>3. Cardinality(C(p)) # 0
    BY <2>1, <2>2, FS_EmptySet
  <2> QED
    BY <1>1, <2>2, <2>3
<1>3. ASSUME NEW p \in J, NEW q \in J, p < q PROVE Cardinality(C(p)) # Cardinality(C(q))
  <2>0. \A x \in J : x \in Nat /\ (x <= p => x <= q) /\ (x = q => ~(x <= p)) /\ x <= x
    BY <1>3
  <2>1. C(p) \in SUBSET C(q) /\ q \in C(q) /\ q \notin C(p)
    BY <2>0
  <2>2. IsFiniteSet(C(q))
    BY <1>2
  <2> HIDE DEF C
  <2> QED
    BY <2>1, <2>2, FS_Subset
<1> HIDE DEF C
<1>4. f \in [J -> 1..m] /\ \A p \in J : f[p] = Cardinality(C(p))
  BY <1>2
<1> HIDE DEF f
<1>5. ASSUME NEW p \in J, NEW q \in J, f[p] = f[q] PROVE p = q
  BY <1>3, <1>4, <1>5
<1>6. f \in Injection(J, 1..m)
  BY <1>4, <1>5 DEF Injection, IsInjective
<1>7. IsFiniteSet(1..m) /\ Cardinality(1..m) = m
  BY <1>1, FS_Interval
<1>8. f \in Surjection(J, 1..m)
  BY <1>6, <1>7, FS_Injection
<1>9. PICK p \in J : f[p] = i
  BY <1>8 DEF Surjection
<1> QED
  BY <1>4, <1>9 DEF C

(* Pick: what is at the places, and nothing else.                          *)
LEMMA PickFacts ==
  ASSUME NEW S, NEW T, NEW s \in Seq(S), NEW J \in SUBSET (DOMAIN s), \A j \in J : s[j] \in T
  PROVE  Pick(s, J) \in Seq(T) /\ (J # {} => Pick(s, J) # <<>>)
<1> DEFINE n == Len(s)
           m == Cardinality(J)
           At1(i) == CHOOSE p \in J : Cardinality({q \in J : q <= p}) = i
<1>1. n \in Nat /\ J \in SUBSET (1..n)
  OBVIOUS
<1>2. m \in Nat
  <2>1. IsFiniteSet(1..n)
    BY <1>1, FS_Interval
  <2> QED
    BY <1>1, <2>1, FS_Subset, FS_CardinalityType
<1>3. ASSUME NEW i \in 1..m PROVE At1(i) \in J
  <2>1. \E p \in J : Cardinality({q \in J : q <= p}) = i
    BY <1>1, Ranked
  <2> QED
    BY <2>1
<1>4. Pick(s, J) = [i \in 1..m |-> s[At1(i)]]
  BY DEF Pick
<1> HIDE DEF At1, m
<1>5. \A i \in 1..m : s[At1(i)] \in T
  BY <1>3
<1>6. J # {} => m # 0
  <2>1. IsFiniteSet(J)
    BY <1>1, FS_Interval, FS_Subset
  <2> QED
    BY <2>1, FS_EmptySet DEF m
<1>7. Pick(s, J) \in Seq(T) /\ Len(Pick(s, J)) = m
  BY <1>2, <1>4, <1>5
<1> QED
  BY <1>6, <1>7

(* A set of places has a last one.                                         *)
LEMMA LastPlace ==
  ASSUME NEW n \in Nat, NEW J \in SUBSET (1..n), J # {} PROVE Max(J) \in J
<1> DEFINE S == {n - j : j \in J}
<1>1. S \in SUBSET Nat /\ S # {}
  <2>1. ASSUME NEW j \in J PROVE n - j \in Nat
    <3>1. j \in 1..n
      OBVIOUS
    <3> QED
      BY <3>1
  <2>2. PICK j : j \in J
    OBVIOUS
  <2>3. n - j \in S
    BY <2>2
  <2> QED
    BY <2>1, <2>3
<1>2. PICK x \in S : \A y \in S : x <= y
  <2> HIDE DEF S
  <2> QED
    BY <1>1, LeastNumber
<1>3. PICK j \in J : x = n - j
  OBVIOUS
<1>4. \A k \in J : j >= k
  <2>1. \A k \in J : n - k \in S
    OBVIOUS
  <2> HIDE DEF S
  <2>2. \A k \in J : n - j <= n - k
    BY <1>2, <1>3, <2>1
  <2> QED
    BY <2>2
<1> QED
  BY <1>4 DEF Max

(* Reading a tracestate: the entry is one of our own account, if any, and  *)
(* the vendors are the others.                                             *)
LEMMA ReadState ==
  ASSUME NEW st \in States \union {NULL}, NEW r,
         r = nr_distributed_trace_convert_w3c_headers_tracestate(st, "acct")
  PROVE  /\ r.vendors \in Seq({VendorEntry})
         /\ r.entry \in EntryValues \union {NULL}
         /\ r.entry # NULL => st # NULL /\ \E i \in DOMAIN st : st[i].key = "acct" /\ st[i].val = r.entry
         /\ st # NULL /\ (\E i \in DOMAIN st : st[i].key = "acct") => r.entry # NULL
         /\ st # NULL /\ VendorEntry \in Range(st) => r.vendors # <<>>
<1> DEFINE Es == [key : {"acct"}, val : EntryValues] \union {VendorEntry}
           E == IF st = NULL THEN <<>> ELSE st
           M == {i \in DOMAIN E : E[i].key = "acct"}
           e == IF M = {} THEN NULL ELSE E[Max(M)].val
<1>1. "acct" # NULL /\ \A v \in EntryValues : v # NULL /\ v # NUM
  BY ChainAssumption
<1>2. r.entry = (IF e = NUM THEN NULL ELSE e) /\ r.vendors = Pick(E, DOMAIN E \ M)
  BY <1>1 DEF nr_distributed_trace_convert_w3c_headers_tracestate
<1>3. E \in Seq(Es)
  BY DEF States, Entries
<1>4. \A x \in Es : (x.key = "acct" => x.val \in EntryValues) /\ (x.key # "acct" => x = VendorEntry)
  BY DEF VendorEntry
<1> HIDE DEF Es
<1>5. Len(E) \in Nat /\ DOMAIN E = 1..Len(E) /\ \A i \in DOMAIN E : E[i] \in Es
  BY <1>3
<1>6. M # {} => Max(M) \in M
  <2>1. M \in SUBSET (1..Len(E))
    BY <1>5
  <2> HIDE DEF M
  <2> QED
    BY <1>5, <2>1, LastPlace
<1>7. M # {} => Max(M) \in DOMAIN E /\ E[Max(M)].key = "acct" /\ E[Max(M)].val \in EntryValues
  BY <1>4, <1>5, <1>6
<1>8. r.vendors \in Seq({VendorEntry}) /\ (st # NULL /\ VendorEntry \in Range(st) => r.vendors # <<>>)
  <2> DEFINE J == DOMAIN E \ M
  <2>1. \A j \in J : E[j] \in {VendorEntry}
    BY <1>4, <1>5
  <2>2. J \in SUBSET (DOMAIN E)
    OBVIOUS
  <2>3. r.vendors = Pick(E, J)
    BY <1>2
  <2>4. st # NULL /\ VendorEntry \in Range(st) => J # {}
    BY DEF Range, VendorEntry
  <2> HIDE DEF J, E
  <2> QED
    BY <1>3, <2>1, <2>2, <2>3, <2>4, PickFacts
<1>9. CASE M = {}
  <2>1. r.entry = NULL
    BY <1>2, <1>9, ChainAssumption
  <2> QED
    BY <1>8, <1>9, <2>1
<1>10. CASE M # {}
  <2>1. r.entry = E[Max(M)].val /\ r.entry \in EntryValues
    BY <1>1, <1>2, <1>7, <1>10
  <2>2. st # NULL /\ E = st
    BY <1>10
  <2> HIDE DEF E, M
  <2> QED
    BY <1>1, <1>7, <1>8, <1>10, <2>1, <2>2
<1> QED
  BY <1>9, <1>10

(* A distributed trace as services of the chain have it.                   *)
TraceFields == {"account_id", "app_id", "txn_id", "trace_id", "trusted_key", "priority", "sampled", "inbound"}
InboundFields == {"set", "type", "account_id", "app_id", "transport_type", "guid", "txn_id", "tracing_vendors",
                  "raw_tracing_vendors", "trusted_parent_id", "timestamp"}

IsTrace(d) ==
  /\ DOMAIN d = TraceFields /\ DOMAIN d.inbound = InboundFields
  /\ d.account_id = "acct" /\ d.app_id = "app" /\ d.trusted_key = "acct" /\ d.txn_id \in Guids
  /\ d.trace_id \in Traces /\ d.priority \in Nat \ {0} /\ d.sampled \in BOOLEAN
  /\ d.inbound.set \in BOOLEAN /\ d.inbound.raw_tracing_vendors \in Seq({VendorEntry})

(* The headers h carry the trace, the decision and the priority of the     *)
(* call c, as far as they have arrived.                                    *)
Carries(h, c) ==
  /\ h.newrelic \in Payloads \union {NULL} /\ h.traceparent \in Parents \union {NULL, NUM}
  /\ h.tracestate \in States \union {NULL}
  /\ h.newrelic # NULL => /\ h.newrelic.tr.id = c.trace.id /\ h.newrelic.pr = c.priority
                          /\ h.newrelic.sa = c.sampled
  /\ h.traceparent \in Parents => h.traceparent.trace_id.id = c.trace.id
  /\ h.tracestate # NULL => \A i \in DOMAIN h.tracestate : h.tracestate[i].key = "acct" =>
       h.tracestate[i].val.sampled = c.sampled /\ h.tracestate[i].val.priority = c.priority

IsCallOf(c) ==
  "headers" \in DOMAIN c /\ Carries(c.headers, c) /\ c.priority \in Nat \ {0} /\ c.sampled \in BOOLEAN

(* An entry of our own has arrived, or the payload alone.                  *)
Decided(h) == h.traceparent = NULL \/ (h.tracestate # NULL /\ \E i \in DOMAIN h.tracestate : h.tracestate[i].key = "acct")

(* What a service that has taken over a call has of it.                    *)
Taken(d, c, opts) ==
  /\ d.inbound.set /\ d.trace_id.id = c.trace.id
  /\ opts.parent_sampled = "DEFAULT" /\ opts.parent_not_sampled = "DEFAULT" /\ Decided(c.headers) =>
       d.sampled = c.sampled /\ d.priority = c.priority
  /\ c.headers.traceparent # NULL /\ c.headers.tracestate # NULL /\ VendorEntry \in Range(c.headers.tracestate) =>
       d.inbound.raw_tracing_vendors # <<>>

(* The application of the chain.                                           *)
LEMMA ChainApp == /\ DefaultApp.trusted_key = "acct" /\ DefaultApp.account_id = "acct" /\ DefaultApp.app_id = "app"
                  /\ DefaultApp.state = "OK" /\ DefaultApp.run = 1
  BY DEF DefaultApp

(* Setting the transport type is no matter.                                *)
LEMMA TransportType ==
  ASSUME NEW d, IsTrace(d), NEW v, NEW e, e = nr_distributed_trace_inbound_set_transport_type(d, v)
  PROVE  /\ IsTrace(e) /\ e.trace_id = d.trace_id /\ e.sampled = d.sampled /\ e.priority = d.priority
         /\ e.inbound.set = d.inbound.set /\ e.inbound.raw_tracing_vendors = d.inbound.raw_tracing_vendors
<1> DEFINE x == IF v \in TransportTypes THEN v ELSE "Unknown"
<1>1. e = [d EXCEPT !.inbound.transport_type = x]
  BY DEF nr_distributed_trace_inbound_set_transport_type
<1> HIDE DEF x
<1>2. /\ DOMAIN e = TraceFields /\ \A f \in TraceFields \ {"inbound"} : e[f] = d[f]
      /\ e.inbound = [d.inbound EXCEPT !.transport_type = x]
  BY <1>1 DEF IsTrace, TraceFields
<1>3. /\ DOMAIN e.inbound = InboundFields /\ e.inbound.set = d.inbound.set
      /\ e.inbound.raw_tracing_vendors = d.inbound.raw_tracing_vendors
  BY <1>2 DEF IsTrace, InboundFields
<1> QED
  BY <1>2, <1>3 DEF IsTrace, TraceFields

(* The newrelic payload, which a caller of the chain has written.          *)
LEMMA TakePayload ==
  ASSUME NEW d, IsTrace(d), NEW p \in Payloads, p.pr # 0, NEW v,
         NEW e, e = nr_distributed_trace_accept_inbound_payload(d, p, v)
  PROVE  /\ nr_distributed_trace_convert_payload_to_object(p) = ""
         /\ nr_txn_is_account_trusted_dt(DefaultApp, nr_distributed_trace_object_get_trusted_key(p))
         /\ IsTrace(e) /\ e.trace_id = p.tr /\ e.sampled = p.sa /\ e.priority = p.pr /\ e.inbound.set
<1>1. /\ p.v = 0 /\ p.ty = "App" /\ p.ac = "acct" /\ p.ap = "app" /\ p.tr \in Traces /\ p.tx \in Guids
      /\ p.pr \in Nat /\ p.sa \in BOOLEAN /\ p.ti \in Nat /\ p.tk = NULL
  BY DEF Payloads
<1>2. /\ p # NULL /\ p # NUM /\ p.ty # NULL /\ p.ac # NULL /\ p.ac # NUM /\ p.ap # NULL /\ p.tr # NULL /\ p.tr # NUM
      /\ p.ti # NULL /\ p.v # NULL /\ p.tx # NULL /\ p.tx # NUM /\ NULL # NUM /\ p.pr # NULL /\ p.sa # NULL
  <2>1. NULL \notin Nat /\ NULL \notin BOOLEAN
    BY RequestAssumption
  <2>2. p.pr # NULL /\ p.ti # NULL /\ p.v # NULL
    BY <1>1, <2>1
  <2>3. p.sa # NULL
    BY <1>1, <2>1
  <2> QED
    BY <1>1, <2>2, <2>3, ChainAssumption
<1>3. nr_distributed_trace_convert_payload_to_object(p) = ""
  BY <1>1, <1>2 DEF nr_distributed_trace_convert_payload_to_object, SupportedMajorVersion, AsString
<1>4. nr_txn_is_account_trusted_dt(DefaultApp, nr_distributed_trace_object_get_trusted_key(p))
  BY <1>1, <1>2, ChainApp DEF nr_txn_is_account_trusted_dt, nr_distributed_trace_object_get_trusted_key, AsString
<1> DEFINE b == [d.inbound EXCEPT !.type = AsString(p.ty), !.account_id = AsString(p.ac),
                   !.app_id = AsString(p.ap), !.guid = AsString(p.id), !.txn_id = AsString(p.tx),
                   !.timestamp = p.ti, !.set = TRUE]
           a == [d EXCEPT !.trace_id = AsString(p.tr), !.priority = IF p.pr = NULL THEN @ ELSE p.pr,
                          !.sampled = IF p.sa = NULL THEN @ ELSE p.sa, !.inbound = b]
<1>5. e = nr_distributed_trace_inbound_set_transport_type(a, v)
  BY DEF nr_distributed_trace_accept_inbound_payload
<1>6. DOMAIN b = InboundFields /\ b.set /\ b.set \in BOOLEAN /\ b.raw_tracing_vendors = d.inbound.raw_tracing_vendors
  BY DEF IsTrace, InboundFields
<1> HIDE DEF b
<1>7. /\ DOMAIN a = TraceFields /\ a.trace_id = p.tr /\ a.priority = p.pr /\ a.sampled = p.sa /\ a.inbound = b
      /\ a.account_id = d.account_id /\ a.app_id = d.app_id /\ a.trusted_key = d.trusted_key /\ a.txn_id = d.txn_id
  BY <1>2 DEF IsTrace, TraceFields, AsString
<1> HIDE DEF a
<1>8. IsTrace(a)
  BY <1>1, <1>6, <1>7 DEF IsTrace
<1>9. /\ IsTrace(e) /\ e.trace_id = p.tr /\ e.sampled = p.sa /\ e.priority = p.pr /\ e.inbound.set
  BY <1>5, <1>6, <1>7, <1>8, TransportType
<1> QED
  BY <1>3, <1>4, <1>9

(* W3C's headers, which a caller of the chain has written and a proxy may  *)
(* have added to.                                                          *)
LEMMA TakeParent ==
  ASSUME NEW d, IsTrace(d), NEW p \in Parents, NEW r, r.vendors \in Seq({VendorEntry}),
         r.entry \in EntryValues \union {NULL}, r.entry # NULL => r.entry.priority # 0, NEW v,
         NEW e, e = nr_distributed_trace_accept_inbound_w3c_payload(d, p, r, v)
  PROVE  /\ nr_distributed_trace_convert_w3c_headers_traceparent(p)
         /\ IsTrace(e) /\ e.trace_id = p.trace_id /\ e.inbound.set
         /\ r.entry # NULL => e.sampled = r.entry.sampled /\ e.priority = r.entry.priority
         /\ r.vendors # <<>> => e.inbound.raw_tracing_vendors = r.vendors
<1>1. /\ p.version = "00" /\ p.additional = FALSE /\ p.trace_id \in Traces /\ p.parent_id \in Spans
      /\ p # NULL /\ p # NUM
  BY ChainAssumption DEF Parents
<1>2. p.trace_id.id # Zero /\ p.parent_id # Zero
  <2>1. p.parent_id # Zero
    BY <1>1, ChainAssumption
  <2>2. p.trace_id.id \in Guids \union {<<"trace">> \o g : g \in Guids}
    BY <1>1 DEF Traces
  <2> QED
    BY <2>1, <2>2, ChainAssumption
<1>3. nr_distributed_trace_convert_w3c_headers_traceparent(p)
  BY <1>1, <1>2 DEF nr_distributed_trace_convert_w3c_headers_traceparent
<1> DEFINE f == IF r.entry = NULL THEN d ELSE nr_distributed_trace_accept_tracestate(d, r.entry)
           names == [i \in DOMAIN r.vendors |-> r.vendors[i].key]
           w == IF r.vendors = <<>> THEN f
                ELSE [f EXCEPT !.inbound.tracing_vendors = names, !.inbound.raw_tracing_vendors = r.vendors]
           x == nr_distributed_trace_inbound_set_transport_type(w, v)
<1>4. e = [x EXCEPT !.inbound.guid = p.parent_id, !.trace_id = p.trace_id, !.inbound.set = TRUE]
  BY DEF nr_distributed_trace_accept_inbound_w3c_payload
<1>5. IsTrace(f) /\ (r.entry # NULL => f.sampled = r.entry.sampled /\ f.priority = r.entry.priority)
  <2>1. CASE r.entry = NULL
    BY <2>1
  <2>2. CASE r.entry # NULL
    <3> DEFINE n == r.entry
               a == nr_distributed_trace_accept_tracestate(d, n)
    <3>1. f = a
      BY <2>2
    <3>2. n \in EntryValues /\ n.sampled \in BOOLEAN /\ n.priority \in Nat \ {0} /\ n.priority # NULL
      BY <2>2, RequestAssumption DEF EntryValues
    <3> HIDE DEF n
    <3>3. /\ DOMAIN a = TraceFields /\ a.sampled = (n.sampled = TRUE)
          /\ \A k \in TraceFields \ {"priority", "sampled", "inbound"} : a[k] = d[k]
      BY DEF nr_distributed_trace_accept_tracestate, IsTrace, TraceFields
    <3>4. a.priority = n.priority
      BY <3>2 DEF nr_distributed_trace_accept_tracestate, IsTrace, TraceFields
    <3>5. /\ DOMAIN a.inbound = InboundFields /\ a.inbound.set = d.inbound.set
          /\ a.inbound.raw_tracing_vendors = d.inbound.raw_tracing_vendors
      BY DEF nr_distributed_trace_accept_tracestate, IsTrace, TraceFields, InboundFields
    <3>6. n.sampled = (n.sampled = TRUE)
      BY <3>2
    <3> HIDE DEF a, f
    <3>7. IsTrace(a) /\ a.sampled = n.sampled
      BY <3>2, <3>3, <3>4, <3>5, <3>6 DEF IsTrace, TraceFields
    <3> QED
      BY <3>1, <3>4, <3>7 DEF n
  <2> QED
    BY <2>1, <2>2
<1> HIDE DEF f, names
<1>6. /\ IsTrace(w) /\ w.sampled = f.sampled /\ w.priority = f.priority
      /\ r.vendors # <<>> => w.inbound.raw_tracing_vendors = r.vendors
  <2>1. CASE r.vendors = <<>>
    BY <1>5, <2>1
  <2>2. CASE r.vendors # <<>>
    <3> DEFINE b == [f.inbound EXCEPT !.tracing_vendors = names, !.raw_tracing_vendors = r.vendors]
               a == [f EXCEPT !.inbound = b]
    <3>1. w = a
      BY <1>5, <2>2 DEF IsTrace, TraceFields
    <3>2. DOMAIN b = InboundFields /\ b.set = f.inbound.set /\ b.raw_tracing_vendors = r.vendors
      BY <1>5 DEF IsTrace, InboundFields
    <3> HIDE DEF b
    <3>3. /\ DOMAIN a = TraceFields /\ a.inbound = b /\ \A k \in TraceFields \ {"inbound"} : a[k] = f[k]
      BY <1>5 DEF IsTrace, TraceFields
    <3> HIDE DEF a, w
    <3> QED
      BY <1>5, <3>1, <3>2, <3>3 DEF IsTrace, TraceFields
  <2> QED
    BY <2>1, <2>2
<1> HIDE DEF w
<1>7. /\ IsTrace(x) /\ x.sampled = f.sampled /\ x.priority = f.priority
      /\ r.vendors # <<>> => x.inbound.raw_tracing_vendors = r.vendors
  BY <1>6, TransportType
<1> HIDE DEF x
<1>8. /\ IsTrace(e) /\ e.trace_id = p.trace_id /\ e.inbound.set /\ e.sampled = x.sampled /\ e.priority = x.priority
      /\ e.inbound.raw_tracing_vendors = x.inbound.raw_tracing_vendors
  <2> DEFINE b == [x.inbound EXCEPT !.guid = p.parent_id, !.set = TRUE]
             a == [x EXCEPT !.inbound = b, !.trace_id = p.trace_id]
  <2>1. e = a
    BY <1>4, <1>7 DEF IsTrace, TraceFields
  <2>2. DOMAIN b = InboundFields /\ b.set /\ b.set \in BOOLEAN /\ b.raw_tracing_vendors = x.inbound.raw_tracing_vendors
    BY <1>7 DEF IsTrace, InboundFields
  <2> HIDE DEF b
  <2>3. /\ DOMAIN a = TraceFields /\ a.inbound = b /\ a.trace_id = p.trace_id
        /\ \A k \in TraceFields \ {"inbound", "trace_id"} : a[k] = x[k]
    BY <1>7 DEF IsTrace, TraceFields
  <2> HIDE DEF a
  <2>4. e.inbound.raw_tracing_vendors = x.inbound.raw_tracing_vendors
    BY <2>1, <2>2, <2>3
  <2>5. /\ IsTrace(e) /\ e.trace_id = p.trace_id /\ e.inbound.set /\ e.sampled = x.sampled
        /\ e.priority = x.priority
    <3>1. IsTrace(x) /\ p.trace_id \in Traces
      BY <1>1, <1>7
    <3>2. DOMAIN a = TraceFields /\ a.inbound = b /\ a.trace_id = p.trace_id
      BY <2>3
    <3>3. /\ a.account_id = x.account_id /\ a.app_id = x.app_id /\ a.trusted_key = x.trusted_key
          /\ a.txn_id = x.txn_id /\ a.priority = x.priority /\ a.sampled = x.sampled
      BY <2>3 DEF TraceFields
    <3>4. b.raw_tracing_vendors \in Seq({VendorEntry})
      BY <2>2, <3>1 DEF IsTrace
    <3> HIDE <2>3
    <3> QED
      BY <2>1, <2>2, <3>1, <3>2, <3>3, <3>4 DEF IsTrace
  <2> QED
    BY <2>4, <2>5
<1> QED
  BY <1>3, <1>5, <1>7, <1>8

Samplers == {"DEFAULT", "ALWAYS_KEEP", "ALWAYS_DROP"}

(* What comes of a try to accept: nothing, or the trace of the call.       *)
Accepts(t, u, c) ==
  \/ u.dt = t.dt /\ u.type = t.type
  \/ /\ t.opts.dt /\ ~t.dt.inbound.set /\ CreateSuccess \intersect t.metrics = {}
     /\ IsTrace(u.dt) /\ Taken(u.dt, c, t.opts) /\ u.type = t.type \union {"DT_INBOUND"}

(* The headers of a call as a function is given them.                      *)
HeadersOf(h, c) ==
  /\ h.newrelic = c.headers.newrelic /\ h.traceparent = c.headers.traceparent
  /\ h.tracestate = c.headers.tracestate

(* A metric is counted: the trace stays.                                   *)
LEMMA CountKeepsTrace ==
  ASSUME NEW t, IsTxn(t), NEW m
  PROVE  /\ IsTxn(nr_txn_force_single_count(t, m)) /\ nr_txn_force_single_count(t, m).dt = t.dt
         /\ nr_txn_force_single_count(t, m).type = t.type
  BY DEF nr_txn_force_single_count, IsTxn, TxnFields

(* The newrelic payload is accepted.                                       *)
LEMMA AcceptPayload ==
  ASSUME NEW t, IsTxn(t), IsTrace(t.dt), NEW c, IsCallOf(c), c.headers.traceparent = NULL, NEW v,
         NEW r, r = nr_txn_accept_new_relic_header(t, DefaultApp, c.headers.newrelic, v), r.ok
  PROVE  IsTxn(r.t) /\ IsTrace(r.t.dt) /\ r.t.type = t.type /\ Taken(r.t.dt, c, t.opts)
<1> DEFINE p == c.headers.newrelic
           e == nr_distributed_trace_accept_inbound_payload(t.dt, p, v)
<1>1. p \in Payloads \union {NULL}
  BY DEF IsCallOf, Carries
<1>2. p # NULL
  <2>1. nr_distributed_trace_convert_payload_to_object(NULL) = "AcceptPayload/Ignored/Null"
    BY DEF nr_distributed_trace_convert_payload_to_object
  <2> QED
    BY <2>1 DEF nr_txn_accept_new_relic_header
<1>3. p \in Payloads /\ p.tr.id = c.trace.id /\ p.pr = c.priority /\ p.sa = c.sampled /\ p.pr # 0
  BY <1>1, <1>2 DEF IsCallOf, Carries
<1>4. /\ nr_distributed_trace_convert_payload_to_object(p) = ""
      /\ nr_txn_is_account_trusted_dt(DefaultApp, nr_distributed_trace_object_get_trusted_key(p))
      /\ IsTrace(e) /\ e.trace_id = p.tr /\ e.sampled = p.sa /\ e.priority = p.pr /\ e.inbound.set
  BY <1>3, TakePayload
<1>5. r.t = [t EXCEPT !.dt = e]
  BY <1>4 DEF nr_txn_accept_new_relic_header
<1> HIDE DEF p, e
<1>6. IsTxn(r.t) /\ r.t.dt = e /\ r.t.type = t.type
  BY <1>5 DEF IsTxn, TxnFields
<1> QED
  BY <1>3, <1>4, <1>6 DEF Taken

(* A sampler of the settings decides otherwise, or not.                    *)
LEMMA SamplerDecides ==
  ASSUME NEW d, IsTrace(d), NEW p, NEW x \in Samplers, NEW y \in Samplers,
         NEW e, e = nr_distributed_trace_handle_inbound_w3c_sampled_flag(d, p, x, y)
  PROVE  /\ IsTrace(e) /\ e.trace_id = d.trace_id /\ e.inbound = d.inbound
         /\ x = "DEFAULT" /\ y = "DEFAULT" => e = d
<1> DEFINE k == IF p.sampled THEN x ELSE y
<1>1. k \in Samplers /\ (x = "DEFAULT" /\ y = "DEFAULT" => k = "DEFAULT")
  OBVIOUS
<1>2. PICK yes \in BOOLEAN, no \in BOOLEAN :
             /\ k = "DEFAULT" => e = d
             /\ k = "ALWAYS_KEEP" => e = [d EXCEPT !.sampled = yes, !.priority = 20]
             /\ k = "ALWAYS_DROP" => e = [d EXCEPT !.sampled = no]
  <2> WITNESS TRUE \in BOOLEAN, FALSE \in BOOLEAN
  <2> QED
    BY DEF nr_distributed_trace_handle_inbound_w3c_sampled_flag
<1> HIDE DEF k
<1>3. ASSUME NEW f, DOMAIN f = TraceFields, \A x1 \in TraceFields \ {"sampled", "priority"} : f[x1] = d[x1],
             f.sampled \in BOOLEAN, f.priority \in Nat \ {0}
      PROVE  IsTrace(f) /\ f.trace_id = d.trace_id /\ f.inbound = d.inbound
  BY <1>3 DEF IsTrace, TraceFields
<1>4. CASE k = "DEFAULT"
  BY <1>2, <1>4
<1>5. CASE k = "ALWAYS_KEEP"
  <2>1. /\ DOMAIN e = TraceFields /\ \A x1 \in TraceFields \ {"sampled", "priority"} : e[x1] = d[x1]
        /\ e.sampled = yes /\ e.priority = 20
    BY <1>2, <1>5 DEF IsTrace, TraceFields
  <2> QED
    BY <1>1, <1>3, <1>5, <2>1
<1>6. CASE k = "ALWAYS_DROP"
  <2>1. /\ DOMAIN e = TraceFields /\ \A x1 \in TraceFields \ {"sampled", "priority"} : e[x1] = d[x1]
        /\ e.sampled = no /\ e.priority = d.priority
    BY <1>2, <1>6 DEF IsTrace, TraceFields
  <2>2. e.priority \in Nat \ {0}
    BY <2>1 DEF IsTrace
  <2> QED
    BY <1>1, <1>3, <1>6, <2>1, <2>2
<1> QED
  BY <1>1, <1>4, <1>5, <1>6 DEF Samplers

(* W3C's headers are accepted.                                             *)
LEMMA AcceptParent ==
  ASSUME NEW t, IsTxn(t), IsTrace(t.dt), t.opts.parent_sampled \in Samplers, t.opts.parent_not_sampled \in Samplers,
         NEW c, IsCallOf(c), NEW v,
         NEW r, r = nr_txn_accept_w3c_trace_context_headers(t, DefaultApp, c.headers.traceparent,
                                                            c.headers.tracestate, v), r.ok
  PROVE  IsTxn(r.t) /\ IsTrace(r.t.dt) /\ r.t.type = t.type /\ Taken(r.t.dt, c, t.opts)
<1> DEFINE p  == c.headers.traceparent
           st == c.headers.tracestate
           s  == nr_distributed_trace_convert_w3c_headers_tracestate(st, DefaultApp.trusted_key)
           n  == IF s.error = "" THEN t ELSE nr_txn_force_single_count(t, s.error)
           d  == nr_distributed_trace_accept_inbound_w3c_payload(t.dt, p, s, v)
           f  == nr_distributed_trace_handle_inbound_w3c_sampled_flag(
                   d, p, t.opts.parent_sampled, t.opts.parent_not_sampled)
           m  == [n EXCEPT !.dt = f]
<1>1. /\ nr_distributed_trace_convert_w3c_headers_traceparent(p)
      /\ r.t = nr_txn_force_single_count(m, "TraceContext/Accept/Success")
  BY DEF nr_txn_accept_w3c_trace_context_headers
<1>2. p \in Parents \union {NULL, NUM} /\ st \in States \union {NULL}
  BY DEF IsCallOf, Carries
<1>3. p \in Parents /\ p.trace_id.id = c.trace.id
  <2>1. p \notin {NULL, NUM}
    BY <1>1 DEF nr_distributed_trace_convert_w3c_headers_traceparent
  <2> QED
    BY <1>2, <2>1 DEF IsCallOf, Carries
<1>4. /\ st # NULL => \A i \in DOMAIN st : st[i].key = "acct" =>
           st[i].val.sampled = c.sampled /\ st[i].val.priority = c.priority
      /\ c.priority \in Nat \ {0}
  BY DEF IsCallOf, Carries
<1>5. s = nr_distributed_trace_convert_w3c_headers_tracestate(st, "acct")
  BY ChainApp
<1> HIDE DEF p, st, s
<1>6. /\ s.vendors \in Seq({VendorEntry}) /\ s.entry \in EntryValues \union {NULL}
      /\ s.entry # NULL => st # NULL /\ \E i \in DOMAIN st : st[i].key = "acct" /\ st[i].val = s.entry
      /\ st # NULL /\ (\E i \in DOMAIN st : st[i].key = "acct") => s.entry # NULL
      /\ st # NULL /\ VendorEntry \in Range(st) => s.vendors # <<>>
  BY <1>2, <1>5, ReadState
<1>7. s.entry # NULL => s.entry.sampled = c.sampled /\ s.entry.priority = c.priority /\ s.entry.priority # 0
  BY <1>4, <1>6
<1>8. /\ IsTrace(d) /\ d.trace_id = p.trace_id /\ d.inbound.set
      /\ s.entry # NULL => d.sampled = s.entry.sampled /\ d.priority = s.entry.priority
      /\ s.vendors # <<>> => d.inbound.raw_tracing_vendors = s.vendors
  BY <1>3, <1>6, <1>7, TakeParent
<1> HIDE DEF d
<1>9. /\ IsTrace(f) /\ f.trace_id = d.trace_id /\ f.inbound = d.inbound
      /\ t.opts.parent_sampled = "DEFAULT" /\ t.opts.parent_not_sampled = "DEFAULT" => f = d
  BY <1>8, SamplerDecides
<1> HIDE DEF f
<1>10. IsTxn(n) /\ n.type = t.type
  BY CountKeepsTrace
<1> HIDE DEF n
<1>11. IsTxn(m) /\ m.dt = f /\ m.type = t.type
  BY <1>10 DEF IsTxn, TxnFields
<1> HIDE DEF m
<1>12. IsTxn(r.t) /\ r.t.dt = f /\ r.t.type = t.type
  BY <1>1, <1>11, CountKeepsTrace
<1>13. Decided(c.headers) => s.entry # NULL
  <2>1. p # NULL
    BY <1>3, ChainAssumption
  <2> QED
    BY <1>6, <2>1 DEF Decided, p, st
<1>14. st # NULL /\ VendorEntry \in Range(st) => f.inbound.raw_tracing_vendors # <<>>
  BY <1>6, <1>8, <1>9
<1> QED
  BY <1>3, <1>7, <1>8, <1>9, <1>12, <1>13, <1>14 DEF Taken, st

(* A try to accept the headers of a call.                                  *)
LEMMA AcceptsTrace ==
  ASSUME NEW t, IsTxn(t), IsTrace(t.dt), t.opts.parent_sampled \in Samplers, t.opts.parent_not_sampled \in Samplers,
         NEW c, IsCallOf(c), NEW h, HeadersOf(h, c), NEW v
  PROVE  /\ Accepts(t, nr_txn_accept_distributed_trace_payload(t, DefaultApp, h, v), c)
         /\ Accepts(t, nr_txn_accept_distributed_trace_payload_httpsafe(t, DefaultApp, h, v), c)
<1> DEFINE a == IF h.traceparent # NULL
                THEN nr_txn_accept_w3c_trace_context_headers(t, DefaultApp, h.traceparent, h.tracestate, v)
                ELSE nr_txn_accept_new_relic_header(t, DefaultApp, h.newrelic, v)
           y == IF v = NULL THEN (IF t.background THEN "Unknown" ELSE "HTTP") ELSE v
           d == nr_distributed_trace_inbound_set_transport_type(a.t.dt, y)
           b == a.t.type \union {"DT_INBOUND"}
           e == [a.t EXCEPT !.dt = d, !.type = b]
           n == nr_txn_force_single_count(e, "AcceptPayload/Success")
           w == nr_txn_create_dt_metrics(n, "TransportDuration")
           u == nr_txn_accept_distributed_trace_payload(t, DefaultApp, h, v)
           Stays(x) == x.dt = t.dt /\ x.type = t.type
<1>1. ASSUME NEW m PROVE Stays(nr_txn_force_single_count(t, m))
  BY CountKeepsTrace
<1>2. Stays(a.t) \/ a.ok
  <2>1. CASE h.traceparent # NULL
    <3> DEFINE g == nr_txn_force_single_count(t, "TraceContext/TraceParent/Parse/Exception")
    <3>1. a = nr_txn_accept_w3c_trace_context_headers(t, DefaultApp, h.traceparent, h.tracestate, v)
      BY <2>1
    <3>2. Stays(g)
      BY <1>1
    <3> HIDE DEF a
    <3>3. a.ok \/ a.t = g
      BY <3>1 DEF nr_txn_accept_w3c_trace_context_headers
    <3> HIDE DEF g
    <3> QED
      BY <3>2, <3>3
  <2>2. CASE h.traceparent = NULL
    <3> DEFINE x == nr_distributed_trace_convert_payload_to_object(h.newrelic)
               g == nr_txn_force_single_count(t, x)
               k == nr_txn_force_single_count(t, "AcceptPayload/Ignored/UntrustedAccount")
    <3>1. a = nr_txn_accept_new_relic_header(t, DefaultApp, h.newrelic, v)
      BY <2>2
    <3>2. Stays(g) /\ Stays(k)
      BY <1>1
    <3> HIDE DEF a
    <3>3. a.ok \/ a.t = g \/ a.t = k
      BY <3>1 DEF nr_txn_accept_new_relic_header
    <3> HIDE DEF g, k
    <3> QED
      BY <3>2, <3>3
  <2> QED
    BY <2>1, <2>2
<1>3. a.ok => IsTxn(a.t) /\ IsTrace(a.t.dt) /\ a.t.type = t.type /\ Taken(a.t.dt, c, t.opts)
  <2>1. CASE h.traceparent # NULL
    <3>1. a = nr_txn_accept_w3c_trace_context_headers(t, DefaultApp, c.headers.traceparent, c.headers.tracestate, v)
      BY <2>1 DEF HeadersOf
    <3> HIDE DEF a
    <3> QED
      BY <3>1, AcceptParent
  <2>2. CASE h.traceparent = NULL
    <3>1. a = nr_txn_accept_new_relic_header(t, DefaultApp, c.headers.newrelic, v) /\ c.headers.traceparent = NULL
      BY <2>2 DEF HeadersOf
    <3> HIDE DEF a
    <3> QED
      BY <3>1, AcceptPayload
  <2> QED
    BY <2>1, <2>2
<1>4. \/ \E m : u = nr_txn_force_single_count(t, m)
      \/ u = a.t /\ ~a.ok
      \/ u = w /\ a.ok /\ t.opts.dt /\ ~t.dt.inbound.set /\ CreateSuccess \intersect t.metrics = {}
  BY DEF nr_txn_accept_distributed_trace_payload
<1> HIDE DEF a, y, u
<1>5. a.ok => IsTxn(w) /\ IsTrace(w.dt) /\ w.type = t.type \union {"DT_INBOUND"} /\ Taken(w.dt, c, t.opts)
  <2> SUFFICES ASSUME a.ok
               PROVE  IsTxn(w) /\ IsTrace(w.dt) /\ w.type = t.type \union {"DT_INBOUND"} /\ Taken(w.dt, c, t.opts)
    OBVIOUS
  <2>1. /\ IsTrace(d) /\ d.trace_id = a.t.dt.trace_id /\ d.sampled = a.t.dt.sampled /\ d.priority = a.t.dt.priority
        /\ d.inbound.set = a.t.dt.inbound.set
        /\ d.inbound.raw_tracing_vendors = a.t.dt.inbound.raw_tracing_vendors
    BY <1>3, TransportType
  <2>2. Taken(d, c, t.opts)
    BY <1>3, <2>1 DEF Taken
  <2> HIDE DEF d
  <2>3. IsTxn(e) /\ e.dt = d /\ e.type = t.type \union {"DT_INBOUND"}
    BY <1>3 DEF IsTxn, TxnFields
  <2> HIDE DEF e
  <2>4. IsTxn(n) /\ n.dt = d /\ n.type = t.type \union {"DT_INBOUND"}
    BY <2>3, CountKeepsTrace
  <2> HIDE DEF n
  <2>5. IsTxn(w) /\ w.dt = n.dt /\ w.type = n.type
    <3> DEFINE K == {"dt", "type"}
    <3>1. K \in SUBSET (TxnFields \ {"metrics"})
      BY DEF TxnFields
    <3>2. Frame(K, n, w)
      BY <2>4, <3>1, FrameDtMetrics
    <3> QED
      BY <3>2 DEF Frame
  <2> QED
    BY <2>1, <2>2, <2>4, <2>5
<1> HIDE DEF w
<1>6. Accepts(t, u, c)
  BY <1>1, <1>2, <1>4, <1>5 DEF Accepts
<1>7. Accepts(t, nr_txn_accept_distributed_trace_payload_httpsafe(t, DefaultApp, h, v), c)
  <2>1. nr_txn_accept_distributed_trace_payload_httpsafe(t, DefaultApp, h, v)
          \in {t, nr_txn_force_single_count(t, "AcceptPayload/ParseException"), u}
    BY DEF nr_txn_accept_distributed_trace_payload_httpsafe, u
  <2>2. Stays(t) /\ Stays(nr_txn_force_single_count(t, "AcceptPayload/ParseException"))
    BY <1>1
  <2> QED
    BY <1>6, <2>1, <2>2 DEF Accepts
<1> QED
  BY <1>6, <1>7 DEF u

HeaderFields == {"newrelic", "traceparent", "tracestate", "x_id", "x_txn", "x_synthetics"}

(* An entry of the tracestate that tells what the trace d is.              *)
EntryOf(x, d) ==
  x \in [key : {"acct"}, val : EntryValues] /\ x.val.sampled = d.sampled /\ x.val.priority = d.priority

(* What the three headers tell is what the trace d is.                     *)
TellsTrace(h, d) ==
  /\ DOMAIN h = HeaderFields
  /\ h.newrelic \in Payloads \union {NULL} /\ h.traceparent \in Parents \union {NULL}
  /\ h.tracestate \in States \union {NULL}
  /\ h.newrelic # NULL => h.newrelic.tr = d.trace_id /\ h.newrelic.pr = d.priority /\ h.newrelic.sa = d.sampled
  /\ h.traceparent # NULL => h.traceparent.trace_id.id = d.trace_id.id
  /\ h.tracestate # NULL => \A i \in DOMAIN h.tracestate : h.tracestate[i].key = "acct" => EntryOf(h.tracestate[i], d)

(* A call leaves the transaction as it was, but for what has been told.    *)
Told(t, u) ==
  /\ IsTxn(u) /\ u.opts = t.opts /\ u.recording = t.recording /\ u.dt = t.dt
  /\ "DT_INBOUND" \in u.type <=> "DT_INBOUND" \in t.type
  /\ CreateSuccess \intersect t.metrics \subseteq CreateSuccess \intersect u.metrics

(* A metric is counted, and that is all.                                   *)
LEMMA CountFacts ==
  ASSUME NEW t, IsTxn(t), NEW m, NEW u, u = nr_txn_force_single_count(t, m)
  PROVE  Told(t, u) /\ (\A f \in TxnFields \ {"metrics"} : u[f] = t[f]) /\ u.metrics = t.metrics \union {<<m>>}
<1>1. /\ DOMAIN u = TxnFields /\ (\A f \in TxnFields \ {"metrics"} : u[f] = t[f])
      /\ u.metrics = t.metrics \union {<<m>>}
  BY DEF nr_txn_force_single_count, IsTxn, TxnFields
<1>2. u.opts = t.opts /\ u.recording = t.recording /\ u.dt = t.dt /\ u.type = t.type
  BY <1>1 DEF TxnFields
<1> QED
  BY <1>1, <1>2 DEF Told, IsTxn

(* The payload of a call.                                                  *)
LEMMA CreatesPayload ==
  ASSUME NEW t, IsTxn(t), IsTrace(t.dt), NEW seg \in Spans, NEW now \in Nat,
         NEW r, r = nr_txn_create_distributed_trace_payload(t, seg, now)
  PROVE  /\ Told(t, r.t) /\ \A f \in TxnFields \ {"metrics"} : r.t[f] = t[f]
         /\ r.header \in Payloads \union {NULL}
         /\ r.header # NULL => /\ r.header.tr = t.dt.trace_id /\ r.header.pr = t.dt.priority
                               /\ r.header.sa = t.dt.sampled /\ CreateSuccess \intersect r.t.metrics # {}
<1> DEFINE id == nr_segment_ensure_id(t, seg)
           p == [v |-> 0, ty |-> "App", ac |-> t.dt.account_id, ap |-> t.dt.app_id, id |-> id, tr |-> t.dt.trace_id,
                 tx |-> t.dt.txn_id, pr |-> t.dt.priority, sa |-> t.dt.sampled, ti |-> now,
                 tk |-> IF t.dt.trusted_key # t.dt.account_id THEN t.dt.trusted_key ELSE NULL]
           m == IF r.header = NULL THEN "CreatePayload/Exception" ELSE "CreatePayload/Success"
<1>1. r.header \in {NULL, p} /\ r.t = nr_txn_force_single_count(t, m)
  BY DEF nr_txn_create_distributed_trace_payload, nr_distributed_trace_payload_as_text, SupportedMajorVersion
<1>2. id \in Spans \union {NULL}
  BY DEF nr_segment_ensure_id
<1> HIDE DEF id
<1>3. p \in Payloads /\ p.tr = t.dt.trace_id /\ p.pr = t.dt.priority /\ p.sa = t.dt.sampled
  BY <1>2 DEF Payloads, IsTrace
<1> HIDE DEF p
<1>4. r.header # NULL => <<"CreatePayload/Success">> \in r.t.metrics
  BY <1>1, CountFacts
<1>5. Told(t, r.t) /\ \A f \in TxnFields \ {"metrics"} : r.t[f] = t[f]
  BY <1>1, CountFacts
<1>6. r.header # NULL => CreateSuccess \intersect r.t.metrics # {}
  BY <1>4 DEF CreateSuccess
<1> QED
  BY <1>1, <1>3, <1>5, <1>6

(* The traceparent of a call, which always is one.                         *)
LEMMA CreatesParent ==
  ASSUME NEW t, IsTxn(t), IsTrace(t.dt), NEW seg \in Spans, NEW fresh \in Spans,
         NEW r, r = nr_txn_create_w3c_traceparent_header(t, seg, fresh)
  PROVE  /\ Told(t, r.t) /\ \A f \in TxnFields \ {"metrics"} : r.t[f] = t[f]
         /\ r.header \in Parents /\ r.header.trace_id.id = t.dt.trace_id.id
         /\ CreateSuccess \intersect r.t.metrics # {}
<1> DEFINE id == nr_segment_ensure_id(t, seg)
           k == IF id = NULL THEN fresh ELSE id
           p == [version |-> "00", additional |-> FALSE, trace_id |-> Pad(t.dt.trace_id), parent_id |-> k,
                 sampled |-> t.dt.sampled]
<1>1. k \in Spans /\ k # NULL /\ t.dt.trace_id \in Traces /\ t.dt.trace_id # NULL
  BY ChainAssumption DEF nr_segment_ensure_id, IsTrace
<1>2. r.header = p
  BY <1>1 DEF nr_txn_create_w3c_traceparent_header, nr_distributed_trace_create_w3c_traceparent_header
<1> HIDE DEF k, id
<1>3. Pad(t.dt.trace_id) \in Traces /\ Pad(t.dt.trace_id).id = t.dt.trace_id.id
  BY <1>1 DEF Pad, Traces
<1>4. p \in Parents /\ p.trace_id.id = t.dt.trace_id.id
  BY <1>1, <1>3 DEF Parents, IsTrace
<1> HIDE DEF p
<1>5. r.header # NULL
  BY <1>2, <1>4, ChainAssumption
<1>6. r.t = nr_txn_force_single_count(t, "TraceContext/Create/Success")
  BY <1>5 DEF nr_txn_create_w3c_traceparent_header
<1>7. /\ Told(t, r.t) /\ \A f \in TxnFields \ {"metrics"} : r.t[f] = t[f]
      /\ <<"TraceContext/Create/Success">> \in r.t.metrics
  BY <1>6, CountFacts
<1>8. CreateSuccess \intersect r.t.metrics # {}
  BY <1>7 DEF CreateSuccess
<1> QED
  BY <1>2, <1>4, <1>7, <1>8

(* Our own entry of the tracestate, which always is one.                   *)
LEMMA CreatesState ==
  ASSUME NEW t, IsTrace(t.dt), NEW seg \in Spans, NEW now \in Nat,
         NEW x, x = nr_txn_create_w3c_tracestate_header(t, seg, now)
  PROVE  x # NULL /\ EntryOf(x, t.dt)
<1> DEFINE id == IF t.opts.span_events THEN nr_segment_ensure_id(t, seg) ELSE NULL
           tx == IF t.opts.analytics_events THEN t.dt.txn_id ELSE NULL
           v == [parent_type |-> 0, account_id |-> t.dt.account_id, app_id |-> t.dt.app_id, span_id |-> id,
                 txn_id |-> tx, sampled |-> t.dt.sampled, priority |-> t.dt.priority, timestamp |-> now]
<1>1. x = [key |-> t.dt.trusted_key, val |-> v]
  BY ChainAssumption DEF nr_txn_create_w3c_tracestate_header, nr_distributed_trace_create_w3c_tracestate_header, IsTrace
<1>2. id \in Spans \union {NULL} /\ tx \in Guids \union {NULL}
  BY DEF nr_segment_ensure_id, IsTrace
<1> HIDE DEF id, tx
<1>3. v \in EntryValues /\ v.sampled = t.dt.sampled /\ v.priority = t.dt.priority
  BY <1>2 DEF EntryValues, IsTrace
<1> HIDE DEF v
<1>4. EntryOf(x, t.dt)
  BY <1>1, <1>3 DEF EntryOf, IsTrace
<1>5. x # NULL
  BY <1>4, ChainAssumption DEF EntryOf, Entries
<1> QED
  BY <1>4, <1>5

(* One call after another.                                                 *)
LEMMA ToldThen ==
  ASSUME NEW t, NEW u, NEW v, Told(t, u), Told(u, v) PROVE Told(t, v)
  BY DEF Told

(* A call that tells the trace leaves the mark that it has been told.      *)
CallTells(t, r) ==
  /\ Told(t, r.t) /\ TellsTrace(r.headers, t.dt)
  /\ r.headers.newrelic # NULL \/ r.headers.traceparent # NULL => CreateSuccess \intersect r.t.metrics # {}

(* An instrumented call forwards the other vendors.                        *)
CallForwards(t, r) ==
  t.opts.dt => /\ CreateSuccess \intersect r.t.metrics # {}
               /\ t.dt.inbound.raw_tracing_vendors # <<>> => VendorEntry \in Range(r.headers.tracestate)

(* A tracestate of our own entry and those of other vendors.               *)
LEMMA StateOf ==
  ASSUME NEW d, NEW x, EntryOf(x, d), NEW raw \in Seq({VendorEntry}), NEW st, st = <<x>> \o raw
  PROVE  /\ st \in States
         /\ \A i \in DOMAIN st : st[i].key = "acct" => EntryOf(st[i], d)
         /\ raw # <<>> => VendorEntry \in Range(st)
<1>1. x \in Entries /\ VendorEntry \in Entries /\ VendorEntry.key # "acct"
  BY DEF EntryOf, Entries, VendorEntry
<1>2. raw \in Seq(Entries) /\ \A i \in 1..Len(raw) : raw[i] = VendorEntry
  <2>1. \A i \in 1..Len(raw) : raw[i] = VendorEntry
    OBVIOUS
  <2> QED
    BY <1>1, <2>1
<1>3. <<x>> \in Seq(Entries)
  BY <1>1
<1>4. st \in Seq(Entries)
  BY <1>2, <1>3
<1>5. Len(st) = 1 + Len(raw) /\ st[1] = x /\ \A i \in 2..Len(st) : st[i] = raw[i - 1]
  BY <1>2, <1>3
<1>6. \A i \in 1..Len(st) : i = 1 \/ (i - 1 \in 1..Len(raw) /\ i \in 2..Len(st))
  BY <1>2, <1>5
<1>7. \A i \in 1..Len(st) : st[i] = x \/ st[i] = VendorEntry
  BY <1>2, <1>5, <1>6
<1>8. ASSUME raw # <<>> PROVE VendorEntry \in Range(st)
  <2>1. 1 \in 1..Len(raw) /\ 2 \in 1..Len(st)
    BY <1>2, <1>5, <1>8
  <2>2. st[2] = VendorEntry
    BY <1>2, <1>5, <2>1
  <2>3. DOMAIN st = 1..Len(st)
    BY <1>4
  <2> QED
    BY <2>1, <2>2, <2>3 DEF Range
<1>9. \A i \in DOMAIN st : st[i].key = "acct" => EntryOf(st[i], d)
  <2>1. DOMAIN st = 1..Len(st)
    BY <1>4
  <2> QED
    BY <1>1, <1>7, <2>1
<1> QED
  BY <1>4, <1>8, <1>9 DEF States

(* The headers of no trace tell nothing wrong.                             *)
LEMMA SilentHeaders ==
  ASSUME NEW d, NEW h, DOMAIN h = HeaderFields, h.newrelic = NULL, h.traceparent = NULL, h.tracestate = NULL
  PROVE  TellsTrace(h, d)
  BY DEF TellsTrace

(* An instrumented call.                                                   *)
LEMMA AutoCall ==
  ASSUME NEW t, IsTxn(t), IsTrace(t.dt), NEW seg \in Spans, NEW fresh \in Spans, NEW now \in Nat,
         NEW r, r = newrelic_get_request_metadata(t, DefaultApp, seg, fresh, now)
  PROVE  CallTells(t, r) /\ CallForwards(t, r)
<1> DEFINE pl == IF t.opts.exclude_newrelic THEN [t |-> t, header |-> NULL]
                 ELSE nr_txn_create_distributed_trace_payload(t, seg, now)
           pa == nr_txn_create_w3c_traceparent_header(pl.t, seg, fresh)
           cat == nr_header_outbound_request_decoded(t, DefaultApp)
           syn == nr_header_outbound_request_synthetics_encoded(t, DefaultApp)
           base == [NoHeaders EXCEPT !.x_synthetics = syn]
           st == OutboundTracestate(t, seg, now)
           e1 == nr_header_encode(DefaultApp, cat.id)
           e2 == nr_header_encode(DefaultApp, cat.txn)
           h1 == [base EXCEPT !.newrelic = pl.header, !.traceparent = pa.header, !.tracestate = st]
           h2 == [base EXCEPT !.x_id = e1, !.x_txn = e2]
           b == pa.t.type \union {"DT_OUTBOUND"}
           u1 == [pa.t EXCEPT !.type = b]
<1>1. seg # NULL
  BY ChainAssumption
<1>2. /\ t.opts.dt => r.t = u1 /\ r.headers = h1
      /\ ~t.opts.dt => (r.t = cat.t /\ r.headers = h2) \/ (r.t = t /\ r.headers = base)
  BY <1>1 DEF newrelic_get_request_metadata, nr_header_outbound_request_create
<1>3. /\ Told(t, pl.t) /\ \A f \in TxnFields \ {"metrics"} : pl.t[f] = t[f]
      /\ pl.header \in Payloads \union {NULL}
      /\ pl.header # NULL => pl.header.tr = t.dt.trace_id /\ pl.header.pr = t.dt.priority /\ pl.header.sa = t.dt.sampled
  <2>1. Told(t, t)
    BY DEF Told
  <2> DEFINE c == nr_txn_create_distributed_trace_payload(t, seg, now)
  <2>2. pl = c \/ (pl.t = t /\ pl.header = NULL)
    OBVIOUS
  <2>3. /\ Told(t, c.t) /\ \A f \in TxnFields \ {"metrics"} : c.t[f] = t[f]
        /\ c.header \in Payloads \union {NULL}
        /\ c.header # NULL => c.header.tr = t.dt.trace_id /\ c.header.pr = t.dt.priority /\ c.header.sa = t.dt.sampled
    BY CreatesPayload
  <2> HIDE DEF c, pl
  <2> QED
    BY <2>1, <2>2, <2>3
<1>4. OutboundTracestate(t, seg, now) = <<nr_txn_create_w3c_tracestate_header(t, seg, now)>> \o t.dt.inbound.raw_tracing_vendors
  BY CreatesState DEF OutboundTracestate
<1>5. /\ st \in States /\ st # NULL /\ \A i \in DOMAIN st : st[i].key = "acct" => EntryOf(st[i], t.dt)
      /\ t.dt.inbound.raw_tracing_vendors # <<>> => VendorEntry \in Range(st)
  <2> DEFINE x == nr_txn_create_w3c_tracestate_header(t, seg, now)
  <2>1. EntryOf(x, t.dt)
    BY CreatesState
  <2> HIDE DEF x
  <2>2. t.dt.inbound.raw_tracing_vendors \in Seq({VendorEntry}) /\ st = <<x>> \o t.dt.inbound.raw_tracing_vendors
    BY <1>4 DEF IsTrace, x
  <2> HIDE DEF st
  <2> QED
    BY <2>1, <2>2, StateOf, ChainAssumption
<1> HIDE DEF pl, st, syn, e1, e2
<1>6. IsTxn(pl.t) /\ IsTrace(pl.t.dt) /\ pl.t.dt = t.dt
  BY <1>3 DEF Told
<1>7. /\ Told(pl.t, pa.t) /\ pa.header \in Parents /\ pa.header.trace_id.id = t.dt.trace_id.id
      /\ CreateSuccess \intersect pa.t.metrics # {} /\ pa.header # NULL
  BY <1>6, CreatesParent, ChainAssumption
<1> HIDE DEF pa
<1>8. Told(t, pa.t) /\ IsTxn(pa.t)
  BY <1>3, <1>7, ToldThen DEF Told
<1>9. Told(t, u1) /\ u1.metrics = pa.t.metrics
  <2>1. IsTxn(u1) /\ u1.type = b /\ \A f \in TxnFields \ {"type"} : u1[f] = pa.t[f]
    BY <1>8 DEF IsTxn, TxnFields
  <2>2. "DT_INBOUND" \in b <=> "DT_INBOUND" \in pa.t.type
    OBVIOUS
  <2> HIDE DEF u1, b
  <2>3. /\ u1.opts = pa.t.opts /\ u1.recording = pa.t.recording /\ u1.dt = pa.t.dt /\ u1.metrics = pa.t.metrics
    BY <2>1 DEF TxnFields
  <2> QED
    BY <1>8, <2>1, <2>2, <2>3 DEF Told
<1> HIDE DEF u1, b
<1>10. /\ DOMAIN base = HeaderFields /\ base.newrelic = NULL /\ base.traceparent = NULL /\ base.tracestate = NULL
  BY DEF NoHeaders, HeaderFields
<1> HIDE DEF base
<1>11. /\ DOMAIN h1 = HeaderFields /\ h1.newrelic = pl.header /\ h1.traceparent = pa.header /\ h1.tracestate = st
       /\ DOMAIN h2 = HeaderFields /\ h2.newrelic = NULL /\ h2.traceparent = NULL /\ h2.tracestate = NULL
  BY <1>10 DEF HeaderFields
<1> HIDE DEF h1, h2
<1>12. TellsTrace(h1, t.dt) /\ TellsTrace(h2, t.dt) /\ TellsTrace(base, t.dt)
  <2>1. TellsTrace(h1, t.dt)
    BY <1>3, <1>5, <1>7, <1>11 DEF TellsTrace
  <2> QED
    BY <1>10, <1>11, <2>1, SilentHeaders
<1>13. Told(t, cat.t)
  <2> DEFINE g == nr_txn_get_path_hash(t)
             y == g.type \union {"CAT_OUTBOUND"}
             z == [g EXCEPT !.type = y]
  <2>1. cat.t \in {t, z}
    BY DEF nr_header_outbound_request_decoded
  <2>2. Told(t, t)
    BY DEF Told
  <2>3. /\ IsTxn(g) /\ g.opts = t.opts /\ g.recording = t.recording /\ g.dt = t.dt /\ g.type = t.type
        /\ g.metrics = t.metrics
    BY DEF nr_txn_get_path_hash, nr_txn_add_alternate_path_hash, IsTxn, TxnFields
  <2> HIDE DEF g
  <2>4. "DT_INBOUND" \in y <=> "DT_INBOUND" \in t.type
    BY <2>3
  <2> HIDE DEF y, cat
  <2>5. /\ IsTxn(z) /\ z.type = y /\ z.opts = t.opts /\ z.recording = t.recording /\ z.dt = t.dt
        /\ z.metrics = t.metrics
    BY <2>3 DEF IsTxn, TxnFields
  <2>6. Told(t, z)
    BY <2>4, <2>5 DEF Told
  <2> HIDE DEF z
  <2> QED
    BY <2>1, <2>2, <2>6
<1> HIDE DEF cat
<1>14. Told(t, t)
  BY DEF Told
<1>15. CASE t.opts.dt
  BY <1>2, <1>5, <1>7, <1>9, <1>11, <1>12, <1>15 DEF CallTells, CallForwards
<1>16. CASE ~t.opts.dt
  BY <1>2, <1>10, <1>11, <1>12, <1>13, <1>14, <1>16 DEF CallTells, CallForwards
<1> QED
  BY <1>15, <1>16

(* newrelic_insert_distributed_trace_headers: a call by hand.              *)
LEMMA HandCall ==
  ASSUME NEW t, IsTxn(t), IsTrace(t.dt), t.recording, NEW seg \in Spans, NEW fresh \in Spans, NEW now \in Nat,
         NEW r, r = newrelic_insert_distributed_trace_headers(t, seg, fresh, now)
  PROVE  CallTells(t, r)
<1> DEFINE pl == nr_txn_create_distributed_trace_payload(t, seg, now)
           pa == nr_txn_create_w3c_traceparent_header(pl.t, seg, fresh)
           x  == nr_txn_create_w3c_tracestate_header(t, seg, now)
           h  == [NoHeaders EXCEPT !.newrelic = pl.header, !.traceparent = pa.header, !.tracestate = <<x>>]
<1>1. x # NULL /\ EntryOf(x, t.dt)
  BY CreatesState
<1>2. r.t = pa.t /\ r.headers = h
  BY <1>1 DEF newrelic_insert_distributed_trace_headers
<1>3. /\ Told(t, pl.t) /\ pl.header \in Payloads \union {NULL}
      /\ pl.header # NULL => pl.header.tr = t.dt.trace_id /\ pl.header.pr = t.dt.priority /\ pl.header.sa = t.dt.sampled
  BY CreatesPayload
<1> HIDE DEF pl, x
<1>4. IsTxn(pl.t) /\ IsTrace(pl.t.dt) /\ pl.t.dt = t.dt
  BY <1>3 DEF Told
<1>5. /\ Told(pl.t, pa.t) /\ pa.header \in Parents /\ pa.header.trace_id.id = t.dt.trace_id.id
      /\ CreateSuccess \intersect pa.t.metrics # {}
  BY <1>4, CreatesParent
<1> HIDE DEF pa
<1>6. Told(t, pa.t)
  BY <1>3, <1>5, ToldThen
<1>7. <<x>> \in States /\ \A i \in DOMAIN <<x>> : <<x>>[i] = x
  <2>1. x \in Entries
    BY <1>1 DEF EntryOf, Entries
  <2> QED
    BY <2>1 DEF States
<1> DEFINE st == <<x>>
<1> HIDE DEF st
<1>8. DOMAIN h = HeaderFields /\ h.newrelic = pl.header /\ h.traceparent = pa.header /\ h.tracestate = st
  BY DEF NoHeaders, HeaderFields, st
<1> HIDE DEF h
<1>9. st \in States /\ \A i \in DOMAIN st : EntryOf(st[i], t.dt)
  BY <1>1, <1>7 DEF st
<1>10. TellsTrace(h, t.dt)
  BY <1>3, <1>5, <1>8, <1>9 DEF TellsTrace
<1> QED
  BY <1>2, <1>5, <1>6, <1>10 DEF CallTells

(* newrelic_create_distributed_trace_payload: the payload by hand.         *)
LEMMA PayloadCall ==
  ASSUME NEW t, IsTxn(t), IsTrace(t.dt), t.recording, NEW seg \in Spans, NEW now \in Nat,
         NEW r, r = newrelic_create_distributed_trace_payload(t, seg, now)
  PROVE  CallTells(t, r)
<1> DEFINE pl == nr_txn_create_distributed_trace_payload(t, seg, now)
           h  == [NoHeaders EXCEPT !.newrelic = pl.header]
<1>1. r.t = pl.t /\ r.headers = h
  BY DEF newrelic_create_distributed_trace_payload
<1>2. /\ Told(t, pl.t) /\ pl.header \in Payloads \union {NULL}
      /\ pl.header # NULL => /\ pl.header.tr = t.dt.trace_id /\ pl.header.pr = t.dt.priority
                             /\ pl.header.sa = t.dt.sampled /\ CreateSuccess \intersect pl.t.metrics # {}
  BY CreatesPayload
<1> HIDE DEF pl
<1>3. DOMAIN h = HeaderFields /\ h.newrelic = pl.header /\ h.traceparent = NULL /\ h.tracestate = NULL
  BY DEF NoHeaders, HeaderFields
<1> HIDE DEF h
<1>4. TellsTrace(h, t.dt)
  BY <1>2, <1>3 DEF TellsTrace
<1> QED
  BY <1>1, <1>2, <1>3, <1>4 DEF CallTells

(* On their way headers get lost, damaged, or an entry more.               *)
LEMMA WayCarries ==
  ASSUME NEW d, IsTrace(d), NEW h, TellsTrace(h, d), NEW g \in OnTheWay(h),
         NEW c, c.trace = d.trace_id, c.sampled = d.sampled, c.priority = d.priority
  PROVE  Carries(g, c)
<1> DEFINE w == IF h.tracestate = NULL THEN <<VendorEntry>> ELSE <<VendorEntry>> \o h.tracestate
           Fine(st) == /\ st \in States \union {NULL}
                       /\ st # NULL => \A i \in DOMAIN st : st[i].key = "acct" =>
                             st[i].val.sampled = c.sampled /\ st[i].val.priority = c.priority
<1>1. /\ DOMAIN h = HeaderFields /\ Fine(h.tracestate)
      /\ \/ g = h
         \/ g = [h EXCEPT !.newrelic = NULL]
         \/ g = [h EXCEPT !.traceparent = NULL, !.tracestate = NULL]
         \/ g = [h EXCEPT !.tracestate = w]
         \/ g = [h EXCEPT !.traceparent = NUM]
  BY DEF OnTheWay, TellsTrace, EntryOf, HeaderFields
<1>2. Fine(w)
  <2>1. CASE h.tracestate = NULL
    <3>1. VendorEntry \in Entries /\ VendorEntry.key # "acct"
      BY DEF Entries, VendorEntry
    <3>2. w = <<VendorEntry>> /\ <<VendorEntry>> \in Seq(Entries)
      BY <2>1, <3>1
    <3>3. DOMAIN w = {1} /\ w[1] = VendorEntry
      BY <3>2
    <3>4. w \in Seq(Entries) /\ \A i \in DOMAIN w : w[i].key # "acct"
      BY <3>1, <3>2, <3>3
    <3> HIDE DEF w
    <3> QED
      BY <3>4 DEF States
  <2>2. CASE h.tracestate # NULL
    <3> DEFINE st == h.tracestate
    <3>1. VendorEntry \in Entries /\ VendorEntry.key # "acct"
      BY DEF Entries, VendorEntry
    <3>2. w = <<VendorEntry>> \o st /\ st \in Seq(Entries) /\ <<VendorEntry>> \in Seq(Entries)
      BY <1>1, <2>2, <3>1 DEF States
    <3>3. w \in Seq(Entries) /\ Len(w) = 1 + Len(st) /\ w[1] = VendorEntry /\ \A i \in 2..Len(w) : w[i] = st[i - 1]
      BY <3>2
    <3>4. \A i \in DOMAIN w : i = 1 \/ (i \in 2..Len(w) /\ i - 1 \in DOMAIN st)
      BY <3>2, <3>3
    <3>5. st # NULL /\ Fine(st)
      BY <1>1, <2>2
    <3> HIDE DEF w, st
    <3> QED
      BY <3>1, <3>3, <3>4, <3>5 DEF States
  <2> QED
    BY <2>1, <2>2
<1>3. /\ Fine(NULL) /\ h.newrelic \in Payloads \union {NULL} /\ h.traceparent \in Parents \union {NULL}
      /\ h.newrelic # NULL => /\ h.newrelic.tr.id = c.trace.id /\ h.newrelic.pr = c.priority
                              /\ h.newrelic.sa = c.sampled
      /\ h.traceparent # NULL => h.traceparent.trace_id.id = c.trace.id
  BY DEF TellsTrace
<1>4. NUM \notin Parents /\ NULL \notin Parents
  BY ChainAssumption
<1> HIDE DEF w
<1>5. /\ g.newrelic \in {h.newrelic, NULL} /\ g.traceparent \in {h.traceparent, NULL, NUM}
      /\ g.tracestate \in {h.tracestate, NULL, w}
  BY <1>1 DEF HeaderFields
<1>6. Fine(g.tracestate)
  BY <1>1, <1>2, <1>3, <1>5
<1> QED
  BY <1>3, <1>4, <1>5, <1>6 DEF Carries

(* Settings about a caller's decision reach the transaction.               *)
LEMMA SamplerOptions ==
  ASSUME NEW app, NEW ini, NEW o, o = BeginOptions(app, TxnOptions(ini))
  PROVE  o.parent_sampled = ini.parent_sampled /\ o.parent_not_sampled = ini.parent_not_sampled
<1> DEFINE opts == TxnOptions(ini)
           limited == [opts EXCEPT
              !.analytics_events = @ /\ app.limits.analytics_events > 0,
              !.custom_events = @ /\ app.limits.custom_events > 0,
              !.error_events = @ /\ app.limits.error_events > 0,
              !.span_events = @ /\ app.limits.span_events > 0,
              !.apdex_t = app.apdex_t,
              !.tt_threshold = IF opts.tt_is_apdex_f THEN 4 * app.apdex_t ELSE @]
           secured == nr_txn_enforce_security_settings(limited, app.reply, app.policies)
<1>1. /\ DOMAIN opts = OptionNames /\ opts.parent_sampled = ini.parent_sampled
      /\ opts.parent_not_sampled = ini.parent_not_sampled
  BY DEF TxnOptions, OptionNames
<1>2. o = [secured EXCEPT !.request_params = @ /\ ~app.lasp]
  BY DEF BeginOptions
<1> HIDE DEF opts
<1>3. /\ DOMAIN limited = OptionNames /\ limited.parent_sampled = opts.parent_sampled
      /\ limited.parent_not_sampled = opts.parent_not_sampled
  BY <1>1 DEF OptionNames
<1> HIDE DEF limited
<1>4. /\ DOMAIN secured = OptionNames /\ secured.parent_sampled = limited.parent_sampled
      /\ secured.parent_not_sampled = limited.parent_not_sampled
  BY <1>3 DEF nr_txn_enforce_security_settings, OptionNames
<1> HIDE DEF secured
<1> QED
  BY <1>1, <1>2, <1>3, <1>4 DEF OptionNames

(* A new trace.                                                            *)
LEMMA TraceBegins ==
  ASSUME NEW opts, NEW s \in Services, NEW prio \in Nat \ {0}, NEW sampled \in BOOLEAN,
         NEW d, d = BeginTrace(DefaultApp, opts, Guid(s), prio, sampled)
  PROVE  IsTrace(d) /\ ~d.inbound.set /\ d.inbound.raw_tracing_vendors = <<>>
<1> DEFINE ids == nr_distributed_trace_set_ids(nr_distributed_trace_create, Guid(s), "acct", "acct", "app")
           a == [id |-> <<"trace">> \o Guid(s), len |-> 32]
           b == [id |-> Guid(s), len |-> 16]
           k == [b EXCEPT !.len = 32]
           p == IF sampled THEN prio + 10 ELSE prio
<1>1. Guid(s) \in Guids
  BY DEF Guids
<1>2. a \in Traces /\ b \in Traces /\ k \in Traces
  BY <1>1 DEF Traces
<1>3. /\ DOMAIN ids = TraceFields /\ ids.account_id = "acct" /\ ids.app_id = "app" /\ ids.trusted_key = "acct"
      /\ ids.txn_id = Guid(s) /\ ids.inbound = NoInbound
  BY DEF nr_distributed_trace_set_ids, nr_distributed_trace_create, TraceFields
<1>4. \E x \in {a, b, k} : d = [[ids EXCEPT !.trace_id = x] EXCEPT !.sampled = sampled, !.priority = p]
  <2>1. a # NULL /\ b # NULL
    BY <1>2, ChainAssumption
  <2> QED
    BY <2>1, ChainApp DEF BeginTrace, nr_distributed_trace_set_trace_id, Pad
<1>5. PICK x \in {a, b, k} : d = [[ids EXCEPT !.trace_id = x] EXCEPT !.sampled = sampled, !.priority = p]
  BY <1>4
<1>6. x \in Traces
  BY <1>2, <1>5
<1>7. p \in Nat \ {0}
  OBVIOUS
<1> HIDE DEF ids, a, b, k, p
<1>8. /\ DOMAIN d = TraceFields /\ d.trace_id = x /\ d.sampled = sampled /\ d.priority = p
      /\ d.account_id = ids.account_id /\ d.app_id = ids.app_id /\ d.trusted_key = ids.trusted_key
      /\ d.txn_id = ids.txn_id /\ d.inbound = ids.inbound
  BY <1>3, <1>5 DEF TraceFields
<1>9. /\ DOMAIN NoInbound = InboundFields /\ NoInbound.set = FALSE /\ NoInbound.raw_tracing_vendors = <<>>
  BY DEF NoInbound, InboundFields
<1>10. d.inbound = NoInbound /\ d.inbound.raw_tracing_vendors = <<>> /\ ~d.inbound.set /\ d.inbound.set \in BOOLEAN
  BY <1>3, <1>8, <1>9
<1>11. d.inbound.raw_tracing_vendors \in Seq({VendorEntry})
  <2>1. <<>> \in Seq({VendorEntry})
    OBVIOUS
  <2> QED
    BY <1>10, <2>1
<1> QED
  BY <1>1, <1>3, <1>6, <1>7, <1>8, <1>9, <1>10, <1>11 DEF IsTrace

(* What a service is before it looks at the headers of its call.           *)
Fresh(u, ini) ==
  /\ IsTxn(u) /\ u.opts = BeginOptions(DefaultApp, TxnOptions(ini)) /\ u.recording /\ u.type = {}
  /\ CreateSuccess \intersect u.metrics = {}
  /\ IsTrace(u.dt) /\ ~u.dt.inbound.set /\ u.dt.inbound.raw_tracing_vendors = <<>>

(* A service begins.                                                       *)
LEMMA ServiceBegins ==
  ASSUME NEW s \in Services, NEW ini \in ChainInis, NEW prio \in Nat \ {0}, NEW sampled \in BOOLEAN,
         NEW server, IsPath(server.script), server.x_id = NULL, server.x_txn = NULL, server.x_synthetics = NULL,
         NEW t, t = nr_php_txn_begin(DefaultApp, ini, server, Guid(s), prio, sampled)
  PROVE  \E u : Fresh(u, ini) /\ t = AcceptInbound(u, DefaultApp, server)
<1> DEFINE new == nr_txn_begin(DefaultApp, TxnOptions(ini), Guid(s), prio, sampled)
<1>1. PICK u : /\ Story(u, NoHistory, DefaultApp) /\ Frame(TxnFields \ Prepared, new, u)
               /\ \/ t = AcceptInbound(u, DefaultApp, server)
                  \/ t = nr_header_set_synthetics_txn(AcceptInbound(u, DefaultApp, server), DefaultApp, server.x_synthetics)
  BY BeginPrepares, ChainApp
<1>2. /\ IsTxn(new) /\ new.opts = BeginOptions(DefaultApp, TxnOptions(ini)) /\ new.recording /\ new.type = {}
      /\ new.metrics = {} /\ new.dt = BeginTrace(DefaultApp, TxnOptions(ini), Guid(s), prio, sampled)
  BY NewTxn
<1>3. IsTrace(new.dt) /\ ~new.dt.inbound.set /\ new.dt.inbound.raw_tracing_vendors = <<>>
  BY <1>2, TraceBegins
<1> HIDE DEF new
<1>4. {"opts", "recording", "type", "dt"} \in SUBSET (TxnFields \ Prepared)
  BY DEF TxnFields, Prepared, Noise
<1>5. /\ IsTxn(u) /\ u.opts = new.opts /\ u.recording = new.recording /\ u.type = new.type /\ u.dt = new.dt
      /\ \A m \in Loud : m \in u.metrics <=> m \in new.metrics
  BY <1>1, <1>4 DEF Frame
<1>6. Fresh(u, ini)
  BY <1>2, <1>3, <1>5 DEF Fresh, Loud
<1>7. t = AcceptInbound(u, DefaultApp, server)
  <2> DEFINE a == AcceptInbound(u, DefaultApp, server)
  <2>1. nr_header_set_synthetics_txn(a, DefaultApp, server.x_synthetics) = a
    BY DEF nr_header_set_synthetics_txn
  <2> QED
    BY <1>1, <2>1
<1> QED
  BY <1>6, <1>7

(* It takes over its call, or nothing.                                     *)
LEMMA BeginAccepts ==
  ASSUME NEW ini \in ChainInis, NEW u, Fresh(u, ini), NEW c, IsCallOf(c), NEW server, server.x_id = NULL,
         \/ server.newrelic = NULL /\ server.traceparent = NULL
         \/ /\ server.newrelic = c.headers.newrelic /\ server.traceparent = c.headers.traceparent
            /\ server.tracestate = c.headers.tracestate,
         NEW t, t = AcceptInbound(u, DefaultApp, server)
  PROVE  /\ Accepts(u, t, c) /\ Frame({"opts", "recording"}, u, t)
         /\ server.newrelic = NULL /\ server.traceparent = NULL => t.dt = u.dt /\ t.type = u.type
<1> DEFINE h == nr_header_create_distributed_trace_map(server.newrelic, server.traceparent, server.tracestate)
           a == nr_txn_accept_distributed_trace_payload_httpsafe(u, DefaultApp, h, "HTTP")
<1>0. u.opts.parent_sampled \in Samplers /\ u.opts.parent_not_sampled \in Samplers
  BY SamplerOptions, ChainAssumption DEF Fresh, Samplers
<1>1. IsTxn(u) /\ IsTrace(u.dt) /\ Accepts(u, u, c)
  BY DEF Fresh, Accepts
<1>2. t = u \/ t = a
  <2>1. nr_header_set_cat_txn(u, DefaultApp, server.x_id, server.x_txn).t = u
    BY DEF nr_header_set_cat_txn, nr_header_decode, nr_header_validate_encoded_string, nr_header_validate_decoded_id
  <2> QED
    BY <2>1 DEF AcceptInbound
<1>3. server.newrelic = NULL /\ server.traceparent = NULL => a = u
  BY DEF nr_header_create_distributed_trace_map, nr_txn_accept_distributed_trace_payload_httpsafe
<1>4. Frame({"opts", "recording"}, u, t)
  <2>1. /\ {"opts", "recording"} \in SUBSET (TxnFields \ (Noise \union {"dt", "type", "cat"}))
    BY DEF TxnFields, Noise
  <2> QED
    BY <1>1, <2>1, FrameInbound
<1>5. ~(server.newrelic = NULL /\ server.traceparent = NULL) => HeadersOf(h, c)
  BY DEF nr_header_create_distributed_trace_map, HeadersOf
<1> HIDE DEF h
<1>6. ~(server.newrelic = NULL /\ server.traceparent = NULL) => Accepts(u, a, c)
  BY <1>0, <1>1, <1>5, AcceptsTrace
<1> HIDE DEF a
<1> QED
  BY <1>1, <1>2, <1>3, <1>4, <1>6

(* What a transaction has sent, g, is what it is.                          *)
Spoken(t, g) ==
  /\ g.headers.newrelic # NULL => g.headers.newrelic.tr.id = t.dt.trace_id.id
  /\ g.headers.traceparent # NULL => g.headers.traceparent.trace_id.id = t.dt.trace_id.id
  /\ g.headers.newrelic # NULL \/ g.headers.traceparent # NULL => CreateSuccess \intersect t.metrics # {}
  /\ g.auto /\ t.opts.dt =>
       /\ CreateSuccess \intersect t.metrics # {}
       /\ t.dt.inbound.raw_tracing_vendors # <<>> => VendorEntry \in Range(g.headers.tracestate)

(* The transaction t of a service with the settings ini that has sent out, *)
(* and has taken over the call from, if it has been called at all.         *)
IsService(t, ini, out, called, from) ==
  /\ IsTxn(t) /\ t.recording /\ t.opts = BeginOptions(DefaultApp, TxnOptions(ini)) /\ IsTrace(t.dt)
  /\ t.dt.inbound.set <=> called
  /\ "DT_INBOUND" \in t.type <=> called
  /\ called => Taken(t.dt, from, t.opts)
  /\ ~t.opts.dt => t.dt.inbound.raw_tracing_vendors = <<>>
  /\ \A g \in out : Spoken(t, g)

(* The inductive invariant of the chain.                                   *)
ChainInv ==
  /\ cini \in [Services -> ChainInis]
  /\ DOMAIN ctxn \subseteq Services /\ DOMAIN cfrom \subseteq DOMAIN ctxn
  /\ DOMAIN cout = Services
  /\ \A s \in Services : IsFiniteSet(cout[s]) /\ (s \notin DOMAIN ctxn => cout[s] = {})
  /\ \A s \in DOMAIN ctxn : IsService(ctxn[s], cini[s], cout[s], s \in DOMAIN cfrom, cfrom[s])
  /\ \A c \in cnet : IsCallOf(c)

(* A service that has just begun, called or not.                           *)
LEMMA FreshService ==
  ASSUME NEW ini, NEW u, Fresh(u, ini), NEW from PROVE IsService(u, ini, {}, FALSE, from)
  BY DEF Fresh, IsService

(* A service takes over a call, or does not.                               *)
LEMMA ServiceAccepts ==
  ASSUME NEW t, NEW u, NEW ini, NEW out, NEW called \in BOOLEAN, NEW from, NEW c,
         IsService(t, ini, out, called, from), Accepts(t, u, c), Frame({"opts", "recording"}, t, u)
  PROVE  /\ called => u.dt.inbound.set
         /\ IsService(u, ini, out, u.dt.inbound.set, IF called THEN from ELSE c)
<1>1. /\ IsTxn(u) /\ u.opts = t.opts /\ u.recording = t.recording
      /\ CreateSuccess \intersect u.metrics = CreateSuccess \intersect t.metrics
  BY DEF Frame, Loud
<1>2. CASE u.dt = t.dt /\ u.type = t.type
  <2>1. u.dt.inbound.set <=> called
    BY <1>2 DEF IsService
  <2>2. \A g \in out : Spoken(u, g)
    BY <1>1, <1>2 DEF IsService, Spoken
  <2> QED
    BY <1>1, <1>2, <2>1, <2>2 DEF IsService
<1>3. CASE /\ t.opts.dt /\ ~t.dt.inbound.set /\ CreateSuccess \intersect t.metrics = {}
           /\ IsTrace(u.dt) /\ Taken(u.dt, c, t.opts) /\ u.type = t.type \union {"DT_INBOUND"}
  <2>1. ~called /\ u.dt.inbound.set
    BY <1>3 DEF IsService, Taken
  <2>2. ASSUME NEW g \in out PROVE Spoken(u, g)
    <3>1. Spoken(t, g)
      BY DEF IsService
    <3>2. g.headers.newrelic = NULL /\ g.headers.traceparent = NULL /\ ~g.auto
      BY <1>3, <3>1 DEF Spoken
    <3> QED
      BY <3>2 DEF Spoken
  <2> QED
    BY <1>1, <1>3, <2>1, <2>2 DEF IsService
<1> QED
  BY <1>2, <1>3 DEF Accepts

(* A service calls the next one.                                           *)
LEMMA ServiceCalls ==
  ASSUME NEW t, NEW r, NEW ini, NEW out, NEW called, NEW from, NEW auto,
         IsService(t, ini, out, called, from), CallTells(t, r), auto => CallForwards(t, r),
         NEW g, g.headers = r.headers, g.auto = auto
  PROVE  IsService(r.t, ini, out \union {g}, called, from)
<1>1. /\ IsTxn(r.t) /\ r.t.opts = t.opts /\ r.t.recording = t.recording /\ r.t.dt = t.dt
      /\ "DT_INBOUND" \in r.t.type <=> "DT_INBOUND" \in t.type
      /\ CreateSuccess \intersect t.metrics # {} => CreateSuccess \intersect r.t.metrics # {}
  BY DEF CallTells, Told
<1>2. ASSUME NEW x \in out PROVE Spoken(r.t, x)
  BY <1>1 DEF IsService, Spoken
<1>3. Spoken(r.t, g)
  BY <1>1 DEF CallTells, CallForwards, TellsTrace, Spoken
<1> QED
  BY <1>1, <1>2, <1>3 DEF IsService

(* The headers of the call are those of the trace.                         *)
LEMMA CallCarries ==
  ASSUME NEW t, NEW r, IsTrace(t.dt), CallTells(t, r), NEW h \in OnTheWay(r.headers),
         NEW c, c.trace = t.dt.trace_id, c.sampled = t.dt.sampled, c.priority = t.dt.priority, c.headers = h,
         "headers" \in DOMAIN c
  PROVE  IsCallOf(c)
<1>1. Carries(h, c)
  BY WayCarries DEF CallTells
<1> QED
  BY <1>1 DEF IsCallOf, IsTrace

(* Headers that nobody sent are not accepted.                              *)
LEMMA NoCall ==
  ASSUME NEW u, NEW server, server.newrelic = NULL, server.traceparent = NULL, server.x_id = NULL
  PROVE  AcceptInbound(u, DefaultApp, server) = u
<1>1. nr_header_set_cat_txn(u, DefaultApp, server.x_id, server.x_txn).t = u
  BY DEF nr_header_set_cat_txn, nr_header_decode, nr_header_validate_encoded_string, nr_header_validate_decoded_id
<1> QED
  BY <1>1 DEF AcceptInbound, nr_header_create_distributed_trace_map, nr_txn_accept_distributed_trace_payload_httpsafe

(* What a request without headers has.                                     *)
LEMMA PlainServer ==
  /\ IsPath(DefaultServer.script) /\ DefaultServer.x_id = NULL /\ DefaultServer.x_txn = NULL
  /\ DefaultServer.x_synthetics = NULL /\ DefaultServer.newrelic = NULL /\ DefaultServer.traceparent = NULL
<1>1. IsPath(DefaultServer.script)
  BY DefaultKeepsErrors
<1> QED
  BY <1>1 DEF DefaultServer

(* At the beginning there is one service, which nobody has called.         *)
LEMMA ChainBegins == ASSUME ChainInit PROVE ChainInv
<1>1. PICK sampled \in BOOLEAN : ctxn = [s \in {1} |->
          nr_php_txn_begin(DefaultApp, cini[1], DefaultServer, Guid(1), 3, sampled)]
  BY DEF ChainInit
<1>2. /\ cini \in [Services -> ChainInis] /\ cnet = {} /\ cout = [s \in Services |-> {}]
      /\ DOMAIN cfrom = {}
  BY DEF ChainInit
<1> DEFINE t == nr_php_txn_begin(DefaultApp, cini[1], DefaultServer, Guid(1), 3, sampled)
<1>3. 1 \in Services /\ cini[1] \in ChainInis
  BY <1>2, ChainAssumption DEF Services
<1>4. PICK u : Fresh(u, cini[1]) /\ t = AcceptInbound(u, DefaultApp, DefaultServer)
  <2>1. 3 \in Nat \ {0}
    OBVIOUS
  <2> QED
    BY <1>3, <2>1, ServiceBegins, PlainServer
<1> HIDE DEF t
<1>5. t = u
  BY <1>4, NoCall, PlainServer
<1>6. DOMAIN ctxn = {1} /\ ctxn[1] = u
  BY <1>1, <1>5 DEF t
<1>7. IsService(ctxn[1], cini[1], cout[1], 1 \in DOMAIN cfrom, cfrom[1])
  <2>1. cout[1] = {}
    BY <1>2, <1>3
  <2>2. IsService(u, cini[1], {}, FALSE, cfrom[1])
    BY <1>4, FreshService
  <2>3. (1 \in DOMAIN cfrom) = FALSE
    BY <1>2
  <2> QED
    BY <1>2, <1>6, <2>1, <2>2, <2>3 DEF IsService
<1> QED
  BY <1>2, <1>3, <1>6, <1>7, FS_EmptySet DEF ChainInv

(* A service begins: its transaction joins the others.                     *)
LEMMA ChainBeginStep == ASSUME ChainInv, BeginService PROVE ChainInv'
<1>1. PICK s \in Services \ {1}, sampled \in BOOLEAN :
        /\ s \notin DOMAIN ctxn /\ s - 1 \in DOMAIN ctxn
        /\ \E call \in {c \in cnet : c.to = s} \union {NULL} :
             LET server == IF call = NULL THEN DefaultServer
                           ELSE [DefaultServer EXCEPT !.newrelic = call.headers.newrelic,
                                   !.traceparent = call.headers.traceparent,
                                   !.tracestate = call.headers.tracestate]
                 t == nr_php_txn_begin(DefaultApp, cini[s], server, Guid(s), 2 * s, sampled)
             IN /\ ctxn' = With(ctxn, s, t)
                /\ cfrom' = IF t.dt.inbound.set THEN With(cfrom, s, call) ELSE cfrom
        /\ UNCHANGED <<cini, cnet, cout>>
  BY DEF BeginService
<1>2. PICK call \in {c \in cnet : c.to = s} \union {NULL} :
             LET server == IF call = NULL THEN DefaultServer
                           ELSE [DefaultServer EXCEPT !.newrelic = call.headers.newrelic,
                                   !.traceparent = call.headers.traceparent,
                                   !.tracestate = call.headers.tracestate]
                 t == nr_php_txn_begin(DefaultApp, cini[s], server, Guid(s), 2 * s, sampled)
             IN /\ ctxn' = With(ctxn, s, t)
                /\ cfrom' = IF t.dt.inbound.set THEN With(cfrom, s, call) ELSE cfrom
  BY <1>1
<1> DEFINE server == IF call = NULL THEN DefaultServer
                     ELSE [DefaultServer EXCEPT !.newrelic = call.headers.newrelic,
                             !.traceparent = call.headers.traceparent,
                             !.tracestate = call.headers.tracestate]
           t == nr_php_txn_begin(DefaultApp, cini[s], server, Guid(s), 2 * s, sampled)
<1>3. ctxn' = With(ctxn, s, t) /\ cfrom' = IF t.dt.inbound.set THEN With(cfrom, s, call) ELSE cfrom
  BY <1>2
<1>4. /\ IsPath(server.script) /\ server.x_id = NULL /\ server.x_txn = NULL /\ server.x_synthetics = NULL
      /\ call = NULL => server.newrelic = NULL /\ server.traceparent = NULL
      /\ call # NULL => /\ server.newrelic = call.headers.newrelic /\ server.traceparent = call.headers.traceparent
                        /\ server.tracestate = call.headers.tracestate
  <2>1. {"script", "x_id", "x_txn", "x_synthetics", "newrelic", "traceparent", "tracestate"} \subseteq DOMAIN DefaultServer
    BY DEF DefaultServer
  <2> QED
    BY <2>1, PlainServer
<1>5. cini[s] \in ChainInis /\ 2 * s \in Nat \ {0} /\ s \in Services
  BY ChainAssumption DEF ChainInv, Services
<1> HIDE DEF server
<1>6. PICK u : Fresh(u, cini[s]) /\ t = AcceptInbound(u, DefaultApp, server)
  BY <1>4, <1>5, ServiceBegins
<1> HIDE DEF t
<1>7. IsService(u, cini[s], {}, FALSE, call) /\ ~u.dt.inbound.set
  BY <1>6, FreshService DEF Fresh
<1>8. IsService(t, cini[s], {}, t.dt.inbound.set, call)
  <2>1. CASE call = NULL
    <3>1. t = u
      BY <1>4, <1>6, <2>1, NoCall
    <3>2. IsService(u, cini[s], {}, u.dt.inbound.set, call)
      BY <1>7 DEF IsService
    <3> QED
      BY <3>1, <3>2
  <2>2. CASE call # NULL
    <3>1. IsCallOf(call)
      BY <2>2 DEF ChainInv
    <3>2. Accepts(u, t, call) /\ Frame({"opts", "recording"}, u, t)
      BY <1>4, <1>5, <1>6, <2>2, <3>1, BeginAccepts
    <3>3. PICK no \in BOOLEAN : no = FALSE
      OBVIOUS
    <3>4. IsService(u, cini[s], {}, no, call)
      BY <1>7, <3>3
    <3>5. IsService(t, cini[s], {}, t.dt.inbound.set, IF no THEN call ELSE call)
      BY <3>2, <3>4, ServiceAccepts
    <3> QED
      BY <3>5
  <2> QED
    BY <2>1, <2>2
<1>9. /\ DOMAIN ctxn' = DOMAIN ctxn \union {s} /\ ctxn'[s] = t /\ \A x \in DOMAIN ctxn : ctxn'[x] = ctxn[x]
      /\ t.dt.inbound.set => /\ DOMAIN cfrom' = DOMAIN cfrom \union {s} /\ cfrom'[s] = call
                             /\ \A x \in DOMAIN ctxn : cfrom'[x] = cfrom[x] \/ x \notin DOMAIN cfrom
      /\ ~t.dt.inbound.set => cfrom' = cfrom
  BY <1>1, <1>3 DEF With
<1>10. cini' = cini /\ cnet' = cnet /\ cout' = cout
  BY <1>1
<1>11. s \notin DOMAIN cfrom /\ cout[s] = {}
  BY <1>1 DEF ChainInv
<1>12. IsService(ctxn'[s], cini'[s], cout'[s], s \in DOMAIN cfrom', cfrom'[s])
  <2>1. (s \in DOMAIN cfrom') <=> t.dt.inbound.set
    BY <1>9, <1>11
  <2>2. IsService(t, cini[s], {}, s \in DOMAIN cfrom', cfrom'[s])
    BY <1>8, <1>9, <2>1 DEF IsService
  <2> QED
    BY <1>9, <1>10, <1>11, <2>2
<1>13. ASSUME NEW x \in DOMAIN ctxn PROVE IsService(ctxn'[x], cini'[x], cout'[x], x \in DOMAIN cfrom', cfrom'[x])
  <2>1. IsService(ctxn[x], cini[x], cout[x], x \in DOMAIN cfrom, cfrom[x])
    BY DEF ChainInv
  <2>2. x # s
    BY <1>1
  <2>3. /\ (x \in DOMAIN cfrom') <=> (x \in DOMAIN cfrom)
        /\ x \in DOMAIN cfrom => cfrom'[x] = cfrom[x]
    BY <1>9, <2>2
  <2>4. IsService(ctxn[x], cini[x], cout[x], x \in DOMAIN cfrom', cfrom'[x])
    BY <2>1, <2>3 DEF IsService
  <2> QED
    BY <1>9, <1>10, <2>4
<1>14. /\ DOMAIN ctxn' \subseteq Services /\ DOMAIN cfrom' \subseteq DOMAIN ctxn'
       /\ \A x \in Services : IsFiniteSet(cout'[x]) /\ (x \notin DOMAIN ctxn' => cout'[x] = {})
  BY <1>5, <1>9, <1>10 DEF ChainInv
<1>15. \A x \in DOMAIN ctxn' : IsService(ctxn'[x], cini'[x], cout'[x], x \in DOMAIN cfrom', cfrom'[x])
  BY <1>9, <1>12, <1>13
<1> QED
  BY <1>10, <1>14, <1>15 DEF ChainInv

(* What an API function takes over.                                        *)
LEMMA ApiAccepts ==
  ASSUME NEW t, IsTxn(t), IsTrace(t.dt), t.recording, t.opts.parent_sampled \in Samplers,
         t.opts.parent_not_sampled \in Samplers, NEW call, IsCallOf(call), NEW a \in Acceptances(t, call),
         NEW c, c = [call EXCEPT !.headers = a.headers]
  PROVE  Accepts(t, a.t, c) /\ Frame({"opts", "recording"}, t, a.t)
<1> DEFINE p  == call.headers.newrelic
           h1 == nr_php_api_distributed_trace_transform_zval_array(call.headers)
           h2 == OnlyNewrelic(p)
<1>1. \/ /\ a.t = nr_txn_accept_distributed_trace_payload_httpsafe(t, DefaultApp, h1, "Queue")
         /\ a.headers = call.headers
      \/ /\ a.t = nr_txn_accept_distributed_trace_payload_httpsafe(t, DefaultApp, h2, "Queue")
         /\ a.headers = h2
      \/ /\ a.t = nr_txn_accept_distributed_trace_payload(t, DefaultApp, h2, NULL)
         /\ a.headers = h2
  BY DEF Acceptances, newrelic_accept_distributed_trace_headers,
         newrelic_accept_distributed_trace_payload_httpsafe, newrelic_accept_distributed_trace_payload
<1>2. /\ DOMAIN c = DOMAIN call /\ c.headers = a.headers /\ c.trace = call.trace /\ c.priority = call.priority
      /\ c.sampled = call.sampled
  BY DEF IsCallOf
<1>3. a.headers \in {call.headers, h2}
  BY <1>1
<1>4. IsCallOf(c)
  <2>1. Carries(call.headers, call) /\ "headers" \in DOMAIN call /\ call.priority \in Nat \ {0}
        /\ call.sampled \in BOOLEAN
    BY DEF IsCallOf
  <2>2. Carries(call.headers, c)
    BY <1>2, <2>1 DEF Carries
  <2>3. h2.newrelic = p /\ h2.traceparent = NULL /\ h2.tracestate = NULL /\ NULL \notin Parents
    BY ChainAssumption DEF OnlyNewrelic
  <2> HIDE DEF h2
  <2>4. Carries(h2, c)
    BY <2>2, <2>3 DEF Carries
  <2> QED
    BY <1>2, <1>3, <2>1, <2>2, <2>4 DEF IsCallOf
<1>5. /\ a.headers = call.headers => HeadersOf(h1, c)
      /\ a.headers = h2 => HeadersOf(h2, c)
  BY <1>2 DEF nr_php_api_distributed_trace_transform_zval_array, OnlyNewrelic, HeadersOf
<1> HIDE DEF h1, h2
<1>6. {"opts", "recording"} \in SUBSET (TxnFields \ (Noise \union {"dt", "type"}))
  BY DEF TxnFields, Noise
<1>7. Accepts(t, a.t, c)
  BY <1>1, <1>4, <1>5, AcceptsTrace
<1>8. Frame({"opts", "recording"}, t, a.t)
  BY <1>1, <1>6, FrameAccept
<1> QED
  BY <1>7, <1>8

(* A later call of the API.                                                *)
LEMMA ChainAcceptStep == ASSUME ChainInv, AcceptLater PROVE ChainInv'
<1>a. PICK s \in DOMAIN ctxn \ {1} :
        /\ \E c \in cnet : \E a \in Acceptances(ctxn[s], c) :
             /\ ctxn' = [ctxn EXCEPT ![s] = a.t]
             /\ cfrom' = IF a.t.dt.inbound.set /\ ~ctxn[s].dt.inbound.set
                         THEN With(cfrom, s, [c EXCEPT !.headers = a.headers]) ELSE cfrom
        /\ UNCHANGED <<cini, cnet, cout>>
  BY DEF AcceptLater
<1>b. PICK c \in cnet : \E a \in Acceptances(ctxn[s], c) :
        /\ ctxn' = [ctxn EXCEPT ![s] = a.t]
        /\ cfrom' = IF a.t.dt.inbound.set /\ ~ctxn[s].dt.inbound.set
                    THEN With(cfrom, s, [c EXCEPT !.headers = a.headers]) ELSE cfrom
  BY <1>a
<1>c. PICK a \in Acceptances(ctxn[s], c) :
        /\ ctxn' = [ctxn EXCEPT ![s] = a.t]
        /\ cfrom' = IF a.t.dt.inbound.set /\ ~ctxn[s].dt.inbound.set
                    THEN With(cfrom, s, [c EXCEPT !.headers = a.headers]) ELSE cfrom
  BY <1>b
<1> DEFINE u == a.t
           call == [c EXCEPT !.headers = a.headers]
<1>1. /\ ctxn' = [ctxn EXCEPT ![s] = u]
      /\ cfrom' = IF u.dt.inbound.set /\ ~ctxn[s].dt.inbound.set THEN With(cfrom, s, call) ELSE cfrom
  BY <1>c
<1> DEFINE t == ctxn[s]
           called == s \in DOMAIN cfrom
<1>2. /\ IsService(t, cini[s], cout[s], called, cfrom[s]) /\ IsCallOf(c) /\ cini[s] \in ChainInis
      /\ called \in BOOLEAN
  BY <1>1 DEF ChainInv
<1>3. IsTxn(t) /\ IsTrace(t.dt) /\ t.recording /\ (t.dt.inbound.set <=> called)
  BY <1>2 DEF IsService
<1>4. t.opts.parent_sampled \in Samplers /\ t.opts.parent_not_sampled \in Samplers
  BY <1>2, SamplerOptions, ChainAssumption DEF IsService, Samplers
<1> HIDE DEF called
<1>5. Accepts(t, u, call) /\ Frame({"opts", "recording"}, t, u)
  BY <1>2, <1>3, <1>4, ApiAccepts
<1> HIDE DEF u, call
<1>6. /\ called => u.dt.inbound.set
      /\ IsService(u, cini[s], cout[s], u.dt.inbound.set, IF called THEN cfrom[s] ELSE call)
  BY <1>2, <1>5, ServiceAccepts
<1>7. /\ DOMAIN ctxn' = DOMAIN ctxn /\ ctxn'[s] = u /\ \A x \in DOMAIN ctxn \ {s} : ctxn'[x] = ctxn[x]
  BY <1>1
<1>8. /\ (s \in DOMAIN cfrom') <=> u.dt.inbound.set
      /\ u.dt.inbound.set => cfrom'[s] = IF called THEN cfrom[s] ELSE call
      /\ DOMAIN cfrom' \subseteq DOMAIN cfrom \union {s}
      /\ \A x \in DOMAIN ctxn \ {s} : /\ (x \in DOMAIN cfrom') <=> (x \in DOMAIN cfrom)
                                      /\ x \in DOMAIN cfrom => cfrom'[x] = cfrom[x]
  BY <1>1, <1>3, <1>6 DEF With, called
<1>9. cini' = cini /\ cnet' = cnet /\ cout' = cout
  BY <1>a
<1>10. IsService(ctxn'[s], cini'[s], cout'[s], s \in DOMAIN cfrom', cfrom'[s])
  <2>1. IsService(u, cini[s], cout[s], s \in DOMAIN cfrom', cfrom'[s])
    BY <1>6, <1>8 DEF IsService
  <2> QED
    BY <1>7, <1>9, <2>1
<1>11. ASSUME NEW x \in DOMAIN ctxn \ {s} PROVE IsService(ctxn'[x], cini'[x], cout'[x], x \in DOMAIN cfrom', cfrom'[x])
  <2>1. IsService(ctxn[x], cini[x], cout[x], x \in DOMAIN cfrom, cfrom[x])
    BY DEF ChainInv
  <2>2. IsService(ctxn[x], cini[x], cout[x], x \in DOMAIN cfrom', cfrom'[x])
    BY <1>8, <2>1 DEF IsService
  <2> QED
    BY <1>7, <1>9, <2>2
<1>12. /\ DOMAIN ctxn' \subseteq Services /\ DOMAIN cfrom' \subseteq DOMAIN ctxn'
       /\ \A x \in Services : IsFiniteSet(cout'[x]) /\ (x \notin DOMAIN ctxn' => cout'[x] = {})
  BY <1>1, <1>7, <1>8, <1>9 DEF ChainInv
<1>13. \A x \in DOMAIN ctxn' : IsService(ctxn'[x], cini'[x], cout'[x], x \in DOMAIN cfrom', cfrom'[x])
  BY <1>7, <1>10, <1>11
<1> QED
  BY <1>9, <1>12, <1>13 DEF ChainInv

(* A call to the next service.                                             *)
LEMMA ChainCallStep == ASSUME ChainInv, CallNext PROVE ChainInv'
<1>1. PICK s \in DOMAIN ctxn :
        /\ Cardinality(cout[s]) < ChainMaxOut
        /\ LET n     == Cardinality(cout[s])
               seg   == <<"segment", s, n>>
               fresh == <<"fresh", s, n>>
           IN \E r \in {[r |-> newrelic_get_request_metadata(ctxn[s], DefaultApp, seg, fresh, n), auto |-> TRUE],
                        [r |-> newrelic_insert_distributed_trace_headers(ctxn[s], seg, fresh, n), auto |-> FALSE],
                        [r |-> newrelic_create_distributed_trace_payload(ctxn[s], seg, n), auto |-> FALSE]} :
                /\ ctxn' = [ctxn EXCEPT ![s] = r.r.t]
                /\ cout' = [cout EXCEPT ![s] = @ \union {[headers |-> r.r.headers, auto |-> r.auto]}]
                /\ \E h \in OnTheWay(r.r.headers) :
                     cnet' = cnet \union {[to |-> s + 1, n |-> n, headers |-> h,
                                           sampled |-> ctxn[s].dt.sampled, priority |-> ctxn[s].dt.priority,
                                           trace |-> ctxn[s].dt.trace_id]}
        /\ UNCHANGED <<cini, cfrom>>
  BY DEF CallNext
<1> DEFINE n     == Cardinality(cout[s])
           seg   == <<"segment", s, n>>
           fresh == <<"fresh", s, n>>
           t     == ctxn[s]
           r1    == newrelic_get_request_metadata(t, DefaultApp, seg, fresh, n)
           r2    == newrelic_insert_distributed_trace_headers(t, seg, fresh, n)
           r3    == newrelic_create_distributed_trace_payload(t, seg, n)
<1>2. PICK r, auto, g, h :
        /\ (r = r1 /\ auto) \/ (r = r2 /\ ~auto) \/ (r = r3 /\ ~auto)
        /\ g = [headers |-> r.headers, auto |-> auto]
        /\ ctxn' = [ctxn EXCEPT ![s] = r.t]
        /\ cout' = [cout EXCEPT ![s] = @ \union {g}]
        /\ h \in OnTheWay(r.headers)
        /\ cnet' = cnet \union {[to |-> s + 1, n |-> n, headers |-> h, sampled |-> t.dt.sampled,
                                 priority |-> t.dt.priority, trace |-> t.dt.trace_id]}
  <2>1. PICK q \in {[r |-> r1, auto |-> TRUE], [r |-> r2, auto |-> FALSE], [r |-> r3, auto |-> FALSE]} :
                /\ ctxn' = [ctxn EXCEPT ![s] = q.r.t]
                /\ cout' = [cout EXCEPT ![s] = @ \union {[headers |-> q.r.headers, auto |-> q.auto]}]
                /\ \E h \in OnTheWay(q.r.headers) :
                     cnet' = cnet \union {[to |-> s + 1, n |-> n, headers |-> h,
                                           sampled |-> t.dt.sampled, priority |-> t.dt.priority,
                                           trace |-> t.dt.trace_id]}
    BY <1>1
  <2>2. (q.r = r1 /\ q.auto) \/ (q.r = r2 /\ ~q.auto) \/ (q.r = r3 /\ ~q.auto)
    <3> HIDE DEF r1, r2, r3
    <3> QED
      OBVIOUS
  <2> HIDE DEF r1, r2, r3
  <2>3. PICK h \in OnTheWay(q.r.headers) :
          cnet' = cnet \union {[to |-> s + 1, n |-> n, headers |-> h, sampled |-> t.dt.sampled,
                                priority |-> t.dt.priority, trace |-> t.dt.trace_id]}
    BY <2>1
  <2> DEFINE r0 == q.r
             a0 == q.auto
             g0 == [headers |-> q.r.headers, auto |-> q.auto]
             Fits(r, auto, g, k) ==
               /\ (r = r1 /\ auto) \/ (r = r2 /\ ~auto) \/ (r = r3 /\ ~auto)
               /\ g = [headers |-> r.headers, auto |-> auto]
               /\ ctxn' = [ctxn EXCEPT ![s] = r.t]
               /\ cout' = [cout EXCEPT ![s] = @ \union {g}]
               /\ k \in OnTheWay(r.headers)
               /\ cnet' = cnet \union {[to |-> s + 1, n |-> n, headers |-> k, sampled |-> t.dt.sampled,
                                        priority |-> t.dt.priority, trace |-> t.dt.trace_id]}
  <2> HIDE DEF n, t
  <2>4. Fits(r0, a0, g0, h)
    BY <2>1, <2>2, <2>3
  <2> HIDE DEF Fits, r0, a0, g0
  <2>5. \E r, auto, g, k : Fits(r, auto, g, k)
    BY <2>4
  <2> QED
    BY <2>5, Zenon DEF Fits
<1>3. /\ s \in Services /\ IsFiniteSet(cout[s]) /\ IsService(t, cini[s], cout[s], s \in DOMAIN cfrom, cfrom[s])
      /\ s \in DOMAIN cout /\ DOMAIN ctxn \subseteq Services
  BY DEF ChainInv
<1>4. n \in Nat /\ n \in 0..ChainMaxOut
  BY <1>1, <1>3, FS_CardinalityType, ChainAssumption
<1> HIDE DEF n
<1>5. seg \in Spans /\ fresh \in Spans
  BY <1>3, <1>4 DEF Spans
<1>6. IsTxn(t) /\ IsTrace(t.dt) /\ t.recording
  BY <1>3 DEF IsService
<1> HIDE DEF seg, fresh, t
<1>7. CallTells(t, r1) /\ CallForwards(t, r1) /\ CallTells(t, r2) /\ CallTells(t, r3)
  BY <1>4, <1>5, <1>6, AutoCall, HandCall, PayloadCall
<1> HIDE DEF r1, r2, r3
<1>8. CallTells(t, r) /\ (auto => CallForwards(t, r))
  BY <1>2, <1>7
<1> DEFINE c == [to |-> s + 1, n |-> n, headers |-> h, sampled |-> t.dt.sampled,
                 priority |-> t.dt.priority, trace |-> t.dt.trace_id]
<1>9. /\ "headers" \in DOMAIN c /\ c.headers = h /\ c.sampled = t.dt.sampled /\ c.priority = t.dt.priority
      /\ c.trace = t.dt.trace_id
      /\ cnet' = cnet \union {c} /\ g.headers = r.headers /\ g.auto = auto
  BY <1>2
<1> HIDE DEF c
<1>10. IsCallOf(c)
  BY <1>2, <1>6, <1>8, <1>9, CallCarries
<1>11. IsService(r.t, cini[s], cout[s] \union {g}, s \in DOMAIN cfrom, cfrom[s])
  BY <1>3, <1>8, <1>9, ServiceCalls
<1>12. /\ DOMAIN ctxn' = DOMAIN ctxn /\ ctxn'[s] = r.t /\ \A x \in DOMAIN ctxn \ {s} : ctxn'[x] = ctxn[x]
       /\ DOMAIN cout' = Services /\ cout'[s] = cout[s] \union {g} /\ \A x \in Services \ {s} : cout'[x] = cout[x]
       /\ cini' = cini /\ cfrom' = cfrom
  BY <1>1, <1>2, <1>3 DEF ChainInv
<1>13. IsFiniteSet(cout[s] \union {g})
  BY <1>3, FS_AddElement
<1>14. \A x \in Services : IsFiniteSet(cout'[x]) /\ (x \notin DOMAIN ctxn' => cout'[x] = {})
  BY <1>12, <1>13 DEF ChainInv
<1>15. \A x \in DOMAIN ctxn' : IsService(ctxn'[x], cini'[x], cout'[x], x \in DOMAIN cfrom', cfrom'[x])
  <2>1. IsService(ctxn'[s], cini'[s], cout'[s], s \in DOMAIN cfrom', cfrom'[s])
    BY <1>11, <1>12
  <2>2. ASSUME NEW x \in DOMAIN ctxn \ {s} PROVE IsService(ctxn'[x], cini'[x], cout'[x], x \in DOMAIN cfrom', cfrom'[x])
    <3>1. IsService(ctxn[x], cini[x], cout[x], x \in DOMAIN cfrom, cfrom[x]) /\ x \in Services \ {s}
      BY DEF ChainInv
    <3> QED
      BY <1>12, <3>1
  <2> QED
    BY <1>12, <2>1, <2>2
<1>16. \A x \in cnet' : IsCallOf(x)
  BY <1>9, <1>10 DEF ChainInv
<1> QED
  BY <1>12, <1>14, <1>15, <1>16 DEF ChainInv

(* The parts of the property follow from the invariant.                    *)
LEMMA ChainPromises == ASSUME ChainInv PROVE ChainIsOneTrace
<1>1. ChainTypeOK
  BY DEF ChainInv, IsService, IsTrace, Traces, ChainTypeOK
<1>2. OneTraceId
  <2> SUFFICES ASSUME NEW s \in DOMAIN ctxn PROVE TraceIds(cout[s]) \subseteq {ctxn[s].dt.trace_id.id}
    BY DEF OneTraceId
  <2>1. \A g \in cout[s] : Spoken(ctxn[s], g)
    BY DEF ChainInv, IsService
  <2> QED
    BY <2>1 DEF TraceIds, Spoken
<1>3. ASSUME NEW s \in DOMAIN cfrom PROVE /\ Taken(ctxn[s].dt, cfrom[s], ctxn[s].opts) /\ s \in DOMAIN ctxn
                                          /\ ctxn[s].opts = BeginOptions(DefaultApp, TxnOptions(cini[s]))
                                          /\ ~ctxn[s].opts.dt => ctxn[s].dt.inbound.raw_tracing_vendors = <<>>
                                          /\ \A g \in cout[s] : Spoken(ctxn[s], g)
  BY DEF ChainInv, IsService
<1>4. SameTrace
  BY <1>3 DEF SameTrace, Taken
<1>5. DecisionFollows
  <2>1. \A s \in DOMAIN cfrom : /\ ctxn[s].opts.parent_sampled = cini[s].parent_sampled
                                /\ ctxn[s].opts.parent_not_sampled = cini[s].parent_not_sampled
    BY <1>3, SamplerOptions
  <2> QED
    BY <1>3, <2>1, ChainApp DEF DecisionFollows, Taken, Decided
<1>6. VendorsForwarded
  BY <1>3 DEF VendorsForwarded, Spoken, Taken
<1> QED
  BY <1>1, <1>2, <1>4, <1>5, <1>6 DEF ChainIsOneTrace

(* A request through any number of services that call each other any       *)
(* number of times, with headers that are lost, damaged or added to in     *)
(* between and accepted at any moment, is one trace with one decision:     *)
(* each service tells one trace id, which is its caller's once it has      *)
(* taken over a call, with the caller's decision where it is to hold, and  *)
(* what other vendors wrote goes along                                     *)
(* (nr_txn_accept_distributed_trace_payload).                              *)
THEOREM ChainKeepsItsTrace == ChainSpec => []ChainIsOneTrace
<1>1. ChainInit => ChainInv
  BY ChainBegins
<1>2. ChainInv /\ [ChainNext]_chainVars => ChainInv'
  <2> SUFFICES ASSUME ChainInv, [ChainNext]_chainVars PROVE ChainInv'
    OBVIOUS
  <2>1. CASE UNCHANGED chainVars
    BY <2>1 DEF ChainInv, chainVars
  <2> QED
    BY <2>1, ChainBeginStep, ChainAcceptStep, ChainCallStep DEF ChainNext
<1>3. ChainInv => ChainIsOneTrace
  BY ChainPromises
<1> QED
  BY <1>1, <1>2, <1>3, PTL DEF ChainSpec

---------------------------------------------------------------------------
(* Api: what the functions of the API answer and leave.                    *)

(* The fields of a request.                                                *)
ApFields == {"topic", "token", "prioritize", "conn", "ini", "app", "txn", "capture", "callback", "tracers",
             "span", "told", "warnings", "ret", "sent", "calls", "over", "asked", "was"}

(* A transaction that is over does not record.                             *)
Ceased(t) == IsTxn(t) /\ (t.complete => ~t.recording)

(* What was sent is what was said when it was over.                        *)
AsSaid(sent) ==
  /\ \E S : sent \in Seq(S)
  /\ \A i \in DOMAIN sent : sent[i].over # NULL => Said(sent[i].t) = sent[i].over

(* The state of a request between two calls.                               *)
Between(a) ==
  /\ DOMAIN a = ApFields /\ a.conn \in ApConns /\ a.ini = DefaultIni /\ a.calls \in 0..ApMaxCalls
  /\ a.topic \in {"switch", "data", "kind"} /\ AsSaid(a.sent)
  /\ a.txn # NULL => Ceased(a.txn)
  /\ a.over # NULL => Ceased(a.txn) /\ a.txn.complete /\ Said(a.txn) = a.over

(* The fields of a request that no function of the API writes.             *)
ApKept == {"topic", "conn", "ini", "token", "asked", "over", "calls"}

(* What a call may make of it: what was sent is as it was said, and what   *)
(* was said of a transaction that is over stays.                           *)
Answers(a, r) ==
  /\ DOMAIN r = ApFields /\ \A f \in ApKept : r[f] = a[f]
  /\ AsSaid(r.sent)
  /\ r.txn # NULL => Ceased(r.txn)
  /\ a.over # NULL /\ r.txn # NULL /\ r.txn.complete => Said(r.txn) = a.over

(* r is a with another transaction, and with other answers.                *)
Works(a, r) ==
  /\ DOMAIN r = ApFields /\ r.sent = a.sent /\ \A f \in ApKept : r[f] = a[f]
  /\ Ceased(r.txn)

(* u goes on as t does.                                                    *)
GoesOn(t, u) == IsTxn(u) /\ u.complete = t.complete /\ u.recording = t.recording

(* Going on is transitive.                                                 *)
LEMMA GoesOnThen ==
  ASSUME NEW t, NEW u, NEW v, GoesOn(t, u) PROVE IsTxn(u) /\ (GoesOn(u, v) => GoesOn(t, v))
  BY DEF GoesOn

(* A field is set that says nothing of this.                               *)
LEMMA GoesOnField ==
  ASSUME NEW t, IsTxn(t), NEW k \in TxnFields \ {"opts", "complete", "recording"}, NEW e
  PROVE  GoesOn(t, [t EXCEPT ![k] = e]) /\ GoesOn(t, t)
<1>1. {"opts", "complete", "recording"} \subseteq TxnFields
  BY DEF TxnFields
<1> QED
  BY <1>1 DEF GoesOn, IsTxn

(* The fields the functions below set.                                     *)
LEMMA OtherFields ==
  {"ignore", "ignore_apdex", "background", "frozen", "path", "name", "error", "metrics", "attrs", "custom_events",
   "rum_header", "rum_footer"} \subseteq TxnFields \ {"opts", "complete", "recording"}
  BY DEF TxnFields

(* Metrics and attributes are added.                                       *)
LEMMA GoesOnMetrics ==
  ASSUME NEW t, IsTxn(t), NEW S, NEW name, NEW value, NEW p
  PROVE  /\ GoesOn(t, AddMetrics(t, S)) /\ GoesOn(t, nr_txn_create_dt_metrics(t, p))
         /\ GoesOn(t, nr_txn_set_attribute(t, name, value))
<1>1. ASSUME NEW R PROVE GoesOn(t, AddMetrics(t, R))
  BY GoesOnField, OtherFields DEF AddMetrics
<1>2. GoesOn(t, nr_txn_create_dt_metrics(t, p))
  BY <1>1 DEF nr_txn_create_dt_metrics
<1>3. GoesOn(t, nr_txn_set_attribute(t, name, value))
  BY GoesOnField, OtherFields DEF nr_txn_set_attribute
<1> QED
  BY <1>1, <1>2, <1>3

(* nr_txn_freeze_name_update_apdex, whatever the rules do.                 *)
LEMMA GoesOnFreeze ==
  ASSUME NEW t, IsTxn(t), NEW app PROVE GoesOn(t, nr_txn_freeze_name_update_apdex(t, app).t)
<1> DEFINE frozen == [t EXCEPT !.frozen = TRUE]
           ruled  == IF t.path # NULL /\ nr_txn_should_do_url_rules(t.path_type, t.background)
                     THEN nr_txn_apply_url_rules(frozen, app.url_rules) ELSE frozen
           name   == [ruled EXCEPT !.name = FullName(ruled)]
           named  == nr_txn_apply_txn_rules(name, app.txn_rules)
           terms  == nr_txn_apply_segment_terms(named, app.terms)
           whole  == nr_txn_update_apdex_if_key_txn(terms, app.key_apdex)
<1>1. GoesOn(t, frozen) /\ GoesOn(t, t)
  BY GoesOnField, OtherFields
<1>2. ASSUME NEW u, IsTxn(u), NEW r
      PROVE  /\ GoesOn(u, nr_txn_apply_url_rules(u, r)) /\ GoesOn(u, nr_txn_apply_txn_rules(u, r))
             /\ GoesOn(u, nr_txn_apply_segment_terms(u, r))
  BY <1>2, GoesOnField, OtherFields DEF nr_txn_apply_url_rules, nr_txn_apply_txn_rules, nr_txn_apply_segment_terms
<1>3. ASSUME NEW u, IsTxn(u), NEW r PROVE GoesOn(u, nr_txn_update_apdex_if_key_txn(u, r))
  BY <1>3 DEF nr_txn_update_apdex_if_key_txn, GoesOn, IsTxn, OptFields, TxnFields
<1>4. nr_txn_freeze_name_update_apdex(t, app).t \in {t, frozen, ruled, named, whole}
  BY DEF nr_txn_freeze_name_update_apdex
<1>5. GoesOn(t, ruled)
  <2> HIDE DEF frozen
  <2> QED
    BY <1>1, <1>2, GoesOnThen
<1> HIDE DEF frozen, ruled
<1>6. GoesOn(t, name)
  BY <1>5, GoesOnThen, GoesOnField, OtherFields
<1> HIDE DEF name
<1>7. GoesOn(t, named)
  BY <1>2, <1>6, GoesOnThen
<1> HIDE DEF named
<1>8. GoesOn(t, terms)
  BY <1>2, <1>7, GoesOnThen
<1> HIDE DEF terms
<1>9. GoesOn(t, whole)
  BY <1>3, <1>8, GoesOnThen
<1> HIDE DEF whole
<1> QED
  BY <1>1, <1>4, <1>5, <1>7, <1>9

(* nr_txn_end: over, and not recording.                                    *)
LEMMA EndCeases ==
  ASSUME NEW t, Ceased(t), NEW app, NEW u, u = nr_txn_end(t, app, 1).t PROVE Ceased(u)
<1> DEFINE over  == [t EXCEPT !.complete = TRUE, !.recording = FALSE]
           f     == nr_txn_freeze_name_update_apdex(over, app).t
           rolls == nr_txn_create_rollup_metrics(f)
           times == nr_txn_create_duration_metrics(rolls)
           sums  == nr_txn_create_queue_metric(times)
           apdex == IF nr_txn_should_create_apdex_metrics(sums)
                    THEN nr_txn_create_apdex_metrics(sums, 1) ELSE sums
           errors == nr_txn_create_error_metrics(apdex)
           attrs == nr_txn_add_error_attributes(errors)
<1>1. u \in {t, over, f, apdex, attrs}
  BY DEF nr_txn_end, nr_txn_handle_total_time
<1>2. IsTxn(over) /\ over.complete = TRUE /\ over.recording = FALSE
  BY DEF Ceased, IsTxn, TxnFields
<1> HIDE DEF over
<1>3. GoesOn(over, f) /\ GoesOn(over, over)
  BY <1>2, GoesOnFreeze DEF GoesOn
<1> HIDE DEF f
<1>4. ASSUME NEW x, IsTxn(x)
      PROVE  /\ GoesOn(x, nr_txn_create_rollup_metrics(x)) /\ GoesOn(x, nr_txn_create_queue_metric(x))
             /\ GoesOn(x, nr_txn_create_apdex_metrics(x, 1)) /\ GoesOn(x, nr_txn_add_error_attributes(x))
  BY <1>4, GoesOnMetrics DEF GoesOn, nr_txn_create_rollup_metrics, nr_txn_create_queue_metric,
                             nr_txn_create_apdex_metrics, nr_txn_add_error_attributes
<1>5. ASSUME NEW x, IsTxn(x)
      PROVE  /\ GoesOn(x, nr_txn_create_duration_metrics(x)) /\ GoesOn(x, nr_txn_create_error_metrics(x))
  <2>1. PICK S : \/ nr_txn_create_duration_metrics(x) = AddMetrics(x, S)
                 \/ nr_txn_create_duration_metrics(x) = nr_txn_create_dt_metrics(AddMetrics(x, S), "DurationByCaller")
    BY Zenon DEF nr_txn_create_duration_metrics
  <2>2. PICK R : \/ nr_txn_create_error_metrics(x) = x
                 \/ nr_txn_create_error_metrics(x) = AddMetrics(x, R)
                 \/ nr_txn_create_error_metrics(x) = nr_txn_create_dt_metrics(AddMetrics(x, R), "ErrorsByCaller")
    BY Zenon DEF nr_txn_create_error_metrics
  <2> DEFINE d == AddMetrics(x, S)
             e == AddMetrics(x, R)
  <2>3. GoesOn(x, d) /\ GoesOn(x, e) /\ GoesOn(x, x)
    BY <1>5, GoesOnMetrics DEF GoesOn
  <2>4. /\ nr_txn_create_duration_metrics(x) \in {d, nr_txn_create_dt_metrics(d, "DurationByCaller")}
        /\ nr_txn_create_error_metrics(x) \in {x, e, nr_txn_create_dt_metrics(e, "ErrorsByCaller")}
    BY <2>1, <2>2
  <2> HIDE DEF d, e
  <2> QED
    BY <2>3, <2>4, GoesOnThen, GoesOnMetrics
<1>6. GoesOn(over, rolls)
  BY <1>3, <1>4, GoesOnThen
<1> HIDE DEF rolls
<1>7. GoesOn(over, times)
  BY <1>5, <1>6, GoesOnThen
<1> HIDE DEF times
<1>8. GoesOn(over, sums)
  BY <1>4, <1>7, GoesOnThen
<1> HIDE DEF sums
<1>9. GoesOn(over, apdex)
  BY <1>4, <1>8, GoesOnThen
<1> HIDE DEF apdex
<1>10. GoesOn(over, errors)
  BY <1>5, <1>9, GoesOnThen
<1> HIDE DEF errors
<1>11. GoesOn(over, attrs)
  BY <1>4, <1>10, GoesOnThen
<1> HIDE DEF attrs
<1> QED
  BY <1>1, <1>2, <1>3, <1>9, <1>11 DEF GoesOn, Ceased

(* While a transaction is recording none is over.                          *)
LEMMA WorksAnswers ==
  ASSUME NEW a, Between(a), IsRecording(a), NEW r, Works(a, r) PROVE Answers(a, r)
<1>1. a.over = NULL
  BY DEF Between, IsRecording, Ceased
<1> QED
  BY <1>1 DEF Works, Answers, Between

(* Outside of a transaction a function only answers.                       *)
LEMMA RefusedAnswers ==
  ASSUME NEW a, Between(a), NEW x PROVE Answers(a, Ret(a, x))
<1>1. /\ DOMAIN Ret(a, x) = ApFields /\ \A f \in ApFields \ {"ret"} : Ret(a, x)[f] = a[f]
  BY DEF Between, Ret
<1> HIDE DEF Ret
<1> QED
  BY <1>1 DEF Answers, Between, ApFields, ApKept

(* The answer and the rest of a request.                                   *)
LEMMA WorksOn ==
  ASSUME NEW a, NEW b, Works(a, b), NEW x
  PROVE  /\ Works(a, Ret(b, x)) /\ Works(a, nr_php_api_error(b))
         /\ \A f \in {"warnings", "capture", "callback", "tracers", "span", "told"} : Works(a, [b EXCEPT ![f] = x])
<1>1. /\ ApKept \subseteq ApFields /\ {"txn", "sent"} \subseteq ApFields
      /\ \A f \in {"ret", "warnings", "capture", "callback", "tracers", "span", "told"} : f \notin ApKept \union {"txn", "sent"}
  BY DEF ApFields, ApKept
<1>2. ASSUME NEW f \in {"ret", "warnings", "capture", "callback", "tracers", "span", "told"}, NEW v
      PROVE  Works(a, [b EXCEPT ![f] = v])
  <2> DEFINE r == [b EXCEPT ![f] = v]
  <2>1. DOMAIN r = ApFields /\ \A g \in ApFields \ {f} : r[g] = b[g]
    BY DEF Works
  <2> HIDE DEF r
  <2>2. r.txn = b.txn /\ r.sent = b.sent /\ \A g \in ApKept : r[g] = b[g]
    BY <1>1, <1>2, <2>1
  <2> QED
    BY <2>1, <2>2 DEF Works, r
<1>3. Works(a, Ret(b, x))
  BY <1>2 DEF Ret
<1>4. Works(a, nr_php_api_error(b))
  BY <1>2 DEF nr_php_api_error
<1> QED
  BY <1>2, <1>3, <1>4

(* Another transaction.                                                    *)
LEMMA WorksWith ==
  ASSUME NEW a, NEW b, Works(a, b), NEW u, Ceased(u)
  PROVE  Works(a, [b EXCEPT !.txn = u])
<1> DEFINE r == [b EXCEPT !.txn = u]
<1>1. ApKept \union {"sent"} \subseteq ApFields \ {"txn"} /\ "txn" \in ApFields
  BY DEF ApFields, ApKept
<1>2. DOMAIN r = ApFields /\ r.txn = u /\ \A g \in ApFields \ {"txn"} : r[g] = b[g]
  BY <1>1 DEF Works
<1> HIDE DEF r
<1>3. Works(a, r)
  BY <1>1, <1>2 DEF Works
<1> QED
  BY <1>3 DEF r

(* A transaction that goes on is one that records, or is not over.         *)
LEMMA GoesOnCeases == ASSUME NEW t, Ceased(t), NEW u, GoesOn(t, u) PROVE Ceased(u)
  BY DEF Ceased, GoesOn

(* A function is counted.                                                  *)
LEMMA CountedWorks ==
  ASSUME NEW a, Between(a), IsRecording(a), NEW name
  PROVE  Works(a, nr_php_api_add_supportability_metric(a, name))
<1> DEFINE S == {<<"Supportability/api", name>>}
<1>1. nr_php_api_add_supportability_metric(a, name) = [a EXCEPT !.txn = AddMetrics(@, S)]
  BY DEF nr_php_api_add_supportability_metric, IsRecording
<1>2. Works(a, a) /\ IsTxn(a.txn) /\ Ceased(a.txn)
  BY DEF Works, Between, IsRecording, Ceased
<1> HIDE DEF S
<1>3. Ceased(AddMetrics(a.txn, S))
  BY <1>2, GoesOnMetrics, GoesOnCeases
<1> QED
  BY <1>1, <1>2, <1>3, WorksWith

(* What a function does to a transaction that is recording.                *)
LEMMA WorksOnTxn ==
  ASSUME NEW a, NEW b, Works(a, b), NEW x, NEW u, GoesOn(b.txn, u)
  PROVE  Works(a, [b EXCEPT !.txn = u]) /\ Works(a, Ret([b EXCEPT !.txn = u], x))
<1>1. Ceased(u)
  BY GoesOnCeases DEF Works
<1> DEFINE r == [b EXCEPT !.txn = u]
<1>2. Works(a, r)
  BY <1>1, WorksWith
<1> HIDE DEF r
<1>3. Works(a, Ret(r, x))
  BY <1>2, WorksOn
<1> QED
  BY <1>2, <1>3 DEF r

(* newrelic_notice_error.                                                  *)
LEMMA NoticeAnswers ==
  ASSUME NEW a, Between(a), NEW args PROVE Answers(a, newrelic_notice_error(a, args))
<1> DEFINE b == nr_php_api_add_supportability_metric(a, "notice_error")
           N(m) == nr_txn_record_error(b.txn, ApiErrorPriority(b), m, "segment")
<1>1. CASE ~IsRecording(a)
  BY <1>1, RefusedAnswers DEF newrelic_notice_error, Counted
<1>2. CASE IsRecording(a)
  <2>1. \/ newrelic_notice_error(a, args) \in {Ret(b, "FALSE"), Ret(b, "NULL")}
        \/ \E m : newrelic_notice_error(a, args) = Ret([b EXCEPT !.txn = N(m)], "TRUE")
    BY <1>2, Zenon DEF newrelic_notice_error, Counted
  <2>2. Works(a, b)
    BY <1>2, CountedWorks
  <2> HIDE DEF b
  <2>3. \A m : GoesOn(b.txn, N(m))
    <3>1. IsTxn(b.txn)
      BY <2>2 DEF Works, Ceased
    <3> QED
      BY <3>1, GoesOnField, OtherFields DEF nr_txn_record_error
  <2> HIDE DEF N
  <2>4. Works(a, newrelic_notice_error(a, args))
    <3>1. \A x : Works(a, Ret(b, x))
      BY <2>2, WorksOn
    <3>2. \A m : Works(a, Ret([b EXCEPT !.txn = N(m)], "TRUE"))
      BY <2>2, <2>3, WorksOnTxn
    <3> QED
      BY <2>1, <3>1, <3>2
  <2> QED
    BY <1>2, <2>4, WorksAnswers
<1> QED
  BY <1>1, <1>2

(* An answer, and one of the fields that stand beside the transaction.     *)
LEMMA WorksOnField ==
  ASSUME NEW a, NEW b, Works(a, b), NEW x, NEW f \in {"warnings", "capture", "callback", "tracers", "span", "told"},
         NEW v
  PROVE  Works(a, Ret([b EXCEPT ![f] = v], x))
<1> DEFINE r == [b EXCEPT ![f] = v]
<1>1. Works(a, r)
  BY WorksOn
<1> HIDE DEF r
<1>2. Works(a, Ret(r, x))
  BY <1>1, WorksOn
<1> QED
  BY <1>2 DEF r

(* A metric of one name.                                                   *)
LEMMA GoesOnCount ==
  ASSUME NEW t, IsTxn(t), NEW m PROVE GoesOn(t, nr_txn_force_single_count(t, m))
  BY GoesOnField, OtherFields DEF nr_txn_force_single_count

(* An option.                                                              *)
LEMMA GoesOnOption ==
  ASSUME NEW t, IsTxn(t), NEW f, NEW v PROVE GoesOn(t, [t EXCEPT !.opts[f] = v])
  BY DEF GoesOn, IsTxn, TxnFields

(* The path.                                                               *)
LEMMA GoesOnPath ==
  ASSUME NEW t, IsTxn(t), NEW path, NEW ptype, NEW ok PROVE GoesOn(t, nr_txn_set_path(t, path, ptype, ok))
<1>1. {"complete", "recording", "opts"} \subseteq TxnFields \ {"path_type", "path"}
  BY DEF TxnFields
<1>2. Frame({"complete", "recording", "opts"}, t, nr_txn_set_path(t, path, ptype, ok))
  BY <1>1, FramePath
<1> QED
  BY <1>2 DEF Frame, GoesOn

(* newrelic_ignore_apdex.                                                  *)
LEMMA IgnoreApdexAnswers ==
  ASSUME NEW a, Between(a) PROVE Answers(a, newrelic_ignore_apdex(a))
<1> DEFINE b == nr_php_api_add_supportability_metric(a, "ignore_apdex")
           u == [b.txn EXCEPT !.ignore_apdex = TRUE]
<1>1. CASE ~IsRecording(a)
  BY <1>1, RefusedAnswers DEF newrelic_ignore_apdex, Counted
<1>2. CASE IsRecording(a)
  <2>1. Works(a, b)
    BY <1>2, CountedWorks
  <2>2. newrelic_ignore_apdex(a) = Ret([b EXCEPT !.txn = u], "NULL")
    BY <1>2 DEF newrelic_ignore_apdex, Counted
  <2> HIDE DEF b
  <2>3. GoesOn(b.txn, u)
    <3>1. IsTxn(b.txn)
      BY <2>1 DEF Works, Ceased
    <3> QED
      BY <3>1, GoesOnField, OtherFields
  <2> HIDE DEF u
  <2>4. \A x : Works(a, Ret([b EXCEPT !.txn = u], x))
    BY <2>1, <2>3, WorksOnTxn
  <2>5. Works(a, newrelic_ignore_apdex(a))
    BY <2>2, <2>4
  <2> QED
    BY <1>2, <2>5, WorksAnswers
<1> QED
  BY <1>1, <1>2

(* newrelic_background_job.                                                *)
LEMMA BackgroundAnswers ==
  ASSUME NEW a, Between(a), NEW args PROVE Answers(a, newrelic_background_job(a, args))
<1> DEFINE b == nr_php_api_add_supportability_metric(a, "background_job")
           u == nr_txn_change_background_status(b.txn, FlagOf(args))
<1>1. CASE ~IsRecording(a)
  BY <1>1, RefusedAnswers DEF newrelic_background_job, Counted
<1>2. CASE IsRecording(a)
  <2>1. Works(a, b)
    BY <1>2, CountedWorks
  <2>2. newrelic_background_job(a, args) = Ret([b EXCEPT !.txn = u], "NULL")
    BY <1>2 DEF newrelic_background_job, Counted
  <2> HIDE DEF b
  <2>3. GoesOn(b.txn, u)
    <3>1. IsTxn(b.txn)
      BY <2>1 DEF Works, Ceased
    <3> QED
      BY <3>1, GoesOnCount, GoesOnField, OtherFields DEF nr_txn_change_background_status
  <2> HIDE DEF u
  <2>4. \A x : Works(a, Ret([b EXCEPT !.txn = u], x))
    BY <2>1, <2>3, WorksOnTxn
  <2>5. Works(a, newrelic_background_job(a, args))
    BY <2>2, <2>4
  <2> QED
    BY <1>2, <2>5, WorksAnswers
<1> QED
  BY <1>1, <1>2

(* newrelic_disable_autorum.                                               *)
LEMMA AutorumAnswers ==
  ASSUME NEW a, Between(a) PROVE Answers(a, newrelic_disable_autorum(a))
<1> DEFINE b == nr_php_api_add_supportability_metric(a, "disable_autorum")
           u == [b.txn EXCEPT !.opts.autorum = FALSE]
<1>1. CASE ~IsRecording(a)
  BY <1>1, RefusedAnswers DEF newrelic_disable_autorum, Counted
<1>2. CASE IsRecording(a)
  <2>1. Works(a, b)
    BY <1>2, CountedWorks
  <2>2. newrelic_disable_autorum(a) = Ret([b EXCEPT !.txn = u], "TRUE")
    BY <1>2 DEF newrelic_disable_autorum, Counted
  <2> HIDE DEF b
  <2>3. GoesOn(b.txn, u)
    <3>1. IsTxn(b.txn)
      BY <2>1 DEF Works, Ceased
    <3> QED
      BY <3>1, GoesOnOption
  <2> HIDE DEF u
  <2>4. \A x : Works(a, Ret([b EXCEPT !.txn = u], x))
    BY <2>1, <2>3, WorksOnTxn
  <2>5. Works(a, newrelic_disable_autorum(a))
    BY <2>2, <2>4
  <2> QED
    BY <1>2, <2>5, WorksAnswers
<1> QED
  BY <1>1, <1>2

(* newrelic_capture_params.                                                *)
LEMMA CaptureAnswers ==
  ASSUME NEW a, Between(a), NEW args PROVE Answers(a, newrelic_capture_params(a, args))
<1> DEFINE b == nr_php_api_add_supportability_metric(a, "capture_params")
<1>1. CASE ~IsRecording(a)
  BY <1>1, RefusedAnswers DEF newrelic_capture_params, Counted, nr_php_api_capture_params_internal
<1>2. CASE IsRecording(a)
  <2>1. Works(a, b)
    BY <1>2, CountedWorks
  <2>2. newrelic_capture_params(a, args) = Ret([b EXCEPT !.capture = FlagOf(args)], "NULL")
    BY <1>2 DEF newrelic_capture_params, Counted, nr_php_api_capture_params_internal
  <2> HIDE DEF b
  <2>3. Works(a, Ret([b EXCEPT !.capture = FlagOf(args)], "NULL"))
    BY <2>1, WorksOnField
  <2>4. Works(a, newrelic_capture_params(a, args))
    BY <2>2, <2>3
  <2> QED
    BY <1>2, <2>4, WorksAnswers
<1> QED
  BY <1>1, <1>2

(* newrelic_enable_params.                                                 *)
LEMMA EnableAnswers ==
  ASSUME NEW a, Between(a), NEW args PROVE Answers(a, newrelic_enable_params(a, args))
<1> DEFINE b == nr_php_api_add_supportability_metric(a, "enable_params")
<1>1. CASE ~IsRecording(a)
  BY <1>1, RefusedAnswers DEF newrelic_enable_params, Counted, nr_php_api_capture_params_internal
<1>2. CASE IsRecording(a)
  <2>1. Works(a, b)
    BY <1>2, CountedWorks
  <2>2. newrelic_enable_params(a, args) = Ret([b EXCEPT !.capture = FlagOf(args)], "NULL")
    BY <1>2 DEF newrelic_enable_params, Counted, nr_php_api_capture_params_internal
  <2> HIDE DEF b
  <2>3. Works(a, Ret([b EXCEPT !.capture = FlagOf(args)], "NULL"))
    BY <2>1, WorksOnField
  <2>4. Works(a, newrelic_enable_params(a, args))
    BY <2>2, <2>3
  <2> QED
    BY <1>2, <2>4, WorksAnswers
<1> QED
  BY <1>1, <1>2

(* newrelic_custom_metric.                                                 *)
LEMMA MetricAnswers ==
  ASSUME NEW a, Between(a), NEW args PROVE Answers(a, newrelic_custom_metric(a, args))
<1> DEFINE b == nr_php_api_add_supportability_metric(a, "custom_metric")
           u == nr_txn_add_custom_metric(b.txn, args[1].v, args[2].v)
<1>1. CASE ~IsRecording(a)
  BY <1>1, RefusedAnswers DEF newrelic_custom_metric, Counted
<1>2. CASE IsRecording(a)
  <2>1. Works(a, b)
    BY <1>2, CountedWorks
  <2>2. \/ newrelic_custom_metric(a, args) = Ret(b, "FALSE")
        \/ newrelic_custom_metric(a, args) = Ret([b EXCEPT !.txn = u], "TRUE")
    BY <1>2 DEF newrelic_custom_metric, Counted
  <2> HIDE DEF b
  <2>3. GoesOn(b.txn, u)
    <3>1. IsTxn(b.txn)
      BY <2>1 DEF Works, Ceased
    <3> QED
      BY <3>1, GoesOnMetrics, GoesOnField, OtherFields DEF nr_txn_add_custom_metric
  <2> HIDE DEF u
  <2>4. \A x : Works(a, Ret([b EXCEPT !.txn = u], x))
    BY <2>1, <2>3, WorksOnTxn
  <2>5. \A x : Works(a, Ret(b, x))
    BY <2>1, WorksOn
  <2>6. Works(a, newrelic_custom_metric(a, args))
    BY <2>2, <2>4, <2>5
  <2> QED
    BY <1>2, <2>6, WorksAnswers
<1> QED
  BY <1>1, <1>2

(* newrelic_set_user_id.                                                   *)
LEMMA UserIdAnswers ==
  ASSUME NEW a, Between(a), NEW args PROVE Answers(a, newrelic_set_user_id(a, args))
<1> DEFINE b == nr_php_api_add_supportability_metric(a, "set_user_id")
           u == [b.txn EXCEPT !.attrs = @ \union {[name |-> <<"enduser.id">>, dests |-> {"event", "trace", "error", "span"}]}]
<1>1. CASE ~IsRecording(a)
  BY <1>1, RefusedAnswers DEF newrelic_set_user_id, Counted
<1>2. CASE IsRecording(a)
  <2>1. Works(a, b)
    BY <1>2, CountedWorks
  <2>2. \/ newrelic_set_user_id(a, args) = Ret(b, "FALSE")
        \/ newrelic_set_user_id(a, args) = Ret([b EXCEPT !.txn = u], "TRUE")
    BY <1>2 DEF newrelic_set_user_id, Counted
  <2> HIDE DEF b
  <2>3. GoesOn(b.txn, u)
    <3>1. IsTxn(b.txn)
      BY <2>1 DEF Works, Ceased
    <3> QED
      BY <3>1, GoesOnField, OtherFields
  <2> HIDE DEF u
  <2>4. \A x : Works(a, Ret([b EXCEPT !.txn = u], x))
    BY <2>1, <2>3, WorksOnTxn
  <2>5. \A x : Works(a, Ret(b, x))
    BY <2>1, WorksOn
  <2>6. Works(a, newrelic_set_user_id(a, args))
    BY <2>2, <2>4, <2>5
  <2> QED
    BY <1>2, <2>6, WorksAnswers
<1> QED
  BY <1>1, <1>2

(* newrelic_add_custom_tracer.                                             *)
LEMMA TracerAnswers ==
  ASSUME NEW a, Between(a), NEW args PROVE Answers(a, newrelic_add_custom_tracer(a, args))
<1> DEFINE b == nr_php_api_add_supportability_metric(a, "add_custom_tracer")
<1>1. CASE ~IsRecording(a)
  BY <1>1, RefusedAnswers DEF newrelic_add_custom_tracer, Counted
<1>2. CASE IsRecording(a)
  <2>1. Works(a, b)
    BY <1>2, CountedWorks
  <2>2. \/ newrelic_add_custom_tracer(a, args) = Ret(b, "FALSE")
        \/ newrelic_add_custom_tracer(a, args) = Ret([b EXCEPT !.tracers = @ \union {args[1].v}], "TRUE")
    BY <1>2 DEF newrelic_add_custom_tracer, Counted
  <2> HIDE DEF b
  <2>3. Works(a, Ret([b EXCEPT !.tracers = @ \union {args[1].v}], "TRUE"))
    BY <2>1, WorksOnField
  <2>4. \A x : Works(a, Ret(b, x))
    BY <2>1, WorksOn
  <2>5. Works(a, newrelic_add_custom_tracer(a, args))
    BY <2>2, <2>3, <2>4
  <2> QED
    BY <1>2, <2>5, WorksAnswers
<1> QED
  BY <1>1, <1>2

(* newrelic_is_sampled.                                                    *)
LEMMA SampledAnswers ==
  ASSUME NEW a, Between(a) PROVE Answers(a, newrelic_is_sampled(a))
<1> DEFINE b == nr_php_api_add_supportability_metric(a, "is_sampled")
<1>1. CASE ~IsRecording(a)
  BY <1>1, RefusedAnswers DEF newrelic_is_sampled, Counted
<1>2. CASE IsRecording(a)
  <2>1. Works(a, b)
    BY <1>2, CountedWorks
  <2>2. \/ newrelic_is_sampled(a) = Ret(b, "TRUE")
        \/ newrelic_is_sampled(a) = Ret(b, "FALSE")
    BY <1>2 DEF newrelic_is_sampled, Counted
  <2> HIDE DEF b
  <2>3. \A x : Works(a, Ret(b, x))
    BY <2>1, WorksOn
  <2>4. Works(a, newrelic_is_sampled(a))
    BY <2>2, <2>3
  <2> QED
    BY <1>2, <2>4, WorksAnswers
<1> QED
  BY <1>1, <1>2

(* newrelic_name_transaction.                                              *)
LEMMA NameAnswers ==
  ASSUME NEW a, Between(a), NEW args PROVE Answers(a, newrelic_name_transaction(a, args))
<1> DEFINE b == nr_php_api_add_supportability_metric(a, "name_transaction")
           u == nr_txn_set_path(b.txn, <<args[1].v>>, "CUSTOM", TRUE)
<1>1. CASE ~IsRecording(a)
  BY <1>1, RefusedAnswers DEF newrelic_name_transaction, Counted
<1>2. CASE IsRecording(a)
  <2>1. Works(a, b)
    BY <1>2, CountedWorks
  <2>2. \/ newrelic_name_transaction(a, args) = Ret(b, "FALSE")
        \/ newrelic_name_transaction(a, args) = Ret([b EXCEPT !.txn = u], "TRUE")
    BY <1>2 DEF newrelic_name_transaction, Counted
  <2> HIDE DEF b
  <2>3. GoesOn(b.txn, u)
    <3>1. IsTxn(b.txn)
      BY <2>1 DEF Works, Ceased
    <3> QED
      BY <3>1, GoesOnPath, Zenon
  <2> HIDE DEF u
  <2>4. \A x : Works(a, Ret([b EXCEPT !.txn = u], x))
    BY <2>1, <2>3, WorksOnTxn
  <2>5. \A x : Works(a, Ret(b, x))
    BY <2>1, WorksOn
  <2>6. Works(a, newrelic_name_transaction(a, args))
    BY <2>2, <2>4, <2>5
  <2> QED
    BY <1>2, <2>6, WorksAnswers
<1> QED
  BY <1>1, <1>2

(* What a browser is given.                                                *)
LEMMA BrowserAnswers ==
  ASSUME NEW a, Between(a)
  PROVE  Answers(a, newrelic_get_browser_timing_header(a)) /\ Answers(a, newrelic_get_browser_timing_footer(a))
<1> DEFINE H == nr_php_api_add_supportability_metric(a, "get_browser_timing_header")
           F == nr_php_api_add_supportability_metric(a, "get_browser_timing_footer")
           h == newrelic_get_browser_timing_header(a)
           f == newrelic_get_browser_timing_footer(a)
<1>1. CASE ~IsRecording(a)
  BY <1>1, RefusedAnswers DEF newrelic_get_browser_timing_header, newrelic_get_browser_timing_footer, Counted
<1>2. CASE IsRecording(a)
  <2>1. PICK o : /\ h = BrowserTimingOf(H, nr_rum_produce_header(H.txn, H.conn, o))
                 /\ f = BrowserTimingOf(F, nr_rum_produce_footer(F.txn, F.conn, o))
    BY <1>2, Zenon DEF newrelic_get_browser_timing_header, newrelic_get_browser_timing_footer, Counted
  <2>2. Works(a, H) /\ Works(a, F)
    BY <1>2, CountedWorks
  <2> DEFINE u == nr_rum_produce_header(H.txn, H.conn, o).t
             v == nr_rum_produce_footer(F.txn, F.conn, o).t
  <2>3. \E x, y : h = Ret([H EXCEPT !.txn = u], x) /\ f = Ret([F EXCEPT !.txn = v], y)
    BY <2>1, Zenon DEF BrowserTimingOf
  <2> HIDE DEF H, F, h, f
  <2>4. GoesOn(H.txn, u)
    <3>1. IsTxn(H.txn)
      BY <2>2 DEF Works, Ceased
    <3>2. u = H.txn \/ u = [H.txn EXCEPT !.rum_header = Producer(o)]
      BY DEF nr_rum_produce_header
    <3> QED
      BY <3>1, <3>2, GoesOnField, OtherFields
  <2>5. GoesOn(F.txn, v)
    <3>1. IsTxn(F.txn)
      BY <2>2 DEF Works, Ceased
    <3> DEFINE w == nr_txn_freeze_name_update_apdex(F.txn, F.conn).t
    <3>2. v = F.txn \/ v = w \/ v = [w EXCEPT !.rum_footer = Producer(o)]
      BY DEF nr_rum_produce_footer
    <3>3. GoesOn(F.txn, w)
      BY <3>1, GoesOnFreeze
    <3> HIDE DEF w
    <3>4. GoesOn(w, [w EXCEPT !.rum_footer = Producer(o)]) /\ GoesOn(F.txn, F.txn)
      BY <3>1, <3>3, GoesOnThen, GoesOnField, OtherFields
    <3> QED
      BY <3>2, <3>3, <3>4, GoesOnThen
  <2> HIDE DEF u, v
  <2>6. /\ \A x : Works(a, Ret([H EXCEPT !.txn = u], x))
        /\ \A y : Works(a, Ret([F EXCEPT !.txn = v], y))
    BY <2>2, <2>4, <2>5, WorksOnTxn
  <2>7. Works(a, h) /\ Works(a, f)
    BY <2>3, <2>6
  <2> QED
    BY <1>2, <2>7, WorksAnswers DEF h, f
<1> QED
  BY <1>1, <1>2

(* A custom parameter is taken, or refused.                                *)
LEMMA ParameterWorks ==
  ASSUME NEW a, NEW b, Works(a, b), NEW key, NEW value
  PROVE  /\ Works(a, AddUserParameter(b, key, value))
         /\ Works(a, nr_php_api_add_custom_parameter_string(b, key, value))
<1> DEFINE u == nr_txn_add_user_custom_parameter(b.txn, key)
<1>1. IsTxn(b.txn)
  BY DEF Works, Ceased
<1>2. GoesOn(b.txn, u)
  BY <1>1, GoesOnField, OtherFields DEF nr_txn_add_user_custom_parameter
<1>3. \/ AddUserParameter(b, key, value) = Ret(b, "FALSE")
      \/ AddUserParameter(b, key, value) = Ret([b EXCEPT !.txn = u], "TRUE")
  BY DEF AddUserParameter
<1> HIDE DEF u
<1>4. Works(a, Ret([b EXCEPT !.txn = u], "TRUE")) /\ Works(a, Ret(b, "FALSE")) /\ Works(a, Ret(b, "TRUE"))
  BY <1>2, WorksOn, WorksOnTxn
<1>5. Works(a, AddUserParameter(b, key, value))
  BY <1>3, <1>4
<1> QED
  BY <1>4, <1>5 DEF nr_php_api_add_custom_parameter_string

(* newrelic_add_custom_parameter.                                          *)
LEMMA ParameterAnswers ==
  ASSUME NEW a, Between(a), NEW args PROVE Answers(a, newrelic_add_custom_parameter(a, args))
<1> DEFINE b == nr_php_api_add_supportability_metric(a, "add_custom_parameter")
           r == newrelic_add_custom_parameter(a, args)
<1>1. CASE ~IsRecording(a)
  BY <1>1, RefusedAnswers DEF newrelic_add_custom_parameter, Counted
<1>2. CASE IsRecording(a)
  <2>1. Works(a, b)
    BY <1>2, CountedWorks
  <2> DEFINE value == nr_php_api_zval_to_attribute_obj(b, args[2])
  <2>2. \/ r = Ret(b, "FALSE") \/ r = Ret(value.a, "TRUE")
        \/ \E k, v : r = AddUserParameter(b, k, v)
    BY <1>2, Zenon DEF newrelic_add_custom_parameter, Counted
  <2>3. value.a = b \/ value.a = nr_php_api_error(b)
    BY DEF nr_php_api_zval_to_attribute_obj
  <2> HIDE DEF b, r, value
  <2>4. Works(a, value.a)
    BY <2>1, <2>3, WorksOn
  <2>5. Works(a, Ret(b, "FALSE")) /\ Works(a, Ret(value.a, "TRUE"))
    BY <2>1, <2>4, WorksOn
  <2>6. Works(a, r)
    BY <2>1, <2>2, <2>5, ParameterWorks
  <2> QED
    BY <1>2, <2>6, WorksAnswers DEF r
<1> QED
  BY <1>1, <1>2

(* newrelic_set_user_attributes: three of them, one after the other.       *)
LEMMA UserAnswers ==
  ASSUME NEW a, Between(a), NEW args PROVE Answers(a, newrelic_set_user_attributes(a, args))
<1> DEFINE b == nr_php_api_add_supportability_metric(a, "set_user_attributes")
           Add(c, i) == IF c.ret = "FALSE" THEN c
                        ELSE nr_php_api_add_custom_parameter_string(c,
                               <<"user", "account", "product">>[i], args[i].v)
           r == newrelic_set_user_attributes(a, args)
<1>1. CASE ~IsRecording(a)
  BY <1>1, RefusedAnswers DEF newrelic_set_user_attributes, Counted
<1>2. CASE IsRecording(a)
  <2>1. Works(a, b)
    BY <1>2, CountedWorks
  <2>2. r = Ret(b, "FALSE") \/ r = Add(Add(Add(Ret(b, "TRUE"), 1), 2), 3)
    BY <1>2, Zenon DEF newrelic_set_user_attributes, Counted
  <2>3. Works(a, Ret(b, "FALSE")) /\ Works(a, Ret(b, "TRUE"))
    BY <2>1, WorksOn
  <2>4. ASSUME NEW c, Works(a, c), NEW i PROVE Works(a, Add(c, i))
    BY <2>4, ParameterWorks
  <2> HIDE DEF b, r, Add
  <2>5. Works(a, Add(Ret(b, "TRUE"), 1))
    BY <2>3, <2>4
  <2>6. Works(a, Add(Add(Ret(b, "TRUE"), 1), 2))
    BY <2>4, <2>5
  <2>7. Works(a, Add(Add(Add(Ret(b, "TRUE"), 1), 2), 3))
    BY <2>4, <2>6
  <2>8. Works(a, r)
    BY <2>2, <2>3, <2>7
  <2> QED
    BY <1>2, <2>8, WorksAnswers DEF r
<1> QED
  BY <1>1, <1>2

(* newrelic_add_custom_span_parameter.                                     *)
LEMMA SpanAnswers ==
  ASSUME NEW a, Between(a), NEW args PROVE Answers(a, newrelic_add_custom_span_parameter(a, args))
<1> DEFINE b == nr_php_api_add_supportability_metric(a, "add_custom_span_parameter")
           r == newrelic_add_custom_span_parameter(a, args)
<1>1. CASE ~IsRecording(a)
  BY <1>1, RefusedAnswers DEF newrelic_add_custom_span_parameter, Counted
<1>2. CASE IsRecording(a)
  <2>1. Works(a, b)
    BY <1>2, CountedWorks
  <2> DEFINE value == nr_php_api_zval_to_attribute_obj(b, args[2])
  <2>2. \/ r = Ret(b, "FALSE") \/ r = Ret(value.a, "FALSE")
        \/ r = Ret([value.a EXCEPT !.span = @ \union {args[1].v}], "TRUE")
    BY <1>2 DEF newrelic_add_custom_span_parameter, Counted, nr_php_api_add_custom_span_attribute
  <2>3. value.a = b \/ value.a = nr_php_api_error(b)
    BY DEF nr_php_api_zval_to_attribute_obj
  <2> HIDE DEF b, r, value
  <2>4. Works(a, value.a)
    BY <2>1, <2>3, WorksOn
  <2>5. Works(a, Ret(b, "FALSE")) /\ Works(a, Ret(value.a, "FALSE"))
    BY <2>1, <2>4, WorksOn
  <2>6. Works(a, Ret([value.a EXCEPT !.span = @ \union {args[1].v}], "TRUE"))
    BY <2>4, WorksOnField
  <2>7. Works(a, r)
    BY <2>2, <2>5, <2>6
  <2> QED
    BY <1>2, <2>7, WorksAnswers DEF r
<1> QED
  BY <1>1, <1>2

(* newrelic_record_custom_event.                                           *)
LEMMA EventAnswers ==
  ASSUME NEW a, Between(a), NEW args PROVE Answers(a, newrelic_record_custom_event(a, args))
<1> DEFINE b == nr_php_api_add_supportability_metric(a, "record_custom_event")
           r == newrelic_record_custom_event(a, args)
<1>1. CASE ~IsRecording(a) \/ (IsRecording(a) /\ ~a.txn.opts.custom_events)
  <2>1. r = Ret(a, "NULL")
    BY <1>1, Zenon DEF newrelic_record_custom_event, Counted
  <2> QED
    BY <2>1, RefusedAnswers
<1>2. CASE IsRecording(a) /\ a.txn.opts.custom_events
  <2>1. Works(a, b)
    BY <1>2, CountedWorks
  <2> DEFINE c == nr_php_api_transform_custom_events_attributes(b, args[2].elements)
             u == nr_txn_record_custom_event(c.txn)
  <2>2. \/ r = Ret(b, "NULL") \/ r = Ret(nr_php_api_error(b), "NULL")
        \/ r = Ret([c EXCEPT !.txn = u], "NULL")
    BY <1>2, Zenon DEF newrelic_record_custom_event, Counted
  <2>3. PICK n : c = [b EXCEPT !.warnings = n]
    BY Zenon DEF nr_php_api_transform_custom_events_attributes
  <2> HIDE DEF b, r, c
  <2>4. Works(a, c)
    BY <2>1, <2>3, WorksOn
  <2>5. GoesOn(c.txn, u)
    <3>1. IsTxn(c.txn)
      BY <2>4 DEF Works, Ceased
    <3> QED
      BY <3>1, GoesOnField, OtherFields DEF nr_txn_record_custom_event
  <2> HIDE DEF u
  <2>6. Works(a, Ret([c EXCEPT !.txn = u], "NULL"))
    BY <2>4, <2>5, WorksOnTxn
  <2>7. Works(a, Ret(b, "NULL")) /\ Works(a, nr_php_api_error(b))
    BY <2>1, WorksOn
  <2>8. Works(a, Ret(nr_php_api_error(b), "NULL"))
    BY <2>7, WorksOn
  <2>9. Works(a, r)
    BY <2>2, <2>6, <2>7, <2>8
  <2> QED
    BY <1>2, <2>9, WorksAnswers DEF r
<1> QED
  BY <1>1, <1>2

(* newrelic_end_of_transaction: over, and it no longer records.            *)
LEMMA EndOfTransactionAnswers ==
  ASSUME NEW a, Between(a) PROVE Answers(a, newrelic_end_of_transaction(a))
<1> DEFINE b == nr_php_api_add_supportability_metric(a, "end_of_transaction")
           u == nr_txn_end(b.txn, b.conn, 1).t
           r == newrelic_end_of_transaction(a)
<1>1. CASE ~IsRecording(a)
  BY <1>1, RefusedAnswers DEF newrelic_end_of_transaction, Counted
<1>2. CASE IsRecording(a)
  <2>1. Works(a, b)
    BY <1>2, CountedWorks
  <2>2. r = Ret([b EXCEPT !.txn = u], "NULL")
    BY <1>2, Zenon DEF newrelic_end_of_transaction, Counted
  <2> HIDE DEF b, r
  <2>3. Ceased(u)
    BY <2>1, EndCeases DEF Works
  <2> HIDE DEF u
  <2>4. Works(a, [b EXCEPT !.txn = u])
    BY <2>1, <2>3, WorksWith
  <2>5. Works(a, r)
    BY <2>2, <2>4, WorksOn
  <2> QED
    BY <1>2, <2>5, WorksAnswers DEF r
<1> QED
  BY <1>1, <1>2

(* newrelic_ignore_transaction.                                            *)
LEMMA IgnoreAnswers ==
  ASSUME NEW a, Between(a) PROVE Answers(a, newrelic_ignore_transaction(a))
<1> DEFINE u == nr_txn_ignore(a.txn)
           r == newrelic_ignore_transaction(a)
<1>1. CASE ~IsRecording(a)
  BY <1>1, RefusedAnswers DEF newrelic_ignore_transaction
<1>2. CASE IsRecording(a)
  <2>1. Works(a, a)
    BY <1>2 DEF Works, Between, IsRecording
  <2>2. r = Ret([a EXCEPT !.txn = u], "NULL")
    BY <1>2, Zenon DEF newrelic_ignore_transaction
  <2>3. Ceased(u)
    BY <2>1 DEF Works, Ceased, IsTxn, nr_txn_ignore, TxnFields
  <2> HIDE DEF r, u
  <2>4. Works(a, [a EXCEPT !.txn = u])
    BY <2>1, <2>3, WorksWith
  <2>5. Works(a, r)
    BY <2>2, <2>4, WorksOn
  <2> QED
    BY <1>2, <2>5, WorksAnswers DEF r
<1> QED
  BY <1>1, <1>2

---------------------------------------------------------------------------
(* Transactions that are over.                                             *)

(* u says what t says.                                                     *)
SaysAs(t, u) == IsTxn(u) /\ u.complete = t.complete /\ u.ignore = t.ignore /\ Said(u) = Said(t)

(* One step of a chain.                                                    *)
LEMMA SaysAsThen ==
  ASSUME NEW t, NEW u, NEW v, SaysAs(t, u) PROVE IsTxn(u) /\ (SaysAs(u, v) => SaysAs(t, v))
  BY DEF SaysAs

(* The fields an application says something with.                          *)
SaidFields == {"path", "error", "custom_events", "background", "ignore_apdex", "attrs", "metrics"}

(* Said, field by field.                                                   *)
LEMMA SaidIs ==
  ASSUME NEW t, NEW u,
         \A f \in {"path", "error", "custom_events", "background", "ignore_apdex"} : u[f] = t[f],
         {x.name : x \in u.attrs} \intersect SaidNames = {x.name : x \in t.attrs} \intersect SaidNames,
         {m \in u.metrics : m[1] = "Custom"} = {m \in t.metrics : m[1] = "Custom"}
  PROVE  Said(u) = Said(t)
<1>1. /\ u.path = t.path /\ u.error = t.error /\ u.custom_events = t.custom_events
      /\ u.background = t.background /\ u.ignore_apdex = t.ignore_apdex
  OBVIOUS
<1> QED
  BY <1>1, Zenon DEF Said

(* Another field is set.                                                   *)
LEMMA SaysAsField ==
  ASSUME NEW t, IsTxn(t), NEW k \in TxnFields \ (SaidFields \union {"opts", "complete", "ignore"}), NEW e
  PROVE  SaysAs(t, [t EXCEPT ![k] = e]) /\ SaysAs(t, t)
<1> DEFINE u == [t EXCEPT ![k] = e]
<1>1. SaidFields \union {"opts", "complete", "ignore"} \subseteq TxnFields
  BY DEF TxnFields, SaidFields
<1>2. DOMAIN u = TxnFields /\ \A f \in SaidFields \union {"opts", "complete", "ignore"} : u[f] = t[f]
  BY <1>1 DEF IsTxn
<1> HIDE DEF u
<1>3. u.attrs = t.attrs /\ u.metrics = t.metrics
  BY <1>2 DEF SaidFields
<1>4. Said(u) = Said(t)
  BY <1>2, <1>3, SaidIs DEF SaidFields
<1>5. SaysAs(t, u)
  BY <1>2, <1>4 DEF SaysAs, IsTxn
<1> QED
  BY <1>5 DEF SaysAs, u

(* The agent's own metrics.                                                *)
LEMMA SaysAsMetrics ==
  ASSUME NEW t, IsTxn(t), NEW S, \A m \in S : m[1] # "Custom" PROVE SaysAs(t, AddMetrics(t, S))
<1> DEFINE u == AddMetrics(t, S)
<1>1. SaidFields \union {"opts", "complete", "ignore"} \subseteq TxnFields
  BY DEF TxnFields, SaidFields
<1>2. /\ DOMAIN u = TxnFields /\ u.metrics = t.metrics \union S
      /\ \A f \in TxnFields \ {"metrics"} : u[f] = t[f]
  BY <1>1 DEF IsTxn, AddMetrics, SaidFields
<1> HIDE DEF u
<1>3. u.attrs = t.attrs /\ \A f \in {"path", "error", "custom_events", "background", "ignore_apdex"} : u[f] = t[f]
  BY <1>1, <1>2 DEF SaidFields
<1>4. Said(u) = Said(t)
  BY <1>2, <1>3, SaidIs
<1>5. u.opts = t.opts /\ u.complete = t.complete /\ u.ignore = t.ignore
  BY <1>1, <1>2
<1> QED
  BY <1>2, <1>4, <1>5 DEF SaysAs, IsTxn, u

(* The agent's own attributes.                                             *)
LEMMA SaysAsAttributes ==
  ASSUME NEW t, IsTxn(t), NEW A, \A x \in A : x.name \notin SaidNames
  PROVE  SaysAs(t, [t EXCEPT !.attrs = @ \union A])
<1> DEFINE u == [t EXCEPT !.attrs = @ \union A]
<1>1. SaidFields \union {"opts", "complete", "ignore"} \subseteq TxnFields
  BY DEF TxnFields, SaidFields
<1>2. /\ DOMAIN u = TxnFields /\ u.attrs = t.attrs \union A
      /\ \A f \in TxnFields \ {"attrs"} : u[f] = t[f]
  BY <1>1 DEF IsTxn, SaidFields
<1> HIDE DEF u
<1>3. u.metrics = t.metrics /\ \A f \in {"path", "error", "custom_events", "background", "ignore_apdex"} : u[f] = t[f]
  BY <1>1, <1>2 DEF SaidFields
<1>4. {x.name : x \in u.attrs} \intersect SaidNames = {x.name : x \in t.attrs} \intersect SaidNames
  BY <1>2
<1>5. Said(u) = Said(t)
  BY <1>3, <1>4, SaidIs
<1>6. u.opts = t.opts /\ u.complete = t.complete /\ u.ignore = t.ignore
  BY <1>1, <1>2
<1> QED
  BY <1>2, <1>5, <1>6 DEF SaysAs, IsTxn, u

(* The names of the agent's own attributes.                                *)
LEMMA OwnNames ==
  /\ \A x : x # "enduser.id" => <<x>> \notin SaidNames
  /\ \A k : <<"request.parameters", k>> \notin SaidNames
<1> DEFINE K == {"k", "user", "account", "product", "True", "(null)", "(Invalid String)"}
<1>1. SaidNames = {<<"user", k>> : k \in K} \union {<<"enduser.id">>}
  BY Zenon DEF SaidNames
<1> HIDE DEF K
<1> QED
  BY <1>1

(* One of them.                                                            *)
LEMMA SaysAsAttribute ==
  ASSUME NEW t, IsTxn(t), NEW name, name # "enduser.id", NEW value PROVE SaysAs(t, nr_txn_set_attribute(t, name, value))
<1> DEFINE A == {[name |-> <<name>>, dests |-> AttributeDestinations[name]]}
<1>1. \A x \in A : x.name \notin SaidNames
  BY OwnNames
<1>2. nr_txn_set_attribute(t, name, value) = IF value = NULL THEN t ELSE [t EXCEPT !.attrs = @ \union A]
  BY DEF nr_txn_set_attribute
<1> HIDE DEF A
<1>3. SaysAs(t, t)
  BY DEF SaysAs
<1> QED
  BY <1>1, <1>2, <1>3, SaysAsAttributes

(* nr_php_txn_end adds what it knows to a transaction that is over, and    *)
(* nothing the application has said.                                       *)
LEMMA SentAsSaid ==
  ASSUME NEW t, IsTxn(t), t.complete, NEW app, NEW ini, NEW ignoretxn, NEW post,
         NEW r, r = nr_php_txn_end(t, app, ini, DefaultServer, ignoretxn, post), r # NULL
  PROVE  Said(r.t) = Said(t)
<1> DEFINE stopped == [t EXCEPT !.recording = FALSE]
           uri     == nr_txn_set_request_uri(stopped, DefaultServer.uri)
           P(k)    == nr_txn_add_request_parameter(uri, k, ini.capture_params).attrs
           A       == UNION {P(k) : k \in Range(DefaultServer.params)}
           params  == [uri EXCEPT !.attrs = @ \union A]
           shut    == IF post THEN stopped ELSE params
           version == VersionMetrics(shut)
           counted == PackageMetrics(version)
           status  == nr_txn_set_http_status(counted, DefaultServer.code)
           headers == nr_php_txn_set_response_header_attributes(status, DefaultServer)
           last    == nr_php_txn_handle_fpm_error(headers, DefaultServer)
           ended   == nr_txn_end(last, app, 1)
<1>1. r.t = ended.t
  BY DEF nr_php_txn_end, nr_php_txn_do_shutdown, nr_php_capture_request_parameters
<1>0. {"recording", "request_uri"} \subseteq TxnFields \ (SaidFields \union {"opts", "complete", "ignore"})
  BY DEF TxnFields, SaidFields
<1>2. SaysAs(t, stopped)
  BY <1>0, SaysAsField
<1> HIDE DEF stopped
<1>3. SaysAs(t, uri)
  <2> DEFINE v == [stopped EXCEPT !.request_uri = DefaultServer.uri]
  <2>1. uri = stopped \/ uri = nr_txn_set_attribute(v, "request_uri", DefaultServer.uri)
    BY DEF nr_txn_set_request_uri
  <2>2. SaysAs(stopped, v)
    <3>1. IsTxn(stopped)
      BY <1>2 DEF SaysAs
    <3> QED
      BY <1>0, <3>1, SaysAsField
  <2> HIDE DEF v, uri
  <2>3. SaysAs(t, v)
    BY <1>2, <2>2, SaysAsThen
  <2>4. SaysAs(v, nr_txn_set_attribute(v, "request_uri", DefaultServer.uri))
    BY <2>3, SaysAsThen, SaysAsAttribute
  <2> QED
    BY <1>2, <2>1, <2>3, <2>4, SaysAsThen
<1> HIDE DEF uri
<1>4. SaysAs(t, params)
  <2> DEFINE Q(k) == {[name |-> <<"request.parameters", k>>,
                       dests |-> IF ini.capture_params THEN {"trace", "error"} ELSE {}]}
  <2>1. ASSUME NEW k, NEW x \in P(k), x \notin uri.attrs PROVE x.name \notin SaidNames
    <3>1. P(k) = uri.attrs \/ P(k) = [uri EXCEPT !.attrs = @ \union Q(k)].attrs
      BY DEF nr_txn_add_request_parameter
    <3>2. "attrs" \in DOMAIN uri
      BY <1>3 DEF SaysAs, IsTxn, TxnFields
    <3>3. [uri EXCEPT !.attrs = @ \union Q(k)].attrs = uri.attrs \union Q(k)
      BY <3>2
    <3>4. x \in Q(k)
      BY <2>1, <3>1, <3>3
    <3>5. x.name = <<"request.parameters", k>>
      BY <3>4
    <3> QED
      BY <3>5, OwnNames
  <2> DEFINE B == {x \in A : x \notin uri.attrs}
  <2>2. \A x \in B : x.name \notin SaidNames
    BY <2>1
  <2>3. uri.attrs \union A = uri.attrs \union B
    OBVIOUS
  <2>4. params = [uri EXCEPT !.attrs = @ \union B]
    BY <2>3
  <2> HIDE DEF A, B, params
  <2>5. IsTxn(uri)
    BY <1>3 DEF SaysAs
  <2>6. SaysAs(uri, params)
    BY <2>2, <2>4, <2>5, SaysAsAttributes
  <2> QED
    BY <1>3, <2>6, SaysAsThen
<1> HIDE DEF params, A, P
<1>5. SaysAs(t, shut)
  BY <1>2, <1>4
<1> HIDE DEF shut
<1>6. SaysAs(t, version)
  <2> DEFINE S == {<<"PHP/AgentVersion">>, <<"PHP/Version">>}
  <2>1. version = AddMetrics(shut, S) /\ \A m \in S : m[1] # "Custom"
    BY DEF VersionMetrics
  <2> HIDE DEF S, version
  <2> QED
    BY <1>5, <2>1, SaysAsThen, SaysAsMetrics
<1> HIDE DEF version
<1>7. SaysAs(t, counted)
  <2> DEFINE S == {<<"PHP/package", p.name>> : p \in version.packages}
  <2>1. counted = AddMetrics(version, S) /\ \A m \in S : m[1] # "Custom"
    BY DEF PackageMetrics
  <2> HIDE DEF S, counted
  <2> QED
    BY <1>6, <2>1, SaysAsThen, SaysAsMetrics
<1> HIDE DEF counted
<1>8. SaysAs(t, status)
  <2>1. status = counted \/ status = nr_txn_set_attribute(counted, "status_code", DefaultServer.code)
    BY DEF nr_txn_set_http_status
  <2> HIDE DEF status
  <2>2. SaysAs(counted, nr_txn_set_attribute(counted, "status_code", DefaultServer.code))
    BY <1>7, SaysAsThen, SaysAsAttribute
  <2> QED
    BY <1>7, <2>1, <2>2, SaysAsThen
<1> HIDE DEF status
<1>9. SaysAs(t, headers)
  <2>1. headers = status \/ headers = nr_txn_set_attribute(status, "response_headers", DefaultServer.content_type)
    BY DEF nr_php_txn_set_response_header_attributes
  <2> HIDE DEF headers
  <2>2. SaysAs(status, nr_txn_set_attribute(status, "response_headers", DefaultServer.content_type))
    BY <1>8, SaysAsThen, SaysAsAttribute
  <2> QED
    BY <1>8, <2>1, <2>2, SaysAsThen
<1> HIDE DEF headers
<1>10. last = headers
  <2>1. DefaultServer.fpm = FALSE
    BY DEF DefaultServer
  <2> QED
    BY <2>1 DEF nr_php_txn_handle_fpm_error
<1> HIDE DEF last
<1>11. ended.t = last
  <2>1. last.complete
    BY <1>9, <1>10 DEF SaysAs
  <2> QED
    BY <2>1 DEF nr_txn_end
<1> QED
  BY <1>1, <1>9, <1>10, <1>11 DEF SaysAs

(* Between two steps of a function: the answer, a warning, a field beside  *)
(* the transaction.                                                        *)
LEMMA AnswersOn ==
  ASSUME NEW a, NEW b, Answers(a, b), NEW x
  PROVE  /\ Answers(a, Ret(b, x)) /\ Answers(a, nr_php_api_error(b))
         /\ \A f \in {"callback", "told", "app"} : Answers(a, [b EXCEPT ![f] = x])
<1>1. /\ ApKept \subseteq ApFields /\ {"txn", "sent"} \subseteq ApFields
      /\ \A f \in {"ret", "warnings", "callback", "told", "app"} : f \notin ApKept \union {"txn", "sent"}
  BY DEF ApFields, ApKept
<1>2. ASSUME NEW f \in {"ret", "warnings", "callback", "told", "app"}, NEW v
      PROVE  Answers(a, [b EXCEPT ![f] = v])
  <2> DEFINE r == [b EXCEPT ![f] = v]
  <2>1. DOMAIN r = ApFields /\ \A g \in ApFields \ {f} : r[g] = b[g]
    BY DEF Answers
  <2> HIDE DEF r
  <2>2. r.txn = b.txn /\ r.sent = b.sent /\ \A g \in ApKept : r[g] = b[g]
    BY <1>1, <1>2, <2>1
  <2> QED
    BY <2>1, <2>2 DEF Answers, r
<1>3. Answers(a, Ret(b, x))
  BY <1>2 DEF Ret
<1>4. Answers(a, nr_php_api_error(b))
  BY <1>2 DEF nr_php_api_error
<1> QED
  BY <1>2, <1>3, <1>4

(* Functions that count themselves at any time: nothing is said with it.   *)
LEMMA MetricBetween ==
  ASSUME NEW a, Between(a), NEW name, NEW b, b = nr_php_api_add_supportability_metric(a, name)
  PROVE  Between(b) /\ Answers(a, b) /\ b.app = a.app /\ \A f \in ApKept : b[f] = a[f]
<1> DEFINE S == {<<"Supportability/api", name>>}
           u == AddMetrics(a.txn, S)
<1>1. b = a \/ (a.txn # NULL /\ b = [a EXCEPT !.txn = u])
  BY DEF nr_php_api_add_supportability_metric
<1>2. CASE b = a
  BY <1>2 DEF Between, Answers, ApKept, ApFields
<1>3. CASE a.txn # NULL /\ b = [a EXCEPT !.txn = u]
  <2>1. \A m \in S : m[1] # "Custom"
    OBVIOUS
  <2> HIDE DEF S
  <2>2. IsTxn(a.txn) /\ Ceased(a.txn)
    BY <1>3 DEF Between, Ceased
  <2>3. Ceased(u) /\ u.complete = a.txn.complete /\ Said(u) = Said(a.txn)
    <3>1. SaysAs(a.txn, u) /\ GoesOn(a.txn, u)
      BY <2>1, <2>2, SaysAsMetrics, GoesOnMetrics
    <3> QED
      BY <2>2, <3>1, GoesOnCeases DEF SaysAs
  <2> HIDE DEF u
  <2>4. /\ ApKept \union {"sent", "app"} \subseteq ApFields \ {"txn"} /\ "txn" \in ApFields
        /\ {"topic", "conn", "ini", "calls", "over"} \subseteq ApKept
    BY DEF ApFields, ApKept
  <2>5. DOMAIN b = ApFields /\ b.txn = u /\ \A g \in ApFields \ {"txn"} : b[g] = a[g]
    BY <1>3, <2>4 DEF Between
  <2>6. b.sent = a.sent /\ b.app = a.app /\ \A g \in ApKept : b[g] = a[g]
    BY <2>4, <2>5
  <2>7. b.topic = a.topic /\ b.conn = a.conn /\ b.ini = a.ini /\ b.calls = a.calls /\ b.over = a.over
    BY <2>4, <2>6
  <2>8. Answers(a, b)
    BY <1>3, <2>3, <2>5, <2>6 DEF Answers, Between
  <2> QED
    BY <1>3, <2>3, <2>5, <2>6, <2>7, <2>8 DEF Between
<1> QED
  BY <1>1, <1>2, <1>3

(* newrelic_set_error_group_callback, newrelic_get_linking_metadata and    *)
(* newrelic_get_trace_metadata, which ask for no transaction.              *)
LEMMA AskingAnswers ==
  ASSUME NEW a, Between(a), NEW args
  PROVE  /\ Answers(a, newrelic_set_error_group_callback(a, args))
         /\ Answers(a, newrelic_get_linking_metadata(a))
         /\ Answers(a, newrelic_get_trace_metadata(a))
<1>1. ASSUME NEW name PROVE Answers(a, nr_php_api_add_supportability_metric(a, name))
  BY MetricBetween
<1>2. Answers(a, newrelic_set_error_group_callback(a, args))
  <2> DEFINE b == nr_php_api_add_supportability_metric(a, "set_error_group_callback")
             r == newrelic_set_error_group_callback(a, args)
  <2>1. r = Ret(b, "FALSE") \/ \E v : r = Ret([b EXCEPT !.callback = v], "TRUE")
    BY Zenon DEF newrelic_set_error_group_callback
  <2>2. Answers(a, b)
    BY <1>1
  <2> HIDE DEF b, r
  <2>3. \A v : Answers(a, [b EXCEPT !.callback = v])
    BY <2>2, AnswersOn
  <2>4. Answers(a, Ret(b, "FALSE")) /\ \A v : Answers(a, Ret([b EXCEPT !.callback = v], "TRUE"))
    BY <2>2, <2>3, AnswersOn
  <2> QED
    BY <2>1, <2>4 DEF r
<1>3. ASSUME NEW name, NEW v
      PROVE  Answers(a, Ret([nr_php_api_add_supportability_metric(a, name) EXCEPT !.told = v], "array"))
  <2> DEFINE b == nr_php_api_add_supportability_metric(a, name)
             c == [b EXCEPT !.told = v]
  <2>1. Answers(a, b)
    BY <1>1
  <2> HIDE DEF b
  <2>2. Answers(a, c)
    BY <2>1, AnswersOn
  <2> HIDE DEF c
  <2>3. Answers(a, Ret(c, "array"))
    BY <2>2, AnswersOn
  <2> QED
    BY <2>3 DEF b, c
<1>4. /\ \E v : newrelic_get_linking_metadata(a) =
                Ret([nr_php_api_add_supportability_metric(a, "get_linking_metadata") EXCEPT !.told = v], "array")
      /\ \E v : newrelic_get_trace_metadata(a) =
                Ret([nr_php_api_add_supportability_metric(a, "get_trace_metadata") EXCEPT !.told = v], "array")
  BY Zenon DEF newrelic_get_linking_metadata, newrelic_get_trace_metadata
<1> QED
  BY <1>2, <1>3, <1>4

(* The transaction ends, and is sent or not: what was said of one that was *)
(* over is what is sent.                                                   *)
LEMMA SendAnswers ==
  ASSUME NEW a, Between(a), NEW ignoretxn, NEW r, r = SendTransaction(a, ignoretxn)
  PROVE  Answers(a, r) /\ r.txn = NULL
<1> DEFINE ini == [a.ini EXCEPT !.capture_params = a.capture]
           S(post) == nr_php_txn_end(a.txn, a.conn, ini, DefaultServer, ignoretxn, post)
           Over(sent) == [a EXCEPT !.txn = NULL, !.span = {},
                            !.sent = IF sent = NULL THEN @ ELSE Append(@, [t |-> sent.t, app |-> a.app, over |-> a.over])]
<1>1. CASE a.txn = NULL
  <2>1. r = a
    BY <1>1 DEF SendTransaction
  <2> QED
    BY <1>1, <2>1 DEF Answers, Between
<1>2. CASE a.txn # NULL
  <2>1. PICK post : r = Over(S(post))
    BY <1>2, Zenon DEF SendTransaction
  <2> DEFINE s == S(post)
             e == [t |-> s.t, app |-> a.app, over |-> a.over]
             q == IF s = NULL THEN a.sent ELSE Append(a.sent, e)
  <2>2. s # NULL /\ a.over # NULL => Said(s.t) = a.over
    <3> SUFFICES ASSUME s # NULL, a.over # NULL PROVE Said(s.t) = a.over
      OBVIOUS
    <3>1. IsTxn(a.txn) /\ a.txn.complete /\ Said(a.txn) = a.over
      BY DEF Between, Ceased
    <3> QED
      BY <3>1, SentAsSaid
  <2>3. r = [a EXCEPT !.txn = NULL, !.span = {}, !.sent = q]
    BY <2>1
  <2>4. AsSaid(q)
    <3> HIDE DEF s
    <3>1. AsSaid(a.sent)
      BY DEF Between
    <3>2. CASE s = NULL
      BY <3>1, <3>2
    <3>3. CASE s # NULL
      <4>1. PICK V : a.sent \in Seq(V)
        BY <3>1 DEF AsSaid
      <4> DEFINE W == V \union {e}
      <4>2. a.sent \in Seq(W) /\ e \in W
        BY <4>1
      <4>3. e.t = s.t /\ e.over = a.over
        OBVIOUS
      <4> HIDE DEF e, W
      <4>4. /\ q \in Seq(W) /\ Len(q) = Len(a.sent) + 1 /\ q[Len(a.sent) + 1] = e
            /\ \A i \in 1..Len(a.sent) : q[i] = a.sent[i]
        BY <3>3, <4>2
      <4>5. DOMAIN q = 1..(Len(a.sent) + 1) /\ DOMAIN a.sent = 1..Len(a.sent) /\ Len(a.sent) \in Nat
        BY <4>2, <4>4
      <4> HIDE DEF q
      <4>6. ASSUME NEW i \in DOMAIN q, q[i].over # NULL PROVE Said(q[i].t) = q[i].over
        <5>1. CASE i = Len(a.sent) + 1
          BY <2>2, <3>3, <4>3, <4>4, <4>6, <5>1
        <5>2. CASE i \in 1..Len(a.sent)
          BY <3>1, <4>4, <4>5, <4>6, <5>2 DEF AsSaid
        <5> QED
          BY <4>5, <5>1, <5>2
      <4> QED
        BY <4>4, <4>6 DEF AsSaid
    <3> QED
      BY <3>2, <3>3
  <2> HIDE DEF q
  <2>5. /\ ApKept \subseteq ApFields \ {"txn", "span", "sent"} /\ {"txn", "span", "sent"} \subseteq ApFields
    BY DEF ApKept, ApFields
  <2>6. /\ DOMAIN r = ApFields /\ r.txn = NULL /\ r.sent = q
        /\ \A g \in ApFields \ {"txn", "span", "sent"} : r[g] = a[g]
    BY <2>3, <2>5 DEF Between
  <2>7. \A g \in ApKept : r[g] = a[g]
    BY <2>5, <2>6
  <2> QED
    BY <2>4, <2>6, <2>7 DEF Answers
<1> QED
  BY <1>1, <1>2

(* A transaction that goes on.                                             *)
Open(t) == Ceased(t) /\ ~t.complete

(* A transaction that has just begun is not over.                          *)
LEMMA BegunIsOpen ==
  ASSUME NEW app \in ApConns, NEW ini, NEW guid, NEW prio, NEW sampled,
         NEW t, t = nr_php_txn_begin(app, ini, DefaultServer, guid, prio, sampled), t # NULL
  PROVE  Open(t)
<1>1. app.run = 1
  <2>1. PICK v : app = [DefaultApp EXCEPT !.high_security = v]
    BY Zenon DEF ApConns, ApConn
  <2>2. DefaultApp.run = 1 /\ "run" \in DOMAIN DefaultApp
    BY DEF DefaultApp
  <2> HIDE DEF DefaultApp
  <2> QED
    BY <2>1, <2>2
<1>2. Story(t, NoHistory, app)
  BY <1>1, PlainServer, StoryBegins
<1> QED
  BY <1>2 DEF Story, Ceased, Open

(* The transaction a request would begin now.                              *)
Begun(a) == nr_php_txn_begin(a.conn, a.ini, DefaultServer, <<"guid", a.calls>>, 1, TRUE)

(* It has begun, for the application that was asked for.                   *)
BegunFor(a, r, name, license) ==
  /\ r.txn = Begun(a) /\ Open(r.txn)
  /\ r.app.name = IF name = "" THEN "default" ELSE name
  /\ r.app.license = nr_php_use_license(license)

(* Another application: there is no transaction, or one of the name and    *)
(* the license that were asked for.                                        *)
LEMMA BeginAnswers ==
  ASSUME NEW a, Between(a), NEW b, Answers(a, b), b.txn = NULL, NEW name, NEW license,
         NEW r, r = BeginApplication(b, name, license)
  PROVE  Answers(a, r) /\ (r.txn # NULL => BegunFor(a, r, name, license))
<1> DEFINE lic == nr_php_use_license(license)
           new == [name |-> IF name = "" THEN "default" ELSE name, license |-> lic]
           B(sampled) == nr_php_txn_begin(b.conn, b.ini, DefaultServer, <<"guid", b.calls>>, 1, sampled)
<1>1. \/ r = b \/ r = [b EXCEPT !.app = NULL] \/ r = [b EXCEPT !.app = new, !.txn = B(TRUE)]
  BY Zenon DEF BeginApplication
<1>2. b.conn = a.conn /\ b.ini = a.ini /\ b.calls = a.calls
  BY DEF Answers, ApKept
<1>3. new.name = (IF name = "" THEN "default" ELSE name) /\ new.license = lic
  OBVIOUS
<1> HIDE DEF new, lic
<1>4. CASE r = b
  BY <1>4
<1>5. CASE r = [b EXCEPT !.app = NULL]
  <2>1. "txn" \in DOMAIN b
    BY DEF Answers, ApFields
  <2>2. r.txn = NULL
    BY <1>5, <2>1
  <2>3. \A v : Answers(a, [b EXCEPT !.app = v])
    BY AnswersOn
  <2>4. Answers(a, r)
    BY <1>5, <2>3
  <2> QED
    BY <2>2, <2>4
<1>6. CASE r = [b EXCEPT !.app = new, !.txn = B(TRUE)]
  <2>1. PICK s : B(TRUE) = B(s) /\ Begun(a) = B(s)
    BY <1>2, Zenon DEF Begun
  <2> DEFINE t == B(s)
  <2>2. t # NULL => Open(t)
    BY <1>2, BegunIsOpen DEF Between
  <2>3. r = [b EXCEPT !.app = new, !.txn = t]
    BY <1>6, <2>1, Zenon
  <2> HIDE DEF t, B
  <2>4. /\ ApKept \subseteq ApFields \ {"txn", "app"} /\ {"txn", "app"} \subseteq ApFields
        /\ "sent" \in ApFields \ {"txn", "app"}
    BY DEF ApKept, ApFields
  <2>5. /\ DOMAIN r = ApFields /\ r.txn = t /\ r.app = new
        /\ \A g \in ApFields \ {"txn", "app"} : r[g] = b[g]
    BY <2>3, <2>4 DEF Answers
  <2>6. r.sent = b.sent /\ \A g \in ApKept : r[g] = b[g]
    BY <2>4, <2>5
  <2>7. Answers(a, r)
    BY <2>2, <2>5, <2>6 DEF Answers, Open
  <2>8. r.txn = Begun(a)
    BY <2>1, <2>5, Zenon DEF t
  <2> QED
    BY <1>3, <2>2, <2>5, <2>7, <2>8 DEF lic, BegunFor
<1> QED
  BY <1>1, <1>4, <1>5, <1>6

(* newrelic_end_transaction.                                               *)
LEMMA EndTransactionAnswers ==
  ASSUME NEW a, Between(a), NEW args PROVE Answers(a, newrelic_end_transaction(a, args))
<1> DEFINE b == nr_php_api_add_supportability_metric(a, "end_transaction")
           r == newrelic_end_transaction(a, args)
<1>1. r = Ret(b, "FALSE") \/ \E i : r = Ret(SendTransaction(b, i), "TRUE")
  BY Zenon DEF newrelic_end_transaction
<1>2. Between(b) /\ Answers(a, b) /\ \A f \in ApKept : b[f] = a[f]
  BY MetricBetween
<1> HIDE DEF b, r
<1>3. ASSUME NEW i PROVE Answers(a, SendTransaction(b, i))
  <2>1. Answers(b, SendTransaction(b, i)) /\ SendTransaction(b, i).txn = NULL
    BY <1>2, SendAnswers
  <2> QED
    BY <1>2, <2>1 DEF Answers
<1>4. Answers(a, Ret(b, "FALSE")) /\ \A i : Answers(a, Ret(SendTransaction(b, i), "TRUE"))
  BY <1>2, <1>3, AnswersOn
<1> QED
  BY <1>1, <1>4 DEF r

(* newrelic_start_transaction.                                             *)
LEMMA StartTransactionAnswers ==
  ASSUME NEW a, Between(a), NEW args PROVE Answers(a, newrelic_start_transaction(a, args))
<1> DEFINE B(l) == BeginApplication(a, args[1].v, l)
           M(l) == nr_php_api_add_supportability_metric(B(l), "start_transaction")
           r == newrelic_start_transaction(a, args)
<1>1. \/ r = Ret(a, "FALSE")
      \/ /\ a.txn = NULL
         /\ \E l : \/ r = Ret(B(l), "FALSE")
                   \/ B(l).txn # NULL /\ r = Ret(M(l), "TRUE")
  BY Zenon DEF newrelic_start_transaction
<1>2. CASE r = Ret(a, "FALSE")
  BY <1>2, RefusedAnswers
<1>3. ASSUME NEW l, a.txn = NULL, r = Ret(B(l), "FALSE") \/ (B(l).txn # NULL /\ r = Ret(M(l), "TRUE"))
      PROVE  Answers(a, r)
  <2> DEFINE b == B(l)
             S == {<<"Supportability/api", "start_transaction">>}
             u == AddMetrics(b.txn, S)
  <2>1. Answers(a, a)
    BY <1>3 DEF Answers, Between
  <2>2. Answers(a, b) /\ (b.txn # NULL => Open(b.txn))
    <3>1. Answers(a, b) /\ (b.txn # NULL => BegunFor(a, b, args[1].v, l))
      BY <1>3, <2>1, BeginAnswers
    <3> QED
      BY <3>1 DEF BegunFor
  <2>3. b.txn # NULL => M(l) = [b EXCEPT !.txn = u]
    BY DEF nr_php_api_add_supportability_metric
  <2> HIDE DEF b, r
  <2>4. b.txn # NULL => Answers(a, [b EXCEPT !.txn = u])
    <3> SUFFICES ASSUME b.txn # NULL PROVE Answers(a, [b EXCEPT !.txn = u])
      OBVIOUS
    <3>1. Ceased(b.txn) /\ ~b.txn.complete /\ IsTxn(b.txn)
      BY <2>2 DEF Open, Ceased
    <3> HIDE DEF S
    <3>2. Ceased(u) /\ ~u.complete
      BY <3>1, GoesOnMetrics, GoesOnCeases DEF GoesOn
    <3> HIDE DEF u
    <3>3. ApKept \union {"sent"} \subseteq ApFields \ {"txn"} /\ "txn" \in ApFields
      BY DEF ApKept, ApFields
    <3> DEFINE c == [b EXCEPT !.txn = u]
    <3>4. DOMAIN c = ApFields /\ c.txn = u /\ \A g \in ApFields \ {"txn"} : c[g] = b[g]
      BY <2>2, <3>3 DEF Answers
    <3> HIDE DEF c
    <3>5. c.sent = b.sent /\ \A g \in ApKept : c[g] = b[g]
      BY <3>3, <3>4
    <3>6. Answers(a, c)
      BY <2>2, <3>2, <3>4, <3>5 DEF Answers
    <3> QED
      BY <3>6 DEF c
  <2> HIDE DEF u
  <2>5. Answers(a, Ret(b, "FALSE")) /\ (b.txn # NULL => Answers(a, Ret([b EXCEPT !.txn = u], "TRUE")))
    BY <2>2, <2>4, AnswersOn
  <2> QED
    BY <1>3, <2>3, <2>5 DEF b
<1> QED
  BY <1>1, <1>2, <1>3

(* There is a transaction as it was asked for, or none.                    *)
AsAsked(a, r, args, license) ==
  /\ r.ret = "TRUE" <=> r.txn # NULL
  /\ r.txn # NULL => /\ r.app.name = IF args[1].v = "" THEN "default" ELSE args[1].v
                     /\ r.app.license = nr_php_use_license(license)
                     /\ a.token /\ a.txn # NULL => license \in {"", a.app.license}

(* newrelic_set_appname: it ends the transaction in any case, and its      *)
(* answer says whether one of the application it was asked for has begun.  *)
LEMMA AppnameAnswers ==
  ASSUME NEW a, Between(a), NEW args, zend_parse_parameters(args, <<"s", "s", "b">>, 2),
         NEW r, r = newrelic_set_appname(a, args),
         NEW license, license = IF Len(args) >= 2 THEN args[2].v ELSE ""
  PROVE  Answers(a, r) /\ AsAsked(a, r, args, license)
<1> DEFINE before  == nr_php_api_add_supportability_metric(a, "set_appname/before")
           changed == license # "" /\ a.txn # NULL /\ a.app.license # license
           denied  == changed /\ a.token
           noted   == IF denied THEN nr_php_api_add_supportability_metric(before, "set_appname/lasp_denied")
                      ELSE before
           names   == (IF license = "" THEN {} ELSE {"set_appname/with_license"})
                      \union (IF changed THEN {"set_appname/switched_license"} ELSE {})
                      \union {"set_appname/after"}
           S       == {<<"Supportability/api", n>> : n \in names}
           E(i)    == SendTransaction(noted, i)
           B(i)    == BeginApplication(E(i), args[1].v, license)
           i       == Len(args) < 3 \/ args[3].type = "false"
<1>1. r = IF denied THEN Ret(nr_php_api_error(E(i)), "FALSE")
          ELSE IF B(i).txn = NULL THEN Ret(B(i), "FALSE")
          ELSE Ret([B(i) EXCEPT !.txn = AddMetrics(@, S)], "TRUE")
  BY Zenon DEF newrelic_set_appname
<1>2. S \in SUBSET SwitchMetrics
  BY DEF SwitchMetrics
<1> DEFINE e == E(i)
           b == B(i)
<1>3. Answers(a, e) /\ e.txn = NULL
  <2>1. Between(before) /\ Answers(a, before) /\ \A f \in ApKept : before[f] = a[f]
    BY MetricBetween
  <2> HIDE DEF before
  <2>2. Between(noted) /\ \A f \in ApKept : noted[f] = a[f]
    <3>1. /\ Between(nr_php_api_add_supportability_metric(before, "set_appname/lasp_denied"))
          /\ \A f \in ApKept : nr_php_api_add_supportability_metric(before, "set_appname/lasp_denied")[f] = before[f]
      BY <2>1, MetricBetween
    <3> QED
      BY <2>1, <3>1
  <2> HIDE DEF noted
  <2>3. Answers(noted, e) /\ e.txn = NULL
    BY <2>2, SendAnswers
  <2> HIDE DEF e
  <2> QED
    BY <2>2, <2>3 DEF Answers
<1>4. r = IF denied THEN Ret(nr_php_api_error(e), "FALSE")
          ELSE IF b.txn = NULL THEN Ret(b, "FALSE") ELSE Ret([b EXCEPT !.txn = AddMetrics(@, S)], "TRUE")
  BY <1>1, Zenon
<1>5. b = BeginApplication(e, args[1].v, license)
  OBVIOUS
<1> HIDE DEF e, b, S
<1>6. Answers(a, b) /\ (b.txn # NULL => BegunFor(a, b, args[1].v, license))
  BY <1>3, <1>5, BeginAnswers
<1>7. {"txn", "ret", "app", "warnings"} \subseteq ApFields
  BY DEF ApFields
<1>8. CASE denied
  <2> DEFINE w == nr_php_api_error(e)
  <2>1. Answers(a, w) /\ w.txn = NULL
    <3>1. w.txn = e.txn
      BY <1>3, <1>7 DEF nr_php_api_error, Answers
    <3> QED
      BY <1>3, <3>1, AnswersOn
  <2> HIDE DEF w
  <2>2. Answers(a, Ret(w, "FALSE")) /\ Ret(w, "FALSE").ret = "FALSE" /\ Ret(w, "FALSE").txn = NULL
    <3>1. Answers(a, Ret(w, "FALSE"))
      BY <2>1, AnswersOn
    <3> QED
      BY <1>7, <2>1, <3>1 DEF Ret, Answers
  <2> QED
    BY <1>4, <1>8, <2>2 DEF w, AsAsked
<1>9. CASE ~denied /\ b.txn = NULL
  <2>1. Answers(a, Ret(b, "FALSE"))
    BY <1>6, AnswersOn
  <2>2. Ret(b, "FALSE").ret = "FALSE" /\ Ret(b, "FALSE").txn = NULL
    BY <1>6, <1>7, <1>9 DEF Ret, Answers
  <2> QED
    BY <1>4, <1>9, <2>1, <2>2 DEF AsAsked
<1>10. CASE ~denied /\ b.txn # NULL
  <2> DEFINE u == AddMetrics(b.txn, S)
             c == [b EXCEPT !.txn = u]
  <2>1. u # NULL
    <3>1. /\ \A app \in ApConns, n \in 0..ApMaxCalls, Q \in SUBSET SwitchMetrics :
               NULL # AddMetrics(nr_php_txn_begin(app, DefaultIni, DefaultServer, <<"guid", n>>, 1, TRUE), Q)
      BY ApiAssumption, Zenon
    <3>2. a.conn \in ApConns /\ a.ini = DefaultIni /\ a.calls \in 0..ApMaxCalls
      BY DEF Between
    <3>3. \A Q \in SUBSET SwitchMetrics : NULL # AddMetrics(Begun(a), Q)
      BY <3>1, <3>2, Zenon DEF Begun
    <3> QED
      BY <1>2, <1>6, <1>10, <3>3 DEF BegunFor
  <2>2. Ceased(u) /\ ~u.complete
    <3>1. Ceased(b.txn) /\ ~b.txn.complete /\ IsTxn(b.txn)
      BY <1>6, <1>10 DEF BegunFor, Open, Ceased
    <3>2. GoesOn(b.txn, u)
      BY <3>1, GoesOnMetrics
    <3> QED
      BY <3>1, <3>2, GoesOnCeases DEF GoesOn
  <2>3. r = Ret(c, "TRUE")
    BY <1>4, <1>10
  <2> HIDE DEF u
  <2>4. ApKept \union {"sent", "app"} \subseteq ApFields \ {"txn"}
    BY DEF ApKept, ApFields
  <2>5. DOMAIN c = ApFields /\ c.txn = u /\ \A g \in ApFields \ {"txn"} : c[g] = b[g]
    BY <1>6, <1>7 DEF Answers
  <2> HIDE DEF c
  <2>6. c.sent = b.sent /\ c.app = b.app /\ \A g \in ApKept : c[g] = b[g]
    BY <2>4, <2>5
  <2>7. Answers(a, c)
    BY <1>6, <2>2, <2>5, <2>6 DEF Answers
  <2>8. Answers(a, r)
    <3>1. \A x : Answers(a, Ret(c, x))
      BY <2>7, AnswersOn
    <3> QED
      BY <2>3, <3>1
  <2>9. r.ret = "TRUE" /\ r.txn = u /\ r.app = b.app
    BY <1>7, <2>3, <2>5, <2>6 DEF Ret
  <2>10. a.token /\ a.txn # NULL => license \in {"", a.app.license}
    BY <1>10
  <2> QED
    BY <1>6, <1>10, <2>1, <2>8, <2>9, <2>10 DEF BegunFor, AsAsked
<1> QED
  BY <1>8, <1>9, <1>10

(* The arguments newrelic_set_appname is called with can be parsed.        *)
LEMMA AppnameParses ==
  ASSUME NEW args \in AppnameArgs
  PROVE  zend_parse_parameters(args, <<"s", "s", "b">>, 2) /\ args # <<>>
<1>1. /\ \A n \in Names \union Licenses : n.type = "string"
      /\ \A x \in Flags : x.type \in {"true", "false"}
  BY DEF Names, Licenses, Flags, Str, Z
<1>2. ZppTypes["s"] = Scalars /\ ZppTypes["b"] = Scalars /\ {"string", "true", "false"} \subseteq Scalars
  BY DEF ZppTypes, Scalars
<1> DEFINE spec == <<"s", "s", "b">>
<1>3. Len(spec) = 3 /\ spec[1] = "s" /\ spec[2] = "s" /\ spec[3] = "b"
  OBVIOUS
<1> HIDE DEF spec
<1>4. ASSUME NEW n \in Names, args = <<n>> PROVE zend_parse_parameters(args, spec, 2) /\ args # <<>>
  <2>1. Len(args) = 1 /\ DOMAIN args = {1} /\ args[1] = n
    BY <1>4
  <2>2. \A i \in DOMAIN args : args[i].type \in ZppTypes[spec[i]]
    BY <1>1, <1>2, <1>3, <2>1
  <2>3. Len(args) \in (Len(spec) - 2)..Len(spec) /\ args # <<>>
    BY <1>3, <2>1
  <2> QED
    BY <2>2, <2>3 DEF zend_parse_parameters
<1>5. ASSUME NEW n, NEW l, NEW x, n.type \in Scalars, l.type \in Scalars, x.type \in Scalars,
             args = <<n, l, x>>
      PROVE  zend_parse_parameters(args, spec, 2) /\ args # <<>>
  <2>1. Len(args) = 3 /\ DOMAIN args = 1..3 /\ args[1] = n /\ args[2] = l /\ args[3] = x
    BY <1>5
  <2>2. \A i \in 1..3 : args[i].type \in ZppTypes[spec[i]]
    BY <1>2, <1>3, <1>5, <2>1
  <2>3. Len(args) \in (Len(spec) - 2)..Len(spec) /\ args # <<>>
    BY <1>3, <2>1
  <2> QED
    BY <2>1, <2>2, <2>3 DEF zend_parse_parameters
<1>6. \/ \E n \in Names : args = <<n>>
      \/ \E n \in Names, l \in Licenses : \E x : x.type \in Scalars /\ args = <<n, l, x>>
  <2>1. \A x \in Flags : x.type \in Scalars
    BY <1>1, <1>2
  <2> QED
    BY <2>1 DEF AppnameArgs
<1>7. \A n \in Names \union Licenses : n.type \in Scalars
  BY <1>1, <1>2
<1>8. zend_parse_parameters(args, spec, 2) /\ args # <<>>
  BY <1>4, <1>5, <1>6, <1>7
<1> QED
  BY <1>8 DEF spec

(* Every call of a request answers.                                        *)
LEMMA CallsAnswer ==
  ASSUME NEW a, Between(a), NEW r \in ApiCalls(a)
  PROVE  \/ Answers(a, r)
         \/ \E args \in AppnameArgs : r = [newrelic_set_appname(a, args) EXCEPT !.asked = args]
<1>1. CASE a.topic = "switch"
  <2>1. \/ \E args \in AppnameArgs : r = [newrelic_set_appname(a, args) EXCEPT !.asked = args]
        \/ \E args : \/ r = newrelic_start_transaction(a, args)
                     \/ r = newrelic_end_transaction(a, args)
                     \/ r = newrelic_add_custom_parameter(a, args)
                     \/ r = newrelic_capture_params(a, args)
                     \/ r = newrelic_enable_params(a, args)
        \/ r = newrelic_end_of_transaction(a) \/ r = newrelic_ignore_transaction(a)
        \/ r = newrelic_get_linking_metadata(a) \/ r = newrelic_get_trace_metadata(a)
    <3>1. r \in SwitchCalls(a)
      BY <1>1 DEF ApiCalls
    <3> QED
      BY <3>1 DEF SwitchCalls
  <2> QED
    BY <2>1, StartTransactionAnswers, EndTransactionAnswers, ParameterAnswers, CaptureAnswers, EnableAnswers,
       EndOfTransactionAnswers, IgnoreAnswers, AskingAnswers
<1>2. CASE a.topic = "data"
  <2>1. \/ \E args : \/ r = newrelic_notice_error(a, args)
                     \/ r = newrelic_add_custom_parameter(a, args)
                     \/ r = newrelic_add_custom_span_parameter(a, args)
                     \/ r = newrelic_set_user_attributes(a, args)
                     \/ r = newrelic_set_user_id(a, args)
                     \/ r = newrelic_custom_metric(a, args)
                     \/ r = newrelic_record_custom_event(a, args)
                     \/ r = newrelic_set_error_group_callback(a, args)
                     \/ r = newrelic_end_transaction(a, args)
        \/ r = newrelic_end_of_transaction(a) \/ r = newrelic_get_trace_metadata(a)
    <3>1. r \in DataCalls(a)
      BY <1>2 DEF ApiCalls
    <3> QED
      BY <3>1 DEF DataCalls
  <2> QED
    BY <2>1, NoticeAnswers, ParameterAnswers, SpanAnswers, UserAnswers, UserIdAnswers, MetricAnswers, EventAnswers,
       AskingAnswers, EndTransactionAnswers, EndOfTransactionAnswers
<1>3. CASE a.topic = "kind"
  <2>1. \/ \E args : \/ r = newrelic_background_job(a, args)
                     \/ r = newrelic_name_transaction(a, args)
                     \/ r = newrelic_add_custom_tracer(a, args)
                     \/ r = newrelic_end_transaction(a, args)
        \/ r = newrelic_ignore_apdex(a) \/ r = newrelic_disable_autorum(a) \/ r = newrelic_is_sampled(a)
        \/ r = newrelic_get_browser_timing_header(a) \/ r = newrelic_get_browser_timing_footer(a)
        \/ r = newrelic_end_of_transaction(a)
    <3>1. r \in KindCalls(a)
      BY <1>3 DEF ApiCalls
    <3> QED
      BY <3>1 DEF KindCalls
  <2> QED
    BY <2>1, BackgroundAnswers, NameAnswers, TracerAnswers, EndTransactionAnswers, IgnoreApdexAnswers,
       AutorumAnswers, SampledAnswers, BrowserAnswers, EndOfTransactionAnswers
<1> QED
  BY <1>1, <1>2, <1>3 DEF Between

(* At the beginning nothing is over and nothing was asked for.             *)
LEMMA ApBegins == ASSUME ApInit PROVE Between(ap) /\ SwitchedOrNone
<1>1. PICK topic \in {"switch", "data", "kind"}, token \in BOOLEAN, flag \in BOOLEAN :
        ap = ApRequest(topic, token, flag, flag)
  BY DEF ApInit
<1> DEFINE app == ApConn(flag)
           B(s) == nr_php_txn_begin(app, DefaultIni, DefaultServer, <<"guid", 0>>, 1, s)
<1>2. PICK s : ap = [topic |-> topic, token |-> token, prioritize |-> flag, conn |-> app, ini |-> DefaultIni,
      app |-> [name |-> "default", license |-> "own"], txn |-> B(s),
      capture |-> FALSE, callback |-> FALSE, tracers |-> {}, span |-> {}, told |-> {},
      warnings |-> 0, ret |-> "NULL", sent |-> <<>>, calls |-> 0,
      over |-> NULL, asked |-> <<>>, was |-> [app |-> NULL, txn |-> NULL]]
  BY <1>1, Zenon DEF ApRequest
<1>3. app \in ApConns
  BY DEF ApConns
<1>4. B(s) # NULL => Ceased(B(s))
  BY <1>3, BegunIsOpen DEF Open
<1> HIDE DEF app, B
<1>5. /\ DOMAIN ap = ApFields /\ ap.topic = topic /\ ap.conn = app /\ ap.ini = DefaultIni /\ ap.txn = B(s)
      /\ ap.sent = <<>> /\ ap.calls = 0 /\ ap.over = NULL /\ ap.asked = <<>>
  BY <1>2 DEF ApFields
<1>6. AsSaid(ap.sent) /\ 0 \in 0..ApMaxCalls
  BY <1>5, ApiAssumption DEF AsSaid
<1> QED
  BY <1>3, <1>4, <1>5, <1>6 DEF Between, SwitchedOrNone

(* Every call keeps both.                                                  *)
LEMMA ApStep == ASSUME Between(ap), [ApNext]_apVars PROVE UNCHANGED ap \/ (Between(ap)' /\ SwitchedOrNone')
<1> SUFFICES ASSUME ApCall PROVE Between(ap)' /\ SwitchedOrNone'
  BY DEF ApNext, apVars
<1> DEFINE a == [ap EXCEPT !.told = {}, !.ret = "NULL", !.asked = <<>>]
<1>1. PICK r \in ApiCalls(a) :
        ap' = [r EXCEPT !.calls = @ + 1, !.was = [app |-> ap.app, txn |-> ap.txn],
                 !.over = IF r.txn = NULL \/ ~r.txn.complete THEN NULL
                          ELSE IF ap.over = NULL THEN Said(r.txn) ELSE @]
  BY DEF ApCall
<1>2. ap.calls < ApMaxCalls
  BY DEF ApCall
<1>3. /\ DOMAIN a = ApFields /\ a.asked = <<>>
      /\ \A f \in ApFields \ {"told", "ret", "asked"} : a[f] = ap[f]
  BY DEF Between, ApFields
<1> HIDE DEF a
<1>4. /\ a.topic = ap.topic /\ a.conn = ap.conn /\ a.ini = ap.ini /\ a.calls = ap.calls /\ a.sent = ap.sent
      /\ a.txn = ap.txn /\ a.over = ap.over /\ a.app = ap.app /\ a.token = ap.token
  BY <1>3 DEF ApFields
<1>5. Between(a)
  BY <1>3, <1>4 DEF Between
<1>6. ASSUME NEW s, Answers(a, s), DOMAIN r = ApFields, \A f \in ApFields \ {"asked"} : r[f] = s[f]
      PROVE  /\ Between(ap)'
             /\ ap'.asked = r.asked /\ ap'.ret = s.ret /\ ap'.txn = s.txn /\ ap'.app = s.app /\ ap'.token = ap.token
             /\ ap'.was.txn = a.txn /\ ap'.was.app = a.app
  <2> DEFINE over == IF r.txn = NULL \/ ~r.txn.complete THEN NULL
                     ELSE IF ap.over = NULL THEN Said(r.txn) ELSE r.over
             was == [app |-> ap.app, txn |-> ap.txn]
  <2>1. ap' = [r EXCEPT !.calls = r.calls + 1, !.was = was, !.over = over]
    BY <1>1
  <2>2. over # NULL => r.txn # NULL /\ r.txn.complete /\ (over = Said(r.txn) \/ (ap.over # NULL /\ over = r.over))
    OBVIOUS
  <2>3. was.txn = a.txn /\ was.app = a.app
    BY <1>4
  <2> HIDE DEF over, was
  <2>4. {"asked", "calls", "was", "over", "ret", "txn", "app", "token", "topic", "conn", "ini", "sent"} \subseteq ApFields
    BY DEF ApFields
  <2>5. /\ DOMAIN ap' = ApFields /\ ap'.calls = r.calls + 1 /\ ap'.was = was /\ ap'.over = over
        /\ \A f \in ApFields \ {"calls", "was", "over"} : ap'[f] = r[f]
    BY <1>6, <2>1, <2>4
  <2>6. /\ s.topic = ap.topic /\ s.conn = ap.conn /\ s.ini = ap.ini /\ s.calls = ap.calls /\ s.token = ap.token
        /\ s.over = ap.over
    BY <1>4, <1>6 DEF Answers, ApKept
  <2>7. /\ r.topic = s.topic /\ r.conn = s.conn /\ r.ini = s.ini /\ r.calls = s.calls /\ r.token = s.token
        /\ r.over = s.over /\ r.sent = s.sent /\ r.txn = s.txn /\ r.app = s.app /\ r.ret = s.ret
    BY <1>6, <2>4
  <2>8. /\ ap'.topic = ap.topic /\ ap'.conn = ap.conn /\ ap'.ini = ap.ini /\ ap'.token = ap.token
        /\ ap'.sent = s.sent /\ ap'.txn = s.txn /\ ap'.app = s.app /\ ap'.ret = s.ret /\ ap'.asked = r.asked
        /\ ap'.calls = ap.calls + 1
    BY <2>4, <2>5, <2>6, <2>7
  <2>9. ap.calls \in Nat /\ ap.calls + 1 \in 0..ApMaxCalls
    BY <1>2, ApiAssumption DEF Between
  <2>10. over # NULL => s.txn # NULL /\ s.txn.complete /\ Said(s.txn) = over
    <3> SUFFICES ASSUME over # NULL PROVE s.txn # NULL /\ s.txn.complete /\ Said(s.txn) = over
      OBVIOUS
    <3>1. s.txn # NULL /\ s.txn.complete
      BY <2>2, <2>7
    <3>2. CASE over = Said(r.txn)
      BY <2>7, <3>1, <3>2
    <3>3. CASE ap.over # NULL /\ over = r.over
      BY <1>4, <1>6, <2>6, <2>7, <3>1, <3>3 DEF Answers
    <3> QED
      BY <2>2, <3>2, <3>3
  <2>11. AsSaid(s.sent) /\ (s.txn # NULL => Ceased(s.txn))
    BY <1>6 DEF Answers
  <2>12. Between(ap)'
    <3>1. /\ DOMAIN ap' = ApFields /\ ap'.conn \in ApConns /\ ap'.ini = DefaultIni /\ ap'.calls \in 0..ApMaxCalls
          /\ ap'.topic \in {"switch", "data", "kind"}
      BY <2>5, <2>8, <2>9 DEF Between
    <3>2. AsSaid(ap'.sent) /\ (ap'.txn # NULL => Ceased(ap'.txn))
      BY <2>8, <2>11
    <3>3. ap'.over # NULL => Ceased(ap'.txn) /\ ap'.txn.complete /\ Said(ap'.txn) = ap'.over
      BY <2>5, <2>8, <2>10, <2>11
    <3> QED
      BY <3>1, <3>2, <3>3 DEF Between
  <2> QED
    BY <2>3, <2>5, <2>8, <2>12
<1>7. CASE Answers(a, r)
  <2>1. DOMAIN r = ApFields /\ r.asked = <<>>
    BY <1>3, <1>7 DEF Answers, ApKept
  <2>2. Between(ap)' /\ ap'.asked = <<>>
    BY <1>6, <1>7, <2>1
  <2> QED
    BY <2>2 DEF SwitchedOrNone
<1>8. ASSUME NEW args \in AppnameArgs, r = [newrelic_set_appname(a, args) EXCEPT !.asked = args]
      PROVE  Between(ap)' /\ SwitchedOrNone'
  <2> DEFINE s == newrelic_set_appname(a, args)
             license == IF Len(args) >= 2 THEN args[2].v ELSE ""
  <2>1. Answers(a, s) /\ AsAsked(a, s, args, license)
    <3>1. zend_parse_parameters(args, <<"s", "s", "b">>, 2)
      BY AppnameParses
    <3> HIDE DEF s, license
    <3> QED
      BY <1>5, <3>1, AppnameAnswers DEF s, license
  <2>2. r = [s EXCEPT !.asked = args]
    BY <1>8
  <2> HIDE DEF s
  <2>3. DOMAIN r = ApFields /\ r.asked = args /\ \A f \in ApFields \ {"asked"} : r[f] = s[f]
    BY <2>1, <2>2 DEF Answers, ApFields
  <2>4. /\ Between(ap)'
        /\ ap'.asked = args /\ ap'.ret = s.ret /\ ap'.txn = s.txn /\ ap'.app = s.app /\ ap'.token = ap.token
        /\ ap'.was.txn = a.txn /\ ap'.was.app = a.app
    BY <1>6, <2>1, <2>3
  <2>5. SwitchedOrNone'
    <3>1. ap'.token = a.token
      BY <1>4, <2>4
    <3> QED
      BY <2>1, <2>4, <3>1 DEF SwitchedOrNone, AsAsked
  <2> QED
    BY <2>4, <2>5
<1> QED
  BY <1>1, <1>5, <1>7, <1>8, CallsAnswer

(* For any number of calls: newrelic_set_appname leaves the transaction of *)
(* the old application, and answers TRUE just when one of the application  *)
(* and license it was asked for has begun; what is sent of a transaction   *)
(* that newrelic_end_of_transaction has ended is what the application had  *)
(* said until then, whatever it calls afterwards.                          *)
THEOREM ApiWordIsKept == ApSpec => []ApiKeepsItsWord
<1> DEFINE Inv == Between(ap) /\ SwitchedOrNone
<1>1. ApInit => Inv
  BY ApBegins
<1>2. Inv /\ [ApNext]_apVars => Inv'
  <2> SUFFICES ASSUME Inv, [ApNext]_apVars PROVE Inv'
    OBVIOUS
  <2>1. CASE UNCHANGED ap
    BY <2>1 DEF SwitchedOrNone, Between, AsSaid
  <2> QED
    BY <2>1, ApStep
<1>3. Inv => ApiKeepsItsWord
  BY DEF Between, ApiKeepsItsWord, OverStaysOver, AsSaid
<1> QED
  BY <1>1, <1>2, <1>3, PTL DEF ApSpec
=============================================================================
