------------------------------ MODULE Lifecycle ------------------------------
(***************************************************************************)
(* The life of the PHP processes of a server: MINIT in the master, which   *)
(* may start the daemon (agent/php_minit.c, axiom/nr_daemon_spawn.c), the   *)
(* workers it forks, their requests with the initialisation that the first *)
(* of them does (agent/php_rinit.c, php_globals.c), MSHUTDOWN in every      *)
(* process, and a graceful restart.                                        *)
(*                                                                         *)
(* A worker begins as a copy of its master: what the master has open, the  *)
(* worker has open.                                                        *)
(***************************************************************************)
EXTENDS AgentBase, Naturals, Sequences, SequencesExt, FiniteSets

CONSTANTS LfWorkers,    \* processes that a master may fork
          LfThreads,    \* threads that serve requests in a worker (ZTS)
          LfMaxConns,   \* bound: connections to the daemon
          LfMaxStarts   \* bound: starts of the master

Master == "master"
LfProcesses == {Master} \union LfWorkers

\* The null pointer is neither a descriptor, a handler nor a thread.
ASSUME LfAssumption ==
  /\ Master \notin LfWorkers
  /\ NULL \notin LfThreads /\ NULL \notin Nat /\ NULL \notin {"sapi", "newrelic"}

VARIABLES lfHost,     \* how the server is set up
          lfProcs,    \* the processes
          lfDaemon,   \* [launched, up, fds, argv]: the daemon
          lfConns,    \* connections made so far: each has its number
          lfStarts    \* starts of the master so far

lfVars == <<lfHost, lfProcs, lfDaemon, lfConns, lfStarts>>

---------------------------------------------------------------------------
(* The settings that MINIT looks at.                                        *)

\* newrelic.daemon.address goes before newrelic.daemon.port.
php_newrelic_init_daemon_path(host) ==
  IF host.address # NULL THEN host.address
  ELSE IF host.port # NULL THEN host.port ELSE "default port"

\* Who starts the daemon: not the agent if a configuration file of the daemon
\* exists, a setting says so, or the daemon is meant to be on another host.
nr_php_get_daemon_startup_mode(host) ==
  IF \/ host.cfgfile
     \/ host.no_daemon_launch = 3
     \/ host.no_daemon_launch = IF host.cli THEN 1 ELSE 2
     \/ host.conn = NULL
     \/ host.conn = "TCP_HOST_PORT"
  THEN "INIT" ELSE "AGENT"

nr_php_check_for_threaded_mpm(host) == ~(host.is_apache /\ host.apache_threaded)

nr_php_check_CAT_DT_config(ini) ==
  [ini EXCEPT !.cross_process = @ /\ ~ini.distributed_tracing]

\* The first directory that can be written to.
PidFile(host) ==
  LET dirs == SelectSeq(<<"/var/run", "/var/pid", "/var/log/newrelic", "/var/log">>,
                        LAMBDA d : d \in host.writable)
  IN IF host.pidfile # NULL THEN host.pidfile
     ELSE IF dirs = <<>> THEN NULL ELSE Head(dirs)

---------------------------------------------------------------------------
(* Starting the daemon.                                                     *)

\* A flag without a value is left out.
nr_argv_append_flag(argv, flag, value) ==
  IF value = NULL THEN argv ELSE Append(argv, <<flag, value>>)

nr_daemon_args_to_argv(path, args) ==
  LET flags == <<"--pidfile", "--logfile", "--loglevel", "--auditlog", "--port", "--cafile",
                 "--capath", "--proxy", "--wait-for-port">>
      Add(argv, flag) == IF flag \in DOMAIN args
                         THEN nr_argv_append_flag(argv, flag, args[flag]) ELSE argv
      flagged == FoldLeft(Add, << <<path, "--agent">> >>, flags)
      timeout == IF args.app_timeout = "" THEN flagged
                 ELSE nr_argv_append_flag(flagged, "--define", args.app_timeout)
  IN IF args.integration THEN Append(timeout, <<"--integration", "">>) ELSE timeout

\* The child that becomes the daemon keeps its log and nothing else.
nr_closefrom(fds, lowfd) == {fd \in fds : fd < lowfd}

\* FALSE if the daemon cannot be executed; the fork itself is not seen to fail.
nr_spawn_daemon(daemon, host, args) ==
  IF ~host.executable THEN [ok |-> FALSE, daemon |-> daemon]
  ELSE [ok |-> TRUE,
        daemon |-> [launched |-> TRUE, up |-> daemon.up, fds |-> nr_closefrom(0..4, 3),
                    argv |-> nr_daemon_args_to_argv("newrelic-daemon", args)]]

DaemonArgs(host) ==
  [app_timeout |-> "", integration |-> FALSE]
  @@ ("--port" :> php_newrelic_init_daemon_path(host)) @@ ("--pidfile" :> PidFile(host))
  @@ ("--wait-for-port" :> "0s")

---------------------------------------------------------------------------
(* The processes.                                                           *)

\* The header handler of the SAPI, and what the agent remembers of it.
NewProcess ==
  [alive |-> FALSE, enabled |-> FALSE, handler |-> "sapi", orig |-> NULL, fd |-> NULL,
   done |-> FALSE, mutex |-> NULL, applists |-> 0, wraprecs |-> FALSE,
   at |-> [t \in LfThreads |-> "idle"]]

Process(p) == lfProcs[p]
Update(p, r) == lfProcs' = [lfProcs EXCEPT ![p] = r]

nr_php_global_init(r) == [r EXCEPT !.done = FALSE, !.enabled = TRUE]

\* Mutant: the master keeps its connection.
MinitKeepsConnection(host, r) ==
  [r EXCEPT !.orig = r.handler, !.handler = "newrelic"]

\* The end of MINIT: only a command line process keeps its connection, and the
\* hooks are set.
MinitHooks(host, r) ==
  [r EXCEPT !.fd = IF host.cli THEN @ ELSE NULL, !.orig = r.handler, !.handler = "newrelic"]

\* PHP_MINIT_FUNCTION: an agent that is not to run leaves all as it is, whatever
\* the reason, and the module counts as started.
Minit ==
  LET r0 == [nr_php_global_init(Process(Master)) EXCEPT !.alive = TRUE]
      r  == [r0 EXCEPT !.wraprecs = TRUE]
      up == lfDaemon.up
      connected == IF up THEN [r EXCEPT !.fd = lfConns + 1] ELSE r
      spawned   == nr_spawn_daemon(lfDaemon, lfHost, DaemonArgs(lfHost))
      launch    == ~up /\ nr_php_get_daemon_startup_mode(lfHost) = "AGENT"
  IN /\ ~Process(Master).alive /\ lfStarts < LfMaxStarts /\ lfConns < LfMaxConns
     /\ \A w \in LfWorkers : ~Process(w).alive
     /\ lfStarts' = lfStarts + 1
     /\ \/ /\ ~nr_php_check_for_threaded_mpm(lfHost)
           /\ Update(Master, [r0 EXCEPT !.enabled = FALSE])
           /\ UNCHANGED <<lfDaemon, lfConns>>
        \/ /\ nr_php_check_for_threaded_mpm(lfHost)
           /\ \/ ~lfHost.enabled
              \/ lfHost.conn = NULL
              \/ launch /\ ~spawned.ok
           /\ Update(Master, [r EXCEPT !.enabled = FALSE])
           /\ UNCHANGED <<lfDaemon, lfConns>>
        \/ /\ nr_php_check_for_threaded_mpm(lfHost) /\ lfHost.enabled /\ lfHost.conn # NULL
           /\ launch => spawned.ok
           /\ Update(Master, MinitHooks(lfHost, connected))
           /\ lfDaemon' = IF launch THEN spawned.daemon ELSE lfDaemon
           /\ lfConns' = IF up THEN lfConns + 1 ELSE lfConns
     /\ UNCHANGED lfHost

\* The SAPI makes a worker, a copy of its master.
Fork(w) ==
  /\ ~lfHost.cli /\ Process(Master).alive /\ ~Process(w).alive
  /\ Update(w, Process(Master))
  /\ UNCHANGED <<lfHost, lfDaemon, lfConns, lfStarts>>

\* A daemon that was started begins to listen.  (external: the daemon)
DaemonListens ==
  /\ lfDaemon.launched /\ ~lfDaemon.up
  /\ lfDaemon' = [lfDaemon EXCEPT !.up = TRUE]
  /\ UNCHANGED <<lfHost, lfProcs, lfConns, lfStarts>>

---------------------------------------------------------------------------
(* Requests.  The threads of workers serve them, and a command line process *)
(* its only one.                                                            *)

Serves(p) == Process(p).alive /\ (p # Master \/ lfHost.cli)

Go(p, t, from, to, r) ==
  /\ Serves(p) /\ Process(p).at[t] = from
  /\ Update(p, [r EXCEPT !.at[t] = to])

\* PHP_RINIT_FUNCTION up to nr_php_global_once's first look, which is without
\* the lock.
Rinit(p, t) ==
  /\ p = Master => \A u \in LfThreads : Process(p).at[u] = "idle"
  /\ Go(p, t, "idle", IF ~Process(p).enabled THEN "off"
                      ELSE IF Process(p).done THEN "begin" ELSE "lock", Process(p))
  /\ UNCHANGED <<lfHost, lfDaemon, lfConns, lfStarts>>

OnceLock(p, t) ==
  /\ Process(p).mutex = NULL
  /\ Go(p, t, "lock", "locked", [Process(p) EXCEPT !.mutex = t])
  /\ UNCHANGED <<lfHost, lfDaemon, lfConns, lfStarts>>

\* nr_php_late_initialization: the list of applications, the error callback, the
\* signal handler, the environment, the wrappers of internal functions.
nr_php_late_initialization(r) == [r EXCEPT !.applists = @ + 1]

\* The second look, with the lock.
nr_php_global_once(r) ==
  IF r.done THEN r ELSE [nr_php_late_initialization(r) EXCEPT !.done = TRUE]

OnceRun(p, t) ==
  /\ Go(p, t, "locked", "unlock", nr_php_global_once(Process(p)))
  /\ UNCHANGED <<lfHost, lfDaemon, lfConns, lfStarts>>

OnceUnlock(p, t) ==
  /\ Go(p, t, "unlock", "begin", [Process(p) EXCEPT !.mutex = NULL])
  /\ UNCHANGED <<lfHost, lfDaemon, lfConns, lfStarts>>

\* nr_php_txn_begin: a connection if there is a daemon.
TxnBegin(p, t) ==
  /\ IF Process(p).fd = NULL /\ lfDaemon.up /\ lfConns < LfMaxConns
     THEN /\ Go(p, t, "begin", "txn", [Process(p) EXCEPT !.fd = lfConns + 1])
          /\ lfConns' = lfConns + 1
     ELSE /\ Go(p, t, "begin", IF Process(p).fd = NULL THEN "off" ELSE "txn", Process(p))
          /\ UNCHANGED lfConns
  /\ UNCHANGED <<lfHost, lfDaemon, lfStarts>>

Rshutdown(p, t) ==
  /\ Process(p).at[t] \in {"txn", "off"}
  /\ Go(p, t, Process(p).at[t], "idle", Process(p))
  /\ UNCHANGED <<lfHost, lfDaemon, lfConns, lfStarts>>

\* What PHP_MSHUTDOWN_FUNCTION leaves of a process.
nr_php_mshutdown(r) ==
  IF ~r.enabled THEN [NewProcess EXCEPT !.handler = r.handler, !.wraprecs = r.wraprecs]
  ELSE [NewProcess EXCEPT !.handler = r.orig]

\* Every process shuts the module down, those that have not started it too.
Mshutdown(p) ==
  /\ Process(p).alive /\ \A t \in LfThreads : Process(p).at[t] = "idle"
  /\ p = Master => \A w \in LfWorkers : ~Process(w).alive
  /\ Update(p, nr_php_mshutdown(Process(p)))
  /\ UNCHANGED <<lfHost, lfDaemon, lfConns, lfStarts>>

---------------------------------------------------------------------------
LfHosts ==
  {[address |-> NULL, port |-> NULL, cfgfile |-> c, no_daemon_launch |-> n, cli |-> cli, conn |-> k,
    is_apache |-> ~cli, apache_threaded |-> thr, enabled |-> e, executable |-> x, writable |-> {"/var/log"},
    pidfile |-> NULL] :
     c, cli, thr, e, x \in BOOLEAN, n \in {0, 2}, k \in {NULL, "UNIX", "TCP_HOST_PORT"}}

\* A daemon may run before PHP does.
LfInit ==
  /\ lfHost \in LfHosts
  /\ lfProcs = [p \in LfProcesses |-> NewProcess]
  /\ \E up \in BOOLEAN : lfDaemon = [launched |-> FALSE, up |-> up, fds |-> {}, argv |-> <<>>]
  /\ lfConns = 0 /\ lfStarts = 0

LfNext ==
  \/ Minit \/ DaemonListens
  \/ \E w \in LfWorkers : Fork(w)
  \/ \E p \in LfProcesses : Mshutdown(p)
  \/ \E p \in LfProcesses, t \in LfThreads :
       Rinit(p, t) \/ OnceLock(p, t) \/ OnceRun(p, t) \/ OnceUnlock(p, t) \/ TxnBegin(p, t)
         \/ Rshutdown(p, t)

LfSpec == LfInit /\ [][LfNext]_lfVars

---------------------------------------------------------------------------
(* Properties.                                                              *)

\* No two processes talk to the daemon over one connection: replies would go to
\* whoever reads first.  The master connects in MINIT and its workers are copies.
OwnConnections ==
  \A p, q \in LfProcesses :
    p # q /\ Process(p).alive /\ Process(q).alive /\ Process(p).fd # NULL
      => Process(p).fd # Process(q).fd

\* When a request has a transaction, in whichever thread, the late initialisation
\* of its process has been done, to the end, and once.
LateOnce ==
  \A p \in LfProcesses :
    /\ Process(p).applists <= 1
    /\ \A t \in LfThreads : Process(p).at[t] \in {"begin", "txn"} => Process(p).applists = 1

\* The SAPI's header handler is the agent's exactly in a process where the agent
\* has started, and never remembered as the one to call next: after any way
\* through MINIT and MSHUTDOWN, and after a graceful restart, it is the SAPI's.
HandlerBalanced ==
  \A p \in LfProcesses :
    /\ Process(p).orig # "newrelic"
    /\ Process(p).handler = "newrelic" <=> Process(p).alive /\ Process(p).enabled

\* Processes that PHP starts, forks and ends keep apart what belongs to one of
\* them (PHP_MINIT_FUNCTION, nr_php_global_once, PHP_MSHUTDOWN_FUNCTION).
ProcessesAreApart == OwnConnections /\ LateOnce /\ HandlerBalanced
=============================================================================
