----------------------------- MODULE DaemonLink -----------------------------
(***************************************************************************)
(* The agent's connection to the daemon and the list of applications one   *)
(* PHP process keeps: axiom/nr_agent.c (the socket and its mutex),         *)
(* nr_app.c (applications, their locks, when to ask the daemon),           *)
(* cmd_appinfo_transmit.c (the only exchange that waits for a reply),      *)
(* cmd_txndata_transmit.c and cmd_span_batch_transmit.c (one-way messages) *)
(* and util_network.c (deadlines, partial writes, framing).                *)
(*                                                                         *)
(* A process runs one thread (NTS builds) or several (ZTS builds), which   *)
(* share the socket and the applications.  A socket is named by its file   *)
(* descriptor, and a closed descriptor is given out again.  The daemon is  *)
(* external: it answers, stops, comes back and moves to another host as    *)
(* it likes.                                                               *)
(***************************************************************************)
EXTENDS Naturals, Integers, Sequences, FiniteSets

CONSTANTS Threads,      \* the threads of one PHP process
          Apps,         \* application names a request may ask for
          Fds,          \* file descriptors, positive numbers
          Hosts,        \* what the daemon's host name may resolve to
          NoThread, NoApp, NoRun, NoHost,
          NR_APP_LIMIT, \* applications one process may hold
          BackoffSeconds, BackoffLimit, RefreshPeriod, \* of nr_app_private.h
          MaxRuns,      \* agent runs the collector hands out per application
          MaxFailed     \* cap on failed_daemon_query_count

ASSUME LinkAssumption ==
    /\ NR_APP_LIMIT \in Nat \ {0}
    /\ Fds \subseteq Nat \ {0} /\ IsFiniteSet(Fds) /\ Fds # {}
    /\ BackoffSeconds \in Nat \ {0} /\ BackoffLimit \in Nat
    /\ RefreshPeriod \in Nat /\ BackoffLimit <= RefreshPeriod
    /\ MaxFailed \in Nat /\ MaxRuns \in Nat
    /\ NoThread \notin Threads /\ NoApp \notin Apps /\ NoHost \notin Hosts
    /\ NoRun \notin Apps \X (1..MaxRuns)
    /\ IsFiniteSet(Threads) /\ Threads # {} /\ Hosts # {}

VARIABLES
    active,       \* the threads that run: one, or all of them
    desired,      \* is the daemon address host:port, resolved again later?
    sa,           \* nr_agent_daemon_sa: the host connect() goes to
    daemon_fd, conn_state, daemon_mutex,
    sock,         \* the open sockets of the process, by descriptor
    applist, applist_lock, app_lock, app,
    pc, cur, fd,   \* per thread: where it is, its app, descriptor
    txn,          \* per thread: the run id of its transaction, or NoRun
    up, host, run \* the daemon: is it running, where, its run of each app

linkVars == <<desired, sa, daemon_fd, conn_state, sock>>
appVars == <<applist, applist_lock, app_lock, app>>
daemonVars == <<up, host, run>>
threadVars == <<pc, cur, fd, txn>>
vars == <<active, linkVars, daemon_mutex, appVars, threadVars, daemonVars>>

Solo == Cardinality(active) = 1
None == -1                       \* no descriptor
States == {"UNKNOWN", "OK", "INVALID"}
RunIds == Apps \X (1..MaxRuns)
ConnStates == {"START", "IN_PROGRESS", "CONNECTED"}

(***************************************************************************)
(* Daemon addresses.  An address is told by its shape: the character that  *)
(* decides its kind and whether the rest of it is well formed.             *)
(***************************************************************************)
Addresses == [kind : {"at", "colon", "slash", "number"}, ok : BOOLEAN]

\* A port is a number between 1 and 65535; anything else is -1.
nr_parse_port(isNumber, n) == IF isNumber /\ n \in 1..65535 THEN n ELSE -1

\* host:port needs a host, a port, and a port that parses.
nr_parse_address_port(address) == address.ok

nr_conn_params_init(address) ==
    CASE address.kind = "at" -> IF address.ok THEN "ABSTRACT_SOCKET" ELSE "UNKNOWN"
      [] address.kind = "colon" ->
            IF nr_parse_address_port(address) THEN "TCP_HOST_PORT" ELSE "UNKNOWN"
      [] address.kind = "slash" -> IF address.ok THEN "UNIX_DOMAIN_SOCKET" ELSE "UNKNOWN"
      [] OTHER ->
            IF nr_parse_port(address.ok, 31339) # -1 THEN "TCP_LOOPBACK" ELSE "UNKNOWN"

TypeOK ==
    /\ active \in SUBSET Threads
    /\ desired \in BOOLEAN
    /\ sa \in Hosts \cup {NoHost}
    /\ daemon_fd \in Fds \cup {None} /\ conn_state \in ConnStates
    /\ daemon_mutex \in Threads \cup {NoThread}
    /\ \A f \in DOMAIN sock :
          /\ f \in Fds /\ sock[f].to \in Hosts /\ sock[f].peer \in BOOLEAN
          /\ sock[f].torn \in BOOLEAN /\ sock[f].mixed \in BOOLEAN /\ sock[f].query \in Seq(Apps)
    /\ applist_lock \in Threads \cup {NoThread}
    /\ app_lock \in [Apps -> Threads \cup {NoThread}]
    /\ \A a \in Apps :
          /\ app[a].state \in States /\ app[a].run \in RunIds \cup {NoRun}
          /\ app[a].failed \in 0..MaxFailed
    /\ txn \in [Threads -> RunIds \cup {NoRun}]
    /\ fd \in [Threads -> Fds \cup {None}]
    /\ up \in BOOLEAN /\ host \in Hosts /\ run \in [Apps -> 0..MaxRuns]

-----------------------------------------------------------------------------
(***************************************************************************)
(* Sockets and the connection (nr_agent.c).                                *)
(***************************************************************************)
FreeFds == Fds \ DOMAIN sock

\* socket() and fcntl(): the lowest free descriptor, not yet connected.
nr_agent_create_socket ==
    CHOOSE f \in FreeFds : \A g \in FreeFds : f <= g

NewSocket(h) == [to |-> h, peer |-> FALSE, torn |-> FALSE, mixed |-> FALSE,
                 query |-> <<>>, in |-> <<>>]

WithoutSocket(s, f) == [g \in DOMAIN s \ {f} |-> s[g]]

\* What connect() on a socket can say: it succeeds only against a running
\* daemon; it may be left in progress in either case.
ConnectOutcomes(s) ==
    {"inprogress"} \cup (IF up /\ s.to = host THEN {"connected"} ELSE {"refused"})

(***************************************************************************)
(* nr_get_daemon_fd_internal, with the mutex held: an established          *)
(* connection is returned as it is; otherwise a socket is made if there is *)
(* none and connect() is tried once.  rv is the descriptor returned.       *)
(***************************************************************************)
nr_get_daemon_fd_internal(rv) ==
    \/ /\ conn_state = "CONNECTED"
       /\ rv = daemon_fd
       /\ UNCHANGED <<daemon_fd, conn_state, sock>>
    \/ \* socket() or fcntl() failed: nothing is kept
       /\ conn_state # "CONNECTED" /\ daemon_fd = None
       /\ rv = None
       /\ UNCHANGED <<daemon_fd, conn_state, sock>>
    \/ /\ conn_state # "CONNECTED"
       /\ daemon_fd = None => FreeFds # {}
       /\ LET f == IF daemon_fd = None THEN nr_agent_create_socket ELSE daemon_fd
              s == IF daemon_fd = None THEN NewSocket(sa) ELSE sock[f]
          IN \E outcome \in ConnectOutcomes(s) :
                \/ /\ outcome = "connected"
                   /\ rv = f /\ daemon_fd' = f /\ conn_state' = "CONNECTED"
                   /\ sock' = [g \in DOMAIN sock \cup {f} |->
                                 IF g = f THEN [s EXCEPT !.peer = TRUE] ELSE sock[g]]
                \/ /\ outcome = "inprogress"
                   /\ rv = None /\ daemon_fd' = f /\ conn_state' = "IN_PROGRESS"
                   /\ sock' = [g \in DOMAIN sock \cup {f} |-> IF g = f THEN s ELSE sock[g]]
                \/ /\ outcome = "refused"
                   /\ rv = None /\ daemon_fd' = None /\ conn_state' = "START"
                   /\ sock' = WithoutSocket(sock, f)

\* Name resolution again, when the address is host:port; sa stays as it was
\* when the TTL is not over and when getaddrinfo fails.
nr_agent_reinitialize_daemon_tcp_connection_parameters ==
    IF desired THEN sa' \in {sa, host} ELSE UNCHANGED sa

\* Mutant: the descriptor is forgotten without close().
mut_set_daemon_fd_keeps_socket ==
    /\ daemon_fd' = None
    /\ conn_state' = "START"
    /\ UNCHANGED sock

\* The connection state after nr_set_daemon_fd(-1).
nr_set_daemon_fd_closed ==
    /\ sock' = IF daemon_fd # None THEN WithoutSocket(sock, daemon_fd) ELSE sock
    /\ daemon_fd' = None
    /\ conn_state' = "START"

-----------------------------------------------------------------------------
(***************************************************************************)
(* Applications (nr_app.c).                                                *)
(***************************************************************************)
create_new_app == [state |-> "UNKNOWN", run |-> NoRun, failed |-> 0]

\* Is it time to ask the daemon about the application?  age is now minus
\* last_daemon_query; it is negative when the clock went back.
nr_agent_should_do_app_daemon_query(x, age) ==
    LET wait == x.failed * BackoffSeconds
        period == IF x.state = "UNKNOWN"
                    THEN IF wait > BackoffLimit THEN BackoffLimit ELSE wait
                    ELSE RefreshPeriod
    IN /\ x.state # "INVALID"
       /\ \/ age >= period
          \/ age < -RefreshPeriod

Listed(a) == \E i \in 1..Len(applist) : applist[i] = a

NoReply == [app |-> NoApp, status |-> "none"]
NoCur == [app |-> NoApp, at |-> 0]

(***************************************************************************)
(* A thread begins a transaction: nr_php_txn_begin gives up at once when   *)
(* there is no connection, and then looks the application up.              *)
(***************************************************************************)
nr_get_daemon_fd(t, from, to) ==
    /\ pc[t] = from /\ daemon_mutex = NoThread
    /\ \E rv \in Fds \cup {None} :
          /\ nr_get_daemon_fd_internal(rv)
          /\ fd' = [fd EXCEPT ![t] = rv]
          /\ IF rv = None
               THEN nr_agent_reinitialize_daemon_tcp_connection_parameters
               ELSE UNCHANGED sa
    /\ pc' = [pc EXCEPT ![t] = to]
    /\ UNCHANGED <<active, desired, daemon_mutex, appVars, cur, txn, daemonVars>>

\* The descriptor is only tested here.
BeginNeedsDaemon(t) ==
    /\ pc[t] = "idle" /\ daemon_mutex = NoThread
    /\ \E rv \in Fds \cup {None} :
          /\ nr_get_daemon_fd_internal(rv)
          /\ IF rv = None
               THEN nr_agent_reinitialize_daemon_tcp_connection_parameters /\ UNCHANGED pc
               ELSE UNCHANGED sa /\ pc' = [pc EXCEPT ![t] = "begin"]
    /\ UNCHANGED <<active, desired, daemon_mutex, appVars, cur, fd, txn, daemonVars>>

Begin(t) ==
    /\ pc[t] = "begin" /\ applist_lock = NoThread
    /\ applist_lock' = t
    /\ \E a \in Apps : cur' = [cur EXCEPT ![t] = [app |-> a, at |-> 1]]
    /\ pc' = [pc EXCEPT ![t] = "scan"]
    /\ UNCHANGED <<active, linkVars, daemon_mutex, applist, app_lock, app, fd, txn, daemonVars>>

\* nr_app_find_or_add_app: with the list locked, every application is locked
\* in turn to compare it; the match is kept locked.  An application with
\* another high_security setting is given back.
Scan(t) ==
    /\ pc[t] = "scan" /\ cur[t].at <= Len(applist)
    /\ LET a == applist[cur[t].at] IN
       /\ app_lock[a] = NoThread
       /\ \/ /\ a # cur[t].app
             /\ cur' = [cur EXCEPT ![t].at = @ + 1]
             /\ UNCHANGED <<applist_lock, app_lock, pc>>
          \/ /\ a = cur[t].app
             /\ app_lock' = [app_lock EXCEPT ![a] = t]
             /\ applist_lock' = NoThread
             /\ pc' = [pc EXCEPT ![t] = "consider"]
             /\ UNCHANGED cur
          \/ /\ a = cur[t].app
             /\ applist_lock' = NoThread
             /\ cur' = [cur EXCEPT ![t] = NoCur]
             /\ pc' = [pc EXCEPT ![t] = "idle"]
             /\ UNCHANGED app_lock
    /\ UNCHANGED <<active, linkVars, daemon_mutex, applist, app, fd, txn, daemonVars>>

Add(t) ==
    /\ pc[t] = "scan" /\ cur[t].at > Len(applist)
    /\ applist_lock' = NoThread
    /\ LET a == cur[t].app IN
       IF Len(applist) >= NR_APP_LIMIT
         THEN /\ cur' = [cur EXCEPT ![t] = NoCur]
              /\ pc' = [pc EXCEPT ![t] = "idle"]
              /\ UNCHANGED <<applist, app_lock, app>>
         ELSE /\ applist' = Append(applist, a)
              /\ app_lock' = [app_lock EXCEPT ![a] = t]
              /\ app' = [app EXCEPT ![a] = create_new_app]
              /\ pc' = [pc EXCEPT ![t] = "consider"]
              /\ UNCHANGED cur
    /\ UNCHANGED <<active, linkVars, daemon_mutex, fd, txn, daemonVars>>

\* nr_app_consider_appinfo, up to the query, at any time since the last one.
Consider(t) ==
    /\ pc[t] = "consider"
    /\ \E age \in -(RefreshPeriod + 1)..RefreshPeriod :
          pc' = [pc EXCEPT ![t] =
                   IF nr_agent_should_do_app_daemon_query(app[cur[t].app], age)
                     THEN "getfd" ELSE "decide"]
    /\ UNCHANGED <<active, linkVars, daemon_mutex, appVars, cur, fd, txn, daemonVars>>

GetFd(t) == nr_get_daemon_fd(t, "getfd", "query")

(***************************************************************************)
(* nr_cmd_appinfo_tx.  The descriptor was read before the mutex is taken.  *)
(* A write on a closed descriptor fails; one that runs into the deadline   *)
(* has left part of the message in the stream, and what is written after   *)
(* that is mixed up with it.                                               *)
(***************************************************************************)
nr_write_message(s, msg) ==
    IF s.torn THEN [s EXCEPT !.mixed = TRUE]
    ELSE IF s.peer THEN [s EXCEPT !.query = @ \o msg] ELSE s

nr_write_full_fails(f) ==
    sock' = IF f \in DOMAIN sock THEN [sock EXCEPT ![f].torn = TRUE] ELSE sock

\* What a reply does to the application; the second component tells whether
\* nr_cmd_appinfo_process_reply succeeded.
nr_cmd_appinfo_process_reply(x, r) ==
    CASE r.status = "unknown" -> <<[x EXCEPT !.state = "UNKNOWN"], TRUE>>
      [] r.status \in {"disconnected", "invalid_license"} -> <<[x EXCEPT !.state = "INVALID"], TRUE>>
      [] r.status = "still_valid" -> <<[x EXCEPT !.state = "OK"], TRUE>>
      [] r.status = "connected" -> <<[x EXCEPT !.state = "OK", !.run = r.run], TRUE>>
      [] OTHER -> <<[x EXCEPT !.state = "UNKNOWN"], FALSE>>

\* failed_daemon_query_count, from the state the query left.
nr_app_consider_appinfo(x) ==
    [x EXCEPT !.failed = IF x.state = "OK" THEN 0 ELSE IF @ < MaxFailed THEN @ + 1 ELSE @]

\* A query that failed (write, deadline, or a reply that makes no sense): the
\* connection is still to be closed, which needs the mutex again.
QueryEnds(t, p) ==
    /\ app' = [app EXCEPT ![cur[t].app] = nr_app_consider_appinfo(p[1])]
    /\ pc' = [pc EXCEPT ![t] = IF p[2] THEN "decide" ELSE "close"]

AppinfoWrite(t) ==
    /\ pc[t] = "query" /\ daemon_mutex = NoThread
    /\ LET f == fd[t]
           x == [app[cur[t].app] EXCEPT !.state = "UNKNOWN"]
       IN \/ /\ f = None
             /\ QueryEnds(t, <<app[cur[t].app], TRUE>>)
             /\ UNCHANGED <<sock, daemon_mutex>>
          \/ /\ f \in DOMAIN sock
             /\ sock' = [sock EXCEPT ![f] = nr_write_message(@, <<cur[t].app>>)]
             /\ app' = [app EXCEPT ![cur[t].app] = x]
             /\ daemon_mutex' = t
             /\ pc' = [pc EXCEPT ![t] = "receive"]
          \/ /\ f # None
             /\ nr_write_full_fails(f)
             /\ QueryEnds(t, nr_cmd_appinfo_process_reply(x, NoReply))
             /\ UNCHANGED daemon_mutex
    /\ UNCHANGED <<active, desired, sa, daemon_fd, conn_state, applist,
                   applist_lock, app_lock, cur, fd, txn, daemonVars>>

\* The next reply of the stream, or nothing: the deadline has passed, the
\* connection is closed, the preamble is bad.
nr_network_receive(f) ==
    {NoReply} \cup (IF f \in DOMAIN sock /\ sock[f].in # <<>> THEN {Head(sock[f].in)} ELSE {})

\* Mutant: the mutex is only released when a reply came.
mut_receive_keeps_mutex(t) ==
    /\ pc[t] = "receive"
    /\ LET f == fd[t]
           x == app[cur[t].app]
       IN \/ /\ f \in DOMAIN sock /\ sock[f].in # <<>>
             /\ QueryEnds(t, nr_cmd_appinfo_process_reply(x, Head(sock[f].in)))
             /\ sock' = [sock EXCEPT ![f].in = Tail(@)]
             /\ daemon_mutex' = NoThread
          \/ /\ QueryEnds(t, nr_cmd_appinfo_process_reply(x, NoReply))
             /\ UNCHANGED <<sock, daemon_mutex>>
    /\ UNCHANGED <<active, desired, sa, daemon_fd, conn_state, applist,
                   applist_lock, app_lock, cur, fd, txn, daemonVars>>

\* The reply is awaited with the mutex still held.
AppinfoReceive(t) ==
    /\ pc[t] = "receive"
    /\ LET f == fd[t]
           x == app[cur[t].app]
       IN \E reply \in nr_network_receive(f) :
             /\ QueryEnds(t, nr_cmd_appinfo_process_reply(x, reply))
             /\ sock' = IF reply = NoReply THEN sock ELSE [sock EXCEPT ![f].in = Tail(@)]
    /\ daemon_mutex' = NoThread
    /\ UNCHANGED <<active, desired, sa, daemon_fd, conn_state, applist,
                   applist_lock, app_lock, cur, fd, txn, daemonVars>>

\* Mutant: the connection is kept after a query that failed.
mut_close_skipped(t) ==
    /\ pc[t] = "close" /\ daemon_mutex = NoThread
    /\ pc' = [pc EXCEPT ![t] = "decide"]
    /\ UNCHANGED <<active, linkVars, daemon_mutex, appVars, cur, fd, txn, daemonVars>>

nr_agent_close_daemon_connection(t) ==
    /\ pc[t] = "close" /\ daemon_mutex = NoThread
    /\ nr_set_daemon_fd_closed
    /\ pc' = [pc EXCEPT ![t] = "decide"]
    /\ UNCHANGED <<active, desired, sa, daemon_mutex, appVars, cur, fd, txn, daemonVars>>

\* nr_agent_find_or_add_app: OK and INVALID end the loop; otherwise the query
\* is considered again until the timeout.  nr_txn_begin takes the run id of an
\* application that is OK, and the application is unlocked in every case.
nr_agent_find_or_add_app(t) ==
    /\ pc[t] = "decide"
    /\ LET a == cur[t].app IN
       \/ /\ app[a].state \notin {"OK", "INVALID"}
          /\ pc' = [pc EXCEPT ![t] = "consider"]
          /\ UNCHANGED <<app_lock, cur, txn>>
       \/ /\ txn' = [txn EXCEPT ![t] = IF app[a].state = "OK" THEN app[a].run ELSE NoRun]
          /\ app_lock' = [app_lock EXCEPT ![a] = NoThread]
          /\ cur' = [cur EXCEPT ![t] = IF app[a].state = "OK" THEN [app |-> a, at |-> 0] ELSE NoCur]
          /\ pc' = [pc EXCEPT ![t] = IF app[a].state = "OK" THEN "intxn" ELSE "idle"]
    /\ fd' = [fd EXCEPT ![t] = None]
    /\ UNCHANGED <<active, linkVars, daemon_mutex, applist, applist_lock, app, daemonVars>>

(***************************************************************************)
(* The end of a transaction: nr_cmd_txndata_tx, and the same for a batch   *)
(* of spans (nr_cmd_span_batch_tx).  Nothing is read back.                 *)
(***************************************************************************)
EndGetFd(t) == nr_get_daemon_fd(t, "intxn", "send")

SendData(t) ==
    /\ pc[t] = "send" /\ daemon_mutex = NoThread
    /\ LET f == fd[t] IN
       \/ /\ f = None
          /\ pc' = [pc EXCEPT ![t] = "idle"] /\ txn' = [txn EXCEPT ![t] = NoRun]
          /\ UNCHANGED sock
       \/ /\ f \in DOMAIN sock
          /\ pc' = [pc EXCEPT ![t] = "idle"] /\ txn' = [txn EXCEPT ![t] = NoRun]
          /\ sock' = [sock EXCEPT ![f] = nr_write_message(@, <<>>)]
       \/ /\ f # None
          /\ nr_write_full_fails(f)
          /\ pc' = [pc EXCEPT ![t] = "failed"] /\ UNCHANGED txn
    /\ fd' = [fd EXCEPT ![t] = None]
    /\ cur' = [cur EXCEPT ![t] = NoCur]
    /\ UNCHANGED <<active, desired, sa, daemon_fd, conn_state, daemon_mutex,
                   appVars, daemonVars>>

SendFailed(t) ==
    /\ pc[t] = "failed" /\ daemon_mutex = NoThread
    /\ nr_set_daemon_fd_closed
    /\ pc' = [pc EXCEPT ![t] = "idle"] /\ txn' = [txn EXCEPT ![t] = NoRun]
    /\ UNCHANGED <<active, desired, sa, daemon_mutex, appVars, cur, fd, daemonVars>>

-----------------------------------------------------------------------------
(***************************************************************************)
(* The world outside: the daemon.                                          *)
(***************************************************************************)
\* The daemon answers a query; a run id is handed out once per application
\* and daemon, and confirmed afterwards.
DaemonReply(f) ==
    /\ f \in DOMAIN sock /\ sock[f].query # <<>> /\ sock[f].peer
    /\ LET a == Head(sock[f].query) IN
       \/ /\ \E status \in {"unknown", "invalid_license", "disconnected", "garbage"} :
                sock' = [sock EXCEPT ![f].query = Tail(@),
                                     ![f].in = Append(@, [app |-> a, status |-> status])]
          /\ UNCHANGED run
       \/ /\ run[a] < MaxRuns
          /\ run' = [run EXCEPT ![a] = @ + 1]
          /\ sock' = [sock EXCEPT ![f].query = Tail(@),
                        ![f].in = Append(@, [app |-> a, status |-> "connected",
                                             run |-> <<a, run[a] + 1>>])]
       \/ /\ app[a].run # NoRun /\ app[a].run = <<a, run[a]>>
          /\ sock' = [sock EXCEPT ![f].query = Tail(@),
                        ![f].in = Append(@, [app |-> a, status |-> "still_valid"])]
          /\ UNCHANGED run
    /\ UNCHANGED <<active, desired, sa, daemon_fd, conn_state, daemon_mutex,
                   appVars, threadVars, up, host>>

\* The daemon stops or comes back, perhaps on another host.  Bound: it only
\* moves away from a process of one thread.
DaemonStop ==
    /\ up /\ up' = FALSE
    /\ sock' = [f \in DOMAIN sock |-> [sock[f] EXCEPT !.peer = FALSE, !.query = <<>>]]
    /\ UNCHANGED <<active, desired, sa, daemon_fd, conn_state, daemon_mutex,
                   appVars, threadVars, host, run>>

DaemonStart ==
    /\ ~up /\ up' = TRUE
    /\ host' \in IF desired /\ Solo THEN Hosts ELSE {host}
    /\ UNCHANGED <<active, linkVars, daemon_mutex, appVars, threadVars, run>>

Init ==
    /\ \E a \in SUBSET Threads : active = a /\ (Cardinality(a) = 1 \/ a = Threads)
    /\ \E address \in Addresses :
          nr_conn_params_init(address) # "UNKNOWN"
             /\ desired = (nr_conn_params_init(address) = "TCP_HOST_PORT")
    /\ host = (CHOOSE h \in Hosts : TRUE) /\ sa = host
    /\ daemon_fd = None /\ conn_state = "START" /\ daemon_mutex = NoThread
    /\ sock = [f \in {} |-> 0]
    /\ applist = <<>> /\ applist_lock = NoThread
    /\ app_lock = [a \in Apps |-> NoThread]
    /\ app = [a \in Apps |-> create_new_app]
    /\ pc = [t \in Threads |-> "idle"]
    /\ cur = [t \in Threads |-> NoCur]
    /\ fd = [t \in Threads |-> None]
    /\ txn = [t \in Threads |-> NoRun]
    /\ up = TRUE /\ run = [a \in Apps |-> 0]

Step(t) ==
    \/ BeginNeedsDaemon(t) \/ Begin(t) \/ Scan(t) \/ Add(t) \/ Consider(t)
    \/ GetFd(t) \/ AppinfoWrite(t) \/ AppinfoReceive(t)
    \/ nr_agent_close_daemon_connection(t)
    \/ nr_agent_find_or_add_app(t) \/ EndGetFd(t) \/ SendData(t) \/ SendFailed(t)

Next ==
    \/ \E t \in active : Step(t)
    \/ \E f \in Fds : DaemonReply(f)
    \/ DaemonStop \/ DaemonStart

Spec == Init /\ [][Next]_vars

-----------------------------------------------------------------------------
(***************************************************************************)
(* No descriptor is lost: whatever fails while a connection is made, used  *)
(* or given up, the only socket of the process is the one in               *)
(* nr_agent_daemon_fd, and a connection that is called CONNECTED or        *)
(* IN_PROGRESS has one.                                                    *)
(***************************************************************************)
NoSocketLeaks ==
    /\ TypeOK
    /\ DOMAIN sock = {daemon_fd} \ {None}
    /\ conn_state # "START" => daemon_fd # None

(***************************************************************************)
(* A reply is only ever applied to the application it answers: no          *)
(* application takes the run of another, and one that is OK has a run.     *)
(***************************************************************************)
RunsAreOwn ==
    \A a \in Apps :
        /\ app[a].run # NoRun => app[a].run[1] = a
        /\ app[a].state = "OK" => app[a].run # NoRun

(***************************************************************************)
(* Nothing is written to a connection after a message of which only a part *)
(* got through: the daemon never takes the middle of one message for the   *)
(* preamble of the next.                                                   *)
(***************************************************************************)
FramesAreWhole == \A f \in DOMAIN sock : ~sock[f].mixed

(***************************************************************************)
(* A process of one thread keeps replies and frames apart, as a late       *)
(* answer to a query that timed out is lost with its connection            *)
(* (nr_cmd_appinfo_tx, nr_agent_close_daemon_connection).  Several threads *)
(* do not: the connection is read and used outside of its lock.            *)
(***************************************************************************)
SoloIsServed == Solo => RunsAreOwn /\ FramesAreWhole

\* The lock that the next step of the thread takes is another step's.
Waits(t) ==
    \/ /\ pc[t] \in {"idle", "getfd", "query", "close", "intxn", "send", "failed"}
       /\ daemon_mutex # NoThread
    \/ pc[t] = "begin" /\ applist_lock # NoThread
    \/ /\ pc[t] = "scan" /\ cur[t].at <= Len(applist)
       /\ app_lock[applist[cur[t].at]] # NoThread

(***************************************************************************)
(* The locks of the list, of the applications and of the connection never  *)
(* leave every thread waiting: some thread can always take its next step.  *)
(***************************************************************************)
SomeThreadRuns == \E t \in active : ~Waits(t)
=============================================================================
