--------------------------- MODULE DaemonLinkProofs ---------------------------
(* For any number of threads, applications, descriptors and runs, and a    *)
(* daemon that stops, returns and answers as it likes: the process loses   *)
(* no descriptor, and a process of one thread gives every reply to the     *)
(* application it answers and never writes behind half a message.          *)
EXTENDS DaemonLink, FiniteSetTheorems, WellFoundedInduction, TLAPS

Pcs == {"idle", "begin", "scan", "consider", "getfd", "query", "receive", "close", "decide",
        "intxn", "send", "failed"}

Statuses == {"unknown", "invalid_license", "disconnected", "garbage", "still_valid"}

(* What the daemon may have put into the stream.                           *)
Replies == [app : Apps, status : Statuses] \cup [app : Apps, status : {"connected"}, run : RunIds]

Socket == [to : Hosts, peer : BOOLEAN, torn : BOOLEAN, mixed : BOOLEAN,
           query : Seq(Apps), in : Seq(Replies)]

AppRecord == [state : States, run : RunIds \cup {NoRun}, failed : 0..MaxFailed]

(* Where a thread has found the application it works for.                  *)
HasApp == {"scan", "consider", "getfd", "query", "receive", "close", "decide", "intxn"}

Types ==
    /\ active \in SUBSET Threads
    /\ desired \in BOOLEAN /\ sa \in Hosts
    /\ daemon_fd \in Fds \cup {None} /\ conn_state \in ConnStates
    /\ daemon_mutex \in Threads \cup {NoThread}
    /\ sock \in [DOMAIN sock -> Socket]
    /\ applist \in Seq(Apps)
    /\ applist_lock \in Threads \cup {NoThread}
    /\ app_lock \in [Apps -> Threads \cup {NoThread}]
    /\ app \in [Apps -> AppRecord]
    /\ pc \in [Threads -> Pcs]
    /\ cur \in [Threads -> [app : Apps \cup {NoApp}, at : Nat]]
    /\ fd \in [Threads -> Fds \cup {None}]
    /\ txn \in [Threads -> RunIds \cup {NoRun}]
    /\ up \in BOOLEAN /\ host \in Hosts /\ run \in [Apps -> 0..MaxRuns]
    /\ \A t \in Threads : pc[t] \in HasApp => cur[t].app \in Apps

OneSocket ==
    /\ DOMAIN sock = {daemon_fd} \ {None}
    /\ conn_state # "START" => daemon_fd # None

(* The stream of a socket between two exchanges of a thread.               *)
Clear(s) == ~s.torn /\ s.query = <<>> /\ s.in = <<>>

(* A reply that the application a may be given.                            *)
Fits(r, a) ==
    /\ r.app = a
    /\ r.status = "connected" => r.run[1] = a
    /\ r.status = "still_valid" => app[a].run # NoRun

(* The stream while the reply for the application a is awaited.            *)
Awaiting(s, a) ==
    /\ ~s.torn
    /\ \/ s.query = <<>> /\ s.in = <<>>
       \/ s.query = <<a>> /\ s.in = <<>>
       \/ s.query = <<>> /\ \E r \in Replies : s.in = <<r>> /\ Fits(r, a)

(* The connection as the only thread of a process leaves it.               *)
Exchange(t) ==
    \A f \in DOMAIN sock :
        /\ ~sock[f].mixed
        /\ pc[t] = "receive" => Awaiting(sock[f], cur[t].app)
        /\ pc[t] = "failed" => sock[f].query = <<>> /\ sock[f].in = <<>>
        /\ pc[t] \notin {"receive", "close", "failed"} => Clear(sock[f])

SoloInv == \A t \in Threads : active = {t} => Exchange(t) /\ RunsAreOwn

IInv == Types /\ OneSocket /\ SoloInv

-----------------------------------------------------------------------------
(* The lowest free descriptor exists.                                      *)
LEMMA LowestFree ==
    ASSUME FreeFds # {}
    PROVE  nr_agent_create_socket \in Fds \ DOMAIN sock
<1>1. FreeFds \subseteq Nat
  BY LinkAssumption DEF FreeFds
<1>2. PICK x \in FreeFds : \A y \in FreeFds : ~(<<y, x>> \in OpToRel(<, Nat))
  BY <1>1, NatLessThanWellFounded, WFMin
<1>3. ASSUME NEW y \in FreeFds PROVE x <= y
  <2>1. x \in Nat /\ y \in Nat
    BY <1>1
  <2>2. <<y, x>> \in OpToRel(<, Nat) <=> y < x
    <3> DEFINE p == <<y, x>>
    <3>1. p \in Nat \X Nat /\ p[1] = y /\ p[2] = x
      BY <2>1
    <3> HIDE DEF p
    <3>2. p \in OpToRel(<, Nat) <=> p[1] < p[2]
      BY <3>1 DEF OpToRel
    <3> QED
      BY <3>1, <3>2 DEF p
  <2>3. ~(<<y, x>> \in OpToRel(<, Nat))
    BY <1>2
  <2>4. ~(y < x)
    BY <2>2, <2>3
  <2> QED
    BY <2>1, <2>4
<1> QED
  BY <1>2, <1>3 DEF nr_agent_create_socket, FreeFds

(* Sequences of at most one element.                                       *)
LEMMA ShortSequences ==
    ASSUME NEW S, NEW x \in S
    PROVE  /\ <<x>> \in Seq(S) /\ <<>> \in Seq(S)
           /\ <<x>> # <<>> /\ Head(<<x>>) = x /\ Tail(<<x>>) = <<>>
           /\ <<>> \o <<x>> = <<x>> /\ <<>> \o <<>> = <<>> /\ Append(<<>>, x) = <<x>>
  OBVIOUS

LEMMA InitIInv == Init => IInv
<1> SUFFICES ASSUME Init PROVE IInv
  OBVIOUS
<1>1. host \in Hosts
  BY LinkAssumption DEF Init
<1>2. create_new_app \in AppRecord
  BY LinkAssumption DEF create_new_app, AppRecord, States
<1>3. DOMAIN sock = {}
  BY DEF Init
<1>4. Types
  BY <1>1, <1>2, <1>3, LinkAssumption DEF Init, Types, ConnStates, Pcs, HasApp, NoCur
<1>5. OneSocket
  BY <1>3 DEF Init, OneSocket
<1>6. SoloInv
  BY <1>3 DEF Init, SoloInv, Exchange, RunsAreOwn, create_new_app
<1> QED
  BY <1>4, <1>5, <1>6 DEF IInv

-----------------------------------------------------------------------------
(* What the operations do to the connection and to an application.         *)

(* An application record is its own when it holds no other one's run, and  *)
(* a run if it is OK.                                                      *)
OwnRun(x, a) == /\ x.run # NoRun => x.run[1] = a
                /\ x.state = "OK" => x.run # NoRun

(* connect() leaves a socket as it was or makes one that nothing was       *)
(* written to, and the descriptor follows it.                              *)
LEMMA ConnectEffect ==
    ASSUME Types, OneSocket, NEW rv \in Fds \cup {None}, nr_get_daemon_fd_internal(rv)
    PROVE  /\ daemon_fd' \in Fds \cup {None} /\ conn_state' \in ConnStates
           /\ sock' \in [DOMAIN sock' -> Socket]
           /\ OneSocket'
           /\ \A f \in DOMAIN sock' :
                 \/ /\ f \in DOMAIN sock
                    /\ sock'[f].torn = sock[f].torn /\ sock'[f].mixed = sock[f].mixed
                    /\ sock'[f].query = sock[f].query /\ sock'[f].in = sock[f].in
                 \/ ~sock'[f].mixed /\ Clear(sock'[f])
<1>1. CASE UNCHANGED <<daemon_fd, conn_state, sock>>
  <2>1. OneSocket'
    BY <1>1 DEF OneSocket
  <2> QED
    BY <1>1, <2>1 DEF Types
<1>2. CASE ~UNCHANGED <<daemon_fd, conn_state, sock>>
  <2> DEFINE f == IF daemon_fd = None THEN nr_agent_create_socket ELSE daemon_fd
             s == IF daemon_fd = None THEN NewSocket(sa) ELSE sock[f]
  <2>1. /\ daemon_fd = None => FreeFds # {}
        /\ \E outcome \in ConnectOutcomes(s) :
                \/ /\ outcome = "connected"
                   /\ rv = f /\ daemon_fd' = f /\ conn_state' = "CONNECTED"
                   /\ sock' = [g \in DOMAIN sock \cup {f} |->
                                 IF g = f THEN [s EXCEPT !.peer = TRUE] ELSE sock[g]]
                \/ /\ outcome = "inprogress"
                   /\ rv = None /\ daemon_fd' = f /\ conn_state' = "IN_PROGRESS"
                   /\ sock' = [g \in DOMAIN sock \cup {f} |-> IF g = f THEN s ELSE sock[g]]
                \/ /\ outcome = "refused"
                   /\ rv = None /\ daemon_fd' = None /\ conn_state' = "START"
                   /\ sock' = WithoutSocket(sock, f)
    BY <1>2 DEF nr_get_daemon_fd_internal
  <2>2. f \in Fds /\ None \notin Fds
    BY <2>1, LowestFree, LinkAssumption DEF Types, None
  <2>3. DOMAIN sock \subseteq {f} /\ (daemon_fd # None => f \in DOMAIN sock)
    BY DEF OneSocket
  <2>4. /\ s \in Socket
        /\ \/ f \in DOMAIN sock /\ s = sock[f]
           \/ ~s.mixed /\ Clear(s)
    <3>1. CASE daemon_fd = None
      <4>1. s = NewSocket(sa)
        BY <3>1
      <4>2. NewSocket(sa) \in Socket
        BY DEF Types, NewSocket, Socket
      <4>3. ~NewSocket(sa).mixed /\ Clear(NewSocket(sa))
        BY DEF NewSocket, Clear
      <4> QED
        BY <4>1, <4>2, <4>3
    <3>2. CASE daemon_fd # None
      BY <2>3, <3>2 DEF Types
    <3> QED
      BY <3>1, <3>2
  <2> HIDE DEF f, s
  <2>5. ASSUME NEW s2 \in Socket, daemon_fd' = f, conn_state' \in ConnStates,
               s2.torn = s.torn, s2.mixed = s.mixed, s2.query = s.query, s2.in = s.in,
               sock' = [g \in DOMAIN sock \cup {f} |-> IF g = f THEN s2 ELSE sock[g]]
        PROVE  /\ daemon_fd' \in Fds \cup {None}
               /\ sock' \in [DOMAIN sock' -> Socket]
               /\ OneSocket'
               /\ \A g \in DOMAIN sock' :
                     \/ /\ g \in DOMAIN sock
                        /\ sock'[g].torn = sock[g].torn /\ sock'[g].mixed = sock[g].mixed
                        /\ sock'[g].query = sock[g].query /\ sock'[g].in = sock[g].in
                     \/ ~sock'[g].mixed /\ Clear(sock'[g])
    <3>1. DOMAIN sock' = {f} /\ sock'[f] = s2
      BY <2>3, <2>5
    <3>2. sock' \in [DOMAIN sock' -> Socket]
      BY <2>3, <2>5, <3>1
    <3>3. OneSocket'
      BY <2>2, <2>5, <3>1 DEF OneSocket
    <3> QED
      BY <2>2, <2>4, <2>5, <3>1, <3>2, <3>3 DEF Clear
  <2>6. CASE conn_state' = "CONNECTED" /\ daemon_fd' = f
             /\ sock' = [g \in DOMAIN sock \cup {f} |->
                                 IF g = f THEN [s EXCEPT !.peer = TRUE] ELSE sock[g]]
    <3>1. /\ [s EXCEPT !.peer = TRUE] \in Socket
          /\ [s EXCEPT !.peer = TRUE].torn = s.torn /\ [s EXCEPT !.peer = TRUE].mixed = s.mixed
          /\ [s EXCEPT !.peer = TRUE].query = s.query /\ [s EXCEPT !.peer = TRUE].in = s.in
      BY <2>4 DEF Socket
    <3> QED
      BY <2>5, <2>6, <3>1 DEF ConnStates
  <2>7. CASE conn_state' = "IN_PROGRESS" /\ daemon_fd' = f
             /\ sock' = [g \in DOMAIN sock \cup {f} |-> IF g = f THEN s ELSE sock[g]]
    BY <2>4, <2>5, <2>7 DEF ConnStates
  <2>8. CASE conn_state' = "START" /\ daemon_fd' = None /\ sock' = WithoutSocket(sock, f)
    <3>1. DOMAIN sock' = {}
      BY <2>3, <2>8 DEF WithoutSocket
    <3>2. sock' \in [DOMAIN sock' -> Socket]
      BY <2>8, <3>1 DEF WithoutSocket
    <3> QED
      BY <2>8, <3>1, <3>2 DEF OneSocket, ConnStates
  <2> QED
    BY <2>1, <2>6, <2>7, <2>8
<1> QED
  BY <1>1, <1>2

(* nr_set_daemon_fd(-1) leaves no socket.                                  *)
LEMMA CloseEffect ==
    ASSUME Types, OneSocket, nr_set_daemon_fd_closed
    PROVE  /\ daemon_fd' = None /\ conn_state' = "START" /\ DOMAIN sock' = {}
           /\ sock' \in [DOMAIN sock' -> Socket]
           /\ OneSocket'
<1>1. daemon_fd' = None /\ conn_state' = "START"
  BY DEF nr_set_daemon_fd_closed
<1>2. DOMAIN sock' = {} /\ sock' \in [DOMAIN sock' -> Socket]
  BY DEF nr_set_daemon_fd_closed, WithoutSocket, OneSocket, Types
<1> QED
  BY <1>1, <1>2 DEF OneSocket

(* A write leaves the set of sockets alone.                                *)
LEMMA WriteEffect ==
    ASSUME Types, OneSocket, NEW f \in DOMAIN sock, NEW s2 \in Socket,
           sock' = [sock EXCEPT ![f] = s2], UNCHANGED <<daemon_fd, conn_state>>
    PROVE  /\ DOMAIN sock' = DOMAIN sock /\ sock' \in [DOMAIN sock' -> Socket]
           /\ OneSocket' /\ DOMAIN sock = {f} /\ sock'[f] = s2
<1>1. DOMAIN sock' = DOMAIN sock /\ sock' \in [DOMAIN sock' -> Socket] /\ sock'[f] = s2
  BY DEF Types
<1>2. DOMAIN sock = {f}
  BY DEF OneSocket
<1> QED
  BY <1>1, <1>2 DEF OneSocket

(* A message goes behind what the stream holds, unless half a message is   *)
(* in the way or nobody is there to read it.                               *)
LEMMA WriteMessage ==
    ASSUME NEW s \in Socket, NEW msg \in Seq(Apps)
    PROVE  /\ nr_write_message(s, msg) \in Socket
           /\ ~s.torn => /\ nr_write_message(s, msg).torn = s.torn
                         /\ nr_write_message(s, msg).mixed = s.mixed
                         /\ nr_write_message(s, msg).in = s.in
                         /\ nr_write_message(s, msg).query \in {s.query, s.query \o msg}
<1>1. s.query \in Seq(Apps) /\ s.query \o msg \in Seq(Apps)
  BY DEF Socket
<1>2. [s EXCEPT !.mixed = TRUE] \in Socket
  BY DEF Socket
<1>3. [s EXCEPT !.query = s.query \o msg] \in Socket
  BY <1>1 DEF Socket
<1>4. CASE s.torn
  BY <1>2, <1>4 DEF nr_write_message
<1>5. CASE ~s.torn /\ s.peer
  <2>1. nr_write_message(s, msg) = [s EXCEPT !.query = s.query \o msg]
    BY <1>5 DEF nr_write_message
  <2> QED
    BY <1>3, <1>5, <2>1 DEF Socket
<1>6. CASE ~s.torn /\ ~s.peer
  BY <1>6 DEF nr_write_message
<1> QED
  BY <1>4, <1>5, <1>6

(* Counting failed queries touches neither the state nor the run.          *)
LEMMA ConsiderEffect ==
    ASSUME NEW x \in AppRecord
    PROVE  /\ nr_app_consider_appinfo(x) \in AppRecord
           /\ nr_app_consider_appinfo(x).state = x.state
           /\ nr_app_consider_appinfo(x).run = x.run
  BY LinkAssumption DEF nr_app_consider_appinfo, AppRecord, States

(* What a reply does to the application it is given to.                    *)
LEMMA ReplyEffect ==
    ASSUME NEW x \in AppRecord, NEW r \in Replies \cup {NoReply}
    PROVE  LET p == nr_cmd_appinfo_process_reply(x, r) IN
           /\ p[1] \in AppRecord /\ p[2] \in BOOLEAN
           /\ r = NoReply => ~p[2]
           /\ p[1].run = IF r.status = "connected" THEN r.run ELSE x.run
           /\ p[1].state = "OK" => r.status \in {"connected", "still_valid"}
<1> DEFINE p == nr_cmd_appinfo_process_reply(x, r)
<1> SUFFICES /\ p[1] \in AppRecord /\ p[2] \in BOOLEAN
             /\ r = NoReply => ~p[2]
             /\ p[1].run = IF r.status = "connected" THEN r.run ELSE x.run
             /\ p[1].state = "OK" => r.status \in {"connected", "still_valid"}
  OBVIOUS
<1>1. ASSUME NEW st \in States
      PROVE  /\ [x EXCEPT !.state = st] \in AppRecord
             /\ [x EXCEPT !.state = st].run = x.run /\ [x EXCEPT !.state = st].state = st
  BY DEF AppRecord
<1>2. "UNKNOWN" \in States /\ "OK" \in States /\ "INVALID" \in States
  BY DEF States
<1>3. CASE r.status = "connected"
  <2>1. r \in Replies /\ r.run \in RunIds
    BY <1>3 DEF Replies, Statuses, NoReply
  <2>2. p = <<[x EXCEPT !.state = "OK", !.run = r.run], TRUE>>
    BY <1>3 DEF nr_cmd_appinfo_process_reply
  <2>3. /\ [x EXCEPT !.state = "OK", !.run = r.run] \in AppRecord
        /\ [x EXCEPT !.state = "OK", !.run = r.run].run = r.run
    BY <2>1 DEF AppRecord, States
  <2>4. r # NoReply
    BY <1>3 DEF NoReply
  <2> HIDE DEF p
  <2> QED
    BY <1>3, <2>2, <2>3, <2>4
<1>4. CASE r.status = "unknown"
  <2>1. p = <<[x EXCEPT !.state = "UNKNOWN"], TRUE>>
    BY <1>4 DEF nr_cmd_appinfo_process_reply
  <2>2. r # NoReply
    BY <1>4 DEF NoReply
  <2> HIDE DEF p
  <2> QED
    BY <1>1, <1>2, <1>4, <2>1, <2>2
<1>5. CASE r.status \in {"disconnected", "invalid_license"}
  <2>1. p = <<[x EXCEPT !.state = "INVALID"], TRUE>>
    BY <1>5 DEF nr_cmd_appinfo_process_reply
  <2>2. r # NoReply
    BY <1>5 DEF NoReply
  <2> HIDE DEF p
  <2> QED
    BY <1>1, <1>2, <1>5, <2>1, <2>2
<1>6. CASE r.status = "still_valid"
  <2>1. p = <<[x EXCEPT !.state = "OK"], TRUE>>
    BY <1>6 DEF nr_cmd_appinfo_process_reply
  <2>2. r # NoReply
    BY <1>6 DEF NoReply
  <2> HIDE DEF p
  <2> QED
    BY <1>1, <1>2, <1>6, <2>1, <2>2
<1>7. CASE r.status \notin {"connected", "unknown", "disconnected", "invalid_license", "still_valid"}
  <2>1. p = <<[x EXCEPT !.state = "UNKNOWN"], FALSE>>
    BY <1>7 DEF nr_cmd_appinfo_process_reply
  <2> HIDE DEF p
  <2> QED
    BY <1>1, <1>2, <1>7, <2>1
<1> QED
  BY <1>3, <1>4, <1>5, <1>6, <1>7

-----------------------------------------------------------------------------
(* The steps of a thread.                                                  *)

(* The places where the stream of a lone thread need not be clear.         *)
Busy == {"receive", "close", "failed"}

(* What the only thread of a process has to show for its step.             *)
LEMMA SoloStep ==
    ASSUME IInv, NEW t \in active, UNCHANGED active,
           active = {t} /\ Exchange(t) /\ (\A a \in Apps : OwnRun(app[a], a))
               => Exchange(t)' /\ \A a \in Apps : OwnRun(app'[a], a)
    PROVE  SoloInv'
<1> SUFFICES ASSUME NEW u \in Threads, active' = {u} PROVE Exchange(u)' /\ RunsAreOwn'
  BY DEF SoloInv
<1>1. u = t /\ active = {t}
  OBVIOUS
<1>2. Exchange(t) /\ \A a \in Apps : OwnRun(app[a], a)
  BY <1>1 DEF IInv, SoloInv, RunsAreOwn, OwnRun
<1>3. Exchange(t)' /\ \A a \in Apps : OwnRun(app'[a], a)
  BY <1>1, <1>2
<1> QED
  BY <1>1, <1>3 DEF RunsAreOwn, OwnRun

(* A step between two quiet places, over sockets that are as they were or  *)
(* new.                                                                    *)
LEMMA QuietStep ==
    ASSUME IInv, NEW t \in active, UNCHANGED active,
           pc[t] \notin Busy, pc'[t] \notin Busy,
           \A f \in DOMAIN sock' :
                 \/ /\ f \in DOMAIN sock
                    /\ sock'[f].torn = sock[f].torn /\ sock'[f].mixed = sock[f].mixed
                    /\ sock'[f].query = sock[f].query /\ sock'[f].in = sock[f].in
                 \/ ~sock'[f].mixed /\ Clear(sock'[f]),
           \A a \in Apps : OwnRun(app[a], a) => OwnRun(app'[a], a)
    PROVE  SoloInv'
<1>1. ASSUME Exchange(t) PROVE Exchange(t)'
  BY <1>1 DEF Exchange, Clear, Busy
<1> QED
  BY <1>1, SoloStep

(* Looking for a connection.                                               *)
LEMMA GetFdIInv ==
    ASSUME IInv, NEW t \in active, BeginNeedsDaemon(t) \/ GetFd(t) \/ EndGetFd(t)
    PROVE  IInv'
<1>0. t \in Threads
  BY DEF IInv, Types
<1>1. PICK rv \in Fds \cup {None} : nr_get_daemon_fd_internal(rv)
  BY DEF BeginNeedsDaemon, GetFd, EndGetFd, nr_get_daemon_fd
<1>2. /\ daemon_fd' \in Fds \cup {None} /\ conn_state' \in ConnStates
      /\ sock' \in [DOMAIN sock' -> Socket]
      /\ OneSocket'
      /\ \A f \in DOMAIN sock' :
                 \/ /\ f \in DOMAIN sock
                    /\ sock'[f].torn = sock[f].torn /\ sock'[f].mixed = sock[f].mixed
                    /\ sock'[f].query = sock[f].query /\ sock'[f].in = sock[f].in
                 \/ ~sock'[f].mixed /\ Clear(sock'[f])
  BY <1>1, ConnectEffect DEF IInv
<1>3. UNCHANGED <<active, desired, daemon_mutex, applist, applist_lock, app_lock, app, cur, txn,
                  up, host, run>>
  BY DEF BeginNeedsDaemon, GetFd, EndGetFd, nr_get_daemon_fd, appVars, daemonVars
<1>4. sa' \in {sa, host}
  BY DEF BeginNeedsDaemon, GetFd, EndGetFd, nr_get_daemon_fd,
     nr_agent_reinitialize_daemon_tcp_connection_parameters
<1>5. fd' \in [Threads -> Fds \cup {None}]
  BY <1>0 DEF BeginNeedsDaemon, GetFd, EndGetFd, nr_get_daemon_fd, IInv, Types
<1>6. PICK p \in {"idle", "begin", "query", "send"} :
          /\ pc' = [pc EXCEPT ![t] = p]
          /\ p = "query" => pc[t] = "getfd"
  <2>1. CASE BeginNeedsDaemon(t)
    <3>1. pc' = pc \/ pc' = [pc EXCEPT ![t] = "begin"]
      BY <2>1 DEF BeginNeedsDaemon
    <3>2. pc = [pc EXCEPT ![t] = "idle"]
      BY <1>0, <2>1 DEF BeginNeedsDaemon, IInv, Types
    <3> QED
      BY <3>1, <3>2
  <2>2. CASE GetFd(t) \/ EndGetFd(t)
    BY <2>2 DEF GetFd, EndGetFd, nr_get_daemon_fd
  <2> QED
    BY <2>1, <2>2
<1>7. pc[t] \in {"idle", "getfd", "intxn"}
  BY DEF BeginNeedsDaemon, GetFd, EndGetFd, nr_get_daemon_fd
<1>8. Types'
  <2>1. pc' \in [Threads -> Pcs] /\ \A u \in Threads : pc'[u] \in HasApp => pc[u] \in HasApp
    BY <1>0, <1>6, <1>7 DEF IInv, Types, Pcs, HasApp
  <2>2. \A u \in Threads : pc'[u] \in HasApp => cur'[u].app \in Apps
    BY <1>3, <2>1 DEF IInv, Types
  <2> QED
    BY <1>2, <1>3, <1>4, <1>5, <2>1, <2>2 DEF IInv, Types
<1>9. SoloInv'
  <2>1. pc[t] \notin Busy /\ pc'[t] \notin Busy
    BY <1>0, <1>6, <1>7 DEF IInv, Types, Busy
  <2> QED
    BY <1>2, <1>3, <2>1, QuietStep
<1> QED
  BY <1>2, <1>8, <1>9 DEF IInv

(* Looking an application up, adding it, and deciding what to do with it.  *)
LEMMA LookupIInv ==
    ASSUME IInv, NEW t \in active,
           Begin(t) \/ Scan(t) \/ Add(t) \/ Consider(t) \/ nr_agent_find_or_add_app(t)
    PROVE  IInv'
<1>0. t \in Threads
  BY DEF IInv, Types
<1>1. ASSUME UNCHANGED <<active, desired, sa, daemon_fd, conn_state, sock, daemon_mutex, up, host, run>>,
             NEW p \in {"idle", "scan", "consider", "getfd", "decide", "intxn"},
             pc' = [pc EXCEPT ![t] = p], pc[t] \notin Busy,
             cur' \in [Threads -> [app : Apps \cup {NoApp}, at : Nat]],
             \A u \in Threads : u # t => cur'[u] = cur[u],
             p \in HasApp => cur'[t].app \in Apps,
             applist' \in Seq(Apps), applist_lock' \in Threads \cup {NoThread},
             app_lock' \in [Apps -> Threads \cup {NoThread}],
             app' \in [Apps -> AppRecord],
             \A a \in Apps : OwnRun(app[a], a) => OwnRun(app'[a], a),
             fd' \in [Threads -> Fds \cup {None}], txn' \in [Threads -> RunIds \cup {NoRun}]
      PROVE  IInv'
  <2>1. pc' \in [Threads -> Pcs] /\ pc'[t] = p
    BY <1>0, <1>1 DEF IInv, Types, Pcs
  <2>2. \A u \in Threads : pc'[u] \in HasApp => cur'[u].app \in Apps
    BY <1>0, <1>1 DEF IInv, Types
  <2>3. Types'
    BY <1>1, <2>1, <2>2 DEF IInv, Types
  <2>4. OneSocket'
    BY <1>1 DEF IInv, OneSocket
  <2>5. SoloInv'
    BY <1>1, <2>1, QuietStep DEF Busy
  <2> QED
    BY <2>3, <2>4, <2>5 DEF IInv
<1> DEFINE CurType == [app : Apps \cup {NoApp}, at : Nat]
<1>2. NoCur \in CurType
  BY DEF NoCur
<1>3. CASE Begin(t)
  <2>1. PICK a \in Apps : cur' = [cur EXCEPT ![t] = [app |-> a, at |-> 1]]
    BY <1>3 DEF Begin
  <2>2. cur' \in [Threads -> CurType] /\ cur'[t].app = a
    BY <1>0, <2>1 DEF IInv, Types
  <2>3. \A u \in Threads : u # t => cur'[u] = cur[u]
    BY <2>1 DEF IInv, Types
  <2> QED
    BY <1>0, <1>1, <1>3, <2>2, <2>3 DEF Begin, IInv, Types, linkVars, daemonVars, Busy
<1>4. CASE Scan(t)
  <2> DEFINE a == applist[cur[t].at]
  <2>1. /\ pc[t] = "scan"
        /\ UNCHANGED <<active, desired, sa, daemon_fd, conn_state, sock, daemon_mutex, up, host, run,
                       applist, app, fd, txn>>
    BY <1>4 DEF Scan, linkVars, daemonVars
  <2>2. CASE /\ cur' = [cur EXCEPT ![t].at = @ + 1]
             /\ UNCHANGED <<applist_lock, app_lock, pc>>
    <3>1. cur[t] \in CurType /\ cur[t].app \in Apps
      BY <1>0, <2>1 DEF IInv, Types, HasApp
    <3> DEFINE c2 == [cur[t] EXCEPT !.at = @ + 1]
    <3>2. c2 \in CurType /\ c2.app = cur[t].app
      BY <3>1
    <3>3. cur' = [cur EXCEPT ![t] = c2]
      BY <2>2
    <3> HIDE DEF c2
    <3>4. cur' \in [Threads -> CurType] /\ cur'[t] = c2 /\ \A u \in Threads : u # t => cur'[u] = cur[u]
      BY <1>0, <3>2, <3>3 DEF IInv, Types
    <3>5. pc' = [pc EXCEPT ![t] = "scan"]
      BY <1>0, <2>1, <2>2 DEF IInv, Types
    <3> QED
      BY <1>1, <2>1, <2>2, <3>1, <3>2, <3>4, <3>5 DEF IInv, Types, Busy
  <2>3. CASE /\ a = cur[t].app
             /\ app_lock' = [app_lock EXCEPT ![a] = t]
             /\ applist_lock' = NoThread
             /\ pc' = [pc EXCEPT ![t] = "consider"]
             /\ UNCHANGED cur
    <3>1. cur[t].app \in Apps
      BY <1>0, <2>1 DEF IInv, Types, HasApp
    <3>2. app_lock' \in [Apps -> Threads \cup {NoThread}]
      BY <1>0, <2>3, <3>1 DEF IInv, Types
    <3> QED
      BY <1>1, <2>1, <2>3, <3>1, <3>2 DEF IInv, Types, Busy
  <2>4. CASE /\ applist_lock' = NoThread
             /\ cur' = [cur EXCEPT ![t] = NoCur]
             /\ pc' = [pc EXCEPT ![t] = "idle"]
             /\ UNCHANGED app_lock
    <3>1. cur' \in [Threads -> CurType] /\ \A u \in Threads : u # t => cur'[u] = cur[u]
      BY <1>2, <2>4 DEF IInv, Types
    <3> QED
      BY <1>1, <2>1, <2>4, <3>1 DEF IInv, Types, Busy, HasApp
  <2> QED
    BY <1>4, <2>2, <2>3, <2>4 DEF Scan
<1>5. CASE Add(t)
  <2> DEFINE a == cur[t].app
  <2>1. /\ pc[t] = "scan" /\ applist_lock' = NoThread
        /\ UNCHANGED <<active, desired, sa, daemon_fd, conn_state, sock, daemon_mutex, up, host, run,
                       fd, txn>>
    BY <1>5 DEF Add, linkVars, daemonVars
  <2>2. a \in Apps
    BY <1>0, <2>1 DEF IInv, Types, HasApp
  <2>3. CASE /\ cur' = [cur EXCEPT ![t] = NoCur]
             /\ pc' = [pc EXCEPT ![t] = "idle"]
             /\ UNCHANGED <<applist, app_lock, app>>
    <3>1. cur' \in [Threads -> CurType] /\ \A u \in Threads : u # t => cur'[u] = cur[u]
      BY <1>2, <2>3 DEF IInv, Types
    <3> QED
      BY <1>1, <2>1, <2>3, <3>1 DEF IInv, Types, Busy, HasApp
  <2>4. CASE /\ applist' = Append(applist, a)
             /\ app_lock' = [app_lock EXCEPT ![a] = t]
             /\ app' = [app EXCEPT ![a] = create_new_app]
             /\ pc' = [pc EXCEPT ![t] = "consider"]
             /\ UNCHANGED cur
    <3>1. create_new_app \in AppRecord /\ OwnRun(create_new_app, a)
      BY LinkAssumption DEF create_new_app, AppRecord, States, OwnRun
    <3>2. /\ app' \in [Apps -> AppRecord]
          /\ \A b \in Apps : OwnRun(app[b], b) => OwnRun(app'[b], b)
      BY <2>2, <2>4, <3>1 DEF IInv, Types
    <3>3. applist' \in Seq(Apps) /\ app_lock' \in [Apps -> Threads \cup {NoThread}]
      BY <1>0, <2>2, <2>4 DEF IInv, Types
    <3> QED
      BY <1>1, <2>1, <2>2, <2>4, <3>2, <3>3 DEF IInv, Types, Busy
  <2> QED
    BY <1>5, <2>3, <2>4 DEF Add
<1>6. CASE Consider(t)
  <2>1. /\ pc[t] = "consider"
        /\ UNCHANGED <<active, desired, sa, daemon_fd, conn_state, sock, daemon_mutex, up, host, run,
                       applist, applist_lock, app_lock, app, cur, fd, txn>>
    BY <1>6 DEF Consider, linkVars, appVars, daemonVars
  <2>2. PICK p \in {"getfd", "decide"} : pc' = [pc EXCEPT ![t] = p]
    BY <1>6 DEF Consider
  <2>3. cur[t].app \in Apps
    BY <1>0, <2>1 DEF IInv, Types, HasApp
  <2> QED
    BY <1>1, <2>1, <2>2, <2>3 DEF IInv, Types, Busy
<1>7. CASE nr_agent_find_or_add_app(t)
  <2> DEFINE a == cur[t].app
  <2>1. /\ pc[t] = "decide"
        /\ UNCHANGED <<active, desired, sa, daemon_fd, conn_state, sock, daemon_mutex, up, host, run,
                       applist, applist_lock, app>>
        /\ fd' = [fd EXCEPT ![t] = None]
    BY <1>7 DEF nr_agent_find_or_add_app, linkVars, daemonVars
  <2>2. fd' \in [Threads -> Fds \cup {None}]
    BY <2>1 DEF IInv, Types
  <2>3. a \in Apps
    BY <1>0, <2>1 DEF IInv, Types, HasApp
  <2>4. CASE pc' = [pc EXCEPT ![t] = "consider"] /\ UNCHANGED <<app_lock, cur, txn>>
    BY <1>1, <2>1, <2>2, <2>3, <2>4 DEF IInv, Types, Busy
  <2>5. CASE
          /\ txn' = [txn EXCEPT ![t] = IF app[a].state = "OK" THEN app[a].run ELSE NoRun]
          /\ app_lock' = [app_lock EXCEPT ![a] = NoThread]
          /\ cur' = [cur EXCEPT ![t] = IF app[a].state = "OK" THEN [app |-> a, at |-> 0] ELSE NoCur]
          /\ pc' = [pc EXCEPT ![t] = IF app[a].state = "OK" THEN "intxn" ELSE "idle"]
    <3>1. app[a].run \in RunIds \cup {NoRun}
      BY <2>3 DEF IInv, Types, AppRecord
    <3>2. /\ txn' \in [Threads -> RunIds \cup {NoRun}]
          /\ app_lock' \in [Apps -> Threads \cup {NoThread}]
      BY <2>5, <3>1 DEF IInv, Types
    <3>3. /\ cur' \in [Threads -> CurType]
          /\ \A u \in Threads : u # t => cur'[u] = cur[u]
          /\ app[a].state = "OK" => cur'[t].app \in Apps
      BY <1>0, <1>2, <2>3, <2>5 DEF IInv, Types
    <3>4. PICK p \in {"intxn", "idle"} :
              pc' = [pc EXCEPT ![t] = p] /\ (p = "intxn" => app[a].state = "OK")
      BY <2>5
    <3> QED
      BY <1>1, <2>1, <2>2, <3>2, <3>3, <3>4 DEF IInv, Types, Busy, HasApp
  <2> QED
    BY <1>7, <2>4, <2>5 DEF nr_agent_find_or_add_app
<1> QED
  BY <1>3, <1>4, <1>5, <1>6, <1>7

(* The types after a query, which only concern its application.            *)
LEMMA QueryTypes ==
    ASSUME IInv, NEW t \in Threads, NEW p \in {"decide", "receive", "close"}, pc[t] \in HasApp,
           pc' = [pc EXCEPT ![t] = p],
           NEW x \in AppRecord, app' = [app EXCEPT ![cur[t].app] = x],
           sock' \in [DOMAIN sock' -> Socket], daemon_mutex' \in Threads \cup {NoThread},
           UNCHANGED <<active, desired, sa, daemon_fd, conn_state, applist,
                       applist_lock, app_lock, cur, fd, txn, up, host, run>>
    PROVE  Types'
<1>1. cur[t].app \in Apps
  BY DEF IInv, Types
<1>2. app' \in [Apps -> AppRecord]
  BY <1>1 DEF IInv, Types
<1>3. pc' \in [Threads -> Pcs] /\ \A u \in Threads : pc'[u] \in HasApp => pc[u] \in HasApp
  BY DEF IInv, Types, Pcs, HasApp
<1>4. \A u \in Threads : pc'[u] \in HasApp => cur'[u].app \in Apps
  BY <1>3 DEF IInv, Types
<1> QED
  BY <1>2, <1>3, <1>4 DEF IInv, Types

(* The query is written: to nothing, into a clear stream of the only       *)
(* thread, or in part.                                                     *)
LEMMA AppinfoWriteIInv ==
    ASSUME IInv, NEW t \in active, AppinfoWrite(t)
    PROVE  IInv'
<1> DEFINE a == cur[t].app
           f == fd[t]
           x == [app[a] EXCEPT !.state = "UNKNOWN"]
<1>0. t \in Threads /\ pc[t] = "query" /\ a \in Apps /\ f \in Fds \cup {None}
  BY DEF AppinfoWrite, IInv, Types, HasApp
<1>1. app[a] \in AppRecord /\ x \in AppRecord /\ x.run = app[a].run /\ x.state = "UNKNOWN"
  <2>1. app[a] \in AppRecord
    BY <1>0 DEF IInv, Types
  <2> QED
    BY <2>1 DEF AppRecord, States
<1>2. UNCHANGED <<active, desired, sa, daemon_fd, conn_state, applist,
                  applist_lock, app_lock, cur, fd, txn, up, host, run>>
  BY DEF AppinfoWrite, daemonVars
<1>3. pc[t] \in HasApp /\ pc[t] \notin Busy
  BY <1>0 DEF HasApp, Busy
<1> HIDE DEF x
<1>4. ASSUME NEW y \in AppRecord, app' = [app EXCEPT ![a] = y], y.run = app[a].run,
             y.state = "OK" => app[a].state = "OK"
      PROVE  \A b \in Apps : OwnRun(app[b], b) => OwnRun(app'[b], b)
  BY <1>0, <1>4 DEF IInv, Types, OwnRun
<1>5. CASE f = None /\ QueryEnds(t, <<app[a], TRUE>>) /\ UNCHANGED <<sock, daemon_mutex>>
  <2>1. PICK y \in AppRecord : /\ app' = [app EXCEPT ![a] = y]
                               /\ y.run = app[a].run /\ y.state = app[a].state
    BY <1>1, <1>5, ConsiderEffect DEF QueryEnds
  <2>2. pc' = [pc EXCEPT ![t] = "decide"]
    BY <1>5 DEF QueryEnds
  <2>3. Types'
    BY <1>0, <1>2, <1>3, <1>5, <2>1, <2>2, QueryTypes DEF IInv, Types
  <2>4. OneSocket'
    BY <1>2, <1>5 DEF IInv, OneSocket
  <2>5. pc'[t] \notin Busy
    BY <1>0, <2>2 DEF IInv, Types, Busy
  <2>6. \A b \in Apps : OwnRun(app[b], b) => OwnRun(app'[b], b)
    BY <1>4, <2>1
  <2>7. SoloInv'
    BY <1>2, <1>3, <1>5, <2>5, <2>6, QuietStep
  <2> QED
    BY <2>3, <2>4, <2>7 DEF IInv
<1>6. CASE /\ f \in DOMAIN sock
           /\ sock' = [sock EXCEPT ![f] = nr_write_message(@, <<a>>)]
           /\ app' = [app EXCEPT ![a] = x]
           /\ daemon_mutex' = t
           /\ pc' = [pc EXCEPT ![t] = "receive"]
  <2> DEFINE s2 == nr_write_message(sock[f], <<a>>)
  <2>1. sock[f] \in Socket /\ <<a>> \in Seq(Apps)
    BY <1>0, <1>6 DEF IInv, Types
  <2>2. /\ s2 \in Socket
        /\ ~sock[f].torn => /\ s2.torn = sock[f].torn /\ s2.mixed = sock[f].mixed
                            /\ s2.in = sock[f].in
                            /\ s2.query \in {sock[f].query, sock[f].query \o <<a>>}
    BY <2>1, WriteMessage
  <2>3. sock' = [sock EXCEPT ![f] = s2]
    BY <1>6
  <2> HIDE DEF s2
  <2>4. /\ DOMAIN sock' = DOMAIN sock /\ sock' \in [DOMAIN sock' -> Socket]
        /\ OneSocket' /\ DOMAIN sock = {f} /\ sock'[f] = s2
    BY <1>2, <1>6, <2>2, <2>3, WriteEffect DEF IInv
  <2>5. Types'
    BY <1>0, <1>1, <1>2, <1>3, <1>6, <2>4, QueryTypes DEF IInv, Types
  <2>6. pc'[t] = "receive"
    BY <1>0, <1>6 DEF IInv, Types
  <2>7. ASSUME Exchange(t) PROVE Exchange(t)'
    <3>1. ~sock[f].mixed /\ ~sock[f].torn /\ sock[f].query = <<>> /\ sock[f].in = <<>>
      BY <1>3, <1>6, <2>7 DEF Exchange, Clear, Busy
    <3>2. <<>> \o <<a>> = <<a>>
      BY <1>0, ShortSequences
    <3>3. ~s2.mixed /\ ~s2.torn /\ s2.in = <<>> /\ s2.query \in {<<>>, <<a>>}
      BY <2>2, <3>1, <3>2
    <3> QED
      BY <1>2, <2>4, <2>6, <3>3 DEF Exchange, Awaiting
  <2>8. \A b \in Apps : OwnRun(app[b], b) => OwnRun(app'[b], b)
    BY <1>1, <1>4, <1>6
  <2>9. SoloInv'
    BY <1>2, <2>7, <2>8, SoloStep
  <2> QED
    BY <2>4, <2>5, <2>9 DEF IInv
<1>7. CASE /\ f # None
           /\ nr_write_full_fails(f)
           /\ QueryEnds(t, nr_cmd_appinfo_process_reply(x, NoReply))
           /\ UNCHANGED daemon_mutex
  <2>1. PICK y \in AppRecord : /\ app' = [app EXCEPT ![a] = y]
                               /\ y.run = app[a].run /\ y.state # "OK"
    <3> DEFINE p == nr_cmd_appinfo_process_reply(x, NoReply)
    <3>1. p[1] \in AppRecord /\ p[1].run = x.run /\ p[1].state # "OK"
      BY <1>1, ReplyEffect DEF NoReply
    <3>2. app' = [app EXCEPT ![a] = nr_app_consider_appinfo(p[1])]
      BY <1>7 DEF QueryEnds
    <3> HIDE DEF p
    <3> DEFINE y == nr_app_consider_appinfo(p[1])
    <3>3. y \in AppRecord /\ y.run = p[1].run /\ y.state = p[1].state
      BY <3>1, ConsiderEffect
    <3>4. y.run = app[a].run /\ y.state # "OK" /\ app' = [app EXCEPT ![a] = y]
      BY <1>1, <3>1, <3>2, <3>3
    <3> HIDE DEF y
    <3> QED
      BY <3>3, <3>4
  <2>2. pc' = [pc EXCEPT ![t] = "close"]
    <3>1. ~nr_cmd_appinfo_process_reply(x, NoReply)[2]
      BY <1>1, ReplyEffect
    <3> QED
      BY <1>7, <3>1 DEF QueryEnds
  <2>3. /\ DOMAIN sock' = DOMAIN sock /\ sock' \in [DOMAIN sock' -> Socket]
        /\ OneSocket'
        /\ \A g \in DOMAIN sock' : sock'[g].mixed = sock[g].mixed
    <3>1. CASE f \in DOMAIN sock
      <4> DEFINE s2 == [sock[f] EXCEPT !.torn = TRUE]
      <4>1. sock[f] \in Socket
        BY <3>1 DEF IInv, Types
      <4>2. s2 \in Socket /\ s2.mixed = sock[f].mixed
        BY <4>1 DEF Socket
      <4>3. sock' = [sock EXCEPT ![f] = s2]
        BY <1>7, <3>1 DEF nr_write_full_fails
      <4> HIDE DEF s2
      <4>4. /\ DOMAIN sock' = DOMAIN sock /\ sock' \in [DOMAIN sock' -> Socket]
            /\ OneSocket' /\ DOMAIN sock = {f} /\ sock'[f] = s2
        BY <1>2, <3>1, <4>2, <4>3, WriteEffect DEF IInv
      <4> QED
        BY <4>2, <4>4
    <3>2. CASE f \notin DOMAIN sock
      BY <1>2, <1>7, <3>2 DEF nr_write_full_fails, IInv, Types, OneSocket
    <3> QED
      BY <3>1, <3>2
  <2>4. Types'
    BY <1>0, <1>2, <1>3, <1>7, <2>1, <2>2, <2>3, QueryTypes DEF IInv, Types
  <2>5. pc'[t] = "close"
    BY <1>0, <2>2 DEF IInv, Types
  <2>6. ASSUME Exchange(t) PROVE Exchange(t)'
    BY <2>3, <2>5, <2>6 DEF Exchange
  <2>7. \A b \in Apps : OwnRun(app[b], b) => OwnRun(app'[b], b)
    BY <1>4, <2>1
  <2>8. SoloInv'
    BY <1>2, <2>6, <2>7, SoloStep
  <2> QED
    BY <2>3, <2>4, <2>8 DEF IInv
<1> QED
  BY <1>5, <1>6, <1>7 DEF AppinfoWrite, x

(* The reply is taken from the stream, or the wait for it is given up and  *)
(* the connection with it.                                                 *)
LEMMA AppinfoReceiveIInv ==
    ASSUME IInv, NEW t \in active, AppinfoReceive(t)
    PROVE  IInv'
<1> DEFINE a == cur[t].app
           f == fd[t]
           x == app[a]
<1>0. t \in Threads /\ pc[t] = "receive" /\ a \in Apps /\ x \in AppRecord
  BY DEF AppinfoReceive, IInv, Types, HasApp
<1>1. UNCHANGED <<active, desired, sa, daemon_fd, conn_state, applist,
                  applist_lock, app_lock, cur, fd, txn, up, host, run>> /\ daemon_mutex' = NoThread
  BY DEF AppinfoReceive, daemonVars
<1>2. PICK reply \in nr_network_receive(f) :
          /\ QueryEnds(t, nr_cmd_appinfo_process_reply(x, reply))
          /\ sock' = IF reply = NoReply THEN sock ELSE [sock EXCEPT ![f].in = Tail(@)]
  BY DEF AppinfoReceive
<1>3. \/ reply = NoReply
      \/ f \in DOMAIN sock /\ sock[f].in # <<>> /\ reply = Head(sock[f].in) /\ reply # NoReply
  BY <1>2 DEF nr_network_receive
<1>4. f \in DOMAIN sock => sock[f] \in Socket /\ sock[f].in \in Seq(Replies)
  BY DEF IInv, Types, Socket
<1>5. reply \in Replies \cup {NoReply}
  BY <1>3, <1>4
<1> DEFINE p == nr_cmd_appinfo_process_reply(x, reply)
<1>6. /\ p[1] \in AppRecord /\ p[2] \in BOOLEAN
      /\ reply = NoReply => ~p[2]
      /\ p[1].run = IF reply.status = "connected" THEN reply.run ELSE x.run
      /\ p[1].state = "OK" => reply.status \in {"connected", "still_valid"}
  BY <1>0, <1>5, ReplyEffect
<1>7. /\ app' = [app EXCEPT ![a] = nr_app_consider_appinfo(p[1])]
      /\ pc' = [pc EXCEPT ![t] = IF p[2] THEN "decide" ELSE "close"]
  BY <1>2 DEF QueryEnds
<1> HIDE DEF p
<1> DEFINE y == nr_app_consider_appinfo(p[1])
<1>8. y \in AppRecord /\ y.run = p[1].run /\ y.state = p[1].state
  BY <1>6, ConsiderEffect
<1> HIDE DEF y
<1>9. /\ DOMAIN sock' = DOMAIN sock /\ sock' \in [DOMAIN sock' -> Socket] /\ OneSocket'
      /\ \A g \in DOMAIN sock' :
            /\ sock'[g].mixed = sock[g].mixed
            /\ reply # NoReply => /\ g = f /\ sock'[f].in = Tail(sock[f].in)
                                  /\ sock'[f].query = sock[f].query /\ sock'[f].torn = sock[f].torn
  <2>1. CASE reply = NoReply
    BY <1>1, <1>2, <2>1 DEF IInv, Types, OneSocket
  <2>2. CASE reply # NoReply
    <3> DEFINE s2 == [sock[f] EXCEPT !.in = Tail(sock[f].in)]
    <3>1. sock[f] \in Socket /\ Tail(sock[f].in) \in Seq(Replies)
      BY <1>3, <1>4, <2>2
    <3>2. /\ s2 \in Socket /\ s2.in = Tail(sock[f].in) /\ s2.query = sock[f].query
          /\ s2.torn = sock[f].torn /\ s2.mixed = sock[f].mixed
      BY <3>1 DEF Socket
    <3>3. sock' = [sock EXCEPT ![f] = s2]
      BY <1>2, <2>2
    <3> HIDE DEF s2
    <3>4. /\ DOMAIN sock' = DOMAIN sock /\ sock' \in [DOMAIN sock' -> Socket]
          /\ OneSocket' /\ DOMAIN sock = {f} /\ sock'[f] = s2
      BY <1>1, <1>3, <2>2, <3>2, <3>3, WriteEffect DEF IInv
    <3> QED
      BY <3>2, <3>4
  <2> QED
    BY <2>1, <2>2
<1>10. Types'
  <2>1. PICK q \in {"decide", "close"} : pc' = [pc EXCEPT ![t] = q]
    BY <1>7
  <2>2. pc[t] \in HasApp
    BY <1>0 DEF HasApp
  <2>3. app' = [app EXCEPT ![a] = y]
    BY <1>7 DEF y
  <2> QED
    BY <1>0, <1>1, <1>8, <1>9, <2>1, <2>2, <2>3, QueryTypes
<1>11. ASSUME Exchange(t), \A b \in Apps : OwnRun(app[b], b)
       PROVE  Exchange(t)' /\ \A b \in Apps : OwnRun(app'[b], b)
  <2>1. CASE reply = NoReply
    <3>1. pc'[t] = "close"
      BY <1>0, <1>6, <1>7, <2>1 DEF IInv, Types
    <3>2. Exchange(t)'
      BY <1>9, <1>11, <3>1 DEF Exchange
    <3>3. y.run = x.run /\ y.state # "OK"
      BY <1>6, <1>8, <2>1 DEF NoReply
    <3>4. \A b \in Apps : OwnRun(app'[b], b)
      BY <1>0, <1>7, <1>11, <3>3 DEF IInv, Types, OwnRun, y
    <3> QED
      BY <3>2, <3>4
  <2>2. CASE reply # NoReply
    <3>1. f \in DOMAIN sock /\ sock[f].in # <<>> /\ reply = Head(sock[f].in)
      BY <1>3, <2>2
    <3>2. Awaiting(sock[f], a)
      BY <1>0, <1>11, <3>1 DEF Exchange
    <3>3. ~sock[f].torn /\ sock[f].query = <<>> /\ \E r \in Replies : sock[f].in = <<r>> /\ Fits(r, a)
      BY <3>1, <3>2 DEF Awaiting
    <3>4. PICK r \in Replies : sock[f].in = <<r>> /\ Fits(r, a)
      BY <3>3
    <3>5. Fits(reply, a) /\ Tail(sock[f].in) = <<>>
      BY <3>1, <3>4, ShortSequences
    <3>6. \A g \in DOMAIN sock' : ~sock'[g].mixed /\ Clear(sock'[g])
      BY <1>9, <1>11, <2>2, <3>1, <3>3, <3>5 DEF Exchange, Clear
    <3>7. pc'[t] # "receive"
      BY <1>0, <1>7 DEF IInv, Types
    <3>8. Exchange(t)'
      BY <3>6, <3>7 DEF Exchange, Clear
    <3>9. OwnRun(y, a)
      <4>1. OwnRun(x, a)
        BY <1>0, <1>11
      <4>2. CASE reply.status = "connected"
        <5>1. reply.run \in RunIds /\ reply.run[1] = a
          BY <1>5, <2>2, <3>5, <4>2 DEF Fits, Replies, Statuses
        <5>2. reply.run # NoRun
          BY <5>1, LinkAssumption DEF RunIds
        <5> QED
          BY <1>6, <1>8, <4>2, <5>1, <5>2 DEF OwnRun
      <4>3. CASE reply.status = "still_valid"
        BY <1>6, <1>8, <3>5, <4>1, <4>3 DEF Fits, OwnRun
      <4>4. CASE reply.status \notin {"connected", "still_valid"}
        BY <1>6, <1>8, <4>1, <4>4 DEF OwnRun
      <4> QED
        BY <4>2, <4>3, <4>4
    <3>10. \A b \in Apps : OwnRun(app'[b], b)
      BY <1>0, <1>7, <1>11, <3>9 DEF IInv, Types, y
    <3> QED
      BY <3>8, <3>10
  <2> QED
    BY <2>1, <2>2
<1>12. SoloInv'
  BY <1>1, <1>11, SoloStep
<1> QED
  BY <1>9, <1>10, <1>12 DEF IInv

(* The data of a transaction go out, and a connection that failed is       *)
(* closed.                                                                 *)
LEMMA SendIInv ==
    ASSUME IInv, NEW t \in active,
           SendData(t) \/ SendFailed(t) \/ nr_agent_close_daemon_connection(t)
    PROVE  IInv'
<1>0. t \in Threads
  BY DEF IInv, Types
<1>1. ASSUME NEW p \in {"idle", "failed", "decide"}, pc' = [pc EXCEPT ![t] = p],
             p = "decide" => pc[t] = "close" /\ UNCHANGED cur,
             cur' \in {cur, [cur EXCEPT ![t] = NoCur]},
             fd' \in {fd, [fd EXCEPT ![t] = None]},
             txn' \in {txn, [txn EXCEPT ![t] = NoRun]},
             daemon_fd' \in Fds \cup {None}, conn_state' \in ConnStates,
             sock' \in [DOMAIN sock' -> Socket],
             UNCHANGED <<active, desired, sa, daemon_mutex, applist, applist_lock, app_lock, app,
                         up, host, run>>
      PROVE  Types'
  <2>1. pc' \in [Threads -> Pcs]
    BY <1>1 DEF IInv, Types, Pcs
  <2>a. cur' \in [Threads -> [app : Apps \cup {NoApp}, at : Nat]]
    <3>1. NoCur \in [app : Apps \cup {NoApp}, at : Nat]
      BY DEF NoCur
    <3>2. CASE cur' = cur
      BY <3>2 DEF IInv, Types
    <3>3. CASE cur' = [cur EXCEPT ![t] = NoCur]
      BY <3>1, <3>3 DEF IInv, Types
    <3> QED
      BY <1>1, <3>2, <3>3
  <2>b. fd' \in [Threads -> Fds \cup {None}]
    <3>1. CASE fd' = fd
      BY <3>1 DEF IInv, Types
    <3>2. CASE fd' = [fd EXCEPT ![t] = None]
      BY <3>2 DEF IInv, Types
    <3> QED
      BY <1>1, <3>1, <3>2
  <2>c. txn' \in [Threads -> RunIds \cup {NoRun}]
    <3>1. CASE txn' = txn
      BY <3>1 DEF IInv, Types
    <3>2. CASE txn' = [txn EXCEPT ![t] = NoRun]
      BY <3>2 DEF IInv, Types
    <3> QED
      BY <1>1, <3>1, <3>2
  <2>2. /\ cur' \in [Threads -> [app : Apps \cup {NoApp}, at : Nat]]
        /\ fd' \in [Threads -> Fds \cup {None}] /\ txn' \in [Threads -> RunIds \cup {NoRun}]
    BY <2>a, <2>b, <2>c
  <2>3. ASSUME NEW u \in Threads, pc'[u] \in HasApp PROVE cur'[u].app \in Apps
    <3>1. CASE u = t
      <4>1. p = "decide"
        BY <1>0, <1>1, <2>3, <3>1 DEF IInv, Types, HasApp
      <4> QED
        BY <1>0, <1>1, <3>1, <4>1 DEF IInv, Types, HasApp
    <3>2. CASE u # t
      <4>1. pc'[u] = pc[u] /\ cur'[u] = cur[u]
        BY <1>0, <1>1, <3>2 DEF IInv, Types
      <4> QED
        BY <2>3, <4>1 DEF IInv, Types
    <3> QED
      BY <3>1, <3>2
  <2> QED
    BY <1>1, <2>1, <2>2, <2>3 DEF IInv, Types
<1>2. CASE SendFailed(t) \/ nr_agent_close_daemon_connection(t)
  <2>1. /\ nr_set_daemon_fd_closed
        /\ UNCHANGED <<active, desired, sa, daemon_mutex, applist, applist_lock, app_lock, app,
                       cur, fd, up, host, run>>
        /\ txn' \in {txn, [txn EXCEPT ![t] = NoRun]}
    BY <1>2 DEF SendFailed, nr_agent_close_daemon_connection, appVars, daemonVars
  <2>2. PICK p \in {"idle", "decide"} :
            pc' = [pc EXCEPT ![t] = p] /\ (p = "decide" => pc[t] = "close")
    BY <1>2 DEF SendFailed, nr_agent_close_daemon_connection
  <2>3. /\ daemon_fd' = None /\ conn_state' = "START" /\ DOMAIN sock' = {}
        /\ sock' \in [DOMAIN sock' -> Socket]
        /\ OneSocket'
    BY <2>1, CloseEffect DEF IInv
  <2>4. Types'
    BY <1>1, <2>1, <2>2, <2>3 DEF ConnStates
  <2>5. Exchange(t)'
    BY <2>3 DEF Exchange
  <2>6. SoloInv'
    BY <2>1, <2>5, SoloStep
  <2> QED
    BY <2>3, <2>4, <2>6 DEF IInv
<1>3. CASE SendData(t)
  <2> DEFINE f == fd[t]
  <2>1. /\ pc[t] = "send"
        /\ UNCHANGED <<active, desired, sa, daemon_fd, conn_state, daemon_mutex,
                       applist, applist_lock, app_lock, app, up, host, run>>
        /\ fd' = [fd EXCEPT ![t] = None] /\ cur' = [cur EXCEPT ![t] = NoCur]
    BY <1>3 DEF SendData, appVars, daemonVars
  <2>2. ASSUME NEW p \in {"idle", "failed"}, pc' = [pc EXCEPT ![t] = p],
               txn' \in {txn, [txn EXCEPT ![t] = NoRun]},
               sock' \in [DOMAIN sock' -> Socket], OneSocket', Exchange(t) => Exchange(t)'
        PROVE  IInv'
    <3>1. Types'
      BY <1>1, <2>1, <2>2 DEF IInv, Types
    <3>2. SoloInv'
      BY <2>1, <2>2, SoloStep
    <3> QED
      BY <2>2, <3>1, <3>2 DEF IInv
  <2>3. CASE /\ pc' = [pc EXCEPT ![t] = "idle"] /\ txn' = [txn EXCEPT ![t] = NoRun]
             /\ UNCHANGED sock
    <3>1. pc'[t] = "idle"
      BY <1>0, <2>3 DEF IInv, Types
    <3>2. ASSUME Exchange(t) PROVE Exchange(t)'
      BY <2>1, <2>3, <3>1, <3>2 DEF Exchange
    <3>3. OneSocket' /\ sock' \in [DOMAIN sock' -> Socket]
      BY <2>1, <2>3 DEF IInv, Types, OneSocket
    <3> QED
      BY <2>2, <2>3, <3>2, <3>3
  <2>4. CASE /\ f \in DOMAIN sock
             /\ pc' = [pc EXCEPT ![t] = "idle"] /\ txn' = [txn EXCEPT ![t] = NoRun]
             /\ sock' = [sock EXCEPT ![f] = nr_write_message(@, <<>>)]
    <3> DEFINE s2 == nr_write_message(sock[f], <<>>)
    <3>1. sock[f] \in Socket /\ <<>> \in Seq(Apps) /\ sock[f].query \in Seq(Apps)
      BY <2>4 DEF IInv, Types, Socket
    <3>2. sock[f].query \o <<>> = sock[f].query
      BY <3>1
    <3>3. /\ s2 \in Socket
          /\ ~sock[f].torn => /\ s2.torn = sock[f].torn /\ s2.mixed = sock[f].mixed
                              /\ s2.in = sock[f].in /\ s2.query = sock[f].query
      BY <3>1, <3>2, WriteMessage
    <3>4. sock' = [sock EXCEPT ![f] = s2]
      BY <2>4
    <3> HIDE DEF s2
    <3>5. /\ DOMAIN sock' = DOMAIN sock /\ sock' \in [DOMAIN sock' -> Socket]
          /\ OneSocket' /\ DOMAIN sock = {f} /\ sock'[f] = s2
      BY <2>1, <2>4, <3>3, <3>4, WriteEffect DEF IInv
    <3>6. pc'[t] = "idle"
      BY <1>0, <2>4 DEF IInv, Types
    <3>7. ASSUME Exchange(t) PROVE Exchange(t)'
      <4>1. ~sock[f].mixed /\ Clear(sock[f])
        BY <2>1, <2>4, <3>7 DEF Exchange
      <4>2. ~s2.mixed /\ Clear(s2)
        BY <3>3, <4>1 DEF Clear
      <4> QED
        BY <3>5, <3>6, <4>2 DEF Exchange
    <3> QED
      BY <2>2, <2>4, <3>5, <3>7
  <2>5. CASE /\ f # None
             /\ nr_write_full_fails(f)
             /\ pc' = [pc EXCEPT ![t] = "failed"] /\ UNCHANGED txn
    <3>1. /\ DOMAIN sock' = DOMAIN sock /\ sock' \in [DOMAIN sock' -> Socket]
          /\ OneSocket'
          /\ \A g \in DOMAIN sock' : /\ sock'[g].mixed = sock[g].mixed
                                     /\ sock'[g].query = sock[g].query /\ sock'[g].in = sock[g].in
      <4>1. CASE f \in DOMAIN sock
        <5> DEFINE s2 == [sock[f] EXCEPT !.torn = TRUE]
        <5>1. sock[f] \in Socket
          BY <4>1 DEF IInv, Types
        <5>2. s2 \in Socket /\ s2.mixed = sock[f].mixed /\ s2.query = sock[f].query /\ s2.in = sock[f].in
          BY <5>1 DEF Socket
        <5>3. sock' = [sock EXCEPT ![f] = s2]
          BY <2>5, <4>1 DEF nr_write_full_fails
        <5> HIDE DEF s2
        <5>4. /\ DOMAIN sock' = DOMAIN sock /\ sock' \in [DOMAIN sock' -> Socket]
              /\ OneSocket' /\ DOMAIN sock = {f} /\ sock'[f] = s2
          BY <2>1, <4>1, <5>2, <5>3, WriteEffect DEF IInv
        <5> QED
          BY <5>2, <5>4
      <4>2. CASE f \notin DOMAIN sock
        BY <2>1, <2>5, <4>2 DEF nr_write_full_fails, IInv, Types, OneSocket
      <4> QED
        BY <4>1, <4>2
    <3>2. pc'[t] = "failed"
      BY <1>0, <2>5 DEF IInv, Types
    <3>3. ASSUME Exchange(t) PROVE Exchange(t)'
      BY <2>1, <3>1, <3>2, <3>3 DEF Exchange, Clear
    <3> QED
      BY <2>2, <2>5, <3>1, <3>3
  <2> QED
    BY <1>3, <2>3, <2>4, <2>5 DEF SendData
<1> QED
  BY <1>2, <1>3

(* The daemon answers the query it was sent, stops or starts.              *)
LEMMA DaemonIInv ==
    ASSUME IInv, (\E f \in Fds : DaemonReply(f)) \/ DaemonStop \/ DaemonStart
    PROVE  IInv'
<1>1. ASSUME UNCHANGED <<active, desired, sa, daemon_fd, conn_state, daemon_mutex, applist,
                         applist_lock, app_lock, app, pc, cur, fd, txn>>,
             up' \in BOOLEAN, host' \in Hosts, run' \in [Apps -> 0..MaxRuns],
             DOMAIN sock' = DOMAIN sock, sock' \in [DOMAIN sock' -> Socket],
             \A t \in Threads : active = {t} /\ Exchange(t) => Exchange(t)'
      PROVE  IInv'
  <2>1. Types'
    BY <1>1 DEF IInv, Types
  <2>2. OneSocket'
    BY <1>1 DEF IInv, OneSocket
  <2>3. SoloInv'
    BY <1>1 DEF IInv, SoloInv, RunsAreOwn
  <2> QED
    BY <2>1, <2>2, <2>3 DEF IInv
<1>2. ASSUME NEW f \in Fds, DaemonReply(f) PROVE IInv'
  <2> DEFINE a == Head(sock[f].query)
  <2>1. f \in DOMAIN sock /\ sock[f].query # <<>> /\ sock[f] \in Socket
    BY <1>2 DEF DaemonReply, IInv, Types
  <2>2. sock[f].query \in Seq(Apps) /\ sock[f].in \in Seq(Replies) /\ a \in Apps
        /\ Tail(sock[f].query) \in Seq(Apps)
    BY <2>1 DEF Socket
  <2>3. UNCHANGED <<active, desired, sa, daemon_fd, conn_state, daemon_mutex, applist,
                    applist_lock, app_lock, app, pc, cur, fd, txn, up, host>>
    BY <1>2 DEF DaemonReply, appVars, threadVars
  <2>4. ASSUME NEW r \in Replies, Fits(r, a), run' \in [Apps -> 0..MaxRuns],
               sock' = [sock EXCEPT ![f].query = Tail(@), ![f].in = Append(@, r)]
        PROVE  IInv'
    <3> DEFINE s2 == [sock[f] EXCEPT !.query = Tail(sock[f].query), !.in = Append(sock[f].in, r)]
    <3>1. Append(sock[f].in, r) \in Seq(Replies)
      BY <2>2
    <3>2. /\ s2 \in Socket /\ s2.torn = sock[f].torn /\ s2.mixed = sock[f].mixed
          /\ s2.query = Tail(sock[f].query) /\ s2.in = Append(sock[f].in, r)
      BY <2>1, <2>2, <3>1 DEF Socket
    <3>3. sock' = [sock EXCEPT ![f] = s2]
      BY <2>1, <2>4 DEF IInv, Types, Socket
    <3> HIDE DEF s2
    <3>4. /\ DOMAIN sock' = DOMAIN sock /\ sock' \in [DOMAIN sock' -> Socket]
          /\ OneSocket' /\ DOMAIN sock = {f} /\ sock'[f] = s2
      BY <2>1, <2>3, <3>2, <3>3, WriteEffect DEF IInv
    <3>5. ASSUME NEW t \in Threads, Exchange(t) PROVE Exchange(t)'
      <4>1. ~sock[f].mixed
        BY <2>1, <3>5 DEF Exchange
      <4>2. pc[t] \in {"receive", "close"}
        BY <2>1, <3>5 DEF Exchange, Clear
      <4>3. CASE pc[t] = "close"
        BY <2>3, <3>2, <3>4, <4>1, <4>3 DEF Exchange
      <4>4. CASE pc[t] = "receive"
        <5>1. Awaiting(sock[f], cur[t].app)
          BY <2>1, <3>5, <4>4 DEF Exchange
        <5>2. ~sock[f].torn /\ sock[f].query = <<cur[t].app>> /\ sock[f].in = <<>>
          BY <2>1, <5>1 DEF Awaiting
        <5>3. cur[t].app \in Apps
          BY <4>4 DEF IInv, Types, HasApp
        <5>4. cur[t].app = a /\ Tail(sock[f].query) = <<>> /\ Append(sock[f].in, r) = <<r>>
          BY <5>2, <5>3, ShortSequences
        <5>5. ~sock'[f].torn /\ ~sock'[f].mixed /\ sock'[f].query = <<>> /\ sock'[f].in = <<r>>
          BY <3>2, <3>4, <4>1, <5>2, <5>4
        <5>6. Fits(r, cur[t].app)
          BY <2>4, <5>4
        <5>7. cur'[t].app = cur[t].app /\ app' = app /\ pc'[t] = "receive"
          BY <2>3, <4>4
        <5>8. Fits(r, cur[t].app)'
          BY <5>6, <5>7 DEF Fits
        <5>9. Awaiting(sock[f], cur[t].app)'
          BY <5>5, <5>8 DEF Awaiting
        <5> QED
          BY <3>4, <5>5, <5>7, <5>9 DEF Exchange
      <4> QED
        BY <4>2, <4>3, <4>4
    <3> QED
      BY <1>1, <2>3, <2>4, <3>4, <3>5 DEF IInv, Types
  <2>5. CASE \E status \in {"unknown", "invalid_license", "disconnected", "garbage"} :
                /\ sock' = [sock EXCEPT ![f].query = Tail(@),
                                        ![f].in = Append(@, [app |-> a, status |-> status])]
                /\ UNCHANGED run
    <3>1. PICK status \in {"unknown", "invalid_license", "disconnected", "garbage"} :
                /\ sock' = [sock EXCEPT ![f].query = Tail(@),
                                        ![f].in = Append(@, [app |-> a, status |-> status])]
                /\ UNCHANGED run
      BY <2>5
    <3>2. [app |-> a, status |-> status] \in Replies /\ Fits([app |-> a, status |-> status], a)
      BY <2>2 DEF Replies, Statuses, Fits
    <3> QED
      BY <2>4, <3>1, <3>2 DEF IInv, Types
  <2>6. CASE /\ run[a] < MaxRuns
             /\ run' = [run EXCEPT ![a] = @ + 1]
             /\ sock' = [sock EXCEPT ![f].query = Tail(@),
                           ![f].in = Append(@, [app |-> a, status |-> "connected",
                                                run |-> <<a, run[a] + 1>>])]
    <3> DEFINE r == [app |-> a, status |-> "connected", run |-> <<a, run[a] + 1>>]
    <3>a. a \in Apps /\ run[a] < MaxRuns /\ run' = [run EXCEPT ![a] = @ + 1]
      BY <2>2, <2>6
    <3>b. run \in [Apps -> 0..MaxRuns] /\ MaxRuns \in Nat
      BY LinkAssumption DEF IInv, Types
    <3> HIDE DEF a
    <3>1. run[a] \in 0..MaxRuns /\ run[a] + 1 \in 1..MaxRuns
      BY <3>a, <3>b
    <3>2. <<a, run[a] + 1>> \in RunIds /\ <<a, run[a] + 1>>[1] = a
      BY <2>2, <3>1 DEF RunIds
    <3>3. r \in Replies /\ Fits(r, a)
      BY <2>2, <3>2 DEF Replies, Fits
    <3>4. run' \in [Apps -> 0..MaxRuns]
      BY <3>a, <3>b, <3>1
    <3> QED
      BY <2>4, <2>6, <3>3, <3>4 DEF a
  <2>7. CASE /\ app[a].run # NoRun
             /\ sock' = [sock EXCEPT ![f].query = Tail(@),
                           ![f].in = Append(@, [app |-> a, status |-> "still_valid"])]
             /\ UNCHANGED run
    <3>1. [app |-> a, status |-> "still_valid"] \in Replies
      BY <2>2 DEF Replies, Statuses
    <3>2. Fits([app |-> a, status |-> "still_valid"], a)
      BY <2>7 DEF Fits
    <3> QED
      BY <2>4, <2>7, <3>1, <3>2 DEF IInv, Types
  <2> QED
    BY <1>2, <2>5, <2>6, <2>7 DEF DaemonReply
<1>3. CASE DaemonStop
  <2>1. UNCHANGED <<active, desired, sa, daemon_fd, conn_state, daemon_mutex, applist,
                    applist_lock, app_lock, app, pc, cur, fd, txn, host, run>>
    BY <1>3 DEF DaemonStop, appVars, threadVars
  <2>2. up' = FALSE /\ sock' = [f \in DOMAIN sock |-> [sock[f] EXCEPT !.peer = FALSE, !.query = <<>>]]
    BY <1>3 DEF DaemonStop
  <2>3. ASSUME NEW f \in DOMAIN sock
        PROVE  /\ sock'[f] \in Socket /\ sock'[f].query = <<>>
               /\ sock'[f].torn = sock[f].torn /\ sock'[f].mixed = sock[f].mixed
               /\ sock'[f].in = sock[f].in
    <3> DEFINE s2 == [sock[f] EXCEPT !.peer = FALSE, !.query = <<>>]
    <3>1. sock[f] \in Socket /\ <<>> \in Seq(Apps)
      BY DEF IInv, Types
    <3>2. s2 \in Socket /\ s2.query = <<>> /\ s2.torn = sock[f].torn /\ s2.mixed = sock[f].mixed
          /\ s2.in = sock[f].in
      BY <3>1 DEF Socket
    <3>3. sock'[f] = s2
      BY <2>2
    <3> HIDE DEF s2
    <3> QED
      BY <3>2, <3>3
  <2>4. DOMAIN sock' = DOMAIN sock /\ sock' \in [DOMAIN sock' -> Socket]
    BY <2>2, <2>3
  <2>5. ASSUME NEW t \in Threads, Exchange(t) PROVE Exchange(t)'
    BY <2>1, <2>3, <2>4, <2>5 DEF Exchange, Awaiting, Clear, Fits
  <2> QED
    BY <1>1, <2>1, <2>2, <2>4, <2>5 DEF IInv, Types
<1>4. CASE DaemonStart
  <2>1. /\ UNCHANGED <<active, desired, sa, daemon_fd, conn_state, daemon_mutex, applist, sock,
                       applist_lock, app_lock, app, pc, cur, fd, txn, run>>
        /\ up' = TRUE /\ host' \in Hosts
    BY <1>4 DEF DaemonStart, linkVars, appVars, threadVars, IInv, Types
  <2>2. ASSUME NEW t \in Threads, Exchange(t) PROVE Exchange(t)'
    BY <2>1, <2>2 DEF Exchange, Awaiting, Clear, Fits
  <2> QED
    BY <1>1, <2>1, <2>2 DEF IInv, Types
<1> QED
  BY <1>2, <1>3, <1>4

(* The connection of a PHP process, whatever its threads and the daemon    *)
(* do.                                                                     *)
THEOREM LinkInvariant == Spec => []IInv
<1>1. IInv /\ UNCHANGED vars => IInv'
  BY DEF vars, linkVars, appVars, threadVars, daemonVars, IInv, Types, OneSocket, SoloInv,
     Exchange, Awaiting, Clear, Fits, RunsAreOwn
<1>2. IInv /\ [Next]_vars => IInv'
  <2> SUFFICES ASSUME IInv, Next PROVE IInv'
    BY <1>1
  <2>1. ASSUME NEW t \in active, Step(t) PROVE IInv'
    BY <2>1, GetFdIInv, LookupIInv, AppinfoWriteIInv, AppinfoReceiveIInv, SendIInv DEF Step
  <2> QED
    BY <2>1, DaemonIInv DEF Next
<1> QED
  BY InitIInv, <1>2, PTL DEF Spec

(* Whatever fails while a connection is made, used or given up, the        *)
(* process has no socket but the one in nr_agent_daemon_fd.                *)
THEOREM SocketsAreKept == Spec => []NoSocketLeaks
<1>1. IInv => NoSocketLeaks
  <2> SUFFICES ASSUME IInv PROVE NoSocketLeaks
    OBVIOUS
  <2>1. ASSUME NEW f \in DOMAIN sock
        PROVE  /\ f \in Fds /\ sock[f].to \in Hosts /\ sock[f].peer \in BOOLEAN
               /\ sock[f].torn \in BOOLEAN /\ sock[f].mixed \in BOOLEAN /\ sock[f].query \in Seq(Apps)
    <3>1. sock[f] \in Socket /\ f \in Fds
      BY DEF IInv, Types, OneSocket
    <3> QED
      BY <3>1 DEF Socket
  <2>2. ASSUME NEW a \in Apps
        PROVE  /\ app[a].state \in States /\ app[a].run \in RunIds \cup {NoRun}
               /\ app[a].failed \in 0..MaxFailed
    BY DEF IInv, Types, AppRecord
  <2>3. TypeOK
    BY <2>1, <2>2 DEF IInv, Types, TypeOK
  <2> QED
    BY <2>3 DEF IInv, OneSocket, NoSocketLeaks
<1> QED
  BY <1>1, LinkInvariant, PTL

(* A process of one thread never gives a reply to another application than *)
(* the one it answers, nor writes behind half a message.                   *)
THEOREM OneThreadIsServed == Spec => []SoloIsServed
<1>1. IInv => SoloIsServed
  <2> SUFFICES ASSUME IInv, Solo PROVE RunsAreOwn /\ FramesAreWhole
    BY DEF SoloIsServed
  <2>1. IsFiniteSet(active)
    BY LinkAssumption, FS_Subset DEF IInv, Types
  <2>2. PICK t : active = {t}
    BY <2>1, FS_Singleton DEF Solo
  <2>3. t \in Threads
    BY <2>2 DEF IInv, Types
  <2>4. Exchange(t) /\ RunsAreOwn
    BY <2>2, <2>3 DEF IInv, SoloInv
  <2> QED
    BY <2>4 DEF Exchange, FramesAreWhole
<1> QED
  BY <1>1, LinkInvariant, PTL

-----------------------------------------------------------------------------
(* The locks.  The connection's mutex is held while a reply is awaited,    *)
(* the lock of the list while it is searched, and the lock of an           *)
(* application from then on until the transaction has begun.  Add locks an *)
(* application without waiting: nobody has it, for the holder of an        *)
(* application's lock has found it in the list, and the search has not.    *)
Holds == {"consider", "getfd", "query", "receive", "close", "decide"}

MutexLock(t) == daemon_mutex = t <=> pc[t] = "receive"
ListLock(t) == applist_lock = t <=> pc[t] = "scan"
AppLock(t) == \A a \in Apps : app_lock[a] = t <=> pc[t] \in Holds /\ cur[t].app = a
Searched(t) ==
    /\ pc[t] \in Holds => Listed(cur[t].app)
    /\ pc[t] = "scan" => /\ cur[t].at >= 1
                         /\ \A i \in 1..Len(applist) : i < cur[t].at => applist[i] # cur[t].app

Locks ==
    /\ active # {}
    /\ \A t \in Threads \ active : pc[t] = "idle"
    /\ \A t \in Threads : MutexLock(t) /\ ListLock(t) /\ AppLock(t) /\ Searched(t)

(* A thread that moves, and takes or gives back the locks its places ask   *)
(* for, leaves the locks of the others alone.                              *)
LEMMA OneThreadMoves ==
    ASSUME IInv, Locks, NEW t \in active, NEW p \in Pcs, pc' = [pc EXCEPT ![t] = p],
           UNCHANGED active,
           \A u \in Threads : u # t => cur'[u] = cur[u],
           \/ pc[t] # "receive" /\ p # "receive" /\ UNCHANGED daemon_mutex
           \/ p = "receive" /\ daemon_mutex = NoThread /\ daemon_mutex' = t
           \/ pc[t] = "receive" /\ p # "receive" /\ daemon_mutex' = NoThread,
           \/ pc[t] # "scan" /\ p # "scan" /\ UNCHANGED applist_lock
           \/ pc[t] = "scan" /\ p = "scan" /\ UNCHANGED applist_lock
           \/ p = "scan" /\ applist_lock = NoThread /\ applist_lock' = t
           \/ pc[t] = "scan" /\ p # "scan" /\ applist_lock' = NoThread,
           \/ pc[t] \notin Holds /\ p \notin Holds /\ UNCHANGED app_lock
           \/ pc[t] \in Holds /\ p \in Holds /\ cur'[t].app = cur[t].app /\ UNCHANGED app_lock
           \/ /\ pc[t] \notin Holds /\ p \in Holds /\ cur'[t].app \in Apps
              /\ app_lock[cur'[t].app] = NoThread
              /\ app_lock' = [app_lock EXCEPT ![cur'[t].app] = t]
           \/ /\ pc[t] \in Holds /\ p \notin Holds
              /\ app_lock' = [app_lock EXCEPT ![cur[t].app] = NoThread],
           \A u \in Threads : Searched(u)'
    PROVE  Locks'
<1>0. t \in Threads /\ NoThread \notin Threads
  BY LinkAssumption DEF IInv, Types
<1>1. /\ pc'[t] = p /\ \A u \in Threads : u # t => pc'[u] = pc[u]
  BY <1>0 DEF IInv, Types
<1>2. \A u \in Threads \ active : pc'[u] = "idle"
  BY <1>1 DEF Locks
<1>3. ASSUME NEW u \in Threads PROVE MutexLock(u)'
  BY <1>0, <1>1 DEF Locks, MutexLock
<1>4. ASSUME NEW u \in Threads PROVE ListLock(u)'
  BY <1>0, <1>1 DEF Locks, ListLock
<1>5. ASSUME NEW u \in Threads PROVE AppLock(u)'
  <2>1. app_lock \in [Apps -> Threads \cup {NoThread}] /\ AppLock(u) /\ AppLock(t)
    BY <1>0 DEF Locks, IInv, Types
  <2>2. pc[t] \in Holds => cur[t].app \in Apps
    BY <1>0 DEF IInv, Types, Holds, HasApp
  <2>3. CASE u = t
    BY <1>0, <1>1, <2>1, <2>2, <2>3 DEF AppLock
  <2>4. CASE u # t
    BY <1>0, <1>1, <2>1, <2>2, <2>4 DEF AppLock
  <2> QED
    BY <2>3, <2>4
<1> QED
  BY <1>2, <1>3, <1>4, <1>5 DEF Locks

(* A thread that neither searches nor changes the list.                    *)
LEMMA SearchKept ==
    ASSUME IInv, Locks, NEW t \in active, NEW p \in Pcs, pc' = [pc EXCEPT ![t] = p],
           UNCHANGED applist, \A u \in Threads : u # t => cur'[u] = cur[u],
           p # "scan", p \in Holds => pc[t] \in Holds /\ cur'[t].app = cur[t].app
    PROVE  \A u \in Threads : Searched(u)'
<1>0. t \in Threads
  BY DEF IInv, Types
<1>1. pc'[t] = p /\ \A u \in Threads : u # t => pc'[u] = pc[u]
  BY <1>0 DEF IInv, Types
<1> QED
  BY <1>0, <1>1 DEF Locks, Searched, Listed

(* The steps that leave the list and its lock alone.                       *)
LEMMA PlainLocks ==
    ASSUME IInv, Locks, NEW t \in active,
           \/ BeginNeedsDaemon(t) \/ Consider(t) \/ GetFd(t) \/ AppinfoWrite(t)
           \/ AppinfoReceive(t) \/ nr_agent_close_daemon_connection(t)
           \/ nr_agent_find_or_add_app(t) \/ EndGetFd(t) \/ SendData(t) \/ SendFailed(t)
    PROVE  Locks'
<1>0. t \in Threads
  BY DEF IInv, Types
<1>1. /\ UNCHANGED <<active, applist, applist_lock>>
      /\ \A u \in Threads : u # t => cur'[u] = cur[u]
  BY <1>0 DEF IInv, Types, BeginNeedsDaemon, Consider, GetFd, EndGetFd, nr_get_daemon_fd,
     AppinfoWrite, AppinfoReceive, nr_agent_close_daemon_connection, nr_agent_find_or_add_app,
     SendData, SendFailed, appVars, linkVars, threadVars
<1>2. ASSUME NEW p \in Pcs, pc' = [pc EXCEPT ![t] = p], p # "scan", pc[t] # "scan",
             \/ pc[t] # "receive" /\ p # "receive" /\ UNCHANGED daemon_mutex
             \/ p = "receive" /\ daemon_mutex = NoThread /\ daemon_mutex' = t
             \/ pc[t] = "receive" /\ p # "receive" /\ daemon_mutex' = NoThread,
             \/ pc[t] \notin Holds /\ p \notin Holds /\ UNCHANGED app_lock
             \/ pc[t] \in Holds /\ p \in Holds /\ cur'[t].app = cur[t].app /\ UNCHANGED app_lock
             \/ /\ pc[t] \in Holds /\ p \notin Holds
                /\ app_lock' = [app_lock EXCEPT ![cur[t].app] = NoThread]
      PROVE  Locks'
  <2>1. \A u \in Threads : Searched(u)'
    BY <1>1, <1>2, SearchKept
  <2> QED
    BY <1>1, <1>2, <2>1, OneThreadMoves
<1>3. CASE BeginNeedsDaemon(t)
  <2>1. pc[t] = "idle" /\ UNCHANGED <<daemon_mutex, app_lock>>
        /\ pc' \in {pc, [pc EXCEPT ![t] = "begin"]}
    BY <1>3 DEF BeginNeedsDaemon, appVars
  <2>2. pc = [pc EXCEPT ![t] = "idle"]
    BY <1>0, <2>1 DEF IInv, Types
  <2> QED
    BY <1>2, <2>1, <2>2 DEF Pcs, Holds
<1>4. CASE Consider(t)
  <2>1. pc[t] = "consider" /\ UNCHANGED <<daemon_mutex, app_lock, cur>>
        /\ \E p \in {"getfd", "decide"} : pc' = [pc EXCEPT ![t] = p]
    BY <1>4 DEF Consider, appVars
  <2> QED
    BY <1>2, <2>1 DEF Pcs, Holds
<1>5. CASE GetFd(t) \/ EndGetFd(t)
  <2>1. /\ UNCHANGED <<daemon_mutex, app_lock, cur>>
        /\ \/ pc[t] = "getfd" /\ pc' = [pc EXCEPT ![t] = "query"]
           \/ pc[t] = "intxn" /\ pc' = [pc EXCEPT ![t] = "send"]
    BY <1>5 DEF GetFd, EndGetFd, nr_get_daemon_fd, appVars
  <2> QED
    BY <1>2, <2>1 DEF Pcs, Holds
<1>6. CASE AppinfoWrite(t)
  <2>1. /\ pc[t] = "query" /\ daemon_mutex = NoThread /\ UNCHANGED <<app_lock, cur>>
        /\ \/ pc' = [pc EXCEPT ![t] = "receive"] /\ daemon_mutex' = t
           \/ /\ UNCHANGED daemon_mutex
              /\ \E p \in {"decide", "close"} : pc' = [pc EXCEPT ![t] = p]
    BY <1>6 DEF AppinfoWrite, QueryEnds
  <2> QED
    BY <1>2, <2>1 DEF Pcs, Holds
<1>7. CASE AppinfoReceive(t)
  <2>1. /\ pc[t] = "receive" /\ daemon_mutex' = NoThread /\ UNCHANGED <<app_lock, cur>>
        /\ \E p \in {"decide", "close"} : pc' = [pc EXCEPT ![t] = p]
    BY <1>7 DEF AppinfoReceive, QueryEnds
  <2> QED
    BY <1>2, <2>1 DEF Pcs, Holds
<1>8. CASE nr_agent_close_daemon_connection(t)
  <2>1. /\ pc[t] = "close" /\ UNCHANGED <<daemon_mutex, app_lock, cur>>
        /\ pc' = [pc EXCEPT ![t] = "decide"]
    BY <1>8 DEF nr_agent_close_daemon_connection, appVars
  <2> QED
    BY <1>2, <2>1 DEF Pcs, Holds
<1>9. CASE nr_agent_find_or_add_app(t)
  <2>1. /\ pc[t] = "decide" /\ UNCHANGED daemon_mutex
        /\ \/ pc' = [pc EXCEPT ![t] = "consider"] /\ UNCHANGED <<app_lock, cur>>
           \/ /\ app_lock' = [app_lock EXCEPT ![cur[t].app] = NoThread]
              /\ \E p \in {"intxn", "idle"} : pc' = [pc EXCEPT ![t] = p]
    BY <1>9 DEF nr_agent_find_or_add_app
  <2> QED
    BY <1>2, <2>1 DEF Pcs, Holds
<1>10. CASE SendData(t) \/ SendFailed(t)
  <2>1. /\ pc[t] \in {"send", "failed"} /\ UNCHANGED <<daemon_mutex, app_lock>>
        /\ \E p \in {"idle", "failed"} : pc' = [pc EXCEPT ![t] = p]
    BY <1>10 DEF SendData, SendFailed, appVars
  <2> QED
    BY <1>2, <2>1 DEF Pcs, Holds
<1> QED
  BY <1>3, <1>4, <1>5, <1>6, <1>7, <1>8, <1>9, <1>10

(* The search of the list.                                                 *)
LEMMA SearchLocks ==
    ASSUME IInv, Locks, NEW t \in active, Begin(t) \/ Scan(t) \/ Add(t)
    PROVE  Locks'
<1>0. t \in Threads /\ NoThread \notin Threads
  BY LinkAssumption DEF IInv, Types
<1>1. UNCHANGED <<active, daemon_mutex>>
  BY DEF Begin, Scan, Add
<1>2. CASE Begin(t)
  <2>1. PICK a \in Apps : cur' = [cur EXCEPT ![t] = [app |-> a, at |-> 1]]
    BY <1>2 DEF Begin
  <2>2. /\ pc[t] = "begin" /\ pc' = [pc EXCEPT ![t] = "scan"] /\ UNCHANGED <<applist, app_lock>>
        /\ applist_lock = NoThread /\ applist_lock' = t
    BY <1>2 DEF Begin
  <2>3. cur'[t] = [app |-> a, at |-> 1] /\ \A u \in Threads : u # t => cur'[u] = cur[u]
    BY <1>0, <2>1 DEF IInv, Types
  <2>4. pc'[t] = "scan" /\ \A u \in Threads : u # t => pc'[u] = pc[u]
    BY <1>0, <2>2 DEF IInv, Types
  <2>5. ASSUME NEW u \in Threads PROVE Searched(u)'
    <3>1. CASE u = t
      <4>1. cur'[u].at = 1 /\ pc'[u] = "scan"
        BY <2>3, <2>4, <3>1
      <4> QED
        BY <4>1 DEF Searched, Holds
    <3>2. CASE u # t
      BY <2>2, <2>3, <2>4, <3>2 DEF Locks, Searched, Listed
    <3> QED
      BY <3>1, <3>2
  <2> QED
    BY <1>0, <1>1, <2>2, <2>3, <2>5, OneThreadMoves DEF Pcs, Holds
<1>3. CASE Scan(t)
  <2> DEFINE a == applist[cur[t].at]
  <2>1. /\ pc[t] = "scan" /\ cur[t].at <= Len(applist) /\ app_lock[a] = NoThread
        /\ UNCHANGED applist
        /\ cur[t].at \in 1..Len(applist) /\ Len(applist) \in Nat
    BY <1>0, <1>3 DEF Scan, Locks, Searched, IInv, Types
  <2>2. \A u \in Threads : u # t => cur'[u] = cur[u]
    BY <1>0, <1>3 DEF Scan, IInv, Types
  <2>3. CASE a # cur[t].app /\ cur' = [cur EXCEPT ![t].at = @ + 1] /\ UNCHANGED <<applist_lock, app_lock, pc>>
    <3>1. pc' = [pc EXCEPT ![t] = "scan"]
      BY <1>0, <2>1, <2>3 DEF IInv, Types
    <3>2. cur'[t].at = cur[t].at + 1 /\ cur'[t].app = cur[t].app
      BY <1>0, <2>3 DEF IInv, Types
    <3>3. Searched(t)'
      <4>1. ASSUME NEW i \in 1..Len(applist), i < cur[t].at + 1 PROVE applist[i] # cur[t].app
        <5>1. CASE i = cur[t].at
          BY <2>3, <5>1
        <5>2. CASE i < cur[t].at
          BY <1>0, <2>1, <5>2 DEF Locks, Searched
        <5> QED
          BY <2>1, <4>1, <5>1, <5>2
      <4> QED
        BY <2>1, <2>3, <3>2, <4>1 DEF Searched, Holds
    <3>4. \A u \in Threads : Searched(u)'
      BY <2>1, <2>2, <2>3, <3>3 DEF Locks, Searched, Listed
    <3> QED
      BY <1>0, <1>1, <2>1, <2>2, <2>3, <3>1, <3>4, OneThreadMoves DEF Pcs, Holds
  <2>4. CASE /\ a = cur[t].app /\ app_lock' = [app_lock EXCEPT ![a] = t] /\ applist_lock' = NoThread
             /\ pc' = [pc EXCEPT ![t] = "consider"] /\ UNCHANGED cur
    <3>1. pc'[t] = "consider" /\ \A u \in Threads : u # t => pc'[u] = pc[u]
      BY <1>0, <2>4 DEF IInv, Types
    <3>2. Listed(cur[t].app) /\ cur[t].app \in Apps
      BY <1>0, <2>1, <2>4 DEF Listed, IInv, Types
    <3>3. \A u \in Threads : Searched(u)'
      BY <2>1, <2>4, <3>1, <3>2 DEF Locks, Searched, Listed
    <3> QED
      BY <1>0, <1>1, <2>1, <2>2, <2>4, <3>2, <3>3, OneThreadMoves DEF Pcs, Holds
  <2>5. CASE /\ applist_lock' = NoThread /\ cur' = [cur EXCEPT ![t] = NoCur]
             /\ pc' = [pc EXCEPT ![t] = "idle"] /\ UNCHANGED app_lock
    <3>1. \A u \in Threads : Searched(u)'
      BY <2>1, <2>2, <2>5, SearchKept DEF Pcs, Holds
    <3> QED
      BY <1>0, <1>1, <2>1, <2>2, <2>5, <3>1, OneThreadMoves DEF Pcs, Holds
  <2> QED
    BY <1>3, <2>3, <2>4, <2>5 DEF Scan
<1>4. CASE Add(t)
  <2>1. /\ pc[t] = "scan" /\ cur[t].at > Len(applist) /\ applist_lock' = NoThread
        /\ \A u \in Threads : u # t => cur'[u] = cur[u]
    BY <1>0, <1>4 DEF Add, IInv, Types
  <2>2. CASE /\ cur' = [cur EXCEPT ![t] = NoCur] /\ pc' = [pc EXCEPT ![t] = "idle"]
             /\ UNCHANGED <<applist, app_lock, app>>
    <3>1. \A u \in Threads : Searched(u)'
      BY <2>1, <2>2, SearchKept DEF Pcs, Holds
    <3> QED
      BY <1>0, <1>1, <2>1, <2>2, <3>1, OneThreadMoves DEF Pcs, Holds
  <2>3. CASE /\ applist' = Append(applist, cur[t].app)
             /\ app_lock' = [app_lock EXCEPT ![cur[t].app] = t]
             /\ pc' = [pc EXCEPT ![t] = "consider"] /\ UNCHANGED cur
    <3>1. cur[t].app \in Apps /\ applist \in Seq(Apps) /\ Len(applist) \in Nat /\ cur[t].at \in Nat
      BY <1>0, <2>1 DEF IInv, Types, HasApp
    <3>2. /\ Len(applist') = Len(applist) + 1 /\ applist'[Len(applist) + 1] = cur[t].app
          /\ \A i \in 1..Len(applist) : applist'[i] = applist[i]
      BY <2>3, <3>1
    <3>3. pc'[t] = "consider" /\ \A u \in Threads : u # t => pc'[u] = pc[u]
      BY <1>0, <2>3 DEF IInv, Types
    <3>4. \A i \in 1..Len(applist) : applist[i] # cur[t].app
      BY <1>0, <2>1, <3>1 DEF Locks, Searched
    <3>5. app_lock[cur[t].app] = NoThread
      <4>1. app_lock[cur[t].app] \in Threads \cup {NoThread}
        BY <3>1 DEF IInv, Types
      <4>2. ASSUME NEW u \in Threads, app_lock[cur[t].app] = u PROVE FALSE
        <5>1. Listed(cur[t].app)
          BY <3>1, <4>2 DEF Locks, AppLock, Searched
        <5> QED
          BY <3>4, <5>1 DEF Listed
      <4> QED
        BY <4>1, <4>2
    <3>6. ASSUME NEW u \in Threads PROVE Searched(u)'
      <4>1. CASE u = t
        <5>1. Len(applist') \in 1..Len(applist') /\ applist'[Len(applist')] = cur'[u].app
          BY <2>3, <3>1, <3>2, <4>1
        <5> QED
          BY <3>3, <4>1, <5>1 DEF Searched, Listed
      <4>2. CASE u # t
        <5>1. pc'[u] = pc[u] /\ cur'[u] = cur[u] /\ pc[u] # "scan"
          BY <1>0, <2>1, <2>3, <3>3, <4>2 DEF Locks, ListLock
        <5>2. Listed(cur[u].app) => Listed(cur[u].app)'
          <6> SUFFICES ASSUME NEW i \in 1..Len(applist), applist[i] = cur[u].app
                       PROVE  Listed(cur[u].app)'
            BY DEF Listed
          <6>1. i \in 1..Len(applist') /\ applist'[i] = cur'[u].app
            BY <3>1, <3>2, <5>1
          <6> QED
            BY <6>1 DEF Listed
        <5> QED
          BY <5>1, <5>2 DEF Locks, Searched
      <4> QED
        BY <4>1, <4>2
    <3> QED
      BY <1>0, <1>1, <2>1, <2>3, <3>1, <3>5, <3>6, OneThreadMoves DEF Pcs, Holds
  <2> QED
    BY <1>4, <2>2, <2>3 DEF Add
<1> QED
  BY <1>2, <1>3, <1>4

(* Whoever holds the connection's mutex waits for nothing but the reply,   *)
(* and when nobody does the holders of applications go on; so the threads  *)
(* of a process never all wait for each other, however many there are.     *)
THEOREM ThreadsNeverAllWait == Spec => []SomeThreadRuns
<1>1. Init => Locks
  <2> SUFFICES ASSUME Init PROVE Locks
    OBVIOUS
  <2>1. active # {}
    <3>1. Cardinality({}) # 1
      BY FS_EmptySet
    <3> QED
      BY <3>1, LinkAssumption DEF Init
  <2> QED
    BY <2>1, LinkAssumption DEF Init, Locks, MutexLock, ListLock, AppLock, Searched, Holds
<1>2. IInv /\ Locks /\ [Next]_vars => Locks'
  <2> SUFFICES ASSUME IInv, Locks, [Next]_vars PROVE Locks'
    OBVIOUS
  <2>1. ASSUME NEW t \in active, Step(t) PROVE Locks'
    BY <2>1, PlainLocks, SearchLocks DEF Step
  <2>2. ASSUME UNCHANGED <<active, daemon_mutex, applist, applist_lock, app_lock, pc, cur>>
        PROVE  Locks'
    BY <2>2 DEF Locks, MutexLock, ListLock, AppLock, Searched, Listed
  <2>3. CASE (\E f \in Fds : DaemonReply(f)) \/ DaemonStop \/ DaemonStart \/ UNCHANGED vars
    BY <2>2, <2>3 DEF DaemonReply, DaemonStop, DaemonStart, vars, linkVars, appVars, threadVars,
       daemonVars
  <2> QED
    BY <2>1, <2>3 DEF Next
<1>3. IInv /\ Locks => SomeThreadRuns
  <2> SUFFICES ASSUME IInv, Locks, \A t \in active : Waits(t) PROVE FALSE
    BY DEF SomeThreadRuns
  <2>1. \A t \in Threads : t \notin active => pc[t] = "idle"
    BY DEF Locks
  <2>2. daemon_mutex = NoThread
    <3>1. ASSUME NEW t \in Threads, daemon_mutex = t PROVE FALSE
      <4>1. pc[t] = "receive" /\ t \in active
        BY <2>1, <3>1 DEF Locks, MutexLock
      <4> QED
        BY <4>1 DEF Waits
    <3> QED
      BY <3>1 DEF IInv, Types
  <2>3. ASSUME NEW t \in Threads, pc[t] \in Holds PROVE FALSE
    <3>1. t \in active
      BY <2>1, <2>3 DEF Holds
    <3> QED
      BY <2>2, <2>3, <3>1 DEF Waits, Holds
  <2>4. ASSUME NEW t \in Threads, pc[t] = "scan" PROVE FALSE
    <3>1. t \in active
      BY <2>1, <2>4
    <3>2. cur[t].at \in 1..Len(applist) /\ applist[cur[t].at] \in Apps
          /\ app_lock[applist[cur[t].at]] # NoThread
      <4>1. cur[t].at <= Len(applist) /\ app_lock[applist[cur[t].at]] # NoThread
        BY <2>4, <3>1 DEF Waits
      <4>2. cur[t].at \in Nat /\ cur[t].at >= 1 /\ applist \in Seq(Apps)
        BY <2>4 DEF Locks, Searched, IInv, Types
      <4> QED
        BY <4>1, <4>2
    <3>3. PICK u \in Threads : app_lock[applist[cur[t].at]] = u
      BY <3>2 DEF IInv, Types
    <3>4. pc[u] \in Holds
      BY <3>2, <3>3 DEF Locks, AppLock
    <3> QED
      BY <2>3, <3>4
  <2>5. PICK t \in Threads : t \in active
    BY DEF Locks, IInv, Types
  <2>6. pc[t] = "begin" /\ applist_lock # NoThread
    BY <2>2, <2>4, <2>5 DEF Waits
  <2>7. PICK u \in Threads : applist_lock = u
    BY <2>6 DEF IInv, Types
  <2>8. pc[u] = "scan"
    BY <2>7 DEF Locks, ListLock
  <2> QED
    BY <2>4, <2>8
<1> QED
  BY <1>1, <1>2, <1>3, LinkInvariant, PTL DEF Spec
===============================================================================
