------------------------------- MODULE Guzzle -------------------------------
(***************************************************************************)
(* The requests of Guzzle, which run side by side: lib_guzzle_common.c,    *)
(* lib_guzzle4.c (versions 4 and 5) and lib_guzzle6.c (version 6 and       *)
(* later).                                                                 *)
(*                                                                         *)
(* A request has a segment of its own from the time it is announced until  *)
(* its answer is there.  guzzle_objs finds the segment by the handle of a  *)
(* PHP object: of the request in version 4, of a RequestHandler that the   *)
(* agent's middleware makes for the request in version 6.  PHP gives the   *)
(* handle of an object that is gone to the next one, and guzzle_objs does  *)
(* not hear of it.                                                         *)
(*                                                                         *)
(* In version 4 the agent's subscriber is attached to the emitter of every *)
(* client, in version 6 its middleware is pushed on the handler stack of   *)
(* every client; clients may share either, which is then there twice.      *)
(***************************************************************************)
EXTENDS Externals

CONSTANTS GzHandles,       \* handles of PHP's objects
          GzMaxRequests,   \* requests of Guzzle in a request of PHP
          GzMaxClients,    \* clients that share an emitter or a handler stack
          GzMaxSteps       \* clients, transactions and further announcements

VARIABLE gz
gzVars == <<gz>>

GzStart(v, php, iface, late) ==
  [v |-> v, txn |-> 1, txns |-> 1,
   objs |-> nr_hashmap_create,   \* guzzle_objs: segments by handle
   segs |-> <<>>,                \* the segments of requests
   reqs |-> <<>>,                \* the requests themselves (external)
   layers |-> 0,                 \* subscribers or middleware that clients share
   steps |-> 0,
   iface |-> iface,              \* Subscriber implements SubscriberInterface
   declared |-> FALSE,           \* ... which PHP knows in this request
   phase |-> "runs", php |-> php,
   late |-> late]                \* a client was made after RSHUTDOWN

GzLive(g) == {r \in DOMAIN g.reqs : g.reqs[r].state # "freed"}
FreeHandles(g) == GzHandles \ UNION {Range(g.reqs[r].handles) : r \in GzLive(g)}

------------------------------------------------------------------------------
(* lib_guzzle_common.c.                                                    *)

nr_guzzle_obj_add(g, handle, r) ==
  LET s == IF g.txn = NULL THEN NULL ELSE Len(g.segs) + 1
  IN  [g EXCEPT !.segs = IF s = NULL THEN @
                         ELSE Append(@, [request |-> r, txn |-> g.txn, answers |-> <<>>]),
                !.objs = nr_hashmap_update(@, handle, s)]

\* Mutant: what is found is not removed.
FindOnly(g, handle) == [g |-> g, s |-> nr_hashmap_get(g.objs, handle)]

nr_guzzle_obj_find_and_remove(g, handle) ==      \* [g, s]
  LET s == nr_hashmap_get(g.objs, handle)
  IN  [g |-> IF s = NULL THEN g ELSE [g EXCEPT !.objs = nr_hashmap_delete(@, handle)], s |-> s]

\* setHeader replaces what a header was before.
nr_guzzle_request_set_outbound_headers(g, r, s) ==
  IF s = NULL THEN g ELSE [g EXCEPT !.reqs[r].header = s]

\* nr_segment_external_end.
EndRequest(g, s, r) ==
  [g EXCEPT !.segs[s].answers = Append(@, [to |-> r, announced |-> g.reqs[r].announced])]

------------------------------------------------------------------------------
(* Versions 4 and 5.                                                       *)

nr_guzzle4_subscriber_on_before(g, r) ==
  LET handle == g.reqs[r].handles[1]
      a == nr_guzzle_obj_add([g EXCEPT !.reqs[r].announced = TRUE], handle, r)
  IN  nr_guzzle_request_set_outbound_headers(a, r, a.objs[handle])

\* answer: "response", "no url" or something that is no response.
nr_guzzle4_subscriber_on_complete(g, r, answer) ==
  IF answer = "none" THEN g
  ELSE LET f == nr_guzzle_obj_find_and_remove(g, g.reqs[r].handles[1])
       IN  IF f.s = NULL \/ answer = "no url" THEN f.g ELSE EndRequest(f.g, f.s, r)

\* emitter: the client has one, and takes the subscriber.
nr_guzzle4_client_construct(g, emitter) ==
  LET implements == g.iface \/ g.declared
  IN  [g EXCEPT !.iface = implements, !.layers = IF implements /\ emitter THEN @ + 1 ELSE @]


nr_guzzle4_rshutdown(g) == IF g.declared THEN [g EXCEPT !.iface = FALSE] ELSE g

------------------------------------------------------------------------------
(* Version 6.                                                              *)

\* Answers: a response, an exception with one, an exception whose response is
\* missing, and another exception or a promise that was rejected at once.
Answers6 == {"response", "bad response", "bad without response", "other"}

\* uri: the URI of the request is a text.
nr_guzzle6_requesthandler_handle_response(g, handle, r, uri) ==
  LET f == nr_guzzle_obj_find_and_remove(g, handle)
  IN  IF f.s = NULL \/ ~uri THEN f.g ELSE EndRequest(f.g, f.s, r)

nr_guzzle6_requesthandler_construct(g, handle, r) ==
  IF g.txn = NULL THEN g ELSE nr_guzzle_obj_add(g, handle, r)

nr_guzzle6_requesthandler_onfulfilled(g, handle, r, uri) ==
  IF g.txn = NULL THEN g ELSE nr_guzzle6_requesthandler_handle_response(g, handle, r, uri)

nr_guzzle6_requesthandler_onrejected(g, handle, r, answer, uri) ==
  IF g.txn = NULL \/ answer = "bad without response" THEN g
  ELSE nr_guzzle6_requesthandler_handle_response(g, handle, r, uri)

\* The middleware's callable, the client's configuration and its handler stack
\* are what they have to be.
nr_guzzle6_client_construct(g, stack) == IF stack THEN [g EXCEPT !.layers = @ + 1] ELSE g

\* The code that nr_guzzle6_enable evaluates, for one request: every layer of
\* the middleware makes a handler of its own.  The headers are those of the
\* segment that is current, not of the one that the handler starts.
middleware(g, r) ==
  FoldLeft(LAMBDA y, handle : nr_guzzle6_requesthandler_construct(
                                [y EXCEPT !.reqs[r].announced = TRUE], handle, r),
           g, g.reqs[r].handles)

MiddlewareAnswered(g, r, answer, uri) ==
  FoldLeft(LAMBDA y, handle :
             IF answer = "response" THEN nr_guzzle6_requesthandler_onfulfilled(y, handle, r, uri)
             ELSE nr_guzzle6_requesthandler_onrejected(y, handle, r, answer, uri),
           g, g.reqs[r].handles)

------------------------------------------------------------------------------
(* Scripts.                                                                *)

GzInit == \E v \in {4, 6} : gz = GzStart(v, 1, FALSE, FALSE)

GzMay == gz.steps < GzMaxSteps /\ gz.phase # "over"
GzStep(g) == [g EXCEPT !.steps = @ + 1]

\* The constructor is wrapped while there is a transaction; the code of a session
\* handler may call it after RSHUTDOWN.
nr_guzzle_client_construct ==
  /\ GzMay /\ gz.txn # NULL /\ gz.layers < GzMaxClients
  /\ \/ /\ gz.v = 4
        /\ \E declared, emitter \in BOOLEAN :
             /\ gz.declared => declared
             /\ gz' = [GzStep(nr_guzzle4_client_construct([gz EXCEPT !.declared = declared], emitter))
                         EXCEPT !.late = @ \/ gz.phase = "shut down"]
     \/ /\ gz.v = 6
        /\ \E stack \in BOOLEAN : gz' = GzStep(nr_guzzle6_client_construct(gz, stack))

Announce(g, r, n) ==
  FoldLeft(LAMBDA y, i : nr_guzzle4_subscriber_on_before(y, r), g, [i \in 1..n |-> i])

NewRequest(handles) == [handles |-> handles, state |-> "sent", announced |-> FALSE, header |-> NULL]

\* A request of a client with an emitter or stack of its own, or a shared one.  A
\* listener of the script that comes first may answer it, and the subscriber
\* hears of it only when it is complete.
GzSend ==
  /\ gz.phase = "runs" /\ gz.layers > 0 /\ Len(gz.reqs) < GzMaxRequests
  /\ gz.php = 1        \* bound: the second request of PHP has only clients
  /\ \E n \in {1, gz.layers} :
       LET r == Len(gz.reqs) + 1
           Sent(handles) == [gz EXCEPT !.reqs = Append(@, NewRequest(handles))]
       IN  \/ gz.v = 4 /\ \E h \in FreeHandles(gz) :
                \/ gz' = Announce(Sent(<<h>>), r, n)
                \/ gz' = Sent(<<h>>)
           \/ gz.v = 6 /\ \E hs \in [1..n -> FreeHandles(gz)] :
                IsInjective(hs) /\ gz' = middleware(Sent(hs), r)

\* Version 4 announces a request again that is sent again.
GzRetry ==
  /\ GzMay /\ gz.phase = "runs" /\ gz.v = 4
  /\ \E r \in GzLive(gz), n \in {1, gz.layers} :
       gz' = GzStep(Announce([gz EXCEPT !.reqs[r].state = "sent"], r, n))

GzAnswer ==
  /\ gz.phase = "runs"
  /\ \E r \in GzLive(gz) :
       /\ gz.reqs[r].state = "sent"
       /\ LET done == [gz EXCEPT !.reqs[r].state = "answered"]
          IN  \/ gz.v = 4 /\ \E answer \in {"response", "no url", "none"}, n \in {1, gz.layers} :
                   gz' = FoldLeft(LAMBDA y, i : nr_guzzle4_subscriber_on_complete(y, r, answer),
                                  done, [i \in 1..n |-> i])
              \/ gz.v = 6 /\ \E answer \in Answers6, uri \in BOOLEAN :
                   gz' = MiddlewareAnswered(done, r, answer, uri)

\* The objects of a request go, answered or not; version 4 does not hear of errors.
GzFree ==
  /\ gz.phase = "runs"
  /\ \E r \in GzLive(gz) : gz' = [gz EXCEPT !.reqs[r].state = "freed"]

\* The end of a transaction destroys guzzle_objs (nr_php_txn_end).
GzEndTransaction(g) == [g EXCEPT !.txn = NULL, !.objs = nr_hashmap_create]

GzTransaction ==
  /\ GzMay /\ gz.phase = "runs"
  /\ gz' = GzStep(IF gz.txn # NULL THEN GzEndTransaction(gz)
                  ELSE [gz EXCEPT !.txn = gz.txns + 1, !.txns = @ + 1])

\* RSHUTDOWN, the end of the request of PHP, and the next one.
GzShutdown ==
  /\ gz.phase = "runs"
  /\ gz' = [nr_guzzle4_rshutdown(gz) EXCEPT !.phase = "shut down"]

GzOver ==
  /\ gz.phase = "shut down"
  /\ gz' = [GzStart(gz.v, gz.php, gz.iface, gz.late) EXCEPT !.phase = "over", !.txn = NULL]

GzNextRequest ==
  /\ gz.phase = "over" /\ gz.php = 1
  /\ gz' = GzStart(gz.v, 2, gz.iface, gz.late)

GzNext == nr_guzzle_client_construct \/ GzSend \/ GzRetry \/ GzAnswer \/ GzFree
          \/ GzTransaction \/ GzShutdown \/ GzOver \/ GzNextRequest

------------------------------------------------------------------------------
(* Properties.                                                             *)

\* guzzle_objs has no segment that is gone with its transaction or has ended.
TrackedSegmentsLive ==
  \A h \in DOMAIN gz.objs : gz.objs[h] # NULL =>
    LET s == gz.segs[gz.objs[h]] IN s.txn = gz.txn /\ s.answers = <<>>

\* A segment is ended at most once, and by the answer to the request it was
\* started for, though handles are used again.  The answer to a request that was
\* never announced may end the segment of an earlier request with its handle.
AnswerEndsOwnSegment ==
  \A s \in DOMAIN gz.segs :
    LET seg == gz.segs[s]
    IN  /\ Len(seg.answers) <= 1
        /\ \A i \in DOMAIN seg.answers :
             seg.answers[i].announced => seg.answers[i].to = seg.request

\* In version 4 the request has the headers of the segment that its answer will
\* end, also if it is announced several times.
HeaderNamesTrackedSegment ==
  gz.v = 4 => \A r \in GzLive(gz) :
    LET s == nr_hashmap_get(gz.objs, gz.reqs[r].handles[1])
    IN  gz.reqs[r].announced /\ s # NULL => gz.reqs[r].header = s

\* The agent's class, which outlives requests, does not point to the interface
\* of a request that is over, unless a client was made after RSHUTDOWN.
InterfaceGoes == gz.phase = "over" /\ ~gz.late => ~gz.iface

GuzzleRequestsAreOwn ==
  TrackedSegmentsLive /\ AnswerEndsOwnSegment /\ HeaderNamesTrackedSegment /\ InterfaceGoes

=============================================================================
