------------------------------ MODULE Externals ------------------------------
(***************************************************************************)
(* Requests that a script makes to other services: curl, curl_multi,       *)
(* file_get_contents, HttpRequest and SoapClient (php_curl.c,              *)
(* php_curl_md.c, php_file_get_contents.c, php_httprequest_send.c and the  *)
(* wrappers of php_internal_instrument.c).                                 *)
(*                                                                         *)
(* The agent puts its own headers into requests that carry the script's    *)
(* headers: for curl it replaces the headers of the handle by those it has *)
(* seen the script set followed by its own; for file_get_contents it       *)
(* writes into the stream context and takes its headers out again.         *)
(*                                                                         *)
(* A header is <<name, segment>>: <<"user", 0>> is the script's own, and   *)
(* the agent's headers name the segment of the request they were made for. *)
(* The wrappers only do their work while a transaction is recorded; else   *)
(* they call the original and nothing more (nr_php_instrument_delegate).   *)
(***************************************************************************)
EXTENDS AgentBase

CONSTANTS XMaxCalls,   \* calls of a script
          XModes       \* subset of {"off", "cat", "dt"}

User == <<"user", 0>>

VARIABLE ex
exVars == <<ex>>

EmptyMd == [headers |-> NULL, method |-> NULL, response |-> NULL, segment |-> NULL]

RootSegment == [state |-> "open", parent |-> NULL, method |-> NULL,
                response |-> NULL, ends |-> 0]

ExStart(mode, order) ==
  [mode |-> mode, order |-> order, recording |-> TRUE, guzzle |-> FALSE,
   md |-> nr_hashmap_create,         \* curl_metadata, by handle
   multi |-> nr_hashmap_create,      \* curl_multi_metadata, by handle
   segs |-> <<RootSegment>>,         \* the segments, of all transactions
   root |-> 1,                       \* the root segment of the transaction
   metrics |-> {}, wrapped |-> {},
   curl |-> nr_hashmap_create,       \* the handles themselves (external)
   ctx |-> nr_hashmap_create,        \* stream contexts (external)
   sent |-> NULL,                    \* the last request that was sent
   txn |-> 1,                        \* the number of the transaction
   calls |-> 0, olds |-> 0, bailed |-> FALSE]

------------------------------------------------------------------------------
(* Segments.                                                               *)

nr_segment_start_external(x, parent) ==      \* [x, s]
  IF ~x.recording THEN [x |-> x, s |-> NULL]
  ELSE [x |-> [x EXCEPT !.segs = Append(@, [RootSegment EXCEPT !.parent =
                           IF parent = NULL THEN x.root ELSE parent])],
        s |-> Len(x.segs) + 1]

EndExternal(x, s, method, response) ==
  IF s = NULL THEN x
  ELSE [x EXCEPT !.segs[s].state = "ended", !.segs[s].ends = @ + 1,
                 !.segs[s].method = method, !.segs[s].response = response]

\* nr_header_outbound_request_create: nothing without a segment.
OutboundHeaders(x, s) ==
  IF s = NULL \/ ~x.recording \/ x.mode = "off" THEN <<>>
  ELSE [i \in DOMAIN x.order |-> <<x.order[i], s>>]

------------------------------------------------------------------------------
(* What the agent knows of curl handles (php_curl_md.c).                   *)

check_curl_handle(x, ch) == ch \in DOMAIN x.curl

\* Made when it is first asked for.
get_curl_metadata(x, ch) == IF ch \in DOMAIN x.md THEN x.md[ch] ELSE EmptyMd

get_curl_multi_metadata(x, mh) ==
  IF mh \in DOMAIN x.multi THEN x.multi[mh]
  ELSE [handles |-> <<>>, segment |-> NULL, initialized |-> FALSE]

SetMd(x, ch, md) == [x EXCEPT !.md = nr_hashmap_update(@, ch, md)]
SetMulti(x, mh, mm) == [x EXCEPT !.multi = nr_hashmap_update(@, mh, mm)]

nr_php_curl_md_get(x, ch) ==
  IF check_curl_handle(x, ch) THEN get_curl_metadata(x, ch) ELSE NULL

nr_php_curl_md_set_method(x, ch, method) ==
  SetMd(x, ch, [get_curl_metadata(x, ch) EXCEPT !.method = method])

nr_php_curl_md_get_method(x, ch) ==
  LET m == get_curl_metadata(x, ch).method IN IF m = NULL THEN "GET" ELSE m

\* Mutant: only the first headers a script sets are noticed.
KeepFirstHeaders(x, ch, headers) ==
  LET md == get_curl_metadata(x, ch)
  IN  IF md.headers \notin {NULL, <<>>} THEN x
      ELSE SetMd(x, ch, [md EXCEPT !.headers = headers])

nr_php_curl_md_set_outbound_headers(x, ch, headers) ==
  SetMd(x, ch, [get_curl_metadata(x, ch) EXCEPT !.headers = headers])

nr_php_curl_md_set_response_header(x, ch, header) ==
  SetMd(x, ch, [get_curl_metadata(x, ch) EXCEPT !.response = header])

nr_php_curl_md_get_response_header(x, ch) == get_curl_metadata(x, ch).response

nr_php_curl_md_set_segment(x, ch, s) ==
  IF s = NULL THEN x
  ELSE SetMd(x, ch, [get_curl_metadata(x, ch) EXCEPT !.segment = s])

\* The metadata goes with its transaction, so that the comparison of start
\* times always succeeds.
nr_php_curl_md_get_segment(x, ch) == get_curl_metadata(x, ch).segment

\* [x, ok]
nr_php_curl_multi_md_add(x, mh, ch) ==
  LET mm == get_curl_multi_metadata(x, mh)
  IN  IF Contains(mm.handles, ch) THEN [x |-> x, ok |-> FALSE]
      ELSE [x |-> SetMulti(x, mh, [mm EXCEPT !.handles = Append(@, ch)]), ok |-> TRUE]

nr_php_curl_multi_md_remove(x, mh, ch) ==
  LET mm == get_curl_multi_metadata(x, mh)
  IN  IF ~Contains(mm.handles, ch) THEN [x |-> x, ok |-> FALSE]
      ELSE [x |-> SetMulti(x, mh, [mm EXCEPT !.handles =
                    SelectSeq(@, LAMBDA h : h # ch)]), ok |-> TRUE]

nr_php_curl_multi_md_set_segment(x, mh, s) ==
  IF s = NULL THEN x
  ELSE SetMulti(x, mh, [get_curl_multi_metadata(x, mh) EXCEPT !.segment = s])

nr_php_curl_multi_md_get_segment(x, mh) == get_curl_multi_metadata(x, mh).segment
nr_php_curl_multi_md_get_handles(x, mh) == get_curl_multi_metadata(x, mh).handles

nr_php_curl_multi_md_set_initialized(x, mh) ==
  SetMulti(x, mh, [get_curl_multi_metadata(x, mh) EXCEPT !.initialized = TRUE])

nr_php_curl_multi_md_is_initialized(x, mh) ==
  get_curl_multi_metadata(x, mh).initialized

------------------------------------------------------------------------------
(* curl (php_curl.c).  The handle itself has a url, the method, the headers *)
(* and the header function that were set on it, and the code of the last   *)
(* answer.                                                                 *)

NewCurl == [url |-> "http", method |-> "GET", headers |-> <<>>,
            header_function |-> "none", code |-> 0,
            own |-> <<>>,        \* the headers the script has set
            txn |-> 0]           \* the transaction it was made in

nr_php_curl_do_cross_process(x) == x.recording /\ x.mode # "off"

\* What the original curl_setopt does.
CurlSetopt(x, ch, opt, val) ==
  [x EXCEPT !.curl[ch] =
     CASE opt = "HTTPHEADER"     -> [@ EXCEPT !.headers = val]
       [] opt = "HEADERFUNCTION" -> [@ EXCEPT !.header_function = val]
       [] opt = "URL"            -> [@ EXCEPT !.url = val]
       [] opt \in {"POST", "PUT"} -> [@ EXCEPT !.method = opt]
       [] opt = "HTTPGET"        -> [@ EXCEPT !.method = "GET"]
       [] opt = "CUSTOMREQUEST"  -> [@ EXCEPT !.method = val]
       [] OTHER                  -> @]

nr_php_curl_setopt_curlopt_writeheader(x) ==
  [x EXCEPT !.metrics = @ \cup {"CURLOPT_WRITEHEADER"}]

nr_php_curl_setopt_curlopt_headerfunction(x, val) ==
  CASE val = "closure" -> [x EXCEPT !.metrics = @ \cup {"CURLOPT_HEADERFUNCTION"}]
    [] val = "ours"    -> x
    [] OTHER           -> [x EXCEPT !.wrapped = @ \cup {val}]

nr_php_curl_setopt_pre(x, ch, opt, val) ==
  CASE ~nr_php_curl_do_cross_process(x) -> x
    [] opt = "WRITEHEADER"    -> nr_php_curl_setopt_curlopt_writeheader(x)
    [] opt = "HEADERFUNCTION" -> nr_php_curl_setopt_curlopt_headerfunction(x, val)
    [] OTHER                  -> x

nr_php_curl_setopt_post(x, ch, opt, val) ==
  CASE ~nr_php_curl_do_cross_process(x) -> x
    [] opt = "HTTPHEADER"     -> nr_php_curl_md_set_outbound_headers(x, ch, val)
    [] opt \in {"POST", "PUT"} -> nr_php_curl_md_set_method(x, ch, opt)
    [] opt = "HTTPGET"        -> nr_php_curl_md_set_method(x, ch, "GET")
    [] opt = "CUSTOMREQUEST"  -> nr_php_curl_md_set_method(x, ch, val)
    [] OTHER                  -> x

\* ... when the script calls it.
ScriptSetopt(x, ch, opt, val) ==
  LET o == CurlSetopt(x, ch, opt, val)
  IN  IF opt = "HTTPHEADER" THEN [o EXCEPT !.curl[ch].own = val] ELSE o

curl_setopt(x, ch, opt, val) ==
  LET o == ScriptSetopt(nr_php_curl_setopt_pre(x, ch, opt, val), ch, opt, val)
  IN  nr_php_curl_setopt_post([o EXCEPT !.olds = @ + 1], ch, opt, val)

\* options: a sequence of <<option, value>>; all of them are looked at before
\* the call and all of them after it.
nr_php_curl_setopt_array(x, ch, options, before) ==
  FoldLeft(LAMBDA y, o : IF before THEN nr_php_curl_setopt_pre(y, ch, o[1], o[2])
                         ELSE nr_php_curl_setopt_post(y, ch, o[1], o[2]), x, options)

curl_setopt_array(x, ch, options) ==
  LET p == nr_php_curl_setopt_array(x, ch, options, TRUE)
      o == FoldLeft(LAMBDA y, v : ScriptSetopt(y, ch, v[1], v[2]), p, options)
  IN  nr_php_curl_setopt_array([o EXCEPT !.olds = @ + 1], ch, options, FALSE)

nr_php_curl_set_default_response_header_callback(x, ch) ==
  curl_setopt(x, ch, "HEADERFUNCTION", "ours")

nr_php_curl_set_default_request_headers(x, ch) ==
  curl_setopt(x, ch, "HTTPHEADER", <<>>)

nr_php_curl_init(x, ch) ==
  IF ~nr_php_curl_do_cross_process(x) THEN x
  ELSE nr_php_curl_set_default_request_headers(
         nr_php_curl_set_default_response_header_callback(x, ch), ch)

curl_init(x, ch) ==
  LET i == nr_php_curl_init(
             [x EXCEPT !.curl = nr_hashmap_update(@, ch, [NewCurl EXCEPT !.txn = x.txn])],
             ch)
  IN  [i EXCEPT !.olds = 1]

nr_php_curl_header_is_newrelic(h) ==
  h[1] \in {"X-NewRelic-ID", "X-NewRelic-Transaction", "X-NewRelic-Synthetics",
            "newrelic"}

\* The headers of the handle become the ones the script has set, as far as the
\* transaction has seen them, and the agent's.  The agent's own call of
\* curl_setopt is not looked at (curl_ignore_setopt).
nr_php_curl_exec_set_httpheaders(x, ch, s) ==
  LET md   == nr_php_curl_md_get(x, ch)
      seen == IF md.headers = NULL THEN <<>> ELSE md.headers
      ours == OutboundHeaders(x, s)
  IN  IF \/ s = NULL
         \/ ~nr_php_curl_do_cross_process(x)
         \/ md = NULL
         \/ \E i \in DOMAIN seen : nr_php_curl_header_is_newrelic(seen[i])
         \/ ours = <<>>
      THEN x ELSE CurlSetopt(x, ch, "HTTPHEADER", seen \o ours)

nr_php_curl_should_instrument_proto(url) == url # "file"

nr_php_curl_exec_pre(x, ch, parent) ==
  LET r == IF nr_php_curl_should_instrument_proto(x.curl[ch].url) /\ ~x.guzzle
           THEN nr_segment_start_external(x, parent) ELSE [x |-> x, s |-> NULL]
  IN  nr_php_curl_exec_set_httpheaders(
        nr_php_curl_md_set_segment(r.x, ch, r.s), ch, r.s)

nr_php_curl_save_response_header_from_zval(x, ch, header) ==
  IF header = NULL \/ ~nr_php_curl_do_cross_process(x) THEN x
  ELSE nr_php_curl_md_set_response_header(x, ch, header)

\* The agent's own header function, and one of the script's that is wrapped.
newrelic_curl_header_callback(x, ch, header) ==
  nr_php_curl_save_response_header_from_zval(x, ch, header)
nr_php_curl_user_header_callback(x, ch, header) ==
  nr_php_curl_save_response_header_from_zval(x, ch, header)

\* The transfer: the request goes out with the headers of the handle, and the
\* header function sees the answer.
Perform(x, ch, header) ==
  LET p  == [x EXCEPT !.sent = [ch |-> ch, headers |-> x.curl[ch].headers,
                                segment |-> nr_php_curl_md_get_segment(x, ch)],
                      !.curl[ch].code = IF x.curl[ch].url = "http" THEN 200 ELSE 0]
      fn == x.curl[ch].header_function
  IN  CASE fn = "ours"        -> newrelic_curl_header_callback(p, ch, header)
        [] fn \in x.wrapped   -> nr_php_curl_user_header_callback(p, ch, header)
        [] OTHER              -> p

nr_php_curl_exec_post(x, ch) ==
  EndExternal(x, nr_php_curl_md_get_segment(x, ch), nr_php_curl_md_get_method(x, ch),
              nr_php_curl_md_get_response_header(x, ch))

curl_exec(x, ch, header, caught) ==
  LET pre == nr_php_curl_exec_pre(x, ch, NULL)
      o   == Perform([pre EXCEPT !.olds = 1], ch, header)
  IN  [nr_php_curl_exec_post(o, ch) EXCEPT !.bailed = caught]

------------------------------------------------------------------------------
(* curl_multi.  The segment of the whole is the parent of the segments of  *)
(* its handles.                                                            *)

curl_multi_add_handle(x, mh, ch) ==
  LET a == nr_php_curl_multi_md_add(x, mh, ch)
      y == IF a.ok /\ nr_php_curl_multi_md_is_initialized(a.x, mh)
           THEN nr_php_curl_exec_pre(a.x, ch,
                                     nr_php_curl_multi_md_get_segment(a.x, mh))
           ELSE a.x
  IN  [y EXCEPT !.olds = 1]

curl_multi_remove_handle(x, mh, ch) ==
  LET r == nr_php_curl_multi_md_remove(x, mh, ch)
      s == nr_php_curl_md_get_segment(r.x, ch)
      y == IF r.ok /\ s # NULL THEN [r.x EXCEPT !.segs[s].state = "discarded"]
           ELSE r.x
  IN  [y EXCEPT !.olds = 1]

nr_php_curl_multi_exec_pre(x, mh) ==
  IF nr_php_curl_multi_md_is_initialized(x, mh) THEN x
  ELSE LET r == IF x.guzzle THEN [x |-> x, s |-> NULL]
                ELSE nr_segment_start_external(x, NULL)
           y == nr_php_curl_multi_md_set_segment(r.x, mh, r.s)
       IN  nr_php_curl_multi_md_set_initialized(
             FoldLeft(LAMBDA z, ch : nr_php_curl_exec_pre(z, ch, r.s), y,
                      nr_php_curl_multi_md_get_handles(y, mh)), mh)

nr_php_curl_finished(x, ch) == x.curl[ch].code # 0

EndHandles(x, mh, done) ==
  LET handles == nr_php_curl_multi_md_get_handles(x, mh)
      y == FoldLeft(LAMBDA z, ch : IF ch \in done THEN nr_php_curl_exec_post(z, ch)
                                   ELSE z, x, handles)
  IN  SetMulti(y, mh, [get_curl_multi_metadata(y, mh) EXCEPT !.handles =
                         SelectSeq(@, LAMBDA ch : ch \notin done)])

nr_php_curl_multi_exec_post(x, mh) ==
  EndHandles(x, mh, {ch \in DOMAIN x.curl : nr_php_curl_finished(x, ch)})

nr_php_curl_multi_exec_finalize(x, mh) ==
  EndExternal(EndHandles(x, mh, DOMAIN x.curl),
              nr_php_curl_multi_md_get_segment(x, mh), NULL, NULL)

\* ran: the handles whose transfer this call completes.
curl_multi_exec(x, mh, ran, header, caught) ==
  LET pre  == nr_php_curl_multi_exec_pre(x, mh)
      o    == FoldLeft(LAMBDA z, ch : IF ch \in ran THEN Perform(z, ch, header) ELSE z,
                       pre, nr_php_curl_multi_md_get_handles(pre, mh))
      post == nr_php_curl_multi_exec_post([o EXCEPT !.olds = 1], mh)
      left == \E i \in DOMAIN nr_php_curl_multi_md_get_handles(pre, mh) :
                nr_php_curl_multi_md_get_handles(pre, mh)[i] \notin ran
  IN  [IF left THEN post ELSE nr_php_curl_multi_exec_finalize(post, mh)
         EXCEPT !.bailed = caught]

------------------------------------------------------------------------------
(* file_get_contents.  The headers of a stream context are NULL, a string  *)
(* (a sequence of lines) or an array (a sequence of such strings).         *)

Line(kind, lines) == [kind |-> kind, lines |-> lines]
NoHttp == [http |-> FALSE, header |-> NULL, method |-> NULL]

HasTracestate(lines) == \E i \in DOMAIN lines : lines[i][1] = "tracestate"

nr_php_file_get_contents_create_outbound_headers(x, s) == OutboundHeaders(x, s)

nr_php_file_get_contents_add_headers_internal(c, ours) ==
  CASE ours = <<>>               -> c
    [] ~c.http                   -> [c EXCEPT !.http = TRUE,
                                              !.header = Line("string", ours)]
    [] c.header = NULL           -> [c EXCEPT !.header = Line("string", ours)]
    [] c.header.kind = "array"   -> [c EXCEPT !.header.lines = Append(@, ours)]
    [] c.header.lines = <<>>     -> [c EXCEPT !.header.lines = ours]
    [] HasTracestate(c.header.lines) /\ HasTracestate(ours) -> c
    [] OTHER                     -> [c EXCEPT !.header.lines = ours \o @]

nr_php_file_get_contents_add_headers(x, z, s) ==
  IF ~nr_php_curl_do_cross_process(x) \/ z \notin DOMAIN x.ctx THEN x
  ELSE [x EXCEPT !.ctx[z] = nr_php_file_get_contents_add_headers_internal(
                  @, nr_php_file_get_contents_create_outbound_headers(x, s))]

\* An element of an array goes if X-NewRelic-ID or -Synthetics is in it.
nr_php_file_get_contents_remove_outbound_headers_iterator(element) ==
  \E i \in DOMAIN element : element[i][1] \in {"X-NewRelic-ID", "X-NewRelic-Synthetics"}

\* Of a string the leading lines go that start with a name of New Relic's.
LeadingOurs(lines) ==
  CHOOSE n \in 0..Len(lines) :
    /\ \A i \in 1..n : nr_php_curl_header_is_newrelic(lines[i])
    /\ n < Len(lines) => ~nr_php_curl_header_is_newrelic(lines[n + 1])

nr_php_file_get_contents_remove_headers_internal(c) ==
  CASE ~c.http \/ c.header = NULL -> c
    [] c.header.kind = "array" ->
         [c EXCEPT !.header.lines = SelectSeq(@, LAMBDA e :
            ~nr_php_file_get_contents_remove_outbound_headers_iterator(e))]
    [] OTHER ->
         [c EXCEPT !.header.lines = SubSeq(@, LeadingOurs(@) + 1, Len(@))]

nr_php_file_get_contents_remove_headers(x, z) ==
  IF ~nr_php_curl_do_cross_process(x) \/ z \notin DOMAIN x.ctx THEN x
  ELSE [x EXCEPT !.ctx[z] = nr_php_file_get_contents_remove_headers_internal(@)]

nr_php_file_get_contents_get_method(x, z) ==
  IF ~nr_php_curl_do_cross_process(x) \/ z \notin DOMAIN x.ctx THEN NULL
  ELSE x.ctx[z].method

nr_php_file_get_contents_response_header(x, header) ==
  IF x.recording /\ x.mode = "cat" THEN header ELSE NULL

AllLines(c) == IF c.header = NULL THEN <<>>
               ELSE IF c.header.kind = "array" THEN FlattenSeq(c.header.lines)
               ELSE c.header.lines

\* The call with a context; url is "http" or "file".
FileGetContents(x, z, url, header, caught) ==
  IF url = "file" THEN [x EXCEPT !.olds = 1, !.bailed = caught]
  ELSE LET m == nr_php_file_get_contents_get_method(x, z)
           r == nr_segment_start_external(x, NULL)
           a == nr_php_file_get_contents_add_headers(r.x, z, r.s)
           o == [a EXCEPT !.olds = 1,
                          !.sent = [ch |-> NULL, segment |-> r.s,
                                    headers |-> IF z = NULL THEN <<>>
                                                ELSE AllLines(a.ctx[z])]]
           e == EndExternal(o, r.s, IF m = NULL THEN "GET" ELSE m,
                            nr_php_file_get_contents_response_header(o, header))
       IN  [nr_php_file_get_contents_remove_headers(e, z) EXCEPT !.bailed = caught]

\* The default context is 0: it is one and the same for the whole request.
nr_php_file_get_contents_recurse_with_context(x, url, header, caught) ==
  FileGetContents([x EXCEPT !.ctx = nr_hashmap_set(@, 0, NoHttp)],
                  0, url, header, caught)

file_get_contents(x, z, url, header, caught) ==
  IF url # "file" /\ x.mode # "off" /\ z = NULL
  THEN nr_php_file_get_contents_recurse_with_context(x, url, header, caught)
  ELSE FileGetContents(x, z, url, header, caught)

newrelic_add_headers_to_context(x, z) ==
  nr_php_file_get_contents_add_headers(x, z, x.root)
newrelic_remove_headers_from_context(x, z) ==
  nr_php_file_get_contents_remove_headers(x, z)

------------------------------------------------------------------------------
(* HttpRequest::send and SoapClient::__doRequest.  addHeaders replaces a   *)
(* header of the same name; only cross process headers ask for it.         *)

nr_php_httprequest_send_request_headers(x, s) ==
  IF x.mode # "cat" THEN <<>> ELSE OutboundHeaders(x, s)

nr_php_httprequest_send_response_header(x, header) ==
  IF x.mode # "cat" THEN NULL ELSE header

httprequest_send(x, header, caught) ==
  LET r == nr_segment_start_external(x, NULL)
      o == [r.x EXCEPT !.olds = 1,
                       !.sent = [ch |-> NULL, segment |-> r.s, headers |->
                         <<User>> \o nr_php_httprequest_send_request_headers(r.x, r.s)]]
  IN  [EndExternal(o, r.s, NULL, nr_php_httprequest_send_response_header(o, header))
         EXCEPT !.bailed = caught]

soapclient_dorequest(x, caught) ==
  LET r == nr_segment_start_external(x, NULL)
  IN  [EndExternal([r.x EXCEPT !.olds = 1], r.s, NULL, NULL) EXCEPT !.bailed = caught]

------------------------------------------------------------------------------
(* Scripts.                                                                *)

Handles == {1, 2}
\* Handles are interchangeable: a new one is the lowest that is free.
NewHandles == {h \in Handles \ DOMAIN ex.curl : \A i \in 1..(h - 1) : i \in DOMAIN ex.curl}
Multi   == 3
Ctxs    == {1}
Answers == {NULL, "app data"}

\* The agent's headers come out of a hash map: in one order, or another.
Orders(mode) ==
  CASE mode = "cat" -> {<<"X-NewRelic-ID", "X-NewRelic-Transaction">>}
    [] mode = "dt"  -> {<<"newrelic", "traceparent", "tracestate">>,
                        <<"traceparent", "tracestate", "newrelic">>}
    [] OTHER        -> {<<>>}

ExInit == \E mode \in XModes : \E order \in Orders(mode) : ex = ExStart(mode, order)

ExAny   == ex.calls < XMaxCalls /\ ~ex.bailed
ExReady == ExAny /\ ex.recording

Now == [ex EXCEPT !.calls = @ + 1, !.olds = 0, !.sent = NULL]

ExCurl ==
  /\ ExReady
  /\ \/ \E ch \in NewHandles : ex' = curl_init(Now, ch)
     \/ \E ch \in DOMAIN ex.curl :
          \/ \E o \in {<<"HTTPHEADER", <<User>>>>, <<"HTTPHEADER", <<<<"newrelic", 0>>>>>>,
                       <<"POST", TRUE>>, <<"HTTPGET", TRUE>>, <<"URL", "file">>,
                       <<"HEADERFUNCTION", "user">>, <<"HEADERFUNCTION", "closure">>,
                       <<"WRITEHEADER", TRUE>>} :
               ex' = curl_setopt(Now, ch, o[1], o[2])
          \/ ex' = curl_setopt_array(Now, ch, << <<"HTTPHEADER", <<User>>>>,
                                                <<"CUSTOMREQUEST", "PUT">> >>)
          \/ \E h \in Answers, b \in BOOLEAN : ex' = curl_exec(Now, ch, h, b)

ExMulti ==
  /\ ExReady
  /\ \/ \E ch \in DOMAIN ex.curl : \/ ex' = curl_multi_add_handle(Now, Multi, ch)
                                   \/ ex' = curl_multi_remove_handle(Now, Multi, ch)
     \/ \E ran \in SUBSET DOMAIN ex.curl, b \in BOOLEAN :
          ex' = curl_multi_exec(Now, Multi, ran, NULL, b)

\* stream_context_create.
ExContext ==
  /\ ExReady
  /\ \E z \in Ctxs \ DOMAIN ex.ctx :
       \E h \in {NULL, Line("string", <<>>), Line("string", <<User>>),
                 Line("array", << <<User>> >>)} :
         ex' = [Now EXCEPT !.ctx = nr_hashmap_update(@, z,
                  [http |-> h # NULL, header |-> h,
                   method |-> IF h = NULL THEN NULL ELSE "POST"]), !.olds = 1]

ExRequest ==
  /\ ExReady
  /\ \/ \E z \in (DOMAIN ex.ctx \ {0}) \cup {NULL}, url \in {"http", "file"},
           h \in Answers, b \in BOOLEAN :
          ex' = file_get_contents(Now, z, url, h, b)
     \/ \E z \in DOMAIN ex.ctx \ {0} :
          \/ ex' = [newrelic_add_headers_to_context(Now, z) EXCEPT !.olds = 1]
          \/ ex' = [newrelic_remove_headers_from_context(Now, z) EXCEPT !.olds = 1]
     \/ \E h \in Answers, b \in BOOLEAN : ex' = httprequest_send(Now, h, b)
     \/ \E b \in BOOLEAN : ex' = soapclient_dorequest(Now, b)

\* The script enters or leaves Guzzle, whose requests have segments of their
\* own, or frees a handle that is not in a multi handle.
ExGuzzle ==
  /\ ExReady
  /\ ex' = [Now EXCEPT !.guzzle = ~@, !.olds = 1]

ExFree ==
  /\ ExAny
  /\ \E ch \in DOMAIN ex.curl :
       /\ \A m \in DOMAIN ex.multi : ~Contains(ex.multi[m].handles, ch)
       /\ ex' = [Now EXCEPT !.curl = nr_hashmap_delete(@, ch), !.olds = 1]

\* newrelic_end_transaction and newrelic_start_transaction: nr_php_txn_end
\* destroys the metadata.  The script's handles and contexts live on.
ExTransaction ==
  /\ ~ex.bailed /\ ex.txn < 3      \* bound: one transaction after the first
  /\ ex' = [Now EXCEPT !.calls = ex.calls,
                       !.md = nr_hashmap_create, !.multi = nr_hashmap_create,
                       !.segs = IF ex.recording THEN @ ELSE Append(@, RootSegment),
                       !.root = IF ex.recording THEN @ ELSE Len(ex.segs) + 1,
                       !.olds = 1, !.recording = ~@,
                       !.txn = @ + 1]

\* curl between two transactions: the originals alone.
ExUnrecorded ==
  /\ ExAny /\ ~ex.recording
  /\ \/ \E ch \in NewHandles :
          ex' = [Now EXCEPT !.curl = nr_hashmap_update(@, ch, [NewCurl EXCEPT !.txn = ex.txn]),
                            !.olds = 1]
     \/ \E ch \in DOMAIN ex.curl :
          \/ ex' = [ScriptSetopt(Now, ch, "HTTPHEADER", <<User>>) EXCEPT !.olds = 1]
          \/ ex' = [Perform(Now, ch, NULL) EXCEPT !.olds = 1]

ExNext == ExUnrecorded \/ ExCurl \/ ExMulti \/ ExContext \/ ExRequest \/ ExGuzzle \/ ExFree
          \/ ExTransaction

------------------------------------------------------------------------------
(* Properties.                                                             *)

\* The handles of a multi handle are there, each once, and metadata is kept
\* only for segments of the transaction.
ExTypeOK ==
  /\ \A m \in DOMAIN ex.multi :
       LET hs == ex.multi[m].handles
       IN  /\ Range(hs) \subseteq DOMAIN ex.curl
           /\ Cardinality(Range(hs)) = Len(hs)
  /\ \A ch \in DOMAIN ex.md : ex.md[ch].segment \in {NULL} \cup DOMAIN ex.segs

\* The agent's headers in a curl request are there once, and are those of the
\* segment of this request: none is left of a request before.
OwnHeadersOnce ==
  ex.sent # NULL /\ ex.sent.ch # NULL =>
    LET ours == SelectSeq(ex.sent.headers, LAMBDA h : h[2] # 0)
    IN  /\ Cardinality(Range(ours)) = Len(ours)
        /\ \A i \in DOMAIN ours :
             ex.curl[ex.sent.ch].url = "http" /\ ex.recording /\ ~ex.guzzle
             => ours[i][2] = ex.sent.segment

ScriptHeaders(headers) == SelectSeq(headers, LAMBDA h : h[2] = 0)

\* A curl request carries the headers the script has set on the handle, those
\* and in that order, if the handle was made in this transaction.
UserHeadersKept ==
  /\ ex.sent # NULL /\ ex.sent.ch # NULL /\ ex.recording
  /\ ex.curl[ex.sent.ch].txn = ex.txn
  => ScriptHeaders(ex.sent.headers) = ex.curl[ex.sent.ch].own

\* After file_get_contents none of the headers of its request is left in a
\* context, where it would go out with the next request.  This holds for the
\* headers of cross application tracing; traceparent and tracestate stay.
CrossProcessHeadersGo ==
  /\ ex.mode = "cat"
  /\ ex.sent # NULL /\ ex.sent.ch = NULL /\ ex.sent.segment # NULL
  => \A z \in DOMAIN ex.ctx : \A i \in DOMAIN AllLines(ex.ctx[z]) :
       AllLines(ex.ctx[z])[i][2] # ex.sent.segment

\* Outgoing requests have the headers of the script and once those of the agent,
\* however handles and contexts are used again (agent/php_curl.c,
\* agent/php_file_get_contents.c).
CurlHeadersAreOwn == ExTypeOK /\ UserHeadersKept /\ OwnHeadersOnce /\ CrossProcessHeadersGo
=============================================================================
