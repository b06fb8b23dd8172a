--------------------------------- MODULE Rum ---------------------------------
(***************************************************************************)
(* Browser monitoring: axiom/nr_rum.c, and agent/php_autorum.c, which runs *)
(* it on every buffer PHP is about to write.  The loader goes into the     *)
(* head of a page and the footer before its last </body>, at most once     *)
(* each, by the output handler or by an API call.                          *)
(*                                                                         *)
(* A buffer is a sequence of the tags the regular expressions look for and *)
(* of "text"; an insertion point is the number of items before it.         *)
(***************************************************************************)
EXTENDS Headers

HtmlItems == {"ua", "charset", "head", "body", "/body", "text"}

nr_rum_do_autorum(t) == ~t.background /\ t.opts.autorum

\* Who has produced it: 1 an API call, 2 the output handler.
Producer(autorum) == IF autorum THEN 2 ELSE 1

\* Mutant: the loader is produced as often as it is asked for.
ProduceHeaderAgain(t, app, autorum) ==
  IF t.ignore \/ app.loader = NULL THEN [t |-> t, out |-> NULL]
  ELSE [t |-> [t EXCEPT !.rum_header = Producer(autorum)], out |-> "RUM_header"]

\* [t, out]
nr_rum_produce_header(t, app, autorum) ==
  IF \/ t.ignore \/ (autorum /\ ~t.opts.autorum) \/ t.rum_header # 0 \/ app.loader = NULL
  THEN [t |-> t, out |-> NULL]
  ELSE [t |-> [t EXCEPT !.rum_header = Producer(autorum)], out |-> "RUM_header"]

nr_rum_get_attributes(t) == {a.name : a \in {b \in t.attrs : "browser" \in b.dests}}

\* The footer tells the browser the transaction's name, which is frozen for it.
\* [t, out]; the name and nr_rum_get_attributes are in the footer's JSON.
nr_rum_produce_footer(t, app, autorum) ==
  LET frozen == nr_txn_freeze_name_update_apdex(t, app)
  IN IF \/ t.ignore \/ (autorum /\ ~t.opts.autorum)
        \/ t.rum_header = 0 \/ t.rum_footer # 0
     THEN [t |-> t, out |-> NULL]
     ELSE IF ~frozen.ok THEN [t |-> frozen.t, out |-> NULL]
     ELSE [t |-> [frozen.t EXCEPT !.rum_footer = Producer(autorum)],
           out |-> "RUM_footer"]

First(output, item) ==
  LET at == {i \in DOMAIN output : output[i] = item}
  IN IF at = {} THEN 0 ELSE CHOOSE i \in at : \A j \in at : i <= j

\* After the first of these meta tags, the later of the two kinds; else after
\* <head>; else before <body>.  NULL when there is none of them.
nr_rum_scan_html_for_head(output) ==
  LET ua == First(output, "ua")      charset == First(output, "charset")
      head == First(output, "head")  body == First(output, "body")
  IN CASE ua + charset > 0 -> IF ua > charset THEN ua ELSE charset
       [] ua + charset = 0 /\ head > 0 -> head
       [] ua + charset + head = 0 /\ body > 0 -> body - 1
       [] OTHER -> NULL

nr_rum_scan_html_for_foot(output) ==
  LET at == {i \in DOMAIN output : output[i] = "/body"}
  IN IF at = {} THEN NULL ELSE (CHOOSE i \in at : \A j \in at : j <= i) - 1

\* Put the two pieces where they belong; NULL is "not at all".
Insert(output, head, header, tail, footer) ==
  LET withTail == IF tail = NULL THEN output ELSE InsertAt(output, tail + 1, footer)
  IN IF head = NULL THEN withTail ELSE InsertAt(withTail, head + 1, header)

\* One buffer of the response: [t, out].  A footer needs a header, in this buffer
\* or in an earlier one, and has to come after it.
nr_rum_output_handler_worker(t, app, output, has_length, html) ==
  LET Both(header, head, behind, footer) ==
        [t |-> footer.t,
         out |-> Insert(output, head, header.out, IF footer.out = NULL THEN NULL ELSE behind, footer.out)]
      Footer(header, head, last) ==
        IF last = NULL \/ (head # NULL /\ last < head)
        THEN Both(header, head, NULL, [t |-> header.t, out |-> NULL])
        ELSE Both(header, head, last, nr_rum_produce_footer(header.t, app, TRUE))
      Foot(header, head) ==
        Footer(header, head, IF (t.rum_header # 0 \/ head # NULL) /\ t.rum_footer = 0
                             THEN nr_rum_scan_html_for_foot(output) ELSE NULL)
      Begin(found) ==
        IF found = NULL THEN Foot([t |-> t, out |-> NULL], NULL)
        ELSE LET At(header) == Foot(header, IF header.out = NULL THEN NULL ELSE found)
             IN At(nr_rum_produce_header(t, app, TRUE))
  IN IF \/ ~t.opts.autorum \/ t.ignore \/ has_length \/ output = <<>> \/ ~html
        \/ (t.rum_header # 0 /\ t.rum_footer # 0)
     THEN [t |-> t, out |-> output]
     ELSE Begin(IF t.rum_header = 0 THEN nr_rum_scan_html_for_head(output) ELSE NULL)

\* Nothing happens once recording has stopped.
nr_php_rum_output_handler(t, app, output, has_length, html) ==
  IF output = <<>> \/ ~t.recording THEN [t |-> t, out |-> output]
  ELSE nr_rum_output_handler_worker(t, app, output, has_length, html)
=============================================================================
