----------------------------- MODULE NamingRules -----------------------------
(***************************************************************************)
(* The rules that rewrite the names of transactions, as the collector      *)
(* sends them: URL and transaction rules (axiom/nr_rules.c) and the terms  *)
(* that may stay in a name (axiom/nr_segment_terms.c).                     *)
(*                                                                         *)
(* A name is the sequence of its segments, the texts between its slashes:  *)
(* one with a leading slash begins with the empty text.  A regular         *)
(* expression matches a segment or it does not.                            *)
(***************************************************************************)
EXTENDS AgentBase, Naturals, Sequences, SequencesExt, FiniteSets

CONSTANTS NrSegments,    \* texts of segments
          NrMaxLength,   \* bound: segments of a name that terms are applied to
          NrMaxRules     \* bound: rules of a reply, and segments of a name they are applied to

VARIABLES nrReply,   \* the rules of the reply, in its order
          nrTerms,   \* the terms of the reply
          nrName,    \* the name of a transaction
          nrResult   \* what the rules make of it

nrVars == <<nrReply, nrTerms, nrName, nrResult>>

---------------------------------------------------------------------------
(* Rules.                                                                   *)

\* An expression that does not compile makes no rule.
nr_rules_add(rules, rule) == IF rule.match = "(" THEN rules ELSE Append(rules, rule)

\* A rule of the reply: without an expression, or without a replacement though
\* it does not ignore, it is none.
nr_rules_process_rule(rules, rule) ==
  IF rule.match = NULL \/ (rule.replacement = NULL /\ ~rule.ignore) THEN rules
  ELSE nr_rules_add(rules, rule)


\* qsort: rules of the same order may come out in any.
nr_rules_sort(rules) ==
  {p \in SetToSeqs({<<rules[i], i>> : i \in DOMAIN rules}) :
     \A i, j \in DOMAIN p : i < j => p[i][1].order <= p[j][1].order}

nr_rules_create_from_obj(reply) == nr_rules_sort(FoldLeft(nr_rules_process_rule, <<>>, reply))

\* A text without its first letter, and whether a text begins with another.
Cut(segment) == IF segment = "ab" THEN "b" ELSE ""
Begins(segment, term) == segment = term \/ (segment = "ab" /\ term = "a")

\* Segment by segment the first letter of a name is taken for a slash, and the
\* name is put together with one, whether a segment matches or not.
Slashed(name) == IF Head(name) = "" THEN name ELSE <<"", Cut(Head(name))>> \o Tail(name)

\* The first match is replaced, or each segment that matches, or every match.
nr_rule_apply(str, rule) ==
  LET each  == rule.each_segment /\ ~rule.ignore
      name  == IF each THEN Slashed(str) ELSE str
      hits  == {i \in DOMAIN name : rule.match = name[i] /\ (each => i > 1)}
      first == {i \in hits : \A j \in hits : i <= j}
      replaced == IF each \/ rule.replace_all THEN hits ELSE first
  IN IF hits = {} THEN [result |-> "UNCHANGED", name |-> name]
     ELSE IF rule.ignore THEN [result |-> "IGNORE", name |-> name]
     ELSE [result |-> "CHANGED",
           name |-> [i \in DOMAIN name |-> IF i \in replaced THEN rule.replacement ELSE name[i]]]

\* One after the other, until one that ends the chain has changed the name.  The
\* name is the old one if none has.
nr_rules_apply(rules, name) ==
  LET Step(s, rule) ==
        IF s.over THEN s
        ELSE LET r == nr_rule_apply(s.name, rule)
             IN CASE r.result = "UNCHANGED" -> [s EXCEPT !.name = r.name]
                  [] r.result = "IGNORE" -> [s EXCEPT !.result = "IGNORE", !.over = TRUE]
                  [] OTHER -> [name |-> r.name, result |-> "CHANGED", over |-> rule.terminate]
      last == FoldLeft(Step, [name |-> name, result |-> "UNCHANGED", over |-> FALSE], rules)
  IN IF last.result = "CHANGED" THEN last ELSE [last EXCEPT !.name = name]

---------------------------------------------------------------------------
(* Segment terms.                                                           *)

\* The expression that a list of terms becomes: the segments that begin with a
\* term.  An empty term is left out, but one in the first place leaves an empty
\* alternative, which matches anything, and so do terms that are all empty.
nr_segment_terms_rule_build_regex(terms) ==
  [terms |-> Range(terms) \ {""}, any |-> terms # <<>> /\ Head(terms) = ""]

RegexMatches(re, segment) ==
  segment # "" /\ (re.any \/ \E term \in re.terms : Begins(segment, term))

\* A prefix has two segments; else it is refused.
nr_segment_terms_rule_create(prefix, terms) ==
  IF prefix = NULL \/ Len(prefix) # 2 THEN NULL
  ELSE [prefix |-> prefix, re |-> nr_segment_terms_rule_build_regex(terms)]

\* A rule that is refused takes all others with it.
nr_segment_terms_create_from_obj(reply) ==
  LET rules == [i \in DOMAIN reply |-> nr_segment_terms_rule_create(reply[i].prefix, reply[i].terms)]
  IN IF reply = <<>> \/ NULL \in Range(rules) THEN NULL ELSE rules

\* Behind the prefix the segments that do not match become stars, several of
\* them in a row one.  NULL if the rule is not about this name.
nr_segment_terms_rule_apply(rule, name) ==
  LET rest == SubSeq(name, 3, Len(name))
      Add(out, s) == IF RegexMatches(rule.re, s) THEN Append(out, s)
                     ELSE IF out # <<>> /\ Last(out) = "*" THEN out ELSE Append(out, "*")
  IN IF ~IsPrefix(rule.prefix, name) \/ rest = <<>> THEN NULL
     ELSE IF rest = <<"">> THEN name
     ELSE rule.prefix \o FoldLeft(Add, <<>>, rest)

\* The last rule that is about the name.
nr_segment_terms_apply(terms, name) ==
  LET about == {i \in DOMAIN terms : nr_segment_terms_rule_apply(terms[i], name) # NULL}
      last  == CHOOSE i \in about : \A j \in about : j <= i
  IN IF name = <<>> THEN NULL
     ELSE IF about = {} THEN name ELSE nr_segment_terms_rule_apply(terms[last], name)

---------------------------------------------------------------------------
(* Behaviour: a reply of the collector, then names of transactions.         *)

NrPlainRule ==
  [match |-> NULL, replacement |-> "c", order |-> 1, ignore |-> FALSE, terminate |-> FALSE,
   each_segment |-> FALSE, replace_all |-> FALSE]
NrRules ==
  {NrPlainRule, [NrPlainRule EXCEPT !.match = "("]} \cup
  {[match |-> m, replacement |-> r, order |-> o, ignore |-> f = "ignore", terminate |-> t,
    each_segment |-> f = "each", replace_all |-> f = "all"] :
      m \in {"a", "b"}, r \in {NULL, "b", "c"}, o \in 1..2, f \in {"ignore", "each", "all", "first"},
      t \in BOOLEAN}

NrTermLists == {<<>>, <<"a">>, <<"a", "b">>, <<"a", "">>, <<"", "a">>}
NrPrefixes == {NULL, <<"a">>, <<"a", "b">>, <<"b", "a">>}
NrNames == UNION {[1..n -> NrSegments] :
                    n \in 1..IF nrReply = <<>> THEN NrMaxLength ELSE NrMaxRules}

NrInit ==
  /\ \/ /\ nrTerms = <<>>
        /\ \E n \in 0..NrMaxRules : nrReply \in [1..n -> NrRules]
     \/ /\ nrReply = <<>>
        /\ \E p, q \in NrPrefixes, t, u \in NrTermLists :
             nrTerms = <<[prefix |-> p, terms |-> t], [prefix |-> q, terms |-> u]>>
  /\ nrName = <<>> /\ nrResult = NULL

\* A transaction is named: the rules first (nr_txn_freeze_name_update_apdex),
\* then the terms.  The results are those that the sort may lead to.
NameTransaction ==
  /\ nrResult = NULL
  /\ \E name \in NrNames :
       /\ nrName' = name
       /\ LET terms == nr_segment_terms_create_from_obj(nrTerms)
              Final(rules) ==
                LET r == nr_rules_apply([i \in DOMAIN rules |-> rules[i][1]], name)
                IN IF r.result = "IGNORE" THEN [ignore |-> TRUE, name |-> <<>>]
                   ELSE [ignore |-> FALSE,
                         name |-> IF terms = NULL THEN r.name ELSE nr_segment_terms_apply(terms, r.name)]
          IN nrResult' = {Final(rules) : rules \in nr_rules_create_from_obj(nrReply)}
  /\ UNCHANGED <<nrReply, nrTerms>>

NrNext == NameTransaction

---------------------------------------------------------------------------
(* Properties.                                                              *)

\* The order of a reply says nothing when its rules have orders of their own: the
\* rules of a reply and of the same reply in another order come to one name.
OrderDecides ==
  LET distinct == \A i, j \in DOMAIN nrReply : i # j => nrReply[i].order # nrReply[j].order
      other    == {[i \in DOMAIN rules |-> rules[i][1]] : rules \in nr_rules_create_from_obj(Reverse(nrReply))}
  IN nrResult # NULL /\ distinct /\ nrTerms = <<>> =>
       /\ Cardinality(nrResult) = 1
       /\ \A rules \in other, r \in nrResult :
            r.ignore <=> nr_rules_apply(rules, nrName).result = "IGNORE"
       /\ \A rules \in other, r \in nrResult : ~r.ignore => r.name = nr_rules_apply(rules, nrName).name

\* Behind a prefix that has terms no other text is left than what begins with one
\* of these, no two stars stand together, and what is left is in its order; the
\* last rule of a prefix counts.  (For lists that do not begin with an empty term.)
OnlyTermsStay ==
  LET terms == nr_segment_terms_create_from_obj(nrTerms)
      about == {i \in DOMAIN nrTerms : nrTerms[i].prefix # NULL /\ IsPrefix(nrTerms[i].prefix, nrName)}
  IN nrResult # NULL /\ terms # NULL /\ about # {} /\ Len(nrName) > 2 /\ Last(nrName) # "" =>
       LET rule == nrTerms[CHOOSE i \in about : \A j \in about : j <= i]
           Kept(s) == \E term \in Range(rule.terms) \ {""} : Begins(s, term)
       IN (rule.terms = <<>> \/ Head(rule.terms) # "") =>
            \A r \in nrResult :
              LET out == SubSeq(r.name, 3, Len(r.name))
              IN /\ IsPrefix(rule.prefix, r.name)
                 /\ \A i \in DOMAIN out : Kept(out[i]) \/ out[i] = "*"
                 /\ \A i \in 1..(Len(out) - 1) : ~(out[i] = "*" /\ out[i + 1] = "*")
                 /\ SelectSeq(out, Kept) = SelectSeq(SubSeq(nrName, 3, Len(nrName)), Kept)

=============================================================================
