----------------------------- MODULE Attributes -----------------------------
(***************************************************************************)
(* axiom/nr_attributes.c: which attribute goes to which destination.  The  *)
(* configuration is a sorted list of modifiers, built rule by rule from    *)
(* the INI settings (agent/php_txn.c); a transaction then adds attributes, *)
(* user attributes up to a limit.                                          *)
(*                                                                         *)
(* A key is a sequence of letters, which are numbers here, so that the     *)
(* order of keys and the prefixes of a wildcard mean what they mean in     *)
(* the code.                                                               *)
(***************************************************************************)
EXTENDS AgentBase

CONSTANTS AttrKeys,        \* keys of attributes
          AttrMatches,     \* what rules match: [match, wild]
          AttrDests,       \* the destinations; "log" is the special one
          AttrMaxRules,    \* bound: rules of the configuration
          AttrMaxAdds,     \* bound: attributes added
          AttrMaxAddRules, \* bound: rules of a configuration attributes are added to
          AttrUserLimit    \* NR_ATTRIBUTE_USER_LIMIT

VARIABLES aconfig,     \* [modifiers, disabled]
          arules,      \* history: the rules in the order they were given
          attributes,  \* [user, agent: sequences of [key, val, dests], num]
          alast        \* history: for each key, the last value user_add accepted, or 0

attrVars == <<aconfig, arules, attributes, alast>>

nr_attribute_destination_modifier_match(modifier, key) ==
  IF modifier.wild THEN IsPrefix(modifier.match, key) ELSE modifier.match = key

nr_attribute_destination_modifier_apply(modifier, key, dests) ==
  IF nr_attribute_destination_modifier_match(modifier, key)
  THEN (dests \union modifier.include) \ modifier.exclude
  ELSE dests

\* nr_strcmp on keys.
KeyLess(a, b) ==
  \/ IsStrictPrefix(a, b)
  \/ \E i \in 1..Len(a) : /\ i <= Len(b)
                          /\ SubSeq(a, 1, i - 1) = SubSeq(b, 1, i - 1)
                          /\ a[i] < b[i]

\* -1, 0 and 1 of the comparison are "less", "same" and "more".
\* Mutant: an exact rule sorts before the wildcard of the same text.
CompareWildcardLast(m1, m2) ==
  CASE m1.match = m2.match /\ m1.wild = m2.wild -> "same"
    [] m1.match = m2.match /\ m1.wild # m2.wild -> IF m1.wild THEN "more" ELSE "less"
    [] OTHER -> IF KeyLess(m1.match, m2.match) THEN "less" ELSE "more"

nr_attribute_destination_modifier_compare(m1, m2) ==
  CASE m1.match = m2.match /\ m1.wild = m2.wild -> "same"
    [] m1.match = m2.match /\ m1.wild # m2.wild -> IF m1.wild THEN "less" ELSE "more"
    [] OTHER -> IF KeyLess(m1.match, m2.match) THEN "less" ELSE "more"

\* Insert in order, or merge with the modifier of the same match and kind.  The
\* walk stops at the first modifier that sorts behind the new one.
InsertModifier(modifiers, new) ==
  LET Stop(i)  == nr_attribute_destination_modifier_compare(new, modifiers[i]) = "less"
      Merge(i) == /\ nr_attribute_destination_modifier_compare(new, modifiers[i]) = "same"
                  /\ new.final = modifiers[i].final
      ends     == {i \in 1..Len(modifiers) : Stop(i) \/ Merge(i)}
      first    == IF ends = {} THEN Len(modifiers) + 1
                  ELSE CHOOSE i \in ends : \A j \in ends : i <= j
  IN IF ends # {} /\ ~Stop(first)
     THEN [modifiers EXCEPT ![first].include = @ \union new.include,
                            ![first].exclude = @ \union new.exclude]
     ELSE InsertAt(modifiers, first, new)

FinalizeRule == [match |-> <<>>, wild |-> TRUE, final |-> TRUE, include |-> {},
                 exclude |-> {"log"}]

\* Finalize rules of the log destination are to be removed and added again when
\* they are needed.  The removal looks for "log" among the included
\* destinations, where a finalize rule does not have it.
nr_attribute_config_finalize_log_destination(modifiers) ==
  LET Stays(m)   == ~(m.final /\ "log" \in m.include)
      kept       == SelectSeq(modifiers, Stays)
      includers  == {i \in 1..Len(kept) : "log" \in kept[i].include}
      everything == \E i \in includers : kept[i].wild /\ kept[i].match = <<>>
  IN IF includers # {} /\ ~everything THEN InsertModifier(kept, FinalizeRule) ELSE kept

nr_attribute_config_modify_destinations(config, rule) ==
  LET new == [match |-> rule.match, wild |-> rule.wild, final |-> FALSE,
              include |-> rule.include, exclude |-> rule.exclude]
  IN [config EXCEPT !.modifiers =
        nr_attribute_config_finalize_log_destination(InsertModifier(@, new))]

nr_attribute_config_apply(config, key, dests) ==
  LET Apply(d, m) == nr_attribute_destination_modifier_apply(m, key, d)
  IN FoldLeft(Apply, dests, config.modifiers) \ config.disabled

---------------------------------------------------------------------------
(* The attributes of a transaction.                                         *)

nr_attributes_create == [user |-> <<>>, agent |-> <<>>, num |-> 0]

RemoveKey(list, key) == SelectSeq(list, LAMBDA a : a.key # key)

nr_attributes_remove_duplicate(ats, key, is_user) ==
  IF is_user
  THEN [ats EXCEPT !.user = RemoveKey(@, key),
                   !.num = @ - (Len(ats.user) - Len(RemoveKey(ats.user, key)))]
  ELSE [ats EXCEPT !.agent = RemoveKey(@, key)]

\* The result and the status.
nr_attributes_add_internal(config, ats, dests, is_user, key, val) ==
  LET final   == nr_attribute_config_apply(config, key, dests)
      removed == nr_attributes_remove_duplicate(ats, key, is_user)
      new     == [key |-> key, val |-> val, dests |-> final]
  IN IF final = {} THEN [ats |-> ats, ok |-> FALSE]
     ELSE IF is_user /\ removed.num = AttrUserLimit
          THEN [ats |-> removed, ok |-> FALSE]
     ELSE [ats |-> IF is_user
                   THEN [removed EXCEPT !.user = <<new>> \o @, !.num = @ + 1]
                   ELSE [removed EXCEPT !.agent = <<new>> \o @],
           ok |-> TRUE]

\* What a destination gets of a list.
nr_attributes_to_obj(list, dest) ==
  {[key |-> list[i].key, val |-> list[i].val] :
     i \in {j \in 1..Len(list) : dest \in list[j].dests}}

nr_attributes_user_exists(ats, key) == \E i \in 1..Len(ats.user) : ats.user[i].key = key

---------------------------------------------------------------------------
(* The configuration of a request.                                          *)

\* A destination is off by its new setting, or, when that is not set, by the old.
nr_php_attribute_disable_destination_helper(setting, destination) ==
  IF IF setting.set THEN setting.new ELSE setting.old THEN {} ELSE {destination}

\* The destination of log lines has no old setting: it is off until it is set.
DisabledDestinations(settings, enabled) ==
  IF ~enabled THEN AttrDests
  ELSE UNION {nr_php_attribute_disable_destination_helper(
                IF d = "log" THEN [settings[d] EXCEPT !.old = FALSE] ELSE settings[d], d) : d \in AttrDests}

\* The words of one setting, which go with one destination or with all.
nr_php_modify_attribute_destinations(config, words, include, exclude) ==
  LET Modify(c, w) == nr_attribute_config_modify_destinations(c,
                        [match |-> w.match, wild |-> w.wild, include |-> include, exclude |-> exclude])
  IN FoldLeft(Modify, config, words)

DestinationSettings == [AttrDests -> [set : BOOLEAN, new : BOOLEAN, old : BOOLEAN]]

AttrInit ==
  /\ aconfig \in {[modifiers |-> <<>>, disabled |-> DisabledDestinations(settings, enabled)] :
                   settings \in DestinationSettings, enabled \in BOOLEAN}
  /\ arules = <<>>
  /\ attributes = nr_attributes_create
  /\ alast = [k \in AttrKeys |-> 0]

\* An include or an exclude setting has a word, for one destination or for all
\* of them.  The settings come in an order of their own: here in any.
ModifyDestinations ==
  /\ attributes = nr_attributes_create /\ Len(arules) < AttrMaxRules
  /\ \E m \in AttrMatches, D \in {{d} : d \in AttrDests} \union {AttrDests}, b \in BOOLEAN :
       LET rule == [match |-> m.match, wild |-> m.wild,
                    include |-> IF b THEN D ELSE {}, exclude |-> IF b THEN {} ELSE D]
       IN /\ aconfig' = nr_php_modify_attribute_destinations(aconfig, <<m>>, rule.include, rule.exclude)
          /\ arules' = Append(arules, rule)
  /\ UNCHANGED <<attributes, alast>>

\* A user attribute (newrelic_add_custom_parameter) or one of the agent's.
AddAttribute ==
  /\ Len(arules) <= AttrMaxAddRules
  /\ \E k \in AttrKeys, v \in 1..AttrMaxAdds, user \in BOOLEAN :
       LET r == nr_attributes_add_internal(aconfig, attributes, AttrDests, user, k, v)
       IN /\ \A i \in 1..Len(attributes.user) : attributes.user[i].val < v
          /\ \A i \in 1..Len(attributes.agent) : attributes.agent[i].val < v
          /\ \A j \in AttrKeys : alast[j] < v
          /\ attributes' = r.ats
          /\ alast' = IF user /\ r.ok THEN [alast EXCEPT ![k] = v] ELSE alast
  /\ UNCHANGED <<aconfig, arules>>

AttrNext == ModifyDestinations \/ AddAttribute

---------------------------------------------------------------------------
(* Properties.                                                              *)

\* How specific a match is: a longer one is, and of two equal ones the one
\* without a wildcard.
Specificity(r) == 2 * Len(r.match) + (IF r.wild THEN 0 ELSE 1)

\* The reference: for a destination the most specific rule that names it
\* decides, whatever the order of the rules; between an include and an exclude
\* of the same match the exclude wins.
Decides(key, dest, default) ==
  LET R == {arules[i] : i \in 1..Len(arules)}
      relevant == {r \in R : /\ nr_attribute_destination_modifier_match(r, key)
                             /\ dest \in r.include \union r.exclude}
      top == {r \in relevant : \A q \in relevant : Specificity(q) <= Specificity(r)}
  IN IF relevant = {} THEN default ELSE ~ \E r \in top : dest \in r.exclude

IncludesLog == \E i \in 1..Len(arules) : "log" \in arules[i].include
StarRule == \E i \in 1..Len(arules) : arules[i].match = <<>>

\* Whatever the order in which the rules were inserted and merged, the list of
\* modifiers sends every attribute where the most specific rules send it; for
\* the log destination a configuration with an include rule excludes the rest.
\* Rules for everything together with log rules are left out: the rule that
\* finalizes the list is then not removed (nr_attributes.c:249).
RulesDecideDestinations ==
  \A key \in AttrKeys, dest \in AttrDests :
    (dest = "log" => ~StarRule) =>
      ((dest \in nr_attribute_config_apply(aconfig, key, AttrDests))
         <=> /\ dest \notin aconfig.disabled
             /\ Decides(key, dest, ~(dest = "log" /\ IncludesLog)))

\* The user attributes stay within the limit and are counted right, and an
\* attribute holds the last value that was accepted for it: a full list still
\* takes a new value of a key it has.
LatestUserValue ==
  /\ attributes.num = Len(attributes.user) /\ attributes.num <= AttrUserLimit
  /\ \A k \in AttrKeys : alast[k] # 0 =>
       \E i \in 1..Len(attributes.user) :
          attributes.user[i].key = k /\ attributes.user[i].val = alast[k]

AttrTypeOK ==
  /\ Len(arules) <= AttrMaxRules /\ aconfig.disabled \subseteq AttrDests
  /\ \A i \in 1..Len(aconfig.modifiers) :
       /\ aconfig.modifiers[i].include \subseteq AttrDests
       /\ aconfig.modifiers[i].exclude \subseteq AttrDests
  /\ attributes.num \in 0..AttrUserLimit
  /\ alast \in [AttrKeys -> 0..AttrMaxAdds]

\* An attribute has its latest value and goes where the rules say, in whatever
\* order rules and values come (nr_attribute_config_modify_destinations,
\* nr_attributes_user_add).
AttributesFollowRules == AttrTypeOK /\ RulesDecideDestinations /\ LatestUserValue
=============================================================================
