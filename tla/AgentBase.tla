------------------------------ MODULE AgentBase ------------------------------
(***************************************************************************)
(* What the modules of the C agent (src/agent and src/axiom) share: the    *)
(* null pointer and the two return values of nr_status_t.                  *)
(***************************************************************************)
EXTENDS Naturals, Sequences, FiniteSets, SequencesExt

CONSTANT NULL     \* the null pointer; a value that equals no other

\* A value of a field that a payload carries as a number where a string is
\* expected: present, but not a string.
CONSTANT NUM

\* The hash maps of util_hashmap.c, keyed by values.
nr_hashmap_create      == [k \in {} |-> NULL]
nr_hashmap_get(h, k)   == IF k \in DOMAIN h THEN h[k] ELSE NULL
nr_hashmap_has(h, k)   == k \in DOMAIN h
nr_hashmap_update(h, k, v) ==
  IF k = NULL THEN h
  ELSE [x \in DOMAIN h \cup {k} |-> IF x = k THEN v ELSE h[x]]
nr_hashmap_delete(h, k) == [x \in DOMAIN h \ {k} |-> h[x]]

\* A value that the map has already is kept.
nr_hashmap_set(h, k, v) == IF k \in DOMAIN h THEN h ELSE nr_hashmap_update(h, k, v)

AsString(v) == IF v = NUM THEN NULL ELSE v
=============================================================================
