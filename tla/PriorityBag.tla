----------------------------- MODULE PriorityBag -----------------------------
(***************************************************************************)
(* What a bounded double-ended priority queue promises, without saying how *)
(* it is stored: a bag that gives its smallest and its largest elements,   *)
(* and that, once it is full, keeps the larger of what it is offered.      *)
(***************************************************************************)
EXTENDS Naturals, FiniteSets, Bags

CONSTANTS PKeys, PNone

VARIABLES pbag,    \* the elements
          pbound,  \* how many there may be; 0 for any number
          pout     \* the element the last operation took out, or PNone

pvars == <<pbag, pbound, pout>>

Smallest(b) == {k \in BagToSet(b) : \A j \in BagToSet(b) : k <= j}
Largest(b)  == {k \in BagToSet(b) : \A j \in BagToSet(b) : k >= j}

PInit == pbag = EmptyBag /\ pout = PNone /\ pbound \in Nat \ {1}

Full == pbound # 0 /\ BagCardinality(pbag) >= pbound

PInsert == \E v \in PKeys, out \in PKeys \union {PNone} :
  LET all == pbag (+) SetToBag({v})
  IN /\ IF Full THEN out \in Smallest(all) ELSE out = PNone
     /\ pbag' = IF Full THEN all (-) SetToBag({out}) ELSE all
     /\ pout' = out
     /\ UNCHANGED pbound

PPop == \E v \in Smallest(pbag) \union Largest(pbag) :
  /\ pbag' = pbag (-) SetToBag({v})
  /\ pout' = v
  /\ UNCHANGED pbound

PSpec == PInit /\ [][PInsert \/ PPop]_pvars
=============================================================================
