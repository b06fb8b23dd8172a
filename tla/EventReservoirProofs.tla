------------------------- MODULE EventReservoirProofs -------------------------
(***************************************************************************)
(* What holds of an event collection of any capacity, with any events,     *)
(* priorities and number of payloads under way.                            *)
(***************************************************************************)
EXTENDS EventReservoir, FiniteSetTheorems, TLAPS

(* Events are sampled out of a full collection only, and a full collection *)
(* stays full: room never comes back before the next harvest.              *)
Filled == out # {} => Cardinality(events) = Cap

(* Every event that is somewhere has occurred and has not been stored, and *)
(* a name that is free stands for no events.                               *)
Somewhere == events \cup pending \cup UNION {payload[p].events : p \in Payloads}
Unsent ==
    /\ Somewhere \subseteq observed
    /\ \A e \in Somewhere : arrived[e] = 0
    /\ \A e \in Events \ observed : arrived[e] = 0
    /\ \A p \in Payloads : payload[p].state = "none" => payload[p].events = {}

IInv == TypeOK /\ Filled /\ HighestKept /\ OnePlace /\ Unsent

-----------------------------------------------------------------------------
(* A subset of Events has a cardinality, which an element more or less     *)
(* changes by one.                                                         *)
LEMMA Counting ==
    ASSUME NEW S \in SUBSET Events
    PROVE  /\ IsFiniteSet(S)
           /\ Cardinality(S) \in Nat
           /\ S = {} <=> Cardinality(S) = 0
           /\ \A e \in Events \ S : Cardinality(S \cup {e}) = Cardinality(S) + 1
           /\ \A e \in S : Cardinality(S \ {e}) = Cardinality(S) - 1
<1>1. IsFiniteSet(S)
  BY EventAssumption, FS_Subset
<1>2. Cardinality(S) \in Nat
  BY <1>1, FS_CardinalityType
<1>3. S = {} <=> Cardinality(S) = 0
  BY <1>1, FS_EmptySet
<1>4. \A e \in Events \ S : Cardinality(S \cup {e}) = Cardinality(S) + 1
  BY <1>1, FS_AddElement
<1>5. \A e \in S : Cardinality(S \ {e}) = Cardinality(S) - 1
  BY <1>1, FS_RemoveElement
<1>6. QED
  BY <1>1, <1>2, <1>3, <1>4, <1>5

(* AddEvent of an event that is not there keeps the bound, the highest     *)
(* priorities and a full collection full, and adds nothing but this event. *)
LEMMA AddEventKeeps ==
    ASSUME TypeOK, Filled, HighestKept,
           NEW e \in Events, e \notin events, AddEvent(e)
    PROVE  /\ events' \in SUBSET Events
           /\ events' \subseteq events \cup {e}
           /\ Cardinality(events') <= Cap
           /\ out' \in SUBSET Events
           /\ Filled'
           /\ HighestKept'
<1> USE BoundAssumption, EventAssumption
<1>1. /\ events \in SUBSET Events /\ out \in SUBSET Events
      /\ Cardinality(events) \in Nat /\ Cardinality(events) <= Cap
      /\ events = {} <=> Cardinality(events) = 0
  BY Counting DEF TypeOK
<1>2. CASE Cardinality(events) < Cap /\ events' = events \cup {e} /\ UNCHANGED out
  <2>1. Cardinality(events') = Cardinality(events) + 1
    BY <1>1, <1>2, Counting
  <2>2. out = {}
    BY <1>1, <1>2 DEF Filled
  <2>3. QED
    BY <1>1, <1>2, <2>1, <2>2 DEF Filled, HighestKept
<1>3. CASE /\ Cardinality(events) >= Cap
           /\ Cap = 0 \/ \E x \in Lowest : IsLowerPriority(e, x)
           /\ out' = out \cup {e}
           /\ UNCHANGED events
  <2>1. \A y \in events : Priority[e] <= Priority[y]
    <3>1. CASE Cap = 0
      BY <1>1, <3>1
    <3>2. CASE \E x \in Lowest : IsLowerPriority(e, x)
      <4>1. PICK x \in Lowest : Priority[e] < Priority[x]
        BY <3>2 DEF IsLowerPriority
      <4>2. \A y \in events : y \in Events /\ Priority[x] <= Priority[y]
        BY <1>1, <4>1 DEF Lowest
      <4>3. x \in Events
        BY <1>1, <4>1 DEF Lowest
      <4>4. QED
        BY <4>1, <4>2, <4>3
    <3>3. QED
      BY <1>3, <3>1, <3>2
  <2>2. QED
    BY <1>1, <1>3, <2>1 DEF Filled, HighestKept
<1>4. ASSUME Cardinality(events) >= Cap,
             NEW x \in Lowest,
             ~IsLowerPriority(e, x),
             events' = (events \ {x}) \cup {e},
             out' = out \cup {x}
      PROVE  /\ events' \in SUBSET Events
             /\ events' \subseteq events \cup {e}
             /\ Cardinality(events') <= Cap
             /\ out' \in SUBSET Events
             /\ Filled'
             /\ HighestKept'
  <2>1. x \in events /\ x \in Events /\ \A y \in events : Priority[x] <= Priority[y]
    BY <1>1 DEF Lowest
  <2>2. Priority[x] <= Priority[e]
    BY <1>4, <2>1 DEF IsLowerPriority
  <2>3. Cardinality(events \ {x}) = Cardinality(events) - 1
    BY <1>1, <2>1, Counting
  <2>4. Cardinality(events') = Cardinality(events)
    <3>1. events \ {x} \in SUBSET Events /\ e \in Events \ (events \ {x})
      BY <1>1
    <3>2. Cardinality((events \ {x}) \cup {e}) = Cardinality(events \ {x}) + 1
      BY <3>1, Counting
    <3>3. QED
      BY <1>1, <1>4, <2>3, <3>2
  <2>5. HighestKept'
    <3>1. ASSUME NEW o \in out', NEW y \in events' PROVE Priority[o] <= Priority[y]
      <4>1. Priority[x] <= Priority[y] /\ y \in Events
        BY <1>1, <1>4, <2>1, <2>2
      <4>2. Priority[o] <= Priority[x] /\ o \in Events
        BY <1>1, <1>4, <2>1 DEF HighestKept
      <4>3. QED
        BY <2>1, <4>1, <4>2
    <3>2. QED
      BY <3>1 DEF HighestKept
  <2>6. QED
    BY <1>1, <1>4, <2>1, <2>4, <2>5 DEF Filled
<1>5. QED
  BY <1>2, <1>3, <1>4 DEF AddEvent

-----------------------------------------------------------------------------
(* The invariant in the form the steps use: payloads one by one.           *)
LEMMA PlacesOfPayloads ==
    ASSUME IInv
    PROVE  \A p \in Payloads :
              /\ payload[p].events \subseteq observed
              /\ payload[p].events \cap (events \cup pending) = {}
              /\ \A e \in payload[p].events : arrived[e] = 0
              /\ \A q \in Payloads : p # q => payload[p].events \cap payload[q].events = {}
<1> USE DEF IInv, Unsent, Somewhere
<1>1. \A p \in Payloads : payload[p].events \subseteq observed
                          /\ \A e \in payload[p].events : arrived[e] = 0
  OBVIOUS
<1>2. \A p \in Payloads : payload[p].events # {} => p \in InUse
  BY DEF InUse
<1>3. QED
  BY <1>1, <1>2 DEF OnePlace

(* An event that occurs, or the next one of a merge.                       *)
LEMMA AddingStep ==
    ASSUME IInv, NEW e \in Events, AddEvent(e), e \notin events,
           \A p \in Payloads : e \notin payload[p].events,
           arrived[e] = 0,
           pending' = pending \ {e}, observed' = observed \cup {e},
           seen' = seen + 1,
           UNCHANGED <<fails, payload, total, arrived, told, gone, tries, prompt, split>>
    PROVE  IInv'
<1>1. /\ TypeOK /\ Filled /\ HighestKept /\ OnePlace /\ Unsent
  BY DEF IInv
<1>2. /\ events' \in SUBSET Events
      /\ events' \subseteq events \cup {e}
      /\ Cardinality(events') <= Cap
      /\ out' \in SUBSET Events
      /\ Filled'
      /\ HighestKept'
  BY <1>1, AddEventKeeps
<1>3. TypeOK'
  BY <1>1, <1>2 DEF TypeOK
<1>4. OnePlace'
  BY <1>1, <1>2 DEF OnePlace, InUse
<1>5. Unsent'
  BY <1>1, <1>2 DEF Unsent, Somewhere
<1>6. QED
  BY <1>2, <1>3, <1>4, <1>5 DEF IInv

(* Payloads change their contents in no other way than to give them up,    *)
(* and nothing else moves.                                                 *)
LEMMA EndingStep ==
    ASSUME IInv, NEW p \in Payloads, payload' = [payload EXCEPT ![p] = Free],
           UNCHANGED <<events, pending, observed, out>>,
           arrived' \in [Events -> Nat],
           \A e \in Events : arrived'[e] # arrived[e] =>
                            e \in payload[p].events /\ arrived'[e] = 1,
           seen' \in Nat, fails' \in 0..Limit, total' \in Nat, told' \in Nat, gone' \in Int,
           tries' \in [Events -> Nat], prompt' \in BOOLEAN, split' \in BOOLEAN
    PROVE  IInv'
<1> USE DEF IInv
<1>1. \A q \in Payloads : payload'[q] = IF q = p THEN Free ELSE payload[q]
  BY DEF TypeOK
<1>2. TypeOK'
  BY BoundAssumption DEF TypeOK, Free
<1>3. Filled' /\ HighestKept'
  BY DEF Filled, HighestKept
<1>4. \A q \in Payloads : payload'[q].events \subseteq payload[q].events
  BY <1>1 DEF Free
<1>5. \A q \in Payloads : payload'[q].events \cap payload[p].events = {}
  BY <1>1, PlacesOfPayloads DEF Free
<1>6. OnePlace'
  <2>1. \A q \in Payloads : payload'[q].events \cap (events' \cup pending') = {}
    BY <1>4, PlacesOfPayloads
  <2>2. \A q, r \in Payloads : q # r => payload'[q].events \cap payload'[r].events = {}
    BY <1>4, PlacesOfPayloads
  <2>3. \A e \in Events : arrived'[e] <= 1
    BY DEF OnePlace
  <2>4. QED
    BY <2>1, <2>2, <2>3 DEF OnePlace, InUse
<1>7. Unsent'
  <2>1. Somewhere' \subseteq Somewhere
    BY <1>4 DEF Somewhere
  <2>2. Somewhere' \cap payload[p].events = {}
    BY <1>5, PlacesOfPayloads DEF Somewhere
  <2>3. payload[p].events \subseteq observed
    BY PlacesOfPayloads
  <2>4. Somewhere' \subseteq Events
    BY <1>2 DEF TypeOK, Somewhere
  <2>5. \A q \in Payloads : payload'[q].state = "none" => payload'[q].events = {}
    BY <1>1 DEF Unsent, Free
  <2>6. QED
    BY <2>1, <2>2, <2>3, <2>4, <2>5 DEF Unsent
<1>8. QED
  BY <1>2, <1>3, <1>6, <1>7

(* A harvest: payloads that were free get what the collection held.        *)
LEMMA HarvestStep ==
    ASSUME IInv, Harvest
    PROVE  IInv'
<1> USE DEF IInv
<1>1. /\ Idle /\ events' = {} /\ seen' = 0 /\ fails' = 0 /\ out' = {}
      /\ prompt' \in BOOLEAN
      /\ UNCHANGED <<pending, total, observed, arrived, told, tries, split>>
  BY DEF Harvest, merge
<1>2. /\ Cardinality(events') <= Cap
      /\ Filled' /\ HighestKept'
  <2>1. Cardinality({}) = 0
    BY FS_EmptySet
  <2>2. QED
    BY <1>1, <2>1, BoundAssumption DEF Filled, HighestKept
<1>3. SUFFICES ASSUME /\ payload' \in [Payloads -> [state : {"none", "send", "failed"},
                                        events : SUBSET Events, seen : Nat, fails : 0..Limit]]
                      /\ gone' \in Int,
                      \A p \in Payloads :
                          \/ payload'[p] = payload[p]
                          \/ /\ payload[p].state = "none"
                             /\ payload'[p].state = "send" /\ payload'[p].events \subseteq events,
                      \A p, q \in Payloads :
                          p # q /\ payload'[p] # payload[p] /\ payload'[q] # payload[q]
                              => payload'[p].events \cap payload'[q].events = {}
               PROVE  IInv'
  <2>1. CASE events = {} /\ gone' = gone + seen /\ UNCHANGED payload
    BY <1>1, <1>3, <2>1 DEF TypeOK
  <2>2. CASE HarvestWhole /\ UNCHANGED gone
    <3>1. PICK p \in Payloads \ InUse :
              payload' = [payload EXCEPT ![p] = Collection(events, seen, fails)]
      BY <2>2 DEF HarvestWhole
    <3>2. Collection(events, seen, fails) \in
              [state : {"none", "send", "failed"}, events : SUBSET Events, seen : Nat, fails : 0..Limit]
      BY DEF TypeOK, Collection
    <3>3. \A q \in Payloads : payload'[q] = IF q = p THEN Collection(events, seen, fails) ELSE payload[q]
      BY <3>1 DEF TypeOK
    <3>4. payload[p].state = "none"
      BY <3>1 DEF InUse
    <3>5. QED
      BY <1>3, <2>2, <3>1, <3>2, <3>3, <3>4 DEF TypeOK, Collection
  <2>3. CASE HarvestHalves /\ gone' = gone + (seen - Cardinality(events))
    <3>1. PICK p \in Payloads \ InUse, q \in Payloads \ InUse, h \in Halves(events) :
              /\ p # q
              /\ payload' = [payload EXCEPT
                    ![p] = Collection(h[1], Cardinality(h[1]), fails),
                    ![q] = Collection(h[2], Cardinality(h[2]), fails)]
      BY <2>3 DEF HarvestHalves
    <3>2. /\ h[1] \in SUBSET events /\ h[2] \in SUBSET events /\ h[1] \cap h[2] = {}
      BY DEF Halves
    <3>3. /\ h[1] \in SUBSET Events /\ h[2] \in SUBSET Events
          /\ Cardinality(h[1]) \in Nat /\ Cardinality(h[2]) \in Nat
      BY <3>2, Counting DEF TypeOK
    <3>4. \A r \in Payloads : payload'[r] = IF r = q THEN Collection(h[2], Cardinality(h[2]), fails)
                                ELSE IF r = p THEN Collection(h[1], Cardinality(h[1]), fails)
                                ELSE payload[r]
      BY <3>1 DEF TypeOK
    <3>5. payload[p].state = "none" /\ payload[q].state = "none"
      BY <3>1 DEF InUse
    <3>6. payload' \in [Payloads -> [state : {"none", "send", "failed"},
                                     events : SUBSET Events, seen : Nat, fails : 0..Limit]]
      BY <3>1, <3>3 DEF TypeOK, Collection
    <3>7. gone' \in Int
      BY <2>3, Counting DEF TypeOK
    <3>8. \A r \in Payloads :
              \/ payload'[r] = payload[r]
              \/ /\ payload[r].state = "none"
                 /\ payload'[r].state = "send" /\ payload'[r].events \subseteq events
      BY <3>2, <3>4, <3>5 DEF Collection
    <3>9. \A r, t \in Payloads :
              r # t /\ payload'[r] # payload[r] /\ payload'[t] # payload[t]
                  => payload'[r].events \cap payload'[t].events = {}
      BY <3>2, <3>4 DEF Collection
    <3>10. QED
      BY <1>3, <3>6, <3>7, <3>8, <3>9
  <2>4. QED
    BY <2>1, <2>2, <2>3 DEF Harvest
<1>4. TypeOK'
  BY <1>1, <1>2, <1>3, BoundAssumption DEF TypeOK
<1>5. events \subseteq observed /\ \A e \in events : arrived[e] = 0
  BY DEF Unsent, Somewhere
<1>6. OnePlace'
  <2>1. pending' = {} /\ events' = {}
    BY <1>1 DEF Idle
  <2>2. \A p, q \in Payloads : p # q => payload'[p].events \cap payload'[q].events = {}
    BY <1>3, PlacesOfPayloads
  <2>3. \A e \in Events : arrived'[e] <= 1
    BY <1>1 DEF OnePlace
  <2>4. QED
    BY <2>1, <2>2, <2>3 DEF OnePlace, InUse
<1>7. Unsent'
  <2>1. \A p \in Payloads : payload'[p].events \subseteq observed
                            /\ \A e \in payload'[p].events : arrived[e] = 0
    BY <1>3, <1>5, PlacesOfPayloads
  <2>2. \A p \in Payloads : payload'[p].state = "none" => payload'[p].events = {}
    BY <1>3 DEF Unsent
  <2>3. events' = {} /\ pending' = {}
    BY <1>1 DEF Idle
  <2>4. QED
    BY <1>1, <2>1, <2>2, <2>3 DEF Unsent, Somewhere
<1>8. QED
  BY <1>2, <1>4, <1>6, <1>7

(* The invariant holds, whatever the answers to payloads and whenever.     *)
THEOREM ReservoirInvariant == Spec => []IInv
<1>1. Init => IInv
  <2>1. Cardinality({}) = 0
    BY FS_EmptySet
  <2>2. QED
    BY <2>1, BoundAssumption
    DEF Init, IInv, TypeOK, Filled, HighestKept, OnePlace, Unsent, Somewhere, Free, InUse
<1>2. IInv /\ [Next]_vars => IInv'
  <2> SUFFICES ASSUME IInv, [Next]_vars PROVE IInv'
    OBVIOUS
  <2>1. TypeOK /\ Filled /\ HighestKept /\ OnePlace /\ Unsent
    BY DEF IInv
  <2>2. ASSUME NEW e \in Events, EventOccurs(e) PROVE IInv'
    <3>1. e \notin observed /\ pending = {} /\ UNCHANGED <<fails, payload, pending, total, arrived, told, gone, tries, prompt, split>>
      BY <2>2 DEF EventOccurs, merge, Idle
    <3>2. e \notin events /\ (\A p \in Payloads : e \notin payload[p].events) /\ arrived[e] = 0
      BY <2>1, <3>1 DEF Unsent, Somewhere
    <3>3. QED
      BY <2>2, <3>1, <3>2, AddingStep DEF EventOccurs
  <2>3. ASSUME NEW e \in Events, MergeEvent(e) PROVE IInv'
    <3>1. e \in pending /\ UNCHANGED <<fails, payload, total, observed, arrived, told, gone, tries, prompt, split>>
      BY <2>3 DEF MergeEvent
    <3>2. e \in observed /\ arrived[e] = 0
      BY <2>1, <3>1 DEF Unsent, Somewhere
    <3>3. e \notin events
      BY <2>1, <3>1 DEF OnePlace
    <3>4. \A p \in Payloads : e \notin payload[p].events
      BY <3>1, PlacesOfPayloads
    <3>5. QED
      BY <2>3, <3>1, <3>2, <3>3, <3>4, AddingStep DEF MergeEvent
  <2>4. CASE Harvest
    BY <2>4, HarvestStep
  <2>5. ASSUME NEW p \in Payloads, PayloadSent(p) PROVE IInv'
    <3>1. \A e \in payload[p].events : arrived[e] = 0
      BY PlacesOfPayloads
    <3>2. /\ payload' = [payload EXCEPT ![p] = Free]
          /\ UNCHANGED <<events, seen, fails, pending, total, observed, out, gone, tries, prompt, split>>
          /\ told' = told + payload[p].seen
          /\ arrived' = [e \in Events |-> arrived[e] + IF e \in payload[p].events THEN 1 ELSE 0]
      BY <2>5 DEF PayloadSent, live, merge
    <3>3. \A e \in Events : arrived'[e] # arrived[e] => e \in payload[p].events /\ arrived'[e] = 1
      BY <2>1, <3>1, <3>2 DEF TypeOK
    <3>4. arrived' \in [Events -> Nat] /\ told' \in Nat
      BY <2>1, <3>2 DEF TypeOK
    <3>5. QED
      BY <2>1, <3>2, <3>3, <3>4, EndingStep DEF TypeOK
  <2>6. ASSUME NEW p \in Payloads, PayloadFails(p) PROVE IInv'
    <3>1. /\ payload' = [payload EXCEPT ![p].state = "failed"]
          /\ payload[p].state = "send"
          /\ UNCHANGED <<events, seen, fails, pending, total, observed, out, arrived, told, gone, prompt, split>>
          /\ tries' = [e \in Events |-> IF e \in payload[p].events /\ tries[e] <= Limit + 1
                                         THEN tries[e] + 1 ELSE tries[e]]
      BY <2>6 DEF PayloadFails, live, merge
    <3>2. TypeOK'
      BY <2>1, <3>1 DEF TypeOK
    <3>3. \A q \in Payloads : /\ payload'[q].events = payload[q].events
                              /\ payload'[q].state = "none" <=> payload[q].state = "none"
      BY <2>1, <3>1 DEF TypeOK
    <3>4. OnePlace'
      BY <2>1, <3>1, <3>3 DEF OnePlace, InUse
    <3>5. Unsent'
      BY <2>1, <3>1, <3>3 DEF Unsent, Somewhere
    <3>6. QED
      BY <2>1, <3>1, <3>2, <3>4, <3>5 DEF IInv, Filled, HighestKept
  <2>7. ASSUME NEW p \in Payloads, Discard(p) PROVE IInv'
    <3>1. /\ payload' = [payload EXCEPT ![p] = Free]
          /\ UNCHANGED <<events, seen, fails, pending, total, observed, out, arrived, told, tries, prompt, split>>
          /\ gone' = gone + payload[p].seen
      BY <2>7 DEF Discard, live, merge
    <3>2. gone' \in Int
      BY <2>1, <3>1 DEF TypeOK
    <3>3. QED
      BY <2>1, <3>1, <3>2, EndingStep DEF TypeOK
  <2>8. ASSUME NEW p \in Payloads, MergeFailed(p) PROVE IInv'
    <3>1. /\ payload' = [payload EXCEPT ![p] = Free]
          /\ pending = {} /\ pending' = payload[p].events
          /\ fails' = payload[p].fails + 1 /\ fails' <= Limit
          /\ total' = seen + payload[p].seen
          /\ UNCHANGED <<events, seen, observed, out, arrived, told, gone, tries, prompt, split>>
      BY <2>8 DEF MergeFailed, Attempts, Idle, rest
    <3>2. \A q \in Payloads : payload'[q] = IF q = p THEN Free ELSE payload[q]
      BY <2>1, <3>1 DEF TypeOK
    <3>3. TypeOK'
      BY <2>1, <3>1, BoundAssumption DEF TypeOK, Free
    <3>4. OnePlace'
      <4>1. \A q \in Payloads : payload'[q].events \cap (events' \cup pending') = {}
        BY <3>1, <3>2, PlacesOfPayloads DEF Free
      <4>2. \A q, r \in Payloads : q # r => payload'[q].events \cap payload'[r].events = {}
        BY <3>2, PlacesOfPayloads DEF Free
      <4>3. events' \cap pending' = {}
        BY <3>1, PlacesOfPayloads
      <4>4. QED
        BY <2>1, <3>1, <4>1, <4>2, <4>3 DEF OnePlace, InUse
    <3>5. Unsent'
      <4>1. Somewhere' \subseteq Somewhere
        BY <3>1, <3>2 DEF Somewhere, Free
      <4>2. \A q \in Payloads : payload'[q].state = "none" => payload'[q].events = {}
        BY <2>1, <3>2 DEF Unsent, Free
      <4>3. QED
        BY <2>1, <3>1, <4>1, <4>2 DEF Unsent
    <3>6. QED
      BY <2>1, <3>1, <3>3, <3>4, <3>5 DEF IInv, Filled, HighestKept
  <2>9. CASE MergeDone
    <3>1. seen' = total /\ total' = 0 /\ UNCHANGED <<events, fails, payload, pending, observed, out, arrived, told, gone, tries, prompt, split>>
      BY <2>9 DEF MergeDone, rest
    <3>2. QED
      BY <2>1, <3>1 DEF IInv, TypeOK, Filled, HighestKept, OnePlace, InUse, Unsent, Somewhere
  <2>10. CASE UNCHANGED vars
    BY <2>1, <2>10 DEF vars, IInv, TypeOK, Filled, HighestKept, OnePlace, InUse, Unsent, Somewhere
  <2>11. QED
    BY <2>2, <2>3, <2>4, <2>5, <2>6, <2>7, <2>8, <2>9, <2>10 DEF Next
<1>3. QED
  BY <1>1, <1>2, PTL DEF Spec

(* No event is sampled out in favour of one with a lower priority.         *)
THEOREM HighestAreKept == Spec => []HighestKept
  BY ReservoirInvariant, PTL DEF IInv

(* An event is in one place, and is stored by the collector at most once.  *)
THEOREM EventsInOnePlace == Spec => []OnePlace
  BY ReservoirInvariant, PTL DEF IInv

-----------------------------------------------------------------------------
(* The counts of failed attempts when payloads are answered before the     *)
(* next harvest: the payloads under way are the parts of one harvest, have *)
(* failed equally often, and the live collection has failed once more than *)
(* they have, if one of them has been merged into it.                      *)
Counted ==
    /\ \A e \in Events \ observed : tries[e] = 0
    /\ \A e \in events \cup pending : tries[e] <= fails
    /\ \A p \in InUse : \A e \in payload[p].events :
          tries[e] <= payload[p].fails + IF payload[p].state = "failed" THEN 1 ELSE 0
    /\ \A p, q \in InUse : payload[p].fails = payload[q].fails
    /\ \A p \in InUse : fails = 0 \/ fails = payload[p].fails + 1

LEMMA HarvestCounted ==
    ASSUME IInv, Counted, Harvest, prompt'
    PROVE  Counted'
<1>1. /\ Idle /\ events' = {} /\ fails' = 0 /\ InUse = {}
      /\ UNCHANGED <<pending, observed, tries>>
  BY DEF Harvest, merge
<1>2. TypeOK /\ pending' = {}
  BY <1>1 DEF IInv, Idle
<1>3. \A p \in Payloads : payload[p].state = "none"
  BY <1>1 DEF InUse
<1>4. \A p \in Payloads : payload'[p] # payload[p] =>
          payload'[p].state = "send" /\ payload'[p].fails = fails /\ payload'[p].events \subseteq events
  <2>1. CASE HarvestWhole
    BY <1>2, <2>1 DEF HarvestWhole, Collection, TypeOK
  <2>2. CASE HarvestHalves
    <3>1. PICK p \in Payloads \ InUse, q \in Payloads \ InUse, h \in Halves(events) :
              /\ p # q
              /\ payload' = [payload EXCEPT
                    ![p] = Collection(h[1], Cardinality(h[1]), fails),
                    ![q] = Collection(h[2], Cardinality(h[2]), fails)]
      BY <2>2 DEF HarvestHalves
    <3>2. h[1] \in SUBSET events /\ h[2] \in SUBSET events
      BY DEF Halves
    <3>3. \A r \in Payloads : payload'[r] = IF r = q THEN Collection(h[2], Cardinality(h[2]), fails)
                                ELSE IF r = p THEN Collection(h[1], Cardinality(h[1]), fails)
                                ELSE payload[r]
      BY <1>2, <3>1 DEF TypeOK
    <3>4. QED
      BY <3>2, <3>3 DEF Collection
  <2>3. QED
    BY <2>1, <2>2 DEF Harvest
<1>5. \A p \in InUse' : payload'[p].state = "send" /\ payload'[p].fails = fails
                        /\ payload'[p].events \subseteq events
  BY <1>3, <1>4 DEF InUse
<1>6. \A e \in events : tries[e] <= fails
  BY DEF Counted
<1>7. \A e \in Events : tries[e] \in Nat
  BY <1>2 DEF TypeOK
<1>8. fails \in Nat
  BY <1>2 DEF TypeOK
<1>9. \A p \in InUse' : \A e \in payload'[p].events :
          tries'[e] <= payload'[p].fails + IF payload'[p].state = "failed" THEN 1 ELSE 0
  BY <1>1, <1>5, <1>6, <1>7, <1>8
<1>10. QED
  BY <1>1, <1>2, <1>5, <1>9 DEF Counted

(* While payloads are answered before the next harvest, no event is kept   *)
(* that has failed more than FailedEventsAttemptsLimit times.              *)
THEOREM AttemptsAreLimited == Spec => []AttemptsLimited
<1>1. Init => (prompt => Counted)
  BY DEF Init, Counted, InUse, Free
<1>2. IInv /\ (prompt => Counted) /\ [Next]_vars => (prompt => Counted)'
  <2> SUFFICES ASSUME IInv, Counted, [Next]_vars, prompt' PROVE Counted'
    <3>1. [Next]_vars /\ prompt' => prompt
      BY DEF Next, vars, rest, EventOccurs, MergeEvent, Harvest, PayloadSent, PayloadFails,
             Discard, MergeFailed, MergeDone
    <3>2. QED
      BY <3>1
  <2>1. TypeOK /\ Unsent /\ OnePlace
    BY DEF IInv
  <2>2. ASSUME NEW e \in Events, EventOccurs(e) PROVE Counted'
    <3>1. /\ e \notin observed /\ observed' = observed \cup {e} /\ events' \subseteq events \cup {e}
          /\ UNCHANGED <<fails, payload, pending, tries>>
      BY <2>2 DEF EventOccurs, AddEvent, merge
    <3>2. tries[e] <= fails
      BY <2>1, <3>1 DEF Counted, TypeOK
    <3>3. QED
      BY <3>1, <3>2 DEF Counted, InUse
  <2>3. ASSUME NEW e \in Events, MergeEvent(e) PROVE Counted'
    <3>1. /\ e \in pending /\ events' \subseteq events \cup {e} /\ pending' = pending \ {e}
          /\ UNCHANGED <<fails, payload, observed, tries>>
      BY <2>3 DEF MergeEvent, AddEvent
    <3>2. QED
      BY <3>1 DEF Counted, InUse
  <2>4. CASE Harvest
    BY <2>4, HarvestCounted
  <2>5. ASSUME NEW p \in Payloads, payload' = [payload EXCEPT ![p] = Free],
               UNCHANGED <<events, pending, fails, observed, tries>>
        PROVE  Counted'
    <3>1. \A q \in InUse' : q \in InUse /\ payload'[q] = payload[q]
      BY <2>1, <2>5 DEF InUse, Free, TypeOK
    <3>2. QED
      BY <2>5, <3>1 DEF Counted
  <2>6. ASSUME NEW p \in Payloads, PayloadFails(p) PROVE Counted'
    <3>1. /\ payload' = [payload EXCEPT ![p].state = "failed"]
          /\ payload[p].state = "send"
          /\ UNCHANGED <<events, fails, pending, observed>>
          /\ tries' = [e \in Events |-> IF e \in payload[p].events /\ tries[e] <= Limit + 1
                                         THEN tries[e] + 1 ELSE tries[e]]
      BY <2>6 DEF PayloadFails, live, merge
    <3>2. \A q \in Payloads : /\ payload'[q].events = payload[q].events
                              /\ payload'[q].fails = payload[q].fails
                              /\ q # p => payload'[q].state = payload[q].state
      BY <2>1, <3>1 DEF TypeOK
    <3>3. payload'[p].state = "failed" /\ InUse' = InUse /\ p \in InUse
      BY <2>1, <3>1 DEF TypeOK, InUse
    <3>4. \A e \in Events : e \notin payload[p].events => tries'[e] = tries[e]
      BY <3>1
    <3>5. \A q \in InUse' : \A e \in payload'[q].events :
              tries'[e] <= payload'[q].fails + IF payload'[q].state = "failed" THEN 1 ELSE 0
      <4>1. ASSUME NEW q \in InUse, q # p, NEW e \in payload[q].events
            PROVE  tries'[e] <= payload'[q].fails + IF payload'[q].state = "failed" THEN 1 ELSE 0
        <5>1. e \in Events /\ e \notin payload[p].events
          BY <2>1, <3>3, <4>1 DEF TypeOK, OnePlace, InUse
        <5>2. q \in Payloads
          BY DEF InUse
        <5>3. QED
          BY <3>2, <3>4, <4>1, <5>1, <5>2 DEF Counted
      <4>2. ASSUME NEW e \in payload[p].events
            PROVE  tries'[e] <= payload'[p].fails + 1
        <5>1. e \in Events /\ tries[e] \in Nat /\ payload[p].fails \in Nat
          BY <2>1 DEF TypeOK
        <5>2. tries[e] <= payload[p].fails
          BY <3>1, <3>3, <5>1 DEF Counted
        <5>3. tries'[e] <= tries[e] + 1
          BY <3>1, <5>1
        <5>4. QED
          BY <3>1, <3>2, <5>1, <5>2, <5>3, BoundAssumption
      <4>3. QED
        BY <3>2, <3>3, <4>1, <4>2 DEF InUse
    <3>6. \A e \in events \cup pending : tries'[e] <= fails
      <4>1. \A e \in events \cup pending : e \in Events /\ e \notin payload[p].events
        BY <2>1, <3>3 DEF TypeOK, OnePlace
      <4>2. QED
        BY <3>4, <4>1 DEF Counted
    <3>7. \A e \in Events \ observed : tries'[e] = 0
      BY <3>4, PlacesOfPayloads DEF Counted
    <3>8. (\A q, r \in InUse' : payload'[q].fails = payload'[r].fails)
          /\ \A q \in InUse' : fails' = 0 \/ fails' = payload'[q].fails + 1
      BY <3>1, <3>2, <3>3 DEF Counted, InUse
    <3>9. QED
      BY <3>1, <3>5, <3>6, <3>7, <3>8 DEF Counted
  <2>7. ASSUME NEW p \in Payloads, MergeFailed(p) PROVE Counted'
    <3>1. /\ payload' = [payload EXCEPT ![p] = Free] /\ payload[p].state = "failed"
          /\ pending' = payload[p].events /\ pending = {}
          /\ fails' = payload[p].fails + 1
          /\ UNCHANGED <<events, observed, tries>>
      BY <2>7 DEF MergeFailed, Attempts, Idle, rest
    <3>2. p \in InUse /\ \A q \in InUse' : q \in InUse /\ payload'[q] = payload[q]
      BY <2>1, <3>1 DEF InUse, Free, TypeOK
    <3>3. \A e \in pending' : tries'[e] <= fails'
      BY <3>1, <3>2 DEF Counted
    <3>4. \A e \in events' : tries'[e] <= fails'
      <4>1. fails = 0 \/ fails = fails'
        BY <3>1, <3>2 DEF Counted
      <4>2. \A e \in events : tries[e] \in Nat /\ tries[e] <= fails
        BY <2>1 DEF Counted, TypeOK
      <4>3. payload[p].fails \in Nat
        BY <2>1 DEF TypeOK
      <4>4. QED
        BY <3>1, <4>1, <4>2, <4>3
    <3>5. \A q \in InUse' : fails' = payload'[q].fails + 1
      BY <3>1, <3>2 DEF Counted
    <3>6. QED
      BY <3>1, <3>2, <3>3, <3>4, <3>5 DEF Counted
  <2>8. CASE MergeDone
    BY <2>8 DEF MergeDone, rest, Counted, InUse
  <2>9. CASE UNCHANGED vars
    BY <2>9 DEF vars, Counted, InUse
  <2>10. QED
    BY <2>2, <2>3, <2>4, <2>5, <2>6, <2>7, <2>8, <2>9
    DEF Next, PayloadSent, Discard, live, merge
<1>3. IInv /\ (prompt => Counted) => AttemptsLimited
  <2> SUFFICES ASSUME IInv, Counted, NEW e \in events \cup pending
               PROVE  tries[e] <= Limit
    BY DEF AttemptsLimited
  <2>1. e \in Events /\ tries[e] \in Nat /\ fails \in 0..Limit
    BY DEF IInv, TypeOK
  <2>2. tries[e] <= fails
    BY DEF Counted
  <2>3. QED
    BY <2>1, <2>2, BoundAssumption
<1>4. QED
  BY <1>1, <1>2, <1>3, ReservoirInvariant, PTL DEF Spec

-----------------------------------------------------------------------------
(* The counts.  While a merge runs, allSeen stands in the place of the     *)
(* collection's own count, which counts the merged events again; it is not *)
(* zero then, because a payload with events has counted some.              *)
Tally ==
    /\ IsFiniteSet(UnderWay)
    /\ told + gone + (IF total = 0 THEN seen ELSE total) + Cardinality(UnderWay)
         = Cardinality(observed)
    /\ total = 0 => pending = {}
    /\ seen = 0 => events = {}
    /\ \A p \in Payloads : /\ payload[p].seen = 0 => payload[p].events = {}
                           /\ payload[p].state = "none" => payload[p].seen = 0

Pairs(f) == UNION {{p} \X (1..f[p]) : p \in Payloads}
SeenBy == [p \in Payloads |-> payload[p].seen]

LEMMA PairsOfOne ==
    ASSUME NEW p, NEW n \in Nat
    PROVE  IsFiniteSet({p} \X (1..n)) /\ Cardinality({p} \X (1..n)) = n
<1>1. IsFiniteSet({p}) /\ Cardinality({p}) = 1
  BY FS_Singleton
<1>2. IsFiniteSet(1..n) /\ Cardinality(1..n) = n
  BY FS_Interval
<1>3. IsFiniteSet({p} \X (1..n)) /\ Cardinality({p} \X (1..n)) = Cardinality({p}) * Cardinality(1..n)
  BY <1>1, <1>2, FS_Product
<1> QED
  BY <1>1, <1>2, <1>3

(* One payload counts n events in the place of what it did.                *)
LEMMA OneCountChanges ==
    ASSUME NEW f \in [Payloads -> Nat], IsFiniteSet(Pairs(f)), NEW p \in Payloads, NEW n \in Nat
    PROVE  LET g == [f EXCEPT ![p] = n]
           IN  /\ IsFiniteSet(Pairs(g))
               /\ Cardinality(Pairs(g)) = Cardinality(Pairs(f)) - f[p] + n
<1> DEFINE g == [f EXCEPT ![p] = n]
           A == {p} \X (1..f[p])
           B == {p} \X (1..n)
           R == Pairs(f) \ A
<1>1. IsFiniteSet(A) /\ Cardinality(A) = f[p] /\ IsFiniteSet(B) /\ Cardinality(B) = n /\ f[p] \in Nat
  BY PairsOfOne
<1>2. Pairs(f) \cap A = A
  BY DEF Pairs
<1>3. Pairs(g) = R \cup B
  <2>1. ASSUME NEW x \in Pairs(g) PROVE x \in R \cup B
    BY DEF Pairs
  <2>2. ASSUME NEW x \in R \cup B PROVE x \in Pairs(g)
    BY DEF Pairs
  <2> QED
    BY <2>1, <2>2
<1>4. R \cap B = {}
  BY DEF Pairs
<1> HIDE DEF A, B, R, g
<1>5. IsFiniteSet(R) /\ Cardinality(R) = Cardinality(Pairs(f)) - Cardinality(A)
  BY <1>2, FS_Difference DEF R
<1>6. IsFiniteSet(R \cup B) /\ Cardinality(R \cup B) = Cardinality(R) + Cardinality(B) - Cardinality(R \cap B)
  BY <1>1, <1>5, FS_Union
<1>7. Cardinality(R \cap B) = 0
  BY <1>4, FS_EmptySet
<1>8. Cardinality(Pairs(f)) \in Nat
  BY FS_CardinalityType
<1>9. IsFiniteSet(Pairs(g)) /\ Cardinality(Pairs(g)) = Cardinality(Pairs(f)) - f[p] + n
  BY <1>1, <1>3, <1>5, <1>6, <1>7, <1>8
<1> QED
  BY <1>9 DEF g

(* The same of the payloads: what one of them counts becomes n.            *)
LEMMA OnePayloadChanges ==
    ASSUME IInv, IsFiniteSet(UnderWay), NEW p \in Payloads, NEW n \in Nat,
           SeenBy' = [SeenBy EXCEPT ![p] = n]
    PROVE  /\ IsFiniteSet(UnderWay')
           /\ Cardinality(UnderWay') = Cardinality(UnderWay) - payload[p].seen + n
<1>1. SeenBy \in [Payloads -> Nat] /\ SeenBy[p] = payload[p].seen
  BY DEF IInv, TypeOK, SeenBy
<1>2. UnderWay = Pairs(SeenBy)
  BY DEF UnderWay, Pairs, SeenBy
<1>3. UnderWay' = Pairs(SeenBy')
  BY DEF UnderWay, Pairs, SeenBy
<1> QED
  BY <1>1, <1>2, <1>3, OneCountChanges

(* A payload that ends counts nothing any more.                            *)
LEMMA PayloadEndsTally ==
    ASSUME IInv, IsFiniteSet(UnderWay), NEW p \in Payloads, payload' = [payload EXCEPT ![p] = Free]
    PROVE  /\ IsFiniteSet(UnderWay')
           /\ Cardinality(UnderWay') = Cardinality(UnderWay) - payload[p].seen
           /\ \A q \in Payloads : payload'[q] = IF q = p THEN Free ELSE payload[q]
<1>1. \A q \in Payloads : payload'[q] = IF q = p THEN Free ELSE payload[q]
  BY DEF IInv, TypeOK
<1>2. SeenBy' = [SeenBy EXCEPT ![p] = 0]
  <2>1. \A q \in Payloads : payload'[q].seen = IF q = p THEN 0 ELSE payload[q].seen
    BY <1>1 DEF Free
  <2> QED
    BY <2>1 DEF SeenBy
<1>3. Cardinality(UnderWay) \in Nat /\ payload[p].seen \in Nat
  BY FS_CardinalityType DEF IInv, TypeOK
<1>4. IsFiniteSet(UnderWay') /\ Cardinality(UnderWay') = Cardinality(UnderWay) - payload[p].seen + 0
  BY <1>2, OnePayloadChanges
<1> QED
  BY <1>1, <1>3, <1>4

(* A harvest moves the count into payloads; Split forgets what sampling    *)
(* left out, and an empty collection is not sent.                          *)
LEMMA HarvestTally ==
    ASSUME IInv, Tally, Harvest
    PROVE  Tally'
<1>1. /\ pending = {} /\ total = 0 /\ events' = {} /\ seen' = 0
      /\ UNCHANGED <<pending, total, observed, told>>
  BY DEF Harvest, merge, Idle
<1>2. /\ told \in Nat /\ gone \in Int /\ seen \in Nat /\ Cardinality(events) \in Nat
      /\ events \in SUBSET Events /\ Cardinality(UnderWay) \in Nat /\ fails \in 0..Limit
  BY Counting, FS_CardinalityType DEF IInv, TypeOK, Tally
<1>3. told + gone + seen + Cardinality(UnderWay) = Cardinality(observed)
  BY <1>1 DEF Tally
<1>4. CASE events = {} /\ gone' = gone + seen /\ UNCHANGED payload
  <2>1. UnderWay' = UnderWay
    BY <1>4 DEF UnderWay
  <2>2. told' + gone' + seen' + Cardinality(UnderWay') = Cardinality(observed')
    BY <1>1, <1>2, <1>3, <1>4, <2>1
  <2> QED
    BY <1>1, <1>4, <2>1, <2>2 DEF Tally
<1>5. CASE events # {} /\ HarvestWhole /\ UNCHANGED gone
  <2>1. PICK p \in Payloads \ InUse :
            payload' = [payload EXCEPT ![p] = Collection(events, seen, fails)]
    BY <1>5 DEF HarvestWhole
  <2>2. payload[p].seen = 0
    BY <2>1 DEF InUse, Tally
  <2>3. \A q \in Payloads : payload'[q] = IF q = p THEN Collection(events, seen, fails) ELSE payload[q]
    BY <2>1 DEF IInv, TypeOK
  <2>4. SeenBy' = [SeenBy EXCEPT ![p] = seen]
    <3>1. \A q \in Payloads : payload'[q].seen = IF q = p THEN seen ELSE payload[q].seen
      BY <2>3 DEF Collection
    <3> QED
      BY <3>1 DEF SeenBy
  <2>5. /\ IsFiniteSet(UnderWay')
        /\ Cardinality(UnderWay') = Cardinality(UnderWay) - payload[p].seen + seen
    BY <1>2, <2>1, <2>4, OnePayloadChanges DEF Tally
  <2>6. told' + gone' + seen' + Cardinality(UnderWay') = Cardinality(observed')
    BY <1>1, <1>2, <1>3, <1>5, <2>2, <2>5
  <2>7. \A q \in Payloads : /\ payload'[q].seen = 0 => payload'[q].events = {}
                            /\ payload'[q].state = "none" => payload'[q].seen = 0
    BY <2>3 DEF Tally, Collection
  <2> QED
    BY <1>1, <2>5, <2>6, <2>7 DEF Tally
<1>6. CASE HarvestHalves /\ gone' = gone + (seen - Cardinality(events))
  <2>1. PICK p \in Payloads \ InUse, q \in Payloads \ InUse, h \in Halves(events) :
            /\ p # q
            /\ payload' = [payload EXCEPT
                  ![p] = Collection(h[1], Cardinality(h[1]), fails),
                  ![q] = Collection(h[2], Cardinality(h[2]), fails)]
    BY <1>6 DEF HarvestHalves
  <2>2. h[1] \in SUBSET events /\ h[2] = events \ h[1]
    BY DEF Halves
  <2> DEFINE m == Cardinality(h[1])
             n == Cardinality(h[2])
  <2>3. m \in Nat /\ n \in Nat /\ m + n = Cardinality(events)
    <3>1. IsFiniteSet(events) /\ IsFiniteSet(h[1]) /\ m \in Nat /\ n \in Nat
      BY <1>2, <2>2, Counting
    <3>2. Cardinality(events \ h[1]) = Cardinality(events) - Cardinality(events \cap h[1])
      BY <3>1, FS_Difference
    <3>3. events \cap h[1] = h[1]
      BY <2>2
    <3>4. n = Cardinality(events) - m
      BY <2>2, <3>2, <3>3
    <3> HIDE DEF m, n
    <3> QED
      BY <1>2, <3>1, <3>4
  <2>4. (m = 0 => h[1] = {}) /\ (n = 0 => h[2] = {})
    BY <1>2, <2>2, Counting
  <2> HIDE DEF m, n
  <2>5. \A r \in Payloads : payload'[r] = IF r = q THEN Collection(h[2], n, fails)
                              ELSE IF r = p THEN Collection(h[1], m, fails) ELSE payload[r]
    BY <2>1 DEF IInv, TypeOK, m, n
  <2>6. payload[p].seen = 0 /\ payload[q].seen = 0
    BY DEF InUse, Tally
  <2> DEFINE f == [SeenBy EXCEPT ![p] = m]
             g == [f EXCEPT ![q] = n]
  <2>7. /\ SeenBy \in [Payloads -> Nat] /\ SeenBy[p] = 0 /\ f \in [Payloads -> Nat] /\ f[q] = 0
    BY <2>1, <2>3, <2>6 DEF SeenBy, IInv, TypeOK
  <2>8. SeenBy' = g
    <3>1. \A r \in Payloads : payload'[r].seen = IF r = q THEN n
                                 ELSE IF r = p THEN m ELSE payload[r].seen
      BY <2>5 DEF Collection
    <3> QED
      BY <2>1, <3>1 DEF SeenBy
  <2>9. UnderWay = Pairs(SeenBy) /\ UnderWay' = Pairs(SeenBy')
    BY DEF UnderWay, Pairs, SeenBy
  <2>10. IsFiniteSet(Pairs(f)) /\ Cardinality(Pairs(f)) = Cardinality(Pairs(SeenBy)) - 0 + m
    <3>1. IsFiniteSet(Pairs(SeenBy))
      BY <2>9 DEF Tally
    <3>2. IsFiniteSet(Pairs(f)) /\ Cardinality(Pairs(f)) = Cardinality(Pairs(SeenBy)) - SeenBy[p] + m
      BY <2>3, <2>7, <3>1, OneCountChanges
    <3> QED
      BY <2>7, <3>2
  <2> HIDE DEF f
  <2>11. IsFiniteSet(Pairs(g)) /\ Cardinality(Pairs(g)) = Cardinality(Pairs(f)) - 0 + n
    <3>1. IsFiniteSet(Pairs(g)) /\ Cardinality(Pairs(g)) = Cardinality(Pairs(f)) - f[q] + n
      BY <2>3, <2>7, <2>10, OneCountChanges
    <3> QED
      BY <2>7, <3>1
  <2>12. IsFiniteSet(UnderWay') /\ Cardinality(UnderWay') = Cardinality(UnderWay) + m + n
    BY <1>2, <2>3, <2>8, <2>9, <2>10, <2>11
  <2>13. told' + gone' + seen' + Cardinality(UnderWay') = Cardinality(observed')
    BY <1>1, <1>2, <1>3, <1>6, <2>3, <2>12
  <2>14. \A r \in Payloads : /\ payload'[r].seen = 0 => payload'[r].events = {}
                             /\ payload'[r].state = "none" => payload'[r].seen = 0
    BY <2>4, <2>5 DEF Tally, Collection
  <2> QED
    BY <1>1, <2>12, <2>13, <2>14 DEF Tally
<1> QED
  BY <1>4, <1>5, <1>6 DEF Harvest

(* What the collector is told adds up with what is here, what is under way *)
(* and what was given up to the events that occurred, for any capacity and *)
(* any order of answers, merges and harvests (AddEvent, MergeFailed,       *)
(* Split).                                                                 *)
THEOREM CountsAddUp == Spec => []SeenAddsUp
<1>1. Init => Tally
  <2> SUFFICES ASSUME Init PROVE Tally
    OBVIOUS
  <2>1. \A p \in Payloads : payload[p] = Free
    BY DEF Init
  <2>2. UnderWay = {}
    BY <2>1 DEF UnderWay, Free
  <2>3. IsFiniteSet(UnderWay) /\ Cardinality(UnderWay) = 0 /\ Cardinality({}) = 0
    BY <2>2, FS_EmptySet
  <2> QED
    BY <2>1, <2>3 DEF Init, Tally, Free
<1>2. IInv /\ Tally /\ [Next]_vars => Tally'
  <2> SUFFICES ASSUME IInv, Tally, [Next]_vars PROVE Tally'
    OBVIOUS
  <2>1. /\ told \in Nat /\ gone \in Int /\ seen \in Nat /\ total \in Nat
        /\ events \in SUBSET Events /\ observed \in SUBSET Events
        /\ Cardinality(UnderWay) \in Nat /\ IsFiniteSet(UnderWay)
        /\ \A p \in Payloads : payload[p].seen \in Nat
    BY FS_CardinalityType DEF IInv, TypeOK, Tally
  <2>2. ASSUME NEW e \in Events, EventOccurs(e) PROVE Tally'
    <3>1. /\ pending = {} /\ total = 0 /\ e \notin observed /\ observed' = observed \cup {e}
          /\ seen' = seen + 1 /\ UNCHANGED <<payload, pending, total, told, gone>>
      BY <2>2 DEF EventOccurs, Idle, merge
    <3>2. Cardinality(observed') = Cardinality(observed) + 1
      BY <2>1, <3>1, Counting
    <3>3. UnderWay' = UnderWay
      BY <3>1 DEF UnderWay
    <3>4. told' + gone' + seen' + Cardinality(UnderWay') = Cardinality(observed')
      BY <2>1, <3>1, <3>2, <3>3 DEF Tally
    <3> QED
      BY <2>1, <3>1, <3>3, <3>4 DEF Tally
  <2>3. ASSUME NEW e \in Events, MergeEvent(e) PROVE Tally'
    <3>1. /\ e \in pending /\ seen' = seen + 1 /\ pending' = pending \ {e}
          /\ UNCHANGED <<payload, total, observed, told, gone>>
      BY <2>3 DEF MergeEvent
    <3>2. total # 0 /\ UnderWay' = UnderWay /\ seen' # 0
      BY <2>1, <3>1 DEF UnderWay, Tally
    <3> QED
      BY <3>1, <3>2 DEF Tally
  <2>4. CASE Harvest
    BY <2>4, HarvestTally
  <2>5. ASSUME NEW p \in Payloads, PayloadSent(p) PROVE Tally'
    <3>1. /\ payload' = [payload EXCEPT ![p] = Free] /\ told' = told + payload[p].seen
          /\ UNCHANGED <<events, seen, pending, total, observed, gone>>
      BY <2>5 DEF PayloadSent, live, merge
    <3>2. /\ IsFiniteSet(UnderWay') /\ Cardinality(UnderWay') = Cardinality(UnderWay) - payload[p].seen
          /\ \A q \in Payloads : payload'[q] = IF q = p THEN Free ELSE payload[q]
      BY <2>1, <3>1, PayloadEndsTally
    <3>3. told' + gone' + (IF total' = 0 THEN seen' ELSE total') + Cardinality(UnderWay')
            = Cardinality(observed')
      BY <2>1, <3>1, <3>2 DEF Tally
    <3> QED
      BY <3>1, <3>2, <3>3 DEF Tally, Free
  <2>6. ASSUME NEW p \in Payloads, PayloadFails(p) PROVE Tally'
    <3>1. /\ payload' = [payload EXCEPT ![p].state = "failed"] /\ payload[p].state = "send"
          /\ UNCHANGED <<events, seen, pending, total, observed, told, gone>>
      BY <2>6 DEF PayloadFails, live, merge
    <3>2. \A q \in Payloads : /\ payload'[q].seen = payload[q].seen
                              /\ payload'[q].events = payload[q].events
                              /\ payload'[q].state = "none" => payload[q].state = "none"
      BY <3>1 DEF IInv, TypeOK
    <3>3. UnderWay' = UnderWay
      BY <3>2 DEF UnderWay
    <3> QED
      BY <3>1, <3>2, <3>3 DEF Tally
  <2>7. ASSUME NEW p \in Payloads, Discard(p) PROVE Tally'
    <3>1. /\ payload' = [payload EXCEPT ![p] = Free] /\ gone' = gone + payload[p].seen
          /\ UNCHANGED <<events, seen, pending, total, observed, told>>
      BY <2>7 DEF Discard, live, merge
    <3>2. /\ IsFiniteSet(UnderWay') /\ Cardinality(UnderWay') = Cardinality(UnderWay) - payload[p].seen
          /\ \A q \in Payloads : payload'[q] = IF q = p THEN Free ELSE payload[q]
      BY <2>1, <3>1, PayloadEndsTally
    <3>3. told' + gone' + (IF total' = 0 THEN seen' ELSE total') + Cardinality(UnderWay')
            = Cardinality(observed')
      BY <2>1, <3>1, <3>2 DEF Tally
    <3> QED
      BY <3>1, <3>2, <3>3 DEF Tally, Free
  <2>8. ASSUME NEW p \in Payloads, MergeFailed(p) PROVE Tally'
    <3>1. /\ payload' = [payload EXCEPT ![p] = Free] /\ total = 0
          /\ pending' = payload[p].events /\ total' = seen + payload[p].seen
          /\ UNCHANGED <<events, seen, observed, told, gone>>
      BY <2>8 DEF MergeFailed, Idle, rest
    <3>2. /\ IsFiniteSet(UnderWay') /\ Cardinality(UnderWay') = Cardinality(UnderWay) - payload[p].seen
          /\ \A q \in Payloads : payload'[q] = IF q = p THEN Free ELSE payload[q]
      BY <2>1, <3>1, PayloadEndsTally
    <3>3. told' + gone' + (IF total' = 0 THEN seen' ELSE total') + Cardinality(UnderWay')
            = Cardinality(observed')
      BY <2>1, <3>1, <3>2 DEF Tally
    <3>4. total' = 0 => pending' = {}
      <4>1. seen \in Nat /\ payload[p].seen \in Nat
        BY <2>1
      <4>2. total' = 0 => payload[p].seen = 0
        BY <3>1, <4>1
      <4> QED
        BY <3>1, <4>2 DEF Tally
    <3> QED
      BY <3>1, <3>2, <3>3, <3>4 DEF Tally, Free
  <2>9. CASE MergeDone
    <3>1. /\ pending = {} /\ total # 0 /\ seen' = total /\ total' = 0
          /\ UNCHANGED <<events, payload, pending, observed, told, gone>>
      BY <2>9 DEF MergeDone, rest
    <3>2. UnderWay' = UnderWay
      BY <3>1 DEF UnderWay
    <3> QED
      BY <3>1, <3>2 DEF Tally
  <2>10. CASE UNCHANGED vars
    BY <2>10 DEF vars, Tally, UnderWay
  <2> QED
    BY <2>2, <2>3, <2>4, <2>5, <2>6, <2>7, <2>8, <2>9, <2>10 DEF Next
<1>3. Tally => SeenAddsUp
  BY DEF Tally, SeenAddsUp, Idle
<1> QED
  BY <1>1, <1>2, <1>3, ReservoirInvariant, PTL DEF Spec
=============================================================================
