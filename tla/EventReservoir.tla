---------------------------- MODULE EventReservoir ----------------------------
(***************************************************************************)
(* The bounded collection of one kind of events of one agent run           *)
(* (analytics_events.go), through its harvests: events are added with      *)
(* priority sampling, a harvest puts a new collection in the place of the  *)
(* old one and sends that as one payload or two, and a payload that failed *)
(* is merged into the collection of the moment, until it has failed too    *)
(* often.                                                                  *)
(*                                                                         *)
(* The processor does all of this on its goroutine; the loop of a merge    *)
(* is a step for each event, so that which event is met first is left      *)
(* open.  Payloads are answered at any time and in any order.              *)
(***************************************************************************)
EXTENDS Integers, FiniteSets

CONSTANTS
    Events,       \* the events that occur
    Priority,     \* the sampling priority of each
    Cap,          \* the capacity of a collection
    Limit,        \* limits.FailedEventsAttemptsLimit
    Payloads,     \* names for the payloads that are under way
    SplitAt       \* limits.MaxTxnEvents / 2

ASSUME EventAssumption == IsFiniteSet(Events) /\ Priority \in [Events -> Nat]
ASSUME BoundAssumption == Cap \in Nat /\ Limit \in Nat /\ SplitAt \in Nat \ {0, 1}

VARIABLES
    events, seen, fails,   \* the live collection: its heap, numSeen, failedHarvests
    payload,               \* the collections that have been handed over
    pending, total,        \* during a merge: the events to come, and allSeen
    split,                 \* args.splitLargePayloads, for transaction events only
    \* history
    observed,   \* every event that has occurred
    out,        \* events this collection has sampled out
    arrived,    \* how often each event has been stored by the collector
    told,       \* the sum of the events_seen the collector has been told
    gone,       \* the same of what was discarded, and of what Split forgets
    tries,      \* how often each event was part of a payload that failed
    prompt      \* every payload has been answered before the next harvest

live == <<events, seen, fails>>
merge == <<pending, total>>
rest == <<observed, out, arrived, told, gone, tries, prompt, split>>
vars == <<events, seen, fails, payload, pending, total,
          observed, out, arrived, told, gone, tries, prompt, split>>

Free == [state |-> "none", events |-> {}, seen |-> 0, fails |-> 0]

TypeOK ==
    /\ events \in SUBSET Events /\ Cardinality(events) <= Cap
    /\ seen \in Nat /\ fails \in 0..Limit
    /\ payload \in [Payloads -> [state : {"none", "send", "failed"}, events : SUBSET Events,
                                 seen : Nat, fails : 0..Limit]]
    /\ pending \in SUBSET Events /\ total \in Nat
    /\ observed \in SUBSET Events /\ out \in SUBSET Events
    /\ arrived \in [Events -> Nat] /\ tries \in [Events -> Nat]
    /\ told \in Nat /\ gone \in Int /\ prompt \in BOOLEAN
    /\ split \in BOOLEAN

(* newAnalyticsEvents                                                      *)
Init ==
    /\ events = {} /\ seen = 0 /\ fails = 0
    /\ payload = [p \in Payloads |-> Free]
    /\ pending = {} /\ total = 0
    /\ observed = {} /\ out = {}
    /\ arrived = [e \in Events |-> 0]
    /\ told = 0 /\ gone = 0
    /\ tries = [e \in Events |-> 0]
    /\ prompt = TRUE
    /\ split \in BOOLEAN

Idle == pending = {} /\ total = 0
InUse == {p \in Payloads : payload[p].state # "none"}

-----------------------------------------------------------------------------
(* The events a heap may have at its root.                                 *)
Lowest == {x \in events : \A y \in events : Priority[x] <= Priority[y]}

(* Mutant: the comparison is the wrong way round.                          *)
IsLowerPriorityNot(e, x) == Priority[x] < Priority[e]

IsLowerPriority(e, x) == Priority[e] < Priority[x]

(* AddEvent: while there is room the event is added; then it takes the     *)
(* place of one that has the lowest priority, unless its own is lower.     *)
AddEvent(e) ==
    \/ /\ Cardinality(events) < Cap
       /\ events' = events \cup {e}
       /\ UNCHANGED out
    \/ /\ Cardinality(events) >= Cap
       /\ Cap = 0 \/ \E x \in Lowest : IsLowerPriority(e, x)
       /\ out' = out \cup {e}
       /\ UNCHANGED events
    \/ /\ Cardinality(events) >= Cap
       /\ \E x \in Lowest :
            /\ ~IsLowerPriority(e, x)
            /\ events' = (events \ {x}) \cup {e}
            /\ out' = out \cup {x}

(* An event occurs: processTxnData, by way of AddEventFromData and others. *)
EventOccurs(e) ==
    /\ Idle
    /\ e \notin observed
    /\ observed' = observed \cup {e}
    /\ AddEvent(e)
    /\ seen' = seen + 1
    /\ UNCHANGED <<fails, payload, merge, arrived, told, gone, tries, prompt, split>>

-----------------------------------------------------------------------------
Collection(S, n, f) == [state |-> "send", events |-> S, seen |-> n, fails |-> f]

(* considerHarvestPayload of the collection as it is.                      *)
HarvestWhole ==
    \E p \in Payloads \ InUse :
        payload' = [payload EXCEPT ![p] = Collection(events, seen, fails)]

(* Mutant: the halves of a collection of odd size share an event.          *)
SplitOverlapping(S) ==
    {h \in (SUBSET S) \X (SUBSET S) :
        h[1] \cup h[2] = S /\ Cardinality(h[2]) = Cardinality(S) - Cardinality(S) \div 2
        /\ Cardinality(h[1]) = Cardinality(S) - Cardinality(S) \div 2}

(* Split: two halves, the second one larger if they cannot be equal.       *)
Halves(S) ==
    {h \in (SUBSET S) \X (SUBSET S) :
        h[2] = S \ h[1] /\ Cardinality(h[1]) = Cardinality(S) \div 2}

HarvestHalves ==
    \E p, q \in Payloads \ InUse : \E h \in Halves(events) :
        /\ p # q
        /\ payload' = [payload EXCEPT
                ![p] = Collection(h[1], Cardinality(h[1]), fails),
                ![q] = Collection(h[2], Cardinality(h[2]), fails)]

(* harvestAll or harvestByType: a new collection, and the old one is sent  *)
(* unless it is empty.                                                     *)
Harvest ==
    /\ Idle
    /\ \/ /\ events = {}
          /\ gone' = gone + seen
          /\ UNCHANGED payload
       \/ /\ events # {}
          /\ ~(split /\ Cardinality(events) >= SplitAt)
          /\ HarvestWhole
          /\ UNCHANGED gone
       \/ /\ split /\ Cardinality(events) >= SplitAt
          /\ HarvestHalves
          /\ gone' = gone + (seen - Cardinality(events))
    /\ events' = {} /\ seen' = 0 /\ fails' = 0
    /\ out' = {}
    /\ prompt' = (prompt /\ InUse = {})
    /\ UNCHANGED <<merge, observed, arrived, told, tries, split>>

(* harvestPayload of p: the collector stores it.                           *)
PayloadSent(p) ==
    /\ payload[p].state = "send"
    /\ arrived' = [e \in Events |-> arrived[e] + IF e \in payload[p].events THEN 1 ELSE 0]
    /\ told' = told + payload[p].seen
    /\ payload' = [payload EXCEPT ![p] = Free]
    /\ UNCHANGED <<live, merge, observed, out, gone, tries, prompt, split>>

(* The request fails and the goroutine reports that to the processor.      *)
PayloadFails(p) ==
    /\ payload[p].state = "send"
    /\ payload' = [payload EXCEPT ![p].state = "failed"]
    /\ tries' = [e \in Events |-> IF e \in payload[p].events /\ tries[e] <= Limit + 1
                                  THEN tries[e] + 1 ELSE tries[e]]
    /\ UNCHANGED <<live, merge, observed, out, arrived, told, gone, prompt, split>>

-----------------------------------------------------------------------------
(* processHarvestError with a reply, or for a run, that saves nothing.     *)
Discard(p) ==
    /\ Idle
    /\ payload[p].state = "failed"
    /\ payload' = [payload EXCEPT ![p] = Free]
    /\ gone' = gone + payload[p].seen
    /\ UNCHANGED <<live, merge, observed, out, arrived, told, tries, prompt, split>>

(* Mutant: the count of failed attempts starts again.                      *)
AttemptsForgotten(p) == 1

Attempts(p) == payload[p].fails + 1

(* MergeFailed within the limit on attempts: the merge begins.  Beyond the *)
(* limit nothing is saved either (Discard).                                *)
MergeFailed(p) ==
    /\ Idle
    /\ payload[p].state = "failed"
    /\ Attempts(p) <= Limit
    /\ fails' = Attempts(p)
    /\ pending' = payload[p].events
    /\ total' = seen + payload[p].seen
    /\ payload' = [payload EXCEPT ![p] = Free]
    /\ UNCHANGED <<events, seen, rest>>

(* Merge: the next event of the loop, ...                                  *)
MergeEvent(e) ==
    /\ e \in pending
    /\ pending' = pending \ {e}
    /\ AddEvent(e)
    /\ seen' = seen + 1
    /\ UNCHANGED <<fails, payload, total, observed, arrived, told, gone, tries, prompt, split>>

(* Mutant: the events of a merge are counted as if they were new.          *)
MergeDoneCounted ==
    /\ pending = {} /\ total # 0
    /\ total' = 0
    /\ UNCHANGED <<events, seen, fails, payload, pending, rest>>

(* ... and its end.                                                        *)
MergeDone ==
    /\ pending = {} /\ total # 0
    /\ seen' = total
    /\ total' = 0
    /\ UNCHANGED <<events, fails, payload, pending, rest>>

Next ==
    \/ \E e \in Events : EventOccurs(e) \/ MergeEvent(e)
    \/ Harvest
    \/ \E p \in Payloads : PayloadSent(p) \/ PayloadFails(p) \/ Discard(p) \/ MergeFailed(p)
    \/ MergeDone

Spec == Init /\ [][Next]_vars

-----------------------------------------------------------------------------
(* Whatever comes first, new events or those of failed payloads, and in    *)
(* whatever order: no event was sampled out that has a higher priority     *)
(* than one that was kept.                                                 *)
HighestKept == \A e \in out, x \in events : Priority[e] <= Priority[x]

(* An event is in one place at a time, and it reaches the collector at     *)
(* most once, although payloads are split, fail and are merged in any      *)
(* order.                                                                  *)
OnePlace ==
    /\ \A p \in InUse : payload[p].events \cap (events \cup pending) = {}
    /\ \A p, q \in InUse : p # q => payload[p].events \cap payload[q].events = {}
    /\ events \cap pending = {}
    /\ \A e \in Events : arrived[e] <= 1

(* The events that the payloads under way count, each as the name of its   *)
(* payload and its number there.                                           *)
UnderWay == UNION {{p} \X (1..payload[p].seen) : p \in Payloads}

(* "NumSeen returns the total number of analytics events observed": what   *)
(* the collector is told adds up, with what is still here, what was        *)
(* discarded and what Split forgets, to the events that occurred; a merge  *)
(* adds none.                                                              *)
SeenAddsUp ==
    Idle => told + gone + seen + Cardinality(UnderWay) = Cardinality(observed)

(* No event is kept that has been part of more failed attempts than        *)
(* FailedEventsAttemptsLimit allows (MergeFailed).  This is so only while  *)
(* payloads are answered before the next harvest: after that MergeFailed   *)
(* may put a lower count in the place of a higher one.                     *)
AttemptsLimited == prompt => \A e \in events \cup pending : tries[e] <= Limit
=============================================================================
