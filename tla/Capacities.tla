------------------------------ MODULE Capacities ------------------------------
(***************************************************************************)
(* Capacities in the model store (pkg/model/structure_capacity.go): "at    *)
(* most one Capacity per (context reference, capacity resource type        *)
(* reference, category) tuple" (docs/adr/capacity-resources.md), which an  *)
(* index by tuple is to ensure.                                            *)
(*                                                                         *)
(* A Capacity is the only resource the model refuses when what it refers   *)
(* to is not there.  AddCapacity looks that up before it takes the mutex   *)
(* to check the tuple, and sends the event after it has released it.  The  *)
(* resource types, the Contexts and the event manager's latest state are   *)
(* modelled as far as Capacities depend on them: no filter of the chain    *)
(* looks at Capacities, and the findings the filters make of Contexts are  *)
(* not about them.                                                         *)
(*                                                                         *)
(* The maps are total functions to None, Go's "no entry in the map".       *)
(***************************************************************************)
EXTENDS Integers, Sequences, SequencesExt

CONSTANTS
  Goroutine,     (* that use the model                                     *)
  CapacityId,
  Context,
  ResourceType,  (* CapacityResourceTypes                                  *)
  Category,
  None,
  MaxOps         (* bound: calls of the model's operations                 *)

Reference == Context \cup ResourceType

(* capacityTupleKey.  Two objects with an id and a tuple differ in their   *)
(* amount and names only.                                                  *)
Tuple == Context \X ResourceType \X Category

Refs(tuple) == {tuple[1], tuple[2]}

(* The payload of a Context or a resource type, which does not matter.     *)
Plain == "plain"

ASSUME CapacitiesAssumption ==
  /\ CapacityId \cap Reference = {}
  /\ None \notin CapacityId \cup Tuple \cup Reference \cup {Plain}
  /\ MaxOps \in Nat

(* The event manager's latest state of these resources.                    *)
L == INSTANCE LatestState WITH
       Key <- Reference \cup CapacityId, Value <- Tuple \cup {Plain}, Absent <- None

VARIABLES
  model,         (* the maps of the model store, see Models                *)
  latest,        (* the event manager's latest-state store                 *)
  calls,         (* what each goroutine is doing                           *)
  ops,           (* calls so far                                           *)
  orderly        (* history: calls came one after the other, no reference  *)
                 (* was deleted, and no Capacity got another tuple         *)

vars == << model, latest, calls, ops, orderly >>

(* contextsByUUID and capacityResourceTypesByUUID, capacitiesByUUID, and   *)
(* capacitiesByTuple.                                                      *)
Models ==
  [present : SUBSET Reference,
   byId    : [CapacityId -> Tuple \cup {None}],
   byTuple : [Tuple -> CapacityId \cup {None}]]

EmptyModel ==
  [present |-> {},
   byId    |-> [id \in CapacityId |-> None],
   byTuple |-> [t \in Tuple |-> None]]

NoCall == [do |-> "idle"]

Call ==
  {NoCall}
    \cup [do : {"findType", "findContext", "put"}, id : CapacityId, tuple : Tuple]
    \cup [do : {"record"}, ev : L!Event]

Idle(g) == calls[g] = NoCall

Init ==
  /\ model = EmptyModel
  /\ latest = L!EmptyLatest
  /\ calls = [g \in Goroutine |-> NoCall]
  /\ ops = 0
  /\ orderly = TRUE

-----------------------------------------------------------------------------
(***************************************************************************)
(* The locked sections, as functions of the model.                         *)
(***************************************************************************)
(* Another Capacity has the tuple.                                         *)
Conflicts(m, id, tuple) == m.byTuple[tuple] \notin {None, id}

(* Seeded fault: the tuple a Capacity had stays in the index.              *)
FreedNever(m, id, tuple) == m.byTuple

(* The index without the tuple the Capacity had, if it gets another.       *)
Freed(m, id, tuple) ==
  [t \in Tuple |-> IF t = m.byId[id] /\ t # tuple THEN None ELSE m.byTuple[t]]

Put(m, id, tuple) ==
  [present |-> m.present,
   byId    |-> [m.byId EXCEPT ![id] = tuple],
   byTuple |-> [Freed(m, id, tuple) EXCEPT ![tuple] = id]]

Dropped(m, id) ==
  [present |-> m.present,
   byId    |-> [m.byId EXCEPT ![id] = None],
   byTuple |-> [t \in Tuple |-> IF t = m.byId[id] THEN None ELSE m.byTuple[t]]]

Upserted(key, val, existed) ==
  [op |-> IF existed THEN "Update" ELSE "Create", key |-> key, val |-> val]

Deleted(key) == [op |-> "Delete", key |-> key, val |-> None]

-----------------------------------------------------------------------------
(***************************************************************************)
(* The operations.                                                         *)
(***************************************************************************)
Begin(g, call) ==
  /\ Idle(g)
  /\ ops < MaxOps
  /\ ops' = ops + 1
  /\ calls' = [calls EXCEPT ![g] = call]

Goto(g, call) ==
  /\ calls' = [calls EXCEPT ![g] = call]
  /\ UNCHANGED ops

Alone(g) == \A h \in Goroutine \ {g} : Idle(h)

(* AddContext and AddCapacityResourceType.                                 *)
AddReference(g, r) ==
  /\ Begin(g, [do |-> "record", ev |-> Upserted(r, Plain, r \in model.present)])
  /\ model' = [model EXCEPT !.present = @ \cup {r}]
  /\ orderly' = (orderly /\ Alone(g))
  /\ UNCHANGED latest

(* Nothing asks whether a Capacity refers to it.                           *)
DeleteReference(g, r) ==
  /\ r \in model.present
  /\ Begin(g, [do |-> "record", ev |-> Deleted(r)])
  /\ model' = [model EXCEPT !.present = @ \ {r}]
  /\ orderly' = FALSE
  /\ UNCHANGED latest

AddCapacity(g, id, tuple) ==
  /\ Begin(g, [do |-> "findType", id |-> id, tuple |-> tuple])
  /\ orderly' = (orderly /\ Alone(g))
  /\ UNCHANGED << model, latest >>

DeleteCapacity(g, id) ==
  /\ model.byId[id] # None
  /\ Begin(g, [do |-> "record", ev |-> Deleted(id)])
  /\ model' = Dropped(model, id)
  /\ orderly' = (orderly /\ Alone(g))
  /\ UNCHANGED latest

(* validateCapacity: the two look-ups, each under the mutex.               *)
FindType(g) ==
  /\ calls[g].do = "findType"
  /\ Goto(g, IF calls[g].tuple[2] \in model.present
             THEN [calls[g] EXCEPT !.do = "findContext"] ELSE NoCall)
  /\ UNCHANGED << model, latest, orderly >>

FindContext(g) ==
  /\ calls[g].do = "findContext"
  /\ Goto(g, IF calls[g].tuple[1] \in model.present
             THEN [calls[g] EXCEPT !.do = "put"] ELSE NoCall)
  /\ UNCHANGED << model, latest, orderly >>

(* The locked section of AddCapacity: ErrCapacityTupleConflict, ...        *)
Refuse(g) ==
  /\ calls[g].do = "put"
  /\ Conflicts(model, calls[g].id, calls[g].tuple)
  /\ Goto(g, NoCall)
  /\ UNCHANGED << model, latest, orderly >>

(* ... or the Capacity is registered, or replaces the one with its id.     *)
Register(g) ==
  /\ calls[g].do = "put"
  /\ LET id  == calls[g].id
         old == model.byId[id]
     IN  /\ ~ Conflicts(model, id, calls[g].tuple)
         /\ model' = Put(model, id, calls[g].tuple)
         /\ Goto(g, [do |-> "record", ev |-> Upserted(id, calls[g].tuple, old # None)])
         /\ orderly' = (orderly /\ old \in {None, calls[g].tuple})
  /\ UNCHANGED latest

(* The event reaches the recording sink.                                   *)
Record(g) ==
  /\ calls[g].do = "record"
  /\ latest' = L!Receive(latest, calls[g].ev)
  /\ Goto(g, NoCall)
  /\ UNCHANGED << model, orderly >>

Next ==
  \E g \in Goroutine :
    \/ \E r \in Reference : AddReference(g, r) \/ DeleteReference(g, r)
    \/ \E id \in CapacityId, tuple \in Tuple : AddCapacity(g, id, tuple)
    \/ \E id \in CapacityId : DeleteCapacity(g, id)
    \/ FindType(g) \/ FindContext(g) \/ Refuse(g) \/ Register(g)
    \/ Record(g)

Spec == Init /\ [][Next]_vars

-----------------------------------------------------------------------------
(***************************************************************************)
(* A subscriber that is sent the latest state: modelData.Apply with each   *)
(* event of it.  An event that is refused is answered with an error, and   *)
(* deliverSnapshot goes no further.                                        *)
(***************************************************************************)
Accepts(m, ev) ==
  ev.key \in CapacityId => Refs(ev.val) \subseteq m.present /\ ~ Conflicts(m, ev.key, ev.val)

Applied(m, ev) ==
  IF ev.key \in CapacityId THEN Put(m, ev.key, ev.val)
                           ELSE [m EXCEPT !.present = @ \cup {ev.key}]

ApplyListed(sub, ev) ==
  IF sub.refused \/ ~ Accepts(sub.model, ev)
  THEN [sub EXCEPT !.refused = TRUE]
  ELSE [sub EXCEPT !.model = Applied(@, ev)]

NewSubscriber == [model |-> EmptyModel, refused |-> FALSE]

(* A new subscriber after the listing.                                     *)
Listed ==
  LET listing == L!GetEvents(latest)
      listed[n \in 0 .. Len(listing)] ==
        IF n = 0 THEN NewSubscriber ELSE ApplyListed(listed[n - 1], listing[n])
  IN  listed[Len(listing)]

Quiescent == \A g \in Goroutine : Idle(g)

(***************************************************************************)
(* The type invariant.                                                     *)
(***************************************************************************)
CapacitiesTypeOK ==
  /\ model \in Models
  /\ calls \in [Goroutine -> Call]
  /\ ops \in 0 .. MaxOps
  /\ orderly \in BOOLEAN
  /\ DOMAIN latest.state = Reference \cup CapacityId

(***************************************************************************)
(* The index has exactly the tuples of the registered Capacities, whatever *)
(* they were before: no two Capacities have one tuple, and no tuple is     *)
(* blocked by a Capacity that does not have it any more.                   *)
(***************************************************************************)
TupleIndexExact ==
  \A id \in CapacityId, t \in Tuple : model.byId[id] = t <=> model.byTuple[t] = id

(***************************************************************************)
(* The decision table of docs/adr/capacity-resources.md, said of the       *)
(* registered Capacities instead of the index: a Capacity is refused only  *)
(* if another one has the tuple, and registered only if none has.          *)
(***************************************************************************)
HasTuple(id, tuple) == model.byId[id] = tuple

TupleKeyedUpsert ==
  [][\A g \in Goroutine :
       LET taken == \E id \in CapacityId \ {calls[g].id} : HasTuple(id, calls[g].tuple)
       IN  (Refuse(g) => taken) /\ (Register(g) => ~ taken)]_vars

(***************************************************************************)
(* A new subscriber accepts the whole listing and then has the model, as   *)
(* long as nothing happened that the order of the listing, "oldest-        *)
(* creation-first", does not account for: it refers to nothing that comes  *)
(* later.                                                                  *)
(***************************************************************************)
OrderlyListingAccepted ==
  Quiescent /\ orderly => ~ Listed.refused /\ Listed.model = model

(***************************************************************************)
(* Any subscriber that is sent the latest state accepts all of it: a       *)
(* resync "converges the subscriber on current state"                      *)
(* (internal/events/notify.go), and Capacities "participate in cross-node  *)
(* event apply" (docs/adr/capacity-resources.md).                          *)
(***************************************************************************)
ListingAccepted == Quiescent => ~ Listed.refused

=============================================================================
