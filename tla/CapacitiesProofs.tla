--------------------------- MODULE CapacitiesProofs ---------------------------
(***************************************************************************)
(* What Capacities keeps for any goroutines, Capacities and tuples.        *)
(***************************************************************************)
EXTENDS Capacities, TLAPS

(* The lemmas about the latest-state store, for this one.                  *)
SL == INSTANCE StoreLemmas WITH
        Key <- Reference \cup CapacityId, Value <- Tuple \cup {Plain}, Absent <- None

(* The two maps of a model agree, as TupleIndexExact says of the variable. *)
Agree(m) == \A id \in CapacityId, t \in Tuple : m.byId[id] = t <=> m.byTuple[t] = id

(* Registering a Capacity whose tuple no other one has keeps the maps in   *)
(* agreement, whatever tuple it had before (the locked part of             *)
(* AddCapacity).                                                           *)
LEMMA PutAgrees ==
  ASSUME NEW m \in Models, Agree(m), NEW id \in CapacityId, NEW tuple \in Tuple,
         ~ Conflicts(m, id, tuple)
  PROVE  Put(m, id, tuple) \in Models /\ Agree(Put(m, id, tuple))
<1> DEFINE n == Put(m, id, tuple)
<1>1. n = [present |-> m.present, byId |-> n.byId, byTuple |-> n.byTuple]
  BY DEF Put
<1>2. n.byId = [m.byId EXCEPT ![id] = tuple]
  BY DEF Put, Models
<1>3. n.byTuple = [t \in Tuple |->
                     IF t = tuple THEN id ELSE IF t = m.byId[id] THEN None ELSE m.byTuple[t]]
  BY DEF Put, Models, Freed
<1>4. n \in Models
  BY <1>1, <1>2, <1>3 DEF Models
<1>5. ASSUME NEW i \in CapacityId, NEW t \in Tuple
      PROVE  n.byId[i] = t <=> n.byTuple[t] = i
  <2>1. None # i /\ None # t
    BY CapacitiesAssumption
  <2>2. m.byId[i] = t <=> m.byTuple[t] = i
    BY DEF Agree
  <2>3. m.byId[id] = t <=> m.byTuple[t] = id
    BY DEF Agree
  <2>4. CASE i = id
    BY <1>2, <1>3, <2>1, <2>2, <2>4 DEF Models
  <2>5. CASE i # id /\ t = tuple
    BY <1>2, <1>3, <2>1, <2>2, <2>5 DEF Models, Conflicts
  <2>6. CASE i # id /\ t # tuple
    BY <1>2, <1>3, <2>1, <2>2, <2>3, <2>6 DEF Models
  <2> QED
    BY <2>4, <2>5, <2>6
<1> QED
  BY <1>4, <1>5 DEF Agree

(* So does deleting one (DeleteCapacityById).                              *)
LEMMA DroppedAgrees ==
  ASSUME NEW m \in Models, Agree(m), NEW id \in CapacityId
  PROVE  Dropped(m, id) \in Models /\ Agree(Dropped(m, id))
<1> DEFINE n == Dropped(m, id)
<1>1. n = [present |-> m.present, byId |-> n.byId, byTuple |-> n.byTuple]
  BY DEF Dropped
<1>2. n.byId = [m.byId EXCEPT ![id] = None]
  BY DEF Dropped, Models
<1>3. n.byTuple = [t \in Tuple |-> IF t = m.byId[id] THEN None ELSE m.byTuple[t]]
  BY DEF Dropped, Models
<1>4. n \in Models
  BY <1>1, <1>2, <1>3 DEF Models
<1>5. ASSUME NEW i \in CapacityId, NEW t \in Tuple
      PROVE  n.byId[i] = t <=> n.byTuple[t] = i
  <2>1. None # i /\ None # t
    BY CapacitiesAssumption
  <2>2. m.byId[i] = t <=> m.byTuple[t] = i
    BY DEF Agree
  <2>3. m.byId[id] = t <=> m.byTuple[t] = id
    BY DEF Agree
  <2> QED
    BY <1>2, <1>3, <2>1, <2>2, <2>3 DEF Models
<1> QED
  BY <1>4, <1>5 DEF Agree

(* The inductive invariant.  The index needs nothing but itself, because   *)
(* the conflict is looked for under the mutex under which the maps are     *)
(* changed; what was validated before does not matter to it.               *)
IInv == CapacitiesTypeOK /\ TupleIndexExact

(* No Capacity, no tuple: the maps agree.                                  *)
LEMMA InitIInv == Init => IInv
<1> SUFFICES ASSUME Init PROVE IInv
  OBVIOUS
<1> USE CapacitiesAssumption DEF Init
<1>1. model \in Models /\ Agree(model)
  BY DEF EmptyModel, Models, Agree
<1>2. CapacitiesTypeOK
  BY <1>1 DEF CapacitiesTypeOK, Call, L!EmptyLatest
<1> QED
  BY <1>1, <1>2 DEF IInv, TupleIndexExact, Agree

(* Every step preserves the invariant.                                     *)
LEMMA NextIInv == IInv /\ [Next]_vars => IInv'
<1> SUFFICES ASSUME IInv, [Next]_vars PROVE IInv'
  OBVIOUS
<1> USE CapacitiesAssumption
<1>0. model \in Models /\ Agree(model) /\ calls \in [Goroutine -> Call]
      /\ ops \in 0 .. MaxOps /\ orderly \in BOOLEAN
      /\ DOMAIN latest.state = Reference \cup CapacityId
  BY DEF IInv, CapacitiesTypeOK, TupleIndexExact, Agree
<1> DEFINE Rest == /\ ops' \in 0 .. MaxOps
                   /\ orderly' \in BOOLEAN
                   /\ DOMAIN latest'.state = Reference \cup CapacityId
                   /\ calls' \in [Goroutine -> Call]
<1> SUFFICES model' \in Models /\ Agree(model)' /\ Rest
  BY DEF IInv, CapacitiesTypeOK, TupleIndexExact, Agree
<1>b. ASSUME NEW g \in Goroutine, NEW c \in Call, Begin(g, c), latest' = latest, orderly' \in BOOLEAN
      PROVE  Rest
  BY <1>0, <1>b DEF Begin
<1>g. ASSUME NEW g \in Goroutine, NEW c \in Call, Goto(g, c)
      PROVE  ops' \in 0 .. MaxOps /\ calls' \in [Goroutine -> Call]
  BY <1>0, <1>g DEF Goto
<1>e. ASSUME NEW key \in Reference \cup CapacityId, NEW val \in Tuple \cup {Plain}, NEW b \in BOOLEAN
      PROVE  /\ [do |-> "record", ev |-> Upserted(key, val, b)] \in Call
             /\ [do |-> "record", ev |-> Deleted(key)] \in Call
  BY DEF Upserted, Deleted, Call, L!Event
<1>1. ASSUME NEW g \in Goroutine, NEW r \in Reference, AddReference(g, r)
      PROVE  model' \in Models /\ Agree(model)' /\ Rest
  <2>1. model' \in Models /\ model'.byId = model.byId /\ model'.byTuple = model.byTuple
    BY <1>0, <1>1 DEF AddReference, Models
  <2>2. orderly' \in BOOLEAN /\ latest' = latest
    BY <1>1, <1>0 DEF AddReference
  <2> DEFINE call == [do |-> "record", ev |-> Upserted(r, Plain, r \in model.present)]
  <2>4. call \in Call
    <3>1. (r \in model.present) \in BOOLEAN
      OBVIOUS
    <3> QED
      BY <1>e, <3>1
  <2>5. Begin(g, call)
    BY <1>1 DEF AddReference
  <2>3. Rest
    BY <1>b, <2>2, <2>4, <2>5
  <2> QED
    BY <1>0, <2>1, <2>3 DEF Agree
<1>2. ASSUME NEW g \in Goroutine, NEW r \in Reference, DeleteReference(g, r)
      PROVE  model' \in Models /\ Agree(model)' /\ Rest
  <2>1. model' \in Models /\ model'.byId = model.byId /\ model'.byTuple = model.byTuple
    BY <1>0, <1>2 DEF DeleteReference, Models
  <2>3. Rest
    BY <1>2, <1>b, <1>e DEF DeleteReference
  <2> QED
    BY <1>0, <2>1, <2>3 DEF Agree
<1>3. ASSUME NEW g \in Goroutine, NEW id \in CapacityId, NEW tuple \in Tuple, AddCapacity(g, id, tuple)
      PROVE  model' \in Models /\ Agree(model)' /\ Rest
  <2>1. [do |-> "findType", id |-> id, tuple |-> tuple] \in Call
    BY DEF Call
  <2>2. orderly' \in BOOLEAN
    BY <1>3, <1>0 DEF AddCapacity
  <2>3. Rest
    BY <1>3, <1>b, <2>1, <2>2 DEF AddCapacity
  <2> QED
    BY <1>0, <1>3, <2>3 DEF AddCapacity, Agree
<1>4. ASSUME NEW g \in Goroutine, NEW id \in CapacityId, DeleteCapacity(g, id)
      PROVE  model' \in Models /\ Agree(model)' /\ Rest
  <2>1. orderly' \in BOOLEAN
    BY <1>4, <1>0 DEF DeleteCapacity
  <2>2. Rest
    BY <1>4, <1>b, <1>e, <2>1 DEF DeleteCapacity
  <2>3. model' = Dropped(model, id)
    BY <1>4 DEF DeleteCapacity
  <2>4. model' \in Models /\ Agree(model')
    BY <1>0, <2>3, DroppedAgrees
  <2> QED
    BY <2>2, <2>4 DEF Agree
<1>c. ASSUME NEW g \in Goroutine, calls[g].do \in {"findType", "findContext", "put"}
      PROVE  /\ calls[g].id \in CapacityId /\ calls[g].tuple \in Tuple
             /\ \A d \in {"findContext", "put"} : [calls[g] EXCEPT !.do = d] \in Call
  BY <1>0, <1>c DEF Call, NoCall
<1>5. ASSUME NEW g \in Goroutine, FindType(g) \/ FindContext(g) \/ Refuse(g)
      PROVE  model' \in Models /\ Agree(model)' /\ Rest
  <2>1. \E c \in Call : Goto(g, c)
    BY <1>5, <1>c DEF FindType, FindContext, Refuse, Call
  <2>2. model' = model /\ latest' = latest /\ orderly' = orderly
    BY <1>5 DEF FindType, FindContext, Refuse
  <2> QED
    BY <1>0, <1>g, <2>1, <2>2 DEF Agree
<1>6. ASSUME NEW g \in Goroutine, Register(g)
      PROVE  model' \in Models /\ Agree(model)' /\ Rest
  <2> DEFINE id == calls[g].id
             tuple == calls[g].tuple
  <2>1. id \in CapacityId /\ tuple \in Tuple
    BY <1>6, <1>c DEF Register
  <2>2. model' = Put(model, id, tuple) /\ ~ Conflicts(model, id, tuple)
    BY <1>6 DEF Register
  <2>3. model' \in Models /\ Agree(model')
    BY <1>0, <2>1, <2>2, PutAgrees
  <2>4. Goto(g, [do |-> "record", ev |-> Upserted(id, tuple, model.byId[id] # None)])
    BY <1>6 DEF Register
  <2>5. orderly' \in BOOLEAN /\ latest' = latest
    BY <1>6, <1>0 DEF Register
  <2>6. [do |-> "record", ev |-> Upserted(id, tuple, model.byId[id] # None)] \in Call
    BY <1>e, <2>1
  <2> QED
    BY <1>0, <1>g, <2>3, <2>4, <2>5, <2>6 DEF Agree
<1>7. ASSUME NEW g \in Goroutine, Record(g)
      PROVE  model' \in Models /\ Agree(model)' /\ Rest
  <2>1. Goto(g, NoCall) /\ model' = model /\ orderly' = orderly
    BY <1>7 DEF Record
  <2>2. DOMAIN latest'.state = DOMAIN latest.state
    BY <1>7 DEF Record, L!Receive
  <2>3. NoCall \in Call
    BY DEF Call
  <2> QED
    BY <1>0, <1>g, <2>1, <2>2, <2>3 DEF Agree
<1>8. CASE UNCHANGED vars
  BY <1>0, <1>8 DEF vars, Agree
<1> QED
  BY <1>1, <1>2, <1>3, <1>4, <1>5, <1>6, <1>7, <1>8 DEF Next

(* So it holds always.                                                     *)
LEMMA IInvAlways == Spec => []IInv
<1> QED
  BY InitIInv, NextIInv, PTL DEF Spec

(* The index has exactly the tuples of the registered Capacities, however  *)
(* many goroutines add, move and delete them.                              *)
THEOREM IndexIsExact == Spec => [](CapacitiesTypeOK /\ TupleIndexExact)
<1>1. IInv => CapacitiesTypeOK /\ TupleIndexExact
  BY DEF IInv
<1> QED
  BY <1>1, IInvAlways, PTL

(* A Capacity is refused for its tuple exactly if another one has it: the  *)
(* decision table of docs/adr/capacity-resources.md.                       *)
THEOREM UpsertFollowsTable == Spec => TupleKeyedUpsert
<1> DEFINE Taken(g) == \E id \in CapacityId \ {calls[g].id} : HasTuple(id, calls[g].tuple)
<1>1. ASSUME IInv, NEW g \in Goroutine, calls[g].do = "put"
      PROVE  Conflicts(model, calls[g].id, calls[g].tuple) <=> Taken(g)
  <2>1. calls[g].id \in CapacityId /\ calls[g].tuple \in Tuple
    BY <1>1 DEF IInv, CapacitiesTypeOK, Call, NoCall
  <2>2. model.byTuple[calls[g].tuple] \in CapacityId \cup {None}
    BY <1>1, <2>1 DEF IInv, CapacitiesTypeOK, Models
  <2>3. \A id \in CapacityId :
          model.byId[id] = calls[g].tuple <=> model.byTuple[calls[g].tuple] = id
    BY <1>1, <2>1 DEF IInv, TupleIndexExact
  <2> QED
    BY <2>1, <2>2, <2>3, CapacitiesAssumption DEF Conflicts, HasTuple
<1>2. IInv => \A g \in Goroutine : (Refuse(g) => Taken(g)) /\ (Register(g) => ~ Taken(g))
  BY <1>1 DEF Refuse, Register
<1> QED
  BY <1>2, IInvAlways, PTL DEF Spec, TupleKeyedUpsert

-----------------------------------------------------------------------------
(***************************************************************************)
(* The order of the listing.  What StoreLemmas proves of a latest-state    *)
(* store holds of this one.                                                *)
(***************************************************************************)
LEMMA SameStore ==
  /\ None \notin Tuple \cup {Plain}
  /\ L!Event = SL!Event
  /\ L!EmptyLatest = SL!EmptyLatest
  /\ \A s : \A ev : L!Receive(s, ev) = SL!Receive(s, ev)
<1>1. None \notin Tuple \cup {Plain}
  BY CapacitiesAssumption
<1>2. L!Event = SL!Event /\ L!EmptyLatest = SL!EmptyLatest
  BY DEF L!Event, SL!Event, L!EmptyLatest, SL!EmptyLatest
<1>3. ASSUME NEW s, NEW ev PROVE L!Receive(s, ev) = SL!Receive(s, ev)
  BY DEF L!Receive, SL!Receive, L!IsLive, SL!IsLive, L!RemoveFromOrder, SL!RemoveFromOrder,
         L!OrderWith, SL!OrderWith, L!Payload, SL!Payload, L!RemoveAt, SL!RemoveAt
<1> QED
  BY <1>1, <1>2, <1>3

(* The store has every Capacity after what it refers to.                   *)
RefsFirst(s) ==
  \A id \in CapacityId : s.state[id] # None =>
    \A r \in Refs(s.state[id]) : SL!Before(s.order, r, id)

(* A latest-state store whose order lists what is live.                    *)
WellFormed(s) == s \in SL!LatestStores /\ SL!OrderListsLive(s)

(* The store s has what the model m has, in an order that a new subscriber *)
(* accepts.                                                                *)
Listable(m, s) ==
  /\ WellFormed(s)
  /\ \A r \in Reference : r \in m.present <=> s.state[r] # None
  /\ \A id \in CapacityId : m.byId[id] = s.state[id]
  /\ RefsFirst(s)

(* What a tuple refers to is a Context and a resource type.                *)
LEMMA RefsAreReferences ==
  ASSUME NEW tuple \in Tuple
  PROVE  /\ Refs(tuple) \subseteq Reference
         /\ tuple[1] \in Reference /\ tuple[2] \in Reference
BY DEF Refs, Tuple, Reference

(* An event leaves the order as it was, but for the resource it is about.  *)
LEMMA FoldedEvent ==
  ASSUME NEW s, WellFormed(s), NEW ev \in SL!Event
  PROVE  LET new == SL!Receive(s, ev)
         IN  /\ WellFormed(new)
             /\ \A k \in Reference \cup CapacityId :
                  new.state[k] = IF k = ev.key THEN SL!Effect(ev) ELSE s.state[k]
             /\ \A a, b \in Reference \cup CapacityId :
                  SL!Before(s.order, a, b) /\ (ev.op = "Delete" => ev.key \notin {a, b})
                    => SL!Before(new.order, a, b)
             /\ \A a \in Reference \cup CapacityId :
                  ev.op # "Delete" /\ s.state[ev.key] = None /\ s.state[a] # None
                    => SL!Before(new.order, a, ev.key)
<1> USE SameStore DEF WellFormed
<1>1. s \in SL!LatestStores /\ SL!OrderListsLive(s)
  OBVIOUS
<1>2. /\ SL!Receive(s, ev) \in SL!LatestStores
      /\ SL!OrderListsLive(SL!Receive(s, ev))
      /\ \A k \in Reference \cup CapacityId :
           SL!Receive(s, ev).state[k] = IF k = ev.key THEN SL!Effect(ev) ELSE s.state[k]
  BY <1>1, SL!ReceiveKeepsStore
<1>3. ASSUME NEW a \in Reference \cup CapacityId, NEW b \in Reference \cup CapacityId,
             SL!Before(s.order, a, b), ev.op = "Delete" => ev.key \notin {a, b}
      PROVE  SL!Before(SL!Receive(s, ev).order, a, b)
  BY <1>1, <1>3, SL!ReceiveKeepsBefore
<1>4. ASSUME NEW a \in Reference \cup CapacityId,
             ev.op # "Delete", s.state[ev.key] = None, s.state[a] # None
      PROVE  SL!Before(SL!Receive(s, ev).order, a, ev.key)
  BY <1>1, <1>4, SL!ReceiveAppends DEF SL!IsLive
<1> QED
  BY <1>2, <1>3, <1>4

(* Adding a Context or a resource type keeps the listing acceptable.       *)
LEMMA AddedReference ==
  ASSUME NEW m \in Models, NEW s, Listable(m, s), NEW r \in Reference, NEW b \in BOOLEAN
  PROVE  /\ Upserted(r, Plain, b) \in SL!Event
         /\ Listable([m EXCEPT !.present = @ \cup {r}], SL!Receive(s, Upserted(r, Plain, b)))
<1> DEFINE ev  == Upserted(r, Plain, b)
           new == SL!Receive(s, ev)
           n   == [m EXCEPT !.present = @ \cup {r}]
<1>1. /\ ev \in SL!Event /\ ev.key = r /\ ev.op # "Delete" /\ SL!Effect(ev) = Plain
  BY DEF Upserted, SL!Event, SL!Effect
<1>2. n.present = m.present \cup {r} /\ n.byId = m.byId
  BY DEF Models
<1> HIDE DEF ev, n
<1>3. WellFormed(s) /\ WellFormed(new)
  BY <1>1, FoldedEvent DEF Listable
<1>4. \A k \in Reference \cup CapacityId :
        new.state[k] = IF k = r THEN Plain ELSE s.state[k]
  BY <1>1, <1>3, FoldedEvent
<1>5. \A a, c \in Reference \cup CapacityId :
        SL!Before(s.order, a, c) => SL!Before(new.order, a, c)
  BY <1>1, <1>3, FoldedEvent
<1> HIDE DEF new
<1>6. Plain # None /\ r \notin CapacityId
  BY CapacitiesAssumption
<1>7. \A k \in Reference : k \in n.present <=> new.state[k] # None
  BY <1>2, <1>4, <1>6 DEF Listable
<1>8. \A id \in CapacityId : n.byId[id] = new.state[id] /\ new.state[id] = s.state[id]
  BY <1>2, <1>4, <1>6 DEF Listable
<1>9. ASSUME NEW id \in CapacityId, new.state[id] # None, NEW q \in Refs(new.state[id])
      PROVE  SL!Before(new.order, q, id)
  <2>1. s.state[id] # None /\ q \in Refs(s.state[id])
    BY <1>8, <1>9
  <2>2. SL!Before(s.order, q, id)
    BY <2>1 DEF Listable, RefsFirst
  <2>3. q \in Reference
    <3>1. s.state[id] \in Tuple
      BY <2>1 DEF Listable, Models
    <3> QED
      BY <2>1, <3>1, RefsAreReferences
  <2> QED
    BY <1>5, <2>2, <2>3
<1> QED
  BY <1>1, <1>3, <1>7, <1>8, <1>9 DEF Listable, RefsFirst, ev, new, n

(* So does deleting a Capacity.                                            *)
LEMMA DroppedCapacity ==
  ASSUME NEW m \in Models, NEW s, Listable(m, s), NEW id \in CapacityId
  PROVE  /\ Deleted(id) \in SL!Event
         /\ Listable(Dropped(m, id), SL!Receive(s, Deleted(id)))
<1> DEFINE ev  == Deleted(id)
           new == SL!Receive(s, ev)
           n   == Dropped(m, id)
<1>1. /\ ev \in SL!Event /\ ev.key = id /\ SL!Effect(ev) = None
  BY DEF Deleted, SL!Event, SL!Effect
<1>2. n.present = m.present /\ n.byId = [m.byId EXCEPT ![id] = None]
  BY DEF Dropped
<1> HIDE DEF ev, n
<1>3. WellFormed(s) /\ WellFormed(new)
  BY <1>1, FoldedEvent DEF Listable
<1>4. \A k \in Reference \cup CapacityId :
        new.state[k] = IF k = id THEN None ELSE s.state[k]
  BY <1>1, <1>3, FoldedEvent
<1>5. \A a, c \in Reference \cup CapacityId :
        SL!Before(s.order, a, c) /\ id # a /\ id # c => SL!Before(new.order, a, c)
  BY <1>1, <1>3, FoldedEvent
<1> HIDE DEF new
<1>6. id \notin Reference
  BY CapacitiesAssumption
<1>7. \A k \in Reference : k \in n.present <=> new.state[k] # None
  BY <1>2, <1>4, <1>6 DEF Listable
<1>8. \A i \in CapacityId : n.byId[i] = new.state[i]
  BY <1>2, <1>4 DEF Listable, Models
<1>9. ASSUME NEW i \in CapacityId, new.state[i] # None, NEW q \in Refs(new.state[i])
      PROVE  SL!Before(new.order, q, i)
  <2>1. i # id /\ s.state[i] # None /\ q \in Refs(s.state[i])
    BY <1>4, <1>9
  <2>2. SL!Before(s.order, q, i)
    BY <2>1 DEF Listable, RefsFirst
  <2>3. q \in Reference
    <3>1. s.state[i] \in Tuple
      BY <2>1 DEF Listable, Models
    <3> QED
      BY <2>1, <3>1, RefsAreReferences
  <2> QED
    BY <1>5, <1>6, <2>1, <2>2, <2>3
<1> QED
  BY <1>1, <1>3, <1>7, <1>8, <1>9 DEF Listable, RefsFirst, ev, new, n

(* And registering one that is new, or has the tuple it had, if what it    *)
(* refers to is there.                                                     *)
LEMMA PutCapacity ==
  ASSUME NEW m \in Models, NEW s, Listable(m, s), NEW id \in CapacityId, NEW tuple \in Tuple,
         m.byId[id] \in {None, tuple}, Refs(tuple) \subseteq m.present, NEW b \in BOOLEAN
  PROVE  /\ Upserted(id, tuple, b) \in SL!Event
         /\ Listable(Put(m, id, tuple), SL!Receive(s, Upserted(id, tuple, b)))
<1> DEFINE ev  == Upserted(id, tuple, b)
           new == SL!Receive(s, ev)
           n   == Put(m, id, tuple)
<1>1. /\ ev \in SL!Event /\ ev.key = id /\ ev.op # "Delete" /\ SL!Effect(ev) = tuple
  BY DEF Upserted, SL!Event, SL!Effect
<1>2. n.present = m.present /\ n.byId = [m.byId EXCEPT ![id] = tuple]
  BY DEF Put
<1> HIDE DEF ev, n
<1>3. WellFormed(s) /\ WellFormed(new)
  BY <1>1, FoldedEvent DEF Listable
<1>4. \A k \in Reference \cup CapacityId :
        new.state[k] = IF k = id THEN tuple ELSE s.state[k]
  BY <1>1, <1>3, FoldedEvent
<1>5. \A a, c \in Reference \cup CapacityId :
        SL!Before(s.order, a, c) => SL!Before(new.order, a, c)
  BY <1>1, <1>3, FoldedEvent
<1>e. \A a \in Reference \cup CapacityId :
        s.state[id] = None /\ s.state[a] # None => SL!Before(new.order, a, id)
  BY <1>1, <1>3, FoldedEvent
<1> HIDE DEF new
<1>6. id \notin Reference /\ tuple # None
  BY CapacitiesAssumption
<1>7. \A k \in Reference : k \in n.present <=> new.state[k] # None
  BY <1>2, <1>4, <1>6 DEF Listable
<1>8. \A i \in CapacityId : n.byId[i] = new.state[i]
  BY <1>2, <1>4 DEF Listable, Models
<1>9. ASSUME NEW i \in CapacityId, new.state[i] # None, NEW q \in Refs(new.state[i])
      PROVE  SL!Before(new.order, q, i)
  <2>1. CASE s.state[i] = None
    <3>1. i = id /\ q \in Refs(tuple) /\ q \in Reference
      BY <1>4, <1>9, <2>1, RefsAreReferences
    <3>2. s.state[q] # None
      BY <3>1 DEF Listable
    <3> QED
      BY <1>e, <2>1, <3>1, <3>2
  <2>2. CASE s.state[i] # None
    <3>1. m.byId[i] = s.state[i] /\ s.state[i] \in Tuple
      BY <2>2 DEF Listable, Models
    <3>2. new.state[i] = s.state[i]
      BY <1>4, <2>2, <3>1
    <3>3. q \in Refs(s.state[i]) /\ q \in Reference
      BY <1>9, <3>1, <3>2, RefsAreReferences
    <3>4. SL!Before(s.order, q, i)
      BY <2>2, <3>3 DEF Listable, RefsFirst
    <3> QED
      BY <1>5, <3>3, <3>4
  <2> QED
    BY <2>1, <2>2
<1> QED
  BY <1>1, <1>3, <1>7, <1>8, <1>9 DEF Listable, RefsFirst, ev, new, n

(* One goroutine at most is in a call.                                     *)
OneAtATime == \A g, h \in Goroutine : Idle(g) \/ Idle(h) \/ g = h

(* What g's call has found there is still there.                           *)
Validated(g) ==
  /\ calls[g].do \in {"findContext", "put"} => calls[g].tuple[2] \in model.present
  /\ calls[g].do = "put" => calls[g].tuple[1] \in model.present

(* g is about to record an event.                                          *)
Recording(g) == calls[g].do = "record"

(* The invariant behind the listing.  As long as the history is orderly,   *)
(* one goroutine at most is in a call; what it has looked up is there; and *)
(* the store, with the event that is about to be recorded, if any, can be  *)
(* listed.                                                                 *)
OrderlyInv ==
  /\ WellFormed(latest)
  /\ orderly =>
       /\ OneAtATime
       /\ \A g \in Goroutine : Validated(g)
       /\ \A g \in Goroutine : Recording(g) => Listable(model, SL!Receive(latest, calls[g].ev))
       /\ (\A g \in Goroutine : ~ Recording(g)) => Listable(model, latest)

(* An empty model has an empty listing.                                    *)
LEMMA InitOrderly == Init => OrderlyInv
<1> SUFFICES ASSUME Init PROVE OrderlyInv
  OBVIOUS
<1>1. latest = SL!EmptyLatest /\ model = EmptyModel /\ calls = [g \in Goroutine |-> NoCall]
  BY SameStore DEF Init
<1>2. /\ latest.order = << >>
      /\ \A k \in Reference \cup CapacityId : latest.state[k] = None
      /\ latest \in SL!LatestStores
  BY <1>1 DEF SL!EmptyLatest, SL!LatestStores
<1>3. SL!OrderListsLive(latest)
  BY <1>2 DEF SL!OrderListsLive, SL!LiveKeys, SL!IsLive
<1>4. Listable(model, latest)
  BY <1>1, <1>2, <1>3 DEF Listable, WellFormed, RefsFirst, EmptyModel
<1>5. \A g \in Goroutine : Idle(g) /\ calls[g].do = "idle"
  BY <1>1 DEF Idle, NoCall
<1> QED
  BY <1>4, <1>5 DEF OrderlyInv, Listable, OneAtATime, Validated, Recording

(* What a step does to the goroutines that do not take it.                 *)
LEMMA OthersStay ==
  ASSUME IInv, NEW g \in Goroutine, NEW c, calls' = [calls EXCEPT ![g] = c]
  PROVE  calls'[g] = c /\ \A h \in Goroutine \ {g} : calls'[h] = calls[h]
BY DEF IInv, CapacitiesTypeOK

(* If nobody else is in a call and what g is up to is in order, so is all. *)
LEMMA OneGoroutine ==
  ASSUME NEW g \in Goroutine, \A h \in Goroutine \ {g} : Idle(h)', WellFormed(latest)',
         orderly' => /\ Validated(g)'
                     /\ Recording(g)' => Listable(model', SL!Receive(latest', calls'[g].ev))
                     /\ ~ Recording(g)' => Listable(model', latest')
  PROVE  OrderlyInv'
<1>1. \A h \in Goroutine \ {g} : calls'[h].do = "idle"
  BY DEF Idle, NoCall
<1>2. OneAtATime' /\ \A h \in Goroutine \ {g} : Validated(h)' /\ ~ Recording(h)'
  BY <1>1 DEF OneAtATime, Validated, Recording
<1> QED
  BY <1>2 DEF OrderlyInv, Recording

(* Every step preserves the invariant.                                     *)
LEMMA NextOrderly == IInv /\ OrderlyInv /\ [Next]_vars => OrderlyInv'
<1> SUFFICES ASSUME IInv, OrderlyInv, [Next]_vars PROVE OrderlyInv'
  OBVIOUS
<1>0. /\ model \in Models /\ calls \in [Goroutine -> Call] /\ WellFormed(latest)
      /\ orderly \in BOOLEAN
  BY DEF IInv, CapacitiesTypeOK, OrderlyInv
<1>a. ASSUME NEW g \in Goroutine, Idle(g), Alone(g), orderly
      PROVE  Listable(model, latest)
  <2>1. \A h \in Goroutine : ~ Recording(h)
    BY <1>a DEF Alone, Idle, NoCall, Recording
  <2> QED
    BY <1>a, <2>1 DEF OrderlyInv
<1>b. ASSUME NEW g \in Goroutine, NEW c, calls' = [calls EXCEPT ![g] = c], Alone(g)
      PROVE  calls'[g] = c /\ \A h \in Goroutine \ {g} : Idle(h)'
  BY <1>b, OthersStay DEF Alone, Idle
<1>c. ASSUME NEW g \in Goroutine, ~ Idle(g), orderly PROVE Alone(g)
  BY <1>c DEF OrderlyInv, OneAtATime, Alone
<1>d. ASSUME NEW g \in Goroutine, calls[g].do # "idle"
      PROVE  ~ Idle(g)
  BY <1>d DEF Idle, NoCall
<1>n. ASSUME latest' = latest, ~ orderly' PROVE OrderlyInv'
  BY <1>0, <1>n DEF OrderlyInv
<1>1. ASSUME NEW g \in Goroutine, NEW r \in Reference, AddReference(g, r)
      PROVE  OrderlyInv'
  <2> DEFINE ev == Upserted(r, Plain, r \in model.present)
  <2>1. /\ Idle(g) /\ calls' = [calls EXCEPT ![g] = [do |-> "record", ev |-> ev]]
        /\ model' = [model EXCEPT !.present = @ \cup {r}]
        /\ latest' = latest /\ (orderly' <=> orderly /\ Alone(g))
    BY <1>1 DEF AddReference, Begin
  <2>2. CASE ~ orderly'
    BY <1>n, <2>1, <2>2
  <2>3. CASE orderly'
    <3>1. orderly /\ Alone(g)
      BY <2>1, <2>3
    <3>2. Listable(model, latest)
      BY <1>a, <2>1, <3>1
    <3>3. (r \in model.present) \in BOOLEAN
      OBVIOUS
    <3>4. Listable(model', SL!Receive(latest', ev))
      BY <1>0, <2>1, <3>2, <3>3, AddedReference
    <3> HIDE DEF ev
    <3>5. calls'[g] = [do |-> "record", ev |-> ev] /\ \A h \in Goroutine \ {g} : Idle(h)'
      BY <1>b, <2>1, <3>1
    <3>6. Validated(g)' /\ Recording(g)' /\ calls'[g].ev = ev
      BY <3>5 DEF Validated, Recording
    <3> QED
      BY <1>0, <2>1, <3>4, <3>5, <3>6, OneGoroutine
  <2> QED
    BY <2>2, <2>3
<1>2. ASSUME NEW g \in Goroutine, NEW r \in Reference, DeleteReference(g, r)
      PROVE  OrderlyInv'
  BY <1>2, <1>n DEF DeleteReference
<1>3. ASSUME NEW g \in Goroutine, NEW id \in CapacityId, NEW tuple \in Tuple, AddCapacity(g, id, tuple)
      PROVE  OrderlyInv'
  <2> DEFINE c == [do |-> "findType", id |-> id, tuple |-> tuple]
  <2>1. /\ Idle(g) /\ calls' = [calls EXCEPT ![g] = c]
        /\ model' = model /\ latest' = latest /\ (orderly' <=> orderly /\ Alone(g))
    BY <1>3 DEF AddCapacity, Begin
  <2>2. CASE ~ orderly'
    BY <1>n, <2>1, <2>2
  <2>3. CASE orderly'
    <3>1. orderly /\ Alone(g)
      BY <2>1, <2>3
    <3>2. Listable(model', latest')
      BY <1>a, <2>1, <3>1
    <3>3. calls'[g] = c /\ \A h \in Goroutine \ {g} : Idle(h)'
      BY <1>b, <2>1, <3>1
    <3>4. Validated(g)' /\ ~ Recording(g)'
      BY <3>3 DEF Validated, Recording
    <3> QED
      BY <1>0, <2>1, <3>2, <3>3, <3>4, OneGoroutine
  <2> QED
    BY <2>2, <2>3
<1>4. ASSUME NEW g \in Goroutine, NEW id \in CapacityId, DeleteCapacity(g, id)
      PROVE  OrderlyInv'
  <2> DEFINE ev == Deleted(id)
  <2>1. /\ Idle(g) /\ calls' = [calls EXCEPT ![g] = [do |-> "record", ev |-> ev]]
        /\ model' = Dropped(model, id)
        /\ latest' = latest /\ (orderly' <=> orderly /\ Alone(g))
    BY <1>4 DEF DeleteCapacity, Begin
  <2>2. CASE ~ orderly'
    BY <1>n, <2>1, <2>2
  <2>3. CASE orderly'
    <3>1. orderly /\ Alone(g)
      BY <2>1, <2>3
    <3>2. Listable(model, latest)
      BY <1>a, <2>1, <3>1
    <3>3. Listable(model', SL!Receive(latest', ev))
      BY <1>0, <2>1, <3>2, DroppedCapacity
    <3> HIDE DEF ev
    <3>4. calls'[g] = [do |-> "record", ev |-> ev] /\ \A h \in Goroutine \ {g} : Idle(h)'
      BY <1>b, <2>1, <3>1
    <3>5. Validated(g)' /\ Recording(g)' /\ calls'[g].ev = ev
      BY <3>4 DEF Validated, Recording
    <3> QED
      BY <1>0, <2>1, <3>3, <3>4, <3>5, OneGoroutine
  <2> QED
    BY <2>2, <2>3
<1>e. ASSUME NEW g \in Goroutine, calls[g].do \in {"findType", "findContext", "put"}
      PROVE  calls[g].id \in CapacityId /\ calls[g].tuple \in Tuple
  BY <1>0, <1>e DEF Call, NoCall
<1>5. ASSUME NEW g \in Goroutine, NEW c, calls' = [calls EXCEPT ![g] = c],
             calls[g].do \in {"findType", "findContext", "put"},
             c.do # "record",
             c.do \in {"findContext", "put"} => c.tuple[2] \in model.present,
             c.do = "put" => c.tuple[1] \in model.present,
             UNCHANGED << model, latest, orderly >>
      PROVE  OrderlyInv'
  <2>1. CASE ~ orderly
    BY <1>5, <1>n, <2>1
  <2>2. CASE orderly
    <3>1. Alone(g) /\ ~ Recording(g)
      BY <1>5, <1>c, <1>d, <2>2 DEF Recording
    <3>2. \A h \in Goroutine : ~ Recording(h)
      BY <3>1 DEF Alone, Idle, NoCall, Recording
    <3>3. Listable(model', latest')
      BY <1>5, <2>2, <3>2 DEF OrderlyInv
    <3>4. calls'[g] = c /\ \A h \in Goroutine \ {g} : Idle(h)'
      BY <1>5, <1>b, <3>1
    <3>5. Validated(g)' /\ ~ Recording(g)'
      BY <1>5, <3>4 DEF Validated, Recording
    <3> QED
      BY <1>0, <1>5, <3>3, <3>4, <3>5, OneGoroutine
  <2> QED
    BY <2>1, <2>2
<1>6. ASSUME NEW g \in Goroutine, FindType(g) \/ FindContext(g) \/ Refuse(g)
      PROVE  OrderlyInv'
  <2>1. /\ calls[g].do \in {"findType", "findContext", "put"}
        /\ UNCHANGED << model, latest, orderly >>
    BY <1>6 DEF FindType, FindContext, Refuse
  <2>2. calls[g] \in [do : {"findType", "findContext", "put"}, id : CapacityId, tuple : Tuple]
    BY <1>0, <2>1 DEF Call, NoCall
  <2>3. ASSUME calls' = [calls EXCEPT ![g] = NoCall] PROVE OrderlyInv'
    <3>1. NoCall.do = "idle"
      BY DEF NoCall
    <3> QED
      BY <1>5, <2>1, <2>3, <3>1
  <2> DEFINE next(d) == [calls[g] EXCEPT !.do = d]
  <2>4. \A d : next(d).do = d /\ next(d).tuple = calls[g].tuple
    BY <2>2
  <2> HIDE DEF next
  <2>5. CASE FindType(g)
    <3>1. CASE calls[g].tuple[2] \in model.present
      <4>1. calls' = [calls EXCEPT ![g] = next("findContext")]
        BY <2>5, <3>1 DEF FindType, Goto, next
      <4> QED
        BY <1>5, <2>1, <2>4, <3>1, <4>1
    <3>2. CASE calls[g].tuple[2] \notin model.present
      BY <2>3, <2>5, <3>2 DEF FindType, Goto
    <3> QED
      BY <3>1, <3>2
  <2>6. CASE FindContext(g)
    <3>1. CASE calls[g].tuple[1] \in model.present
      <4>1. calls' = [calls EXCEPT ![g] = next("put")] /\ calls[g].do = "findContext"
        BY <2>6, <3>1 DEF FindContext, Goto, next
      <4>2. CASE orderly
        <5>1. calls[g].tuple[2] \in model.present
          BY <4>1, <4>2 DEF OrderlyInv, Validated
        <5> QED
          BY <1>5, <2>1, <2>4, <3>1, <4>1, <5>1
      <4>3. CASE ~ orderly
        BY <1>n, <2>1, <4>3
      <4> QED
        BY <4>2, <4>3
    <3>2. CASE calls[g].tuple[1] \notin model.present
      BY <2>3, <2>6, <3>2 DEF FindContext, Goto
    <3> QED
      BY <3>1, <3>2
  <2>7. CASE Refuse(g)
    BY <2>3, <2>7 DEF Refuse, Goto
  <2> QED
    BY <1>6, <2>5, <2>6, <2>7
<1>7. ASSUME NEW g \in Goroutine, Register(g)
      PROVE  OrderlyInv'
  <2> DEFINE id    == calls[g].id
             tuple == calls[g].tuple
             ev    == Upserted(id, tuple, model.byId[id] # None)
  <2>1. /\ calls[g].do = "put" /\ model' = Put(model, id, tuple) /\ latest' = latest
        /\ calls' = [calls EXCEPT ![g] = [do |-> "record", ev |-> ev]]
        /\ (orderly' <=> orderly /\ model.byId[id] \in {None, tuple})
    BY <1>7 DEF Register, Goto
  <2>2. id \in CapacityId /\ tuple \in Tuple
    BY <1>e, <2>1
  <2>3. CASE ~ orderly'
    BY <1>n, <2>1, <2>3
  <2>4. CASE orderly'
    <3>1. orderly /\ model.byId[id] \in {None, tuple}
      BY <2>1, <2>4
    <3>2. Alone(g) /\ ~ Recording(g)
      BY <1>c, <1>d, <2>1, <3>1 DEF Recording
    <3>3. \A h \in Goroutine : ~ Recording(h)
      BY <3>2 DEF Alone, Idle, NoCall, Recording
    <3>4. Listable(model, latest) /\ Validated(g)
      BY <3>1, <3>3 DEF OrderlyInv
    <3>5. Refs(tuple) \subseteq model.present
      BY <2>1, <3>4 DEF Validated, Refs
    <3>6. (model.byId[id] # None) \in BOOLEAN
      OBVIOUS
    <3>7. Listable(model', SL!Receive(latest', ev))
      BY <1>0, <2>1, <2>2, <3>1, <3>4, <3>5, <3>6, PutCapacity
    <3> HIDE DEF ev
    <3>8. calls'[g] = [do |-> "record", ev |-> ev] /\ \A h \in Goroutine \ {g} : Idle(h)'
      BY <1>b, <2>1, <3>2
    <3>9. Validated(g)' /\ Recording(g)' /\ calls'[g].ev = ev
      BY <3>8 DEF Validated, Recording
    <3> QED
      BY <1>0, <2>1, <3>7, <3>8, <3>9, OneGoroutine
  <2> QED
    BY <2>3, <2>4
<1>8. ASSUME NEW g \in Goroutine, Record(g)
      PROVE  OrderlyInv'
  <2>1. /\ calls[g].do = "record" /\ latest' = SL!Receive(latest, calls[g].ev)
        /\ calls' = [calls EXCEPT ![g] = NoCall] /\ model' = model /\ orderly' = orderly
    BY <1>8, SameStore DEF Record, Goto
  <2>2. calls[g].ev \in SL!Event
    BY <1>0, <2>1, SameStore DEF Call, NoCall
  <2>3. WellFormed(latest')
    BY <1>0, <2>1, <2>2, FoldedEvent
  <2>4. CASE ~ orderly
    BY <2>1, <2>3, <2>4 DEF OrderlyInv
  <2>5. CASE orderly
    <3>1. Alone(g) /\ Recording(g)
      BY <1>c, <1>d, <2>1, <2>5 DEF Recording
    <3>2. Listable(model', latest')
      BY <2>1, <2>5, <3>1 DEF OrderlyInv
    <3>3. calls'[g] = NoCall /\ \A h \in Goroutine \ {g} : Idle(h)'
      BY <1>b, <2>1, <3>1
    <3>4. Validated(g)' /\ ~ Recording(g)'
      BY <3>3 DEF Validated, Recording, NoCall
    <3> QED
      BY <2>3, <3>2, <3>3, <3>4, OneGoroutine
  <2> QED
    BY <2>4, <2>5
<1>9. CASE UNCHANGED vars
  <2>1. UNCHANGED << model, latest, calls, orderly >>
    BY <1>9 DEF vars
  <2> QED
    BY <2>1 DEF OrderlyInv, OneAtATime, Validated, Recording, Idle
<1> QED
  BY <1>1, <1>2, <1>3, <1>4, <1>6, <1>7, <1>8, <1>9 DEF Next

-----------------------------------------------------------------------------
(***************************************************************************)
(* What a new subscriber has after the listing.                            *)
(***************************************************************************)
Subscribers == [model : Models, refused : BOOLEAN]

(* What a new subscriber is sent.                                          *)
Listing == L!GetEvents(latest)

(* f is the recursion by which Listed is defined.                          *)
ListedBy(f) ==
  f = [n \in 0 .. Len(Listing) |->
         IF n = 0 THEN NewSubscriber ELSE ApplyListed(f[n - 1], Listing[n])]

(* A subscriber takes or refuses what it is sent.                          *)
LEMMA ApplyListedType ==
  ASSUME NEW sub \in Subscribers, NEW ev, ev.key \in Reference \cup CapacityId,
         ev.key \in CapacityId => ev.val \in Tuple
  PROVE  /\ ApplyListed(sub, ev) \in Subscribers
         /\ ~ sub.refused /\ Accepts(sub.model, ev)
              => /\ ~ ApplyListed(sub, ev).refused
                 /\ ApplyListed(sub, ev).model = Applied(sub.model, ev)
<1>1. /\ sub.model \in Models /\ sub.refused \in BOOLEAN
      /\ sub = [model |-> sub.model, refused |-> sub.refused]
  BY DEF Subscribers
<1>2. Applied(sub.model, ev) \in Models
  <2>1. CASE ev.key \in CapacityId
    <3>1. Put(sub.model, ev.key, ev.val) \in Models
      BY <1>1, <2>1 DEF Put, Freed, Models
    <3> QED
      BY <2>1, <3>1 DEF Applied
  <2>2. CASE ev.key \notin CapacityId
    <3>1. [sub.model EXCEPT !.present = @ \cup {ev.key}] \in Models
      BY <1>1, <2>2 DEF Models
    <3> QED
      BY <2>2, <3>1 DEF Applied
  <2> QED
    BY <2>1, <2>2
<1>3. CASE sub.refused \/ ~ Accepts(sub.model, ev)
  <2>1. ApplyListed(sub, ev) = [sub EXCEPT !.refused = TRUE]
    BY <1>3 DEF ApplyListed
  <2>2. [sub EXCEPT !.refused = TRUE] \in Subscribers
    BY DEF Subscribers
  <2> QED
    BY <1>3, <2>1, <2>2
<1>4. CASE ~ sub.refused /\ Accepts(sub.model, ev)
  <2>1. ApplyListed(sub, ev) = [sub EXCEPT !.model = Applied(@, ev)]
    BY <1>4 DEF ApplyListed
  <2>2. [sub EXCEPT !.model = Applied(@, ev)]
          = [model |-> Applied(sub.model, ev), refused |-> sub.refused]
    BY <1>1
  <2> QED
    BY <1>1, <1>2, <1>4, <2>1, <2>2 DEF Subscribers
<1> QED
  BY <1>3, <1>4

(* The entries of the listing.                                             *)
LEMMA ListingEntries ==
  ASSUME NEW m \in Models, Listable(m, latest)
  PROVE  /\ Len(Listing) \in Nat /\ DOMAIN latest.order = 1 .. Len(Listing)
         /\ \A n \in 1 .. Len(Listing) :
              /\ Listing[n].key = latest.order[n]
              /\ Listing[n].val = latest.state[latest.order[n]]
              /\ Listing[n].key \in Reference \cup CapacityId
              /\ Listing[n].val # None
              /\ Listing[n].key \in CapacityId => Listing[n].val \in Tuple
<1>1. /\ latest.order \in Seq(Reference \cup CapacityId)
      /\ SL!OrderListsLive(latest)
  BY DEF Listable, WellFormed, SL!LatestStores
<1>2. Len(latest.order) \in Nat /\ DOMAIN latest.order = 1 .. Len(latest.order)
  BY <1>1
<1>3. /\ Len(Listing) = Len(latest.order)
      /\ \A n \in 1 .. Len(latest.order) :
           /\ Listing[n].key = latest.order[n]
           /\ Listing[n].val = latest.state[latest.order[n]]
  BY <1>2 DEF Listing, L!GetEvents
<1>4. ASSUME NEW n \in 1 .. Len(latest.order)
      PROVE  /\ latest.order[n] \in Reference \cup CapacityId
             /\ latest.state[latest.order[n]] # None
  BY <1>1, <1>2 DEF SL!OrderListsLive, SL!IsLive
<1>5. ASSUME NEW id \in CapacityId, latest.state[id] # None
      PROVE  latest.state[id] \in Tuple
  BY <1>5 DEF Listable, Models
<1> QED
  BY <1>2, <1>3, <1>4, <1>5

(* The recursion by which Listed is defined has a solution.                *)
LEMMA ListedUnfolds ==
  ASSUME NEW m \in Models, Listable(m, latest)
  PROVE  \E f \in [0 .. Len(Listing) -> Subscribers] :
           /\ f[0] = NewSubscriber
           /\ \A n \in 1 .. Len(Listing) : f[n] = ApplyListed(f[n - 1], Listing[n])
           /\ Listed = f[Len(Listing)]
<1> DEFINE N == Len(Listing)
           G == [x \in (1 .. N) \X Subscribers |-> ApplyListed(x[2], Listing[x[1]])]
<1>1. /\ N \in Nat /\ NewSubscriber \in Subscribers
      /\ \A n \in 1 .. N : \A sub \in Subscribers : ApplyListed(sub, Listing[n]) \in Subscribers
  <2>1. NewSubscriber \in Subscribers
    BY DEF NewSubscriber, Subscribers, EmptyModel, Models
  <2> QED
    BY <2>1, ListingEntries, ApplyListedType
<1>2. SL!StepOn(G, N, Subscribers)
  <2>1. ASSUME NEW x \in (1 .. N) \X Subscribers
        PROVE  ApplyListed(x[2], Listing[x[1]]) \in Subscribers
    <3>1. x[1] \in 1 .. N /\ x[2] \in Subscribers
      OBVIOUS
    <3> QED
      BY <1>1, <3>1
  <2> QED
    BY <2>1 DEF SL!StepOn
<1>3. \A n \in 1 .. N : \A sub \in Subscribers : G[<< n, sub >>] = ApplyListed(sub, Listing[n])
  OBVIOUS
<1> HIDE DEF G, N
<1>4. PICK g : SL!Follows(g, N, Subscribers, NewSubscriber, G)
  BY <1>1, <1>2, SameStore, SL!RecursionExists
<1>5. /\ g \in [0 .. N -> Subscribers]
      /\ g[0] = NewSubscriber
      /\ \A n \in 1 .. N : g[n] = G[<< n, g[n - 1] >>]
  BY <1>4 DEF SL!Follows
<1>6. ListedBy(g)
  <2>1. ASSUME NEW n \in 1 .. N
        PROVE  g[n] = ApplyListed(g[n - 1], Listing[n])
    <3>1. n - 1 \in 0 .. N
      BY <1>1
    <3> QED
      BY <1>3, <1>5, <3>1
  <2>2. \A n \in 0 .. N : n = 0 \/ n \in 1 .. N
    BY <1>1
  <2>3. g = [n \in 0 .. N |-> g[n]]
    BY <1>5
  <2>4. \A n \in 0 .. N :
          g[n] = IF n = 0 THEN NewSubscriber ELSE ApplyListed(g[n - 1], Listing[n])
    BY <1>5, <2>1, <2>2
  <2> QED
    BY <2>3, <2>4 DEF ListedBy, N
<1> DEFINE f == CHOOSE h : ListedBy(h)
<1>7. Listed = f[N]
  BY DEF Listed, ListedBy, Listing, N
<1>8. ListedBy(f)
  BY <1>6
<1> HIDE DEF f
<1>9. /\ f = [n \in 0 .. N |-> f[n]]
      /\ f[0] = NewSubscriber
      /\ \A n \in 1 .. N : f[n] = ApplyListed(f[n - 1], Listing[n])
  <2>1. 0 \in 0 .. N /\ \A n \in 1 .. N : n \in 0 .. N /\ n # 0
    BY <1>1
  <2> QED
    BY <1>8, <2>1 DEF ListedBy, N
<1>10. \A n \in 0 .. N : f[n] \in Subscribers
  <2> DEFINE T == {n \in 0 .. N : f[n] \in Subscribers}
  <2>1. 0 \in T
    BY <1>1, <1>9
  <2>2. ASSUME NEW n \in 1 .. N, n - 1 \in T PROVE n \in T
    <3>1. f[n - 1] \in Subscribers /\ n \in 0 .. N
      BY <1>1, <2>2
    <3>2. f[n] \in Subscribers
      BY <1>1, <1>9, <3>1
    <3> QED
      BY <3>1, <3>2
  <2> HIDE DEF T
  <2>3. \A n \in 0 .. N : n \in T
    BY <1>1, <2>1, <2>2, SameStore, SL!UpTo
  <2> QED
    BY <2>3 DEF T
<1>11. f \in [0 .. N -> Subscribers]
  BY <1>9, <1>10
<1> QED
  BY <1>7, <1>9, <1>11 DEF N

(* A model is what is present, what is registered, and an index that       *)
(* agrees.                                                                 *)
LEMMA SameModel ==
  ASSUME NEW m \in Models, NEW n \in Models, Agree(m), Agree(n),
         \A r \in Reference : r \in m.present <=> r \in n.present,
         \A id \in CapacityId : m.byId[id] = n.byId[id]
  PROVE  m = n
<1>1. m.present = n.present
  BY DEF Models
<1>2. m.byId = n.byId
  BY DEF Models
<1>3. m.byTuple = n.byTuple
  <2>1. ASSUME NEW t \in Tuple PROVE m.byTuple[t] = n.byTuple[t]
    <3>1. /\ m.byTuple[t] \in CapacityId \cup {None}
          /\ n.byTuple[t] \in CapacityId \cup {None}
      BY DEF Models
    <3>2. \A id \in CapacityId : m.byTuple[t] = id <=> n.byTuple[t] = id
      BY DEF Agree
    <3> QED
      BY <3>1, <3>2
  <2> QED
    BY <2>1 DEF Models
<1> QED
  BY <1>1, <1>2, <1>3 DEF Models

(* What a subscriber has that was sent the first n events of the listing.  *)
HasFirst(sub, n) ==
  /\ ~ sub.refused
  /\ Agree(sub.model)
  /\ \A r \in Reference : r \in sub.model.present <=> \E i \in 1 .. n : latest.order[i] = r
  /\ \A id \in CapacityId :
       /\ (\E i \in 1 .. n : latest.order[i] = id) => sub.model.byId[id] = latest.state[id]
       /\ (\A i \in 1 .. n : latest.order[i] # id) => sub.model.byId[id] = None

(* It accepts the next one: what it refers to came before, and whoever has *)
(* its tuple in the copy has it in the model.                              *)
LEMMA NextIsAccepted ==
  ASSUME NEW m \in Models, Agree(m), Listable(m, latest),
         NEW n \in 1 .. Len(Listing), NEW sub \in Subscribers, HasFirst(sub, n - 1)
  PROVE  Accepts(sub.model, Listing[n])
<1> DEFINE ev == Listing[n]
<1>1. /\ Len(Listing) \in Nat /\ DOMAIN latest.order = 1 .. Len(Listing)
      /\ ev.key = latest.order[n] /\ ev.val = latest.state[latest.order[n]]
      /\ ev.key \in CapacityId => ev.val \in Tuple
      /\ ev.val # None
  BY ListingEntries
<1> HIDE DEF ev
<1> SUFFICES ASSUME ev.key \in CapacityId
             PROVE  Refs(ev.val) \subseteq sub.model.present /\ ~ Conflicts(sub.model, ev.key, ev.val)
  BY DEF Accepts, ev
<1>2. sub.model \in Models
  BY DEF Subscribers
<1>3. \A i, j \in DOMAIN latest.order : latest.order[i] = latest.order[j] => i = j
  BY DEF Listable, WellFormed, SL!OrderListsLive
<1>4. ASSUME NEW r \in Refs(ev.val) PROVE r \in sub.model.present
  <2>1. SL!Before(latest.order, r, ev.key) /\ r \in Reference
    BY <1>1, RefsAreReferences DEF Listable, RefsFirst
  <2>2. PICK i, j \in 1 .. Len(Listing) : i < j /\ latest.order[i] = r /\ latest.order[j] = ev.key
    BY <1>1, <2>1 DEF SL!Before
  <2>3. j = n
    BY <1>1, <1>3, <2>2
  <2>4. i \in 1 .. n - 1
    BY <1>1, <2>2, <2>3
  <2> QED
    BY <2>1, <2>2, <2>4 DEF HasFirst
<1>5. ASSUME Conflicts(sub.model, ev.key, ev.val) PROVE FALSE
  <2>1. PICK id \in CapacityId : sub.model.byTuple[ev.val] = id /\ id # ev.key
    BY <1>1, <1>2, <1>5 DEF Conflicts, Models
  <2>2. sub.model.byId[id] = ev.val
    BY <1>1, <2>1 DEF HasFirst, Agree
  <2>3. sub.model.byId[id] = latest.state[id]
    BY <1>1, <2>2 DEF HasFirst
  <2>4. m.byId[id] = ev.val /\ m.byId[ev.key] = ev.val
    BY <1>1, <2>2, <2>3 DEF Listable
  <2> QED
    BY <1>1, <2>1, <2>4 DEF Agree
<1> QED
  BY <1>4, <1>5

(* And then has one more.                                                  *)
LEMMA NextIsApplied ==
  ASSUME NEW m \in Models, Agree(m), Listable(m, latest),
         NEW n \in 1 .. Len(Listing), NEW sub \in Subscribers, HasFirst(sub, n - 1)
  PROVE  HasFirst(ApplyListed(sub, Listing[n]), n)
<1> DEFINE ev  == Listing[n]
           new == ApplyListed(sub, ev)
<1> SUFFICES HasFirst(new, n)
  OBVIOUS
<1>1. /\ Len(Listing) \in Nat
      /\ ev.key = latest.order[n] /\ ev.val = latest.state[latest.order[n]]
      /\ ev.key \in Reference \cup CapacityId
      /\ ev.key \in CapacityId => ev.val \in Tuple
  BY ListingEntries
<1>2. Accepts(sub.model, ev)
  BY NextIsAccepted
<1> HIDE DEF ev
<1>3. sub.model \in Models /\ Agree(sub.model) /\ ~ sub.refused
  BY DEF Subscribers, HasFirst
<1>4. ~ new.refused /\ new.model = Applied(sub.model, ev)
  BY <1>1, <1>2, <1>3, ApplyListedType
<1> HIDE DEF new
<1>5. \A i \in 1 .. n : i = n \/ i \in 1 .. n - 1
  BY <1>1
<1>6. /\ n \in 1 .. n
      /\ \A i \in 1 .. n - 1 : i \in 1 .. n
  BY <1>1
<1>7. \A k : (\E i \in 1 .. n : latest.order[i] = k)
               <=> k = ev.key \/ \E i \in 1 .. n - 1 : latest.order[i] = k
  BY <1>1, <1>5, <1>6
<1>8. CASE ev.key \in CapacityId
  <2>1. new.model = Put(sub.model, ev.key, ev.val) /\ ~ Conflicts(sub.model, ev.key, ev.val)
    BY <1>2, <1>4, <1>8 DEF Applied, Accepts
  <2>2. Agree(new.model)
    BY <1>1, <1>3, <1>8, <2>1, PutAgrees
  <2>3. new.model.present = sub.model.present /\ new.model.byId = [sub.model.byId EXCEPT ![ev.key] = ev.val]
    BY <2>1 DEF Put
  <2>4. \A r \in Reference : r # ev.key
    BY <1>8, CapacitiesAssumption
  <2>5. \A r \in Reference : r \in new.model.present <=> \E i \in 1 .. n : latest.order[i] = r
    BY <1>7, <2>3, <2>4 DEF HasFirst
  <2>6. ASSUME NEW id \in CapacityId
        PROVE  new.model.byId[id] = IF id = ev.key THEN ev.val ELSE sub.model.byId[id]
    BY <1>3, <2>3 DEF Models
  <2>7. ASSUME NEW id \in CapacityId, \E i \in 1 .. n : latest.order[i] = id
        PROVE  new.model.byId[id] = latest.state[id]
    BY <1>1, <1>7, <2>6, <2>7 DEF HasFirst
  <2>8. ASSUME NEW id \in CapacityId, \A i \in 1 .. n : latest.order[i] # id
        PROVE  new.model.byId[id] = None
    BY <1>7, <2>6, <2>8 DEF HasFirst
  <2>9. \A id \in CapacityId :
          /\ (\E i \in 1 .. n : latest.order[i] = id) => new.model.byId[id] = latest.state[id]
          /\ (\A i \in 1 .. n : latest.order[i] # id) => new.model.byId[id] = None
    BY <2>7, <2>8
  <2> QED
    BY <1>4, <2>2, <2>5, <2>9 DEF HasFirst
<1>9. CASE ev.key \notin CapacityId
  <2>1. new.model = [sub.model EXCEPT !.present = @ \cup {ev.key}]
    BY <1>4, <1>9 DEF Applied
  <2>2. /\ new.model.present = sub.model.present \cup {ev.key}
        /\ new.model.byId = sub.model.byId /\ new.model.byTuple = sub.model.byTuple
    BY <1>3, <2>1 DEF Models
  <2>3. Agree(new.model)
    BY <1>3, <2>2 DEF Agree
  <2>4. \A r \in Reference : r \in new.model.present <=> \E i \in 1 .. n : latest.order[i] = r
    BY <1>7, <2>2 DEF HasFirst
  <2>5. ASSUME NEW id \in CapacityId, \E i \in 1 .. n : latest.order[i] = id
        PROVE  new.model.byId[id] = latest.state[id]
    BY <1>7, <1>9, <2>2, <2>5 DEF HasFirst
  <2>6. ASSUME NEW id \in CapacityId, \A i \in 1 .. n : latest.order[i] # id
        PROVE  new.model.byId[id] = None
    BY <1>6, <2>2, <2>6 DEF HasFirst
  <2>7. \A id \in CapacityId :
          /\ (\E i \in 1 .. n : latest.order[i] = id) => new.model.byId[id] = latest.state[id]
          /\ (\A i \in 1 .. n : latest.order[i] # id) => new.model.byId[id] = None
    BY <2>5, <2>6
  <2> QED
    BY <1>4, <2>3, <2>4, <2>7 DEF HasFirst
<1> QED
  BY <1>8, <1>9

(* So after the whole listing it has the model.                            *)
LEMMA ListingGivesModel ==
  ASSUME NEW m \in Models, Agree(m), Listable(m, latest)
  PROVE  ~ Listed.refused /\ Listed.model = m
<1> DEFINE N == Len(Listing)
<1>1. PICK f \in [0 .. N -> Subscribers] :
        /\ f[0] = NewSubscriber
        /\ \A n \in 1 .. N : f[n] = ApplyListed(f[n - 1], Listing[n])
        /\ Listed = f[N]
  BY ListedUnfolds
<1>2. N \in Nat /\ DOMAIN latest.order = 1 .. N
  BY ListingEntries
<1> HIDE DEF N
<1>3. HasFirst(f[0], 0)
  <2>1. Agree(EmptyModel)
    BY CapacitiesAssumption DEF EmptyModel, Agree
  <2>2. 1 .. 0 = {}
    OBVIOUS
  <2> QED
    BY <1>1, <2>1, <2>2 DEF HasFirst, NewSubscriber, EmptyModel
<1>4. ASSUME NEW n \in 1 .. N, HasFirst(f[n - 1], n - 1) PROVE HasFirst(f[n], n)
  <2>1. f[n - 1] \in Subscribers
    BY <1>1, <1>2
  <2> QED
    BY <1>1, <1>4, <2>1, NextIsApplied DEF N
<1>5. HasFirst(f[N], N)
  <2> DEFINE T == {n \in 0 .. N : HasFirst(f[n], n)}
  <2>1. 0 \in T
    BY <1>2, <1>3
  <2>2. ASSUME NEW n \in 1 .. N, n - 1 \in T PROVE n \in T
    BY <1>2, <1>4, <2>2
  <2> HIDE DEF T
  <2>3. \A n \in 0 .. N : n \in T
    BY <1>2, <2>1, <2>2, SameStore, SL!UpTo
  <2> QED
    BY <1>2, <2>3 DEF T
<1>6. f[N] \in Subscribers
  BY <1>1, <1>2
<1>7. SL!OrderListsLive(latest)
  BY DEF Listable, WellFormed
<1>8. \A k \in Reference \cup CapacityId :
        latest.state[k] # None <=> \E i \in 1 .. N : latest.order[i] = k
  BY <1>2, <1>7 DEF SL!OrderListsLive, SL!LiveKeys, SL!IsLive
<1>9. \A r \in Reference : r \in f[N].model.present <=> r \in m.present
  BY <1>5, <1>8 DEF HasFirst, Listable
<1>10. \A id \in CapacityId : f[N].model.byId[id] = m.byId[id]
  BY <1>5, <1>8 DEF HasFirst, Listable
<1>11. f[N].model = m
  BY <1>5, <1>6, <1>9, <1>10, SameModel DEF HasFirst, Subscribers
<1> QED
  BY <1>1, <1>5, <1>11 DEF HasFirst

(***************************************************************************)
(* As long as calls come one after the other, nothing a Capacity refers to *)
(* is deleted and no Capacity moves, a new subscriber accepts the listing  *)
(* of the latest state (latest_state.go, GetEvents) and then has the       *)
(* model: the order in which resources appeared is one they can be         *)
(* registered in.                                                          *)
(***************************************************************************)
THEOREM ListingCorrect == Spec => []OrderlyListingAccepted
<1>1. IInv /\ OrderlyInv => OrderlyListingAccepted
  <2> SUFFICES ASSUME IInv, OrderlyInv, Quiescent, orderly
               PROVE  ~ Listed.refused /\ Listed.model = model
    BY DEF OrderlyListingAccepted
  <2>1. model \in Models /\ Agree(model)
    BY DEF IInv, CapacitiesTypeOK, TupleIndexExact, Agree
  <2>2. \A g \in Goroutine : ~ Recording(g)
    BY DEF Quiescent, Idle, NoCall, Recording
  <2>3. Listable(model, latest)
    BY <2>2 DEF OrderlyInv
  <2> QED
    BY <2>1, <2>3, ListingGivesModel
<1>2. Spec => []OrderlyInv
  <2>1. Spec => []IInv
    BY IInvAlways
  <2> QED
    BY <2>1, InitOrderly, NextOrderly, PTL DEF Spec
<1> QED
  BY <1>1, <1>2, IInvAlways, PTL

=============================================================================
