-------------------------- MODULE ReplicationProofs --------------------------
(***************************************************************************)
(* A server with one upstream is a past of it, whatever the topology.      *)
(***************************************************************************)
EXTENDS Replication, StoreLemmas, FiniteSetTheorems

(* The types of the variables.                                             *)
Types ==
  /\ model \in [Server -> Replica]
  /\ stored \in [Server -> Replica]
  /\ linked \subseteq Link
  /\ pending \in [Link -> Seq(Event)]
  /\ recording \in [Goroutine -> Event \cup {Nothing}]

(* Nothing comes over a link before it is subscribed.                      *)
UnlinkedEmpty ==
  \A l \in Link \ linked :
    pending[l] = << >> /\ (l[2] \in Single => model[l[2]] = EmptyReplica)

(* What is being recorded is the first event of the link, and is applied.  *)
BeingRecorded ==
  \A l \in Link : recording[l] # Nothing =>
    /\ pending[l] # << >>
    /\ recording[l].key = Head(pending[l]).key
    /\ Effect(recording[l]) = Effect(Head(pending[l]))
    /\ l[2] \in Single => model[l[2]][recording[l].key] = Effect(recording[l])

(* The inductive invariant.                                                *)
Inv == Types /\ UnlinkedEmpty /\ BeingRecorded /\ UpstreamIsAhead

-----------------------------------------------------------------------------
(* Nothing is not an event.                                                *)
LEMMA NothingIsNoEvent == Nothing \notin Event
BY DEF Nothing, Event

(* Links are goroutines at their servers, and so is Local.                 *)
LEMMA Servers ==
  /\ \A h \in Goroutine : At(h) \in Server /\ At(h) = h[2]
  /\ \A l \in Link : l \in Goroutine /\ l[1] \in Server
  /\ Local \in Goroutine /\ At(Local) = Source
  /\ Local \notin Link
BY ReplicationAssumption DEF Goroutine, Local, At

(* The event of a change does what the event it was made for does.         *)
LEMMA AppliedFacts ==
  ASSUME NEW s \in Server, NEW ev \in Event
  PROVE  /\ Applied(s, ev) \in Event
         /\ Applied(s, ev).key = ev.key
         /\ Effect(Applied(s, ev)) = Effect(ev)
<1>1. CASE ev.op = "Delete"
  BY <1>1 DEF Applied
<1>2. CASE ev.op # "Delete"
  <2>1. ev \in [op : {"Create", "Update"}, key : Key, val : Value]
    BY <1>2 DEF Event
  <2>2. Applied(s, ev) \in [op : {"Create", "Update"}, key : Key, val : Value]
    BY <1>2, <2>1 DEF Applied
  <2>3. Applied(s, ev).key = ev.key /\ Applied(s, ev).val = ev.val
    BY <1>2, <2>1 DEF Applied
  <2> QED
    BY <1>2, <2>2, <2>3 DEF Effect, Event
<1> QED
  BY <1>1, <1>2

(* An event that is recorded at s goes to the subscribers of s.            *)
LEMMA PushedFacts ==
  ASSUME Types, NEW s \in Server, NEW ev \in Event
  PROVE  /\ Pushed(s, ev) \in [Link -> Seq(Event)]
         /\ \A l \in Link :
              Pushed(s, ev)[l] = IF l \in linked /\ l[1] = s THEN Append(pending[l], ev)
                                                            ELSE pending[l]
         /\ \A l \in Link : pending[l] # << >> =>
              Pushed(s, ev)[l] # << >> /\ Head(Pushed(s, ev)[l]) = Head(pending[l])
<1>1. \A l \in Link :
        Pushed(s, ev)[l] = IF l \in linked /\ l[1] = s THEN Append(pending[l], ev)
                                                      ELSE pending[l]
  BY DEF Pushed, Forwarded
<1>2. \A l \in Link : pending[l] \in Seq(Event)
  BY DEF Types
<1>3. \A l \in Link : Append(pending[l], ev) \in Seq(Event)
  BY <1>2
<1>4. Pushed(s, ev) \in [Link -> Seq(Event)]
  <2>1. \A l \in Link : Pushed(s, ev)[l] \in Seq(Event)
    BY <1>1, <1>2, <1>3
  <2>2. Pushed(s, ev) = [l \in Link |-> Pushed(s, ev)[l]]
    BY DEF Pushed
  <2> QED
    BY <2>1, <2>2
<1>5. ASSUME NEW l \in Link, pending[l] # << >>
      PROVE  Append(pending[l], ev) # << >> /\ Head(Append(pending[l], ev)) = Head(pending[l])
  BY <1>2, <1>5
<1> QED
  BY <1>1, <1>4, <1>5

(* What is recorded at s reaches the subscribers of s with the state.      *)
LEMMA PushedBrings ==
  ASSUME Inv, NEW s \in Server, NEW ev \in Event,
         NEW l \in linked, l[2] \in Single
  PROVE  BringsTo(model[l[2]], Pushed(s, ev)[l], [stored EXCEPT ![s] = ApplyEvent(@, ev)][l[1]])
<1>1. /\ l \in Link /\ l[1] \in Server /\ l[2] \in Server
      /\ BringsTo(model[l[2]], pending[l], stored[l[1]])
  BY Servers DEF Inv, Types, UpstreamIsAhead, Single
<1>2. model[l[2]] \in Replica /\ stored[l[1]] \in Replica /\ pending[l] \in Seq(Event)
  BY <1>1 DEF Inv, Types
<1>3. CASE l[1] = s
  <2>1. Pushed(s, ev)[l] = Append(pending[l], ev)
    BY <1>1, <1>3, PushedFacts DEF Inv
  <2>2. [stored EXCEPT ![s] = ApplyEvent(@, ev)][l[1]] = ApplyEvent(stored[l[1]], ev)
    BY <1>3 DEF Inv, Types
  <2> QED
    BY <1>1, <1>2, <2>1, <2>2, AppendBrings
<1>4. CASE l[1] # s
  <2>1. Pushed(s, ev)[l] = pending[l]
    BY <1>1, <1>4, PushedFacts DEF Inv
  <2>2. [stored EXCEPT ![s] = ApplyEvent(@, ev)][l[1]] = stored[l[1]]
    BY <1>1, <1>4 DEF Inv, Types
  <2> QED
    BY <1>1, <2>1, <2>2
<1> QED
  BY <1>3, <1>4

-----------------------------------------------------------------------------
(* A change of the source is a change of no server that has an upstream.   *)
LEMMA ChangeKeeps == ASSUME Inv, Change PROVE Inv'
<1>1. PICK ev \in Event : ChangeModel(Local, ev)
  BY DEF Change
<1>2. /\ model' = [model EXCEPT ![Source] = ApplyEvent(@, ev)]
      /\ recording' = [recording EXCEPT ![Local] = Applied(Source, ev)]
  BY <1>1, Servers DEF ChangeModel
<1>3. UNCHANGED << stored, linked, pending >>
  BY DEF Change
<1>4. Source \in Server
  BY ReplicationAssumption
<1>5. Types'
  <2>1. model[Source] \in Replica
    BY <1>4 DEF Inv, Types
  <2>2. ApplyEvent(model[Source], ev) \in Replica /\ Applied(Source, ev) \in Event
    BY <1>4, <2>1, ApplyEventFacts, AppliedFacts
  <2> QED
    BY <1>2, <1>3, <2>2 DEF Inv, Types
<1>6. \A l \in Link :
        recording'[l] = recording[l] /\ (l[2] \in Single => model'[l[2]] = model[l[2]])
  BY <1>2, Servers DEF Inv, Types, Single
<1>7. UnlinkedEmpty'
  BY <1>3, <1>6 DEF Inv, UnlinkedEmpty, Single
<1>8. BeingRecorded'
  BY <1>3, <1>6 DEF Inv, BeingRecorded, Single
<1>9. UpstreamIsAhead'
  BY <1>3, <1>6 DEF Inv, Types, UpstreamIsAhead, Single
<1> QED
  BY <1>5, <1>7, <1>8, <1>9 DEF Inv

(* A push that is applied stays first on its link until it is recorded.    *)
LEMMA ApplyKeeps == ASSUME Inv, NEW l \in Link, Apply(l) PROVE Inv'
<1> DEFINE ev == Head(pending[l])
           s  == l[2]
<1>1. s \in Server /\ l \in Goroutine
  BY Servers
<1>2. /\ pending[l] # << >> /\ pending[l] \in Seq(Event) /\ ev \in Event
      /\ model[s] \in Replica
  BY <1>1 DEF Apply, Inv, Types
<1>3. /\ model' = [model EXCEPT ![s] = ApplyEvent(@, ev)]
      /\ recording' = [recording EXCEPT ![l] = Applied(s, ev)]
      /\ UNCHANGED << stored, linked, pending >>
  BY <1>1, Servers DEF Apply, ChangeModel
<1>4. ApplyEvent(model[s], ev) \in Replica /\ Applied(s, ev) \in Event
  BY <1>1, <1>2, ApplyEventFacts, AppliedFacts
<1>5. Types'
  BY <1>3, <1>4 DEF Inv, Types
<1>6. l \in linked
  BY <1>2 DEF Inv, UnlinkedEmpty
<1>7. \A m \in Link : m # l =>
        recording'[m] = recording[m] /\ (m[2] \in Single => model'[m[2]] = model[m[2]])
  BY <1>1, <1>3, Servers DEF Inv, Types, Single
<1>8. model'[s] = ApplyEvent(model[s], ev) /\ recording'[l] = Applied(s, ev)
  BY <1>1, <1>3 DEF Inv, Types
<1>9. UnlinkedEmpty'
  BY <1>3, <1>6, <1>7 DEF Inv, UnlinkedEmpty, Single
<1>10. BeingRecorded'
  <2> SUFFICES ASSUME NEW m \in Link, recording'[m] # Nothing
               PROVE  /\ pending[m] # << >>
                      /\ recording'[m].key = Head(pending[m]).key
                      /\ Effect(recording'[m]) = Effect(Head(pending[m]))
                      /\ m[2] \in Single =>
                           model'[m[2]][recording'[m].key] = Effect(recording'[m])
    BY <1>3 DEF BeingRecorded, Single
  <2>1. CASE m = l
    <3>1. Applied(s, ev).key = ev.key /\ Effect(Applied(s, ev)) = Effect(ev)
      BY <1>1, <1>2, AppliedFacts
    <3>2. ev.key \in Key /\ ApplyEvent(model[s], ev)[ev.key] = Effect(ev)
      BY <1>2, ApplyEventFacts
    <3> QED
      BY <1>2, <1>8, <2>1, <3>1, <3>2
  <2>2. CASE m # l
    BY <1>7, <2>2 DEF Inv, BeingRecorded
  <2> QED
    BY <2>1, <2>2
<1>11. UpstreamIsAhead'
  <2> SUFFICES ASSUME NEW m \in linked, m[2] \in Single
               PROVE  BringsTo(model'[m[2]], pending[m], stored[m[1]])
    BY <1>3 DEF UpstreamIsAhead, Single
  <2>1. m \in Link /\ m[1] \in Server /\ BringsTo(model[m[2]], pending[m], stored[m[1]])
    BY Servers DEF Inv, Types, UpstreamIsAhead
  <2>2. CASE m = l
    <3>1. stored[m[1]] \in Replica
      BY <2>1 DEF Inv, Types
    <3> QED
      BY <1>2, <1>8, <2>1, <2>2, <3>1, HeadBrings
  <2>3. CASE m # l
    BY <1>7, <2>1, <2>3
  <2> QED
    BY <2>2, <2>3
<1> QED
  BY <1>5, <1>9, <1>10, <1>11 DEF Inv

(* A push that changes nothing would have changed nothing.                 *)
LEMMA IgnoreKeeps == ASSUME Inv, NEW l \in Link, Ignore(l) PROVE Inv'
<1> DEFINE ev == Head(pending[l])
           s  == l[2]
<1>1. s \in Server /\ l \in Goroutine
  BY Servers
<1>2. /\ pending[l] # << >> /\ pending[l] \in Seq(Event) /\ ev \in Event
      /\ Tail(pending[l]) \in Seq(Event)
      /\ model[s] \in Replica
  BY <1>1 DEF Ignore, Inv, Types
<1>3. /\ recording[l] = Nothing
      /\ pending' = [pending EXCEPT ![l] = Tail(@)]
      /\ UNCHANGED << model, stored, linked, recording >>
  BY DEF Ignore
<1>4. model[s][ev.key] = Effect(ev)
  BY <1>1, Servers DEF Ignore, Applies, Effect
<1>5. l \in linked
  BY <1>2 DEF Inv, UnlinkedEmpty
<1>6. pending'[l] = Tail(pending[l]) /\ \A m \in Link : m # l => pending'[m] = pending[m]
  BY <1>3 DEF Inv, Types
<1>7. Types'
  BY <1>2, <1>3 DEF Inv, Types
<1>8. UnlinkedEmpty'
  BY <1>3, <1>5, <1>6 DEF Inv, UnlinkedEmpty, Single
<1>9. BeingRecorded'
  BY <1>3, <1>6 DEF Inv, BeingRecorded, Single
<1>10. UpstreamIsAhead'
  <2> SUFFICES ASSUME NEW m \in linked, m[2] \in Single
               PROVE  BringsTo(model[m[2]], pending'[m], stored[m[1]])
    BY <1>3 DEF UpstreamIsAhead, Single
  <2>1. m \in Link /\ m[1] \in Server /\ BringsTo(model[m[2]], pending[m], stored[m[1]])
    BY Servers DEF Inv, Types, UpstreamIsAhead
  <2>2. CASE m = l
    <3>1. stored[m[1]] \in Replica
      BY <2>1 DEF Inv, Types
    <3> QED
      BY <1>2, <1>4, <1>6, <2>1, <2>2, <3>1, TailBrings
  <2>3. CASE m # l
    BY <1>6, <2>1, <2>3
  <2> QED
    BY <2>2, <2>3
<1> QED
  BY <1>7, <1>8, <1>9, <1>10 DEF Inv

(* What the source records goes to its subscribers.                        *)
LEMMA RecordChangeKeeps == ASSUME Inv, RecordChange PROVE Inv'
<1> DEFINE ev == recording[Local]
<1>1. Source \in Server /\ Local \in Goroutine
  BY ReplicationAssumption, Servers
<1>2. ev \in Event
  BY <1>1 DEF RecordChange, Recorded, Inv, Types
<1>3. /\ stored' = [stored EXCEPT ![Source] = ApplyEvent(@, ev)]
      /\ recording' = [recording EXCEPT ![Local] = Nothing]
      /\ pending' = Pushed(Source, ev)
      /\ UNCHANGED << model, linked >>
  BY Servers DEF RecordChange, Recorded
<1>4. ApplyEvent(stored[Source], ev) \in Replica
  BY <1>1, <1>2, ApplyEventFacts DEF Inv, Types
<1>5. Types'
  <2>1. pending' \in [Link -> Seq(Event)]
    BY <1>1, <1>2, <1>3, PushedFacts DEF Inv
  <2> QED
    BY <1>3, <1>4, <2>1 DEF Inv, Types
<1>6. UnlinkedEmpty'
  <2>1. \A l \in Link \ linked : pending'[l] = pending[l]
    BY <1>1, <1>2, <1>3, PushedFacts DEF Inv
  <2> QED
    BY <1>3, <2>1 DEF Inv, UnlinkedEmpty, Single
<1>7. BeingRecorded'
  <2>1. \A l \in Link : recording'[l] = recording[l]
    BY <1>3, Servers DEF Inv, Types
  <2>2. \A l \in Link : pending[l] # << >> =>
          pending'[l] # << >> /\ Head(pending'[l]) = Head(pending[l])
    BY <1>1, <1>2, <1>3, PushedFacts DEF Inv
  <2> QED
    BY <1>3, <2>1, <2>2 DEF Inv, BeingRecorded, Single
<1>8. UpstreamIsAhead'
  BY <1>1, <1>2, <1>3, PushedBrings DEF UpstreamIsAhead, Single
<1> QED
  BY <1>5, <1>6, <1>7, <1>8 DEF Inv

(* What was pushed is recorded and goes on to the server's subscribers; it *)
(* is taken off the link unless the answer is lost.                        *)
LEMMA RecordKeeps == ASSUME Inv, NEW l \in Link, Record(l) PROVE Inv'
<1> DEFINE ev     == recording[l]
           s      == l[2]
           pushed == Pushed(s, ev)
<1>1. s \in Server /\ l \in Goroutine
  BY Servers
<1>2. ev \in Event /\ ev # Nothing
  BY <1>1 DEF Record, Recorded, Inv, Types
<1>3. /\ stored' = [stored EXCEPT ![s] = ApplyEvent(@, ev)]
      /\ recording' = [recording EXCEPT ![l] = Nothing]
      /\ pending' = [pushed EXCEPT ![l] = Tail(@)] \/ pending' = pushed
      /\ UNCHANGED << model, linked >>
  BY <1>1, Servers DEF Record, Recorded
<1>4. /\ pushed \in [Link -> Seq(Event)]
      /\ \A m \in Link \ linked : pushed[m] = pending[m]
      /\ \A m \in Link : pending[m] # << >> =>
           pushed[m] # << >> /\ Head(pushed[m]) = Head(pending[m])
  BY <1>1, <1>2, PushedFacts DEF Inv
<1> HIDE DEF pushed
<1>5. /\ l \in linked
      /\ pending[l] # << >> /\ pushed[l] # << >> /\ Head(pushed[l]) = Head(pending[l])
      /\ pushed[l] \in Seq(Event) /\ Tail(pushed[l]) \in Seq(Event)
  <2>1. pending[l] # << >> /\ l \in linked
    BY <1>2 DEF Inv, BeingRecorded, UnlinkedEmpty
  <2>2. pushed[l] # << >> /\ Head(pushed[l]) = Head(pending[l]) /\ pushed[l] \in Seq(Event)
    BY <1>4, <2>1
  <2> QED
    BY <2>1, <2>2
<1>6. /\ \A m \in Link : m # l => pending'[m] = pushed[m] /\ recording'[m] = recording[m]
      /\ pending'[l] = Tail(pushed[l]) \/ pending'[l] = pushed[l]
      /\ recording'[l] = Nothing
  BY <1>1, <1>3, <1>4, Servers DEF Inv, Types
<1>7. Types'
  <2>1. ApplyEvent(stored[s], ev) \in Replica
    BY <1>1, <1>2, ApplyEventFacts DEF Inv, Types
  <2>2. pending' \in [Link -> Seq(Event)]
    BY <1>3, <1>4, <1>5
  <2> QED
    BY <1>3, <2>1, <2>2 DEF Inv, Types
<1>8. UnlinkedEmpty'
  BY <1>3, <1>4, <1>5, <1>6 DEF Inv, UnlinkedEmpty, Single
<1>9. BeingRecorded'
  <2> SUFFICES ASSUME NEW m \in Link, recording'[m] # Nothing
               PROVE  /\ pending'[m] # << >>
                      /\ recording'[m].key = Head(pending'[m]).key
                      /\ Effect(recording'[m]) = Effect(Head(pending'[m]))
                      /\ m[2] \in Single =>
                           model[m[2]][recording'[m].key] = Effect(recording'[m])
    BY <1>3 DEF BeingRecorded, Single
  <2>1. m # l /\ recording'[m] = recording[m] /\ pending'[m] = pushed[m]
    BY <1>6
  <2> QED
    BY <1>4, <2>1 DEF Inv, BeingRecorded
<1>10. UpstreamIsAhead'
  <2> SUFFICES ASSUME NEW m \in linked, m[2] \in Single
               PROVE  BringsTo(model[m[2]], pending'[m], stored'[m[1]])
    BY <1>3 DEF UpstreamIsAhead, Single
  <2>1. BringsTo(model[m[2]], pushed[m], stored'[m[1]])
    BY <1>1, <1>2, <1>3, PushedBrings DEF pushed
  <2>2. m \in Link /\ m[1] \in Server /\ m[2] \in Server
    BY Servers DEF Inv, Types, Single
  <2>3. CASE m = l
    <3>1. model[s] \in Replica /\ stored'[m[1]] \in Replica
      BY <1>1, <1>7, <2>2 DEF Inv, Types
    <3>2. model[s][Head(pushed[l]).key] = Effect(Head(pushed[l]))
      BY <1>2, <1>5, <2>3 DEF Inv, BeingRecorded
    <3> QED
      BY <1>5, <1>6, <2>1, <2>3, <3>1, <3>2, TailBrings
  <2>4. CASE m # l
    BY <1>6, <2>1, <2>2, <2>4
  <2> QED
    BY <2>3, <2>4
<1> QED
  BY <1>7, <1>8, <1>9, <1>10 DEF Inv

(* A listing is a Create for every live resource.                          *)
LEMMA ListingFacts ==
  ASSUME Types, NEW s \in Server, NEW listing \in Listings(s)
  PROVE  /\ listing \in Seq(Event)
         /\ \A i \in DOMAIN listing :
              listing[i].op = "Create" /\ listing[i].val = stored[s][listing[i].key]
         /\ \A k \in Key : stored[s][k] # Absent => Mentions(listing, k)
<1> DEFINE live == {k \in Key : stored[s][k] # Absent}
           n    == Cardinality(live)
<1>1. n \in Nat
  BY ReplicationAssumption, FS_Subset, FS_CardinalityType
<1>2. PICK order \in Surjection(1 .. n, live) :
        listing = [i \in 1 .. n |-> [op |-> "Create", key |-> order[i],
                                     val |-> stored[s][order[i]]]]
  BY DEF Listings, ListedState
<1>3. order \in [1 .. n -> live] /\ \A k \in live : \E i \in 1 .. n : order[i] = k
  BY DEF Surjection
<1> HIDE DEF n
<1>4. \A i \in 1 .. n : order[i] \in Key /\ stored[s][order[i]] \in Value
  BY <1>3 DEF Types, Replica
<1>5. \A i \in 1 .. n : listing[i] \in Event
  BY <1>2, <1>4 DEF Event
<1>6. listing \in Seq(Event)
  BY <1>1, <1>2, <1>5
<1>7. \A i \in DOMAIN listing :
        listing[i].op = "Create" /\ listing[i].val = stored[s][listing[i].key]
  BY <1>2
<1>8. \A k \in Key : stored[s][k] # Absent => Mentions(listing, k)
  BY <1>2, <1>3 DEF Mentions
<1> QED
  BY <1>6, <1>7, <1>8

(* A subscriber begins with a listing and an empty model.                  *)
LEMMA SubscribeKeeps == ASSUME Inv, NEW l \in Link, Subscribe(l) PROVE Inv'
<1>1. l[1] \in Server /\ l[2] \in Server
  BY ReplicationAssumption
<1>2. PICK listing \in Listings(l[1]) : pending' = [pending EXCEPT ![l] = listing]
  BY DEF Subscribe
<1>3. /\ l \notin linked /\ linked' = linked \cup {l}
      /\ UNCHANGED << model, stored, recording >>
  BY DEF Subscribe
<1>4. /\ listing \in Seq(Event)
      /\ stored[l[1]] \in Replica
      /\ BringsTo(EmptyReplica, listing, stored[l[1]])
  BY <1>1, ListingFacts, ListingBringsTo DEF Inv, Types
<1>5. pending'[l] = listing /\ \A m \in Link : m # l => pending'[m] = pending[m]
  BY <1>2 DEF Inv, Types
<1>6. Types'
  BY <1>2, <1>3, <1>4 DEF Inv, Types
<1>7. UnlinkedEmpty'
  BY <1>3, <1>5 DEF Inv, UnlinkedEmpty, Single
<1>8. BeingRecorded'
  <2>1. recording[l] = Nothing
    BY <1>3 DEF Inv, UnlinkedEmpty, BeingRecorded
  <2> QED
    BY <1>3, <1>5, <2>1 DEF Inv, BeingRecorded, Single
<1>9. UpstreamIsAhead'
  <2> SUFFICES ASSUME NEW m \in linked', m[2] \in Single
               PROVE  BringsTo(model[m[2]], pending'[m], stored[m[1]])
    BY <1>3 DEF UpstreamIsAhead, Single
  <2>1. CASE m = l
    BY <1>3, <1>4, <1>5, <2>1 DEF Inv, UnlinkedEmpty
  <2>2. CASE m # l
    BY <1>3, <1>5, <2>2 DEF Inv, Types, UpstreamIsAhead
  <2> QED
    BY <2>1, <2>2
<1> QED
  BY <1>6, <1>7, <1>8, <1>9 DEF Inv

(* The inductive invariant.                                                *)
LEMMA Invariant == Spec => []Inv
<1>1. Init => Inv
  <2> SUFFICES ASSUME Init PROVE Inv
    OBVIOUS
  <2>1. EmptyReplica \in Replica
    BY DEF EmptyReplica, Replica
  <2>2. \A l \in Link : l \in Goroutine /\ l[2] \in Server
    BY ReplicationAssumption DEF Goroutine
  <2> QED
    BY <2>1, <2>2 DEF Init, Inv, Types, UnlinkedEmpty, BeingRecorded, UpstreamIsAhead
<1>2. Inv /\ [Next]_vars => Inv'
  <2> SUFFICES ASSUME Inv, [Next]_vars PROVE Inv'
    OBVIOUS
  <2>1. CASE Change
    BY <2>1, ChangeKeeps
  <2>2. CASE RecordChange
    BY <2>2, RecordChangeKeeps
  <2>3. ASSUME NEW l \in Link, Push(l) PROVE Inv'
    BY <2>3, ApplyKeeps, IgnoreKeeps, RecordKeeps DEF Push
  <2>4. ASSUME NEW l \in Link, Subscribe(l) PROVE Inv'
    BY <2>4, SubscribeKeeps
  <2>5. CASE UNCHANGED vars
    BY <2>5 DEF vars, Inv, Types, UnlinkedEmpty, BeingRecorded, UpstreamIsAhead, Single
  <2> QED
    BY <2>1, <2>2, <2>3, <2>4, <2>5 DEF Next
<1> QED
  BY <1>1, <1>2, PTL DEF Spec

(***************************************************************************)
(* However servers subscribe to each other, one that has one upstream is a *)
(* past of it: what is on its way brings its model to what the upstream    *)
(* recorded.                                                               *)
(***************************************************************************)
THEOREM UpstreamCorrect == Spec => []UpstreamIsAhead
<1>1. Inv => UpstreamIsAhead
  BY DEF Inv
<1> QED
  BY <1>1, Invariant, PTL

=============================================================================
