------------------------------ MODULE Replication ------------------------------
(***************************************************************************)
(* Servers that subscribe to each other's events (internal/oapi/           *)
(* server_events.go, pkg/model/event_apply.go).  A server applies what its *)
(* upstream pushes and records what it applied, which pushes it to its own *)
(* subscribers.                                                            *)
(*                                                                         *)
(* A subscription is what ReliableDelivery shows the event manager to be   *)
(* while nothing is dropped, an OrderedFeed: a listing of what is live,    *)
(* then every event, in order, once or more often.  What happens when      *)
(* events are dropped is in EventManager.                                  *)
(***************************************************************************)
EXTENDS LatestState, FiniteSets

CONSTANTS
  Server,
  Source,        (* the server whose model is changed by others            *)
  Link,          (* who subscribes to whom: << upstream, downstream >>     *)
  MaxChanges,    (* bound: changes of the source's model                   *)
  MaxRepeats     (* bound: events that arrive again, their reply lost      *)

ASSUME ReplicationAssumption ==
  /\ IsFiniteSet(Key)
  /\ Source \in Server
  /\ Link \subseteq (Server \X Server) \ {<< Source, Source >>}
  /\ MaxChanges \in Nat /\ MaxRepeats \in Nat

(* Goroutines that change a model: one at the source, and the handler of   *)
(* each link's pushes, which come one at a time.                           *)
Local     == << Source, Source >>
Goroutine == Link \cup {Local}

Nothing == [op |-> "none"]

VARIABLES
  model,         (* per server                                             *)
  stored,        (* per server: the latest state of what was recorded      *)
  linked,        (* the links that are subscribed                          *)
  pending,       (* per link: the events on their way                      *)
  recording,     (* per goroutine: the event of the change it has made     *)
  changes, repeats

vars == << model, stored, linked, pending, recording, changes, repeats >>

At(h) == h[2]

Init ==
  /\ model = [s \in Server |-> EmptyReplica]
  /\ stored = [s \in Server |-> EmptyReplica]
  /\ linked = {}
  /\ pending = [l \in Link |-> << >>]
  /\ recording = [h \in Goroutine |-> Nothing]
  /\ changes = 0
  /\ repeats = 0

-----------------------------------------------------------------------------
(* A Delete of what is not there changes nothing, and is no event.         *)
Applies(s, ev) == model[s][ev.key] # Absent \/ ev.op # "Delete"

(* The event of an upsert goes by whether the resource was there.          *)
Applied(s, ev) ==
  IF ev.op = "Delete" THEN ev
  ELSE [ev EXCEPT !.op = IF model[s][ev.key] = Absent THEN "Create" ELSE "Update"]

(* The model is changed under its mutex; the event is recorded after that. *)
ChangeModel(h, ev) ==
  /\ recording[h] = Nothing
  /\ Applies(At(h), ev)
  /\ model' = [model EXCEPT ![At(h)] = ApplyEvent(@, ev)]
  /\ recording' = [recording EXCEPT ![h] = Applied(At(h), ev)]

Change ==
  /\ changes < MaxChanges
  /\ \E ev \in Event : ChangeModel(Local, ev)
  /\ changes' = changes + 1
  /\ UNCHANGED << stored, linked, pending, repeats >>

(* PostEventsPush: the first event of a link is applied ...                *)
Apply(l) ==
  /\ pending[l] # << >>
  /\ ChangeModel(l, Head(pending[l]))
  /\ UNCHANGED << stored, linked, pending, changes, repeats >>

(* ... or changes nothing.                                                 *)
Ignore(l) ==
  /\ pending[l] # << >>
  /\ recording[l] = Nothing
  /\ ~ Applies(At(l), Head(pending[l]))
  /\ pending' = [pending EXCEPT ![l] = Tail(@)]
  /\ UNCHANGED << model, stored, linked, recording, changes, repeats >>

(* Seeded fault: only a resource that is new is announced.                 *)
ForwardedIfCreated(ev) == ev.op # "Update"

Forwarded(ev) == TRUE

Pushed(s, ev) ==
  [l \in Link |->
     IF l \in linked /\ l[1] = s /\ Forwarded(ev) THEN Append(pending[l], ev) ELSE pending[l]]

Recorded(h) ==
  /\ recording[h] # Nothing
  /\ stored' = [stored EXCEPT ![At(h)] = ApplyEvent(@, recording[h])]
  /\ recording' = [recording EXCEPT ![h] = Nothing]

RecordChange ==
  /\ Recorded(Local)
  /\ pending' = Pushed(Source, recording[Local])
  /\ UNCHANGED << model, linked, changes, repeats >>

(* The push is answered when what was applied is recorded.  If the answer  *)
(* is lost the event comes again.                                          *)
Record(l) ==
  LET pushed == Pushed(At(l), recording[l])
  IN  /\ Recorded(l)
      /\ \/ pending' = [pushed EXCEPT ![l] = Tail(@)] /\ UNCHANGED repeats
         \/ repeats < MaxRepeats /\ repeats' = repeats + 1 /\ pending' = pushed
      /\ UNCHANGED << model, linked, changes >>

(* Seeded fault: the listing is that of the model.                         *)
ModelOf(s) == model[s]

ListedState(s) == stored[s]

(* A Create for every live resource, in any order.                         *)
Listings(s) ==
  LET live == {k \in Key : ListedState(s)[k] # Absent}
  IN  {[i \in 1 .. Cardinality(live) |->
          [op |-> "Create", key |-> order[i], val |-> ListedState(s)[order[i]]]] :
         order \in Surjection(1 .. Cardinality(live), live)}

Subscribe(l) ==
  /\ l \notin linked
  /\ linked' = linked \cup {l}
  /\ \E listing \in Listings(l[1]) : pending' = [pending EXCEPT ![l] = listing]
  /\ UNCHANGED << model, stored, recording, changes, repeats >>

Push(l) == Apply(l) \/ Ignore(l) \/ Record(l)

Next ==
  \/ Change \/ RecordChange
  \/ \E l \in Link : Push(l) \/ Subscribe(l)

(* What was changed is recorded, and what is pending is pushed.            *)
Fairness == WF_vars(RecordChange) /\ \A l \in Link : WF_vars(Push(l))

Spec == Init /\ [][Next]_vars /\ Fairness

-----------------------------------------------------------------------------
(* Servers that have one upstream.                                         *)
Single ==
  {s \in Server : s # Source /\ \A l, m \in Link : l[2] = s /\ m[2] = s => l = m}

(***************************************************************************)
(* A server that has one upstream is a past of it: what is on its way      *)
(* brings its model to what the upstream recorded, whatever is repeated    *)
(* and whenever it subscribed (server_events.go:58, notify.go:26).         *)
(***************************************************************************)
UpstreamIsAhead ==
  \A l \in linked : l[2] \in Single => BringsTo(model[l[2]], pending[l], stored[l[1]])

(***************************************************************************)
(* "chains replication so a subscriber of a subscriber converges to the    *)
(* same state" (server_replication_test.go:96): when the source is left    *)
(* alone, all servers that subscribed have its model in the end, those     *)
(* with two upstreams as well.                                             *)
(***************************************************************************)
Converges ==
  <>[](linked = Link) => <>[](\A s \in Server : model[s] = model[Source])

(* "PostEventsPush ... forwards applied changes" (server_events.go:59):    *)
(* when nothing is changed any more, nothing is pushed any more.           *)
EchoesEnd == <>[](\A l \in Link : pending[l] = << >>)

=============================================================================
