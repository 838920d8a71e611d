---------------------------- MODULE LatestState ----------------------------
(***************************************************************************)
(* The compacted store of the event manager (internal/events,              *)
(* latest_state.go): the most recent payload of every live resource, and   *)
(* the order in which the live resources first appeared.                   *)
(*                                                                         *)
(* A store is a value [order, state], so that the modules that hold one in *)
(* a variable share these operators.  A resource key stands for the pair   *)
(* (resource type, resource id); a payload stands for the Objects of an    *)
(* event.  Go's "no entry in the map" is the payload Absent.               *)
(***************************************************************************)
EXTENDS Integers, Sequences, SequencesExt

CONSTANTS
  Key,      (* resource keys                                               *)
  Value,    (* payloads                                                    *)
  Absent    (* the payload of a resource that is not live                  *)

ASSUME AbsentAssumption == Absent \notin Value

Operation == {"Create", "Update", "Delete"}

(* A Delete carries no object; a Create or an Update carries one.          *)
Event ==
  [op : {"Create", "Update"}, key : Key, val : Value]
    \cup [op : {"Delete"}, key : Key, val : {Absent}]

LatestStores == [order : Seq(Key), state : [Key -> Value \cup {Absent}]]

EmptyLatest == [order |-> << >>, state |-> [k \in Key |-> Absent]]

IsLive(latest, k) == latest.state[k] # Absent

LiveKeys(latest) == {k \in Key : IsLive(latest, k)}

(* The first occurrence of k in order, of which there is exactly one.      *)
RemoveFromOrder(order, k) ==
  LET i == CHOOSE i \in DOMAIN order :
             /\ order[i] = k
             /\ \A j \in DOMAIN order : j < i => order[j] # k
  IN  RemoveAt(order, i)

(* Seeded fault: the order is extended without a look at the map.          *)
OrderExtended(latest, k) == Append(latest.order, k)

(* Seeded fault: a resource that is updated goes to the end.               *)
OrderRenewed(latest, k) == Append(SelectSeq(latest.order, LAMBDA o : o # k), k)

(* A resource that is live keeps its place in the order.                   *)
OrderWith(latest, k) == IF IsLive(latest, k) THEN latest.order ELSE Append(latest.order, k)

(* Seeded fault: the first payload of a resource is kept, not the last.    *)
FirstPayload(latest, ev) == IF IsLive(latest, ev.key) THEN latest.state[ev.key] ELSE ev.val

Payload(latest, ev) == ev.val

(* Receive folds one event into the store.  A Delete of a resource that is *)
(* not live changes nothing.                                               *)
Receive(latest, ev) ==
  IF ev.op = "Delete"
  THEN IF IsLive(latest, ev.key)
       THEN [order |-> RemoveFromOrder(latest.order, ev.key),
             state |-> [latest.state EXCEPT ![ev.key] = Absent]]
       ELSE latest
  ELSE [order |-> OrderWith(latest, ev.key),
        state |-> [latest.state EXCEPT ![ev.key] = Payload(latest, ev)]]

(* One event per live resource, oldest first, always reported as a Create. *)
GetEvents(latest) ==
  [i \in DOMAIN latest.order |->
     [op |-> "Create", key |-> latest.order[i],
      val |-> latest.state[latest.order[i]]]]

(***************************************************************************)
(* What the consumer of an event does with it: Create and Update are both  *)
(* upserts, a Delete removes (pkg/model/event_apply.go).                   *)
(***************************************************************************)
Effect(ev) == IF ev.op = "Delete" THEN Absent ELSE ev.val

EmptyReplica == [k \in Key |-> Absent]

ApplyEvent(replica, ev) == [replica EXCEPT ![ev.key] = Effect(ev)]

Replay(replica, evs) ==
  LET replayed[n \in 0 .. Len(evs)] ==
        IF n = 0 THEN replica ELSE ApplyEvent(replayed[n - 1], evs[n])
  IN  replayed[Len(evs)]

(* The elements of s at the positions in I, in their order.                *)
Selected(s, I) ==
  LET selected[n \in 0 .. Len(s)] ==
        IF n = 0 THEN << >>
        ELSE IF n \in I THEN Append(selected[n - 1], s[n]) ELSE selected[n - 1]
  IN  selected[Len(s)]

(* i is the position of the last event about k in s.                       *)
LastAbout(s, k, i) ==
  /\ i \in DOMAIN s
  /\ s[i].key = k
  /\ \A j \in DOMAIN s : j > i => s[j].key # k

Mentions(s, k) == \E i \in DOMAIN s : s[i].key = k

(* Replay(replica, evs) = target, said of each resource: the last event    *)
(* about it is what the target has, or there is none and nothing to change.*)
BringsTo(replica, evs, target) ==
  \A k \in Key :
    /\ ~ Mentions(evs, k) => replica[k] = target[k]
    /\ \A i \in DOMAIN evs : LastAbout(evs, k, i) => Effect(evs[i]) = target[k]

(***************************************************************************)
(* The order lists each live resource exactly once: what removeFromOrder   *)
(* (which removes one occurrence) and GetEvents (which reads the map under *)
(* every key of the order) rely on.                                        *)
(***************************************************************************)
OrderListsLive(latest) ==
  /\ \A i \in DOMAIN latest.order : IsLive(latest, latest.order[i])
  /\ \A k \in LiveKeys(latest) : \E i \in DOMAIN latest.order : latest.order[i] = k
  /\ \A i, j \in DOMAIN latest.order : latest.order[i] = latest.order[j] => i = j

=============================================================================
