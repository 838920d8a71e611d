----------------------------- MODULE OrderedFeed -----------------------------
(***************************************************************************)
(* What a subscriber is promised as long as nothing is dropped: after a    *)
(* listing of the current state it receives every change, once or more     *)
(* often but in the order they were made, until it unsubscribes.  After    *)
(* that nothing is promised.                                               *)
(***************************************************************************)
EXTENDS LatestState

CONSTANT Subscriber

VARIABLES
  source,       (* the model                                               *)
  subscribed,   (* the subscribers                                         *)
  pending,      (* per subscriber: the events on their way to it           *)
  copy          (* per subscriber: the model it has built                  *)

feedVars == << source, subscribed, pending, copy >>

FeedInit ==
  /\ source = EmptyReplica
  /\ subscribed = {}
  /\ pending = [u \in Subscriber |-> << >>]
  /\ copy = [u \in Subscriber |-> EmptyReplica]

Change(ev) ==
  /\ source' = ApplyEvent(source, ev)
  /\ pending' = [u \in Subscriber |-> IF u \in subscribed THEN Append(pending[u], ev)
                                                         ELSE pending[u]]
  /\ UNCHANGED << subscribed, copy >>

(* A listing has one Create for every resource that is live.               *)
IsListing(s) ==
  /\ s \in Seq(Event)
  /\ \A i \in DOMAIN s :
       s[i].op = "Create" /\ s[i].val = source[s[i].key] /\ s[i].val # Absent
  /\ \A k \in Key : source[k] # Absent =>
       \E i \in DOMAIN s : s[i].key = k /\ \A j \in DOMAIN s : s[j].key = k => j = i

(* A subscriber starts from nothing.                                       *)
Subscribe(u) ==
  /\ u \notin subscribed
  /\ copy[u] = EmptyReplica
  /\ subscribed' = subscribed \cup {u}
  /\ \E s \in {pending'[u]} : IsListing(s) /\ pending' = [pending EXCEPT ![u] = s]
  /\ UNCHANGED << source, copy >>

Unsubscribe(u) ==
  /\ u \in subscribed
  /\ subscribed' = subscribed \ {u}
  /\ pending' = [pending EXCEPT ![u] = << >>]
  /\ UNCHANGED << source, copy >>

(* An event arrives; it may arrive again.                                  *)
Arrive(u) ==
  /\ pending[u] # << >>
  /\ copy' = [copy EXCEPT ![u] = ApplyEvent(@, Head(pending[u]))]
  /\ pending' = [pending EXCEPT ![u] = Tail(@)] \/ UNCHANGED pending
  /\ UNCHANGED << source, subscribed >>

(* What is still delivered to one that has unsubscribed.                   *)
Stray(u) ==
  /\ u \notin subscribed
  /\ copy' = [copy EXCEPT ![u] = copy'[u]]
  /\ UNCHANGED << source, subscribed, pending >>

FeedNext ==
  \/ \E ev \in Event : Change(ev)
  \/ \E u \in Subscriber : Subscribe(u) \/ Unsubscribe(u) \/ Arrive(u) \/ Stray(u)

FeedSpec == FeedInit /\ [][FeedNext]_feedVars

(***************************************************************************)
(* What is on its way to a subscriber makes its copy equal to the model,   *)
(* at every moment: a subscriber with nothing on its way has the model.    *)
(***************************************************************************)
FeedExact == \A u \in subscribed : BringsTo(copy[u], pending[u], source)

=============================================================================
