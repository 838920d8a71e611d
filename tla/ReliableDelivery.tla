--------------------------- MODULE ReliableDelivery ---------------------------
(***************************************************************************)
(* The event manager as an ordered feed.  This holds as long as no two     *)
(* goroutines hand out events at the same time, nothing is dropped, and    *)
(* every URL is registered once; module EventManager's own properties say  *)
(* what is left when one of these fails.                                   *)
(***************************************************************************)
EXTENDS EventManager

(* No goroutine records a change while another hands one out.  The code    *)
(* does not see to that: handlers of two requests may race to the queues.  *)
OneHandOut == \A v, w \in Writer : ~ Idle(v) /\ ~ Idle(w) => v = w

(* No queue has overflowed, and no delivery to a subscriber that is        *)
(* registered was given up, so that no resync is due or under way.         *)
NothingDropped ==
  /\ \A w \in Writer : overflowed[w] = NoNotifier
  /\ \A n \in Notifier : Registered(n) =>
       ~ resync[n] /\ phase[n] \notin {"drain", "snapshot", "resync"}

Undisturbed == OneHandOut /\ NothingDropped

NotifierOf(u) == CHOOSE n \in Notifier : Registered(n) /\ url[n] = u

(* The event a writer has still to hand to n.                              *)
Unsent(n) ==
  LET W == {w \in Writer : Contains(sending[w].todo, n)}
  IN  IF W = {} THEN << >> ELSE << sending[CHOOSE w \in W : TRUE].ev >>

Plain(s) == [i \in DOMAIN s |-> [op |-> s[i].op, key |-> s[i].key, val |-> s[i].val]]

OnItsWay(u) ==
  IF Subscribed(u)
  THEN LET n == NotifierOf(u) IN Plain(batch[n] \o queue[n] \o Unsent(n))
  ELSE << >>

Feed == INSTANCE OrderedFeed WITH
          source     <- latest.state,
          subscribed <- {u \in Subscriber : Subscribed(u)},
          pending    <- [u \in Subscriber |-> OnItsWay(u)],
          copy       <- replica

(***************************************************************************)
(* Every step of the event manager is a step of the ordered feed: replay   *)
(* before live events, nothing skipped, nothing out of order, duplicates   *)
(* only back to back (a retried attempt whose reply was lost).             *)
(***************************************************************************)
FeedRefinement == Feed!FeedSpec

=============================================================================
