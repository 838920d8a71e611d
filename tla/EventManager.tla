---------------------------- MODULE EventManager ----------------------------
(***************************************************************************)
(* Replication by the event manager (internal/events: manager.go,          *)
(* recording_sink.go, notify.go): goroutines that change the model record  *)
(* events and hand them to a notifier per subscriber; each notifier has a  *)
(* bounded queue, a goroutine that delivers one event at a time over an    *)
(* unreliable network, and a resync from the latest state for when events  *)
(* were dropped.                                                           *)
(*                                                                         *)
(* An event's payload is its place in the recording order, so that the     *)
(* order of deliveries can be read off a replica.  Sequence ids and the    *)
(* history ring (module EventStore) play no part in delivery.              *)
(***************************************************************************)
EXTENDS LatestState

CONSTANTS
  Writer,        (* goroutines that change the model                       *)
  Subscriber,    (* callback URLs                                          *)
  Notifier,      (* notifiers that can be created                          *)
  Unreachable,   (* the subscribers that never answer                      *)
  Rejected,      (* resources whose upserts every subscriber refuses       *)
  QueueDepth,    (* notifyQueueDepth                                       *)
  MaxAttempts,   (* notifyMaxAttempts                                      *)
  MaxFailures,   (* bound: failed attempts at reachable subscribers        *)
  MaxEvents,     (* bound: events recorded                                 *)
  MaxSubscriptions (* bound: times a URL is registered                     *)

NoNotifier   == "none"
NoSubscriber == "none"

ASSUME EventManagerAssumption ==
  /\ Key # {}
  /\ Value = 1 .. MaxEvents /\ Absent = 0
  /\ IsFiniteSet(Notifier) /\ NoNotifier \notin Notifier
  /\ NoSubscriber \notin Subscriber
  /\ Unreachable \subseteq Subscriber
  /\ Rejected \subseteq Key
  /\ QueueDepth \in Nat \ {0}
  /\ MaxAttempts \in Nat \ {0}
  /\ MaxFailures \in Nat
  /\ MaxEvents \in Nat
  /\ MaxSubscriptions \in Nat

VARIABLES
  latest,        (* the latest-state store                                 *)
  recorded,      (* how many events were recorded                          *)
  notifiers,     (* the registered notifiers, in order                     *)
  sending,       (* per writer: the event it hands out and to whom         *)
  overflowed,    (* per writer: the notifier whose queue it found full,    *)
                 (* and whose resync flag it has yet to set                *)
  url,           (* per notifier: its subscriber                           *)
  phase,         (* per notifier: what its goroutine is doing              *)
  queue,         (* per notifier: the channel                              *)
  batch,         (* per notifier: the events it is delivering              *)
  attempt,       (* per notifier: attempts begun on the head of batch      *)
  resync,        (* per notifier: the resync flag                          *)
  retryTimer,    (* per notifier: whether the resync retry timer is armed  *)
  stopped,       (* per notifier: whether the stop channel is closed       *)
  replica,       (* per subscriber: the model it has built                 *)
  failures,      (* failed attempts at reachable subscribers so far        *)
  newest,        (* per subscriber and resource: the last event applied    *)
                 (* (history variable)                                     *)
  asOf           (* per notifier: how many events were recorded when its   *)
                 (* last snapshot was taken (history variable)             *)

managerVars == << latest, recorded, notifiers >>
writerVars  == << sending, overflowed >>
loopVars    == << phase, batch, attempt, resync, retryTimer >>
subVars     == << replica, newest >>
vars == << managerVars, writerVars, loopVars, subVars, url, queue, stopped,
           failures, asOf >>

(* "new": not created; "replay": AddSubscriber delivers the snapshot;      *)
(* "wait": the select of run; "live": a queued event is delivered;         *)
(* "drain", "snapshot", "resync": the parts of deliverSnapshot.            *)
Phase == {"new", "replay", "wait", "live", "drain", "snapshot", "resync", "exited"}

Delivering(n) == phase[n] \in {"replay", "live", "resync"}

Numbered(op, k, n) ==
  [op |-> op, key |-> k, val |-> IF op = "Delete" THEN Absent ELSE n, ver |-> n]

(* stateSnapshot: the latest event of every live resource, as a Create.    *)
StateSnapshot ==
  LET live == GetEvents(latest)
  IN  [i \in DOMAIN live |-> Numbered("Create", live[i].key, live[i].val)]

Idle(w) == sending[w].todo = << >> /\ overflowed[w] = NoNotifier

Registered(n) == \E i \in DOMAIN notifiers : notifiers[i] = n

Init ==
  /\ latest = EmptyLatest
  /\ recorded = 0
  /\ notifiers = << >>
  /\ sending = [w \in Writer |-> [ev |-> Numbered("Delete", CHOOSE k \in Key : TRUE, 0),
                                  todo |-> << >>]]
  /\ overflowed = [w \in Writer |-> NoNotifier]
  /\ url = [n \in Notifier |-> NoSubscriber]
  /\ phase = [n \in Notifier |-> "new"]
  /\ queue = [n \in Notifier |-> << >>]
  /\ batch = [n \in Notifier |-> << >>]
  /\ attempt = [n \in Notifier |-> 1]
  /\ resync = [n \in Notifier |-> FALSE]
  /\ retryTimer = [n \in Notifier |-> FALSE]
  /\ stopped = [n \in Notifier |-> FALSE]
  /\ replica = [u \in Subscriber |-> EmptyReplica]
  /\ failures = 0
  /\ newest = [u \in Subscriber |-> [k \in Key |-> 0]]
  /\ asOf = [n \in Notifier |-> 0]

-----------------------------------------------------------------------------
(***************************************************************************)
(* recordingSink.Receive.  Under the mutex the event is folded into the    *)
(* latest state and the list of notifiers is copied; the hand-out to the   *)
(* copied notifiers happens after the mutex is released, one at a time.    *)
(* The operations are those a model without filters sends: Create for a    *)
(* resource it does not have, Update and Delete for one it has.            *)
(***************************************************************************)
Record(w, op, k) ==
  /\ Idle(w)
  /\ recorded < MaxEvents
  /\ op = "Create" <=> ~ IsLive(latest, k)
  /\ recorded' = recorded + 1
  /\ LET ev == Numbered(op, k, recorded')
     IN  /\ latest' = Receive(latest, ev)
         /\ sending' = [sending EXCEPT ![w] = [ev |-> ev, todo |-> notifiers]]
  /\ UNCHANGED << notifiers, overflowed, loopVars, subVars, url, queue, stopped,
                  failures, asOf >>

(* Seeded fault: one event too many fits.                                  *)
HasRoomForMore(n) == Len(queue[n]) <= QueueDepth

HasRoom(n) == Len(queue[n]) < QueueDepth

(* Seeded fault: the writer waits for room.                                *)
WaitForRoom(w, n) == FALSE /\ UNCHANGED << overflowed, queue >>

(* An event that finds the queue full is dropped.                          *)
Drop(w, n) ==
  /\ ~ HasRoom(n)
  /\ overflowed' = [overflowed EXCEPT ![w] = n]
  /\ UNCHANGED queue

(* Seeded fault: the event goes to whoever is registered when it is handed *)
(* out, not to those who were when it was recorded.                        *)
EnqueueToRegistered(w) ==
  /\ sending[w].todo # << >>
  /\ queue' = [n \in Notifier |-> IF Registered(n) THEN Append(queue[n], sending[w].ev)
                                                  ELSE queue[n]]
  /\ sending' = [sending EXCEPT ![w].todo = << >>]
  /\ UNCHANGED << managerVars, overflowed, loopVars, subVars, url, stopped,
                  failures, asOf >>

(* enqueue: never blocks.                                                  *)
Enqueue(w) ==
  /\ sending[w].todo # << >>
  /\ overflowed[w] = NoNotifier
  /\ LET n == Head(sending[w].todo)
     IN  \/ /\ HasRoom(n)
            /\ queue' = [queue EXCEPT ![n] = Append(@, sending[w].ev)]
            /\ UNCHANGED overflowed
         \/ Drop(w, n)
  /\ sending' = [sending EXCEPT ![w] = [ev |-> @.ev, todo |-> Tail(@.todo)]]
  /\ UNCHANGED << managerVars, loopVars, subVars, url, stopped, failures, asOf >>

(* Seeded fault: the overflow is not flagged.                              *)
RaiseNothing(n) == UNCHANGED resync

RaiseFlag(n) == resync' = [resync EXCEPT ![n] = TRUE]

(* The default branch of enqueue's select: the flag is set after the       *)
(* queue was found full, and nothing keeps the two together.               *)
FlagOverflow(w) ==
  /\ overflowed[w] # NoNotifier
  /\ RaiseFlag(overflowed[w])
  /\ overflowed' = [overflowed EXCEPT ![w] = NoNotifier]
  /\ UNCHANGED << managerVars, sending, phase, batch, attempt, retryTimer,
                  subVars, url, queue, stopped, failures, asOf >>

-----------------------------------------------------------------------------
Past == StateSnapshot

(***************************************************************************)
(* AddSubscriber: under the mutex, nothing if the URL is registered, else  *)
(* a new notifier and the snapshot to replay to it.  The replay is done by *)
(* the caller, before the notifier's goroutine is started.                 *)
(***************************************************************************)
AddSubscriber(u) ==
  /\ \A i \in DOMAIN notifiers : url[notifiers[i]] # u
  /\ Cardinality({n \in Notifier : url[n] = u}) < MaxSubscriptions
  /\ \E n \in Notifier :
       /\ phase[n] = "new"
       /\ n = CHOOSE m \in Notifier : phase[m] = "new"
       /\ url' = [url EXCEPT ![n] = u]
       /\ notifiers' = Append(notifiers, n)
       /\ batch' = [batch EXCEPT ![n] = Past]
       /\ phase' = [phase EXCEPT ![n] = IF Past = << >> THEN "wait" ELSE "replay"]
       /\ asOf' = [asOf EXCEPT ![n] = recorded]
  /\ UNCHANGED << latest, recorded, writerVars, attempt, resync, retryTimer,
                  subVars, queue, stopped, failures >>

(* RemoveSubscriber; stopDelivery closes the stop channel, which the       *)
(* goroutine looks at in its select and while it backs off.                *)
RemoveSubscriber(u) ==
  \E i \in DOMAIN notifiers :
    /\ url[notifiers[i]] = u
    /\ stopped' = [stopped EXCEPT ![notifiers[i]] = TRUE]
    /\ notifiers' = RemoveAt(notifiers, i)
    /\ UNCHANGED << latest, recorded, writerVars, loopVars, subVars, url, queue,
                    failures, asOf >>

-----------------------------------------------------------------------------
(***************************************************************************)
(* The notifier's goroutine (run), and the replay that precedes it.        *)
(***************************************************************************)
(* Seeded fault: the flag is cleared after the resync, not before.         *)
FlagClearedLate(n, ok) ==
  IF phase[n] = "resync" THEN ~ ok ELSE resync[n] \/ ~ ok

(* The flag when a delivery has ended.  A delivery that failed sets it;    *)
(* after a queued event it is cleared at once, for the resync that begins. *)
FlagAfter(n, ok) == phase[n] # "live" /\ (resync[n] \/ ~ ok)

(* What follows the delivery of a batch.  The replay and a resync end in   *)
(* the select; a resync that failed arms the retry timer.  After a queued  *)
(* event, if the flag is set, a resync begins.                             *)
Finish(n, ok) ==
  /\ phase' = [phase EXCEPT ![n] =
                 IF @ = "live" /\ (resync[n] \/ ~ ok) THEN "drain" ELSE "wait"]
  /\ resync' = [resync EXCEPT ![n] = FlagAfter(n, ok)]
  /\ retryTimer' = [retryTimer EXCEPT ![n] = phase[n] = "resync" /\ ~ ok]

GiveUp(n) ==
  /\ batch' = [batch EXCEPT ![n] = << >>]
  /\ attempt' = [attempt EXCEPT ![n] = 1]
  /\ Finish(n, FALSE)

(* The subscriber applies the event that n is delivering.                  *)
Apply(n) ==
  LET u  == url[n]
      ev == Head(batch[n])
  IN  /\ replica' = [replica EXCEPT ![u] = ApplyEvent(@, ev)]
      /\ newest' = [newest EXCEPT ![u] = [@ EXCEPT ![ev.key] = ev.ver]]

(* Attempts that cannot succeed: the server is down, or it answers every   *)
(* time with an error (its own model refuses the resource, or it does not  *)
(* know the type).                                                         *)
Hopeless(n) ==
  \/ url[n] \in Unreachable
  \/ Head(batch[n]).key \in Rejected /\ Head(batch[n]).op # "Delete"

(* The head of the batch is dealt with.                                    *)
Advance(n) ==
  /\ batch' = [batch EXCEPT ![n] = Tail(@)]
  /\ IF Len(batch[n]) = 1 THEN Finish(n, TRUE)
                          ELSE UNCHANGED << phase, resync, retryTimer >>

(* One attempt of deliver that is answered.                                *)
DeliverOk(n) ==
  /\ Delivering(n)
  /\ ~ Hopeless(n)
  /\ Apply(n)
  /\ Advance(n)
  /\ attempt' = [attempt EXCEPT ![n] = 1]
  /\ UNCHANGED << managerVars, writerVars, url, queue, stopped, failures, asOf >>

(* Seeded faults: an event whose delivery failed goes back to the queue;   *)
(* it is not delivered again.                                              *)
RetryLater(n) ==
  /\ queue' = [queue EXCEPT ![n] = Append(@, Head(batch[n]))]
  /\ Advance(n)
  /\ UNCHANGED attempt

RetryNever(n) ==
  /\ Advance(n)
  /\ UNCHANGED << attempt, queue >>

Retry(n) ==
  /\ attempt[n] < MaxAttempts
  /\ attempt' = [attempt EXCEPT ![n] = @ + 1]
  /\ UNCHANGED << phase, batch, resync, retryTimer, queue >>

(* One attempt that fails, the request or the reply being lost if it was   *)
(* not hopeless.  After the last attempt deliver gives up.                 *)
DeliverFail(n) ==
  /\ Delivering(n)
  /\ \/ /\ Hopeless(n)
        /\ UNCHANGED << subVars, failures >>
     \/ /\ ~ Hopeless(n)
        /\ failures < MaxFailures
        /\ failures' = failures + 1
        /\ Apply(n) \/ UNCHANGED subVars
  /\ \/ Retry(n)
     \/ /\ attempt[n] = MaxAttempts
        /\ GiveUp(n)
        /\ UNCHANGED queue
  /\ UNCHANGED << managerVars, writerVars, url, stopped, asOf >>

(* deliver, backing off between two attempts, sees the stop channel closed. *)
AbandonDelivery(n) ==
  /\ Delivering(n)
  /\ attempt[n] > 1
  /\ stopped[n]
  /\ GiveUp(n)
  /\ UNCHANGED << managerVars, writerVars, subVars, url, queue, stopped, failures, asOf >>

TakeEvent(n) ==
  /\ phase[n] = "wait"
  /\ queue[n] # << >>
  /\ batch' = [batch EXCEPT ![n] = << Head(queue[n]) >>]
  /\ queue' = [queue EXCEPT ![n] = Tail(@)]
  /\ phase' = [phase EXCEPT ![n] = "live"]
  /\ UNCHANGED << managerVars, writerVars, attempt, resync, retryTimer, subVars,
                  url, stopped, failures, asOf >>

RetryResync(n) ==
  /\ phase[n] = "wait"
  /\ retryTimer[n]
  /\ retryTimer' = [retryTimer EXCEPT ![n] = FALSE]
  /\ resync' = [resync EXCEPT ![n] = FALSE]
  /\ phase' = [phase EXCEPT ![n] = IF resync[n] THEN "drain" ELSE "wait"]
  /\ UNCHANGED << managerVars, writerVars, batch, attempt, subVars, url, queue,
                  stopped, failures, asOf >>

(* drainQueue receives until the channel is empty.                         *)
DrainQueue(n) ==
  /\ phase[n] = "drain"
  /\ \/ /\ queue[n] # << >>
        /\ queue' = [queue EXCEPT ![n] = Tail(@)]
        /\ UNCHANGED phase
     \/ /\ queue[n] = << >>
        /\ phase' = [phase EXCEPT ![n] = "snapshot"]
        /\ UNCHANGED queue
  /\ UNCHANGED << managerVars, writerVars, batch, attempt, resync, retryTimer,
                  subVars, url, stopped, failures, asOf >>

TakeSnapshot(n) ==
  /\ phase[n] = "snapshot"
  /\ batch' = [batch EXCEPT ![n] = StateSnapshot]
  /\ phase' = [phase EXCEPT ![n] = IF StateSnapshot = << >> THEN "wait" ELSE "resync"]
  /\ asOf' = [asOf EXCEPT ![n] = recorded]
  /\ UNCHANGED << managerVars, writerVars, attempt, resync, retryTimer, subVars,
                  url, queue, stopped, failures >>

(* Seeded fault: the stop channel is not looked at while a resync is due   *)
(* to be retried.                                                          *)
SeesStopUnlessRetrying(n) == stopped[n] /\ ~ retryTimer[n]

SeesStop(n) == stopped[n]

Exit(n) ==
  /\ phase[n] = "wait"
  /\ SeesStop(n)
  /\ phase' = [phase EXCEPT ![n] = "exited"]
  /\ UNCHANGED << managerVars, writerVars, batch, attempt, resync, retryTimer,
                  subVars, url, queue, stopped, failures, asOf >>

Attempt(n) == DeliverOk(n) \/ DeliverFail(n)

Loop(n) ==
  \/ Attempt(n)
  \/ AbandonDelivery(n)
  \/ TakeEvent(n)
  \/ RetryResync(n)
  \/ DrainQueue(n)
  \/ TakeSnapshot(n)

HandOut(w) == Enqueue(w) \/ FlagOverflow(w)

Next ==
  \/ \E w \in Writer : \E op \in Operation, k \in Key : Record(w, op, k)
  \/ \E w \in Writer : HandOut(w)
  \/ \E u \in Subscriber : AddSubscriber(u) \/ RemoveSubscriber(u)
  \/ \E n \in Notifier : Loop(n) \/ Exit(n)

(***************************************************************************)
(* Goroutines run and attempts end (they carry a deadline).  A select      *)
(* picks at random among what is ready, so a closed stop channel that the  *)
(* goroutine meets again and again is taken in the end.  Nobody has to     *)
(* change the model, subscribe or unsubscribe.                             *)
(***************************************************************************)
Fairness ==
  /\ \A w \in Writer : WF_vars(HandOut(w))
  /\ \A n \in Notifier : WF_vars(Loop(n)) /\ SF_vars(Exit(n))

Spec == Init /\ [][Next]_vars /\ Fairness

-----------------------------------------------------------------------------
NumberedEvent ==
  [op : {"Create", "Update"}, key : Key, val : Value, ver : Value]
    \cup [op : {"Delete"}, key : Key, val : {Absent}, ver : Value \cup {0}]

(***************************************************************************)
(* The type invariant.  It includes that no queue holds more than          *)
(* notifyQueueDepth events and that a notifier which is delivering has an  *)
(* event to deliver.                                                       *)
(***************************************************************************)
ManagerTypeOK ==
  /\ latest \in LatestStores
  /\ recorded \in 0 .. MaxEvents
  /\ notifiers \in Seq(Notifier)
  /\ sending \in [Writer -> [ev : NumberedEvent, todo : Seq(Notifier)]]
  /\ overflowed \in [Writer -> Notifier \cup {NoNotifier}]
  /\ url \in [Notifier -> Subscriber \cup {NoSubscriber}]
  /\ phase \in [Notifier -> Phase]
  /\ queue \in [Notifier -> Seq(NumberedEvent)]
  /\ \A n \in Notifier : Len(queue[n]) <= QueueDepth
  /\ batch \in [Notifier -> Seq(NumberedEvent)]
  /\ \A n \in Notifier : Delivering(n) <=> batch[n] # << >>
  /\ attempt \in [Notifier -> 1 .. MaxAttempts]
  /\ resync \in [Notifier -> BOOLEAN]
  /\ retryTimer \in [Notifier -> BOOLEAN]
  /\ stopped \in [Notifier -> BOOLEAN]
  /\ replica \in [Subscriber -> [Key -> Value \cup {Absent}]]
  /\ failures \in 0 .. MaxFailures
  /\ newest \in [Subscriber -> [Key -> 0 .. MaxEvents]]
  /\ asOf \in [Notifier -> 0 .. MaxEvents]

(* Nothing is on its way to n and no resync is due.                        *)
Quiet(n) ==
  /\ Registered(n)
  /\ phase[n] = "wait"
  /\ queue[n] = << >>
  /\ ~ resync[n]
  /\ \A w \in Writer : overflowed[w] # n /\ ~ Contains(sending[w].todo, n)

(***************************************************************************)
(* A subscriber with nothing on its way to it has the model: "a            *)
(* latest-state resync ... converges the subscriber on current state"      *)
(* (notify.go), and so does undisturbed delivery.                          *)
(***************************************************************************)
QuietExact ==
  \A n \in Notifier : Quiet(n) => replica[url[n]] = latest.state

(***************************************************************************)
(* With events dropped by a full queue, by deliveries given up and by      *)
(* drained queues, in any order, what remains is half of QuietExact: every *)
(* live resource is on the subscriber, with its current payload.           *)
(***************************************************************************)
QuietCoversLive ==
  \A n \in Notifier : Quiet(n) =>
    \A k \in LiveKeys(latest) : replica[url[n]][k] = latest.state[k]

Subscribed(u) == \E i \in DOMAIN notifiers : url[notifiers[i]] = u

(***************************************************************************)
(* Events about a resource "arrive in the order the model produced them"   *)
(* (notify.go): a delivery never takes a subscriber that is registered     *)
(* back to an older event about a resource than the last it applied.       *)
(***************************************************************************)
DeliveredInOrder ==
  [][\A u \in Subscriber, k \in Key :
       Subscribed(u) => newest'[u][k] >= newest[u][k]]_vars

(***************************************************************************)
(* "The subscriber never sees a live event ahead of the state it builds    *)
(* on" (AddSubscriber), and never one again that the state it was sent     *)
(* already accounts for: what is queued for n was recorded after the last  *)
(* snapshot taken for n.                                                   *)
(***************************************************************************)
QueueFollowsSnapshot ==
  \A n \in Notifier : Registered(n) /\ phase[n] \notin {"drain", "snapshot"} =>
    \A i \in DOMAIN queue[n] : queue[n][i].ver > asOf[n]

(***************************************************************************)
(* "A slow or unreachable subscriber must not stall model mutations"       *)
(* (notify.go): whatever the subscribers do, a hand-out ends.              *)
(***************************************************************************)
WritersNotStalled == \A w \in Writer : ~ Idle(w) ~> Idle(w)

(***************************************************************************)
(* "... nor delivery to the other subscribers": a subscriber that can be   *)
(* reached gets every live resource in the end and keeps it, unless it is  *)
(* unsubscribed or waits with its resync flag set.                         *)
(***************************************************************************)
ReachableCovered ==
  \A n \in Notifier :
    <>[] (Registered(n) /\ url[n] \notin Unreachable /\ ~ resync[n] =>
            /\ Quiet(n)
            /\ \A k \in LiveKeys(latest) : replica[url[n]][k] = latest.state[k])

(***************************************************************************)
(* After RemoveSubscriber the notifier's goroutine ends, also when it is   *)
(* in the middle of a resync to a subscriber that never answers.           *)
(***************************************************************************)
StoppedExits == \A n \in Notifier : stopped[n] ~> phase[n] = "exited"

(***************************************************************************)
(* "A subscriber that has fallen a full queue behind loses the individual  *)
(* events and is scheduled for a resync instead"; "giving up is not data   *)
(* loss: the caller schedules a resync" (notify.go): a resync that is due  *)
(* is begun.                                                               *)
(***************************************************************************)
ResyncBegins ==
  \A n \in Notifier :
    resync[n] /\ Registered(n) ~> phase[n] = "drain" \/ ~ Registered(n)

(***************************************************************************)
(* "Giving up is not data loss" for the resources that the subscriber does *)
(* accept: each of them gets there in the end.                             *)
(***************************************************************************)
AcceptedGetThrough ==
  \A n \in Notifier : \A k \in Key \ Rejected :
    <>[] (Registered(n) /\ IsLive(latest, k) => replica[url[n]][k] = latest.state[k])

=============================================================================
