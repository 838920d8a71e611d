-------------------------- MODULE EventManagerProofs --------------------------
(***************************************************************************)
(* What the event manager keeps to, whatever the number of resources,      *)
(* subscribers, writers and events and the depth of the queues: its types; *)
(* that a quiet subscriber has every live resource; and, as long as        *)
(* nothing is dropped and one goroutine at a time hands out events, their  *)
(* order, and that the event manager is an ordered feed.                   *)
(***************************************************************************)
EXTENDS ReliableDelivery, StoreLemmas, FiniteSetTheorems

(* The types, and the order of the latest-state store.                     *)
ManagerInv == ManagerTypeOK /\ OrderListsLive(latest)

(* What is assumed of the constants.                                       *)
LEMMA ManagerConstants ==
  /\ Value = 1 .. MaxEvents /\ Absent = 0 /\ Absent \notin Value
  /\ QueueDepth \in Nat \ {0} /\ MaxAttempts \in Nat \ {0}
  /\ MaxFailures \in Nat /\ MaxEvents \in Nat
BY EventManagerAssumption

(* A sequence is empty if it has no length.                                *)
LEMMA EmptyByLength ==
  ASSUME NEW S, NEW s \in Seq(S)
  PROVE  s = << >> <=> Len(s) = 0
BY EmptySeq

(* The event a writer records is an event ...                              *)
LEMMA NumberedType ==
  ASSUME NEW op \in Operation, NEW k \in Key, NEW n \in Value
  PROVE  /\ Numbered(op, k, n) \in NumberedEvent
         /\ Numbered(op, k, n).op = op
         /\ Numbered(op, k, n).key = k
         /\ Numbered(op, k, n).ver = n
         /\ Effect(Numbered(op, k, n)) = IF op = "Delete" THEN Absent ELSE n
BY DEF Numbered, NumberedEvent, Operation, Effect

(* ... and so is what is left of one without its number.                   *)
LEMMA NumberedFacts ==
  ASSUME NEW ev \in NumberedEvent
  PROVE  /\ ev.key \in Key
         /\ ev.ver \in 0 .. MaxEvents
         /\ Effect(ev) \in Value \cup {Absent}
         /\ [op |-> ev.op, key |-> ev.key, val |-> ev.val] \in Event
BY EventManagerAssumption DEF NumberedEvent, Effect, Event

(* The types, operation by operation.  They hold at the start,             *)
LEMMA InitManager == Init => ManagerInv
<1> SUFFICES ASSUME Init PROVE ManagerInv
  OBVIOUS
<1>1. OrderListsLive(latest) /\ latest \in LatestStores
  BY DEF Init, EmptyLatest, OrderListsLive, LiveKeys, IsLive, LatestStores
<1>2. (CHOOSE k \in Key : TRUE) \in Key
  BY EventManagerAssumption
<1>3. Numbered("Delete", CHOOSE k \in Key : TRUE, 0) \in NumberedEvent
  BY <1>2 DEF Numbered, NumberedEvent
<1> QED
  BY <1>1, <1>3, EventManagerAssumption
     DEF Init, ManagerInv, ManagerTypeOK, Delivering, Phase, EmptyReplica

(* when a change is recorded,                                              *)
LEMMA RecordType ==
  ASSUME ManagerInv, NEW w \in Writer, NEW op \in Operation, NEW k \in Key, Record(w, op, k)
  PROVE  ManagerInv'
<1> DEFINE ev == Numbered(op, k, recorded')
           plain == [op |-> ev.op, key |-> ev.key, val |-> ev.val]
<1>1. recorded' \in 1 .. MaxEvents /\ recorded' \in Value
  BY EventManagerAssumption DEF Record, ManagerInv, ManagerTypeOK
<1>2. ev \in NumberedEvent /\ plain \in Event
  BY <1>1, NumberedType, NumberedFacts
<1>3. latest' = Receive(latest, plain)
  BY DEF Record, Receive, OrderWith, Payload
<1>4. latest' \in LatestStores /\ OrderListsLive(latest')
  BY <1>2, <1>3, ReceiveKeepsStore DEF ManagerInv, ManagerTypeOK
<1>5. sending' \in [Writer -> [ev : NumberedEvent, todo : Seq(Notifier)]]
  BY <1>2 DEF Record, ManagerInv, ManagerTypeOK
<1> QED
  BY <1>1, <1>4, <1>5, EventManagerAssumption
     DEF Record, ManagerInv, ManagerTypeOK, loopVars, subVars, Delivering

(* when the event is handed to the notifiers,                              *)
LEMMA HandOutType ==
  ASSUME ManagerInv, NEW w \in Writer, HandOut(w)
  PROVE  ManagerInv'
<1>1. CASE Enqueue(w)
  <2>1. /\ sending[w].todo # << >>
        /\ sending[w].todo \in Seq(Notifier) /\ sending[w].ev \in NumberedEvent
        /\ Head(sending[w].todo) \in Notifier
        /\ Tail(sending[w].todo) \in Seq(Notifier)
    BY <1>1 DEF Enqueue, ManagerInv, ManagerTypeOK
  <2>2. sending' \in [Writer -> [ev : NumberedEvent, todo : Seq(Notifier)]]
    BY <1>1, <2>1 DEF Enqueue, ManagerInv, ManagerTypeOK
  <2> DEFINE n == Head(sending[w].todo)
             more == Append(queue[n], sending[w].ev)
  <2>3. more \in Seq(NumberedEvent) /\ Len(more) = Len(queue[n]) + 1 /\ Len(queue[n]) \in Nat
    BY <2>1, AppendProperties, LenProperties DEF ManagerInv, ManagerTypeOK
  <2>4. \/ queue' = queue
        \/ HasRoom(n) /\ queue' = [queue EXCEPT ![n] = more]
    BY <1>1 DEF Enqueue, Drop
  <2>4a. queue' \in [Notifier -> Seq(NumberedEvent)]
    BY <2>1, <2>3, <2>4 DEF ManagerInv, ManagerTypeOK
  <2>4b. \A m \in Notifier : Len(queue'[m]) <= QueueDepth
    <3> SUFFICES ASSUME NEW m \in Notifier PROVE Len(queue'[m]) <= QueueDepth
      OBVIOUS
    <3>1. Len(queue[m]) <= QueueDepth /\ queue \in [Notifier -> Seq(NumberedEvent)]
      BY DEF ManagerInv, ManagerTypeOK
    <3> HIDE DEF more
    <3>2. CASE queue'[m] = queue[m]
      BY <3>1, <3>2
    <3>3. CASE m = n /\ HasRoom(n) /\ queue'[m] = more
      BY <2>3, <3>3, ManagerConstants DEF HasRoom
    <3> QED
      BY <2>1, <2>4, <3>1, <3>2, <3>3
  <2>5. overflowed' \in [Writer -> Notifier \cup {NoNotifier}]
    BY <1>1, <2>1 DEF Enqueue, ManagerInv, ManagerTypeOK, Drop
  <2> QED
    BY <1>1, <2>2, <2>4a, <2>4b, <2>5
       DEF Enqueue, ManagerInv, ManagerTypeOK, managerVars, loopVars, subVars, Delivering
<1>2. CASE FlagOverflow(w)
  BY <1>2
     DEF FlagOverflow, RaiseFlag, ManagerInv, ManagerTypeOK, managerVars, subVars, Delivering
<1> QED
  BY <1>1, <1>2 DEF HandOut

(* A listing is a sequence of Creates, one for each entry of the order.    *)
LEMMA SnapshotFacts ==
  ASSUME ManagerInv
  PROVE  /\ StateSnapshot \in Seq(NumberedEvent)
         /\ \A i \in DOMAIN StateSnapshot :
              /\ StateSnapshot[i] = Numbered("Create", latest.order[i], latest.state[latest.order[i]])
              /\ i \in DOMAIN latest.order
              /\ latest.order[i] \in Key /\ latest.state[latest.order[i]] \in Value
         /\ DOMAIN StateSnapshot = DOMAIN latest.order
<1> DEFINE order == latest.order
<1>1. order \in Seq(Key) /\ latest.state \in [Key -> Value \cup {Absent}]
  BY DEF ManagerInv, ManagerTypeOK, LatestStores
<1>2. Len(order) \in Nat /\ DOMAIN order = 1 .. Len(order)
  BY <1>1, LenProperties
<1>3. \A i \in DOMAIN order : order[i] \in Key /\ latest.state[order[i]] \in Value
  BY <1>1, <1>2, ElementOfSeq DEF ManagerInv, OrderListsLive, IsLive
<1>4. StateSnapshot = [i \in 1 .. Len(order) |-> Numbered("Create", order[i], latest.state[order[i]])]
  BY <1>2 DEF StateSnapshot, GetEvents
<1>5. \A i \in 1 .. Len(order) :
        Numbered("Create", order[i], latest.state[order[i]]) \in NumberedEvent
  BY <1>2, <1>3, NumberedType DEF Operation
<1>6. StateSnapshot \in Seq(NumberedEvent)
  BY <1>2, <1>4, <1>5, IsASeq
<1> QED
  BY <1>2, <1>3, <1>4, <1>6

(* when a subscriber registers,                                            *)
LEMMA AddSubscriberType ==
  ASSUME ManagerInv, NEW u \in Subscriber, AddSubscriber(u)
  PROVE  ManagerInv'
<1>1. Past \in Seq(NumberedEvent)
  BY SnapshotFacts DEF Past
<1>2. PICK n \in Notifier :
        /\ phase[n] = "new"
        /\ url' = [url EXCEPT ![n] = u]
        /\ notifiers' = Append(notifiers, n)
        /\ batch' = [batch EXCEPT ![n] = Past]
        /\ phase' = [phase EXCEPT ![n] = IF Past = << >> THEN "wait" ELSE "replay"]
        /\ asOf' = [asOf EXCEPT ![n] = recorded]
  BY DEF AddSubscriber
<1>3. UNCHANGED << latest, recorded, writerVars, attempt, resync, retryTimer,
                   subVars, queue, stopped, failures >>
  BY DEF AddSubscriber
<1>4. notifiers' \in Seq(Notifier)
  BY <1>2, AppendProperties DEF ManagerInv, ManagerTypeOK
<1>5. \A m \in Notifier : Delivering(m)' <=> batch'[m] # << >>
  BY <1>2 DEF ManagerInv, ManagerTypeOK, Delivering
<1>6. phase' \in [Notifier -> Phase]
  BY <1>2 DEF ManagerInv, ManagerTypeOK, Phase
<1> QED
  BY <1>1, <1>2, <1>3, <1>4, <1>5, <1>6 DEF ManagerInv, ManagerTypeOK, writerVars, subVars

(* when it unregisters,                                                    *)
LEMMA RemoveSubscriberType ==
  ASSUME ManagerInv, NEW u \in Subscriber, RemoveSubscriber(u)
  PROVE  ManagerInv'
<1>1. PICK i \in DOMAIN notifiers :
        /\ stopped' = [stopped EXCEPT ![notifiers[i]] = TRUE]
        /\ notifiers' = RemoveAt(notifiers, i)
        /\ UNCHANGED << latest, recorded, writerVars, loopVars, subVars, url, queue,
                        failures, asOf >>
  BY DEF RemoveSubscriber
<1>2. notifiers' \in Seq(Notifier)
  BY <1>1, LenProperties, RemoveAtProperties DEF ManagerInv, ManagerTypeOK
<1> QED
  BY <1>1, <1>2 DEF ManagerInv, ManagerTypeOK, writerVars, loopVars, subVars, Delivering

(* What Finish leaves, given that the batch it follows is empty.           *)
LEMMA FinishType ==
  ASSUME ManagerInv, NEW n \in Notifier, NEW ok \in BOOLEAN, Delivering(n), Finish(n, ok)
  PROVE  /\ phase' \in [Notifier -> Phase]
         /\ resync' \in [Notifier -> BOOLEAN]
         /\ retryTimer' \in [Notifier -> BOOLEAN]
         /\ ~ Delivering(n)'
         /\ \A m \in Notifier \ {n} : Delivering(m)' <=> Delivering(m)
<1>1. (phase[n] = "resync" /\ ~ ok) \in BOOLEAN /\ FlagAfter(n, ok) \in BOOLEAN
  BY DEF FlagAfter
<1> QED
  BY <1>1 DEF Finish, ManagerInv, ManagerTypeOK, Delivering, Phase

(* when it applies an event,                                               *)
LEMMA ApplyType ==
  ASSUME ManagerInv, NEW n \in Notifier, Delivering(n), Apply(n) \/ UNCHANGED subVars
  PROVE  /\ replica' \in [Subscriber -> [Key -> Value \cup {Absent}]]
         /\ newest' \in [Subscriber -> [Key -> 0 .. MaxEvents]]
<1>1. batch[n] \in Seq(NumberedEvent) /\ batch[n] # << >> /\ Head(batch[n]) \in NumberedEvent
  BY HeadTailProperties DEF ManagerInv, ManagerTypeOK
<1>2. /\ Head(batch[n]).key \in Key
      /\ Head(batch[n]).ver \in 0 .. MaxEvents
      /\ Effect(Head(batch[n])) \in Value \cup {Absent}
  BY <1>1, NumberedFacts
<1> QED
  <2> DEFINE u == url[n]
             ev == Head(batch[n])
             one == [replica[u] EXCEPT ![ev.key] = Effect(ev)]
             two == [newest[u] EXCEPT ![ev.key] = ev.ver]
  <2>1. /\ replica \in [Subscriber -> [Key -> Value \cup {Absent}]]
        /\ newest \in [Subscriber -> [Key -> 0 .. MaxEvents]]
    BY DEF ManagerInv, ManagerTypeOK
  <2>2. \/ replica' = replica /\ newest' = newest
        \/ replica' = [replica EXCEPT ![u] = one] /\ newest' = [newest EXCEPT ![u] = two]
    BY DEF Apply, ApplyEvent, subVars
  <2>3. u \in Subscriber => /\ one \in [Key -> Value \cup {Absent}]
                            /\ two \in [Key -> 0 .. MaxEvents]
    BY <1>2, <2>1
  <2> HIDE DEF u, ev, one, two
  <2> QED
    BY <2>1, <2>2, <2>3

(* when the notifier goes on to the next event,                            *)
LEMMA AdvanceType ==
  ASSUME ManagerInv, NEW n \in Notifier, Delivering(n), Advance(n)
  PROVE  /\ batch' \in [Notifier -> Seq(NumberedEvent)]
         /\ phase' \in [Notifier -> Phase]
         /\ resync' \in [Notifier -> BOOLEAN]
         /\ retryTimer' \in [Notifier -> BOOLEAN]
         /\ \A m \in Notifier : Delivering(m)' <=> batch'[m] # << >>
<1>1. /\ batch[n] \in Seq(NumberedEvent) /\ batch[n] # << >>
      /\ Tail(batch[n]) \in Seq(NumberedEvent)
      /\ Len(Tail(batch[n])) = Len(batch[n]) - 1
      /\ Len(batch[n]) \in Nat \ {0}
  BY HeadTailProperties, EmptySeq DEF ManagerInv, ManagerTypeOK
<1>2. Tail(batch[n]) = << >> <=> Len(batch[n]) = 1
  <2>1. Tail(batch[n]) = << >> <=> Len(Tail(batch[n])) = 0
    BY <1>1, EmptyByLength
  <2>2. Len(batch[n]) - 1 = 0 <=> Len(batch[n]) = 1
    BY <1>1
  <2> QED
    BY <1>1, <2>1, <2>2
<1>3. batch' = [batch EXCEPT ![n] = Tail(batch[n])]
  BY DEF Advance
<1>4. batch' \in [Notifier -> Seq(NumberedEvent)]
  BY <1>1, <1>3 DEF ManagerInv, ManagerTypeOK
<1>5. CASE Len(batch[n]) = 1
  BY <1>2, <1>3, <1>4, <1>5, FinishType DEF Advance, ManagerInv, ManagerTypeOK
<1>6. CASE Len(batch[n]) # 1
  <2>1. UNCHANGED << phase, resync, retryTimer >>
    BY <1>6 DEF Advance
  <2> QED
    BY <1>2, <1>3, <1>4, <1>6, <2>1 DEF ManagerInv, ManagerTypeOK, Delivering
<1> QED
  BY <1>5, <1>6

(* when it gives a delivery up,                                            *)
LEMMA GiveUpType ==
  ASSUME ManagerInv, NEW n \in Notifier, Delivering(n), GiveUp(n)
  PROVE  /\ batch' \in [Notifier -> Seq(NumberedEvent)]
         /\ attempt' \in [Notifier -> 1 .. MaxAttempts]
         /\ phase' \in [Notifier -> Phase]
         /\ resync' \in [Notifier -> BOOLEAN]
         /\ retryTimer' \in [Notifier -> BOOLEAN]
         /\ \A m \in Notifier : Delivering(m)' <=> batch'[m] # << >>
<1>1. Finish(n, FALSE)
  BY DEF GiveUp
<1>2. batch' = [batch EXCEPT ![n] = << >>] /\ attempt' = [attempt EXCEPT ![n] = 1]
  BY DEF GiveUp
<1>3. batch' \in [Notifier -> Seq(NumberedEvent)] /\ attempt' \in [Notifier -> 1 .. MaxAttempts]
  BY <1>2, EventManagerAssumption DEF ManagerInv, ManagerTypeOK
<1> QED
  BY <1>1, <1>2, <1>3, FinishType DEF ManagerInv, ManagerTypeOK

(* at every attempt,                                                       *)
LEMMA AttemptType ==
  ASSUME ManagerInv, NEW n \in Notifier, Attempt(n)
  PROVE  ManagerInv'
<1>1. CASE DeliverOk(n)
  <2>1. Delivering(n) /\ Apply(n) /\ Advance(n)
    BY <1>1 DEF DeliverOk
  <2>2. attempt' \in [Notifier -> 1 .. MaxAttempts]
    BY <1>1, EventManagerAssumption DEF DeliverOk, ManagerInv, ManagerTypeOK
  <2>3. UNCHANGED << managerVars, writerVars, url, queue, stopped, failures, asOf >>
    BY <1>1 DEF DeliverOk
  <2> QED
    BY <2>1, <2>2, <2>3, ApplyType, AdvanceType DEF ManagerInv, ManagerTypeOK, managerVars, writerVars
<1>2. CASE DeliverFail(n)
  <2>1. Delivering(n) /\ (Apply(n) \/ UNCHANGED subVars)
    BY <1>2 DEF DeliverFail
  <2>2. failures' \in 0 .. MaxFailures
    BY <1>2, EventManagerAssumption DEF DeliverFail, ManagerInv, ManagerTypeOK
  <2>3. UNCHANGED << managerVars, writerVars, url, stopped, asOf >>
    BY <1>2 DEF DeliverFail
  <2>4. CASE Retry(n)
    <3>1. attempt' \in [Notifier -> 1 .. MaxAttempts]
      BY <2>4, EventManagerAssumption DEF Retry, ManagerInv, ManagerTypeOK
    <3>2. UNCHANGED << phase, batch, resync, retryTimer, queue >>
      BY <2>4 DEF Retry
    <3> QED
      BY <2>1, <2>2, <2>3, <3>1, <3>2, ApplyType
         DEF ManagerInv, ManagerTypeOK, managerVars, writerVars, Delivering
  <2>5. CASE GiveUp(n) /\ UNCHANGED queue
    BY <2>1, <2>2, <2>3, <2>5, ApplyType, GiveUpType
       DEF ManagerInv, ManagerTypeOK, managerVars, writerVars
  <2> QED
    BY <1>2, <2>4, <2>5 DEF DeliverFail
<1> QED
  BY <1>1, <1>2 DEF Attempt

(* and at every step of its loop.                                          *)
LEMMA LoopType ==
  ASSUME ManagerInv, NEW n \in Notifier, Loop(n) \/ Exit(n)
  PROVE  ManagerInv'
<1>1. CASE Attempt(n)
  BY <1>1, AttemptType
<1>2. CASE AbandonDelivery(n)
  <2>1. Delivering(n) /\ GiveUp(n)
    BY <1>2 DEF AbandonDelivery
  <2>2. UNCHANGED << managerVars, writerVars, subVars, url, queue, stopped, failures, asOf >>
    BY <1>2 DEF AbandonDelivery
  <2> QED
    BY <2>1, <2>2, GiveUpType DEF ManagerInv, ManagerTypeOK, managerVars, writerVars, subVars
<1>3. CASE TakeEvent(n)
  <2>1. /\ queue[n] \in Seq(NumberedEvent) /\ queue[n] # << >>
        /\ Head(queue[n]) \in NumberedEvent
        /\ Tail(queue[n]) \in Seq(NumberedEvent)
        /\ Len(Tail(queue[n])) = Len(queue[n]) - 1
        /\ Len(queue[n]) \in Nat
    BY <1>3, HeadTailProperties, LenProperties DEF TakeEvent, ManagerInv, ManagerTypeOK
  <2>2. << Head(queue[n]) >> \in Seq(NumberedEvent) /\ << Head(queue[n]) >> # << >>
    BY <2>1
  <2>3. /\ queue' = [queue EXCEPT ![n] = Tail(queue[n])]
        /\ batch' = [batch EXCEPT ![n] = << Head(queue[n]) >>]
        /\ phase' = [phase EXCEPT ![n] = "live"]
    BY <1>3 DEF TakeEvent
  <2>4. UNCHANGED << managerVars, writerVars, attempt, resync, retryTimer, subVars,
                  url, stopped, failures, asOf >>
    BY <1>3 DEF TakeEvent
  <2>5. queue' \in [Notifier -> Seq(NumberedEvent)] /\ batch' \in [Notifier -> Seq(NumberedEvent)]
    BY <2>1, <2>2, <2>3 DEF ManagerInv, ManagerTypeOK
  <2>6. \A m \in Notifier : Len(queue'[m]) <= QueueDepth
    BY <2>1, <2>3, EventManagerAssumption DEF ManagerInv, ManagerTypeOK
  <2>7. \A m \in Notifier : Delivering(m)' <=> batch'[m] # << >>
    BY <2>2, <2>3 DEF ManagerInv, ManagerTypeOK, Delivering
  <2> QED
    BY <2>3, <2>4, <2>5, <2>6, <2>7
       DEF ManagerInv, ManagerTypeOK, managerVars, writerVars, subVars, Phase
<1>4. CASE RetryResync(n)
  <2>1. /\ phase' \in [Notifier -> Phase]
        /\ \A m \in Notifier : Delivering(m)' <=> Delivering(m)
    BY <1>4 DEF RetryResync, ManagerInv, ManagerTypeOK, Phase, Delivering
  <2> QED
    BY <1>4, <2>1 DEF RetryResync, ManagerInv, ManagerTypeOK, managerVars, writerVars, subVars
<1>5. CASE DrainQueue(n)
  <2>1. queue[n] \in Seq(NumberedEvent) /\ Len(queue[n]) \in Nat
    BY LenProperties DEF ManagerInv, ManagerTypeOK
  <2>2. queue[n] # << >> => /\ Tail(queue[n]) \in Seq(NumberedEvent)
                            /\ Len(Tail(queue[n])) = Len(queue[n]) - 1
    BY <2>1, HeadTailProperties
  <2>3. \/ queue' = queue
        \/ queue[n] # << >> /\ queue' = [queue EXCEPT ![n] = Tail(queue[n])]
    BY <1>5 DEF DrainQueue
  <2>4. queue' \in [Notifier -> Seq(NumberedEvent)]
    BY <2>1, <2>2, <2>3 DEF ManagerInv, ManagerTypeOK
  <2>5. \A m \in Notifier : Len(queue'[m]) <= QueueDepth
    <3> SUFFICES ASSUME NEW m \in Notifier PROVE Len(queue'[m]) <= QueueDepth
      OBVIOUS
    <3>1. Len(queue[m]) <= QueueDepth /\ queue \in [Notifier -> Seq(NumberedEvent)]
      BY DEF ManagerInv, ManagerTypeOK
    <3>2. CASE queue'[m] = queue[m]
      BY <3>1, <3>2
    <3>3. CASE m = n /\ queue'[m] = Tail(queue[m]) /\ queue[n] # << >>
      BY <2>1, <2>2, <3>1, <3>3, ManagerConstants
    <3> QED
      BY <2>3, <3>1, <3>2, <3>3
  <2>6. /\ phase' \in [Notifier -> Phase]
        /\ \A m \in Notifier : Delivering(m)' <=> Delivering(m)
    BY <1>5 DEF DrainQueue, ManagerInv, ManagerTypeOK, Phase, Delivering
  <2> QED
    BY <1>5, <2>4, <2>5, <2>6
       DEF DrainQueue, ManagerInv, ManagerTypeOK, managerVars, writerVars, subVars
<1>6. CASE TakeSnapshot(n)
  <2>1. StateSnapshot \in Seq(NumberedEvent)
    BY SnapshotFacts
  <2>2. /\ phase[n] = "snapshot"
        /\ batch' = [batch EXCEPT ![n] = StateSnapshot]
        /\ phase' = [phase EXCEPT ![n] = IF StateSnapshot = << >> THEN "wait" ELSE "resync"]
        /\ asOf' = [asOf EXCEPT ![n] = recorded]
    BY <1>6 DEF TakeSnapshot
  <2>3. UNCHANGED << managerVars, writerVars, attempt, resync, retryTimer, subVars,
                  url, queue, stopped, failures >>
    BY <1>6 DEF TakeSnapshot
  <2>4. /\ phase' \in [Notifier -> Phase]
        /\ \A m \in Notifier : Delivering(m)' <=> batch'[m] # << >>
    BY <2>2 DEF ManagerInv, ManagerTypeOK, Phase, Delivering
  <2>5. batch' \in [Notifier -> Seq(NumberedEvent)] /\ asOf' \in [Notifier -> 0 .. MaxEvents]
    BY <2>1, <2>2 DEF ManagerInv, ManagerTypeOK
  <2> QED
    BY <2>3, <2>4, <2>5 DEF ManagerInv, ManagerTypeOK, managerVars, writerVars, subVars
<1>7. CASE Exit(n)
  <2>1. /\ phase' \in [Notifier -> Phase]
        /\ \A m \in Notifier : Delivering(m)' <=> Delivering(m)
    BY <1>7 DEF Exit, ManagerInv, ManagerTypeOK, Phase, Delivering
  <2> QED
    BY <1>7, <2>1 DEF Exit, ManagerInv, ManagerTypeOK, managerVars, writerVars, subVars
<1> QED
  BY <1>1, <1>2, <1>3, <1>4, <1>5, <1>6, <1>7 DEF Loop

(* Every step keeps the types.                                             *)
LEMMA ManagerStep == ASSUME ManagerInv, [Next]_vars PROVE ManagerInv'
<1>1. CASE UNCHANGED vars
  BY <1>1 DEF ManagerInv, ManagerTypeOK, vars, managerVars, writerVars, loopVars, subVars, Delivering
<1> QED
  BY <1>1, RecordType, HandOutType, AddSubscriberType, RemoveSubscriberType, LoopType DEF Next

(* Every variable holds what it can hold, no queue more than notifyQueueDepth. *)
THEOREM ManagerTypeCorrect == Spec => []ManagerTypeOK
<1>1. ManagerInv /\ [Next]_vars => ManagerInv'
  BY ManagerStep
<1>2. ManagerInv => ManagerTypeOK
  BY DEF ManagerInv
<1> QED
  BY <1>1, <1>2, InitManager, PTL DEF Spec

-----------------------------------------------------------------------------
(***************************************************************************)
(* Registration.  A URL is registered once, so that one notifier delivers  *)
(* to a subscriber, and a notifier is new until then.                      *)
(***************************************************************************)
Awaits(n) == \E w \in Writer : Contains(sending[w].todo, n)

(* A sequence lists nothing twice.                                         *)
NoneTwice(s) == \A i, j \in DOMAIN s : s[i] = s[j] => i = j

(* A URL has one notifier and a notifier one URL; one that is new has no   *)
(* queue; no list has a notifier twice, so that an event is handed to each *)
(* once.                                                                   *)
RegistrationInv ==
  /\ NoneTwice(notifiers)
  /\ \A w \in Writer : NoneTwice(sending[w].todo)
  /\ \A n \in Notifier : Registered(n) \/ Awaits(n) => phase[n] # "new"
  /\ \A w \in Writer, n \in Notifier : overflowed[w] = n => phase[n] # "new"
  /\ \A n \in Notifier : phase[n] # "new" => url[n] \in Subscriber
  /\ \A n \in Notifier : phase[n] = "new" =>
       url[n] = NoSubscriber /\ queue[n] = << >> /\ ~ resync[n] /\ ~ stopped[n] /\ attempt[n] = 1
  /\ \A n \in Notifier : Registered(n) => ~ stopped[n]
  /\ \A m, n \in Notifier : url[m] = url[n] /\ url[n] # NoSubscriber => m = n

(* The parts of the step of one notifier that the others do not see.       *)
LEMMA LoopTouches ==
  ASSUME ManagerInv, NEW n \in Notifier, Loop(n) \/ Exit(n)
  PROVE  /\ UNCHANGED << managerVars, writerVars, url, stopped >>
         /\ phase[n] # "new" /\ phase'[n] # "new"
         /\ \A m \in Notifier \ {n} :
              /\ phase'[m] = phase[m] /\ queue'[m] = queue[m] /\ batch'[m] = batch[m]
              /\ attempt'[m] = attempt[m] /\ resync'[m] = resync[m] /\ asOf'[m] = asOf[m]
         /\ \A u \in Subscriber \ {url[n]} : replica'[u] = replica[u] /\ newest'[u] = newest[u]
<1>1. /\ phase \in [Notifier -> Phase] /\ queue = [m \in Notifier |-> queue[m]]
      /\ batch = [m \in Notifier |-> batch[m]] /\ attempt = [m \in Notifier |-> attempt[m]]
      /\ resync = [m \in Notifier |-> resync[m]] /\ asOf = [m \in Notifier |-> asOf[m]]
      /\ replica = [u \in Subscriber |-> replica[u]] /\ newest = [u \in Subscriber |-> newest[u]]
  BY DEF ManagerInv, ManagerTypeOK
<1>2. CASE Attempt(n)
  <2>1. \A ok \in BOOLEAN : Finish(n, ok) /\ Delivering(n) =>
          /\ phase'[n] # "new"
          /\ \A m \in Notifier \ {n} : phase'[m] = phase[m] /\ resync'[m] = resync[m]
    BY <1>1 DEF Finish
  <2>2. Apply(n) => \A u \in Subscriber \ {url[n]} : replica'[u] = replica[u] /\ newest'[u] = newest[u]
    BY <1>1 DEF Apply
  <2>3. CASE DeliverOk(n)
    BY <1>1, <2>1, <2>2, <2>3 DEF DeliverOk, Advance, Delivering
  <2>4. CASE DeliverFail(n)
    BY <1>1, <2>1, <2>2, <2>4 DEF DeliverFail, Retry, GiveUp, Delivering, subVars
  <2> QED
    BY <1>2, <2>3, <2>4 DEF Attempt
<1>3. CASE AbandonDelivery(n)
  BY <1>1, <1>3 DEF AbandonDelivery, GiveUp, Finish, Delivering, subVars
<1>4. CASE TakeEvent(n)
  BY <1>1, <1>4 DEF TakeEvent, subVars
<1>5. CASE RetryResync(n)
  BY <1>1, <1>5 DEF RetryResync, subVars
<1>6. CASE DrainQueue(n)
  BY <1>1, <1>6 DEF DrainQueue, subVars
<1>7. CASE TakeSnapshot(n)
  BY <1>1, <1>7 DEF TakeSnapshot, subVars
<1>8. CASE Exit(n)
  BY <1>1, <1>8 DEF Exit, subVars
<1> QED
  BY <1>2, <1>3, <1>4, <1>5, <1>6, <1>7, <1>8 DEF Loop

(* Registration, operation by operation: the loop of a notifier does not   *)
(* touch it,                                                               *)
LEMMA LoopRegistration ==
  ASSUME ManagerInv, RegistrationInv, NEW n \in Notifier, Loop(n) \/ Exit(n)
  PROVE  RegistrationInv'
BY LoopTouches DEF RegistrationInv, Registered, Awaits, managerVars, writerVars, Contains

(* nor does a change of the model, which takes the list of notifiers,      *)
LEMMA RecordRegistration ==
  ASSUME ManagerInv, RegistrationInv, NEW w \in Writer, NEW op \in Operation, NEW k \in Key,
         Record(w, op, k)
  PROVE  RegistrationInv'
<1>1. /\ UNCHANGED << notifiers, overflowed, phase, url, queue, resync, stopped, attempt >>
      /\ sending' = [sending EXCEPT ![w] = [ev |-> Numbered(op, k, recorded'), todo |-> notifiers]]
  BY DEF Record, loopVars
<1>2. /\ sending = [v \in Writer |-> sending[v]]
      /\ DOMAIN notifiers = 1 .. Len(notifiers)
  BY LenProperties DEF ManagerInv, ManagerTypeOK
<1>3. \A v \in Writer : sending'[v].todo = IF v = w THEN notifiers ELSE sending[v].todo
  BY <1>1, <1>2
<1>4. \A n \in Notifier : Awaits(n)' => Awaits(n) \/ Registered(n)
  BY <1>2, <1>3 DEF Awaits, Registered, Contains
<1>5. \A v \in Writer : NoneTwice(sending'[v].todo)
  BY <1>3 DEF RegistrationInv
<1> QED
  BY <1>1, <1>4, <1>5 DEF RegistrationInv, Registered, NoneTwice

(* Taking the first of a list that lists nothing twice leaves the others.  *)
LEMMA TailOnce ==
  ASSUME NEW S, NEW s \in Seq(S), s # << >>
  PROVE  LET n == Head(s)
         IN  /\ n \in S
             /\ NoneTwice(s) => NoneTwice(Tail(s))
             /\ Contains(s, n)
             /\ \A m \in S : NoneTwice(s) => (Contains(Tail(s), m) <=> Contains(s, m) /\ m # n)
<1> DEFINE n == Head(s)
<1>1. /\ Len(s) \in Nat \ {0} /\ DOMAIN s = 1 .. Len(s)
      /\ n \in S /\ n = s[1]
      /\ Tail(s) \in Seq(S)
      /\ Len(Tail(s)) = Len(s) - 1 /\ DOMAIN Tail(s) = 1 .. Len(s) - 1
      /\ \A i \in 1 .. Len(s) - 1 : Tail(s)[i] = s[i + 1]
  OBVIOUS
<1>3. NoneTwice(s) => NoneTwice(Tail(s))
  BY <1>1 DEF NoneTwice
<1>4. Contains(s, n)
  BY <1>1 DEF Contains
<1>5. ASSUME NEW m \in S, NoneTwice(s)
      PROVE  Contains(Tail(s), m) <=> Contains(s, m) /\ m # n
  <2>1. ASSUME Contains(Tail(s), m) PROVE Contains(s, m) /\ m # n
    <3>1. PICK i \in 1 .. Len(s) - 1 : Tail(s)[i] = m
      BY <1>1, <2>1 DEF Contains
    <3>2. i + 1 \in 1 .. Len(s) /\ s[i + 1] = m /\ i + 1 # 1
      BY <1>1, <3>1
    <3> QED
      BY <1>1, <1>5, <3>2 DEF Contains, NoneTwice
  <2>2. ASSUME Contains(s, m), m # n PROVE Contains(Tail(s), m)
    <3>1. PICK i \in 1 .. Len(s) : s[i] = m
      BY <2>2 DEF Contains
    <3>2. i # 1 /\ i - 1 \in 1 .. Len(s) - 1 /\ Tail(s)[i - 1] = m
      BY <1>1, <2>2, <3>1
    <3> QED
      BY <1>1, <3>2 DEF Contains
  <2> QED
    BY <2>1, <2>2
<1> QED
  BY <1>1, <1>3, <1>4, <1>5

(* The event ev of the writer w is added to the queue of n, or n is found  *)
(* full; todo is the list of notifiers it is handed out to.                *)
Enqueued(w, n, ev, todo) ==
  /\ sending[w] = [ev |-> ev, todo |-> todo]
  /\ sending' = [sending EXCEPT ![w] = [ev |-> ev, todo |-> Tail(todo)]]
  /\ sending'[w] = [ev |-> ev, todo |-> Tail(todo)]
  /\ overflowed[w] = NoNotifier
  /\ \/ /\ HasRoom(n)
        /\ queue' = [queue EXCEPT ![n] = Append(queue[n], ev)]
        /\ overflowed' = overflowed
     \/ /\ ~ HasRoom(n)
        /\ queue' = queue
        /\ overflowed' = [overflowed EXCEPT ![w] = n]
  /\ Contains(todo, n)
  /\ NoneTwice(todo) => NoneTwice(Tail(todo))
  /\ \A m \in Notifier : NoneTwice(todo) =>
       (Contains(Tail(todo), m) <=> Contains(todo, m) /\ m # n)
  /\ UNCHANGED << managerVars, loopVars, subVars, url, stopped, failures, asOf >>

(* A queue is added to, or found full.                                     *)
LEMMA EnqueueFacts ==
  ASSUME ManagerInv, NEW w \in Writer, Enqueue(w)
  PROVE  \E n \in Notifier, ev \in NumberedEvent, todo \in Seq(Notifier) :
           Enqueued(w, n, ev, todo)
<1>1. sending \in [Writer -> [ev : NumberedEvent, todo : Seq(Notifier)]]
  BY DEF ManagerInv, ManagerTypeOK
<1>2. PICK ev \in NumberedEvent, todo \in Seq(Notifier) : sending[w] = [ev |-> ev, todo |-> todo]
  BY <1>1
<1>3. todo # << >>
  BY <1>2 DEF Enqueue
<1>4. PICK n \in Notifier : n = Head(todo)
  BY <1>3, TailOnce
<1>5. /\ NoneTwice(todo) => NoneTwice(Tail(todo))
      /\ Contains(todo, n)
      /\ \A m \in Notifier : NoneTwice(todo) =>
           (Contains(Tail(todo), m) <=> Contains(todo, m) /\ m # n)
  BY <1>3, <1>4, TailOnce
<1>6. /\ sending' = [sending EXCEPT ![w] = [ev |-> ev, todo |-> Tail(todo)]]
      /\ sending'[w] = [ev |-> ev, todo |-> Tail(todo)]
  BY <1>1, <1>2 DEF Enqueue
<1>7. \/ /\ HasRoom(n)
         /\ queue' = [queue EXCEPT ![n] = Append(queue[n], ev)]
         /\ overflowed' = overflowed
      \/ /\ ~ HasRoom(n)
         /\ queue' = queue
         /\ overflowed' = [overflowed EXCEPT ![w] = n]
  BY <1>2, <1>4 DEF Enqueue, Drop
<1>8. /\ overflowed[w] = NoNotifier
      /\ UNCHANGED << managerVars, loopVars, subVars, url, stopped, failures, asOf >>
  BY DEF Enqueue
<1> QED
  BY <1>2, <1>5, <1>6, <1>7, <1>8 DEF Enqueued

(* nor a hand-out, which takes one notifier off its list;                  *)
LEMMA HandOutRegistration ==
  ASSUME ManagerInv, RegistrationInv, NEW w \in Writer, HandOut(w)
  PROVE  RegistrationInv'
<1>1. CASE Enqueue(w)
  <2>0a. PICK n \in Notifier, ev \in NumberedEvent, todo \in Seq(Notifier) :
         Enqueued(w, n, ev, todo)
    BY <1>1, EnqueueFacts
  <2>0. /\ sending[w] = [ev |-> ev, todo |-> todo]
        /\ sending' = [sending EXCEPT ![w] = [ev |-> ev, todo |-> Tail(todo)]]
        /\ \/ queue' = [queue EXCEPT ![n] = Append(queue[n], ev)] /\ overflowed' = overflowed
           \/ queue' = queue /\ overflowed' = [overflowed EXCEPT ![w] = n]
        /\ Contains(todo, n)
        /\ NoneTwice(todo) => NoneTwice(Tail(todo))
        /\ \A m \in Notifier : NoneTwice(todo) =>
             (Contains(Tail(todo), m) <=> Contains(todo, m) /\ m # n)
        /\ UNCHANGED << managerVars, loopVars, url, stopped >>
    BY <2>0a DEF Enqueued
  <2>1. /\ sending = [v \in Writer |-> sending[v]]
        /\ queue = [m \in Notifier |-> queue[m]]
        /\ overflowed = [v \in Writer |-> overflowed[v]]
    BY DEF ManagerInv, ManagerTypeOK
  <2>2. NoneTwice(todo) /\ NoneTwice(Tail(todo)) /\ Awaits(n)
    BY <2>0 DEF RegistrationInv, Awaits
  <2>3. \A v \in Writer : sending'[v].todo = IF v = w THEN Tail(todo) ELSE sending[v].todo
    BY <2>0, <2>1
  <2>4. \A m \in Notifier : Awaits(m)' => Awaits(m)
    BY <2>0, <2>2, <2>3 DEF Awaits
  <2>5. \A m \in Notifier : m # n => queue'[m] = queue[m]
    BY <2>0, <2>1
  <2>6. UNCHANGED << notifiers, phase, url, resync, stopped, attempt >>
    BY <2>0 DEF managerVars, loopVars
  <2>7. \A v \in Writer : NoneTwice(sending'[v].todo)
    BY <2>2, <2>3 DEF RegistrationInv
  <2>8. phase[n] # "new"
    BY <2>2 DEF RegistrationInv
  <2>9. \A v \in Writer : overflowed'[v] \in {overflowed[v], n}
    BY <2>0, <2>1
  <2> QED
    BY <2>4, <2>5, <2>6, <2>7, <2>8, <2>9 DEF RegistrationInv, Registered, NoneTwice
<1>2. CASE FlagOverflow(w)
  <2>1. UNCHANGED << notifiers, sending, phase, url, queue, stopped, attempt >>
    BY <1>2 DEF FlagOverflow, managerVars
  <2>2. \A m \in Notifier : m # overflowed[w] => resync'[m] = resync[m]
    BY <1>2 DEF FlagOverflow, RaiseFlag, ManagerInv, ManagerTypeOK
  <2>3. overflowed[w] # NoNotifier /\ \A v \in Writer : overflowed'[v] \in {overflowed[v], NoNotifier}
    BY <1>2 DEF FlagOverflow, ManagerInv, ManagerTypeOK
  <2>4. NoNotifier \notin Notifier
    BY EventManagerAssumption
  <2> QED
    BY <2>1, <2>2, <2>3, <2>4 DEF RegistrationInv, Registered, Awaits, NoneTwice
<1> QED
  BY <1>1, <1>2 DEF HandOut

(* The step of a new notifier n for u, which had none before.              *)
LEMMA AddSubscriberFacts ==
  ASSUME ManagerInv, RegistrationInv, MaxSubscriptions = 1,
         NEW u \in Subscriber, AddSubscriber(u)
  PROVE  \E n \in Notifier :
           /\ phase[n] = "new"
           /\ \A m \in Notifier : url[m] # u
           /\ url' = [url EXCEPT ![n] = u]
           /\ notifiers' = Append(notifiers, n)
           /\ batch' = [batch EXCEPT ![n] = StateSnapshot]
           /\ phase' = [phase EXCEPT ![n] = IF StateSnapshot = << >> THEN "wait" ELSE "replay"]
           /\ asOf' = [asOf EXCEPT ![n] = recorded]
           /\ \A m \in Notifier : Registered(m)' <=> Registered(m) \/ m = n
           /\ ~ Registered(n) /\ ~ Awaits(n)
           /\ UNCHANGED << latest, recorded, writerVars, attempt, resync, retryTimer,
                           subVars, queue, stopped, failures >>
<1>1. PICK n \in Notifier :
        /\ phase[n] = "new"
        /\ url' = [url EXCEPT ![n] = u]
        /\ notifiers' = Append(notifiers, n)
        /\ batch' = [batch EXCEPT ![n] = StateSnapshot]
        /\ phase' = [phase EXCEPT ![n] = IF StateSnapshot = << >> THEN "wait" ELSE "replay"]
        /\ asOf' = [asOf EXCEPT ![n] = recorded]
  BY DEF AddSubscriber, Past
<1>2. UNCHANGED << latest, recorded, writerVars, attempt, resync, retryTimer,
                   subVars, queue, stopped, failures >>
  BY DEF AddSubscriber
<1>3. \A m \in Notifier : url[m] # u
  <2> DEFINE had == {m \in Notifier : url[m] = u}
  <2>1. IsFiniteSet(had) /\ Cardinality(had) < 1
    BY FS_Subset, EventManagerAssumption DEF AddSubscriber
  <2>2. Cardinality(had) = 0
    BY <2>1, FS_CardinalityType
  <2> QED
    BY <2>1, <2>2, FS_EmptySet
<1>4. ~ Registered(n) /\ ~ Awaits(n)
  BY <1>1 DEF RegistrationInv
<1>5. /\ Len(notifiers) \in Nat /\ DOMAIN notifiers = 1 .. Len(notifiers)
      /\ DOMAIN notifiers' = 1 .. Len(notifiers) + 1
      /\ \A i \in 1 .. Len(notifiers) : notifiers'[i] = notifiers[i]
      /\ notifiers'[Len(notifiers) + 1] = n
  <2>1. notifiers \in Seq(Notifier)
    BY DEF ManagerInv, ManagerTypeOK
  <2> QED
    BY <1>1, <2>1, AppendProperties, LenProperties
<1>6. ASSUME NEW m \in Notifier
      PROVE  Registered(m)' <=> Registered(m) \/ m = n
  <2>1. ASSUME NEW i \in 1 .. Len(notifiers) + 1
        PROVE  i \in 1 .. Len(notifiers) \/ i = Len(notifiers) + 1
    BY <1>5
  <2>2. Len(notifiers) + 1 \in DOMAIN notifiers' /\ DOMAIN notifiers \subseteq DOMAIN notifiers'
    BY <1>5
  <2> QED
    BY <1>5, <2>1, <2>2 DEF Registered
<1> QED
  BY <1>1, <1>2, <1>3, <1>4, <1>6

(* a URL that registers had no notifier,                                   *)
LEMMA AddSubscriberRegistration ==
  ASSUME ManagerInv, RegistrationInv, MaxSubscriptions = 1,
         NEW u \in Subscriber, AddSubscriber(u)
  PROVE  RegistrationInv'
<1>1. PICK n \in Notifier :
        /\ phase[n] = "new"
        /\ \A m \in Notifier : url[m] # u
        /\ url' = [url EXCEPT ![n] = u]
        /\ notifiers' = Append(notifiers, n)
        /\ phase' = [phase EXCEPT ![n] = IF StateSnapshot = << >> THEN "wait" ELSE "replay"]
        /\ \A m \in Notifier : Registered(m)' <=> Registered(m) \/ m = n
        /\ ~ Registered(n)
        /\ UNCHANGED << writerVars, attempt, resync, queue, stopped >>
  BY AddSubscriberFacts
<1>2. /\ notifiers \in Seq(Notifier) /\ url = [m \in Notifier |-> url[m]]
      /\ phase = [m \in Notifier |-> phase[m]]
  BY DEF ManagerInv, ManagerTypeOK
<1>3. NoneTwice(notifiers')
  <2>1. /\ Len(notifiers) \in Nat /\ DOMAIN notifiers = 1 .. Len(notifiers)
        /\ DOMAIN notifiers' = 1 .. Len(notifiers) + 1
        /\ \A i \in 1 .. Len(notifiers) : notifiers'[i] = notifiers[i] /\ notifiers[i] # n
        /\ notifiers'[Len(notifiers) + 1] = n
    BY <1>1, <1>2, AppendProperties, LenProperties DEF Registered
  <2>2. \A i \in 1 .. Len(notifiers) + 1 : i \in 1 .. Len(notifiers) \/ i = Len(notifiers) + 1
    BY <2>1
  <2>3. NoneTwice(notifiers)
    BY DEF RegistrationInv
  <2> QED
    BY <2>1, <2>2, <2>3 DEF NoneTwice
<1>4. /\ \A m \in Notifier \ {n} : phase'[m] = phase[m] /\ url'[m] = url[m]
      /\ phase'[n] # "new" /\ url'[n] = u
  BY <1>1, <1>2
<1>5. UNCHANGED << sending, overflowed, attempt, resync, queue, stopped >>
  BY <1>1 DEF writerVars
<1>6. \A m \in Notifier : Awaits(m)' <=> Awaits(m)
  BY <1>5 DEF Awaits
<1>7. ~ stopped[n]
  BY <1>1 DEF RegistrationInv
<1> QED
  BY <1>1, <1>3, <1>4, <1>5, <1>6, <1>7 DEF RegistrationInv, NoneTwice

(* What RemoveSubscriber does to the one notifier of the URL.              *)
LEMMA RemoveSubscriberFacts ==
  ASSUME ManagerInv, RegistrationInv, NEW u \in Subscriber, RemoveSubscriber(u)
  PROVE  \E n \in Notifier :
           /\ Registered(n) /\ url[n] = u
           /\ stopped' = [stopped EXCEPT ![n] = TRUE]
           /\ \A m \in Notifier : Registered(m)' <=> Registered(m) /\ m # n
           /\ NoneTwice(notifiers')
           /\ UNCHANGED << latest, recorded, writerVars, loopVars, subVars, url, queue,
                           failures, asOf >>
<1>1. PICK i \in DOMAIN notifiers :
        /\ url[notifiers[i]] = u
        /\ stopped' = [stopped EXCEPT ![notifiers[i]] = TRUE]
        /\ notifiers' = RemoveAt(notifiers, i)
        /\ UNCHANGED << latest, recorded, writerVars, loopVars, subVars, url, queue,
                        failures, asOf >>
  BY DEF RemoveSubscriber
<1> DEFINE n == notifiers[i]
           len == Len(notifiers)
<1>2. notifiers \in Seq(Notifier) /\ len \in Nat /\ DOMAIN notifiers = 1 .. len
  BY LenProperties DEF ManagerInv, ManagerTypeOK
<1>3. n \in Notifier
  BY <1>2, ElementOfSeq
<1>4. /\ DOMAIN notifiers' = 1 .. len - 1
      /\ \A j \in 1 .. len - 1 : notifiers'[j] = IF j < i THEN notifiers[j] ELSE notifiers[j + 1]
  BY <1>1, <1>2, RemoveAtProperties, LenProperties
<1>5. \A j, k \in 1 .. len : notifiers[j] = notifiers[k] => j = k
  BY <1>2 DEF RegistrationInv, NoneTwice
<1>6. \A j \in 1 .. len - 1 : \E k \in 1 .. len :
        k # i /\ notifiers'[j] = notifiers[k] /\ k = IF j < i THEN j ELSE j + 1
  BY <1>2, <1>4
<1>7. NoneTwice(notifiers')
  <2> SUFFICES ASSUME NEW j \in 1 .. len - 1, NEW k \in 1 .. len - 1, notifiers'[j] = notifiers'[k]
               PROVE  j = k
    BY <1>4 DEF NoneTwice
  <2> QED
    BY <1>2, <1>5, <1>6
<1>8. ASSUME NEW m \in Notifier
      PROVE  Registered(m)' <=> Registered(m) /\ m # n
  <2>1. ASSUME Registered(m)' PROVE Registered(m) /\ m # n
    <3>1. PICK j \in 1 .. len - 1 : notifiers'[j] = m
      BY <1>4, <2>1 DEF Registered
    <3>2. PICK k \in 1 .. len : k # i /\ notifiers[k] = m
      BY <1>6, <3>1
    <3>3. m # n
      BY <1>2, <1>5, <3>2
    <3> QED
      BY <1>2, <3>2, <3>3 DEF Registered
  <2>2. ASSUME Registered(m), m # n PROVE Registered(m)'
    <3>1. PICK k \in 1 .. len : notifiers[k] = m
      BY <1>2, <2>2 DEF Registered
    <3>2. CASE k < i
      BY <1>2, <1>4, <3>1, <3>2 DEF Registered
    <3>3. CASE k > i
      <4>1. k - 1 \in 1 .. len - 1 /\ ~ (k - 1 < i) /\ k - 1 + 1 = k
        BY <1>2, <3>3
      <4> QED
        BY <1>4, <3>1, <4>1 DEF Registered
    <3> QED
      BY <1>2, <2>2, <3>1, <3>2, <3>3
  <2> QED
    BY <2>1, <2>2
<1>9. Registered(n)
  BY DEF Registered
<1> QED
  BY <1>1, <1>3, <1>7, <1>8, <1>9

(* and one that unregisters leaves the list.                               *)
LEMMA RemoveSubscriberRegistration ==
  ASSUME ManagerInv, RegistrationInv, NEW u \in Subscriber, RemoveSubscriber(u)
  PROVE  RegistrationInv'
<1>1. PICK n \in Notifier :
        /\ Registered(n) /\ url[n] = u
        /\ stopped' = [stopped EXCEPT ![n] = TRUE]
        /\ \A m \in Notifier : Registered(m)' <=> Registered(m) /\ m # n
        /\ NoneTwice(notifiers')
        /\ UNCHANGED << writerVars, loopVars, url, queue >>
  BY RemoveSubscriberFacts
<1>2. UNCHANGED << sending, overflowed, phase, attempt, resync, url, queue >>
  BY <1>1 DEF writerVars, loopVars
<1>3. \A m \in Notifier : Awaits(m)' <=> Awaits(m)
  BY <1>2 DEF Awaits
<1>4. stopped = [m \in Notifier |-> stopped[m]]
  BY DEF ManagerInv, ManagerTypeOK
<1>5. phase[n] # "new"
  BY <1>1 DEF RegistrationInv
<1> QED
  BY <1>1, <1>2, <1>3, <1>4, <1>5 DEF RegistrationInv, NoneTwice

(* At the start nobody is registered.                                      *)
LEMMA InitRegistration == Init => RegistrationInv
<1> SUFFICES ASSUME Init PROVE RegistrationInv
  OBVIOUS
<1>1. NoNotifier \notin Notifier
  BY EventManagerAssumption
<1>2. /\ \A n \in Notifier : ~ Registered(n) /\ ~ Awaits(n)
      /\ NoneTwice(notifiers) /\ \A w \in Writer : NoneTwice(sending[w].todo)
  BY DEF Init, Registered, Awaits, Contains, NoneTwice
<1> QED
  BY <1>1, <1>2 DEF Init, RegistrationInv

(* Every step keeps the registration.                                      *)
LEMMA RegistrationStep ==
  ASSUME ManagerInv, RegistrationInv, MaxSubscriptions = 1, [Next]_vars
  PROVE  RegistrationInv'
<1>1. CASE UNCHANGED vars
  BY <1>1 DEF RegistrationInv, Registered, Awaits, vars, managerVars, writerVars, loopVars
<1> QED
  BY <1>1, RecordRegistration, HandOutRegistration, AddSubscriberRegistration,
     RemoveSubscriberRegistration, LoopRegistration DEF Next

(* If s mentions k, the last it says of k is v.                            *)
LastSays(s, k, v) == \A i \in DOMAIN s : LastAbout(s, k, i) => Effect(s[i]) = v

(* An event about k is about to be handed to n.                            *)
AwaitsAbout(n, k) ==
  \E w \in Writer : Contains(sending[w].todo, n) /\ sending[w].ev.key = k

(* The flag that makes n resync is set, or a writer that found its queue   *)
(* full is about to set it.                                                *)
ResyncDue(n) == resync[n] \/ \E w \in Writer : overflowed[w] = n

(* What the queue says last of a resource is current.                      *)
QueueCurrent(n) ==
  \A k \in Key : ~ AwaitsAbout(n, k) => LastSays(queue[n], k, latest.state[k])

(* What the batch says last of a live resource, if the queue says nothing  *)
(* of it, is current; if it says nothing either, the subscriber has it.    *)
BatchCovers(n) ==
  \A k \in LiveKeys(latest) : ~ AwaitsAbout(n, k) /\ ~ Mentions(queue[n], k) =>
    /\ LastSays(batch[n], k, latest.state[k])
    /\ ~ Mentions(batch[n], k) => replica[url[n]][k] = latest.state[k]

(* A subscriber that is not about to be resynced is covered: by the queue, *)
(* unless it is about to be emptied, and by the batch, unless it is about  *)
(* to be replaced by a listing.                                            *)
CoveredOrDue(n) ==
  Registered(n) /\ ~ ResyncDue(n) =>
    /\ phase[n] # "drain" => QueueCurrent(n)
    /\ phase[n] \notin {"drain", "snapshot"} => BatchCovers(n)

(* While an event awaits a registered notifier nothing newer is recorded.  *)
SendingCurrent ==
  \A w \in Writer, n \in Notifier : Registered(n) /\ Contains(sending[w].todo, n) =>
    latest.state[sending[w].ev.key] = Effect(sending[w].ev)

(* The inductive invariant under QuietCoversLive.                          *)
CoverInv ==
  /\ ManagerInv
  /\ RegistrationInv
  /\ SendingCurrent
  /\ \A n \in Notifier : CoveredOrDue(n)

(* What an event that is appended, or the first one taken away, does to    *)
(* what a sequence says last.                                              *)
LEMMA AppendSays ==
  ASSUME NEW S, NEW s \in Seq(S), NEW e \in S, NEW k, NEW v
  PROVE  /\ LastSays(Append(s, e), k, v) <=> IF e.key = k THEN Effect(e) = v ELSE LastSays(s, k, v)
         /\ Mentions(Append(s, e), k) <=> e.key = k \/ Mentions(s, k)
<1> DEFINE new == Append(s, e)
           len == Len(s)
<1>1. /\ DOMAIN s = 1 .. len /\ len \in Nat
      /\ DOMAIN new = 1 .. len + 1
      /\ new[len + 1] = e
      /\ \A i \in 1 .. len : new[i] = s[i]
  OBVIOUS
<1>2. \A i \in 1 .. len + 1 : i \in 1 .. len \/ i = len + 1
  BY <1>1
<1>3. len + 1 \in 1 .. len + 1 /\ \A i \in 1 .. len : i \in 1 .. len + 1 /\ len + 1 > i
  BY <1>1
<1> HIDE DEF new, len
<1>4. Mentions(new, k) <=> e.key = k \/ Mentions(s, k)
  BY <1>1, <1>2, <1>3 DEF Mentions
<1>5. CASE e.key = k
  <2>1. LastAbout(new, k, len + 1)
    BY <1>1, <1>3, <1>5 DEF LastAbout
  <2>2. \A i \in 1 .. len + 1 : LastAbout(new, k, i) => i = len + 1
    BY <1>1, <1>2, <1>3, <1>5 DEF LastAbout
  <2> QED
    BY <1>1, <1>3, <1>4, <1>5, <2>1, <2>2 DEF LastSays, new
<1>6. CASE e.key # k
  <2>1. \A i \in 1 .. len : LastAbout(new, k, i) <=> LastAbout(s, k, i)
    BY <1>1, <1>2, <1>3, <1>6 DEF LastAbout
  <2>2. ~ LastAbout(new, k, len + 1)
    BY <1>1, <1>6 DEF LastAbout
  <2>3. LastSays(new, k, v) <=> LastSays(s, k, v)
    BY <1>1, <1>2, <1>3, <2>1, <2>2 DEF LastSays
  <2> QED
    BY <1>4, <1>6, <2>3 DEF new
<1> QED
  BY <1>5, <1>6

(* The same when the first event is taken away,                            *)
LEMMA TailSays ==
  ASSUME NEW S, NEW s \in Seq(S), s # << >>, NEW k, NEW v
  PROVE  /\ LastSays(s, k, v) => LastSays(Tail(s), k, v)
         /\ Mentions(s, k) <=> Head(s).key = k \/ Mentions(Tail(s), k)
         /\ LastSays(s, k, v) /\ Head(s).key = k /\ ~ Mentions(Tail(s), k) => Effect(Head(s)) = v
<1> DEFINE rest == Tail(s)
           len == Len(s)
<1>1. /\ DOMAIN s = 1 .. len /\ len \in Nat \ {0}
      /\ Head(s) = s[1]
      /\ DOMAIN rest = 1 .. len - 1
      /\ \A i \in 1 .. len - 1 : rest[i] = s[i + 1]
  OBVIOUS
<1>2. /\ 1 \in 1 .. len
      /\ \A i \in 1 .. len : i = 1 \/ (i - 1 \in 1 .. len - 1 /\ s[i] = rest[i - 1])
      /\ \A i \in 1 .. len - 1 : i + 1 \in 1 .. len
  BY <1>1
<1> HIDE DEF rest, len
<1>3. Mentions(s, k) <=> s[1].key = k \/ Mentions(rest, k)
  BY <1>1, <1>2 DEF Mentions
<1>4. ASSUME NEW i \in 1 .. len - 1, LastAbout(rest, k, i)
      PROVE  LastAbout(s, k, i + 1)
  <2>1. \A j \in 1 .. len : j > i + 1 => j - 1 \in 1 .. len - 1 /\ j - 1 > i /\ s[j] = rest[j - 1]
    BY <1>1, <1>2
  <2>2. i + 1 \in 1 .. len /\ s[i + 1].key = k
    BY <1>1, <1>2, <1>4 DEF LastAbout
  <2>3. \A j \in 1 .. len : j > i + 1 => s[j].key # k
    BY <1>1, <1>4, <2>1 DEF LastAbout
  <2> QED
    BY <1>1, <2>2, <2>3 DEF LastAbout
<1>5. LastSays(s, k, v) => LastSays(rest, k, v)
  BY <1>1, <1>2, <1>4 DEF LastSays
<1>6. ASSUME s[1].key = k, ~ Mentions(rest, k)
      PROVE  LastAbout(s, k, 1)
  BY <1>1, <1>2, <1>6 DEF LastAbout, Mentions
<1>7. LastSays(s, k, v) /\ s[1].key = k /\ ~ Mentions(rest, k) => Effect(s[1]) = v
  BY <1>1, <1>2, <1>6 DEF LastSays
<1> QED
  BY <1>1, <1>3, <1>5, <1>7 DEF rest

(* The same of an empty sequence,                                          *)
LEMMA EmptySays == ASSUME NEW k, NEW v PROVE LastSays(<< >>, k, v) /\ ~ Mentions(<< >>, k)
BY DEF LastSays, Mentions

(* and of one event.                                                       *)
LEMMA OneSays ==
  ASSUME NEW e, NEW k, NEW v
  PROVE  /\ LastSays(<< e >>, k, v) <=> (e.key = k => Effect(e) = v)
         /\ Mentions(<< e >>, k) <=> e.key = k
<1>1. DOMAIN << e >> = {1} /\ << e >>[1] = e
  OBVIOUS
<1> QED
  BY <1>1 DEF LastSays, LastAbout, Mentions

(* A listing has every live resource as it is.                             *)
LEMMA SnapshotSays ==
  ASSUME ManagerInv, NEW k \in Key
  PROVE  /\ LastSays(StateSnapshot, k, latest.state[k])
         /\ Mentions(StateSnapshot, k) <=> k \in LiveKeys(latest)
<1>1. \A i \in DOMAIN StateSnapshot :
        /\ StateSnapshot[i].key = latest.order[i]
        /\ Effect(StateSnapshot[i]) = latest.state[latest.order[i]]
        /\ i \in DOMAIN latest.order
  BY SnapshotFacts DEF Numbered, Effect
<1>2. LastSays(StateSnapshot, k, latest.state[k])
  BY <1>1 DEF LastSays, LastAbout
<1>3. Mentions(StateSnapshot, k) <=> \E i \in DOMAIN latest.order : latest.order[i] = k
  BY <1>1, SnapshotFacts DEF Mentions
<1>4. (\E i \in DOMAIN latest.order : latest.order[i] = k) <=> k \in LiveKeys(latest)
  BY DEF ManagerInv, OrderListsLive, LiveKeys, IsLive
<1> QED
  BY <1>2, <1>3, <1>4

-----------------------------------------------------------------------------
(* A notifier that a step leaves alone is covered as before.               *)
LEMMA CoveredFrame ==
  ASSUME NEW n \in Notifier, CoveredOrDue(n),
         Registered(n)' => Registered(n), ResyncDue(n) => ResyncDue(n)',
         phase'[n] # "drain" => phase[n] # "drain",
         phase'[n] \notin {"drain", "snapshot"} => phase[n] \notin {"drain", "snapshot"},
         UNCHANGED latest,
         queue'[n] = queue[n], batch'[n] = batch[n], url'[n] = url[n],
         replica'[url[n]] = replica[url[n]],
         \A k \in Key : AwaitsAbout(n, k)' <=> AwaitsAbout(n, k)
  PROVE  CoveredOrDue(n)'
BY DEF CoveredOrDue, QueueCurrent, BatchCovers, LiveKeys, IsLive

(* CoveredOrDue, operation by operation: a change of the model makes the   *)
(* queue out of date, but the event awaits every registered notifier.      *)
LEMMA RecordCovers ==
  ASSUME CoverInv, OneHandOut', NEW w \in Writer, NEW op \in Operation, NEW k \in Key,
         Record(w, op, k)
  PROVE  SendingCurrent' /\ \A n \in Notifier : CoveredOrDue(n)'
<1> DEFINE ev == Numbered(op, k, recorded')
<1>2. recorded' \in Value
  BY ManagerConstants DEF Record, CoverInv, ManagerInv, ManagerTypeOK
<1>3. ev \in NumberedEvent /\ ev.key = k
      /\ [op |-> ev.op, key |-> ev.key, val |-> ev.val] \in Event
  BY <1>2, NumberedType, NumberedFacts
<1>4. \A l \in Key : latest'.state[l] = IF l = k THEN Effect(ev) ELSE latest.state[l]
  <2> DEFINE plain == [op |-> ev.op, key |-> ev.key, val |-> ev.val]
  <2>1. latest' = Receive(latest, plain)
    BY DEF Record, Receive, OrderWith, Payload
  <2>2. Effect(plain) = Effect(ev) /\ plain.key = k
    BY <1>3 DEF Effect
  <2>3. latest \in LatestStores /\ OrderListsLive(latest)
    BY DEF CoverInv, ManagerInv, ManagerTypeOK
  <2> HIDE DEF ev, plain
  <2> QED
    BY <1>3, <2>1, <2>2, <2>3, ReceiveKeepsStore DEF plain
<1>5. /\ sending'[w] = [ev |-> ev, todo |-> notifiers]
      /\ \A v \in Writer \ {w} : sending'[v] = sending[v]
  BY DEF Record, CoverInv, ManagerInv, ManagerTypeOK
<1>6. UNCHANGED << notifiers, overflowed, phase, batch, resync, replica, url, queue >>
  BY DEF Record, loopVars, subVars
<1>1. CASE notifiers = << >>
  BY <1>1, <1>6 DEF SendingCurrent, CoveredOrDue, Registered
<1> SUFFICES ASSUME notifiers # << >>
             PROVE  SendingCurrent' /\ \A n \in Notifier : CoveredOrDue(n)'
  BY <1>1
<1>1a. \A v \in Writer \ {w} : sending[v].todo = << >> /\ sending'[v].todo = << >>
  <2>1. ~ Idle(w)'
    BY <1>5 DEF Idle
  <2> QED
    BY <1>5, <2>1 DEF OneHandOut, Idle
<1>7. SendingCurrent'
  BY <1>1a, <1>3, <1>4, <1>5 DEF SendingCurrent, Contains
<1>8. \A n \in Notifier, l \in Key : ~ AwaitsAbout(n, l)
  BY <1>1a DEF AwaitsAbout, Contains, Record, Idle
<1>9. \A n \in Notifier : Registered(n) => Contains(notifiers, n)
  <2>1. DOMAIN notifiers = 1 .. Len(notifiers)
    BY LenProperties DEF CoverInv, ManagerInv, ManagerTypeOK
  <2> QED
    BY <2>1 DEF Registered, Contains
<1>10. ASSUME NEW n \in Notifier, Registered(n)
       PROVE  \A l \in Key : AwaitsAbout(n, l)' <=> l = k
  BY <1>1a, <1>3, <1>5, <1>9, <1>10 DEF AwaitsAbout, Contains
<1>11. ASSUME NEW n \in Notifier PROVE CoveredOrDue(n)'
  <2> SUFFICES ASSUME Registered(n)', ~ ResyncDue(n)'
               PROVE  /\ phase'[n] # "drain" => QueueCurrent(n)'
                      /\ phase'[n] \notin {"drain", "snapshot"} => BatchCovers(n)'
    BY DEF CoveredOrDue
  <2>1. Registered(n) /\ ~ ResyncDue(n) /\ CoveredOrDue(n)
    BY <1>6 DEF Registered, ResyncDue, CoverInv
  <2>2. \A l \in Key : AwaitsAbout(n, l)' <=> l = k
    BY <1>10, <2>1
  <2>3. phase'[n] # "drain" => QueueCurrent(n)'
    BY <1>4, <1>6, <1>8, <2>1, <2>2 DEF CoveredOrDue, QueueCurrent
  <2>4. phase'[n] \notin {"drain", "snapshot"} => BatchCovers(n)'
    BY <1>4, <1>6, <1>8, <2>1, <2>2 DEF CoveredOrDue, BatchCovers, LiveKeys, IsLive
  <2> QED
    BY <2>3, <2>4
<1> QED
  BY <1>7, <1>11

(* The event is appended to the queue, or a writer is about to set the     *)
(* flag.                                                                   *)
LEMMA EnqueueCovers ==
  ASSUME CoverInv, OneHandOut, NEW w \in Writer, Enqueue(w)
  PROVE  SendingCurrent' /\ \A n \in Notifier : CoveredOrDue(n)'
<1>0. ManagerInv /\ RegistrationInv /\ SendingCurrent
  BY DEF CoverInv
<1>1. \A v \in Writer \ {w} : sending[v].todo = << >>
  BY DEF OneHandOut, Idle, Enqueue
<1>2a. PICK n \in Notifier, ev \in NumberedEvent, todo \in Seq(Notifier) :
       Enqueued(w, n, ev, todo)
  BY <1>0, EnqueueFacts
<1>2. /\ sending[w] = [ev |-> ev, todo |-> todo]
      /\ sending'[w] = [ev |-> ev, todo |-> Tail(todo)]
      /\ overflowed[w] = NoNotifier
      /\ \/ queue' = [queue EXCEPT ![n] = Append(queue[n], ev)] /\ overflowed' = overflowed
         \/ queue' = queue /\ overflowed' = [overflowed EXCEPT ![w] = n]
      /\ Contains(todo, n)
      /\ NoneTwice(todo) =>
           \A m \in Notifier : Contains(Tail(todo), m) <=> Contains(todo, m) /\ m # n
      /\ UNCHANGED << managerVars, loopVars, subVars, url >>
  BY <1>2a DEF Enqueued
<1>3. /\ sending[w].ev = ev /\ sending[w].todo = todo
      /\ sending'[w].ev = ev /\ sending'[w].todo = Tail(todo)
  BY <1>2
<1>3a. /\ ev.key \in Key
       /\ queue \in [Notifier -> Seq(NumberedEvent)]
       /\ overflowed = [v \in Writer |-> overflowed[v]]
  BY <1>0, NumberedFacts DEF ManagerInv, ManagerTypeOK
<1>3b. NoneTwice(todo)
  BY <1>0, <1>3 DEF RegistrationInv
<1>3c. todo # << >>
  BY <1>2 DEF Contains
<1>3d. \A m \in Notifier : Contains(sending'[w].todo, m) <=> Contains(todo, m) /\ m # n
  BY <1>2, <1>3, <1>3b
<1>4. UNCHANGED << latest, notifiers, phase, batch, resync, replica, url >>
  BY <1>2 DEF managerVars, loopVars, subVars
<1>4a. \A v \in Writer \ {w} : sending'[v].todo = << >>
  BY <1>1 DEF Enqueue, ManagerInv, ManagerTypeOK
<1>5. Registered(n) => latest.state[ev.key] = Effect(ev)
  <2>1. Registered(n) => latest.state[sending[w].ev.key] = Effect(sending[w].ev)
    BY <1>0, <1>2, <1>3 DEF SendingCurrent
  <2> QED
    BY <1>3, <2>1
<1>6. SendingCurrent'
  <2>1. ASSUME NEW v \in Writer, NEW m \in Notifier, Registered(m)', Contains(sending'[v].todo, m)
        PROVE  latest'.state[sending'[v].ev.key] = Effect(sending'[v].ev)
    <3>1. v = w
      BY <1>4a, <2>1 DEF Contains
    <3>2. Registered(m) /\ Contains(sending[w].todo, m)
      BY <1>3, <1>3d, <1>4, <2>1, <3>1 DEF Registered
    <3>3. latest.state[sending[w].ev.key] = Effect(sending[w].ev)
      BY <1>0, <3>2 DEF SendingCurrent
    <3> QED
      BY <1>3, <1>4, <3>1, <3>3
  <2> QED
    BY <2>1 DEF SendingCurrent
<1>7. \A m \in Notifier, k \in Key : AwaitsAbout(m, k) <=> Contains(todo, m) /\ ev.key = k
  BY <1>1, <1>3 DEF AwaitsAbout, Contains
<1>8. \A m \in Notifier, k \in Key : AwaitsAbout(m, k)' <=> Contains(todo, m) /\ m # n /\ ev.key = k
  <2>1. \A v \in Writer \ {w}, m \in Notifier : ~ Contains(sending'[v].todo, m)
    BY <1>4a DEF Contains
  <2> QED
    BY <1>3, <1>3d, <2>1 DEF AwaitsAbout
<1>9. ASSUME NEW m \in Notifier, m # n PROVE CoveredOrDue(m)'
  <2>1. /\ queue'[m] = queue[m]
        /\ ResyncDue(m) => ResyncDue(m)'
        /\ \A k \in Key : AwaitsAbout(m, k)' <=> AwaitsAbout(m, k)
    <3>1. NoNotifier # m
      BY EventManagerAssumption
    <3> QED
      BY <1>2, <1>3a, <1>4, <1>7, <1>8, <1>9, <3>1 DEF ResyncDue
  <2>2. CoveredOrDue(m)
    BY DEF CoverInv
  <2> QED
    BY <1>4, <2>1, <2>2, CoveredFrame DEF Registered
<1>10. CASE overflowed' = [overflowed EXCEPT ![w] = n]
  <2>1. ResyncDue(n)'
    BY <1>3a, <1>10 DEF ResyncDue
  <2> QED
    BY <1>6, <1>9, <2>1 DEF CoveredOrDue
<1>11. CASE queue' = [queue EXCEPT ![n] = Append(queue[n], ev)] /\ overflowed' = overflowed
  <2>1. /\ queue'[n] = Append(queue[n], ev) /\ queue[n] \in Seq(NumberedEvent)
        /\ ResyncDue(n)' <=> ResyncDue(n)
        /\ Registered(n)' <=> Registered(n)
    BY <1>3a, <1>4, <1>11 DEF ResyncDue, Registered
  <2>2. \A k \in Key :
          /\ ~ AwaitsAbout(n, k)'
          /\ AwaitsAbout(n, k) <=> ev.key = k
          /\ LastSays(queue'[n], k, latest.state[k]) <=>
               IF ev.key = k THEN Effect(ev) = latest.state[k]
                             ELSE LastSays(queue[n], k, latest.state[k])
          /\ Mentions(queue'[n], k) <=> ev.key = k \/ Mentions(queue[n], k)
    BY <1>2, <1>7, <1>8, <2>1, AppendSays
  <2>3. CoveredOrDue(n)
    BY DEF CoverInv
  <2>4. Registered(n) /\ QueueCurrent(n) => QueueCurrent(n)'
    BY <1>4, <1>5, <2>2 DEF QueueCurrent
  <2>5. BatchCovers(n) => BatchCovers(n)'
    BY <1>4, <2>2 DEF BatchCovers, LiveKeys, IsLive
  <2>6. CoveredOrDue(n)'
    BY <1>4, <2>1, <2>3, <2>4, <2>5 DEF CoveredOrDue
  <2> QED
    BY <1>6, <1>9, <2>6
<1> QED
  BY <1>2, <1>10, <1>11

(* The flag is set.                                                        *)
LEMMA FlagCovers ==
  ASSUME CoverInv, NEW w \in Writer, FlagOverflow(w)
  PROVE  SendingCurrent' /\ \A n \in Notifier : CoveredOrDue(n)'
<1>1. \A v \in Writer : overflowed'[v] = IF v = w THEN NoNotifier ELSE overflowed[v]
  BY DEF FlagOverflow, CoverInv, ManagerInv, ManagerTypeOK
<1>2. /\ resync = [m \in Notifier |-> resync[m]] /\ resync' = [resync EXCEPT ![overflowed[w]] = TRUE]
      /\ UNCHANGED << latest, notifiers, sending, phase, batch, replica, url, queue >>
  BY DEF FlagOverflow, RaiseFlag, managerVars, subVars, CoverInv, ManagerInv, ManagerTypeOK
<1>3. SendingCurrent'
  BY <1>2 DEF CoverInv, SendingCurrent, Registered
<1>4. ASSUME NEW n \in Notifier PROVE CoveredOrDue(n)'
  <2>1. ResyncDue(n) => ResyncDue(n)'
    BY <1>1, <1>2 DEF ResyncDue
  <2>2. \A k \in Key : AwaitsAbout(n, k)' <=> AwaitsAbout(n, k)
    BY <1>2 DEF AwaitsAbout
  <2>3. CoveredOrDue(n)
    BY DEF CoverInv
  <2> QED
    BY <1>2, <2>1, <2>2, <2>3, CoveredFrame DEF Registered
<1> QED
  BY <1>3, <1>4

(* What the snapshot says covers every live resource, whatever the queue.  *)
LEMMA SnapshotCovers ==
  ASSUME ManagerInv, NEW n \in Notifier, UNCHANGED latest, batch'[n] = StateSnapshot
  PROVE  BatchCovers(n)'
<1>1. \A k \in LiveKeys(latest) :
        LastSays(StateSnapshot, k, latest.state[k]) /\ Mentions(StateSnapshot, k)
  BY SnapshotSays DEF LiveKeys
<1> QED
  BY <1>1 DEF BatchCovers, LiveKeys, IsLive

(* A subscriber that registers has the whole listing before it.            *)
LEMMA AddSubscriberCovers ==
  ASSUME CoverInv, MaxSubscriptions = 1, NEW u \in Subscriber, AddSubscriber(u)
  PROVE  SendingCurrent' /\ \A n \in Notifier : CoveredOrDue(n)'
<1>0. ManagerInv /\ RegistrationInv
  BY DEF CoverInv
<1>1. PICK n \in Notifier :
        /\ phase[n] = "new"
        /\ url' = [url EXCEPT ![n] = u]
        /\ batch' = [batch EXCEPT ![n] = StateSnapshot]
        /\ phase' = [phase EXCEPT ![n] = IF StateSnapshot = << >> THEN "wait" ELSE "replay"]
        /\ \A m \in Notifier : Registered(m)' <=> Registered(m) \/ m = n
        /\ ~ Awaits(n)
        /\ UNCHANGED << latest, writerVars, resync, subVars, queue >>
  BY <1>0, AddSubscriberFacts
<1>2. UNCHANGED << latest, sending, overflowed, resync, replica, queue >>
  BY <1>1 DEF writerVars, subVars
<1>3. SendingCurrent'
  BY <1>1, <1>2 DEF CoverInv, SendingCurrent, Awaits
<1>4. /\ url = [m \in Notifier |-> url[m]] /\ batch = [m \in Notifier |-> batch[m]]
      /\ phase = [m \in Notifier |-> phase[m]]
  BY <1>0 DEF ManagerInv, ManagerTypeOK
<1>5. \A m \in Notifier : ResyncDue(m)' <=> ResyncDue(m)
  BY <1>2 DEF ResyncDue
<1>6. \A m \in Notifier, k \in Key : AwaitsAbout(m, k)' <=> AwaitsAbout(m, k)
  BY <1>2 DEF AwaitsAbout
<1>7. ASSUME NEW m \in Notifier, m # n PROVE CoveredOrDue(m)'
  BY <1>1, <1>2, <1>4, <1>5, <1>6, <1>7, CoveredFrame DEF CoverInv
<1>8. QueueCurrent(n)'
  <2>1. queue'[n] = << >>
    BY <1>0, <1>1, <1>2 DEF RegistrationInv
  <2> QED
    BY <2>1, EmptySays DEF QueueCurrent
<1>9. BatchCovers(n)'
  BY <1>0, <1>1, <1>4, SnapshotCovers
<1> QED
  BY <1>3, <1>7, <1>8, <1>9 DEF CoveredOrDue

(* One that unregisters is not promised anything.                          *)
LEMMA RemoveSubscriberCovers ==
  ASSUME CoverInv, NEW u \in Subscriber, RemoveSubscriber(u)
  PROVE  SendingCurrent' /\ \A n \in Notifier : CoveredOrDue(n)'
<1>1. PICK n \in Notifier :
        /\ \A m \in Notifier : Registered(m)' <=> Registered(m) /\ m # n
        /\ UNCHANGED << latest, writerVars, loopVars, subVars, url, queue >>
  BY RemoveSubscriberFacts DEF CoverInv
<1>2. UNCHANGED << latest, sending, overflowed, phase, batch, resync, replica, url, queue >>
  BY <1>1 DEF writerVars, loopVars, subVars
<1>3. SendingCurrent'
  BY <1>1, <1>2 DEF CoverInv, SendingCurrent
<1>4. ASSUME NEW m \in Notifier PROVE CoveredOrDue(m)'
  <2>1. /\ ResyncDue(m)' <=> ResyncDue(m)
        /\ \A k \in Key : AwaitsAbout(m, k)' <=> AwaitsAbout(m, k)
    BY <1>2 DEF ResyncDue, AwaitsAbout
  <2> QED
    BY <1>1, <1>2, <2>1, CoveredFrame DEF CoverInv
<1> QED
  BY <1>3, <1>4

-----------------------------------------------------------------------------
(***************************************************************************)
(* The steps of a notifier.  Those of the others are none of its business, *)
(* because they deliver to other subscribers.                              *)
(***************************************************************************)
LEMMA OthersCovered ==
  ASSUME CoverInv, NEW n \in Notifier, Loop(n) \/ Exit(n)
  PROVE  SendingCurrent' /\ \A m \in Notifier \ {n} : CoveredOrDue(m)'
<1>0. ManagerInv /\ RegistrationInv
  BY DEF CoverInv
<1>1. /\ UNCHANGED << latest, notifiers, sending, overflowed, url >>
      /\ phase[n] # "new"
      /\ \A m \in Notifier \ {n} :
           /\ phase'[m] = phase[m] /\ queue'[m] = queue[m] /\ batch'[m] = batch[m]
           /\ resync'[m] = resync[m]
      /\ \A u \in Subscriber \ {url[n]} : replica'[u] = replica[u]
  BY <1>0, LoopTouches DEF managerVars, writerVars
<1>2. SendingCurrent'
  BY <1>1 DEF CoverInv, SendingCurrent, Registered
<1>3. ASSUME NEW m \in Notifier \ {n} PROVE CoveredOrDue(m)'
  <2>1. CASE ~ Registered(m)
    BY <1>1, <2>1 DEF CoveredOrDue, Registered
  <2>2. CASE Registered(m)
    <3>1. url[m] \in Subscriber /\ url[m] # url[n]
      BY <1>0, <2>2, EventManagerAssumption DEF RegistrationInv
    <3>2. /\ ResyncDue(m)' <=> ResyncDue(m)
          /\ Registered(m)' <=> Registered(m)
          /\ \A k \in Key : AwaitsAbout(m, k)' <=> AwaitsAbout(m, k)
      BY <1>1 DEF ResyncDue, AwaitsAbout, Registered
    <3> QED
      BY <1>1, <3>1, <3>2, CoveredFrame DEF CoverInv
  <2> QED
    BY <2>1, <2>2
<1> QED
  BY <1>2, <1>3

(* A delivery that is given up leaves a resync due.                        *)
LEMMA GiveUpCovers ==
  ASSUME CoverInv, NEW n \in Notifier, Delivering(n), GiveUp(n), UNCHANGED << notifiers, overflowed >>
  PROVE  CoveredOrDue(n)'
<1>1. phase \in [Notifier -> Phase] /\ resync = [m \in Notifier |-> resync[m]]
  BY DEF CoverInv, ManagerInv, ManagerTypeOK
<1>2. /\ phase' = [phase EXCEPT ![n] = IF phase[n] = "live" THEN "drain" ELSE "wait"]
      /\ resync' = [resync EXCEPT ![n] = phase[n] # "live"]
  BY DEF GiveUp, Finish, FlagAfter
<1>3. CASE phase[n] = "live"
  BY <1>1, <1>2, <1>3 DEF CoveredOrDue
<1>4. CASE phase[n] # "live"
  BY <1>1, <1>2, <1>4 DEF CoveredOrDue, ResyncDue
<1> QED
  BY <1>3, <1>4

(* The subscriber has what the head of the batch says.                     *)
LEMMA ApplySays ==
  ASSUME ManagerInv, RegistrationInv, NEW n \in Notifier, Delivering(n), Apply(n)
  PROVE  /\ url[n] \in Subscriber
         /\ Head(batch[n]) \in NumberedEvent /\ batch[n] # << >> /\ batch[n] \in Seq(NumberedEvent)
         /\ \A k \in Key : replica'[url[n]][k] =
              IF k = Head(batch[n]).key THEN Effect(Head(batch[n])) ELSE replica[url[n]][k]
<1>1. batch[n] \in Seq(NumberedEvent) /\ batch[n] # << >> /\ Head(batch[n]) \in NumberedEvent
  BY HeadTailProperties DEF ManagerInv, ManagerTypeOK
<1>2. url[n] \in Subscriber
  BY DEF RegistrationInv, Delivering
<1>3. /\ replica \in [Subscriber -> [Key -> Value \cup {Absent}]]
      /\ replica' = [replica EXCEPT ![url[n]] =
                       [replica[url[n]] EXCEPT ![Head(batch[n]).key] = Effect(Head(batch[n]))]]
  BY DEF ManagerInv, ManagerTypeOK, Apply, ApplyEvent
<1> QED
  BY <1>1, <1>2, <1>3, NumberedFacts

(* What is delivered is no longer in the batch, but in the subscriber's    *)
(* copy.                                                                   *)
LEMMA DeliverOkCovers ==
  ASSUME CoverInv, NEW n \in Notifier, DeliverOk(n)
  PROVE  CoveredOrDue(n)'
<1>0. ManagerInv /\ RegistrationInv /\ Delivering(n) /\ Apply(n) /\ CoveredOrDue(n)
  BY DEF CoverInv, DeliverOk
<1>1. UNCHANGED << latest, notifiers, sending, overflowed, url, queue >>
  BY DEF DeliverOk, managerVars, writerVars
<1>2. /\ batch = [m \in Notifier |-> batch[m]]
      /\ phase \in [Notifier -> Phase] /\ resync = [m \in Notifier |-> resync[m]]
  BY <1>0 DEF ManagerInv, ManagerTypeOK
<1>3. batch'[n] = Tail(batch[n])
  BY <1>2 DEF DeliverOk, Advance
<1>4. \/ phase'[n] = "drain" /\ phase[n] = "live" /\ resync[n]
      \/ /\ phase'[n] \in {phase[n], "wait"}
         /\ resync'[n] = resync[n]
  <2>1. UNCHANGED << phase, resync >> \/ Finish(n, TRUE)
    BY DEF DeliverOk, Advance
  <2>2. CASE Finish(n, TRUE)
    <3>1. /\ phase'[n] = IF phase[n] = "live" /\ resync[n] THEN "drain" ELSE "wait"
          /\ resync'[n] = (phase[n] # "live" /\ resync[n])
      BY <1>2, <2>2 DEF Finish, FlagAfter
    <3>2. resync[n] \in BOOLEAN
      BY <1>0 DEF ManagerInv, ManagerTypeOK
    <3>3. CASE phase[n] = "live"
      BY <3>1, <3>2, <3>3
    <3>4. CASE phase[n] # "live"
      BY <3>1, <3>2, <3>4
    <3> QED
      BY <3>3, <3>4
  <2> QED
    BY <2>1, <2>2
<1>5. /\ Registered(n)' <=> Registered(n)
      /\ \A k \in Key : AwaitsAbout(n, k)' <=> AwaitsAbout(n, k)
  BY <1>1 DEF AwaitsAbout, Registered
<1>6. QueueCurrent(n) => QueueCurrent(n)'
  BY <1>1, <1>5 DEF QueueCurrent
<1>7. BatchCovers(n) => BatchCovers(n)'
  <2> SUFFICES ASSUME BatchCovers(n), NEW k \in LiveKeys(latest),
                      ~ AwaitsAbout(n, k), ~ Mentions(queue[n], k)
               PROVE  /\ LastSays(Tail(batch[n]), k, latest.state[k])
                      /\ ~ Mentions(Tail(batch[n]), k) => replica'[url[n]][k] = latest.state[k]
    BY <1>1, <1>3, <1>5 DEF BatchCovers, LiveKeys, IsLive
  <2>1. /\ LastSays(batch[n], k, latest.state[k])
        /\ ~ Mentions(batch[n], k) => replica[url[n]][k] = latest.state[k]
        /\ k \in Key
    BY DEF BatchCovers, LiveKeys
  <2>2. /\ LastSays(Tail(batch[n]), k, latest.state[k])
        /\ Mentions(batch[n], k) <=> Head(batch[n]).key = k \/ Mentions(Tail(batch[n]), k)
        /\ Head(batch[n]).key = k /\ ~ Mentions(Tail(batch[n]), k) =>
             Effect(Head(batch[n])) = latest.state[k]
    BY <1>0, <2>1, ApplySays, TailSays
  <2> QED
    BY <1>0, <2>1, <2>2, ApplySays
<1>8. CASE phase'[n] = "drain"
  BY <1>8 DEF CoveredOrDue
<1>9. CASE phase'[n] \in {phase[n], "wait"} /\ resync'[n] = resync[n]
  <2>1. ResyncDue(n)' <=> ResyncDue(n)
    BY <1>1, <1>9 DEF ResyncDue
  <2>2. phase[n] \notin {"drain", "snapshot"}
    BY <1>0 DEF Delivering
  <2> QED
    BY <1>0, <1>5, <1>6, <1>7, <2>1, <2>2 DEF CoveredOrDue
<1> QED
  BY <1>4, <1>8, <1>9

(* What fails is tried again or makes the notifier resync.                 *)
LEMMA DeliverFailCovers ==
  ASSUME CoverInv, NEW n \in Notifier, DeliverFail(n)
  PROVE  CoveredOrDue(n)'
<1>0. ManagerInv /\ RegistrationInv /\ Delivering(n) /\ CoveredOrDue(n)
  BY DEF CoverInv, DeliverFail
<1>1. UNCHANGED << latest, notifiers, sending, overflowed, url, queue >>
  BY DEF DeliverFail, managerVars, writerVars, Retry
<1>2. CASE GiveUp(n)
  BY <1>0, <1>1, <1>2, GiveUpCovers
<1>3. CASE Retry(n)
  <2>1. UNCHANGED << phase, batch, resync >>
    BY <1>3 DEF Retry
  <2>2. /\ Registered(n)' <=> Registered(n)
        /\ ResyncDue(n)' <=> ResyncDue(n)
        /\ \A k \in Key : AwaitsAbout(n, k)' <=> AwaitsAbout(n, k)
    BY <1>1, <2>1 DEF AwaitsAbout, Registered, ResyncDue
  <2>3. CASE UNCHANGED subVars
    BY <1>0, <1>1, <2>1, <2>2, <2>3, CoveredFrame DEF subVars
  <2>4. CASE Apply(n)
    <3>1. QueueCurrent(n) => QueueCurrent(n)'
      BY <1>1, <2>2 DEF QueueCurrent
    <3>2. \A k \in Key : ~ Mentions(batch[n], k) => replica'[url[n]][k] = replica[url[n]][k]
      BY <1>0, <2>4, ApplySays, TailSays
    <3>3. BatchCovers(n) => BatchCovers(n)'
      BY <1>1, <2>1, <2>2, <3>2 DEF BatchCovers, LiveKeys, IsLive
    <3> QED
      BY <1>0, <2>1, <2>2, <3>1, <3>3 DEF CoveredOrDue
  <2> QED
    BY <2>3, <2>4 DEF DeliverFail
<1> QED
  BY <1>2, <1>3 DEF DeliverFail

(* The first event of the queue becomes the batch.                         *)
LEMMA TakeEventCovers ==
  ASSUME CoverInv, NEW n \in Notifier, TakeEvent(n)
  PROVE  CoveredOrDue(n)'
<1>0. ManagerInv /\ CoveredOrDue(n)
  BY DEF CoverInv
<1>1. UNCHANGED << latest, notifiers, sending, overflowed, resync, replica, url >>
  BY DEF TakeEvent, managerVars, writerVars, subVars
<1>2. /\ phase[n] = "wait" /\ queue[n] # << >> /\ batch[n] = << >>
      /\ queue[n] \in Seq(NumberedEvent)
      /\ queue'[n] = Tail(queue[n]) /\ batch'[n] = << Head(queue[n]) >>
  BY <1>0 DEF TakeEvent, ManagerInv, ManagerTypeOK, Delivering
<1>3. /\ Registered(n)' <=> Registered(n)
      /\ ResyncDue(n)' <=> ResyncDue(n)
      /\ \A k \in Key : AwaitsAbout(n, k)' <=> AwaitsAbout(n, k)
  BY <1>1 DEF AwaitsAbout, Registered, ResyncDue
<1>4. QueueCurrent(n) => QueueCurrent(n)'
  BY <1>1, <1>2, <1>3, TailSays DEF QueueCurrent
<1>5. QueueCurrent(n) /\ BatchCovers(n) => BatchCovers(n)'
  <2> SUFFICES ASSUME QueueCurrent(n), BatchCovers(n), NEW k \in LiveKeys(latest),
                      ~ AwaitsAbout(n, k), ~ Mentions(Tail(queue[n]), k)
               PROVE  /\ LastSays(<< Head(queue[n]) >>, k, latest.state[k])
                      /\ ~ Mentions(<< Head(queue[n]) >>, k) => replica[url[n]][k] = latest.state[k]
    BY <1>1, <1>2, <1>3 DEF BatchCovers, LiveKeys, IsLive
  <2>1. LastSays(queue[n], k, latest.state[k])
    BY DEF QueueCurrent, LiveKeys
  <2>2. /\ Mentions(queue[n], k) <=> Head(queue[n]).key = k
        /\ Head(queue[n]).key = k => Effect(Head(queue[n])) = latest.state[k]
    BY <1>2, <2>1, TailSays
  <2>3. ~ Mentions(queue[n], k) => replica[url[n]][k] = latest.state[k]
    BY <1>2, EmptySays DEF BatchCovers
  <2> QED
    BY <2>2, <2>3, OneSays
<1> QED
  BY <1>0, <1>2, <1>3, <1>4, <1>5 DEF CoveredOrDue

(* All steps of the loop, with those of a resync: it empties the queue     *)
(* before it takes the listing.                                            *)
LEMMA LoopCovers ==
  ASSUME CoverInv, NEW n \in Notifier, Loop(n) \/ Exit(n)
  PROVE  SendingCurrent' /\ \A m \in Notifier : CoveredOrDue(m)'
<1> SUFFICES CoveredOrDue(n)'
  BY OthersCovered
<1>0. ManagerInv /\ CoveredOrDue(n)
  BY DEF CoverInv
<1>1. /\ UNCHANGED << latest, notifiers, sending, overflowed, url >>
      /\ Registered(n)' <=> Registered(n)
      /\ \A k \in Key : AwaitsAbout(n, k)' <=> AwaitsAbout(n, k)
  BY <1>0, LoopTouches DEF managerVars, writerVars, AwaitsAbout, Registered
<1>2. /\ phase \in [Notifier -> Phase] /\ resync = [m \in Notifier |-> resync[m]]
      /\ queue = [m \in Notifier |-> queue[m]] /\ batch = [m \in Notifier |-> batch[m]]
  BY <1>0 DEF ManagerInv, ManagerTypeOK
<1>3. CASE Attempt(n)
  BY <1>3, DeliverOkCovers, DeliverFailCovers DEF Attempt
<1>4. CASE AbandonDelivery(n)
  BY <1>1, <1>4, GiveUpCovers DEF AbandonDelivery
<1>5. CASE TakeEvent(n)
  BY <1>5, TakeEventCovers
<1>6. CASE RetryResync(n)
  <2>1. /\ UNCHANGED << batch, replica, queue >>
        /\ phase[n] = "wait"
        /\ resync[n] => phase'[n] = "drain"
    BY <1>2, <1>6 DEF RetryResync, subVars
  <2>2. CASE resync[n]
    BY <2>1, <2>2 DEF CoveredOrDue
  <2>3. CASE ~ resync[n]
    <3>1. ResyncDue(n) => ResyncDue(n)'
      BY <1>1, <2>3 DEF ResyncDue
    <3> QED
      BY <1>0, <1>1, <2>1, <3>1, CoveredFrame
  <2> QED
    BY <2>2, <2>3
<1>7. CASE DrainQueue(n)
  <2>1. /\ phase'[n] = "drain" \/ (phase'[n] = "snapshot" /\ queue'[n] = << >>)
    BY <1>2, <1>7 DEF DrainQueue
  <2> QED
    BY <2>1, EmptySays DEF CoveredOrDue, QueueCurrent
<1>8. CASE TakeSnapshot(n)
  <2>1. /\ phase[n] = "snapshot" /\ batch'[n] = StateSnapshot
        /\ UNCHANGED << resync, queue >>
    BY <1>2, <1>8 DEF TakeSnapshot
  <2>2. BatchCovers(n)'
    BY <1>0, <1>1, <2>1, SnapshotCovers
  <2>3. ResyncDue(n)' <=> ResyncDue(n)
    BY <1>1, <2>1 DEF ResyncDue
  <2>4. QueueCurrent(n) => QueueCurrent(n)'
    BY <1>1, <2>1 DEF QueueCurrent
  <2> QED
    BY <1>0, <1>1, <2>1, <2>2, <2>3, <2>4 DEF CoveredOrDue
<1>9. CASE Exit(n)
  <2>1. phase[n] = "wait" /\ UNCHANGED << batch, resync, replica, queue >>
    BY <1>9 DEF Exit, subVars
  <2>2. ResyncDue(n)' <=> ResyncDue(n)
    BY <1>1, <2>1 DEF ResyncDue
  <2> QED
    BY <1>0, <1>1, <2>1, <2>2, CoveredFrame
<1> QED
  BY <1>3, <1>4, <1>5, <1>6, <1>7, <1>8, <1>9 DEF Loop

(***************************************************************************)
(* A subscriber with nothing on its way to it has every live resource,     *)
(* whatever was dropped on the way, if every URL is registered once and    *)
(* no two goroutines hand out events at the same time.                     *)
(***************************************************************************)
THEOREM QuietCovered ==
  ASSUME MaxSubscriptions = 1
  PROVE  Spec /\ []OneHandOut => []QuietCoversLive
<1>1. Init => CoverInv
  <2> SUFFICES ASSUME Init PROVE CoverInv
    OBVIOUS
  <2>1. \A n \in Notifier : CoveredOrDue(n)
    BY DEF Init, CoveredOrDue, Registered
  <2>2. SendingCurrent
    BY DEF Init, SendingCurrent, Registered
  <2> QED
    BY <2>1, <2>2, InitManager, InitRegistration DEF CoverInv
<1>2. CoverInv /\ OneHandOut /\ OneHandOut' /\ [Next]_vars => CoverInv'
  <2> SUFFICES ASSUME CoverInv, OneHandOut, OneHandOut', [Next]_vars PROVE CoverInv'
    OBVIOUS
  <2>1. ManagerInv'
    BY ManagerStep DEF CoverInv
  <2>2. RegistrationInv'
    BY RegistrationStep DEF CoverInv
  <2>3. SendingCurrent' /\ \A n \in Notifier : CoveredOrDue(n)'
    <3>1. CASE UNCHANGED vars
      <4>1. UNCHANGED << latest, notifiers, sending, overflowed, phase, batch, resync, replica, url, queue >>
        BY <3>1 DEF vars, managerVars, writerVars, loopVars, subVars
      <4>2. SendingCurrent'
        BY <4>1 DEF CoverInv, SendingCurrent, Registered
      <4>3. ASSUME NEW n \in Notifier PROVE CoveredOrDue(n)'
        <5>1. /\ ResyncDue(n)' <=> ResyncDue(n)
              /\ \A k \in Key : AwaitsAbout(n, k)' <=> AwaitsAbout(n, k)
          BY <4>1 DEF ResyncDue, AwaitsAbout
        <5> QED
          BY <4>1, <5>1, CoveredFrame DEF CoverInv, Registered
      <4> QED
        BY <4>2, <4>3
    <3> QED
      BY <3>1, RecordCovers, EnqueueCovers, FlagCovers, AddSubscriberCovers, RemoveSubscriberCovers,
         LoopCovers DEF Next, HandOut
  <2> QED
    BY <2>1, <2>2, <2>3 DEF CoverInv
<1>3. CoverInv => QuietCoversLive
  <2> SUFFICES ASSUME CoverInv, NEW n \in Notifier, Quiet(n), NEW k \in LiveKeys(latest)
               PROVE  replica[url[n]][k] = latest.state[k]
    BY DEF QuietCoversLive
  <2>1. ~ ResyncDue(n) /\ ~ AwaitsAbout(n, k)
    BY DEF Quiet, ResyncDue, AwaitsAbout
  <2>2. batch[n] = << >> /\ queue[n] = << >>
    BY DEF Quiet, CoverInv, ManagerInv, ManagerTypeOK, Delivering
  <2>3. BatchCovers(n)
    BY <2>1 DEF CoverInv, CoveredOrDue, Quiet
  <2> QED
    BY <2>1, <2>2, <2>3, EmptySays DEF BatchCovers
<1> QED
  BY <1>1, <1>2, <1>3, PTL DEF Spec

-----------------------------------------------------------------------------
(***************************************************************************)
(* Undisturbed delivery: one hand-out at a time, and nothing dropped.  A   *)
(* notifier that resyncs or abandons a delivery is not registered.         *)
(***************************************************************************)
(* A subscriber has nothing before it is registered.                       *)
FreshCopies ==
  \A u \in Subscriber : (\A n \in Notifier : url[n] # u) =>
    replica[u] = EmptyReplica /\ newest[u] = [k \in Key |-> 0]

(* The counters are numbers.                                               *)
LEMMA CounterFacts ==
  ASSUME ManagerInv, NEW n \in Notifier
  PROVE  /\ recorded \in Nat /\ recorded <= MaxEvents /\ MaxEvents \in Nat /\ QueueDepth \in Nat
         /\ attempt[n] \in Nat /\ failures \in Nat /\ failures <= MaxFailures
         /\ MaxFailures \in Nat /\ MaxAttempts \in Nat
         /\ Len(queue[n]) \in Nat /\ queue[n] \in Seq(NumberedEvent)
<1>1. queue[n] \in Seq(NumberedEvent)
  BY DEF ManagerInv, ManagerTypeOK
<1>2. Len(queue[n]) \in Nat
  BY <1>1, LenProperties
<1> QED
  BY <1>1, <1>2, ManagerConstants DEF ManagerInv, ManagerTypeOK

(* A failed attempt to deliver to a registered notifier is not the last.   *)
LEMMA FailRetries ==
  ASSUME ManagerInv, RegistrationInv, NothingDropped', NEW n \in Notifier, Registered(n),
         DeliverFail(n)
  PROVE  Retry(n)
<1> SUFFICES ASSUME GiveUp(n) PROVE FALSE
  BY DEF DeliverFail
<1>1. Registered(n)'
  BY DEF DeliverFail, managerVars, Registered
<1>2. phase'[n] = "drain" \/ resync'[n]
  BY DEF GiveUp, Finish, FlagAfter, ManagerInv, ManagerTypeOK
<1> QED
  BY <1>1, <1>2 DEF NothingDropped

(* What holds of every state of undisturbed delivery.                      *)
ReliableInv == ManagerInv /\ RegistrationInv /\ FreshCopies

(* It holds at the start                                                   *)
LEMMA InitReliable == Init => ReliableInv
<1> SUFFICES ASSUME Init PROVE ReliableInv
  OBVIOUS
<1>1. ManagerInv /\ RegistrationInv
  BY InitManager, InitRegistration
<1>2. FreshCopies
  BY DEF Init, FreshCopies
<1> QED
  BY <1>1, <1>2 DEF ReliableInv

(* A subscriber's copy changes once it is registered.                      *)
LEMMA FreshStep ==
  ASSUME ReliableInv, MaxSubscriptions = 1, [Next]_vars
  PROVE  FreshCopies'
<1>0. ManagerInv /\ RegistrationInv /\ FreshCopies
  BY DEF ReliableInv
<1>1. CASE UNCHANGED << url, replica, newest >>
  BY <1>0, <1>1 DEF FreshCopies
<1>2. ASSUME NEW u \in Subscriber, AddSubscriber(u) PROVE FreshCopies'
  <2>1. PICK n \in Notifier :
          /\ phase[n] = "new"
          /\ url' = [url EXCEPT ![n] = u]
          /\ UNCHANGED subVars
    BY <1>0, <1>2, AddSubscriberFacts
  <2>2. url[n] = NoSubscriber /\ NoSubscriber \notin Subscriber
    BY <1>0, <2>1, EventManagerAssumption DEF RegistrationInv
  <2>3. \A v \in Subscriber, m \in Notifier : url'[m] # v => url[m] # v
    BY <1>0, <2>1, <2>2 DEF ManagerInv, ManagerTypeOK
  <2>4. UNCHANGED << replica, newest >>
    BY <2>1 DEF subVars
  <2> QED
    BY <1>0, <2>3, <2>4 DEF FreshCopies
<1>3. ASSUME NEW n \in Notifier, Loop(n) \/ Exit(n) PROVE FreshCopies'
  <2>1. /\ url' = url
        /\ \A u \in Subscriber \ {url[n]} : replica'[u] = replica[u] /\ newest'[u] = newest[u]
    BY <1>0, <1>3, LoopTouches
  <2> QED
    BY <1>0, <2>1 DEF FreshCopies
<1>4. CASE UNCHANGED vars
  BY <1>1, <1>4 DEF vars, subVars
<1>5. ASSUME NEW w \in Writer, HandOut(w) PROVE FreshCopies'
  BY <1>1, <1>5 DEF HandOut, Enqueue, FlagOverflow, subVars
<1>6. ASSUME NEW w \in Writer, NEW op \in Operation, NEW k \in Key, Record(w, op, k)
      PROVE  FreshCopies'
  BY <1>1, <1>6 DEF Record, subVars
<1>7. ASSUME NEW u \in Subscriber, RemoveSubscriber(u) PROVE FreshCopies'
  BY <1>1, <1>7 DEF RemoveSubscriber, subVars
<1> QED
  BY <1>2, <1>3, <1>4, <1>5, <1>6, <1>7 DEF Next

(* and every step keeps it.                                                *)
LEMMA ReliableStep ==
  ASSUME ReliableInv, MaxSubscriptions = 1, [Next]_vars
  PROVE  ReliableInv'
<1>1. ManagerInv /\ RegistrationInv
  BY DEF ReliableInv
<1> QED
  BY <1>1, ManagerStep, RegistrationStep, FreshStep DEF ReliableInv

-----------------------------------------------------------------------------
(***************************************************************************)
(* What is on its way to a registered notifier's subscriber: what the      *)
(* notifier is delivering, its queue, and what a writer has yet to hand to *)
(* it.  Every step leaves that as it is, appends what is recorded, takes   *)
(* away what is delivered, or begins or ends it.                           *)
(***************************************************************************)
Way(n) == batch[n] \o queue[n] \o Unsent(n)

(* An event moves from one part of the way to the next.                    *)
LEMMA ConcatMoves ==
  ASSUME NEW S, NEW b \in Seq(S), NEW q \in Seq(S), NEW e \in S
  PROVE  /\ b \o q \in Seq(S)
         /\ (b \o q) \o << >> = b \o q
         /\ (b \o q) \o << e >> = Append(b \o q, e)
         /\ b \o Append(q, e) = (b \o q) \o << e >>
         /\ << e >> \o q = (<< >> \o << e >>) \o q
<1>1. << e >> \in Seq(S) /\ b \o q \in Seq(S)
  BY ConcatProperties
<1>2. (b \o q) \o << e >> = Append(b \o q, e) /\ q \o << e >> = Append(q, e)
  BY <1>1, AppendIsConcat
<1>3. b \o (q \o << e >>) = (b \o q) \o << e >>
  BY <1>1, ConcatAssociative
<1> QED
  BY <1>1, <1>2, <1>3, ConcatEmptySeq

(* The same of numbered events, for all batches and queues.                *)
LEMMA EventMoves ==
  \A b, q \in Seq(NumberedEvent), e \in NumberedEvent :
    /\ b \o q \in Seq(NumberedEvent)
    /\ (b \o q) \o << >> = b \o q
    /\ (b \o q) \o << e >> = Append(b \o q, e)
    /\ b \o Append(q, e) = (b \o q) \o << e >>
<1> SUFFICES ASSUME NEW b \in Seq(NumberedEvent), NEW q \in Seq(NumberedEvent),
                    NEW e \in NumberedEvent
             PROVE  /\ b \o q \in Seq(NumberedEvent)
                    /\ (b \o q) \o << >> = b \o q
                    /\ (b \o q) \o << e >> = Append(b \o q, e)
                    /\ b \o Append(q, e) = (b \o q) \o << e >>
  OBVIOUS
<1> QED
  BY ConcatMoves

(* The first event goes, whatever follows the batch it is in.              *)
LEMMA ConcatTail ==
  ASSUME NEW S, NEW b \in Seq(S), b # << >>, NEW q \in Seq(S)
  PROVE  /\ b \o q \in Seq(S) /\ b \o q # << >>
         /\ Head(b \o q) = Head(b)
         /\ Tail(b) \in Seq(S)
         /\ Tail(b \o q) = Tail(b) \o q
<1> DEFINE all  == b \o q
           rest == Tail(b) \o q
<1>1. /\ Len(b) \in Nat \ {0} /\ Len(q) \in Nat
      /\ all \in Seq(S) /\ Len(all) = Len(b) + Len(q)
      /\ \A i \in 1 .. Len(b) + Len(q) : all[i] = IF i <= Len(b) THEN b[i] ELSE q[i - Len(b)]
  BY ConcatProperties, EmptySeq, LenProperties
<1>2. all # << >> /\ Head(all) = all[1] /\ Head(b) = b[1]
  <2>1. Len(all) # 0
    BY <1>1
  <2> QED
    BY <1>1, <2>1, EmptySeq
<1>3. /\ Tail(b) \in Seq(S) /\ Len(Tail(b)) = Len(b) - 1
      /\ \A i \in 1 .. Len(b) - 1 : Tail(b)[i] = b[i + 1]
  BY HeadTailProperties
<1>4. /\ rest \in Seq(S) /\ Len(rest) = Len(b) - 1 + Len(q)
      /\ \A i \in 1 .. Len(b) - 1 + Len(q) :
           rest[i] = IF i <= Len(b) - 1 THEN Tail(b)[i] ELSE q[i - (Len(b) - 1)]
  BY <1>3, ConcatProperties
<1>5. /\ Tail(all) \in Seq(S) /\ Len(Tail(all)) = Len(b) + Len(q) - 1
      /\ \A i \in 1 .. Len(b) + Len(q) - 1 : Tail(all)[i] = all[i + 1]
  <2>1. /\ Tail(all) \in Seq(S) /\ Len(Tail(all)) = Len(all) - 1
        /\ \A i \in 1 .. Len(Tail(all)) : Tail(all)[i] = all[i + 1]
    BY <1>1, <1>2, HeadTailProperties
  <2> HIDE DEF all
  <2> QED
    BY <1>1, <2>1
<1> HIDE DEF all, rest
<1>6. ASSUME NEW i \in 1 .. Len(b) + Len(q) - 1 PROVE Tail(all)[i] = rest[i]
  <2>1. CASE i <= Len(b) - 1
    BY <1>1, <1>3, <1>4, <1>5, <2>1
  <2>2. CASE i > Len(b) - 1
    <3>1. /\ i + 1 \in 1 .. Len(b) + Len(q) /\ ~ (i + 1 <= Len(b))
          /\ i + 1 - Len(b) = i - (Len(b) - 1)
          /\ i \in 1 .. Len(b) - 1 + Len(q) /\ ~ (i <= Len(b) - 1)
      BY <1>1, <2>2
    <3>2. Tail(all)[i] = all[i + 1] /\ rest[i] = q[i - (Len(b) - 1)]
      BY <1>4, <1>5, <3>1
    <3>3. all[i + 1] = q[i + 1 - Len(b)]
      BY <1>1, <3>1
    <3> QED
      BY <3>1, <3>2, <3>3
  <2>3. i <= Len(b) - 1 \/ i > Len(b) - 1
    BY <1>1
  <2> QED
    BY <2>1, <2>2, <2>3
<1>7. Tail(all) = rest
  <2>1. Len(Tail(all)) = Len(rest) /\ Len(rest) = Len(b) + Len(q) - 1
    BY <1>1, <1>4, <1>5
  <2> QED
    BY <1>4, <1>5, <1>6, <2>1, SeqEqual
<1>8. all[1] = b[1]
  BY <1>1
<1> QED
  BY <1>1, <1>2, <1>3, <1>7, <1>8 DEF all, rest

(* What is unsent depends on what the writers have in hand.                *)
LEMMA UnsentSame ==
  ASSUME NEW n \in Notifier, UNCHANGED sending
  PROVE  Unsent(n)' = Unsent(n)
BY DEF Unsent

(* All writers but w have handed out their events.                         *)
OthersRest(w) == \A v \in Writer \ {w} : sending[v].todo = << >>

(* The one writer that hands out has one event in hand.                    *)
LEMMA UnsentOne ==
  ASSUME NEW w \in Writer, OthersRest(w), OthersRest(w)', NEW n \in Notifier
  PROVE  /\ Unsent(n) = IF Contains(sending[w].todo, n) THEN << sending[w].ev >> ELSE << >>
         /\ Unsent(n)' = IF Contains(sending'[w].todo, n) THEN << sending'[w].ev >> ELSE << >>
<1>1. /\ \A v \in Writer : Contains(sending[v].todo, n) => v = w
      /\ \A v \in Writer : Contains(sending'[v].todo, n) => v = w
  BY DEF OthersRest, Contains
<1>2. (CHOOSE v \in {w} : TRUE) = w
  OBVIOUS
<1>3. Unsent(n) = IF Contains(sending[w].todo, n) THEN << sending[w].ev >> ELSE << >>
  <2>1. CASE Contains(sending[w].todo, n)
    <3>1. {v \in Writer : Contains(sending[v].todo, n)} = {w}
      BY <1>1, <2>1
    <3> QED
      BY <1>2, <2>1, <3>1 DEF Unsent
  <2>2. CASE ~ Contains(sending[w].todo, n)
    <3>1. {v \in Writer : Contains(sending[v].todo, n)} = {}
      BY <1>1, <2>2
    <3> QED
      BY <2>2, <3>1 DEF Unsent
  <2> QED
    BY <2>1, <2>2
<1>4. Unsent(n)' = IF Contains(sending'[w].todo, n) THEN << sending'[w].ev >> ELSE << >>
  <2>1. CASE Contains(sending'[w].todo, n)
    <3>1. {v \in Writer : Contains(sending'[v].todo, n)} = {w}
      BY <1>1, <2>1
    <3> QED
      BY <1>2, <2>1, <3>1 DEF Unsent
  <2>2. CASE ~ Contains(sending'[w].todo, n)
    <3>1. {v \in Writer : Contains(sending'[v].todo, n)} = {}
      BY <1>1, <2>2
    <3> QED
      BY <2>2, <3>1 DEF Unsent
  <2> QED
    BY <2>1, <2>2
<1> QED
  BY <1>3, <1>4

(* A way and its parts are sequences of events.                            *)
LEMMA WayType ==
  ASSUME ManagerInv, NEW n \in Notifier
  PROVE  /\ batch[n] \in Seq(NumberedEvent) /\ queue[n] \in Seq(NumberedEvent)
         /\ Unsent(n) \in Seq(NumberedEvent)
         /\ batch[n] \o queue[n] \in Seq(NumberedEvent)
         /\ Way(n) \in Seq(NumberedEvent)
<1>2. \A w \in Writer : << sending[w].ev >> \in Seq(NumberedEvent)
  BY DEF ManagerInv, ManagerTypeOK
<1>3. Unsent(n) \in Seq(NumberedEvent)
  <2> DEFINE W == {w \in Writer : Contains(sending[w].todo, n)}
  <2>1. CASE W = {}
    BY <2>1 DEF Unsent
  <2>2. CASE W # {}
    <3>1. (CHOOSE w \in W : TRUE) \in Writer
      BY <2>2
    <3> QED
      BY <1>2, <2>2, <3>1 DEF Unsent
  <2> QED
    BY <2>1, <2>2
<1>4. batch[n] \in Seq(NumberedEvent) /\ queue[n] \in Seq(NumberedEvent)
  BY DEF ManagerInv, ManagerTypeOK
<1> QED
  BY <1>3, <1>4, ConcatProperties DEF Way

(* A notifier whose parts of the way stay as they are.                     *)
LEMMA WayFrame ==
  ASSUME NEW n \in Notifier,
         batch'[n] = batch[n], queue'[n] = queue[n], UNCHANGED sending
  PROVE  Way(n)' = Way(n)
BY UnsentSame DEF Way

(* A sequence is its first element and the rest.                           *)
LEMMA HeadThenTail ==
  ASSUME NEW S, NEW s \in Seq(S), s # << >>
  PROVE  << Head(s) >> \o Tail(s) = s
<1> DEFINE one == << Head(s) >>
<1>1. /\ Len(s) \in Nat \ {0} /\ Head(s) = s[1] /\ Head(s) \in S
      /\ Tail(s) \in Seq(S) /\ Len(Tail(s)) = Len(s) - 1
      /\ \A i \in 1 .. Len(s) - 1 : Tail(s)[i] = s[i + 1]
  BY HeadTailProperties, EmptySeq
<1>2. one \in Seq(S) /\ Len(one) = 1 /\ one[1] = s[1]
  BY <1>1
<1> HIDE DEF one
<1>3. /\ one \o Tail(s) \in Seq(S)
      /\ Len(one \o Tail(s)) = Len(s)
      /\ \A i \in 1 .. Len(s) : (one \o Tail(s))[i] = IF i <= 1 THEN one[i] ELSE Tail(s)[i - 1]
  <2>1. /\ one \o Tail(s) \in Seq(S)
        /\ Len(one \o Tail(s)) = Len(one) + Len(Tail(s))
        /\ \A i \in 1 .. Len(one) + Len(Tail(s)) : (one \o Tail(s))[i] =
             IF i <= Len(one) THEN one[i] ELSE Tail(s)[i - Len(one)]
    BY <1>1, <1>2, ConcatProperties
  <2>2. Len(one) + Len(Tail(s)) = Len(s)
    BY <1>1, <1>2
  <2> QED
    BY <1>2, <2>1, <2>2
<1>4. ASSUME NEW i \in 1 .. Len(s) PROVE (one \o Tail(s))[i] = s[i]
  <2>1. CASE i = 1
    BY <1>1, <1>2, <1>3, <2>1
  <2>2. CASE i # 1
    <3>1. i - 1 \in 1 .. Len(s) - 1 /\ ~ (i <= 1) /\ i - 1 + 1 = i
      BY <1>1, <2>2
    <3> QED
      BY <1>1, <1>3, <3>1
  <2> QED
    BY <2>1, <2>2
<1>5. one \o Tail(s) = s
  BY <1>3, <1>4, SeqEqual
<1> QED
  BY <1>5 DEF one

(* The five kinds of step, seen from the way.                              *)
WayStays(n) == Registered(n) => Way(n)' = Way(n)

(* Nothing that matters happens: a part of a way moves to another.         *)
Still ==
  /\ UNCHANGED << latest, recorded, notifiers, url, replica, newest >>
  /\ \A n \in Notifier : WayStays(n)

(* A change is recorded, and ends every way.                               *)
Says(ev) ==
  /\ ev.ver = recorded' /\ recorded' = recorded + 1
  /\ Effect(ev) \in {Absent, ev.ver}
  /\ latest'.state = [latest.state EXCEPT ![ev.key] = Effect(ev)]
  /\ UNCHANGED << notifiers, url, replica, newest >>
  /\ \A n \in Notifier : Registered(n) => Way(n)' = Append(Way(n), ev)

(* A subscriber registers; its way is a listing.                           *)
Joins(n, u) ==
  /\ phase[n] = "new" /\ ~ Registered(n)
  /\ \A m \in Notifier : url[m] # u
  /\ url' = [url EXCEPT ![n] = u]
  /\ \A m \in Notifier : Registered(m)' <=> Registered(m) \/ m = n
  /\ UNCHANGED << latest, recorded, replica, newest >>
  /\ Way(n)' = StateSnapshot
  /\ \A m \in Notifier : WayStays(m)

(* A subscriber unregisters.                                               *)
Leaves(n) ==
  /\ Registered(n)
  /\ \A m \in Notifier : Registered(m)' <=> Registered(m) /\ m # n
  /\ UNCHANGED << latest, recorded, url, replica, newest >>
  /\ \A m \in Notifier : WayStays(m)

(* The first event of a way is applied, and goes or comes again.           *)
Arrives(n) ==
  /\ Delivering(n) /\ Apply(n)
  /\ UNCHANGED << latest, recorded, notifiers, url >>
  /\ Registered(n) => Way(n)' = Way(n) \/ Way(n)' = Tail(Way(n))
  /\ \A m \in Notifier \ {n} : WayStays(m)

(* A change that is recorded is Says,                                      *)
LEMMA RecordSays ==
  ASSUME ReliableInv, OneHandOut', NEW w \in Writer, NEW op \in Operation, NEW k \in Key,
         Record(w, op, k)
  PROVE  \E ev \in NumberedEvent : Says(ev)
<1>0. ManagerInv
  BY DEF ReliableInv
<1>2. /\ recorded' = recorded + 1 /\ recorded' \in Value
      /\ UNCHANGED << notifiers, url, queue, batch, replica, newest >>
      /\ ~ \E n \in Notifier : Contains(sending[w].todo, n)
  BY <1>0, ManagerConstants
     DEF Record, ManagerInv, ManagerTypeOK, loopVars, subVars, Idle, Contains
<1>3. PICK ev \in NumberedEvent :
        /\ ev = Numbered(op, k, recorded')
        /\ ev.key = k /\ ev.ver = recorded' /\ Effect(ev) = IF op = "Delete" THEN Absent ELSE recorded'
        /\ [op |-> ev.op, key |-> ev.key, val |-> ev.val] \in Event
  BY <1>2, NumberedType, NumberedFacts
<1>4. /\ sending'[w] = [ev |-> ev, todo |-> notifiers]
      /\ \A v \in Writer \ {w} : sending'[v] = sending[v]
  BY <1>0, <1>3 DEF Record, ManagerInv, ManagerTypeOK
<1>5. latest'.state = [latest.state EXCEPT ![ev.key] = Effect(ev)]
  <2> DEFINE plain == [op |-> ev.op, key |-> ev.key, val |-> ev.val]
  <2>1. latest' = Receive(latest, plain)
    BY <1>3 DEF Record, Receive, OrderWith, Payload
  <2>2. Effect(plain) = Effect(ev) /\ plain.key = ev.key /\ plain \in Event /\ ev.key \in Key
    BY <1>3 DEF Effect
  <2>3. latest \in LatestStores /\ OrderListsLive(latest)
    BY <1>0 DEF ManagerInv, ManagerTypeOK
  <2> HIDE DEF plain
  <2>4. /\ latest' \in LatestStores
        /\ \A l \in Key : latest'.state[l] = IF l = ev.key THEN Effect(ev) ELSE latest.state[l]
    BY <2>1, <2>2, <2>3, ReceiveKeepsStore
  <2> QED
    BY <2>2, <2>3, <2>4 DEF LatestStores
<1>6. ASSUME NEW n \in Notifier, Registered(n)
      PROVE  Way(n)' = Append(Way(n), ev)
  <2>1. Contains(notifiers, n)
    <3>1. DOMAIN notifiers = 1 .. Len(notifiers)
      BY <1>0, LenProperties DEF ManagerInv, ManagerTypeOK
    <3> QED
      BY <1>6, <3>1 DEF Registered, Contains
  <2>5. OthersRest(w) /\ OthersRest(w)'
    <3>1. ~ Idle(w)'
      BY <1>4, <2>1 DEF Idle, Contains
    <3> QED
      BY <1>4, <3>1 DEF OneHandOut, Idle, OthersRest
  <2>2. Unsent(n) = << >> /\ Unsent(n)' = << ev >>
    BY <1>2, <1>4, <2>1, <2>5, UnsentOne
  <2>3. batch[n] \in Seq(NumberedEvent) /\ queue[n] \in Seq(NumberedEvent)
    BY <1>0 DEF ManagerInv, ManagerTypeOK
  <2>4. /\ batch[n] \o queue[n] \in Seq(NumberedEvent)
        /\ (batch[n] \o queue[n]) \o << >> = batch[n] \o queue[n]
        /\ (batch[n] \o queue[n]) \o << ev >> = Append(batch[n] \o queue[n], ev)
    BY <2>3, EventMoves
  <2> QED
    BY <1>2, <2>2, <2>4 DEF Way
<1> QED
  BY <1>2, <1>3, <1>5, <1>6 DEF Says

(* handing the event out is Still,                                         *)
LEMMA HandOutStill ==
  ASSUME ReliableInv, Undisturbed, Undisturbed', NEW w \in Writer, HandOut(w)
  PROVE  Still
<1>0. ManagerInv /\ RegistrationInv
  BY DEF ReliableInv
<1>2. Enqueue(w)
  BY DEF HandOut, FlagOverflow, Undisturbed, NothingDropped
<1>1. OthersRest(w) /\ OthersRest(w)'
  <2>1. OthersRest(w)
    BY <1>2 DEF Undisturbed, OneHandOut, Idle, OthersRest, Enqueue
  <2>2. \A v \in Writer \ {w} : sending'[v] = sending[v]
    BY <1>0, <1>2 DEF Enqueue, ManagerInv, ManagerTypeOK
  <2> QED
    BY <2>1, <2>2 DEF OthersRest
<1>3a. PICK n \in Notifier, ev \in NumberedEvent, todo \in Seq(Notifier) :
       Enqueued(w, n, ev, todo)
  BY <1>0, <1>2, EnqueueFacts
<1>3. /\ sending[w] = [ev |-> ev, todo |-> todo]
      /\ sending'[w] = [ev |-> ev, todo |-> Tail(todo)]
      /\ \/ queue' = [queue EXCEPT ![n] = Append(queue[n], ev)]
         \/ overflowed' = [overflowed EXCEPT ![w] = n]
      /\ Contains(todo, n)
      /\ NoneTwice(todo) =>
           \A m \in Notifier : Contains(Tail(todo), m) <=> Contains(todo, m) /\ m # n
      /\ UNCHANGED << managerVars, loopVars, subVars, url >>
  BY <1>3a DEF Enqueued
<1>4. /\ sending[w].todo = todo /\ sending'[w].todo = Tail(todo)
      /\ sending[w].ev = ev /\ sending'[w].ev = ev
      /\ UNCHANGED << latest, recorded, notifiers, url, replica, newest, batch >>
  BY <1>3 DEF managerVars, loopVars, subVars
<1>5. \A m \in Notifier : Contains(sending'[w].todo, m) <=> Contains(sending[w].todo, m) /\ m # n
  <2>1. NoneTwice(todo)
    BY <1>0, <1>4 DEF RegistrationInv
  <2> QED
    BY <1>3, <1>4, <2>1
<1>6. queue' = [queue EXCEPT ![n] = Append(queue[n], ev)]
  <2>1. overflowed'[w] = NoNotifier
    BY DEF Undisturbed, NothingDropped
  <2>2. overflowed = [v \in Writer |-> overflowed[v]] /\ n # NoNotifier
    BY <1>0, EventManagerAssumption DEF ManagerInv, ManagerTypeOK
  <2> QED
    BY <1>3, <2>1, <2>2
<1>7. queue = [m \in Notifier |-> queue[m]]
  BY <1>0 DEF ManagerInv, ManagerTypeOK
<1>9. \A m \in Notifier :
        /\ Unsent(m) = IF Contains(sending[w].todo, m) THEN << ev >> ELSE << >>
        /\ Unsent(m)' = IF Contains(sending'[w].todo, m) THEN << ev >> ELSE << >>
  BY <1>1, <1>4, UnsentOne
<1>8. ASSUME NEW m \in Notifier PROVE Way(m)' = Way(m)
  <2>1. CASE m = n
    <3>1. Unsent(n) = << ev >> /\ Unsent(n)' = << >>
      BY <1>3, <1>4, <1>5, <1>9
    <3>2. queue'[n] = Append(queue[n], ev) /\ batch'[n] = batch[n]
      BY <1>4, <1>6, <1>7
    <3>3. batch[n] \in Seq(NumberedEvent) /\ queue[n] \in Seq(NumberedEvent)
      BY <1>0 DEF ManagerInv, ManagerTypeOK
    <3>4. batch[n] \o Append(queue[n], ev) = (batch[n] \o queue[n]) \o << ev >>
      BY <3>3, EventMoves
    <3>5. Append(queue[n], ev) \in Seq(NumberedEvent)
      BY <3>3, AppendProperties
    <3>6. (batch[n] \o Append(queue[n], ev)) \o << >> = batch[n] \o Append(queue[n], ev)
      BY <3>3, <3>5, EventMoves
    <3> QED
      BY <2>1, <3>1, <3>2, <3>4, <3>6 DEF Way
  <2>2. CASE m # n
    <3>1. Unsent(m)' = Unsent(m)
      BY <1>5, <1>9, <2>2
    <3> QED
      BY <1>4, <1>6, <1>7, <2>2, <3>1 DEF Way
  <2> QED
    BY <2>1, <2>2
<1> QED
  BY <1>4, <1>8 DEF Still, WayStays

(* registering is Joins,                                                   *)
LEMMA AddSubscriberJoins ==
  ASSUME ReliableInv, MaxSubscriptions = 1, NEW u \in Subscriber, AddSubscriber(u)
  PROVE  \E n \in Notifier : Joins(n, u)
<1>0. ManagerInv /\ RegistrationInv
  BY DEF ReliableInv
<1>1. PICK n \in Notifier :
        /\ phase[n] = "new"
        /\ \A m \in Notifier : url[m] # u
        /\ url' = [url EXCEPT ![n] = u]
        /\ batch' = [batch EXCEPT ![n] = StateSnapshot]
        /\ \A m \in Notifier : Registered(m)' <=> Registered(m) \/ m = n
        /\ ~ Registered(n) /\ ~ Awaits(n)
        /\ UNCHANGED << latest, recorded, writerVars, subVars, queue >>
  BY <1>0, AddSubscriberFacts
<1>2. UNCHANGED << sending, replica, newest >>
  BY <1>1 DEF writerVars, subVars
<1>3. batch = [m \in Notifier |-> batch[m]]
  BY <1>0 DEF ManagerInv, ManagerTypeOK
<1>4. Way(n)' = StateSnapshot
  <2>1. Unsent(n) = << >>
    BY <1>1 DEF Awaits, Unsent
  <2>2. Unsent(n)' = << >>
    BY <1>2, <2>1, UnsentSame
  <2>3. queue'[n] = << >> /\ batch'[n] = StateSnapshot
    BY <1>0, <1>1, <1>3 DEF RegistrationInv
  <2>4. (StateSnapshot \o << >>) \o << >> = StateSnapshot
    BY <1>0, SnapshotFacts, ConcatEmptySeq
  <2> QED
    BY <2>2, <2>3, <2>4 DEF Way
<1>5. \A m \in Notifier \ {n} : Way(m)' = Way(m)
  BY <1>0, <1>1, <1>2, <1>3, WayFrame
<1> QED
  BY <1>1, <1>2, <1>4, <1>5 DEF Joins, WayStays

(* unregistering is Leaves,                                                *)
LEMMA RemoveSubscriberLeaves ==
  ASSUME ReliableInv, NEW u \in Subscriber, RemoveSubscriber(u)
  PROVE  \E n \in Notifier : url[n] = u /\ Leaves(n)
<1>0. ManagerInv /\ RegistrationInv
  BY DEF ReliableInv
<1>1. PICK n \in Notifier :
        /\ Registered(n) /\ url[n] = u
        /\ \A m \in Notifier : Registered(m)' <=> Registered(m) /\ m # n
        /\ UNCHANGED << latest, recorded, writerVars, loopVars, subVars, url, queue >>
  BY <1>0, RemoveSubscriberFacts
<1>2. UNCHANGED << sending, batch, replica, newest >>
  BY <1>1 DEF writerVars, loopVars, subVars
<1>3. \A m \in Notifier : Way(m)' = Way(m)
  BY <1>0, <1>1, <1>2, WayFrame
<1> QED
  BY <1>1, <1>2, <1>3 DEF Leaves, WayStays

(* taking an event from the queue leaves the way as it is,                 *)
LEMMA TakeEventStays ==
  ASSUME ManagerInv, NEW n \in Notifier, TakeEvent(n)
  PROVE  Way(n)' = Way(n)
<1>1. /\ batch[n] = << >> /\ queue[n] # << >> /\ queue[n] \in Seq(NumberedEvent)
      /\ queue'[n] = Tail(queue[n]) /\ batch'[n] = << Head(queue[n]) >>
      /\ UNCHANGED sending
  BY DEF TakeEvent, ManagerInv, ManagerTypeOK, Delivering, writerVars
<1>2. Unsent(n)' = Unsent(n)
  BY <1>1, UnsentSame
<1>3. << Head(queue[n]) >> \o Tail(queue[n]) = << >> \o queue[n]
  BY <1>1, HeadThenTail, ConcatEmptySeq
<1> QED
  BY <1>1, <1>2, <1>3 DEF Way

(* Of events,                                                              *)
LEMMA EventsConcat ==
  ASSUME NEW b \in Seq(NumberedEvent), b # << >>, NEW q \in Seq(NumberedEvent)
  PROVE  /\ b \o q \in Seq(NumberedEvent) /\ b \o q # << >>
         /\ Head(b \o q) = Head(b) /\ Tail(b \o q) = Tail(b) \o q
BY ConcatTail

(* the first on the way is the one that is being delivered.                *)
LEMMA WayHead ==
  ASSUME ManagerInv, NEW n \in Notifier, Delivering(n)
  PROVE  /\ Way(n) # << >> /\ Head(Way(n)) = Head(batch[n])
         /\ Tail(batch[n]) \o queue[n] \o Unsent(n) = Tail(Way(n))
<1>1. batch[n] # << >>
  BY DEF ManagerInv, ManagerTypeOK
<1> DEFINE b == batch[n]
           q == queue[n]
           x == Unsent(n)
           bq == b \o q
           all == bq \o x
<1>2. b \in Seq(NumberedEvent) /\ q \in Seq(NumberedEvent) /\ x \in Seq(NumberedEvent)
  BY WayType
<1>7. b # << >>
  BY <1>1
<1> HIDE DEF b, q, x
<1>3. /\ bq \in Seq(NumberedEvent) /\ bq # << >>
      /\ Head(bq) = Head(b) /\ Tail(bq) = Tail(b) \o q
  BY <1>2, <1>7, EventsConcat
<1> HIDE DEF bq
<1>4. /\ all # << >>
      /\ Head(all) = Head(bq) /\ Tail(all) = Tail(bq) \o x
  BY <1>2, <1>3, EventsConcat
<1>5. all = Way(n)
  BY DEF Way, bq, b, q, x
<1> HIDE DEF all
<1>6. /\ Way(n) # << >> /\ Head(Way(n)) = Head(b)
      /\ Tail(b) \o q \o x = Tail(Way(n))
  BY <1>3, <1>4, <1>5
<1> QED
  BY <1>6 DEF b, q, x

(* an attempt to deliver is Arrives, or Still if nothing reached the       *)
(* subscriber,                                                             *)
LEMMA AttemptArrives ==
  ASSUME ReliableInv, NothingDropped', NEW n \in Notifier, Attempt(n),
         UNCHANGED << latest, recorded, notifiers, url, sending >>,
         \A m \in Notifier \ {n} : WayStays(m)
  PROVE  Still \/ Arrives(n)
<1>0. ManagerInv /\ RegistrationInv
  BY DEF ReliableInv
<1>1. Unsent(n)' = Unsent(n)
  BY UnsentSame
<1>2. CASE DeliverOk(n)
  <2>1. Delivering(n) /\ Apply(n) /\ batch' = [batch EXCEPT ![n] = Tail(batch[n])] /\ queue' = queue
    BY <1>2 DEF DeliverOk, Advance
  <2>2. batch'[n] = Tail(batch[n])
    BY <1>0, <2>1 DEF ManagerInv, ManagerTypeOK
  <2>3. Way(n)' = Tail(Way(n))
    BY <1>0, <1>1, <2>1, <2>2, WayHead DEF Way
  <2> QED
    BY <2>1, <2>3 DEF Arrives
<1>3. CASE DeliverFail(n)
  <2>1. Registered(n) => Retry(n)
    BY <1>0, <1>3, FailRetries
  <2>2. WayStays(n)
    BY <1>1, <2>1 DEF Retry, Way, WayStays
  <2>3. Delivering(n) /\ (Apply(n) \/ UNCHANGED << replica, newest >>)
    BY <1>3 DEF DeliverFail, subVars
  <2> QED
    BY <2>2, <2>3 DEF Arrives, Still, WayStays
<1> QED
  BY <1>2, <1>3 DEF Attempt

(* and so is every step of the loop.                                       *)
LEMMA LoopArrives ==
  ASSUME ReliableInv, Undisturbed, Undisturbed', NEW n \in Notifier, Loop(n) \/ Exit(n)
  PROVE  Still \/ Arrives(n)
<1>0. ManagerInv /\ RegistrationInv /\ NothingDropped /\ NothingDropped'
  BY DEF ReliableInv, Undisturbed
<1>1. /\ UNCHANGED << latest, recorded, notifiers, url, sending >>
      /\ \A m \in Notifier \ {n} : batch'[m] = batch[m] /\ queue'[m] = queue[m]
  BY <1>0, LoopTouches DEF managerVars, writerVars
<1>2. \A m \in Notifier \ {n} : WayStays(m)
  BY <1>0, <1>1, WayFrame DEF WayStays
<1>3. CASE Attempt(n)
  BY <1>0, <1>1, <1>2, <1>3, AttemptArrives
<1>4. CASE ~ Attempt(n)
  <2>1. UNCHANGED << replica, newest >>
    BY <1>4 DEF Loop, AbandonDelivery, TakeEvent, RetryResync, DrainQueue, TakeSnapshot, Exit, subVars
  <2>2. WayStays(n)
    <3>1. CASE TakeEvent(n)
      BY <1>0, <3>1, TakeEventStays DEF WayStays
    <3>2. CASE RetryResync(n) \/ Exit(n)
      <4>1. batch' = batch /\ queue' = queue
        BY <3>2 DEF RetryResync, Exit
      <4> QED
        BY <1>0, <1>1, <4>1, WayFrame DEF WayStays
    <3>3. CASE AbandonDelivery(n) \/ DrainQueue(n) \/ TakeSnapshot(n)
      <4>1. stopped[n] \/ phase[n] \in {"drain", "snapshot"}
        BY <3>3 DEF AbandonDelivery, DrainQueue, TakeSnapshot
      <4> QED
        BY <1>0, <4>1 DEF RegistrationInv, NothingDropped, WayStays
    <3> QED
      BY <1>4, <3>1, <3>2, <3>3 DEF Loop
  <2> QED
    BY <1>1, <1>2, <2>1, <2>2 DEF Still
<1> QED
  BY <1>3, <1>4

(* Every step is of one of the five kinds.                                 *)
LEMMA StepKinds ==
  ASSUME ReliableInv, MaxSubscriptions = 1, Undisturbed, Undisturbed', [Next]_vars
  PROVE  \/ Still
         \/ \E ev \in NumberedEvent : Says(ev)
         \/ \E n \in Notifier, u \in Subscriber : Joins(n, u)
         \/ \E n \in Notifier : Leaves(n)
         \/ \E n \in Notifier : Arrives(n)
<1>1. OneHandOut'
  BY DEF Undisturbed
<1>2. CASE UNCHANGED vars
  <2>1. UNCHANGED << latest, recorded, notifiers, url, replica, newest, batch, queue, sending >>
    BY <1>2 DEF vars, managerVars, writerVars, loopVars, subVars
  <2>2. \A n \in Notifier : WayStays(n)
    BY <2>1, WayFrame DEF WayStays
  <2> QED
    BY <2>1, <2>2 DEF Still
<1>3. ASSUME NEW w \in Writer, HandOut(w) PROVE Still
  BY <1>3, HandOutStill
<1>4. ASSUME NEW u \in Subscriber, RemoveSubscriber(u) PROVE \E n \in Notifier : Leaves(n)
  BY <1>4, RemoveSubscriberLeaves
<1> QED
  BY <1>1, <1>2, <1>3, <1>4, RecordSays, AddSubscriberJoins, LoopArrives DEF Next

-----------------------------------------------------------------------------
(***************************************************************************)
(* Order.  What is on its way to a subscriber is in the order it was       *)
(* recorded in, resource by resource, and none of it is older than what    *)
(* the subscriber has.                                                     *)
(***************************************************************************)
InOrder(s) == \A i, j \in DOMAIN s : i < j /\ s[i].key = s[j].key => s[i].ver <= s[j].ver

(* No event of s is older than what was had of its resource.               *)
NoneOlder(s, had) == \A i \in DOMAIN s : had[s[i].key] <= s[i].ver

(* The way of n is in order and follows what its subscriber has.           *)
WayInOrder(n) ==
  /\ InOrder(Way(n))
  /\ NoneOlder(Way(n), newest[url[n]])
  /\ \A i \in DOMAIN Way(n) : Way(n)[i].ver <= recorded
  /\ \A k \in Key : newest[url[n]][k] <= recorded

(* The inductive invariant under DeliveredInOrder.                         *)
OrderInv ==
  /\ ReliableInv
  /\ \A k \in Key : latest.state[k] <= recorded
  /\ \A n \in Notifier : Registered(n) => WayInOrder(n)

(* The numbers and resources of events are numbers and resources.          *)
LEMMA VersionFacts ==
  ASSUME NEW s \in Seq(NumberedEvent), NEW had \in [Key -> 0 .. MaxEvents]
  PROVE  /\ \A i \in DOMAIN s : s[i] \in NumberedEvent /\ s[i].ver \in Int /\ s[i].key \in Key
         /\ \A k \in Key : had[k] \in Int
<1>1. MaxEvents \in Nat
  BY ManagerConstants
<1>2. \A i \in DOMAIN s : s[i] \in NumberedEvent
  OBVIOUS
<1>3. ASSUME NEW e \in NumberedEvent PROVE e.ver \in Int /\ e.key \in Key
  <2>1. e.ver \in 0 .. MaxEvents /\ e.key \in Key
    BY NumberedFacts
  <2> QED
    BY <1>1, <2>1
<1> QED
  BY <1>1, <1>2, <1>3

(* An event that is newer than all others goes to the end.                 *)
LEMMA AppendInOrder ==
  ASSUME NEW s \in Seq(NumberedEvent), NEW e \in NumberedEvent,
         NEW had \in [Key -> 0 .. MaxEvents], NEW r \in Nat,
         InOrder(s), NoneOlder(s, had),
         \A i \in DOMAIN s : s[i].ver <= r,
         \A k \in Key : had[k] <= r,
         e.ver = r + 1
  PROVE  /\ InOrder(Append(s, e)) /\ NoneOlder(Append(s, e), had)
         /\ \A i \in DOMAIN Append(s, e) : Append(s, e)[i].ver <= r + 1
         /\ \A k \in Key : had[k] <= r + 1
<1> DEFINE new == Append(s, e)
           len == Len(s)
<1>1. /\ DOMAIN s = 1 .. len /\ len \in Nat
      /\ DOMAIN new = 1 .. len + 1
      /\ new[len + 1] = e
      /\ \A i \in 1 .. len : new[i] = s[i]
  OBVIOUS
<1>2. /\ e.key \in Key
      /\ \A i \in 1 .. len : s[i].ver \in Int /\ s[i].key \in Key
      /\ \A k \in Key : had[k] \in Int
  BY <1>1, NumberedFacts, VersionFacts
<1> HIDE DEF new, len
<1>3. \A i \in 1 .. len + 1 : i \in 1 .. len \/ (i = len + 1 /\ \A j \in 1 .. len + 1 : ~ (i < j))
  BY <1>1
<1>4. ASSUME NEW i \in 1 .. len + 1 PROVE new[i].ver <= r + 1
  <2>1. CASE i = len + 1
    BY <1>1, <2>1
  <2>2. CASE i \in 1 .. len
    <3>1. new[i].ver = s[i].ver /\ s[i].ver <= r /\ s[i].ver \in Int
      BY <1>1, <1>2, <2>2
    <3> QED
      BY <3>1
  <2> QED
    BY <1>3, <2>1, <2>2
<1>5. NoneOlder(new, had)
  BY <1>1, <1>2, <1>3 DEF NoneOlder
<1>6. InOrder(new)
  <2> SUFFICES ASSUME NEW i \in 1 .. len, NEW j \in 1 .. len + 1, i < j, new[i].key = new[j].key
               PROVE  new[i].ver <= new[j].ver
    BY <1>1, <1>3 DEF InOrder
  <2>1. CASE j = len + 1
    <3>1. new[i].ver = s[i].ver /\ s[i].ver \in Int /\ s[i].ver <= r
      BY <1>1, <1>2
    <3>2. new[j].ver = r + 1
      BY <1>1, <2>1
    <3> QED
      BY <3>1, <3>2
  <2>2. CASE j \in 1 .. len
    <3>1. new[i] = s[i] /\ new[j] = s[j] /\ s[i].key = s[j].key
      BY <1>1, <2>2
    <3>2. DOMAIN s = 1 .. len /\ i \in DOMAIN s /\ j \in DOMAIN s
      BY <1>1, <2>2
    <3>3. s[i].ver <= s[j].ver
      BY <3>1, <3>2 DEF InOrder
    <3> QED
      BY <3>1, <3>3
  <2> QED
    BY <1>3, <2>1, <2>2
<1>7. \A k \in Key : had[k] <= r + 1
  <2> SUFFICES ASSUME NEW k \in Key PROVE had[k] <= r + 1
    OBVIOUS
  <2>1. had[k] \in Int /\ had[k] <= r
    BY <1>2
  <2> QED
    BY <2>1
<1>8. \A i \in DOMAIN new : new[i].ver <= r + 1
  BY <1>1, <1>4
<1> QED
  BY <1>5, <1>6, <1>7, <1>8 DEF new

(* The first event is no newer than the others about its resource.         *)
LEMMA HeadInOrder ==
  ASSUME NEW s \in Seq(NumberedEvent), s # << >>, NEW had \in [Key -> 0 .. MaxEvents],
         InOrder(s), NoneOlder(s, had)
  PROVE  LET now == [had EXCEPT ![Head(s).key] = Head(s).ver]
         IN  /\ NoneOlder(s, now) /\ NoneOlder(Tail(s), now)
             /\ InOrder(Tail(s))
             /\ \A k \in Key : had[k] <= now[k]
<1> DEFINE now == [had EXCEPT ![Head(s).key] = Head(s).ver]
           len == Len(s)
           rest == Tail(s)
<1>1. /\ DOMAIN s = 1 .. len /\ len \in Nat \ {0}
      /\ Head(s) = s[1] /\ s[1] \in NumberedEvent
      /\ DOMAIN rest = 1 .. len - 1
      /\ \A i \in 1 .. len - 1 : rest[i] = s[i + 1]
  OBVIOUS
<1>2. /\ 1 \in 1 .. len
      /\ \A i \in 1 .. len : i = 1 \/ 1 < i
      /\ \A i \in 1 .. len - 1 : i + 1 \in 1 .. len
      /\ \A i, j \in 1 .. len - 1 : i < j => i + 1 < j + 1
  BY <1>1
<1>3. /\ \A i \in 1 .. len : s[i].key \in Key /\ s[i].ver \in Int
      /\ \A k \in Key : had[k] \in Int
      /\ s[1].key \in Key /\ s[1].ver \in Int
  BY <1>1, <1>2, VersionFacts
<1>4. \A k \in Key : now[k] = IF k = s[1].key THEN s[1].ver ELSE had[k]
  <2>1. now = [had EXCEPT ![s[1].key] = s[1].ver]
    BY <1>1
  <2> HIDE DEF now
  <2> QED
    BY <2>1
<1> HIDE DEF now, len, rest
<1>5. NoneOlder(s, now)
  <2>1. ASSUME NEW i \in 1 .. len, s[i].key = s[1].key PROVE s[1].ver <= s[i].ver
    <3>1. CASE i = 1
      BY <1>3, <3>1
    <3>2. CASE 1 < i
      BY <1>1, <1>2, <2>1, <3>2 DEF InOrder
    <3> QED
      BY <1>2, <3>1, <3>2
  <2>2. \A i \in 1 .. len : had[s[i].key] <= s[i].ver
    BY <1>1 DEF NoneOlder
  <2> QED
    BY <1>1, <1>3, <1>4, <2>1, <2>2 DEF NoneOlder
<1>6. NoneOlder(rest, now)
  BY <1>1, <1>2, <1>5 DEF NoneOlder
<1>7. InOrder(rest)
  BY <1>1, <1>2 DEF InOrder
<1>8. \A k \in Key : had[k] <= now[k]
  BY <1>1, <1>2, <1>3, <1>4 DEF NoneOlder
<1> QED
  BY <1>5, <1>6, <1>7, <1>8 DEF now, rest

(* One subscriber has one notifier.                                        *)
LEMMA OneNotifier ==
  ASSUME RegistrationInv, NEW m \in Notifier, NEW n \in Notifier, Registered(n), m # n
  PROVE  url[n] \in Subscriber /\ url[m] # url[n]
<1>1. url[n] \in Subscriber
  BY DEF RegistrationInv
<1> QED
  BY <1>1, EventManagerAssumption DEF RegistrationInv

(* What an attempt that reached the subscriber did to it.                  *)
LEMMA ApplyNewest ==
  ASSUME ReliableInv, NEW n \in Notifier, Delivering(n), Apply(n)
  PROVE  /\ url[n] \in Subscriber
         /\ Way(n) \in Seq(NumberedEvent) /\ Way(n) # << >>
         /\ newest[url[n]] \in [Key -> 0 .. MaxEvents]
         /\ newest'[url[n]] = [newest[url[n]] EXCEPT ![Head(Way(n)).key] = Head(Way(n)).ver]
         /\ replica'[url[n]] = ApplyEvent(replica[url[n]], Head(Way(n)))
         /\ newest' = [newest EXCEPT ![url[n]] = newest'[url[n]]]
         /\ replica' = [replica EXCEPT ![url[n]] = replica'[url[n]]]
<1>1. ManagerInv /\ RegistrationInv
  BY DEF ReliableInv
<1>2. url[n] \in Subscriber
  BY <1>1 DEF RegistrationInv, Delivering
<1>3. Way(n) \in Seq(NumberedEvent) /\ Way(n) # << >> /\ Head(Way(n)) = Head(batch[n])
  BY <1>1, WayType, WayHead
<1>4. /\ newest \in [Subscriber -> [Key -> 0 .. MaxEvents]]
      /\ replica \in [Subscriber -> [Key -> Value \cup {Absent}]]
  BY <1>1 DEF ManagerInv, ManagerTypeOK
<1>5. /\ newest' = [newest EXCEPT ![url[n]] =
                      [newest[url[n]] EXCEPT ![Head(Way(n)).key] = Head(Way(n)).ver]]
      /\ replica' = [replica EXCEPT ![url[n]] = ApplyEvent(replica[url[n]], Head(Way(n)))]
  BY <1>3 DEF Apply
<1> QED
  BY <1>2, <1>3, <1>4, <1>5

(* A listing is in order: it has each resource once.                       *)
LEMMA SnapshotInOrder ==
  ASSUME ManagerInv, \A k \in Key : latest.state[k] <= recorded
  PROVE  /\ InOrder(StateSnapshot)
         /\ NoneOlder(StateSnapshot, [k \in Key |-> 0])
         /\ \A i \in DOMAIN StateSnapshot : StateSnapshot[i].ver <= recorded
<1>1. \A i \in DOMAIN StateSnapshot :
        /\ StateSnapshot[i].key = latest.order[i] /\ StateSnapshot[i].key \in Key
        /\ StateSnapshot[i].ver = latest.state[latest.order[i]]
        /\ StateSnapshot[i].ver \in Value
        /\ i \in DOMAIN latest.order
  BY SnapshotFacts DEF Numbered
<1>2. \A i, j \in DOMAIN StateSnapshot : StateSnapshot[i].key = StateSnapshot[j].key => i = j
  BY <1>1 DEF ManagerInv, OrderListsLive
<1>3. \A i \in DOMAIN StateSnapshot : StateSnapshot[i].ver \in Nat
  BY <1>1, ManagerConstants
<1>4. InOrder(StateSnapshot)
  BY <1>2, <1>3 DEF InOrder
<1>5. NoneOlder(StateSnapshot, [k \in Key |-> 0])
  BY <1>1, <1>3 DEF NoneOlder
<1> QED
  BY <1>1, <1>4, <1>5

(* A change that is recorded is newer than all that is on its way.         *)
LEMMA SaysInOrder ==
  ASSUME OrderInv, NEW ev \in NumberedEvent, Says(ev)
  PROVE  /\ \A k \in Key : latest'.state[k] <= recorded'
         /\ \A n \in Notifier : Registered(n)' => WayInOrder(n)'
<1>1. /\ recorded \in Nat /\ recorded' = recorded + 1 /\ ev.ver = recorded + 1
      /\ latest.state \in [Key -> Value \cup {Absent}]
      /\ Absent = 0 /\ \A v \in Value : v \in Nat
      /\ ManagerInv /\ RegistrationInv
  <2>1. ManagerInv /\ RegistrationInv
    BY DEF OrderInv, ReliableInv
  <2>2. latest.state \in [Key -> Value \cup {Absent}] /\ recorded \in Nat
    BY <2>1, ManagerConstants DEF ManagerInv, ManagerTypeOK, LatestStores
  <2>3. recorded' = recorded + 1 /\ ev.ver = recorded + 1
    BY DEF Says
  <2> QED
    BY <2>1, <2>2, <2>3, ManagerConstants
<1>2. ASSUME NEW k \in Key PROVE latest'.state[k] <= recorded'
  <2>1. latest'.state[k] = latest.state[k] \/ latest'.state[k] \in {Absent, ev.ver}
    BY <1>1 DEF Says
  <2>2. latest.state[k] <= recorded /\ latest.state[k] \in Int
    BY <1>1 DEF OrderInv
  <2> QED
    BY <1>1, <2>1, <2>2
<1>3. ASSUME NEW n \in Notifier, Registered(n) PROVE WayInOrder(n)'
  <2>1. WayInOrder(n) /\ Way(n) \in Seq(NumberedEvent)
    BY <1>1, <1>3, WayType DEF OrderInv
  <2>2. newest[url[n]] \in [Key -> 0 .. MaxEvents]
    BY <1>1, <1>3, OneNotifier DEF ManagerInv, ManagerTypeOK, RegistrationInv
  <2>3. Way(n)' = Append(Way(n), ev) /\ newest' = newest /\ url' = url
    BY <1>3 DEF Says
  <2> DEFINE s == Way(n)
             had == newest[url[n]]
  <2>4. /\ InOrder(Append(s, ev)) /\ NoneOlder(Append(s, ev), had)
        /\ \A i \in DOMAIN Append(s, ev) : Append(s, ev)[i].ver <= recorded + 1
        /\ \A k \in Key : had[k] <= recorded + 1
    <3>1. /\ s \in Seq(NumberedEvent) /\ had \in [Key -> 0 .. MaxEvents]
          /\ InOrder(s) /\ NoneOlder(s, had)
          /\ \A i \in DOMAIN s : s[i].ver <= recorded
          /\ \A k \in Key : had[k] <= recorded
      BY <2>1, <2>2 DEF WayInOrder
    <3> HIDE DEF s, had
    <3> QED
      BY <1>1, <3>1, AppendInOrder
  <2> QED
    BY <1>1, <2>3, <2>4 DEF WayInOrder, InOrder, NoneOlder
<1>4. notifiers' = notifiers
  BY DEF Says
<1> QED
  BY <1>2, <1>3, <1>4 DEF Registered

(* A listing has each resource once.                                       *)
LEMMA JoinsInOrder ==
  ASSUME OrderInv, NEW n \in Notifier, NEW u \in Subscriber, Joins(n, u)
  PROVE  \A m \in Notifier : Registered(m)' => WayInOrder(m)'
<1>1. ManagerInv /\ RegistrationInv /\ FreshCopies
  BY DEF OrderInv, ReliableInv
<1>2. url'[n] = u /\ \A m \in Notifier \ {n} : url'[m] = url[m]
  BY <1>1 DEF Joins, ManagerInv, ManagerTypeOK
<1>3. newest[u] = [k \in Key |-> 0]
  BY <1>1 DEF Joins, FreshCopies
<1>4. WayInOrder(n)'
  <2>1. /\ InOrder(StateSnapshot) /\ NoneOlder(StateSnapshot, newest[u])
        /\ \A i \in DOMAIN StateSnapshot : StateSnapshot[i].ver <= recorded
    BY <1>1, <1>3, SnapshotInOrder DEF OrderInv
  <2>2. \A k \in Key : newest[u][k] <= recorded
    BY <1>1, <1>3, CounterFacts
  <2> QED
    BY <1>2, <2>1, <2>2 DEF Joins, WayInOrder, InOrder, NoneOlder
<1>5. ASSUME NEW m \in Notifier \ {n}, Registered(m) PROVE WayInOrder(m)'
  <2>1. WayInOrder(m) /\ Way(m)' = Way(m)
    BY <1>5 DEF OrderInv, Joins, WayStays
  <2> QED
    BY <1>2, <2>1 DEF Joins, WayInOrder, InOrder, NoneOlder
<1> QED
  BY <1>4, <1>5 DEF Joins

(* What arrives is the oldest, and may arrive again.                       *)
LEMMA ArrivesInOrder ==
  ASSUME OrderInv, NEW n \in Notifier, Arrives(n)
  PROVE  /\ \A m \in Notifier : Registered(m)' => WayInOrder(m)'
         /\ \A u \in Subscriber, k \in Key : Subscribed(u) => newest'[u][k] >= newest[u][k]
<1>1. ReliableInv /\ ManagerInv /\ RegistrationInv
  BY DEF OrderInv, ReliableInv
<1> DEFINE u == url[n]
           s == Way(n)
           had == newest[u]
           now == newest'[u]
<1>2. /\ u \in Subscriber /\ s \in Seq(NumberedEvent) /\ s # << >>
      /\ had \in [Key -> 0 .. MaxEvents]
      /\ now = [had EXCEPT ![Head(s).key] = Head(s).ver]
      /\ newest' = [newest EXCEPT ![u] = now]
  BY <1>1, ApplyNewest DEF Arrives
<1>3. \A v \in Subscriber \ {u} : newest'[v] = newest[v]
  BY <1>1, <1>2 DEF ManagerInv, ManagerTypeOK
<1>4. /\ UNCHANGED << latest, recorded, notifiers, url >>
      /\ \A m \in Notifier \ {n} : Registered(m) => Way(m)' = Way(m)
  BY DEF Arrives, WayStays
<1>5. CASE Registered(n)
  <2>1. WayInOrder(n)
    BY <1>5 DEF OrderInv
  <2>2. /\ NoneOlder(s, now) /\ NoneOlder(Tail(s), now) /\ InOrder(Tail(s))
        /\ \A k \in Key : had[k] <= now[k]
    <3>1. InOrder(s) /\ NoneOlder(s, had)
      BY <2>1 DEF WayInOrder
    <3> HIDE DEF s, had, now
    <3> QED
      BY <1>2, <3>1, HeadInOrder
  <2>3. Way(n)' = s \/ Way(n)' = Tail(s)
    BY <1>5 DEF Arrives
  <2>4. /\ \A i \in DOMAIN s : s[i].ver <= recorded
        /\ \A i \in DOMAIN Tail(s) : Tail(s)[i].ver <= recorded
        /\ Head(s).ver <= recorded
    <3>1. \A i \in DOMAIN s : s[i].ver <= recorded
      BY <2>1 DEF WayInOrder
    <3> HIDE DEF s
    <3>2. Head(s) = s[1] /\ 1 \in DOMAIN s /\ \A i \in DOMAIN Tail(s) : i + 1 \in DOMAIN s /\ Tail(s)[i] = s[i + 1]
      BY <1>2
    <3> QED
      BY <3>1, <3>2
  <2>5. \A k \in Key : now[k] <= recorded
    <3>1. \A k \in Key : had[k] <= recorded
      BY <2>1 DEF WayInOrder
    <3> HIDE DEF s, had, now
    <3>2. \A k \in Key : now[k] = had[k] \/ now[k] = Head(s).ver
      BY <1>2
    <3> QED
      BY <2>4, <3>1, <3>2
  <2>6. WayInOrder(n)'
    <3>1. InOrder(s)
      BY <2>1 DEF WayInOrder
    <3> QED
      BY <1>4, <2>2, <2>3, <2>4, <2>5, <3>1 DEF WayInOrder, InOrder, NoneOlder
  <2>7. ASSUME NEW m \in Notifier \ {n}, Registered(m) PROVE WayInOrder(m)'
    <3>1. url[m] \in Subscriber \ {u}
      BY <1>1, <2>7, OneNotifier
    <3>2. WayInOrder(m) /\ Way(m)' = Way(m) /\ newest'[url[m]] = newest[url[m]]
      BY <1>3, <1>4, <2>7, <3>1 DEF OrderInv
    <3> QED
      BY <1>4, <3>2 DEF WayInOrder, InOrder, NoneOlder
  <2>8. ASSUME NEW v \in Subscriber, NEW k \in Key PROVE newest'[v][k] >= newest[v][k]
    <3>1. newest[v][k] \in 0 .. MaxEvents /\ MaxEvents \in Nat
      BY <1>1, ManagerConstants DEF ManagerInv, ManagerTypeOK
    <3>2. CASE v = u
      <4>1. had[k] <= now[k]
        BY <2>2
      <4>2. now[k] \in Int
        <5> HIDE DEF s, had, now
        <5>1. PICK e \in NumberedEvent : Head(s) = e
          BY <1>2
        <5>2. e.ver \in Int
          <6>1. e.ver \in 0 .. MaxEvents
            BY NumberedFacts
          <6> QED
            BY <6>1, ManagerConstants
        <5>3. now[k] = had[k] \/ now[k] = Head(s).ver
          BY <1>2
        <5>4. had[k] \in Int
          BY <1>2, ManagerConstants
        <5> QED
          BY <5>1, <5>2, <5>3, <5>4
      <4> QED
        BY <3>1, <3>2, <4>1, <4>2
    <3>3. CASE v # u
      BY <1>3, <3>1, <3>3
    <3> QED
      BY <3>2, <3>3
  <2> QED
    BY <1>4, <2>6, <2>7, <2>8 DEF Registered
<1>6. CASE ~ Registered(n)
  <2>1. ASSUME NEW m \in Notifier, Registered(m)
        PROVE  m # n /\ url[m] \in Subscriber \ {u}
    BY <1>1, <1>6, <2>1, OneNotifier
  <2>2. ASSUME NEW m \in Notifier, Registered(m) PROVE WayInOrder(m)'
    <3>1. WayInOrder(m) /\ Way(m)' = Way(m) /\ newest'[url[m]] = newest[url[m]]
      BY <1>3, <1>4, <2>1, <2>2 DEF OrderInv
    <3> QED
      BY <1>4, <3>1 DEF WayInOrder, InOrder, NoneOlder
  <2>3. ASSUME NEW v \in Subscriber, NEW k \in Key, Subscribed(v)
        PROVE  newest'[v][k] >= newest[v][k]
    <3>1. newest[v][k] \in 0 .. MaxEvents /\ MaxEvents \in Nat
      BY <1>1, ManagerConstants DEF ManagerInv, ManagerTypeOK
    <3>2. v # u
      <4>1. PICK i \in DOMAIN notifiers : url[notifiers[i]] = v
        BY <2>3 DEF Subscribed
      <4>2. notifiers[i] \in Notifier /\ Registered(notifiers[i])
        BY <1>1, <4>1 DEF ManagerInv, ManagerTypeOK, Registered
      <4> QED
        BY <2>1, <4>1, <4>2
    <3> QED
      BY <1>3, <3>1, <3>2
  <2> QED
    BY <1>4, <2>2, <2>3 DEF Registered
<1> QED
  BY <1>5, <1>6

(***************************************************************************)
(* As long as nothing is dropped and no two goroutines hand out events at  *)
(* the same time, no delivery takes a registered subscriber back to an     *)
(* older event about a resource than the last it applied: with any number  *)
(* of goroutines that change the model, of failed attempts and repeats.    *)
(* Every URL is registered once.                                           *)
(***************************************************************************)
THEOREM ReliableInOrder ==
  ASSUME MaxSubscriptions = 1
  PROVE  Spec /\ []Undisturbed => DeliveredInOrder
<1>1. Init => OrderInv
  <2> SUFFICES ASSUME Init PROVE OrderInv
    OBVIOUS
  <2>1. recorded = 0 /\ \A k \in Key : latest.state[k] = 0
    BY EventManagerAssumption DEF Init, EmptyLatest
  <2>2. \A n \in Notifier : ~ Registered(n)
    BY DEF Init, Registered
  <2> QED
    BY <2>1, <2>2, InitReliable DEF OrderInv
<1>2. ASSUME OrderInv, Undisturbed, Undisturbed', [Next]_vars
      PROVE  /\ OrderInv'
             /\ \A u \in Subscriber, k \in Key : Subscribed(u) => newest'[u][k] >= newest[u][k]
  <2>1. ReliableInv /\ ReliableInv'
    BY <1>2, ReliableStep DEF OrderInv
  <2>2. \A u \in Subscriber, k \in Key : newest[u][k] >= newest[u][k]
    <3> SUFFICES ASSUME NEW u \in Subscriber, NEW k \in Key PROVE newest[u][k] >= newest[u][k]
      OBVIOUS
    <3>1. newest[u][k] \in 0 .. MaxEvents /\ MaxEvents \in Nat
      BY <2>1, ManagerConstants DEF ReliableInv, ManagerInv, ManagerTypeOK
    <3> QED
      BY <3>1
  <2>3. CASE Still
    BY <1>2, <2>1, <2>2, <2>3
       DEF Still, WayStays, OrderInv, WayInOrder, InOrder, NoneOlder, Registered
  <2>4. ASSUME NEW ev \in NumberedEvent, Says(ev)
        PROVE  OrderInv' /\ newest' = newest
    BY <1>2, <2>1, <2>4, SaysInOrder DEF OrderInv, Says
  <2>5. ASSUME NEW n \in Notifier, NEW u \in Subscriber, Joins(n, u)
        PROVE  OrderInv' /\ newest' = newest
    BY <1>2, <2>1, <2>5, JoinsInOrder DEF OrderInv, Joins
  <2>6. ASSUME NEW n \in Notifier, Leaves(n)
        PROVE  OrderInv' /\ newest' = newest
    BY <1>2, <2>1, <2>6 DEF OrderInv, Leaves, WayStays, WayInOrder, InOrder, NoneOlder
  <2>7. ASSUME NEW n \in Notifier, Arrives(n)
        PROVE  /\ OrderInv'
               /\ \A u \in Subscriber, k \in Key : Subscribed(u) => newest'[u][k] >= newest[u][k]
    BY <1>2, <2>1, <2>7, ArrivesInOrder DEF OrderInv, Arrives
  <2> QED
    BY <1>2, <2>1, <2>2, <2>3, <2>4, <2>5, <2>6, <2>7, StepKinds
<1>3. OrderInv /\ Undisturbed /\ Undisturbed' /\ [Next]_vars =>
        OrderInv' /\ [\A u \in Subscriber, k \in Key :
                        Subscribed(u) => newest'[u][k] >= newest[u][k]]_vars
  BY <1>2
<1> QED
  BY <1>1, <1>3, PTL DEF Spec, DeliveredInOrder

-----------------------------------------------------------------------------
(***************************************************************************)
(* The queue and the snapshot.  A registered notifier has had its last     *)
(* snapshot before anything in its queue was recorded.                     *)
(***************************************************************************)
Since(s, v) == \A i \in DOMAIN s : s[i].ver > v

(* What is queued for n, and what awaits it, is newer than its snapshot.   *)
FollowsSnapshot(n) ==
  /\ asOf[n] <= recorded
  /\ Registered(n) =>
       /\ Since(queue[n], asOf[n])
       /\ \A w \in Writer : Contains(sending[w].todo, n) => sending[w].ev.ver > asOf[n]

(* The inductive invariant under QueueFollowsSnapshot.                     *)
FollowInv ==
  /\ ReliableInv
  /\ \A n \in Notifier : FollowsSnapshot(n)

(* What an event that is appended, or the first one taken away, does to    *)
(* that.                                                                   *)
LEMMA SinceMoves ==
  ASSUME NEW s \in Seq(NumberedEvent), NEW e \in NumberedEvent, NEW v, Since(s, v)
  PROVE  /\ e.ver > v => Since(Append(s, e), v)
         /\ s # << >> => Since(Tail(s), v)
<1>1. DOMAIN s = 1 .. Len(s) /\ Len(s) \in Nat
  OBVIOUS
<1>2. ASSUME e.ver > v PROVE Since(Append(s, e), v)
  <2>1. /\ DOMAIN Append(s, e) = 1 .. Len(s) + 1
        /\ \A i \in 1 .. Len(s) : Append(s, e)[i] = s[i]
        /\ Append(s, e)[Len(s) + 1] = e
    OBVIOUS
  <2>2. \A i \in 1 .. Len(s) + 1 : i \in 1 .. Len(s) \/ i = Len(s) + 1
    BY <1>1
  <2> QED
    BY <1>1, <1>2, <2>1, <2>2 DEF Since
<1>3. ASSUME s # << >> PROVE Since(Tail(s), v)
  <2>1. \A i \in DOMAIN Tail(s) : i + 1 \in DOMAIN s /\ Tail(s)[i] = s[i + 1]
    BY <1>3
  <2> QED
    BY <2>1 DEF Since
<1> QED
  BY <1>2, <1>3

(* A change that is recorded is newer than any snapshot.                   *)
LEMMA RecordFollows ==
  ASSUME FollowInv, NEW w \in Writer, NEW op \in Operation, NEW k \in Key,
         Record(w, op, k), NEW n \in Notifier
  PROVE  FollowsSnapshot(n)'
<1>1. ManagerInv /\ FollowsSnapshot(n)
  BY DEF FollowInv, ReliableInv
<1>2. /\ UNCHANGED << notifiers, queue, asOf >>
      /\ recorded' = recorded + 1
      /\ sending'[w].ev.ver = recorded'
      /\ \A v \in Writer \ {w} : sending'[v] = sending[v]
  BY <1>1 DEF Record, Numbered, ManagerInv, ManagerTypeOK
<1>3. asOf[n] \in Nat /\ recorded \in Nat
  BY <1>1, ManagerConstants DEF ManagerInv, ManagerTypeOK
<1>4. asOf[n] <= recorded' /\ recorded' > asOf[n]
  BY <1>1, <1>2, <1>3 DEF FollowsSnapshot
<1> QED
  BY <1>1, <1>2, <1>4 DEF FollowsSnapshot, Registered

(* What is handed out was newer before.                                    *)
LEMMA HandOutFollows ==
  ASSUME FollowInv, NothingDropped, NEW w \in Writer, HandOut(w), NEW m \in Notifier
  PROVE  FollowsSnapshot(m)'
<1>1. ManagerInv /\ RegistrationInv /\ FollowsSnapshot(m)
  BY DEF FollowInv, ReliableInv
<1>2. Enqueue(w)
  BY DEF HandOut, FlagOverflow, NothingDropped
<1>3a. PICK n \in Notifier, ev \in NumberedEvent, todo \in Seq(Notifier) :
       Enqueued(w, n, ev, todo)
  BY <1>1, <1>2, EnqueueFacts
<1>3. /\ sending[w] = [ev |-> ev, todo |-> todo]
      /\ sending'[w] = [ev |-> ev, todo |-> Tail(todo)]
      /\ \/ queue' = [queue EXCEPT ![n] = Append(queue[n], ev)]
         \/ queue' = queue
      /\ Contains(todo, n)
      /\ NoneTwice(todo) =>
           \A l \in Notifier : Contains(Tail(todo), l) <=> Contains(todo, l) /\ l # n
      /\ UNCHANGED << managerVars, asOf >>
  BY <1>3a DEF Enqueued
<1>4. /\ sending[w].todo = todo /\ sending'[w].todo = Tail(todo)
      /\ sending[w].ev = ev /\ sending'[w].ev = ev
      /\ UNCHANGED << recorded, notifiers, asOf >>
      /\ queue \in [Notifier -> Seq(NumberedEvent)]
  BY <1>1, <1>3 DEF managerVars, ManagerInv, ManagerTypeOK
<1>5. NoneTwice(todo)
  BY <1>1, <1>4 DEF RegistrationInv
<1>6. Registered(m) /\ Contains(todo, m) => ev.ver > asOf[m]
  BY <1>1, <1>4 DEF FollowsSnapshot
<1>7. Registered(m) => Since(queue'[m], asOf[m])
  <2>1. CASE queue'[m] = queue[m]
    BY <1>1, <2>1 DEF FollowsSnapshot
  <2>2. CASE m = n /\ queue'[m] = Append(queue[m], ev)
    BY <1>1, <1>3, <1>4, <1>6, <2>2, SinceMoves DEF FollowsSnapshot
  <2> QED
    BY <1>3, <1>4, <2>1, <2>2
<1>8. Contains(sending'[w].todo, m) => Contains(todo, m)
  BY <1>3, <1>4, <1>5
<1>9. \A v \in Writer \ {w} : sending'[v] = sending[v]
  BY <1>1, <1>2 DEF Enqueue, ManagerInv, ManagerTypeOK
<1> QED
  BY <1>1, <1>4, <1>6, <1>7, <1>8, <1>9 DEF FollowsSnapshot, Registered

(* A subscriber that registers has an empty queue.                         *)
LEMMA AddSubscriberFollows ==
  ASSUME FollowInv, MaxSubscriptions = 1, NEW u \in Subscriber, AddSubscriber(u), NEW m \in Notifier
  PROVE  FollowsSnapshot(m)'
<1>1. ManagerInv /\ RegistrationInv /\ FollowsSnapshot(m)
  BY DEF FollowInv, ReliableInv
<1>2. PICK n \in Notifier :
        /\ phase[n] = "new"
        /\ asOf' = [asOf EXCEPT ![n] = recorded]
        /\ \A l \in Notifier : Registered(l)' <=> Registered(l) \/ l = n
        /\ ~ Awaits(n)
        /\ UNCHANGED << recorded, writerVars, queue >>
  BY <1>1, AddSubscriberFacts
<1>3. /\ sending' = sending /\ queue'[n] = << >>
      /\ asOf'[n] = recorded /\ recorded \in Nat
      /\ \A l \in Notifier \ {n} : asOf'[l] = asOf[l]
  BY <1>1, <1>2, CounterFacts DEF RegistrationInv, ManagerInv, ManagerTypeOK, writerVars
<1>4. CASE m = n
  BY <1>2, <1>3, <1>4 DEF FollowsSnapshot, Since, Awaits
<1>5. CASE m # n
  BY <1>1, <1>2, <1>3, <1>5 DEF FollowsSnapshot
<1> QED
  BY <1>4, <1>5

(* The loop takes events away, and takes no snapshot.                      *)
LEMMA LoopFollows ==
  ASSUME FollowInv, NothingDropped, NEW n \in Notifier, Loop(n) \/ Exit(n), NEW m \in Notifier
  PROVE  FollowsSnapshot(m)'
<1>1. /\ ManagerInv /\ RegistrationInv
      /\ FollowsSnapshot(m) /\ FollowsSnapshot(n)
  BY DEF FollowInv, ReliableInv
<1>2. /\ UNCHANGED << recorded, notifiers, sending >>
      /\ m # n => queue'[m] = queue[m] /\ asOf'[m] = asOf[m]
  BY <1>1, LoopTouches DEF managerVars, writerVars
<1>3. CASE m # n
  BY <1>1, <1>2, <1>3 DEF FollowsSnapshot, Registered
<1>4. CASE m = n /\ ~ TakeSnapshot(n)
  <2>1. asOf' = asOf
    BY <1>4 DEF Loop, Attempt, DeliverOk, DeliverFail, AbandonDelivery, TakeEvent, RetryResync,
                DrainQueue, Exit
  <2>2. queue' = queue \/ (queue[n] # << >> /\ queue' = [queue EXCEPT ![n] = Tail(queue[n])])
    <3>1. CASE DeliverFail(n)
      BY <3>1 DEF DeliverFail, Retry
    <3> QED
      BY <1>4, <3>1
         DEF Loop, Attempt, DeliverOk, AbandonDelivery, TakeEvent, RetryResync, DrainQueue, Exit
  <2>3. queue \in [Notifier -> Seq(NumberedEvent)]
    BY <1>1 DEF ManagerInv, ManagerTypeOK
  <2>4. queue'[n] = queue[n] \/ (queue[n] # << >> /\ queue'[n] = Tail(queue[n]))
    BY <2>2, <2>3
  <2>5. Registered(n) => Since(queue'[n], asOf[n])
    <3>1. CASE queue'[n] = queue[n]
      BY <1>1, <3>1 DEF FollowsSnapshot
    <3>2. CASE queue[n] # << >> /\ queue'[n] = Tail(queue[n])
      <4>1. Head(queue[n]) \in NumberedEvent /\ queue[n] \in Seq(NumberedEvent)
        BY <2>3, <3>2, HeadTailProperties
      <4> QED
        BY <1>1, <3>2, <4>1, SinceMoves DEF FollowsSnapshot
    <3> QED
      BY <2>4, <3>1, <3>2
  <2> QED
    BY <1>1, <1>2, <1>4, <2>1, <2>5 DEF FollowsSnapshot, Registered
<1>5. CASE m = n /\ TakeSnapshot(n)
  <2>1. ~ Registered(n)
    BY <1>5 DEF TakeSnapshot, NothingDropped
  <2>2. asOf'[n] = recorded
    BY <1>1, <1>5 DEF TakeSnapshot, ManagerInv, ManagerTypeOK
  <2>3. recorded \in Nat
    BY <1>1, CounterFacts
  <2> QED
    BY <1>2, <1>5, <2>1, <2>2, <2>3 DEF FollowsSnapshot, Registered
<1> QED
  BY <1>3, <1>4, <1>5

(***************************************************************************)
(* As long as nothing is dropped, what is queued for a subscriber was      *)
(* recorded after the snapshot it was sent, whatever goroutines race to    *)
(* the queue.  Every URL is registered once.                               *)
(***************************************************************************)
THEOREM ReliableFollowsSnapshot ==
  ASSUME MaxSubscriptions = 1
  PROVE  Spec /\ []NothingDropped => []QueueFollowsSnapshot
<1>1. Init => FollowInv
  <2> SUFFICES ASSUME Init PROVE FollowInv
    OBVIOUS
  <2>1. recorded = 0 /\ \A n \in Notifier : asOf[n] = 0 /\ ~ Registered(n)
    BY DEF Init, Registered
  <2> QED
    BY <2>1, InitReliable DEF FollowInv, FollowsSnapshot
<1>2. FollowInv /\ NothingDropped /\ [Next]_vars => FollowInv'
  <2> SUFFICES ASSUME FollowInv, NothingDropped, [Next]_vars PROVE FollowInv'
    OBVIOUS
  <2>1. ReliableInv'
    BY ReliableStep DEF FollowInv
  <2>2. ASSUME NEW n \in Notifier PROVE FollowsSnapshot(n)'
    <3>1. FollowsSnapshot(n) /\ ManagerInv /\ RegistrationInv
      BY DEF FollowInv, ReliableInv
    <3>2. CASE UNCHANGED vars
      BY <3>1, <3>2 DEF FollowsSnapshot, Registered, Since, vars, managerVars, writerVars
    <3>3. ASSUME NEW u \in Subscriber, RemoveSubscriber(u) PROVE FollowsSnapshot(n)'
      <4>1. /\ Registered(n)' => Registered(n)
            /\ UNCHANGED << recorded, writerVars, queue, asOf >>
        BY <3>1, <3>3, RemoveSubscriberFacts
      <4> QED
        BY <3>1, <4>1 DEF FollowsSnapshot, Since, writerVars
    <3> QED
      BY <3>2, <3>3, RecordFollows, HandOutFollows, AddSubscriberFollows, LoopFollows DEF Next
  <2> QED
    BY <2>1, <2>2 DEF FollowInv
<1>3. FollowInv => QueueFollowsSnapshot
  BY DEF FollowInv, FollowsSnapshot, Since, QueueFollowsSnapshot
<1> QED
  BY <1>1, <1>2, <1>3, PTL DEF Spec

-----------------------------------------------------------------------------
(***************************************************************************)
(* The event manager is an ordered feed, and so it is exact.               *)
(***************************************************************************)
PlainOf(ev) == [op |-> ev.op, key |-> ev.key, val |-> ev.val]

(* Dropping the numbers of the events commutes with what moves them.       *)
LEMMA PlainMoves ==
  ASSUME NEW s \in Seq(NumberedEvent), NEW e \in NumberedEvent
  PROVE  /\ Plain(s) \in Seq(Event)
         /\ PlainOf(e) \in Event /\ PlainOf(e).key = e.key /\ Effect(PlainOf(e)) = Effect(e)
         /\ Plain(Append(s, e)) = Append(Plain(s), PlainOf(e))
         /\ s # << >> => /\ Plain(s) # << >>
                         /\ Head(Plain(s)) = PlainOf(Head(s))
                         /\ Plain(Tail(s)) = Tail(Plain(s))
<1>0. \A x \in NumberedEvent : PlainOf(x) \in Event
  <2> SUFFICES ASSUME NEW x \in NumberedEvent PROVE PlainOf(x) \in Event
    OBVIOUS
  <2> QED
    BY NumberedFacts DEF PlainOf
<1>1. \A t : Plain(t) = [i \in DOMAIN t |-> PlainOf(t[i])]
  BY DEF Plain, PlainOf
<1> DEFINE P(x) == PlainOf(x)
<1> HIDE DEF P
<1>2. \A t : Plain(t) = [i \in DOMAIN t |-> P(t[i])]
  BY <1>1 DEF P
<1>3. \A x \in NumberedEvent : P(x) \in Event
  BY <1>0 DEF P
<1>4. ASSUME NEW t \in Seq(NumberedEvent)
      PROVE  /\ Plain(t) \in Seq(Event) /\ Len(Plain(t)) = Len(t)
             /\ \A i \in 1 .. Len(t) : Plain(t)[i] = P(t[i])
  <2>1. DOMAIN t = 1 .. Len(t) /\ Len(t) \in Nat /\ \A i \in 1 .. Len(t) : t[i] \in NumberedEvent
    OBVIOUS
  <2>2. Plain(t) = [i \in 1 .. Len(t) |-> P(t[i])]
    BY <1>2, <2>1
  <2>3. \A i \in 1 .. Len(t) : P(t[i]) \in Event
    BY <1>3, <2>1
  <2>4. Plain(t) \in Seq(Event)
    BY <2>1, <2>2, <2>3, IsASeq
  <2>5. DOMAIN Plain(t) = 1 .. Len(t)
    BY <2>2
  <2> QED
    BY <2>1, <2>2, <2>4, <2>5, LenProperties
<1>5. Plain(Append(s, e)) = Append(Plain(s), P(e))
  <2> DEFINE a == Plain(Append(s, e))
             b == Append(Plain(s), P(e))
             t == Append(s, e)
  <2>1. /\ t \in Seq(NumberedEvent) /\ Len(t) = Len(s) + 1 /\ Len(s) \in Nat
        /\ t[Len(s) + 1] = e
        /\ \A i \in 1 .. Len(s) : t[i] = s[i]
    BY AppendProperties
  <2>2. /\ a \in Seq(Event) /\ Len(a) = Len(t)
        /\ \A i \in 1 .. Len(t) : a[i] = P(t[i])
    BY <1>4, <2>1
  <2>3. /\ Plain(s) \in Seq(Event) /\ Len(Plain(s)) = Len(s)
        /\ \A i \in 1 .. Len(s) : Plain(s)[i] = P(s[i])
    BY <1>4
  <2>4. /\ b \in Seq(Event) /\ Len(b) = Len(s) + 1
        /\ b[Len(s) + 1] = P(e)
        /\ \A i \in 1 .. Len(s) : b[i] = P(s[i])
    BY <1>3, <2>3, AppendProperties
  <2> HIDE DEF a, b, t
  <2>5. \A i \in 1 .. Len(s) + 1 : i \in 1 .. Len(s) \/ i = Len(s) + 1
    BY <2>1
  <2>6. Len(a) = Len(b) /\ \A i \in 1 .. Len(a) : a[i] = b[i]
    BY <2>1, <2>2, <2>4, <2>5
  <2>7. a = b
    BY <2>2, <2>4, <2>6, SeqEqual
  <2> QED
    BY <2>7 DEF a, b
<1>6. ASSUME s # << >>
      PROVE  /\ Plain(s) # << >>
             /\ Head(Plain(s)) = P(Head(s))
             /\ Plain(Tail(s)) = Tail(Plain(s))
  <2> DEFINE a == Plain(Tail(s))
             b == Tail(Plain(s))
             t == Tail(s)
  <2>1. /\ Len(s) \in Nat \ {0} /\ Head(s) = s[1]
        /\ t \in Seq(NumberedEvent) /\ Len(t) = Len(s) - 1
        /\ \A i \in 1 .. Len(s) - 1 : t[i] = s[i + 1]
    BY <1>6, EmptySeq, HeadTailProperties
  <2>2. /\ Plain(s) \in Seq(Event) /\ Len(Plain(s)) = Len(s)
        /\ \A i \in 1 .. Len(s) : Plain(s)[i] = P(s[i])
    BY <1>4
  <2>3. Plain(s) # << >>
    BY <2>1, <2>2, EmptySeq
  <2>4. Head(Plain(s)) = Plain(s)[1] /\ Plain(s)[1] = P(s[1])
    BY <2>1, <2>2, <2>3
  <2>5. /\ a \in Seq(Event) /\ Len(a) = Len(s) - 1
        /\ \A i \in 1 .. Len(s) - 1 : a[i] = P(t[i])
    BY <1>4, <2>1
  <2>6. /\ b \in Seq(Event) /\ Len(b) = Len(s) - 1
        /\ \A i \in 1 .. Len(s) - 1 : b[i] = Plain(s)[i + 1]
    <3>1. /\ b \in Seq(Event) /\ Len(b) = Len(Plain(s)) - 1
          /\ \A i \in 1 .. Len(b) : b[i] = Plain(s)[i + 1]
      BY <2>2, <2>3, HeadTailProperties
    <3> HIDE DEF b
    <3> QED
      BY <2>2, <3>1
  <2> HIDE DEF a, b, t
  <2>7. \A i \in 1 .. Len(s) - 1 : i + 1 \in 1 .. Len(s)
    BY <2>1
  <2>8. \A i \in 1 .. Len(s) - 1 : a[i] = b[i]
    BY <2>1, <2>2, <2>5, <2>6, <2>7
  <2>9. a = b
    BY <2>5, <2>6, <2>8, SeqEqual
  <2> QED
    BY <2>1, <2>3, <2>4, <2>9 DEF a, b
<1>7. P(e).key = e.key /\ Effect(P(e)) = Effect(e)
  BY DEF P, PlainOf, Effect
<1> QED
  BY <1>3, <1>4, <1>5, <1>6, <1>7 DEF P

(* What is on its way to u is on the way of its notifier, if it has one.   *)
WaysKnown ==
  /\ \A n \in Notifier : Registered(n) => Subscribed(url[n]) /\ OnItsWay(url[n]) = Plain(Way(n))
  /\ \A u \in Subscriber : ~ Subscribed(u) => OnItsWay(u) = << >>

(* WaysKnown follows from the registration, before a step                  *)
LEMMA OnTheWay == RegistrationInv => WaysKnown
<1> SUFFICES ASSUME RegistrationInv
             PROVE  /\ \A n \in Notifier : Registered(n) =>
                         Subscribed(url[n]) /\ OnItsWay(url[n]) = Plain(Way(n))
                    /\ \A u \in Subscriber : ~ Subscribed(u) => OnItsWay(u) = << >>
  BY DEF WaysKnown
<1>1. ASSUME NEW n \in Notifier, Registered(n)
      PROVE  Subscribed(url[n]) /\ OnItsWay(url[n]) = Plain(Way(n))
  <2>1. Subscribed(url[n])
    BY <1>1 DEF Registered, Subscribed
  <2>2. \A m \in Notifier : Registered(m) /\ url[m] = url[n] <=> m = n
    BY <1>1, OneNotifier
  <2>3. NotifierOf(url[n]) = n
    BY <2>2 DEF NotifierOf
  <2> QED
    BY <2>1, <2>3 DEF OnItsWay, Way
<1> QED
  BY <1>1 DEF OnItsWay

(* and after it.                                                           *)
LEMMA OnTheWayNext == RegistrationInv' => WaysKnown'
BY OnTheWay, PTL

(* A subscriber that is registered has a notifier.                         *)
LEMMA SubscribedNotifier ==
  ManagerInv => \A u \in Subscriber : Subscribed(u) => \E n \in Notifier : Registered(n) /\ url[n] = u
<1> SUFFICES ASSUME ManagerInv, NEW u \in Subscriber, Subscribed(u)
             PROVE  \E n \in Notifier : Registered(n) /\ url[n] = u
  OBVIOUS
<1>1. PICK i \in DOMAIN notifiers : url[notifiers[i]] = u
  BY DEF Subscribed
<1>2. notifiers[i] \in Notifier
  BY <1>1 DEF ManagerInv, ManagerTypeOK
<1> QED
  BY <1>1, <1>2 DEF Registered

(* A subscriber whose notifier stays, and with it what is on its way.      *)
LEMMA WayKept ==
  ASSUME ReliableInv, ReliableInv', NEW u \in Subscriber, Subscribed(u)' <=> Subscribed(u),
         \A n \in Notifier : Registered(n) /\ url[n] = u =>
           Registered(n)' /\ url'[n] = u /\ Way(n)' = Way(n)
  PROVE  OnItsWay(u)' = OnItsWay(u)
<1>1. ManagerInv /\ RegistrationInv /\ RegistrationInv'
  BY DEF ReliableInv
<1>2. /\ \A n \in Notifier : Registered(n)' => OnItsWay(url[n])' = Plain(Way(n))'
      /\ \A v \in Subscriber : ~ Subscribed(v)' => OnItsWay(v)' = << >>
  BY <1>1, OnTheWayNext DEF WaysKnown
<1>3. CASE ~ Subscribed(u)
  BY <1>1, <1>2, <1>3, OnTheWay DEF WaysKnown
<1>4. CASE Subscribed(u)
  <2>1. PICK n \in Notifier : Registered(n) /\ url[n] = u
    BY <1>1, <1>4, SubscribedNotifier
  <2>2. OnItsWay(u) = Plain(Way(n))
    BY <1>1, <2>1, OnTheWay DEF WaysKnown
  <2>3. url'[n] = u /\ Registered(n)' /\ Way(n)' = Way(n)
    BY <2>1
  <2>4. OnItsWay(url[n])' = Plain(Way(n))'
    BY <1>2, <2>3
  <2>5. OnItsWay(url[n])' = OnItsWay(u)'
    BY <2>3
  <2>6. Plain(Way(n))' = Plain(Way(n))
    BY <2>3 DEF Plain
  <2> QED
    BY <2>2, <2>4, <2>5, <2>6
<1> QED
  BY <1>3, <1>4

(* The subscribers, and what is on its way to each.                        *)
Feeds    == {u \in Subscriber : Subscribed(u)}
(* What the feed calls subscribed and pending.                             *)
Pendings == [u \in Subscriber |-> OnItsWay(u)]

(* The kinds of step, said of the feed's variables: Still,                 *)
LEMMA StillFeeds ==
  ASSUME ReliableInv, ReliableInv', Still
  PROVE  UNCHANGED << latest, replica, Feeds, Pendings >>
<1>1. \A u \in Subscriber : Subscribed(u)' <=> Subscribed(u)
  BY DEF Still, Subscribed
<1>2. \A u \in Subscriber : OnItsWay(u)' = OnItsWay(u)
  BY <1>1, WayKept DEF Still, WayStays, Registered
<1> QED
  BY <1>1, <1>2 DEF Still, Feeds, Pendings

(* Says,                                                                   *)
LEMMA SaysFeeds ==
  ASSUME ReliableInv, ReliableInv', NEW ev \in NumberedEvent, Says(ev)
  PROVE  /\ latest'.state = ApplyEvent(latest.state, PlainOf(ev))
         /\ Pendings' = [u \in Subscriber |->
                           IF u \in Feeds THEN Append(Pendings[u], PlainOf(ev)) ELSE Pendings[u]]
         /\ UNCHANGED << replica, Feeds >>
<1>1. ManagerInv /\ RegistrationInv /\ RegistrationInv'
  BY DEF ReliableInv
<1>2. PlainOf(ev).key = ev.key /\ Effect(PlainOf(ev)) = Effect(ev)
  BY DEF PlainOf, Effect
<1>3. latest'.state = ApplyEvent(latest.state, PlainOf(ev))
  BY <1>2 DEF Says, ApplyEvent
<1>4. notifiers' = notifiers /\ url' = url /\ replica' = replica
  BY DEF Says
<1>5. \A u \in Subscriber : Subscribed(u)' <=> Subscribed(u)
  BY <1>4 DEF Subscribed
<1>6. ASSUME NEW u \in Subscriber, ~ Subscribed(u) PROVE OnItsWay(u)' = OnItsWay(u)
  BY <1>1, <1>5, <1>6, OnTheWay, OnTheWayNext DEF WaysKnown
<1>7. ASSUME NEW u \in Subscriber, Subscribed(u)
      PROVE  OnItsWay(u)' = Append(OnItsWay(u), PlainOf(ev))
  <2>1. PICK n \in Notifier : Registered(n) /\ url[n] = u
    BY <1>1, <1>7, SubscribedNotifier
  <2>2. OnItsWay(u) = Plain(Way(n))
    BY <1>1, <2>1, OnTheWay DEF WaysKnown
  <2>3. Registered(n)' /\ url'[n] = u /\ Way(n)' = Append(Way(n), ev)
    BY <1>4, <2>1 DEF Says, Registered
  <2>4. OnItsWay(url[n])' = Plain(Way(n))'
    BY <1>1, <2>3, OnTheWayNext DEF WaysKnown
  <2>5. OnItsWay(url[n])' = OnItsWay(u)'
    BY <2>3
  <2>6. Plain(Way(n))' = Plain(Append(Way(n), ev))
    BY <2>3 DEF Plain
  <2>7. Plain(Append(Way(n), ev)) = Append(Plain(Way(n)), PlainOf(ev))
    BY <1>1, WayType, PlainMoves
  <2> QED
    BY <2>2, <2>4, <2>5, <2>6, <2>7
<1>8. Pendings' = [u \in Subscriber |->
                     IF u \in Feeds THEN Append(Pendings[u], PlainOf(ev)) ELSE Pendings[u]]
  BY <1>6, <1>7 DEF Pendings, Feeds
<1> QED
  BY <1>3, <1>4, <1>5, <1>8 DEF Feeds

(* A listing, without the numbers.                                         *)
LEMMA SnapshotListing ==
  ASSUME ManagerInv
  PROVE  LET s == Plain(StateSnapshot)
         IN  /\ s \in Seq(Event)
             /\ \A i \in DOMAIN s :
                  s[i].op = "Create" /\ s[i].val = latest.state[s[i].key] /\ s[i].val # Absent
             /\ \A k \in Key : latest.state[k] # Absent =>
                  \E i \in DOMAIN s : s[i].key = k /\ \A j \in DOMAIN s : s[j].key = k => j = i
<1> DEFINE s == Plain(StateSnapshot)
<1>1. StateSnapshot \in Seq(NumberedEvent) /\ DOMAIN StateSnapshot = DOMAIN latest.order
  BY SnapshotFacts
<1>2. s \in Seq(Event)
  <2>1. \A e \in NumberedEvent : Plain(StateSnapshot) \in Seq(Event)
    BY <1>1, PlainMoves
  <2>2. (CHOOSE k \in Key : TRUE) \in Key
    BY EventManagerAssumption
  <2>3. Numbered("Delete", CHOOSE k \in Key : TRUE, 0) \in NumberedEvent
    BY <2>2 DEF Numbered, NumberedEvent
  <2> QED
    BY <2>1, <2>3
<1>3. /\ DOMAIN s = DOMAIN latest.order
      /\ \A i \in DOMAIN s : /\ s[i].op = "Create" /\ s[i].key = latest.order[i]
                             /\ s[i].val = latest.state[latest.order[i]]
                             /\ s[i].val \in Value
  <2>1. \A i \in DOMAIN StateSnapshot :
          /\ StateSnapshot[i].op = "Create" /\ StateSnapshot[i].key = latest.order[i]
          /\ StateSnapshot[i].val = latest.state[latest.order[i]]
          /\ latest.state[latest.order[i]] \in Value
    BY SnapshotFacts DEF Numbered
  <2>2. PICK t : t = StateSnapshot
    OBVIOUS
  <2>3. s = [i \in DOMAIN t |-> [op |-> t[i].op, key |-> t[i].key, val |-> t[i].val]]
    BY <2>2 DEF Plain
  <2> QED
    BY <1>1, <2>1, <2>2, <2>3
<1> HIDE DEF s
<1>4. /\ \A k \in Key : latest.state[k] # Absent => \E i \in DOMAIN latest.order : latest.order[i] = k
      /\ \A i, j \in DOMAIN latest.order : latest.order[i] = latest.order[j] => i = j
  BY DEF ManagerInv, OrderListsLive, LiveKeys, IsLive
<1>5. \A k \in Key : latest.state[k] # Absent =>
        \E i \in DOMAIN s : s[i].key = k /\ \A j \in DOMAIN s : s[j].key = k => j = i
  BY <1>3, <1>4
<1>6. \A i \in DOMAIN s :
        s[i].op = "Create" /\ s[i].val = latest.state[s[i].key] /\ s[i].val # Absent
  BY <1>3, ManagerConstants
<1> QED
  BY <1>2, <1>5, <1>6 DEF s

(* Joins,                                                                  *)
LEMMA JoinsFeeds ==
  ASSUME ReliableInv, ReliableInv', NEW n \in Notifier, NEW u \in Subscriber, Joins(n, u)
  PROVE  /\ u \notin Feeds /\ Feeds' = Feeds \cup {u}
         /\ replica[u] = EmptyReplica
         /\ Pendings' = [Pendings EXCEPT ![u] = Plain(StateSnapshot)]
         /\ UNCHANGED << latest, replica >>
<1>1. ManagerInv /\ RegistrationInv /\ RegistrationInv' /\ ManagerInv' /\ FreshCopies
  BY DEF ReliableInv
<1>2. /\ url'[n] = u /\ \A m \in Notifier \ {n} : url'[m] = url[m]
      /\ Registered(n)' /\ Way(n)' = StateSnapshot
  BY <1>1 DEF Joins, ManagerInv, ManagerTypeOK
<1>3. replica[u] = EmptyReplica
  BY <1>1 DEF Joins, FreshCopies
<1>4. ~ Subscribed(u)
  BY <1>1, SubscribedNotifier DEF Joins
<1>5. ASSUME NEW v \in Subscriber \ {u} PROVE Subscribed(v)' <=> Subscribed(v)
  <2>1. ASSUME Subscribed(v) PROVE Subscribed(v)'
    <3>1. PICK m \in Notifier : Registered(m) /\ url[m] = v
      BY <1>1, <2>1, SubscribedNotifier
    <3>2. Registered(m)' /\ url'[m] = v
      BY <1>2, <3>1 DEF Joins
    <3> QED
      BY <3>2 DEF Registered, Subscribed
  <2>2. ASSUME Subscribed(v)' PROVE Subscribed(v)
    <3>1. PICK m \in Notifier : Registered(m)' /\ url'[m] = v
      BY <1>1, <2>2 DEF Subscribed, Registered, ManagerInv, ManagerTypeOK
    <3>2. Registered(m) /\ url[m] = v
      BY <1>2, <3>1 DEF Joins
    <3> QED
      BY <3>2 DEF Registered, Subscribed
  <2> QED
    BY <2>1, <2>2
<1>6. Subscribed(u)'
  BY <1>2 DEF Registered, Subscribed
<1>7. Feeds' = Feeds \cup {u}
  BY <1>5, <1>6 DEF Feeds
<1>8. ASSUME NEW v \in Subscriber \ {u} PROVE OnItsWay(v)' = OnItsWay(v)
  <2>1. \A m \in Notifier : Registered(m) /\ url[m] = v =>
          Registered(m)' /\ url'[m] = v /\ Way(m)' = Way(m)
    BY <1>2 DEF Joins, WayStays
  <2> QED
    BY <1>5, <2>1, WayKept
<1>9. OnItsWay(u)' = Plain(StateSnapshot)
  <2>1. OnItsWay(url[n])' = Plain(Way(n))'
    BY <1>1, <1>2, OnTheWayNext DEF WaysKnown
  <2>2. OnItsWay(url[n])' = OnItsWay(u)'
    BY <1>2
  <2>3. Plain(Way(n))' = Plain(StateSnapshot)
    BY <1>2 DEF Plain
  <2> QED
    BY <2>1, <2>2, <2>3
<1>10. Pendings' = [Pendings EXCEPT ![u] = Plain(StateSnapshot)]
  BY <1>8, <1>9 DEF Pendings
<1> QED
  BY <1>3, <1>4, <1>7, <1>10 DEF Joins, Feeds

(* Leaves,                                                                 *)
LEMMA LeavesFeeds ==
  ASSUME ReliableInv, ReliableInv', NEW n \in Notifier, Leaves(n)
  PROVE  /\ url[n] \in Feeds /\ Feeds' = Feeds \ {url[n]}
         /\ Pendings' = [Pendings EXCEPT ![url[n]] = << >>]
         /\ UNCHANGED << latest, replica >>
<1>1. ManagerInv /\ RegistrationInv /\ RegistrationInv' /\ ManagerInv'
  BY DEF ReliableInv
<1>2. Registered(n) /\ url' = url /\ \A m \in Notifier : Registered(m)' <=> Registered(m) /\ m # n
  BY DEF Leaves
<1>3. url[n] \in Subscriber /\ Subscribed(url[n])
  BY <1>1, <1>2, OneNotifier, OnTheWay DEF WaysKnown, RegistrationInv
<1>4. \A m \in Notifier \ {n} : url[m] # url[n]
  BY <1>1, <1>2, OneNotifier
<1>5. ASSUME NEW v \in Subscriber, Subscribed(v)' PROVE Subscribed(v) /\ v # url[n]
  <2>1. PICK m \in Notifier : Registered(m)' /\ url'[m] = v
    BY <1>1, <1>5 DEF Subscribed, Registered, ManagerInv, ManagerTypeOK
  <2>2. Registered(m) /\ url[m] = v /\ m # n
    BY <1>2, <2>1
  <2> QED
    BY <1>4, <2>2 DEF Registered, Subscribed
<1>6. ASSUME NEW v \in Subscriber, Subscribed(v), v # url[n] PROVE Subscribed(v)'
  <2>1. PICK m \in Notifier : Registered(m) /\ url[m] = v
    BY <1>1, <1>6, SubscribedNotifier
  <2>2. Registered(m)' /\ url'[m] = v
    BY <1>2, <1>6, <2>1
  <2> QED
    BY <2>2 DEF Registered, Subscribed
<1>7. Feeds' = Feeds \ {url[n]}
  BY <1>5, <1>6 DEF Feeds
<1>8. ASSUME NEW v \in Subscriber, v # url[n] PROVE OnItsWay(v)' = OnItsWay(v)
  <2>1. \A m \in Notifier : Registered(m) /\ url[m] = v =>
          Registered(m)' /\ url'[m] = v /\ Way(m)' = Way(m)
    BY <1>2, <1>8 DEF Leaves, WayStays
  <2>2. Subscribed(v)' <=> Subscribed(v)
    BY <1>5, <1>6, <1>8
  <2> QED
    BY <2>1, <2>2, WayKept
<1>9. OnItsWay(url[n])' = << >>
  <2>1. ~ Subscribed(url[n])'
    <3>1. PICK v \in Subscriber : v = url[n]
      BY <1>3
    <3>2. ~ Subscribed(v)'
      BY <1>5, <3>1
    <3>3. v = url'[n]
      BY <1>2, <3>1
    <3> QED
      BY <3>2, <3>3
  <2>2. url'[n] \in Subscriber
    BY <1>2, <1>3
  <2> QED
    BY <1>1, <2>1, <2>2, OnTheWayNext DEF WaysKnown
<1>10. Pendings' = [Pendings EXCEPT ![url[n]] = << >>]
  <2>1. PICK u \in Subscriber : u = url[n] /\ u = url'[n]
    BY <1>2, <1>3
  <2>2. OnItsWay(u)' = << >>
    BY <1>9, <2>1
  <2> QED
    BY <1>8, <2>1, <2>2 DEF Pendings
<1> QED
  BY <1>3, <1>7, <1>10 DEF Leaves, Feeds

(* and Arrives.                                                            *)
LEMMA ArrivesFeeds ==
  ASSUME ReliableInv, ReliableInv', NEW n \in Notifier, Arrives(n)
  PROVE  LET u == url[n]
         IN  /\ u \in Subscriber
             /\ UNCHANGED << latest, Feeds >>
             /\ replica' = [replica EXCEPT ![u] = replica'[u]]
             /\ u \notin Feeds => UNCHANGED Pendings
             /\ u \in Feeds =>
                  /\ Pendings[u] # << >>
                  /\ replica'[u] = ApplyEvent(replica[u], Head(Pendings[u]))
                  /\ Pendings' = Pendings \/ Pendings' = [Pendings EXCEPT ![u] = Tail(Pendings[u])]
<1>1. ManagerInv /\ RegistrationInv /\ RegistrationInv' /\ ManagerInv'
  BY DEF ReliableInv
<1>2. PICK u \in Subscriber : u = url[n]
  BY <1>1, ApplyNewest DEF Arrives
<1>3. UNCHANGED << latest, notifiers, url >> /\ u = url'[n]
  BY <1>2 DEF Arrives
<1>4. /\ Way(n) \in Seq(NumberedEvent) /\ Way(n) # << >>
      /\ replica'[u] = ApplyEvent(replica[u], Head(Way(n)))
      /\ replica' = [replica EXCEPT ![u] = replica'[u]]
  BY <1>1, <1>2, ApplyNewest DEF Arrives
<1>5. \A v \in Subscriber : Subscribed(v)' <=> Subscribed(v)
  BY <1>3 DEF Subscribed
<1>6. Feeds' = Feeds
  BY <1>5 DEF Feeds
<1>7. ASSUME NEW v \in Subscriber, v # u \/ ~ Registered(n) PROVE OnItsWay(v)' = OnItsWay(v)
  <2>1. \A m \in Notifier : Registered(m) /\ url[m] = v =>
          Registered(m)' /\ url'[m] = v /\ Way(m)' = Way(m)
    BY <1>2, <1>3, <1>7 DEF Arrives, WayStays, Registered
  <2> QED
    BY <1>5, <2>1, WayKept
<1>8. CASE ~ Registered(n)
  <2>1. u \notin Feeds
    BY <1>1, <1>2, <1>8, SubscribedNotifier, OneNotifier DEF Feeds
  <2>2. Pendings' = Pendings
    BY <1>7, <1>8 DEF Pendings
  <2> QED
    BY <1>2, <1>3, <1>4, <1>6, <2>1, <2>2
<1>9. CASE Registered(n)
  <2>1. u \in Feeds /\ Pendings[u] = Plain(Way(n))
    BY <1>1, <1>2, <1>9, OnTheWay DEF WaysKnown, Feeds, Pendings
  <2>2. PICK s \in Seq(NumberedEvent), e \in NumberedEvent : s = Way(n) /\ s # << >> /\ e = Head(s)
    BY <1>4, HeadTailProperties
  <2>3. /\ Plain(s) # << >>
        /\ Head(Plain(s)) = PlainOf(e)
        /\ Plain(Tail(s)) = Tail(Plain(s))
        /\ PlainOf(e).key = e.key /\ Effect(PlainOf(e)) = Effect(e)
    BY <2>2, PlainMoves
  <2>4. replica'[u] = ApplyEvent(replica[u], Head(Pendings[u]))
    BY <1>4, <2>1, <2>2, <2>3 DEF ApplyEvent
  <2>5. OnItsWay(u)' = Plain(Way(n))'
    <3>1. OnItsWay(url[n])' = Plain(Way(n))'
      BY <1>1, <1>3, <1>9, OnTheWayNext DEF WaysKnown, Registered
    <3> QED
      BY <1>3, <3>1
  <2>6. Way(n)' = s \/ Way(n)' = Tail(s)
    BY <1>9, <2>2 DEF Arrives
  <2>7. OnItsWay(u)' = Plain(s) \/ OnItsWay(u)' = Tail(Plain(s))
    <3>1. Plain(Way(n))' = Plain(s) \/ Plain(Way(n))' = Plain(Tail(s))
      BY <2>6 DEF Plain
    <3> QED
      BY <2>3, <2>5, <3>1
  <2>8. \A v \in Subscriber : v # u => OnItsWay(v)' = OnItsWay(v)
    BY <1>7
  <2>9. Pendings' = Pendings \/ Pendings' = [Pendings EXCEPT ![u] = Tail(Pendings[u])]
    <3>1. OnItsWay(u) = Plain(s)
      BY <2>1, <2>2 DEF Pendings
    <3> QED
      BY <2>7, <2>8, <3>1 DEF Pendings
  <2>10. Pendings[u] # << >>
    BY <2>1, <2>2, <2>3
  <2> QED
    BY <1>2, <1>3, <1>4, <1>6, <2>1, <2>4, <2>9, <2>10
<1> QED
  BY <1>8, <1>9

(* The kinds of step, as steps of the feed.                                *)
LEMMA SaysIsChange ==
  ASSUME ReliableInv, ReliableInv', NEW ev \in NumberedEvent, Says(ev)
  PROVE  Feed!FeedNext
<1>1. PlainOf(ev) \in Event
  BY EmptySeq, PlainMoves
<1>2. /\ latest'.state = ApplyEvent(latest.state, PlainOf(ev))
      /\ Pendings' = [u \in Subscriber |->
                        IF u \in Feeds THEN Append(Pendings[u], PlainOf(ev)) ELSE Pendings[u]]
      /\ UNCHANGED << replica, Feeds >>
  BY SaysFeeds
<1>3. Feed!Change(PlainOf(ev))
  BY <1>2 DEF Feed!Change, Feed!ApplyEvent, Feed!Effect, ApplyEvent, Effect, Feeds, Pendings
<1> QED
  BY <1>1, <1>3 DEF Feed!FeedNext, Feed!Event, Event

(* Joins is a subscription,                                                *)
LEMMA JoinsIsSubscribe ==
  ASSUME ReliableInv, ReliableInv', NEW n \in Notifier, NEW u \in Subscriber, Joins(n, u)
  PROVE  Feed!FeedNext
<1>1. /\ u \notin Feeds /\ Feeds' = Feeds \cup {u}
      /\ replica[u] = EmptyReplica
      /\ Pendings' = [Pendings EXCEPT ![u] = Plain(StateSnapshot)]
      /\ UNCHANGED << latest, replica >>
  BY JoinsFeeds
<1>2. PICK s : s = Plain(StateSnapshot)
  OBVIOUS
<1>3. /\ s \in Seq(Event)
      /\ \A i \in DOMAIN s :
           s[i].op = "Create" /\ s[i].val = latest.state[s[i].key] /\ s[i].val # Absent
      /\ \A k \in Key : latest.state[k] # Absent =>
           \E i \in DOMAIN s : s[i].key = k /\ \A j \in DOMAIN s : s[j].key = k => j = i
  BY <1>2, SnapshotListing DEF ReliableInv
<1>4. Feed!IsListing(s)
  BY <1>3 DEF Feed!IsListing, Feed!Event, Event
<1>5. Pendings'[u] = s
  BY <1>1, <1>2 DEF Pendings
<1>6. Feed!Subscribe(u)
  BY <1>1, <1>2, <1>4, <1>5 DEF Feed!Subscribe, Feed!EmptyReplica, EmptyReplica, Feeds, Pendings
<1> QED
  BY <1>6 DEF Feed!FeedNext

(* Leaves the end of one,                                                  *)
LEMMA LeavesIsUnsubscribe ==
  ASSUME ReliableInv, ReliableInv', NEW n \in Notifier, Leaves(n)
  PROVE  Feed!FeedNext
<1>1. /\ url[n] \in Feeds /\ Feeds' = Feeds \ {url[n]}
      /\ Pendings' = [Pendings EXCEPT ![url[n]] = << >>]
      /\ UNCHANGED << latest, replica >>
  BY LeavesFeeds
<1>2. PICK u \in Subscriber : u = url[n]
  BY <1>1 DEF Feeds
<1>3. Feed!Unsubscribe(u)
  BY <1>1, <1>2 DEF Feed!Unsubscribe, Feeds, Pendings
<1> QED
  BY <1>3 DEF Feed!FeedNext

(* and Arrives an arrival, or a stray one.                                 *)
LEMMA ArrivesIsArrive ==
  ASSUME ReliableInv, ReliableInv', NEW n \in Notifier, Arrives(n)
  PROVE  Feed!FeedNext
<1>1. PICK u \in Subscriber :
        /\ UNCHANGED << latest, Feeds >>
        /\ replica' = [replica EXCEPT ![u] = replica'[u]]
        /\ u \notin Feeds => UNCHANGED Pendings
        /\ u \in Feeds =>
             /\ Pendings[u] # << >>
             /\ replica'[u] = ApplyEvent(replica[u], Head(Pendings[u]))
             /\ Pendings' = Pendings \/ Pendings' = [Pendings EXCEPT ![u] = Tail(Pendings[u])]
  <2>1. PICK u : u = url[n]
    OBVIOUS
  <2> QED
    BY <2>1, ArrivesFeeds
<1>2. CASE u \in Feeds
  <2>1. Feed!Arrive(u)
    BY <1>1, <1>2 DEF Feed!Arrive, Feed!ApplyEvent, Feed!Effect, ApplyEvent, Effect, Feeds, Pendings
  <2> QED
    BY <2>1 DEF Feed!FeedNext
<1>3. CASE u \notin Feeds
  <2>1. Feed!Stray(u)
    BY <1>1, <1>3 DEF Feed!Stray, Feeds, Pendings
  <2> QED
    BY <2>1 DEF Feed!FeedNext
<1> QED
  BY <1>2, <1>3

(***************************************************************************)
(* As long as nothing is dropped, no two goroutines hand out events at the *)
(* same time and every URL is registered once, the event manager           *)
(* implements the ordered feed: a snapshot before live events,             *)
(* every change in the order it was made, a repeat only directly           *)
(* after its original, and nothing more once a subscriber has left except  *)
(* what was already handed to its loop (events/manager.go).                *)
(***************************************************************************)
THEOREM FeedRefined ==
  ASSUME MaxSubscriptions = 1
  PROVE  Spec /\ []Undisturbed => FeedRefinement
<1>1. Init => Feed!FeedInit
  <2> SUFFICES ASSUME Init PROVE Feed!FeedInit
    OBVIOUS
  <2>1. /\ latest.state = EmptyReplica /\ replica = [u \in Subscriber |-> EmptyReplica]
        /\ \A u \in Subscriber : ~ Subscribed(u)
    BY DEF Init, EmptyLatest, EmptyReplica, Subscribed
  <2>2. \A u \in Subscriber : OnItsWay(u) = << >>
    BY <2>1 DEF OnItsWay
  <2> QED
    BY <2>1, <2>2 DEF Feed!FeedInit, Feed!EmptyReplica, EmptyReplica
<1>2. ReliableInv /\ Undisturbed /\ Undisturbed' /\ [Next]_vars => [Feed!FeedNext]_Feed!feedVars
  <2> SUFFICES ASSUME ReliableInv, Undisturbed, Undisturbed', [Next]_vars
               PROVE  [Feed!FeedNext]_Feed!feedVars
    OBVIOUS
  <2>1. ReliableInv'
    BY ReliableStep
  <2>3. ASSUME Still PROVE UNCHANGED Feed!feedVars
    BY <2>1, <2>3, StillFeeds DEF Feed!feedVars, Feeds, Pendings
  <2> QED
    BY <2>1, <2>3, StepKinds, SaysIsChange, JoinsIsSubscribe, LeavesIsUnsubscribe,
       ArrivesIsArrive
<1>3. ReliableInv /\ [Next]_vars => ReliableInv'
  BY ReliableStep
<1> QED
  BY <1>1, <1>2, <1>3, InitReliable, PTL DEF Spec, FeedRefinement, Feed!FeedSpec

-----------------------------------------------------------------------------
(***************************************************************************)
(* What an ordered feed is good for: at every moment, what is on its way   *)
(* to a subscriber brings its copy to the latest state.  This is FeedExact *)
(* with the types that make it inductive; it follows from the feed's steps *)
(* alone, whatever the event manager does.                                 *)
(***************************************************************************)
FeedInv ==
  /\ latest.state \in Replica
  /\ Pendings \in [Subscriber -> Seq(Event)]
  /\ replica = [u \in Subscriber |-> replica[u]]
  /\ \A u \in Feeds : replica[u] \in Replica /\ BringsTo(replica[u], Pendings[u], latest.state)

(* What FeedExact says is the last of these.                               *)
LEMMA FeedInvExact == FeedInv => Feed!FeedExact
BY DEF FeedInv, Feeds, Pendings, Feed!FeedExact, Feed!BringsTo, BringsTo, Feed!Mentions, Mentions,
       Feed!LastAbout, LastAbout, Feed!Effect, Effect

(* A change of the model is appended to what is on its way.                *)
LEMMA ChangeKeeps ==
  ASSUME FeedInv, NEW ev \in Event, Feed!Change(ev)
  PROVE  FeedInv'
<1>1. /\ latest'.state = ApplyEvent(latest.state, ev)
      /\ Pendings' = [u \in Subscriber |-> IF u \in Feeds THEN Append(Pendings[u], ev) ELSE Pendings[u]]
      /\ Feeds' = Feeds /\ replica' = replica
  BY DEF Feed!Change, Feed!ApplyEvent, Feed!Effect, ApplyEvent, Effect, Feeds, Pendings
<1>2. latest'.state \in Replica
  BY <1>1, ApplyEventFacts DEF FeedInv
<1>3. Pendings' \in [Subscriber -> Seq(Event)]
  BY <1>1 DEF FeedInv
<1>4. ASSUME NEW u \in Feeds
      PROVE  BringsTo(replica[u], Pendings'[u], latest'.state)
  <2>1. u \in Subscriber /\ Pendings'[u] = Append(Pendings[u], ev)
    BY <1>1, <1>4 DEF Feeds
  <2>2. /\ replica[u] \in Replica /\ latest.state \in Replica /\ Pendings[u] \in Seq(Event)
        /\ BringsTo(replica[u], Pendings[u], latest.state)
    BY <1>4, <2>1 DEF FeedInv
  <2> QED
    BY <1>1, <2>1, <2>2, AppendBrings
<1>5. replica' = [u \in Subscriber |-> replica'[u]]
  BY <1>1 DEF FeedInv
<1>6. \A u \in Feeds' : replica'[u] \in Replica /\ BringsTo(replica'[u], Pendings'[u], latest'.state)
  BY <1>1, <1>4 DEF FeedInv
<1> QED
  BY <1>2, <1>3, <1>5, <1>6 DEF FeedInv

(* A subscriber begins with a listing and an empty copy.                   *)
LEMMA SubscribeKeeps ==
  ASSUME FeedInv, NEW u \in Subscriber, Feed!Subscribe(u)
  PROVE  FeedInv'
<1>1. PICK s : /\ Feed!IsListing(s)
               /\ Pendings' = [Pendings EXCEPT ![u] = s]
               /\ Feeds' = Feeds \cup {u} /\ replica[u] = EmptyReplica
               /\ latest'.state = latest.state /\ replica' = replica
  BY DEF Feed!Subscribe, Feed!EmptyReplica, EmptyReplica, Feeds, Pendings
<1>2. /\ s \in Seq(Event)
      /\ \A i \in DOMAIN s : s[i].op = "Create" /\ s[i].val = latest.state[s[i].key]
      /\ \A k \in Key : latest.state[k] # Absent => Mentions(s, k)
  BY <1>1 DEF Feed!IsListing, Feed!Event, Event, Mentions
<1>3. BringsTo(EmptyReplica, s, latest.state)
  BY <1>2, ListingBringsTo DEF FeedInv
<1>4. EmptyReplica \in Replica
  BY DEF EmptyReplica, Replica
<1>5. Pendings' \in [Subscriber -> Seq(Event)]
  BY <1>1, <1>2 DEF FeedInv
<1>6. ASSUME NEW v \in Feeds'
      PROVE  replica[v] \in Replica /\ BringsTo(replica[v], Pendings'[v], latest.state)
  <2>1. CASE v = u
    BY <1>1, <1>3, <1>4, <2>1 DEF FeedInv
  <2>2. CASE v # u
    <3>1. v \in Feeds /\ v \in Subscriber
      BY <1>1, <1>6, <2>2 DEF Feeds
    <3>2. Pendings'[v] = Pendings[v]
      BY <1>1, <2>2, <3>1 DEF FeedInv
    <3> QED
      BY <3>1, <3>2 DEF FeedInv
  <2> QED
    BY <2>1, <2>2
<1>7. replica' = [v \in Subscriber |-> replica'[v]] /\ latest'.state \in Replica
  BY <1>1 DEF FeedInv
<1> QED
  BY <1>1, <1>5, <1>6, <1>7 DEF FeedInv

(* One that unsubscribes takes its listing with it.                        *)
LEMMA UnsubscribeKeeps ==
  ASSUME FeedInv, NEW u \in Subscriber, Feed!Unsubscribe(u)
  PROVE  FeedInv'
<1>1. /\ Pendings' = [Pendings EXCEPT ![u] = << >>] /\ Feeds' = Feeds \ {u}
      /\ latest'.state = latest.state /\ replica' = replica
  BY DEF Feed!Unsubscribe, Feeds, Pendings
<1>2. Pendings' \in [Subscriber -> Seq(Event)]
  BY <1>1, EmptySeq DEF FeedInv
<1>3. ASSUME NEW v \in Feeds' PROVE v \in Feeds /\ Pendings'[v] = Pendings[v]
  BY <1>1, <1>3 DEF FeedInv, Feeds
<1>4. replica' = [v \in Subscriber |-> replica'[v]] /\ latest'.state \in Replica
  BY <1>1 DEF FeedInv
<1> QED
  BY <1>1, <1>2, <1>3, <1>4 DEF FeedInv

(* An event that arrives, once or again, changes the copy as it should.    *)
LEMMA ArriveKeeps ==
  ASSUME FeedInv, NEW u \in Subscriber, Feed!Arrive(u)
  PROVE  FeedInv'
<1>1. /\ Pendings[u] # << >>
      /\ replica' = [replica EXCEPT ![u] = ApplyEvent(replica[u], Head(Pendings[u]))]
      /\ Pendings' = [Pendings EXCEPT ![u] = Tail(Pendings[u])] \/ Pendings' = Pendings
      /\ latest'.state = latest.state /\ Feeds' = Feeds
  BY DEF Feed!Arrive, Feed!ApplyEvent, Feed!Effect, ApplyEvent, Effect, Feeds, Pendings
<1>2. Pendings[u] \in Seq(Event) /\ Head(Pendings[u]) \in Event /\ Tail(Pendings[u]) \in Seq(Event)
  BY <1>1 DEF FeedInv
<1>3. Pendings' \in [Subscriber -> Seq(Event)]
  BY <1>1, <1>2 DEF FeedInv
<1>4. replica' = [v \in Subscriber |-> replica'[v]] /\ latest'.state \in Replica
  BY <1>1 DEF FeedInv
<1>5. ASSUME NEW v \in Feeds
      PROVE  replica'[v] \in Replica /\ BringsTo(replica'[v], Pendings'[v], latest.state)
  <2>0. /\ v \in Subscriber /\ replica[v] \in Replica /\ latest.state \in Replica
        /\ BringsTo(replica[v], Pendings[v], latest.state)
    BY <1>5 DEF FeedInv, Feeds
  <2>1. CASE v = u
    <3>1. replica'[u] = ApplyEvent(replica[u], Head(Pendings[u]))
      BY <1>1 DEF FeedInv
    <3>2. Pendings'[u] = Tail(Pendings[u]) \/ Pendings'[u] = Pendings[u]
      BY <1>1 DEF FeedInv
    <3>3. replica'[u] \in Replica
      BY <1>2, <2>0, <2>1, <3>1, ApplyEventFacts
    <3> QED
      BY <1>1, <1>2, <2>0, <2>1, <3>1, <3>2, <3>3, HeadBrings
  <2>2. CASE v # u
    <3>1. replica'[v] = replica[v] /\ Pendings'[v] = Pendings[v]
      BY <1>1, <2>0, <2>2 DEF FeedInv
    <3> QED
      BY <2>0, <3>1
  <2> QED
    BY <2>1, <2>2
<1> QED
  BY <1>1, <1>3, <1>4, <1>5 DEF FeedInv

(* What a subscriber that has left is still sent does not matter.          *)
LEMMA StrayKeeps ==
  ASSUME FeedInv, NEW u \in Subscriber, Feed!Stray(u)
  PROVE  FeedInv'
<1>1. /\ u \notin Feeds
      /\ replica' = [replica EXCEPT ![u] = replica'[u]]
      /\ latest'.state = latest.state /\ Feeds' = Feeds /\ Pendings' = Pendings
  BY DEF Feed!Stray, Feeds, Pendings
<1>2. \A v \in Feeds : replica'[v] = replica[v]
  BY <1>1 DEF FeedInv, Feeds
<1>3. replica' = [v \in Subscriber |-> replica'[v]]
  BY <1>1 DEF FeedInv
<1> QED
  BY <1>1, <1>2, <1>3 DEF FeedInv

(***************************************************************************)
(* In an ordered feed, what is on its way to a subscriber brings its copy  *)
(* to the latest state: one with nothing on its way has the latest state.  *)
(***************************************************************************)
THEOREM FeedIsExact == Feed!FeedSpec => []Feed!FeedExact
<1>1. Feed!FeedInit => FeedInv
  <2> SUFFICES ASSUME Feed!FeedInit PROVE FeedInv
    OBVIOUS
  <2>1. /\ latest.state = EmptyReplica /\ replica = [u \in Subscriber |-> EmptyReplica]
        /\ Pendings = [u \in Subscriber |-> << >>] /\ Feeds = {}
    BY DEF Feed!FeedInit, Feed!EmptyReplica, EmptyReplica, Feeds, Pendings
  <2> QED
    BY <2>1, EmptySeq DEF FeedInv, EmptyReplica, Replica
<1>2. FeedInv /\ [Feed!FeedNext]_Feed!feedVars => FeedInv'
  <2> SUFFICES ASSUME FeedInv, [Feed!FeedNext]_Feed!feedVars PROVE FeedInv'
    OBVIOUS
  <2>1. ASSUME NEW ev \in Feed!Event, Feed!Change(ev) PROVE FeedInv'
    BY <2>1, ChangeKeeps DEF Feed!Event, Event
  <2>2. CASE UNCHANGED Feed!feedVars
    <3>1. latest'.state = latest.state /\ replica' = replica /\ Feeds' = Feeds /\ Pendings' = Pendings
      BY <2>2 DEF Feed!feedVars, Feeds, Pendings
    <3> QED
      BY <3>1 DEF FeedInv
  <2> QED
    BY <2>1, <2>2, SubscribeKeeps, UnsubscribeKeeps, ArriveKeeps, StrayKeeps DEF Feed!FeedNext
<1> QED
  BY <1>1, <1>2, FeedInvExact, PTL DEF Feed!FeedSpec

(***************************************************************************)
(* What the refinement is for: when a subscriber has nothing on its way,   *)
(* its copy is the latest state, and what is on its way makes it so        *)
(* (FeedExact of OrderedFeed, said of the event manager), as long as       *)
(* nothing is dropped and no two goroutines hand out events at once.       *)
(***************************************************************************)
THEOREM ReliableExact ==
  ASSUME MaxSubscriptions = 1
  PROVE  Spec /\ []Undisturbed => []Feed!FeedExact
<1>1. Spec /\ []Undisturbed => FeedRefinement
  BY FeedRefined
<1> QED
  BY <1>1, FeedIsExact, PTL DEF FeedRefinement

=============================================================================
