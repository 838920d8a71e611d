----------------------------- MODULE StoreLemmas -----------------------------
(***************************************************************************)
(* Lemmas about the operators of LatestState: what removal from a sequence *)
(* and the fold of an event do, and what events on their way do for a copy *)
(* of the model, whose state they bring to that of the model.              *)
(***************************************************************************)
EXTENDS LatestState, SequenceTheorems, WellFoundedInduction, TLAPS

(***************************************************************************)
(* RemoveAt takes out the i-th element and closes the gap.                 *)
(***************************************************************************)
LEMMA RemoveAtProperties ==
  ASSUME NEW S, NEW s \in Seq(S), NEW i \in 1 .. Len(s)
  PROVE  /\ RemoveAt(s, i) \in Seq(S)
         /\ Len(RemoveAt(s, i)) = Len(s) - 1
         /\ \A j \in 1 .. Len(s) - 1 :
              RemoveAt(s, i)[j] = IF j < i THEN s[j] ELSE s[j + 1]
<1> DEFINE front == SubSeq(s, 1, i - 1)
           back  == SubSeq(s, i + 1, Len(s))
<1>1. Len(s) \in Nat /\ \A j \in 1 .. Len(s) : s[j] \in S
  BY LenProperties, ElementOfSeq
<1>2. /\ front \in Seq(S)
      /\ Len(front) = i - 1
      /\ \A j \in 1 .. i - 1 : front[j] = s[j]
  <2>1. \A j \in 1 .. i - 1 : s[j] \in S
    BY <1>1
  <2>2. /\ front \in Seq(S)
        /\ Len(front) = IF 1 <= i - 1 THEN i - 1 - 1 + 1 ELSE 0
        /\ \A j \in 1 .. i - 1 - 1 + 1 : front[j] = s[1 + j - 1]
    BY <1>1, <2>1, SubSeqProperties
  <2> QED BY <1>1, <2>2
<1>3. /\ back \in Seq(S)
      /\ Len(back) = Len(s) - i
      /\ \A j \in 1 .. Len(s) - i : back[j] = s[i + j]
  <2>1. \A j \in i + 1 .. Len(s) : s[j] \in S
    BY <1>1
  <2>2. /\ back \in Seq(S)
        /\ Len(back) = IF i + 1 <= Len(s) THEN Len(s) - (i + 1) + 1 ELSE 0
        /\ \A j \in 1 .. Len(s) - (i + 1) + 1 : back[j] = s[i + 1 + j - 1]
    BY <1>1, <2>1, SubSeqProperties
  <2> QED BY <1>1, <2>2
<1>4. /\ front \o back \in Seq(S)
      /\ Len(front \o back) = Len(front) + Len(back)
      /\ \A j \in 1 .. Len(front) + Len(back) :
           (front \o back)[j] = IF j <= Len(front) THEN front[j] ELSE back[j - Len(front)]
  BY <1>2, <1>3, ConcatProperties
<1>5. RemoveAt(s, i) = front \o back
  BY DEF RemoveAt
<1>6. ASSUME NEW j \in 1 .. Len(s) - 1
      PROVE  (front \o back)[j] = IF j < i THEN s[j] ELSE s[j + 1]
  <2> HIDE DEF front, back
  <2>1. CASE j < i
    BY <1>1, <1>2, <1>3, <1>4, <2>1
  <2>2. CASE j >= i
    <3>1. (front \o back)[j] = back[j - (i - 1)]
      BY <1>1, <1>2, <1>3, <1>4, <2>2
    <3>2. back[j - (i - 1)] = s[i + (j - (i - 1))]
      BY <1>1, <1>3, <2>2
    <3> QED BY <1>1, <2>2, <3>1, <3>2
  <2>3. i \in Int /\ j \in Int
    BY <1>1
  <2>4. j < i \/ j >= i
    BY <2>3
  <2> QED BY <2>1, <2>2, <2>4
<1> HIDE DEF front, back
<1>7. Len(front) + Len(back) = Len(s) - 1
  BY <1>1, <1>2, <1>3
<1> QED BY <1>4, <1>5, <1>6, <1>7

(***************************************************************************)
(* Where there is one occurrence of k, RemoveFromOrder finds it.           *)
(***************************************************************************)
LEMMA RemoveFromOrderProperties ==
  ASSUME NEW order \in Seq(Key), NEW k \in Key,
         NEW p \in DOMAIN order, order[p] = k,
         \A i, j \in DOMAIN order : order[i] = order[j] => i = j
  PROVE  RemoveFromOrder(order, k) = RemoveAt(order, p)
<1>1. Len(order) \in Nat /\ DOMAIN order = 1 .. Len(order)
  BY LenProperties
<1>2. \A j \in DOMAIN order : j < p => order[j] # k
  BY <1>1
<1> DEFINE First(i) == /\ order[i] = k
                       /\ \A j \in DOMAIN order : j < i => order[j] # k
<1>3. (CHOOSE i \in DOMAIN order : First(i)) = p
  BY <1>1, <1>2
<1> QED BY <1>3 DEF RemoveFromOrder

(***************************************************************************)
(* Folding an event into a store keeps its type and its order exact.       *)
(***************************************************************************)
LEMMA ReceiveKeepsStore ==
  ASSUME NEW latest \in LatestStores, OrderListsLive(latest), NEW ev \in Event
  PROVE  /\ Receive(latest, ev) \in LatestStores
         /\ OrderListsLive(Receive(latest, ev))
         /\ \A k \in Key : Receive(latest, ev).state[k] =
              IF k = ev.key THEN Effect(ev) ELSE latest.state[k]
<1> DEFINE order == latest.order
           state == latest.state
           new   == Receive(latest, ev)
<1>1. /\ order \in Seq(Key)
      /\ state \in [Key -> Value \cup {Absent}]
      /\ latest = [order |-> order, state |-> state]
  BY DEF LatestStores
<1>2. /\ Len(order) \in Nat
      /\ DOMAIN order = 1 .. Len(order)
      /\ \A i \in 1 .. Len(order) : order[i] \in Key
  BY <1>1, LenProperties, ElementOfSeq
<1>3. /\ \A i \in 1 .. Len(order) : state[order[i]] # Absent
      /\ \A k \in Key : state[k] # Absent => \E i \in 1 .. Len(order) : order[i] = k
      /\ \A i, j \in 1 .. Len(order) : order[i] = order[j] => i = j
  BY <1>2 DEF OrderListsLive, LiveKeys, IsLive
<1>4. /\ ev.key \in Key
      /\ ev.op = "Delete" => ev.val = Absent
      /\ ev.op # "Delete" => ev.val \in Value /\ ev.val # Absent
  BY AbsentAssumption DEF Event
<1>5. CASE ev.op = "Delete" /\ IsLive(latest, ev.key)
  <2>1. PICK p \in 1 .. Len(order) : order[p] = ev.key
    BY <1>3, <1>4, <1>5 DEF IsLive
  <2>2. new = [order |-> RemoveAt(order, p),
               state |-> [state EXCEPT ![ev.key] = Absent]]
    <3>1. RemoveFromOrder(order, ev.key) = RemoveAt(order, p)
      <4>1. /\ ev.key \in Key /\ p \in DOMAIN order /\ order[p] = ev.key
            /\ \A i, j \in DOMAIN order : order[i] = order[j] => i = j
        BY <1>2, <1>3, <1>4, <2>1
      <4> HIDE DEF order
      <4> QED
        BY <1>1, <4>1, RemoveFromOrderProperties
    <3> QED BY <1>5, <3>1 DEF Receive, OrderWith, Payload
  <2>3. /\ RemoveAt(order, p) \in Seq(Key)
        /\ Len(RemoveAt(order, p)) = Len(order) - 1
        /\ \A j \in 1 .. Len(order) - 1 :
             RemoveAt(order, p)[j] = IF j < p THEN order[j] ELSE order[j + 1]
    BY <1>1, <2>1, RemoveAtProperties
  <2>4. DOMAIN RemoveAt(order, p) = 1 .. Len(order) - 1
    BY <2>3, LenProperties
  <2>5. /\ new \in LatestStores
        /\ \A k \in Key : new.state[k] = IF k = ev.key THEN Effect(ev) ELSE state[k]
    BY <1>1, <1>4, <1>5, <2>2, <2>3 DEF LatestStores, Effect
  <2>6. \A i \in DOMAIN new.order : IsLive(new, new.order[i])
    <3> SUFFICES ASSUME NEW i \in 1 .. Len(order) - 1
                 PROVE  new.state[new.order[i]] # Absent
      BY <2>2, <2>4 DEF IsLive
    <3>1. PICK q \in 1 .. Len(order) : q # p /\ new.order[i] = order[q]
      <4>1. CASE i < p
        BY <1>2, <2>2, <2>3, <4>1
      <4>2. CASE ~ (i < p)
        <5>1. i + 1 \in 1 .. Len(order) /\ i + 1 # p
          BY <1>2, <4>2
        <5> QED BY <2>2, <2>3, <4>2, <5>1
      <4> QED BY <4>1, <4>2
    <3>2. order[q] # ev.key
      BY <1>3, <2>1, <3>1
    <3> QED BY <1>1, <1>2, <1>3, <2>2, <3>1, <3>2
  <2>7. ASSUME NEW k \in LiveKeys(new)
        PROVE  \E i \in DOMAIN new.order : new.order[i] = k
    <3>1. k \in Key /\ k # ev.key /\ state[k] # Absent
      BY <1>1, <1>4, <2>2, <2>7 DEF LiveKeys, IsLive
    <3>2. PICK q \in 1 .. Len(order) : order[q] = k
      BY <1>3, <3>1
    <3>3. q # p
      BY <2>1, <3>1, <3>2
    <3>4. CASE q < p
      <4>1. q \in 1 .. Len(order) - 1
        BY <1>2, <3>4
      <4> QED BY <2>2, <2>3, <2>4, <3>2, <3>4, <4>1
    <3>5. CASE q > p
      <4>1. q - 1 \in 1 .. Len(order) - 1 /\ ~ (q - 1 < p) /\ (q - 1) + 1 = q
        BY <1>2, <3>5
      <4>2. RemoveAt(order, p)[q - 1] = order[q]
        BY <2>3, <4>1
      <4> QED BY <2>2, <2>4, <3>2, <4>1, <4>2
    <3> QED BY <1>2, <3>3, <3>4, <3>5
  <2>8. ASSUME NEW i \in DOMAIN new.order, NEW j \in DOMAIN new.order,
               new.order[i] = new.order[j]
        PROVE  i = j
    <3>1. i \in 1 .. Len(order) - 1 /\ j \in 1 .. Len(order) - 1
      BY <2>2, <2>4
    <3>2. /\ RemoveAt(order, p)[i] = IF i < p THEN order[i] ELSE order[i + 1]
          /\ RemoveAt(order, p)[j] = IF j < p THEN order[j] ELSE order[j + 1]
          /\ RemoveAt(order, p)[i] = RemoveAt(order, p)[j]
      <4>1. new.order = RemoveAt(order, p)
        BY <2>2
      <4>2. RemoveAt(order, p)[i] = RemoveAt(order, p)[j]
        BY <2>8, <4>1
      <4> QED BY <2>3, <3>1, <4>2
    <3>3. i \in 1 .. Len(order) /\ j \in 1 .. Len(order)
          /\ i + 1 \in 1 .. Len(order) /\ j + 1 \in 1 .. Len(order)
      BY <1>2, <3>1
    <3> QED BY <1>2, <1>3, <3>1, <3>2, <3>3
  <2> QED BY <2>5, <2>6, <2>7, <2>8 DEF OrderListsLive
<1>6. CASE ev.op = "Delete" /\ ~ IsLive(latest, ev.key)
  BY <1>6 DEF Receive, OrderWith, Payload, IsLive, Effect
<1>7. CASE ev.op # "Delete" /\ IsLive(latest, ev.key)
  <2>1. new = [order |-> order, state |-> [state EXCEPT ![ev.key] = ev.val]]
    BY <1>7 DEF Receive, OrderWith, Payload
  <2>2. /\ new \in LatestStores
        /\ \A k \in Key : new.state[k] = IF k = ev.key THEN Effect(ev) ELSE state[k]
    BY <1>1, <1>4, <1>7, <2>1 DEF LatestStores, Effect
  <2>3. \A k \in Key : new.state[k] # Absent <=> state[k] # Absent
    BY <1>4, <1>7, <2>2 DEF Effect, IsLive
  <2> QED BY <1>2, <1>3, <2>1, <2>2, <2>3 DEF OrderListsLive, LiveKeys, IsLive
<1>8. CASE ev.op # "Delete" /\ ~ IsLive(latest, ev.key)
  <2>1. new = [order |-> Append(order, ev.key),
               state |-> [state EXCEPT ![ev.key] = ev.val]]
    BY <1>8 DEF Receive, OrderWith, Payload
  <2>2. /\ Append(order, ev.key) \in Seq(Key)
        /\ DOMAIN Append(order, ev.key) = 1 .. Len(order) + 1
        /\ \A i \in 1 .. Len(order) : Append(order, ev.key)[i] = order[i]
        /\ Append(order, ev.key)[Len(order) + 1] = ev.key
    BY <1>1, <1>2, <1>4, AppendProperties
  <2>3. /\ new \in LatestStores
        /\ \A k \in Key : new.state[k] = IF k = ev.key THEN Effect(ev) ELSE state[k]
    BY <1>1, <1>4, <1>8, <2>1, <2>2 DEF LatestStores, Effect
  <2>4. \A i \in 1 .. Len(order) : order[i] # ev.key
    BY <1>3, <1>8 DEF IsLive
  <2>5. \A i \in 1 .. Len(order) + 1 : i \in 1 .. Len(order) \/ i = Len(order) + 1
    BY <1>2
  <2>6. \A i \in DOMAIN new.order : IsLive(new, new.order[i])
    BY <1>2, <1>3, <1>4, <1>8, <2>1, <2>2, <2>3, <2>4, <2>5 DEF IsLive, Effect
  <2>7. \A k \in LiveKeys(new) : \E i \in DOMAIN new.order : new.order[i] = k
    <3> SUFFICES ASSUME NEW k \in Key, new.state[k] # Absent
                 PROVE  \E i \in 1 .. Len(order) + 1 : new.order[i] = k
      BY <2>1, <2>2 DEF LiveKeys, IsLive
    <3>1. CASE k = ev.key
      BY <1>2, <2>1, <2>2, <3>1
    <3>2. CASE k # ev.key
      <4>1. PICK i \in 1 .. Len(order) : order[i] = k
        BY <1>3, <2>3, <3>2
      <4>2. i \in 1 .. Len(order) + 1
        BY <1>2
      <4> QED BY <2>1, <2>2, <4>1, <4>2
    <3> QED BY <3>1, <3>2
  <2>8. \A i, j \in DOMAIN new.order : new.order[i] = new.order[j] => i = j
    BY <1>2, <1>3, <2>1, <2>2, <2>4, <2>5
  <2> QED BY <2>3, <2>6, <2>7, <2>8 DEF OrderListsLive
<1> QED BY <1>5, <1>6, <1>7, <1>8

-----------------------------------------------------------------------------
(* a has a place before b.                                                 *)
Before(order, a, b) == \E i, j \in DOMAIN order : i < j /\ order[i] = a /\ order[j] = b

(***************************************************************************)
(* Folding an event does not change the order of resources that stay.      *)
(***************************************************************************)
LEMMA ReceiveKeepsBefore ==
  ASSUME NEW latest \in LatestStores, OrderListsLive(latest), NEW ev \in Event,
         NEW a \in Key, NEW b \in Key, Before(latest.order, a, b),
         ev.op = "Delete" => ev.key \notin {a, b}
  PROVE  Before(Receive(latest, ev).order, a, b)
<1> DEFINE order == latest.order
           len   == Len(order)
<1>1. /\ order \in Seq(Key) /\ len \in Nat /\ DOMAIN order = 1 .. len
      /\ ev.key \in Key
  BY LenProperties DEF LatestStores, Event
<1>2. PICK i, j \in 1 .. len : i < j /\ order[i] = a /\ order[j] = b
  BY <1>1 DEF Before
<1>3. CASE ev.op = "Delete" /\ IsLive(latest, ev.key)
  <2>1. \E q \in 1 .. len : order[q] = ev.key
    BY <1>1, <1>3 DEF OrderListsLive, LiveKeys
  <2>2. PICK p \in 1 .. len : order[p] = ev.key
    BY <2>1
  <2>3. \A m, n \in DOMAIN order : order[m] = order[n] => m = n
    BY DEF OrderListsLive
  <2>4. Receive(latest, ev).order = RemoveAt(order, p)
    <3>1. RemoveFromOrder(order, ev.key) = RemoveAt(order, p)
      <4> HIDE DEF order, len
      <4> QED
        BY <1>1, <2>2, <2>3, RemoveFromOrderProperties
    <3> QED BY <1>3, <3>1 DEF Receive
  <2> DEFINE new == RemoveAt(order, p)
  <2> HIDE DEF order, len
  <2>5. /\ DOMAIN new = 1 .. len - 1
        /\ \A m \in 1 .. len - 1 : new[m] = IF m < p THEN order[m] ELSE order[m + 1]
    <3>1. order \in Seq(Key) /\ p \in 1 .. Len(order)
      BY <1>1, <2>2 DEF len
    <3>2. /\ new \in Seq(Key)
          /\ Len(new) = Len(order) - 1
          /\ \A m \in 1 .. Len(order) - 1 : new[m] = IF m < p THEN order[m] ELSE order[m + 1]
      BY <3>1, RemoveAtProperties
    <3> HIDE DEF new
    <3>3. DOMAIN new = 1 .. Len(order) - 1
      BY <3>2, LenProperties
    <3> QED BY <3>2, <3>3 DEF len
  <2>6. i # p /\ j # p
    BY <1>2, <1>3, <2>2
  <2> DEFINE place(m) == IF m < p THEN m ELSE m - 1
  <2>7. ASSUME NEW m \in 1 .. len, m # p
        PROVE  place(m) \in 1 .. len - 1 /\ new[place(m)] = order[m]
    <3>1. CASE m < p
      <4>1. m \in 1 .. len - 1
        BY <1>1, <2>2, <3>1
      <4> QED BY <2>5, <3>1, <4>1
    <3>2. CASE m > p
      <4>1. m - 1 \in 1 .. len - 1 /\ ~ (m - 1 < p) /\ (m - 1) + 1 = m /\ ~ (m < p)
        BY <1>1, <2>2, <3>2
      <4>2. new[m - 1] = order[(m - 1) + 1]
        BY <2>5, <4>1
      <4> QED BY <4>1, <4>2
    <3> QED BY <1>1, <2>2, <2>7, <3>1, <3>2
  <2>8. place(i) < place(j)
    BY <1>1, <1>2, <2>2, <2>6
  <2>9. /\ place(i) \in DOMAIN new /\ place(j) \in DOMAIN new
        /\ new[place(i)] = a /\ new[place(j)] = b
    BY <1>2, <2>5, <2>6, <2>7
  <2> HIDE DEF new, place
  <2>10. Before(new, a, b)
    BY <2>8, <2>9 DEF Before
  <2> QED BY <2>4, <2>10 DEF new
<1>4. CASE ev.op = "Delete" /\ ~ IsLive(latest, ev.key)
  BY <1>4 DEF Receive
<1>5. CASE ev.op # "Delete" /\ IsLive(latest, ev.key)
  BY <1>5 DEF Receive, OrderWith
<1>6. CASE ev.op # "Delete" /\ ~ IsLive(latest, ev.key)
  <2>1. Receive(latest, ev).order = Append(order, ev.key)
    BY <1>6 DEF Receive, OrderWith
  <2>2. /\ DOMAIN Append(order, ev.key) = 1 .. len + 1
        /\ \A m \in 1 .. len : Append(order, ev.key)[m] = order[m]
    BY <1>1
  <2>3. i \in 1 .. len + 1 /\ j \in 1 .. len + 1
    BY <1>1
  <2> QED BY <1>2, <2>1, <2>2, <2>3 DEF Before
<1> QED BY <1>3, <1>4, <1>5, <1>6

(***************************************************************************)
(* A resource that was not live comes after all that were.                 *)
(***************************************************************************)
LEMMA ReceiveAppends ==
  ASSUME NEW latest \in LatestStores, OrderListsLive(latest), NEW ev \in Event,
         ev.op # "Delete", ~ IsLive(latest, ev.key),
         NEW a \in Key, IsLive(latest, a)
  PROVE  Before(Receive(latest, ev).order, a, ev.key)
<1> DEFINE order == latest.order
           len   == Len(order)
<1>1. /\ order \in Seq(Key) /\ len \in Nat /\ DOMAIN order = 1 .. len
      /\ ev.key \in Key
  BY LenProperties DEF LatestStores, Event
<1>2. PICK i \in 1 .. len : order[i] = a
  BY <1>1 DEF OrderListsLive, LiveKeys
<1>3. Receive(latest, ev).order = Append(order, ev.key)
  BY DEF Receive, OrderWith
<1>4. /\ DOMAIN Append(order, ev.key) = 1 .. len + 1
      /\ Append(order, ev.key)[i] = a
      /\ Append(order, ev.key)[len + 1] = ev.key
  BY <1>1, <1>2
<1>5. i \in 1 .. len + 1 /\ len + 1 \in 1 .. len + 1 /\ i < len + 1
  BY <1>1
<1> QED BY <1>3, <1>4, <1>5 DEF Before

(* A copy of the state: a payload, or none, per resource.                  *)
Replica == [Key -> Value \cup {Absent}]

(* The effect of an event is a payload or Absent.                          *)
LEMMA EffectType == ASSUME NEW ev \in Event PROVE Effect(ev) \in Value \cup {Absent}
BY DEF Event, Effect

(* An event replaces the payload of its resource, and nothing else.        *)
LEMMA ApplyEventFacts ==
  ASSUME NEW replica \in Replica, NEW ev \in Event
  PROVE  /\ ev.key \in Key
         /\ ApplyEvent(replica, ev) \in Replica
         /\ \A k \in Key :
              ApplyEvent(replica, ev)[k] = IF k = ev.key THEN Effect(ev) ELSE replica[k]
<1>1. ev.key \in Key
  BY DEF Event
<1> QED
  BY <1>1, EffectType DEF ApplyEvent, Replica

(* A change of the target that is appended to the events is on its way.    *)
LEMMA AppendBrings ==
  ASSUME NEW replica \in Replica, NEW target \in Replica,
         NEW evs \in Seq(Event), NEW ev \in Event,
         BringsTo(replica, evs, target)
  PROVE  BringsTo(replica, Append(evs, ev), ApplyEvent(target, ev))
<1> DEFINE new == Append(evs, ev)
<1>1. /\ DOMAIN evs = 1 .. Len(evs) /\ Len(evs) \in Nat
      /\ DOMAIN new = 1 .. Len(evs) + 1
      /\ new[Len(evs) + 1] = ev
      /\ \A i \in DOMAIN evs : new[i] = evs[i]
  OBVIOUS
<1> SUFFICES ASSUME NEW k \in Key
             PROVE  /\ ~ Mentions(new, k) => replica[k] = ApplyEvent(target, ev)[k]
                    /\ \A i \in DOMAIN new :
                         LastAbout(new, k, i) => Effect(new[i]) = ApplyEvent(target, ev)[k]
  BY DEF BringsTo
<1>2. CASE k = ev.key
  <2>1. Mentions(new, k)
    BY <1>1, <1>2 DEF Mentions
  <2>2. ASSUME NEW i \in DOMAIN new, LastAbout(new, k, i)
        PROVE  i = Len(evs) + 1
    BY <1>1, <1>2, <2>2 DEF LastAbout
  <2> QED
    BY <1>1, <1>2, <2>1, <2>2, ApplyEventFacts
<1>3. CASE k # ev.key
  <2>1. ApplyEvent(target, ev)[k] = target[k]
    BY <1>3, ApplyEventFacts
  <2>2. Mentions(evs, k) => Mentions(new, k)
    BY <1>1 DEF Mentions
  <2>3. ASSUME NEW i \in DOMAIN new, LastAbout(new, k, i)
        PROVE  i \in DOMAIN evs /\ LastAbout(evs, k, i)
    BY <1>1, <1>3, <2>3 DEF LastAbout
  <2> QED
    BY <1>1, <2>1, <2>2, <2>3 DEF BringsTo
<1> QED
  BY <1>2, <1>3

(* The first event may be applied, and taken away or not.                  *)
LEMMA HeadBrings ==
  ASSUME NEW replica \in Replica, NEW target \in Replica,
         NEW evs \in Seq(Event), evs # << >>,
         BringsTo(replica, evs, target)
  PROVE  /\ BringsTo(ApplyEvent(replica, Head(evs)), evs, target)
         /\ BringsTo(ApplyEvent(replica, Head(evs)), Tail(evs), target)
<1> DEFINE ev   == Head(evs)
           rest == Tail(evs)
           next == ApplyEvent(replica, ev)
<1>1. /\ DOMAIN evs = 1 .. Len(evs) /\ Len(evs) \in Nat \ {0}
      /\ ev = evs[1] /\ ev \in Event
      /\ DOMAIN rest = 1 .. Len(evs) - 1
      /\ \A i \in DOMAIN rest : i + 1 \in DOMAIN evs /\ rest[i] = evs[i + 1]
  OBVIOUS
<1> SUFFICES ASSUME NEW k \in Key
             PROVE  /\ ~ Mentions(evs, k) => next[k] = target[k]
                    /\ \A i \in DOMAIN evs : LastAbout(evs, k, i) => Effect(evs[i]) = target[k]
                    /\ ~ Mentions(rest, k) => next[k] = target[k]
                    /\ \A i \in DOMAIN rest : LastAbout(rest, k, i) => Effect(rest[i]) = target[k]
  BY DEF BringsTo
<1>2. \A i \in DOMAIN evs : LastAbout(evs, k, i) => Effect(evs[i]) = target[k]
  BY DEF BringsTo
<1>3. ~ Mentions(evs, k) => replica[k] = target[k]
  BY DEF BringsTo
<1>4. next[k] = IF k = ev.key THEN Effect(ev) ELSE replica[k]
  BY <1>1, ApplyEventFacts
<1>5. ~ Mentions(evs, k) => next[k] = target[k]
  BY <1>1, <1>3, <1>4 DEF Mentions
<1>6. ASSUME ~ Mentions(rest, k) PROVE next[k] = target[k]
  <2>1. \A i \in DOMAIN evs : i > 1 => i - 1 \in DOMAIN rest /\ evs[i] = rest[i - 1]
    BY <1>1
  <2>2. \A i \in DOMAIN evs : i > 1 => evs[i].key # k
    BY <1>6, <2>1 DEF Mentions
  <2>3. CASE k = ev.key
    <3>1. 1 \in DOMAIN evs /\ LastAbout(evs, k, 1)
      BY <1>1, <2>2, <2>3 DEF LastAbout
    <3> QED
      BY <1>1, <1>2, <1>4, <2>3, <3>1
  <2>4. CASE k # ev.key
    <3>1. ~ Mentions(evs, k)
      BY <1>1, <2>2, <2>4 DEF Mentions
    <3> QED
      BY <1>5, <3>1
  <2> QED
    BY <2>3, <2>4
<1>7. ASSUME NEW i \in DOMAIN rest, LastAbout(rest, k, i)
      PROVE  Effect(rest[i]) = target[k]
  <2>1. \A j \in DOMAIN evs : j > i + 1 => j - 1 \in DOMAIN rest /\ j - 1 > i /\ evs[j] = rest[j - 1]
    BY <1>1
  <2>2. LastAbout(evs, k, i + 1)
    BY <1>1, <1>7, <2>1 DEF LastAbout
  <2> QED
    BY <1>1, <1>2, <2>2
<1> QED
  BY <1>2, <1>5, <1>6, <1>7

(* An event that would change nothing may be taken away.                   *)
LEMMA TailBrings ==
  ASSUME NEW replica \in Replica, NEW target \in Replica,
         NEW evs \in Seq(Event), evs # << >>,
         replica[Head(evs).key] = Effect(Head(evs)),
         BringsTo(replica, evs, target)
  PROVE  BringsTo(replica, Tail(evs), target)
<1>1. Head(evs) \in Event
  OBVIOUS
<1>2. ApplyEvent(replica, Head(evs)) = replica
  BY <1>1 DEF ApplyEvent, Replica
<1> QED
  BY <1>2, HeadBrings

(* A listing brings an empty copy to the state of the model.               *)
LEMMA ListingBringsTo ==
  ASSUME NEW target \in Replica, NEW evs \in Seq(Event),
         \A i \in DOMAIN evs : evs[i].op = "Create" /\ evs[i].val = target[evs[i].key],
         \A k \in Key : target[k] # Absent => Mentions(evs, k)
  PROVE  BringsTo(EmptyReplica, evs, target)
BY DEF BringsTo, EmptyReplica, Effect, LastAbout

-----------------------------------------------------------------------------
(***************************************************************************)
(* Induction over the length of a sequence.  The induction theorems of the *)
(* library take an operator as a parameter; their use here goes by sets,   *)
(* from the one that says that a well-founded order has least elements.    *)
(***************************************************************************)
LEMMA NatLeast ==
  ASSUME NEW T, T \subseteq Nat, T # {}
  PROVE  \E x \in T : \A y \in T : x <= y
<1> DEFINE R == {ss \in Nat \X Nat : ss[1] < ss[2]}
<1>1. IsWellFoundedOn(R, Nat)
  BY NatLessThanWellFounded DEF OpToRel
<1>2. \A x, y \in Nat : y < x => << y, x >> \in R
  OBVIOUS
<1> HIDE DEF R
<1>3. PICK x \in T : \A y \in T : ~ (<< y, x >> \in R)
  BY <1>1, WFMin
<1>4. ASSUME NEW y \in T PROVE x <= y
  <2>1. ~ (y < x)
    BY <1>2, <1>3
  <2> QED BY <2>1
<1> QED BY <1>4

(* What holds of 0 and of the successor of whatever it holds of.           *)
LEMMA UpTo ==
  ASSUME NEW N \in Nat, NEW T, 0 \in T,
         \A n \in 1 .. N : n - 1 \in T => n \in T
  PROVE  \A n \in 0 .. N : n \in T
<1> SUFFICES ASSUME (0 .. N) \ T # {} PROVE FALSE
  OBVIOUS
<1>1. PICK x \in (0 .. N) \ T : \A y \in (0 .. N) \ T : x <= y
  <2>1. (0 .. N) \ T \subseteq Nat
    OBVIOUS
  <2> QED BY <2>1, NatLeast
<1>2. x \in 1 .. N /\ x - 1 \in 0 .. N /\ ~ (x <= x - 1)
  BY <1>1
<1>3. x - 1 \in T
  BY <1>1, <1>2
<1> QED BY <1>1, <1>2, <1>3

(* A set of positions has a last one.                                      *)
LEMMA Greatest ==
  ASSUME NEW N \in Nat, NEW T, T \subseteq 1 .. N, T # {}
  PROVE  \E x \in T : \A y \in T : y <= x
<1> DEFINE M == {m \in 0 .. N : N - m \in T}
<1>1. \A y \in T : y \in 1 .. N /\ N - y \in M
  <2> SUFFICES ASSUME NEW y \in T PROVE y \in 1 .. N /\ N - y \in M
    OBVIOUS
  <2>1. y \in 1 .. N
    OBVIOUS
  <2>2. N - y \in 0 .. N /\ N - (N - y) = y
    BY <2>1
  <2> QED BY <2>1, <2>2
<1>2. M \subseteq Nat /\ M # {}
  <2>1. PICK y : y \in T
    OBVIOUS
  <2>2. N - y \in M
    BY <1>1, <2>1
  <2> QED BY <2>2
<1>3. PICK m \in M : \A y \in M : m <= y
  BY <1>2, NatLeast
<1>4. m \in 0 .. N /\ N - m \in T
  OBVIOUS
<1> HIDE DEF M
<1>5. ASSUME NEW y \in T PROVE y <= N - m
  <2>1. y \in 1 .. N /\ m <= N - y
    BY <1>1, <1>3
  <2> QED BY <1>4, <2>1
<1> QED BY <1>4, <1>5

(* The last event about a resource, if there is any.                       *)
LEMMA LastExists ==
  ASSUME NEW S, NEW s \in Seq(S), NEW k, Mentions(s, k)
  PROVE  \E i \in DOMAIN s : LastAbout(s, k, i)
<1> DEFINE T == {i \in 1 .. Len(s) : s[i].key = k}
<1>1. Len(s) \in Nat /\ DOMAIN s = 1 .. Len(s)
  OBVIOUS
<1>2. T \subseteq 1 .. Len(s) /\ T # {}
  BY <1>1 DEF Mentions
<1>3. PICK i \in T : \A j \in T : j <= i
  BY <1>1, <1>2, Greatest
<1>4. i \in 1 .. Len(s) /\ s[i].key = k
  OBVIOUS
<1>5. \A j \in 1 .. Len(s) : j > i => s[j].key # k
  <2> SUFFICES ASSUME NEW j \in 1 .. Len(s), j > i, s[j].key = k PROVE FALSE
    OBVIOUS
  <2>1. j \in T /\ i \in Int /\ j \in Int
    BY <1>4
  <2>2. j <= i
    BY <1>3, <2>1
  <2> QED BY <2>1, <2>2
<1> QED BY <1>1, <1>4, <1>5 DEF LastAbout

(* pos is a strictly rising choice of N of the positions up to M.          *)
Rising(pos, N, M) ==
  /\ pos \in [1 .. N -> 1 .. M]
  /\ \A i, j \in 1 .. N : i < j => pos[i] < pos[j]

(* There are no more of them than positions.                               *)
LEMMA RisingPositions ==
  ASSUME NEW N \in Nat, NEW M \in Nat, NEW pos, Rising(pos, N, M)
  PROVE  N <= M
<1> USE DEF Rising
<1> DEFINE T == {n \in 0 .. N : n = 0 \/ n <= pos[n]}
<1>1. 0 \in T
  OBVIOUS
<1>2. ASSUME NEW n \in 1 .. N, n - 1 \in T PROVE n \in T
  <2>1. pos[n] \in 1 .. M
    OBVIOUS
  <2>2. CASE n = 1
    BY <2>1, <2>2
  <2>3. CASE n # 1
    <3>1. n - 1 \in 1 .. N /\ n - 1 < n /\ n - 1 <= pos[n - 1]
      BY <1>2, <2>3
    <3>2. pos[n - 1] \in 1 .. M /\ pos[n - 1] < pos[n]
      BY <3>1
    <3> QED BY <2>1, <3>1, <3>2
  <2> QED BY <2>2, <2>3
<1>3. N \in T
  <2> HIDE DEF T
  <2>1. \A n \in 0 .. N : n \in T
    BY <1>1, <1>2, UpTo
  <2> QED BY <2>1
<1>4. N = 0 \/ (pos[N] \in 1 .. M /\ N <= pos[N])
  BY <1>3
<1> QED BY <1>4

(***************************************************************************)
(* A function on 0 .. N that is defined from its value one below exists.   *)
(***************************************************************************)
StepOn(G, N, S) == G \in [(1 .. N) \X S -> S]

(* f starts with base and follows G up to N.                               *)
Follows(f, N, S, base, G) ==
  /\ f \in [0 .. N -> S]
  /\ f[0] = base
  /\ \A n \in 1 .. N : f[n] = G[<< n, f[n - 1] >>]

(* There is such a function.                                               *)
LEMMA RecursionExists ==
  ASSUME NEW N \in Nat, NEW S, NEW base \in S, NEW G, StepOn(G, N, S)
  PROVE  \E f : Follows(f, N, S, base, G)
<1> DEFINE T == {m \in 0 .. N : \E f : Follows(f, m, S, base, G)}
<1>1. 0 \in T
  <2>1. Follows([n \in 0 .. 0 |-> base], 0, S, base, G)
    BY DEF Follows
  <2> QED BY <2>1
<1>2. ASSUME NEW m \in 1 .. N, m - 1 \in T PROVE m \in T
  <2>1. PICK f : Follows(f, m - 1, S, base, G)
    BY <1>2
  <2> DEFINE g == [n \in 0 .. m |-> IF n = m THEN G[<< m, f[m - 1] >>] ELSE f[n]]
  <2>2. /\ f \in [0 .. m - 1 -> S]
        /\ f[0] = base
        /\ \A n \in 1 .. m - 1 : f[n] = G[<< n, f[n - 1] >>]
    BY <2>1 DEF Follows
  <2>3. f[m - 1] \in S
    <3>1. m - 1 \in 0 .. m - 1
      OBVIOUS
    <3> QED BY <2>2, <3>1
  <2>4. G[<< m, f[m - 1] >>] \in S
    BY <2>3 DEF StepOn
  <2>5. /\ \A n \in 0 .. m - 1 : g[n] = f[n]
        /\ g[m] = G[<< m, f[m - 1] >>]
    OBVIOUS
  <2>6. g \in [0 .. m -> S]
    <3>1. \A n \in 0 .. m : n = m \/ n \in 0 .. m - 1
      OBVIOUS
    <3> QED BY <2>2, <2>4, <3>1
  <2> HIDE DEF g
  <2>7. g[0] = base
    BY <2>2, <2>5
  <2>8. ASSUME NEW n \in 1 .. m PROVE g[n] = G[<< n, g[n - 1] >>]
    <3>1. n - 1 \in 0 .. m - 1 /\ g[n - 1] = f[n - 1]
      BY <2>5
    <3>2. CASE n = m
      BY <2>5, <3>1, <3>2
    <3>3. CASE n # m
      <4>1. n \in 1 .. m - 1 /\ n \in 0 .. m - 1
        BY <3>3
      <4> QED BY <2>2, <2>5, <3>1, <4>1
    <3> QED BY <3>2, <3>3
  <2>9. Follows(g, m, S, base, G)
    BY <2>6, <2>7, <2>8 DEF Follows
  <2> QED BY <2>9
<1> HIDE DEF T
<1>3. N \in T
  <2>1. \A n \in 0 .. N : n \in T
    BY <1>1, <1>2, UpTo
  <2> QED BY <2>1
<1> QED BY <1>3 DEF T

-----------------------------------------------------------------------------
(***************************************************************************)
(* What Selected and Replay compute.                                       *)
(***************************************************************************)
SelectedBy(f, s, I) ==
  f = [n \in 0 .. Len(s) |->
         IF n = 0 THEN << >>
         ELSE IF n \in I THEN Append(f[n - 1], s[n]) ELSE f[n - 1]]

(* f is what is selected among the first n elements, for each n.           *)
SelectedAlong(f, S, s, I) ==
  /\ f \in [0 .. Len(s) -> Seq(S)]
  /\ f[0] = << >>
  /\ \A n \in 1 .. Len(s) :
       f[n] = IF n \in I THEN Append(f[n - 1], s[n]) ELSE f[n - 1]
  /\ Selected(s, I) = f[Len(s)]

(* Selected is defined by a recursion that has a solution.                 *)
LEMMA SelectedUnfolds ==
  ASSUME NEW S, NEW s \in Seq(S), NEW I
  PROVE  \E f : SelectedAlong(f, S, s, I)
<1> DEFINE N == Len(s)
           G == [x \in (1 .. N) \X Seq(S) |->
                   IF x[1] \in I THEN Append(x[2], s[x[1]]) ELSE x[2]]
<1>1. N \in Nat /\ \A n \in 1 .. N : s[n] \in S
  OBVIOUS
<1>2. StepOn(G, N, Seq(S))
  <2>1. ASSUME NEW x \in (1 .. N) \X Seq(S)
        PROVE  (IF x[1] \in I THEN Append(x[2], s[x[1]]) ELSE x[2]) \in Seq(S)
    <3>1. x[1] \in 1 .. N /\ x[2] \in Seq(S)
      OBVIOUS
    <3> QED BY <1>1, <3>1
  <2> QED BY <2>1 DEF StepOn
<1>3. \A n \in 1 .. N : \A t \in Seq(S) :
        G[<< n, t >>] = IF n \in I THEN Append(t, s[n]) ELSE t
  OBVIOUS
<1>4. << >> \in Seq(S)
  OBVIOUS
<1> HIDE DEF G
<1>5. PICK g : Follows(g, N, Seq(S), << >>, G)
  BY <1>1, <1>2, <1>4, RecursionExists
<1>6. /\ g \in [0 .. N -> Seq(S)]
      /\ g[0] = << >>
      /\ \A n \in 1 .. N : g[n] = G[<< n, g[n - 1] >>]
  BY <1>5 DEF Follows
<1>7. SelectedBy(g, s, I)
  <2>1. ASSUME NEW n \in 1 .. N
        PROVE  g[n] = IF n \in I THEN Append(g[n - 1], s[n]) ELSE g[n - 1]
    <3>1. n - 1 \in 0 .. N
      OBVIOUS
    <3> QED BY <1>3, <1>6, <3>1
  <2>2. \A n \in 0 .. N : n = 0 \/ n \in 1 .. N
    OBVIOUS
  <2>3. g = [n \in 0 .. N |-> g[n]]
    BY <1>6
  <2>4. \A n \in 0 .. N :
          g[n] = IF n = 0 THEN << >>
                 ELSE IF n \in I THEN Append(g[n - 1], s[n]) ELSE g[n - 1]
    BY <1>6, <2>1, <2>2
  <2> QED BY <2>3, <2>4 DEF SelectedBy
<1> DEFINE f == CHOOSE h : SelectedBy(h, s, I)
<1>8. Selected(s, I) = f[N]
  BY DEF Selected, SelectedBy
<1>9. SelectedBy(f, s, I)
  BY <1>7
<1> HIDE DEF f
<1>10. /\ f = [n \in 0 .. N |-> f[n]]
       /\ f[0] = << >>
       /\ \A n \in 1 .. N : f[n] = IF n \in I THEN Append(f[n - 1], s[n]) ELSE f[n - 1]
  <2>1. 0 \in 0 .. N /\ \A n \in 1 .. N : n \in 0 .. N /\ n # 0
    BY <1>1
  <2> QED BY <1>9, <2>1 DEF SelectedBy
<1>11. \A n \in 0 .. N : f[n] \in Seq(S)
  <2> DEFINE T == {n \in 0 .. N : f[n] \in Seq(S)}
  <2>1. 0 \in T
    <3>1. 0 \in 0 .. N
      BY <1>1
    <3>2. f[0] \in Seq(S)
      BY <1>4, <1>10
    <3> QED BY <3>1, <3>2
  <2>2. ASSUME NEW n \in 1 .. N, n - 1 \in T PROVE n \in T
    <3>1. f[n - 1] \in Seq(S) /\ s[n] \in S /\ n \in 0 .. N
      BY <1>1, <2>2
    <3>2. Append(f[n - 1], s[n]) \in Seq(S)
      BY <3>1
    <3>3. f[n] \in Seq(S)
      BY <1>10, <3>1, <3>2
    <3> QED BY <3>1, <3>3
  <2> HIDE DEF T
  <2>3. \A n \in 0 .. N : n \in T
    BY <1>1, <2>1, <2>2, UpTo
  <2> QED BY <2>3 DEF T
<1>12. f \in [0 .. N -> Seq(S)]
  BY <1>10, <1>11
<1>13. SelectedAlong(f, S, s, I)
  BY <1>8, <1>10, <1>12 DEF SelectedAlong
<1> QED BY <1>13

(***************************************************************************)
(* t lists the elements of s at the positions in I among the first n, in   *)
(* their order; pos is where they come from.                               *)
(***************************************************************************)
Picks(t, pos, s, I, n) ==
  /\ pos \in [1 .. Len(t) -> 1 .. n]
  /\ \A j \in 1 .. Len(t) : pos[j] \in I /\ t[j] = s[pos[j]]
  /\ \A i, j \in 1 .. Len(t) : i < j => pos[i] < pos[j]
  /\ \A i \in 1 .. n : i \in I => \E j \in 1 .. Len(t) : pos[j] = i

(* One more position that is not selected.                                 *)
LEMMA PicksSame ==
  ASSUME NEW S, NEW s \in Seq(S), NEW I, NEW n \in 1 .. Len(s), n \notin I,
         NEW t \in Seq(S), NEW pos, Picks(t, pos, s, I, n - 1)
  PROVE  Picks(t, pos, s, I, n)
<1>1. /\ pos \in [1 .. Len(t) -> 1 .. n - 1]
      /\ \A i \in 1 .. n : i = n \/ i \in 1 .. n - 1
      /\ 1 .. n - 1 \subseteq 1 .. n
  BY DEF Picks
<1>2. pos \in [1 .. Len(t) -> 1 .. n]
  BY <1>1
<1>3. \A i \in 1 .. n : i \in I => i \in 1 .. n - 1
  BY <1>1
<1> QED BY <1>2, <1>3 DEF Picks

(* One more position that is.                                              *)
LEMMA PicksNext ==
  ASSUME NEW S, NEW s \in Seq(S), NEW I, NEW n \in 1 .. Len(s), n \in I,
         NEW t \in Seq(S), NEW pos, Picks(t, pos, s, I, n - 1)
  PROVE  \E new : Picks(Append(t, s[n]), new, s, I, n)
<1> DEFINE u   == Append(t, s[n])
           L   == Len(t)
           new == [j \in 1 .. L + 1 |-> IF j = L + 1 THEN n ELSE pos[j]]
<1>1. /\ L \in Nat
      /\ Len(u) = L + 1
      /\ \A j \in 1 .. L : u[j] = t[j]
      /\ u[L + 1] = s[n]
      /\ \A j \in 1 .. L + 1 : j = L + 1 \/ j \in 1 .. L
      /\ \A j \in 1 .. L : j \in 1 .. L + 1 /\ j # L + 1
      /\ L + 1 \in 1 .. L + 1
  <2>1. s[n] \in S
    OBVIOUS
  <2> QED BY <2>1, AppendProperties
<1>2. /\ pos \in [1 .. L -> 1 .. n - 1]
      /\ \A j \in 1 .. L : pos[j] \in I /\ t[j] = s[pos[j]]
      /\ \A i, j \in 1 .. L : i < j => pos[i] < pos[j]
      /\ \A i \in 1 .. n - 1 : i \in I => \E j \in 1 .. L : pos[j] = i
  BY DEF Picks
<1>3. /\ new[L + 1] = n
      /\ \A j \in 1 .. L : new[j] = pos[j] /\ new[j] \in 1 .. n - 1
  BY <1>1, <1>2
<1>4. new \in [1 .. L + 1 -> 1 .. n]
  <2>1. new = [j \in 1 .. L + 1 |-> new[j]]
    OBVIOUS
  <2> HIDE DEF u, L, new
  <2>2. n \in 1 .. n /\ 1 .. n - 1 \subseteq 1 .. n
    OBVIOUS
  <2>3. \A j \in 1 .. L + 1 : new[j] \in 1 .. n
    BY <1>1, <1>3, <2>2
  <2> QED BY <2>1, <2>3
<1> HIDE DEF u, L, new
<1>5. \A j \in 1 .. L + 1 : new[j] \in I /\ u[j] = s[new[j]]
  BY <1>1, <1>2, <1>3
<1>6. ASSUME NEW i \in 1 .. L + 1, NEW j \in 1 .. L + 1, i < j
      PROVE  new[i] < new[j]
  <2>1. i \in 1 .. L
    BY <1>1, <1>6
  <2>2. CASE j = L + 1
    BY <1>3, <2>1, <2>2
  <2>3. CASE j \in 1 .. L
    BY <1>2, <1>3, <1>6, <2>1, <2>3
  <2> QED BY <1>1, <2>2, <2>3
<1>7. ASSUME NEW i \in 1 .. n, i \in I
      PROVE  \E j \in 1 .. L + 1 : new[j] = i
  <2>1. CASE i = n
    BY <1>1, <1>3, <2>1
  <2>2. CASE i \in 1 .. n - 1
    <3>1. PICK j \in 1 .. L : pos[j] = i
      BY <1>2, <1>7, <2>2
    <3> QED BY <1>1, <1>3, <3>1
  <2> QED BY <2>1, <2>2
<1>8. Picks(u, new, s, I, n)
  BY <1>1, <1>4, <1>5, <1>6, <1>7 DEF Picks
<1> QED BY <1>8 DEF u

(***************************************************************************)
(* Selected returns what its name says.                                    *)
(***************************************************************************)
LEMMA SelectedPicks ==
  ASSUME NEW S, NEW s \in Seq(S), NEW I
  PROVE  /\ Selected(s, I) \in Seq(S)
         /\ \E pos : Picks(Selected(s, I), pos, s, I, Len(s))
<1>0. PICK f : SelectedAlong(f, S, s, I)
  BY SelectedUnfolds
<1>1. /\ f \in [0 .. Len(s) -> Seq(S)]
      /\ f[0] = << >>
      /\ \A n \in 1 .. Len(s) :
           f[n] = IF n \in I THEN Append(f[n - 1], s[n]) ELSE f[n - 1]
      /\ Selected(s, I) = f[Len(s)]
  BY <1>0 DEF SelectedAlong
<1> DEFINE T == {n \in 0 .. Len(s) : \E pos : Picks(f[n], pos, s, I, n)}
<1>2. 0 \in T
  <2>1. Picks(<< >>, << >>, s, I, 0)
    BY DEF Picks
  <2>2. 0 \in 0 .. Len(s)
    OBVIOUS
  <2> QED BY <1>1, <2>1, <2>2
<1>3. ASSUME NEW n \in 1 .. Len(s), n - 1 \in T PROVE n \in T
  <2>1. PICK pos : Picks(f[n - 1], pos, s, I, n - 1)
    BY <1>3
  <2>2. f[n - 1] \in Seq(S) /\ n \in 0 .. Len(s)
    <3>1. n - 1 \in 0 .. Len(s) /\ n \in 0 .. Len(s)
      OBVIOUS
    <3> QED BY <1>1, <3>1
  <2>3. \E new : Picks(f[n], new, s, I, n)
    <3>1. CASE n \in I
      BY <1>1, <2>1, <2>2, <3>1, PicksNext
    <3>2. CASE n \notin I
      BY <1>1, <2>1, <2>2, <3>2, PicksSame
    <3> QED BY <3>1, <3>2
  <2> QED BY <2>2, <2>3
<1> HIDE DEF T
<1>4. Len(s) \in Nat /\ Len(s) \in 0 .. Len(s)
  OBVIOUS
<1>5. Len(s) \in T
  <2>1. \A n \in 0 .. Len(s) : n \in T
    BY <1>2, <1>3, <1>4, UpTo
  <2> QED BY <1>4, <2>1
<1>6. \E pos : Picks(f[Len(s)], pos, s, I, Len(s))
  BY <1>5 DEF T
<1> QED BY <1>1, <1>4, <1>6

-----------------------------------------------------------------------------
(* f is the recursion by which Replay is defined.                         *)
ReplayedBy(f, replica, evs) ==
  f = [n \in 0 .. Len(evs) |->
         IF n = 0 THEN replica ELSE ApplyEvent(f[n - 1], evs[n])]

(* Events of any shape that have a resource and an effect.                 *)
AboutResources(evs) ==
  \A i \in DOMAIN evs : evs[i].key \in Key /\ Effect(evs[i]) \in Value \cup {Absent}

(* Such an event keeps the type of a copy of the model.                    *)
LEMMA AboutOneResource ==
  ASSUME NEW replica \in Replica, NEW ev,
         ev.key \in Key, Effect(ev) \in Value \cup {Absent}
  PROVE  /\ ApplyEvent(replica, ev) \in Replica
         /\ \A k \in Key :
              ApplyEvent(replica, ev)[k] = IF k = ev.key THEN Effect(ev) ELSE replica[k]
BY DEF ApplyEvent, Replica

(* Replay is defined by a recursion that has a solution.                   *)
LEMMA ReplayUnfolds ==
  ASSUME NEW S, NEW evs \in Seq(S), AboutResources(evs), NEW replica \in Replica
  PROVE  \E f \in [0 .. Len(evs) -> Replica] :
           /\ f[0] = replica
           /\ \A n \in 1 .. Len(evs) : f[n] = ApplyEvent(f[n - 1], evs[n])
           /\ Replay(replica, evs) = f[Len(evs)]
<1> DEFINE N == Len(evs)
           G == [x \in (1 .. N) \X Replica |-> ApplyEvent(x[2], evs[x[1]])]
<1>1. /\ N \in Nat
      /\ \A n \in 1 .. N : \A r \in Replica : ApplyEvent(r, evs[n]) \in Replica
  <2>1. N \in Nat /\ DOMAIN evs = 1 .. N
    OBVIOUS
  <2> QED BY <2>1, AboutOneResource DEF AboutResources
<1>2. StepOn(G, N, Replica)
  <2>1. ASSUME NEW x \in (1 .. N) \X Replica
        PROVE  ApplyEvent(x[2], evs[x[1]]) \in Replica
    <3>1. x[1] \in 1 .. N /\ x[2] \in Replica
      OBVIOUS
    <3> QED BY <1>1, <3>1
  <2> QED BY <2>1 DEF StepOn
<1>3. \A n \in 1 .. N : \A r \in Replica : G[<< n, r >>] = ApplyEvent(r, evs[n])
  OBVIOUS
<1> HIDE DEF G
<1>4. PICK g : Follows(g, N, Replica, replica, G)
  BY <1>1, <1>2, RecursionExists
<1>5. /\ g \in [0 .. N -> Replica]
      /\ g[0] = replica
      /\ \A n \in 1 .. N : g[n] = G[<< n, g[n - 1] >>]
  BY <1>4 DEF Follows
<1>6. ReplayedBy(g, replica, evs)
  <2>1. ASSUME NEW n \in 1 .. N
        PROVE  g[n] = ApplyEvent(g[n - 1], evs[n])
    <3>1. n - 1 \in 0 .. N
      OBVIOUS
    <3> QED BY <1>3, <1>5, <3>1
  <2>2. \A n \in 0 .. N : n = 0 \/ n \in 1 .. N
    OBVIOUS
  <2>3. g = [n \in 0 .. N |-> g[n]]
    BY <1>5
  <2>4. \A n \in 0 .. N :
          g[n] = IF n = 0 THEN replica ELSE ApplyEvent(g[n - 1], evs[n])
    BY <1>5, <2>1, <2>2
  <2> QED BY <2>3, <2>4 DEF ReplayedBy
<1> DEFINE f == CHOOSE h : ReplayedBy(h, replica, evs)
<1>7. Replay(replica, evs) = f[N]
  BY DEF Replay, ReplayedBy
<1>8. ReplayedBy(f, replica, evs)
  BY <1>6
<1> HIDE DEF f
<1>9. /\ f = [n \in 0 .. N |-> f[n]]
      /\ f[0] = replica
      /\ \A n \in 1 .. N : f[n] = ApplyEvent(f[n - 1], evs[n])
  <2>1. 0 \in 0 .. N /\ \A n \in 1 .. N : n \in 0 .. N /\ n # 0
    BY <1>1
  <2> QED BY <1>8, <2>1 DEF ReplayedBy
<1>10. \A n \in 0 .. N : f[n] \in Replica
  <2> DEFINE T == {n \in 0 .. N : f[n] \in Replica}
  <2>1. 0 \in T
    BY <1>1, <1>9
  <2>2. ASSUME NEW n \in 1 .. N, n - 1 \in T PROVE n \in T
    <3>1. f[n - 1] \in Replica /\ n \in 0 .. N
      BY <1>1, <2>2
    <3>2. f[n] \in Replica
      BY <1>1, <1>9, <3>1
    <3> QED BY <3>1, <3>2
  <2> HIDE DEF T
  <2>3. \A n \in 0 .. N : n \in T
    BY <1>1, <2>1, <2>2, UpTo
  <2> QED BY <2>3 DEF T
<1>11. f \in [0 .. N -> Replica]
  BY <1>9, <1>10
<1> QED BY <1>7, <1>9, <1>11

(* The last event about k has the effect v, or there is none and k has v.  *)
LeavesWith(replica, evs, k, v) ==
  /\ ~ Mentions(evs, k) => replica[k] = v
  /\ \A i \in DOMAIN evs : LastAbout(evs, k, i) => Effect(evs[i]) = v

(***************************************************************************)
(* Replay leaves a resource with the effect of the last event about it.    *)
(***************************************************************************)
LEMMA ReplayLeavesWith ==
  ASSUME NEW S, NEW evs \in Seq(S), AboutResources(evs), NEW replica \in Replica,
         NEW k \in Key, NEW v, LeavesWith(replica, evs, k, v)
  PROVE  Replay(replica, evs)[k] = v
<1> DEFINE N == Len(evs)
           Over(n) == \A i \in 1 .. N : i > n => evs[i].key # k
<1>1. PICK f \in [0 .. N -> Replica] :
        /\ f[0] = replica
        /\ \A n \in 1 .. N : f[n] = ApplyEvent(f[n - 1], evs[n])
        /\ Replay(replica, evs) = f[N]
  BY ReplayUnfolds
<1>2. N \in Nat /\ N \in 0 .. N /\ DOMAIN evs = 1 .. N
  OBVIOUS
<1> DEFINE T == {n \in 0 .. N : Over(n) => f[n][k] = v}
<1>3. 0 \in T
  <2> SUFFICES ASSUME Over(0) PROVE f[0][k] = v
    BY <1>2
  <2>1. ~ Mentions(evs, k)
    BY <1>2 DEF Mentions
  <2> QED BY <1>1, <2>1 DEF LeavesWith
<1>4. ASSUME NEW n \in 1 .. N, n - 1 \in T PROVE n \in T
  <2>1. n \in 0 .. N /\ n - 1 \in 0 .. N /\ f[n - 1] \in Replica
    BY <1>2
  <2> SUFFICES ASSUME Over(n) PROVE f[n][k] = v
    BY <2>1
  <2>2. /\ evs[n].key \in Key /\ Effect(evs[n]) \in Value \cup {Absent}
        /\ n \in DOMAIN evs
    BY <1>2 DEF AboutResources
  <2>3. f[n][k] = IF k = evs[n].key THEN Effect(evs[n]) ELSE f[n - 1][k]
    BY <1>1, <2>1, <2>2, AboutOneResource
  <2>4. CASE k = evs[n].key
    <3>1. LastAbout(evs, k, n)
      BY <1>2, <2>2, <2>4 DEF LastAbout
    <3> QED BY <2>2, <2>3, <2>4, <3>1 DEF LeavesWith
  <2>5. CASE k # evs[n].key
    <3>1. \A i \in 1 .. N : i > n - 1 => i = n \/ i > n
      BY <1>2
    <3>2. Over(n - 1)
      BY <2>5, <3>1
    <3>3. f[n - 1][k] = v
      BY <1>4, <3>2
    <3> QED BY <2>3, <2>5, <3>3
  <2> QED BY <2>4, <2>5
<1> HIDE DEF T
<1>5. N \in T
  <2>1. \A n \in 0 .. N : n \in T
    BY <1>2, <1>3, <1>4, UpTo
  <2> QED BY <1>2, <2>1
<1>6. f[N][k] = v
  BY <1>2, <1>5 DEF T
<1> QED BY <1>1, <1>2, <1>6

(* Replay keeps the type of a copy of the model.                           *)
LEMMA ReplayType ==
  ASSUME NEW S, NEW evs \in Seq(S), AboutResources(evs), NEW replica \in Replica
  PROVE  Replay(replica, evs) \in Replica
<1>1. Len(evs) \in 0 .. Len(evs)
  OBVIOUS
<1> QED BY <1>1, ReplayUnfolds

(***************************************************************************)
(* Replay brings every resource to the target that the events bring it to. *)
(***************************************************************************)
LEMMA ReplayBrings ==
  ASSUME NEW S, NEW evs \in Seq(S), AboutResources(evs),
         NEW replica \in Replica, NEW target \in Replica,
         BringsTo(replica, evs, target)
  PROVE  Replay(replica, evs) = target
<1>1. Replay(replica, evs) \in Replica
  BY ReplayType
<1>2. ASSUME NEW k \in Key PROVE Replay(replica, evs)[k] = target[k]
  <2>1. LeavesWith(replica, evs, k, target[k])
    BY DEF BringsTo, LeavesWith
  <2> QED BY <2>1, ReplayLeavesWith
<1> QED BY <1>1, <1>2 DEF Replica

=============================================================================
