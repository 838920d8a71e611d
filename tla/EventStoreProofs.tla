--------------------------- MODULE EventStoreProofs ---------------------------
(***************************************************************************)
(* Theorems about EventStore and HistoryClient, for every set of resources *)
(* and payloads, every ring size, every page limit and any number of       *)
(* events.                                                                 *)
(***************************************************************************)
EXTENDS HistoryClient, StoreLemmas

(* The successor of a slot.                                                *)
LEMMA NextSlot ==
  ASSUME NEW n \in Slot
  PROVE  (n + 1) % Limit = IF n + 1 = Limit THEN 0 ELSE n + 1
BY LimitAssumption DEF Slot

(***************************************************************************)
(* Adding an entry keeps the shape of the ring.                            *)
(***************************************************************************)
LEMMA RingAddKeepsShape ==
  ASSUME NEW r, RingOK(r), NEW e \in Entry
  PROVE  RingOK(RingAdd(r, e))
<1>1. /\ r.buf \in [Slot -> Entry \cup {NoEntry}]
      /\ r.next \in Slot
      /\ r.size \in 0 .. Limit
      /\ r.compactionSeq \in Nat
      /\ r.size < Limit => r.next = r.size
      /\ \A i \in Slot : i < r.size => r.buf[i] \in Entry
      /\ Limit \in Nat \ {0}
  BY LimitAssumption DEF RingOK
<1>2. (r.next + 1) % Limit = IF r.next + 1 = Limit THEN 0 ELSE r.next + 1
  BY <1>1, NextSlot
<1> DEFINE new == RingAdd(r, e)
<1>3. /\ new = [buf |-> new.buf, next |-> new.next, size |-> new.size,
                compactionSeq |-> new.compactionSeq]
      /\ new.buf = [r.buf EXCEPT ![r.next] = e]
      /\ new.next = IF r.next + 1 = Limit THEN 0 ELSE r.next + 1
      /\ new.size = IF r.size = Limit THEN r.size ELSE r.size + 1
      /\ new.compactionSeq = IF r.size = Limit THEN r.buf[r.next].seq ELSE r.compactionSeq
  BY <1>2 DEF RingAdd, NextIndex, Boundary
<1>4. new.buf \in [Slot -> Entry \cup {NoEntry}]
  BY <1>1, <1>3
<1>5. new.next \in Slot /\ new.size \in 0 .. Limit
  BY <1>1, <1>3 DEF Slot
<1>6. new.compactionSeq \in Nat
  <2>1. r.size = Limit => r.buf[r.next] \in Entry
    BY <1>1 DEF Slot
  <2>2. \A x \in Entry : x.seq \in Nat
    BY DEF Entry
  <2> QED BY <1>1, <1>3, <2>1, <2>2
<1>7. new.size < Limit => new.next = new.size
  BY <1>1, <1>3 DEF Slot
<1>8. \A i \in Slot : i < new.size => new.buf[i] \in Entry
  <2> SUFFICES ASSUME NEW i \in Slot, i < new.size
               PROVE  new.buf[i] \in Entry
    OBVIOUS
  <2>1. CASE i = r.next
    BY <1>1, <1>3, <2>1
  <2>2. CASE i # r.next
    <3>1. i < r.size
      BY <1>1, <1>3, <2>2 DEF Slot
    <3> QED BY <1>1, <1>3, <2>2, <3>1
  <2> QED BY <2>1, <2>2
<1> HIDE DEF new
<1>9. RingOK(new)
  BY <1>3, <1>4, <1>5, <1>6, <1>7, <1>8 DEF RingOK
<1> QED BY <1>9 DEF new

(***************************************************************************)
(* The i-th retained entry, counted from the oldest, and its slot.         *)
(***************************************************************************)
SlotOf(r, i) ==
  IF r.size < Limit THEN i - 1
  ELSE IF i <= Limit - r.next THEN r.next + i - 1 ELSE i - 1 - (Limit - r.next)

(* The snapshot lists the slots in that order.                             *)
LEMMA SnapshotEntries ==
  ASSUME NEW r, RingOK(r)
  PROVE  /\ RingSnapshot(r) \in Seq(Entry)
         /\ Len(RingSnapshot(r)) = r.size
         /\ \A i \in 1 .. r.size : RingSnapshot(r)[i] = r.buf[SlotOf(r, i)]
<1>1. /\ r.next \in Slot
      /\ r.size \in 0 .. Limit
      /\ \A i \in Slot : i < r.size => r.buf[i] \in Entry
      /\ Limit \in Nat \ {0}
  BY LimitAssumption DEF RingOK
<1>2. ASSUME NEW lo \in 0 .. Limit, NEW hi \in 0 .. r.size, lo <= hi
      PROVE  /\ Slice(r.buf, lo, hi) \in Seq(Entry)
             /\ Len(Slice(r.buf, lo, hi)) = hi - lo
             /\ \A i \in 1 .. hi - lo : Slice(r.buf, lo, hi)[i] = r.buf[lo + i - 1]
  <2>1. \A i \in 1 .. hi - lo : r.buf[lo + i - 1] \in Entry
    BY <1>1, <1>2 DEF Slot
  <2>2. hi - lo \in Nat
    BY <1>1, <1>2
  <2>3. Slice(r.buf, lo, hi) \in [1 .. hi - lo -> Entry]
    BY <2>1 DEF Slice
  <2>4. Slice(r.buf, lo, hi) \in Seq(Entry)
    BY <2>2, <2>3
  <2> QED BY <2>2, <2>3, <2>4 DEF Slice
<1>3. CASE r.size < Limit
  <2>1. RingSnapshot(r) = Slice(r.buf, 0, r.size)
    BY <1>3 DEF RingSnapshot
  <2>2. 0 \in 0 .. Limit /\ r.size \in 0 .. r.size /\ 0 <= r.size
    BY <1>1
  <2>3. /\ Slice(r.buf, 0, r.size) \in Seq(Entry)
        /\ Len(Slice(r.buf, 0, r.size)) = r.size - 0
        /\ \A i \in 1 .. r.size - 0 : Slice(r.buf, 0, r.size)[i] = r.buf[0 + i - 1]
    BY <1>2, <2>2
  <2> QED BY <1>1, <1>3, <2>1, <2>3 DEF SlotOf
<1>4. CASE r.size = Limit
  <2> DEFINE old == Slice(r.buf, r.next, Limit)
             new == Slice(r.buf, 0, r.next)
  <2>1. RingSnapshot(r) = old \o new
    BY <1>1, <1>4 DEF RingSnapshot
  <2>2. /\ old \in Seq(Entry)
        /\ Len(old) = Limit - r.next
        /\ \A i \in 1 .. Limit - r.next : old[i] = r.buf[r.next + i - 1]
    <3>1. r.next \in 0 .. Limit /\ Limit \in 0 .. r.size /\ r.next <= Limit
      BY <1>1, <1>4 DEF Slot
    <3> QED BY <1>2, <3>1
  <2>3. /\ new \in Seq(Entry)
        /\ Len(new) = r.next - 0
        /\ \A i \in 1 .. r.next - 0 : new[i] = r.buf[0 + i - 1]
    <3>1. 0 \in 0 .. Limit /\ r.next \in 0 .. r.size /\ 0 <= r.next
      BY <1>1, <1>4 DEF Slot
    <3> QED BY <1>2, <3>1
  <2>4. /\ old \o new \in Seq(Entry)
        /\ Len(old \o new) = Len(old) + Len(new)
        /\ \A i \in 1 .. Len(old) + Len(new) :
             (old \o new)[i] = IF i <= Len(old) THEN old[i] ELSE new[i - Len(old)]
    BY <2>2, <2>3, ConcatProperties
  <2> HIDE DEF old, new
  <2>5. Len(old) + Len(new) = r.size
    BY <1>1, <1>4, <2>2, <2>3 DEF Slot
  <2>6. ASSUME NEW i \in 1 .. r.size
        PROVE  (old \o new)[i] = r.buf[SlotOf(r, i)]
    <3>1. i \in Int /\ r.next \in Int /\ i \in 1 .. Limit
      BY <1>1, <1>4 DEF Slot
    <3>2. CASE i <= Limit - r.next
      <4>1. (old \o new)[i] = old[i] /\ i \in 1 .. Limit - r.next
        BY <1>1, <2>2, <2>4, <2>5, <3>1, <3>2
      <4>2. SlotOf(r, i) = r.next + i - 1
        BY <1>1, <1>4, <3>2 DEF SlotOf
      <4> QED BY <2>2, <4>1, <4>2
    <3>3. CASE ~ (i <= Limit - r.next)
      <4>1. (old \o new)[i] = new[i - (Limit - r.next)]
        BY <1>1, <2>2, <2>4, <2>5, <3>1, <3>3
      <4>2. i - (Limit - r.next) \in 1 .. r.next - 0
        BY <1>1, <3>1, <3>3
      <4>3. SlotOf(r, i) = 0 + (i - (Limit - r.next)) - 1
        BY <1>1, <1>4, <3>1, <3>3 DEF SlotOf
      <4> QED BY <2>3, <4>1, <4>2, <4>3
    <3> QED BY <3>2, <3>3
  <2> QED BY <2>1, <2>4, <2>5, <2>6
<1> QED BY <1>1, <1>3, <1>4

(***************************************************************************)
(* The ring is a bounded log: adding an entry appends it to what is        *)
(* retained, at the cost of the oldest entry once the ring is full, and    *)
(* the boundary becomes the sequence id of the entry that is lost.         *)
(***************************************************************************)
LEMMA RingAddAppends ==
  ASSUME NEW r, RingOK(r), NEW e \in Entry
  PROVE  LET T == RingSnapshot(r) IN
         /\ Len(T) < Limit =>
              /\ RingSnapshot(RingAdd(r, e)) = Append(T, e)
              /\ RingAdd(r, e).compactionSeq = r.compactionSeq
         /\ ~ (Len(T) < Limit) =>
              /\ T # << >>
              /\ RingSnapshot(RingAdd(r, e)) = Append(Tail(T), e)
              /\ RingAdd(r, e).compactionSeq = Head(T).seq
<1> DEFINE T   == RingSnapshot(r)
           new == RingAdd(r, e)
           U   == RingSnapshot(new)
<1>1. /\ r.buf \in [Slot -> Entry \cup {NoEntry}]
      /\ r.next \in Slot
      /\ r.size \in 0 .. Limit
      /\ r.size < Limit => r.next = r.size
      /\ Limit \in Nat \ {0}
  BY LimitAssumption DEF RingOK
<1>2. /\ new.buf = [r.buf EXCEPT ![r.next] = e]
      /\ new.next = IF r.next + 1 = Limit THEN 0 ELSE r.next + 1
      /\ new.size = IF r.size = Limit THEN r.size ELSE r.size + 1
      /\ new.compactionSeq = IF r.size = Limit THEN r.buf[r.next].seq ELSE r.compactionSeq
  BY <1>1, NextSlot DEF RingAdd, NextIndex, Boundary
<1>3. /\ T \in Seq(Entry)
      /\ Len(T) = r.size
      /\ \A i \in 1 .. r.size : T[i] = r.buf[SlotOf(r, i)]
  BY SnapshotEntries
<1>4. /\ U \in Seq(Entry)
      /\ Len(U) = new.size
      /\ \A i \in 1 .. new.size : U[i] = new.buf[SlotOf(new, i)]
  BY RingAddKeepsShape, SnapshotEntries
<1> HIDE DEF T, new, U
<1>5. CASE r.size < Limit
  <2>1. /\ Append(T, e) \in Seq(Entry)
        /\ Len(Append(T, e)) = r.size + 1
        /\ \A i \in 1 .. r.size : Append(T, e)[i] = T[i]
        /\ Append(T, e)[r.size + 1] = e
    BY <1>3, AppendProperties
  <2>2. new.size = r.size + 1
    BY <1>1, <1>2, <1>5
  <2>3. ASSUME NEW i \in 1 .. r.size + 1
        PROVE  U[i] = Append(T, e)[i]
    <3>1. SlotOf(new, i) = i - 1
      BY <1>1, <1>2, <1>5, <2>2 DEF SlotOf, Slot
    <3>2. U[i] = new.buf[i - 1]
      BY <1>4, <2>2, <3>1
    <3>3. CASE i = r.size + 1
      BY <1>1, <1>2, <1>5, <2>1, <3>2, <3>3
    <3>4. CASE i # r.size + 1
      <4>1. i \in 1 .. r.size /\ i - 1 \in Slot /\ i - 1 # r.next
        BY <1>1, <1>5, <3>4 DEF Slot
      <4>2. SlotOf(r, i) = i - 1
        BY <1>5 DEF SlotOf
      <4> QED BY <1>1, <1>2, <1>3, <2>1, <3>2, <4>1, <4>2
    <3> QED BY <3>3, <3>4
  <2>4. U = Append(T, e)
    BY <1>4, <2>1, <2>2, <2>3, SeqEqual
  <2> QED BY <1>1, <1>2, <1>3, <1>5, <2>4 DEF T, U, new
<1>6. CASE r.size = Limit
  <2>1. T # << >>
    BY <1>1, <1>3, <1>6, EmptySeq
  <2>2. /\ Tail(T) \in Seq(Entry)
        /\ Len(Tail(T)) = Limit - 1
        /\ \A i \in 1 .. Limit - 1 : Tail(T)[i] = T[i + 1]
    BY <1>3, <1>6, <2>1, HeadTailProperties
  <2>3. /\ Append(Tail(T), e) \in Seq(Entry)
        /\ Len(Append(Tail(T), e)) = Limit
        /\ \A i \in 1 .. Limit - 1 : Append(Tail(T), e)[i] = Tail(T)[i]
        /\ Append(Tail(T), e)[Limit] = e
    <3>1. Limit - 1 + 1 = Limit
      BY <1>1
    <3> QED BY <2>2, <3>1, AppendProperties
  <2>4. new.size = Limit
    BY <1>2, <1>6
  <2>5. ASSUME NEW i \in 1 .. Limit
        PROVE  U[i] = Append(Tail(T), e)[i]
    <3>1. U[i] = new.buf[SlotOf(new, i)]
      BY <1>4, <2>4
    <3>2. CASE i = Limit
      <4>1. SlotOf(new, i) = r.next
        BY <1>1, <1>2, <2>4, <3>2 DEF SlotOf, Slot
      <4> QED BY <1>1, <1>2, <2>3, <3>1, <3>2, <4>1
    <3>3. CASE i # Limit
      <4>1. i \in 1 .. Limit - 1 /\ i + 1 \in 1 .. r.size
        BY <1>1, <1>6, <3>3
      <4>2. /\ SlotOf(new, i) = SlotOf(r, i + 1)
            /\ SlotOf(new, i) \in Slot
            /\ SlotOf(new, i) # r.next
        <5>1. r.next \in 0 .. Limit - 1 /\ i \in 1 .. Limit - 1
          BY <1>1, <4>1 DEF Slot
        <5>2. SlotOf(r, i + 1) = IF i + 1 <= Limit - r.next
                                 THEN r.next + i ELSE i - (Limit - r.next)
          BY <1>1, <1>6, <5>1 DEF SlotOf
        <5>3. CASE r.next + 1 = Limit
          <6>1. SlotOf(new, i) = i - 1
            BY <1>1, <1>2, <2>4, <5>1, <5>3 DEF SlotOf
          <6> QED BY <1>1, <5>1, <5>2, <5>3, <6>1 DEF Slot
        <5>4. CASE r.next + 1 # Limit
          <6>1. SlotOf(new, i) = IF i <= Limit - (r.next + 1)
                                 THEN r.next + i ELSE i - 1 - (Limit - (r.next + 1))
            BY <1>1, <1>2, <2>4, <5>1, <5>4 DEF SlotOf
          <6>2. Limit \in Nat /\ r.next \in Nat /\ r.next <= Limit - 1
                /\ i \in Nat /\ i >= 1 /\ i <= Limit - 1
            BY <5>1, LimitAssumption
          <6>3. CASE i <= Limit - (r.next + 1)
            <7>1. SlotOf(new, i) = r.next + i /\ SlotOf(r, i + 1) = r.next + i
              BY <5>2, <6>1, <6>2, <6>3
            <7> QED BY <6>2, <6>3, <7>1 DEF Slot
          <6>4. CASE i > Limit - (r.next + 1)
            <7>1. /\ SlotOf(new, i) = r.next + i - Limit
                  /\ SlotOf(r, i + 1) = r.next + i - Limit
              BY <5>2, <6>1, <6>2, <6>4
            <7> QED BY <6>2, <6>4, <7>1 DEF Slot
          <6> QED BY <6>2, <6>3, <6>4
        <5> QED BY <5>3, <5>4
      <4> QED BY <1>1, <1>2, <1>3, <2>2, <2>3, <3>1, <4>1, <4>2
    <3> QED BY <3>2, <3>3
  <2>6. U = Append(Tail(T), e)
    BY <1>4, <2>3, <2>4, <2>5, SeqEqual
  <2>7. Head(T) = r.buf[r.next]
    <3>1. Head(T) = T[1]
      BY <1>3, <2>1
    <3>2. 1 \in 1 .. r.size /\ SlotOf(r, 1) = r.next
      BY <1>1, <1>6 DEF SlotOf, Slot
    <3> QED BY <1>3, <3>1, <3>2
  <2> QED BY <1>1, <1>2, <1>3, <1>6, <2>1, <2>6, <2>7 DEF T, U, new
<1> QED BY <1>1, <1>5, <1>6

-----------------------------------------------------------------------------
(***************************************************************************)
(* The inductive invariant.  TailDecides and the completeness of the tail  *)
(* need the order of the sequence ids, because an eviction that left the   *)
(* boundary at 0 would hide a resource; the order needs the type, and,     *)
(* for an entry that enters an empty ring, the bound on the boundary.      *)
(***************************************************************************)
BoundaryBelowCounter == ring.compactionSeq <= sequenceNumber

(* The inductive invariant.                                                *)
StoreInv ==
  /\ StoreTypeOK
  /\ BoundaryBelowCounter
  /\ OrderInv
  /\ TailOrdered
  /\ TailDecides
  /\ TailCompleteUntilEviction

(* A recorded event is an entry with its number, key and effect.           *)
LEMMA StoredIsEntry ==
  ASSUME NEW ev \in Event, NEW n \in Nat
  PROVE  /\ Stored(n, ev) \in Entry
         /\ Stored(n, ev).seq = n
         /\ Stored(n, ev).key = ev.key
         /\ Effect(Stored(n, ev)) = Effect(ev)
         /\ ev.key \in Key
BY DEF Stored, Entry, Event, Effect

(***************************************************************************)
(* Recording drops the cut oldest entries, none or one, and appends e; the *)
(* boundary is the sequence id of the entry dropped.                       *)
(***************************************************************************)
Shifts(cut, old, new, e, b, c) ==
  /\ old \in Seq(Entry)
  /\ new \in Seq(Entry)
  /\ cut <= Len(old)
  /\ Len(new) = Len(old) - cut + 1
  /\ \A i \in 1 .. Len(old) - cut : new[i] = old[i + cut]
  /\ new[Len(old) - cut + 1] = e
  /\ cut = 0 => c = b
  /\ cut = 1 => c = old[1].seq

(* Recording is such a shift of the tail.                                  *)
LEMMA RecordShifts ==
  ASSUME StoreTypeOK, NEW ev \in Event, Record(ev)
  PROVE  \E cut \in {0, 1} :
           Shifts(cut, HistoryTail, HistoryTail', Stored(sequenceNumber + 1, ev),
                  ring.compactionSeq, ring'.compactionSeq)
<1> DEFINE T == HistoryTail
           e == Stored(sequenceNumber + 1, ev)
<1>1. /\ RingOK(ring)
      /\ sequenceNumber \in Nat
      /\ ring' = RingAdd(ring, e)
  BY DEF StoreTypeOK, Record, NextStored
<1>2. e \in Entry
  BY <1>1, StoredIsEntry
<1>3. T \in Seq(Entry) /\ Len(T) \in Nat
  BY <1>1, SnapshotEntries, LenProperties DEF HistoryTail
<1>4. HistoryTail' = RingSnapshot(RingAdd(ring, e))
  BY <1>1 DEF HistoryTail
<1>5. /\ Len(T) < Limit =>
           /\ HistoryTail' = Append(T, e)
           /\ ring'.compactionSeq = ring.compactionSeq
      /\ ~ (Len(T) < Limit) =>
           /\ T # << >>
           /\ HistoryTail' = Append(Tail(T), e)
           /\ ring'.compactionSeq = Head(T).seq
  BY <1>1, <1>2, <1>4, RingAddAppends DEF HistoryTail
<1> HIDE DEF T, e
<1>6. CASE Len(T) < Limit
  <2>1. /\ Append(T, e) \in Seq(Entry)
        /\ Len(Append(T, e)) = Len(T) + 1
        /\ \A i \in 1 .. Len(T) : Append(T, e)[i] = T[i]
        /\ Append(T, e)[Len(T) + 1] = e
    BY <1>2, <1>3, AppendProperties
  <2>2. Len(T) - 0 = Len(T) /\ \A i \in 1 .. Len(T) : i + 0 = i
    BY <1>3
  <2>3. Shifts(0, T, HistoryTail', e, ring.compactionSeq, ring'.compactionSeq)
    BY <1>3, <1>5, <1>6, <2>1, <2>2 DEF Shifts
  <2> QED BY <2>3 DEF T, e
<1>7. CASE ~ (Len(T) < Limit)
  <2>1. /\ Tail(T) \in Seq(Entry)
        /\ Len(Tail(T)) = Len(T) - 1
        /\ \A i \in 1 .. Len(T) - 1 : Tail(T)[i] = T[i + 1]
    BY <1>3, <1>5, <1>7, HeadTailProperties
  <2>2. /\ Append(Tail(T), e) \in Seq(Entry)
        /\ Len(Append(Tail(T), e)) = Len(T) - 1 + 1
        /\ \A i \in 1 .. Len(T) - 1 : Append(Tail(T), e)[i] = Tail(T)[i]
        /\ Append(Tail(T), e)[Len(T) - 1 + 1] = e
    BY <1>2, <2>1, AppendProperties
  <2>3. 1 <= Len(T)
    BY <1>3, <1>5, <1>7, EmptySeq
  <2>4. Head(T) = T[1]
    BY <1>3, <1>5, <1>7
  <2>5. Shifts(1, T, HistoryTail', e, ring.compactionSeq, ring'.compactionSeq)
    <3>1. HistoryTail' = Append(Tail(T), e) /\ ring'.compactionSeq = T[1].seq
      BY <1>5, <1>7, <2>4
    <3>2. \A i \in 1 .. Len(T) - 1 : Append(Tail(T), e)[i] = T[i + 1]
      BY <2>1, <2>2
    <3> QED BY <1>3, <2>2, <2>3, <3>1, <3>2 DEF Shifts
  <2> QED BY <2>5 DEF T, e
<1> QED BY <1>6, <1>7

(* The empty store has it.                                                 *)
LEMMA StoreInitInv == StoreInit => StoreInv
<1> SUFFICES ASSUME StoreInit PROVE StoreInv
  OBVIOUS
<1>1. ring = NewRing /\ latest = EmptyLatest /\ sequenceNumber = 0
  BY DEF StoreInit
<1>2. RingOK(ring)
  BY <1>1, LimitAssumption DEF RingOK, NewRing, Slot
<1>3. latest \in LatestStores
  BY <1>1 DEF LatestStores, EmptyLatest
<1>4. OrderListsLive(latest)
  BY <1>1 DEF OrderListsLive, EmptyLatest, LiveKeys, IsLive
<1>5. HistoryTail \in Seq(Entry) /\ Len(HistoryTail) = 0
  BY <1>1, <1>2, SnapshotEntries DEF HistoryTail, NewRing
<1>6. DOMAIN HistoryTail = {}
  BY <1>5, LenProperties
<1>7. TailCompleteUntilEviction
  BY <1>1 DEF TailCompleteUntilEviction, EmptyLatest, LiveKeys, IsLive
<1>8. TailOrdered /\ TailDecides
  BY <1>6 DEF TailOrdered, TailDecides, LastAbout
<1>9. BoundaryBelowCounter
  BY <1>1 DEF BoundaryBelowCounter, NewRing
<1> QED BY <1>1, <1>2, <1>3, <1>4, <1>7, <1>8, <1>9 DEF StoreInv, StoreTypeOK, OrderInv

(* Recording an event preserves it.                                        *)
LEMMA RecordPreserves ==
  ASSUME StoreInv, NEW ev \in Event, Record(ev)
  PROVE  StoreInv'
<1> DEFINE T == HistoryTail
           U == HistoryTail'
           e == Stored(sequenceNumber + 1, ev)
<1>1. /\ StoreTypeOK /\ BoundaryBelowCounter /\ OrderInv
      /\ TailOrdered /\ TailDecides /\ TailCompleteUntilEviction
  BY DEF StoreInv
<1>2. /\ latest \in LatestStores /\ OrderListsLive(latest)
      /\ RingOK(ring)
      /\ sequenceNumber \in Nat
      /\ ring.compactionSeq \in Nat
      /\ ring.compactionSeq <= sequenceNumber
  BY <1>1 DEF StoreTypeOK, OrderInv, RingOK, BoundaryBelowCounter
<1>3. /\ latest' = Receive(latest, ev)
      /\ sequenceNumber' = sequenceNumber + 1
      /\ ring' = RingAdd(ring, e)
  BY DEF Record, NextStored
<1>4. /\ e \in Entry
      /\ e.seq = sequenceNumber + 1
      /\ e.key = ev.key
      /\ Effect(e) = Effect(ev)
      /\ ev.key \in Key
  BY <1>2, StoredIsEntry
<1>5. /\ latest' \in LatestStores
      /\ OrderListsLive(latest')
      /\ \A k \in Key : latest'.state[k] = IF k = ev.key THEN Effect(ev) ELSE latest.state[k]
  BY <1>2, <1>3, ReceiveKeepsStore
<1>6. StoreTypeOK'
  BY <1>2, <1>3, <1>4, <1>5, RingAddKeepsShape DEF StoreTypeOK
<1>7. OrderInv'
  BY <1>5 DEF OrderInv
<1>8. PICK cut \in {0, 1} : Shifts(cut, T, U, e, ring.compactionSeq, ring'.compactionSeq)
  BY <1>1, RecordShifts
<1> DEFINE kept == Len(T) - cut
<1>9. /\ Len(T) \in Nat /\ kept \in Nat /\ cut \in Nat
      /\ Len(T) = kept + cut
      /\ DOMAIN T = 1 .. Len(T)
      /\ DOMAIN U = 1 .. kept + 1
      /\ \A i \in 1 .. kept : i + cut \in 1 .. Len(T) /\ U[i] = T[i + cut]
      /\ U[kept + 1] = e
      /\ \A i \in 1 .. kept + 1 : i \in 1 .. kept \/ i = kept + 1
  <2>1. Len(T) \in Nat /\ DOMAIN T = 1 .. Len(T) /\ DOMAIN U = 1 .. Len(U)
    BY <1>8, LenProperties DEF Shifts
  <2> QED BY <1>8, <2>1 DEF Shifts
<1>b. /\ cut = 0 => ring'.compactionSeq = ring.compactionSeq
      /\ cut = 1 => 1 \in 1 .. Len(T) /\ ring'.compactionSeq = T[1].seq
  BY <1>8, <1>9 DEF Shifts
<1>10. /\ \A i, j \in 1 .. Len(T) : i < j => T[i].seq < T[j].seq
       /\ \A i \in 1 .. Len(T) : /\ T[i].seq \in Nat
                                 /\ ring.compactionSeq < T[i].seq
                                 /\ T[i].seq <= sequenceNumber
  <2>1. \A x \in Entry : x.seq \in Nat
    BY DEF Entry
  <2>2. \A i \in 1 .. Len(T) : T[i] \in Entry
    BY <1>8, <1>9 DEF Shifts
  <2> QED BY <1>1, <1>9, <2>1, <2>2 DEF TailOrdered
<1> HIDE DEF T, U, e, kept
<1>11. ring'.compactionSeq \in Nat /\ ring'.compactionSeq <= sequenceNumber
  <2>1. CASE cut = 0
    BY <1>2, <1>b, <2>1
  <2>2. CASE cut = 1
    BY <1>b, <1>10, <2>2
  <2> QED BY <2>1, <2>2
<1>12. BoundaryBelowCounter'
  BY <1>2, <1>3, <1>11 DEF BoundaryBelowCounter
<1>13. TailOrdered'
  <2>1. ASSUME NEW i \in 1 .. kept + 1, NEW j \in 1 .. kept + 1, i < j
        PROVE  U[i].seq < U[j].seq
    <3>1. i \in 1 .. kept
      BY <1>9, <2>1
    <3>2. i + cut \in 1 .. Len(T) /\ U[i] = T[i + cut]
      BY <1>9, <3>1
    <3>3. CASE j = kept + 1
      <4>1. U[j] = e
        BY <1>9, <3>3
      <4>2. T[i + cut].seq \in Nat /\ T[i + cut].seq <= sequenceNumber
        BY <1>10, <3>2
      <4> QED BY <1>2, <1>4, <3>2, <4>1, <4>2
    <3>4. CASE j \in 1 .. kept
      <4>1. j + cut \in 1 .. Len(T) /\ U[j] = T[j + cut] /\ i + cut < j + cut
        BY <1>9, <2>1, <3>4
      <4> QED BY <1>10, <3>2, <4>1
    <3> QED BY <1>9, <3>3, <3>4
  <2>2. ASSUME NEW i \in 1 .. kept + 1
        PROVE  ring'.compactionSeq < U[i].seq /\ U[i].seq <= sequenceNumber'
    <3>1. CASE i = kept + 1
      BY <1>2, <1>3, <1>4, <1>9, <1>11, <3>1
    <3>2. CASE i \in 1 .. kept
      <4>1. i + cut \in 1 .. Len(T) /\ U[i] = T[i + cut]
        BY <1>9, <3>2
      <4>2. U[i].seq <= sequenceNumber'
        BY <1>2, <1>3, <1>10, <4>1
      <4>3. CASE cut = 0
        BY <1>b, <1>10, <4>1, <4>2, <4>3
      <4>4. CASE cut = 1
        <5>1. 1 \in 1 .. Len(T) /\ 1 < i + cut
          BY <1>9, <1>b, <3>2, <4>4
        <5> QED BY <1>b, <1>10, <4>1, <4>2, <4>4, <5>1
      <4> QED BY <4>2, <4>3, <4>4
    <3> QED BY <1>9, <3>1, <3>2
  <2> QED BY <1>9, <2>1, <2>2 DEF TailOrdered, U
<1>14. TailDecides'
  <2> SUFFICES ASSUME NEW k \in Key, NEW i \in 1 .. kept + 1, LastAbout(U, k, i)
               PROVE  latest'.state[k] = Effect(U[i])
    BY <1>9 DEF TailDecides, U
  <2>1. U[i].key = k /\ \A j \in 1 .. kept + 1 : j > i => U[j].key # k
    BY <1>9 DEF LastAbout
  <2>2. CASE i = kept + 1
    BY <1>4, <1>5, <1>9, <2>1, <2>2
  <2>3. CASE i \in 1 .. kept
    <3>1. i + cut \in 1 .. Len(T) /\ U[i] = T[i + cut]
      BY <1>9, <2>3
    <3>2. k # ev.key
      <4>1. kept + 1 \in 1 .. kept + 1 /\ kept + 1 > i
        BY <1>9, <2>3
      <4> QED BY <1>4, <1>9, <2>1, <4>1
    <3>3. LastAbout(T, k, i + cut)
      <4>1. ASSUME NEW j \in 1 .. Len(T), j > i + cut
            PROVE  T[j].key # k
        <5>1. /\ j - cut \in 1 .. kept
              /\ j - cut \in 1 .. kept + 1
              /\ j - cut > i
              /\ (j - cut) + cut = j
          BY <1>9, <2>3, <4>1
        <5>2. U[j - cut] = T[j]
          BY <1>9, <5>1
        <5> QED BY <2>1, <5>1, <5>2
      <4> QED BY <1>9, <2>1, <3>1, <4>1 DEF LastAbout
    <3>4. latest.state[k] = Effect(T[i + cut])
      BY <1>1, <1>9, <3>1, <3>3 DEF TailDecides, T
    <3> QED BY <1>5, <3>1, <3>2, <3>4
  <2> QED BY <1>9, <2>2, <2>3
<1>15. TailCompleteUntilEviction'
  <2> SUFFICES ASSUME ring'.compactionSeq = 0, NEW k \in Key, latest'.state[k] # Absent
               PROVE  \E i \in 1 .. kept + 1 : U[i].key = k
    BY <1>9 DEF TailCompleteUntilEviction, LiveKeys, IsLive, Mentions, U
  <2>1. cut = 0 /\ ring.compactionSeq = 0
    <3>1. CASE cut = 1
      BY <1>2, <1>b, <1>10, <3>1
    <3> QED BY <1>b, <3>1
  <2>2. CASE k = ev.key
    <3>1. kept + 1 \in 1 .. kept + 1
      BY <1>9
    <3> QED BY <1>4, <1>9, <2>2, <3>1
  <2>3. CASE k # ev.key
    <3>1. latest.state[k] # Absent
      BY <1>5, <2>3
    <3>2. PICK i \in 1 .. Len(T) : T[i].key = k
      BY <1>1, <1>9, <2>1, <3>1 DEF TailCompleteUntilEviction, LiveKeys, IsLive, Mentions, T
    <3>3. i \in 1 .. kept /\ i + cut = i /\ i \in 1 .. kept + 1
      BY <1>9, <2>1
    <3>4. U[i] = T[i]
      BY <1>9, <3>3
    <3> QED BY <3>2, <3>3, <3>4
  <2> QED BY <2>2, <2>3
<1> QED BY <1>6, <1>7, <1>12, <1>13, <1>14, <1>15 DEF StoreInv

(* So does a sequence id that is given to no event.                        *)
LEMMA IncrementPreserves == StoreInv /\ IncrementSequenceId => StoreInv'
<1> SUFFICES ASSUME StoreInv, IncrementSequenceId PROVE StoreInv'
  OBVIOUS
<1>1. /\ UNCHANGED << latest, ring >>
      /\ sequenceNumber' = sequenceNumber + 1
      /\ sequenceNumber \in Nat
      /\ ring.compactionSeq \in Nat
      /\ ring.compactionSeq <= sequenceNumber
  BY DEF IncrementSequenceId, StoreInv, StoreTypeOK, RingOK, BoundaryBelowCounter
<1>2. HistoryTail' = HistoryTail
  BY <1>1 DEF HistoryTail
<1>3. /\ StoreTypeOK'
      /\ BoundaryBelowCounter'
      /\ OrderInv'
      /\ TailDecides'
      /\ TailCompleteUntilEviction'
  BY <1>1, <1>2
     DEF StoreInv, StoreTypeOK, BoundaryBelowCounter, OrderInv, TailDecides,
         TailCompleteUntilEviction
<1>4. TailOrdered'
  <2>1. HistoryTail \in Seq(Entry)
    BY SnapshotEntries DEF StoreInv, StoreTypeOK, HistoryTail
  <2>2. \A i \in DOMAIN HistoryTail : HistoryTail[i].seq \in Nat
    <3>1. \A x \in Entry : x.seq \in Nat
      BY DEF Entry
    <3>2. \A i \in DOMAIN HistoryTail : HistoryTail[i] \in Entry
      BY <2>1, LenProperties, ElementOfSeq
    <3> QED BY <3>1, <3>2
  <2> QED BY <1>1, <1>2, <2>2 DEF StoreInv, TailOrdered
<1> QED BY <1>3, <1>4 DEF StoreInv

(* And so does a step of others.                                           *)
LEMMA StutterPreserves == StoreInv /\ UNCHANGED storeVars => StoreInv'
<1> SUFFICES ASSUME StoreInv, UNCHANGED storeVars PROVE StoreInv'
  OBVIOUS
<1>1. latest' = latest /\ ring' = ring /\ sequenceNumber' = sequenceNumber
  BY DEF storeVars
<1>2. HistoryTail' = HistoryTail
  BY <1>1 DEF HistoryTail
<1> QED BY <1>1, <1>2
        DEF StoreInv, StoreTypeOK, BoundaryBelowCounter, OrderInv, TailOrdered,
            TailDecides, TailCompleteUntilEviction

(***************************************************************************)
(* The invariant holds in every reachable state.                           *)
(***************************************************************************)
THEOREM StoreInvariant == StoreSpec => []StoreInv
<1>1. StoreInit => StoreInv
  BY StoreInitInv
<1>2. StoreInv /\ [StoreNext]_storeVars => StoreInv'
  <2>1. ASSUME StoreInv, NEW ev \in Event, Record(ev) PROVE StoreInv'
    BY <2>1, RecordPreserves
  <2>2. StoreInv /\ IncrementSequenceId => StoreInv'
    BY IncrementPreserves
  <2>3. StoreInv /\ UNCHANGED storeVars => StoreInv'
    BY StutterPreserves
  <2> QED BY <2>1, <2>2, <2>3 DEF StoreNext
<1> QED BY <1>1, <1>2, PTL DEF StoreSpec

(***************************************************************************)
(* The store and the ring keep their shape: the slots the ring reads hold  *)
(* entries, and its indices stay in range (internal/events,                *)
(* history_ring.go).                                                       *)
(***************************************************************************)
THEOREM StoreTypeCorrect == StoreSpec => []StoreTypeOK
<1>1. StoreInv => StoreTypeOK
  BY DEF StoreInv
<1> QED BY <1>1, StoreInvariant, PTL

(***************************************************************************)
(* The order of the latest-state store lists each live resource exactly    *)
(* once, whatever creates, updates and deletes are recorded                *)
(* (latest_state.go).                                                      *)
(***************************************************************************)
THEOREM OrderCorrect == StoreSpec => []OrderInv
<1>1. StoreInv => OrderInv
  BY DEF StoreInv
<1> QED BY <1>1, StoreInvariant, PTL

(***************************************************************************)
(* The last entry of the tail about a resource is what the latest-state    *)
(* store holds for it, and nothing live is missing from the tail before    *)
(* the first eviction: the two facts that let QueryEvents (manager.go)     *)
(* synthesize only what the tail is silent about, and nothing before the   *)
(* first eviction.                                                         *)
(***************************************************************************)
THEOREM TailCorrect == StoreSpec => [](TailDecides /\ TailCompleteUntilEviction)
<1>1. StoreInv => TailDecides /\ TailCompleteUntilEviction
  BY DEF StoreInv
<1> QED BY <1>1, StoreInvariant, PTL

(***************************************************************************)
(* Sequence ids rise along the tail, above the boundary and up to the      *)
(* counter, so that one of them can serve as a cursor (manager.go,         *)
(* QueryEvents).                                                           *)
(***************************************************************************)
THEOREM TailOrderCorrect == StoreSpec => []TailOrdered
<1>1. StoreInv => TailOrdered
  BY DEF StoreInv
<1> QED BY <1>1, StoreInvariant, PTL

-----------------------------------------------------------------------------
(***************************************************************************)
(* The ring implements the bounded log.                                    *)
(***************************************************************************)
LEMMA RecordPushes ==
  ASSUME StoreTypeOK, NEW ev \in Event, Record(ev)
  PROVE  Log!LogNext
<1> DEFINE e == Stored(sequenceNumber + 1, ev)
<1>1. /\ RingOK(ring)
      /\ sequenceNumber \in Nat
      /\ sequenceNumber < MaxSeq
      /\ ring' = RingAdd(ring, e)
  BY DEF StoreTypeOK, Record, NextStored
<1>2. e \in Entry
  BY <1>1, StoredIsEntry
<1>3. e \in RecordedEntry
  BY <1>1, MaxSeqAssumption DEF RecordedEntry
<1>4. HistoryTail' = RingSnapshot(RingAdd(ring, e))
  BY <1>1 DEF HistoryTail
<1>5. /\ Len(HistoryTail) < Limit =>
           /\ HistoryTail' = Append(HistoryTail, e)
           /\ ring'.compactionSeq = ring.compactionSeq
      /\ ~ (Len(HistoryTail) < Limit) =>
           /\ HistoryTail' = Append(Tail(HistoryTail), e)
           /\ ring'.compactionSeq = Head(HistoryTail).seq
  BY <1>1, <1>2, <1>4, RingAddAppends DEF HistoryTail
<1> HIDE DEF e
<1>6. Log!Push(e)
  BY <1>5 DEF Log!Push
<1> QED BY <1>3, <1>6 DEF Log!LogNext

(***************************************************************************)
(* Behind the modular indices of historyRing (history_ring.go) is a log of *)
(* the Limit most recent entries, in order, and the boundary is the        *)
(* sequence id of the newest entry that fell out.                          *)
(***************************************************************************)
THEOREM RingIsBoundedLog == StoreSpec => LogRefinement
<1>1. StoreInit => Log!LogInit
  <2> SUFFICES ASSUME StoreInit PROVE Log!LogInit
    OBVIOUS
  <2>1. RingOK(ring) /\ ring.size = 0 /\ ring.compactionSeq = 0
    BY StoreInitInv DEF StoreInit, StoreInv, StoreTypeOK, NewRing
  <2>2. HistoryTail \in Seq(Entry) /\ Len(HistoryTail) = 0
    BY <2>1, SnapshotEntries DEF HistoryTail
  <2> QED BY <2>1, <2>2, EmptySeq DEF Log!LogInit
<1>2. StoreInv /\ [StoreNext]_storeVars => [Log!LogNext]_Log!logVars
  <2> SUFFICES ASSUME StoreInv, [StoreNext]_storeVars
               PROVE  [Log!LogNext]_Log!logVars
    OBVIOUS
  <2>1. CASE \E ev \in Event : Record(ev)
    BY <2>1, RecordPushes DEF StoreInv
  <2>2. CASE IncrementSequenceId
    BY <2>2 DEF IncrementSequenceId, Log!logVars, HistoryTail
  <2>3. CASE UNCHANGED storeVars
    BY <2>3 DEF storeVars, Log!logVars, HistoryTail
  <2> QED BY <2>1, <2>2, <2>3 DEF StoreNext
<1> QED BY <1>1, <1>2, StoreInvariant, PTL DEF StoreSpec, LogRefinement, Log!LogSpec

-----------------------------------------------------------------------------
(***************************************************************************)
(* What QueryEvents answers.                                               *)
(***************************************************************************)
Operations == /\ \A e \in Entry : e.op \in Operation
              /\ \A e \in Entry : e.seq \in Nat /\ e.key \in Key

(* Every entry has an operation, a sequence id and a resource.             *)
LEMMA EntryFields == Operations
BY DEF Operations, Entry, Operation

(* A prefix has the first elements.                                        *)
LEMMA PrefixFacts ==
  ASSUME NEW S, NEW s \in Seq(S), NEW n \in Nat
  PROVE  /\ Prefix(s, n) \in Seq(S)
         /\ Len(Prefix(s, n)) = IF n < Len(s) THEN n ELSE Len(s)
         /\ \A i \in 1 .. Len(Prefix(s, n)) : Prefix(s, n)[i] = s[i]
<1> DEFINE m == IF n < Len(s) THEN n ELSE Len(s)
<1>1. m \in 0 .. Len(s) /\ Len(s) \in Nat
  OBVIOUS
<1>2. Prefix(s, n) = SubSeq(s, 1, m)
  BY DEF Prefix
<1> HIDE DEF m
<1>3. \A i \in 1 .. m : s[i] \in S
  BY <1>1
<1>4. /\ SubSeq(s, 1, m) \in Seq(S)
      /\ Len(SubSeq(s, 1, m)) = IF 1 <= m THEN m - 1 + 1 ELSE 0
      /\ \A i \in 1 .. m - 1 + 1 : SubSeq(s, 1, m)[i] = s[1 + i - 1]
  BY <1>1, <1>3, SubSeqProperties
<1>5. m - 1 + 1 = m /\ \A i \in 1 .. m : 1 + i - 1 = i
  BY <1>1
<1>6. Len(SubSeq(s, 1, m)) = m
  BY <1>1, <1>4, <1>5
<1>7. \A i \in 1 .. m : SubSeq(s, 1, m)[i] = s[i]
  BY <1>4, <1>5
<1> QED BY <1>2, <1>4, <1>6, <1>7 DEF m

(***************************************************************************)
(* s is synthesized from the resources of the order at the positions at.   *)
(***************************************************************************)
Synthesizes(s, at) ==
  /\ at \in [1 .. Len(s) -> 1 .. Len(latest.order)]
  /\ \A i, j \in 1 .. Len(s) : i < j => at[i] < at[j]
  /\ \A i \in 1 .. Len(s) :
       /\ s[i] = [seq |-> ring.compactionSeq, op |-> "Create", key |-> latest.order[at[i]],
                  val |-> latest.state[latest.order[at[i]]]]
       /\ ~ Mentions(HistoryTail, latest.order[at[i]])
  /\ \A j \in 1 .. Len(latest.order) :
       ~ Mentions(HistoryTail, latest.order[j]) => \E i \in 1 .. Len(s) : at[i] = j

(* A query past the boundary is answered from the order.                   *)
LEMMA SyntheticFacts ==
  ASSUME StoreInv, NEW since \in Nat, since < ring.compactionSeq
  PROVE  /\ Synthetic(since) \in Seq(Entry)
         /\ \E at : Synthesizes(Synthetic(since), at)
<1> DEFINE order   == latest.order
           live    == GetEvents(latest)
           I       == {i \in DOMAIN live : ~ Mentions(HistoryTail, live[i].key)}
           missing == Selected(live, I)
           s       == [i \in DOMAIN missing |-> Stored(ring.compactionSeq, missing[i])]
<1>1. /\ order \in Seq(Key)
      /\ latest.state \in [Key -> Value \cup {Absent}]
      /\ \A i \in 1 .. Len(order) : latest.state[order[i]] # Absent
      /\ ring.compactionSeq \in Nat
  BY DEF StoreInv, StoreTypeOK, LatestStores, OrderInv, OrderListsLive, IsLive, RingOK
<1>2. /\ Len(order) \in Nat
      /\ \A i \in 1 .. Len(order) : order[i] \in Key /\ latest.state[order[i]] \in Value
  BY <1>1
<1>3. /\ live \in Seq(Event)
      /\ Len(live) = Len(order)
      /\ \A i \in 1 .. Len(order) :
           live[i] = [op |-> "Create", key |-> order[i], val |-> latest.state[order[i]]]
      /\ DOMAIN live = 1 .. Len(order)
  <2>1. live = [i \in 1 .. Len(order) |->
                  [op |-> "Create", key |-> order[i], val |-> latest.state[order[i]]]]
    BY <1>1 DEF GetEvents
  <2>2. \A i \in 1 .. Len(order) :
          [op |-> "Create", key |-> order[i], val |-> latest.state[order[i]]] \in Event
    BY <1>2 DEF Event
  <2> HIDE DEF live
  <2>3. live \in [1 .. Len(order) -> Event]
    BY <2>1, <2>2
  <2>4. live \in Seq(Event) /\ DOMAIN live = 1 .. Len(order) /\ Len(live) = Len(order)
    BY <1>2, <2>3
  <2>5. \A i \in 1 .. Len(order) :
          live[i] = [op |-> "Create", key |-> order[i], val |-> latest.state[order[i]]]
    BY <2>1
  <2> QED BY <2>4, <2>5
<1>4. Synthetic(since) = s
  BY DEF Synthetic, ReachesPastBoundary
<1> HIDE DEF live
<1>5. \A i \in 1 .. Len(order) : i \in I <=> ~ Mentions(HistoryTail, order[i])
  <2> SUFFICES ASSUME NEW i \in 1 .. Len(order)
               PROVE  i \in I <=> ~ Mentions(HistoryTail, order[i])
    OBVIOUS
  <2>1. live[i].key = order[i] /\ i \in DOMAIN live
    <3>1. i \in DOMAIN live
      BY <1>3
    <3>2. live[i] = [op |-> "Create", key |-> order[i], val |-> latest.state[order[i]]]
      BY <1>3
    <3> QED BY <3>1, <3>2
  <2>2. i \in I <=> ~ Mentions(HistoryTail, live[i].key)
    BY <2>1
  <2> QED BY <2>1, <2>2
<1> HIDE DEF I
<1>6. missing \in Seq(Event) /\ \E at : Picks(missing, at, live, I, Len(live))
  BY <1>3, SelectedPicks
<1>7. PICK at : Picks(missing, at, live, I, Len(live))
  BY <1>6
<1> HIDE DEF missing
<1>8. /\ Len(missing) \in Nat
      /\ \A i \in 1 .. Len(missing) : missing[i] \in Event
      /\ DOMAIN missing = 1 .. Len(missing)
  BY <1>6
<1>9. s \in Seq(Entry) /\ Len(s) = Len(missing)
  <2>1. \A i \in 1 .. Len(missing) : Stored(ring.compactionSeq, missing[i]) \in Entry
    BY <1>1, <1>8, StoredIsEntry
  <2>2. s = [i \in 1 .. Len(missing) |-> Stored(ring.compactionSeq, missing[i])]
    BY <1>8
  <2> QED BY <1>8, <2>1, <2>2
<1>10. /\ at \in [1 .. Len(missing) -> 1 .. Len(order)]
       /\ \A i \in 1 .. Len(missing) : at[i] \in I /\ missing[i] = live[at[i]]
       /\ \A i, j \in 1 .. Len(missing) : i < j => at[i] < at[j]
       /\ \A j \in 1 .. Len(order) : j \in I => \E i \in 1 .. Len(missing) : at[i] = j
  BY <1>3, <1>7 DEF Picks
<1>11. ASSUME NEW i \in 1 .. Len(missing)
       PROVE  /\ s[i] = [seq |-> ring.compactionSeq, op |-> "Create", key |-> order[at[i]],
                         val |-> latest.state[order[at[i]]]]
              /\ ~ Mentions(HistoryTail, order[at[i]])
  <2>1. at[i] \in 1 .. Len(order) /\ s[i] = Stored(ring.compactionSeq, live[at[i]])
    BY <1>8, <1>10
  <2>2. live[at[i]] = [op |-> "Create", key |-> order[at[i]], val |-> latest.state[order[at[i]]]]
    BY <1>3, <2>1
  <2> QED BY <1>5, <1>10, <2>1, <2>2 DEF Stored
<1> HIDE DEF s
<1>12. Synthesizes(s, at)
  BY <1>5, <1>9, <1>10, <1>11 DEF Synthesizes
<1> QED BY <1>4, <1>9, <1>12

(* Matching selects by sequence id and resource.                           *)
LEMMA MatchingFacts ==
  ASSUME NEW s \in Seq(Entry), NEW since \in Nat, NEW keys
  PROVE  LET m == Matching(s, since, Operation, keys)
             I == {i \in DOMAIN s : s[i].seq > since /\ s[i].key \in keys}
         IN  m \in Seq(Entry) /\ \E pos : Picks(m, pos, s, I, Len(s))
<1> DEFINE I == {i \in DOMAIN s : s[i].seq > since /\ s[i].key \in keys}
<1>1. \A i \in DOMAIN s : s[i].op \in Operation
  BY EntryFields DEF Operations
<1>2. Matching(s, since, Operation, keys) = Selected(s, I)
  <2>1. I = {i \in DOMAIN s : After(s[i], since) /\ s[i].op \in Operation /\ s[i].key \in keys}
    BY <1>1 DEF After
  <2> QED BY <2>1 DEF Matching
<1> HIDE DEF I
<1>3. Selected(s, I) \in Seq(Entry) /\ \E pos : Picks(Selected(s, I), pos, s, I, Len(s))
  BY SelectedPicks
<1> QED BY <1>2, <1>3 DEF I

(***************************************************************************)
(* The synthesized part of an answer: at the boundary, a Create of live    *)
(* resources that the tail is silent about; all of them that are asked     *)
(* for, if the query reaches past the boundary, and else none.             *)
(***************************************************************************)
SynthesizedPart(s, since, keys) ==
  /\ s \in Seq(Entry)
  /\ Len(s) > 0 => since < ring.compactionSeq
  /\ Len(s) <= Len(latest.order)
  /\ \A i \in 1 .. Len(s) :
       /\ s[i].seq = ring.compactionSeq
       /\ s[i].key \in keys
       /\ IsLive(latest, s[i].key)
       /\ Effect(s[i]) = latest.state[s[i].key]
       /\ ~ Mentions(HistoryTail, s[i].key)
  /\ since < ring.compactionSeq =>
       \A k \in LiveKeys(latest) :
         k \in keys /\ ~ Mentions(HistoryTail, k) => \E i \in 1 .. Len(s) : s[i].key = k

(* That is what the filter leaves of the synthesized events.               *)
LEMMA SynthesizedFacts ==
  ASSUME StoreInv, NEW since \in Nat, NEW keys
  PROVE  SynthesizedPart(Matching(Synthetic(since), since, Operation, keys), since, keys)
<1> DEFINE all == Synthetic(since)
           s   == Matching(all, since, Operation, keys)
           I   == {i \in DOMAIN all : all[i].seq > since /\ all[i].key \in keys}
<1>0. /\ latest.order \in Seq(Key) /\ Len(latest.order) \in Nat
      /\ ring.compactionSeq \in Nat
      /\ \A i \in 1 .. Len(latest.order) : IsLive(latest, latest.order[i])
      /\ \A k \in LiveKeys(latest) : \E i \in 1 .. Len(latest.order) : latest.order[i] = k
  BY DEF StoreInv, StoreTypeOK, LatestStores, OrderInv, OrderListsLive, RingOK
<1>1. CASE ~ (since < ring.compactionSeq)
  <2>1. all = << >>
    BY <1>1 DEF Synthetic, ReachesPastBoundary
  <2>2. all \in Seq(Entry) /\ Len(all) = 0
    BY <2>1
  <2> HIDE DEF all
  <2>3. s \in Seq(Entry) /\ \E pos : Picks(s, pos, all, I, Len(all))
    BY <2>2, MatchingFacts
  <2> HIDE DEF s, I
  <2>4. PICK pos : Picks(s, pos, all, I, 0)
    BY <2>2, <2>3
  <2>5. Len(s) \in Nat /\ pos \in [1 .. Len(s) -> 1 .. 0]
    BY <2>3, <2>4 DEF Picks
  <2>6. Len(s) = 0
    <3>1. ~ (1 \in 1 .. Len(s))
      BY <2>5
    <3> QED BY <2>5, <3>1
  <2>7. SynthesizedPart(s, since, keys)
    BY <1>0, <1>1, <2>3, <2>6 DEF SynthesizedPart
  <2> QED BY <2>7 DEF s, all
<1>2. CASE since < ring.compactionSeq
  <2>1. all \in Seq(Entry) /\ \E at : Synthesizes(all, at)
    BY <1>2, SyntheticFacts
  <2> HIDE DEF all
  <2>2. PICK at : Synthesizes(all, at)
    BY <2>1
  <2>3. s \in Seq(Entry) /\ \E pos : Picks(s, pos, all, I, Len(all))
    BY <2>1, MatchingFacts
  <2> HIDE DEF s
  <2>4. PICK pos : Picks(s, pos, all, I, Len(all))
    BY <2>3
  <2>5. /\ Len(s) \in Nat /\ Len(all) \in Nat /\ DOMAIN all = 1 .. Len(all)
        /\ at \in [1 .. Len(all) -> 1 .. Len(latest.order)]
        /\ \A i, j \in 1 .. Len(all) : i < j => at[i] < at[j]
        /\ pos \in [1 .. Len(s) -> 1 .. Len(all)]
        /\ \A i, j \in 1 .. Len(s) : i < j => pos[i] < pos[j]
    BY <2>1, <2>2, <2>3, <2>4 DEF Synthesizes, Picks
  <2>6. Len(s) <= Len(latest.order)
    <3>1. Rising(pos, Len(s), Len(all)) /\ Rising(at, Len(all), Len(latest.order))
      BY <2>5 DEF Rising
    <3>2. Len(s) <= Len(all) /\ Len(all) <= Len(latest.order)
      BY <1>0, <2>5, <3>1, RisingPositions
    <3> QED BY <1>0, <2>5, <3>2
  <2>7. \A i \in 1 .. Len(all) :
          /\ all[i] = [seq |-> ring.compactionSeq, op |-> "Create", key |-> latest.order[at[i]],
                       val |-> latest.state[latest.order[at[i]]]]
          /\ ~ Mentions(HistoryTail, latest.order[at[i]])
    BY <2>2 DEF Synthesizes
  <2>8. \A j \in 1 .. Len(s) : pos[j] \in I /\ s[j] = all[pos[j]]
    BY <2>4 DEF Picks
  <2>9. ASSUME NEW i \in 1 .. Len(s)
        PROVE  /\ s[i].seq = ring.compactionSeq
               /\ s[i].key \in keys
               /\ IsLive(latest, s[i].key)
               /\ Effect(s[i]) = latest.state[s[i].key]
               /\ ~ Mentions(HistoryTail, s[i].key)
    <3>1. pos[i] \in 1 .. Len(all) /\ s[i] = all[pos[i]] /\ all[pos[i]].key \in keys
      BY <2>5, <2>8
    <3>2. at[pos[i]] \in 1 .. Len(latest.order)
      BY <2>5, <3>1
    <3>3. s[i] = [seq |-> ring.compactionSeq, op |-> "Create",
                  key |-> latest.order[at[pos[i]]],
                  val |-> latest.state[latest.order[at[pos[i]]]]]
          /\ ~ Mentions(HistoryTail, latest.order[at[pos[i]]])
      BY <2>7, <3>1
    <3> QED BY <1>0, <3>1, <3>2, <3>3 DEF Effect
  <2>10. ASSUME NEW k \in LiveKeys(latest), k \in keys, ~ Mentions(HistoryTail, k)
         PROVE  \E i \in 1 .. Len(s) : s[i].key = k
    <3>1. PICK j \in 1 .. Len(latest.order) : latest.order[j] = k
      BY <1>0
    <3>2. PICK i \in 1 .. Len(all) : at[i] = j
      BY <2>2, <2>10, <3>1 DEF Synthesizes
    <3>3. all[i].key = k /\ all[i].seq = ring.compactionSeq
      <4>1. all[i] = [seq |-> ring.compactionSeq, op |-> "Create", key |-> latest.order[at[i]],
                      val |-> latest.state[latest.order[at[i]]]]
        BY <2>7
      <4>2. latest.order[at[i]] = k
        BY <3>1, <3>2
      <4> QED BY <4>1, <4>2
    <3>4. i \in I
      BY <1>2, <2>5, <2>10, <3>3
    <3>5. PICK n \in 1 .. Len(s) : pos[n] = i
      BY <2>4, <3>4 DEF Picks
    <3>6. s[n].key = k
      BY <2>8, <3>3, <3>5
    <3> QED BY <3>6
  <2>11. SynthesizedPart(s, since, keys)
    BY <1>2, <2>3, <2>6, <2>9, <2>10 DEF SynthesizedPart
  <2> QED BY <2>11 DEF s, all
<1> QED BY <1>1, <1>2

(***************************************************************************)
(* The answer: a synthesized part s, then the entries of the tail at pos,  *)
(* which are those after the cursor about the resources asked for, from    *)
(* the oldest; only once the limit is reached, and at least one was        *)
(* returned, are the newest of them left out.                              *)
(***************************************************************************)
TailPart(page, s, pos, r, since, limit, keys) ==
  /\ page \in Seq(Entry)
  /\ r \in Nat
  /\ Len(page) = Len(s) + r
  /\ \A i \in 1 .. Len(s) : page[i] = s[i]
  /\ pos \in [1 .. r -> 1 .. Len(HistoryTail)]
  /\ \A i, j \in 1 .. r : i < j => pos[i] < pos[j]
  /\ \A j \in 1 .. r :
       /\ page[Len(s) + j] = HistoryTail[pos[j]]
       /\ HistoryTail[pos[j]].seq > since
       /\ HistoryTail[pos[j]].key \in keys
  /\ \A i \in 1 .. Len(HistoryTail) :
       HistoryTail[i].seq > since /\ HistoryTail[i].key \in keys =>
         \/ \E j \in 1 .. r : pos[j] = i
         \/ /\ r > 0
            /\ limit <= Len(page)
            /\ \A j \in 1 .. r : pos[j] < i

(* Some synthesized part and some entries of the tail.                     *)
Answers(page, since, limit, keys) ==
  \E s, pos, r : SynthesizedPart(s, since, keys) /\ TailPart(page, s, pos, r, since, limit, keys)

(* QueryEvents answers so.                                                 *)
LEMMA QueryAnswers ==
  ASSUME StoreInv, NEW since \in Nat, NEW limit \in Nat \ {0}, NEW keys
  PROVE  Answers(QueryEvents(since, limit, Operation, keys), since, limit, keys)
<1> DEFINE T == HistoryTail
           I == {i \in DOMAIN T : T[i].seq > since /\ T[i].key \in keys}
           s == Matching(Synthetic(since), since, Operation, keys)
           q == Matching(T, since, Operation, keys)
           m == IF Len(s) < limit THEN limit - Len(s) ELSE 1
           c == Prefix(q, m)
           page == QueryEvents(since, limit, Operation, keys)
<1>1. T \in Seq(Entry) /\ Len(T) \in Nat /\ DOMAIN T = 1 .. Len(T)
  BY SnapshotEntries DEF StoreInv, StoreTypeOK, HistoryTail
<1>2. SynthesizedPart(s, since, keys)
  BY SynthesizedFacts
<1>3. page = s \o c
  BY DEF QueryEvents, Answer
<1> HIDE DEF s, page
<1>4. q \in Seq(Entry) /\ \E pos : Picks(q, pos, T, I, Len(T))
  BY <1>1, MatchingFacts
<1> HIDE DEF q, T
<1>5. PICK all : Picks(q, all, T, I, Len(T))
  BY <1>4
<1>6. s \in Seq(Entry) /\ Len(s) \in Nat /\ m \in Nat /\ m > 0 /\ limit <= Len(s) + m
  BY <1>2 DEF SynthesizedPart
<1> HIDE DEF m
<1>7. /\ c \in Seq(Entry)
      /\ Len(c) = IF m < Len(q) THEN m ELSE Len(q)
      /\ \A i \in 1 .. Len(c) : c[i] = q[i]
  BY <1>4, <1>6, PrefixFacts
<1> HIDE DEF c
<1> DEFINE r   == Len(c)
           pos == [j \in 1 .. r |-> all[j]]
<1>8. Len(q) \in Nat /\ r \in Nat /\ r <= Len(q) /\ \A j \in 1 .. r : j \in 1 .. Len(q)
  BY <1>4, <1>6, <1>7
<1>9. /\ all \in [1 .. Len(q) -> 1 .. Len(T)]
      /\ \A j \in 1 .. Len(q) : all[j] \in I /\ q[j] = T[all[j]]
      /\ \A i, j \in 1 .. Len(q) : i < j => all[i] < all[j]
      /\ \A i \in 1 .. Len(T) : i \in I => \E j \in 1 .. Len(q) : all[j] = i
  BY <1>5 DEF Picks
<1>10. /\ page \in Seq(Entry)
       /\ Len(page) = Len(s) + r
       /\ \A i \in 1 .. Len(s) : page[i] = s[i]
       /\ \A j \in 1 .. r : page[Len(s) + j] = c[j]
  <2>1. /\ s \o c \in Seq(Entry)
        /\ Len(s \o c) = Len(s) + Len(c)
        /\ \A i \in 1 .. Len(s) + Len(c) :
             (s \o c)[i] = IF i <= Len(s) THEN s[i] ELSE c[i - Len(s)]
    BY <1>6, <1>7, ConcatProperties
  <2>2. \A i \in 1 .. Len(s) : i \in 1 .. Len(s) + Len(c) /\ i <= Len(s)
    BY <1>6, <1>8
  <2>3. \A j \in 1 .. r : /\ Len(s) + j \in 1 .. Len(s) + Len(c)
                          /\ ~ (Len(s) + j <= Len(s))
                          /\ (Len(s) + j) - Len(s) = j
    BY <1>6, <1>8
  <2> QED BY <1>3, <2>1, <2>2, <2>3
<1>11. /\ pos \in [1 .. r -> 1 .. Len(T)]
       /\ \A j \in 1 .. r : pos[j] = all[j]
  BY <1>8, <1>9
<1> HIDE DEF pos, r
<1>12. \A i, j \in 1 .. r : i < j => pos[i] < pos[j]
  BY <1>8, <1>9, <1>11
<1>13. ASSUME NEW j \in 1 .. r
       PROVE  page[Len(s) + j] = T[pos[j]] /\ T[pos[j]].seq > since /\ T[pos[j]].key \in keys
  <2>1. j \in 1 .. Len(q) /\ pos[j] = all[j] /\ c[j] = q[j]
    BY <1>7, <1>8, <1>11 DEF r
  <2>2. all[j] \in I /\ q[j] = T[all[j]]
    BY <1>9, <2>1
  <2> QED BY <1>10, <2>1, <2>2
<1>14. ASSUME NEW i \in 1 .. Len(T), T[i].seq > since, T[i].key \in keys,
              ~ \E j \in 1 .. r : pos[j] = i
       PROVE  r > 0 /\ limit <= Len(page) /\ \A j \in 1 .. r : pos[j] < i
  <2>1. i \in I
    BY <1>1, <1>14
  <2>2. PICK n \in 1 .. Len(q) : all[n] = i
    BY <1>9, <2>1
  <2>3. ~ (n \in 1 .. r)
    BY <1>11, <1>14, <2>2
  <2>4. n > r /\ r < Len(q)
    BY <1>8, <2>2, <2>3
  <2>5. r = m
    BY <1>6, <1>7, <1>8, <2>4 DEF r
  <2>6. ASSUME NEW j \in 1 .. r PROVE pos[j] < i
    <3>1. j \in 1 .. Len(q) /\ j < n
      BY <1>8, <2>4
    <3> QED BY <1>9, <1>11, <2>2, <3>1
  <2> QED BY <1>6, <1>10, <2>5, <2>6
<1>15. TailPart(page, s, pos, r, since, limit, keys)
  BY <1>8, <1>10, <1>11, <1>12, <1>13, <1>14 DEF TailPart, T
<1>16. Answers(page, since, limit, keys)
  BY <1>2, <1>15 DEF Answers
<1> QED BY <1>16 DEF page

-----------------------------------------------------------------------------
(***************************************************************************)
(* What an answer says of one resource.                                    *)
(***************************************************************************)
LEMMA AnswerIsAboutResources ==
  ASSUME NEW page \in Seq(Entry)
  PROVE  AboutResources(page)
<1>1. \A e \in Entry : e.key \in Key /\ Effect(e) \in Value \cup {Absent}
  BY DEF Entry, Effect
<1>2. \A i \in DOMAIN page : page[i] \in Entry
  OBVIOUS
<1> QED BY <1>1, <1>2 DEF AboutResources

(* Where an element of an answer comes from.                               *)
LEMMA AnswerElements ==
  ASSUME NEW page, NEW s, NEW pos, NEW r, NEW since, NEW limit, NEW keys,
         SynthesizedPart(s, since, keys), TailPart(page, s, pos, r, since, limit, keys)
  PROVE  /\ Len(s) \in Nat /\ r \in Nat /\ Len(page) = Len(s) + r
         /\ DOMAIN page = 1 .. Len(s) + r
         /\ \A i \in DOMAIN page :
              i \in 1 .. Len(s) \/ (i - Len(s) \in 1 .. r /\ Len(s) + (i - Len(s)) = i)
<1>1. /\ Len(s) \in Nat /\ r \in Nat /\ Len(page) = Len(s) + r
      /\ DOMAIN page = 1 .. Len(s) + r
  <2>1. s \in Seq(Entry) /\ page \in Seq(Entry) /\ r \in Nat /\ Len(page) = Len(s) + r
    BY DEF SynthesizedPart, TailPart
  <2>2. Len(s) \in Nat /\ DOMAIN page = 1 .. Len(page)
    BY <2>1
  <2> QED BY <2>1, <2>2
<1> QED BY <1>1

(* A resource that the tail is silent about is on the page if it is live   *)
(* and the query, which asks for it, reaches past the boundary; the page   *)
(* then says what it is.                                                   *)
LEMMA SilentOnAnswer ==
  ASSUME NEW page, NEW s, NEW pos, NEW r, NEW since, NEW limit, NEW keys,
         SynthesizedPart(s, since, keys), TailPart(page, s, pos, r, since, limit, keys),
         HistoryTail \in Seq(Entry),
         NEW k \in Key, ~ Mentions(HistoryTail, k)
  PROVE  /\ Mentions(page, k) => IsLive(latest, k) /\ k \in keys /\ since < ring.compactionSeq
         /\ IsLive(latest, k) /\ k \in keys /\ since < ring.compactionSeq => Mentions(page, k)
         /\ \A i \in DOMAIN page : LastAbout(page, k, i) => Effect(page[i]) = latest.state[k]
<1>1. /\ Len(s) \in Nat /\ r \in Nat /\ DOMAIN page = 1 .. Len(s) + r
      /\ \A i \in DOMAIN page :
           i \in 1 .. Len(s) \/ (i - Len(s) \in 1 .. r /\ Len(s) + (i - Len(s)) = i)
  BY AnswerElements
<1>2. /\ \A i \in 1 .. Len(s) : page[i] = s[i]
      /\ \A j \in 1 .. r : /\ page[Len(s) + j] = HistoryTail[pos[j]]
                           /\ pos[j] \in 1 .. Len(HistoryTail)
  BY DEF TailPart
<1>3. \A j \in 1 .. r : page[Len(s) + j].key # k
  <2>1. DOMAIN HistoryTail = 1 .. Len(HistoryTail)
    OBVIOUS
  <2> QED BY <1>2, <2>1 DEF Mentions
<1>4. ASSUME NEW i \in DOMAIN page, page[i].key = k
      PROVE  i \in 1 .. Len(s) /\ page[i] = s[i]
  BY <1>1, <1>2, <1>3, <1>4
<1>5. ASSUME NEW i \in DOMAIN page, page[i].key = k
      PROVE  /\ IsLive(latest, k) /\ k \in keys /\ since < ring.compactionSeq
             /\ Effect(page[i]) = latest.state[k]
  <2>1. i \in 1 .. Len(s) /\ page[i] = s[i] /\ s[i].key = k
    BY <1>4, <1>5
  <2>2. Len(s) > 0
    BY <1>1, <2>1
  <2> QED BY <2>1, <2>2 DEF SynthesizedPart
<1>6. ASSUME IsLive(latest, k), k \in keys, since < ring.compactionSeq
      PROVE  Mentions(page, k)
  <2>1. k \in LiveKeys(latest)
    BY <1>6 DEF LiveKeys
  <2>2. PICK i \in 1 .. Len(s) : s[i].key = k
    BY <1>6, <2>1 DEF SynthesizedPart
  <2>3. i \in DOMAIN page /\ page[i].key = k
    BY <1>1, <1>2, <2>2
  <2> QED BY <2>3 DEF Mentions
<1>7. Mentions(page, k) => IsLive(latest, k) /\ k \in keys /\ since < ring.compactionSeq
  BY <1>5 DEF Mentions
<1>8. \A i \in DOMAIN page : LastAbout(page, k, i) => Effect(page[i]) = latest.state[k]
  BY <1>5 DEF LastAbout
<1> QED BY <1>6, <1>7, <1>8

(* If the last entry of the tail about a resource is on the page, it is    *)
(* the last the page says of it.                                           *)
LEMMA LastOnAnswer ==
  ASSUME NEW page, NEW s, NEW pos, NEW r, NEW since, NEW limit, NEW keys,
         SynthesizedPart(s, since, keys), TailPart(page, s, pos, r, since, limit, keys),
         HistoryTail \in Seq(Entry),
         NEW k \in Key, NEW i \in DOMAIN HistoryTail, LastAbout(HistoryTail, k, i),
         NEW j \in 1 .. r, pos[j] = i
  PROVE  /\ Mentions(page, k)
         /\ \A n \in DOMAIN page : LastAbout(page, k, n) => Effect(page[n]) = Effect(HistoryTail[i])
<1>1. /\ Len(s) \in Nat /\ r \in Nat /\ DOMAIN page = 1 .. Len(s) + r
      /\ \A n \in DOMAIN page :
           n \in 1 .. Len(s) \/ (n - Len(s) \in 1 .. r /\ Len(s) + (n - Len(s)) = n)
  BY AnswerElements
<1>2. /\ \A n \in 1 .. r : /\ page[Len(s) + n] = HistoryTail[pos[n]]
                           /\ pos[n] \in 1 .. Len(HistoryTail)
      /\ \A m, n \in 1 .. r : m < n => pos[m] < pos[n]
  BY DEF TailPart
<1>3. DOMAIN HistoryTail = 1 .. Len(HistoryTail) /\ Len(HistoryTail) \in Nat
  OBVIOUS
<1>4. /\ HistoryTail[i].key = k
      /\ \A n \in 1 .. Len(HistoryTail) : n > i => HistoryTail[n].key # k
  BY <1>3 DEF LastAbout
<1>5. /\ Len(s) + j \in DOMAIN page
      /\ page[Len(s) + j] = HistoryTail[i]
  BY <1>1, <1>2
<1>6. Mentions(page, k)
  BY <1>4, <1>5 DEF Mentions
<1>7. ASSUME NEW n \in DOMAIN page, LastAbout(page, k, n)
      PROVE  Effect(page[n]) = Effect(HistoryTail[i])
  <2>1. page[n].key = k /\ \A m \in DOMAIN page : m > n => page[m].key # k
    BY <1>7 DEF LastAbout
  <2>2. ~ (Len(s) + j > n)
    BY <1>4, <1>5, <2>1
  <2>3. n - Len(s) \in 1 .. r /\ Len(s) + (n - Len(s)) = n /\ ~ (n - Len(s) < j)
    <3>1. n \in Nat /\ j \in Nat /\ j > 0
      BY <1>1
    <3>2. ~ (n \in 1 .. Len(s))
      BY <1>1, <2>2, <3>1
    <3> QED BY <1>1, <2>2, <3>1, <3>2
  <2> DEFINE m == n - Len(s)
  <2>4. page[n] = HistoryTail[pos[m]] /\ pos[m] \in 1 .. Len(HistoryTail)
    BY <1>2, <2>3
  <2>5. ~ (pos[m] > i)
    BY <1>4, <2>1, <2>4
  <2>6. CASE m = j
    BY <1>5, <2>3, <2>6
  <2>7. CASE m # j
    <3>1. j < m
      BY <2>3, <2>7
    <3>2. pos[j] < pos[m]
      BY <1>2, <2>3, <3>1
    <3> QED BY <1>3, <2>4, <2>5, <3>2
  <2> QED BY <2>6, <2>7
<1> QED BY <1>6, <1>7

(* An entry of the tail that comes after the cursor and no later than the  *)
(* last entry of the page is on the page, if a resource it is about was    *)
(* asked for.                                                              *)
LEMMA NothingSkipped ==
  ASSUME NEW page, NEW s, NEW pos, NEW r, NEW since, NEW limit, NEW keys,
         TailPart(page, s, pos, r, since, limit, keys),
         TailOrdered, HistoryTail \in Seq(Entry),
         NEW i \in 1 .. Len(HistoryTail),
         HistoryTail[i].seq > since, HistoryTail[i].key \in keys,
         r > 0 => HistoryTail[i].seq <= HistoryTail[pos[r]].seq
  PROVE  \E j \in 1 .. r : pos[j] = i
<1> SUFFICES ASSUME r > 0, \A j \in 1 .. r : pos[j] < i PROVE FALSE
  BY DEF TailPart
<1>1. r \in 1 .. r /\ pos[r] \in 1 .. Len(HistoryTail) /\ pos[r] < i
  BY DEF TailPart
<1>2. DOMAIN HistoryTail = 1 .. Len(HistoryTail)
  OBVIOUS
<1>3. HistoryTail[pos[r]].seq < HistoryTail[i].seq
  BY <1>1, <1>2 DEF TailOrdered
<1>4. HistoryTail[pos[r]].seq \in Nat /\ HistoryTail[i].seq \in Nat
  <2>1. HistoryTail[pos[r]] \in Entry /\ HistoryTail[i] \in Entry
    BY <1>1
  <2> QED BY <2>1, EntryFields DEF Operations
<1> QED BY <1>3, <1>4

(* Where a page ends: at the last entry it has of the tail, or, if it has  *)
(* none, at the boundary.                                                  *)
LEMMA AnswerEnds ==
  ASSUME NEW page, NEW s, NEW pos, NEW r, NEW since \in Nat, NEW limit, NEW keys,
         SynthesizedPart(s, since, keys), TailPart(page, s, pos, r, since, limit, keys),
         page # << >>
  PROVE  /\ Last(page).seq > since
         /\ r > 0 => /\ r \in 1 .. r /\ pos[r] \in 1 .. Len(HistoryTail)
                     /\ Last(page) = HistoryTail[pos[r]]
<1>1. /\ Len(s) \in Nat /\ r \in Nat /\ Len(page) = Len(s) + r
      /\ DOMAIN page = 1 .. Len(s) + r
  BY AnswerElements
<1>2. Last(page) = page[Len(s) + r] /\ Len(s) + r > 0
  <2>1. page \in Seq(Entry)
    BY DEF TailPart
  <2>2. Len(page) # 0
    BY <2>1
  <2> QED BY <1>1, <2>2 DEF Last
<1>3. CASE r > 0
  <2>1. r \in 1 .. r
    BY <1>1, <1>3
  <2>2. /\ page[Len(s) + r] = HistoryTail[pos[r]]
        /\ HistoryTail[pos[r]].seq > since
        /\ pos[r] \in 1 .. Len(HistoryTail)
    BY <2>1 DEF TailPart
  <2> QED BY <1>2, <2>1, <2>2
<1>4. CASE ~ (r > 0)
  <2>1. r = 0 /\ Len(s) \in 1 .. Len(s) /\ Len(s) + r = Len(s)
    BY <1>1, <1>2, <1>4
  <2>2. page[Len(s)] = s[Len(s)]
    BY <2>1 DEF TailPart
  <2>3. s[Len(s)].seq = ring.compactionSeq /\ since < ring.compactionSeq
    BY <1>1, <2>1 DEF SynthesizedPart
  <2>4. Last(page).seq = ring.compactionSeq
    BY <1>2, <2>1, <2>2, <2>3
  <2> QED BY <1>4, <2>3, <2>4
<1> QED BY <1>3, <1>4

(* A cut answer is as long as the limit; no answer is longer than the      *)
(* order and the ring together.                                            *)
LEMMA UnlimitedIsWhole ==
  ASSUME StoreInv, NEW page, NEW s, NEW pos, NEW r, NEW since, NEW keys,
         SynthesizedPart(s, since, keys), TailPart(page, s, pos, r, since, Unlimited, keys)
  PROVE  Len(page) < Unlimited
<1>1. Len(s) \in Nat /\ r \in Nat /\ Len(page) = Len(s) + r
  BY AnswerElements
<1>2. Len(HistoryTail) \in Nat /\ Len(HistoryTail) <= Limit /\ Limit \in Nat
  <2>1. RingOK(ring)
    BY DEF StoreInv, StoreTypeOK
  <2>2. Len(HistoryTail) = ring.size /\ ring.size \in 0 .. Limit
    BY <2>1, SnapshotEntries DEF HistoryTail, RingOK
  <2> QED BY <2>2, LimitAssumption
<1>3. Len(latest.order) \in Nat /\ Len(s) <= Len(latest.order)
  BY DEF StoreInv, StoreTypeOK, LatestStores, SynthesizedPart
<1>4. r <= Len(HistoryTail)
  <2>1. Rising(pos, r, Len(HistoryTail))
    BY DEF TailPart, Rising
  <2> QED BY <1>1, <1>2, <2>1, RisingPositions
<1> QED BY <1>1, <1>2, <1>3, <1>4 DEF Unlimited

(* The facts about the store that the arguments below use.                 *)
LEMMA StoreFacts ==
  ASSUME StoreInv
  PROVE  /\ HistoryTail \in Seq(Entry)
         /\ Len(HistoryTail) \in Nat
         /\ DOMAIN HistoryTail = 1 .. Len(HistoryTail)
         /\ \A i \in 1 .. Len(HistoryTail) :
              /\ HistoryTail[i].seq \in Nat
              /\ ring.compactionSeq < HistoryTail[i].seq
              /\ HistoryTail[i].seq <= sequenceNumber
              /\ HistoryTail[i].key \in Key
         /\ ring.compactionSeq \in Nat
         /\ sequenceNumber \in Nat
         /\ ring.compactionSeq <= sequenceNumber
         /\ latest.state \in Replica
<1>1. HistoryTail \in Seq(Entry)
  BY SnapshotEntries DEF StoreInv, StoreTypeOK, HistoryTail
<1>2. DOMAIN HistoryTail = 1 .. Len(HistoryTail) /\ Len(HistoryTail) \in Nat
  BY <1>1
<1>3. \A i \in 1 .. Len(HistoryTail) : HistoryTail[i].seq \in Nat /\ HistoryTail[i].key \in Key
  <2>1. \A i \in 1 .. Len(HistoryTail) : HistoryTail[i] \in Entry
    BY <1>1
  <2> QED BY <2>1, EntryFields DEF Operations
<1>4. ring.compactionSeq \in Nat /\ sequenceNumber \in Nat /\ ring.compactionSeq <= sequenceNumber
  BY DEF StoreInv, StoreTypeOK, RingOK, BoundaryBelowCounter
<1>5. latest.state \in Replica
  BY DEF StoreInv, StoreTypeOK, LatestStores, Replica
<1>6. \A i \in 1 .. Len(HistoryTail) :
        ring.compactionSeq < HistoryTail[i].seq /\ HistoryTail[i].seq <= sequenceNumber
  BY <1>2 DEF StoreInv, TailOrdered
<1> QED BY <1>1, <1>2, <1>3, <1>4, <1>5, <1>6

(* The type of the empty copy.                                             *)
LEMMA EmptyReplicaType == EmptyReplica \in Replica
BY DEF EmptyReplica, Replica

-----------------------------------------------------------------------------
(* The full answer reconstructs the resources that were asked for.         *)
LEMMA StoreInvReplays == StoreInv => FullReplay
<1> SUFFICES ASSUME StoreInv,
                    NEW since \in 0 .. sequenceNumber, NEW keys \in SUBSET Key,
                    since = 0 \/ since < ring.compactionSeq
             PROVE  Replay(EmptyReplica, QueryEvents(since, Unlimited, Operation, keys))
                      = [k \in Key |-> IF k \in keys THEN latest.state[k] ELSE Absent]
  BY DEF FullReplay
<1> DEFINE page   == QueryEvents(since, Unlimited, Operation, keys)
           target == [k \in Key |-> IF k \in keys THEN latest.state[k] ELSE Absent]
<1>1. since \in Nat
  BY StoreFacts
<1>2. Unlimited \in Nat \ {0}
  BY LimitAssumption DEF Unlimited, StoreInv, StoreTypeOK, LatestStores
<1>3. Answers(page, since, Unlimited, keys)
  BY <1>1, <1>2, QueryAnswers
<1> HIDE DEF page
<1>4. PICK s, pos, r : /\ SynthesizedPart(s, since, keys)
                       /\ TailPart(page, s, pos, r, since, Unlimited, keys)
  BY <1>3 DEF Answers
<1>5. page \in Seq(Entry) /\ Len(page) \in Nat
  BY <1>4 DEF TailPart
<1>6. ~ (Unlimited <= Len(page))
  BY <1>2, <1>4, <1>5, UnlimitedIsWhole
<1>7. ASSUME NEW i \in 1 .. Len(HistoryTail), HistoryTail[i].key \in keys
      PROVE  \E j \in 1 .. r : pos[j] = i
  <2>1. HistoryTail[i].seq > since
    BY <1>1, StoreFacts
  <2> QED BY <1>4, <1>6, <1>7, <2>1 DEF TailPart
<1>8. target \in Replica
  <2>1. \A k \in Key : latest.state[k] \in Value \cup {Absent}
    BY StoreFacts DEF Replica
  <2> QED BY <2>1 DEF Replica
<1>9. ASSUME NEW k \in Key
      PROVE  /\ ~ Mentions(page, k) => EmptyReplica[k] = target[k]
             /\ \A i \in DOMAIN page : LastAbout(page, k, i) => Effect(page[i]) = target[k]
  <2>1. EmptyReplica[k] = Absent /\ target[k] = IF k \in keys THEN latest.state[k] ELSE Absent
    BY DEF EmptyReplica
  <2>2. CASE k \notin keys
    <3>1. ~ Mentions(page, k)
      <4> SUFFICES ASSUME NEW i \in DOMAIN page, page[i].key = k PROVE FALSE
        BY DEF Mentions
      <4>1. i \in 1 .. Len(s) \/ (i - Len(s) \in 1 .. r /\ Len(s) + (i - Len(s)) = i)
        BY <1>4, AnswerElements
      <4>2. CASE i \in 1 .. Len(s)
        <5>1. page[i] = s[i] /\ s[i].key \in keys
          BY <1>4, <4>2 DEF TailPart, SynthesizedPart
        <5> QED BY <2>2, <5>1
      <4>3. CASE i - Len(s) \in 1 .. r /\ Len(s) + (i - Len(s)) = i
        <5> DEFINE j == i - Len(s)
        <5>1. page[Len(s) + j] = HistoryTail[pos[j]] /\ HistoryTail[pos[j]].key \in keys
          BY <1>4, <4>3 DEF TailPart
        <5> QED BY <2>2, <4>3, <5>1
      <4> QED BY <4>1, <4>2, <4>3
    <3> QED BY <2>1, <2>2, <3>1 DEF Mentions, LastAbout
  <2>3. CASE k \in keys /\ ~ Mentions(HistoryTail, k)
    <3>1. /\ IsLive(latest, k) /\ since < ring.compactionSeq => Mentions(page, k)
          /\ \A i \in DOMAIN page : LastAbout(page, k, i) => Effect(page[i]) = latest.state[k]
      BY <1>4, <2>3, StoreFacts, SilentOnAnswer
    <3>2. ASSUME IsLive(latest, k) PROVE since < ring.compactionSeq
      <4>1. ring.compactionSeq # 0
        BY <2>3, <3>2 DEF StoreInv, TailCompleteUntilEviction, LiveKeys
      <4> QED BY <4>1, StoreFacts
    <3> QED BY <2>1, <2>3, <3>1, <3>2 DEF IsLive
  <2>4. CASE k \in keys /\ Mentions(HistoryTail, k)
    <3>1. PICK i \in DOMAIN HistoryTail : LastAbout(HistoryTail, k, i)
      BY <2>4, StoreFacts, LastExists
    <3>2. latest.state[k] = Effect(HistoryTail[i])
      BY <3>1 DEF StoreInv, TailDecides
    <3>3. PICK j \in 1 .. r : pos[j] = i
      <4>1. i \in 1 .. Len(HistoryTail) /\ HistoryTail[i].key \in keys
        BY <2>4, <3>1, StoreFacts DEF LastAbout
      <4> QED BY <1>7, <4>1
    <3>4. /\ Mentions(page, k)
          /\ \A n \in DOMAIN page :
               LastAbout(page, k, n) => Effect(page[n]) = Effect(HistoryTail[i])
      BY <1>4, <3>1, <3>3, StoreFacts, LastOnAnswer
    <3> QED BY <2>1, <2>4, <3>2, <3>4
  <2> QED BY <2>2, <2>3, <2>4
<1> HIDE DEF target
<1>10. BringsTo(EmptyReplica, page, target)
  BY <1>9 DEF BringsTo
<1>11. Replay(EmptyReplica, page) = target
  BY <1>5, <1>8, <1>10, EmptyReplicaType, AnswerIsAboutResources, ReplayBrings
<1> QED BY <1>11 DEF page, target

(***************************************************************************)
(* The full answer of QueryEvents (manager.go), replayed into an empty     *)
(* model, gives the live resources, whatever has been recorded and however *)
(* often the ring has wrapped: what pkg/events/history.go promises.        *)
(***************************************************************************)
THEOREM FullReplayCorrect == StoreSpec => []FullReplay
BY StoreInvReplays, StoreInvariant, PTL

(* A page skips nothing.                                                   *)
LEMMA StoreInvPages == StoreInv => PagesDoNotSkip
<1> SUFFICES ASSUME StoreInv, NEW since \in 0 .. sequenceNumber, NEW limit \in 1 .. Limit
             PROVE  LET page == QueryEvents(since, limit, Operation, Key)
                        end  == Last(page).seq
                    IN  /\ page # << >> =>
                             /\ end > since
                             /\ \A i \in DOMAIN HistoryTail :
                                  HistoryTail[i].seq \in since + 1 .. end
                                    => \E j \in DOMAIN page : page[j] = HistoryTail[i]
                             /\ since < ring.compactionSeq =>
                                  \A k \in LiveKeys(latest) :
                                    ~ Mentions(HistoryTail, k) => Mentions(page, k)
                        /\ page = << >> =>
                             \A i \in DOMAIN HistoryTail : HistoryTail[i].seq <= since
  BY DEF PagesDoNotSkip
<1> DEFINE page == QueryEvents(since, limit, Operation, Key)
           end  == Last(page).seq
<1>1. since \in Nat /\ limit \in Nat \ {0}
  BY StoreFacts
<1>2. Answers(page, since, limit, Key)
  BY <1>1, QueryAnswers
<1> HIDE DEF page
<1>3. PICK s, pos, r : /\ SynthesizedPart(s, since, Key)
                       /\ TailPart(page, s, pos, r, since, limit, Key)
  BY <1>2 DEF Answers
<1>4. /\ Len(s) \in Nat /\ r \in Nat /\ Len(page) = Len(s) + r
      /\ DOMAIN page = 1 .. Len(s) + r
  BY <1>3, AnswerElements
<1>5. TailOrdered
  BY DEF StoreInv
<1>6. ASSUME page # << >>
      PROVE  /\ end > since
             /\ \A i \in DOMAIN HistoryTail :
                  HistoryTail[i].seq \in since + 1 .. end
                    => \E j \in DOMAIN page : page[j] = HistoryTail[i]
  <2>1. /\ end > since
        /\ r > 0 => r \in 1 .. r /\ end = HistoryTail[pos[r]].seq
    BY <1>1, <1>3, <1>6, AnswerEnds
  <2>2. ASSUME NEW i \in DOMAIN HistoryTail, HistoryTail[i].seq \in since + 1 .. end
        PROVE  \E j \in DOMAIN page : page[j] = HistoryTail[i]
    <3>1. /\ i \in 1 .. Len(HistoryTail)
          /\ HistoryTail[i].key \in Key
          /\ HistoryTail[i].seq > since
          /\ r > 0 => HistoryTail[i].seq <= HistoryTail[pos[r]].seq
      BY <1>1, <2>1, <2>2, StoreFacts
    <3>2. PICK j \in 1 .. r : pos[j] = i
      BY <1>3, <1>5, <3>1, StoreFacts, NothingSkipped
    <3>3. Len(s) + j \in DOMAIN page
      BY <1>4
    <3>4. page[Len(s) + j] = HistoryTail[i]
      BY <1>3, <3>2 DEF TailPart
    <3> QED BY <3>3, <3>4
  <2> QED BY <2>1, <2>2
<1>7. ASSUME since < ring.compactionSeq, NEW k \in LiveKeys(latest), ~ Mentions(HistoryTail, k)
      PROVE  Mentions(page, k)
  <2>1. k \in Key /\ IsLive(latest, k)
    BY DEF LiveKeys
  <2> QED BY <1>3, <1>7, <2>1, StoreFacts, SilentOnAnswer
<1>8. ASSUME page = << >>, NEW i \in DOMAIN HistoryTail
      PROVE  HistoryTail[i].seq <= since
  <2>1. r = 0
    <3>1. Len(page) = 0
      BY <1>8
    <3> QED BY <1>4, <3>1
  <2>2. i \in 1 .. Len(HistoryTail) /\ HistoryTail[i].key \in Key /\ HistoryTail[i].seq \in Nat
    BY StoreFacts
  <2>3. ~ (HistoryTail[i].seq > since)
    BY <1>3, <2>1, <2>2 DEF TailPart
  <2> QED BY <1>1, <2>2, <2>3
<1> QED BY <1>6, <1>7, <1>8 DEF page

(***************************************************************************)
(* The last sequence id of a page is a cursor: no entry between two pages  *)
(* is skipped, and a page past the boundary carries what the tail is       *)
(* silent about (manager.go, QueryEvents).                                 *)
(***************************************************************************)
THEOREM PagesCorrect == StoreSpec => []PagesDoNotSkip
BY StoreInvPages, StoreInvariant, PTL

-----------------------------------------------------------------------------
(***************************************************************************)
(* The client.  Its steps leave the store alone.                           *)
(***************************************************************************)
THEOREM ClientLeavesStore == Spec => StoreSpec
<1>1. Init => StoreInit
  BY DEF Init
<1>2. [Next]_vars => [StoreNext]_storeVars
  BY DEF Next, Fetch, StartOver, vars, storeVars
<1> QED BY <1>1, <1>2, PTL DEF Spec, StoreSpec

(* Nothing in the tail after the cursor is about k.                        *)
Settled(k) ==
  \A i \in 1 .. Len(HistoryTail) : HistoryTail[i].seq > cursor => HistoryTail[i].key # k

(***************************************************************************)
(* The invariant of the client.  While the boundary has not passed the     *)
(* cursor, the mirror is right about every live resource that no entry     *)
(* after the cursor is about, and, if it never had passed it, about every  *)
(* other resource too.  A client at the cursor 0 has an empty mirror, and  *)
(* the tail is not empty once the boundary has moved, so that a client     *)
(* behind the boundary always has a page to fetch.                         *)
(***************************************************************************)
ClientInv ==
  /\ cursor \in Nat
  /\ cursor <= sequenceNumber
  /\ mirror \in Replica
  /\ cursor = 0 => mirror = EmptyReplica
  /\ ring.compactionSeq # 0 => Len(HistoryTail) # 0
  /\ cursor >= ring.compactionSeq =>
       \A k \in Key : Settled(k) /\ (IsLive(latest, k) \/ ~ outrun) => mirror[k] = latest.state[k]

(* The store and the client together.                                      *)
MirrorInv == StoreInv /\ ClientInv

(* At the cursor 0 with nothing evicted, what is settled is not live.      *)
LEMMA EmptyMirrorIsRight ==
  ASSUME StoreInv, cursor = 0, ring.compactionSeq = 0, NEW k \in Key, Settled(k)
  PROVE  latest.state[k] = Absent
<1> SUFFICES ASSUME latest.state[k] # Absent PROVE FALSE
  OBVIOUS
<1>1. Mentions(HistoryTail, k)
  BY DEF StoreInv, TailCompleteUntilEviction, LiveKeys, IsLive
<1>2. PICK i \in 1 .. Len(HistoryTail) : HistoryTail[i].key = k
  BY <1>1, StoreFacts DEF Mentions
<1>3. HistoryTail[i].seq > cursor
  BY StoreFacts
<1> QED BY <1>2, <1>3 DEF Settled

(* It holds at the start.                                                  *)
LEMMA ClientInitInv == Init => MirrorInv
<1> SUFFICES ASSUME Init PROVE MirrorInv
  OBVIOUS
<1>1. StoreInv /\ cursor = 0 /\ mirror = EmptyReplica /\ sequenceNumber = 0
      /\ ring.compactionSeq = 0
  BY StoreInitInv DEF Init, StoreInit, NewRing
<1>2. ASSUME NEW k \in Key, Settled(k) PROVE mirror[k] = latest.state[k]
  BY <1>1, <1>2, EmptyMirrorIsRight DEF EmptyReplica
<1>3. ClientInv
  BY <1>1, <1>2, EmptyReplicaType DEF ClientInv
<1> QED BY <1>1, <1>3 DEF MirrorInv

(* Recording an event leaves it true: the resource of the event is not     *)
(* settled, and if an entry after the cursor is evicted, the boundary      *)
(* passes the cursor.                                                      *)
LEMMA RecordKeepsMirror ==
  ASSUME MirrorInv, NEW ev \in Event, Record(ev), UNCHANGED clientVars
  PROVE  ClientInv'
<1> DEFINE T == HistoryTail
           U == HistoryTail'
           e == Stored(sequenceNumber + 1, ev)
<1>1. /\ StoreInv /\ ClientInv
      /\ cursor' = cursor /\ mirror' = mirror /\ outrun' = outrun
      /\ sequenceNumber' = sequenceNumber + 1
      /\ latest' = Receive(latest, ev)
  BY DEF MirrorInv, clientVars, Record
<1>2. /\ StoreTypeOK /\ TailOrdered
      /\ latest \in LatestStores /\ OrderListsLive(latest)
  BY <1>1 DEF StoreInv, StoreTypeOK, OrderInv
<1>3. /\ sequenceNumber \in Nat /\ ring.compactionSeq \in Nat
      /\ Len(T) \in Nat
      /\ \A i \in 1 .. Len(T) : T[i].seq \in Nat /\ ring.compactionSeq < T[i].seq
  BY <1>1, StoreFacts
<1>4. /\ cursor \in Nat /\ cursor <= sequenceNumber
      /\ mirror \in Replica
      /\ cursor = 0 => mirror = EmptyReplica
      /\ cursor >= ring.compactionSeq =>
           \A k \in Key : Settled(k) /\ (IsLive(latest, k) \/ ~ outrun) => mirror[k] = latest.state[k]
  BY <1>1 DEF ClientInv
<1>5. e.seq = sequenceNumber + 1 /\ e.key = ev.key /\ ev.key \in Key
  BY <1>3, StoredIsEntry
<1>6. \A k \in Key : latest'.state[k] = IF k = ev.key THEN Effect(ev) ELSE latest.state[k]
  BY <1>1, <1>2, ReceiveKeepsStore
<1>7. PICK cut \in {0, 1} : Shifts(cut, T, U, e, ring.compactionSeq, ring'.compactionSeq)
  BY <1>2, RecordShifts
<1> DEFINE kept == Len(T) - cut
<1>8. /\ cut \in Nat /\ kept \in Nat /\ Len(T) = kept + cut
      /\ Len(U) = kept + 1
      /\ \A i \in 1 .. kept : U[i] = T[i + cut]
      /\ U[kept + 1] = e
      /\ kept + 1 \in 1 .. kept + 1
      /\ \A i \in 1 .. kept : i \in 1 .. kept + 1
      /\ cut = 0 => ring'.compactionSeq = ring.compactionSeq
      /\ cut = 1 => ring'.compactionSeq = T[1].seq
  BY <1>3, <1>7 DEF Shifts
<1> HIDE DEF T, U, e, kept
<1>9. ASSUME cursor >= ring'.compactionSeq, NEW k \in Key, Settled(k)',
             IsLive(latest', k) \/ ~ outrun
      PROVE  mirror[k] = latest'.state[k]
  <2>1. \A i \in 1 .. kept + 1 : U[i].seq > cursor => U[i].key # k
    BY <1>1, <1>8, <1>9 DEF Settled, U
  <2>2. k # ev.key
    <3>1. e.seq > cursor
      BY <1>3, <1>4, <1>5
    <3> QED BY <1>5, <1>8, <2>1, <3>1
  <2>3. cursor >= ring.compactionSeq
    <3>1. CASE cut = 0
      BY <1>8, <1>9, <3>1
    <3>2. CASE cut = 1
      <4>1. 1 \in 1 .. Len(T)
        BY <1>8, <3>2
      <4> QED BY <1>3, <1>4, <1>8, <1>9, <3>2, <4>1
    <3> QED BY <3>1, <3>2
  <2>4. ASSUME NEW i \in 1 .. Len(T), T[i].seq > cursor
        PROVE  T[i].key # k
    <3>1. CASE i \in 1 .. cut
      <4>1. cut = 1 /\ i = 1
        BY <1>8, <3>1
      <4> QED BY <1>3, <1>4, <1>8, <1>9, <2>4, <4>1
    <3>2. CASE i \notin 1 .. cut
      <4>1. i - cut \in 1 .. kept /\ (i - cut) + cut = i
        BY <1>3, <1>8, <3>2
      <4>2. U[i - cut] = T[i] /\ i - cut \in 1 .. kept + 1
        BY <1>8, <4>1
      <4> QED BY <2>1, <2>4, <4>2
    <3> QED BY <3>1, <3>2
  <2>5. Settled(k)
    BY <2>4 DEF Settled, T
  <2>6. latest'.state[k] = latest.state[k]
    BY <1>6, <2>2
  <2>7. IsLive(latest', k) => IsLive(latest, k)
    BY <2>6 DEF IsLive
  <2> QED BY <1>4, <1>9, <2>3, <2>5, <2>6, <2>7
<1>10. Len(U) # 0
  BY <1>8
<1>11. cursor' \in Nat /\ cursor' <= sequenceNumber'
  BY <1>1, <1>3, <1>4
<1> QED BY <1>1, <1>4, <1>9, <1>10, <1>11 DEF ClientInv, U

(* A sequence id that is given to no event changes nothing for the client. *)
LEMMA IncrementKeepsMirror ==
  ASSUME MirrorInv, IncrementSequenceId, UNCHANGED clientVars
  PROVE  ClientInv'
<1>1. /\ ClientInv
      /\ cursor' = cursor /\ mirror' = mirror /\ outrun' = outrun
      /\ latest' = latest /\ ring' = ring
      /\ sequenceNumber' = sequenceNumber + 1
      /\ sequenceNumber \in Nat
  BY StoreFacts DEF MirrorInv, clientVars, IncrementSequenceId
<1>2. HistoryTail' = HistoryTail
  BY <1>1 DEF HistoryTail
<1>3. \A k \in Key : Settled(k)' <=> Settled(k)
  BY <1>1, <1>2 DEF Settled
<1>4. cursor \in Nat /\ cursor <= sequenceNumber'
  BY <1>1 DEF ClientInv
<1> QED BY <1>1, <1>2, <1>3, <1>4 DEF ClientInv

(* Starting over leaves it true.                                           *)
LEMMA StartOverKeepsMirror ==
  ASSUME MirrorInv, StartOver
  PROVE  ClientInv'
<1>1. /\ StoreInv /\ ClientInv
      /\ cursor' = 0 /\ mirror' = EmptyReplica /\ outrun' = FALSE
      /\ latest' = latest /\ ring' = ring /\ sequenceNumber' = sequenceNumber
  BY DEF MirrorInv, StartOver, storeVars
<1>2. HistoryTail' = HistoryTail
  BY <1>1 DEF HistoryTail
<1>3. StoreInv'
  BY <1>1, StutterPreserves DEF storeVars
<1>4. ring.compactionSeq \in Nat /\ sequenceNumber \in Nat
  BY <1>1, StoreFacts
<1>5. ASSUME cursor' >= ring'.compactionSeq, NEW k \in Key, Settled(k)'
      PROVE  mirror'[k] = latest'.state[k]
  <2>1. ring.compactionSeq = 0
    BY <1>1, <1>4, <1>5
  <2>2. \A i \in 1 .. Len(HistoryTail) : HistoryTail[i].key # k
    <3>1. \A i \in 1 .. Len(HistoryTail) : HistoryTail[i].seq > 0
      BY <1>1, <1>4, StoreFacts
    <3> QED BY <1>1, <1>2, <1>5, <3>1 DEF Settled
  <2>3. ~ Mentions(HistoryTail, k)
    BY <1>1, <2>2, StoreFacts DEF Mentions
  <2>4. latest.state[k] = Absent
    BY <1>1, <2>1, <2>3 DEF StoreInv, TailCompleteUntilEviction, LiveKeys, IsLive
  <2> QED BY <1>1, <2>4 DEF EmptyReplica
<1>6. ring'.compactionSeq # 0 => Len(HistoryTail') # 0
  BY <1>1, <1>2 DEF ClientInv
<1> QED BY <1>1, <1>4, <1>5, <1>6, EmptyReplicaType DEF ClientInv

(***************************************************************************)
(* Fetching and replaying a page leaves it true.  A resource that is       *)
(* settled afterwards was settled before, and then the page is silent      *)
(* about it or has what was synthesized for it; or the last entry of the   *)
(* tail about it is on the page.                                           *)
(***************************************************************************)
LEMMA FetchKeepsMirror ==
  ASSUME MirrorInv, Fetch
  PROVE  ClientInv'
<1>1. PICK page \in {Page} :
        /\ page # << >>
        /\ mirror' = Replay(mirror, page)
        /\ cursor' = Last(page).seq
        /\ outrun' = (outrun \/ (cursor # 0 /\ cursor < ring.compactionSeq))
        /\ UNCHANGED storeVars
  BY DEF Fetch
<1>2. /\ StoreInv /\ ClientInv
      /\ latest' = latest /\ ring' = ring /\ sequenceNumber' = sequenceNumber
      /\ TailOrdered
  BY <1>1 DEF MirrorInv, storeVars, StoreInv
<1>3. HistoryTail' = HistoryTail
  BY <1>2 DEF HistoryTail
<1>4. /\ cursor \in Nat /\ cursor <= sequenceNumber
      /\ mirror \in Replica
      /\ cursor = 0 => mirror = EmptyReplica
      /\ ring.compactionSeq # 0 => Len(HistoryTail) # 0
      /\ cursor >= ring.compactionSeq =>
           \A k \in Key : Settled(k) /\ (IsLive(latest, k) \/ ~ outrun) => mirror[k] = latest.state[k]
  BY <1>2 DEF ClientInv
<1>5. Answers(page, cursor, PageLimit, Key)
  BY <1>1, <1>2, <1>4, PageLimitAssumption, QueryAnswers DEF Page
<1>6. PICK s, pos, r : /\ SynthesizedPart(s, cursor, Key)
                       /\ TailPart(page, s, pos, r, cursor, PageLimit, Key)
  BY <1>5 DEF Answers
<1>7. /\ cursor' > cursor
      /\ r > 0 => /\ r \in 1 .. r /\ pos[r] \in 1 .. Len(HistoryTail)
                  /\ cursor' = HistoryTail[pos[r]].seq
  BY <1>1, <1>4, <1>6, AnswerEnds
<1>8. /\ r \in Nat
      /\ page \in Seq(Entry)
      /\ HistoryTail \in Seq(Entry)
  BY <1>2, <1>6, StoreFacts DEF TailPart
<1>9. r > 0
  <2> SUFFICES ASSUME r = 0 PROVE FALSE
    BY <1>8
  <2>1. \A i \in 1 .. Len(HistoryTail) : ~ (HistoryTail[i].seq > cursor)
    BY <1>2, <1>6, StoreFacts DEF TailPart
  <2>2. s \in Seq(Entry) /\ Len(page) = Len(s) + r /\ Len(page) # 0
    BY <1>1, <1>6, <1>8 DEF SynthesizedPart, TailPart
  <2>3. Len(s) > 0
    BY <2>2
  <2>4. cursor < ring.compactionSeq
    BY <1>6, <2>3 DEF SynthesizedPart
  <2>5. 1 \in 1 .. Len(HistoryTail)
    BY <1>2, <1>4, <2>4, StoreFacts
  <2>6. HistoryTail[1].seq > ring.compactionSeq /\ HistoryTail[1].seq \in Nat
        /\ ring.compactionSeq \in Nat
    BY <1>2, <2>5, StoreFacts
  <2> QED BY <1>4, <2>1, <2>4, <2>5, <2>6
<1>10. cursor' \in Nat /\ cursor' <= sequenceNumber /\ cursor' # 0
  BY <1>2, <1>4, <1>7, <1>9, StoreFacts
<1>11. AboutResources(page)
  BY <1>8, AnswerIsAboutResources
<1>12. ASSUME NEW k \in Key, Settled(k)', IsLive(latest, k) \/ ~ outrun'
       PROVE  /\ ~ Mentions(page, k) => mirror[k] = latest.state[k]
              /\ \A i \in DOMAIN page : LastAbout(page, k, i) => Effect(page[i]) = latest.state[k]
  <2>1. \A i \in 1 .. Len(HistoryTail) : HistoryTail[i].seq > cursor' => HistoryTail[i].key # k
    BY <1>3, <1>12 DEF Settled
  <2>2. IsLive(latest, k) \/ (~ outrun /\ (cursor = 0 \/ ~ (cursor < ring.compactionSeq)))
    BY <1>1, <1>12
  <2>3. CASE \E i \in DOMAIN HistoryTail : LastAbout(HistoryTail, k, i) /\ HistoryTail[i].seq > cursor
    <3>1. PICK i \in DOMAIN HistoryTail :
            LastAbout(HistoryTail, k, i) /\ HistoryTail[i].seq > cursor
      BY <2>3
    <3>2. /\ i \in 1 .. Len(HistoryTail)
          /\ HistoryTail[i].key = k
          /\ HistoryTail[i].seq \in Nat
      BY <1>2, <3>1, StoreFacts DEF LastAbout
    <3>3. HistoryTail[i].seq <= cursor'
      BY <1>10, <2>1, <3>2
    <3>4. PICK j \in 1 .. r : pos[j] = i
      BY <1>2, <1>6, <1>7, <1>8, <3>1, <3>2, <3>3, NothingSkipped
    <3>5. /\ Mentions(page, k)
          /\ \A n \in DOMAIN page :
               LastAbout(page, k, n) => Effect(page[n]) = Effect(HistoryTail[i])
      BY <1>6, <1>8, <3>1, <3>4, LastOnAnswer
    <3>6. latest.state[k] = Effect(HistoryTail[i])
      BY <1>2, <3>1 DEF StoreInv, TailDecides
    <3> QED BY <3>5, <3>6
  <2>4. CASE ~ Mentions(HistoryTail, k)
    <3>1. /\ IsLive(latest, k) /\ cursor < ring.compactionSeq => Mentions(page, k)
          /\ \A i \in DOMAIN page : LastAbout(page, k, i) => Effect(page[i]) = latest.state[k]
      BY <1>6, <1>8, <2>4, SilentOnAnswer
    <3>2. ASSUME ~ Mentions(page, k) PROVE mirror[k] = latest.state[k]
      <4>1. Settled(k)
        BY <1>2, <2>4, StoreFacts DEF Settled, Mentions
      <4>2. CASE cursor < ring.compactionSeq
        <5>1. ~ IsLive(latest, k) /\ cursor = 0
          BY <2>2, <3>1, <3>2, <4>2
        <5> QED BY <1>4, <5>1 DEF IsLive, EmptyReplica
      <4>3. CASE ~ (cursor < ring.compactionSeq)
        <5>1. cursor >= ring.compactionSeq
          BY <1>2, <1>4, <4>3, StoreFacts
        <5> QED BY <1>4, <2>2, <4>1, <5>1
      <4> QED BY <4>2, <4>3
    <3> QED BY <3>1, <3>2
  <2>5. CASE /\ Mentions(HistoryTail, k)
             /\ ~ \E i \in DOMAIN HistoryTail :
                    LastAbout(HistoryTail, k, i) /\ HistoryTail[i].seq > cursor
    <3>1. PICK i \in DOMAIN HistoryTail : LastAbout(HistoryTail, k, i)
      BY <1>8, <2>5, LastExists
    <3>2. /\ ~ (HistoryTail[i].seq > cursor)
          /\ i \in 1 .. Len(HistoryTail)
          /\ HistoryTail[i].seq \in Nat
          /\ DOMAIN HistoryTail = 1 .. Len(HistoryTail)
      BY <1>2, <2>5, <3>1, StoreFacts
    <3>3. ~ (cursor < ring.compactionSeq)
      <4>1. ring.compactionSeq < HistoryTail[i].seq /\ ring.compactionSeq \in Nat
        BY <1>2, <3>2, StoreFacts
      <4> QED BY <1>4, <3>2, <4>1
    <3>4. Settled(k)
      <4> SUFFICES ASSUME NEW j \in 1 .. Len(HistoryTail), HistoryTail[j].seq > cursor,
                          HistoryTail[j].key = k
                   PROVE  FALSE
        BY DEF Settled
      <4>1. ~ (j > i)
        BY <3>1, <3>2 DEF LastAbout
      <4>2. j = i \/ j < i
        BY <3>2, <4>1
      <4>3. j < i => HistoryTail[j].seq < HistoryTail[i].seq
        BY <1>2, <3>2 DEF TailOrdered
      <4>4. HistoryTail[j].seq \in Nat
        BY <1>2, StoreFacts
      <4> QED BY <1>4, <3>2, <4>2, <4>3, <4>4
    <3>5. mirror[k] = latest.state[k]
      <4>1. cursor >= ring.compactionSeq
        BY <1>2, <1>4, <3>3, StoreFacts
      <4> QED BY <1>4, <2>2, <3>4, <4>1
    <3>6. ~ Mentions(page, k)
      <4> SUFFICES ASSUME NEW n \in DOMAIN page, page[n].key = k PROVE FALSE
        BY DEF Mentions
      <4>1. n \in 1 .. Len(s) \/ (n - Len(s) \in 1 .. r /\ Len(s) + (n - Len(s)) = n)
        BY <1>6, AnswerElements
      <4>2. CASE n \in 1 .. Len(s)
        <5>1. Len(s) > 0
          <6>1. s \in Seq(Entry)
            BY <1>6 DEF SynthesizedPart
          <6> QED BY <4>2, <6>1
        <5> QED BY <1>6, <3>3, <5>1 DEF SynthesizedPart
      <4>3. CASE n - Len(s) \in 1 .. r /\ Len(s) + (n - Len(s)) = n
        <5> DEFINE j == n - Len(s)
        <5>1. /\ page[Len(s) + j] = HistoryTail[pos[j]]
              /\ HistoryTail[pos[j]].seq > cursor
              /\ pos[j] \in 1 .. Len(HistoryTail)
          BY <1>6, <4>3 DEF TailPart
        <5> QED BY <3>4, <4>3, <5>1 DEF Settled
      <4> QED BY <4>1, <4>2, <4>3
    <3> QED BY <3>5, <3>6 DEF Mentions, LastAbout
  <2>6. ~ Mentions(HistoryTail, k) \/ Mentions(HistoryTail, k)
    OBVIOUS
  <2> QED BY <2>3, <2>4, <2>5, <2>6
<1>13. mirror' \in Replica
  BY <1>1, <1>4, <1>8, <1>11, ReplayType
<1>14. ASSUME NEW k \in Key, Settled(k)', IsLive(latest, k) \/ ~ outrun'
       PROVE  mirror'[k] = latest.state[k]
  <2>1. LeavesWith(mirror, page, k, latest.state[k])
    BY <1>12, <1>14 DEF LeavesWith
  <2>2. Replay(mirror, page)[k] = latest.state[k]
    BY <1>4, <1>8, <1>11, <2>1, ReplayLeavesWith
  <2> QED BY <1>1, <2>2
<1> QED BY <1>2, <1>3, <1>4, <1>10, <1>13, <1>14 DEF ClientInv

(***************************************************************************)
(* The invariant holds in every reachable state of store and client.       *)
(***************************************************************************)
THEOREM MirrorInvariant == Spec => []MirrorInv
<1>1. Init => MirrorInv
  BY ClientInitInv
<1>2. MirrorInv /\ [Next]_vars => MirrorInv'
  <2> SUFFICES ASSUME MirrorInv, [Next]_vars PROVE MirrorInv'
    OBVIOUS
  <2>1. ASSUME StoreNext, UNCHANGED clientVars PROVE MirrorInv'
    <3>1. CASE \E ev \in Event : Record(ev)
      <4>1. PICK ev \in Event : Record(ev)
        BY <3>1
      <4>2. StoreInv'
        BY <4>1, RecordPreserves DEF MirrorInv
      <4>3. ClientInv'
        BY <2>1, <4>1, RecordKeepsMirror
      <4> QED BY <4>2, <4>3 DEF MirrorInv
    <3>2. CASE IncrementSequenceId
      BY <2>1, <3>2, IncrementPreserves, IncrementKeepsMirror DEF MirrorInv
    <3> QED BY <2>1, <3>1, <3>2 DEF StoreNext
  <2>2. CASE Fetch
    <3>1. UNCHANGED storeVars
      BY <2>2 DEF Fetch
    <3> QED BY <2>2, <3>1, StutterPreserves, FetchKeepsMirror DEF MirrorInv
  <2>3. CASE StartOver
    <3>1. UNCHANGED storeVars
      BY <2>3 DEF StartOver
    <3> QED BY <2>3, <3>1, StutterPreserves, StartOverKeepsMirror DEF MirrorInv
  <2>4. CASE UNCHANGED vars
    <3>1. /\ UNCHANGED storeVars
          /\ cursor' = cursor /\ mirror' = mirror /\ outrun' = outrun
          /\ latest' = latest /\ ring' = ring /\ sequenceNumber' = sequenceNumber
      BY <2>4 DEF vars, storeVars
    <3>2. HistoryTail' = HistoryTail
      BY <3>1 DEF HistoryTail
    <3>3. \A k \in Key : Settled(k)' <=> Settled(k)
      BY <3>1, <3>2 DEF Settled
    <3>4. ClientInv'
      BY <3>1, <3>2, <3>3 DEF MirrorInv, ClientInv
    <3>5. StoreInv'
      BY <3>1, StutterPreserves DEF MirrorInv
    <3> QED BY <3>4, <3>5 DEF MirrorInv
  <2> QED BY <2>1, <2>2, <2>3, <2>4 DEF Next
<1> QED BY <1>1, <1>2, PTL DEF Spec

(* A client with nothing left to fetch is at the end of the tail.          *)
LEMMA CaughtUpIsSettled ==
  ASSUME MirrorInv, CaughtUp
  PROVE  /\ cursor >= ring.compactionSeq
         /\ \A k \in Key : Settled(k)
<1>1. /\ StoreInv
      /\ cursor \in Nat
      /\ ring.compactionSeq # 0 => Len(HistoryTail) # 0
  BY DEF MirrorInv, ClientInv
<1>2. Answers(Page, cursor, PageLimit, Key)
  BY <1>1, PageLimitAssumption, QueryAnswers DEF Page
<1>3. PICK s, pos, r : /\ SynthesizedPart(s, cursor, Key)
                       /\ TailPart(Page, s, pos, r, cursor, PageLimit, Key)
  BY <1>2 DEF Answers
<1>4. r = 0
  <2>1. Len(Page) = 0
    BY DEF CaughtUp
  <2>2. Len(s) \in Nat /\ r \in Nat /\ Len(Page) = Len(s) + r
    BY <1>3, AnswerElements
  <2> QED BY <2>1, <2>2
<1>5. \A i \in 1 .. Len(HistoryTail) : ~ (HistoryTail[i].seq > cursor)
  BY <1>1, <1>3, <1>4, StoreFacts DEF TailPart
<1>6. cursor >= ring.compactionSeq
  <2> SUFFICES ASSUME ~ (cursor >= ring.compactionSeq) PROVE FALSE
    OBVIOUS
  <2>1. ring.compactionSeq \in Nat /\ cursor < ring.compactionSeq
    BY <1>1, StoreFacts
  <2>2. 1 \in 1 .. Len(HistoryTail)
    BY <1>1, <2>1, StoreFacts
  <2>3. HistoryTail[1].seq > ring.compactionSeq /\ HistoryTail[1].seq \in Nat
    BY <1>1, <2>2, StoreFacts
  <2> QED BY <1>1, <1>5, <2>1, <2>2, <2>3
<1> QED BY <1>5, <1>6 DEF Settled

(***************************************************************************)
(* Paging reconstructs the model exactly, if the retention window never    *)
(* passed the cursor of the client: however recording and paging           *)
(* interleave, whatever the limit of a page.                               *)
(***************************************************************************)
THEOREM PagingCorrect == Spec => []PagingReconstructs
<1>1. MirrorInv => PagingReconstructs
  <2> SUFFICES ASSUME MirrorInv, CaughtUp, ~ outrun PROVE mirror = latest.state
    BY DEF PagingReconstructs
  <2>1. \A k \in Key : mirror[k] = latest.state[k]
    BY CaughtUpIsSettled DEF MirrorInv, ClientInv
  <2>2. mirror \in Replica /\ latest.state \in Replica
    BY StoreFacts DEF MirrorInv, ClientInv
  <2> QED BY <2>1, <2>2 DEF Replica
<1> QED BY <1>1, MirrorInvariant, PTL

(***************************************************************************)
(* Even a client that was outrun has every live resource as it is, once it *)
(* has caught up.                                                          *)
(***************************************************************************)
THEOREM OutrunCorrect == Spec => []OutrunKeepsLive
<1>1. MirrorInv => OutrunKeepsLive
  <2> SUFFICES ASSUME MirrorInv, CaughtUp, NEW k \in LiveKeys(latest)
               PROVE  mirror[k] = latest.state[k]
    BY DEF OutrunKeepsLive
  <2>1. k \in Key /\ IsLive(latest, k)
    BY DEF LiveKeys
  <2> QED BY <2>1, CaughtUpIsSettled DEF MirrorInv, ClientInv
<1> QED BY <1>1, MirrorInvariant, PTL

=============================================================================
