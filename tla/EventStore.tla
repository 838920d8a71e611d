----------------------------- MODULE EventStore -----------------------------
(***************************************************************************)
(* The event manager as a store (internal/events, manager.go and           *)
(* recording_sink.go): under one mutex, every event that reaches the       *)
(* recording sink updates the latest-state store, takes the next sequence  *)
(* id and enters the history ring; QueryEvents answers from both.          *)
(* Delivery to subscribers is the subject of module EventManager.          *)
(***************************************************************************)
EXTENDS HistoryRing

CONSTANT MaxSeq     (* bound on the sequence ids handed out                *)

ASSUME MaxSeqAssumption == MaxSeq \in Nat

VARIABLES
  latest,           (* the latest-state store                              *)
  ring,             (* the history ring                                    *)
  sequenceNumber    (* the last sequence id handed out                     *)

storeVars == << latest, ring, sequenceNumber >>

StoreInit ==
  /\ latest = EmptyLatest
  /\ ring = NewRing
  /\ sequenceNumber = 0

NextStored(ev) == Stored(sequenceNumber + 1, ev)

(***************************************************************************)
(* recordingSink.Receive: the part under the mutex.  Nothing upstream      *)
(* keeps a Delete of a resource that is not live, or a Create of one that  *)
(* is, from reaching the sink, so every event is possible in every state.  *)
(***************************************************************************)
Record(ev) ==
  /\ sequenceNumber < MaxSeq
  /\ latest' = Receive(latest, ev)
  /\ sequenceNumber' = sequenceNumber + 1
  /\ ring' = RingAdd(ring, NextStored(ev))

(* A sequence id that belongs to no event.                                 *)
IncrementSequenceId ==
  /\ sequenceNumber < MaxSeq
  /\ sequenceNumber' = sequenceNumber + 1
  /\ UNCHANGED << latest, ring >>

StoreNext ==
  \/ \E ev \in Event : Record(ev)
  \/ IncrementSequenceId

StoreSpec == StoreInit /\ [][StoreNext]_storeVars

-----------------------------------------------------------------------------
(***************************************************************************)
(* QueryEvents.                                                            *)
(***************************************************************************)
HistoryTail == RingSnapshot(ring)

(* Seeded fault: only a query from 0 is given the live resources.          *)
OnlyFromStart(since) == since = 0 /\ ring.compactionSeq > 0

ReachesPastBoundary(since) == since < ring.compactionSeq

(* A Create, at the boundary, for every live resource that no entry of the *)
(* tail is about.  Nothing is synthesized unless the query reaches past    *)
(* the boundary.                                                           *)
Synthetic(since) ==
  IF ReachesPastBoundary(since)
  THEN LET tail    == HistoryTail
           live    == GetEvents(latest)
           missing == Selected(live, {i \in DOMAIN live : ~ Mentions(tail, live[i].key)})
       IN  [i \in DOMAIN missing |-> Stored(ring.compactionSeq, missing[i])]
  ELSE << >>

(* Prefix(s, n) is the first n elements of s, or all of them.              *)
Prefix(s, n) == SubSeq(s, 1, IF n < Len(s) THEN n ELSE Len(s))

(* Seeded fault: the limit cuts the synthesized prefix too.                *)
AnswerCapped(prefix, rest, limit) == Prefix(prefix \o rest, limit)

(* The limit caps the entries of the tail, less those synthesized, but the *)
(* check comes after an entry is appended, so one entry of the tail is     *)
(* returned however long the synthesized prefix is.                        *)
Answer(prefix, rest, limit) ==
  prefix \o Prefix(rest, IF Len(prefix) < limit THEN limit - Len(prefix) ELSE 1)

(* Seeded fault: the cursor itself is included in the answer.              *)
NotBefore(e, since) == e.seq >= since

After(e, since) == e.seq > since

(* The filters are a set of operations and a set of resources (the type    *)
(* and the id filter).  A limit that is not positive stands for 100.       *)
Matching(s, since, ops, keys) ==
  Selected(s, {i \in DOMAIN s : After(s[i], since) /\ s[i].op \in ops /\ s[i].key \in keys})

QueryEvents(since, limit, ops, keys) ==
  Answer(Matching(Synthetic(since), since, ops, keys),
         Matching(HistoryTail, since, ops, keys), limit)

(* A limit no answer reaches.                                              *)
Unlimited == Limit + Len(latest.order) + 1

-----------------------------------------------------------------------------
(***************************************************************************)
(* The type invariant: the latest-state store and the ring are well-formed *)
(* and the counter is a number.                                            *)
(***************************************************************************)
StoreTypeOK ==
  /\ latest \in LatestStores
  /\ RingOK(ring)
  /\ sequenceNumber \in Nat

(***************************************************************************)
(* The order of latestStateStore lists exactly the resources in its map,   *)
(* each once, also after Deletes of resources that were not there and      *)
(* Creates of resources that were: a snapshot has every live resource once *)
(* and no other.                                                           *)
(***************************************************************************)
OrderInv == OrderListsLive(latest)

(***************************************************************************)
(* The tail decides: if an entry of the tail is about k, the last of them  *)
(* is what the latest-state store holds for k.  QueryEvents synthesizes    *)
(* nothing for such a resource, on the ground that "the tail alone         *)
(* reconstructs them correctly" (manager.go).                              *)
(***************************************************************************)
TailDecides ==
  \A k \in Key : \A i \in DOMAIN HistoryTail :
    LastAbout(HistoryTail, k, i) => latest.state[k] = Effect(HistoryTail[i])

(***************************************************************************)
(* Nothing is lost before the first eviction: while the boundary is 0 no   *)
(* query synthesizes anything, so the tail must be about every live        *)
(* resource.                                                               *)
(***************************************************************************)
TailCompleteUntilEviction ==
  ring.compactionSeq = 0 => \A k \in LiveKeys(latest) : Mentions(HistoryTail, k)

(***************************************************************************)
(* Sequence ids rise strictly along the tail, lie above the boundary and   *)
(* never pass the manager's counter: what makes a sequence id a cursor.    *)
(***************************************************************************)
TailOrdered ==
  /\ \A i, j \in DOMAIN HistoryTail :
       i < j => HistoryTail[i].seq < HistoryTail[j].seq
  /\ \A i \in DOMAIN HistoryTail :
       ring.compactionSeq < HistoryTail[i].seq /\ HistoryTail[i].seq <= sequenceNumber

(***************************************************************************)
(* The claim of pkg/events/history.go and of the compaction design: the    *)
(* full answer to a query that reaches past the boundary, or to a query    *)
(* from 0, replayed in order into an empty model, reconstructs what a new  *)
(* subscriber would receive; and so it does resource by resource under a   *)
(* resource filter.                                                        *)
(***************************************************************************)
FullReplay ==
  \A since \in 0 .. sequenceNumber : \A keys \in SUBSET Key :
    since = 0 \/ since < ring.compactionSeq =>
      Replay(EmptyReplica, QueryEvents(since, Unlimited, Operation, keys))
        = [k \in Key |-> IF k \in keys THEN latest.state[k] ELSE Absent]

(***************************************************************************)
(* A page never skips: every entry of the tail between the cursor and the  *)
(* last sequence id of the page is on the page, and a page that reaches    *)
(* past the boundary carries every resource the tail is silent about, so a *)
(* client that continues from the last sequence id misses nothing that was *)
(* there when the page was cut.  A page is empty only when nothing is left *)
(* after the cursor.                                                       *)
(***************************************************************************)
PagesDoNotSkip ==
  \A since \in 0 .. sequenceNumber : \A limit \in 1 .. Limit :
    LET page == QueryEvents(since, limit, Operation, Key)
        end  == Last(page).seq
    IN  /\ page # << >> =>
             /\ end > since
             /\ \A i \in DOMAIN HistoryTail :
                  HistoryTail[i].seq \in since + 1 .. end
                    => \E j \in DOMAIN page : page[j] = HistoryTail[i]
             /\ since < ring.compactionSeq =>
                  \A k \in LiveKeys(latest) :
                    ~ Mentions(HistoryTail, k) => Mentions(page, k)
        /\ page = << >> =>
             \A i \in DOMAIN HistoryTail : HistoryTail[i].seq <= since

(***************************************************************************)
(* The ring is a log of the Limit most recent entries.                     *)
(***************************************************************************)
RecordedEntry == {Stored(n, ev) : n \in 1 .. MaxSeq, ev \in Event}

Log == INSTANCE BoundedLog WITH
         tail     <- HistoryTail,
         boundary <- ring.compactionSeq,
         Entry    <- RecordedEntry

LogRefinement == Log!LogSpec

=============================================================================
