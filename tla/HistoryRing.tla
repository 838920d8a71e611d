---------------------------- MODULE HistoryRing ----------------------------
(***************************************************************************)
(* The bounded history of the event manager (internal/events,              *)
(* history_ring.go): a preallocated ring of the most recent stored events. *)
(* A ring is a value [buf, next, size, compactionSeq]; buf is indexed from *)
(* 0 as in the code.  Timestamps are left out: the compaction boundary is  *)
(* compared by sequence id only.                                           *)
(***************************************************************************)
EXTENDS LatestState

CONSTANTS
  Limit,     (* capacity of the ring: WithHistoryLimit, default 1000       *)
  NoEntry    (* what a slot that was never written holds                   *)

(* WithHistoryLimit ignores a limit that is not positive.                  *)
ASSUME LimitAssumption == Limit \in Nat \ {0}

Slot == 0 .. Limit - 1

(* An event with its sequence id.                                          *)
Entry ==
  [seq : Nat, op : {"Create", "Update"}, key : Key, val : Value]
    \cup [seq : Nat, op : {"Delete"}, key : Key, val : {Absent}]

Stored(seq, ev) == [seq |-> seq, op |-> ev.op, key |-> ev.key, val |-> ev.val]

NewRing ==
  [buf |-> [i \in Slot |-> NoEntry], next |-> 0, size |-> 0, compactionSeq |-> 0]

(* Seeded fault: the index is not wrapped.                                 *)
NextUnwrapped(r) == r.next + 1

NextIndex(r) == (r.next + 1) % Limit

(* Seeded faults: the boundary is not recorded; it is that of the oldest  *)
(* entry retained, not of the one evicted.                                 *)
BoundaryForgotten(r) == r.compactionSeq

BoundaryRetained(r) == IF r.size = Limit THEN r.buf[NextIndex(r)].seq ELSE r.compactionSeq

(* The sequence id of the entry that the next Add evicts, if it does.      *)
Boundary(r) == IF r.size = Limit THEN r.buf[r.next].seq ELSE r.compactionSeq

(* Add overwrites the oldest entry once the ring is full; the sequence id  *)
(* of the entry it overwrites becomes the compaction boundary.             *)
RingAdd(r, e) ==
  [buf |-> [r.buf EXCEPT ![r.next] = e],
   next |-> NextIndex(r),
   size |-> IF r.size = Limit THEN r.size ELSE r.size + 1,
   compactionSeq |-> Boundary(r)]

(* Go's buf[lo:hi] as a sequence.                                          *)
Slice(buf, lo, hi) == [i \in 1 .. hi - lo |-> buf[lo + i - 1]]

(* Seeded fault: the retained entries in the order of the buffer.          *)
RingSnapshotUnrotated(r) == Slice(r.buf, 0, r.size)

(* The retained entries, oldest to newest.                                 *)
RingSnapshot(r) ==
  IF r.size < Limit
  THEN Slice(r.buf, 0, r.size)
  ELSE Slice(r.buf, r.next, Limit) \o Slice(r.buf, 0, r.next)

(***************************************************************************)
(* The type of a ring, with the part of its shape that RingSnapshot reads: *)
(* until the ring is full it is written from slot 0 upwards, and exactly   *)
(* the slots below size hold an entry.                                     *)
(***************************************************************************)
RingOK(r) ==
  /\ r = [buf |-> r.buf, next |-> r.next, size |-> r.size,
          compactionSeq |-> r.compactionSeq]
  /\ r.buf \in [Slot -> Entry \cup {NoEntry}]
  /\ r.next \in Slot
  /\ r.size \in 0 .. Limit
  /\ r.compactionSeq \in Nat
  /\ r.size < Limit => r.next = r.size
  /\ \A i \in Slot : i < r.size => r.buf[i] \in Entry

=============================================================================
