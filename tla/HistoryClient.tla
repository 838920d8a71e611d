---------------------------- MODULE HistoryClient ----------------------------
(***************************************************************************)
(* A client that mirrors the model by paging through QueryEvents, the last *)
(* sequence id of a page being the cursor of the next call: the            *)
(* "paginating client" that the comments of pkg/events/history.go and      *)
(* manager.go reason about.  The client is not part of the repository; it  *)
(* is modelled from those comments.  Recording goes on between its calls.  *)
(***************************************************************************)
EXTENDS EventStore

CONSTANT PageLimit   (* the Limit of the client's queries                  *)

ASSUME PageLimitAssumption == PageLimit \in Nat \ {0}

VARIABLES
  cursor,            (* the last sequence id the client was given          *)
  mirror,            (* the model the client has built                     *)
  outrun             (* the boundary passed the client's cursor: a page    *)
                     (* was cut while events after the cursor were already *)
                     (* evicted (history variable)                         *)

clientVars == << cursor, mirror, outrun >>
vars == << latest, ring, sequenceNumber, cursor, mirror, outrun >>

Init ==
  /\ StoreInit
  /\ cursor = 0
  /\ mirror = EmptyReplica
  /\ outrun = FALSE

Page == QueryEvents(cursor, PageLimit, Operation, Key)

(* One query and the replay of its answer; an empty answer changes nothing. *)
Fetch ==
  \E page \in {Page} :
    /\ page # << >>
    /\ mirror' = Replay(mirror, page)
    /\ cursor' = Last(page).seq
    /\ outrun' = (outrun \/ (cursor # 0 /\ cursor < ring.compactionSeq))
    /\ UNCHANGED storeVars

(* The client starts over from nothing.                                    *)
StartOver ==
  /\ cursor # 0
  /\ cursor' = 0
  /\ mirror' = EmptyReplica
  /\ outrun' = FALSE
  /\ UNCHANGED storeVars

Next ==
  \/ StoreNext /\ UNCHANGED clientVars
  \/ Fetch
  \/ StartOver

(* The client keeps asking; it is free to start over, and nobody has to    *)
(* change the model.                                                       *)
Spec == Init /\ [][Next]_vars /\ WF_vars(Fetch)

-----------------------------------------------------------------------------
CaughtUp == Page = << >>

(***************************************************************************)
(* Paging is exact as long as the client keeps up: if the retention window *)
(* never moved past the client's cursor, then, once no page is left, the   *)
(* mirror is the model, however recording and paging interleaved.          *)
(***************************************************************************)
PagingReconstructs == CaughtUp /\ ~ outrun => mirror = latest.state

(***************************************************************************)
(* Even a client that was outrun holds, once caught up, every live         *)
(* resource with its current payload.  What it may keep is resources whose *)
(* Delete was evicted between two of its calls: the synthesized prefix     *)
(* consists of Creates only.                                               *)
(***************************************************************************)
OutrunKeepsLive ==
  CaughtUp => \A k \in LiveKeys(latest) : mirror[k] = latest.state[k]

(***************************************************************************)
(* Paging ends: a client that keeps asking catches up for good once the    *)
(* model is left alone (here: once the sequence ids are used up), unless   *)
(* it starts over for ever.                                                *)
(***************************************************************************)
PagingEnds == <>[] CaughtUp \/ []<> << StartOver >>_vars

=============================================================================
