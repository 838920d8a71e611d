---------------------------- MODULE LateDelivery ----------------------------
(***************************************************************************)
(* The event manager with requests that outlive their deadline: deliver    *)
(* gives every attempt notifyAttemptTimeout and then tries again or goes   *)
(* on, but a request that was sent is not taken back by that, and the      *)
(* handler at the other end (PostEventsPush) applies it whenever it gets   *)
(* to it.                                                                  *)
(***************************************************************************)
EXTENDS EventManager

VARIABLE underway     (* the timed-out requests: pairs (subscriber, event) *)

lateVars == << vars, underway >>

(* An attempt whose deadline passes while the request is under way.        *)
TimeOut(n) ==
  /\ Delivering(n) /\ ~ Hopeless(n)
  /\ UNCHANGED subVars
  /\ DeliverFail(n)
  /\ underway' = underway \cup {<< url[n], Head(batch[n]) >>}

ArriveLate ==
  \E << u, ev >> \in underway :
    /\ replica' = [replica EXCEPT ![u] = ApplyEvent(@, ev)]
    /\ newest' = [newest EXCEPT ![u][ev.key] = ev.ver]
    /\ underway' = underway \ {<< u, ev >>}
    /\ UNCHANGED << managerVars, writerVars, loopVars, url, queue, stopped,
                    failures, asOf >>

LateSpec ==
  /\ Init /\ underway = {}
  /\ [][ \/ Next /\ UNCHANGED underway
         \/ \E n \in Notifier : TimeOut(n)
         \/ ArriveLate ]_lateVars

=============================================================================
