------------------------------ MODULE ConfigSync ------------------------------
(***************************************************************************)
(* The OTel configuration sync (pkg/endpointprobe/otelconfigwriter.go,     *)
(* watcher.go) with the filter chain it listens on (pkg/eventfilter) and   *)
(* the server that starts and stops both (cmd/modelsrv/server.go).         *)
(*                                                                         *)
(* A change of an ApiInstance becomes an event; the chain hands it to the  *)
(* filters it copied; the sync filter updates the registry of targets      *)
(* under the writer's mutex, and then asks for a flush.  The writer's      *)
(* goroutine flushes when it starts, after each debounced request, and     *)
(* once more when the server is told to stop.                              *)
(*                                                                         *)
(* An ApiInstance is its endpoint annotation; None stands for one that is  *)
(* not registered, and for annotations that are missing or invalid, all of *)
(* which the filter takes for no target.  A flush may fail, in rendering,  *)
(* writing or renaming.  A restart of the process is the initial state:    *)
(* the registry is gone, the file is what the last process left.           *)
(*                                                                         *)
(* Any goroutine may change any instance: a request, a sensor, the replay  *)
(* from an upstream.  Nothing keeps the events of two of them in the order *)
(* of their changes.                                                       *)
(***************************************************************************)
EXTENDS Integers, FiniteSets, Functions

CONSTANTS
  Goroutine,     (* that change ApiInstances                               *)
  Instance,      (* the ids of ApiInstances, which are ordered             *)
  Endpoint,      (* host:port, the DedupeKey of a target                   *)
  None

Annotation == Endpoint \cup {None}
Registry   == UNION {[d -> Endpoint] : d \in SUBSET Instance}

ASSUME ConfigAssumption ==
  /\ Instance \subseteq Nat
  /\ None \notin Endpoint

VARIABLES
  apis,          (* the model: the annotation of each instance             *)
  call,          (* per goroutine: the event it is filtering               *)
  registered,    (* whether the sync filter is in the chain                *)
  targets,       (* ConfigWriter: the registry                             *)
  dirty,         (* ... whether it changed since the last flush            *)
  trigger,       (* ... whether its channel holds a request                *)
  timer,         (* ... whether the debounce timer is set                  *)
  phase,         (* ... where its goroutine is                             *)
  snapshot,      (* ... what it is writing                                 *)
  file,          (* the configuration on disk                              *)
  main,          (* where the server's main goroutine is                   *)
  failed,        (* history: the last flush that was tried failed          *)
  kept,          (* history: the registries since the server was stopped   *)
  crossed        (* history: the instances that were last changed while    *)
                 (* another goroutine's event about them was on its way    *)

writer == << targets, dirty, trigger, timer, phase, snapshot, file >>
vars   == << apis, call, registered, writer, main, failed, kept, crossed >>

Idle(g) == call[g].step = "idle"
Quiet   == \A g \in Goroutine : Idle(g)
Running == main # "exited"
Writing == phase \in {"writing", "writingLast"}

(* The event of a change of an instance that is yet to reach the registry. *)
OnItsWay(g, i) == call[g].step \in {"send", "filter"} /\ call[g].id = i

Resting == [step |-> "idle", id |-> 0, endpoint |-> None]

Empty == [i \in {} |-> None]

(* dedupeTargets and RenderCollectorConfig: of the targets that share an   *)
(* endpoint the one with the lowest id is in the file.                     *)
Render(reg) ==
  {<< reg[i], i >> : i \in {j \in DOMAIN reg : \A k \in DOMAIN reg : reg[k] = reg[j] => j <= k}}

Missing  == {<< None, 0 >>}
Contents == {Missing} \cup {Render(reg) : reg \in Registry}

Init ==
  /\ apis = [i \in Instance |-> None]
  /\ call = [g \in Goroutine |-> Resting]
  /\ registered = FALSE
  /\ targets = Empty
  /\ dirty = TRUE
  /\ trigger = FALSE
  /\ timer = FALSE
  /\ phase = "unstarted"
  /\ snapshot = Empty
  /\ file \in Contents
  /\ main = "starting"
  /\ failed = FALSE
  /\ kept = {}
  /\ crossed = {}

-----------------------------------------------------------------------------
(***************************************************************************)
(* A change of an ApiInstance, and its event in the chain.                 *)
(***************************************************************************)

(* The model is changed under its mutex; the event is sent afterwards, by  *)
(* then perhaps behind one of a later change.                              *)
Change(g) ==
  /\ Running /\ main # "starting"
  /\ Idle(g)
  /\ \E i \in Instance, a \in Annotation :
       /\ apis' = [apis EXCEPT ![i] = a]
       /\ call' = [call EXCEPT ![g] = [step |-> "send", id |-> i, endpoint |-> a]]
       /\ crossed' = IF \E h \in Goroutine : OnItsWay(h, i) THEN crossed \cup {i}
                                                           ELSE crossed \ {i}
  /\ UNCHANGED << registered, writer, main, failed, kept >>

(* Chain.Apply copies the filters.  What it copied it will call, also if   *)
(* the filter is unregistered meanwhile.                                   *)
CopyFilters(g) ==
  /\ Running
  /\ call[g].step = "send"
  /\ call' = [call EXCEPT ![g] = IF registered THEN [@ EXCEPT !.step = "filter"] ELSE Resting]
  /\ UNCHANGED << apis, registered, writer, main, failed, kept, crossed >>

(* Seeded fault: an instance that lost its annotations stays.              *)
UpdatedUnlessGone(id, e) ==
  IF e = None THEN targets ELSE [i \in DOMAIN targets \cup {id} |-> IF i = id THEN e ELSE targets[i]]

(* ConfigWriter.Upsert and Remove, as far as the registry goes.            *)
Updated(id, e) ==
  IF e = None THEN Restrict(targets, DOMAIN targets \ {id})
              ELSE [i \in DOMAIN targets \cup {id} |-> IF i = id THEN e ELSE targets[i]]

(* A removal of what is not there changes nothing and asks for nothing.    *)
Alters(id, e) == e # None \/ id \in DOMAIN targets

(* configSyncFilterFunc: the registry is updated under the mutex ...       *)
UpdateRegistry(g) ==
  /\ Running
  /\ call[g].step = "filter"
  /\ LET id == call[g].id
         e  == call[g].endpoint
     IN  /\ targets' = Updated(id, e)
         /\ dirty' = (dirty \/ Alters(id, e))
         /\ call' = [call EXCEPT ![g] = IF Alters(id, e) THEN [@ EXCEPT !.step = "notify"]
                                                         ELSE Resting]
  /\ kept' = IF main \in {"starting", "serving"} THEN kept ELSE kept \cup {targets'}
  /\ UNCHANGED << apis, registered, trigger, timer, phase, snapshot, file, main,
                  failed, crossed >>

(* Seeded fault: the channel has no buffer.                                *)
RequestIfAwaited == trigger \/ phase = "select"

(* The channel has room for one request.                                   *)
Request == TRUE

(* ... and a flush is asked for: a send that does not block.               *)
Notify(g) ==
  /\ Running
  /\ call[g].step = "notify"
  /\ trigger' = Request
  /\ call' = [call EXCEPT ![g] = Resting]
  /\ UNCHANGED << apis, registered, targets, dirty, timer, phase, snapshot, file, main,
                  failed, kept, crossed >>

-----------------------------------------------------------------------------
(***************************************************************************)
(* The writer's goroutine.                                                 *)
(***************************************************************************)

(* The first half of Flush: under the mutex the registry is copied and     *)
(* marked clean; nothing more if it was clean.                             *)
BeginFlush(next, afterwards) ==
  \/ /\ dirty
     /\ dirty' = FALSE
     /\ snapshot' = targets
     /\ phase' = next
     /\ failed' = FALSE
  \/ /\ ~ dirty
     /\ phase' = afterwards
     /\ UNCHANGED << dirty, snapshot, failed >>

(* Run is scheduled at some time after "go": it adds itself to the wait    *)
(* group and flushes.                                                      *)
StartRun ==
  /\ Running
  /\ phase = "unstarted"
  /\ BeginFlush("writing", "select")
  /\ UNCHANGED << apis, call, registered, targets, trigger, timer, file, main, kept,
                  crossed >>

(* A request sets the debounce timer, anew if it was set.                  *)
TakeTrigger ==
  /\ Running
  /\ phase = "select"
  /\ trigger
  /\ trigger' = FALSE
  /\ timer' = TRUE
  /\ UNCHANGED << apis, call, registered, targets, dirty, phase, snapshot, file, main,
                  failed, kept, crossed >>

Fire ==
  /\ Running
  /\ phase = "select"
  /\ timer
  /\ timer' = FALSE
  /\ BeginFlush("writing", "select")
  /\ UNCHANGED << apis, call, registered, targets, trigger, file, main, kept, crossed >>

(* Seeded fault: the last flush is left to the timer.                      *)
LastFlushLeftOut == phase' = "stopped" /\ UNCHANGED << dirty, snapshot, failed >>

LastFlush == BeginFlush("writingLast", "stopped")

(* The context is cancelled: the timer is stopped, and a last flush made.  *)
SeeCancel ==
  /\ Running
  /\ phase = "select"
  /\ main \notin {"starting", "serving"}
  /\ timer' = FALSE
  /\ LastFlush
  /\ UNCHANGED << apis, call, registered, targets, trigger, file, main, kept, crossed >>

PhaseAfter == IF phase = "writing" THEN "select" ELSE "stopped"

(* Seeded fault: the registry is clean once it is written.                 *)
CleanOnceWritten == FALSE

DirtyAfter == dirty

(* Seeded fault: requests that came meanwhile are taken for answered.      *)
TriggerAnswered == FALSE

TriggerAfter == trigger

(* The second half of Flush.  The file is replaced as a whole, or holds    *)
(* the same bytes already.                                                 *)
Write ==
  /\ Running
  /\ Writing
  /\ file' = Render(snapshot)
  /\ dirty' = DirtyAfter
  /\ trigger' = TriggerAfter
  /\ snapshot' = Empty
  /\ phase' = PhaseAfter
  /\ UNCHANGED << apis, call, registered, targets, timer, main, failed, kept, crossed >>

(* A flush that fails marks the registry dirty again, for a later flush.   *)
FailToWrite ==
  /\ Running
  /\ Writing
  /\ dirty' = TRUE
  /\ failed' = TRUE
  /\ snapshot' = Empty
  /\ phase' = PhaseAfter
  /\ UNCHANGED << apis, call, registered, targets, trigger, timer, file, main, kept,
                  crossed >>

-----------------------------------------------------------------------------
(***************************************************************************)
(* The server: it starts the writer and registers the filter, and at a     *)
(* signal cancels the context, unregisters the filter, and waits.  The     *)
(* chain also adds and deletes a FilterRule for the filter, a resource of  *)
(* its own, whose events this filter lets pass.                            *)
(***************************************************************************)
RegisterFilter ==
  /\ main = "starting"
  /\ main' = "serving"
  /\ registered' = TRUE
  /\ UNCHANGED << apis, call, writer, failed, kept, crossed >>

Cancel ==
  /\ main = "serving"
  /\ main' = "cancelled"
  /\ kept' = {targets}
  /\ UNCHANGED << apis, call, registered, writer, failed, crossed >>

Unregister ==
  /\ main = "cancelled"
  /\ main' = "waiting"
  /\ registered' = FALSE
  /\ UNCHANGED << apis, call, writer, failed, kept, crossed >>

(* The wait group is empty when Run returned, and before it began.  Or     *)
(* the time is up, if the disk hangs.                                      *)
Leave ==
  /\ main = "waiting"
  /\ phase \in {"unstarted", "stopped"} \/ Writing
  /\ main' = "exited"
  /\ UNCHANGED << apis, call, registered, writer, failed, kept, crossed >>

Deliver(g) == CopyFilters(g) \/ UpdateRegistry(g) \/ Notify(g)
EndFlush   == Write \/ FailToWrite
Stop       == Cancel \/ Unregister \/ Leave

Next ==
  \/ \E g \in Goroutine : Change(g) \/ Deliver(g)
  \/ StartRun \/ TakeTrigger \/ Fire \/ SeeCancel \/ EndFlush
  \/ RegisterFilter \/ Stop

(* The writer's goroutine goes on, as do the goroutines that deliver       *)
(* events.  The debounce timer expires if nobody asks for a flush any      *)
(* more: every request sets it anew.                                       *)
Fairness ==
  /\ \A g \in Goroutine : WF_vars(Deliver(g))
  /\ WF_vars(StartRun) /\ WF_vars(TakeTrigger) /\ WF_vars(EndFlush)
  /\ WF_vars(Quiet /\ Fire)

Safety == Init /\ [][Next]_vars
Spec   == Safety /\ Fairness

-----------------------------------------------------------------------------
(* The type invariant.                                                     *)
CallType ==
  [step : {"idle", "send", "filter", "notify"}, id : Instance \cup {0}, endpoint : Annotation]

ConfigTypeOK ==
  /\ apis \in [Instance -> Annotation]
  /\ call \in [Goroutine -> CallType]
  /\ \A g \in Goroutine : ~ Idle(g) => call[g].id \in Instance
  /\ registered \in BOOLEAN
  /\ registered <=> main \in {"serving", "cancelled"}
  /\ targets \in Registry
  /\ dirty \in BOOLEAN /\ trigger \in BOOLEAN /\ timer \in BOOLEAN /\ failed \in BOOLEAN
  /\ phase \in {"unstarted", "select", "writing", "writingLast", "stopped"}
  /\ snapshot \in Registry
  /\ file \in Contents
  /\ main \in {"starting", "serving", "cancelled", "waiting", "exited"}
  /\ kept \subseteq Registry
  /\ crossed \subseteq Instance

(***************************************************************************)
(* A registry that is clean is on disk, unless it is being written: a      *)
(* change that comes between the snapshot and the end of the write is not  *)
(* taken for written (otelconfigwriter.go, Flush).                         *)
(***************************************************************************)
CleanIsWritten == ~ dirty /\ ~ Writing => file = Render(targets)

(***************************************************************************)
(* No wake-up is lost: while the writer runs, a registry that is dirty has *)
(* a flush coming, from a request in the channel, the timer, or a          *)
(* goroutine that is about to ask; or the last flush failed, after which   *)
(* the code waits for the next change.                                     *)
(***************************************************************************)
FlushIsComing ==
  dirty /\ phase \in {"select", "writing"} =>
    trigger \/ timer \/ failed \/ \E g \in Goroutine : call[g].step = "notify"

(* The registry has the instance's endpoint, if it has one.                *)
Agrees(i) ==
  /\ i \in DOMAIN targets <=> apis[i] # None
  /\ i \in DOMAIN targets => targets[i] = apis[i]

(***************************************************************************)
(* The registry follows the model: while the filter is registered and no   *)
(* event is under way, an instance is a target if and only if it has an    *)
(* endpoint, and then with that one, unless its last change was made while *)
(* another goroutine's event about it was on its way.  A later change that *)
(* meets no other repairs what such a race left behind                     *)
(* (structure.go:431-464, watcher.go:20-55).                               *)
(***************************************************************************)
RegistryFollowsModel ==
  registered /\ Quiet => \A i \in Instance \ crossed : Agrees(i)

(***************************************************************************)
(* The filter "keeps an OTel collector config in sync with ApiInstance     *)
(* endpoint annotations" (watcher.go:10-11), whoever changes them.         *)
(***************************************************************************)
RegistryInSync ==
  registered /\ Quiet => \A i \in Instance : Agrees(i)

(***************************************************************************)
(* "A final flush runs on exit so pending changes are not lost"            *)
(* (otelconfigwriter.go:106): when the writer stopped, and did not fail,   *)
(* the file is a registry as it was when the server was told to stop, or   *)
(* later.                                                                  *)
(***************************************************************************)
LastFlushKeepsChanges ==
  phase = "stopped" /\ ~ failed => \E reg \in kept : file = Render(reg)

(***************************************************************************)
(* When changes cease while the server runs, the file is brought up to     *)
(* date, unless a flush fails.                                             *)
(***************************************************************************)
FileCatchesUp ==
  <>[](main = "serving" /\ Quiet) => <>[](failed \/ file = Render(targets))

=============================================================================
