---------------------------- MODULE ServerProofs ----------------------------
(***************************************************************************)
(* What runs in the background of the server: what ConfigSync keeps, for   *)
(* any goroutines, instances and endpoints, and what FileSensor keeps, for *)
(* any files, tokens and writes.                                           *)
(***************************************************************************)
EXTENDS ConfigSync, FileSensor, TLAPS

(* A registry without targets.                                            *)
LEMMA EmptyIsRegistry == Empty \in Registry
<1>1. Empty \in [{} -> Endpoint]
  BY DEF Empty
<1> QED
  BY <1>1 DEF Registry

(* What the filter does to the registry leaves a registry.                 *)
LEMMA UpdatedIsRegistry ==
  ASSUME NEW id \in Instance, NEW e \in Annotation, targets \in Registry
  PROVE  Updated(id, e) \in Registry
<1>1. PICK d \in SUBSET Instance : targets \in [d -> Endpoint]
  BY DEF Registry
<1>2. CASE e = None
  <2>1. Updated(id, e) \in [d \ {id} -> Endpoint]
    BY <1>1, <1>2 DEF Updated, Restrict
  <2> QED
    BY <2>1 DEF Registry
<1>3. CASE e # None
  <2>1. e \in Endpoint
    BY <1>3 DEF Annotation
  <2>2. Updated(id, e) \in [d \cup {id} -> Endpoint]
    BY <1>1, <1>3, <2>1 DEF Updated
  <2> QED
    BY <2>2 DEF Registry
<1> QED
  BY <1>2, <1>3

(* The types are kept by every step.                                       *)
LEMMA TypeInvariant == Safety => []ConfigTypeOK
<1>1. Init => ConfigTypeOK
  <2> SUFFICES ASSUME Init PROVE ConfigTypeOK
    OBVIOUS
  <2>1. apis \in [Instance -> Annotation]
    BY DEF Init, Annotation
  <2>2. Resting \in CallType
    BY DEF Resting, CallType, Annotation
  <2>3. call \in [Goroutine -> CallType] /\ \A g \in Goroutine : Idle(g)
    BY <2>2 DEF Init, Idle, Resting
  <2> QED
    BY <2>1, <2>3, EmptyIsRegistry DEF Init, ConfigTypeOK
<1>2. ConfigTypeOK /\ [Next]_vars => ConfigTypeOK'
  <2> SUFFICES ASSUME ConfigTypeOK, [Next]_vars PROVE ConfigTypeOK'
    OBVIOUS
  <2> USE DEF ConfigTypeOK
  <2>1. ASSUME NEW g \in Goroutine, Change(g) PROVE ConfigTypeOK'
    <3>1. PICK i \in Instance, a \in Annotation :
            /\ apis' = [apis EXCEPT ![i] = a]
            /\ call' = [call EXCEPT ![g] = [step |-> "send", id |-> i, endpoint |-> a]]
            /\ crossed' \in {crossed \cup {i}, crossed \ {i}}
      BY <2>1 DEF Change
    <3>2. crossed' \subseteq Instance
      BY <3>1
    <3>3. call' \in [Goroutine -> CallType]
      BY <3>1 DEF CallType
    <3>4. \A h \in Goroutine : ~ Idle(h)' => call'[h].id \in Instance
      BY <3>1 DEF Idle
    <3> QED
      BY <2>1, <3>1, <3>2, <3>3, <3>4 DEF Change, writer
  <2>2. ASSUME NEW g \in Goroutine, CopyFilters(g) PROVE ConfigTypeOK'
    <3>1. call' \in [Goroutine -> CallType]
      BY <2>2 DEF CopyFilters, CallType, Resting, Annotation
    <3>2. \A h \in Goroutine : ~ Idle(h)' => call'[h].id \in Instance
      BY <2>2 DEF CopyFilters, Idle, Resting, CallType
    <3> QED
      BY <2>2, <3>1, <3>2 DEF CopyFilters, writer
  <2>3. ASSUME NEW g \in Goroutine, UpdateRegistry(g) PROVE ConfigTypeOK'
    <3> DEFINE id == call[g].id
               e  == call[g].endpoint
    <3>1. id \in Instance /\ e \in Annotation
      BY <2>3 DEF UpdateRegistry, Idle, CallType
    <3>2. Updated(id, e) \in Registry
      BY <3>1, UpdatedIsRegistry
    <3>3. targets' = Updated(id, e)
      BY <2>3 DEF UpdateRegistry
    <3>4. dirty' \in BOOLEAN
      BY <2>3 DEF UpdateRegistry, Alters
    <3>5. call' \in [Goroutine -> CallType]
      BY <2>3 DEF UpdateRegistry, CallType, Resting, Annotation
    <3>6. \A h \in Goroutine : ~ Idle(h)' => call'[h].id \in Instance
      BY <2>3 DEF UpdateRegistry, Idle, Resting, CallType
    <3>7. kept' \subseteq Registry
      BY <2>3, <3>2, <3>3 DEF UpdateRegistry
    <3>8. UNCHANGED << apis, registered, trigger, timer, phase, snapshot, file, main, failed,
                     crossed >>
      BY <2>3 DEF UpdateRegistry
    <3> HIDE DEF id, e
    <3> QED
      BY <3>2, <3>3, <3>4, <3>5, <3>6, <3>7, <3>8
  <2>4. ASSUME NEW g \in Goroutine, Notify(g) PROVE ConfigTypeOK'
    <3>1. call' \in [Goroutine -> CallType]
      BY <2>4 DEF Notify, CallType, Resting, Annotation
    <3>2. \A h \in Goroutine : ~ Idle(h)' => call'[h].id \in Instance
      BY <2>4 DEF Notify, Idle, Resting, CallType
    <3> QED
      BY <2>4, <3>1, <3>2 DEF Notify, Request
  <2> USE DEF Idle
  <2>5. CASE StartRun
    BY <2>5 DEF StartRun, BeginFlush
  <2>6. CASE TakeTrigger
    BY <2>6 DEF TakeTrigger
  <2>7. CASE Fire
    BY <2>7 DEF Fire, BeginFlush
  <2>8. CASE SeeCancel
    BY <2>8 DEF SeeCancel, LastFlush, BeginFlush
  <2>9. CASE Write
    BY <2>9, EmptyIsRegistry DEF Write, DirtyAfter, TriggerAfter, PhaseAfter, Contents
  <2>10. CASE FailToWrite
    BY <2>10, EmptyIsRegistry DEF FailToWrite, PhaseAfter
  <2>11. CASE RegisterFilter
    BY <2>11 DEF RegisterFilter, writer
  <2>12. CASE Cancel
    BY <2>12 DEF Cancel, writer
  <2>13. CASE Unregister
    BY <2>13 DEF Unregister, writer
  <2>14. CASE Leave
    BY <2>14 DEF Leave, writer
  <2>15. CASE UNCHANGED vars
    BY <2>15 DEF vars, writer
  <2> QED
    BY <2>1, <2>2, <2>3, <2>4, <2>5, <2>6, <2>7, <2>8, <2>9, <2>10, <2>11, <2>12,
       <2>13, <2>14, <2>15
       DEF Next, Deliver, EndFlush, Stop
<1> QED
  BY <1>1, <1>2, PTL DEF Safety

(***************************************************************************)
(* The flush.  A clean registry is on disk, or what is being written; what *)
(* makes this inductive is that the registry begins dirty, whatever the    *)
(* last process left on disk, and that a change during a write makes it    *)
(* dirty again.                                                            *)
(***************************************************************************)
FlushInv ==
  /\ phase = "unstarted" => dirty
  /\ Writing /\ ~ dirty => snapshot = targets
  /\ CleanIsWritten
  /\ FlushIsComing

(* What makes FlushIsComing and CleanIsWritten inductive.                  *)
LEMMA FlushInvariant == Safety => []FlushInv
<1>1. Init => FlushInv
  BY DEF Init, FlushInv, CleanIsWritten, FlushIsComing, Writing
<1>2. ConfigTypeOK /\ FlushInv /\ [Next]_vars => FlushInv'
  <2> SUFFICES ASSUME ConfigTypeOK, FlushInv, [Next]_vars PROVE FlushInv'
    OBVIOUS
  <2> DEFINE Asking == \E g \in Goroutine : call[g].step = "notify"
  <2>0. /\ dirty \in BOOLEAN /\ trigger \in BOOLEAN /\ timer \in BOOLEAN
        /\ failed \in BOOLEAN
        /\ call \in [Goroutine -> CallType]
    BY DEF ConfigTypeOK
  <2>1. ASSUME NEW g \in Goroutine, Change(g) PROVE FlushInv'
    <3>1. Asking => Asking'
      BY <2>0, <2>1 DEF Change, Idle
    <3> QED
      BY <2>1, <3>1 DEF Change, writer, FlushInv, CleanIsWritten, FlushIsComing, Writing
  <2>2. ASSUME NEW g \in Goroutine, CopyFilters(g) PROVE FlushInv'
    <3>1. Asking => Asking'
      BY <2>0, <2>2 DEF CopyFilters
    <3> QED
      BY <2>2, <3>1 DEF CopyFilters, writer, FlushInv, CleanIsWritten, FlushIsComing, Writing
  <2>3. ASSUME NEW g \in Goroutine, UpdateRegistry(g) PROVE FlushInv'
    <3>1. CASE Alters(call[g].id, call[g].endpoint)
      <4>1. dirty' /\ Asking'
        BY <2>0, <2>3, <3>1 DEF UpdateRegistry, CallType
      <4> QED
        BY <2>3, <4>1 DEF UpdateRegistry, FlushInv, CleanIsWritten, FlushIsComing, Writing
    <3>2. CASE ~ Alters(call[g].id, call[g].endpoint)
      <4>1. Asking => Asking'
        BY <2>0, <2>3 DEF UpdateRegistry
      <4>2. (dirty' <=> dirty) /\ targets' = targets
        <5>1. call[g].endpoint = None /\ call[g].id \notin DOMAIN targets
          BY <3>2 DEF Alters
        <5>2. targets' = Restrict(targets, DOMAIN targets \ {call[g].id})
          BY <2>3, <5>1 DEF UpdateRegistry, Updated
        <5>3. PICK d \in SUBSET Instance : targets \in [d -> Endpoint]
          BY DEF ConfigTypeOK, Registry
        <5>4. targets' = targets
          BY <5>1, <5>2, <5>3 DEF Restrict
        <5> QED
          BY <2>3, <3>2, <5>4 DEF UpdateRegistry
      <4> QED
        BY <2>3, <4>1, <4>2
           DEF UpdateRegistry, FlushInv, CleanIsWritten, FlushIsComing, Writing
    <3> QED
      BY <3>1, <3>2
  <2>4. ASSUME NEW g \in Goroutine, Notify(g) PROVE FlushInv'
    BY <2>4 DEF Notify, Request, FlushInv, CleanIsWritten, FlushIsComing, Writing
  <2> USE DEF FlushInv, CleanIsWritten, FlushIsComing, Writing
  <2>5. CASE StartRun
    BY <2>0, <2>5 DEF StartRun, BeginFlush
  <2>6. CASE TakeTrigger
    BY <2>0, <2>6 DEF TakeTrigger
  <2>7. CASE Fire
    BY <2>0, <2>7 DEF Fire, BeginFlush
  <2>8. CASE SeeCancel
    BY <2>0, <2>8 DEF SeeCancel, LastFlush, BeginFlush
  <2>9. CASE Write
    BY <2>0, <2>9 DEF Write, DirtyAfter, TriggerAfter, PhaseAfter
  <2>10. CASE FailToWrite
    BY <2>0, <2>10 DEF FailToWrite, PhaseAfter
  <2>11. CASE RegisterFilter \/ Stop
    BY <2>11 DEF RegisterFilter, Stop, Cancel, Unregister, Leave, writer
  <2>12. CASE UNCHANGED vars
    BY <2>12 DEF vars, writer
  <2> QED
    BY <2>1, <2>2, <2>3, <2>4, <2>5, <2>6, <2>7, <2>8, <2>9, <2>10, <2>11, <2>12
       DEF Next, Deliver, EndFlush
<1> QED
  BY <1>1, <1>2, TypeInvariant, PTL DEF Safety

(***************************************************************************)
(* The last flush.  From the moment the server is told to stop, the        *)
(* registry and what the last flush writes are among those kept.  That a   *)
(* flush which finds nothing to do may be the last needs CleanIsWritten.   *)
(***************************************************************************)
Stopping == main \notin {"starting", "serving"}

(* What the last flush takes is a registry of the time since the server    *)
(* was told to stop.                                                       *)
LastInv ==
  /\ Stopping => targets \in kept
  /\ phase \in {"writingLast", "stopped"} => Stopping
  /\ phase = "writingLast" => snapshot \in kept
  /\ failed => dirty
  /\ LastFlushKeepsChanges

(* What makes LastFlushKeepsChanges inductive.                             *)
LEMMA LastInvariant == Safety => []LastInv
<1>1. Init => LastInv
  BY DEF Init, LastInv, LastFlushKeepsChanges, Stopping
<1>2. ConfigTypeOK /\ FlushInv /\ LastInv /\ [Next]_vars => LastInv'
  <2> SUFFICES ASSUME ConfigTypeOK, FlushInv, LastInv, [Next]_vars PROVE LastInv'
    OBVIOUS
  <2> USE DEF LastInv, LastFlushKeepsChanges, Stopping
  <2>0. /\ dirty \in BOOLEAN /\ failed \in BOOLEAN
        /\ phase \in {"unstarted", "select", "writing", "writingLast", "stopped"}
    BY DEF ConfigTypeOK
  <2>1. ASSUME NEW g \in Goroutine, Change(g) \/ Deliver(g) PROVE LastInv'
    <3>1. CASE UpdateRegistry(g)
      BY <2>0, <3>1 DEF UpdateRegistry
    <3>2. CASE Change(g)
      BY <3>2 DEF Change, writer
    <3>3. CASE CopyFilters(g)
      BY <3>3 DEF CopyFilters, writer
    <3>4. CASE Notify(g)
      BY <3>4 DEF Notify
    <3> QED
      BY <2>1, <3>1, <3>2, <3>3, <3>4 DEF Deliver
  <2>2. CASE StartRun
    BY <2>0, <2>2 DEF StartRun, BeginFlush
  <2>3. CASE TakeTrigger
    BY <2>3 DEF TakeTrigger
  <2>4. CASE Fire
    BY <2>0, <2>4 DEF Fire, BeginFlush
  <2>5. CASE SeeCancel
    <3>1. CASE dirty
      BY <2>0, <2>5, <3>1 DEF SeeCancel, LastFlush, BeginFlush
    <3>2. CASE ~ dirty
      <4>1. file = Render(targets)
        BY <2>5, <3>2 DEF SeeCancel, FlushInv, CleanIsWritten, Writing
      <4> QED
        BY <2>0, <2>5, <3>2, <4>1 DEF SeeCancel, LastFlush, BeginFlush
    <3> QED
      BY <3>1, <3>2
  <2>6. CASE Write
    BY <2>0, <2>6 DEF Write, Writing, PhaseAfter, DirtyAfter
  <2>7. CASE FailToWrite
    BY <2>0, <2>7 DEF FailToWrite, Writing, PhaseAfter
  <2>8. CASE RegisterFilter \/ Stop
    <3>1. CASE Cancel
      BY <2>0, <3>1 DEF Cancel, writer
    <3>2. CASE RegisterFilter \/ Unregister \/ Leave
      BY <3>2 DEF RegisterFilter, Unregister, Leave, writer
    <3> QED
      BY <2>8, <3>1, <3>2 DEF Stop
  <2>9. CASE UNCHANGED vars
    BY <2>9 DEF vars, writer
  <2> QED
    BY <2>1, <2>2, <2>3, <2>4, <2>5, <2>6, <2>7, <2>8, <2>9 DEF Next, EndFlush
<1> QED
  BY <1>1, <1>2, TypeInvariant, FlushInvariant, PTL DEF Safety

(***************************************************************************)
(* The registry and the model.  An instance that no race crossed has at    *)
(* most one event on its way, which carries its annotation; without one,   *)
(* the registry agrees.  A change that meets no other event about its      *)
(* instance makes this true again, whatever went before.                   *)
(***************************************************************************)
InStep(i) ==
  /\ \A g \in Goroutine : OnItsWay(g, i) => call[g].endpoint = apis[i]
  /\ registered => Agrees(i) \/ \E g \in Goroutine : OnItsWay(g, i)

(* Every instance is in step, but those a race crossed.                    *)
FollowInv ==
  /\ main = "starting" => Quiet /\ \A i \in Instance : Agrees(i)
  /\ \A i \in Instance \ crossed : InStep(i)

(* What the filter does to the target of one instance.                     *)
LEMMA UpdatedTargets ==
  ASSUME NEW id \in Instance, NEW e \in Annotation, targets \in Registry
  PROVE  /\ id \in DOMAIN Updated(id, e) <=> e # None
         /\ e # None => Updated(id, e)[id] = e
         /\ \A i \in Instance \ {id} :
              /\ i \in DOMAIN Updated(id, e) <=> i \in DOMAIN targets
              /\ i \in DOMAIN targets => Updated(id, e)[i] = targets[i]
<1>1. CASE e = None
  BY <1>1 DEF Updated, Restrict
<1>2. CASE e # None
  BY <1>2 DEF Updated
<1> QED
  BY <1>1, <1>2

(* What makes RegistryFollowsModel inductive.                              *)
LEMMA FollowInvariant == Safety => []FollowInv
<1>1. Init => FollowInv
  <2> SUFFICES ASSUME Init PROVE FollowInv
    OBVIOUS
  <2>1. Quiet /\ ~ registered
    BY DEF Init, Quiet, Idle, Resting
  <2>2. \A i \in Instance : Agrees(i)
    BY DEF Init, Agrees, Empty
  <2>3. \A g \in Goroutine, i \in Instance : ~ OnItsWay(g, i)
    BY <2>1 DEF Quiet, Idle, OnItsWay
  <2> QED
    BY <2>1, <2>2, <2>3 DEF FollowInv, InStep
<1>2. ConfigTypeOK /\ FollowInv /\ [Next]_vars => FollowInv'
  <2> SUFFICES ASSUME ConfigTypeOK, FollowInv, [Next]_vars PROVE FollowInv'
    OBVIOUS
  <2>0. /\ apis \in [Instance -> Annotation]
        /\ call \in [Goroutine -> CallType]
        /\ targets \in Registry
        /\ \A g \in Goroutine : ~ Idle(g) => call[g].id \in Instance
    BY DEF ConfigTypeOK
  <2>1. ASSUME NEW g \in Goroutine, Change(g) PROVE FollowInv'
    <3>1. PICK i \in Instance, a \in Annotation :
            /\ apis' = [apis EXCEPT ![i] = a]
            /\ call' = [call EXCEPT ![g] = [step |-> "send", id |-> i, endpoint |-> a]]
            /\ crossed' = IF \E h \in Goroutine : OnItsWay(h, i) THEN crossed \cup {i}
                                                                ELSE crossed \ {i}
      BY <2>1 DEF Change
    <3>2. main' = main /\ main # "starting" /\ Idle(g) /\ registered' = registered
          /\ targets' = targets
      BY <2>1 DEF Change, writer
    <3>3. ASSUME NEW j \in Instance \ crossed', j = i PROVE InStep(j)'
      <4>1. \A h \in Goroutine : ~ OnItsWay(h, i)
        BY <3>1, <3>3
      <4>2. \A h \in Goroutine \ {g} : ~ OnItsWay(h, i)'
        BY <2>0, <3>1, <4>1 DEF OnItsWay
      <4>3. OnItsWay(g, i)' /\ call'[g].endpoint = apis'[i]
        BY <2>0, <3>1 DEF OnItsWay
      <4> QED
        BY <3>3, <4>2, <4>3 DEF InStep
    <3>4. ASSUME NEW j \in Instance \ crossed', j # i PROVE InStep(j)'
      <4>1. InStep(j)
        BY <3>1, <3>4 DEF FollowInv
      <4>2. \A h \in Goroutine : OnItsWay(h, j)' <=> OnItsWay(h, j)
        BY <2>0, <3>1, <3>2, <3>4 DEF OnItsWay, Idle
      <4>3. \A h \in Goroutine : OnItsWay(h, j) => call'[h] = call[h]
        BY <2>0, <3>1, <3>2 DEF OnItsWay, Idle
      <4>4. apis'[j] = apis[j]
        BY <2>0, <3>1, <3>4
      <4> QED
        BY <3>2, <4>1, <4>2, <4>3, <4>4 DEF InStep, Agrees
    <3> QED
      BY <3>2, <3>3, <3>4 DEF FollowInv
  <2>2. ASSUME NEW g \in Goroutine, CopyFilters(g) PROVE FollowInv'
    <3>1. /\ UNCHANGED << apis, targets, main, registered, crossed >>
          /\ main # "starting"
      BY <2>2 DEF CopyFilters, writer, FollowInv, Quiet, Idle
    <3>2. \A h \in Goroutine, j \in Instance : OnItsWay(h, j)' =>
            OnItsWay(h, j) /\ call'[h].endpoint = call[h].endpoint
      BY <2>0, <2>2 DEF CopyFilters, OnItsWay, CallType, Resting
    <3>3. registered => \A h \in Goroutine, j \in Instance : OnItsWay(h, j) => OnItsWay(h, j)'
      BY <2>0, <2>2 DEF CopyFilters, OnItsWay, CallType
    <3> QED
      BY <3>1, <3>2, <3>3 DEF FollowInv, InStep, Agrees
  <2>3. ASSUME NEW g \in Goroutine, UpdateRegistry(g) PROVE FollowInv'
    <3>1. PICK id \in Instance, e \in Annotation : id = call[g].id /\ e = call[g].endpoint
      BY <2>0, <2>3 DEF UpdateRegistry, Idle, CallType
    <3>2. /\ targets' = Updated(id, e)
          /\ UNCHANGED << apis, main, registered, crossed >>
          /\ main # "starting"
      BY <2>3, <3>1 DEF UpdateRegistry, FollowInv, Quiet, Idle
    <3>3. \A h \in Goroutine \ {g} : call'[h] = call[h]
      BY <2>0, <2>3 DEF UpdateRegistry
    <3>4. call'[g].step \notin {"send", "filter"}
      BY <2>0, <2>3 DEF UpdateRegistry, CallType, Resting
    <3>5. \A h \in Goroutine, j \in Instance : OnItsWay(h, j)' =>
            OnItsWay(h, j) /\ call'[h].endpoint = call[h].endpoint
      BY <3>3, <3>4 DEF OnItsWay
    <3>6. id \notin crossed => Agrees(id)'
      <4>1. OnItsWay(g, id)
        BY <2>3, <3>1 DEF UpdateRegistry, OnItsWay
      <4>2. id \notin crossed => e = apis[id]
        BY <3>1, <4>1 DEF FollowInv, InStep
      <4> QED
        BY <2>0, <3>2, <4>2, UpdatedTargets DEF Agrees
    <3>7. \A j \in Instance \ {id} : Agrees(j) => Agrees(j)'
      BY <2>0, <3>1, <3>2, UpdatedTargets DEF Agrees
    <3>8. \A j \in Instance \ {id}, h \in Goroutine : OnItsWay(h, j) => OnItsWay(h, j)'
      BY <3>1, <3>3 DEF OnItsWay
    <3> QED
      BY <3>2, <3>5, <3>6, <3>7, <3>8 DEF FollowInv, InStep
  <2>4. ASSUME NEW g \in Goroutine, Notify(g) PROVE FollowInv'
    BY <2>0, <2>4 DEF Notify, Resting, FollowInv, InStep, Agrees, OnItsWay, Quiet, Idle
  <2>5. CASE StartRun \/ TakeTrigger \/ Fire \/ SeeCancel \/ EndFlush
    BY <2>5 DEF StartRun, TakeTrigger, Fire, SeeCancel, EndFlush, Write, FailToWrite,
                FollowInv, InStep, Agrees, OnItsWay, Quiet, Idle
  <2>6. CASE RegisterFilter \/ Stop
    BY <2>6 DEF RegisterFilter, Stop, Cancel, Unregister, Leave, writer, ConfigTypeOK,
                FollowInv, InStep, Agrees, OnItsWay, Quiet, Idle
  <2>7. CASE UNCHANGED vars
    BY <2>7 DEF vars, writer, FollowInv, InStep, Agrees, OnItsWay, Quiet, Idle
  <2> QED
    BY <2>1, <2>2, <2>3, <2>4, <2>5, <2>6, <2>7 DEF Next, Deliver
<1> QED
  BY <1>1, <1>2, TypeInvariant, PTL DEF Safety

-----------------------------------------------------------------------------
(* The registry, the flags, the file and the goroutines are what they can  *)
(* be in every state the writer and the server reach.                      *)
THEOREM ConfigTypeCorrect == Spec => []ConfigTypeOK
BY TypeInvariant, PTL DEF Spec

(* A registry that is not dirty is on disk, or being written.              *)
THEOREM WrittenCorrect == Spec => []CleanIsWritten
<1>1. FlushInv => CleanIsWritten
  BY DEF FlushInv
<1> QED
  BY <1>1, FlushInvariant, PTL DEF Spec

(* No change waits for a flush that nobody asked for.                      *)
THEOREM FlushComingCorrect == Spec => []FlushIsComing
<1>1. FlushInv => FlushIsComing
  BY DEF FlushInv
<1> QED
  BY <1>1, FlushInvariant, PTL DEF Spec

(* The last flush loses nothing that was there when the server was told to *)
(* stop.                                                                   *)
THEOREM LastFlushCorrect == Spec => []LastFlushKeepsChanges
<1>1. LastInv => LastFlushKeepsChanges
  BY DEF LastInv
<1> QED
  BY <1>1, LastInvariant, PTL DEF Spec

(* Whatever the goroutines do to the instances, the registry follows the   *)
(* model, but for the instances whose last change crossed another          *)
(* goroutine's event about them.                                           *)
THEOREM RegistryCorrect == Spec => []RegistryFollowsModel
<1>1. FollowInv => RegistryFollowsModel
  BY DEF FollowInv, InStep, RegistryFollowsModel, Quiet, Idle, OnItsWay
<1> QED
  BY <1>1, FollowInvariant, PTL DEF Spec

-----------------------------------------------------------------------------
(***************************************************************************)
(* FileSensor.  Everything that is listed or was seen is of a write there  *)
(* was; the next one is new.                                               *)
(***************************************************************************)
SensorInv ==
  /\ SensorTypeOK
  /\ writes >= 1
  /\ \A f \in File : disk[f] <= writes
  /\ \A f \in DOMAIN todo : todo[f] <= writes
  /\ \A f \in DOMAIN seen : seen[f] = NoToken \/ \E w \in 1 .. writes : seen[f] = TokenOf[w]

(* At the start nothing is listed, seen or notified.                       *)
LEMMA SensorInitInv == SensorInit => SensorInv
<1> SUFFICES ASSUME SensorInit PROVE SensorInv
  OBVIOUS
<1>1. DOMAIN todo = {} /\ DOMAIN seen = {}
  BY DEF SensorInit
<1>2. channel \in Seq(File) /\ Len(channel) <= ChannelSize
  BY SensorAssumption DEF SensorInit
<1>3. NoTimer \in TimerType
  BY DEF NoTimer, TimerType
<1>4. MaxWrites \in Nat /\ 1 \in WriteNumber /\ 0 \in WriteNumber
  BY SensorAssumption DEF WriteNumber
<1>5. SensorTypeOK
  BY <1>1, <1>2, <1>3, <1>4 DEF SensorInit, SensorTypeOK, Passes, Mode
<1>6. \A f \in File : disk[f] <= writes
  BY DEF SensorInit
<1> QED
  BY <1>1, <1>5, <1>6 DEF SensorInv, SensorInit

(* Applying a file brings it into the model, or passes it over; either way *)
(* it is current, and no other file is touched.                            *)
LEMMA ApplyOneFacts ==
  ASSUME SensorTypeOK, NEW f \in File, ApplyOne(f)
  PROVE  /\ applied' \in [File -> WriteNumber] /\ passedOver' \in [File -> WriteNumber]
         /\ summary' \in {"nothing", "failed", "applied"}
         /\ disk[f] \in {applied'[f], passedOver'[f]}
         /\ \A g \in File : g # f => applied'[g] = applied[g] /\ passedOver'[g] = passedOver[g]
BY DEF SensorTypeOK, ApplyOne, Summed

(* A file that is done with leaves the list, and the pass may end.         *)
LEMMA DoneFacts ==
  ASSUME SensorTypeOK, NEW f \in DOMAIN todo, Done(f), pass \in Passes
  PROVE  /\ DOMAIN todo' = DOMAIN todo \ {f}
         /\ \A g \in DOMAIN todo' : todo'[g] = todo[g]
         /\ pass' \in Passes \cup {"refused", "unwatched", "idle"}
BY DEF Done, Restrict, NextPass, Passes

(* What is remembered of a file is its token, or that it has none.         *)
LEMMA RememberFacts ==
  ASSUME SensorInv, NEW f \in DOMAIN todo, Remember(f)
  PROVE  /\ f \in File /\ todo[f] \in 1 .. writes
         /\ DOMAIN seen' = DOMAIN seen \cup {f}
         /\ seen'[f] = ListedToken(f)
         /\ ListedToken(f) \in {NoToken, TokenOf[todo[f]]}
         /\ TokenOf[todo[f]] \in Token
         /\ \A g \in DOMAIN seen : g # f => seen'[g] = seen[g]
BY SensorAssumption DEF SensorInv, SensorTypeOK, Remember, ListedToken, WriteNumber

(* A change of the files.                                                  *)
LEMMA ChangeKeepsSensor ==
  ASSUME SensorInv, NEW f \in File, WriteFile(f) \/ RemoveFile(f)
  PROVE  SensorInv'
<1>1. PICK w \in WriteNumber : ChangeFile(f, w) /\ writes' \in WriteNumber
                               /\ writes' >= writes /\ w <= writes'
  <2>1. MaxWrites \in Nat /\ writes \in 1 .. MaxWrites
    BY SensorAssumption DEF SensorInv, SensorTypeOK, WriteNumber
  <2>2. CASE WriteFile(f)
    <3>1. /\ writes' = writes + 1 /\ ChangeFile(f, writes + 1)
          /\ writes + 1 \in WriteNumber /\ writes + 1 >= writes /\ writes + 1 <= writes + 1
      BY <2>1, <2>2 DEF WriteFile, WriteNumber
    <3> QED
      BY <3>1
  <2>3. CASE RemoveFile(f)
    <3>1. /\ writes' = writes /\ ChangeFile(f, 0)
          /\ 0 \in WriteNumber /\ writes \in WriteNumber /\ writes >= writes /\ 0 <= writes
      BY <2>1, <2>3 DEF RemoveFile, WriteNumber
    <3> QED
      BY <3>1
  <2> QED
    BY <2>2, <2>3
<1>2. disk' \in [File -> WriteNumber] /\ \A g \in File : disk'[g] <= writes'
  BY <1>1, SensorAssumption DEF ChangeFile, SensorInv, SensorTypeOK, WriteNumber
<1>3. notified' \subseteq File
  BY <1>1 DEF ChangeFile, SensorInv, SensorTypeOK
<1>4. UNCHANGED << mode, applied, pass, summary, todo, seen, timers, channel, stop, passedOver >>
  BY <1>1 DEF ChangeFile, polling
<1>5. \A g \in DOMAIN todo : todo[g] <= writes'
  BY <1>1, SensorAssumption DEF SensorInv, SensorTypeOK, WriteNumber
<1>6. \A g \in DOMAIN seen : seen[g] = NoToken \/ \E v \in 1 .. writes' : seen[g] = TokenOf[v]
  <2>1. 1 .. writes \subseteq 1 .. writes'
    BY <1>1, SensorAssumption DEF SensorInv, SensorTypeOK, WriteNumber
  <2> QED
    BY <2>1 DEF SensorInv
<1>7. writes' >= 1
  BY <1>1 DEF SensorInv, SensorTypeOK, WriteNumber
<1>8. SensorTypeOK'
  BY <1>1, <1>2, <1>3, <1>4 DEF SensorInv, SensorTypeOK
<1> QED
  BY <1>2, <1>4, <1>5, <1>6, <1>7, <1>8 DEF SensorInv

(* A pass.                                                                 *)
LEMMA PollKeepsSensor ==
  ASSUME SensorInv, Poll
  PROVE  SensorInv'
<1>1. SensorTypeOK
  BY DEF SensorInv
<1>2. ASSUME NEW f \in DOMAIN todo, pass \in Passes, Done(f),
             UNCHANGED << mode, disk, writes, watching, stop >>,
             applied' \in [File -> WriteNumber], passedOver' \in [File -> WriteNumber],
             summary' \in {"nothing", "failed", "applied"},
             seen' = seen \/ Remember(f)
      PROVE  SensorInv'
  <2>1. /\ DOMAIN todo' = DOMAIN todo \ {f}
        /\ \A g \in DOMAIN todo' : todo'[g] = todo[g]
        /\ pass' \in Passes \cup {"refused", "unwatched", "idle"}
    BY <1>1, <1>2, DoneFacts
  <2>2. /\ DOMAIN seen' \subseteq File
        /\ \A g \in DOMAIN seen' : seen'[g] \in Token \cup {NoToken}
        /\ \A g \in DOMAIN seen' :
             seen'[g] = NoToken \/ \E w \in 1 .. writes : seen'[g] = TokenOf[w]
    <3>1. CASE seen' = seen
      BY <3>1 DEF SensorInv, SensorTypeOK
    <3>2. CASE Remember(f)
      <4>1. /\ f \in File /\ todo[f] \in 1 .. writes
            /\ DOMAIN seen' = DOMAIN seen \cup {f}
            /\ seen'[f] \in {NoToken, TokenOf[todo[f]]} /\ TokenOf[todo[f]] \in Token
            /\ \A g \in DOMAIN seen : g # f => seen'[g] = seen[g]
        BY <3>2, RememberFacts
      <4> QED
        BY <4>1 DEF SensorInv, SensorTypeOK
    <3> QED
      BY <1>2, <3>1, <3>2
  <2>3. UNCHANGED << notified, timers, channel >>
    BY <1>2 DEF watching
  <2>4. SensorTypeOK'
    BY <1>2, <2>1, <2>2, <2>3 DEF SensorInv, SensorTypeOK
  <2> QED
    BY <1>2, <2>1, <2>2, <2>4 DEF SensorInv
<1>3. CASE List
  <2>1. /\ UNCHANGED << mode, disk, writes, applied, seen, notified, timers, channel, stop, passedOver >>
        /\ pass' \in Passes \cup {"refused", "unwatched", "idle"}
        /\ summary' \in {"nothing", "failed", "applied"}
        /\ todo' = todo \/ todo' = Listing
    BY <1>1, <1>3 DEF List, NextPass, Summed, SensorTypeOK, Passes, watching
  <2>2. /\ DOMAIN todo' \subseteq File
        /\ \A f \in DOMAIN todo' : todo'[f] \in 1 .. MaxWrites /\ todo'[f] <= writes
    BY <2>1, SensorAssumption DEF SensorInv, SensorTypeOK, Listing, WriteNumber
  <2>3. SensorTypeOK'
    BY <1>1, <2>1, <2>2 DEF SensorTypeOK
  <2> QED
    BY <2>1, <2>2, <2>3 DEF SensorInv
<1>4. CASE ApplyAtStartup
  <2>1. PICK f \in DOMAIN todo : ApplyOne(f) /\ Done(f)
    BY <1>4 DEF ApplyAtStartup
  <2>2. f \in File
    BY <1>1, <2>1 DEF SensorTypeOK
  <2> QED
    BY <1>1, <1>2, <1>4, <2>1, <2>2, ApplyOneFacts DEF ApplyAtStartup, Passes
<1>5. CASE RecordToken
  <2>1. PICK f \in DOMAIN todo : /\ Remember(f) /\ Done(f)
                                 /\ passedOver' = [passedOver EXCEPT ![f] = todo[f]]
    BY <1>5 DEF RecordToken
  <2>2. passedOver' \in [File -> WriteNumber]
    BY <1>1, <2>1, SensorAssumption DEF SensorTypeOK, WriteNumber
  <2> QED
    BY <1>1, <1>2, <1>5, <2>1, <2>2 DEF RecordToken, Passes, SensorTypeOK
<1>6. CASE SkipKnown
  BY <1>1, <1>2, <1>6 DEF SkipKnown, Passes, SensorTypeOK
<1>7. CASE ApplyListed
  <2>1. PICK f \in DOMAIN todo : ApplyOne(f) /\ Remember(f) /\ Done(f)
    BY <1>7 DEF ApplyListed, ApplyChanged
  <2>2. f \in File
    BY <1>1, <2>1 DEF SensorTypeOK
  <2> QED
    BY <1>1, <1>2, <1>7, <2>1, <2>2, ApplyOneFacts DEF ApplyListed, Passes
<1> QED
  BY <1>3, <1>4, <1>5, <1>6, <1>7 DEF Poll

(* A timer with other fields is a timer.                                   *)
LEMMA TimerFields ==
  ASSUME NEW t \in TimerType, NEW o \in Nat, NEW c \in Nat
  PROVE  /\ [t EXCEPT !.map = "gone", !.firing = @ + 1] \in TimerType
         /\ [t EXCEPT !.orphans = o, !.firing = @ + 1] \in TimerType
         /\ [t EXCEPT !.map = "none", !.orphans = o, !.firing = c, !.sending = @ + 1] \in TimerType
<1>1. t.firing + 1 \in Nat /\ t.sending + 1 \in Nat
  BY DEF TimerType
<1> QED
  BY <1>1 DEF TimerType

(* A watch, its timers and their callbacks, and the end.                   *)
LEMMA WatchKeepsSensor ==
  ASSUME SensorInv, Watch \/ Expire \/ Call \/ CancelSensor
  PROVE  SensorInv'
<1>1. SensorTypeOK
  BY DEF SensorInv
<1>2. ASSUME UNCHANGED << mode, disk, writes, todo, seen >>, SensorTypeOK'
      PROVE  SensorInv'
  BY <1>2 DEF SensorInv
<1>3. ASSUME NEW f \in File, NEW t \in TimerType, SetTimer(f, t)
      PROVE  timers' \in [File -> TimerType]
  BY <1>1, <1>3 DEF SensorTypeOK, SetTimer
<1>4. \A f \in File :
        /\ timers[f] \in TimerType
        /\ timers[f].orphans \in Nat /\ timers[f].firing \in Nat /\ timers[f].sending \in Nat
  BY <1>1 DEF SensorTypeOK, TimerType
<1>5. ASSUME NEW f \in File, timers[f].sending > 0, Sent(f)
      PROVE  timers' \in [File -> TimerType]
  <2>1. [timers[f] EXCEPT !.sending = @ - 1] \in TimerType
    BY <1>4, <1>5 DEF TimerType
  <2> QED
    BY <1>3, <1>5, <2>1 DEF Sent
<1>6. CASE AddWatch \/ Overflow
  <2>1. passedOver' \in [File -> WriteNumber]
    BY <1>1, <1>6 DEF AddWatch, Overflow, SensorTypeOK
  <2>2. CASE AddWatch
    BY <1>1, <1>2, <2>1, <2>2 DEF AddWatch, SensorTypeOK, polling, watching
  <2>3. CASE Overflow
    BY <1>1, <1>2, <2>1, <2>3 DEF Overflow, SensorTypeOK, polling
  <2> QED
    BY <1>6, <2>2, <2>3
<1>7. CASE Schedule
  <2>1. PICK f \in notified : /\ notified' = notified \ {f}
                              /\ SetTimer(f, [timers[f] EXCEPT !.map = "set"])
    BY <1>7 DEF Schedule
  <2>2. f \in File /\ [timers[f] EXCEPT !.map = "set"] \in TimerType
    BY <1>1, <1>4, <2>1 DEF SensorTypeOK, TimerType
  <2> QED
    BY <1>1, <1>2, <1>3, <1>7, <2>1, <2>2 DEF Schedule, SensorTypeOK, polling
<1>8. CASE Expire
  <2>1. PICK f \in File :
          \/ /\ timers[f].map = "set"
             /\ SetTimer(f, [timers[f] EXCEPT !.map = "gone", !.firing = @ + 1])
          \/ /\ timers[f].orphans > 0
             /\ SetTimer(f, [timers[f] EXCEPT !.orphans = @ - 1, !.firing = @ + 1])
    BY <1>8 DEF Expire
  <2>2. /\ [timers[f] EXCEPT !.map = "gone", !.firing = @ + 1] \in TimerType
        /\ timers[f].orphans > 0 =>
             [timers[f] EXCEPT !.orphans = @ - 1, !.firing = @ + 1] \in TimerType
    <3>1. [timers[f] EXCEPT !.map = "gone", !.firing = @ + 1] \in TimerType
      BY <1>4, TimerFields
    <3>2. ASSUME timers[f].orphans > 0
          PROVE  [timers[f] EXCEPT !.orphans = @ - 1, !.firing = @ + 1] \in TimerType
      <4>1. timers[f].orphans - 1 \in Nat
        BY <1>4, <3>2
      <4> QED
        BY <1>4, <4>1, TimerFields
    <3> QED
      BY <3>1, <3>2
  <2> QED
    BY <1>1, <1>2, <1>3, <1>8, <2>1, <2>2 DEF Expire, SensorTypeOK, polling
<1>9. CASE Forget
  <2>1. PICK f \in File :
          /\ timers[f].firing > 0
          /\ SetTimer(f, [timers[f] EXCEPT !.map = "none", !.orphans = Orphaned(timers[f]),
                                           !.firing = @ - 1, !.sending = @ + 1])
    BY <1>9 DEF Forget
  <2>2. [timers[f] EXCEPT !.map = "none", !.orphans = Orphaned(timers[f]),
                          !.firing = @ - 1, !.sending = @ + 1] \in TimerType
    <3>1. Orphaned(timers[f]) \in Nat /\ timers[f].firing - 1 \in Nat
      BY <1>4, <2>1 DEF Orphaned
    <3> QED
      BY <1>4, <3>1, TimerFields
  <2> QED
    BY <1>1, <1>2, <1>3, <1>9, <2>1, <2>2 DEF Forget, SensorTypeOK, polling
<1>10. CASE Send
  <2>1. PICK f \in File : timers[f].sending > 0 /\ Sent(f) /\ channel' = Append(channel, f)
    BY <1>10 DEF Send
  <2>2. channel' \in Seq(File) /\ Len(channel') <= ChannelSize
    BY <1>1, <1>10, <2>1, SensorAssumption DEF Send, Room, SensorTypeOK
  <2> QED
    BY <1>1, <1>2, <1>5, <1>10, <2>1, <2>2 DEF Send, SensorTypeOK, polling
<1>11. CASE SendNoMore
  BY <1>1, <1>2, <1>5, <1>11 DEF SendNoMore, SensorTypeOK, polling
<1>12. CASE SendToClosed
  BY <1>1, <1>2, <1>5, <1>12 DEF SendToClosed, SensorTypeOK, polling
<1>13. CASE ApplyNotified
  <2>1. Head(channel) \in File /\ Tail(channel) \in Seq(File) /\ Len(Tail(channel)) <= ChannelSize
    BY <1>1, <1>13, SensorAssumption DEF ApplyNotified, SensorTypeOK
  <2>2. /\ applied' \in [File -> WriteNumber] /\ passedOver' \in [File -> WriteNumber]
        /\ summary' \in {"nothing", "failed", "applied"}
    BY <1>1, <1>13, <2>1, ApplyOneFacts DEF ApplyNotified
  <2> QED
    BY <1>1, <1>2, <1>13, <2>1, <2>2 DEF ApplyNotified, SensorTypeOK, polling
<1>14. CASE CancelSensor \/ Close
  BY <1>1, <1>2, <1>14 DEF CancelSensor, Close, SensorTypeOK, polling, watching
<1> QED
  BY <1>6, <1>7, <1>8, <1>9, <1>10, <1>11, <1>12, <1>13, <1>14 DEF Watch, Call

(* Every step.                                                             *)
LEMMA SensorStep ==
  ASSUME SensorInv, [SensorNext]_sensorVars
  PROVE  SensorInv'
<1>1. CASE SensorNext
  BY <1>1, ChangeKeepsSensor, PollKeepsSensor, WatchKeepsSensor DEF SensorNext
<1>2. CASE UNCHANGED sensorVars
  BY <1>2 DEF SensorInv, SensorTypeOK, sensorVars, polling, watching
<1> QED
  BY <1>1, <1>2

(* Files, tokens, timers and the channel are what they can be; the channel *)
(* has no more changes than it has room for (source_local.go:79).          *)
THEOREM SensorTypeCorrect == SensorSpec => []SensorTypeOK
<1>1. SensorInv /\ [SensorNext]_sensorVars => SensorInv'
  BY SensorStep
<1>2. SensorInv => SensorTypeOK
  BY DEF SensorInv
<1> QED
  BY <1>1, <1>2, SensorInitInv, PTL DEF SensorSpec

-----------------------------------------------------------------------------
(* A file that is current stays so when others are applied or passed over, *)
(* or when it is itself.                                                   *)
LEMMA CurrentStays ==
  ASSUME NEW f \in File, UNCHANGED disk,
         \/ applied'[f] = applied[f] /\ passedOver'[f] = passedOver[f]
         \/ disk[f] \in {applied'[f], passedOver'[f]}
  PROVE  Current(f) => Current(f)'
BY DEF Current

(* No two writes have the same token.  Times of last change, which have    *)
(* the resolution of the file system, need not be so.                      *)
OwnTokens == \A v, w \in 1 .. MaxWrites : TokenOf[v] = TokenOf[w] => v = w

(* A step that applies at most one file, and leaves the files and what was *)
(* seen of them alone.                                                     *)
LEMMA ApplyingKeepsSeen ==
  ASSUME SensorInv, SeenIsApplied, UNCHANGED << disk, seen >>,
         \/ UNCHANGED << applied, passedOver >>
         \/ \E f \in File : ApplyOne(f)
  PROVE  SeenIsApplied'
<1>1. SensorTypeOK
  BY DEF SensorInv
<1>2. \A g \in File : Current(g) => Current(g)'
  <2>1. CASE UNCHANGED << applied, passedOver >>
    BY <2>1, CurrentStays
  <2>2. ASSUME NEW f \in File, ApplyOne(f) PROVE \A g \in File : Current(g) => Current(g)'
    <3>1. disk[f] \in {applied'[f], passedOver'[f]}
      BY <1>1, <2>2, ApplyOneFacts
    <3>2. \A g \in File : g # f => applied'[g] = applied[g] /\ passedOver'[g] = passedOver[g]
      BY <1>1, <2>2, ApplyOneFacts
    <3> QED
      BY <3>1, <3>2, CurrentStays
  <2> QED
    BY <2>1, <2>2
<1>3. DOMAIN seen \subseteq File
  BY <1>1 DEF SensorTypeOK
<1> QED
  BY <1>2, <1>3 DEF SeenIsApplied

(* A write has a token that was never seen.                                *)
LEMMA ChangeKeepsSeen ==
  ASSUME OwnTokens, SensorInv, SeenIsApplied, NEW f \in File, WriteFile(f) \/ RemoveFile(f)
  PROVE  SeenIsApplied'
<1>1. /\ UNCHANGED << applied, passedOver, seen >>
      /\ \A g \in File \ {f} : disk'[g] = disk[g]
  BY DEF WriteFile, RemoveFile, ChangeFile, polling, SensorInv, SensorTypeOK
<1>2. disk'[f] = 0 \/ (writes < MaxWrites /\ disk'[f] = writes + 1)
  BY DEF WriteFile, RemoveFile, ChangeFile, SensorInv, SensorTypeOK
<1>3. DOMAIN seen \subseteq File
  BY DEF SensorInv, SensorTypeOK
<1>4. ASSUME f \in DOMAIN seen, writes < MaxWrites PROVE seen[f] # TokenOf[writes + 1]
  <2>1. writes + 1 \in 1 .. MaxWrites /\ 1 .. writes \subseteq 1 .. MaxWrites
        /\ writes + 1 \notin 1 .. writes
    BY <1>4, SensorAssumption DEF SensorInv, SensorTypeOK, WriteNumber
  <2>2. TokenOf[writes + 1] # NoToken
    BY <2>1, SensorAssumption
  <2>3. seen[f] = NoToken \/ \E w \in 1 .. writes : seen[f] = TokenOf[w]
    BY <1>4 DEF SensorInv
  <2> QED
    BY <2>1, <2>2, <2>3 DEF OwnTokens
<1>5. ASSUME NEW g \in DOMAIN seen, disk'[g] # 0, seen[g] = TokenOf[disk'[g]]
      PROVE  Current(g)'
  <2>1. g # f
    BY <1>2, <1>4, <1>5
  <2>2. disk'[g] = disk[g] /\ Current(g)
    BY <1>1, <1>3, <1>5, <2>1 DEF SeenIsApplied
  <2> QED
    BY <1>1, <2>2 DEF Current
<1> QED
  BY <1>1, <1>5 DEF SeenIsApplied

(* The file whose token is remembered is applied, or passed over as the    *)
(* write that the token is of.                                             *)
LEMMA RememberKeepsSeen ==
  ASSUME OwnTokens, SensorInv, SeenIsApplied, NEW f \in DOMAIN todo, Remember(f), UNCHANGED disk,
         \A g \in File : g # f => applied'[g] = applied[g] /\ passedOver'[g] = passedOver[g],
         disk[f] \in {applied'[f], passedOver'[f]} \/ passedOver'[f] = todo[f]
  PROVE  SeenIsApplied'
<1>1. /\ f \in File /\ todo[f] \in 1 .. writes
      /\ DOMAIN seen' = DOMAIN seen \cup {f}
      /\ seen'[f] \in {NoToken, TokenOf[todo[f]]} /\ TokenOf[todo[f]] \in Token
      /\ \A g \in DOMAIN seen : g # f => seen'[g] = seen[g]
  BY RememberFacts
<1>2. ASSUME disk[f] # 0, seen'[f] = TokenOf[disk[f]] PROVE Current(f)'
  <2>1. disk[f] \in 1 .. MaxWrites /\ todo[f] \in 1 .. MaxWrites
    BY <1>1, <1>2, SensorAssumption DEF SensorInv, SensorTypeOK, WriteNumber
  <2>2. disk[f] = todo[f]
    BY <1>1, <1>2, <2>1, SensorAssumption DEF OwnTokens
  <2> QED
    BY <2>2 DEF Current
<1>3. ASSUME NEW g \in DOMAIN seen, g # f, disk[g] # 0, seen'[g] = TokenOf[disk[g]]
      PROVE  Current(g)'
  <2>1. g \in File /\ seen'[g] = seen[g]
    BY <1>1, <1>3 DEF SensorInv, SensorTypeOK
  <2>2. Current(g)
    BY <1>3, <2>1 DEF SeenIsApplied
  <2> QED
    BY <1>3, <2>1, <2>2, CurrentStays
<1> QED
  BY <1>1, <1>2, <1>3 DEF SeenIsApplied

(* Every step.                                                             *)
LEMMA SeenStep ==
  ASSUME OwnTokens, SensorInv, SeenIsApplied, [SensorNext]_sensorVars
  PROVE  SeenIsApplied'
<1>1. SensorTypeOK
  BY DEF SensorInv
<1>2. CASE \E f \in File : WriteFile(f) \/ RemoveFile(f)
  BY <1>2, ChangeKeepsSeen
<1>3. CASE List \/ SkipKnown
  BY <1>3, ApplyingKeepsSeen DEF List, SkipKnown
<1>4. CASE ApplyAtStartup
  <2>1. \E f \in File : ApplyOne(f)
    BY <1>1, <1>4 DEF ApplyAtStartup, SensorTypeOK
  <2> QED
    BY <1>4, <2>1, ApplyingKeepsSeen DEF ApplyAtStartup
<1>5. CASE RecordToken
  <2>1. PICK f \in DOMAIN todo :
          Remember(f) /\ passedOver' = [passedOver EXCEPT ![f] = todo[f]]
    BY <1>5 DEF RecordToken
  <2>2. /\ passedOver'[f] = todo[f]
        /\ \A g \in File : g # f => applied'[g] = applied[g] /\ passedOver'[g] = passedOver[g]
    BY <1>1, <1>5, <2>1 DEF RecordToken, SensorTypeOK
  <2> QED
    BY <1>5, <2>1, <2>2, RememberKeepsSeen DEF RecordToken
<1>6. CASE ApplyListed
  <2>1. PICK f \in DOMAIN todo : ApplyOne(f) /\ Remember(f)
    BY <1>6 DEF ApplyListed, ApplyChanged
  <2>2. f \in File
    BY <1>1, <2>1 DEF SensorTypeOK
  <2>3. /\ disk[f] \in {applied'[f], passedOver'[f]}
        /\ \A g \in File : g # f => applied'[g] = applied[g] /\ passedOver'[g] = passedOver[g]
    BY <1>1, <2>1, <2>2, ApplyOneFacts
  <2> QED
    BY <1>6, <2>1, <2>3, RememberKeepsSeen DEF ApplyListed
<1>7. CASE AddWatch \/ Overflow
  <2>1. UNCHANGED << disk, seen, applied >> /\ DOMAIN seen \subseteq File
    BY <1>1, <1>7 DEF AddWatch, Overflow, polling, SensorTypeOK
  <2>2. ASSUME NEW f \in File, Current(f) PROVE Current(f)'
    <3>1. CASE AddWatch
      BY <1>1, <2>1, <2>2, <3>1 DEF AddWatch, SensorTypeOK, Current
    <3>2. CASE Overflow
      BY <1>1, <2>1, <2>2, <3>2 DEF Overflow, SensorTypeOK, Current
    <3> QED
      BY <1>7, <3>1, <3>2
  <2> QED
    BY <2>1, <2>2 DEF SeenIsApplied
<1>8. CASE ApplyNotified
  <2>1. Head(channel) \in File
    BY <1>1, <1>8 DEF ApplyNotified, SensorTypeOK
  <2>2. \E f \in File : ApplyOne(f)
    BY <1>8, <2>1 DEF ApplyNotified
  <2> QED
    BY <1>8, <2>2, ApplyingKeepsSeen DEF ApplyNotified, polling
<1>9. CASE Schedule \/ Close \/ Expire \/ Call \/ CancelSensor \/ UNCHANGED sensorVars
  <2>1. UNCHANGED << disk, seen, applied, passedOver >>
    BY <1>9 DEF Schedule, Close, Expire, Call, Forget, Send, SendNoMore, SendToClosed,
                CancelSensor, polling, sensorVars
  <2> QED
    BY <2>1, ApplyingKeepsSeen
<1> QED
  BY <1>2, <1>3, <1>4, <1>5, <1>6, <1>7, <1>8, <1>9 DEF SensorNext, Poll, Watch

(* If every write has a token of its own, a file that still has the token  *)
(* a poll recorded is one the model has, or one that was passed over.      *)
THEOREM SeenCorrect == ASSUME OwnTokens PROVE SensorSpec => []SeenIsApplied
<1>1. SensorInit => SeenIsApplied
  BY DEF SensorInit, SeenIsApplied
<1>2. SensorInv /\ SeenIsApplied /\ [SensorNext]_sensorVars => SeenIsApplied'
  BY SeenStep
<1>3. SensorInv /\ [SensorNext]_sensorVars => SensorInv'
  BY SensorStep
<1> QED
  BY <1>1, <1>2, <1>3, SensorInitInv, PTL DEF SensorSpec

-----------------------------------------------------------------------------
(* A file that is current, or that a notification, a timer, a callback or  *)
(* the channel stands for.                                                 *)
Coming(f) ==
  Current(f) \/ f \in notified \/ ~ Settled(f) \/ \E i \in DOMAIN channel : channel[i] = f

(* Where nothing is taken away of what stands for a file, it is coming.    *)
LEMMA ComingStays ==
  ASSUME NEW f \in File, Coming(f), Current(f) => Current(f)', notified \subseteq notified',
         Settled(f)' => Settled(f), channel' = channel
  PROVE  Coming(f)'
BY DEF Coming

(* A timer has counts.                                                     *)
LEMMA TimerCounts ==
  ASSUME SensorTypeOK, NEW f \in File
  PROVE  timers[f].orphans \in Nat /\ timers[f].firing \in Nat /\ timers[f].sending \in Nat
BY DEF SensorTypeOK, TimerType

(* The timer of one file.                                                  *)
LEMMA TimerSet ==
  ASSUME SensorTypeOK, NEW f \in File, NEW t, SetTimer(f, t)
  PROVE  timers'[f] = t /\ \A g \in File : g # f => timers'[g] = timers[g]
BY DEF SensorTypeOK, SetTimer

(* No pass of a poll, nor the startup, begins or ends while a watch is on. *)
LEMMA PollDoesNotWatch ==
  ASSUME SensorTypeOK, Poll
  PROVE  pass' # "watching"
<1>1. CASE List
  BY <1>1 DEF List, NextPass, Passes
<1>2. CASE ApplyAtStartup \/ RecordToken \/ SkipKnown \/ ApplyListed
  <2>1. pass \in Passes /\ \E f \in DOMAIN todo : Done(f)
    BY <1>2 DEF ApplyAtStartup, RecordToken, SkipKnown, ApplyListed, Passes
  <2> QED
    BY <2>1, DoneFacts DEF Passes
<1> QED
  BY <1>1, <1>2 DEF Poll

(* Notifications, timers and callbacks hand a file on to each other.       *)
LEMMA HandedOn ==
  ASSUME SensorTypeOK, SensorTypeOK', Schedule \/ Expire \/ Forget \/ Send,
         \A f \in File : Coming(f)
  PROVE  \A f \in File : Coming(f)'
<1>1. UNCHANGED << disk, applied, passedOver >>
  BY DEF Schedule, Expire, Forget, Send
<1>2. \A f \in File : Current(f) => Current(f)'
  BY <1>1 DEF Current
<1>3. ASSUME NEW f \in File, ~ Settled(f)', notified \ {f} \subseteq notified', channel' = channel,
             \A g \in File : g # f => timers'[g] = timers[g],
             NEW g \in File
      PROVE  Coming(g)'
  <2>1. CASE g = f
    BY <1>3, <2>1 DEF Coming
  <2>2. CASE g # f
    BY <1>2, <1>3, <2>2 DEF Coming, Settled
  <2> QED
    BY <2>1, <2>2
<1>4. ASSUME NEW f \in File,
             timers'[f].map = "set" \/ timers'[f].firing > 0 \/ timers'[f].sending > 0
      PROVE  ~ Settled(f)'
  <2>1. /\ timers'[f].orphans \in Nat /\ timers'[f].firing \in Nat /\ timers'[f].sending \in Nat
    BY DEF SensorTypeOK, TimerType
  <2> QED
    BY <1>4, <2>1 DEF Settled
<1>5. CASE Schedule
  <2>1. PICK f \in notified : /\ notified' = notified \ {f}
                              /\ SetTimer(f, [timers[f] EXCEPT !.map = "set"])
    BY <1>5 DEF Schedule
  <2>2. f \in File /\ channel' = channel
    BY <1>5, <2>1 DEF Schedule, SensorTypeOK
  <2>3. /\ timers'[f] = [timers[f] EXCEPT !.map = "set"]
        /\ \A g \in File : g # f => timers'[g] = timers[g]
    BY <2>1, <2>2, TimerSet
  <2>4. timers'[f].map = "set"
    BY <2>2, <2>3 DEF SensorTypeOK, TimerType
  <2> QED
    BY <1>3, <1>4, <2>1, <2>2, <2>3, <2>4
<1>6. CASE Expire
  <2>1. PICK f \in File :
          \/ SetTimer(f, [timers[f] EXCEPT !.map = "gone", !.firing = @ + 1])
          \/ SetTimer(f, [timers[f] EXCEPT !.orphans = @ - 1, !.firing = @ + 1])
    BY <1>6 DEF Expire
  <2>2. UNCHANGED << notified, channel >>
    BY <1>6 DEF Expire
  <2>3. /\ \/ timers'[f] = [timers[f] EXCEPT !.map = "gone", !.firing = @ + 1]
           \/ timers'[f] = [timers[f] EXCEPT !.orphans = @ - 1, !.firing = @ + 1]
        /\ \A g \in File : g # f => timers'[g] = timers[g]
    BY <2>1, TimerSet
  <2>4. timers'[f].firing = timers[f].firing + 1
    BY <2>3 DEF SensorTypeOK, TimerType
  <2>5. timers'[f].firing > 0
    BY <2>4, TimerCounts
  <2> QED
    BY <1>3, <1>4, <2>2, <2>3, <2>5
<1>7. CASE Forget
  <2>1. PICK f \in File :
          SetTimer(f, [timers[f] EXCEPT !.map = "none", !.orphans = Orphaned(timers[f]),
                                        !.firing = @ - 1, !.sending = @ + 1])
    BY <1>7 DEF Forget
  <2>2. UNCHANGED << notified, channel >>
    BY <1>7 DEF Forget
  <2>3. /\ timers'[f] = [timers[f] EXCEPT !.map = "none", !.orphans = Orphaned(timers[f]),
                                          !.firing = @ - 1, !.sending = @ + 1]
        /\ \A g \in File : g # f => timers'[g] = timers[g]
    BY <2>1, TimerSet
  <2>4. timers'[f].sending = timers[f].sending + 1
    BY <2>3 DEF SensorTypeOK, TimerType
  <2>5. timers'[f].sending > 0
    BY <2>4, TimerCounts
  <2> QED
    BY <1>3, <1>4, <2>2, <2>3, <2>5
<1>8. CASE Send
  <2>1. PICK f \in File : Sent(f) /\ channel' = Append(channel, f)
    BY <1>8 DEF Send
  <2>2. notified' = notified
    BY <1>8 DEF Send
  <2>3. \A g \in File : g # f => timers'[g] = timers[g]
    BY <2>1, TimerSet DEF Sent
  <2>4. \E i \in DOMAIN channel' : channel'[i] = f
    <3>1. /\ Len(channel) + 1 \in DOMAIN channel'
          /\ channel'[Len(channel) + 1] = f
      BY <2>1 DEF SensorTypeOK
    <3> QED
      BY <3>1
  <2>5. \A i \in DOMAIN channel : i \in DOMAIN channel' /\ channel'[i] = channel[i]
    BY <2>1 DEF SensorTypeOK
  <2>6. ASSUME NEW g \in File, g # f PROVE Coming(g)'
    BY <1>2, <2>2, <2>3, <2>5, <2>6 DEF Coming, Settled
  <2> QED
    BY <2>4, <2>6 DEF Coming
<1> QED
  BY <1>5, <1>6, <1>7, <1>8

(* The change at the head of the channel is applied; the others stay.      *)
LEMMA NotifiedComing ==
  ASSUME SensorTypeOK, ApplyNotified, \A f \in File : Coming(f)
  PROVE  \A f \in File : Coming(f)'
<1>1. /\ ApplyOne(Head(channel)) /\ channel # << >> /\ channel' = Tail(channel)
      /\ UNCHANGED << disk, notified, timers >>
  BY DEF ApplyNotified
<1>2. PICK f \in File : f = Head(channel)
  BY <1>1 DEF SensorTypeOK
<1>3. /\ disk[f] \in {applied'[f], passedOver'[f]}
      /\ \A g \in File : g # f => applied'[g] = applied[g] /\ passedOver'[g] = passedOver[g]
  BY <1>1, <1>2, ApplyOneFacts
<1>4. Current(f)'
  BY <1>1, <1>3 DEF Current
<1>5. ASSUME NEW g \in File, g # f PROVE Coming(g)'
  <2>1. Current(g) => Current(g)'
    BY <1>1, <1>3, <1>5 DEF Current
  <2>2. Settled(g)' => Settled(g)
    BY <1>1 DEF Settled
  <2>3. ASSUME NEW i \in DOMAIN channel, channel[i] = g
        PROVE  \E j \in DOMAIN channel' : channel'[j] = g
    <3>1. i # 1
      BY <1>1, <1>2, <1>5, <2>3 DEF SensorTypeOK
    <3>2. i - 1 \in DOMAIN channel' /\ channel'[i - 1] = g
      BY <1>1, <2>3, <3>1 DEF SensorTypeOK
    <3> QED
      BY <3>2
  <2> QED
    BY <1>1, <2>1, <2>2, <2>3 DEF Coming
<1> QED
  BY <1>4, <1>5 DEF Coming

(* A file whose notification is lost is passed over; the others stay.      *)
LEMMA LostIsPassedOver ==
  ASSUME SensorTypeOK, Overflow, \A f \in File : Coming(f)
  PROVE  \A f \in File : Coming(f)'
<1> SUFFICES ASSUME NEW f \in File PROVE Coming(f)'
  OBVIOUS
<1>1. PICK lost \in SUBSET notified \ {{}} :
        /\ notified' = notified \ lost
        /\ passedOver' = [g \in File |-> IF g \in lost THEN disk[g] ELSE passedOver[g]]
  BY DEF Overflow
<1>2. UNCHANGED << disk, applied, timers, channel >>
  BY DEF Overflow
<1>3. CASE f \in lost
  BY <1>1, <1>2, <1>3 DEF Coming, Current
<1>4. CASE f \notin lost
  <2>1. passedOver'[f] = passedOver[f] /\ (f \in notified' <=> f \in notified)
    BY <1>1, <1>4
  <2> QED
    BY <1>2, <2>1 DEF Coming, Current, Settled
<1> QED
  BY <1>3, <1>4

(* Every step.                                                             *)
LEMMA ComingStep ==
  ASSUME SensorInv, SensorInv', ChangeIsComing, [SensorNext]_sensorVars
  PROVE  ChangeIsComing'
<1> SUFFICES ASSUME pass' = "watching", stop' = "no"
             PROVE  \A f \in File : Coming(f)'
  BY DEF ChangeIsComing, Coming
<1>1. SensorTypeOK /\ SensorTypeOK'
  BY DEF SensorInv
<1>2. ASSUME pass = "watching", stop = "no" PROVE \A f \in File : Coming(f)
  BY <1>2 DEF ChangeIsComing, Coming
<1>3. ASSUME NEW f \in File, WriteFile(f) \/ RemoveFile(f) PROVE \A g \in File : Coming(g)'
  <2>1. /\ UNCHANGED << applied, passedOver, timers, channel, pass, stop >>
        /\ notified \subseteq notified'
        /\ disk'[f] = 0 \/ f \in notified'
        /\ \A g \in File : g # f => disk'[g] = disk[g]
    BY <1>1, <1>3 DEF WriteFile, RemoveFile, ChangeFile, SensorTypeOK
  <2>2. \A g \in File : Coming(g)
    BY <1>2, <2>1
  <2>3. Coming(f)'
    BY <2>1 DEF Coming, Current
  <2>4. ASSUME NEW g \in File, g # f PROVE Coming(g)'
    BY <2>1, <2>2, <2>4, ComingStays DEF Current, Settled
  <2> QED
    BY <2>3, <2>4
<1>4. CASE Poll
  BY <1>1, <1>4, PollDoesNotWatch
<1>5. CASE AddWatch \/ Overflow
  <2>1. CASE AddWatch
    BY <1>1, <2>1 DEF AddWatch, SensorTypeOK, Coming, Current
  <2>2. CASE Overflow
    BY <1>1, <1>2, <2>2, LostIsPassedOver DEF Overflow
  <2> QED
    BY <1>5, <2>1, <2>2
<1>6. CASE Schedule \/ Expire \/ Forget \/ Send
  <2>1. pass = "watching" /\ stop = "no"
    BY <1>6 DEF Schedule, Expire, Forget, Send
  <2> QED
    BY <1>1, <1>2, <1>6, <2>1, HandedOn
<1>7. CASE ApplyNotified
  <2>1. pass = "watching" /\ stop = "no"
    BY <1>7 DEF ApplyNotified
  <2> QED
    BY <1>1, <1>2, <1>7, <2>1, NotifiedComing
<1>8. CASE SendNoMore \/ SendToClosed \/ CancelSensor \/ Close
  BY <1>8 DEF SendNoMore, NoticesCancel, SendToClosed, CancelSensor, Close
<1>9. CASE UNCHANGED sensorVars
  BY <1>2, <1>9 DEF sensorVars, watching, Coming, Current, Settled
<1> QED
  BY <1>3, <1>4, <1>5, <1>6, <1>7, <1>8, <1>9 DEF SensorNext, Watch, Call

(* While a watch is on, a file that changed is on its way to the model.    *)
THEOREM ChangeComingCorrect == SensorSpec => []ChangeIsComing
<1>1. SensorInit => ChangeIsComing
  BY DEF SensorInit, ChangeIsComing
<1>2. SensorInv /\ SensorInv' /\ ChangeIsComing /\ [SensorNext]_sensorVars => ChangeIsComing'
  BY ComingStep
<1>3. SensorInv /\ [SensorNext]_sensorVars => SensorInv'
  BY SensorStep
<1> QED
  BY <1>1, <1>2, <1>3, SensorInitInv, PTL DEF SensorSpec

=============================================================================
