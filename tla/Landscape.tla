------------------------------ MODULE Landscape ------------------------------
(***************************************************************************)
(* The model store and the phase-0 filter (pkg/model/structure.go,         *)
(* pkg/eventfilter, pkg/eventfilter/phase0, wired by pkg/backend): a       *)
(* mutation changes a map under the model's mutex and then, the mutex      *)
(* released, sends an event through the filter chain to the recording      *)
(* sink.  On its way the phase-0 filter looks at the model and adds or     *)
(* deletes findings, which are mutations with events of their own, nested  *)
(* in the first.                                                           *)
(*                                                                         *)
(* Modelled for Contexts and Nodes and their types.  What a goroutine has  *)
(* still to do is a stack of tasks, and a step does the topmost, up to the *)
(* next time it takes the mutex.  A resource is changed by adding another  *)
(* object with its id, as the server and its sensors do; an object that    *)
(* was added is not changed any more.  The well-known finding types are    *)
(* registered when the server starts and never change.  The                *)
(* resolve-findings filter skips the findings of phase 0.                  *)
(*                                                                         *)
(* Ids are UUIDs, so the maps of the two kinds of subjects are one         *)
(* function here, and the maps of the two kinds of types one set, and no   *)
(* id is that of a resource of another kind.                               *)
(***************************************************************************)
EXTENDS Integers, Sequences, FiniteSets, Functions

CONSTANTS
  Goroutine,     (* that use the model                                     *)
  Context,
  ContextType,
  Node,
  NodeType,
  None,          (* uuid.Nil: no type, no parent                           *)
  ForeignId,     (* finding ids that a sensor or another server made up    *)
  Ingress,       (* findings that sensors or upstream servers may send     *)
  MaxOps         (* bound: calls of the model's operations                 *)

Subject == Context \cup Node
Type    == ContextType \cup NodeType

TypeMissing     == "ContextTypeMissing"
ParentNotFound  == "ContextParentNotFound"
NodeTypeMissing == "NodeTypeMissing"

Kind == {TypeMissing, ParentNotFound, NodeTypeMissing}

(* What a finding says: its subject and its kind.  The id that findingID   *)
(* derives from the two, a hash of them, is the pair itself.               *)
Finding ==
  (Context \X {TypeMissing, ParentNotFound}) \cup (Node \X {NodeTypeMissing})

(* A finding from outside brings its id along, which may be any.           *)
FindingId == Finding \cup ForeignId

ContextObject ==
  [id : Context, type : ContextType \cup {None}, parent : Context \cup {None}]

(* A NodeTypeRef has the type's id and may have the type itself, embedded. *)
NodeObject == [id : Node, type : NodeType \cup {None}, embedded : BOOLEAN]

Object == ContextObject \cup NodeObject

(* What a loop over subjects goes through: all Contexts or all Nodes, the  *)
(* children of a Context, or the subjects of a type.                       *)
AllContexts == "all Contexts"
AllNodes    == "all Nodes"

ASSUME LandscapeAssumption ==
  /\ Context \cap Node = {} /\ ContextType \cap NodeType = {} /\ Subject \cap Type = {}
  /\ FindingId \cap (Subject \cup Type) = {}
  /\ {None, AllContexts, AllNodes} \cap (Subject \cup Type) = {}
  /\ Ingress \subseteq [id : FindingId, says : Finding]
  /\ MaxOps \in Nat

VARIABLES
  subjects,      (* contextsByUUID and nodesByUUID: the objects by id      *)
  types,         (* the ids in contextTypesByUUID and nodeTypesByUUID      *)
  findings,      (* findingsByUUID: what the findings say, by id           *)
  stored,        (* what the event manager takes to be live                *)
  stack,         (* per goroutine: its tasks, the topmost first            *)
  ops            (* calls so far                                           *)

store == << subjects, types, findings >>
vars  == << store, stored, stack, ops >>

Registered(s) == s \in DOMAIN subjects

(* An event: what was done to which resource and, if a Context, a Node or  *)
(* a finding was added, the object.                                        *)
Event(op, res, obj) == [op |-> op, res |-> res, obj |-> obj]

EventType ==
  [op : {"Upsert"}, res : Subject, obj : Object]
    \cup [op : {"Delete"}, res : Subject, obj : {None}]
    \cup [op : {"Upsert"}, res : FindingId, obj : Finding]
    \cup [op : {"Delete"}, res : FindingId, obj : {None}]
    \cup [op : {"Upsert", "Delete"}, res : Type, obj : {None}]

Task ==
  [do : {"filter", "record"}, ev : EventType]
    \cup [do : {"add"}, obj : NodeObject]
    \cup [do : {"list"}, of : {AllContexts, AllNodes} \cup Context \cup Type]
    \cup {t \in [do : {"each"}, todo : SUBSET Object, parentOnly : BOOLEAN] :
            t.parentOnly => t.todo \subseteq ContextObject}
    \cup {t \in [do : {"check"}, kind : Kind, obj : Object] : << t.obj.id, t.kind >> \in Finding}
    \cup [do : {"upsert", "remove", "reconcile"}, f : Finding]
    \cup [do : {"recheck"}, f : Finding, obj : Object]

Idle(g) == stack[g] = << >>

(* The event goes through the chain, then to the recording sink.           *)
Emit(ev) == << [do |-> "filter", ev |-> ev], [do |-> "record", ev |-> ev] >>

Init ==
  /\ subjects = << >>
  /\ types = {}
  /\ findings = << >>
  /\ stored = {}
  /\ stack = [g \in Goroutine |-> << >>]
  /\ ops = 0

-----------------------------------------------------------------------------
(***************************************************************************)
(* The operations: one locked step, and an event to send after it.         *)
(***************************************************************************)
Call(g, tasks) ==
  /\ Idle(g)
  /\ ops < MaxOps
  /\ ops' = ops + 1
  /\ stack' = [stack EXCEPT ![g] = tasks]
  /\ UNCHANGED stored

With(obj) ==
  [s \in DOMAIN subjects \cup {obj.id} |-> IF s = obj.id THEN obj ELSE subjects[s]]

(* AddContext, and AddNode as a file sensor calls it: the object refers to *)
(* a type by its id.                                                       *)
Add(g, obj) ==
  /\ subjects' = With(obj)
  /\ Call(g, Emit(Event("Upsert", obj.id, obj)))
  /\ UNCHANGED << types, findings >>

Delete(g, s) ==
  /\ Registered(s)
  /\ subjects' = Restrict(subjects, DOMAIN subjects \ {s})
  /\ Call(g, Emit(Event("Delete", s, None)))
  /\ UNCHANGED << types, findings >>

AddType(g, t) ==
  /\ types' = types \cup {t}
  /\ Call(g, Emit(Event("Upsert", t, None)))
  /\ UNCHANGED << subjects, findings >>

DeleteType(g, t) ==
  /\ t \in types
  /\ types' = types \ {t}
  /\ Call(g, Emit(Event("Delete", t, None)))
  /\ UNCHANGED << subjects, findings >>

(* What the map is after a finding was added to it, or deleted.            *)
Filing(id, f) == [i \in DOMAIN findings \cup {id} |-> IF i = id THEN f ELSE findings[i]]

Dropping(id) == Restrict(findings, DOMAIN findings \ {id})

(* A finding that arrives as an event of a sensor or an upstream server:   *)
(* id, type and resources are the sender's.                                *)
AddFinding(g, id, f) ==
  /\ findings' = Filing(id, f)
  /\ Call(g, Emit(Event("Upsert", id, f)))
  /\ UNCHANGED << subjects, types >>

(* A finding that a sensor or an upstream server deletes.                  *)
DeleteFinding(g, id) ==
  /\ id \in DOMAIN findings
  /\ findings' = Dropping(id)
  /\ Call(g, Emit(Event("Delete", id, None)))
  /\ UNCHANGED << subjects, types >>

(* A Node that an upstream server pushes: NodeFromDto looks the type up    *)
(* and embeds it if there is one; the Node is added afterwards.            *)
PushNode(g, n, t) ==
  /\ Call(g, << [do |-> "add", obj |-> [id |-> n, type |-> t, embedded |-> t \in types]] >>)
  /\ UNCHANGED store

(* ReconcileAll, when the file sensors have applied their sources.         *)
ReconcileAll(g) ==
  /\ Call(g, << [do |-> "list", of |-> AllContexts], [do |-> "list", of |-> AllNodes] >>)
  /\ UNCHANGED store

-----------------------------------------------------------------------------
(***************************************************************************)
(* The tasks.                                                              *)
(***************************************************************************)
Top(g) == Head(stack[g])

Doing(g, what) == ~ Idle(g) /\ Top(g).do \in what

(* The topmost task is done, and leaves these.                             *)
Then(g, tasks) == stack' = [stack EXCEPT ![g] = tasks \o Tail(@)]

AddPushed(g) ==
  /\ Doing(g, {"add"})
  /\ LET obj == Top(g).obj
     IN  /\ subjects' = With(obj)
         /\ Then(g, Emit(Event("Upsert", obj.id, obj)))
  /\ UNCHANGED << types, findings, stored, ops >>

CheckParent(obj) == << [do |-> "check", kind |-> ParentNotFound, obj |-> obj] >>

(* checkContext and checkNode.                                             *)
CheckAll(obj) ==
  IF obj.id \in Context
  THEN << [do |-> "check", kind |-> TypeMissing, obj |-> obj] >> \o CheckParent(obj)
  ELSE << [do |-> "check", kind |-> NodeTypeMissing, obj |-> obj] >>

(* Seeded fault: a deleted Context's children are not checked again.       *)
ReferrersNoOrphans(ev) ==
  IF ev.res \in Type \/ (ev.res \in Context /\ ev.op = "Upsert")
  THEN << [do |-> "list", of |-> ev.res] >> ELSE << >>

(* After a change of a Context its children are checked, after a change of *)
(* a type the subjects of that type.                                       *)
Referrers(ev) ==
  IF ev.res \in Context \cup Type THEN << [do |-> "list", of |-> ev.res] >> ELSE << >>

(* filterFunc: what an event gives rise to.  A Context or Node that was    *)
(* added is checked itself, and a finding that arrives against its subject.*)
Checks(ev) ==
  (IF ev.op = "Upsert" /\ ev.res \in Subject THEN CheckAll(ev.obj) ELSE << >>)
    \o Referrers(ev)
    \o (IF ev.op = "Upsert" /\ ev.res \in FindingId
        THEN << [do |-> "reconcile", f |-> ev.obj] >> ELSE << >>)

Filter(g) ==
  /\ Doing(g, {"filter"})
  /\ Then(g, Checks(Top(g).ev))
  /\ UNCHANGED << store, stored, ops >>

(* recordingSink.Receive, as far as the latest-state store goes.           *)
Record(g) ==
  /\ Doing(g, {"record"})
  /\ LET ev == Top(g).ev
     IN  stored' = IF ev.op = "Delete" THEN stored \ {ev.res} ELSE stored \cup {ev.res}
  /\ Then(g, << >>)
  /\ UNCHANGED << store, ops >>

(* Whether a loop of this kind looks at the object; the others in the list *)
(* that GetContexts or GetNodes returned are skipped.                      *)
Concerns(of, obj) ==
  \/ of = AllContexts /\ obj.id \in Context
  \/ of = AllNodes /\ obj.id \in Node
  \/ of \in Context /\ obj.id \in Context /\ obj.parent = of
  \/ of \in Type /\ obj.type = of

(* GetContexts and GetNodes return a copy of the list.                     *)
List(g) ==
  /\ Doing(g, {"list"})
  /\ LET of == Top(g).of
     IN  Then(g, << [do         |-> "each",
                     todo       |-> {obj \in Range(subjects) : Concerns(of, obj)},
                     parentOnly |-> of \in Context] >>)
  /\ UNCHANGED << store, stored, ops >>

(* The loop over the copy, in the order of a Go map: the object that is    *)
(* registered by now is checked, if there is one.                          *)
EachSubject(g) ==
  /\ Doing(g, {"each"})
  /\ \/ /\ Top(g).todo = {}
        /\ Then(g, << >>)
     \/ \E obj \in Top(g).todo :
          LET rest   == << [Top(g) EXCEPT !.todo = @ \ {obj}] >>
              cur    == subjects[obj.id]
              checks == IF Top(g).parentOnly THEN CheckParent(cur) ELSE CheckAll(cur)
          IN  Then(g, IF Registered(obj.id) THEN checks \o rest ELSE rest)
  /\ UNCHANGED << store, stored, ops >>

(* contextTypeCheckPasses, contextParentCheckPasses, nodeTypeCheckPasses.  *)
Passes(obj, kind) ==
  \/ kind = TypeMissing /\ obj.type \in types
  \/ kind = ParentNotFound /\ (obj.parent = None \/ Registered(obj.parent))
  \/ kind = NodeTypeMissing /\ (obj.embedded \/ obj.type \in types)

(* checkContextType, checkContextParent, checkNode: the reference is       *)
(* looked up; a finding is added or deleted afterwards.                    *)
Check(g) ==
  /\ Doing(g, {"check"})
  /\ LET obj  == Top(g).obj
         kind == Top(g).kind
     IN  Then(g, << [do |-> IF Passes(obj, kind) THEN "remove" ELSE "upsert",
                     f  |-> << obj.id, kind >>] >>)
  /\ UNCHANGED << store, stored, ops >>

(* upsertFinding: a mutation of its own, under the derived id, whose event *)
(* takes the same way.                                                     *)
UpsertFinding(g) ==
  /\ Doing(g, {"upsert"})
  /\ findings' = Filing(Top(g).f, Top(g).f)
  /\ Then(g, Emit(Event("Upsert", Top(g).f, Top(g).f)))
  /\ UNCHANGED << subjects, types, stored, ops >>

(* Seeded faults: the deletion sends no event; it is tried until there is  *)
(* a finding to delete.                                                    *)
DeletionUnannounced(f) == << >>

DeletionInsisted(f) ==
  IF f \in DOMAIN findings THEN Emit(Event("Delete", f, None))
                           ELSE << [do |-> "remove", f |-> f] >>

Deletion(f) ==
  IF f \in DOMAIN findings THEN Emit(Event("Delete", f, None)) ELSE << >>

(* deleteFinding: whatever has the derived id; nothing if nothing has.     *)
RemoveFinding(g) ==
  /\ Doing(g, {"remove"})
  /\ findings' = Dropping(Top(g).f)
  /\ Then(g, Deletion(Top(g).f))
  /\ UNCHANGED << subjects, types, stored, ops >>

(* Seeded fault: a finding is taken as it comes.                           *)
ReconcileFindingNever(g) ==
  /\ Doing(g, {"reconcile"})
  /\ Then(g, << >>)
  /\ UNCHANGED << store, stored, ops >>

(* reconcileFindingSubject: the subject is looked up ...                   *)
ReconcileFinding(g) ==
  /\ Doing(g, {"reconcile"})
  /\ LET f == Top(g).f
     IN  Then(g, IF Registered(f[1])
                 THEN << [do |-> "recheck", f |-> f, obj |-> subjects[f[1]]] >>
                 ELSE << >>)
  /\ UNCHANGED << store, stored, ops >>

(* Seeded fault: a finding that is confirmed is added again.               *)
ConfirmedAnew(f) == << [do |-> "upsert", f |-> f] >>

Confirmed(f) == << >>

(* ... and if it passes the check, the finding is deleted that has the id  *)
(* derived from subject and kind, which need not be the one that arrived.  *)
Recheck(g) ==
  /\ Doing(g, {"recheck"})
  /\ LET f == Top(g).f
     IN  Then(g, IF Passes(Top(g).obj, f[2]) THEN << [do |-> "remove", f |-> f] >>
                                            ELSE Confirmed(f))
  /\ UNCHANGED << store, stored, ops >>

Work(g) ==
  \/ AddPushed(g) \/ Filter(g) \/ Record(g)
  \/ List(g) \/ EachSubject(g)
  \/ Check(g) \/ UpsertFinding(g) \/ RemoveFinding(g)
  \/ ReconcileFinding(g) \/ Recheck(g)

Operate(g) ==
  \/ \E obj \in ContextObject : Add(g, obj)
  \/ \E obj \in NodeObject : ~ obj.embedded /\ Add(g, obj)
  \/ \E n \in Node, t \in NodeType \cup {None} : PushNode(g, n, t)
  \/ \E s \in Subject : Delete(g, s)
  \/ \E t \in Type : AddType(g, t) \/ DeleteType(g, t)
  \/ \E i \in Ingress : AddFinding(g, i.id, i.says) \/ DeleteFinding(g, i.id)
  \/ ReconcileAll(g)

Next == \E g \in Goroutine : Operate(g) \/ Work(g)

(* A goroutine that is in the middle of a call goes on.                    *)
Spec == Init /\ [][Next]_vars /\ \A g \in Goroutine : WF_vars(Work(g))

-----------------------------------------------------------------------------
(* The mutations a goroutine is in the middle of: the events it has yet to *)
(* record.                                                                 *)
Nesting(g) == Cardinality({i \in DOMAIN stack[g] : stack[g][i].do = "record"})

(***************************************************************************)
(* The type invariant.  It includes that the filter's recursion is         *)
(* bounded: mutations nest at most three deep, a call, a finding that it   *)
(* adds, and the deletion of that finding by its own check.                *)
(***************************************************************************)
LandscapeTypeOK ==
  /\ DOMAIN subjects \subseteq Subject
  /\ \A s \in DOMAIN subjects : subjects[s] \in Object /\ subjects[s].id = s
  /\ types \subseteq Type
  /\ DOMAIN findings \subseteq FindingId
  /\ \A id \in DOMAIN findings : findings[id] \in Finding
  /\ \A g \in Goroutine : \A i \in DOMAIN stack[g] : stack[g][i] \in Task
  /\ \A g \in Goroutine : Nesting(g) <= 3
  /\ ops \in 0 .. MaxOps

Quiescent == \A g \in Goroutine : Idle(g)

(* The subject is registered and fails the check.                          *)
Failing(f) == Registered(f[1]) /\ ~ Passes(subjects[f[1]], f[2])

(* The findings that have the id derived from what they say: all that the  *)
(* filter adds, and those from outside whose sender derives ids likewise.  *)
Own == {f \in Finding \cap DOMAIN findings : findings[f] = f}

(***************************************************************************)
(* No registered subject is accused of what is not the case by a finding   *)
(* that has its derived id, however the calls of several goroutines        *)
(* interleave: a check may be overtaken by the change that makes it pass,  *)
(* but the finding it then adds passes through the filter itself           *)
(* (reconcileFindingSubject).  Sensors only "SHOULD ... prefer" that id    *)
(* (docs/findings.md), and a finding from outside with another is not      *)
(* covered: see PhaseZeroNegates.                                          *)
(***************************************************************************)
NoFalseFinding ==
  Quiescent => \A f \in Own : Registered(f[1]) => Failing(f)

(***************************************************************************)
(* The same of every finding of a kind of phase 0, whatever its id: the    *)
(* filter that resolves findings skips these kinds, because "those remain  *)
(* under [phase0] negation" (resolvefindings.go).                          *)
(***************************************************************************)
PhaseZeroNegates ==
  Quiescent => \A id \in DOMAIN findings :
                 Registered(findings[id][1]) => Failing(findings[id])

(***************************************************************************)
(* Of the registered subjects exactly those that fail a check have the     *)
(* finding: "a finding is created when the violating condition is first    *)
(* detected ... it is deleted automatically when ... the condition has     *)
(* been resolved" (docs/findings.md).                                      *)
(***************************************************************************)
FindingsExact ==
  Quiescent => \A f \in Finding : Registered(f[1]) => (f \in Own <=> Failing(f))

(***************************************************************************)
(* The event manager takes exactly those resources to be live that are in  *)
(* the model: a new subscriber, or one that is resynced, is sent neither   *)
(* more nor less.                                                          *)
(***************************************************************************)
StoredIsModel ==
  Quiescent => stored = DOMAIN subjects \cup types \cup DOMAIN findings

(***************************************************************************)
(* Every subject that refers to a type that is not in the model has the    *)
(* finding: a finding is about "a resource that references another         *)
(* resource by UUID, but that referenced resource does not (yet) exist in  *)
(* the model" (docs/findings.md).  FindingsExact says it of the            *)
(* subjects that the filter's own checks find failing; a Node whose type   *)
(* is embedded is not among them.                                          *)
(***************************************************************************)
DanglingTypesFound ==
  Quiescent =>
    \A s \in DOMAIN subjects :
      subjects[s].type \notin types \cup {None}
        => << s, IF s \in Context THEN TypeMissing ELSE NodeTypeMissing >> \in Own

(***************************************************************************)
(* The nesting ends: a mutation that makes the filter mutate the model,    *)
(* which makes the filter mutate the model again, returns.                 *)
(***************************************************************************)
CallsReturn == \A g \in Goroutine : ~ Idle(g) ~> Idle(g)

=============================================================================
