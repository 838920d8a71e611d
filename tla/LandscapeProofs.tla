-------------------------- MODULE LandscapeProofs ---------------------------
(***************************************************************************)
(* The model store with the chain and the phase-0 filter: types and the    *)
(* bound on the filter's recursion, no false finding under a derived id    *)
(* with any goroutines, and, with one, exact findings and an exact record. *)
(***************************************************************************)
EXTENDS Landscape, SequenceTheorems, FiniteSetTheorems, TLAPS

(* t is an element of the sequence s.                                      *)
InSeq(s, t) == \E i \in DOMAIN s : s[i] = t

(* The task t is on the stack of some goroutine.                           *)
OnStack(t) == \E g \in Goroutine : InSeq(stack[g], t)

(* What sequences of tasks are made of.                                    *)
LEMMA SeqMembers ==
  ASSUME NEW S
  PROVE  /\ << >> \in Seq(S) /\ \A t : ~ InSeq(<< >>, t)
         /\ \A x \in S : << x >> \in Seq(S) /\ \A t : InSeq(<< x >>, t) <=> t = x
         /\ \A a, b \in Seq(S) :
              a \o b \in Seq(S) /\ \A t : InSeq(a \o b, t) <=> InSeq(a, t) \/ InSeq(b, t)
         /\ \A a \in Seq(S) : \A t : InSeq(a, t) => t \in S
<1>1. << >> \in Seq(S) /\ \A t : ~ InSeq(<< >>, t)
  BY DEF InSeq
<1>2. ASSUME NEW x \in S PROVE << x >> \in Seq(S) /\ \A t : InSeq(<< x >>, t) <=> t = x
  BY DEF InSeq
<1>3. ASSUME NEW a \in Seq(S), NEW b \in Seq(S)
      PROVE  a \o b \in Seq(S) /\ \A t : InSeq(a \o b, t) <=> InSeq(a, t) \/ InSeq(b, t)
  <2>1. /\ a \o b \in Seq(S) /\ Len(a \o b) = Len(a) + Len(b)
        /\ \A i \in 1 .. Len(a) + Len(b) :
             (a \o b)[i] = IF i <= Len(a) THEN a[i] ELSE b[i - Len(a)]
    BY ConcatProperties
  <2>2. /\ Len(a) \in Nat /\ Len(b) \in Nat /\ DOMAIN a = 1 .. Len(a) /\ DOMAIN b = 1 .. Len(b)
        /\ DOMAIN (a \o b) = 1 .. Len(a) + Len(b)
    BY <2>1, LenProperties
  <2>3. ASSUME NEW t, InSeq(a \o b, t) PROVE InSeq(a, t) \/ InSeq(b, t)
    <3>1. PICK i \in 1 .. Len(a) + Len(b) : (a \o b)[i] = t
      BY <2>2, <2>3 DEF InSeq
    <3>2. CASE i <= Len(a)
      BY <2>1, <2>2, <3>1, <3>2 DEF InSeq
    <3>3. CASE i > Len(a)
      <4>1. i - Len(a) \in DOMAIN b /\ b[i - Len(a)] = t
        BY <2>1, <2>2, <3>1, <3>3
      <4> QED
        BY <4>1 DEF InSeq
    <3> QED
      BY <2>2, <3>2, <3>3
  <2>4. ASSUME NEW t, InSeq(a, t) PROVE InSeq(a \o b, t)
    <3>1. PICK i \in 1 .. Len(a) : a[i] = t
      BY <2>2, <2>4 DEF InSeq
    <3>2. i \in 1 .. Len(a) + Len(b) /\ (a \o b)[i] = t
      BY <2>1, <2>2, <3>1
    <3> QED
      BY <2>2, <3>2 DEF InSeq
  <2>5. ASSUME NEW t, InSeq(b, t) PROVE InSeq(a \o b, t)
    <3>1. PICK i \in 1 .. Len(b) : b[i] = t
      BY <2>2, <2>5 DEF InSeq
    <3>2. i + Len(a) \in 1 .. Len(a) + Len(b) /\ (a \o b)[i + Len(a)] = t
      BY <2>1, <2>2, <3>1
    <3> QED
      BY <2>2, <3>2 DEF InSeq
  <2> QED
    BY <2>1, <2>3, <2>4, <2>5
<1>4. ASSUME NEW a \in Seq(S), NEW t, InSeq(a, t) PROVE t \in S
  BY <1>4, ElementOfSeq, LenProperties DEF InSeq
<1> QED
  BY <1>1, <1>2, <1>3, <1>4

(* A sequence of one task.                                                 *)
LEMMA OneTask ==
  ASSUME NEW x \in Task
  PROVE  << x >> \in Seq(Task) /\ \A t : InSeq(<< x >>, t) <=> t = x
BY SeqMembers

(* No task.                                                                *)
LEMMA NoTask == << >> \in Seq(Task) /\ \A t : ~ InSeq(<< >>, t)
BY SeqMembers

(* Sequences of tasks that are joined.                                     *)
LEMMA JoinedTasks ==
  ASSUME NEW a \in Seq(Task), NEW b \in Seq(Task)
  PROVE  a \o b \in Seq(Task) /\ \A t : InSeq(a \o b, t) <=> InSeq(a, t) \/ InSeq(b, t)
BY SeqMembers

(* Adding to the map.                                                      *)
LEMMA WithFacts ==
  ASSUME NEW o
  PROVE  /\ DOMAIN With(o) = DOMAIN subjects \cup {o.id}
         /\ With(o)[o.id] = o
         /\ \A r \in DOMAIN subjects \ {o.id} : With(o)[r] = subjects[r]
BY DEF With

(* Deleting from it.                                                       *)
LEMMA DropFacts ==
  ASSUME NEW s
  PROVE  /\ DOMAIN Restrict(subjects, DOMAIN subjects \ {s}) = DOMAIN subjects \ {s}
         /\ \A r \in DOMAIN subjects \ {s} :
              Restrict(subjects, DOMAIN subjects \ {s})[r] = subjects[r]
BY DEF Restrict

-----------------------------------------------------------------------------
(***************************************************************************)
(* Tasks and stacks.                                                       *)
(***************************************************************************)
Types ==
  /\ DOMAIN subjects \subseteq Subject
  /\ \A s \in DOMAIN subjects : subjects[s] \in Object /\ subjects[s].id = s
  /\ types \subseteq Type
  /\ DOMAIN findings \subseteq FindingId
  /\ \A id \in DOMAIN findings : findings[id] \in Finding
  /\ stack \in [Goroutine -> Seq(Task)]
  /\ ops \in 0 .. MaxOps

(* The parts of a task are of the kind its name says.                      *)
LEMMA TaskFacts ==
  ASSUME NEW t \in Task
  PROVE  /\ t.do \in {"filter", "record"} => t.ev \in EventType
         /\ t.do = "add" => t.obj \in NodeObject
         /\ t.do = "list" => t.of \in {AllContexts, AllNodes} \cup Context \cup Type
         /\ t.do = "each" =>
              /\ t.todo \in SUBSET Object /\ t.parentOnly \in BOOLEAN
              /\ t.parentOnly => t.todo \subseteq ContextObject
              /\ t = [do |-> "each", todo |-> t.todo, parentOnly |-> t.parentOnly]
         /\ t.do = "check" =>
              /\ t.kind \in Kind /\ t.obj \in Object /\ << t.obj.id, t.kind >> \in Finding
              /\ t = [do |-> "check", kind |-> t.kind, obj |-> t.obj]
         /\ t.do \in {"upsert", "remove", "reconcile", "recheck"} => t.f \in Finding
         /\ t.do = "recheck" => t.obj \in Object
BY DEF Task

(* A finding is its subject and a kind of check for it.                    *)
KindsOf(s) == IF s \in Context THEN {TypeMissing, ParentNotFound} ELSE {NodeTypeMissing}

(* What a finding is about and says. It is neither a subject nor a type,   *)
(* so one map by id may hold the events of all of them.                    *)
LEMMA FindingFacts ==
  ASSUME NEW f \in Finding
  PROVE  /\ f = << f[1], f[2] >> /\ f[1] \in Subject /\ f[2] \in KindsOf(f[1])
         /\ f \notin Subject /\ f \notin Type
         /\ f[2] = ParentNotFound => f[1] \in Context
BY LandscapeAssumption
   DEF Finding, FindingId, KindsOf, Subject, TypeMissing, ParentNotFound, NodeTypeMissing

(* A subject and a kind of check for it are a finding.                     *)
LEMMA KindsFacts ==
  ASSUME NEW s \in Subject, NEW kind \in KindsOf(s)
  PROVE  kind \in Kind /\ << s, kind >> \in Finding
BY LandscapeAssumption DEF Finding, KindsOf, Subject, Kind

(* An event is announced by its filter and its record.                     *)
LEMMA EmitFacts ==
  ASSUME NEW ev \in EventType
  PROVE  /\ Emit(ev) \in Seq(Task)
         /\ Emit(ev) = << [do |-> "filter", ev |-> ev], [do |-> "record", ev |-> ev] >>
         /\ \A t : InSeq(Emit(ev), t) <=>
              t \in {[do |-> "filter", ev |-> ev], [do |-> "record", ev |-> ev]}
<1>1. [do |-> "filter", ev |-> ev] \in Task /\ [do |-> "record", ev |-> ev] \in Task
  BY DEF Task
<1>2. PICK a \in Task, b \in Task : a = [do |-> "filter", ev |-> ev] /\ b = [do |-> "record", ev |-> ev]
  BY <1>1
<1>3. << a, b >> \in Seq(Task) /\ \A t : InSeq(<< a, b >>, t) <=> t = a \/ t = b
  BY DEF InSeq
<1> QED
  BY <1>2, <1>3 DEF Emit

(* Each kind of check of an object.                                        *)
LEMMA CheckAllFacts ==
  ASSUME NEW obj \in Object
  PROVE  /\ CheckAll(obj) \in Seq(Task)
         /\ obj.id \in Context =>
              /\ CheckParent(obj) \in Seq(Task)
              /\ \A t : InSeq(CheckParent(obj), t) <=>
                   t = [do |-> "check", kind |-> ParentNotFound, obj |-> obj]
         /\ \A t : InSeq(CheckAll(obj), t) <=>
              \E kind \in KindsOf(obj.id) : t = [do |-> "check", kind |-> kind, obj |-> obj]
<1>1. \A kind \in KindsOf(obj.id) : [do |-> "check", kind |-> kind, obj |-> obj] \in Task
  <2> SUFFICES ASSUME NEW kind \in KindsOf(obj.id)
               PROVE  [do |-> "check", kind |-> kind, obj |-> obj] \in Task
    OBVIOUS
  <2>1. obj.id \in Subject
    BY DEF Object, ContextObject, NodeObject, Subject
  <2>2. kind \in Kind /\ << obj.id, kind >> \in Finding
    BY <2>1, KindsFacts
  <2> QED
    BY <2>2 DEF Task
<1>5. CASE obj.id \in Context
  <2>1. PICK a \in Task, b \in Task :
          /\ a = [do |-> "check", kind |-> TypeMissing, obj |-> obj]
          /\ b = [do |-> "check", kind |-> ParentNotFound, obj |-> obj]
    BY <1>1, <1>5 DEF KindsOf
  <2>5. << a >> \in Seq(Task) /\ << b >> \in Seq(Task)
        /\ \A t : (InSeq(<< a >>, t) <=> t = a) /\ (InSeq(<< b >>, t) <=> t = b)
    BY SeqMembers
  <2>2. PICK x \in Seq(Task), y \in Seq(Task) :
          x = << a >> /\ y = << b >> /\ (\A t : InSeq(x, t) <=> t = a)
                                    /\ (\A t : InSeq(y, t) <=> t = b)
    BY <2>5
  <2>3. x \o y \in Seq(Task) /\ \A t : InSeq(x \o y, t) <=> InSeq(x, t) \/ InSeq(y, t)
    BY SeqMembers
  <2>4. CheckParent(obj) = y /\ CheckAll(obj) = x \o y
    BY <1>5, <2>1, <2>2 DEF CheckAll, CheckParent
  <2> QED
    BY <1>5, <2>1, <2>2, <2>3, <2>4 DEF KindsOf
<1>6. CASE obj.id \notin Context
  <2>1. PICK c \in Task : c = [do |-> "check", kind |-> NodeTypeMissing, obj |-> obj]
    BY <1>1, <1>6 DEF KindsOf
  <2>2. << c >> \in Seq(Task) /\ \A t : InSeq(<< c >>, t) <=> t = c
    BY SeqMembers
  <2>3. CheckAll(obj) = << c >>
    BY <1>6, <2>1 DEF CheckAll
  <2> QED
    BY <1>6, <2>1, <2>2, <2>3 DEF KindsOf
<1> QED
  BY <1>5, <1>6

(* What the filter does about an event.                                    *)
LEMMA ChecksFacts ==
  ASSUME NEW ev \in EventType
  PROVE  /\ Checks(ev) \in Seq(Task)
         /\ \A t : InSeq(Checks(ev), t) <=>
              \/ /\ ev.op = "Upsert" /\ ev.res \in Subject
                 /\ \E kind \in KindsOf(ev.obj.id) :
                      t = [do |-> "check", kind |-> kind, obj |-> ev.obj]
              \/ ev.res \in Context \cup Type /\ t = [do |-> "list", of |-> ev.res]
              \/ /\ ev.op = "Upsert" /\ ev.res \in FindingId
                 /\ t = [do |-> "reconcile", f |-> ev.obj]
<1> DEFINE A == IF ev.op = "Upsert" /\ ev.res \in Subject THEN CheckAll(ev.obj) ELSE << >>
           B == Referrers(ev)
           C == IF ev.op = "Upsert" /\ ev.res \in FindingId
                THEN << [do |-> "reconcile", f |-> ev.obj] >> ELSE << >>
<1>1. ev.op = "Upsert" /\ ev.res \in Subject => ev.obj \in Object
  BY LandscapeAssumption DEF EventType, Subject, Type
<1>2. A \in Seq(Task) /\ \A t : InSeq(A, t) <=>
        /\ ev.op = "Upsert" /\ ev.res \in Subject
        /\ \E kind \in KindsOf(ev.obj.id) : t = [do |-> "check", kind |-> kind, obj |-> ev.obj]
  BY <1>1, CheckAllFacts, SeqMembers
<1>3. B \in Seq(Task) /\ \A t : InSeq(B, t) <=>
        ev.res \in Context \cup Type /\ t = [do |-> "list", of |-> ev.res]
  <2>1. ev.res \in Context \cup Type => [do |-> "list", of |-> ev.res] \in Task
    BY DEF Task
  <2>2. CASE ev.res \in Context \cup Type
    BY <2>1, <2>2, OneTask DEF Referrers
  <2>3. CASE ev.res \notin Context \cup Type
    BY <2>3, NoTask DEF Referrers
  <2> QED
    BY <2>2, <2>3
<1>4. C \in Seq(Task) /\ \A t : InSeq(C, t) <=>
        /\ ev.op = "Upsert" /\ ev.res \in FindingId
        /\ t = [do |-> "reconcile", f |-> ev.obj]
  <2>1. ev.op = "Upsert" /\ ev.res \in FindingId => ev.obj \in Finding
    BY LandscapeAssumption DEF EventType
  <2>3. ev.obj \in Finding => [do |-> "reconcile", f |-> ev.obj] \in Task
    BY DEF Task
  <2> QED
    BY <2>1, <2>3, SeqMembers
<1>5. Checks(ev) = (A \o B) \o C
  BY DEF Checks
<1> HIDE DEF A, B, C
<1>6. (A \o B) \o C \in Seq(Task)
      /\ \A t : InSeq((A \o B) \o C, t) <=> InSeq(A, t) \/ InSeq(B, t) \/ InSeq(C, t)
  <2>1. A \o B \in Seq(Task) /\ \A t : InSeq(A \o B, t) <=> InSeq(A, t) \/ InSeq(B, t)
    BY <1>2, <1>3, SeqMembers
  <2>2. PICK x \in Seq(Task), y \in Seq(Task) : x = A \o B /\ y = C
    BY <1>4, <2>1
  <2>3. x \o y \in Seq(Task) /\ \A t : InSeq(x \o y, t) <=> InSeq(x, t) \/ InSeq(y, t)
    BY SeqMembers
  <2> QED
    BY <2>1, <2>2, <2>3
<1> QED
  BY <1>2, <1>3, <1>4, <1>5, <1>6

(* The first task of g is done, and leaves ts.                             *)
Turns(g, ts) ==
  /\ ~ Idle(g)
  /\ Top(g) \in Task
  /\ ts \in Seq(Task)
  /\ Then(g, ts)

(* g, which had nothing to do, has ts to do.                               *)
Begins(g, ts) ==
  /\ Idle(g)
  /\ ts \in Seq(Task)
  /\ stack' = [stack EXCEPT ![g] = ts]

(* The elements of a sequence of tasks are its head and those of its       *)
(* tail.                                                                   *)
LEMMA TopFacts ==
  ASSUME NEW s \in Seq(Task), s # << >>
  PROVE  /\ Head(s) \in Task /\ Tail(s) \in Seq(Task)
         /\ \A t : InSeq(s, t) <=> t = Head(s) \/ InSeq(Tail(s), t)
<1>1. /\ Len(s) \in Nat \ {0} /\ DOMAIN s = 1 .. Len(s) /\ Head(s) = s[1] /\ Head(s) \in Task
      /\ Tail(s) \in Seq(Task) /\ DOMAIN Tail(s) = 1 .. Len(s) - 1
      /\ \A i \in 1 .. Len(s) - 1 : Tail(s)[i] = s[i + 1]
  <2>1. /\ Len(s) \in Nat \ {0} /\ DOMAIN s = 1 .. Len(s)
        /\ Tail(s) \in Seq(Task) /\ Len(Tail(s)) = Len(s) - 1
        /\ \A i \in 1 .. Len(s) - 1 : Tail(s)[i] = s[i + 1]
    BY HeadTailProperties, EmptySeq, LenProperties
  <2> QED
    BY <2>1, LenProperties, HeadTailProperties
<1>2. ASSUME NEW t, InSeq(s, t) PROVE t = Head(s) \/ InSeq(Tail(s), t)
  <2>1. PICK i \in 1 .. Len(s) : s[i] = t
    BY <1>1, <1>2 DEF InSeq
  <2>2. CASE i = 1
    BY <1>1, <2>1, <2>2
  <2>3. CASE i # 1
    <3>1. i - 1 \in 1 .. Len(s) - 1 /\ Tail(s)[i - 1] = t
      BY <1>1, <2>1, <2>3
    <3> QED
      BY <1>1, <3>1 DEF InSeq
  <2> QED
    BY <2>2, <2>3
<1>3. ASSUME NEW t, t = Head(s) \/ InSeq(Tail(s), t) PROVE InSeq(s, t)
  <2>1. CASE t = Head(s)
    BY <1>1, <2>1 DEF InSeq
  <2>2. CASE InSeq(Tail(s), t)
    <3>1. PICK i \in 1 .. Len(s) - 1 : Tail(s)[i] = t
      BY <1>1, <2>2 DEF InSeq
    <3>2. i + 1 \in 1 .. Len(s) /\ s[i + 1] = t
      BY <1>1, <3>1
    <3> QED
      BY <1>1, <3>2 DEF InSeq
  <2> QED
    BY <1>3, <2>1, <2>2
<1> QED
  BY <1>1, <1>2, <1>3

(* The first task of a goroutine that is not idle is a task.               *)
LEMMA TopIsTask ==
  ASSUME Types, NEW g \in Goroutine, ~ Idle(g)
  PROVE  Top(g) \in Task /\ OnStack(Top(g))
<1>1. stack[g] \in Seq(Task) /\ stack[g] # << >>
  BY DEF Types, Idle
<1> QED
  BY <1>1, TopFacts DEF Top, OnStack

(* The tasks after a step: those there were, but the first of g, and ts.   *)
LEMMA TurnsTasks ==
  ASSUME Types, NEW g \in Goroutine, NEW ts, Turns(g, ts)
  PROVE  /\ stack' \in [Goroutine -> Seq(Task)]
         /\ stack'[g] = ts \o Tail(stack[g]) /\ \A h \in Goroutine \ {g} : stack'[h] = stack[h]
         /\ \A t : OnStack(t)' => OnStack(t) \/ InSeq(ts, t)
         /\ \A t : OnStack(t) => OnStack(t)' \/ t = Top(g)
         /\ \A t : InSeq(ts, t) => OnStack(t)'
<1>1. stack[g] \in Seq(Task) /\ stack[g] # << >> /\ ts \in Seq(Task)
  BY DEF Types, Turns, Idle
<1>2. /\ Tail(stack[g]) \in Seq(Task)
      /\ \A t : InSeq(stack[g], t) <=> t = Top(g) \/ InSeq(Tail(stack[g]), t)
  BY <1>1, TopFacts DEF Top
<1>3. /\ ts \o Tail(stack[g]) \in Seq(Task)
      /\ \A t : InSeq(ts \o Tail(stack[g]), t) <=> InSeq(ts, t) \/ InSeq(Tail(stack[g]), t)
  <2>1. PICK x \in Seq(Task), y \in Seq(Task) : x = ts /\ y = Tail(stack[g])
    BY <1>1, <1>2
  <2>2. x \o y \in Seq(Task) /\ \A t : InSeq(x \o y, t) <=> InSeq(x, t) \/ InSeq(y, t)
    BY SeqMembers
  <2> QED
    BY <2>1, <2>2
<1>4. stack'[g] = ts \o Tail(stack[g]) /\ \A h \in Goroutine \ {g} : stack'[h] = stack[h]
  BY DEF Types, Turns, Then
<1>5. stack' \in [Goroutine -> Seq(Task)]
  BY <1>3 DEF Types, Turns, Then
<1>6. \A t : OnStack(t)' <=> \E h \in Goroutine : InSeq(stack'[h], t)
  BY DEF OnStack, InSeq
<1>7. \A t : OnStack(t)' <=>
        \/ InSeq(ts, t) \/ InSeq(Tail(stack[g]), t)
        \/ \E h \in Goroutine \ {g} : InSeq(stack[h], t)
  BY <1>3, <1>4, <1>6
<1>8. \A t : OnStack(t) <=>
        \/ t = Top(g) \/ InSeq(Tail(stack[g]), t)
        \/ \E h \in Goroutine \ {g} : InSeq(stack[h], t)
  BY <1>2 DEF OnStack
<1> QED
  BY <1>4, <1>5, <1>7, <1>8

(* The tasks after a call has begun: those there were and ts.              *)
LEMMA BeginsTasks ==
  ASSUME Types, NEW g \in Goroutine, NEW ts, Begins(g, ts)
  PROVE  /\ stack' \in [Goroutine -> Seq(Task)]
         /\ stack'[g] = ts /\ \A h \in Goroutine \ {g} : stack'[h] = stack[h]
         /\ \A t : OnStack(t)' <=> OnStack(t) \/ InSeq(ts, t)
<1>1. \A t : ~ InSeq(stack[g], t)
  BY DEF Begins, Idle, InSeq
<1>2. stack'[g] = ts /\ \A h \in Goroutine \ {g} : stack'[h] = stack[h]
  BY DEF Types, Begins
<1>3. stack' \in [Goroutine -> Seq(Task)]
  BY DEF Types, Begins
<1>4. \A t : OnStack(t)' <=> \E h \in Goroutine : InSeq(stack'[h], t)
  BY DEF OnStack, InSeq
<1> QED
  BY <1>1, <1>2, <1>3, <1>4 DEF OnStack

-----------------------------------------------------------------------------
(***************************************************************************)
(* What each step does to the tasks.                                       *)
(***************************************************************************)
LEMMA DoingFacts ==
  ASSUME Types, NEW g \in Goroutine, NEW what, Doing(g, what)
  PROVE  ~ Idle(g) /\ Top(g) \in Task /\ OnStack(Top(g)) /\ Top(g).do \in what
BY TopIsTask DEF Doing

(* The event of an object that is added, and that it is about no finding.  *)
LEMMA UpsertOf ==
  ASSUME NEW obj \in Object
  PROVE  LET ev == Event("Upsert", obj.id, obj)
         IN  ev \in EventType /\ ev.op = "Upsert" /\ ev.res = obj.id /\ ev.obj = obj
             /\ obj.id \in Subject /\ obj.id \notin FindingId
BY LandscapeAssumption
   DEF Object, ContextObject, NodeObject, Event, EventType, Subject

(* The events of types.                                                    *)
LEMMA EventOf ==
  ASSUME NEW op \in {"Upsert", "Delete"}, NEW r \in Type
  PROVE  LET ev == Event(op, r, None)
         IN  ev \in EventType /\ ev.op = op /\ ev.res = r
BY DEF Event, EventType

(* The events of findings: one that is added says what it says.            *)
LEMMA FindingEventOf ==
  ASSUME NEW id \in FindingId, NEW f \in Finding
  PROVE  /\ LET ev == Event("Upsert", id, f)
            IN  ev \in EventType /\ ev.op = "Upsert" /\ ev.res = id /\ ev.obj = f
         /\ LET ev == Event("Delete", id, None)
            IN  ev \in EventType /\ ev.op = "Delete" /\ ev.res = id
BY DEF Event, EventType

(* What is filed under an id, and what is dropped, and what that makes of  *)
(* the findings that have their derived ids.                               *)
LEMMA FilingFacts ==
  ASSUME NEW id, NEW f \in Finding, findings' = Filing(id, f)
  PROVE  /\ DOMAIN findings' = DOMAIN findings \cup {id} /\ findings'[id] = f
         /\ \A i \in DOMAIN findings \ {id} : findings'[i] = findings[i]
         /\ id = f => Own' = Own \cup {f}
         /\ id # f => Own' = Own \ {id}
<1>1. /\ DOMAIN findings' = DOMAIN findings \cup {id} /\ findings'[id] = f
      /\ \A i \in DOMAIN findings \ {id} : findings'[i] = findings[i]
  BY DEF Filing
<1> QED
  BY <1>1 DEF Own

(* The same of what is dropped.                                            *)
LEMMA DroppingFacts ==
  ASSUME NEW id, findings' = Dropping(id)
  PROVE  /\ DOMAIN findings' = DOMAIN findings \ {id}
         /\ \A i \in DOMAIN findings \ {id} : findings'[i] = findings[i]
         /\ Own' = Own \ {id}
<1>1. /\ DOMAIN findings' = DOMAIN findings \ {id}
      /\ \A i \in DOMAIN findings \ {id} : findings'[i] = findings[i]
  BY DEF Dropping, Restrict
<1> QED
  BY <1>1 DEF Own

(* The findings with derived ids are findings that are there.              *)
LEMMA OwnFacts ==
  /\ Own \subseteq Finding /\ Own \subseteq DOMAIN findings
  /\ findings' = findings => Own' = Own
BY DEF Own

(* The event of a subject that is deleted.                                 *)
LEMMA DeleteOf ==
  ASSUME NEW s \in Subject
  PROVE  LET ev == Event("Delete", s, None)
         IN  ev \in EventType /\ ev.op = "Delete" /\ ev.res = s
BY DEF Event, EventType

(* A pushed Node is put into the model and announced.                      *)
LEMMA AddPushedDoes ==
  ASSUME Types, NEW g \in Goroutine, AddPushed(g)
  PROVE  \E obj \in Object :
           /\ Top(g) = [do |-> "add", obj |-> obj]
           /\ subjects' = With(obj)
           /\ Turns(g, Emit(Event("Upsert", obj.id, obj)))
           /\ UNCHANGED << types, findings, Own, stored, ops >>
<1>1. ~ Idle(g) /\ Top(g) \in Task /\ Top(g).do = "add"
  BY DoingFacts DEF AddPushed
<1>2. Top(g) = [do |-> "add", obj |-> Top(g).obj] /\ Top(g).obj \in Object
  BY <1>1 DEF Task, Object
<1>3. Emit(Event("Upsert", Top(g).obj.id, Top(g).obj)) \in Seq(Task)
  BY <1>2, UpsertOf, EmitFacts
<1> QED
  BY <1>1, <1>2, <1>3, OwnFacts DEF AddPushed, Turns

(* The filter turns an event into the checks for it.                       *)
LEMMA FilterDoes ==
  ASSUME Types, NEW g \in Goroutine, Filter(g)
  PROVE  \E ev \in EventType :
           /\ Top(g) = [do |-> "filter", ev |-> ev]
           /\ Turns(g, Checks(ev))
           /\ UNCHANGED << subjects, types, findings, Own, stored, ops >>
<1>1. ~ Idle(g) /\ Top(g) \in Task /\ Top(g).do = "filter"
  BY DoingFacts DEF Filter
<1>2. Top(g) = [do |-> "filter", ev |-> Top(g).ev] /\ Top(g).ev \in EventType
  BY <1>1 DEF Task
<1>3. Checks(Top(g).ev) \in Seq(Task)
  BY <1>2, ChecksFacts
<1> QED
  BY <1>1, <1>2, <1>3, OwnFacts DEF Filter, Turns, store

(* The event manager takes an event over.                                  *)
LEMMA RecordDoes ==
  ASSUME Types, NEW g \in Goroutine, Record(g)
  PROVE  \E ev \in EventType :
           /\ Top(g) = [do |-> "record", ev |-> ev]
           /\ Turns(g, << >>)
           /\ stored' = IF ev.op = "Delete" THEN stored \ {ev.res} ELSE stored \cup {ev.res}
           /\ UNCHANGED << subjects, types, findings, Own, ops >>
<1>1. ~ Idle(g) /\ Top(g) \in Task /\ Top(g).do = "record"
  BY DoingFacts DEF Record
<1>2. Top(g) = [do |-> "record", ev |-> Top(g).ev] /\ Top(g).ev \in EventType
  BY <1>1 DEF Task
<1>3. << >> \in Seq(Task)
  BY SeqMembers
<1> QED
  BY <1>1, <1>2, <1>3, OwnFacts DEF Record, Turns, store

(* The objects that an event concerns are listed, and a loop over them     *)
(* begins.                                                                 *)
LEMMA ListDoes ==
  ASSUME Types, NEW g \in Goroutine, List(g)
  PROVE  \E of : \E todo \in SUBSET Object :
           /\ Top(g) = [do |-> "list", of |-> of]
           /\ todo = {obj \in Range(subjects) : Concerns(of, obj)}
           /\ \E x \in Task :
                /\ x = [do |-> "each", todo |-> todo, parentOnly |-> of \in Context]
                /\ Turns(g, << x >>)
           /\ UNCHANGED << subjects, types, findings, Own, stored, ops >>
<1>1. ~ Idle(g) /\ Top(g) \in Task /\ Top(g).do = "list"
  BY DoingFacts DEF List
<1>2. PICK of : of = Top(g).of
  OBVIOUS
<1>3. Top(g) = [do |-> "list", of |-> of]
  BY <1>1, <1>2 DEF Task
<1>4. PICK todo : todo = {obj \in Range(subjects) : Concerns(of, obj)}
  OBVIOUS
<1>5. todo \in SUBSET Object
  BY <1>4 DEF Types, Range
<1>6. PICK x : x = [do |-> "each", todo |-> todo, parentOnly |-> of \in Context]
  OBVIOUS
<1>7. x \in Task
  <2>1. of \in Context => todo \subseteq ContextObject
    <3> SUFFICES ASSUME of \in Context, NEW obj \in todo PROVE obj \in ContextObject
      OBVIOUS
    <3>1. obj \in Object /\ Concerns(of, obj)
      BY <1>4, <1>5
    <3>2. obj.id \in Context
      BY <3>1, LandscapeAssumption DEF Concerns, Subject, Type
    <3> QED
      BY <3>1, <3>2, LandscapeAssumption DEF Object, NodeObject
  <2> QED
    <3>1. CASE of \in Context
      <4>1. x = [do |-> "each", todo |-> todo, parentOnly |-> TRUE]
        BY <1>6, <3>1
      <4> QED
        BY <1>5, <2>1, <3>1, <4>1 DEF Task
    <3>2. CASE of \notin Context
      <4>1. x = [do |-> "each", todo |-> todo, parentOnly |-> FALSE]
        <5>1. (of \in Context) = FALSE
          BY <3>2
        <5> QED
          BY <1>6, <5>1, Zenon
      <4> QED
        BY <1>5, <4>1 DEF Task
    <3> QED
      BY <3>1, <3>2
<1>8. << x >> \in Seq(Task)
  BY <1>7, SeqMembers
<1>9. Then(g, << x >>) /\ UNCHANGED << subjects, types, findings, Own, stored, ops >>
  BY <1>2, <1>4, <1>6, OwnFacts DEF List, store
<1> QED
  BY <1>1, <1>3, <1>4, <1>5, <1>6, <1>7, <1>8, <1>9 DEF Turns

(* The tasks that a round of a loop over todo leaves, if it is about obj.  *)
RoundLeaves(todo, only, obj, t) ==
  \/ t = [do |-> "each", todo |-> todo \ {obj}, parentOnly |-> only]
  \/ /\ Registered(obj.id)
     /\ \E kind \in IF only THEN {ParentNotFound} ELSE KindsOf(obj.id) :
          t = [do |-> "check", kind |-> kind, obj |-> subjects[obj.id]]

(* A round of a loop over listed objects: it ends, or one of them is to    *)
(* be checked, if it is registered by then.                                *)
LEMMA EachDoes ==
  ASSUME Types, NEW g \in Goroutine, EachSubject(g)
  PROVE  \E todo \in SUBSET Object, only \in BOOLEAN, ts \in Seq(Task) :
           /\ Top(g) = [do |-> "each", todo |-> todo, parentOnly |-> only]
           /\ Turns(g, ts)
           /\ UNCHANGED << subjects, types, findings, Own, stored, ops >>
           /\ \/ todo = {} /\ ts = << >>
              \/ \E obj \in todo : \A t : InSeq(ts, t) <=> RoundLeaves(todo, only, obj, t)
<1>1. ~ Idle(g) /\ Top(g) \in Task /\ Top(g).do = "each"
  BY DoingFacts DEF EachSubject
<1>2. PICK todo \in SUBSET Object, only \in BOOLEAN :
        Top(g) = [do |-> "each", todo |-> todo, parentOnly |-> only]
  BY <1>1, TaskFacts
<1>3. UNCHANGED << subjects, types, findings, Own, stored, ops >>
  BY OwnFacts DEF EachSubject, store
<1>4. CASE todo = {} /\ Then(g, << >>)
  <2>1. << >> \in Seq(Task)
    BY SeqMembers
  <2> QED
    BY <1>1, <1>2, <1>3, <1>4, <2>1 DEF Turns
<1>5. ASSUME NEW obj \in todo,
             LET rest   == << [Top(g) EXCEPT !.todo = @ \ {obj}] >>
                 cur    == subjects[obj.id]
                 checks == IF Top(g).parentOnly THEN CheckParent(cur) ELSE CheckAll(cur)
             IN  Then(g, IF Registered(obj.id) THEN checks \o rest ELSE rest)
      PROVE  \E ts : Turns(g, ts) /\ \A t : InSeq(ts, t) <=> RoundLeaves(todo, only, obj, t)
  <2>1. PICK x : x = [do |-> "each", todo |-> todo \ {obj}, parentOnly |-> only]
    OBVIOUS
  <2>0. only => todo \subseteq ContextObject
    <3>1. Top(g).todo = todo /\ Top(g).parentOnly = only
      BY <1>2
    <3>2. Top(g).parentOnly => Top(g).todo \subseteq ContextObject
      BY <1>1, TaskFacts
    <3> QED
      BY <3>1, <3>2
  <2>2. x \in Task /\ [Top(g) EXCEPT !.todo = @ \ {obj}] = x
    BY <1>2, <2>0, <2>1 DEF Task
  <2>3. << x >> \in Seq(Task) /\ \A t : InSeq(<< x >>, t) <=> t = x
    BY <2>2, OneTask
  <2>4. CASE ~ Registered(obj.id)
    <3>1. Then(g, << x >>)
      BY <1>5, <2>2, <2>4
    <3>2. \A t : InSeq(<< x >>, t) <=> RoundLeaves(todo, only, obj, t)
      BY <2>1, <2>3, <2>4 DEF RoundLeaves
    <3> QED
      BY <1>1, <2>3, <3>1, <3>2 DEF Turns
  <2>5. CASE Registered(obj.id)
    <3>1. subjects[obj.id] \in Object /\ subjects[obj.id].id = obj.id
      BY <2>5 DEF Types, Registered
    <3>2. PICK a : a = IF only THEN CheckParent(subjects[obj.id]) ELSE CheckAll(subjects[obj.id])
      OBVIOUS
    <3>3. /\ a \in Seq(Task)
          /\ \A t : InSeq(a, t) <=>
               \E kind \in IF only THEN {ParentNotFound} ELSE KindsOf(obj.id) :
                 t = [do |-> "check", kind |-> kind, obj |-> subjects[obj.id]]
      BY <2>0, <3>1, <3>2, CheckAllFacts DEF ContextObject
    <3>4. PICK y \in Seq(Task) : y = << x >>
      BY <2>3
    <3>5. a \o y \in Seq(Task) /\ \A t : InSeq(a \o y, t) <=> InSeq(a, t) \/ InSeq(y, t)
      BY <3>3, JoinedTasks
    <3>6. Then(g, a \o y)
      BY <1>2, <1>5, <2>2, <2>5, <3>2, <3>4
    <3>7. Turns(g, a \o y)
      BY <1>1, <3>5, <3>6 DEF Turns
    <3>8. \A t : InSeq(a \o y, t) <=> RoundLeaves(todo, only, obj, t)
      <4> SUFFICES ASSUME NEW t PROVE InSeq(a \o y, t) <=> RoundLeaves(todo, only, obj, t)
        OBVIOUS
      <4>1. InSeq(a \o y, t) <=> InSeq(a, t) \/ t = x
        BY <2>3, <3>4, <3>5
      <4>2. InSeq(a, t) <=> \E kind \in IF only THEN {ParentNotFound} ELSE KindsOf(obj.id) :
                               t = [do |-> "check", kind |-> kind, obj |-> subjects[obj.id]]
        BY <3>3
      <4> QED
        BY <2>1, <2>5, <4>1, <4>2 DEF RoundLeaves
    <3> QED
      BY <3>7, <3>8
  <2> QED
    BY <2>4, <2>5
<1>6. Top(g).todo = todo
  BY <1>2
<1>7. \/ todo = {} /\ Then(g, << >>)
      \/ \E obj \in todo :
           LET rest   == << [Top(g) EXCEPT !.todo = @ \ {obj}] >>
               cur    == subjects[obj.id]
               checks == IF Top(g).parentOnly THEN CheckParent(cur) ELSE CheckAll(cur)
           IN  Then(g, IF Registered(obj.id) THEN checks \o rest ELSE rest)
  BY <1>6 DEF EachSubject
<1> QED
  BY <1>2, <1>3, <1>4, <1>5, <1>7 DEF Turns

(* A check ends in a finding that is added or deleted.                     *)
LEMMA CheckDoes ==
  ASSUME Types, NEW g \in Goroutine, Check(g)
  PROVE  \E obj \in Object, kind \in Kind :
           /\ Top(g) = [do |-> "check", kind |-> kind, obj |-> obj]
           /\ << obj.id, kind >> \in Finding
           /\ \E x \in Task :
                /\ x = [do |-> IF Passes(obj, kind) THEN "remove" ELSE "upsert",
                        f  |-> << obj.id, kind >>]
                /\ Turns(g, << x >>)
           /\ UNCHANGED << subjects, types, findings, Own, stored, ops >>
<1>1. ~ Idle(g) /\ Top(g) \in Task /\ Top(g).do = "check"
  BY DoingFacts DEF Check
<1>2. PICK obj \in Object, kind \in Kind :
        /\ Top(g) = [do |-> "check", kind |-> kind, obj |-> obj]
        /\ obj = Top(g).obj /\ kind = Top(g).kind
        /\ << obj.id, kind >> \in Finding
  BY <1>1, TaskFacts
<1>3. PICK x : x = [do |-> IF Passes(obj, kind) THEN "remove" ELSE "upsert",
                    f  |-> << obj.id, kind >>]
  OBVIOUS
<1>4. x \in Task
  BY <1>2, <1>3 DEF Task
<1>5. << x >> \in Seq(Task)
  BY <1>4, SeqMembers
<1>6. Then(g, << x >>) /\ UNCHANGED << subjects, types, findings, Own, stored, ops >>
  BY <1>2, <1>3, OwnFacts DEF Check, store
<1> QED
  BY <1>1, <1>2, <1>3, <1>4, <1>5, <1>6 DEF Turns

(* A finding is added, and announced.                                      *)
LEMMA UpsertDoes ==
  ASSUME Types, NEW g \in Goroutine, UpsertFinding(g)
  PROVE  \E f \in Finding :
           /\ Top(g) = [do |-> "upsert", f |-> f]
           /\ findings' = Filing(f, f) /\ Own' = Own \cup {f}
           /\ Turns(g, Emit(Event("Upsert", f, f)))
           /\ UNCHANGED << subjects, types, stored, ops >>
<1>1. ~ Idle(g) /\ Top(g) \in Task /\ Top(g).do = "upsert"
  BY DoingFacts DEF UpsertFinding
<1>2. Top(g) = [do |-> "upsert", f |-> Top(g).f] /\ Top(g).f \in Finding
  BY <1>1 DEF Task
<1>3. Emit(Event("Upsert", Top(g).f, Top(g).f)) \in Seq(Task)
  BY <1>2, FindingEventOf, EmitFacts DEF FindingId
<1>4. findings' = Filing(Top(g).f, Top(g).f) /\ Own' = Own \cup {Top(g).f}
  BY <1>2, FilingFacts DEF UpsertFinding
<1> QED
  BY <1>1, <1>2, <1>3, <1>4 DEF UpsertFinding, Turns

(* A finding is deleted, which is announced if there was one.              *)
LEMMA RemoveDoes ==
  ASSUME Types, NEW g \in Goroutine, RemoveFinding(g)
  PROVE  \E f \in Finding :
           /\ Top(g) = [do |-> "remove", f |-> f]
           /\ findings' = Dropping(f) /\ Own' = Own \ {f}
           /\ Turns(g, IF f \in DOMAIN findings THEN Emit(Event("Delete", f, None)) ELSE << >>)
           /\ UNCHANGED << subjects, types, stored, ops >>
<1>1. ~ Idle(g) /\ Top(g) \in Task /\ Top(g).do = "remove"
  BY DoingFacts DEF RemoveFinding
<1>2. Top(g) = [do |-> "remove", f |-> Top(g).f] /\ Top(g).f \in Finding
  BY <1>1 DEF Task
<1>3. Emit(Event("Delete", Top(g).f, None)) \in Seq(Task) /\ << >> \in Seq(Task)
  BY <1>2, FindingEventOf, EmitFacts, SeqMembers DEF FindingId
<1>4. findings' = Dropping(Top(g).f) /\ Own' = Own \ {Top(g).f}
  BY DroppingFacts DEF RemoveFinding
<1> QED
  BY <1>1, <1>2, <1>3, <1>4 DEF RemoveFinding, Deletion, Turns

(* The subject of a finding that arrives is looked up.                     *)
LEMMA ReconcileDoes ==
  ASSUME Types, NEW g \in Goroutine, ReconcileFinding(g)
  PROVE  \E f \in Finding :
           /\ Top(g) = [do |-> "reconcile", f |-> f]
           /\ \/ ~ Registered(f[1]) /\ Turns(g, << >>)
              \/ /\ Registered(f[1])
                 /\ \E x \in Task : /\ x = [do |-> "recheck", f |-> f, obj |-> subjects[f[1]]]
                                  /\ Turns(g, << x >>)
           /\ UNCHANGED << subjects, types, findings, Own, stored, ops >>
<1>1. ~ Idle(g) /\ Top(g) \in Task /\ Top(g).do = "reconcile"
  BY DoingFacts DEF ReconcileFinding
<1>2. PICK f \in Finding : Top(g) = [do |-> "reconcile", f |-> f] /\ f = Top(g).f
  BY <1>1 DEF Task
<1>3. UNCHANGED << subjects, types, findings, Own, stored, ops >>
  BY OwnFacts DEF ReconcileFinding, store
<1>4. CASE ~ Registered(f[1])
  <2>1. Then(g, << >>) /\ << >> \in Seq(Task)
    BY <1>2, <1>4, SeqMembers DEF ReconcileFinding
  <2> QED
    BY <1>1, <1>2, <1>3, <1>4, <2>1 DEF Turns
<1>5. CASE Registered(f[1])
  <2>1. PICK x : x = [do |-> "recheck", f |-> f, obj |-> subjects[f[1]]]
    OBVIOUS
  <2>2. x \in Task
    BY <1>5, <2>1 DEF Types, Registered, Task
  <2>3. << x >> \in Seq(Task)
    BY <2>2, SeqMembers
  <2>4. Then(g, << x >>)
    BY <1>2, <1>5, <2>1 DEF ReconcileFinding
  <2> QED
    BY <1>1, <1>2, <1>3, <1>5, <2>1, <2>2, <2>3, <2>4 DEF Turns
<1> QED
  BY <1>4, <1>5

(* A finding whose subject passes the check is deleted again.              *)
LEMMA RecheckDoes ==
  ASSUME Types, NEW g \in Goroutine, Recheck(g)
  PROVE  \E f \in Finding, obj \in Object :
           /\ Top(g) = [do |-> "recheck", f |-> f, obj |-> obj]
           /\ \/ ~ Passes(obj, f[2]) /\ Turns(g, << >>)
              \/ /\ Passes(obj, f[2])
                 /\ \E x \in Task : x = [do |-> "remove", f |-> f] /\ Turns(g, << x >>)
           /\ UNCHANGED << subjects, types, findings, Own, stored, ops >>
<1>1. ~ Idle(g) /\ Top(g) \in Task /\ Top(g).do = "recheck"
  BY DoingFacts DEF Recheck
<1>2. PICK f \in Finding, obj \in Object :
        Top(g) = [do |-> "recheck", f |-> f, obj |-> obj] /\ f = Top(g).f /\ obj = Top(g).obj
  BY <1>1 DEF Task
<1>3. UNCHANGED << subjects, types, findings, Own, stored, ops >>
  BY OwnFacts DEF Recheck, store
<1>4. CASE ~ Passes(obj, f[2])
  <2>1. Then(g, << >>) /\ << >> \in Seq(Task)
    BY <1>2, <1>4, SeqMembers DEF Recheck, Confirmed
  <2> QED
    BY <1>1, <1>2, <1>3, <1>4, <2>1 DEF Turns
<1>5. CASE Passes(obj, f[2])
  <2>1. PICK x \in Task : x = [do |-> "remove", f |-> f]
    BY DEF Task
  <2>2. << x >> \in Seq(Task)
    BY <2>1, SeqMembers
  <2>3. Then(g, << x >>)
    BY <1>2, <1>5, <2>1 DEF Recheck
  <2> QED
    BY <1>1, <1>2, <1>3, <1>5, <2>1, <2>2, <2>3 DEF Turns
<1> QED
  BY <1>4, <1>5

-----------------------------------------------------------------------------
(***************************************************************************)
(* What each call leaves to do.                                            *)
(***************************************************************************)
LEMMA CallFacts ==
  ASSUME Types, NEW g, NEW ts \in Seq(Task), Call(g, ts)
  PROVE  Begins(g, ts) /\ ops' \in 0 .. MaxOps /\ stored' = stored
BY LandscapeAssumption DEF Types, Call, Begins

(* An object is put into the model.                                        *)
Puts(g) ==
  \E obj \in Object :
    /\ subjects' = With(obj)
    /\ Begins(g, Emit(Event("Upsert", obj.id, obj)))
    /\ UNCHANGED << types, findings, Own, stored >>

(* A subject is taken out of it.                                           *)
Drops(g) ==
  \E s \in Subject :
    /\ Registered(s)
    /\ subjects' = Restrict(subjects, DOMAIN subjects \ {s})
    /\ Begins(g, Emit(Event("Delete", s, None)))
    /\ UNCHANGED << types, findings, Own, stored >>

(* A type is added or deleted.                                             *)
PutsType(g) ==
  \E t \in Type :
    /\ types' = types \cup {t}
    /\ Begins(g, Emit(Event("Upsert", t, None)))
    /\ UNCHANGED << subjects, findings, Own, stored >>

(* A type is deleted.                                                      *)
DropsType(g) ==
  \E t \in Type :
    /\ types' = types \ {t}
    /\ Begins(g, Emit(Event("Delete", t, None)))
    /\ UNCHANGED << subjects, findings, Own, stored >>

(* A finding is sent, or deleted, from outside.                            *)
PutsFinding(g) ==
  \E i \in Ingress :
    /\ findings' = Filing(i.id, i.says)
    /\ Begins(g, Emit(Event("Upsert", i.id, i.says)))
    /\ UNCHANGED << subjects, types, stored >>

(* A finding is deleted from outside.                                      *)
DropsFinding(g) ==
  \E i \in Ingress :
    /\ findings' = Dropping(i.id)
    /\ Begins(g, Emit(Event("Delete", i.id, None)))
    /\ UNCHANGED << subjects, types, stored >>

(* An object is on its way, or everything is to be checked.                *)
Prepares(g) ==
  \E ts :
    /\ Begins(g, ts)
    /\ UNCHANGED << subjects, types, findings, Own, stored >>
    /\ \/ \E obj \in NodeObject : ts = << [do |-> "add", obj |-> obj] >>
       \/ ts = << [do |-> "list", of |-> AllContexts], [do |-> "list", of |-> AllNodes] >>

(* What is sent has an id and says something.                              *)
LEMMA IngressFacts ==
  ASSUME NEW i \in Ingress
  PROVE  i.id \in FindingId /\ i.says \in Finding
BY LandscapeAssumption

(* Every call is one of these.                                             *)
LEMMA CallsDo ==
  ASSUME Types, NEW g \in Goroutine, Operate(g)
  PROVE  /\ \/ Puts(g) \/ Drops(g) \/ PutsType(g) \/ DropsType(g)
            \/ PutsFinding(g) \/ DropsFinding(g) \/ Prepares(g)
         /\ ops' \in 0 .. MaxOps
<1>1. ASSUME NEW obj \in Object, Add(g, obj) PROVE Puts(g) /\ ops' \in 0 .. MaxOps
  <2>1. Emit(Event("Upsert", obj.id, obj)) \in Seq(Task)
    BY UpsertOf, EmitFacts
  <2> QED
    BY <1>1, <2>1, CallFacts, OwnFacts DEF Add, Puts
<1>2. ASSUME NEW s \in Subject, Delete(g, s) PROVE Drops(g) /\ ops' \in 0 .. MaxOps
  <2>1. Emit(Event("Delete", s, None)) \in Seq(Task)
    BY DeleteOf, EmitFacts
  <2> QED
    BY <1>2, <2>1, CallFacts, OwnFacts DEF Delete, Drops
<1>3. ASSUME NEW t \in Type, AddType(g, t) PROVE PutsType(g) /\ ops' \in 0 .. MaxOps
  <2>1. Emit(Event("Upsert", t, None)) \in Seq(Task)
    BY EventOf, EmitFacts
  <2> QED
    BY <1>3, <2>1, CallFacts, OwnFacts DEF AddType, PutsType
<1>4. ASSUME NEW t \in Type, DeleteType(g, t) PROVE DropsType(g) /\ ops' \in 0 .. MaxOps
  <2>1. Emit(Event("Delete", t, None)) \in Seq(Task)
    BY EventOf, EmitFacts
  <2> QED
    BY <1>4, <2>1, CallFacts, OwnFacts DEF DeleteType, DropsType
<1>5. ASSUME NEW i \in Ingress, AddFinding(g, i.id, i.says)
      PROVE  PutsFinding(g) /\ ops' \in 0 .. MaxOps
  <2>1. Emit(Event("Upsert", i.id, i.says)) \in Seq(Task)
    BY IngressFacts, FindingEventOf, EmitFacts
  <2> QED
    BY <1>5, <2>1, CallFacts DEF AddFinding, PutsFinding
<1>6. ASSUME NEW i \in Ingress, DeleteFinding(g, i.id)
      PROVE  DropsFinding(g) /\ ops' \in 0 .. MaxOps
  <2>1. Emit(Event("Delete", i.id, None)) \in Seq(Task)
    BY IngressFacts, FindingEventOf, EmitFacts
  <2> QED
    BY <1>6, <2>1, CallFacts DEF DeleteFinding, DropsFinding
<1>7. ASSUME NEW n \in Node, NEW t \in NodeType \cup {None}, PushNode(g, n, t)
      PROVE  Prepares(g) /\ ops' \in 0 .. MaxOps
  <2>1. PICK obj : obj = [id |-> n, type |-> t, embedded |-> t \in types]
    OBVIOUS
  <2>2. obj \in NodeObject
    <3>1. CASE t \in types
      <4>1. (t \in types) = TRUE
        BY <3>1
      <4>2. obj = [id |-> n, type |-> t, embedded |-> TRUE]
        BY <2>1, <4>1, Zenon
      <4> QED
        BY <4>2 DEF NodeObject
    <3>2. CASE t \notin types
      <4>1. (t \in types) = FALSE
        BY <3>2
      <4>2. obj = [id |-> n, type |-> t, embedded |-> FALSE]
        BY <2>1, <4>1, Zenon
      <4> QED
        BY <4>2 DEF NodeObject
    <3> QED
      BY <3>1, <3>2
  <2>3. << [do |-> "add", obj |-> obj] >> \in Seq(Task)
    BY <2>2, SeqMembers DEF Task
  <2>4. Call(g, << [do |-> "add", obj |-> obj] >>) /\ UNCHANGED << subjects, types, findings >>
    BY <1>7, <2>1 DEF PushNode, store
  <2> QED
    BY <2>2, <2>3, <2>4, CallFacts, OwnFacts DEF Prepares
<1>8. ASSUME ReconcileAll(g) PROVE Prepares(g) /\ ops' \in 0 .. MaxOps
  <2>1. PICK a \in Task, b \in Task :
          a = [do |-> "list", of |-> AllContexts] /\ b = [do |-> "list", of |-> AllNodes]
    BY DEF Task
  <2>2. << a, b >> \in Seq(Task)
    OBVIOUS
  <2>3. Call(g, << a, b >>) /\ UNCHANGED << subjects, types, findings >>
    BY <1>8, <2>1 DEF ReconcileAll, store
  <2> QED
    BY <2>1, <2>2, <2>3, CallFacts, OwnFacts DEF Prepares
<1> QED
  BY <1>1, <1>2, <1>3, <1>4, <1>5, <1>6, <1>7, <1>8 DEF Operate, Object

-----------------------------------------------------------------------------
(***************************************************************************)
(* Types is inductive.                                                     *)
(***************************************************************************)
LEMMA PutKeepsSubjects ==
  ASSUME Types, NEW obj \in Object, subjects' = With(obj)
  PROVE  /\ DOMAIN subjects' \subseteq Subject
         /\ \A s \in DOMAIN subjects' : subjects'[s] \in Object /\ subjects'[s].id = s
<1>1. PICK m : m = With(obj)
  OBVIOUS
<1>2. /\ DOMAIN m = DOMAIN subjects \cup {obj.id} /\ m[obj.id] = obj
      /\ \A r \in DOMAIN subjects \ {obj.id} : m[r] = subjects[r]
  BY <1>1, WithFacts
<1>3. obj.id \in Subject
  BY UpsertOf
<1>4. /\ DOMAIN m \subseteq Subject
      /\ \A s \in DOMAIN m : m[s] \in Object /\ m[s].id = s
  BY <1>2, <1>3 DEF Types
<1> QED
  BY <1>1, <1>4

(* Deleting a subject leaves a map of objects by id.                       *)
LEMMA DropKeepsSubjects ==
  ASSUME Types, NEW d, subjects' = Restrict(subjects, DOMAIN subjects \ {d})
  PROVE  /\ DOMAIN subjects' \subseteq Subject
         /\ \A s \in DOMAIN subjects' : subjects'[s] \in Object /\ subjects'[s].id = s
<1>1. PICK m : m = Restrict(subjects, DOMAIN subjects \ {d})
  OBVIOUS
<1>2. DOMAIN m = DOMAIN subjects \ {d} /\ \A r \in DOMAIN subjects \ {d} : m[r] = subjects[r]
  BY <1>1, DropFacts
<1>3. /\ DOMAIN m \subseteq Subject
      /\ \A s \in DOMAIN m : m[s] \in Object /\ m[s].id = s
  BY <1>2 DEF Types
<1> QED
  BY <1>1, <1>3

(* Filing a finding leaves a map of findings by id.                        *)
LEMMA FilingKeepsTypes ==
  ASSUME Types, NEW id \in FindingId, NEW f \in Finding, findings' = Filing(id, f)
  PROVE  /\ DOMAIN findings' \subseteq FindingId
         /\ \A i \in DOMAIN findings' : findings'[i] \in Finding
<1>1. /\ DOMAIN findings' = DOMAIN findings \cup {id} /\ findings'[id] = f
      /\ \A i \in DOMAIN findings \ {id} : findings'[i] = findings[i]
  BY FilingFacts
<1>2. PICK m : m = findings'
  OBVIOUS
<1>3. DOMAIN m \subseteq FindingId /\ \A i \in DOMAIN m : m[i] \in Finding
  BY <1>1, <1>2 DEF Types
<1> QED
  BY <1>2, <1>3

(* A call leaves every variable of its type.                               *)
LEMMA CallKeepsTypes ==
  ASSUME Types, NEW g \in Goroutine, Operate(g)
  PROVE  Types'
<1>1. ops' \in 0 .. MaxOps
  BY CallsDo
<1>2. ASSUME NEW ts, Begins(g, ts) PROVE stack' \in [Goroutine -> Seq(Task)]
  BY <1>2, BeginsTasks
<1>3. CASE Puts(g)
  BY <1>1, <1>2, <1>3, PutKeepsSubjects DEF Puts, Types
<1>4. CASE Drops(g)
  <2>1. /\ DOMAIN subjects' \subseteq Subject
        /\ \A s \in DOMAIN subjects' : subjects'[s] \in Object /\ subjects'[s].id = s
    BY <1>4, DropKeepsSubjects DEF Drops
  <2> QED
    BY <1>1, <1>2, <1>4, <2>1 DEF Drops, Types
<1>5. CASE PutsType(g)
  BY <1>1, <1>2, <1>5 DEF PutsType, Types
<1>6. CASE DropsType(g)
  BY <1>1, <1>2, <1>6 DEF DropsType, Types
<1>7. CASE PutsFinding(g)
  <2>1. PICK i \in Ingress : /\ findings' = Filing(i.id, i.says)
                             /\ Begins(g, Emit(Event("Upsert", i.id, i.says)))
                             /\ UNCHANGED << subjects, types >>
    BY <1>7 DEF PutsFinding
  <2>2. /\ DOMAIN findings' \subseteq FindingId
        /\ \A id \in DOMAIN findings' : findings'[id] \in Finding
    BY <2>1, IngressFacts, FilingKeepsTypes
  <2> QED
    BY <1>1, <1>2, <2>1, <2>2 DEF Types
<1>8. CASE DropsFinding(g)
  <2>1. PICK i \in Ingress : /\ findings' = Dropping(i.id)
                             /\ Begins(g, Emit(Event("Delete", i.id, None)))
                             /\ UNCHANGED << subjects, types >>
    BY <1>8 DEF DropsFinding
  <2> QED
    BY <1>1, <1>2, <2>1, DroppingFacts DEF Types
<1>9. CASE Prepares(g)
  BY <1>1, <1>2, <1>9 DEF Prepares, Types
<1> QED
  BY <1>3, <1>4, <1>5, <1>6, <1>7, <1>8, <1>9, CallsDo

(* So does the first task of a goroutine.                                  *)
LEMMA WorkKeepsTypes ==
  ASSUME Types, NEW g \in Goroutine, Work(g)
  PROVE  Types'
<1>1. ASSUME NEW ts, Turns(g, ts) PROVE stack' \in [Goroutine -> Seq(Task)]
  BY <1>1, TurnsTasks
<1>2. CASE AddPushed(g)
  <2>1. PICK obj \in Object : /\ subjects' = With(obj)
                              /\ Turns(g, Emit(Event("Upsert", obj.id, obj)))
                              /\ UNCHANGED << types, findings, stored, ops >>
    BY <1>2, AddPushedDoes
  <2>2. /\ DOMAIN subjects' \subseteq Subject
        /\ \A s \in DOMAIN subjects' : subjects'[s] \in Object /\ subjects'[s].id = s
    BY <2>1, PutKeepsSubjects
  <2> QED
    BY <1>1, <2>1, <2>2 DEF Types
<1>3. CASE Filter(g)
  BY <1>1, <1>3, FilterDoes DEF Types
<1>4. CASE Record(g)
  BY <1>1, <1>4, RecordDoes DEF Types
<1>5. CASE List(g)
  BY <1>1, <1>5, ListDoes DEF Types
<1>6. CASE EachSubject(g)
  BY <1>1, <1>6, EachDoes DEF Types
<1>7. CASE Check(g)
  BY <1>1, <1>7, CheckDoes DEF Types
<1>8. CASE UpsertFinding(g)
  <2>1. PICK f \in Finding : /\ findings' = Filing(f, f)
                             /\ Turns(g, Emit(Event("Upsert", f, f)))
                             /\ UNCHANGED << subjects, types, ops >>
    BY <1>8, UpsertDoes
  <2>2. /\ DOMAIN findings' \subseteq FindingId
        /\ \A id \in DOMAIN findings' : findings'[id] \in Finding
    BY <2>1, FilingKeepsTypes DEF FindingId
  <2> QED
    BY <1>1, <2>1, <2>2 DEF Types
<1>9. CASE RemoveFinding(g)
  BY <1>1, <1>9, RemoveDoes, DroppingFacts DEF Types
<1>10. CASE ReconcileFinding(g)
  BY <1>1, <1>10, ReconcileDoes DEF Types
<1>11. CASE Recheck(g)
  BY <1>1, <1>11, RecheckDoes DEF Types
<1> QED
  BY <1>2, <1>3, <1>4, <1>5, <1>6, <1>7, <1>8, <1>9, <1>10, <1>11 DEF Work

(* So does every step.                                                     *)
LEMMA StepKeepsTypes ==
  ASSUME Types, [Next]_vars
  PROVE  Types'
<1>1. CASE Next
  BY <1>1, CallKeepsTypes, WorkKeepsTypes DEF Next
<1>2. CASE UNCHANGED vars
  BY <1>2 DEF Types, vars, store
<1> QED
  BY <1>1, <1>2

-----------------------------------------------------------------------------
(***************************************************************************)
(* Mutations nest at most three deep.                                      *)
(***************************************************************************)

(* How deep the mutations may nest that an event is the outermost of: a    *)
(* resource that is not a finding, a finding that is added, and its        *)
(* deletion.                                                               *)
Depth(ev) == IF ev.res \notin FindingId THEN 3 ELSE IF ev.op = "Upsert" THEN 2 ELSE 1

(* How deep a task may make them nest above it.                            *)
Level(t) ==
  IF t.do = "add" THEN 3
  ELSE IF t.do = "record" THEN Depth(t.ev)
  ELSE IF t.do = "filter" THEN Depth(t.ev) - 1
  ELSE IF t.do \in {"list", "each", "check", "upsert"} THEN 2 ELSE 1

(* Above an event to be recorded is only what nests less deep.             *)
Leveled(s) ==
  \A i, j \in DOMAIN s : i < j /\ s[j].do = "record" => Level(s[i]) < Level(s[j])

(* The stacks of all goroutines are leveled.                               *)
Levels == \A g \in Goroutine : Leveled(stack[g])

(* The level of a task is one of 0 to 3.                                   *)
LEMMA LevelFacts ==
  ASSUME NEW t
  PROVE  Level(t) \in 0 .. 3 /\ (t.do = "record" => Level(t) \in 1 .. 3)
BY DEF Level, Depth

(* The tasks that the first one leaves may take its place.                 *)
LEMMA LeveledTurn ==
  ASSUME NEW s \in Seq(Task), s # << >>, Leveled(s), NEW ts \in Seq(Task), Leveled(ts),
         \A t : InSeq(ts, t) => Level(t) <= Level(Head(s))
  PROVE  Leveled(ts \o Tail(s))
<1>1. /\ Len(s) \in Nat \ {0} /\ DOMAIN s = 1 .. Len(s) /\ Head(s) = s[1]
      /\ Tail(s) \in Seq(Task) /\ Len(Tail(s)) = Len(s) - 1
      /\ \A i \in 1 .. Len(s) - 1 : Tail(s)[i] = s[i + 1]
  BY HeadTailProperties, EmptySeq, LenProperties
<1>2. Len(ts) \in Nat /\ DOMAIN ts = 1 .. Len(ts)
  BY LenProperties
<1>3. PICK u : u = ts \o Tail(s)
  OBVIOUS
<1>4. /\ DOMAIN u = 1 .. Len(ts) + Len(s) - 1
      /\ \A i \in 1 .. Len(ts) + Len(s) - 1 :
           u[i] = IF i <= Len(ts) THEN ts[i] ELSE s[i - Len(ts) + 1]
  <2>1. /\ u \in Seq(Task) /\ Len(u) = Len(ts) + (Len(s) - 1)
        /\ \A i \in 1 .. Len(ts) + (Len(s) - 1) :
             u[i] = IF i <= Len(ts) THEN ts[i] ELSE Tail(s)[i - Len(ts)]
    BY <1>1, <1>3, ConcatProperties
  <2> QED
    BY <1>1, <1>2, <2>1, LenProperties
<1>5. ASSUME NEW i \in DOMAIN u, NEW j \in DOMAIN u, i < j, u[j].do = "record"
      PROVE  Level(u[i]) < Level(u[j])
  <2>1. CASE j <= Len(ts)
    <3>1. i \in DOMAIN ts /\ j \in DOMAIN ts /\ u[i] = ts[i] /\ u[j] = ts[j]
      BY <1>1, <1>2, <1>4, <1>5, <2>1
    <3> QED
      BY <1>5, <3>1 DEF Leveled
  <2>2. CASE j > Len(ts)
    <3>1. PICK k \in 2 .. Len(s) : u[j] = s[k] /\ k = j - Len(ts) + 1
      <4>1. j - Len(ts) + 1 \in 2 .. Len(s) /\ u[j] = s[j - Len(ts) + 1]
        BY <1>1, <1>2, <1>4, <2>2
      <4> QED
        BY <4>1
    <3>2. CASE i <= Len(ts)
      <4>1. i \in DOMAIN ts /\ u[i] = ts[i]
        BY <1>1, <1>2, <1>4, <3>2
      <4>2. Level(u[i]) <= Level(s[1])
        BY <1>1, <4>1 DEF InSeq
      <4>3. Level(s[1]) < Level(s[k])
        BY <1>1, <1>5, <3>1 DEF Leveled
      <4> QED
        BY <3>1, <4>2, <4>3, LevelFacts
    <3>3. CASE i > Len(ts)
      <4>1. PICK m \in 2 .. Len(s) : u[i] = s[m] /\ m < k
        <5>1. i - Len(ts) + 1 \in 2 .. Len(s) /\ u[i] = s[i - Len(ts) + 1]
              /\ i - Len(ts) + 1 < k
          BY <1>1, <1>2, <1>4, <1>5, <3>1, <3>3
        <5> QED
          BY <5>1
      <4>2. Level(s[m]) < Level(s[k])
        BY <1>1, <1>5, <3>1, <4>1 DEF Leveled
      <4> QED
        BY <3>1, <4>1, <4>2
    <3> QED
      BY <1>2, <1>4, <3>2, <3>3
  <2> QED
    BY <1>2, <1>4, <2>1, <2>2
<1> QED
  BY <1>3, <1>5 DEF Leveled

(* A sequence of tasks without one to record is leveled, and so is Emit.   *)
LEMMA LeveledFacts ==
  ASSUME NEW ts \in Seq(Task), NEW ev \in EventType
  PROVE  /\ (\A t : InSeq(ts, t) => t.do # "record") => Leveled(ts)
         /\ Leveled(Emit(ev))
         /\ \A t : InSeq(Emit(ev), t) => Level(t) <= Depth(ev)
<1>1. (\A t : InSeq(ts, t) => t.do # "record") => Leveled(ts)
  BY DEF Leveled, InSeq
<1>2. Leveled(Emit(ev))
  <2>1. PICK a, b : a = [do |-> "filter", ev |-> ev] /\ b = [do |-> "record", ev |-> ev]
    OBVIOUS
  <2>2. Level(a) = Depth(ev) - 1 /\ Level(b) = Depth(ev) /\ Depth(ev) \in Nat
    BY <2>1 DEF Level, Depth
  <2> QED
    BY <2>1, <2>2 DEF Emit, Leveled
<1>3. ASSUME NEW t, InSeq(Emit(ev), t) PROVE Level(t) <= Depth(ev)
  <2>1. t = [do |-> "filter", ev |-> ev] \/ t = [do |-> "record", ev |-> ev]
    BY <1>3, EmitFacts
  <2> QED
    BY <2>1 DEF Level, Depth
<1> QED
  BY <1>1, <1>2, <1>3

(* A leveled stack has at most three events to record.                     *)
LEMMA LeveledNesting ==
  ASSUME NEW s \in Seq(Task), Leveled(s)
  PROVE  Cardinality({i \in DOMAIN s : s[i].do = "record"}) <= 3
<1> DEFINE R == {i \in DOMAIN s : s[i].do = "record"}
           f == [i \in R |-> Level(s[i])]
           N == 1 .. 3
<1>1. R \subseteq Nat
  BY LenProperties
<1>2. f \in Injection(R, N)
  <2>1. f \in [R -> 1 .. 3]
    BY LevelFacts
  <2>2. ASSUME NEW i \in R, NEW j \in R, f[i] = f[j] PROVE i = j
    <3>1. i < j \/ j < i \/ i = j
      BY <1>1
    <3>2. Level(s[i]) \in 0 .. 3 /\ Level(s[j]) \in 0 .. 3 /\ Level(s[i]) = Level(s[j])
      BY <2>2, LevelFacts
    <3> QED
      BY <3>1, <3>2 DEF Leveled
  <2> QED
    BY <2>1, <2>2 DEF Injection, IsInjective
<1>3. IsFiniteSet(N) /\ Cardinality(N) = 3
  <2>1. IsFiniteSet(1 .. 3) /\ Cardinality(1 .. 3) = IF 1 > 3 THEN 0 ELSE 3 - 1 + 1
    <3>1. PICK a \in Int, b \in Int : a = 1 /\ b = 3
      OBVIOUS
    <3>2. IsFiniteSet(a .. b) /\ Cardinality(a .. b) = IF a > b THEN 0 ELSE b - a + 1
      BY FS_Interval
    <3> QED
      BY <3>1, <3>2
  <2> QED
    BY <2>1
<1> HIDE DEF f, R, N
<1>4. Cardinality(R) <= 3
  BY <1>2, <1>3, FS_Injection
<1> QED
  BY <1>4 DEF R

(* A step of g keeps the levels if what it leaves takes its task's place.  *)
LEMMA LevelsTurn ==
  ASSUME Types, Levels, NEW g \in Goroutine, NEW ts, Turns(g, ts), Leveled(ts),
         \A t : InSeq(ts, t) => Level(t) <= Level(Top(g))
  PROVE  \A h \in Goroutine : Leveled(stack'[h])
<1>1. stack[g] \in Seq(Task) /\ stack[g] # << >> /\ ts \in Seq(Task) /\ Leveled(stack[g])
  BY DEF Types, Turns, Idle, Levels
<1>2. stack'[g] = ts \o Tail(stack[g]) /\ \A h \in Goroutine \ {g} : stack'[h] = stack[h]
  BY TurnsTasks
<1>3. Leveled(ts \o Tail(stack[g]))
  BY <1>1, LeveledTurn DEF Top
<1> QED
  BY <1>2, <1>3 DEF Levels

(* The same of a call.                                                     *)
LEMMA LevelsBegin ==
  ASSUME Types, Levels, NEW g \in Goroutine, NEW ts, Begins(g, ts), Leveled(ts)
  PROVE  \A h \in Goroutine : Leveled(stack'[h])
BY BeginsTasks DEF Levels

(* A call begins with a stack that is leveled.                             *)
LEMMA CallKeepsLevels ==
  ASSUME Types, Levels, NEW g \in Goroutine, Operate(g)
  PROVE  \A h \in Goroutine : Leveled(stack'[h])
<1>1. ASSUME NEW ev \in EventType, Begins(g, Emit(ev))
      PROVE  \A h \in Goroutine : Leveled(stack'[h])
  BY <1>1, LeveledFacts, LevelsBegin, SeqMembers
<1>2. CASE Puts(g)
  BY <1>1, <1>2, UpsertOf DEF Puts
<1>3. CASE Drops(g)
  BY <1>1, <1>3, DeleteOf DEF Drops
<1>4. CASE PutsType(g)
  BY <1>1, <1>4, EventOf DEF PutsType
<1>5. CASE DropsType(g)
  BY <1>1, <1>5, EventOf DEF DropsType
<1>6. CASE PutsFinding(g)
  BY <1>1, <1>6, FindingEventOf, IngressFacts DEF PutsFinding
<1>7. CASE DropsFinding(g)
  BY <1>1, <1>7, FindingEventOf, IngressFacts DEF DropsFinding
<1>8. CASE Prepares(g)
  <2>1. PICK ts : /\ Begins(g, ts)
                  /\ \/ \E obj \in NodeObject : ts = << [do |-> "add", obj |-> obj] >>
                     \/ ts = << [do |-> "list", of |-> AllContexts],
                                [do |-> "list", of |-> AllNodes] >>
    BY <1>8 DEF Prepares
  <2>2. Leveled(ts)
    BY <2>1 DEF Leveled
  <2> QED
    BY <2>1, <2>2, LevelsBegin
<1> QED
  BY <1>2, <1>3, <1>4, <1>5, <1>6, <1>7, <1>8, CallsDo

(* A task leaves tasks of its own level or below, which are leveled among  *)
(* themselves.                                                             *)
LEMMA WorkKeepsLevels ==
  ASSUME Types, Levels, NEW g \in Goroutine, Work(g)
  PROVE  \A h \in Goroutine : Leveled(stack'[h])
<1> DEFINE Good == \A h \in Goroutine : Leveled(stack'[h])
<1>1. ASSUME NEW ev \in EventType, Turns(g, Emit(ev)), Depth(ev) <= Level(Top(g)) PROVE Good
  <2>1. Leveled(Emit(ev)) /\ \A t : InSeq(Emit(ev), t) => Level(t) <= Depth(ev)
    BY LeveledFacts, SeqMembers
  <2>2. ASSUME NEW t, InSeq(Emit(ev), t) PROVE Level(t) <= Level(Top(g))
    <3>1. Level(t) <= Depth(ev) /\ Level(t) \in 0 .. 3 /\ Level(Top(g)) \in 0 .. 3
          /\ Depth(ev) \in 0 .. 3
      BY <2>1, <2>2, LevelFacts DEF Depth
    <3> QED
      BY <1>1, <3>1
  <2> QED
    BY <1>1, <2>1, <2>2, LevelsTurn
<1>2. ASSUME NEW ts \in Seq(Task), Turns(g, ts),
             \A t : InSeq(ts, t) => t.do # "record" /\ Level(t) <= Level(Top(g))
      PROVE  Good
  <2>1. Leveled(ts)
    BY <1>2 DEF Leveled, InSeq
  <2> QED
    BY <1>2, <2>1, LevelsTurn
<1>3. ASSUME Turns(g, << >>) PROVE Good
  BY <1>2, <1>3, SeqMembers
<1>4. ASSUME NEW x \in Task, Turns(g, << x >>), x.do # "record", Level(x) <= Level(Top(g))
      PROVE  Good
  BY <1>2, <1>4, SeqMembers
<1> HIDE DEF Good
<1> SUFFICES Good
  BY DEF Good
<1>5. CASE AddPushed(g)
  <2>1. PICK obj \in Object : /\ Top(g) = [do |-> "add", obj |-> obj]
                              /\ Turns(g, Emit(Event("Upsert", obj.id, obj)))
    BY <1>5, AddPushedDoes
  <2>2. Level(Top(g)) = 3
    BY <2>1 DEF Level
  <2>3. Depth(Event("Upsert", obj.id, obj)) <= 3
    BY DEF Depth
  <2> QED
    BY <1>1, <2>1, <2>2, <2>3, UpsertOf
<1>6. CASE Filter(g)
  <2>1. PICK ev \in EventType : Top(g) = [do |-> "filter", ev |-> ev] /\ Turns(g, Checks(ev))
    BY <1>6, FilterDoes
  <2>2. Level(Top(g)) = Depth(ev) - 1
    BY <2>1 DEF Level
  <2>3. ASSUME NEW t, InSeq(Checks(ev), t)
        PROVE  t.do # "record" /\ Level(t) <= Level(Top(g))
    <3>1. \/ /\ ev.res \in Subject
             /\ \E kind \in KindsOf(ev.obj.id) :
                  t = [do |-> "check", kind |-> kind, obj |-> ev.obj]
          \/ ev.res \in Context \cup Type /\ t = [do |-> "list", of |-> ev.res]
          \/ /\ ev.op = "Upsert" /\ ev.res \in FindingId
             /\ t = [do |-> "reconcile", f |-> ev.obj]
      BY <2>3, ChecksFacts
    <3>2. CASE t.do \in {"check", "list"} /\ ev.res \notin FindingId
      BY <2>2, <3>2 DEF Level, Depth
    <3>3. CASE t.do = "reconcile" /\ ev.res \in FindingId /\ ev.op = "Upsert"
      BY <2>2, <3>3 DEF Level, Depth
    <3> QED
      BY <3>1, <3>2, <3>3, LandscapeAssumption DEF Subject
  <2>4. Checks(ev) \in Seq(Task)
    BY ChecksFacts
  <2> QED
    BY <1>2, <2>1, <2>3, <2>4
<1>7. CASE Record(g)
  BY <1>3, <1>7, RecordDoes
<1>8. CASE List(g)
  <2>1. PICK of, x : Top(g) = [do |-> "list", of |-> of] /\ x.do = "each"
                     /\ x \in Task /\ Turns(g, << x >>)
    BY <1>8, ListDoes
  <2>2. Level(x) = 2 /\ Level(Top(g)) = 2
    BY <2>1 DEF Level
  <2> QED
    BY <1>4, <2>1, <2>2
<1>9. CASE EachSubject(g)
  <2>1. PICK todo \in SUBSET Object, only \in BOOLEAN, ts \in Seq(Task) :
           /\ Top(g) = [do |-> "each", todo |-> todo, parentOnly |-> only]
           /\ Turns(g, ts)
           /\ \/ todo = {} /\ ts = << >>
              \/ \E obj \in todo : \A t : InSeq(ts, t) <=> RoundLeaves(todo, only, obj, t)
    BY <1>9, EachDoes
  <2>2. CASE ts = << >>
    BY <1>3, <2>1, <2>2
  <2>3. ASSUME NEW obj \in todo, \A t : InSeq(ts, t) <=> RoundLeaves(todo, only, obj, t)
        PROVE  Good
    <3>1. ASSUME NEW t, InSeq(ts, t) PROVE t.do \in {"each", "check"}
      BY <2>3, <3>1 DEF RoundLeaves
    <3>2. Level(Top(g)) = 2
      BY <2>1 DEF Level
    <3>3. \A t : InSeq(ts, t) => t.do # "record" /\ Level(t) <= Level(Top(g))
      BY <3>1, <3>2 DEF Level
    <3>4. ts \in Seq(Task)
      BY <2>1 DEF Turns
    <3> QED
      BY <1>2, <2>1, <3>3, <3>4
  <2> QED
    BY <2>1, <2>2, <2>3
<1>10. CASE Check(g)
  <2>1. PICK x \in Task :
          Top(g).do = "check" /\ x.do \in {"remove", "upsert"} /\ Turns(g, << x >>)
    <3>1. PICK obj \in Object, kind \in Kind :
            /\ Top(g) = [do |-> "check", kind |-> kind, obj |-> obj]
            /\ \E x \in Task :
                 /\ x = [do |-> IF Passes(obj, kind) THEN "remove" ELSE "upsert",
                         f  |-> << obj.id, kind >>]
                 /\ Turns(g, << x >>)
      BY <1>10, CheckDoes
    <3>2. PICK x \in Task :
            /\ x = [do |-> IF Passes(obj, kind) THEN "remove" ELSE "upsert",
                    f  |-> << obj.id, kind >>]
            /\ Turns(g, << x >>)
      BY <3>1
    <3>3. x.do \in {"remove", "upsert"}
      <4>1. x.do = IF Passes(obj, kind) THEN "remove" ELSE "upsert"
        BY <3>2
      <4> QED
        BY <4>1, Zenon
    <3>4. Top(g).do = "check"
      BY <3>1
    <3>5. Turns(g, << x >>)
      BY <3>2
    <3> QED
      BY <3>3, <3>4, <3>5
  <2>2. Level(x) <= 2 /\ Level(Top(g)) = 2
    BY <2>1 DEF Level
  <2> QED
    BY <1>4, <2>1, <2>2
<1>11. CASE UpsertFinding(g)
  <2>1. PICK f \in Finding : /\ Top(g) = [do |-> "upsert", f |-> f]
                             /\ Turns(g, Emit(Event("Upsert", f, f)))
    BY <1>11, UpsertDoes
  <2>2. Level(Top(g)) = 2 /\ Depth(Event("Upsert", f, f)) = 2
    BY <2>1 DEF Level, Depth, Event, FindingId
  <2> QED
    BY <1>1, <2>1, <2>2, FindingEventOf DEF FindingId
<1>12. CASE RemoveFinding(g)
  <2>1. PICK f \in Finding :
          /\ Top(g) = [do |-> "remove", f |-> f]
          /\ Turns(g, IF f \in DOMAIN findings THEN Emit(Event("Delete", f, None)) ELSE << >>)
    BY <1>12, RemoveDoes
  <2>2. Level(Top(g)) = 1 /\ Depth(Event("Delete", f, None)) = 1
    BY <2>1 DEF Level, Depth, Event, FindingId
  <2> QED
    BY <1>1, <1>3, <2>1, <2>2, FindingEventOf DEF FindingId
<1>13. CASE ReconcileFinding(g)
  <2>1. \/ Turns(g, << >>)
        \/ \E x \in Task : Top(g).do = "reconcile" /\ x.do = "recheck" /\ Turns(g, << x >>)
    <3>1. PICK f \in Finding :
            /\ Top(g) = [do |-> "reconcile", f |-> f]
            /\ \/ Turns(g, << >>)
               \/ \E x \in Task : /\ x = [do |-> "recheck", f |-> f, obj |-> subjects[f[1]]]
                                 /\ Turns(g, << x >>)
      BY <1>13, ReconcileDoes
    <3> QED
      BY <3>1
  <2>2. ASSUME NEW x \in Task, Top(g).do = "reconcile", x.do = "recheck", Turns(g, << x >>)
        PROVE  Good
    <3>1. Level(x) <= Level(Top(g))
      BY <2>2 DEF Level
    <3> QED
      BY <1>4, <2>2, <3>1
  <2> QED
    BY <1>3, <2>1, <2>2
<1>14. CASE Recheck(g)
  <2>1. \/ Turns(g, << >>)
        \/ \E x \in Task : Top(g).do = "recheck" /\ x.do = "remove" /\ Turns(g, << x >>)
    BY <1>14, RecheckDoes
  <2>2. ASSUME NEW x \in Task, Top(g).do = "recheck", x.do = "remove", Turns(g, << x >>)
        PROVE  Good
    <3>1. Level(x) <= Level(Top(g))
      BY <2>2 DEF Level
    <3> QED
      BY <1>4, <2>2, <3>1
  <2> QED
    BY <1>3, <2>1, <2>2
<1> QED
  BY <1>5, <1>6, <1>7, <1>8, <1>9, <1>10, <1>11, <1>12, <1>13, <1>14 DEF Work

(* So every step leaves leveled stacks.                                    *)
LEMMA StepKeepsLevels ==
  ASSUME Types, Levels, [Next]_vars
  PROVE  Levels'
<1>1. CASE Next
  <2>1. \A h \in Goroutine : Leveled(stack'[h])
    BY <1>1, CallKeepsLevels, WorkKeepsLevels DEF Next
  <2> QED
    BY <2>1 DEF Levels
<1>2. CASE UNCHANGED vars
  BY <1>2 DEF Levels, vars
<1> QED
  BY <1>1, <1>2

(***************************************************************************)
(* The model store keeps its types, and the filter's recursion is bounded. *)
(***************************************************************************)
THEOREM LandscapeTypeCorrect == Spec => []LandscapeTypeOK
<1>1. Init => Types /\ Levels
  <2> SUFFICES ASSUME Init PROVE Types /\ Levels
    OBVIOUS
  <2>1. stack \in [Goroutine -> Seq(Task)] /\ \A g \in Goroutine : stack[g] = << >>
    BY SeqMembers DEF Init
  <2> QED
    BY <2>1, LandscapeAssumption DEF Init, Types, Levels, Leveled
<1>2. Types /\ Levels /\ [Next]_vars => (Types /\ Levels)'
  BY StepKeepsTypes, StepKeepsLevels
<1>3. Types /\ Levels => LandscapeTypeOK
  <2> SUFFICES ASSUME Types, Levels PROVE LandscapeTypeOK
    OBVIOUS
  <2>1. \A g \in Goroutine : Nesting(g) <= 3
    BY LeveledNesting DEF Types, Levels, Nesting
  <2>2. \A g \in Goroutine : \A i \in DOMAIN stack[g] : stack[g][i] \in Task
    <3> SUFFICES ASSUME NEW g \in Goroutine, NEW i \in DOMAIN stack[g]
                 PROVE  stack[g][i] \in Task
      OBVIOUS
    <3>1. stack[g] \in Seq(Task)
      BY DEF Types
    <3> QED
      BY <3>1, SeqMembers DEF InSeq
  <2> QED
    BY <2>1, <2>2 DEF Types, LandscapeTypeOK
<1> QED
  BY <1>1, <1>2, <1>3, PTL DEF Spec

-----------------------------------------------------------------------------
(***************************************************************************)
(* No subject is accused falsely: of a finding whose subject passes the    *)
(* check there is a task that leads to its deletion.                       *)
(***************************************************************************)

(* Passes, with these types and these subjects registered.                 *)
Passing(obj, kind, T, S) ==
  \/ kind = TypeMissing /\ obj.type \in T
  \/ kind = ParentNotFound /\ (obj.parent = None \/ obj.parent \in S)
  \/ kind = NodeTypeMissing /\ (obj.embedded \/ obj.type \in T)

(* Passing, of the present state, is the check of the code.                *)
LEMMA PassingIsPasses ==
  \A obj, kind : Passing(obj, kind, types, DOMAIN subjects) <=> Passes(obj, kind)
BY DEF Passing, Passes, Registered

(* A change of r makes the filter check o, the subject of f, for f.        *)
AsksAbout(r, f, o) == Concerns(r, o) /\ (r \in Context => f[2] = ParentNotFound)

(* The task leads to a check of o, the subject of f, for f.                *)
ChecksIt(t, f, o) ==
  \/ t.do = "filter" /\ t.ev.op = "Upsert" /\ t.ev.res = f[1] /\ t.ev.obj = o
  \/ t.do = "filter" /\ t.ev.res \in Context \cup Type /\ AsksAbout(t.ev.res, f, o)
  \/ t.do = "list" /\ AsksAbout(t.of, f, o)
  \/ t.do = "each" /\ (\E x \in t.todo : x.id = f[1]) /\ (t.parentOnly => f[2] = ParentNotFound)
  \/ t.do = "check" /\ t.kind = f[2] /\ t.obj = o

(* The task leads to the deletion of f if o passes the check.              *)
ClearsUp(t, f, o) ==
  \/ ChecksIt(t, f, o)
  \/ t.do = "filter" /\ t.ev.op = "Upsert" /\ t.ev.res \in FindingId /\ t.ev.obj = f
  \/ t.do = "reconcile" /\ t.f = f
  \/ t.do = "recheck" /\ t.f = f /\ t.obj = o
  \/ t.do = "remove" /\ t.f = f

(* Of every finding whose subject is there and passes the check, some      *)
(* task on a stack is going to clear it up.                                *)
FalseInv ==
  \A f \in Own :
    f[1] \in DOMAIN subjects /\ Passing(subjects[f[1]], f[2], types, DOMAIN subjects)
      => \E t : OnStack(t) /\ ClearsUp(t, f, subjects[f[1]])

(* The same of the state after a step.                                     *)
FalseNext ==
  \A f \in Own' :
    f[1] \in DOMAIN subjects' /\ Passing(subjects'[f[1]], f[2], types', DOMAIN subjects')
      => \E t : OnStack(t)' /\ ClearsUp(t, f, subjects'[f[1]])

(* A step that leaves subjects and types alone, and whose task has a       *)
(* successor for what it would have cleared up.                            *)
LEMMA ClearsOnTurn ==
  ASSUME Types, FalseInv, NEW g \in Goroutine, NEW ts, Turns(g, ts),
         UNCHANGED << subjects, types >>, Own' \subseteq Own,
         \A f \in Own' :
           /\ f[1] \in DOMAIN subjects
           /\ Passing(subjects[f[1]], f[2], types, DOMAIN subjects)
           /\ ClearsUp(Top(g), f, subjects[f[1]])
           => \E t : InSeq(ts, t) /\ ClearsUp(t, f, subjects[f[1]])
  PROVE  FalseNext
<1> SUFFICES ASSUME NEW f \in Own', f[1] \in DOMAIN subjects,
                    Passing(subjects[f[1]], f[2], types, DOMAIN subjects)
             PROVE  \E t : OnStack(t)' /\ ClearsUp(t, f, subjects[f[1]])
  BY DEF FalseNext
<1>1. PICK t : OnStack(t) /\ ClearsUp(t, f, subjects[f[1]])
  BY DEF FalseInv
<1>2. OnStack(t)' \/ t = Top(g)
  BY <1>1, TurnsTasks
<1>3. CASE t = Top(g)
  <2>1. PICK u : InSeq(ts, u) /\ ClearsUp(u, f, subjects[f[1]])
    BY <1>1, <1>3
  <2>2. OnStack(u)'
    BY <2>1, TurnsTasks
  <2> QED
    BY <2>1, <2>2
<1> QED
  BY <1>1, <1>2, <1>3

(* A call that leaves subjects and types alone and adds no finding keeps   *)
(* FalseInv.                                                               *)
LEMMA ClearsOnCall ==
  ASSUME Types, FalseInv, NEW g \in Goroutine, NEW ts, Begins(g, ts),
         UNCHANGED << subjects, types >>, Own' \subseteq Own
  PROVE  FalseNext
BY BeginsTasks DEF FalseInv, FalseNext

(* A finding that is added passes through the filter itself.               *)
LEMMA ArrivalClears ==
  ASSUME Types, FalseInv, NEW id \in FindingId, NEW f \in Finding,
         UNCHANGED << subjects, types >>, Own' \subseteq Own \cup {f},
         \A t : InSeq(Emit(Event("Upsert", id, f)), t) => OnStack(t)',
         \A t : OnStack(t) => OnStack(t)' \/ t.do = "upsert"
  PROVE  FalseNext
<1>1. PICK t : t = [do |-> "filter", ev |-> Event("Upsert", id, f)]
  OBVIOUS
<1>2. InSeq(Emit(Event("Upsert", id, f)), t)
  BY <1>1, FindingEventOf, EmitFacts
<1>3. \A o : ClearsUp(t, f, o)
  BY <1>1, FindingEventOf DEF ClearsUp
<1>4. \A u, e, o : ClearsUp(u, e, o) => u.do # "upsert"
  BY DEF ClearsUp, ChecksIt
<1> QED
  BY <1>2, <1>3, <1>4 DEF FalseInv, FalseNext

(* An object that is added is checked, and so are those that refer to it.  *)
LEMMA PutClears ==
  ASSUME Types, FalseInv, NEW obj \in Object, subjects' = With(obj),
         UNCHANGED << types, Own >>,
         \A t : InSeq(Emit(Event("Upsert", obj.id, obj)), t) => OnStack(t)',
         \A t : OnStack(t) => OnStack(t)' \/ t.do = "add"
  PROVE  FalseNext
<1> SUFFICES ASSUME NEW f \in Own, f[1] \in DOMAIN subjects',
                    Passing(subjects'[f[1]], f[2], types, DOMAIN subjects')
             PROVE  \E t : OnStack(t)' /\ ClearsUp(t, f, subjects'[f[1]])
  BY DEF FalseNext
<1> DEFINE ev == Event("Upsert", obj.id, obj)
<1>1. PICK u : u = [do |-> "filter", ev |-> ev]
  OBVIOUS
<1>2. OnStack(u)' /\ u.do = "filter" /\ u.ev.op = "Upsert" /\ u.ev.res = obj.id /\ u.ev.obj = obj
  BY <1>1, UpsertOf, EmitFacts
<1>3. f \in Finding /\ f[2] = ParentNotFound => f[1] \in Context
  BY FindingFacts DEF Types
<1>4. PICK m : m = With(obj)
  OBVIOUS
<1>5. /\ DOMAIN m = DOMAIN subjects \cup {obj.id} /\ m[obj.id] = obj
      /\ \A r \in DOMAIN subjects \ {obj.id} : m[r] = subjects[r]
  <2>1. /\ DOMAIN With(obj) = DOMAIN subjects \cup {obj.id} /\ With(obj)[obj.id] = obj
        /\ \A r \in DOMAIN subjects \ {obj.id} : With(obj)[r] = subjects[r]
    BY WithFacts
  <2> QED
    BY <1>4, <2>1
<1>6. CASE f[1] = obj.id
  <2>1. ClearsUp(u, f, subjects'[f[1]])
    BY <1>2, <1>4, <1>5, <1>6 DEF ClearsUp, ChecksIt
  <2> QED
    BY <1>2, <2>1
<1>7. CASE f[1] # obj.id
  <2>1. f[1] \in DOMAIN subjects /\ subjects'[f[1]] = subjects[f[1]]
    BY <1>4, <1>5, <1>7
  <2>2. CASE Passing(subjects[f[1]], f[2], types, DOMAIN subjects)
    <3>1. PICK t : OnStack(t) /\ ClearsUp(t, f, subjects[f[1]])
      BY <2>1, <2>2 DEF FalseInv
    <3>2. t.do # "add"
      BY <3>1 DEF ClearsUp, ChecksIt
    <3> QED
      BY <2>1, <3>1, <3>2
  <2>3. CASE ~ Passing(subjects[f[1]], f[2], types, DOMAIN subjects)
    <3>1. f[2] = ParentNotFound /\ subjects[f[1]].parent = obj.id
      BY <1>4, <1>5, <2>1, <2>3 DEF Passing
    <3>2. f[1] \in Context /\ subjects[f[1]].id = f[1] /\ subjects[f[1]] \in Object
      BY <1>3, <2>1, <3>1, OwnFacts DEF Types
    <3>3. subjects[f[1]] \in ContextObject
      BY <3>2, LandscapeAssumption DEF Object, NodeObject
    <3>4. obj.id \in Context
      BY <3>1, <3>3, UpsertOf, LandscapeAssumption DEF ContextObject
    <3>5. AsksAbout(obj.id, f, subjects[f[1]])
      BY <3>1, <3>2, <3>4 DEF AsksAbout, Concerns
    <3>6. ClearsUp(u, f, subjects[f[1]])
      BY <1>2, <3>4, <3>5 DEF ClearsUp, ChecksIt
    <3> QED
      BY <1>2, <2>1, <3>6
  <2> QED
    BY <2>2, <2>3
<1> QED
  BY <1>6, <1>7

(* A subject that is deleted makes no other pass a check.                  *)
LEMMA DropClears ==
  ASSUME Types, FalseInv, NEW s,
         subjects' = Restrict(subjects, DOMAIN subjects \ {s}),
         UNCHANGED << types, Own >>, \A t : OnStack(t) => OnStack(t)'
  PROVE  FalseNext
<1>1. PICK m : m = Restrict(subjects, DOMAIN subjects \ {s})
  OBVIOUS
<1>2. DOMAIN m = DOMAIN subjects \ {s} /\ \A r \in DOMAIN subjects \ {s} : m[r] = subjects[r]
  BY <1>1, DropFacts
<1>3. \A o, k : Passing(o, k, types, DOMAIN m) => Passing(o, k, types, DOMAIN subjects)
  BY <1>2 DEF Passing
<1> QED
  BY <1>1, <1>2, <1>3 DEF FalseInv, FalseNext

(* The subjects of a type that is added are checked.                       *)
LEMMA PutTypeClears ==
  ASSUME Types, FalseInv, NEW y \in Type, types' = types \cup {y},
         UNCHANGED << subjects, Own >>,
         \A t : InSeq(Emit(Event("Upsert", y, None)), t) => OnStack(t)',
         \A t : OnStack(t) => OnStack(t)'
  PROVE  FalseNext
<1> SUFFICES ASSUME NEW f \in Own, f[1] \in DOMAIN subjects,
                    Passing(subjects[f[1]], f[2], types', DOMAIN subjects)
             PROVE  \E t : OnStack(t)' /\ ClearsUp(t, f, subjects[f[1]])
  BY DEF FalseNext
<1>1. CASE Passing(subjects[f[1]], f[2], types, DOMAIN subjects)
  BY <1>1 DEF FalseInv
<1>2. CASE ~ Passing(subjects[f[1]], f[2], types, DOMAIN subjects)
  <2>1. subjects[f[1]].type = y
    BY <1>2 DEF Passing
  <2>2. PICK u : u = [do |-> "filter", ev |-> Event("Upsert", y, None)]
    OBVIOUS
  <2>3. OnStack(u)' /\ u.do = "filter" /\ u.ev.res = y
    BY <2>2, EventOf, EmitFacts
  <2>4. AsksAbout(y, f, subjects[f[1]])
    BY <2>1, LandscapeAssumption DEF AsksAbout, Concerns, Subject
  <2>5. ClearsUp(u, f, subjects[f[1]])
    BY <2>3, <2>4 DEF ClearsUp, ChecksIt
  <2> QED
    BY <2>3, <2>5
<1> QED
  BY <1>1, <1>2

(* A call keeps FalseInv: what it changed, its event announces to the      *)
(* filter.                                                                 *)
LEMMA CallKeepsFalse ==
  ASSUME Types, FalseInv, NEW g \in Goroutine, Operate(g)
  PROVE  FalseNext
<1>1. CASE Puts(g)
  <2>1. PICK obj \in Object : /\ subjects' = With(obj)
                              /\ Begins(g, Emit(Event("Upsert", obj.id, obj)))
                              /\ UNCHANGED << types, Own >>
    BY <1>1 DEF Puts
  <2>2. \A t : InSeq(Emit(Event("Upsert", obj.id, obj)), t) => OnStack(t)'
    BY <2>1, BeginsTasks
  <2>3. \A t : OnStack(t) => OnStack(t)'
    BY <2>1, BeginsTasks
  <2> QED
    BY <2>1, <2>2, <2>3, PutClears
<1>2. CASE Drops(g)
  <2>1. PICK s, ts : /\ subjects' = Restrict(subjects, DOMAIN subjects \ {s})
                     /\ Begins(g, ts) /\ UNCHANGED << types, Own >>
    BY <1>2 DEF Drops
  <2>2. \A t : OnStack(t) => OnStack(t)'
    BY <2>1, BeginsTasks
  <2> QED
    BY <2>1, <2>2, DropClears
<1>3. CASE PutsType(g)
  <2>1. PICK y \in Type : /\ types' = types \cup {y}
                          /\ Begins(g, Emit(Event("Upsert", y, None)))
                          /\ UNCHANGED << subjects, Own >>
    BY <1>3 DEF PutsType
  <2>2. \A t : InSeq(Emit(Event("Upsert", y, None)), t) => OnStack(t)'
    BY <2>1, BeginsTasks
  <2>3. \A t : OnStack(t) => OnStack(t)'
    BY <2>1, BeginsTasks
  <2> QED
    BY <2>1, <2>2, <2>3, PutTypeClears
<1>4. CASE DropsType(g)
  <2>1. PICK y, ts : /\ types' = types \ {y} /\ Begins(g, ts)
                     /\ UNCHANGED << subjects, Own >>
    BY <1>4 DEF DropsType
  <2>2. \A t : OnStack(t) => OnStack(t)'
    BY <2>1, BeginsTasks
  <2>3. \A o, k, S : Passing(o, k, types', S) => Passing(o, k, types, S)
    BY <2>1 DEF Passing
  <2> QED
    BY <2>1, <2>2, <2>3 DEF FalseInv, FalseNext
<1>5. CASE PutsFinding(g)
  <2>1. PICK id \in FindingId, f \in Finding :
          /\ findings' = Filing(id, f)
          /\ Begins(g, Emit(Event("Upsert", id, f)))
          /\ UNCHANGED << subjects, types >>
    BY <1>5, IngressFacts DEF PutsFinding
  <2>2. \A t : InSeq(Emit(Event("Upsert", id, f)), t) => OnStack(t)'
    BY <2>1, BeginsTasks
  <2>3. \A t : OnStack(t) => OnStack(t)'
    BY <2>1, BeginsTasks
  <2>4. Own' \subseteq Own \cup {f}
    BY <2>1, FilingFacts
  <2> QED
    BY <2>1, <2>2, <2>3, <2>4, ArrivalClears
<1>6. CASE DropsFinding(g)
  <2>1. PICK i \in Ingress : /\ findings' = Dropping(i.id)
                             /\ Begins(g, Emit(Event("Delete", i.id, None)))
                             /\ UNCHANGED << subjects, types >>
    BY <1>6 DEF DropsFinding
  <2>2. Own' \subseteq Own
    BY <2>1, DroppingFacts
  <2> QED
    BY <2>1, <2>2, ClearsOnCall
<1>7. CASE Prepares(g)
  BY <1>7, ClearsOnCall DEF Prepares
<1> QED
  BY <1>1, <1>2, <1>3, <1>4, <1>5, <1>6, <1>7, CallsDo

(* What a task leaves leads to what the task would have led to.            *)
LeadsOn(g, ts, f, o) ==
  /\ ChecksIt(Top(g), f, o) => \E t : InSeq(ts, t) /\ ChecksIt(t, f, o)
  /\ ClearsUp(Top(g), f, o) => \E t : InSeq(ts, t) /\ ClearsUp(t, f, o)

(* The checks that the filter makes of an event clear up what the filter   *)
(* task was to clear up.                                                   *)
LEMMA FilterLeadsOn ==
  ASSUME Types, NEW g \in Goroutine, Filter(g)
  PROVE  \E ts : /\ Turns(g, ts) /\ UNCHANGED << subjects, types, Own, stored >>
                 /\ \A f \in Finding :
                      f[1] \in DOMAIN subjects => LeadsOn(g, ts, f, subjects[f[1]])
<1>1. PICK ev \in EventType : /\ Top(g) = [do |-> "filter", ev |-> ev]
                              /\ Turns(g, Checks(ev))
                              /\ UNCHANGED << subjects, types, Own, stored >>
  BY FilterDoes
<1>2. ASSUME NEW f \in Finding, f[1] \in DOMAIN subjects
      PROVE  LeadsOn(g, Checks(ev), f, subjects[f[1]])
  <2>1. f[1] \in Subject /\ f[2] \in KindsOf(f[1])
    BY FindingFacts
  <2>2. /\ ChecksIt(Top(g), f, subjects[f[1]]) =>
             \/ ev.op = "Upsert" /\ ev.res = f[1] /\ ev.obj = subjects[f[1]]
             \/ ev.res \in Context \cup Type /\ AsksAbout(ev.res, f, subjects[f[1]])
        /\ ClearsUp(Top(g), f, subjects[f[1]]) =>
             ChecksIt(Top(g), f, subjects[f[1]]) \/ (ev.op = "Upsert" /\ ev.res \in FindingId /\ ev.obj = f)
    <3>1. Top(g).do = "filter" /\ Top(g).ev = ev
      BY <1>1
    <3>2. ChecksIt(Top(g), f, subjects[f[1]]) =>
             \/ ev.op = "Upsert" /\ ev.res = f[1] /\ ev.obj = subjects[f[1]]
             \/ ev.res \in Context \cup Type /\ AsksAbout(ev.res, f, subjects[f[1]])
      BY <3>1 DEF ChecksIt
    <3> QED
      BY <3>1, <3>2 DEF ClearsUp
  <2>3. ASSUME ev.op = "Upsert", ev.res = f[1], ev.obj = subjects[f[1]]
        PROVE  \E t : InSeq(Checks(ev), t) /\ ChecksIt(t, f, subjects[f[1]])
    <3>1. PICK t : t = [do |-> "check", kind |-> f[2], obj |-> subjects[f[1]]]
      OBVIOUS
    <3>2. subjects[f[1]].id = f[1]
      BY <1>2 DEF Types
    <3>3. InSeq(Checks(ev), t)
      BY <2>1, <2>3, <3>1, <3>2, ChecksFacts
    <3>4. ChecksIt(t, f, subjects[f[1]])
      BY <3>1 DEF ChecksIt
    <3> QED
      BY <3>3, <3>4
  <2>4. ASSUME ev.res \in Context \cup Type, AsksAbout(ev.res, f, subjects[f[1]])
        PROVE  \E t : InSeq(Checks(ev), t) /\ ChecksIt(t, f, subjects[f[1]])
    <3>1. PICK t : t = [do |-> "list", of |-> ev.res]
      OBVIOUS
    <3>2. InSeq(Checks(ev), t)
      BY <2>4, <3>1, ChecksFacts
    <3>3. ChecksIt(t, f, subjects[f[1]])
      BY <2>4, <3>1 DEF ChecksIt
    <3> QED
      BY <3>2, <3>3
  <2>5. ASSUME ev.op = "Upsert", ev.res \in FindingId, ev.obj = f
        PROVE  \E t : InSeq(Checks(ev), t) /\ ClearsUp(t, f, subjects[f[1]])
    <3>1. PICK t : t = [do |-> "reconcile", f |-> f]
      OBVIOUS
    <3>2. InSeq(Checks(ev), t)
      BY <2>5, <3>1, ChecksFacts
    <3>3. ClearsUp(t, f, subjects[f[1]])
      BY <3>1 DEF ClearsUp
    <3> QED
      BY <3>2, <3>3
  <2> QED
    BY <2>2, <2>3, <2>4, <2>5 DEF LeadsOn, ClearsUp
<1> QED
  BY <1>1, <1>2

(* So does the loop over the objects that were listed.                     *)
LEMMA ListLeadsOn ==
  ASSUME Types, NEW g \in Goroutine, List(g)
  PROVE  \E ts : /\ Turns(g, ts) /\ UNCHANGED << subjects, types, Own, stored >>
                 /\ \A f \in Finding :
                      f[1] \in DOMAIN subjects => LeadsOn(g, ts, f, subjects[f[1]])
<1>1. PICK of, todo : /\ Top(g) = [do |-> "list", of |-> of]
                      /\ todo = {obj \in Range(subjects) : Concerns(of, obj)}
                      /\ \E x \in Task :
                           /\ x = [do |-> "each", todo |-> todo, parentOnly |-> of \in Context]
                           /\ Turns(g, << x >>)
                      /\ UNCHANGED << subjects, types, Own, stored >>
  BY ListDoes
<1>2. PICK x \in Task : /\ x = [do |-> "each", todo |-> todo, parentOnly |-> of \in Context]
                        /\ Turns(g, << x >>)
  BY <1>1
<1>3. ASSUME NEW f \in Finding, f[1] \in DOMAIN subjects
      PROVE  LeadsOn(g, << x >>, f, subjects[f[1]])
  <2>1. ASSUME AsksAbout(of, f, subjects[f[1]]) PROVE ChecksIt(x, f, subjects[f[1]])
    <3>1. subjects[f[1]] \in todo /\ subjects[f[1]].id = f[1]
      BY <1>1, <1>3, <2>1 DEF AsksAbout, Types, Range
    <3>2. of \in Context => f[2] = ParentNotFound
      BY <2>1 DEF AsksAbout
    <3>3. x.do = "each" /\ x.todo = todo /\ x.parentOnly = (of \in Context)
      BY <1>2, Zenon
    <3> QED
      BY <3>1, <3>2, <3>3 DEF ChecksIt
  <2>2. /\ ChecksIt(Top(g), f, subjects[f[1]]) => AsksAbout(of, f, subjects[f[1]])
        /\ ClearsUp(Top(g), f, subjects[f[1]]) => AsksAbout(of, f, subjects[f[1]])
    BY <1>1 DEF ClearsUp, ChecksIt
  <2>3. InSeq(<< x >>, x)
    BY SeqMembers
  <2> QED
    BY <2>1, <2>2, <2>3 DEF LeadsOn, ClearsUp
<1> QED
  BY <1>1, <1>2, <1>3

(* So does each round of it: an object that is taken from the list is      *)
(* looked up anew, and is checked as it is by then.                        *)
LEMMA EachLeadsOn ==
  ASSUME Types, NEW g \in Goroutine, EachSubject(g)
  PROVE  \E ts : /\ Turns(g, ts) /\ UNCHANGED << subjects, types, Own, stored >>
                 /\ \A f \in Finding :
                      f[1] \in DOMAIN subjects => LeadsOn(g, ts, f, subjects[f[1]])
<1>1. PICK todo \in SUBSET Object, only \in BOOLEAN, ts \in Seq(Task) :
        /\ Top(g) = [do |-> "each", todo |-> todo, parentOnly |-> only]
        /\ Turns(g, ts)
        /\ UNCHANGED << subjects, types, Own, stored >>
        /\ \/ todo = {} /\ ts = << >>
           \/ \E obj \in todo : \A t : InSeq(ts, t) <=> RoundLeaves(todo, only, obj, t)
  BY EachDoes
<1>2. ASSUME NEW f \in Finding, f[1] \in DOMAIN subjects
      PROVE  LeadsOn(g, ts, f, subjects[f[1]])
  <2>1. f[2] \in KindsOf(f[1])
    BY FindingFacts
  <2>2. ASSUME NEW x \in todo, x.id = f[1], only => f[2] = ParentNotFound
        PROVE  \E t : InSeq(ts, t) /\ ChecksIt(t, f, subjects[f[1]])
    <3>4. PICK obj \in todo : \A t : InSeq(ts, t) <=> RoundLeaves(todo, only, obj, t)
      BY <1>1, <2>2
    <3>5. CASE obj.id = f[1]
      <4>1. PICK t : t = [do |-> "check", kind |-> f[2], obj |-> subjects[obj.id]]
        OBVIOUS
      <4>2. RoundLeaves(todo, only, obj, t)
        BY <1>2, <2>1, <2>2, <3>5, <4>1 DEF RoundLeaves, Registered
      <4>3. ChecksIt(t, f, subjects[f[1]])
        BY <3>5, <4>1 DEF ChecksIt
      <4> QED
        BY <3>4, <4>2, <4>3
    <3>6. CASE obj.id # f[1]
      <4>1. PICK t : t = [do |-> "each", todo |-> todo \ {obj}, parentOnly |-> only]
        OBVIOUS
      <4>2. RoundLeaves(todo, only, obj, t)
        BY <4>1 DEF RoundLeaves
      <4>3. t.do = "each" /\ t.todo = todo \ {obj} /\ t.parentOnly = only
        BY <4>1
      <4>4. x \in t.todo
        BY <2>2, <3>6, <4>3
      <4>5. ChecksIt(t, f, subjects[f[1]])
        BY <2>2, <4>3, <4>4 DEF ChecksIt
      <4> QED
        BY <3>4, <4>2, <4>5
    <3> QED
      BY <3>5, <3>6
  <2>3. /\ ChecksIt(Top(g), f, subjects[f[1]]) =>
             (\E x \in todo : x.id = f[1]) /\ (only => f[2] = ParentNotFound)
        /\ ClearsUp(Top(g), f, subjects[f[1]]) => ChecksIt(Top(g), f, subjects[f[1]])
    <3>1. Top(g).do = "each" /\ Top(g).todo = todo /\ Top(g).parentOnly = only
      BY <1>1
    <3> QED
      BY <3>1 DEF ClearsUp, ChecksIt
  <2>4. ChecksIt(Top(g), f, subjects[f[1]])
          => \E t : InSeq(ts, t) /\ ChecksIt(t, f, subjects[f[1]])
    BY <2>2, <2>3
  <2> QED
    BY <2>3, <2>4 DEF LeadsOn, ClearsUp
<1> QED
  BY <1>1, <1>2

(* A check that passes leads to the deletion of the finding.               *)
LEMMA CheckKeepsFalse ==
  ASSUME Types, FalseInv, NEW g \in Goroutine, Check(g)
  PROVE  FalseNext
<1>1. PICK obj \in Object, kind \in Kind :
        /\ Top(g) = [do |-> "check", kind |-> kind, obj |-> obj]
        /\ \E x \in Task :
             /\ x = [do |-> IF Passes(obj, kind) THEN "remove" ELSE "upsert",
                     f  |-> << obj.id, kind >>]
             /\ Turns(g, << x >>)
        /\ UNCHANGED << subjects, types, Own >>
  BY CheckDoes
<1>2. PICK x \in Task : /\ x = [do |-> IF Passes(obj, kind) THEN "remove" ELSE "upsert",
                                f  |-> << obj.id, kind >>]
                        /\ Turns(g, << x >>)
  BY <1>1
<1>3. ASSUME NEW f \in Own, f[1] \in DOMAIN subjects,
             Passing(subjects[f[1]], f[2], types, DOMAIN subjects),
             ClearsUp(Top(g), f, subjects[f[1]])
      PROVE  ClearsUp(x, f, subjects[f[1]])
  <2>1. kind = f[2] /\ obj = subjects[f[1]]
    BY <1>1, <1>3 DEF ClearsUp, ChecksIt
  <2>2. Passes(obj, kind)
    BY <1>3, <2>1, PassingIsPasses
  <2>3. x = [do |-> "remove", f |-> << obj.id, kind >>]
    BY <1>2, <2>2, Zenon
  <2>4. << obj.id, kind >> = f
    BY <1>3, <2>1, FindingFacts, OwnFacts DEF Types
  <2> QED
    BY <2>3, <2>4 DEF ClearsUp
<1>4. \A t : InSeq(<< x >>, t) <=> t = x
  BY SeqMembers
<1>5. UNCHANGED << subjects, types >> /\ Own' = Own /\ Turns(g, << x >>)
  BY <1>1, <1>2
<1> QED
  BY <1>3, <1>4, <1>5, ClearsOnTurn

(* No task of a goroutine breaks FalseInv.                                 *)
LEMMA WorkKeepsFalse ==
  ASSUME Types, FalseInv, NEW g \in Goroutine, Work(g)
  PROVE  FalseNext
<1>1. CASE AddPushed(g)
  <2>1. PICK obj \in Object : /\ Top(g) = [do |-> "add", obj |-> obj]
                              /\ subjects' = With(obj)
                              /\ Turns(g, Emit(Event("Upsert", obj.id, obj)))
                              /\ UNCHANGED << types, Own >>
    BY <1>1, AddPushedDoes
  <2>2. \A t : InSeq(Emit(Event("Upsert", obj.id, obj)), t) => OnStack(t)'
    BY <2>1, TurnsTasks
  <2>3. \A t : OnStack(t) => OnStack(t)' \/ t.do = "add"
    BY <2>1, TurnsTasks
  <2> QED
    BY <2>1, <2>2, <2>3, PutClears
<1>2. CASE Record(g)
  <2>1. /\ Top(g).do = "record" /\ Turns(g, << >>)
        /\ UNCHANGED << subjects, types, Own >>
    BY <1>2, RecordDoes
  <2>2. \A f, o : ~ ClearsUp(Top(g), f, o)
    BY <2>1 DEF ClearsUp, ChecksIt
  <2> QED
    BY <2>1, <2>2, ClearsOnTurn
<1>3. CASE UpsertFinding(g)
  <2>1. PICK f \in Finding : /\ Top(g) = [do |-> "upsert", f |-> f]
                             /\ Own' = Own \cup {f}
                             /\ Turns(g, Emit(Event("Upsert", f, f)))
                             /\ UNCHANGED << subjects, types >>
    BY <1>3, UpsertDoes
  <2>2. \A t : InSeq(Emit(Event("Upsert", f, f)), t) => OnStack(t)'
    BY <2>1, TurnsTasks
  <2>3. \A t : OnStack(t) => OnStack(t)' \/ t.do = "upsert"
    BY <2>1, TurnsTasks
  <2> QED
    BY <2>1, <2>2, <2>3, ArrivalClears DEF FindingId
<1>4. CASE RemoveFinding(g)
  <2>1. PICK f \in Finding, ts \in Seq(Task) :
          /\ Top(g) = [do |-> "remove", f |-> f]
          /\ Own' = Own \ {f}
          /\ Turns(g, ts)
          /\ UNCHANGED << subjects, types >>
    BY <1>4, RemoveDoes DEF Turns
  <2>2. \A e, o : ClearsUp(Top(g), e, o) => e = f
    BY <2>1 DEF ClearsUp, ChecksIt
  <2> QED
    BY <2>1, <2>2, ClearsOnTurn
<1>5. CASE ReconcileFinding(g)
  <2>1. PICK f \in Finding :
           /\ Top(g) = [do |-> "reconcile", f |-> f]
           /\ \/ ~ Registered(f[1]) /\ Turns(g, << >>)
              \/ /\ Registered(f[1])
                 /\ \E x \in Task : /\ x = [do |-> "recheck", f |-> f, obj |-> subjects[f[1]]]
                                    /\ Turns(g, << x >>)
           /\ UNCHANGED << subjects, types, Own >>
    BY <1>5, ReconcileDoes
  <2>2. \A e, o : ClearsUp(Top(g), e, o) => e = f
    BY <2>1 DEF ClearsUp, ChecksIt
  <2>3. CASE ~ Registered(f[1]) /\ Turns(g, << >>)
    BY <2>1, <2>2, <2>3, ClearsOnTurn DEF Registered
  <2>4. ASSUME NEW x \in Task, x = [do |-> "recheck", f |-> f, obj |-> subjects[f[1]]],
               Turns(g, << x >>)
        PROVE  FalseNext
    <3>1. ClearsUp(x, f, subjects[f[1]])
      BY <2>4 DEF ClearsUp
    <3>2. InSeq(<< x >>, x)
      BY SeqMembers
    <3> QED
      BY <2>1, <2>2, <2>4, <3>1, <3>2, ClearsOnTurn
  <2> QED
    BY <2>1, <2>3, <2>4
<1>6. CASE Recheck(g)
  <2>1. PICK f \in Finding, obj \in Object :
           /\ Top(g) = [do |-> "recheck", f |-> f, obj |-> obj]
           /\ \/ ~ Passes(obj, f[2]) /\ Turns(g, << >>)
              \/ /\ Passes(obj, f[2])
                 /\ \E x \in Task : x = [do |-> "remove", f |-> f] /\ Turns(g, << x >>)
           /\ UNCHANGED << subjects, types, Own >>
    BY <1>6, RecheckDoes
  <2>2. \A e, o : ClearsUp(Top(g), e, o) => e = f /\ o = obj
    BY <2>1 DEF ClearsUp, ChecksIt
  <2>3. CASE ~ Passes(obj, f[2]) /\ Turns(g, << >>)
    <3>1. ~ Passing(obj, f[2], types, DOMAIN subjects)
      BY <2>3, PassingIsPasses
    <3> QED
      BY <2>1, <2>2, <2>3, <3>1, ClearsOnTurn
  <2>4. ASSUME NEW x \in Task, x = [do |-> "remove", f |-> f], Turns(g, << x >>)
        PROVE  FalseNext
    <3>1. \A o : ClearsUp(x, f, o)
      BY <2>4 DEF ClearsUp
    <3>2. InSeq(<< x >>, x)
      BY SeqMembers
    <3> QED
      BY <2>1, <2>2, <2>4, <3>1, <3>2, ClearsOnTurn
  <2> QED
    BY <2>1, <2>3, <2>4
<1>7. CASE Filter(g) \/ List(g) \/ EachSubject(g)
  <2>1. PICK ts : /\ Turns(g, ts) /\ UNCHANGED << subjects, types, Own >>
                  /\ \A f \in Finding :
                       f[1] \in DOMAIN subjects => LeadsOn(g, ts, f, subjects[f[1]])
    BY <1>7, FilterLeadsOn, ListLeadsOn, EachLeadsOn
  <2>2. Own \subseteq Finding
    BY OwnFacts
  <2> QED
    BY <2>1, <2>2, ClearsOnTurn DEF LeadsOn
<1> QED
  BY <1>1, <1>2, <1>3, <1>4, <1>5, <1>6, <1>7, CheckKeepsFalse DEF Work

(***************************************************************************)
(* No registered subject is accused of what is not the case by a finding   *)
(* with its derived id, whatever the number of goroutines, however their   *)
(* calls interleave and whatever findings arrive from outside, under       *)
(* derived ids or others.  A finding with another id is not among them     *)
(* (MCForeignFinding).                                                     *)
(***************************************************************************)
THEOREM NoFalseFindings == Spec => []NoFalseFinding
<1>1. Init => Types /\ FalseInv
  <2> SUFFICES ASSUME Init PROVE Types /\ FalseInv
    OBVIOUS
  <2>1. stack \in [Goroutine -> Seq(Task)]
    BY SeqMembers DEF Init
  <2> QED
    BY <2>1, LandscapeAssumption DEF Init, Types, FalseInv
<1>2. Types /\ FalseInv /\ [Next]_vars => (Types /\ FalseInv)'
  <2> SUFFICES ASSUME Types, FalseInv, [Next]_vars PROVE Types' /\ FalseInv'
    OBVIOUS
  <2>1. Types'
    BY StepKeepsTypes
  <2>2. CASE Next
    <3>1. FalseNext
      BY <2>2, CallKeepsFalse, WorkKeepsFalse DEF Next
    <3> QED
      BY <2>1, <3>1 DEF FalseNext, FalseInv
  <2>3. CASE UNCHANGED vars
    <3>1. \A t : OnStack(t)' <=> OnStack(t)
      BY <2>3 DEF OnStack, InSeq, vars
    <3> QED
      BY <2>1, <2>3, <3>1, OwnFacts DEF FalseInv, vars, store
  <2> QED
    BY <2>2, <2>3
<1>3. Types /\ FalseInv => NoFalseFinding
  <2> SUFFICES ASSUME Types, FalseInv, Quiescent, NEW f \in Own, Registered(f[1])
               PROVE  Failing(f)
    BY DEF NoFalseFinding
  <2>1. \A t : ~ OnStack(t)
    BY DEF Quiescent, Idle, OnStack, InSeq
  <2> QED
    BY <2>1, PassingIsPasses DEF FalseInv, Registered, Failing
<1> QED
  BY <1>1, <1>2, <1>3, PTL DEF Spec

-----------------------------------------------------------------------------
(***************************************************************************)
(* One goroutine, and no findings from outside: then the findings are      *)
(* exactly those of the subjects that fail, and what is recorded is what   *)
(* is in the model.  Two goroutines break the first (MCStaleCheck), a      *)
(* finding from outside the second (MCPhantomFinding).                     *)
(***************************************************************************)
Alone == Ingress = {} /\ \A g, h \in Goroutine : g = h

(* The subject of f is there and fails the check.                          *)
Fails(f, m, T) == f[1] \in DOMAIN m /\ ~ Passing(m[f[1]], f[2], T, DOMAIN m)

(* Fails, of the present state, is what FindingsExact says of a finding.   *)
LEMMA FailsIsFailing == \A f : Fails(f, subjects, types) <=> Failing(f)
BY PassingIsPasses DEF Fails, Failing, Registered

(* The resources that are in the model.                                    *)
InModel(m, T, F) == DOMAIN m \cup T \cup F

(* What a task was made for is still the case.                             *)
Holds(t, m, T, F) ==
  /\ t.do = "upsert" => Fails(t.f, m, T)
  /\ t.do = "remove" => ~ Fails(t.f, m, T)
  /\ t.do = "check" => t.obj.id \in DOMAIN m /\ m[t.obj.id] = t.obj
  /\ t.do = "recheck" => t.f[1] \in DOMAIN m /\ m[t.f[1]] = t.obj
  /\ t.do = "filter" /\ t.ev.op = "Upsert" /\ t.ev.res \in Subject
       => t.ev.res \in DOMAIN m /\ m[t.ev.res] = t.ev.obj
  /\ t.do = "record" => /\ t.ev.op = "Upsert" <=> t.ev.res \in InModel(m, T, F)
                        /\ t.ev.res \in Finding => (t.ev.op = "Upsert" <=> Fails(t.ev.res, m, T))

(* What every task on a stack was made for is still the case.              *)
TrueInv == \A t : OnStack(t) => Holds(t, subjects, types, Own)

(* The same of the state after a step.                                     *)
TrueNext == \A t : OnStack(t)' => Holds(t, subjects', types', Own')

(* An object is added by a goroutine that has nothing else to do.          *)
AddsLast(s) == \A t : InSeq(s, t) /\ t.do = "add" => s = << t >>

(* On no stack is there anything beside an object that is to be added.     *)
AddInv == \A g \in Goroutine : AddsLast(stack[g])

(* Only the first step of a call leaves an object to add.                  *)
LEMMA AddsLastTurn ==
  ASSUME NEW s \in Seq(Task), s # << >>, AddsLast(s), NEW ts \in Seq(Task),
         \A t : InSeq(ts, t) => t.do # "add"
  PROVE  AddsLast(ts \o Tail(s))
<1>1. /\ Tail(s) \in Seq(Task)
      /\ \A t : InSeq(s, t) <=> t = Head(s) \/ InSeq(Tail(s), t)
  BY TopFacts
<1>2. \A t : InSeq(ts \o Tail(s), t) <=> InSeq(ts, t) \/ InSeq(Tail(s), t)
  <2>1. PICK x \in Seq(Task), y \in Seq(Task) : x = ts /\ y = Tail(s)
    BY <1>1
  <2>2. \A t : InSeq(x \o y, t) <=> InSeq(x, t) \/ InSeq(y, t)
    BY SeqMembers
  <2> QED
    BY <2>1, <2>2
<1>3. ASSUME NEW t, InSeq(Tail(s), t), t.do = "add" PROVE FALSE
  <2>1. s = << t >>
    BY <1>1, <1>3 DEF AddsLast
  <2>2. Tail(s) = << >>
    BY <2>1
  <2> QED
    BY <1>3, <2>2 DEF InSeq
<1> QED
  BY <1>2, <1>3 DEF AddsLast

(* Adding is done by an event's announcement at the earliest.              *)
LEMMA AddsOnTurn ==
  ASSUME Types, AddInv, NEW g \in Goroutine, NEW ts, Turns(g, ts),
         \A t : InSeq(ts, t) => t.do # "add"
  PROVE  \A h \in Goroutine : AddsLast(stack'[h])
<1>1. stack[g] \in Seq(Task) /\ stack[g] # << >> /\ ts \in Seq(Task) /\ AddsLast(stack[g])
  BY DEF Types, Turns, Idle, AddInv
<1>2. stack'[g] = ts \o Tail(stack[g]) /\ \A h \in Goroutine \ {g} : stack'[h] = stack[h]
  BY TurnsTasks
<1>3. AddsLast(ts \o Tail(stack[g]))
  BY <1>1, AddsLastTurn
<1> QED
  BY <1>2, <1>3 DEF AddInv

(* The step of a goroutine that is alone: tasks that hold come or stay.    *)
LEMMA TrueOnTurn ==
  ASSUME Types, AddInv, TrueInv, NEW g \in Goroutine, NEW ts, Turns(g, ts),
         UNCHANGED << subjects, types, Own >>,
         \A t : InSeq(ts, t) => t.do # "add" /\ Holds(t, subjects, types, Own)
  PROVE  TrueNext /\ \A h \in Goroutine : AddsLast(stack'[h])
<1>1. \A h \in Goroutine : AddsLast(stack'[h])
  BY AddsOnTurn
<1>2. \A t : OnStack(t)' => OnStack(t) \/ InSeq(ts, t)
  BY TurnsTasks
<1> QED
  BY <1>1, <1>2 DEF TrueInv, TrueNext

(* The announcement of what has just been done, and nothing before it.     *)
LEMMA TrueOnEmit ==
  ASSUME NEW ev \in EventType, NEW m, NEW T, NEW F,
         ev.op = "Upsert" <=> ev.res \in InModel(m, T, F),
         ev.res \in Finding => (ev.op = "Upsert" <=> Fails(ev.res, m, T)),
         ev.op = "Upsert" /\ ev.res \in Subject => ev.res \in DOMAIN m /\ m[ev.res] = ev.obj,
         NEW t, InSeq(Emit(ev), t)
  PROVE  t.do # "add" /\ Holds(t, m, T, F)
<1>1. t = [do |-> "filter", ev |-> ev] \/ t = [do |-> "record", ev |-> ev]
  BY EmitFacts
<1>2. CASE t = [do |-> "filter", ev |-> ev]
  <2>1. t.do = "filter" /\ t.ev = ev
    BY <1>2
  <2> QED
    BY <2>1 DEF Holds
<1>3. CASE t = [do |-> "record", ev |-> ev]
  <2>1. t.do = "record" /\ t.ev = ev
    BY <1>3
  <2> QED
    BY <2>1 DEF Holds
<1> QED
  BY <1>1, <1>2, <1>3

(* The only goroutine has nothing to do, or only an object to add.         *)
LEMMA AloneTasks ==
  ASSUME Alone, Types, AddInv, NEW g \in Goroutine
  PROVE  /\ \A ts : Begins(g, ts) => \A t : OnStack(t)' => InSeq(ts, t)
         /\ \A ts : Turns(g, ts) /\ Top(g).do = "add" => \A t : OnStack(t)' => InSeq(ts, t)
         /\ \A ts : Begins(g, ts) /\ AddsLast(ts) => \A h \in Goroutine : AddsLast(stack'[h])
<1>1. ASSUME NEW ts, Begins(g, ts), NEW t, OnStack(t)' PROVE InSeq(ts, t)
  <2>1. ~ OnStack(t)
    BY <1>1 DEF Alone, OnStack, InSeq, Begins, Idle
  <2> QED
    BY <1>1, <2>1, BeginsTasks
<1>2. ASSUME NEW ts, Turns(g, ts), Top(g).do = "add", NEW t, OnStack(t)' PROVE InSeq(ts, t)
  <2>1. stack[g] \in Seq(Task) /\ stack[g] # << >> /\ ts \in Seq(Task)
    BY <1>2 DEF Types, Turns, Idle
  <2>2. InSeq(stack[g], Top(g))
    BY <2>1, TopFacts DEF Top
  <2>3. stack[g] = << Top(g) >>
    BY <1>2, <2>2 DEF AddInv, AddsLast
  <2>4. stack'[g] = ts \o << >>
    <3>1. stack'[g] = ts \o Tail(stack[g])
      BY <1>2, TurnsTasks
    <3>2. Tail(stack[g]) = << >>
      <4>1. PICK x : x = Top(g)
        OBVIOUS
      <4>2. stack[g] = << x >>
        BY <2>3, <4>1
      <4> QED
        BY <4>2
    <3> QED
      BY <3>1, <3>2
  <2>5. PICK h \in Goroutine : InSeq(stack'[h], t)
    BY <1>2 DEF OnStack, InSeq
  <2>6. ts \o << >> = ts
    BY <2>1
  <2> QED
    BY <2>4, <2>5, <2>6 DEF Alone
<1>3. ASSUME NEW ts, Begins(g, ts), AddsLast(ts) PROVE \A h \in Goroutine : AddsLast(stack'[h])
  BY <1>3, BeginsTasks DEF AddInv
<1> QED
  BY <1>1, <1>2, <1>3

(* What an announcement leaves on the stack of the only goroutine, which   *)
(* had nothing else to do.                                                 *)
LEMMA AnnounceKeepsTrue ==
  ASSUME Alone, Types, AddInv, NEW g \in Goroutine, NEW ev \in EventType,
         Begins(g, Emit(ev)) \/ (Turns(g, Emit(ev)) /\ Top(g).do = "add"),
         ev.op = "Upsert" <=> ev.res \in InModel(subjects', types', Own'),
         ev.res \notin Finding,
         ev.op = "Upsert" /\ ev.res \in Subject
           => ev.res \in DOMAIN subjects' /\ subjects'[ev.res] = ev.obj
  PROVE  TrueNext /\ \A h \in Goroutine : AddsLast(stack'[h])
<1>1. \A t : InSeq(Emit(ev), t) => t.do # "add" /\ Holds(t, subjects', types', Own')
  BY TrueOnEmit
<1>2. \A t : OnStack(t)' => InSeq(Emit(ev), t)
  BY AloneTasks
<1>3. TrueNext
  BY <1>1, <1>2 DEF TrueNext
<1>4. \A h \in Goroutine : AddsLast(stack'[h])
  <2>1. CASE Begins(g, Emit(ev))
    <3>1. AddsLast(Emit(ev))
      BY <1>1 DEF AddsLast
    <3> QED
      BY <2>1, <3>1, AloneTasks
  <2>2. CASE Turns(g, Emit(ev))
    BY <1>1, <2>2, AddsOnTurn
  <2> QED
    BY <2>1, <2>2
<1> QED
  BY <1>3, <1>4

(* An object that is put into the model is the one its event tells of.     *)
LEMMA PutKeepsTrue ==
  ASSUME Alone, Types, AddInv, NEW g \in Goroutine, NEW obj \in Object,
         subjects' = With(obj), UNCHANGED << types, Own >>,
         \/ Begins(g, Emit(Event("Upsert", obj.id, obj)))
         \/ Turns(g, Emit(Event("Upsert", obj.id, obj))) /\ Top(g).do = "add"
  PROVE  TrueNext /\ \A h \in Goroutine : AddsLast(stack'[h])
<1>1. PICK ev \in EventType : /\ ev = Event("Upsert", obj.id, obj)
                              /\ ev.op = "Upsert" /\ ev.res = obj.id /\ ev.obj = obj
                              /\ obj.id \notin Finding
  BY UpsertOf DEF FindingId
<1>2. obj.id \in DOMAIN subjects' /\ subjects'[obj.id] = obj
  BY WithFacts
<1> QED
  BY <1>1, <1>2, AnnounceKeepsTrue DEF InModel

(* A call of the only goroutine finds all stacks empty, and announces      *)
(* what it did.                                                            *)
LEMMA CallKeepsTrue ==
  ASSUME Alone, Types, AddInv, TrueInv, NEW g \in Goroutine, Operate(g)
  PROVE  TrueNext /\ \A h \in Goroutine : AddsLast(stack'[h])
<1>1. CASE Puts(g)
  <2>1. PICK obj \in Object : /\ subjects' = With(obj)
                              /\ Begins(g, Emit(Event("Upsert", obj.id, obj)))
                              /\ UNCHANGED << types, Own >>
    BY <1>1 DEF Puts
  <2> QED
    BY <2>1, PutKeepsTrue
<1>2. CASE Drops(g)
  <2>1. PICK s \in Subject : /\ subjects' = Restrict(subjects, DOMAIN subjects \ {s})
                             /\ Begins(g, Emit(Event("Delete", s, None)))
                             /\ UNCHANGED << types, Own >>
    BY <1>2 DEF Drops
  <2>2. PICK ev \in EventType : ev = Event("Delete", s, None) /\ ev.op = "Delete" /\ ev.res = s
    BY DeleteOf
  <2>3. DOMAIN subjects' = DOMAIN subjects \ {s}
    BY <2>1, DropFacts
  <2>4. s \notin InModel(subjects', types', Own') /\ s \notin Finding
    BY <2>1, <2>3, LandscapeAssumption, OwnFacts DEF InModel, Types, FindingId
  <2> QED
    BY <2>1, <2>2, <2>4, AnnounceKeepsTrue
<1>3. CASE PutsType(g)
  <2>1. PICK y \in Type : /\ types' = types \cup {y}
                          /\ Begins(g, Emit(Event("Upsert", y, None)))
    BY <1>3 DEF PutsType
  <2>2. PICK ev \in EventType : ev = Event("Upsert", y, None) /\ ev.op = "Upsert" /\ ev.res = y
    BY EventOf
  <2>3. y \in InModel(subjects', types', Own') /\ y \notin Finding /\ y \notin Subject
    BY <2>1, LandscapeAssumption DEF InModel, FindingId
  <2> QED
    BY <2>1, <2>2, <2>3, AnnounceKeepsTrue
<1>4. CASE DropsType(g)
  <2>1. PICK y \in Type : /\ types' = types \ {y}
                          /\ Begins(g, Emit(Event("Delete", y, None)))
                          /\ UNCHANGED << subjects, Own >>
    BY <1>4 DEF DropsType
  <2>2. PICK ev \in EventType : ev = Event("Delete", y, None) /\ ev.op = "Delete" /\ ev.res = y
    BY EventOf
  <2>3. y \notin InModel(subjects', types', Own') /\ y \notin Finding
    BY <2>1, LandscapeAssumption, OwnFacts DEF InModel, Types, FindingId
  <2> QED
    BY <2>1, <2>2, <2>3, AnnounceKeepsTrue
<1>5. ~ PutsFinding(g) /\ ~ DropsFinding(g)
  BY DEF Alone, PutsFinding, DropsFinding
<1>6. CASE Prepares(g)
  <2>1. PICK ts : /\ Begins(g, ts)
                  /\ UNCHANGED << subjects, types, Own >>
                  /\ \/ \E obj \in NodeObject : ts = << [do |-> "add", obj |-> obj] >>
                     \/ ts = << [do |-> "list", of |-> AllContexts],
                                [do |-> "list", of |-> AllNodes] >>
    BY <1>6 DEF Prepares
  <2>2. AddsLast(ts) /\ \A t : InSeq(ts, t) => t.do \in {"add", "list"}
    <3>1. ASSUME NEW obj, ts = << [do |-> "add", obj |-> obj] >>
          PROVE  AddsLast(ts) /\ \A t : InSeq(ts, t) => t.do \in {"add", "list"}
      <4>1. PICK x : x = [do |-> "add", obj |-> obj]
        OBVIOUS
      <4>2. \A t : InSeq(ts, t) => t = x
        BY <3>1, <4>1 DEF InSeq
      <4> QED
        BY <3>1, <4>1, <4>2 DEF AddsLast
    <3>2. ASSUME ts = << [do |-> "list", of |-> AllContexts], [do |-> "list", of |-> AllNodes] >>
          PROVE  \A t : InSeq(ts, t) => t.do = "list"
      <4>1. PICK x, y : x = [do |-> "list", of |-> AllContexts] /\ y = [do |-> "list", of |-> AllNodes]
        OBVIOUS
      <4>2. \A t : InSeq(ts, t) => t = x \/ t = y
        BY <3>2, <4>1 DEF InSeq
      <4> QED
        BY <4>1, <4>2
    <3> QED
      BY <2>1, <3>1, <3>2 DEF AddsLast
  <2>3. \A t : t.do \in {"add", "list"} => Holds(t, subjects', types', Own')
    BY DEF Holds
  <2>4. TrueNext
    BY <2>1, <2>2, <2>3, AloneTasks DEF TrueNext
  <2> QED
    BY <2>1, <2>2, <2>4, AloneTasks
<1> QED
  BY <1>1, <1>2, <1>3, <1>4, <1>5, <1>6, CallsDo

(* A finding that is added or deleted is announced; what there was to do   *)
(* still holds, because it was the case.                                   *)
LEMMA FindingKeepsTrue ==
  ASSUME Types, AddInv, TrueInv, NEW g \in Goroutine, NEW ts, Turns(g, ts),
         UNCHANGED << subjects, types >>, NEW f \in Finding, Own' \subseteq Finding,
         \A e \in Finding \ {f} : e \in Own' <=> e \in Own,
         f \in Own' <=> Fails(f, subjects, types),
         \A t : InSeq(ts, t) => t.do # "add" /\ Holds(t, subjects, types, Own')
  PROVE  TrueNext /\ \A h \in Goroutine : AddsLast(stack'[h])
<1>1. \A h \in Goroutine : AddsLast(stack'[h])
  BY AddsOnTurn
<1>2. \A t : OnStack(t)' => OnStack(t) \/ InSeq(ts, t)
  BY TurnsTasks
<1>3. ASSUME NEW t, OnStack(t) PROVE Holds(t, subjects, types, Own')
  <2>1. Holds(t, subjects, types, Own)
    BY <1>3 DEF TrueInv
  <2>2. t.do = "record" => (/\ t.ev.op = "Upsert" <=> t.ev.res \in InModel(subjects, types, Own')
                            /\ t.ev.res \in Finding =>
                                 (t.ev.op = "Upsert" <=> Fails(t.ev.res, subjects, types)))
    <3> SUFFICES ASSUME t.do = "record"
                 PROVE  t.ev.op = "Upsert" <=> t.ev.res \in InModel(subjects, types, Own')
      BY <2>1 DEF Holds
    <3>1. t.ev.op = "Upsert" <=> t.ev.res \in InModel(subjects, types, Own)
      BY <2>1 DEF Holds
    <3>2. CASE t.ev.res = f
      <4>1. t.ev.op = "Upsert" <=> Fails(f, subjects, types)
        BY <2>1, <3>2 DEF Holds
      <4>2. f \notin DOMAIN subjects \cup types
        BY FindingFacts DEF Types
      <4> QED
        BY <3>2, <4>1, <4>2 DEF InModel
    <3>3. CASE t.ev.res # f
      <4>1. t.ev.res \in Own' <=> t.ev.res \in Own
        BY <1>3, <3>3, OwnFacts
      <4> QED
        BY <3>1, <4>1 DEF InModel
    <3> QED
      BY <3>2, <3>3
  <2> QED
    BY <2>1, <2>2 DEF Holds
<1> QED
  BY <1>1, <1>2, <1>3 DEF TrueNext

(* A task of the only goroutine leaves tasks that fit the state, and       *)
(* nothing it changes makes those below it wrong.                          *)
LEMMA WorkKeepsTrue ==
  ASSUME Alone, Types, AddInv, TrueInv, NEW g \in Goroutine, Work(g)
  PROVE  TrueNext /\ \A h \in Goroutine : AddsLast(stack'[h])
<1> DEFINE Good == TrueNext /\ \A h \in Goroutine : AddsLast(stack'[h])
<1>1. ASSUME Turns(g, << >>), UNCHANGED << subjects, types, Own >> PROVE Good
  BY <1>1, SeqMembers, TrueOnTurn
<1>2. ASSUME NEW x \in Task, Turns(g, << x >>), UNCHANGED << subjects, types, Own >>,
             x.do # "add", Holds(x, subjects, types, Own)
      PROVE  Good
  BY <1>2, SeqMembers, TrueOnTurn
<1>3. Holds(Top(g), subjects, types, Own)
  <2>1. ~ Idle(g)
    BY DEF Work, AddPushed, Filter, Record, List, EachSubject, Check, UpsertFinding,
           RemoveFinding, ReconcileFinding, Recheck, Doing
  <2> QED
    BY <2>1, TopIsTask DEF TrueInv
<1>4. Types'
  BY WorkKeepsTypes
<1> HIDE DEF Good
<1> SUFFICES Good
  BY DEF Good
<1>5. CASE AddPushed(g)
  <2>1. PICK obj \in Object : /\ Top(g) = [do |-> "add", obj |-> obj]
                              /\ subjects' = With(obj)
                              /\ Turns(g, Emit(Event("Upsert", obj.id, obj)))
                              /\ UNCHANGED << types, Own >>
    BY <1>5, AddPushedDoes
  <2>2. Top(g).do = "add"
    BY <2>1
  <2> QED
    BY <2>1, <2>2, PutKeepsTrue DEF Good
<1>6. CASE Filter(g)
  <2>1. PICK ev \in EventType : /\ Top(g) = [do |-> "filter", ev |-> ev]
                                /\ Turns(g, Checks(ev))
                                /\ UNCHANGED << subjects, types, Own >>
    BY <1>6, FilterDoes
  <2>2. Top(g).do = "filter" /\ Top(g).ev = ev
    BY <2>1
  <2>3. ASSUME NEW t, InSeq(Checks(ev), t)
        PROVE  t.do # "add" /\ Holds(t, subjects, types, Own)
    <3>1. \/ /\ ev.op = "Upsert" /\ ev.res \in Subject
             /\ t.do = "check" /\ t.obj = ev.obj
          \/ t.do \in {"list", "reconcile"}
      BY <2>3, ChecksFacts
    <3>2. CASE t.do \in {"list", "reconcile"}
      BY <3>2 DEF Holds
    <3>3. CASE ev.op = "Upsert" /\ ev.res \in Subject /\ t.do = "check" /\ t.obj = ev.obj
      <4>1. ev.res \in DOMAIN subjects /\ subjects[ev.res] = ev.obj
        BY <1>3, <2>2, <3>3 DEF Holds
      <4>2. ev.obj.id = ev.res
        BY <4>1 DEF Types
      <4> QED
        BY <3>3, <4>1, <4>2 DEF Holds
    <3> QED
      BY <3>1, <3>2, <3>3
  <2> QED
    BY <2>1, <2>3, TrueOnTurn DEF Good
<1>7. CASE Record(g)
  BY <1>1, <1>7, RecordDoes
<1>8. CASE List(g)
  <2>1. PICK x \in Task : /\ x.do = "each" /\ Turns(g, << x >>)
                          /\ UNCHANGED << subjects, types, Own >>
    BY <1>8, ListDoes
  <2>2. Holds(x, subjects, types, Own)
    BY <2>1 DEF Holds
  <2> QED
    BY <1>2, <2>1, <2>2
<1>9. CASE EachSubject(g)
  <2>1. PICK todo \in SUBSET Object, only \in BOOLEAN, ts \in Seq(Task) :
           /\ Turns(g, ts)
           /\ UNCHANGED << subjects, types, Own >>
           /\ \/ todo = {} /\ ts = << >>
              \/ \E obj \in todo : \A t : InSeq(ts, t) <=> RoundLeaves(todo, only, obj, t)
    BY <1>9, EachDoes
  <2>2. CASE ts = << >>
    BY <1>1, <2>1, <2>2
  <2>3. ASSUME NEW obj \in todo, \A t : InSeq(ts, t) <=> RoundLeaves(todo, only, obj, t)
        PROVE  Good
    <3>1. ASSUME NEW t, InSeq(ts, t) PROVE t.do # "add" /\ Holds(t, subjects, types, Own)
      <4>1. \/ t.do = "each"
            \/ obj.id \in DOMAIN subjects /\ t.do = "check" /\ t.obj = subjects[obj.id]
        BY <2>3, <3>1 DEF RoundLeaves, Registered
      <4>2. obj.id \in DOMAIN subjects => subjects[obj.id].id = obj.id
        BY DEF Types
      <4> QED
        BY <4>1, <4>2 DEF Holds
    <3> QED
      BY <2>1, <3>1, TrueOnTurn DEF Good
  <2> QED
    BY <2>1, <2>2, <2>3
<1>10. CASE Check(g)
  <2>1. PICK obj \in Object, kind \in Kind :
          /\ Top(g) = [do |-> "check", kind |-> kind, obj |-> obj]
          /\ << obj.id, kind >> \in Finding
          /\ \E x \in Task :
               /\ x = [do |-> IF Passes(obj, kind) THEN "remove" ELSE "upsert",
                       f  |-> << obj.id, kind >>]
               /\ Turns(g, << x >>)
          /\ UNCHANGED << subjects, types, Own >>
    BY <1>10, CheckDoes
  <2>2. PICK x \in Task : /\ x = [do |-> IF Passes(obj, kind) THEN "remove" ELSE "upsert",
                                  f  |-> << obj.id, kind >>]
                          /\ Turns(g, << x >>)
    BY <2>1
  <2>3. obj.id \in DOMAIN subjects /\ subjects[obj.id] = obj
    <3>1. Top(g).do = "check" /\ Top(g).obj = obj
      BY <2>1
    <3> QED
      BY <1>3, <3>1 DEF Holds
  <2>4. PICK f \in Finding : f = << obj.id, kind >> /\ f[1] = obj.id /\ f[2] = kind
    BY <2>1
  <2>5. Fails(f, subjects, types) <=> ~ Passes(obj, kind)
    BY <2>3, <2>4, PassingIsPasses DEF Fails
  <2>6. CASE Passes(obj, kind)
    <3>1. x = [do |-> "remove", f |-> f]
      BY <2>2, <2>4, <2>6, Zenon
    <3>2. x.do = "remove" /\ x.f = f
      BY <3>1
    <3>3. Holds(x, subjects, types, Own)
      BY <2>5, <2>6, <3>2 DEF Holds
    <3>4. Turns(g, << x >>) /\ UNCHANGED << subjects, types, Own >>
      BY <2>1, <2>2
    <3> QED
      BY <1>2, <3>2, <3>3, <3>4
  <2>7. CASE ~ Passes(obj, kind)
    <3>1. x = [do |-> "upsert", f |-> f]
      BY <2>2, <2>4, <2>7, Zenon
    <3>2. x.do = "upsert" /\ x.f = f
      BY <3>1
    <3>3. Holds(x, subjects, types, Own)
      BY <2>5, <2>7, <3>2 DEF Holds
    <3>4. Turns(g, << x >>) /\ UNCHANGED << subjects, types, Own >>
      BY <2>1, <2>2
    <3> QED
      BY <1>2, <3>2, <3>3, <3>4
  <2> QED
    BY <2>6, <2>7
<1>11. CASE UpsertFinding(g)
  <2>1. PICK f \in Finding : /\ Top(g) = [do |-> "upsert", f |-> f]
                             /\ Own' = Own \cup {f}
                             /\ Turns(g, Emit(Event("Upsert", f, f)))
                             /\ UNCHANGED << subjects, types >>
    BY <1>11, UpsertDoes
  <2>2. Fails(f, subjects, types)
    <3>1. Top(g).do = "upsert" /\ Top(g).f = f
      BY <2>1
    <3> QED
      BY <1>3, <3>1 DEF Holds
  <2>3. PICK ev \in EventType : ev = Event("Upsert", f, f) /\ ev.op = "Upsert" /\ ev.res = f
    BY FindingEventOf DEF FindingId
  <2>4. f \in InModel(subjects, types, Own') /\ f \notin Subject
    BY <2>1, FindingFacts DEF InModel
  <2>5. \A t : InSeq(Emit(ev), t) => t.do # "add" /\ Holds(t, subjects, types, Own')
    BY <2>2, <2>3, <2>4, TrueOnEmit
  <2>6. Own' \subseteq Finding
    BY <2>1, OwnFacts
  <2>7. /\ \A e \in Finding \ {f} : e \in Own' <=> e \in Own
        /\ f \in Own' <=> Fails(f, subjects, types)
    BY <2>1, <2>2
  <2>8. Turns(g, Emit(ev)) /\ UNCHANGED << subjects, types >>
    BY <2>1, <2>3
  <2> QED
    BY <2>5, <2>6, <2>7, <2>8, FindingKeepsTrue DEF Good
<1>12. CASE RemoveFinding(g)
  <2>1. PICK f \in Finding :
          /\ Top(g) = [do |-> "remove", f |-> f]
          /\ Own' = Own \ {f}
          /\ Turns(g, IF f \in DOMAIN findings THEN Emit(Event("Delete", f, None)) ELSE << >>)
          /\ UNCHANGED << subjects, types >>
    BY <1>12, RemoveDoes
  <2>2. ~ Fails(f, subjects, types)
    <3>1. Top(g).do = "remove" /\ Top(g).f = f
      BY <2>1
    <3> QED
      BY <1>3, <3>1 DEF Holds
  <2>3. PICK ev \in EventType : ev = Event("Delete", f, None) /\ ev.op = "Delete" /\ ev.res = f
    BY FindingEventOf DEF FindingId
  <2>4. f \notin InModel(subjects, types, Own')
    BY <2>1, FindingFacts DEF InModel, Types
  <2>5. \A t : InSeq(Emit(ev), t) => t.do # "add" /\ Holds(t, subjects, types, Own')
    BY <2>2, <2>3, <2>4, TrueOnEmit
  <2>6. Own' \subseteq Finding
    BY <2>1, OwnFacts
  <2>7. /\ \A e \in Finding \ {f} : e \in Own' <=> e \in Own
        /\ f \in Own' <=> Fails(f, subjects, types)
    BY <2>1, <2>2
  <2>8. PICK ts : Turns(g, ts) /\ (ts = Emit(ev) \/ ts = << >>)
    BY <2>1, <2>3
  <2>9. \A t : InSeq(ts, t) => t.do # "add" /\ Holds(t, subjects, types, Own')
    BY <2>5, <2>8, SeqMembers
  <2>10. UNCHANGED << subjects, types >>
    BY <2>1
  <2> QED
    BY <2>6, <2>7, <2>8, <2>9, <2>10, FindingKeepsTrue DEF Good
<1>13. CASE ReconcileFinding(g)
  <2>1. PICK f \in Finding :
           /\ \/ Turns(g, << >>)
              \/ /\ f[1] \in DOMAIN subjects
                 /\ \E x \in Task : /\ x = [do |-> "recheck", f |-> f, obj |-> subjects[f[1]]]
                                    /\ Turns(g, << x >>)
           /\ UNCHANGED << subjects, types, Own >>
    BY <1>13, ReconcileDoes DEF Registered
  <2>2. ASSUME NEW x \in Task, x = [do |-> "recheck", f |-> f, obj |-> subjects[f[1]]],
               f[1] \in DOMAIN subjects, Turns(g, << x >>)
        PROVE  Good
    <3>1. Holds(x, subjects, types, Own) /\ x.do # "add"
      BY <2>2 DEF Holds
    <3> QED
      BY <1>2, <2>1, <2>2, <3>1
  <2> QED
    BY <1>1, <2>1, <2>2
<1>14. CASE Recheck(g)
  <2>1. PICK f \in Finding, obj \in Object :
           /\ Top(g) = [do |-> "recheck", f |-> f, obj |-> obj]
           /\ \/ Turns(g, << >>)
              \/ /\ Passes(obj, f[2])
                 /\ \E x \in Task : x = [do |-> "remove", f |-> f] /\ Turns(g, << x >>)
           /\ UNCHANGED << subjects, types, Own >>
    BY <1>14, RecheckDoes
  <2>2. ASSUME NEW x \in Task, x = [do |-> "remove", f |-> f], Passes(obj, f[2]), Turns(g, << x >>)
        PROVE  Good
    <3>1. f[1] \in DOMAIN subjects /\ subjects[f[1]] = obj
      <4>1. Top(g).do = "recheck" /\ Top(g).f = f /\ Top(g).obj = obj
        BY <2>1
      <4> QED
        BY <1>3, <4>1 DEF Holds
    <3>2. ~ Fails(f, subjects, types)
      BY <2>2, <3>1, PassingIsPasses DEF Fails
    <3>3. Holds(x, subjects, types, Own) /\ x.do # "add"
      BY <2>2, <3>2 DEF Holds
    <3> QED
      BY <1>2, <2>1, <2>2, <3>3
  <2> QED
    BY <1>1, <2>1, <2>2
<1> QED
  BY <1>5, <1>6, <1>7, <1>8, <1>9, <1>10, <1>11, <1>12, <1>13, <1>14 DEF Work

-----------------------------------------------------------------------------
(***************************************************************************)
(* Nothing is missing: of a subject that fails a check and has no finding  *)
(* there is a task that leads to one.                                      *)
(***************************************************************************)
Supplies(t, f, o) == ChecksIt(t, f, o) \/ (t.do = "upsert" /\ t.f = f)

(* Of every finding that ought to be there and is not, some task on a      *)
(* stack is going to add it.                                               *)
MissingInv ==
  \A f \in Finding \ Own :
    Fails(f, subjects, types) => \E t : OnStack(t) /\ Supplies(t, f, subjects[f[1]])

(* The same of the state after a step.                                     *)
MissingNext ==
  \A f \in Finding \ Own' :
    Fails(f, subjects', types') => \E t : OnStack(t)' /\ Supplies(t, f, subjects'[f[1]])

(* A step that leaves subjects and types alone, and whose task has a       *)
(* successor for the finding that it would have led to.                    *)
LEMMA SuppliesOnTurn ==
  ASSUME Types, MissingInv, NEW g \in Goroutine, NEW ts, Turns(g, ts),
         UNCHANGED << subjects, types >>,
         \A f \in Own \ Own' : ~ Fails(f, subjects, types),
         \A f \in Finding \ Own' :
           Fails(f, subjects, types) /\ Supplies(Top(g), f, subjects[f[1]])
             => \E t : InSeq(ts, t) /\ Supplies(t, f, subjects[f[1]])
  PROVE  MissingNext
<1> SUFFICES ASSUME NEW f \in Finding \ Own', Fails(f, subjects, types)
             PROVE  \E t : OnStack(t)' /\ Supplies(t, f, subjects[f[1]])
  BY DEF MissingNext
<1>1. PICK t : OnStack(t) /\ Supplies(t, f, subjects[f[1]])
  BY DEF MissingInv
<1>2. CASE t = Top(g)
  <2>1. PICK u : InSeq(ts, u) /\ Supplies(u, f, subjects[f[1]])
    BY <1>1, <1>2
  <2>2. OnStack(u)'
    BY <2>1, TurnsTasks
  <2> QED
    BY <2>1, <2>2
<1>3. CASE t # Top(g)
  <2>1. OnStack(t)'
    BY <1>1, <1>3, TurnsTasks
  <2> QED
    BY <1>1, <2>1
<1> QED
  BY <1>2, <1>3

(* An object that is added is checked; no other begins to fail.            *)
LEMMA PutSupplies ==
  ASSUME Types, MissingInv, NEW obj \in Object, subjects' = With(obj),
         UNCHANGED << types, Own >>,
         \A t : InSeq(Emit(Event("Upsert", obj.id, obj)), t) => OnStack(t)',
         \A t : OnStack(t) => OnStack(t)' \/ t.do = "add"
  PROVE  MissingNext
<1> SUFFICES ASSUME NEW f \in Finding \ Own, Fails(f, subjects', types)
             PROVE  \E t : OnStack(t)' /\ Supplies(t, f, subjects'[f[1]])
  BY DEF MissingNext
<1>1. PICK m : m = With(obj)
  OBVIOUS
<1>2. /\ DOMAIN m = DOMAIN subjects \cup {obj.id} /\ m[obj.id] = obj
      /\ \A r \in DOMAIN subjects \ {obj.id} : m[r] = subjects[r]
  BY <1>1, WithFacts
<1>3. f[1] \in DOMAIN m /\ ~ Passing(m[f[1]], f[2], types, DOMAIN m)
  BY <1>1 DEF Fails
<1>4. CASE f[1] = obj.id
  <2>1. PICK u : u = [do |-> "filter", ev |-> Event("Upsert", obj.id, obj)]
    OBVIOUS
  <2>2. OnStack(u)' /\ u.do = "filter" /\ u.ev.op = "Upsert" /\ u.ev.res = obj.id /\ u.ev.obj = obj
    BY <2>1, UpsertOf, EmitFacts
  <2>3. Supplies(u, f, subjects'[f[1]])
    BY <1>1, <1>2, <1>4, <2>2 DEF Supplies, ChecksIt
  <2> QED
    BY <2>2, <2>3
<1>5. CASE f[1] # obj.id
  <2>1. f[1] \in DOMAIN subjects /\ subjects'[f[1]] = subjects[f[1]]
    BY <1>1, <1>2, <1>3, <1>5
  <2>2. Fails(f, subjects, types)
    BY <1>1, <1>2, <1>3, <2>1 DEF Fails, Passing
  <2>3. PICK t : OnStack(t) /\ Supplies(t, f, subjects[f[1]])
    BY <2>2 DEF MissingInv
  <2>4. t.do # "add"
    BY <2>3 DEF Supplies, ChecksIt
  <2> QED
    BY <2>1, <2>3, <2>4
<1> QED
  BY <1>4, <1>5

(* The children of a Context that is deleted are checked.                  *)
LEMMA DropSupplies ==
  ASSUME Types, MissingInv, NEW s \in Subject,
         subjects' = Restrict(subjects, DOMAIN subjects \ {s}),
         UNCHANGED << types, Own >>,
         \A t : InSeq(Emit(Event("Delete", s, None)), t) => OnStack(t)',
         \A t : OnStack(t) => OnStack(t)'
  PROVE  MissingNext
<1> SUFFICES ASSUME NEW f \in Finding \ Own, Fails(f, subjects', types)
             PROVE  \E t : OnStack(t)' /\ Supplies(t, f, subjects'[f[1]])
  BY DEF MissingNext
<1>1. PICK m : m = Restrict(subjects, DOMAIN subjects \ {s})
  OBVIOUS
<1>2. DOMAIN m = DOMAIN subjects \ {s} /\ \A r \in DOMAIN subjects \ {s} : m[r] = subjects[r]
  BY <1>1, DropFacts
<1>3. f[1] \in DOMAIN m /\ ~ Passing(m[f[1]], f[2], types, DOMAIN m)
  BY <1>1 DEF Fails
<1>4. f[1] \in DOMAIN subjects /\ subjects'[f[1]] = subjects[f[1]]
  BY <1>1, <1>2, <1>3
<1>5. CASE Fails(f, subjects, types)
  BY <1>4, <1>5 DEF MissingInv
<1>6. CASE ~ Fails(f, subjects, types)
  <2>1. f[2] = ParentNotFound /\ subjects[f[1]].parent = s
    BY <1>1, <1>2, <1>3, <1>4, <1>6 DEF Fails, Passing
  <2>2. f[1] \in Context /\ subjects[f[1]].id = f[1] /\ subjects[f[1]] \in Object
    BY <1>4, <2>1, FindingFacts DEF Types
  <2>3. subjects[f[1]] \in ContextObject
    BY <2>2, LandscapeAssumption DEF Object, NodeObject
  <2>4. s \in Context
    BY <2>1, <2>3, LandscapeAssumption DEF ContextObject
  <2>5. AsksAbout(s, f, subjects[f[1]])
    BY <2>1, <2>2, <2>4 DEF AsksAbout, Concerns
  <2>6. PICK u : u = [do |-> "filter", ev |-> Event("Delete", s, None)]
    OBVIOUS
  <2>7. OnStack(u)' /\ u.do = "filter" /\ u.ev.res = s
    BY <2>6, DeleteOf, EmitFacts
  <2>8. Supplies(u, f, subjects[f[1]])
    BY <2>4, <2>5, <2>7 DEF Supplies, ChecksIt
  <2> QED
    BY <1>4, <2>7, <2>8
<1> QED
  BY <1>5, <1>6

(* The subjects of a type that is deleted are checked.                     *)
LEMMA DropTypeSupplies ==
  ASSUME Types, MissingInv, NEW y \in Type, types' = types \ {y},
         UNCHANGED << subjects, Own >>,
         \A t : InSeq(Emit(Event("Delete", y, None)), t) => OnStack(t)',
         \A t : OnStack(t) => OnStack(t)'
  PROVE  MissingNext
<1> SUFFICES ASSUME NEW f \in Finding \ Own, Fails(f, subjects, types')
             PROVE  \E t : OnStack(t)' /\ Supplies(t, f, subjects[f[1]])
  BY DEF MissingNext
<1>1. CASE Fails(f, subjects, types)
  BY <1>1 DEF MissingInv
<1>2. CASE ~ Fails(f, subjects, types)
  <2>1. subjects[f[1]].type = y
    BY <1>2 DEF Fails, Passing
  <2>2. PICK u : u = [do |-> "filter", ev |-> Event("Delete", y, None)]
    OBVIOUS
  <2>3. OnStack(u)' /\ u.do = "filter" /\ u.ev.res = y
    BY <2>2, EventOf, EmitFacts
  <2>4. AsksAbout(y, f, subjects[f[1]])
    BY <2>1, LandscapeAssumption DEF AsksAbout, Concerns, Subject
  <2>5. Supplies(u, f, subjects[f[1]])
    BY <2>3, <2>4 DEF Supplies, ChecksIt
  <2> QED
    BY <2>3, <2>5
<1> QED
  BY <1>1, <1>2

(* A call keeps MissingInv: the subjects it made fail are those its event  *)
(* has checked.                                                            *)
LEMMA CallKeepsMissing ==
  ASSUME Alone, Types, MissingInv, NEW g \in Goroutine, Operate(g)
  PROVE  MissingNext
<1>1. CASE Puts(g)
  <2>1. PICK obj \in Object : /\ subjects' = With(obj)
                              /\ Begins(g, Emit(Event("Upsert", obj.id, obj)))
                              /\ UNCHANGED << types, Own >>
    BY <1>1 DEF Puts
  <2>2. \A t : InSeq(Emit(Event("Upsert", obj.id, obj)), t) => OnStack(t)'
    BY <2>1, BeginsTasks
  <2>3. \A t : OnStack(t) => OnStack(t)'
    BY <2>1, BeginsTasks
  <2> QED
    BY <2>1, <2>2, <2>3, PutSupplies
<1>2. CASE Drops(g)
  <2>1. PICK s \in Subject : /\ subjects' = Restrict(subjects, DOMAIN subjects \ {s})
                             /\ Begins(g, Emit(Event("Delete", s, None)))
                             /\ UNCHANGED << types, Own >>
    BY <1>2 DEF Drops
  <2>2. \A t : InSeq(Emit(Event("Delete", s, None)), t) => OnStack(t)'
    BY <2>1, BeginsTasks
  <2>3. \A t : OnStack(t) => OnStack(t)'
    BY <2>1, BeginsTasks
  <2> QED
    BY <2>1, <2>2, <2>3, DropSupplies
<1>3. CASE PutsType(g)
  <2>1. PICK y \in Type, ts \in Seq(Task) :
          /\ types' = types \cup {y} /\ Begins(g, ts)
          /\ UNCHANGED << subjects, Own >>
    BY <1>3 DEF PutsType, Begins
  <2>2. \A t : OnStack(t) => OnStack(t)'
    BY <2>1, BeginsTasks
  <2>3. \A f : Fails(f, subjects, types') => Fails(f, subjects, types)
    BY <2>1 DEF Fails, Passing
  <2> QED
    BY <2>1, <2>2, <2>3 DEF MissingInv, MissingNext
<1>4. CASE DropsType(g)
  <2>1. PICK y \in Type : /\ types' = types \ {y}
                          /\ Begins(g, Emit(Event("Delete", y, None)))
                          /\ UNCHANGED << subjects, Own >>
    BY <1>4 DEF DropsType
  <2>2. \A t : InSeq(Emit(Event("Delete", y, None)), t) => OnStack(t)'
    BY <2>1, BeginsTasks
  <2>3. \A t : OnStack(t) => OnStack(t)'
    BY <2>1, BeginsTasks
  <2> QED
    BY <2>1, <2>2, <2>3, DropTypeSupplies
<1>5. ~ PutsFinding(g) /\ ~ DropsFinding(g)
  BY DEF Alone, PutsFinding, DropsFinding
<1>6. CASE Prepares(g)
  <2>1. PICK ts : Begins(g, ts) /\ UNCHANGED << subjects, types, Own >>
    BY <1>6 DEF Prepares
  <2>2. \A t : OnStack(t) => OnStack(t)'
    BY <2>1, BeginsTasks
  <2> QED
    BY <2>1, <2>2 DEF MissingInv, MissingNext
<1> QED
  BY <1>1, <1>2, <1>3, <1>4, <1>5, <1>6, CallsDo

(* No task breaks MissingInv: a finding is only deleted if its subject is  *)
(* gone or passes, since what the task was made for still holds.           *)
LEMMA WorkKeepsMissing ==
  ASSUME Types, TrueInv, MissingInv, NEW g \in Goroutine, Work(g)
  PROVE  MissingNext
<1>1. CASE AddPushed(g)
  <2>1. PICK obj \in Object : /\ Top(g) = [do |-> "add", obj |-> obj]
                              /\ subjects' = With(obj)
                              /\ Turns(g, Emit(Event("Upsert", obj.id, obj)))
                              /\ UNCHANGED << types, Own >>
    BY <1>1, AddPushedDoes
  <2>2. \A t : InSeq(Emit(Event("Upsert", obj.id, obj)), t) => OnStack(t)'
    BY <2>1, TurnsTasks
  <2>3. \A t : OnStack(t) => OnStack(t)' \/ t.do = "add"
    BY <2>1, TurnsTasks
  <2> QED
    BY <2>1, <2>2, <2>3, PutSupplies
<1>2. ASSUME NEW ts, Turns(g, ts), UNCHANGED << subjects, types, Own >>,
             Top(g).do \in {"record", "reconcile", "recheck"}
      PROVE  MissingNext
  <2>1. \A f, o : ~ Supplies(Top(g), f, o)
    BY <1>2 DEF Supplies, ChecksIt
  <2> QED
    BY <1>2, <2>1, SuppliesOnTurn
<1>3. CASE Record(g)
  <2>1. PICK ts : /\ Top(g).do = "record" /\ Turns(g, ts)
                  /\ UNCHANGED << subjects, types, Own >>
    BY <1>3, RecordDoes
  <2> QED
    BY <1>2, <2>1
<1>4. CASE ReconcileFinding(g) \/ Recheck(g)
  <2>1. /\ (\E x : Turns(g, << x >>)) \/ Turns(g, << >>)
        /\ UNCHANGED << subjects, types, Own >>
    BY <1>4, ReconcileDoes, RecheckDoes
  <2>2. Top(g).do \in {"reconcile", "recheck"}
    BY <1>4 DEF ReconcileFinding, Recheck, Doing
  <2> QED
    BY <1>2, <2>1, <2>2
<1>6. CASE Filter(g) \/ List(g) \/ EachSubject(g)
  <2>1. PICK ts : /\ Turns(g, ts) /\ UNCHANGED << subjects, types, Own >>
                  /\ \A f \in Finding :
                       f[1] \in DOMAIN subjects => LeadsOn(g, ts, f, subjects[f[1]])
    BY <1>6, FilterLeadsOn, ListLeadsOn, EachLeadsOn
  <2>2. Top(g).do # "upsert"
    BY <1>6 DEF Filter, List, EachSubject, Doing
  <2>3. ASSUME NEW f \in Finding, Fails(f, subjects, types), Supplies(Top(g), f, subjects[f[1]])
        PROVE  \E t : InSeq(ts, t) /\ Supplies(t, f, subjects[f[1]])
    BY <2>1, <2>2, <2>3 DEF Fails, Supplies, LeadsOn
  <2> QED
    BY <2>1, <2>3, SuppliesOnTurn
<1>7. CASE Check(g)
  <2>1. PICK obj \in Object, kind \in Kind :
          /\ Top(g) = [do |-> "check", kind |-> kind, obj |-> obj]
          /\ \E x \in Task :
               /\ x = [do |-> IF Passes(obj, kind) THEN "remove" ELSE "upsert",
                       f  |-> << obj.id, kind >>]
               /\ Turns(g, << x >>)
          /\ UNCHANGED << subjects, types, Own >>
    BY <1>7, CheckDoes
  <2>2. PICK x \in Task : /\ x = [do |-> IF Passes(obj, kind) THEN "remove" ELSE "upsert",
                                  f  |-> << obj.id, kind >>]
                          /\ Turns(g, << x >>)
    BY <2>1
  <2>3. ASSUME NEW f \in Finding, Fails(f, subjects, types), Supplies(Top(g), f, subjects[f[1]])
        PROVE  Supplies(x, f, subjects[f[1]])
    <3>1. kind = f[2] /\ obj = subjects[f[1]]
      BY <2>1, <2>3 DEF Supplies, ChecksIt
    <3>2. ~ Passes(obj, kind)
      BY <2>3, <3>1, PassingIsPasses DEF Fails
    <3>3. x = [do |-> "upsert", f |-> << obj.id, kind >>]
      BY <2>2, <3>2, Zenon
    <3>4. << obj.id, kind >> = f
      BY <2>3, <3>1, FindingFacts DEF Types, Fails
    <3> QED
      BY <3>3, <3>4 DEF Supplies
  <2>4. InSeq(<< x >>, x)
    BY SeqMembers
  <2>5. UNCHANGED << subjects, types, Own >> /\ Turns(g, << x >>)
    BY <2>1, <2>2
  <2> QED
    BY <2>3, <2>4, <2>5, SuppliesOnTurn
<1>8. CASE UpsertFinding(g)
  <2>1. PICK f \in Finding, ts \in Seq(Task) :
          /\ Top(g) = [do |-> "upsert", f |-> f]
          /\ Own' = Own \cup {f}
          /\ Turns(g, ts)
          /\ UNCHANGED << subjects, types >>
    BY <1>8, UpsertDoes DEF Turns
  <2>2. \A e, o : Supplies(Top(g), e, o) => e = f
    BY <2>1 DEF Supplies, ChecksIt
  <2> QED
    BY <2>1, <2>2, SuppliesOnTurn
<1>9. CASE RemoveFinding(g)
  <2>1. PICK f \in Finding, ts \in Seq(Task) :
          /\ Top(g) = [do |-> "remove", f |-> f]
          /\ Own' = Own \ {f}
          /\ Turns(g, ts)
          /\ UNCHANGED << subjects, types >>
    BY <1>9, RemoveDoes DEF Turns
  <2>2. \A e, o : ~ Supplies(Top(g), e, o)
    BY <2>1 DEF Supplies, ChecksIt
  <2>3. ~ Fails(f, subjects, types)
    <3>1. Holds(Top(g), subjects, types, Own)
      BY <2>1, TopIsTask DEF TrueInv, Turns
    <3>2. Top(g).do = "remove" /\ Top(g).f = f
      BY <2>1
    <3> QED
      BY <3>1, <3>2 DEF Holds
  <2> QED
    BY <2>1, <2>2, <2>3, SuppliesOnTurn
<1> QED
  BY <1>1, <1>3, <1>4, <1>6, <1>7, <1>8, <1>9 DEF Work

-----------------------------------------------------------------------------
(***************************************************************************)
(* What is recorded is what is in the model: where they differ, an event   *)
(* is yet to be recorded.                                                  *)
(***************************************************************************)
StoredInv ==
  /\ stored \subseteq Subject \cup Type \cup FindingId
  /\ \A r : (r \in stored <=> r \in InModel(subjects, types, Own))
              \/ \E t : OnStack(t) /\ t.do = "record" /\ t.ev.res = r

(* The same of the state after a step.                                     *)
StoredNext ==
  /\ stored' \subseteq Subject \cup Type \cup FindingId
  /\ \A r : (r \in stored' <=> r \in InModel(subjects', types', Own'))
              \/ \E t : OnStack(t)' /\ t.do = "record" /\ t.ev.res = r

(* A step that leaves model and record alone, and its task is no record.   *)
LEMMA StoredOnTurn ==
  ASSUME Types, StoredInv, NEW g \in Goroutine, NEW ts, Turns(g, ts), Top(g).do # "record",
         UNCHANGED << subjects, types, Own, stored >>
  PROVE  StoredNext
BY TurnsTasks DEF StoredInv, StoredNext

(* A change of one resource of the model is announced.                     *)
LEMMA StoredOnEmit ==
  ASSUME Types, StoredInv, NEW ev \in EventType, UNCHANGED stored,
         \A r : r # ev.res => (r \in InModel(subjects', types', Own')
                                 <=> r \in InModel(subjects, types, Own)),
         \A t : InSeq(Emit(ev), t) => OnStack(t)',
         \A t : OnStack(t) /\ t.do = "record" => OnStack(t)'
  PROVE  StoredNext
<1>1. PICK u : u = [do |-> "record", ev |-> ev]
  OBVIOUS
<1>2. OnStack(u)' /\ u.do = "record" /\ u.ev.res = ev.res
  BY <1>1, EmitFacts
<1> QED
  BY <1>2 DEF StoredInv, StoredNext

(* A call changes one resource, and its event is to be recorded.           *)
LEMMA CallKeepsStored ==
  ASSUME Alone, Types, StoredInv, NEW g \in Goroutine, Operate(g)
  PROVE  StoredNext
<1>1. ASSUME NEW ev \in EventType, Begins(g, Emit(ev)), UNCHANGED stored,
             \A r : r # ev.res => (r \in InModel(subjects', types', Own')
                                     <=> r \in InModel(subjects, types, Own))
      PROVE  StoredNext
  <2>1. \A t : InSeq(Emit(ev), t) => OnStack(t)'
    BY <1>1, BeginsTasks
  <2>2. \A t : OnStack(t) => OnStack(t)'
    BY <1>1, BeginsTasks
  <2> QED
    BY <1>1, <2>1, <2>2, StoredOnEmit
<1>2. CASE Puts(g)
  <2>1. PICK obj \in Object : /\ subjects' = With(obj)
                              /\ Begins(g, Emit(Event("Upsert", obj.id, obj)))
                              /\ UNCHANGED << types, Own, stored >>
    BY <1>2 DEF Puts
  <2>2. PICK ev \in EventType : ev = Event("Upsert", obj.id, obj) /\ ev.res = obj.id
    BY UpsertOf
  <2>3. DOMAIN subjects' = DOMAIN subjects \cup {obj.id}
    BY <2>1, WithFacts
  <2> QED
    BY <1>1, <2>1, <2>2, <2>3 DEF InModel
<1>3. CASE Drops(g)
  <2>1. PICK s \in Subject : /\ subjects' = Restrict(subjects, DOMAIN subjects \ {s})
                             /\ Begins(g, Emit(Event("Delete", s, None)))
                             /\ UNCHANGED << types, Own, stored >>
    BY <1>3 DEF Drops
  <2>2. PICK ev \in EventType : ev = Event("Delete", s, None) /\ ev.res = s
    BY DeleteOf
  <2>3. DOMAIN subjects' = DOMAIN subjects \ {s}
    BY <2>1, DropFacts
  <2> QED
    BY <1>1, <2>1, <2>2, <2>3 DEF InModel
<1>4. CASE PutsType(g)
  <2>1. PICK y \in Type : /\ types' = types \cup {y}
                          /\ Begins(g, Emit(Event("Upsert", y, None)))
                          /\ UNCHANGED << subjects, Own, stored >>
    BY <1>4 DEF PutsType
  <2>2. PICK ev \in EventType : ev = Event("Upsert", y, None) /\ ev.res = y
    BY EventOf
  <2> QED
    BY <1>1, <2>1, <2>2 DEF InModel
<1>5. CASE DropsType(g)
  <2>1. PICK y \in Type : /\ types' = types \ {y}
                          /\ Begins(g, Emit(Event("Delete", y, None)))
                          /\ UNCHANGED << subjects, Own, stored >>
    BY <1>5 DEF DropsType
  <2>2. PICK ev \in EventType : ev = Event("Delete", y, None) /\ ev.res = y
    BY EventOf
  <2> QED
    BY <1>1, <2>1, <2>2 DEF InModel
<1>6. ~ PutsFinding(g) /\ ~ DropsFinding(g)
  BY DEF Alone, PutsFinding, DropsFinding
<1>7. CASE Prepares(g)
  <2>1. PICK ts : Begins(g, ts) /\ UNCHANGED << subjects, types, Own, stored >>
    BY <1>7 DEF Prepares
  <2> QED
    BY <2>1, BeginsTasks DEF StoredInv, StoredNext
<1> QED
  BY <1>2, <1>3, <1>4, <1>5, <1>6, <1>7, CallsDo

(* A task changes one resource and announces it, or records an event that  *)
(* fits the model.                                                         *)
LEMMA WorkKeepsStored ==
  ASSUME Types, TrueInv, StoredInv, NEW g \in Goroutine, Work(g)
  PROVE  StoredNext
<1>1. ASSUME NEW ev \in EventType, Turns(g, Emit(ev)), UNCHANGED stored, Top(g).do # "record",
             \A r : r # ev.res => (r \in InModel(subjects', types', Own')
                                     <=> r \in InModel(subjects, types, Own))
      PROVE  StoredNext
  <2>1. \A t : InSeq(Emit(ev), t) => OnStack(t)'
    BY <1>1, TurnsTasks
  <2>2. \A t : OnStack(t) /\ t.do = "record" => OnStack(t)'
    BY <1>1, TurnsTasks
  <2> QED
    BY <1>1, <2>1, <2>2, StoredOnEmit
<1>2. CASE AddPushed(g)
  <2>1. PICK obj \in Object : /\ Top(g) = [do |-> "add", obj |-> obj]
                              /\ subjects' = With(obj)
                              /\ Turns(g, Emit(Event("Upsert", obj.id, obj)))
                              /\ UNCHANGED << types, Own, stored >>
    BY <1>2, AddPushedDoes
  <2>2. PICK ev \in EventType : ev = Event("Upsert", obj.id, obj) /\ ev.res = obj.id
    BY UpsertOf
  <2>3. DOMAIN subjects' = DOMAIN subjects \cup {obj.id}
    BY <2>1, WithFacts
  <2>4. Top(g).do # "record"
    BY <2>1
  <2> QED
    BY <1>1, <2>1, <2>2, <2>3, <2>4 DEF InModel
<1>3. CASE Filter(g) \/ List(g) \/ EachSubject(g)
  <2>1. PICK ts : Turns(g, ts) /\ UNCHANGED << subjects, types, Own, stored >>
    BY <1>3, FilterLeadsOn, ListLeadsOn, EachLeadsOn
  <2>2. Top(g).do # "record"
    BY <1>3 DEF Filter, List, EachSubject, Doing
  <2> QED
    BY <2>1, <2>2, StoredOnTurn
<1>4. CASE Record(g)
  <2>1. PICK ev \in EventType :
          /\ Top(g) = [do |-> "record", ev |-> ev]
          /\ Turns(g, << >>)
          /\ stored' = IF ev.op = "Delete" THEN stored \ {ev.res} ELSE stored \cup {ev.res}
          /\ UNCHANGED << subjects, types, Own >>
    BY <1>4, RecordDoes
  <2>2. Top(g).do = "record" /\ Top(g).ev = ev
    BY <2>1
  <2>3. ev.op = "Upsert" <=> ev.res \in InModel(subjects, types, Own)
    <3>1. Holds(Top(g), subjects, types, Own)
      BY <2>1, TopIsTask DEF TrueInv, Turns
    <3> QED
      BY <2>2, <3>1 DEF Holds
  <2>4. ev.res \in Subject \cup Type \cup FindingId /\ (ev.op = "Delete" <=> ev.op # "Upsert")
    BY DEF EventType
  <2>5. \A t : OnStack(t) => OnStack(t)' \/ t = Top(g)
    BY <2>1, TurnsTasks
  <2>6. \A r : r # ev.res => (r \in stored' <=> r \in stored)
    BY <2>1
  <2>7. ev.res \in stored' <=> ev.op = "Upsert"
    BY <2>1, <2>4
  <2>8. stored' \subseteq Subject \cup Type \cup FindingId
    BY <2>1, <2>4 DEF StoredInv
  <2> QED
    BY <2>1, <2>2, <2>3, <2>5, <2>6, <2>7, <2>8 DEF StoredInv, StoredNext
<1>5. CASE Check(g)
  <2>1. PICK x : Turns(g, << x >>) /\ UNCHANGED << subjects, types, Own, stored >>
    BY <1>5, CheckDoes
  <2>2. Top(g).do # "record"
    BY <1>5 DEF Check, Doing
  <2> QED
    BY <2>1, <2>2, StoredOnTurn
<1>6. CASE UpsertFinding(g)
  <2>1. PICK f \in Finding : /\ Top(g) = [do |-> "upsert", f |-> f]
                             /\ Own' = Own \cup {f}
                             /\ Turns(g, Emit(Event("Upsert", f, f)))
                             /\ UNCHANGED << subjects, types, stored >>
    BY <1>6, UpsertDoes
  <2>2. PICK ev \in EventType : ev = Event("Upsert", f, f) /\ ev.res = f
    BY FindingEventOf DEF FindingId
  <2>3. Top(g).do # "record"
    BY <2>1
  <2> QED
    BY <1>1, <2>1, <2>2, <2>3 DEF InModel
<1>7. CASE RemoveFinding(g)
  <2>1. PICK f \in Finding :
          /\ Top(g) = [do |-> "remove", f |-> f]
          /\ Own' = Own \ {f}
          /\ Turns(g, IF f \in DOMAIN findings THEN Emit(Event("Delete", f, None)) ELSE << >>)
          /\ UNCHANGED << subjects, types, stored >>
    BY <1>7, RemoveDoes
  <2>2. PICK ev \in EventType : ev = Event("Delete", f, None) /\ ev.res = f
    BY FindingEventOf DEF FindingId
  <2>3. Top(g).do # "record"
    BY <2>1
  <2>4. CASE f \in DOMAIN findings
    BY <1>1, <2>1, <2>2, <2>3, <2>4 DEF InModel
  <2>5. CASE f \notin DOMAIN findings
    <3>1. Own' = Own /\ Turns(g, << >>)
      BY <2>1, <2>5, OwnFacts
    <3> QED
      BY <2>1, <2>3, <3>1, StoredOnTurn
  <2> QED
    BY <2>4, <2>5
<1>8. CASE ReconcileFinding(g) \/ Recheck(g)
  <2>1. /\ (\E x : Turns(g, << x >>)) \/ Turns(g, << >>)
        /\ UNCHANGED << subjects, types, Own, stored >>
    BY <1>8, ReconcileDoes, RecheckDoes
  <2>2. Top(g).do # "record"
    BY <1>8 DEF ReconcileFinding, Recheck, Doing
  <2> QED
    BY <2>1, <2>2, StoredOnTurn
<1> QED
  BY <1>2, <1>3, <1>4, <1>5, <1>6, <1>7, <1>8 DEF Work

-----------------------------------------------------------------------------
(* The inductive invariant of a model that is changed by one call after    *)
(* the other.                                                              *)
AloneInv == Types /\ AddInv /\ TrueInv /\ FalseInv /\ MissingInv /\ StoredInv

(* It holds of an empty model.                                             *)
LEMMA AloneInvInit ==
  ASSUME Init
  PROVE  AloneInv
<1>1. stack \in [Goroutine -> Seq(Task)] /\ \A g \in Goroutine : stack[g] = << >>
  BY SeqMembers DEF Init
<1>2. \A t : ~ OnStack(t)
  BY <1>1 DEF OnStack, InSeq
<1>3. DOMAIN subjects = {} /\ types = {} /\ Own = {} /\ stored = {}
  BY DEF Init, Own
<1>4. Types
  BY <1>1, <1>3, LandscapeAssumption DEF Init, Types
<1>5. AddInv
  BY <1>1 DEF AddInv, AddsLast, InSeq
<1> QED
  BY <1>2, <1>3, <1>4, <1>5
  DEF AloneInv, TrueInv, FalseInv, MissingInv, StoredInv, Fails, InModel

(* Every step preserves it.                                                *)
LEMMA AloneInvStep ==
  ASSUME Alone, AloneInv, [Next]_vars
  PROVE  AloneInv'
<1>1. Types /\ AddInv /\ TrueInv /\ FalseInv /\ MissingInv /\ StoredInv
  BY DEF AloneInv
<1>2. Types'
  BY <1>1, StepKeepsTypes
<1>3. CASE Next
  <2>1. PICK g \in Goroutine : Operate(g) \/ Work(g)
    BY <1>3 DEF Next
  <2>2. /\ TrueNext /\ \A h \in Goroutine : AddsLast(stack'[h])
        /\ FalseNext /\ MissingNext /\ StoredNext
    <3>1. CASE Operate(g)
      BY <1>1, <3>1, CallKeepsTrue, CallKeepsFalse, CallKeepsMissing, CallKeepsStored
    <3>2. CASE Work(g)
      BY <1>1, <3>2, WorkKeepsTrue, WorkKeepsFalse, WorkKeepsMissing, WorkKeepsStored
    <3> QED
      BY <2>1, <3>1, <3>2
  <2>3. AddInv'
    BY <2>2 DEF AddInv
  <2>4. TrueInv'
    BY <2>2 DEF TrueNext, TrueInv
  <2>5. FalseInv'
    BY <2>2 DEF FalseNext, FalseInv
  <2>6. MissingInv'
    BY <2>2 DEF MissingNext, MissingInv
  <2>7. StoredInv'
    BY <2>2 DEF StoredNext, StoredInv
  <2> QED
    BY <1>2, <2>3, <2>4, <2>5, <2>6, <2>7 DEF AloneInv
<1>4. CASE UNCHANGED vars
  <2>1. UNCHANGED << subjects, types, Own, stored, stack >>
    BY <1>4, OwnFacts DEF vars, store
  <2>2. \A t : OnStack(t)' <=> OnStack(t)
    BY <2>1 DEF OnStack, InSeq
  <2>3. AddInv'
    BY <1>1, <2>1 DEF AddInv
  <2>4. TrueInv'
    BY <1>1, <2>1, <2>2 DEF TrueInv
  <2>5. FalseInv'
    BY <1>1, <2>1, <2>2 DEF FalseInv
  <2>6. MissingInv'
    BY <1>1, <2>1, <2>2 DEF MissingInv
  <2>7. StoredInv'
    BY <1>1, <2>1, <2>2 DEF StoredInv
  <2> QED
    BY <1>2, <2>3, <2>4, <2>5, <2>6, <2>7 DEF AloneInv
<1> QED
  BY <1>3, <1>4

(* Every finding has its derived id.                                       *)
AllOwn == DOMAIN findings \subseteq Own

(* The filter files a finding under its derived id only.                   *)
LEMMA AllOwnStep ==
  ASSUME Alone, Types, AllOwn, [Next]_vars
  PROVE  AllOwn'
<1>1. ASSUME findings' = findings PROVE AllOwn'
  BY <1>1, OwnFacts DEF AllOwn
<1>2. ASSUME NEW g \in Goroutine, Operate(g) PROVE AllOwn'
  <2>1. ~ PutsFinding(g) /\ ~ DropsFinding(g)
    BY DEF Alone, PutsFinding, DropsFinding
  <2>2. findings' = findings
    BY <1>2, <2>1, CallsDo DEF Puts, Drops, PutsType, DropsType, Prepares
  <2> QED
    BY <1>1, <2>2
<1>3. ASSUME NEW g \in Goroutine, Work(g) PROVE AllOwn'
  <2>1. CASE UpsertFinding(g)
    <3>1. PICK f \in Finding : findings' = Filing(f, f) /\ Own' = Own \cup {f}
      BY <2>1, UpsertDoes
    <3>2. DOMAIN findings' = DOMAIN findings \cup {f}
      BY <3>1, FilingFacts
    <3> QED
      BY <3>1, <3>2 DEF AllOwn
  <2>2. CASE RemoveFinding(g)
    <3>1. PICK f \in Finding : findings' = Dropping(f) /\ Own' = Own \ {f}
      BY <2>2, RemoveDoes
    <3>2. DOMAIN findings' = DOMAIN findings \ {f}
      BY <3>1, DroppingFacts
    <3> QED
      BY <3>1, <3>2 DEF AllOwn
  <2>3. CASE ~ UpsertFinding(g) /\ ~ RemoveFinding(g)
    <3>1. findings' = findings
      BY <1>3, <2>3
      DEF Work, AddPushed, Filter, Record, List, EachSubject, Check, ReconcileFinding,
          Recheck, store
    <3> QED
      BY <1>1, <3>1
  <2> QED
    BY <2>1, <2>2, <2>3
<1>4. CASE UNCHANGED vars
  BY <1>1, <1>4 DEF vars, store
<1> QED
  BY <1>2, <1>3, <1>4 DEF Next

(* So it holds always.                                                     *)
LEMMA AloneInvHolds ==
  ASSUME Alone
  PROVE  Spec => [](AloneInv /\ AllOwn)
<1>1. Init => AloneInv /\ AllOwn
  BY AloneInvInit DEF Init, AllOwn
<1>2. AloneInv /\ AllOwn /\ [Next]_vars => (AloneInv /\ AllOwn)'
  BY AloneInvStep, AllOwnStep DEF AloneInv
<1> QED
  BY <1>1, <1>2, PTL DEF Spec

(* Nobody in the middle of a call has no tasks.                            *)
LEMMA QuiescentTasks ==
  ASSUME Quiescent
  PROVE  \A t : ~ OnStack(t)
BY DEF Quiescent, Idle, OnStack, InSeq

(***************************************************************************)
(* Used by one goroutine, the model has exactly the findings that its      *)
(* subjects deserve whenever no call is under way, for every number of     *)
(* Contexts, Nodes and types and however they refer to one another.        *)
(***************************************************************************)
THEOREM FindingsAreExact ==
  ASSUME Alone
  PROVE  Spec => []FindingsExact
<1>1. AloneInv => FindingsExact
  <2> SUFFICES ASSUME AloneInv, Quiescent, NEW f \in Finding, Registered(f[1])
               PROVE  f \in Own <=> Failing(f)
    BY DEF FindingsExact
  <2>1. Failing(f) <=> Fails(f, subjects, types)
    BY FailsIsFailing
  <2>2. f \in Own => Failing(f)
    BY <2>1, QuiescentTasks DEF AloneInv, FalseInv, Fails, Registered
  <2>3. Failing(f) => f \in Own
    BY <2>1, QuiescentTasks DEF AloneInv, MissingInv
  <2> QED
    BY <2>2, <2>3
<1> QED
  BY <1>1, AloneInvHolds, PTL

(***************************************************************************)
(* And what the event manager takes to be live is what is in the model.    *)
(***************************************************************************)
THEOREM StoredIsTheModel ==
  ASSUME Alone
  PROVE  Spec => []StoredIsModel
<1>1. AloneInv /\ AllOwn => StoredIsModel
  <2> SUFFICES ASSUME AloneInv, AllOwn, Quiescent
               PROVE  stored = DOMAIN subjects \cup types \cup DOMAIN findings
    BY DEF StoredIsModel
  <2>1. \A r : r \in stored <=> r \in InModel(subjects, types, Own)
    BY QuiescentTasks DEF AloneInv, StoredInv
  <2>2. DOMAIN findings = Own
    BY OwnFacts DEF AllOwn
  <2> QED
    BY <2>1, <2>2 DEF InModel
<1> QED
  BY <1>1, AloneInvHolds, PTL

=============================================================================
