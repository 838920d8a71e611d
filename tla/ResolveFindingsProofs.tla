------------------------- MODULE ResolveFindingsProofs -------------------------
(***************************************************************************)
(* What ResolveFindings keeps for any goroutines, resources and findings.  *)
(***************************************************************************)
EXTENDS ResolveFindings, TLAPS

(* Taking a finding out of the index leaves an index without empty sets,   *)
(* in which the resources the finding cited do not have it any more.       *)
LEMMA UnindexedEntries ==
  ASSUME FindingsTypeOK, NEW f \in FindingId
  PROVE  /\ DOMAIN Unindexed(f) \subseteq DOMAIN index
         /\ Unindexed(f) \in [DOMAIN Unindexed(f) -> (SUBSET FindingId) \ {{}}]
         /\ \A r \in Resource :
              Entry(Unindexed(f), r) =
                IF f \in DOMAIN findings /\ r \in Cited(findings[f])
                THEN Indexed(r) \ {f} ELSE Indexed(r)
<1> USE DEF FindingsTypeOK
<1>1. CASE f \notin DOMAIN findings
  BY <1>1 DEF Unindexed, Indexed
<1>2. CASE f \in DOMAIN findings
  <2> DEFINE C == Cited(findings[f])
             less == [r \in DOMAIN index |-> IF r \in C THEN index[r] \ {f} ELSE index[r]]
             kept == {r \in DOMAIN less : less[r] # {}}
  <2>1. Unindexed(f) = [r \in kept |-> less[r]]
    BY <1>2 DEF Unindexed, NonEmpty, Restrict
  <2>2. \A r \in DOMAIN index : less[r] \in SUBSET FindingId
    OBVIOUS
  <2>3. DOMAIN Unindexed(f) = kept /\ kept \subseteq DOMAIN index
    BY <2>1
  <2>4. Unindexed(f) \in [kept -> (SUBSET FindingId) \ {{}}]
    BY <2>1, <2>2
  <2>5. ASSUME NEW r \in Resource
        PROVE  Entry(Unindexed(f), r) = IF r \in C THEN Indexed(r) \ {f} ELSE Indexed(r)
    <3>1. CASE r \notin DOMAIN index
      BY <2>3, <3>1 DEF Entry, Indexed
    <3>2. CASE r \in DOMAIN index
      <4>1. less[r] = IF r \in C THEN Indexed(r) \ {f} ELSE Indexed(r)
        BY <3>2 DEF Entry, Indexed
      <4>2. Entry(Unindexed(f), r) = less[r]
        BY <2>1, <2>3, <3>2 DEF Entry
      <4> QED
        BY <4>1, <4>2
    <3> QED
      BY <3>1, <3>2
  <2> QED
    BY <1>2, <2>3, <2>4, <2>5
<1> QED
  BY <1>1, <1>2

(* Indexing a finding anew, it is in the sets of the resources it cites,   *)
(* and in no others.                                                       *)
LEMMA IndexedEntries ==
  ASSUME FindingsTypeOK, NEW f \in FindingId, NEW x \in Content
  PROVE  /\ DOMAIN IndexedAnew(f, x) \subseteq Resource
         /\ IndexedAnew(f, x) \in [DOMAIN IndexedAnew(f, x) -> (SUBSET FindingId) \ {{}}]
         /\ \A r \in Resource :
              Entry(IndexedAnew(f, x), r) =
                IF r \in Cited(x) THEN Entry(Unindexed(f), r) \cup {f} ELSE Entry(Unindexed(f), r)
<1> DEFINE old == Unindexed(f)
           new == IndexedAnew(f, x)
<1>1. /\ DOMAIN old \subseteq Resource
      /\ old \in [DOMAIN old -> (SUBSET FindingId) \ {{}}]
  BY UnindexedEntries DEF FindingsTypeOK
<1>2. Cited(x) \subseteq Resource
  BY FindingsAssumption DEF Cited, Finding, Ref
<1>3. new = [r \in DOMAIN old \cup Cited(x) |->
               IF r \in Cited(x) THEN Entry(old, r) \cup {f} ELSE Entry(old, r)]
  BY DEF IndexedAnew
<1> HIDE DEF old, new
<1>4. \A r \in Resource : Entry(old, r) \in SUBSET FindingId
  BY <1>1 DEF Entry
<1>5. \A r \in DOMAIN old : Entry(old, r) \in (SUBSET FindingId) \ {{}}
  BY <1>1 DEF Entry
<1>6. DOMAIN new = DOMAIN old \cup Cited(x)
  BY <1>3
<1>7. \A r \in DOMAIN new : new[r] \in (SUBSET FindingId) \ {{}}
  BY <1>1, <1>2, <1>3, <1>4, <1>5, <1>6
<1>8. \A r \in Resource :
        Entry(new, r) = IF r \in Cited(x) THEN Entry(old, r) \cup {f} ELSE Entry(old, r)
  BY <1>3, <1>6 DEF Entry
<1>9. new \in [DOMAIN new -> (SUBSET FindingId) \ {{}}]
  BY <1>3, <1>6, <1>7
<1> QED
  BY <1>1, <1>2, <1>6, <1>8, <1>9 DEF old, new

(* What a step leaves of the types when it deletes a finding.              *)
LEMMA WithoutTypes ==
  ASSUME FindingsTypeOK, NEW f \in FindingId, Without(f)
  PROVE  /\ DOMAIN findings' \subseteq FindingId /\ findings' \in [DOMAIN findings' -> Content]
         /\ DOMAIN index' \subseteq Resource
         /\ index' \in [DOMAIN index' -> (SUBSET FindingId) \ {{}}]
         /\ known' \subseteq FindingId \X Resource
<1> USE DEF FindingsTypeOK
<1>1. DOMAIN findings' = DOMAIN findings \ {f} /\ \A i \in DOMAIN findings' : findings'[i] = findings[i]
  BY DEF Without, Restrict
<1>2. findings' = [i \in DOMAIN findings' |-> findings[i]]
  BY <1>1 DEF Without, Restrict
<1>3. index' = Unindexed(f)
  BY DEF Without
<1>4. known' \subseteq known
  BY DEF Without
<1> QED
  BY <1>1, <1>2, <1>3, <1>4, UnindexedEntries

(* The types are kept by every step.                                       *)
LEMMA TypeInvariant == Spec => []FindingsTypeOK
<1>1. Init => FindingsTypeOK
  BY DEF Init, FindingsTypeOK, CallType, Resting, Presence, Empty, Idle
<1>2. FindingsTypeOK /\ [Next]_vars => FindingsTypeOK'
  <2> SUFFICES ASSUME FindingsTypeOK, [Next]_vars PROVE FindingsTypeOK'
    OBVIOUS
  <2> USE DEF FindingsTypeOK
  <2>1. CASE DeleteResource
    BY <2>1 DEF DeleteResource, Presence, Idle
  <2>2. CASE AddFinding
    <3>1. PICK f \in FindingId, x \in Content :
            /\ findings' = [i \in DOMAIN findings \cup {f} |-> IF i = f THEN x ELSE findings[i]]
            /\ index' = IndexedAnew(f, x)
            /\ known' = {k \in known : k[1] # f}
                          \cup {<< f, r >> : r \in {q \in Resource : Present(q)}}
            /\ UNCHANGED << resources, call >>
      BY <2>2 DEF AddFinding
    <3>2. DOMAIN findings' \subseteq FindingId /\ findings' \in [DOMAIN findings' -> Content]
      BY <3>1
    <3>3. known' \subseteq FindingId \X Resource
      BY <3>1
    <3> QED
      BY <3>1, <3>2, <3>3, IndexedEntries DEF Idle
  <2>3. CASE DeleteFinding
    BY <2>3, WithoutTypes DEF DeleteFinding, Idle
  <2>4. ASSUME NEW g \in Goroutine, AddResource(g) PROVE FindingsTypeOK'
    <3>1. PICK r \in Resource, p \in Presence \ {"absent"} :
            /\ resources' = [resources EXCEPT ![r] = p]
            /\ call' = [call EXCEPT ![g] = [Resting EXCEPT !.step = "lookup", !.id = r]]
      BY <2>4 DEF AddResource
    <3>2. call'[g] = [step |-> "lookup", id |-> r, todo |-> {}, doomed |-> None]
      BY <3>1 DEF Resting
    <3>3. call' \in [Goroutine -> CallType]
      <4>1. [step |-> "lookup", id |-> r, todo |-> {}, doomed |-> None] \in CallType
        BY DEF CallType
      <4>2. \A h \in Goroutine : call'[h] \in CallType
        BY <3>1, <3>2, <4>1
      <4>3. call' = [h \in Goroutine |-> call'[h]]
        BY <3>1
      <4> QED
        BY <4>2, <4>3
    <3>4. \A h \in Goroutine :
            /\ IF call'[h].step = "idle" THEN call'[h] = Resting ELSE call'[h].id \in Resource
            /\ call'[h].step = "delete" <=> call'[h].doomed # None
      BY <3>1, <3>2 DEF Idle
    <3> QED
      BY <2>4, <3>1, <3>3, <3>4 DEF AddResource, Idle
  <2>5. ASSUME NEW g \in Goroutine, Lookup(g) PROVE FindingsTypeOK'
    <3> DEFINE new == [call[g] EXCEPT !.step = "judge", !.todo = Candidates(call[g].id)]
    <3>1. Candidates(call[g].id) \subseteq Candidate
      BY FindingsAssumption DEF Candidate, Candidates
    <3>2. new \in CallType /\ new.step = "judge" /\ new.id \in Resource /\ new.doomed = None
      BY <2>5, <3>1 DEF Lookup, CallType, Idle
    <3>3. call' = [call EXCEPT ![g] = new]
      BY <2>5 DEF Lookup
    <3> HIDE DEF new
    <3> QED
      BY <2>5, <3>2, <3>3 DEF Lookup, Idle
  <2>6. ASSUME NEW g \in Goroutine, Judge(g) PROVE FindingsTypeOK'
    <3>1. PICK c \in call[g].todo : call' = [call EXCEPT ![g] = Judged(g, c)]
      BY <2>6 DEF Judge
    <3>2. c.id \in FindingId /\ c.id # None
      BY FindingsAssumption DEF CallType, Candidate
    <3>3. call[g].step = "judge" /\ UNCHANGED << resources, findings, index, known >>
      BY <2>6 DEF Judge
    <3>4. /\ Judged(g, c) \in CallType /\ Judged(g, c).id \in Resource
          /\ Judged(g, c).step # "idle"
          /\ Judged(g, c).step = "delete" <=> Judged(g, c).doomed # None
      <4>1. CASE Resolved(c.finding, call[g].id)
        BY <3>2, <3>3, <4>1 DEF Judged, CallType, Idle
      <4>2. CASE ~ Resolved(c.finding, call[g].id)
        BY <3>3, <4>2 DEF Judged, CallType, Idle
      <4> QED
        BY <4>1, <4>2
    <3> QED
      BY <3>1, <3>3, <3>4 DEF Idle
  <2>7. ASSUME NEW g \in Goroutine, Delete(g) PROVE FindingsTypeOK'
    <3>1. call[g].doomed \in FindingId
      BY <2>7 DEF Delete, CallType
    <3>2. /\ call' \in [Goroutine -> CallType]
          /\ \A h \in Goroutine :
               /\ IF call'[h].step = "idle" THEN call'[h] = Resting ELSE call'[h].id \in Resource
               /\ call'[h].step = "delete" <=> call'[h].doomed # None
      <4> DEFINE new == [call[g] EXCEPT !.step = "judge", !.doomed = None]
      <4>1. call[g] \in CallType /\ call[g].id \in Resource
        BY <2>7 DEF Delete, Idle
      <4>2. new \in CallType /\ new.step = "judge" /\ new.id = call[g].id /\ new.doomed = None
        BY <4>1 DEF CallType
      <4>3. call' = [call EXCEPT ![g] = new]
        BY <2>7 DEF Delete
      <4> HIDE DEF new
      <4> QED
        BY <4>1, <4>2, <4>3 DEF Idle
    <3>3. CASE call[g].doomed \in DOMAIN findings
      BY <2>7, <3>1, <3>2, <3>3, WithoutTypes DEF Delete, Idle
    <3>4. CASE call[g].doomed \notin DOMAIN findings
      BY <2>7, <3>2, <3>4 DEF Delete, Idle
    <3> QED
      BY <3>3, <3>4
  <2>8. ASSUME NEW g \in Goroutine, Return(g) PROVE FindingsTypeOK'
    BY <2>8 DEF Return, CallType, Resting, Idle
  <2>9. CASE UNCHANGED vars
    BY <2>9 DEF vars, Idle
  <2> QED
    BY <2>1, <2>2, <2>3, <2>4, <2>5, <2>6, <2>7, <2>8, <2>9 DEF Next, Filter
<1> QED
  BY <1>1, <1>2, PTL DEF Spec

(***************************************************************************)
(* FindingsTypeOK for every value of the constants.                        *)
(***************************************************************************)
THEOREM FindingsTypeCorrect == Spec => []FindingsTypeOK
  BY TypeInvariant

-----------------------------------------------------------------------------
(* The index as IndexExact states it, by the model's own operators.        *)
LEMMA IndexExactEntries ==
  IndexExact <=>
    \A r \in Resource : Indexed(r) = {f \in DOMAIN findings : r \in Cited(findings[f])}
  BY DEF IndexExact, Cited

(* A finding that is taken out leaves an exact index.                      *)
LEMMA WithoutExact ==
  ASSUME FindingsTypeOK, IndexExact, NEW f \in DOMAIN findings, Without(f)
  PROVE  IndexExact'
<1>1. f \in FindingId
  BY DEF FindingsTypeOK
<1>2. DOMAIN findings' = DOMAIN findings \ {f} /\ \A i \in DOMAIN findings' : findings'[i] = findings[i]
  BY DEF Without, Restrict
<1>3. \A i \in DOMAIN findings' : Cited(findings[i])' = Cited(findings[i])
  BY <1>2 DEF Cited
<1>4. \A r \in Resource : Indexed(r)' = IF r \in Cited(findings[f]) THEN Indexed(r) \ {f} ELSE Indexed(r)
  BY <1>1, UnindexedEntries DEF Without, Indexed, Entry
<1>5. \A r \in Resource : Indexed(r) = {i \in DOMAIN findings : r \in Cited(findings[i])}
  BY IndexExactEntries
<1>6. ASSUME NEW r \in Resource
      PROVE  Indexed(r)' = {i \in DOMAIN findings' : r \in Cited(findings'[i])}
  <2>1. {i \in DOMAIN findings' : r \in Cited(findings'[i])}
          = {i \in DOMAIN findings : r \in Cited(findings[i])} \ {f}
    BY <1>2 DEF Cited
  <2> QED
    BY <1>4, <1>5, <2>1
<1> QED
  BY <1>6 DEF IndexExact, Cited

(***************************************************************************)
(* The index is exact, for any number of findings and of goroutines that   *)
(* add, replace and delete them.                                           *)
(***************************************************************************)
THEOREM IndexCorrect == Spec => []IndexExact
<1>1. Init => IndexExact
  BY DEF Init, IndexExact, Indexed, Entry, Empty
<1>2. FindingsTypeOK /\ IndexExact /\ [Next]_vars => IndexExact'
  <2> SUFFICES ASSUME FindingsTypeOK, IndexExact, [Next]_vars PROVE IndexExact'
    OBVIOUS
  <2>1. CASE AddFinding
    <3>1. PICK f \in FindingId, x \in Content :
            /\ findings' = [i \in DOMAIN findings \cup {f} |-> IF i = f THEN x ELSE findings[i]]
            /\ index' = IndexedAnew(f, x)
      BY <2>1 DEF AddFinding
    <3>2. \A r \in Resource :
            Indexed(r)' = IF r \in Cited(x) THEN Entry(Unindexed(f), r) \cup {f}
                                            ELSE Entry(Unindexed(f), r)
      BY <3>1, IndexedEntries DEF Indexed, Entry
    <3>3. \A r \in Resource : Entry(Unindexed(f), r) = Indexed(r) \ {f}
      BY UnindexedEntries, IndexExactEntries
    <3>4. ASSUME NEW r \in Resource
          PROVE  Indexed(r)' = {i \in DOMAIN findings' : r \in Cited(findings'[i])}
      <4>1. Indexed(r) = {i \in DOMAIN findings : r \in Cited(findings[i])}
        BY IndexExactEntries
      <4> QED
        BY <3>1, <3>2, <3>3, <4>1
    <3> QED
      BY <3>4 DEF IndexExact, Cited
  <2>2. CASE DeleteFinding
    BY <2>2, WithoutExact DEF DeleteFinding
  <2>3. ASSUME NEW g \in Goroutine, Delete(g) PROVE IndexExact'
    <3>1. CASE call[g].doomed \in DOMAIN findings
      BY <2>3, <3>1, WithoutExact DEF Delete
    <3>2. CASE call[g].doomed \notin DOMAIN findings
      BY <2>3, <3>2 DEF Delete, IndexExact, Indexed
    <3> QED
      BY <3>1, <3>2
  <2>4. CASE UNCHANGED << findings, index >>
    BY <2>4 DEF IndexExact, Indexed
  <2> QED
    BY <2>1, <2>2, <2>3, <2>4
    DEF Next, Filter, DeleteResource, AddResource, Lookup, Judge, Return, vars
<1> QED
  BY <1>1, <1>2, TypeInvariant, PTL DEF Spec

-----------------------------------------------------------------------------
(* What makes a finding obsolete is there, and cited by it; and the filter *)
(* takes the finding for resolved.                                         *)
LEMMA ObsoleteFacts ==
  ASSUME NEW x \in Content, NEW r \in Resource, Obsolete(x, r)
  PROVE  Present(r) /\ r \in Cited(x) /\ Resolved(x, r)
<1>1. \A ref \in x.missing : ref.type \in {"own", "unknown", "other"}
  BY FindingsAssumption DEF Finding, Ref
<1>2. CASE \E ref \in x.missing : ref.id = r /\ ref.type # "other" /\ resources[r] # "absent"
  BY <1>1, <1>2 DEF Obsolete, Present, Cited, Resolved, DanglingResolved, RefMatches
<1>3. CASE /\ x.kind = "missingReference" /\ x.subject = [id |-> r, type |-> "own"]
           /\ resources[r] = "linked"
  BY <1>3 DEF Obsolete, Present, Cited, Resolved, ReferenceResolved, RefMatches
<1> QED
  BY <1>2, <1>3 DEF Obsolete

(* A finding is as obsolete as it was, if neither it nor the resource      *)
(* changed, and still excused or about to be resolved if no goroutine took *)
(* a step that could forget it.                                            *)
LEMMA StillComing ==
  ASSUME NEW f, NEW r, NEW g \in Goroutine, findings'[f] = findings[f],
         \A h \in Goroutine \ {g} : call'[h] = call[h],
         \/ call[g].id # r
         \/ /\ call[g].step # "lookup"
            /\ [id |-> f, finding |-> findings[f]] \notin call[g].todo
            /\ call[g].doomed # f
         \/ /\ call'[g].id = r
            /\ \/ call'[g].step = "lookup"
               \/ [id |-> f, finding |-> findings[f]] \in call'[g].todo
               \/ call'[g].doomed = f,
         Coming(f, r)
  PROVE  Coming(f, r)'
  BY DEF Coming

(***************************************************************************)
(* ResolutionIsComing for every value of the constants: what is looked up  *)
(* may be out of date when it is judged, but a finding that was replaced   *)
(* meanwhile came when the resource was there, or else the resource is     *)
(* added later, by a goroutine that looks the finding up again.            *)
(***************************************************************************)
THEOREM ResolutionCorrect == Spec => []ResolutionIsComing
<1>1. Init => ResolutionIsComing
  BY DEF Init, ResolutionIsComing, Empty
<1>2. FindingsTypeOK /\ IndexExact /\ ResolutionIsComing /\ [Next]_vars => ResolutionIsComing'
  <2> SUFFICES ASSUME FindingsTypeOK, IndexExact, ResolutionIsComing, [Next]_vars,
                      NEW f \in DOMAIN findings', NEW r \in Resource, Obsolete(findings[f], r)'
               PROVE  << f, r >> \in known' \/ Coming(f, r)'
    BY DEF ResolutionIsComing
  <2>1. CASE DeleteResource
    <3>1. PICK q \in Resource : /\ resources' = [resources EXCEPT ![q] = "absent"]
                                /\ known' = {k \in known : k[2] # q}
                                /\ UNCHANGED << findings, index, call >>
      BY <2>1 DEF DeleteResource
    <3>2. r # q
      BY <3>1 DEF Obsolete, FindingsTypeOK
    <3>3. Obsolete(findings[f], r) /\ f \in DOMAIN findings
      BY <3>1, <3>2 DEF Obsolete, FindingsTypeOK
    <3>4. << f, r >> \in known \/ Coming(f, r)
      BY <3>3 DEF ResolutionIsComing
    <3> QED
      BY <3>1, <3>2, <3>4 DEF Coming
  <2>2. CASE AddFinding
    <3>1. PICK i \in FindingId, x \in Content :
            /\ findings' = [j \in DOMAIN findings \cup {i} |-> IF j = i THEN x ELSE findings[j]]
            /\ known' = {k \in known : k[1] # i}
                          \cup {<< i, q >> : q \in {q \in Resource : Present(q)}}
            /\ UNCHANGED << resources, call >>
      BY <2>2 DEF AddFinding
    <3>2. CASE f = i
      <4>1. Obsolete(x, r)
        BY <3>1, <3>2 DEF Obsolete
      <4> QED
        BY <3>1, <3>2, <4>1, ObsoleteFacts
    <3>3. CASE f # i
      <4>1. f \in DOMAIN findings /\ findings'[f] = findings[f]
        BY <3>1, <3>3
      <4>2. Obsolete(findings[f], r)
        BY <3>1, <4>1 DEF Obsolete
      <4>3. << f, r >> \in known \/ Coming(f, r)
        BY <4>1, <4>2 DEF ResolutionIsComing
      <4> QED
        BY <3>1, <3>3, <4>1, <4>3 DEF Coming
    <3> QED
      BY <3>2, <3>3
  <2>3. ASSUME NEW i \in DOMAIN findings, Without(i), UNCHANGED resources
        PROVE  /\ f # i /\ f \in DOMAIN findings /\ findings'[f] = findings[f]
               /\ << f, r >> \in known => << f, r >> \in known'
               /\ << f, r >> \in known \/ Coming(f, r)
    <3>1. DOMAIN findings' = DOMAIN findings \ {i} /\ findings'[f] = findings[f]
      BY <2>3 DEF Without, Restrict
    <3>2. Obsolete(findings[f], r)
      BY <2>3, <3>1 DEF Obsolete
    <3> QED
      BY <2>3, <3>1, <3>2 DEF Without, ResolutionIsComing
  <2>4. CASE DeleteFinding
    <3>1. PICK i \in DOMAIN findings : Without(i) /\ UNCHANGED << resources, call >>
      BY <2>4 DEF DeleteFinding
    <3> QED
      BY <2>3, <3>1 DEF Coming
  <2>5. ASSUME NEW g \in Goroutine, AddResource(g) PROVE << f, r >> \in known' \/ Coming(f, r)'
    <3>1. PICK q \in Resource, p \in Presence \ {"absent"} :
            /\ resources' = [resources EXCEPT ![q] = p]
            /\ call' = [call EXCEPT ![g] = [Resting EXCEPT !.step = "lookup", !.id = q]]
            /\ known' = {k \in known : k[2] # q}
      BY <2>5 DEF AddResource
    <3>2. call'[g].id = q /\ call'[g].step = "lookup"
      BY <3>1 DEF FindingsTypeOK, Resting
    <3>3. CASE r = q
      BY <3>2, <3>3 DEF Coming
    <3>4. CASE r # q
      <4>1. findings' = findings
        BY <2>5 DEF AddResource
      <4>2. Obsolete(findings[f], r)
        BY <3>1, <3>4, <4>1 DEF Obsolete, FindingsTypeOK
      <4>3. << f, r >> \in known \/ Coming(f, r)
        BY <4>1, <4>2 DEF ResolutionIsComing
      <4>4. call[g].id # r
        BY <2>5, FindingsAssumption DEF AddResource, FindingsTypeOK, Resting
      <4>5. \A h \in Goroutine \ {g} : call'[h] = call[h]
        BY <3>1 DEF FindingsTypeOK
      <4> QED
        BY <3>1, <3>4, <4>1, <4>3, <4>4, <4>5, StillComing
    <3> QED
      BY <3>3, <3>4
  <2>6. ASSUME NEW g \in Goroutine, UNCHANGED << resources, findings, index, known >>
        PROVE  /\ f \in DOMAIN findings /\ findings'[f] = findings[f]
               /\ Obsolete(findings[f], r)
               /\ << f, r >> \in known' \/ Coming(f, r)
    BY <2>6 DEF Obsolete, ResolutionIsComing
  <2>7. ASSUME NEW g \in Goroutine, Lookup(g) PROVE << f, r >> \in known' \/ Coming(f, r)'
    <3>1. UNCHANGED << resources, findings, index, known >>
      BY <2>7 DEF Lookup
    <3>2. /\ f \in DOMAIN findings /\ Obsolete(findings[f], r)
          /\ << f, r >> \in known' \/ Coming(f, r)
      BY <2>6, <3>1
    <3> DEFINE new == [call[g] EXCEPT !.step = "judge", !.todo = Candidates(call[g].id)]
    <3>3. call' = [call EXCEPT ![g] = new] /\ call[g].step = "lookup"
      BY <2>7 DEF Lookup
    <3>4. call'[g] = new /\ \A h \in Goroutine \ {g} : call'[h] = call[h]
      BY <3>3 DEF FindingsTypeOK
    <3>5. new.id = call[g].id /\ new.todo = Candidates(call[g].id)
      BY DEF FindingsTypeOK, CallType
    <3>6. findings[f] \in Content
      BY <3>2 DEF FindingsTypeOK
    <3>7. f \in Indexed(r)
      BY <3>2, <3>6, ObsoleteFacts, IndexExactEntries
    <3>8. [id |-> f, finding |-> findings[f]] \in Candidates(r)
      BY <3>2, <3>7 DEF Candidates
    <3> HIDE DEF new
    <3>9. CASE call[g].id = r
      BY <3>4, <3>5, <3>8, <3>9, <3>1 DEF Coming
    <3>10. CASE call[g].id # r
      BY <3>1, <3>2, <3>4, <3>10, StillComing
    <3> QED
      BY <3>9, <3>10
  <2>8. ASSUME NEW g \in Goroutine, Judge(g) PROVE << f, r >> \in known' \/ Coming(f, r)'
    <3>1. UNCHANGED << resources, findings, index, known >> /\ call[g].step = "judge"
      BY <2>8 DEF Judge
    <3>2. /\ f \in DOMAIN findings /\ Obsolete(findings[f], r)
          /\ << f, r >> \in known' \/ Coming(f, r)
      BY <2>6, <3>1
    <3>3. PICK c \in call[g].todo : call' = [call EXCEPT ![g] = Judged(g, c)]
      BY <2>8 DEF Judge
    <3>4. call'[g] = Judged(g, c) /\ \A h \in Goroutine \ {g} : call'[h] = call[h]
      BY <3>3 DEF FindingsTypeOK
    <3>5. /\ call'[g].id = call[g].id /\ call'[g].todo = call[g].todo \ {c}
          /\ Resolved(c.finding, call[g].id) => call'[g].doomed = c.id
      BY <3>4 DEF Judged, FindingsTypeOK, CallType
    <3>6. call[g].doomed # f
      BY <3>1, <3>2, FindingsAssumption DEF FindingsTypeOK
    <3>7. CASE call[g].id = r /\ c = [id |-> f, finding |-> findings[f]]
      <4>1. Resolved(findings[f], r)
        BY <3>2, ObsoleteFacts DEF FindingsTypeOK
      <4>2. call'[g].doomed = f
        BY <3>5, <3>7, <4>1
      <4> QED
        BY <3>5, <3>7, <4>2 DEF Coming
    <3>8. CASE ~ (call[g].id = r /\ c = [id |-> f, finding |-> findings[f]])
      BY <3>1, <3>2, <3>4, <3>5, <3>6, <3>8, StillComing
    <3> QED
      BY <3>7, <3>8
  <2>9. ASSUME NEW g \in Goroutine, Delete(g) PROVE << f, r >> \in known' \/ Coming(f, r)'
    <3> DEFINE new == [call[g] EXCEPT !.step = "judge", !.doomed = None]
    <3>1. call' = [call EXCEPT ![g] = new] /\ call[g].step = "delete"
      BY <2>9 DEF Delete
    <3>2. call'[g] = new /\ \A h \in Goroutine \ {g} : call'[h] = call[h]
      BY <3>1 DEF FindingsTypeOK
    <3>3. new.id = call[g].id /\ new.todo = call[g].todo
      BY DEF FindingsTypeOK, CallType
    <3> HIDE DEF new
    <3>4. CASE call[g].doomed \in DOMAIN findings
      <4>1. Without(call[g].doomed) /\ UNCHANGED resources
        BY <2>9, <3>4 DEF Delete
      <4>2. /\ f # call[g].doomed /\ findings'[f] = findings[f]
            /\ << f, r >> \in known => << f, r >> \in known'
            /\ << f, r >> \in known \/ Coming(f, r)
        BY <2>3, <3>4, <4>1
      <4> QED
        BY <3>1, <3>2, <3>3, <4>2, StillComing
    <3>5. CASE call[g].doomed \notin DOMAIN findings
      <4>1. UNCHANGED << resources, findings, index, known >>
        BY <2>9, <3>5 DEF Delete
      <4>2. f \in DOMAIN findings /\ (<< f, r >> \in known' \/ Coming(f, r))
        BY <2>6, <4>1
      <4>3. call[g].doomed # f
        BY <3>5, <4>2
      <4> QED
        BY <3>1, <3>2, <3>3, <4>1, <4>2, <4>3, StillComing
    <3> QED
      BY <3>4, <3>5
  <2>10. ASSUME NEW g \in Goroutine, Return(g) PROVE << f, r >> \in known' \/ Coming(f, r)'
    <3>1. /\ UNCHANGED << resources, findings, index, known >>
          /\ call[g].step = "judge" /\ call[g].todo = {}
          /\ call' = [call EXCEPT ![g] = Resting]
      BY <2>10 DEF Return
    <3>2. f \in DOMAIN findings /\ (<< f, r >> \in known' \/ Coming(f, r))
      BY <2>6, <3>1
    <3>3. call[g].doomed # f
      BY <3>1, <3>2, FindingsAssumption DEF FindingsTypeOK
    <3>4. \A h \in Goroutine \ {g} : call'[h] = call[h]
      BY <3>1 DEF FindingsTypeOK
    <3> QED
      BY <3>1, <3>2, <3>3, <3>4, StillComing
  <2>11. CASE UNCHANGED vars
    BY <2>11 DEF vars, Obsolete, ResolutionIsComing, Coming
  <2> QED
    BY <2>1, <2>2, <2>4, <2>5, <2>7, <2>8, <2>9, <2>10, <2>11 DEF Next, Filter
<1> QED
  BY <1>1, <1>2, TypeInvariant, IndexCorrect, PTL DEF Spec

=============================================================================
