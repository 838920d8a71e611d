---------------------------- MODULE ResolveFindings ----------------------------
(***************************************************************************)
(* The resolve-findings filter (pkg/eventfilter/resolvefindings) and the   *)
(* index of findings by cited resource it works from (pkg/model/           *)
(* structure.go).  A finding lists its subject and the resources that were *)
(* found missing.  When a resource is added or changed, the filter looks   *)
(* up the findings that cite it and deletes those that it makes obsolete.  *)
(*                                                                         *)
(* The look-up, the check of each finding and its deletion take the        *)
(* model's mutex one after the other; meanwhile other goroutines change    *)
(* resources and findings.  A finding is replaced by a new object, never   *)
(* changed in place, so what was looked up may be out of date.             *)
(*                                                                         *)
(* Phase 0, which comes before this filter in the chain, is in Landscape;  *)
(* here its findings come and go like any others from outside.             *)
(***************************************************************************)
EXTENDS FiniteSets, Functions

CONSTANTS
  Goroutine,     (* that change resources                                  *)
  Resource,      (* resource ids, each of a resource of one type           *)
  FindingId,
  Content,       (* what findings say                                      *)
  None

(* A reference names a resource with its own type, with none, or with      *)
(* another.                                                                *)
Ref  == [id : Resource, type : {"own", "unknown", "other"}]

(* The kinds of phase 0, MissingResourceReference, and all others, known   *)
(* or not, which are treated alike.                                        *)
Kind == {"phase0", "missingReference", "other"}

(* Resources of a finding: the first is its subject, the rest are missing. *)
Finding == [kind : Kind, subject : Ref, missing : SUBSET Ref]

ASSUME FindingsAssumption ==
  /\ Content \subseteq Finding
  /\ None \notin Resource \cup FindingId

(* A resource is there with or without the reference it is required to     *)
(* have; one whose type requires none is bare.                             *)
Presence == {"absent", "bare", "linked"}

VARIABLES
  resources,
  findings,      (* findingsByUUID                                         *)
  index,         (* findingsByResourceID                                   *)
  call,          (* per goroutine: where in the filter it is               *)
  known          (* history: <<f, r>> if f was added when r was there, and *)
                 (* r was left alone since                                 *)

vars == << resources, findings, index, call, known >>

Candidate == [id : FindingId, finding : Finding]

Resting == [step |-> "idle", id |-> None, todo |-> {}, doomed |-> None]
Idle(g) == call[g].step = "idle"

Empty == [i \in {} |-> None]

Init ==
  /\ resources = [r \in Resource |-> "absent"]
  /\ findings = Empty
  /\ index = Empty
  /\ call = [g \in Goroutine |-> Resting]
  /\ known = {}

-----------------------------------------------------------------------------
(***************************************************************************)
(* The index.                                                              *)
(***************************************************************************)
Present(r) == resources[r] # "absent"

Entry(sets, r) == IF r \in DOMAIN sets THEN sets[r] ELSE {}
Indexed(r) == Entry(index, r)

(* findingCitedResourceIDs                                                 *)
Cited(x) == {ref.id : ref \in x.missing \cup {x.subject}}

NonEmpty(sets) == Restrict(sets, {r \in DOMAIN sets : sets[r] # {}})

Unindexed(f) ==
  IF f \in DOMAIN findings
  THEN NonEmpty([r \in DOMAIN index |-> IF r \in Cited(findings[f]) THEN index[r] \ {f} ELSE index[r]])
  ELSE index

(* Seeded fault: what a finding cited before is not taken out.             *)
IndexedOnTop(f, x) ==
  [r \in DOMAIN index \cup Cited(x) |-> IF r \in Cited(x) THEN Indexed(r) \cup {f} ELSE Indexed(r)]

IndexedAnew(f, x) ==
  LET old == Unindexed(f)
  IN  [r \in DOMAIN old \cup Cited(x) |->
         IF r \in Cited(x) THEN Entry(old, r) \cup {f} ELSE Entry(old, r)]

-----------------------------------------------------------------------------
(***************************************************************************)
(* Changes from outside.                                                   *)
(***************************************************************************)

(* A resource is added or replaced; its event goes through the filter.     *)
AddResource(g) ==
  /\ Idle(g)
  /\ \E r \in Resource, p \in Presence \ {"absent"} :
       /\ resources' = [resources EXCEPT ![r] = p]
       /\ call' = [call EXCEPT ![g] = [Resting EXCEPT !.step = "lookup", !.id = r]]
       /\ known' = {k \in known : k[2] # r}
  /\ UNCHANGED << findings, index >>

(* The filter does nothing about a Delete ...                              *)
DeleteResource ==
  \E r \in Resource :
    /\ Present(r)
    /\ resources' = [resources EXCEPT ![r] = "absent"]
    /\ known' = {k \in known : k[2] # r}
    /\ UNCHANGED << findings, index, call >>

(* ... nor about an event of a finding.                                    *)
AddFinding ==
  \E f \in FindingId, x \in Content :
    /\ findings' = [i \in DOMAIN findings \cup {f} |-> IF i = f THEN x ELSE findings[i]]
    /\ index' = IndexedAnew(f, x)
    /\ known' = {k \in known : k[1] # f} \cup {<< f, r >> : r \in {q \in Resource : Present(q)}}
    /\ UNCHANGED << resources, call >>

(* DeleteFindingById; of what is not there it is an error.                 *)
Without(f) ==
  /\ findings' = Restrict(findings, DOMAIN findings \ {f})
  /\ index' = Unindexed(f)
  /\ known' = {k \in known : k[1] # f}

DeleteFinding ==
  \E f \in DOMAIN findings : Without(f) /\ UNCHANGED << resources, call >>

-----------------------------------------------------------------------------
(***************************************************************************)
(* resolveAgainstEvent.                                                    *)
(***************************************************************************)
Candidates(r) ==
  {[id |-> f, finding |-> findings[f]] : f \in Indexed(r) \cap DOMAIN findings}

Lookup(g) ==
  /\ call[g].step = "lookup"
  /\ call' = [call EXCEPT ![g] = [@ EXCEPT !.step = "judge", !.todo = Candidates(call[g].id)]]
  /\ UNCHANGED << resources, findings, index, known >>

RefMatches(ref, r) == ref.id = r /\ ref.type \in {"own", "unknown"}

(* tryResolveDanglingRef: one of the missing resources is there now.       *)
DanglingResolved(x, r) == Present(r) /\ \E ref \in x.missing : RefMatches(ref, r)

(* tryResolveMissingResourceReference: the subject has its reference now.  *)
(* subjectHasRequiredRef goes by the type the finding gives the subject.   *)
ReferenceResolved(x, r) ==
  /\ x.kind = "missingReference"
  /\ RefMatches(x.subject, r)
  /\ x.subject.type = "own"
  /\ resources[r] = "linked"

(* Seeded fault: the second rule is for findings that cite nothing else.   *)
ResolvedByShape(x, r) ==
  /\ x.kind # "phase0"
  /\ IF x.missing # {} THEN DanglingResolved(x, r) ELSE ReferenceResolved(x, r)

Resolved(x, r) ==
  /\ x.kind # "phase0"
  /\ DanglingResolved(x, r) \/ ReferenceResolved(x, r)

Judged(g, c) ==
  IF Resolved(c.finding, call[g].id)
  THEN [call[g] EXCEPT !.todo = @ \ {c}, !.step = "delete", !.doomed = c.id]
  ELSE [call[g] EXCEPT !.todo = @ \ {c}]

(* The candidates are looked at in any order, as they were looked up.      *)
Judge(g) ==
  /\ call[g].step = "judge"
  /\ \E c \in call[g].todo : call' = [call EXCEPT ![g] = Judged(g, c)]
  /\ UNCHANGED << resources, findings, index, known >>

(* deleteFinding goes by the id.  What is gone is gone.                    *)
Delete(g) ==
  /\ call[g].step = "delete"
  /\ call' = [call EXCEPT ![g] = [@ EXCEPT !.step = "judge", !.doomed = None]]
  /\ IF call[g].doomed \in DOMAIN findings
     THEN Without(call[g].doomed)
     ELSE UNCHANGED << findings, index, known >>
  /\ UNCHANGED resources

Return(g) ==
  /\ call[g].step = "judge"
  /\ call[g].todo = {}
  /\ call' = [call EXCEPT ![g] = Resting]
  /\ UNCHANGED << resources, findings, index, known >>

Filter(g) == Lookup(g) \/ Judge(g) \/ Delete(g) \/ Return(g)

Next ==
  \/ DeleteResource \/ AddFinding \/ DeleteFinding
  \/ \E g \in Goroutine : AddResource(g) \/ Filter(g)

Spec == Init /\ [][Next]_vars

-----------------------------------------------------------------------------
(* The type invariant.                                                     *)
CallType ==
  [step : {"idle", "lookup", "judge", "delete"}, id : Resource \cup {None},
   todo : SUBSET Candidate, doomed : FindingId \cup {None}]

FindingsTypeOK ==
  /\ resources \in [Resource -> Presence]
  /\ DOMAIN findings \subseteq FindingId /\ findings \in [DOMAIN findings -> Content]
  /\ DOMAIN index \subseteq Resource
  /\ index \in [DOMAIN index -> (SUBSET FindingId) \ {{}}]
  /\ call \in [Goroutine -> CallType]
  /\ \A g \in Goroutine :
       /\ IF Idle(g) THEN call[g] = Resting ELSE call[g].id \in Resource
       /\ call[g].step = "delete" <=> call[g].doomed # None
  /\ known \subseteq FindingId \X Resource

(***************************************************************************)
(* "an index maintained on finding add/update/delete" (docs/findings.md):  *)
(* a resource has exactly those findings in the index that cite it.        *)
(***************************************************************************)
IndexExact ==
  \A r \in Resource :
    Indexed(r) = {f \in DOMAIN findings :
                    r = findings[f].subject.id \/ \E ref \in findings[f].missing : ref.id = r}

(* What makes a finding obsolete, if its subject is given with its type.   *)
Obsolete(x, r) ==
  /\ x.kind # "phase0"
  /\ \/ \E ref \in x.missing : ref.id = r /\ ref.type # "other" /\ resources[r] # "absent"
     \/ x.kind = "missingReference" /\ x.subject = [id |-> r, type |-> "own"]
          /\ resources[r] = "linked"

Coming(f, r) ==
  \E g \in Goroutine :
    /\ call[g].id = r
    /\ \/ call[g].step = "lookup"
       \/ [id |-> f, finding |-> findings[f]] \in call[g].todo
       \/ call[g].doomed = f

(***************************************************************************)
(* A finding that a resource has made obsolete is about to be looked at or *)
(* deleted by a goroutine that added or changed the resource, whatever     *)
(* others do to either meanwhile; but not if the resource was there first, *)
(* since the filter lets findings pass (resolvefindings.go:97).            *)
(***************************************************************************)
ResolutionIsComing ==
  \A f \in DOMAIN findings, r \in Resource :
    Obsolete(findings[f], r) => << f, r >> \in known \/ Coming(f, r)

(***************************************************************************)
(* "Findings that do not match any resolution rule are retained"           *)
(* (docs/findings.md): the filter deletes none that is not obsolete.       *)
(***************************************************************************)
OnlyResolvedDeleted ==
  [][\A g \in Goroutine :
       LET f == call[g].doomed IN
         Delete(g) /\ f \in DOMAIN findings => Obsolete(findings[f], call[g].id)]_vars

=============================================================================
