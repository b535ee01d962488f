--------------------------- MODULE HardwareRecord ---------------------------
(***************************************************************************)
(* The papers of an Edge's hardware: facts are collected and sealed into a *)
(* discovery record, a candidate profile is made from the record, and a    *)
(* validation names the two and evaluates the hardware's requirements.     *)
(* Between those calls the papers are JSON kept by somebody else, who may  *)
(* alter or replace them.                                                  *)
(*                                                                         *)
(* A digest is the content it is computed from: SHA-256 is taken to have   *)
(* no collisions.  A record's facts are in the order of their factIds.     *)
(***************************************************************************)
EXTENDS Naturals, SequencesExt

CONSTANTS
  FactType, IdentityFact,     \* the types of facts; those that identify the device
  Requirement, RequiredFacts, \* the facts each requirement asks for
  Physical,                   \* requirements no evidence satisfies yet
  Capability, CapabilityFacts,
  AndroidCommand, Observes,   \* the collector's commands and what they observe
  Intake,                     \* [bound, facts, conflicts, missing]: what an intake declares
  Answer,                     \* what a command may print
  MaxRecords,                 \* bound: discoveries of the device
  Nothing                     \* no paper yet, no answer

ASSUME RequirementsAreOfFacts == \A id \in Requirement : RequiredFacts[id] \subseteq FactType

VARIABLES
  paper,      \* the discovery record as it is kept
  sealed,     \* history: the records as they were sealed
  profile,    \* the candidate profile as it is kept
  issued      \* the last evaluation or validation

recordVars == <<paper, sealed, profile, issued>>

\* The form tells a normalized value from one left as it was read.
Fact(type, kind, form, value, intact) ==
  [type |-> type, kind |-> kind, form |-> form, value |-> value, intact |-> intact]

\* VERIFIED, with valid evidence under a digest that says what it covers.
\* validateFact refuses a VALIDATED fact that is not VERIFIED.
HasValidEvidence(fact) == fact.kind = "VALIDATED" /\ fact.intact

FactsFor(facts, types) == {i \in DOMAIN facts : facts[i].type \in types}

CorrelationValueKey(fact) == <<fact.form, fact.value>>

\* Two facts of the type say something else: new Set(keys).size > 1.
Differ(facts, type) ==
  \E i, j \in FactsFor(facts, {type}) :
    CorrelationValueKey(facts[i]) # CorrelationValueKey(facts[j])

-----------------------------------------------------------------------------
\* The collector: each command is tried once; a failure leaves no fact.

Collect(answers) ==
  LET Line(c) == IF answers[c] = Nothing
                 THEN <<>> ELSE <<Fact(Observes[c], "OBSERVED", "NORMALIZED", answers[c], FALSE)>>
  IN FlattenSeq([n \in DOMAIN AndroidCommand |-> Line(AndroidCommand[n])])

\* What the commands ask for and none of them observed.
NotCollected(answers) ==
  {Observes[c] : c \in Range(AndroidCommand)}
    \ {Observes[c] : c \in {a \in Range(AndroidCommand) : answers[a] # Nothing}}

-----------------------------------------------------------------------------
\* The record.

CorrelateFacts(facts) == {t \in FactType : Differ(facts, t)}

\* The root covers the evidence of the facts, not their values.
CanonicalEvidenceRoot(facts) == [i \in DOMAIN facts |-> facts[i].intact]

\* What recordHash covers: everything but itself and sealedAt.
Covered == {"bound", "collector", "facts", "conflicts", "missing", "root"}

CanonicalRecord(record) == [f \in Covered |-> record[f]]

\* A content with the hash over it.
Hashed(content) ==
  [f \in DOMAIN content \cup {"hash"} |-> IF f = "hash" THEN content ELSE content[f]]

SealDiscoveryRecord(bound, collector, facts, conflicts, missing) ==
  LET content == [bound |-> bound, collector |-> collector, facts |-> facts,
                  conflicts |-> conflicts, missing |-> missing,
                  root |-> CanonicalEvidenceRoot(facts)]
  IN Hashed(content)

Keep(record) ==
  /\ Cardinality(sealed) < MaxRecords
  /\ paper' = record /\ sealed' = sealed \cup {record}
  /\ UNCHANGED <<profile, issued>>

\* An intake sealed as it is: nothing correlates its facts.
SealIntake(intake) ==
  Keep(SealDiscoveryRecord(intake.bound, "intake", intake.facts, intake.conflicts, intake.missing))

\* What a discovery lacks: what the intake or the collector missed, unless the
\* other has observed it.
StillMissing(intake, answers, facts) ==
  {t \in intake.missing \cup NotCollected(answers) : FactsFor(facts, {t}) = {}}

\* composeAndSealDiscovery: an intake and a collection, correlated.
ComposeAndSeal(intake, answers) ==
  LET facts == Collect(answers) \o intake.facts
  IN Keep(SealDiscoveryRecord(intake.bound, "composed", facts,
                              intake.conflicts \cup CorrelateFacts(facts),
                              StillMissing(intake, answers, facts)))

\* The evidence, and all the rest, as they were sealed.
IsIntact(record) ==
  /\ CanonicalEvidenceRoot(record.facts) = record.root
  /\ CanonicalRecord(record) = record.hash

-----------------------------------------------------------------------------
\* The evaluation.

\* Mutant: the conflicts the record declares are taken for all there are.
DeclaredConflicts(record, types) == types \cap record.conflicts

FactGroupsWithConflicts(record, types) ==
  {t \in types : t \in record.conflicts \/ Differ(record.facts, t)}

NonValidated(record, types) ==
  {t \in types : \A i \in FactsFor(record.facts, {t}) : ~HasValidEvidence(record.facts[i])}

EvaluateRequirement(id, record) ==
  LET types == RequiredFacts[id]
  IN IF \E t \in types : FactsFor(record.facts, {t}) = {} THEN "NOT_VERIFIABLE"
     ELSE IF FactGroupsWithConflicts(record, types) # {} THEN "NOT_SATISFIED"
     ELSE IF NonValidated(record, types) # {} \/ id \in Physical THEN "NOT_VERIFIABLE"
     ELSE "SATISFIED"

\* The requirements that are evaluated from facts; HC-004, HC-005 and HC-018 are
\* constants beside them.
Evaluation(record) ==
  [recordHash |-> record.hash,
   requirements |-> [id \in Requirement |-> EvaluateRequirement(id, record)]]

EvaluateHardwareCompatibility ==
  /\ paper # Nothing /\ IsIntact(paper)
  /\ issued' = [kind |-> "evaluation", compatibility |-> Evaluation(paper)]
  /\ UNCHANGED <<paper, sealed, profile>>

-----------------------------------------------------------------------------
\* The candidate profile.

ValidFacts(record, types) ==
  {i \in FactsFor(record.facts, types) : HasValidEvidence(record.facts[i])}

\* The profile compares values, whatever their form.
FactValues(facts, indexes) == {facts[i].value : i \in indexes}

IsDivergent(record) ==
  \/ \E t \in IdentityFact : Cardinality(FactValues(record.facts, FactsFor(record.facts, {t}))) > 1
  \/ \E c \in Capability :
       Cardinality(FactValues(record.facts, ValidFacts(record, CapabilityFacts[c]))) > 1

\* An identity is as good as its first observation.
SingleObservation(record, t) ==
  LET found == FactsFor(record.facts, {t})
  IN IF found # {} /\ HasValidEvidence(record.facts[Min(found)]) THEN "VALIDATED" ELSE "UNKNOWN"

CapabilityStatus(record, c) ==
  IF ValidFacts(record, CapabilityFacts[c]) = {} THEN "UNKNOWN" ELSE "VALIDATED"

\* profileHash covers all the rest of the profile.
HardwareProfile(record) ==
  LET content == [bound |-> record.bound, recordHash |-> record.hash, root |-> record.root,
                  identity |-> [t \in IdentityFact |-> SingleObservation(record, t)],
                  capabilities |-> [c \in Capability |-> CapabilityStatus(record, c)]]
  IN Hashed(content)

ProfileIsIntact(p) == [f \in DOMAIN p \ {"hash"} |-> p[f]] = p.hash

CreateHardwareProfile ==
  /\ paper # Nothing /\ paper.conflicts = {} /\ IsIntact(paper)
  /\ ~IsDivergent(paper)
  /\ profile' = HardwareProfile(paper)
  /\ UNCHANGED <<paper, sealed, issued>>

-----------------------------------------------------------------------------
\* The validation: an artifact that promotes nothing.

\* Mutant: the profile is taken for the discovery of its device.
NamesTheDevice(p, record) == p.bound = record.bound

NamesTheRecord(p, record) == p.recordHash = record.hash /\ p.root = record.root

IsCandidate(p, record) == ~p.bound /\ ProfileIsIntact(p) /\ NamesTheRecord(p, record)

FindingFor(id, record, evaluated) ==
  LET kinds == {record.facts[i].kind : i \in FactsFor(record.facts, RequiredFacts[id])}
  IN [status |-> IF "OBSERVED" \in kinds THEN "OBSERVED" ELSE "UNKNOWN",
      requirement |-> evaluated.requirements[id]]

CreateHardwareValidation ==
  /\ paper # Nothing /\ IsIntact(paper)
  /\ profile # Nothing /\ IsCandidate(profile, paper)
  /\ LET evaluated == Evaluation(paper)
         open == {id \in Requirement : evaluated.requirements[id] # "SATISFIED"}
     IN issued' = [kind |-> "validation", profile |-> profile, recordHash |-> paper.hash,
                       missing |-> paper.missing, compatibility |-> evaluated,
                       findings |-> [id \in open |-> FindingFor(id, paper, evaluated)]]
  /\ UNCHANGED <<paper, sealed, profile>>

-----------------------------------------------------------------------------
\* Whoever keeps the papers makes a fact of the record a validated one, with or
\* without the root that fits, strikes its conflicts, or reports another
\* capability of the profile as validated.  Bound: one alteration of each.

Alter ==
  /\ paper \in sealed
  /\ \/ \E i \in DOMAIN paper.facts :
          LET facts == [paper.facts EXCEPT ![i].kind = "VALIDATED", ![i].intact = TRUE]
          IN paper' \in {[paper EXCEPT !.facts = facts],
                         [paper EXCEPT !.facts = facts, !.root = CanonicalEvidenceRoot(facts)]}
     \/ paper' = [paper EXCEPT !.conflicts = {}]
  /\ UNCHANGED <<sealed, profile, issued>>

AlterProfile ==
  /\ profile # Nothing /\ ProfileIsIntact(profile)
  /\ \E c \in Capability : profile' = [profile EXCEPT !.capabilities[c] = "VALIDATED"]
  /\ UNCHANGED <<paper, sealed, issued>>

RecordInit ==
  paper = Nothing /\ sealed = {} /\ profile = Nothing /\ issued = Nothing

RecordNext ==
  \/ \E intake \in Intake : SealIntake(intake)
  \/ \E intake \in Intake, answers \in [Range(AndroidCommand) -> Answer \cup {Nothing}] :
       ComposeAndSeal(intake, answers)
  \/ EvaluateHardwareCompatibility
  \/ CreateHardwareProfile
  \/ CreateHardwareValidation
  \/ Alter
  \/ AlterProfile

RecordSpec == RecordInit /\ [][RecordNext]_recordVars

-----------------------------------------------------------------------------

\* A requirement is satisfied only by a record as it was sealed, in which each
\* fact it asks for has valid evidence and no two observations of it differ:
\* neither an altered paper nor a contradicted observation gets through.  It is
\* about the requirements that are evaluated from facts: HC-004, HC-005 and
\* HC-018, which the evaluator reports as satisfied whatever the record says, are
\* no Requirement here.
SatisfiedIsEvidenced ==
  issued # Nothing =>
    \E record \in sealed :
      /\ record.hash = issued.compatibility.recordHash
      /\ \A id \in Requirement : issued.compatibility.requirements[id] = "SATISFIED" =>
           \A t \in RequiredFacts[id] :
             /\ \E i \in FactsFor(record.facts, {t}) : HasValidEvidence(record.facts[i])
             /\ \A i, j \in FactsFor(record.facts, {t}) :
                  CorrelationValueKey(record.facts[i]) = CorrelationValueKey(record.facts[j])

\* A validation is about one discovery: the profile it names was made from the
\* sealed record it evaluates, neither was altered since, and a capability that
\* the profile reports as validated is not one the evaluation found
\* contradicted.  Only a composed discovery promises the last: in an intake that
\* was sealed as it is nothing was correlated, and the profile looks at the
\* validated facts alone.
ValidationsAreOfOneDiscovery ==
  (issued # Nothing /\ issued.kind = "validation") =>
    \E record \in sealed :
      /\ issued.profile = HardwareProfile(record)
      /\ issued.compatibility = Evaluation(record)
      /\ record.collector = "composed" =>
           \A c \in Capability, id \in Requirement :
             (/\ issued.profile.capabilities[c] = "VALIDATED"
              /\ RequiredFacts[id] = CapabilityFacts[c]) =>
                issued.compatibility.requirements[id] # "NOT_SATISFIED"

-----------------------------------------------------------------------------
\* The inductive invariant behind them.

IsFunctionOn(f, S) == f = [x \in S |-> f[x]]

RecordsAreSealed ==
  \A s \in sealed :
    /\ IsFunctionOn(s, Covered \cup {"hash"})
    /\ IsIntact(s)
    /\ s.collector = "composed" => CorrelateFacts(s.facts) \subseteq s.conflicts

\* Whatever becomes of the paper, its hash is still one that was sealed.
PaperWasSealed ==
  paper # Nothing =>
    /\ IsFunctionOn(paper, Covered \cup {"hash"})
    /\ \E s \in sealed : s.hash = paper.hash

ProfileField == {"hash", "bound", "recordHash", "root", "identity", "capabilities"}

\* And the profile's hash one of a profile that was made from a sealed record.
ProfileWasMade ==
  profile # Nothing =>
    \E s \in sealed :
      /\ s.conflicts = {}
      /\ IsFunctionOn(profile, ProfileField)
      /\ profile.hash = HardwareProfile(s).hash

RecordInvariant ==
  /\ RecordsAreSealed /\ PaperWasSealed /\ ProfileWasMade
  /\ SatisfiedIsEvidenced /\ ValidationsAreOfOneDiscovery
=============================================================================
