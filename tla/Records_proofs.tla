--------------------------- MODULE Records_proofs ---------------------------
(***************************************************************************)
(* Proofs about three components that keep records, for every value of     *)
(* their constants: the pre-award work on an opportunity (Preaward),       *)
(* recurring gifts (RecurringPlans) and donor automations                  *)
(* (DonorAutomations); and about the composition of these with workflows.  *)
(***************************************************************************)
EXTENDS MCRecords, WorkflowGate_proofs, Integers, WellFoundedInduction

(* Pre-award work.                                                         *)

(* A decision under way: the proposal is as it was read, or a later        *)
(* version; what is decided was submitted then.                            *)
DecisionIsKnown(s) ==
    LET now == proposal[s.number]
    IN  /\ now # NoProposal
        /\ s.read.version <= now.version
        /\ s.read.version = now.version => s.read = now
        /\ s.outcome \in Decided => s.read.outcome = "submitted"

DecisionsAreKnown ==
    \A o \in Officers : officer[o].pc = "deciding" => DecisionIsKnown(officer[o])

(* Grants are numbered in the order in which they are made.                *)
MadeInOrder == \E k \in 0..MaxGrants : Made = 1..k

(* A conversion that has made a grant, and what it has done to it.         *)
Converting(s) == s.pc \in {"submitting", "awarding", "linking"}

GrantIsKnown(s) ==
    /\ s.pc = "submitting" => grant[s.made] = "prospect"
    /\ s.pc = "awarding" => grant[s.made] = "submitted"
    /\ s.pc = "linking" => grant[s.made] = "awarded"

ConversionsAreKnown ==
    \A o \in Officers : GrantIsKnown(officer[o])

(* Nobody else touches the grant that a conversion has made.               *)
OneConverter ==
    \A o, q \in Officers :
        /\ Converting(officer[o]) /\ Converting(officer[q])
        /\ officer[o].made = officer[q].made
        => o = q

PreawardInv ==
    /\ PreawardTypeOK
    /\ DecisionsAreKnown
    /\ MadeInOrder
    /\ ConversionsAreKnown
    /\ OneConverter
    /\ LinkedGrantIsAwarded
-----------------------------------------------------------------------------
LEMMA OfficerTypes ==
    ASSUME PreawardTypeOK, NEW o \in Officers
    PROVE  /\ officer[o].pc = "drafting" => officer[o].number \in Proposals
           /\ officer[o].pc \in {"editing", "deciding"} =>
                 /\ officer[o].seen \in Opportunity
                 /\ officer[o].status \in OpportunityStatuses
           /\ officer[o].pc = "deciding" =>
                 /\ officer[o].number \in Proposals
                 /\ officer[o].read \in Proposal
                 /\ officer[o].outcome \in ProposalOutcomes
           /\ Converting(officer[o]) => officer[o].made \in Grants
BY DEF PreawardTypeOK, Officer, OfficerIdle, Converting

LEMMA ConstantTypes ==
    /\ MaxProposals \in Nat /\ MaxGrants \in Nat /\ MaxStops \in Nat
    /\ MaxVersion \in Nat /\ MaxVersion >= 1
BY PreawardConstantsOK

LEMMA Counts ==
    /\ IsFiniteSet(Drafted) /\ Cardinality(Drafted) \in Nat
    /\ IsFiniteSet(Made) /\ Cardinality(Made) \in Nat
<1>1. IsFiniteSet(Proposals) /\ IsFiniteSet(Grants)
  BY ConstantTypes, FS_Interval DEF Proposals, Grants
<1>2. Drafted \subseteq Proposals /\ Made \subseteq Grants
  BY DEF Drafted, Made
<1> QED
  BY <1>1, <1>2, FS_Subset, FS_CardinalityType

LEMMA PreawardInvInit == PreawardInit => PreawardInv
<1> SUFFICES ASSUME PreawardInit
             PROVE  PreawardInv
  OBVIOUS
<1>1. PreawardTypeOK
  BY ConstantTypes
     DEF PreawardInit, PreawardTypeOK, Opportunity, OpportunityStatuses
<1>2. MadeInOrder
  <2>1. Made = 1..0
    BY DEF Made, PreawardInit
  <2> QED
    BY <2>1, ConstantTypes DEF MadeInOrder
<1>3. \A o \in Officers : officer[o].pc = "idle"
  BY DEF PreawardInit, OfficerIdle
<1> QED
  BY <1>1, <1>2, <1>3
     DEF PreawardInv, DecisionsAreKnown, ConversionsAreKnown, GrantIsKnown, OneConverter,
         Converting, LinkedGrantIsAwarded, PreawardInit

(* The steps of one request, by what they may change.                      *)
Reads(o) ==
    \/ Draft(o)
    \/ \E status \in Edits : Edit(o, status)
    \/ \E n \in Proposals :
          \/ Submit(o, n)
          \/ \E outcome \in ProposalOutcomes : SetOutcome(o, n, outcome)
    \/ Convert(o)

Converts(o) == CreateGrant(o) \/ SubmitGrant(o) \/ AwardGrant(o) \/ Link(o)

LEMMA ReadsType ==
    ASSUME PreawardTypeOK, NEW o \in Officers, Reads(o)
    PROVE  /\ officer[o] = OfficerIdle
           /\ \E s \in Officer : officer' = [officer EXCEPT ![o] = s]
           /\ UNCHANGED <<opportunity, proposal, grant, stops>>
<1> USE DEF OfficerGoes
<1>1. CASE Draft(o)
  <2>1. Cardinality(Drafted) + 1 \in Proposals
    BY <1>1, Counts, ConstantTypes DEF Draft, Proposals
  <2>2. [pc |-> "drafting", number |-> Cardinality(Drafted) + 1] \in Officer
    BY <2>1 DEF Officer
  <2> QED
    BY <1>1, <2>2 DEF Draft
<1>2. ASSUME NEW status \in Edits, Edit(o, status)
      PROVE  /\ officer[o] = OfficerIdle
             /\ \E s \in Officer : officer' = [officer EXCEPT ![o] = s]
             /\ UNCHANGED <<opportunity, proposal, grant, stops>>
  <2>1. [pc |-> "editing", seen |-> opportunity, status |-> status] \in Officer
    BY PreawardConstantsOK DEF Officer, PreawardTypeOK
  <2> QED
    BY <1>2, <2>1 DEF Edit
<1>3. ASSUME NEW n \in Proposals, NEW outcome \in ProposalOutcomes,
             NEW status \in OpportunityStatuses, Decide(o, n, outcome, status)
      PROVE  /\ officer[o] = OfficerIdle
             /\ \E s \in Officer : officer' = [officer EXCEPT ![o] = s]
             /\ UNCHANGED <<opportunity, proposal, grant, stops>>
  <2>1. proposal[n] \in Proposal
    BY <1>3 DEF Decide, Drafted, PreawardTypeOK
  <2>2. [pc |-> "deciding", seen |-> opportunity, status |-> status,
         number |-> n, read |-> proposal[n], outcome |-> outcome] \in Officer
    BY <2>1 DEF Officer, PreawardTypeOK
  <2> QED
    BY <1>3, <2>2 DEF Decide
<1>4. \A outcome : Consequence(outcome) \in OpportunityStatuses
  <2>1. opportunity.status \in OpportunityStatuses
    BY DEF PreawardTypeOK, Opportunity
  <2> QED
    BY <2>1 DEF Consequence, OpportunityStatuses
<1>5. CASE Convert(o)
  <2>1. [pc |-> "creating"] \in Officer
    BY DEF Officer
  <2> QED
    BY <1>5, <2>1 DEF Convert
<1>6. "submitted" \in ProposalOutcomes /\ "submitted" \in OpportunityStatuses
  BY DEF ProposalOutcomes, OpportunityStatuses
<1> QED
  BY <1>1, <1>2, <1>3, <1>4, <1>5, <1>6 DEF Reads, Submit, SetOutcome

LEMMA Updates ==
    /\ \A row \in Opportunity, status \in OpportunityStatuses :
          row.version < MaxVersion =>
             [row EXCEPT !.status = status, !.version = @ + 1] \in Opportunity
    /\ \A row \in Opportunity, g \in Grants :
          row.version < MaxVersion =>
             [row EXCEPT !.link = g, !.version = @ + 1] \in Opportunity
<1>1. \A row \in Opportunity, status \in OpportunityStatuses :
         [row EXCEPT !.status = status] \in Opportunity
  BY DEF Opportunity
<1>2. \A row \in Opportunity, g \in Grants : [row EXCEPT !.link = g] \in Opportunity
  BY DEF Opportunity
<1>3. \A row \in Opportunity, v \in 0..MaxVersion :
         [row EXCEPT !.version = v] \in Opportunity
  BY DEF Opportunity
<1>4. \A row \in Opportunity : row.version < MaxVersion =>
         row.version + 1 \in 0..MaxVersion
  BY ConstantTypes DEF Opportunity
<1>5. ASSUME NEW row \in Opportunity, NEW status \in OpportunityStatuses,
             row.version < MaxVersion
      PROVE  [row EXCEPT !.status = status, !.version = @ + 1] \in Opportunity
  <2> DEFINE mid == [row EXCEPT !.status = status]
  <2>1. mid \in Opportunity
    BY <1>1
  <2>2. [row EXCEPT !.status = status, !.version = @ + 1]
           = [mid EXCEPT !.version = row.version + 1]
    BY DEF Opportunity
  <2> HIDE DEF mid
  <2> QED
    BY <1>3, <1>4, <1>5, <2>1, <2>2
<1>6. ASSUME NEW row \in Opportunity, NEW g \in Grants,
             row.version < MaxVersion
      PROVE  [row EXCEPT !.link = g, !.version = @ + 1] \in Opportunity
  <2> DEFINE mid == [row EXCEPT !.link = g]
  <2>1. mid \in Opportunity
    BY <1>2
  <2>2. [row EXCEPT !.link = g, !.version = @ + 1]
           = [mid EXCEPT !.version = row.version + 1]
    BY DEF Opportunity
  <2> HIDE DEF mid
  <2> QED
    BY <1>3, <1>4, <1>6, <2>1, <2>2
<1> QED
  BY <1>5, <1>6

(* What the commit of a change does to a proposal.                         *)
LEMMA ProposalEffect ==
    ASSUME PreawardTypeOK, NEW o \in Officers, CommitChange(o),
           NEW n \in Proposals
    PROVE  \/ proposal'[n] = proposal[n]
           \/ /\ officer[o].pc = "deciding"
              /\ officer[o].number = n
              /\ StillAsRead(o) /\ ProposalChanges(o)
              /\ proposal'[n] = [outcome |-> officer[o].outcome,
                                 version |-> proposal[n].version + 1]
              /\ proposal'[n] \in Proposal
              /\ proposal'[n].version = proposal[n].version + 1
<1>1. CASE StillAsRead(o) /\ ProposalChanges(o)
  <2>1. officer[o].pc = "deciding"
    BY <1>1 DEF ProposalChanges
  <2>2. CASE officer[o].number # n
    BY <1>1, <2>2 DEF CommitChange, PreawardTypeOK
  <2>3. CASE officer[o].number = n
    <3>1. /\ proposal[n].version < MaxVersion
          /\ proposal'[n] = [outcome |-> officer[o].outcome,
                             version |-> proposal[n].version + 1]
      BY <1>1, <2>1, <2>3 DEF CommitChange, PreawardTypeOK
    <3>2. officer[o].outcome \in ProposalOutcomes /\ officer[o].read \in Proposal
      BY <2>1, OfficerTypes
    <3>3. officer[o].read.version \in 0..MaxVersion
      BY <3>2 DEF Proposal
    <3>4. proposal[n].version = officer[o].read.version
      BY <1>1, <2>3 DEF StillAsRead
    <3>5. proposal[n].version + 1 \in 0..MaxVersion
      BY <3>1, <3>3, <3>4, ConstantTypes
    <3>6. proposal'[n] \in Proposal
      BY <3>1, <3>2, <3>5 DEF Proposal
    <3>7. proposal'[n].version = proposal[n].version + 1
      BY <3>1
    <3> QED
      BY <1>1, <2>1, <2>3, <3>1, <3>6, <3>7
  <2> QED
    BY <2>2, <2>3
<1>2. CASE ~(StillAsRead(o) /\ ProposalChanges(o))
  BY <1>2 DEF CommitChange
<1> QED
  BY <1>1, <1>2

LEMMA PreawardTypeNext ==
    PreawardTypeOK /\ [PreawardNext]_preawardVars => PreawardTypeOK'
<1> SUFFICES ASSUME PreawardTypeOK, [PreawardNext]_preawardVars
             PROVE  PreawardTypeOK'
  OBVIOUS
<1>1. ASSUME NEW o \in Officers, Reads(o)
      PROVE  PreawardTypeOK'
  BY <1>1, ReadsType DEF PreawardTypeOK
<1>2. ASSUME NEW o \in Officers, CommitDraft(o)
      PROVE  PreawardTypeOK'
  <2>1. [outcome |-> "draft", version |-> 1] \in Proposal
    BY ConstantTypes DEF Proposal, ProposalOutcomes
  <2> QED
    BY <1>2, <2>1 DEF CommitDraft, OfficerGoes, PreawardTypeOK
<1>3. ASSUME NEW o \in Officers, CommitChange(o)
      PROVE  PreawardTypeOK'
  <2>1. opportunity' \in Opportunity
    <3>1. officer[o].status \in OpportunityStatuses
      BY <1>3, OfficerTypes DEF CommitChange
    <3> QED
      BY <1>3, <3>1, Updates DEF CommitChange, PreawardTypeOK
  <2>2. ASSUME NEW n \in Proposals
        PROVE  proposal'[n] \in Proposal \cup {NoProposal}
    BY <1>3, ProposalEffect DEF PreawardTypeOK
  <2>3. proposal' = [n \in Proposals |-> proposal'[n]]
    BY <1>3 DEF CommitChange, PreawardTypeOK
  <2> QED
    BY <1>3, <2>1, <2>2, <2>3 DEF CommitChange, OfficerGoes, PreawardTypeOK
<1>4. ASSUME NEW o \in Officers, CreateGrant(o)
      PROVE  PreawardTypeOK'
  <2>1. [pc |-> "submitting", made |-> Cardinality(Made) + 1] \in Officer
    BY <1>4 DEF CreateGrant, Officer
  <2> QED
    BY <1>4, <2>1 DEF CreateGrant, OfficerGoes, PreawardTypeOK
<1>5. ASSUME NEW o \in Officers, SubmitGrant(o)
      PROVE  PreawardTypeOK'
  <2>1. officer[o].made \in Grants /\ officer[o] \in Officer
    BY <1>5, OfficerTypes DEF SubmitGrant, Converting, PreawardTypeOK, OfficerIdle
  <2>2. [officer[o] EXCEPT !.pc = "awarding"] \in Officer
    BY <1>5, <2>1 DEF SubmitGrant, Officer
  <2> QED
    BY <1>5, <2>1, <2>2 DEF SubmitGrant, OfficerGoes, PreawardTypeOK
<1>6. ASSUME NEW o \in Officers, AwardGrant(o)
      PROVE  PreawardTypeOK'
  <2>1. officer[o].made \in Grants /\ officer[o] \in Officer
    BY <1>6, OfficerTypes DEF AwardGrant, Converting, PreawardTypeOK, OfficerIdle
  <2>2. [officer[o] EXCEPT !.pc = "linking"] \in Officer
    BY <1>6, <2>1 DEF AwardGrant, Officer
  <2> QED
    BY <1>6, <2>1, <2>2 DEF AwardGrant, OfficerGoes, PreawardTypeOK
<1>7. ASSUME NEW o \in Officers, Link(o)
      PROVE  PreawardTypeOK'
  <2>1. officer[o].made \in Grants
    BY <1>7, OfficerTypes DEF Link, Converting
  <2> QED
    BY <1>7, <2>1, Updates DEF Link, Awarded, OfficerGoes, PreawardTypeOK
<1>8. ASSUME NEW o \in Officers, Stop(o)
      PROVE  PreawardTypeOK'
  BY <1>8, ConstantTypes DEF Stop, OfficerGoes, PreawardTypeOK
<1>9. CASE UNCHANGED preawardVars
  BY <1>9 DEF preawardVars, PreawardTypeOK
<1> QED
  BY <1>1, <1>2, <1>3, <1>4, <1>5, <1>6, <1>7, <1>8, <1>9
     DEF PreawardNext, Reads

(* A proposal changes only with its version.                               *)
LEMMA ProposalsNext ==
    ASSUME PreawardInv, [PreawardNext]_preawardVars, NEW n \in Proposals,
           proposal[n] # NoProposal
    PROVE  /\ proposal[n] \in Proposal
           /\ proposal'[n] # NoProposal
           /\ \/ proposal'[n] = proposal[n]
              \/ proposal'[n].version = proposal[n].version + 1
<1>1. proposal[n] \in Proposal /\ proposal'[n] \in Proposal \cup {NoProposal}
  BY PreawardTypeNext DEF PreawardInv, PreawardTypeOK
<1>2. ASSUME NEW o \in Officers, CommitDraft(o)
      PROVE  proposal'[n] = proposal[n]
  BY <1>2 DEF CommitDraft, Drafted, PreawardInv, PreawardTypeOK
<1>3. ASSUME NEW o \in Officers, CommitChange(o)
      PROVE  \/ proposal'[n] = proposal[n]
             \/ /\ proposal'[n] \in Proposal
                /\ proposal'[n].version = proposal[n].version + 1
  BY <1>3, ProposalEffect DEF PreawardInv
<1>4. ASSUME NEW o \in Officers,
             Reads(o) \/ CreateGrant(o) \/ SubmitGrant(o) \/ AwardGrant(o)
               \/ Link(o) \/ Stop(o)
      PROVE  proposal' = proposal
  BY <1>4, ReadsType DEF CreateGrant, SubmitGrant, AwardGrant, Link, Stop, PreawardInv
<1> QED
  BY <1>1, <1>2, <1>3, <1>4, NoProposalOK DEF PreawardNext, Reads, preawardVars

LEMMA DecisionsNext ==
    ASSUME PreawardInv, [PreawardNext]_preawardVars, NEW o \in Officers,
           officer'[o].pc = "deciding"
    PROVE  DecisionIsKnown(officer[o])'
<1>1. PreawardTypeOK
  BY DEF PreawardInv
<1>2. ASSUME NEW n \in Proposals, NEW outcome \in ProposalOutcomes,
             NEW status, Decide(o, n, outcome, status),
             outcome \in Decided => proposal[n].outcome = "submitted"
      PROVE  DecisionIsKnown(officer[o])'
  <2>1. proposal[n] \in Proposal /\ proposal[n] # NoProposal
    BY <1>1, <1>2 DEF Decide, Drafted, PreawardTypeOK
  <2>2. proposal[n].version \in 0..MaxVersion
    BY <2>1 DEF Proposal
  <2>3. /\ officer'[o].number = n /\ officer'[o].read = proposal[n]
        /\ officer'[o].outcome = outcome
        /\ proposal' = proposal
    BY <1>1, <1>2 DEF Decide, OfficerGoes, PreawardTypeOK
  <2>4. proposal[n].version <= proposal[n].version
    BY <2>2, ConstantTypes
  <2> QED
    BY <1>2, <2>1, <2>3, <2>4 DEF DecisionIsKnown
<1>3. CASE officer'[o] = officer[o]
  <2> DEFINE n == officer[o].number
             read == officer[o].read
  <2>1. officer[o].pc = "deciding"
    BY <1>3
  <2>2. n \in Proposals /\ read \in Proposal
    BY <1>1, <2>1, OfficerTypes
  <2>3. DecisionIsKnown(officer[o])
    BY <2>1 DEF PreawardInv, DecisionsAreKnown
  <2>4. /\ proposal[n] \in Proposal
        /\ proposal'[n] # NoProposal
        /\ proposal'[n] = proposal[n] \/ proposal'[n].version = proposal[n].version + 1
    BY <2>2, <2>3, ProposalsNext DEF DecisionIsKnown
  <2>5. proposal[n].version \in Nat /\ read.version \in Nat
    BY <2>2, <2>4, ConstantTypes DEF Proposal
  <2> QED
    BY <1>3, <2>3, <2>4, <2>5 DEF DecisionIsKnown
<1>4. ASSUME NEW status \in Edits, Edit(o, status)
      PROVE  officer'[o].pc = "editing"
  BY <1>1, <1>4 DEF Edit, OfficerGoes, PreawardTypeOK
<1>5. ASSUME NEW n \in Proposals, Submit(o, n)
      PROVE  DecisionIsKnown(officer[o])'
  BY <1>2, <1>5 DEF Submit, ProposalOutcomes, Decided
<1>6. ASSUME NEW n \in Proposals, NEW outcome \in ProposalOutcomes,
             SetOutcome(o, n, outcome)
      PROVE  DecisionIsKnown(officer[o])'
  BY <1>2, <1>6 DEF SetOutcome
<1>7. ASSUME Draft(o) \/ CommitDraft(o) \/ CommitChange(o) \/ Convert(o)
               \/ CreateGrant(o) \/ Link(o) \/ Stop(o)
      PROVE  officer'[o].pc \in {"idle", "drafting", "creating", "submitting"}
  BY <1>1, <1>7
     DEF Draft, CommitDraft, CommitChange, Convert, CreateGrant, Link, Stop,
         OfficerGoes, OfficerIdle, PreawardTypeOK
<1>8. ASSUME SubmitGrant(o) \/ AwardGrant(o)
      PROVE  officer'[o].pc \in {"awarding", "linking"}
  <2>1. officer[o] \in Officer /\ officer[o].pc \in {"submitting", "awarding"}
    BY <1>1, <1>8 DEF SubmitGrant, AwardGrant, OfficerIdle, PreawardTypeOK
  <2>2. \A pc : [officer[o] EXCEPT !.pc = pc].pc = pc
    BY <2>1 DEF Officer
  <2> QED
    BY <1>1, <1>8, <2>2 DEF SubmitGrant, AwardGrant, OfficerGoes, PreawardTypeOK
<1>9. ASSUME NEW q \in Officers, q # o,
             \/ Draft(q) \/ CommitDraft(q) \/ CommitChange(q) \/ Convert(q)
             \/ CreateGrant(q) \/ SubmitGrant(q) \/ AwardGrant(q) \/ Link(q)
             \/ Stop(q) \/ \E status \in Edits : Edit(q, status)
             \/ \E n \in Proposals :
                   \/ Submit(q, n)
                   \/ \E outcome \in ProposalOutcomes : SetOutcome(q, n, outcome)
      PROVE  officer'[o] = officer[o]
  BY <1>1, <1>9
     DEF Draft, CommitDraft, CommitChange, Convert, CreateGrant, SubmitGrant,
         AwardGrant, Link, Stop, Edit, Submit, SetOutcome, Decide, OfficerGoes,
         PreawardTypeOK
<1> QED
  BY <1>3, <1>4, <1>5, <1>6, <1>7, <1>8, <1>9 DEF PreawardNext, preawardVars
-----------------------------------------------------------------------------
(* The next grant has a number of its own.                                 *)
LEMMA NextNumber ==
    ASSUME MadeInOrder
    PROVE  /\ Cardinality(Made) + 1 \notin Made
           /\ Made \cup {Cardinality(Made) + 1} = 1..(Cardinality(Made) + 1)
           /\ Cardinality(Made) + 1 \in Grants =>
                 Cardinality(Made) + 1 \in 0..MaxGrants
<1>1. PICK k \in 0..MaxGrants : Made = 1..k
  BY DEF MadeInOrder
<1>2. k \in Nat /\ Cardinality(Made) = k
  BY <1>1, ConstantTypes, FS_Interval
<1> QED
  BY <1>1, <1>2, ConstantTypes DEF Grants

(* Steps that leave the grants and the link alone.                         *)
LEMMA QuietOfficers ==
    ASSUME PreawardInv, NEW o \in Officers,
           grant' = grant, opportunity'.link = opportunity.link,
           \A q \in Officers \ {o} : officer'[q] = officer[q],
           officer'[o] = officer[o] \/ ~Converting(officer'[o])
    PROVE  MadeInOrder' /\ ConversionsAreKnown' /\ OneConverter'
              /\ LinkedGrantIsAwarded'
<1>1. Made' = Made
  BY DEF Made
<1>2. \A q \in Officers : officer'[q] = officer[q] \/ ~Converting(officer'[q])
  OBVIOUS
<1>3. MadeInOrder'
  BY <1>1 DEF MadeInOrder, PreawardInv
<1>4. ConversionsAreKnown'
  BY <1>2 DEF ConversionsAreKnown, GrantIsKnown, Converting, PreawardInv
<1>5. OneConverter'
  BY <1>2 DEF OneConverter, Converting, PreawardInv
<1>6. LinkedGrantIsAwarded'
  BY DEF LinkedGrantIsAwarded, PreawardInv
<1> QED
  BY <1>3, <1>4, <1>5, <1>6

LEMMA GrantStep ==
    ASSUME PreawardInv, NEW o \in Officers, CreateGrant(o)
    PROVE  MadeInOrder' /\ ConversionsAreKnown' /\ OneConverter'
              /\ LinkedGrantIsAwarded'
<1> DEFINE g == Cardinality(Made) + 1
<1>1. /\ g \in Grants
      /\ grant' = [grant EXCEPT ![g] = "prospect"]
      /\ officer' = [officer EXCEPT ![o] = [pc |-> "submitting", made |-> g]]
      /\ opportunity' = opportunity
      /\ grant \in [Grants -> {"prospect", "submitted", "awarded", NoGrant}]
      /\ officer \in [Officers -> Officer \cup {OfficerIdle}]
      /\ PreawardTypeOK
  BY DEF CreateGrant, OfficerGoes, PreawardInv, PreawardTypeOK
<1>2. g \notin Made /\ Made \cup {g} = 1..g /\ g \in 0..MaxGrants
  BY <1>1, NextNumber DEF PreawardInv
<1>3. NoGrant \notin Grants \cup {"prospect", "submitted", "awarded"}
  BY PreawardConstantsOK
<1> HIDE DEF g
<1>4. MadeInOrder'
  <2>1. Made' = Made \cup {g}
    BY <1>1, <1>3 DEF Made
  <2> QED
    BY <1>2, <2>1 DEF MadeInOrder
<1>5. \A q \in Officers : Converting(officer[q]) => officer[q].made \in Made
  BY <1>1, <1>3, OfficerTypes
     DEF Made, Converting, PreawardInv, ConversionsAreKnown, GrantIsKnown
<1>6. ConversionsAreKnown' /\ OneConverter'
  <2>1. \A q \in Officers : Converting(officer[q]) =>
           /\ officer[q].made # g
           /\ grant'[officer[q].made] = grant[officer[q].made]
    BY <1>1, <1>2, <1>5, OfficerTypes
  <2>2. \A q \in Officers \ {o} : officer'[q] = officer[q]
    BY <1>1
  <2>3. /\ officer'[o].pc = "submitting" /\ officer'[o].made = g
        /\ grant'[g] = "prospect"
    BY <1>1
  <2>4. ConversionsAreKnown'
    BY <2>1, <2>2, <2>3 DEF ConversionsAreKnown, GrantIsKnown, Converting, PreawardInv
  <2>5. OneConverter'
    BY <2>1, <2>2, <2>3 DEF OneConverter, Converting, PreawardInv
  <2> QED
    BY <2>4, <2>5
<1>7. LinkedGrantIsAwarded'
  <2>1. opportunity.link # NoGrant => opportunity.link \in Made
    BY <1>1, <1>3 DEF PreawardInv, LinkedGrantIsAwarded, Made, Opportunity, PreawardTypeOK
  <2> QED
    BY <1>1, <1>2, <2>1 DEF PreawardInv, LinkedGrantIsAwarded, Made
<1> QED
  BY <1>4, <1>6, <1>7

(* A grant's next status, written by the conversion that made it.          *)
LEMMA AdvanceStep ==
    ASSUME PreawardInv, NEW o \in Officers, SubmitGrant(o) \/ AwardGrant(o)
    PROVE  MadeInOrder' /\ ConversionsAreKnown' /\ OneConverter'
              /\ LinkedGrantIsAwarded'
<1> DEFINE g == officer[o].made
<1>1. PreawardTypeOK
  BY DEF PreawardInv
<1>2. /\ g \in Grants /\ officer[o] \in Officer
      /\ Converting(officer[o])
      /\ grant[g] \in {"prospect", "submitted"}
  BY <1>1, OfficerTypes
     DEF SubmitGrant, AwardGrant, Converting, PreawardInv, ConversionsAreKnown,
         GrantIsKnown, PreawardTypeOK, OfficerIdle
<1>3. \A pc : /\ [officer[o] EXCEPT !.pc = pc].pc = pc
              /\ [officer[o] EXCEPT !.pc = pc].made = g
  BY <1>2 DEF Officer, Converting
<1>4. /\ \/ officer'[o].pc = "awarding" /\ grant'[g] = "submitted"
         \/ officer'[o].pc = "linking" /\ grant'[g] = "awarded"
      /\ officer'[o].made = g
      /\ \A h \in Grants \ {g} : grant'[h] = grant[h]
      /\ \A q \in Officers \ {o} : officer'[q] = officer[q]
      /\ opportunity' = opportunity
  <2>1. \E pc \in {"awarding", "linking"} :
           /\ officer' = [officer EXCEPT ![o] = [officer[o] EXCEPT !.pc = pc]]
           /\ pc = "awarding" => grant' = [grant EXCEPT ![g] = "submitted"]
           /\ pc = "linking" => grant' = [grant EXCEPT ![g] = "awarded"]
           /\ opportunity' = opportunity
    BY DEF SubmitGrant, AwardGrant, OfficerGoes
  <2> HIDE DEF g
  <2>2. officer \in [Officers -> Officer \cup {OfficerIdle}]
    BY <1>1 DEF PreawardTypeOK
  <2>3. grant \in [Grants -> {"prospect", "submitted", "awarded", NoGrant}]
    BY <1>1 DEF PreawardTypeOK
  <2> QED
    BY <1>2, <1>3, <2>1, <2>2, <2>3
<1>5. NoGrant \notin Grants \cup {"prospect", "submitted", "awarded"}
  BY PreawardConstantsOK
<1> HIDE DEF g
<1>6. MadeInOrder'
  <2>1. Made' = Made
    BY <1>2, <1>4, <1>5 DEF Made
  <2> QED
    BY <2>1 DEF MadeInOrder, PreawardInv
<1>7. \A q \in Officers \ {o} : Converting(officer[q]) =>
         /\ officer[q].made # g
         /\ grant'[officer[q].made] = grant[officer[q].made]
  <2>1. \A q \in Officers \ {o} : Converting(officer[q]) =>
           officer[q].made # g /\ officer[q].made \in Grants
    BY <1>1, <1>2, OfficerTypes DEF PreawardInv, OneConverter, g
  <2> QED
    BY <1>4, <2>1
<1>8. ConversionsAreKnown'
  BY <1>4, <1>7 DEF ConversionsAreKnown, GrantIsKnown, Converting, PreawardInv
<1>9. OneConverter'
  BY <1>4, <1>7 DEF OneConverter, Converting, PreawardInv
<1>10. LinkedGrantIsAwarded'
  <2>1. opportunity.link # NoGrant => opportunity.link \in Grants \ {g}
    BY <1>1, <1>2 DEF PreawardInv, LinkedGrantIsAwarded, Opportunity, PreawardTypeOK
  <2> QED
    BY <1>4, <2>1 DEF PreawardInv, LinkedGrantIsAwarded
<1> QED
  BY <1>6, <1>8, <1>9, <1>10

LEMMA LinkStep ==
    ASSUME PreawardInv, NEW o \in Officers, Link(o)
    PROVE  MadeInOrder' /\ ConversionsAreKnown' /\ OneConverter'
              /\ LinkedGrantIsAwarded'
<1>1. PreawardTypeOK
  BY DEF PreawardInv
<1>2. /\ grant' = grant
      /\ opportunity'.link = officer[o].made
      /\ grant[officer[o].made] = "awarded"
      /\ officer' = [officer EXCEPT ![o] = OfficerIdle]
  BY <1>1
     DEF Link, Awarded, OfficerGoes, Opportunity, PreawardTypeOK, PreawardInv,
         ConversionsAreKnown, GrantIsKnown
<1>3. \A q \in Officers : officer'[q] = officer[q] \/ ~Converting(officer'[q])
  BY <1>1, <1>2 DEF OfficerIdle, Converting, PreawardTypeOK
<1>4. MadeInOrder'
  BY <1>2 DEF MadeInOrder, Made, PreawardInv
<1>5. ConversionsAreKnown'
  BY <1>2, <1>3 DEF ConversionsAreKnown, GrantIsKnown, Converting, PreawardInv
<1>6. OneConverter'
  BY <1>3 DEF OneConverter, Converting, PreawardInv
<1>7. LinkedGrantIsAwarded'
  BY <1>2 DEF LinkedGrantIsAwarded
<1> QED
  BY <1>4, <1>5, <1>6, <1>7

LEMMA GrantsNext ==
    ASSUME PreawardInv, [PreawardNext]_preawardVars
    PROVE  MadeInOrder' /\ ConversionsAreKnown' /\ OneConverter'
              /\ LinkedGrantIsAwarded'
<1>1. PreawardTypeOK
  BY DEF PreawardInv
<1>2. ASSUME NEW o \in Officers, CommitDraft(o) \/ CommitChange(o) \/ Stop(o)
      PROVE  /\ grant' = grant /\ opportunity'.link = opportunity.link
             /\ \A q \in Officers \ {o} : officer'[q] = officer[q]
             /\ ~Converting(officer'[o])
  <2>1. opportunity'.link = opportunity.link
    BY <1>1, <1>2
       DEF CommitDraft, CommitChange, Stop, Opportunity, PreawardTypeOK
  <2> QED
    BY <1>1, <1>2, <2>1
       DEF CommitDraft, CommitChange, Stop, OfficerGoes, OfficerIdle, Converting,
           PreawardTypeOK
<1>3. ASSUME NEW o \in Officers, Draft(o) \/ Convert(o)
      PROVE  /\ grant' = grant /\ opportunity'.link = opportunity.link
             /\ \A q \in Officers \ {o} : officer'[q] = officer[q]
             /\ ~Converting(officer'[o])
  BY <1>1, <1>3 DEF Draft, Convert, OfficerGoes, Converting, PreawardTypeOK
<1>4. ASSUME NEW o \in Officers, NEW status \in Edits, Edit(o, status)
      PROVE  /\ grant' = grant /\ opportunity'.link = opportunity.link
             /\ \A q \in Officers \ {o} : officer'[q] = officer[q]
             /\ ~Converting(officer'[o])
  BY <1>1, <1>4 DEF Edit, OfficerGoes, Converting, PreawardTypeOK
<1>5. ASSUME NEW o \in Officers, NEW n, NEW outcome, NEW status,
             Decide(o, n, outcome, status)
      PROVE  /\ grant' = grant /\ opportunity'.link = opportunity.link
             /\ \A q \in Officers \ {o} : officer'[q] = officer[q]
             /\ ~Converting(officer'[o])
  BY <1>1, <1>5 DEF Decide, OfficerGoes, Converting, PreawardTypeOK
<1>6. ASSUME NEW o \in Officers, Reads(o)
      PROVE  /\ grant' = grant /\ opportunity'.link = opportunity.link
             /\ \A q \in Officers \ {o} : officer'[q] = officer[q]
             /\ ~Converting(officer'[o])
  BY <1>3, <1>4, <1>5, <1>6 DEF Reads, Submit, SetOutcome
<1>7. CASE UNCHANGED preawardVars
  BY <1>7
     DEF preawardVars, PreawardInv, MadeInOrder, Made, ConversionsAreKnown, GrantIsKnown,
         OneConverter, Converting, LinkedGrantIsAwarded
<1>8. ASSUME NEW o \in Officers,
             Reads(o) \/ CommitDraft(o) \/ CommitChange(o) \/ Stop(o)
      PROVE  MadeInOrder' /\ ConversionsAreKnown' /\ OneConverter'
                /\ LinkedGrantIsAwarded'
  BY <1>2, <1>6, <1>8, QuietOfficers
<1> QED
  BY <1>7, <1>8, GrantStep, AdvanceStep, LinkStep DEF PreawardNext, Reads

LEMMA PreawardInvNext == PreawardInv /\ [PreawardNext]_preawardVars => PreawardInv'
<1> SUFFICES ASSUME PreawardInv, [PreawardNext]_preawardVars
             PROVE  PreawardInv'
  OBVIOUS
<1>1. PreawardTypeOK'
  BY PreawardTypeNext DEF PreawardInv
<1>2. DecisionsAreKnown'
  BY DecisionsNext DEF DecisionsAreKnown
<1> QED
  BY <1>1, <1>2, GrantsNext DEF PreawardInv

LEMMA PreawardInvariance == PreawardSpec => []PreawardInv
BY PreawardInvInit, PreawardInvNext, PTL DEF PreawardSpec
-----------------------------------------------------------------------------
(* Every reachable state is well typed.                                    *)
THEOREM PreawardTypes == PreawardSpec => []PreawardTypeOK
BY PreawardInvariance, PTL DEF PreawardInv

(* The grant an opportunity is linked to has its award, whichever          *)
(* conversions overlap, break off or are started again.                    *)
THEOREM LinkIsSound == PreawardSpec => []LinkedGrantIsAwarded
BY PreawardInvariance, PTL DEF PreawardInv

(* A proposal is decided only from "submitted".                            *)
DecidedFromSubmitted ==
    \A n \in Drafted :
        \/ proposal'[n].outcome \notin Decided \ {proposal[n].outcome}
        \/ proposal[n].outcome = "submitted"

LEMMA DecidedStep ==
    PreawardInv /\ [PreawardNext]_preawardVars => DecidedFromSubmitted
<1> SUFFICES ASSUME PreawardInv, [PreawardNext]_preawardVars, NEW n \in Drafted
             PROVE  \/ proposal'[n].outcome \notin Decided \ {proposal[n].outcome}
                    \/ proposal[n].outcome = "submitted"
  BY DEF DecidedFromSubmitted
<1>1. PreawardTypeOK /\ n \in Proposals
  BY DEF PreawardInv, Drafted
<1>2. ASSUME NEW o \in Officers, CommitDraft(o)
      PROVE  proposal'[n] = proposal[n]
  BY <1>1, <1>2 DEF CommitDraft, Drafted, PreawardTypeOK
<1>3. ASSUME NEW o \in Officers, CommitChange(o)
      PROVE  \/ proposal'[n].outcome \notin Decided
             \/ proposal'[n] = proposal[n]
             \/ proposal[n].outcome = "submitted"
  <2>1. CASE /\ officer[o].pc = "deciding"
             /\ officer[o].number = n
             /\ StillAsRead(o) /\ ProposalChanges(o)
             /\ proposal'[n] = [outcome |-> officer[o].outcome,
                                version |-> proposal[n].version + 1]
    <3>1. DecisionIsKnown(officer[o])
      BY <2>1 DEF PreawardInv, DecisionsAreKnown
    <3>2. proposal[n] = officer[o].read
      BY <2>1, <3>1 DEF DecisionIsKnown, StillAsRead
    <3>3. proposal'[n].outcome = officer[o].outcome
      BY <2>1
    <3> QED
      BY <3>1, <3>2, <3>3 DEF DecisionIsKnown
  <2> QED
    BY <1>1, <1>3, <2>1, ProposalEffect
<1>4. ASSUME NEW o \in Officers,
             Reads(o) \/ CreateGrant(o) \/ SubmitGrant(o) \/ AwardGrant(o)
               \/ Link(o) \/ Stop(o)
      PROVE  proposal' = proposal
  BY <1>1, <1>4, ReadsType DEF CreateGrant, SubmitGrant, AwardGrant, Link, Stop
<1> QED
  BY <1>2, <1>3, <1>4 DEF PreawardNext, Reads, preawardVars

(* Of officers who decide one proposal at once, only the first is heard.   *)
THEOREM OnlySubmittedDecided == PreawardSpec => OnlySubmittedAreDecided
<1>1. PreawardInv /\ [PreawardNext]_preawardVars => [DecidedFromSubmitted]_preawardVars
  BY DecidedStep
<1>2. PreawardSpec => [][DecidedFromSubmitted]_preawardVars
  BY <1>1, PreawardInvariance, PTL DEF PreawardSpec
<1> QED
  BY <1>2 DEF OnlySubmittedAreDecided, DecidedFromSubmitted
-----------------------------------------------------------------------------
(* Recurring gifts.                                                        *)

(* What a run may have read.                                               *)
Copies == UNION {[due -> Plan] : due \in SUBSET Plans}

(* RecurringTypeOK, and that clerk is a function.                          *)
PlanTypes ==
    /\ today \in Days
    /\ plan \in [Plans -> Plan \cup {NoPlan}]
    /\ reachable \subseteq Plans
    /\ charges \in [Plans -> [Days -> Nat]]
    /\ clerk \in [Clerks -> Copies]

(* A copy is one of a plan that was due: the plan, or an earlier version.  *)
CopyIsKnown(p, seen) ==
    /\ plan[p] # NoPlan
    /\ seen.status = "active"
    /\ seen.next \in Days
    /\ seen.version <= plan[p].version
    /\ seen.version = plan[p].version => seen = plan[p]

(* The next charge is a day of the schedule.                               *)
NextIsScheduled ==
    \A p \in Plans : plan[p] # NoPlan =>
        /\ plan[p].first <= plan[p].next
        /\ (plan[p].next - plan[p].first) % Interval[p] = 0

RecurringInv ==
    /\ PlanTypes
    /\ \A c \in Clerks : \A p \in DOMAIN clerk[c] : CopyIsKnown(p, clerk[c][p])
    /\ NextIsScheduled
    /\ ChargesFollowSchedule
-----------------------------------------------------------------------------
LEMMA Division ==
    ASSUME NEW a \in Nat, NEW i \in Nat \ {0}
    PROVE  /\ a \div i \in Int
           /\ a % i \in Nat
           /\ a % i < i
           /\ a = i * (a \div i) + (a % i)
OBVIOUS

(* A multiple of i less than i away from 0 is 0.                           *)
LEMMA SmallMultiple ==
    ASSUME NEW i \in Nat \ {0}, NEW q \in Int, -i < i * q, i * q < i
    PROVE  q = 0
<1>1. CASE q >= 1
  <2>1. i * q >= i
    BY <1>1
  <2> QED
    BY <2>1
<1>2. CASE q <= -1
  <2>1. i * q <= -i
    BY <1>2
  <2> QED
    BY <2>1
<1> QED
  BY <1>1, <1>2

(* From one multiple of i to the one after it.                             *)
LEMMA NextMultiple ==
    ASSUME NEW i \in Nat \ {0}, NEW a \in Nat, a % i = 0
    PROVE  /\ (a + i) % i = 0
           /\ \A b \in a..(a + i - 1) : b % i = 0 => b = a
<1>1. a = i * (a \div i) /\ a \div i \in Int
  BY Division
<1>2. (a + i) % i = 0
  <2> DEFINE q == (a + i) \div i
             r == (a + i) % i
  <2>1. /\ q \in Int /\ r \in Nat /\ r < i
        /\ a + i = i * q + r
    BY Division
  <2> HIDE DEF q, r
  <2>2. r = i * ((a \div i) + 1 - q)
    BY <1>1, <2>1
  <2>3. (a \div i) + 1 - q = 0
    BY <1>1, <2>1, <2>2, SmallMultiple
  <2> QED
    BY <2>1, <2>2, <2>3 DEF r
<1>3. ASSUME NEW b \in a..(a + i - 1), b % i = 0
      PROVE  b = a
  <2>1. b \in Nat /\ b = i * (b \div i) /\ b \div i \in Int
    BY <1>3, Division
  <2>2. b - a = i * ((b \div i) - (a \div i))
    BY <1>1, <2>1
  <2>3. (b \div i) - (a \div i) = 0
    BY <1>1, <2>1, <2>2, SmallMultiple
  <2> QED
    BY <1>1, <2>1, <2>3
<1> QED
  BY <1>2, <1>3
(* How often a day is charged under a schedule, and what one more interval *)
(* adds.                                                                   *)
Scheduled(first, next, i, d) ==
    IF d \in first..(next - 1) /\ (d - first) % i = 0 THEN 1 ELSE 0

LEMMA OneMore ==
    ASSUME NEW f \in Nat, NEW n \in Nat, f <= n,
           NEW i \in Nat \ {0}, (n - f) % i = 0, NEW d \in Nat
    PROVE  Scheduled(f, n + i, i, d) =
              IF d = n THEN Scheduled(f, n, i, d) + 1 ELSE Scheduled(f, n, i, d)
<1>1. CASE d < n
  <2>1. d \in f..(n + i - 1) <=> d \in f..(n - 1)
    BY <1>1
  <2> QED
    BY <1>1, <2>1 DEF Scheduled
<1>2. CASE d = n
  <2>1. d \in f..(n + i - 1) /\ (d - f) % i = 0 /\ d \notin f..(n - 1)
    BY <1>2
  <2> QED
    BY <1>2, <2>1 DEF Scheduled
<1>3. CASE d > n
  <2>1. d \notin f..(n - 1)
    BY <1>3
  <2>2. ~(d \in f..(n + i - 1) /\ (d - f) % i = 0)
    <3> SUFFICES ASSUME d \in f..(n + i - 1), (d - f) % i = 0
                 PROVE  FALSE
      OBVIOUS
    <3>1. n - f \in Nat /\ d - f \in (n - f)..((n - f) + i - 1)
      BY <1>3
    <3>2. d - f = n - f
      BY <3>1, NextMultiple
    <3> QED
      BY <1>3, <3>2
  <2> QED
    BY <1>3, <2>1, <2>2 DEF Scheduled
<1> QED
  BY <1>1, <1>2, <1>3
-----------------------------------------------------------------------------
(* What a run has read are plans.                                          *)
LEMMA CopiesAre ==
    /\ NotRunning \in Copies /\ DOMAIN NotRunning = {}
    /\ \A f \in Copies : DOMAIN f \subseteq Plans /\ f \in [DOMAIN f -> Plan]
    /\ \A due \in SUBSET Plans : \A f \in [due -> Plan] : f \in Copies
<1>1. NotRunning \in [{} -> Plan]
  BY DEF NotRunning
<1> QED
  BY <1>1 DEF Copies

LEMMA RecurringInvInit == RecurringInit => RecurringInv
BY RecurringConstantsOK, CopiesAre
   DEF RecurringInit, RecurringInv, PlanTypes, NextIsScheduled,
       ChargesFollowSchedule, Days

LEMMA ClerkReads ==
    ASSUME PlanTypes, NEW c \in Clerks
    PROVE  /\ DOMAIN clerk[c] \subseteq Plans
           /\ clerk[c] \in [DOMAIN clerk[c] -> Plan]
BY CopiesAre DEF PlanTypes

(* A plan whose row a run may write is as the run read it.                 *)
LEMMA UnopposedCopy ==
    ASSUME RecurringInv, NEW c \in Clerks, Unopposed(c), NEW p \in DOMAIN clerk[c]
    PROVE  /\ p \in Plans /\ plan[p] \in Plan
           /\ clerk[c][p] = plan[p]
           /\ plan[p].status = "active"
           /\ plan[p].next \in Days
BY ClerkReads DEF RecurringInv, CopyIsKnown, Unopposed, PlanTypes

(* An update of one or of two columns keeps a plan a plan.                 *)
LEMMA OneColumn ==
    ASSUME NEW row \in Plan, NEW n \in Nat
    PROVE  /\ [row EXCEPT !.status = "failed"] \in Plan
           /\ [row EXCEPT !.next = n] \in Plan
           /\ [row EXCEPT !.version = n] \in Plan
BY DEF Plan

FailedRow(row) == [row EXCEPT !.status = "failed", !.version = @ + 1]

ChargedRow(row, i) == [row EXCEPT !.next = @ + i, !.version = @ + 1]

LEMMA Failed ==
    ASSUME NEW row \in Plan
    PROVE  /\ FailedRow(row) \in Plan
           /\ FailedRow(row).version = row.version + 1
           /\ FailedRow(row).first = row.first
           /\ FailedRow(row).next = row.next
<1> DEFINE mid == [row EXCEPT !.status = "failed"]
<1>1. mid \in Plan
  BY OneColumn
<1>2. /\ FailedRow(row) = [mid EXCEPT !.version = row.version + 1]
      /\ row.version + 1 \in Nat
  BY DEF Plan, FailedRow
<1>3. FailedRow(row) \in Plan
  <2> HIDE DEF mid
  <2> QED
    BY <1>1, <1>2, OneColumn
<1> QED
  BY <1>3 DEF Plan, FailedRow

LEMMA Charged ==
    ASSUME NEW row \in Plan, NEW i \in Nat
    PROVE  /\ ChargedRow(row, i) \in Plan
           /\ ChargedRow(row, i).version = row.version + 1
           /\ ChargedRow(row, i).first = row.first
           /\ ChargedRow(row, i).next = row.next + i
<1> DEFINE mid == [row EXCEPT !.next = row.next + i]
<1>1. mid \in Plan
  BY OneColumn DEF Plan
<1>2. /\ ChargedRow(row, i) = [mid EXCEPT !.version = row.version + 1]
      /\ row.version + 1 \in Nat
  BY DEF Plan, ChargedRow
<1>3. ChargedRow(row, i) \in Plan
  <2> HIDE DEF mid
  <2> QED
    BY <1>1, <1>2, OneColumn
<1> QED
  BY <1>3 DEF Plan, ChargedRow

(* What the commit of a run does to a plan and its charges.                *)
LEMMA CommitEffect ==
    ASSUME RecurringInv, NEW c \in Clerks, CommitRun(c), NEW p \in Plans
    PROVE  \/ /\ plan'[p] = plan[p]
              /\ charges'[p] = charges[p]
           \/ /\ plan[p] \in Plan
              /\ plan[p].status = "active"
              /\ plan[p].next \in Days
              /\ plan'[p] \in Plan
              /\ plan'[p].version = plan[p].version + 1
              /\ plan'[p].first = plan[p].first
              /\ \/ /\ plan'[p].next = plan[p].next
                    /\ charges'[p] = charges[p]
                 \/ /\ plan'[p].next = plan[p].next + Interval[p]
                    /\ charges'[p] =
                          [charges[p] EXCEPT ![plan[p].next] = @ + 1]
<1>1. CASE p \notin DOMAIN clerk[c]
  BY <1>1 DEF CommitRun, RecurringInv, PlanTypes
<1>2. CASE p \in DOMAIN clerk[c]
  <2>1. /\ clerk[c][p] = plan[p] /\ plan[p] \in Plan
        /\ plan[p].status = "active" /\ plan[p].next \in Days
    BY <1>2, UnopposedCopy DEF CommitRun
  <2>2. plan'[p] = Processed(p, plan[p])
    BY <1>2, <2>1 DEF CommitRun
  <2>3. CASE p \in reachable
    <3>1. charges'[p] = [charges[p] EXCEPT ![plan[p].next] = @ + 1]
      BY <1>2, <2>1, <2>3 DEF CommitRun, RecurringInv, PlanTypes
    <3>2. plan'[p] = ChargedRow(plan[p], Interval[p])
      BY <2>2, <2>3 DEF Processed, NextCharge, ChargedRow
    <3>3. Interval[p] \in Nat
      BY RecurringConstantsOK
    <3>4. /\ plan'[p] \in Plan
          /\ plan'[p].version = plan[p].version + 1
          /\ plan'[p].first = plan[p].first
          /\ plan'[p].next = plan[p].next + Interval[p]
      BY <2>1, <3>2, <3>3, Charged
    <3> QED
      BY <2>1, <3>1, <3>4
  <2>4. CASE p \notin reachable
    <3>1. charges'[p] = charges[p]
      BY <1>2, <2>4 DEF CommitRun, RecurringInv, PlanTypes
    <3>2. plan'[p] = FailedRow(plan[p])
      BY <2>2, <2>4 DEF Processed, FailedRow
    <3>3. /\ plan'[p] \in Plan
          /\ plan'[p].version = plan[p].version + 1
          /\ plan'[p].first = plan[p].first
          /\ plan'[p].next = plan[p].next
      BY <2>1, <3>2, Failed
    <3> QED
      BY <2>1, <3>1, <3>3
  <2> QED
    BY <2>3, <2>4
<1> QED
  BY <1>1, <1>2

(* A run takes, and keeps, what it read.                                   *)
LEMMA StartType ==
    ASSUME PlanTypes, NEW c \in Clerks, StartRun(c)
    PROVE  /\ \A p \in Plans : IsDue(p) => plan[p] \in Plan
           /\ PlanTypes'
<1>1. \A p \in Plans : IsDue(p) => plan[p] \in Plan
  BY DEF IsDue, PlanTypes
<1>2. [p \in {q \in Plans : IsDue(q)} |-> plan[p]] \in Copies
  BY <1>1, CopiesAre
<1> QED
  BY <1>1, <1>2 DEF StartRun, PlanTypes

LEMMA RecurringTypeNext == RecurringInv /\ [RecurringNext]_recurringVars => PlanTypes'
<1> SUFFICES ASSUME RecurringInv, [RecurringNext]_recurringVars
             PROVE  PlanTypes'
  OBVIOUS
<1> USE DEF RecurringInv
<1>1. CASE NextDay
  BY <1>1, RecurringConstantsOK DEF NextDay, PlanTypes, Days
<1>2. ASSUME NEW p \in Plans, CreatePlan(p)
      PROVE  PlanTypes'
  <2>1. /\ Interval[p] \in Nat
        /\ today \in Nat
    BY RecurringConstantsOK DEF PlanTypes, Days
  <2>2. [status |-> "active", first |-> today + Interval[p],
         next |-> today + Interval[p], version |-> 1] \in Plan
    BY <2>1 DEF Plan
  <2> QED
    BY <1>2, <2>2 DEF CreatePlan, PlanTypes
<1>3. ASSUME NEW p \in Plans, ContactChanges(p)
      PROVE  PlanTypes'
  BY <1>3 DEF ContactChanges, PlanTypes
<1>4. ASSUME NEW c \in Clerks, StartRun(c)
      PROVE  PlanTypes'
  BY <1>4, StartType
<1>5. ASSUME NEW c \in Clerks, CommitRun(c)
      PROVE  PlanTypes'
  <2>1. \A p \in Plans : plan'[p] \in Plan \cup {NoPlan}
    BY <1>5, CommitEffect DEF PlanTypes
  <2>2. \A p \in Plans : charges'[p] \in [Days -> Nat]
    BY <1>5 DEF CommitRun, PlanTypes
  <2> QED
    BY <1>5, <2>1, <2>2, CopiesAre DEF CommitRun, PlanTypes
<1>6. ASSUME NEW c \in Clerks, RunFails(c)
      PROVE  PlanTypes'
  BY <1>6, CopiesAre DEF RunFails, PlanTypes
<1> QED
  BY <1>1, <1>2, <1>3, <1>4, <1>5, <1>6
     DEF RecurringNext, PlanTypes, recurringVars

(* A row changes only with its version.                                    *)
LEMMA CopiesNext ==
    ASSUME RecurringInv, [RecurringNext]_recurringVars
    PROVE  (\A c \in Clerks : \A p \in DOMAIN clerk[c] :
               CopyIsKnown(p, clerk[c][p]))'
<1> USE DEF RecurringInv
<1>1. \A p \in Plans :
         plan[p] # NoPlan =>
            /\ plan'[p] # NoPlan
            /\ plan[p].version \in Nat
            /\ \/ plan'[p] = plan[p]
               \/ plan'[p].version = plan[p].version + 1
  <2> SUFFICES ASSUME NEW p \in Plans, plan[p] # NoPlan
               PROVE  /\ plan'[p] # NoPlan
                      /\ plan[p].version \in Nat
                      /\ \/ plan'[p] = plan[p]
                         \/ plan'[p].version = plan[p].version + 1
    OBVIOUS
  <2>1. plan[p] \in Plan /\ plan[p].version \in Nat
    BY DEF PlanTypes, Plan
  <2>2. \A c \in Clerks : CommitRun(c) =>
           \/ plan'[p] = plan[p]
           \/ plan'[p] \in Plan /\ plan'[p].version = plan[p].version + 1
    BY CommitEffect
  <2> QED
    BY <2>1, <2>2, NoPlanOK
       DEF RecurringNext, recurringVars, NextDay, CreatePlan, ContactChanges,
           StartRun, RunFails, PlanTypes
<1>2. ASSUME NEW c \in Clerks, NEW p \in DOMAIN clerk'[c]
      PROVE  \/ /\ p \in DOMAIN clerk[c]
                /\ clerk'[c][p] = clerk[c][p]
             \/ /\ IsDue(p)
                /\ p \in Plans
                /\ clerk'[c][p] = plan[p]
                /\ plan' = plan
  <2>1. ASSUME NEW d \in Clerks, StartRun(d)
        PROVE  \/ clerk'[c] = clerk[c]
               \/ /\ clerk'[c] = [q \in {r \in Plans : IsDue(r)} |-> plan[q]]
                  /\ plan' = plan
    BY <2>1 DEF StartRun, PlanTypes
  <2>2. ASSUME NEW d \in Clerks, CommitRun(d) \/ RunFails(d)
        PROVE  clerk'[c] = clerk[c] \/ clerk'[c] = NotRunning
    BY <2>2 DEF CommitRun, RunFails, PlanTypes
  <2> QED
    BY <1>2, <2>1, <2>2, CopiesAre
       DEF RecurringNext, recurringVars, NextDay, CreatePlan, ContactChanges
<1>3. ASSUME NEW p \in Plans, IsDue(p)
      PROVE  CopyIsKnown(p, plan[p])
  <2>1. plan[p] \in Plan /\ today \in Days
    BY <1>3 DEF IsDue, PlanTypes
  <2>2. plan[p].next \in Nat /\ plan[p].version \in Nat
    BY <2>1 DEF Plan
  <2>3. plan[p].next \in Days
    BY <1>3, <2>1, <2>2, RecurringConstantsOK DEF IsDue, Days
  <2> QED
    BY <1>3, <2>2, <2>3 DEF IsDue, CopyIsKnown
<1> SUFFICES ASSUME NEW c \in Clerks, NEW p \in DOMAIN clerk'[c]
             PROVE  CopyIsKnown(p, clerk[c][p])'
  OBVIOUS
<1>4. CASE /\ p \in DOMAIN clerk[c]
           /\ clerk'[c][p] = clerk[c][p]
  <2>1. p \in Plans /\ clerk[c][p] \in Plan
    BY <1>4, ClerkReads
  <2>2. CopyIsKnown(p, clerk[c][p]) /\ clerk[c][p].version \in Nat
    BY <1>4, <2>1 DEF Plan
  <2>3. plan[p] # NoPlan
    BY <2>2 DEF CopyIsKnown
  <2> QED
    BY <1>1, <1>4, <2>1, <2>2, <2>3 DEF CopyIsKnown
<1>5. CASE /\ IsDue(p) /\ p \in Plans
           /\ clerk'[c][p] = plan[p] /\ plan' = plan
  BY <1>3, <1>5 DEF CopyIsKnown
<1> QED
  BY <1>2, <1>4, <1>5

(* The plan and the charges of one plan before and after a step.           *)
LEMMA PlanEffect ==
    ASSUME RecurringInv, [RecurringNext]_recurringVars, NEW p \in Plans
    PROVE  \/ plan'[p] = plan[p] /\ charges'[p] = charges[p]
           \/ /\ plan[p] = NoPlan
              /\ charges'[p] = charges[p]
              /\ plan'[p].first \in Nat
              /\ plan'[p].next = plan'[p].first
           \/ \E c \in Clerks : CommitRun(c)
<1>1. CASE CreatePlan(p)
  <2>1. today + Interval[p] \in Nat
    BY RecurringConstantsOK DEF RecurringInv, PlanTypes, Days
  <2>2. /\ plan[p] = NoPlan
        /\ charges' = charges
        /\ plan'[p] = [status |-> "active", first |-> today + Interval[p],
                       next |-> today + Interval[p], version |-> 1]
    BY <1>1 DEF CreatePlan, RecurringInv, PlanTypes
  <2> QED
    BY <2>1, <2>2
<1>2. ASSUME NEW q \in Plans, q # p, CreatePlan(q)
      PROVE  plan'[p] = plan[p] /\ charges'[p] = charges[p]
  BY <1>2 DEF CreatePlan, RecurringInv, PlanTypes
<1> QED
  BY <1>1, <1>2
     DEF RecurringNext, recurringVars, NextDay, ContactChanges, StartRun, RunFails

LEMMA ScheduleNext ==
    ASSUME RecurringInv, [RecurringNext]_recurringVars
    PROVE  NextIsScheduled' /\ ChargesFollowSchedule'
<1> SUFFICES ASSUME NEW p \in Plans
             PROVE  /\ plan'[p] # NoPlan =>
                          /\ plan'[p].first <= plan'[p].next
                          /\ (plan'[p].next - plan'[p].first) % Interval[p] = 0
                    /\ \A d \in Days :
                          charges'[p][d] =
                             IF /\ plan'[p] # NoPlan
                                /\ d \in plan'[p].first..(plan'[p].next - 1)
                                /\ (d - plan'[p].first) % Interval[p] = 0
                             THEN 1 ELSE 0
  BY DEF NextIsScheduled, ChargesFollowSchedule
<1>1. /\ plan[p] # NoPlan =>
            /\ plan[p].first <= plan[p].next
            /\ (plan[p].next - plan[p].first) % Interval[p] = 0
      /\ \A d \in Days :
            charges[p][d] =
               IF /\ plan[p] # NoPlan
                  /\ d \in plan[p].first..(plan[p].next - 1)
                  /\ (d - plan[p].first) % Interval[p] = 0
               THEN 1 ELSE 0
  BY DEF RecurringInv, NextIsScheduled, ChargesFollowSchedule
<1> DEFINE i == Interval[p]
<1>2. i \in Nat \ {0} /\ Days \subseteq Nat /\ 0 % i = 0
  BY RecurringConstantsOK DEF Days
<1>3. CASE plan'[p] = plan[p] /\ charges'[p] = charges[p]
  BY <1>1, <1>3
<1>4. CASE /\ plan[p] = NoPlan
           /\ charges'[p] = charges[p]
           /\ plan'[p].first \in Nat
           /\ plan'[p].next = plan'[p].first
  BY <1>1, <1>2, <1>4
<1>5. ASSUME NEW c \in Clerks, CommitRun(c)
      PROVE  /\ plan'[p] # NoPlan =>
                   /\ plan'[p].first <= plan'[p].next
                   /\ (plan'[p].next - plan'[p].first) % i = 0
             /\ \A d \in Days :
                   charges'[p][d] =
                      IF /\ plan'[p] # NoPlan
                         /\ d \in plan'[p].first..(plan'[p].next - 1)
                         /\ (d - plan'[p].first) % i = 0
                      THEN 1 ELSE 0
  <2>1. CASE /\ plan[p] \in Plan
             /\ plan'[p] \in Plan
             /\ plan'[p].first = plan[p].first
             /\ plan'[p].next = plan[p].next
             /\ charges'[p] = charges[p]
    BY <1>1, <2>1, NoPlanOK
  <2>2. CASE /\ plan[p] \in Plan
             /\ plan[p].next \in Days
             /\ plan'[p] \in Plan
             /\ plan'[p].first = plan[p].first
             /\ plan'[p].next = plan[p].next + i
             /\ charges'[p] = [charges[p] EXCEPT ![plan[p].next] = @ + 1]
    <3> DEFINE f == plan[p].first
               n == plan[p].next
    <3>1. /\ f \in Nat /\ n \in Nat /\ n \in Days
          /\ f <= n /\ (n - f) % i = 0
          /\ plan[p] # NoPlan /\ plan'[p] # NoPlan
      BY <1>1, <2>2, NoPlanOK DEF Plan
    <3>2. \A d \in Days :
             /\ charges[p][d] = Scheduled(f, n, i, d)
             /\ charges'[p][d] = IF d = n THEN charges[p][d] + 1
                                 ELSE charges[p][d]
      BY <1>1, <2>2, <3>1 DEF RecurringInv, PlanTypes, Scheduled
    <3> HIDE DEF i, f, n
    <3>3. /\ n - f \in Nat
          /\ n + i - f = (n - f) + i
          /\ (n + i - f) % i = 0
      <4>1. n - f \in Nat /\ n + i - f = (n - f) + i
        BY <1>2, <3>1
      <4>2. ((n - f) + i) % i = 0
        BY <1>2, <3>1, <4>1, NextMultiple
      <4> QED
        BY <4>1, <4>2
    <3>4. \A d \in Days : charges'[p][d] = Scheduled(f, n + i, i, d)
      <4>1. \A d \in Days :
               Scheduled(f, n + i, i, d) =
                  IF d = n THEN Scheduled(f, n, i, d) + 1
                  ELSE Scheduled(f, n, i, d)
        BY <1>2, <3>1, OneMore
      <4> QED
        BY <3>2, <4>1
    <3>5. plan'[p].first = f /\ plan'[p].next = n + i
      BY <2>2 DEF f, n
    <3>6. f <= n + i
      BY <1>2, <3>1
    <3>7. /\ plan'[p].first <= plan'[p].next
          /\ (plan'[p].next - plan'[p].first) % i = 0
      BY <1>2, <3>1, <3>3, <3>5, <3>6
    <3>8. \A d \in Days :
             charges'[p][d] = Scheduled(plan'[p].first, plan'[p].next, i, d)
      BY <3>4, <3>5
    <3> QED
      BY <3>1, <3>7, <3>8 DEF Scheduled
  <2> QED
    BY <1>3, <1>5, <2>1, <2>2, CommitEffect
<1> QED
  BY <1>3, <1>4, <1>5, PlanEffect

LEMMA RecurringInvNext == RecurringInv /\ [RecurringNext]_recurringVars => RecurringInv'
<1> SUFFICES ASSUME RecurringInv, [RecurringNext]_recurringVars
             PROVE  RecurringInv'
  OBVIOUS
<1> QED
  BY RecurringTypeNext, CopiesNext, ScheduleNext DEF RecurringInv

LEMMA RecurringInvariance == RecurringSpec => []RecurringInv
BY RecurringInvInit, RecurringInvNext, PTL DEF RecurringSpec
-----------------------------------------------------------------------------
(* Every reachable state is well typed.                                    *)
THEOREM RecurringTypes == RecurringSpec => []RecurringTypeOK
<1>1. RecurringInv => RecurringTypeOK
  BY CopiesAre DEF RecurringInv, PlanTypes, RecurringTypeOK
<1> QED
  BY <1>1, RecurringInvariance, PTL

(* A plan is charged once for each day of its schedule and for no other,   *)
(* however runs of process_due_recurring_plans overlap, fail or come late, *)
(* for any intervals.                                                      *)
THEOREM ScheduleIsKept == RecurringSpec => []ChargesFollowSchedule
BY RecurringInvariance, PTL DEF RecurringInv

(* A plan that failed is neither revived nor charged.                      *)
FailedIsLeftAlone ==
    \A p \in Plans :
        (plan[p] # NoPlan /\ plan[p].status = "failed") =>
            plan'[p] = plan[p] /\ charges'[p] = charges[p]

LEMMA FailedStep ==
    RecurringInv /\ [RecurringNext]_recurringVars => FailedIsLeftAlone
<1> SUFFICES ASSUME RecurringInv, [RecurringNext]_recurringVars, NEW p \in Plans,
                    plan[p] # NoPlan, plan[p].status = "failed"
             PROVE  plan'[p] = plan[p] /\ charges'[p] = charges[p]
  BY DEF FailedIsLeftAlone
<1>1. \A c \in Clerks : CommitRun(c) =>
         plan'[p] = plan[p] /\ charges'[p] = charges[p]
  BY CommitEffect
<1> QED
  BY <1>1, PlanEffect

THEOREM FailedIsFinal == RecurringSpec => FailedStaysFailed
<1>1. RecurringInv /\ [RecurringNext]_recurringVars => [FailedIsLeftAlone]_recurringVars
  BY FailedStep
<1>2. RecurringSpec => [][FailedIsLeftAlone]_recurringVars
  BY <1>1, RecurringInvariance, PTL DEF RecurringSpec
<1> QED
  BY <1>2 DEF FailedStaysFailed, FailedIsLeftAlone
-----------------------------------------------------------------------------
(* Donor automations.                                                      *)

(* A run under way: the keys it has inserted are not on record yet; a case *)
(* that it mailed has an execution among the keys that it inserts; the     *)
(* case in hand has none, and was not mailed by this run.                  *)
IsExecution(k, x) == k.case = x /\ k.suffix = ""

RunOK(s, recs) ==
    s.pc # "idle" =>
        /\ s.sent \cap recs = {}
        /\ IsFiniteSet(s.sent) /\ IsFiniteSet(s.added)
        /\ s.tasks \subseteq s.acted
        /\ \A x \in s.acted : \E k \in s.sent \cup s.added : IsExecution(k, x)
        /\ s.pc = "acting" =>
              /\ s.added = {}
              /\ \E x \in Cases : \E k \in EventKeys :
                    s.key = {k} /\ IsExecution(k, x) /\ x \notin s.acted

HasLock(s) == s.pc # "idle" /\ s.sent \cup s.tasks # {}

WritersTakeTurns ==
    \A r, q \in Automata : HasLock(automaton[r]) /\ HasLock(automaton[q]) => r = q

(* The types, but for the bound on collisions.                             *)
AutomationTypes ==
    /\ current \subseteq Cases
    /\ anchor \in [Cases -> Anchors]
    /\ events \subseteq EventKeys
    /\ openTasks \in [Cases -> Nat]
    /\ thanked \in [Cases -> Nat]
    /\ automaton \in [Automata -> Automaton \cup {AutomatonIdle}]
    /\ runs \in 0..MaxRuns
    /\ faults \in 0..MaxFaults
    /\ collisions \in Nat

(* Every run that was started is under way, ended as it should or is one   *)
(* of those that crashed or collided.                                      *)
Active == {r \in Automata : automaton[r].pc # "idle"}

ActedOn(x) == {r \in Automata : automaton[r].pc # "idle" /\ x \in automaton[r].acted}

RunsAreCounted == Cardinality(Active) + faults + collisions <= runs

LoggedAt(x) ==
    /\ openTasks[x] <= Cardinality(Executed(x, events))
    /\ thanked[x] <= Cardinality(Executed(x, events)) + faults + collisions
                        + Cardinality(ActedOn(x))

AutomationInv ==
    /\ AutomationTypes
    /\ IsFiniteSet(events)
    /\ \A r \in Automata : RunOK(automaton[r], events)
    /\ WritersTakeTurns
    /\ RunsAreCounted
    /\ \A x \in Cases : LoggedAt(x)

LEMMA SmallestAnchor == Min(Anchors) \in Anchors
<1>1. PICK x \in Anchors : \A y \in Anchors : ~ (<<y, x>> \in OpToRel(<, Nat))
  BY NatLessThanWellFounded, WFMin, AutomationConstantsOK
<1>2. ASSUME NEW y \in Anchors PROVE x <= y
  <2>1. <<y, x>> \notin {p \in Nat \X Nat : p[1] < p[2]}
    BY <1>1, Zenon DEF OpToRel
  <2> QED BY <2>1, AutomationConstantsOK
<1> QED BY <1>2 DEF Min

LEMMA SetsOfAutomata ==
    ASSUME NEW S \in SUBSET Automata
    PROVE  IsFiniteSet(S) /\ Cardinality(S) \in Nat
BY AutomationConstantsOK, FS_Subset, FS_CardinalityType

(* How a step of one run changes the number of those in a set.             *)
LEMMA AutomataCounted ==
    ASSUME NEW S \in SUBSET Automata, NEW T \in SUBSET Automata, NEW r \in Automata,
           \A q \in Automata \ {r} : q \in T <=> q \in S
    PROVE  /\ Cardinality(S) \in Nat /\ Cardinality(T) \in Nat
           /\ (r \in T <=> r \in S) => Cardinality(T) = Cardinality(S)
           /\ r \notin S /\ r \in T => Cardinality(T) = Cardinality(S) + 1
           /\ r \in S /\ r \notin T => Cardinality(T) = Cardinality(S) - 1
           /\ Cardinality(T) >= Cardinality(S) - 1
<1>1. /\ IsFiniteSet(S) /\ IsFiniteSet(T)
      /\ Cardinality(S) \in Nat /\ Cardinality(T) \in Nat
  BY SetsOfAutomata
<1>2. (r \in T <=> r \in S) => T = S
  OBVIOUS
<1>3. ASSUME r \notin S, r \in T PROVE Cardinality(T) = Cardinality(S) + 1
  <2>1. T = S \cup {r}
    BY <1>3
  <2> QED BY <2>1, <1>1, <1>3, FS_AddElement
<1>4. ASSUME r \in S, r \notin T PROVE Cardinality(T) = Cardinality(S) - 1
  <2>1. T = S \ {r}
    BY <1>4
  <2> QED BY <2>1, <1>1, <1>4, FS_RemoveElement
<1> QED BY <1>1, <1>2, <1>3, <1>4

LEMMA AutomatonKinds ==
    ASSUME AutomationInv, NEW r \in Automata
    PROVE  /\ automaton[r].pc # "idle" => automaton[r] \in Automaton
           /\ automaton[r].pc = "idle" <=> automaton[r] = AutomatonIdle
           /\ RunOK(automaton[r], events)
           /\ automaton[r].pc \in {"idle", "judging", "acting"}
<1>1. automaton[r] \in Automaton \cup {AutomatonIdle} /\ RunOK(automaton[r], events)
  BY DEF AutomationInv, AutomationTypes
<1>2. AutomatonIdle.pc = "idle"
  BY DEF AutomatonIdle
<1>3. automaton[r] \in Automaton => automaton[r].pc \in {"judging", "acting"}
  BY DEF Automaton
<1> QED BY <1>1, <1>2, <1>3

LEMMA ExecutionsCounted ==
    ASSUME NEW x, NEW K, IsFiniteSet(K)
    PROVE  /\ IsFiniteSet(Executed(x, K))
           /\ Cardinality(Executed(x, K)) \in Nat
<1>1. Executed(x, K) \subseteq K
  BY DEF Executed
<1> QED BY <1>1, FS_Subset, FS_CardinalityType

(* Keys are only added, and a new one of the case counts.                  *)
LEMMA ExecutionsGrow ==
    ASSUME NEW x, NEW K, NEW L, IsFiniteSet(K), IsFiniteSet(L)
    PROVE  /\ Cardinality(Executed(x, K)) <= Cardinality(Executed(x, K \cup L))
           /\ (\E k \in L \ K : IsExecution(k, x))
                => Cardinality(Executed(x, K)) + 1 <= Cardinality(Executed(x, K \cup L))
<1> DEFINE E == Executed(x, K)    F == Executed(x, K \cup L)
<1>1. IsFiniteSet(K \cup L)
  BY FS_Union
<1>2. IsFiniteSet(E) /\ IsFiniteSet(F) /\ Cardinality(E) \in Nat /\ Cardinality(F) \in Nat
  BY <1>1, ExecutionsCounted
<1>3. E \subseteq F
  BY DEF Executed
<1>4. Cardinality(E) <= Cardinality(F)
  BY <1>2, <1>3, FS_Subset
<1>5. ASSUME NEW k \in L \ K, IsExecution(k, x)
      PROVE  Cardinality(E) + 1 <= Cardinality(F)
  <2>1. k \in F /\ k \notin E
    BY <1>5 DEF Executed, IsExecution
  <2> HIDE DEF E, F
  <2>2. IsFiniteSet(E \cup {k}) /\ Cardinality(E \cup {k}) = Cardinality(E) + 1
    BY <1>2, <2>1, FS_AddElement
  <2>3. E \cup {k} \subseteq F
    BY <1>3, <2>1
  <2> QED BY <1>2, <2>2, <2>3, FS_Subset
<1> QED BY <1>4, <1>5

(* One run goes on from s to t: enough to look at what it has and adds.    *)
LEMMA RunGoesOn ==
    ASSUME AutomationInv, NEW r \in Automata, NEW t, AutomatonGoes(r, t),
           t \in Automaton \cup {AutomatonIdle}, RunOK(t, events'),
           HasLock(t) => HasLock(automaton[r]) \/ MayWrite(r),
           events' # events => HasLock(automaton[r]) \/ MayWrite(r),
           events \subseteq events'
    PROVE  /\ \A q \in Automata : RunOK(automaton'[q], events')
           /\ WritersTakeTurns'
           /\ automaton' \in [Automata -> Automaton \cup {AutomatonIdle}]
           /\ automaton'[r] = t
           /\ \A q \in Automata \ {r} : automaton'[q] = automaton[q]
<1>1. /\ automaton'[r] = t
      /\ \A q \in Automata \ {r} : automaton'[q] = automaton[q]
      /\ automaton' \in [Automata -> Automaton \cup {AutomatonIdle}]
  BY DEF AutomatonGoes, AutomationInv, AutomationTypes
<1>2. ASSUME HasLock(automaton[r]) \/ MayWrite(r), NEW q \in Automata \ {r}
      PROVE  ~HasLock(automaton[q])
  BY <1>2 DEF MayWrite, Writes, HasLock, WritersTakeTurns, AutomationInv
<1>3. ASSUME NEW q \in Automata PROVE RunOK(automaton'[q], events')
  <2>1. CASE q = r
    BY <2>1, <1>1
  <2>2. CASE q # r
    <3>1. RunOK(automaton[q], events)
      BY DEF AutomationInv
    <3>2. CASE events' = events
      BY <3>1, <3>2, <2>2, <1>1
    <3>3. CASE events' # events
      <4>1. ~HasLock(automaton[q])
        BY <3>3, <2>2, <1>2
      <4>2. automaton[q].pc # "idle" => automaton[q].sent \cap events' = {}
        BY <4>1 DEF HasLock
      <4> QED BY <3>1, <4>2, <2>2, <1>1 DEF RunOK
    <3> QED BY <3>2, <3>3
  <2> QED BY <2>1, <2>2
<1>4. ASSUME NEW q \in Automata, NEW p \in Automata,
             HasLock(automaton'[q]), HasLock(automaton'[p])
      PROVE  q = p
  BY <1>1, <1>2, <1>4 DEF WritersTakeTurns, AutomationInv
<1>5. WritersTakeTurns'
  BY <1>4 DEF WritersTakeTurns
<1> QED BY <1>1, <1>3, <1>5

LEMMA CountsOfRuns ==
    ASSUME AutomationInv, NEW r \in Automata, NEW t,
           automaton'[r] = t, \A q \in Automata \ {r} : automaton'[q] = automaton[q]
    PROVE  /\ Cardinality(Active) \in Nat /\ Cardinality(Active') \in Nat
           /\ (t.pc = "idle" <=> automaton[r].pc = "idle")
                => Cardinality(Active') = Cardinality(Active)
           /\ t.pc # "idle" /\ automaton[r].pc = "idle"
                => Cardinality(Active') = Cardinality(Active) + 1
           /\ t.pc = "idle" /\ automaton[r].pc # "idle"
                => Cardinality(Active') = Cardinality(Active) - 1
<1> DEFINE S == Active    T == Active'
<1>1. /\ S \in SUBSET Automata /\ T \in SUBSET Automata
      /\ \A q \in Automata \ {r} : q \in T <=> q \in S
      /\ r \in S <=> automaton[r].pc # "idle"
      /\ r \in T <=> t.pc # "idle"
  BY DEF Active
<1> HIDE DEF S, T
<1>2. /\ Cardinality(S) \in Nat /\ Cardinality(T) \in Nat
      /\ (r \in T <=> r \in S) => Cardinality(T) = Cardinality(S)
      /\ r \notin S /\ r \in T => Cardinality(T) = Cardinality(S) + 1
      /\ r \in S /\ r \notin T => Cardinality(T) = Cardinality(S) - 1
  BY <1>1, AutomataCounted
<1> QED BY <1>1, <1>2 DEF S, T

HasActed(s, x) == s.pc # "idle" /\ x \in s.acted

LEMMA CountsOfActed ==
    ASSUME AutomationInv, NEW r \in Automata, NEW t, NEW x \in Cases,
           automaton'[r] = t, \A q \in Automata \ {r} : automaton'[q] = automaton[q]
    PROVE  /\ Cardinality(ActedOn(x)) \in Nat /\ Cardinality(ActedOn(x)') \in Nat
           /\ (HasActed(t, x) <=> HasActed(automaton[r], x))
                => Cardinality(ActedOn(x)') = Cardinality(ActedOn(x))
           /\ HasActed(t, x) /\ ~HasActed(automaton[r], x)
                => Cardinality(ActedOn(x)') = Cardinality(ActedOn(x)) + 1
           /\ HasActed(automaton[r], x) /\ ~HasActed(t, x)
                => Cardinality(ActedOn(x)') = Cardinality(ActedOn(x)) - 1
           /\ Cardinality(ActedOn(x)') >= Cardinality(ActedOn(x)) - 1
<1> DEFINE S == ActedOn(x)    T == ActedOn(x)'
<1>1. /\ S \in SUBSET Automata /\ T \in SUBSET Automata
      /\ \A q \in Automata \ {r} : q \in T <=> q \in S
      /\ r \in S <=> HasActed(automaton[r], x)
      /\ r \in T <=> HasActed(t, x)
  BY DEF ActedOn, HasActed
<1> HIDE DEF S, T
<1>2. /\ Cardinality(S) \in Nat /\ Cardinality(T) \in Nat
      /\ (r \in T <=> r \in S) => Cardinality(T) = Cardinality(S)
      /\ r \notin S /\ r \in T => Cardinality(T) = Cardinality(S) + 1
      /\ r \in S /\ r \notin T => Cardinality(T) = Cardinality(S) - 1
      /\ Cardinality(T) >= Cardinality(S) - 1
  BY <1>1, AutomataCounted
<1> QED BY <1>1, <1>2 DEF S, T

LEMMA AutomationNumbers ==
    ASSUME AutomationInv
    PROVE  /\ MaxRuns \in Nat /\ MaxFaults \in Nat
           /\ runs \in Nat /\ runs <= MaxRuns
           /\ faults \in Nat /\ faults <= MaxFaults /\ collisions \in Nat
           /\ \A x \in Cases :
                 /\ openTasks[x] \in Nat /\ thanked[x] \in Nat
                 /\ Cardinality(Executed(x, events)) \in Nat
                 /\ Cardinality(ActedOn(x)) \in Nat
                 /\ openTasks[x] <= Cardinality(Executed(x, events))
                 /\ thanked[x] <= Cardinality(Executed(x, events)) + faults + collisions
                                     + Cardinality(ActedOn(x))
<1>1. ASSUME NEW x \in Cases
      PROVE  Cardinality(Executed(x, events)) \in Nat /\ Cardinality(ActedOn(x)) \in Nat
  <2>1. ActedOn(x) \in SUBSET Automata
    BY DEF ActedOn
  <2> QED BY <2>1, SetsOfAutomata, ExecutionsCounted DEF AutomationInv
<1> QED BY <1>1, AutomationConstantsOK DEF AutomationInv, AutomationTypes, LoggedAt

(* The rest of the tables as they were.                                    *)
LEMMA OnlyRunsMove ==
    ASSUME AutomationInv, NEW r \in Automata, NEW t \in Automaton, AutomatonGoes(r, t),
           RunOK(t, events), HasLock(t) => HasLock(automaton[r]) \/ MayWrite(r),
           automaton[r].pc # "idle", t.acted = automaton[r].acted,
           UNCHANGED <<current, anchor, events, openTasks, thanked, counters>>
    PROVE  AutomationInv'
<1> USE DEF counters
<1>1. t.pc # "idle"
  BY DEF Automaton
<1>2. /\ \A q \in Automata : RunOK(automaton'[q], events')
      /\ WritersTakeTurns'
      /\ automaton' \in [Automata -> Automaton \cup {AutomatonIdle}]
      /\ automaton'[r] = t
      /\ \A q \in Automata \ {r} : automaton'[q] = automaton[q]
  BY RunGoesOn
<1>3. AutomationTypes' /\ IsFiniteSet(events')
  BY <1>2 DEF AutomationInv, AutomationTypes
<1>4. RunsAreCounted'
  <2>1. Cardinality(Active') = Cardinality(Active)
    BY <1>1, <1>2, CountsOfRuns
  <2> QED BY <2>1 DEF RunsAreCounted, AutomationInv
<1>5. ASSUME NEW x \in Cases PROVE LoggedAt(x)'
  <2>1. HasActed(t, x) <=> HasActed(automaton[r], x)
    BY <1>1 DEF HasActed
  <2>2. Cardinality(ActedOn(x)') = Cardinality(ActedOn(x))
    BY <1>2, <2>1, CountsOfActed
  <2> QED BY <2>2 DEF LoggedAt, AutomationInv
<1>6. \A q \in Automata : RunOK(automaton[q], events)'
  BY <1>2
<1> QED BY <1>2, <1>3, <1>4, <1>5, <1>6 DEF AutomationInv

(* A query inserts what was added; t is the state after it.                *)
QueriesTo(r, t) ==
    /\ t.sent = automaton[r].sent \cup automaton[r].added
    /\ t.tasks = automaton[r].tasks
    /\ t.acted = automaton[r].acted

LEMMA QueriedIs ==
    ASSUME AutomationInv, NEW r \in Automata, CanQuery(r)
    PROVE  /\ Queried(r) \in Automaton /\ QueriesTo(r, Queried(r))
           /\ Queried(r).added = {} /\ Queried(r).todo = automaton[r].todo
           /\ Queried(r).pc = "judging"
<1>1. automaton[r] \in Automaton /\ automaton[r].pc = "judging"
  BY AutomatonKinds DEF CanQuery
<1> QED BY <1>1 DEF Queried, QueriesTo, Automaton

LEMMA QueryKeeps ==
    ASSUME AutomationInv, NEW r \in Automata, CanQuery(r), NEW t \in Automaton,
           AutomatonGoes(r, t), QueriesTo(r, t), IsFiniteSet(t.added),
           t.pc = "acting" =>
              /\ t.added = {}
              /\ \E x \in Cases : \E k \in EventKeys :
                    t.key = {k} /\ IsExecution(k, x) /\ x \notin t.acted,
           UNCHANGED <<current, anchor, events, openTasks, thanked, counters>>
    PROVE  AutomationInv'
<1>1. automaton[r].pc # "idle" /\ RunOK(automaton[r], events)
  BY AutomatonKinds DEF CanQuery
<1>2. t.sent \cap events = {}
  <2>1. automaton[r].sent \cap events = {}
    BY <1>1 DEF RunOK
  <2>2. automaton[r].added \cap events = {}
    BY DEF CanQuery, Collides
  <2>3. t.sent = automaton[r].sent \cup automaton[r].added
    BY DEF QueriesTo
  <2> QED BY <2>1, <2>2, <2>3
<1>3. IsFiniteSet(t.sent)
  <2>1. IsFiniteSet(automaton[r].sent) /\ IsFiniteSet(automaton[r].added)
    BY <1>1 DEF RunOK
  <2>2. IsFiniteSet(automaton[r].sent \cup automaton[r].added)
    BY <2>1, FS_Union
  <2> QED BY <2>2 DEF QueriesTo
<1>4. \A x \in t.acted : \E k \in t.sent \cup t.added : IsExecution(k, x)
  BY <1>1 DEF RunOK, QueriesTo
<1>5. t.tasks \subseteq t.acted
  BY <1>1 DEF RunOK, QueriesTo
<1>6. RunOK(t, events)
  BY <1>2, <1>3, <1>4, <1>5 DEF RunOK
<1>7. HasLock(t) => HasLock(automaton[r]) \/ MayWrite(r)
  BY <1>1 DEF HasLock, QueriesTo, CanQuery, MayQuery
<1>8. t.acted = automaton[r].acted
  BY DEF QueriesTo
<1> QED BY <1>1, <1>6, <1>7, <1>8, OnlyRunsMove

LEMMA KeyIs ==
    ASSUME AutomationInv, NEW x \in Cases, NEW suffix \in {"", ":repeat", ":cooldown"}
    PROVE  /\ Key(x, suffix) \in EventKeys
           /\ Key(x, suffix).case = x /\ Key(x, suffix).suffix = suffix
BY DEF Key, EventKeys, AutomationInv, AutomationTypes

LEMMA SkipKeeps ==
    ASSUME AutomationInv, NEW r \in Automata, NEW x \in Cases, Skip(r, x)
    PROVE  AutomationInv'
<1> DEFINE s == Queried(r)
           suffix == IF Key(x, "") \in Executed(x, events \cup s.sent)
                     THEN ":repeat" ELSE ":cooldown"
           A == IF x \in Newcomers THEN {Key(x, suffix)} ELSE {}
           t == [s EXCEPT !.todo = @ \ {x}, !.added = A]
<1>1. /\ CanQuery(r) /\ AutomatonGoes(r, t)
      /\ UNCHANGED <<current, anchor, events, openTasks, thanked, counters>>
  BY DEF Skip
<1>2. s \in Automaton /\ QueriesTo(r, s) /\ s.pc = "judging"
  BY <1>1, QueriedIs
<1>3. A \in SUBSET EventKeys /\ IsFiniteSet(A)
  <2>1. suffix \in {"", ":repeat", ":cooldown"}
    OBVIOUS
  <2> HIDE DEF suffix
  <2>2. Key(x, suffix) \in EventKeys
    BY <2>1, KeyIs
  <2> QED BY <2>2, FS_EmptySet, FS_Singleton
<1> HIDE DEF s, A
<1>4. t \in Automaton /\ QueriesTo(r, t) /\ t.pc = "judging" /\ t.added = A
  BY <1>2, <1>3 DEF Automaton, QueriesTo
<1> HIDE DEF t
<1> QED BY <1>1, <1>3, <1>4, QueryKeeps

LEMMA NextTriggerKeeps ==
    ASSUME AutomationInv, NEW r \in Automata, NextTrigger(r)
    PROVE  AutomationInv'
<1> DEFINE s == Queried(r)
           t == [s EXCEPT !.last = TRUE, !.todo = current \cap Strugglers]
<1>1. /\ CanQuery(r) /\ AutomatonGoes(r, t)
      /\ UNCHANGED <<current, anchor, events, openTasks, thanked, counters>>
  BY DEF NextTrigger
<1>2. s \in Automaton /\ QueriesTo(r, s) /\ s.pc = "judging" /\ s.added = {}
  BY <1>1, QueriedIs
<1>3. current \cap Strugglers \in SUBSET Cases
  BY DEF Cases
<1> HIDE DEF s
<1>4. t \in Automaton /\ QueriesTo(r, t) /\ t.pc = "judging" /\ t.added = {}
  BY <1>2, <1>3 DEF Automaton, QueriesTo
<1> HIDE DEF t
<1> QED BY <1>1, <1>4, FS_EmptySet, QueryKeeps

LEMMA JudgeKeeps ==
    ASSUME AutomationInv, NEW r \in Automata, NEW x \in Cases, Judge(r, x)
    PROVE  AutomationInv'
<1> DEFINE s == Queried(r)
           k == Key(x, "")
           t == [s EXCEPT !.pc = "acting", !.todo = @ \ {x}, !.key = {k},
                          !.opens = openTasks[x] = 0]
<1>1. /\ CanQuery(r) /\ AutomatonGoes(r, t)
      /\ Executed(x, events \cup s.sent) = {}
      /\ UNCHANGED <<current, anchor, events, openTasks, thanked, counters>>
  BY DEF Judge
<1>2. s \in Automaton /\ QueriesTo(r, s) /\ s.added = {}
  BY <1>1, QueriedIs
<1>3. k \in EventKeys /\ IsExecution(k, x)
  BY KeyIs DEF IsExecution
<1>4. x \notin s.acted
  <2>1. automaton[r].pc # "idle" /\ RunOK(automaton[r], events)
    BY <1>1, AutomatonKinds DEF CanQuery
  <2>2. ASSUME NEW e \in s.sent PROVE ~IsExecution(e, x)
    BY <1>1, <2>2 DEF Executed, IsExecution
  <2> QED BY <1>2, <2>1, <2>2 DEF RunOK, QueriesTo
<1> HIDE DEF s, k
<1>5. t \in Automaton
  BY <1>2, <1>3 DEF Automaton
<1>6. t.key = {k} /\ t.added = {} /\ t.acted = s.acted /\ t.sent = s.sent /\ t.tasks = s.tasks
  BY <1>2 DEF Automaton
<1>7. QueriesTo(r, t)
  BY <1>2, <1>6 DEF QueriesTo
<1> HIDE DEF t
<1>8. \E y \in Cases : \E e \in EventKeys :
         t.key = {e} /\ IsExecution(e, y) /\ y \notin t.acted
  BY <1>3, <1>4, <1>6
<1>9. IsFiniteSet(t.added)
  BY <1>6, FS_EmptySet
<1> QED BY <1>1, <1>5, <1>6, <1>7, <1>8, <1>9, QueryKeeps

(* What the mail and the task of the case in hand leave a run with.        *)
Acted(r, k, x, t) ==
    /\ t.pc = "judging" /\ t.sent = automaton[r].sent /\ t.added = {k}
    /\ t.tasks = IF automaton[r].opens THEN automaton[r].tasks \cup {x}
                 ELSE automaton[r].tasks
    /\ t.acted = automaton[r].acted \cup {x}

LEMMA ActIs ==
    ASSUME AutomationInv, NEW r \in Automata, NEW delivered \in BOOLEAN, Act(r, delivered)
    PROVE  \E x \in Cases : \E k \in EventKeys : \E t \in Automaton :
              /\ IsExecution(k, x) /\ x \notin automaton[r].acted
              /\ AutomatonGoes(r, t) /\ Acted(r, k, x, t)
              /\ \A y \in Cases :
                    /\ y # x => thanked'[y] = thanked[y]
                    /\ thanked'[x] \in {thanked[x], thanked[x] + 1}
              /\ thanked' \in [Cases -> Nat]
<1> DEFINE s == automaton[r]
           about == {k.case : k \in s.key}
           t == [s EXCEPT
              !.pc = "judging", !.added = s.key, !.key = {}, !.opens = FALSE,
              !.tasks = IF s.opens THEN @ \cup about ELSE @,
              !.acted = @ \cup about]
<1>1. s \in Automaton /\ s.pc = "acting" /\ RunOK(s, events)
  BY AutomatonKinds DEF Act
<1>2. PICK x \in Cases, k \in EventKeys :
         s.key = {k} /\ IsExecution(k, x) /\ x \notin s.acted
  BY <1>1 DEF RunOK
<1>3. about = {x}
  BY <1>2 DEF IsExecution
<1>4. AutomatonGoes(r, t)
  BY DEF Act
<1>5. thanked' = [y \in Cases |->
                    IF y \in about /\ delivered THEN thanked[y] + 1 ELSE thanked[y]]
  BY DEF Act
<1> HIDE DEF about
<1>6. t \in Automaton /\ Acted(r, k, x, t)
  BY <1>1, <1>2, <1>3 DEF Automaton, Acted
<1>7. thanked \in [Cases -> Nat]
  BY DEF AutomationInv, AutomationTypes
<1>8. /\ thanked' \in [Cases -> Nat]
      /\ \A y \in Cases : /\ y # x => thanked'[y] = thanked[y]
                          /\ thanked'[x] \in {thanked[x], thanked[x] + 1}
  BY <1>3, <1>5, <1>7
<1> HIDE DEF t
<1> QED BY <1>2, <1>4, <1>6, <1>8

LEMMA ActKeeps ==
    ASSUME AutomationInv, NEW r \in Automata, NEW delivered \in BOOLEAN, Act(r, delivered)
    PROVE  AutomationInv'
<1> DEFINE s == automaton[r]
<1>1. PICK x \in Cases, k \in EventKeys, t \in Automaton :
         /\ IsExecution(k, x) /\ x \notin s.acted
         /\ AutomatonGoes(r, t) /\ Acted(r, k, x, t)
         /\ \A y \in Cases :
               /\ y # x => thanked'[y] = thanked[y]
               /\ thanked'[x] \in {thanked[x], thanked[x] + 1}
         /\ thanked' \in [Cases -> Nat]
  BY ActIs
<1>2. /\ s.pc = "acting" /\ (s.opens => MayWrite(r))
      /\ UNCHANGED <<current, anchor, events, openTasks, runs, faults, collisions>>
  BY DEF Act, counters
<1>3. RunOK(s, events)
  BY AutomatonKinds
<1>4. RunOK(t, events)
  <2>1. s.sent \cap events = {} /\ IsFiniteSet(s.sent) /\ s.tasks \subseteq s.acted
    BY <1>2, <1>3 DEF RunOK
  <2>2. \A y \in s.acted : \E e \in s.sent : IsExecution(e, y)
    BY <1>2, <1>3 DEF RunOK
  <2>3. \A y \in t.acted : \E e \in t.sent \cup t.added : IsExecution(e, y)
    BY <1>1, <2>2 DEF Acted
  <2>4. t.sent \cap events = {} /\ t.tasks \subseteq t.acted /\ t.pc = "judging"
    BY <1>1, <2>1 DEF Acted
  <2>5. IsFiniteSet(t.sent) /\ IsFiniteSet(t.added)
    <3>1. t.sent = s.sent /\ t.added = {k}
      BY <1>1 DEF Acted
    <3>2. IsFiniteSet({k})
      BY FS_Singleton
    <3> QED BY <2>1, <3>1, <3>2
  <2> QED BY <2>3, <2>4, <2>5 DEF RunOK
<1>5. HasLock(t) => HasLock(s) \/ MayWrite(r)
  BY <1>1, <1>2 DEF HasLock, Acted
<1>6. /\ \A q \in Automata : RunOK(automaton'[q], events')
      /\ WritersTakeTurns'
      /\ automaton' \in [Automata -> Automaton \cup {AutomatonIdle}]
      /\ automaton'[r] = t
      /\ \A q \in Automata \ {r} : automaton'[q] = automaton[q]
  BY <1>1, <1>2, <1>4, <1>5, RunGoesOn
<1>7. AutomationTypes' /\ IsFiniteSet(events')
  BY <1>1, <1>2, <1>6 DEF AutomationInv, AutomationTypes
<1>8. RunsAreCounted'
  <2>1. Cardinality(Active') = Cardinality(Active)
    BY <1>1, <1>2, <1>6, CountsOfRuns DEF Acted
  <2> QED BY <2>1, <1>2 DEF RunsAreCounted, AutomationInv
<1>9. ASSUME NEW y \in Cases PROVE LoggedAt(y)'
  <2>1. HasActed(t, y) <=> HasActed(s, y) \/ y = x
    BY <1>1, <1>2 DEF HasActed, Acted
  <2>2. ~HasActed(s, x)
    BY <1>1 DEF HasActed
  <2>3. CASE y = x
    <3>1. Cardinality(ActedOn(y)') = Cardinality(ActedOn(y)) + 1
      BY <1>6, <2>1, <2>2, <2>3, CountsOfActed
    <3> QED BY <3>1, <2>3, <1>1, <1>2, AutomationNumbers DEF LoggedAt
  <2>4. CASE y # x
    <3>1. Cardinality(ActedOn(y)') = Cardinality(ActedOn(y))
      BY <1>6, <2>1, <2>4, CountsOfActed
    <3> QED BY <3>1, <2>4, <1>1, <1>2, AutomationNumbers DEF LoggedAt
  <2> QED BY <2>3, <2>4
<1>10. \A q \in Automata : RunOK(automaton[q], events)'
  BY <1>6
<1> QED BY <1>6, <1>7, <1>8, <1>9, <1>10 DEF AutomationInv

LEMMA IdleOK ==
    /\ AutomatonIdle \in Automaton \cup {AutomatonIdle}
    /\ AutomatonIdle.pc = "idle"
    /\ ~HasLock(AutomatonIdle)
    /\ \A recs : RunOK(AutomatonIdle, recs)
    /\ \A x : ~HasActed(AutomatonIdle, x)
BY DEF AutomatonIdle, HasLock, RunOK, HasActed

(* A run that is rolled back, whether it collides or crashes.              *)
LEMMA RollbackKeeps ==
    ASSUME AutomationInv, NEW r \in Automata, Collide(r) \/ Fault(r)
    PROVE  AutomationInv'
<1>1. /\ automaton[r].pc # "idle" /\ AutomatonGoes(r, AutomatonIdle)
      /\ UNCHANGED <<current, anchor, events, openTasks, thanked, runs>>
  BY AutomatonKinds DEF Collide, Fault
<1>2. /\ faults' \in Nat /\ collisions' \in Nat /\ faults' <= MaxFaults
      /\ faults' + collisions' = faults + collisions + 1
  BY AutomationNumbers DEF Collide, Fault
<1>3. /\ \A q \in Automata : RunOK(automaton'[q], events')
      /\ WritersTakeTurns'
      /\ automaton' \in [Automata -> Automaton \cup {AutomatonIdle}]
      /\ automaton'[r] = AutomatonIdle
      /\ \A q \in Automata \ {r} : automaton'[q] = automaton[q]
  BY <1>1, IdleOK, RunGoesOn
<1>4. faults' \in 0..MaxFaults
  BY <1>2, AutomationNumbers
<1>5. AutomationTypes' /\ IsFiniteSet(events')
  BY <1>1, <1>2, <1>3, <1>4 DEF AutomationInv, AutomationTypes
<1>6. RunsAreCounted'
  <2>1. /\ Cardinality(Active') = Cardinality(Active) - 1
        /\ Cardinality(Active) \in Nat
    BY <1>1, <1>3, IdleOK, CountsOfRuns
  <2>2. Cardinality(Active) + faults + collisions <= runs
    BY DEF AutomationInv, RunsAreCounted
  <2> QED BY <2>1, <2>2, <1>1, <1>2, AutomationNumbers DEF RunsAreCounted
<1>7. ASSUME NEW x \in Cases PROVE LoggedAt(x)'
  <2>1. /\ Cardinality(ActedOn(x)') >= Cardinality(ActedOn(x)) - 1
        /\ Cardinality(ActedOn(x)') \in Nat
    BY <1>3, CountsOfActed
  <2> QED BY <2>1, <1>1, <1>2, AutomationNumbers DEF LoggedAt
<1>8. \A q \in Automata : RunOK(automaton[q], events)'
  BY <1>3
<1> QED BY <1>3, <1>5, <1>6, <1>7, <1>8 DEF AutomationInv

LEMMA CommitAutomationKeeps ==
    ASSUME AutomationInv, NEW r \in Automata, CommitAutomation(r)
    PROVE  AutomationInv'
<1> DEFINE s == automaton[r]
           I == s.sent \cup s.added
<1>1. /\ s.pc = "judging" /\ s \in Automaton /\ RunOK(s, events)
      /\ AutomatonGoes(r, AutomatonIdle) /\ CanQuery(r)
      /\ UNCHANGED <<current, anchor, thanked, runs, faults, collisions>>
  BY AutomatonKinds DEF CommitAutomation, CanQuery, counters
<1>2. /\ events' = events \cup I
      /\ openTasks' = [x \in Cases |-> IF x \in s.tasks THEN openTasks[x] + 1
                                       ELSE openTasks[x]]
  BY DEF CommitAutomation, Inserted
<1>3. IsFiniteSet(events) /\ IsFiniteSet(I)
  <2>1. IsFiniteSet(s.sent) /\ IsFiniteSet(s.added)
    BY <1>1 DEF RunOK
  <2> QED BY <2>1, FS_Union DEF AutomationInv
<1>4. I \subseteq EventKeys /\ I \cap events = {}
  <2>1. s.sent \cap events = {} /\ s.added \cap events = {}
    BY <1>1 DEF RunOK, CanQuery, Collides
  <2> QED BY <2>1, <1>1 DEF Automaton
<1>5. \A x \in s.acted : \E k \in I \ events : IsExecution(k, x)
  BY <1>1, <1>4 DEF RunOK
<1>6. s.tasks \subseteq s.acted
  BY <1>1 DEF RunOK
<1>7. events' # events => HasLock(s) \/ MayWrite(r)
  BY <1>1, <1>2 DEF HasLock, CanQuery, MayQuery
<1>8. events \subseteq events'
  BY <1>2
<1> HIDE DEF I, s
<1>9. /\ \A q \in Automata : RunOK(automaton'[q], events')
      /\ WritersTakeTurns'
      /\ automaton' \in [Automata -> Automaton \cup {AutomatonIdle}]
      /\ automaton'[r] = AutomatonIdle
      /\ \A q \in Automata \ {r} : automaton'[q] = automaton[q]
  BY <1>1, <1>7, <1>8, IdleOK, RunGoesOn DEF s
<1>10. IsFiniteSet(events')
  BY <1>2, <1>3, FS_Union
<1>11. AutomationTypes'
  <2>1. openTasks' \in [Cases -> Nat]
    BY <1>2 DEF AutomationInv, AutomationTypes
  <2> QED BY <2>1, <1>1, <1>2, <1>4, <1>9 DEF AutomationInv, AutomationTypes
<1>12. RunsAreCounted'
  <2>1. /\ Cardinality(Active') = Cardinality(Active) - 1
        /\ Cardinality(Active) \in Nat
    BY <1>1, <1>9, IdleOK, CountsOfRuns DEF s
  <2>2. Cardinality(Active) + faults + collisions <= runs
    BY DEF AutomationInv, RunsAreCounted
  <2> QED BY <2>1, <2>2, <1>1, AutomationNumbers DEF RunsAreCounted
<1>13. ASSUME NEW x \in Cases PROVE LoggedAt(x)'
  <2>1. /\ Cardinality(Executed(x, events)) <= Cardinality(Executed(x, events'))
        /\ x \in s.acted => Cardinality(Executed(x, events)) + 1
                               <= Cardinality(Executed(x, events'))
    <3>1. /\ Cardinality(Executed(x, events)) <= Cardinality(Executed(x, events \cup I))
          /\ (\E k \in I \ events : IsExecution(k, x))
               => Cardinality(Executed(x, events)) + 1
                     <= Cardinality(Executed(x, events \cup I))
      BY <1>3, ExecutionsGrow
    <3> QED BY <3>1, <1>2, <1>5
  <2>2. Cardinality(Executed(x, events')) \in Nat
    BY <1>10, ExecutionsCounted
  <2>3. openTasks'[x] = IF x \in s.tasks THEN openTasks[x] + 1 ELSE openTasks[x]
    BY <1>2
  <2>4. openTasks'[x] <= Cardinality(Executed(x, events'))
    BY <2>1, <2>2, <2>3, <1>6, AutomationNumbers
  <2>5. ~HasActed(AutomatonIdle, x) /\ HasActed(s, x) <=> x \in s.acted
    BY <1>1, IdleOK DEF HasActed
  <2>6. /\ Cardinality(ActedOn(x)') \in Nat
        /\ Cardinality(ActedOn(x)') >= Cardinality(ActedOn(x)) - 1
        /\ x \notin s.acted => Cardinality(ActedOn(x)') = Cardinality(ActedOn(x))
    BY <2>5, <1>9, IdleOK, CountsOfActed DEF s, HasActed
  <2>7. thanked'[x] = thanked[x] /\ faults' = faults /\ collisions' = collisions
    BY <1>1
  <2>8. thanked'[x] <= Cardinality(Executed(x, events')) + faults' + collisions'
                         + Cardinality(ActedOn(x)')
    BY <2>1, <2>2, <2>6, <2>7, AutomationNumbers
  <2> QED BY <2>4, <2>8 DEF LoggedAt
<1>14. \A q \in Automata : RunOK(automaton[q], events)'
  BY <1>9
<1> QED BY <1>9, <1>10, <1>11, <1>12, <1>13, <1>14 DEF AutomationInv

LEMMA StartAutomationKeeps ==
    ASSUME AutomationInv, NEW r \in Automata, StartAutomation(r)
    PROVE  AutomationInv'
<1> DEFINE t == [pc |-> "judging", todo |-> current \cap Newcomers, last |-> FALSE,
                 sent |-> {}, added |-> {}, tasks |-> {}, acted |-> {},
                 key |-> {}, opens |-> FALSE]
<1>1. /\ automaton[r].pc = "idle" /\ runs < MaxRuns /\ runs' = runs + 1
      /\ AutomatonGoes(r, t)
      /\ UNCHANGED <<current, anchor, events, openTasks, thanked, faults, collisions>>
  BY IdleOK DEF StartAutomation
<1>2. /\ t \in Automaton /\ t.pc = "judging" /\ t.acted = {}
      /\ t.sent = {} /\ t.added = {} /\ t.tasks = {}
  BY DEF Automaton, Cases
<1> HIDE DEF t
<1>3. RunOK(t, events) /\ ~HasLock(t)
  BY <1>2, FS_EmptySet DEF RunOK, HasLock
<1>4. /\ \A q \in Automata : RunOK(automaton'[q], events')
      /\ WritersTakeTurns'
      /\ automaton' \in [Automata -> Automaton \cup {AutomatonIdle}]
      /\ automaton'[r] = t
      /\ \A q \in Automata \ {r} : automaton'[q] = automaton[q]
  BY <1>1, <1>2, <1>3, RunGoesOn
<1>5. runs' \in 0..MaxRuns
  BY <1>1, AutomationNumbers
<1>6. AutomationTypes' /\ IsFiniteSet(events')
  BY <1>1, <1>4, <1>5 DEF AutomationInv, AutomationTypes
<1>7. RunsAreCounted'
  <2>1. /\ Cardinality(Active') = Cardinality(Active) + 1
        /\ Cardinality(Active) \in Nat
    BY <1>1, <1>2, <1>4, CountsOfRuns
  <2>2. Cardinality(Active) + faults + collisions <= runs
    BY DEF AutomationInv, RunsAreCounted
  <2> QED BY <2>1, <2>2, <1>1, AutomationNumbers DEF RunsAreCounted
<1>8. ASSUME NEW x \in Cases PROVE LoggedAt(x)'
  <2>1. ~HasActed(t, x) /\ ~HasActed(automaton[r], x)
    BY <1>1, <1>2 DEF HasActed
  <2>2. Cardinality(ActedOn(x)') = Cardinality(ActedOn(x))
    BY <2>1, <1>4, CountsOfActed
  <2> QED BY <2>2, <1>1 DEF LoggedAt, AutomationInv
<1>9. \A q \in Automata : RunOK(automaton[q], events)'
  BY <1>4
<1> QED BY <1>4, <1>6, <1>7, <1>8, <1>9 DEF AutomationInv

(* Staff and the tables the triggers look at.                              *)
LEMMA CasesChangeKeeps ==
    ASSUME AutomationInv, NEW x \in Cases,
           \/ Matches(x) \/ MatchesNoMore(x) \/ CloseTasks(x)
           \/ \E date \in Anchors : Correct(x, date)
    PROVE  AutomationInv'
<1>1. /\ UNCHANGED <<events, thanked, automaton, runs, faults, collisions>>
      /\ current' \subseteq Cases
  BY DEF Matches, MatchesNoMore, CloseTasks, Correct, counters, AutomationInv,
         AutomationTypes
<1>2. anchor' \in [Cases -> Anchors]
  BY DEF Matches, MatchesNoMore, CloseTasks, Correct, AutomationInv, AutomationTypes
<1>3. /\ openTasks' \in [Cases -> Nat]
      /\ \A y \in Cases : openTasks'[y] <= openTasks[y]
  BY DEF Matches, MatchesNoMore, CloseTasks, Correct, AutomationInv, AutomationTypes
<1>4. AutomationTypes' /\ IsFiniteSet(events') /\ WritersTakeTurns' /\ RunsAreCounted'
  BY <1>1, <1>2, <1>3
     DEF AutomationInv, AutomationTypes, WritersTakeTurns, RunsAreCounted, Active
<1>5. ASSUME NEW y \in Cases PROVE LoggedAt(y)'
  <2>1. ActedOn(y)' = ActedOn(y)
    BY <1>1 DEF ActedOn
  <2>2. openTasks'[y] \in Nat /\ openTasks'[y] <= openTasks[y]
    BY <1>3
  <2>3. openTasks'[y] <= Cardinality(Executed(y, events))
    BY <2>2, AutomationNumbers
  <2> QED BY <2>1, <2>3, <1>1, AutomationNumbers DEF LoggedAt
<1>6. \A q \in Automata : RunOK(automaton[q], events)'
  BY <1>1 DEF AutomationInv
<1> QED BY <1>4, <1>5, <1>6 DEF AutomationInv

LEMMA AutomationInitInv == AutomationInit => AutomationInv
<1> SUFFICES ASSUME AutomationInit PROVE AutomationInv
  OBVIOUS
<1>1. \A r \in Automata : automaton[r] = AutomatonIdle
  BY DEF AutomationInit
<1>2. AutomationTypes
  BY SmallestAnchor, AutomationConstantsOK DEF AutomationInit, AutomationTypes, EventKeys
<1>3. IsFiniteSet(events) /\ events = {}
  BY FS_EmptySet DEF AutomationInit
<1>4. (\A r \in Automata : RunOK(automaton[r], events)) /\ WritersTakeTurns
  BY <1>1, IdleOK DEF WritersTakeTurns
<1>5. RunsAreCounted
  <2>1. Active = {}
    BY <1>1, IdleOK DEF Active
  <2> QED BY <2>1, FS_EmptySet DEF RunsAreCounted, AutomationInit
<1>6. ASSUME NEW x \in Cases PROVE LoggedAt(x)
  <2>1. ActedOn(x) = {} /\ Executed(x, events) = {}
    BY <1>1, <1>3, IdleOK DEF ActedOn, Executed
  <2>2. openTasks[x] = 0 /\ thanked[x] = 0 /\ faults = 0 /\ collisions = 0
    BY DEF AutomationInit
  <2> QED BY <2>1, <2>2, FS_EmptySet DEF LoggedAt
<1> QED BY <1>2, <1>3, <1>4, <1>5, <1>6 DEF AutomationInv

LEMMA AutomationInvNext ==
    ASSUME AutomationInv, [AutomationNext]_automationVars
    PROVE  AutomationInv'
<1>1. CASE UNCHANGED automationVars
  BY <1>1 DEF automationVars, counters, AutomationInv, AutomationTypes,
              WritersTakeTurns, RunsAreCounted, Active, LoggedAt, ActedOn
<1>2. ASSUME NEW r \in Automata,
             \/ StartAutomation(r) \/ NextTrigger(r) \/ CommitAutomation(r)
             \/ Collide(r) \/ Fault(r)
      PROVE  AutomationInv'
  BY <1>2, StartAutomationKeeps, NextTriggerKeeps, CommitAutomationKeeps, RollbackKeeps
<1>3. ASSUME NEW r \in Automata, NEW x \in Cases, Skip(r, x) \/ Judge(r, x)
      PROVE  AutomationInv'
  BY <1>3, SkipKeeps, JudgeKeeps
<1>4. ASSUME NEW r \in Automata, NEW delivered \in BOOLEAN, Act(r, delivered)
      PROVE  AutomationInv'
  BY <1>4, ActKeeps
<1>5. ASSUME NEW x \in Cases,
             \/ Matches(x) \/ MatchesNoMore(x) \/ CloseTasks(x)
             \/ \E date \in Anchors : Correct(x, date)
      PROVE  AutomationInv'
  BY <1>5, CasesChangeKeeps
<1> QED BY <1>1, <1>2, <1>3, <1>4, <1>5 DEF AutomationNext

LEMMA AutomationInvariance == AutomationSpec => []AutomationInv
BY AutomationInitInv, AutomationInvNext, PTL DEF AutomationSpec

LEMMA AutomationTypesAre == AutomationInv => AutomationTypeOK
<1> SUFFICES ASSUME AutomationInv PROVE AutomationTypeOK
  OBVIOUS
<1>1. Active \in SUBSET Automata
  BY DEF Active
<1>2. Cardinality(Active) \in Nat
  BY <1>1, SetsOfAutomata
<1>3. collisions \in 0..runs
  BY <1>2, AutomationNumbers DEF AutomationInv, RunsAreCounted
<1> QED BY <1>3 DEF AutomationInv, AutomationTypes, AutomationTypeOK

(* Runs that overlap, are rolled back or come again never leave more open  *)
(* follow-up tasks of a case than there are executions on record for it.   *)
THEOREM TasksHaveExecutions == AutomationSpec => []TasksAreLogged
<1>1. AutomationInv => TasksAreLogged
  BY DEF AutomationInv, LoggedAt, TasksAreLogged
<1> QED BY <1>1, AutomationInvariance, PTL

(* A donor gets no mail of the automations that is not on record, but from *)
(* runs under way and once from each run that was rolled back.             *)
THEOREM ThanksHaveExecutions == AutomationSpec => []ThanksAreLogged
<1>1. AutomationInv => ThanksAreLogged
  BY DEF AutomationInv, LoggedAt, ActedOn, ThanksAreLogged
<1> QED BY <1>1, AutomationInvariance, PTL
-----------------------------------------------------------------------------
(* The four components together.                                           *)

(* The four components share no table: each behaviour of the composition   *)
(* is one of each of them.                                                 *)
LEMMA RecordsAreAll ==
    RecordsSpec => Spec /\ PreawardSpec /\ RecurringSpec /\ AutomationSpec
<1>1. RecordsInit => Init /\ PreawardInit /\ RecurringInit /\ AutomationInit
  BY DEF RecordsInit
<1>2. [RecordsNext]_recordsVars =>
         /\ [Next]_vars /\ [PreawardNext]_preawardVars
         /\ [RecurringNext]_recurringVars /\ [AutomationNext]_automationVars
  BY DEF RecordsNext, recordsVars
<1> QED
  BY <1>1, <1>2, PTL
     DEF RecordsSpec, Spec, PreawardSpec, RecurringSpec, AutomationSpec

(* Rows of workflows, opportunities, plans and automations keep the        *)
(* columns the code gives them, whatever the four components do.           *)
THEOREM RecordsTypes == RecordsSpec => []RecordsTypeOK
<1>1. TypeOK /\ PreawardTypeOK /\ RecurringTypeOK /\ AutomationTypeOK => RecordsTypeOK
  BY DEF RecordsTypeOK
<1> QED
  BY <1>1, RecordsAreAll, TypeCorrect, PreawardTypes, RecurringTypes,
     AutomationInvariance, AutomationTypesAre, PTL
=============================================================================
