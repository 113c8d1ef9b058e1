------------------------------ MODULE Preaward ------------------------------
(***************************************************************************)
(* One grant opportunity, its proposals and the grants it is converted to: *)
(* grants/services/preaward_impl.py on the tables of grants/models.py.     *)
(*                                                                         *)
(* A handler reads the opportunity and a proposal and commits later.  Both *)
(* tables carry a version that an UPDATE compares, so a handler that lost  *)
(* a race is rolled back; but only the rows it changes are compared.       *)
(* convert_opportunity_to_grant is four transactions: its tests are made   *)
(* before the first, and each commit expires what was read, so the last    *)
(* one compares with a version it has just loaded.  What becomes of the    *)
(* grant afterwards is GrantBudget's matter.                               *)
(***************************************************************************)
EXTENDS Naturals, FiniteSets

CONSTANTS
    Officers,      \* concurrent requests of grant officers
    Edits,         \* statuses that staff give an opportunity by hand
    MaxProposals,  \* bound: proposals of the opportunity
    MaxVersion,    \* bound: changes of a row
    MaxGrants,     \* bound: grants made from the opportunity
    MaxStops,      \* bound: conversions that crash or fail half way
    NoProposal,    \* a proposal that does not exist
    NoGrant        \* a grant that does not exist

Proposals == 1..MaxProposals

Grants == 1..MaxGrants

OpportunityStatuses ==
    {"identified", "qualified", "in_progress", "submitted", "awarded",
     "declined", "archived"}

ProposalOutcomes == {"draft", "submitted", "awarded", "declined", "withdrawn"}

Decided == {"awarded", "declined", "withdrawn"}

ASSUME PreawardConstantsOK ==
    /\ Edits \subseteq OpportunityStatuses
    /\ {MaxProposals, MaxGrants, MaxStops} \subseteq Nat
    /\ MaxVersion \in Nat \ {0}
    /\ NoGrant \notin Grants
    /\ NoGrant \notin {"prospect", "submitted", "awarded"}

VARIABLES
    opportunity,  \* its row in grant_opportunities
    proposal,     \* grant_proposals, by version_number
    grant,        \* the status of each grant made from it
    officer,      \* what each request is doing
    stops         \* conversions that ended half way

preawardVars == <<opportunity, proposal, grant, officer, stops>>

OfficerIdle == [pc |-> "idle"]

Opportunity == [status : OpportunityStatuses, link : Grants \cup {NoGrant},
                version : 0..MaxVersion]

Proposal == [outcome : ProposalOutcomes, version : 0..MaxVersion]

ASSUME NoProposalOK == NoProposal \notin Proposal

(* seen is the opportunity as it was read, status what to write; a request *)
(* about a proposal has both of it as well.                                *)
Officer ==
    [pc : {"drafting"}, number : Proposals]
        \cup [pc : {"editing"}, seen : Opportunity, status : OpportunityStatuses]
        \cup [pc : {"deciding"}, seen : Opportunity, status : OpportunityStatuses,
              number : Proposals, read : Proposal, outcome : ProposalOutcomes]
        \cup [pc : {"creating"}]
        \cup [pc : {"submitting", "awarding", "linking"}, made : Grants]

PreawardTypeOK ==
    /\ opportunity \in Opportunity
    /\ proposal \in [Proposals -> Proposal \cup {NoProposal}]
    /\ grant \in [Grants -> {"prospect", "submitted", "awarded", NoGrant}]
    /\ officer \in [Officers -> Officer \cup {OfficerIdle}]
    /\ stops \in 0..MaxStops

PreawardInit ==
    /\ opportunity = [status |-> "identified", link |-> NoGrant, version |-> 1]
    /\ proposal = [n \in Proposals |-> NoProposal]
    /\ grant = [g \in Grants |-> NoGrant]
    /\ officer = [o \in Officers |-> OfficerIdle]
    /\ stops = 0

OfficerGoes(o, state) == officer' = [officer EXCEPT ![o] = state]

Drafted == {n \in Proposals : proposal[n] # NoProposal}

Made == {g \in Grants : grant[g] # NoGrant}
-----------------------------------------------------------------------------
(* create_proposal: the next number is read, and unique in the table.      *)
Draft(o) ==
    /\ officer[o] = OfficerIdle
    /\ Cardinality(Drafted) < MaxProposals
    /\ OfficerGoes(o, [pc |-> "drafting", number |-> Cardinality(Drafted) + 1])
    /\ UNCHANGED <<opportunity, proposal, grant, stops>>

CommitDraft(o) ==
    LET n == officer[o].number
    IN  /\ officer[o].pc = "drafting"
        /\ proposal' = IF n \in Drafted THEN proposal
                       ELSE [proposal EXCEPT ![n] =
                                [outcome |-> "draft", version |-> 1]]
        /\ OfficerGoes(o, OfficerIdle)
        /\ UNCHANGED <<opportunity, grant, stops>>

(* update_opportunity.                                                     *)
Edit(o, status) ==
    /\ officer[o] = OfficerIdle
    /\ OfficerGoes(o, [pc |-> "editing", seen |-> opportunity, status |-> status])
    /\ UNCHANGED <<opportunity, proposal, grant, stops>>

(* submit_proposal takes a proposal with any outcome, set_proposal_outcome *)
(* decides only one that it reads as submitted; what becomes of the        *)
(* opportunity depends on the outcome.                                     *)
Decide(o, n, outcome, status) ==
    /\ officer[o] = OfficerIdle
    /\ n \in Drafted
    /\ OfficerGoes(o, [pc |-> "deciding", seen |-> opportunity,
                       status |-> status, number |-> n, read |-> proposal[n],
                       outcome |-> outcome])
    /\ UNCHANGED <<opportunity, proposal, grant, stops>>

Submit(o, n) == Decide(o, n, "submitted", "submitted")

Consequence(outcome) ==
    CASE outcome = "awarded"   -> "awarded"
      [] outcome = "declined"  -> "declined"
      [] outcome = "withdrawn" -> "qualified"
      [] OTHER                 -> opportunity.status

SetOutcome(o, n, outcome) ==
    /\ outcome \in Decided =>
          n \in Drafted /\ proposal[n].outcome = "submitted"
    /\ Decide(o, n, outcome, Consequence(outcome))

(* An UPDATE is sent for a row with a change, and finds the version.       *)
OpportunityChanges(o) == officer[o].status # officer[o].seen.status

ProposalChanges(o) ==
    /\ officer[o].pc = "deciding"
    /\ officer[o].outcome # officer[o].read.outcome

(* Mutant of StillAsRead: the proposals have no version.                   *)
OpportunityAsRead(o) ==
    OpportunityChanges(o) => opportunity.version = officer[o].seen.version

StillAsRead(o) ==
    /\ OpportunityChanges(o) => opportunity.version = officer[o].seen.version
    /\ ProposalChanges(o) =>
          proposal[officer[o].number].version = officer[o].read.version

(* Both rows, or a StaleDataError and neither.                             *)
CommitChange(o) ==
    LET s == officer[o]
    IN  /\ s.pc \in {"editing", "deciding"}
        /\ opportunity.version < MaxVersion
        /\ s.pc = "deciding" => proposal[s.number].version < MaxVersion
        /\ opportunity' =
              IF StillAsRead(o) /\ OpportunityChanges(o)
              THEN [opportunity EXCEPT !.status = s.status, !.version = @ + 1]
              ELSE opportunity
        /\ proposal' =
              IF StillAsRead(o) /\ ProposalChanges(o)
              THEN [proposal EXCEPT ![s.number] =
                       [outcome |-> s.outcome, version |-> @.version + 1]]
              ELSE proposal
        /\ OfficerGoes(o, OfficerIdle)
        /\ UNCHANGED <<grant, stops>>
-----------------------------------------------------------------------------
Convertible ==
    /\ opportunity.link = NoGrant
    /\ opportunity.status = "awarded"
    /\ \E n \in Drafted : proposal[n].outcome = "awarded"

Convert(o) ==
    /\ officer[o] = OfficerIdle
    /\ Convertible
    /\ OfficerGoes(o, [pc |-> "creating"])
    /\ UNCHANGED <<opportunity, proposal, grant, stops>>

CreateGrant(o) ==
    LET g == Cardinality(Made) + 1
    IN  /\ officer[o].pc = "creating"
        /\ g \in Grants
        /\ grant' = [grant EXCEPT ![g] = "prospect"]
        /\ OfficerGoes(o, [pc |-> "submitting", made |-> g])
        /\ UNCHANGED <<opportunity, proposal, stops>>

SubmitGrant(o) ==
    /\ officer[o].pc = "submitting"
    /\ grant' = [grant EXCEPT ![officer[o].made] = "submitted"]
    /\ OfficerGoes(o, [officer[o] EXCEPT !.pc = "awarding"])
    /\ UNCHANGED <<opportunity, proposal, stops>>

AwardGrant(o) ==
    /\ officer[o].pc = "awarding"
    /\ grant' = [grant EXCEPT ![officer[o].made] = "awarded"]
    /\ OfficerGoes(o, [officer[o] EXCEPT !.pc = "linking"])
    /\ UNCHANGED <<opportunity, proposal, stops>>

(* Mutant of Awarded: the newest grant of the opportunity is looked up.    *)
Newest(o) == Cardinality(Made)

Awarded(o) == officer[o].made

Link(o) ==
    /\ officer[o].pc = "linking"
    /\ opportunity.version < MaxVersion
    /\ opportunity' = [opportunity EXCEPT !.link = Awarded(o),
                                          !.version = @ + 1]
    /\ OfficerGoes(o, OfficerIdle)
    /\ UNCHANGED <<proposal, grant, stops>>

(* The process dies or a step raises; what was committed stays.            *)
Stop(o) ==
    /\ officer[o].pc \in {"creating", "submitting", "awarding", "linking"}
    /\ stops < MaxStops
    /\ stops' = stops + 1
    /\ OfficerGoes(o, OfficerIdle)
    /\ UNCHANGED <<opportunity, proposal, grant>>

PreawardNext ==
    \E o \in Officers :
        \/ Draft(o) \/ CommitDraft(o)
        \/ \E status \in Edits : Edit(o, status)
        \/ \E n \in Proposals :
              \/ Submit(o, n)
              \/ \E outcome \in ProposalOutcomes : SetOutcome(o, n, outcome)
        \/ CommitChange(o)
        \/ Convert(o) \/ CreateGrant(o) \/ SubmitGrant(o) \/ AwardGrant(o)
        \/ Link(o) \/ Stop(o)

PreawardSpec == PreawardInit /\ [][PreawardNext]_preawardVars
-----------------------------------------------------------------------------
(* A proposal is awarded, declined or withdrawn only while it is           *)
(* submitted, though the test is made on a row read earlier: of two        *)
(* officers who decide it at once, one is told that he came too late.      *)
OnlySubmittedAreDecided ==
    [][\A n \in Drafted :
          \/ proposal'[n].outcome \notin Decided \ {proposal[n].outcome}
          \/ proposal[n].outcome = "submitted"]_preawardVars

(* However conversions overlap or break off, the grant an opportunity is   *)
(* linked to is one that has got its award.                                *)
LinkedGrantIsAwarded ==
    opportunity.link # NoGrant => grant[opportunity.link] = "awarded"
=============================================================================
