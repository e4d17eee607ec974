---------------------------- MODULE ProjectFacts ----------------------------
(***************************************************************************)
(* What the formation service reads and never owns, for one project: the   *)
(* project's stage, the project events in flight, the resources other      *)
(* services hold for it, and the newest published checklist template.      *)
(* Also the two pure functions the service decides with                    *)
(* (internal/domain/model/stage.go).                                       *)
(*                                                                         *)
(* MaxMoves bounds how often the surroundings change and MaxFaults how     *)
(* many reads, writes or replicas fail; both are parameters of the model.  *)
(***************************************************************************)
EXTENDS Naturals, FiniteSets

CONSTANTS
  Stages,        \* the stages the project may be at
  Keys,          \* item keys
  PlatformKeys,  \* the keys whose row carries a check some lookup answers
  Templates,     \* template versions that may be published: 1..Templates
  MaxMoves,      \* bound: changes of stage, resources and templates
  MaxFaults      \* bound: failed reads and writes, replica crashes

FormingStages == {"Exploratory", "Engaged", "OnHold", "Confidential"}
AllStages ==
  FormingStages \cup {"Disengaged", "Active", "Archived", "Prospect", "Unrecognised"}

ASSUME StagesAssumption == Stages \subseteq AllStages
ASSUME KeysAssumption == PlatformKeys \subseteq Keys
ASSUME BoundsAssumption ==
  Templates \in Nat /\ MaxMoves \in Nat /\ MaxFaults \in Nat

VARIABLES
  stage,      \* the project service's current stage
  inbox,      \* stages carried by project events not yet delivered
  resources,  \* platform keys whose resource exists in its own service
  published,  \* newest published template version, 0 for none
  moves,      \* changes so far, against MaxMoves
  faults      \* failures so far, against MaxFaults

factVars == <<stage, inbox, resources, published, moves, faults>>
-----------------------------------------------------------------------------
FormingStage(s) == s \in FormingStages

\* The stages the sweep asks the project service for: visible, not necessarily
\* creating (Disengaged is listed so that its checklist can be frozen).
FormationStages == FormingStages \cup {"Disengaged"}

\* "none" stands for both answers that move nothing: Prospect, which is
\* recognised and implies no lifecycle, and a value the service does not know.
LifecycleForStage(s) ==
  CASE FormingStage(s)                   -> "live"
    [] s = "Active"                      -> "completed"
    [] s \in {"Archived", "Disengaged"}  -> "frozen"
    [] OTHER                             -> "none"
-----------------------------------------------------------------------------
FactsInit ==
  /\ stage \in Stages
  /\ inbox = {}
  /\ resources \in SUBSET PlatformKeys
  /\ published = 0
  /\ moves = 0
  /\ faults = 0

Moved == moves < MaxMoves /\ moves' = moves + 1
Fault == faults < MaxFaults /\ faults' = faults + 1

\* The project is edited, to another stage or leaving it, and the index
\* publishes an event carrying the stage. Core NATS: an event may be handled
\* after a later one, or never.
ProjectUpdated(s) ==
  /\ Moved
  /\ stage' = s
  /\ inbox' = inbox \cup {s}
  /\ UNCHANGED <<resources, published, faults>>

\* A repository, list or committee is created for the project, or removed.
ResourceChanges(k) ==
  /\ Moved
  /\ resources' = IF k \in resources THEN resources \ {k} ELSE resources \cup {k}
  /\ UNCHANGED <<stage, inbox, published, faults>>

\* A newer template version becomes the one the selector returns.
TemplatePublished ==
  /\ published < Templates
  /\ published' = published + 1
  /\ UNCHANGED <<stage, inbox, resources, moves, faults>>

FactsNext ==
  \/ \E s \in Stages : ProjectUpdated(s)
  \/ \E k \in PlatformKeys : ResourceChanges(k)
  \/ TemplatePublished

FactsTypeOK ==
  /\ stage \in Stages
  /\ inbox \subseteq Stages
  /\ resources \subseteq PlatformKeys
  /\ published \in 0..Templates
  /\ moves \in 0..MaxMoves
  /\ faults \in 0..MaxFaults
=============================================================================
