------------------------------ MODULE Operator ------------------------------
(***************************************************************************)
(* What an operator runs beside the service: formation-cli expand and      *)
(* formation-cli upgrade for one project (cmd/formation-cli/main.go,       *)
(* internal/service/expansion.go, template_upgrade.go), and the schema     *)
(* script every replica and every CLI run applies when it connects.        *)
(***************************************************************************)
EXTENDS ChecklistStore

CONSTANT Operators

ASSUME OperatorAssumption == Nobody \notin Operators

VARIABLE command  \* [Operators -> Command]

\* A command holds the template it selected, then the formations row and the
\* item keys it read, which are two statements and may straddle a commit.
Command == [step     : {"idle", "chosen", "read", "listed"},
            template : Nat,
            revision : Nat,
            sections : SUBSET SectionNames,
            have     : SUBSET Keys]
NoCommand == [step |-> "idle", template |-> 0, revision |-> 0, sections |-> {}, have |-> {}]

EndCommand(o) == command' = [command EXCEPT ![o] = NoCommand]
-----------------------------------------------------------------------------
\* TemplateSelector.Select: without a published template the command fails.
SelectTemplate(o) ==
  /\ command[o].step = "idle"
  /\ published > 0
  /\ command' = [command EXCEPT ![o] = [@ EXCEPT !.step = "chosen", !.template = published]]
  /\ UNCHANGED storeVars

\* Mutant: the project is not unique in the formations table.
ExpandCommand_NotUnique(o) ==
  /\ command[o].step = "chosen"
  /\ CreateChecklist(command[o].template)
  /\ EndCommand(o)

\* ExpandFor: no stage is consulted, and an existing checklist is left alone.
ExpandCommand(o) ==
  /\ command[o].step = "chosen"
  /\ IF Exists THEN UNCHANGED storeVars ELSE CreateChecklist(command[o].template)
  /\ EndCommand(o)

\* UpgradeFor's transaction: the formation, then its items, neither locked.
UpgradeRead(o) ==
  /\ command[o].step = "chosen"
  /\ Exists
  /\ command' = [command EXCEPT ![o] =
       [@ EXCEPT !.step = "read", !.revision = revision, !.sections = sections]]
  /\ UNCHANGED storeVars

UpgradeList(o) ==
  /\ command[o].step = "read"
  /\ command' = [command EXCEPT ![o] = [@ EXCEPT !.step = "listed", !.have = Present]]
  /\ UNCHANGED storeVars

MissingItems(o) == TemplateItems[command[o].template] \ command[o].have

\* Mutant: the rows just added are left out.
SectionsToRecord_HeldOnly(o, added) == SectionsOf(command[o].have) \ command[o].sections

\* The sections of the items the checklist held and of the ones this
\* transaction added, less those the snapshot it read already lists.
SectionsToRecord(o, added) == SectionsOf(command[o].have \cup added) \ command[o].sections

\* Mutant: the snapshot is written whatever its revision.
SnapshotCurrent_Unchecked(o) == TRUE

\* UpdateSections ... WHERE revision = the one read.
SnapshotCurrent(o) == revision = command[o].revision

\* The inserts wait for a held formations row (their foreign key locks it), and
\* a stale section snapshot fails the transaction whole.
UpgradeCommit(o) ==
  LET added  == Landed(MissingItems(o))
      needed == SectionsToRecord(o, added)
  IN /\ command[o].step = "listed"
     /\ added # {} \/ needed # {} => lock = Nobody
     /\ needed # {} => SnapshotCurrent(o)
     /\ item' = WithInserted(MissingItems(o))
     /\ feed' = IF added = {} THEN feed
                ELSE Append(feed, [action |-> "template_upgraded", added |-> added])
     /\ sections' = IF needed = {} THEN sections ELSE command[o].sections \cup needed
     /\ revision' = IF needed = {} THEN revision ELSE revision + 1
     /\ EndCommand(o)
     /\ UNCHANGED <<lifecycle, completedAt, pin, log, lock>>

\* The stale snapshot, any other error, or the operator interrupting it.
AbortCommand(o) ==
  /\ command[o].step # "idle"
  /\ EndCommand(o)
  /\ UNCHANGED storeVars

OperatorNext ==
  \/ \E o \in Operators :
       \/ SelectTemplate(o)
       \/ ExpandCommand(o)
       \/ UpgradeRead(o)
       \/ UpgradeList(o)
       \/ UpgradeCommit(o)
       \/ AbortCommand(o)
  \/ ApplySchema /\ UNCHANGED command

OperatorInit == command = [o \in Operators |-> NoCommand]

OperatorTypeOK == command \in [Operators -> Command]
=============================================================================
