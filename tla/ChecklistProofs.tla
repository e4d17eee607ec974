--------------------------- MODULE ChecklistProofs --------------------------
(***************************************************************************)
(* Theorems about Checklist, for any number of writers, replicas,          *)
(* operators, items and template versions and any bounds.                  *)
(***************************************************************************)
EXTENDS Checklist, SequenceTheorems, TLAPS

-----------------------------------------------------------------------------
(* The inductive invariant, in named parts.                                *)

\* Whoever is about to create or grow a checklist holds a real template.
TemplatesChosen ==
  /\ \A r \in Reconcilers : At(r, "create") => pass[r].template \in 1..Templates
  /\ \A o \in Operators :
       command[o].step # "idle" => command[o].template \in 1..Templates

\* A pass about to move the lifecycle holds a stage that implies one.
MovesToALifecycle ==
  \A r \in Reconcilers : At(r, "move") => LifecycleForStage(pass[r].stage) # "none"

\* Rows, row locks, moves and upgrades in progress all need the formations row.
ChecklistFirst ==
  /\ ~Exists => Present = {}
  /\ lock # Nobody => Exists
  /\ \A r \in Reconcilers : At(r, "move") => Exists
  /\ \A o \in Operators : command[o].step \in {"read", "listed"} => Exists

\* The lock is held by exactly the actor inside the locked transaction, and the
\* lifecycle read there is still the checklist's.
LockProtects ==
  /\ \A w \in Writers : request[w].step = "locked" <=> lock = w
  /\ \A r \in Reconcilers : At(r, "apply") <=> lock = r
  /\ \A w \in Writers : lock = w => request[w].life = lifecycle
  /\ \A r \in Reconcilers : lock = r => pass[r].life = lifecycle

\* A row's revision identifies its status: a row read earlier and since
\* unchanged in revision has the status it was read with.
RevisionsIdentify ==
  /\ \A k \in Keys : item[k].revision = 0 => item[k].status = "not_started"
  /\ \A w \in Writers, k \in Keys :
       /\ request[w].read[k].revision <= item[k].revision
       /\ request[w].read[k].revision = item[k].revision
            => request[w].read[k].status = item[k].status

\* Types come first: with them alone every step keeps types; with both, both.
Typed == TypeOK /\ TemplatesChosen /\ MovesToALifecycle
Protected == ChecklistFirst /\ LockProtects /\ RevisionsIdentify /\ CompletionStamp

USE DEF Item, NoItem, Entry, FeedEntry, Request, NoRequest, Pass, PassSteps, NoPass, NoPlan,
        Command, NoCommand, Statuses, Lifecycles, Sources
-----------------------------------------------------------------------------
(* The operators the actions are made of.                                  *)

\* A stage implies one of the three lifecycles or none (LifecycleForStage).
LEMMA StageImplies == \A s : LifecycleForStage(s) \in Lifecycles \cup {"none"}
BY DEF LifecycleForStage

\* Creation and insertion start rows at values of their kind.
LEMMA NewRowsTyped ==
  ASSUME item \in [Keys -> Item], NEW K
  PROVE  /\ \A k \in Keys : NewItem(k) \in Item
         /\ WithInserted(K) \in [Keys -> Item]
BY DEF NewItem, WithInserted

\* The sections of some keys are sections.
LEMMA SectionsTyped == \A K \in SUBSET Keys : SectionsOf(K) \subseteq SectionNames
BY StoreAssumption DEF SectionsOf

\* Creating from a real template keeps the store's types.
LEMMA CreateTyped ==
  ASSUME StoreTypeOK, NEW v \in 1..Templates, CreateChecklist(v)
  PROVE  StoreTypeOK'
<1>1. TemplateItems[v] \in SUBSET Keys
  BY StoreAssumption
<1>2. item' \in [Keys -> Item] /\ sections' \subseteq SectionNames
  BY <1>1, NewRowsTyped, SectionsTyped DEF CreateChecklist, StoreTypeOK
<1>3. [action |-> "template_expanded", added |-> TemplateItems[v]] \in FeedEntry
  BY <1>1
<1>4. feed' \in Seq(FeedEntry)
  BY <1>3 DEF CreateChecklist, StoreTypeOK
<1>5. pin' \in 0..Templates
  BY BoundsAssumption DEF CreateChecklist, StoreTypeOK
<1> QED
  BY <1>2, <1>4, <1>5 DEF CreateChecklist, StoreTypeOK

\* So does moving the lifecycle to one (UpdateLifecycle).
LEMMA MoveTyped ==
  ASSUME StoreTypeOK, NEW want \in Lifecycles, NEW read, UpdateLifecycle(want, read)
  PROVE  StoreTypeOK'
<1>1. StampFor(want) \in BOOLEAN
  BY DEF StampFor, StoreTypeOK
<1>2. lifecycle' \in Lifecycles \cup {"absent"} /\ revision' \in Nat /\ completedAt' \in BOOLEAN
  BY <1>1 DEF UpdateLifecycle, StoreTypeOK
<1> QED
  BY <1>2 DEF UpdateLifecycle, StoreTypeOK
-----------------------------------------------------------------------------
(* Every step keeps the types.                                             *)

\* The surroundings moving changes nothing the service holds.
LEMMA FactsTyped ==
  ASSUME Typed, FactsNext, UNCHANGED <<storeVars, request, pass, command>>
  PROVE  Typed'
<1> USE BoundsAssumption, KeysAssumption DEF Typed, TypeOK, FactsTypeOK
<1>1. FactsTypeOK'
  <2>1. ASSUME NEW s \in Stages, ProjectUpdated(s) PROVE FactsTypeOK'
    BY <2>1 DEF ProjectUpdated, Moved
  <2>2. ASSUME NEW k \in PlatformKeys, ResourceChanges(k) PROVE FactsTypeOK'
    BY <2>2 DEF ResourceChanges, Moved
  <2>3. CASE TemplatePublished
    BY <2>3 DEF TemplatePublished
  <2> QED
    BY <2>1, <2>2, <2>3 DEF FactsNext
<1> QED
  BY <1>1 DEF storeVars, StoreTypeOK, WriterTypeOK, ReconcilerTypeOK, OperatorTypeOK,
              TemplatesChosen, MovesToALifecycle, At

\* Nor does a person's request leave its types.
LEMMA WriterTyped ==
  ASSUME Typed, WriterNext, UNCHANGED <<factVars, pass, command>>
  PROVE  Typed'
<1> USE DEF Typed, TypeOK, StoreTypeOK, WriterTypeOK
<1>1. StoreTypeOK' /\ WriterTypeOK' /\ lock' \in {Nobody} \cup Writers \cup Reconcilers
  <2> SUFFICES ASSUME NEW w \in Writers,
                      \/ ReadChecklist(w)
                      \/ BeginMutation(w)
                      \/ \E k \in Keys, s \in Statuses : SetItemStatus(w, k, s)
                      \/ \E k \in Keys : KeepStatus(w, k)
                      \/ AbortMutation(w)
               PROVE  StoreTypeOK' /\ WriterTypeOK' /\ lock' \in {Nobody} \cup Writers \cup Reconcilers
    BY DEF WriterNext, EditItem, AssignItem, SetSubItems
  <2>0. request[w] \in Request /\ item \in [Keys -> Item] /\ lifecycle \in Lifecycles \cup {"absent"}
    OBVIOUS
  <2>1. CASE ReadChecklist(w)
    <3> DEFINE q == [request[w] EXCEPT !.step = "holding", !.read = item]
    <3>1. q \in Request
      BY <2>0
    <3>2. request' = [request EXCEPT ![w] = q]
      BY <2>1 DEF ReadChecklist
    <3> HIDE DEF q
    <3>3. WriterTypeOK'
      BY <3>1, <3>2
    <3> QED
      BY <2>1, <3>3 DEF ReadChecklist, storeVars
  <2>2. CASE BeginMutation(w)
    <3> DEFINE q == [request[w] EXCEPT !.step = "locked", !.life = lifecycle]
    <3>1. q \in Request
      BY <2>0
    <3>2. request' = [request EXCEPT ![w] = q]
      BY <2>2 DEF BeginMutation
    <3> HIDE DEF q
    <3>3. WriterTypeOK'
      BY <3>1, <3>2
    <3> QED
      BY <2>2, <3>3 DEF BeginMutation, LockFormation, formationVars
  <2>3. ASSUME NEW k \in Keys, NEW s \in Statuses, NEW source \in Sources,
               UpdateItem(k, s, source),
               AppendActivity(k, "user", item[k].status, s),
               EndMutation(w)
        PROVE  StoreTypeOK' /\ WriterTypeOK' /\ lock' = Nobody
    <3>1. item[k].revision + 1 \in Nat /\ item[k].status \in Statuses
      OBVIOUS
    <3>2. item' \in [Keys -> Item]
      BY <2>3, <3>1 DEF UpdateItem
    <3>3. [by |-> "user", before |-> item[k].status, after |-> s] \in Entry
      BY <3>1
    <3>4. Append(log[k], [by |-> "user", before |-> item[k].status, after |-> s]) \in Seq(Entry)
      BY <3>3
    <3>5. log' \in [Keys -> Seq(Entry)]
      BY <2>3, <3>4 DEF AppendActivity
    <3> QED
      BY <2>3, <3>2, <3>5 DEF EndMutation, Unlock, formationVars
  <2>4. ASSUME NEW k \in Keys, NEW s \in Statuses, SetItemStatus(w, k, s)
        PROVE  StoreTypeOK' /\ WriterTypeOK' /\ lock' = Nobody
    BY <2>3, <2>4 DEF SetItemStatus
  <2>5. ASSUME NEW k \in Keys, KeepStatus(w, k)
        PROVE  StoreTypeOK' /\ WriterTypeOK' /\ lock' = Nobody
    <3>1. item[k].status \in Statuses /\ item[k].source \in Sources
      OBVIOUS
    <3> QED
      BY <2>3, <2>5, <3>1 DEF KeepStatus
  <2>6. CASE AbortMutation(w)
    BY <2>6 DEF AbortMutation, EndMutation, Unlock, formationVars
  <2> QED
    BY <2>1, <2>2, <2>4, <2>5, <2>6
<1> QED
  BY <1>1 DEF factVars, FactsTypeOK, ReconcilerTypeOK, OperatorTypeOK,
              TemplatesChosen, MovesToALifecycle, At

\* Nor an operator's command or the schema script.
LEMMA OperatorTyped ==
  ASSUME Typed, OperatorNext, UNCHANGED <<factVars, request, pass>>
  PROVE  Typed'
<1> USE BoundsAssumption DEF Typed, TypeOK, StoreTypeOK, OperatorTypeOK
<1>1. /\ StoreTypeOK' /\ OperatorTypeOK' /\ lock' = lock
      /\ \A o \in Operators :
           command'[o].step # "idle" => command'[o].template \in 1..Templates
  <2> DEFINE Goal ==
        /\ StoreTypeOK' /\ OperatorTypeOK' /\ lock' = lock
        /\ \A o \in Operators :
             command'[o].step # "idle" => command'[o].template \in 1..Templates
  <2> SUFFICES Goal
    OBVIOUS
  <2>0. ASSUME NEW o \in Operators, NEW c \in Command, c.template \in 1..Templates,
               command' = [command EXCEPT ![o] = c], UNCHANGED storeVars
        PROVE  Goal
    <3>1. \A q \in Operators :
            /\ command'[q] \in Command
            /\ command'[q].step # "idle" => command'[q].template \in 1..Templates
      BY <2>0 DEF TemplatesChosen
    <3>2. OperatorTypeOK'
      BY <2>0, <3>1
    <3> QED
      BY <2>0, <3>1, <3>2 DEF storeVars
  <2>1. ASSUME NEW o \in Operators, SelectTemplate(o) PROVE Goal
    <3> DEFINE c == [command[o] EXCEPT !.step = "chosen", !.template = published]
    <3>1. published \in 1..Templates /\ command[o] \in Command
      BY <2>1 DEF SelectTemplate, FactsTypeOK
    <3>2. published \in Nat
      BY <3>1
    <3>3. c \in Command /\ c.template = published
      BY <3>1, <3>2
    <3>4. command' = [command EXCEPT ![o] = c] /\ UNCHANGED storeVars
      BY <2>1 DEF SelectTemplate
    <3> HIDE DEF c
    <3> QED
      BY <2>0, <3>1, <3>3, <3>4
  <2>2. ASSUME NEW o \in Operators, EndCommand(o)
        PROVE  /\ OperatorTypeOK'
               /\ \A q \in Operators :
                    command'[q].step # "idle" => command'[q].template \in 1..Templates
    BY <2>2 DEF EndCommand, TemplatesChosen
  <2>3. ASSUME NEW o \in Operators, ExpandCommand(o) PROVE Goal
    <3>1. command[o].template \in 1..Templates
      BY <2>3 DEF ExpandCommand, TemplatesChosen
    <3>2. StoreTypeOK' /\ lock' = lock
      BY <2>3, <3>1, CreateTyped DEF ExpandCommand, storeVars, CreateChecklist
    <3> QED
      BY <2>2, <2>3, <3>2 DEF ExpandCommand
  <2>4. ASSUME NEW o \in Operators, UpgradeRead(o) PROVE Goal
    <3> DEFINE c == [command[o] EXCEPT !.step = "read", !.revision = revision, !.sections = sections]
    <3>1. command[o] \in Command /\ revision \in Nat /\ sections \subseteq SectionNames
      OBVIOUS
    <3>2. c \in Command /\ c.template = command[o].template
      BY <3>1
    <3>3. command' = [command EXCEPT ![o] = c] /\ UNCHANGED storeVars /\ command[o].step # "idle"
      BY <2>4 DEF UpgradeRead
    <3> HIDE DEF c
    <3> QED
      BY <2>0, <3>2, <3>3 DEF TemplatesChosen
  <2>5. ASSUME NEW o \in Operators, UpgradeList(o) PROVE Goal
    <3> DEFINE c == [command[o] EXCEPT !.step = "listed", !.have = Present]
    <3>1. command[o] \in Command /\ Present \subseteq Keys
      BY DEF Present
    <3>2. c \in Command /\ c.template = command[o].template
      BY <3>1
    <3>3. command' = [command EXCEPT ![o] = c] /\ UNCHANGED storeVars /\ command[o].step # "idle"
      BY <2>5 DEF UpgradeList
    <3> HIDE DEF c
    <3> QED
      BY <2>0, <3>2, <3>3 DEF TemplatesChosen
  <2>6. ASSUME NEW o \in Operators, UpgradeCommit(o) PROVE Goal
    <3> DEFINE added == Landed(MissingItems(o))
    <3>1. TemplateItems[command[o].template] \in SUBSET Keys
      BY <2>6, StoreAssumption DEF UpgradeCommit, TemplatesChosen
    <3>2. added \in SUBSET Keys
      BY <3>1 DEF Landed, MissingItems
    <3>3. SectionsToRecord(o, added) \subseteq SectionNames
      BY <3>2, SectionsTyped DEF SectionsToRecord
    <3>4. feed' \in Seq(FeedEntry)
      <4>1. [action |-> "template_upgraded", added |-> added] \in FeedEntry
        BY <3>2
      <4>2. Append(feed, [action |-> "template_upgraded", added |-> added]) \in Seq(FeedEntry)
        BY <4>1
      <4> QED
        BY <2>6, <4>2 DEF UpgradeCommit
    <3>5. sections' \subseteq SectionNames /\ revision' \in Nat
      BY <2>6, <3>3 DEF UpgradeCommit
    <3>6. item' \in [Keys -> Item]
      BY <2>6, NewRowsTyped DEF UpgradeCommit
    <3> QED
      BY <2>2, <2>6, <3>4, <3>5, <3>6 DEF UpgradeCommit
  <2>7. ASSUME NEW o \in Operators, AbortCommand(o) PROVE Goal
    BY <2>2, <2>7 DEF AbortCommand, storeVars
  <2>8. CASE ApplySchema /\ UNCHANGED command
    <3>0. \A k \in Keys : item[k] \in Item
      OBVIOUS
    <3>1. \A k \in Keys : [item[k] EXCEPT !.source = "manual"] \in Item
      BY <3>0
    <3>2. item' \in [Keys -> Item]
      BY <2>8, <3>0, <3>1, Zenon DEF ApplySchema
    <3> QED
      BY <2>8, <3>2 DEF ApplySchema, TemplatesChosen
  <2> QED
    BY <2>1, <2>3, <2>4, <2>5, <2>6, <2>7, <2>8 DEF OperatorNext
<1> QED
  BY <1>1 DEF factVars, FactsTypeOK, WriterTypeOK, ReconcilerTypeOK,
              TemplatesChosen, MovesToALifecycle, At

\* A pass moving on to values of their kind keeps what is said of passes.
LEMMA PassTyped ==
  ASSUME Typed, NEW r \in Reconcilers, NEW p \in Pass,
         pass' = [pass EXCEPT ![r] = p],
         p.step = "create" => p.template \in 1..Templates,
         p.step = "move" => LifecycleForStage(p.stage) # "none"
  PROVE  /\ ReconcilerTypeOK'
         /\ \A q \in Reconcilers : At(q, "create")' => pass'[q].template \in 1..Templates
         /\ MovesToALifecycle'
<1>1. \A q \in Reconcilers :
        /\ pass'[q] \in Pass
        /\ pass'[q].step = "create" => pass'[q].template \in 1..Templates
        /\ pass'[q].step = "move" => LifecycleForStage(pass'[q].stage) # "none"
  BY DEF Typed, TypeOK, ReconcilerTypeOK, TemplatesChosen, MovesToALifecycle, At
<1>2. ReconcilerTypeOK'
  BY <1>1, Zenon DEF Typed, TypeOK, ReconcilerTypeOK
<1> QED
  BY <1>1, <1>2 DEF MovesToALifecycle, At

\* A pass keeps the types too.
LEMMA ReconcilerTyped ==
  ASSUME Typed, ReconcilerNext, UNCHANGED <<request, command>>
  PROVE  Typed'
<1> DEFINE Passes ==
      /\ ReconcilerTypeOK'
      /\ \A q \in Reconcilers : At(q, "create")' => pass'[q].template \in 1..Templates
      /\ MovesToALifecycle'
    Store == StoreTypeOK' /\ lock' \in {Nobody} \cup Writers \cup Reconcilers
    Goal == FactsTypeOK' /\ Store /\ Passes
<1>1. FactsTypeOK /\ StoreTypeOK /\ pass \in [Reconcilers -> Pass]
      /\ lock \in {Nobody} \cup Writers \cup Reconcilers
  BY DEF Typed, TypeOK, ReconcilerTypeOK
<1>2. ASSUME NoFault \/ OneFault PROVE FactsTypeOK'
  BY <1>1, <1>2, BoundsAssumption DEF NoFault, OneFault, Fault, factVars, FactsTypeOK
<1>3. ASSUME UNCHANGED storeVars PROVE Store
  BY <1>1, <1>3 DEF storeVars, StoreTypeOK
<1>4. ASSUME NEW r \in Reconcilers, EndPass(r) PROVE Passes
  <2>1. NoPass \in Pass /\ NoPass.step = "idle"
    BY DEF AllStages
  <2> QED
    BY <1>4, <2>1, PassTyped DEF EndPass
<1>5. ASSUME NEW r \in Reconcilers, NEW step \in PassSteps \ {"create", "move"}, GoOn(r, step)
      PROVE  Passes
  <2> DEFINE p == [pass[r] EXCEPT !.step = step]
  <2>1. pass[r] \in Pass
    BY <1>1
  <2>2. p \in Pass /\ p.step = step
    BY <2>1
  <2>3. pass' = [pass EXCEPT ![r] = p]
    BY <1>5 DEF GoOn
  <2> HIDE DEF p
  <2> QED
    BY <2>2, <2>3, PassTyped
<1>6. ASSUME NEW r \in Reconcilers, AfterSync(r) PROVE Passes
  BY <1>4, <1>5, <1>6 DEF AfterSync
<1> SUFFICES ASSUME NEW r \in Reconcilers,
                    \/ BeginSweep(r)
                    \/ \E s \in Stages : HandleEvent(r, s)
                    \/ Proceed(r)
                    \/ StopPass(r)
             PROVE  Goal
  BY DEF ReconcilerNext, Typed, TypeOK, WriterTypeOK, OperatorTypeOK, TemplatesChosen
<1>0. pass[r] \in Pass /\ lifecycle \in Lifecycles \cup {"absent"} /\ revision \in Nat
  BY <1>1 DEF StoreTypeOK
<1>7. CASE BeginSweep(r)
  <2>1. PICK known \in KnownAnswers :
          /\ NoFault \/ OneFault
          /\ pass' = [pass EXCEPT ![r] = [NoPass EXCEPT !.step = "list", !.known = known]]
    BY <1>7 DEF BeginSweep
  <2> DEFINE p == [NoPass EXCEPT !.step = "list", !.known = known]
  <2>2. p \in Pass /\ p.step = "list"
    BY DEF AllStages, KnownAnswers, Exists
  <2>3. pass' = [pass EXCEPT ![r] = p]
    BY <2>1
  <2> HIDE DEF p
  <2>4. Passes
    BY <2>2, <2>3, PassTyped
  <2> QED
    BY <1>2, <1>3, <1>7, <2>1, <2>4 DEF BeginSweep
<1>8. ASSUME NEW s \in Stages, HandleEvent(r, s) PROVE Goal
  <2>1. PICK known \in KnownAnswers :
          /\ UNCHANGED faults \/ Fault
          /\ pass' = [pass EXCEPT ![r] = [NoPass EXCEPT !.step = "decide", !.trigger = "listener",
                                                        !.stage = s, !.known = known]]
    BY <1>8 DEF HandleEvent
  <2> DEFINE p == [NoPass EXCEPT !.step = "decide", !.trigger = "listener",
                                 !.stage = s, !.known = known]
  <2>2. s \in AllStages
    BY StagesAssumption
  <2>3. p \in Pass /\ p.step = "decide"
    BY <2>2 DEF KnownAnswers, Exists
  <2>4. pass' = [pass EXCEPT ![r] = p]
    BY <2>1
  <2> HIDE DEF p
  <2>5. Passes
    BY <2>3, <2>4, PassTyped
  <2>6. faults' \in 0..MaxFaults
    BY <1>1, <2>1, BoundsAssumption DEF Fault, FactsTypeOK
  <2>7. inbox' \subseteq Stages /\ UNCHANGED <<stage, resources, published, moves>>
    BY <1>1, <1>8 DEF HandleEvent, FactsTypeOK
  <2>8. FactsTypeOK'
    BY <1>1, <2>6, <2>7 DEF FactsTypeOK
  <2> QED
    BY <1>3, <1>8, <2>5, <2>8 DEF HandleEvent
<1>9. CASE ListProjects(r)
  <2> DEFINE p == [pass[r] EXCEPT !.step = "decide", !.stage = stage]
  <2>1. stage \in AllStages
    BY <1>1, StagesAssumption DEF FactsTypeOK
  <2>2. p \in Pass /\ p.step = "decide"
    BY <1>0, <2>1
  <2>3. pass' = [pass EXCEPT ![r] = p] \/ EndPass(r)
    BY <1>9 DEF ListProjects
  <2> HIDE DEF p
  <2>4. Passes
    BY <1>4, <2>2, <2>3, PassTyped
  <2> QED
    BY <1>2, <1>3, <1>9, <2>4 DEF ListProjects
<1>10. CASE Decide(r)
  <2>1. PICK tpl \in {0, published} :
          /\ NoFault \/ OneFault
          /\ pass' = [pass EXCEPT ![r] =
               IF Creates(r) /\ tpl > 0
                 THEN [@ EXCEPT !.step = "create", !.template = tpl]
                 ELSE [@ EXCEPT !.step = "sync"]]
    BY <1>10 DEF Decide
  <2>2. tpl \in 0..Templates /\ tpl \in Nat
    BY <1>1, BoundsAssumption DEF FactsTypeOK
  <2>3. CASE Creates(r) /\ tpl > 0
    <3> DEFINE p == [pass[r] EXCEPT !.step = "create", !.template = tpl]
    <3>1. p \in Pass /\ p.step = "create" /\ p.template = tpl
      BY <1>0, <2>2
    <3>2. pass' = [pass EXCEPT ![r] = p]
      BY <2>1, <2>3
    <3> HIDE DEF p
    <3>3. tpl \in 1..Templates
      BY <2>2, <2>3, BoundsAssumption
    <3>4. Passes
      BY <3>1, <3>2, <3>3, PassTyped
    <3> QED
      BY <1>2, <1>3, <1>10, <2>1, <3>4 DEF Decide
  <2>4. CASE ~(Creates(r) /\ tpl > 0)
    <3>1. GoOn(r, "sync")
      BY <2>1, <2>4 DEF GoOn
    <3> QED
      BY <1>2, <1>3, <1>5, <1>10, <2>1, <3>1 DEF Decide
  <2> QED
    BY <2>3, <2>4
<1>11. CASE Create(r)
  <2>1. pass[r].template \in 1..Templates
    BY <1>11 DEF Create, Typed, TemplatesChosen
  <2>2. Store
    BY <1>1, <1>3, <1>11, <2>1, CreateTyped DEF Create, CreateChecklist
  <2> QED
    BY <1>2, <1>5, <1>11, <2>2 DEF Create
<1>12. CASE SyncRead(r)
  <2>1. ASSUME ~InStep(r),
               pass' = [pass EXCEPT ![r] = [@ EXCEPT !.step = "move", !.revision = revision]]
        PROVE  Passes
    <3> DEFINE p == [pass[r] EXCEPT !.step = "move", !.revision = revision]
    <3>1. p \in Pass /\ p.step = "move" /\ p.stage = pass[r].stage
      BY <1>0
    <3>2. pass' = [pass EXCEPT ![r] = p]
      BY <2>1
    <3> HIDE DEF p
    <3>3. LifecycleForStage(p.stage) # "none"
      BY <2>1, <3>1 DEF InStep
    <3> QED
      BY <3>1, <3>2, <3>3, PassTyped
  <2> QED
    BY <1>2, <1>3, <1>6, <1>12, <2>1 DEF SyncRead
<1>13. CASE SyncWrite(r)
  <2>1. LifecycleForStage(pass[r].stage) \in Lifecycles
    BY <1>13, StageImplies DEF SyncWrite, Typed, MovesToALifecycle
  <2>2. Store
    BY <1>1, <1>13, <2>1, MoveTyped DEF SyncWrite, UpdateLifecycle
  <2> QED
    BY <1>2, <1>6, <1>13, <2>2 DEF SyncWrite
<1>14. ASSUME NEW K \in SUBSET Keys, NEW rows \in [Keys -> Item], NEW step \in {"ask", "lock"},
              pass' = [pass EXCEPT ![r] =
                [@ EXCEPT !.step = step, !.plan = [k \in Keys |-> IF k \in K THEN rows[k] ELSE NoItem]]]
       PROVE  Passes
  <2> DEFINE plan == [k \in Keys |-> IF k \in K THEN rows[k] ELSE NoItem]
             p == [pass[r] EXCEPT !.step = step, !.plan = plan]
  <2>1. plan \in [Keys -> Item]
    OBVIOUS
  <2>2. pass' = [pass EXCEPT ![r] = p]
    BY <1>14
  <2> HIDE DEF plan
  <2>3. p \in Pass /\ p.step = step
    BY <1>0, <2>1
  <2> HIDE DEF p
  <2> QED
    BY <2>2, <2>3, PassTyped
<1>15. CASE PlanPlatform(r)
  <2>1. (IF Mutable(lifecycle) THEN Candidates ELSE {}) \in SUBSET Keys
    BY DEF Candidates, Present
  <2>2. item \in [Keys -> Item]
    BY <1>1 DEF StoreTypeOK
  <2>3. Passes
    BY <1>14, <1>15, <2>1, <2>2 DEF PlanPlatform
  <2> QED
    BY <1>2, <1>3, <1>15, <2>3 DEF PlanPlatform
<1>16. CASE AskPlatform(r)
  <2>1. PICK found \in SUBSET (Planned(r) \cap resources) :
          /\ NoFault \/ OneFault
          /\ IF found = {}
               THEN EndPass(r)
               ELSE pass' = [pass EXCEPT ![r] =
                      [@ EXCEPT !.step = "lock",
                                !.plan = [k \in Keys |-> IF k \in found THEN pass[r].plan[k] ELSE NoItem]]]
    BY <1>16 DEF AskPlatform
  <2>2. found \in SUBSET Keys /\ pass[r].plan \in [Keys -> Item]
    BY <1>1 DEF Planned
  <2>3. Passes
    BY <1>4, <1>14, <2>1, <2>2
  <2> QED
    BY <1>2, <1>3, <1>16, <2>1, <2>3 DEF AskPlatform
<1>17. CASE LockPlatform(r)
  <2> DEFINE p == [pass[r] EXCEPT !.step = "apply", !.life = lifecycle]
  <2>1. p \in Pass /\ p.step = "apply"
    BY <1>0
  <2>2. pass' = [pass EXCEPT ![r] = p]
    BY <1>17 DEF LockPlatform
  <2> HIDE DEF p
  <2>3. Passes
    BY <2>1, <2>2, PassTyped
  <2>4. Store
    BY <1>1, <1>17 DEF LockPlatform, LockFormation, formationVars, StoreTypeOK
  <2> QED
    BY <1>2, <1>17, <2>3, <2>4 DEF LockPlatform
<1>18. CASE ApplyPlatform(r)
  <2>1. item' \in [Keys -> Item]
    <3>1. \A k \in Keys : item[k] \in Item /\ item[k].revision + 1 \in Nat
      BY <1>1 DEF StoreTypeOK
    <3>2. \A k \in Keys : [item[k] EXCEPT !.status = "done", !.revision = @ + 1] \in Item
      BY <3>1
    <3> QED
      BY <1>1, <1>18, <3>1, <3>2, Zenon DEF ApplyPlatform, StoreTypeOK
  <2>2. log' \in [Keys -> Seq(Entry)]
    <3>1. \A k \in Keys :
            [by |-> "system", before |-> pass[r].plan[k].status, after |-> "done"] \in Entry
      BY <1>1
    <3>2. \A k \in Keys :
            Append(log[k], [by |-> "system", before |-> pass[r].plan[k].status, after |-> "done"])
              \in Seq(Entry)
      BY <1>1, <3>1 DEF StoreTypeOK
    <3> QED
      BY <1>1, <1>18, <3>2, Zenon DEF ApplyPlatform, StoreTypeOK
  <2> QED
    BY <1>1, <1>2, <1>4, <1>18, <2>1, <2>2 DEF ApplyPlatform, Unlock, formationVars, StoreTypeOK
<1>19. CASE StopPass(r)
  BY <1>1, <1>2, <1>4, <1>19 DEF StopPass, formationVars, StoreTypeOK
<1> QED
  BY <1>7, <1>8, <1>9, <1>10, <1>11, <1>12, <1>13, <1>15, <1>16, <1>17, <1>18, <1>19 DEF Proceed

\* Every step of the whole system keeps the types.
LEMMA StepTyped ==
  ASSUME Typed, [Next]_vars
  PROVE  Typed'
<1>1. CASE UNCHANGED vars
  BY <1>1 DEF vars, factVars, storeVars, Typed, TypeOK, FactsTypeOK, StoreTypeOK, WriterTypeOK,
              ReconcilerTypeOK, OperatorTypeOK, TemplatesChosen, MovesToALifecycle, At
<1>2. CASE FactsNext /\ UNCHANGED <<storeVars, request, pass, command>>
  BY <1>2, FactsTyped
<1>3. CASE WriterNext /\ UNCHANGED <<factVars, pass, command>>
  BY <1>3, WriterTyped
<1>4. CASE ReconcilerNext /\ UNCHANGED <<request, command>>
  BY <1>4, ReconcilerTyped
<1>5. CASE OperatorNext /\ UNCHANGED <<factVars, request, pass>>
  BY <1>5, OperatorTyped
<1> QED
  BY <1>1, <1>2, <1>3, <1>4, <1>5 DEF Next

LEMMA InitTyped == Init => Typed
<1> SUFFICES ASSUME Init PROVE Typed
  OBVIOUS
<1>1. FactsTypeOK
  BY BoundsAssumption DEF Init, FactsInit, FactsTypeOK
<1>2. StoreTypeOK /\ lock = Nobody
  <2>1. <<>> \in Seq(Entry) /\ <<>> \in Seq(FeedEntry)
    OBVIOUS
  <2>2. item \in [Keys -> Item] /\ log \in [Keys -> Seq(Entry)] /\ feed \in Seq(FeedEntry)
    BY <2>1 DEF Init, StoreInit
  <2>3. lifecycle = "absent" /\ revision \in Nat /\ sections \subseteq SectionNames
        /\ pin \in 0..Templates /\ lock = Nobody
    BY BoundsAssumption, SMT DEF Init, StoreInit
  <2>4. completedAt \in BOOLEAN
    BY Zenon DEF Init, StoreInit
  <2> QED
    BY <2>2, <2>3, <2>4 DEF StoreTypeOK
<1>3. WriterTypeOK
  BY DEF Init, WriterInit, WriterTypeOK
<1>4. ReconcilerTypeOK
  BY DEF Init, ReconcilerInit, ReconcilerTypeOK, AllStages
<1>5. OperatorTypeOK
  BY DEF Init, OperatorInit, OperatorTypeOK
<1>6. TemplatesChosen /\ MovesToALifecycle
  BY DEF Init, ReconcilerInit, OperatorInit, TemplatesChosen, MovesToALifecycle, At
<1> QED
  BY <1>1, <1>2, <1>3, <1>4, <1>5, <1>6 DEF Typed, TypeOK

\* Every variable always holds a value of its kind.
THEOREM TypeCorrect == Spec => []TypeOK
<1>1. Spec => []Typed
  BY InitTyped, StepTyped, PTL DEF Spec
<1>2. Typed => TypeOK
  BY DEF Typed
<1> QED
  BY <1>1, <1>2, PTL
-----------------------------------------------------------------------------
(* Row locks protect the lifecycle; revisions protect what people saw.     *)

\* Rows only move forward: none goes, and a status moves only with its revision.
RowsAdvance ==
  \A k \in Keys :
    /\ item[k].revision <= item'[k].revision
    /\ item'[k].revision = item[k].revision => item'[k].status = item[k].status

\* Whatever advances the rows and starts no read keeps earlier reads honest.
LEMMA ReadsStayHonest ==
  ASSUME Typed, Typed', RevisionsIdentify, RowsAdvance,
         \A w \in Writers : request'[w].read = request[w].read \/ request'[w].read = NoRequest.read
  PROVE  RevisionsIdentify'
<1>1. \A k \in Keys : item[k] \in Item /\ item'[k] \in Item
  BY DEF Typed, TypeOK, StoreTypeOK
<1>2. \A w \in Writers, k \in Keys : request[w].read[k] \in Item
  BY DEF Typed, TypeOK, WriterTypeOK
<1>3. \A w \in Writers, k \in Keys :
        /\ request'[w].read[k].revision <= item'[k].revision
        /\ request'[w].read[k].revision = item'[k].revision
             => request'[w].read[k].status = item'[k].status
  <2> SUFFICES ASSUME NEW w \in Writers, NEW k \in Keys
               PROVE  /\ request'[w].read[k].revision <= item'[k].revision
                      /\ request'[w].read[k].revision = item'[k].revision
                           => request'[w].read[k].status = item'[k].status
    OBVIOUS
  <2>1. /\ item[k].revision \in Nat /\ item'[k].revision \in Nat
        /\ request[w].read[k].revision \in Nat
    BY <1>1, <1>2
  <2>2. /\ item[k].revision <= item'[k].revision
        /\ item'[k].revision = item[k].revision => item'[k].status = item[k].status
    BY DEF RowsAdvance
  <2>3. CASE request'[w].read = request[w].read
    <3>1. /\ request[w].read[k].revision <= item[k].revision
          /\ request[w].read[k].revision = item[k].revision
               => request[w].read[k].status = item[k].status
      BY DEF RevisionsIdentify
    <3> QED
      BY <2>1, <2>2, <2>3, <3>1
  <2>4. CASE request'[w].read = NoRequest.read
    <3>1. item[k].revision = 0 => item[k].status = "not_started"
      BY DEF RevisionsIdentify
    <3>2. request'[w].read[k].revision = 0 /\ request'[w].read[k].status = "not_started"
      BY <2>4
    <3> QED
      BY <2>1, <2>2, <3>1, <3>2
  <2> QED
    BY <2>3, <2>4
<1>4. \A k \in Keys : item'[k].revision = 0 => item'[k].status = "not_started"
  <2> SUFFICES ASSUME NEW k \in Keys, item'[k].revision = 0
               PROVE  item'[k].status = "not_started"
    OBVIOUS
  <2>1. item[k].revision \in Nat
    BY <1>1
  <2>2. item[k].revision = 0
    BY <2>1 DEF RowsAdvance
  <2> QED
    BY <2>2 DEF RowsAdvance, RevisionsIdentify
<1> QED
  BY <1>3, <1>4 DEF RevisionsIdentify

\* The three ways rows change all advance them: creation where there are none,
\* insertion of the ones missing, and a write that bumps the revision.
LEMMA CreationAdvances ==
  ASSUME Typed, Present = {}, NEW v, CreateChecklist(v)
  PROVE  RowsAdvance
<1>1. \A k \in Keys : item[k].revision \in Nat /\ ~(item[k].revision > 0)
  BY DEF Typed, TypeOK, StoreTypeOK, Present
<1>2. \A k \in Keys : item'[k] = IF k \in TemplateItems[v] THEN NewItem(k) ELSE item[k]
  BY DEF CreateChecklist
<1>3. \A k \in Keys : NewItem(k).revision = 1
  BY DEF NewItem
<1> QED
  BY <1>1, <1>2, <1>3 DEF RowsAdvance

LEMMA InsertionAdvances ==
  ASSUME Typed, NEW K \in SUBSET Keys, item' = WithInserted(K)
  PROVE  /\ RowsAdvance
         /\ \A k \in Present : item'[k] = item[k]
<1>1. \A k \in Keys : item[k].revision \in Nat /\ (item[k].revision > 0 <=> k \in Present)
  BY DEF Typed, TypeOK, StoreTypeOK, Present
<1>2. \A k \in Keys : item'[k] = IF k \in K \ Present THEN NewItem(k) ELSE item[k]
  BY DEF WithInserted, Landed
<1>3. \A k \in Keys : NewItem(k).revision = 1
  BY DEF NewItem
<1> QED
  BY <1>1, <1>2, <1>3 DEF RowsAdvance, Present

LEMMA WriteAdvances ==
  ASSUME Typed, NEW k \in Keys, NEW s, NEW source, UpdateItem(k, s, source)
  PROVE  RowsAdvance
<1>1. item \in [Keys -> Item] /\ \A j \in Keys : item[j].revision \in Nat
  BY DEF Typed, TypeOK, StoreTypeOK
<1>2. \A j \in Keys : item'[j] = IF j = k THEN [status |-> s, source |-> source,
                                                revision |-> item[k].revision + 1]
                                          ELSE item[j]
  BY <1>1 DEF UpdateItem
<1> QED
  BY <1>1, <1>2 DEF RowsAdvance

LEMMA NothingAdvances == ASSUME Typed, UNCHANGED item PROVE RowsAdvance
<1>1. \A k \in Keys : item[k].revision \in Nat
  BY DEF Typed, TypeOK, StoreTypeOK
<1> QED
  BY <1>1 DEF RowsAdvance

\* The surroundings leave all of it alone.
LEMMA FactsProtected ==
  ASSUME Protected, UNCHANGED <<storeVars, request, pass, command>>
  PROVE  Protected'
BY DEF storeVars, Protected, ChecklistFirst, LockProtects, RevisionsIdentify, CompletionStamp,
       Exists, Present, At

\* A person's request takes the lock with the lifecycle it reads, and lets go
\* of it with the write.
LEMMA WriterProtected ==
  ASSUME Typed, Typed', Protected, WriterNext, UNCHANGED <<factVars, pass, command>>
  PROVE  Protected'
<1> USE WriterAssumption, ReconcilerAssumption, ActorsAssumption
<1> SUFFICES ASSUME NEW w \in Writers,
                    \/ ReadChecklist(w)
                    \/ BeginMutation(w)
                    \/ \E k \in Keys, s \in Statuses : SetItemStatus(w, k, s)
                    \/ \E k \in Keys : KeepStatus(w, k)
                    \/ AbortMutation(w)
             PROVE  Protected'
  BY DEF WriterNext, EditItem, AssignItem, SetSubItems
<1>1. request \in [Writers -> Request] /\ request' \in [Writers -> Request]
  BY DEF Typed, TypeOK, WriterTypeOK
<1>2. CASE ReadChecklist(w)
  <2>1. UNCHANGED storeVars /\ request[w].step = "idle"
    BY <1>2 DEF ReadChecklist
  <2>2. \A v \in Writers :
          request'[v] = IF v = w THEN [request[w] EXCEPT !.step = "holding", !.read = item]
                                 ELSE request[v]
    BY <1>1, <1>2 DEF ReadChecklist
  <2>3. request'[w].step = "holding" /\ request'[w].read = item /\ request'[w].life = request[w].life
    BY <1>1, <2>2
  <2>4. LockProtects'
    BY <2>1, <2>2, <2>3 DEF Protected, LockProtects, storeVars, At
  <2>5. RevisionsIdentify'
    <3>1. \A k \in Keys : item[k].revision \in Nat
      BY DEF Typed, TypeOK, StoreTypeOK
    <3> QED
      BY <2>1, <2>2, <2>3, <3>1 DEF Protected, RevisionsIdentify, storeVars
  <2>6. ChecklistFirst' /\ CompletionStamp'
    BY <2>1 DEF Protected, ChecklistFirst, CompletionStamp, storeVars, Exists, Present, At
  <2> QED
    BY <2>4, <2>5, <2>6 DEF Protected
<1>3. CASE BeginMutation(w)
  <2>1. Exists /\ lock = Nobody /\ lock' = w /\ UNCHANGED <<formationVars, item>>
    BY <1>3 DEF BeginMutation, LockFormation
  <2>2. \A v \in Writers :
          request'[v] = IF v = w THEN [request[w] EXCEPT !.step = "locked", !.life = lifecycle]
                                 ELSE request[v]
    BY <1>1, <1>3 DEF BeginMutation
  <2>3. /\ request'[w].step = "locked" /\ request'[w].life = lifecycle
        /\ request'[w].read = request[w].read
    BY <1>1, <2>2
  <2>4. LockProtects'
    BY <2>1, <2>2, <2>3 DEF Protected, LockProtects, formationVars, At
  <2>5. RevisionsIdentify'
    BY <2>1, <2>2, <2>3, ReadsStayHonest, NothingAdvances DEF Protected
  <2>6. ChecklistFirst' /\ CompletionStamp'
    BY <2>1 DEF Protected, ChecklistFirst, CompletionStamp, formationVars, Exists, Present, At
  <2> QED
    BY <2>4, <2>5, <2>6 DEF Protected
<1>4. ASSUME EndMutation(w), RowsAdvance, UNCHANGED <<lifecycle, completedAt>>
      PROVE  Protected'
  <2>1. lock = w /\ lock' = Nobody /\ request' = [request EXCEPT ![w] = NoRequest]
    BY <1>4 DEF EndMutation, Unlock
  <2>2. \A v \in Writers : request'[v] = IF v = w THEN NoRequest ELSE request[v]
    BY <1>1, <2>1
  <2>3. LockProtects'
    BY <2>1, <2>2 DEF Protected, LockProtects, At
  <2>4. RevisionsIdentify'
    BY <1>4, <2>2, ReadsStayHonest DEF Protected
  <2>5. Exists
    BY <2>1 DEF Protected, ChecklistFirst
  <2>6. ChecklistFirst' /\ CompletionStamp'
    BY <1>4, <2>1, <2>5 DEF Protected, ChecklistFirst, CompletionStamp, Exists, At
  <2> QED
    BY <2>3, <2>4, <2>6 DEF Protected
<1>5. ASSUME NEW k \in Keys, NEW s \in Statuses, SetItemStatus(w, k, s) PROVE Protected'
  BY <1>4, <1>5, WriteAdvances DEF SetItemStatus, EndMutation, formationVars
<1>6. ASSUME NEW k \in Keys, KeepStatus(w, k) PROVE Protected'
  BY <1>4, <1>6, WriteAdvances DEF KeepStatus, EndMutation, formationVars
<1>7. CASE AbortMutation(w)
  BY <1>4, <1>7, NothingAdvances DEF AbortMutation, EndMutation, formationVars
<1> QED
  BY <1>2, <1>3, <1>5, <1>6, <1>7

\* Creating a checklist where there is none protects everything: nobody holds a
\* row that is not there.
LEMMA CreationProtected ==
  ASSUME Typed, Typed', Protected, ~Exists, NEW v, CreateChecklist(v),
         \A w \in Writers : request'[w] = request[w],
         \A r \in Reconcilers : At(r, "apply")' => At(r, "apply"),
         \A r \in Reconcilers : At(r, "apply") => pass'[r] = pass[r]
  PROVE  Protected'
<1>1. Present = {} /\ lock = Nobody /\ lock' = Nobody /\ Exists'
  BY DEF Protected, ChecklistFirst, CreateChecklist, Exists
<1>2. RevisionsIdentify'
  BY <1>1, CreationAdvances, ReadsStayHonest DEF Protected
<1>3. LockProtects'
  BY <1>1, WriterAssumption, ReconcilerAssumption DEF Protected, LockProtects, At
<1>4. ChecklistFirst' /\ CompletionStamp'
  BY <1>1 DEF ChecklistFirst, CompletionStamp, CreateChecklist
<1> QED
  BY <1>2, <1>3, <1>4 DEF Protected

\* A command takes no row lock, and adds rows only beside a checklist.
LEMMA OperatorProtected ==
  ASSUME Typed, Typed', Protected, OperatorNext, UNCHANGED <<factVars, request, pass>>
  PROVE  Protected'
<1> SUFFICES ASSUME \/ \E o \in Operators :
                         \/ SelectTemplate(o)
                         \/ ExpandCommand(o)
                         \/ UpgradeRead(o)
                         \/ UpgradeList(o)
                         \/ UpgradeCommit(o)
                         \/ AbortCommand(o)
                    \/ ApplySchema /\ UNCHANGED command
             PROVE  Protected'
  BY DEF OperatorNext
<1>1. command \in [Operators -> Command]
  BY DEF Typed, TypeOK, OperatorTypeOK
<1>2. ASSUME RowsAdvance, UNCHANGED <<lifecycle, completedAt, lock>>, ~Exists => Present' = {},
             \A o \in Operators : command'[o].step \in {"read", "listed"} => Exists
      PROVE  Protected'
  <2>1. RevisionsIdentify'
    BY <1>2, ReadsStayHonest DEF Protected
  <2>2. LockProtects'
    BY <1>2 DEF Protected, LockProtects, At
  <2>3. ChecklistFirst' /\ CompletionStamp'
    BY <1>2 DEF Protected, ChecklistFirst, CompletionStamp, Exists, At
  <2> QED
    BY <2>1, <2>2, <2>3 DEF Protected
<1>3. ASSUME UNCHANGED storeVars,
             \A o \in Operators : command'[o].step \in {"read", "listed"} => Exists
      PROVE  Protected'
  BY <1>2, <1>3, NothingAdvances DEF storeVars, Present, Protected, ChecklistFirst
<1>4. ASSUME NEW o \in Operators, EndCommand(o)
      PROVE  \A q \in Operators : command'[q].step \in {"read", "listed"} => Exists
  BY <1>1, <1>4 DEF EndCommand, Protected, ChecklistFirst
<1>5. ASSUME NEW o \in Operators, SelectTemplate(o) PROVE Protected'
  <2>1. \A q \in Operators :
          command'[q] = IF q = o THEN [command[o] EXCEPT !.step = "chosen", !.template = published]
                                 ELSE command[q]
    BY <1>1, <1>5 DEF SelectTemplate
  <2>2. command'[o].step = "chosen"
    BY <1>1, <2>1
  <2> QED
    BY <1>3, <1>5, <2>1, <2>2 DEF SelectTemplate, Protected, ChecklistFirst
<1>6. ASSUME NEW o \in Operators, ExpandCommand(o) PROVE Protected'
  <2>1. CASE Exists
    BY <1>3, <1>4, <1>6, <2>1 DEF ExpandCommand
  <2>2. CASE ~Exists
    BY <1>6, <2>2, CreationProtected DEF ExpandCommand, At
  <2> QED
    BY <2>1, <2>2
<1>7. ASSUME NEW o \in Operators, UpgradeRead(o) PROVE Protected'
  BY <1>1, <1>3, <1>7 DEF UpgradeRead, Protected, ChecklistFirst
<1>8. ASSUME NEW o \in Operators, UpgradeList(o) PROVE Protected'
  BY <1>1, <1>3, <1>8 DEF UpgradeList, Protected, ChecklistFirst
<1>9. ASSUME NEW o \in Operators, UpgradeCommit(o) PROVE Protected'
  <2>1. Exists
    BY <1>9 DEF UpgradeCommit, Protected, ChecklistFirst
  <2>2. MissingItems(o) \in SUBSET Keys
    BY <1>9, StoreAssumption DEF UpgradeCommit, MissingItems, Typed, TemplatesChosen
  <2>3. RowsAdvance
    BY <1>9, <2>2, InsertionAdvances DEF UpgradeCommit
  <2> QED
    BY <1>2, <1>4, <1>9, <2>1, <2>3 DEF UpgradeCommit
<1>10. ASSUME NEW o \in Operators, AbortCommand(o) PROVE Protected'
  BY <1>3, <1>4, <1>10 DEF AbortCommand
<1>11. CASE ApplySchema /\ UNCHANGED command
  <2>1. \A k \in Keys : item[k] \in Item
    BY DEF Typed, TypeOK, StoreTypeOK
  <2>2. \A k \in Keys : item'[k] \in {item[k], [item[k] EXCEPT !.source = "manual"]}
    BY <1>11 DEF ApplySchema
  <2>3. \A k \in Keys : item'[k].revision = item[k].revision /\ item'[k].status = item[k].status
    BY <2>1, <2>2
  <2>4. RowsAdvance
    BY <2>1, <2>3 DEF RowsAdvance
  <2>5. Exists
    BY <1>11 DEF ApplySchema, Exists
  <2> QED
    BY <1>2, <1>11, <2>4, <2>5 DEF ApplySchema, Protected, ChecklistFirst
<1> QED
  BY <1>5, <1>6, <1>7, <1>8, <1>9, <1>10, <1>11

\* A pass takes the lock with the lifecycle it reads, moves the lifecycle only
\* when nobody holds it, and advances rows only while holding it.
LEMMA ReconcilerProtected ==
  ASSUME Typed, Typed', Protected, ReconcilerNext, UNCHANGED <<request, command>>
  PROVE  Protected'
<1> USE WriterAssumption, ReconcilerAssumption, ActorsAssumption
<1>1. pass \in [Reconcilers -> Pass]
  BY DEF Typed, TypeOK, ReconcilerTypeOK
<1>2. ASSUME NEW r \in Reconcilers, lock # r,
             \A q \in Reconcilers : q # r => pass'[q] = pass[q],
             ~At(r, "apply")', At(r, "move")' => Exists,
             UNCHANGED storeVars
      PROVE  Protected'
  <2>1. RevisionsIdentify'
    BY <1>2, NothingAdvances, ReadsStayHonest DEF storeVars, Protected
  <2>2. LockProtects'
    BY <1>2 DEF storeVars, Protected, LockProtects, At
  <2>3. ChecklistFirst' /\ CompletionStamp'
    BY <1>2 DEF storeVars, Protected, ChecklistFirst, CompletionStamp, Exists, Present, At
  <2> QED
    BY <2>1, <2>2, <2>3 DEF Protected
<1> SUFFICES ASSUME NEW r \in Reconcilers,
                    \/ BeginSweep(r)
                    \/ \E s \in Stages : HandleEvent(r, s)
                    \/ Proceed(r)
                    \/ StopPass(r)
             PROVE  Protected'
  BY DEF ReconcilerNext
<1>3. \A step \in PassSteps \ {"apply"} : At(r, step) => lock # r
  BY DEF Protected, LockProtects, At
<1>4. ASSUME EndPass(r)
      PROVE  /\ \A q \in Reconcilers : q # r => pass'[q] = pass[q]
             /\ ~At(r, "apply")' /\ ~At(r, "move")'
  BY <1>1, <1>4 DEF EndPass, At
<1>5. ASSUME NEW step \in PassSteps \ {"apply", "move"}, GoOn(r, step)
      PROVE  /\ \A q \in Reconcilers : q # r => pass'[q] = pass[q]
             /\ ~At(r, "apply")' /\ ~At(r, "move")'
  BY <1>1, <1>5 DEF GoOn, At
<1>6. ASSUME AfterSync(r)
      PROVE  /\ \A q \in Reconcilers : q # r => pass'[q] = pass[q]
             /\ ~At(r, "apply")' /\ ~At(r, "move")'
  BY <1>4, <1>5, <1>6 DEF AfterSync
<1>7. CASE BeginSweep(r)
  <2>1. PICK known : pass' = [pass EXCEPT ![r] = [NoPass EXCEPT !.step = "list", !.known = known]]
    BY <1>7 DEF BeginSweep
  <2> QED
    BY <1>1, <1>2, <1>3, <1>7, <2>1 DEF BeginSweep, At
<1>8. ASSUME NEW s \in Stages, HandleEvent(r, s) PROVE Protected'
  <2>1. UNCHANGED storeVars /\ lock # r
    BY <1>3, <1>8 DEF HandleEvent
  <2>2. PICK known : pass' = [pass EXCEPT ![r] = [NoPass EXCEPT !.step = "decide",
                                !.trigger = "listener", !.stage = s, !.known = known]]
    BY <1>8 DEF HandleEvent
  <2> DEFINE p == [NoPass EXCEPT !.step = "decide", !.trigger = "listener",
                                 !.stage = s, !.known = known]
  <2>3. pass' = [pass EXCEPT ![r] = p] /\ p.step = "decide"
    BY <2>2
  <2> HIDE DEF p
  <2> QED
    BY <1>1, <1>2, <2>1, <2>3 DEF At
<1>9. CASE ListProjects(r)
  <2>1. UNCHANGED storeVars /\ lock # r
    BY <1>3, <1>9 DEF ListProjects
  <2> DEFINE p == [pass[r] EXCEPT !.step = "decide", !.stage = stage]
  <2>2. p.step = "decide" /\ (EndPass(r) \/ pass' = [pass EXCEPT ![r] = p])
    BY <1>1, <1>9 DEF ListProjects
  <2> HIDE DEF p
  <2> QED
    BY <1>1, <1>2, <1>4, <2>1, <2>2 DEF At
<1>10. CASE Decide(r)
  BY <1>1, <1>2, <1>3, <1>10 DEF Decide, At
<1>11. CASE Create(r)
  <2>1. CASE Exists
    BY <1>2, <1>3, <1>5, <1>11, <2>1 DEF Create
  <2>2. CASE ~Exists
    <3>1. \A q \in Reconcilers : ~At(q, "apply")
      BY <2>2 DEF Protected, ChecklistFirst, LockProtects
    <3>2. \A q \in Reconcilers : ~At(q, "apply")'
      BY <1>5, <1>11, <3>1 DEF Create, At
    <3> QED
      BY <1>11, <2>2, <3>1, <3>2, CreationProtected DEF Create
  <2> QED
    BY <2>1, <2>2
<1>12. CASE SyncRead(r)
  <2>1. UNCHANGED storeVars /\ lock # r
    BY <1>3, <1>12 DEF SyncRead
  <2>2. CASE InStep(r)
    BY <1>2, <1>6, <1>12, <2>1, <2>2 DEF SyncRead
  <2>3. CASE ~InStep(r)
    <3> DEFINE p == [pass[r] EXCEPT !.step = "move", !.revision = revision]
    <3>1. p.step = "move" /\ pass' = [pass EXCEPT ![r] = p] /\ Exists
      BY <1>1, <1>12, <2>3 DEF SyncRead, InStep
    <3> HIDE DEF p
    <3> QED
      BY <1>1, <1>2, <2>1, <3>1 DEF At
  <2> QED
    BY <2>2, <2>3
<1>13. CASE SyncWrite(r)
  <2> DEFINE want == LifecycleForStage(pass[r].stage)
  <2>1. Exists /\ want \in Lifecycles /\ lock # r
    BY <1>3, <1>13, StageImplies
       DEF SyncWrite, Protected, ChecklistFirst, Typed, MovesToALifecycle, At
  <2> HIDE DEF want
  <2>2. /\ lock = Nobody /\ UNCHANGED <<item, lock>>
        /\ \/ lifecycle' = want /\ completedAt' = StampFor(want)
           \/ UNCHANGED <<lifecycle, completedAt>>
    BY <1>13 DEF SyncWrite, UpdateLifecycle, want
  <2>3. Exists'
    BY <2>1, <2>2 DEF Exists
  <2>4. CompletionStamp'
    <3>1. CASE UNCHANGED <<lifecycle, completedAt>>
      BY <3>1 DEF Protected, CompletionStamp
    <3>2. CASE lifecycle' = want /\ completedAt' = StampFor(want)
      <4>1. /\ want = "completed" => StampFor(want) = TRUE
            /\ want = "live" => StampFor(want) = FALSE
        BY DEF StampFor
      <4> QED
        BY <3>2, <4>1 DEF CompletionStamp
    <3> QED
      BY <2>2, <3>1, <3>2
  <2>5. /\ \A q \in Reconcilers : q # r => pass'[q] = pass[q]
        /\ ~At(r, "apply")'
    BY <1>6, <1>13 DEF SyncWrite
  <2>6. LockProtects'
    BY <2>1, <2>2, <2>5 DEF Protected, LockProtects, At
  <2>7. ChecklistFirst'
    BY <2>2, <2>3 DEF ChecklistFirst
  <2>8. RevisionsIdentify'
    BY <2>2, NothingAdvances, ReadsStayHonest DEF Protected
  <2> QED
    BY <2>4, <2>6, <2>7, <2>8 DEF Protected
<1>20. ASSUME NEW plan, NEW step \in {"ask", "lock"},
                    pass' = [pass EXCEPT ![r] = [@ EXCEPT !.step = step, !.plan = plan]]
             PROVE  /\ \A q \in Reconcilers : q # r => pass'[q] = pass[q]
                    /\ ~At(r, "apply")' /\ ~At(r, "move")'
  <2> DEFINE p == [pass[r] EXCEPT !.step = step, !.plan = plan]
  <2>1. pass' = [pass EXCEPT ![r] = p] /\ p.step = step
    BY <1>1, <1>20
  <2> HIDE DEF p
  <2> QED
    BY <1>1, <2>1 DEF At
<1>14. CASE PlanPlatform(r)
  <2>1. UNCHANGED storeVars /\ lock # r
    BY <1>3, <1>14 DEF PlanPlatform
  <2>2. \E plan : pass' = [pass EXCEPT ![r] = [@ EXCEPT !.step = "ask", !.plan = plan]]
    BY <1>14 DEF PlanPlatform
  <2> QED
    BY <1>2, <1>20, <2>1, <2>2
<1>15. CASE AskPlatform(r)
  <2>1. UNCHANGED storeVars /\ lock # r
    BY <1>3, <1>15 DEF AskPlatform
  <2>2. \/ EndPass(r)
        \/ \E plan : pass' = [pass EXCEPT ![r] = [@ EXCEPT !.step = "lock", !.plan = plan]]
    BY <1>15 DEF AskPlatform
  <2> QED
    BY <1>2, <1>4, <1>20, <2>1, <2>2
<1>16. CASE LockPlatform(r)
  <2>1. Exists /\ lock = Nobody /\ lock' = r /\ UNCHANGED <<formationVars, item>>
    BY <1>16 DEF LockPlatform, LockFormation
  <2> DEFINE p == [pass[r] EXCEPT !.step = "apply", !.life = lifecycle]
  <2>7. pass[r] \in Pass /\ pass' = [pass EXCEPT ![r] = p]
    BY <1>1, <1>16 DEF LockPlatform
  <2>8. p.step = "apply" /\ p.life = lifecycle
    BY <2>7
  <2> HIDE DEF p
  <2>2. \A q \in Reconcilers : pass'[q] = IF q = r THEN p ELSE pass[q]
    BY <1>1, <2>7
  <2>3. pass'[r].step = "apply" /\ pass'[r].life = lifecycle
    BY <2>2, <2>8
  <2>4. LockProtects'
    BY <2>1, <2>2, <2>3 DEF Protected, LockProtects, formationVars, At
  <2>5. RevisionsIdentify'
    BY <2>1, ReadsStayHonest, NothingAdvances DEF Protected
  <2>6. ChecklistFirst' /\ CompletionStamp'
    BY <2>1, <2>2, <2>3
       DEF Protected, ChecklistFirst, CompletionStamp, formationVars, Exists, Present, At
  <2> QED
    BY <2>4, <2>5, <2>6 DEF Protected
<1>17. ASSUME EndPass(r), RowsAdvance, UNCHANGED <<lifecycle, completedAt>>, Exists,
              lock' = IF lock = r THEN Nobody ELSE lock
       PROVE  Protected'
  <2>1. LockProtects'
    BY <1>4, <1>17 DEF Protected, LockProtects, At
  <2>2. RevisionsIdentify'
    BY <1>17, ReadsStayHonest DEF Protected
  <2>3. ChecklistFirst' /\ CompletionStamp'
    BY <1>17 DEF Protected, ChecklistFirst, CompletionStamp, Exists
  <2> QED
    BY <2>1, <2>2, <2>3 DEF Protected
<1>18. CASE ApplyPlatform(r)
  <2>1. \A k \in Keys : item[k] \in Item
    BY DEF Typed, TypeOK, StoreTypeOK
  <2>2. \A k \in Keys :
          \/ item'[k] = item[k]
          \/ item'[k] = [item[k] EXCEPT !.status = "done", !.revision = @ + 1]
    BY <1>18 DEF ApplyPlatform
  <2>3. \A k \in Keys : \/ item'[k] = item[k]
                        \/ item'[k].revision = item[k].revision + 1
    BY <2>1, <2>2
  <2>4. \A k \in Keys : item[k].revision \in Nat
    BY <2>1
  <2>5. RowsAdvance
    BY <2>3, <2>4 DEF RowsAdvance
  <2>6. Exists
    BY <1>18 DEF ApplyPlatform, Unlock, Protected, ChecklistFirst
  <2> QED
    BY <1>17, <1>18, <2>5, <2>6 DEF ApplyPlatform, Unlock, formationVars
<1>19. CASE StopPass(r)
  <2>1. CASE Exists
    BY <1>17, <1>19, <2>1, NothingAdvances DEF StopPass, formationVars
  <2>2. CASE ~Exists
    BY <1>2, <1>4, <1>19, <2>2 DEF StopPass, formationVars, storeVars, Protected, ChecklistFirst
  <2> QED
    BY <2>1, <2>2
<1> QED
  BY <1>7, <1>8, <1>9, <1>10, <1>11, <1>12, <1>13, <1>14, <1>15, <1>16, <1>18, <1>19 DEF Proceed

LEMMA StepProtected ==
  ASSUME Typed, Protected, [Next]_vars
  PROVE  Protected'
<1>1. Typed'
  BY StepTyped
<1>2. CASE UNCHANGED vars
  BY <1>2, FactsProtected DEF vars
<1>3. CASE FactsNext /\ UNCHANGED <<storeVars, request, pass, command>>
  BY <1>3, FactsProtected
<1>4. CASE WriterNext /\ UNCHANGED <<factVars, pass, command>>
  BY <1>1, <1>4, WriterProtected
<1>5. CASE ReconcilerNext /\ UNCHANGED <<request, command>>
  BY <1>1, <1>5, ReconcilerProtected
<1>6. CASE OperatorNext /\ UNCHANGED <<factVars, request, pass>>
  BY <1>1, <1>6, OperatorProtected
<1> QED
  BY <1>2, <1>3, <1>4, <1>5, <1>6 DEF Next

LEMMA InitProtected == Init => Protected
<1> SUFFICES ASSUME Init PROVE Protected
  OBVIOUS
<1>1. lifecycle = "absent" /\ lock = Nobody /\ item = [k \in Keys |-> NoItem]
  BY DEF Init, StoreInit
<1>2. /\ request = [w \in Writers |-> NoRequest]
      /\ pass = [r \in Reconcilers |-> NoPass]
      /\ command = [o \in Operators |-> NoCommand]
  BY DEF Init, WriterInit, ReconcilerInit, OperatorInit
<1>3. ChecklistFirst
  BY <1>1, <1>2 DEF ChecklistFirst, Exists, Present, At
<1>4. LockProtects
  BY <1>1, <1>2, WriterAssumption, ReconcilerAssumption DEF LockProtects, At
<1>5. RevisionsIdentify
  BY <1>1, <1>2 DEF RevisionsIdentify
<1>6. CompletionStamp
  BY <1>1 DEF CompletionStamp
<1> QED
  BY <1>3, <1>4, <1>5, <1>6 DEF Protected

\* Types and protection together are inductive, and hold always.
LEMMA AlwaysProtected == Spec => [](Typed /\ Protected)
<1>1. Typed /\ Protected /\ [Next]_vars => (Typed /\ Protected)'
  BY StepTyped, StepProtected
<1> QED
  BY <1>1, InitTyped, InitProtected, PTL DEF Spec

\* A completed checklist always has its completion time and a live one never
\* has, whatever path of stages, stale events and concurrent sweeps led there.
THEOREM CompletionStampHolds == Spec => []CompletionStamp
<1>1. Typed /\ Protected => CompletionStamp
  BY DEF Protected
<1> QED
  BY <1>1, AlwaysProtected, PTL

\* All that can happen to a row in a step: nothing; its insertion; the schema
\* script on a live checklist; or a write by the lock's holder to a live
\* checklist, a writer's only at the revision that writer was shown.
RowStep(k) ==
  \/ item'[k] = item[k]
  \/ k \notin Present /\ lock = Nobody
  \/ /\ lifecycle = "live"
     /\ \/ item'[k].revision = item[k].revision
        \/ lock \in Reconcilers
        \/ lock \in Writers /\ item[k].revision = request[lock].read[k].revision

LEMMA RowSteps ==
  ASSUME Typed, Protected, [Next]_vars
  PROVE  \A k \in Keys : RowStep(k)
<1>1. item \in [Keys -> Item] /\ \A k \in Keys : item[k] \in Item
  BY DEF Typed, TypeOK, StoreTypeOK
<1>2. CASE UNCHANGED item
  BY <1>2 DEF RowStep
<1>3. ASSUME ~Exists, NEW v, CreateChecklist(v) PROVE \A k \in Keys : RowStep(k)
  BY <1>3 DEF Protected, ChecklistFirst, RowStep
<1>4. CASE WriterNext
  <2>1. ASSUME NEW w \in Writers, NEW k \in Keys, NEW s, NEW source,
               Accepts(w, k), UpdateItem(k, s, source), EndMutation(w)
        PROVE  \A j \in Keys : RowStep(j)
    <3>1. lock = w /\ lifecycle = "live"
      BY <2>1 DEF Accepts, Mutable, EndMutation, Unlock, Protected, LockProtects
    <3>2. item[k].revision = request[w].read[k].revision
      BY <2>1 DEF Accepts
    <3>3. \A j \in Keys : j # k => item'[j] = item[j]
      BY <1>1, <2>1 DEF UpdateItem
    <3> QED
      BY <3>1, <3>2, <3>3 DEF RowStep
  <2>2. ASSUME NEW w \in Writers, NEW k \in Keys, NEW s \in Statuses, SetItemStatus(w, k, s)
        PROVE  \A j \in Keys : RowStep(j)
    BY <2>1, <2>2 DEF SetItemStatus
  <2>3. ASSUME NEW w \in Writers, NEW k \in Keys, KeepStatus(w, k)
        PROVE  \A j \in Keys : RowStep(j)
    BY <2>1, <2>3 DEF KeepStatus
  <2>4. ASSUME NEW w \in Writers, ReadChecklist(w) \/ BeginMutation(w) \/ AbortMutation(w)
        PROVE  UNCHANGED item
    BY <2>4 DEF ReadChecklist, BeginMutation, AbortMutation, storeVars
  <2> QED
    BY <1>2, <1>4, <2>2, <2>3, <2>4 DEF WriterNext, EditItem, AssignItem, SetSubItems
<1>5. CASE ReconcilerNext
  <2>1. PICK r \in Reconcilers :
          BeginSweep(r) \/ (\E s \in Stages : HandleEvent(r, s)) \/ Proceed(r) \/ StopPass(r)
    BY <1>5 DEF ReconcilerNext
  <2>2. CASE Create(r)
    BY <1>2, <1>3, <2>2 DEF Create, storeVars
  <2>3. CASE ApplyPlatform(r)
    <3>1. lock = r /\ pass[r].life = lifecycle
      BY <2>3 DEF ApplyPlatform, Unlock, Protected, LockProtects
    <3>2. \A k \in Keys : item'[k] # item[k] => k \in Advanced(r)
      BY <2>3 DEF ApplyPlatform
    <3>3. \A k \in Keys : k \in Advanced(r) => lifecycle = "live"
      BY <3>1 DEF Advanced, Mutable
    <3> QED
      BY <3>1, <3>2, <3>3 DEF RowStep
  <2>4. ASSUME ~Create(r), ~ApplyPlatform(r) PROVE UNCHANGED item
    BY <2>1, <2>4
       DEF BeginSweep, HandleEvent, Proceed, ListProjects, Decide, SyncRead, SyncWrite,
           UpdateLifecycle, PlanPlatform, AskPlatform, LockPlatform, StopPass, storeVars
  <2> QED
    BY <1>2, <2>2, <2>3, <2>4
<1>6. CASE OperatorNext
  <2>1. ASSUME NEW o \in Operators, ExpandCommand(o) PROVE \A k \in Keys : RowStep(k)
    BY <1>2, <1>3, <2>1 DEF ExpandCommand, storeVars
  <2>2. ASSUME NEW o \in Operators, UpgradeCommit(o) PROVE \A k \in Keys : RowStep(k)
    <3>1. \A k \in Keys : item'[k] # item[k] => k \in Landed(MissingItems(o))
      BY <2>2 DEF UpgradeCommit, WithInserted
    <3>2. Landed(MissingItems(o)) # {} => lock = Nobody
      BY <2>2 DEF UpgradeCommit
    <3> QED
      BY <3>1, <3>2 DEF Landed, RowStep
  <2>3. CASE ApplySchema
    <3>1. \A k \in Keys : item'[k] \in {item[k], [item[k] EXCEPT !.source = "manual"]}
      BY <2>3 DEF ApplySchema
    <3>2. \A k \in Keys : item'[k].revision = item[k].revision
      BY <1>1, <3>1
    <3> QED
      BY <2>3, <3>2 DEF ApplySchema, RowStep
  <2>4. ASSUME NEW o \in Operators,
               \/ SelectTemplate(o) \/ UpgradeRead(o) \/ UpgradeList(o) \/ AbortCommand(o)
        PROVE  UNCHANGED item
    BY <2>4 DEF SelectTemplate, UpgradeRead, UpgradeList, AbortCommand, storeVars
  <2> QED
    BY <1>2, <1>6, <2>1, <2>2, <2>3, <2>4 DEF OperatorNext
<1> QED
  BY <1>2, <1>4, <1>5, <1>6 DEF Next, vars, storeVars

\* No committed row changes once its checklist has been completed or frozen,
\* however long ago the request or the sweep that writes it read it as live.
THEOREM WritesOnlyWhileLiveHolds == Spec => WritesOnlyWhileLive
<1>1. Typed /\ Protected /\ [Next]_vars
        => [\A k \in Present : item'[k] # item[k] => lifecycle = "live"]_vars
  BY RowSteps DEF RowStep, Present
<1> QED
  BY <1>1, AlwaysProtected, PTL DEF Spec, WritesOnlyWhileLive

\* A person's accepted write replaces the very row that person was shown.
THEOREM NoLostUpdateHolds == Spec => NoLostUpdate
<1>1. ASSUME Typed, Protected, [Next]_vars, NEW w \in Writers, NEW k \in Keys,
             lock = w, item'[k].revision # item[k].revision
      PROVE  item[k].status = request[w].read[k].status
  <2>1. lock # Nobody /\ lock \notin Reconcilers
    BY <1>1, WriterAssumption, ActorsAssumption
  <2>2. item[k].revision = request[w].read[k].revision
    BY <1>1, <2>1, RowSteps DEF RowStep
  <2> QED
    BY <1>1, <2>2 DEF Protected, RevisionsIdentify
<1>2. Typed /\ Protected /\ [Next]_vars
        => [\A w \in Writers, k \in Keys :
              lock = w /\ item'[k].revision # item[k].revision
                => item[k].status = request[w].read[k].status]_vars
  BY <1>1
<1> QED
  BY <1>2, AlwaysProtected, PTL DEF Spec, NoLostUpdate
-----------------------------------------------------------------------------
(* What a checklist's rows, its activity and its section snapshot say of   *)
(* how they came about: all that a step may do to one row and its activity. *)

RowKept(k) == item'[k] = item[k] /\ log'[k] = log[k]

RowInserted(k) == k \notin Present /\ item'[k] = NewItem(k) /\ log'[k] = log[k]

\* The schema script, on a withdrawn check.
RowHandedBack(k) ==
  /\ k \in RetiredChecks
  /\ item'[k] = [status |-> item[k].status, source |-> "manual", revision |-> item[k].revision]
  /\ log'[k] = log[k]

RowWritten(k, by, status, source) ==
  /\ k \in Present
  /\ item'[k] = [status |-> status, source |-> source, revision |-> item[k].revision + 1]
  /\ log'[k] = Append(log[k], [by |-> by, before |-> item[k].status, after |-> status])

RowRuled(k) ==
  \E s \in Statuses : AllowsTransition(item[k].status, s) /\ RowWritten(k, "user", s, "manual")
RowEdited(k) == RowWritten(k, "user", item[k].status, item[k].source)
RowSettled(k) ==
  /\ item[k].source = "platform" /\ item[k].status \notin {"done", "skipped"}
  /\ RowWritten(k, "system", "done", "platform")

RowHistory(k) ==
  \/ RowKept(k) \/ RowInserted(k) \/ RowHandedBack(k)
  \/ RowRuled(k) \/ RowEdited(k) \/ RowSettled(k)
-----------------------------------------------------------------------------
(* The inductive invariant, in named parts.                                *)

\* What a pass planned to settle was an open platform row, and is that row still
\* if its revision has not moved. (A check some lookup answers is never withdrawn.)
PlansIdentify ==
  \A r \in Reconcilers, k \in Keys : pass[r].plan[k].revision > 0 =>
    /\ k \in PlatformKeys
    /\ pass[r].plan[k].source = "platform"
    /\ pass[r].plan[k].status \notin {"done", "skipped"}
    /\ pass[r].plan[k].revision <= item[k].revision
    /\ pass[r].plan[k].revision = item[k].revision => item[k] = pass[r].plan[k]

\* There is no activity about a row before the row.
NoRowNoTrail == \A k \in Keys : k \notin Present => log[k] = <<>>

\* Nobody has moved the status of a row the service may still settle.
OpenIsUnruled ==
  \A k \in Keys :
    item[k].source = "platform" /\ item[k].status \notin {"done", "skipped"} =>
      \A i \in 1..Len(log[k]) : log[k][i].by = "user" /\ log[k][i].before = log[k][i].after

Recorded == NoRowNoTrail /\ TrailReplays /\ OpenIsUnruled /\ RulingStands
-----------------------------------------------------------------------------
(* Every step does to every row one of those six things.                   *)

\* A person's accepted write is a ruling or an edit of one row.
LEMMA WriterHistory ==
  ASSUME Typed, WriterNext
  PROVE  \A k \in Keys : RowHistory(k)
<1>1. /\ item \in [Keys -> Item] /\ log \in [Keys -> Seq(Entry)]
      /\ \A k \in Keys : item[k] \in Item
  BY DEF Typed, TypeOK, StoreTypeOK
<1>2. ASSUME UNCHANGED <<item, log>> PROVE \A k \in Keys : RowHistory(k)
  BY <1>2 DEF RowHistory, RowKept
<1>3. ASSUME NEW w \in Writers, NEW k \in Keys, NEW s \in Statuses, NEW source,
             Accepts(w, k), UpdateItem(k, s, source),
             AppendActivity(k, "user", item[k].status, s)
      PROVE  /\ RowWritten(k, "user", s, source)
             /\ \A j \in Keys : j # k => RowKept(j)
  BY <1>1, <1>3 DEF Accepts, UpdateItem, AppendActivity, RowWritten, RowKept
<1>4. ASSUME NEW w \in Writers, NEW k \in Keys, NEW s \in Statuses, SetItemStatus(w, k, s)
      PROVE  \A j \in Keys : RowHistory(j)
  <2>1. RowRuled(k) /\ \A j \in Keys : j # k => RowKept(j)
    BY <1>3, <1>4 DEF SetItemStatus, RowRuled
  <2> QED
    BY <2>1 DEF RowHistory
<1>5. ASSUME NEW w \in Writers, NEW k \in Keys, KeepStatus(w, k)
      PROVE  \A j \in Keys : RowHistory(j)
  <2>1. item[k].status \in Statuses
    BY <1>1
  <2>2. RowEdited(k) /\ \A j \in Keys : j # k => RowKept(j)
    BY <1>3, <1>5, <2>1 DEF KeepStatus, RowEdited
  <2> QED
    BY <2>2 DEF RowHistory
<1>6. ASSUME NEW w \in Writers, ReadChecklist(w) \/ BeginMutation(w) \/ AbortMutation(w)
      PROVE  UNCHANGED <<item, log>>
  BY <1>6 DEF ReadChecklist, BeginMutation, AbortMutation, storeVars
<1> QED
  BY <1>2, <1>4, <1>5, <1>6 DEF WriterNext, EditItem, AssignItem, SetSubItems

\* Creation where there is nothing, and insertion of what is missing.
LEMMA CreationHistory ==
  ASSUME Protected, ~Exists, NEW v, CreateChecklist(v)
  PROVE  \A k \in Keys : RowHistory(k)
BY DEF Protected, ChecklistFirst, CreateChecklist, RowHistory, RowInserted, RowKept

\* A pass inserts the rows of the checklist it creates, and settles rows that are
\* still as it planned them.
LEMMA ReconcilerHistory ==
  ASSUME Typed, Protected, PlansIdentify, ReconcilerNext
  PROVE  \A k \in Keys : RowHistory(k)
<1>1. /\ item \in [Keys -> Item] /\ log \in [Keys -> Seq(Entry)]
      /\ \A k \in Keys : item[k] \in Item
  BY DEF Typed, TypeOK, StoreTypeOK
<1>2. ASSUME UNCHANGED <<item, log>> PROVE \A k \in Keys : RowHistory(k)
  BY <1>2 DEF RowHistory, RowKept
<1>3. PICK r \in Reconcilers :
        BeginSweep(r) \/ (\E s \in Stages : HandleEvent(r, s)) \/ Proceed(r) \/ StopPass(r)
  BY DEF ReconcilerNext
<1>4. CASE Create(r)
  BY <1>2, <1>4, CreationHistory DEF Create, storeVars
<1>5. CASE ApplyPlatform(r)
  <2> SUFFICES ASSUME NEW k \in Keys PROVE RowHistory(k)
    OBVIOUS
  <2>1. CASE k \notin Advanced(r)
    BY <1>5, <2>1 DEF ApplyPlatform, RowHistory, RowKept
  <2>2. CASE k \in Advanced(r)
    <3>1. pass[r].plan[k].revision > 0 /\ item[k].revision = pass[r].plan[k].revision
      BY <2>2 DEF Advanced, Planned
    <3>2. /\ item[k] = pass[r].plan[k] /\ k \in Present
          /\ item[k].source = "platform" /\ item[k].status \notin {"done", "skipped"}
      BY <3>1 DEF PlansIdentify, Present
    <3>3. item'[k] = [item[k] EXCEPT !.status = "done", !.revision = @ + 1]
      BY <1>5, <2>2 DEF ApplyPlatform
    <3>4. item'[k] = [status |-> "done", source |-> "platform", revision |-> item[k].revision + 1]
      BY <1>1, <3>2, <3>3
    <3>5. log'[k] = Append(log[k], [by |-> "system", before |-> item[k].status, after |-> "done"])
      BY <1>5, <2>2, <3>2 DEF ApplyPlatform
    <3> QED
      BY <3>2, <3>4, <3>5 DEF RowHistory, RowSettled, RowWritten
  <2> QED
    BY <2>1, <2>2
<1>6. ASSUME ~Create(r), ~ApplyPlatform(r) PROVE UNCHANGED <<item, log>>
  BY <1>3, <1>6
     DEF BeginSweep, HandleEvent, Proceed, ListProjects, Decide, SyncRead, SyncWrite,
         UpdateLifecycle, PlanPlatform, AskPlatform, LockPlatform, StopPass, storeVars
<1> QED
  BY <1>2, <1>4, <1>5, <1>6

\* A command inserts what is missing; the schema script hands rows back.
LEMMA OperatorHistory ==
  ASSUME Typed, Protected, OperatorNext
  PROVE  \A k \in Keys : RowHistory(k)
<1>1. \A k \in Keys : item[k] \in Item
  BY DEF Typed, TypeOK, StoreTypeOK
<1>2. ASSUME UNCHANGED <<item, log>> PROVE \A k \in Keys : RowHistory(k)
  BY <1>2 DEF RowHistory, RowKept
<1>3. ASSUME NEW o \in Operators, ExpandCommand(o) PROVE \A k \in Keys : RowHistory(k)
  BY <1>2, <1>3, CreationHistory DEF ExpandCommand, storeVars
<1>4. ASSUME NEW o \in Operators, UpgradeCommit(o) PROVE \A k \in Keys : RowHistory(k)
  BY <1>4 DEF UpgradeCommit, WithInserted, Landed, RowHistory, RowInserted, RowKept
<1>5. CASE ApplySchema
  <2> SUFFICES ASSUME NEW k \in Keys PROVE RowHistory(k)
    OBVIOUS
  <2>1. log' = log
    BY <1>5 DEF ApplySchema
  <2>2. CASE k \in RetiredChecks \cap Present
    <3>1. item'[k] = [item[k] EXCEPT !.source = "manual"]
      BY <1>5, <2>2 DEF ApplySchema
    <3>2. item'[k] = [status |-> item[k].status, source |-> "manual",
                      revision |-> item[k].revision]
      BY <1>1, <3>1
    <3> QED
      BY <2>1, <2>2, <3>2 DEF RowHistory, RowHandedBack
  <2>3. CASE k \notin RetiredChecks \cap Present
    BY <1>5, <2>1, <2>3 DEF ApplySchema, RowHistory, RowKept
  <2> QED
    BY <2>2, <2>3
<1>6. ASSUME NEW o \in Operators,
             \/ SelectTemplate(o) \/ UpgradeRead(o) \/ UpgradeList(o) \/ AbortCommand(o)
      PROVE  UNCHANGED <<item, log>>
  BY <1>6 DEF SelectTemplate, UpgradeRead, UpgradeList, AbortCommand, storeVars
<1> QED
  BY <1>2, <1>3, <1>4, <1>5, <1>6 DEF OperatorNext

LEMMA StepHistory ==
  ASSUME Typed, Protected, PlansIdentify, [Next]_vars
  PROVE  \A k \in Keys : RowHistory(k)
<1>1. ASSUME UNCHANGED storeVars PROVE \A k \in Keys : RowHistory(k)
  BY <1>1 DEF storeVars, RowHistory, RowKept
<1> QED
  BY <1>1, WriterHistory, ReconcilerHistory, OperatorHistory DEF Next, vars
-----------------------------------------------------------------------------
(* Rows and their activity.                                                *)

\* A row's activity one entry longer, the row written as that entry says.
TrailGrows(k, by, status, source) ==
  /\ log[k] \in Seq(Entry) /\ log'[k] \in Seq(Entry)
  /\ Len(log[k]) \in Nat /\ Len(log'[k]) = Len(log[k]) + 1
  /\ \A i \in 1..Len(log[k]) : log'[k][i] = log[k][i]
  /\ log'[k][Len(log'[k])] = [by |-> by, before |-> item[k].status, after |-> status]
  /\ item[k].revision \in Nat /\ item'[k].revision = item[k].revision + 1
  /\ item'[k].status = status /\ item'[k].source = source

LEMMA WrittenTrail ==
  ASSUME Typed, NEW k \in Keys, NEW by \in {"user", "system"}, NEW s \in Statuses, NEW source,
         RowWritten(k, by, s, source)
  PROVE  TrailGrows(k, by, s, source)
<1>1. log[k] \in Seq(Entry) /\ item[k] \in Item
  BY DEF Typed, TypeOK, StoreTypeOK
<1> DEFINE e == [by |-> by, before |-> item[k].status, after |-> s]
<1>2. e \in Entry /\ e.by = by
  BY <1>1
<1>3. log'[k] = Append(log[k], e)
  BY DEF RowWritten
<1> HIDE DEF e
<1>4. /\ log'[k] \in Seq(Entry)
      /\ Len(log'[k]) = Len(log[k]) + 1
      /\ \A i \in 1..Len(log[k]) : log'[k][i] = log[k][i]
      /\ log'[k][Len(log[k]) + 1] = e
  BY <1>1, <1>2, <1>3, AppendProperties
<1>5. Len(log[k]) \in Nat
  BY <1>1
<1>6. /\ item[k].revision \in Nat /\ item'[k].revision = item[k].revision + 1
      /\ item'[k].status = s /\ item'[k].source = source
  BY <1>1 DEF RowWritten
<1>7. log'[k][Len(log'[k])] = [by |-> by, before |-> item[k].status, after |-> s]
  BY <1>4 DEF e
<1> QED
  BY <1>1, <1>4, <1>5, <1>6, <1>7 DEF TrailGrows

\* What TrailReplays says of one row.
TrailOf(k) ==
  /\ k \in Present => Len(log[k]) = item[k].revision - 1
  /\ \A i \in 1..Len(log[k]) :
       log[k][i].before = IF i = 1 THEN "not_started" ELSE log[k][i - 1].after
  /\ item[k].status = IF log[k] = <<>> THEN "not_started" ELSE log[k][Len(log[k])].after

LEMMA WrittenReplays ==
  ASSUME Typed, NEW k \in Keys, NEW by \in {"user", "system"}, NEW s \in Statuses, NEW source,
         RowWritten(k, by, s, source), NoRowNoTrail, TrailReplays
  PROVE  TrailOf(k)' /\ k \in Present'
<1>1. TrailOf(k) /\ k \in Present
  BY DEF TrailReplays, TrailOf, RowWritten
<1>2. /\ log[k] \in Seq(Entry) /\ log'[k] \in Seq(Entry)
      /\ Len(log[k]) \in Nat /\ Len(log'[k]) = Len(log[k]) + 1
      /\ \A i \in 1..Len(log[k]) : log'[k][i] = log[k][i]
      /\ log'[k][Len(log'[k])] = [by |-> by, before |-> item[k].status, after |-> s]
      /\ item[k].revision \in Nat /\ item'[k].revision = item[k].revision + 1
      /\ item'[k].status = s
  <2>1. TrailGrows(k, by, s, source)
    BY WrittenTrail
  <2> QED
    BY <2>1 DEF TrailGrows
<1>3. log[k] = <<>> <=> Len(log[k]) = 0
  BY <1>2
<1>4. Len(log'[k]) = item'[k].revision - 1 /\ k \in Present'
  BY <1>1, <1>2 DEF TrailOf, Present
<1>5. ASSUME NEW i \in 1..Len(log'[k])
      PROVE  log'[k][i].before = IF i = 1 THEN "not_started" ELSE log'[k][i - 1].after
  <2>1. CASE i \in 1..Len(log[k])
    <3>1. i - 1 \in 1..Len(log[k]) \/ i = 1
      BY <1>2, <2>1
    <3> QED
      BY <1>1, <1>2, <2>1, <3>1 DEF TrailOf
  <2>2. CASE i = Len(log'[k])
    <3>1. log'[k][i].before = item[k].status
      BY <1>2, <2>2
    <3>2. CASE i = 1
      BY <1>1, <1>2, <1>3, <2>2, <3>1, <3>2 DEF TrailOf
    <3>3. CASE i # 1
      <4>1. i - 1 = Len(log[k]) /\ i - 1 \in 1..Len(log[k]) /\ log[k] # <<>>
        BY <1>2, <1>3, <2>2, <3>3
      <4> QED
        BY <1>1, <1>2, <3>1, <3>3, <4>1 DEF TrailOf
    <3> QED
      BY <3>2, <3>3
  <2> QED
    BY <1>2, <2>1, <2>2
<1>6. item'[k].status = IF log'[k] = <<>> THEN "not_started" ELSE log'[k][Len(log'[k])].after
  BY <1>2
<1> QED
  BY <1>4, <1>5, <1>6 DEF TrailOf

\* The activity of a row explains it after any step: it grows by exactly the
\* entry that says what the step did.
LEMMA TrailsKept ==
  ASSUME Typed, NoRowNoTrail, TrailReplays, \A k \in Keys : RowHistory(k)
  PROVE  NoRowNoTrail' /\ TrailReplays'
<1>1. ASSUME NEW k \in Keys
      PROVE  TrailOf(k)' /\ (k \notin Present' => log'[k] = <<>>)
  <2>0. TrailOf(k) /\ item[k] \in Item /\ (k \notin Present => log[k] = <<>>)
    BY DEF TrailReplays, TrailOf, NoRowNoTrail, Typed, TypeOK, StoreTypeOK
  <2>1. CASE RowKept(k)
    BY <2>0, <2>1 DEF RowKept, TrailOf, Present
  <2>2. CASE RowInserted(k)
    <3>1. log[k] = <<>> /\ log'[k] = <<>> /\ item'[k].status = "not_started"
          /\ item'[k].revision = 1
      BY <2>0, <2>2 DEF RowInserted, NewItem
    <3> QED
      BY <3>1 DEF TrailOf, Present
  <2>3. CASE RowHandedBack(k)
    <3>1. /\ item'[k].status = item[k].status /\ item'[k].revision = item[k].revision
          /\ log'[k] = log[k]
      BY <2>3 DEF RowHandedBack
    <3> QED
      BY <2>0, <3>1 DEF TrailOf, Present
  <2>4. CASE RowRuled(k)
    BY <2>4, WrittenReplays DEF RowRuled
  <2>5. CASE RowEdited(k)
    <3>1. item[k].status \in Statuses
      BY <2>0
    <3> QED
      BY <2>5, <3>1, WrittenReplays DEF RowEdited
  <2>6. CASE RowSettled(k)
    BY <2>6, WrittenReplays DEF RowSettled
  <2> QED
    BY <2>1, <2>2, <2>3, <2>4, <2>5, <2>6 DEF RowHistory
<1>2. TrailReplays'
  BY <1>1 DEF TrailReplays, TrailOf
<1>3. NoRowNoTrail'
  BY <1>1 DEF NoRowNoTrail
<1> QED
  BY <1>2, <1>3
\* Where the service may still settle a row nobody has moved its status, and what
\* the service has settled it settled once: after any step.
LEMMA RulingsKept ==
  ASSUME Typed, Recorded, \A k \in Keys : RowHistory(k)
  PROVE  OpenIsUnruled' /\ RulingStands'
<1> DEFINE
      Open(k) == item[k].source = "platform" /\ item[k].status \notin {"done", "skipped"}
      Unruled(k, n) ==
        \A i \in 1..n : log[k][i].by = "user" /\ log[k][i].before = log[k][i].after
      Ruled(k, i) ==
        log[k][i].by = "system" =>
          /\ log[k][i].after = "done"
          /\ log[k][i].before \notin {"done", "skipped"}
          /\ Unruled(k, i - 1)
      Stands(k) == \A i \in 1..Len(log[k]) : Ruled(k, i)
      Goal(k) == (Open(k) => Unruled(k, Len(log[k]))) /\ Stands(k)
<1>1. ASSUME NEW k \in Keys PROVE Goal(k)'
  <2>0. Goal(k) /\ item[k] \in Item /\ (k \notin Present => log[k] = <<>>)
    BY DEF Recorded, NoRowNoTrail, OpenIsUnruled, RulingStands, Typed, TypeOK, StoreTypeOK
  <2>1. CASE RowKept(k)
    BY <2>0, <2>1 DEF RowKept
  <2>2. CASE RowInserted(k)
    BY <2>0, <2>2 DEF RowInserted
  <2>3. CASE RowHandedBack(k)
    BY <2>0, <2>3 DEF RowHandedBack
  <2>4. ASSUME NEW by \in {"user", "system"}, NEW s \in Statuses, NEW source,
               RowWritten(k, by, s, source),
               by = "system" => s = "done" /\ Open(k),
               source = "platform" /\ s \notin {"done", "skipped"}
                 => by = "user" /\ Open(k) /\ s = item[k].status
        PROVE  Goal(k)'
    <3>1. /\ Len(log[k]) \in Nat /\ Len(log'[k]) = Len(log[k]) + 1
          /\ \A i \in 1..Len(log[k]) : log'[k][i] = log[k][i]
          /\ log'[k][Len(log'[k])] = [by |-> by, before |-> item[k].status, after |-> s]
          /\ item'[k].status = s /\ item'[k].source = source
      <4>1. TrailGrows(k, by, s, source)
        BY <2>4, WrittenTrail
      <4> QED
        BY <4>1 DEF TrailGrows
    <3>2. Open(k) => \A i \in 1..Len(log[k]) :
                       log'[k][i].by = "user" /\ log'[k][i].before = log'[k][i].after
      BY <2>0, <3>1
    <3>3. Open(k)' => Unruled(k, Len(log[k]))'
      <4> SUFFICES ASSUME Open(k)', NEW i \in 1..Len(log'[k])
                   PROVE  log'[k][i].by = "user" /\ log'[k][i].before = log'[k][i].after
        OBVIOUS
      <4>1. by = "user" /\ Open(k) /\ s = item[k].status
        BY <2>4, <3>1
      <4>2. i \in 1..Len(log[k]) \/ i = Len(log'[k])
        BY <3>1
      <4> QED
        BY <3>1, <3>2, <4>1, <4>2
    <3>4. ASSUME NEW i \in 1..Len(log'[k]) PROVE Ruled(k, i)'
      <4>1. CASE i \in 1..Len(log[k])
        <5>1. /\ log'[k][i] = log[k][i]
              /\ \A j \in 1..(i - 1) : log'[k][j] = log[k][j]
          BY <3>1, <4>1
        <5>2. Ruled(k, i)
          BY <2>0, <4>1
        <5>3. Unruled(k, i - 1) => Unruled(k, i - 1)'
          BY <5>1
        <5> HIDE DEF Unruled
        <5> QED
          BY <5>1, <5>2, <5>3
      <4>2. CASE i = Len(log'[k])
        <5>1. i - 1 = Len(log[k])
          BY <3>1, <4>2
        <5> QED
          BY <2>4, <3>1, <3>2, <4>2, <5>1
      <4> QED
        BY <3>1, <4>1, <4>2
    <3> QED
      BY <3>1, <3>3, <3>4
  <2> HIDE DEF Goal
  <2>5. CASE RowRuled(k)
    BY <2>4, <2>5 DEF RowRuled
  <2>6. CASE RowEdited(k)
    BY <2>0, <2>4, <2>6 DEF RowEdited
  <2>7. CASE RowSettled(k)
    BY <2>4, <2>7 DEF RowSettled
  <2> QED
    BY <2>1, <2>2, <2>3, <2>5, <2>6, <2>7 DEF RowHistory
<1> QED
  BY <1>1 DEF OpenIsUnruled, RulingStands
-----------------------------------------------------------------------------
(* Plans.                                                                  *)

\* Whatever a step does to a row, a plan made before it is still a plan: a planned
\* row's revision never comes back, and it is no row the schema script touches.
LEMMA PlannedRowKept ==
  ASSUME Typed, NEW k \in PlatformKeys, RowHistory(k), NEW p \in Item, p.revision > 0,
         p.revision <= item[k].revision, p.revision = item[k].revision => item[k] = p
  PROVE  /\ p.revision <= item'[k].revision
         /\ p.revision = item'[k].revision => item'[k] = p
<1>1. item[k] \in Item
  BY KeysAssumption DEF Typed, TypeOK, StoreTypeOK
<1>2. k \in Keys /\ k \notin RetiredChecks
  BY KeysAssumption, StoreAssumption
<1>3. k \in Present
  BY <1>1, <1>2 DEF Present
<1>4. ASSUME NEW by, NEW s, NEW source, RowWritten(k, by, s, source)
      PROVE  item'[k].revision = item[k].revision + 1
  BY <1>4 DEF RowWritten
<1>5. item'[k] = item[k] \/ item'[k].revision = item[k].revision + 1
  BY <1>2, <1>3, <1>4 DEF RowHistory, RowKept, RowInserted, RowHandedBack, RowRuled, RowEdited,
                          RowSettled
<1> QED
  BY <1>1, <1>5

\* A row as a pass may plan it.
PlanFor(k, p) ==
  p.revision > 0 =>
    /\ k \in PlatformKeys
    /\ p.source = "platform" /\ p.status \notin {"done", "skipped"}
    /\ p.revision <= item[k].revision
    /\ p.revision = item[k].revision => item[k] = p

\* A pass plans rows as they are, keeps some of its plan, or drops it.
LEMMA PlansMade ==
  ASSUME Typed, Protected, PlansIdentify, [Next]_vars, NEW r \in Reconcilers, NEW k \in Keys
  PROVE  \/ pass'[r].plan[k] \in {pass[r].plan[k], NoItem}
         \/ item'[k] = item[k] /\ pass'[r].plan[k] = item[k] /\ PlanFor(k, item[k])
<1> DEFINE Goal ==
      \/ pass'[r].plan[k] \in {pass[r].plan[k], NoItem}
      \/ item'[k] = item[k] /\ pass'[r].plan[k] = item[k] /\ PlanFor(k, item[k])
<1> SUFFICES Goal
  OBVIOUS
<1>1. pass \in [Reconcilers -> Pass] /\ pass[r] \in Pass
  BY DEF Typed, TypeOK, ReconcilerTypeOK
<1>2. ASSUME pass'[r] = pass[r] PROVE Goal
  BY <1>2
<1>3. ASSUME pass'[r] = NoPass PROVE Goal
  BY <1>3
<1>4. CASE UNCHANGED pass
  BY <1>2, <1>4
<1>5. CASE ReconcilerNext
  <2>1. PICK q \in Reconcilers :
          BeginSweep(q) \/ (\E s \in Stages : HandleEvent(q, s)) \/ Proceed(q) \/ StopPass(q)
    BY <1>5 DEF ReconcilerNext
  <2>2. ASSUME NEW p, pass' = [pass EXCEPT ![q] = p] PROVE q # r => Goal
    BY <1>1, <1>2, <2>2
  <2>3. ASSUME NEW p, p.plan[k] \in {pass[r].plan[k], NoItem}, q = r,
               pass' = [pass EXCEPT ![q] = p]
        PROVE  Goal
    BY <1>1, <2>3
  <2>4. ASSUME EndPass(q) PROVE Goal
    BY <1>1, <1>2, <1>3, <2>4 DEF EndPass
  <2>5. ASSUME NEW step \in PassSteps, GoOn(q, step) PROVE Goal
    <3> DEFINE p == [pass[q] EXCEPT !.step = step]
    <3>1. pass' = [pass EXCEPT ![q] = p]
      BY <2>5 DEF GoOn
    <3>2. q = r => p.plan[k] = pass[r].plan[k]
      BY <1>1
    <3> HIDE DEF p
    <3> QED
      BY <2>2, <2>3, <3>1, <3>2
  <2>6. CASE BeginSweep(q) \/ \E s \in Stages : HandleEvent(q, s)
    <3>1. ASSUME NEW p, p.plan = NoPlan, pass' = [pass EXCEPT ![q] = p] PROVE Goal
      <4>1. p.plan[k] = NoItem
        BY <3>1
      <4> QED
        BY <2>2, <2>3, <3>1, <4>1
    <3>2. \E p : p.plan = NoPlan /\ pass' = [pass EXCEPT ![q] = p]
      BY <2>6 DEF BeginSweep, HandleEvent
    <3> QED
      BY <3>1, <3>2
  <2>7. CASE ListProjects(q) \/ Decide(q)
    <3>1. \/ EndPass(q)
          \/ \E p : p.plan = pass[q].plan /\ pass' = [pass EXCEPT ![q] = p]
      BY <1>1, <2>7 DEF ListProjects, Decide, Typed, TypeOK, ReconcilerTypeOK
    <3> QED
      BY <2>2, <2>3, <2>4, <3>1
  <2>8. CASE Create(q)
    BY <2>5, <2>8 DEF Create
  <2>9. CASE SyncRead(q) \/ SyncWrite(q)
    <3>1. ASSUME AfterSync(q) PROVE Goal
      BY <2>4, <2>5, <3>1 DEF AfterSync
    <3>2. ASSUME pass' = [pass EXCEPT ![q] = [@ EXCEPT !.step = "move", !.revision = revision]]
          PROVE  Goal
      <4> DEFINE p == [pass[q] EXCEPT !.step = "move", !.revision = revision]
      <4>1. pass' = [pass EXCEPT ![q] = p] /\ (q = r => p.plan[k] = pass[r].plan[k])
        BY <1>1, <3>2
      <4> HIDE DEF p
      <4> QED
        BY <2>2, <2>3, <4>1
    <3> QED
      BY <2>9, <3>1, <3>2 DEF SyncRead, SyncWrite
  <2>10. CASE PlanPlatform(q)
    <3> DEFINE worth == IF Mutable(lifecycle) THEN Candidates ELSE {}
               plan == [j \in Keys |-> IF j \in worth THEN item[j] ELSE NoItem]
               p == [pass[q] EXCEPT !.step = "ask", !.plan = plan]
    <3>1. pass' = [pass EXCEPT ![q] = p] /\ item' = item
      BY <2>10 DEF PlanPlatform, storeVars
    <3>2. p.plan = plan
      BY <1>1, <2>10 DEF Typed, TypeOK, ReconcilerTypeOK
    <3>3. plan[k] = NoItem \/ (k \in Candidates /\ plan[k] = item[k])
      OBVIOUS
    <3>4. k \in Candidates => PlanFor(k, item[k])
      BY DEF Candidates, PlanFor, Typed, TypeOK, StoreTypeOK
    <3> HIDE DEF plan, p
    <3> QED
      BY <1>1, <2>2, <3>1, <3>2, <3>3, <3>4
  <2>11. CASE AskPlatform(q)
    <3>1. \/ EndPass(q)
          \/ \E found : pass' = [pass EXCEPT ![q] =
               [@ EXCEPT !.step = "lock",
                         !.plan = [j \in Keys |-> IF j \in found THEN pass[q].plan[j] ELSE NoItem]]]
      BY <2>11 DEF AskPlatform
    <3>2. ASSUME NEW found, pass' = [pass EXCEPT ![q] =
               [@ EXCEPT !.step = "lock",
                         !.plan = [j \in Keys |-> IF j \in found THEN pass[q].plan[j] ELSE NoItem]]]
          PROVE  Goal
      <4> DEFINE plan == [j \in Keys |-> IF j \in found THEN pass[q].plan[j] ELSE NoItem]
                 p == [pass[q] EXCEPT !.step = "lock", !.plan = plan]
      <4>1. pass' = [pass EXCEPT ![q] = p]
        BY <3>2
      <4>2. p.plan = plan
        BY <1>1 DEF Typed, TypeOK, ReconcilerTypeOK
      <4>3. plan[k] \in {pass[q].plan[k], NoItem}
        OBVIOUS
      <4> HIDE DEF plan, p
      <4> QED
        BY <2>2, <2>3, <4>1, <4>2, <4>3
    <3> QED
      BY <2>4, <3>1, <3>2
  <2>12. CASE LockPlatform(q)
    <3> DEFINE p == [pass[q] EXCEPT !.step = "apply", !.life = lifecycle]
    <3>1. pass' = [pass EXCEPT ![q] = p] /\ (q = r => p.plan[k] = pass[r].plan[k])
      BY <1>1, <2>12 DEF LockPlatform
    <3> HIDE DEF p
    <3> QED
      BY <2>2, <2>3, <3>1
  <2>13. CASE ApplyPlatform(q) \/ StopPass(q)
    BY <2>4, <2>13 DEF ApplyPlatform, StopPass
  <2> QED
    BY <2>1, <2>6, <2>7, <2>8, <2>9, <2>10, <2>11, <2>12, <2>13 DEF Proceed
<1> QED
  BY <1>4, <1>5 DEF Next, vars

LEMMA PlansKept ==
  ASSUME Typed, Protected, PlansIdentify, [Next]_vars
  PROVE  PlansIdentify'
<1> SUFFICES ASSUME NEW r \in Reconcilers, NEW k \in Keys PROVE PlanFor(k, pass[r].plan[k])'
  BY DEF PlansIdentify, PlanFor
<1>1. PlanFor(k, pass[r].plan[k]) /\ RowHistory(k) /\ pass[r].plan[k] \in Item
  BY StepHistory DEF PlansIdentify, PlanFor, Typed, TypeOK, ReconcilerTypeOK
<1>2. CASE pass'[r].plan[k] = NoItem
  BY <1>2 DEF PlanFor
<1>3. CASE pass'[r].plan[k] = pass[r].plan[k]
  BY <1>1, <1>3, PlannedRowKept DEF PlanFor
<1>4. CASE item'[k] = item[k] /\ pass'[r].plan[k] = item[k] /\ PlanFor(k, item[k])
  BY <1>4 DEF PlanFor
<1> QED
  BY <1>2, <1>3, <1>4, PlansMade
-----------------------------------------------------------------------------
LEMMA InitHistory == Init => PlansIdentify /\ Recorded
<1> SUFFICES ASSUME Init PROVE PlansIdentify /\ Recorded
  OBVIOUS
<1>1. /\ item = [k \in Keys |-> NoItem] /\ log = [k \in Keys |-> <<>>]
      /\ pass = [r \in Reconcilers |-> NoPass]
  BY DEF Init, StoreInit, ReconcilerInit
<1>2. PlansIdentify
  BY <1>1 DEF PlansIdentify
<1>3. NoRowNoTrail /\ TrailReplays /\ OpenIsUnruled /\ RulingStands
  BY <1>1 DEF NoRowNoTrail, TrailReplays, OpenIsUnruled, RulingStands, Present
<1> QED
  BY <1>2, <1>3 DEF Recorded

LEMMA AlwaysRecorded == Spec => [](Typed /\ Protected /\ PlansIdentify /\ Recorded)
<1> DEFINE Inv == PlansIdentify /\ Recorded
<1>1. Typed /\ Protected /\ Inv /\ [Next]_vars => Inv'
  BY StepHistory, PlansKept, TrailsKept, RulingsKept DEF Recorded
<1>2. Init => Inv
  BY InitHistory
<1> HIDE DEF Inv
<1>3. Spec => []Inv
  BY <1>1, <1>2, AlwaysProtected, PTL DEF Spec
<1> QED
  BY <1>3, AlwaysProtected, PTL DEF Inv

\* The activity of every row, read in order, starts at not_started, misses no
\* revision of the row and ends at the row's status, whoever wrote the row and
\* whatever ran at the same time (mutateItem, PlatformChecker.advance).
THEOREM TrailReplaysHolds == Spec => []TrailReplays
<1>1. Recorded => TrailReplays
  BY DEF Recorded
<1> QED
  BY <1>1, AlwaysRecorded, PTL

\* The service settles a row at most once, from an open status and never over a
\* person's ruling, although the plan it settles from was read outside the lock
\* it writes under and may be older than the ruling (PlatformChecker.apply).
THEOREM RulingStandsHolds == Spec => []RulingStands
<1>1. Recorded => RulingStands
  BY DEF Recorded
<1> QED
  BY <1>1, AlwaysRecorded, PTL
-----------------------------------------------------------------------------
(* The section snapshot and the checklist's own feed.                      *)

\* What is not there yet holds nothing.
AbsentIsBlank ==
  ~Exists => sections = {} /\ feed = <<>> /\ ~completedAt /\ revision = 0

\* The formations revision identifies the snapshot: a command whose revision still
\* matches read the snapshot there is. The rows it listed are still there.
CommandsIdentify ==
  \A o \in Operators :
    /\ command[o].have \subseteq Present
    /\ command[o].step \in {"read", "listed"} =>
         /\ command[o].sections \subseteq sections
         /\ command[o].revision <= revision
         /\ command[o].revision = revision => command[o].sections = sections

Explained == AbsentIsBlank /\ CommandsIdentify /\ SectionsCovered /\ FeedExplainsRows

\* What a step may do to the checklist's extent: leave it, or create or upgrade it.
ExtentKept ==
  /\ UNCHANGED <<sections, feed, pin>>
  /\ Present' = Present /\ (Exists' <=> Exists)
  /\ revision' = revision \/ (Exists /\ revision' = revision + 1)
  /\ ~Exists => UNCHANGED <<completedAt, revision>>

ExtentCreated == ~Exists /\ \E v \in 1..Templates : CreateChecklist(v)
ExtentUpgraded == \E o \in Operators : UpgradeCommit(o)

\* Writing rows that are there changes which rows there are no more than not writing.
LEMMA SameRows ==
  ASSUME Typed,
         \A k \in Keys : \/ item'[k].revision = item[k].revision
                         \/ k \in Present /\ item'[k].revision = item[k].revision + 1
  PROVE  Present' = Present
<1>1. \A k \in Keys : item[k].revision \in Nat
  BY DEF Typed, TypeOK, StoreTypeOK
<1>2. \A k \in Keys : item'[k].revision > 0 <=> item[k].revision > 0
  BY <1>1 DEF Present
<1> QED
  BY <1>2 DEF Present

LEMMA ExtentSteps ==
  ASSUME Typed, Protected, PlansIdentify, [Next]_vars
  PROVE  ExtentKept \/ ExtentCreated \/ ExtentUpgraded
<1>0. item \in [Keys -> Item] /\ \A k \in Keys : item[k] \in Item
  BY DEF Typed, TypeOK, StoreTypeOK
<1>1. ASSUME UNCHANGED <<lifecycle, revision, completedAt, sections, pin, item, feed>>
      PROVE  ExtentKept
  BY <1>1 DEF ExtentKept, Present, Exists
<1>2. ASSUME UNCHANGED storeVars PROVE ExtentKept
  BY <1>1, <1>2 DEF storeVars
<1>3. ASSUME UNCHANGED <<formationVars, feed>>,
             \A k \in Keys : \/ item'[k].revision = item[k].revision
                             \/ k \in Present /\ item'[k].revision = item[k].revision + 1
      PROVE  ExtentKept
  BY <1>3, SameRows DEF ExtentKept, Exists, formationVars
<1>4. CASE WriterNext
  <2>1. ASSUME NEW w \in Writers, NEW k \in Keys, NEW s, NEW source,
               Accepts(w, k), UpdateItem(k, s, source), EndMutation(w)
        PROVE  ExtentKept
    <3>1. /\ k \in Present /\ item'[k].revision = item[k].revision + 1
          /\ \A j \in Keys : j # k => item'[j] = item[j]
      BY <1>0, <2>1 DEF Accepts, UpdateItem
    <3> QED
      BY <1>3, <2>1, <3>1 DEF EndMutation
  <2>2. ASSUME NEW w \in Writers, NEW k \in Keys,
               (\E s \in Statuses : SetItemStatus(w, k, s)) \/ KeepStatus(w, k)
        PROVE  ExtentKept
    BY <2>1, <2>2 DEF SetItemStatus, KeepStatus
  <2>3. ASSUME NEW w \in Writers, ReadChecklist(w) \/ BeginMutation(w) \/ AbortMutation(w)
        PROVE  ExtentKept
    BY <1>1, <2>3
       DEF ReadChecklist, BeginMutation, AbortMutation, EndMutation, storeVars, formationVars
  <2> QED
    BY <1>4, <2>2, <2>3 DEF WriterNext, EditItem, AssignItem, SetSubItems
<1>5. CASE ReconcilerNext
  <2>1. PICK r \in Reconcilers :
          BeginSweep(r) \/ (\E s \in Stages : HandleEvent(r, s)) \/ Proceed(r) \/ StopPass(r)
    BY <1>5 DEF ReconcilerNext
  <2>2. CASE Create(r)
    <3>1. pass[r].template \in 1..Templates
      BY <2>2 DEF Create, Typed, TemplatesChosen
    <3> QED
      BY <1>2, <2>2, <3>1 DEF Create, ExtentCreated
  <2>3. CASE ApplyPlatform(r)
    <3>1. ASSUME NEW k \in Keys
          PROVE  \/ item'[k].revision = item[k].revision
                 \/ k \in Present /\ item'[k].revision = item[k].revision + 1
      <4>1. CASE k \notin Advanced(r)
        BY <2>3, <4>1 DEF ApplyPlatform
      <4>2. CASE k \in Advanced(r)
        <5>1. k \in Present
          BY <4>2 DEF Advanced, Planned, Present
        <5>2. item'[k] = [item[k] EXCEPT !.status = "done", !.revision = @ + 1]
          BY <2>3, <4>2 DEF ApplyPlatform
        <5>3. item'[k].revision = item[k].revision + 1
          BY <1>0, <5>2
        <5> QED
          BY <5>1, <5>3
      <4> QED
        BY <4>1, <4>2
    <3> QED
      BY <1>3, <2>3, <3>1 DEF ApplyPlatform
  <2>4. CASE SyncWrite(r)
    <3>1. /\ UNCHANGED <<sections, pin, item, feed>> /\ Exists
          /\ \/ UNCHANGED <<lifecycle, revision, completedAt>>
             \/ /\ lifecycle' = LifecycleForStage(pass[r].stage)
                /\ revision' = revision + 1
      BY <2>4 DEF SyncWrite, UpdateLifecycle, Protected, ChecklistFirst
    <3>2. LifecycleForStage(pass[r].stage) # "absent"
      BY StageImplies
    <3> QED
      BY <3>1, <3>2 DEF ExtentKept, Present, Exists
  <2>5. ASSUME ~Create(r), ~ApplyPlatform(r), ~SyncWrite(r) PROVE ExtentKept
    BY <1>1, <2>1, <2>5
       DEF BeginSweep, HandleEvent, Proceed, ListProjects, Decide, SyncRead, formationVars,
           PlanPlatform, AskPlatform, LockPlatform, StopPass, storeVars
  <2> QED
    BY <2>2, <2>3, <2>4, <2>5
<1>6. CASE OperatorNext
  <2>1. ASSUME NEW o \in Operators, ExpandCommand(o) PROVE ExtentKept \/ ExtentCreated
    <3>1. command[o].template \in 1..Templates
      BY <2>1 DEF ExpandCommand, Typed, TemplatesChosen
    <3> QED
      BY <1>2, <2>1, <3>1 DEF ExpandCommand, ExtentCreated
  <2>2. CASE ApplySchema
    <3>1. \A k \in Keys : item'[k] \in {item[k], [item[k] EXCEPT !.source = "manual"]}
      BY <2>2 DEF ApplySchema
    <3>2. \A k \in Keys : item'[k].revision = item[k].revision
      BY <1>0, <3>1
    <3> QED
      BY <1>3, <2>2, <3>2 DEF ApplySchema, formationVars
  <2>3. ASSUME NEW o \in Operators,
               \/ SelectTemplate(o) \/ UpgradeRead(o) \/ UpgradeList(o) \/ AbortCommand(o)
        PROVE  ExtentKept
    BY <1>2, <2>3 DEF SelectTemplate, UpgradeRead, UpgradeList, AbortCommand
  <2> QED
    BY <1>6, <2>1, <2>2, <2>3 DEF OperatorNext, ExtentUpgraded
<1> QED
  BY <1>2, <1>4, <1>5, <1>6 DEF Next, vars

\* Rows K added to the checklist there is, with their sections.
GrownBy(K) ==
  /\ Exists /\ UNCHANGED <<lifecycle, pin, completedAt>>
  /\ K \subseteq Keys \ Present
  /\ Present' = Present \cup K
  /\ sections' = sections \cup SectionsOf(K)
  /\ (revision' = revision /\ sections' = sections) \/ revision' = revision + 1
  /\ feed' = IF K = {} THEN feed
             ELSE Append(feed, [action |-> "template_upgraded", added |-> K])

\* An upgrade adds the rows its template has and the checklist lacks: the snapshot
\* it writes is the one there is, though it read it earlier, plus their sections.
LEMMA UpgradeGrows ==
  ASSUME Typed, Protected, Explained, NEW o \in Operators, UpgradeCommit(o)
  PROVE  GrownBy(Landed(MissingItems(o)))
<1> DEFINE added == Landed(MissingItems(o))
           needed == SectionsToRecord(o, added)
<1>1. /\ command[o].step = "listed"
      /\ needed # {} => revision = command[o].revision
      /\ item' = WithInserted(MissingItems(o))
      /\ sections' = IF needed = {} THEN sections ELSE command[o].sections \cup needed
      /\ revision' = IF needed = {} THEN revision ELSE revision + 1
      /\ UNCHANGED <<lifecycle, completedAt, pin>>
      /\ feed' = IF added = {} THEN feed
                 ELSE Append(feed, [action |-> "template_upgraded", added |-> added])
  BY DEF UpgradeCommit, SnapshotCurrent
<1>2. Exists
  BY <1>1 DEF Protected, ChecklistFirst
<1>3. added \subseteq Keys \ Present
  <2>1. command[o].template \in 1..Templates
    BY <1>1 DEF Typed, TemplatesChosen
  <2>2. TemplateItems[command[o].template] \in SUBSET Keys
    BY <2>1, StoreAssumption
  <2> QED
    BY <2>2 DEF Landed, MissingItems
<1>4. Present' = Present \cup added
  <2>1. \A k \in Keys : item'[k] = IF k \in added THEN NewItem(k) ELSE item[k]
    BY <1>1 DEF WithInserted
  <2>2. \A k \in Keys : NewItem(k).revision = 1
    BY DEF NewItem
  <2> QED
    BY <1>3, <2>1, <2>2 DEF Present
<1>5. sections' = sections \cup SectionsOf(added)
  <2>1. command[o].sections \subseteq sections /\ SectionsOf(command[o].have) \subseteq sections
    BY <1>1 DEF Explained, CommandsIdentify, SectionsCovered, SectionsOf
  <2>2. needed = (SectionsOf(command[o].have) \cup SectionsOf(added)) \ command[o].sections
    BY DEF SectionsToRecord, SectionsOf
  <2>3. CASE needed = {}
    BY <1>1, <2>1, <2>2, <2>3
  <2>4. CASE needed # {}
    <3>1. command[o].sections = sections
      BY <1>1, <2>4 DEF Explained, CommandsIdentify
    <3> QED
      BY <1>1, <2>1, <2>2, <2>4, <3>1
  <2> QED
    BY <2>3, <2>4
<1> QED
  BY <1>1, <1>2, <1>3, <1>4, <1>5 DEF GrownBy
\* A creation writes all of it at once, where nothing was.
CreatedWith(K) ==
  /\ ~Exists /\ lifecycle' = "live" /\ revision' = 1 /\ completedAt' = FALSE
  /\ K \subseteq Keys
  /\ Present = {} /\ Present' = K
  /\ sections = {} /\ sections' = SectionsOf(K)
  /\ feed = <<>> /\ feed' = <<[action |-> "template_expanded", added |-> K]>>

LEMMA CreationFills ==
  ASSUME Typed, Protected, AbsentIsBlank, NEW v \in 1..Templates, ~Exists, CreateChecklist(v)
  PROVE  CreatedWith(TemplateItems[v])
<1>1. TemplateItems[v] \in SUBSET Keys
  BY StoreAssumption
<1>2. Present = {} /\ sections = {} /\ feed = <<>>
  BY DEF Protected, ChecklistFirst, AbsentIsBlank
<1>3. Present' = TemplateItems[v]
  <2>1. \A k \in Keys :
          item'[k] = IF k \in TemplateItems[v] THEN NewItem(k) ELSE item[k]
    BY DEF CreateChecklist
  <2>2. \A k \in Keys : NewItem(k).revision = 1
    BY DEF NewItem
  <2> QED
    BY <1>1, <1>2, <2>1, <2>2 DEF Present
<1>4. feed' = <<[action |-> "template_expanded", added |-> TemplateItems[v]]>>
  BY <1>2 DEF CreateChecklist
<1> QED
  BY <1>1, <1>2, <1>3, <1>4 DEF CreateChecklist, CreatedWith
-----------------------------------------------------------------------------
(* Commands.                                                               *)

\* What a step does to what a command holds: leaves it, drops it, selects a template
\* with what was held before, reads the formations row, or lists the rows.
CommandRests(o) ==
  \/ command'[o] \in {command[o], NoCommand}
  \/ command'[o].step = "chosen" /\ command'[o].have = command[o].have
CommandReads(o) ==
  /\ UNCHANGED storeVars
  /\ command'[o].have = command[o].have
  /\ command'[o].revision = revision /\ command'[o].sections = sections
CommandLists(o) ==
  /\ UNCHANGED storeVars
  /\ command'[o].have = Present
  /\ command[o].step = "read"
  /\ command'[o].revision = command[o].revision
  /\ command'[o].sections = command[o].sections

LEMMA CommandSteps ==
  ASSUME Typed, [Next]_vars
  PROVE  \A o \in Operators : CommandRests(o) \/ CommandReads(o) \/ CommandLists(o)
<1>1. command \in [Operators -> Command] /\ \A o \in Operators : command[o] \in Command
  BY DEF Typed, TypeOK, OperatorTypeOK
<1>2. CASE UNCHANGED command
  BY <1>2 DEF CommandRests
<1>3. CASE OperatorNext
  <2>1. ASSUME NEW q \in Operators, NEW o \in Operators, q # o, NEW c,
               command' = [command EXCEPT ![q] = c]
        PROVE  CommandRests(o)
    BY <1>1, <2>1 DEF CommandRests
  <2>2. ASSUME NEW o \in Operators, EndCommand(o) PROVE CommandRests(o)
    BY <1>1, <2>2 DEF EndCommand, CommandRests
  <2>3. ASSUME NEW q \in Operators, EndCommand(q) PROVE \A o \in Operators : CommandRests(o)
    BY <2>1, <2>2, <2>3 DEF EndCommand
  <2>4. ASSUME NEW q \in Operators, SelectTemplate(q) PROVE \A o \in Operators : CommandRests(o)
    <3> DEFINE c == [command[q] EXCEPT !.step = "chosen", !.template = published]
    <3>1. command' = [command EXCEPT ![q] = c]
      BY <2>4 DEF SelectTemplate
    <3>2. c.step = "chosen" /\ c.have = command[q].have
      BY <1>1
    <3> HIDE DEF c
    <3>3. CommandRests(q)
      BY <1>1, <3>1, <3>2 DEF CommandRests
    <3> QED
      BY <2>1, <3>1, <3>3
  <2>5. ASSUME NEW q \in Operators, UpgradeRead(q)
        PROVE  \A o \in Operators : CommandRests(o) \/ CommandReads(o)
    <3> DEFINE c == [command[q] EXCEPT !.step = "read", !.revision = revision, !.sections = sections]
    <3>1. command' = [command EXCEPT ![q] = c] /\ UNCHANGED storeVars
      BY <2>5 DEF UpgradeRead
    <3>2. c.revision = revision /\ c.sections = sections /\ c.have = command[q].have
      BY <1>1
    <3> HIDE DEF c
    <3>3. CommandReads(q)
      BY <1>1, <3>1, <3>2 DEF CommandReads
    <3> QED
      BY <2>1, <3>1, <3>3
  <2>6. ASSUME NEW q \in Operators, UpgradeList(q)
        PROVE  \A o \in Operators : CommandRests(o) \/ CommandLists(o)
    <3> DEFINE c == [command[q] EXCEPT !.step = "listed", !.have = Present]
    <3>1. command' = [command EXCEPT ![q] = c] /\ UNCHANGED storeVars /\ command[q].step = "read"
      BY <2>6 DEF UpgradeList
    <3>2. /\ c.have = Present
          /\ c.revision = command[q].revision /\ c.sections = command[q].sections
      BY <1>1
    <3> HIDE DEF c
    <3>3. CommandLists(q)
      BY <1>1, <3>1, <3>2 DEF CommandLists
    <3> QED
      BY <2>1, <3>1, <3>3
  <2>7. ASSUME NEW q \in Operators, ExpandCommand(q) \/ UpgradeCommit(q) \/ AbortCommand(q)
        PROVE  EndCommand(q)
    BY <2>7 DEF ExpandCommand, UpgradeCommit, AbortCommand
  <2> QED
    BY <1>2, <1>3, <2>3, <2>4, <2>5, <2>6, <2>7 DEF OperatorNext
<1> QED
  BY <1>2, <1>3 DEF Next, vars
-----------------------------------------------------------------------------
\* Nothing of the checklist's extent is ever taken back, and the formations revision
\* moves whenever the snapshot does.
LEMMA ExtentGrows ==
  ASSUME Typed, Protected, PlansIdentify, Explained, [Next]_vars
  PROVE  /\ sections \subseteq sections' /\ Present \subseteq Present'
         /\ Exists => Exists' /\ pin' = pin
         /\ Exists => revision <= revision' /\ (revision' = revision => sections' = sections)
<1>0. revision \in Nat
  BY DEF Typed, TypeOK, StoreTypeOK
<1>1. CASE ExtentKept
  BY <1>0, <1>1 DEF ExtentKept
<1>2. CASE ExtentCreated
  BY <1>2, CreationFills DEF ExtentCreated, CreatedWith, Explained
<1>3. CASE ExtentUpgraded
  <2>1. PICK K : GrownBy(K)
    BY <1>3, UpgradeGrows DEF ExtentUpgraded
  <2> QED
    BY <1>0, <2>1 DEF GrownBy, Exists
<1> QED
  BY <1>1, <1>2, <1>3, ExtentSteps

LEMMA CommandsKept ==
  ASSUME Typed, Protected, PlansIdentify, Explained, [Next]_vars
  PROVE  CommandsIdentify'
<1> SUFFICES ASSUME NEW o \in Operators
             PROVE  /\ command'[o].have \subseteq Present'
                    /\ command'[o].step \in {"read", "listed"} =>
                         /\ command'[o].sections \subseteq sections'
                         /\ command'[o].revision <= revision'
                         /\ command'[o].revision = revision'
                              => command'[o].sections = sections'
  BY DEF CommandsIdentify
<1>0. /\ revision \in Nat /\ revision' \in Nat /\ command[o] \in Command
      /\ command[o].revision \in Nat
  BY StepTyped DEF Typed, TypeOK, StoreTypeOK, OperatorTypeOK
<1>1. /\ command[o].have \subseteq Present
      /\ command[o].step \in {"read", "listed"} =>
           /\ Exists
           /\ command[o].sections \subseteq sections
           /\ command[o].revision <= revision
           /\ command[o].revision = revision => command[o].sections = sections
  BY DEF Explained, CommandsIdentify, Protected, ChecklistFirst
<1>2. command'[o].have \subseteq Present /\ Present \subseteq Present'
  BY <1>1, ExtentGrows, CommandSteps DEF CommandRests, CommandReads, CommandLists
<1>3. CASE CommandReads(o)
  BY <1>0, <1>2, <1>3 DEF CommandReads, storeVars
<1>4. CASE CommandLists(o)
  BY <1>0, <1>1, <1>2, <1>4 DEF CommandLists, storeVars
<1>5. CASE CommandRests(o)
  <2>1. CASE command'[o].step \notin {"read", "listed"}
    BY <1>2, <2>1
  <2>2. CASE command'[o].step \in {"read", "listed"}
    <3>1. command'[o] = command[o]
      BY <1>5, <2>2 DEF CommandRests
    <3>2. /\ Exists /\ sections \subseteq sections' /\ revision <= revision'
          /\ revision' = revision => sections' = sections
      BY <1>1, <2>2, <3>1, ExtentGrows
    <3> QED
      BY <1>0, <1>1, <1>2, <2>2, <3>1, <3>2
  <2> QED
    BY <2>1, <2>2
<1> QED
  BY <1>3, <1>4, <1>5, CommandSteps

\* The snapshot covers the rows after a creation and after an upgrade.
LEMMA SnapshotKept ==
  ASSUME Typed, Protected, PlansIdentify, Explained, [Next]_vars
  PROVE  AbsentIsBlank' /\ SectionsCovered'
<1>1. CASE ExtentKept
  BY <1>1 DEF ExtentKept, Explained, AbsentIsBlank, SectionsCovered, SectionsOf
<1>2. CASE ExtentCreated
  <2>1. PICK K : CreatedWith(K)
    BY <1>2, CreationFills DEF ExtentCreated, Explained
  <2> QED
    BY <2>1 DEF CreatedWith, AbsentIsBlank, SectionsCovered, SectionsOf, Exists
<1>3. CASE ExtentUpgraded
  <2>1. PICK K : GrownBy(K)
    BY <1>3, UpgradeGrows DEF ExtentUpgraded
  <2>2. Exists'
    BY <2>1 DEF GrownBy, Exists
  <2>3. SectionsCovered'
    BY <2>1 DEF GrownBy, Explained, SectionsCovered, SectionsOf
  <2> QED
    BY <2>2, <2>3 DEF AbsentIsBlank
<1> QED
  BY <1>1, <1>2, <1>3, ExtentSteps

\* The feed explains the rows after a creation, which opens it, and after an
\* upgrade, whose entry names exactly the rows it added.
LEMMA FeedKept ==
  ASSUME Typed, Protected, PlansIdentify, Explained, [Next]_vars
  PROVE  FeedExplainsRows'
<1>0. feed \in Seq(FeedEntry) /\ FeedExplainsRows
  BY DEF Typed, TypeOK, StoreTypeOK, Explained
<1>1. ASSUME UNCHANGED feed, Present' = Present, Exists' <=> Exists PROVE FeedExplainsRows'
  BY <1>0, <1>1 DEF FeedExplainsRows
<1>2. CASE ExtentCreated
  <2>1. PICK K : CreatedWith(K)
    BY <1>2, CreationFills DEF ExtentCreated, Explained
  <2>2. /\ Len(feed') = 1 /\ feed' # <<>> /\ feed'[1].action = "template_expanded"
        /\ feed'[1].added = K
    BY <2>1 DEF CreatedWith
  <2>3. Exists' /\ Present' = K
    BY <2>1 DEF CreatedWith, Exists
  <2> QED
    BY <2>2, <2>3 DEF FeedExplainsRows
<1>3. CASE ExtentUpgraded
  <2>1. PICK K : GrownBy(K)
    BY <1>3, UpgradeGrows DEF ExtentUpgraded
  <2>2. CASE K = {}
    BY <1>1, <2>1, <2>2 DEF GrownBy, Exists
  <2>3. CASE K # {}
    <3> DEFINE e == [action |-> "template_upgraded", added |-> K]
               n == Len(feed)
    <3>1. e \in FeedEntry /\ e.action # "template_expanded" /\ e.added = K
      BY <2>1 DEF GrownBy
    <3>2. feed' = Append(feed, e)
      BY <2>1, <2>3 DEF GrownBy
    <3> HIDE DEF e
    <3>3. /\ n \in Nat /\ Len(feed') = n + 1
          /\ \A i \in 1..n : feed'[i] = feed[i]
          /\ feed'[n + 1] = e
      BY <1>0, <3>1, <3>2, AppendProperties
    <3>4. Exists /\ Exists' /\ n > 0
      <4>1. Exists /\ Exists'
        BY <2>1 DEF GrownBy, Exists
      <4> QED
        BY <1>0, <4>1 DEF FeedExplainsRows
    <3> HIDE DEF n
    <3>5. feed' # <<>>
      BY <3>3
    <3>6. \A i \in 1..(n + 1) : feed'[i].action = "template_expanded" <=> i = 1
      BY <1>0, <3>1, <3>3, <3>4 DEF FeedExplainsRows, n
    <3>7. \A i \in 1..n : feed[i].added \subseteq Present /\ feed[i].added \cap K = {}
      BY <1>0, <2>1 DEF FeedExplainsRows, GrownBy, n
    <3>8. \A i, j \in 1..(n + 1) : i # j => feed'[i].added \cap feed'[j].added = {}
      <4> SUFFICES ASSUME NEW i \in 1..(n + 1), NEW j \in 1..(n + 1), i # j
                   PROVE  feed'[i].added \cap feed'[j].added = {}
        OBVIOUS
      <4>1. CASE i \in 1..n /\ j \in 1..n
        BY <1>0, <3>3, <4>1 DEF FeedExplainsRows, n
      <4>2. CASE i = n + 1 /\ j \in 1..n
        BY <3>1, <3>3, <3>7, <4>2
      <4>3. CASE i \in 1..n /\ j = n + 1
        BY <3>1, <3>3, <3>7, <4>3
      <4> QED
        BY <3>3, <4>1, <4>2, <4>3
    <3>9. Present' = UNION {feed'[i].added : i \in 1..(n + 1)}
      <4>1. Present = UNION {feed[i].added : i \in 1..n}
        BY <1>0 DEF FeedExplainsRows, n
      <4>2. ASSUME NEW x \in Present' PROVE \E i \in 1..(n + 1) : x \in feed'[i].added
        <5>1. CASE x \in K
          BY <3>1, <3>3, <5>1
        <5>2. CASE x \in Present
          <6>1. PICK i \in 1..n : x \in feed[i].added
            BY <4>1, <5>2
          <6> QED
            BY <3>3, <6>1
        <5> QED
          BY <2>1, <5>1, <5>2 DEF GrownBy
      <4>3. ASSUME NEW i \in 1..(n + 1) PROVE feed'[i].added \subseteq Present'
        <5>1. i \in 1..n \/ i = n + 1
          BY <3>3
        <5> QED
          BY <2>1, <3>1, <3>3, <3>7, <5>1 DEF GrownBy
      <4> QED
        BY <4>2, <4>3
    <3> QED
      BY <3>3, <3>4, <3>5, <3>6, <3>8, <3>9 DEF FeedExplainsRows
  <2> QED
    BY <2>2, <2>3
<1> QED
  BY <1>1, <1>2, <1>3, ExtentSteps DEF ExtentKept
-----------------------------------------------------------------------------
LEMMA InitExplained == Init => Explained
<1> SUFFICES ASSUME Init PROVE Explained
  OBVIOUS
<1>1. /\ lifecycle = "absent" /\ revision = 0 /\ completedAt = FALSE /\ sections = {}
      /\ feed = <<>> /\ item = [k \in Keys |-> NoItem]
      /\ command = [o \in Operators |-> NoCommand]
  BY DEF Init, StoreInit, OperatorInit
<1>2. Present = {} /\ ~Exists
  BY <1>1 DEF Present, Exists
<1>3. AbsentIsBlank /\ CommandsIdentify /\ SectionsCovered
  BY <1>1, <1>2 DEF AbsentIsBlank, CommandsIdentify, SectionsCovered, SectionsOf
<1>4. FeedExplainsRows
  BY <1>1, <1>2 DEF FeedExplainsRows
<1> QED
  BY <1>3, <1>4 DEF Explained

LEMMA AlwaysExplained == Spec => []Explained
<1>1. Typed /\ Protected /\ PlansIdentify /\ Explained /\ [Next]_vars => Explained'
  BY CommandsKept, SnapshotKept, FeedKept DEF Explained
<1> QED
  BY <1>1, InitExplained, AlwaysRecorded, PTL DEF Spec

\* A reader always finds a row's section in the snapshot: an upgrade records the
\* sections of what it adds onto the snapshot it read earlier, and commits only
\* if that is still the snapshot (UpgradeFor, UpdateSections).
THEOREM SectionsCoveredHolds == Spec => []SectionsCovered
<1>1. Explained => SectionsCovered
  BY DEF Explained
<1> QED
  BY <1>1, AlwaysExplained, PTL

\* The feed opens with one expansion and each row was added by exactly one entry,
\* however many replicas and commands create and upgrade at once.
THEOREM FeedExplainsRowsHolds == Spec => []FeedExplainsRows
<1>1. Explained => FeedExplainsRows
  BY DEF Explained
<1> QED
  BY <1>1, AlwaysExplained, PTL

\* No step shrinks the section snapshot, moves the pinned template version or
\* removes a row.
THEOREM SnapshotOnlyGrowsHolds == Spec => SnapshotOnlyGrows
<1>1. Typed /\ Protected /\ PlansIdentify /\ Explained /\ [Next]_vars
        => [/\ sections \subseteq sections'
            /\ Exists => pin' = pin
            /\ Present \subseteq Present']_vars
  BY ExtentGrows
<1> QED
  BY <1>1, AlwaysRecorded, AlwaysExplained, PTL DEF Spec, SnapshotOnlyGrows
-----------------------------------------------------------------------------
(* The checklist keeps its contract: what the implementation's steps are to *)
(* somebody who sees statuses, who set them, and the snapshot.             *)

\* The entries that moved the row's status.
Moving(k) == {i \in 1..Len(log[k]) : log[k][i].before # log[k][i].after}

\* If there is one there is a last one.
LastMoveExists ==
  \A k \in Keys : Moving(k) # {} => \E i \in Moving(k) : \A j \in Moving(k) : j <= i

\* A pass about to move the lifecycle still would move it, if the formations row has
\* not moved since the pass read it.
MovesMove ==
  \A r \in Reconcilers : At(r, "move") =>
    /\ pass[r].revision <= revision
    /\ pass[r].revision = revision => LifecycleForStage(pass[r].stage) # lifecycle

\* A write that leaves the status leaves who set it.
LEMMA EditKeepsSetter ==
  ASSUME Typed, LastMoveExists, NEW k \in Keys, RowEdited(k)
  PROVE  Moving(k)' = Moving(k) /\ SetBy(k)' = SetBy(k) /\ item'[k].status = item[k].status
<1>1. item[k].status \in Statuses
  BY DEF Typed, TypeOK, StoreTypeOK
<1>2. TrailGrows(k, "user", item[k].status, item[k].source)
  BY <1>1, WrittenTrail DEF RowEdited
<1>3. /\ Len(log[k]) \in Nat /\ Len(log'[k]) = Len(log[k]) + 1
      /\ \A i \in 1..Len(log[k]) : log'[k][i] = log[k][i]
      /\ log'[k][Len(log'[k])].before = log'[k][Len(log'[k])].after
      /\ item'[k].status = item[k].status
  BY <1>2 DEF TrailGrows
<1>4. 1..Len(log'[k]) = 1..Len(log[k]) \cup {Len(log'[k])}
  BY <1>3
<1>5. Moving(k)' = Moving(k)
  BY <1>3, <1>4 DEF Moving
<1>6. CASE Moving(k) = {}
  BY <1>3, <1>5, <1>6 DEF SetBy, Moving
<1>7. CASE Moving(k) # {}
  <2> DEFINE last == CHOOSE i \in Moving(k) : \A j \in Moving(k) : j <= i
  <2>1. last \in Moving(k)
    BY <1>7 DEF LastMoveExists
  <2>2. log'[k][last] = log[k][last]
    BY <1>3, <2>1 DEF Moving
  <2>3. SetBy(k) = log[k][last].by
    BY <1>7 DEF SetBy, Moving
  <2>4. SetBy(k)' = log'[k][last].by
    <3>1. SetBy(k)' = IF Moving(k)' = {} THEN "nobody"
                      ELSE log'[k][CHOOSE i \in Moving(k)' : \A j \in Moving(k)' : j <= i].by
      BY DEF SetBy, Moving
    <3> QED
      BY <1>5, <1>7, <3>1
  <2> QED
    BY <1>3, <1>5, <2>2, <2>3, <2>4
<1> QED
  BY <1>6, <1>7

\* A write that moves the status sets who set it.
LEMMA MoveSetsSetter ==
  ASSUME Typed, NEW k \in Keys, NEW by \in {"user", "system"}, NEW s \in Statuses, NEW source,
         RowWritten(k, by, s, source), s # item[k].status
  PROVE  /\ SetBy(k)' = by /\ item'[k].status = s
         /\ \E i \in Moving(k)' : \A j \in Moving(k)' : j <= i
<1>1. TrailGrows(k, by, s, source)
  BY WrittenTrail
<1> DEFINE n == Len(log'[k])
<1>2. /\ n \in Nat /\ n > 0
      /\ log'[k][n].before # log'[k][n].after /\ log'[k][n].by = by
      /\ item'[k].status = s
  BY <1>1 DEF TrailGrows
<1>3. Moving(k)' \subseteq 1..n /\ n \in Moving(k)'
  BY <1>2 DEF Moving
<1>4. SetBy(k)' = IF Moving(k)' = {} THEN "nobody"
                  ELSE log'[k][CHOOSE i \in Moving(k)' : \A j \in Moving(k)' : j <= i].by
  BY DEF SetBy, Moving
<1> HIDE DEF n
<1>5. \A j \in Moving(k)' : j <= n
  BY <1>2, <1>3
<1>6. \A i \in Moving(k)' : (\A j \in Moving(k)' : j <= i) => i = n
  BY <1>2, <1>3
<1>7. (CHOOSE i \in Moving(k)' : \A j \in Moving(k)' : j <= i) = n
  BY <1>3, <1>5, <1>6
<1> QED
  BY <1>2, <1>3, <1>4, <1>5, <1>7

\* A row not written is set by whoever set it.
LEMMA SetterKept ==
  ASSUME NEW k \in Keys, log'[k] = log[k]
  PROVE  SetBy(k)' = SetBy(k) /\ Moving(k)' = Moving(k)
BY DEF SetBy, Moving

\* A ruling moves the status: no status allows a transition to itself.
LEMMA RulingsMove == \A s, t \in Statuses : AllowsTransition(s, t) => s # t
BY DEF AllowsTransition, AllowedItemTransitions

LEMMA LastMoveKept ==
  ASSUME Typed, LastMoveExists, \A k \in Keys : RowHistory(k)
  PROVE  LastMoveExists'
<1> SUFFICES ASSUME NEW k \in Keys, Moving(k)' # {}
             PROVE  \E i \in Moving(k)' : \A j \in Moving(k)' : j <= i
  BY DEF LastMoveExists
<1>1. item[k].status \in Statuses
  BY DEF Typed, TypeOK, StoreTypeOK
<1>2. CASE log'[k] = log[k]
  BY <1>2, SetterKept DEF LastMoveExists
<1>3. CASE RowRuled(k)
  BY <1>1, <1>3, RulingsMove, MoveSetsSetter DEF RowRuled
<1>4. CASE RowEdited(k)
  BY <1>4, EditKeepsSetter DEF LastMoveExists
<1>5. CASE RowSettled(k)
  BY <1>5, MoveSetsSetter DEF RowSettled
<1> QED
  BY <1>2, <1>3, <1>4, <1>5 DEF RowHistory, RowKept, RowInserted, RowHandedBack
\* A pass gets to the point of moving the lifecycle only by reading one that its
\* stage does not imply.
LEMMA MoveRead ==
  ASSUME Typed, [Next]_vars, NEW r \in Reconcilers, At(r, "move")'
  PROVE  \/ pass'[r] = pass[r]
         \/ /\ UNCHANGED storeVars
            /\ pass'[r].revision = revision
            /\ LifecycleForStage(pass'[r].stage) # lifecycle
<1> DEFINE Goal ==
      \/ pass'[r] = pass[r]
      \/ /\ UNCHANGED storeVars
         /\ pass'[r].revision = revision
         /\ LifecycleForStage(pass'[r].stage) # lifecycle
<1> SUFFICES Goal
  OBVIOUS
<1>1. pass \in [Reconcilers -> Pass] /\ pass[r] \in Pass /\ pass'[r].step = "move"
  BY DEF Typed, TypeOK, ReconcilerTypeOK, At
<1>2. ASSUME NEW q \in Reconcilers, NEW p, p.step # "move", pass' = [pass EXCEPT ![q] = p]
      PROVE  Goal
  BY <1>1, <1>2
<1>3. ASSUME NEW q \in Reconcilers, EndPass(q) PROVE Goal
  BY <1>2, <1>3 DEF EndPass
<1>4. ASSUME NEW q \in Reconcilers, NEW step \in PassSteps, step # "move", GoOn(q, step)
      PROVE  Goal
  <2> DEFINE p == [pass[q] EXCEPT !.step = step]
  <2>1. pass' = [pass EXCEPT ![q] = p] /\ p.step # "move"
    BY <1>1, <1>4 DEF GoOn
  <2> HIDE DEF p
  <2> QED
    BY <1>2, <2>1
<1>5. CASE ReconcilerNext
  <2>1. PICK q \in Reconcilers :
          BeginSweep(q) \/ (\E s \in Stages : HandleEvent(q, s)) \/ Proceed(q) \/ StopPass(q)
    BY <1>5 DEF ReconcilerNext
  <2>2. CASE SyncRead(q)
    <3>1. CASE InStep(q)
      BY <1>3, <1>4, <2>2, <3>1 DEF SyncRead, AfterSync
    <3>2. CASE ~InStep(q)
      <4> DEFINE p == [pass[q] EXCEPT !.step = "move", !.revision = revision]
      <4>1. pass' = [pass EXCEPT ![q] = p] /\ UNCHANGED storeVars
        BY <2>2, <3>2 DEF SyncRead
      <4>2. pass[q] \in Pass
        BY <1>1
      <4>3. p.revision = revision /\ p.stage = pass[q].stage
        BY <4>2
      <4>4. LifecycleForStage(pass[q].stage) # lifecycle
        BY <3>2 DEF InStep
      <4> HIDE DEF p
      <4> QED
        BY <1>1, <4>1, <4>3, <4>4
    <3> QED
      BY <3>1, <3>2
  <2>3. CASE SyncWrite(q)
    BY <1>3, <1>4, <2>3 DEF SyncWrite, AfterSync
  <2>4. CASE BeginSweep(q) \/ \E s \in Stages : HandleEvent(q, s)
    <3>1. \E p : p.step # "move" /\ pass' = [pass EXCEPT ![q] = p]
      BY <2>4 DEF BeginSweep, HandleEvent
    <3> QED
      BY <1>2, <3>1
  <2>5. CASE ListProjects(q) \/ Decide(q) \/ PlanPlatform(q) \/ AskPlatform(q) \/ LockPlatform(q)
    <3>0. pass[q] \in Pass
      BY <1>1
    <3>1. ListProjects(q) => EndPass(q) \/ \E p : p.step # "move" /\ pass' = [pass EXCEPT ![q] = p]
      BY <3>0 DEF ListProjects
    <3>2. Decide(q) => \E p : p.step # "move" /\ pass' = [pass EXCEPT ![q] = p]
      BY <3>0 DEF Decide
    <3>3. PlanPlatform(q) => \E p : p.step # "move" /\ pass' = [pass EXCEPT ![q] = p]
      BY <3>0 DEF PlanPlatform
    <3>4. AskPlatform(q) => EndPass(q) \/ \E p : p.step # "move" /\ pass' = [pass EXCEPT ![q] = p]
      BY <3>0 DEF AskPlatform
    <3>5. LockPlatform(q) => \E p : p.step # "move" /\ pass' = [pass EXCEPT ![q] = p]
      BY <3>0 DEF LockPlatform
    <3> QED
      BY <1>2, <1>3, <2>5, <3>1, <3>2, <3>3, <3>4, <3>5
  <2>6. CASE Create(q)
    BY <1>4, <2>6 DEF Create
  <2>7. CASE ApplyPlatform(q) \/ StopPass(q)
    BY <1>3, <2>7 DEF ApplyPlatform, StopPass
  <2> QED
    BY <2>1, <2>2, <2>3, <2>4, <2>5, <2>6, <2>7 DEF Proceed
<1>6. CASE UNCHANGED pass
  BY <1>6
<1> QED
  BY <1>5, <1>6 DEF Next, vars

\* While there is a checklist, its lifecycle moves only with its revision.
LEMMA LifecycleMoves ==
  ASSUME Typed, Protected, PlansIdentify, Explained, [Next]_vars, Exists
  PROVE  lifecycle' = lifecycle \/ revision' = revision + 1
<1>1. CASE \E r \in Reconcilers : SyncWrite(r)
  BY <1>1 DEF SyncWrite, UpdateLifecycle
<1>2. CASE \E r \in Reconcilers : ~SyncWrite(r) /\
         (BeginSweep(r) \/ (\E s \in Stages : HandleEvent(r, s)) \/ Proceed(r) \/ StopPass(r))
  BY <1>2 DEF BeginSweep, HandleEvent, Proceed, ListProjects, Decide, Create, SyncRead,
       PlanPlatform, AskPlatform, LockPlatform, ApplyPlatform, StopPass, storeVars, formationVars
<1>3. CASE WriterNext
  BY <1>3 DEF WriterNext, ReadChecklist, BeginMutation, SetItemStatus, EditItem, AssignItem,
       SetSubItems, KeepStatus, AbortMutation, EndMutation, storeVars, formationVars
<1>4. CASE OperatorNext
  BY <1>4 DEF OperatorNext, SelectTemplate, ExpandCommand, UpgradeRead, UpgradeList,
       UpgradeCommit, AbortCommand, ApplySchema, storeVars
<1>5. CASE UNCHANGED storeVars
  BY <1>5 DEF storeVars
<1> QED
  BY <1>1, <1>2, <1>3, <1>4, <1>5 DEF Next, vars, ReconcilerNext

LEMMA MovesMoveKept ==
  ASSUME Typed, Protected, PlansIdentify, Explained, MovesMove, [Next]_vars
  PROVE  MovesMove'
<1> SUFFICES ASSUME NEW r \in Reconcilers, At(r, "move")'
             PROVE  /\ pass'[r].revision <= revision'
                    /\ pass'[r].revision = revision'
                         => LifecycleForStage(pass'[r].stage) # lifecycle'
  BY DEF MovesMove
<1>0. revision \in Nat /\ revision' \in Nat /\ pass[r] \in Pass /\ pass[r].revision \in Nat
  BY StepTyped DEF Typed, TypeOK, StoreTypeOK, ReconcilerTypeOK
<1>1. CASE /\ UNCHANGED storeVars
           /\ pass'[r].revision = revision
           /\ LifecycleForStage(pass'[r].stage) # lifecycle
  BY <1>0, <1>1 DEF storeVars
<1>2. CASE pass'[r] = pass[r]
  <2>1. /\ Exists /\ pass[r].revision <= revision
        /\ pass[r].revision = revision => LifecycleForStage(pass[r].stage) # lifecycle
    BY <1>2 DEF At, MovesMove, Protected, ChecklistFirst
  <2>2. /\ revision <= revision'
        /\ lifecycle' = lifecycle \/ revision' = revision + 1
    BY <2>1, ExtentGrows, LifecycleMoves
  <2> QED
    BY <1>0, <1>2, <2>1, <2>2
<1> QED
  BY <1>1, <1>2, MoveRead
-----------------------------------------------------------------------------
(* Each step is a step of the contract or changes nothing it shows.        *)

\* Who set which status, as the contract shows it.
SameStatus(k) == item'[k].status = item[k].status /\ SetBy(k)' = SetBy(k)

LEMMA StatusesKept ==
  ASSUME \A k \in Keys : SameStatus(k)
  PROVE  /\ [k \in Keys |-> item[k].status]' = [k \in Keys |-> item[k].status]
         /\ [k \in Keys |-> SetBy(k)]' = [k \in Keys |-> SetBy(k)]
BY DEF SameStatus

LEMMA Stutters ==
  ASSUME UNCHANGED <<lifecycle, completedAt, sections>>, Present' = Present,
         \A k \in Keys : SameStatus(k)
  PROVE  UNCHANGED Contract!vars
BY StatusesKept DEF Contract!vars

\* A new row shows the status of a row that is not there, set by nobody.
LEMMA InsertionsKeepStatuses ==
  ASSUME Typed, Protected, log' = log,
         \A k \in Keys : item'[k] = item[k] \/ (k \notin Present /\ item'[k] = NewItem(k))
  PROVE  \A k \in Keys : SameStatus(k)
<1> SUFFICES ASSUME NEW k \in Keys PROVE item'[k].status = item[k].status
  BY SetterKept DEF SameStatus
<1>1. CASE k \notin Present /\ item'[k] = NewItem(k)
  <2>1. item[k].revision = 0
    BY <1>1 DEF Present, Typed, TypeOK, StoreTypeOK
  <2> QED
    BY <1>1, <2>1 DEF NewItem, Protected, RevisionsIdentify
<1> QED
  BY <1>1

LEMMA CreationKeepsContract ==
  ASSUME Typed, Protected, AbsentIsBlank, NEW v \in 1..Templates, ~Exists, CreateChecklist(v)
  PROVE  Contract!Next
<1> DEFINE K == TemplateItems[v]
<1>1. CreatedWith(K)
  BY CreationFills
<1>2. \A k \in Keys : SameStatus(k)
  <2>1. log' = log /\ Present = {}
    BY <1>1 DEF CreateChecklist, CreatedWith
  <2>2. \A k \in Keys : item'[k] = item[k] \/ (k \notin Present /\ item'[k] = NewItem(k))
    BY <2>1 DEF CreateChecklist
  <2> QED
    BY <2>1, <2>2, InsertionsKeepStatuses
<1>3. completedAt' = completedAt
  BY <1>1 DEF CreatedWith, AbsentIsBlank, Typed, TypeOK, StoreTypeOK
<1> HIDE DEF K
<1>4. sections' = sections \cup {SectionOf[k] : k \in K}
  BY <1>1 DEF CreatedWith, SectionsOf
<1>5. K \in SUBSET (Keys \ Present) /\ Contract!Create(K)
  BY <1>1, <1>2, <1>3, <1>4, StatusesKept
     DEF CreatedWith, Exists, Contract!Create, Contract!AddRows
<1> QED
  BY <1>5 DEF Contract!Next

LEMMA UpgradeKeepsContract ==
  ASSUME Typed, Protected, Explained, NEW o \in Operators, UpgradeCommit(o)
  PROVE  [Contract!Next]_(Contract!vars)
<1> DEFINE K == Landed(MissingItems(o))
<1>1. GrownBy(K)
  BY UpgradeGrows
<1>2. \A k \in Keys : SameStatus(k)
  <2>1. log' = log
    BY DEF UpgradeCommit
  <2>2. \A k \in Keys : item'[k] = item[k] \/ (k \notin Present /\ item'[k] = NewItem(k))
    BY DEF UpgradeCommit, WithInserted, Landed
  <2> QED
    BY <2>1, <2>2, InsertionsKeepStatuses
<1> HIDE DEF K
<1>3. sections' = sections \cup {SectionOf[k] : k \in K}
  BY <1>1 DEF GrownBy, SectionsOf
<1>4. CASE K = {}
  <2>1. UNCHANGED <<lifecycle, completedAt, sections>> /\ Present' = Present
    BY <1>1, <1>3, <1>4 DEF GrownBy
  <2> QED
    BY <1>2, <2>1, Stutters
<1>5. CASE K # {}
  <2>1. K \in SUBSET (Keys \ Present) /\ Contract!Grow(K)
    BY <1>1, <1>2, <1>3, <1>5, StatusesKept
       DEF GrownBy, Exists, Contract!Grow, Contract!AddRows
  <2> QED
    BY <2>1 DEF Contract!Next
<1> QED
  BY <1>4, <1>5

LEMMA SyncKeepsContract ==
  ASSUME Typed, Protected, MovesMove, NEW r \in Reconcilers, SyncWrite(r)
  PROVE  [Contract!Next]_(Contract!vars)
<1> DEFINE want == LifecycleForStage(pass[r].stage)
<1>1. At(r, "move") /\ UpdateLifecycle(want, pass[r].revision)
  BY DEF SyncWrite
<1>2. /\ UNCHANGED <<sections, item, log>> /\ Present' = Present
      /\ \A k \in Keys : SameStatus(k)
  BY <1>1, SetterKept DEF UpdateLifecycle, Present, SameStatus
<1>3. CASE revision # pass[r].revision
  BY <1>1, <1>2, <1>3, Stutters DEF UpdateLifecycle
<1>4. CASE revision = pass[r].revision
  <2>1. want \in Lifecycles /\ want # lifecycle /\ Exists
    BY <1>1, <1>4, StageImplies DEF MovesMove, Typed, MovesToALifecycle, Protected, ChecklistFirst
  <2>2. lifecycle' = want /\ completedAt' = StampFor(want)
    BY <1>1, <1>4 DEF UpdateLifecycle
  <2> HIDE DEF want
  <2>3. StampFor(want) = (want = "completed" \/ (completedAt /\ want = "frozen"))
    <3>1. completedAt \in BOOLEAN
      BY DEF Typed, TypeOK, StoreTypeOK
    <3>2. CASE want = "completed"
      BY <3>2 DEF StampFor
    <3>3. CASE want = "live"
      BY <3>3 DEF StampFor
    <3>4. CASE want = "frozen"
      BY <3>1, <3>4 DEF StampFor
    <3> QED
      BY <2>1, <3>2, <3>3, <3>4
  <2>4. Contract!Follow(want)
    BY <1>2, <2>1, <2>2, <2>3, StatusesKept DEF Exists, Contract!Follow
  <2> QED
    BY <2>1, <2>4 DEF Contract!Next
<1> QED
  BY <1>3, <1>4
\* The rows a pass advances are open platform rows of a live checklist whose status
\* nobody has set.
LEMMA AdvancedRows ==
  ASSUME Typed, Protected, PlansIdentify, Recorded, NEW r \in Reconcilers, ApplyPlatform(r),
         NEW k \in Advanced(r)
  PROVE  /\ k \in Present /\ lifecycle = "live" /\ item[k].status \notin {"done", "skipped"}
         /\ SetBy(k) = "nobody" /\ SetBy(k)' = "system" /\ item'[k].status = "done"
<1>1. /\ k \in Keys /\ pass[r].plan[k].revision > 0 /\ Mutable(pass[r].life)
      /\ item[k].revision = pass[r].plan[k].revision
  BY DEF Advanced, Planned
<1>2. lifecycle = "live"
  BY <1>1 DEF ApplyPlatform, Unlock, Mutable, Protected, LockProtects
<1>3. /\ item[k] = pass[r].plan[k] /\ k \in Present /\ item[k] \in Item
      /\ item[k].source = "platform" /\ item[k].status \notin {"done", "skipped"}
  BY <1>1 DEF PlansIdentify, Present, Typed, TypeOK, StoreTypeOK
<1>4. SetBy(k) = "nobody"
  BY <1>1, <1>3 DEF Recorded, OpenIsUnruled, SetBy
<1>5. item'[k] = [item[k] EXCEPT !.status = "done", !.revision = @ + 1]
  BY <1>1 DEF ApplyPlatform
<1>6. log'[k] = Append(log[k], [by |-> "system", before |-> item[k].status, after |-> "done"])
  BY <1>1, <1>3 DEF ApplyPlatform
<1>7. RowWritten(k, "system", "done", "platform")
  BY <1>3, <1>5, <1>6 DEF RowWritten
<1> QED
  BY <1>1, <1>2, <1>3, <1>4, <1>7, MoveSetsSetter

LEMMA PlatformKeepsContract ==
  ASSUME Typed, Protected, PlansIdentify, Recorded, NEW r \in Reconcilers, ApplyPlatform(r)
  PROVE  [Contract!Next]_(Contract!vars)
<1> DEFINE K == Advanced(r)
<1>1. \A k \in K : /\ k \in Present /\ lifecycle = "live"
                   /\ item[k].status \notin {"done", "skipped"} /\ SetBy(k) = "nobody"
                   /\ SetBy(k)' = "system" /\ item'[k].status = "done"
  BY AdvancedRows
<1>2. \A k \in Keys \ K : SameStatus(k)
  BY SetterKept DEF ApplyPlatform, SameStatus
<1>3. UNCHANGED <<lifecycle, completedAt, sections>>
  BY DEF ApplyPlatform, formationVars
<1>4. Present' = Present
  <2>1. \A k \in Keys : \/ item'[k].revision = item[k].revision
                        \/ k \in Present /\ item'[k].revision = item[k].revision + 1
    <3> SUFFICES ASSUME NEW k \in Keys, k \in K
                 PROVE  item'[k].revision = item[k].revision + 1
      BY <1>1 DEF ApplyPlatform
    <3>1. item'[k] = [item[k] EXCEPT !.status = "done", !.revision = @ + 1] /\ item[k] \in Item
      BY DEF ApplyPlatform, Typed, TypeOK, StoreTypeOK
    <3> QED
      BY <3>1
  <2> QED
    BY <2>1, SameRows
<1>5. K \subseteq Present /\ K \subseteq Keys
  BY <1>1 DEF Advanced, Planned
<1> HIDE DEF K
<1>6. CASE K = {}
  BY <1>2, <1>3, <1>4, <1>6, Stutters
<1>7. CASE K # {}
  <2>1. lifecycle = "live"
    BY <1>1, <1>7
  <2>2. [k \in Keys |-> item'[k].status]
          = [k \in Keys |-> IF k \in K THEN "done" ELSE [j \in Keys |-> item[j].status][k]]
    BY <1>1, <1>2 DEF SameStatus
  <2>3. [k \in Keys |-> SetBy(k)]'
          = [k \in Keys |-> IF k \in K THEN "system" ELSE [j \in Keys |-> SetBy(j)][k]]
    <3>1. \A k \in Keys : SetBy(k)' = IF k \in K THEN "system" ELSE SetBy(k)
      BY <1>1, <1>2 DEF SameStatus
    <3> QED
      BY <3>1
  <2>4. \A k \in K : /\ [j \in Keys |-> item[j].status][k] \notin {"done", "skipped"}
                     /\ [j \in Keys |-> SetBy(j)][k] = "nobody"
    BY <1>1, <1>5
  <2>5. PICK S : S = K
    OBVIOUS
  <2>6. S \in SUBSET Present /\ Contract!Settle(S)
    BY <1>3, <1>4, <1>5, <1>7, <2>1, <2>2, <2>3, <2>4, <2>5 DEF Contract!Settle, Contract!Open
  <2> QED
    BY <2>6 DEF Contract!Next
<1> QED
  BY <1>6, <1>7

LEMMA WriterKeepsContract ==
  ASSUME Typed, Protected, LastMoveExists, WriterNext
  PROVE  [Contract!Next]_(Contract!vars)
<1>0. item \in [Keys -> Item] /\ log \in [Keys -> Seq(Entry)] /\ \A k \in Keys : item[k] \in Item
  BY DEF Typed, TypeOK, StoreTypeOK
<1>1. ASSUME NEW w \in Writers, NEW k \in Keys, NEW s \in Statuses, NEW source,
             Accepts(w, k), UpdateItem(k, s, source),
             AppendActivity(k, "user", item[k].status, s), EndMutation(w)
      PROVE  /\ RowWritten(k, "user", s, source)
             /\ \A j \in Keys : j # k => SameStatus(j)
             /\ lifecycle = "live" /\ k \in Present
             /\ UNCHANGED <<lifecycle, completedAt, sections>> /\ Present' = Present
  <2>1. RowWritten(k, "user", s, source) /\ k \in Present
    BY <1>0, <1>1 DEF Accepts, UpdateItem, AppendActivity, RowWritten
  <2>2. \A j \in Keys : j # k => item'[j] = item[j] /\ log'[j] = log[j]
    BY <1>0, <1>1 DEF UpdateItem, AppendActivity
  <2>3. \A j \in Keys : j # k => SameStatus(j)
    BY <2>2, SetterKept DEF SameStatus
  <2>4. Present' = Present
    BY <2>1, <2>2, SameRows DEF RowWritten
  <2>5. lifecycle = "live"
    BY <1>1 DEF Accepts, Mutable, EndMutation, Unlock, Protected, LockProtects
  <2> QED
    BY <1>1, <2>1, <2>3, <2>4, <2>5 DEF EndMutation, formationVars
<1>2. ASSUME NEW w \in Writers, NEW k \in Keys, NEW s \in Statuses, SetItemStatus(w, k, s)
      PROVE  Contract!Next
  <2>1. AllowsTransition(item[k].status, s) /\ s # item[k].status
    BY <1>0, <1>2, RulingsMove DEF SetItemStatus
  <2>2. /\ RowWritten(k, "user", s, "manual")
        /\ \A j \in Keys : j # k => SameStatus(j)
        /\ lifecycle = "live" /\ k \in Present
        /\ UNCHANGED <<lifecycle, completedAt, sections>> /\ Present' = Present
    BY <1>1, <1>2 DEF SetItemStatus
  <2>3. SetBy(k)' = "user" /\ item'[k].status = s
    BY <2>1, <2>2, MoveSetsSetter
  <2>4. [j \in Keys |-> item[j].status]' = [[j \in Keys |-> item[j].status] EXCEPT ![k] = s]
    BY <2>2, <2>3 DEF SameStatus
  <2>5. [j \in Keys |-> SetBy(j)]' = [[j \in Keys |-> SetBy(j)] EXCEPT ![k] = "user"]
    <3>1. \A j \in Keys : SetBy(j)' = IF j = k THEN "user" ELSE SetBy(j)
      BY <2>2, <2>3 DEF SameStatus
    <3> QED
      BY <3>1
  <2>6. Contract!Rule(k, s)
    BY <2>2, <2>4, <2>5 DEF Contract!Rule
  <2>7. s \in AllowedItemTransitions[[j \in Keys |-> item[j].status][k]]
    BY <2>1 DEF AllowsTransition
  <2> QED
    BY <2>2, <2>6, <2>7 DEF Contract!Next
<1>3. ASSUME NEW w \in Writers, NEW k \in Keys, KeepStatus(w, k)
      PROVE  UNCHANGED Contract!vars
  <2>1. item[k].status \in Statuses
    BY <1>0
  <2>2. /\ RowEdited(k)
        /\ \A j \in Keys : j # k => SameStatus(j)
        /\ UNCHANGED <<lifecycle, completedAt, sections>> /\ Present' = Present
    BY <1>1, <1>3, <2>1 DEF KeepStatus, RowEdited
  <2>3. SameStatus(k)
    BY <2>2, EditKeepsSetter DEF SameStatus
  <2> QED
    BY <2>2, <2>3, Stutters
<1>4. ASSUME NEW w \in Writers, ReadChecklist(w) \/ BeginMutation(w) \/ AbortMutation(w)
      PROVE  UNCHANGED Contract!vars
  <2>1. UNCHANGED <<lifecycle, completedAt, sections, item, log>>
    BY <1>4
       DEF ReadChecklist, BeginMutation, AbortMutation, EndMutation, storeVars, formationVars
  <2>2. Present' = Present /\ \A k \in Keys : SameStatus(k)
    BY <2>1, SetterKept DEF SameStatus, Present
  <2> QED
    BY <2>1, <2>2, Stutters
<1> QED
  BY <1>2, <1>3, <1>4 DEF WriterNext, EditItem, AssignItem, SetSubItems

LEMMA StepKeepsContract ==
  ASSUME Typed, Protected, PlansIdentify, Recorded, Explained, LastMoveExists, MovesMove,
         [Next]_vars
  PROVE  [Contract!Next]_(Contract!vars)
<1>1. ASSUME UNCHANGED <<lifecycle, completedAt, sections, item, log>>
      PROVE  UNCHANGED Contract!vars
  <2>1. Present' = Present /\ \A k \in Keys : SameStatus(k)
    BY <1>1, SetterKept DEF SameStatus, Present
  <2> QED
    BY <1>1, <2>1, Stutters
<1>2. ASSUME UNCHANGED storeVars PROVE UNCHANGED Contract!vars
  BY <1>1, <1>2 DEF storeVars
<1>3. CASE ReconcilerNext
  <2>1. PICK r \in Reconcilers :
          BeginSweep(r) \/ (\E s \in Stages : HandleEvent(r, s)) \/ Proceed(r) \/ StopPass(r)
    BY <1>3 DEF ReconcilerNext
  <2>2. CASE Create(r)
    <3>1. pass[r].template \in 1..Templates
      BY <2>2 DEF Create, Typed, TemplatesChosen
    <3> QED
      BY <1>2, <2>2, <3>1, CreationKeepsContract DEF Create, Explained
  <2>3. ASSUME ~Create(r), ~ApplyPlatform(r), ~SyncWrite(r) PROVE UNCHANGED Contract!vars
    BY <1>1, <2>1, <2>3
       DEF BeginSweep, HandleEvent, Proceed, ListProjects, Decide, SyncRead, formationVars,
           PlanPlatform, AskPlatform, LockPlatform, StopPass, storeVars
  <2> QED
    BY <2>2, <2>3, PlatformKeepsContract, SyncKeepsContract
<1>4. CASE OperatorNext
  <2>1. ASSUME NEW o \in Operators, ExpandCommand(o) PROVE [Contract!Next]_(Contract!vars)
    <3>1. command[o].template \in 1..Templates
      BY <2>1 DEF ExpandCommand, Typed, TemplatesChosen
    <3> QED
      BY <1>2, <2>1, <3>1, CreationKeepsContract DEF ExpandCommand, Explained
  <2>2. CASE ApplySchema
    <3>0. \A k \in Keys : item[k] \in Item
      BY DEF Typed, TypeOK, StoreTypeOK
    <3>1. \A k \in Keys : item'[k] \in {item[k], [item[k] EXCEPT !.source = "manual"]}
      BY <2>2 DEF ApplySchema
    <3>2. \A k \in Keys : /\ item'[k].revision = item[k].revision
                          /\ item'[k].status = item[k].status
      BY <3>0, <3>1
    <3>3. Present' = Present
      BY <3>2, SameRows
    <3>4. \A k \in Keys : SameStatus(k)
      BY <2>2, <3>2, SetterKept DEF ApplySchema, SameStatus
    <3> QED
      BY <2>2, <3>3, <3>4, Stutters DEF ApplySchema
  <2>3. ASSUME NEW o \in Operators,
               \/ SelectTemplate(o) \/ UpgradeRead(o) \/ UpgradeList(o) \/ AbortCommand(o)
        PROVE  UNCHANGED Contract!vars
    BY <1>2, <2>3 DEF SelectTemplate, UpgradeRead, UpgradeList, AbortCommand
  <2> QED
    BY <1>4, <2>1, <2>2, <2>3, UpgradeKeepsContract DEF OperatorNext
<1> QED
  BY <1>2, <1>3, <1>4, WriterKeepsContract DEF Next, vars

LEMMA InitContract == Init => Contract!Init /\ LastMoveExists /\ MovesMove
<1> SUFFICES ASSUME Init PROVE Contract!Init /\ LastMoveExists /\ MovesMove
  OBVIOUS
<1>1. /\ lifecycle = "absent" /\ completedAt = FALSE /\ sections = {}
      /\ item = [k \in Keys |-> NoItem] /\ log = [k \in Keys |-> <<>>]
      /\ pass = [r \in Reconcilers |-> NoPass]
  BY DEF Init, StoreInit, ReconcilerInit
<1>2. \A k \in Keys : Moving(k) = {} /\ SetBy(k) = "nobody"
  BY <1>1 DEF Moving, SetBy
<1>3. Present = {}
  BY <1>1 DEF Present
<1>4. [k \in Keys |-> SetBy(k)] = [k \in Keys |-> "nobody"]
  BY <1>2
<1>5. [k \in Keys |-> item[k].status] = [k \in Keys |-> "not_started"]
  BY <1>1
<1>6. Contract!Init
  BY <1>1, <1>3, <1>4, <1>5 DEF Contract!Init
<1>7. LastMoveExists /\ MovesMove
  BY <1>1, <1>2 DEF LastMoveExists, MovesMove, At
<1> QED
  BY <1>6, <1>7

\* The checklist under all its actors implements its contract: locks, revisions,
\* plans and commands that straddle commits show, from outside, only the contract's
\* atomic steps (ChecklistContract).
THEOREM KeepsContractHolds == Spec => KeepsContract
<1> DEFINE Inv == LastMoveExists /\ MovesMove
           Known == Typed /\ Protected /\ PlansIdentify /\ Recorded /\ Explained
<1>1. Spec => []Known
  BY AlwaysRecorded, AlwaysExplained, PTL
<1>2. Known /\ Inv /\ [Next]_vars => Inv'
  BY StepHistory, LastMoveKept, MovesMoveKept
<1>3. Known /\ Inv /\ [Next]_vars => [Contract!Next]_(Contract!vars)
  BY StepKeepsContract
<1>4. Init => Contract!Init /\ Inv
  BY InitContract
<1> HIDE DEF Inv, Known
<1> QED
  BY <1>1, <1>2, <1>3, <1>4, PTL DEF Spec, KeepsContract, Contract!Spec
=============================================================================
