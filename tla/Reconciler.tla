----------------------------- MODULE Reconciler -----------------------------
(***************************************************************************)
(* Replicas bringing the checklist into line with the project: the daily   *)
(* sweep and the project-event listener, which end in the same routine     *)
(* (internal/service/reconcile.go, lifecycle.go, expansion.go,             *)
(* platform_check.go). Every replica runs both; there is no leader, so any *)
(* number of passes may be at any step at once, each holding what it read  *)
(* earlier. One element of Reconcilers is one pass at a time.              *)
(***************************************************************************)
EXTENDS ChecklistStore

CONSTANT Reconcilers

ASSUME ReconcilerAssumption == Nobody \notin Reconcilers

VARIABLE pass  \* [Reconcilers -> Pass]

\* What a pass holds between its steps: whether it knows of a checklist, the
\* stage it was given, the template it would create from, the formations
\* revision SyncTo read, the platform candidates as planned (NoItem for the
\* other keys) and the lifecycle read under the lock.
PassSteps == {"idle", "list", "decide", "create", "sync", "move", "plan", "ask",
              "lock", "apply"}
Pass == [step     : PassSteps,
         trigger  : {"sweep", "listener"},
         known    : BOOLEAN,
         stage    : AllStages \cup {"none"},
         template : Nat,
         revision : Nat,
         plan     : [Keys -> Item],
         life     : Lifecycles \cup {"absent"}]

NoPlan == [k \in Keys |-> NoItem]
NoPass == [step |-> "idle", trigger |-> "sweep", known |-> FALSE, stage |-> "none",
           template |-> 0, revision |-> 0, plan |-> NoPlan, life |-> "absent"]

At(r, step) == pass[r].step = step
EndPass(r) == pass' = [pass EXCEPT ![r] = NoPass]
GoOn(r, step) == pass' = [pass EXCEPT ![r] = [@ EXCEPT !.step = step]]

NoFault == UNCHANGED factVars
OneFault == Fault /\ UNCHANGED <<stage, inbox, resources, published, moves>>
-----------------------------------------------------------------------------
(* Which project, at which stage.                                          *)

\* What knownChecklists and hasChecklist may say of the project: a failed read is
\* carried on as knowing of no checklist.
KnownAnswers == {FALSE, Exists}

\* ReconcileOnce reads the known checklists first.
BeginSweep(r) ==
  /\ At(r, "idle")
  /\ \E known \in KnownAnswers :
       /\ IF known = Exists THEN NoFault ELSE OneFault
       /\ pass' = [pass EXCEPT ![r] = [NoPass EXCEPT !.step = "list", !.known = known]]
  /\ UNCHANGED storeVars

\* Mutant: the projects already holding a checklist are not named.
ListProjects_NotNamed(r) ==
  /\ At(r, "list")
  /\ NoFault
  /\ IF stage \in FormationStages
       THEN pass' = [pass EXCEPT ![r] = [@ EXCEPT !.step = "decide", !.stage = stage]]
       ELSE EndPass(r)
  /\ UNCHANGED storeVars

\* ListFormingProjects answers with the projects at a formation stage plus the
\* ones named; a project it leaves out is not visited.
ListProjects(r) ==
  /\ At(r, "list")
  /\ NoFault
  /\ IF stage \in FormationStages \/ pass[r].known
       THEN pass' = [pass EXCEPT ![r] = [@ EXCEPT !.step = "decide", !.stage = stage]]
       ELSE EndPass(r)
  /\ UNCHANGED storeVars

\* ProjectListener.Handle: the stage is the event's, however old, and
\* hasChecklist answers for the one project. An event is handled at most once.
HandleEvent(r, s) ==
  /\ At(r, "idle")
  /\ s \in inbox
  /\ inbox' = inbox \ {s}
  /\ \E known \in KnownAnswers :
       /\ IF known = Exists THEN UNCHANGED faults ELSE Fault
       /\ pass' = [pass EXCEPT ![r] =
            [NoPass EXCEPT !.step = "decide", !.trigger = "listener",
                           !.stage = s, !.known = known]]
  /\ UNCHANGED <<stage, resources, published, moves, storeVars>>

\* Mutant: absence read as presence.
Creates_Inverted(r) == FormingStage(pass[r].stage) /\ pass[r].known

\* reconcileProject: only a forming project with no known checklist is created
\* for, and only when a published template can be read; in every other case the
\* pass goes on to finish the project.
Creates(r) == FormingStage(pass[r].stage) /\ ~pass[r].known

Decide(r) ==
  /\ At(r, "decide")
  /\ \E tpl \in {0, published} :
       /\ IF tpl = published THEN NoFault ELSE OneFault /\ Creates(r)
       /\ pass' = [pass EXCEPT ![r] =
            IF Creates(r) /\ tpl > 0
              THEN [@ EXCEPT !.step = "create", !.template = tpl]
              ELSE [@ EXCEPT !.step = "sync"]]
  /\ UNCHANGED storeVars

\* ExpandWithTemplate, one transaction. Another replica having created the
\* checklist first is success.
Create(r) ==
  /\ At(r, "create")
  /\ NoFault
  /\ IF Exists THEN UNCHANGED storeVars ELSE CreateChecklist(pass[r].template)
  /\ GoOn(r, "sync")
-----------------------------------------------------------------------------
(* finishProject: the lifecycle first, then, on a sweep, the platform rows. *)

\* Mutant: no trigger runs the platform pass.
AfterSync_NoPlatform(r) == EndPass(r)

\* platformPassApplies: an event carries no news about the checked resources.
AfterSync(r) ==
  IF pass[r].trigger = "listener" THEN EndPass(r) ELSE GoOn(r, "plan")

\* Mutant: a stage that implies no lifecycle is written as one.
InStep_NoneMoves(r) == LifecycleForStage(pass[r].stage) = lifecycle \/ ~Exists

\* Nothing to move: the stage implies no lifecycle, there is no checklist, or it
\* already agrees.
InStep(r) == LifecycleForStage(pass[r].stage) \in {"none", lifecycle} \/ ~Exists

\* SyncTo reads the row without a lock and writes only if it must move.
SyncRead(r) ==
  /\ At(r, "sync")
  /\ NoFault
  /\ IF InStep(r)
       THEN AfterSync(r)
       ELSE pass' = [pass EXCEPT ![r] = [@ EXCEPT !.step = "move", !.revision = revision]]
  /\ UNCHANGED storeVars

\* A revision that moved since the read is not an error: SyncTo reports that
\* nothing moved, and the pass goes on.
SyncWrite(r) ==
  /\ At(r, "move")
  /\ NoFault
  /\ UpdateLifecycle(LifecycleForStage(pass[r].stage), pass[r].revision)
  /\ AfterSync(r)

\* The rows a check may still advance, of those some lookup answers.
Candidates ==
  {k \in Present \cap PlatformKeys :
     item[k].source = "platform" /\ item[k].status \notin {"done", "skipped"}}

\* plan: rows and lifecycle are read with no lock held.
PlanPlatform(r) ==
  /\ At(r, "plan")
  /\ NoFault
  /\ LET worth == IF Mutable(lifecycle) THEN Candidates ELSE {} IN
     pass' = [pass EXCEPT ![r] =
       [@ EXCEPT !.step = "ask", !.plan = [k \in Keys |-> IF k \in worth THEN item[k] ELSE NoItem]]]
  /\ UNCHANGED storeVars

Planned(r) == {k \in Keys : pass[r].plan[k].revision > 0}

\* ask: other services are queried with no transaction open. A candidate stays
\* when its resource is found; failed lookups drop theirs.
AskPlatform(r) ==
  /\ At(r, "ask")
  /\ \E found \in SUBSET (Planned(r) \cap resources) :
       /\ IF found = Planned(r) \cap resources THEN NoFault ELSE OneFault
       /\ IF found = {}
            THEN EndPass(r)
            ELSE pass' = [pass EXCEPT ![r] =
                   [@ EXCEPT !.step = "lock",
                             !.plan = [k \in Keys |-> IF k \in found THEN pass[r].plan[k] ELSE NoItem]]]
  /\ UNCHANGED storeVars

\* apply: the lifecycle is read again, under the row lock.
LockPlatform(r) ==
  /\ At(r, "lock")
  /\ NoFault
  /\ LockFormation(r)
  /\ pass' = [pass EXCEPT ![r] = [@ EXCEPT !.step = "apply", !.life = lifecycle]]
  /\ UNCHANGED <<formationVars, item, log, feed>>

\* Mutant: the lifecycle is not read again under the lock.
Advanced_NoRecheck(r) == {k \in Planned(r) : item[k].revision = pass[r].plan[k].revision}

\* Mutant: the planned revision is not compared.
Advanced_Stale(r) == {k \in Planned(r) : Mutable(pass[r].life)}

\* advance, for each row whose planned revision still holds; a row that moved
\* is dropped. Status goes to done, the source is left alone.
Advanced(r) ==
  {k \in Planned(r) :
     Mutable(pass[r].life) /\ item[k].revision = pass[r].plan[k].revision}

ApplyPlatform(r) ==
  /\ At(r, "apply")
  /\ NoFault
  /\ Unlock(r)
  /\ item' = [k \in Keys |->
       IF k \in Advanced(r)
         THEN [item[k] EXCEPT !.status = "done", !.revision = @ + 1]
         ELSE item[k]]
  /\ log' = [k \in Keys |->
       IF k \in Advanced(r)
         THEN Append(log[k], [by |-> "system", before |-> pass[r].plan[k].status,
                              after |-> "done"])
         ELSE log[k]]
  /\ EndPass(r)
  /\ UNCHANGED <<formationVars, feed>>

\* Every other failure ends the work on the project until the next pass: a
\* failed project list, creation, lifecycle sync or platform transaction, or
\* the replica stopping. Postgres rolls an open transaction back.
StopPass(r) ==
  /\ ~At(r, "idle")
  /\ OneFault
  /\ lock' = IF lock = r THEN Nobody ELSE lock
  /\ EndPass(r)
  /\ UNCHANGED <<formationVars, item, log, feed>>
-----------------------------------------------------------------------------
\* The steps a pass takes of its own accord once begun.
Proceed(r) ==
  \/ ListProjects(r) \/ Decide(r) \/ Create(r)
  \/ SyncRead(r) \/ SyncWrite(r)
  \/ PlanPlatform(r) \/ AskPlatform(r) \/ LockPlatform(r) \/ ApplyPlatform(r)

ReconcilerNext ==
  \E r \in Reconcilers :
    \/ BeginSweep(r)
    \/ \E s \in Stages : HandleEvent(r, s)
    \/ Proceed(r)
    \/ StopPass(r)

ReconcilerInit == pass = [r \in Reconcilers |-> NoPass]

ReconcilerTypeOK == pass \in [Reconcilers -> Pass]
=============================================================================
