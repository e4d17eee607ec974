----------------------------- MODULE Checklist ------------------------------
(***************************************************************************)
(* One project's checklist with everything that touches it: people writing *)
(* items, replicas sweeping and listening, an operator's commands, and the *)
(* project changing underneath them.                                       *)
(***************************************************************************)
EXTENDS ItemWriter, Reconciler, Operator

vars == <<factVars, storeVars, request, pass, command>>

Init ==
  /\ FactsInit
  /\ StoreInit
  /\ WriterInit
  /\ ReconcilerInit
  /\ OperatorInit

Next ==
  \/ FactsNext /\ UNCHANGED <<storeVars, request, pass, command>>
  \/ WriterNext /\ UNCHANGED <<factVars, pass, command>>
  \/ ReconcilerNext /\ UNCHANGED <<request, command>>
  \/ OperatorNext /\ UNCHANGED <<factVars, request, pass>>

Spec == Init /\ [][Next]_vars

ASSUME ActorsAssumption == Writers \cap Reconcilers = {}

\* A running replica keeps stepping and sweeps again after each pass; a
\* transaction ends, its request bounded by the server's timeouts; and row-lock
\* waiters are queued, so whoever waits for the formations row is not passed
\* over forever. Nothing makes people write, events arrive or operators act.
Fairness ==
  /\ \A r \in Reconcilers :
       /\ WF_vars((BeginSweep(r) \/ Proceed(r)) /\ UNCHANGED <<request, command>>)
       /\ SF_vars((SyncWrite(r) \/ LockPlatform(r)) /\ UNCHANGED <<request, command>>)
  /\ \A w \in Writers : WF_vars(AbortMutation(w) /\ UNCHANGED <<factVars, pass, command>>)

FairSpec == Spec /\ Fairness
-----------------------------------------------------------------------------
\* Every variable holds a value of its kind; the lock's holder is somebody who
\* takes row locks (GetByProjectForUpdate's two callers).
TypeOK ==
  /\ FactsTypeOK
  /\ StoreTypeOK
  /\ lock \in {Nobody} \cup Writers \cup Reconcilers
  /\ WriterTypeOK
  /\ ReconcilerTypeOK
  /\ OperatorTypeOK

\* A committed row changes only while its checklist is live, whoever writes it
\* and whatever they read before the lock (mutateItem, PlatformChecker.apply).
WritesOnlyWhileLive ==
  [][\A k \in Present : item'[k] # item[k] => lifecycle = "live"]_vars

\* Under If-Match a person's write replaces exactly the row they were shown: no
\* change committed since their read is overwritten unseen (Items.Update).
NoLostUpdate ==
  [][\A w \in Writers, k \in Keys :
       lock = w /\ item'[k].revision # item[k].revision
         => item[k].status = request[w].read[k].status]_vars

\* The activity feed accounts for every revision of a row: its entries chain
\* from not_started to the row's status, one per revision after the first.
TrailReplays ==
  \A k \in Keys :
    LET trail == log[k] IN
    /\ k \in Present => Len(trail) = item[k].revision - 1
    /\ \A i \in 1..Len(trail) :
         trail[i].before = IF i = 1 THEN "not_started" ELSE trail[i - 1].after
    /\ item[k].status = IF trail = <<>> THEN "not_started" ELSE trail[Len(trail)].after

\* Forward only: the service moves a row once, from an open status to done, and
\* never after a person has ruled on it (ResolveFor, buildStatusPatch).
RulingStands ==
  \A k \in Keys : \A i \in 1..Len(log[k]) :
    log[k][i].by = "system" =>
      /\ log[k][i].after = "done"
      /\ log[k][i].before \notin {"done", "skipped"}
      /\ \A j \in 1..(i - 1) : log[k][j].by = "user" /\ log[k][j].before = log[k][j].after

\* A reader finds every item's section in the snapshot (model.Formation.Sections).
SectionsCovered == SectionsOf(Present) \subseteq sections

\* The checklist's own feed is literally true: it opens with the one expansion,
\* and each row was added by exactly one entry (UpgradeFor, ExpandWithTemplate).
FeedExplainsRows ==
  /\ Exists <=> feed # <<>>
  /\ \A i \in 1..Len(feed) : feed[i].action = "template_expanded" <=> i = 1
  /\ \A i, j \in 1..Len(feed) : i # j => feed[i].added \cap feed[j].added = {}
  /\ Present = UNION {feed[i].added : i \in 1..Len(feed)}

\* completed_at is set on a completed checklist and clear on a live one, over
\* every path through frozen and back (UpdateLifecycle).
CompletionStamp ==
  /\ lifecycle = "completed" => completedAt
  /\ lifecycle = "live" => ~completedAt

\* The section snapshot only grows, the pin never moves and no row is removed,
\* however commands and passes interleave (model.Formation, UpgradeFor).
SnapshotOnlyGrows ==
  [][/\ sections \subseteq sections'
     /\ Exists => pin' = pin
     /\ Present \subseteq Present']_vars
-----------------------------------------------------------------------------
\* Once the project stops changing, its checklist ends in the lifecycle its
\* stage implies, whatever stale events and passes were still running.
LifecycleSettles ==
  <>[](Exists => LifecycleForStage(stage) \in {"none", lifecycle})

\* A project that stays in formation gets its checklist once a template is
\* published.
ChecklistAppears ==
  <>[](FormingStage(stage) /\ published > 0) => <>Exists

\* A platform row whose resource stays in place ends up settled by the sweeps or
\* taken over by a person, and stays so.
PlatformRowsSettle ==
  \A k \in PlatformKeys :
    <>[](FormingStage(stage) /\ k \in Present /\ k \in resources)
      => <>[](item[k].status = "done" \/ item[k].source = "manual")
-----------------------------------------------------------------------------
\* Who last moved an item's status, read off its activity entries.
SetBy(k) ==
  LET moving == {i \in 1..Len(log[k]) : log[k][i].before # log[k][i].after} IN
  IF moving = {} THEN "nobody" ELSE log[k][CHOOSE i \in moving : \A j \in moving : j <= i].by

Contract == INSTANCE ChecklistContract WITH
  rows    <- Present,
  status  <- [k \in Keys |-> item[k].status],
  setBy   <- [k \in Keys |-> SetBy(k)],
  Allowed <- AllowedItemTransitions

\* Locks, revisions and passes together keep the contract's rules: each step of
\* a request, pass or command is one of its steps or changes nothing it shows.
KeepsContract == Contract!Spec
-----------------------------------------------------------------------------
\* What a comment in finishProject says of a project at a closing stage: its
\* platform rows are not advanced in the sweep that closes it.
ClosingSweepAdvancesNothing ==
  [][\A r \in Reconcilers, k \in Keys :
       lock = r /\ LifecycleForStage(pass[r].stage) \in {"completed", "frozen"}
         => item'[k].revision = item[k].revision]_vars
=============================================================================
