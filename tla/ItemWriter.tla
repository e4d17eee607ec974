----------------------------- MODULE ItemWriter -----------------------------
(***************************************************************************)
(* People changing checklist items over HTTP: the three item routes        *)
(* UpdateItem, AssignItem and SetItemStatus, which share mutateItem        *)
(* (internal/service/item_mutator.go). A writer first reads the checklist, *)
(* whose rows carry their revision as an ETag, and later asks for one      *)
(* change under If-Match; the request is one transaction holding the       *)
(* formations row.                                                         *)
(***************************************************************************)
EXTENDS ChecklistStore

CONSTANTS
  Writers,          \* HTTP clients
  MaxItemRevision   \* bound: people stop writing an item at this revision

ASSUME WriterAssumption == MaxItemRevision \in Nat /\ Nobody \notin Writers

VARIABLE request  \* [Writers -> Request]

\* A client is idle, holding the rows it read, or inside the locked transaction
\* with the lifecycle that was read there.
Request == [step : {"idle", "holding", "locked"},
            read : [Keys -> Item],
            life : Lifecycles \cup {"absent"}]
NoRequest == [step |-> "idle", read |-> [k \in Keys |-> NoItem], life |-> "absent"]
-----------------------------------------------------------------------------
\* internal/domain/model/status.go
AllowedItemTransitions ==
  [not_started |-> {"in_progress", "blocked", "done", "skipped"},
   in_progress |-> {"not_started", "blocked", "done", "skipped"},
   blocked     |-> {"not_started", "in_progress", "done", "skipped"},
   done        |-> {"not_started", "in_progress"},
   skipped     |-> {"not_started", "in_progress"}]

AllowsTransition(from, to) == to \in AllowedItemTransitions[from]

ReadChecklist(w) ==
  /\ request[w].step = "idle"
  /\ Exists
  /\ request' = [request EXCEPT ![w] = [@ EXCEPT !.step = "holding", !.read = item]]
  /\ UNCHANGED storeVars

\* GetByProjectForUpdate: the row is held from here to the end of the
\* transaction, and the lifecycle every later check uses is read here.
BeginMutation(w) ==
  /\ request[w].step = "holding"
  /\ LockFormation(w)
  /\ request' = [request EXCEPT ![w] = [@ EXCEPT !.step = "locked", !.life = lifecycle]]
  /\ UNCHANGED <<formationVars, item, log, feed>>

\* Mutant: If-Match is not compared.
Accepts_NoIfMatch(w, k) ==
  Mutable(request[w].life) /\ k \in Present /\ item[k].revision < MaxItemRevision

\* The checks between the lock and the write, in the order that refuses: a
\* read-only checklist, an unknown key, a stale If-Match. The last conjunct is
\* the model's bound.
Accepts(w, k) ==
  /\ Mutable(request[w].life)
  /\ k \in Present
  /\ item[k].revision = request[w].read[k].revision
  /\ item[k].revision < MaxItemRevision

\* The transaction's end, its lock released with it.
EndMutation(w) ==
  /\ request[w].step = "locked"
  /\ Unlock(w)
  /\ request' = [request EXCEPT ![w] = NoRequest]
  /\ UNCHANGED <<formationVars, feed>>

\* Mutant: the patch leaves status_source alone.
SetItemStatus_KeepsSource(w, k, s) ==
  /\ Accepts(w, k)
  /\ AllowsTransition(item[k].status, s)
  /\ UpdateItem(k, s, item[k].source)
  /\ AppendActivity(k, "user", item[k].status, s)
  /\ EndMutation(w)

\* SetItemStatus moving the item to s: a person's ruling takes the row over
\* from its platform check.
SetItemStatus(w, k, s) ==
  /\ Accepts(w, k)
  /\ AllowsTransition(item[k].status, s)
  /\ UpdateItem(k, s, "manual")
  /\ AppendActivity(k, "user", item[k].status, s)
  /\ EndMutation(w)

\* Every other accepted write moves the row's revision and leaves its status and
\* its source.
KeepStatus(w, k) ==
  /\ Accepts(w, k)
  /\ UpdateItem(k, item[k].status, item[k].source)
  /\ AppendActivity(k, "user", item[k].status, item[k].status)
  /\ EndMutation(w)

\* Note and evidence link; assignee and due date; and SetItemStatus changing only
\* sub-items, the parent's status restated or not sent.
EditItem(w, k) == KeepStatus(w, k)
AssignItem(w, k) == KeepStatus(w, k)
SetSubItems(w, k) == KeepStatus(w, k)

\* A refusal, a failed statement or a lost replica: nothing was written.
AbortMutation(w) ==
  /\ EndMutation(w)
  /\ UNCHANGED <<item, log>>

WriterNext ==
  \E w \in Writers :
    \/ ReadChecklist(w)
    \/ BeginMutation(w)
    \/ \E k \in Keys, s \in Statuses : SetItemStatus(w, k, s)
    \/ \E k \in Keys : EditItem(w, k) \/ AssignItem(w, k) \/ SetSubItems(w, k)
    \/ AbortMutation(w)

WriterInit == request = [w \in Writers |-> NoRequest]

WriterTypeOK == request \in [Writers -> Request]
=============================================================================
