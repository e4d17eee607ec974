--------------------------- MODULE ChecklistPage ----------------------------
(***************************************************************************)
(* What a person is shown and what they can do with it: GetFormation's     *)
(* page, read in two statements, the actions it offers for every item      *)
(* (internal/domain/model/available_action.go), and the answers of the     *)
(* item routes to a request made from the page, while other people, the    *)
(* reconciler and an operator's upgrade change the checklist.              *)
(***************************************************************************)
EXTENDS ItemWriter, Operator, TLC

CONSTANTS k1, k2, s1, s2

VARIABLES
  page,    \* [Writers -> the page each client holds or is being read]
  answer   \* [Writers -> the last answer and what it was an answer to]

vars == <<factVars, storeVars, request, command, page, answer>>

Page == [step : {"none", "formation", "shown"}, life : Lifecycles \cup {"absent"},
              sections : SUBSET SectionNames, items : [Keys -> Item]]
NoPage == [step |-> "none", life |-> "absent", sections |-> {},
           items |-> [k \in Keys |-> NoItem]]

Codes == {"none", "accepted", "checklist_read_only", "unknown_item_key",
          "version_mismatch", "no_fields_to_update", "invalid_transition", "reason_required"}
Answer == [code : Codes, offered : BOOLEAN]
NoAnswer == [code |-> "none", offered |-> FALSE]
-----------------------------------------------------------------------------
(* The page.                                                               *)

\* statusActions: the five controls, each naming its destination.
StatusActions ==
  { [action |-> "mark_in_progress",    to |-> "in_progress", requiresReason |-> FALSE],
    [action |-> "mark_done",           to |-> "done",        requiresReason |-> FALSE],
    [action |-> "mark_blocked",        to |-> "blocked",     requiresReason |-> TRUE],
    [action |-> "skip",                to |-> "skipped",     requiresReason |-> TRUE],
    [action |-> "back_to_not_started", to |-> "not_started", requiresReason |-> TRUE] }

\* Mutant: one list changes and the other does not.
ReasonNeeded_ForDoneToo == {"blocked", "skipped", "not_started", "done"}

\* statusesNeedingReason, which the write path keeps for itself.
ReasonNeeded == {"blocked", "skipped", "not_started"}

\* Mutant: a settled row offers nothing.
AvailableActions_OpenRows(status, life) ==
  IF Mutable(life) /\ status \notin {"done", "skipped"}
  THEN {a \in StatusActions : AllowsTransition(status, a.to)} ELSE {}

\* AvailableActionsFor, its status part; the field actions consult no table.
AvailableActions(status, life) ==
  IF Mutable(life) THEN {a \in StatusActions : AllowsTransition(status, a.to)} ELSE {}

\* GetByProject, then ListByFormation, outside any transaction.
ReadFormation(w) ==
  /\ request[w].step = "idle" /\ page[w].step # "formation" /\ Exists
  /\ page' = [page EXCEPT ![w] =
       [NoPage EXCEPT !.step = "formation", !.life = lifecycle, !.sections = sections]]
  /\ answer' = [answer EXCEPT ![w] = NoAnswer]
  /\ UNCHANGED <<factVars, storeVars, request, command>>

ReadItems(w) ==
  /\ page[w].step = "formation"
  /\ page' = [page EXCEPT ![w] = [@ EXCEPT !.step = "shown", !.items = item]]
  /\ UNCHANGED <<factVars, storeVars, request, command, answer>>

OnPage(w) == {k \in Keys : page[w].items[k].revision > 0}

\* A request made from the page, under the version the page showed.
Send(w) ==
  /\ request[w].step = "idle" /\ page[w].step = "shown"
  /\ request' = [request EXCEPT ![w] =
       [@ EXCEPT !.step = "holding", !.read = page[w].items]]
  /\ UNCHANGED <<factVars, storeVars, command, page, answer>>

Lock(w) == BeginMutation(w) /\ UNCHANGED <<factVars, command, page, answer>>
-----------------------------------------------------------------------------
(* The answer to a status change of item k to s, with or without a reason. *)

\* The refusals of mutateItem and then of buildStatusPatch: the first that
\* applies, in this order.
Refusal(w, k, s, reason) ==
  IF ~Mutable(request[w].life)                               THEN "checklist_read_only"
  ELSE IF k \notin Present                                   THEN "unknown_item_key"
  ELSE IF item[k].revision # request[w].read[k].revision     THEN "version_mismatch"
  ELSE IF s = item[k].status                                 THEN "no_fields_to_update"
  ELSE IF ~AllowsTransition(item[k].status, s)               THEN "invalid_transition"
  ELSE IF s \in ReasonNeeded /\ ~reason                      THEN "reason_required"
  ELSE "accepted"

\* Was it on the page, asked for the way the page said?
Offered(w, k, s, reason) ==
  /\ k \in OnPage(w)
  /\ \E a \in AvailableActions(page[w].items[k].status, page[w].life) :
       a.to = s /\ (a.requiresReason => reason)

SetStatus(w, k, s, reason) ==
  /\ request[w].step = "locked"
  /\ LET code == Refusal(w, k, s, reason) IN
     /\ IF code = "accepted" THEN SetItemStatus(w, k, s) ELSE AbortMutation(w)
     /\ answer' = [answer EXCEPT ![w] =
          [code |-> code, offered |-> Offered(w, k, s, reason)]]
  /\ page' = [page EXCEPT ![w] = NoPage]
  /\ UNCHANGED <<factVars, command>>

\* Any other write on the item: another note, another assignee.
Touch(w, k) ==
  /\ EditItem(w, k)
  /\ answer' = [answer EXCEPT ![w] = NoAnswer]
  /\ page' = [page EXCEPT ![w] = NoPage]
  /\ UNCHANGED <<factVars, command>>

\* The reconciler follows the project to another stage.
FollowStage(want) ==
  /\ Exists /\ want # lifecycle /\ moves < MaxMoves
  /\ moves' = moves + 1
  /\ UpdateLifecycle(want, revision)
  /\ UNCHANGED <<stage, inbox, resources, published, faults, request, command, page, answer>>

\* The sweep finds the resource of a platform row nobody took over.
PlatformAdvances(k) ==
  /\ lock = Nobody /\ lifecycle = "live" /\ k \in Present
  /\ item[k].source = "platform" /\ item[k].status \notin {"done", "skipped"}
  /\ UpdateItem(k, "done", "platform")
  /\ AppendActivity(k, "system", item[k].status, "done")
  /\ UNCHANGED <<factVars, formationVars, feed, lock, request, command, page, answer>>

Init ==
  /\ FactsInit /\ StoreInit /\ WriterInit /\ OperatorInit
  /\ page = [w \in Writers |-> NoPage]
  /\ answer = [w \in Writers |-> NoAnswer]

Next ==
  \/ \E w \in Writers :
       \/ ReadFormation(w) \/ ReadItems(w) \/ Send(w) \/ Lock(w)
       \/ \E k \in Keys, s \in Statuses, reason \in BOOLEAN : SetStatus(w, k, s, reason)
       \/ \E k \in Keys : Touch(w, k)
  \/ \E want \in Lifecycles : FollowStage(want)
  \/ \E k \in Keys : PlatformAdvances(k)
  \/ TemplatePublished /\ UNCHANGED <<storeVars, request, command, page, answer>>
  \/ OperatorNext /\ UNCHANGED <<factVars, request, page, answer>>

Spec == Init /\ [][Next]_vars
-----------------------------------------------------------------------------
\* The instance: one row, and a second with its section from version 2.
MCSectionOf == (k1 :> s1) @@ (k2 :> s2)
MCTemplateItems == SubSeq(<<{k1}, {k1, k2}>>, 1, Templates)

\* available_action.go: the list and the write path cannot disagree. An action
\* the page offered, asked for as it says, is refused only because the row or
\* the checklist moved since - never as a transition, for want of a reason or as
\* an unknown item.
OfferedIsAccepted ==
  \A w \in Writers : answer[w].offered =>
    answer[w].code \in {"accepted", "checklist_read_only", "version_mismatch"}

\* ... and nothing the page did not offer is accepted from it: what it shows of a
\* row is all there is to do with it, unless the checklist was re-opened since.
AcceptedWasOffered ==
  [][\A w \in Writers :
       (/\ request[w].step = "locked" /\ request'[w].step = "idle"
        /\ answer'[w].code = "accepted" /\ page[w].life = "live")
       => answer'[w].offered]_vars
=============================================================================
