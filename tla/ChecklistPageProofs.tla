------------------------- MODULE ChecklistPageProofs -------------------------
(***************************************************************************)
(* Theorems about ChecklistPage: what a page offers and what the item      *)
(* routes accept agree, for any number of clients, operators, items and    *)
(* template versions and any bounds.                                       *)
(***************************************************************************)
EXTENDS ChecklistPage, TLAPS

-----------------------------------------------------------------------------
(* The inductive invariant, in named parts.                                *)

\* The types the argument rests on; activity, feed and pin play no part in it.
Typed ==
  /\ lifecycle \in Lifecycles \cup {"absent"}
  /\ revision \in Nat
  /\ sections \subseteq SectionNames
  /\ item \in [Keys -> Item]
  /\ published \in 0..Templates
  /\ WriterTypeOK
  /\ OperatorTypeOK
  /\ page \in [Writers -> Page]
  /\ answer \in [Writers -> Answer]

\* A command under way holds a version that was published.
TemplatesChosen ==
  \A o \in Operators : command[o].step # "idle" => command[o].template \in 1..Templates

\* Rows, and upgrades in progress, need the formations row.
ChecklistFirst ==
  /\ ~Exists => Present = {}
  /\ \A o \in Operators : command[o].step \in {"read", "listed"} => Exists

\* A row's revision identifies its status to whoever was shown the row: the page
\* never runs ahead of the store, and at the same revision shows the same status.
PagesIdentify ==
  \A w \in Writers, k \in Keys : k \in OnPage(w) =>
    /\ page[w].items[k].revision <= item[k].revision
    /\ page[w].items[k].revision = item[k].revision => page[w].items[k].status = item[k].status

\* A request under way was made from the page its client still holds.
AskedFromPage ==
  \A w \in Writers : request[w].step # "idle" =>
    page[w].step = "shown" /\ request[w].read = page[w].items

Inv == Typed /\ TemplatesChosen /\ ChecklistFirst /\ PagesIdentify /\ AskedFromPage

USE DEF Item, NoItem, Request, NoRequest, Command, NoCommand, Statuses, Lifecycles, Sources,
        Page, NoPage, Answer, NoAnswer, Codes
-----------------------------------------------------------------------------
(* The two copies of what a status change needs.                           *)

\* No status leads to itself (AllowsTransitionTo).
LEMMA NoSelfTransition == \A s \in Statuses : ~AllowsTransition(s, s)
BY DEF AllowsTransition, AllowedItemTransitions

\* The page's controls reach every status, and ask for a reason exactly where
\* the write path refuses without one (statusActions, statusesNeedingReason).
LEMMA ControlsMatchReasons ==
  /\ \A a \in StatusActions : a.to \in Statuses /\ (a.requiresReason <=> a.to \in ReasonNeeded)
  /\ \A s \in Statuses : \E a \in StatusActions : a.to = s
<1>1. \A a \in StatusActions : a.to \in Statuses /\ (a.requiresReason <=> a.to \in ReasonNeeded)
  BY DEF StatusActions, ReasonNeeded
<1>2. ASSUME NEW s \in Statuses PROVE \E a \in StatusActions : a.to = s
  BY <1>2 DEF StatusActions
<1> QED
  BY <1>1, <1>2

\* What is offered from a page is asked for as the write path wants it.
LEMMA OfferedMeans ==
  ASSUME NEW w \in Writers, NEW k \in Keys, NEW s \in Statuses, NEW reason \in BOOLEAN
  PROVE  Offered(w, k, s, reason) <=>
           /\ k \in OnPage(w)
           /\ Mutable(page[w].life)
           /\ AllowsTransition(page[w].items[k].status, s)
           /\ s \in ReasonNeeded => reason
<1> DEFINE from == page[w].items[k].status
<1>1. ASSUME NEW a \in StatusActions, a.to = s
      PROVE  (a.requiresReason => reason) <=> (s \in ReasonNeeded => reason)
  BY <1>1, ControlsMatchReasons
<1>2. PICK a \in StatusActions : a.to = s
  BY ControlsMatchReasons
<1>3. \A b \in AvailableActions(from, page[w].life) :
        b \in StatusActions /\ Mutable(page[w].life) /\ AllowsTransition(from, b.to)
  BY DEF AvailableActions
<1>4. Mutable(page[w].life) /\ AllowsTransition(from, s) => a \in AvailableActions(from, page[w].life)
  BY <1>2 DEF AvailableActions
<1> HIDE DEF from
<1>5. Offered(w, k, s, reason) <=>
        k \in OnPage(w) /\ \E b \in AvailableActions(from, page[w].life) :
                             b.to = s /\ (b.requiresReason => reason)
  BY DEF Offered, from
<1>6. ASSUME NEW b \in AvailableActions(from, page[w].life), b.to = s, b.requiresReason => reason
      PROVE  Mutable(page[w].life) /\ AllowsTransition(from, s) /\ (s \in ReasonNeeded => reason)
  BY <1>1, <1>3, <1>6
<1>7. ASSUME Mutable(page[w].life), AllowsTransition(from, s), s \in ReasonNeeded => reason
      PROVE  \E b \in AvailableActions(from, page[w].life) : b.to = s /\ (b.requiresReason => reason)
  BY <1>1, <1>2, <1>4, <1>7
<1>8. Offered(w, k, s, reason) <=>
        k \in OnPage(w) /\ Mutable(page[w].life) /\ AllowsTransition(from, s)
          /\ (s \in ReasonNeeded => reason)
  BY <1>5, <1>6, <1>7
<1> QED
  BY <1>8 DEF from
-----------------------------------------------------------------------------
(* What a step may do to the checklist.                                    *)

RowAdvances(k) ==
  /\ item[k].revision <= item'[k].revision
  /\ item'[k].revision = item[k].revision => item'[k].status = item[k].status

\* All that the rest needs to know of a step on the stored checklist.
StoreStep ==
  /\ item' \in [Keys -> Item]
  /\ \A k \in Keys : RowAdvances(k)
  /\ lifecycle' \in Lifecycles \cup {"absent"}
  /\ revision' \in Nat
  /\ sections' \subseteq SectionNames
  /\ Exists => Exists'
  /\ ~Exists' => item' = item

\* A step that leaves the checklist alone is one.
LEMMA NothingStored ==
  ASSUME Typed, UNCHANGED <<lifecycle, revision, sections, item>>
  PROVE  StoreStep
<1>1. \A k \in Keys : item[k] \in Item
  BY DEF Typed
<1> QED
  BY <1>1 DEF Typed, StoreStep, RowAdvances, Exists

\* One row written at its next revision, on a checklist that is there.
LEMMA RowWritten ==
  ASSUME Typed, ChecklistFirst, NEW k \in Present, NEW s \in Statuses, NEW source \in Sources,
         UpdateItem(k, s, source), UNCHANGED <<lifecycle, revision, sections>>
  PROVE  StoreStep
<1>1. k \in Keys /\ \A j \in Keys : item[j] \in Item
  BY DEF Typed, Present
<1> DEFINE row == [status |-> s, source |-> source, revision |-> item[k].revision + 1]
<1>2. row \in Item /\ row.revision = item[k].revision + 1
  BY <1>1
<1>3. item' = [item EXCEPT ![k] = row]
  BY DEF UpdateItem
<1> HIDE DEF row
<1>4. item' \in [Keys -> Item]
  BY <1>2, <1>3 DEF Typed
<1>5. item'[k] = row /\ \A j \in Keys : j # k => item'[j] = item[j]
  BY <1>1, <1>3 DEF Typed
<1>6. \A j \in Keys : RowAdvances(j)
  BY <1>1, <1>2, <1>5 DEF RowAdvances
<1>7. Exists
  BY DEF ChecklistFirst
<1> QED
  BY <1>4, <1>6, <1>7 DEF StoreStep, Typed, Exists

\* The sections of some keys are sections.
LEMMA SectionsTyped == \A K \in SUBSET Keys : SectionsOf(K) \subseteq SectionNames
BY StoreAssumption DEF SectionsOf

\* Creation where there was nothing, so that no row is reset.
LEMMA Created ==
  ASSUME Typed, ChecklistFirst, ~Exists, NEW v \in 1..Templates, CreateChecklist(v)
  PROVE  StoreStep
<1>1. \A k \in Keys : item[k] \in Item /\ NewItem(k) \in Item /\ NewItem(k).revision = 1
  BY DEF Typed, NewItem
<1>2. \A k \in Keys : item'[k] = IF k \in TemplateItems[v] THEN NewItem(k) ELSE item[k]
  BY DEF CreateChecklist
<1>3. item' \in [Keys -> Item]
  BY <1>1 DEF CreateChecklist
<1>4. \A k \in Keys : item[k].revision = 0
  BY <1>1 DEF ChecklistFirst, Present
<1>5. \A k \in Keys : RowAdvances(k)
  BY <1>1, <1>2, <1>4 DEF RowAdvances
<1>6. sections' \subseteq SectionNames
  BY StoreAssumption, SectionsTyped DEF CreateChecklist
<1> QED
  BY <1>3, <1>5, <1>6 DEF StoreStep, CreateChecklist, Exists

\* The lifecycle moving, or the guarded statement matching nothing.
LEMMA LifecycleMoved ==
  ASSUME Typed, Exists, NEW want \in Lifecycles, NEW read, UpdateLifecycle(want, read)
  PROVE  StoreStep
<1>1. \A k \in Keys : item[k] \in Item
  BY DEF Typed
<1> QED
  BY <1>1 DEF Typed, StoreStep, RowAdvances, UpdateLifecycle, Exists

\* An upgrade inserts only rows that are not there.
LEMMA Upgraded ==
  ASSUME Typed, TemplatesChosen, ChecklistFirst, NEW o \in Operators, UpgradeCommit(o)
  PROVE  StoreStep
<1> DEFINE added == Landed(MissingItems(o))
<1>1. TemplateItems[command[o].template] \subseteq Keys /\ command[o] \in Command /\ Exists
  BY StoreAssumption DEF UpgradeCommit, TemplatesChosen, ChecklistFirst, Typed, OperatorTypeOK
<1>2. added \subseteq Keys /\ \A k \in added : k \notin Present
  BY <1>1 DEF Landed, MissingItems
<1>3. \A k \in Keys : item[k] \in Item /\ NewItem(k) \in Item /\ NewItem(k).revision = 1
  BY DEF Typed, NewItem
<1>4. item' = [k \in Keys |-> IF k \in added THEN NewItem(k) ELSE item[k]]
  BY DEF UpgradeCommit, WithInserted
<1>5. SectionsToRecord(o, added) \subseteq SectionNames /\ command[o].sections \subseteq SectionNames
  BY <1>1, <1>2, SectionsTyped DEF SectionsToRecord
<1>6. sections' \subseteq SectionNames /\ revision' \in Nat
  BY <1>5 DEF UpgradeCommit, Typed
<1> HIDE DEF added
<1>7. item' \in [Keys -> Item]
  BY <1>3, <1>4
<1>8. \A k \in Keys : item'[k] = IF k \in added THEN NewItem(k) ELSE item[k]
  BY <1>4
<1>9. \A k \in added : item[k].revision = 0
  BY <1>2, <1>3 DEF Present
<1>10. \A k \in Keys : RowAdvances(k)
  BY <1>3, <1>8, <1>9 DEF RowAdvances
<1>11. lifecycle' = lifecycle
  BY DEF UpgradeCommit
<1> QED
  BY <1>1, <1>6, <1>7, <1>10, <1>11 DEF StoreStep, Typed, Exists

\* The schema script changes a source and nothing else.
LEMMA HandedBack ==
  ASSUME Typed, ApplySchema
  PROVE  StoreStep
<1>1. \A k \in Keys : item[k] \in Item
  BY DEF Typed
<1>2. \A k \in Keys : /\ [item[k] EXCEPT !.source = "manual"] \in Item
                      /\ [item[k] EXCEPT !.source = "manual"].status = item[k].status
                      /\ [item[k] EXCEPT !.source = "manual"].revision = item[k].revision
  BY <1>1
<1>3. item' = [k \in Keys |-> IF k \in RetiredChecks \cap Present
                               THEN [item[k] EXCEPT !.source = "manual"] ELSE item[k]]
  BY DEF ApplySchema
<1>4. item' \in [Keys -> Item]
  BY <1>1, <1>2, <1>3, Zenon
<1>5. \A k \in Keys : item'[k].status = item[k].status /\ item'[k].revision = item[k].revision
  BY <1>2, <1>3, Zenon
<1>6. \A k \in Keys : RowAdvances(k)
  BY <1>1, <1>5 DEF RowAdvances
<1> QED
  BY <1>4, <1>6 DEF StoreStep, ApplySchema, Exists, Typed
-----------------------------------------------------------------------------
(* What each action does, to the checklist and to clients and commands.    *)

Untouched == UNCHANGED <<request, page, answer>>

\* What a client may do with a page and a request.
ClientStep(w) ==
  \/ ReadFormation(w) \/ ReadItems(w) \/ Send(w) \/ Lock(w)
  \/ \E k \in Keys, s \in Statuses, reason \in BOOLEAN : SetStatus(w, k, s, reason)
  \/ \E k \in Keys : Touch(w, k)

\* A client's step is one of the store's, and no command's.
LEMMA ClientStores ==
  ASSUME Typed, ChecklistFirst, NEW w \in Writers, ClientStep(w)
  PROVE  StoreStep /\ UNCHANGED <<published, command>>
<1>1. CASE ReadFormation(w) \/ ReadItems(w) \/ Send(w)
  BY <1>1, NothingStored DEF ReadFormation, ReadItems, Send, factVars, storeVars
<1>2. CASE Lock(w)
  BY <1>2, NothingStored DEF Lock, BeginMutation, formationVars, factVars
<1>3. ASSUME NEW k \in Keys, NEW s \in Statuses, SetItemStatus(w, k, s) PROVE StoreStep
  <2>1. k \in Present /\ UpdateItem(k, s, "manual") /\ UNCHANGED <<lifecycle, revision, sections>>
    BY <1>3 DEF SetItemStatus, Accepts, EndMutation, formationVars
  <2> QED
    BY <2>1, RowWritten
<1>4. ASSUME NEW k \in Keys, EditItem(w, k) PROVE StoreStep
  <2>1. /\ k \in Present /\ UpdateItem(k, item[k].status, item[k].source)
        /\ UNCHANGED <<lifecycle, revision, sections>>
    BY <1>4 DEF EditItem, KeepStatus, Accepts, EndMutation, formationVars
  <2>2. item[k].status \in Statuses /\ item[k].source \in Sources
    BY DEF Typed
  <2> QED
    BY <2>1, <2>2, RowWritten
<1>5. ASSUME AbortMutation(w) PROVE StoreStep
  BY <1>5, NothingStored DEF AbortMutation, EndMutation, formationVars
<1>6. ASSUME NEW k \in Keys, NEW s \in Statuses, NEW reason \in BOOLEAN, SetStatus(w, k, s, reason)
      PROVE  StoreStep /\ UNCHANGED <<published, command>>
  BY <1>3, <1>5, <1>6 DEF SetStatus, factVars
<1>7. ASSUME NEW k \in Keys, Touch(w, k) PROVE StoreStep /\ UNCHANGED <<published, command>>
  BY <1>4, <1>7 DEF Touch, factVars
<1> QED
  BY <1>1, <1>2, <1>6, <1>7 DEF ClientStep

\* The rest of what happens touches no client: the reconciler's writes ...
LEMMA ServiceStores ==
  ASSUME Typed, ChecklistFirst,
         \/ \E want \in Lifecycles : FollowStage(want)
         \/ \E k \in Keys : PlatformAdvances(k)
  PROVE  StoreStep /\ Untouched /\ UNCHANGED <<published, command>>
<1>1. ASSUME NEW want \in Lifecycles, FollowStage(want)
      PROVE  StoreStep /\ Untouched /\ UNCHANGED <<published, command>>
  BY <1>1, LifecycleMoved DEF FollowStage, Untouched
<1>2. ASSUME NEW k \in Keys, PlatformAdvances(k)
      PROVE  StoreStep /\ Untouched /\ UNCHANGED <<published, command>>
  <2>1. k \in Present /\ UpdateItem(k, "done", "platform") /\ UNCHANGED <<lifecycle, revision, sections>>
    BY <1>2 DEF PlatformAdvances, formationVars
  <2>2. StoreStep
    BY <2>1, RowWritten
  <2> QED
    BY <1>2, <2>2 DEF PlatformAdvances, Untouched, factVars
<1> QED
  BY <1>1, <1>2

\* ... a template's publication, and an operator's commands.
LEMMA OperatorStores ==
  ASSUME Typed, TemplatesChosen, ChecklistFirst,
         \/ TemplatePublished /\ UNCHANGED <<storeVars, request, command, page, answer>>
         \/ OperatorNext /\ UNCHANGED <<factVars, request, page, answer>>
  PROVE  StoreStep /\ Untouched
<1>1. ASSUME UNCHANGED storeVars PROVE StoreStep
  BY <1>1, NothingStored DEF storeVars
<1>2. ASSUME NEW o \in Operators, ExpandCommand(o) PROVE StoreStep
  <2>1. command[o].template \in 1..Templates
    BY <1>2 DEF ExpandCommand, TemplatesChosen
  <2> QED
    BY <1>1, <1>2, <2>1, Created DEF ExpandCommand
<1>3. ASSUME OperatorNext PROVE StoreStep
  BY <1>1, <1>2, <1>3, Upgraded, HandedBack
     DEF OperatorNext, SelectTemplate, UpgradeRead, UpgradeList, AbortCommand
<1> QED
  BY <1>1, <1>3 DEF Untouched

\* Every step, seen from the checklist.
LEMMA StepStores ==
  ASSUME Typed, TemplatesChosen, ChecklistFirst, [Next]_vars
  PROVE  /\ StoreStep
         /\ Untouched \/ \E w \in Writers : ClientStep(w)
<1>1. CASE UNCHANGED vars
  BY <1>1, NothingStored DEF vars, storeVars, Untouched
<1>2. CASE Next
  BY <1>2, ClientStores, ServiceStores, OperatorStores DEF Next, ClientStep
<1> QED
  BY <1>1, <1>2
-----------------------------------------------------------------------------
(* The parts of the invariant that speak of commands.                      *)

\* Commands keep their kinds and their template, and read only what is there.
LEMMA CommandsKept ==
  ASSUME Typed, TemplatesChosen, ChecklistFirst, [Next]_vars
  PROVE  /\ published' \in 0..Templates /\ OperatorTypeOK'
         /\ TemplatesChosen' /\ ChecklistFirst'
<1> DEFINE Fits(o, c) ==
      /\ c \in Command
      /\ c.step # "idle" => c.template \in 1..Templates
      /\ c.step \in {"read", "listed"} => Exists
<1>1. StoreStep
  BY StepStores
<1>2. \A o \in Operators : Fits(o, command[o])
  BY DEF Typed, OperatorTypeOK, TemplatesChosen, ChecklistFirst
<1>3. published' \in 0..Templates
  <2>1. CASE TemplatePublished
    BY <2>1, BoundsAssumption DEF TemplatePublished, Typed
  <2>2. CASE published' = published
    BY <2>2 DEF Typed
  <2>3. TemplatePublished \/ published' = published
    BY ClientStores, ServiceStores DEF Next, ClientStep, vars, factVars
  <2> QED
    BY <2>1, <2>2, <2>3
<1>4. ASSUME NEW o \in Operators, NEW c, Fits(o, c), command' = [command EXCEPT ![o] = c]
      PROVE  OperatorTypeOK' /\ \A q \in Operators : Fits(q, command'[q])
  <2> HIDE DEF Fits
  <2>1. c \in Command
    BY <1>4 DEF Fits
  <2> QED
    BY <1>2, <1>4, <2>1 DEF Typed, OperatorTypeOK
<1>5. ASSUME UNCHANGED command
      PROVE  OperatorTypeOK' /\ \A q \in Operators : Fits(q, command'[q])
  BY <1>2, <1>5 DEF Typed, OperatorTypeOK
<1>6. ASSUME NEW o \in Operators, EndCommand(o)
      PROVE  OperatorTypeOK' /\ \A q \in Operators : Fits(q, command'[q])
  <2>1. Fits(o, NoCommand)
    OBVIOUS
  <2> QED
    BY <1>4, <1>6, <2>1 DEF EndCommand
<1>7. ASSUME NEW o \in Operators, SelectTemplate(o)
      PROVE  OperatorTypeOK' /\ \A q \in Operators : Fits(q, command'[q])
  <2> DEFINE c == [command[o] EXCEPT !.step = "chosen", !.template = published]
  <2>1. published \in 1..Templates /\ published \in Nat
    BY <1>7, BoundsAssumption DEF SelectTemplate, Typed
  <2>2. c \in Command /\ c.step = "chosen" /\ c.template = published
    BY <1>2, <2>1
  <2>3. command' = [command EXCEPT ![o] = c]
    BY <1>7 DEF SelectTemplate
  <2> HIDE DEF c
  <2> QED
    BY <1>4, <2>1, <2>2, <2>3
<1>8. ASSUME NEW o \in Operators, UpgradeRead(o)
      PROVE  OperatorTypeOK' /\ \A q \in Operators : Fits(q, command'[q])
  <2> DEFINE c == [command[o] EXCEPT !.step = "read", !.revision = revision, !.sections = sections]
  <2>1. revision \in Nat /\ sections \subseteq SectionNames
    BY DEF Typed
  <2>2. c \in Command /\ c.step = "read" /\ c.template = command[o].template
    BY <1>2, <2>1
  <2>3. command' = [command EXCEPT ![o] = c] /\ Exists /\ command[o].template \in 1..Templates
    BY <1>2, <1>8 DEF UpgradeRead
  <2> HIDE DEF c
  <2> QED
    BY <1>4, <2>2, <2>3
<1>9. ASSUME NEW o \in Operators, UpgradeList(o)
      PROVE  OperatorTypeOK' /\ \A q \in Operators : Fits(q, command'[q])
  <2> DEFINE c == [command[o] EXCEPT !.step = "listed", !.have = Present]
  <2>1. Present \subseteq Keys
    BY DEF Present
  <2>2. c \in Command /\ c.step = "listed" /\ c.template = command[o].template
    BY <1>2, <2>1
  <2>3. command' = [command EXCEPT ![o] = c] /\ Exists /\ command[o].template \in 1..Templates
    BY <1>2, <1>9 DEF UpgradeList
  <2> HIDE DEF c
  <2> QED
    BY <1>4, <2>2, <2>3
<1>10. OperatorNext \/ UNCHANGED command
  BY ClientStores, ServiceStores DEF Next, ClientStep, vars
<1>11. OperatorTypeOK' /\ \A q \in Operators : Fits(q, command'[q])
  BY <1>5, <1>6, <1>7, <1>8, <1>9, <1>10
     DEF OperatorNext, ExpandCommand, UpgradeCommit, AbortCommand
<1>12. TemplatesChosen'
  BY <1>11 DEF TemplatesChosen
<1>13. \A k \in Keys : item[k] \in Item
  BY DEF Typed
<1>14. ~Exists' => Present' = {}
  BY <1>1 DEF StoreStep, ChecklistFirst, Present, Exists
<1>15. ChecklistFirst'
  BY <1>1, <1>11, <1>14 DEF ChecklistFirst, StoreStep, Exists
<1> QED
  BY <1>3, <1>11, <1>12, <1>15
-----------------------------------------------------------------------------
(* The parts that speak of clients.                                        *)

\* What is read for a page is of its kind, and so is every answer.
LEMMA AnswersTyped ==
  ASSUME NEW w, NEW k, NEW s, NEW reason
  PROVE  Refusal(w, k, s, reason) \in Codes /\ Offered(w, k, s, reason) \in BOOLEAN
BY DEF Refusal, Offered

\* The client who steps ends with a request, a page and an answer of their kinds.
LEMMA ClientTyped ==
  ASSUME Typed, NEW w \in Writers, ClientStep(w)
  PROVE  \E q \in Request, p \in Page, a \in Answer :
           /\ request' = [request EXCEPT ![w] = q]
           /\ page'    = [page EXCEPT ![w] = p]
           /\ answer'  = [answer EXCEPT ![w] = a]
<1>1. /\ request[w] \in Request /\ page[w] \in Page /\ answer[w] \in Answer
      /\ request = [request EXCEPT ![w] = request[w]]
      /\ page = [page EXCEPT ![w] = page[w]]
      /\ answer = [answer EXCEPT ![w] = answer[w]]
  BY DEF Typed, WriterTypeOK
<1> DEFINE Ends(q, p, a) ==
      /\ request' = [request EXCEPT ![w] = q]
      /\ page'    = [page EXCEPT ![w] = p]
      /\ answer'  = [answer EXCEPT ![w] = a]
<1> SUFFICES \E q \in Request, p \in Page, a \in Answer : Ends(q, p, a)
  OBVIOUS
<1>2. NoRequest \in Request /\ NoPage \in Page /\ NoAnswer \in Answer
  OBVIOUS
<1>3. CASE ReadFormation(w)
  <2> DEFINE p == [NoPage EXCEPT !.step = "formation", !.life = lifecycle, !.sections = sections]
  <2>1. p \in Page
    BY DEF Typed
  <2>2. page' = [page EXCEPT ![w] = p]
    BY <1>3 DEF ReadFormation
  <2> HIDE DEF p
  <2>3. Ends(request[w], p, NoAnswer)
    BY <1>1, <1>3, <2>2 DEF ReadFormation
  <2> HIDE DEF Ends
  <2> QED
    BY <1>1, <1>2, <2>1, <2>3
<1>4. CASE ReadItems(w)
  <2> DEFINE p == [page[w] EXCEPT !.step = "shown", !.items = item]
  <2>1. p \in Page
    BY <1>1 DEF Typed
  <2>2. page' = [page EXCEPT ![w] = p]
    BY <1>4 DEF ReadItems
  <2> HIDE DEF p
  <2>3. Ends(request[w], p, answer[w])
    BY <1>1, <1>4, <2>2 DEF ReadItems
  <2> HIDE DEF Ends
  <2> QED
    BY <1>1, <1>2, <2>1, <2>3
<1>5. CASE Send(w)
  <2> DEFINE q == [request[w] EXCEPT !.step = "holding", !.read = page[w].items]
  <2>1. q \in Request
    BY <1>1
  <2>2. request' = [request EXCEPT ![w] = q]
    BY <1>5 DEF Send
  <2> HIDE DEF q
  <2>3. Ends(q, page[w], answer[w])
    BY <1>1, <1>5, <2>2 DEF Send
  <2> HIDE DEF Ends
  <2> QED
    BY <1>1, <1>2, <2>1, <2>3
<1>6. CASE Lock(w)
  <2> DEFINE q == [request[w] EXCEPT !.step = "locked", !.life = lifecycle]
  <2>1. q \in Request
    BY <1>1 DEF Typed
  <2>2. request' = [request EXCEPT ![w] = q]
    BY <1>6 DEF Lock, BeginMutation
  <2> HIDE DEF q
  <2>3. Ends(q, page[w], answer[w])
    BY <1>1, <1>6, <2>2 DEF Lock
  <2> HIDE DEF Ends
  <2> QED
    BY <1>1, <1>2, <2>1, <2>3
<1>7. ASSUME NEW k \in Keys, NEW s \in Statuses, NEW reason \in BOOLEAN, SetStatus(w, k, s, reason)
      PROVE  /\ request' = [request EXCEPT ![w] = NoRequest]
             /\ page' = [page EXCEPT ![w] = NoPage]
             /\ \E a \in Answer : answer' = [answer EXCEPT ![w] = a]
  <2> DEFINE a == [code |-> Refusal(w, k, s, reason), offered |-> Offered(w, k, s, reason)]
  <2>1. a \in Answer
    BY AnswersTyped
  <2>2. answer' = [answer EXCEPT ![w] = a]
    BY <1>7 DEF SetStatus
  <2> HIDE DEF a
  <2>3. EndMutation(w) /\ page' = [page EXCEPT ![w] = NoPage]
    BY <1>7 DEF SetStatus, SetItemStatus, AbortMutation
  <2> QED
    BY <2>1, <2>2, <2>3 DEF EndMutation
<1>8. ASSUME NEW k \in Keys, Touch(w, k)
      PROVE  /\ request' = [request EXCEPT ![w] = NoRequest]
             /\ page' = [page EXCEPT ![w] = NoPage]
             /\ answer' = [answer EXCEPT ![w] = NoAnswer]
  BY <1>8 DEF Touch, EditItem, KeepStatus, EndMutation
<1>9. ASSUME NEW k \in Keys, NEW s \in Statuses, NEW reason \in BOOLEAN, SetStatus(w, k, s, reason)
      PROVE  \E q \in Request, p \in Page, a \in Answer : Ends(q, p, a)
  <2>1. PICK a \in Answer : answer' = [answer EXCEPT ![w] = a]
    BY <1>7, <1>9
  <2>2. Ends(NoRequest, NoPage, a)
    BY <1>7, <1>9, <2>1
  <2> HIDE DEF Ends
  <2> QED
    BY <1>2, <2>2
<1>10. ASSUME NEW k \in Keys, Touch(w, k)
      PROVE  \E q \in Request, p \in Page, a \in Answer : Ends(q, p, a)
  <2>1. Ends(NoRequest, NoPage, NoAnswer)
    BY <1>8, <1>10
  <2> HIDE DEF Ends
  <2> QED
    BY <1>2, <2>1
<1> HIDE DEF Ends
<1> QED
  BY <1>3, <1>4, <1>5, <1>6, <1>9, <1>10 DEF ClientStep
-----------------------------------------------------------------------------
\* A page is left, dropped, begun without rows, or filled with the rows as they are.
LEMMA PageAfter ==
  ASSUME Typed, NEW w \in Writers, ClientStep(w)
  PROVE  \/ page'[w] = page[w]
         \/ page'[w].items = NoPage.items
         \/ page'[w].items = item /\ item' = item
<1>1. w \in DOMAIN page /\ page[w] \in Page
  BY DEF Typed
<1>2. CASE ReadFormation(w)
  BY <1>1, <1>2 DEF ReadFormation
<1>3. CASE ReadItems(w)
  BY <1>1, <1>3 DEF ReadItems, storeVars
<1>4. CASE Send(w) \/ Lock(w)
  BY <1>4 DEF Send, Lock
<1>5. ASSUME NEW k \in Keys, NEW s \in Statuses, NEW reason \in BOOLEAN, SetStatus(w, k, s, reason)
      PROVE  page'[w] = NoPage
  BY <1>1, <1>5 DEF SetStatus
<1>6. ASSUME NEW k \in Keys, Touch(w, k) PROVE page'[w] = NoPage
  BY <1>1, <1>6 DEF Touch
<1> QED
  BY <1>2, <1>3, <1>4, <1>5, <1>6 DEF ClientStep

\* A request is made from the page shown, keeps what it read, and ends with it.
LEMMA RequestAfter ==
  ASSUME Typed, AskedFromPage, NEW w \in Writers, ClientStep(w), request'[w].step # "idle"
  PROVE  page'[w].step = "shown" /\ request'[w].read = page'[w].items
<1>1. w \in DOMAIN page /\ w \in DOMAIN request /\ page[w] \in Page /\ request[w] \in Request
  BY DEF Typed, WriterTypeOK
<1>2. ~ReadFormation(w) /\ ~ReadItems(w)
  BY <1>1 DEF ReadFormation, ReadItems, AskedFromPage
<1>3. CASE Send(w)
  BY <1>1, <1>3 DEF Send
<1>4. CASE Lock(w)
  BY <1>1, <1>4 DEF Lock, BeginMutation, AskedFromPage
<1>5. ASSUME EndMutation(w) PROVE FALSE
  BY <1>1, <1>5 DEF EndMutation
<1>6. ASSUME NEW k \in Keys, NEW s \in Statuses, NEW reason \in BOOLEAN, SetStatus(w, k, s, reason)
      PROVE  EndMutation(w)
  BY <1>6 DEF SetStatus, SetItemStatus, AbortMutation
<1>7. ASSUME NEW k \in Keys, Touch(w, k) PROVE EndMutation(w)
  BY <1>7 DEF Touch, EditItem, KeepStatus
<1> QED
  BY <1>2, <1>3, <1>4, <1>5, <1>6, <1>7 DEF ClientStep

\* What a row was when it was read stays behind the row, whatever is committed.
LEMMA StaysBehind ==
  ASSUME Typed, StoreStep, NEW k \in Keys, NEW row \in Item,
         row.revision <= item[k].revision,
         row.revision = item[k].revision => row.status = item[k].status
  PROVE  /\ row.revision <= item'[k].revision
         /\ row.revision = item'[k].revision => row.status = item'[k].status
<1>1. item[k] \in Item /\ item'[k] \in Item
  BY DEF Typed, StoreStep
<1> QED
  BY <1>1 DEF StoreStep, RowAdvances

\* The client parts of the invariant, over any step.
LEMMA ClientsKept ==
  ASSUME Inv, [Next]_vars
  PROVE  /\ WriterTypeOK' /\ page' \in [Writers -> Page] /\ answer' \in [Writers -> Answer]
         /\ AskedFromPage' /\ PagesIdentify'
<1>1. /\ Typed /\ AskedFromPage /\ PagesIdentify /\ StoreStep
      /\ \A k \in Keys : item[k] \in Item
      /\ \A w \in Writers : page[w] \in Page
  BY StepStores DEF Inv, Typed
<1>2. ASSUME NEW w \in Writers, page'[w] = page[w], NEW k \in Keys, page'[w].items[k].revision > 0
      PROVE  /\ page'[w].items[k].revision <= item'[k].revision
             /\ page'[w].items[k].revision = item'[k].revision
                  => page'[w].items[k].status = item'[k].status
  <2>1. k \in OnPage(w) /\ page[w].items[k] \in Item
    BY <1>1, <1>2 DEF OnPage
  <2> QED
    BY <1>1, <1>2, <2>1, StaysBehind DEF PagesIdentify
<1>3. CASE Untouched
  <2>1. WriterTypeOK' /\ page' \in [Writers -> Page] /\ answer' \in [Writers -> Answer]
    BY <1>1, <1>3 DEF Untouched, Typed, WriterTypeOK
  <2>2. AskedFromPage'
    BY <1>1, <1>3 DEF Untouched, AskedFromPage
  <2>3. PagesIdentify'
    BY <1>2, <1>3 DEF Untouched, PagesIdentify, OnPage
  <2> QED
    BY <2>1, <2>2, <2>3
<1>4. ASSUME NEW w \in Writers, ClientStep(w)
      PROVE  /\ WriterTypeOK' /\ page' \in [Writers -> Page] /\ answer' \in [Writers -> Answer]
             /\ AskedFromPage' /\ PagesIdentify'
  <2>1. PICK q \in Request, p \in Page, a \in Answer :
          /\ request' = [request EXCEPT ![w] = q]
          /\ page'    = [page EXCEPT ![w] = p]
          /\ answer'  = [answer EXCEPT ![w] = a]
    BY <1>1, <1>4, ClientTyped
  <2>2. WriterTypeOK' /\ page' \in [Writers -> Page] /\ answer' \in [Writers -> Answer]
    BY <1>1, <2>1 DEF Typed, WriterTypeOK
  <2>3. \A v \in Writers : v # w => request'[v] = request[v] /\ page'[v] = page[v]
    BY <1>1, <2>1 DEF Typed, WriterTypeOK
  <2>4. AskedFromPage'
    BY <1>1, <1>4, <2>3, RequestAfter DEF AskedFromPage
  <2>5. ASSUME NEW k \in Keys, page'[w].items[k].revision > 0
        PROVE  /\ page'[w].items[k].revision <= item'[k].revision
               /\ page'[w].items[k].revision = item'[k].revision
                    => page'[w].items[k].status = item'[k].status
    <3>1. CASE page'[w] = page[w]
      BY <1>2, <2>5, <3>1
    <3>2. page'[w].items # NoPage.items
      BY <2>5
    <3>3. CASE page'[w].items = item /\ item' = item
      BY <1>1, <3>3
    <3> QED
      BY <1>1, <1>4, <3>1, <3>2, <3>3, PageAfter
  <2>6. PagesIdentify'
    BY <1>2, <2>3, <2>5 DEF PagesIdentify, OnPage
  <2> QED
    BY <2>2, <2>4, <2>6
<1> QED
  BY <1>1, <1>3, <1>4, StepStores DEF Inv

\* The invariant holds of every reachable state.
LEMMA AlwaysInv == Spec => []Inv
<1>1. Init => Inv
  <2> SUFFICES ASSUME Init PROVE Inv
    OBVIOUS
  <2> USE DEF Init, FactsInit, StoreInit, WriterInit, OperatorInit
  <2>1. Typed
    BY BoundsAssumption DEF Typed, WriterTypeOK, OperatorTypeOK
  <2>2. Present = {} /\ \A w \in Writers : OnPage(w) = {}
    BY DEF Present, OnPage
  <2> QED
    BY <2>1, <2>2 DEF Inv, TemplatesChosen, ChecklistFirst, PagesIdentify, AskedFromPage, Exists
<1>2. Inv /\ [Next]_vars => Inv'
  <2> SUFFICES ASSUME Inv, [Next]_vars PROVE Inv'
    OBVIOUS
  <2>1. Typed /\ TemplatesChosen /\ ChecklistFirst
    BY DEF Inv
  <2>2. StoreStep
    BY <2>1, StepStores
  <2>3. Typed'
    BY <2>1, <2>2, CommandsKept, ClientsKept DEF Typed, StoreStep
  <2> QED
    BY <2>1, <2>3, CommandsKept, ClientsKept DEF Inv
<1> QED
  BY <1>1, <1>2, PTL DEF Spec
-----------------------------------------------------------------------------
(* What is offered is accepted, and the other way round.                   *)

\* The refusals that can meet what a page offered, and what acceptance implies.
LEMMA AnswersMean ==
  ASSUME Inv, NEW w \in Writers, NEW k \in Keys, NEW s \in Statuses, NEW reason \in BOOLEAN,
         request[w].step = "locked"
  PROVE  /\ Offered(w, k, s, reason) =>
              Refusal(w, k, s, reason) \in {"accepted", "checklist_read_only", "version_mismatch"}
         /\ Refusal(w, k, s, reason) = "accepted" /\ Mutable(page[w].life) =>
              Offered(w, k, s, reason)
<1>1. /\ request[w].read = page[w].items
      /\ item[k] \in Item /\ page[w].items[k] \in Item
  BY DEF Inv, AskedFromPage, Typed
<1>2. k \in OnPage(w) =>
        /\ k \in Present
        /\ page[w].items[k].revision = item[k].revision => page[w].items[k].status = item[k].status
  BY <1>1 DEF Inv, PagesIdentify, OnPage, Present
<1>3. ASSUME Offered(w, k, s, reason)
      PROVE  Refusal(w, k, s, reason) \in {"accepted", "checklist_read_only", "version_mismatch"}
  <2>1. /\ k \in OnPage(w) /\ AllowsTransition(page[w].items[k].status, s)
        /\ s \in ReasonNeeded => reason
    BY <1>3, OfferedMeans
  <2>2. CASE item[k].revision = page[w].items[k].revision
    <3>1. k \in Present /\ AllowsTransition(item[k].status, s)
      BY <1>2, <2>1, <2>2
    <3>2. s # item[k].status
      BY <3>1, NoSelfTransition
    <3> QED
      BY <1>1, <2>1, <2>2, <3>1, <3>2 DEF Refusal
  <2>3. CASE item[k].revision # page[w].items[k].revision
    BY <1>1, <1>2, <2>1, <2>3 DEF Refusal
  <2> QED
    BY <2>2, <2>3
<1>4. ASSUME Refusal(w, k, s, reason) = "accepted", Mutable(page[w].life)
      PROVE  Offered(w, k, s, reason)
  <2>1. /\ k \in Present /\ item[k].revision = request[w].read[k].revision
        /\ AllowsTransition(item[k].status, s) /\ (s \in ReasonNeeded => reason)
    BY <1>4 DEF Refusal
  <2>2. k \in OnPage(w)
    BY <1>1, <2>1 DEF OnPage, Present
  <2> QED
    BY <1>1, <1>2, <1>4, <2>1, <2>2, OfferedMeans
<1> QED
  BY <1>3, <1>4

\* The last answer changes only with the request it answers, or is forgotten.
LEMMA AnswerAfter ==
  ASSUME Typed, NEW w \in Writers, ClientStep(w)
  PROVE  \/ answer'[w] = answer[w] /\ request'[w].step # "idle"
         \/ answer'[w] = answer[w] /\ request[w].step # "locked"
         \/ answer'[w] = NoAnswer
         \/ /\ request[w].step = "locked"
            /\ \E k \in Keys, s \in Statuses, reason \in BOOLEAN :
                 answer'[w] = [code |-> Refusal(w, k, s, reason), offered |-> Offered(w, k, s, reason)]
<1>1. w \in DOMAIN answer /\ w \in DOMAIN request /\ request[w] \in Request
  BY DEF Typed, WriterTypeOK
<1>2. CASE ReadFormation(w)
  BY <1>1, <1>2 DEF ReadFormation
<1>3. CASE ReadItems(w)
  BY <1>1, <1>3 DEF ReadItems
<1>4. CASE Send(w) \/ Lock(w)
  BY <1>1, <1>4 DEF Send, Lock, BeginMutation
<1>5. ASSUME NEW k \in Keys, NEW s \in Statuses, NEW reason \in BOOLEAN, SetStatus(w, k, s, reason)
      PROVE  /\ request[w].step = "locked"
             /\ answer'[w] = [code |-> Refusal(w, k, s, reason), offered |-> Offered(w, k, s, reason)]
  BY <1>1, <1>5 DEF SetStatus
<1>6. ASSUME NEW k \in Keys, Touch(w, k) PROVE answer'[w] = NoAnswer
  BY <1>1, <1>6 DEF Touch
<1> QED
  BY <1>2, <1>3, <1>4, <1>5, <1>6 DEF ClientStep
-----------------------------------------------------------------------------
\* An action the page offered, asked for as it says, is refused only because the
\* row or the checklist moved since: the table behind the page's controls and
\* the one the write path keeps agree (AvailableActionsFor, buildStatusPatch).
THEOREM OfferedIsAcceptedHolds == Spec => []OfferedIsAccepted
<1>1. Init => OfferedIsAccepted
  BY DEF Init, OfferedIsAccepted
<1>2. ASSUME Inv, OfferedIsAccepted, [Next]_vars PROVE OfferedIsAccepted'
  <2>1. Typed /\ TemplatesChosen /\ ChecklistFirst
    BY <1>2 DEF Inv
  <2>2. ASSUME NEW w \in Writers, answer'[w] = answer[w], answer'[w].offered
        PROVE  answer'[w].code \in {"accepted", "checklist_read_only", "version_mismatch"}
    BY <1>2, <2>2 DEF OfferedIsAccepted
  <2>3. CASE Untouched
    BY <2>2, <2>3 DEF Untouched, OfferedIsAccepted
  <2>4. ASSUME NEW w \in Writers, ClientStep(w) PROVE OfferedIsAccepted'
    <3>1. \A v \in Writers : v # w => answer'[v] = answer[v]
      BY <2>1, <2>4, ClientTyped DEF Typed
    <3>2. ASSUME answer'[w].offered
          PROVE  answer'[w].code \in {"accepted", "checklist_read_only", "version_mismatch"}
      <4>1. CASE answer'[w] = answer[w]
        BY <2>2, <3>2, <4>1
      <4>2. answer'[w] # NoAnswer
        BY <3>2
      <4>3. ASSUME NEW k \in Keys, NEW s \in Statuses, NEW reason \in BOOLEAN,
                   request[w].step = "locked",
                   answer'[w] = [code |-> Refusal(w, k, s, reason), offered |-> Offered(w, k, s, reason)]
            PROVE  answer'[w].code \in {"accepted", "checklist_read_only", "version_mismatch"}
        BY <1>2, <3>2, <4>3, AnswersMean
      <4> QED
        BY <2>1, <2>4, <4>1, <4>2, <4>3, AnswerAfter
    <3> QED
      BY <2>2, <3>1, <3>2 DEF OfferedIsAccepted
  <2> QED
    BY <1>2, <2>1, <2>3, <2>4, StepStores
<1> QED
  BY <1>1, <1>2, AlwaysInv, PTL DEF Spec

\* What is accepted from a page that showed a live checklist was offered on it.
THEOREM AcceptedWasOfferedHolds == Spec => AcceptedWasOffered
<1>1. ASSUME Inv, [Next]_vars, NEW w \in Writers,
             request[w].step = "locked", request'[w].step = "idle",
             answer'[w].code = "accepted", page[w].life = "live"
      PROVE  answer'[w].offered
  <2>1. Typed /\ TemplatesChosen /\ ChecklistFirst
    BY <1>1 DEF Inv
  <2>2. ASSUME NEW v \in Writers, ClientStep(v), v # w PROVE request'[w] = request[w]
    BY <2>1, <2>2, ClientTyped DEF Typed, WriterTypeOK
  <2>3. ClientStep(w)
    BY <1>1, <2>1, <2>2, StepStores DEF Untouched
  <2>4. PICK k \in Keys, s \in Statuses, reason \in BOOLEAN :
          answer'[w] = [code |-> Refusal(w, k, s, reason), offered |-> Offered(w, k, s, reason)]
    BY <1>1, <2>1, <2>3, AnswerAfter
  <2> QED
    BY <1>1, <2>4, AnswersMean DEF Mutable
<1>2. Inv /\ [Next]_vars =>
        [\A w \in Writers :
           (/\ request[w].step = "locked" /\ request'[w].step = "idle"
            /\ answer'[w].code = "accepted" /\ page[w].life = "live")
           => answer'[w].offered]_vars
  BY <1>1
<1> QED
  BY <1>2, AlwaysInv, PTL DEF Spec, AcceptedWasOffered
=============================================================================
