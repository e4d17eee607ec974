--------------------------- MODULE ChecklistStore ---------------------------
(***************************************************************************)
(* One project's checklist as Postgres holds it: the formations row, the   *)
(* formation_items rows, the activity entries, and the row lock that       *)
(* SELECT ... FOR UPDATE takes on the formations row. The operators are    *)
(* the repository statements the components' transactions are made of      *)
(* (internal/infrastructure/postgres). Transactions run READ COMMITTED, so *)
(* a read is one step and each committed set of writes is one step; only a *)
(* held row lock spans steps.                                              *)
(***************************************************************************)
EXTENDS ProjectFacts, Sequences

CONSTANTS
  SectionNames,     \* section keys
  SectionOf,        \* [Keys -> SectionNames]
  TemplateItems,    \* [1..Templates -> SUBSET Keys]: items of each version
  RetiredChecks,    \* keys marked platform whose check nothing can answer, and
                    \* which the schema script hands back to people
  Nobody            \* the lock when nobody holds it

ASSUME StoreAssumption ==
  /\ SectionOf \in [Keys -> SectionNames]
  /\ TemplateItems \in [1..Templates -> SUBSET Keys]
  /\ RetiredChecks \subseteq Keys \ PlatformKeys

Statuses == {"not_started", "in_progress", "blocked", "done", "skipped"}
Lifecycles == {"live", "completed", "frozen"}
Sources == {"manual", "platform"}

\* The columns the properties tell apart. A row that is not there is NoItem.
Item == [status : Statuses, source : Sources, revision : Nat]
NoItem == [status |-> "not_started", source |-> "manual", revision |-> 0]

\* An entry about one item: who set it, and the status either side
\* (activitySummary keeps status and assignee; the assignee is left out).
Entry == [by : {"user", "system"}, before : Statuses, after : Statuses]

\* An entry about the whole checklist: its creation, or an upgrade.
FeedEntry == [action : {"template_expanded", "template_upgraded"}, added : SUBSET Keys]

VARIABLES
  lifecycle,    \* "absent" while the project has no formations row
  revision,     \* the formations row's revision
  completedAt,  \* is completed_at set?
  sections,     \* the section snapshot
  pin,          \* template version the checklist was created from
  item,         \* [Keys -> Item]
  log,          \* [Keys -> Seq(Entry)]: each item's activity, oldest first
  feed,         \* Seq(FeedEntry)
  lock          \* who holds the formations row FOR UPDATE

formationVars == <<lifecycle, revision, completedAt, sections, pin>>
storeVars == <<lifecycle, revision, completedAt, sections, pin, item, log, feed, lock>>
-----------------------------------------------------------------------------
Exists == lifecycle # "absent"
Mutable(l) == l = "live"
Present == {k \in Keys : item[k].revision > 0}
SectionsOf(K) == {SectionOf[k] : k \in K}

\* newItemFromTemplate: not started, revision 1, source as the template says.
NewItem(k) ==
  [status   |-> "not_started",
   source   |-> IF k \in PlatformKeys \cup RetiredChecks THEN "platform" ELSE "manual",
   revision |-> 1]

\* Create refuses a second row for the project, which the caller reads as done
\* (Guarded by ~Exists); with it go the items and the feed's opening entry.
CreateChecklist(version) ==
  /\ lifecycle' = "live"
  /\ revision' = 1
  /\ completedAt' = FALSE
  /\ sections' = SectionsOf(TemplateItems[version])
  /\ pin' = version
  /\ item' = [k \in Keys |-> IF k \in TemplateItems[version] THEN NewItem(k) ELSE item[k]]
  /\ feed' = Append(feed, [action |-> "template_expanded", added |-> TemplateItems[version]])
  /\ UNCHANGED <<log, lock>>

\* InsertMany ... ON CONFLICT DO NOTHING RETURNING: only the rows that landed.
Landed(K) == K \ Present
WithInserted(K) == [k \in Keys |-> IF k \in Landed(K) THEN NewItem(k) ELSE item[k]]

\* Mutant: going live again leaves the timestamp.
StampFor_KeptOnLive(want) == IF want = "completed" THEN TRUE ELSE completedAt

\* completed_at moves in the same statement as the lifecycle: set on completing,
\* cleared on going live again, kept on freezing.
StampFor(want) ==
  CASE want = "completed" -> TRUE
    [] want = "live"      -> FALSE
    [] OTHER              -> completedAt

\* UPDATE ... SET lifecycle WHERE revision = the one read. The statement waits
\* for the row lock, then finds its revision or matches nothing.
UpdateLifecycle(want, read) ==
  /\ lock = Nobody
  /\ IF revision = read
       THEN /\ lifecycle' = want
            /\ revision' = revision + 1
            /\ completedAt' = StampFor(want)
       ELSE UNCHANGED <<lifecycle, revision, completedAt>>
  /\ UNCHANGED <<sections, pin, item, log, feed, lock>>

\* SELECT ... FOR UPDATE on the formations row, and the end of the transaction
\* that took it.
LockFormation(p) == Exists /\ lock = Nobody /\ lock' = p
Unlock(p) == lock = p /\ lock' = Nobody

\* UPDATE formation_items ... WHERE revision = the one read, for every item the
\* patch names, and one activity entry for each row it moved.
UpdateItem(k, status, source) ==
  item' = [item EXCEPT ![k] = [status |-> status, source |-> source,
                               revision |-> item[k].revision + 1]]
AppendActivity(k, by, before, after) ==
  log' = [log EXCEPT ![k] = Append(@, [by |-> by, before |-> before, after |-> after])]

\* schema.sql, applied whenever a replica or the CLI connects: a withdrawn
\* platform check is handed to people on live checklists, keeping status and,
\* deliberately, the revision.
ApplySchema ==
  /\ lifecycle = "live"
  /\ item' = [k \in Keys |->
       IF k \in RetiredChecks \cap Present THEN [item[k] EXCEPT !.source = "manual"]
                                           ELSE item[k]]
  /\ item' # item
  /\ UNCHANGED <<lifecycle, revision, completedAt, sections, pin, log, feed, lock>>

StoreInit ==
  /\ lifecycle = "absent"
  /\ revision = 0
  /\ completedAt = FALSE
  /\ sections = {}
  /\ pin = 0
  /\ item = [k \in Keys |-> NoItem]
  /\ log = [k \in Keys |-> <<>>]
  /\ feed = <<>>
  /\ lock = Nobody

StoreTypeOK ==
  /\ lifecycle \in Lifecycles \cup {"absent"}
  /\ revision \in Nat
  /\ completedAt \in BOOLEAN
  /\ sections \subseteq SectionNames
  /\ pin \in 0..Templates
  /\ item \in [Keys -> Item]
  /\ log \in [Keys -> Seq(Entry)]
  /\ feed \in Seq(FeedEntry)
=============================================================================
