--------------------------- MODULE TemplatesProofs ---------------------------
(***************************************************************************)
(* Theorems about Templates, for any number of versions, administrators,   *)
(* seed commands and projects.                                             *)
(***************************************************************************)
EXTENDS Templates, TLAPS

USE DEF TemplateStates, Rules, Dates, Template, Absent, Answers, None, Pin, Idle, Edit, Quiet
-----------------------------------------------------------------------------
(* All that a step may do to a template row.                               *)

Drafts(v, t) == v \in Drafted \ Rows /\ t.state = "draft" /\ t.publishedAt = "never"

Rewrites(v, t) ==
  Draft(v) /\ t.state = template[v].state /\ t.publishedAt = template[v].publishedAt

Publishes(v, t) ==
  /\ Draft(v)
  /\ t.sections = template[v].sections
  /\ t.state = "published" /\ t.publishedAt = Now(template[v].publishedAt)

Archives(v, t) ==
  /\ v \in Rows
  /\ t.sections = template[v].sections
  /\ t.state = "archived" /\ t.publishedAt = template[v].publishedAt

Reseeds(v, t) ==
  \E s \in Seeders :
    /\ seed[s] # None /\ seed[s].version = v
    /\ t.sections = seed[s].sections /\ t.state = "published"
    /\ t.publishedAt = IF v \in Rows THEN Coalesce(template[v].publishedAt) ELSE "first"
    /\ seed' = [seed EXCEPT ![s] = None]

RowStep(v, t) ==
  /\ template' = [template EXCEPT ![v] = t]
  /\ Drafts(v, t) \/ Rewrites(v, t) \/ Publishes(v, t) \/ Archives(v, t) \/ Reseeds(v, t)

\* A row is a template; what is not a row is Absent.
LEMMA RowsTyped ==
  ASSUME TypeOK
  PROVE  /\ \A v \in Rows : v \in Versions /\ template[v] \in Template
         /\ \A v \in Versions \ Rows : template[v] = Absent
BY DEF TypeOK, Rows

\* What has one of a row's states is a row.
LEMMA StatesAreRows == \A t : t.state \in TemplateStates => t # Absent
OBVIOUS

LEMMA TemplateSteps ==
  ASSUME TypeOK, [Next]_vars
  PROVE  \/ UNCHANGED template
         \/ \E v \in Versions, t \in Template : RowStep(v, t)
<1> DEFINE Goal == \/ UNCHANGED template
                   \/ \E v \in Versions, t \in Template : RowStep(v, t)
<1> SUFFICES Goal
  OBVIOUS
<1>0. template \in [Versions -> Template \cup {Absent}] /\ Priorities \subseteq Nat
  BY TemplatesAssumption DEF TypeOK
<1>1. ASSUME NEW a \in Admins, CreateTemplate(a) PROVE Goal
  <2>1. PICK v \in Drafted, c \in Contents, p \in Priorities, m \in Rules :
          \/ UNCHANGED template
          \/ v \notin Rows /\ template' = [template EXCEPT ![v] = NewDraft(c, p, m)]
    BY <1>1 DEF CreateTemplate
  <2>2. NewDraft(c, p, m) \in Template /\ v \in Versions
    BY TemplatesAssumption DEF NewDraft
  <2>3. NewDraft(c, p, m).state = "draft" /\ NewDraft(c, p, m).publishedAt = "never"
    BY DEF NewDraft
  <2> QED
    BY <2>1, <2>2, <2>3 DEF RowStep, Drafts
<1>2. ASSUME NEW a \in Admins, WriteUpdate(a) PROVE Goal
  <2> DEFINE v == update[a].version
             c == update[a].row.sections
             p == update[a].row.priority
             t == [template[v] EXCEPT !.sections = c, !.priority = p]
  <2>1. CASE ~Draft(v)
    BY <1>2, <2>1 DEF WriteUpdate, MayRewrite
  <2>2. CASE Draft(v)
    <3>1. v \in Versions /\ template[v] \in Template
      BY <2>2, RowsTyped DEF Draft
    <3>2. update[a] \in [version : Versions, row : Template]
      BY <1>2 DEF WriteUpdate, TypeOK
    <3>3. c \in Contents /\ p \in Priorities
      BY <3>2
    <3> HIDE DEF c, p
    <3>4. /\ t \in Template
          /\ t.state = template[v].state /\ t.publishedAt = template[v].publishedAt
      BY <3>1, <3>3
    <3>5. template' = [template EXCEPT ![v] = t]
      BY <1>0, <1>2, <2>2, <3>1 DEF WriteUpdate, MayRewrite, c, p
    <3> HIDE DEF t, v
    <3> QED
      BY <2>2, <3>1, <3>4, <3>5 DEF RowStep, Rewrites
  <2> QED
    BY <2>1, <2>2
<1>3. ASSUME NEW a \in Admins, NEW v \in Versions, PublishTemplate(a, v) PROVE Goal
  <2> DEFINE t == [template[v] EXCEPT !.state = "published",
                                      !.publishedAt = Now(template[v].publishedAt)]
  <2>1. CASE ~Draft(v)
    BY <1>3, <2>1 DEF PublishTemplate
  <2>2. CASE Draft(v)
    <3>1. template[v] \in Template
      BY <2>2, RowsTyped DEF Draft
    <3>2. /\ t \in Template /\ t.sections = template[v].sections
          /\ t.state = "published" /\ t.publishedAt = Now(template[v].publishedAt)
      BY <3>1 DEF Now
    <3>3. template' = [template EXCEPT ![v] = t]
      BY <1>0, <1>3, <2>2, <3>1 DEF PublishTemplate
    <3> HIDE DEF t
    <3> QED
      BY <2>2, <3>2, <3>3 DEF RowStep, Publishes
  <2> QED
    BY <2>1, <2>2
<1>4. ASSUME NEW a \in Admins, NEW v \in Versions, ArchiveTemplate(a, v) PROVE Goal
  <2> DEFINE t == [template[v] EXCEPT !.state = "archived"]
  <2>1. CASE v \notin Rows \/ template[v].state = "archived"
    BY <1>4, <2>1 DEF ArchiveTemplate
  <2>2. CASE v \in Rows /\ template[v].state # "archived"
    <3>1. template[v] \in Template
      BY <2>2, RowsTyped
    <3>2. /\ t \in Template /\ t.sections = template[v].sections
          /\ t.state = "archived" /\ t.publishedAt = template[v].publishedAt
      BY <3>1
    <3>3. template' = [template EXCEPT ![v] = t]
      BY <1>0, <1>4, <2>2, <3>1 DEF ArchiveTemplate
    <3> HIDE DEF t
    <3> QED
      BY <2>2, <3>2, <3>3 DEF RowStep, Archives
  <2> QED
    BY <2>1, <2>2
<1>5. ASSUME NEW s \in Seeders, WriteSeed(s) PROVE Goal
  <2> DEFINE v == seed[s].version
             date == IF v \in Rows THEN Coalesce(template[v].publishedAt) ELSE "first"
             row(p) == [state |-> "published", sections |-> seed[s].sections, priority |-> p,
                        match |-> "always", publishedAt |-> date]
  <2>1. seed[s] \in [version : Versions, sections : Contents]
    BY <1>5 DEF WriteSeed, TypeOK
  <2>2. v \in Versions /\ seed[s].sections \in Contents
    BY <2>1
  <2>3. date \in Dates
    BY RowsTyped DEF Coalesce
  <2>4. PICK p \in Priorities : template' = [template EXCEPT ![v] = row(p)]
    BY <1>5 DEF WriteSeed
  <2>5. seed[s] # None /\ seed' = [seed EXCEPT ![s] = None]
    BY <1>5 DEF WriteSeed
  <2>6. /\ row(p) \in Template
        /\ row(p).sections = seed[s].sections /\ row(p).state = "published"
        /\ row(p).publishedAt = date
    BY <2>2, <2>3
  <2> HIDE DEF row
  <2>7. RowStep(v, row(p))
    BY <2>4, <2>5, <2>6 DEF RowStep, Reseeds
  <2> QED
    BY <2>2, <2>6, <2>7
<1>6. ASSUME NEW a \in Admins, NEW v \in Versions, ReadForUpdate(a, v) \/ GetTemplate(a, v)
      PROVE  Goal
  BY <1>6 DEF ReadForUpdate, GetTemplate
<1>7. ASSUME NEW s \in Seeders, NEW v \in Seeded, NEW c \in Contents, CheckSeed(s, v, c)
      PROVE  Goal
  BY <1>7 DEF CheckSeed
<1>8. ASSUME NEW p \in Projects, SelectTemplate(p) \/ Expand(p) PROVE Goal
  BY <1>8 DEF SelectTemplate, Expand
<1>9. CASE UNCHANGED vars
  BY <1>9 DEF vars
<1> QED
  BY <1>1, <1>2, <1>3, <1>4, <1>5, <1>6, <1>7, <1>8, <1>9 DEF Next, AdminStep, SeedStep
\* After such a step the row is a template, and every other row is as it was.
LEMMA SteppedRow ==
  ASSUME TypeOK, NEW v \in Versions, NEW t \in Template, RowStep(v, t)
  PROVE  /\ template' \in [Versions -> Template \cup {Absent}]
         /\ template'[v] = t /\ Rows' = Rows \cup {v}
         /\ \A w \in Versions : w # v => template'[w] = template[w]
<1>1. /\ template' \in [Versions -> Template \cup {Absent}] /\ template'[v] = t
      /\ \A w \in Versions : w # v => template'[w] = template[w]
  BY DEF TypeOK, RowStep
<1>2. t # Absent
  BY StatesAreRows
<1> QED
  BY <1>1, <1>2 DEF Rows
-----------------------------------------------------------------------------
(* Types.                                                                  *)

LEMMA RepliesTyped ==
  ASSUME NEW v, NEW is \in Answers, Reply(v, is)
  PROVE  answer' \in [known : BOOLEAN, is : Answers]
<1>1. (v \in Rows) \in BOOLEAN
  OBVIOUS
<1> QED
  BY <1>1 DEF Reply

\* Everything but the rows: who holds what between two statements.
HoldersTyped ==
  /\ update \in [Admins -> Edit]
  /\ seed \in [Seeders -> Pin]
  /\ selected \in [Projects -> Pin]
  /\ pinned \in [Projects -> Pin]
  /\ answer \in [known : BOOLEAN, is : Answers]
  /\ seeds \in 0..MaxSeeds

LEMMA HoldersStayTyped ==
  ASSUME TypeOK, [Next]_vars
  PROVE  HoldersTyped'
<1> USE DEF HoldersTyped
<1>0. HoldersTyped /\ Priorities \subseteq Nat /\ MaxSeeds \in Nat /\ Quiet.is = "ok"
  BY TemplatesAssumption DEF TypeOK
<1>1. ASSUME NEW a \in Admins, UNCHANGED update \/ update' = [update EXCEPT ![a] = Idle],
             UNCHANGED <<seed, selected, pinned, seeds>>,
             \/ UNCHANGED answer \/ answer' = Quiet
             \/ \E v : \E is \in Answers : Reply(v, is)
      PROVE  HoldersTyped'
  <2>1. update' \in [Admins -> Edit]
    BY <1>0, <1>1
  <2>2. Quiet \in [known : BOOLEAN, is : Answers]
    OBVIOUS
  <2>3. answer' \in [known : BOOLEAN, is : Answers]
    <3>1. CASE UNCHANGED answer
      BY <1>0, <3>1
    <3>2. CASE answer' = Quiet
      BY <2>2, <3>2
    <3>3. ASSUME NEW v, NEW is \in Answers, Reply(v, is)
          PROVE  answer' \in [known : BOOLEAN, is : Answers]
      BY <3>3, RepliesTyped
    <3> QED
      BY <1>1, <3>1, <3>2, <3>3
  <2> QED
    BY <1>0, <1>1, <2>1, <2>3
<1>2. ASSUME NEW a \in Admins, CreateTemplate(a) PROVE HoldersTyped'
  <2>1. answer' = Quiet \/ \E v : Reply(v, "Conflict")
    BY <1>2 DEF CreateTemplate
  <2> QED
    BY <1>1, <1>2, <2>1 DEF CreateTemplate
<1>3. ASSUME NEW a \in Admins, WriteUpdate(a) PROVE HoldersTyped'
  <2>1. \E v : \E is \in Answers : Reply(v, is)
    BY <1>3 DEF WriteUpdate
  <2> QED
    BY <1>1, <1>3, <2>1 DEF WriteUpdate
<1>4. ASSUME NEW a \in Admins, NEW v \in Versions,
             PublishTemplate(a, v) \/ ArchiveTemplate(a, v) \/ GetTemplate(a, v)
      PROVE  HoldersTyped'
  <2>1. \E w : \E is \in Answers : Reply(w, is)
    BY <1>4 DEF PublishTemplate, ArchiveTemplate, GetTemplate
  <2> QED
    BY <1>1, <1>4, <2>1 DEF PublishTemplate, ArchiveTemplate, GetTemplate
<1>5. ASSUME NEW a \in Admins, NEW v \in Versions, ReadForUpdate(a, v) PROVE HoldersTyped'
  <2>1. CASE UNCHANGED update
    <3>1. \E w : \E is \in Answers : Reply(w, is)
      <4>1. CASE v \notin Rows
        BY <1>5, <4>1 DEF ReadForUpdate
      <4>2. CASE v \in Rows
        <5>1. CASE Reply(v, "BadRequest")
          BY <5>1
        <5>2. ASSUME NEW c \in Contents \cup {template[v].sections},
                     NEW p \in Priorities \cup {template[v].priority},
                     update' = [update EXCEPT ![a] =
                       [version |-> v, row |-> [template[v] EXCEPT !.sections = c, !.priority = p]]]
              PROVE  FALSE
          <6>1. update'[a] # Idle
            BY <1>0, <5>2
          <6> QED
            BY <1>5, <2>1, <6>1 DEF ReadForUpdate
        <5> QED
          BY <1>5, <4>2, <5>1, <5>2 DEF ReadForUpdate
      <4> QED
        BY <4>1, <4>2
    <3> QED
      BY <1>1, <1>5, <2>1, <3>1 DEF ReadForUpdate
  <2>2. CASE ~UNCHANGED update
    <3>1. v \in Rows /\ UNCHANGED answer
      BY <1>5, <2>2 DEF ReadForUpdate
    <3>2. PICK c \in Contents \cup {template[v].sections},
               p \in Priorities \cup {template[v].priority} :
            update' = [update EXCEPT ![a] =
              [version |-> v, row |-> [template[v] EXCEPT !.sections = c, !.priority = p]]]
      BY <1>5, <2>2, <3>1 DEF ReadForUpdate
    <3>3. template[v] \in Template
      BY <3>1, RowsTyped
    <3>4. c \in Contents /\ p \in Priorities
      BY <3>3
    <3>5. [template[v] EXCEPT !.sections = c, !.priority = p] \in Template
      BY <3>3, <3>4
    <3> DEFINE row == [template[v] EXCEPT !.sections = c, !.priority = p]
    <3> HIDE DEF row
    <3>6. [version |-> v, row |-> row] \in Edit
      BY <3>5 DEF row
    <3>7. update' = [update EXCEPT ![a] = [version |-> v, row |-> row]]
      BY <3>2 DEF row
    <3> QED
      BY <1>0, <1>5, <3>1, <3>6, <3>7 DEF ReadForUpdate
  <2> QED
    BY <2>1, <2>2
<1>6. ASSUME NEW s \in Seeders, NEW v \in Seeded, NEW c \in Contents, CheckSeed(s, v, c)
      PROVE  HoldersTyped'
  <2>1. [version |-> v, sections |-> c] \in Pin
    BY TemplatesAssumption
  <2> QED
    BY <1>0, <1>6, <2>1 DEF CheckSeed
<1>7. ASSUME NEW s \in Seeders, WriteSeed(s) PROVE HoldersTyped'
  BY <1>0, <1>7 DEF WriteSeed
<1>8. ASSUME NEW p \in Projects, SelectTemplate(p) PROVE HoldersTyped'
  <2>1. PICK v \in Preferred :
          selected' = [selected EXCEPT ![p] = [version |-> v, sections |-> template[v].sections]]
    BY <1>8 DEF SelectTemplate
  <2>2. v \in Versions /\ template[v].sections \in Contents
    BY RowsTyped DEF Preferred, Candidates
  <2>3. [version |-> v, sections |-> template[v].sections] \in Pin
    BY <2>2
  <2> QED
    BY <1>0, <1>8, <2>1, <2>3 DEF SelectTemplate
<1>9. ASSUME NEW p \in Projects, Expand(p) PROVE HoldersTyped'
  BY <1>0, <1>9 DEF Expand
<1>10. CASE UNCHANGED vars
  BY <1>0, <1>10 DEF vars
<1> QED
  BY <1>2, <1>3, <1>4, <1>5, <1>6, <1>7, <1>8, <1>9, <1>10 DEF Next, AdminStep, SeedStep

\* Every variable keeps its type in every behaviour.
THEOREM TemplatesTyped == Spec => []TypeOK
<1>1. Init => TypeOK
  <2>1. Quiet \in [known : BOOLEAN, is : Answers]
    OBVIOUS
  <2> QED
    BY <2>1, TemplatesAssumption DEF Init, TypeOK
<1>2. TypeOK /\ [Next]_vars => TypeOK'
  <2> SUFFICES ASSUME TypeOK, [Next]_vars PROVE TypeOK'
    OBVIOUS
  <2>1. template' \in [Versions -> Template \cup {Absent}]
    BY TemplateSteps, SteppedRow DEF TypeOK
  <2> QED
    BY <2>1, HoldersStayTyped DEF TypeOK, HoldersTyped
<1> QED
  BY <1>1, <1>2, PTL DEF Spec
-----------------------------------------------------------------------------
(* Publication dates.                                                      *)

LEMMA DatesKept ==
  ASSUME TypeOK, FirstPublicationDated, [Next]_vars
  PROVE  FirstPublicationDated'
<1>1. CASE UNCHANGED template
  BY <1>1 DEF FirstPublicationDated, Rows
<1>2. ASSUME NEW v \in Versions, NEW t \in Template, RowStep(v, t)
      PROVE  FirstPublicationDated'
  <2>1. /\ t.publishedAt # "later"
        /\ t.state = "published" => t.publishedAt = "first"
        /\ t.state = "draft" => t.publishedAt = "never"
    <3>1. v \in Rows => /\ template[v].publishedAt \in {"never", "first"}
                        /\ template[v].state = "published" => template[v].publishedAt = "first"
                        /\ template[v].state = "draft" => template[v].publishedAt = "never"
      BY RowsTyped DEF FirstPublicationDated
    <3> QED
      BY <1>2, <3>1
         DEF RowStep, Drafts, Rewrites, Publishes, Archives, Reseeds, Draft, Now, Coalesce
  <2>2. /\ template'[v] = t /\ Rows' = Rows \cup {v}
        /\ \A w \in Versions : w # v => template'[w] = template[w]
    BY <1>2, SteppedRow
  <2> QED
    BY <2>1, <2>2, RowsTyped DEF FirstPublicationDated
<1> QED
  BY <1>1, <1>2, TemplateSteps

\* What is published has the date of its first publication and what is a draft has
\* none, whatever administrators and seed commands do to the row in whatever order
\* (Publish, Archive and Upsert in template_repository.go).
THEOREM FirstPublicationDatedHolds == Spec => []FirstPublicationDated
<1>1. Init => FirstPublicationDated
  BY DEF Init, FirstPublicationDated, Rows
<1> QED
  BY <1>1, DatesKept, TemplatesTyped, PTL DEF Spec
-----------------------------------------------------------------------------
(* Published content.                                                      *)

\* No step changes settled content, and what was published stays so.
LEMMA ContentKept ==
  ASSUME TypeOK, FirstPublicationDated, [Next]_vars,
         NEW v \in Versions, NEW c \in Contents, Settled(v, c)
  PROVE  Protected(v)' /\ template'[v].sections = c
<1>0. /\ v \in Rows /\ template[v] \in Template /\ template[v].publishedAt # "never"
      /\ template[v].sections = c
  BY RowsTyped DEF Settled, Protected, FirstPublicationDated
<1>1. CASE UNCHANGED template
  BY <1>0, <1>1 DEF Protected, Rows
<1>2. ASSUME NEW w \in Versions, NEW t \in Template, RowStep(w, t)
      PROVE  Protected(v)' /\ template'[v].sections = c
  <2>1. /\ template'[w] = t /\ Rows' = Rows \cup {w}
        /\ \A u \in Versions : u # w => template'[u] = template[u]
    BY <1>2, SteppedRow
  <2>2. CASE w # v
    BY <1>0, <2>1, <2>2 DEF Protected
  <2>3. CASE w = v
    <3>1. ~Draft(v)
      BY <1>0, RowsTyped DEF FirstPublicationDated, Draft
    <3>2. Archives(v, t) \/ Reseeds(v, t)
      BY <1>0, <1>2, <2>3, <3>1 DEF RowStep, Drafts, Rewrites, Publishes
    <3>3. t.sections = c
      BY <1>0, <3>2 DEF Archives, Reseeds, Settled
    <3>4. t.publishedAt # "never"
      BY <1>0, <3>2 DEF Archives, Reseeds, Coalesce
    <3> QED
      BY <1>0, <2>1, <2>3, <3>3, <3>4 DEF Protected
  <2> QED
    BY <2>2, <2>3
<1> QED
  BY <1>1, <1>2, TemplateSteps

\* No seed comes to hold other content for it: the check refuses it.
LEMMA SeedsAgree ==
  ASSUME TypeOK, [Next]_vars, NEW v \in Versions, NEW c \in Contents, Settled(v, c),
         NEW s \in Seeders, seed'[s] # None, seed'[s].version = v
  PROVE  seed'[s].sections = c
<1>0. Protected(v) /\ template[v].sections = c /\ (seed'[s] = seed[s] => seed'[s].sections = c)
  BY DEF Settled
<1>1. ASSUME NEW t \in Seeders, NEW w \in Seeded, NEW d \in Contents, CheckSeed(t, w, d)
      PROVE  seed'[s].sections = c
  <2>1. CASE seed'[s] # seed[s]
    <3>1. seed'[s].version = w /\ seed'[s].sections = d /\ ~(Protected(w) /\ template[w].sections # d)
      BY <1>1, <2>1 DEF CheckSeed, RefusesSeed, TypeOK
    <3> QED
      BY <1>0, <3>1
  <2> QED
    BY <1>0, <2>1
<1>2. ASSUME NEW t \in Seeders, WriteSeed(t)
      PROVE  seed'[s].sections = c
  <2>1. seed'[s] = seed[s]
    BY <1>2 DEF WriteSeed, TypeOK
  <2> QED
    BY <1>0, <2>1
<1>3. ASSUME NEW a \in Admins, AdminStep(a) PROVE seed' = seed
  BY <1>3 DEF AdminStep, CreateTemplate, WriteUpdate, ReadForUpdate, PublishTemplate,
              ArchiveTemplate, GetTemplate
<1>4. ASSUME NEW p \in Projects, SelectTemplate(p) \/ Expand(p) PROVE seed' = seed
  BY <1>4 DEF SelectTemplate, Expand
<1>5. CASE UNCHANGED vars
  BY <1>0, <1>5 DEF vars
<1> QED
  BY <1>0, <1>1, <1>2, <1>3, <1>4, <1>5 DEF Next, SeedStep

\* Whichever administrators and seeds meet on a version, and however many: once it
\* was published and no seed that passed the check earlier is still to be written
\* over it with something else, it keeps its content through everything
\* (refuseEditingAPublishedVersion, and the state predicate of Update).
THEOREM SettledForGoodHolds == Spec => SettledForGood
<1> DEFINE Kept == \A v \in Versions, c \in Contents : Settled(v, c) => Settled(v, c)'
<1>1. ASSUME TypeOK, FirstPublicationDated, [Next]_vars
      PROVE  Kept
  <2>1. ASSUME NEW v \in Versions, NEW c \in Contents, Settled(v, c)
        PROVE  Settled(v, c)'
    <3>1. Protected(v)' /\ template'[v].sections = c
      BY <1>1, <2>1, ContentKept
    <3>2. \A s \in Seeders : seed'[s] # None /\ seed'[s].version = v => seed'[s].sections = c
      BY <1>1, <2>1, SeedsAgree
    <3> QED
      BY <3>1, <3>2 DEF Settled
  <2> QED
    BY <2>1
<1>2. Spec => [][Kept]_vars
  BY <1>1, TemplatesTyped, FirstPublicationDatedHolds, PTL DEF Spec
<1> QED
  BY <1>2 DEF SettledForGood
-----------------------------------------------------------------------------
(* What a checklist pinned.                                                *)

\* No seed brings a version no build embeds ...
SeedsEmbedded == \A s \in Seeders : seed[s] # None => seed[s].version \in Seeded

LEMMA SeedsEmbeddedStep == ASSUME TypeOK, SeedsEmbedded, [Next]_vars PROVE SeedsEmbedded'
<1> USE DEF SeedsEmbedded
<1>1. ASSUME NEW t \in Seeders, NEW v \in Seeded, NEW c \in Contents, CheckSeed(t, v, c)
      PROVE  SeedsEmbedded'
  BY <1>1 DEF CheckSeed, TypeOK
<1>2. ASSUME NEW t \in Seeders, WriteSeed(t) PROVE SeedsEmbedded'
  BY <1>2 DEF WriteSeed, TypeOK
<1>3. ASSUME NEW a \in Admins, AdminStep(a) PROVE SeedsEmbedded'
  BY <1>3 DEF AdminStep, CreateTemplate, WriteUpdate, ReadForUpdate, PublishTemplate,
              ArchiveTemplate, GetTemplate
<1>4. ASSUME NEW p \in Projects, SelectTemplate(p) \/ Expand(p) PROVE SeedsEmbedded'
  BY <1>4 DEF SelectTemplate, Expand
<1>5. CASE UNCHANGED vars
  BY <1>5 DEF vars
<1> QED
  BY <1>1, <1>2, <1>3, <1>4, <1>5 DEF Next, SeedStep

\* ... so what was selected or pinned of such a version is its content, which was
\* published and is nobody's to overwrite.
Vouched(h) == h # None /\ h.version \notin Seeded => Settled(h.version, h.sections)
Evidence == \A p \in Projects : Vouched(selected[p]) /\ Vouched(pinned[p])

LEMMA SettledStep ==
  ASSUME TypeOK, FirstPublicationDated, [Next]_vars,
         NEW v \in Versions, NEW c \in Contents, Settled(v, c)
  PROVE  Settled(v, c)'
<1>1. Protected(v)' /\ template'[v].sections = c
  BY ContentKept
<1>2. \A s \in Seeders : seed'[s] # None /\ seed'[s].version = v => seed'[s].sections = c
  BY SeedsAgree
<1> QED
  BY <1>1, <1>2 DEF Settled

\* Whoever selects takes a published version as it is.
LEMMA SelectionVouched ==
  ASSUME TypeOK, SeedsEmbedded, NEW p \in Projects, SelectTemplate(p)
  PROVE  Vouched(selected'[p])
<1>1. PICK v \in Preferred :
        selected' = [selected EXCEPT ![p] = [version |-> v, sections |-> template[v].sections]]
  BY DEF SelectTemplate
<1>2. selected'[p] = [version |-> v, sections |-> template[v].sections]
  BY <1>1 DEF TypeOK
<1>3. v \in Rows /\ Protected(v)
  BY <1>1 DEF Preferred, Candidates, Protected
<1> QED
  BY <1>2, <1>3 DEF Vouched, Settled, SeedsEmbedded

LEMMA EvidenceStep ==
  ASSUME TypeOK, FirstPublicationDated, SeedsEmbedded, Evidence, [Next]_vars
  PROVE  Evidence'
<1>1. ASSUME NEW h \in Pin, Vouched(h) PROVE Vouched(h)'
  <2>1. CASE h # None /\ h.version \notin Seeded
    <3>1. h.version \in Versions /\ h.sections \in Contents
      BY <2>1
    <3>2. Settled(h.version, h.sections)'
      BY <1>1, <2>1, <3>1, SettledStep DEF Vouched
    <3> QED
      BY <3>2 DEF Vouched
  <2> QED
    BY <2>1 DEF Vouched
<1>2. Vouched(None)'
  BY DEF Vouched
<1>3. ASSUME NEW p \in Projects
      PROVE  /\ selected'[p] \in {selected[p], None} \/ SelectTemplate(p)
             /\ pinned'[p] \in {pinned[p], selected[p]}
  <2>1. ASSUME NEW q \in Projects, SelectTemplate(q) \/ Expand(q)
        PROVE  /\ selected'[p] \in {selected[p], None} \/ SelectTemplate(p)
               /\ pinned'[p] \in {pinned[p], selected[p]}
    BY <2>1 DEF SelectTemplate, Expand, TypeOK
  <2>2. CASE UNCHANGED <<selected, pinned>>
    BY <2>2
  <2> QED
    BY <2>1, <2>2 DEF Next, vars, AdminStep, SeedStep, CreateTemplate, WriteUpdate,
       ReadForUpdate, PublishTemplate, ArchiveTemplate, GetTemplate, CheckSeed, WriteSeed
<1>4. ASSUME NEW p \in Projects, SelectTemplate(p) 
      PROVE  \E h \in Pin : h = selected'[p] /\ Vouched(h)'
  <2>1. PICK h \in Pin : h = selected'[p]
    BY <1>4, HoldersStayTyped DEF HoldersTyped
  <2>2. Vouched(h)
    BY <1>4, <2>1, SelectionVouched
  <2> QED
    BY <1>1, <2>1, <2>2
<1>5. ASSUME NEW p \in Projects PROVE \E h \in Pin : h = selected'[p] /\ Vouched(h)'
  <2>1. selected[p] \in Pin /\ None \in Pin /\ Vouched(selected[p])
    BY DEF TypeOK, Evidence
  <2>2. PICK h \in Pin : h = selected[p]
    BY <2>1
  <2>3. Vouched(h)'
    BY <1>1, <2>1, <2>2
  <2> QED
    BY <1>2, <1>3, <1>4, <2>1, <2>2, <2>3
<1>6. ASSUME NEW p \in Projects PROVE \E h \in Pin : h = pinned'[p] /\ Vouched(h)'
  <2>1. PICK h \in Pin : h = pinned'[p] /\ Vouched(h)
    BY <1>3 DEF TypeOK, Evidence
  <2> QED
    BY <1>1, <2>1
<1> QED
  BY <1>5, <1>6 DEF Evidence

\* A checklist's pin stays evidence of what it was created from, for any number of
\* administrators, seeds and projects: a version no build embeds keeps the content
\* that was expanded (the state predicate of Update, and Publish and Archive, which
\* leave the sections alone).
THEOREM PinIsEvidenceHolds == Spec => []PinIsEvidence
<1>1. Init => SeedsEmbedded /\ Evidence
  BY DEF Init, SeedsEmbedded, Evidence, Vouched
<1>2. TypeOK /\ FirstPublicationDated /\ SeedsEmbedded /\ Evidence /\ [Next]_vars
        => (SeedsEmbedded /\ Evidence)'
  BY SeedsEmbeddedStep, EvidenceStep
<1>3. Evidence => PinIsEvidence
  BY DEF Evidence, Vouched, Settled, Protected, PinIsEvidence
<1> QED
  BY <1>1, <1>2, <1>3, TemplatesTyped, FirstPublicationDatedHolds, PTL DEF Spec
=============================================================================
