----------------------------- MODULE Templates -----------------------------
(***************************************************************************)
(* Checklist templates: the administrators' HTTP routes                    *)
(* (internal/service/template_admin.go), the seed command                  *)
(* (cmd/formation-cli/seed.go), their repository                           *)
(* (internal/infrastructure/postgres/template_repository.go), and the      *)
(* checklists that expand from a published version and pin it.             *)
(***************************************************************************)
EXTENDS Integers, FiniteSets

CONSTANTS
  Versions,       \* versions of the one template name, each with its uid
  Drafted,        \* the versions administrators create
  Seeded,         \* the versions some build of the CLI embeds
  Contents,       \* section documents
  Priorities,     \* selection priorities, lower first
  Admins,         \* administrators' requests
  Seeders,        \* seed commands
  Projects,       \* projects whose checklist is created once
  MaxSeeds        \* bound: seed commands run

ASSUME TemplatesAssumption ==
  /\ Versions \subseteq Nat /\ Drafted \subseteq Versions /\ Seeded \subseteq Versions
  /\ Priorities \subseteq Nat /\ MaxSeeds \in Nat
  /\ Admins \cap Seeders = {}

TemplateStates == {"draft", "published", "archived"}
Rules == {"always", "unknown"}   \* of which this build knows the first

\* published_at: never set, dated by the first publication, or moved by another.
Dates == {"never", "first", "later"}

Template == [state : TemplateStates, sections : Contents, priority : Priorities,
             match : Rules, publishedAt : Dates]
Absent == [state |-> "absent"]

Answers == {"ok", "NotFound", "Conflict", "BadRequest"}

VARIABLES
  template,   \* [Versions -> Template or Absent]: formation_templates
  update,     \* [Admins -> update in progress]: the row Update read and merged
  seed,       \* [Seeders -> seed in progress]: content that passed the check
  selected,   \* [Projects -> version and content a pass selected, not yet used]
  pinned,     \* [Projects -> version and content the checklist expanded from]
  answer,     \* the last administrator's call: its version, and its answer
  seeds       \* seed commands so far

vars == <<template, update, seed, selected, pinned, answer, seeds>>

None == [version |-> 0]
Pin == {None} \cup [version : Versions, sections : Contents]
Idle == [version |-> 0]
Edit == {Idle} \cup [version : Versions, row : Template]
Quiet == [known |-> TRUE, is |-> "ok"]
-----------------------------------------------------------------------------
Rows == {v \in Versions : template[v] # Absent}
Draft(v) == v \in Rows /\ template[v].state = "draft"

\* published_at = now().
Now(date) == IF date = "never" THEN "first" ELSE "later"
\* published_at = COALESCE(published_at, now()).
Coalesce(date) == IF date = "never" THEN "first" ELSE date

NewDraft(c, p, m) ==
  [state |-> "draft", sections |-> c, priority |-> p, match |-> m, publishedAt |-> "never"]

Reply(v, is) == answer' = [known |-> v \in Rows, is |-> is]

\* CreateTemplate: always a draft, refused when the name and version exist.
CreateTemplate(a) ==
  /\ update[a] = Idle
  /\ \E v \in Drafted, c \in Contents, p \in Priorities, m \in Rules :
       IF v \in Rows
         THEN Reply(v, "Conflict") /\ UNCHANGED template
         ELSE /\ template' = [template EXCEPT ![v] = NewDraft(c, p, m)]
              /\ answer' = Quiet
  /\ UNCHANGED <<update, seed, selected, pinned, seeds>>

\* Update reads the row and merges the fields the patch names: here the sections,
\* the priority or both.
ReadForUpdate(a, v) ==
  /\ update[a] = Idle
  /\ IF v \notin Rows
       THEN Reply(v, "NotFound") /\ UNCHANGED update
       ELSE \/ Reply(v, "BadRequest") /\ UNCHANGED update      \* an empty patch
            \/ /\ \E c \in Contents \cup {template[v].sections},
                     p \in Priorities \cup {template[v].priority} :
                    update' = [update EXCEPT ![a] =
                      [version |-> v,
                       row |-> [template[v] EXCEPT !.sections = c, !.priority = p]]]
               /\ UNCHANGED answer
  /\ UNCHANGED <<template, seed, selected, pinned, seeds>>

\* Mutant: the state the update read is trusted, or not looked at.
MayRewrite_AnyState(v) == v \in Rows
\* ... WHERE uid = ? AND state = 'draft', which catches a publication since the read.
MayRewrite(v) == Draft(v)

\* The merged columns go back, whoever wrote them meanwhile; state and
\* publication time are not among them.
WriteUpdate(a) ==
  LET v == update[a].version IN
  /\ update[a] # Idle
  /\ IF MayRewrite(v)
       THEN /\ template' = [template EXCEPT ![v].sections = update[a].row.sections,
                                            ![v].priority = update[a].row.priority]
            /\ Reply(v, "ok")
       ELSE Reply(v, "Conflict") /\ UNCHANGED template
  /\ update' = [update EXCEPT ![a] = Idle]
  /\ UNCHANGED <<seed, selected, pinned, seeds>>

\* Publish and Archive are one conditional statement each, and answer a row
\* that is not there as one in the wrong state.
PublishTemplate(a, v) ==
  /\ update[a] = Idle
  /\ IF Draft(v)
       THEN /\ template' = [template EXCEPT ![v].state = "published",
                                            ![v].publishedAt = Now(@)]
            /\ Reply(v, "ok")
       ELSE Reply(v, "Conflict") /\ UNCHANGED template
  /\ UNCHANGED <<update, seed, selected, pinned, seeds>>

ArchiveTemplate(a, v) ==
  /\ update[a] = Idle
  /\ IF v \in Rows /\ template[v].state # "archived"
       THEN /\ template' = [template EXCEPT ![v].state = "archived"]
            /\ Reply(v, "ok")
       ELSE Reply(v, "Conflict") /\ UNCHANGED template
  /\ UNCHANGED <<update, seed, selected, pinned, seeds>>

\* GetTemplate: the one read whose answer depends on the row.
GetTemplate(a, v) ==
  /\ update[a] = Idle
  /\ Reply(v, IF v \in Rows THEN "ok" ELSE "NotFound")
  /\ UNCHANGED <<template, update, seed, selected, pinned, seeds>>
-----------------------------------------------------------------------------
\* Anything ever published is protected.
Protected(v) ==
  v \in Rows /\ (template[v].state = "published" \/ template[v].publishedAt # "never")

\* Mutant: only what is published right now is protected.
RefusesSeed_NowOnly(v, c) ==
  v \in Rows /\ template[v].state = "published" /\ template[v].sections # c
RefusesSeed(v, c) == Protected(v) /\ template[v].sections # c

\* Upsert's check: content may change only on a version never published.
CheckSeed(s, v, c) ==
  /\ seed[s] = None
  /\ seeds < MaxSeeds
  /\ seeds' = seeds + 1
  /\ seed' = IF RefusesSeed(v, c)
               THEN seed
               ELSE [seed EXCEPT ![s] = [version |-> v, sections |-> c]]
  /\ UNCHANGED <<template, update, selected, pinned, answer>>

\* Upsert's statement, a later one: every column as the build has it, except the
\* publication time.
WriteSeed(s) ==
  LET v == seed[s].version IN
  /\ seed[s] # None
  /\ \E p \in Priorities :
       template' = [template EXCEPT ![v] =
         [state |-> "published", sections |-> seed[s].sections, priority |-> p,
          match |-> "always",
          publishedAt |-> IF v \in Rows THEN Coalesce(template[v].publishedAt)
                                        ELSE "first"]]
  /\ seed' = [seed EXCEPT ![s] = None]
  /\ UNCHANGED <<update, selected, pinned, answer, seeds>>
-----------------------------------------------------------------------------
\* ListPublished, and the rules this build can read.
Candidates == {v \in Rows : template[v].state = "published" /\ template[v].match = "always"}

\* Lowest priority first, then the newest version.
Before(v, w) ==
  \/ template[v].priority < template[w].priority
  \/ template[v].priority = template[w].priority /\ v > w
Preferred == {v \in Candidates : \A w \in Candidates \ {v} : Before(v, w)}

\* A pass selects a template and creates the checklist later, from what it read.
SelectTemplate(p) ==
  /\ pinned[p] = None
  /\ \E v \in Preferred :
       selected' = [selected EXCEPT ![p] = [version |-> v, sections |-> template[v].sections]]
  /\ selected' # selected
  /\ UNCHANGED <<template, update, seed, pinned, answer, seeds>>

Expand(p) ==
  /\ pinned[p] = None /\ selected[p] # None
  /\ pinned' = [pinned EXCEPT ![p] = selected[p]]
  /\ selected' = [selected EXCEPT ![p] = None]
  /\ UNCHANGED <<template, update, seed, answer, seeds>>
-----------------------------------------------------------------------------
Init ==
  /\ template = [v \in Versions |-> Absent]
  /\ update = [a \in Admins |-> Idle]
  /\ seed = [s \in Seeders |-> None]
  /\ selected = [p \in Projects |-> None]
  /\ pinned = [p \in Projects |-> None]
  /\ answer = Quiet
  /\ seeds = 0

AdminStep(a) ==
  \/ CreateTemplate(a)
  \/ WriteUpdate(a)
  \/ \E v \in Versions :
       ReadForUpdate(a, v) \/ PublishTemplate(a, v) \/ ArchiveTemplate(a, v) \/ GetTemplate(a, v)

SeedStep(s) ==
  \/ \E v \in Seeded, c \in Contents : CheckSeed(s, v, c)
  \/ WriteSeed(s)

Next ==
  \/ \E a \in Admins : AdminStep(a)
  \/ \E s \in Seeders : SeedStep(s)
  \/ \E p \in Projects : SelectTemplate(p) \/ Expand(p)

Spec == Init /\ [][Next]_vars
-----------------------------------------------------------------------------
TypeOK ==
  /\ template \in [Versions -> Template \cup {Absent}]
  /\ update \in [Admins -> Edit]
  /\ seed \in [Seeders -> Pin]
  /\ selected \in [Projects -> Pin]
  /\ pinned \in [Projects -> Pin]
  /\ answer \in [known : BOOLEAN, is : Answers]
  /\ seeds \in 0..MaxSeeds

\* A checklist's pin is evidence of what it was created from: a version no build
\* embeds holds the content the checklist expanded, whatever updates were merged
\* before its publication and are written after it. Of the versions a build does
\* embed, which administrators may draft as well, SettledForGood is what holds.
PinIsEvidence ==
  \A p \in Projects :
    pinned[p] # None /\ pinned[p].version \notin Seeded =>
      /\ pinned[p].version \in Rows
      /\ template[pinned[p].version].sections = pinned[p].sections

\* v was published, holds c, and no seed that passed the check is about to write
\* anything else over it.
Settled(v, c) ==
  /\ Protected(v) /\ template[v].sections = c
  /\ \A s \in Seeders : seed[s] # None /\ seed[s].version = v => seed[s].sections = c

\* refuseEditingAPublishedVersion and the state predicate of Update, with any
\* number of administrators and seeds on the same version: the one threat to
\* published content is a seed checked before the publication and not yet written.
\* Once there is none, the version keeps its content for good - from every update
\* merged earlier, every archive and re-seed - and no later seed becomes a threat.
SettledForGood ==
  [][\A v \in Versions, c \in Contents : Settled(v, c) => Settled(v, c)']_vars

\* Upsert, template_repository.go: "A published version's content is immutable.
\* [...] changing them is refused". Stated of every step; what a seed checked before
\* the publication is still written after it.
PublishedIsImmutable ==
  [][\A v \in Versions : Protected(v) => template'[v].sections = template[v].sections]_vars

\* A published row has a publication time, an archived one keeps the time it
\* had, and no later seed or publication moves the first
\* (ApplyUpsertDefaults and the COALESCE in Upsert).
FirstPublicationDated ==
  \A v \in Rows :
    /\ template[v].publishedAt # "later"
    /\ template[v].state = "published" => template[v].publishedAt = "first"
    /\ template[v].state = "draft" => template[v].publishedAt = "never"
=============================================================================
