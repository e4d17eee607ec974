---------------------------- MODULE Applications ----------------------------
(***************************************************************************)
(* Project applications: the rows and the deletion markers in Postgres,    *)
(* the HTTP routes that write them, the access and index messages each     *)
(* committed write is followed by, and the repair lane every sweep runs    *)
(* (internal/service/application_*.go). Postgres is the source of truth;   *)
(* the access tuples and the index document are copies fed by core NATS,   *)
(* whose messages may be lost, late or out of order.                       *)
(***************************************************************************)
EXTENDS Integers, FiniteSets, FiniteSetsExt

CONSTANTS
  MaxApps,      \* the uuids in use, in the order the repair lane pages them
  Clients,      \* HTTP requests of submitters and the formation team
  Repairers,    \* sweeps and CLI commands running the repair lane
  PageSize,     \* applicationRepairPageSize
  MaxRevision,  \* bound: nobody revises an application at this revision
  MaxFlight,    \* bound: messages NATS holds undelivered at once
  MaxFaults     \* bound: failed statements, failed or lost messages, crashes

ASSUME ApplicationsAssumption ==
  /\ MaxApps \in Nat \ {0} /\ PageSize \in Nat \ {0}
  /\ MaxRevision \in Nat /\ MaxFlight \in Nat \ {0} /\ MaxFaults \in Nat
  /\ Clients \cap Repairers = {}

Apps == 1..MaxApps
Publishers == Clients \cup Repairers
ApplicationStates == {"submitted", "withdrawn", "accepted", "denied"}

\* The questionnaire answers are known by the revision that wrote them.
Row == [state : ApplicationStates, revision : Nat]
NoRow == [state |-> "submitted", revision |-> 0]

\* What a sweep has to have asked for before it may report success.
Duty == {"live", "deleted"} \X Apps

VARIABLES
  row,     \* [Apps -> Row]: project_applications, NoRow when absent
  marker,  \* [Apps -> Nat]: the deletion marker's revision, 0 when none
  granted, \* [Apps -> BOOLEAN]: the submitter's tuple, as fga-sync holds it
  doc,     \* [Apps -> Row]: the index document, NoRow when absent
  flight,  \* set of messages accepted by NATS and not yet delivered
  seen,    \* [Clients -> [app, row]]: what a client bases its request on
  job,     \* [Publishers -> publication in progress]
  sweep,   \* [Repairers -> repair sweep in progress]
  faults

storeVars == <<row, marker>>
copyVars == <<granted, doc, flight>>
vars == <<row, marker, granted, doc, flight, seen, job, sweep, faults>>

Message == [subject : {"access", "index"}, app : Apps, row : Row]

\* An access message is sent before the index message; row is NoRow when both
\* remove. failed holds once any of the two could not be sent.
Job == [step : {"none", "access", "index"}, app : Apps, row : Row, failed : BOOLEAN]
NoJob == [step |-> "none", app |-> 1, row |-> NoRow, failed |-> FALSE]

Sweep == [pass : {"idle", "live", "deleted", "finished"}, page : SUBSET Apps,
          after : 0..MaxApps, more : BOOLEAN, failed : BOOLEAN, owed : SUBSET Duty]
NoSweep == [pass |-> "idle", page |-> {}, after |-> 0, more |-> FALSE,
            failed |-> FALSE, owed |-> {}]

Unseen == [app |-> 1, row |-> NoRow]
-----------------------------------------------------------------------------
Live == {a \in Apps : row[a] # NoRow}
Deleted == {a \in Apps : marker[a] > 0}
Fault == faults < MaxFaults /\ faults' = faults + 1

Idle(p) == job[p].step = "none"
Publication(a, r) == [step |-> "access", app |-> a, row |-> r, failed |-> FALSE]

\* Mutant: the default state is dropped.
NewRow_NoState == [state |-> "", revision |-> 1]
NewRow == [state |-> "submitted", revision |-> 1]

\* CreateApplication: a fresh uuid; the insert is the commit.
CreateApplication(c, a) ==
  /\ Idle(c)
  /\ a \notin Live \cup Deleted
  /\ row' = [row EXCEPT ![a] = NewRow]
  /\ job' = [job EXCEPT ![c] = Publication(a, row'[a])]
  /\ seen' = [seen EXCEPT ![c] = [app |-> a, row |-> row'[a]]]
  /\ UNCHANGED <<marker, copyVars, sweep, faults>>

\* The client reads the private projection, which the query service shows only
\* to those with access.
ReadProjection(c, a) ==
  /\ Idle(c)
  /\ granted[a] /\ doc[a] # NoRow
  /\ seen' = [seen EXCEPT ![c] = [app |-> a, row |-> doc[a]]]
  /\ seen' # seen
  /\ UNCHANGED <<storeVars, copyVars, job, sweep, faults>>

\* Mutant: the row is locked but If-Match is not compared.
MayWrite_NoIfMatch(c, a) == Idle(c) /\ seen[c].app = a /\ seen[c].row # NoRow /\ a \in Live

\* GetForUpdate holds the row to the end of the transaction, so the comparison
\* with If-Match and the write are one step.
MayWrite(c, a) ==
  /\ Idle(c)
  /\ seen[c].app = a /\ seen[c].row # NoRow
  /\ a \in Live
  /\ row[a].revision = seen[c].row.revision

\* Mutant: a decision leaves the revision where it was.
WithState_SameRevision(r, to) == [r EXCEPT !.state = to]

\* Transition and UpdatePayload: the statement moves the revision with the row.
WithState(r, to) == [state |-> to, revision |-> r.revision + 1]

Mutate(c, a, to) ==
  /\ MayWrite(c, a)
  /\ row[a].revision < MaxRevision
  /\ row' = [row EXCEPT ![a] = WithState(@, to)]
  /\ job' = [job EXCEPT ![c] = Publication(a, row'[a])]
  /\ seen' = [seen EXCEPT ![c].row = row'[a]]
  /\ UNCHANGED <<marker, copyVars, sweep, faults>>

\* New answers; the state stays.
ReviseApplication(c, a) == Mutate(c, a, row[a].state)
\* No state is refused: an application moves from any state to any other.
WithdrawApplication(c, a) == Mutate(c, a, "withdrawn")
DecideApplication(c, a) == \E to \in {"accepted", "denied"} : Mutate(c, a, to)

\* Mutant: the marker has the revision column's default.
MarkerOf_Default(r) == 0
\* The marker keeps the revision that follows the row's last one.
MarkerOf(r) == r.revision + 1

\* DELETE and the marker's INSERT are one statement.
DeleteApplication(c, a) ==
  /\ MayWrite(c, a)
  /\ row' = [row EXCEPT ![a] = NoRow]
  /\ marker' = [marker EXCEPT ![a] = MarkerOf(row[a])]
  /\ job' = [job EXCEPT ![c] = Publication(a, NoRow)]
  /\ seen' = [seen EXCEPT ![c] = Unseen]
  /\ UNCHANGED <<copyVars, sweep, faults>>
-----------------------------------------------------------------------------
MessageOf(subject, j) == [subject |-> subject, app |-> j.app, row |-> j.row]

\* One Publish call of the NATS client, accepted or answered with an error.
Send(m) ==
  /\ Cardinality(flight \cup {m}) <= MaxFlight
  /\ flight' = flight \cup {m}
  /\ UNCHANGED faults
\* The flush after the publish may be what failed: the message may be out.
SendFails(m) ==
  /\ Fault
  /\ flight' \in {flight, flight \cup {m}}
  /\ Cardinality(flight') <= MaxFlight

\* The access half, in PublishApplicationAccess or DeleteApplicationAccess. Its
\* failure is recorded and the index half goes ahead.
PublishAccess(p) ==
  LET j == job[p] IN
  /\ j.step = "access"
  /\ \/ /\ Send(MessageOf("access", j))
        /\ job' = [job EXCEPT ![p].step = "index"]
     \/ /\ SendFails(MessageOf("access", j))
        /\ job' = [job EXCEPT ![p].step = "index", ![p].failed = TRUE]
  /\ UNCHANGED <<storeVars, granted, doc, seen, sweep>>

Kind(r) == IF r = NoRow THEN "deleted" ELSE "live"

\* A sweep that has tried both halves: the duty is paid when both were sent. A
\* live publication of an application deleted in the meantime leaves the
\* removal owed by the same sweep.
Settle(s, j, failed) ==
  [s EXCEPT !.failed = @ \/ failed,
            !.owed = (IF failed THEN @ ELSE @ \ {<<Kind(j.row), j.app>>})
                     \cup (IF j.row # NoRow /\ j.app \in Deleted
                             THEN {<<"deleted", j.app>>} ELSE {})]

PublishIndex(p) ==
  LET j == job[p] IN
  /\ j.step = "index"
  /\ \E sent \in BOOLEAN :
       /\ IF sent THEN Send(MessageOf("index", j)) ELSE SendFails(MessageOf("index", j))
       /\ sweep' = IF p \in Repairers
                     THEN [sweep EXCEPT ![p] = Settle(@, j, j.failed \/ ~sent)]
                     ELSE sweep
  /\ job' = [job EXCEPT ![p] = NoJob]
  /\ UNCHANGED <<storeVars, granted, doc, seen>>

\* The process dies between its commit and its messages, or in the middle of a
\* sweep. A client keeps what it has seen; the next sweep starts over.
Crash(p) ==
  /\ ~Idle(p) \/ (p \in Repairers /\ sweep[p].pass \in {"live", "deleted"})
  /\ Fault
  /\ job' = [job EXCEPT ![p] = NoJob]
  /\ sweep' = IF p \in Repairers THEN [sweep EXCEPT ![p] = NoSweep] ELSE sweep
  /\ UNCHANGED <<storeVars, copyVars, seen>>
-----------------------------------------------------------------------------
\* RepairApplications, at the head of every sweep and in its own CLI command.
BeginRepair(r) ==
  /\ sweep[r].pass \in {"idle", "finished"}
  /\ sweep' = [sweep EXCEPT ![r] =
       [NoSweep EXCEPT !.pass = "live", !.more = TRUE,
                       !.owed = {<<"live", a>> : a \in Live}
                                \cup {<<"deleted", a>> : a \in Deleted}]]
  /\ UNCHANGED <<storeVars, copyVars, seen, job, faults>>

Rows(pass) == IF pass = "live" THEN Live ELSE Deleted

\* The PageSize lowest identifiers above the last one seen.
PageAfter(rows, after) ==
  {a \in rows : a > after /\ Cardinality({b \in rows : after < b /\ b < a}) < PageSize}

\* A short page is the last one.
IsLast(page) == Cardinality(page) < PageSize

Working(r) == sweep[r].pass \in {"live", "deleted"} /\ Idle(r)

ListPage(r) ==
  LET s == sweep[r]
      page == PageAfter(Rows(s.pass), s.after)
  IN
  /\ Working(r)
  /\ s.page = {} /\ s.more
  /\ sweep' = [sweep EXCEPT ![r].page = page, ![r].more = ~IsLast(page),
                            ![r].after = IF IsLast(page) THEN @ ELSE Max(page)]
  /\ UNCHANGED <<storeVars, copyVars, seen, job, faults>>

\* A failed list ends the pass with an error; the other pass still runs.
ListFails(r) ==
  /\ Working(r)
  /\ sweep[r].page = {} /\ sweep[r].more
  /\ Fault
  /\ sweep' = [sweep EXCEPT ![r].more = FALSE, ![r].failed = TRUE]
  /\ UNCHANGED <<storeVars, copyVars, seen, job>>

\* Each listed row is read again just before it is published; one deleted since
\* is skipped. A marker is published as it was listed.
Visit(r, a) ==
  /\ Working(r)
  /\ a \in sweep[r].page /\ a = Min(sweep[r].page)
  /\ job' = IF sweep[r].pass = "deleted" \/ a \in Live
              THEN [job EXCEPT ![r] =
                     Publication(a, IF sweep[r].pass = "live" THEN row[a] ELSE NoRow)]
              ELSE job
  /\ sweep' = [sweep EXCEPT ![r].page = @ \ {a}]
  /\ UNCHANGED <<storeVars, copyVars, seen, faults>>

\* The second read fails for another reason: counted, and the page goes on.
VisitFails(r, a) ==
  /\ Working(r)
  /\ sweep[r].pass = "live" /\ a \in sweep[r].page /\ a = Min(sweep[r].page)
  /\ Fault
  /\ sweep' = [sweep EXCEPT ![r].page = @ \ {a}, ![r].failed = TRUE]
  /\ UNCHANGED <<storeVars, copyVars, seen, job>>

\* Mutant: a sweep ends after its live pass.
NextPass_LiveOnly(pass) == "finished"
\* Live rows first, then the markers.
NextPass(pass) == IF pass = "live" THEN "deleted" ELSE "finished"

EndPass(r) ==
  /\ Working(r)
  /\ sweep[r].page = {} /\ ~sweep[r].more
  /\ sweep' = [sweep EXCEPT ![r].pass = NextPass(@), ![r].after = 0,
                            ![r].more = NextPass(sweep[r].pass) # "finished"]
  /\ UNCHANGED <<storeVars, copyVars, seen, job, faults>>
-----------------------------------------------------------------------------
\* The messages the bounds allow.
BoundedMessage == [subject : {"access", "index"}, app : Apps,
                   row : [state : ApplicationStates, revision : 0..MaxRevision]]

\* fga-sync and the indexer apply whatever arrives, whenever it arrives.
Deliver(m) ==
  /\ m \in flight
  /\ flight' = flight \ {m}
  /\ IF m.subject = "access"
       THEN /\ granted' = [granted EXCEPT ![m.app] = m.row # NoRow]
            /\ UNCHANGED doc
       ELSE /\ doc' = [doc EXCEPT ![m.app] = m.row]
            /\ UNCHANGED granted
  /\ UNCHANGED <<storeVars, seen, job, sweep, faults>>

Lose(m) ==
  /\ m \in flight
  /\ Fault
  /\ flight' = flight \ {m}
  /\ UNCHANGED <<storeVars, granted, doc, seen, job, sweep>>
-----------------------------------------------------------------------------
Init ==
  /\ row = [a \in Apps |-> NoRow]
  /\ marker = [a \in Apps |-> 0]
  /\ granted = [a \in Apps |-> FALSE]
  /\ doc = [a \in Apps |-> NoRow]
  /\ flight = {}
  /\ seen = [c \in Clients |-> Unseen]
  /\ job = [p \in Publishers |-> NoJob]
  /\ sweep = [r \in Repairers |-> NoSweep]
  /\ faults = 0

ClientStep(c) ==
  \E a \in Apps :
    \/ CreateApplication(c, a) \/ ReadProjection(c, a)
    \/ ReviseApplication(c, a) \/ WithdrawApplication(c, a)
    \/ DecideApplication(c, a) \/ DeleteApplication(c, a)

RepairStep(r) ==
  \/ BeginRepair(r) \/ ListPage(r) \/ EndPass(r)
  \/ \E a \in Apps : Visit(r, a)

PublishStep(p) == PublishAccess(p) \/ PublishIndex(p)

RepairFails(r) == ListFails(r) \/ \E a \in Apps : VisitFails(r, a)

Next ==
  \/ \E c \in Clients : ClientStep(c)
  \/ \E r \in Repairers : RepairStep(r) \/ RepairFails(r)
  \/ \E p \in Publishers : PublishStep(p) \/ Crash(p)
  \/ \E m \in flight : Deliver(m) \/ Lose(m)

Spec == Init /\ [][Next]_vars

\* A replica's ticker starts a sweep every interval and its goroutine runs it;
\* NATS delivers what it neither loses nor drops. Nobody has to send requests.
Fairness ==
  /\ \A r \in Repairers : WF_vars(RepairStep(r))
  /\ \A p \in Publishers : WF_vars(PublishStep(p))
  /\ \A m \in BoundedMessage : WF_vars(Deliver(m))
FairSpec == Spec /\ Fairness
-----------------------------------------------------------------------------
TypeOK ==
  /\ row \in [Apps -> Row]
  /\ marker \in [Apps -> Nat]
  /\ granted \in [Apps -> BOOLEAN]
  /\ doc \in [Apps -> Row]
  /\ flight \subseteq Message
  /\ seen \in [Clients -> [app : Apps, row : Row]]
  /\ job \in [Publishers -> Job]
  /\ sweep \in [Repairers -> Sweep]
  /\ faults \in 0..MaxFaults

\* The revision an application has reached; a marker carries one more than the
\* row it removed.
Reached(a) == IF a \in Deleted THEN marker[a] - 1 ELSE row[a].revision

\* Every row a publication, a message, the index or a client holds of a.
Copies(a) ==
  {doc[a]} \cup {m.row : m \in {n \in flight : n.app = a}}
    \cup {job[p].row : p \in {q \in Publishers : job[q].app = a}}
    \cup {seen[c].row : c \in {d \in Clients : seen[d].app = a}}

\* A copy shows only what was committed: never a revision the row has not
\* reached, and at the row's own revision exactly the row. The revision is
\* therefore a safe If-Match even when it was read from a late copy
\* (publication after the commit, mutateApplication).
CopiesWereCommitted ==
  \A a \in Apps : \A r \in Copies(a) :
    /\ r.revision <= Reached(a)
    /\ a \in Live /\ r.revision = row[a].revision => r = row[a]

\* Whoever changes or deletes an application had that very row in view, however
\* stale the index and whoever else wrote meanwhile (If-Match under the row
\* lock, mutateApplication and DeleteApplication).
DecidedOnCurrentRow ==
  [][\A c \in Clients, a \in Apps :
       a \in Live /\ row'[a] # row[a] /\ Idle(c) /\ job'[c].step = "access"
         => seen[c] = [app |-> a, row |-> row[a]]]_vars

\* A sweep that reports no failure has sent both messages for every application
\* that lived through it and for every marker it found, and has asked again for
\* the removal of each one it published after its deletion
\* (RepairApplications: pages, second reads, and the order of the two passes).
SweepPaysWhatItOwes ==
  \A r \in Repairers :
    sweep[r].pass = "finished" /\ ~sweep[r].failed
      => \A d \in sweep[r].owed : d[1] = "live" /\ d[2] \notin Live

Settled(a) ==
  /\ granted[a] <=> a \in Live
  /\ doc[a] = row[a]

\* Once people stop writing and faults stop, every application's access and
\* document end as its row says: shown as it is, or gone if it was deleted
\* (docs/indexer-contract.md, "repaired by the retained source state").
CopiesSettle == <>[](\A a \in Apps : Settled(a))
=============================================================================
