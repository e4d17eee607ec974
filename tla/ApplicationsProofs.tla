------------------------- MODULE ApplicationsProofs -------------------------
(***************************************************************************)
(* Theorems about Applications, for any number of applications, clients,   *)
(* sweeps and faults and any page size.                                    *)
(***************************************************************************)
EXTENDS Applications, FiniteSetTheorems, TLAPS

(* Least and greatest identifiers: the pages of the repair lane.           *)

\* The initial segments below the members of S are finite sets ordered by
\* inclusion, a well-founded order: a smallest one ends at the least member.
LEMMA LeastExists ==
  ASSUME NEW S \in SUBSET Nat, S # {}
  PROVE  \E x \in S : \A y \in S : x <= y
<1> DEFINE Segments == {0..x : x \in S}
<1>1. Segments # {} /\ Segments \subseteq FiniteSubsetsOf(Nat)
  <2>1. ASSUME NEW x \in S
        PROVE  0..x \in FiniteSubsetsOf(Nat)
    BY <2>1, FS_Interval DEF FiniteSubsetsOf
  <2> QED
    BY <2>1
<1>2. PICK T \in Segments : \A U \in Segments : <<U, T>> \notin StrictSubsetOrdering(Nat)
  <2> HIDE DEF Segments
  <2> QED
    BY <1>1, FS_StrictSubsetOrderingWellFounded, WFMin
<1>3. PICK x \in S : T = 0..x
  OBVIOUS
<1>4. ASSUME NEW y \in S, y < x
      PROVE  FALSE
  <2>1. 0..y \subseteq 0..x /\ 0..y # 0..x /\ 0..y \in SUBSET Nat /\ 0..x \in SUBSET Nat
    <3>1. x \in 0..x /\ x \notin 0..y
      BY <1>4
    <3> QED
      BY <1>4, <3>1
  <2>2. <<0..y, 0..x>> \in StrictSubsetOrdering(Nat)
    BY <2>1 DEF StrictSubsetOrdering
  <2> QED
    BY <1>2, <1>3, <2>2
<1> QED
  BY <1>4

\* The greatest member of a bounded set is as far below the bound as possible.
LEMMA GreatestExists ==
  ASSUME NEW n \in Nat, NEW S \in SUBSET (0..n), S # {}
  PROVE  \E x \in S : \A y \in S : y <= x
<1> DEFINE Gaps == {n - x : x \in S}
<1>1. Gaps \in SUBSET Nat /\ Gaps # {}
  <2>1. \A x \in S : x \in Int /\ n - x \in Nat
    OBVIOUS
  <2> QED
    BY <2>1
<1>2. PICK g \in Gaps : \A h \in Gaps : g <= h
  <2> HIDE DEF Gaps
  <2> QED
    BY <1>1, LeastExists
<1>3. PICK x \in S : g = n - x
  OBVIOUS
<1>4. \A y \in S : n - y \in Gaps
  OBVIOUS
<1> QED
  BY <1>2, <1>3, <1>4

LEMMA MaxOfPage ==
  ASSUME NEW S \in SUBSET Apps, S # {}
  PROVE  Max(S) \in S /\ \A y \in S : y <= Max(S)
<1>1. S \in SUBSET (0..MaxApps) /\ MaxApps \in Nat
  BY ApplicationsAssumption DEF Apps
<1>2. \E x \in S : \A y \in S : y <= x
  BY <1>1, GreatestExists
<1>3. \E x \in S : \A y \in S : x >= y
  BY <1>1, <1>2
<1> QED
  BY <1>1, <1>3 DEF Max

LEMMA MinOfPage ==
  ASSUME NEW S \in SUBSET Apps, S # {}
  PROVE  Min(S) \in S
<1>1. S \in SUBSET Nat
  BY ApplicationsAssumption DEF Apps
<1>2. \E x \in S : \A y \in S : x =< y
  BY <1>1, LeastExists
<1> QED
  BY <1>2 DEF Min
-----------------------------------------------------------------------------
(* Every value is of its kind.                                             *)

LEMMA RecordsTyped ==
  /\ NoRow \in Row /\ NewRow \in Row
  /\ \A r \in Row, to \in ApplicationStates : WithState(r, to) \in Row
  /\ \A r \in Row : MarkerOf(r) \in Nat
  /\ NoJob \in Job /\ NoSweep \in Sweep /\ Unseen \in [app : Apps, row : Row]
  /\ \A a \in Apps, r \in Row : Publication(a, r) \in Job
  /\ \A subject \in {"access", "index"}, j \in Job : MessageOf(subject, j) \in Message
<1>1. 1 \in Apps /\ 0 \in 0..MaxApps
  BY ApplicationsAssumption DEF Apps
<1>2. NoRow \in Row /\ NewRow \in Row
  BY DEF NoRow, NewRow, Row, ApplicationStates
<1>3. \A r \in Row, to \in ApplicationStates : WithState(r, to) \in Row /\ MarkerOf(r) \in Nat
  BY DEF WithState, MarkerOf, Row
<1>4. \A r \in Row : MarkerOf(r) \in Nat
  BY DEF MarkerOf, Row
<1> HIDE DEF Row, NoRow, NewRow
<1>5. NoJob \in Job /\ Unseen \in [app : Apps, row : Row]
  BY <1>1, <1>2 DEF NoJob, Job, Unseen
<1>6. NoSweep \in Sweep
  BY <1>1 DEF NoSweep, Sweep
<1>7. \A a \in Apps, r \in Row : Publication(a, r) \in Job
  BY DEF Publication, Job
<1>8. \A subject \in {"access", "index"}, j \in Job : MessageOf(subject, j) \in Message
  BY DEF MessageOf, Job, Message
<1> QED
  BY <1>2, <1>3, <1>4, <1>5, <1>6, <1>7, <1>8

\* A fault counts one, within its bound.
LEMMA FaultTyped ==
  ASSUME TypeOK, Fault
  PROVE  faults' \in 0..MaxFaults
BY ApplicationsAssumption DEF TypeOK, Fault

LEMMA ClientTyped ==
  ASSUME TypeOK, NEW c \in Clients, ClientStep(c)
  PROVE  TypeOK'
<1>0. c \in Publishers /\ seen[c] \in [app : Apps, row : Row]
  BY DEF Publishers, TypeOK
<1>1. PICK a \in Apps : \/ CreateApplication(c, a) \/ ReadProjection(c, a)
                         \/ ReviseApplication(c, a) \/ WithdrawApplication(c, a)
                         \/ DecideApplication(c, a) \/ DeleteApplication(c, a)
  BY DEF ClientStep
<1>2. CASE CreateApplication(c, a)
  <2>1. /\ row' = [row EXCEPT ![a] = NewRow] /\ row'[a] = NewRow
        /\ job' = [job EXCEPT ![c] = Publication(a, NewRow)]
        /\ seen' = [seen EXCEPT ![c] = [app |-> a, row |-> NewRow]]
    BY <1>2 DEF CreateApplication, TypeOK
  <2> QED
    BY <1>0, <1>2, <2>1, RecordsTyped DEF CreateApplication, TypeOK, copyVars
<1>3. CASE ReadProjection(c, a)
  BY <1>3 DEF ReadProjection, TypeOK, storeVars, copyVars
<1>4. ASSUME NEW to \in ApplicationStates, Mutate(c, a, to)
      PROVE  TypeOK'
  <2> DEFINE new == WithState(row[a], to)
  <2>1. new \in Row
    BY RecordsTyped DEF TypeOK
  <2>2. /\ row' = [row EXCEPT ![a] = new] /\ row'[a] = new
        /\ job' = [job EXCEPT ![c] = Publication(a, new)]
        /\ seen' = [seen EXCEPT ![c].row = new]
    BY <1>0, <1>4 DEF Mutate, TypeOK
  <2> HIDE DEF new
  <2>3. seen' = [seen EXCEPT ![c] = [app |-> seen[c].app, row |-> new]]
    <3>1. [seen[c] EXCEPT !.row = new] = [app |-> seen[c].app, row |-> new]
      BY <1>0
    <3> QED
      BY <2>2, <3>1 DEF TypeOK
  <2> QED
    BY <1>0, <1>4, <2>1, <2>2, <2>3, RecordsTyped DEF Mutate, TypeOK, copyVars
<1>5. CASE ReviseApplication(c, a) \/ WithdrawApplication(c, a) \/ DecideApplication(c, a)
  <2>1. row[a].state \in ApplicationStates /\ {"withdrawn", "accepted", "denied"} \subseteq ApplicationStates
    BY DEF TypeOK, Row, ApplicationStates
  <2> QED
    BY <1>4, <1>5, <2>1 DEF ReviseApplication, WithdrawApplication, DecideApplication
<1>6. CASE DeleteApplication(c, a)
  BY <1>0, <1>6, RecordsTyped DEF DeleteApplication, TypeOK, copyVars
<1> QED
  BY <1>1, <1>2, <1>3, <1>5, <1>6

LEMMA PublishTyped ==
  ASSUME TypeOK, NEW p \in Publishers, PublishStep(p)
  PROVE  TypeOK'
<1>0. job[p] \in Job /\ (p \in Repairers => sweep[p] \in Sweep)
  BY DEF TypeOK
<1>1. ASSUME NEW subject \in {"access", "index"},
             Send(MessageOf(subject, job[p])) \/ SendFails(MessageOf(subject, job[p]))
      PROVE  flight' \subseteq Message /\ faults' \in 0..MaxFaults
  <2>1. MessageOf(subject, job[p]) \in Message
    BY <1>0, RecordsTyped
  <2> QED
    BY <1>1, <2>1, FaultTyped DEF Send, SendFails, TypeOK
<1>2. CASE PublishAccess(p)
  <2>1. flight' \subseteq Message /\ faults' \in 0..MaxFaults
    BY <1>1, <1>2 DEF PublishAccess
  <2>2. PICK b \in BOOLEAN : job' = [job EXCEPT ![p].step = "index", ![p].failed = b]
    <3>1. job' = [job EXCEPT ![p].step = "index"]
            => job' = [job EXCEPT ![p].step = "index", ![p].failed = job[p].failed]
      BY <1>0 DEF TypeOK, Job
    <3> QED
      BY <1>0, <1>2, <3>1 DEF PublishAccess, Job
  <2> DEFINE j == [job[p] EXCEPT !.step = "index", !.failed = b]
  <2>3. j \in Job /\ job' = [job EXCEPT ![p] = j]
    BY <1>0, <2>2 DEF Job, TypeOK
  <2> HIDE DEF j
  <2> QED
    BY <1>2, <2>1, <2>3 DEF PublishAccess, TypeOK, storeVars
<1>3. CASE PublishIndex(p)
  <2>1. PICK sent \in BOOLEAN :
          /\ IF sent THEN Send(MessageOf("index", job[p])) ELSE SendFails(MessageOf("index", job[p]))
          /\ sweep' = IF p \in Repairers
                        THEN [sweep EXCEPT ![p] = Settle(@, job[p], job[p].failed \/ ~sent)]
                        ELSE sweep
    BY <1>3 DEF PublishIndex
  <2>2. flight' \subseteq Message /\ faults' \in 0..MaxFaults
    BY <1>1, <2>1
  <2>3. ASSUME NEW s \in Sweep, NEW failed \in BOOLEAN
        PROVE  Settle(s, job[p], failed) \in Sweep
    <3> DEFINE owed == (IF failed THEN s.owed ELSE s.owed \ {<<Kind(job[p].row), job[p].app>>})
                       \cup (IF job[p].row # NoRow /\ job[p].app \in Deleted
                               THEN {<<"deleted", job[p].app>>} ELSE {})
    <3>1. owed \in SUBSET Duty
      BY <1>0 DEF Sweep, Duty, Job
    <3>2. Settle(s, job[p], failed) = [s EXCEPT !.failed = s.failed \/ failed, !.owed = owed]
      BY DEF Settle
    <3> HIDE DEF owed
    <3>3. (s.failed \/ failed) \in BOOLEAN
      BY DEF Sweep
    <3> QED
      BY <3>1, <3>2, <3>3 DEF Sweep
  <2>4. (job[p].failed \/ ~sent) \in BOOLEAN
    OBVIOUS
  <2>5. sweep' \in [Repairers -> Sweep]
    BY <1>0, <2>1, <2>3, <2>4 DEF TypeOK
  <2> QED
    BY <1>3, <2>2, <2>5, RecordsTyped DEF PublishIndex, TypeOK, storeVars
<1> QED
  BY <1>2, <1>3 DEF PublishStep

LEMMA PageWithin ==
  ASSUME NEW rows \in SUBSET Apps, NEW after
  PROVE  PageAfter(rows, after) \subseteq rows
BY DEF PageAfter

LEMMA ListTyped ==
  ASSUME TypeOK, NEW r \in Repairers, ListPage(r)
  PROVE  TypeOK'
<1> DEFINE s == sweep[r]
           page == PageAfter(Rows(s.pass), s.after)
           after == IF IsLast(page) THEN s.after ELSE Max(page)
           next == [s EXCEPT !.page = page, !.more = ~IsLast(page), !.after = after]
<1>1. s \in Sweep
  BY DEF TypeOK
<1>2. page \in SUBSET Apps
  BY PageWithin DEF Rows, Live, Deleted
<1>3. after \in 0..MaxApps
  <2>1. CASE IsLast(page)
    BY <1>1, <2>1 DEF Sweep
  <2>2. CASE ~IsLast(page)
    <3>1. page # {}
      BY <2>2, FS_EmptySet, ApplicationsAssumption DEF IsLast
    <3> HIDE DEF page
    <3>2. Max(page) \in Apps
      BY <1>2, <3>1, MaxOfPage
    <3> QED
      BY <2>2, <3>2, ApplicationsAssumption DEF Apps
  <2> QED
    BY <2>1, <2>2
<1>4. sweep' = [sweep EXCEPT ![r].page = page, ![r].more = ~IsLast(page),
                             ![r].after = IF IsLast(page) THEN @ ELSE Max(page)]
  BY Zenon DEF ListPage
<1>8. UNCHANGED <<storeVars, copyVars, seen, job, faults>>
  BY DEF ListPage
<1> HIDE DEF page
<1>5. (~IsLast(page)) \in BOOLEAN
  OBVIOUS
<1>7. sweep' = [sweep EXCEPT ![r] = next]
  BY <1>1, <1>4 DEF TypeOK
<1> HIDE DEF after
<1>6. next \in Sweep
  BY <1>1, <1>2, <1>3, <1>5 DEF Sweep
<1> HIDE DEF next, s
<1> QED
  BY <1>6, <1>7, <1>8 DEF TypeOK, storeVars, copyVars

LEMMA RepairTyped ==
  ASSUME TypeOK, NEW r \in Repairers, RepairStep(r) \/ RepairFails(r)
  PROVE  TypeOK'
<1>0. sweep[r] \in Sweep /\ r \in Publishers
  BY DEF TypeOK, Publishers
<1>1. ASSUME NEW s \in Sweep, sweep' = [sweep EXCEPT ![r] = s],
             UNCHANGED <<storeVars, copyVars, seen>>, job' \in [Publishers -> Job],
             faults' \in 0..MaxFaults
      PROVE  TypeOK'
  BY <1>1 DEF TypeOK, storeVars, copyVars
<1>2. CASE BeginRepair(r)
  <2> DEFINE owed == {<<"live", a>> : a \in Live} \cup {<<"deleted", a>> : a \in Deleted}
             s == [NoSweep EXCEPT !.pass = "live", !.more = TRUE, !.owed = owed]
  <2>1. owed \in SUBSET Duty
    BY DEF Duty, Live, Deleted
  <2>2. sweep' = [sweep EXCEPT ![r] = s]
    BY <1>2 DEF BeginRepair
  <2> HIDE DEF owed
  <2>3. s \in Sweep
    BY <2>1, RecordsTyped DEF Sweep
  <2> HIDE DEF s
  <2> QED
    BY <1>1, <1>2, <2>2, <2>3 DEF BeginRepair, TypeOK
<1>3. CASE ListPage(r)
  BY <1>3, ListTyped
<1>4. CASE EndPass(r)
  <2> DEFINE s == [sweep[r] EXCEPT !.pass = NextPass(sweep[r].pass), !.after = 0,
                                   !.more = NextPass(sweep[r].pass) # "finished"]
  <2>1. sweep' = [sweep EXCEPT ![r] = s]
    BY <1>0, <1>4 DEF EndPass, TypeOK
  <2>3. NextPass(sweep[r].pass) \in {"deleted", "finished"} /\ 0 \in 0..MaxApps
    BY ApplicationsAssumption DEF NextPass
  <2>2. s \in Sweep
    BY <1>0, <2>3 DEF Sweep
  <2> HIDE DEF s
  <2> QED
    BY <1>1, <1>4, <2>1, <2>2 DEF EndPass, TypeOK
<1>5. ASSUME NEW a \in Apps, Visit(r, a)
      PROVE  TypeOK'
  <2> DEFINE s == [sweep[r] EXCEPT !.page = sweep[r].page \ {a}]
  <2>1. sweep' = [sweep EXCEPT ![r] = s]
    BY <1>5 DEF Visit
  <2>2. s \in Sweep
    BY <1>0 DEF Sweep
  <2>3. (IF sweep[r].pass = "live" THEN row[a] ELSE NoRow) \in Row
    BY RecordsTyped DEF TypeOK
  <2>4. job' \in [Publishers -> Job]
    BY <1>0, <1>5, <2>3, RecordsTyped DEF Visit, TypeOK
  <2> HIDE DEF s
  <2> QED
    BY <1>1, <1>5, <2>1, <2>2, <2>4 DEF Visit, TypeOK
<1>6. CASE ListFails(r)
  <2> DEFINE s == [sweep[r] EXCEPT !.more = FALSE, !.failed = TRUE]
  <2>1. sweep' = [sweep EXCEPT ![r] = s]
    BY <1>0, <1>6 DEF ListFails, TypeOK
  <2>2. s \in Sweep
    BY <1>0 DEF Sweep
  <2> HIDE DEF s
  <2> QED
    BY <1>1, <1>6, <2>1, <2>2, FaultTyped DEF ListFails, TypeOK
<1>7. ASSUME NEW a \in Apps, VisitFails(r, a)
      PROVE  TypeOK'
  <2> DEFINE s == [sweep[r] EXCEPT !.page = sweep[r].page \ {a}, !.failed = TRUE]
  <2>1. sweep' = [sweep EXCEPT ![r] = s]
    BY <1>0, <1>7 DEF VisitFails, TypeOK
  <2>2. s \in Sweep
    BY <1>0 DEF Sweep
  <2> HIDE DEF s
  <2> QED
    BY <1>1, <1>7, <2>1, <2>2, FaultTyped DEF VisitFails, TypeOK
<1> QED
  BY <1>2, <1>3, <1>4, <1>5, <1>6, <1>7 DEF RepairStep, RepairFails

LEMMA TypeOKStep ==
  ASSUME TypeOK, [Next]_vars
  PROVE  TypeOK'
<1>1. ASSUME NEW p \in Publishers, Crash(p)
      PROVE  TypeOK'
  BY <1>1, RecordsTyped, FaultTyped DEF Crash, TypeOK, storeVars, copyVars
<1>2. ASSUME NEW m \in flight, Deliver(m)
      PROVE  TypeOK'
  <2>1. m \in Message /\ flight \subseteq Message
    BY DEF TypeOK
  <2>2. m.app \in Apps /\ m.row \in Row /\ (m.row # NoRow) \in BOOLEAN
    BY <2>1 DEF Message
  <2>3. flight' \subseteq Message
    BY <1>2, <2>1 DEF Deliver
  <2>4. granted' \in [Apps -> BOOLEAN] /\ doc' \in [Apps -> Row]
    BY <1>2, <2>2 DEF Deliver, TypeOK
  <2> QED
    BY <1>2, <2>3, <2>4 DEF Deliver, TypeOK, storeVars
<1>3. ASSUME NEW m \in flight, Lose(m)
      PROVE  TypeOK'
  BY <1>3, FaultTyped DEF Lose, TypeOK, storeVars
<1>4. CASE UNCHANGED vars
  BY <1>4 DEF vars, TypeOK
<1> QED
  BY <1>1, <1>2, <1>3, <1>4, ClientTyped, PublishTyped, RepairTyped DEF Next

\* Whatever people, sweeps and NATS do, rows, markers, copies, messages and
\* publications are what the code's types say; a page's last identifier stays
\* among the applications'.
THEOREM ApplicationsTyped == Spec => []TypeOK
<1>1. Init => TypeOK
  BY RecordsTyped, ApplicationsAssumption DEF Init, TypeOK
<1> QED
  BY <1>1, TypeOKStep, PTL DEF Spec
-----------------------------------------------------------------------------
(* Copies follow the row.                                                  *)

\* An application is live under a revision, or deleted, or never was.
OneLife ==
  \A a \in Apps : row[a] # NoRow => row[a].revision > 0 /\ marker[a] = 0

\* What a holder may have of a: nothing the row has not been, and at its own
\* revision the row itself.
Committed(a, r) ==
  /\ r.revision <= Reached(a)
  /\ a \in Live /\ r.revision = row[a].revision => r = row[a]

CopiesCommitted ==
  /\ \A a \in Apps : Committed(a, doc[a])
  /\ \A m \in flight : Committed(m.app, m.row)
  /\ \A p \in Publishers : Committed(job[p].app, job[p].row)
  /\ \A c \in Clients : Committed(seen[c].app, seen[c].row)

\* The three ways the rows and the markers change, all by one client.
Creates(c, a) ==
  /\ row[a] = NoRow /\ marker[a] = 0
  /\ row' = [row EXCEPT ![a] = NewRow] /\ UNCHANGED marker
Changes(c, a) ==
  /\ MayWrite(c, a)
  /\ \E to \in ApplicationStates : row' = [row EXCEPT ![a] = WithState(row[a], to)]
  /\ UNCHANGED marker
Deletes(c, a) ==
  /\ MayWrite(c, a)
  /\ row' = [row EXCEPT ![a] = NoRow]
  /\ marker' = [marker EXCEPT ![a] = row[a].revision + 1]

\* The writer then holds the row it wrote, to publish it and to write again.
Holds(c, a, r) ==
  /\ job' = [job EXCEPT ![c] = Publication(a, r)]
  /\ \/ seen' = [seen EXCEPT ![c] = [app |-> a, row |-> r]]
     \/ r = NoRow /\ seen' = [seen EXCEPT ![c] = Unseen]

Writes(c, a) ==
  /\ Creates(c, a) \/ Changes(c, a) \/ Deletes(c, a)
  /\ Holds(c, a, row'[a])
  /\ UNCHANGED <<copyVars, sweep, faults>>

LEMMA ClientWrites ==
  ASSUME TypeOK, NEW c \in Clients, ClientStep(c)
  PROVE  \E a \in Apps : Writes(c, a) \/ ReadProjection(c, a)
<1>0. /\ row \in [Apps -> Row] /\ marker \in [Apps -> Nat]
      /\ seen[c] \in [app : Apps, row : Row] /\ seen \in [Clients -> [app : Apps, row : Row]]
  BY DEF TypeOK
<1>1. PICK a \in Apps : \/ CreateApplication(c, a) \/ ReadProjection(c, a)
                         \/ ReviseApplication(c, a) \/ WithdrawApplication(c, a)
                         \/ DecideApplication(c, a) \/ DeleteApplication(c, a)
  BY DEF ClientStep
<1>2. CASE CreateApplication(c, a)
  <2>1. Creates(c, a)
    BY <1>0, <1>2 DEF CreateApplication, Creates, Live, Deleted
  <2>2. Holds(c, a, row'[a])
    BY <1>2 DEF CreateApplication, Holds
  <2> QED
    BY <1>2, <2>1, <2>2 DEF CreateApplication, Writes
<1>3. ASSUME NEW to \in ApplicationStates, Mutate(c, a, to)
      PROVE  Writes(c, a)
  <2>1. Changes(c, a)
    BY <1>3 DEF Mutate, Changes
  <2>2. seen' = [seen EXCEPT ![c] = [app |-> a, row |-> row'[a]]]
    <3>1. seen' = [seen EXCEPT ![c].row = row'[a]] /\ seen[c].app = a
      BY <1>3 DEF Mutate, MayWrite
    <3>2. [seen[c] EXCEPT !.row = row'[a]] = [app |-> a, row |-> row'[a]]
      BY <1>0, <3>1
    <3> QED
      BY <1>0, <3>1, <3>2
  <2>3. Holds(c, a, row'[a])
    BY <1>3, <2>2 DEF Mutate, Holds
  <2> QED
    BY <1>3, <2>1, <2>3 DEF Mutate, Writes
<1>4. CASE ReviseApplication(c, a) \/ WithdrawApplication(c, a) \/ DecideApplication(c, a)
  <2>1. row[a].state \in ApplicationStates /\ {"withdrawn", "accepted", "denied"} \subseteq ApplicationStates
    BY <1>0 DEF Row, ApplicationStates
  <2> QED
    BY <1>3, <1>4, <2>1 DEF ReviseApplication, WithdrawApplication, DecideApplication
<1>5. CASE DeleteApplication(c, a)
  <2>1. Deletes(c, a)
    BY <1>5 DEF DeleteApplication, Deletes, MarkerOf
  <2>2. row'[a] = NoRow
    BY <1>0, <1>5 DEF DeleteApplication
  <2>3. Holds(c, a, row'[a])
    BY <1>5, <2>2 DEF DeleteApplication, Holds
  <2> QED
    BY <1>5, <2>1, <2>3 DEF DeleteApplication, Writes
<1> QED
  BY <1>1, <1>2, <1>4, <1>5

\* Only a client's write changes a row or a marker.
LEMMA OthersKeepRows ==
  ASSUME \/ \E r \in Repairers : RepairStep(r) \/ RepairFails(r)
         \/ \E p \in Publishers : PublishStep(p) \/ Crash(p)
         \/ \E m \in flight : Deliver(m) \/ Lose(m)
         \/ \E c \in Clients, a \in Apps : ReadProjection(c, a)
         \/ UNCHANGED vars
  PROVE  UNCHANGED <<row, marker>>
BY DEF RepairStep, RepairFails, BeginRepair, ListPage, EndPass, Visit, ListFails, VisitFails,
       PublishStep, PublishAccess, PublishIndex, Crash, Deliver, Lose, ReadProjection,
       storeVars, vars

LEMMA CommittedMeans ==
  ASSUME NEW a \in Apps, NEW r
  PROVE  /\ Committed(a, r) <=>
              /\ r.revision <= (IF marker[a] > 0 THEN marker[a] - 1 ELSE row[a].revision)
              /\ row[a] # NoRow /\ r.revision = row[a].revision => r = row[a]
         /\ Committed(a, r)' <=>
              /\ r.revision <= (IF marker'[a] > 0 THEN marker'[a] - 1 ELSE row'[a].revision)
              /\ row'[a] # NoRow /\ r.revision = row'[a].revision => r = row'[a]
BY DEF Committed, Reached, Live, Deleted

\* A write leaves every copy as good as it was.
LEMMA WritesKeepCommitted ==
  ASSUME TypeOK, OneLife, NEW c \in Clients, NEW a \in Apps, Writes(c, a)
  PROVE  /\ OneLife'
         /\ \A b \in Apps, r \in Row : Committed(b, r) => Committed(b, r)'
         /\ \A r : r = row'[a] => Committed(a, r)'
<1>0. /\ row \in [Apps -> Row] /\ marker \in [Apps -> Nat] /\ row[a] \in Row
      /\ row[a].revision \in Nat /\ marker[a] \in Nat /\ NoRow.revision = 0
  BY DEF TypeOK, Row, NoRow
<1>1. ASSUME NEW b \in Apps, b # a
      PROVE  row'[b] = row[b] /\ marker'[b] = marker[b]
  BY <1>0, <1>1 DEF Writes, Creates, Changes, Deletes
\* The row is written under a revision nobody has seen, or is removed.
<1>2. /\ row'[a] # NoRow => row'[a].revision > 0 /\ marker'[a] = 0
      /\ marker'[a] > 0 => row'[a] = NoRow /\ marker'[a] - 1 \in Nat
      /\ row'[a].revision \in Nat /\ marker'[a] \in Nat
      /\ \A r \in Row : Committed(a, r) => Committed(a, r)'
  <2>1. CASE Creates(c, a)
    <3>1. /\ row'[a] = NewRow /\ marker'[a] = 0 /\ row[a] = NoRow /\ marker[a] = 0
          /\ NewRow # NoRow /\ NewRow.revision = 1
      BY <1>0, <2>1 DEF Creates, NewRow, NoRow
    <3>2. \A r \in Row : Committed(a, r) => r.revision <= 0 /\ r.revision \in Nat
      BY <1>0, <3>1, CommittedMeans DEF Row
    <3>3. \A r \in Row : Committed(a, r) => Committed(a, r)'
      BY <3>1, <3>2, CommittedMeans
    <3> QED
      BY <3>1, <3>3
  <2>2. CASE Changes(c, a)
    <3>1. PICK to \in ApplicationStates : row'[a] = WithState(row[a], to)
      BY <1>0, <2>2 DEF Changes
    <3>2. /\ row'[a].revision = row[a].revision + 1 /\ row[a] # NoRow
          /\ marker'[a] = marker[a] /\ marker[a] = 0
      BY <1>0, <2>2, <3>1 DEF Changes, WithState, MayWrite, Live, OneLife
    <3>3. \A r \in Row : Committed(a, r) => r.revision <= row[a].revision /\ r.revision \in Nat
      BY <1>0, <3>2, CommittedMeans DEF Row
    <3>4. \A r \in Row : Committed(a, r) => Committed(a, r)'
      BY <1>0, <3>2, <3>3, CommittedMeans
    <3> QED
      BY <1>0, <3>2, <3>4
  <2>3. CASE Deletes(c, a)
    <3>1. /\ row'[a] = NoRow /\ row[a] # NoRow /\ marker[a] = 0
          /\ marker'[a] = row[a].revision + 1
      BY <1>0, <2>3 DEF Deletes, MayWrite, Live, OneLife
    <3>2. \A r \in Row : Committed(a, r) => Committed(a, r)'
      BY <1>0, <3>1, CommittedMeans DEF Row
    <3> QED
      BY <1>0, <3>1, <3>2
  <2> QED
    BY <2>1, <2>2, <2>3 DEF Writes
<1>3. OneLife'
  BY <1>1, <1>2 DEF OneLife
<1>4. \A b \in Apps, r \in Row : Committed(b, r) => Committed(b, r)'
  BY <1>1, <1>2, CommittedMeans
<1>5. ASSUME NEW r, r = row'[a]
      PROVE  Committed(a, r)'
  BY <1>0, <1>2, <1>5, CommittedMeans
<1> QED
  BY <1>3, <1>4, <1>5

\* Nothing is always a fair copy.
LEMMA NothingCommitted ==
  ASSUME TypeOK, OneLife, NEW a \in Apps
  PROVE  Committed(a, NoRow)
<1>1. row[a] \in Row /\ marker[a] \in Nat
  BY DEF TypeOK
<1> QED
  BY <1>1 DEF OneLife, Committed, Reached, Live, Deleted, NoRow, Row

\* The row is a fair copy of itself.
LEMMA RowCommitted ==
  ASSUME TypeOK, OneLife, NEW a \in Apps
  PROVE  Committed(a, row[a])
<1>1. row[a] \in Row /\ marker[a] \in Nat /\ NoRow.revision = 0
  BY DEF TypeOK, NoRow
<1> QED
  BY <1>1, CommittedMeans DEF OneLife, Row

\* What every other step makes of the copies: each new one is the row, nothing,
\* or taken from another holder's.
Spreads ==
  /\ UNCHANGED <<row, marker>>
  /\ \A b \in Apps : doc'[b] = doc[b] \/ \E m \in flight : m.app = b /\ doc'[b] = m.row
  /\ \A m \in flight' :
       \/ m \in flight
       \/ \E p \in Publishers : m.app = job[p].app /\ m.row = job[p].row
  /\ \A p \in Publishers :
       \/ job'[p].app = job[p].app /\ job'[p].row = job[p].row
       \/ job'[p].app \in Apps /\ job'[p].row \in {row[job'[p].app], NoRow}
  /\ \A c \in Clients :
       \/ seen'[c] = seen[c]
       \/ seen'[c].app \in Apps /\ seen'[c].row = doc[seen'[c].app]

LEMMA PublishSpreads ==
  ASSUME TypeOK, NEW p \in Publishers, PublishStep(p) \/ Crash(p)
  PROVE  Spreads
<1>0. job \in [Publishers -> Job] /\ job[p] \in Job
  BY DEF TypeOK
<1>1. UNCHANGED <<row, marker, doc, seen>>
  BY DEF PublishStep, PublishAccess, PublishIndex, Crash, storeVars, copyVars
<1>2. ASSUME NEW m \in flight'
      PROVE  m \in flight \/ (m.app = job[p].app /\ m.row = job[p].row)
  <2>1. \A subject : /\ MessageOf(subject, job[p]).app = job[p].app
                     /\ MessageOf(subject, job[p]).row = job[p].row
    BY DEF MessageOf
  <2>2. m \in flight \/ \E subject : m = MessageOf(subject, job[p])
    BY <1>2 DEF PublishStep, PublishAccess, PublishIndex, Crash, copyVars, Send, SendFails
  <2> QED
    BY <2>1, <2>2
<1>3. \/ \E b \in BOOLEAN : job' = [job EXCEPT ![p].step = "index", ![p].failed = b]
      \/ job' = [job EXCEPT ![p].step = "index"]
      \/ job' = [job EXCEPT ![p] = NoJob]
  BY DEF PublishStep, PublishAccess, PublishIndex, Crash
<1>4. 1 \in Apps
  BY ApplicationsAssumption DEF Apps
<1>5. ASSUME NEW q \in Publishers
      PROVE  \/ job'[q].app = job[q].app /\ job'[q].row = job[q].row
             \/ job'[q].app \in Apps /\ job'[q].row = NoRow
  BY <1>0, <1>3, <1>4 DEF Job, NoJob
<1> QED
  BY <1>1, <1>2, <1>5 DEF Spreads

LEMMA RepairSpreads ==
  ASSUME TypeOK, NEW r \in Repairers, RepairStep(r) \/ RepairFails(r)
  PROVE  Spreads
<1>0. job \in [Publishers -> Job] /\ r \in Publishers
  BY DEF TypeOK, Publishers
<1>1. UNCHANGED <<row, marker, doc, seen, flight>>
  BY DEF RepairStep, RepairFails, BeginRepair, ListPage, EndPass, Visit, ListFails, VisitFails,
         storeVars, copyVars
<1>2. \/ job' = job
      \/ \E a \in Apps : \E new \in {row[a], NoRow} : job' = [job EXCEPT ![r] = Publication(a, new)]
  <2>1. ASSUME NEW a \in Apps, Visit(r, a)
        PROVE  \/ job' = job
               \/ \E new \in {row[a], NoRow} : job' = [job EXCEPT ![r] = Publication(a, new)]
    BY <2>1 DEF Visit
  <2> QED
    BY <2>1 DEF RepairStep, RepairFails, BeginRepair, ListPage, EndPass, ListFails, VisitFails
<1>3. ASSUME NEW p \in Publishers
      PROVE  \/ job'[p] = job[p]
             \/ job'[p].app \in Apps /\ job'[p].row \in {row[job'[p].app], NoRow}
  BY <1>0, <1>2 DEF Publication
<1> QED
  BY <1>1, <1>3 DEF Spreads

LEMMA DeliverySpreads ==
  ASSUME TypeOK, NEW m \in flight, Deliver(m) \/ Lose(m)
  PROVE  Spreads
<1>1. doc \in [Apps -> Row] /\ flight' \subseteq flight /\ UNCHANGED <<row, marker, seen, job>>
  BY DEF TypeOK, Deliver, Lose, storeVars
<1>2. doc' = doc \/ doc' = [doc EXCEPT ![m.app] = m.row]
  BY DEF Deliver, Lose
<1>3. \A b \in Apps : doc'[b] = doc[b] \/ (m.app = b /\ doc'[b] = m.row)
  BY <1>1, <1>2
<1> QED
  BY <1>1, <1>3 DEF Spreads

LEMMA ReadSpreads ==
  ASSUME TypeOK, NEW c \in Clients, NEW a \in Apps, ReadProjection(c, a)
  PROVE  Spreads
BY DEF ReadProjection, Spreads, TypeOK, storeVars, copyVars

LEMMA StepsSpread ==
  ASSUME TypeOK, [Next]_vars
  PROVE  Spreads \/ \E c \in Clients, a \in Apps : Writes(c, a)
<1>1. CASE UNCHANGED vars
  BY <1>1 DEF vars, Spreads
<1> QED
  BY <1>1, ClientWrites, ReadSpreads, PublishSpreads, RepairSpreads, DeliverySpreads DEF Next

LEMMA CopiesCommittedStep ==
  ASSUME TypeOK, OneLife, CopiesCommitted, [Next]_vars
  PROVE  OneLife' /\ CopiesCommitted'
<1> USE DEF CopiesCommitted
<1>0. /\ flight \subseteq Message /\ job \in [Publishers -> Job] /\ doc \in [Apps -> Row]
      /\ seen \in [Clients -> [app : Apps, row : Row]] /\ 1 \in Apps /\ NoRow \in Row
  BY RecordsTyped, ApplicationsAssumption DEF TypeOK, Apps
<1>1. ASSUME NEW c \in Clients, NEW a \in Apps, Writes(c, a)
      PROVE  OneLife' /\ CopiesCommitted'
  <2>1. PICK new : new = row'[a]
    OBVIOUS
  <2>2. /\ OneLife'
        /\ \A b \in Apps, r \in Row : Committed(b, r) => Committed(b, r)'
        /\ Committed(a, new)'
    BY <1>1, <2>1, WritesKeepCommitted
  <2>3. Committed(1, NoRow)'
    BY <1>0, <2>2, NothingCommitted
  <2>4. ASSUME NEW p \in Publishers
        PROVE  Committed(job[p].app, job[p].row)'
    <3>1. PICK j : j = job'[p]
      OBVIOUS
    <3>2. \/ j = job[p] /\ j.app \in Apps /\ j.row \in Row
          \/ j.app = a /\ j.row = new
      BY <1>0, <1>1, <2>1, <3>1 DEF Writes, Holds, Publication, Job
    <3>3. Committed(j.app, j.row)'
      BY <2>2, <3>2
    <3> QED
      BY <3>1, <3>3 DEF Committed, Reached, Live, Deleted
  <2>5. ASSUME NEW d \in Clients
        PROVE  Committed(seen[d].app, seen[d].row)'
    <3>1. PICK s : s = seen'[d]
      OBVIOUS
    <3>2. \/ s = seen[d] /\ s.app \in Apps /\ s.row \in Row
          \/ s.app = a /\ s.row = new
          \/ s.app = 1 /\ s.row = NoRow
      BY <1>0, <1>1, <2>1, <3>1 DEF Writes, Holds, Unseen
    <3>3. Committed(s.app, s.row)'
      BY <2>2, <2>3, <3>2
    <3> QED
      BY <3>1, <3>3 DEF Committed, Reached, Live, Deleted
  <2>6. UNCHANGED <<flight, doc>>
    BY <1>1 DEF Writes, copyVars
  <2>7. \A m \in flight : m.app \in Apps /\ m.row \in Row
    BY <1>0 DEF Message
  <2>8. \A m \in flight : Committed(m.app, m.row)'
    BY <2>2, <2>7
  <2>9. ASSUME NEW b \in Apps
        PROVE  Committed(b, doc[b])'
    <3>1. PICK r \in Row : r = doc[b]
      BY <1>0
    <3>2. Committed(b, r)'
      BY <2>2, <3>1
    <3> QED
      BY <2>6, <3>1, <3>2 DEF Committed, Reached, Live, Deleted
  <2> QED
    BY <2>2, <2>4, <2>5, <2>6, <2>8, <2>9
<1>2. ASSUME Spreads
      PROVE  OneLife' /\ CopiesCommitted'
  <2>1. UNCHANGED <<row, marker>>
    BY <1>2 DEF Spreads
  <2>2. \A b, r : Committed(b, r)' <=> Committed(b, r)
    BY <2>1 DEF Committed, Reached, Live, Deleted
  <2>3. OneLife'
    BY <2>1 DEF OneLife
  <2>4. ASSUME NEW b \in Apps
        PROVE  Committed(b, doc'[b])
    BY <1>2 DEF Spreads
  <2>5. ASSUME NEW m \in flight'
        PROVE  Committed(m.app, m.row)
    BY <1>2 DEF Spreads
  <2>6. ASSUME NEW p \in Publishers
        PROVE  Committed(job'[p].app, job'[p].row)
    BY <1>2, NothingCommitted, RowCommitted DEF Spreads
  <2>7. ASSUME NEW c \in Clients
        PROVE  Committed(seen'[c].app, seen'[c].row)
    BY <1>2 DEF Spreads
  <2> QED
    BY <2>1, <2>3, <2>4, <2>5, <2>6, <2>7 DEF Committed, Reached, Live, Deleted
<1> QED
  BY <1>1, <1>2, StepsSpread

LEMMA CopiesCommittedHold == Spec => [](TypeOK /\ OneLife /\ CopiesCommitted)
<1>1. Init => OneLife /\ CopiesCommitted
  <2>1. ASSUME Init, NEW a \in Apps
        PROVE  Committed(a, NoRow)
    BY <2>1, CommittedMeans DEF Init, NoRow
  <2>2. 1 \in Apps
    BY ApplicationsAssumption DEF Apps
  <2> QED
    BY <2>1, <2>2 DEF Init, OneLife, CopiesCommitted, NoJob, Unseen
<1> QED
  BY <1>1, CopiesCommittedStep, ApplicationsTyped, PTL DEF Spec

\* Nothing anybody holds of an application was ever not its row: late, repeated
\* and reordered copies are old revisions, so a revision is a safe If-Match
\* wherever it was read (publication after the commit, mutateApplication).
THEOREM CopiesWereCommittedHolds == Spec => []CopiesWereCommitted
<1>1. ASSUME TypeOK, CopiesCommitted
      PROVE  CopiesWereCommitted
  <2>1. ASSUME NEW a \in Apps, NEW r \in Copies(a)
        PROVE  Committed(a, r)
    <3>1. \/ r = doc[a]
          \/ \E m \in flight : m.app = a /\ r = m.row
          \/ \E p \in Publishers : job[p].app = a /\ r = job[p].row
          \/ \E c \in Clients : seen[c].app = a /\ r = seen[c].row
      BY <2>1 DEF Copies
    <3> QED
      BY <1>1, <3>1 DEF CopiesCommitted
  <2> QED
    BY <2>1 DEF CopiesWereCommitted, Committed
<1> QED
  BY <1>1, CopiesCommittedHold, PTL

\* Whoever changes or deletes an application had that very row in view: a
\* client's revision is the row's only if the client's copy is the row
\* (mutateApplication and DeleteApplication).
THEOREM DecidedOnCurrentRowHolds == Spec => DecidedOnCurrentRow
<1> DEFINE Decided ==
      \A c \in Clients, a \in Apps :
        a \in Live /\ row'[a] # row[a] /\ Idle(c) /\ job'[c].step = "access"
          => seen[c] = [app |-> a, row |-> row[a]]
<1>1. ASSUME TypeOK, OneLife, CopiesCommitted, [Next]_vars
      PROVE  Decided
  <2> SUFFICES ASSUME NEW c \in Clients, NEW a \in Apps, a \in Live, row'[a] # row[a],
                      Idle(c), job'[c].step = "access"
               PROVE  seen[c] = [app |-> a, row |-> row[a]]
    OBVIOUS
  <2>0. /\ row \in [Apps -> Row] /\ job \in [Publishers -> Job] /\ c \in Publishers
        /\ seen[c] \in [app : Apps, row : Row]
    BY <1>1 DEF TypeOK, Publishers
  <2>1. PICK d \in Clients, b \in Apps : Writes(d, b)
    BY <1>1, StepsSpread DEF Spreads
  <2>2. b = a
    BY <2>0, <2>1 DEF Writes, Creates, Changes, Deletes
  <2>3. d = c
    BY <2>0, <2>1 DEF Writes, Holds, Idle
  <2>4. MayWrite(c, a)
    BY <2>1, <2>2, <2>3 DEF Writes, Creates, Changes, Deletes, Live
  <2>5. seen[c].app = a /\ seen[c].row = row[a]
    BY <1>1, <2>4 DEF MayWrite, CopiesCommitted, Committed
  <2> QED
    BY <2>0, <2>5
<1>2. Spec => [][Decided]_vars
  BY <1>1, CopiesCommittedHold, PTL DEF Spec
<1> QED
  BY <1>2 DEF DecidedOnCurrentRow
-----------------------------------------------------------------------------
(* The repair lane's pages leave nobody out.                               *)

Below(rows, after, a) == {b \in rows : after < b /\ b < a}

LEMMA PageMeans ==
  ASSUME NEW rows, NEW after, NEW a
  PROVE  a \in PageAfter(rows, after) <=>
           a \in rows /\ a > after /\ Cardinality(Below(rows, after, a)) < PageSize
BY DEF PageAfter, Below

\* Of two identifiers the lower has no more before it.
LEMMA FewerBelow ==
  ASSUME NEW rows \in SUBSET Apps, NEW after \in Nat, NEW T \in SUBSET Apps,
         NEW a, Below(rows, after, a) \subseteq T
  PROVE  /\ Cardinality(Below(rows, after, a)) \in Nat
         /\ Cardinality(T) \in Nat
         /\ Cardinality(Below(rows, after, a)) <= Cardinality(T)
<1>1. IsFiniteSet(Apps)
  BY FS_Interval, ApplicationsAssumption DEF Apps
<1>2. IsFiniteSet(T)
  BY <1>1, FS_Subset
<1> QED
  BY <1>2, FS_Subset, FS_CardinalityType

\* A short page holds everything that is left.
LEMMA LastPageIsWhole ==
  ASSUME NEW rows \in SUBSET Apps, NEW after \in Nat, IsLast(PageAfter(rows, after)),
         NEW a \in rows, a > after
  PROVE  a \in PageAfter(rows, after)
<1> DEFINE page == PageAfter(rows, after)
           Missed == {b \in rows : b > after /\ b \notin page}
<1>1. page \in SUBSET Apps /\ rows \subseteq Nat /\ Missed \in SUBSET Nat
  <2>1. page \subseteq rows
    BY PageWithin
  <2>2. Apps \subseteq Nat
    BY DEF Apps
  <2> QED
    BY <2>1, <2>2
<1>2. ASSUME Missed # {}
      PROVE  FALSE
  <2>1. PICK x \in Missed : \A y \in Missed : x <= y
    <3> HIDE DEF Missed
    <3> QED
      BY <1>1, <1>2, LeastExists
  <2>2. x \in rows /\ x > after /\ x \notin page
    BY <2>1
  <2>3. Below(rows, after, x) \subseteq page
    <3>1. ASSUME NEW b \in Below(rows, after, x), b \notin page
          PROVE  FALSE
      <4>1. b \in rows /\ b > after /\ b < x /\ b \in Nat /\ x \in Nat
        BY <1>1, <2>2, <3>1 DEF Below
      <4>2. b \in Missed
        BY <3>1, <4>1
      <4> HIDE DEF Missed
      <4> QED
        BY <2>1, <4>1, <4>2
    <3> QED
      BY <3>1
  <2> HIDE DEF page
  <2>4. Cardinality(Below(rows, after, x)) < PageSize
    <3>1. Cardinality(page) < PageSize
      BY DEF IsLast, page
    <3> QED
      BY <1>1, <2>3, <3>1, FewerBelow, ApplicationsAssumption
  <2> QED
    BY <2>2, <2>4, PageMeans DEF page
<1> QED
  BY <1>2

\* A full page leaves only what comes after its last identifier.
LEMMA FullPageIsPrefix ==
  ASSUME NEW rows \in SUBSET Apps, NEW after \in Nat, PageAfter(rows, after) # {},
         NEW a \in rows, a > after
  PROVE  a \in PageAfter(rows, after) \/ a > Max(PageAfter(rows, after))
<1> DEFINE page == PageAfter(rows, after)
           last == Max(page)
<1>1. page \in SUBSET Apps /\ last \in page /\ last \in rows /\ rows \subseteq Nat
  <2>1. page \subseteq rows /\ page # {}
    BY PageWithin
  <2>2. Apps \subseteq Nat
    BY DEF Apps
  <2> HIDE DEF page
  <2>3. last \in page
    BY <2>1, MaxOfPage
  <2> QED
    BY <2>1, <2>2, <2>3
<1> HIDE DEF last
<1>3. a \in Nat /\ last \in Nat
  BY <1>1
<1>2. CASE a < last
  <2>1. Below(rows, after, a) \subseteq Below(rows, after, last)
    <3>1. ASSUME NEW b \in Below(rows, after, a)
          PROVE  b \in Below(rows, after, last)
      <4>1. b \in rows /\ after < b /\ b < a
        BY DEF Below
      <4>2. b \in Nat
        BY <1>1, <4>1
      <4>3. b < last
        BY <1>2, <1>3, <4>1, <4>2
      <4> QED
        BY <4>1, <4>3 DEF Below
    <3> QED
      BY <3>1
  <2>2. Below(rows, after, last) \in SUBSET Apps
    BY DEF Below
  <2>3. Cardinality(Below(rows, after, last)) < PageSize
    BY <1>1, PageMeans
  <2>4. Cardinality(Below(rows, after, a)) < PageSize
    BY <2>1, <2>2, <2>3, FewerBelow, ApplicationsAssumption
  <2> QED
    BY <2>4, PageMeans
<1> QED
  BY <1>1, <1>2, <1>3 DEF last
-----------------------------------------------------------------------------
(* A sweep's account: what it owes, it has still to visit.                 *)

StillToVisit(s, j, a) ==
  \/ a \in s.page
  \/ s.more /\ a > s.after
  \/ j.step # "none" /\ j.app = a

\* A sweep publishes live rows in its live pass and removals in the other; it
\* owes nothing of an application that never was; and while nothing failed it
\* has still to visit whatever it owes, or the row is gone and owed as deleted.
Accounts(s, j) ==
  /\ j.step # "none" => s.pass \in {"live", "deleted"} /\ Kind(j.row) = s.pass
  /\ \A a \in Apps : /\ <<"live", a>> \in s.owed => a \in Live \cup Deleted
                     /\ <<"deleted", a>> \in s.owed => a \in Deleted
  /\ s.pass # "idle" /\ ~s.failed => \A a \in Apps :
       /\ <<"live", a>> \in s.owed /\ a \in Live => s.pass = "live" /\ StillToVisit(s, j, a)
       /\ <<"deleted", a>> \in s.owed =>
            s.pass = "live" \/ (s.pass = "deleted" /\ StillToVisit(s, j, a))

SweepsAccount == \A r \in Repairers : Accounts(sweep[r], job[r])

\* Nobody's write is of a row a sweep owes: uuids are not used again.
LEMMA OthersKeepAccounts ==
  ASSUME NEW s, NEW j, Accounts(s, j),
         Deleted \subseteq Deleted', Live \subseteq Live' \cup Deleted',
         Live' \cap (Live \cup Deleted) \subseteq Live
  PROVE  Accounts(s, j)'
<1>1. \A a : StillToVisit(s, j, a)' <=> StillToVisit(s, j, a)
  BY DEF StillToVisit
<1>2. Kind(j.row)' = Kind(j.row)
  BY DEF Kind
<1> QED
  BY <1>1, <1>2 DEF Accounts

LEMMA RepairAccounts ==
  ASSUME TypeOK, NEW r \in Repairers, Accounts(sweep[r], job[r]), RepairStep(r) \/ RepairFails(r)
  PROVE  Accounts(sweep'[r], job'[r])
<1> PICK s \in Sweep, j \in Job : s = sweep[r] /\ j = job[r]
  BY DEF TypeOK, Publishers
<1> PICK t, i : t = sweep'[r] /\ i = job'[r]
  OBVIOUS
<1>0. Accounts(s, j) /\ (Idle(r) <=> j.step = "none") /\ sweep \in [Repairers -> Sweep]
      /\ job \in [Publishers -> Job] /\ r \in Publishers
  BY DEF Idle, TypeOK, Publishers
<1> SUFFICES Accounts(t, i)
  OBVIOUS
<1>1. CASE BeginRepair(r)
  <2>1. /\ t.pass = "live" /\ t.more = TRUE /\ t.after = 0 /\ t.failed = FALSE /\ t.page = {}
        /\ t.owed = {<<"live", a>> : a \in Live} \cup {<<"deleted", a>> : a \in Deleted}
        /\ i = j /\ s.pass \in {"idle", "finished"}
    BY <1>0, <1>1 DEF BeginRepair, NoSweep
  <2>2. j.step = "none"
    BY <1>0, <2>1 DEF Accounts
  <2>3. \A a \in Apps : a > 0 /\ (<<"live", a>> \in t.owed => a \in Live)
                              /\ (<<"deleted", a>> \in t.owed => a \in Deleted)
    BY <2>1 DEF Apps
  <2> QED
    BY <2>1, <2>2, <2>3 DEF Accounts, StillToVisit
<1>2. CASE ListPage(r)
  <2> DEFINE page == PageAfter(Rows(s.pass), s.after)
  <2>1. /\ s.pass \in {"live", "deleted"} /\ j.step = "none" /\ s.page = {} /\ s.more /\ i = j
        /\ sweep' = [sweep EXCEPT ![r].page = page, ![r].more = ~IsLast(page),
                                  ![r].after = IF IsLast(page) THEN @ ELSE Max(page)]
    BY <1>0, <1>2, Zenon DEF ListPage, Working
  <2>2. Rows(s.pass) \in SUBSET Apps /\ s.after \in Nat
    BY ApplicationsAssumption DEF Rows, Live, Deleted, Sweep
  <2>3. ASSUME NEW a \in Rows(s.pass), a > s.after
        PROVE  a \in page \/ (~IsLast(page) /\ a > Max(page))
    <3>1. CASE IsLast(page)
      BY <2>2, <2>3, <3>1, LastPageIsWhole
    <3>2. CASE ~IsLast(page)
      <4>1. page # {}
        BY <3>2, FS_EmptySet, ApplicationsAssumption DEF IsLast
      <4> QED
        BY <2>2, <2>3, <3>2, <4>1, FullPageIsPrefix
    <3> QED
      BY <3>1, <3>2
  <2> HIDE DEF page
  <2>4. /\ t.pass = s.pass /\ t.owed = s.owed /\ t.failed = s.failed /\ t.page = page
        /\ t.more = ~IsLast(page) /\ (~IsLast(page) => t.after = Max(page))
    BY <1>0, <2>1
  <2>5. ASSUME NEW a \in Rows(s.pass), StillToVisit(s, j, a)
        PROVE  StillToVisit(t, i, a)
    BY <2>1, <2>3, <2>4, <2>5 DEF StillToVisit
  <2> QED
    BY <1>0, <2>1, <2>4, <2>5 DEF Accounts, Rows
<1>3. CASE EndPass(r)
  <2>1. /\ s.pass \in {"live", "deleted"} /\ j.step = "none" /\ s.page = {} /\ ~s.more /\ i = j
        /\ sweep' = [sweep EXCEPT ![r].pass = NextPass(@), ![r].after = 0,
                                  ![r].more = NextPass(sweep[r].pass) # "finished"]
    BY <1>0, <1>3 DEF EndPass, Working
  <2>2. /\ t.pass = (IF s.pass = "live" THEN "deleted" ELSE "finished")
        /\ t.more = (s.pass = "live") /\ t.after = 0
        /\ t.owed = s.owed /\ t.failed = s.failed
    <3>1. /\ t.pass = NextPass(s.pass) /\ t.more = (NextPass(s.pass) # "finished")
          /\ t.after = 0 /\ t.owed = s.owed /\ t.failed = s.failed
      BY <1>0, <2>1
    <3> QED
      BY <2>1, <3>1 DEF NextPass
  <2>3. ASSUME NEW a \in Apps
        PROVE  ~StillToVisit(s, j, a) /\ (s.pass = "live" => StillToVisit(t, i, a))
    <3>1. a > 0
      BY DEF Apps
    <3>2. ~StillToVisit(s, j, a)
      BY <2>1 DEF StillToVisit
    <3>3. ASSUME s.pass = "live"
          PROVE  t.more /\ a > t.after
      BY <2>2, <3>1, <3>3
    <3> QED
      BY <3>2, <3>3 DEF StillToVisit
  <2> QED
    BY <1>0, <2>1, <2>2, <2>3 DEF Accounts
<1>4. ASSUME NEW a \in Apps, Visit(r, a)
      PROVE  Accounts(t, i)
  <2>1. /\ s.pass \in {"live", "deleted"} /\ j.step = "none"
        /\ t = [s EXCEPT !.page = s.page \ {a}]
    BY <1>0, <1>4 DEF Visit, Working
  <2>2. /\ t.pass = s.pass /\ t.owed = s.owed /\ t.failed = s.failed /\ t.page = s.page \ {a}
        /\ t.more = s.more /\ t.after = s.after
    BY <2>1 DEF Sweep
  <2>3. CASE s.pass = "deleted" \/ a \in Live
    <3>1. i.step # "none" /\ i.app = a
          /\ i.row = (IF s.pass = "live" THEN row[a] ELSE NoRow)
      BY <1>0, <1>4, <2>3 DEF Visit, Publication
    <3>2. Kind(i.row) = s.pass
      BY <2>1, <2>3, <3>1 DEF Kind, Live
    <3>3. \A b \in Apps : StillToVisit(s, j, b) => StillToVisit(t, i, b)
      BY <2>1, <2>2, <3>1 DEF StillToVisit
    <3> QED
      BY <1>0, <2>1, <2>2, <3>2, <3>3 DEF Accounts
  <2>4. CASE s.pass = "live" /\ a \notin Live
    <3>1. i = j
      BY <1>4, <2>4 DEF Visit
    <3>2. \A b \in Apps : b # a /\ StillToVisit(s, j, b) => StillToVisit(t, i, b)
      BY <2>1, <2>2, <3>1 DEF StillToVisit
    <3> QED
      BY <1>0, <2>1, <2>2, <2>4, <3>1, <3>2 DEF Accounts
  <2> QED
    BY <2>1, <2>3, <2>4
<1>5. CASE RepairFails(r)
  <2>1. t.failed = TRUE /\ t.pass = s.pass /\ t.owed = s.owed /\ i = j
    <3>1. CASE ListFails(r)
      BY <1>0, <3>1 DEF ListFails, Sweep
    <3>2. ASSUME NEW a \in Apps, VisitFails(r, a)
          PROVE  t.failed = TRUE /\ t.pass = s.pass /\ t.owed = s.owed /\ i = j
      BY <1>0, <3>2 DEF VisitFails, Sweep
    <3> QED
      BY <1>5, <3>1, <3>2 DEF RepairFails
  <2> QED
    BY <1>0, <2>1 DEF Accounts
<1> QED
  BY <1>1, <1>2, <1>3, <1>4, <1>5 DEF RepairStep

LEMMA PublishAccounts ==
  ASSUME TypeOK, NEW r \in Repairers, Accounts(sweep[r], job[r]), PublishStep(r) \/ Crash(r)
  PROVE  Accounts(sweep'[r], job'[r])
<1> PICK s \in Sweep, j \in Job : s = sweep[r] /\ j = job[r]
  BY DEF TypeOK, Publishers
<1> PICK t, i : t = sweep'[r] /\ i = job'[r]
  OBVIOUS
<1>0. Accounts(s, j) /\ sweep \in [Repairers -> Sweep] /\ job \in [Publishers -> Job] /\ r \in Publishers
  BY DEF TypeOK, Publishers
<1> SUFFICES Accounts(t, i)
  OBVIOUS
<1>1. CASE PublishAccess(r)
  <2>1. t = s /\ i.app = j.app /\ i.row = j.row /\ j.step # "none"
    <3>1. /\ sweep' = sweep /\ job[r].step = "access"
          /\ \/ job' = [job EXCEPT ![r].step = "index"]
             \/ job' = [job EXCEPT ![r].step = "index", ![r].failed = TRUE]
      BY <1>1, Zenon DEF PublishAccess
    <3> QED
      BY <1>0, <3>1 DEF Job
  <2>2. \A a : StillToVisit(s, j, a) => StillToVisit(t, i, a)
    <3>1. i.step = "index"
      BY <1>0, <1>1 DEF PublishAccess, Job
    <3> QED
      BY <2>1, <3>1 DEF StillToVisit
  <2> QED
    BY <1>0, <2>1, <2>2 DEF Accounts
<1>2. CASE PublishIndex(r)
  <2>1. PICK failed \in BOOLEAN : t = Settle(s, j, failed)
    <3>1. PICK sent \in BOOLEAN :
            sweep' = [sweep EXCEPT ![r] = Settle(sweep[r], j, j.failed \/ ~sent)]
      BY <1>2 DEF PublishIndex
    <3>2. (j.failed \/ ~sent) \in BOOLEAN
      OBVIOUS
    <3> QED
      BY <1>0, <3>1, <3>2
  <2>2. i.step = "none" /\ j.step # "none"
    BY <1>0, <1>2 DEF PublishIndex, NoJob
  <2>3. /\ t.pass = s.pass /\ t.page = s.page /\ t.more = s.more /\ t.after = s.after
        /\ t.failed = (s.failed \/ failed)
        /\ t.owed = (IF failed THEN s.owed ELSE s.owed \ {<<Kind(j.row), j.app>>})
                     \cup (IF j.row # NoRow /\ j.app \in Deleted
                             THEN {<<"deleted", j.app>>} ELSE {})
    BY <2>1 DEF Settle, Sweep
  <2>4. s.pass \in {"live", "deleted"} /\ Kind(j.row) = s.pass
    BY <1>0, <2>2 DEF Accounts
  <2>5. ASSUME NEW a \in Apps
        PROVE  /\ <<"live", a>> \in t.owed =>
                    <<"live", a>> \in s.owed /\ (~failed /\ s.pass = "live" => a # j.app)
               /\ <<"deleted", a>> \in t.owed =>
                    \/ s.pass = "live" /\ a \in Deleted
                    \/ <<"deleted", a>> \in s.owed /\ (~failed /\ s.pass = "deleted" => a # j.app)
    BY <2>3, <2>4 DEF Kind
  <2>6. \A a : a # j.app /\ StillToVisit(s, j, a) => StillToVisit(t, i, a)
    BY <2>3 DEF StillToVisit
  <2>7. s.failed \in BOOLEAN
    BY DEF Sweep
  <2> QED
    BY <1>0, <2>2, <2>3, <2>4, <2>5, <2>6, <2>7 DEF Accounts
<1>3. CASE Crash(r)
  <2>1. t = NoSweep /\ i = NoJob
    BY <1>0, <1>3 DEF Crash
  <2> QED
    BY <2>1 DEF Accounts, NoSweep, NoJob
<1> QED
  BY <1>1, <1>2, <1>3 DEF PublishStep

LEMMA SweepsAccountStep ==
  ASSUME TypeOK, OneLife, SweepsAccount, [Next]_vars
  PROVE  SweepsAccount'
<1> SUFFICES ASSUME NEW r \in Repairers
             PROVE  Accounts(sweep[r], job[r])'
  BY DEF SweepsAccount
<1> PICK s, j : s = sweep[r] /\ j = job[r]
  OBVIOUS
<1> PICK t, i : t = sweep'[r] /\ i = job'[r]
  OBVIOUS
<1>0. /\ Accounts(s, j) /\ sweep \in [Repairers -> Sweep] /\ job \in [Publishers -> Job]
      /\ row \in [Apps -> Row] /\ marker \in [Apps -> Nat]
  BY DEF SweepsAccount, TypeOK
<1>1. CASE \E c \in Clients, a \in Apps : Writes(c, a)
  <2>1. PICK c \in Clients, a \in Apps : Writes(c, a)
    BY <1>1
  <2>2. c # r
    BY ApplicationsAssumption
  <2>3. t = s /\ i = j
    BY <1>0, <2>1, <2>2 DEF Writes, Holds
  <2>4. /\ Deleted \subseteq Deleted' /\ Live \subseteq Live' \cup Deleted'
        /\ Live' \cap (Live \cup Deleted) \subseteq Live
    <3>1. \A b \in Apps : b # a => row'[b] = row[b] /\ marker'[b] = marker[b]
      BY <1>0, <2>1 DEF Writes, Creates, Changes, Deletes
    <3>2. CASE Creates(c, a)
      <4>1. marker'[a] = 0 /\ row[a] = NoRow /\ marker[a] = 0 /\ row'[a] # NoRow
        BY <1>0, <3>2 DEF Creates, NewRow, NoRow
      <4> QED
        BY <3>1, <4>1 DEF Live, Deleted
    <3>3. CASE Changes(c, a)
      <4>1. row[a] # NoRow /\ marker'[a] = marker[a]
        BY <1>0, <3>3 DEF Changes, MayWrite, Live
      <4>2. row'[a] # NoRow
        <5>1. PICK to : row'[a] = WithState(row[a], to)
          BY <1>0, <3>3 DEF Changes
        <5> QED
          BY <1>0, <5>1 DEF WithState, NoRow, Row
      <4> QED
        BY <3>1, <4>1, <4>2 DEF Live, Deleted
    <3>4. CASE Deletes(c, a)
      <4>1. /\ row[a] # NoRow /\ row'[a] = NoRow /\ marker'[a] = row[a].revision + 1
            /\ row[a].revision \in Nat
        BY <1>0, <3>4 DEF Deletes, MayWrite, Live, Row
      <4> QED
        BY <3>1, <4>1 DEF Live, Deleted
    <3> QED
      BY <2>1, <3>2, <3>3, <3>4 DEF Writes
  <2>5. Accounts(s, j)'
    BY <1>0, <2>4, OthersKeepAccounts
  <2>6. Accounts(t, i)'
    BY <2>3, <2>5
  <2> QED
    BY <2>6 DEF Accounts, StillToVisit, Kind, Live, Deleted
<1>2. ASSUME UNCHANGED <<row, marker>>, Accounts(t, i)
      PROVE  Accounts(sweep[r], job[r])'
  BY <1>2 DEF Accounts, StillToVisit, Kind, Live, Deleted
<1>3. CASE RepairStep(r) \/ RepairFails(r)
  BY <1>0, <1>2, <1>3, RepairAccounts, OthersKeepRows
<1>4. CASE PublishStep(r) \/ Crash(r)
  <2>1. r \in Publishers
    BY DEF Publishers
  <2> QED
    BY <1>0, <1>2, <1>4, <2>1, PublishAccounts, OthersKeepRows
<1>5. ASSUME sweep'[r] = sweep[r], job'[r] = job[r], UNCHANGED <<row, marker>>
      PROVE  Accounts(sweep[r], job[r])'
  BY <1>0, <1>2, <1>5
<1>6. ASSUME NEW q \in Repairers, q # r, RepairStep(q) \/ RepairFails(q)
      PROVE  sweep'[r] = sweep[r] /\ job'[r] = job[r]
  BY <1>0, <1>6 DEF RepairStep, RepairFails, BeginRepair, ListPage, EndPass, Visit, ListFails,
       VisitFails, Publishers
<1>7. ASSUME NEW q \in Publishers, q # r, PublishStep(q) \/ Crash(q)
      PROVE  sweep'[r] = sweep[r] /\ job'[r] = job[r]
  BY <1>0, <1>7 DEF PublishStep, PublishAccess, PublishIndex, Crash, Publishers
<1>8. ASSUME \/ \E m \in flight : Deliver(m) \/ Lose(m)
             \/ \E c \in Clients, a \in Apps : ReadProjection(c, a)
             \/ UNCHANGED vars
      PROVE  sweep'[r] = sweep[r] /\ job'[r] = job[r]
  BY <1>8 DEF Deliver, Lose, ReadProjection, vars
<1> QED
  BY <1>1, <1>3, <1>4, <1>5, <1>6, <1>7, <1>8, ClientWrites, OthersKeepRows DEF Next

\* A sweep that reports no failure has settled every application it owed, or
\* the application was deleted under it and left for the next sweep's removal
\* (RepairApplications: its pages, its second reads and its two passes).
THEOREM SweepPaysWhatItOwesHolds == Spec => []SweepPaysWhatItOwes
<1>1. Init => SweepsAccount
  BY DEF Init, SweepsAccount, Accounts, NoSweep, NoJob, Publishers
<1>2. ASSUME TypeOK, SweepsAccount
      PROVE  SweepPaysWhatItOwes
  <2> SUFFICES ASSUME NEW r \in Repairers, sweep[r].pass = "finished", ~sweep[r].failed,
                      NEW d \in sweep[r].owed
               PROVE  d[1] = "live" /\ d[2] \notin Live
    BY DEF SweepPaysWhatItOwes
  <2>1. PICK k \in {"live", "deleted"}, a \in Apps : d = <<k, a>>
    BY <1>2 DEF TypeOK, Sweep, Duty
  <2> QED
    BY <1>2, <2>1 DEF SweepsAccount, Accounts
<1> QED
  BY <1>1, <1>2, SweepsAccountStep, CopiesCommittedHold, PTL DEF Spec
=============================================================================
