------------------------------ MODULE QueueRow ------------------------------
(***************************************************************************)
(* The queue documents of one project: the checklist row, scoped to the    *)
(* chain of projects above it, and its item documents, as the projector    *)
(* publishes them from every sweep and after every item write              *)
(* (internal/service/projection.go, refresher.go). Several passes of       *)
(* several replicas read, climb the parentage over NATS and publish; what  *)
(* they sent arrives in any order, some of it after its pass is over.      *)
(***************************************************************************)
EXTENDS Integers, Sequences, FiniteSets, SequencesExt

CONSTANTS
  Height,            \* bound: projects above the one in formation
  Sweepers,          \* replicas, one sweep at a time each
  Refreshes,         \* background refreshes the item writes may have running
  MaxAncestorDepth,  \* maxAncestorDepth
  MaxWrites,         \* bound: item writes and lifecycle moves
  MaxFlight,         \* bound: messages NATS holds undelivered at once
  MaxFaults          \* bound: failed statements, failed or lost messages, cancelled passes

ASSUME QueueRowAssumption ==
  /\ Height \in Nat /\ MaxAncestorDepth \in Nat
  /\ MaxWrites \in Nat /\ MaxFlight \in Nat \ {0} /\ MaxFaults \in Nat
  /\ Sweepers \cap Refreshes = {}

\* The project in formation is 0; the ones above it are numbered in the order a
\* walk meets them.
Projects == 0..Height
NoParent == -1
Passes == Sweepers \cup Refreshes

VARIABLES
  parent,    \* [Projects -> Projects or NoParent]: the project service's tree
  exists,    \* the projects it still holds
  outage,    \* whether it may fail to answer at any time
  version,   \* of the checklist and its items in Postgres, 0 before creation
  row,       \* the checklist document in the index
  items,     \* version the item documents show, 0 when none
  flight,    \* set of messages accepted by NATS and not yet delivered
  pass,      \* [Passes -> a call of Projector.Refresh]
  faults

treeVars == <<parent, exists, outage>>
docVars == <<row, items>>
vars == <<parent, exists, outage, version, row, items, flight, pass, faults>>

Fault == faults < MaxFaults /\ faults' = faults + 1

NoDoc == [version |-> 0, chain |-> <<>>]
\* A pass steps through refresh, climb, row and items; its posture is FirstPublish
\* or Republish and its outcome climbing, complete, final or retryable.
Rest == [step |-> "idle", posture |-> "Republish", version |-> 0,
         chain |-> <<0>>, next |-> NoParent, outcome |-> "climbing"]
-----------------------------------------------------------------------------
\* The ref in hand is where a pass starts; its parent is the one it carries.
Start(posture) == [Rest EXCEPT !.step = "refresh", !.posture = posture, !.next = parent[0]]

\* A sweep finds the project and creates its checklist when it has none. A
\* replica that loses the insert has created nothing.
BeginSweep(p) ==
  /\ p \in Sweepers /\ pass[p].step = "idle"
  /\ IF version = 0
     THEN version' = 1 /\ pass' = [pass EXCEPT ![p] = Start("FirstPublish")]
     ELSE version' = version /\ pass' = [pass EXCEPT ![p] = Start("Republish")]
  /\ UNCHANGED <<treeVars, docVars, flight, faults>>

\* An item write commits and its refresh starts; the route returns at once.
WriteItem(p) ==
  /\ p \in Refreshes /\ pass[p].step = "idle"
  /\ version \in 1..MaxWrites
  /\ version' = version + 1
  /\ pass' = [pass EXCEPT ![p] = Start("Republish")]
  /\ UNCHANGED <<treeVars, docVars, flight, faults>>

\* Refresh reads the checklist and its items, then the name and the date.
ReadChecklist(p) ==
  /\ pass[p].step = "refresh"
  /\ pass' = [pass EXCEPT ![p].step = "climb", ![p].version = version]
  /\ UNCHANGED <<treeVars, version, docVars, flight, faults>>

Ended(q, outcome) == [q EXCEPT !.step = "row", !.outcome = outcome, !.next = NoParent]

\* Mutant: the uid is appended only once its own project was read.
Named_ReadFirst(q) == q.chain

\* The uid came off a project already read, so it belongs to the chain
\* whether or not the project behind it can be read.
Named(q) == Append(q.chain, q.next)

\* The depth cap, or a project met before.
AtBound(q) == Len(q.chain) > MaxAncestorDepth \/ q.next \in ToSet(q.chain)

\* The walk ends by itself, or at one of the two structural bounds.
ClimbEnds(p) ==
  LET q == pass[p] IN
  /\ q.step = "climb"
  /\ \/ q.next = NoParent /\ pass' = [pass EXCEPT ![p] = Ended(q, "complete")]
     \/ q.next # NoParent /\ AtBound(q) /\ pass' = [pass EXCEPT ![p] = Ended(q, "final")]
  /\ UNCHANGED <<treeVars, version, docVars, flight, faults>>

\* One GetRef: the ancestor's parent, or the answer that it is gone.
ClimbAnswered(p) ==
  LET q == pass[p]
      named == [q EXCEPT !.chain = Named(q)] IN
  /\ q.step = "climb" /\ q.next # NoParent /\ ~AtBound(q)
  /\ pass' = [pass EXCEPT ![p] =
       IF q.next \in exists THEN [named EXCEPT !.next = parent[q.next]]
                            ELSE Ended(named, "final")]
  /\ UNCHANGED <<treeVars, version, docVars, flight, faults>>

\* GetRef fails: unreachable, timed out or a failed handler.
ClimbUnanswered(p) ==
  LET q == pass[p] IN
  /\ q.step = "climb" /\ q.next # NoParent /\ ~AtBound(q)
  /\ pass' = [pass EXCEPT ![p] = Ended([q EXCEPT !.chain = Named(q)], "retryable")]
  /\ IF outage THEN faults' = faults ELSE Fault
  /\ UNCHANGED <<treeVars, version, docVars, flight>>

\* Mutant: any short chain is held back.
Withheld_AnyShortfall(q) == q.outcome # "complete" /\ q.posture = "Republish"
\* Mutant: nothing is held back.
Withheld_Never(q) == FALSE

Withheld(q) == q.outcome = "retryable" /\ q.posture = "Republish"

\* The posture is the sender's and not on the wire.
RowOf(q) == [doc |-> "row", version |-> q.version, chain |-> q.chain, posture |-> q.posture]
ItemsOf(q) == [doc |-> "items", version |-> q.version, chain |-> <<>>, posture |-> "Republish"]

\* Publish returns once NATS has the message; two identical ones count as one.
Send(m) ==
  /\ Cardinality(flight \cup {m}) <= MaxFlight
  /\ flight' = flight \cup {m}

\* The item documents carry no ancestry: the pass has no more use for its chain.
PublishFormation(p) ==
  LET q == pass[p] IN
  /\ q.step = "row"
  /\ IF Withheld(q) THEN flight' = flight ELSE Send(RowOf(q))
  /\ pass' = [pass EXCEPT ![p].step = "items", ![p].chain = <<0>>]
  /\ UNCHANGED <<treeVars, version, docVars, faults>>

\* Mutant: a withheld row stops the pass before its item documents.
ItemsToo_UnlessWithheld(q) == ~Withheld(q)
ItemsToo(q) == TRUE

\* One batch, seen here as one document; published also when the row was
\* withheld.
PublishItems(p) ==
  LET q == pass[p] IN
  /\ q.step = "items"
  /\ IF ItemsToo(q) THEN Send(ItemsOf(q)) ELSE flight' = flight
  /\ pass' = [pass EXCEPT ![p] = Rest]
  /\ UNCHANGED <<treeVars, version, docVars, faults>>

\* The flush fails, or the process ends before it returns, and the message goes
\* out all the same. The pass ends with the error.
PublishUnconfirmed(p) ==
  LET q == pass[p] IN
  /\ \/ q.step = "row" /\ ~Withheld(q) /\ Send(RowOf(q))
     \/ q.step = "items" /\ Send(ItemsOf(q))
  /\ Fault
  /\ pass' = [pass EXCEPT ![p] = Rest]
  /\ UNCHANGED <<treeVars, version, docVars>>

\* A read fails, a send fails, the refresh is abandoned or the process ends.
\* Nothing is rolled back: what was sent stays sent.
EndEarly(p) ==
  /\ pass[p].step # "idle"
  /\ Fault
  /\ pass' = [pass EXCEPT ![p] = Rest]
  /\ UNCHANGED <<treeVars, version, docVars, flight>>

\* The indexer replaces the document by what the message says.
Deliver(m) ==
  /\ m \in flight /\ flight' = flight \ {m}
  /\ row' = IF m.doc = "row" THEN [version |-> m.version, chain |-> m.chain] ELSE row
  /\ items' = IF m.doc = "items" THEN m.version ELSE items
  /\ UNCHANGED <<treeVars, version, pass, faults>>

Lose(m) ==
  /\ m \in flight /\ flight' = flight \ {m}
  /\ Fault
  /\ UNCHANGED <<treeVars, version, docVars, pass>>

\* Any shape the project service's data may have, as seen from project 0: a path
\* to a root, a path into a cycle, or one up to an ancestor that was deleted; no
\* walk meets the projects above that one.
Init ==
  /\ \E top \in Projects, last \in Projects \cup {NoParent} :
       /\ last <= top /\ (last = 0 => top > 0)
       /\ parent = [i \in Projects |-> IF i < top THEN i + 1
                                      ELSE IF i = top THEN last ELSE NoParent]
       /\ \/ exists = 0..top
          \/ top > 0 /\ last = NoParent /\ exists = 0..(top - 1)
  /\ outage \in BOOLEAN
  /\ version = 0 /\ row = NoDoc /\ items = 0 /\ flight = {}
  /\ pass = [p \in Passes |-> Rest]
  /\ faults = 0

Moves(p) ==
  \/ ReadChecklist(p) \/ ClimbEnds(p) \/ ClimbAnswered(p)
  \/ PublishFormation(p) \/ PublishItems(p)

Next ==
  \/ \E p \in Passes :
       \/ BeginSweep(p) \/ WriteItem(p) \/ Moves(p)
       \/ ClimbUnanswered(p) \/ PublishUnconfirmed(p) \/ EndEarly(p)
  \/ \E m \in flight : Deliver(m) \/ Lose(m)

Spec == Init /\ [][Next]_vars

\* The ticker starts sweeps for ever and every call has a timeout, so a pass
\* that is not ended early goes on. During an outage a lookup that is not
\* answered fails at its timeout. What NATS does not lose it delivers; which
\* message of a kind comes first is not said.
FairSpec ==
  /\ Spec
  /\ \A p \in Passes :
       /\ WF_vars(BeginSweep(p))
       /\ WF_vars(Moves(p) \/ (outage /\ ClimbUnanswered(p)))
  /\ \A d \in {"row", "items"} : WF_vars(\E m \in flight : m.doc = d /\ Deliver(m))
-----------------------------------------------------------------------------
\* c climbs from the project through projects that could be read, up to the
\* depth cap, repeating nobody.
Ascends(c) ==
  /\ c[1] = 0 /\ IsInjective(c)
  /\ \A i \in 2..Len(c) : c[i] = parent[c[i - 1]] /\ (i > 2 => c[i - 1] \in exists)

\* The chain nobody can do better than: no project can be added above it.
Whole(c) ==
  /\ c # <<>> /\ Ascends(c)
  /\ Len(c) > MaxAncestorDepth \/ \A u \in Projects : ~Ascends(Append(c, u))

\* Whatever chain a pass ends up with is an ascent of the tree, never longer
\* than the truth, and it is the whole of it unless the project service did not
\* answer: a cycle, a deleted ancestor and the depth cap cost nothing that a
\* retry could find (ancestorChain's three outcomes).
ShortOnlyWhenUnanswered ==
  \A p \in Passes : pass[p].step = "row" =>
    /\ Ascends(pass[p].chain)
    /\ pass[p].outcome # "retryable" => Whole(pass[p].chain)

\* The checklist's creation has yet to have its last effect on the index: the
\* pass that creates it runs, or what it sent for the row is under way.
CreationOut ==
  \/ \E p \in Passes : pass[p].step # "idle" /\ pass[p].posture = "FirstPublish"
  \/ \E m \in flight : m.doc = "row" /\ m.posture = "FirstPublish"

\* docs/indexer-contract.md, "So the one window where two replicas can disagree
\* about a chain is the pass that creates the checklist", of sends with "no
\* ordering between them". The window closes for good with the last message of
\* that pass; after it a row scoped to its whole parentage is never narrowed,
\* whatever the replicas' passes and the item refreshes read, fail and send, and
\* however late it arrives.
WholeRowsStayWhole ==
  [][version > 0 /\ ~CreationOut
       => ~CreationOut' /\ (Whole(row.chain) => Whole(row'.chain))]_vars

\* Once writes stop and the project service answers again, the row in the index
\* shows the checklist as Postgres has it under its whole parentage, whichever
\* refresh published last: the sweep repairs what it finds. In particular a
\* project below a cycle or a deleted ancestor is not frozen.
RowCatchesUp == ~outage => <>[](row.version = version /\ Whole(row.chain))

\* The item documents do so even if no ancestor can ever be read: the assignee's
\* list does not wait for the parentage.
ItemsCatchUp == <>[](items = version)
=============================================================================
