--------------------------- MODULE QueueRowProofs ---------------------------
(***************************************************************************)
(* Theorems about QueueRow, for a tree of any height, any depth cap and    *)
(* any number of sweeps and refreshes.                                     *)
(***************************************************************************)
EXTENDS QueueRow, TLAPS

(* Chains that climb the tree.                                             *)

TreeTyped == parent \in [Projects -> Projects \cup {NoParent}]

\* The last project of the chain is the one in formation or was read, and next
\* is its parent.
Climbs(c, next) ==
  /\ c \in Seq(Projects) /\ c # <<>> /\ Ascends(c)
  /\ Len(c) > 1 => c[Len(c)] \in exists
  /\ next = parent[c[Len(c)]]

\* Appending the parent keeps the ascent, unless the chain met it before.
LEMMA AppendAscends ==
  ASSUME TreeTyped, NEW c, NEW next, Climbs(c, next), next # NoParent, next \notin ToSet(c)
  PROVE  /\ Append(c, next) \in Seq(Projects)
         /\ Append(c, next) # <<>>
         /\ Ascends(Append(c, next))
<1> DEFINE d == Append(c, next)
<1>1. /\ c \in Seq(Projects) /\ Len(c) \in Nat \ {0} /\ c[Len(c)] \in Projects
      /\ next \in Projects
  BY DEF Climbs, TreeTyped
<1>2. /\ d \in Seq(Projects) /\ Len(d) = Len(c) + 1 /\ d # <<>>
      /\ \A i \in 1..Len(c) : d[i] = c[i]
      /\ d[Len(c) + 1] = next
  BY <1>1
<1> HIDE DEF d
<1>3. d[1] = 0
  BY <1>1, <1>2 DEF Climbs, Ascends
<1>4. IsInjective(d)
  <2>1. \A i, j \in 1..Len(c) : c[i] = c[j] => i = j
    BY <1>1 DEF Climbs, Ascends, IsInjective
  <2>2. \A i \in 1..Len(c) : c[i] # next
    BY <1>1 DEF ToSet
  <2>3. DOMAIN d = 1..(Len(c) + 1)
    BY <1>1, <1>2
  <2>4. \A i, j \in 1..(Len(c) + 1) : d[i] = d[j] => i = j
    BY <1>1, <1>2, <2>1, <2>2
  <2> QED
    BY <2>3, <2>4 DEF IsInjective
<1>5. ASSUME NEW i \in 2..Len(d)
      PROVE  d[i] = parent[d[i - 1]] /\ (i > 2 => d[i - 1] \in exists)
  <2>1. CASE i <= Len(c)
    <3>1. i \in 2..Len(c) /\ i - 1 \in 1..Len(c) /\ i \in 1..Len(c)
      BY <1>1, <2>1
    <3> QED
      BY <1>2, <3>1 DEF Climbs, Ascends
  <2>2. CASE i = Len(c) + 1
    <3>1. i - 1 = Len(c) /\ d[i - 1] = c[Len(c)]
      BY <1>1, <1>2, <2>2
    <3> QED
      BY <1>1, <1>2, <2>2, <3>1 DEF Climbs
  <2> QED
    BY <1>1, <1>2, <2>1, <2>2
<1>6. Ascends(d)
  BY <1>3, <1>4, <1>5 DEF Ascends
<1> QED
  BY <1>2, <1>6 DEF d

\* Whoever could stand above the chain is the parent of its last project, was
\* not met before, and the last one could be read.
LEMMA AboveIsParent ==
  ASSUME NEW c \in Seq(Projects), c # <<>>, NEW u, Ascends(Append(c, u))
  PROVE  /\ u = parent[c[Len(c)]]
         /\ u \notin ToSet(c)
         /\ Len(c) > 1 => c[Len(c)] \in exists
<1> DEFINE d == Append(c, u)
           n == Len(c)
<1>1. n \in Nat \ {0} /\ DOMAIN c = 1..n
  OBVIOUS
<1>2. /\ Len(d) = n + 1 /\ DOMAIN d = 1..(n + 1) /\ d[n + 1] = u
      /\ \A i \in 1..n : d[i] = c[i]
  OBVIOUS
<1>3. /\ IsInjective(d)
      /\ \A i \in 2..Len(d) : d[i] = parent[d[i - 1]] /\ (i > 2 => d[i - 1] \in exists)
  BY DEF Ascends
<1> HIDE DEF d, n
<1>4. d[n] = c[n] /\ (n + 1) - 1 = n /\ n + 1 \in 2..Len(d)
  BY <1>1, <1>2
<1>5. d[n + 1] = parent[d[n]] /\ (n + 1 > 2 => d[n] \in exists)
  BY <1>3, <1>4
<1>6. ASSUME NEW i \in 1..n, c[i] = u
      PROVE  FALSE
  <2>1. i \in 1..(n + 1) /\ n + 1 \in 1..(n + 1) /\ i # n + 1 /\ d[i] = d[n + 1]
    BY <1>1, <1>2, <1>6
  <2> QED
    BY <1>2, <1>3, <2>1 DEF IsInjective
<1> QED
  BY <1>1, <1>2, <1>4, <1>5, <1>6 DEF n, ToSet
-----------------------------------------------------------------------------
(* Passes.                                                                 *)

Call == [step : {"idle", "refresh", "climb", "row", "items"},
         posture : {"FirstPublish", "Republish"}, version : Nat, chain : Seq(Projects),
         next : Projects \cup {NoParent},
         outcome : {"climbing", "complete", "final", "retryable"}]

\* On its way a pass holds an ascent and the way up from it; at the end, a chain
\* that is short only because somebody did not answer.
Honest(q) ==
  /\ q.step \in {"refresh", "climb"} => Climbs(q.chain, q.next)
  /\ q.step = "row" => Ascends(q.chain) /\ (q.outcome # "retryable" => Whole(q.chain))

HonestPasses ==
  /\ TreeTyped /\ version \in Nat
  /\ pass \in [Passes -> Call]
  /\ \A p \in Passes : Honest(pass[p])

LEMMA StartHonest ==
  ASSUME TreeTyped, NEW posture \in {"FirstPublish", "Republish"}
  PROVE  Start(posture) \in Call /\ Honest(Start(posture))
<1> DEFINE c == <<0>>
<1>1. 0 \in Projects /\ parent[0] \in Projects \cup {NoParent}
  BY QueueRowAssumption DEF Projects, TreeTyped
<1>2. c \in Seq(Projects) /\ Len(c) = 1 /\ c[1] = 0 /\ c # <<>>
  BY <1>1
<1>3. /\ Start(posture).step = "refresh" /\ Start(posture).chain = c
      /\ Start(posture).next = parent[0]
  BY DEF Start, Rest
<1>4. Start(posture) \in Call
  BY <1>1, <1>2 DEF Start, Rest, Call
<1>5. Ascends(c)
  BY <1>2 DEF Ascends, IsInjective
<1>6. Climbs(c, parent[0])
  <2> HIDE DEF c
  <2> QED
    BY <1>2, <1>5 DEF Climbs
<1> QED
  BY <1>3, <1>4, <1>6 DEF Honest

LEMMA RestHonest == Rest \in Call /\ Honest(Rest)
<1>1. 0 \in Projects
  BY QueueRowAssumption DEF Projects
<1>2. <<0>> \in Seq(Projects)
  BY <1>1
<1> QED
  BY <1>2 DEF Rest, Call, Honest

\* What the ends of a climb amount to.
LEMMA EndedHonest ==
  ASSUME NEW q \in Call, q.chain # <<>>,
         NEW outcome \in {"complete", "final", "retryable"},
         Ascends(q.chain), outcome # "retryable" => Whole(q.chain)
  PROVE  Ended(q, outcome) \in Call /\ Honest(Ended(q, outcome))
<1>1. /\ Ended(q, outcome) \in Call /\ Ended(q, outcome).step = "row"
      /\ Ended(q, outcome).chain = q.chain /\ Ended(q, outcome).outcome = outcome
  BY DEF Ended, Call
<1> QED
  BY <1>1 DEF Honest

\* One pass's step: the tree stays, and the pass gets what it now holds.
Advances(p) ==
  \E q \in Call : Honest(q) /\ pass' = [pass EXCEPT ![p] = q]

LEMMA ClimbEndsHonest ==
  ASSUME HonestPasses, NEW p \in Passes, ClimbEnds(p)
  PROVE  Advances(p)
<1> PICK q \in Call : q = pass[p]
  BY DEF HonestPasses
<1>1. q.step = "climb" /\ Climbs(q.chain, q.next)
  BY DEF ClimbEnds, HonestPasses, Honest
<1>2. q.chain \in Seq(Projects) /\ q.chain # <<>> /\ Ascends(q.chain)
  BY <1>1 DEF Climbs
<1>3. CASE q.next = NoParent /\ pass' = [pass EXCEPT ![p] = Ended(q, "complete")]
  <2>1. ASSUME NEW u \in Projects, Ascends(Append(q.chain, u))
        PROVE  FALSE
    <3>1. u = NoParent
      BY <1>1, <1>2, <1>3, <2>1, AboveIsParent DEF Climbs
    <3> QED
      BY <3>1, QueueRowAssumption DEF NoParent, Projects
  <2>2. Whole(q.chain)
    BY <1>2, <2>1 DEF Whole
  <2>3. Ended(q, "complete") \in Call /\ Honest(Ended(q, "complete"))
    BY <1>2, <2>2, EndedHonest
  <2> QED
    BY <1>3, <2>3 DEF Advances
<1>4. CASE AtBound(q) /\ pass' = [pass EXCEPT ![p] = Ended(q, "final")]
  <2>1. ASSUME q.next \in ToSet(q.chain), NEW u \in Projects, Ascends(Append(q.chain, u))
        PROVE  FALSE
    BY <1>1, <1>2, <2>1, AboveIsParent DEF Climbs
  <2>2. Whole(q.chain)
    BY <1>2, <1>4, <2>1 DEF Whole, AtBound
  <2>3. Ended(q, "final") \in Call /\ Honest(Ended(q, "final"))
    BY <1>2, <2>2, EndedHonest
  <2> QED
    BY <1>4, <2>3 DEF Advances
<1> QED
  BY <1>3, <1>4 DEF ClimbEnds

\* The lookup's answer, or that there is none: either way the parent is named.
LEMMA ClimbStepHonest ==
  ASSUME HonestPasses, NEW p \in Passes, ClimbAnswered(p) \/ ClimbUnanswered(p)
  PROVE  Advances(p)
<1> PICK q \in Call : q = pass[p]
  BY DEF HonestPasses
<1> DEFINE d == Append(q.chain, q.next)
           named == [q EXCEPT !.chain = d]
<1>1. /\ q.step = "climb" /\ Climbs(q.chain, q.next) /\ q.next # NoParent
      /\ q.next \notin ToSet(q.chain)
  BY DEF ClimbAnswered, ClimbUnanswered, AtBound, HonestPasses, Honest
<1>2. d \in Seq(Projects) /\ d # <<>> /\ Ascends(d)
  BY <1>1, AppendAscends DEF HonestPasses
<1>3. q.next \in Projects /\ parent[q.next] \in Projects \cup {NoParent}
  BY <1>1 DEF Call, HonestPasses, TreeTyped
<1>4. /\ q.chain \in Seq(Projects) /\ Len(d) = Len(q.chain) + 1 /\ d[Len(d)] = q.next
      /\ Len(d) > 1 /\ q.chain # <<>>
  BY <1>1 DEF Climbs
<1> HIDE DEF d
<1>5. named \in Call /\ named.chain = d /\ named.next = q.next
  BY <1>2 DEF Call
<1>6. CASE ClimbAnswered(p) /\ q.next \in exists
  <2> DEFINE up == [named EXCEPT !.next = parent[q.next]]
  <2>1. pass' = [pass EXCEPT ![p] = up]
    BY <1>6 DEF ClimbAnswered, Named, d
  <2>2. up \in Call /\ up.step = "climb" /\ up.chain = d /\ up.next = parent[q.next]
    BY <1>1, <1>3, <1>5 DEF Call
  <2>3. Climbs(d, parent[q.next])
    BY <1>2, <1>4, <1>6 DEF Climbs
  <2> HIDE DEF up
  <2> QED
    BY <2>1, <2>2, <2>3 DEF Advances, Honest
<1>7. CASE ClimbAnswered(p) /\ q.next \notin exists
  <2>1. pass' = [pass EXCEPT ![p] = Ended(named, "final")]
    BY <1>7 DEF ClimbAnswered, Named, d
  <2>2. ASSUME NEW u \in Projects, Ascends(Append(d, u))
        PROVE  FALSE
    BY <1>2, <1>4, <1>7, <2>2, AboveIsParent
  <2>3. Whole(d)
    BY <1>2, <2>2 DEF Whole
  <2> HIDE DEF named
  <2>4. Ended(named, "final") \in Call /\ Honest(Ended(named, "final"))
    BY <1>2, <1>5, <2>3, EndedHonest
  <2> QED
    BY <2>1, <2>4 DEF Advances
<1>8. CASE ClimbUnanswered(p)
  <2>1. pass' = [pass EXCEPT ![p] = Ended(named, "retryable")]
    BY <1>8 DEF ClimbUnanswered, Named, d
  <2> HIDE DEF named
  <2>2. Ended(named, "retryable") \in Call /\ Honest(Ended(named, "retryable"))
    BY <1>2, <1>5, EndedHonest
  <2> QED
    BY <2>1, <2>2 DEF Advances
<1> QED
  BY <1>6, <1>7, <1>8

LEMMA OtherStepsHonest ==
  ASSUME HonestPasses, NEW p \in Passes,
         BeginSweep(p) \/ WriteItem(p) \/ ReadChecklist(p) \/ PublishFormation(p)
           \/ PublishItems(p) \/ PublishUnconfirmed(p) \/ EndEarly(p)
  PROVE  Advances(p) /\ version' \in Nat
<1> PICK q \in Call : q = pass[p]
  BY DEF HonestPasses
<1>0. Honest(q) /\ version \in Nat
  BY DEF HonestPasses
<1>1. CASE BeginSweep(p) \/ WriteItem(p)
  <2>1. version' \in Nat
    BY <1>0, <1>1 DEF BeginSweep, WriteItem
  <2>2. PICK posture \in {"FirstPublish", "Republish"} :
          pass' = [pass EXCEPT ![p] = Start(posture)]
    BY <1>1 DEF BeginSweep, WriteItem
  <2>3. Start(posture) \in Call /\ Honest(Start(posture))
    BY StartHonest DEF HonestPasses
  <2> QED
    BY <2>1, <2>2, <2>3 DEF Advances
<1>2. CASE ReadChecklist(p)
  <2> DEFINE new == [q EXCEPT !.step = "climb", !.version = version]
  <2>1. pass' = [pass EXCEPT ![p] = new] /\ version' \in Nat /\ q.step = "refresh"
    BY <1>0, <1>2 DEF ReadChecklist, HonestPasses
  <2>2. new \in Call /\ new.step = "climb" /\ new.chain = q.chain /\ new.next = q.next
    BY <1>0 DEF Call
  <2> HIDE DEF new
  <2> QED
    BY <1>0, <2>1, <2>2 DEF Advances, Honest
<1>3. CASE PublishFormation(p)
  <2> DEFINE new == [q EXCEPT !.step = "items", !.chain = <<0>>]
  <2>1. pass' = [pass EXCEPT ![p] = new] /\ version' \in Nat
    BY <1>0, <1>3 DEF PublishFormation
  <2>2. <<0>> \in Seq(Projects)
    BY RestHonest DEF Rest, Call
  <2>3. new \in Call /\ new.step = "items"
    BY <2>2 DEF Call
  <2> HIDE DEF new
  <2> QED
    BY <2>1, <2>3 DEF Advances, Honest
<1>4. CASE PublishItems(p) \/ PublishUnconfirmed(p) \/ EndEarly(p)
  BY <1>0, <1>4, RestHonest DEF PublishItems, PublishUnconfirmed, EndEarly, Advances
<1> QED
  BY <1>1, <1>2, <1>3, <1>4

LEMMA HonestPassesStep ==
  ASSUME HonestPasses, [Next]_vars
  PROVE  HonestPasses'
<1>1. UNCHANGED <<parent, exists>>
  BY DEF Next, Moves, BeginSweep, WriteItem, ReadChecklist, ClimbEnds, ClimbAnswered,
         ClimbUnanswered, PublishFormation, PublishItems, PublishUnconfirmed, EndEarly,
         Deliver, Lose, treeVars, vars
<1>2. \A q : Honest(q)' <=> Honest(q)
  BY <1>1 DEF Honest, Climbs, Ascends, Whole
<1>3. TreeTyped'
  BY <1>1 DEF TreeTyped, HonestPasses
<1>4. ASSUME NEW p \in Passes, Advances(p), version' \in Nat
      PROVE  HonestPasses'
  <2>1. PICK q \in Call : Honest(q) /\ pass' = [pass EXCEPT ![p] = q]
    BY <1>4 DEF Advances
  <2>2. pass' \in [Passes -> Call]
    BY <2>1 DEF HonestPasses
  <2>3. \A o \in Passes : Honest(pass'[o])
    BY <2>1 DEF HonestPasses
  <2>4. \A o \in Passes : Honest(pass[o])'
    BY <1>1, <2>3 DEF Honest, Climbs, Ascends, Whole
  <2> QED
    BY <1>3, <1>4, <2>2, <2>4 DEF HonestPasses
<1>5. CASE (\E m \in flight : Deliver(m) \/ Lose(m)) \/ UNCHANGED vars
  <2>1. UNCHANGED <<parent, exists, version, pass>>
    BY <1>5 DEF Deliver, Lose, treeVars, vars
  <2> QED
    BY <2>1 DEF HonestPasses, Honest, TreeTyped, Climbs, Ascends, Whole
<1>6. ASSUME NEW p \in Passes, ClimbEnds(p) \/ ClimbAnswered(p) \/ ClimbUnanswered(p)
      PROVE  HonestPasses'
  <2>1. version' \in Nat
    BY <1>6 DEF ClimbEnds, ClimbAnswered, ClimbUnanswered, HonestPasses
  <2> QED
    BY <1>4, <1>6, <2>1, ClimbEndsHonest, ClimbStepHonest
<1> QED
  BY <1>4, <1>5, <1>6, OtherStepsHonest DEF Next, Moves

LEMMA HonestPassesHold == Spec => []HonestPasses
<1>1. ASSUME Init
      PROVE  HonestPasses
  <2>1. PICK top \in Projects, last \in Projects \cup {NoParent} :
          parent = [i \in Projects |-> IF i < top THEN i + 1
                                       ELSE IF i = top THEN last ELSE NoParent]
    BY <1>1 DEF Init
  <2>2. ASSUME NEW i \in Projects, i < top
        PROVE  i + 1 \in Projects
    BY <2>2, QueueRowAssumption DEF Projects
  <2>3. TreeTyped
    BY <2>1, <2>2 DEF TreeTyped
  <2> QED
    BY <1>1, <2>3, RestHonest DEF Init, HonestPasses
<1> QED
  BY <1>1, HonestPassesStep, PTL DEF Spec

\* Whatever the tree's shape - a root, a cycle, a deleted ancestor, more levels
\* than the cap - the chain a pass publishes climbs it, and is cut short only by
\* a project service that did not answer (ancestorChain's three outcomes).
THEOREM ShortOnlyWhenUnansweredHolds == Spec => []ShortOnlyWhenUnanswered
<1>1. HonestPasses => ShortOnlyWhenUnanswered
  BY DEF HonestPasses, Honest, ShortOnlyWhenUnanswered
<1> QED
  BY <1>1, HonestPassesHold, PTL

-----------------------------------------------------------------------------
(* Messages.                                                               *)

Message == [doc : {"row", "items"}, version : Nat, chain : Seq(Projects),
            posture : {"FirstPublish", "Republish"}]

\* A row under way that does not carry its whole parentage was sent by the pass
\* that created the checklist.
HonestFlight ==
  /\ flight \subseteq Message
  /\ \A m \in flight : m.doc = "row" /\ m.posture = "Republish" => Whole(m.chain)

\* What a pass sends for the row: nothing it should withhold.
LEMMA RowOfHonest ==
  ASSUME HonestPasses, NEW p \in Passes, pass[p].step = "row", ~Withheld(pass[p])
  PROVE  /\ RowOf(pass[p]) \in Message
         /\ RowOf(pass[p]).posture = pass[p].posture
         /\ pass[p].posture = "Republish" => Whole(RowOf(pass[p]).chain)
<1> PICK q \in Call : q = pass[p]
  BY DEF HonestPasses
<1>1. q.step = "row" /\ Honest(q) /\ ~Withheld(q)
  BY DEF HonestPasses
<1>2. q.posture = "Republish" => Whole(q.chain)
  BY <1>1 DEF Withheld, Honest
<1>3. RowOf(q) \in Message /\ RowOf(q).posture = q.posture /\ RowOf(q).chain = q.chain
  BY DEF RowOf, Message, Call
<1> QED
  BY <1>2, <1>3

LEMMA ItemsOfHonest ==
  ASSUME HonestPasses, NEW p \in Passes
  PROVE  ItemsOf(pass[p]) \in Message /\ ItemsOf(pass[p]).doc = "items"
<1> PICK q \in Call : q = pass[p]
  BY DEF HonestPasses
<1> QED
  BY DEF ItemsOf, Message, Call

\* What a step adds to the messages under way.
Sent(p) ==
  \E m \in Message :
    /\ flight' = flight \cup {m}
    /\ m.doc = "row" => m.posture = pass[p].posture /\ pass[p].step # "idle"
    /\ m.doc = "row" /\ m.posture = "Republish" => Whole(m.chain)

LEMMA PublishSends ==
  ASSUME HonestPasses, NEW p \in Passes,
         PublishFormation(p) \/ PublishItems(p) \/ PublishUnconfirmed(p)
  PROVE  flight' = flight \/ Sent(p)
<1>1. CASE flight' = flight
  BY <1>1
<1>2. CASE pass[p].step = "row" /\ ~Withheld(pass[p]) /\ Send(RowOf(pass[p]))
  BY <1>2, RowOfHonest DEF Send, Sent
<1>3. CASE Send(ItemsOf(pass[p]))
  BY <1>3, ItemsOfHonest DEF Send, Sent
<1> QED
  BY <1>1, <1>2, <1>3 DEF PublishFormation, PublishItems, PublishUnconfirmed

\* Whatever happens, the messages under way stay, lose one or gain what a pass
\* sends.
LEMMA FlightSteps ==
  ASSUME HonestPasses, [Next]_vars
  PROVE  \/ flight' \subseteq flight
         \/ \E p \in Passes : Sent(p)
<1>1. ASSUME NEW p \in Passes,
             BeginSweep(p) \/ WriteItem(p) \/ ReadChecklist(p) \/ ClimbEnds(p)
               \/ ClimbAnswered(p) \/ ClimbUnanswered(p) \/ EndEarly(p)
      PROVE  flight' = flight
  BY <1>1 DEF BeginSweep, WriteItem, ReadChecklist, ClimbEnds, ClimbAnswered,
       ClimbUnanswered, EndEarly
<1>2. ASSUME NEW m \in flight, Deliver(m) \/ Lose(m)
      PROVE  flight' \subseteq flight
  BY <1>2 DEF Deliver, Lose
<1>3. CASE UNCHANGED vars
  BY <1>3 DEF vars
<1> QED
  BY <1>1, <1>2, <1>3, PublishSends DEF Next, Moves

LEMMA HonestFlightHolds == Spec => []HonestFlight
<1>1. Init => HonestFlight
  BY DEF Init, HonestFlight
<1>2. ASSUME HonestPasses, HonestFlight, [Next]_vars
      PROVE  HonestFlight'
  <2>1. UNCHANGED <<parent, exists>>
    BY <1>2 DEF Next, Moves, BeginSweep, WriteItem, ReadChecklist, ClimbEnds, ClimbAnswered,
         ClimbUnanswered, PublishFormation, PublishItems, PublishUnconfirmed, EndEarly,
         Deliver, Lose, treeVars, vars
  <2>2. /\ flight' \subseteq Message
        /\ \A m \in flight' : m.doc = "row" /\ m.posture = "Republish" => Whole(m.chain)
    <3>1. CASE flight' \subseteq flight
      BY <1>2, <3>1 DEF HonestFlight
    <3>2. ASSUME NEW p \in Passes, Sent(p)
          PROVE  /\ flight' \subseteq Message
                 /\ \A m \in flight' : m.doc = "row" /\ m.posture = "Republish" => Whole(m.chain)
      <4>1. PICK n \in Message :
              /\ flight' = flight \cup {n}
              /\ n.doc = "row" /\ n.posture = "Republish" => Whole(n.chain)
        BY <3>2 DEF Sent
      <4> QED
        BY <1>2, <4>1 DEF HonestFlight
    <3> QED
      BY <1>2, <3>1, <3>2, FlightSteps
  <2> QED
    BY <2>1, <2>2 DEF HonestFlight, Whole, Ascends
<1> QED
  BY <1>1, <1>2, HonestPassesHold, PTL DEF Spec

\* The creation's window does not open again.
LEMMA WindowStaysClosed ==
  ASSUME HonestPasses, [Next]_vars, version > 0, ~CreationOut
  PROVE  ~CreationOut'
<1>1. \A p \in Passes : pass[p].step # "idle" => pass[p].posture = "Republish"
  BY DEF CreationOut, HonestPasses, Call
<1>2. \A m \in flight' : m.doc = "row" => m.posture # "FirstPublish"
  <2>1. CASE flight' \subseteq flight
    BY <2>1 DEF CreationOut
  <2>2. ASSUME NEW p \in Passes, Sent(p)
        PROVE  \A m \in flight' : m.doc = "row" => m.posture # "FirstPublish"
    <3>1. PICK n \in Message :
            /\ flight' = flight \cup {n}
            /\ n.doc = "row" => n.posture = pass[p].posture /\ pass[p].step # "idle"
      BY <2>2 DEF Sent
    <3>2. n.doc = "row" => n.posture = "Republish"
      BY <1>1, <3>1
    <3> QED
      BY <3>1, <3>2 DEF CreationOut
  <2> QED
    BY <2>1, <2>2, FlightSteps
<1>3. ASSUME NEW p \in Passes, NEW q,
             pass' = [pass EXCEPT ![p] = q], q.step # "idle" => q.posture = "Republish"
      PROVE  ~CreationOut'
  <2>1. \A o \in Passes : pass'[o].step # "idle" => pass'[o].posture = "Republish"
    BY <1>1, <1>3 DEF HonestPasses
  <2> QED
    BY <1>2, <2>1 DEF CreationOut
<1>4. ASSUME NEW p \in Passes, BeginSweep(p) \/ WriteItem(p)
      PROVE  ~CreationOut'
  <2>1. pass' = [pass EXCEPT ![p] = Start("Republish")]
    BY <1>4 DEF BeginSweep, WriteItem
  <2>2. Start("Republish").posture = "Republish"
    BY DEF Start, Rest
  <2> QED
    BY <1>3, <2>1, <2>2
<1>5. ASSUME NEW p \in Passes, PublishItems(p) \/ PublishUnconfirmed(p) \/ EndEarly(p)
      PROVE  ~CreationOut'
  <2>1. pass' = [pass EXCEPT ![p] = Rest] /\ Rest.step = "idle"
    BY <1>5 DEF PublishItems, PublishUnconfirmed, EndEarly, Rest
  <2> QED
    BY <1>3, <2>1
<1>6. ASSUME NEW p \in Passes,
             ReadChecklist(p) \/ ClimbEnds(p) \/ ClimbAnswered(p) \/ ClimbUnanswered(p)
               \/ PublishFormation(p)
      PROVE  ~CreationOut'
  <2>1. pass[p] \in Call /\ p \in DOMAIN pass
    BY DEF HonestPasses
  <2>2. pass[p].posture = "Republish"
    BY <1>1, <1>6 DEF ReadChecklist, ClimbEnds, ClimbAnswered, ClimbUnanswered, PublishFormation
  <2>3. \A outcome, c :
          /\ Ended(pass[p], outcome).posture = pass[p].posture
          /\ Ended([pass[p] EXCEPT !.chain = c], outcome).posture = pass[p].posture
    BY <2>1 DEF Ended, Call
  <2>4. PICK r : pass' = [pass EXCEPT ![p] = r] /\ r.posture = pass[p].posture
    <3>1. CASE ReadChecklist(p)
      <4>1. pass' = [pass EXCEPT ![p] =
                       [pass[p] EXCEPT !.step = "climb", !.version = version]]
        BY <2>1, <3>1 DEF ReadChecklist
      <4>2. [pass[p] EXCEPT !.step = "climb", !.version = version].posture = pass[p].posture
        BY <2>1 DEF Call
      <4> QED
        BY <4>1, <4>2
    <3>2. CASE ClimbEnds(p)
      BY <2>3, <3>2 DEF ClimbEnds
    <3>3. CASE ClimbAnswered(p) /\ pass[p].next \in exists
      <4> DEFINE up == [[pass[p] EXCEPT !.chain = Named(pass[p])]
                          EXCEPT !.next = parent[pass[p].next]]
      <4>1. pass' = [pass EXCEPT ![p] = up]
        BY <3>3 DEF ClimbAnswered
      <4>2. up.posture = pass[p].posture
        BY <2>1 DEF Call
      <4> HIDE DEF up
      <4> QED
        BY <4>1, <4>2
    <3>4. CASE ClimbAnswered(p) /\ pass[p].next \notin exists
      BY <2>3, <3>4 DEF ClimbAnswered
    <3>5. CASE ClimbUnanswered(p)
      BY <2>3, <3>5 DEF ClimbUnanswered
    <3>6. CASE PublishFormation(p)
      <4>1. pass' = [pass EXCEPT ![p] = [pass[p] EXCEPT !.step = "items", !.chain = <<0>>]]
        BY <2>1, <3>6 DEF PublishFormation
      <4>2. [pass[p] EXCEPT !.step = "items", !.chain = <<0>>].posture = pass[p].posture
        BY <2>1 DEF Call
      <4> QED
        BY <4>1, <4>2
    <3> QED
      BY <1>6, <3>1, <3>2, <3>3, <3>4, <3>5, <3>6
  <2> QED
    BY <1>3, <2>2, <2>4
<1>7. CASE (\E m \in flight : Deliver(m) \/ Lose(m)) \/ UNCHANGED vars
  <2>1. pass' = pass
    BY <1>7 DEF Deliver, Lose, vars
  <2> QED
    BY <1>1, <1>2, <2>1 DEF CreationOut
<1> QED
  BY <1>4, <1>5, <1>6, <1>7 DEF Next, Moves

\* Once the pass that created the checklist is over and what it sent has arrived
\* or is lost, that stays so, and no message of any pass narrows a row that shows
\* its whole parentage, in whatever order and however late they arrive: what a
\* republishing pass could not climb for want of an answer was never sent
\* (docs/indexer-contract.md).
THEOREM WholeRowsStayWholeHolds == Spec => WholeRowsStayWhole
<1> DEFINE StaysWhole ==
      version > 0 /\ ~CreationOut
        => ~CreationOut' /\ (Whole(row.chain) => Whole(row'.chain))
<1>1. ASSUME HonestPasses, HonestFlight, [Next]_vars
      PROVE  StaysWhole
  <2>1. ASSUME NEW m \in flight, Deliver(m), ~CreationOut, Whole(row.chain)
        PROVE  Whole(row'.chain)
    <3>1. CASE m.doc = "row"
      <4>1. m.posture = "Republish"
        BY <1>1, <2>1, <3>1 DEF HonestFlight, Message, CreationOut
      <4>2. Whole(m.chain) /\ row'.chain = m.chain
        BY <1>1, <2>1, <3>1, <4>1 DEF HonestFlight, Deliver
      <4> QED
        BY <4>2
    <3>2. CASE m.doc # "row"
      BY <2>1, <3>2 DEF Deliver
    <3> QED
      BY <3>1, <3>2
  <2>2. \/ \E m \in flight : Deliver(m)
        \/ row' = row
    BY <1>1 DEF Next, Moves, BeginSweep, WriteItem, ReadChecklist, ClimbEnds, ClimbAnswered,
         ClimbUnanswered, PublishFormation, PublishItems, PublishUnconfirmed, EndEarly, Lose,
         docVars, vars
  <2> QED
    BY <1>1, <2>1, <2>2, WindowStaysClosed
<1>2. Spec => [][StaysWhole]_vars
  BY <1>1, HonestPassesHold, HonestFlightHolds, PTL DEF Spec
<1> QED
  BY <1>2 DEF WholeRowsStayWhole
=============================================================================
