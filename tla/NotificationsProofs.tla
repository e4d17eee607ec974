------------------------- MODULE NotificationsProofs -------------------------
(***************************************************************************)
(* Theorems about Notifications, for any number of concurrent passes, days *)
(* and dates and any bounds.                                               *)
(***************************************************************************)
EXTENDS Notifications, FiniteSetTheorems, TLAPS

Steps == {"idle", "sync", "move", "active", "refresh", "check", "items", "settings",
          "activating", "reminders", "mark", "send"}
Pass == [step : Steps, want : Lifecycles, read : Nat, seen : SUBSET OneShots,
         clear : BOOLEAN, date : Nat, due : SUBSET OneShots, evaluated : BOOLEAN,
         sending : OneShots \cup {"none"}]

\* Every variable the theorems speak of holds a value of its kind.
Typed ==
  /\ stage \in Lifecycles
  /\ revision \in Nat
  /\ mark \in [OneShots -> BOOLEAN]
  /\ gatesClear \in BOOLEAN
  /\ date \in Nat
  /\ sent \in [OneShots \cup {"active"} -> Nat]
  /\ closings \in Nat
  /\ pass \in [Replicas -> Pass]

USE DEF Lifecycles, OneShots, Steps, NoPass, Pass
-----------------------------------------------------------------------------
(* All that a pass's step may do to marks, e-mails and closings.           *)

Quiet(p) == p.step \notin {"active", "send"}

\* It goes on, and may mark a notice it will not send.
Rests(r, p) ==
  /\ Quiet(p)
  /\ UNCHANGED <<sent, closings>>
  /\ mark' \in [OneShots -> BOOLEAN]
  /\ \A k \in OneShots : mark[k] => mark'[k]

\* It marks a notice that was not marked and will send it.
Takes(r, p) ==
  /\ p.step = "send" /\ p.sending \in OneShots /\ ~mark[p.sending]
  /\ mark' = [mark EXCEPT ![p.sending] = TRUE]
  /\ UNCHANGED <<sent, closings>>

\* It hands over the notice it marked.
HandsOver(r, p) ==
  /\ Quiet(p)
  /\ At(r, "send") /\ sent' = [sent EXCEPT ![pass[r].sending] = @ + 1]
  /\ UNCHANGED <<mark, closings>>

\* It completes the checklist, and will say so.
Completes(r, p) ==
  /\ p.step = "active" /\ At(r, "move")
  /\ closings' = closings + 1
  /\ UNCHANGED <<mark, sent>>

\* It says so.
Announces(r, p) ==
  /\ Quiet(p)
  /\ At(r, "active") /\ sent' = [sent EXCEPT !["active"] = @ + 1]
  /\ UNCHANGED <<mark, closings>>

PassMoves(r, p) ==
  /\ pass' = [pass EXCEPT ![r] = p]
  /\ Rests(r, p) \/ Takes(r, p) \/ HandsOver(r, p) \/ Completes(r, p) \/ Announces(r, p)

\* A pass goes to another step with the rest of what it holds.
LEMMA GoesTo ==
  ASSUME Typed, NEW r \in Replicas, NEW s \in Steps, Goto(r, s)
  PROVE  \E p \in Pass : p.step = s /\ pass' = [pass EXCEPT ![r] = p]
<1> DEFINE p == [pass[r] EXCEPT !.step = s]
<1>1. pass[r] \in Pass
  BY DEF Typed
<1>2. p \in Pass /\ p.step = s
  BY <1>1
<1>3. pass' = [pass EXCEPT ![r] = p]
  BY DEF Goto
<1> HIDE DEF p
<1> QED
  BY <1>2, <1>3

LEMMA NoPassTyped == NoPass \in Pass /\ Quiet(NoPass)
BY DEF Quiet

LEMMA Goes ==
  ASSUME Typed, NEW r \in Replicas, NEW s \in Steps \ {"active", "send"}, Goto(r, s),
         UNCHANGED <<sent, closings, mark>>
  PROVE  \E p \in Pass : PassMoves(r, p)
<1>0. s \in Steps /\ s \notin {"active", "send"}
  OBVIOUS
<1> HIDE DEF Pass, Steps
<1>1. PICK p \in Pass : p.step = s /\ pass' = [pass EXCEPT ![r] = p]
  BY <1>0, GoesTo
<1>2. Quiet(p)
  BY <1>0, <1>1 DEF Quiet
<1>3. mark \in [OneShots -> BOOLEAN]
  BY DEF Typed
<1> QED
  BY <1>1, <1>2, <1>3 DEF PassMoves, Rests

LEMMA Ends ==
  ASSUME Typed, NEW r \in Replicas, End(r), UNCHANGED <<sent, closings, mark>>
  PROVE  \E p \in Pass : PassMoves(r, p)
BY NoPassTyped DEF End, PassMoves, Rests, Typed

\* After a notice the pass goes on to the reminders or ends.
LEMMA NoticeDone ==
  ASSUME Typed, NEW r \in Replicas, NextNotice(r)
  PROVE  \E p \in Pass : Quiet(p) /\ pass' = [pass EXCEPT ![r] = p]
<1>1. pass[r] \in Pass /\ pass \in [Replicas -> Pass]
  BY DEF Typed
<1>2. CASE pass[r].evaluated
  BY <1>2, NoPassTyped DEF NextNotice
<1>3. CASE ~pass[r].evaluated
  <2> DEFINE p == [pass[r] EXCEPT !.step = "reminders", !.due = {}, !.sending = "none"]
  <2>1. p \in Pass /\ Quiet(p)
    BY <1>1 DEF Quiet
  <2>2. pass' = [pass EXCEPT ![r] = p]
    BY <1>1, <1>3 DEF NextNotice
  <2> HIDE DEF p
  <2> QED
    BY <2>1, <2>2
<1> QED
  BY <1>2, <1>3

LEMMA MoveMoves ==
  ASSUME Typed, NEW r \in Replicas, Move(r)
  PROVE  revision' \in Nat /\ \E p \in Pass : PassMoves(r, p)
<1>1. revision' \in Nat
  BY DEF Move, Typed
<1>2. CASE Moves(r) /\ pass[r].want = "completed"
  <2>1. PICK p \in Pass : p.step = "active" /\ pass' = [pass EXCEPT ![r] = p]
    BY <1>2, GoesTo DEF Move
  <2>2. At(r, "move") /\ closings' = closings + 1 /\ UNCHANGED <<mark, sent>>
    BY <1>2 DEF Move, Moves
  <2> QED
    BY <1>1, <2>1, <2>2 DEF PassMoves, Completes
<1>3. CASE Moves(r) /\ pass[r].want # "completed"
  <2>1. End(r) /\ UNCHANGED <<sent, closings, mark>>
    BY <1>3 DEF Move, Moves
  <2> QED
    BY <1>1, <2>1, Ends
<1>4. CASE ~Moves(r)
  <2>1. Goto(r, "refresh") /\ UNCHANGED <<sent, closings, mark>>
    BY <1>4 DEF Move, Moves
  <2> QED
    BY <1>1, <2>1, Goes
<1> QED
  BY <1>2, <1>3, <1>4

\* The steps that read: each leaves marks, e-mails and closings alone.
LEMMA ReadsMove ==
  ASSUME Typed, NEW r \in Replicas,
         \/ Begin(r) \/ ReadForSync(r) \/ Refresh(r) \/ CheckFormation(r) \/ ReadItems(r)
         \/ ReadSettings(r) \/ DecideActivating(r) \/ DecideReminders(r)
  PROVE  \E p \in Pass : PassMoves(r, p)
<1>0. /\ pass[r] \in Pass /\ pass \in [Replicas -> Pass] /\ stage \in Lifecycles
      /\ revision \in Nat /\ gatesClear \in BOOLEAN /\ date \in Nat
      /\ UNCHANGED <<sent, closings, mark>> /\ mark \in [OneShots -> BOOLEAN]
  BY DEF Typed, Begin, ReadForSync, Refresh, CheckFormation, ReadItems, ReadSettings,
         DecideActivating, DecideReminders, rowVars
<1>1. ASSUME NEW p \in Pass, Quiet(p), pass' = [pass EXCEPT ![r] = p]
      PROVE  \E q \in Pass : PassMoves(r, q)
  BY <1>0, <1>1 DEF PassMoves, Rests
<1>2. CASE Begin(r)
  <2> DEFINE p == [pass[r] EXCEPT !.step = "sync", !.want = stage]
  <2>1. p \in Pass /\ Quiet(p) /\ pass' = [pass EXCEPT ![r] = p]
    BY <1>0, <1>2 DEF Begin, Quiet
  <2> HIDE DEF p
  <2> QED
    BY <1>1, <2>1
<1>3. CASE ReadForSync(r)
  <2> DEFINE p == [pass[r] EXCEPT !.step = "move", !.read = revision]
  <2>1. p \in Pass /\ Quiet(p)
    BY <1>0 DEF Quiet
  <2>2. Goto(r, "refresh") \/ pass' = [pass EXCEPT ![r] = p]
    BY <1>0, <1>3 DEF ReadForSync
  <2> HIDE DEF p
  <2> QED
    BY <1>0, <1>1, <2>1, <2>2, Goes
<1>4. CASE Refresh(r)
  BY <1>0, <1>4, Goes DEF Refresh
<1>5. CASE CheckFormation(r)
  <2> DEFINE p == [pass[r] EXCEPT !.step = "items", !.seen = OneShots \ Unsent]
  <2>1. p \in Pass /\ Quiet(p)
    BY <1>0 DEF Quiet
  <2>2. End(r) \/ pass' = [pass EXCEPT ![r] = p]
    BY <1>0, <1>5 DEF CheckFormation
  <2> HIDE DEF p
  <2> QED
    BY <1>0, <1>1, <2>1, <2>2, Ends
<1>6. CASE ReadItems(r)
  <2> DEFINE p == [pass[r] EXCEPT !.step = "settings", !.clear = gatesClear]
  <2>1. p \in Pass /\ Quiet(p) /\ pass' = [pass EXCEPT ![r] = p]
    BY <1>0, <1>6 DEF ReadItems, Quiet
  <2> HIDE DEF p
  <2> QED
    BY <1>1, <2>1
<1>7. CASE ReadSettings(r)
  <2> DEFINE p == [pass[r] EXCEPT !.step = "activating", !.date = date]
  <2>1. p \in Pass /\ Quiet(p) /\ pass' = [pass EXCEPT ![r] = p]
    BY <1>0, <1>7 DEF ReadSettings, Quiet
  <2> HIDE DEF p
  <2> QED
    BY <1>1, <2>1
<1>8. CASE DecideActivating(r)
  <2> DEFINE due == IF pass[r].clear /\ pass[r].date # 0 THEN {"activating"} \ pass[r].seen ELSE {}
             p == [pass[r] EXCEPT !.due = due, !.step = "mark"]
  <2>1. due \in SUBSET OneShots
    OBVIOUS
  <2>2. End(r) \/ Goto(r, "reminders") \/ pass' = [pass EXCEPT ![r] = p]
    BY <1>0, <1>8 DEF DecideActivating
  <2> HIDE DEF due
  <2>3. p \in Pass /\ Quiet(p)
    BY <1>0, <2>1 DEF Quiet
  <2> HIDE DEF p
  <2> QED
    BY <1>0, <1>1, <2>2, <2>3, Ends, Goes
<1>9. CASE DecideReminders(r)
  <2> DEFINE due == RemindersFor(pass[r].date - today) \ pass[r].seen
             p == [pass[r] EXCEPT !.due = due, !.evaluated = TRUE, !.step = "mark"]
  <2>1. due \in SUBSET OneShots
    BY DEF RemindersFor
  <2>2. End(r) \/ pass' = [pass EXCEPT ![r] = p]
    BY <1>0, <1>9 DEF DecideReminders
  <2> HIDE DEF due
  <2>3. p \in Pass /\ Quiet(p)
    BY <1>0, <2>1 DEF Quiet
  <2> HIDE DEF p
  <2> QED
    BY <1>0, <1>1, <2>2, <2>3, Ends
<1> QED
  BY <1>2, <1>3, <1>4, <1>5, <1>6, <1>7, <1>8, <1>9
LEMMA NoticesMove ==
  ASSUME Typed, NEW r \in Replicas,
         MarkNotified(r) \/ SendOneShot(r) \/ NoticeFails(r) \/ SendActive(r) \/ Fails(r)
  PROVE  \E p \in Pass : PassMoves(r, p)
<1>0. pass[r] \in Pass /\ pass \in [Replicas -> Pass] /\ mark \in [OneShots -> BOOLEAN]
  BY DEF Typed
<1>1. CASE MarkNotified(r)
  <2>1. PICK k \in pass[r].due :
          /\ mark' = [mark EXCEPT ![k] = TRUE]
          /\ IF Acquires(k)
               THEN pass' = [pass EXCEPT ![r].step = "send", ![r].sending = k, ![r].due = {}]
               ELSE NextNotice(r)
    BY <1>1 DEF MarkNotified
  <2>2. k \in OneShots /\ UNCHANGED <<sent, closings>>
    BY <1>0, <1>1 DEF MarkNotified
  <2>3. mark' \in [OneShots -> BOOLEAN] /\ \A j \in OneShots : mark[j] => mark'[j]
    BY <1>0, <2>1, Zenon
  <2>4. CASE Acquires(k)
    <3> DEFINE p == [pass[r] EXCEPT !.step = "send", !.sending = k, !.due = {}]
    <3>1. p \in Pass /\ p.step = "send" /\ p.sending = k
      BY <1>0, <2>2
    <3>2. pass' = [pass EXCEPT ![r] = p]
      BY <1>0, <2>1, <2>4
    <3> HIDE DEF p
    <3> QED
      BY <2>1, <2>2, <2>4, <3>1, <3>2 DEF PassMoves, Takes, Acquires
  <2>5. CASE ~Acquires(k)
    BY <2>1, <2>2, <2>3, <2>5, NoticeDone DEF PassMoves, Rests
  <2> QED
    BY <2>4, <2>5
<1>2. CASE SendOneShot(r)
  <2>1. PICK p \in Pass : Quiet(p) /\ pass' = [pass EXCEPT ![r] = p]
    BY <1>2, NoticeDone DEF SendOneShot
  <2>2. HandsOver(r, p)
    BY <1>2, <2>1 DEF SendOneShot, HandsOver, rowVars
  <2> QED
    BY <2>1, <2>2 DEF PassMoves
<1>3. CASE NoticeFails(r)
  <2>1. PICK p \in Pass : Quiet(p) /\ pass' = [pass EXCEPT ![r] = p]
    BY <1>3, NoticeDone DEF NoticeFails
  <2> QED
    BY <1>0, <1>3, <2>1 DEF NoticeFails, PassMoves, Rests, rowVars
<1>4. CASE SendActive(r)
  BY <1>4, NoPassTyped DEF SendActive, End, PassMoves, Announces, rowVars
<1>5. CASE Fails(r)
  BY <1>5, Ends DEF Fails, rowVars
<1> QED
  BY <1>1, <1>2, <1>3, <1>4, <1>5

LEMMA StepsMove ==
  ASSUME Typed, [Next]_vars
  PROVE  \/ UNCHANGED <<pass, sent, mark, closings>>
         \/ \E r \in Replicas, p \in Pass : PassMoves(r, p)
<1>1. ASSUME NEW r \in Replicas, Begin(r) \/ PassStep(r) \/ Fails(r) \/ NoticeFails(r)
      PROVE  \E p \in Pass : PassMoves(r, p)
  BY <1>1, ReadsMove, NoticesMove, MoveMoves DEF PassStep
<1>2. CASE ChangeStage \/ EditProject \/ Midnight \/ UNCHANGED vars
  BY <1>2 DEF ChangeStage, EditProject, Midnight, rowVars, vars
<1> QED
  BY <1>1, <1>2 DEF Next
-----------------------------------------------------------------------------
(* Every step keeps the kinds of values.                                   *)

LEMMA TypedStep ==
  ASSUME Typed, [Next]_vars
  PROVE  Typed'
<1>1. stage' \in Lifecycles /\ revision' \in Nat
  <2>1. ASSUME NEW r \in Replicas, Move(r)
        PROVE  stage' \in Lifecycles /\ revision' \in Nat
    BY <2>1, MoveMoves DEF Typed, Move, worldVars
  <2>2. ASSUME NEW r \in Replicas,
               Begin(r) \/ ReadForSync(r) \/ SendActive(r) \/ Refresh(r) \/ CheckFormation(r)
                 \/ ReadItems(r) \/ ReadSettings(r) \/ DecideActivating(r) \/ DecideReminders(r)
                 \/ MarkNotified(r) \/ SendOneShot(r) \/ Fails(r) \/ NoticeFails(r)
        PROVE  UNCHANGED <<stage, revision>>
    BY <2>2 DEF Begin, ReadForSync, SendActive, Refresh, CheckFormation, ReadItems,
         ReadSettings, DecideActivating, DecideReminders, MarkNotified, SendOneShot, Fails,
         NoticeFails, rowVars, worldVars
  <2>3. CASE ChangeStage \/ EditProject \/ Midnight \/ UNCHANGED vars
    BY <2>3 DEF ChangeStage, EditProject, Midnight, rowVars, vars, Typed
  <2> QED
    BY <2>1, <2>2, <2>3 DEF Next, PassStep, Typed
<1>2. gatesClear' \in BOOLEAN /\ date' \in Nat
  <2>1. ASSUME NEW r \in Replicas, Begin(r) \/ PassStep(r) \/ Fails(r) \/ NoticeFails(r)
        PROVE  UNCHANGED <<gatesClear, date>>
    BY <2>1 DEF PassStep, Begin, ReadForSync, Move, SendActive, Refresh, CheckFormation,
         ReadItems, ReadSettings, DecideActivating, DecideReminders, MarkNotified,
         SendOneShot, Fails, NoticeFails, worldVars
  <2>2. CASE ChangeStage \/ Midnight \/ UNCHANGED vars
    BY <2>2 DEF ChangeStage, Midnight, vars, Typed
  <2>3. CASE EditProject
    BY <2>3, NotificationsAssumption DEF EditProject, Typed
  <2> QED
    BY <2>1, <2>2, <2>3 DEF Next, Typed
<1>3. /\ mark' \in [OneShots -> BOOLEAN] /\ closings' \in Nat
      /\ sent' \in [OneShots \cup {"active"} -> Nat] /\ pass' \in [Replicas -> Pass]
  <2>0. /\ mark \in [OneShots -> BOOLEAN] /\ closings \in Nat
        /\ sent \in [OneShots \cup {"active"} -> Nat] /\ pass \in [Replicas -> Pass]
    BY DEF Typed
  <2>1. CASE UNCHANGED <<pass, sent, mark, closings>>
    BY <2>0, <2>1
  <2>2. ASSUME NEW r \in Replicas, NEW p \in Pass, PassMoves(r, p)
        PROVE  /\ mark' \in [OneShots -> BOOLEAN] /\ closings' \in Nat
               /\ sent' \in [OneShots \cup {"active"} -> Nat] /\ pass' \in [Replicas -> Pass]
    <3>1. pass' \in [Replicas -> Pass]
      BY <2>0, <2>2 DEF PassMoves
    <3>2. CASE Rests(r, p)
      BY <2>0, <3>1, <3>2 DEF Rests
    <3>3. CASE Takes(r, p)
      BY <2>0, <3>1, <3>3 DEF Takes
    <3>4. CASE HandsOver(r, p) \/ Announces(r, p)
      <4> DEFINE Notices == OneShots \cup {"active"}
      <4>1. PICK k : sent' = [sent EXCEPT ![k] = sent[k] + 1]
        BY <3>4 DEF HandsOver, Announces
      <4>2. sent \in [Notices -> Nat]
        BY <2>0
      <4> HIDE DEF Notices, OneShots
      <4>3. sent' \in [Notices -> Nat]
        <5>1. CASE k \in Notices
          <6>1. sent[k] \in Nat
            BY <4>2, <5>1
          <6>2. sent[k] + 1 \in Nat
            BY <6>1
          <6> QED
            BY <4>1, <4>2, <6>2
        <5>2. CASE k \notin Notices
          BY <4>1, <4>2, <5>2
        <5> QED
          BY <5>1, <5>2
      <4>4. sent' \in [OneShots \cup {"active"} -> Nat]
        BY <4>3 DEF Notices
      <4> QED
        BY <2>0, <3>1, <3>4, <4>4 DEF HandsOver, Announces
    <3>5. CASE Completes(r, p)
      BY <2>0, <3>1, <3>5 DEF Completes
    <3> QED
      BY <2>2, <3>2, <3>3, <3>4, <3>5 DEF PassMoves
  <2> QED
    BY <2>1, <2>2, StepsMove
<1> QED
  BY <1>1, <1>2, <1>3 DEF Typed

LEMMA TypedHolds == Spec => []Typed
<1>1. ASSUME Init
      PROVE  Typed
  <2>1. pass \in [Replicas -> Pass]
    BY <1>1, NoPassTyped DEF Init
  <2>2. mark \in [OneShots -> BOOLEAN] /\ sent \in [OneShots \cup {"active"} -> Nat]
    BY <1>1 DEF Init
  <2> QED
    BY <1>1, <2>1, <2>2 DEF Init, Typed
<1> QED
  BY <1>1, TypedStep, PTL DEF Spec
-----------------------------------------------------------------------------
(* A notice leaves by the one pass that marked it.                         *)

\* What is sent is marked; a pass about to send holds a notice it marked and
\* nobody sent; and no two passes hold the same one.
Noticed ==
  /\ \A k \in OneShots : sent[k] <= 1 /\ (sent[k] = 1 => mark[k])
  /\ \A r \in Replicas : At(r, "send") =>
       /\ pass[r].sending \in OneShots
       /\ mark[pass[r].sending]
       /\ sent[pass[r].sending] = 0
  /\ \A r, q \in Replicas :
       At(r, "send") /\ At(q, "send") /\ r # q => pass[r].sending # pass[q].sending

LEMMA NoticedStep ==
  ASSUME Typed, Noticed, [Next]_vars
  PROVE  Noticed'
<1>0. /\ mark \in [OneShots -> BOOLEAN] /\ pass \in [Replicas -> Pass]
      /\ sent \in [OneShots \cup {"active"} -> Nat]
  BY DEF Typed
<1>1. CASE UNCHANGED <<pass, sent, mark, closings>>
  BY <1>1 DEF Noticed, At
<1>2. ASSUME NEW r \in Replicas, NEW p \in Pass, PassMoves(r, p)
      PROVE  Noticed'
  <2>1. \A q \in Replicas : pass'[q] = IF q = r THEN p ELSE pass[q]
    BY <1>0, <1>2 DEF PassMoves
  <2>2. ASSUME Quiet(p)
        PROVE  \A q \in Replicas : At(q, "send")' => q # r /\ At(q, "send") /\ pass'[q] = pass[q]
    BY <2>1, <2>2 DEF Quiet, At
  <2>3. CASE Rests(r, p) \/ Completes(r, p)
    <3>1. UNCHANGED sent /\ \A k \in OneShots : mark[k] => mark'[k]
      BY <2>3 DEF Rests, Completes
    <3>2. \A q \in Replicas : At(q, "send")' => At(q, "send") /\ pass'[q] = pass[q]
      BY <2>1, <2>2, <2>3 DEF Rests, Completes, At
    <3> QED
      BY <3>1, <3>2 DEF Noticed
  <2>4. CASE Announces(r, p)
    <3>1. UNCHANGED mark /\ \A k \in OneShots : sent'[k] = sent[k]
      BY <1>0, <2>4 DEF Announces
    <3>2. \A q \in Replicas : At(q, "send")' => At(q, "send") /\ pass'[q] = pass[q]
      BY <2>2, <2>4 DEF Announces
    <3> QED
      BY <3>1, <3>2 DEF Noticed
  <2>5. CASE Takes(r, p)
    <3> DEFINE k == p.sending
    <3>1. k \in OneShots /\ ~mark[k] /\ UNCHANGED sent /\ mark' = [mark EXCEPT ![k] = TRUE]
      BY <2>5 DEF Takes
    <3>2. mark'[k] /\ \A j \in OneShots : mark[j] => mark'[j]
      BY <1>0, <3>1, Zenon
    <3>3. sent[k] = 0
      BY <1>0, <3>1 DEF Noticed
    <3>4. \A q \in Replicas : At(q, "send")' /\ q # r =>
             At(q, "send") /\ pass'[q] = pass[q] /\ pass[q].sending # k
      BY <2>1, <3>1 DEF Noticed, At
    <3>5. pass'[r].sending = k
      BY <2>1
    <3> HIDE DEF k
    <3> QED
      BY <3>1, <3>2, <3>3, <3>4, <3>5 DEF Noticed
  <2>6. CASE HandsOver(r, p)
    <3> DEFINE k == pass[r].sending
    <3>1. /\ k \in OneShots /\ At(r, "send") /\ mark[k] /\ sent[k] = 0 /\ UNCHANGED mark
          /\ sent' = [sent EXCEPT ![k] = @ + 1]
      BY <2>6 DEF HandsOver, Noticed
    <3>2. \A j \in OneShots : sent'[j] = IF j = k THEN 1 ELSE sent[j]
      BY <1>0, <3>1
    <3>3. \A q \in Replicas : At(q, "send")' =>
             q # r /\ At(q, "send") /\ pass'[q] = pass[q] /\ pass[q].sending # k
      BY <2>2, <2>6, <3>1 DEF HandsOver, Noticed
    <3> HIDE DEF k
    <3> QED
      BY <3>1, <3>2, <3>3 DEF Noticed
  <2> QED
    BY <1>2, <2>3, <2>4, <2>5, <2>6 DEF PassMoves
<1> QED
  BY <1>1, <1>2, StepsMove

\* However many replicas find a notice due at once, and wherever a pass crashes
\* between its mark and its sending, the notice is handed over at most once
\* (sendOneShot, MarkNotified).
THEOREM NoticeAtMostOnceHolds == Spec => []NoticeAtMostOnce
<1>1. Init => Noticed
  BY DEF Init, Noticed, At
<1>2. Noticed => NoticeAtMostOnce
  BY DEF Noticed, NoticeAtMostOnce
<1> QED
  BY <1>1, <1>2, NoticedStep, TypedHolds, PTL DEF Spec
-----------------------------------------------------------------------------
(* Every completion is owed one Active e-mail, by the pass that made it.   *)

Announcing == {r \in Replicas : At(r, "active")}

\* What is sent and what is still to be sent is covered by completions.
Owed ==
  /\ IsFiniteSet(Announcing)
  /\ sent["active"] + Cardinality(Announcing) <= closings

LEMMA OwedStep ==
  ASSUME Typed, Owed, [Next]_vars
  PROVE  Owed'
<1>0. /\ pass \in [Replicas -> Pass] /\ closings \in Nat
      /\ sent \in [OneShots \cup {"active"} -> Nat]
  BY DEF Typed
<1>1. CASE UNCHANGED <<pass, sent, mark, closings>>
  BY <1>1 DEF Owed, Announcing, At
<1>2. ASSUME NEW r \in Replicas, NEW p \in Pass, PassMoves(r, p)
      PROVE  Owed'
  <2>0. IsFiniteSet(Announcing) /\ Cardinality(Announcing) \in Nat
    BY FS_CardinalityType DEF Owed
  <2>1. \A q \in Replicas : pass'[q] = IF q = r THEN p ELSE pass[q]
    BY <1>0, <1>2 DEF PassMoves
  <2>2. CASE p.step # "active"
    <3>1. Announcing' = Announcing \ {r}
      BY <2>1, <2>2 DEF Announcing, At
    <3>2. /\ IsFiniteSet(Announcing')
          /\ Cardinality(Announcing')
               = IF r \in Announcing THEN Cardinality(Announcing) - 1 ELSE Cardinality(Announcing)
      BY <2>0, <3>1, FS_RemoveElement
    <3>3. CASE Announces(r, p)
      <4>1. sent'["active"] = sent["active"] + 1 /\ UNCHANGED closings /\ r \in Announcing
        BY <1>0, <3>3 DEF Announces, Announcing
      <4> QED
        BY <1>0, <2>0, <3>2, <4>1 DEF Owed
    <3>4. CASE ~Announces(r, p)
      <4>1. sent'["active"] = sent["active"] /\ UNCHANGED closings
        <5>1. pass[r].sending # "active"
          BY <1>0
        <5> QED
          BY <1>0, <1>2, <2>2, <3>4, <5>1 DEF PassMoves, Rests, Takes, HandsOver, Completes
      <4> QED
        BY <1>0, <2>0, <3>2, <4>1 DEF Owed
    <3> QED
      BY <3>3, <3>4
  <2>3. CASE p.step = "active"
    <3>1. Completes(r, p)
      BY <1>2, <2>3 DEF PassMoves, Rests, Takes, HandsOver, Announces, Quiet
    <3>2. Announcing' = Announcing \cup {r} /\ r \notin Announcing
      BY <2>1, <2>3, <3>1 DEF Announcing, At, Completes
    <3>3. IsFiniteSet(Announcing') /\ Cardinality(Announcing') = Cardinality(Announcing) + 1
      BY <2>0, <3>2, FS_AddElement
    <3> QED
      BY <1>0, <2>0, <3>1, <3>3 DEF Owed, Completes
  <2> QED
    BY <2>2, <2>3
<1> QED
  BY <1>1, <1>2, StepsMove

\* One Active e-mail per completion of the checklist, however many passes see
\* the project Active (dispatchActiveEmails: "at most once per transition").
THEOREM ActiveOncePerCompletion == Spec => []ActiveAtMostOncePerCompletion
<1>1. Init => Owed
  <2>1. ASSUME Init
        PROVE  Announcing = {} /\ sent["active"] = 0 /\ closings = 0
    BY <2>1 DEF Init, Announcing, At
  <2> QED
    BY <2>1, FS_EmptySet DEF Owed
<1>2. Typed /\ Owed => ActiveAtMostOncePerCompletion
  BY FS_CardinalityType DEF Typed, Owed, ActiveAtMostOncePerCompletion
<1> QED
  BY <1>1, <1>2, OwedStep, TypedHolds, PTL DEF Spec
=============================================================================
