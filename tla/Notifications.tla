--------------------------- MODULE Notifications ---------------------------
(***************************************************************************)
(* The e-mails a pass over one project sends: Active when this pass moved  *)
(* the lifecycle to completed, and the three one-shot notices, each marked *)
(* on the formations row before it is sent (finishProject,                 *)
(* dispatchActiveEmails, dispatchProjectNotifications and sendOneShot in   *)
(* internal/service/reconcile.go). Passes run on every replica, on the     *)
(* sweep's timer and on project events. The reconciler modelled is one     *)
(* SetEmailer has wired; the deployed wiring leaves that call commented    *)
(* out (cmd/formation-api/service/providers.go).                           *)
(***************************************************************************)
EXTENDS Integers, FiniteSets

CONSTANTS
  Replicas,      \* passes that may run at once
  MaxDay,        \* bound: the days of the model
  DateChoices,   \* announcement dates people may set; 0 is none
  MaxMoves,      \* bound: stage changes
  MaxEdits,      \* bound: changes of the announcement date and of the gates
  MaxFaults      \* bound: failed reads, refreshes, marks and sends, crashes

ASSUME NotificationsAssumption ==
  /\ MaxDay \in Nat /\ DateChoices \subseteq Nat
  /\ MaxMoves \in Nat /\ MaxEdits \in Nat /\ MaxFaults \in Nat

OneShots == {"activating", "reminder_3d", "overdue"}
Lifecycles == {"live", "completed", "frozen"}

VARIABLES
  stage,       \* the lifecycle the project's stage asks for
  lifecycle,   \* the formations row
  revision,
  mark,        \* [OneShots -> BOOLEAN]: is the notified_* column set?
  gatesClear,  \* every gate done: gateTotal > 0 and none outstanding
  date,        \* announcement date, 0 when none is set
  today,
  sent,        \* [OneShots \cup {"active"} -> Nat]: e-mails handed over
  closings,    \* times the lifecycle became completed
  pass,        \* [Replicas -> pass in progress]
  moves, edits, faults

rowVars == <<lifecycle, revision, mark, closings>>
worldVars == <<stage, gatesClear, date, today, moves, edits>>
vars == <<stage, lifecycle, revision, mark, gatesClear, date, today, sent, closings,
          pass, moves, edits, faults>>

NoPass == [step |-> "idle", want |-> "live", read |-> 0, seen |-> {}, clear |-> FALSE,
           date |-> 0, due |-> {}, evaluated |-> FALSE, sending |-> "none"]
-----------------------------------------------------------------------------
At(r, s) == pass[r].step = s
Goto(r, s) == pass' = [pass EXCEPT ![r].step = s]
End(r) == pass' = [pass EXCEPT ![r] = NoPass]
Fault == faults < MaxFaults /\ faults' = faults + 1

\* A step before the notices that fails ends the pass for this project, and a
\* crash ends it anywhere.
Fails(r) ==
  /\ ~At(r, "idle")
  /\ Fault
  /\ End(r)
  /\ UNCHANGED <<rowVars, worldVars, sent>>

\* A sweep or an event names the project with its stage of that moment.
Begin(r) ==
  /\ At(r, "idle")
  /\ pass' = [pass EXCEPT ![r].step = "sync", ![r].want = stage]
  /\ UNCHANGED <<rowVars, worldVars, sent, faults>>

\* SyncTo reads the row and has nothing to do when it agrees.
ReadForSync(r) ==
  /\ At(r, "sync")
  /\ IF lifecycle = pass[r].want
       THEN Goto(r, "refresh")
       ELSE pass' = [pass EXCEPT ![r].step = "move", ![r].read = revision]
  /\ UNCHANGED <<rowVars, worldVars, sent, faults>>

\* Mutant: a mismatched revision is answered as a move.
Moves_Always(r) == TRUE
\* UPDATE ... WHERE revision = the one read; only that update is a move.
Moves(r) == revision = pass[r].read

Move(r) ==
  /\ At(r, "move")
  /\ IF revision = pass[r].read
       THEN /\ lifecycle' = pass[r].want
            /\ revision' = revision + 1
            /\ closings' = IF pass[r].want = "completed" THEN closings + 1 ELSE closings
       ELSE UNCHANGED <<lifecycle, revision, closings>>
  /\ IF Moves(r) /\ pass[r].want = "completed" THEN Goto(r, "active")
     ELSE IF Moves(r) THEN End(r)
     ELSE Goto(r, "refresh")
  /\ UNCHANGED <<mark, worldVars, sent, faults>>

\* dispatchActiveEmails: this call completed the checklist. The pass that moved
\* it sends no one-shot notice.
SendActive(r) ==
  /\ At(r, "active")
  /\ sent' = [sent EXCEPT !["active"] = @ + 1]
  /\ End(r)
  /\ UNCHANGED <<rowVars, worldVars, faults>>

\* The projection went out, the precondition of the notices.
Refresh(r) ==
  /\ At(r, "refresh")
  /\ Goto(r, "check")
  /\ UNCHANGED <<rowVars, worldVars, sent, faults>>

Unsent == {k \in OneShots : ~mark[k]}

\* All three sent: the fast exit.
Finished == Unsent = {}

\* The row is read once: a closed checklist sends nothing, and the marks seen
\* here decide what is still to send.
CheckFormation(r) ==
  /\ At(r, "check")
  /\ IF lifecycle # "live" \/ Finished
       THEN End(r)
       ELSE pass' = [pass EXCEPT ![r].step = "items", ![r].seen = OneShots \ Unsent]
  /\ UNCHANGED <<rowVars, worldVars, sent, faults>>

ReadItems(r) ==
  /\ At(r, "items")
  /\ pass' = [pass EXCEPT ![r].step = "settings", ![r].clear = gatesClear]
  /\ UNCHANGED <<rowVars, worldVars, sent, faults>>

ReadSettings(r) ==
  /\ At(r, "settings")
  /\ pass' = [pass EXCEPT ![r].step = "activating", ![r].date = date]
  /\ UNCHANGED <<rowVars, worldVars, sent, faults>>

\* isActivating: every gate done, and a date announced.
DecideActivating(r) ==
  /\ At(r, "activating")
  /\ LET due == IF pass[r].clear /\ pass[r].date # 0 THEN {"activating"} \ pass[r].seen
                ELSE {}
     IN IF due # {} THEN pass' = [pass EXCEPT ![r].due = due, ![r].step = "mark"]
        ELSE IF pass[r].date = 0 THEN End(r)
        ELSE Goto(r, "reminders")
  /\ UNCHANGED <<rowVars, worldVars, sent, faults>>

\* Mutant: the day itself is no reminder's.
RemindersFor_SkipsTheDay(daysUntil) ==
  IF daysUntil \in 1..3 THEN {"reminder_3d"}
  ELSE IF daysUntil < 0 THEN {"overdue"} ELSE {}
\* Both dates are midnights, so the difference is whole days.
RemindersFor(daysUntil) ==
  IF daysUntil \in 1..3 THEN {"reminder_3d"}
  ELSE IF daysUntil <= 0 THEN {"overdue"} ELSE {}

DecideReminders(r) ==
  /\ At(r, "reminders")
  /\ LET due == RemindersFor(pass[r].date - today) \ pass[r].seen
     IN IF due = {} THEN End(r)
        ELSE pass' = [pass EXCEPT ![r].due = due, ![r].evaluated = TRUE, ![r].step = "mark"]
  /\ UNCHANGED <<rowVars, worldVars, sent, faults>>

\* Mutant: the update does not ask for a NULL column.
Acquires_Always(k) == TRUE
\* UPDATE ... SET notified_* = now() WHERE notified_* IS NULL: one row or none.
Acquires(k) == ~mark[k]

\* The activating notice is followed by the reminders, a reminder by nothing.
NextNotice(r) ==
  pass' = IF pass[r].evaluated THEN [pass EXCEPT ![r] = NoPass]
          ELSE [pass EXCEPT ![r].step = "reminders", ![r].due = {}, ![r].sending = "none"]

MarkNotified(r) ==
  /\ At(r, "mark")
  /\ \E k \in pass[r].due :
       /\ mark' = [mark EXCEPT ![k] = TRUE]
       /\ IF Acquires(k)
            THEN pass' = [pass EXCEPT ![r].step = "send", ![r].sending = k, ![r].due = {}]
            ELSE NextNotice(r)
  /\ UNCHANGED <<lifecycle, revision, closings, worldVars, sent, faults>>

SendOneShot(r) ==
  /\ At(r, "send")
  /\ sent' = [sent EXCEPT ![pass[r].sending] = @ + 1]
  /\ NextNotice(r)
  /\ UNCHANGED <<rowVars, worldVars, faults>>

\* A mark or a send answered with an error is logged, and the next notice tried.
NoticeFails(r) ==
  /\ At(r, "mark") \/ At(r, "send")
  /\ Fault
  /\ NextNotice(r)
  /\ UNCHANGED <<rowVars, worldVars, sent>>
-----------------------------------------------------------------------------
\* The project service: the stage moves, the date is set or moved, and people
\* work the gates while the checklist is live.
ChangeStage ==
  /\ moves < MaxMoves
  /\ \E s \in Lifecycles \ {stage} : stage' = s
  /\ moves' = moves + 1
  /\ UNCHANGED <<rowVars, gatesClear, date, today, edits, sent, pass, faults>>

EditProject ==
  /\ edits < MaxEdits
  /\ edits' = edits + 1
  /\ \/ (\E d \in DateChoices \ {date} : date' = d) /\ UNCHANGED gatesClear
     \/ lifecycle = "live" /\ gatesClear' = ~gatesClear /\ UNCHANGED date
  /\ UNCHANGED <<rowVars, stage, today, moves, sent, pass, faults>>

Midnight ==
  /\ today < MaxDay
  /\ today' = today + 1
  /\ UNCHANGED <<rowVars, stage, gatesClear, date, moves, edits, sent, pass, faults>>
-----------------------------------------------------------------------------
Init ==
  /\ stage = "live" /\ lifecycle = "live" /\ revision = 1
  /\ mark = [k \in OneShots |-> FALSE]
  /\ gatesClear = FALSE /\ date = 0 /\ today = 1
  /\ sent = [k \in OneShots \cup {"active"} |-> 0]
  /\ closings = 0
  /\ pass = [r \in Replicas |-> NoPass]
  /\ moves = 0 /\ edits = 0 /\ faults = 0

PassStep(r) ==
  \/ ReadForSync(r) \/ Move(r) \/ SendActive(r) \/ Refresh(r)
  \/ CheckFormation(r) \/ ReadItems(r) \/ ReadSettings(r)
  \/ DecideActivating(r) \/ DecideReminders(r) \/ MarkNotified(r) \/ SendOneShot(r)

Next ==
  \/ \E r \in Replicas : Begin(r) \/ PassStep(r) \/ Fails(r) \/ NoticeFails(r)
  \/ ChangeStage \/ EditProject \/ Midnight

Spec == Init /\ [][Next]_vars

\* The ticker starts a sweep every interval; a pass that started goes on.
FairSpec == Spec /\ \A r \in Replicas : WF_vars(Begin(r)) /\ WF_vars(PassStep(r))
-----------------------------------------------------------------------------
\* However many replicas find a notice due at once, it is handed over at most
\* once, and never again after a crash between its mark and its sending
\* (sendOneShot, MarkNotified).
NoticeAtMostOnce == \A k \in OneShots : sent[k] <= 1

\* One Active e-mail per completion of the checklist, not one per pass that saw
\* the project Active (dispatchActiveEmails: "at most once per transition").
ActiveAtMostOncePerCompletion == sent["active"] <= closings

\* A checklist that stays live past its announced date gets its overdue notice
\* marked for sending, whatever the replicas read meanwhile
\* (dispatchProjectNotifications, sweep after sweep).
OverdueIsNoticed ==
  []([](lifecycle = "live" /\ date # 0 /\ date <= today) => <>mark["overdue"])
=============================================================================
