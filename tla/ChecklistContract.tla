------------------------- MODULE ChecklistContract --------------------------
(***************************************************************************)
(* What a project's checklist promises, with every operation one atomic    *)
(* step and nobody's intermediate reads in the state: the rules the        *)
(* service's documentation and comments state, without the locks,          *)
(* revisions and retries that keep them.                                   *)
(***************************************************************************)
EXTENDS Naturals, FiniteSets

CONSTANTS Keys, SectionOf, Lifecycles, Allowed

VARIABLES
  lifecycle,    \* "absent" until the checklist is created
  completedAt,  \* is there a completion time?
  rows,         \* the items there are
  status,       \* [Keys -> a status]
  setBy,        \* [Keys -> {"nobody", "user", "system"}]: who set the status last
  sections      \* the sections a reader is shown

vars == <<lifecycle, completedAt, rows, status, setBy, sections>>
Open(k) == status[k] \notin {"done", "skipped"}
-----------------------------------------------------------------------------
Init ==
  /\ lifecycle = "absent"
  /\ completedAt = FALSE
  /\ rows = {}
  /\ status = [k \in Keys |-> "not_started"]
  /\ setBy = [k \in Keys |-> "nobody"]
  /\ sections = {}

\* Items are only ever added, each not started, and with an item its section.
AddRows(K) ==
  /\ rows' = rows \cup K
  /\ sections' = sections \cup {SectionOf[k] : k \in K}
  /\ UNCHANGED <<completedAt, status, setBy>>

Create(K) == lifecycle = "absent" /\ lifecycle' = "live" /\ AddRows(K)

\* The one step that may happen to a checklist nobody may write.
Grow(K) == lifecycle # "absent" /\ K # {} /\ AddRows(K) /\ UNCHANGED lifecycle

\* The lifecycle follows the project; the completion time belongs to completed.
Follow(l) ==
  /\ lifecycle \notin {"absent", l}
  /\ lifecycle' = l
  /\ completedAt' = (l = "completed" \/ (completedAt /\ l = "frozen"))
  /\ UNCHANGED <<rows, status, setBy, sections>>

\* A person sets the status of an item of a live checklist.
Rule(k, s) ==
  /\ lifecycle = "live"
  /\ status' = [status EXCEPT ![k] = s]
  /\ setBy' = [setBy EXCEPT ![k] = "user"]
  /\ UNCHANGED <<lifecycle, completedAt, rows, sections>>

\* The service settles open items of a live checklist that nobody has ruled on.
\* It never moves an item any other way.
Settle(K) ==
  /\ lifecycle = "live"
  /\ K # {}
  /\ status' = [k \in Keys |-> IF k \in K THEN "done" ELSE status[k]]
  /\ \A k \in K : Open(k) /\ setBy[k] = "nobody"
  /\ setBy' = [k \in Keys |-> IF k \in K THEN "system" ELSE setBy[k]]
  /\ UNCHANGED <<lifecycle, completedAt, rows, sections>>

Next ==
  \/ \E K \in SUBSET (Keys \ rows) : Create(K) \/ Grow(K)
  \/ \E K \in SUBSET rows : Settle(K)
  \/ \E l \in Lifecycles : Follow(l)
  \/ \E k \in rows : \E s \in Allowed[status[k]] : Rule(k, s)

Spec == Init /\ [][Next]_vars
=============================================================================
