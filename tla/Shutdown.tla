------------------------------ MODULE Shutdown ------------------------------
(***************************************************************************)
(* One process from start to exit: the HTTP server, the project event      *)
(* listener, the sweep and the background refreshes, all reading and       *)
(* writing through one Postgres pool, and the order in which shutdown      *)
(* takes them down (cmd/formation-api/main.go and server.go, the listener's*)
(* Start, the refresher's AfterItemWrite and Stop).                        *)
(***************************************************************************)
EXTENDS Integers, FiniteSets

CONSTANTS
  Requests,    \* item writes over HTTP, each with the refresh it may start
  Subjects,    \* the project event subjects, one handler at a time on each
  MaxPending   \* subPendingMsgs: what a subscription holds for its handler

ASSUME ShutdownAssumption == MaxPending \in Nat \ {0}

Outcomes == {"published", "skipped", "failed"}
Counters == {"requested", "dropped"} \cup Outcomes

VARIABLES
  main,      \* where StartServer and runServerWithContext are
  signalled, \* the process context is cancelled
  listener,  \* attaching, attached, draining, stopped
  attached,  \* subjects subscribed so far
  pending,   \* [Subjects -> messages buffered in the subscription]
  handler,   \* [Subjects -> idle, running, cut]
  expired,   \* the listener's drain budget ran out
  handlersCancelled,
  connection, \* open, or closed for good: the NATS client gives up
  sweep,     \* waiting, running, stopped
  request,   \* [Requests -> none, writing, asking, answered]
  forced,    \* srv.Close after srv.Shutdown timed out
  refresh,   \* [Requests -> none, running]
  stopped,   \* Refresher.stopped
  abandoned, \* Refresher.abandoned
  counts,    \* [Counters -> Nat]
  pool       \* open, closing, closed

procVars == <<main, signalled>>
listenerVars == <<listener, attached, pending, handler, expired, handlersCancelled, connection>>
serverVars == <<request, forced>>
refresherVars == <<refresh, stopped, abandoned, counts>>
vars == <<main, signalled, listenerVars, sweep, serverVars, refresherVars, pool>>

Alive == main \notin {"exited", "killed"}
Go(from, to) == main = from /\ main' = to
-----------------------------------------------------------------------------
(* The listener: Start, Handle and the stop function it returns.           *)

\* Subjects are subscribed one after the other while StartServer waits.
Subscribe(s) ==
  /\ main = "starting" /\ listener = "attaching" /\ s \notin attached
  /\ connection = "open"
  /\ attached' = attached \cup {s}
  /\ listener' = IF attached' = Subjects THEN "attached" ELSE listener
  /\ UNCHANGED <<procVars, pending, handler, expired, handlersCancelled,
                 connection, sweep, serverVars, refresherVars, pool>>

\* Mutant: a subject that cannot be subscribed leaves the others attached.
AfterRefusal_KeepOthers == "attached"
\* The subscriptions already made are undone, and the service carries on.
AfterRefusal == "draining"

SubscribeFails ==
  /\ main = "starting" /\ listener = "attaching"
  /\ listener' = AfterRefusal
  /\ UNCHANGED <<procVars, attached, pending, handler, expired, handlersCancelled,
                 connection, sweep, serverVars, refresherVars, pool>>

HasRoom(s) == pending[s] < MaxPending

\* A draining subscription is delivered nothing new; a full one sheds.
Event(s) ==
  /\ Alive /\ s \in attached /\ listener \in {"attaching", "attached"}
  /\ connection = "open"
  /\ HasRoom(s)
  /\ pending' = [pending EXCEPT ![s] = @ + 1]
  /\ UNCHANGED <<procVars, listener, attached, handler, expired, handlersCancelled,
                 connection, sweep, serverVars, refresherVars, pool>>

BeginHandle(s) ==
  /\ Alive /\ handler[s] = "idle" /\ pending[s] > 0
  /\ handler' = [handler EXCEPT ![s] = "running"]
  /\ UNCHANGED <<procVars, listener, attached, pending, expired, handlersCancelled,
                 connection, sweep, serverVars, refresherVars, pool>>

\* The message counts as pending until its handler returned.
EndHandle(s) ==
  /\ Alive /\ handler[s] # "idle"
  /\ handler' = [handler EXCEPT ![s] = "idle"]
  /\ pending' = [pending EXCEPT ![s] = @ - 1]
  /\ UNCHANGED <<procVars, listener, attached, expired, handlersCancelled,
                 connection, sweep, serverVars, refresherVars, pool>>

\* Mutant: handlers run under the process context, which the signal cancels.
HandlerContextDone_Process == handlersCancelled \/ signalled
\* Detached from the process context; cancelled by the stop function alone.
HandlerContextDone == handlersCancelled

\* A handler whose context is cancelled gives up its transaction.
CutHandle(s) ==
  /\ Alive /\ handler[s] = "running" /\ HandlerContextDone
  /\ handler' = [handler EXCEPT ![s] = "cut"]
  /\ UNCHANGED <<procVars, listener, attached, pending, expired, handlersCancelled,
                 connection, sweep, serverVars, refresherVars, pool>>

\* The NATS client gives the connection up. Its subscriptions are no longer
\* valid and what they hold is gone, all but the message a handler has.
ConnectionCloses ==
  /\ Alive /\ connection = "open" /\ connection' = "closed"
  /\ pending' = [s \in Subjects |-> IF handler[s] = "idle" THEN 0 ELSE 1]
  /\ UNCHANGED <<procVars, listener, attached, handler, expired, handlersCancelled,
                 sweep, serverVars, refresherVars, pool>>

\* The stop function of a subscription returns: at once, running handler or not,
\* where it cannot be drained or stops being valid meanwhile.
Drained == connection = "closed" \/ \A s \in Subjects : pending[s] = 0

\* Every subscription is drained at once, within one budget.
ListenerDrained ==
  /\ Alive /\ listener = "draining"
  /\ Drained /\ expired' = expired
  /\ listener' = "stopped" /\ handlersCancelled' = TRUE /\ attached' = {}
  /\ UNCHANGED <<procVars, pending, handler, connection, sweep, serverVars, refresherVars, pool>>

\* Also with nothing left to handle: draining itself asks the server.
ListenerExpires ==
  /\ Alive /\ listener = "draining"
  /\ expired' = TRUE
  /\ listener' = "stopped" /\ handlersCancelled' = TRUE /\ attached' = {}
  /\ UNCHANGED <<procVars, pending, handler, connection, sweep, serverVars, refresherVars, pool>>
-----------------------------------------------------------------------------
(* The sweep: Reconciler.Run under the process context.                    *)
Sweep ==
  /\ Alive /\ sweep = "waiting" /\ ~signalled
  /\ sweep' = "running"
  /\ UNCHANGED <<procVars, listenerVars, serverVars, refresherVars, pool>>

SweepEnds ==
  /\ Alive /\ sweep = "running"
  /\ sweep' = IF signalled THEN "stopped" ELSE "waiting"
  /\ UNCHANGED <<procVars, listenerVars, serverVars, refresherVars, pool>>
-----------------------------------------------------------------------------
(* Item writes, and the refreshes they start.                              *)

\* The server takes requests until Shutdown closes its sockets.
Accept(r) ==
  /\ main \in {"serving", "stopListener"} /\ request[r] = "none"
  /\ request' = [request EXCEPT ![r] = "writing"]
  /\ UNCHANGED <<procVars, listenerVars, sweep, forced, refresherVars, pool>>

\* Mutant: the requests Shutdown gave up on keep their connections.
ConnectionCut_Never == FALSE
\* A forced close ends the context of every request still running.
ConnectionCut == forced

\* The write failed, was refused, or its connection is gone.
RequestFails(r) ==
  /\ Alive /\ request[r] = "writing"
  /\ request' = [request EXCEPT ![r] = "answered"]
  /\ UNCHANGED <<procVars, listenerVars, sweep, forced, refresherVars, pool>>

\* The item committed: AfterItemWrite counts the request before it takes mu.
CommitWrite(r) ==
  /\ Alive /\ request[r] = "writing"
  /\ request' = [request EXCEPT ![r] = "asking"]
  /\ counts' = [counts EXCEPT !["requested"] = @ + 1]
  /\ UNCHANGED <<procVars, listenerVars, sweep, forced, refresh, stopped, abandoned, pool>>

Refuses == stopped

\* Mutant: a refusal is not counted.
Dropped_Silently == counts
Dropped == [counts EXCEPT !["dropped"] = @ + 1]

\* Under mu: refuse, or join the wait group. The goroutine then runs alone.
AfterItemWrite(r) ==
  /\ Alive /\ request[r] = "asking"
  /\ request' = [request EXCEPT ![r] = "answered"]
  /\ IF Refuses
     THEN counts' = Dropped /\ refresh' = refresh
     ELSE counts' = counts /\ refresh' = [refresh EXCEPT ![r] = "running"]
  /\ UNCHANGED <<procVars, listenerVars, sweep, forced, stopped, abandoned, pool>>

\* A panic is recovered and counted with the failures.
Counted(how) == IF how = "panic" THEN "failed" ELSE how

\* refresh returns: published, nothing to publish, an error (which its own
\* deadline or abandon makes of a call that hangs), or a recovered panic.
RefreshEnds(r) ==
  /\ Alive /\ refresh[r] = "running"
  /\ \E how \in Outcomes \cup {"panic"} :
       counts' = [counts EXCEPT ![Counted(how)] = @ + 1]
  /\ refresh' = [refresh EXCEPT ![r] = "none"]
  /\ UNCHANGED <<procVars, listenerVars, sweep, serverVars, stopped, abandoned, pool>>
-----------------------------------------------------------------------------
(* StartServer and runServerWithContext.                                   *)
Signal ==
  /\ Alive /\ ~signalled /\ signalled' = TRUE
  /\ UNCHANGED <<main, listenerVars, sweep, serverVars, refresherVars, pool>>

\* StartProjectListener returned, attached or not.
Serve ==
  /\ Go("starting", "serving") /\ listener \in {"attached", "stopped"}
  /\ UNCHANGED <<signalled, listenerVars, sweep, serverVars, refresherVars, pool>>

\* Stop taking events first. A listener that never attached has nothing to stop.
StopListener ==
  /\ Go("serving", "stopListener") /\ signalled
  /\ listener' = IF listener = "attached" THEN "draining" ELSE listener
  /\ UNCHANGED <<signalled, attached, pending, handler, expired, handlersCancelled,
                 connection, sweep, serverVars, refresherVars, pool>>

ShutdownServer ==
  /\ Go("stopListener", "shutdownServer") /\ listener = "stopped"
  /\ UNCHANGED <<signalled, listenerVars, sweep, serverVars, refresherVars, pool>>

RequestsDone == \A r \in Requests : request[r] \in {"none", "answered"}

\* Shutdown waits for the requests; at its timeout Close cuts their connections
\* and waits for nobody.
ServerDown ==
  /\ Go("shutdownServer", "stopRefresher")
  /\ forced' = ~RequestsDone
  /\ UNCHANGED <<signalled, listenerVars, sweep, request, refresherVars, pool>>

\* Refresher.Stop: refuse, then wait.
StopRefresher ==
  /\ Go("stopRefresher", "drainRefresher") /\ stopped' = TRUE
  /\ UNCHANGED <<signalled, listenerVars, sweep, serverVars, refresh, abandoned, counts, pool>>

RefreshesDone == \A r \in Requests : refresh[r] = "none"

Abandon ==
  /\ main = "drainRefresher" /\ ~abandoned /\ ~RefreshesDone
  /\ abandoned' = TRUE
  /\ UNCHANGED <<procVars, listenerVars, sweep, serverVars, refresh, stopped, counts, pool>>

\* Mutant: the wait ends with the budget, as the listener's does.
StopReturns_AtBudget == RefreshesDone \/ abandoned
StopReturns == RefreshesDone

\* closeFn: NATS is drained, then the pool is closed.
Close ==
  /\ Go("drainRefresher", "closing") /\ StopReturns
  /\ pool' = "closing"
  /\ UNCHANGED <<signalled, listenerVars, sweep, serverVars, refresherVars>>

\* Closing waits for the connections in use; whoever is between two statements
\* uses none.
Working ==
  \/ sweep = "running"
  \/ \E s \in Subjects : handler[s] # "idle"
  \/ \E r \in Requests : request[r] = "writing" \/ refresh[r] = "running"

PoolClosed ==
  /\ Alive /\ pool = "closing" /\ pool' = "closed"
  /\ UNCHANGED <<procVars, listenerVars, sweep, serverVars, refresherVars>>

Exit ==
  /\ Go("closing", "exited") /\ pool = "closed"
  /\ UNCHANGED <<signalled, listenerVars, sweep, serverVars, refresherVars, pool>>

\* ListenAndServe fails, or the pod is killed: nothing is drained.
Killed ==
  /\ Alive /\ main' = "killed"
  /\ UNCHANGED <<signalled, listenerVars, sweep, serverVars, refresherVars, pool>>

Init ==
  /\ main = "starting" /\ signalled = FALSE
  /\ listener = "attaching" /\ attached = {} /\ expired = FALSE
  /\ handlersCancelled = FALSE /\ connection = "open"
  /\ pending = [s \in Subjects |-> 0] /\ handler = [s \in Subjects |-> "idle"]
  /\ sweep = "waiting"
  /\ request = [r \in Requests |-> "none"] /\ forced = FALSE
  /\ refresh = [r \in Requests |-> "none"] /\ stopped = FALSE /\ abandoned = FALSE
  /\ counts = [c \in Counters |-> 0]
  /\ pool = "open"

ListenerNext ==
  \/ SubscribeFails \/ ConnectionCloses
  \/ ListenerDrained \/ ListenerExpires
  \/ \E s \in Subjects : Subscribe(s) \/ Event(s) \/ BeginHandle(s) \/ CutHandle(s) \/ EndHandle(s)

RequestNext ==
  \E r \in Requests :
    \/ Accept(r) \/ RequestFails(r) \/ CommitWrite(r)
    \/ AfterItemWrite(r) \/ RefreshEnds(r)

MainNext ==
  \/ Serve \/ StopListener \/ ShutdownServer \/ ServerDown
  \/ StopRefresher \/ Abandon \/ Close \/ Exit

Next ==
  \/ ListenerNext \/ Sweep \/ SweepEnds \/ RequestNext
  \/ Signal \/ MainNext \/ PoolClosed \/ Killed

Spec == Init /\ [][Next]_vars

\* What always comes: the timers, the next line of main, the end of work whose
\* context is cancelled or has a deadline of its own (a refresh), and a pool
\* that closes once nobody works. Work under a live context may hang for ever.
FairSpec ==
  /\ Spec
  /\ WF_vars(MainNext)
  /\ WF_vars(SubscribeFails \/ \E s \in Subjects : Subscribe(s))
  /\ WF_vars(ListenerDrained \/ ListenerExpires)
  /\ WF_vars(signalled /\ SweepEnds)
  /\ \A s \in Subjects : WF_vars(CutHandle(s)) /\ WF_vars(handler[s] = "cut" /\ EndHandle(s))
  /\ \A s \in Subjects : WF_vars(BeginHandle(s))
  /\ \A r \in Requests :
       /\ WF_vars(ConnectionCut /\ RequestFails(r))
       /\ WF_vars(AfterItemWrite(r)) /\ WF_vars(RefreshEnds(r))
  /\ WF_vars(~Working /\ PoolClosed)
-----------------------------------------------------------------------------
\* refresher.go: "this still does not return until they have exited". No
\* background refresh runs once the pool starts closing, not even one asked for
\* by a request that outlived the server's shutdown.
RefreshesEndBeforePool == pool # "open" => RefreshesDone

\* refresher.go, Counts: "Requested less the other four is the number in flight"
\* - the refreshes running and the writes about to start one. Nothing is counted
\* twice or not at all: not on a refusal, a panic or an abandoned call. This is about
\* the counters at one moment; Counts() loads them one after the other, so a line
\* logged while refreshes run may be off by those that ended in between.
InFlight == Cardinality({r \in Requests : request[r] = "asking"})
          + Cardinality({r \in Requests : refresh[r] = "running"})
CountsBalance ==
  counts["requested"] = InFlight + counts["published"] + counts["skipped"]
                      + counts["failed"] + counts["dropped"]

\* listener.go, Start: a handler is never told to give up by the signal that
\* starts the shutdown, only once the drain budget has run out, or with a NATS
\* connection that closed and cannot be drained.
CutOnlyPastTheBudget ==
  (\E s \in Subjects : handler[s] = "cut") => expired \/ connection = "closed"

\* listener.go, Start: "A half-attached listener is worse than none". Whatever
\* subscription failed, the process serves either with every subject or none.
NeverHalfAttached ==
  main = "serving" => attached \in {{}, Subjects}

\* A signalled process ends by itself however its work hangs: every wait of the
\* shutdown is bounded or on work that is cancelled, and closing the pool waits
\* for nothing that nobody cancelled.
ShutdownEnds == signalled ~> ~Alive
=============================================================================
