----------------------------- MODULE RamaEndpoint -----------------------------
(* The Rama adapter: tasks that call one endpoint through its clones.  It      *)
(* differs from the Tokio adapter in two ways.  A waiter checks its turn and   *)
(* claims it in two critical sections, so the turn may be gone in between; and *)
(* the clock of a check, of a completion and of a drop is read before the      *)
(* lock, so the controller may be given an instant older than the last one.    *)
EXTENDS Controller

CONSTANTS
    Task,           \* the tasks that call serve
    Completion,     \* how dispatched requests may end
    LastServeAt,    \* bound: nobody calls serve later
    MaxTime         \* bound: the clock stops here

ASSUME RamaAssumption ==
    /\ None \notin Task
    /\ Completion \subseteq {"Success", "Failure", "Abandoned"}
    /\ LastServeAt \in Instant
    /\ MaxTime \in Instant

VARIABLES
    ctl,        \* the controller
    now,        \* Tokio's clock
    task,       \* where each task is in serve, and its RequestGuard
    notifying   \* the tasks that unlocked and have still to call notify_waiters

vars == <<ctl, now, task, notifying>>

(* The states of a task:                                                       *)
(*   idle     outside the adapter                                              *)
(*   fresh    owns the future serve returned, never polled                     *)
(*   check    registered and has read the clock, about to lock                 *)
(*   looked   unlocked again, about to suspend                                 *)
(*   timed    asleep in timeout                                                *)
(*   parked   asleep on the Notify alone                                       *)
(*   claim    was told Ready, about to lock again                              *)
(*   retry    was too late after all                                           *)
(*   active   awaits the inner service                                         *)
(*   end      finishes its guard and has read the clock, about to lock         *)
State == {"idle", "fresh", "check", "looked", "timed", "parked", "claim", "retry",
          "active", "end"}

\* guard is RequestState; `read` the instant a task has read and not yet used.
Idle == [pc |-> "idle", guard |-> "Finished", token |-> None, read |-> None,
         deadline |-> None, completion |-> None, woken |-> FALSE]

Init ==
    /\ ctl = NewController("self", 0)
    /\ now = 0
    /\ task = [p \in Task |-> Idle]
    /\ notifying = {}

At(p, pc) == task[p].pc = pc /\ p \notin notifying

\* with_controller: the section leaves `after` and task p in state `next`.
WithController(p, after, next) ==
    /\ ctl' = TakeChanges(after)
    /\ task' = [task EXCEPT ![p] = next]
    /\ notifying' = IF after.changes.dispatch THEN notifying \cup {p} ELSE notifying
    /\ UNCHANGED now
-------------------------------------------------------------------------------
\* serve() reserves at once, without a refresh, or the future it returns is an
\* error.
Serve(p) ==
    /\ At(p, "idle") /\ now <= LastServeAt
    /\ CanReserve(ctl)
    /\ ctl' = Reserve(ctl, now)
    /\ task' = [task EXCEPT ![p] = [Idle EXCEPT !.pc = "fresh", !.guard = "Reserved",
                                      !.token = [controller_id |-> "self", id |-> ctl.next_id]]]
    /\ UNCHANGED <<now, notifying>>

\* Why the future is polled with something to do, or goes on at once.
Awake(p) ==
    \/ At(p, "fresh")
    \/ At(p, "retry")
    \/ task[p].pc \in {"timed", "parked"} /\ task[p].woken
    \/ task[p].pc = "timed" /\ task[p].deadline <= now

\* The loop of wait_for_dispatch begins: register, then read the clock.
Register(p) ==
    /\ Awake(p)
    /\ task' = [task EXCEPT ![p].pc = "check", ![p].read = now,
                            ![p].woken = FALSE, ![p].deadline = None]
    /\ UNCHANGED <<ctl, now, notifying>>

\* dispatch_state(): the effects a waiter caused are dropped.
Inspect(p) ==
    /\ task[p].pc = "check"
    /\ \E checked \in {Check(ctl, task[p].token, draw, task[p].read) :
                           draw \in Draws(ctl, task[p].read)} :
          /\ ctl' = TakeChanges(checked.ctl)
          /\ task' = [task EXCEPT
                        ![p].pc = IF checked.answer.tag = "Ready" THEN "claim" ELSE "looked",
                        ![p].read = None,
                        ![p].deadline = checked.answer.at]
    /\ UNCHANGED <<now, notifying>>

\* Only WaitUntil comes with a deadline.
Suspend(p) ==
    /\ task[p].pc = "looked"
    /\ task' = [task EXCEPT ![p].pc = IF task[p].deadline = None THEN "parked" ELSE "timed"]
    /\ UNCHANGED <<ctl, now, notifying>>

\* begin_dispatch() claims the turn at a clock read under the lock, or starts
\* over.
BeginDispatch(p) ==
    /\ task[p].pc = "claim"
    /\ \E result \in {OnDispatched(ctl, task[p].token, draw, now) : draw \in Draws(ctl, now)} :
          WithController(p, result.ctl,
            IF result.answer.tag = "Ready"
            THEN [Idle EXCEPT !.pc = "active", !.guard = "Dispatched", !.token = result.token]
            ELSE [task[p] EXCEPT !.pc = "retry"])

\* The inner service answers, or the future is dropped while it runs.
End(p, completion) ==
    /\ At(p, "active")
    /\ task' = [task EXCEPT ![p].pc = "end", ![p].read = now, ![p].completion = completion]
    /\ UNCHANGED <<ctl, now, notifying>>

\* The future is dropped before it was polled or while it waits for its turn.
Drop(p) ==
    /\ task[p].pc \in {"timed", "parked"} \/ At(p, "fresh")
    /\ task' = [task EXCEPT ![p].pc = "end", ![p].read = now, ![p].deadline = None,
                            ![p].woken = FALSE, ![p].completion = "Abandoned"]
    /\ UNCHANGED <<ctl, now, notifying>>

\* A slip: a guard that was never dispatched has nothing to give back.
FinishGuardForgetful(p) ==
    /\ task[p].pc = "end"
    /\ WithController(p, IF task[p].guard = "Dispatched"
                         THEN Finish(ctl, task[p].token, task[p].completion, task[p].read)
                         ELSE ctl, Idle)

\* A slip: the controller is told, the waiters are not.
FinishGuardQuietly(p) ==
    LET after == IF task[p].guard = "Dispatched"
                 THEN Finish(ctl, task[p].token, task[p].completion, task[p].read)
                 ELSE Cancel(ctl, task[p].token, task[p].read)
    IN /\ task[p].pc = "end"
       /\ ctl' = TakeChanges(after)
       /\ task' = [task EXCEPT ![p] = Idle]
       /\ UNCHANGED <<now, notifying>>

\* A slip: the state is not replaced by Finished, so the guard's Drop finishes
\* the request again.
FinishGuardTwice(p) ==
    /\ task[p].pc = "end"
    /\ WithController(p, IF task[p].guard = "Dispatched"
                         THEN Finish(ctl, task[p].token, task[p].completion, task[p].read)
                         ELSE Cancel(ctl, task[p].token, task[p].read),
                         IF task[p].completion = "Abandoned" THEN Idle
                         ELSE [task[p] EXCEPT !.completion = "Abandoned"])

\* RequestGuard::finish(), called by serve or by the guard's Drop.
FinishGuard(p) ==
    /\ task[p].pc = "end"
    /\ WithController(p, IF task[p].guard = "Dispatched"
                         THEN Finish(ctl, task[p].token, task[p].completion, task[p].read)
                         ELSE Cancel(ctl, task[p].token, task[p].read), Idle)

\* load_metric() and snapshot()
ReadMetric(p) ==
    /\ At(p, "idle")
    /\ \E draw \in Draws(ctl, now) : WithController(p, Refresh(ctl, draw, now), Idle)
-------------------------------------------------------------------------------
\* A slip: the Notify learns of a waiter when it suspends.
RegisteredAsleep(q) == task[q].pc \in {"timed", "parked"}

\* enable() comes before the check.
Registered(q) == task[q].pc \in {"check", "looked", "timed", "parked"}

\* notify_changes() after unlocking.
Notify(p) ==
    /\ p \in notifying
    /\ task' = [q \in Task |-> IF Registered(q) THEN [task[q] EXCEPT !.woken = TRUE]
                               ELSE task[q]]
    /\ notifying' = notifying \ {p}
    /\ UNCHANGED <<ctl, now>>

Tick ==
    /\ now < MaxTime
    /\ now' = now + 1
    /\ UNCHANGED <<ctl, task, notifying>>

Next ==
    \/ \E p \in Task : Serve(p)
    \/ \E p \in Task : Register(p)
    \/ \E p \in Task : Inspect(p)
    \/ \E p \in Task : Suspend(p)
    \/ \E p \in Task : BeginDispatch(p)
    \/ \E p \in Task, completion \in Completion : End(p, completion)
    \/ \E p \in Task : Drop(p)
    \/ \E p \in Task : FinishGuard(p)
    \/ \E p \in Task : ReadMetric(p)
    \/ \E p \in Task : Notify(p)
    \/ Tick

\* Task p has a step of its own to take: woken, in the middle of a call, or
\* awaiting an inner service that answers.
Runnable(p) ==
    \/ Awake(p)
    \/ task[p].pc \in {"check", "looked", "claim", "end"}
    \/ At(p, "active")
    \/ p \in notifying

Runs(p) == task'[p].pc # task[p].pc \/ (p \in notifying) # (p \in notifying')

\* The runtime polls every task it woke and runs it up to its next suspension;
\* time passes; the inner service ends.  The second conjunct is weak fairness of
\* each task, with its ENABLED written out.
Fairness ==
    /\ WF_vars(Tick)
    /\ \A p \in Task : []<>~Runnable(p) \/ []<><<Runs(p)>>_vars

Spec == Init /\ [][Next]_vars
FairSpec == Spec /\ Fairness
-------------------------------------------------------------------------------
(* Properties.                                                                 *)

\* The controller, the clocks and the guards have their types.
TypeOK ==
    /\ ctl \in ControllerOf("self")
    /\ now \in Instant
    /\ DOMAIN task = Task
    /\ \A p \in Task :
          /\ task[p].pc \in State
          /\ task[p].guard \in {"Reserved", "Dispatched", "Finished"}
          /\ task[p].read \in Instant \cup {None}
          /\ task[p].deadline \in Instant \cup {None}
          /\ task[p].completion \in Completion \cup {"Abandoned", None}
    /\ notifying \subseteq Task

Guards(state) == {p \in Task : task[p].guard = state}

\* Whatever is dropped wherever, the controller counts what the guards hold: no
\* place in the queue and no request in flight outlives its future, and a live
\* reservation is never told Cancelled (the unreachable!() of wait_for_dispatch).
GuardsMatchController ==
    /\ Ids(ctl) = {task[p].token.id : p \in Guards("Reserved")}
    /\ Queued(ctl) = Cardinality(Guards("Reserved"))
    /\ ctl.inflight = Cardinality(Guards("Dispatched"))

\* A task that sleeps without being woken has nothing to do yet, or someone is
\* about to wake it, although it checked at a clock that was already old, others
\* finish at clocks that are older still, and the effects of checks are dropped.
NoLostWakeup ==
    \A p \in Task :
        /\ task[p].pc = "parked" /\ ~task[p].woken =>
             \/ ~HeadIs(ctl, task[p].token.id)
             \/ InflightFull(ctl)
             \/ notifying # {}
        /\ task[p].pc = "timed" /\ ~task[p].woken =>
             \/ task[p].deadline <= Later(now, HeadDue(ctl))
             \/ notifying # {}

\* Every future that is kept alive reaches the inner service: the two critical
\* sections of a dispatch do not starve each other, and no task sleeps for ever.
EveryoneIsServed ==
    \A p \in Task : task[p].guard = "Reserved" ~> task[p].guard # "Reserved"
===============================================================================
