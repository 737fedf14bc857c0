---------------------------- MODULE TokioEndpoint ----------------------------
(* The Tokio adapter: tasks that share endpoints, each a controller behind a   *)
(* mutex with two Notify.  A critical section is one step, except that a pair  *)
(* takes two locks one after the other; the wakeups it asked for are delivered *)
(* after unlocking, one by one, while other tasks run.  A waiter registers     *)
(* with the Notify, looks at the controller under the lock, and only then      *)
(* sleeps.  A future may be dropped wherever it is suspended.                  *)
EXTENDS P2C

CONSTANTS
    Task,           \* the tasks that drive the endpoints
    Endpoint,       \* the endpoints, by address
    Completion,     \* how requests may end
    LastReserveAt,  \* bound: nobody reserves later
    MaxTime         \* bound: the clock stops here

ASSUME TokioAssumption ==
    /\ None \notin Task
    /\ Endpoint \subseteq Nat
    /\ Completion \subseteq {"Success", "Failure", "Abandoned"}
    /\ LastReserveAt \in Instant
    /\ MaxTime \in Instant

VARIABLES
    ctl,        \* each endpoint's controller
    now,        \* Tokio's clock
    holder,     \* the task that keeps an endpoint locked between two steps
    task,       \* what each task is doing, and the guards it owns
    owed        \* the notify_waiters calls each task still has to make

vars == <<ctl, now, holder, task, owed>>

(* The states of a task:                                                       *)
(*   idle         outside the adapter                                          *)
(*   pair         in try_reserve_pair, holding the lower of the two locks      *)
(*   reserved     owns a Reservation that was never polled                     *)
(*   check        in dispatch, registered, about to lock                       *)
(*   looked       unlocked again, about to suspend                             *)
(*   timed        asleep in timeout_at                                         *)
(*   parked       asleep on the Notify alone                                   *)
(*   active       owns an ActiveRequest                                        *)
(*   ready_check  in ready, registered, about to lock                          *)
(*   ready_looked unlocked again, about to suspend                             *)
(*   ready_wait   asleep in ready                                              *)
Reserving == {"reserved", "check", "looked", "timed", "parked"}
State == Reserving \cup {"idle", "pair", "active", "ready_check", "ready_looked", "ready_wait"}

Idle == [pc |-> "idle", at |-> None, other |-> None, token |-> None,
         deadline |-> None, woken |-> FALSE]

\* owns a Reservation, or the InFlightRequest of an ActiveRequest, of `at`
Reserved(e, c) ==
    [Idle EXCEPT !.pc = "reserved", !.at = e,
                 !.token = [controller_id |-> e, id |-> c.next_id - 1]]

Effect == [at : Endpoint, kind : {"admission", "dispatch"}]
Effects(e, changes) ==
    (IF changes.admission THEN <<[at |-> e, kind |-> "admission"]>> ELSE <<>>) \o
    (IF changes.dispatch THEN <<[at |-> e, kind |-> "dispatch"]>> ELSE <<>>)

Init ==
    /\ ctl = [e \in Endpoint |-> NewController(e, 0)]
    /\ now = 0
    /\ holder = [e \in Endpoint |-> None]
    /\ task = [p \in Task |-> Idle]
    /\ owed = [p \in Task |-> <<>>]

At(p, pc) == task[p].pc = pc /\ owed[p] = <<>>

\* with_controller: the critical section leaves `after` and task p in state
\* `next`; p owes the wakeups that `after` asks for.
WithController(p, e, after, next) ==
    /\ holder[e] = None
    /\ ctl' = [ctl EXCEPT ![e] = TakeChanges(after)]
    /\ owed' = [owed EXCEPT ![p] = Effects(e, after.changes)]
    /\ task' = [task EXCEPT ![p] = next]
    /\ UNCHANGED <<now, holder>>
-------------------------------------------------------------------------------
\* try_reserve()
TryReserve(p, e) ==
    /\ At(p, "idle") /\ now <= LastReserveAt
    /\ \E fresh \in {Refresh(ctl[e], draw, now) : draw \in Draws(ctl[e], now)} :
          LET after == Reserve(fresh, now)
          IN WithController(p, e, after, IF CanReserve(fresh) THEN Reserved(e, after) ELSE Idle)

Lower(a, b) == Earlier(a, b)
Upper(a, b) == Later(a, b)

\* A slip: the locks are taken in the order of the arguments.
LockPairAsGiven(p, first, second) ==
    /\ At(p, "idle") /\ now <= LastReserveAt
    /\ first # second
    /\ holder[first] = None
    /\ holder' = [holder EXCEPT ![first] = p]
    /\ task' = [task EXCEPT ![p] = [Idle EXCEPT !.pc = "pair", !.at = first, !.other = second]]
    /\ UNCHANGED <<ctl, now, owed>>

\* try_reserve_pair(): the lock at the lower address is taken first.  Two clones
\* of one endpoint are a TryReserve.
LockPair(p, first, second) ==
    /\ At(p, "idle") /\ now <= LastReserveAt
    /\ first # second
    /\ holder[Lower(first, second)] = None
    /\ holder' = [holder EXCEPT ![Lower(first, second)] = p]
    /\ task' = [task EXCEPT ![p] = [Idle EXCEPT !.pc = "pair", !.at = first, !.other = second]]
    /\ UNCHANGED <<ctl, now, owed>>

\* The lock p still needs is the one it does not hold.
Wanted(p) == IF holder[task[p].at] = p THEN task[p].other ELSE task[p].at

\* ... then the other one; the choice is made under both.
ReserveFromPair(p) ==
    LET first == task[p].at
        second == task[p].other
        low == Lower(first, second)
        high == Upper(first, second)
    IN /\ At(p, "pair")
       /\ holder[Wanted(p)] = None
       /\ \E pair \in {ReservePair(ctl[first], ctl[second], draws, now) :
                          draws \in Draws(ctl[first], now) \X Draws(ctl[second], now)} :
             LET left == [ctl EXCEPT ![first] = pair.first, ![second] = pair.second]
             IN /\ ctl' = [ctl EXCEPT ![first] = TakeChanges(pair.first),
                                      ![second] = TakeChanges(pair.second)]
                /\ owed' = [owed EXCEPT ![p] = Effects(low, left[low].changes)
                                               \o Effects(high, left[high].changes)]
                /\ task' = [task EXCEPT ![p] =
                              CASE pair.choice = "First" -> Reserved(first, pair.first)
                                [] pair.choice = "Second" -> Reserved(second, pair.second)
                                [] pair.choice = "Neither" -> Idle]
       /\ holder' = [e \in Endpoint |-> IF holder[e] = p THEN None ELSE holder[e]]
       /\ UNCHANGED now
-------------------------------------------------------------------------------
\* A slip: a sleeper waits for its notification whatever the time.
AwakeWhenNotified(p) ==
    \/ At(p, "reserved")
    \/ task[p].pc \in {"timed", "parked"} /\ task[p].woken

\* Why a dispatch future is polled with something to do.
Awake(p) ==
    \/ At(p, "reserved")
    \/ task[p].pc \in {"timed", "parked"} /\ task[p].woken
    \/ task[p].pc = "timed" /\ task[p].deadline <= now

\* The loop of dispatch() begins: an old registration is dropped, a new one made.
Register(p) ==
    /\ Awake(p)
    /\ task' = [task EXCEPT ![p].pc = "check", ![p].woken = FALSE, ![p].deadline = None]
    /\ UNCHANGED <<ctl, now, holder, owed>>

\* ... and goes on under the lock.  The wakeups a waiter caused are dropped, the
\* wakeups of a dispatch are delivered.
TryDispatch(p) ==
    LET e == task[p].at IN
    /\ At(p, "check")
    /\ holder[e] = None
    /\ \E result \in {OnDispatched(ctl[e], task[p].token, draw, now) :
                          draw \in Draws(ctl[e], now)} :
          /\ ctl' = [ctl EXCEPT ![e] = TakeChanges(result.ctl)]
          /\ IF result.answer.tag = "Ready"
             THEN /\ task' = [task EXCEPT ![p] = [Idle EXCEPT !.pc = "active", !.at = e,
                                                              !.token = result.token]]
                  /\ owed' = [owed EXCEPT ![p] = Effects(e, result.ctl.changes)]
             ELSE /\ task' = [task EXCEPT
                                ![p].pc = "looked", ![p].deadline = result.answer.at]
                  /\ UNCHANGED owed
    /\ UNCHANGED <<now, holder>>

\* Only WaitUntil comes with a deadline.
Suspend(p) ==
    /\ task[p].pc = "looked"
    /\ task' = [task EXCEPT ![p].pc = IF task[p].deadline = None THEN "parked" ELSE "timed"]
    /\ UNCHANGED <<ctl, now, holder, owed>>

\* A slip: the guard is dropped without a call to cancel.
ForgetReservation(p) ==
    /\ task[p].pc \in {"timed", "parked"} \/ At(p, "reserved")
    /\ task' = [task EXCEPT ![p] = Idle]
    /\ UNCHANGED <<ctl, now, holder, owed>>

\* Reservation's Drop, before the first poll or while dispatch() is suspended.
DropReservation(p) ==
    /\ task[p].pc \in {"timed", "parked"} \/ At(p, "reserved")
    /\ WithController(p, task[p].at, Cancel(ctl[task[p].at], task[p].token, now), Idle)

\* A slip: finish() leaves the token in the guard.
FinishKeepingGuard(p, completion) ==
    LET e == task[p].at IN
    /\ At(p, "active")
    /\ WithController(p, e, Finish(ctl[e], task[p].token, completion, now), task[p])

\* finish(), or ActiveRequest's Drop when the completion is Abandoned.
FinishRequest(p, completion) ==
    LET e == task[p].at IN
    /\ At(p, "active")
    /\ WithController(p, e, Finish(ctl[e], task[p].token, completion, now), Idle)

\* load() and snapshot()
ReadLoad(p, e) ==
    /\ At(p, "idle")
    /\ \E draw \in Draws(ctl[e], now) :
          WithController(p, e, Refresh(ctl[e], draw, now), Idle)
-------------------------------------------------------------------------------
\* ready(): the same registration before the same look, without a claim.
AwaitCapacity(p, e) ==
    /\ At(p, "idle")
    /\ task' = [task EXCEPT ![p] = [Idle EXCEPT !.pc = "ready_check", !.at = e]]
    /\ UNCHANGED <<ctl, now, holder, owed>>

LookForCapacity(p) ==
    /\ task[p].pc = "ready_check"
    /\ holder[task[p].at] = None
    /\ task' = [task EXCEPT ![p] = IF MaySchedule(ctl[task[p].at]) THEN Idle
                                   ELSE [@ EXCEPT !.pc = "ready_looked"]]
    /\ UNCHANGED <<ctl, now, holder, owed>>

SuspendReady(p) ==
    /\ task[p].pc = "ready_looked"
    /\ task' = [task EXCEPT ![p].pc = "ready_wait"]
    /\ UNCHANGED <<ctl, now, holder, owed>>

LookAgain(p) ==
    /\ task[p].pc = "ready_wait" /\ task[p].woken
    /\ task' = [task EXCEPT ![p].pc = "ready_check", ![p].woken = FALSE]
    /\ UNCHANGED <<ctl, now, holder, owed>>

DropReady(p) ==
    /\ task[p].pc = "ready_wait"
    /\ task' = [task EXCEPT ![p] = Idle]
    /\ UNCHANGED <<ctl, now, holder, owed>>
-------------------------------------------------------------------------------
\* A slip: a waiter registers only when it goes to sleep.
RegisteredAsleep(q, effect) ==
    /\ task[q].at = effect.at
    /\ task[q].pc \in IF effect.kind = "dispatch" THEN {"timed", "parked"}
                      ELSE {"ready_wait"}

Registered(q, effect) ==
    /\ task[q].at = effect.at
    /\ task[q].pc \in IF effect.kind = "dispatch" THEN {"check", "looked", "timed", "parked"}
                      ELSE {"ready_check", "ready_looked", "ready_wait"}

\* notify(): one notify_waiters call wakes everyone who is registered.
Notify(p) ==
    /\ owed[p] # <<>>
    /\ task' = [q \in Task |-> IF Registered(q, Head(owed[p]))
                               THEN [task[q] EXCEPT !.woken = TRUE] ELSE task[q]]
    /\ owed' = [owed EXCEPT ![p] = Tail(@)]
    /\ UNCHANGED <<ctl, now, holder>>

Tick ==
    /\ now < MaxTime
    /\ now' = now + 1
    /\ UNCHANGED <<ctl, holder, task, owed>>

Next ==
    \/ \E p \in Task, e \in Endpoint : TryReserve(p, e)
    \/ \E p \in Task, a, b \in Endpoint : LockPair(p, a, b)
    \/ \E p \in Task : ReserveFromPair(p)
    \/ \E p \in Task : Register(p)
    \/ \E p \in Task : TryDispatch(p)
    \/ \E p \in Task : Suspend(p)
    \/ \E p \in Task : DropReservation(p)
    \/ \E p \in Task, completion \in Completion : FinishRequest(p, completion)
    \/ \E p \in Task, e \in Endpoint : ReadLoad(p, e)
    \/ \E p \in Task, e \in Endpoint : AwaitCapacity(p, e)
    \/ \E p \in Task : LookForCapacity(p)
    \/ \E p \in Task : SuspendReady(p)
    \/ \E p \in Task : LookAgain(p)
    \/ \E p \in Task : DropReady(p)
    \/ \E p \in Task : Notify(p)
    \/ Tick

\* Task p has a step of its own to take: it was spawned with a reservation, was
\* woken, stands before a lock that is free, owes notifications, or awaits a
\* request that ends.
Runnable(p) ==
    \/ Awake(p)
    \/ At(p, "check") /\ holder[task[p].at] = None
    \/ At(p, "looked")
    \/ At(p, "active") /\ holder[task[p].at] = None
    \/ owed[p] # <<>>

Runs(p) == task'[p].pc # task[p].pc \/ owed'[p] # owed[p]

\* The runtime polls every task it woke, lock sections and notifications end, time
\* passes; and, as the adapter asks of its callers, a reservation is polled or
\* dropped and a request ends.  The second conjunct is weak fairness of each
\* task, with its ENABLED written out.
Fairness ==
    /\ WF_vars(Tick)
    /\ \A p \in Task : []<>~Runnable(p) \/ []<><<Runs(p)>>_vars

Spec == Init /\ [][Next]_vars
FairSpec == Spec /\ Fairness
-------------------------------------------------------------------------------
(* Properties.                                                                 *)

\* Every guard a task owns, every lock and every wakeup is of its type.
TypeOK ==
    /\ DOMAIN ctl = Endpoint /\ \A e \in Endpoint : ctl[e] \in ControllerOf(e)
    /\ now \in Instant
    /\ holder \in [Endpoint -> Task \cup {None}]
    /\ DOMAIN task = Task
    /\ \A p \in Task :
          /\ task[p].pc \in State
          /\ task[p].at \in Endpoint \cup {None}
          /\ task[p].deadline \in Instant \cup {None}
          /\ task[p].woken \in BOOLEAN
    /\ owed \in [Task -> Seq(Effect)]

Owners(e, states) == {p \in Task : task[p].pc \in states /\ task[p].at = e}

\* The guards and the controllers never drift apart: what is queued is what tasks
\* hold reservations of, one each, and what is in flight is what they are
\* awaiting.  So a live reservation is never told Cancelled (the unreachable!()
\* of dispatch), and a dropped future leaves nothing behind.
GuardsMatchControllers ==
    \A e \in Endpoint :
        /\ Ids(ctl[e]) = {task[p].token.id : p \in Owners(e, Reserving)}
        /\ Queued(ctl[e]) = Cardinality(Owners(e, Reserving))
        /\ ctl[e].inflight = Cardinality(Owners(e, {"active"}))
        /\ \A p \in Owners(e, Reserving \cup {"active"}) : Owns(ctl[e], task[p].token)

Owed(e, kind) == \E q \in Task : [at |-> e, kind |-> kind] \in Range(owed[q])

\* No wakeup is lost between a look at the controller and the sleep that follows,
\* nor with the effects that waiters drop: a task that sleeps without being woken
\* has nothing to do yet, or someone is about to wake it.
NoLostWakeup ==
    \A p \in Task :
        LET e == task[p].at
            asleep == ~task[p].woken
        IN /\ task[p].pc = "parked" /\ asleep =>
                \/ ~HeadIs(ctl[e], task[p].token.id)
                \/ InflightFull(ctl[e])
                \/ Owed(e, "dispatch")
           /\ task[p].pc = "timed" /\ asleep =>
                \/ task[p].deadline <= Later(now, HeadDue(ctl[e]))
                \/ Owed(e, "dispatch")
           /\ task[p].pc = "ready_wait" /\ asleep =>
                \/ ~MaySchedule(ctl[e])
                \/ Owed(e, "admission")

\* Tasks that pair the same endpoints in opposite orders never hold one lock each
\* and wait for the other's.
NoLockCycle ==
    \A p, q \in Task :
        p # q /\ task[p].pc = "pair" /\ task[q].pc = "pair"
        => ~(holder[Wanted(p)] = q /\ holder[Wanted(q)] = p)

\* A pair is refused only if both candidates are full, and its reservation is at
\* the other one only if that is cheaper or the first is full: locking by address
\* leaves no trace in the choice.
Cost(p, e) == IF task'[p].at = e
              THEN SaturatingAdd(Last(ctl'[e].pending).scheduled_at, ExpectedOf(ctl'[e].latency))
              ELSE PredictedCompletion(ctl'[e], now)
PairPrefersCheaper ==
    [][ \A p \in Task : task[p].pc = "pair" /\ task'[p].pc # "pair" =>
          LET first == task[p].at
              second == task[p].other
          IN CASE task'[p].pc = "idle" -> ~CanReserve(ctl'[first]) /\ ~CanReserve(ctl'[second])
               [] task'[p].at = first -> CanReserve(ctl'[second]) =>
                                           Cost(p, first) <= Cost(p, second)
               [] task'[p].at = second -> CanReserve(ctl'[first]) =>
                                            Cost(p, second) < Cost(p, first) ]_vars

\* Who holds a reservation and keeps polling is let through in the end, or gives
\* up by itself: no task sleeps forever behind others that come, leave, finish or
\* read the load.
EveryoneIsServed ==
    \A p \in Task : task[p].pc \in Reserving ~> task[p].pc \in {"active", "idle"}
===============================================================================
