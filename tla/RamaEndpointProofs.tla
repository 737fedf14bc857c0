-------------------------- MODULE RamaEndpointProofs --------------------------
(* Whatever the tasks do through the Rama adapter, the controller counts what  *)
(* their guards hold, and nobody sleeps past the instant at which it could go. *)
EXTENDS RamaEndpoint, ControllerProofs

Ticket == [controller_id : {"self"}, id : 0 .. MaxId - 1]
Token == [controller_id : {"self"}, id : 0 .. MaxId - 1,
          dispatched_at : Instant, was_paced : BOOLEAN]

TaskState ==
    [pc : State, guard : {"Reserved", "Dispatched", "Finished"},
     token : Ticket \cup Token \cup {None}, read : Instant \cup {None},
     deadline : Instant \cup {None}, completion : Completion \cup {"Abandoned", None},
     woken : BOOLEAN]

Waiting == {"fresh", "check", "looked", "timed", "parked", "claim", "retry"}
Asleep == {"looked", "timed", "parked"}

\* What a task holds at each stage of serve.
Well(t) ==
    /\ t.pc = "idle" => t.guard = "Finished"
    /\ t.pc \in Waiting => t.guard = "Reserved"
    /\ t.pc = "active" => t.guard = "Dispatched"
    /\ t.pc = "end" => /\ t.guard \in {"Reserved", "Dispatched"}
                       /\ t.completion \in {"Success", "Failure", "Abandoned"}
    /\ t.pc \in {"check", "end"} => t.read \in Instant
    /\ t.pc = "timed" => t.deadline # None
    /\ t.pc = "parked" => t.deadline = None
    /\ t.guard = "Reserved" => t.token \in Ticket
    /\ t.guard = "Dispatched" => t.token \in Token

\* What a task that checked and went to sleep relies on while no wakeup is on its
\* way.
Attended(c, at, t, quiet) ==
    t.pc \in Asleep => Waits(c, at, t.token.id, t.deadline, ~t.woken /\ quiet)

Typed ==
    /\ ctl \in ControllerOf("self") /\ Paced(ctl) /\ Ordered(ctl)
    /\ ~ctl.changes.dispatch
    /\ now \in Instant
    /\ task \in [Task -> TaskState]
    /\ notifying \subseteq Task
    /\ \A p \in Task : Well(task[p])

\* The guards hold reservations of their own.
Counted ==
    /\ \A p, q \in Guards("Reserved") : task[p].token.id = task[q].token.id => p = q
    /\ IsFiniteSet(Guards("Reserved")) /\ IsFiniteSet(Guards("Dispatched"))
    /\ GuardsMatchController

AllAttended == \A p \in Task : Attended(ctl, now, task[p], notifying = {})

\* The inductive invariant.
IInv == Typed /\ Counted /\ AllAttended
-------------------------------------------------------------------------------
(* Sleepers.                                                                   *)

\* A sleeper that kept its place is attended to after a call that announced what
\* it changed.
LEMMA AttendedKept ==
    ASSUME NEW c \in ControllerOf("self"), NEW d \in ControllerOf("self"),
           Ordered(c), Ordered(d), NEW at \in Instant, NEW t \in TaskState,
           NEW quiet \in BOOLEAN, NEW still \in BOOLEAN,
           Attended(c, at, t, quiet), Announces(c, d, at),
           t.token.id \in Ids(c), t.token.id \in Ids(d),
           Ids(d) \subseteq Ids(c) \cup {c.next_id},
           still => quiet /\ ~d.changes.dispatch /\ d.inflight = c.inflight
    PROVE  Attended(d, at, t, still)
    BY WaitsKept DEF Attended, TaskState
-------------------------------------------------------------------------------
(* Counting.                                                                   *)

\* One task goes on: the others stay, and it is among the guards of its new
\* state only.
LEMMA TaskGoes ==
    ASSUME task \in [Task -> TaskState], NEW p \in Task, NEW next \in TaskState,
           task' = [task EXCEPT ![p] = next]
    PROVE  /\ task' \in [Task -> TaskState]
           /\ task'[p] = next /\ \A q \in Task \ {p} : task'[q] = task[q]
           /\ \A state \in {"Reserved", "Dispatched"} :
                 Guards(state)' = (Guards(state) \ {p}) \cup
                                  (IF next.guard = state THEN {p} ELSE {})
    BY DEF Guards

IdHeld == [q \in Task |-> task[q].token.id]

LEMMA CountedMatches ==
    Counted <=> Matches(ctl, Guards("Reserved"), IdHeld, Guards("Dispatched"))
    <1>1. \A q \in Guards("Reserved") : IdHeld[q] = task[q].token.id
        BY DEF Guards, IdHeld
    <1> QED
        BY <1>1 DEF Counted, GuardsMatchController, Matches

\* One task goes on, and the controller moved with it.
LEMMA CountedMoves ==
    ASSUME Counted, ctl \in ControllerOf("self"), Ordered(ctl), task \in [Task -> TaskState],
           NEW p \in Task, NEW next \in TaskState, task' = [task EXCEPT ![p] = next],
           next.guard = "Reserved" =>
               next.token.id = IF task[p].guard = "Reserved" THEN task[p].token.id ELSE ctl.next_id,
           Ids(ctl') = (Ids(ctl) \ (IF task[p].guard = "Reserved" THEN {task[p].token.id} ELSE {}))
                          \cup (IF next.guard = "Reserved" THEN {next.token.id} ELSE {}),
           Queued(ctl') = (Queued(ctl) - In(p, Guards("Reserved"))) + In(p, Guards("Reserved")'),
           ctl'.inflight = (ctl.inflight - In(p, Guards("Dispatched")))
                              + In(p, Guards("Dispatched")')
    PROVE  Counted'
    <1> DEFINE R == Guards("Reserved")
               D == Guards("Dispatched")
    <1>1. /\ task'[p] = next /\ \A q \in Task \ {p} : task'[q] = task[q]
          /\ R' = (R \ {p}) \cup (IF next.guard = "Reserved" THEN {p} ELSE {})
          /\ D' = (D \ {p}) \cup (IF next.guard = "Dispatched" THEN {p} ELSE {})
        BY TaskGoes
    <1>2. /\ IdHeld[p] = task[p].token.id /\ IdHeld'[p] = next.token.id
          /\ \A q \in R \ {p} : IdHeld'[q] = IdHeld[q]
        BY <1>1 DEF IdHeld, Guards
    <1>3. /\ p \in R <=> task[p].guard = "Reserved"
          /\ p \in R' <=> next.guard = "Reserved"
        BY <1>1 DEF Guards
    <1>4. R' \ {p} = R \ {p} /\ D' \ {p} = D \ {p}
        BY <1>1
    <1>5. Matches(ctl, R, IdHeld, D)
        BY CountedMatches
    <1>6. ctl.next_id \notin Ids(ctl)
        <2>1. ctl.next_id \in Int
            BY ControllerAssumption DEF ControllerOf
        <2> QED
            BY <2>1 DEF Ordered, Ids
    <1>7. Moves(ctl, ctl', p, R, IdHeld, D, R', IdHeld'[p], D')
        BY <1>2, <1>3 DEF Moves
    <1> HIDE DEF R, D
    <1>8. Matches(ctl', R', IdHeld', D')
        BY <1>2, <1>4, <1>5, <1>6, <1>7, OneMoves
    <1>9. (Counted <=> Matches(ctl, R, IdHeld, D))'
        BY CountedMatches, PTL DEF R, D
    <1> QED
        BY <1>8, <1>9

\* Neither the guards nor the queue change.
LEMMA SameCounted ==
    ASSUME Counted, ctl \in ControllerOf("self"), Ordered(ctl), task \in [Task -> TaskState],
           NEW p \in Task, NEW next \in TaskState, task' = [task EXCEPT ![p] = next],
           next.guard = task[p].guard,
           next.guard = "Reserved" => next.token.id = task[p].token.id,
           KeepsQueue(ctl, ctl')
    PROVE  Counted'
    <1>1. \A state \in {"Reserved", "Dispatched"} : In(p, Guards(state)') = In(p, Guards(state))
        BY TaskGoes DEF Guards, In
    <1>2. /\ Ids(ctl') = Ids(ctl) /\ Queued(ctl') = Queued(ctl) /\ ctl'.inflight = ctl.inflight
          /\ Queued(ctl) \in Nat /\ ctl.inflight \in Nat
        BY KeptIds, IdsAreNumbers DEF KeepsQueue, ControllerOf
    <1>3. task[p].guard = "Reserved" => task[p].token.id \in Ids(ctl)
        BY DEF Counted, GuardsMatchController, Guards
    <1>4. \A state \in {"Reserved", "Dispatched"} : In(p, Guards(state)) \in Int
        BY DEF In
    <1>7. Queued(ctl') = (Queued(ctl) - In(p, Guards("Reserved"))) + In(p, Guards("Reserved")')
        BY <1>1, <1>2, <1>4
    <1>8. ctl'.inflight = (ctl.inflight - In(p, Guards("Dispatched")))
                             + In(p, Guards("Dispatched")')
        BY <1>1, <1>2, <1>4
    <1>9. Ids(ctl') = (Ids(ctl) \ (IF task[p].guard = "Reserved" THEN {task[p].token.id} ELSE {}))
                         \cup (IF next.guard = "Reserved" THEN {next.token.id} ELSE {})
        BY <1>2, <1>3
    <1> QED
        BY <1>7, <1>8, <1>9, CountedMoves

\* A task reserves.
LEMMA ReservedCounted ==
    ASSUME Counted, ctl \in ControllerOf("self"), Ordered(ctl), task \in [Task -> TaskState],
           NEW p \in Task, NEW next \in TaskState, task' = [task EXCEPT ![p] = next],
           task[p].guard = "Finished", next.guard = "Reserved", next.token.id = ctl.next_id,
           Ids(ctl') = Ids(ctl) \cup {ctl.next_id},
           Queued(ctl') = Queued(ctl) + 1, ctl'.inflight = ctl.inflight
    PROVE  Counted'
    <1>1. /\ In(p, Guards("Reserved")) = 0 /\ In(p, Guards("Reserved")') = 1
          /\ In(p, Guards("Dispatched")) = 0 /\ In(p, Guards("Dispatched")') = 0
        BY TaskGoes DEF Guards, In
    <1>2. Queued(ctl) \in Nat /\ ctl.inflight \in Nat
        BY IdsAreNumbers DEF ControllerOf
    <1>7. Queued(ctl') = (Queued(ctl) - In(p, Guards("Reserved"))) + In(p, Guards("Reserved")')
        BY <1>1, <1>2
    <1>8. ctl'.inflight = (ctl.inflight - In(p, Guards("Dispatched")))
                             + In(p, Guards("Dispatched")')
        BY <1>1, <1>2
    <1>9. Ids(ctl') = (Ids(ctl) \ (IF task[p].guard = "Reserved" THEN {task[p].token.id} ELSE {}))
                         \cup (IF next.guard = "Reserved" THEN {next.token.id} ELSE {})
        OBVIOUS
    <1> QED
        BY <1>7, <1>8, <1>9, CountedMoves

\* A task gives its reservation up, or goes out with it.
LEMMA LeftCounted ==
    ASSUME Counted, ctl \in ControllerOf("self"), Ordered(ctl), task \in [Task -> TaskState],
           NEW p \in Task, NEW next \in TaskState, task' = [task EXCEPT ![p] = next],
           task[p].guard = "Reserved", next.guard # "Reserved",
           Ids(ctl') = Ids(ctl) \ {task[p].token.id}, Queued(ctl') = Queued(ctl) - 1,
           ctl'.inflight = IF next.guard = "Dispatched" THEN ctl.inflight + 1 ELSE ctl.inflight
    PROVE  Counted'
    <1>1. /\ In(p, Guards("Reserved")) = 1 /\ In(p, Guards("Reserved")') = 0
          /\ In(p, Guards("Dispatched")) = 0
          /\ In(p, Guards("Dispatched")') = IF next.guard = "Dispatched" THEN 1 ELSE 0
        BY TaskGoes DEF Guards, In
    <1>2. Queued(ctl) \in Nat /\ ctl.inflight \in Nat
        BY IdsAreNumbers DEF ControllerOf
    <1>7. Queued(ctl') = (Queued(ctl) - In(p, Guards("Reserved"))) + In(p, Guards("Reserved")')
        BY <1>1, <1>2
    <1>8. ctl'.inflight = (ctl.inflight - In(p, Guards("Dispatched")))
                             + In(p, Guards("Dispatched")')
        BY <1>1, <1>2
    <1>9. Ids(ctl') = (Ids(ctl) \ (IF task[p].guard = "Reserved" THEN {task[p].token.id} ELSE {}))
                         \cup (IF next.guard = "Reserved" THEN {next.token.id} ELSE {})
        OBVIOUS
    <1> QED
        BY <1>7, <1>8, <1>9, CountedMoves

\* A request in flight ends.
LEMMA EndedCounted ==
    ASSUME Counted, ctl \in ControllerOf("self"), Ordered(ctl), task \in [Task -> TaskState],
           NEW p \in Task, Idle \in TaskState, task' = [task EXCEPT ![p] = Idle],
           task[p].guard = "Dispatched", KeepsQueue([ctl EXCEPT !.inflight = @ - 1], ctl')
    PROVE  Counted'
    <1>1. /\ In(p, Guards("Reserved")) = 0 /\ In(p, Guards("Reserved")') = 0
          /\ In(p, Guards("Dispatched")) = 1 /\ In(p, Guards("Dispatched")') = 0
        BY TaskGoes DEF Guards, In, Idle
    <1>2. Queued(ctl) \in Nat /\ ctl.inflight \in Nat
        BY IdsAreNumbers DEF ControllerOf
    <1>3. Ids(ctl') = Ids(ctl) /\ Queued(ctl') = Queued(ctl) /\ ctl'.inflight = ctl.inflight - 1
        BY DEF KeepsQueue, Ids, Queued, ControllerOf
    <1>7. Queued(ctl') = (Queued(ctl) - In(p, Guards("Reserved"))) + In(p, Guards("Reserved")')
        BY <1>1, <1>2, <1>3
    <1>8. ctl'.inflight = (ctl.inflight - In(p, Guards("Dispatched")))
                             + In(p, Guards("Dispatched")')
        BY <1>1, <1>2, <1>3
    <1>9. Ids(ctl') = (Ids(ctl) \ (IF task[p].guard = "Reserved" THEN {task[p].token.id} ELSE {}))
                         \cup (IF Idle.guard = "Reserved" THEN {Idle.token.id} ELSE {})
        BY <1>3 DEF Idle
    <1> QED
        BY <1>7, <1>8, <1>9, CountedMoves DEF Idle
-------------------------------------------------------------------------------
(* Steps.                                                                      *)

LEMMA IdleFacts == Idle \in TaskState /\ Well(Idle) /\ Idle.guard = "Finished"
    BY DEF Idle, TaskState, State, Well, Waiting

\* The sleepers are among those the controller knows.
LEMMA SleepersQueue ==
    ASSUME IInv, NEW q \in Task, task[q].pc \in Asleep
    PROVE  q \in Guards("Reserved") /\ task[q].token.id \in Ids(ctl) /\ task[q].token \in Ticket
    BY DEF IInv, Typed, Counted, GuardsMatchController, Guards, Well, Waiting, Asleep

LEMMA TypedMove ==
    ASSUME Typed, ctl' \in ControllerOf("self"), Paced(ctl'), Ordered(ctl'),
           ~ctl'.changes.dispatch, now' = now, NEW p \in Task, NEW next \in TaskState, Well(next),
           task' = [task EXCEPT ![p] = next], notifying' \subseteq Task
    PROVE  Typed'
    <1>1. /\ task' \in [Task -> TaskState] /\ task'[p] = next
          /\ \A q \in Task \ {p} : task'[q] = task[q]
        BY TaskGoes DEF Typed
    <1>2. \A q \in Task : Well(task'[q])
        BY <1>1 DEF Typed
    <1>3. \A q \in Task : Well(task'[q]) = Well(task[q])'
        BY DEF Well
    <1> QED
        BY <1>1, <1>2, <1>3 DEF Typed

\* A step that is the business of one task.
LEMMA OwnStep ==
    ASSUME IInv, NEW p \in Task, NEW next \in TaskState, Well(next),
           task' = [task EXCEPT ![p] = next], UNCHANGED <<ctl, now, notifying>>,
           next.guard = task[p].guard,
           next.guard = "Reserved" => next.token.id = task[p].token.id,
           Attended(ctl, now, next, notifying = {})
    PROVE  IInv'
    <1>1. Typed'
        BY TypedMove DEF IInv, Typed
    <1>2. KeepsQueue(ctl, ctl')
        BY DEF KeepsQueue
    <1>3. Counted'
        BY <1>2, SameCounted DEF IInv, Typed
    <1>4. /\ task'[p] = next
          /\ \A q \in Task \ {p} : task'[q] = task[q]
        BY TaskGoes DEF IInv, Typed
    <1>5. \A q \in Task : Attended(ctl, now, task'[q], notifying = {})
        BY <1>4 DEF IInv, AllAttended
    <1>6. AllAttended'
        BY <1>5 DEF AllAttended, Attended
    <1> QED
        BY <1>1, <1>3, <1>6 DEF IInv

\* What a call that took a lock has to establish, whatever it did.
LEMMA CallStep ==
    ASSUME IInv, NEW p \in Task, NEW next \in TaskState, Well(next),
           task' = [task EXCEPT ![p] = next], now' = now, notifying' \subseteq Task,
           NEW d \in ControllerOf("self"), Paced(d), Ordered(d),
           (ctl' = d /\ ~d.changes.dispatch) \/ ctl' = TakeChanges(d),
           Announces(ctl, d, now),
           Ids(d) \subseteq Ids(ctl) \cup {ctl.next_id},
           \A q \in Guards("Reserved") \ {p} : task[q].token.id \in Ids(d),
           notifying' = {} => /\ notifying = {} /\ ~d.changes.dispatch
                              /\ d.inflight = ctl.inflight,
           Counted',
           Attended(d, now, next, notifying' = {})
    PROVE  IInv'
    <1>1. /\ TakeChanges(d) \in ControllerOf("self") /\ Paced(TakeChanges(d))
          /\ KeepsQueue(d, TakeChanges(d)) /\ TakeChanges(d).pending = d.pending
          /\ TakeChanges(d).inflight = d.inflight
          /\ HeadDue(TakeChanges(d)) = HeadDue(d)
        BY TakeChangesFacts
    <1>2. /\ ctl' \in ControllerOf("self") /\ Paced(ctl') /\ Ordered(ctl')
          /\ ~ctl'.changes.dispatch
        <2>1. ~TakeChanges(d).changes.dispatch
            BY DEF TakeChanges, NoChanges, ControllerOf
        <2> QED
            BY <1>1, <2>1, KeptIds
    <1>3. ctl'.pending = d.pending /\ ctl'.inflight = d.inflight /\ HeadDue(ctl') = HeadDue(d)
        BY <1>1
    <1>4. Typed'
        BY <1>2, TypedMove DEF IInv
    <1>5. /\ task'[p] = next
          /\ \A q \in Task \ {p} : task'[q] = task[q]
        BY TaskGoes DEF IInv, Typed
    <1>6. ASSUME NEW q \in Task PROVE Attended(d, now, task'[q], notifying' = {})
        <2>1. CASE q = p
            BY <1>5, <2>1
        <2>2. CASE q # p /\ task[q].pc \in Asleep
            <3>1. /\ q \in Guards("Reserved") \ {p} /\ task[q].token.id \in Ids(ctl)
                  /\ task[q] \in TaskState /\ Attended(ctl, now, task[q], notifying = {})
                  /\ ctl \in ControllerOf("self") /\ Ordered(ctl) /\ now \in Instant
                BY <2>2, SleepersQueue DEF IInv, Typed, AllAttended
            <3>2. task[q].token.id \in Ids(d)
                BY <3>1
            <3>3. Attended(d, now, task[q], notifying' = {})
                BY <3>1, <3>2, AttendedKept
            <3> QED
                BY <1>5, <2>2, <3>3
        <2>3. CASE q # p /\ task[q].pc \notin Asleep
            BY <1>5, <2>3 DEF Attended
        <2> QED
            BY <2>1, <2>2, <2>3
    <1>7. \A q \in Task : Attended(ctl', now, task'[q], notifying' = {})
        BY <1>3, <1>6 DEF Attended, Waits, HeadIs, InflightFull, Queued
    <1>8. AllAttended'
        BY <1>7 DEF AllAttended, Attended
    <1> QED
        BY <1>4, <1>8 DEF IInv

LEMMA ServeStep == ASSUME IInv, NEW p \in Task, Serve(p) PROVE IInv'
    <1> DEFINE d == Reserve(ctl, now)
               token == [controller_id |-> "self", id |-> ctl.next_id]
               next == [Idle EXCEPT !.pc = "fresh", !.guard = "Reserved", !.token = token]
    <1>1. /\ ctl \in ControllerOf("self") /\ Paced(ctl) /\ Ordered(ctl) /\ now \in Instant
          /\ ~ctl.changes.dispatch /\ task \in [Task -> TaskState] /\ CanReserve(ctl)
          /\ ctl' = d /\ task' = [task EXCEPT ![p] = next] /\ now' = now
          /\ notifying' = notifying /\ notifying \subseteq Task /\ task[p].guard = "Finished"
        BY DEF IInv, Typed, Serve, At, Well
    <1>2. /\ d \in ControllerOf("self") /\ Paced(d) /\ Ordered(d)
          /\ ctl.next_id \in (0 .. MaxId - 1) \ Ids(ctl)
          /\ Ids(d) = Ids(ctl) \cup {ctl.next_id}
          /\ Queued(d) = Queued(ctl) + 1 /\ d.inflight = ctl.inflight
        BY <1>1, ReserveIds
    <1>3. Announces(ctl, d, now)
        BY <1>1, ReserveAnnounces
    <1>4. ~d.changes.dispatch
        BY <1>1 DEF Reserve, ControllerOf
    <1>5. token \in Ticket /\ token.id = ctl.next_id
        BY <1>2 DEF Ticket
    <1> HIDE DEF d, token
    <1>6. /\ next \in TaskState /\ Well(next) /\ next.pc = "fresh"
          /\ next.guard = "Reserved" /\ next.token = token
        BY <1>5 DEF Idle, TaskState, State, Well, Waiting
    <1>7. Attended(d, now, next, notifying' = {})
        BY <1>6 DEF Attended, Asleep
    <1> HIDE DEF next
    <1>8. Counted'
        BY <1>1, <1>2, <1>5, <1>6, ReservedCounted DEF IInv
    <1>9. \A q \in Guards("Reserved") \ {p} : task[q].token.id \in Ids(d)
        BY <1>2 DEF IInv, Counted, GuardsMatchController
    <1> QED
        BY <1>1, <1>2, <1>3, <1>4, <1>6, <1>7, <1>8, <1>9, CallStep

LEMMA RegisterStep == ASSUME IInv, NEW p \in Task, Register(p) PROVE IInv'
    <1> DEFINE next == [task[p] EXCEPT !.pc = "check", !.read = now, !.woken = FALSE,
                                       !.deadline = None]
    <1>1. task[p] \in TaskState /\ Well(task[p]) /\ now \in Instant /\ task \in [Task -> TaskState]
        BY DEF IInv, Typed
    <1>2. task[p].guard = "Reserved"
        BY <1>1 DEF Register, Awake, At, Well, Waiting
    <1>3. task' = [task EXCEPT ![p] = next] /\ UNCHANGED <<ctl, now, notifying>>
        BY <1>1 DEF Register
    <1>4. /\ next \in TaskState /\ Well(next) /\ next.guard = task[p].guard
          /\ next.token = task[p].token /\ next.pc = "check"
        BY <1>1, <1>2 DEF TaskState, State, Well, Waiting
    <1>5. Attended(ctl, now, next, notifying = {})
        BY <1>4 DEF Attended, Asleep
    <1> HIDE DEF next
    <1> QED
        BY <1>3, <1>4, <1>5, OwnStep

LEMMA SuspendStep == ASSUME IInv, NEW p \in Task, Suspend(p) PROVE IInv'
    <1> DEFINE next == [task[p] EXCEPT !.pc = IF task[p].deadline = None THEN "parked" ELSE "timed"]
    <1>1. /\ task[p] \in TaskState /\ Well(task[p]) /\ task \in [Task -> TaskState]
          /\ Attended(ctl, now, task[p], notifying = {}) /\ task[p].pc = "looked"
        BY DEF IInv, Typed, AllAttended, Suspend
    <1>2. task' = [task EXCEPT ![p] = next] /\ UNCHANGED <<ctl, now, notifying>>
        BY DEF Suspend
    <1>3. /\ next \in TaskState /\ Well(next) /\ next.guard = task[p].guard
          /\ next.token = task[p].token /\ next.deadline = task[p].deadline
          /\ next.woken = task[p].woken
        BY <1>1 DEF TaskState, State, Well, Waiting
    <1>4. Attended(ctl, now, next, notifying = {})
        BY <1>1, <1>3 DEF Attended, Asleep
    <1> HIDE DEF next
    <1> QED
        BY <1>2, <1>3, <1>4, OwnStep

LEMMA EndStep ==
    ASSUME IInv, NEW p \in Task, NEW completion \in Completion, End(p, completion) PROVE IInv'
    <1> DEFINE next == [task[p] EXCEPT !.pc = "end", !.read = now, !.completion = completion]
    <1>1. /\ task[p] \in TaskState /\ Well(task[p]) /\ task \in [Task -> TaskState]
          /\ task[p].pc = "active" /\ now \in Instant
        BY DEF IInv, Typed, End, At
    <1>2. task' = [task EXCEPT ![p] = next] /\ UNCHANGED <<ctl, now, notifying>>
        BY DEF End
    <1>3. /\ next \in TaskState /\ Well(next) /\ next.guard = task[p].guard
          /\ next.token = task[p].token /\ next.pc = "end"
        BY <1>1, RamaAssumption DEF TaskState, State, Well, Waiting
    <1>4. Attended(ctl, now, next, notifying = {})
        BY <1>3 DEF Attended, Asleep
    <1> HIDE DEF next
    <1> QED
        BY <1>2, <1>3, <1>4, OwnStep

LEMMA DropStep == ASSUME IInv, NEW p \in Task, Drop(p) PROVE IInv'
    <1> DEFINE next == [task[p] EXCEPT !.pc = "end", !.read = now, !.deadline = None,
                                       !.woken = FALSE, !.completion = "Abandoned"]
    <1>1. /\ task[p] \in TaskState /\ Well(task[p]) /\ task \in [Task -> TaskState]
          /\ task[p].pc \in {"timed", "parked", "fresh"} /\ now \in Instant
        BY DEF IInv, Typed, Drop, At
    <1>2. task' = [task EXCEPT ![p] = next] /\ UNCHANGED <<ctl, now, notifying>>
        BY DEF Drop
    <1>3. /\ next \in TaskState /\ Well(next) /\ next.guard = task[p].guard
          /\ next.token = task[p].token /\ next.pc = "end"
        BY <1>1, RamaAssumption DEF TaskState, State, Well, Waiting
    <1>4. Attended(ctl, now, next, notifying = {})
        BY <1>3 DEF Attended, Asleep
    <1> HIDE DEF next
    <1> QED
        BY <1>2, <1>3, <1>4, OwnStep

\* What unlocking does with the changes.
LEMMA UnlockFacts ==
    ASSUME NEW p \in Task, NEW d, NEW next, WithController(p, d, next), notifying \subseteq Task
    PROVE  /\ ctl' = TakeChanges(d) /\ now' = now
           /\ task' = [task EXCEPT ![p] = next]
           /\ notifying' \subseteq Task
           /\ notifying' = {} => notifying = {} /\ ~d.changes.dispatch
    BY DEF WithController

LEMMA ReadMetricStep == ASSUME IInv, NEW p \in Task, ReadMetric(p) PROVE IInv'
    <1>1. /\ ctl \in ControllerOf("self") /\ Paced(ctl) /\ Ordered(ctl) /\ now \in Instant
          /\ task \in [Task -> TaskState] /\ notifying \subseteq Task
          /\ task[p].guard = "Finished"
        BY DEF IInv, Typed, ReadMetric, At, Well
    <1>2. PICK draw \in Draw : WithController(p, Refresh(ctl, draw, now), Idle)
        BY DrawsType DEF ReadMetric
    <1> DEFINE d == Refresh(ctl, draw, now)
    <1>3. d \in ControllerOf("self") /\ KeepsQueue(ctl, d) /\ Paced(d) /\ Announces(ctl, d, now)
        BY <1>1, RefreshFacts, RefreshAnnounces
    <1> HIDE DEF d
    <1>4. /\ ctl' = TakeChanges(d) /\ now' = now /\ task' = [task EXCEPT ![p] = Idle]
          /\ notifying' \subseteq Task
          /\ notifying' = {} => notifying = {} /\ ~d.changes.dispatch
        BY <1>1, <1>2, UnlockFacts DEF d
    <1>5. Ordered(d) /\ Ids(d) = Ids(ctl) /\ d.inflight = ctl.inflight
        BY <1>1, <1>3, KeptIds DEF KeepsQueue
    <1>6. KeepsQueue(ctl, ctl')
        BY <1>3, <1>4, TakeChangesFacts, KeepsQueueTransitive
    <1>7. Counted'
        BY <1>1, <1>4, <1>6, IdleFacts, SameCounted DEF IInv
    <1>8. Attended(d, now, Idle, notifying' = {})
        BY DEF Attended, Asleep, Idle
    <1>9. \A q \in Guards("Reserved") \ {p} : task[q].token.id \in Ids(d)
        BY <1>5 DEF IInv, Counted, GuardsMatchController
    <1> QED
        BY <1>3, <1>4, <1>5, <1>7, <1>8, <1>9, IdleFacts, CallStep

LEMMA BeginDispatchStep == ASSUME IInv, NEW p \in Task, BeginDispatch(p) PROVE IInv'
    <1>1. /\ ctl \in ControllerOf("self") /\ Paced(ctl) /\ Ordered(ctl) /\ now \in Instant
          /\ task \in [Task -> TaskState] /\ notifying \subseteq Task
          /\ task[p] \in TaskState /\ Well(task[p]) /\ task[p].pc = "claim"
          /\ task[p].guard = "Reserved"
        BY DEF IInv, Typed, BeginDispatch, Well, Waiting
    <1>2. PICK draw \in Draw :
              LET result == OnDispatched(ctl, task[p].token, draw, now) IN
              WithController(p, result.ctl,
                 IF result.answer.tag = "Ready"
                 THEN [Idle EXCEPT !.pc = "active", !.guard = "Dispatched", !.token = result.token]
                 ELSE [task[p] EXCEPT !.pc = "retry"])
        BY DrawsType DEF BeginDispatch
    <1> DEFINE result == OnDispatched(ctl, task[p].token, draw, now)
               d == result.ctl
               out == [Idle EXCEPT !.pc = "active", !.guard = "Dispatched", !.token = result.token]
               back == [task[p] EXCEPT !.pc = "retry"]
               next == IF result.answer.tag = "Ready" THEN out ELSE back
    <1>3. /\ d \in ControllerOf("self") /\ Paced(d) /\ Ordered(d)
          /\ result.answer.tag # "Ready" => KeepsQueue(ctl, d)
          /\ result.answer.tag = "Ready" =>
               /\ task[p].token.id \in Ids(ctl)
               /\ Ids(d) = Ids(ctl) \ {task[p].token.id}
               /\ Queued(d) = Queued(ctl) - 1
               /\ d.inflight = ctl.inflight + 1
               /\ result.token \in Token
        <2>1. Claims("self", ctl, task[p].token, result)
            BY <1>1, DispatchIds
        <2> HIDE DEF result
        <2> QED
            BY <2>1 DEF Claims, TokenOf, Token
    <1>4. /\ Announces(ctl, d, now)
          /\ result.answer.tag = "Ready" => d.changes.dispatch
        BY <1>1, DispatchAnnounces
    <1>5. WithController(p, d, next)
        BY <1>2
    <1> HIDE DEF result
    <1>6. /\ ctl' = TakeChanges(d) /\ now' = now /\ task' = [task EXCEPT ![p] = next]
          /\ notifying' \subseteq Task
          /\ notifying' = {} => notifying = {} /\ ~d.changes.dispatch
        BY <1>1, <1>5, UnlockFacts
    <1>7. /\ TakeChanges(d).inflight = d.inflight /\ KeepsQueue(d, TakeChanges(d))
          /\ Ids(TakeChanges(d)) = Ids(d) /\ Queued(TakeChanges(d)) = Queued(d)
        BY <1>3, TakeChangesFacts, KeptIds DEF KeepsQueue
    <1>8. CASE result.answer.tag = "Ready"
        <2>1. /\ out \in TaskState /\ Well(out) /\ out.guard = "Dispatched" /\ out.pc = "active"
              /\ next = out
            BY <1>3, <1>8 DEF Idle, TaskState, State, Well, Waiting
        <2>2. Attended(d, now, next, notifying' = {})
            BY <2>1 DEF Attended, Asleep
        <2> HIDE DEF d, next, out
        <2>3. Counted'
            BY <1>1, <1>3, <1>6, <1>7, <1>8, <2>1, LeftCounted DEF IInv
        <2>4. \A q \in Guards("Reserved") \ {p} : task[q].token.id \in Ids(d)
            <3>1. p \in Guards("Reserved")
                BY <1>1 DEF Guards
            <3> QED
                BY <1>3, <1>8, <3>1 DEF IInv, Counted, GuardsMatchController
        <2> QED
            BY <1>3, <1>4, <1>6, <1>8, <2>1, <2>2, <2>3, <2>4, CallStep
    <1>9. CASE result.answer.tag # "Ready"
        <2>1. /\ back \in TaskState /\ Well(back) /\ back.guard = "Reserved" /\ back.pc = "retry"
              /\ back.token = task[p].token /\ next = back
            BY <1>1, <1>9 DEF TaskState, State, Well, Waiting
        <2>2. Attended(d, now, next, notifying' = {})
            BY <2>1 DEF Attended, Asleep
        <2> HIDE DEF d, next, back
        <2>3. KeepsQueue(ctl, ctl')
            BY <1>3, <1>6, <1>7, <1>9, KeepsQueueTransitive
        <2>4. Counted'
            BY <1>1, <1>6, <2>1, <2>3, SameCounted DEF IInv
        <2>5. Ids(d) = Ids(ctl) /\ d.inflight = ctl.inflight
            BY <1>3, <1>9, KeptIds DEF KeepsQueue
        <2>6. \A q \in Guards("Reserved") \ {p} : task[q].token.id \in Ids(d)
            BY <2>5 DEF IInv, Counted, GuardsMatchController
        <2> QED
            BY <1>3, <1>4, <1>6, <2>1, <2>2, <2>4, <2>5, <2>6, CallStep
    <1> QED
        BY <1>8, <1>9

LEMMA FinishGuardStep == ASSUME IInv, NEW p \in Task, FinishGuard(p) PROVE IInv'
    <1> DEFINE token == task[p].token
               at == task[p].read
    <1>1. /\ ctl \in ControllerOf("self") /\ Paced(ctl) /\ Ordered(ctl) /\ now \in Instant
          /\ task \in [Task -> TaskState] /\ notifying \subseteq Task
          /\ task[p].guard \in {"Reserved", "Dispatched"} /\ at \in Instant
          /\ task[p].completion \in {"Success", "Failure", "Abandoned"}
          /\ task[p].guard = "Reserved" => token \in Ticket
          /\ task[p].guard = "Dispatched" => token \in Token
        BY DEF IInv, Typed, FinishGuard, Well
    <1>2. Owns(ctl, token)
        BY <1>1 DEF Owns, Ticket, Token, ControllerOf
    <1>3. ASSUME NEW d \in ControllerOf("self"), WithController(p, d, Idle), Paced(d), Ordered(d),
                 d.changes.dispatch, Announces(ctl, d, now), Ids(d) \subseteq Ids(ctl),
                 \A q \in Guards("Reserved") \ {p} : task[q].token.id \in Ids(d),
                 Counted'
          PROVE  IInv'
        <2>1. /\ ctl' = TakeChanges(d) /\ now' = now /\ task' = [task EXCEPT ![p] = Idle]
              /\ notifying' \subseteq Task /\ notifying' # {}
            BY <1>1, <1>3, UnlockFacts
        <2>2. Attended(d, now, Idle, notifying' = {})
            BY DEF Attended, Asleep, Idle
        <2> QED
            BY <1>3, <2>1, <2>2, IdleFacts, CallStep
    <1>4. CASE task[p].guard = "Reserved"
        <2> DEFINE d == Cancel(ctl, token, at)
        <2>1. token.id \in Ids(ctl) /\ p \in Guards("Reserved")
            BY <1>4 DEF IInv, Counted, GuardsMatchController, Guards
        <2>2. /\ d \in ControllerOf("self") /\ Paced(d) /\ Ordered(d)
              /\ Ids(d) = Ids(ctl) \ {token.id} /\ Queued(d) = Queued(ctl) - 1
              /\ d.inflight = ctl.inflight
            BY <1>1, <1>2, <2>1, CancelIds
        <2>3. Announces(ctl, d, now) /\ d.changes.dispatch
            BY <1>1, <1>2, <2>1, CancelAnnounces
        <2>4. WithController(p, d, Idle)
            BY <1>4 DEF FinishGuard
        <2> HIDE DEF d
        <2>5. ctl' = TakeChanges(d) /\ task' = [task EXCEPT ![p] = Idle]
            BY <1>1, <2>4, UnlockFacts
        <2>6. /\ Ids(ctl') = Ids(d) /\ Queued(ctl') = Queued(d)
              /\ ctl'.inflight = d.inflight
            BY <2>2, <2>5, TakeChangesFacts, KeptIds DEF KeepsQueue
        <2>7. Counted'
            BY <1>1, <1>4, <2>2, <2>5, <2>6, IdleFacts, LeftCounted DEF IInv
        <2>8. \A q \in Guards("Reserved") \ {p} : task[q].token.id \in Ids(d)
            BY <2>1, <2>2 DEF IInv, Counted, GuardsMatchController
        <2> QED
            BY <1>3, <2>2, <2>3, <2>4, <2>7, <2>8
    <1>5. CASE task[p].guard = "Dispatched"
        <2> DEFINE d == Finish(ctl, token, task[p].completion, at)
                   counted == [ctl EXCEPT !.inflight = @ - 1]
        <2>1. ctl.inflight \in Nat \ {0} /\ p \notin Guards("Reserved")
            <3>1. p \in Guards("Dispatched") /\ p \notin Guards("Reserved")
                BY <1>5 DEF Guards
            <3>2. Cardinality(Guards("Dispatched")) # 0
                BY <3>1, FS_EmptySet DEF IInv, Counted
            <3> QED
                BY <1>1, <3>1, <3>2 DEF IInv, Counted, GuardsMatchController, ControllerOf
        <2>2. token.dispatched_at \in Instant /\ token.was_paced \in BOOLEAN
            BY <1>1, <1>5 DEF Token
        <2>3. d \in ControllerOf("self") /\ Paced(d) /\ KeepsQueue(counted, d)
            BY <1>1, <1>2, <2>1, <2>2, FinishFacts
        <2>4. d.changes.dispatch /\ Announces(ctl, d, now)
            BY <1>1, <1>2, <2>1, <2>2, FinishAnnounces
        <2>5. WithController(p, d, Idle)
            BY <1>5 DEF FinishGuard
        <2> HIDE DEF d
        <2>6. ctl' = TakeChanges(d) /\ task' = [task EXCEPT ![p] = Idle]
            BY <1>1, <2>5, UnlockFacts
        <2>7. Ids(counted) = Ids(ctl) /\ Ordered(counted)
            BY <1>1 DEF Ids, Queued, Ordered, ControllerOf
        <2>8. Ids(d) = Ids(ctl) /\ Ordered(d)
            BY <2>3, <2>7, KeptIds
        <2>9. KeepsQueue(counted, ctl')
            BY <2>3, <2>6, TakeChangesFacts, KeepsQueueTransitive
        <2>10. Counted'
            BY <1>1, <1>5, <2>1, <2>6, <2>9, IdleFacts, EndedCounted DEF IInv
        <2>11. \A q \in Guards("Reserved") \ {p} : task[q].token.id \in Ids(d)
            BY <2>8 DEF IInv, Counted, GuardsMatchController
        <2> QED
            BY <1>3, <2>3, <2>4, <2>5, <2>8, <2>10, <2>11
    <1> QED
        BY <1>1, <1>4, <1>5

\* A check changes the controller for its head only, and the others do not
\* depend on that.
LEMMA InspectStep == ASSUME IInv, NEW p \in Task, Inspect(p) PROVE IInv'
    <1> DEFINE token == task[p].token
               at == task[p].read
    <1>1. /\ ctl \in ControllerOf("self") /\ Paced(ctl) /\ Ordered(ctl) /\ now \in Instant
          /\ task \in [Task -> TaskState] /\ notifying \subseteq Task
          /\ task[p] \in TaskState /\ Well(task[p]) /\ task[p].pc = "check" /\ at \in Instant
          /\ task[p].guard = "Reserved" /\ token \in Ticket
        BY DEF IInv, Typed, Inspect, Well, Waiting
    <1>2. p \in Guards("Reserved") /\ token.id \in Ids(ctl) /\ Owns(ctl, token)
        BY <1>1 DEF IInv, Counted, GuardsMatchController, Guards, Owns, Ticket, ControllerOf
    <1>3. PICK draw \in Draw :
              LET checked == Check(ctl, token, draw, at) IN
              /\ ctl' = TakeChanges(checked.ctl)
              /\ task' = [task EXCEPT
                            ![p].pc = IF checked.answer.tag = "Ready" THEN "claim" ELSE "looked",
                            ![p].read = None, ![p].deadline = checked.answer.at]
        BY DrawsType DEF Inspect
    <1> DEFINE checked == Check(ctl, token, draw, at)
               d == checked.ctl
               next == [task[p] EXCEPT !.pc = IF checked.answer.tag = "Ready"
                                              THEN "claim" ELSE "looked",
                                       !.read = None, !.deadline = checked.answer.at]
    <1>4. ctl' = TakeChanges(d) /\ task' = [task EXCEPT ![p] = next] /\ UNCHANGED <<now, notifying>>
        BY <1>1, <1>3 DEF Inspect
    <1>5. d \in ControllerOf("self") /\ KeepsQueue(ctl, d) /\ Paced(d)
        BY <1>1, CheckFacts
    <1>6. /\ checked.answer.at \in Instant \cup {None}
          /\ checked.answer.tag # "Ready" =>
               \/ /\ checked.answer.at = None
                  /\ ~HeadIs(d, token.id) \/ InflightFull(d)
               \/ checked.answer.at = HeadDue(d) /\ HeadIs(d, token.id)
        BY <1>1, <1>2, CheckAnnounces
    <1>7. ~HeadIs(ctl, token.id) => d = ctl
        BY <1>2 DEF Check
    <1> HIDE DEF checked
    <1>8. /\ next \in TaskState /\ Well(next) /\ next.guard = "Reserved" /\ next.token = token
          /\ next.pc \in {"claim", "looked"} /\ next.deadline = checked.answer.at
          /\ next.pc = "looked" => checked.answer.tag # "Ready"
        BY <1>1, <1>6 DEF TaskState, State, Well, Waiting
    <1>9. Attended(d, now, next, notifying = {})
        <2>1. checked.answer.tag # "Ready" =>
                  Waits(d, now, token.id, checked.answer.at, ~next.woken /\ notifying = {})
            BY <1>1, <1>2, CheckWaits DEF checked
        <2> QED
            BY <1>8, <2>1 DEF Attended, Asleep
    <1> HIDE DEF next, d
    <1>10. /\ TakeChanges(d) \in ControllerOf("self") /\ KeepsQueue(d, TakeChanges(d))
           /\ TakeChanges(d).inflight = d.inflight /\ TakeChanges(d).pending = d.pending
           /\ Paced(TakeChanges(d)) /\ HeadDue(TakeChanges(d)) = HeadDue(d)
        BY <1>5, TakeChangesFacts
    <1>11. KeepsQueue(ctl, ctl')
        BY <1>4, <1>5, <1>10, KeepsQueueTransitive
    <1>12. ~ctl'.changes.dispatch
        BY <1>4, <1>5 DEF TakeChanges, NoChanges, ControllerOf
    <1>13. Typed'
        BY <1>1, <1>4, <1>8, <1>10, <1>11, <1>12, KeptIds, TypedMove DEF IInv
    <1>14. Counted'
        BY <1>1, <1>4, <1>8, <1>11, SameCounted DEF IInv
    <1>15. task'[p] = next /\ \A q \in Task \ {p} : task'[q] = task[q]
        BY <1>1, <1>4, <1>8, TaskGoes
    <1>16. ASSUME NEW q \in Task PROVE Attended(d, now, task'[q], notifying = {})
        <2>1. CASE q = p
            BY <1>9, <1>15, <2>1
        <2>2. CASE q # p /\ task[q].pc \in Asleep
            <3>1. Attended(ctl, now, task[q], notifying = {})
                BY DEF IInv, AllAttended
            <3>2. task[q].token.id # token.id
                BY <1>2, <2>2, SleepersQueue DEF IInv, Counted
            <3>3. Waits(d, now, task[q].token.id, task[q].deadline,
                        ~task[q].woken /\ notifying = {})
                BY <1>1, <1>2, <2>2, <3>1, <3>2, CheckSparesOthers
                   DEF Attended, TaskState, d, checked
            <3> QED
                BY <1>15, <2>2, <3>3 DEF Attended
        <2>3. CASE q # p /\ task[q].pc \notin Asleep
            BY <1>15, <2>3 DEF Attended
        <2> QED
            BY <2>1, <2>2, <2>3
    <1>17. \A q \in Task : Attended(ctl', now, task'[q], notifying = {})
        BY <1>4, <1>10, <1>16 DEF Attended, Waits, HeadIs, InflightFull, Queued
    <1>18. AllAttended'
        BY <1>4, <1>17 DEF AllAttended, Attended
    <1> QED
        BY <1>13, <1>14, <1>18 DEF IInv

\* The wakeup reaches everyone who has registered, asleep or about to be.
LEMMA NotifyStep == ASSUME IInv, NEW p \in Task, Notify(p) PROVE IInv'
    <1>1. /\ task \in [Task -> TaskState]
          /\ ctl' = ctl /\ now' = now /\ notifying' \subseteq Task
        BY DEF IInv, Typed, Notify
    <1>2. \A q \in Task : task'[q] = IF Registered(q) THEN [task[q] EXCEPT !.woken = TRUE]
                                     ELSE task[q]
        BY DEF Notify
    <1>3. \A q \in Task :
              /\ task'[q] \in TaskState /\ Well(task'[q])
              /\ task'[q].guard = task[q].guard /\ task'[q].token = task[q].token
              /\ task'[q].pc = task[q].pc /\ task'[q].deadline = task[q].deadline
              /\ task[q].pc \in Asleep => task'[q].woken
        <2> TAKE q \in Task
        <2>1. task[q] \in TaskState /\ Well(task[q])
            BY DEF IInv, Typed
        <2>2. task'[q] = IF Registered(q) THEN [task[q] EXCEPT !.woken = TRUE] ELSE task[q]
            BY <1>2
        <2>3. task[q].pc \in Asleep => Registered(q)
            BY DEF Asleep, Registered
        <2>4. CASE Registered(q)
            <3>1. task'[q] = [task[q] EXCEPT !.woken = TRUE]
                BY <2>2, <2>4
            <3>2. /\ task'[q].pc = task[q].pc /\ task'[q].guard = task[q].guard
                  /\ task'[q].token = task[q].token /\ task'[q].read = task[q].read
                  /\ task'[q].deadline = task[q].deadline
                  /\ task'[q].completion = task[q].completion /\ task'[q].woken
                BY <2>1, <3>1 DEF TaskState
            <3>3. task'[q] \in TaskState
                BY <2>1, <3>1 DEF TaskState
            <3> QED
                BY <2>1, <3>2, <3>3 DEF Well
        <2>5. CASE ~Registered(q)
            BY <2>1, <2>2, <2>3, <2>5
        <2> QED
            BY <2>4, <2>5
    <1>4. task' \in [Task -> TaskState]
        BY <1>3 DEF Notify
    <1>5. Typed'
        BY <1>1, <1>3, <1>4 DEF IInv, Typed, Well
    <1>6. /\ Guards("Reserved")' = Guards("Reserved")
          /\ Guards("Dispatched")' = Guards("Dispatched")
        BY <1>3 DEF Guards
    <1>7. {task'[q].token.id : q \in Guards("Reserved")}
            = {task[q].token.id : q \in Guards("Reserved")}
        BY <1>3 DEF Guards
    <1>8. \A q, r \in Guards("Reserved") : task'[q].token.id = task'[r].token.id => q = r
        BY <1>3 DEF IInv, Counted, Guards
    <1>9. Counted'
        <2>1. /\ Ids(ctl) = {task[q].token.id : q \in Guards("Reserved")}
              /\ Queued(ctl) = Cardinality(Guards("Reserved"))
              /\ ctl.inflight = Cardinality(Guards("Dispatched"))
              /\ IsFiniteSet(Guards("Reserved")) /\ IsFiniteSet(Guards("Dispatched"))
            BY DEF IInv, Counted, GuardsMatchController
        <2>2. Ids(ctl') = Ids(ctl) /\ Queued(ctl') = Queued(ctl) /\ ctl'.inflight = ctl.inflight
            BY <1>1
        <2>3. Ids(ctl') = {task'[q].token.id : q \in Guards("Reserved")'}
            BY <1>6, <1>7, <2>1, <2>2
        <2>4. /\ Queued(ctl') = Cardinality(Guards("Reserved")')
              /\ ctl'.inflight = Cardinality(Guards("Dispatched")')
              /\ IsFiniteSet(Guards("Reserved")') /\ IsFiniteSet(Guards("Dispatched")')
            BY <1>6, <2>1, <2>2
        <2>5. \A q, r \in Guards("Reserved")' : task'[q].token.id = task'[r].token.id => q = r
            BY <1>6, <1>8
        <2> QED
            BY <2>3, <2>4, <2>5 DEF Counted, GuardsMatchController
    <1>10. \A q \in Task : Attended(ctl, now, task'[q], notifying' = {})
        BY <1>3 DEF IInv, AllAttended, Attended, Waits
    <1>11. AllAttended'
        BY <1>1, <1>10 DEF AllAttended, Attended
    <1> QED
        BY <1>5, <1>9, <1>11 DEF IInv

LEMMA TickStep == ASSUME IInv, Tick PROVE IInv'
    <1>1. /\ UNCHANGED <<ctl, task, notifying>> /\ now' = now + 1 /\ now' \in Instant
          /\ now \in Instant /\ ctl \in ControllerOf("self")
        BY RamaAssumption, ConfigAssumption DEF Tick, IInv, Typed, Instant
    <1>2. Typed'
        BY <1>1 DEF IInv, Typed, Well
    <1>3. Counted'
        BY <1>1 DEF IInv, Counted, GuardsMatchController, Guards
    <1>4. ASSUME NEW q \in Task PROVE Attended(ctl, now', task[q], notifying = {})
        <2>1. Attended(ctl, now, task[q], notifying = {}) /\ task[q].deadline \in Instant \cup {None}
            BY DEF IInv, AllAttended, Typed, TaskState
        <2>2. now <= now'
            BY <1>1 DEF Instant
        <2> DEFINE quiet == ~task[q].woken /\ notifying = {}
                   i == task[q].token.id
                   deadline == task[q].deadline
        <2>3. task[q].pc \in Asleep => Waits(ctl, now, i, deadline, quiet)
            BY <2>1 DEF Attended
        <2>4. quiet \in BOOLEAN
            OBVIOUS
        <2>5. deadline \in Instant \cup {None}
            BY <2>1
        <2> HIDE DEF quiet, i, deadline
        <2>6. ASSUME task[q].pc \in Asleep PROVE Waits(ctl, now', i, deadline, quiet)
            BY <1>1, <2>2, <2>3, <2>4, <2>5, <2>6, WaitsOn
        <2> QED
            BY <2>6 DEF Attended, quiet, i, deadline
    <1>5. AllAttended'
        BY <1>1, <1>4 DEF AllAttended, Attended
    <1> QED
        BY <1>2, <1>3, <1>5 DEF IInv
-------------------------------------------------------------------------------
LEMMA InitInvariant == Init => IInv
    <1> SUFFICES ASSUME Init PROVE IInv
        OBVIOUS
    <1>1. 0 \in Instant
        BY ConfigAssumption DEF Instant
    <1>2. /\ ctl \in ControllerOf("self") /\ Queued(ctl) = 0 /\ ctl.inflight = 0
          /\ Paced(ctl) /\ ~ctl.changes.dispatch
        BY <1>1, NewControllerFacts DEF Init, NewController, NoChanges
    <1>3. Ordered(ctl) /\ Ids(ctl) = {}
        BY <1>2 DEF Ordered, Ids
    <1>4. /\ task \in [Task -> TaskState] /\ \A p \in Task : task[p] = Idle
        BY IdleFacts DEF Init
    <1>5. Typed
        BY <1>1, <1>2, <1>3, <1>4, IdleFacts DEF Init, Typed
    <1>6. Guards("Reserved") = {} /\ Guards("Dispatched") = {}
        BY <1>4, IdleFacts DEF Guards
    <1>7. Counted
        BY <1>2, <1>3, <1>6, FS_EmptySet DEF Counted, GuardsMatchController
    <1>8. AllAttended
        BY <1>4 DEF AllAttended, Attended, Asleep, Idle
    <1> QED
        BY <1>5, <1>7, <1>8 DEF IInv

LEMMA NextInvariant == IInv /\ [Next]_vars => IInv'
    <1> SUFFICES ASSUME IInv, [Next]_vars PROVE IInv'
        OBVIOUS
    <1>1. CASE UNCHANGED vars
        BY <1>1 DEF vars, IInv, Typed, Counted, AllAttended, Attended, Well, Guards,
                    GuardsMatchController
    <1>2. CASE Next
        BY <1>2, ServeStep, RegisterStep, InspectStep, SuspendStep, BeginDispatchStep, EndStep,
           DropStep, FinishGuardStep, ReadMetricStep, NotifyStep, TickStep DEF Next
    <1> QED
        BY <1>1, <1>2

\* The inductive invariant holds in every state of every behaviour of the
\* adapter, for any number of tasks.
THEOREM Invariance == Spec => []IInv
    <1> QED
        BY InitInvariant, NextInvariant, PTL DEF Spec

\* The controller, the clocks and the guards keep their types.
THEOREM TypeCorrect == Spec => []TypeOK
    <1>1. IInv => TypeOK
        BY DEF IInv, Typed, TypeOK, TaskState
    <1> QED
        BY <1>1, Invariance, PTL

\* However futures are polled, dropped and finished, the controller counts what
\* their guards hold: nothing leaks and a live reservation is never cancelled.
THEOREM GuardsMatch == Spec => []GuardsMatchController
    <1>1. IInv => GuardsMatchController
        BY DEF IInv, Counted
    <1> QED
        BY <1>1, Invariance, PTL

\* No task sleeps past the instant at which it could go, although turns are
\* checked and claimed under different locks at clocks that may be old.
THEOREM NoWakeupIsLost == Spec => []NoLostWakeup
    <1>1. IInv => NoLostWakeup
        BY DEF IInv, Typed, Well, AllAttended, Attended, Waits, Asleep, NoLostWakeup
    <1> QED
        BY <1>1, Invariance, PTL
===============================================================================
