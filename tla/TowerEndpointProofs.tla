------------------------- MODULE TowerEndpointProofs -------------------------
(* Whatever the owner and the futures do through the Tower adapter, the        *)
(* controller counts what the futures hold, nobody sleeps past the instant at  *)
(* which it could go, the owner hears of every place it waits for, and a       *)
(* failed inner service is left alone.                                         *)
EXTENDS TowerEndpoint, ControllerProofs

Ticket == [controller_id : {"self"}, id : Future]
Token == TokenOf("self")

RequestState ==
    [pc : Stage, guard : {"Queued", "InFlight", "Finished"},
     token : Ticket \cup Token \cup {None}, read : Instant \cup {None},
     deadline : Instant \cup {None},
     completion : Completion \cup {"Failure", "Abandoned", None},
     woken : BOOLEAN, waking : Poller \cup {None}, notifying : BOOLEAN]

OwnerState == [asked : Poller \cup {None}, woken : BOOLEAN, granted : BOOLEAN,
               notifying : BOOLEAN]

\* Between the moment a future is made and the end of its turn it is queued.
Waiting == {"fresh", "check", "looked", "timed", "parked", "lock", "locked", "polling",
            "error", "closing", "claim", "retry"}
Dozing == {"looked", "timed", "parked"}

\* Whoever is here holds the async lock.
Holding == {"locked", "polling", "error", "closing", "claim", "retry", "dispatched"}

\* What future f holds at each stage, and where it may owe a delivery.
Well(f, r) ==
    /\ r.pc \in {"none", "done"} => r.guard = "Finished"
    /\ r.pc \in Waiting => r.guard = "Queued"
    /\ r.pc \in {"dispatched", "active"} => r.guard = "InFlight"
    /\ r.pc \in {"leaving", "end"} =>
          /\ r.guard \in {"Queued", "InFlight"}
          /\ r.completion \in {"Success", "Failure", "Abandoned"}
    /\ r.pc = "end" => r.read \in Instant
    /\ r.pc = "timed" => r.deadline # None
    /\ r.pc = "parked" => r.deadline = None
    /\ r.guard = "Queued" => r.token \in Ticket /\ r.token.id = f
    /\ r.guard = "InFlight" => r.token \in Token
    /\ r.waking # None \/ r.notifying => r.pc \in {"closing", "retry", "dispatched", "done"}

Typed ==
    /\ ctl \in ControllerOf("self") /\ Paced(ctl) /\ Ordered(ctl)
    /\ ~ctl.changes.dispatch
    /\ now \in Instant
    /\ failed \in BOOLEAN /\ inner_failed \in BOOLEAN
    /\ admission_waker \in Poller \cup {None}
    /\ service \in Future \cup {None}
    /\ owner \in OwnerState
    /\ request \in [Future -> RequestState]
    /\ \A f \in Future : Well(f, request[f])

Counted ==
    /\ IsFiniteSet(Guards("Queued")) /\ IsFiniteSet(Guards("InFlight"))
    /\ GuardsMatchController

\* Nobody has been made beyond the next reservation.
Numbered == \A f \in Future : f >= ctl.next_id => request[f].pc = "none"

\* At most one future has the inner service to itself, and whoever saw it fail
\* publishes that before it lets go.
Exclusive ==
    /\ \A f \in Future : request[f].pc \in Holding => service = f
    /\ inner_failed => \A f \in Future : request[f].pc # "polling"
    /\ inner_failed /\ ~failed => \E f \in Future : request[f].pc = "error"

\* No notification is on its way.
NobodyNotifies == ~owner.notifying /\ \A f \in Future : ~request[f].notifying

\* What a future that checked and went to sleep relies on while nobody is about to
\* wake it.
Attended(c, at, f, r, quiet) ==
    r.pc \in Dozing => Waits(c, at, f, r.deadline, ~r.woken /\ quiet)

AllAttended == \A f \in Future : Attended(ctl, now, f, request[f], NobodyNotifies)

\* The closure of the endpoint reaches everyone who sleeps.
ClosureHeard ==
    failed /\ NobodyNotifies => \A f \in Future : request[f].pc \in Dozing => request[f].woken

\* An owner told Pending is waited for by its waker while there is nothing to
\* tell, and is told otherwise; one that was granted a place still has it.
Served ==
    /\ owner.granted => owner.asked = None
    /\ owner.granted /\ ~failed => MaySchedule(ctl)
    /\ owner.asked # None /\ ~owner.woken =>
          \/ admission_waker = owner.asked /\ ~MaySchedule(ctl) /\ ~failed
          \/ \E f \in Future : request[f].waking = owner.asked

\* The inductive invariant.
IInv == Typed /\ Counted /\ Numbered /\ Exclusive /\ AllAttended /\ ClosureHeard /\ Served
-------------------------------------------------------------------------------
(* Counting.                                                                   *)

\* One future goes on: the others stay, and it is among the guards of its new
\* state only.
LEMMA RequestGoes ==
    ASSUME request \in [Future -> RequestState], NEW f \in Future, NEW next \in RequestState,
           request' = [request EXCEPT ![f] = next]
    PROVE  /\ request' \in [Future -> RequestState]
           /\ request'[f] = next /\ \A g \in Future \ {f} : request'[g] = request[g]
           /\ \A guard \in {"Queued", "InFlight"} :
                 Guards(guard)' = (Guards(guard) \ {f}) \cup
                                  (IF next.guard = guard THEN {f} ELSE {})
    BY DEF Guards

\* A future holds the reservation of its own number.
OwnNumber == [g \in Future |-> g]

LEMMA CountedMatches ==
    Counted <=> Matches(ctl, Guards("Queued"), OwnNumber, Guards("InFlight"))
    <1>1. {OwnNumber[g] : g \in Guards("Queued")} = Guards("Queued")
        BY DEF Guards, OwnNumber
    <1>2. \A g, h \in Guards("Queued") : OwnNumber[g] = OwnNumber[h] => g = h
        BY DEF Guards, OwnNumber
    <1> QED
        BY <1>1, <1>2 DEF Counted, GuardsMatchController, Matches

\* The next reservation has a number that nobody holds.
LEMMA NextIsNew ==
    ASSUME ctl \in ControllerOf("self"), Ordered(ctl)
    PROVE  ctl.next_id \notin Ids(ctl)
    <1>1. ctl.next_id \in Int
        BY ControllerAssumption DEF ControllerOf
    <1> QED
        BY <1>1 DEF Ordered, Ids

\* One future goes on, and the controller moved with it.
LEMMA CountedMoves ==
    ASSUME Counted, ctl \in ControllerOf("self"), Ordered(ctl),
           request \in [Future -> RequestState], NEW f \in Future, NEW next \in RequestState,
           request' = [request EXCEPT ![f] = next],
           next.guard = "Queued" => request[f].guard = "Queued" \/ f = ctl.next_id,
           Ids(ctl') = (Ids(ctl) \ {f}) \cup (IF next.guard = "Queued" THEN {f} ELSE {}),
           Queued(ctl') = (Queued(ctl) - In(f, Guards("Queued"))) + In(f, Guards("Queued")'),
           ctl'.inflight = (ctl.inflight - In(f, Guards("InFlight")))
                              + In(f, Guards("InFlight")')
    PROVE  Counted'
    <1> DEFINE R == Guards("Queued")
               D == Guards("InFlight")
    <1>1. /\ R' = (R \ {f}) \cup (IF next.guard = "Queued" THEN {f} ELSE {})
          /\ D' = (D \ {f}) \cup (IF next.guard = "InFlight" THEN {f} ELSE {})
        BY RequestGoes
    <1>2. OwnNumber' = OwnNumber /\ OwnNumber[f] = f
        BY DEF OwnNumber
    <1>3. /\ f \in R <=> request[f].guard = "Queued"
          /\ f \in R' <=> next.guard = "Queued"
        BY <1>1 DEF Guards
    <1>4. R' \ {f} = R \ {f} /\ D' \ {f} = D \ {f}
        BY <1>1
    <1>5. Matches(ctl, R, OwnNumber, D)
        BY CountedMatches
    <1>6. f \notin R => Ids(ctl) \ {f} = Ids(ctl)
        BY DEF Counted, GuardsMatchController
    <1>7. Moves(ctl, ctl', f, R, OwnNumber, D, R', OwnNumber[f], D')
        BY <1>2, <1>3, <1>6 DEF Moves
    <1> HIDE DEF R, D
    <1>8. Matches(ctl', R', OwnNumber, D')
        BY <1>2, <1>4, <1>5, <1>7, NextIsNew, OneMoves
    <1>9. (Counted <=> Matches(ctl, R, OwnNumber, D))'
        BY CountedMatches, PTL DEF R, D
    <1> QED
        BY <1>2, <1>8, <1>9

\* Neither the guards nor the queue change.
LEMMA SameCounted ==
    ASSUME Counted, ctl \in ControllerOf("self"), Ordered(ctl),
           request \in [Future -> RequestState], NEW f \in Future, NEW next \in RequestState,
           request' = [request EXCEPT ![f] = next], next.guard = request[f].guard,
           KeepsQueue(ctl, ctl')
    PROVE  Counted'
    <1>1. /\ Guards("Queued")' = Guards("Queued") /\ Guards("InFlight")' = Guards("InFlight")
        BY RequestGoes DEF Guards
    <1>2. /\ Ids(ctl') = Ids(ctl) /\ Queued(ctl') = Queued(ctl) /\ ctl'.inflight = ctl.inflight
        BY KeptIds DEF KeepsQueue
    <1> QED
        BY <1>1, <1>2 DEF Counted, GuardsMatchController

\* A future is made with the next reservation.
LEMMA ReservedCounted ==
    ASSUME Counted, ctl \in ControllerOf("self"), Ordered(ctl),
           request \in [Future -> RequestState], NEW f \in Future, NEW next \in RequestState,
           request' = [request EXCEPT ![f] = next], f = ctl.next_id,
           request[f].guard = "Finished", next.guard = "Queued",
           Ids(ctl') = Ids(ctl) \cup {ctl.next_id},
           Queued(ctl') = Queued(ctl) + 1, ctl'.inflight = ctl.inflight
    PROVE  Counted'
    <1>1. /\ In(f, Guards("Queued")) = 0 /\ In(f, Guards("Queued")') = 1
          /\ In(f, Guards("InFlight")) = 0 /\ In(f, Guards("InFlight")') = 0
        BY RequestGoes DEF Guards, In
    <1>2. Queued(ctl) \in Nat /\ ctl.inflight \in Nat
        BY IdsAreNumbers DEF ControllerOf
    <1>3. /\ Queued(ctl') = (Queued(ctl) - In(f, Guards("Queued"))) + In(f, Guards("Queued")')
          /\ ctl'.inflight = (ctl.inflight - In(f, Guards("InFlight")))
                                + In(f, Guards("InFlight")')
        BY <1>1, <1>2
    <1>4. Ids(ctl') = (Ids(ctl) \ {f}) \cup (IF next.guard = "Queued" THEN {f} ELSE {})
        OBVIOUS
    <1> QED
        BY <1>3, <1>4, CountedMoves

\* A future gives its reservation up, or goes out with it.
LEMMA LeftCounted ==
    ASSUME Counted, ctl \in ControllerOf("self"), Ordered(ctl),
           request \in [Future -> RequestState], NEW f \in Future, NEW next \in RequestState,
           request' = [request EXCEPT ![f] = next],
           request[f].guard = "Queued", next.guard # "Queued",
           Ids(ctl') = Ids(ctl) \ {f}, Queued(ctl') = Queued(ctl) - 1,
           ctl'.inflight = IF next.guard = "InFlight" THEN ctl.inflight + 1 ELSE ctl.inflight
    PROVE  Counted'
    <1>1. /\ In(f, Guards("Queued")) = 1 /\ In(f, Guards("Queued")') = 0
          /\ In(f, Guards("InFlight")) = 0
          /\ In(f, Guards("InFlight")') = IF next.guard = "InFlight" THEN 1 ELSE 0
        BY RequestGoes DEF Guards, In
    <1>2. Queued(ctl) \in Nat /\ ctl.inflight \in Nat
        BY IdsAreNumbers DEF ControllerOf
    <1>3. /\ Queued(ctl') = (Queued(ctl) - In(f, Guards("Queued"))) + In(f, Guards("Queued")')
          /\ ctl'.inflight = (ctl.inflight - In(f, Guards("InFlight")))
                                + In(f, Guards("InFlight")')
        BY <1>1, <1>2
    <1>4. Ids(ctl') = (Ids(ctl) \ {f}) \cup (IF next.guard = "Queued" THEN {f} ELSE {})
        OBVIOUS
    <1> QED
        BY <1>3, <1>4, CountedMoves

\* A request in flight ends.
LEMMA EndedCounted ==
    ASSUME Counted, ctl \in ControllerOf("self"), Ordered(ctl),
           request \in [Future -> RequestState], NEW f \in Future, NEW next \in RequestState,
           request' = [request EXCEPT ![f] = next],
           request[f].guard = "InFlight", next.guard = "Finished",
           KeepsQueue([ctl EXCEPT !.inflight = @ - 1], ctl')
    PROVE  Counted'
    <1>1. /\ In(f, Guards("Queued")) = 0 /\ In(f, Guards("Queued")') = 0
          /\ In(f, Guards("InFlight")) = 1 /\ In(f, Guards("InFlight")') = 0
        BY RequestGoes DEF Guards, In
    <1>2. Queued(ctl) \in Nat /\ ctl.inflight \in Nat
        BY IdsAreNumbers DEF ControllerOf
    <1>3. Ids(ctl') = Ids(ctl) /\ Queued(ctl') = Queued(ctl) /\ ctl'.inflight = ctl.inflight - 1
        BY DEF KeepsQueue, Ids, Queued, ControllerOf
    <1>4. f \notin Ids(ctl)
        BY DEF Counted, GuardsMatchController, Guards
    <1>5. /\ Queued(ctl') = (Queued(ctl) - In(f, Guards("Queued"))) + In(f, Guards("Queued")')
          /\ ctl'.inflight = (ctl.inflight - In(f, Guards("InFlight")))
                                + In(f, Guards("InFlight")')
        BY <1>1, <1>2, <1>3
    <1>6. Ids(ctl') = (Ids(ctl) \ {f}) \cup (IF next.guard = "Queued" THEN {f} ELSE {})
        BY <1>3, <1>4
    <1> QED
        BY <1>5, <1>6, CountedMoves
-------------------------------------------------------------------------------
(* The other parts of the invariant, when one future goes on.                  *)

LEMMA NoneIsNoFuture == None \notin Future /\ \A g \in Future : g \in Nat
    BY ConfigAssumption DEF Future

LEMMA VacantFacts ==
    /\ Vacant \in RequestState /\ Vacant.guard = "Finished"
    /\ [Vacant EXCEPT !.pc = "done"] \in RequestState
    BY DEF Vacant, RequestState, Stage, Suspended, Asleep

LEMMA TypedMove ==
    ASSUME Typed, ctl' \in ControllerOf("self"), Paced(ctl'), Ordered(ctl'),
           ~ctl'.changes.dispatch, now' = now,
           failed' \in BOOLEAN, inner_failed' \in BOOLEAN,
           admission_waker' \in Poller \cup {None}, service' \in Future \cup {None},
           owner' \in OwnerState,
           NEW f \in Future, NEW next \in RequestState, Well(f, next),
           request' = [request EXCEPT ![f] = next]
    PROVE  Typed'
    <1>1. /\ request' \in [Future -> RequestState] /\ request'[f] = next
          /\ \A g \in Future \ {f} : request'[g] = request[g]
        BY RequestGoes DEF Typed
    <1>2. \A g \in Future : Well(g, request'[g])
        BY <1>1 DEF Typed
    <1>3. \A g \in Future : Well(g, request'[g]) = Well(g, request[g])'
        BY DEF Well
    <1> QED
        BY <1>1, <1>2, <1>3 DEF Typed

LEMMA NumberedMove ==
    ASSUME Numbered, request \in [Future -> RequestState],
           NEW f \in Future, NEW next \in RequestState, request' = [request EXCEPT ![f] = next],
           request[f].pc # "none", ctl'.next_id = ctl.next_id
    PROVE  Numbered'
    BY RequestGoes DEF Numbered

\* Whoever goes on with the inner service holds its lock, nobody takes it from
\* anybody, and the one who saw the failure stays where it is.
LEMMA ExclusiveMove ==
    ASSUME Exclusive, request \in [Future -> RequestState],
           NEW f \in Future, NEW next \in RequestState, request' = [request EXCEPT ![f] = next],
           service' = service \/ service \in {f, None},
           next.pc \in Holding => service' = f,
           UNCHANGED <<failed, inner_failed>>,
           next.pc = "polling" => ~inner_failed, request[f].pc # "error"
    PROVE  Exclusive'
    <1>1. /\ request'[f] = next /\ \A g \in Future \ {f} : request'[g] = request[g]
        BY RequestGoes
    <1>2. ASSUME NEW g \in Future, request'[g].pc \in Holding PROVE service' = g
        <2>1. CASE g = f
            BY <1>1, <1>2, <2>1
        <2>2. CASE g # f
            <3>1. service = g
                BY <1>1, <1>2, <2>2 DEF Exclusive
            <3> QED
                BY <2>2, <3>1, NoneIsNoFuture
        <2> QED
            BY <2>1, <2>2
    <1>3. inner_failed' => \A g \in Future : request'[g].pc # "polling"
        BY <1>1 DEF Exclusive
    <1>4. inner_failed' /\ ~failed' => \E g \in Future : request'[g].pc = "error"
        BY <1>1 DEF Exclusive
    <1> QED
        BY <1>2, <1>3, <1>4 DEF Exclusive

\* The owner does not notice the steps of a future that give nothing back.
LEMMA ServedMove ==
    ASSUME Served, request \in [Future -> RequestState],
           NEW f \in Future, NEW next \in RequestState, request' = [request EXCEPT ![f] = next],
           next.waking = request[f].waking,
           UNCHANGED <<admission_waker, failed, owner>>,
           MaySchedule(ctl') <=> MaySchedule(ctl)
    PROVE  Served'
    <1>1. \A g \in Future : request'[g].waking = request[g].waking
        BY RequestGoes
    <1>2. MaySchedule(ctl)' <=> MaySchedule(ctl)
        BY DEF MaySchedule, Queued
    <1> QED
        BY <1>1, <1>2 DEF Served

\* A section that announces a new place hands the waker of the owner over.
LEMMA ServedCall ==
    ASSUME Served, request \in [Future -> RequestState], admission_waker \in Poller \cup {None},
           NEW f \in Future, NEW next \in RequestState, request' = [request EXCEPT ![f] = next],
           request[f].waking = None,
           NEW told, told \in BOOLEAN,
           next.waking = IF told THEN admission_waker ELSE None,
           admission_waker' = IF told THEN None ELSE admission_waker,
           UNCHANGED <<failed, owner>>,
           MaySchedule(ctl) => MaySchedule(ctl'),
           ~MaySchedule(ctl) /\ MaySchedule(ctl') => told
    PROVE  Served'
    <1>1. /\ request'[f] = next /\ \A g \in Future \ {f} : request'[g] = request[g]
        BY RequestGoes
    <1>2. MaySchedule(ctl)' <=> MaySchedule(ctl')
        BY DEF MaySchedule, Queued
    <1>3. ASSUME owner.asked # None, ~owner.woken
          PROVE  \/ admission_waker' = owner.asked /\ ~MaySchedule(ctl') /\ ~failed
                 \/ \E g \in Future : request'[g].waking = owner.asked
        <2>1. CASE \E g \in Future : request[g].waking = owner.asked
            <3>1. PICK g \in Future : request[g].waking = owner.asked
                BY <2>1
            <3>2. g # f
                BY <1>3, <3>1
            <3> QED
                BY <1>1, <3>1, <3>2
        <2>2. CASE admission_waker = owner.asked /\ ~MaySchedule(ctl) /\ ~failed
            <3>1. CASE told
                BY <1>1, <2>2, <3>1
            <3>2. CASE ~told
                BY <2>2, <3>2
            <3> QED
                BY <3>1, <3>2
        <2> QED
            BY <1>3, <2>1, <2>2 DEF Served
    <1> QED
        BY <1>2, <1>3 DEF Served
-------------------------------------------------------------------------------
(* Sleepers.                                                                   *)

\* The sleepers are among those the controller knows.
LEMMA SleepersQueue ==
    ASSUME IInv, NEW g \in Future, request[g].pc \in Dozing
    PROVE  g \in Guards("Queued") /\ g \in Ids(ctl) /\ request[g].token.id = g
    BY DEF IInv, Typed, Counted, GuardsMatchController, Guards, Well, Waiting, Dozing

\* Future g stays asleep through a call that announced what it changed.
LEMMA AttendedAfter ==
    ASSUME IInv, now' = now, NEW d \in ControllerOf("self"), Ordered(d),
           Announces(ctl, d, now), Ids(d) \subseteq Ids(ctl) \cup {ctl.next_id},
           NEW still \in BOOLEAN,
           still => NobodyNotifies /\ ~d.changes.dispatch /\ d.inflight = ctl.inflight,
           NEW g \in Future, request[g].pc \in Dozing => g \in Ids(d)
    PROVE  Attended(d, now, g, request[g], still)
    <1> DEFINE r == request[g]
               quiet == ~r.woken /\ NobodyNotifies
               remains == ~r.woken /\ still
    <1>1. ASSUME r.pc \in Dozing PROVE Waits(d, now, g, r.deadline, remains)
        <2>1. Waits(ctl, now, g, r.deadline, quiet)
            BY <1>1 DEF IInv, AllAttended, Attended
        <2>2. /\ ctl \in ControllerOf("self") /\ Ordered(ctl) /\ now \in Instant
              /\ r.deadline \in Instant \cup {None} /\ r.woken \in BOOLEAN
            BY DEF IInv, Typed, RequestState
        <2>3. g \in Ids(ctl) /\ g \in Ids(d)
            BY <1>1, SleepersQueue
        <2>4. quiet \in BOOLEAN /\ remains \in BOOLEAN
            OBVIOUS
        <2>5. remains => quiet /\ ~d.changes.dispatch /\ d.inflight = ctl.inflight
            OBVIOUS
        <2> HIDE DEF r, quiet, remains
        <2> QED
            BY <2>1, <2>2, <2>3, <2>4, <2>5, WaitsKept
    <1> QED
        BY <1>1 DEF Attended
-------------------------------------------------------------------------------
(* Steps in general.                                                           *)

LEMMA NotifyingBy ==
    ASSUME request \in [Future -> RequestState], NEW f \in Future, NEW next \in RequestState,
           request' = [request EXCEPT ![f] = next], owner'.notifying = owner.notifying,
           ~request[f].notifying
    PROVE  NobodyNotifies' => NobodyNotifies /\ ~next.notifying
    BY RequestGoes DEF NobodyNotifies

\* A step outside the controller.
LEMMA OwnStep ==
    ASSUME IInv, NEW f \in Future, NEW next \in RequestState, Well(f, next),
           request' = [request EXCEPT ![f] = next],
           UNCHANGED <<ctl, admission_waker, failed, now>>, inner_failed' \in BOOLEAN,
           service' \in Future \cup {None},
           owner' \in OwnerState, owner'.notifying = owner.notifying,
           request[f].pc # "none",
           next.guard = request[f].guard, next.notifying = request[f].notifying,
           next.pc \in Dozing => /\ request[f].pc \in Dozing /\ next.woken = request[f].woken
                                 /\ next.deadline = request[f].deadline,
           Exclusive', Served'
    PROVE  IInv'
    <1>1. request \in [Future -> RequestState] /\ ctl \in ControllerOf("self") /\ Ordered(ctl)
        BY DEF IInv, Typed
    <1>2. Typed'
        BY TypedMove DEF IInv, Typed
    <1>3. KeepsQueue(ctl, ctl')
        BY DEF KeepsQueue
    <1>4. Counted'
        BY <1>1, <1>3, SameCounted DEF IInv
    <1>5. Numbered'
        BY <1>1, NumberedMove DEF IInv
    <1>6. /\ request'[f] = next /\ \A g \in Future \ {f} : request'[g] = request[g]
        BY <1>1, RequestGoes
    <1>7. NobodyNotifies' <=> NobodyNotifies
        BY <1>6 DEF NobodyNotifies
    <1>8. ASSUME NEW g \in Future, request'[g].pc \in Dozing
          PROVE  /\ request[g].pc \in Dozing /\ request'[g].woken = request[g].woken
                 /\ request'[g].deadline = request[g].deadline
        BY <1>6, <1>8
    <1>9. AllAttended'
        BY <1>7, <1>8 DEF IInv, AllAttended, Attended, Waits
    <1>10. ClosureHeard'
        BY <1>7, <1>8 DEF IInv, ClosureHeard
    <1> QED
        BY <1>2, <1>4, <1>5, <1>9, <1>10 DEF IInv

\* A section of the controller.
LEMMA ControllerStep ==
    ASSUME IInv, NEW f \in Future, NEW next \in RequestState, Well(f, next),
           request' = [request EXCEPT ![f] = next], now' = now, failed' \in BOOLEAN,
           UNCHANGED inner_failed, UNCHANGED service,
           admission_waker' \in Poller \cup {None},
           owner' \in OwnerState, owner'.notifying = owner.notifying,
           NEW d \in ControllerOf("self"), Paced(d), Ordered(d),
           (ctl' = d /\ ~d.changes.dispatch) \/ ctl' = TakeChanges(d),
           Announces(ctl, d, now),
           Ids(d) \subseteq Ids(ctl) \cup {ctl.next_id}, Ids(ctl) \ {f} \subseteq Ids(d),
           ~request[f].notifying,
           ~next.notifying => ~d.changes.dispatch /\ d.inflight = ctl.inflight /\ failed' = failed,
           next.pc \notin Dozing,
           Counted', Numbered', Exclusive', Served'
    PROVE  IInv'
    <1>1. /\ request \in [Future -> RequestState]
        BY DEF IInv, Typed
    <1>2. /\ ctl' \in ControllerOf("self") /\ Paced(ctl') /\ Ordered(ctl')
          /\ ~ctl'.changes.dispatch
          /\ ctl'.pending = d.pending /\ ctl'.inflight = d.inflight /\ HeadDue(ctl') = HeadDue(d)
        <2>1. /\ TakeChanges(d) \in ControllerOf("self") /\ Paced(TakeChanges(d))
              /\ KeepsQueue(d, TakeChanges(d)) /\ TakeChanges(d).pending = d.pending
              /\ TakeChanges(d).inflight = d.inflight
              /\ HeadDue(TakeChanges(d)) = HeadDue(d)
            BY TakeChangesFacts
        <2>2. ~TakeChanges(d).changes.dispatch
            BY DEF TakeChanges, NoChanges, ControllerOf
        <2> QED
            BY <2>1, <2>2, KeptIds
    <1>3. Typed'
        BY <1>2, TypedMove DEF IInv, Typed
    <1>4. /\ request'[f] = next /\ \A g \in Future \ {f} : request'[g] = request[g]
        BY <1>1, RequestGoes
    <1>5. NobodyNotifies' => NobodyNotifies /\ ~next.notifying
        BY <1>1, NotifyingBy
    <1> DEFINE still == NobodyNotifies'
    <1>6. still \in BOOLEAN
        BY DEF NobodyNotifies
    <1>7. still => /\ NobodyNotifies /\ ~d.changes.dispatch /\ d.inflight = ctl.inflight
                   /\ failed' = failed
        BY <1>5
    <1> HIDE DEF still
    <1>8. ASSUME NEW g \in Future PROVE Attended(d, now, g, request'[g], still)
        <2>1. CASE g = f
            BY <1>4, <2>1 DEF Attended
        <2>2. CASE g # f
            <3>1. request[g].pc \in Dozing => g \in Ids(d)
                BY <2>2, SleepersQueue
            <3>2. Attended(d, now, g, request[g], still)
                BY <1>6, <1>7, <3>1, AttendedAfter
            <3> QED
                BY <1>4, <2>2, <3>2
        <2> QED
            BY <2>1, <2>2
    <1>9. \A g \in Future : Attended(ctl', now, g, request'[g], still)
        BY <1>2, <1>8 DEF Attended, Waits, HeadIs, InflightFull, Queued
    <1>10. AllAttended'
        BY <1>9 DEF AllAttended, Attended, still
    <1>11. ClosureHeard'
        BY <1>4, <1>7 DEF IInv, ClosureHeard, still
    <1> QED
        BY <1>3, <1>10, <1>11 DEF IInv
-------------------------------------------------------------------------------
(* The steps of a future on its own.                                           *)

\* What is known of a future that goes on.
LEMMA FutureFacts ==
    ASSUME IInv, NEW f \in Future
    PROVE  /\ request \in [Future -> RequestState]
           /\ request[f] \in RequestState /\ Well(f, request[f])
           /\ request[f].pc \in Holding => service = f
    BY DEF IInv, Typed, Exclusive

\* A step of one future that leaves the owner and the failure alone.
LEMMA PlainStep ==
    ASSUME IInv, NEW f \in Future, NEW next \in RequestState, Well(f, next),
           request' = [request EXCEPT ![f] = next],
           UNCHANGED <<state, inner_failed, owner, now>>,
           service' = service \/ service \in {f, None}, service' \in Future \cup {None},
           request[f].pc \notin {"none", "error"},
           next.guard = request[f].guard, next.waking = request[f].waking,
           next.notifying = request[f].notifying,
           next.pc \in Holding => service' = f,
           next.pc = "polling" => ~inner_failed,
           next.pc \in Dozing => /\ request[f].pc \in Dozing /\ next.woken = request[f].woken
                                 /\ next.deadline = request[f].deadline
    PROVE  IInv'
    <1>1. /\ UNCHANGED <<ctl, admission_waker, failed, now>>
          /\ inner_failed' \in BOOLEAN /\ owner' \in OwnerState
        BY DEF IInv, Typed, state
    <1>2. request \in [Future -> RequestState]
        BY FutureFacts
    <1>3. Exclusive'
        BY <1>1, <1>2, ExclusiveMove DEF IInv
    <1>4. Served'
        BY <1>1, <1>2, ServedMove DEF IInv
    <1> QED
        BY <1>1, <1>3, <1>4, OwnStep

LEMMA RegisterStep == ASSUME IInv, NEW f \in Future, Register(f) PROVE IInv'
    <1> DEFINE next == [request[f] EXCEPT !.pc = "check", !.woken = FALSE, !.deadline = None]
    <1>1. request[f] \in RequestState /\ Well(f, request[f])
        BY FutureFacts
    <1>2. request[f].pc \in {"fresh", "retry", "timed", "parked"} /\ ~Owes(f)
        BY <1>1 DEF Register, Awake, At, Asleep, Owes, Well, RequestState
    <1>3. /\ next \in RequestState /\ Well(f, next) /\ next.guard = request[f].guard
          /\ next.waking = request[f].waking /\ next.notifying = request[f].notifying
          /\ next.pc = "check"
        BY <1>1, <1>2 DEF RequestState, Stage, Well, Waiting, Owes
    <1>4. request' = [request EXCEPT ![f] = next] /\ service' \in Future \cup {None}
        BY DEF Register, Goes, IInv, Typed
    <1> HIDE DEF next
    <1> QED
        BY <1>2, <1>3, <1>4, PlainStep DEF Register, Holding, Dozing

LEMMA SuspendStep == ASSUME IInv, NEW f \in Future, Suspend(f) PROVE IInv'
    <1> DEFINE next == [request[f] EXCEPT !.pc = IF request[f].deadline = None THEN "parked"
                                                ELSE "timed"]
    <1>1. request[f] \in RequestState /\ Well(f, request[f]) /\ request[f].pc = "looked"
        BY FutureFacts DEF Suspend
    <1>2. /\ next \in RequestState /\ Well(f, next) /\ next.guard = request[f].guard
          /\ next.waking = request[f].waking /\ next.notifying = request[f].notifying
          /\ next.woken = request[f].woken /\ next.deadline = request[f].deadline
          /\ next.pc \in {"parked", "timed"}
        BY <1>1 DEF RequestState, Stage, Suspended, Asleep, Well, Waiting
    <1>3. request' = [request EXCEPT ![f] = next] /\ service' \in Future \cup {None}
        BY DEF Suspend, Goes, IInv, Typed
    <1> HIDE DEF next
    <1> QED
        BY <1>1, <1>2, <1>3, PlainStep DEF Suspend, Holding, Dozing

\* On its way out a future keeps its guard and has nothing to deliver.
LEMMA LeavingFacts ==
    ASSUME IInv, NEW f \in Future, NEW completion \in {"Success", "Failure", "Abandoned"},
           completion \in Completion \cup {"Failure", "Abandoned"},
           request[f].pc \in (Suspended \cup {"check", "locked", "closing"}), ~Owes(f)
    PROVE  LET next == Leaving(f, completion) IN
           /\ next \in RequestState /\ Well(f, next) /\ next.guard = request[f].guard
           /\ next.waking = request[f].waking /\ next.notifying = request[f].notifying
           /\ next.pc = "leaving"
    <1>1. request[f] \in RequestState /\ Well(f, request[f])
        BY FutureFacts
    <1>2. request[f].guard \in {"Queued", "InFlight"}
        BY <1>1 DEF Well, Waiting, Suspended, Asleep
    <1> DEFINE next == Leaving(f, completion)
    <1>3. /\ next.pc = "leaving" /\ next.completion = completion
          /\ next.guard = request[f].guard /\ next.token = request[f].token
          /\ next.waking = request[f].waking /\ next.notifying = request[f].notifying
        BY <1>1 DEF Leaving, RequestState
    <1>4. next \in RequestState
        BY <1>1 DEF Leaving, RequestState, Stage
    <1>5. Well(f, next)
        <2> HIDE DEF next
        <2> QED
            BY <1>1, <1>2, <1>3 DEF Well, Waiting, Owes
    <1> QED
        BY <1>3, <1>4, <1>5

LEMMA ReleaseFacts ==
    ASSUME IInv, NEW f \in Future, Release(f)
    PROVE  (service' = service \/ service \in {f, None}) /\ service' \in Future \cup {None}
    BY DEF Release, IInv, Typed

LEMMA ReturnErrorStep == ASSUME IInv, NEW f \in Future, ReturnError(f) PROVE IInv'
    <1> DEFINE next == Leaving(f, "Failure")
    <1>1. request[f].pc \in {"check", "locked", "closing"} /\ ~Owes(f)
        BY FutureFacts DEF ReturnError, At, Owes, Well, RequestState
    <1>2. /\ next \in RequestState /\ Well(f, next) /\ next.guard = request[f].guard
          /\ next.waking = request[f].waking /\ next.notifying = request[f].notifying
          /\ next.pc = "leaving"
        BY <1>1, LeavingFacts
    <1>3. request' = [request EXCEPT ![f] = next]
        BY DEF ReturnError, Goes
    <1>4. (service' = service \/ service \in {f, None}) /\ service' \in Future \cup {None}
        BY ReleaseFacts DEF ReturnError
    <1> HIDE DEF next
    <1> QED
        BY <1>1, <1>2, <1>3, <1>4, PlainStep DEF ReturnError, Holding, Dozing

LEMMA DropStep == ASSUME IInv, NEW f \in Future, Drop(f) PROVE IInv'
    <1> DEFINE next == Leaving(f, "Abandoned")
    <1>1. request[f].pc \in Suspended /\ ~Owes(f)
        BY FutureFacts DEF Drop, Owes, Well, RequestState, Suspended, Asleep
    <1>2. /\ next \in RequestState /\ Well(f, next) /\ next.guard = request[f].guard
          /\ next.waking = request[f].waking /\ next.notifying = request[f].notifying
          /\ next.pc = "leaving"
        BY <1>1, LeavingFacts
    <1>3. request' = [request EXCEPT ![f] = next]
        BY DEF Drop, Goes
    <1>4. (service' = service \/ service \in {f, None}) /\ service' \in Future \cup {None}
        BY ReleaseFacts DEF Drop
    <1> HIDE DEF next
    <1> QED
        BY <1>1, <1>2, <1>3, <1>4, PlainStep DEF Drop, Holding, Dozing, Suspended, Asleep

LEMMA RespondStep ==
    ASSUME IInv, NEW f \in Future, NEW completion \in Completion, Respond(f, completion)
    PROVE  IInv'
    <1> DEFINE next == Leaving(f, completion)
    <1>1. request[f].pc = "active" /\ ~Owes(f)
        BY DEF Respond, At
    <1>2. /\ next \in RequestState /\ Well(f, next) /\ next.guard = request[f].guard
          /\ next.waking = request[f].waking /\ next.notifying = request[f].notifying
          /\ next.pc = "leaving"
        BY <1>1, TowerAssumption, LeavingFacts DEF Suspended
    <1>3. request' = [request EXCEPT ![f] = next] /\ service' \in Future \cup {None}
        BY DEF Respond, Goes, IInv, Typed
    <1> HIDE DEF next
    <1> QED
        BY <1>1, <1>2, <1>3, PlainStep DEF Respond, Holding, Dozing

\* From one stage to another, nothing else changing.
LEMMA StageFacts ==
    ASSUME IInv, NEW f \in Future, NEW pc \in Stage,
           \/ request[f].pc \in {"lock", "locked", "polling"} /\ pc \in Waiting \ {"timed", "parked"}
           \/ request[f].pc = "dispatched" /\ ~Owes(f) /\ pc = "active"
    PROVE  LET next == [request[f] EXCEPT !.pc = pc] IN
           /\ next \in RequestState /\ Well(f, next) /\ next.guard = request[f].guard
           /\ next.waking = request[f].waking /\ next.notifying = request[f].notifying
           /\ next.pc = pc
    <1>1. request[f] \in RequestState /\ Well(f, request[f])
        BY FutureFacts
    <1>2. ~Owes(f)
        BY <1>1 DEF Well, Owes, RequestState
    <1> QED
        BY <1>1, <1>2 DEF RequestState, Well, Waiting, Owes

LEMMA LockServiceStep == ASSUME IInv, NEW f \in Future, LockService(f) PROVE IInv'
    <1> DEFINE next == [request[f] EXCEPT !.pc = "locked"]
    <1>1. request[f].pc = "lock" /\ service = None /\ service' = f
        BY DEF LockService
    <1>2. /\ next \in RequestState /\ Well(f, next) /\ next.guard = request[f].guard
          /\ next.waking = request[f].waking /\ next.notifying = request[f].notifying
          /\ next.pc = "locked"
        BY <1>1, StageFacts DEF Stage, Waiting
    <1>3. request' = [request EXCEPT ![f] = next]
        BY DEF LockService, Goes
    <1> HIDE DEF next
    <1> QED
        BY <1>1, <1>2, <1>3, PlainStep DEF LockService, Dozing

\* Nobody looks at the inner service between its failure and its closure.
LEMMA PollInnerStep == ASSUME IInv, NEW f \in Future, PollInner(f) PROVE IInv'
    <1> DEFINE next == [request[f] EXCEPT !.pc = "polling"]
    <1>1. request[f].pc = "locked" /\ service = f /\ service' = service
        BY FutureFacts DEF PollInner, Holding
    <1>2. /\ next \in RequestState /\ Well(f, next) /\ next.guard = request[f].guard
          /\ next.waking = request[f].waking /\ next.notifying = request[f].notifying
          /\ next.pc = "polling"
        BY <1>1, StageFacts DEF Stage, Suspended, Waiting
    <1>3. request' = [request EXCEPT ![f] = next]
        BY DEF PollInner, Goes
    <1>4. ~inner_failed
        <2>1. SUFFICES ASSUME inner_failed PROVE FALSE
            OBVIOUS
        <2>2. PICK g \in Future : request[g].pc = "error"
            BY <2>1 DEF PollInner, IInv, Exclusive
        <2>3. g = f
            BY <1>1, <2>2 DEF IInv, Exclusive, Holding
        <2> QED
            BY <1>1, <2>2, <2>3
    <1> HIDE DEF next
    <1> QED
        BY <1>1, <1>2, <1>3, <1>4, PlainStep DEF PollInner, Dozing

LEMMA InnerAnswersStep ==
    ASSUME IInv, NEW f \in Future, NEW outcome \in {"claim", "error"}, InnerAnswers(f, outcome)
    PROVE  IInv'
    <1> DEFINE next == [request[f] EXCEPT !.pc = outcome]
    <1>1. /\ request[f].pc = "polling" /\ service = f /\ service' = service
          /\ request \in [Future -> RequestState]
        BY FutureFacts DEF InnerAnswers, Holding
    <1>2. /\ next \in RequestState /\ Well(f, next) /\ next.guard = request[f].guard
          /\ next.waking = request[f].waking /\ next.notifying = request[f].notifying
          /\ next.pc = outcome
        BY <1>1, StageFacts DEF Stage, Waiting
    <1>3. request' = [request EXCEPT ![f] = next]
        BY DEF InnerAnswers, Goes
    <1>4. /\ UNCHANGED <<ctl, admission_waker, failed, now>> /\ UNCHANGED owner
          /\ inner_failed' \in BOOLEAN /\ owner' \in OwnerState
          /\ service' \in Future \cup {None}
        BY DEF InnerAnswers, state, IInv, Typed
    <1> HIDE DEF next
    <1>5. /\ request'[f] = next /\ \A g \in Future \ {f} : request'[g] = request[g]
        BY <1>1, <1>2, <1>3, RequestGoes
    <1>6. Exclusive'
        <2>1. ASSUME NEW g \in Future, request'[g].pc \in Holding PROVE service' = g
            BY <1>1, <1>5, <2>1 DEF IInv, Exclusive
        <2>2. \A g \in Future : request'[g].pc # "polling"
            BY <1>1, <1>2, <1>5 DEF IInv, Exclusive, Holding
        <2>3. ~inner_failed
            BY <1>1 DEF IInv, Exclusive
        <2>4. inner_failed' => request'[f].pc = "error"
            BY <1>2, <1>5, <2>3 DEF InnerAnswers
        <2> QED
            BY <2>1, <2>2, <2>4 DEF Exclusive
    <1>7. Served'
        BY <1>1, <1>2, <1>3, <1>4, ServedMove DEF IInv
    <1> QED
        BY <1>1, <1>2, <1>3, <1>4, <1>6, <1>7, OwnStep DEF Dozing

LEMMA CallInnerStep == ASSUME IInv, NEW f \in Future, CallInner(f) PROVE IInv'
    <1> DEFINE next == [request[f] EXCEPT !.pc = "active"]
    <1>1. request[f].pc = "dispatched" /\ ~Owes(f)
        BY DEF CallInner, At
    <1>2. /\ next \in RequestState /\ Well(f, next) /\ next.guard = request[f].guard
          /\ next.waking = request[f].waking /\ next.notifying = request[f].notifying
          /\ next.pc = "active"
        BY <1>1, StageFacts DEF Stage, Suspended
    <1>3. request' = [request EXCEPT ![f] = next]
        BY DEF CallInner, Goes
    <1>4. (service' = service \/ service \in {f, None}) /\ service' \in Future \cup {None}
        BY ReleaseFacts DEF CallInner
    <1> HIDE DEF next
    <1> QED
        BY <1>1, <1>2, <1>3, <1>4, PlainStep DEF CallInner, Holding, Dozing

LEMMA ReadClockStep == ASSUME IInv, NEW f \in Future, ReadClock(f) PROVE IInv'
    <1> DEFINE next == [request[f] EXCEPT !.pc = "end", !.read = now]
    <1>1. /\ request[f] \in RequestState /\ Well(f, request[f]) /\ request[f].pc = "leaving"
          /\ now \in Instant
        BY FutureFacts DEF ReadClock, IInv, Typed
    <1>2. /\ next \in RequestState /\ Well(f, next) /\ next.guard = request[f].guard
          /\ next.waking = request[f].waking /\ next.notifying = request[f].notifying
          /\ next.pc = "end"
        BY <1>1 DEF RequestState, Stage, Well, Waiting
    <1>3. request' = [request EXCEPT ![f] = next] /\ service' \in Future \cup {None}
        BY DEF ReadClock, Goes, IInv, Typed
    <1> HIDE DEF next
    <1> QED
        BY <1>1, <1>2, <1>3, PlainStep DEF ReadClock, Holding, Dozing

\* The waker reaches the owner who left it last.
LEMMA WakeAdmissionStep == ASSUME IInv, NEW f \in Future, WakeAdmission(f) PROVE IInv'
    <1> DEFINE next == [request[f] EXCEPT !.waking = None]
    <1>1. /\ request[f] \in RequestState /\ Well(f, request[f])
          /\ request \in [Future -> RequestState] /\ request[f].waking # None
          /\ owner \in OwnerState
        BY FutureFacts DEF WakeAdmission, IInv, Typed
    <1>2. request[f].pc \in {"closing", "retry", "dispatched", "done"}
        BY <1>1 DEF Well
    <1>3. /\ next \in RequestState /\ Well(f, next) /\ next.guard = request[f].guard
          /\ next.notifying = request[f].notifying /\ next.pc = request[f].pc
          /\ next.waking = None
        BY <1>1, <1>2 DEF RequestState, Well, Waiting
    <1>4. request' = [request EXCEPT ![f] = next] /\ service' \in Future \cup {None}
        BY DEF WakeAdmission, Goes, IInv, Typed
    <1>5. /\ owner' \in OwnerState /\ owner'.notifying = owner.notifying
          /\ owner'.asked = owner.asked /\ owner'.granted = owner.granted
          /\ owner'.woken <=> owner.woken \/ owner.asked = request[f].waking
        <2> DEFINE heard == owner.woken \/ owner.asked = request[f].waking
        <2>1. heard \in BOOLEAN
            BY <1>1 DEF OwnerState
        <2>2. owner' = [owner EXCEPT !.woken = heard]
            BY DEF WakeAdmission
        <2>3. heard <=> owner.woken \/ owner.asked = request[f].waking
            OBVIOUS
        <2> HIDE DEF heard
        <2>4. owner' \in OwnerState /\ owner'.woken = heard /\ owner'.notifying = owner.notifying
              /\ owner'.asked = owner.asked /\ owner'.granted = owner.granted
            BY <1>1, <2>1, <2>2 DEF OwnerState
        <2> QED
            BY <2>3, <2>4
    <1>6. /\ UNCHANGED <<ctl, admission_waker, failed, now>> /\ UNCHANGED <<service, inner_failed>>
          /\ inner_failed' \in BOOLEAN
        BY DEF WakeAdmission, state, IInv, Typed
    <1> HIDE DEF next
    <1>7. /\ request'[f] = next /\ \A g \in Future \ {f} : request'[g] = request[g]
        BY <1>1, <1>3, <1>4, RequestGoes
    <1>8. Exclusive'
        <2>1. \A g \in Future : request'[g].pc = request[g].pc
            BY <1>3, <1>7
        <2> QED
            BY <1>6, <2>1 DEF IInv, Exclusive
    <1>9. Served'
        <2>1. ASSUME owner.asked # None, ~owner'.woken
              PROVE  \/ admission_waker = owner.asked /\ ~MaySchedule(ctl) /\ ~failed
                     \/ \E g \in Future : request'[g].waking = owner.asked
            <3>1. ~owner.woken /\ owner.asked # request[f].waking
                BY <1>5, <2>1
            <3>2. \/ admission_waker = owner.asked /\ ~MaySchedule(ctl) /\ ~failed
                  \/ \E g \in Future \ {f} : request[g].waking = owner.asked
                BY <2>1, <3>1 DEF IInv, Served
            <3> QED
                BY <1>7, <3>2
        <2> QED
            BY <1>5, <1>6, <2>1 DEF IInv, Served
    <1>10. request[f].pc # "none" /\ next.pc \notin Dozing
        BY <1>2, <1>3 DEF Dozing
    <1> QED
        BY <1>3, <1>4, <1>5, <1>6, <1>8, <1>9, <1>10, OwnStep
-------------------------------------------------------------------------------
(* The sections of the controller.                                             *)

\* What is known of the controller in every state.
LEMMA ControllerFacts ==
    ASSUME IInv
    PROVE  /\ ctl \in ControllerOf("self") /\ Paced(ctl) /\ Ordered(ctl)
           /\ ~ctl.changes.dispatch /\ now \in Instant
           /\ request \in [Future -> RequestState]
           /\ admission_waker \in Poller \cup {None} /\ owner \in OwnerState
           /\ failed \in BOOLEAN /\ inner_failed \in BOOLEAN
           /\ Ids(ctl) = Guards("Queued")
           /\ Queued(ctl) \in Nat /\ ctl.next_id \in Nat
    <1>1. ctl \in ControllerOf("self")
        BY DEF IInv, Typed
    <1>2. ctl.next_id \in Nat
        BY <1>1, ControllerAssumption DEF ControllerOf
    <1> QED
        BY <1>1, <1>2, IdsAreNumbers DEF IInv, Typed, Counted, GuardsMatchController

\* A future whose request is queued is known to the controller by its number.
LEMMA QueuedFacts ==
    ASSUME IInv, NEW f \in Future, request[f].guard = "Queued"
    PROVE  /\ request[f].token.id = f /\ f \in Ids(ctl) /\ f \in Guards("Queued")
           /\ Owns(ctl, request[f].token)
    BY ControllerFacts, FutureFacts DEF Well, Guards, Owns, Ticket, ControllerOf

\* What future f is left with by a section that ended in d.
Unlocked(d, base) ==
    [base EXCEPT !.waking = IF d.changes.admission THEN admission_waker ELSE None,
                 !.notifying = d.changes.dispatch]

LEMMA UnlockFacts ==
    ASSUME NEW f \in Future, NEW d \in ControllerOf("self"), NEW base \in RequestState,
           admission_waker \in Poller \cup {None}, WithController(f, d, base),
           Well(f, base), base.pc \in {"retry", "dispatched", "done"}
    PROVE  LET next == Unlocked(d, base) IN
           /\ ctl' = TakeChanges(d) /\ request' = [request EXCEPT ![f] = next]
           /\ admission_waker' = IF d.changes.admission THEN None ELSE admission_waker
           /\ next \in RequestState /\ Well(f, next)
           /\ next.pc = base.pc /\ next.guard = base.guard
           /\ next.waking = IF d.changes.admission THEN admission_waker ELSE None
           /\ next.notifying = d.changes.dispatch
           /\ d.changes.admission \in BOOLEAN /\ d.changes.dispatch \in BOOLEAN
    <1> DEFINE next == Unlocked(d, base)
    <1>1. d.changes.admission \in BOOLEAN /\ d.changes.dispatch \in BOOLEAN
        BY DEF ControllerOf, Changes
    <1>2. /\ ctl' = TakeChanges(d) /\ request' = [request EXCEPT ![f] = next]
          /\ admission_waker' = IF d.changes.admission THEN None ELSE admission_waker
        BY DEF WithController, Goes, Unlocked
    <1>3. /\ next.pc = base.pc /\ next.guard = base.guard /\ next.token = base.token
          /\ next.waking = IF d.changes.admission THEN admission_waker ELSE None
          /\ next.notifying = d.changes.dispatch
        BY DEF Unlocked, RequestState
    <1>4. next \in RequestState
        BY <1>1 DEF Unlocked, RequestState
    <1>5. Well(f, next)
        <2> HIDE DEF next
        <2> QED
            BY <1>3 DEF Well, Waiting
    <1> QED
        BY <1>1, <1>2, <1>3, <1>4, <1>5

\* A claim and an end give up what they take from the queue, and say so.
LEMMA SectionStep ==
    ASSUME IInv, NEW f \in Future, NEW d \in ControllerOf("self"), NEW base \in RequestState,
           WithController(f, d, base), UNCHANGED <<failed, inner_failed, service, owner, now>>,
           Well(f, base), base.pc \in {"retry", "dispatched", "done"},
           request[f].pc \in {"claim", "end"}, base.pc # "done" => request[f].pc = "claim",
           Paced(d), Ordered(d), d.next_id = ctl.next_id, Announces(ctl, d, now),
           Ids(d) \subseteq Ids(ctl), Ids(ctl) \ {f} \subseteq Ids(d),
           Queued(d) <= Queued(ctl), ~d.changes.dispatch => d.inflight = ctl.inflight,
           Counted'
    PROVE  IInv'
    <1> DEFINE next == Unlocked(d, base)
    <1>1. /\ ctl' = TakeChanges(d) /\ request' = [request EXCEPT ![f] = next]
          /\ admission_waker' = IF d.changes.admission THEN None ELSE admission_waker
          /\ next \in RequestState /\ Well(f, next)
          /\ next.pc = base.pc
          /\ next.waking = IF d.changes.admission THEN admission_waker ELSE None
          /\ next.notifying = d.changes.dispatch
          /\ d.changes.admission \in BOOLEAN /\ d.changes.dispatch \in BOOLEAN
        BY ControllerFacts, UnlockFacts
    <1> HIDE DEF next
    <1>2. request[f].waking = None /\ ~request[f].notifying /\ request \in [Future -> RequestState]
        BY FutureFacts DEF Well, RequestState
    <1>3. /\ Queued(ctl') = Queued(d) /\ ctl'.next_id = d.next_id
        BY <1>1, TakeChangesFacts DEF KeepsQueue
    <1>4. Numbered'
        BY <1>1, <1>2, <1>3, NumberedMove DEF IInv
    <1>5. Exclusive'
        <2>1. next.pc \in Holding => service' = f
            BY <1>1, FutureFacts DEF Holding
        <2> QED
            BY <1>1, <1>2, <2>1, ExclusiveMove DEF IInv
    <1>6. /\ MaySchedule(ctl) => MaySchedule(ctl')
          /\ ~MaySchedule(ctl) /\ MaySchedule(ctl') => d.changes.admission
        <2>1. Queued(d) \in Nat /\ Queued(ctl) \in Nat /\ QueueCapacity \in Nat
            BY IdsAreNumbers, ControllerFacts, ConfigAssumption
        <2> QED
            BY <1>3, <2>1 DEF MaySchedule, Announces
    <1>7. Served'
        BY <1>1, <1>2, <1>6, ControllerFacts, ServedCall DEF IInv
    <1>8. next.pc \notin Dozing
        BY <1>1 DEF Dozing
    <1>9. /\ failed' \in BOOLEAN /\ admission_waker' \in Poller \cup {None}
          /\ owner' \in OwnerState /\ owner'.notifying = owner.notifying
        BY <1>1, ControllerFacts
    <1> QED
        BY <1>1, <1>2, <1>4, <1>5, <1>7, <1>8, <1>9, ControllerStep

LEMMA BeginDispatchStep == ASSUME IInv, NEW f \in Future, BeginDispatch(f) PROVE IInv'
    <1>1. /\ ctl \in ControllerOf("self") /\ Paced(ctl) /\ Ordered(ctl) /\ now \in Instant
          /\ request[f] \in RequestState /\ Well(f, request[f]) /\ request[f].pc = "claim"
          /\ request[f].guard = "Queued"
          /\ admission_waker \in Poller \cup {None} /\ request \in [Future -> RequestState]
          /\ Queued(ctl) \in Nat
        BY ControllerFacts, FutureFacts DEF BeginDispatch, Well, Waiting
    <1>2. request[f].token.id = f /\ f \in Ids(ctl)
        BY <1>1, QueuedFacts
    <1>3. PICK draw \in Draw :
              LET result == OnDispatched(ctl, request[f].token, draw, now) IN
              WithController(f, result.ctl,
                IF result.answer.tag = "Ready"
                THEN [request[f] EXCEPT !.pc = "dispatched", !.guard = "InFlight",
                                        !.token = result.token]
                ELSE [request[f] EXCEPT !.pc = "retry"])
        BY DrawsType DEF BeginDispatch
    <1> DEFINE result == OnDispatched(ctl, request[f].token, draw, now)
               d == result.ctl
               out == [request[f] EXCEPT !.pc = "dispatched", !.guard = "InFlight",
                                         !.token = result.token]
               back == [request[f] EXCEPT !.pc = "retry"]
    <1>4. Claims("self", ctl, request[f].token, result)
        BY <1>1, DispatchIds
    <1>5. /\ Announces(ctl, d, now)
          /\ result.answer.tag = "Ready" => d.changes.dispatch /\ d.next_id = ctl.next_id
        BY <1>1, DispatchAnnounces, OnDispatchedFacts
    <1>6. WithController(f, d, IF result.answer.tag = "Ready" THEN out ELSE back)
        BY <1>3
    <1> HIDE DEF result
    <1>7. d \in ControllerOf("self") /\ Paced(d) /\ Ordered(d)
        BY <1>4 DEF Claims
    <1>8. /\ Ids(TakeChanges(d)) = Ids(d) /\ Queued(TakeChanges(d)) = Queued(d)
          /\ TakeChanges(d).inflight = d.inflight /\ KeepsQueue(d, TakeChanges(d))
        BY <1>7, TakeChangesFacts, KeptIds DEF KeepsQueue
    <1>9. CASE result.answer.tag = "Ready"
        <2>1. /\ Ids(d) = Ids(ctl) \ {f} /\ Queued(d) = Queued(ctl) - 1
              /\ d.inflight = ctl.inflight + 1 /\ result.token \in Token
            BY <1>2, <1>4, <1>9 DEF Claims, Token
        <2>2. /\ out \in RequestState /\ Well(f, out) /\ out.pc = "dispatched"
              /\ out.guard = "InFlight"
            <3>1. /\ out.pc = "dispatched" /\ out.guard = "InFlight" /\ out.token = result.token
                  /\ out.waking = request[f].waking /\ out.notifying = request[f].notifying
                BY <1>1 DEF RequestState
            <3>2. out \in RequestState
                BY <1>1, <2>1 DEF RequestState, Stage
            <3> QED
                BY <1>1, <2>1, <3>1, <3>2 DEF Well, Waiting
        <2>3. WithController(f, d, out)
            BY <1>6, <1>9
        <2> HIDE DEF out, d
        <2>4. /\ ctl' = TakeChanges(d) /\ request' = [request EXCEPT ![f] = Unlocked(d, out)]
              /\ Unlocked(d, out) \in RequestState /\ Unlocked(d, out).guard = "InFlight"
            BY <1>1, <1>7, <2>2, <2>3, UnlockFacts
        <2>5. Counted'
            BY <1>1, <1>8, <2>1, <2>4, LeftCounted DEF IInv
        <2>6. Ids(d) \subseteq Ids(ctl) /\ Ids(ctl) \ {f} \subseteq Ids(d) /\ Queued(d) <= Queued(ctl)
            BY <1>1, <2>1
        <2> QED
            BY <1>1, <1>5, <1>7, <1>9, <2>2, <2>3, <2>5, <2>6, SectionStep DEF BeginDispatch
    <1>10. CASE result.answer.tag # "Ready"
        <2>1. KeepsQueue(ctl, d)
            BY <1>4, <1>10 DEF Claims
        <2>2. /\ back \in RequestState /\ Well(f, back) /\ back.pc = "retry"
              /\ back.guard = "Queued"
            BY <1>1 DEF RequestState, Stage, Well, Waiting
        <2>3. WithController(f, d, back)
            BY <1>6, <1>10
        <2> HIDE DEF back, d
        <2>4. /\ ctl' = TakeChanges(d) /\ request' = [request EXCEPT ![f] = Unlocked(d, back)]
              /\ Unlocked(d, back) \in RequestState /\ Unlocked(d, back).guard = "Queued"
            BY <1>1, <1>7, <2>2, <2>3, UnlockFacts
        <2>5. KeepsQueue(ctl, ctl')
            BY <1>8, <2>1, <2>4, KeepsQueueTransitive
        <2>6. Counted'
            BY <1>1, <2>4, <2>5, SameCounted DEF IInv
        <2>7. /\ Ids(d) = Ids(ctl) /\ Queued(d) = Queued(ctl) /\ d.next_id = ctl.next_id
              /\ d.inflight = ctl.inflight
            BY <2>1, KeptIds DEF KeepsQueue
        <2> QED
            BY <1>1, <1>5, <1>7, <2>2, <2>3, <2>6, <2>7, SectionStep DEF BeginDispatch
    <1> QED
        BY <1>9, <1>10

LEMMA FinishPendingStep == ASSUME IInv, NEW f \in Future, FinishPending(f) PROVE IInv'
    <1> DEFINE token == request[f].token
               at == request[f].read
               base == [Vacant EXCEPT !.pc = "done"]
    <1>1. /\ ctl \in ControllerOf("self") /\ Paced(ctl) /\ Ordered(ctl) /\ now \in Instant
          /\ request[f] \in RequestState /\ Well(f, request[f]) /\ request[f].pc = "end"
          /\ request[f].guard \in {"Queued", "InFlight"} /\ at \in Instant
          /\ request[f].completion \in {"Success", "Failure", "Abandoned"}
          /\ admission_waker \in Poller \cup {None} /\ request \in [Future -> RequestState]
          /\ Queued(ctl) \in Nat
        BY ControllerFacts, FutureFacts DEF FinishPending, Well
    <1>2. /\ base \in RequestState /\ Well(f, base) /\ base.pc = "done" /\ base.guard = "Finished"
        BY VacantFacts DEF Vacant, Well, Waiting
    <1> HIDE DEF base
    <1>3. ASSUME NEW d \in ControllerOf("self"), WithController(f, d, base)
          PROVE  /\ ctl' = TakeChanges(d) /\ request' = [request EXCEPT ![f] = Unlocked(d, base)]
                 /\ Unlocked(d, base) \in RequestState /\ Unlocked(d, base).guard = "Finished"
                 /\ Ids(ctl') = Ids(d) /\ Queued(ctl') = Queued(d) /\ ctl'.inflight = d.inflight
                 /\ KeepsQueue(d, ctl')
        BY <1>1, <1>2, <1>3, UnlockFacts, TakeChangesFacts, KeptIds DEF KeepsQueue
    <1>4. CASE request[f].guard = "Queued"
        <2> DEFINE d == Cancel(ctl, token, at)
        <2>1. token.id = f /\ f \in Ids(ctl) /\ Owns(ctl, token)
            BY <1>4, QueuedFacts
        <2>2. /\ d \in ControllerOf("self") /\ Paced(d) /\ Ordered(d)
              /\ Ids(d) = Ids(ctl) \ {f} /\ Queued(d) = Queued(ctl) - 1
              /\ d.inflight = ctl.inflight
            BY <1>1, <2>1, CancelIds
        <2>3. Announces(ctl, d, now) /\ d.changes.dispatch /\ d.next_id = ctl.next_id
            <3>1. Announces(ctl, d, now) /\ d.changes.dispatch
                BY <1>1, <2>1, CancelAnnounces
            <3>2. d.next_id = ctl.next_id
                BY <1>1, CancelFacts
            <3> QED
                BY <3>1, <3>2
        <2>4. WithController(f, d, base)
            BY <1>4 DEF FinishPending, base
        <2> HIDE DEF d
        <2>5. Counted'
            BY <1>1, <1>3, <1>4, <2>2, <2>4, LeftCounted DEF IInv
        <2>6. Ids(d) \subseteq Ids(ctl) /\ Ids(ctl) \ {f} \subseteq Ids(d) /\ Queued(d) <= Queued(ctl)
            BY <1>1, <2>2
        <2> QED
            BY <1>1, <1>2, <2>2, <2>3, <2>4, <2>5, <2>6, SectionStep DEF FinishPending
    <1>5. CASE request[f].guard = "InFlight"
        <2> DEFINE d == Finish(ctl, token, request[f].completion, at)
                   counted == [ctl EXCEPT !.inflight = @ - 1]
        <2>1. /\ Owns(ctl, token)
              /\ token.dispatched_at \in Instant /\ token.was_paced \in BOOLEAN
            BY <1>1, <1>5 DEF Well, Token, TokenOf, Owns, ControllerOf
        <2>2. ctl.inflight \in Nat \ {0}
            <3>1. f \in Guards("InFlight")
                BY <1>5 DEF Guards
            <3>2. Cardinality(Guards("InFlight")) # 0
                BY <3>1, FS_EmptySet DEF IInv, Counted
            <3> QED
                BY <1>1, <3>2 DEF IInv, Counted, GuardsMatchController, ControllerOf
        <2>3. d \in ControllerOf("self") /\ Paced(d) /\ KeepsQueue(counted, d)
            BY <1>1, <2>1, <2>2, FinishFacts
        <2>4. d.changes.dispatch /\ Announces(ctl, d, now)
            BY <1>1, <2>1, <2>2, FinishAnnounces
        <2>5. WithController(f, d, base)
            BY <1>5 DEF FinishPending, base
        <2> HIDE DEF d
        <2>6. /\ Ids(counted) = Ids(ctl) /\ Ordered(counted) /\ Queued(counted) = Queued(ctl)
              /\ counted.next_id = ctl.next_id
            BY <1>1 DEF Ids, Queued, Ordered, ControllerOf
        <2> HIDE DEF counted
        <2>7. /\ Ids(d) = Ids(ctl) /\ Ordered(d) /\ Queued(d) = Queued(ctl)
              /\ d.next_id = ctl.next_id
            BY <2>3, <2>6, KeptIds DEF KeepsQueue
        <2>8. KeepsQueue(counted, ctl')
            BY <1>3, <2>3, <2>5, KeepsQueueTransitive
        <2>9. Counted'
            BY <1>1, <1>3, <1>5, <2>3, <2>5, <2>8, EndedCounted DEF IInv, counted
        <2>10. Ids(d) \subseteq Ids(ctl) /\ Ids(ctl) \ {f} \subseteq Ids(d) /\ Queued(d) <= Queued(ctl)
            BY <1>1, <2>7
        <2> QED
            BY <1>1, <1>2, <2>3, <2>4, <2>5, <2>7, <2>9, <2>10, SectionStep DEF FinishPending
    <1> QED
        BY <1>1, <1>4, <1>5

\* A future is made at the number of its reservation, which nobody has had.
LEMMA CallStep == ASSUME IInv, Call PROVE IInv'
    <1>1. /\ ctl \in ControllerOf("self") /\ Paced(ctl) /\ Ordered(ctl) /\ now \in Instant
          /\ ~ctl.changes.dispatch /\ request \in [Future -> RequestState]
          /\ admission_waker \in Poller \cup {None} /\ owner \in OwnerState
          /\ failed \in BOOLEAN /\ Queued(ctl) \in Nat /\ owner.granted
        BY ControllerFacts DEF Call
    <1>2. /\ owner' \in OwnerState /\ owner'.notifying = owner.notifying /\ ~owner'.granted
          /\ owner'.asked = owner.asked /\ owner'.woken = owner.woken
        BY <1>1 DEF Call, OwnerState
    <1>3. owner.asked = None
        BY <1>1 DEF IInv, Served
    <1>4. Served'
        BY <1>2, <1>3 DEF Served
    <1>5. CASE failed
        <2>1. /\ UNCHANGED <<ctl, request, admission_waker, failed, inner_failed, service, now>>
            BY <1>5 DEF Call
        <2>2. Typed' /\ Counted' /\ Numbered' /\ Exclusive'
            BY <1>2, <2>1 DEF IInv, Typed, Counted, GuardsMatchController, Guards, Numbered,
                              Exclusive, Well
        <2>3. NobodyNotifies' <=> NobodyNotifies
            BY <1>2, <2>1 DEF NobodyNotifies
        <2>4. AllAttended' /\ ClosureHeard'
            BY <2>1, <2>3 DEF IInv, AllAttended, ClosureHeard, Attended, Waits
        <2> QED
            BY <1>4, <2>2, <2>4 DEF IInv
    <1>6. CASE ~failed
        <2> DEFINE d == Reserve(ctl, now)
                   f == ctl.next_id
                   next == [Vacant EXCEPT !.pc = "fresh", !.guard = "Queued",
                                          !.token = [controller_id |-> "self", id |-> f]]
        <2>1. CanReserve(ctl)
            BY <1>1, <1>6 DEF IInv, Served, Call, CanReserve
        <2>2. /\ d \in ControllerOf("self") /\ Paced(d) /\ Ordered(d)
              /\ f \in Future
              /\ Ids(d) = Ids(ctl) \cup {f}
              /\ Queued(d) = Queued(ctl) + 1 /\ d.inflight = ctl.inflight
            BY <1>1, <2>1, ReserveIds DEF Future
        <2>3. Announces(ctl, d, now)
            BY <1>1, ReserveAnnounces
        <2>4. ~d.changes.dispatch /\ d.next_id = f + 1
            BY <1>1, <2>1 DEF Reserve, ControllerOf
        <2>5. ctl' = d /\ request' = [request EXCEPT ![f] = next]
            BY <1>6 DEF Call, Goes
        <2>6. UNCHANGED <<admission_waker, failed, inner_failed, service, now>>
            BY DEF Call
        <2> HIDE DEF d
        <2>7. request[f].pc = "none" /\ request[f].guard = "Finished" /\ ~request[f].notifying
            <3>1. request[f].pc = "none"
                BY <2>2, NoneIsNoFuture DEF IInv, Numbered
            <3> QED
                BY <2>2, <3>1, FutureFacts DEF Well
        <2>8. next \in RequestState /\ Well(f, next) /\ next.guard = "Queued" /\ next.pc = "fresh"
              /\ next.waking = None /\ ~next.notifying
            BY <2>2 DEF Vacant, RequestState, Stage, Suspended, Well, Waiting, Ticket
        <2> HIDE DEF next
        <2>9. Counted'
            BY <1>1, <2>2, <2>5, <2>7, <2>8, ReservedCounted DEF IInv
        <2>10. Numbered'
            <3>1. \A g \in Future : g >= f + 1 => g # f /\ g >= f
                BY <2>2, NoneIsNoFuture
            <3> QED
                BY <1>1, <2>2, <2>4, <2>5, <2>8, <3>1, RequestGoes DEF IInv, Numbered
        <2>11. Exclusive'
            <3>1. next.pc \notin Holding /\ next.pc # "polling"
                BY <2>8 DEF Holding
            <3> QED
                BY <1>1, <2>2, <2>5, <2>6, <2>7, <2>8, <3>1, ExclusiveMove DEF IInv
        <2>12. next.pc \notin Dozing
            BY <2>8 DEF Dozing
        <2> HIDE DEF f
        <2>13. /\ failed' = failed /\ failed' \in BOOLEAN /\ UNCHANGED inner_failed
               /\ UNCHANGED service /\ now' = now /\ admission_waker' \in Poller \cup {None}
            BY <1>1, <2>6
        <2>14. Ids(d) \subseteq Ids(ctl) \cup {ctl.next_id} /\ Ids(ctl) \ {f} \subseteq Ids(d)
            BY <2>2 DEF f
        <2> QED
            BY <1>2, <1>4, <2>2, <2>3, <2>4, <2>5, <2>7, <2>8, <2>9, <2>10, <2>11, <2>12, <2>13,
               <2>14, ControllerStep
    <1> QED
        BY <1>1, <1>5, <1>6

\* Whoever publishes the failure wakes everyone, whatever the controller asks for.
LEMMA PublishFailureStep == ASSUME IInv, NEW f \in Future, PublishFailure(f) PROVE IInv'
    <1> DEFINE d == OnAdmissionFailure(ctl, now)
               next == [request[f] EXCEPT !.pc = "closing", !.waking = admission_waker,
                                          !.notifying = TRUE]
    <1>1. /\ ctl \in ControllerOf("self") /\ Paced(ctl) /\ Ordered(ctl) /\ now \in Instant
          /\ request[f] \in RequestState /\ Well(f, request[f]) /\ request[f].pc = "error"
          /\ request[f].guard = "Queued" /\ service = f
          /\ admission_waker \in Poller \cup {None} /\ request \in [Future -> RequestState]
          /\ owner \in OwnerState
        BY ControllerFacts, FutureFacts DEF PublishFailure, Well, Waiting, Holding
    <1>2. d \in ControllerOf("self") /\ KeepsQueue(ctl, d) /\ Paced(d)
        BY <1>1, OnAdmissionFailureFacts
    <1>3. Announces(ctl, d, now)
        BY <1>1, OnAdmissionFailureAnnounces
    <1>4. /\ ctl' = TakeChanges(d) /\ request' = [request EXCEPT ![f] = next]
          /\ failed' = TRUE /\ admission_waker' = None
          /\ UNCHANGED <<inner_failed, service, owner, now>>
        BY DEF PublishFailure, Goes
    <1> HIDE DEF d
    <1>5. /\ next \in RequestState /\ Well(f, next) /\ next.guard = "Queued"
          /\ next.pc = "closing" /\ next.waking = admission_waker /\ next.notifying
        BY <1>1 DEF RequestState, Stage, Well, Waiting
    <1> HIDE DEF next
    <1>6. KeepsQueue(ctl, ctl')
        BY <1>2, <1>4, TakeChangesFacts, KeepsQueueTransitive
    <1>7. Counted'
        BY <1>1, <1>4, <1>5, <1>6, SameCounted DEF IInv
    <1>8. Numbered'
        BY <1>1, <1>4, <1>5, <1>6, NumberedMove DEF IInv, KeepsQueue
    <1>9. /\ request'[f] = next /\ \A g \in Future \ {f} : request'[g] = request[g]
        BY <1>1, <1>4, <1>5, RequestGoes
    <1>10. Exclusive'
        <2>1. ASSUME NEW g \in Future, request'[g].pc \in Holding PROVE service' = g
            BY <1>1, <1>4, <1>9, <2>1 DEF IInv, Exclusive
        <2>2. inner_failed' => \A g \in Future : request'[g].pc # "polling"
            BY <1>4, <1>5, <1>9 DEF IInv, Exclusive
        <2> QED
            BY <1>4, <2>1, <2>2 DEF Exclusive
    <1>11. request[f].waking = None /\ ~request[f].notifying
        BY <1>1 DEF Well, RequestState
    <1>12. Served'
        <2>1. ASSUME owner.asked # None, ~owner.woken
              PROVE  \E g \in Future : request'[g].waking = owner.asked
            <3>1. CASE \E g \in Future : request[g].waking = owner.asked
                <4>1. PICK g \in Future : request[g].waking = owner.asked
                    BY <3>1
                <4>2. g # f
                    BY <1>11, <2>1, <4>1
                <4> QED
                    BY <1>9, <4>1, <4>2
            <3>2. CASE admission_waker = owner.asked
                BY <1>5, <1>9, <3>2
            <3> QED
                BY <2>1, <3>1, <3>2 DEF IInv, Served
        <2> QED
            BY <1>4, <2>1 DEF IInv, Served
    <1>13. /\ Ids(d) \subseteq Ids(ctl) \cup {ctl.next_id} /\ Ids(ctl) \ {f} \subseteq Ids(d)
           /\ Ordered(d)
        BY <1>1, <1>2, KeptIds
    <1>14. /\ failed' \in BOOLEAN /\ admission_waker' \in Poller \cup {None}
           /\ owner' \in OwnerState /\ owner'.notifying = owner.notifying
           /\ now' = now /\ UNCHANGED inner_failed /\ UNCHANGED service
        BY <1>1, <1>4
    <1>15. next.pc \notin Dozing
        BY <1>5 DEF Dozing
    <1> QED
        BY <1>2, <1>3, <1>4, <1>5, <1>7, <1>8, <1>10, <1>11, <1>12, <1>13, <1>14, <1>15, ControllerStep

\* Reading the metric refreshes; the owner itself wakes those it concerns.
LEMMA ReadMetricStep == ASSUME IInv, ReadMetric PROVE IInv'
    <1>1. /\ ctl \in ControllerOf("self") /\ Paced(ctl) /\ Ordered(ctl) /\ now \in Instant
          /\ owner \in OwnerState
        BY ControllerFacts
    <1>2. PICK draw \in Draw :
              /\ ctl' = TakeChanges(Refresh(ctl, draw, now))
              /\ owner' = [owner EXCEPT !.notifying = Refresh(ctl, draw, now).changes.dispatch]
        BY DrawsType DEF ReadMetric
    <1> DEFINE d == Refresh(ctl, draw, now)
    <1>3. d \in ControllerOf("self") /\ KeepsQueue(ctl, d) /\ Paced(d) /\ Announces(ctl, d, now)
        BY <1>1, RefreshFacts, RefreshAnnounces
    <1> HIDE DEF d
    <1>4. ctl' = TakeChanges(d) /\ owner' = [owner EXCEPT !.notifying = d.changes.dispatch]
        BY <1>2 DEF d
    <1>5. UNCHANGED <<admission_waker, failed, inner_failed, service, request, now>>
        BY DEF ReadMetric
    <1>6. /\ owner' \in OwnerState /\ owner'.notifying = d.changes.dispatch
          /\ owner'.asked = owner.asked /\ owner'.woken = owner.woken
          /\ owner'.granted = owner.granted
        BY <1>1, <1>3, <1>4 DEF OwnerState, ControllerOf, Changes
    <1>7. /\ ctl' \in ControllerOf("self") /\ Paced(ctl') /\ ~ctl'.changes.dispatch
          /\ KeepsQueue(d, ctl') /\ ctl'.pending = d.pending /\ ctl'.inflight = d.inflight
          /\ HeadDue(ctl') = HeadDue(d)
        <2>1. /\ TakeChanges(d) \in ControllerOf("self") /\ Paced(TakeChanges(d))
              /\ KeepsQueue(d, TakeChanges(d)) /\ TakeChanges(d).pending = d.pending
              /\ TakeChanges(d).inflight = d.inflight
              /\ HeadDue(TakeChanges(d)) = HeadDue(d)
            BY <1>3, TakeChangesFacts
        <2>2. ~TakeChanges(d).changes.dispatch
            BY <1>3 DEF TakeChanges, NoChanges, ControllerOf
        <2> QED
            BY <1>4, <2>1, <2>2
    <1>8. KeepsQueue(ctl, ctl')
        BY <1>3, <1>7, KeepsQueueTransitive
    <1>9. /\ Ordered(ctl') /\ Ids(ctl') = Ids(ctl) /\ Queued(ctl') = Queued(ctl)
          /\ ctl'.inflight = ctl.inflight /\ ctl'.next_id = ctl.next_id
          /\ Ordered(d) /\ Ids(d) = Ids(ctl) /\ d.inflight = ctl.inflight
        BY <1>1, <1>3, <1>8, KeptIds DEF KeepsQueue
    <1>10. Typed'
        BY <1>5, <1>6, <1>7, <1>9 DEF IInv, Typed, Well
    <1>11. Counted' /\ Numbered' /\ Exclusive'
        BY <1>5, <1>9 DEF IInv, Counted, GuardsMatchController, Guards, Numbered, Exclusive
    <1>12. Served'
        BY <1>5, <1>6, <1>9 DEF IInv, Served, MaySchedule
    <1> DEFINE still == NobodyNotifies'
    <1>13. still \in BOOLEAN
        BY DEF NobodyNotifies
    <1>14. still => NobodyNotifies /\ ~d.changes.dispatch /\ d.inflight = ctl.inflight
        BY <1>5, <1>6, <1>9 DEF NobodyNotifies, ReadMetric
    <1> HIDE DEF still
    <1>15. ASSUME NEW g \in Future PROVE Attended(d, now, g, request[g], still)
        <2>1. request[g].pc \in Dozing => g \in Ids(d)
            BY <1>9, SleepersQueue
        <2> QED
            BY <1>3, <1>5, <1>9, <1>13, <1>14, <2>1, AttendedAfter
    <1>16. \A g \in Future : Attended(ctl', now, g, request[g], still)
        BY <1>7, <1>15 DEF Attended, Waits, HeadIs, InflightFull, Queued
    <1>17. AllAttended'
        BY <1>5, <1>16 DEF AllAttended, Attended, still
    <1>18. ClosureHeard'
        BY <1>5, <1>14 DEF IInv, ClosureHeard, still
    <1> QED
        BY <1>10, <1>11, <1>12, <1>17, <1>18 DEF IInv

\* A check changes the controller for its head only, and the others do not
\* depend on that.
LEMMA InspectStep == ASSUME IInv, NEW f \in Future, Inspect(f) PROVE IInv'
    <1> DEFINE token == request[f].token
    <1>1. /\ ctl \in ControllerOf("self") /\ Paced(ctl) /\ Ordered(ctl) /\ now \in Instant
          /\ request \in [Future -> RequestState]
          /\ request[f] \in RequestState /\ Well(f, request[f]) /\ request[f].pc = "check"
          /\ request[f].guard = "Queued" /\ ~failed
          /\ request[f].waking = None /\ ~request[f].notifying
        BY ControllerFacts, FutureFacts DEF Inspect, Well, Waiting, RequestState
    <1>2. token.id = f /\ f \in Ids(ctl) /\ Owns(ctl, token) /\ f \in Guards("Queued")
        BY <1>1, QueuedFacts
    <1>3. PICK draw \in Draw :
              /\ ctl' = TakeChanges(Check(ctl, token, draw, now).ctl)
              /\ Goes(f, Told(f, Check(ctl, token, draw, now).answer))
        BY DrawsType DEF Inspect
    <1> DEFINE checked == Check(ctl, token, draw, now)
               d == checked.ctl
               next == Told(f, checked.answer)
    <1>4. ctl' = TakeChanges(d) /\ request' = [request EXCEPT ![f] = next]
        BY <1>3 DEF Goes
    <1>5. d \in ControllerOf("self") /\ KeepsQueue(ctl, d) /\ Paced(d)
        BY <1>1, CheckFacts
    <1>6. checked.answer.at \in Instant \cup {None}
        BY <1>1, CheckAnnounces
    <1>7. /\ next \in RequestState /\ Well(f, next) /\ next.guard = "Queued"
          /\ next.waking = None /\ ~next.notifying /\ next.woken = request[f].woken
          /\ next.deadline = checked.answer.at
          /\ next.pc = IF checked.answer.tag # "Ready" THEN "looked"
                       ELSE IF service = f THEN "claim" ELSE "lock"
        <2> HIDE DEF checked
        <2>1. /\ next.guard = "Queued" /\ next.waking = None /\ ~next.notifying
              /\ next.woken = request[f].woken /\ next.deadline = checked.answer.at
              /\ next.token = request[f].token
              /\ next.pc = IF checked.answer.tag # "Ready" THEN "looked"
                           ELSE IF service = f THEN "claim" ELSE "lock"
            BY <1>1 DEF Told, RequestState
        <2>2. next \in RequestState
            <3> DEFINE pc == IF checked.answer.tag # "Ready" THEN "looked"
                             ELSE IF service = f THEN "claim" ELSE "lock"
                       at == checked.answer.at
            <3>1. pc \in Stage
                BY DEF Stage, Suspended
            <3>2. next = [request[f] EXCEPT !.pc = pc, !.deadline = at]
                BY DEF Told
            <3> HIDE DEF pc, at, next
            <3> QED
                BY <1>1, <1>6, <3>1, <3>2 DEF RequestState, at
        <2>3. Well(f, next)
            <3> HIDE DEF next
            <3> QED
                BY <1>1, <2>1 DEF Well, Waiting
        <2> QED
            BY <2>1, <2>2, <2>3
    <1>8. ASSUME NEW quiet \in BOOLEAN, next.pc \in Dozing
          PROVE  Waits(d, now, f, next.deadline, quiet)
        <2>1. checked.answer.tag # "Ready"
            BY <1>7, <1>8 DEF Dozing
        <2> HIDE DEF next
        <2> QED
            BY <1>1, <1>2, <1>7, <2>1, CheckWaits
    <1>9. ASSUME NEW g \in Future, g # f, NEW deadline \in Instant \cup {None},
                 NEW quiet \in BOOLEAN, Waits(ctl, now, g, deadline, quiet)
          PROVE  Waits(d, now, g, deadline, quiet)
        BY <1>1, <1>2, <1>9, CheckSparesOthers
    <1> HIDE DEF next, d, checked
    <1>10. /\ ctl' \in ControllerOf("self") /\ Paced(ctl') /\ ~ctl'.changes.dispatch
           /\ KeepsQueue(d, ctl') /\ ctl'.pending = d.pending /\ ctl'.inflight = d.inflight
           /\ HeadDue(ctl') = HeadDue(d)
        <2>1. /\ TakeChanges(d) \in ControllerOf("self") /\ Paced(TakeChanges(d))
              /\ KeepsQueue(d, TakeChanges(d)) /\ TakeChanges(d).pending = d.pending
              /\ TakeChanges(d).inflight = d.inflight
              /\ HeadDue(TakeChanges(d)) = HeadDue(d)
            BY <1>5, TakeChangesFacts
        <2>2. ~TakeChanges(d).changes.dispatch
            BY <1>5 DEF TakeChanges, NoChanges, ControllerOf
        <2> QED
            BY <1>4, <2>1, <2>2
    <1>11. KeepsQueue(ctl, ctl')
        BY <1>5, <1>10, KeepsQueueTransitive
    <1>12. UNCHANGED <<admission_waker, failed, inner_failed, service, owner, now>>
        BY DEF Inspect
    <1>13. Ordered(ctl') /\ ctl'.next_id = ctl.next_id /\ Queued(ctl') = Queued(ctl)
        BY <1>1, <1>11, KeptIds DEF KeepsQueue
    <1>14. Typed'
        <2>1. /\ failed' \in BOOLEAN /\ inner_failed' \in BOOLEAN
              /\ admission_waker' \in Poller \cup {None} /\ service' \in Future \cup {None}
              /\ owner' \in OwnerState /\ now' = now
            BY <1>12 DEF IInv, Typed
        <2> QED
            BY <1>4, <1>7, <1>10, <1>13, <2>1, TypedMove DEF IInv
    <1>15. Counted'
        BY <1>1, <1>4, <1>7, <1>11, SameCounted DEF IInv
    <1>16. Numbered'
        BY <1>1, <1>4, <1>7, <1>13, NumberedMove DEF IInv
    <1>17. Exclusive'
        <2>1. next.pc \in Holding => service' = f
            BY <1>7, <1>12 DEF Holding
        <2>2. next.pc # "polling" /\ service' = service /\ UNCHANGED <<failed, inner_failed>>
            BY <1>7, <1>12
        <2> QED
            BY <1>1, <1>4, <1>7, <2>1, <2>2, ExclusiveMove DEF IInv
    <1>18. Served'
        <2>1. MaySchedule(ctl') <=> MaySchedule(ctl)
            BY <1>13 DEF MaySchedule
        <2>2. UNCHANGED <<admission_waker, failed, owner>>
            BY <1>12
        <2> QED
            BY <1>1, <1>4, <1>7, <2>1, <2>2, ServedMove DEF IInv
    <1>19. /\ request'[f] = next /\ \A g \in Future \ {f} : request'[g] = request[g]
        BY <1>1, <1>4, <1>7, RequestGoes
    <1>20. NobodyNotifies' <=> NobodyNotifies
        BY <1>1, <1>7, <1>12, <1>19 DEF NobodyNotifies
    <1>21. ASSUME NEW g \in Future PROVE Attended(d, now, g, request'[g], NobodyNotifies)
        <2> DEFINE quiet == ~request'[g].woken /\ NobodyNotifies
        <2>1. quiet \in BOOLEAN
            OBVIOUS
        <2>2. CASE g = f
            <3> HIDE DEF quiet
            <3>1. request'[g].pc \in Dozing => Waits(d, now, g, request'[g].deadline, quiet)
                BY <1>8, <1>19, <2>1, <2>2
            <3> QED
                BY <3>1 DEF Attended, quiet
        <2>3. CASE g # f
            <3>1. request'[g].pc \in Dozing => Waits(ctl, now, g, request'[g].deadline, quiet)
                BY <1>19, <2>3 DEF IInv, AllAttended, Attended
            <3>2. request'[g].deadline \in Instant \cup {None}
                BY <1>1, <1>19, <2>3 DEF RequestState
            <3> HIDE DEF quiet
            <3>3. request'[g].pc \in Dozing => Waits(d, now, g, request'[g].deadline, quiet)
                BY <1>9, <2>1, <2>3, <3>1, <3>2
            <3> QED
                BY <3>3 DEF Attended, quiet
        <2> QED
            BY <2>2, <2>3
    <1>22. \A g \in Future : Attended(ctl', now, g, request'[g], NobodyNotifies)
        BY <1>10, <1>21 DEF Attended, Waits, HeadIs, InflightFull, Queued
    <1>23. AllAttended'
        BY <1>12, <1>20, <1>22 DEF AllAttended, Attended, Waits
    <1>24. ClosureHeard'
        BY <1>1, <1>12 DEF ClosureHeard
    <1> QED
        BY <1>14, <1>15, <1>16, <1>17, <1>18, <1>23, <1>24 DEF IInv

\* An owner told Pending has just left its waker; one told Ready finds a place.
LEMMA PollReadyStep ==
    ASSUME IInv, NEW context \in Poller, PollReady(context) PROVE IInv'
    <1> DEFINE free == MaySchedule(ctl) /\ ~failed
               asked == IF free \/ failed THEN None ELSE context
    <1>1. /\ ctl \in ControllerOf("self") /\ owner \in OwnerState /\ failed \in BOOLEAN
          /\ admission_waker \in Poller \cup {None}
        BY ControllerFacts
    <1>2. /\ free \in BOOLEAN /\ asked \in Poller \cup {None}
          /\ free <=> MaySchedule(ctl) /\ ~failed
          /\ asked = None <=> free \/ failed
          /\ asked # None => asked = context
        BY TowerAssumption
    <1>3. /\ owner' = [owner EXCEPT !.granted = free, !.woken = FALSE, !.asked = asked]
          /\ admission_waker' = IF failed THEN admission_waker ELSE IF free THEN None ELSE context
          /\ UNCHANGED <<ctl, failed, inner_failed, service, request, now>>
        BY DEF PollReady
    <1> HIDE DEF free, asked
    <1>4. /\ owner' \in OwnerState /\ owner'.granted = free /\ owner'.asked = asked
          /\ ~owner'.woken /\ owner'.notifying = owner.notifying
        BY <1>1, <1>2, <1>3 DEF OwnerState
    <1>5. admission_waker' \in Poller \cup {None}
        BY <1>1, <1>3
    <1>6. Typed' /\ Counted' /\ Numbered' /\ Exclusive'
        BY <1>3, <1>4, <1>5 DEF IInv, Typed, Counted, GuardsMatchController, Guards, Numbered,
                                Exclusive, Well
    <1>7. NobodyNotifies' <=> NobodyNotifies
        BY <1>3, <1>4 DEF NobodyNotifies
    <1>8. AllAttended' /\ ClosureHeard'
        BY <1>3, <1>7 DEF IInv, AllAttended, ClosureHeard, Attended, Waits
    <1>9. Served'
        BY <1>2, <1>3, <1>4 DEF Served, MaySchedule
    <1> QED
        BY <1>6, <1>8, <1>9 DEF IInv
-------------------------------------------------------------------------------
(* Deliveries and time.                                                        *)

\* What a notification may change of a future.
Stirred(r, s) ==
    /\ s.pc = r.pc /\ s.guard = r.guard /\ s.token = r.token /\ s.read = r.read
    /\ s.deadline = r.deadline /\ s.completion = r.completion /\ s.waking = r.waking
    /\ s.notifying => r.notifying
    /\ r.pc \in Dozing => s.woken

\* The wakeup reaches everyone who has registered, asleep or about to be.
LEMMA StirredStep ==
    ASSUME IInv, UNCHANGED <<state, inner_failed, service, now>>,
           request' \in [Future -> RequestState],
           \A g \in Future : Stirred(request[g], request'[g]),
           owner' \in OwnerState, owner'.asked = owner.asked, owner'.woken = owner.woken,
           owner'.granted = owner.granted
    PROVE  IInv'
    <1>1. UNCHANGED <<ctl, admission_waker, failed>>
        BY DEF state
    <1>2. \A g \in Future : Well(g, request'[g])
        BY DEF IInv, Typed, Well, Stirred
    <1>3. Typed'
        BY <1>1, <1>2 DEF IInv, Typed, Well
    <1>4. /\ Guards("Queued")' = Guards("Queued") /\ Guards("InFlight")' = Guards("InFlight")
        BY DEF Guards, Stirred
    <1>5. Counted'
        BY <1>1, <1>4 DEF IInv, Counted, GuardsMatchController
    <1>6. \A g \in Future : request'[g].pc = request[g].pc
        BY DEF Stirred
    <1>7. Numbered' /\ Exclusive'
        BY <1>1, <1>6 DEF IInv, Numbered, Exclusive
    <1>8. AllAttended'
        <2>1. ASSUME NEW g \in Future, request'[g].pc \in Dozing
              PROVE  /\ request'[g].woken
                     /\ Waits(ctl, now, g, request'[g].deadline,
                              ~request'[g].woken /\ NobodyNotifies')
            <3>1. /\ request[g].pc \in Dozing /\ request'[g].woken
                  /\ request'[g].deadline = request[g].deadline
                BY <2>1 DEF Stirred
            <3>2. Waits(ctl, now, g, request[g].deadline, ~request[g].woken /\ NobodyNotifies)
                BY <3>1 DEF IInv, AllAttended, Attended
            <3> QED
                BY <3>1, <3>2 DEF Waits
        <2> QED
            BY <1>1, <2>1 DEF AllAttended, Attended, Waits
    <1>9. ClosureHeard'
        BY DEF ClosureHeard, Stirred
    <1>10. \A g \in Future : request'[g].waking = request[g].waking
        BY DEF Stirred
    <1>11. Served'
        BY <1>1, <1>10 DEF IInv, Served, MaySchedule
    <1> QED
        BY <1>3, <1>5, <1>7, <1>8, <1>9, <1>11 DEF IInv

LEMMA NotifiedFacts ==
    ASSUME IInv, NEW g \in Future
    PROVE  /\ Notified(g) \in RequestState /\ Stirred(request[g], Notified(g))
           /\ Notified(g).notifying = request[g].notifying
    <1>1. request[g] \in RequestState
        BY FutureFacts
    <1>2. request[g].pc \in Dozing => Registered(g)
        BY DEF Dozing, Registered, Asleep
    <1>3. CASE Registered(g)
        BY <1>1, <1>3 DEF Notified, RequestState, Stirred
    <1>4. CASE ~Registered(g)
        BY <1>1, <1>2, <1>4 DEF Notified, Stirred
    <1> QED
        BY <1>3, <1>4

LEMMA NotifyStep == ASSUME IInv, NEW f \in Future, Notify(f) PROVE IInv'
    <1>1. request' = [[g \in Future |-> Notified(g)] EXCEPT ![f].notifying = FALSE]
        BY DEF Notify
    <1>2. /\ \A g \in Future \ {f} : request'[g] = Notified(g)
          /\ request'[f] = [Notified(f) EXCEPT !.notifying = FALSE]
          /\ request' = [g \in Future |-> request'[g]]
        BY <1>1
    <1>3. ASSUME NEW g \in Future
          PROVE  request'[g] \in RequestState /\ Stirred(request[g], request'[g])
        <2>1. Notified(g) \in RequestState /\ Stirred(request[g], Notified(g))
            BY NotifiedFacts
        <2>2. CASE g = f
            <3>1. request'[g] = [Notified(g) EXCEPT !.notifying = FALSE]
                BY <1>2, <2>2
            <3> QED
                BY <2>1, <3>1 DEF RequestState, Stirred
        <2>3. CASE g # f
            BY <1>2, <2>1, <2>3
        <2> QED
            BY <2>2, <2>3
    <1>4. request' \in [Future -> RequestState]
        BY <1>2, <1>3
    <1>5. owner' = owner /\ owner \in OwnerState
        BY ControllerFacts DEF Notify
    <1> QED
        BY <1>3, <1>4, <1>5, StirredStep DEF Notify

LEMMA NotifyByOwnerStep == ASSUME IInv, NotifyByOwner PROVE IInv'
    <1>1. request' = [g \in Future |-> Notified(g)]
        BY DEF NotifyByOwner
    <1>2. ASSUME NEW g \in Future
          PROVE  request'[g] \in RequestState /\ Stirred(request[g], request'[g])
        BY <1>1, NotifiedFacts
    <1>3. request' \in [Future -> RequestState]
        BY <1>1, <1>2
    <1>4. /\ owner' \in OwnerState /\ owner'.asked = owner.asked /\ owner'.woken = owner.woken
          /\ owner'.granted = owner.granted
        BY ControllerFacts DEF NotifyByOwner, OwnerState
    <1> QED
        BY <1>2, <1>3, <1>4, StirredStep DEF NotifyByOwner

LEMMA TickStep == ASSUME IInv, Tick PROVE IInv'
    <1>1. /\ UNCHANGED <<ctl, admission_waker, failed, inner_failed, service, owner, request>>
          /\ now' = now + 1 /\ now' \in Instant /\ now \in Instant /\ ctl \in ControllerOf("self")
        BY TowerAssumption, ConfigAssumption, ControllerFacts DEF Tick, Instant, state
    <1>2. Typed' /\ Counted' /\ Numbered' /\ Exclusive' /\ Served' /\ ClosureHeard'
        BY <1>1 DEF IInv, Typed, Counted, GuardsMatchController, Guards, Numbered, Exclusive, Served,
                    ClosureHeard, NobodyNotifies, Well, MaySchedule
    <1>3. NobodyNotifies' <=> NobodyNotifies
        BY <1>1 DEF NobodyNotifies
    <1>4. ASSUME NEW g \in Future PROVE Attended(ctl, now', g, request[g], NobodyNotifies)
        <2> DEFINE quiet == ~request[g].woken /\ NobodyNotifies
                   deadline == request[g].deadline
        <2>1. request[g].pc \in Dozing => Waits(ctl, now, g, deadline, quiet)
            BY DEF IInv, AllAttended, Attended
        <2>2. quiet \in BOOLEAN /\ now <= now' /\ deadline \in Instant \cup {None}
            BY <1>1, FutureFacts DEF Instant, RequestState
        <2> HIDE DEF quiet, deadline
        <2>3. ASSUME request[g].pc \in Dozing PROVE Waits(ctl, now', g, deadline, quiet)
            BY <1>1, <2>1, <2>2, <2>3, WaitsOn
        <2> QED
            BY <2>3 DEF Attended, quiet, deadline
    <1>5. AllAttended'
        BY <1>1, <1>3, <1>4 DEF AllAttended, Attended, Waits
    <1> QED
        BY <1>2, <1>5 DEF IInv
-------------------------------------------------------------------------------
LEMMA InitInvariant == Init => IInv
    <1> SUFFICES ASSUME Init PROVE IInv
        OBVIOUS
    <1>1. 0 \in Instant
        BY ConfigAssumption DEF Instant
    <1>2. /\ ctl \in ControllerOf("self") /\ Queued(ctl) = 0 /\ ctl.inflight = 0
          /\ Paced(ctl) /\ ~ctl.changes.dispatch
        BY <1>1, NewControllerFacts DEF Init, NewController, NoChanges
    <1>3. Ordered(ctl) /\ Ids(ctl) = {}
        BY <1>2 DEF Ordered, Ids
    <1>4. /\ request \in [Future -> RequestState] /\ \A f \in Future : request[f] = Vacant
        BY VacantFacts DEF Init
    <1>5. Typed
        BY <1>1, <1>2, <1>3, <1>4 DEF Init, Typed, OwnerState, Vacant, Well, Waiting
    <1>6. Guards("Queued") = {} /\ Guards("InFlight") = {}
        BY <1>4, VacantFacts DEF Guards
    <1>7. Counted
        BY <1>2, <1>3, <1>6, FS_EmptySet DEF Counted, GuardsMatchController
    <1>8. Numbered /\ AllAttended /\ ClosureHeard
        BY <1>4 DEF Numbered, AllAttended, ClosureHeard, Attended, Dozing, Vacant
    <1>9. Exclusive /\ Served
        BY <1>4 DEF Init, Exclusive, Served, Holding, Vacant
    <1> QED
        BY <1>5, <1>7, <1>8, <1>9 DEF IInv

LEMMA NextInvariant == IInv /\ [Next]_vars => IInv'
    <1> SUFFICES ASSUME IInv, [Next]_vars PROVE IInv'
        OBVIOUS
    <1>1. CASE UNCHANGED vars
        <2>1. UNCHANGED <<ctl, admission_waker, failed, inner_failed, service, owner, request, now>>
            BY <1>1 DEF vars, state
        <2>2. Typed' /\ Counted' /\ Numbered' /\ Exclusive' /\ Served' /\ ClosureHeard'
            BY <2>1 DEF IInv, Typed, Counted, GuardsMatchController, Guards, Numbered, Exclusive,
                        Served, ClosureHeard, NobodyNotifies, Well, MaySchedule
        <2>3. NobodyNotifies' <=> NobodyNotifies
            BY <2>1 DEF NobodyNotifies
        <2>4. AllAttended'
            BY <2>1, <2>3 DEF IInv, AllAttended, Attended, Waits
        <2> QED
            BY <2>2, <2>4 DEF IInv
    <1>2. CASE Next
        BY <1>2, PollReadyStep, CallStep, ReadMetricStep, RegisterStep, InspectStep, SuspendStep,
           ReturnErrorStep, LockServiceStep, PollInnerStep, InnerAnswersStep, PublishFailureStep,
           BeginDispatchStep, CallInnerStep, RespondStep, DropStep, ReadClockStep,
           FinishPendingStep, WakeAdmissionStep, NotifyStep, NotifyByOwnerStep, TickStep DEF Next
    <1> QED
        BY <1>1, <1>2

\* The inductive invariant holds in every state of every behaviour of the
\* adapter, for any number of calls and of contexts to poll from.
THEOREM Invariance == Spec => []IInv
    <1> QED
        BY InitInvariant, NextInvariant, PTL DEF Spec

\* The controller, the clocks and the futures keep their types.
THEOREM TypeCorrect == Spec => []TypeOK
    <1>1. IInv => TypeOK
        BY DEF IInv, Typed, TypeOK, RequestState, OwnerState
    <1> QED
        BY <1>1, Invariance, PTL

\* Wherever a future fails or is dropped, the controller counts what the futures
\* hold: nothing leaks and a live reservation is never told Cancelled.
THEOREM GuardsMatch == Spec => []GuardsMatchController
    <1>1. IInv => GuardsMatchController
        BY DEF IInv, Counted
    <1> QED
        BY <1>1, Invariance, PTL

\* No future sleeps past the instant at which it could go, nor through the closure
\* of the endpoint.
THEOREM NoWakeupIsLost == Spec => []NoLostWakeup
    <1>1. ASSUME IInv PROVE NoLostWakeup
        <2>1. SUFFICES ASSUME NEW f \in Future, request[f].pc \in Asleep, ~request[f].woken,
                              NobodyNotifies
                       PROVE  /\ ~failed
                              /\ IF request[f].pc = "timed"
                                 THEN request[f].deadline <= Later(now, HeadDue(ctl))
                                 ELSE ~HeadIs(ctl, f) \/ InflightFull(ctl)
            BY DEF NoLostWakeup, NobodyNotifies
        <2>2. request[f].pc \in Dozing
            BY <2>1 DEF Asleep, Dozing
        <2>3. ~failed
            BY <1>1, <2>1, <2>2 DEF IInv, ClosureHeard
        <2>4. Waits(ctl, now, f, request[f].deadline, ~request[f].woken /\ NobodyNotifies)
            BY <1>1, <2>2 DEF IInv, AllAttended, Attended
        <2>5. IF request[f].pc = "timed" THEN request[f].deadline # None
              ELSE request[f].deadline = None
            BY <1>1, <2>1 DEF IInv, Typed, Well, Asleep
        <2> QED
            BY <2>1, <2>3, <2>4, <2>5 DEF Waits
    <1> QED
        BY <1>1, Invariance, PTL

\* The owner whose last poll was Pending is woken by the waker of that poll,
\* whatever waker an earlier poll had left.
THEOREM OwnerIsWoken == Spec => []LastPollerIsWoken
    <1>1. IInv => LastPollerIsWoken
        BY DEF IInv, Served, LastPollerIsWoken
    <1> QED
        BY <1>1, Invariance, PTL

\* The futures never take a place that was granted: the queue grows by call
\* alone.
THEOREM GrantKept == Spec => []GrantIsKept
    <1>1. IInv => GrantIsKept
        BY DEF IInv, Served, GrantIsKept
    <1> QED
        BY <1>1, Invariance, PTL

\* The failure is published under the async lock, so nobody polls an inner
\* service that has failed.
THEOREM FailedIsLeftAlone == Spec => []NeverPolledAgain
    <1>1. IInv => NeverPolledAgain
        BY DEF IInv, Exclusive, NeverPolledAgain
    <1> QED
        BY <1>1, Invariance, PTL
=============================================================================
