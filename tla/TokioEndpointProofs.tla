-------------------------- MODULE TokioEndpointProofs --------------------------
(* Whatever the tasks do through the Tokio adapter, with any number of         *)
(* endpoints, each controller counts what the guards hold, nobody sleeps past  *)
(* the instant at which it could go, and no two pairs lock one another out.    *)
EXTENDS TokioEndpoint, ControllerProofs

Ctl == UNION {ControllerOf(e) : e \in Endpoint}
Ticket == [controller_id : Endpoint, id : 0 .. MaxId - 1]
Token == UNION {TokenOf(e) : e \in Endpoint}

TaskState ==
    [pc : State, at : Endpoint \cup {None}, other : Endpoint \cup {None},
     token : Ticket \cup Token \cup {None}, deadline : Instant \cup {None}, woken : BOOLEAN]

Asleep == {"looked", "timed", "parked"}
Waiting == {"check"} \cup Asleep
AsleepReady == {"ready_looked", "ready_wait"}

\* What a task holds in each of its states.
Well(t) ==
    /\ t.pc # "idle" => t.at \in Endpoint
    /\ t.pc = "pair" => t.other \in Endpoint /\ t.other # t.at
    /\ t.pc \in Reserving => t.token \in Ticket /\ t.token.controller_id = t.at
    /\ t.pc = "active" => t.token \in Token /\ t.token.controller_id = t.at
    /\ t.pc = "timed" => t.deadline # None
    /\ t.pc = "parked" => t.deadline = None

\* What a task that looked and went to sleep relies on, in dispatch and in ready,
\* as long as it has not been told.
Attended(c, at, t, told) ==
    t.pc \in Asleep => Waits(c, at, t.token.id, t.deadline, ~t.woken /\ ~told)
Heeded(c, t, told) ==
    t.pc \in AsleepReady /\ ~t.woken /\ ~told => ~MaySchedule(c)

Typed ==
    /\ ctl \in [Endpoint -> Ctl]
    /\ \A e \in Endpoint :
          /\ ctl[e] \in ControllerOf(e) /\ Paced(ctl[e]) /\ Ordered(ctl[e])
          /\ ~ctl[e].changes.dispatch /\ ~ctl[e].changes.admission
    /\ now \in Instant
    /\ holder \in [Endpoint -> Task \cup {None}]
    /\ task \in [Task -> TaskState]
    /\ owed \in [Task -> Seq(Effect)]
    /\ \A p \in Task : Well(task[p]) /\ (task[p].pc \in Waiting => owed[p] = <<>>)

\* A pair holds the lower of its two locks, and nobody else keeps one.
Locked ==
    /\ \A p \in Task : task[p].pc = "pair" => holder[Lower(task[p].at, task[p].other)] = p
    /\ \A e \in Endpoint : holder[e] # None =>
          /\ task[holder[e]].pc = "pair"
          /\ e = Lower(task[holder[e]].at, task[holder[e]].other)

IdHeld == [q \in Task |-> task[q].token.id]
Counted ==
    \A e \in Endpoint : Matches(ctl[e], Owners(e, Reserving), IdHeld, Owners(e, {"active"}))

AllMinded ==
    \A p \in Task, e \in Endpoint : task[p].at = e =>
        /\ Attended(ctl[e], now, task[p], Owed(e, "dispatch"))
        /\ Heeded(ctl[e], task[p], Owed(e, "admission"))

\* The inductive invariant.
IInv == Typed /\ Locked /\ Counted /\ AllMinded
-------------------------------------------------------------------------------
(* Effects.                                                                    *)

LEMMA RangeOfBoth ==
    ASSUME NEW S, NEW s \in Seq(S), NEW t \in Seq(S)
    PROVE  s \o t \in Seq(S) /\ Range(s) \subseteq Range(s \o t) /\ Range(t) \subseteq Range(s \o t)
    <1>1. /\ s \o t \in Seq(S) /\ Len(s \o t) = Len(s) + Len(t)
          /\ Len(s) \in Nat /\ Len(t) \in Nat
          /\ \A i \in 1 .. Len(s) : (s \o t)[i] = s[i]
          /\ \A i \in 1 .. Len(t) : (s \o t)[Len(s) + i] = t[i]
        OBVIOUS
    <1>2. /\ DOMAIN s = 1 .. Len(s) /\ DOMAIN t = 1 .. Len(t)
          /\ DOMAIN (s \o t) = 1 .. Len(s) + Len(t)
        BY <1>1
    <1>3. ASSUME NEW i \in 1 .. Len(s) PROVE i \in 1 .. Len(s) + Len(t)
        BY <1>1
    <1>4. ASSUME NEW i \in 1 .. Len(t) PROVE Len(s) + i \in 1 .. Len(s) + Len(t)
        BY <1>1
    <1> QED
        BY <1>1, <1>2, <1>3, <1>4 DEF Range

LEMMA RangeOfTail ==
    ASSUME NEW S, NEW s \in Seq(S), s # <<>>
    PROVE  /\ Head(s) \in S /\ Tail(s) \in Seq(S)
           /\ \A x \in Range(s) : x = Head(s) \/ x \in Range(Tail(s))
    <1>1. /\ Head(s) \in S /\ Tail(s) \in Seq(S) /\ Head(s) = s[1]
          /\ Len(s) \in Nat /\ Len(Tail(s)) = Len(s) - 1
          /\ \A i \in 1 .. Len(s) - 1 : Tail(s)[i] = s[i + 1]
        OBVIOUS
    <1>2. ASSUME NEW i \in DOMAIN s, i # 1 PROVE s[i] \in Range(Tail(s))
        <2>1. i - 1 \in 1 .. Len(s) - 1 /\ (i - 1) + 1 = i
            BY <1>1, <1>2
        <2>2. i - 1 \in DOMAIN Tail(s) /\ Tail(s)[i - 1] = s[i]
            BY <1>1, <2>1
        <2> QED
            BY <2>2 DEF Range
    <1> QED
        BY <1>1, <1>2 DEF Range

\* What a section raised is owed by the task that left it.
LEMMA EffectsFacts ==
    ASSUME NEW e \in Endpoint, NEW changes \in Changes
    PROVE  /\ Effects(e, changes) \in Seq(Effect)
           /\ changes.admission => [at |-> e, kind |-> "admission"] \in Range(Effects(e, changes))
           /\ changes.dispatch => [at |-> e, kind |-> "dispatch"] \in Range(Effects(e, changes))
    <1> DEFINE a == [at |-> e, kind |-> "admission"]
               b == [at |-> e, kind |-> "dispatch"]
               s == IF changes.admission THEN <<a>> ELSE <<>>
               t == IF changes.dispatch THEN <<b>> ELSE <<>>
    <1>1. a \in Effect /\ b \in Effect
        BY DEF Effect
    <1>2. Effects(e, changes) = s \o t
        BY DEF Effects
    <1> HIDE DEF a, b
    <1>3. /\ s \in Seq(Effect) /\ t \in Seq(Effect)
          /\ changes.admission => a \in Range(s)
          /\ changes.dispatch => b \in Range(t)
        <2>1. ASSUME NEW x \in Effect PROVE <<x>> \in Seq(Effect) /\ x \in Range(<<x>>)
            <3>1. 1 \in DOMAIN <<x>> /\ <<x>>[1] = x
                OBVIOUS
            <3> QED
                BY <3>1 DEF Range
        <2>2. <<>> \in Seq(Effect)
            OBVIOUS
        <2>3. s \in Seq(Effect) /\ (changes.admission => a \in Range(s))
            BY <1>1, <2>1, <2>2
        <2>4. t \in Seq(Effect) /\ (changes.dispatch => b \in Range(t))
            BY <1>1, <2>1, <2>2
        <2> QED
            BY <2>3, <2>4
    <1> HIDE DEF s, t
    <1> QED
        BY <1>2, <1>3, RangeOfBoth DEF a, b

LEMMA EffectsOfBoth ==
    ASSUME NEW e \in Endpoint, NEW f \in Endpoint, NEW x \in Changes, NEW y \in Changes
    PROVE  LET both == Effects(e, x) \o Effects(f, y) IN
           /\ both \in Seq(Effect)
           /\ Range(Effects(e, x)) \subseteq Range(both)
           /\ Range(Effects(f, y)) \subseteq Range(both)
    <1>1. Effects(e, x) \in Seq(Effect) /\ Effects(f, y) \in Seq(Effect)
        BY EffectsFacts
    <1> QED
        BY <1>1, RangeOfBoth

\* Nothing owed is forgotten: a task that owed nothing leaves what the others owe.
LEMMA StillOwed ==
    ASSUME NEW p \in Task, owed[p] = <<>>, \A q \in Task \ {p} : owed'[q] = owed[q],
           NEW e, NEW kind, Owed(e, kind)
    PROVE  Owed(e, kind)'
    <1>1. PICK q \in Task : [at |-> e, kind |-> kind] \in Range(owed[q])
        BY DEF Owed
    <1>2. Range(<<>>) = {}
        BY DEF Range
    <1> QED
        BY <1>1, <1>2 DEF Owed

LEMMA NowOwed ==
    ASSUME NEW p \in Task, NEW e, NEW kind, [at |-> e, kind |-> kind] \in Range(owed'[p])
    PROVE  Owed(e, kind)'
    BY DEF Owed
-------------------------------------------------------------------------------
(* Counting.                                                                   *)

LEMMA TaskGoes ==
    ASSUME task \in [Task -> TaskState], NEW p \in Task, NEW next \in TaskState,
           task' = [task EXCEPT ![p] = next]
    PROVE  /\ task' \in [Task -> TaskState]
           /\ task'[p] = next /\ \A q \in Task \ {p} : task'[q] = task[q]
    OBVIOUS

Holds(t, e) == t.pc \in Reserving /\ t.at = e
Flies(t, e) == t.pc = "active" /\ t.at = e
Held(t, e) == IF Holds(t, e) THEN 1 ELSE 0
Flown(t, e) == IF Flies(t, e) THEN 1 ELSE 0

\* What a call that takes a task from t to next does to the controller of e: a
\* reservation that is new holds the id that was next.
Balanced(c, d, t, next, e) ==
    /\ Holds(next, e) => next.token.id = IF Holds(t, e) THEN t.token.id ELSE c.next_id
    /\ Ids(d) = (Ids(c) \ (IF Holds(t, e) THEN {t.token.id} ELSE {}))
                   \cup (IF Holds(next, e) THEN {next.token.id} ELSE {})
    /\ Queued(d) = (Queued(c) - Held(t, e)) + Held(next, e)
    /\ d.inflight = (c.inflight - Flown(t, e)) + Flown(next, e)

LEMMA NextIdIsFresh ==
    ASSUME NEW id, NEW c \in ControllerOf(id), Ordered(c)
    PROVE  c.next_id \notin Ids(c)
    <1>1. c.next_id \in Int
        BY ControllerAssumption DEF ControllerOf
    <1> QED
        BY <1>1 DEF Ordered, Ids

\* The guards match their controllers after a call that balances them.
LEMMA CountedStep ==
    ASSUME Typed, Counted, NEW p \in Task, NEW next \in TaskState,
           task' = [task EXCEPT ![p] = next],
           \A e \in Endpoint : Balanced(ctl[e], ctl'[e], task[p], next, e)
    PROVE  Counted'
    <1>1. /\ task'[p] = next /\ \A q \in Task \ {p} : task'[q] = task[q]
        BY TaskGoes DEF Typed
    <1>2. ASSUME NEW e \in Endpoint
          PROVE  Matches(ctl'[e], Owners(e, Reserving)', IdHeld', Owners(e, {"active"})')
        <2> DEFINE R == Owners(e, Reserving)
                   D == Owners(e, {"active"})
        <2>1. /\ p \in R <=> Holds(task[p], e)
              /\ p \in R' <=> Holds(next, e)
              /\ p \in D <=> Flies(task[p], e)
              /\ p \in D' <=> Flies(next, e)
            BY <1>1 DEF Owners, Holds, Flies
        <2>2. R' \ {p} = R \ {p} /\ D' \ {p} = D \ {p}
            BY <1>1 DEF Owners
        <2>3. /\ IdHeld[p] = task[p].token.id /\ IdHeld'[p] = next.token.id
              /\ \A q \in R \ {p} : IdHeld'[q] = IdHeld[q]
            BY <1>1 DEF IdHeld, Owners
        <2>4. Matches(ctl[e], R, IdHeld, D) /\ ctl[e].next_id \notin Ids(ctl[e])
            BY NextIdIsFresh DEF Counted, Typed
        <2> HIDE DEF R, D
        <2>5. Moves(ctl[e], ctl'[e], p, R, IdHeld, D, R', IdHeld'[p], D')
            <3>1. Balanced(ctl[e], ctl'[e], task[p], next, e)
                OBVIOUS
            <3>2. /\ In(p, R) = Held(task[p], e) /\ In(p, R') = Held(next, e)
                  /\ In(p, D) = Flown(task[p], e) /\ In(p, D') = Flown(next, e)
                BY <2>1 DEF In, Held, Flown
            <3> QED
                BY <2>1, <2>3, <3>1, <3>2 DEF Balanced, Moves
        <2>6. Matches(ctl'[e], R', IdHeld', D')
            BY <2>2, <2>3, <2>4, <2>5, OneMoves
        <2> QED
            BY <2>6 DEF R, D
    <1> QED
        BY <1>2 DEF Counted

\* The ways in which a call balances them.
LEMMA BalancedKept ==
    ASSUME NEW e, NEW c \in ControllerOf(e), NEW d, KeepsQueue(c, d), NEW t, NEW next,
           Holds(next, e) = Holds(t, e), Flies(next, e) = Flies(t, e),
           Holds(t, e) => next.token.id = t.token.id /\ t.token.id \in Ids(c)
    PROVE  Balanced(c, d, t, next, e)
    <1>1. /\ Ids(d) = Ids(c) /\ Queued(d) = Queued(c) /\ d.inflight = c.inflight
          /\ Queued(c) \in Int /\ c.inflight \in Int
        BY KeptIds, IdsAreNumbers DEF KeepsQueue, ControllerOf
    <1>2. /\ Held(t, e) \in Int /\ Flown(t, e) \in Int
          /\ Held(next, e) = Held(t, e) /\ Flown(next, e) = Flown(t, e)
        BY DEF Held, Flown
    <1>3. Queued(d) = (Queued(c) - Held(t, e)) + Held(next, e)
        BY <1>1, <1>2
    <1>4. d.inflight = (c.inflight - Flown(t, e)) + Flown(next, e)
        BY <1>1, <1>2
    <1> QED
        BY <1>1, <1>3, <1>4 DEF Balanced

LEMMA BalancedReserve ==
    ASSUME NEW e, NEW c \in ControllerOf(e), NEW d, NEW t, NEW next,
           ~Holds(t, e), ~Flies(t, e), Holds(next, e), next.token.id = c.next_id,
           Ids(d) = Ids(c) \cup {c.next_id}, Queued(d) = Queued(c) + 1, d.inflight = c.inflight
    PROVE  Balanced(c, d, t, next, e)
    <1>1. Queued(c) \in Int /\ c.inflight \in Int
        BY IdsAreNumbers DEF ControllerOf
    <1>2. /\ Held(t, e) = 0 /\ Held(next, e) = 1
          /\ Flown(t, e) = 0 /\ Flown(next, e) = 0
        BY DEF Held, Flown, Holds, Flies, Reserving
    <1>3. /\ Queued(d) = (Queued(c) - Held(t, e)) + Held(next, e)
          /\ d.inflight = (c.inflight - Flown(t, e)) + Flown(next, e)
        BY <1>1, <1>2
    <1> QED
        BY <1>3 DEF Balanced

LEMMA BalancedLeave ==
    ASSUME NEW e, NEW c \in ControllerOf(e), NEW d, NEW t, NEW next,
           Holds(t, e), ~Holds(next, e),
           Ids(d) = Ids(c) \ {t.token.id}, Queued(d) = Queued(c) - 1,
           d.inflight = IF Flies(next, e) THEN c.inflight + 1 ELSE c.inflight
    PROVE  Balanced(c, d, t, next, e)
    <1>1. Queued(c) \in Int /\ c.inflight \in Int
        BY IdsAreNumbers DEF ControllerOf
    <1>2. /\ Held(t, e) = 1 /\ Held(next, e) = 0 /\ Flown(t, e) = 0
          /\ Flown(next, e) = IF Flies(next, e) THEN 1 ELSE 0
        BY DEF Held, Flown, Holds, Flies, Reserving
    <1>3. Queued(d) = (Queued(c) - Held(t, e)) + Held(next, e)
        BY <1>1, <1>2
    <1>4. d.inflight = (c.inflight - Flown(t, e)) + Flown(next, e)
        BY <1>1, <1>2
    <1> QED
        BY <1>3, <1>4 DEF Balanced

LEMMA BalancedEnd ==
    ASSUME NEW e, NEW c \in ControllerOf(e), NEW d, NEW t, NEW next,
           Flies(t, e), ~Holds(next, e), ~Flies(next, e),
           KeepsQueue([c EXCEPT !.inflight = @ - 1], d)
    PROVE  Balanced(c, d, t, next, e)
    <1>1. Queued(c) \in Int /\ c.inflight \in Int
        BY IdsAreNumbers DEF ControllerOf
    <1>2. /\ Held(t, e) = 0 /\ Held(next, e) = 0 /\ Flown(t, e) = 1
          /\ Flown(next, e) = 0 /\ ~Holds(t, e)
        BY DEF Held, Flown, Holds, Flies, Reserving
    <1>3. Ids(d) = Ids(c) /\ Queued(d) = Queued(c) /\ d.inflight = c.inflight - 1
        BY DEF KeepsQueue, Ids, Queued, ControllerOf
    <1>4. /\ Queued(d) = (Queued(c) - Held(t, e)) + Held(next, e)
          /\ d.inflight = (c.inflight - Flown(t, e)) + Flown(next, e)
        BY <1>1, <1>2, <1>3
    <1> QED
        BY <1>2, <1>3, <1>4 DEF Balanced
-------------------------------------------------------------------------------
(* Steps.                                                                      *)

LEMMA IdleFacts ==
    /\ Idle \in TaskState /\ Well(Idle) /\ Idle.pc = "idle"
    /\ \A e \in Endpoint : ~Holds(Idle, e) /\ ~Flies(Idle, e)
    BY DEF Idle, TaskState, State, Reserving, Well, Holds, Flies

\* Whoever holds a reservation of e is in its queue.
LEMMA HoldersQueue ==
    ASSUME Typed, Counted, NEW e \in Endpoint, NEW q \in Task, Holds(task[q], e)
    PROVE  /\ task[q].token.id \in Ids(ctl[e]) /\ task[q].token \in Ticket
           /\ Owns(ctl[e], task[q].token)
           /\ \A r \in Task : Holds(task[r], e) /\ task[r].token.id = task[q].token.id => r = q
    <1>1. q \in Owners(e, Reserving) /\ \A r \in Task : Holds(task[r], e) => r \in Owners(e, Reserving)
        BY DEF Owners, Holds
    <1>2. \A r \in Owners(e, Reserving) : IdHeld[r] = task[r].token.id
        BY DEF IdHeld, Owners
    <1>3. task[q].token.id \in Ids(ctl[e])
        BY <1>1, <1>2 DEF Counted, Matches
    <1>4. \A r \in Task : Holds(task[r], e) /\ task[r].token.id = task[q].token.id => r = q
        BY <1>1, <1>2 DEF Counted, Matches
    <1>5. task[q].token \in Ticket /\ Owns(ctl[e], task[q].token)
        BY DEF Typed, Well, Holds, Owns, ControllerOf
    <1> QED
        BY <1>3, <1>4, <1>5

\* Whoever awaits a request of e is counted.
LEMMA FliersCounted ==
    ASSUME Typed, Counted, NEW e \in Endpoint, NEW q \in Task, Flies(task[q], e)
    PROVE  /\ ctl[e].inflight \in Nat \ {0} /\ task[q].token \in Token
           /\ Owns(ctl[e], task[q].token)
    <1>1. q \in Owners(e, {"active"})
        BY DEF Owners, Flies
    <1>2. Cardinality(Owners(e, {"active"})) # 0
        BY <1>1, FS_EmptySet DEF Counted, Matches
    <1>3. ctl[e].inflight \in Nat \ {0}
        BY <1>2 DEF Counted, Matches, Typed, ControllerOf
    <1>4. task[q].token \in Token /\ Owns(ctl[e], task[q].token)
        BY DEF Typed, Well, Flies, Owns, ControllerOf
    <1> QED
        BY <1>3, <1>4

\* A step that neither takes a lock to keep nor gives one back.
LEMMA LockedKept ==
    ASSUME Typed, Locked, NEW p \in Task, NEW next \in TaskState, task' = [task EXCEPT ![p] = next],
           holder' = holder, task[p].pc # "pair", next.pc # "pair"
    PROVE  Locked'
    <1>1. /\ task'[p] = next /\ \A q \in Task \ {p} : task'[q] = task[q]
        BY TaskGoes DEF Typed
    <1>2. \A q \in Task : task'[q].pc = "pair" => holder'[Lower(task'[q].at, task'[q].other)] = q
        BY <1>1 DEF Locked
    <1>3. ASSUME NEW e \in Endpoint, holder'[e] # None
          PROVE  /\ task'[holder'[e]].pc = "pair"
                 /\ e = Lower(task'[holder'[e]].at, task'[holder'[e]].other)
        <2>1. /\ holder[e] \in Task /\ task[holder[e]].pc = "pair"
              /\ e = Lower(task[holder[e]].at, task[holder[e]].other)
            BY <1>3 DEF Typed, Locked
        <2>2. task'[holder[e]] = task[holder[e]]
            BY <1>1, <2>1
        <2> QED
            BY <2>1, <2>2
    <1> QED
        BY <1>2, <1>3 DEF Locked, Lower, Earlier

\* A step that is the business of one task.
LEMMA OwnStep ==
    ASSUME IInv, NEW p \in Task, NEW next \in TaskState, Well(next),
           task' = [task EXCEPT ![p] = next], UNCHANGED <<ctl, now, owed>>,
           holder' \in [Endpoint -> Task \cup {None}], Locked',
           next.pc \in Waiting => owed[p] = <<>>,
           \A e \in Endpoint :
              /\ Holds(next, e) = Holds(task[p], e) /\ Flies(next, e) = Flies(task[p], e)
              /\ Holds(next, e) => next.token.id = task[p].token.id,
           \A e \in Endpoint : next.at = e =>
              /\ Attended(ctl[e], now, next, Owed(e, "dispatch"))
              /\ Heeded(ctl[e], next, Owed(e, "admission"))
    PROVE  IInv'
    <1>1. /\ task' \in [Task -> TaskState]
          /\ task'[p] = next /\ \A q \in Task \ {p} : task'[q] = task[q]
        BY TaskGoes DEF IInv, Typed
    <1>2. \A q \in Task : Well(task'[q]) /\ (task'[q].pc \in Waiting => owed'[q] = <<>>)
        BY <1>1 DEF IInv, Typed
    <1>3. Typed'
        BY <1>1, <1>2 DEF IInv, Typed, Well
    <1>4. \A e \in Endpoint : Balanced(ctl[e], ctl'[e], task[p], next, e)
        <2> TAKE e \in Endpoint
        <2>1. ctl[e] \in ControllerOf(e) /\ ctl' = ctl
            BY DEF IInv, Typed
        <2>2. KeepsQueue(ctl[e], ctl'[e])
            BY <2>1 DEF KeepsQueue
        <2>3. Holds(task[p], e) => task[p].token.id \in Ids(ctl[e])
            BY HoldersQueue DEF IInv
        <2> QED
            BY <2>1, <2>2, <2>3, BalancedKept
    <1>5. Counted'
        BY <1>4, CountedStep DEF IInv
    <1>6. \A q \in Task, e \in Endpoint : task'[q].at = e =>
              /\ Attended(ctl[e], now, task'[q], Owed(e, "dispatch"))
              /\ Heeded(ctl[e], task'[q], Owed(e, "admission"))
        BY <1>1 DEF IInv, AllMinded
    <1>7. \A e, kind : Owed(e, kind)' = Owed(e, kind)
        BY DEF Owed
    <1>8. AllMinded'
        BY <1>6, <1>7 DEF AllMinded, Attended, Heeded
    <1> QED
        BY <1>3, <1>5, <1>8 DEF IInv

\* What a call that leaves d at e has to establish, whatever it did.
Leaves(e, d, t, next) ==
    /\ d \in ControllerOf(e) /\ Paced(d) /\ Ordered(d)
    /\ Announces(ctl[e], d, now)
    /\ Balanced(ctl[e], d, t, next, e)
    /\ d.changes.dispatch \/ d.inflight = ctl[e].inflight

\* A sleeper of e is attended to after such a call.
LEMMA MindedKept ==
    ASSUME IInv, NEW p \in Task, NEW next \in TaskState, NEW e \in Endpoint, NEW d,
           Leaves(e, d, task[p], next), NEW q \in Task \ {p}, task[q].at = e,
           NEW told \in BOOLEAN, NEW called \in BOOLEAN,
           Owed(e, "dispatch") \/ d.changes.dispatch => told,
           Owed(e, "admission") \/ d.changes.admission => called
    PROVE  Attended(d, now, task[q], told) /\ Heeded(d, task[q], called)
    <1>1. /\ ctl[e] \in ControllerOf(e) /\ Ordered(ctl[e]) /\ now \in Instant
          /\ d \in ControllerOf(e) /\ Ordered(d) /\ Announces(ctl[e], d, now)
          /\ Balanced(ctl[e], d, task[p], next, e)
          /\ task[q] \in TaskState
          /\ Attended(ctl[e], now, task[q], Owed(e, "dispatch"))
          /\ Heeded(ctl[e], task[q], Owed(e, "admission"))
        BY DEF IInv, Typed, AllMinded, Leaves
    <1>2. Heeded(d, task[q], called)
        BY <1>1 DEF Heeded, Announces
    <1>3. CASE task[q].pc \in Asleep
        <2> DEFINE i == task[q].token.id
        <2>1. Holds(task[q], e)
            BY <1>3 DEF Holds, Asleep, Reserving
        <2>2. /\ i \in Ids(ctl[e])
              /\ Holds(task[p], e) => task[p].token.id # i
            BY <2>1, HoldersQueue DEF IInv
        <2>3. /\ i \in Ids(d)
              /\ Ids(d) \subseteq Ids(ctl[e]) \cup {ctl[e].next_id}
            <3>1. /\ Holds(next, e) =>
                        next.token.id = IF Holds(task[p], e) THEN task[p].token.id
                                        ELSE ctl[e].next_id
                  /\ Ids(d) = (Ids(ctl[e]) \ (IF Holds(task[p], e) THEN {task[p].token.id} ELSE {}))
                                 \cup (IF Holds(next, e) THEN {next.token.id} ELSE {})
                BY <1>1 DEF Balanced
            <3>2. Holds(task[p], e) => task[p].token.id \in Ids(ctl[e])
                BY HoldersQueue DEF IInv
            <3> QED
                BY <2>2, <3>1, <3>2
        <2>4. ~told => /\ ~task[q].woken /\ ~Owed(e, "dispatch") <=> ~task[q].woken
                       /\ ~d.changes.dispatch /\ d.inflight = ctl[e].inflight
            BY DEF Leaves
        <2>5. Waits(ctl[e], now, i, task[q].deadline, ~task[q].woken /\ ~Owed(e, "dispatch"))
            BY <1>1, <1>3 DEF Attended
        <2>6. task[q].deadline \in Instant \cup {None}
            BY <1>1 DEF TaskState
        <2>7. (~task[q].woken /\ ~told) =>
                 /\ ~task[q].woken /\ ~Owed(e, "dispatch")
                 /\ ~d.changes.dispatch /\ d.inflight = ctl[e].inflight
            BY <2>4
        <2>8. Waits(d, now, i, task[q].deadline, ~task[q].woken /\ ~told)
            BY <1>1, <2>2, <2>3, <2>5, <2>6, <2>7, WaitsKept
        <2> QED
            BY <1>2, <2>8 DEF Attended
    <1>4. CASE task[q].pc \notin Asleep
        BY <1>2, <1>4 DEF Attended
    <1> QED
        BY <1>3, <1>4

LEMMA CallStep ==
    ASSUME IInv, NEW p \in Task, NEW next \in TaskState, Well(next),
           next.pc \notin Waiting \cup AsleepReady, owed[p] = <<>>,
           task' = [task EXCEPT ![p] = next], now' = now, ctl' \in [Endpoint -> Ctl],
           holder' \in [Endpoint -> Task \cup {None}], Locked',
           owed' \in [Task -> Seq(Effect)], \A q \in Task \ {p} : owed'[q] = owed[q],
           NEW left,
           \A e \in Endpoint :
              /\ Leaves(e, left[e], task[p], next) /\ ctl'[e] = TakeChanges(left[e])
              /\ left[e].changes.dispatch => Owed(e, "dispatch")'
              /\ left[e].changes.admission => Owed(e, "admission")'
    PROVE  IInv'
    <1>1. /\ task' \in [Task -> TaskState]
          /\ task'[p] = next /\ \A q \in Task \ {p} : task'[q] = task[q]
        BY TaskGoes DEF IInv, Typed
    <1>2. \A q \in Task : Well(task'[q]) /\ (task'[q].pc \in Waiting => owed'[q] = <<>>)
        BY <1>1 DEF IInv, Typed
    <1>3. ASSUME NEW e \in Endpoint
          PROVE  /\ left[e] \in ControllerOf(e) /\ ctl'[e] \in ControllerOf(e)
                 /\ Paced(ctl'[e]) /\ Ordered(ctl'[e])
                 /\ ~ctl'[e].changes.dispatch /\ ~ctl'[e].changes.admission
                 /\ KeepsQueue(left[e], ctl'[e]) /\ HeadDue(ctl'[e]) = HeadDue(left[e])
                 /\ ctl'[e].pending = left[e].pending /\ ctl'[e].inflight = left[e].inflight
        <2>1. /\ left[e] \in ControllerOf(e) /\ Paced(left[e]) /\ Ordered(left[e])
              /\ ctl'[e] = TakeChanges(left[e])
            BY DEF Leaves
        <2>2. ~ctl'[e].changes.dispatch /\ ~ctl'[e].changes.admission
            BY <2>1 DEF TakeChanges, NoChanges, ControllerOf
        <2> QED
            BY <2>1, <2>2, TakeChangesFacts, KeptIds
    <1>4. Typed'
        BY <1>1, <1>2, <1>3 DEF IInv, Typed, Well
    <1>5. \A e \in Endpoint : Balanced(ctl[e], ctl'[e], task[p], next, e)
        <2> TAKE e \in Endpoint
        <2>1. Balanced(ctl[e], left[e], task[p], next, e)
            BY DEF Leaves
        <2>2. /\ Ids(ctl'[e]) = Ids(left[e]) /\ Queued(ctl'[e]) = Queued(left[e])
              /\ ctl'[e].inflight = left[e].inflight
            BY <1>3, KeptIds DEF KeepsQueue
        <2> QED
            BY <2>1, <2>2 DEF Balanced
    <1>6. Counted'
        BY <1>5, CountedStep DEF IInv
    <1>7. ASSUME NEW q \in Task, NEW e \in Endpoint, task'[q].at = e
          PROVE  /\ Attended(ctl'[e], now, task'[q], Owed(e, "dispatch")')
                 /\ Heeded(ctl'[e], task'[q], Owed(e, "admission")')
        <2>1. CASE q = p
            BY <1>1, <2>1 DEF Attended, Heeded, Waiting
        <2>2. CASE q # p
            <3>1. task'[q] = task[q] /\ task[q].at = e
                BY <1>1, <1>7, <2>2
            <3>2. /\ Owed(e, "dispatch") => Owed(e, "dispatch")'
                  /\ Owed(e, "admission") => Owed(e, "admission")'
                BY StillOwed
            <3> DEFINE told == Owed(e, "dispatch")'
                       called == Owed(e, "admission")'
            <3>3. told \in BOOLEAN /\ called \in BOOLEAN
                BY DEF Owed
            <3>4. /\ Owed(e, "dispatch") \/ left[e].changes.dispatch => told
                  /\ Owed(e, "admission") \/ left[e].changes.admission => called
                  /\ Leaves(e, left[e], task[p], next)
                BY <3>2
            <3> HIDE DEF told, called
            <3>5. Attended(left[e], now, task[q], told) /\ Heeded(left[e], task[q], called)
                BY <2>2, <3>1, <3>3, <3>4, MindedKept
            <3> QED
                BY <1>3, <3>1, <3>5
                   DEF Attended, Heeded, Waits, HeadIs, InflightFull, MaySchedule, Queued,
                       told, called
        <2> QED
            BY <2>1, <2>2
    <1>8. AllMinded'
        BY <1>7 DEF AllMinded, Attended, Heeded
    <1> QED
        BY <1>4, <1>6, <1>8 DEF IInv

\* An endpoint the call has nothing to do with.
LEMMA Untouched ==
    ASSUME IInv, NEW p \in Task, NEW next, NEW e \in Endpoint,
           ~Holds(task[p], e), ~Flies(task[p], e), ~Holds(next, e), ~Flies(next, e)
    PROVE  Leaves(e, ctl[e], task[p], next) /\ TakeChanges(ctl[e]) = ctl[e]
    <1>1. /\ ctl[e] \in ControllerOf(e) /\ Paced(ctl[e]) /\ Ordered(ctl[e]) /\ now \in Instant
          /\ ~ctl[e].changes.dispatch /\ ~ctl[e].changes.admission
        BY DEF IInv, Typed
    <1>2. KeepsQueue(ctl[e], ctl[e])
        BY DEF KeepsQueue
    <1>3. Balanced(ctl[e], ctl[e], task[p], next, e)
        <2>1. Holds(next, e) = Holds(task[p], e) /\ Flies(next, e) = Flies(task[p], e)
            BY DEF Holds, Flies
        <2> QED
            BY <1>1, <1>2, <2>1, BalancedKept
    <1>4. Announces(ctl[e], ctl[e], now)
        BY <1>1, <1>2, SameDueAnnounces
    <1>5. TakeChanges(ctl[e]) = ctl[e]
        <2>1. ctl[e].changes \in Changes
            BY <1>1 DEF ControllerOf
        <2>2. ctl[e].changes = NoChanges
            BY <1>1, <2>1 DEF NoChanges, Changes
        <2> QED
            BY <1>1, <2>2 DEF TakeChanges, ControllerOf
    <1> QED
        BY <1>1, <1>3, <1>4, <1>5 DEF Leaves

\* One critical section.
LEMMA SectionStep ==
    ASSUME IInv, NEW p \in Task, NEW e \in Endpoint, NEW next \in TaskState, Well(next),
           next.pc \notin Waiting \cup AsleepReady \cup {"pair"}, task[p].pc # "pair",
           owed[p] = <<>>,
           next.pc \in Reserving \cup {"active"} => next.at = e,
           task[p].pc \in Reserving \cup {"active"} => task[p].at = e,
           NEW after, Leaves(e, after, task[p], next),
           WithController(p, e, after, next)
    PROVE  IInv'
    <1> DEFINE left == [f \in Endpoint |-> IF f = e THEN after ELSE ctl[f]]
    <1>1. /\ ctl \in [Endpoint -> Ctl] /\ owed \in [Task -> Seq(Effect)]
          /\ holder \in [Endpoint -> Task \cup {None}] /\ Typed /\ Locked
          /\ \A f \in Endpoint : ctl[f] \in ControllerOf(f)
        BY DEF IInv, Typed
    <1>2. /\ task' = [task EXCEPT ![p] = next] /\ now' = now /\ holder' = holder
          /\ ctl' = [ctl EXCEPT ![e] = TakeChanges(after)]
          /\ owed' = [owed EXCEPT ![p] = Effects(e, after.changes)]
        BY DEF WithController
    <1>3. after \in ControllerOf(e) /\ TakeChanges(after) \in ControllerOf(e) /\ after.changes \in Changes
        <2>1. after \in ControllerOf(e)
            BY DEF Leaves
        <2> QED
            BY <2>1, TakeChangesFacts DEF ControllerOf
    <1>4. ctl' \in [Endpoint -> Ctl]
        BY <1>1, <1>2, <1>3 DEF Ctl
    <1>5. /\ owed' \in [Task -> Seq(Effect)] /\ \A q \in Task \ {p} : owed'[q] = owed[q]
          /\ after.changes.dispatch => Owed(e, "dispatch")'
          /\ after.changes.admission => Owed(e, "admission")'
        <2>1. /\ Effects(e, after.changes) \in Seq(Effect)
              /\ after.changes.admission =>
                    [at |-> e, kind |-> "admission"] \in Range(Effects(e, after.changes))
              /\ after.changes.dispatch =>
                    [at |-> e, kind |-> "dispatch"] \in Range(Effects(e, after.changes))
            BY <1>3, EffectsFacts
        <2>2. owed'[p] = Effects(e, after.changes)
            BY <1>1, <1>2
        <2> QED
            BY <1>1, <1>2, <2>1, <2>2, NowOwed
    <1>6. Locked'
        BY <1>1, <1>2, LockedKept
    <1>7. ASSUME NEW f \in Endpoint
          PROVE  /\ Leaves(f, left[f], task[p], next) /\ ctl'[f] = TakeChanges(left[f])
                 /\ left[f].changes.dispatch => Owed(f, "dispatch")'
                 /\ left[f].changes.admission => Owed(f, "admission")'
        <2>1. CASE f = e
            BY <1>1, <1>2, <1>5, <2>1
        <2>2. CASE f # e
            <3>1. left[f] = ctl[f] /\ ctl'[f] = ctl[f]
                BY <1>1, <1>2, <2>2
            <3>2. ~Holds(task[p], f) /\ ~Flies(task[p], f) /\ ~Holds(next, f) /\ ~Flies(next, f)
                BY <2>2 DEF Holds, Flies
            <3>3. ~ctl[f].changes.dispatch /\ ~ctl[f].changes.admission
                BY DEF IInv, Typed
            <3> QED
                BY <3>1, <3>2, <3>3, Untouched
        <2> QED
            BY <2>1, <2>2
    <1> HIDE DEF left
    <1> QED
        BY <1>1, <1>2, <1>4, <1>5, <1>6, <1>7, CallStep
-------------------------------------------------------------------------------
(* Actions.                                                                    *)

\* What a look at a controller leaves.
LEMMA RefreshedFacts ==
    ASSUME IInv, NEW e \in Endpoint, NEW draw \in Draw
    PROVE  LET d == Refresh(ctl[e], draw, now) IN
           /\ d \in ControllerOf(e) /\ Paced(d) /\ Ordered(d)
           /\ KeepsQueue(ctl[e], d) /\ Announces(ctl[e], d, now)
    <1>1. /\ ctl[e] \in ControllerOf(e) /\ Paced(ctl[e]) /\ Ordered(ctl[e]) /\ now \in Instant
        BY DEF IInv, Typed
    <1> QED
        BY <1>1, RefreshFacts, RefreshAnnounces, KeptIds

\* ... and what a reservation after it leaves.
LEMMA RefreshedReserveFacts ==
    ASSUME IInv, NEW e \in Endpoint, NEW draw \in Draw,
           CanReserve(Refresh(ctl[e], draw, now))
    PROVE  LET d == Reserve(Refresh(ctl[e], draw, now), now) IN
           /\ d \in ControllerOf(e) /\ Paced(d) /\ Ordered(d) /\ Announces(ctl[e], d, now)
           /\ ctl[e].next_id \in 0 .. MaxId - 1 /\ d.next_id - 1 = ctl[e].next_id
           /\ Ids(d) = Ids(ctl[e]) \cup {ctl[e].next_id}
           /\ Queued(d) = Queued(ctl[e]) + 1 /\ d.inflight = ctl[e].inflight
    <1> DEFINE c == ctl[e]
               fresh == Refresh(c, draw, now)
               d == Reserve(fresh, now)
    <1>1. /\ c \in ControllerOf(e) /\ now \in Instant
          /\ fresh \in ControllerOf(e) /\ Paced(fresh) /\ Ordered(fresh)
          /\ KeepsQueue(c, fresh) /\ Announces(c, fresh, now) /\ CanReserve(fresh)
        BY RefreshedFacts DEF IInv, Typed
    <1> HIDE DEF fresh, c
    <1>2. /\ d \in ControllerOf(e) /\ Paced(d) /\ Ordered(d)
          /\ fresh.next_id \in (0 .. MaxId - 1) \ Ids(fresh)
          /\ Ids(d) = Ids(fresh) \cup {fresh.next_id}
          /\ Queued(d) = Queued(fresh) + 1 /\ d.inflight = fresh.inflight
        BY <1>1, ReserveIds
    <1>3. d.changes = fresh.changes /\ d.next_id = fresh.next_id + 1
        BY <1>1 DEF Reserve, ControllerOf
    <1>4. /\ Ids(fresh) = Ids(c) /\ Queued(fresh) = Queued(c) /\ fresh.next_id = c.next_id
          /\ fresh.inflight = c.inflight
        BY <1>1, KeptIds DEF KeepsQueue
    <1>5. Announces(fresh, d, now)
        BY <1>1, ReserveAnnounces
    <1>6. Announces(c, d, now)
        BY <1>1, <1>2, <1>3, <1>4, <1>5, AnnouncesTransitive
    <1>7. d.next_id - 1 = c.next_id
        BY <1>2, <1>3, <1>4
    <1> QED
        BY <1>2, <1>4, <1>6, <1>7 DEF c, fresh

\* The task that reserved.
LEMMA ReservedFacts ==
    ASSUME NEW e \in Endpoint, NEW d, d.next_id - 1 \in 0 .. MaxId - 1
    PROVE  LET next == Reserved(e, d) IN
           /\ next \in TaskState /\ Well(next) /\ next.pc = "reserved" /\ next.at = e
           /\ next.token.id = d.next_id - 1 /\ Holds(next, e)
    <1> DEFINE token == [controller_id |-> e, id |-> d.next_id - 1]
               next == Reserved(e, d)
    <1>1. token \in Ticket /\ token.controller_id = e /\ token.id = d.next_id - 1
        BY DEF Ticket
    <1>2. next = [Idle EXCEPT !.pc = "reserved", !.at = e, !.token = token]
        BY DEF Reserved
    <1> HIDE DEF token, next
    <1>3. /\ next \in TaskState /\ next.pc = "reserved" /\ next.at = e /\ next.token = token
        BY <1>1, <1>2 DEF Idle, TaskState, State, Reserving
    <1>4. Well(next) /\ Holds(next, e)
        BY <1>1, <1>3 DEF Well, Holds, Reserving
    <1> QED
        BY <1>1, <1>3, <1>4 DEF next

\* A task outside the adapter, or between its locks, has no guard.
LEMMA HoldsNothing ==
    ASSUME NEW t, t.pc \notin Reserving \cup {"active"}
    PROVE  \A e \in Endpoint : ~Holds(t, e) /\ ~Flies(t, e)
    BY DEF Holds, Flies

LEMMA KeptLeaves ==
    ASSUME IInv, NEW p \in Task, NEW next, NEW e \in Endpoint, NEW draw \in Draw,
           Holds(next, e) = Holds(task[p], e), Flies(next, e) = Flies(task[p], e),
           Holds(task[p], e) => next.token.id = task[p].token.id
    PROVE  Leaves(e, Refresh(ctl[e], draw, now), task[p], next)
    <1> DEFINE d == Refresh(ctl[e], draw, now)
    <1>1. /\ d \in ControllerOf(e) /\ Paced(d) /\ Ordered(d)
          /\ KeepsQueue(ctl[e], d) /\ Announces(ctl[e], d, now)
        BY RefreshedFacts
    <1>2. ctl[e] \in ControllerOf(e) /\ (Holds(task[p], e) => task[p].token.id \in Ids(ctl[e]))
        BY HoldersQueue DEF IInv, Typed
    <1> HIDE DEF d
    <1>3. Balanced(ctl[e], d, task[p], next, e)
        BY <1>1, <1>2, BalancedKept
    <1>4. d.inflight = ctl[e].inflight
        BY <1>1 DEF KeepsQueue
    <1> QED
        BY <1>1, <1>3, <1>4 DEF Leaves, d

LEMMA LookLeaves ==
    ASSUME IInv, NEW p \in Task, task[p].pc \notin Reserving \cup {"active"},
           NEW next, NEW e \in Endpoint, ~Holds(next, e), ~Flies(next, e), NEW draw \in Draw
    PROVE  Leaves(e, Refresh(ctl[e], draw, now), task[p], next)
    <1>1. /\ Holds(next, e) = Holds(task[p], e) /\ Flies(next, e) = Flies(task[p], e)
          /\ ~Holds(task[p], e)
        BY DEF Holds, Flies
    <1> QED
        BY <1>1, KeptLeaves

LEMMA ReserveLeaves ==
    ASSUME IInv, NEW p \in Task, task[p].pc \notin Reserving \cup {"active"},
           NEW e \in Endpoint, NEW draw \in Draw,
           CanReserve(Refresh(ctl[e], draw, now))
    PROVE  LET d == Reserve(Refresh(ctl[e], draw, now), now)
               next == Reserved(e, d)
           IN /\ Leaves(e, d, task[p], next)
              /\ next \in TaskState /\ Well(next) /\ next.pc = "reserved" /\ next.at = e
    <1> DEFINE d == Reserve(Refresh(ctl[e], draw, now), now)
               next == Reserved(e, d)
    <1>1. /\ d \in ControllerOf(e) /\ Paced(d) /\ Ordered(d) /\ Announces(ctl[e], d, now)
          /\ ctl[e].next_id \in 0 .. MaxId - 1 /\ d.next_id - 1 = ctl[e].next_id
          /\ Ids(d) = Ids(ctl[e]) \cup {ctl[e].next_id}
          /\ Queued(d) = Queued(ctl[e]) + 1 /\ d.inflight = ctl[e].inflight
        BY RefreshedReserveFacts
    <1> HIDE DEF d
    <1>2. /\ next \in TaskState /\ Well(next) /\ next.pc = "reserved" /\ next.at = e
          /\ next.token.id = d.next_id - 1 /\ Holds(next, e)
        BY <1>1, ReservedFacts
    <1> HIDE DEF next
    <1>3. ~Holds(task[p], e) /\ ~Flies(task[p], e) /\ ctl[e] \in ControllerOf(e)
        BY HoldsNothing DEF IInv, Typed
    <1>4. Balanced(ctl[e], d, task[p], next, e)
        BY <1>1, <1>2, <1>3, BalancedReserve
    <1> QED
        BY <1>1, <1>2, <1>4 DEF Leaves, d, next

LEMMA TryReserveStep ==
    ASSUME IInv, NEW p \in Task, NEW e \in Endpoint, TryReserve(p, e) PROVE IInv'
    <1>1. task[p].pc = "idle" /\ owed[p] = <<>>
        BY DEF TryReserve, At
    <1>2. PICK draw \in Draw :
              LET fresh == Refresh(ctl[e], draw, now)
                  after == Reserve(fresh, now)
              IN WithController(p, e, after, IF CanReserve(fresh) THEN Reserved(e, after) ELSE Idle)
        BY DrawsType DEF TryReserve
    <1> DEFINE fresh == Refresh(ctl[e], draw, now)
               after == Reserve(fresh, now)
    <1>3. CASE CanReserve(fresh)
        <2>1. /\ Leaves(e, after, task[p], Reserved(e, after))
              /\ Reserved(e, after) \in TaskState /\ Well(Reserved(e, after))
              /\ Reserved(e, after).pc = "reserved" /\ Reserved(e, after).at = e
            BY <1>1, <1>3, ReserveLeaves DEF Reserving
        <2>2. WithController(p, e, after, Reserved(e, after))
            BY <1>2, <1>3
        <2> HIDE DEF after
        <2>3. Reserved(e, after).pc \notin Waiting \cup AsleepReady \cup {"pair"}
            BY <2>1 DEF Waiting, Asleep, AsleepReady
        <2>4. task[p].pc \notin Reserving \cup {"active"}
            BY <1>1 DEF Reserving
        <2> QED
            BY <1>1, <2>1, <2>2, <2>3, <2>4, SectionStep
    <1>4. CASE ~CanReserve(fresh)
        <2>1. WithController(p, e, fresh, Idle)
            BY <1>2, <1>4 DEF Reserve
        <2>2. Leaves(e, fresh, task[p], Idle)
            <3>1. /\ Holds(Idle, e) = Holds(task[p], e) /\ Flies(Idle, e) = Flies(task[p], e)
                  /\ ~Holds(task[p], e)
                BY <1>1 DEF Idle, Holds, Flies, Reserving
            <3> QED
                BY <3>1, KeptLeaves
        <2> HIDE DEF fresh
        <2>3. /\ Idle.pc \notin Waiting \cup AsleepReady \cup {"pair"}
              /\ Idle.pc \notin Reserving \cup {"active"}
              /\ task[p].pc \notin Reserving \cup {"active"}
            BY <1>1, IdleFacts DEF Waiting, Asleep, AsleepReady, Reserving
        <2> QED
            BY <1>1, <2>1, <2>2, <2>3, IdleFacts, SectionStep
    <1> QED
        BY <1>3, <1>4

LEMMA ReadLoadStep ==
    ASSUME IInv, NEW p \in Task, NEW e \in Endpoint, ReadLoad(p, e) PROVE IInv'
    <1>1. task[p].pc = "idle" /\ owed[p] = <<>>
        BY DEF ReadLoad, At
    <1>2. PICK draw \in Draw : WithController(p, e, Refresh(ctl[e], draw, now), Idle)
        BY DrawsType DEF ReadLoad
    <1>3. Leaves(e, Refresh(ctl[e], draw, now), task[p], Idle)
        <2>1. /\ Holds(Idle, e) = Holds(task[p], e) /\ Flies(Idle, e) = Flies(task[p], e)
              /\ ~Holds(task[p], e)
            BY <1>1 DEF Idle, Holds, Flies, Reserving
        <2> QED
            BY <2>1, KeptLeaves
    <1>4. /\ Idle.pc \notin Waiting \cup AsleepReady \cup {"pair"}
          /\ Idle.pc \notin Reserving \cup {"active"}
          /\ task[p].pc \notin Reserving \cup {"active"}
        BY <1>1, IdleFacts DEF Waiting, Asleep, AsleepReady, Reserving
    <1> QED
        BY <1>1, <1>2, <1>3, <1>4, IdleFacts, SectionStep

LEMMA DropReservationStep ==
    ASSUME IInv, NEW p \in Task, DropReservation(p) PROVE IInv'
    <1> DEFINE e == task[p].at
               token == task[p].token
               d == Cancel(ctl[e], token, now)
    <1>1. task[p].pc \in {"timed", "parked", "reserved"}
        BY DEF DropReservation, At
    <1>2. e \in Endpoint /\ Holds(task[p], e)
        BY <1>1 DEF IInv, Typed, Well, Holds, Reserving
    <1>3. WithController(p, e, d, Idle)
        BY DEF DropReservation
    <1>4. /\ ctl[e] \in ControllerOf(e) /\ Paced(ctl[e]) /\ Ordered(ctl[e]) /\ now \in Instant
          /\ token.id \in Ids(ctl[e]) /\ Owns(ctl[e], token)
        BY <1>2, HoldersQueue DEF IInv, Typed
    <1>5. /\ d \in ControllerOf(e) /\ Paced(d) /\ Ordered(d)
          /\ Ids(d) = Ids(ctl[e]) \ {token.id} /\ Queued(d) = Queued(ctl[e]) - 1
          /\ d.inflight = ctl[e].inflight
        BY <1>4, CancelIds
    <1>6. Announces(ctl[e], d, now)
        BY <1>4, CancelAnnounces
    <1> HIDE DEF d
    <1>7. Balanced(ctl[e], d, task[p], Idle, e)
        BY <1>2, <1>4, <1>5, IdleFacts, BalancedLeave
    <1>8. Leaves(e, d, task[p], Idle)
        BY <1>5, <1>6, <1>7 DEF Leaves
    <1>9. /\ Idle.pc \notin Waiting \cup AsleepReady \cup {"pair"}
          /\ Idle.pc \notin Reserving \cup {"active"} /\ task[p].pc # "pair"
        BY <1>1, IdleFacts DEF Waiting, Asleep, AsleepReady, Reserving
    <1>10. owed[p] = <<>>
        BY <1>1 DEF DropReservation, At, IInv, Typed, Waiting, Asleep
    <1> QED
        BY <1>2, <1>3, <1>8, <1>9, <1>10, IdleFacts, SectionStep

LEMMA FinishRequestStep ==
    ASSUME IInv, NEW p \in Task, NEW completion \in Completion, FinishRequest(p, completion)
    PROVE  IInv'
    <1> DEFINE e == task[p].at
               token == task[p].token
               d == Finish(ctl[e], token, completion, now)
    <1>1. task[p].pc = "active" /\ owed[p] = <<>>
        BY DEF FinishRequest, At
    <1>2. e \in Endpoint /\ Flies(task[p], e)
        BY <1>1 DEF IInv, Typed, Well, Flies
    <1>3. WithController(p, e, d, Idle)
        BY DEF FinishRequest
    <1>4. /\ ctl[e] \in ControllerOf(e) /\ Paced(ctl[e]) /\ Ordered(ctl[e]) /\ now \in Instant
          /\ ctl[e].inflight \in Nat \ {0} /\ token \in Token /\ Owns(ctl[e], token)
          /\ completion \in {"Success", "Failure", "Abandoned"}
        BY <1>2, FliersCounted, TokioAssumption DEF IInv, Typed
    <1>5. token.dispatched_at \in Instant /\ token.was_paced \in BOOLEAN /\ ctl[e].inflight > 0
        BY <1>4 DEF Token, TokenOf
    <1>6. /\ d \in ControllerOf(e) /\ Paced(d) /\ KeepsQueue([ctl[e] EXCEPT !.inflight = @ - 1], d)
        BY <1>4, <1>5, FinishFacts
    <1>7. d.changes.dispatch /\ Announces(ctl[e], d, now)
        BY <1>4, <1>5, FinishAnnounces
    <1> HIDE DEF d
    <1>8. Ordered(d)
        <2> DEFINE counted == [ctl[e] EXCEPT !.inflight = @ - 1]
        <2>1. Ordered(counted)
            BY <1>4 DEF Queued, Ordered, ControllerOf
        <2> QED
            BY <1>6, <2>1, KeptIds
    <1>9. Balanced(ctl[e], d, task[p], Idle, e)
        BY <1>2, <1>4, <1>6, IdleFacts, BalancedEnd
    <1>10. Leaves(e, d, task[p], Idle)
        BY <1>6, <1>7, <1>8, <1>9 DEF Leaves
    <1>11. /\ Idle.pc \notin Waiting \cup AsleepReady \cup {"pair"}
           /\ Idle.pc \notin Reserving \cup {"active"} /\ task[p].pc # "pair"
        BY <1>1, IdleFacts DEF Waiting, Asleep, AsleepReady, Reserving
    <1> QED
        BY <1>1, <1>2, <1>3, <1>10, <1>11, IdleFacts, SectionStep

\* A claim that succeeds is a section like the others.
LEMMA DispatchedStep ==
    ASSUME IInv, NEW p \in Task, NEW e \in Endpoint, NEW token, NEW d, NEW granted,
           task[p].pc = "check", task[p].at = e, task[p].token = token, owed[p] = <<>>,
           d \in ControllerOf(e), Paced(d), Ordered(d),
           Announces(ctl[e], d, now), d.changes.dispatch,
           Ids(d) = Ids(ctl[e]) \ {token.id}, Queued(d) = Queued(ctl[e]) - 1,
           d.inflight = ctl[e].inflight + 1,
           granted \in TokenOf(e),
           WithController(p, e, d, [Idle EXCEPT !.pc = "active", !.at = e, !.token = granted])
    PROVE  IInv'
    <1> DEFINE next == [Idle EXCEPT !.pc = "active", !.at = e, !.token = granted]
    <1>1. Holds(task[p], e) /\ ctl[e] \in ControllerOf(e)
        BY DEF IInv, Typed, Holds, Reserving
    <1>2. granted \in Token /\ granted.controller_id = e
        BY DEF Token, TokenOf
    <1>3. /\ next \in TaskState /\ next.pc = "active" /\ next.at = e /\ next.token = granted
        BY <1>2 DEF Idle, TaskState, State
    <1>4. WithController(p, e, d, next)
        OBVIOUS
    <1> HIDE DEF next
    <1>5. Well(next) /\ ~Holds(next, e) /\ Flies(next, e)
        BY <1>2, <1>3 DEF Well, Holds, Flies, Reserving
    <1>6. Balanced(ctl[e], d, task[p], next, e)
        BY <1>1, <1>5, BalancedLeave
    <1>7. Leaves(e, d, task[p], next)
        BY <1>6 DEF Leaves
    <1>8. next.pc \notin Waiting \cup AsleepReady \cup {"pair"}
        BY <1>3 DEF Waiting, Asleep, AsleepReady
    <1> QED
        BY <1>3, <1>4, <1>5, <1>7, <1>8, SectionStep

\* A waiter drops its effects, which concern nobody else.
LEMMA WaitedStep ==
    ASSUME IInv, NEW p \in Task, NEW draw \in Draw, task[p].pc = "check", owed[p] = <<>>,
           Check(ctl[task[p].at], task[p].token, draw, now).answer.tag # "Ready",
           LET e == task[p].at
               checked == Check(ctl[e], task[p].token, draw, now)
           IN /\ ctl' = [ctl EXCEPT ![e] = TakeChanges(checked.ctl)]
              /\ task' = [task EXCEPT ![p].pc = "looked", ![p].deadline = checked.answer.at],
           UNCHANGED <<now, holder, owed>>
    PROVE  IInv'
    <1> DEFINE e == task[p].at
               token == task[p].token
               checked == Check(ctl[e], token, draw, now)
               d == checked.ctl
               next == [task[p] EXCEPT !.pc = "looked", !.deadline = checked.answer.at]
    <1>1. /\ e \in Endpoint /\ Holds(task[p], e) /\ task[p] \in TaskState /\ Well(task[p])
          /\ task \in [Task -> TaskState] /\ ctl \in [Endpoint -> Ctl] /\ now \in Instant
          /\ \A f \in Endpoint : ctl[f] \in ControllerOf(f)
        BY DEF IInv, Typed, Well, Holds, Reserving
    <1>2. /\ ctl[e] \in ControllerOf(e) /\ Paced(ctl[e]) /\ Ordered(ctl[e])
          /\ token.id \in Ids(ctl[e]) /\ Owns(ctl[e], token)
        BY <1>1, HoldersQueue DEF IInv, Typed
    <1>3. ctl' = [ctl EXCEPT ![e] = TakeChanges(d)] /\ task' = [task EXCEPT ![p] = next]
        BY <1>1
    <1>4. /\ d \in ControllerOf(e) /\ KeepsQueue(ctl[e], d) /\ Paced(d)
        BY <1>1, <1>2, CheckFacts
    <1>5. checked.answer.at \in Instant \cup {None}
        BY <1>1, <1>2, CheckAnnounces
    <1>6. ASSUME NEW quiet \in BOOLEAN PROVE Waits(d, now, token.id, checked.answer.at, quiet)
        BY <1>1, <1>2, CheckWaits
    <1>7. ASSUME NEW i, i # token.id, NEW deadline \in Instant \cup {None}, NEW quiet \in BOOLEAN,
                 Waits(ctl[e], now, i, deadline, quiet)
          PROVE  Waits(d, now, i, deadline, quiet)
        BY <1>1, <1>2, <1>7, CheckSparesOthers
    <1> HIDE DEF checked
    <1>8. /\ next \in TaskState /\ Well(next) /\ next.pc = "looked" /\ next.at = e
          /\ next.token = token /\ next.deadline = checked.answer.at /\ next.woken = task[p].woken
        BY <1>1, <1>5 DEF TaskState, State, Reserving, Well
    <1> HIDE DEF d, next
    <1>9. /\ TakeChanges(d) \in ControllerOf(e) /\ KeepsQueue(d, TakeChanges(d))
          /\ TakeChanges(d).inflight = d.inflight /\ TakeChanges(d).pending = d.pending
          /\ Paced(TakeChanges(d)) /\ HeadDue(TakeChanges(d)) = HeadDue(d)
        BY <1>4, TakeChangesFacts
    <1>10. /\ ctl' \in [Endpoint -> Ctl]
           /\ ctl'[e] = TakeChanges(d) /\ \A f \in Endpoint \ {e} : ctl'[f] = ctl[f]
        BY <1>1, <1>3, <1>9 DEF Ctl
    <1>11. KeepsQueue(ctl[e], ctl'[e]) /\ Ordered(ctl'[e])
        BY <1>2, <1>4, <1>9, <1>10, KeepsQueueTransitive, KeptIds
    <1>12. /\ task' \in [Task -> TaskState]
           /\ task'[p] = next /\ \A q \in Task \ {p} : task'[q] = task[q]
        BY <1>1, <1>3, <1>8, TaskGoes
    <1>13. ~ctl'[e].changes.dispatch /\ ~ctl'[e].changes.admission
        BY <1>4, <1>10 DEF TakeChanges, NoChanges, ControllerOf
    <1>14. Typed'
        <2>1. \A f \in Endpoint :
                 /\ ctl'[f] \in ControllerOf(f) /\ Paced(ctl'[f]) /\ Ordered(ctl'[f])
                 /\ ~ctl'[f].changes.dispatch /\ ~ctl'[f].changes.admission
            BY <1>9, <1>10, <1>11, <1>13 DEF IInv, Typed
        <2>2. \A q \in Task : Well(task'[q]) /\ (task'[q].pc \in Waiting => owed'[q] = <<>>)
            BY <1>8, <1>12 DEF IInv, Typed
        <2> QED
            BY <1>10, <1>12, <2>1, <2>2 DEF IInv, Typed, Well
    <1>15. Locked'
        BY <1>3, <1>8, LockedKept DEF IInv
    <1>16. \A f \in Endpoint : Balanced(ctl[f], ctl'[f], task[p], next, f)
        <2> TAKE f \in Endpoint
        <2>1. KeepsQueue(ctl[f], ctl'[f])
            BY <1>10, <1>11 DEF KeepsQueue
        <2>2. /\ Holds(next, f) = Holds(task[p], f) /\ Flies(next, f) = Flies(task[p], f)
              /\ Holds(task[p], f) => f = e
            BY <1>1, <1>8 DEF Holds, Flies, Reserving
        <2> QED
            BY <1>1, <1>2, <1>8, <2>1, <2>2, BalancedKept
    <1>17. Counted'
        BY <1>3, <1>8, <1>16, CountedStep DEF IInv
    <1>18. ASSUME NEW q \in Task, NEW f \in Endpoint, task'[q].at = f
           PROVE  /\ Attended(ctl'[f], now, task'[q], Owed(f, "dispatch"))
                  /\ Heeded(ctl'[f], task'[q], Owed(f, "admission"))
        <2>1. ASSUME f = e, Attended(d, now, task'[q], Owed(e, "dispatch")),
                     Heeded(ctl[e], task'[q], Owed(e, "admission"))
              PROVE  /\ Attended(ctl'[f], now, task'[q], Owed(f, "dispatch"))
                     /\ Heeded(ctl'[f], task'[q], Owed(f, "admission"))
            <3>1. MaySchedule(ctl'[e]) = MaySchedule(ctl[e])
                BY <1>11 DEF KeepsQueue, MaySchedule
            <3> QED
                BY <1>9, <1>10, <2>1, <3>1 DEF Attended, Heeded, Waits, HeadIs, InflightFull, Queued
        <2>2. CASE q = p
            <3>1. f = e /\ task'[q] = next
                BY <1>8, <1>12, <1>18, <2>2
            <3>2. Attended(d, now, next, Owed(e, "dispatch"))
                BY <1>6, <1>8 DEF Attended
            <3>3. Heeded(ctl[e], next, Owed(e, "admission"))
                BY <1>8 DEF Heeded, AsleepReady
            <3> QED
                BY <2>1, <3>1, <3>2, <3>3
        <2>3. CASE q # p /\ f # e
            <3>1. task'[q] = task[q] /\ ctl'[f] = ctl[f]
                BY <1>10, <1>12, <2>3
            <3> QED
                BY <1>18, <3>1 DEF IInv, AllMinded
        <2>4. CASE q # p /\ f = e
            <3>1. task'[q] = task[q] /\ task[q].at = e
                BY <1>12, <1>18, <2>4
            <3>2. /\ Attended(ctl[e], now, task[q], Owed(e, "dispatch"))
                  /\ Heeded(ctl[e], task[q], Owed(e, "admission")) /\ task[q] \in TaskState
                BY <1>1, <3>1 DEF IInv, AllMinded
            <3>3. CASE task[q].pc \in Asleep
                <4>1. task[q].token.id # token.id
                    <5>1. Holds(task[q], e)
                        BY <3>1, <3>3 DEF Holds, Asleep, Reserving
                    <5> QED
                        BY <1>1, <2>4, <5>1, HoldersQueue DEF IInv
                <4>2. Waits(ctl[e], now, task[q].token.id, task[q].deadline,
                            ~task[q].woken /\ ~Owed(e, "dispatch"))
                    BY <3>2, <3>3 DEF Attended
                <4>3. Waits(d, now, task[q].token.id, task[q].deadline,
                            ~task[q].woken /\ ~Owed(e, "dispatch"))
                    BY <1>7, <3>2, <4>1, <4>2 DEF TaskState
                <4>4. Attended(d, now, task[q], Owed(e, "dispatch"))
                    BY <4>3 DEF Attended
                <4> QED
                    BY <2>1, <2>4, <3>1, <3>2, <4>4
            <3>4. CASE task[q].pc \notin Asleep
                <4>1. Attended(d, now, task[q], Owed(e, "dispatch"))
                    BY <3>4 DEF Attended
                <4> QED
                    BY <2>1, <2>4, <3>1, <3>2, <4>1
            <3> QED
                BY <3>3, <3>4
        <2> QED
            BY <2>2, <2>3, <2>4
    <1>19. \A f, kind : Owed(f, kind)' = Owed(f, kind)
        BY DEF Owed
    <1>20. AllMinded'
        BY <1>18, <1>19 DEF AllMinded, Attended, Heeded
    <1> QED
        BY <1>14, <1>15, <1>17, <1>20 DEF IInv

LEMMA TryDispatchStep ==
    ASSUME IInv, NEW p \in Task, TryDispatch(p) PROVE IInv'
    <1> DEFINE e == task[p].at
    <1>1. task[p].pc = "check" /\ owed[p] = <<>> /\ holder[e] = None
        BY DEF TryDispatch, At
    <1>2. PICK draw \in Draw :
              LET result == OnDispatched(ctl[e], task[p].token, draw, now) IN
              /\ ctl' = [ctl EXCEPT ![e] = TakeChanges(result.ctl)]
              /\ IF result.answer.tag = "Ready"
                 THEN /\ task' = [task EXCEPT ![p] = [Idle EXCEPT !.pc = "active", !.at = e,
                                                                  !.token = result.token]]
                      /\ owed' = [owed EXCEPT ![p] = Effects(e, result.ctl.changes)]
                 ELSE /\ task' = [task EXCEPT
                                    ![p].pc = "looked", ![p].deadline = result.answer.at]
                      /\ UNCHANGED owed
        BY DrawsType DEF TryDispatch
    <1> DEFINE result == OnDispatched(ctl[e], task[p].token, draw, now)
    <1>3. UNCHANGED <<now, holder>>
        BY DEF TryDispatch
    <1>4. CASE result.answer.tag = "Ready"
        <2>1. WithController(p, e, result.ctl,
                             [Idle EXCEPT !.pc = "active", !.at = e, !.token = result.token])
            BY <1>1, <1>2, <1>3, <1>4 DEF WithController
        <2>2. /\ e \in Endpoint /\ ctl[e] \in ControllerOf(e) /\ now \in Instant
              /\ Paced(ctl[e]) /\ Ordered(ctl[e])
            BY <1>1 DEF IInv, Typed, Well
        <2>3. Claims(e, ctl[e], task[p].token, result)
            BY <2>2, DispatchIds
        <2>4. Announces(ctl[e], result.ctl, now)
            BY <2>2, DispatchAnnounces
        <2>5. result.ctl.changes.dispatch
            BY <1>4, <2>2, DispatchAnnounces
        <2> HIDE DEF result
        <2>6. /\ result.ctl \in ControllerOf(e) /\ Paced(result.ctl) /\ Ordered(result.ctl)
              /\ Ids(result.ctl) = Ids(ctl[e]) \ {task[p].token.id}
              /\ Queued(result.ctl) = Queued(ctl[e]) - 1
              /\ result.ctl.inflight = ctl[e].inflight + 1
              /\ result.token \in TokenOf(e)
            BY <1>4, <2>3 DEF Claims
        <2> QED
            BY <1>1, <2>1, <2>2, <2>4, <2>5, <2>6, DispatchedStep
    <1>5. CASE result.answer.tag # "Ready"
        <2> DEFINE checked == Check(ctl[e], task[p].token, draw, now)
        <2>1. result.ctl = checked.ctl /\ result.answer = checked.answer
            BY <1>5 DEF OnDispatched, Claim
        <2>2. /\ ctl' = [ctl EXCEPT ![e] = TakeChanges(checked.ctl)]
              /\ task' = [task EXCEPT ![p].pc = "looked", ![p].deadline = checked.answer.at]
              /\ UNCHANGED <<now, holder, owed>> /\ checked.answer.tag # "Ready"
            BY <1>2, <1>3, <1>5, <2>1
        <2> QED
            BY <1>1, <2>2, WaitedStep
    <1> QED
        BY <1>4, <1>5

\* A step of a task that keeps what it owns, and no lock.
LEMMA QuietStep ==
    ASSUME IInv, NEW p \in Task, NEW next \in TaskState, Well(next),
           task' = [task EXCEPT ![p] = next], UNCHANGED <<ctl, now, holder, owed>>,
           task[p].pc # "pair", next.pc # "pair", next.pc \in Waiting => owed[p] = <<>>,
           \/ /\ task[p].pc \in Reserving /\ next.pc \in Reserving
              /\ next.at = task[p].at /\ next.token = task[p].token
           \/ task[p].pc \notin Reserving \cup {"active"} /\ next.pc \notin Reserving \cup {"active"},
           \A e \in Endpoint : next.at = e =>
              /\ Attended(ctl[e], now, next, Owed(e, "dispatch"))
              /\ Heeded(ctl[e], next, Owed(e, "admission"))
    PROVE  IInv'
    <1>1. Locked'
        BY LockedKept DEF IInv
    <1>2. holder' \in [Endpoint -> Task \cup {None}]
        BY DEF IInv, Typed
    <1>3. \A e \in Endpoint :
              /\ Holds(next, e) = Holds(task[p], e) /\ Flies(next, e) = Flies(task[p], e)
              /\ Holds(next, e) => next.token.id = task[p].token.id
        BY DEF Holds, Flies, Reserving
    <1> QED
        BY <1>1, <1>2, <1>3, OwnStep

LEMMA RegisterStep == ASSUME IInv, NEW p \in Task, Register(p) PROVE IInv'
    <1> DEFINE next == [task[p] EXCEPT !.pc = "check", !.woken = FALSE, !.deadline = None]
    <1>1. /\ task[p].pc \in {"reserved", "timed", "parked"} /\ owed[p] = <<>>
          /\ task' = [task EXCEPT ![p] = next] /\ UNCHANGED <<ctl, now, holder, owed>>
        BY DEF Register, Awake, At, IInv, Typed, Waiting, Asleep
    <1>2. task[p] \in TaskState /\ Well(task[p])
        BY DEF IInv, Typed
    <1>3. /\ next \in TaskState /\ next.pc = "check" /\ next.at = task[p].at
          /\ next.token = task[p].token
        BY <1>2 DEF TaskState, State, Reserving
    <1> HIDE DEF next
    <1>4. Well(next)
        BY <1>1, <1>2, <1>3 DEF Well, Reserving
    <1>5. \A e \in Endpoint :
              /\ Attended(ctl[e], now, next, Owed(e, "dispatch"))
              /\ Heeded(ctl[e], next, Owed(e, "admission"))
        BY <1>3 DEF Attended, Heeded, Asleep, AsleepReady
    <1>6. task[p].pc \in Reserving /\ next.pc \in Reserving /\ task[p].pc # "pair" /\ next.pc # "pair"
        BY <1>1, <1>3 DEF Reserving
    <1> QED
        BY <1>1, <1>3, <1>4, <1>5, <1>6, QuietStep

LEMMA SuspendStep == ASSUME IInv, NEW p \in Task, Suspend(p) PROVE IInv'
    <1> DEFINE next == [task[p] EXCEPT !.pc = IF task[p].deadline = None THEN "parked" ELSE "timed"]
    <1>1. /\ task[p].pc = "looked" /\ owed[p] = <<>>
          /\ task' = [task EXCEPT ![p] = next] /\ UNCHANGED <<ctl, now, holder, owed>>
        BY DEF Suspend, IInv, Typed, Waiting, Asleep
    <1>2. task[p] \in TaskState /\ Well(task[p])
        BY DEF IInv, Typed
    <1>3. /\ next \in TaskState /\ next.at = task[p].at
          /\ next.pc = IF task[p].deadline = None THEN "parked" ELSE "timed"
          /\ next.token = task[p].token /\ next.deadline = task[p].deadline
          /\ next.woken = task[p].woken
        BY <1>2 DEF TaskState, State, Reserving
    <1> HIDE DEF next
    <1>4. Well(next)
        BY <1>1, <1>2, <1>3 DEF Well, Reserving
    <1>5. \A e \in Endpoint : next.at = e =>
              /\ Attended(ctl[e], now, next, Owed(e, "dispatch"))
              /\ Heeded(ctl[e], next, Owed(e, "admission"))
        <2> TAKE e \in Endpoint
        <2> HAVE next.at = e
        <2>1. Attended(ctl[e], now, task[p], Owed(e, "dispatch"))
            BY <1>3 DEF IInv, AllMinded
        <2>2. Attended(ctl[e], now, next, Owed(e, "dispatch"))
            BY <1>1, <1>3, <2>1 DEF Attended, Asleep
        <2>3. Heeded(ctl[e], next, Owed(e, "admission"))
            BY <1>3 DEF Heeded, AsleepReady
        <2> QED
            BY <2>2, <2>3
    <1>6. task[p].pc \in Reserving /\ next.pc \in Reserving /\ task[p].pc # "pair" /\ next.pc # "pair"
        BY <1>1, <1>3 DEF Reserving
    <1> QED
        BY <1>1, <1>3, <1>4, <1>5, <1>6, QuietStep

LEMMA AwaitCapacityStep ==
    ASSUME IInv, NEW p \in Task, NEW e \in Endpoint, AwaitCapacity(p, e) PROVE IInv'
    <1> DEFINE next == [Idle EXCEPT !.pc = "ready_check", !.at = e]
    <1>1. /\ task[p].pc = "idle"
          /\ task' = [task EXCEPT ![p] = next] /\ UNCHANGED <<ctl, now, holder, owed>>
        BY DEF AwaitCapacity, At
    <1>2. next \in TaskState /\ next.pc = "ready_check" /\ next.at = e
        BY DEF Idle, TaskState, State
    <1> HIDE DEF next
    <1>3. Well(next)
        BY <1>2 DEF Well, Reserving
    <1>4. \A f \in Endpoint :
              /\ Attended(ctl[f], now, next, Owed(f, "dispatch"))
              /\ Heeded(ctl[f], next, Owed(f, "admission"))
        BY <1>2 DEF Attended, Heeded, Asleep, AsleepReady
    <1>5. /\ task[p].pc \notin Reserving \cup {"active"} /\ next.pc \notin Reserving \cup {"active"}
          /\ next.pc \notin Waiting
        BY <1>1, <1>2 DEF Reserving, Waiting, Asleep
    <1> QED
        BY <1>1, <1>2, <1>3, <1>4, <1>5, QuietStep

\* Back outside the adapter from ready.
LEMMA LeaveStep ==
    ASSUME IInv, NEW p \in Task, task[p].pc \notin Reserving \cup {"active", "pair"},
           task' = [task EXCEPT ![p] = Idle], UNCHANGED <<ctl, now, holder, owed>>
    PROVE  IInv'
    <1>1. /\ \A e \in Endpoint :
              /\ Attended(ctl[e], now, Idle, Owed(e, "dispatch"))
              /\ Heeded(ctl[e], Idle, Owed(e, "admission"))
          /\ Idle.pc \notin Reserving \cup {"active"} /\ Idle.pc \notin Waiting
        BY IdleFacts DEF Attended, Heeded, Asleep, AsleepReady, Reserving, Waiting
    <1> QED
        BY <1>1, IdleFacts, QuietStep

\* A waiter in ready goes on to another state of waiting.
LEMMA ReadyStep ==
    ASSUME IInv, NEW p \in Task, task[p].pc \in {"ready_check"} \cup AsleepReady,
           NEW next \in TaskState, next.pc \in {"ready_check"} \cup AsleepReady,
           next.at = task[p].at,
           task' = [task EXCEPT ![p] = next], UNCHANGED <<ctl, now, holder, owed>>,
           next.pc \in AsleepReady =>
              \/ next.woken = task[p].woken /\ task[p].pc \in AsleepReady
              \/ ~MaySchedule(ctl[task[p].at])
    PROVE  IInv'
    <1>1. Well(task[p])
        BY DEF IInv, Typed
    <1>2. Well(next)
        BY <1>1 DEF Well, AsleepReady, Reserving
    <1>3. \A e \in Endpoint : next.at = e =>
              /\ Attended(ctl[e], now, next, Owed(e, "dispatch"))
              /\ Heeded(ctl[e], next, Owed(e, "admission"))
        <2> TAKE e \in Endpoint
        <2> HAVE next.at = e
        <2>1. Heeded(ctl[e], task[p], Owed(e, "admission"))
            BY DEF IInv, AllMinded
        <2>2. Heeded(ctl[e], next, Owed(e, "admission"))
            BY <2>1 DEF Heeded
        <2>3. Attended(ctl[e], now, next, Owed(e, "dispatch"))
            BY DEF Attended, Asleep, AsleepReady
        <2> QED
            BY <2>2, <2>3
    <1>4. /\ task[p].pc \notin Reserving \cup {"active"} /\ next.pc \notin Reserving \cup {"active"}
          /\ next.pc \notin Waiting /\ task[p].pc # "pair" /\ next.pc # "pair"
        BY DEF Reserving, Waiting, Asleep, AsleepReady
    <1> QED
        BY <1>2, <1>3, <1>4, QuietStep

LEMMA LookForCapacityStep == ASSUME IInv, NEW p \in Task, LookForCapacity(p) PROVE IInv'
    <1> DEFINE next == [task[p] EXCEPT !.pc = "ready_looked"]
    <1>1. /\ task[p].pc = "ready_check" /\ task[p] \in TaskState
          /\ task' = [task EXCEPT ![p] = IF MaySchedule(ctl[task[p].at]) THEN Idle ELSE next]
          /\ UNCHANGED <<ctl, now, holder, owed>>
        BY DEF LookForCapacity, IInv, Typed
    <1>2. next \in TaskState /\ next.pc = "ready_looked" /\ next.at = task[p].at
        BY <1>1 DEF TaskState, State
    <1> HIDE DEF next
    <1>3. CASE MaySchedule(ctl[task[p].at])
        <2>1. task' = [task EXCEPT ![p] = Idle] /\ task[p].pc \notin Reserving \cup {"active", "pair"}
            BY <1>1, <1>3 DEF Reserving
        <2> QED
            BY <1>1, <2>1, LeaveStep
    <1>4. CASE ~MaySchedule(ctl[task[p].at])
        <2>1. task' = [task EXCEPT ![p] = next]
            BY <1>1, <1>4
        <2>2. next.pc \in {"ready_check"} \cup AsleepReady
            BY <1>2 DEF AsleepReady
        <2> QED
            BY <1>1, <1>2, <1>4, <2>1, <2>2, ReadyStep
    <1> QED
        BY <1>3, <1>4

LEMMA SuspendReadyStep == ASSUME IInv, NEW p \in Task, SuspendReady(p) PROVE IInv'
    <1> DEFINE next == [task[p] EXCEPT !.pc = "ready_wait"]
    <1>1. /\ task[p].pc = "ready_looked" /\ task[p] \in TaskState
          /\ task' = [task EXCEPT ![p] = next] /\ UNCHANGED <<ctl, now, holder, owed>>
        BY DEF SuspendReady, IInv, Typed
    <1>2. /\ next \in TaskState /\ next.pc = "ready_wait" /\ next.at = task[p].at
          /\ next.woken = task[p].woken
        BY <1>1 DEF TaskState, State
    <1> HIDE DEF next
    <1>3. task[p].pc \in AsleepReady /\ next.pc \in AsleepReady
        BY <1>1, <1>2 DEF AsleepReady
    <1> QED
        BY <1>1, <1>2, <1>3, ReadyStep

LEMMA LookAgainStep == ASSUME IInv, NEW p \in Task, LookAgain(p) PROVE IInv'
    <1> DEFINE next == [task[p] EXCEPT !.pc = "ready_check", !.woken = FALSE]
    <1>1. /\ task[p].pc = "ready_wait" /\ task[p] \in TaskState
          /\ task' = [task EXCEPT ![p] = next] /\ UNCHANGED <<ctl, now, holder, owed>>
        BY DEF LookAgain, IInv, Typed
    <1>2. next \in TaskState /\ next.pc = "ready_check" /\ next.at = task[p].at
        BY <1>1 DEF TaskState, State
    <1> HIDE DEF next
    <1>3. task[p].pc \in AsleepReady /\ next.pc \notin AsleepReady
        BY <1>1, <1>2 DEF AsleepReady
    <1> QED
        BY <1>1, <1>2, <1>3, ReadyStep

LEMMA DropReadyStep == ASSUME IInv, NEW p \in Task, DropReady(p) PROVE IInv'
    <1>1. /\ task[p].pc \notin Reserving \cup {"active", "pair"}
          /\ task' = [task EXCEPT ![p] = Idle] /\ UNCHANGED <<ctl, now, holder, owed>>
        BY DEF DropReady, Reserving
    <1> QED
        BY <1>1, LeaveStep

LEMMA LowerUpper ==
    ASSUME NEW a \in Endpoint, NEW b \in Endpoint
    PROVE  /\ Lower(a, b) \in {a, b} /\ {Lower(a, b), Upper(a, b)} = {a, b}
           /\ a # b => Lower(a, b) < Upper(a, b)
    <1>1. a \in Int /\ b \in Int
        BY TokioAssumption
    <1>2. CASE a <= b
        <2>1. Lower(a, b) = a /\ Upper(a, b) = b
            BY <1>1, <1>2 DEF Lower, Upper, Earlier, Later
        <2> QED
            BY <1>1, <1>2, <2>1
    <1>3. CASE ~(a <= b)
        <2>1. Lower(a, b) = b /\ Upper(a, b) = a
            BY <1>1, <1>3 DEF Lower, Upper, Earlier, Later
        <2> QED
            BY <1>1, <1>3, <2>1
    <1> QED
        BY <1>2, <1>3

LEMMA LockPairStep ==
    ASSUME IInv, NEW p \in Task, NEW first \in Endpoint, NEW second \in Endpoint,
           LockPair(p, first, second)
    PROVE  IInv'
    <1> DEFINE next == [Idle EXCEPT !.pc = "pair", !.at = first, !.other = second]
               low == Lower(first, second)
    <1>1. /\ task[p].pc = "idle" /\ first # second /\ holder[low] = None
          /\ holder' = [holder EXCEPT ![low] = p]
          /\ task' = [task EXCEPT ![p] = next] /\ UNCHANGED <<ctl, now, owed>>
        BY DEF LockPair, At
    <1>2. next \in TaskState /\ next.pc = "pair" /\ next.at = first /\ next.other = second
        BY DEF Idle, TaskState, State
    <1> HIDE DEF next
    <1>3. Well(next)
        BY <1>1, <1>2 DEF Well, Reserving
    <1>4. low \in Endpoint
        BY LowerUpper
    <1> HIDE DEF low
    <1>5. /\ task' \in [Task -> TaskState] /\ task \in [Task -> TaskState]
          /\ holder \in [Endpoint -> Task \cup {None}]
          /\ task'[p] = next /\ \A q \in Task \ {p} : task'[q] = task[q]
        BY <1>1, <1>2, TaskGoes DEF IInv, Typed
    <1>6. /\ holder' \in [Endpoint -> Task \cup {None}]
          /\ holder'[low] = p /\ \A e \in Endpoint \ {low} : holder'[e] = holder[e]
        BY <1>1, <1>4, <1>5
    <1>7. Locked'
        <2>1. ASSUME NEW q \in Task, task'[q].pc = "pair"
              PROVE  holder'[Lower(task'[q].at, task'[q].other)] = q
            <3>1. CASE q = p
                BY <1>2, <1>5, <1>6, <3>1 DEF low
            <3>2. CASE q # p
                <4>1. task'[q] = task[q]
                    BY <1>5, <3>2
                <4>2. task[q].at \in Endpoint /\ task[q].other \in Endpoint
                    BY <2>1, <4>1 DEF IInv, Typed, Well
                <4>3. Lower(task[q].at, task[q].other) \in Endpoint
                    BY <4>2, LowerUpper
                <4>4. holder[Lower(task[q].at, task[q].other)] = q
                    BY <2>1, <4>1 DEF IInv, Locked
                <4>5. Lower(task[q].at, task[q].other) # low
                    BY <1>1, <4>4, TokioAssumption DEF low
                <4> QED
                    BY <1>6, <4>1, <4>3, <4>4, <4>5
            <3> QED
                BY <3>1, <3>2
        <2>2. ASSUME NEW e \in Endpoint, holder'[e] # None
              PROVE  /\ task'[holder'[e]].pc = "pair"
                     /\ e = Lower(task'[holder'[e]].at, task'[holder'[e]].other)
            <3>1. CASE e = low
                BY <1>2, <1>5, <1>6, <3>1 DEF low
            <3>2. CASE e # low
                <4>1. holder'[e] = holder[e] /\ holder[e] \in Task
                    BY <1>5, <1>6, <2>2, <3>2
                <4>2. /\ task[holder[e]].pc = "pair"
                      /\ e = Lower(task[holder[e]].at, task[holder[e]].other)
                    BY <2>2, <4>1 DEF IInv, Locked
                <4>3. task'[holder[e]] = task[holder[e]]
                    BY <1>1, <1>5, <4>1, <4>2
                <4> QED
                    BY <4>1, <4>2, <4>3
            <3> QED
                BY <3>1, <3>2
        <2> QED
            BY <2>1, <2>2 DEF Locked, Lower, Earlier
    <1>8. \A e \in Endpoint :
              /\ Attended(ctl[e], now, next, Owed(e, "dispatch"))
              /\ Heeded(ctl[e], next, Owed(e, "admission"))
        BY <1>2 DEF Attended, Heeded, Asleep, AsleepReady
    <1>9. /\ \A e \in Endpoint :
              /\ Holds(next, e) = Holds(task[p], e) /\ Flies(next, e) = Flies(task[p], e)
              /\ Holds(next, e) => next.token.id = task[p].token.id
          /\ next.pc \notin Waiting
        BY <1>1, <1>2 DEF Holds, Flies, Reserving, Waiting, Asleep
    <1> QED
        BY <1>1, <1>2, <1>3, <1>6, <1>7, <1>8, <1>9, OwnStep

\* A pair gives its lock back.
LEMMA LocksReleased ==
    ASSUME Typed, Locked, NEW p \in Task, NEW next \in TaskState, next.pc # "pair",
           task' = [task EXCEPT ![p] = next],
           holder' = [e \in Endpoint |-> IF holder[e] = p THEN None ELSE holder[e]]
    PROVE  holder' \in [Endpoint -> Task \cup {None}] /\ Locked'
    <1>1. /\ task'[p] = next /\ \A q \in Task \ {p} : task'[q] = task[q]
          /\ holder \in [Endpoint -> Task \cup {None}]
        BY TaskGoes DEF Typed
    <1>2. holder' \in [Endpoint -> Task \cup {None}]
        BY <1>1
    <1>3. ASSUME NEW q \in Task, task'[q].pc = "pair"
          PROVE  holder'[Lower(task'[q].at, task'[q].other)] = q
        <2>1. q # p /\ task'[q] = task[q] /\ task[q].pc = "pair"
            BY <1>1, <1>3
        <2>2. task[q].at \in Endpoint /\ task[q].other \in Endpoint
            BY <2>1 DEF Typed, Well
        <2>3. Lower(task[q].at, task[q].other) \in Endpoint
            BY <2>2, LowerUpper
        <2>4. holder[Lower(task[q].at, task[q].other)] = q
            BY <2>1 DEF Locked
        <2> QED
            BY <2>1, <2>3, <2>4
    <1>4. ASSUME NEW e \in Endpoint, holder'[e] # None
          PROVE  /\ task'[holder'[e]].pc = "pair"
                 /\ e = Lower(task'[holder'[e]].at, task'[holder'[e]].other)
        <2>1. holder[e] # p /\ holder[e] \in Task /\ holder'[e] = holder[e]
            BY <1>1, <1>4
        <2>2. /\ task[holder[e]].pc = "pair"
              /\ e = Lower(task[holder[e]].at, task[holder[e]].other)
            BY <1>4, <2>1 DEF Locked
        <2> QED
            BY <1>1, <2>1, <2>2
    <1> QED
        BY <1>2, <1>3, <1>4 DEF Locked, Lower, Earlier

\* What two sections under both locks leave.
LEMMA PairStep ==
    ASSUME IInv, NEW p \in Task, task[p].pc = "pair", owed[p] = <<>>,
           NEW first \in Endpoint, NEW second \in Endpoint, first # second, NEW low, NEW high,
           low \in {first, second}, {low, high} = {first, second}, NEW a, NEW b, NEW next \in TaskState,
           Well(next), next.pc \in {"idle", "reserved"}, next.pc = "reserved" => next.at \in {first, second},
           Leaves(first, a, task[p], next), Leaves(second, b, task[p], next),
           ctl' = [ctl EXCEPT ![first] = TakeChanges(a), ![second] = TakeChanges(b)],
           owed' = [owed EXCEPT ![p] =
                      Effects(low, [ctl EXCEPT ![first] = a, ![second] = b][low].changes)
                      \o Effects(high, [ctl EXCEPT ![first] = a, ![second] = b][high].changes)],
           task' = [task EXCEPT ![p] = next], now' = now,
           holder' = [e \in Endpoint |-> IF holder[e] = p THEN None ELSE holder[e]]
    PROVE  IInv'
    <1> DEFINE left == [ctl EXCEPT ![first] = a, ![second] = b]
    <1>1. /\ ctl \in [Endpoint -> Ctl] /\ owed \in [Task -> Seq(Effect)] /\ Typed /\ Locked
          /\ \A e \in Endpoint : ctl[e] \in ControllerOf(e)
        BY DEF IInv, Typed
    <1>2. /\ left[first] = a /\ left[second] = b
          /\ \A e \in Endpoint \ {first, second} : left[e] = ctl[e]
        BY <1>1
    <1>3. /\ owed'[p] = Effects(low, left[low].changes) \o Effects(high, left[high].changes)
          /\ \A q \in Task \ {p} : owed'[q] = owed[q]
          /\ owed' = [owed EXCEPT ![p] = owed'[p]]
        BY <1>1
    <1> HIDE DEF left
    <1>4. /\ a \in ControllerOf(first) /\ b \in ControllerOf(second)
          /\ TakeChanges(a) \in ControllerOf(first) /\ TakeChanges(b) \in ControllerOf(second)
        <2>1. a \in ControllerOf(first) /\ b \in ControllerOf(second)
            BY DEF Leaves
        <2> QED
            BY <2>1, TakeChangesFacts
    <1>5. /\ ctl' \in [Endpoint -> Ctl]
          /\ ctl'[first] = TakeChanges(a) /\ ctl'[second] = TakeChanges(b)
          /\ \A e \in Endpoint \ {first, second} : ctl'[e] = ctl[e]
        <2>1. TakeChanges(a) \in Ctl /\ TakeChanges(b) \in Ctl
            BY <1>4 DEF Ctl
        <2> QED
            BY <1>1, <2>1
    <1>6. low \in Endpoint /\ high \in Endpoint
        OBVIOUS
    <1>7. \A e \in Endpoint : left[e].changes \in Changes
        <2> TAKE e \in Endpoint
        <2>1. left[e] \in ControllerOf(e)
            BY <1>1, <1>2, <1>4
        <2> QED
            BY <2>1 DEF ControllerOf
    <1>8. /\ owed'[p] \in Seq(Effect)
          /\ \A e \in {low, high} : Range(Effects(e, left[e].changes)) \subseteq Range(owed'[p])
        <2> DEFINE both == Effects(low, left[low].changes) \o Effects(high, left[high].changes)
        <2>1. owed'[p] = both
            BY <1>3
        <2>2. left[low].changes \in Changes /\ left[high].changes \in Changes
            BY <1>6, <1>7
        <2>3. /\ both \in Seq(Effect)
              /\ Range(Effects(low, left[low].changes)) \subseteq Range(both)
              /\ Range(Effects(high, left[high].changes)) \subseteq Range(both)
            BY <1>6, <2>2, EffectsOfBoth
        <2> HIDE DEF both
        <2> QED
            BY <2>1, <2>3
    <1>9. owed' \in [Task -> Seq(Effect)]
        BY <1>1, <1>3, <1>8
    <1>10. ASSUME NEW e \in {first, second}
           PROVE  /\ left[e].changes.dispatch => Owed(e, "dispatch")'
                  /\ left[e].changes.admission => Owed(e, "admission")'
        <2>1. /\ left[e].changes.admission =>
                    [at |-> e, kind |-> "admission"] \in Range(Effects(e, left[e].changes))
              /\ left[e].changes.dispatch =>
                    [at |-> e, kind |-> "dispatch"] \in Range(Effects(e, left[e].changes))
            BY <1>7, EffectsFacts
        <2>2. Range(Effects(e, left[e].changes)) \subseteq Range(owed'[p])
            BY <1>8
        <2> QED
            BY <2>1, <2>2, NowOwed
    <1>11. holder' \in [Endpoint -> Task \cup {None}] /\ Locked'
        BY <1>1, LocksReleased
    <1>12. ASSUME NEW e \in Endpoint
           PROVE  /\ Leaves(e, left[e], task[p], next) /\ ctl'[e] = TakeChanges(left[e])
                  /\ left[e].changes.dispatch => Owed(e, "dispatch")'
                  /\ left[e].changes.admission => Owed(e, "admission")'
        <2>1. CASE e \in {first, second}
            BY <1>2, <1>5, <1>10, <2>1
        <2>2. CASE e \notin {first, second}
            <3>1. left[e] = ctl[e] /\ ctl'[e] = ctl[e]
                BY <1>2, <1>5, <2>2
            <3>2. ~Holds(task[p], e) /\ ~Flies(task[p], e) /\ ~Holds(next, e) /\ ~Flies(next, e)
                BY <2>2 DEF Holds, Flies, Reserving
            <3>3. ~ctl[e].changes.dispatch /\ ~ctl[e].changes.admission
                BY DEF IInv, Typed
            <3> QED
                BY <3>1, <3>2, <3>3, Untouched
        <2> QED
            BY <2>1, <2>2
    <1>13. next.pc \notin Waiting \cup AsleepReady
        BY DEF Waiting, Asleep, AsleepReady
    <1> QED
        BY <1>3, <1>5, <1>9, <1>11, <1>12, <1>13, CallStep

LEMMA ReserveFromPairStep ==
    ASSUME IInv, NEW p \in Task, ReserveFromPair(p) PROVE IInv'
    <1> DEFINE first == task[p].at
               second == task[p].other
               low == Lower(first, second)
               high == Upper(first, second)
    <1>1. /\ task[p].pc = "pair" /\ owed[p] = <<>> /\ now' = now
          /\ holder' = [e \in Endpoint |-> IF holder[e] = p THEN None ELSE holder[e]]
        BY DEF ReserveFromPair, At
    <1>2. first \in Endpoint /\ second \in Endpoint /\ first # second
        BY <1>1 DEF IInv, Typed, Well
    <1>3. low \in {first, second} /\ {low, high} = {first, second}
        BY <1>2, LowerUpper
    <1> DEFINE Taken(pair) ==
                  LET left == [ctl EXCEPT ![first] = pair.first, ![second] = pair.second]
                  IN /\ ctl' = [ctl EXCEPT ![first] = TakeChanges(pair.first),
                                          ![second] = TakeChanges(pair.second)]
                     /\ owed' = [owed EXCEPT ![p] = Effects(low, left[low].changes)
                                                    \o Effects(high, left[high].changes)]
                     /\ task' = [task EXCEPT ![p] =
                                   CASE pair.choice = "First" -> Reserved(first, pair.first)
                                     [] pair.choice = "Second" -> Reserved(second, pair.second)
                                     [] pair.choice = "Neither" -> Idle]
    <1>4. PICK draws \in Draw \X Draw : Taken(ReservePair(ctl[first], ctl[second], draws, now))
        <2>1. \E pair \in {ReservePair(ctl[first], ctl[second], draws, now) :
                             draws \in Draws(ctl[first], now) \X Draws(ctl[second], now)} : Taken(pair)
            BY DEF ReserveFromPair
        <2>2. Draws(ctl[first], now) \X Draws(ctl[second], now) \subseteq Draw \X Draw
            BY DrawsType
        <2> HIDE DEF Taken
        <2> QED
            BY <2>1, <2>2
    <1> DEFINE pair == ReservePair(ctl[first], ctl[second], draws, now)
               one == Refresh(ctl[first], draws[1], now)
               two == Refresh(ctl[second], draws[2], now)
               a == pair.first
               b == pair.second
               next == CASE pair.choice = "First" -> Reserved(first, a)
                         [] pair.choice = "Second" -> Reserved(second, b)
                         [] pair.choice = "Neither" -> Idle
    <1>5. /\ draws[1] \in Draw /\ draws[2] \in Draw
          /\ task[p].pc \notin Reserving \cup {"active"}
        BY <1>1 DEF Reserving
    <1>6. \/ /\ CanReserve(one) /\ a = Reserve(one, now) /\ b = two /\ pair.choice = "First"
          \/ /\ CanReserve(two) /\ a = one /\ b = Reserve(two, now) /\ pair.choice = "Second"
          \/ /\ a = one /\ b = two /\ pair.choice = "Neither"
        <2>1. pair = Select(one, two, now)
            BY DEF ReservePair
        <2> HIDE DEF one, two
        <2>2. Select(one, two, now) \in
                 {[first |-> Reserve(one, now), second |-> two, choice |-> "First"],
                  [first |-> one, second |-> Reserve(two, now),
                   choice |-> IF CanReserve(two) THEN "Second" ELSE "Neither"]}
            BY DEF Select
        <2>3. CASE CanReserve(one) /\ (PredictedCompletion(one, now) <= PredictedCompletion(two, now)
                                        \/ ~CanReserve(two))
            <3>1. Select(one, two, now) =
                    [first |-> Reserve(one, now), second |-> two, choice |-> "First"]
                BY <2>3 DEF Select
            <3> QED
                BY <2>1, <2>3, <3>1
        <2>4. CASE ~(CanReserve(one) /\ (PredictedCompletion(one, now) <= PredictedCompletion(two, now)
                                          \/ ~CanReserve(two)))
            <3>1. Select(one, two, now) =
                    [first |-> one, second |-> Reserve(two, now),
                     choice |-> IF CanReserve(two) THEN "Second" ELSE "Neither"]
                BY <2>4 DEF Select
            <3>2. ~CanReserve(two) => Reserve(two, now) = two
                BY DEF Reserve
            <3> QED
                BY <2>1, <3>1, <3>2
        <2> QED
            BY <2>3, <2>4
    <1>7. /\ Leaves(first, a, task[p], next) /\ Leaves(second, b, task[p], next)
          /\ next \in TaskState /\ Well(next) /\ next.pc \in {"idle", "reserved"}
          /\ next.pc = "reserved" => next.at \in {first, second}
        <2>1. CASE CanReserve(one) /\ a = Reserve(one, now) /\ b = two /\ pair.choice = "First"
            <3>1. next = Reserved(first, a)
                BY <2>1
            <3>2. /\ Leaves(first, a, task[p], next)
                  /\ next \in TaskState /\ Well(next) /\ next.pc = "reserved" /\ next.at = first
                BY <1>2, <1>5, <2>1, <3>1, ReserveLeaves
            <3> HIDE DEF next
            <3>3. ~Holds(next, second) /\ ~Flies(next, second)
                BY <1>2, <3>2 DEF Holds, Flies
            <3>4. Leaves(second, two, task[p], next)
                BY <1>2, <1>5, <3>3, LookLeaves
            <3> QED
                BY <2>1, <3>2, <3>4
        <2>2. CASE CanReserve(two) /\ a = one /\ b = Reserve(two, now) /\ pair.choice = "Second"
            <3>1. next = Reserved(second, b)
                BY <2>2
            <3>2. /\ Leaves(second, b, task[p], next)
                  /\ next \in TaskState /\ Well(next) /\ next.pc = "reserved" /\ next.at = second
                BY <1>2, <1>5, <2>2, <3>1, ReserveLeaves
            <3> HIDE DEF next
            <3>3. ~Holds(next, first) /\ ~Flies(next, first)
                BY <1>2, <3>2 DEF Holds, Flies
            <3>4. Leaves(first, one, task[p], next)
                BY <1>2, <1>5, <3>3, LookLeaves
            <3> QED
                BY <2>2, <3>2, <3>4
        <2>3. CASE a = one /\ b = two /\ pair.choice = "Neither"
            <3>1. next = Idle
                BY <2>3
            <3> HIDE DEF next
            <3>2. /\ ~Holds(next, first) /\ ~Flies(next, first)
                  /\ ~Holds(next, second) /\ ~Flies(next, second)
                BY <1>2, <3>1, IdleFacts
            <3>3. Leaves(first, one, task[p], next) /\ Leaves(second, two, task[p], next)
                BY <1>2, <1>5, <3>2, LookLeaves
            <3> QED
                BY <2>3, <3>1, <3>3, IdleFacts
        <2> QED
            BY <1>6, <2>1, <2>2, <2>3
    <1>8. /\ ctl' = [ctl EXCEPT ![first] = TakeChanges(a), ![second] = TakeChanges(b)]
          /\ owed' = [owed EXCEPT ![p] =
                        Effects(low, [ctl EXCEPT ![first] = a, ![second] = b][low].changes)
                        \o Effects(high, [ctl EXCEPT ![first] = a, ![second] = b][high].changes)]
          /\ task' = [task EXCEPT ![p] = next]
        BY <1>4
    <1> HIDE DEF pair, a, b, next, low, high
    <1> QED
        BY <1>1, <1>2, <1>3, <1>7, <1>8, PairStep

\* One notify_waiters call: whoever relied on it is told.
LEMMA NotifyStep == ASSUME IInv, NEW p \in Task, Notify(p) PROVE IInv'
    <1> DEFINE told == Head(owed[p])
    <1>1. /\ owed[p] # <<>> /\ UNCHANGED <<ctl, now, holder>>
          /\ task' = [q \in Task |-> IF Registered(q, told) THEN [task[q] EXCEPT !.woken = TRUE]
                                     ELSE task[q]]
          /\ owed' = [owed EXCEPT ![p] = Tail(owed[p])]
        BY DEF Notify
    <1>2. /\ task \in [Task -> TaskState] /\ owed \in [Task -> Seq(Effect)]
        BY DEF IInv, Typed
    <1>3. ASSUME NEW q \in Task
          PROVE  /\ task'[q] \in TaskState /\ task'[q].pc = task[q].pc /\ task'[q].at = task[q].at
                 /\ task'[q].other = task[q].other /\ task'[q].token = task[q].token
                 /\ task'[q].deadline = task[q].deadline
                 /\ Registered(q, told) => task'[q].woken
                 /\ ~Registered(q, told) => task'[q] = task[q]
                 /\ task[q].woken => task'[q].woken
        <2>1. task[q] \in TaskState
            BY <1>2
        <2>2. task'[q] = IF Registered(q, told) THEN [task[q] EXCEPT !.woken = TRUE] ELSE task[q]
            BY <1>1
        <2> QED
            BY <2>1, <2>2 DEF TaskState
    <1>4. task' \in [Task -> TaskState]
        BY <1>1, <1>3
    <1>5. /\ told \in Effect /\ Tail(owed[p]) \in Seq(Effect)
          /\ \A x \in Range(owed[p]) : x = told \/ x \in Range(Tail(owed[p]))
        BY <1>1, <1>2, RangeOfTail
    <1> HIDE DEF told
    <1>6. /\ owed' \in [Task -> Seq(Effect)] /\ owed'[p] = Tail(owed[p])
          /\ \A q \in Task \ {p} : owed'[q] = owed[q]
        BY <1>1, <1>2, <1>5
    <1>7. Typed'
        <2>1. \A q \in Task : Well(task'[q])
            BY <1>3 DEF IInv, Typed, Well
        <2>2. \A q \in Task : task'[q].pc \in Waiting => owed'[q] = <<>>
            BY <1>1, <1>3, <1>6 DEF IInv, Typed
        <2> QED
            BY <1>1, <1>4, <1>6, <2>1, <2>2 DEF IInv, Typed, Well
    <1>8. Locked'
        <2>1. \A q \in Task : task'[q].pc = "pair" => holder[Lower(task'[q].at, task'[q].other)] = q
            BY <1>3 DEF IInv, Locked
        <2>2. ASSUME NEW e \in Endpoint, holder[e] # None
              PROVE  /\ task'[holder[e]].pc = "pair"
                     /\ e = Lower(task'[holder[e]].at, task'[holder[e]].other)
            <3>1. holder[e] \in Task /\ task[holder[e]].pc = "pair"
                  /\ e = Lower(task[holder[e]].at, task[holder[e]].other)
                BY <2>2 DEF IInv, Typed, Locked
            <3> QED
                BY <1>3, <3>1
        <2> QED
            BY <1>1, <2>1, <2>2 DEF Locked, Lower, Earlier
    <1>9. Counted'
        <2>1. /\ \A e \in Endpoint : Owners(e, Reserving)' = Owners(e, Reserving)
              /\ \A e \in Endpoint : Owners(e, {"active"})' = Owners(e, {"active"})
            BY <1>3 DEF Owners
        <2>2. IdHeld' = IdHeld
            BY <1>3 DEF IdHeld
        <2> QED
            BY <1>1, <2>1, <2>2 DEF IInv, Counted
    <1>10. ASSUME NEW q \in Task, NEW e, NEW kind, task[q].at = e, ~task'[q].woken,
                  ~Owed(e, kind)',
                  task[q].pc \in IF kind = "dispatch" THEN Asleep ELSE AsleepReady
           PROVE  ~task[q].woken /\ ~Owed(e, kind)
        <2>1. ~task[q].woken /\ ~Registered(q, told)
            BY <1>3, <1>10
        <2>2. told # [at |-> e, kind |-> kind]
            BY <1>10, <2>1 DEF Registered, Asleep, AsleepReady
        <2>3. ASSUME NEW r \in Task, [at |-> e, kind |-> kind] \in Range(owed[r]) PROVE FALSE
            <3>1. [at |-> e, kind |-> kind] \in Range(owed'[r])
                BY <1>5, <1>6, <2>2, <2>3
            <3> QED
                BY <1>10, <3>1 DEF Owed
        <2> QED
            BY <2>1, <2>3 DEF Owed
    <1>11. ASSUME NEW q \in Task, NEW e \in Endpoint, task'[q].at = e
           PROVE  /\ Attended(ctl[e], now, task'[q], Owed(e, "dispatch")')
                  /\ Heeded(ctl[e], task'[q], Owed(e, "admission")')
        <2>1. /\ Attended(ctl[e], now, task[q], Owed(e, "dispatch"))
              /\ Heeded(ctl[e], task[q], Owed(e, "admission")) /\ task[q].at = e
            BY <1>3, <1>11 DEF IInv, AllMinded
        <2> DEFINE after == Owed(e, "dispatch")'
        <2>2. task[q].pc \in Asleep /\ ~task'[q].woken /\ ~after
              => ~task[q].woken /\ ~Owed(e, "dispatch")
            BY <1>10, <2>1
        <2>3. task[q].pc \in AsleepReady /\ ~task'[q].woken /\ ~Owed(e, "admission")'
              => ~task[q].woken /\ ~Owed(e, "admission")
            BY <1>10, <2>1
        <2>4. Heeded(ctl[e], task'[q], Owed(e, "admission")')
            BY <1>3, <2>1, <2>3 DEF Heeded
        <2> HIDE DEF after
        <2>5. Attended(ctl[e], now, task'[q], after)
            BY <1>3, <2>1, <2>2 DEF Attended, Waits
        <2> QED
            BY <2>4, <2>5 DEF after
    <1>12. AllMinded'
        BY <1>1, <1>11 DEF AllMinded, Attended, Heeded
    <1> QED
        BY <1>7, <1>8, <1>9, <1>12 DEF IInv

LEMMA TickStep == ASSUME IInv, Tick PROVE IInv'
    <1>1. /\ UNCHANGED <<ctl, holder, task, owed>> /\ now' = now + 1 /\ now' \in Instant
          /\ now \in Instant
        BY TokioAssumption, ConfigAssumption DEF Tick, IInv, Typed, Instant
    <1>2. Typed'
        BY <1>1 DEF IInv, Typed, Well
    <1>3. Locked'
        BY <1>1 DEF IInv, Locked, Lower, Earlier
    <1>4. Counted'
        BY <1>1 DEF IInv, Counted, Owners, IdHeld
    <1>5. ASSUME NEW q \in Task, NEW e \in Endpoint, task[q].at = e
          PROVE  /\ Attended(ctl[e], now', task[q], Owed(e, "dispatch"))
                 /\ Heeded(ctl[e], task[q], Owed(e, "admission"))
        <2>1. /\ Attended(ctl[e], now, task[q], Owed(e, "dispatch"))
              /\ Heeded(ctl[e], task[q], Owed(e, "admission"))
              /\ task[q].deadline \in Instant \cup {None} /\ ctl[e] \in ControllerOf(e)
            BY <1>5 DEF IInv, AllMinded, Typed, TaskState
        <2>2. now <= now'
            BY <1>1 DEF Instant
        <2> DEFINE quiet == ~task[q].woken /\ ~Owed(e, "dispatch")
                   i == task[q].token.id
                   deadline == task[q].deadline
        <2>3. task[q].pc \in Asleep => Waits(ctl[e], now, i, deadline, quiet)
            BY <2>1 DEF Attended
        <2>4. quiet \in BOOLEAN
            OBVIOUS
        <2>5. /\ ctl[e] \in ControllerOf(e) /\ deadline \in Instant \cup {None}
              /\ now \in Instant /\ now' \in Instant
            BY <1>1, <2>1
        <2> HIDE DEF quiet, i, deadline
        <2>6. ASSUME task[q].pc \in Asleep PROVE Waits(ctl[e], now', i, deadline, quiet)
            BY <2>2, <2>3, <2>4, <2>5, <2>6, WaitsOn
        <2>7. Attended(ctl[e], now', task[q], Owed(e, "dispatch"))
            BY <2>6 DEF Attended, quiet, i, deadline
        <2> QED
            BY <2>1, <2>7
    <1>6. \A e, kind : Owed(e, kind)' = Owed(e, kind)
        BY <1>1 DEF Owed
    <1>7. AllMinded'
        BY <1>1, <1>5, <1>6 DEF AllMinded, Attended, Heeded
    <1> QED
        BY <1>2, <1>3, <1>4, <1>7 DEF IInv
-------------------------------------------------------------------------------
LEMMA InitInvariant == Init => IInv
    <1> SUFFICES ASSUME Init PROVE IInv
        OBVIOUS
    <1>1. 0 \in Instant
        BY ConfigAssumption DEF Instant
    <1>2. ASSUME NEW e \in Endpoint
          PROVE  /\ ctl[e] \in ControllerOf(e) /\ Queued(ctl[e]) = 0 /\ ctl[e].inflight = 0
                 /\ Paced(ctl[e]) /\ ~ctl[e].changes.dispatch /\ ~ctl[e].changes.admission
                 /\ Ordered(ctl[e]) /\ Ids(ctl[e]) = {}
        <2>1. ctl[e] = NewController(e, 0)
            BY DEF Init
        <2>2. /\ ctl[e] \in ControllerOf(e) /\ Queued(ctl[e]) = 0 /\ ctl[e].inflight = 0
              /\ Paced(ctl[e])
            BY <1>1, <2>1, NewControllerFacts
        <2>3. ~ctl[e].changes.dispatch /\ ~ctl[e].changes.admission
            BY <2>1 DEF NewController, NoChanges
        <2> QED
            BY <2>2, <2>3 DEF Ordered, Ids
    <1>3. /\ task \in [Task -> TaskState] /\ \A p \in Task : task[p] = Idle
        BY IdleFacts DEF Init
    <1>4. /\ ctl \in [Endpoint -> Ctl] /\ holder \in [Endpoint -> Task \cup {None}]
          /\ owed \in [Task -> Seq(Effect)]
        <2>1. <<>> \in Seq(Effect)
            OBVIOUS
        <2> QED
            BY <1>2, <2>1 DEF Init, Ctl
    <1>5. Typed
        <2>1. \A p \in Task : Well(task[p]) /\ owed[p] = <<>>
            BY <1>3, IdleFacts DEF Init
        <2> QED
            BY <1>1, <1>2, <1>3, <1>4, <2>1 DEF Init, Typed
    <1>6. Locked
        BY <1>3, IdleFacts DEF Locked, Init
    <1>7. Counted
        <2> SUFFICES ASSUME NEW e \in Endpoint
                     PROVE  Matches(ctl[e], Owners(e, Reserving), IdHeld, Owners(e, {"active"}))
            BY DEF Counted
        <2>1. Owners(e, Reserving) = {} /\ Owners(e, {"active"}) = {}
            BY <1>3, IdleFacts DEF Owners, Reserving
        <2> QED
            BY <1>2, <2>1, FS_EmptySet DEF Matches
    <1>8. AllMinded
        BY <1>3, IdleFacts DEF AllMinded, Attended, Heeded, Asleep, AsleepReady
    <1> QED
        BY <1>5, <1>6, <1>7, <1>8 DEF IInv

LEMMA NextInvariant == IInv /\ [Next]_vars => IInv'
    <1> SUFFICES ASSUME IInv, [Next]_vars PROVE IInv'
        OBVIOUS
    <1>1. CASE UNCHANGED vars
        <2>1. UNCHANGED <<ctl, now, holder, task, owed>>
            BY <1>1 DEF vars
        <2>2. Typed' /\ Locked' /\ Counted'
            BY <2>1 DEF IInv, Typed, Well, Locked, Lower, Earlier, Counted, Owners, IdHeld
        <2>3. AllMinded'
            BY <2>1 DEF IInv, AllMinded, Attended, Heeded, Owed
        <2> QED
            BY <2>2, <2>3 DEF IInv
    <1>2. CASE Next
        BY <1>2, TryReserveStep, LockPairStep, ReserveFromPairStep, RegisterStep, TryDispatchStep,
           SuspendStep, DropReservationStep, FinishRequestStep, ReadLoadStep, AwaitCapacityStep,
           LookForCapacityStep, SuspendReadyStep, LookAgainStep, DropReadyStep, NotifyStep,
           TickStep DEF Next
    <1> QED
        BY <1>1, <1>2

\* The inductive invariant holds in every state of every behaviour of the
\* adapter, for any number of tasks and endpoints.
THEOREM Invariance == Spec => []IInv
    <1> QED
        BY InitInvariant, NextInvariant, PTL DEF Spec

\* The controllers, the locks, the guards and the wakeups keep their types.
THEOREM TypeCorrect == Spec => []TypeOK
    <1>1. IInv => TypeOK
        BY DEF IInv, Typed, TypeOK, TaskState
    <1> QED
        BY <1>1, Invariance, PTL

\* However futures are polled, dropped and finished, each controller counts what
\* the guards hold of it: nothing leaks and a live reservation is never cancelled.
THEOREM GuardsMatch == Spec => []GuardsMatchControllers
    <1>1. ASSUME IInv PROVE GuardsMatchControllers
        <2> SUFFICES ASSUME NEW e \in Endpoint
                     PROVE  /\ Ids(ctl[e]) = {task[p].token.id : p \in Owners(e, Reserving)}
                            /\ Queued(ctl[e]) = Cardinality(Owners(e, Reserving))
                            /\ ctl[e].inflight = Cardinality(Owners(e, {"active"}))
                            /\ \A p \in Owners(e, Reserving \cup {"active"}) : Owns(ctl[e], task[p].token)
            BY DEF GuardsMatchControllers
        <2>1. Matches(ctl[e], Owners(e, Reserving), IdHeld, Owners(e, {"active"}))
            BY <1>1 DEF IInv, Counted
        <2>2. \A p \in Owners(e, Reserving) : IdHeld[p] = task[p].token.id
            BY DEF IdHeld, Owners
        <2>3. Ids(ctl[e]) = {task[p].token.id : p \in Owners(e, Reserving)}
            BY <2>1, <2>2 DEF Matches
        <2>4. \A p \in Owners(e, Reserving \cup {"active"}) : Owns(ctl[e], task[p].token)
            BY <1>1 DEF Owners, IInv, Typed, Well, Owns, ControllerOf
        <2> QED
            BY <2>1, <2>3, <2>4 DEF Matches
    <1> QED
        BY <1>1, Invariance, PTL

\* No task sleeps past the instant at which it could go, although waiters drop
\* the wakeups they caused and the others deliver theirs late.
THEOREM NoWakeupIsLost == Spec => []NoLostWakeup
    <1>1. ASSUME IInv PROVE NoLostWakeup
        <2> SUFFICES ASSUME NEW p \in Task, ~task[p].woken
                     PROVE  LET e == task[p].at IN
                            /\ task[p].pc = "parked" =>
                                 \/ ~HeadIs(ctl[e], task[p].token.id)
                                 \/ InflightFull(ctl[e])
                                 \/ Owed(e, "dispatch")
                            /\ task[p].pc = "timed" =>
                                 \/ task[p].deadline <= Later(now, HeadDue(ctl[e]))
                                 \/ Owed(e, "dispatch")
                            /\ task[p].pc = "ready_wait" => ~MaySchedule(ctl[e]) \/ Owed(e, "admission")
            BY DEF NoLostWakeup
        <2>1. CASE task[p].pc \in {"parked", "timed", "ready_wait"}
            <3>1. Well(task[p]) /\ task[p].at \in Endpoint
                BY <1>1, <2>1 DEF IInv, Typed, Well
            <3>2. /\ Attended(ctl[task[p].at], now, task[p], Owed(task[p].at, "dispatch"))
                  /\ Heeded(ctl[task[p].at], task[p], Owed(task[p].at, "admission"))
                BY <1>1, <3>1 DEF IInv, AllMinded
            <3> QED
                BY <2>1, <3>1, <3>2 DEF Attended, Heeded, Waits, Asleep, AsleepReady, Well
        <2>2. CASE task[p].pc \notin {"parked", "timed", "ready_wait"}
            BY <2>2
        <2> QED
            BY <2>1, <2>2
    <1> QED
        BY <1>1, Invariance, PTL

\* Pairs take their locks upwards, so no two of them wait for one another.
THEOREM LocksNeverCross == Spec => []NoLockCycle
    <1>1. ASSUME IInv, NEW p \in Task, NEW q \in Task, p # q, task[p].pc = "pair",
                 holder[Wanted(p)] = q
          PROVE  /\ Lower(task[q].at, task[q].other) \in Int /\ Lower(task[p].at, task[p].other) \in Int
                 /\ Lower(task[p].at, task[p].other) < Lower(task[q].at, task[q].other)
        <2> DEFINE low == Lower(task[p].at, task[p].other)
        <2>1. task[p].at \in Endpoint /\ task[p].other \in Endpoint /\ task[p].other # task[p].at
            BY <1>1 DEF IInv, Typed, Well
        <2>2. /\ low \in Endpoint /\ low < Upper(task[p].at, task[p].other)
              /\ {low, Upper(task[p].at, task[p].other)} = {task[p].at, task[p].other}
            BY <2>1, LowerUpper
        <2>3. holder[low] = p
            BY <1>1 DEF IInv, Locked
        <2>4. Wanted(p) \in {task[p].at, task[p].other}
            BY DEF Wanted
        <2>5. Wanted(p) = Upper(task[p].at, task[p].other) /\ Wanted(p) \in Endpoint
            BY <1>1, <2>1, <2>2, <2>3, <2>4
        <2>6. Wanted(p) = Lower(task[q].at, task[q].other)
            BY <1>1, <2>5, TokioAssumption DEF IInv, Locked
        <2>7. Lower(task[q].at, task[q].other) \in Endpoint
            BY <2>5, <2>6
        <2>8. low < Lower(task[q].at, task[q].other)
            BY <2>2, <2>5, <2>6
        <2> HIDE DEF low
        <2>9. Endpoint \subseteq Int
            BY TokioAssumption
        <2>10. low \in Endpoint
            BY <2>2
        <2>11. low \in Int /\ Lower(task[q].at, task[q].other) \in Int
            BY <2>7, <2>9, <2>10
        <2> QED
            BY <2>8, <2>11 DEF low
    <1>2. IInv => NoLockCycle
        BY <1>1 DEF NoLockCycle
    <1> QED
        BY <1>2, Invariance, PTL
-------------------------------------------------------------------------------
(* The choice of a pair.                                                       *)

\* Taking the changes leaves room and cost as they are.
LEMMA TakenChangesCost ==
    ASSUME NEW e, NEW c \in ControllerOf(e), NEW at
    PROVE  /\ CanReserve(TakeChanges(c)) = CanReserve(c)
           /\ PredictedCompletion(TakeChanges(c), at) = PredictedCompletion(c, at)
           /\ TakeChanges(c).pending = c.pending /\ TakeChanges(c).latency = c.latency
    <1> DEFINE d == TakeChanges(c)
    <1>1. /\ d.pending = c.pending /\ d.next_id = c.next_id /\ d.pacer = c.pacer
          /\ d.latency = c.latency
        BY DEF TakeChanges, ControllerOf
    <1> HIDE DEF d
    <1>2. Queued(d) = Queued(c)
        BY <1>1 DEF Queued
    <1>3. CanReserve(d) = CanReserve(c)
        BY <1>1, <1>2, Zenon DEF CanReserve, MaySchedule
    <1>4. NextVirtualSlot(d, at) = NextVirtualSlot(c, at)
        BY <1>1, <1>2, Zenon DEF NextVirtualSlot
    <1>5. PredictedCompletion(d, at) = PredictedCompletion(c, at)
        BY <1>1, <1>4, Zenon DEF PredictedCompletion
    <1> QED
        BY <1>1, <1>3, <1>5 DEF d

\* The slot a reservation got is the one its cost was predicted from.
LEMMA ReservedCost ==
    ASSUME NEW e, NEW c \in ControllerOf(e), CanReserve(c), NEW at,
           NEW d, d = TakeChanges(Reserve(c, at))
    PROVE  SaturatingAdd(Last(d.pending).scheduled_at, ExpectedOf(d.latency))
             = PredictedCompletion(c, at)
    <1> DEFINE last == [id |-> c.next_id, scheduled_at |-> NextVirtualSlot(c, at),
                        was_paced |-> FALSE]
    <1>1. c.pending \in Seq(Pending)
        BY DEF ControllerOf
    <1>2. Reserve(c, at) = [c EXCEPT !.next_id = c.next_id + 1,
                                     !.pending = Append(c.pending, last)]
        BY DEF Reserve
    <1>3. last.scheduled_at = NextVirtualSlot(c, at)
        OBVIOUS
    <1> HIDE DEF last
    <1>4. d.pending = Append(c.pending, last) /\ d.latency = c.latency
        BY <1>2 DEF TakeChanges, ControllerOf
    <1>5. Last(d.pending) = last
        BY <1>1, <1>4 DEF Last
    <1> QED
        BY <1>3, <1>4, <1>5 DEF PredictedCompletion

\* The cost of an endpoint is an instant.
LEMMA CostIsInstant ==
    ASSUME NEW e, NEW c \in ControllerOf(e), NEW at \in Instant
    PROVE  PredictedCompletion(c, at) \in Int
    <1> DEFINE after == IF Queued(c) = 0 THEN NextAt(c.pacer, at)
                        ELSE SaturatingAdd(c.pending[Queued(c)].scheduled_at, c.pacer.interval)
    <1>1. c.pacer \in Pacer /\ c.latency \in Estimator /\ c.pending \in Seq(Pending)
        BY DEF ControllerOf
    <1>2. after \in Instant
        <2>1. CASE Queued(c) = 0
            BY <1>1, <2>1, LaterInstant DEF NextAt, Pacer
        <2>2. CASE Queued(c) # 0
            <3>1. c.pending[Queued(c)] \in Pending
                BY <1>1, <2>2 DEF Queued
            <3>2. c.pending[Queued(c)].scheduled_at \in Instant /\ c.pacer.interval \in Nat
                BY <1>1, <3>1 DEF Pending, Pacer
            <3> QED
                BY <2>2, <3>2, SaturatingAddFacts
        <2> QED
            BY <2>1, <2>2
    <1> HIDE DEF after
    <1>3. Later(after, at) \in Instant
        BY <1>2, LaterInstant
    <1>4. NextVirtualSlot(c, at) = Later(after, at)
        BY DEF NextVirtualSlot, after
    <1>5. ExpectedOf(c.latency) \in Nat
        BY <1>1, ExpectedIsPositive
    <1>6. PredictedCompletion(c, at) \in Instant
        BY <1>3, <1>4, <1>5, SaturatingAddFacts DEF PredictedCompletion
    <1> QED
        BY <1>6 DEF Instant

\* What a pair leaves: nobody had room, or the one chosen costs no more than the
\* other, if that had room.
LEMMA ChoiceIsCheaper ==
    ASSUME IInv, NEW p \in Task, ReserveFromPair(p),
           NEW first, first = task[p].at, NEW second, second = task[p].other
    PROVE  \/ /\ task'[p].pc = "idle"
              /\ ~CanReserve(ctl'[first]) /\ ~CanReserve(ctl'[second])
           \/ /\ task'[p].pc = "reserved" /\ task'[p].at = first
              /\ CanReserve(ctl'[second]) => Cost(p, first) <= Cost(p, second)
           \/ /\ task'[p].pc = "reserved" /\ task'[p].at = second
              /\ CanReserve(ctl'[first]) => Cost(p, second) < Cost(p, first)
    <1>1. task[p].pc = "pair"
        BY DEF ReserveFromPair, At
    <1>2. /\ first \in Endpoint /\ second \in Endpoint /\ first # second
          /\ ctl \in [Endpoint -> Ctl] /\ now \in Instant /\ task \in [Task -> TaskState]
        BY <1>1 DEF IInv, Typed, Well
    <1> DEFINE Taken(pair) ==
                  LET left == [ctl EXCEPT ![task[p].at] = pair.first,
                                          ![task[p].other] = pair.second]
                  IN /\ ctl' = [ctl EXCEPT ![task[p].at] = TakeChanges(pair.first),
                                          ![task[p].other] = TakeChanges(pair.second)]
                     /\ owed' = [owed EXCEPT ![p] =
                            Effects(Lower(task[p].at, task[p].other),
                                    left[Lower(task[p].at, task[p].other)].changes)
                            \o Effects(Upper(task[p].at, task[p].other),
                                       left[Upper(task[p].at, task[p].other)].changes)]
                     /\ task' = [task EXCEPT ![p] =
                                   CASE pair.choice = "First" -> Reserved(task[p].at, pair.first)
                                     [] pair.choice = "Second" -> Reserved(task[p].other, pair.second)
                                     [] pair.choice = "Neither" -> Idle]
    <1>0. PICK draws \in Draw \X Draw :
             Taken(ReservePair(ctl[task[p].at], ctl[task[p].other], draws, now))
        <2>1. \E pair \in {ReservePair(ctl[task[p].at], ctl[task[p].other], draws, now) :
                             draws \in Draws(ctl[task[p].at], now) \X Draws(ctl[task[p].other], now)} :
                 Taken(pair)
            BY DEF ReserveFromPair
        <2>2. Draws(ctl[task[p].at], now) \X Draws(ctl[task[p].other], now) \subseteq Draw \X Draw
            BY DrawsType
        <2> HIDE DEF Taken
        <2> QED
            BY <2>1, <2>2
    <1> DEFINE pair == ReservePair(ctl[first], ctl[second], draws, now)
    <1>3. /\ ctl' = [ctl EXCEPT ![first] = TakeChanges(pair.first),
                                ![second] = TakeChanges(pair.second)]
          /\ task' = [task EXCEPT ![p] =
                        CASE pair.choice = "First" -> Reserved(first, pair.first)
                          [] pair.choice = "Second" -> Reserved(second, pair.second)
                          [] pair.choice = "Neither" -> Idle]
        BY <1>0
    <1> HIDE DEF Taken
    <1> DEFINE one == Refresh(ctl[first], draws[1], now)
               two == Refresh(ctl[second], draws[2], now)
               cheaper == PredictedCompletion(one, now) <= PredictedCompletion(two, now)
    <1>4. one \in ControllerOf(first) /\ two \in ControllerOf(second)
        BY <1>2, RefreshedFacts
    <1>5. pair = Select(one, two, now)
        BY DEF ReservePair
    <1> HIDE DEF one, two, pair
    <1>6. now' = now /\ PredictedCompletion(one, now) \in Int /\ PredictedCompletion(two, now) \in Int
        BY <1>2, <1>4, CostIsInstant DEF ReserveFromPair
    <1>7. \A e, d : (Reserved(e, d).pc = "reserved" /\ Reserved(e, d).at = e)
        BY DEF Reserved, Idle
    <1>8. CASE CanReserve(one) /\ (cheaper \/ ~CanReserve(two))
        <2>1. Select(one, two, now) =
                [first |-> Reserve(one, now), second |-> two, choice |-> "First"]
            BY <1>8 DEF Select
        <2>2. /\ ctl' = [ctl EXCEPT ![first] = TakeChanges(Reserve(one, now)),
                                    ![second] = TakeChanges(two)]
              /\ task' = [task EXCEPT ![p] = Reserved(first, Reserve(one, now))]
            BY <1>3, <1>5, <2>1
        <2>3. /\ ctl'[first] = TakeChanges(Reserve(one, now)) /\ ctl'[second] = TakeChanges(two)
              /\ task'[p] = Reserved(first, Reserve(one, now))
            BY <1>2, <2>2
        <2>4. task'[p].pc = "reserved" /\ task'[p].at = first
            BY <1>7, <2>3
        <2>5. Cost(p, first) = PredictedCompletion(one, now)
            BY <1>4, <1>8, <2>3, <2>4, ReservedCost DEF Cost
        <2>6. CanReserve(ctl'[second]) = CanReserve(two)
            BY <1>4, <2>3, TakenChangesCost
        <2>7. Cost(p, second) = PredictedCompletion(two, now)
            <3>1. Cost(p, second) = PredictedCompletion(ctl'[second], now)
                BY <1>2, <2>4 DEF Cost
            <3> QED
                BY <1>4, <2>3, <3>1, TakenChangesCost
        <2> QED
            BY <1>8, <2>4, <2>5, <2>6, <2>7
    <1>9. CASE ~(CanReserve(one) /\ (cheaper \/ ~CanReserve(two))) /\ CanReserve(two)
        <2>1. Select(one, two, now) =
                [first |-> one, second |-> Reserve(two, now), choice |-> "Second"]
            BY <1>9 DEF Select
        <2>2. /\ ctl' = [ctl EXCEPT ![first] = TakeChanges(one),
                                    ![second] = TakeChanges(Reserve(two, now))]
              /\ task' = [task EXCEPT ![p] = Reserved(second, Reserve(two, now))]
            BY <1>3, <1>5, <2>1
        <2>3. /\ ctl'[first] = TakeChanges(one) /\ ctl'[second] = TakeChanges(Reserve(two, now))
              /\ task'[p] = Reserved(second, Reserve(two, now))
            BY <1>2, <2>2
        <2>4. task'[p].pc = "reserved" /\ task'[p].at = second
            BY <1>7, <2>3
        <2>5. Cost(p, second) = PredictedCompletion(two, now)
            BY <1>4, <1>9, <2>3, <2>4, ReservedCost DEF Cost
        <2>6. CanReserve(ctl'[first]) = CanReserve(one)
            BY <1>4, <2>3, TakenChangesCost
        <2>7. Cost(p, first) = PredictedCompletion(one, now)
            <3>1. Cost(p, first) = PredictedCompletion(ctl'[first], now)
                BY <1>2, <2>4 DEF Cost
            <3> QED
                BY <1>4, <2>3, <3>1, TakenChangesCost
        <2> QED
            BY <1>6, <1>9, <2>4, <2>5, <2>6, <2>7
    <1>10. CASE ~CanReserve(one) /\ ~CanReserve(two)
        <2>1. Select(one, two, now) = [first |-> one, second |-> two, choice |-> "Neither"]
            BY <1>10 DEF Select, Reserve
        <2>2. /\ ctl' = [ctl EXCEPT ![first] = TakeChanges(one), ![second] = TakeChanges(two)]
              /\ task' = [task EXCEPT ![p] = Idle]
            BY <1>3, <1>5, <2>1
        <2>3. /\ ctl'[first] = TakeChanges(one) /\ ctl'[second] = TakeChanges(two)
              /\ task'[p].pc = "idle"
            BY <1>2, <2>2 DEF Idle
        <2>4. CanReserve(ctl'[first]) = CanReserve(one) /\ CanReserve(ctl'[second]) = CanReserve(two)
            BY <1>4, <2>3, TakenChangesCost
        <2> QED
            BY <1>10, <2>3, <2>4
    <1> QED
        BY <1>8, <1>9, <1>10

\* Nobody but the task itself ends its pair.
LEMMA PairStays ==
    ASSUME IInv, [Next]_vars, NEW p \in Task, task[p].pc = "pair", task'[p].pc # "pair"
    PROVE  ReserveFromPair(p)
    <1>1. task \in [Task -> TaskState]
        BY DEF IInv, Typed
    <1>2. ASSUME NEW q \in Task, NEW next, task' = [task EXCEPT ![q] = next], q # p
          PROVE  FALSE
        BY <1>1, <1>2
    <1>3. ASSUME NEW q \in Task, NEW e \in Endpoint, TryReserve(q, e) PROVE FALSE
        <2>1. task[q].pc = "idle"
            BY <1>3 DEF TryReserve, At
        <2>2. \E next : task' = [task EXCEPT ![q] = next]
            BY <1>3 DEF TryReserve, WithController
        <2> QED
            BY <1>2, <2>1, <2>2
    <1>4. ASSUME NEW q \in Task, NEW a \in Endpoint, NEW b \in Endpoint, LockPair(q, a, b)
          PROVE  FALSE
        BY <1>2, <1>4 DEF LockPair, At
    <1>5. ASSUME NEW q \in Task, ReserveFromPair(q) PROVE q = p
        <2>1. \E next : task' = [task EXCEPT ![q] = next]
            BY <1>5 DEF ReserveFromPair
        <2> QED
            BY <1>2, <2>1
    <1>6. ASSUME NEW q \in Task, Register(q) PROVE FALSE
        <2>1. task[q].pc \in {"reserved", "timed", "parked"}
            BY <1>6 DEF Register, Awake, At
        <2>2. \E next : task' = [task EXCEPT ![q] = next]
            BY <1>6 DEF Register
        <2> QED
            BY <1>2, <2>1, <2>2
    <1>7. ASSUME NEW q \in Task, TryDispatch(q) PROVE FALSE
        <2>1. task[q].pc = "check"
            BY <1>7 DEF TryDispatch, At
        <2>2. \E next : task' = [task EXCEPT ![q] = next]
            BY <1>7 DEF TryDispatch
        <2> QED
            BY <1>2, <2>1, <2>2
    <1>8. ASSUME NEW q \in Task, Suspend(q) PROVE FALSE
        BY <1>2, <1>8 DEF Suspend
    <1>9. ASSUME NEW q \in Task, DropReservation(q) PROVE FALSE
        BY <1>2, <1>9 DEF DropReservation, WithController, At
    <1>10. ASSUME NEW q \in Task, NEW completion \in Completion, FinishRequest(q, completion)
           PROVE  FALSE
        BY <1>2, <1>10 DEF FinishRequest, WithController, At
    <1>11. ASSUME NEW q \in Task, NEW e \in Endpoint, ReadLoad(q, e) PROVE FALSE
        <2>1. task[q].pc = "idle"
            BY <1>11 DEF ReadLoad, At
        <2>2. \E next : task' = [task EXCEPT ![q] = next]
            BY <1>11 DEF ReadLoad, WithController
        <2> QED
            BY <1>2, <2>1, <2>2
    <1>12. ASSUME NEW q \in Task, NEW e \in Endpoint, AwaitCapacity(q, e) PROVE FALSE
        BY <1>2, <1>12 DEF AwaitCapacity, At
    <1>13. ASSUME NEW q \in Task, LookForCapacity(q) PROVE FALSE
        BY <1>2, <1>13 DEF LookForCapacity
    <1>14. ASSUME NEW q \in Task, SuspendReady(q) PROVE FALSE
        BY <1>2, <1>14 DEF SuspendReady
    <1>15. ASSUME NEW q \in Task, LookAgain(q) PROVE FALSE
        BY <1>2, <1>15 DEF LookAgain
    <1>16. ASSUME NEW q \in Task, DropReady(q) PROVE FALSE
        BY <1>2, <1>16 DEF DropReady
    <1>17. ASSUME NEW q \in Task, Notify(q) PROVE FALSE
        BY <1>1, <1>17 DEF Notify, TaskState
    <1>18. CASE Tick
        BY <1>18 DEF Tick
    <1>19. CASE UNCHANGED vars
        BY <1>19 DEF vars
    <1> QED
        BY <1>3, <1>4, <1>5, <1>6, <1>7, <1>8, <1>9, <1>10, <1>11, <1>12, <1>13, <1>14,
           <1>15, <1>16, <1>17, <1>18, <1>19 DEF Next

\* Whoever reserves from a pair gets the endpoint whose predicted completion is
\* the earlier one, the first on a tie, and none only if neither has room
\* (try_reserve_pair over reserve_pair).
THEOREM CheaperIsPreferred == Spec => PairPrefersCheaper
    <1>1. IInv /\ [Next]_vars =>
            \A p \in Task : task[p].pc = "pair" /\ task'[p].pc # "pair" =>
              LET first == task[p].at
                  second == task[p].other
              IN CASE task'[p].pc = "idle" -> ~CanReserve(ctl'[first]) /\ ~CanReserve(ctl'[second])
                   [] task'[p].at = first -> CanReserve(ctl'[second]) =>
                                               Cost(p, first) <= Cost(p, second)
                   [] task'[p].at = second -> CanReserve(ctl'[first]) =>
                                                Cost(p, second) < Cost(p, first)
        <2> SUFFICES ASSUME IInv, [Next]_vars, NEW p \in Task,
                            task[p].pc = "pair", task'[p].pc # "pair"
                     PROVE  LET first == task[p].at
                                second == task[p].other
                            IN CASE task'[p].pc = "idle" ->
                                      ~CanReserve(ctl'[first]) /\ ~CanReserve(ctl'[second])
                                 [] task'[p].at = first -> CanReserve(ctl'[second]) =>
                                                             Cost(p, first) <= Cost(p, second)
                                 [] task'[p].at = second -> CanReserve(ctl'[first]) =>
                                                              Cost(p, second) < Cost(p, first)
            OBVIOUS
        <2>1. ReserveFromPair(p)
            BY PairStays
        <2> DEFINE first == task[p].at
                   second == task[p].other
        <2>2. first # second
            BY DEF IInv, Typed, Well
        <2>3. \/ /\ task'[p].pc = "idle"
                 /\ ~CanReserve(ctl'[first]) /\ ~CanReserve(ctl'[second])
              \/ /\ task'[p].pc = "reserved" /\ task'[p].at = first
                 /\ CanReserve(ctl'[second]) => Cost(p, first) <= Cost(p, second)
              \/ /\ task'[p].pc = "reserved" /\ task'[p].at = second
                 /\ CanReserve(ctl'[first]) => Cost(p, second) < Cost(p, first)
            BY <2>1, ChoiceIsCheaper
        <2> HIDE DEF first, second
        <2>4. (CASE task'[p].pc = "idle" ->
                      ~CanReserve(ctl'[first]) /\ ~CanReserve(ctl'[second])
                 [] task'[p].at = first -> CanReserve(ctl'[second]) =>
                                             Cost(p, first) <= Cost(p, second)
                 [] task'[p].at = second -> CanReserve(ctl'[first]) =>
                                              Cost(p, second) < Cost(p, first))
            BY <2>2, <2>3
        <2> QED
            BY <2>4 DEF first, second
    <1> QED
        BY <1>1, Invariance, PTL DEF Spec, PairPrefersCheaper
=============================================================================
