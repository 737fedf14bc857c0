---------------------------- MODULE SimulatorProofs ----------------------------
(* For any number of endpoints and workers, any rates and any length of the    *)
(* simulation: the report accounts for every request, an iteration leaves      *)
(* nothing undone that was due, and each one but the first moves the clock.    *)
EXTENDS Simulator, ControllerProofs

Statements == {"loop", "peek", "event", "complete", "drive", "head", "arrive", "ready",
               "choose", "redrive", "rehead", "done"}

Ticket(i) == [controller_id : {i}, id : 0 .. MaxId - 1]
Runtime(i) ==
    [ctl : ControllerOf(i), pending : Seq(Ticket(i)), available_at : [Worker -> Instant],
     dispatched : Nat, completed : Nat]
CompletionOf(i) == [at : Instant, endpoint : {i}, request : TokenOf(i)]
Report == [offered : Nat, accepted : Nat, backpressured : Nat]
Completion == UNION {CompletionOf(i) : i \in Index}

Typed ==
    /\ pc \in Statements
    /\ at \in Index
    /\ cursor \in Instant
    /\ cursor <= End
    /\ next_dispatch \in Instant \cup {None}
    /\ next_arrival \in Instant
    /\ completions \in Seq(Completion)
    /\ report \in Report

\* An endpoint holds the tickets its controller has queued, in that order.
Sound(i, e) ==
    /\ e \in Runtime(i)
    /\ Paced(e.ctl)
    /\ Ordered(e.ctl)
    /\ Len(e.pending) = Queued(e.ctl)
    /\ \A n \in 1 .. Len(e.pending) : e.pending[n].id = e.ctl.pending[n].id

AllSound ==
    /\ DOMAIN endpoints = Index
    /\ \A i \in Index : Sound(i, endpoints[i])

Balanced ==
    /\ report.offered = report.accepted + report.backpressured
    /\ IsFiniteSet(Requests(Given))
    /\ report.accepted = Cardinality(Requests(Given))
    /\ \A i \in Index :
          /\ endpoints[i].dispatched =
               endpoints[i].completed + Cardinality(Served(i, completions))
          /\ endpoints[i].ctl.inflight = Cardinality(Served(i, completions))

IInv == Typed /\ AllSound /\ Balanced
-------------------------------------------------------------------------------
(* Counting.                                                                   *)

LEMMA IndexIsNat == Index \in SUBSET Nat /\ 1 \in Index
    BY SimulatorAssumption DEF Index

\* One request more at one endpoint is one request more.
LEMMA OneMoreRequest ==
    ASSUME NEW count \in [Index -> Nat], NEW i \in Index, IsFiniteSet(Requests(count)),
           NEW after \in [Index -> Nat], after = [count EXCEPT ![i] = @ + 1]
    PROVE  /\ IsFiniteSet(Requests(after))
           /\ Cardinality(Requests(after)) = Cardinality(Requests(count)) + 1
    <1> DEFINE new == <<i, count[i] + 1>>
    <1>1. \A j \in Index : count[j] \in Nat
        OBVIOUS
    <1>2. ASSUME NEW x PROVE x \in Requests(after) <=> x \in Requests(count) \cup {new}
        <2>1. x \in Requests(after) <=> \E j \in Index : x \in {j} \X (1 .. after[j])
            BY DEF Requests
        <2>2. x \in Requests(count) <=> \E j \in Index : x \in {j} \X (1 .. count[j])
            BY DEF Requests
        <2>3. \A j \in Index \ {i} : after[j] = count[j]
            OBVIOUS
        <2>4. {i} \X (1 .. after[i]) = ({i} \X (1 .. count[i])) \cup {new}
            <3>1. after[i] = count[i] + 1
                OBVIOUS
            <3>2. 1 .. count[i] + 1 = (1 .. count[i]) \cup {count[i] + 1}
                BY <1>1
            <3> QED
                BY <3>1, <3>2
        <2> QED
            BY <2>1, <2>2, <2>3, <2>4
    <1>3. Requests(after) = Requests(count) \cup {new}
        BY <1>2
    <1>4. new \notin Requests(count)
        <2>1. ASSUME NEW j \in Index, new \in {j} \X (1 .. count[j]) PROVE FALSE
            BY <1>1, <2>1
        <2> QED
            BY <2>1 DEF Requests
    <1> HIDE DEF new
    <1>5. /\ IsFiniteSet(Requests(count) \cup {new})
          /\ Cardinality(Requests(count) \cup {new}) = Cardinality(Requests(count)) + 1
        BY <1>4, FS_AddElement
    <1> QED
        BY <1>3, <1>5

LEMMA NoRequests ==
    ASSUME NEW count, \A i \in Index : count[i] = 0
    PROVE  Requests(count) = {}
    <1>1. ASSUME NEW i \in Index PROVE {i} \X (1 .. count[i]) = {}
        <2>1. 1 .. 0 = {}
            OBVIOUS
        <2> QED
            BY <2>1
    <1> QED
        BY <1>1 DEF Requests

\* The requests in service are finitely many.
LEMMA ServedIsFinite ==
    ASSUME NEW S, NEW s \in Seq(S), NEW i
    PROVE  /\ IsFiniteSet(Served(i, s))
           /\ Cardinality(Served(i, s)) \in Nat
           /\ Served(i, s) \in SUBSET (1 .. Len(s))
           /\ \A n \in 1 .. Len(s) : s[n].endpoint = i => Cardinality(Served(i, s)) > 0
    <1>1. Served(i, s) \in SUBSET (1 .. Len(s)) /\ Len(s) \in Nat
        BY DEF Served
    <1>2. IsFiniteSet(Served(i, s))
        <2>1. IsFiniteSet(1 .. Len(s))
            BY <1>1, FS_Interval
        <2> QED
            BY <1>1, <2>1, FS_Subset
    <1>3. Cardinality(Served(i, s)) \in Nat
        BY <1>2, FS_CardinalityType
    <1>4. ASSUME NEW n \in 1 .. Len(s), s[n].endpoint = i PROVE Cardinality(Served(i, s)) > 0
        <2>1. n \in Served(i, s)
            BY <1>4 DEF Served
        <2> QED
            BY <1>2, <1>3, <2>1, FS_EmptySet
    <1> QED
        BY <1>1, <1>2, <1>3, <1>4

\* A request that is appended is one more of its endpoint's.
LEMMA ServedGrows ==
    ASSUME NEW S, NEW s \in Seq(S), NEW c \in S, NEW i
    PROVE  Cardinality(Served(i, Append(s, c))) =
             Cardinality(Served(i, s)) + IF c.endpoint = i THEN 1 ELSE 0
    <1> DEFINE t == Append(s, c)
               last == Len(s) + 1
    <1>1. /\ Len(s) \in Nat /\ DOMAIN t = 1 .. last /\ DOMAIN s = 1 .. Len(s)
          /\ t[last] = c /\ \A n \in 1 .. Len(s) : t[n] = s[n]
        BY AppendProperties
    <1>2. 1 .. last = (1 .. Len(s)) \cup {last} /\ last \notin 1 .. Len(s)
        BY <1>1
    <1> HIDE DEF t, last
    <1>3. Served(i, t) = IF c.endpoint = i THEN Served(i, s) \cup {last} ELSE Served(i, s)
        BY <1>1, <1>2 DEF Served
    <1>4. last \notin Served(i, s)
        BY <1>1, <1>2 DEF Served
    <1>5. IsFiniteSet(Served(i, s)) /\ Cardinality(Served(i, s)) \in Nat
        BY ServedIsFinite
    <1>6. Cardinality(Served(i, s) \cup {last}) = Cardinality(Served(i, s)) + 1
        BY <1>4, <1>5, FS_AddElement
    <1> QED
        BY <1>3, <1>5, <1>6 DEF t

\* One that is removed is one less of its endpoint's.
LEMMA ServedShrinks ==
    ASSUME NEW S, NEW s \in Seq(S), NEW p \in 1 .. Len(s), NEW i
    PROVE  Cardinality(Served(i, RemoveAt(s, p))) =
             Cardinality(Served(i, s)) - IF s[p].endpoint = i THEN 1 ELSE 0
    <1> DEFINE t == RemoveAt(s, p)
               others == Served(i, s) \ {p}
               shift == [n \in others |-> IF n < p THEN n ELSE n - 1]
    <1>1. /\ Len(s) \in Nat /\ Len(t) = Len(s) - 1 /\ t \in Seq(S)
          /\ \A n \in 1 .. Len(s) - 1 : t[n] = s[IF n < p THEN n ELSE n + 1]
        <2>1. Len(s) \in Nat
            OBVIOUS
        <2> QED
            BY <2>1, RemoveAtFacts
    <1> HIDE DEF t
    <1>2. DOMAIN t = 1 .. Len(s) - 1 /\ DOMAIN s = 1 .. Len(s)
        BY <1>1
    <1>3. ASSUME NEW n \in others
          PROVE  shift[n] \in Served(i, t)
        <2>1. n \in 1 .. Len(s) /\ n # p /\ s[n].endpoint = i
            BY <1>2 DEF Served
        <2>2. CASE n < p
            BY <1>1, <1>2, <2>1, <2>2 DEF Served
        <2>3. CASE ~(n < p)
            <3>1. n - 1 \in 1 .. Len(s) - 1 /\ ~(n - 1 < p) /\ (n - 1) + 1 = n
                BY <1>1, <2>1, <2>3
            <3>2. t[n - 1] = s[n]
                BY <1>1, <3>1
            <3> QED
                BY <1>2, <2>1, <2>3, <3>1, <3>2 DEF Served
        <2> QED
            BY <2>2, <2>3
    <1>4. ASSUME NEW m \in Served(i, t)
          PROVE  \E n \in others : shift[n] = m
        <2>1. m \in 1 .. Len(s) - 1 /\ t[m].endpoint = i
            BY <1>2 DEF Served
        <2>2. CASE m < p
            <3>1. m \in others
                BY <1>1, <1>2, <2>1, <2>2 DEF Served
            <3> QED
                BY <2>2, <3>1
        <2>3. CASE ~(m < p)
            <3>1. m + 1 \in others
                BY <1>1, <1>2, <2>1, <2>3 DEF Served
            <3>2. ~(m + 1 < p) /\ (m + 1) - 1 = m
                BY <1>1, <2>1, <2>3
            <3> QED
                BY <3>1, <3>2
        <2> QED
            BY <2>2, <2>3
    <1>5. ASSUME NEW a \in others, NEW b \in others, shift[a] = shift[b]
          PROVE  a = b
        <2>1. a \in 1 .. Len(s) /\ b \in 1 .. Len(s) /\ a # p /\ b # p
            BY <1>2 DEF Served
        <2> QED
            BY <1>1, <1>5, <2>1
    <1>6. shift \in Bijection(others, Served(i, t))
        <2>1. shift \in [others -> Served(i, t)]
            BY <1>3
        <2> HIDE DEF shift, others
        <2> QED
            BY <2>1, <1>4, <1>5, Fun_IsBij
    <1>7. IsFiniteSet(others) /\ Cardinality(Served(i, t)) = Cardinality(others)
        <2>1. IsFiniteSet(others)
            BY ServedIsFinite, FS_RemoveElement
        <2> HIDE DEF others, shift
        <2> QED
            BY <1>6, <2>1, FS_Bijection DEF ExistsBijection
    <1>8. p \in Served(i, s) <=> s[p].endpoint = i
        BY <1>2 DEF Served
    <1> QED
        BY <1>7, <1>8, ServedIsFinite, FS_RemoveElement DEF t
-------------------------------------------------------------------------------
(* An endpoint and its controller.                                             *)

\* The ticket at the head is that of the controller's head.
LEMMA HeadOwns ==
    ASSUME NEW i, NEW e, Sound(i, e), e.pending # <<>>
    PROVE  /\ Head(e.pending) \in Ticket(i)
           /\ Owns(e.ctl, Head(e.pending))
           /\ HeadIs(e.ctl, Head(e.pending).id)
    <1>1. e.pending \in Seq(Ticket(i)) /\ e.ctl \in ControllerOf(i)
        BY DEF Sound, Runtime
    <1>2. Len(e.pending) > 0 /\ Head(e.pending) = e.pending[1] /\ e.pending[1] \in Ticket(i)
        BY <1>1
    <1>3. e.pending[1].controller_id = i /\ e.ctl.controller_id = i
        BY <1>1, <1>2 DEF Ticket, ControllerOf
    <1>4. e.pending[1].id = e.ctl.pending[1].id /\ Queued(e.ctl) > 0
        BY <1>1, <1>2 DEF Sound
    <1> QED
        BY <1>2, <1>3, <1>4 DEF Owns, HeadIs

\* Whatever keeps the queue keeps the endpoint in step with it.
LEMMA SoundKept ==
    ASSUME NEW i, NEW e, Sound(i, e), NEW f \in Runtime(i), f.pending = e.pending,
           Paced(f.ctl), Queued(f.ctl) = Queued(e.ctl), f.ctl.next_id = e.ctl.next_id,
           \A n \in 1 .. Queued(e.ctl) : f.ctl.pending[n].id = e.ctl.pending[n].id
    PROVE  Sound(i, f)
    <1>1. Ordered(f.ctl)
        BY DEF Sound, Ordered
    <1> QED
        BY <1>1 DEF Sound

LEMMA SoundRerated ==
    ASSUME NEW i, NEW e, Sound(i, e), NEW d \in ControllerOf(i), KeepsQueue(e.ctl, d), Paced(d)
    PROVE  LET f == [e EXCEPT !.ctl = d] IN
           /\ Sound(i, f)
           /\ f.ctl = d /\ f.ctl.inflight = e.ctl.inflight /\ f.pending = e.pending
           /\ f.dispatched = e.dispatched /\ f.completed = e.completed
    <1> DEFINE f == [e EXCEPT !.ctl = d]
    <1>1. e \in Runtime(i)
        BY DEF Sound
    <1>2. /\ f \in Runtime(i)
          /\ f.ctl = d /\ f.pending = e.pending
          /\ f.dispatched = e.dispatched /\ f.completed = e.completed
        BY <1>1 DEF Runtime
    <1> HIDE DEF f
    <1>3. Sound(i, f)
        BY <1>2, SoundKept DEF KeepsQueue
    <1> QED
        BY <1>2, <1>3 DEF KeepsQueue, f

\* A refresh and a look at the head keep it.
LEMMA RefreshSound ==
    ASSUME NEW i, NEW e, Sound(i, e), NEW draw \in Draw, NEW now \in Instant
    PROVE  LET d == Refresh(e.ctl, draw, now) IN
           d \in ControllerOf(i) /\ KeepsQueue(e.ctl, d) /\ Paced(d)
    BY RefreshFacts DEF Sound, Runtime

LEMMA CheckSound ==
    ASSUME NEW i, NEW e, Sound(i, e), NEW r, NEW draw \in Draw, NEW now \in Instant
    PROVE  LET d == Check(e.ctl, r, draw, now).ctl IN
           d \in ControllerOf(i) /\ KeepsQueue(e.ctl, d) /\ Paced(d)
    BY CheckFacts DEF Sound, Runtime

\* The endpoint whose worker w has taken the head and will be done at x.
AfterServing(e, result, w, x) ==
    [e EXCEPT !.ctl = result.ctl, !.pending = Tail(@), !.available_at[w] = x, !.dispatched = @ + 1]

\* One request more is dispatched and one less is queued.
Serves(i, e, f, token) ==
    /\ Sound(i, f)
    /\ token \in TokenOf(i)
    /\ f.ctl.inflight = e.ctl.inflight + 1
    /\ f.completed = e.completed /\ f.dispatched = e.dispatched + 1
    /\ Len(f.pending) = Len(e.pending) - 1

\* The head leaves: its ticket and its place in the controller's queue go together.
LEMMA SoundServed ==
    ASSUME NEW i, NEW e, Sound(i, e), e.pending # <<>>, NEW d \in ControllerOf(i),
           KeepsQueue(e.ctl, d), Paced(d), NEW draw \in Draw, NEW now \in Instant,
           NEW w, NEW x \in Instant, NEW result, result.answer.tag = "Ready",
           result = OnDispatched(d, Head(e.pending), draw, now)
    PROVE  Serves(i, e, AfterServing(e, result, w, x), result.token)
    <1> DEFINE r == Head(e.pending)
               c == result.ctl
               tail == Tail(e.pending)
               free == [e.available_at EXCEPT ![w] = x]
               more == e.dispatched + 1
               f == AfterServing(e, result, w, x)
    <1>1. /\ e \in Runtime(i) /\ Len(e.pending) = Queued(e.ctl)
          /\ \A n \in 1 .. Len(e.pending) : e.pending[n].id = e.ctl.pending[n].id
        BY DEF Sound
    <1>2. Ordered(d)
        BY KeptIds DEF Sound
    <1>3. /\ c \in ControllerOf(i) /\ Paced(c)
          /\ Queued(c) = Queued(d) - 1
          /\ \A n \in 1 .. Queued(c) : c.pending[n].id = d.pending[n + 1].id
          /\ c.inflight = d.inflight + 1
          /\ result.token \in TokenOf(i)
        BY OnDispatchedFacts DEF TokenOf
    <1>4. Ordered(c)
        BY <1>2, DispatchIds DEF Claims
    <1>5. /\ e.pending \in Seq(Ticket(i)) /\ Len(e.pending) \in Nat \ {0}
          /\ tail \in Seq(Ticket(i)) /\ Len(tail) = Len(e.pending) - 1
          /\ \A n \in 1 .. Len(tail) : tail[n] = e.pending[n + 1]
        BY <1>1 DEF Runtime
    <1>6. free \in [Worker -> Instant]
        BY <1>1 DEF Runtime
    <1>7. f = [e EXCEPT !.ctl = c, !.pending = tail, !.available_at = free, !.dispatched = more]
        BY <1>1 DEF Runtime, AfterServing
    <1>13. more \in Nat
        BY <1>1 DEF Runtime
    <1> HIDE DEF tail, free, f, more, c
    <1>8. /\ f \in Runtime(i) /\ f.ctl = c /\ f.pending = tail
          /\ f.completed = e.completed /\ f.dispatched = more
        BY <1>1, <1>3, <1>5, <1>6, <1>7, <1>13 DEF Runtime
    <1>9. /\ Queued(d) = Queued(e.ctl) /\ d.inflight = e.ctl.inflight
          /\ \A n \in 1 .. Queued(e.ctl) : d.pending[n].id = e.ctl.pending[n].id
        BY DEF KeepsQueue
    <1>10. Len(tail) = Queued(c)
        BY <1>1, <1>3, <1>5, <1>9
    <1>11. ASSUME NEW n \in 1 .. Len(tail) PROVE tail[n].id = c.pending[n].id
        <2>1. n \in 1 .. Queued(c) /\ n + 1 \in 1 .. Len(e.pending)
            BY <1>5, <1>10
        <2>2. tail[n] = e.pending[n + 1] /\ e.pending[n + 1].id = e.ctl.pending[n + 1].id
            BY <1>1, <1>5, <2>1
        <2>3. c.pending[n].id = d.pending[n + 1].id /\ d.pending[n + 1].id = e.ctl.pending[n + 1].id
            BY <1>1, <1>3, <1>9, <2>1
        <2> QED
            BY <2>2, <2>3
    <1>12. Sound(i, f)
        BY <1>3, <1>4, <1>8, <1>10, <1>11 DEF Sound
    <1> QED
        BY <1>3, <1>5, <1>8, <1>9, <1>12 DEF f, c, more, Serves

\* The endpoint that has taken a reservation and its ticket.
AfterReserving(i, e, now) ==
    [e EXCEPT !.ctl = Reserve(@, now),
              !.pending = Append(@, [controller_id |-> i, id |-> e.ctl.next_id])]

\* One request more is queued.
Accepts(i, e, f) ==
    /\ Sound(i, f)
    /\ f.ctl.inflight = e.ctl.inflight
    /\ f.completed = e.completed /\ f.dispatched = e.dispatched
    /\ Len(f.pending) = Len(e.pending) + 1

\* A reservation and its ticket come together.
LEMMA SoundOffered ==
    ASSUME NEW i, NEW e, Sound(i, e), NEW now \in Instant, CanReserve(e.ctl)
    PROVE  Accepts(i, e, AfterReserving(i, e, now))
    <1> DEFINE c == e.ctl
               d == Reserve(c, now)
               ticket == [controller_id |-> i, id |-> c.next_id]
               queue == Append(e.pending, ticket)
               f == AfterReserving(i, e, now)
    <1>1. /\ e \in Runtime(i) /\ Paced(c) /\ Ordered(c) /\ Len(e.pending) = Queued(c)
          /\ \A n \in 1 .. Len(e.pending) : e.pending[n].id = c.pending[n].id
        BY DEF Sound
    <1>2. c \in ControllerOf(i) /\ e.pending \in Seq(Ticket(i)) /\ Len(e.pending) \in Nat
        BY <1>1 DEF Runtime
    <1>3. c.next_id \in 0 .. MaxId - 1
        BY <1>2, ControllerAssumption DEF CanReserve, ControllerOf
    <1>4. d.next_id = c.next_id + 1
        BY <1>2 DEF Reserve, ControllerOf
    <1>5. /\ d \in ControllerOf(i) /\ Paced(d)
          /\ Queued(d) = Queued(c) + 1
          /\ \A n \in 1 .. Queued(c) : d.pending[n].id = c.pending[n].id
          /\ d.pending[Queued(d)].id = c.next_id
          /\ d.inflight = c.inflight
        BY <1>1, <1>2, <1>3, <1>4, ReserveFacts
    <1>6. Ordered(d)
        BY <1>1, <1>2, ReserveIds
    <1>7. f = [e EXCEPT !.ctl = d, !.pending = queue]
        BY <1>1 DEF Runtime, AfterReserving
    <1>8. ticket \in Ticket(i) /\ ticket.id = c.next_id
        BY <1>3 DEF Ticket
    <1> HIDE DEF ticket, d
    <1>9. /\ queue \in Seq(Ticket(i)) /\ Len(queue) = Len(e.pending) + 1
          /\ queue[Len(e.pending) + 1] = ticket
          /\ \A n \in 1 .. Len(e.pending) : queue[n] = e.pending[n]
        BY <1>2, <1>8, AppendProperties
    <1> HIDE DEF queue, f
    <1>10. /\ f \in Runtime(i) /\ f.ctl = d /\ f.pending = queue
           /\ f.completed = e.completed /\ f.dispatched = e.dispatched
        BY <1>1, <1>5, <1>7, <1>9 DEF Runtime
    <1>11. ASSUME NEW n \in 1 .. Len(queue) PROVE queue[n].id = d.pending[n].id
        <2>1. CASE n = Len(e.pending) + 1
            BY <1>1, <1>5, <1>8, <1>9, <2>1
        <2>2. CASE n # Len(e.pending) + 1
            <3>1. n \in 1 .. Len(e.pending)
                BY <1>2, <1>9, <2>2
            <3> QED
                BY <1>1, <1>5, <1>9, <3>1
        <2> QED
            BY <2>1, <2>2
    <1>12. Sound(i, f)
        BY <1>1, <1>5, <1>6, <1>9, <1>10, <1>11 DEF Sound
    <1> QED
        BY <1>5, <1>9, <1>10, <1>12 DEF f, ticket, Accepts
-------------------------------------------------------------------------------
(* What the loop looks up.                                                     *)

LEMMA CompletionFacts ==
    ASSUME Typed
    PROVE  \A n \in 1 .. Len(completions) :
              /\ completions[n].at \in Instant
              /\ completions[n].endpoint \in Index
              /\ completions[n].request \in TokenOf(completions[n].endpoint)
    <1>1. ASSUME NEW n \in 1 .. Len(completions)
          PROVE  completions[n] \in Completion
        BY <1>1 DEF Typed
    <1>2. ASSUME NEW c \in Completion
          PROVE  c.at \in Instant /\ c.endpoint \in Index /\ c.request \in TokenOf(c.endpoint)
        <2>1. PICK i \in Index : c \in CompletionOf(i)
            BY <1>2 DEF Completion
        <2> QED
            BY <2>1 DEF CompletionOf
    <1> QED
        BY <1>1, <1>2

\* The first completion that is due, or none is.
LEMMA DueFacts ==
    ASSUME Typed
    PROVE  /\ Due \in 0 .. Len(completions)
           /\ Due # 0 => completions[Due].at <= cursor
           /\ Due = 0 => \A n \in 1 .. Len(completions) : completions[n].at > cursor
    <1> DEFINE due == {n \in 1 .. Len(completions) : completions[n].at <= cursor}
    <1>1. Due = IF due # {} THEN Min(due) ELSE 0
        BY DEF Due, SelectInSeq
    <1>2. due \in SUBSET Nat /\ Len(completions) \in Nat
        BY DEF Typed
    <1>3. CASE due = {}
        <2>1. Due = 0
            BY <1>1, <1>3
        <2>2. ASSUME NEW n \in 1 .. Len(completions) PROVE completions[n].at > cursor
            <3>1. n \notin due
                BY <1>3
            <3>2. completions[n].at \in Int /\ cursor \in Int
                BY CompletionFacts DEF Typed, Instant
            <3> QED
                BY <3>1, <3>2
        <2> QED
            BY <1>2, <2>1, <2>2
    <1>4. CASE due # {}
        <2>1. Due \in due
            <3> HIDE DEF due
            <3> QED
                BY <1>1, <1>2, <1>4, MinOfNats
        <2> QED
            BY <1>2, <2>1
    <1> QED
        BY <1>3, <1>4

\* The next event is the next arrival, a completion or a dispatch.
LEMMA NextEventFacts ==
    ASSUME Typed
    PROVE  /\ NextEvent \in Instant
           /\ NextEvent <= next_arrival
           /\ \A n \in 1 .. Len(completions) : NextEvent <= completions[n].at
           /\ \/ NextEvent = next_arrival
              \/ \E n \in 1 .. Len(completions) : NextEvent = completions[n].at
              \/ next_dispatch # None /\ NextEvent = next_dispatch
    <1> DEFINE events == {next_arrival} \cup {c.at : c \in Range(completions)}
                           \cup ({next_dispatch} \ {None})
    <1>1. DOMAIN completions = 1 .. Len(completions)
        BY DEF Typed
    <1>2. Range(completions) = {completions[n] : n \in 1 .. Len(completions)}
        BY <1>1 DEF Range
    <1>3. ASSUME NEW x \in events
          PROVE  /\ x \in Instant
                 /\ \/ x = next_arrival
                    \/ \E n \in 1 .. Len(completions) : x = completions[n].at
                    \/ next_dispatch # None /\ x = next_dispatch
        BY <1>2, CompletionFacts DEF Typed
    <1>4. \A n \in 1 .. Len(completions) : completions[n].at \in events
        BY <1>2
    <1>5. events \in SUBSET Nat /\ next_arrival \in events
        BY <1>3 DEF Instant
    <1>6. NextEvent = Min(events)
        BY DEF NextEvent
    <1> HIDE DEF events
    <1>7. NextEvent \in events /\ \A x \in events : NextEvent <= x
        BY <1>5, <1>6, MinOfNats
    <1> QED
        BY <1>3, <1>4, <1>5, <1>7

\* Some worker is free first.
LEMMA FreeWorkerIsWorker ==
    ASSUME NEW available_at \in [Worker -> Instant]
    PROVE  FreeWorker(available_at) \in Worker
    <1> DEFINE instants == {available_at[w] : w \in Worker}
               free == {w \in Worker : available_at[w] = Min(instants)}
    <1>1. Worker \in SUBSET Nat /\ 1 \in Worker /\ \A w \in Worker : available_at[w] \in Nat
        BY SimulatorAssumption DEF Worker, Instant
    <1>2. Min(instants) \in instants /\ \A x \in instants : Min(instants) <= x
        <2>1. instants \in SUBSET Nat /\ instants # {}
            BY <1>1
        <2> HIDE DEF instants
        <2> QED
            BY <2>1, MinOfNats
    <1>3. Min(free) \in free /\ \A w \in free : Min(free) <= w
        <2>1. free \in SUBSET Nat /\ free # {}
            BY <1>1, <1>2
        <2> HIDE DEF free
        <2> QED
            BY <2>1, MinOfNats
    <1>4. ASSUME NEW v \in Worker
          PROVE  \/ available_at[Min(free)] < available_at[v]
                 \/ available_at[Min(free)] = available_at[v] /\ Min(free) <= v
        <2>1. available_at[Min(free)] = Min(instants) /\ Min(free) \in Worker
            BY <1>3
        <2>2. Min(instants) <= available_at[v]
            BY <1>2
        <2>3. available_at[v] = Min(instants) => Min(free) <= v
            BY <1>3
        <2>4. available_at[v] \in Nat /\ Min(instants) \in Nat
            BY <1>1, <1>2
        <2> HIDE DEF free, instants
        <2>5. Min(instants) < available_at[v] \/ Min(instants) = available_at[v]
            BY <2>2, <2>4
        <2> QED
            BY <2>1, <2>3, <2>5, Zenon
    <1>5. \E w \in Worker : \A v \in Worker :
              \/ available_at[w] < available_at[v]
              \/ available_at[w] = available_at[v] /\ w <= v
        <2>1. Min(free) \in Worker
            BY <1>3
        <2> HIDE DEF free, instants
        <2> QED
            BY <1>4, <2>1
    <1> HIDE DEF free, instants
    <1> QED
        BY <1>5 DEF FreeWorker
-------------------------------------------------------------------------------
(* The books.                                                                  *)

LEMMA GivenIsCount ==
    ASSUME AllSound
    PROVE  Given \in [Index -> Nat]
    BY DEF AllSound, Sound, Runtime, Given

\* Nothing that is counted changes.
LEMMA BalanceKept ==
    ASSUME IInv, AllSound', completions' = completions, report' = report,
           \A i \in Index : /\ endpoints'[i].dispatched = endpoints[i].dispatched
                            /\ Len(endpoints'[i].pending) = Len(endpoints[i].pending)
                            /\ endpoints'[i].completed = endpoints[i].completed
                            /\ endpoints'[i].ctl.inflight = endpoints[i].ctl.inflight
    PROVE  Balanced'
    <1>1. Given' = Given
        BY DEF Given
    <1>2. \A i \in Index : Served(i, completions)' = Served(i, completions)
        BY DEF Served
    <1> QED
        BY <1>1, <1>2 DEF IInv, Balanced

\* One endpoint's controller is looked after and nothing else happens to it.
LEMMA Rerated ==
    ASSUME IInv, NEW i \in Index, NEW d \in ControllerOf(i),
           KeepsQueue(endpoints[i].ctl, d), Paced(d),
           endpoints' = [endpoints EXCEPT ![i].ctl = d],
           completions' = completions, report' = report
    PROVE  AllSound' /\ Balanced'
    <1> DEFINE f == [endpoints[i] EXCEPT !.ctl = d]
    <1>1. DOMAIN endpoints = Index /\ \A j \in Index : Sound(j, endpoints[j])
        BY DEF IInv, AllSound
    <1>2. /\ Sound(i, f)
          /\ f.ctl.inflight = endpoints[i].ctl.inflight /\ f.pending = endpoints[i].pending
          /\ f.dispatched = endpoints[i].dispatched /\ f.completed = endpoints[i].completed
        BY <1>1, SoundRerated
    <1>3. endpoints' = [endpoints EXCEPT ![i] = f]
        OBVIOUS
    <1> HIDE DEF f
    <1>4. /\ DOMAIN endpoints' = Index /\ endpoints'[i] = f
          /\ \A j \in Index \ {i} : endpoints'[j] = endpoints[j]
        BY <1>1, <1>3
    <1>5. AllSound'
        BY <1>1, <1>2, <1>4 DEF AllSound
    <1>6. Balanced'
        BY <1>2, <1>4, <1>5, BalanceKept
    <1> QED
        BY <1>5, <1>6

LEMMA BooksKept ==
    ASSUME IInv, UNCHANGED <<endpoints, completions, report>>
    PROVE  AllSound' /\ Balanced'
    <1>1. AllSound'
        BY DEF IInv, AllSound
    <1> QED
        BY <1>1, BalanceKept

LEMMA OnwardType ==
    ASSUME Typed, NEW statement \in Statements, Onward(statement)
    PROVE  pc' \in Statements /\ at' \in Index
    BY SimulatorAssumption DEF Typed, Onward, Goto, Index

LEMMA InitHolds ==
    ASSUME Init
    PROVE  IInv
    <1> DEFINE e(i) == [ctl |-> NewController(i, 0), pending |-> <<>>,
                        available_at |-> [w \in Worker |-> 0], dispatched |-> 0, completed |-> 0]
    <1>1. 0 \in Instant /\ End \in Instant /\ 0 <= End
        BY SimulatorAssumption, ConfigAssumption DEF Instant
    <1>2. Typed
        BY <1>1, IndexIsNat DEF Init, Typed, Statements, Report
    <1>3. ASSUME NEW i \in Index
          PROVE  /\ Sound(i, endpoints[i])
                 /\ endpoints[i].dispatched = 0 /\ endpoints[i].completed = 0
                 /\ endpoints[i].pending = <<>> /\ endpoints[i].ctl.inflight = 0
        <2> DEFINE c == NewController(i, 0)
        <2>1. /\ c \in ControllerOf(i) /\ Paced(c) /\ Queued(c) = 0 /\ c.inflight = 0
            BY <1>1, NewControllerFacts
        <2> HIDE DEF c
        <2>2. endpoints[i] = [ctl |-> c, pending |-> <<>>, available_at |-> [w \in Worker |-> 0],
                              dispatched |-> 0, completed |-> 0]
            BY DEF Init, c
        <2>3. endpoints[i] \in Runtime(i)
            BY <1>1, <2>1, <2>2 DEF Runtime
        <2>4. Ordered(c)
            BY <2>1 DEF Ordered
        <2> QED
            BY <2>1, <2>2, <2>3, <2>4 DEF Sound
    <1>4. AllSound
        BY <1>3 DEF AllSound, Init
    <1>5. \A i \in Index : Served(i, completions) = {}
        BY DEF Init, Served
    <1>6. Requests(Given) = {}
        <2>1. \A i \in Index : Given[i] = 0
            BY <1>3 DEF Given
        <2> QED
            BY <2>1, NoRequests
    <1>7. Balanced
        <2>1. report.offered = 0 /\ report.accepted = 0 /\ report.backpressured = 0
            BY DEF Init
        <2>2. IsFiniteSet({}) /\ Cardinality({}) = 0
            BY FS_EmptySet
        <2>3. \A i \in Index : Cardinality(Served(i, completions)) = 0
            BY <1>5, <2>2, Zenon
        <2>4. IsFiniteSet(Requests(Given)) /\ Cardinality(Requests(Given)) = 0
            BY <1>6, <2>2, Zenon
        <2> QED
            BY <1>3, <2>1, <2>3, <2>4 DEF Balanced
    <1> QED
        BY <1>2, <1>4, <1>7 DEF IInv

LEMMA LoopTestHolds ==
    ASSUME IInv, LoopTest
    PROVE  IInv'
    <1>1. Typed'
        BY IndexIsNat DEF IInv, Typed, LoopTest, Goto, Statements
    <1> QED
        BY <1>1, BooksKept DEF IInv, LoopTest

LEMMA PickEventHolds ==
    ASSUME IInv, PickEvent
    PROVE  IInv'
    <1>1. NextEvent \in Instant /\ End \in Instant
        BY NextEventFacts, SimulatorAssumption DEF IInv
    <1>2. cursor' \in Instant /\ cursor' <= End
        BY <1>1 DEF PickEvent, IInv, Typed, Instant
    <1>3. Typed'
        BY <1>2, IndexIsNat DEF IInv, Typed, PickEvent, Goto, Statements
    <1> QED
        BY <1>3, BooksKept DEF IInv, PickEvent

LEMMA ArriveHolds ==
    ASSUME IInv, Arrive
    PROVE  IInv'
    <1>1. Typed'
        BY IndexIsNat DEF IInv, Typed, Arrive, Goto, Statements
    <1> QED
        BY <1>1, BooksKept DEF IInv, Arrive

\* A refresh, wherever the loop asks for one.
LEMMA RefreshStep ==
    ASSUME IInv, NEW i \in Index,
           \E ctl \in {Refresh(endpoints[i].ctl, draw, cursor) :
                           draw \in Draws(endpoints[i].ctl, cursor)} :
              endpoints' = [endpoints EXCEPT ![i].ctl = ctl],
           completions' = completions, report' = report
    PROVE  AllSound' /\ Balanced'
    <1>1. PICK draw \in Draws(endpoints[i].ctl, cursor) :
             endpoints' = [endpoints EXCEPT ![i].ctl = Refresh(endpoints[i].ctl, draw, cursor)]
        OBVIOUS
    <1> DEFINE d == Refresh(endpoints[i].ctl, draw, cursor)
    <1>2. d \in ControllerOf(i) /\ KeepsQueue(endpoints[i].ctl, d) /\ Paced(d)
        BY DrawsType, RefreshSound DEF IInv, Typed, AllSound
    <1> HIDE DEF d
    <1> QED
        BY <1>1, <1>2, Rerated DEF d

LEMMA DriveHolds ==
    ASSUME IInv, NEW before, NEW after \in Statements, Drive(before, after)
    PROVE  IInv'
    <1>1. Typed'
        BY DEF IInv, Typed, Drive
    <1>2. AllSound' /\ Balanced'
        BY RefreshStep DEF IInv, Typed, Drive
    <1> QED
        BY <1>1, <1>2 DEF IInv

LEMMA RefreshForChoiceHolds ==
    ASSUME IInv, RefreshForChoice
    PROVE  IInv'
    <1>1. Typed'
        <2>1. pc' \in Statements /\ at' \in Index
            BY OnwardType DEF IInv, RefreshForChoice, Statements
        <2> QED
            BY <2>1 DEF IInv, Typed, RefreshForChoice
    <1>2. AllSound' /\ Balanced'
        BY RefreshStep DEF IInv, Typed, RefreshForChoice
    <1> QED
        BY <1>1, <1>2 DEF IInv

\* What the loop is told of a head.
LEMMA HeadChecked ==
    ASSUME IInv, NEW i \in Index, endpoints[i].pending # <<>>, NEW draw \in Draw
    PROVE  LET c == endpoints[i].ctl
               checked == Check(c, Head(endpoints[i].pending), draw, cursor)
               d == checked.ctl
           IN /\ d \in ControllerOf(i) /\ KeepsQueue(c, d) /\ Paced(d)
              /\ AtRest(d, cursor) /\ Queued(d) > 0
              /\ checked.answer.tag # "Ready" => HeadWaits(d, cursor)
              /\ \/ checked.answer.tag \in {"Ready", "InflightLimit"}
                 \/ /\ checked.answer.tag = "WaitUntil"
                    /\ checked.answer.at \in Instant
                    /\ checked.answer.at > cursor
    <1> DEFINE c == endpoints[i].ctl
               r == Head(endpoints[i].pending)
    <1>1. Sound(i, endpoints[i]) /\ cursor \in Instant
        BY DEF IInv, AllSound, Typed
    <1>2. Owns(c, r) /\ HeadIs(c, r.id)
        BY <1>1, HeadOwns
    <1>3. c \in ControllerOf(i) /\ Paced(c)
        BY <1>1 DEF Sound, Runtime
    <1> HIDE DEF c, r
    <1>4. LET checked == Check(c, r, draw, cursor)
              d == checked.ctl
          IN /\ d \in ControllerOf(i) /\ KeepsQueue(c, d) /\ Paced(d)
        BY <1>1, <1>3, CheckFacts
    <1>5. LET checked == Check(c, r, draw, cursor)
              d == checked.ctl
          IN /\ AtRest(d, cursor) /\ Queued(d) > 0
             /\ checked.answer.tag # "Ready" => HeadWaits(d, cursor)
             /\ \/ checked.answer.tag \in {"Ready", "InflightLimit"}
                \/ /\ checked.answer.tag = "WaitUntil"
                   /\ checked.answer.at \in Instant
                   /\ checked.answer.at > cursor
        BY <1>1, <1>2, <1>3, CheckRests
    <1> QED
        BY <1>4, <1>5 DEF c, r

LEMMA PeekHolds ==
    ASSUME IInv, Peek
    PROVE  IInv'
    <1>1. pc' \in Statements /\ at' \in Index /\ at \in Index
        BY OnwardType DEF IInv, Typed, Peek, Statements
    <1>2. CASE endpoints[at].pending = <<>>
        <2>1. Typed'
            BY <1>1, <1>2 DEF IInv, Typed, Peek
        <2> QED
            BY <1>2, <2>1, BooksKept DEF IInv, Peek
    <1>3. CASE endpoints[at].pending # <<>>
        <2> DEFINE checked(draw) == Check(endpoints[at].ctl, Head(endpoints[at].pending), draw, cursor)
        <2>1. PICK draw \in Draws(endpoints[at].ctl, cursor) :
                 /\ endpoints' = [endpoints EXCEPT ![at].ctl = checked(draw).ctl]
                 /\ next_dispatch' = Earliest(next_dispatch, DispatchAt(checked(draw).answer))
            BY <1>3 DEF Peek
        <2>2. draw \in Draw
            BY DrawsType
        <2>3. LET d == checked(draw).ctl
              IN d \in ControllerOf(at) /\ KeepsQueue(endpoints[at].ctl, d) /\ Paced(d)
            BY <1>1, <1>3, <2>2, HeadChecked
        <2>4. \/ checked(draw).answer.tag \in {"Ready", "InflightLimit"}
              \/ checked(draw).answer.tag = "WaitUntil" /\ checked(draw).answer.at \in Instant
            BY <1>1, <1>3, <2>2, HeadChecked
        <2> HIDE DEF checked
        <2>5. DispatchAt(checked(draw).answer) \in Instant \cup {None}
            BY <2>4 DEF DispatchAt, IInv, Typed
        <2>6. next_dispatch' \in Instant \cup {None}
            BY <2>1, <2>5 DEF Earliest, Earlier, IInv, Typed
        <2>7. Typed'
            BY <1>1, <2>6 DEF IInv, Typed, Peek
        <2>8. AllSound' /\ Balanced'
            BY <1>1, <2>1, <2>3, Rerated DEF Peek
        <2> QED
            BY <2>7, <2>8 DEF IInv
    <1> QED
        BY <1>2, <1>3

LEMMA CompleteReadyHolds ==
    ASSUME IInv, CompleteReady
    PROVE  IInv'
    <1>0. /\ Due \in 0 .. Len(completions) /\ Len(completions) \in Nat
          /\ completions \in Seq(Completion)
        BY DueFacts DEF IInv, Typed
    <1>1. CASE Due = 0
        <2>1. Typed'
            BY <1>1, IndexIsNat DEF IInv, Typed, CompleteReady, Goto, Statements
        <2> QED
            BY <1>1, <2>1, BooksKept DEF IInv, CompleteReady
    <1>2. CASE Due # 0
        <2> DEFINE due == Due
                   c == completions[due]
                   i == c.endpoint
                   e == endpoints[i]
                   latency == Since(c.at, c.request.dispatched_at)
                   d == OnComplete(e.ctl, c.request, TRUE, latency, cursor)
                   f == [e EXCEPT !.ctl = d, !.completed = @ + 1]
        <2>1. /\ endpoints' = [endpoints EXCEPT
                     ![i].ctl = OnComplete(@, c.request, TRUE, latency, cursor),
                     ![i].completed = @ + 1]
              /\ completions' = RemoveAt(completions, due)
              /\ UNCHANGED <<loop, cursor, next_dispatch, next_arrival, report>>
            BY <1>2 DEF CompleteReady
        <2>2. due \in 1 .. Len(completions)
            BY <1>0, <1>2
        <2> HIDE DEF due
        <2>3. /\ c.at \in Instant /\ i \in Index /\ c.request \in TokenOf(i)
            BY <2>2, CompletionFacts DEF IInv
        <2>4. /\ Sound(i, e) /\ DOMAIN endpoints = Index /\ cursor \in Instant
              /\ \A j \in Index : Sound(j, endpoints[j])
            BY <2>3 DEF IInv, AllSound, Typed
        <2>5. e \in Runtime(i) /\ e.ctl \in ControllerOf(i) /\ Paced(e.ctl)
            BY <2>4 DEF Sound, Runtime
        <2>6. endpoints' = [endpoints EXCEPT ![i] = f]
            BY <2>1, <2>3, <2>4
        <2>7. c.request.dispatched_at \in Instant /\ c.request.was_paced \in BOOLEAN
              /\ c.request.controller_id = i
            BY <2>3 DEF TokenOf
        <2>8. latency \in Nat
            <3>1. c.at \in Nat /\ c.request.dispatched_at \in Nat
                BY <2>3, <2>7 DEF Instant
            <3> HIDE DEF c
            <3> QED
                BY <3>1, SinceIsNat
        <2>9. e.ctl.inflight > 0
            <3>1. Cardinality(Served(i, completions)) > 0
                BY <1>0, <2>2, ServedIsFinite
            <3> QED
                BY <2>3, <3>1 DEF IInv, Balanced
        <2>10. Owns(e.ctl, c.request)
            BY <2>5, <2>7 DEF Owns, ControllerOf
        <2> HIDE DEF latency
        <2>11. /\ d \in ControllerOf(i) /\ Paced(d)
               /\ KeepsQueue([e.ctl EXCEPT !.inflight = @ - 1], d)
            <3> DEFINE k == e.ctl
            <3>1. /\ k \in ControllerOf(i) /\ Paced(k) /\ k.inflight > 0 /\ Owns(k, c.request)
                BY <2>5, <2>9, <2>10
            <3> HIDE DEF k
            <3>2. /\ OnComplete(k, c.request, TRUE, latency, cursor) \in ControllerOf(i)
                  /\ Paced(OnComplete(k, c.request, TRUE, latency, cursor))
                  /\ KeepsQueue([k EXCEPT !.inflight = @ - 1],
                                OnComplete(k, c.request, TRUE, latency, cursor))
                BY <2>4, <2>7, <2>8, <3>1, OnCompleteFacts
            <3> QED
                BY <3>2 DEF k
        <2> HIDE DEF d
        <2>12. /\ Queued(d) = Queued(e.ctl) /\ d.next_id = e.ctl.next_id
               /\ \A n \in 1 .. Queued(e.ctl) : d.pending[n].id = e.ctl.pending[n].id
               /\ d.inflight = e.ctl.inflight - 1
            <3>1. e.ctl.inflight \in Nat
                BY <2>5 DEF ControllerOf
            <3> QED
                BY <2>5, <2>11, <3>1 DEF KeepsQueue, Queued, ControllerOf
        <2>13. /\ f \in Runtime(i) /\ f.ctl = d /\ f.pending = e.pending
               /\ f.dispatched = e.dispatched /\ f.completed = e.completed + 1
            <3> DEFINE k == e
                       more == k.completed + 1
                       g == [k EXCEPT !.ctl = d, !.completed = more]
            <3>1. f = g
                OBVIOUS
            <3>2. k \in Runtime(i) /\ more \in Nat
                BY <2>5 DEF Runtime
            <3> HIDE DEF k, more
            <3>3. /\ g \in Runtime(i) /\ g.ctl = d /\ g.pending = k.pending
                  /\ g.dispatched = k.dispatched /\ g.completed = more
                BY <2>11, <3>2 DEF Runtime
            <3> QED
                BY <3>1, <3>3 DEF k, more
        <2> HIDE DEF f
        <2>14. Sound(i, f)
            BY <2>4, <2>11, <2>12, <2>13, SoundKept
        <2>15. /\ DOMAIN endpoints' = Index /\ endpoints'[i] = f
               /\ \A j \in Index \ {i} : endpoints'[j] = endpoints[j]
            BY <2>3, <2>4, <2>6
        <2>16. AllSound'
            BY <2>4, <2>14, <2>15 DEF AllSound
        <2>17. Typed'
            <3>1. completions' \in Seq(Completion)
                BY <1>0, <2>1, <2>2, RemoveAtFacts
            <3> QED
                BY <2>1, <3>1 DEF IInv, Typed, loop
        <2>18. Given' = Given
            <3>1. \A j \in Index : endpoints'[j].dispatched + Len(endpoints'[j].pending)
                                     = endpoints[j].dispatched + Len(endpoints[j].pending)
                BY <2>13, <2>15
            <3> QED
                BY <3>1 DEF Given
        <2>19. ASSUME NEW j \in Index
               PROVE  /\ Cardinality(Served(j, completions)) \in Nat
                      /\ Cardinality(Served(j, completions')) =
                           Cardinality(Served(j, completions)) - IF i = j THEN 1 ELSE 0
            BY <1>0, <2>1, <2>2, ServedShrinks, ServedIsFinite
        <2>20. ASSUME NEW j \in Index
               PROVE  /\ endpoints'[j].dispatched =
                           endpoints'[j].completed + Cardinality(Served(j, completions'))
                      /\ endpoints'[j].ctl.inflight = Cardinality(Served(j, completions'))
            <3>1. /\ endpoints[j].dispatched =
                       endpoints[j].completed + Cardinality(Served(j, completions))
                  /\ endpoints[j].ctl.inflight = Cardinality(Served(j, completions))
                  /\ endpoints[j].completed \in Nat /\ endpoints[j].dispatched \in Nat
                BY <2>4 DEF IInv, Balanced, Sound, Runtime
            <3>2. CASE j = i
                BY <2>12, <2>13, <2>15, <2>19, <3>1, <3>2
            <3>3. CASE j # i
                BY <2>15, <2>19, <3>1, <3>3
            <3> QED
                BY <3>2, <3>3
        <2>21. Balanced'
            BY <2>1, <2>18, <2>20 DEF IInv, Balanced
        <2> QED
            BY <2>16, <2>17, <2>21 DEF IInv
    <1> QED
        BY <1>1, <1>2

\* Who leaves an endpoint goes on to the next or to what follows.
LEMMA LeaveType ==
    ASSUME Typed, NEW ctl, NEW after \in Statements, NEW then \in Statements,
           Leave(ctl, after, then)
    PROVE  pc' \in Statements /\ at' \in Index
    BY SimulatorAssumption DEF Typed, Leave, Goto, Index

LEMMA LeaveHolds ==
    ASSUME IInv, NEW d \in ControllerOf(at), KeepsQueue(endpoints[at].ctl, d), Paced(d),
           NEW after \in Statements, NEW then \in Statements, Leave(d, after, then),
           UNCHANGED <<cursor, next_dispatch, next_arrival, report>>
    PROVE  IInv'
    <1>1. Typed'
        <2>1. pc' \in Statements /\ at' \in Index
            BY LeaveType DEF IInv
        <2> QED
            BY <2>1 DEF IInv, Typed, Leave
    <1>2. AllSound' /\ Balanced'
        <2>1. at \in Index
            BY DEF IInv, Typed
        <2> QED
            BY <2>1, Rerated DEF Leave
    <1> QED
        BY <1>1, <1>2 DEF IInv

\* When the worker who is free first will be done.
DoneAt(i) ==
    LET available_at == endpoints[i].available_at
    IN SaturatingAdd(Later(available_at[FreeWorker(available_at)], cursor), ServiceTime)

LEMMA DoneAtIsInstant ==
    ASSUME IInv, NEW i \in Index
    PROVE  DoneAt(i) \in Instant /\ (cursor < MaxInstant => DoneAt(i) > cursor)
    <1> DEFINE free == endpoints[i].available_at[FreeWorker(endpoints[i].available_at)]
               start == Later(free, cursor)
    <1>1. endpoints[i].available_at \in [Worker -> Instant]
        BY DEF IInv, AllSound, Sound, Runtime
    <1>2. free \in Instant /\ cursor \in Instant
        BY <1>1, FreeWorkerIsWorker DEF IInv, Typed
    <1> HIDE DEF free
    <1>3. start \in Instant /\ start >= cursor
        BY <1>2, ConfigAssumption DEF Later, Instant
    <1>4. ServiceTime \in Nat \ {0}
        BY SimulatorAssumption
    <1> HIDE DEF start
    <1>5. SaturatingAdd(start, ServiceTime) \in Instant
          /\ (cursor < MaxInstant => SaturatingAdd(start, ServiceTime) > cursor)
        BY <1>2, <1>3, <1>4, ConfigAssumption DEF SaturatingAdd, Earlier, Instant
    <1> QED
        BY <1>5 DEF DoneAt, start, free

\* What a step of drive_all does to the head it finds ready.
LEMMA ServeHolds ==
    ASSUME IInv, endpoints[at].pending # <<>>, NEW draw \in Draw, NEW again \in Draw,
           Check(endpoints[at].ctl, Head(endpoints[at].pending), draw, cursor).answer.tag = "Ready",
           Serve(OnDispatched(
                   Check(endpoints[at].ctl, Head(endpoints[at].pending), draw, cursor).ctl,
                   Head(endpoints[at].pending), again, cursor),
                 FreeWorker(endpoints[at].available_at), DoneAt(at)),
           UNCHANGED <<cursor, next_dispatch, next_arrival, report>>
    PROVE  IInv'
    <1> DEFINE e == endpoints[at]
               r == Head(e.pending)
               k == Check(e.ctl, r, draw, cursor).ctl
               result == OnDispatched(k, r, again, cursor)
               w == FreeWorker(e.available_at)
               x == DoneAt(at)
               f == AfterServing(e, result, w, x)
               c == [at |-> x, endpoint |-> at, request |-> result.token]
    <1>1. /\ at \in Index /\ cursor \in Instant /\ DOMAIN endpoints = Index
          /\ Sound(at, e) /\ \A j \in Index : Sound(j, endpoints[j])
          /\ completions \in Seq(Completion)
        BY DEF IInv, Typed, AllSound
    <1>2. e \in Runtime(at) /\ e.ctl \in ControllerOf(at) /\ Paced(e.ctl)
        BY <1>1 DEF Sound, Runtime
    <1>3. Owns(e.ctl, r) /\ HeadIs(e.ctl, r.id)
        BY <1>1, HeadOwns
    <1>4. result.answer.tag = "Ready"
        BY <1>1, <1>2, <1>3, ReadyIsClaimed
    <1>5. k \in ControllerOf(at) /\ KeepsQueue(e.ctl, k) /\ Paced(k)
        BY <1>1, CheckSound
    <1>6. x \in Instant
        BY <1>1, DoneAtIsInstant
    <1>7. /\ endpoints' = [endpoints EXCEPT ![at].ctl = result.ctl, ![at].pending = Tail(@),
                             ![at].available_at[w] = x, ![at].dispatched = @ + 1]
          /\ completions' = Append(completions, c)
          /\ UNCHANGED loop
        BY DEF Serve
    <1> HIDE DEF k, w, x
    <1>8. /\ Sound(at, f)
          /\ result.token \in TokenOf(at)
          /\ f.ctl.inflight = e.ctl.inflight + 1
          /\ f.completed = e.completed /\ f.dispatched = e.dispatched + 1
          /\ Len(f.pending) = Len(e.pending) - 1
        <2>1. e.pending # <<>> /\ result = OnDispatched(k, Head(e.pending), again, cursor)
            OBVIOUS
        <2>2. again \in Draw /\ cursor \in Instant /\ Sound(at, e)
            BY <1>1
        <2> HIDE DEF e, r, result, f, c
        <2>3. Serves(at, e, AfterServing(e, result, w, x), result.token)
            BY <1>4, <1>5, <1>6, <2>1, <2>2, SoundServed
        <2> QED
            BY <2>3 DEF f, Serves
    <1> HIDE DEF result
    <1>9. endpoints' = [endpoints EXCEPT ![at] = f]
        BY <1>1, <1>2, <1>7 DEF Runtime, AfterServing
    <1>10. c \in Completion /\ c.endpoint = at
        <2>1. c \in CompletionOf(at)
            BY <1>6, <1>8 DEF CompletionOf
        <2> QED
            BY <1>1, <2>1 DEF Completion
    <1> HIDE DEF f, c
    <1>11. /\ DOMAIN endpoints' = Index /\ endpoints'[at] = f
           /\ \A j \in Index \ {at} : endpoints'[j] = endpoints[j]
        BY <1>1, <1>9
    <1>12. AllSound'
        BY <1>1, <1>8, <1>11 DEF AllSound
    <1>13. Typed'
        <2>1. completions' \in Seq(Completion)
            BY <1>1, <1>7, <1>10, AppendProperties
        <2> QED
            BY <1>7, <2>1 DEF IInv, Typed, loop
    <1>14. \A j \in Index : /\ endpoints[j].dispatched \in Nat /\ endpoints[j].completed \in Nat
                            /\ Len(endpoints[j].pending) \in Nat
        BY <1>1 DEF Sound, Runtime
    <1>15. Given' = Given
        <2>1. ASSUME NEW j \in Index
              PROVE  endpoints'[j].dispatched + Len(endpoints'[j].pending)
                       = endpoints[j].dispatched + Len(endpoints[j].pending)
            <3>1. CASE j = at
                <4>1. /\ endpoints'[j].dispatched = endpoints[j].dispatched + 1
                      /\ Len(endpoints'[j].pending) = Len(endpoints[j].pending) - 1
                    BY <1>8, <1>11, <3>1
                <4>2. endpoints[j].dispatched \in Nat /\ Len(endpoints[j].pending) \in Nat
                    BY <1>14
                <4> DEFINE d == endpoints'[j].dispatched
                           q == Len(endpoints'[j].pending)
                           dispatched == endpoints[j].dispatched
                           queued == Len(endpoints[j].pending)
                <4>3. d = dispatched + 1 /\ q = queued - 1
                    BY <4>1
                <4>4. dispatched \in Nat /\ queued \in Nat
                    BY <4>2
                <4> HIDE DEF d, q, dispatched, queued
                <4>5. d + q = dispatched + queued
                    BY <4>3, <4>4
                <4> QED
                    BY <4>5 DEF d, q, dispatched, queued
            <3>2. CASE j # at
                BY <1>11, <3>2
            <3> QED
                BY <3>1, <3>2
        <2> QED
            BY <2>1 DEF Given
    <1>16. ASSUME NEW j \in Index
           PROVE  /\ endpoints'[j].dispatched =
                       endpoints'[j].completed + Cardinality(Served(j, completions'))
                  /\ endpoints'[j].ctl.inflight = Cardinality(Served(j, completions'))
        <2>1. Cardinality(Served(j, completions)) \in Nat
            BY <1>1, ServedIsFinite
        <2>2. Cardinality(Served(j, completions')) =
                Cardinality(Served(j, completions)) + IF at = j THEN 1 ELSE 0
            BY <1>1, <1>7, <1>10, ServedGrows
        <2>3. /\ endpoints[j].dispatched =
                   endpoints[j].completed + Cardinality(Served(j, completions))
              /\ endpoints[j].ctl.inflight = Cardinality(Served(j, completions))
            BY DEF IInv, Balanced
        <2>4. CASE j = at
            <3>1. /\ endpoints'[j].dispatched = endpoints[j].dispatched + 1
                  /\ endpoints'[j].completed = endpoints[j].completed
                  /\ endpoints'[j].ctl.inflight = endpoints[j].ctl.inflight + 1
                BY <1>8, <1>11, <2>4
            <3>2. Cardinality(Served(j, completions')) = Cardinality(Served(j, completions)) + 1
                BY <2>2, <2>4
            <3>3. endpoints[j].dispatched \in Nat /\ endpoints[j].completed \in Nat
                BY <1>14
            <3> QED
                BY <2>1, <2>3, <3>1, <3>2, <3>3
        <2>5. CASE j # at
            BY <1>11, <1>14, <2>1, <2>2, <2>3, <2>5
        <2> QED
            BY <2>4, <2>5
    <1>17. Balanced'
        BY <1>15, <1>16 DEF IInv, Balanced
    <1> QED
        BY <1>12, <1>13, <1>17 DEF IInv

\* The three things that can happen at an endpoint.
LEMMA DriveHeadCases ==
    ASSUME IInv, NEW before, NEW after, NEW then, DriveHead(before, after, then)
    PROVE  \/ endpoints[at].pending = <<>> /\ Leave(endpoints[at].ctl, after, then)
           \/ /\ endpoints[at].pending # <<>>
              /\ \E draw \in Draw :
                    LET checked == Check(endpoints[at].ctl, Head(endpoints[at].pending), draw, cursor)
                    IN \/ checked.answer.tag # "Ready" /\ Leave(checked.ctl, after, then)
                       \/ /\ checked.answer.tag = "Ready"
                          /\ \E again \in Draw :
                                Serve(OnDispatched(checked.ctl, Head(endpoints[at].pending),
                                                   again, cursor),
                                      FreeWorker(endpoints[at].available_at), DoneAt(at))
    <1> DEFINE checked(draw) == Check(endpoints[at].ctl, Head(endpoints[at].pending), draw, cursor)
               Parts(k) ==
                  \/ /\ k.answer.tag = "Ready"
                     /\ Dispatch(k.ctl, Head(endpoints[at].pending), endpoints[at])
                  \/ k.answer.tag # "Ready" /\ Leave(k.ctl, after, then)
    <1>1. CASE endpoints[at].pending = <<>>
        BY <1>1 DEF DriveHead
    <1>2. CASE endpoints[at].pending # <<>>
        <2>1. PICK draw \in Draws(endpoints[at].ctl, cursor) : Parts(checked(draw))
            BY <1>2 DEF DriveHead
        <2>2. draw \in Draw
            BY DrawsType
        <2>3. CASE checked(draw).answer.tag # "Ready" /\ Leave(checked(draw).ctl, after, then)
            BY <1>2, <2>2, <2>3
        <2>4. CASE /\ checked(draw).answer.tag = "Ready"
                   /\ Dispatch(checked(draw).ctl, Head(endpoints[at].pending), endpoints[at])
            <3>1. PICK again \in Draws(checked(draw).ctl, cursor) :
                     Serve(OnDispatched(checked(draw).ctl, Head(endpoints[at].pending), again, cursor),
                           FreeWorker(endpoints[at].available_at), DoneAt(at))
                BY <2>4 DEF Dispatch, DoneAt
            <3>2. again \in Draw
                BY DrawsType
            <3> QED
                BY <1>2, <2>2, <2>4, <3>1, <3>2
        <2> QED
            BY <2>1, <2>3, <2>4
    <1> QED
        BY <1>1, <1>2

LEMMA DriveHeadHolds ==
    ASSUME IInv, NEW before, NEW after \in Statements, NEW then \in Statements,
           DriveHead(before, after, then)
    PROVE  IInv'
    <1>1. /\ at \in Index /\ Sound(at, endpoints[at]) /\ cursor \in Instant
          /\ UNCHANGED <<cursor, next_dispatch, next_arrival, report>>
        BY DEF IInv, Typed, AllSound, DriveHead
    <1>2. CASE endpoints[at].pending = <<>> /\ Leave(endpoints[at].ctl, after, then)
        <2>1. /\ endpoints[at].ctl \in ControllerOf(at) /\ Paced(endpoints[at].ctl)
              /\ KeepsQueue(endpoints[at].ctl, endpoints[at].ctl)
            BY <1>1 DEF Sound, Runtime, KeepsQueue
        <2> QED
            BY <1>1, <1>2, <2>1, LeaveHolds
    <1>3. ASSUME endpoints[at].pending # <<>>, NEW draw \in Draw,
                 Leave(Check(endpoints[at].ctl, Head(endpoints[at].pending), draw, cursor).ctl,
                       after, then)
          PROVE  IInv'
        BY <1>1, <1>3, CheckSound, LeaveHolds
    <1>4. ASSUME endpoints[at].pending # <<>>, NEW draw \in Draw, NEW again \in Draw,
                 Check(endpoints[at].ctl, Head(endpoints[at].pending), draw, cursor).answer.tag = "Ready",
                 Serve(OnDispatched(
                         Check(endpoints[at].ctl, Head(endpoints[at].pending), draw, cursor).ctl,
                         Head(endpoints[at].pending), again, cursor),
                       FreeWorker(endpoints[at].available_at), DoneAt(at))
          PROVE  IInv'
        BY <1>1, <1>4, ServeHolds
    <1> QED
        BY <1>2, <1>3, <1>4, DriveHeadCases

\* Offered is accepted or turned away.
LEMMA OfferIsReported ==
    ASSUME NEW r \in Report, r.offered = r.accepted + r.backpressured, NEW s
    PROVE  /\ s = [r EXCEPT !.offered = @ + 1, !.accepted = @ + 1] =>
                /\ s \in Report /\ s.offered = s.accepted + s.backpressured
                /\ s.accepted = r.accepted + 1
           /\ s = [r EXCEPT !.offered = @ + 1, !.backpressured = @ + 1] =>
                /\ s \in Report /\ s.offered = s.accepted + s.backpressured
                /\ s.accepted = r.accepted
    <1> DEFINE offered == r.offered + 1
               accepted == r.accepted + 1
               backpressured == r.backpressured + 1
    <1>1. /\ r.offered \in Nat /\ r.accepted \in Nat /\ r.backpressured \in Nat
          /\ offered \in Nat /\ accepted \in Nat /\ backpressured \in Nat
          /\ offered = accepted + r.backpressured /\ offered = r.accepted + backpressured
        BY DEF Report
    <1> HIDE DEF offered, accepted, backpressured
    <1>2. ASSUME s = [r EXCEPT !.offered = offered, !.accepted = accepted]
          PROVE  /\ s \in Report /\ s.offered = offered /\ s.accepted = accepted
                 /\ s.backpressured = r.backpressured
        BY <1>1, <1>2 DEF Report
    <1>3. ASSUME s = [r EXCEPT !.offered = offered, !.backpressured = backpressured]
          PROVE  /\ s \in Report /\ s.offered = offered /\ s.accepted = r.accepted
                 /\ s.backpressured = backpressured
        BY <1>1, <1>3 DEF Report
    <1>4. ASSUME s = [r EXCEPT !.offered = @ + 1, !.accepted = @ + 1]
          PROVE  /\ s \in Report /\ s.offered = s.accepted + s.backpressured
                 /\ s.accepted = r.accepted + 1
        BY <1>1, <1>2, <1>4 DEF offered, accepted
    <1>5. ASSUME s = [r EXCEPT !.offered = @ + 1, !.backpressured = @ + 1]
          PROVE  /\ s \in Report /\ s.offered = s.accepted + s.backpressured
                 /\ s.accepted = r.accepted
        BY <1>1, <1>3, <1>5 DEF offered, backpressured
    <1> QED
        BY <1>4, <1>5

\* What the books say of two endpoints is the same.
SameBooks(e, f) ==
    /\ f.dispatched = e.dispatched /\ f.completed = e.completed
    /\ Len(f.pending) = Len(e.pending) /\ f.ctl.inflight = e.ctl.inflight

\* An endpoint that is asked takes the request and its ticket, or it is turned away.
LEMMA OfferBalances ==
    ASSUME IInv, NEW runtimes, DOMAIN runtimes = Index,
           \A j \in Index : Sound(j, runtimes[j]) /\ SameBooks(endpoints[j], runtimes[j]),
           NEW i \in Index, Offer(runtimes, i), completions' = completions
    PROVE  /\ AllSound' /\ Balanced'
           /\ report' \in Report
    <1>1. /\ report \in Report
          /\ cursor \in Instant /\ AllSound
          /\ report.offered = report.accepted + report.backpressured
        BY DEF IInv, Typed, Balanced
    <1>2. CASE ~CanReserve(runtimes[i].ctl)
        <2>1. /\ endpoints' = runtimes
              /\ report' = [report EXCEPT !.offered = @ + 1, !.backpressured = @ + 1]
            BY <1>2 DEF Offer
        <2>2. AllSound'
            BY <2>1 DEF AllSound
        <2>3. Given' = Given
            BY <2>1 DEF Given, SameBooks
        <2>4. report' \in Report /\ report'.accepted = report.accepted
            BY <1>1, <2>1, OfferIsReported
        <2>5. report'.offered = report'.accepted + report'.backpressured
            BY <1>1, <2>1, OfferIsReported
        <2>6. Balanced'
            BY <2>1, <2>3, <2>4, <2>5 DEF IInv, Balanced, SameBooks
        <2> QED
            BY <2>2, <2>4, <2>6
    <1>3. CASE CanReserve(runtimes[i].ctl)
        <2> DEFINE e == runtimes[i]
                   f == AfterReserving(i, e, cursor)
        <2>1. /\ endpoints' = [runtimes EXCEPT ![i].ctl = Reserve(@, cursor),
                   ![i].pending = Append(@, [controller_id |-> i, id |-> runtimes[i].ctl.next_id])]
              /\ report' = [report EXCEPT !.offered = @ + 1, !.accepted = @ + 1]
            BY <1>3 DEF Offer
        <2>2. Sound(i, e)
            OBVIOUS
        <2>3. endpoints' = [runtimes EXCEPT ![i] = f]
            BY <2>1, <2>2 DEF Sound, Runtime, AfterReserving
        <2>4. /\ Sound(i, f) /\ f.ctl.inflight = e.ctl.inflight
              /\ f.completed = e.completed /\ f.dispatched = e.dispatched
              /\ Len(f.pending) = Len(e.pending) + 1
            <3>1. Accepts(i, e, f)
                BY <1>1, <1>3, <2>2, SoundOffered
            <3> QED
                BY <3>1 DEF Accepts
        <2> HIDE DEF f
        <2>5. /\ DOMAIN endpoints' = Index /\ endpoints'[i] = f
              /\ \A j \in Index \ {i} : endpoints'[j] = runtimes[j]
            BY <2>3
        <2>6. AllSound'
            BY <2>4, <2>5 DEF AllSound
        <2>7. report' \in Report /\ report'.accepted = report.accepted + 1
            BY <1>1, <2>1, OfferIsReported
        <2>8. report'.offered = report'.accepted + report'.backpressured
            BY <1>1, <2>1, OfferIsReported
        <2>9. Given \in [Index -> Nat]
            BY <1>1, GivenIsCount
        <2>10. Given' \in [Index -> Nat]
            BY <2>6 DEF AllSound, Sound, Runtime, Given
        <2>11. Given' = [Given EXCEPT ![i] = @ + 1]
            <3>1. ASSUME NEW j \in Index \ {i}
                  PROVE  endpoints'[j].dispatched + Len(endpoints'[j].pending)
                           = endpoints[j].dispatched + Len(endpoints[j].pending)
                BY <2>5 DEF SameBooks
            <3>2. endpoints'[i].dispatched + Len(endpoints'[i].pending)
                    = (endpoints[i].dispatched + Len(endpoints[i].pending)) + 1
                <4>1. /\ endpoints'[i].dispatched = endpoints[i].dispatched
                      /\ Len(endpoints'[i].pending) = Len(endpoints[i].pending) + 1
                    BY <2>4, <2>5 DEF SameBooks
                <4>2. endpoints[i].dispatched \in Nat /\ Len(endpoints[i].pending) \in Nat
                    BY <1>1 DEF AllSound, Sound, Runtime
                <4> QED
                    BY <4>1, <4>2
            <3> QED
                BY <3>1, <3>2 DEF Given
        <2>12. /\ IsFiniteSet(Requests(Given'))
               /\ Cardinality(Requests(Given')) = Cardinality(Requests(Given)) + 1
            BY <2>9, <2>10, <2>11, OneMoreRequest DEF IInv, Balanced
        <2>13. \A j \in Index : SameBooks(endpoints[j], runtimes[j]) /\
                  /\ endpoints'[j].dispatched = endpoints[j].dispatched
                  /\ endpoints'[j].completed = endpoints[j].completed
                  /\ endpoints'[j].ctl.inflight = endpoints[j].ctl.inflight
            BY <2>4, <2>5 DEF SameBooks
        <2>14. Balanced'
            BY <2>7, <2>8, <2>12, <2>13 DEF IInv, Balanced
        <2> QED
            BY <2>6, <2>7, <2>14
    <1> QED
        BY <1>2, <1>3

\* The two sampled endpoints, refreshed once more.
LEMMA SampledRuntimes ==
    ASSUME IInv, NEW a \in Index, NEW b \in Index, a # b, NEW first \in Draw, NEW second \in Draw,
           NEW runtimes,
           runtimes = [endpoints EXCEPT ![a].ctl = Refresh(@, first, cursor),
                                        ![b].ctl = Refresh(@, second, cursor)]
    PROVE  /\ DOMAIN runtimes = Index
           /\ \A j \in Index : Sound(j, runtimes[j]) /\ SameBooks(endpoints[j], runtimes[j])
    <1> DEFINE c == Refresh(endpoints[a].ctl, first, cursor)
               d == Refresh(endpoints[b].ctl, second, cursor)
               f == [endpoints[a] EXCEPT !.ctl = c]
               g == [endpoints[b] EXCEPT !.ctl = d]
    <1>1. /\ DOMAIN endpoints = Index /\ cursor \in Instant
          /\ \A j \in Index : Sound(j, endpoints[j])
        BY DEF IInv, AllSound, Typed
    <1>2. c \in ControllerOf(a) /\ KeepsQueue(endpoints[a].ctl, c) /\ Paced(c)
        BY <1>1, RefreshSound
    <1>3. d \in ControllerOf(b) /\ KeepsQueue(endpoints[b].ctl, d) /\ Paced(d)
        BY <1>1, RefreshSound
    <1>4. runtimes = [endpoints EXCEPT ![a].ctl = c, ![b].ctl = d]
        BY <1>1
    <1> HIDE DEF c, d
    <1>5. runtimes = [endpoints EXCEPT ![a] = f, ![b] = g]
        BY <1>1, <1>4
    <1>6. Sound(a, f) /\ SameBooks(endpoints[a], f)
        BY <1>1, <1>2, SoundRerated DEF SameBooks
    <1>7. Sound(b, g) /\ SameBooks(endpoints[b], g)
        BY <1>1, <1>3, SoundRerated DEF SameBooks
    <1> HIDE DEF f, g
    <1>8. /\ DOMAIN runtimes = Index /\ runtimes[a] = f /\ runtimes[b] = g
          /\ \A j \in Index \ {a, b} : runtimes[j] = endpoints[j]
        BY <1>1, <1>5
    <1>9. ASSUME NEW j \in Index
          PROVE  Sound(j, runtimes[j]) /\ SameBooks(endpoints[j], runtimes[j])
        BY <1>1, <1>6, <1>7, <1>8 DEF SameBooks
    <1> QED
        BY <1>8, <1>9

LEMMA ChooseHolds ==
    ASSUME IInv, Choose
    PROVE  IInv'
    <1>1. /\ DOMAIN endpoints = Index /\ cursor \in Instant
          /\ \A j \in Index : Sound(j, endpoints[j]) /\ SameBooks(endpoints[j], endpoints[j])
          /\ completions' = completions
        BY DEF IInv, AllSound, Typed, Choose, SameBooks
    <1>2. /\ AllSound' /\ Balanced'
          /\ report' \in Report
        <2>1. CASE /\ report' = [report EXCEPT !.offered = @ + 1, !.backpressured = @ + 1]
                   /\ UNCHANGED endpoints
            <3>1. /\ report \in Report
                  /\ report.offered = report.accepted + report.backpressured
                BY DEF IInv, Typed, Balanced
            <3>2. report' \in Report /\ report'.accepted = report.accepted
                BY <2>1, <3>1, OfferIsReported
            <3>3. report'.offered = report'.accepted + report'.backpressured
                BY <2>1, <3>1, OfferIsReported
            <3>4. Given' = Given /\ AllSound'
                BY <2>1 DEF Given, AllSound, IInv
            <3> QED
                BY <1>1, <2>1, <3>2, <3>3, <3>4 DEF IInv, Balanced
        <2>2. ASSUME NEW i \in Index, Offer(endpoints, i)
              PROVE  /\ AllSound' /\ Balanced'
                     /\ report' \in Report
            BY <1>1, <2>2, OfferBalances
        <2>3. ASSUME NEW a \in Ready, NEW b \in Ready, a # b,
                     NEW first \in Draw, NEW second \in Draw, NEW runtimes,
                     runtimes = [endpoints EXCEPT ![a].ctl = Refresh(@, first, cursor),
                                                  ![b].ctl = Refresh(@, second, cursor)],
                     Offer(runtimes, Preferred(runtimes, a, b))
              PROVE  /\ AllSound' /\ Balanced'
                     /\ report' \in Report
            <3>1. a \in Index /\ b \in Index
                BY DEF Ready
            <3>2. /\ DOMAIN runtimes = Index
                  /\ \A j \in Index : Sound(j, runtimes[j]) /\ SameBooks(endpoints[j], runtimes[j])
                BY <2>3, <3>1, SampledRuntimes
            <3>3. Preferred(runtimes, a, b) \in Index
                BY <3>1 DEF Preferred
            <3> QED
                BY <1>1, <2>3, <3>2, <3>3, OfferBalances
        <2>4. CASE \E a, b \in Ready :
                     /\ a # b
                     /\ \E runtimes \in {[endpoints EXCEPT
                                            ![a].ctl = Refresh(@, draws[1], cursor),
                                            ![b].ctl = Refresh(@, draws[2], cursor)] :
                                         draws \in Draws(endpoints[a].ctl, cursor)
                                                   \X Draws(endpoints[b].ctl, cursor)} :
                           Offer(runtimes, Preferred(runtimes, a, b))
            <3>1. PICK a \in Ready, b \in Ready :
                     /\ a # b
                     /\ \E runtimes \in {[endpoints EXCEPT
                                            ![a].ctl = Refresh(@, draws[1], cursor),
                                            ![b].ctl = Refresh(@, draws[2], cursor)] :
                                         draws \in Draws(endpoints[a].ctl, cursor)
                                                   \X Draws(endpoints[b].ctl, cursor)} :
                           Offer(runtimes, Preferred(runtimes, a, b))
                BY <2>4
            <3> DEFINE Sampled(draws) == [endpoints EXCEPT
                                            ![a].ctl = Refresh(@, draws[1], cursor),
                                            ![b].ctl = Refresh(@, draws[2], cursor)]
            <3>2. PICK draws \in Draws(endpoints[a].ctl, cursor) \X Draws(endpoints[b].ctl, cursor) :
                     Offer(Sampled(draws), Preferred(Sampled(draws), a, b))
                BY <3>1
            <3>3. draws[1] \in Draw /\ draws[2] \in Draw
                BY DrawsType
            <3> QED
                BY <2>3, <3>1, <3>2, <3>3
        <2> QED
            BY <2>1, <2>2, <2>4 DEF Choose
    <1>3. Typed'
        <2>1. pc' \in Statements /\ at' \in Index
            BY IndexIsNat DEF Choose, Goto, Statements
        <2>2. next_arrival' \in Instant
            BY SimulatorAssumption, ConfigAssumption DEF IInv, Typed, Choose, Instant
        <2> QED
            BY <1>2, <2>1, <2>2 DEF IInv, Typed, Choose
    <1> QED
        BY <1>2, <1>3 DEF IInv

\* IInv is kept by every step.
LEMMA StepHolds ==
    ASSUME IInv, [Next]_vars
    PROVE  IInv'
    <1>1. CASE UNCHANGED vars
        <2>1. Typed'
            BY <1>1 DEF IInv, Typed, vars, loop
        <2> QED
            BY <1>1, <2>1, BooksKept DEF IInv, vars
    <1>2. CASE Next
        <2>1. Statements = Statements \cup {"drive", "head", "arrive", "redrive", "rehead", "loop"}
            BY DEF Statements
        <2> QED
            BY <1>2, <2>1, LoopTestHolds, PeekHolds, PickEventHolds, CompleteReadyHolds, DriveHolds,
               DriveHeadHolds, ArriveHolds, RefreshForChoiceHolds, ChooseHolds DEF Next
    <1> QED
        BY <1>1, <1>2

\* The endpoints hold what their controllers queued, and the books balance.
THEOREM Invariance == Spec => []IInv
    BY InitHolds, StepHolds, PTL DEF Spec

\* Every request is accounted for, whatever arrives, completes or is turned away.
THEOREM EveryRequestCounts == Spec => []AccountsBalance
    <1>1. ASSUME IInv
          PROVE  AccountsBalance
        <2>1. ASSUME NEW i \in Index
              PROVE  [n \in DOMAIN endpoints[i].pending |-> endpoints[i].pending[n].id]
                     = [n \in DOMAIN endpoints[i].ctl.pending |-> endpoints[i].ctl.pending[n].id]
            <3>1. Sound(i, endpoints[i])
                BY <1>1 DEF IInv, AllSound
            <3>2. /\ endpoints[i].pending \in Seq(Ticket(i))
                  /\ endpoints[i].ctl.pending \in Seq(Pending)
                BY <3>1 DEF Sound, Runtime, ControllerOf
            <3>3. /\ DOMAIN endpoints[i].pending = 1 .. Len(endpoints[i].pending)
                  /\ DOMAIN endpoints[i].ctl.pending = 1 .. Len(endpoints[i].pending)
                BY <3>1, <3>2 DEF Sound, Queued
            <3> QED
                BY <3>1, <3>3 DEF Sound
        <2> QED
            BY <1>1, <2>1 DEF IInv, Balanced, AccountsBalance
    <1> QED
        BY <1>1, Invariance, PTL
-------------------------------------------------------------------------------
(* Time.  The last instant has no later one, so a simulation that reached it   *)
(* could not move on; End is an instant before it.                             *)

\* The head of the endpoint, if it has one, has been asked at `now` and waits.
Resting(e, now) == e.pending # <<>> => AtRest(e.ctl, now) /\ HeadWaits(e.ctl, now)

\* The second drive_all() has left endpoint i behind.
Left(i) ==
    \/ pc \in {"loop", "peek", "event"}
    \/ pc \in {"redrive", "rehead"} /\ i < at

Rested == \A i \in Index : Left(i) => Resting(endpoints[i], cursor)

\* What is in service is not done yet, but between an event and its completions.
Ahead ==
    pc \notin {"complete", "done"} => \A n \in 1 .. Len(completions) : completions[n].at > cursor

Clocked ==
    /\ cursor <= next_arrival
    /\ pc \in {"ready", "choose"} => cursor = next_arrival
    /\ pc \in {"redrive", "rehead"} => cursor < next_arrival
    /\ pc \in {"loop", "peek", "event"} => cursor < next_arrival \/ report.offered = 0
    /\ pc \in {"peek", "event"} /\ next_dispatch # None => next_dispatch > cursor

Timely == Rested /\ Ahead /\ Clocked

LEMMA RestedKept ==
    ASSUME Rested, endpoints' = endpoints, cursor' = cursor,
           \A i \in Index : Left(i)' => Left(i)
    PROVE  Rested'
    BY DEF Rested

LEMMA AheadKept ==
    ASSUME Ahead, pc \notin {"complete", "done"}, completions' = completions, cursor' = cursor
    PROVE  Ahead'
    BY DEF Ahead

LEMMA LoopTestTimely ==
    ASSUME IInv, Timely, LoopTest
    PROVE  Timely'
    <1>1. /\ pc = "loop" /\ pc' \in {"peek", "done"} /\ next_dispatch' = None
          /\ UNCHANGED <<cursor, next_arrival, endpoints, completions, report>>
        BY DEF LoopTest, Goto
    <1>2. Rested'
        BY <1>1, RestedKept DEF Timely, Left
    <1>3. Ahead'
        BY <1>1, AheadKept DEF Timely
    <1>4. Clocked'
        BY <1>1 DEF Timely, Clocked
    <1> QED
        BY <1>2, <1>3, <1>4 DEF Timely

\* At rest the loop is told again that the head waits, and until when.
LEMMA PeekTimely ==
    ASSUME IInv, Timely, Peek
    PROVE  Timely'
    <1>1. /\ pc = "peek" /\ pc' \in {"peek", "event"}
          /\ UNCHANGED <<cursor, next_arrival, completions, report>>
          /\ at \in Index
        BY DEF Peek, Onward, Goto, IInv, Typed
    <1>2. Ahead'
        BY <1>1, AheadKept DEF Timely
    <1>3. CASE endpoints[at].pending = <<>>
        <2>1. UNCHANGED <<next_dispatch, endpoints>>
            BY <1>3 DEF Peek
        <2>2. Rested'
            BY <1>1, <2>1, RestedKept DEF Timely, Left
        <2>3. Clocked'
            BY <1>1, <2>1 DEF Timely, Clocked
        <2> QED
            BY <1>2, <2>2, <2>3 DEF Timely
    <1>4. CASE endpoints[at].pending # <<>>
        <2> DEFINE c == endpoints[at].ctl
                   r == Head(endpoints[at].pending)
                   checked(draw) == Check(c, r, draw, cursor)
        <2>1. PICK draw \in Draws(c, cursor) :
                 /\ endpoints' = [endpoints EXCEPT ![at].ctl = checked(draw).ctl]
                 /\ next_dispatch' = Earliest(next_dispatch, DispatchAt(checked(draw).answer))
            BY <1>4 DEF Peek
        <2>2. draw \in Draw
            BY DrawsType
        <2>3. AtRest(c, cursor) /\ HeadWaits(c, cursor)
            BY <1>1, <1>4 DEF Timely, Rested, Left, Resting
        <2>4. Sound(at, endpoints[at]) /\ cursor \in Instant /\ DOMAIN endpoints = Index
            BY <1>1 DEF IInv, AllSound, Typed
        <2>5. c \in ControllerOf(at) /\ Paced(c)
            BY <2>4 DEF Sound, Runtime
        <2>6. Owns(c, r) /\ HeadIs(c, r.id)
            BY <1>4, <2>4, HeadOwns
        <2>7. checked(draw).answer.tag # "Ready"
            <3> HIDE DEF c, r
            <3> QED
                BY <2>2, <2>3, <2>4, <2>5, <2>6, AnswerAtRest
        <2>8. /\ AtRest(checked(draw).ctl, cursor)
              /\ checked(draw).answer.tag # "Ready" => HeadWaits(checked(draw).ctl, cursor)
              /\ \/ checked(draw).answer.tag \in {"Ready", "InflightLimit"}
                 \/ /\ checked(draw).answer.tag = "WaitUntil"
                    /\ checked(draw).answer.at \in Instant
                    /\ checked(draw).answer.at > cursor
            BY <1>1, <1>4, <2>2, HeadChecked
        <2> HIDE DEF c, r, checked
        <2>9. DispatchAt(checked(draw).answer) # None =>
                 DispatchAt(checked(draw).answer) > cursor
            BY <2>7, <2>8 DEF DispatchAt
        <2>10. next_dispatch' # None => next_dispatch' > cursor
            BY <1>1, <2>1, <2>9 DEF Earliest, Earlier, Timely, Clocked
        <2>11. Rested'
            <3>1. ASSUME NEW i \in Index PROVE Resting(endpoints'[i], cursor)
                <4>1. Resting(endpoints[i], cursor)
                    BY <1>1 DEF Timely, Rested, Left
                <4>2. CASE i = at
                    <5>1. endpoints'[i].ctl = checked(draw).ctl
                        BY <1>1, <2>1, <2>4, <4>2 DEF Sound, Runtime
                    <5> QED
                        BY <2>7, <2>8, <5>1 DEF Resting
                <4>3. CASE i # at
                    BY <2>1, <2>4, <4>1, <4>3
                <4> QED
                    BY <4>2, <4>3
            <3> QED
                BY <1>1, <3>1 DEF Rested
        <2>12. Clocked'
            BY <1>1, <2>10 DEF Timely, Clocked
        <2> QED
            BY <1>2, <2>11, <2>12 DEF Timely
    <1> QED
        BY <1>3, <1>4

LEMMA PickEventTimely ==
    ASSUME IInv, Timely, PickEvent
    PROVE  Timely'
    <1>1. /\ pc' \in {"complete", "done"} /\ cursor' \in {cursor, NextEvent}
          /\ UNCHANGED <<next_dispatch, next_arrival, endpoints, completions, report>>
        BY DEF PickEvent, Goto
    <1>2. NextEvent <= next_arrival
        BY NextEventFacts DEF IInv
    <1> QED
        BY <1>1, <1>2 DEF Timely, Rested, Left, Ahead, Clocked

LEMMA CompleteReadyTimely ==
    ASSUME IInv, Timely, CompleteReady
    PROVE  Timely'
    <1>1. /\ pc = "complete" /\ pc' \in {"complete", "drive"}
          /\ pc' = "drive" => Due = 0 /\ completions' = completions
          /\ UNCHANGED <<cursor, next_dispatch, next_arrival, report>>
        BY DEF CompleteReady, Goto, loop
    <1>2. Due = 0 => \A n \in 1 .. Len(completions) : completions[n].at > cursor
        BY DueFacts DEF IInv
    <1> QED
        BY <1>1, <1>2 DEF Timely, Rested, Left, Ahead, Clocked

LEMMA DriveTimely ==
    ASSUME IInv, Timely, NEW before, NEW after, Drive(before, after),
           \/ before = "drive" /\ after = "head"
           \/ before = "redrive" /\ after = "rehead"
    PROVE  Timely'
    <1>1. /\ pc = before /\ pc' = after /\ at' = at /\ at \in Index
          /\ UNCHANGED <<cursor, next_dispatch, next_arrival, completions, report>>
          /\ \E ctl : endpoints' = [endpoints EXCEPT ![at].ctl = ctl]
          /\ DOMAIN endpoints = Index
        BY DEF Drive, IInv, Typed, AllSound
    <1>2. Rested'
        <2>1. ASSUME NEW i \in Index, i < at, pc = "redrive"
              PROVE  Resting(endpoints'[i], cursor)
            <3>1. Resting(endpoints[i], cursor)
                BY <2>1 DEF Timely, Rested, Left
            <3>2. i # at /\ endpoints'[i] = endpoints[i]
                BY <1>1, <2>1, IndexIsNat
            <3> QED
                BY <3>1, <3>2
        <2> QED
            BY <1>1, <2>1 DEF Rested, Left
    <1>3. Ahead'
        BY <1>1, AheadKept DEF Timely
    <1>4. Clocked'
        BY <1>1 DEF Timely, Clocked
    <1> QED
        BY <1>2, <1>3, <1>4 DEF Timely

LEMMA ArriveTimely ==
    ASSUME IInv, Timely, Arrive
    PROVE  Timely'
    <1>1. /\ pc = "arrive" /\ at' = 1
          /\ pc' = IF cursor = next_arrival THEN "ready" ELSE "redrive"
          /\ UNCHANGED <<cursor, next_dispatch, next_arrival, endpoints, completions, report>>
        BY DEF Arrive, Goto
    <1>2. Rested'
        BY <1>1 DEF Rested, Left, Index
    <1>3. Ahead'
        BY <1>1, AheadKept DEF Timely
    <1>4. Clocked'
        BY <1>1 DEF Timely, Clocked, IInv, Typed, Instant
    <1> QED
        BY <1>2, <1>3, <1>4 DEF Timely

LEMMA RefreshForChoiceTimely ==
    ASSUME IInv, Timely, RefreshForChoice
    PROVE  Timely'
    <1>1. /\ pc = "ready" /\ pc' \in {"ready", "choose"}
          /\ UNCHANGED <<cursor, next_dispatch, next_arrival, completions, report>>
        BY DEF RefreshForChoice, Onward, Goto
    <1>2. Ahead'
        BY <1>1, AheadKept DEF Timely
    <1> QED
        BY <1>1, <1>2 DEF Timely, Rested, Left, Clocked

LEMMA ChooseTimely ==
    ASSUME IInv, Timely, Choose
    PROVE  Timely'
    <1>1. /\ pc = "choose" /\ at' = 1
          /\ \/ pc' = "done" /\ next_arrival' = next_arrival
             \/ pc' = "redrive" /\ next_arrival' = next_arrival + ArrivalInterval
          /\ UNCHANGED <<cursor, next_dispatch, completions>>
        BY DEF Choose, Goto
    <1>2. Rested'
        BY <1>1 DEF Rested, Left, Index
    <1>3. Ahead'
        BY <1>1, AheadKept DEF Timely
    <1>4. Clocked'
        BY <1>1, SimulatorAssumption DEF Timely, Clocked, IInv, Typed, Instant
    <1> QED
        BY <1>2, <1>3, <1>4 DEF Timely

\* An endpoint the loop leaves is at rest.
LEMMA LeaveTimely ==
    ASSUME IInv, Timely, NEW d, Resting([endpoints[at] EXCEPT !.ctl = d], cursor),
           NEW before, NEW after, NEW then, pc = before, Leave(d, after, then),
           \/ before = "head" /\ after = "drive" /\ then = "arrive"
           \/ before = "rehead" /\ after = "redrive" /\ then = "loop",
           UNCHANGED <<cursor, next_dispatch, next_arrival, report>>
    PROVE  Timely'
    <1>1. /\ at \in Index /\ DOMAIN endpoints = Index
          /\ endpoints' = [endpoints EXCEPT ![at] = [endpoints[at] EXCEPT !.ctl = d]]
          /\ completions' = completions
          /\ \/ at < Endpoints /\ pc' = after /\ at' = at + 1
             \/ ~(at < Endpoints) /\ pc' = then /\ at' = 1
        BY DEF Leave, Goto, IInv, Typed, AllSound
    <1>2. at \in Nat /\ Endpoints \in Nat
        BY <1>1, SimulatorAssumption DEF Index
    <1>3. Rested'
        <2>1. ASSUME NEW i \in Index, Left(i)', before = "rehead"
              PROVE  Resting(endpoints'[i], cursor)
            <3>1. i \in Nat /\ i <= Endpoints
                BY <1>2 DEF Index
            <3>2. i <= at
                BY <1>1, <1>2, <2>1, <3>1 DEF Left
            <3>3. CASE i = at
                BY <1>1, <3>3
            <3>4. CASE i # at
                <4>1. i < at
                    BY <1>2, <3>1, <3>2, <3>4
                <4>2. Resting(endpoints[i], cursor)
                    BY <2>1, <4>1 DEF Timely, Rested, Left
                <4> QED
                    BY <1>1, <3>4, <4>2
            <3> QED
                BY <3>3, <3>4
        <2> QED
            BY <1>1, <2>1 DEF Rested, Left
    <1>4. Ahead'
        BY <1>1, AheadKept DEF Timely
    <1>5. Clocked'
        BY <1>1 DEF Timely, Clocked
    <1> QED
        BY <1>3, <1>4, <1>5 DEF Timely

\* A head that is served will be done later; the endpoints left behind stay.
LEMMA ServeTimely ==
    ASSUME IInv, Timely, cursor < MaxInstant, NEW result, NEW w, NEW x, x > cursor,
           pc \in {"head", "rehead"}, Serve(result, w, x),
           UNCHANGED <<cursor, next_dispatch, next_arrival, report>>
    PROVE  Timely'
    <1> DEFINE c == [at |-> x, endpoint |-> at, request |-> result.token]
    <1>1. /\ at \in Index /\ DOMAIN endpoints = Index /\ completions \in Seq(Completion)
          /\ \A i \in Index \ {at} : endpoints'[i] = endpoints[i]
          /\ completions' = Append(completions, c)
          /\ pc' = pc /\ at' = at
        BY DEF Serve, loop, IInv, Typed, AllSound
    <1>2. c.at = x
        OBVIOUS
    <1> HIDE DEF c
    <1>3. ASSUME NEW n \in 1 .. Len(completions')
          PROVE  completions'[n].at > cursor
        <2>1. /\ Len(completions') = Len(completions) + 1 /\ Len(completions) \in Nat
              /\ completions'[Len(completions) + 1] = c
              /\ \A m \in 1 .. Len(completions) : completions'[m] = completions[m]
            BY <1>1
        <2>2. CASE n = Len(completions) + 1
            BY <1>2, <2>1, <2>2
        <2>3. CASE n # Len(completions) + 1
            <3>1. n \in 1 .. Len(completions)
                BY <2>1, <2>3
            <3> QED
                BY <2>1, <3>1 DEF Timely, Ahead
        <2> QED
            BY <2>2, <2>3
    <1>4. Ahead'
        BY <1>3 DEF Ahead
    <1>5. Rested'
        <2>1. ASSUME NEW i \in Index, Left(i)'
              PROVE  Resting(endpoints'[i], cursor)
            <3>1. i # at /\ Left(i)
                BY <1>1, <2>1, IndexIsNat DEF Left
            <3> QED
                BY <1>1, <3>1 DEF Timely, Rested
        <2> QED
            BY <2>1 DEF Rested
    <1>6. Clocked'
        BY <1>1 DEF Timely, Clocked
    <1> QED
        BY <1>4, <1>5, <1>6 DEF Timely

LEMMA DriveHeadTimely ==
    ASSUME IInv, Timely, cursor < MaxInstant, NEW before, NEW after, NEW then,
           DriveHead(before, after, then),
           \/ before = "head" /\ after = "drive" /\ then = "arrive"
           \/ before = "rehead" /\ after = "redrive" /\ then = "loop"
    PROVE  Timely'
    <1>1. /\ at \in Index /\ Sound(at, endpoints[at]) /\ cursor \in Instant
          /\ pc = before /\ UNCHANGED <<cursor, next_dispatch, next_arrival, report>>
        BY DEF IInv, Typed, AllSound, DriveHead
    <1>2. CASE endpoints[at].pending = <<>> /\ Leave(endpoints[at].ctl, after, then)
        <2>1. Resting([endpoints[at] EXCEPT !.ctl = endpoints[at].ctl], cursor)
            BY <1>1, <1>2 DEF Resting, Sound, Runtime
        <2> QED
            BY <1>1, <1>2, <2>1, LeaveTimely
    <1>3. ASSUME endpoints[at].pending # <<>>, NEW draw \in Draw, NEW checked,
                 checked = Check(endpoints[at].ctl, Head(endpoints[at].pending), draw, cursor),
                 checked.answer.tag # "Ready", Leave(checked.ctl, after, then)
          PROVE  Timely'
        <2>1. AtRest(checked.ctl, cursor) /\ HeadWaits(checked.ctl, cursor)
            BY <1>1, <1>3, HeadChecked
        <2>2. Resting([endpoints[at] EXCEPT !.ctl = checked.ctl], cursor)
            BY <1>1, <2>1 DEF Resting, Sound, Runtime
        <2> QED
            BY <1>1, <1>3, <2>2, LeaveTimely
    <1>4. ASSUME NEW result, NEW w, Serve(result, w, DoneAt(at))
          PROVE  Timely'
        <2>1. DoneAt(at) > cursor
            BY <1>1, DoneAtIsInstant
        <2>2. pc \in {"head", "rehead"}
            BY <1>1
        <2> QED
            BY <1>1, <1>4, <2>1, <2>2, ServeTimely
    <1> QED
        BY <1>2, <1>3, <1>4, DriveHeadCases

LEMMA InitTimely ==
    ASSUME Init
    PROVE  Timely
    <1>1. Rested
        <2>1. \A i \in Index : endpoints[i].pending = <<>>
            BY DEF Init
        <2> QED
            BY <2>1 DEF Rested, Resting
    <1>2. Ahead
        BY DEF Init, Ahead
    <1>3. Clocked
        BY DEF Init, Clocked
    <1> QED
        BY <1>1, <1>2, <1>3 DEF Timely

LEMMA StepTimely ==
    ASSUME IInv, Timely, End < MaxInstant, [Next]_vars
    PROVE  Timely'
    <1>1. cursor < MaxInstant
        BY SimulatorAssumption, ConfigAssumption DEF IInv, Typed, Instant
    <1>2. CASE UNCHANGED vars
        BY <1>2 DEF vars, loop, Timely, Rested, Left, Ahead, Clocked
    <1>3. CASE Next
        BY <1>1, <1>3, LoopTestTimely, PeekTimely, PickEventTimely, CompleteReadyTimely,
           DriveTimely, DriveHeadTimely, ArriveTimely, RefreshForChoiceTimely, ChooseTimely DEF Next
    <1> QED
        BY <1>2, <1>3

\* Between the iterations every head has been asked and waits, every service takes
\* longer than the present and the next arrival lies ahead, unless it is the first.
THEOREM KeepsTime == ASSUME End < MaxInstant PROVE Spec => []Timely
    BY InitTimely, StepTimely, Invariance, PTL DEF Spec

\* When an iteration ends nothing is left undone that was due at its instant: the
\* second drive_all() has asked every head, which waits, and what it dispatched
\* takes time.
THEOREM NothingIsLeft == ASSUME End < MaxInstant PROVE Spec => []NothingDueIsLeft
    <1>1. ASSUME IInv, Timely
          PROVE  NothingDueIsLeft
        <2>1. ASSUME pc = "loop", NEW c \in Range(completions)
              PROVE  c.at > cursor
            <3>1. \E n \in 1 .. Len(completions) : c = completions[n]
                BY <1>1 DEF Range, IInv, Typed
            <3> QED
                BY <1>1, <2>1, <3>1 DEF Timely, Ahead
        <2>2. ASSUME pc = "loop", NEW i \in Index, endpoints[i].pending # <<>>
              PROVE  HeadDue(endpoints[i].ctl) > cursor
            <3>1. /\ endpoints[i].ctl \in ControllerOf(i) /\ cursor \in Instant
                  /\ Queued(endpoints[i].ctl) = Len(endpoints[i].pending)
                  /\ endpoints[i].pending \in Seq(Ticket(i))
                BY <1>1 DEF IInv, Typed, AllSound, Sound, Runtime
            <3>2. Queued(endpoints[i].ctl) > 0
                BY <2>2, <3>1
            <3>3. AtRest(endpoints[i].ctl, cursor) /\ HeadWaits(endpoints[i].ctl, cursor)
                BY <1>1, <2>2 DEF Timely, Rested, Left, Resting
            <3> QED
                BY <3>1, <3>2, <3>3, WaitingIsDueLater
        <2> QED
            BY <2>1, <2>2 DEF NothingDueIsLeft
    <1> QED
        BY <1>1, Invariance, KeepsTime, PTL

\* After the first arrival every event is later than the last one, so the clock of
\* the simulation moves with each iteration of its loop.
THEOREM ClockMovesOn == ASSUME End < MaxInstant PROVE Spec => EveryEventIsLater
    <1>1. ASSUME IInv, Timely, [Next]_vars
          PROVE  [pc' = "complete" /\ pc = "event" => cursor' > cursor \/ report.offered = 0]_vars
        <2>1. ASSUME Next, pc' = "complete", pc = "event", report.offered # 0
              PROVE  cursor' > cursor
            <3>1. PickEvent
                BY <2>1 DEF Next, LoopTest, Peek, CompleteReady, Drive, DriveHead, Arrive,
                   RefreshForChoice, Choose
            <3>2. cursor' = NextEvent
                BY <2>1, <3>1 DEF PickEvent, Goto
            <3>3. /\ \/ NextEvent = next_arrival
                     \/ \E n \in 1 .. Len(completions) : NextEvent = completions[n].at
                     \/ next_dispatch # None /\ NextEvent = next_dispatch
                BY <1>1, NextEventFacts DEF IInv
            <3> QED
                BY <1>1, <2>1, <3>2, <3>3 DEF Timely, Ahead, Clocked
        <2> QED
            BY <1>1, <2>1
    <1> QED
        BY <1>1, Invariance, KeepsTime, PTL DEF Spec, EveryEventIsLater
=============================================================================
