------------------------------- MODULE Simulator -------------------------------
(* simulate(): a closed system of endpoints driven event by event, without     *)
(* sleeping tasks.  An iteration of its loop is split into the steps of its    *)
(* inner loops; `pc` is the statement that comes next and `at` the endpoint    *)
(* an inner loop has come to.  Every endpoint has the same configuration.      *)
EXTENDS P2C

CONSTANTS
    Endpoints,          \* how many
    Workers,            \* SimulatedEndpoint.workers
    ServiceTime,        \* SimulatedEndpoint.service_time
    ArrivalInterval,    \* 1 / offered_rate
    End                 \* SimulationConfig.duration; the simulation starts at 0

\* What simulate() asserts.
ASSUME SimulatorAssumption ==
    /\ Endpoints \in Nat \ {0}
    /\ Workers \in Nat \ {0}
    /\ ServiceTime \in Nat \ {0}
    /\ ArrivalInterval \in Nat \ {0}
    /\ End \in Instant

Index == 1 .. Endpoints
Worker == 1 .. Workers

VARIABLES
    pc, at,         \* where simulate() is
    cursor,         \* the current instant
    next_dispatch,  \* the earliest dispatch found so far
    next_arrival,
    endpoints,      \* EndpointRuntime
    completions,    \* the requests that are being served
    report          \* SimulationReport's counters

loop == <<pc, at>>
vars == <<loop, cursor, next_dispatch, next_arrival, endpoints, completions, report>>

Init ==
    /\ pc = "loop" /\ at = 1
    /\ cursor = 0 /\ next_arrival = 0 /\ next_dispatch = None
    /\ endpoints = [i \in Index |->
          [ctl |-> NewController(i, 0), pending |-> <<>>, available_at |-> [w \in Worker |-> 0],
           dispatched |-> 0, completed |-> 0]]
    /\ completions = <<>>
    /\ report = [offered |-> 0, accepted |-> 0, backpressured |-> 0]

Goto(statement) == pc' = statement /\ at' = 1

\* An inner loop goes on to the next endpoint, or the statement after it begins.
Onward(statement) ==
    IF at < Endpoints THEN at' = at + 1 /\ UNCHANGED pc ELSE Goto(statement)

Earliest(a, b) == IF a = None THEN b ELSE IF b = None THEN a ELSE Earlier(a, b)
-------------------------------------------------------------------------------
(* The head of the loop: what happens next.                                    *)

\* Work is left if an arrival or a completion falls within the duration.
LoopTest ==
    /\ pc = "loop"
    /\ next_dispatch' = None
    /\ Goto(IF next_arrival <= End \/ \E c \in Range(completions) : c.at <= End
            THEN "peek" ELSE "done")
    /\ UNCHANGED <<cursor, next_arrival, endpoints, completions, report>>

\* A slip: a full transport is looked at again at once.
DispatchAtOnce(answer) ==
    IF answer.tag = "WaitUntil" THEN answer.at ELSE cursor

\* What next_dispatch_at answers for an endpoint whose head was told `answer`.
DispatchAt(answer) ==
    CASE answer.tag = "WaitUntil" -> answer.at
      [] answer.tag \in {"Ready", "Cancelled"} -> cursor
      [] answer.tag \in {"WaitForPrevious", "InflightLimit"} -> None

\* next_dispatch_at(): it asks at the instant of the last event.
Peek ==
    /\ pc = "peek"
    /\ IF endpoints[at].pending = <<>> THEN UNCHANGED <<next_dispatch, endpoints>>
       ELSE \E checked \in {Check(endpoints[at].ctl, Head(endpoints[at].pending), draw, cursor) :
                                draw \in Draws(endpoints[at].ctl, cursor)} :
               /\ endpoints' = [endpoints EXCEPT ![at].ctl = checked.ctl]
               /\ next_dispatch' = Earliest(next_dispatch, DispatchAt(checked.answer))
    /\ Onward("event")
    /\ UNCHANGED <<cursor, next_arrival, completions, report>>

NextEvent ==
    Min({next_arrival} \cup {c.at : c \in Range(completions)} \cup ({next_dispatch} \ {None}))

PickEvent ==
    /\ pc = "event"
    /\ \E event \in {NextEvent} :
          IF event > End THEN Goto("done") /\ UNCHANGED cursor
          ELSE Goto("complete") /\ cursor' = event
    /\ UNCHANGED <<next_dispatch, next_arrival, endpoints, completions, report>>
-------------------------------------------------------------------------------
(* The body of the loop.                                                       *)

\* A slip: a completion is due after its instant.
DueLate == SelectInSeq(completions, LAMBDA c : c.at < cursor)

\* The first completion that is due, if there is one.
Due == SelectInSeq(completions, LAMBDA c : c.at <= cursor)

\* complete_ready()
CompleteReady ==
    /\ pc = "complete"
    /\ IF Due = 0 THEN Goto("drive") /\ UNCHANGED <<endpoints, completions>>
       ELSE \E due \in {Due} : \E c \in {completions[due]} :
               /\ endpoints' = [endpoints EXCEPT
                      ![c.endpoint].ctl = OnComplete(@, c.request, TRUE,
                                              Since(c.at, c.request.dispatched_at), cursor),
                      ![c.endpoint].completed = @ + 1]
               /\ completions' = RemoveAt(completions, due)
               /\ UNCHANGED loop
    /\ UNCHANGED <<cursor, next_dispatch, next_arrival, report>>

\* drive_all() begins an endpoint with a refresh; it runs before the arrival and
\* after it.
Drive(before, after) ==
    /\ pc = before
    /\ \E ctl \in {Refresh(endpoints[at].ctl, draw, cursor) :
                       draw \in Draws(endpoints[at].ctl, cursor)} :
          endpoints' = [endpoints EXCEPT ![at].ctl = ctl]
    /\ pc' = after /\ UNCHANGED at
    /\ UNCHANGED <<cursor, next_dispatch, next_arrival, completions, report>>

\* The worker that is free first.
FreeWorker(available_at) ==
    CHOOSE w \in Worker : \A v \in Worker :
        \/ available_at[w] < available_at[v]
        \/ available_at[w] = available_at[v] /\ w <= v

\* Worker w gets the head of endpoint `at`; `result` is on_dispatched's.
Serve(result, w, completion_at) ==
    /\ endpoints' = [endpoints EXCEPT ![at].ctl = result.ctl, ![at].pending = Tail(@),
                         ![at].available_at[w] = completion_at, ![at].dispatched = @ + 1]
    /\ completions' = Append(completions,
           [at |-> completion_at, endpoint |-> at, request |-> result.token])
    /\ UNCHANGED loop

\* The endpoint's head, if it has one, stays.
Leave(ctl, after, then) ==
    /\ endpoints' = [endpoints EXCEPT ![at].ctl = ctl]
    /\ IF at < Endpoints THEN pc' = after /\ at' = at + 1 ELSE Goto(then)
    /\ UNCHANGED completions

\* on_dispatched asks once more and finds the head as ready as dispatch_state did.
Dispatch(ctl, reservation, endpoint) ==
    \E draw \in Draws(ctl, cursor), w \in {FreeWorker(endpoint.available_at)} :
        Serve(OnDispatched(ctl, reservation, draw, cursor), w,
              SaturatingAdd(Later(endpoint.available_at[w], cursor), ServiceTime))

\* Then its heads leave, one after the other, until one must wait; nothing is
\* ever cancelled.
DriveHead(before, after, then) ==
    /\ pc = before
    /\ \/ endpoints[at].pending = <<>> /\ Leave(endpoints[at].ctl, after, then)
       \/ /\ endpoints[at].pending # <<>>
          /\ \E checked \in {Check(endpoints[at].ctl, Head(endpoints[at].pending), draw, cursor) :
                                  draw \in Draws(endpoints[at].ctl, cursor)} :
                \/ /\ checked.answer.tag = "Ready"
                   /\ Dispatch(checked.ctl, Head(endpoints[at].pending), endpoints[at])
                \/ checked.answer.tag # "Ready" /\ Leave(checked.ctl, after, then)
    /\ UNCHANGED <<cursor, next_dispatch, next_arrival, report>>

\* An iteration that brings no arrival goes straight to the second drive_all().
Arrive ==
    /\ pc = "arrive"
    /\ Goto(IF cursor = next_arrival THEN "ready" ELSE "redrive")
    /\ UNCHANGED <<cursor, next_dispatch, next_arrival, endpoints, completions, report>>

\* choose_p2c() refreshes every endpoint.
RefreshForChoice ==
    /\ pc = "ready"
    /\ \E ctl \in {Refresh(endpoints[at].ctl, draw, cursor) :
                       draw \in Draws(endpoints[at].ctl, cursor)} :
          endpoints' = [endpoints EXCEPT ![at].ctl = ctl]
    /\ Onward("choose")
    /\ UNCHANGED <<cursor, next_dispatch, next_arrival, completions, report>>

Ready == {i \in Index : MaySchedule(endpoints[i].ctl)}

\* A slip: a request is accepted before its endpoint is asked.
OfferUnasked(runtimes, i) ==
    /\ endpoints' = IF CanReserve(runtimes[i].ctl)
                    THEN [runtimes EXCEPT
                            ![i].ctl = Reserve(@, cursor),
                            ![i].pending = Append(@, [controller_id |-> i,
                                                      id |-> runtimes[i].ctl.next_id])]
                    ELSE runtimes
    /\ report' = [report EXCEPT !.offered = @ + 1, !.accepted = @ + 1]

\* Endpoint i is asked for a place.
Offer(runtimes, i) ==
    IF CanReserve(runtimes[i].ctl)
    THEN /\ endpoints' = [runtimes EXCEPT
                ![i].ctl = Reserve(@, cursor),
                ![i].pending = Append(@, [controller_id |-> i, id |-> runtimes[i].ctl.next_id])]
         /\ report' = [report EXCEPT !.offered = @ + 1, !.accepted = @ + 1]
    ELSE /\ endpoints' = runtimes
         /\ report' = [report EXCEPT !.offered = @ + 1, !.backpressured = @ + 1]

\* The cheaper of two that have room; both are refreshed again by load().
Preferred(runtimes, a, b) ==
    IF PredictedCompletion(runtimes[a].ctl, cursor) <= PredictedCompletion(runtimes[b].ctl, cursor)
    THEN a ELSE b

\* An arrival is offered to one endpoint, or to none if none has room.  The
\* simulation ends if there is no next one.
Choose ==
    /\ pc = "choose"
    /\ \/ /\ Ready = {}
          /\ report' = [report EXCEPT !.offered = @ + 1, !.backpressured = @ + 1]
          /\ UNCHANGED endpoints
       \/ \E i \in Index : Ready = {i} /\ Offer(endpoints, i)
       \/ \E a, b \in Ready :
             /\ a # b
             /\ \E runtimes \in {[endpoints EXCEPT
                                    ![a].ctl = Refresh(@, draws[1], cursor),
                                    ![b].ctl = Refresh(@, draws[2], cursor)] :
                                 draws \in Draws(endpoints[a].ctl, cursor)
                                           \X Draws(endpoints[b].ctl, cursor)} :
                   Offer(runtimes, Preferred(runtimes, a, b))
    /\ IF next_arrival + ArrivalInterval > MaxInstant THEN Goto("done") /\ UNCHANGED next_arrival
       ELSE Goto("redrive") /\ next_arrival' = next_arrival + ArrivalInterval
    /\ UNCHANGED <<cursor, next_dispatch, completions>>

Next ==
    \/ LoopTest
    \/ Peek
    \/ PickEvent
    \/ CompleteReady
    \/ Drive("drive", "head")
    \/ DriveHead("head", "drive", "arrive")
    \/ Arrive
    \/ RefreshForChoice
    \/ Choose
    \/ Drive("redrive", "rehead")
    \/ DriveHead("rehead", "redrive", "loop")

Spec == Init /\ [][Next]_vars
-------------------------------------------------------------------------------
(* Properties.                                                                 *)

\* The n-th request an endpoint was given, in its queue or beyond it: as many as
\* there are pairs of an endpoint and such a number.
Given == [i \in Index |-> endpoints[i].dispatched + Len(endpoints[i].pending)]
Requests(count) == UNION {{i} \X (1 .. count[i]) : i \in Index}

\* Where the requests stand that endpoint i is serving.
Served(i, requests) == {n \in DOMAIN requests : requests[n].endpoint = i}

\* The report accounts for every request: offered is accepted or turned away,
\* accepted is dispatched or queued, dispatched is completed or in service, and
\* each endpoint's controller agrees with what was sent to it.
AccountsBalance ==
    /\ report.offered = report.accepted + report.backpressured
    /\ report.accepted = Cardinality(Requests(Given))
    /\ \A i \in Index :
          LET inflight == Cardinality(Served(i, completions))
          IN /\ endpoints[i].dispatched = endpoints[i].completed + inflight
             /\ endpoints[i].ctl.inflight = inflight
             /\ [n \in DOMAIN endpoints[i].pending |-> endpoints[i].pending[n].id]
                = [n \in DOMAIN endpoints[i].ctl.pending |-> endpoints[i].ctl.pending[n].id]

\* An iteration leaves nothing undone that was due at its instant, neither a
\* completion nor a head, although its arrival and its completions change the
\* slots after the first drive_all().
NothingDueIsLeft ==
    pc = "loop" =>
        /\ \A c \in Range(completions) : c.at > cursor
        /\ \A i \in Index : endpoints[i].pending # <<>> =>
              HeadDue(endpoints[i].ctl) > cursor

\* Simulation time does not move backward (simulator.rs:171), and only the first
\* event is at an instant that had been reached before: every later iteration
\* moves the clock, so the loop ends.
EveryEventIsLater ==
    [][pc' = "complete" /\ pc = "event" => cursor' > cursor \/ report.offered = 0]_vars
===============================================================================
