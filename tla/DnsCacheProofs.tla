---------------------------- MODULE DnsCacheProofs ----------------------------
(* The DNS connector keeps its promises for any number of requests, addresses, *)
(* resolutions and places: one inductive invariant, and the properties of the  *)
(* model-checked run that follow from it.                                      *)
EXTENDS DnsCache, FiniteSetTheorems, WellFoundedInduction, TLAPS

Known == 1 .. resolved

\* The stages at which a request has an entry, holds a place in the line of an
\* endpoint, or has sampled a pair.
HasEntry == {"got", "stale", "acquired", "select", "loaded", "sampled", "locked", "chosen",
             "confirmed", "revoked"}
InLine == {"chosen", "confirmed", "revoked", "queued"}
Paired == {"sampled", "locked"}

\* No address twice.
Distinct(endpoints) == \A e, f \in endpoints : e.ip = f.ip => e = f

\* What the record of a request may rely on: its entry has been resolved, its
\* snapshot and its pair hold an address once, its place is at an endpoint.
Well(q, known) ==
    /\ q.pc \in HasEntry => q.entry \in known
    /\ Distinct(q.snapshot)
    /\ q.pc \in Paired => q.pair \in Endpoint \X Endpoint /\ q.pair[1].ip # q.pair[2].ip
    /\ q.pc \in InLine \cup {"running"} => q.endpoint \in Endpoint

\* What an entry may rely on: only its flag's owner resolves, and nobody stores a
\* snapshot between the load of the previous one and the end of the resolution.
Guarded(h) ==
    /\ Distinct(h.current)
    /\ h.task # "none" => h.refreshing
    /\ h.task = "resolving" => h.previous = h.current

RequestsWell == \A r \in Request : Well(request[r], Known)

EntriesGuarded ==
    /\ slot # None => slot \in Known
    /\ \A n \in Entry : Guarded(entry[n])
    /\ \A n \in Entry \ Known : entry[n].current = {} /\ entry[n].task = "none"

\* The refresh flag admits one at a time.
OneRefresh ==
    \A r \in Request : At(r, "acquired") =>
        /\ entry[request[r].entry].refreshing
        /\ entry[request[r].entry].task = "none"
        /\ \A q \in Request : At(q, "acquired") /\ request[q].entry = request[r].entry => q = r

\* The inductive invariant.
Kept == RequestsWell /\ EntriesGuarded /\ OneRefresh /\ GuardsMatchEndpoints
IInv == TypeOK /\ Kept
-------------------------------------------------------------------------------
LEMMA IdleType == Idle \in RequestState
    BY DEF Idle, RequestState, Stage

\* A request that goes on in a well typed way leaves the others alone and all
\* well typed.
LEMMA GoesFacts ==
    ASSUME request \in [Request -> RequestState],
           NEW r \in Request, NEW next \in RequestState, Goes(r, next)
    PROVE  /\ request' \in [Request -> RequestState]
           /\ request'[r] = next
           /\ \A q \in Request \ {r} : request'[q] = request[q]
    BY DEF Goes

LEMMA MovesFacts ==
    ASSUME request \in [Request -> RequestState],
           NEW r \in Request, NEW pc \in Stage, Moves(r, pc)
    PROVE  /\ request' \in [Request -> RequestState]
           /\ request'[r] = [request[r] EXCEPT !.pc = pc]
           /\ \A q \in Request \ {r} : request'[q] = request[q]
    <1>1. [request[r] EXCEPT !.pc = pc] \in RequestState
        BY DEF RequestState
    <1> QED
        BY <1>1, GoesFacts DEF Moves

\* What the steps write into an entry keeps its type: one field at a time, and
\* what a spawned and a successful refresh write.
LEMMA FlagType ==
    ASSUME NEW h \in [Entry -> HostEntry], NEW n \in Entry, NEW flag \in BOOLEAN
    PROVE  [h EXCEPT ![n].refreshing = flag] \in [Entry -> HostEntry]
    BY DEF HostEntry

LEMMA TaskType ==
    ASSUME NEW h \in [Entry -> HostEntry], NEW n \in Entry,
           NEW task \in {"none", "resolving", "release"}
    PROVE  [h EXCEPT ![n].task = task] \in [Entry -> HostEntry]
    BY DEF HostEntry

LEMMA FetchedType ==
    ASSUME NEW h \in [Entry -> HostEntry], NEW n \in Entry, NEW at \in 0 .. MaxTime
    PROVE  [h EXCEPT ![n].fetched_at = at] \in [Entry -> HostEntry]
    BY DEF HostEntry

LEMMA EndpointsType ==
    ASSUME NEW h \in [Entry -> HostEntry], NEW n \in Entry, NEW endpoints \in SUBSET Endpoint
    PROVE  /\ [h EXCEPT ![n].current = endpoints] \in [Entry -> HostEntry]
           /\ [h EXCEPT ![n].previous = endpoints] \in [Entry -> HostEntry]
           /\ [h EXCEPT ![n].left = endpoints] \in [Entry -> HostEntry]
    BY DEF HostEntry

LEMMA SpawnedType ==
    ASSUME entry \in [Entry -> HostEntry], NEW n \in Entry,
           NEW previous \in SUBSET Endpoint, NEW task \in {"none", "resolving", "release"}
    PROVE  [entry EXCEPT ![n].previous = previous, ![n].task = task] \in [Entry -> HostEntry]
    <1> DEFINE preceded == [entry EXCEPT ![n].previous = previous]
    <1>1. preceded \in [Entry -> HostEntry]
        BY EndpointsType
    <1>2. [entry EXCEPT ![n].previous = previous, ![n].task = task]
              = [preceded EXCEPT ![n].task = task]
        OBVIOUS
    <1> HIDE DEF preceded
    <1>3. [preceded EXCEPT ![n].task = task] \in [Entry -> HostEntry]
        BY <1>1, TaskType
    <1> QED
        BY <1>2, <1>3

LEMMA FoundType ==
    ASSUME entry \in [Entry -> HostEntry], NEW n \in Entry,
           NEW current \in SUBSET Endpoint, NEW at \in 0 .. MaxTime
    PROVE  [entry EXCEPT ![n].current = current, ![n].fetched_at = at] \in [Entry -> HostEntry]
    <1> DEFINE found == [entry EXCEPT ![n].current = current]
    <1>1. found \in [Entry -> HostEntry]
        BY EndpointsType
    <1>2. [entry EXCEPT ![n].current = current, ![n].fetched_at = at]
              = [found EXCEPT ![n].fetched_at = at]
        OBVIOUS
    <1> HIDE DEF found
    <1>3. [found EXCEPT ![n].fetched_at = at] \in [Entry -> HostEntry]
        BY <1>1, FetchedType
    <1> QED
        BY <1>2, <1>3

LEMMA RefreshedType ==
    ASSUME entry \in [Entry -> HostEntry], NEW n \in Entry,
           NEW current \in SUBSET Endpoint, NEW at \in 0 .. MaxTime,
           NEW left \in SUBSET Endpoint
    PROVE  [entry EXCEPT ![n].current = current, ![n].fetched_at = at, ![n].previous = {},
                         ![n].task = "release", ![n].left = left] \in [Entry -> HostEntry]
    <1> DEFINE found == [entry EXCEPT ![n].current = current, ![n].fetched_at = at]
               closed == [found EXCEPT ![n].previous = {}]
               ended == [closed EXCEPT ![n].task = "release"]
    <1>1. [entry EXCEPT ![n].current = current, ![n].fetched_at = at, ![n].previous = {},
                        ![n].task = "release", ![n].left = left]
              = [ended EXCEPT ![n].left = left]
        OBVIOUS
    <1>2. found \in [Entry -> HostEntry]
        BY FoundType
    <1> HIDE DEF found
    <1>3. closed \in [Entry -> HostEntry]
        BY <1>2, EndpointsType
    <1> HIDE DEF closed
    <1>4. ended \in [Entry -> HostEntry]
        BY <1>3, TaskType
    <1> HIDE DEF ended
    <1>5. [ended EXCEPT ![n].left = left] \in [Entry -> HostEntry]
        BY <1>4, EndpointsType
    <1> QED
        BY <1>1, <1>5

LEMMA InitType == Init => TypeOK
    BY DnsAssumption, IdleType DEF Init, TypeOK, HostEntry, Entry

LEMMA FoundFacts ==
    ASSUME NEW addresses \in Answers, NEW previous \in SUBSET Endpoint,
           resolved + 1 \in Entry
    PROVE  /\ Found(addresses, previous) \in SUBSET Endpoint
           /\ Distinct(previous) => Distinct(Found(addresses, previous))
           /\ Distinct(previous) => \A e \in previous, f \in Found(addresses, previous) :
                                        e.ip = f.ip => e = f
    BY DEF Found, Answers, Endpoint, Distinct

\* The lower and the upper endpoint of a pair are its two, in that order.
LEMMA PairFacts ==
    ASSUME RequestsWell, NEW r \in Request, request[r].pc \in Paired
    PROVE  /\ Lower(request[r].pair) \in Endpoint
           /\ Upper(request[r].pair) \in Endpoint
           /\ Lower(request[r].pair).ip < Upper(request[r].pair).ip
    <1> DEFINE pair == request[r].pair
    <1>1. /\ pair \in Endpoint \X Endpoint
          /\ pair[1].ip # pair[2].ip
        BY DEF RequestsWell, Well
    <1>2. pair[1] \in Endpoint /\ pair[2] \in Endpoint
        BY <1>1
    <1>3. pair[1].ip \in Nat /\ pair[2].ip \in Nat
        BY <1>2, DnsAssumption DEF Endpoint
    <1>4. CASE pair[1].ip < pair[2].ip
        BY <1>2, <1>4 DEF Lower, Upper
    <1>5. CASE pair[2].ip < pair[1].ip
        <2>1. Lower(pair) = pair[2] /\ Upper(pair) = pair[1]
            BY <1>1, <1>3, <1>5 DEF Lower, Upper
        <2> QED
            BY <1>2, <1>5, <2>1
    <1> QED
        BY <1>1, <1>3, <1>4, <1>5

LEMMA ChoosesType ==
    ASSUME request \in [Request -> RequestState],
           endpoint \in [Endpoint -> [line : SUBSET Request, running : SUBSET Request]],
           NEW r \in Request, NEW e \in Endpoint, Chooses(r, e)
    PROVE  /\ endpoint' \in [Endpoint -> [line : SUBSET Request, running : SUBSET Request]]
           /\ request' \in [Request -> RequestState]
           /\ request'[r] = [Idle EXCEPT !.pc = "chosen", !.entry = request[r].entry,
                                         !.endpoint = e]
           /\ \A q \in Request \ {r} : request'[q] = request[q]
    <1>1. [Idle EXCEPT !.pc = "chosen", !.entry = request[r].entry, !.endpoint = e]
              \in RequestState
        BY DEF Idle, RequestState, Stage
    <1>2. endpoint' \in [Endpoint -> [line : SUBSET Request, running : SUBSET Request]]
        BY DEF Chooses
    <1> QED
        BY <1>1, <1>2, GoesFacts DEF Chooses

LEMMA LeavesType ==
    ASSUME endpoint \in [Endpoint -> [line : SUBSET Request, running : SUBSET Request]],
           NEW r \in Request, NEW e, Leaves(r, e)
    PROVE  endpoint' \in [Endpoint -> [line : SUBSET Request, running : SUBSET Request]]
    BY DEF Leaves

\* Type correctness, by what a step changes.
LEMMA TypeStep == TypeOK /\ RequestsWell /\ [Next]_vars => TypeOK'
    <1> SUFFICES ASSUME TypeOK, RequestsWell, [Next]_vars PROVE TypeOK'
        OBVIOUS
    <1>0. /\ request \in [Request -> RequestState] /\ entry \in [Entry -> HostEntry]
          /\ now \in 0 .. MaxTime /\ slot \in Entry \cup {None} /\ resolved \in 0 .. MaxResolves
          /\ resolving \in Request \cup {None}
          /\ endpoint \in [Endpoint -> [line : SUBSET Request, running : SUBSET Request]]
        BY DEF TypeOK
    <1>e. \A r \in Request : request[r].pc \in HasEntry => request[r].entry \in Entry
        BY <1>0, DnsAssumption DEF RequestsWell, Well, Known, Entry
    <1>1. ASSUME NEW r \in Request, Lookup(r) PROVE TypeOK'
        <2>1. [Idle EXCEPT !.pc = IF slot = None THEN "join" ELSE "got", !.entry = slot]
                  \in RequestState
            BY <1>0, IdleType DEF RequestState, Stage
        <2> QED
            BY <1>0, <1>1, <2>1, GoesFacts DEF Lookup, TypeOK, cache
    <1>2. ASSUME NEW r \in Request, Judge(r) PROVE TypeOK'
        <2>1. (IF Elapsed(request[r].entry) < RefreshAfter THEN "select"
               ELSE IF Elapsed(request[r].entry) < EvictAfterStale THEN "stale" ELSE "expired")
                  \in Stage
            BY DEF Stage
        <2> QED
            BY <1>0, <1>2, <2>1, MovesFacts DEF Judge, TypeOK, cache
    <1>3. ASSUME NEW r \in Request, TryAcquireRefresh(r) PROVE TypeOK'
        <2>1. "select" \in Stage /\ "acquired" \in Stage
            BY DEF Stage
        <2>2. request' \in [Request -> RequestState]
            BY <1>0, <1>3, <2>1, MovesFacts DEF TryAcquireRefresh
        <2>3. request[r].entry \in Entry
            BY <1>e, <1>3 DEF TryAcquireRefresh, At, HasEntry
        <2>4. entry' \in [Entry -> HostEntry]
            <3>1. PICK n \in Entry : n = request[r].entry
                BY <2>3
            <3>2. [entry EXCEPT ![n].refreshing = TRUE] \in [Entry -> HostEntry]
                BY <1>0, <3>1, FlagType
            <3> QED
                BY <1>0, <1>3, <3>1, <3>2 DEF TryAcquireRefresh
        <2> QED
            BY <1>0, <1>3, <2>2, <2>4 DEF TryAcquireRefresh, TypeOK, cache
    <1>4. ASSUME NEW r \in Request, SpawnRefresh(r) PROVE TypeOK'
        <2>1. request' \in [Request -> RequestState]
            BY <1>0, <1>4, MovesFacts DEF SpawnRefresh, Stage
        <2>2. request[r].entry \in Entry
            BY <1>e, <1>4 DEF SpawnRefresh, At, HasEntry
        <2>3. entry[request[r].entry].current \in SUBSET Endpoint
            BY <1>0, <2>2 DEF HostEntry
        <2>4. entry' \in [Entry -> HostEntry]
            <3> DEFINE n == request[r].entry
                       current == entry[n].current
            <3>1. entry' = [entry EXCEPT ![n].previous = current, ![n].task = "resolving"]
                BY <1>4 DEF SpawnRefresh
            <3>2. n \in Entry /\ current \in SUBSET Endpoint
                BY <2>2, <2>3
            <3> HIDE DEF n, current
            <3> QED
                BY <1>0, <3>1, <3>2, SpawnedType
        <2> QED
            BY <1>0, <1>4, <2>1, <2>4 DEF SpawnRefresh, TypeOK, cache
    <1>5. ASSUME NEW r \in Request, Invalidate(r) PROVE TypeOK'
        <2>1. [Idle EXCEPT !.pc = "join"] \in RequestState
            BY DEF Idle, RequestState, Stage
        <2> QED
            BY <1>0, <1>5, <2>1, GoesFacts DEF Invalidate, TypeOK
    <1>6. ASSUME NEW r \in Request, Join(r) PROVE TypeOK'
        <2>1. [Idle EXCEPT !.pc = "select", !.entry = slot] \in RequestState
            BY <1>0 DEF Idle, RequestState, Stage
        <2>2. "waiting" \in Stage /\ "resolving" \in Stage
            BY DEF Stage
        <2>3. request' \in [Request -> RequestState]
            BY <1>0, <1>6, <2>1, <2>2, GoesFacts, MovesFacts DEF Join
        <2> QED
            BY <1>0, <1>6, <2>3 DEF Join, TypeOK
    <1>7. ASSUME NEW r \in Request, Resolve(r) PROVE TypeOK'
        <2>1. resolved + 1 \in Entry /\ resolved' \in 0 .. MaxResolves
            BY <1>0, <1>7, DnsAssumption DEF Resolve, Entry
        <2>2. [Idle EXCEPT !.pc = "select", !.entry = resolved + 1] \in RequestState
            BY <2>1 DEF Idle, RequestState, Stage
        <2>3. request' \in [Request -> RequestState]
            BY <1>0, <1>7, <2>2 DEF Resolve, Settled
        <2>4. PICK addresses \in Answers :
                  entry' = [entry EXCEPT ![resolved + 1].current = Found(addresses, {}),
                                         ![resolved + 1].fetched_at = now]
            BY <1>7 DEF Resolve
        <2>5. entry' \in [Entry -> HostEntry]
            <3> DEFINE n == resolved + 1
                       found == Found(addresses, {})
            <3>1. found \in SUBSET Endpoint /\ n \in Entry
                BY <2>1, FoundFacts
            <3>2. entry' = [entry EXCEPT ![n].current = found, ![n].fetched_at = now]
                BY <2>4
            <3> HIDE DEF found, n
            <3> QED
                BY <1>0, <3>1, <3>2, FoundType
        <2> QED
            BY <1>0, <1>7, <2>1, <2>3, <2>5 DEF Resolve, TypeOK
    <1>8. ASSUME NEW r \in Request, ResolveFails(r) PROVE TypeOK'
        BY <1>0, <1>8, IdleType DEF ResolveFails, Settled, TypeOK
    <1>9. ASSUME NEW n \in Entry, RefreshResolves(n) PROVE TypeOK'
        <2>1. resolved + 1 \in Entry /\ resolved' \in 0 .. MaxResolves
            BY <1>0, <1>9, DnsAssumption DEF RefreshResolves, Entry
        <2>2. /\ entry[n].previous \in SUBSET Endpoint /\ entry[n].left \in SUBSET Endpoint
              /\ entry[n].current \in SUBSET Endpoint
            BY <1>0 DEF HostEntry
        <2>3. PICK addresses \in Answers :
                  entry' = [entry EXCEPT ![n].current = Found(addresses, entry[n].previous),
                                         ![n].fetched_at = now,
                                         ![n].previous = {}, ![n].task = "release",
                                         ![n].left = entry[n].left \cup
                                           (entry[n].current
                                              \ Found(addresses, entry[n].previous))]
            BY <1>9 DEF RefreshResolves
        <2>4. entry' \in [Entry -> HostEntry]
            <3> DEFINE found == Found(addresses, entry[n].previous)
                       left == entry[n].left \cup (entry[n].current \ found)
            <3>1. found \in SUBSET Endpoint /\ left \in SUBSET Endpoint
                BY <2>1, <2>2, FoundFacts
            <3>2. entry' = [entry EXCEPT ![n].current = found, ![n].fetched_at = now,
                                         ![n].previous = {}, ![n].task = "release",
                                         ![n].left = left]
                BY <2>3
            <3> HIDE DEF found, left
            <3> QED
                BY <1>0, <3>1, <3>2, RefreshedType
        <2> QED
            BY <1>0, <1>9, <2>1, <2>4 DEF RefreshResolves, TypeOK, cache
    <1>10. ASSUME NEW n \in Entry, RefreshFails(n) PROVE TypeOK'
        <2>1. PICK once \in [Entry -> HostEntry] : once = [entry EXCEPT ![n].previous = {}]
            <3>1. [entry EXCEPT ![n].previous = {}] \in [Entry -> HostEntry]
                BY <1>0 DEF HostEntry
            <3> QED
                BY <3>1
        <2>2. [once EXCEPT ![n].task = "release"] \in [Entry -> HostEntry]
            BY DEF HostEntry
        <2>3. entry' = [once EXCEPT ![n].task = "release"]
            BY <1>0, <1>10, <2>1 DEF RefreshFails
        <2> QED
            BY <1>0, <1>10, <2>2, <2>3 DEF RefreshFails, TypeOK, cache
    <1>11. ASSUME NEW n \in Entry, ReleaseRefresh(n) PROVE TypeOK'
        <2>1. PICK once \in [Entry -> HostEntry] : once = [entry EXCEPT ![n].task = "none"]
            <3>1. [entry EXCEPT ![n].task = "none"] \in [Entry -> HostEntry]
                BY <1>0 DEF HostEntry
            <3> QED
                BY <3>1
        <2>2. [once EXCEPT ![n].refreshing = FALSE] \in [Entry -> HostEntry]
            BY DEF HostEntry
        <2>3. entry' = [once EXCEPT ![n].refreshing = FALSE]
            BY <1>0, <1>11, <2>1 DEF ReleaseRefresh
        <2> QED
            BY <1>0, <1>11, <2>2, <2>3 DEF ReleaseRefresh, TypeOK, cache
    <1>12. ASSUME NEW r \in Request, LoadSnapshot(r) PROVE TypeOK'
        <2>1. [request[r] EXCEPT !.pc = "loaded", !.snapshot = entry[request[r].entry].current]
                  \in RequestState
            <3>1. entry[request[r].entry].current \in SUBSET Endpoint
                BY <1>0, <1>e, <1>12 DEF LoadSnapshot, At, HasEntry, HostEntry
            <3>2. request[r] \in RequestState
                BY <1>0
            <3> QED
                BY <3>1, <3>2 DEF RequestState, Stage
        <2> QED
            BY <1>0, <1>12, <2>1, GoesFacts DEF LoadSnapshot, TypeOK, cache
    <1>13. ASSUME NEW r \in Request, ReserveOnly(r) PROVE TypeOK'
        <2>1. PICK e \in request[r].snapshot :
                  IF HasRoom(e) THEN Chooses(r, e) ELSE Goes(r, Idle) /\ UNCHANGED endpoint
            BY <1>13 DEF ReserveOnly
        <2>2. e \in Endpoint
            BY <1>0, <2>1 DEF RequestState
        <2>3. CASE Chooses(r, e)
            BY <1>0, <1>13, <2>2, <2>3, ChoosesType DEF ReserveOnly, TypeOK, cache
        <2>4. CASE Goes(r, Idle) /\ UNCHANGED endpoint
            BY <1>0, <1>13, <2>4, IdleType, GoesFacts DEF ReserveOnly, TypeOK, cache
        <2> QED
            BY <2>1, <2>3, <2>4
    <1>14. ASSUME NEW r \in Request, Sample(r) PROVE TypeOK'
        <2>1. PICK first, second \in request[r].snapshot :
                  Goes(r, [request[r] EXCEPT !.pc = "sampled", !.snapshot = {},
                                             !.pair = <<first, second>>])
            BY <1>14 DEF Sample
        <2>2. [request[r] EXCEPT !.pc = "sampled", !.snapshot = {}, !.pair = <<first, second>>]
                  \in RequestState
            <3>1. request[r] \in RequestState /\ <<first, second>> \in Endpoint \X Endpoint
                BY <1>0, <2>1 DEF RequestState
            <3> QED
                BY <3>1 DEF RequestState, Stage
        <2> QED
            BY <1>0, <1>14, <2>1, <2>2, GoesFacts DEF Sample, TypeOK, cache
    <1>15. ASSUME NEW r \in Request, LockLower(r) PROVE TypeOK'
        BY <1>0, <1>15, MovesFacts DEF LockLower, Stage, TypeOK, cache
    <1>16. ASSUME NEW r \in Request, ReservePair(r) PROVE TypeOK'
        <2> DEFINE open == {e \in {Lower(request[r].pair), Upper(request[r].pair)} : HasRoom(e)}
        <2>1. CASE open = {}
            BY <1>0, <1>16, <2>1, IdleType, GoesFacts DEF ReservePair, TypeOK, cache
        <2>2. CASE open # {}
            <3>1. PICK e \in open : Chooses(r, e)
                BY <1>16, <2>2 DEF ReservePair
            <3>2. e \in Endpoint
                BY <1>16, <3>1, PairFacts DEF ReservePair, At, Paired
            <3> QED
                BY <1>0, <1>16, <3>1, <3>2, ChoosesType DEF ReservePair, TypeOK, cache
        <2> QED
            BY <2>1, <2>2
    <1>17. ASSUME NEW r \in Request, Recheck(r) PROVE TypeOK'
        <2>1. "confirmed" \in Stage /\ "revoked" \in Stage
            BY DEF Stage
        <2>2. request' \in [Request -> RequestState]
            BY <1>0, <1>17, <2>1, MovesFacts DEF Recheck
        <2> QED
            BY <1>0, <1>17, <2>2 DEF Recheck, TypeOK, cache
    <1>25. ASSUME NEW r \in Request, Publish(r) PROVE TypeOK'
        <2>1. [request[r] EXCEPT !.pc = "queued", !.entry = None] \in RequestState
            <3>1. request[r] \in RequestState
                BY <1>0
            <3> QED
                BY <3>1 DEF RequestState, Stage
        <2> QED
            BY <1>0, <1>25, <2>1, GoesFacts DEF Publish, TypeOK, cache
    <1>18. ASSUME NEW r \in Request, Revoke(r) PROVE TypeOK'
        <2>1. [Idle EXCEPT !.pc = "select", !.entry = request[r].entry] \in RequestState
            BY <1>0 DEF Idle, RequestState, Stage
        <2> QED
            BY <1>0, <1>18, <2>1, GoesFacts, LeavesType DEF Revoke, TypeOK, cache
    <1>19. ASSUME NEW r \in Request, BeginDispatch(r) PROVE TypeOK'
        <2>1. request' \in [Request -> RequestState]
            BY <1>0, <1>19, MovesFacts DEF BeginDispatch, Stage
        <2>2. endpoint' \in [Endpoint -> [line : SUBSET Request, running : SUBSET Request]]
            BY <1>0, <1>19 DEF BeginDispatch
        <2> QED
            BY <1>0, <1>19, <2>1, <2>2 DEF BeginDispatch, TypeOK, cache
    <1>20. ASSUME NEW r \in Request, FinishGuard(r) PROVE TypeOK'
        BY <1>0, <1>20, IdleType, GoesFacts, LeavesType DEF FinishGuard, TypeOK, cache
    <1>21. ASSUME NEW r \in Request, DropLookup(r) PROVE TypeOK'
        <2>1. CASE At(r, "waiting")
            BY <1>0, <1>21, <2>1, IdleType, GoesFacts DEF DropLookup, TypeOK
        <2>2. CASE ~At(r, "waiting")
            <3>1. \A q \in Request : [request[q] EXCEPT !.pc = "join"] \in RequestState
                BY <1>0 DEF RequestState, Stage
            <3>2. request' \in [Request -> RequestState]
                BY <1>0, <1>21, <2>2, <3>1, IdleType DEF DropLookup
            <3> QED
                BY <1>0, <1>21, <2>2, <3>2 DEF DropLookup, TypeOK
        <2> QED
            BY <2>1, <2>2
    <1>22. CASE Evict
        BY <1>0, <1>22 DEF Evict, TypeOK
    <1>23. CASE Tick
        BY <1>0, <1>23, DnsAssumption DEF Tick, TypeOK, cache
    <1>24. CASE UNCHANGED vars
        BY <1>0, <1>24 DEF vars, cache, TypeOK
    <1> QED
        BY <1>1, <1>2, <1>3, <1>4, <1>5, <1>6, <1>7, <1>8, <1>9, <1>10, <1>11, <1>12, <1>13,
           <1>14, <1>15, <1>16, <1>17, <1>18, <1>19, <1>20, <1>21, <1>22, <1>23, <1>24, <1>25
        DEF Next
-------------------------------------------------------------------------------
\* The place that a request holds is the same before and after.
SamePlace(p, q) ==
    /\ (p.pc \in InLine) <=> (q.pc \in InLine)
    /\ (p.pc = "running") <=> (q.pc = "running")
    /\ p.pc \in InLine \cup {"running"} => p.endpoint = q.endpoint

\* The parts of the invariant, each by what disturbs it.
LEMMA RequestsStep ==
    ASSUME TypeOK, RequestsWell, resolved' \in {resolved, resolved + 1},
           \A q \in Request : request'[q] = request[q] \/ Well(request'[q], Known')
    PROVE  RequestsWell'
    BY DEF TypeOK, RequestsWell, Well, Known

LEMMA PlacesStep ==
    ASSUME GuardsMatchEndpoints, UNCHANGED endpoint,
           \A q \in Request : SamePlace(request[q], request'[q])
    PROVE  GuardsMatchEndpoints'
    BY DEF GuardsMatchEndpoints, SamePlace, InLine, At

LEMMA RefreshStep ==
    ASSUME OneRefresh, UNCHANGED entry,
           \A q \in Request : request'[q] = request[q] \/ request'[q].pc # "acquired"
    PROVE  OneRefresh'
    BY DEF OneRefresh, At

\* A step that changes neither entries nor places.
LEMMA QuietStep ==
    ASSUME IInv, UNCHANGED <<resolved, entry, endpoint>>, slot' \in {slot, None},
           \A q \in Request :
               \/ request'[q] = request[q]
               \/ /\ Well(request'[q], Known) /\ SamePlace(request[q], request'[q])
                  /\ request'[q].pc # "acquired"
    PROVE  Kept'
    <1>1. RequestsWell'
        BY RequestsStep DEF IInv, Kept, Known
    <1>2. EntriesGuarded'
        BY DEF IInv, Kept, EntriesGuarded, Known
    <1>3. OneRefresh'
        BY RefreshStep DEF IInv, Kept
    <1>4. GuardsMatchEndpoints'
        BY PlacesStep DEF IInv, Kept, SamePlace
    <1> QED
        BY <1>1, <1>2, <1>3, <1>4 DEF Kept

LEMMA GoesQuietly ==
    ASSUME IInv, UNCHANGED <<resolved, entry, endpoint>>, slot' \in {slot, None},
           NEW r \in Request, NEW next, Goes(r, next),
           Well(next, Known), SamePlace(request[r], next), next.pc # "acquired"
    PROVE  Kept'
    BY QuietStep DEF IInv, TypeOK, Goes
-------------------------------------------------------------------------------
\* The lookup and the selection, as far as they only move the request.
LEMMA LookupKept ==
    ASSUME IInv, NEW r \in Request, Lookup(r) \/ Judge(r) \/ Invalidate(r) \/ Join(r)
    PROVE  Kept'
    <1>0. Well(request[r], Known) /\ (slot # None => slot \in Known)
        BY DEF IInv, Kept, RequestsWell, EntriesGuarded
    <1> USE DEF Well, Distinct, SamePlace, HasEntry, InLine, Paired, Idle, At, cache
    <1>1. CASE Lookup(r)
        <2> DEFINE next == [Idle EXCEPT !.pc = IF slot = None THEN "join" ELSE "got",
                                        !.entry = slot]
        <2>1. Goes(r, next) /\ UNCHANGED <<resolved, entry, endpoint, slot>>
            BY <1>1 DEF Lookup
        <2>2. Well(next, Known) /\ SamePlace(request[r], next) /\ next.pc # "acquired"
            BY <1>0, <1>1 DEF Lookup
        <2> HIDE DEF next
        <2> QED
            BY <2>1, <2>2, GoesQuietly
    <1>2. CASE Judge(r)
        <2>1. PICK pc \in {"select", "stale", "expired"} :
                  Moves(r, pc) /\ UNCHANGED <<resolved, entry, endpoint, slot>>
            BY <1>2 DEF Judge
        <2> DEFINE next == [request[r] EXCEPT !.pc = pc]
        <2>2. request[r] \in RequestState /\ At(r, "got")
            BY <1>2 DEF Judge, IInv, TypeOK
        <2>3. Well(next, Known) /\ SamePlace(request[r], next) /\ next.pc # "acquired"
            BY <1>0, <2>1, <2>2 DEF RequestState
        <2>4. Goes(r, next)
            BY <2>1 DEF Moves
        <2> HIDE DEF next
        <2> QED
            BY <2>1, <2>3, <2>4, GoesQuietly
    <1>3. CASE Invalidate(r)
        <2> DEFINE next == [Idle EXCEPT !.pc = "join"]
        <2>1. Goes(r, next) /\ UNCHANGED <<resolved, entry, endpoint>> /\ slot' = None
            BY <1>3 DEF Invalidate
        <2>2. Well(next, Known) /\ SamePlace(request[r], next) /\ next.pc # "acquired"
            BY <1>3 DEF Invalidate
        <2> HIDE DEF next
        <2> QED
            BY <2>1, <2>2, GoesQuietly
    <1>4. CASE Join(r)
        <2> DEFINE found == [Idle EXCEPT !.pc = "select", !.entry = slot]
                   moved(pc) == [request[r] EXCEPT !.pc = pc]
        <2>1. request[r] \in RequestState /\ At(r, "join")
            BY <1>4 DEF Join, IInv, TypeOK
        <2>2. /\ slot # None => Well(found, Known) /\ SamePlace(request[r], found)
              /\ found.pc = "select"
              /\ \A pc \in {"waiting", "resolving"} :
                    /\ Well(moved(pc), Known) /\ SamePlace(request[r], moved(pc))
                    /\ moved(pc).pc # "acquired"
            BY <1>0, <2>1 DEF RequestState
        <2>3. /\ \/ Goes(r, found) /\ slot # None
                 \/ \E pc \in {"waiting", "resolving"} : Goes(r, moved(pc))
              /\ UNCHANGED <<resolved, entry, endpoint, slot>>
            BY <1>4 DEF Join, Moves
        <2> HIDE DEF found, moved
        <2> QED
            BY <2>2, <2>3, GoesQuietly
    <1> QED
        BY <1>1, <1>2, <1>3, <1>4

LEMMA SelectionKept ==
    ASSUME IInv, NEW r \in Request,
           LoadSnapshot(r) \/ Sample(r) \/ LockLower(r) \/ Recheck(r) \/ Publish(r)
    PROVE  Kept'
    <1>0. /\ Well(request[r], Known) /\ request[r] \in RequestState
          /\ \A n \in Known : Distinct(entry[n].current)
        BY DnsAssumption DEF IInv, Kept, TypeOK, RequestsWell, EntriesGuarded, Guarded, Known, Entry
    <1> USE DEF Well, SamePlace, HasEntry, InLine, Paired, At, cache
    <1>1. CASE LoadSnapshot(r)
        <2> DEFINE next == [request[r] EXCEPT !.pc = "loaded",
                                              !.snapshot = entry[request[r].entry].current]
        <2>1. Goes(r, next) /\ UNCHANGED <<resolved, entry, endpoint, slot>>
            BY <1>1 DEF LoadSnapshot
        <2>2. Well(next, Known) /\ SamePlace(request[r], next) /\ next.pc # "acquired"
            BY <1>0, <1>1 DEF LoadSnapshot, RequestState
        <2> HIDE DEF next
        <2> QED
            BY <2>1, <2>2, GoesQuietly
    <1>2. CASE Sample(r)
        <2>1. PICK first, second \in request[r].snapshot :
                  /\ first # second
                  /\ Goes(r, [request[r] EXCEPT !.pc = "sampled", !.snapshot = {},
                                                !.pair = <<first, second>>])
            BY <1>2 DEF Sample
        <2> DEFINE next == [request[r] EXCEPT !.pc = "sampled", !.snapshot = {},
                                              !.pair = <<first, second>>]
        <2>2. UNCHANGED <<resolved, entry, endpoint, slot>> /\ At(r, "loaded")
            BY <1>2 DEF Sample
        <2>3. first \in Endpoint /\ second \in Endpoint /\ first.ip # second.ip
            BY <1>0, <2>1 DEF RequestState, Distinct
        <2>4. Well(next, Known) /\ SamePlace(request[r], next) /\ next.pc # "acquired"
            BY <1>0, <2>2, <2>3 DEF RequestState, Distinct
        <2> HIDE DEF next
        <2> QED
            BY <2>1, <2>2, <2>4, GoesQuietly DEF next
    <1>3. CASE LockLower(r)
        <2> DEFINE next == [request[r] EXCEPT !.pc = "locked"]
        <2>1. Goes(r, next) /\ UNCHANGED <<resolved, entry, endpoint, slot>>
            BY <1>3 DEF LockLower, Moves
        <2>2. Well(next, Known) /\ SamePlace(request[r], next) /\ next.pc # "acquired"
            BY <1>0, <1>3 DEF LockLower, RequestState
        <2> HIDE DEF next
        <2> QED
            BY <2>1, <2>2, GoesQuietly
    <1>4. CASE Recheck(r)
        <2> DEFINE confirmed == [request[r] EXCEPT !.pc = "confirmed"]
                   revoked == [request[r] EXCEPT !.pc = "revoked"]
        <2>1. /\ Goes(r, confirmed) \/ Goes(r, revoked)
              /\ UNCHANGED <<resolved, entry, endpoint, slot>>
            BY <1>4 DEF Recheck, Moves
        <2>2. \A next \in {confirmed, revoked} :
                  Well(next, Known) /\ SamePlace(request[r], next) /\ next.pc # "acquired"
            BY <1>0, <1>4 DEF Recheck, RequestState
        <2> HIDE DEF confirmed, revoked
        <2> QED
            BY <2>1, <2>2, GoesQuietly
    <1>5. CASE Publish(r)
        <2> DEFINE next == [request[r] EXCEPT !.pc = "queued", !.entry = None]
        <2>1. Goes(r, next) /\ UNCHANGED <<resolved, entry, endpoint, slot>>
            BY <1>5 DEF Publish
        <2>2. Well(next, Known) /\ SamePlace(request[r], next) /\ next.pc # "acquired"
            BY <1>0, <1>5 DEF Publish, RequestState
        <2> HIDE DEF next
        <2> QED
            BY <2>1, <2>2, GoesQuietly
    <1> QED
        BY <1>1, <1>2, <1>3, <1>4, <1>5

\* The ends of an initial resolution that found nothing.
LEMMA ResolutionEndsKept ==
    ASSUME IInv, NEW r \in Request, ResolveFails(r) \/ DropLookup(r)
    PROVE  Kept'
    <1>0. \A q \in Request : Well(request[q], Known) /\ request[q] \in RequestState
        BY DEF IInv, Kept, TypeOK, RequestsWell
    <1>1. UNCHANGED <<resolved, entry, endpoint, slot>>
        BY DEF ResolveFails, DropLookup
    <1>2. \A q \in Request :
              \/ request'[q] = request[q]
              \/ /\ request[q].pc \in {"resolving", "waiting"}
                 /\ request'[q] = Idle \/ request'[q] = [request[q] EXCEPT !.pc = "join"]
        BY DEF ResolveFails, DropLookup, Settled, Goes, At, IInv, TypeOK
    <1>3. \A q \in Request : request[q].pc \in {"resolving", "waiting"} =>
              \A next \in {Idle, [request[q] EXCEPT !.pc = "join"]} :
                  Well(next, Known) /\ SamePlace(request[q], next) /\ next.pc # "acquired"
        BY <1>0 DEF RequestState, Idle, Well, Distinct, SamePlace, HasEntry, InLine, Paired
    <1> QED
        BY <1>1, <1>2, <1>3, QuietStep
-------------------------------------------------------------------------------
\* A step that writes entry n: the new entry is guarded, the others are as they
\* were, and whoever has acquired a refresh still has it.
LEMMA EntryWrites ==
    ASSUME IInv, NEW n \in Known, NEW h, Guarded(h), resolved' = resolved \/ resolved' = resolved + 1,
           entry'[n] = h, \A m \in Entry \ {n} : entry'[m] = entry[m], UNCHANGED slot
    PROVE  EntriesGuarded'
    <1>1. /\ EntriesGuarded /\ resolved \in Nat
          /\ Known \subseteq Known' /\ n \in Known'
        BY DEF IInv, Kept, TypeOK, Known
    <1>2. slot' # None => slot' \in Known'
        BY <1>1 DEF EntriesGuarded
    <1>3. \A m \in Entry : Guarded(entry'[m])
        <2> TAKE m \in Entry
        <2> CASE m = n
            OBVIOUS
        <2> CASE m # n
            BY <1>1 DEF EntriesGuarded
        <2> QED
            OBVIOUS
    <1>4. \A m \in Entry \ Known' : entry'[m].current = {} /\ entry'[m].task = "none"
        BY <1>1 DEF EntriesGuarded
    <1>5. \A m \in Entry : Guarded(entry'[m]) = Guarded(entry[m])'
        BY DEF Guarded
    <1> QED
        BY <1>2, <1>3, <1>4, <1>5 DEF EntriesGuarded

LEMMA AcquireKept ==
    ASSUME IInv, NEW r \in Request, TryAcquireRefresh(r)
    PROVE  Kept'
    <1> DEFINE n == request[r].entry
               kept == [request[r] EXCEPT !.pc = "select"]
               next == [request[r] EXCEPT !.pc = "acquired"]
    <1>0. /\ request[r] \in RequestState /\ At(r, "stale") /\ n \in Known /\ n \in Entry
          /\ Well(request[r], Known) /\ entry[n] \in HostEntry /\ Guarded(entry[n])
          /\ request \in [Request -> RequestState] /\ entry \in [Entry -> HostEntry]
        BY DnsAssumption
        DEF TryAcquireRefresh, IInv, Kept, TypeOK, RequestsWell, Well, At, HasEntry, Known, Entry,
            EntriesGuarded
    <1>1. UNCHANGED <<resolved, endpoint, slot>>
        BY DEF TryAcquireRefresh, cache
    <1>2. \A q \in {kept, next} : Well(q, Known) /\ SamePlace(request[r], q)
        BY <1>0 DEF Well, SamePlace, HasEntry, InLine, Paired, At, RequestState
    <1>3. kept.pc # "acquired"
        BY <1>0 DEF RequestState
    <1>4. CASE entry[n].refreshing
        <2>1. Goes(r, kept) /\ UNCHANGED entry
            BY <1>4 DEF TryAcquireRefresh, Moves
        <2> HIDE DEF kept
        <2> QED
            BY <1>1, <1>2, <1>3, <2>1, GoesQuietly
    <1>5. CASE ~entry[n].refreshing
        <2>1. /\ entry' = [entry EXCEPT ![n].refreshing = TRUE] /\ Goes(r, next)
            BY <1>5 DEF TryAcquireRefresh, Moves
        <2>2. /\ request'[r] = next /\ \A q \in Request \ {r} : request'[q] = request[q]
              /\ entry'[n] = [entry[n] EXCEPT !.refreshing = TRUE]
              /\ \A m \in Entry \ {n} : entry'[m] = entry[m]
            BY <1>0, <2>1 DEF Goes
        <2>3. RequestsWell'
            BY <1>0, <1>1, <1>2, <2>2, RequestsStep DEF IInv, Kept, Known
        <2>4. Guarded(entry'[n])
            BY <1>0, <2>2 DEF Guarded, HostEntry
        <2>5. EntriesGuarded'
            BY <1>0, <1>1, <2>2, <2>4, EntryWrites
        <2>6. entry[n].task = "none" /\ ~entry[n].refreshing
            BY <1>0, <1>5 DEF Guarded
        <2>7. next.pc = "acquired" /\ next.entry = n
            BY <1>0 DEF RequestState
        <2>8. /\ entry'[n].refreshing /\ entry'[n].task = "none"
              /\ \A q \in Request : At(q, "acquired") =>
                    /\ request[q].entry # n /\ request[q].entry \in Entry
                    /\ entry[request[q].entry].refreshing
                    /\ entry[request[q].entry].task = "none"
            BY <1>0, <2>2, <2>6, DnsAssumption
            DEF HostEntry, IInv, Kept, OneRefresh, RequestsWell, Well, HasEntry, At, Known, Entry,
                TypeOK
        <2>9. OneRefresh'
            <3>a. /\ request'[r].pc = "acquired" /\ request'[r].entry = n
                  /\ \A q \in Request \ {r} : request'[q] = request[q]
                  /\ \A m \in Entry \ {n} : entry'[m] = entry[m]
                BY <2>2, <2>7
            <3>b. entry'[n].refreshing /\ entry'[n].task = "none"
                BY <2>8
            <3>c. \A q \in Request \ {r} : request'[q].pc = "acquired" =>
                      /\ request'[q].entry = request[q].entry /\ At(q, "acquired")
                      /\ request'[q].entry # n /\ request'[q].entry \in Entry
                BY <2>8, <3>a DEF At
            <3> HIDE DEF next, n
            <3> SUFFICES ASSUME NEW p \in Request, request'[p].pc = "acquired"
                         PROVE  /\ entry'[request'[p].entry].refreshing
                                /\ entry'[request'[p].entry].task = "none"
                                /\ \A q \in Request :
                                      request'[q].pc = "acquired" /\
                                      request'[q].entry = request'[p].entry => q = p
                BY DEF OneRefresh, At
            <3>1. CASE p = r
                BY <3>a, <3>b, <3>c, <3>1
            <3>2. CASE p # r
                <4>1. entry'[request'[p].entry] = entry[request[p].entry] /\ At(p, "acquired")
                    BY <3>a, <3>c, <3>2
                <4>2. \A q \in Request : At(q, "acquired") /\ request[q].entry = request[p].entry
                                           => q = p
                    BY <4>1 DEF IInv, Kept, OneRefresh
                <4>3. entry[request[p].entry].refreshing /\ entry[request[p].entry].task = "none"
                    BY <2>8, <4>1
                <4> QED
                    BY <3>a, <3>c, <3>2, <4>1, <4>2, <4>3
            <3> QED
                BY <3>1, <3>2
        <2>10. GuardsMatchEndpoints'
            BY <1>1, <1>2, <2>2, PlacesStep DEF IInv, Kept, SamePlace
        <2> QED
            BY <2>3, <2>5, <2>9, <2>10 DEF Kept
    <1> QED
        BY <1>4, <1>5

LEMMA SpawnKept ==
    ASSUME IInv, NEW r \in Request, SpawnRefresh(r)
    PROVE  Kept'
    <1> DEFINE n == request[r].entry
               next == [request[r] EXCEPT !.pc = "select"]
    <1>0. /\ request[r] \in RequestState /\ At(r, "acquired") /\ n \in Known /\ n \in Entry
          /\ Well(request[r], Known) /\ entry[n] \in HostEntry /\ Guarded(entry[n])
          /\ request \in [Request -> RequestState] /\ entry \in [Entry -> HostEntry]
        BY DnsAssumption
        DEF SpawnRefresh, IInv, Kept, TypeOK, RequestsWell, Well, At, HasEntry, Known, Entry,
            EntriesGuarded
    <1>1. UNCHANGED <<resolved, endpoint, slot>> /\ Goes(r, next)
        BY DEF SpawnRefresh, cache, Moves
    <1>2. Well(next, Known) /\ SamePlace(request[r], next) /\ next.pc # "acquired"
        BY <1>0 DEF Well, SamePlace, HasEntry, InLine, Paired, At, RequestState
    <1>3. /\ request'[r] = next /\ \A q \in Request \ {r} : request'[q] = request[q]
          /\ entry'[n] = [entry[n] EXCEPT !.previous = entry[n].current, !.task = "resolving"]
          /\ \A m \in Entry \ {n} : entry'[m] = entry[m]
        BY <1>0, <1>1 DEF Goes, SpawnRefresh
    <1>4. RequestsWell'
        BY <1>1, <1>2, <1>3, RequestsStep DEF IInv, Kept, Known
    <1>5. entry[n].refreshing /\ \A q \in Request \ {r} : At(q, "acquired") => request[q].entry # n
        BY <1>0 DEF IInv, Kept, OneRefresh
    <1>6. Guarded(entry'[n])
        BY <1>0, <1>3, <1>5 DEF Guarded, HostEntry
    <1>7. EntriesGuarded'
        BY <1>0, <1>1, <1>3, <1>6, EntryWrites
    <1>8. \A q \in Request : At(q, "acquired") => request[q].entry \in Entry
        BY DnsAssumption DEF IInv, Kept, TypeOK, RequestsWell, Well, HasEntry, At, Known, Entry
    <1>9. OneRefresh'
        <2> HIDE DEF next, n
        <2> QED
            BY <1>2, <1>3, <1>5, <1>8 DEF IInv, Kept, OneRefresh, At
    <1>10. GuardsMatchEndpoints'
        BY <1>1, <1>2, <1>3, PlacesStep DEF IInv, Kept, SamePlace
    <1> QED
        BY <1>4, <1>7, <1>9, <1>10 DEF Kept
-------------------------------------------------------------------------------
\* The refresh task of entry n: nobody can have acquired a refresh of it.
LEMMA TaskKept ==
    ASSUME IInv, NEW n \in Entry, RefreshResolves(n) \/ RefreshFails(n) \/ ReleaseRefresh(n)
    PROVE  Kept'
    <1>0. /\ entry[n].task # "none" /\ n \in Known /\ entry[n] \in HostEntry
          /\ Guarded(entry[n]) /\ entry[n].refreshing /\ entry \in [Entry -> HostEntry]
        BY DEF RefreshResolves, RefreshFails, ReleaseRefresh, IInv, Kept, TypeOK, EntriesGuarded,
               Guarded
    <1>1. /\ UNCHANGED <<slot, endpoint, request>>
          /\ resolved' = resolved \/ resolved' = resolved + 1
          /\ \A m \in Entry \ {n} : entry'[m] = entry[m]
        BY <1>0 DEF RefreshResolves, RefreshFails, ReleaseRefresh, cache
    <1>2. Guarded(entry'[n])
        <2>1. CASE RefreshResolves(n)
            <3>1. resolved + 1 \in Entry /\ entry[n].previous \in SUBSET Endpoint
                <4>1. resolved + 1 \in Entry
                    <5>1. resolved \in 0 .. MaxResolves /\ resolved < MaxResolves
                        BY <2>1 DEF RefreshResolves, IInv, TypeOK
                    <5> QED
                        BY <5>1, DnsAssumption DEF Entry
                <4> QED
                    BY <1>0, <4>1 DEF HostEntry
            <3>2. Distinct(entry[n].previous)
                BY <1>0, <2>1 DEF RefreshResolves, Guarded
            <3>3. PICK addresses \in Answers :
                      entry' = [entry EXCEPT ![n].current = Found(addresses, entry[n].previous),
                                             ![n].fetched_at = now,
                                             ![n].previous = {}, ![n].task = "release",
                                             ![n].left = entry[n].left \cup
                                               (entry[n].current
                                                  \ Found(addresses, entry[n].previous))]
                BY <2>1 DEF RefreshResolves
            <3>4. Distinct(Found(addresses, entry[n].previous))
                BY <3>1, <3>2, FoundFacts
            <3>5. /\ entry'[n].current = Found(addresses, entry[n].previous)
                  /\ entry'[n].task = "release" /\ entry'[n].refreshing = entry[n].refreshing
                BY <1>0, <3>3 DEF HostEntry
            <3> QED
                BY <1>0, <3>4, <3>5 DEF Guarded
        <2>2. CASE RefreshFails(n)
            <3>1. /\ entry'[n].current = entry[n].current
                  /\ entry'[n].task = "release" /\ entry'[n].refreshing = entry[n].refreshing
                BY <1>0, <2>2 DEF RefreshFails, HostEntry
            <3> QED
                BY <1>0, <3>1 DEF Guarded
        <2>3. CASE ReleaseRefresh(n)
            <3>1. entry'[n].current = entry[n].current /\ entry'[n].task = "none"
                BY <1>0, <2>3 DEF ReleaseRefresh, HostEntry
            <3> QED
                BY <1>0, <3>1 DEF Guarded
        <2> QED
            BY <2>1, <2>2, <2>3
    <1>3. RequestsWell'
        BY <1>1, RequestsStep DEF IInv, Kept
    <1>4. EntriesGuarded'
        BY <1>0, <1>1, <1>2, EntryWrites
    <1>5. OneRefresh'
        BY <1>0, <1>1, DnsAssumption
        DEF IInv, Kept, OneRefresh, At, RequestsWell, Well, HasEntry, Known, Entry, TypeOK
    <1>6. GuardsMatchEndpoints'
        BY <1>1, PlacesStep DEF IInv, Kept, SamePlace
    <1> QED
        BY <1>3, <1>4, <1>5, <1>6 DEF Kept

\* A new entry is one that nobody has.
LEMMA ResolveKept ==
    ASSUME IInv, NEW r \in Request, Resolve(r)
    PROVE  Kept'
    <1> DEFINE n == resolved + 1
               next == [Idle EXCEPT !.pc = "select", !.entry = n]
    <1>0. /\ n \in Entry /\ n \notin Known /\ n \in Known' /\ resolved' = n
          /\ entry \in [Entry -> HostEntry] /\ UNCHANGED endpoint /\ slot' = n
        BY DnsAssumption DEF Resolve, IInv, TypeOK, Entry, Known
    <1>1. \A q \in Request :
              \/ request'[q] = request[q]
              \/ request[q].pc \in {"resolving", "waiting"} /\ request'[q] = next
        BY DEF Resolve, Settled, At
    <1>2. /\ Well(next, Known') /\ next.pc # "acquired"
          /\ \A q \in Request : request[q].pc \in {"resolving", "waiting"} =>
                SamePlace(request[q], next)
        BY <1>0 DEF Well, Distinct, SamePlace, Idle, HasEntry, Paired, InLine
    <1> HIDE DEF next
    <1>3. PICK addresses \in Answers :
              entry' = [entry EXCEPT ![n].current = Found(addresses, {}), ![n].fetched_at = now]
        BY DEF Resolve
    <1>4. /\ entry'[n].current = Found(addresses, {}) /\ entry'[n].task = entry[n].task
          /\ \A m \in Entry \ {n} : entry'[m] = entry[m]
        BY <1>0, <1>3 DEF HostEntry
    <1>5. entry[n].task = "none"
        BY <1>0 DEF IInv, Kept, EntriesGuarded
    <1>6. Distinct(Found(addresses, {}))
        BY <1>0, FoundFacts DEF Distinct
    <1>7. Guarded(entry'[n])
        BY <1>4, <1>5, <1>6 DEF Guarded
    <1>8. RequestsWell'
        BY <1>0, <1>1, <1>2, RequestsStep DEF IInv, Kept
    <1>9. EntriesGuarded'
        <2>1. Known' = Known \cup {n}
            BY <1>0, DnsAssumption DEF IInv, TypeOK, Known
        <2> QED
            BY <1>0, <1>4, <1>7, <2>1 DEF IInv, Kept, EntriesGuarded
    <1>10. OneRefresh'
        <2>1. \A q \in Request : At(q, "acquired") => request[q].entry \in Entry \ {n}
            BY <1>0, DnsAssumption
            DEF IInv, Kept, RequestsWell, Well, HasEntry, At, Known, Entry, TypeOK
        <2> QED
            BY <1>1, <1>2, <1>4, <2>1 DEF IInv, Kept, OneRefresh, At
    <1>11. GuardsMatchEndpoints'
        BY <1>0, <1>1, <1>2, PlacesStep DEF IInv, Kept, SamePlace
    <1> QED
        BY <1>8, <1>9, <1>10, <1>11 DEF Kept
-------------------------------------------------------------------------------
\* A set of requests is finite, and one more is at most one more.
LEMMA RequestSets ==
    ASSUME NEW line \in SUBSET Request, NEW r \in Request
    PROVE  /\ Cardinality(line) \in Nat
           /\ Cardinality(line \ {r}) \in Nat
           /\ Cardinality(line \ {r}) <= Cardinality(line)
           /\ Cardinality(line \cup {r}) \in Nat
           /\ Cardinality(line \cup {r}) <= Cardinality(line) + 1
           /\ \A bound \in Nat :
                 /\ Cardinality(line) <= bound => Cardinality(line \ {r}) <= bound
                 /\ Cardinality(line) < bound => Cardinality(line \cup {r}) <= bound
    <1>1. IsFiniteSet(line) /\ IsFiniteSet(line \ {r})
        BY DnsAssumption, FS_Subset
    <1>2. /\ Cardinality(line) \in Nat /\ Cardinality(line \ {r}) \in Nat
          /\ Cardinality(line \ {r}) <= Cardinality(line)
        BY <1>1, FS_CardinalityType, FS_Subset
    <1>3. /\ Cardinality(line \cup {r}) = Cardinality(line)
             \/ Cardinality(line \cup {r}) = Cardinality(line) + 1
        BY <1>1, FS_AddElement
    <1> QED
        BY <1>2, <1>3

\* A step in which one request, at one endpoint, takes a place, gives it up or
\* goes on to run.
LEMMA PlacesMove ==
    ASSUME GuardsMatchEndpoints, NEW r \in Request, NEW e \in Endpoint,
           \A q \in Request \ {r} : request'[q] = request[q],
           \A f \in Endpoint \ {e} : endpoint'[f] = endpoint[f],
           request[r].pc \in InLine \cup {"running"} => request[r].endpoint = e,
           request'[r].pc \in InLine \cup {"running"} => request'[r].endpoint = e,
           endpoint'[e].line = IF request'[r].pc \in InLine THEN endpoint[e].line \cup {r}
                               ELSE endpoint[e].line \ {r},
           endpoint'[e].running = IF request'[r].pc = "running" THEN endpoint[e].running \cup {r}
                                  ELSE endpoint[e].running \ {r},
           Cardinality(endpoint'[e].line) <= Places, Cardinality(endpoint'[e].running) <= Lanes
    PROVE  GuardsMatchEndpoints'
    <1> SUFFICES ASSUME NEW f \in Endpoint
                 PROVE  /\ endpoint'[f].line = {q \in Request : request'[q].endpoint = f /\
                                                                request'[q].pc \in InLine}
                        /\ endpoint'[f].running = {q \in Request : request'[q].endpoint = f /\
                                                                   request'[q].pc = "running"}
                        /\ Cardinality(endpoint'[f].line) <= Places
                        /\ Cardinality(endpoint'[f].running) <= Lanes
        BY DEF GuardsMatchEndpoints, InLine, At
    <1>1. /\ endpoint[f].line = {q \in Request : request[q].endpoint = f /\
                                                 request[q].pc \in InLine}
          /\ endpoint[f].running = {q \in Request : request[q].endpoint = f /\
                                                    request[q].pc = "running"}
          /\ Cardinality(endpoint[f].line) <= Places
          /\ Cardinality(endpoint[f].running) <= Lanes
        BY DEF GuardsMatchEndpoints, InLine, At
    <1>2. CASE f = e
        <2>1. endpoint'[f].line = {q \in Request : request'[q].endpoint = f /\
                                                   request'[q].pc \in InLine}
            BY <1>1, <1>2
        <2>2. endpoint'[f].running = {q \in Request : request'[q].endpoint = f /\
                                                      request'[q].pc = "running"}
            BY <1>1, <1>2
        <2> QED
            BY <1>2, <2>1, <2>2
    <1>3. CASE f # e
        <2>1. \A q \in Request :
                  /\ request[q].endpoint = f /\ request[q].pc \in InLine
                         <=> request'[q].endpoint = f /\ request'[q].pc \in InLine
                  /\ request[q].endpoint = f /\ request[q].pc = "running"
                         <=> request'[q].endpoint = f /\ request'[q].pc = "running"
            BY <1>3
        <2> QED
            BY <1>1, <1>3, <2>1
    <1> QED
        BY <1>2, <1>3

LEMMA ChoosesKept ==
    ASSUME IInv, NEW r \in Request, NEW e \in Endpoint, HasRoom(e), Chooses(r, e),
           request[r].pc \in {"loaded", "locked"}, UNCHANGED <<resolved, entry, slot>>
    PROVE  Kept'
    <1> DEFINE next == [Idle EXCEPT !.pc = "chosen", !.entry = request[r].entry, !.endpoint = e]
    <1>0. /\ request \in [Request -> RequestState]
          /\ endpoint \in [Endpoint -> [line : SUBSET Request, running : SUBSET Request]]
          /\ Well(request[r], Known)
        BY DEF IInv, Kept, TypeOK, RequestsWell
    <1>1. /\ request'[r] = next /\ \A q \in Request \ {r} : request'[q] = request[q]
        BY <1>0 DEF Chooses, Goes
    <1>2. /\ Well(next, Known) /\ next.pc = "chosen" /\ next.endpoint = e
        BY <1>0 DEF Well, Distinct, Idle, HasEntry, Paired, InLine
    <1> HIDE DEF next
    <1>3. RequestsWell'
        BY <1>1, <1>2, RequestsStep DEF IInv, Kept, Known
    <1>4. EntriesGuarded'
        BY DEF IInv, Kept, EntriesGuarded, Known
    <1>5. OneRefresh'
        BY <1>1, <1>2, RefreshStep DEF IInv, Kept
    <1>6. /\ endpoint'[e].line = endpoint[e].line \cup {r}
          /\ endpoint'[e].running = endpoint[e].running
          /\ \A f \in Endpoint \ {e} : endpoint'[f] = endpoint[f]
        BY <1>0 DEF Chooses
    <1>7. Cardinality(endpoint[e].line \cup {r}) <= Places
        <2>1. PICK line \in SUBSET Request : line = endpoint[e].line
            BY <1>0
        <2>2. Cardinality(line) < Places
            BY <2>1 DEF HasRoom
        <2>3. Cardinality(line \cup {r}) <= Places
            BY <2>2, RequestSets, DnsAssumption
        <2> QED
            BY <2>1, <2>3
    <1>8. /\ r \notin endpoint[e].running
          /\ Cardinality(endpoint[e].running) <= Lanes
          /\ endpoint[e].running \ {r} = endpoint[e].running
        BY DEF IInv, Kept, GuardsMatchEndpoints, At
    <1>9. GuardsMatchEndpoints'
        BY <1>1, <1>2, <1>6, <1>7, <1>8, PlacesMove DEF IInv, Kept, InLine
    <1> QED
        BY <1>3, <1>4, <1>5, <1>9 DEF Kept

LEMMA LeavesKept ==
    ASSUME IInv, NEW r \in Request, request[r].pc \in InLine \cup {"running"},
           Leaves(r, request[r].endpoint), NEW next, Goes(r, next),
           Well(next, Known), next.pc \in {"idle", "select"},
           UNCHANGED <<resolved, entry, slot>>
    PROVE  Kept'
    <1>0. /\ request \in [Request -> RequestState]
          /\ endpoint \in [Endpoint -> [line : SUBSET Request, running : SUBSET Request]]
          /\ request[r].endpoint \in Endpoint
        BY DEF IInv, Kept, TypeOK, RequestsWell, Well
    <1>1. PICK e \in Endpoint : e = request[r].endpoint
        BY <1>0
    <1>2. /\ request'[r] = next /\ \A q \in Request \ {r} : request'[q] = request[q]
        BY <1>0 DEF Goes
    <1>3. RequestsWell'
        BY <1>2, RequestsStep DEF IInv, Kept, Known
    <1>4. EntriesGuarded'
        BY DEF IInv, Kept, EntriesGuarded, Known
    <1>5. OneRefresh'
        BY <1>2, RefreshStep DEF IInv, Kept
    <1>6. /\ endpoint'[e].line = endpoint[e].line \ {r}
          /\ endpoint'[e].running = endpoint[e].running \ {r}
          /\ \A f \in Endpoint \ {e} : endpoint'[f] = endpoint[f]
        BY <1>0, <1>1 DEF Leaves
    <1>7. /\ Cardinality(endpoint[e].line \ {r}) <= Places
          /\ Cardinality(endpoint[e].running \ {r}) <= Lanes
        <2>1. /\ Cardinality(endpoint[e].line) <= Places
              /\ Cardinality(endpoint[e].running) <= Lanes
            BY DEF IInv, Kept, GuardsMatchEndpoints
        <2>2. PICK line \in SUBSET Request, running \in SUBSET Request :
                  line = endpoint[e].line /\ running = endpoint[e].running
            BY <1>0
        <2>3. Cardinality(line) <= Places /\ Cardinality(running) <= Lanes
            BY <2>1, <2>2
        <2>4. Cardinality(line \ {r}) <= Places /\ Cardinality(running \ {r}) <= Lanes
            BY <2>3, RequestSets, DnsAssumption
        <2> QED
            BY <2>2, <2>4
    <1>8. GuardsMatchEndpoints'
        BY <1>1, <1>2, <1>6, <1>7, PlacesMove DEF IInv, Kept, InLine
    <1> QED
        BY <1>3, <1>4, <1>5, <1>8 DEF Kept

LEMMA DispatchKept ==
    ASSUME IInv, NEW r \in Request, BeginDispatch(r)
    PROVE  Kept'
    <1> DEFINE next == [request[r] EXCEPT !.pc = "running"]
    <1>0. /\ request \in [Request -> RequestState] /\ At(r, "queued")
          /\ endpoint \in [Endpoint -> [line : SUBSET Request, running : SUBSET Request]]
          /\ request[r].endpoint \in Endpoint /\ Well(request[r], Known)
          /\ request[r] \in RequestState
        BY DEF IInv, Kept, TypeOK, RequestsWell, Well, BeginDispatch, At, InLine
    <1>1. PICK e \in Endpoint : e = request[r].endpoint
        BY <1>0
    <1>2. /\ request'[r] = next /\ \A q \in Request \ {r} : request'[q] = request[q]
          /\ UNCHANGED <<resolved, entry, slot>>
        BY <1>0 DEF BeginDispatch, Moves, Goes, cache
    <1>3. Well(next, Known) /\ next.pc = "running" /\ next.endpoint = e
        BY <1>0, <1>1 DEF Well, HasEntry, Paired, InLine, At, RequestState
    <1> HIDE DEF next
    <1>4. RequestsWell'
        BY <1>2, <1>3, RequestsStep DEF IInv, Kept, Known
    <1>5. EntriesGuarded'
        BY <1>2 DEF IInv, Kept, EntriesGuarded, Known
    <1>6. OneRefresh'
        BY <1>2, <1>3, RefreshStep DEF IInv, Kept
    <1>7. /\ endpoint'[e].line = endpoint[e].line \ {r}
          /\ endpoint'[e].running = endpoint[e].running \cup {r}
          /\ \A f \in Endpoint \ {e} : endpoint'[f] = endpoint[f]
        BY <1>0, <1>1 DEF BeginDispatch
    <1>8. /\ Cardinality(endpoint[e].line \ {r}) <= Places
          /\ Cardinality(endpoint[e].running \cup {r}) <= Lanes
        <2>1. /\ Cardinality(endpoint[e].line) <= Places
              /\ Cardinality(endpoint[e].running) < Lanes
            BY <1>1 DEF IInv, Kept, GuardsMatchEndpoints, BeginDispatch
        <2>2. PICK line \in SUBSET Request, running \in SUBSET Request :
                  line = endpoint[e].line /\ running = endpoint[e].running
            BY <1>0
        <2>3. Cardinality(line) <= Places /\ Cardinality(running) < Lanes
            BY <2>1, <2>2
        <2>4. Cardinality(line \ {r}) <= Places /\ Cardinality(running \cup {r}) <= Lanes
            BY <2>3, RequestSets, DnsAssumption
        <2> QED
            BY <2>2, <2>4
    <1>9. GuardsMatchEndpoints'
        BY <1>0, <1>1, <1>2, <1>3, <1>7, <1>8, PlacesMove DEF IInv, Kept, InLine, At
    <1> QED
        BY <1>4, <1>5, <1>6, <1>9 DEF Kept
-------------------------------------------------------------------------------
\* A selection that ends in a reservation or in a rejection.
LEMMA ReserveKept ==
    ASSUME IInv, NEW r \in Request, ReserveOnly(r) \/ ReservePair(r)
    PROVE  Kept'
    <1>0. /\ request[r].pc \in {"loaded", "locked"} /\ request[r] \in RequestState
          /\ UNCHANGED <<resolved, entry, slot>>
        BY DEF ReserveOnly, ReservePair, At, cache, IInv, TypeOK
    <1>1. ASSUME Goes(r, Idle), UNCHANGED endpoint PROVE Kept'
        <2>1. Well(Idle, Known) /\ SamePlace(request[r], Idle) /\ Idle.pc # "acquired"
            BY <1>0 DEF Well, Distinct, Idle, SamePlace, HasEntry, Paired, InLine
        <2> QED
            BY <1>0, <1>1, <2>1, GoesQuietly
    <1>2. ASSUME NEW e \in Endpoint, HasRoom(e), Chooses(r, e) PROVE Kept'
        BY <1>0, <1>2, ChoosesKept
    <1>3. CASE ReserveOnly(r)
        <2>1. PICK e \in request[r].snapshot :
                  IF HasRoom(e) THEN Chooses(r, e) ELSE Goes(r, Idle) /\ UNCHANGED endpoint
            BY <1>3 DEF ReserveOnly
        <2>2. e \in Endpoint
            BY <1>0, <2>1 DEF RequestState
        <2> QED
            BY <1>1, <1>2, <2>1, <2>2
    <1>4. CASE ReservePair(r)
        <2> DEFINE open == {e \in {Lower(request[r].pair), Upper(request[r].pair)} : HasRoom(e)}
        <2>1. CASE open = {}
            BY <1>1, <1>4, <2>1 DEF ReservePair
        <2>2. CASE open # {}
            <3>1. PICK e \in open : Chooses(r, e)
                BY <1>4, <2>2 DEF ReservePair
            <3>2. e \in Endpoint
                BY <1>4, <3>1, PairFacts DEF ReservePair, At, Paired, IInv, Kept
            <3> QED
                BY <1>2, <3>1, <3>2
        <2> QED
            BY <2>1, <2>2
    <1> QED
        BY <1>3, <1>4

LEMMA LeaveKept ==
    ASSUME IInv, NEW r \in Request, Revoke(r) \/ FinishGuard(r)
    PROVE  Kept'
    <1>0. /\ request[r].pc \in InLine \cup {"running"}
          /\ Leaves(r, request[r].endpoint) /\ UNCHANGED <<resolved, entry, slot>>
        BY DEF Revoke, FinishGuard, InLine, At, cache
    <1>1. CASE Revoke(r)
        <2> DEFINE next == [Idle EXCEPT !.pc = "select", !.entry = request[r].entry]
        <2>1. Well(next, Known) /\ next.pc = "select"
            BY <1>1 DEF Revoke, IInv, Kept, RequestsWell, Well, Distinct, Idle, HasEntry, Paired,
                        InLine, At
        <2>2. Goes(r, next)
            BY <1>1 DEF Revoke
        <2> HIDE DEF next
        <2> QED
            BY <1>0, <2>1, <2>2, LeavesKept
    <1>2. CASE FinishGuard(r)
        <2>1. Well(Idle, Known) /\ Idle.pc = "idle" /\ Goes(r, Idle)
            BY <1>2 DEF FinishGuard, Well, Distinct, Idle, HasEntry, Paired, InLine
        <2> QED
            BY <1>0, <2>1, LeavesKept
    <1> QED
        BY <1>1, <1>2

LEMMA InitInvariant == Init => IInv
    <1> SUFFICES ASSUME Init PROVE IInv
        OBVIOUS
    <1>1. TypeOK
        BY InitType
    <1>2. RequestsWell
        BY DEF Init, RequestsWell, Well, Distinct, Idle, HasEntry, Paired, InLine
    <1>3. EntriesGuarded
        BY DEF Init, EntriesGuarded, Guarded, Distinct
    <1>4. OneRefresh
        BY DEF Init, OneRefresh, At, Idle
    <1>5. GuardsMatchEndpoints
        <2>1. Cardinality({}) = 0 /\ 0 <= Places /\ 0 <= Lanes
            BY DnsAssumption, FS_EmptySet
        <2>2. \A e \in Endpoint : endpoint[e].line = {} /\ endpoint[e].running = {}
            BY DEF Init
        <2>3. \A r \in Request : request[r].pc = "idle"
            BY DEF Init, Idle
        <2> QED
            BY <2>1, <2>2, <2>3 DEF GuardsMatchEndpoints, At
    <1> QED
        BY <1>1, <1>2, <1>3, <1>4, <1>5 DEF IInv, Kept

LEMMA NextInvariant == IInv /\ [Next]_vars => IInv'
    <1> SUFFICES ASSUME IInv, [Next]_vars PROVE IInv'
        OBVIOUS
    <1>1. TypeOK'
        BY TypeStep DEF IInv, Kept
    <1>2. Kept'
        <2>1. ASSUME NEW r \in Request, Lookup(r) \/ Judge(r) \/ Invalidate(r) \/ Join(r)
              PROVE  Kept'
            BY <2>1, LookupKept
        <2>2. ASSUME NEW r \in Request, TryAcquireRefresh(r) PROVE Kept'
            BY <2>2, AcquireKept
        <2>3. ASSUME NEW r \in Request, SpawnRefresh(r) PROVE Kept'
            BY <2>3, SpawnKept
        <2>4. ASSUME NEW r \in Request, Resolve(r) PROVE Kept'
            BY <2>4, ResolveKept
        <2>5. ASSUME NEW r \in Request, ResolveFails(r) \/ DropLookup(r) PROVE Kept'
            BY <2>5, ResolutionEndsKept
        <2>6. ASSUME NEW n \in Entry, RefreshResolves(n) \/ RefreshFails(n) \/ ReleaseRefresh(n)
              PROVE  Kept'
            BY <2>6, TaskKept
        <2>7. ASSUME NEW r \in Request,
                     LoadSnapshot(r) \/ Sample(r) \/ LockLower(r) \/ Recheck(r) \/ Publish(r)
              PROVE  Kept'
            BY <2>7, SelectionKept
        <2>8. ASSUME NEW r \in Request, ReserveOnly(r) \/ ReservePair(r) PROVE Kept'
            BY <2>8, ReserveKept
        <2>9. ASSUME NEW r \in Request, Revoke(r) \/ FinishGuard(r) PROVE Kept'
            BY <2>9, LeaveKept
        <2>10. ASSUME NEW r \in Request, BeginDispatch(r) PROVE Kept'
            BY <2>10, DispatchKept
        <2>11. CASE Evict
            BY <2>11, QuietStep DEF Evict
        <2>12. CASE Tick
            BY <2>12, QuietStep DEF Tick, cache
        <2>13. CASE UNCHANGED vars
            BY <2>13, QuietStep DEF vars, cache
        <2> QED
            BY <2>1, <2>2, <2>3, <2>4, <2>5, <2>6, <2>7, <2>8, <2>9, <2>10, <2>11, <2>12, <2>13
            DEF Next
    <1> QED
        BY <1>1, <1>2 DEF IInv
-------------------------------------------------------------------------------
\* Once somebody sleeps on a lock, the one who holds it is not asleep on a lower
\* one: a set in which everybody waits would have no holder of a highest lock.
Above(circle, x) == {y \in circle : Lower(request[y].pair).ip > Lower(request[x].pair).ip}

LEMMA NoCircle ==
    ASSUME TypeOK, RequestsWell, NEW circle \in (SUBSET Request) \ {{}}
    PROVE  \E s \in circle : \A r \in circle : ~Blocks(r, s)
    <1> SUFFICES ASSUME \A s \in circle : \E r \in circle : Blocks(r, s) PROVE FALSE
        OBVIOUS
    <1> DEFINE holders == {r \in circle : At(r, "locked")}
               aboves == {Above(holders, r) : r \in holders}
    <1>1. holders # {}
        BY DEF Blocks
    <1>2. IsFiniteSet(holders)
        BY DnsAssumption, FS_Subset
    <1>3. aboves \subseteq FiniteSubsetsOf(holders) /\ aboves # {}
        <2>1. \A r \in holders : Above(holders, r) \in SUBSET holders
            BY DEF Above
        <2>2. FiniteSubsetsOf(holders) = SUBSET holders
            BY <1>2, FS_FiniteSubsetsOfFinite
        <2>3. aboves \subseteq SUBSET holders
            BY <2>1
        <2> HIDE DEF holders
        <2>4. aboves # {}
            BY <1>1
        <2> QED
            BY <2>2, <2>3, <2>4
    <1>4. PICK up \in aboves : \A a \in aboves : <<a, up>> \notin StrictSubsetOrdering(holders)
        BY <1>3, FS_StrictSubsetOrderingWellFounded, WFMin
    <1>5. PICK s \in holders : up = Above(holders, s)
        OBVIOUS
    <1>6. PICK r \in circle : Blocks(r, s)
        BY <1>5
    <1>7. r \in holders /\ Upper(request[s].pair) = Lower(request[r].pair)
        BY <1>5, <1>6 DEF Blocks, At
    <1>8. \A q \in holders : Lower(request[q].pair).ip \in Nat
        <2> SUFFICES ASSUME NEW q \in holders PROVE Lower(request[q].pair).ip \in Nat
            OBVIOUS
        <2>1. Lower(request[q].pair) \in Endpoint
            BY PairFacts DEF Paired, At
        <2> QED
            BY <2>1, DnsAssumption DEF Endpoint
    <1>9. Lower(request[s].pair).ip < Lower(request[r].pair).ip
        BY <1>5, <1>7, PairFacts DEF Paired, At
    <1>10. /\ Above(holders, r) \subseteq Above(holders, s)
           /\ r \in Above(holders, s) /\ r \notin Above(holders, r)
        BY <1>5, <1>7, <1>8, <1>9 DEF Above
    <1>11. Above(holders, r) \in aboves
        BY <1>7
    <1>12. Above(holders, r) \in SUBSET holders /\ up \in SUBSET holders
        BY <1>5 DEF Above
    <1> QED
        BY <1>4, <1>5, <1>10, <1>11, <1>12 DEF StrictSubsetOrdering
-------------------------------------------------------------------------------
\* The invariant holds in every state: whatever is looked up, refreshed, evicted,
\* selected and dropped in whatever order.
THEOREM Invariance == Spec => []IInv
    <1> QED
        BY InitInvariant, NextInvariant, PTL DEF Spec

\* An endpoint counts exactly the requests that hold a place with it, within its
\* bounds, also after it has left the set of addresses.
THEOREM GuardsMatch == Spec => []GuardsMatchEndpoints
    <1>1. IInv => GuardsMatchEndpoints
        BY DEF IInv, Kept
    <1> QED
        BY <1>1, Invariance, PTL

\* Requests that lock pairs, sampled in any order from any entries at any time,
\* never wait for one another in a circle.
THEOREM LocksNeverCircle == Spec => []NoLockCycle
    <1>1. IInv => NoLockCycle
        BY NoCircle DEF IInv, Kept, NoLockCycle
    <1> QED
        BY <1>1, Invariance, PTL

\* What the sets of entry n become: what they were, those of a first resolution,
\* or those of a refresh.
Unchanged(n) == entry'[n].current = entry[n].current /\ entry'[n].left = entry[n].left

FirstFound(n) ==
    /\ n = resolved + 1 /\ resolved' = n
    /\ entry[n].current = {} /\ entry'[n].left = entry[n].left
    /\ \E addresses \in Answers : entry'[n].current = Found(addresses, {})

LEMMA EntryStep ==
    ASSUME IInv, [Next]_vars, NEW n \in Entry
    PROVE  Unchanged(n) \/ FirstFound(n) \/ RefreshResolves(n)
    <1>0. entry \in [Entry -> HostEntry]
        BY DEF IInv, TypeOK
    <1>1. ASSUME NEW r \in Request, TryAcquireRefresh(r) PROVE Unchanged(n)
        BY <1>0, <1>1 DEF TryAcquireRefresh, HostEntry, Unchanged
    <1>2. ASSUME NEW r \in Request, SpawnRefresh(r) PROVE Unchanged(n)
        BY <1>0, <1>2 DEF SpawnRefresh, HostEntry, Unchanged
    <1>3. ASSUME NEW r \in Request, Resolve(r) PROVE Unchanged(n) \/ FirstFound(n)
        <2>1. resolved + 1 \in Entry /\ resolved + 1 \notin Known /\ resolved' = resolved + 1
            <3>1. resolved \in 0 .. MaxResolves /\ resolved < MaxResolves
                BY <1>3 DEF Resolve, IInv, TypeOK
            <3> QED
                BY <1>3, <3>1, DnsAssumption DEF Entry, Known, Resolve
        <2>2. entry[resolved + 1].current = {}
            BY <2>1 DEF IInv, Kept, EntriesGuarded
        <2>3. n # resolved + 1 => entry'[n] = entry[n]
            BY <1>0, <1>3, <2>1 DEF Resolve
        <2>4. PICK addresses \in Answers :
                  entry' = [entry EXCEPT ![resolved + 1].current = Found(addresses, {}),
                                         ![resolved + 1].fetched_at = now]
            BY <1>3 DEF Resolve
        <2>5. /\ entry'[resolved + 1].current = Found(addresses, {})
              /\ entry'[resolved + 1].left = entry[resolved + 1].left
            BY <1>0, <2>1, <2>4 DEF HostEntry
        <2> QED
            BY <2>1, <2>2, <2>3, <2>5 DEF Unchanged, FirstFound
    <1>4. ASSUME NEW m \in Entry, RefreshResolves(m), m # n PROVE Unchanged(n)
        BY <1>0, <1>4 DEF RefreshResolves, Unchanged
    <1>5. ASSUME NEW m \in Entry, RefreshFails(m) \/ ReleaseRefresh(m) PROVE Unchanged(n)
        BY <1>0, <1>5 DEF RefreshFails, ReleaseRefresh, HostEntry, Unchanged
    <1>6. ASSUME UNCHANGED entry PROVE Unchanged(n)
        BY <1>6 DEF Unchanged
    <1> QED
        BY <1>1, <1>2, <1>3, <1>4, <1>5, <1>6
        DEF Next, Lookup, Judge, Invalidate, Join, ResolveFails, LoadSnapshot, ReserveOnly, Sample,
            LockLower, ReservePair, Recheck, Publish, Revoke, BeginDispatch, FinishGuard,
            DropLookup, Evict, Tick, vars

\* What a refresh leaves in the sets of its entry.
LEMMA RefreshFacts ==
    ASSUME IInv, NEW n \in Entry, RefreshResolves(n)
    PROVE  /\ resolved + 1 \in Entry /\ resolved' = resolved + 1
           /\ Distinct(entry[n].current) /\ entry[n].current \in SUBSET Endpoint
           /\ \E addresses \in Answers :
                 /\ entry'[n].current = Found(addresses, entry[n].current)
                 /\ entry'[n].left = entry[n].left \cup
                                         (entry[n].current \ Found(addresses, entry[n].current))
    <1>1. /\ entry[n] \in HostEntry /\ entry \in [Entry -> HostEntry]
          /\ Guarded(entry[n]) /\ entry[n].previous = entry[n].current
        BY DEF IInv, Kept, EntriesGuarded, TypeOK, RefreshResolves, Guarded
    <1>2. resolved + 1 \in Entry /\ resolved' = resolved + 1
        <2>1. resolved \in 0 .. MaxResolves /\ resolved < MaxResolves
            BY DEF RefreshResolves, IInv, TypeOK
        <2> QED
            BY <2>1, DnsAssumption DEF Entry, RefreshResolves
    <1>3. PICK addresses \in Answers :
              entry' = [entry EXCEPT ![n].current = Found(addresses, entry[n].current),
                                     ![n].fetched_at = now,
                                     ![n].previous = {}, ![n].task = "release",
                                     ![n].left = entry[n].left \cup
                                       (entry[n].current \ Found(addresses, entry[n].current))]
        BY <1>1 DEF RefreshResolves
    <1>4. /\ entry'[n].current = Found(addresses, entry[n].current)
          /\ entry'[n].left = entry[n].left \cup
                                  (entry[n].current \ Found(addresses, entry[n].current))
        BY <1>1, <1>3 DEF HostEntry
    <1> QED
        BY <1>1, <1>2, <1>4 DEF Guarded, HostEntry

\* No refresh gives an address that stays a new controller, however long the
\* refresh took and whatever happened meanwhile.
THEOREM ControllersStay == Spec => ControllersSurvive
    <1> DEFINE survive == \A n \in Entry : \A e \in entry[n].current, f \in entry'[n].current :
                              e.ip = f.ip => e = f
    <1>1. IInv /\ [Next]_vars => survive
        <2> SUFFICES ASSUME IInv, [Next]_vars, NEW n \in Entry,
                            NEW e \in entry[n].current, NEW f \in entry'[n].current, e.ip = f.ip
                     PROVE  e = f
            OBVIOUS
        <2>1. Distinct(entry[n].current)
            BY DEF IInv, Kept, EntriesGuarded, Guarded
        <2>2. CASE Unchanged(n)
            BY <2>1, <2>2 DEF Unchanged, Distinct
        <2>3. CASE FirstFound(n)
            BY <2>3 DEF FirstFound
        <2>4. CASE RefreshResolves(n)
            BY <2>4, RefreshFacts, FoundFacts
        <2> QED
            BY <2>2, <2>3, <2>4, EntryStep
    <1> QED
        BY <1>1, Invariance, PTL DEF Spec, ControllersSurvive

-------------------------------------------------------------------------------
\* What the look after the selection tells needs a second invariant, which
\* follows an endpoint from the snapshot to the selection.  Held(q) is what a
\* request has of its snapshot, Seen(n) what has been in the set of an entry.
Held(q) ==
    CASE q.pc = "loaded" -> q.snapshot
      [] q.pc \in Paired -> {q.pair[1], q.pair[2]}
      [] q.pc = "chosen"  -> {q.endpoint}
      [] OTHER            -> {}

Seen(n) == entry[n].current \cup entry[n].left

\* No endpoint comes back: an address that does gets one that is born later.
NoneReturns ==
    /\ \A n \in Entry : entry[n].current \cap entry[n].left = {}
    /\ \A n \in Entry : \A e \in Seen(n) : e.born <= resolved
    /\ \A n \in Entry \ Known : entry[n].left = {}

HeldWereSeen == \A r \in Request : \A e \in Held(request[r]) : e \in Seen(request[r].entry)

Standing == NoneReturns /\ HeldWereSeen

LEMMA NoneReturnsStep == IInv /\ NoneReturns /\ [Next]_vars => NoneReturns'
    <1> SUFFICES ASSUME IInv, NoneReturns, [Next]_vars PROVE NoneReturns'
        OBVIOUS
    <1>1. resolved \in Nat /\ resolved' \in {resolved, resolved + 1}
        <2>1. resolved \in Nat
            BY DEF IInv, TypeOK
        <2> QED
            BY <2>1 DEF Next, Lookup, Judge, TryAcquireRefresh, SpawnRefresh, Invalidate, Join,
                        Resolve, ResolveFails, RefreshResolves, RefreshFails, ReleaseRefresh,
                        LoadSnapshot, ReserveOnly, Sample, LockLower, ReservePair, Recheck, Publish,
                        Revoke, BeginDispatch, FinishGuard, DropLookup, Evict, Tick, vars
    <1>2. ASSUME NEW n \in Entry
          PROVE  /\ entry'[n].current \cap entry'[n].left = {}
                 /\ \A e \in entry'[n].current \cup entry'[n].left : e.born <= resolved'
        <2>0. /\ entry[n].current \cap entry[n].left = {}
              /\ \A e \in entry[n].current \cup entry[n].left : e.born <= resolved
              /\ entry[n].current \cup entry[n].left \in SUBSET Endpoint
            BY DEF NoneReturns, Seen, IInv, TypeOK, HostEntry
        <2>1. \A e \in entry[n].current \cup entry[n].left : e.born \in Nat
            BY <2>0, DnsAssumption DEF Endpoint, Entry
        <2>2. CASE Unchanged(n)
            BY <1>1, <2>0, <2>1, <2>2 DEF Unchanged
        <2>3. CASE FirstFound(n)
            <3>1. entry[n].left = {}
                BY <1>1, <2>3 DEF FirstFound, NoneReturns, Known
            <3> QED
                BY <1>1, <2>3, <3>1 DEF FirstFound, Found
        <2>4. CASE RefreshResolves(n)
            <3>1. PICK addresses \in Answers :
                      /\ entry'[n].current = Found(addresses, entry[n].current)
                      /\ entry'[n].left = entry[n].left \cup
                                             (entry[n].current
                                                \ Found(addresses, entry[n].current))
                BY <2>4, RefreshFacts
            <3>2. resolved' = resolved + 1
                BY <2>4, RefreshFacts
            <3>3. \A e \in Found(addresses, entry[n].current) :
                      e \in entry[n].current \/ e.born = resolved + 1
                BY DEF Found
            <3> HIDE DEF Found
            <3>4. \A e \in Found(addresses, entry[n].current) : e \notin entry[n].left
                BY <1>1, <2>0, <2>1, <3>3
            <3> QED
                BY <1>1, <2>0, <2>1, <3>1, <3>2, <3>3, <3>4
        <2> QED
            BY <2>2, <2>3, <2>4, EntryStep
    <1>3. ASSUME NEW n \in Entry, n \notin Known' PROVE entry'[n].left = {}
        <2>1. n \notin Known /\ n # resolved'
            BY <1>1, <1>3, DnsAssumption DEF Known, Entry
        <2>2. entry[n].left = {} /\ entry[n].task = "none"
            BY <2>1 DEF NoneReturns, IInv, Kept, EntriesGuarded
        <2>3. Unchanged(n)
            BY <2>1, <2>2, EntryStep DEF FirstFound, RefreshResolves
        <2> QED
            BY <2>2, <2>3 DEF Unchanged
    <1> QED
        BY <1>2, <1>3 DEF NoneReturns, Seen

\* What a request has of its snapshot after a step it had before, or it has just
\* loaded the current set.
Follows(p, q) ==
    \/ q = p
    \/ Held(q) = {}
    \/ /\ p.pc \in HasEntry /\ q.entry = p.entry
       /\ Held(q) \subseteq Held(p) \cup entry[p.entry].current

LEMMA HeldStep ==
    ASSUME IInv, [Next]_vars, NEW r \in Request
    PROVE  Follows(request[r], request'[r])
    <1>0. request \in [Request -> RequestState] /\ request[r] \in RequestState
        BY DEF IInv, TypeOK
    <1>1. ASSUME NEW q \in Request, NEW next, Goes(q, next), q # r
          PROVE  Follows(request[r], request'[r])
        BY <1>0, <1>1 DEF Goes, Follows
    <1>2. ASSUME NEW next, Goes(r, next), Held(next) = {}
          PROVE  Follows(request[r], request'[r])
        BY <1>0, <1>2 DEF Goes, Follows
    <1>3. ASSUME NEW pc, NEW next, next.pc = pc,
                 pc \notin {"loaded", "sampled", "locked", "chosen"}
          PROVE  Held(next) = {}
        BY <1>3 DEF Held, Paired
    <1>4. ASSUME NEW q \in Request, NEW pc \in Stage,
                 pc \notin {"loaded", "sampled", "locked", "chosen"}, Moves(q, pc)
          PROVE  Follows(request[r], request'[r])
        <2>1. CASE q = r
            <3>1. [request[r] EXCEPT !.pc = pc].pc = pc
                BY <1>0 DEF RequestState
            <3> QED
                BY <1>2, <1>3, <1>4, <2>1, <3>1 DEF Moves
        <2> QED
            BY <1>1, <1>4, <2>1 DEF Moves
    <1>5. ASSUME NEW q \in Request, NEW pc, NEW n,
                 pc \notin {"loaded", "sampled", "locked", "chosen"},
                 Goes(q, [Idle EXCEPT !.pc = pc, !.entry = n])
          PROVE  Follows(request[r], request'[r])
        <2>1. [Idle EXCEPT !.pc = pc, !.entry = n].pc = pc
            BY DEF Idle
        <2> QED
            BY <1>1, <1>2, <1>3, <1>5, <2>1
    <1>6. ASSUME NEW q \in Request, Goes(q, Idle) PROVE Follows(request[r], request'[r])
        BY <1>1, <1>2, <1>3, <1>6 DEF Idle
    <1>7. ASSUME NEW q \in Request, Lookup(q) \/ Revoke(q)
          PROVE  Follows(request[r], request'[r])
        <2>1. CASE Lookup(q)
            <3> DEFINE pc == IF slot = None THEN "join" ELSE "got"
            <3>1. Goes(q, [Idle EXCEPT !.pc = pc, !.entry = slot]) /\ pc \in {"join", "got"}
                BY <2>1 DEF Lookup
            <3> HIDE DEF pc
            <3> QED
                BY <1>5, <3>1
        <2>2. CASE Revoke(q)
            <3> DEFINE n == request[q].entry
            <3>1. Goes(q, [Idle EXCEPT !.pc = "select", !.entry = n])
                BY <2>2 DEF Revoke
            <3> HIDE DEF n
            <3> QED
                BY <1>5, <3>1
        <2> QED
            BY <1>7, <2>1, <2>2
    <1>8. ASSUME NEW q \in Request,
                 Judge(q) \/ TryAcquireRefresh(q) \/ SpawnRefresh(q) \/ Recheck(q)
                     \/ BeginDispatch(q)
          PROVE  Follows(request[r], request'[r])
        <2>1. \E pc \in Stage \ {"loaded", "sampled", "locked", "chosen"} : Moves(q, pc)
            BY <1>8 DEF Judge, TryAcquireRefresh, SpawnRefresh, Recheck, BeginDispatch, Stage
        <2> QED
            BY <1>4, <2>1
    <1>9. ASSUME NEW q \in Request, Invalidate(q) PROVE Follows(request[r], request'[r])
        BY <1>1, <1>2, <1>3, <1>9 DEF Invalidate, Idle
    <1>10. ASSUME NEW q \in Request, Join(q) PROVE Follows(request[r], request'[r])
        <2>1. \/ Moves(q, "waiting") \/ Moves(q, "resolving")
              \/ Goes(q, [Idle EXCEPT !.pc = "select", !.entry = slot])
            BY <1>10 DEF Join
        <2>2. "waiting" \in Stage /\ "resolving" \in Stage
            BY DEF Stage
        <2> QED
            BY <1>4, <1>5, <2>1, <2>2
    <1>11. ASSUME NEW q \in Request, Publish(q) PROVE Follows(request[r], request'[r])
        <2>1. CASE q = r
            <3>1. [request[r] EXCEPT !.pc = "queued", !.entry = None].pc = "queued"
                BY <1>0 DEF RequestState
            <3> QED
                BY <1>2, <1>3, <1>11, <2>1, <3>1 DEF Publish
        <2> QED
            BY <1>1, <1>11, <2>1 DEF Publish
    <1>12. ASSUME NEW q \in Request, Resolve(q) \/ ResolveFails(q) \/ DropLookup(q)
           PROVE  Follows(request[r], request'[r])
        <2>1. CASE Resolve(q)
            <3>1. \/ request'[r] = request[r]
                  \/ request'[r] = [Idle EXCEPT !.pc = "select", !.entry = resolved + 1]
                BY <2>1 DEF Resolve, Settled
            <3> QED
                BY <1>3, <3>1 DEF Follows, Idle
        <2>2. CASE ResolveFails(q)
            <3>1. request'[r] = request[r] \/ request'[r] = Idle
                BY <2>2 DEF ResolveFails, Settled
            <3> QED
                BY <1>3, <3>1 DEF Follows, Idle
        <2>3. CASE DropLookup(q)
            <3>1. \/ request'[r] = request[r] \/ request'[r] = Idle
                  \/ request'[r] = [request[r] EXCEPT !.pc = "join"]
                BY <1>0, <2>3 DEF DropLookup, Goes
            <3>2. [request[r] EXCEPT !.pc = "join"].pc = "join" /\ Idle.pc = "idle"
                BY <1>0 DEF RequestState, Idle
            <3> QED
                BY <1>3, <3>1, <3>2 DEF Follows
        <2> QED
            BY <1>12, <2>1, <2>2, <2>3
    <1>13. ASSUME NEW q \in Request, FinishGuard(q) PROVE Follows(request[r], request'[r])
        BY <1>6, <1>13 DEF FinishGuard
    <1>14. CASE LoadSnapshot(r)
        BY <1>0, <1>14
        DEF LoadSnapshot, Goes, At, Follows, Held, HasEntry, RequestState, Paired
    <1>15. CASE Sample(r)
        BY <1>0, <1>15 DEF Sample, Goes, At, Follows, Held, HasEntry, RequestState, Paired
    <1>16. CASE LockLower(r)
        BY <1>0, <1>16
        DEF LockLower, Moves, Goes, At, Follows, Held, HasEntry, RequestState, Paired
    <1>17. ASSUME NEW e \in Held(request[r]), Chooses(r, e), request[r].pc \in HasEntry
           PROVE  Follows(request[r], request'[r])
        <2> DEFINE next == [Idle EXCEPT !.pc = "chosen", !.entry = request[r].entry, !.endpoint = e]
        <2>1. Goes(r, next)
            BY <1>17 DEF Chooses
        <2>2. next.pc = "chosen" /\ next.entry = request[r].entry /\ next.endpoint = e
            BY DEF Idle
        <2> HIDE DEF next
        <2>3. Held(next) = {e}
            BY <2>2 DEF Held, Paired
        <2> QED
            BY <1>0, <1>17, <2>1, <2>2, <2>3 DEF Goes, Follows
    <1>18. CASE ReserveOnly(r)
        <2>1. PICK e \in request[r].snapshot : Chooses(r, e) \/ Goes(r, Idle)
            BY <1>18 DEF ReserveOnly
        <2>2. e \in Held(request[r]) /\ request[r].pc \in HasEntry
            BY <1>18, <2>1 DEF ReserveOnly, At, Held, HasEntry, Paired
        <2> QED
            BY <1>6, <1>17, <2>1, <2>2
    <1>19. CASE ReservePair(r)
        <2>1. \/ Goes(r, Idle)
              \/ \E e \in {Lower(request[r].pair), Upper(request[r].pair)} : Chooses(r, e)
            BY <1>19 DEF ReservePair
        <2>2. /\ Lower(request[r].pair) \in Held(request[r])
              /\ Upper(request[r].pair) \in Held(request[r])
              /\ request[r].pc \in HasEntry
            BY <1>19 DEF ReservePair, At, Held, HasEntry, Paired, Lower, Upper
        <2> QED
            BY <1>6, <1>17, <2>1, <2>2
    <1>20. ASSUME NEW q \in Request, q # r,
                  LoadSnapshot(q) \/ Sample(q) \/ LockLower(q) \/ ReserveOnly(q) \/ ReservePair(q)
           PROVE  Follows(request[r], request'[r])
        BY <1>1, <1>20
        DEF LoadSnapshot, Sample, LockLower, Moves, ReserveOnly, ReservePair, Chooses
    <1>21. ASSUME UNCHANGED request PROVE Follows(request[r], request'[r])
        BY <1>21 DEF Follows
    <1> QED
        BY <1>7, <1>8, <1>9, <1>10, <1>11, <1>12, <1>13, <1>14, <1>15, <1>16, <1>18, <1>19, <1>20,
           <1>21
        DEF Next, RefreshResolves, RefreshFails, ReleaseRefresh, Evict, Tick, vars

\* What has been in the set is not forgotten.
LEMMA SeenStays ==
    ASSUME IInv, [Next]_vars, NEW n \in Entry
    PROVE  Seen(n) \subseteq entry'[n].current \cup entry'[n].left
    <1>1. CASE Unchanged(n)
        BY <1>1 DEF Unchanged, Seen
    <1>2. CASE FirstFound(n)
        BY <1>2 DEF FirstFound, Seen
    <1>3. CASE RefreshResolves(n)
        BY <1>3, RefreshFacts DEF Seen
    <1> QED
        BY <1>1, <1>2, <1>3, EntryStep

LEMMA StandingStep == IInv /\ Standing /\ [Next]_vars => Standing'
    <1> SUFFICES ASSUME IInv, Standing, [Next]_vars PROVE Standing'
        OBVIOUS
    <1>1. NoneReturns'
        BY NoneReturnsStep DEF Standing
    <1>2. ASSUME NEW r \in Request, NEW e \in Held(request'[r])
          PROVE  e \in entry'[request'[r].entry].current \cup entry'[request'[r].entry].left
        <2>1. request[r].pc \in HasEntry => request[r].entry \in Entry
            BY DnsAssumption DEF IInv, Kept, TypeOK, RequestsWell, Well, Known, Entry
        <2>2. \A d \in Held(request[r]) : d \in Seen(request[r].entry)
            BY DEF Standing, HeldWereSeen
        <2>3. CASE request'[r] = request[r]
            <3>1. request[r].pc \in HasEntry
                BY <1>2, <2>3 DEF Held, HasEntry, Paired
            <3> QED
                BY <1>2, <2>1, <2>2, <2>3, <3>1, SeenStays
        <2>4. CASE /\ request[r].pc \in HasEntry /\ request'[r].entry = request[r].entry
                   /\ Held(request'[r]) \subseteq Held(request[r])
                                                    \cup entry[request[r].entry].current
            <3>1. e \in Seen(request[r].entry)
                BY <1>2, <2>2, <2>4 DEF Seen
            <3> QED
                BY <2>1, <2>4, <3>1, SeenStays
        <2> QED
            BY <1>2, <2>3, <2>4, HeldStep DEF Follows
    <1>3. HeldWereSeen'
        BY <1>2 DEF HeldWereSeen, Seen, Held
    <1> QED
        BY <1>1, <1>3 DEF Standing

\* Only the look itself passes or fails a selection.
LEMMA Looks ==
    ASSUME IInv, [Next]_vars, NEW r \in Request, At(r, "chosen"),
           request'[r].pc \in {"confirmed", "revoked"}
    PROVE  Recheck(r)
    <1> DEFINE Verdict == {"confirmed", "revoked"}
    <1>0. request \in [Request -> RequestState] /\ request[r].pc = "chosen"
        BY DEF IInv, TypeOK, At
    <1>1. ASSUME NEW q \in Request, NEW next, next.pc \notin Verdict, Goes(q, next) PROVE FALSE
        BY <1>0, <1>1 DEF Goes
    <1>2. ASSUME NEW q \in Request, NEW pc, pc \notin Verdict, Moves(q, pc) PROVE FALSE
        <2>1. [request[q] EXCEPT !.pc = pc].pc = pc
            BY <1>0 DEF RequestState
        <2> QED
            BY <1>1, <1>2, <2>1 DEF Moves
    <1>3. ASSUME NEW q \in Request, NEW e, Chooses(q, e) PROVE FALSE
        BY <1>1, <1>3 DEF Chooses, Idle
    <1>4. ASSUME NEW q \in Request, Lookup(q) \/ Judge(q) \/ TryAcquireRefresh(q)
                     \/ SpawnRefresh(q) \/ Invalidate(q) \/ Join(q)
          PROVE  FALSE
        BY <1>1, <1>2, <1>4
        DEF Lookup, Judge, TryAcquireRefresh, SpawnRefresh, Invalidate, Join, Idle
    <1>5. ASSUME NEW q \in Request, Resolve(q) \/ ResolveFails(q) \/ DropLookup(q)
          PROVE  FALSE
        <2>1. request'[r] = request[r] \/ request'[r].pc \notin Verdict
            BY <1>0, <1>5
            DEF Resolve, ResolveFails, DropLookup, Settled, Goes, At, Idle, RequestState
        <2> QED
            BY <1>0, <2>1
    <1>6. ASSUME NEW q \in Request, LoadSnapshot(q) \/ Sample(q) \/ LockLower(q) \/ Publish(q)
                     \/ Revoke(q) \/ BeginDispatch(q) \/ FinishGuard(q)
          PROVE  FALSE
        <2>1. request[q] \in RequestState
            BY <1>0
        <2> QED
            BY <1>1, <1>2, <1>6, <2>1
            DEF LoadSnapshot, Sample, LockLower, Publish, Revoke, BeginDispatch, FinishGuard, Idle,
                RequestState
    <1>7. ASSUME NEW q \in Request, ReserveOnly(q) \/ ReservePair(q) PROVE FALSE
        BY <1>1, <1>3, <1>7 DEF ReserveOnly, ReservePair, Idle
    <1>8. ASSUME NEW q \in Request, q # r, Recheck(q) PROVE FALSE
        BY <1>0, <1>8 DEF Recheck, Moves, Goes
    <1>9. ASSUME UNCHANGED request PROVE FALSE
        BY <1>0, <1>9
    <1> QED
        BY <1>4, <1>5, <1>6, <1>7, <1>8, <1>9
        DEF Next, RefreshResolves, RefreshFails, ReleaseRefresh, Evict, Tick, vars

\* The look after the selection passes exactly the endpoints that no refresh has
\* removed since the snapshot was loaded, however many refreshes there were and
\* whatever addresses came back in between.
THEOREM RecheckSeesAll == Spec => RecheckIsExact
    <1> DEFINE exact == \A r \in Request :
                           At(r, "chosen") /\ request'[r].pc \in {"confirmed", "revoked"} =>
                               (request'[r].pc = "revoked"
                                   <=> request[r].endpoint \in entry[request[r].entry].left)
    <1>1. Init => Standing
        BY DEF Init, Standing, NoneReturns, HeldWereSeen, Seen, Held, Idle, Paired
    <1>2. IInv /\ Standing /\ [Next]_vars => exact
        <2> SUFFICES ASSUME IInv, Standing, [Next]_vars, NEW r \in Request, At(r, "chosen"),
                            request'[r].pc \in {"confirmed", "revoked"}
                     PROVE  request'[r].pc = "revoked"
                                <=> request[r].endpoint \in entry[request[r].entry].left
            OBVIOUS
        <2>1. Recheck(r) /\ request \in [Request -> RequestState]
            BY Looks DEF IInv, TypeOK
        <2>2. request'[r].pc = "revoked"
                  <=> request[r].endpoint \notin entry[request[r].entry].current
            BY <2>1 DEF Recheck, Moves, Goes, RequestState
        <2>3. request[r].entry \in Entry
            BY DnsAssumption DEF IInv, Kept, TypeOK, RequestsWell, Well, HasEntry, At, Known, Entry
        <2>4. request[r].endpoint \in Seen(request[r].entry)
            BY DEF Standing, HeldWereSeen, Held, Paired, At
        <2> QED
            BY <2>2, <2>3, <2>4 DEF Standing, NoneReturns, Seen
    <1>3. Spec => []Standing
        BY <1>1, StandingStep, Invariance, PTL DEF Spec
    <1> QED
        BY <1>2, <1>3, Invariance, PTL DEF Spec, RecheckIsExact
===============================================================================
