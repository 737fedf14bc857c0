------------------------------- MODULE DnsCache -------------------------------
(* The Rama DNS connector for one host and port: requests look the host up in  *)
(* a cache, whose entries are refreshed in the background, and reserve a place *)
(* at one of two sampled endpoints.  The controller of an endpoint is reduced  *)
(* to what it promises its callers (BoundedDispatch): a bounded line and a     *)
(* bounded set of running requests, here without their order.                  *)
EXTENDS Integers, FiniteSets

CONSTANTS
    None,
    Request,            \* the tasks that call serve
    Address,            \* the addresses the host may have, ordered
    RefreshAfter,       \* age after which an entry refreshes in the background
    EvictAfterStale,    \* age after which it is discarded
    Places, Lanes,      \* an endpoint's queue_capacity and max_inflight
    MaxResolves,        \* bound: resolutions that succeed
    MaxTime             \* bound: the clock stops here

ASSUME DnsAssumption ==
    /\ None \notin Request /\ IsFiniteSet(Request)
    /\ Address \subseteq Nat
    /\ RefreshAfter \in Nat /\ EvictAfterStale \in Nat
    /\ Places \in Nat /\ Lanes \in Nat \ {0}
    /\ MaxResolves \in Nat /\ MaxTime \in Nat

VARIABLES
    now,            \* Tokio's clock
    slot,           \* the entry the cache holds for the host
    resolving,      \* the request that runs the initial resolution, if any
    resolved,       \* resolutions that have succeeded
    entry,          \* the entries: snapshot, refresh flag and refresh task
    endpoint,       \* the controllers
    request         \* where each request is in serve

cache == <<slot, resolving>>
vars == <<now, cache, resolved, entry, endpoint, request>>

\* An entry is named after the resolution that made it; an endpoint after its
\* address and the resolution that first found it. `left` is history, read by
\* properties only: the endpoints that were in the current set and are no more.
Entry == 1 .. MaxResolves
Endpoint == [ip : Address, born : Entry]
Answers == (SUBSET Address) \ {{}}
HostEntry == [current : SUBSET Endpoint, fetched_at : 0 .. MaxTime, refreshing : BOOLEAN,
              task : {"none", "resolving", "release"}, previous : SUBSET Endpoint,
              left : SUBSET Endpoint]

(* Where a request is:                                                         *)
(*   idle      outside                                                         *)
(*   got       has an entry and has not looked at its age                      *)
(*   stale     about to ask for the refresh flag                               *)
(*   acquired  has it and has not loaded the snapshot to refresh from          *)
(*   expired   about to invalidate                                             *)
(*   join      about to call try_get_with                                      *)
(*   resolving runs the initial resolution                                     *)
(*   waiting   waits for somebody else's                                       *)
(*   select    has an entry to select from                                     *)
(*   loaded    has loaded its snapshot                                         *)
(*   sampled   has sampled two endpoints                                       *)
(*   locked    holds the lock of the lower one                                 *)
(*   chosen    holds a reservation and has not looked at the entry again       *)
(*   confirmed found its endpoint there and has not published it               *)
(*   revoked   found its endpoint gone                                         *)
(*   queued    waits for its turn                                              *)
(*   running   awaits the inner service                                        *)
Stage == {"idle", "got", "stale", "acquired", "expired", "join", "resolving", "waiting",
          "select", "loaded", "sampled", "locked", "chosen", "confirmed", "revoked", "queued",
          "running"}

RequestState == [pc : Stage, entry : Entry \cup {None}, snapshot : SUBSET Endpoint,
                 pair : (Endpoint \X Endpoint) \cup {None}, endpoint : Endpoint \cup {None}]
Idle == [pc |-> "idle", entry |-> None, snapshot |-> {}, pair |-> None, endpoint |-> None]

Init ==
    /\ now = 0
    /\ slot = None /\ resolving = None
    /\ resolved = 0
    /\ entry = [n \in Entry |-> [current |-> {}, fetched_at |-> 0, refreshing |-> FALSE,
                                 task |-> "none", previous |-> {}, left |-> {}]]
    /\ endpoint = [e \in Endpoint |-> [line |-> {}, running |-> {}]]
    /\ request = [r \in Request |-> Idle]

At(r, pc) == request[r].pc = pc
Goes(r, next) == request' = [request EXCEPT ![r] = next]
Moves(r, pc) == Goes(r, [request[r] EXCEPT !.pc = pc])
Elapsed(n) == now - entry[n].fetched_at
-------------------------------------------------------------------------------
(* lookup                                                                      *)

\* entries.get(): a request enters with the entry there is.
Lookup(r) ==
    /\ At(r, "idle")
    /\ Goes(r, [Idle EXCEPT !.pc = IF slot = None THEN "join" ELSE "got", !.entry = slot])
    /\ UNCHANGED <<now, cache, resolved, entry, endpoint>>

Judge(r) ==
    /\ At(r, "got")
    /\ Moves(r, IF Elapsed(request[r].entry) < RefreshAfter THEN "select"
                ELSE IF Elapsed(request[r].entry) < EvictAfterStale THEN "stale" ELSE "expired")
    /\ UNCHANGED <<now, cache, resolved, entry, endpoint>>

\* try_acquire_refresh(): one refresh of an entry at a time.
TryAcquireRefresh(r) ==
    LET n == request[r].entry
    IN /\ At(r, "stale")
       /\ IF entry[n].refreshing THEN Moves(r, "select") /\ UNCHANGED entry
          ELSE /\ entry' = [entry EXCEPT ![n].refreshing = TRUE]
               /\ Moves(r, "acquired")
       /\ UNCHANGED <<now, cache, resolved, endpoint>>

\* The refresh task is spawned with the snapshot that is current now.
SpawnRefresh(r) ==
    LET n == request[r].entry
    IN /\ At(r, "acquired")
       /\ entry' = [entry EXCEPT ![n].previous = entry[n].current, ![n].task = "resolving"]
       /\ Moves(r, "select")
       /\ UNCHANGED <<now, cache, resolved, endpoint>>

\* Whatever entry is there is removed.
Invalidate(r) ==
    /\ At(r, "expired")
    /\ slot' = None
    /\ Goes(r, [Idle EXCEPT !.pc = "join"])
    /\ UNCHANGED <<now, resolving, resolved, entry, endpoint>>

\* try_get_with(): the entry, or the resolution that is under way, or a new one.
Join(r) ==
    /\ At(r, "join")
    /\ IF slot # None
       THEN Goes(r, [Idle EXCEPT !.pc = "select", !.entry = slot]) /\ UNCHANGED resolving
       ELSE IF resolving # None THEN Moves(r, "waiting") /\ UNCHANGED resolving
       ELSE Moves(r, "resolving") /\ resolving' = r
    /\ UNCHANGED <<now, slot, resolved, entry, endpoint>>

\* A slip: every address is a newcomer.
FoundAnew(addresses, previous) == {[ip |-> ip, born |-> resolved + 1] : ip \in addresses}

\* resolve(): the addresses become endpoints; those of `previous` keep theirs.
Found(addresses, previous) ==
    {e \in previous : e.ip \in addresses}
    \cup {[ip |-> ip, born |-> resolved + 1] : ip \in addresses \ {e.ip : e \in previous}}

\* What becomes of the requests that wait for a resolution and of the one that
\* runs it.
Settled(r, next) ==
    request' = [q \in Request |-> IF q = r \/ At(q, "waiting") THEN next ELSE request[q]]

Resolve(r) ==
    /\ At(r, "resolving") /\ resolved < MaxResolves
    /\ \E addresses \in Answers :
          entry' = [entry EXCEPT ![resolved + 1].current = Found(addresses, {}),
                                 ![resolved + 1].fetched_at = now]
    /\ slot' = resolved + 1
    /\ resolving' = None
    /\ resolved' = resolved + 1
    /\ Settled(r, [Idle EXCEPT !.pc = "select", !.entry = resolved + 1])
    /\ UNCHANGED <<now, endpoint>>

\* No address was found, and all who waited get the error.
ResolveFails(r) ==
    /\ At(r, "resolving")
    /\ resolving' = None
    /\ Settled(r, Idle)
    /\ UNCHANGED <<now, slot, resolved, entry, endpoint>>
-------------------------------------------------------------------------------
(* The refresh task of entry n.                                                *)

RefreshResolves(n) ==
    /\ entry[n].task = "resolving" /\ resolved < MaxResolves
    /\ \E addresses \in Answers :
          entry' = [entry EXCEPT ![n].current = Found(addresses, entry[n].previous),
                                 ![n].fetched_at = now,
                                 ![n].previous = {}, ![n].task = "release",
                                 ![n].left = @ \cup
                                   (entry[n].current \ Found(addresses, entry[n].previous))]
    /\ resolved' = resolved + 1
    /\ UNCHANGED <<now, cache, endpoint, request>>

\* A slip: the flag stays up after a failure.
RefreshFailsHolding(n) ==
    /\ entry[n].task = "resolving"
    /\ entry' = [entry EXCEPT ![n].previous = {}, ![n].task = "none"]
    /\ UNCHANGED <<now, cache, resolved, endpoint, request>>

RefreshFails(n) ==
    /\ entry[n].task = "resolving"
    /\ entry' = [entry EXCEPT ![n].previous = {}, ![n].task = "release"]
    /\ UNCHANGED <<now, cache, resolved, endpoint, request>>

\* RefreshGuard's Drop.
ReleaseRefresh(n) ==
    /\ entry[n].task = "release"
    /\ entry' = [entry EXCEPT ![n].task = "none", ![n].refreshing = FALSE]
    /\ UNCHANGED <<now, cache, resolved, endpoint, request>>
-------------------------------------------------------------------------------
(* The selection loop of serve and reserve_p2c.                                *)

LoadSnapshot(r) ==
    /\ At(r, "select")
    /\ Goes(r, [request[r] EXCEPT !.pc = "loaded",
                                  !.snapshot = entry[request[r].entry].current])
    /\ UNCHANGED <<now, cache, resolved, entry, endpoint>>

\* A slip: the locks are taken in the order of the sample.
LowerAsSampled(pair) == pair[1]

\* Locks are ordered by address.
Lower(pair) == IF pair[1].ip < pair[2].ip THEN pair[1] ELSE pair[2]
Upper(pair) == IF Lower(pair) = pair[1] THEN pair[2] ELSE pair[1]

Locked(e) == \E r \in Request : At(r, "locked") /\ Lower(request[r].pair) = e
HasRoom(e) == Cardinality(endpoint[e].line) < Places

\* Request r holds a reservation at e.
Chooses(r, e) ==
    /\ endpoint' = [endpoint EXCEPT ![e].line = @ \cup {r}]
    /\ Goes(r, [Idle EXCEPT !.pc = "chosen", !.entry = request[r].entry, !.endpoint = e])

\* The only endpoint accepts, or the request is rejected.
ReserveOnly(r) ==
    /\ At(r, "loaded")
    /\ \E e \in request[r].snapshot :
          /\ request[r].snapshot = {e} /\ ~Locked(e)
          /\ IF HasRoom(e) THEN Chooses(r, e) ELSE Goes(r, Idle) /\ UNCHANGED endpoint
    /\ UNCHANGED <<now, cache, resolved, entry>>

Sample(r) ==
    /\ At(r, "loaded")
    /\ \E first, second \in request[r].snapshot :
          /\ first # second
          /\ Goes(r, [request[r] EXCEPT !.pc = "sampled", !.snapshot = {},
                                        !.pair = <<first, second>>])
    /\ UNCHANGED <<now, cache, resolved, entry, endpoint>>

LockLower(r) ==
    /\ At(r, "sampled") /\ ~Locked(Lower(request[r].pair))
    /\ Moves(r, "locked")
    /\ UNCHANGED <<now, cache, resolved, entry, endpoint>>

\* reserve_pair() under both locks: either may be the cheaper one, and the other
\* is tried if it has no room.
ReservePair(r) ==
    /\ At(r, "locked") /\ ~Locked(Upper(request[r].pair))
    /\ LET open == {e \in {Lower(request[r].pair), Upper(request[r].pair)} : HasRoom(e)}
       IN IF open = {} THEN Goes(r, Idle) /\ UNCHANGED endpoint
          ELSE \E e \in open : Chooses(r, e)
    /\ UNCHANGED <<now, cache, resolved, entry>>

\* A slip: the look is at the snapshot the endpoint was sampled from.
RecheckSampled(r) ==
    /\ At(r, "chosen")
    /\ Moves(r, "confirmed")
    /\ UNCHANGED <<now, cache, resolved, entry, endpoint>>

\* The chosen endpoint must be in the set that is loaded now.
Recheck(r) ==
    /\ At(r, "chosen")
    /\ Moves(r, IF request[r].endpoint \in entry[request[r].entry].current
                THEN "confirmed" ELSE "revoked")
    /\ UNCHANGED <<now, cache, resolved, entry, endpoint>>

\* The target is published, whatever has been stored since; the entry is needed
\* no more.
Publish(r) ==
    /\ At(r, "confirmed")
    /\ Goes(r, [request[r] EXCEPT !.pc = "queued", !.entry = None])
    /\ UNCHANGED <<now, cache, resolved, entry, endpoint>>

\* A slip: the loop starts over and forgets the reservation.
RevokeForgetful(r) ==
    /\ At(r, "revoked")
    /\ Goes(r, [Idle EXCEPT !.pc = "select", !.entry = request[r].entry])
    /\ UNCHANGED <<now, cache, resolved, entry, endpoint>>

Leaves(r, e) == endpoint' = [endpoint EXCEPT ![e].line = @ \ {r}, ![e].running = @ \ {r}]

\* Otherwise it is cancelled, and the loop starts over.
Revoke(r) ==
    /\ At(r, "revoked") /\ ~Locked(request[r].endpoint)
    /\ Leaves(r, request[r].endpoint)
    /\ Goes(r, [Idle EXCEPT !.pc = "select", !.entry = request[r].entry])
    /\ UNCHANGED <<now, cache, resolved, entry>>
-------------------------------------------------------------------------------
(* The rest of serve.                                                          *)

\* begin_dispatch()
BeginDispatch(r) ==
    LET e == request[r].endpoint
    IN /\ At(r, "queued") /\ ~Locked(e)
       /\ Cardinality(endpoint[e].running) < Lanes
       /\ endpoint' = [endpoint EXCEPT ![e].line = @ \ {r}, ![e].running = @ \cup {r}]
       /\ Moves(r, "running")
       /\ UNCHANGED <<now, cache, resolved, entry>>

\* The inner service ends, or the future is dropped queued or running: the guard
\* ends what it holds, at an endpoint that may have left the set long ago.
FinishGuard(r) ==
    /\ request[r].pc \in {"queued", "running"} /\ ~Locked(request[r].endpoint)
    /\ Leaves(r, request[r].endpoint)
    /\ Goes(r, Idle)
    /\ UNCHANGED <<now, cache, resolved, entry>>

\* A future is dropped while it resolves; another one that waits starts over.
DropLookup(r) ==
    /\ request[r].pc \in {"resolving", "waiting"}
    /\ IF At(r, "waiting") THEN Goes(r, Idle) /\ UNCHANGED resolving
       ELSE /\ resolving' = None
            /\ request' = [q \in Request |-> IF q = r THEN Idle
                                             ELSE IF At(q, "waiting")
                                             THEN [request[q] EXCEPT !.pc = "join"]
                                             ELSE request[q]]
    /\ UNCHANGED <<now, slot, resolved, entry, endpoint>>

\* The cache drops an idle entry, or makes room for another host.
Evict ==
    /\ slot # None
    /\ slot' = None
    /\ UNCHANGED <<now, resolving, resolved, entry, endpoint, request>>

Tick ==
    /\ now < MaxTime
    /\ now' = now + 1
    /\ UNCHANGED <<cache, resolved, entry, endpoint, request>>

Next ==
    \/ \E r \in Request : Lookup(r)
    \/ \E r \in Request : Judge(r)
    \/ \E r \in Request : TryAcquireRefresh(r)
    \/ \E r \in Request : SpawnRefresh(r)
    \/ \E r \in Request : Invalidate(r)
    \/ \E r \in Request : Join(r)
    \/ \E r \in Request : Resolve(r)
    \/ \E r \in Request : ResolveFails(r)
    \/ \E n \in Entry : RefreshResolves(n)
    \/ \E n \in Entry : RefreshFails(n)
    \/ \E n \in Entry : ReleaseRefresh(n)
    \/ \E r \in Request : LoadSnapshot(r)
    \/ \E r \in Request : ReserveOnly(r)
    \/ \E r \in Request : Sample(r)
    \/ \E r \in Request : LockLower(r)
    \/ \E r \in Request : ReservePair(r)
    \/ \E r \in Request : Recheck(r)
    \/ \E r \in Request : Publish(r)
    \/ \E r \in Request : Revoke(r)
    \/ \E r \in Request : BeginDispatch(r)
    \/ \E r \in Request : FinishGuard(r)
    \/ \E r \in Request : DropLookup(r)
    \/ Evict
    \/ Tick

\* The request that has taken the refresh flag spawns the task, and the runtime
\* runs it; a resolution ends.
Fairness ==
    /\ \A r \in Request : WF_vars(SpawnRefresh(r))
    /\ \A n \in Entry : WF_vars(RefreshResolves(n) \/ RefreshFails(n) \/ ReleaseRefresh(n))

Spec == Init /\ [][Next]_vars
FairSpec == Spec /\ Fairness
-------------------------------------------------------------------------------
(* Properties.                                                                 *)

TypeOK ==
    /\ now \in 0 .. MaxTime
    /\ slot \in Entry \cup {None} /\ resolving \in Request \cup {None}
    /\ resolved \in 0 .. MaxResolves
    /\ entry \in [Entry -> HostEntry]
    /\ endpoint \in [Endpoint -> [line : SUBSET Request, running : SUBSET Request]]
    /\ request \in [Request -> RequestState]

\* Whatever is refreshed, evicted, dropped or selected again in between, an
\* endpoint counts exactly the requests that hold a place with it: no
\* reservation stays behind at an address the request was not sent to.
GuardsMatchEndpoints ==
    \A e \in Endpoint :
        /\ endpoint[e].line = {r \in Request : request[r].endpoint = e /\
                                               request[r].pc \in
                                                 {"chosen", "confirmed", "revoked", "queued"}}
        /\ endpoint[e].running = {r \in Request : request[r].endpoint = e /\ At(r, "running")}
        /\ Cardinality(endpoint[e].line) <= Places
        /\ Cardinality(endpoint[e].running) <= Lanes

\* A refresh retains the controllers of the addresses that survive it
\* (loadpace-rama/README.md:123), although it resolves from a snapshot loaded long
\* before it stores the next one.
ControllersSurvive ==
    [][\A n \in Entry : \A e \in entry[n].current, f \in entry'[n].current :
          e.ip = f.ip => e = f]_vars

\* The look after the selection (dns.rs:299) tells what happened since the
\* snapshot was loaded: it passes an endpoint that has stayed in the set all the
\* time, and fails one that a refresh has removed, also if its address is back by
\* then with a new controller.  It promises nothing for later: a refresh may
\* remove the endpoint before Publish.
RecheckIsExact ==
    [][\A r \in Request :
          At(r, "chosen") /\ request'[r].pc \in {"confirmed", "revoked"} =>
              (request'[r].pc = "revoked"
                  <=> request[r].endpoint \in entry[request[r].entry].left)]_vars

\* s waits for a lock that r holds.
Blocks(r, s) ==
    /\ At(r, "locked")
    /\ \/ At(s, "sampled") /\ Lower(request[s].pair) = Lower(request[r].pair)
       \/ At(s, "locked") /\ Upper(request[s].pair) = Lower(request[r].pair)

\* Requests that pair the same addresses, in any order and from any entries, do
\* not wait for one another in a circle.
NoLockCycle ==
    \A circle \in (SUBSET Request) \ {{}} : \E s \in circle : \A r \in circle : ~Blocks(r, s)

\* An entry that once needed a refresh can be refreshed again, whether the
\* refresh succeeded or failed, and also if it has left the cache meanwhile.
RefreshEnds == \A n \in Entry : entry[n].refreshing ~> ~entry[n].refreshing

\* Only an entry without a successful refresh for evict_after_stale is discarded
\* by a lookup (loadpace-rama/README.md:124).
OnlyStaleIsDiscarded ==
    [][\A r \in Request : At(r, "expired") /\ request'[r].pc = "join" /\ slot # None =>
          Elapsed(slot) >= EvictAfterStale]_vars
===============================================================================
