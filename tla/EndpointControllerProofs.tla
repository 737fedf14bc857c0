----------------------- MODULE EndpointControllerProofs -----------------------
(* Every behaviour of the endpoint keeps its types, its pacing, its order and  *)
(* its caps, whatever the constants: the invariants of the model-checked runs, *)
(* proved together because each needs the others.  Every step announces what a *)
(* sleeper would miss.                                                         *)
EXTENDS EndpointController, ControllerProofs

\* The inductive invariant.  Dispatch keeps the in-flight count only because the
\* id of a new token is above those of all others, that is by QueueInOrder;
\* FinishRequest keeps the type of the count only because it counts the tokens.
IInv ==
    /\ TypeOK
    /\ QueueIsPaced
    /\ QueueInOrder
    /\ CapsHold
    /\ IsFiniteSet(tokens)

\* A draw offered to a call is one the random source can give.
LEMMA DrawnType == Drawn \subseteq Draw
    BY ProbeAssumption DEF Drawn, Draws, Draw

\* The history keeps its type when the controller does.
LEMMA NotedType ==
    ASSUME hist \in History, now \in Instant, NEW after \in ControllerOf("self")
    PROVE  Noted(hist, after) \in History
    <1>1. after.pacer.interval \in Nat
        BY DEF ControllerOf, Pacer
    <1>2. Earlier(hist.spacing, after.pacer.interval) \in Nat
        BY <1>1 DEF History, Earlier
    <1> QED
        BY <1>2 DEF Noted, History

LEMMA InitInvariant == Init => IInv
    <1> SUFFICES ASSUME Init PROVE IInv
        OBVIOUS
    <1>1. 0 \in Instant
        BY ConfigAssumption DEF Instant
    <1>2. /\ ctl \in ControllerOf("self") /\ Queued(ctl) = 0 /\ ctl.inflight = 0
          /\ Paced(ctl)
        BY <1>1, NewControllerFacts DEF Init
    <1>3. TypeOK
        BY <1>1, <1>2 DEF Init, TypeOK, History
    <1>4. QueueInOrder
        BY <1>2 DEF Init, QueueInOrder
    <1>5. Cardinality(tokens) = 0 /\ IsFiniteSet(tokens)
        BY FS_EmptySet DEF Init
    <1>6. CapsHold
        BY <1>2, <1>5, ConfigAssumption DEF CapsHold
    <1> QED
        BY <1>2, <1>3, <1>4, <1>5, <1>6 DEF IInv, QueueIsPaced

\* Most calls re-rate the queue and change nothing else the invariant reads.
LEMMA SameQueueInvariant ==
    ASSUME IInv, ctl' \in ControllerOf("self"), KeepsQueue(ctl, ctl'), Paced(ctl'),
           now' \in Instant, tokens' = tokens, hist' \in History
    PROVE  IInv'
    <1>1. TypeOK'
        BY DEF IInv, TypeOK
    <1>2. QueueInOrder'
        BY DEF IInv, QueueInOrder, KeepsQueue
    <1>3. CapsHold' /\ IsFiniteSet(tokens)'
        BY DEF IInv, CapsHold, KeepsQueue
    <1> QED
        BY <1>1, <1>2, <1>3 DEF IInv, QueueIsPaced

LEMMA ReserveInvariant == IInv /\ ReserveSlot => IInv'
    <1> SUFFICES ASSUME IInv, ReserveSlot PROVE IInv'
        OBVIOUS
    <1>1. /\ ctl \in ControllerOf("self") /\ now \in Instant /\ Paced(ctl)
          /\ tokens \subseteq Token
        BY DEF IInv, TypeOK, QueueIsPaced
    <1>2. /\ ctl' = Reserve(ctl, now)
          /\ now' = now /\ tokens' = tokens /\ hist' = hist
        BY DEF ReserveSlot, Call
    <1>3. /\ ctl' \in ControllerOf("self")
          /\ Paced(ctl')
          /\ \/ ctl' = ctl
             \/ /\ MaySchedule(ctl)
                /\ Queued(ctl') = Queued(ctl) + 1
                /\ \A i \in 1 .. Queued(ctl) : ctl'.pending[i].id = ctl.pending[i].id
                /\ ctl'.pending[Queued(ctl')].id = ctl.next_id
                /\ ctl'.next_id = ctl.next_id + 1
                /\ ctl'.inflight = ctl.inflight
        BY <1>1, <1>2, ReserveFacts
    <1>4. CASE ctl' = ctl
        BY <1>2, <1>4 DEF IInv, TypeOK, QueueIsPaced, QueueInOrder, CapsHold
    <1>5. CASE ctl' # ctl
        <2> DEFINE n == Queued(ctl)
        <2>1. n \in Nat /\ ctl.next_id \in Nat
            BY <1>1 DEF ControllerOf, Queued
        <2>2. \A t \in tokens : t.id \in Nat
            BY <1>1 DEF Token
        <2>3. ASSUME NEW i \in 1 .. n
              PROVE  ctl.pending[i].id \in Nat
            <3>1. ctl.pending[i] \in Pending
                BY <1>1 DEF ControllerOf, Queued
            <3> QED
                BY <3>1 DEF Pending
        <2>4. \A i \in 1 .. n + 1 : i \in 1 .. n \/ i = n + 1
            BY <2>1
        <2>5. QueueInOrder'
            <3> HIDE DEF n
            <3>1. ASSUME NEW i \in 1 .. n + 1, NEW j \in 1 .. n + 1, i < j
                  PROVE  ctl'.pending[i].id < ctl'.pending[j].id
                <4>1. i \in 1 .. n
                    BY <2>1, <3>1
                <4>2. CASE j \in 1 .. n
                    BY <1>3, <1>5, <3>1, <4>1, <4>2 DEF IInv, QueueInOrder, n
                <4>3. CASE j = n + 1
                    BY <1>3, <1>5, <4>1, <4>3 DEF IInv, QueueInOrder, n
                <4> QED
                    BY <2>4, <4>2, <4>3
            <3>2. ASSUME NEW i \in 1 .. n + 1
                  PROVE  /\ ctl'.pending[i].id < ctl'.next_id
                         /\ \A t \in tokens : t.id < ctl'.pending[i].id
                <4>1. CASE i \in 1 .. n
                    BY <1>3, <1>5, <2>1, <2>3, <4>1 DEF IInv, QueueInOrder, n
                <4>2. CASE i = n + 1
                    BY <1>3, <1>5, <2>1, <4>2 DEF IInv, QueueInOrder, n
                <4> QED
                    BY <2>4, <4>1, <4>2
            <3>3. \A t \in tokens : t.id < ctl'.next_id
                BY <1>3, <1>5, <2>1, <2>2 DEF IInv, QueueInOrder
            <3>4. Queued(ctl') = n + 1
                BY <1>3, <1>5 DEF n
            <3> QED
                BY <1>2, <3>1, <3>2, <3>3, <3>4 DEF IInv, QueueInOrder
        <2>6. CapsHold'
            BY <1>2, <1>3, <1>5, <2>1, ConfigAssumption DEF IInv, CapsHold, MaySchedule
        <2> QED
            BY <1>2, <1>3, <2>5, <2>6 DEF IInv, TypeOK, QueueIsPaced
    <1> QED
        BY <1>4, <1>5

LEMMA CancelInvariant ==
    ASSUME IInv, NEW r \in Reservation, CancelReservation(r)
    PROVE  IInv'
    <1>1. ctl \in ControllerOf("self") /\ now \in Instant /\ Paced(ctl)
        BY DEF IInv, TypeOK, QueueIsPaced
    <1>2. /\ ctl' = Cancel(ctl, r, now)
          /\ now' = now /\ tokens' = tokens /\ hist' = hist
        BY DEF CancelReservation, Call
    <1>3. /\ ctl' \in ControllerOf("self")
          /\ Paced(ctl')
          /\ ctl'.next_id = ctl.next_id
          /\ ctl'.inflight = ctl.inflight
          /\ \/ ctl' = ctl
             \/ \E p \in 1 .. Queued(ctl) :
                   /\ Queued(ctl') = Queued(ctl) - 1
                   /\ \A i \in 1 .. Queued(ctl') :
                         ctl'.pending[i].id = ctl.pending[IF i < p THEN i ELSE i + 1].id
        BY <1>1, <1>2, CancelFacts
    <1>4. CASE ctl' = ctl
        BY <1>2, <1>4 DEF IInv, TypeOK, QueueIsPaced, QueueInOrder, CapsHold
    <1>5. CASE ctl' # ctl
        <2> DEFINE n == Queued(ctl)
        <2>1. PICK p \in 1 .. n :
                 /\ Queued(ctl') = n - 1
                 /\ \A i \in 1 .. Queued(ctl') :
                       ctl'.pending[i].id = ctl.pending[IF i < p THEN i ELSE i + 1].id
            BY <1>3, <1>5
        <2>2. n \in Nat
            BY <1>1 DEF ControllerOf, Queued
        <2> DEFINE old(i) == IF i < p THEN i ELSE i + 1
        <2>3. \A i \in 1 .. n - 1 : old(i) \in 1 .. n
            BY <2>2
        <2>4. \A i, j \in 1 .. n - 1 : i < j => old(i) < old(j)
            BY <2>2
        <2>5. \A i \in 1 .. n - 1 : ctl'.pending[i].id = ctl.pending[old(i)].id
            BY <2>1
        <2> HIDE DEF old
        <2>6. QueueInOrder'
            BY <1>2, <1>3, <2>1, <2>3, <2>4, <2>5 DEF IInv, QueueInOrder
        <2>7. CapsHold'
            BY <1>2, <1>3, <2>1, <2>2, ConfigAssumption DEF IInv, CapsHold
        <2> QED
            BY <1>2, <1>3, <2>6, <2>7 DEF IInv, TypeOK, QueueIsPaced
    <1> QED
        BY <1>4, <1>5

LEMMA CheckInvariant ==
    ASSUME IInv, NEW r \in Reservation, NEW draw \in Drawn, CheckReservation(r, draw)
    PROVE  IInv'
    <1>1. /\ ctl \in ControllerOf("self") /\ now \in Instant /\ hist \in History
          /\ Paced(ctl) /\ draw \in Draw
        BY DrawnType DEF IInv, TypeOK, QueueIsPaced
    <1>2. /\ ctl' = Check(ctl, r, draw, now).ctl
          /\ now' = now /\ tokens' = tokens /\ hist' = Noted(hist, ctl')
        BY DEF CheckReservation, Call
    <1>3. ctl' \in ControllerOf("self") /\ KeepsQueue(ctl, ctl') /\ Paced(ctl')
        BY <1>1, <1>2, CheckFacts
    <1>4. hist' \in History
        BY <1>1, <1>2, <1>3, NotedType
    <1> QED
        BY <1>1, <1>2, <1>3, <1>4, SameQueueInvariant

LEMMA DispatchInvariant ==
    ASSUME IInv, NEW r \in Reservation, NEW draw \in Drawn, Dispatch(r, draw)
    PROVE  IInv'
    <1> DEFINE result == OnDispatched(ctl, r, draw, now)
    <1>1. /\ ctl \in ControllerOf("self") /\ now \in Instant /\ hist \in History
          /\ tokens \subseteq Token /\ Paced(ctl) /\ draw \in Draw
        BY DrawnType DEF IInv, TypeOK, QueueIsPaced
    <1>2. /\ result.ctl \in ControllerOf("self")
          /\ Paced(result.ctl)
          /\ result.answer.tag # "Ready" => KeepsQueue(ctl, result.ctl)
          /\ result.answer.tag = "Ready" =>
               /\ Queued(ctl) > 0 /\ ctl.inflight < MaxInflight
               /\ Queued(result.ctl) = Queued(ctl) - 1
               /\ \A i \in 1 .. Queued(result.ctl) :
                     result.ctl.pending[i].id = ctl.pending[i + 1].id
               /\ result.ctl.next_id = ctl.next_id
               /\ result.ctl.inflight = ctl.inflight + 1
               /\ result.token \in Token
               /\ result.token.id = ctl.pending[1].id
        BY <1>1, OnDispatchedFacts DEF Token
    <1>3. /\ ctl' = result.ctl /\ now' = now
          /\ result.answer.tag # "Ready" =>
               tokens' = tokens /\ hist' = Noted(hist, ctl')
          /\ result.answer.tag = "Ready" =>
               /\ tokens' = tokens \cup {result.token}
               /\ hist' = [Noted(hist, ctl') EXCEPT
                             !.dispatched_at = now,
                             !.spacing = ctl'.pacer.interval,
                             !.heard_at = IF tokens = {} THEN now ELSE @]
        BY DEF Dispatch, Call
    <1> HIDE DEF result
    <1>4. Noted(hist, ctl') \in History
        BY <1>1, <1>2, <1>3, NotedType
    <1>5. CASE result.answer.tag # "Ready"
        BY <1>1, <1>2, <1>3, <1>4, <1>5, SameQueueInvariant
    <1>6. CASE result.answer.tag = "Ready"
        <2> DEFINE n == Queued(ctl)
                   token == result.token
        <2>1. n \in Nat \ {0}
            BY <1>1, <1>2, <1>6 DEF ControllerOf, Queued
        <2>2. \A i \in 1 .. n - 1 : i \in 1 .. n /\ i + 1 \in 1 .. n /\ 1 < i + 1 /\ 1 \in 1 .. n
            BY <2>1
        <2>3. hist' \in History
            <3>1. ctl'.pacer.interval \in Nat
                BY <1>2, <1>3 DEF ControllerOf, Pacer
            <3> HIDE DEF Noted
            <3> QED
                BY <1>1, <1>3, <1>4, <1>6, <3>1 DEF History
        <2>4. TypeOK'
            BY <1>1, <1>2, <1>3, <1>6, <2>3 DEF TypeOK
        <2>5. token.id < ctl.next_id /\ \A t \in tokens : t.id < token.id
            BY <1>2, <1>6, <2>1 DEF IInv, QueueInOrder
        <2>6. token \notin tokens
            <3>1. token.id \in Nat
                BY <1>2, <1>6 DEF Token
            <3> QED
                BY <2>5, <3>1
        <2>7. QueueInOrder'
            <3>1. Queued(ctl') = n - 1 /\ ctl'.next_id = ctl.next_id
                BY <1>2, <1>3, <1>6
            <3>2. \A i \in 1 .. n - 1 : ctl'.pending[i].id = ctl.pending[i + 1].id
                BY <1>2, <1>3, <1>6
            <3>3. tokens' = tokens \cup {token}
                BY <1>3, <1>6
            <3>4. token.id = ctl.pending[1].id
                BY <1>2, <1>6
            <3> HIDE DEF n, token
            <3>5. ASSUME NEW i \in 1 .. n - 1, NEW j \in 1 .. n - 1, i < j
                  PROVE  ctl'.pending[i].id < ctl'.pending[j].id
                <4>1. i + 1 \in 1 .. n /\ j + 1 \in 1 .. n /\ i + 1 < j + 1
                    BY <2>1, <3>5
                <4> QED
                    BY <3>2, <4>1 DEF IInv, QueueInOrder, n
            <3>6. ASSUME NEW i \in 1 .. n - 1
                  PROVE  /\ ctl'.pending[i].id < ctl'.next_id
                         /\ \A t \in tokens' : t.id < ctl'.pending[i].id
                BY <2>2, <3>1, <3>2, <3>3, <3>4 DEF IInv, QueueInOrder, n
            <3>7. \A t \in tokens' : t.id < ctl'.next_id
                BY <2>5, <3>1, <3>3 DEF IInv, QueueInOrder
            <3>8. \A s, t \in tokens' : s.id = t.id => s = t
                <4>1. \A t \in tokens : t.id # token.id
                    <5>1. \A t \in tokens : t.id \in Nat
                        BY <1>1 DEF Token
                    <5>2. token.id \in Nat
                        BY <1>2, <1>6 DEF Token, token
                    <5> QED
                        BY <2>5, <5>1, <5>2
                <4> QED
                    BY <3>3, <4>1 DEF IInv, QueueInOrder
            <3> QED
                BY <3>1, <3>5, <3>6, <3>7, <3>8 DEF QueueInOrder
        <2>8. /\ IsFiniteSet(tokens')
              /\ Cardinality(tokens') = Cardinality(tokens) + 1
            BY <1>3, <1>6, <2>6, FS_AddElement DEF IInv
        <2>9. CapsHold'
            <3>1. ctl.inflight \in Nat
                BY <1>1 DEF ControllerOf
            <3> QED
                BY <1>2, <1>3, <1>6, <2>1, <2>8, <3>1, ConfigAssumption DEF IInv, CapsHold
        <2> QED
            BY <1>2, <1>3, <2>4, <2>7, <2>8, <2>9 DEF IInv, QueueIsPaced
    <1> QED
        BY <1>5, <1>6

\* What belongs to another controller is refused, whatever its outcome.
LEMMA ForeignIsRefused ==
    ASSUME IInv, NEW completion \in Completion, FinishForeign(completion)
    PROVE  UNCHANGED vars
    <1>1. ~Owns(ctl, Foreign)
        BY DEF IInv, TypeOK, ControllerOf, Owns, Foreign
    <1>2. Finish(ctl, Foreign, completion, now) = ctl
        BY <1>1 DEF Finish, OnComplete, OnAbandoned, Completion
    <1> QED
        BY <1>2 DEF FinishForeign, Call, vars

LEMMA FinishInvariant ==
    ASSUME IInv, NEW t \in tokens, NEW completion \in Completion, FinishRequest(t, completion)
    PROVE  IInv'
    <1> DEFINE counted == [ctl EXCEPT !.inflight = @ - 1]
    <1>1. /\ ctl \in ControllerOf("self") /\ now \in Instant /\ hist \in History
          /\ tokens \subseteq Token /\ Paced(ctl)
        BY DEF IInv, TypeOK, QueueIsPaced
    <1>2. /\ Owns(ctl, t) /\ t.dispatched_at \in Instant /\ t.was_paced \in BOOLEAN
        BY <1>1 DEF Owns, Token, ControllerOf
    <1>3. /\ IsFiniteSet(tokens \ {t})
          /\ Cardinality(tokens \ {t}) = Cardinality(tokens) - 1
          /\ Cardinality(tokens) \in Nat /\ Cardinality(tokens \ {t}) \in Nat
        BY FS_RemoveElement, FS_CardinalityType DEF IInv
    <1>4. ctl.inflight \in Nat \ {0}
        BY <1>3 DEF IInv, CapsHold
    <1>5. /\ ctl' = Finish(ctl, t, completion, now) /\ now' = now
          /\ tokens' = tokens \ {t}
          /\ hist' = [Noted(hist, ctl') EXCEPT
                        !.heard_at = IF tokens = {t} THEN None
                                     ELSE IF completion = "Abandoned" THEN @ ELSE now]
        BY DEF FinishRequest, Call
    <1>6. ctl' \in ControllerOf("self") /\ Paced(ctl') /\ KeepsQueue(counted, ctl')
        BY <1>1, <1>2, <1>4, <1>5, FinishFacts DEF Completion
    <1>7. /\ Queued(ctl') = Queued(ctl)
          /\ \A i \in 1 .. Queued(ctl) : ctl'.pending[i].id = ctl.pending[i].id
          /\ ctl'.next_id = ctl.next_id
          /\ ctl'.inflight = ctl.inflight - 1
        BY <1>1, <1>6 DEF KeepsQueue, ControllerOf, Queued
    <1>8. hist' \in History
        <2>1. Noted(hist, ctl') \in History
            BY <1>1, <1>6, NotedType
        <2> QED
            BY <1>1, <1>5, <2>1 DEF History
    <1>9. TypeOK'
        BY <1>1, <1>5, <1>6, <1>8 DEF TypeOK
    <1>10. QueueInOrder'
        BY <1>5, <1>7 DEF IInv, QueueInOrder
    <1>11. CapsHold'
        BY <1>3, <1>4, <1>5, <1>7, ConfigAssumption DEF IInv, CapsHold
    <1> QED
        BY <1>3, <1>5, <1>6, <1>9, <1>10, <1>11 DEF IInv, QueueIsPaced

LEMMA AdmissionFailureInvariant == IInv /\ AdmissionFailure => IInv'
    <1> SUFFICES ASSUME IInv, AdmissionFailure PROVE IInv'
        OBVIOUS
    <1>1. /\ ctl \in ControllerOf("self") /\ now \in Instant /\ hist \in History
          /\ Paced(ctl)
        BY DEF IInv, TypeOK, QueueIsPaced
    <1>2. /\ ctl' = OnAdmissionFailure(ctl, now) /\ now' = now /\ tokens' = tokens
          /\ hist' = [Noted(hist, ctl') EXCEPT !.admission_failures = @ + 1]
        BY DEF AdmissionFailure, Call
    <1>3. ctl' \in ControllerOf("self") /\ KeepsQueue(ctl, ctl') /\ Paced(ctl')
        BY <1>1, <1>2, OnAdmissionFailureFacts
    <1>4. hist' \in History
        <2>1. Noted(hist, ctl') \in History
            BY <1>1, <1>3, NotedType
        <2> QED
            BY <1>2, <2>1 DEF History
    <1> QED
        BY <1>1, <1>2, <1>3, <1>4, SameQueueInvariant

LEMMA ReadLoadInvariant ==
    ASSUME IInv, NEW draw \in Drawn, ReadLoad(draw)
    PROVE  IInv'
    <1>1. /\ ctl \in ControllerOf("self") /\ now \in Instant /\ hist \in History
          /\ Paced(ctl) /\ draw \in Draw
        BY DrawnType DEF IInv, TypeOK, QueueIsPaced
    <1>2. /\ ctl' = Refresh(ctl, draw, now)
          /\ now' = now /\ tokens' = tokens /\ hist' = Noted(hist, ctl')
        BY DEF ReadLoad, Call
    <1>3. ctl' \in ControllerOf("self") /\ KeepsQueue(ctl, ctl') /\ Paced(ctl')
        BY <1>1, <1>2, RefreshFacts
    <1>4. hist' \in History
        BY <1>1, <1>2, <1>3, NotedType
    <1> QED
        BY <1>1, <1>2, <1>3, <1>4, SameQueueInvariant

LEMMA DrainInvariant == IInv /\ DrainChanges => IInv'
    <1> SUFFICES ASSUME IInv, DrainChanges PROVE IInv'
        OBVIOUS
    <1>1. ctl \in ControllerOf("self") /\ Paced(ctl)
        BY DEF IInv, TypeOK, QueueIsPaced
    <1>2. /\ ctl' = TakeChanges(ctl)
          /\ now' = now /\ tokens' = tokens /\ hist' = hist
        BY DEF DrainChanges, Call
    <1>3. NoChanges \in Changes
        BY DEF NoChanges, Changes
    <1>4. ctl' \in ControllerOf("self") /\ KeepsQueue(ctl, ctl')
        BY <1>1, <1>2, <1>3 DEF TakeChanges, ControllerOf, KeepsQueue, Queued
    <1>5. Paced(ctl')
        BY <1>1, <1>2, PacedDepends DEF TakeChanges, ControllerOf
    <1> QED
        BY <1>2, <1>4, <1>5, SameQueueInvariant DEF IInv, TypeOK

LEMMA TickInvariant == IInv /\ Tick => IInv'
    <1> SUFFICES ASSUME IInv, Tick PROVE IInv'
        OBVIOUS
    <1>1. ctl \in ControllerOf("self") /\ Paced(ctl)
        BY DEF IInv, TypeOK, QueueIsPaced
    <1>2. now' \in Instant /\ ctl' = ctl /\ tokens' = tokens /\ hist' = hist
        BY BoundsAssumption, ConfigAssumption DEF IInv, TypeOK, Tick, Instant
    <1>3. KeepsQueue(ctl, ctl')
        BY <1>2 DEF KeepsQueue
    <1> QED
        BY <1>1, <1>2, <1>3, SameQueueInvariant DEF IInv, TypeOK

LEMMA NextInvariant == IInv /\ [Next]_vars => IInv'
    <1> SUFFICES ASSUME IInv, [Next]_vars PROVE IInv'
        OBVIOUS
    <1>1. CASE ReserveSlot
        BY <1>1, ReserveInvariant
    <1>2. ASSUME NEW r \in Reservation, CancelReservation(r) PROVE IInv'
        BY <1>2, CancelInvariant
    <1>3. ASSUME NEW r \in Reservation, NEW draw \in Drawn, CheckReservation(r, draw)
          PROVE  IInv'
        BY <1>3, CheckInvariant
    <1>4. ASSUME NEW r \in Reservation, NEW draw \in Drawn, Dispatch(r, draw)
          PROVE  IInv'
        BY <1>4, DispatchInvariant
    <1>5. ASSUME NEW t \in tokens, NEW completion \in Completion, FinishRequest(t, completion)
          PROVE  IInv'
        BY <1>5, FinishInvariant
    <1>6. CASE AdmissionFailure
        BY <1>6, AdmissionFailureInvariant
    <1>7. ASSUME NEW draw \in Drawn, ReadLoad(draw) PROVE IInv'
        BY <1>7, ReadLoadInvariant
    <1>8. CASE DrainChanges
        BY <1>8, DrainInvariant
    <1>9. CASE Tick
        BY <1>9, TickInvariant
    <1>10. CASE UNCHANGED vars
        BY <1>10 DEF vars, IInv, TypeOK, QueueIsPaced, QueueInOrder, CapsHold
    <1> QED
        BY <1>1, <1>2, <1>3, <1>4, <1>5, <1>6, <1>7, <1>8, <1>9, <1>10, ForeignIsRefused DEF Next

\* The inductive invariant holds in every state of every behaviour: calls in any
\* order, with stale and foreign reservations, at any instants.
THEOREM Invariance == Spec => []IInv
    <1> QED
        BY InitInvariant, NextInvariant, PTL DEF Spec

\* No call takes the controller, the tokens or the clock out of their types:
\* every deadline is an Instant, the limit keeps its bounds, the interval is
\* never zero.
THEOREM TypeCorrect == Spec => []TypeOK
    <1>1. IInv => TypeOK
        BY DEF IInv
    <1> QED
        BY <1>1, Invariance, PTL

\* However reservations are cancelled, dispatched and re-rated, the slots in the
\* queue stay one interval apart and never ahead of the committed TAT.
THEOREM PacingIsKept == Spec => []QueueIsPaced
    <1>1. IInv => QueueIsPaced
        BY DEF IInv
    <1> QED
        BY <1>1, Invariance, PTL

\* First come, first served, under identities that are never shared or reused.
THEOREM OrderIsKept == Spec => []QueueInOrder
    <1>1. IInv => QueueInOrder
        BY DEF IInv
    <1> QED
        BY <1>1, Invariance, PTL

\* The queue and the in-flight count never pass their caps, and the count never
\* drifts from the tokens that callers hold.
THEOREM CapsAreKept == Spec => []CapsHold
    <1>1. IInv => CapsHold
        BY DEF IInv
    <1> QED
        BY <1>1, Invariance, PTL
-------------------------------------------------------------------------------
LEMMA NextAnnounces ==
    ASSUME IInv, [Next]_vars
    PROVE  Announces(ctl, ctl', now)
    <1>1. ctl \in ControllerOf("self") /\ now \in Instant /\ Paced(ctl)
        BY DEF IInv, TypeOK, QueueIsPaced
    <1>2. CASE ReserveSlot
        BY <1>1, <1>2, ReserveAnnounces DEF ReserveSlot, Call
    <1>3. ASSUME NEW r \in Reservation, CancelReservation(r) PROVE Announces(ctl, ctl', now)
        BY <1>1, <1>3, CancelAnnounces DEF CancelReservation, Call
    <1>4. ASSUME NEW r \in Reservation, NEW draw \in Drawn, CheckReservation(r, draw)
          PROVE  Announces(ctl, ctl', now)
        <2>1. ctl' = Check(ctl, r, draw, now).ctl
            BY <1>4 DEF CheckReservation, Call
        <2> QED
            BY <1>1, <2>1, CheckAnnounces, DrawnType
    <1>5. ASSUME NEW r \in Reservation, NEW draw \in Drawn, Dispatch(r, draw)
          PROVE  Announces(ctl, ctl', now)
        <2>1. ctl' = OnDispatched(ctl, r, draw, now).ctl
            BY <1>5 DEF Dispatch, Call
        <2> QED
            BY <1>1, <2>1, DispatchAnnounces, DrawnType
    <1>6. ASSUME NEW t \in tokens, NEW completion \in Completion, FinishRequest(t, completion)
          PROVE  Announces(ctl, ctl', now)
        <2>1. ctl' = Finish(ctl, t, completion, now)
            BY <1>6 DEF FinishRequest, Call
        <2>2. /\ Owns(ctl, t) /\ t.dispatched_at \in Instant /\ t.was_paced \in BOOLEAN
            BY <1>1, <1>6 DEF IInv, TypeOK, Token, Owns, ControllerOf
        <2>3. ctl.inflight > 0
            BY <1>6, FS_EmptySet, FS_CardinalityType DEF IInv, CapsHold
        <2> QED
            BY <1>1, <2>1, <2>2, <2>3, FinishAnnounces DEF Completion
    <1>7. CASE AdmissionFailure
        BY <1>1, <1>7, OnAdmissionFailureAnnounces DEF AdmissionFailure, Call
    <1>8. ASSUME NEW draw \in Drawn, ReadLoad(draw) PROVE Announces(ctl, ctl', now)
        <2>1. ctl' = Refresh(ctl, draw, now)
            BY <1>8 DEF ReadLoad, Call
        <2> QED
            BY <1>1, <2>1, RefreshAnnounces, DrawnType
    <1>9. CASE DrainChanges
        BY <1>1, <1>9, TakeChangesFacts, SameDueAnnounces DEF DrainChanges, Call
    <1>10. CASE Tick \/ UNCHANGED vars
        <2>1. ctl' = ctl
            BY <1>10 DEF Tick, vars
        <2> QED
            BY <1>1, <2>1, SameDueAnnounces DEF KeepsQueue
    <1> QED
        BY <1>2, <1>3, <1>4, <1>5, <1>6, <1>7, <1>8, <1>9, <1>10, ForeignIsRefused DEF Next

\* A caller that sleeps until the answer it was given runs out misses nothing:
\* every call that gives it a turn, an earlier one, or a place raises the flag
\* the adapters turn into wakeups.
THEOREM NothingIsMissed == Spec => WakeupsAreRaised
    <1> DEFINE raised ==
            /\ (/\ Queued(ctl) > 0 /\ Queued(ctl') > 0
                /\ \/ ctl'.pending[1].id # ctl.pending[1].id
                   \/ Later(now, HeadDue(ctl')) < Later(now, HeadDue(ctl)))
               => ctl'.changes.dispatch
            /\ ~MaySchedule(ctl) /\ MaySchedule(ctl') => ctl'.changes.admission
    <1>1. IInv /\ [Next]_vars => [raised]_vars
        BY NextAnnounces DEF Announces
    <1> QED
        BY <1>1, Invariance, PTL DEF Spec, WakeupsAreRaised
-------------------------------------------------------------------------------
(* Slots that never lag.                                                       *)

\* A token a caller holds is one the controller counts.
LEMMA HeldToken ==
    ASSUME IInv, NEW t \in tokens
    PROVE  /\ Owns(ctl, t) /\ t.dispatched_at \in Instant /\ t.was_paced \in BOOLEAN
           /\ ctl.inflight > 0
           /\ ctl.inflight = 1 <=> tokens = {t}
    <1>1. Owns(ctl, t) /\ t.dispatched_at \in Instant /\ t.was_paced \in BOOLEAN
        BY DEF IInv, TypeOK, Token, Owns, ControllerOf
    <1>2. /\ Cardinality(tokens \ {t}) = Cardinality(tokens) - 1
          /\ Cardinality(tokens) \in Nat /\ Cardinality(tokens \ {t}) \in Nat
          /\ IsFiniteSet(tokens \ {t})
        BY FS_RemoveElement, FS_CardinalityType DEF IInv
    <1>3. Cardinality(tokens \ {t}) = 0 <=> tokens \ {t} = {}
        BY <1>2, FS_EmptySet
    <1>4. tokens \ {t} = {} <=> tokens = {t}
        OBVIOUS
    <1> QED
        BY <1>1, <1>2, <1>3, <1>4 DEF IInv, CapsHold

LEMMA InitPrompt == Init => NoPhantomDebt
    <1> SUFFICES ASSUME Init PROVE NoPhantomDebt
        OBVIOUS
    <1>1. Queued(ctl) = 0
        BY NewControllerFacts, ConfigAssumption DEF Init, Instant
    <1> QED
        BY <1>1 DEF NoPhantomDebt

LEMMA NextPrompt ==
    ASSUME IInv, NoPhantomDebt, [Next]_vars
    PROVE  NoPhantomDebt'
    <1>1. ctl \in ControllerOf("self") /\ now \in Instant /\ Paced(ctl) /\ Prompt(ctl, now)
        BY DEF IInv, TypeOK, QueueIsPaced, NoPhantomDebt, Prompt
    <1> SUFFICES Prompt(ctl', now')
        BY DEF NoPhantomDebt, Prompt
    <1>2. CASE ReserveSlot
        BY <1>1, <1>2, ReserveIsPrompt DEF ReserveSlot, Call
    <1>3. ASSUME NEW r \in Reservation, CancelReservation(r) PROVE Prompt(ctl', now')
        BY <1>1, <1>3, CancelIsPrompt DEF CancelReservation, Call
    <1>4. ASSUME NEW r \in Reservation, NEW draw \in Drawn, CheckReservation(r, draw)
          PROVE  Prompt(ctl', now')
        <2>1. ctl' = Check(ctl, r, draw, now).ctl /\ now' = now
            BY <1>4 DEF CheckReservation, Call
        <2> QED
            BY <1>1, <2>1, CheckIsPrompt, DrawnType
    <1>5. ASSUME NEW r \in Reservation, NEW draw \in Drawn, Dispatch(r, draw)
          PROVE  Prompt(ctl', now')
        <2>1. ctl' = OnDispatched(ctl, r, draw, now).ctl /\ now' = now
            BY <1>5 DEF Dispatch, Call
        <2> QED
            BY <1>1, <2>1, DispatchIsPrompt, DrawnType
    <1>6. ASSUME NEW t \in tokens, NEW completion \in Completion, FinishRequest(t, completion)
          PROVE  Prompt(ctl', now')
        <2>1. ctl' = Finish(ctl, t, completion, now) /\ now' = now
            BY <1>6 DEF FinishRequest, Call
        <2>2. /\ Owns(ctl, t) /\ t.dispatched_at \in Instant /\ t.was_paced \in BOOLEAN
              /\ ctl.inflight > 0
            BY HeldToken
        <2> QED
            BY <1>1, <2>1, <2>2, FinishIsPrompt DEF Completion
    <1>7. CASE AdmissionFailure
        BY <1>1, <1>7, OnAdmissionFailureIsPrompt DEF AdmissionFailure, Call
    <1>8. ASSUME NEW draw \in Drawn, ReadLoad(draw) PROVE Prompt(ctl', now')
        <2>1. ctl' = Refresh(ctl, draw, now) /\ now' = now
            BY <1>8 DEF ReadLoad, Call
        <2> QED
            BY <1>1, <2>1, RefreshIsPrompt, DrawnType
    <1>9. CASE DrainChanges
        <2>1. ctl'.pending = ctl.pending /\ ctl'.pacer = ctl.pacer /\ now' = now
            BY <1>1, <1>9 DEF DrainChanges, Call, TakeChanges, ControllerOf
        <2> QED
            BY <1>1, <2>1, PromptDepends
    <1>10. CASE Tick
        <2>1. ctl' = ctl /\ now' \in Instant /\ now <= now'
            BY <1>1, <1>10, BoundsAssumption, ConfigAssumption DEF Tick, Instant
        <2> QED
            BY <1>1, <2>1, LaterIsPrompt
    <1>11. CASE UNCHANGED vars
        BY <1>1, <1>11 DEF vars
    <1> QED
        BY <1>2, <1>3, <1>4, <1>5, <1>6, <1>7, <1>8, <1>9, <1>10, <1>11, ForeignIsRefused DEF Next
-------------------------------------------------------------------------------
(* What was heard, and when the limit moved.                                   *)

LEMMA NotedFacts ==
    ASSUME hist \in History, NEW after \in ControllerOf("self")
    PROVE  /\ Noted(hist, after).heard_at = hist.heard_at
           /\ Noted(hist, after).moved_at =
                IF after.gradient.concurrency # ctl.gradient.concurrency THEN now
                ELSE hist.moved_at
    BY DEF Noted, History

\* A step that teaches the controller nothing.
Uneventful ==
    /\ SameLearning(ctl, ctl')
    /\ tokens' = tokens
    /\ hist'.heard_at = hist.heard_at
    /\ hist'.moved_at = hist.moved_at
    /\ now' >= now

\* The dispatch of a request.
Dispatched ==
    /\ ctl'.latency = ctl.latency
    /\ ctl'.gradient = ctl.gradient
    /\ ctl'.feedback_epoch = IF ctl.inflight = 0 THEN NewEpoch(ctl', now)
                             ELSE ctl.feedback_epoch
    /\ tokens' # {}
    /\ hist'.heard_at = IF tokens = {} THEN now ELSE hist.heard_at
    /\ hist'.moved_at = hist.moved_at
    /\ now' = now

\* The end of the request t.
Finished(t, completion) ==
    /\ Learns(ctl, ctl', completion, now)
    /\ tokens' = tokens \ {t}
    /\ hist'.heard_at = IF tokens = {t} THEN None
                        ELSE IF completion = "Abandoned" THEN hist.heard_at ELSE now
    /\ hist'.moved_at = IF ctl'.gradient.concurrency # ctl.gradient.concurrency THEN now
                        ELSE hist.moved_at
    /\ now' = now

\* A failure of the transport.
Unadmitted ==
    /\ ctl'.latency = ctl.latency
    /\ ctl'.feedback_epoch = ctl.feedback_epoch
    /\ ctl'.gradient.next_update_at = SaturatingAdd(now, UpdateInterval)
    /\ tokens' = tokens
    /\ hist'.heard_at = hist.heard_at
    /\ hist'.moved_at = IF ctl'.gradient.concurrency # ctl.gradient.concurrency THEN now
                        ELSE hist.moved_at
    /\ now' = now

LEMMA NextLearns ==
    ASSUME IInv, [Next]_vars
    PROVE  \/ Uneventful \/ Dispatched \/ Unadmitted
           \/ \E t \in tokens, completion \in Completion : Finished(t, completion)
    <1>1. /\ ctl \in ControllerOf("self") /\ now \in Instant /\ Paced(ctl)
          /\ hist \in History
        BY DEF IInv, TypeOK, QueueIsPaced
    <1>2. IInv'
        BY NextInvariant
    <1>3. ctl' \in ControllerOf("self") /\ now' \in Instant /\ tokens' \subseteq Token
        BY <1>2 DEF IInv, TypeOK
    <1>4. ASSUME ReserveSlot \/ DrainChanges \/ Tick \/ UNCHANGED vars
                 \/ \E r \in Reservation : CancelReservation(r)
          PROVE  Uneventful
        <2>1. tokens' = tokens /\ hist' = hist
            BY <1>4 DEF ReserveSlot, DrainChanges, Tick, vars, CancelReservation
        <2>2. now' >= now
            BY <1>1, <1>4 DEF ReserveSlot, DrainChanges, Tick, vars, CancelReservation, Call,
               Instant
        <2>3. SameLearning(ctl, ctl')
            <3>1. CASE ReserveSlot
                BY <1>1, <3>1, ReserveKeepsLearning DEF ReserveSlot, Call
            <3>2. CASE DrainChanges
                BY <1>1, <3>2 DEF DrainChanges, Call, TakeChanges, ControllerOf, SameLearning
            <3>3. CASE Tick \/ UNCHANGED vars
                BY <3>3 DEF Tick, vars, SameLearning
            <3>4. ASSUME NEW r \in Reservation, CancelReservation(r)
                  PROVE  SameLearning(ctl, ctl')
                BY <1>1, <3>4, CancelKeepsLearning DEF CancelReservation, Call
            <3> QED
                BY <1>4, <3>1, <3>2, <3>3, <3>4
        <2> QED
            BY <2>1, <2>2, <2>3 DEF Uneventful
    <1>5. ASSUME SameLearning(ctl, ctl'), tokens' = tokens, now' = now,
                 hist' = Noted(hist, ctl')
          PROVE  Uneventful
        BY <1>1, <1>3, <1>5, NotedFacts DEF Uneventful, SameLearning, Instant
    <1>6. ASSUME NEW r \in Reservation, NEW draw \in Drawn, CheckReservation(r, draw)
          PROVE  Uneventful
        <2>1. ctl' = Check(ctl, r, draw, now).ctl
            BY <1>6 DEF CheckReservation, Call
        <2>2. SameLearning(ctl, ctl')
            BY <1>1, <2>1, CheckKeepsLearning, DrawnType
        <2> QED
            BY <1>5, <1>6, <2>1, <2>2 DEF CheckReservation, Call
    <1>7. ASSUME NEW draw \in Drawn, ReadLoad(draw)
          PROVE  Uneventful
        <2>1. ctl' = Refresh(ctl, draw, now)
            BY <1>7 DEF ReadLoad, Call
        <2>2. SameLearning(ctl, ctl')
            BY <1>1, <2>1, RefreshKeepsLearning, DrawnType
        <2> QED
            BY <1>5, <1>7, <2>1, <2>2 DEF ReadLoad, Call
    <1>8. ASSUME NEW r \in Reservation, NEW draw \in Drawn, Dispatch(r, draw)
          PROVE  Uneventful \/ Dispatched
        <2> DEFINE result == OnDispatched(ctl, r, draw, now)
        <2>1. /\ ctl' = result.ctl /\ now' = now
              /\ result.answer.tag # "Ready" =>
                   tokens' = tokens /\ hist' = Noted(hist, ctl')
              /\ result.answer.tag = "Ready" =>
                   /\ tokens' = tokens \cup {result.token}
                   /\ hist' = [Noted(hist, ctl') EXCEPT
                                 !.dispatched_at = now,
                                 !.spacing = ctl'.pacer.interval,
                                 !.heard_at = IF tokens = {} THEN now ELSE @]
            BY <1>8 DEF Dispatch, Call
        <2>2. /\ ctl'.latency = ctl.latency
              /\ ctl'.gradient = ctl.gradient
              /\ ctl'.feedback_epoch = IF result.answer.tag = "Ready" /\ ctl.inflight = 0
                                       THEN NewEpoch(ctl', now) ELSE ctl.feedback_epoch
            BY <1>1, <2>1, DispatchLearns, DrawnType
        <2> HIDE DEF result
        <2>3. CASE result.answer.tag # "Ready"
            BY <1>5, <2>1, <2>2, <2>3 DEF SameLearning
        <2>4. CASE result.answer.tag = "Ready"
            <3> DEFINE noted == Noted(hist, ctl')
            <3>1. /\ noted \in History /\ noted.heard_at = hist.heard_at
                  /\ noted.moved_at = hist.moved_at
                BY <1>1, <1>3, <2>2, NotedFacts, NotedType
            <3> HIDE DEF noted
            <3>2. hist' = [noted EXCEPT !.dispatched_at = now,
                                        !.spacing = ctl'.pacer.interval,
                                        !.heard_at = IF tokens = {} THEN now ELSE @]
                BY <2>1, <2>4 DEF noted
            <3>3. /\ hist'.heard_at = IF tokens = {} THEN now ELSE hist.heard_at
                  /\ hist'.moved_at = hist.moved_at
                BY <3>1, <3>2 DEF History
            <3>4. tokens' # {}
                BY <2>1, <2>4
            <3> QED
                BY <2>1, <2>2, <2>4, <3>3, <3>4 DEF Dispatched
        <2> QED
            BY <2>3, <2>4
    <1>9. ASSUME NEW t \in tokens, NEW completion \in Completion, FinishRequest(t, completion)
          PROVE  Finished(t, completion)
        <2>1. /\ ctl' = Finish(ctl, t, completion, now) /\ now' = now
              /\ tokens' = tokens \ {t}
              /\ hist' = [Noted(hist, ctl') EXCEPT
                            !.heard_at = IF tokens = {t} THEN None
                                         ELSE IF completion = "Abandoned" THEN @ ELSE now]
            BY <1>9 DEF FinishRequest, Call
        <2>2. Learns(ctl, ctl', completion, now)
            BY <1>1, <2>1, HeldToken, FinishLearns DEF Completion
        <2> DEFINE noted == Noted(hist, ctl')
        <2>3. /\ noted \in History /\ noted.heard_at = hist.heard_at
              /\ noted.moved_at = IF ctl'.gradient.concurrency # ctl.gradient.concurrency THEN now
                                  ELSE hist.moved_at
            BY <1>1, <1>3, NotedFacts, NotedType
        <2> HIDE DEF noted
        <2>4. hist' = [noted EXCEPT
                         !.heard_at = IF tokens = {t} THEN None
                                      ELSE IF completion = "Abandoned" THEN @ ELSE now]
            BY <2>1 DEF noted
        <2>5. /\ hist'.heard_at = IF tokens = {t} THEN None
                                  ELSE IF completion = "Abandoned" THEN hist.heard_at ELSE now
              /\ hist'.moved_at = noted.moved_at
            BY <2>3, <2>4 DEF History
        <2> QED
            BY <2>1, <2>2, <2>3, <2>5 DEF Finished
    <1>10. ASSUME AdmissionFailure PROVE Unadmitted
        <2> DEFINE noted == Noted(hist, ctl')
        <2>1. /\ ctl' = OnAdmissionFailure(ctl, now) /\ now' = now /\ tokens' = tokens
              /\ hist' = [noted EXCEPT !.admission_failures = @ + 1]
            BY <1>10 DEF AdmissionFailure, Call
        <2>2. /\ ctl'.latency = ctl.latency
              /\ ctl'.feedback_epoch = ctl.feedback_epoch
              /\ ctl'.gradient.next_update_at = SaturatingAdd(now, UpdateInterval)
            BY <1>1, <2>1, OnAdmissionFailureLearns
        <2>3. /\ noted \in History /\ noted.heard_at = hist.heard_at
              /\ noted.moved_at = IF ctl'.gradient.concurrency # ctl.gradient.concurrency THEN now
                                  ELSE hist.moved_at
            BY <1>1, <1>3, NotedFacts, NotedType
        <2> HIDE DEF noted
        <2>4. hist'.heard_at = hist.heard_at /\ hist'.moved_at = noted.moved_at
            BY <2>1, <2>3 DEF History
        <2> QED
            BY <2>1, <2>2, <2>3, <2>4 DEF Unadmitted
    <1> QED
        BY <1>4, <1>6, <1>7, <1>8, <1>9, <1>10, ForeignIsRefused DEF Next

LEMMA InitSilence == Init => SilenceIsMeasured
    BY DEF Init, SilenceIsMeasured, NewController

LEMMA NextSilence ==
    ASSUME IInv, SilenceIsMeasured, [Next]_vars
    PROVE  SilenceIsMeasured'
    <1>1. ctl.inflight = 0 <=> tokens = {}
        BY FS_EmptySet DEF IInv, CapsHold
    <1>2. CASE Uneventful
        BY <1>2 DEF SilenceIsMeasured, Uneventful, SameLearning
    <1>3. CASE Dispatched
        BY <1>1, <1>3 DEF SilenceIsMeasured, Dispatched, NewEpoch
    <1>4. CASE Unadmitted
        BY <1>4 DEF SilenceIsMeasured, Unadmitted
    <1>5. ASSUME NEW t \in tokens, NEW completion \in Completion, Finished(t, completion)
          PROVE  SilenceIsMeasured'
        <2>1. ctl.inflight = 1 <=> tokens = {t}
            BY HeldToken
        <2>2. tokens' = {} <=> tokens = {t}
            BY <1>5 DEF Finished
        <2>3. CASE tokens = {t}
            BY <1>5, <2>1, <2>2, <2>3 DEF SilenceIsMeasured, Finished, Learns
        <2>4. CASE tokens # {t}
            <3>1. tokens # {}
                OBVIOUS
            <3> QED
                BY <1>5, <2>1, <2>2, <2>4, <3>1 DEF SilenceIsMeasured, Finished, Learns
        <2> QED
            BY <2>3, <2>4
    <1> QED
        BY <1>2, <1>3, <1>4, <1>5, NextLearns

\* The next healthy change is held back since the last change of the limit.
LimitIsHeld ==
    hist.moved_at # None =>
        /\ hist.moved_at <= now
        /\ ctl.gradient.next_update_at # None
        /\ ctl.gradient.next_update_at >= SaturatingAdd(hist.moved_at, UpdateInterval)

LEMMA InitHeld == Init => LimitIsHeld
    BY DEF Init, LimitIsHeld

LEMMA NextHeld ==
    ASSUME IInv, LimitIsHeld, [Next]_vars
    PROVE  LimitIsHeld'
    <1>1. /\ now \in Instant /\ now' \in Instant /\ hist.moved_at \in Instant \cup {None}
          /\ UpdateInterval \in Nat /\ None \notin Int
        BY NextInvariant, ConfigAssumption DEF IInv, TypeOK, History, UpdateInterval
    <1>2. CASE Uneventful
        BY <1>1, <1>2 DEF LimitIsHeld, Uneventful, SameLearning, Instant
    <1>3. CASE Dispatched
        BY <1>3 DEF LimitIsHeld, Dispatched
    <1>4. ASSUME ctl'.gradient.next_update_at = SaturatingAdd(now, UpdateInterval),
                 hist'.moved_at = now \/ hist'.moved_at = hist.moved_at, now' = now
          PROVE  LimitIsHeld'
        <2>1. SaturatingAdd(now, UpdateInterval) \in Instant
            BY <1>1, SaturatingAddFacts
        <2>2. hist'.moved_at # None =>
                /\ hist'.moved_at \in Instant
                /\ hist'.moved_at <= now
            BY <1>1, <1>4 DEF LimitIsHeld, Instant
        <2>3. hist'.moved_at # None =>
                SaturatingAdd(hist'.moved_at, UpdateInterval) <= SaturatingAdd(now, UpdateInterval)
            BY <1>1, <2>2, SaturatingAddMonotone
        <2>4. hist'.moved_at # None => SaturatingAdd(hist'.moved_at, UpdateInterval) \in Instant
            BY <1>1, <2>2, SaturatingAddFacts
        <2> QED
            BY <1>1, <1>4, <2>1, <2>2, <2>3, <2>4 DEF LimitIsHeld, Instant
    <1>5. CASE Unadmitted
        BY <1>4, <1>5 DEF Unadmitted
    <1>6. ASSUME NEW t \in tokens, NEW completion \in Completion, Finished(t, completion)
          PROVE  LimitIsHeld'
        <2>1. CASE ctl'.gradient = ctl.gradient
            BY <1>6, <2>1 DEF LimitIsHeld, Finished
        <2>2. CASE ctl'.gradient # ctl.gradient
            BY <1>4, <1>6, <2>2 DEF Finished, Learns
        <2> QED
            BY <2>1, <2>2
    <1> QED
        BY <1>2, <1>3, <1>5, <1>6, NextLearns

LEMMA HeldMovesSlowly ==
    ASSUME IInv, LimitIsHeld, NEW t \in tokens, FinishRequest(t, "Success"),
           ctl'.gradient.concurrency # ctl.gradient.concurrency, hist.moved_at # None
    PROVE  now >= SaturatingAdd(hist.moved_at, UpdateInterval)
    <1>1. /\ ctl \in ControllerOf("self") /\ now \in Instant
          /\ hist.moved_at \in Instant /\ UpdateInterval \in Nat
        BY ConfigAssumption DEF IInv, TypeOK, History, UpdateInterval
    <1>2. ctl' = Finish(ctl, t, "Success", now)
        BY DEF FinishRequest, Call
    <1>3. Learns(ctl, ctl', "Success", now)
        BY <1>1, <1>2, HeldToken, FinishLearns
    <1>4. ctl.gradient.next_update_at = None \/ ctl.gradient.next_update_at <= now
        BY <1>3 DEF Learns
    <1>5. ctl.gradient.next_update_at \in Instant \cup {None}
        BY <1>1 DEF ControllerOf, Limiter
    <1>6. SaturatingAdd(hist.moved_at, UpdateInterval) \in Instant
        BY <1>1, SaturatingAddFacts
    <1> QED
        BY <1>1, <1>4, <1>5, <1>6, ConfigAssumption DEF LimitIsHeld, Instant
-------------------------------------------------------------------------------
\* No reservation waits longer than the pacer asks for: what was cancelled, or
\* re-rated, or spent by others leaves no debt behind.
THEOREM NoDebtIsLeft == Spec => []NoPhantomDebt
    <1> QED
        BY InitPrompt, NextPrompt, Invariance, PTL DEF Spec

\* The clock of missing feedback runs while requests are in flight, counts from
\* what was really heard, and only an answer or the start of a busy period
\* resets it.
THEOREM SilenceIsTimed == Spec => []SilenceIsMeasured
    <1> QED
        BY InitSilence, NextSilence, Invariance, PTL DEF Spec

\* Between two healthy changes of the limit, or a failure and the next, there is
\* an update interval.
THEOREM LimitIsDamped == Spec => LimitMovesSlowly
    <1> DEFINE slow ==
            \A t \in tokens :
                /\ FinishRequest(t, "Success")
                /\ ctl'.gradient.concurrency # ctl.gradient.concurrency
                /\ hist.moved_at # None
                => now >= SaturatingAdd(hist.moved_at, UpdateInterval)
    <1>1. IInv /\ LimitIsHeld /\ [Next]_vars => LimitIsHeld'
        BY NextHeld
    <1>2. IInv /\ LimitIsHeld /\ [Next]_vars => [slow]_vars
        BY HeldMovesSlowly
    <1> QED
        BY InitHeld, <1>1, <1>2, Invariance, PTL DEF Spec, LimitMovesSlowly

\* A caller told to wait really waits: no dispatch loop spins.
THEOREM WaitsAreReal == Spec => []NoSpin
    <1>1. ASSUME IInv PROVE NoSpin
        <2>1. ctl \in ControllerOf("self") /\ now \in Instant /\ Paced(ctl)
            BY <1>1 DEF IInv, TypeOK, QueueIsPaced
        <2> QED
            BY <2>1, WaitsForLater, DrawnType DEF NoSpin
    <1> QED
        BY <1>1, Invariance, PTL

\* However readers and sleepers take turns at one instant, the first refresh
\* settles the endpoint and the others wake nobody.
THEOREM RefreshIsQuiet == Spec => []RefreshSettles
    <1>1. ASSUME IInv PROVE RefreshSettles
        <2>1. ctl \in ControllerOf("self") /\ now \in Instant /\ Paced(ctl)
            BY <1>1 DEF IInv, TypeOK, QueueIsPaced
        <2>2. ASSUME NEW first \in Drawn, NEW second \in Draw
              PROVE  Refresh(TakeChanges(Refresh(ctl, first, now)), second, now)
                       = TakeChanges(Refresh(ctl, first, now))
            <3> DEFINE c == Refresh(ctl, first, now)
                       d == TakeChanges(c)
            <3>1. /\ c \in ControllerOf("self")
                  /\ Settled(c.probe, HasDemand(c), now)
                  /\ c.pacer.interval = RateToInterval(EffectiveRate(c, now))
                  /\ Queued(c) > 0 => ~(c.pending[1].scheduled_at < NextAt(c.pacer, now))
                BY <2>1, DrawnType, RefreshIsSettled
            <3> HIDE DEF c
            <3>2. /\ d \in ControllerOf("self") /\ d.changes = NoChanges
                  /\ d.probe = c.probe /\ d.pacer = c.pacer /\ d.pending = c.pending
                  /\ d.latency = c.latency /\ d.inflight = c.inflight
                  /\ d.gradient = c.gradient /\ d.feedback_epoch = c.feedback_epoch
                BY <3>1 DEF TakeChanges, ControllerOf, Changes, NoChanges
            <3> HIDE DEF d
            <3>3. HasDemand(d) = HasDemand(c) /\ EffectiveRate(d, now) = EffectiveRate(c, now)
                BY <3>2 DEF HasDemand, Queued, EffectiveRate, BaseRate
            <3>4. Refresh(d, second, now) = d
                BY <2>1, <3>1, <3>2, <3>3, RefreshSettled DEF Queued
            <3> QED
                BY <3>4 DEF d, c
        <2> QED
            BY <2>2 DEF RefreshSettles
    <1> QED
        BY <1>1, Invariance, PTL
-------------------------------------------------------------------------------
(* The pace.                                                                   *)

\* The interval never exceeds what the policies ask for: it falls behind while
\* silence stretches, and every update catches up.
Trails == ctl.pacer.interval <= Pace(ctl, now)

\* What may make the pace quicker.
Evidence ==
    \/ \E t \in tokens : FinishRequest(t, "Success") \/ FinishRequest(t, "Failure")
    \/ tokens # {} /\ tokens' = {}
    \/ ctl'.probe.active # ctl.probe.active

LEMMA InitTrails == Init => Trails
    <1> SUFFICES ASSUME Init PROVE Trails
        OBVIOUS
    <1>1. 0 \in Instant
        BY ConfigAssumption DEF Instant
    <1>2. ctl \in ControllerOf("self")
        BY <1>1, NewControllerFacts DEF Init
    <1>3. SetsPace(ctl, now)
        BY FirstPace DEF Init
    <1>4. Pace(ctl, now) \in Nat
        BY <1>1, <1>2, PaceIsNat DEF Init
    <1> QED
        BY <1>3, <1>4 DEF Trails, SetsPace

LEMMA NextTrails ==
    ASSUME IInv, SilenceIsMeasured, Trails, [Next]_vars
    PROVE  Trails' /\ (ctl'.pacer.interval < ctl.pacer.interval => Evidence)
    <1>1. /\ ctl \in ControllerOf("self") /\ now \in Instant /\ Paced(ctl)
          /\ ctl.pacer.interval \in Nat
        BY DEF IInv, TypeOK, QueueIsPaced, ControllerOf, Pacer
    <1>2. /\ ctl' \in ControllerOf("self") /\ now' \in Instant
          /\ ctl'.pacer.interval \in Nat /\ Pace(ctl', now') \in Nat
        BY NextInvariant, PaceIsNat DEF IInv, TypeOK, ControllerOf, Pacer
    <1> DEFINE goal == Trails' /\ (ctl'.pacer.interval < ctl.pacer.interval => Evidence)
    <1>3. ASSUME now' = now, AsksNoMore(ctl, ctl'), KeepsPace(ctl, ctl') \/ SetsPace(ctl', now)
          PROVE  goal
        <2>1. /\ ctl'.pacer.interval <= Pace(ctl', now)
              /\ ctl'.probe.active = ctl.probe.active => ctl.pacer.interval <= ctl'.pacer.interval
            BY <1>1, <1>2, <1>3, PaceTrails DEF Trails
        <2> QED
            BY <1>1, <1>2, <1>3, <2>1 DEF Trails, Evidence
    <1>4. CASE ReserveSlot
        <2>1. now' = now /\ AsksNoMore(ctl, ctl') /\ KeepsPace(ctl, ctl')
            BY <1>1, <1>4, ReserveKeepsPace, ReserveKeepsLearning, SameLearningAsksNoMore
               DEF ReserveSlot, Call
        <2> QED
            BY <1>3, <2>1
    <1>5. ASSUME NEW r \in Reservation, CancelReservation(r) PROVE goal
        <2>1. now' = now /\ AsksNoMore(ctl, ctl') /\ KeepsPace(ctl, ctl')
            BY <1>1, <1>5, CancelKeepsPace, CancelKeepsLearning, SameLearningAsksNoMore
               DEF CancelReservation, Call
        <2> QED
            BY <1>3, <2>1
    <1>6. ASSUME NEW r \in Reservation, NEW draw \in Drawn, CheckReservation(r, draw)
          PROVE  goal
        <2>1. ctl' = Check(ctl, r, draw, now).ctl /\ now' = now
            BY <1>6 DEF CheckReservation, Call
        <2>2. SameLearning(ctl, ctl') /\ (KeepsPace(ctl, ctl') \/ SetsPace(ctl', now))
            BY <1>1, <2>1, CheckPaces, DrawnType
        <2> QED
            BY <1>1, <1>3, <2>1, <2>2, SameLearningAsksNoMore
    <1>7. ASSUME NEW r \in Reservation, NEW draw \in Drawn, Dispatch(r, draw)
          PROVE  goal
        <2>1. ctl' = OnDispatched(ctl, r, draw, now).ctl /\ now' = now
            BY <1>7 DEF Dispatch, Call
        <2>2. ctl.inflight = 0 => ctl.feedback_epoch = None
            BY FS_EmptySet DEF IInv, CapsHold, SilenceIsMeasured
        <2>3. /\ ctl'.pacer.interval <= Pace(ctl', now)
              /\ ctl'.probe.active = ctl.probe.active => ctl.pacer.interval <= ctl'.pacer.interval
            BY <1>1, <2>1, <2>2, DispatchPaces, DrawnType DEF Trails
        <2> QED
            BY <1>1, <1>2, <2>1, <2>3 DEF Trails, Evidence
    <1>8. ASSUME NEW t \in tokens, NEW completion \in Completion, FinishRequest(t, completion)
          PROVE  goal
        <2>1. ctl' = Finish(ctl, t, completion, now) /\ now' = now /\ tokens' = tokens \ {t}
            BY <1>8 DEF FinishRequest, Call
        <2>2. /\ SetsPace(ctl', now)
              /\ completion = "Abandoned" /\ ctl.inflight # 1 => AsksNoMore(ctl, ctl')
            BY <1>1, <2>1, HeldToken, FinishPaces DEF Completion
        <2>3. CASE completion = "Abandoned" /\ ctl.inflight # 1
            BY <1>3, <2>1, <2>2, <2>3
        <2>4. CASE completion = "Abandoned" /\ ctl.inflight = 1
            <3>1. tokens # {} /\ tokens' = {}
                BY <2>1, <2>4, HeldToken
            <3> QED
                BY <1>2, <2>1, <2>2, <3>1 DEF SetsPace, Trails, Evidence
        <2>5. CASE completion # "Abandoned"
            <3>1. FinishRequest(t, "Success") \/ FinishRequest(t, "Failure")
                BY <1>8, <2>5 DEF Completion
            <3>2. Evidence
                BY <3>1 DEF Evidence
            <3> QED
                BY <1>2, <2>1, <2>2, <3>2 DEF SetsPace, Trails
        <2> QED
            BY <2>3, <2>4, <2>5
    <1>9. CASE AdmissionFailure
        <2>1. ctl' = OnAdmissionFailure(ctl, now) /\ now' = now
            BY <1>9 DEF AdmissionFailure, Call
        <2> QED
            BY <1>1, <1>3, <2>1, OnAdmissionFailurePaces
    <1>10. ASSUME NEW draw \in Drawn, ReadLoad(draw) PROVE goal
        <2>1. ctl' = Refresh(ctl, draw, now) /\ now' = now
            BY <1>10 DEF ReadLoad, Call
        <2>2. SetsPace(ctl', now) /\ SameLearning(ctl, ctl')
            BY <1>1, <2>1, RefreshSetsPace, RefreshKeepsLearning, DrawnType
        <2> QED
            BY <1>1, <1>3, <2>1, <2>2, SameLearningAsksNoMore
    <1>11. CASE DrainChanges
        <2>1. now' = now /\ SameLearning(ctl, ctl') /\ KeepsPace(ctl, ctl')
            BY <1>1, <1>11 DEF DrainChanges, Call, TakeChanges, ControllerOf, SameLearning,
               KeepsPace
        <2> QED
            BY <1>1, <1>3, <2>1, SameLearningAsksNoMore
    <1>12. CASE Tick
        <2>1. ctl' = ctl /\ now <= now'
            BY <1>1, <1>12 DEF Tick, Instant
        <2>2. AsksNoMore(ctl, ctl)
            BY <1>1, SameLearningAsksNoMore DEF SameLearning
        <2>3. Pace(ctl, now) <= Pace(ctl, now') /\ Pace(ctl, now) \in Nat
            BY <1>1, <1>2, <2>1, <2>2, PaceSlows, PaceIsNat
        <2> QED
            BY <1>1, <1>2, <2>1, <2>3 DEF Trails
    <1>13. CASE UNCHANGED vars
        BY <1>1, <1>13 DEF vars, Trails
    <1> QED
        BY <1>4, <1>5, <1>6, <1>7, <1>8, <1>9, <1>10, <1>11, <1>12, <1>13, ForeignIsRefused DEF Next

\* Nothing but a response, the end of the last request in flight or a change of
\* probe makes the pace quicker: not silence, however it stretches, nor a
\* cancellation, a failed transport, an abandoned request or a reader.
THEOREM PaceNeedsEvidence == Spec => FasterOnlyOnEvidence
    <1> DEFINE evident == ctl'.pacer.interval < ctl.pacer.interval =>
            \/ \E t \in tokens : FinishRequest(t, "Success") \/ FinishRequest(t, "Failure")
            \/ tokens # {} /\ tokens' = {}
            \/ ctl'.probe.active # ctl.probe.active
    <1>1. IInv /\ SilenceIsMeasured /\ Trails /\ [Next]_vars => Trails'
        BY NextTrails
    <1>2. IInv /\ SilenceIsMeasured /\ Trails /\ [Next]_vars => [evident]_vars
        BY NextTrails DEF Evidence
    <1> QED
        BY InitTrails, <1>1, <1>2, Invariance, SilenceIsTimed, PTL DEF Spec, FasterOnlyOnEvidence
-------------------------------------------------------------------------------
(* The endpoint implements BoundedDispatch: under the mapping of Promise every *)
(* step is a step of the abstract dispatcher or leaves it as it is.            *)

\* The state of the abstract dispatcher.
Line == [i \in 1 .. Queued(ctl) |-> ctl.pending[i].id]
Running == {t.id : t \in tokens}
Past == 0 .. ctl.next_id - 1

LEMMA LineFacts ==
    ASSUME ctl \in ControllerOf("self")
    PROVE  /\ Line \in Seq(Nat)
           /\ Len(Line) = Queued(ctl)
           /\ Queued(ctl) \in Nat
           /\ \A i \in 1 .. Queued(ctl) : Line[i] = ctl.pending[i].id
    <1>1. Queued(ctl) \in Nat
        BY DEF ControllerOf, Queued
    <1>2. ASSUME NEW i \in 1 .. Queued(ctl) PROVE ctl.pending[i].id \in Nat
        <2>1. ctl.pending[i] \in Pending
            BY DEF ControllerOf, Queued
        <2> QED
            BY <2>1 DEF Pending
    <1>3. Line \in [1 .. Queued(ctl) -> Nat]
        BY <1>2 DEF Line
    <1> QED
        BY <1>1, <1>3, FunctionIsSeq DEF Line

\* A call that keeps the queue and the tokens is invisible above.
LEMMA Stutter ==
    ASSUME IInv, IInv', KeepsQueue(ctl, ctl'), tokens' = tokens
    PROVE  UNCHANGED <<Line, Running, Past>>
    <1>1. Queued(ctl') = Queued(ctl) /\ ctl'.next_id = ctl.next_id
        BY DEF KeepsQueue
    <1>2. Line' = Line
        BY <1>1 DEF Line, KeepsQueue
    <1> QED
        BY <1>1, <1>2 DEF Running, Past

LEMMA ReserveAdmits ==
    ASSUME IInv, IInv', ReserveSlot
    PROVE  \/ UNCHANGED <<Line, Running, Past>>
           \/ \E r \in 0 .. MaxId - 1 : Promise!Admit(r)
    <1>1. /\ ctl \in ControllerOf("self") /\ ctl' \in ControllerOf("self")
          /\ now \in Instant /\ Paced(ctl)
        BY DEF IInv, TypeOK, QueueIsPaced
    <1>2. ctl' = Reserve(ctl, now) /\ tokens' = tokens
        BY DEF ReserveSlot, Call
    <1>3. \/ ctl' = ctl
          \/ /\ MaySchedule(ctl)
             /\ Queued(ctl') = Queued(ctl) + 1
             /\ \A i \in 1 .. Queued(ctl) : ctl'.pending[i].id = ctl.pending[i].id
             /\ ctl'.pending[Queued(ctl')].id = ctl.next_id
             /\ ctl'.next_id = ctl.next_id + 1
        BY <1>1, <1>2, ReserveFacts
    <1>4. CASE ctl' = ctl
        BY <1>2, <1>4 DEF Line, Running, Past
    <1>5. CASE ctl' # ctl
        <2> DEFINE n == Queued(ctl)
        <2>1. PICK r \in 0 .. MaxId - 1 : r = ctl.next_id
            BY <1>1, <1>3, <1>5, ControllerAssumption DEF ControllerOf
        <2>2. /\ Line \in Seq(Nat) /\ Len(Line) = n /\ n \in Nat
              /\ \A i \in 1 .. n : Line[i] = ctl.pending[i].id
            BY <1>1, LineFacts
        <2>3. /\ Line' \in Seq(Nat) /\ Len(Line') = n + 1
              /\ \A i \in 1 .. n + 1 : Line'[i] = ctl'.pending[i].id
            <3>1. Queued(ctl') = n + 1
                BY <1>3, <1>5
            <3>2. Line' = [i \in 1 .. n + 1 |-> ctl'.pending[i].id]
                BY <3>1 DEF Line
            <3>3. ASSUME NEW i \in 1 .. n + 1 PROVE ctl'.pending[i].id \in Nat
                <4>1. ctl'.pending[i] \in Pending
                    BY <1>1, <3>1 DEF ControllerOf, Queued
                <4> QED
                    BY <4>1 DEF Pending
            <3> HIDE DEF n
            <3>4. Line' \in [1 .. n + 1 -> Nat] /\ n + 1 \in Nat
                BY <2>2, <3>2, <3>3
            <3> QED
                BY <3>2, <3>4, FunctionIsSeq
        <2>4. Line' = Append(Line, r)
            <3> HIDE DEF n
            <3>1. /\ Append(Line, r) \in Seq(Nat) /\ Len(Append(Line, r)) = n + 1
                  /\ \A i \in 1 .. n : Append(Line, r)[i] = Line[i]
                  /\ Append(Line, r)[n + 1] = r
                BY <2>2
            <3>2. ASSUME NEW i \in 1 .. n + 1
                  PROVE  Line'[i] = Append(Line, r)[i]
                <4>1. i \in 1 .. n \/ i = n + 1
                    BY <2>2
                <4> QED
                    BY <1>3, <1>5, <2>1, <2>2, <2>3, <3>1, <4>1 DEF n
            <3> QED
                BY <2>3, <3>1, <3>2, SeqEqual
        <2>5. r \notin Past /\ Past' = Past \cup {r} /\ \A q \in Past : q < r
            BY <1>3, <1>5, <2>1 DEF Past
        <2>6. Len(Line) < QueueCapacity
            BY <1>3, <1>5, <2>2 DEF MaySchedule
        <2>7. Running' = Running
            BY <1>2 DEF Running
        <2>8. Promise!Admit(r)
            BY <2>4, <2>5, <2>6, <2>7 DEF Promise!Admit, Line, Running, Past
        <2> QED
            BY <2>1, <2>8
    <1> QED
        BY <1>4, <1>5

LEMMA CancelWithdraws ==
    ASSUME IInv, IInv', NEW r \in Reservation, CancelReservation(r)
    PROVE  \/ UNCHANGED <<Line, Running, Past>>
           \/ \E i \in 1 .. Len(Line) : Promise!Withdraw(i)
    <1>1. /\ ctl \in ControllerOf("self") /\ ctl' \in ControllerOf("self")
          /\ now \in Instant /\ Paced(ctl)
        BY DEF IInv, TypeOK, QueueIsPaced
    <1>2. ctl' = Cancel(ctl, r, now) /\ tokens' = tokens
        BY DEF CancelReservation, Call
    <1>3. /\ ctl'.next_id = ctl.next_id
          /\ \/ ctl' = ctl
             \/ \E p \in 1 .. Queued(ctl) :
                   /\ Queued(ctl') = Queued(ctl) - 1
                   /\ \A i \in 1 .. Queued(ctl') :
                         ctl'.pending[i].id = ctl.pending[IF i < p THEN i ELSE i + 1].id
        BY <1>1, <1>2, CancelFacts
    <1>4. CASE ctl' = ctl
        BY <1>2, <1>4 DEF Line, Running, Past
    <1>5. CASE ctl' # ctl
        <2> DEFINE n == Queued(ctl)
                   old(i, p) == IF i < p THEN i ELSE i + 1
        <2>1. PICK p \in 1 .. n :
                 /\ Queued(ctl') = n - 1
                 /\ \A i \in 1 .. n - 1 : ctl'.pending[i].id = ctl.pending[old(i, p)].id
            BY <1>3, <1>5
        <2>2. /\ Line \in Seq(Nat) /\ Len(Line) = n /\ n \in Nat
              /\ \A i \in 1 .. n : Line[i] = ctl.pending[i].id
            BY <1>1, LineFacts
        <2>3. /\ RemoveAt(Line, p) \in Seq(Nat)
              /\ Len(RemoveAt(Line, p)) = n - 1
              /\ \A i \in 1 .. n - 1 : RemoveAt(Line, p)[i] = Line[old(i, p)]
            <3>1. p \in 1 .. Len(Line)
                BY <2>1, <2>2
            <3> HIDE DEF n
            <3> QED
                BY <2>2, <3>1, RemoveAtFacts
        <2>4. Line' = [i \in 1 .. n - 1 |-> ctl'.pending[i].id]
            BY <2>1 DEF Line
        <2>5. \A i \in 1 .. n - 1 : old(i, p) \in 1 .. n
            BY <2>1, <2>2
        <2> HIDE DEF n, old
        <2>6. \A i \in 1 .. n - 1 : ctl'.pending[i].id = RemoveAt(Line, p)[i]
            BY <2>1, <2>2, <2>3, <2>5
        <2>7. n - 1 \in Nat
            BY <2>1, <2>2
        <2>8. Line' = RemoveAt(Line, p)
            BY <2>3, <2>4, <2>6, <2>7
        <2>9. Running' = Running /\ Past' = Past
            BY <1>2, <1>3 DEF Running, Past
        <2>10. Promise!Withdraw(p)
            <3>1. Promise!RemoveAt(Line, p) = RemoveAt(Line, p)
                BY DEF Promise!RemoveAt, RemoveAt
            <3> QED
                BY <2>8, <2>9, <3>1 DEF Promise!Withdraw, Line, Running, Past
        <2> QED
            BY <2>1, <2>2, <2>10
    <1> QED
        BY <1>4, <1>5

LEMMA DispatchLetsThrough ==
    ASSUME IInv, IInv', NEW r \in Reservation, NEW draw \in Drawn, Dispatch(r, draw)
    PROVE  UNCHANGED <<Line, Running, Past>> \/ Promise!LetThrough
    <1> DEFINE result == OnDispatched(ctl, r, draw, now)
               token == result.token
               n == Queued(ctl)
    <1>1. /\ ctl \in ControllerOf("self") /\ ctl' \in ControllerOf("self")
          /\ now \in Instant /\ Paced(ctl) /\ draw \in Draw
        BY DrawnType DEF IInv, TypeOK, QueueIsPaced
    <1>2. /\ result.answer.tag # "Ready" => KeepsQueue(ctl, result.ctl)
          /\ result.answer.tag = "Ready" =>
               /\ n > 0 /\ ctl.inflight < MaxInflight
               /\ Queued(result.ctl) = n - 1
               /\ \A i \in 1 .. n - 1 : result.ctl.pending[i].id = ctl.pending[i + 1].id
               /\ result.ctl.next_id = ctl.next_id
               /\ token.id = ctl.pending[1].id
        BY <1>1, OnDispatchedFacts
    <1>3. /\ ctl' = result.ctl
          /\ result.answer.tag # "Ready" => tokens' = tokens
          /\ result.answer.tag = "Ready" => tokens' = tokens \cup {token}
        BY DEF Dispatch, Call
    <1> HIDE DEF result, token
    <1>4. CASE result.answer.tag # "Ready"
        BY <1>2, <1>3, <1>4, Stutter
    <1>5. CASE result.answer.tag = "Ready"
        <2>1. /\ Line \in Seq(Nat) /\ Len(Line) = n /\ n \in Nat
              /\ \A i \in 1 .. n : Line[i] = ctl.pending[i].id
            BY <1>1, LineFacts
        <2>2. n > 0 /\ Line # << >> /\ 1 \in 1 .. n
            BY <1>2, <1>5, <2>1
        <2>3. Line' = [i \in 1 .. n - 1 |-> ctl.pending[i + 1].id]
            <3>1. Line' = [i \in 1 .. n - 1 |-> ctl'.pending[i].id]
                BY <1>2, <1>3, <1>5 DEF Line
            <3> HIDE DEF n
            <3> QED
                BY <1>2, <1>3, <1>5, <3>1
        <2> HIDE DEF n
        <2>4. /\ Tail(Line) \in Seq(Nat) /\ Len(Tail(Line)) = n - 1
              /\ \A i \in 1 .. n - 1 : Tail(Line)[i] = Line[i + 1]
            BY <2>1, <2>2, HeadTailProperties
        <2>5. Line' = Tail(Line)
            <3>1. \A i \in 1 .. n - 1 : i + 1 \in 1 .. n
                BY <2>1
            <3>2. \A i \in 1 .. n - 1 : Tail(Line)[i] = ctl.pending[i + 1].id
                BY <2>1, <2>4, <3>1
            <3>3. n - 1 \in Nat
                BY <2>1, <2>2
            <3>4. \A i \in 1 .. n - 1 : ctl.pending[i + 1].id \in Nat
                BY <2>1, <3>1
            <3>5. Line' \in [1 .. n - 1 -> Nat]
                BY <2>3, <3>4
            <3>6. Line' \in Seq(Nat) /\ Len(Line') = n - 1
                BY <3>3, <3>5, FunctionIsSeq
            <3>7. \A i \in 1 .. n - 1 : Line'[i] = Tail(Line)[i]
                BY <2>3, <3>2
            <3> QED
                BY <2>4, <3>6, <3>7, SeqEqual
        <2>6. Running' = Running \cup {Head(Line)}
            <3>1. Head(Line) = token.id
                BY <1>2, <1>5, <2>1, <2>2
            <3> QED
                BY <1>3, <1>5, <3>1 DEF Running
        <2>7. Cardinality(Running) < MaxInflight
            <3> DEFINE f == [t \in tokens |-> t.id]
            <3>1. f \in Surjection(tokens, Running)
                BY DEF Surjection, Running
            <3>2. IsFiniteSet(tokens) /\ ctl.inflight = Cardinality(tokens)
                BY DEF IInv, CapsHold
            <3>3. IsFiniteSet(Running) /\ Cardinality(Running) <= Cardinality(tokens)
                BY <3>1, <3>2, FS_Surjection
            <3>4. Cardinality(Running) \in Nat /\ Cardinality(tokens) \in Nat
                BY <3>2, <3>3, FS_CardinalityType
            <3> QED
                BY <1>2, <1>5, <3>2, <3>3, <3>4, ConfigAssumption
        <2>8. Past' = Past
            BY <1>2, <1>3, <1>5 DEF Past
        <2>9. Promise!LetThrough
            <3>1. Promise!Cardinality(Running) = Cardinality(Running)
                BY DEF Promise!Cardinality, Cardinality
            <3> QED
                BY <2>2, <2>5, <2>6, <2>7, <2>8, <3>1
                DEF Promise!LetThrough, Line, Running, Past
        <2> QED
            BY <2>9
    <1> QED
        BY <1>4, <1>5

LEMMA FinishEnds ==
    ASSUME IInv, IInv', NEW t \in tokens, NEW completion \in Completion,
           FinishRequest(t, completion)
    PROVE  \E id \in Running : Promise!End(id)
    <1> DEFINE counted == [ctl EXCEPT !.inflight = @ - 1]
    <1>1. /\ ctl \in ControllerOf("self") /\ now \in Instant
          /\ tokens \subseteq Token /\ Paced(ctl)
        BY DEF IInv, TypeOK, QueueIsPaced
    <1>2. Owns(ctl, t) /\ t.dispatched_at \in Instant /\ t.was_paced \in BOOLEAN
        BY <1>1 DEF Owns, Token, ControllerOf
    <1>3. ctl.inflight > 0
        <2>1. /\ Cardinality(tokens \ {t}) = Cardinality(tokens) - 1
              /\ Cardinality(tokens) \in Nat /\ Cardinality(tokens \ {t}) \in Nat
            BY FS_RemoveElement, FS_CardinalityType DEF IInv
        <2> QED
            BY <2>1 DEF IInv, CapsHold
    <1>4. ctl' = Finish(ctl, t, completion, now) /\ tokens' = tokens \ {t}
        BY DEF FinishRequest, Call
    <1>5. KeepsQueue(counted, ctl')
        BY <1>1, <1>2, <1>3, <1>4, FinishFacts DEF Completion
    <1>6. /\ Queued(ctl') = Queued(ctl)
          /\ \A i \in 1 .. Queued(ctl) : ctl'.pending[i].id = ctl.pending[i].id
          /\ ctl'.next_id = ctl.next_id
        BY <1>1, <1>5 DEF KeepsQueue, ControllerOf, Queued
    <1>7. Line' = Line
        BY <1>6 DEF Line
    <1>8. Past' = Past
        BY <1>6 DEF Past
    <1>9. Running' = Running \ {t.id}
        BY <1>4 DEF Running, IInv, QueueInOrder
    <1>10. t.id \in Running
        BY DEF Running
    <1>11. Promise!End(t.id)
        BY <1>7, <1>8, <1>9 DEF Promise!End, Line, Running, Past
    <1> QED
        BY <1>10, <1>11

LEMMA NextKeepsPromise ==
    ASSUME IInv, IInv', [Next]_vars
    PROVE  [Promise!Next]_(Promise!vars)
    <1> DEFINE same == UNCHANGED <<Line, Running, Past>>
    <1>1. same => UNCHANGED Promise!vars
        BY DEF Promise!vars, Line, Running, Past
    <1> HIDE DEF same
    <1>3. CASE ReserveSlot
        BY <1>1, <1>3, ReserveAdmits DEF Promise!Next, same
    <1>4. ASSUME NEW r \in Reservation, CancelReservation(r)
          PROVE  same \/ Promise!Next
        BY <1>4, CancelWithdraws DEF Promise!Next, same, Line
    <1>5. ASSUME NEW r \in Reservation, NEW draw \in Drawn, CheckReservation(r, draw)
          PROVE  same
        <2>1. ctl \in ControllerOf("self") /\ now \in Instant /\ Paced(ctl) /\ draw \in Draw
            BY DrawnType DEF IInv, TypeOK, QueueIsPaced
        <2>2. ctl' = Check(ctl, r, draw, now).ctl /\ tokens' = tokens
            BY <1>5 DEF CheckReservation, Call
        <2> QED
            BY <2>1, <2>2, CheckFacts, Stutter DEF same
    <1>6. ASSUME NEW r \in Reservation, NEW draw \in Drawn, Dispatch(r, draw)
          PROVE  same \/ Promise!Next
        BY <1>6, DispatchLetsThrough DEF Promise!Next, same
    <1>7. ASSUME NEW t \in tokens, NEW completion \in Completion, FinishRequest(t, completion)
          PROVE  Promise!Next
        BY <1>7, FinishEnds DEF Promise!Next, Running
    <1>8. CASE AdmissionFailure
        <2>1. ctl \in ControllerOf("self") /\ now \in Instant /\ Paced(ctl)
            BY DEF IInv, TypeOK, QueueIsPaced
        <2>2. ctl' = OnAdmissionFailure(ctl, now) /\ tokens' = tokens
            BY <1>8 DEF AdmissionFailure, Call
        <2> QED
            BY <1>1, <2>1, <2>2, OnAdmissionFailureFacts, Stutter DEF same
    <1>9. ASSUME NEW draw \in Drawn, ReadLoad(draw)
          PROVE  same
        <2>1. ctl \in ControllerOf("self") /\ now \in Instant /\ Paced(ctl) /\ draw \in Draw
            BY DrawnType DEF IInv, TypeOK, QueueIsPaced
        <2>2. ctl' = Refresh(ctl, draw, now) /\ tokens' = tokens
            BY <1>9 DEF ReadLoad, Call
        <2> QED
            BY <2>1, <2>2, RefreshFacts, Stutter DEF same
    <1>10. CASE DrainChanges
        <2>1. ctl' = TakeChanges(ctl) /\ tokens' = tokens
            BY <1>10 DEF DrainChanges, Call
        <2>2. KeepsQueue(ctl, ctl')
            BY <2>1 DEF TakeChanges, KeepsQueue, Queued, IInv, TypeOK, ControllerOf
        <2> QED
            BY <1>1, <2>1, <2>2, Stutter DEF same
    <1>11. CASE Tick
        BY <1>1, <1>11 DEF Tick, same, Line, Running, Past
    <1>12. CASE UNCHANGED vars
        BY <1>1, <1>12 DEF vars, same, Line, Running, Past
    <1> QED
        BY <1>1, <1>3, <1>4, <1>5, <1>6, <1>7, <1>8, <1>9, <1>10, <1>11, <1>12, ForeignIsRefused DEF Next

LEMMA InitKeepsPromise == Init => Promise!Init
    <1> SUFFICES ASSUME Init PROVE Promise!Init
        OBVIOUS
    <1>1. Queued(ctl) = 0 /\ ctl.next_id = 0
        BY ConfigAssumption, NewControllerFacts DEF Init, Instant
    <1>2. Line = << >>
        BY <1>1 DEF Line
    <1>3. Running = {} /\ Past = {}
        BY <1>1 DEF Running, Past, Init
    <1> QED
        BY <1>2, <1>3 DEF Promise!Init, Line, Running, Past

\* The endpoint is a bounded first-come first-served dispatcher: whatever the
\* pacer, the probes, the estimates and the clock do, a caller sees requests
\* that wait in order, leave from the front, and never exceed either cap.
THEOREM PromiseIsKept == Spec => KeepsPromise
    <1>1. IInv /\ IInv' /\ [Next]_vars => [Promise!Next]_(Promise!vars)
        BY NextKeepsPromise
    <1> QED
        BY <1>1, InitKeepsPromise, Invariance, PTL DEF Spec, KeepsPromise, Promise!Spec
===============================================================================
