--------------------------------- MODULE Probe ---------------------------------
(* Short perturbations of the rate, at most one at a time.  The random source  *)
(* is the parameter `draw`: the kind drawn, "none" included, and the delay to  *)
(* the next decision.                                                          *)
EXTENDS EndpointConfig

CONSTANTS
    ProbeDuration,      \* ProbeSchedule.duration
    MinProbeInterval,   \* ProbeSchedule.min_interval
    MaxProbeInterval,   \* ProbeSchedule.max_interval
    PositiveRateDelta,  \* positive_rate_delta, hundredths of a request per tick
    ProbeKinds          \* the kinds whose probability is not zero

\* What ProbeSchedule::validate asserts.
ASSUME ProbeAssumption ==
    /\ ProbeDuration \in Nat \ {0}
    /\ MinProbeInterval \in Nat \ {0}
    /\ MaxProbeInterval \in Nat
    /\ MinProbeInterval <= MaxProbeInterval
    /\ PositiveRateDelta \in Nat \ {0}
    /\ ProbeKinds \subseteq {"Positive", "Negative"}

Draw == [kind : ProbeKinds \cup {"none"},
         interval : MinProbeInterval .. MaxProbeInterval]

ActiveProbe == [kind : {"Positive", "Negative"}, until : Instant]

Probing == [active : ActiveProbe \cup {None}, next_probe_at : Instant \cup {None}]

NewProbe == [active |-> None, next_probe_at |-> None]

\* A slip: the probe outlives its last instant.
ExpireLate(probe, now) ==
    IF probe.active # None /\ probe.active.until < now
    THEN [probe EXCEPT !.active = None]
    ELSE probe

\* A probe ends at its `until`, whoever looks first.
Expire(probe, now) ==
    IF probe.active # None /\ probe.active.until <= now
    THEN [probe EXCEPT !.active = None]
    ELSE probe

\* base + delta, base * 0.8, or base
PerturbedRate(probe, base) ==
    CASE probe.active = None -> base
      [] probe.active # None /\ probe.active.kind = "Positive" ->
           [num |-> ONE * base.num + PositiveRateDelta * base.den,
            den |-> ONE * base.den]
      [] probe.active # None /\ probe.active.kind = "Negative" ->
           [num |-> 4 * base.num, den |-> 5 * base.den]

\* A slip: the schedule is not consulted.
MaybeStartUngated(probe, draw, now) ==
    LET current == Expire(probe, now)
    IN IF current.active # None \/ draw.kind = "none" THEN current
       ELSE [active |-> [kind |-> draw.kind, until |-> SaturatingAdd(now, ProbeDuration)],
             next_probe_at |-> SaturatingAdd(now, draw.interval)]

\* A decision falls due once per interval and never while a probe is active.
MaybeStart(probe, draw, now) ==
    LET current == Expire(probe, now)
        due_at == IF current.next_probe_at = None THEN now ELSE current.next_probe_at
        started == IF draw.kind = "none" THEN None
                   ELSE [kind |-> draw.kind, until |-> SaturatingAdd(now, ProbeDuration)]
    IN IF current.active # None THEN current
       ELSE IF due_at > now THEN current
       ELSE [active |-> started, next_probe_at |-> SaturatingAdd(now, draw.interval)]
===============================================================================
