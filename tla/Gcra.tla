--------------------------------- MODULE Gcra ---------------------------------
(* The single-rate pacer: `tat` is the instant from which the next request may *)
(* be dispatched, `interval` the spacing the current rate asks for.            *)
EXTENDS EndpointConfig

Pacer == [interval : Nat \ {0}, tat : Instant]

\* A spacing below the clock's resolution is one tick, as in the code it is one
\* nanosecond.
RateToInterval(rate) == Later(Nearest(rate.den, rate.num), 1)

NewPacer(rate, now) == [interval |-> RateToInterval(rate), tat |-> now]

NextAt(pacer, now) == Later(pacer.tat, now)

\* A slip: a new rate forgets the wait that is left.
SetRateForgetful(pacer, rate, now) ==
    IF RateToInterval(rate) = pacer.interval THEN pacer
    ELSE [interval |-> RateToInterval(rate), tat |-> now]

\* A new interval stretches or shrinks what remains of the wait in proportion;
\* an interval that rounds to the present one changes nothing.
SetRate(pacer, rate, now) ==
    LET interval == RateToInterval(rate)
        remaining == Nearest(Since(pacer.tat, now) * interval, pacer.interval)
    IN IF interval = pacer.interval
       THEN pacer
       ELSE [interval |-> interval, tat |-> SaturatingAdd(now, remaining)]

\* A slip: slots missed while idle may be made up for in a burst.
CommitFromTat(pacer, at) ==
    [pacer EXCEPT !.tat = SaturatingAdd(@, pacer.interval)]

\* Only a real dispatch moves the committed TAT; a late one moves it from the
\* instant of the dispatch, so missed slots are not made up for.
Commit(pacer, at) ==
    [pacer EXCEPT !.tat = SaturatingAdd(NextAt(pacer, at), pacer.interval)]
===============================================================================
