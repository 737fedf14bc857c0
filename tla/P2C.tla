---------------------------------- MODULE P2C ----------------------------------
(* The choice between two sampled endpoints.                                   *)
EXTENDS Controller

\* A slip: ties go to the second candidate.
SelectSecondOnTie(a, b, now) ==
    LET prefers_first == PredictedCompletion(a, now) < PredictedCompletion(b, now)
    IN IF CanReserve(a) /\ (prefers_first \/ ~CanReserve(b))
       THEN [first |-> Reserve(a, now), second |-> b, choice |-> "First"]
       ELSE [first |-> a, second |-> Reserve(b, now),
             choice |-> IF CanReserve(b) THEN "Second" ELSE "Neither"]

\* The cheaper endpoint is asked first and the other one only if it refuses; a
\* tie goes to the first.  The loads are both measured from `now`, so comparing
\* them is comparing the predicted instants.
Select(a, b, now) ==
    LET prefers_first == PredictedCompletion(a, now) <= PredictedCompletion(b, now)
    IN IF CanReserve(a) /\ (prefers_first \/ ~CanReserve(b))
       THEN [first |-> Reserve(a, now), second |-> b, choice |-> "First"]
       ELSE [first |-> a, second |-> Reserve(b, now),
             choice |-> IF CanReserve(b) THEN "Second" ELSE "Neither"]

\* Both loads are refreshed, whoever is chosen.
ReservePair(first, second, draws, now) ==
    Select(Refresh(first, draws[1], now), Refresh(second, draws[2], now), now)
===============================================================================
