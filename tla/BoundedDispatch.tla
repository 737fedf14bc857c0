---------------------------- MODULE BoundedDispatch ----------------------------
(* What an endpoint promises its callers, without clocks, rates or estimates:  *)
(* a waiting line of bounded length that requests leave from the front, or     *)
(* from anywhere when their caller gives up, and a bounded set of requests     *)
(* that were let through and have not ended.  A request enters each once.      *)
EXTENDS SequencesExt, Integers

CONSTANTS
    Request,    \* the identities a request can be given, in order
    Places,     \* length of the waiting line
    Lanes       \* requests that may run at once

VARIABLES
    line,       \* the requests that wait, first come first
    running,    \* the requests that were let through
    past        \* every identity ever given out

vars == <<line, running, past>>

Init ==
    /\ line = <<>>
    /\ running = {}
    /\ past = {}

\* A newcomer joins the end of the line if it is not full.
Admit(r) ==
    /\ r \notin past
    /\ \A q \in past : q < r
    /\ Len(line) < Places
    /\ line' = Append(line, r)
    /\ past' = past \cup {r}
    /\ UNCHANGED running

Withdraw(i) ==
    /\ line' = RemoveAt(line, i)
    /\ UNCHANGED <<running, past>>

\* Only the first in line is let through, and only while a lane is free.
LetThrough ==
    /\ line # <<>>
    /\ Cardinality(running) < Lanes
    /\ running' = running \cup {Head(line)}
    /\ line' = Tail(line)
    /\ UNCHANGED past

End(r) ==
    /\ running' = running \ {r}
    /\ UNCHANGED <<line, past>>

Next ==
    \/ \E r \in Request : Admit(r)
    \/ \E i \in 1 .. Len(line) : Withdraw(i)
    \/ LetThrough
    \/ \E r \in running : End(r)

Spec == Init /\ [][Next]_vars
===============================================================================
