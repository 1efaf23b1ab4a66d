------------------------------ MODULE EventLog ------------------------------
(***************************************************************************)
(* What the system promises to the callers of IProtocolExecutor: one log   *)
(* of events that only grows, and calls that are answered from it.  A call *)
(* may fail at any time, and the event of a failed sendEvent may still     *)
(* enter the log later; but "true" means saved, a number of events is one  *)
(* the log had while the call ran, and a range of events is a range of the *)
(* log.                                                                    *)
(***************************************************************************)
EXTENDS Naturals, Sequences

CONSTANT NoAnswer   \* what a failed call returns

VARIABLES
    log,        \* the saved events
    inTransit,  \* events that were submitted and may still be saved
    open        \* the calls that have not returned

logVars == <<log, inTransit, open>>

Undecided == [decided |-> FALSE]
Decision(answer) == [decided |-> TRUE, answer |-> answer]

Submission(call) ==
    [from |-> call.from, pn |-> call.pn, size |-> call.request.size]

\* The events first..last, counted from 0, of the first n events of the log.
Slice(first, last, n) ==
    SubSeq(log, first + 1, IF last < n THEN last + 1 ELSE n)

\* What a call that began when the log had `since' events may return now.
Allowed(call, answer) ==
    \/ answer = NoAnswer
    \/ /\ call.request.op = "send"
       /\ \E k \in 1..Len(log) : log[k] = Submission(call)
    \/ /\ call.request.op = "number"
       /\ answer.number \in call.since..Len(log)
    \/ /\ call.request.op \in {"range", "row"}
       /\ \E n \in call.since..Len(log) :
            answer.events = Slice(call.request.first, call.request.last, n)

Init == log = <<>> /\ inTransit = {} /\ open = {}

\* A call begins; without a connection it has failed already.
Begin(call) ==
    /\ \/ call.outcome = Undecided /\ call.since = Len(log)
       \/ call.outcome = Decision(NoAnswer)
    /\ \A other \in open : <<other.from, other.pn>> # <<call.from, call.pn>>
    /\ open' = open \cup {call}
    /\ inTransit' \in {inTransit} \cup IF call.request.op = "send"
                                       THEN {inTransit \cup {Submission(call)}}
                                       ELSE {}
    /\ UNCHANGED log

Save(event) ==
    /\ event \in inTransit
    /\ log' = Append(log, event)
    /\ inTransit' = inTransit \ {event}
    /\ UNCHANGED open

Lose ==
    /\ inTransit' \subseteq inTransit
    /\ UNCHANGED <<log, open>>

Decide(call, outcome) ==
    /\ call \in open
    /\ ~call.outcome.decided
    /\ open' = (open \ {call}) \cup {[call EXCEPT !.outcome = outcome]}
    /\ outcome.decided /\ Allowed(call, outcome.answer)
    /\ UNCHANGED <<log, inTransit>>

End(call) ==
    /\ call \in open
    /\ call.outcome.decided
    /\ open' = open \ {call}
    /\ UNCHANGED <<log, inTransit>>

\* The call and the outcome of a step are read off the next state.
Next ==
    \/ \E call \in open' \ open : Begin(call)
    \/ \E event \in inTransit : Save(event)
    \/ Lose
    \/ \E call \in open, after \in open' : Decide(call, after.outcome)
    \/ \E call \in open : End(call)

Spec == Init /\ [][Next]_logVars
==============================================================================
