-------------------------- MODULE MCChallengeSystem --------------------------
(* Small instances of ChallengeSystem for TLC: c1 writes, c2 browses.      *)
EXTENDS ChallengeSystem, TLC

CONSTANTS c1, c2

MCNone == {}
MCBoth == Connection
MCWriter == {c1}
MCReader == {c2}

MCOneCall == [c \in Connection |-> 1]
MCTwoCalls == [c \in Connection |-> 2]
MCTwoWrites == (c1 :> 2) @@ (c2 :> 1)
MCThreeWrites == (c1 :> 3) @@ (c2 :> 1)
MCTwoReads == (c1 :> 1) @@ (c2 :> 2)

\* c1 sends an event, both tables show the row count.
MCSendAndCount ==
    {<<c1, SendRequest(1)>>, <<c1, NumberRequest>>, <<c2, NumberRequest>>}

\* c2 reads the first row and everything while c1 sends.
MCSendAndRead ==
    {<<c1, SendRequest(1)>>, <<c2, RowRequest(0)>>,
     <<c2, RangeRequest(0, LAST_EVENT_NUMBER)>>}

\* The same, while c1 shows the first row and tries a text that is too long.
MCShowAndRead ==
    MCSendAndRead
        \cup {<<c1, RowRequest(0)>>, <<c1, SendRequest(MaxSendEventText + 1)>>}

\* c2 shows the second row while c1 sends.
MCSendAndShow == {<<c1, SendRequest(1)>>, <<c2, RowRequest(1)>>}

\* An event that SendEvent can carry and SavedEventsResponse cannot.
MCSendLong ==
    {<<c1, SendRequest(MaxResponseText + 1)>>,
     <<c2, RangeRequest(0, LAST_EVENT_NUMBER)>>}
==============================================================================
