------------------------------- MODULE Batches -------------------------------
(***************************************************************************)
(* Batches of packets: what one receive() returns of the bytes that the    *)
(* peer has sent, and what a BytesStream finds in it.                      *)
(*                                                                         *)
(* A byte stream is a sequence of packets; the bytes of a batch are        *)
(* decoded by a BytesStream that is a local variable of the reader, so a   *)
(* packet cut by the end of a batch is lost and the batch after it starts  *)
(* in the middle of a packet.  ReceivePath models the same in bytes and    *)
(* shows that it implements these operators.                               *)
(***************************************************************************)
EXTENDS Naturals, Sequences

CONSTANT Faults  \* which faults may happen, a subset of AllFaults

AllFaults == {"split", "break", "crash", "storage", "late", "reuse"}

ASSUME FaultsAssumption == Faults \subseteq AllFaults

\* The end of a packet whose beginning the reader has already dropped.
TAIL == [type |-> "tail"]

------------------------------------------------------------------------------
(* receive(): whatever prefix of the unread bytes has arrived.  With the   *)
(* "split" fault the prefix may end inside the packet at position n.       *)

\* Mutant: the last packet of a batch is not taken out of the buffer.
WholePacketsKeepingLast(unread) ==
    {[batch |-> SubSeq(unread, 1, n),
      rest  |-> SubSeq(unread, n, Len(unread))] : n \in 1..Len(unread)}

WholePackets(unread) ==
    {[batch |-> SubSeq(unread, 1, n),
      rest  |-> SubSeq(unread, n + 1, Len(unread))] : n \in 1..Len(unread)}

CutPacket(unread) ==
    {[batch |-> SubSeq(unread, 1, n - 1),
      rest  |-> <<TAIL>> \o SubSeq(unread, n + 1, Len(unread))] :
        n \in {k \in 1..Len(unread) : unread[k] # TAIL}}

Receive(unread) ==
    WholePackets(unread) \cup IF "split" \in Faults THEN CutPacket(unread)
                                                    ELSE {}

\* The same in the slot of readyRead, when the first k packets are in the socket
\* already: Qt emits the signal only for bytes it has just taken in, and
\* readAll() then returns the older ones with them.
Announced(unread, k) ==
    {received \in Receive(unread) :
        \/ Len(received.batch) > k
        \/ /\ Len(received.batch) = k
           /\ received.rest # SubSeq(unread, k + 1, Len(unread))}

\* BytesStream::getPacket over one batch.  A batch that starts inside a
\* packet takes two arbitrary bytes for a length and swallows an arbitrary
\* number of packets before it is aligned again, if ever.
Decoded(batch) ==
    IF batch # <<>> /\ Head(batch) = TAIL
    THEN {SubSeq(batch, n, Len(batch)) : n \in 2..(Len(batch) + 1)}
    ELSE {batch}
==============================================================================
