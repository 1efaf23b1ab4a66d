----------------------------- MODULE PathProofs -----------------------------
(***************************************************************************)
(* What ReceivePath keeps for every traffic, any depth of nested calls and *)
(* every way the bytes arrive: its types, every byte in its place between  *)
(* send() and receive(), and what is in m_rawDataFromSocket when.          *)
(***************************************************************************)
EXTENDS ReceivePath, SequenceLemmas

------------------------------------------------------------------------------
(* FlattenSeq.  Its recursion is a local function of the library, of which *)
(* there is one and only one.                                              *)

FlattenStep(s, n, g) ==
    [i \in 1..n |-> IF i = 1 THEN s[i] ELSE g[i - 1] \o s[i]]
Flattens(s, n, g) == g = FlattenStep(s, n, g)

LEMMA FlattenExists ==
    ASSUME NEW s, NEW n \in Nat
    PROVE  \E g : Flattens(s, n, g)
<1>. DEFINE T == {m \in Nat : ~\E g : Flattens(s, m, g)}
<1>1. CASE T = {}
  BY <1>1
<1>2. CASE T # {}
  <2>1. T \subseteq Nat
    OBVIOUS
  <2>2. PICK m \in T : \A k \in T : m <= k
    <3>. HIDE DEF T
    <3>1. QED
      BY <1>2, <2>1, Least
  <2>3. m \in Nat /\ ~\E g : Flattens(s, m, g)
    BY <2>2
  <2>4. CASE m = 0
    <3>. DEFINE g == <<>>
    <3>1. g = [i \in 1..m |-> IF i = 1 THEN s[i] ELSE g[i - 1] \o s[i]]
      BY <2>4
    <3>2. Flattens(s, m, g)
      BY <3>1 DEF Flattens, FlattenStep
    <3>. HIDE DEF g
    <3>3. QED
      BY <2>3, <3>2
  <2>5. CASE m # 0
    <3>. DEFINE k == m - 1
    <3>1. k \in Nat /\ m = k + 1 /\ k \notin T
      BY <2>2, <2>3, <2>5
    <3>2. PICK g : Flattens(s, k, g)
      BY <3>1
    <3>. HIDE DEF k, T
    <3>. DEFINE last == IF m = 1 THEN s[m] ELSE g[k] \o s[m]
                h == [i \in 1..m |-> IF i = m THEN last ELSE g[i]]
    <3>3. \A i \in 1..m : h[i] = IF i = m THEN last ELSE g[i]
      OBVIOUS
    <3>4. \A i \in 1..k : g[i] = IF i = 1 THEN s[i] ELSE g[i - 1] \o s[i]
      <4>1. g = FlattenStep(s, k, g)
        BY <3>2 DEF Flattens
      <4>2. \A i \in 1..k : FlattenStep(s, k, g)[i] =
                IF i = 1 THEN s[i] ELSE g[i - 1] \o s[i]
        BY DEF FlattenStep
      <4>3. QED
        BY <4>1, <4>2
    <3>5. \A i \in 1..m : h[i] = IF i = 1 THEN s[i] ELSE h[i - 1] \o s[i]
      <4>. HIDE DEF h
      <4>. SUFFICES ASSUME NEW i \in 1..m
                    PROVE  h[i] = IF i = 1 THEN s[i] ELSE h[i - 1] \o s[i]
        OBVIOUS
      <4>1. CASE i = m
        <5>1. h[m] = last
          BY <3>1, <3>3
        <5>2. CASE m = 1
          BY <4>1, <5>1, <5>2
        <5>3. CASE m # 1
          <6>1. k \in 1..m /\ k # m /\ m - 1 = k
            BY <3>1, <5>3
          <6>2. h[k] = g[k]
            BY <3>3, <6>1
          <6>3. last = g[k] \o s[m]
            BY <5>3
          <6>. HIDE DEF last
          <6>4. h[m] = h[m - 1] \o s[m]
            BY <5>1, <6>1, <6>2, <6>3
          <6>5. QED
            BY <4>1, <5>3, <6>4
        <5>4. QED
          BY <5>2, <5>3
      <4>2. CASE i # m
        <5>1. i \in 1..k
          BY <3>1, <4>2
        <5>2. h[i] = g[i]
          BY <3>3, <4>2
        <5>3. i # 1 => h[i - 1] = g[i - 1]
          <6>1. i # 1 => i - 1 \in 1..m /\ i - 1 # m
            BY <3>1, <5>1
          <6>. HIDE DEF last
          <6>2. QED
            BY <3>3, <6>1
        <5>. HIDE DEF last
        <5>4. QED
          BY <3>4, <5>1, <5>2, <5>3
      <4>3. QED
        BY <4>1, <4>2
    <3>6. h = [i \in 1..m |-> h[i]]
      OBVIOUS
    <3>. HIDE DEF h
    <3>7. h = FlattenStep(s, m, h)
      BY <3>5, <3>6 DEF FlattenStep
    <3>8. QED
      BY <2>3, <3>7 DEF Flattens
  <2>6. QED
    BY <2>4, <2>5
<1>3. QED
  BY <1>1, <1>2

LEMMA FlattenElements ==
    ASSUME NEW s, NEW n \in Nat, NEW g, Flattens(s, n, g), NEW i \in 1..n
    PROVE  g[i] = IF i = 1 THEN s[i] ELSE g[i - 1] \o s[i]
<1>1. g = FlattenStep(s, n, g)
  BY DEF Flattens
<1>2. FlattenStep(s, n, g)[i] = IF i = 1 THEN s[i] ELSE g[i - 1] \o s[i]
  BY DEF FlattenStep
<1>3. QED
  BY <1>1, <1>2

\* What is flattened depends only on the elements so far.
LEMMA FlattenSame ==
    ASSUME NEW s, NEW t, NEW m \in Nat, NEW n \in Nat, m <= n,
           \A i \in 1..m : t[i] = s[i],
           NEW g, Flattens(s, m, g), NEW h, Flattens(t, n, h), NEW i \in 1..m
    PROVE  h[i] = g[i]
<1>. DEFINE T == {j \in 1..m : h[j] # g[j]}
<1>1. CASE T = {}
  BY <1>1
<1>2. CASE T # {}
  <2>1. T \subseteq Nat
    OBVIOUS
  <2>2. PICK j \in T : \A k \in T : j <= k
    <3>. HIDE DEF T
    <3>1. QED
      BY <1>2, <2>1, Least
  <2>3. /\ j \in 1..m /\ j \in 1..n /\ h[j] # g[j]
        /\ j # 1 => j - 1 \in 1..m /\ j - 1 \notin T
    BY <2>2
  <2>4. j # 1 => h[j - 1] = g[j - 1]
    BY <2>3
  <2>. HIDE DEF T
  <2>5. /\ g[j] = IF j = 1 THEN s[j] ELSE g[j - 1] \o s[j]
        /\ h[j] = IF j = 1 THEN t[j] ELSE h[j - 1] \o t[j]
    BY <2>3, FlattenElements
  <2>6. t[j] = s[j]
    BY <2>3
  <2>7. QED
    BY <2>3, <2>4, <2>5, <2>6
<1>3. QED
  BY <1>1, <1>2

LEMMA FlattenIs ==
    ASSUME NEW s, Len(s) \in Nat \ {0}
    PROVE  \E g : Flattens(s, Len(s), g) /\ FlattenSeq(s) = g[Len(s)]
<1>. DEFINE flat == CHOOSE g : g = [i \in 1..Len(s) |->
                        IF i = 1 THEN s[i] ELSE g[i - 1] \o s[i]]
<1>1. FlattenSeq(s) = flat[Len(s)]
  BY DEF FlattenSeq
<1>2. PICK g : Flattens(s, Len(s), g)
  BY FlattenExists
<1>3. Flattens(s, Len(s), flat)
  BY <1>2 DEF Flattens, FlattenStep
<1>. HIDE DEF flat
<1>4. QED
  BY <1>1, <1>3

\* One packet more, its bytes at the end.
LEMMA FlattenAppend ==
    ASSUME NEW S, NEW s \in Seq(Seq(S)), NEW p \in Seq(S)
    PROVE  FlattenSeq(Append(s, p)) = FlattenSeq(s) \o p
<1>. DEFINE t == Append(s, p)
<1>1. PICK n : n = Len(s)
  OBVIOUS
<1>2. /\ n \in Nat /\ Len(t) = n + 1 /\ t[n + 1] = p
      /\ \A i \in 1..n : t[i] = s[i]
  BY <1>1, AppendProperties, LenProperties
<1>. HIDE DEF t
<1>3. PICK h : Flattens(t, n + 1, h) /\ FlattenSeq(t) = h[n + 1]
  <2>1. Len(t) \in Nat \ {0}
    BY <1>2
  <2>2. QED
    BY <1>2, <2>1, FlattenIs
<1>4. n + 1 \in Nat /\ n + 1 \in 1..(n + 1) /\ n <= n + 1 /\ (n + 1) - 1 = n
  BY <1>2
<1>5. h[n + 1] = IF n + 1 = 1 THEN p ELSE h[n] \o p
  BY <1>2, <1>3, <1>4, FlattenElements
<1>6. CASE n = 0
  <2>1. s = <<>>
    BY <1>1, <1>6, EmptySeq
  <2>2. FlattenSeq(s) = <<>>
    BY <1>1, <1>6, <2>1 DEF FlattenSeq
  <2>3. <<>> \o p = p
    BY ConcatEmpty
  <2>4. QED
    BY <1>3, <1>5, <1>6, <2>2, <2>3 DEF t
<1>7. CASE n # 0
  <2>1. PICK g : Flattens(s, n, g) /\ FlattenSeq(s) = g[n]
    BY <1>1, <1>2, <1>7, FlattenIs
  <2>2. n \in 1..n /\ n + 1 # 1
    BY <1>2, <1>7
  <2>3. h[n] = g[n]
    BY <1>2, <1>3, <1>4, <2>1, <2>2, FlattenSame
  <2>4. QED
    BY <1>3, <1>5, <2>1, <2>2, <2>3 DEF t
<1>8. QED
  BY <1>6, <1>7
------------------------------------------------------------------------------
(* What GetPacket cuts out of bytes are bytes.                             *)

LEMMA PacketBytes ==
    ASSUME NEW stream \in Seq(Byte), GetPacket(stream).found
    PROVE  GetPacket(stream).packet \in Seq(Byte) /\ GetPacket(stream).rest \in Seq(Byte)
<1>. DEFINE size == FirstPacketSize(stream)
<1>1. Len(stream) \in Nat
  BY LenProperties
<1>2. ~Malformed(stream)
  BY DEF GetPacket, NoPacket
<1>3. ~(Len(stream) < 4) /\ ~(Len(stream) < size)
  BY <1>2 DEF Malformed, SizeOfFrameHeader
<1>4. size \in Nat
  <2>1. 1 \in 1..Len(stream) /\ 2 \in 1..Len(stream)
    BY <1>1, <1>3
  <2>2. stream[1] \in Byte /\ stream[2] \in Byte
    BY <2>1, ElementOfSeq
  <2>3. stream[1] \in Nat /\ stream[2] \in Nat
    <3>1. \A b \in 0..255 : b \in Nat
      OBVIOUS
    <3>2. QED
      BY <2>2, <3>1 DEF Byte
  <2>4. size = 256 * stream[1] + stream[2]
    BY DEF FirstPacketSize, Ntohs
  <2>5. QED
    BY <2>3, <2>4
<1>5. /\ size \in 0..Len(stream)
      /\ GetPacket(stream) = [found |-> TRUE, packet |-> SubSeq(stream, 1, size),
                              rest |-> SubSeq(stream, size + 1, Len(stream))]
  BY <1>1, <1>2, <1>3, <1>4 DEF GetPacket
<1>. HIDE DEF size
<1>6. /\ SubSeq(stream, 1, size) \in Seq(Byte)
      /\ SubSeq(stream, size + 1, Len(stream)) \in Seq(Byte)
  BY <1>5, CutInTwo
<1>7. QED
  BY <1>5, <1>6
------------------------------------------------------------------------------
(* Stacks.  Frames that run in the slot of readyRead, and of these the     *)
(* ones that have a batch.                                                 *)

CallFrame == [kind: {"call"}, task: {"client", "invite"}]
ReaderFrame ==
    [kind: {"reader"}, slot: BOOLEAN,
     task: {"server", "client", "invitation", "invite"},
     at: {"receive", "take", "packets"}, stream: Seq(Byte)]
Frame == CallFrame \cup ReaderFrame

Slot(f) == f.kind = "reader" /\ f.slot
NoSlot == {f \in Frame : ~Slot(f)}
Quiet == {f \in Frame : ~(Slot(f) /\ f.at = "packets")}

\* A reader of a handshake's reply runs inside the call that polls.
Invites(f) == f.kind = "reader" /\ f.task = "invite"

OneSlot(s) == \A i, j \in 1..Len(s) : (Slot(s[i]) /\ Slot(s[j])) => i = j
Grounded(s) == s # <<>> => ~Invites(s[Len(s)])

\* A stack while raw is in m_rawDataFromSocket.
StackOK(s, raw) ==
    /\ s \in Seq(Frame) /\ OneSlot(s) /\ Grounded(s)
    /\ raw # <<>> => s \in Seq(Quiet)

LEMMA EmptyStack == \A raw : StackOK(<<>>, raw)
  BY EmptySeq DEF StackOK, OneSlot, Grounded

LEMMA PopOK ==
    ASSUME NEW raw, NEW s, StackOK(s, raw), s # <<>>
    PROVE  /\ StackOK(Tail(s), raw) /\ Head(s) \in Frame
           /\ Slot(Head(s)) => Tail(s) \in Seq(NoSlot)
           /\ Tail(s) = <<>> => ~Invites(Head(s))
<1>. DEFINE t == Tail(s)
<1>1. /\ s \in Seq(Frame) /\ OneSlot(s) /\ Grounded(s)
      /\ raw # <<>> => s \in Seq(Quiet)
  BY DEF StackOK
<1>2. PICK n : n = Len(s)
  OBVIOUS
<1>3. /\ Head(s) \in Frame /\ t \in Seq(Frame)
      /\ n \in Nat \ {0} /\ Len(t) = n - 1 /\ Head(s) = s[1]
      /\ \A i \in 1..Len(t) : t[i] = s[i + 1]
  BY <1>1, <1>2, PopProperties
<1>4. raw # <<>> => t \in Seq(Quiet)
  BY <1>1, PopProperties
<1>. HIDE DEF t
<1>5. \A i \in 1..Len(t) : i + 1 \in 1..n /\ i + 1 # 1 /\ t[i] = s[i + 1]
  BY <1>3
<1>6. OneSlot(t)
  <2>. SUFFICES ASSUME NEW i \in 1..Len(t), NEW j \in 1..Len(t),
                       Slot(t[i]), Slot(t[j])
                PROVE  i = j
    BY DEF OneSlot
  <2>1. i + 1 = j + 1
    BY <1>1, <1>2, <1>5 DEF OneSlot
  <2>2. i \in Nat /\ j \in Nat
    BY <1>3
  <2>3. QED
    BY <2>1, <2>2
<1>7. Grounded(t)
  <2>1. t # <<>> => Len(t) \in 1..Len(t) /\ Len(t) + 1 = n
    BY <1>3, EmptySeq
  <2>2. t # <<>> => t[Len(t)] = s[n]
    BY <1>5, <2>1
  <2>3. QED
    BY <1>1, <1>2, <2>2 DEF Grounded
<1>8. ASSUME Slot(Head(s))
      PROVE  t \in Seq(NoSlot)
  <2>1. \A i \in 1..Len(t) : t[i] \in Frame /\ ~Slot(t[i])
    <3>1. 1 \in 1..n
      BY <1>3
    <3>2. \A i \in 1..Len(t) : ~Slot(t[i])
      BY <1>1, <1>2, <1>3, <1>5, <1>8, <3>1 DEF OneSlot
    <3>3. QED
      BY <1>3, <3>2, ElementOfSeq
  <2>2. \A i \in 1..Len(t) : t[i] \in NoSlot
    BY <2>1 DEF NoSlot
  <2>3. QED
    BY <1>3, <2>2, SeqElements
<1>9. t = <<>> => ~Invites(Head(s))
  <2>1. t = <<>> => Len(t) = 0
    OBVIOUS
  <2>2. t = <<>> => n = 1
    BY <1>3, <2>1
  <2>3. QED
    BY <1>1, <1>2, <1>3, <2>2 DEF Grounded
<1>10. QED
  BY <1>3, <1>4, <1>6, <1>7, <1>8, <1>9 DEF StackOK, t

LEMMA PushOK ==
    ASSUME NEW raw, NEW s, StackOK(s, raw), NEW f \in Frame,
           Slot(f) => s \in Seq(NoSlot), raw # <<>> => f \in Quiet,
           s = <<>> => ~Invites(f)
    PROVE  /\ StackOK(<<f>> \o s, raw)
           /\ <<f>> \o s # <<>> /\ Head(<<f>> \o s) = f
<1>. DEFINE t == <<f>> \o s
<1>1. /\ s \in Seq(Frame) /\ OneSlot(s) /\ Grounded(s)
      /\ raw # <<>> => s \in Seq(Quiet)
  BY DEF StackOK
<1>2. PICK n : n = Len(s)
  OBVIOUS
<1>3. /\ t \in Seq(Frame) /\ n \in Nat /\ Len(t) = n + 1 /\ t[1] = f
      /\ \A i \in 2..(n + 1) : t[i] = s[i - 1]
  BY <1>1, <1>2, PushProperties
<1>4. raw # <<>> => t \in Seq(Quiet)
  BY <1>1, PushProperties
<1>. HIDE DEF t
<1>5. t # <<>> /\ Head(t) = f
  <2>1. t # <<>>
    BY <1>3
  <2>2. QED
    BY <1>3, <2>1
<1>6. \A i \in 1..Len(t) : i = 1 \/ (i - 1 \in 1..n /\ t[i] = s[i - 1])
  BY <1>3
<1>7. Slot(f) => \A i \in 1..n : ~Slot(s[i])
  BY <1>2, ElementOfSeq DEF NoSlot
<1>8. OneSlot(t)
  <2>. SUFFICES ASSUME NEW i \in 1..Len(t), NEW j \in 1..Len(t),
                       Slot(t[i]), Slot(t[j])
                PROVE  i = j
    BY DEF OneSlot
  <2>1. i = 1 => j = 1
    BY <1>3, <1>6, <1>7
  <2>2. j = 1 => i = 1
    BY <1>3, <1>6, <1>7
  <2>3. i # 1 /\ j # 1 => i - 1 = j - 1
    BY <1>1, <1>2, <1>6 DEF OneSlot
  <2>4. i \in Nat /\ j \in Nat
    BY <1>3
  <2>5. QED
    BY <2>1, <2>2, <2>3, <2>4
<1>9. Grounded(t)
  <2>1. CASE s = <<>>
    <3>1. n = 0
      BY <1>2, <2>1
    <3>2. QED
      BY <1>3, <2>1, <3>1 DEF Grounded
  <2>2. CASE s # <<>>
    <3>1. n # 0
      BY <1>1, <1>2, <2>2, EmptySeq
    <3>2. n + 1 \in 2..(n + 1) /\ (n + 1) - 1 = n
      BY <1>3, <3>1
    <3>3. t[Len(t)] = s[Len(s)]
      BY <1>2, <1>3, <3>2
    <3>4. QED
      BY <1>1, <2>2, <3>3 DEF Grounded
  <2>3. QED
    BY <2>1, <2>2
<1>10. QED
  BY <1>3, <1>4, <1>5, <1>8, <1>9 DEF StackOK, t

\* The top frame goes on in another place.
LEMMA ReplaceOK ==
    ASSUME NEW raw, NEW s, StackOK(s, raw), s # <<>>, NEW f \in Frame,
           Slot(f) = Slot(Head(s)), Invites(f) = Invites(Head(s)),
           raw # <<>> => f \in Quiet
    PROVE  /\ StackOK(<<f>> \o Tail(s), raw)
           /\ <<f>> \o Tail(s) # <<>> /\ Head(<<f>> \o Tail(s)) = f
BY PopOK, PushOK

\* m_rawDataFromSocket is emptied.
LEMMA EmptiedOK ==
    ASSUME NEW raw, NEW s, StackOK(s, raw)
    PROVE  StackOK(s, <<>>)
BY DEF StackOK

\* Outside the slot, anything may arrive.
LEMMA OutsideOK ==
    ASSUME NEW raw, NEW s, StackOK(s, raw), s \in Seq(NoSlot), NEW more
    PROVE  StackOK(s, more)
<1>1. NoSlot \subseteq Quiet
  BY DEF NoSlot, Quiet
<1>2. s \in Seq(Quiet)
  BY <1>1, SeqMonotonic
<1>3. QED
  BY <1>2 DEF StackOK

LEMMA NotInSlot ==
    ASSUME NEW raw, StackOK(stack, raw), ~InSlot
    PROVE  stack \in Seq(NoSlot)
<1>1. \A i \in 1..Len(stack) : stack[i] \in Frame
  BY ElementOfSeq DEF StackOK
<1>2. \A i \in 1..Len(stack) : stack[i] \in NoSlot
  BY <1>1 DEF InSlot, NoSlot, Slot
<1>3. QED
  BY <1>2, SeqElements DEF StackOK
------------------------------------------------------------------------------
(* The invariant                                                           *)

\* While the connection lives, bytes wait in m_rawDataFromSocket only if a
\* reader is about to look there, or nobody has registered the callback yet.
Settled(s, raw, on, alive) ==
    (/\ alive
     /\ \/ s = <<>> /\ on
        \/ s # <<>> /\ (Head(s).kind = "call" \/ Head(s).at = "packets"))
        => raw = <<>>

DataOK ==
    /\ role \in {"server", "client"}
    /\ wire \in Seq(Byte) /\ readBuffer \in Seq(Byte)
    /\ rawData \in Seq(Byte) /\ taken \in Seq(Byte)
    /\ callbackOn \in BOOLEAN /\ valid \in BOOLEAN
    /\ sent \in Seq(Seq(Byte)) /\ delivered \in Seq(Seq(Byte))

PathInv ==
    /\ DataOK
    /\ StackOK(stack, rawData)
    /\ Settled(stack, rawData, callbackOn, valid)
    /\ BytesInOrder

\* A reader on top of the stack.
LEMMA ReaderOnTop ==
    ASSUME StackOK(stack, rawData), NEW at, Reading(at)
    PROVE  /\ Top \in ReaderFrame /\ stack # <<>> /\ Top.at = at
           /\ StackOK(Below, rawData)
           /\ Slot(Top) => Below \in Seq(NoSlot)
           /\ Below = <<>> => ~Invites(Top)
           /\ rawData # <<>> => Top \in Quiet
<1>1. stack # <<>> /\ Top.kind = "reader" /\ Top.at = at
  BY DEF Reading
<1>2. /\ StackOK(Below, rawData) /\ Top \in Frame
      /\ Slot(Top) => Below \in Seq(NoSlot)
      /\ Below = <<>> => ~Invites(Top)
  BY <1>1, PopOK DEF Top, Below
<1>3. Top \in ReaderFrame
  BY <1>1, <1>2 DEF Frame, CallFrame
<1>4. rawData # <<>> => Top \in Quiet
  BY <1>1, PopProperties DEF StackOK, Top
<1>5. QED
  BY <1>1, <1>2, <1>3, <1>4

\* The frames that readers and callers put on the stack.
LEMMA NewFrames ==
    /\ \A task \in {"server", "client", "invitation", "invite"}, slot \in BOOLEAN :
         LET f == Reader(task, slot) IN
         /\ f \in Frame /\ f \in Quiet
         /\ f.kind = "reader" /\ f.at = "receive" /\ f.task = task
         /\ f.slot = slot
    /\ \A task \in {"client", "invite"} :
         /\ Call(task) \in Frame /\ Call(task) \in Quiet
         /\ Call(task).kind = "call"
<1>1. ASSUME NEW task \in {"server", "client", "invitation", "invite"},
             NEW slot \in BOOLEAN
      PROVE  LET f == Reader(task, slot) IN
             /\ f \in Frame /\ f \in Quiet
             /\ f.kind = "reader" /\ f.at = "receive" /\ f.task = task
             /\ f.slot = slot
  <2>1. <<>> \in Seq(Byte)
    OBVIOUS
  <2>2. QED
    BY <2>1 DEF Reader, Frame, ReaderFrame, Quiet, Slot
<1>2. ASSUME NEW task \in {"client", "invite"}
      PROVE  /\ Call(task) \in Frame /\ Call(task) \in Quiet
             /\ Call(task).kind = "call"
  BY DEF Call, Frame, CallFrame, Quiet, Slot
<1>3. QED
  BY <1>1, <1>2

\* The top frame goes on.
LEMMA WaitedFrame ==
    ASSUME NEW f \in ReaderFrame
    PROVE  LET g == [f EXCEPT !.at = "take"] IN
           /\ g \in ReaderFrame /\ g \in Frame /\ g \in Quiet /\ g.at = "take"
           /\ g.kind = "reader" /\ Slot(g) = Slot(f) /\ Invites(g) = Invites(f)
BY DEF ReaderFrame, Frame, Quiet, Slot, Invites

LEMMA TakenFrame ==
    ASSUME NEW f \in ReaderFrame, NEW bytes \in Seq(Byte)
    PROVE  LET g == [f EXCEPT !.at = "packets", !.stream = bytes] IN
           /\ g \in Frame /\ Slot(g) = Slot(f) /\ Invites(g) = Invites(f)
BY DEF ReaderFrame, Frame, Slot, Invites

LEMMA RestFrame ==
    ASSUME NEW f \in ReaderFrame, NEW bytes \in Seq(Byte)
    PROVE  LET g == [f EXCEPT !.stream = bytes] IN
           /\ g \in Frame /\ Slot(g) = Slot(f) /\ Invites(g) = Invites(f)
           /\ f \in Quiet => g \in Quiet
BY DEF ReaderFrame, Frame, Quiet, Slot, Invites

LEMMA OneFrame == \A f : <<f>> \o <<>> = <<f>>
<1>1. ASSUME NEW f
      PROVE  <<f>> \o <<>> = <<f>>
  <2>1. <<f>> \in Seq({f})
    OBVIOUS
  <2>2. QED
    BY <2>1, ConcatEmpty
<1>2. QED
  BY <1>1
------------------------------------------------------------------------------
(* The stack                                                               *)

\* readyRead: its slot goes on top of a stack that is in none.
LEMMA ArrivedOK ==
    ASSUME PathInv, NEW n, NEW below, OnDataArrived(n, below),
           StackOK(below, rawData), below \in Seq(NoSlot)
    PROVE  /\ StackOK(stack', rawData')
           /\ IF callbackOn
              THEN /\ stack' # <<>> /\ Head(stack').kind = "reader"
                   /\ Head(stack').at = "receive"
              ELSE stack' = below
<1>. DEFINE f == Reader(Executor, TRUE)
<1>1. /\ f \in Frame /\ f \in Quiet /\ f.kind = "reader" /\ f.at = "receive"
      /\ f.task = role /\ TRUE \in BOOLEAN
  BY NewFrames DEF PathInv, DataOK, Executor
<1>2. StackOK(below, rawData')
  BY OutsideOK
<1>3. stack' = (IF callbackOn THEN <<f>> ELSE <<>>) \o below
  BY DEF OnDataArrived
<1>. HIDE DEF f
<1>4. ~Invites(f)
  BY <1>1 DEF Invites, PathInv, DataOK
<1>5. CASE callbackOn
  <2>1. /\ StackOK(<<f>> \o below, rawData')
        /\ <<f>> \o below # <<>> /\ Head(<<f>> \o below) = f
    BY <1>1, <1>2, <1>4, PushOK
  <2>2. stack' = <<f>> \o below
    BY <1>3, <1>5
  <2>3. QED
    BY <1>1, <1>5, <2>1, <2>2
<1>6. CASE ~callbackOn
  <2>1. <<>> \o below = below
    BY ConcatEmpty
  <2>2. stack' = below
    BY <1>3, <1>6, <2>1
  <2>3. QED
    BY <1>2, <1>6, <2>2
<1>7. QED
  BY <1>5, <1>6

LEMMA ReadyReadOK ==
    ASSUME PathInv, ReadyRead
    PROVE  StackOK(stack', rawData') /\ Settled(stack', rawData', callbackOn', valid')
<1>1. PICK n \in 1..Len(wire) : OnDataArrived(n, <<>>)
  BY DEF ReadyRead
<1>2. StackOK(<<>>, rawData) /\ <<>> \in Seq(NoSlot)
  BY EmptyStack, EmptySeq
<1>3. /\ StackOK(stack', rawData')
      /\ IF callbackOn
         THEN /\ stack' # <<>> /\ Head(stack').kind = "reader"
              /\ Head(stack').at = "receive"
         ELSE stack' = <<>>
  BY <1>1, <1>2, ArrivedOK
<1>4. QED
  BY <1>3 DEF Settled, ReadyRead

LEMMA WaitOK ==
    ASSUME PathInv, WaitForReadyRead
    PROVE  StackOK(stack', rawData') /\ Settled(stack', rawData', callbackOn', valid')
<1>. DEFINE g == [Top EXCEPT !.at = "take"]
            waited == <<g>> \o Below
<1>1. /\ Top \in ReaderFrame /\ stack # <<>> /\ StackOK(Below, rawData)
      /\ Slot(Top) => Below \in Seq(NoSlot)
  BY ReaderOnTop DEF PathInv, WaitForReadyRead
<1>2. /\ g \in Frame /\ g \in Quiet /\ g.at = "take" /\ g.kind = "reader"
      /\ Slot(g) = Slot(Top) /\ Invites(g) = Invites(Top)
  BY <1>1, WaitedFrame
<1>. HIDE DEF g
<1>3. StackOK(waited, rawData) /\ waited # <<>> /\ Head(waited) = g
  BY <1>1, <1>2, ReplaceOK DEF PathInv, Top, Below
<1>4. CASE stack' = waited /\ UNCHANGED rawData
  BY <1>2, <1>3, <1>4 DEF Settled
<1>5. ASSUME ~InSlot, NEW n, OnDataArrived(n, waited)
      PROVE  /\ StackOK(stack', rawData')
             /\ Settled(stack', rawData', callbackOn', valid')
  <2>1. stack \in Seq(NoSlot)
    BY <1>5, NotInSlot DEF PathInv
  <2>2. Top \in NoSlot /\ Below \in Seq(NoSlot)
    BY <1>1, <2>1, PopProperties DEF Top, Below
  <2>3. g \in NoSlot
    BY <1>2, <2>2 DEF NoSlot
  <2>4. waited \in Seq(NoSlot)
    BY <2>2, <2>3, PushProperties
  <2>. HIDE DEF waited
  <2>5. /\ StackOK(stack', rawData')
        /\ IF callbackOn
           THEN /\ stack' # <<>> /\ Head(stack').kind = "reader"
                /\ Head(stack').at = "receive"
           ELSE stack' = waited
    BY <1>3, <1>5, <2>4, ArrivedOK
  <2>6. QED
    BY <1>2, <1>3, <2>5 DEF Settled
<1>6. QED
  BY <1>4, <1>5 DEF WaitForReadyRead, buffers, g

LEMMA TakeOK ==
    ASSUME PathInv, Take
    PROVE  StackOK(stack', rawData') /\ Settled(stack', rawData', callbackOn', valid')
<1>1. /\ Top \in ReaderFrame /\ stack # <<>> /\ StackOK(Below, rawData)
      /\ Reading("take") /\ UNCHANGED <<callbackOn, valid>>
  BY ReaderOnTop DEF PathInv, Take
<1>2. CASE NothingReceived /\ stack' = Below /\ UNCHANGED rawData
  <2>1. valid' => rawData' = <<>>
    BY <1>1, <1>2 DEF NothingReceived
  <2>2. QED
    BY <1>1, <1>2, <2>1 DEF Settled
<1>3. CASE ~NothingReceived
  <2>. DEFINE g == [Top EXCEPT !.at = "packets", !.stream = rawData]
  <2>1. /\ rawData' = <<>> /\ stack' = <<g>> \o Below
    BY <1>3 DEF Take, RawDataTaken
  <2>2. g \in Frame /\ Slot(g) = Slot(Top) /\ Invites(g) = Invites(Top)
    BY <1>1, TakenFrame DEF PathInv, DataOK
  <2>. HIDE DEF g
  <2>3. StackOK(stack, <<>>)
    BY EmptiedOK DEF PathInv
  <2>4. StackOK(<<g>> \o Below, <<>>)
    BY <1>1, <2>2, <2>3, ReplaceOK DEF Top, Below
  <2>5. QED
    BY <2>1, <2>4 DEF Settled
<1>4. QED
  BY <1>2, <1>3 DEF Take

\* The loop over a batch.
LEMMA BatchOK ==
    ASSUME PathInv, Reading("packets"), UNCHANGED <<rawData, valid>>,
           \/ stack' = Below
           \/ Top.task = "invite" /\ stack' = Tail(Below)
           \/ Top.task = "server" /\ stack' = <<Reader("server", Top.slot)>> \o Below
           \/ Next1.found /\ stack' = RestOfBatch
           \/ Next1.found /\ stack' = <<Call("client")>> \o RestOfBatch
    PROVE  StackOK(stack', rawData') /\ Settled(stack', rawData', callbackOn', valid')
<1>1. /\ Top \in ReaderFrame /\ stack # <<>> /\ Top.at = "packets"
      /\ StackOK(Below, rawData)
      /\ Slot(Top) => Below \in Seq(NoSlot)
      /\ Below = <<>> => ~Invites(Top)
      /\ rawData # <<>> => Top \in Quiet
  BY ReaderOnTop DEF PathInv
<1>2. valid' => rawData' = <<>>
  BY <1>1 DEF PathInv, Settled, Top
<1>3. Settled(stack', rawData', callbackOn', valid')
  BY <1>2 DEF Settled
<1>4. CASE stack' = Below
  BY <1>1, <1>3, <1>4
<1>5. CASE Top.task = "invite" /\ stack' = Tail(Below)
  <2>1. Top.kind = "reader"
    BY <1>1 DEF ReaderFrame
  <2>2. Below # <<>>
    BY <1>1, <1>5, <2>1 DEF Invites
  <2>3. StackOK(Tail(Below), rawData)
    BY <1>1, <2>2, PopOK
  <2>4. QED
    BY <1>3, <1>5, <2>3
<1>6. CASE Top.task = "server" /\ stack' = <<Reader("server", Top.slot)>> \o Below
  <2>. DEFINE f == Reader("server", Top.slot)
  <2>1. Top.slot \in BOOLEAN /\ Top.kind = "reader"
    BY <1>1 DEF ReaderFrame
  <2>2. /\ f \in Frame /\ f \in Quiet /\ f.kind = "reader" /\ f.task = "server"
        /\ f.slot = Top.slot
    BY <2>1, NewFrames
  <2>. HIDE DEF f
  <2>3. Slot(f) = Slot(Top) /\ ~Invites(f)
    BY <2>1, <2>2 DEF Slot, Invites
  <2>4. StackOK(<<f>> \o Below, rawData)
    BY <1>1, <2>2, <2>3, PushOK
  <2>5. QED
    BY <1>3, <1>6, <2>4 DEF f
<1>7. CASE Next1.found /\ (\/ stack' = RestOfBatch
                           \/ stack' = <<Call("client")>> \o RestOfBatch)
  <2>. DEFINE g == [Top EXCEPT !.stream = Next1.rest]
              f == Call("client")
              rest == <<g>> \o Below
  <2>1. Next1.rest \in Seq(Byte)
    BY <1>1, <1>7, PacketBytes DEF Next1, ReaderFrame
  <2>2. /\ g \in Frame /\ Slot(g) = Slot(Top) /\ Invites(g) = Invites(Top)
        /\ Top \in Quiet => g \in Quiet
    BY <1>1, <2>1, RestFrame
  <2>3. RestOfBatch = rest
    BY DEF RestOfBatch
  <2>. HIDE DEF g
  <2>4. StackOK(rest, rawData) /\ rest # <<>>
    BY <1>1, <2>2, ReplaceOK DEF PathInv, Top, Below
  <2>5. f \in Frame /\ f \in Quiet /\ f.kind = "call"
    BY NewFrames
  <2>. HIDE DEF f, rest
  <2>6. StackOK(<<f>> \o rest, rawData)
    BY <2>4, <2>5, PushOK DEF Slot, Invites
  <2>7. QED
    BY <1>3, <1>7, <2>3, <2>4, <2>6 DEF f
<1>8. QED
  BY <1>4, <1>5, <1>6, <1>7

\* Every other step that leaves the bytes alone.
LEMMA EndOfBatchOK ==
    ASSUME PathInv, EndOfBatch
    PROVE  StackOK(stack', rawData') /\ Settled(stack', rawData', callbackOn', valid')
<1>1. Reading("packets") /\ UNCHANGED <<rawData, valid>>
  BY DEF EndOfBatch, buffers
<1>2. \/ stack' = Below
      \/ Top.task = "server" /\ stack' = <<Reader("server", Top.slot)>> \o Below
  BY DEF EndOfBatch
<1>3. QED
  BY <1>1, <1>2, BatchOK

LEMMA MalformedOK ==
    ASSUME PathInv, IgnoreMalformed
    PROVE  StackOK(stack', rawData') /\ Settled(stack', rawData', callbackOn', valid')
<1>1. Reading("packets") /\ UNCHANGED <<rawData, valid>>
  BY DEF IgnoreMalformed, buffers
<1>2. stack' = Below \/ (Next1.found /\ stack' = RestOfBatch)
  BY DEF IgnoreMalformed
<1>3. QED
  BY <1>1, <1>2, BatchOK

LEMMA PacketOK ==
    ASSUME PathInv,
           \/ ServerPacketArrives \/ ClientPacketArrives
           \/ InvitationArrives \/ AckArrives
    PROVE  StackOK(stack', rawData') /\ Settled(stack', rawData', callbackOn', valid')
<1>1. PICK task : /\ Delivering(task)
                  /\ \/ stack' = Below
                     \/ task = "invite" /\ stack' = Tail(Below)
                     \/ stack' = RestOfBatch
                     \/ stack' = <<Call("client")>> \o RestOfBatch
  BY DEF ServerPacketArrives, ClientPacketArrives, InvitationArrives, AckArrives
<1>2. /\ Reading("packets") /\ Top.task = task /\ Next1.found
      /\ UNCHANGED <<rawData, valid>>
  BY <1>1 DEF Delivering, buffers
<1>3. QED
  BY <1>1, <1>2, BatchOK

LEMMA TryHandshakeOK ==
    ASSUME PathInv, TryHandshake
    PROVE  StackOK(stack', rawData') /\ Settled(stack', rawData', callbackOn', valid')
<1>. DEFINE f == Reader("invitation", FALSE)
<1>1. /\ f \in Frame /\ f \in Quiet /\ f.kind = "reader" /\ f.at = "receive"
      /\ f.task = "invitation" /\ f.slot = FALSE
  BY NewFrames
<1>2. stack' = <<f>> /\ UNCHANGED rawData
  BY DEF TryHandshake, buffers
<1>. HIDE DEF f
<1>3. ~Slot(f) /\ ~Invites(f)
  BY <1>1 DEF Slot, Invites
<1>4. StackOK(<<>>, rawData)
  BY EmptyStack
<1>5. /\ StackOK(<<f>> \o <<>>, rawData)
      /\ <<f>> \o <<>> # <<>> /\ Head(<<f>> \o <<>>) = f
  BY <1>1, <1>3, <1>4, PushOK
<1>6. stack' = <<f>> \o <<>>
  BY <1>2, OneFrame
<1>7. StackOK(stack', rawData') /\ stack' # <<>> /\ Head(stack') = f
  BY <1>2, <1>5, <1>6
<1>8. QED
  BY <1>1, <1>7 DEF Settled

LEMMA StartCallOK ==
    ASSUME PathInv, StartCall
    PROVE  StackOK(stack', rawData') /\ Settled(stack', rawData', callbackOn', valid')
<1>. DEFINE f == Call("client")
<1>1. f \in Frame /\ f \in Quiet /\ f.kind = "call"
  BY NewFrames
<1>2. stack' = <<f>> /\ UNCHANGED rawData
  BY DEF StartCall, buffers
<1>3. rawData = <<>>
  BY DEF StartCall, PathInv, Settled
<1>. HIDE DEF f
<1>4. ~Slot(f) /\ ~Invites(f)
  BY <1>1 DEF Slot, Invites
<1>5. StackOK(<<>>, rawData)
  BY EmptyStack
<1>6. StackOK(<<f>> \o <<>>, rawData)
  BY <1>1, <1>4, <1>5, PushOK
<1>7. stack' = <<f>> \o <<>>
  BY <1>2, OneFrame
<1>8. QED
  BY <1>2, <1>3, <1>6, <1>7 DEF Settled

LEMMA PollOK ==
    ASSUME PathInv, NEW task \in {"client", "invite"}, Poll(task)
    PROVE  StackOK(stack', rawData') /\ Settled(stack', rawData', callbackOn', valid')
<1>. DEFINE f == Reader(task, FALSE)
<1>1. /\ f \in Frame /\ f \in Quiet /\ f.kind = "reader" /\ f.at = "receive"
      /\ f.slot = FALSE
  BY NewFrames
<1>2. stack # <<>> /\ stack' = <<f>> \o stack /\ UNCHANGED rawData
  BY DEF Poll, Calling, buffers
<1>. HIDE DEF f
<1>3. ~Slot(f)
  BY <1>1 DEF Slot
<1>4. /\ StackOK(<<f>> \o stack, rawData)
      /\ <<f>> \o stack # <<>> /\ Head(<<f>> \o stack) = f
  BY <1>1, <1>2, <1>3, PushOK DEF PathInv
<1>5. QED
  BY <1>1, <1>2, <1>4 DEF Settled

LEMMA EndCallOK ==
    ASSUME PathInv, EndCall
    PROVE  StackOK(stack', rawData') /\ Settled(stack', rawData', callbackOn', valid')
<1>. DEFINE f == Reader("client", FALSE)
<1>1. /\ f \in Frame /\ f \in Quiet /\ f.kind = "reader" /\ f.at = "receive"
      /\ f.task = "client" /\ f.slot = FALSE
  BY NewFrames
<1>2. /\ stack # <<>> /\ UNCHANGED <<rawData, valid>>
      /\ stack' = (IF valid THEN <<f>> ELSE <<>>) \o Below
  BY DEF EndCall, Calling, buffers
<1>. HIDE DEF f
<1>3. ~Slot(f) /\ ~Invites(f)
  BY <1>1 DEF Slot, Invites
<1>4. StackOK(Below, rawData)
  BY <1>2, PopOK DEF PathInv, Below
<1>5. CASE valid
  <2>1. /\ StackOK(<<f>> \o Below, rawData)
        /\ <<f>> \o Below # <<>> /\ Head(<<f>> \o Below) = f
    BY <1>1, <1>3, <1>4, PushOK
  <2>2. stack' = <<f>> \o Below
    BY <1>2, <1>5
  <2>3. QED
    BY <1>1, <1>2, <2>1, <2>2 DEF Settled
<1>6. CASE ~valid
  <2>1. <<>> \o Below = Below
    BY <1>4, ConcatEmpty DEF StackOK
  <2>2. stack' = Below
    BY <1>2, <1>6, <2>1
  <2>3. QED
    BY <1>2, <1>4, <1>6, <2>2 DEF Settled
<1>7. QED
  BY <1>5, <1>6 DEF PathInv, DataOK

LEMMA GiveUpOK ==
    ASSUME PathInv, GiveUp
    PROVE  StackOK(stack', rawData') /\ Settled(stack', rawData', callbackOn', valid')
<1>1. stack # <<>> /\ stack' = Below /\ ~valid' /\ UNCHANGED rawData
  BY DEF GiveUp, Calling, buffers
<1>2. StackOK(Below, rawData)
  BY <1>1, PopOK DEF PathInv, Below
<1>3. QED
  BY <1>1, <1>2 DEF Settled

\* A step of the peer or of the network.
LEMMA OutsideStepOK ==
    ASSUME PathInv, PeerSends \/ Disconnected
    PROVE  StackOK(stack', rawData') /\ Settled(stack', rawData', callbackOn', valid')
<1>1. /\ UNCHANGED <<stack, rawData, callbackOn>>
      /\ valid' = valid \/ ~valid'
  BY DEF PeerSends, Disconnected, buffers
<1>2. QED
  BY <1>1 DEF PathInv, Settled
------------------------------------------------------------------------------
(* The bytes                                                               *)

LEMMA BytesAssoc ==
    \A a, b, c \in Seq(Byte) : (a \o b) \o c = a \o (b \o c)
  BY ConcatAssoc

LEMMA BytesConcat ==
    \A a, b \in Seq(Byte) : a \o b \in Seq(Byte)
  BY ConcatAt

LEMMA NoBytes ==
    \A a \in Seq(Byte) : a \o <<>> = a
  BY ConcatEmpty

\* n bytes more have come in over the wire.
LEMMA ComeIn ==
    ASSUME PathInv, NEW n \in 1..Len(wire)
    PROVE  LET came == SubSeq(wire, 1, n)
               left == SubSeq(wire, n + 1, Len(wire))
           IN /\ came \in Seq(Byte) /\ left \in Seq(Byte)
              /\ readBuffer \o came \in Seq(Byte)
              /\ (readBuffer \o came) \o left = readBuffer \o wire
<1>. DEFINE came == SubSeq(wire, 1, n)
            left == SubSeq(wire, n + 1, Len(wire))
<1>1. wire \in Seq(Byte) /\ readBuffer \in Seq(Byte)
  BY DEF PathInv, DataOK
<1>2. n \in 0..Len(wire)
  OBVIOUS
<1>3. came \in Seq(Byte) /\ left \in Seq(Byte) /\ came \o left = wire
  BY <1>1, <1>2, CutInTwo
<1>. HIDE DEF came, left
<1>4. (readBuffer \o came) \o left = readBuffer \o (came \o left)
  BY <1>1, <1>3, BytesAssoc
<1>5. readBuffer \o came \in Seq(Byte)
  BY <1>1, <1>3, BytesConcat
<1>6. QED
  BY <1>3, <1>4, <1>5 DEF came, left

\* The four places of the bytes, the two in front of the socket together.
LEMMA FourPlaces ==
    ASSUME PathInv
    PROVE  /\ readBuffer \o wire \in Seq(Byte)
           /\ taken \o rawData \in Seq(Byte)
           /\ (taken \o rawData) \o (readBuffer \o wire) = FlattenSeq(sent)
<1>1. /\ wire \in Seq(Byte) /\ readBuffer \in Seq(Byte)
      /\ rawData \in Seq(Byte) /\ taken \in Seq(Byte)
  BY DEF PathInv, DataOK
<1>2. readBuffer \o wire \in Seq(Byte) /\ taken \o rawData \in Seq(Byte)
  BY <1>1, BytesConcat
<1>3. ((taken \o rawData) \o readBuffer) \o wire
          = (taken \o rawData) \o (readBuffer \o wire)
  BY <1>1, <1>2, BytesAssoc
<1>4. QED
  BY <1>2, <1>3 DEF PathInv, BytesInOrder

\* readyRead: what was in the socket and what has come in, behind what the
\* helper had.
LEMMA ArrivedBytes ==
    ASSUME PathInv, NEW n \in 1..Len(wire), NEW below, OnDataArrived(n, below),
           UNCHANGED <<taken, sent>>
    PROVE  /\ wire' \in Seq(Byte) /\ readBuffer' \in Seq(Byte)
           /\ rawData' \in Seq(Byte) /\ BytesInOrder'
<1>. DEFINE came == readBuffer \o SubSeq(wire, 1, n)
            left == SubSeq(wire, n + 1, Len(wire))
            early == taken \o rawData
            late == readBuffer \o wire
<1>1. came \in Seq(Byte) /\ left \in Seq(Byte) /\ came \o left = late
  BY ComeIn
<1>2. early \in Seq(Byte) /\ late \in Seq(Byte) /\ early \o late = FlattenSeq(sent)
  BY FourPlaces
<1>3. taken \in Seq(Byte) /\ rawData \in Seq(Byte)
  BY DEF PathInv, DataOK
<1>4. rawData' = rawData \o came /\ readBuffer' = <<>> /\ wire' = left
  BY DEF OnDataArrived, RawDataAfter
<1>. HIDE DEF came, left, late
<1>5. rawData \o came \in Seq(Byte) /\ <<>> \in Seq(Byte)
  BY <1>1, <1>3, BytesConcat
<1>6. taken \o (rawData \o came) = early \o came
  BY <1>1, <1>3, BytesAssoc
<1>. HIDE DEF early
<1>7. early \o came \in Seq(Byte) /\ (early \o came) \o left = early \o late
  <2>1. early \o came \in Seq(Byte)
    BY <1>1, <1>2, BytesConcat
  <2>2. (early \o came) \o left = early \o (came \o left)
    BY <1>1, <1>2, BytesAssoc
  <2>3. QED
    BY <1>1, <2>1, <2>2
<1>8. (early \o came) \o <<>> = early \o came
  BY <1>7, NoBytes
<1>9. taken' \o rawData' \o readBuffer' \o wire' = FlattenSeq(sent)
  <2>1. taken' \o rawData' = early \o came
    BY <1>4, <1>6
  <2>2. taken' \o rawData' \o readBuffer' = early \o came
    BY <1>4, <1>8, <2>1
  <2>3. QED
    BY <1>2, <1>4, <1>7, <2>2
<1>10. QED
  BY <1>1, <1>4, <1>5, <1>9 DEF BytesInOrder

\* Inside the slot the bytes only go into the buffer of the socket.
LEMMA WaitedBytes ==
    ASSUME PathInv, WaitForReadyRead
    PROVE  /\ wire' \in Seq(Byte) /\ readBuffer' \in Seq(Byte)
           /\ rawData' \in Seq(Byte) /\ BytesInOrder'
<1>1. UNCHANGED <<taken, sent>>
  BY DEF WaitForReadyRead
<1>2. CASE UNCHANGED buffers
  BY <1>1, <1>2 DEF buffers, PathInv, DataOK, BytesInOrder
<1>3. ASSUME NEW n \in 1..Len(wire), NEW below, OnDataArrived(n, below)
      PROVE  /\ wire' \in Seq(Byte) /\ readBuffer' \in Seq(Byte)
             /\ rawData' \in Seq(Byte) /\ BytesInOrder'
  BY <1>1, <1>3, ArrivedBytes
<1>4. ASSUME NEW n \in 1..Len(wire),
             readBuffer' = readBuffer \o SubSeq(wire, 1, n),
             wire' = SubSeq(wire, n + 1, Len(wire)), UNCHANGED rawData
      PROVE  /\ wire' \in Seq(Byte) /\ readBuffer' \in Seq(Byte)
             /\ rawData' \in Seq(Byte) /\ BytesInOrder'
  <2>. DEFINE came == readBuffer \o SubSeq(wire, 1, n)
              left == SubSeq(wire, n + 1, Len(wire))
              early == taken \o rawData
              late == readBuffer \o wire
  <2>1. came \in Seq(Byte) /\ left \in Seq(Byte) /\ came \o left = late
    BY ComeIn
  <2>2. early \in Seq(Byte) /\ early \o late = FlattenSeq(sent)
    BY FourPlaces
  <2>3. readBuffer' = came /\ wire' = left
    BY <1>4
  <2>. HIDE DEF came, left, late
  <2>4. taken' \o rawData' = early
    BY <1>1, <1>4
  <2>. HIDE DEF early
  <2>5. (early \o came) \o left = early \o late
    BY <2>1, <2>2, BytesAssoc
  <2>6. taken' \o rawData' \o readBuffer' \o wire' = FlattenSeq(sent)
    <3>1. taken' \o rawData' \o readBuffer' = early \o came
      BY <2>3, <2>4
    <3>2. QED
      BY <2>2, <2>3, <2>5, <3>1
  <2>7. rawData \in Seq(Byte)
    BY DEF PathInv, DataOK
  <2>8. QED
    BY <1>1, <1>4, <2>1, <2>3, <2>6, <2>7 DEF BytesInOrder
<1>5. QED
  BY <1>2, <1>3, <1>4 DEF WaitForReadyRead

\* receive(): everything that was in the helper.
LEMMA TakenBytes ==
    ASSUME PathInv, Take
    PROVE  rawData' \in Seq(Byte) /\ taken' \in Seq(Byte) /\ BytesInOrder'
<1>1. UNCHANGED <<wire, readBuffer, sent>>
  BY DEF Take
<1>2. taken \in Seq(Byte) /\ rawData \in Seq(Byte)
  BY DEF PathInv, DataOK
<1>3. CASE UNCHANGED <<rawData, taken>>
  BY <1>1, <1>2, <1>3 DEF PathInv, BytesInOrder
<1>4. CASE rawData' = RawDataTaken /\ taken' = taken \o rawData
  <2>1. taken' \in Seq(Byte) /\ rawData' = <<>> /\ rawData' \in Seq(Byte)
    BY <1>2, <1>4, BytesConcat DEF RawDataTaken
  <2>2. taken' \o <<>> = taken'
    BY <2>1, ConcatEmpty
  <2>3. taken' \o rawData' = taken \o rawData
    BY <1>4, <2>1, <2>2
  <2>4. QED
    BY <1>1, <2>1, <2>3 DEF PathInv, BytesInOrder
<1>5. QED
  BY <1>3, <1>4 DEF Take

\* The peer's send().
LEMMA SentBytes ==
    ASSUME PathInv, PeerSends
    PROVE  wire' \in Seq(Byte) /\ sent' \in Seq(Seq(Byte)) /\ BytesInOrder'
<1>1. PICK packet \in Traffic[role][Len(sent) + 1] :
          wire' = wire \o packet /\ sent' = Append(sent, packet)
  BY DEF PeerSends
<1>2. /\ role \in {"server", "client"} /\ sent \in Seq(Seq(Byte))
      /\ wire \in Seq(Byte)
  BY DEF PathInv, DataOK
<1>3. packet \in Seq(Byte)
  <2>1. PICK traffic : traffic = Traffic[role]
    OBVIOUS
  <2>2. PICK n : n = Len(sent) + 1
    OBVIOUS
  <2>3. traffic \in Seq(SUBSET Seq(Byte))
    BY <1>2, <2>1, TrafficAssumption
  <2>4. Len(traffic) \in Nat /\ Len(sent) \in Nat
    BY <1>2, <2>3, LenProperties
  <2>5. Len(sent) < Len(traffic)
    BY <2>1 DEF PeerSends
  <2>6. n \in 1..Len(traffic)
    BY <2>2, <2>4, <2>5
  <2>7. traffic[n] \in SUBSET Seq(Byte)
    BY <2>3, <2>6, ElementOfSeq
  <2>8. QED
    BY <1>1, <2>1, <2>2, <2>7
<1>4. wire' \in Seq(Byte) /\ sent' \in Seq(Seq(Byte))
  BY <1>1, <1>2, <1>3, BytesConcat, AppendProperties
<1>. DEFINE front == taken \o rawData \o readBuffer
<1>5. front \in Seq(Byte)
  <2>1. /\ readBuffer \in Seq(Byte) /\ rawData \in Seq(Byte)
        /\ taken \in Seq(Byte)
    BY DEF PathInv, DataOK
  <2>2. taken \o rawData \in Seq(Byte)
    BY <2>1, BytesConcat
  <2>3. QED
    BY <2>1, <2>2, BytesConcat
<1>6. front \o wire = FlattenSeq(sent) /\ UNCHANGED <<taken, rawData, readBuffer>>
  BY DEF PathInv, BytesInOrder, PeerSends
<1>7. front' = front
  BY <1>6
<1>. HIDE DEF front
<1>8. front \o (wire \o packet) = (front \o wire) \o packet
  BY <1>2, <1>3, <1>5, BytesAssoc
<1>9. FlattenSeq(sent') = FlattenSeq(sent) \o packet
  BY <1>1, <1>2, <1>3, FlattenAppend
<1>10. front' \o wire' = FlattenSeq(sent')
  BY <1>1, <1>6, <1>7, <1>8, <1>9
<1>11. QED
  BY <1>4, <1>10 DEF front, BytesInOrder
------------------------------------------------------------------------------
(* The invariant is inductive, and says what the properties say.           *)

LEMMA InitOK ==
    ASSUME PathInit
    PROVE  PathInv
<1>1. <<>> \in Seq(Byte) /\ <<>> \in Seq(Seq(Byte))
  BY EmptySeq
<1>2. DataOK
  BY <1>1 DEF PathInit, DataOK
<1>3. StackOK(stack, rawData)
  <2>1. CASE role = "client"
    <3>. DEFINE f == Call("invite")
    <3>1. f \in Frame /\ f \in Quiet /\ f.kind = "call"
      BY NewFrames
    <3>2. stack = <<f>>
      BY <2>1 DEF PathInit
    <3>. HIDE DEF f
    <3>3. ~Slot(f) /\ ~Invites(f)
      BY <3>1 DEF Slot, Invites
    <3>4. StackOK(<<>>, rawData)
      BY EmptyStack
    <3>5. StackOK(<<f>> \o <<>>, rawData)
      BY <3>1, <3>3, <3>4, PushOK
    <3>6. stack = <<f>> \o <<>>
      BY <3>2, OneFrame
    <3>7. QED
      BY <3>5, <3>6
  <2>2. CASE role # "client"
    BY <2>2, EmptyStack DEF PathInit
  <2>3. QED
    BY <2>1, <2>2
<1>4. Settled(stack, rawData, callbackOn, valid)
  BY DEF PathInit, Settled
<1>5. BytesInOrder
  <2>1. <<>> \o <<>> \o <<>> \o <<>> = <<>>
    <3>1. <<>> \o <<>> = <<>>
      BY <1>1, NoBytes
    <3>2. QED
      BY <3>1
  <2>2. FlattenSeq(<<>>) = <<>>
    BY DEF FlattenSeq
  <2>3. QED
    BY <2>1, <2>2 DEF PathInit, BytesInOrder
<1>6. QED
  BY <1>2, <1>3, <1>4, <1>5 DEF PathInv

\* A step that only moves bytes nowhere.
LEMMA BytesStay ==
    ASSUME PathInv, UNCHANGED <<role, buffers, sent, taken>>,
           callbackOn' \in BOOLEAN, valid' \in BOOLEAN,
           delivered' \in Seq(Seq(Byte))
    PROVE  DataOK' /\ BytesInOrder'
BY DEF PathInv, DataOK, BytesInOrder, buffers

LEMMA DeliveredOK ==
    ASSUME PathInv, NEW task, Delivering(task)
    PROVE  /\ UNCHANGED <<role, buffers, sent, taken>>
           /\ valid' \in BOOLEAN /\ delivered' \in Seq(Seq(Byte))
<1>1. Top \in ReaderFrame
  BY ReaderOnTop DEF PathInv, Delivering
<1>2. Next1.packet \in Seq(Byte)
  BY <1>1, PacketBytes DEF ReaderFrame, Next1, Delivering
<1>3. delivered \in Seq(Seq(Byte)) /\ valid \in BOOLEAN
  BY DEF PathInv, DataOK
<1>4. delivered' = Append(delivered, Next1.packet)
  BY DEF Delivering
<1>5. delivered' \in Seq(Seq(Byte))
  BY <1>2, <1>3, <1>4, AppendProperties
<1>6. QED
  BY <1>3, <1>5 DEF Delivering

LEMMA PathStep ==
    ASSUME PathInv, [PathNext]_pathVars
    PROVE  PathInv'
<1>. DEFINE Stacked == /\ StackOK(stack', rawData')
                       /\ Settled(stack', rawData', callbackOn', valid')
<1>1. ASSUME Stacked, DataOK', BytesInOrder'
      PROVE  PathInv'
  BY <1>1 DEF PathInv
<1>2. callbackOn \in BOOLEAN /\ valid \in BOOLEAN /\ delivered \in Seq(Seq(Byte))
  BY DEF PathInv, DataOK
<1>3. CASE PeerSends
  <2>1. Stacked
    BY <1>3, OutsideStepOK
  <2>2. wire' \in Seq(Byte) /\ sent' \in Seq(Seq(Byte)) /\ BytesInOrder'
    BY <1>3, SentBytes
  <2>3. DataOK'
    BY <1>3, <2>2 DEF PeerSends, PathInv, DataOK
  <2>. HIDE DEF Stacked
  <2>4. QED
    BY <1>1, <2>1, <2>2, <2>3
<1>4. CASE Disconnected
  <2>1. Stacked
    BY <1>4, OutsideStepOK
  <2>2. DataOK' /\ BytesInOrder'
    BY <1>2, <1>4, BytesStay DEF Disconnected
  <2>. HIDE DEF Stacked
  <2>3. QED
    BY <1>1, <2>1, <2>2
<1>5. CASE ReadyRead
  <2>1. Stacked
    BY <1>5, ReadyReadOK
  <2>2. UNCHANGED <<role, callbackOn, valid, sent, taken, delivered>>
    BY <1>5 DEF ReadyRead
  <2>3. PICK n \in 1..Len(wire) : OnDataArrived(n, <<>>)
    BY <1>5 DEF ReadyRead
  <2>4. /\ wire' \in Seq(Byte) /\ readBuffer' \in Seq(Byte)
        /\ rawData' \in Seq(Byte) /\ BytesInOrder'
    BY <2>2, <2>3, ArrivedBytes
  <2>5. DataOK'
    BY <2>2, <2>4 DEF PathInv, DataOK
  <2>. HIDE DEF Stacked
  <2>6. QED
    BY <1>1, <2>1, <2>4, <2>5
<1>6. CASE WaitForReadyRead
  <2>1. Stacked
    BY <1>6, WaitOK
  <2>2. UNCHANGED <<role, callbackOn, valid, sent, taken, delivered>>
    BY <1>6 DEF WaitForReadyRead
  <2>3. /\ wire' \in Seq(Byte) /\ readBuffer' \in Seq(Byte)
        /\ rawData' \in Seq(Byte) /\ BytesInOrder'
    BY <1>6, WaitedBytes
  <2>4. DataOK'
    BY <2>2, <2>3 DEF PathInv, DataOK
  <2>. HIDE DEF Stacked
  <2>5. QED
    BY <1>1, <2>1, <2>3, <2>4
<1>7. CASE Take
  <2>1. Stacked
    BY <1>7, TakeOK
  <2>2. UNCHANGED <<role, wire, readBuffer, callbackOn, valid, sent, delivered>>
    BY <1>7 DEF Take
  <2>3. rawData' \in Seq(Byte) /\ taken' \in Seq(Byte) /\ BytesInOrder'
    BY <1>7, TakenBytes
  <2>4. DataOK'
    BY <2>2, <2>3 DEF PathInv, DataOK
  <2>. HIDE DEF Stacked
  <2>5. QED
    BY <1>1, <2>1, <2>3, <2>4
<1>8. CASE EndOfBatch
  <2>1. Stacked
    BY <1>8, EndOfBatchOK
  <2>2. DataOK' /\ BytesInOrder'
    BY <1>2, <1>8, BytesStay DEF EndOfBatch
  <2>. HIDE DEF Stacked
  <2>3. QED
    BY <1>1, <2>1, <2>2
<1>9. CASE IgnoreMalformed
  <2>1. Stacked
    BY <1>9, MalformedOK
  <2>2. DataOK' /\ BytesInOrder'
    BY <1>2, <1>9, BytesStay DEF IgnoreMalformed
  <2>. HIDE DEF Stacked
  <2>3. QED
    BY <1>1, <2>1, <2>2
<1>10. CASE \/ ServerPacketArrives \/ ClientPacketArrives
            \/ InvitationArrives \/ AckArrives
  <2>1. Stacked
    BY <1>10, PacketOK
  <2>2. callbackOn' \in BOOLEAN /\ \E task : Delivering(task)
    BY <1>2, <1>10 DEF ServerPacketArrives, ClientPacketArrives,
                       InvitationArrives, AckArrives
  <2>3. DataOK' /\ BytesInOrder'
    BY <2>2, DeliveredOK, BytesStay
  <2>. HIDE DEF Stacked
  <2>4. QED
    BY <1>1, <2>1, <2>3
<1>11. CASE TryHandshake
  <2>1. Stacked
    BY <1>11, TryHandshakeOK
  <2>2. DataOK' /\ BytesInOrder'
    BY <1>2, <1>11, BytesStay DEF TryHandshake
  <2>. HIDE DEF Stacked
  <2>3. QED
    BY <1>1, <2>1, <2>2
<1>12. CASE StartCall
  <2>1. Stacked
    BY <1>12, StartCallOK
  <2>2. DataOK' /\ BytesInOrder'
    BY <1>2, <1>12, BytesStay DEF StartCall
  <2>. HIDE DEF Stacked
  <2>3. QED
    BY <1>1, <2>1, <2>2
<1>13. CASE EndCall
  <2>1. Stacked
    BY <1>13, EndCallOK
  <2>2. DataOK' /\ BytesInOrder'
    BY <1>2, <1>13, BytesStay DEF EndCall, CallbackAfterCall
  <2>. HIDE DEF Stacked
  <2>3. QED
    BY <1>1, <2>1, <2>2
<1>14. CASE GiveUp
  <2>1. Stacked
    BY <1>14, GiveUpOK
  <2>2. DataOK' /\ BytesInOrder'
    BY <1>2, <1>14, BytesStay DEF GiveUp
  <2>. HIDE DEF Stacked
  <2>3. QED
    BY <1>1, <2>1, <2>2
<1>15. ASSUME NEW task \in {"client", "invite"}, Poll(task)
       PROVE  PathInv'
  <2>1. Stacked
    BY <1>15, PollOK
  <2>2. DataOK' /\ BytesInOrder'
    BY <1>2, <1>15, BytesStay DEF Poll
  <2>. HIDE DEF Stacked
  <2>3. QED
    BY <1>1, <2>1, <2>2
<1>16. CASE UNCHANGED pathVars
  BY <1>16 DEF pathVars, buffers, PathInv, DataOK, BytesInOrder
<1>. HIDE DEF Stacked
<1>17. QED
  BY <1>3, <1>4, <1>5, <1>6, <1>7, <1>8, <1>9, <1>10, <1>11, <1>12, <1>13,
     <1>14, <1>15, <1>16 DEF PathNext, ReaderStep

LEMMA PathInvariant == PathSpec => []PathInv
<1>1. PathInit => PathInv
  BY InitOK
<1>2. PathInv /\ [PathNext]_pathVars => PathInv'
  BY PathStep
<1>3. QED
  BY <1>1, <1>2, PTL DEF PathSpec

LEMMA PathInvImplies ==
    ASSUME PathInv
    PROVE  PathTypeOK /\ NothingLeftInRawData /\ NothingArrivesInSlot
<1>1. PathTypeOK
  <2>1. stack \in Seq(Frame) /\ OneSlot(stack)
    BY DEF PathInv, StackOK
  <2>2. \A i \in 1..Len(stack) : stack[i] \in Frame
    BY <2>1, ElementOfSeq
  <2>3. \A i \in 1..Len(stack) :
          \/ stack[i] \in [kind: {"call"}, task: {"client", "invite"}]
          \/ stack[i] \in [kind: {"reader"}, slot: BOOLEAN,
                           task: {"server", "client", "invitation", "invite"},
                           at: {"receive", "take", "packets"}, stream: Seq(Byte)]
    BY <2>2 DEF Frame, CallFrame, ReaderFrame
  <2>4. \A i, j \in 1..Len(stack) :
          (/\ stack[i].kind = "reader" /\ stack[i].slot
           /\ stack[j].kind = "reader" /\ stack[j].slot) => i = j
    BY <2>1 DEF OneSlot, Slot
  <2>5. DataOK
    BY DEF PathInv
  <2>6. {wire, readBuffer, rawData, taken} \subseteq Seq(Byte)
    BY <2>5 DEF DataOK
  <2>7. QED
    BY <2>3, <2>4, <2>5, <2>6 DEF DataOK, PathTypeOK
<1>2. NothingLeftInRawData
  BY DEF PathInv, Settled, NothingLeftInRawData
<1>3. NothingArrivesInSlot
  <2>. SUFFICES ASSUME NEW i \in 1..Len(stack), rawData # <<>>
                PROVE  ~(/\ stack[i].kind = "reader" /\ stack[i].slot
                         /\ stack[i].at = "packets")
    BY DEF NothingArrivesInSlot
  <2>1. stack \in Seq(Quiet)
    BY DEF PathInv, StackOK
  <2>2. stack[i] \in Quiet
    BY <2>1, ElementOfSeq
  <2>3. QED
    BY <2>2 DEF Quiet, Slot
<1>4. QED
  BY <1>1, <1>2, <1>3
------------------------------------------------------------------------------
(* The theorems                                                            *)

\* For every traffic, every way in which its bytes arrive and every nesting of
\* readers and calls the buffers and the frames keep their types, and no two
\* frames run in the slot of readyRead at once.
THEOREM PathTypeCorrect == PathSpec => []PathTypeOK
<1>1. PathInv => PathTypeOK
  BY PathInvImplies
<1>2. QED
  BY <1>1, PathInvariant, PTL

\* Taken from the helper, waiting in it, waiting in the socket, on the wire: in
\* this order the bytes are those of the peer's packets, always.
THEOREM BytesInOrderCorrect == PathSpec => []BytesInOrder
<1>1. PathInv => BytesInOrder
  BY DEF PathInv
<1>2. QED
  BY <1>1, PathInvariant, PTL

\* The thread does not return to the event loop with the callback registered
\* and bytes in m_rawDataFromSocket, whatever it has called and answered.
THEOREM RawDataCorrect == PathSpec => []NothingLeftInRawData
<1>1. PathInv => NothingLeftInRawData
  BY PathInvImplies
<1>2. QED
  BY <1>1, PathInvariant, PTL

\* A batch that is read in the slot of readyRead is all there is until its
\* slot returns, however deep the calls inside it poll.
THEOREM SlotCorrect == PathSpec => []NothingArrivesInSlot
<1>1. PathInv => NothingArrivesInSlot
  BY PathInvImplies
<1>2. QED
  BY <1>1, PathInvariant, PTL
==============================================================================
