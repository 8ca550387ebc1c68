--------------------------- MODULE MulUartProofs ---------------------------
(***************************************************************************)
(* Theorems about MulUart, for any number of bytes, any FIFO and any       *)
(* arguments of the script.                                                *)
(***************************************************************************)
EXTENDS MulUartAsUart, SequenceTheorems, TLAPS

\* The bytes of device c that the program still holds or has returned, in order.
Held(c) == delivered[c] \o (Taken(c) \o fifo[c])

\* Of the bytes 1 to a, those of h are held, in order, and those of l are lost.
Accounts(h, a, l) ==
  /\ h \in Seq(Nat) /\ a \in Nat /\ Len(h) <= a
  /\ l \subseteq 1 .. a
  /\ \A i \in 1 .. Len(h) : h[i] \in 1 .. a /\ h[i] \notin l
  /\ \A n \in 1 .. a : n \in l \/ \E i \in 1 .. Len(h) : h[i] = n
  /\ \A i, j \in 1 .. Len(h) : i < j => h[i] < h[j]

\* The inductive invariant: registers and flags have their types, the FIFO has
\* its bound, the buffer is empty outside a call, and the bytes are accounted for.
Registers ==
  /\ data \in [Channels -> [bits : 0 .. 9, parity : 0 .. 2, stop : 0 .. 3]]
  /\ hw \in [Channels -> [asked : 0 .. 2, halves : {0, 2, 3, 4}]]
  /\ irq \in [Channels -> BOOLEAN] /\ callback \in [Channels -> BOOLEAN]
Flags ==
  /\ event \in [Channels -> BOOLEAN] /\ told \in [Channels -> BOOLEAN]
Buffers ==
  /\ pc \in {"idle", "read", "any", "halted"} /\ dev \in Channels /\ want \in 0 .. MaxRead
  /\ revbuf \in Seq(Nat)
  /\ pc \notin {"read", "any"} => revbuf = <<>>
Streams ==
  /\ fifo \in [Channels -> Seq(Nat)] /\ delivered \in [Channels -> Seq(Nat)]
  /\ arrived \in [Channels -> Nat] /\ lost \in [Channels -> SUBSET Nat]
  /\ \A c \in Channels :
       /\ Len(fifo[c]) <= FifoDepth /\ arrived[c] <= MaxBytes[c]
       /\ Accounts(Held(c), arrived[c], lost[c])
BytesInv == Registers /\ Flags /\ Buffers /\ Streams

-----------------------------------------------------------------------------
\* The elements of a concatenation.
LEMMA ConcatAt ==
  ASSUME NEW d \in Seq(Nat), NEW r \in Seq(Nat)
  PROVE  /\ d \o r \in Seq(Nat) /\ Len(d \o r) = Len(d) + Len(r)
         /\ Len(d) \in Nat /\ Len(r) \in Nat
         /\ \A i \in 1 .. Len(d) : (d \o r)[i] = d[i]
         /\ \A i \in 1 .. Len(r) : (d \o r)[Len(d) + i] = r[i]
OBVIOUS

\* Concatenation is associative.
LEMMA ConcatRegroups ==
  ASSUME NEW s \in Seq(Nat), NEW t \in Seq(Nat), NEW u \in Seq(Nat)
  PROVE  (s \o t) \o u = s \o (t \o u)
BY ConcatAssociative

\* The next byte joins the bytes that are held.
LEMMA AccountsAppend ==
  ASSUME NEW h, NEW a, NEW l, Accounts(h, a, l)
  PROVE  Accounts(Append(h, a + 1), a + 1, l)
<1> DEFINE g == Append(h, a + 1)
<1>1. h \in Seq(Nat) /\ a \in Nat /\ Len(h) \in Nat /\ Len(h) <= a
  BY DEF Accounts
<1>2. /\ g \in Seq(Nat) /\ Len(g) = Len(h) + 1
      /\ \A i \in 1 .. Len(h) : g[i] = h[i]
      /\ g[Len(h) + 1] = a + 1
  BY <1>1
<1> HIDE DEF g
<1>3. \A i \in 1 .. Len(g) : i \in 1 .. Len(h) \/ i = Len(h) + 1
  BY <1>1, <1>2
<1>4. l \subseteq 1 .. a + 1 /\ a + 1 \notin l
  BY <1>1 DEF Accounts
<1>5. \A i \in 1 .. Len(h) : h[i] \in 1 .. a /\ h[i] \notin l
  BY DEF Accounts
<1>6. \A i \in 1 .. Len(g) : g[i] \in 1 .. a + 1 /\ g[i] \notin l
  BY <1>1, <1>2, <1>3, <1>4, <1>5
<1>7. ASSUME NEW n \in 1 .. a + 1, n \notin l
      PROVE  \E i \in 1 .. Len(g) : g[i] = n
  <2>1. CASE n = a + 1
    BY <2>1, <1>1, <1>2
  <2>2. CASE n # a + 1
    <3>1. PICK i \in 1 .. Len(h) : h[i] = n
      BY <2>2, <1>1, <1>7 DEF Accounts
    <3>2. i \in 1 .. Len(g) /\ g[i] = n
      BY <3>1, <1>1, <1>2
    <3>3. QED
      BY <3>2
  <2>3. QED
    BY <2>1, <2>2
<1>8. ASSUME NEW i \in 1 .. Len(g), NEW j \in 1 .. Len(g), i < j
      PROVE  g[i] < g[j]
  <2>1. i \in 1 .. Len(h)
    BY <1>1, <1>2, <1>8
  <2>2. CASE j = Len(h) + 1
    BY <2>1, <2>2, <1>1, <1>2, <1>5
  <2>3. CASE j \in 1 .. Len(h)
    BY <2>1, <2>3, <1>2, <1>8 DEF Accounts
  <2>4. QED
    BY <2>2, <2>3, <1>3
<1>9. QED
  BY <1>1, <1>2, <1>4, <1>6, <1>7, <1>8 DEF Accounts, g

\* The next byte is dropped.
LEMMA AccountsDrop ==
  ASSUME NEW h, NEW a, NEW l, Accounts(h, a, l)
  PROVE  Accounts(h, a + 1, l \cup {a + 1})
<1>1. h \in Seq(Nat) /\ a \in Nat /\ Len(h) \in Nat /\ Len(h) <= a
  BY DEF Accounts
<1>2. l \cup {a + 1} \subseteq 1 .. a + 1
  BY <1>1 DEF Accounts
<1>3. \A i \in 1 .. Len(h) : h[i] \in 1 .. a + 1 /\ h[i] \notin l \cup {a + 1}
  BY <1>1 DEF Accounts
<1>4. \A n \in 1 .. a + 1 : n \in 1 .. a \/ n = a + 1
  BY <1>1
<1>5. \A n \in 1 .. a + 1 : n \in l \cup {a + 1} \/ \E i \in 1 .. Len(h) : h[i] = n
  BY <1>4 DEF Accounts
<1>6. \A i, j \in 1 .. Len(h) : i < j => h[i] < h[j]
  BY DEF Accounts
<1>7. QED
  BY <1>1, <1>2, <1>3, <1>5, <1>6 DEF Accounts

\* The last of the bytes held, those of r, are thrown away.
LEMMA AccountsCut ==
  ASSUME NEW d \in Seq(Nat), NEW r \in Seq(Nat), NEW a, NEW l, Accounts(d \o r, a, l)
  PROVE  Accounts(d, a, l \cup ToSet(r))
<1> DEFINE h == d \o r
<1>1. /\ h \in Seq(Nat) /\ Len(h) = Len(d) + Len(r) /\ Len(d) \in Nat /\ Len(r) \in Nat
      /\ \A i \in 1 .. Len(d) : h[i] = d[i]
      /\ \A i \in 1 .. Len(r) : h[Len(d) + i] = r[i]
  BY ConcatAt
<1>2. ToSet(r) = {r[i] : i \in 1 .. Len(r)}
  BY DEF ToSet
<1>3. Accounts(h, a, l)
  OBVIOUS
<1> HIDE DEF h
<1>4. /\ a \in Nat /\ Len(h) <= a /\ l \subseteq 1 .. a
      /\ \A i \in 1 .. Len(h) : h[i] \in 1 .. a /\ h[i] \notin l
      /\ \A n \in 1 .. a : n \in l \/ \E i \in 1 .. Len(h) : h[i] = n
      /\ \A i, j \in 1 .. Len(h) : i < j => h[i] < h[j]
  BY <1>3 DEF Accounts
<1>5. \A i \in 1 .. Len(d) : i \in 1 .. Len(h)
  BY <1>1
<1>6. \A i \in 1 .. Len(r) : Len(d) + i \in 1 .. Len(h)
  BY <1>1
<1>7. l \cup ToSet(r) \subseteq 1 .. a
  <2>1. ASSUME NEW i \in 1 .. Len(r) PROVE r[i] \in 1 .. a
    BY <1>1, <1>4, <1>6
  <2> QED BY <1>2, <1>4, <2>1
<1>8. ASSUME NEW i \in 1 .. Len(d)
      PROVE  d[i] \in 1 .. a /\ d[i] \notin l \cup ToSet(r)
  <2>1. d[i] = h[i] /\ i \in 1 .. Len(h)
    BY <1>1, <1>5
  <2>2. \A j \in 1 .. Len(r) : h[i] < h[Len(d) + j]
    <3> SUFFICES ASSUME NEW j \in 1 .. Len(r) PROVE h[i] < h[Len(d) + j]
      OBVIOUS
    <3>1. i < Len(d) + j /\ Len(d) + j \in 1 .. Len(h)
      BY <1>1, <1>6
    <3>2. QED
      BY <2>1, <3>1, <1>4
  <2>3. \A j \in 1 .. Len(r) : r[j] # d[i]
    <3> SUFFICES ASSUME NEW j \in 1 .. Len(r) PROVE r[j] # d[i]
      OBVIOUS
    <3>1. d[i] < r[j]
      BY <2>1, <2>2, <1>1
    <3>2. d[i] \in Nat /\ r[j] \in Nat
      OBVIOUS
    <3>3. QED
      BY <3>1, <3>2
  <2>4. QED
    BY <2>1, <2>3, <1>2, <1>4
<1>9. ASSUME NEW n \in 1 .. a, n \notin l \cup ToSet(r)
      PROVE  \E i \in 1 .. Len(d) : d[i] = n
  <2>1. PICK i \in 1 .. Len(h) : h[i] = n
    BY <1>4, <1>9
  <2>2. CASE i \in 1 .. Len(d)
    BY <2>1, <2>2, <1>1
  <2>3. CASE i \notin 1 .. Len(d)
    <3>1. i - Len(d) \in 1 .. Len(r) /\ i = Len(d) + (i - Len(d))
      BY <2>3, <1>1
    <3>2. h[i] = r[i - Len(d)]
      BY <3>1, <1>1
    <3>3. QED
      BY <2>1, <3>1, <3>2, <1>2, <1>9
  <2>4. QED
    BY <2>2, <2>3
<1>10. \A i, j \in 1 .. Len(d) : i < j => d[i] < d[j]
  BY <1>1, <1>4, <1>5
<1>11. Len(d) <= a
  BY <1>1, <1>4
<1>12. QED
  BY <1>4, <1>7, <1>8, <1>9, <1>10, <1>11 DEF Accounts

\* A byte moves from the head of the FIFO to the end of the buffer.
LEMMA ByteMoves ==
  ASSUME NEW b \in Seq(Nat), NEW f \in Seq(Nat), f # <<>>
  PROVE  /\ Append(b, Head(f)) \o Tail(f) = b \o f
         /\ Append(b, Head(f)) \in Seq(Nat) /\ Tail(f) \in Seq(Nat)
         /\ Len(Tail(f)) = Len(f) - 1
<1> DEFINE byte == Head(f)
           one == <<byte>>
           rest == Tail(f)
           g == one \o rest
<1>1. /\ byte \in Nat /\ rest \in Seq(Nat) /\ Len(rest) = Len(f) - 1
      /\ \A i \in 1 .. Len(rest) : rest[i] = f[i + 1]
  BY HeadTailProperties
<1>2. Len(f) \in Nat \ {0} /\ byte = f[1]
  BY EmptySeq
<1> HIDE DEF byte, rest
<1>3. one \in Seq(Nat) /\ Len(one) = 1 /\ one[1] = f[1]
  BY <1>1, <1>2
<1>4. Append(b, byte) = b \o one /\ Append(b, byte) \in Seq(Nat)
  BY <1>1, AppendIsConcat
<1> HIDE DEF one
<1>5. /\ g \in Seq(Nat) /\ Len(g) = Len(one) + Len(rest)
      /\ \A i \in 1 .. Len(one) : g[i] = one[i]
      /\ \A i \in 1 .. Len(rest) : g[Len(one) + i] = rest[i]
  BY <1>1, <1>3, ConcatAt
<1>6. (b \o one) \o rest = b \o g
  BY <1>1, <1>3, ConcatRegroups
<1> HIDE DEF g
<1>7. Len(g) = Len(f)
  BY <1>1, <1>2, <1>3, <1>5
<1>8. ASSUME NEW i \in 1 .. Len(g) PROVE g[i] = f[i]
  <2>1. CASE i = 1
    BY <2>1, <1>3, <1>5
  <2>2. CASE i # 1
    <3>1. i - 1 \in 1 .. Len(rest) /\ 1 + (i - 1) = i /\ (i - 1) + 1 = i
      BY <2>2, <1>1, <1>2, <1>7
    <3>2. g[Len(one) + (i - 1)] = rest[i - 1]
      BY <3>1, <1>5
    <3>3. QED
      BY <3>1, <3>2, <1>1, <1>3
  <2>3. QED
    BY <2>1, <2>2
<1>9. g = f
  BY <1>5, <1>7, <1>8, SeqEqual
<1>10. QED
  BY <1>1, <1>4, <1>6, <1>9 DEF byte, rest

-----------------------------------------------------------------------------
\* A step that leaves the bytes where they are keeps the account.
LEMMA StreamsStay ==
  ASSUME Streams, UNCHANGED stream, \A c \in Channels : Taken(c)' = Taken(c)
  PROVE  Streams'
<1>1. \A c \in Channels : Held(c)' = Held(c)
  BY DEF Held, stream
<1>2. QED
  BY <1>1 DEF Streams, stream

\* The invariant holds at the start.
LEMMA InitBytesInv ==
  ASSUME Init
  PROVE  BytesInv
<1>1. \A c \in Channels : Held(c) = <<>>
  BY DEF Init, Held, Taken
<1>2. Accounts(<<>>, 0, {})
  BY DEF Accounts
<1>3. Streams
  <2>1. \A c \in Channels : Len(fifo[c]) = 0 /\ 0 <= FifoDepth /\ 0 <= MaxBytes[c]
    BY BoundsAssumption DEF Init
  <2>2. \A c \in Channels : fifo[c] = <<>> /\ arrived[c] = 0 /\ lost[c] = {}
    BY DEF Init
  <2>3. /\ fifo \in [Channels -> Seq(Nat)] /\ delivered \in [Channels -> Seq(Nat)]
        /\ arrived \in [Channels -> Nat] /\ lost \in [Channels -> SUBSET Nat]
    BY DEF Init
  <2>4. \A c \in Channels : Accounts(Held(c), arrived[c], lost[c])
    BY <1>1, <1>2, <2>2
  <2>5. \A c \in Channels : Len(fifo[c]) <= FifoDepth /\ arrived[c] <= MaxBytes[c]
    BY <2>1, <2>2
  <2>6. QED
    BY <2>3, <2>4, <2>5 DEF Streams
<1>4. Registers /\ Flags
  BY DEF Init, Registers, Flags, Unset
<1>5. Buffers
  BY BoundsAssumption DEF Init, Buffers
<1>6. QED
  BY <1>3, <1>4, <1>5 DEF BytesInv

\* A received byte keeps the invariant.
LEMMA ReceiveKeeps ==
  ASSUME BytesInv, NEW c \in Channels, Receive(c)
  PROVE  BytesInv'
<1>1. UNCHANGED <<data, hw, irq, callback, pc, dev, want, revbuf, delivered, event>>
      /\ told' = [told EXCEPT ![c] = FALSE] /\ arrived[c] < MaxBytes[c]
      /\ arrived' = [arrived EXCEPT ![c] = arrived[c] + 1]
  BY DEF Receive, config, lua
<1>2. Registers' /\ Flags' /\ Buffers'
  BY <1>1 DEF BytesInv, Registers, Flags, Buffers
<1>3. Streams
  BY DEF BytesInv
<1>4. /\ arrived' \in [Channels -> Nat] /\ arrived'[c] = arrived[c] + 1
      /\ \A e \in Channels \ {c} : arrived'[e] = arrived[e]
  BY <1>1, <1>3 DEF Streams
<1>5. \A e \in Channels : Taken(e)' = Taken(e) /\ delivered'[e] = delivered[e]
  BY <1>1 DEF Taken
<1>6. \A e \in Channels : arrived'[e] <= MaxBytes[e]
  <2>1. arrived[c] + 1 <= MaxBytes[c]
    BY <1>1, <1>3, BoundsAssumption DEF Streams
  <2>2. QED
    BY <1>3, <1>4, <2>1 DEF Streams
<1>7. Accounts(Held(c), arrived[c], lost[c]) /\ fifo[c] \in Seq(Nat) /\ Taken(c) \in Seq(Nat)
      /\ delivered[c] \in Seq(Nat) /\ arrived[c] \in Nat
  BY <1>3 DEF Streams, BytesInv, Buffers, Taken
<1>8. CASE Len(fifo[c]) < FifoDepth
  <2>1. fifo' = [fifo EXCEPT ![c] = Append(fifo[c], arrived[c] + 1)] /\ lost' = lost
    BY <1>8 DEF Receive
  <2>2. /\ fifo' \in [Channels -> Seq(Nat)]
        /\ fifo'[c] = Append(fifo[c], arrived[c] + 1)
        /\ \A e \in Channels \ {c} : fifo'[e] = fifo[e]
    BY <2>1, <1>3, <1>7 DEF Streams
  <2>3. Held(c)' = Append(Held(c), arrived[c] + 1)
    <3>1. \A s, t \in Seq(Nat), e \in Nat : s \o Append(t, e) = Append(s \o t, e)
      <4> SUFFICES ASSUME NEW s \in Seq(Nat), NEW t \in Seq(Nat), NEW e \in Nat
                   PROVE  s \o Append(t, e) = Append(s \o t, e)
        OBVIOUS
      <4>1. <<e>> \in Seq(Nat) /\ s \o t \in Seq(Nat)
        OBVIOUS
      <4>2. Append(t, e) = t \o <<e>> /\ Append(s \o t, e) = (s \o t) \o <<e>>
        BY <4>1, AppendIsConcat
      <4>3. (s \o t) \o <<e>> = s \o (t \o <<e>>)
        BY <4>1, ConcatRegroups
      <4>4. QED
        BY <4>2, <4>3
    <3>2. arrived[c] + 1 \in Nat /\ Taken(c) \o fifo[c] \in Seq(Nat)
      BY <1>7
    <3>3. Taken(c) \o Append(fifo[c], arrived[c] + 1)
            = Append(Taken(c) \o fifo[c], arrived[c] + 1)
      BY <3>1, <3>2, <1>7
    <3>4. delivered[c] \o Append(Taken(c) \o fifo[c], arrived[c] + 1)
            = Append(delivered[c] \o (Taken(c) \o fifo[c]), arrived[c] + 1)
      BY <3>1, <3>2, <1>7
    <3>5. QED
      BY <2>2, <3>3, <3>4, <1>5 DEF Held
  <2>4. Accounts(Held(c)', arrived'[c], lost'[c])
    BY <2>1, <2>3, <1>4, <1>7, AccountsAppend
  <2>5. \A e \in Channels \ {c} : Held(e)' = Held(e)
    BY <2>2, <1>5 DEF Held
  <2>6. \A e \in Channels : Accounts(Held(e)', arrived'[e], lost'[e])
    BY <2>1, <2>4, <2>5, <1>3, <1>4 DEF Streams
  <2>7. \A e \in Channels : Len(fifo'[e]) <= FifoDepth
    <3>1. Len(fifo'[c]) <= FifoDepth
      BY <2>2, <1>7, <1>8, BoundsAssumption
    <3>2. QED
      BY <3>1, <2>2, <1>3 DEF Streams
  <2>8. Streams'
    BY <2>1, <2>2, <2>6, <2>7, <1>1, <1>3, <1>4, <1>6 DEF Streams
  <2>9. QED
    BY <2>8, <1>2 DEF BytesInv
<1>9. CASE ~(Len(fifo[c]) < FifoDepth)
  <2>1. lost' = [lost EXCEPT ![c] = lost[c] \cup {arrived[c] + 1}] /\ fifo' = fifo
    BY <1>9 DEF Receive
  <2>2. /\ lost' \in [Channels -> SUBSET Nat]
        /\ lost'[c] = lost[c] \cup {arrived[c] + 1}
        /\ \A e \in Channels \ {c} : lost'[e] = lost[e]
    BY <2>1, <1>3, <1>7 DEF Streams
  <2>3. \A e \in Channels : Held(e)' = Held(e)
    BY <2>1, <1>5 DEF Held
  <2>4. Accounts(Held(c)', arrived'[c], lost'[c])
    <3>1. Accounts(Held(c), arrived[c] + 1, lost[c] \cup {arrived[c] + 1})
      BY <1>7, AccountsDrop
    <3>2. Held(c)' = Held(c)
      BY <2>3
    <3>3. QED
      BY <3>1, <3>2, <2>2, <1>4
  <2>5. \A e \in Channels : Accounts(Held(e)', arrived'[e], lost'[e])
    BY <2>2, <2>3, <2>4, <1>3, <1>4 DEF Streams
  <2>6. Streams'
    BY <2>1, <2>2, <2>5, <1>1, <1>3, <1>4, <1>6 DEF Streams
  <2>7. QED
    BY <2>6, <1>2 DEF BytesInv
<1>10. QED
  BY <1>8, <1>9

\* A byte taken by a read keeps the invariant.
LEMMA TakeByteKeeps ==
  ASSUME BytesInv, TakeByte
  PROVE  BytesInv'
<1>1. UNCHANGED <<data, hw, irq, callback, event, told, arrived, lost, delivered, pc, dev, want>>
      /\ pc \in {"read", "any"} /\ fifo[dev] # <<>>
      /\ fifo' = [fifo EXCEPT ![dev] = Tail(fifo[dev])]
      /\ revbuf' = Append(revbuf, Head(fifo[dev]))
  BY DEF TakeByte, config, notices
<1>2. Registers' /\ Flags'
  BY <1>1 DEF BytesInv, Registers, Flags
<1>3. Streams /\ Buffers /\ dev \in Channels /\ fifo[dev] \in Seq(Nat) /\ revbuf \in Seq(Nat)
  BY DEF BytesInv, Streams, Buffers
<1>4. /\ Append(revbuf, Head(fifo[dev])) \o Tail(fifo[dev]) = revbuf \o fifo[dev]
      /\ Append(revbuf, Head(fifo[dev])) \in Seq(Nat) /\ Tail(fifo[dev]) \in Seq(Nat)
      /\ Len(Tail(fifo[dev])) = Len(fifo[dev]) - 1
  BY <1>1, <1>3, ByteMoves
<1>5. Buffers'
  BY <1>1, <1>3, <1>4 DEF Buffers
<1>6. /\ fifo' \in [Channels -> Seq(Nat)] /\ fifo'[dev] = Tail(fifo[dev])
      /\ \A c \in Channels \ {dev} : fifo'[c] = fifo[c]
  BY <1>1, <1>3, <1>4 DEF Streams
<1>7. ASSUME NEW c \in Channels PROVE Held(c)' = Held(c)
  <2>1. CASE c = dev
    <3>1. Taken(c) = revbuf /\ Taken(c)' = revbuf'
      BY <2>1, <1>1 DEF Taken
    <3>2. revbuf' \o fifo'[c] = revbuf \o fifo[c]
      BY <2>1, <1>1, <1>4, <1>6
    <3>3. QED
      BY <3>1, <3>2, <1>1 DEF Held
  <2>2. CASE c # dev
    <3>1. Taken(c) = <<>> /\ Taken(c)' = <<>> /\ fifo'[c] = fifo[c]
      BY <2>2, <1>1, <1>6 DEF Taken
    <3>2. QED
      BY <3>1, <1>1 DEF Held
  <2>3. QED
    BY <2>1, <2>2
<1>9. \A c \in Channels : Held(c)' = Held(c)
  BY <1>7
<1>10. \A c \in Channels : Len(fifo'[c]) <= FifoDepth
  <2>1. Len(fifo'[dev]) <= FifoDepth
    BY <1>3, <1>4, <1>6, BoundsAssumption DEF Streams
  <2>2. QED
    BY <2>1, <1>3, <1>6 DEF Streams
<1>11. Streams'
  BY <1>1, <1>3, <1>6, <1>9, <1>10 DEF Streams
<1>12. QED
  BY <1>2, <1>5, <1>11 DEF BytesInv

\* A read that returns keeps the invariant.
LEMMA ReadReturnsKeeps ==
  ASSUME BytesInv, ReadReturns
  PROVE  BytesInv'
<1>1. UNCHANGED <<data, hw, irq, callback, event, told, fifo, arrived, lost>>
      /\ pc = "read" /\ pc' = "idle" /\ dev' = 0 /\ want' = 0 /\ revbuf' = <<>>
      /\ delivered' = [delivered EXCEPT ![dev] = delivered[dev] \o revbuf]
  BY DEF ReadReturns, Return, config, notices
<1>2. Registers' /\ Flags'
  BY <1>1 DEF BytesInv, Registers, Flags
<1>3. Streams /\ dev \in Channels /\ fifo[dev] \in Seq(Nat) /\ revbuf \in Seq(Nat)
      /\ delivered[dev] \in Seq(Nat)
  BY DEF BytesInv, Streams, Buffers
<1>4. Buffers'
  BY <1>1, BoundsAssumption DEF Buffers
<1>5. /\ delivered' \in [Channels -> Seq(Nat)] /\ delivered'[dev] = delivered[dev] \o revbuf
      /\ \A c \in Channels \ {dev} : delivered'[c] = delivered[c]
  BY <1>1, <1>3 DEF Streams
<1>6. \A c \in Channels : Taken(c)' = <<>>
  BY <1>1 DEF Taken
<1>7. ASSUME NEW c \in Channels PROVE Held(c)' = Held(c)
  <2>1. Taken(c)' = <<>> /\ fifo'[c] = fifo[c] /\ fifo[c] \in Seq(Nat)
    BY <1>1, <1>3, <1>6 DEF Streams
  <2>2. <<>> \o fifo[c] = fifo[c]
    BY <2>1, ConcatEmptySeq
  <2>3. CASE c = dev
    <3>1. (delivered[c] \o revbuf) \o fifo[c] = delivered[c] \o (revbuf \o fifo[c])
      BY <2>3, <1>3, ConcatRegroups
    <3>2. Taken(c) = revbuf /\ delivered'[c] = delivered[c] \o revbuf
      BY <2>3, <1>1, <1>5 DEF Taken
    <3>3. QED
      BY <2>1, <2>2, <3>1, <3>2 DEF Held
  <2>4. CASE c # dev
    <3>1. Taken(c) = <<>> /\ delivered'[c] = delivered[c]
      BY <2>4, <1>1, <1>5 DEF Taken
    <3>2. QED
      BY <2>1, <3>1 DEF Held
  <2>5. QED
    BY <2>3, <2>4
<1>9. \A c \in Channels : Held(c)' = Held(c)
  BY <1>7
<1>10. Streams'
  BY <1>1, <1>3, <1>5, <1>9 DEF Streams
<1>11. QED
  BY <1>2, <1>4, <1>10 DEF BytesInv

\* A round of any, which drops what it takes, keeps the invariant.
LEMMA AnyRoundKeeps ==
  ASSUME BytesInv, AnyRound
  PROVE  BytesInv'
<1>1. UNCHANGED <<data, hw, irq, callback, event, told, fifo, arrived, delivered>>
      /\ pc = "any" /\ fifo[dev] = <<>> /\ revbuf' = <<>>
      /\ lost' = [lost EXCEPT ![dev] = lost[dev] \cup ToSet(revbuf)]
  BY DEF AnyRound, Return, config, notices
<1>2. Registers' /\ Flags'
  BY <1>1 DEF BytesInv, Registers, Flags
<1>3. Streams /\ Buffers /\ dev \in Channels /\ fifo[dev] \in Seq(Nat) /\ revbuf \in Seq(Nat)
      /\ delivered[dev] \in Seq(Nat)
  BY DEF BytesInv, Streams, Buffers
<1>4. Buffers'
  <2>1. CASE Return
    BY <2>1, BoundsAssumption DEF Buffers, Return
  <2>2. CASE UNCHANGED <<pc, dev, want>>
    BY <2>2, <1>1, <1>3 DEF Buffers
  <2>3. QED
    BY <2>1, <2>2 DEF AnyRound
<1>5. \A c \in Channels : Taken(c)' = <<>>
  BY <1>1 DEF Taken
<1>6. ToSet(revbuf) \subseteq Nat
  BY <1>3 DEF ToSet
<1>7. /\ lost' \in [Channels -> SUBSET Nat] /\ lost'[dev] = lost[dev] \cup ToSet(revbuf)
      /\ \A c \in Channels \ {dev} : lost'[c] = lost[c]
  BY <1>1, <1>3, <1>6 DEF Streams
<1>8. Accounts(delivered[dev], arrived[dev], lost[dev] \cup ToSet(revbuf))
  <2>1. Held(dev) = delivered[dev] \o revbuf
    <3>1. Taken(dev) = revbuf
      BY <1>1 DEF Taken
    <3>2. revbuf \o <<>> = revbuf
      BY <1>3, ConcatEmptySeq
    <3>3. QED
      BY <3>1, <3>2, <1>1 DEF Held
  <2>2. Accounts(delivered[dev] \o revbuf, arrived[dev], lost[dev])
    BY <2>1, <1>3 DEF Streams
  <2>3. QED
    BY <2>2, <1>3, AccountsCut
<1>9. ASSUME NEW c \in Channels
      PROVE  Accounts(Held(c)', arrived'[c], lost'[c])
  <2>1. Taken(c)' = <<>> /\ fifo'[c] = fifo[c] /\ arrived'[c] = arrived[c]
        /\ delivered'[c] = delivered[c]
    BY <1>1, <1>5
  <2>2. CASE c = dev
    <3>1. <<>> \o <<>> = <<>> /\ delivered[c] \o <<>> = delivered[c]
      BY <2>2, <1>3, EmptySeq, ConcatEmptySeq
    <3>2. fifo[c] = <<>>
      BY <2>2, <1>1
    <3>3. Held(c)' = delivered[c]
      BY <2>1, <3>1, <3>2 DEF Held
    <3>4. QED
      BY <2>1, <2>2, <3>3, <1>7, <1>8
  <2>3. CASE c # dev
    <3>1. Taken(c) = <<>>
      BY <2>3 DEF Taken
    <3>2. Held(c)' = Held(c) /\ lost'[c] = lost[c]
      BY <2>1, <2>3, <3>1, <1>7 DEF Held
    <3>3. QED
      BY <2>1, <3>2, <1>3 DEF Streams
  <2>4. QED
    BY <2>2, <2>3
<1>10. \A c \in Channels : Accounts(Held(c)', arrived'[c], lost'[c])
  BY <1>9
<1>11. Streams'
  BY <1>1, <1>3, <1>7, <1>10 DEF Streams
<1>12. QED
  BY <1>2, <1>4, <1>11 DEF BytesInv

-----------------------------------------------------------------------------
\* The invariant holds in every state.
THEOREM BytesInvAlways == Spec => []BytesInv
<1>1. Init => BytesInv
  BY InitBytesInv
<1>2. BytesInv /\ [Next]_vars => BytesInv'
  <2> SUFFICES ASSUME BytesInv, [Next]_vars PROVE BytesInv'
    OBVIOUS
  <2>1. ASSUME NEW c \in Channels, Receive(c) PROVE BytesInv'
    BY <2>1, ReceiveKeeps
  <2>2. CASE TakeByte
    BY <2>2, TakeByteKeeps
  <2>3. CASE ReadReturns
    BY <2>3, ReadReturnsKeeps
  <2>4. CASE AnyRound
    BY <2>4, AnyRoundKeeps
  <2>5. ASSUME NEW c \in Channels, RecvIrq(c) \/ Dispatch(c) PROVE BytesInv'
    <3>1. UNCHANGED <<config, lua, stream>>
      BY <2>5 DEF RecvIrq, Dispatch
    <3>2. event' \in [Channels -> BOOLEAN] /\ told' \in [Channels -> BOOLEAN]
      BY <2>5 DEF RecvIrq, Dispatch, BytesInv, Flags
    <3>3. Streams'
      BY <3>1, StreamsStay DEF Taken, lua, BytesInv
    <3>4. QED
      BY <3>1, <3>2, <3>3 DEF BytesInv, Registers, Flags, Buffers, config, lua
  <2>6. ASSUME NEW c \in Channels, InitUart(c) PROVE BytesInv'
    <3>1. UNCHANGED <<irq, lua, stream, notices>>
      BY <2>6 DEF InitUart
    <3>2. Streams'
      BY <3>1, StreamsStay DEF Taken, lua, BytesInv
    <3>3. PICK setting \in InitArgs, isCallback \in BOOLEAN :
             InitWith(c, setting[1], setting[2], setting[3], isCallback)
      BY <2>6 DEF InitUart
    <3>4. setting[1] \in 0 .. 9 /\ setting[2] \in 0 .. 2 /\ setting[3] \in 0 .. 3
      BY BoundsAssumption
    <3>5. data[c].parity \in 0 .. 2 /\ data[c].stop \in 0 .. 3
      BY DEF BytesInv, Registers
    <3>6. Stored(c, setting[1], setting[2], setting[3])
            \in [bits : 0 .. 9, parity : 0 .. 2, stop : 0 .. 3]
      BY <3>4, <3>5 DEF Stored
    <3>7. data' \in [Channels -> [bits : 0 .. 9, parity : 0 .. 2, stop : 0 .. 3]]
      BY <3>3, <3>6 DEF InitWith, BytesInv, Registers
    <3>8. /\ hw' \in [Channels -> [asked : 0 .. 2, halves : {0, 2, 3, 4}]]
          /\ callback' \in [Channels -> BOOLEAN]
      <4>1. CASE UNCHANGED <<hw, callback>>
        BY <4>1 DEF BytesInv, Registers
      <4>2. CASE setting[3] \in {1, 2} /\ Configure(c, setting[3], isCallback)
        <5>1. [asked |-> setting[3], halves |-> StopHalves(setting[3])]
                \in [asked : 0 .. 2, halves : {0, 2, 3, 4}]
          BY <4>2 DEF StopHalves
        <5>2. hw \in [Channels -> [asked : 0 .. 2, halves : {0, 2, 3, 4}]]
              /\ callback \in [Channels -> BOOLEAN]
          BY DEF BytesInv, Registers
        <5>3. hw' \in [Channels -> [asked : 0 .. 2, halves : {0, 2, 3, 4}]]
          BY <4>2, <5>1, <5>2 DEF Configure
        <5>4. callback' \in [Channels -> BOOLEAN]
          BY <4>2, <5>2 DEF Configure
        <5>5. QED
          BY <5>3, <5>4
      <4>3. QED
        BY <3>3, <4>1, <4>2 DEF InitWith
    <3>9. QED
      BY <3>1, <3>2, <3>7, <3>8 DEF BytesInv, Registers, Flags, Buffers, lua, notices
  <2>7. ASSUME NEW c \in Channels, DeinitUart(c) PROVE BytesInv'
    <3>1. UNCHANGED <<data, hw, callback, lua, stream, notices>>
          /\ irq' = [irq EXCEPT ![c] = FALSE]
      BY <2>7 DEF DeinitUart
    <3>2. Streams'
      BY <3>1, StreamsStay DEF Taken, lua, BytesInv
    <3>3. QED
      BY <3>1, <3>2 DEF BytesInv, Registers, Flags, Buffers, lua, notices
  <2>8. ASSUME NEW c \in Channels, ReadUart(c) \/ AnyUart(c) PROVE BytesInv'
    <3>1. UNCHANGED <<config, stream, notices>> /\ pc = "idle" /\ pc' \in {"read", "any"}
          /\ dev' = 0 /\ revbuf' = <<>>
      BY <2>8 DEF ReadUart, AnyUart, DeviceOf
    <3>2. want' \in 0 .. MaxRead
      <4>1. CASE ReadUart(c)
        BY <4>1, BoundsAssumption DEF ReadUart
      <4>2. CASE AnyUart(c)
        BY <4>2 DEF AnyUart, BytesInv, Buffers
      <4>3. QED
        BY <2>8, <4>1, <4>2
    <3>3. Streams'
      BY <3>1, StreamsStay DEF Taken, BytesInv
    <3>4. Buffers'
      BY <3>1, <3>2, BoundsAssumption DEF Buffers
    <3>5. QED
      BY <3>1, <3>3, <3>4 DEF BytesInv, Registers, Flags, config, notices
  <2>9. ASSUME NEW c \in Channels, WriteEmpty(c) PROVE BytesInv'
    <3>1. UNCHANGED <<dev, want, revbuf, config, stream, notices>> /\ pc = "idle"
          /\ pc' = "halted"
      BY <2>9 DEF WriteEmpty
    <3>2. Streams'
      BY <3>1, StreamsStay DEF Taken, BytesInv
    <3>3. QED
      BY <3>1, <3>2 DEF BytesInv, Registers, Flags, Buffers, config, notices
  <2>10. CASE UNCHANGED vars
    <3>1. UNCHANGED <<lua, config, stream, notices>>
      BY <2>10 DEF vars, lua, config, stream, notices
    <3>2. Streams'
      BY <3>1, StreamsStay DEF Taken, lua, BytesInv
    <3>3. QED
      BY <3>1, <3>2 DEF BytesInv, Registers, Flags, Buffers, lua, config, notices
  <2>11. QED
    BY <2>1, <2>2, <2>3, <2>4, <2>5, <2>6, <2>7, <2>8, <2>9, <2>10 DEF Next, Running
<1>3. QED
  BY <1>1, <1>2, PTL DEF Spec

-----------------------------------------------------------------------------
\* What the invariant says of the bytes in the words of the properties.
LEMMA HeldIsHeld ==
  ASSUME BytesInv, NEW c \in Channels
  PROVE  /\ Held(c) = delivered[c] \o Taken(c) \o fifo[c]
         /\ Held(c) \in Seq(Nat) /\ Accounts(Held(c), arrived[c], lost[c])
<1>1. delivered[c] \in Seq(Nat) /\ Taken(c) \in Seq(Nat) /\ fifo[c] \in Seq(Nat)
  BY DEF BytesInv, Streams, Buffers, Taken
<1>2. Held(c) = delivered[c] \o Taken(c) \o fifo[c]
  BY <1>1, ConcatRegroups DEF Held
<1>3. Held(c) \in Seq(Nat) /\ Accounts(Held(c), arrived[c], lost[c])
  BY DEF BytesInv, Streams, Accounts
<1>4. QED
  BY <1>2, <1>3

\* No byte is duplicated or lost unaccounted: it is in the FIFO, in the running
\* call, returned by a read, or counted as dropped.
THEOREM BytesAccountedCorrect == Spec => []BytesAccounted
<1>1. BytesInv => BytesAccounted
  <2> SUFFICES ASSUME BytesInv, NEW c \in Channels
               PROVE  /\ ToSet(Held(c)) \cup lost[c] = 1 .. arrived[c]
                      /\ ToSet(Held(c)) \cap lost[c] = {}
    BY HeldIsHeld DEF BytesAccounted
  <2>1. Held(c) \in Seq(Nat) /\ Accounts(Held(c), arrived[c], lost[c])
    BY HeldIsHeld
  <2>2. ToSet(Held(c)) = {Held(c)[i] : i \in 1 .. Len(Held(c))}
    BY <2>1 DEF ToSet
  <2>3. QED
    BY <2>1, <2>2 DEF Accounts
<1>2. QED
  BY <1>1, BytesInvAlways, PTL

\* The state is well-formed, and the script sees bytes in the order of arrival.
THEOREM BytesInOrderCorrect == Spec => []BytesInOrder
<1>1. BytesInv => ArrivalOrder
  BY HeldIsHeld DEF Accounts, ArrivalOrder
<1>2. BytesInv => TypeOK
  <2> SUFFICES ASSUME BytesInv PROVE TypeOK
    OBVIOUS
  <2>1. ASSUME NEW c \in Channels
        PROVE  /\ ToSet(fifo[c]) \subseteq 1 .. arrived[c]
               /\ ToSet(delivered[c]) \subseteq 1 .. arrived[c]
               /\ Len(Taken(c)) <= arrived[c] /\ arrived[c] \in 0 .. MaxBytes[c]
    <3>1. delivered[c] \in Seq(Nat) /\ Taken(c) \in Seq(Nat) /\ fifo[c] \in Seq(Nat)
      BY DEF BytesInv, Streams, Buffers, Taken
    <3> DEFINE d == delivered[c]
               t == Taken(c)
               f == fifo[c]
               h == d \o (t \o f)
    <3> HIDE DEF d, t, f
    <3>2. d \in Seq(Nat) /\ t \in Seq(Nat) /\ f \in Seq(Nat)
      BY <3>1 DEF d, t, f
    <3>3. /\ Len(h) = Len(d) + Len(t) + Len(f)
          /\ Len(d) \in Nat /\ Len(t) \in Nat /\ Len(f) \in Nat
          /\ \A i \in 1 .. Len(d) : h[i] = d[i]
          /\ \A i \in 1 .. Len(f) : h[Len(d) + Len(t) + i] = f[i]
      <4>1. t \o f \in Seq(Nat) /\ Len(t \o f) = Len(t) + Len(f)
        BY <3>2
      <4>2. \A i \in 1 .. Len(f) : (t \o f)[Len(t) + i] = f[i]
        BY <3>2
      <4> DEFINE g == t \o f
      <4>3. g \in Seq(Nat) /\ Len(g) = Len(t) + Len(f)
            /\ \A i \in 1 .. Len(f) : g[Len(t) + i] = f[i]
        BY <4>1, <4>2
      <4> HIDE DEF g
      <4>4. /\ Len(d \o g) = Len(d) + Len(g) /\ Len(d) \in Nat /\ Len(g) \in Nat
            /\ \A i \in 1 .. Len(d) : (d \o g)[i] = d[i]
            /\ \A i \in 1 .. Len(g) : (d \o g)[Len(d) + i] = g[i]
        BY <3>2, <4>3, ConcatAt
      <4>5. Len(t) \in Nat /\ Len(f) \in Nat
        BY <3>2
      <4>6. \A i \in 1 .. Len(f) : (d \o g)[Len(d) + Len(t) + i] = f[i]
        <5> SUFFICES ASSUME NEW i \in 1 .. Len(f)
                     PROVE  (d \o g)[Len(d) + Len(t) + i] = f[i]
          OBVIOUS
        <5>1. Len(t) + i \in 1 .. Len(g) /\ Len(d) + (Len(t) + i) = Len(d) + Len(t) + i
          BY <4>3, <4>4, <4>5
        <5>2. (d \o g)[Len(d) + (Len(t) + i)] = g[Len(t) + i]
          BY <5>1, <4>4
        <5>3. QED
          BY <5>1, <5>2, <4>3
      <4>7. h = d \o g
        BY DEF g
      <4> HIDE DEF h
      <4>8. Len(h) = Len(d) + Len(t) + Len(f)
        BY <4>3, <4>4, <4>5, <4>7
      <4>9. QED
        BY <4>4, <4>5, <4>6, <4>7, <4>8
    <3> HIDE DEF h
    <3>4. Accounts(h, arrived[c], lost[c])
      BY HeldIsHeld DEF Held, h, d, t, f
    <3>5. Len(t) <= arrived[c] /\ arrived[c] \in Nat
      BY <3>3, <3>4 DEF Accounts
    <3>6. \A i \in 1 .. Len(d) : i \in 1 .. Len(h)
      BY <3>3
    <3>7. \A i \in 1 .. Len(f) : Len(d) + Len(t) + i \in 1 .. Len(h)
      BY <3>3
    <3>8. \A i \in 1 .. Len(h) : h[i] \in 1 .. arrived[c]
      BY <3>4 DEF Accounts
    <3>9. (\A i \in 1 .. Len(d) : d[i] \in 1 .. arrived[c])
          /\ \A i \in 1 .. Len(f) : f[i] \in 1 .. arrived[c]
      BY <3>3, <3>6, <3>7, <3>8
    <3>10. ToSet(d) \subseteq 1 .. arrived[c] /\ ToSet(f) \subseteq 1 .. arrived[c]
      <4>1. ToSet(d) = {d[i] : i \in 1 .. Len(d)} /\ ToSet(f) = {f[i] : i \in 1 .. Len(f)}
        BY <3>2 DEF ToSet
      <4>2. QED
        BY <4>1, <3>9
    <3>11. arrived[c] <= MaxBytes[c] /\ MaxBytes[c] \in Nat
      BY BoundsAssumption DEF BytesInv, Streams
    <3>12. QED
      BY <3>5, <3>10, <3>11 DEF d, t, f
  <2>2. Len(revbuf) <= MaxBytes[dev]
    <3>1. dev \in Channels /\ MaxBytes[dev] \in Nat
      BY BoundsAssumption DEF BytesInv, Buffers
    <3>2. CASE pc \in {"read", "any"}
      <4>1. Len(revbuf) <= arrived[dev] /\ arrived[dev] \in 0 .. MaxBytes[dev]
        BY <3>1, <3>2, <2>1 DEF Taken
      <4>2. Len(revbuf) \in Nat
        BY DEF BytesInv, Buffers
      <4>3. QED
        BY <3>1, <4>1, <4>2
    <3>3. CASE pc \notin {"read", "any"}
      BY <3>1, <3>3 DEF BytesInv, Buffers
    <3>4. QED
      BY <3>2, <3>3
  <2>3. \A c \in Channels : lost[c] \subseteq 1 .. arrived[c] /\ Len(fifo[c]) <= FifoDepth
    BY DEF BytesInv, Streams, Accounts
  <2>4. QED
    BY <2>1, <2>2, <2>3 DEF BytesInv, Registers, Flags, Buffers, TypeOK
<1>3. BytesInv => BytesInOrder
  BY <1>1, <1>2 DEF BytesInOrder
<1>4. QED
  BY <1>3, BytesInvAlways, PTL

-----------------------------------------------------------------------------
\* After deinit no byte raises an event of the module again, whatever is called.
THEOREM DeinitIsFinalCorrect == Spec => DeinitIsFinal
<1> DEFINE Final == \A c \in Channels : ~irq[c] => ~irq'[c] /\ (event'[c] => event[c])
<1>1. BytesInv /\ [Next]_vars => Final
  <2> SUFFICES ASSUME BytesInv, [Next]_vars PROVE Final
    OBVIOUS
  <2>1. irq \in [Channels -> BOOLEAN] /\ event \in [Channels -> BOOLEAN]
    BY DEF BytesInv, Registers, Flags
  <2>2. ASSUME NEW c \in Channels, RecvIrq(c) PROVE Final
    <3>1. irq[c] /\ event' = [event EXCEPT ![c] = TRUE] /\ irq' = irq
      BY <2>2 DEF RecvIrq, config
    <3>2. \A e \in Channels : ~irq[e] => e # c
      BY <3>1
    <3>3. \A e \in Channels : e # c => event'[e] = event[e]
      BY <2>1, <3>1
    <3>4. QED
      BY <3>1, <3>2, <3>3
  <2>3. ASSUME NEW c \in Channels, Dispatch(c) PROVE Final
    <3>1. event' = [event EXCEPT ![c] = FALSE] /\ irq' = irq
      BY <2>3 DEF Dispatch, config
    <3>2. \A e \in Channels : event'[e] => event[e]
      BY <2>1, <3>1
    <3>3. QED
      BY <3>1, <3>2
  <2>4. ASSUME NEW c \in Channels, DeinitUart(c) PROVE Final
    <3>1. irq' = [irq EXCEPT ![c] = FALSE] /\ event' = event
      BY <2>4 DEF DeinitUart, notices
    <3>2. \A e \in Channels : irq'[e] => irq[e]
      BY <2>1, <3>1
    <3>3. QED
      BY <3>1, <3>2
  <2>5. CASE UNCHANGED <<irq, event>>
    BY <2>5
  <2>6. (\E c \in Channels : Receive(c) \/ InitUart(c) \/ ReadUart(c) \/ AnyUart(c)
           \/ WriteEmpty(c)) \/ Running \/ UNCHANGED vars
          => UNCHANGED <<irq, event>>
    <3>1. \A c \in Channels : Receive(c) => UNCHANGED <<irq, event>>
      BY DEF Receive, config
    <3>2. \A c \in Channels : InitUart(c) => UNCHANGED <<irq, event>>
      BY DEF InitUart, notices
    <3>3. \A c \in Channels : ReadUart(c) \/ AnyUart(c) \/ WriteEmpty(c) => UNCHANGED <<irq, event>>
      BY DEF ReadUart, AnyUart, WriteEmpty, config, notices
    <3>4. Running => UNCHANGED <<irq, event>>
      BY DEF Running, TakeByte, ReadReturns, AnyRound, config, notices
    <3>5. UNCHANGED vars => UNCHANGED <<irq, event>>
      BY DEF vars
    <3>6. QED
      BY <3>1, <3>2, <3>3, <3>4, <3>5
  <2> HIDE DEF Final
  <2>7. QED
    BY <2>2, <2>3, <2>4, <2>5, <2>6 DEF Next
<1>2. BytesInv /\ [Next]_vars => [Final]_vars
  BY <1>1
<1>3. QED
  BY <1>2, BytesInvAlways, PTL DEF Spec, DeinitIsFinal

\* Whatever module the script calls, the call is about the first device.
THEOREM FirstDevice == Spec => [](dev = 0)
<1>1. Init => dev = 0
  BY DEF Init
<1>2. dev = 0 /\ [Next]_vars => (dev = 0)'
  BY DEF Next, vars, Running, Receive, RecvIrq, Dispatch, InitUart, DeinitUart, ReadUart,
         AnyUart, WriteEmpty, TakeByte, ReadReturns, AnyRound, Return, DeviceOf, lua
<1>3. QED
  BY <1>1, <1>2, PTL DEF Spec

\* The module of the second device takes nothing out of its own FIFO.
THEOREM SecondNeverServedCorrect == Spec => SecondNeverServed
<1> DEFINE Kept == \A c \in Channels \ {0} : fifo[c] # <<>> => fifo'[c] # <<>>
<1>1. BytesInv /\ dev = 0 /\ [Next]_vars => Kept
  <2> SUFFICES ASSUME BytesInv, dev = 0, [Next]_vars, NEW c \in Channels \ {0}, fifo[c] # <<>>
               PROVE  fifo'[c] # <<>>
    OBVIOUS
  <2>1. fifo \in [Channels -> Seq(Nat)] /\ arrived[c] \in Nat
    BY DEF BytesInv, Streams
  <2>2. ASSUME NEW e \in Channels, Receive(e) PROVE fifo'[c] # <<>>
    <3>1. CASE fifo' = fifo
      BY <3>1
    <3>2. CASE fifo' = [fifo EXCEPT ![e] = Append(fifo[e], arrived[e] + 1)]
      <4>1. arrived[e] + 1 \in Nat /\ fifo[e] \in Seq(Nat)
        BY DEF BytesInv, Streams
      <4>2. Append(fifo[e], arrived[e] + 1) # <<>>
        BY <4>1, AppendProperties
      <4>3. QED
        BY <2>1, <3>2, <4>2
    <3>3. QED
      BY <2>2, <3>1, <3>2 DEF Receive
  <2>3. CASE TakeByte
    BY <2>1, <2>3 DEF TakeByte
  <2>4. ASSUME NEW e \in Channels,
               RecvIrq(e) \/ Dispatch(e) \/ InitUart(e) \/ DeinitUart(e) \/ ReadUart(e)
                 \/ AnyUart(e) \/ WriteEmpty(e)
        PROVE  fifo' = fifo
    BY <2>4 DEF RecvIrq, Dispatch, InitUart, DeinitUart, ReadUart, AnyUart, WriteEmpty, stream
  <2>5. CASE ReadReturns \/ AnyRound \/ UNCHANGED vars
    BY <2>5 DEF ReadReturns, AnyRound, vars
  <2>6. QED
    BY <2>2, <2>3, <2>4, <2>5 DEF Next, Running
<1>2. BytesInv /\ dev = 0 /\ [Next]_vars => [Kept]_vars
  BY <1>1
<1>3. QED
  BY <1>2, BytesInvAlways, FirstDevice, PTL DEF Spec, SecondNeverServed

-----------------------------------------------------------------------------
\* A step of the second module or of its device leaves the first device alone.
FirstStays == UNCHANGED One!vars

\* Setting the fields of a record one after the other.
LEMMA SetFields ==
  ASSUME NEW b, NEW p, NEW t
  PROVE  /\ [FirstRecord EXCEPT !.bits = b, !.parity = p]
              = [uartid |-> 0, bits |-> b, parity |-> p, stop |-> data[0].stop]
         /\ [FirstRecord EXCEPT !.bits = b, !.parity = p, !.stop = t]
              = [uartid |-> 0, bits |-> b, parity |-> p, stop |-> t]
<1> DEFINE one == [FirstRecord EXCEPT !.bits = b]
           two == [one EXCEPT !.parity = p]
<1>1. one = [uartid |-> 0, bits |-> b, parity |-> data[0].parity, stop |-> data[0].stop]
  BY DEF FirstRecord
<1> HIDE DEF one
<1>2. two = [uartid |-> 0, bits |-> b, parity |-> p, stop |-> data[0].stop]
  BY <1>1
<1> HIDE DEF two
<1>3. [two EXCEPT !.stop = t] = [uartid |-> 0, bits |-> b, parity |-> p, stop |-> t]
  BY <1>2
<1>4. QED
  BY <1>2, <1>3 DEF one, two

\* The first record after init is what lua_uart_init leaves of it.
LEMMA InitIsInit ==
  ASSUME BytesInv, InitUart(0)
  PROVE  One!lua_uart_init
<1>1. PICK setting \in InitArgs, isCallback \in BOOLEAN :
         InitWith(0, setting[1], setting[2], setting[3], isCallback)
  BY DEF InitUart
<1> DEFINE bits   == setting[1]
           parity == setting[2]
           stop   == setting[3]
<1>2. 0 \in Channels
  BY BoundsAssumption
<1>3. pc = "idle" /\ UNCHANGED <<irq, pc, dev, want, revbuf, fifo, arrived, lost, delivered,
                                 event, told>>
  BY DEF InitUart, lua, stream, notices
<1>4. data'[0] = Stored(0, bits, parity, stop)
  BY <1>1, <1>2 DEF InitWith, BytesInv, Registers
<1>5. FirstRecord' = [uartid |-> 0, bits |-> data'[0].bits, parity |-> data'[0].parity,
                      stop |-> data'[0].stop]
  BY DEF FirstRecord
<1>6. UNCHANGED <<irq[0], One!line, One!notice, want, revbuf>>
  BY <1>3 DEF One!line, One!notice
<1>7. CASE bits \notin {7, 8, 9}
  <2>1. FirstRecord' = [FirstRecord EXCEPT !.bits = bits]
    BY <1>4, <1>5, <1>7 DEF Stored, FirstRecord
  <2>2. UNCHANGED <<hw[0], callback[0], pc>>
    BY <1>1, <1>3, <1>7 DEF InitWith
  <2>3. QED
    BY <1>3, <1>6, <1>7, <2>1, <2>2 DEF One!lua_uart_init
<1>8. CASE bits \in {7, 8, 9} /\ parity \notin {0, 1}
  <2>0. data'[0].bits = bits /\ data'[0].parity = parity /\ data'[0].stop = data[0].stop
    BY <1>4, <1>8 DEF Stored
  <2>1. FirstRecord' = [FirstRecord EXCEPT !.bits = bits, !.parity = parity]
    <3> HIDE DEF bits, parity
    <3>1. FirstRecord' = [uartid |-> 0, bits |-> bits, parity |-> parity, stop |-> data[0].stop]
      BY <1>5, <2>0
    <3>2. QED
      BY <3>1, SetFields
  <2>2. UNCHANGED <<hw[0], callback[0], pc>>
    BY <1>1, <1>3, <1>8 DEF InitWith
  <2>3. QED
    BY <1>3, <1>6, <1>8, <2>1, <2>2 DEF One!lua_uart_init
<1>9. CASE bits \in {7, 8, 9} /\ parity \in {0, 1}
  <2>0. data'[0].bits = bits /\ data'[0].parity = parity /\ data'[0].stop = stop
    BY <1>4, <1>9 DEF Stored
  <2>1. FirstRecord' = [FirstRecord EXCEPT !.bits = bits, !.parity = parity, !.stop = stop]
    <3> HIDE DEF bits, parity, stop
    <3>1. FirstRecord' = [uartid |-> 0, bits |-> bits, parity |-> parity, stop |-> stop]
      BY <1>5, <2>0
    <3>2. \A b, p, t : [FirstRecord EXCEPT !.bits = b, !.parity = p, !.stop = t]
                         = [uartid |-> 0, bits |-> b, parity |-> p, stop |-> t]
      BY SetFields
    <3>3. QED
      BY <3>1, <3>2
  <2>2. IF stop \in {1, 2} THEN One!Configured(stop, isCallback)
        ELSE UNCHANGED <<hw[0], callback[0], pc>>
    <3>1. CASE stop \notin {1, 2}
      BY <1>1, <1>3, <1>9, <3>1 DEF InitWith
    <3>2. CASE stop \in {1, 2}
      <4>1. Configure(0, stop, isCallback)
        BY <1>1, <1>9, <3>2 DEF InitWith
      <4>2. hw'[0] = [asked |-> stop, halves |-> stop + 2]
        BY <4>1, <1>2 DEF Configure, StopHalves, BytesInv, Registers
      <4>3. callback'[0] \in IF isCallback THEN {TRUE} ELSE {callback[0], FALSE}
        BY <4>1, <1>2 DEF Configure, BytesInv, Registers
      <4>4. FirstRecord.uartid = 0
        BY DEF FirstRecord
      <4>5. QED
        BY <3>2, <4>2, <4>3, <4>4, <1>3 DEF One!Configured, One!UART_DEVICE_1
    <3>3. QED
      BY <3>1, <3>2
  <2>3. QED
    BY <1>3, <1>6, <1>9, <2>1, <2>2 DEF One!lua_uart_init
<1>10. QED
  BY <1>7, <1>8, <1>9

\* A byte that reaches the first device reaches the device of lua_uart.cpp.
LEMMA ReceiveIsReceive ==
  ASSUME BytesInv, Receive(0)
  PROVE  One!receive
<1>1. /\ 0 \in Channels
      /\ fifo \in [Channels -> Seq(Nat)] /\ arrived \in [Channels -> Nat]
      /\ lost \in [Channels -> SUBSET Nat] /\ told \in [Channels -> BOOLEAN]
  BY BoundsAssumption DEF BytesInv, Streams, Flags
<1>2. arrived'[0] = arrived[0] + 1 /\ told'[0] = FALSE
  BY <1>1 DEF Receive
<1>3. pc # "halted" /\ hw[0] # One!NotConfigured /\ arrived[0] < MaxBytes[0]
  BY DEF Receive, Unset, One!NotConfigured
<1>4. UNCHANGED <<One!record, delivered[0], event[0], One!call>>
  BY DEF Receive, config, lua, One!record, One!call, FirstRecord
<1>5. CASE Len(fifo[0]) < FifoDepth
  <2>1. fifo'[0] = Append(fifo[0], arrived[0] + 1) /\ lost'[0] = lost[0]
    BY <1>1, <1>5 DEF Receive
  <2>2. QED
    BY <1>2, <1>3, <1>4, <1>5, <2>1 DEF One!receive
<1>6. CASE ~(Len(fifo[0]) < FifoDepth)
  <2>1. lost'[0] = lost[0] \cup {arrived[0] + 1} /\ fifo'[0] = fifo[0]
    BY <1>1, <1>6 DEF Receive
  <2>2. Len(fifo[0]) \in Nat /\ FifoDepth \in Nat
    BY <1>1, BoundsAssumption
  <2>3. Len(fifo[0]) >= FifoDepth
    BY <1>6, <2>2
  <2>4. QED
    BY <1>2, <1>3, <1>4, <2>1, <2>3 DEF One!receive
<1>7. QED
  BY <1>5, <1>6

\* The steps of a running call are those of lua_uart.cpp.
LEMMA RunningIsRunning ==
  ASSUME BytesInv, dev = 0, Running
  PROVE  One!uart_receive_data \/ One!lua_uart_read_returns \/ One!lua_uart_any_round
<1>1. /\ 0 \in Channels
      /\ fifo \in [Channels -> Seq(Nat)] /\ delivered \in [Channels -> Seq(Nat)]
      /\ lost \in [Channels -> SUBSET Nat]
  BY BoundsAssumption DEF BytesInv, Streams
<1>2. CASE TakeByte
  <2>1. fifo'[0] = Tail(fifo[0]) /\ revbuf' = Append(revbuf, Head(fifo[0]))
    BY <1>1, <1>2 DEF TakeByte
  <2>2. UNCHANGED <<One!record, One!notice, arrived[0], lost[0], delivered[0], pc, want>>
    BY <1>2 DEF TakeByte, config, notices, One!record, One!notice, FirstRecord
  <2>3. pc \in {"read", "any"} /\ fifo[0] # <<>> /\ (pc = "read" => Len(revbuf) < want)
    BY <1>2 DEF TakeByte
  <2>4. One!uart_receive_data
    BY <2>1, <2>2, <2>3 DEF One!uart_receive_data
  <2>5. QED
    BY <2>4
<1>3. CASE ReadReturns
  <2>1. delivered'[0] = delivered[0] \o revbuf
    BY <1>1, <1>3 DEF ReadReturns
  <2>2. UNCHANGED <<One!record, One!notice, fifo[0], arrived[0], lost[0]>>
    BY <1>3 DEF ReadReturns, config, notices, One!record, One!notice, FirstRecord
  <2>3. One!lua_uart_read_returns
    BY <1>3, <2>1, <2>2 DEF ReadReturns, Return, One!lua_uart_read_returns
  <2>4. QED
    BY <2>3
<1>4. CASE AnyRound
  <2>1. lost'[0] = lost[0] \cup One!ToSet(revbuf)
    BY <1>1, <1>4 DEF AnyRound, ToSet, One!ToSet
  <2>2. UNCHANGED <<One!record, One!notice, fifo[0], arrived[0], delivered[0]>>
    BY <1>4 DEF AnyRound, config, notices, One!record, One!notice, FirstRecord
  <2>3. /\ pc = "any" /\ fifo[0] = <<>> /\ revbuf' = <<>>
        /\ IF revbuf = <<>> THEN pc' = "idle" /\ want' = 0 ELSE UNCHANGED <<pc, want>>
    BY <1>4 DEF AnyRound, Return
  <2>4. One!lua_uart_any_round
    BY <2>1, <2>2, <2>3 DEF One!lua_uart_any_round
  <2>5. QED
    BY <2>4
<1>5. QED
  BY <1>2, <1>3, <1>4 DEF Running

\* What the second module does to its own device is not seen at the first.
LEMMA OtherDeviceStays ==
  ASSUME BytesInv, NEW c \in Channels \ {0},
         Receive(c) \/ RecvIrq(c) \/ Dispatch(c) \/ InitUart(c) \/ DeinitUart(c)
  PROVE  FirstStays
<1>1. /\ 0 \in Channels
      /\ irq \in [Channels -> BOOLEAN] /\ callback \in [Channels -> BOOLEAN]
      /\ event \in [Channels -> BOOLEAN] /\ told \in [Channels -> BOOLEAN]
      /\ data \in [Channels -> [bits : 0 .. 9, parity : 0 .. 2, stop : 0 .. 3]]
      /\ hw \in [Channels -> [asked : 0 .. 2, halves : {0, 2, 3, 4}]]
      /\ fifo \in [Channels -> Seq(Nat)] /\ lost \in [Channels -> SUBSET Nat]
      /\ arrived \in [Channels -> Nat]
  BY BoundsAssumption DEF BytesInv, Registers, Flags, Streams
<1>2. CASE Receive(c)
  <2>1. UNCHANGED <<config, lua, delivered, event>> /\ arrived'[0] = arrived[0]
        /\ told'[0] = told[0] /\ fifo'[0] = fifo[0] /\ lost'[0] = lost[0]
    BY <1>1, <1>2 DEF Receive
  <2>2. QED
    BY <2>1 DEF FirstStays, FirstRecord, config, lua, One!vars, One!record, One!line,
                One!notice, One!call
<1>3. CASE RecvIrq(c) \/ Dispatch(c)
  <2>1. UNCHANGED <<config, lua, stream>> /\ event'[0] = event[0] /\ told'[0] = told[0]
    BY <1>1, <1>3 DEF RecvIrq, Dispatch
  <2>2. QED
    BY <2>1 DEF FirstStays, FirstRecord, config, lua, stream, One!vars, One!record, One!line,
                One!notice, One!call
<1>4. CASE InitUart(c)
  <2>1. UNCHANGED <<irq, lua, stream, notices>>
    BY <1>4 DEF InitUart
  <2>2. data'[0] = data[0] /\ hw'[0] = hw[0] /\ callback'[0] = callback[0]
    BY <1>1, <1>4 DEF InitUart, InitWith, Configure
  <2>3. QED
    BY <2>1, <2>2 DEF FirstStays, FirstRecord, lua, stream, notices, One!vars, One!record,
                      One!line, One!notice, One!call
<1>5. CASE DeinitUart(c)
  <2>1. UNCHANGED <<data, hw, callback, lua, stream, notices>> /\ irq'[0] = irq[0]
    BY <1>1, <1>5 DEF DeinitUart
  <2>2. QED
    BY <2>1 DEF FirstStays, FirstRecord, lua, stream, notices, One!vars, One!record,
                One!line, One!notice, One!call
<1>6. QED
  BY <1>2, <1>3, <1>4, <1>5

\* The two files agree: seen from the first device, the modules of lua_muluart.cpp
\* behave as the module of lua_uart.cpp.
THEOREM FirstModuleCorrect == Spec => FirstModuleIsUart
<1>1. Init => One!Init
  BY BoundsAssumption DEF Init, One!Init, One!NotConfigured, One!UART_DEVICE_1, Unset, FirstRecord
<1>2. BytesInv /\ dev = 0 /\ [Next]_vars => [One!Next]_(One!vars)
  <2> SUFFICES ASSUME BytesInv, dev = 0, [Next]_vars PROVE One!Next \/ UNCHANGED One!vars
    OBVIOUS
  <2>0. 0 \in Channels
    BY BoundsAssumption
  <2>1. irq \in [Channels -> BOOLEAN] /\ callback \in [Channels -> BOOLEAN]
        /\ event \in [Channels -> BOOLEAN] /\ told \in [Channels -> BOOLEAN]
    BY DEF BytesInv, Registers, Flags
  <2>2. CASE Receive(0)
    BY <2>2, ReceiveIsReceive DEF One!Next
  <2>3. CASE RecvIrq(0)
    <3>1. event'[0] = TRUE /\ UNCHANGED <<config, lua, stream, told>>
          /\ pc # "halted" /\ irq[0] /\ fifo[0] # <<>>
      BY <2>0, <2>1, <2>3 DEF RecvIrq
    <3>2. One!uart_recv_irq
      BY <3>1 DEF One!uart_recv_irq, One!record, One!line, One!call, FirstRecord, config, lua, stream
    <3>3. QED
      BY <3>2 DEF One!Next
  <2>4. CASE Dispatch(0)
    <3>1. event'[0] = FALSE /\ UNCHANGED <<config, lua, stream>> /\ pc = "idle" /\ event[0]
      BY <2>0, <2>1, <2>4 DEF Dispatch
    <3>2. told'[0] = (told[0] \/ callback[0])
      BY <2>0, <2>1, <2>4 DEF Dispatch
    <3>3. One!dispatch
      BY <3>1, <3>2 DEF One!dispatch, One!record, One!line, One!call, FirstRecord, config, lua, stream
    <3>4. QED
      BY <3>3 DEF One!Next
  <2>5. CASE InitUart(0)
    BY <2>5, InitIsInit DEF One!Next
  <2>6. CASE DeinitUart(0)
    <3>1. irq'[0] = FALSE /\ UNCHANGED <<data, hw, callback, lua, stream, notices>> /\ pc = "idle"
      BY <2>0, <2>1, <2>6 DEF DeinitUart
    <3>2. FirstRecord.uartid = 0
      BY DEF FirstRecord
    <3>3. One!lua_uart_deinit
      BY <3>1, <3>2 DEF One!lua_uart_deinit, One!UART_DEVICE_1, One!line, One!notice, FirstRecord,
                        lua, stream, notices
    <3>4. QED
      BY <3>3 DEF One!Next
  <2>7. ASSUME NEW c \in Channels \ {0},
               Receive(c) \/ RecvIrq(c) \/ Dispatch(c) \/ InitUart(c) \/ DeinitUart(c)
        PROVE  UNCHANGED One!vars
    BY <2>7, OtherDeviceStays DEF FirstStays
  <2>8. ASSUME NEW c \in Channels, ReadUart(c) \/ AnyUart(c) \/ WriteEmpty(c)
        PROVE  One!lua_uart_read \/ One!lua_uart_any \/ One!lua_uart_write
    <3>1. UNCHANGED <<One!record, One!line, One!notice>>
      BY <2>8 DEF ReadUart, AnyUart, WriteEmpty, config, stream, notices, One!record, One!line,
                  One!notice, FirstRecord
    <3>2. QED
      BY <2>8, <3>1 DEF ReadUart, AnyUart, WriteEmpty, One!lua_uart_read, One!lua_uart_any,
                        One!lua_uart_write
  <2>9. CASE Running
    BY <2>9, RunningIsRunning DEF One!Next
  <2>10. CASE UNCHANGED vars
    BY <2>10 DEF vars, One!vars, One!record, One!line, One!notice, One!call, FirstRecord
  <2>11. \A c \in Channels : c = 0 \/ c \in Channels \ {0}
    OBVIOUS
  <2>12. QED
    BY <2>2, <2>3, <2>4, <2>5, <2>6, <2>7, <2>8, <2>9, <2>10, <2>11 DEF Next, One!Next
<1>3. QED
  BY <1>1, <1>2, BytesInvAlways, FirstDevice, PTL DEF Spec, FirstModuleIsUart, One!Spec
=============================================================================
