----------------------------- MODULE WireProofs -----------------------------
(***************************************************************************)
(* Proofs about the answer to a query on the wire (rpc_query_handler.h).      *)
(* Nothing delimits it, and the reader goes on after a field that failed.      *)
(* Still, whatever pages are sent and wherever the stream ends, the reader     *)
(* takes the first of them, unchanged and in order, and all if it is whole;     *)
(* and where a read may have run into its timeout, which no argument about      *)
(* the fields survives, it takes at most as many pages as were sent.           *)
(***************************************************************************)
EXTENDS RpcWire, SequenceProofs

Byte == 0..255

\* A connection as its reader may find it.
Fd == [bytes : Seq(Byte), pos : Nat, pauses : SUBSET Nat, ok : BOOLEAN]

Open(fd) == fd \in Fd /\ fd.pos <= Len(fd.bytes)

\* after is what a reader leaves of fd: the same stream, further on.
Later(after, fd) ==
    /\ Open(after) /\ after.bytes = fd.bytes /\ after.pos >= fd.pos
    /\ after.pauses \subseteq fd.pauses

\* A reader of len bytes took them, or, if there were no pauses, all there were.
Moved(after, fd, len) ==
    /\ Later(after, fd)
    /\ after.ok => after.pos = fd.pos + len
    /\ fd.pauses = {} => IF fd.pos + len <= Len(fd.bytes) THEN after.ok
                         ELSE ~after.ok /\ after.pos = Len(fd.bytes)

LEMMA LaterSelf ==
    ASSUME NEW fd, Open(fd)
    PROVE  Later(fd, fd)
BY DEF Later, Open, Fd

LEMMA LaterStill ==
    ASSUME NEW a, NEW b, NEW c, Open(c), Later(a, b), Later(b, c)
    PROVE  Later(a, c)
<1>1. Open(a) /\ a.bytes = c.bytes /\ a.pauses \subseteq c.pauses
  BY DEF Later
<1>2. a.pos >= b.pos /\ b.pos >= c.pos
  BY DEF Later
<1>3. a.pos \in Nat /\ b.pos \in Nat /\ c.pos \in Nat
  BY DEF Later, Open, Fd
<1>4. a.pos >= c.pos
  BY <1>2, <1>3
<1> QED  BY <1>1, <1>4 DEF Later

LEMMA RecvExactMoves ==
    ASSUME NEW fd, Open(fd), NEW len \in Nat
    PROVE  Moved(recv_exact(fd, len), fd, len)
<1>1. PICK bytes \in Seq(Byte), pos \in Nat, pauses \in SUBSET Nat, ok \in BOOLEAN :
         fd = [bytes |-> bytes, pos |-> pos, pauses |-> pauses, ok |-> ok]
  BY DEF Open, Fd
<1>a. fd.bytes = bytes /\ fd.pos = pos /\ fd.pauses = pauses
  BY <1>1
<1> DEFINE waits == {p \in pauses : pos <= p /\ p < pos + len}
           stop == IF waits = {} THEN pos + len ELSE Min(waits)
           size == Len(bytes)
<1>b. size \in Nat /\ pos <= size
  BY <1>a DEF Open
<1>2. stop \in Nat /\ stop >= pos /\ (waits = {} => stop = pos + len)
  <2>1. CASE waits = {}
    BY <2>1
  <2>2. CASE waits # {}
    <3>1. waits \in SUBSET Nat
      OBVIOUS
    <3> HIDE DEF waits
    <3>2. PICK n \in waits : \A m \in waits : n <= m
      BY <2>2, <3>1, LeastNumber
    <3>3. Min(waits) \in waits
      BY <3>2 DEF Min
    <3> QED  BY <2>2, <3>1, <3>3 DEF waits
  <2> QED  BY <2>1, <2>2
<1>3. pauses = {} => waits = {}
  OBVIOUS
<1>4. recv_exact(fd, len) =
         IF stop > size THEN [fd EXCEPT !.pos = size, !.ok = FALSE]
         ELSE [fd EXCEPT !.pos = stop, !.pauses = pauses \ {stop}, !.ok = (waits = {})]
  BY <1>a DEF recv_exact
<1> DEFINE calm == (waits = {})
           rest == pauses \ {stop}
<1>c. calm \in BOOLEAN /\ rest \in SUBSET Nat /\ rest \subseteq pauses
  OBVIOUS
<1>d. (pauses = {} => calm) /\ (calm => stop = pos + len)
  BY <1>2, <1>3
<1>e. recv_exact(fd, len) =
         IF stop > size THEN [bytes |-> bytes, pos |-> size, pauses |-> pauses, ok |-> FALSE]
         ELSE [bytes |-> bytes, pos |-> stop, pauses |-> rest, ok |-> calm]
  <2> HIDE DEF waits, stop, size
  <2> QED  BY <1>1, <1>4
<1> HIDE DEF waits, stop, calm, rest
<1>5. CASE stop > size
  <2>1. PICK after : after = [bytes |-> bytes, pos |-> size, pauses |-> pauses, ok |-> FALSE]
    OBVIOUS
  <2>2. after.bytes = bytes /\ after.pos = size /\ after.pauses = pauses /\ after.ok = FALSE
    BY <2>1
  <2>3. Later(after, fd)
    BY <1>a, <1>b, <2>1, <2>2 DEF Later, Open, Fd
  <2>4. pauses = {} => ~(pos + len <= size)
    BY <1>2, <1>b, <1>d, <1>5
  <2>5. Moved(after, fd, len)
    BY <1>a, <2>2, <2>3, <2>4 DEF Moved
  <2> QED  BY <1>5, <1>e, <2>1, <2>5
<1>6. CASE ~(stop > size)
  <2>1. PICK after : after = [bytes |-> bytes, pos |-> stop, pauses |-> rest, ok |-> calm]
    OBVIOUS
  <2>2. after.bytes = bytes /\ after.pos = stop /\ after.pauses = rest /\ after.ok = calm
    BY <2>1
  <2>a. stop <= size
    BY <1>2, <1>b, <1>6
  <2>3. Later(after, fd)
    <3>1. after \in Fd
      BY <1>2, <1>c, <2>1 DEF Fd
    <3>2. Open(after)
      BY <2>2, <2>a, <3>1 DEF Open
    <3> QED  BY <1>2, <1>a, <1>c, <2>2, <3>2 DEF Later
  <2>4. pauses = {} => pos + len <= size /\ calm
    BY <1>2, <1>d, <2>a
  <2>5. Moved(after, fd, len)
    BY <1>a, <1>d, <2>2, <2>3, <2>4 DEF Moved
  <2> QED  BY <1>6, <1>e, <2>1, <2>5
<1> QED  BY <1>5, <1>6

-----------------------------------------------------------------------------
(* What stands at a place of the stream                                     *)

\* w stands in bytes behind pos, as far as bytes go.
Carries(bytes, pos, w) == \A j \in 1..Len(w) : pos + j <= Len(bytes) => bytes[pos + j] = w[j]

LEMMA CarriesFront ==
    ASSUME NEW S, NEW v \in Seq(S), NEW w \in Seq(S)
    PROVE  Carries(v \o w, 0, v)
<1>1. ASSUME NEW j \in 1..Len(v) PROVE (v \o w)[0 + j] = v[j]
  <2>1. PICK k \in 1..(Len(v) + Len(w)) : k = j /\ k = 0 + j /\ k <= Len(v)
    OBVIOUS
  <2> QED  BY <2>1, ConcatProperties
<1> QED  BY <1>1 DEF Carries

LEMMA CarriesParts ==
    ASSUME NEW S, NEW bytes, NEW pos \in Nat, NEW v \in Seq(S), NEW w \in Seq(S),
           Carries(bytes, pos, v \o w)
    PROVE  Carries(bytes, pos, v) /\ Carries(bytes, pos + Len(v), w)
<1>1. Len(v) \in Nat /\ Len(w) \in Nat /\ Len(v \o w) = Len(v) + Len(w)
  OBVIOUS
<1>2. ASSUME NEW j \in 1..Len(v), pos + j <= Len(bytes) PROVE bytes[pos + j] = v[j]
  <2>1. j \in 1..Len(v \o w) /\ (v \o w)[j] = v[j]
    BY <1>1
  <2> QED  BY <1>2, <2>1 DEF Carries
<1>3. ASSUME NEW j \in 1..Len(w), (pos + Len(v)) + j <= Len(bytes)
      PROVE  bytes[(pos + Len(v)) + j] = w[j]
  <2>1. PICK k \in 1..Len(v \o w) : k = Len(v) + j
    BY <1>1
  <2>2. (v \o w)[k] = w[j] /\ pos + k = (pos + Len(v)) + j
    BY <1>1, <2>1
  <2> QED  BY <1>3, <2>2 DEF Carries
<1> QED  BY <1>2, <1>3 DEF Carries

\* What was taken is what stands there.
LEMMA TakenCarried ==
    ASSUME NEW fd, NEW after, NEW w \in Seq(Byte), Open(fd), Moved(after, fd, Len(w)), after.ok,
           Carries(fd.bytes, fd.pos, w)
    PROVE  Taken(fd, after) = w
<1>1. PICK bytes \in Seq(Byte), pos \in Nat, end \in Nat :
         bytes = fd.bytes /\ pos = fd.pos /\ end = after.pos
  BY DEF Open, Fd, Moved, Later
<1>2. Len(bytes) \in Nat /\ Len(w) \in Nat /\ end = pos + Len(w) /\ end <= Len(bytes)
  BY <1>1 DEF Open, Moved, Later
<1> DEFINE t == SubSeq(bytes, pos + 1, end)
<1>3. /\ t \in Seq(Byte) /\ Len(t) = Len(w)
      /\ \A j \in 1..Len(w) : t[j] = bytes[pos + j]
  BY <1>2
<1>4. \A j \in 1..Len(w) : bytes[pos + j] = w[j]
  BY <1>1, <1>2 DEF Carries
<1>5. Taken(fd, after) = t
  BY <1>1 DEF Taken
<1> HIDE DEF t
<1> QED  BY <1>3, <1>4, <1>5, SeqEqual

-----------------------------------------------------------------------------
(* Single fields                                                            *)

LEMMA WordBytes ==
    ASSUME NEW x \in U32
    PROVE  send_u32(x) \in Seq(Byte) /\ Len(send_u32(x)) = 4 /\ Word(send_u32(x)) = x
<1> DEFINE a == x \div 16777216
           b == x \div 65536
           c == x \div 256
<1>1. x \in Nat /\ a \in Nat /\ b \in Nat /\ c \in Nat /\ a < 256
  BY DEF U32
<1>2. /\ c * 256 + (x % 256) = x
      /\ b * 256 + (c % 256) = c
      /\ a * 256 + (b % 256) = b
      /\ a % 256 = a
  BY <1>1
<1>3. /\ a % 256 \in Byte /\ b % 256 \in Byte /\ c % 256 \in Byte /\ x % 256 \in Byte
  BY <1>1 DEF Byte
<1>4. send_u32(x) = <<a % 256, b % 256, c % 256, x % 256>>
  BY DEF send_u32
<1> HIDE DEF a, b, c
<1> QED  BY <1>1, <1>2, <1>3, <1>4 DEF Word, Byte

LEMMA WordInRange ==
    ASSUME NEW t \in Seq(Byte), Len(t) = 4
    PROVE  Word(t) \in U32
<1>0. \A i \in 1..4 : t[i] \in Byte
  BY ElementOfSeq
<1>1. t[1] \in Byte /\ t[2] \in Byte /\ t[3] \in Byte /\ t[4] \in Byte
  BY <1>0
<1>2. PICK a \in Byte, b \in Byte, c \in Byte, d \in Byte :
         Word(t) = 16777216 * a + 65536 * b + 256 * c + d
  BY <1>1 DEF Word
<1> QED  BY <1>2 DEF Byte, U32

\* A reader of w, which means x, was at fd and is now at out.fd.
Gets(out, fd, w, x) ==
    /\ Later(out.fd, fd)
    /\ out.fd.ok => out.fd.pos = fd.pos + Len(w) /\ out.val = x
    /\ fd.pauses = {} => IF fd.pos + Len(w) <= Len(fd.bytes) THEN out.fd.ok
                         ELSE ~out.fd.ok /\ out.fd.pos = Len(fd.bytes)

\* A reader, whatever it found, gave up or has a value of its kind.
Yields(out, fd, S) == Later(out.fd, fd) /\ (out.fd.ok => out.val \in S)

LEMMA TakenInRange ==
    ASSUME NEW fd, NEW after, NEW len \in Nat, Open(fd), Moved(after, fd, len), after.ok
    PROVE  Taken(fd, after) \in Seq(Byte) /\ Len(Taken(fd, after)) = len
<1>1. PICK bytes \in Seq(Byte), pos \in Nat, end \in Nat :
         bytes = fd.bytes /\ pos = fd.pos /\ end = after.pos
  BY DEF Open, Fd, Moved, Later
<1>2. Len(bytes) \in Nat /\ end = pos + len /\ end <= Len(bytes)
  BY <1>1 DEF Open, Moved, Later
<1>3. SubSeq(bytes, pos + 1, end) \in Seq(Byte) /\ Len(SubSeq(bytes, pos + 1, end)) = len
  BY <1>2
<1>4. Taken(fd, after) = SubSeq(bytes, pos + 1, end)
  BY <1>1 DEF Taken
<1> QED  BY <1>3, <1>4

LEMMA U32Reads ==
    ASSUME NEW fd, Open(fd)
    PROVE  /\ Yields(recv_u32(fd), fd, U32)
           /\ \A x \in U32 : Carries(fd.bytes, fd.pos, send_u32(x)) => Gets(recv_u32(fd), fd, send_u32(x), x)
<1> DEFINE after == recv_exact(fd, 4)
           out == recv_u32(fd)
<1>1. out = [fd |-> after, val |-> IF after.ok THEN Word(Taken(fd, after)) ELSE << >>]
  BY DEF recv_u32, Field, With, Read
<1>2. Moved(after, fd, 4)
  BY RecvExactMoves
<1> HIDE DEF after, out
<1>3. Yields(out, fd, U32)
  <2>1. after.ok => Word(Taken(fd, after)) \in U32
    BY <1>2, TakenInRange, WordInRange
  <2> QED  BY <1>1, <1>2, <2>1 DEF Yields, Moved
<1>4. ASSUME NEW x \in U32, Carries(fd.bytes, fd.pos, send_u32(x))
      PROVE  Gets(out, fd, send_u32(x), x)
  <2>1. PICK w \in Seq(Byte) : w = send_u32(x) /\ Len(w) = 4 /\ Word(w) = x
    BY WordBytes
  <2>2. after.ok => Taken(fd, after) = w
    BY <1>2, <1>4, <2>1, TakenCarried
  <2>3. out.fd = after /\ (after.ok => out.val = x)
    BY <1>1, <2>1, <2>2
  <2>4. Gets(out, fd, w, x)
    BY <1>2, <2>1, <2>3 DEF Gets, Moved
  <2> QED  BY <2>1, <2>4
<1> QED  BY <1>3, <1>4 DEF out

\* What recv_string takes.
Text == {s \in Seq(Byte) : Len(s) <= MAX_STRING}

LEMMA StringBytes ==
    ASSUME NEW s \in Text
    PROVE  /\ Len(s) \in U32 /\ s \in Seq(Byte)
           /\ send_string(s) = send_u32(Len(s)) \o s
           /\ send_string(s) \in Seq(Byte) /\ Len(send_string(s)) = 4 + Len(s)
<1>1. s \in Seq(Byte) /\ Len(s) \in Nat /\ Len(s) <= MAX_STRING
  BY DEF Text
<1>2. Len(s) \in U32
  <2>1. PICK n \in Nat, m \in Nat : n = Len(s) /\ m = MAX_STRING /\ n <= m /\ m \div 16777216 < 256
    BY <1>1, RpcWireAssumption DEF U32
  <2>2. n \div 16777216 < 256
    BY <2>1
  <2> QED  BY <2>1, <2>2 DEF U32
<1>3. PICK w \in Seq(Byte) : w = send_u32(Len(s)) /\ Len(w) = 4
  BY <1>2, WordBytes
<1>4. w \o s \in Seq(Byte) /\ Len(w \o s) = 4 + Len(s)
  <2>1. PICK t \in Seq(Byte) : t = s
    BY <1>1
  <2>2. w \o t \in Seq(Byte) /\ Len(w \o t) = Len(w) + Len(t)
    OBVIOUS
  <2> QED  BY <1>3, <2>1, <2>2
<1> QED  BY <1>1, <1>2, <1>3, <1>4 DEF send_string

LEMMA StringReads ==
    ASSUME NEW fd, Open(fd)
    PROVE  /\ Yields(recv_string(fd), fd, Text)
           /\ \A s \in Text : Carries(fd.bytes, fd.pos, send_string(s)) =>
                                 Gets(recv_string(fd), fd, send_string(s), s)
<1> DEFINE len == recv_u32(fd)
           after == recv_exact(len.fd, len.val)
           out == recv_string(fd)
<1>1. out = IF ~len.fd.ok THEN [fd |-> len.fd, val |-> << >>]
            ELSE IF len.val > MAX_STRING THEN [fd |-> [len.fd EXCEPT !.ok = FALSE], val |-> << >>]
            ELSE [fd |-> after, val |-> IF after.ok THEN Taken(len.fd, after) ELSE << >>]
  BY DEF recv_string, Field, With, Read
<1>2. /\ Yields(len, fd, U32)
      /\ \A x \in U32 : Carries(fd.bytes, fd.pos, send_u32(x)) => Gets(len, fd, send_u32(x), x)
  BY U32Reads
<1>3. Open(len.fd) /\ Later(len.fd, fd)
  BY <1>2 DEF Yields, Later
<1>m. MAX_STRING \in Nat
  BY RpcWireAssumption DEF U32
<1> HIDE DEF len, out
<1>4. len.fd.ok => len.val \in Nat
  BY <1>2 DEF Yields, U32
<1>5. ASSUME len.fd.ok
      PROVE  Moved(after, len.fd, len.val) /\ Later(after, fd)
  <2>1. Moved(after, len.fd, len.val)
    BY <1>3, <1>4, <1>5, RecvExactMoves
  <2> QED  BY <1>3, <2>1, LaterStill DEF Moved
<1> HIDE DEF after
<1>6. Yields(out, fd, Text)
  <2>1. CASE ~len.fd.ok
    BY <1>1, <1>3, <2>1 DEF Yields
  <2>2. CASE len.fd.ok /\ len.val > MAX_STRING
    <3>1. PICK out1 : out1 = [len.fd EXCEPT !.ok = FALSE]
      OBVIOUS
    <3>2. Later(out1, fd) /\ ~out1.ok
      BY <1>3, <3>1 DEF Later, Open, Fd
    <3> QED  BY <1>1, <2>2, <3>1, <3>2 DEF Yields
  <2>3. CASE len.fd.ok /\ ~(len.val > MAX_STRING)
    <3>1. after.ok => Taken(len.fd, after) \in Text
      BY <1>3, <1>4, <1>5, <1>m, <2>3, TakenInRange DEF Text
    <3> QED  BY <1>1, <1>5, <2>3, <3>1 DEF Yields
  <2> QED  BY <2>1, <2>2, <2>3
<1>7. ASSUME NEW s \in Text, Carries(fd.bytes, fd.pos, send_string(s))
      PROVE  Gets(out, fd, send_string(s), s)
  <2>1. PICK w \in Seq(Byte) : w = send_u32(Len(s)) /\ Len(w) = 4 /\ send_string(s) = w \o s
    BY StringBytes, WordBytes
  <2>2. /\ Len(s) \in U32 /\ s \in Seq(Byte) /\ Len(s) \in Nat /\ Len(s) <= MAX_STRING
        /\ Len(w \o s) = 4 + Len(s)
    BY <2>1, StringBytes DEF Text
  <2>3. fd.pos \in Nat
    BY DEF Open, Fd
  <2>4. Carries(fd.bytes, fd.pos, w) /\ Carries(fd.bytes, fd.pos + 4, s)
    BY <1>7, <2>1, <2>2, <2>3, CarriesParts
  <2>5. Gets(len, fd, w, Len(s))
    BY <1>2, <2>1, <2>2, <2>4
  <2>6. PICK pos \in Nat, end \in Nat, size \in Nat, n \in Nat :
           pos = fd.pos /\ end = len.fd.pos /\ size = Len(fd.bytes) /\ n = Len(s)
    BY <1>3, <2>2 DEF Open, Fd
  <2>7. len.fd.bytes = fd.bytes /\ len.fd.pauses \subseteq fd.pauses
    BY <1>3 DEF Later
  <2>8. Later(out.fd, fd)
    BY <1>6 DEF Yields
  <2>9. CASE ~len.fd.ok
    <3>1. fd.pauses = {} => ~(pos + (4 + n) <= size) /\ out.fd.pos = size
      BY <1>1, <2>1, <2>5, <2>6, <2>9 DEF Gets
    <3> QED  BY <1>1, <2>1, <2>2, <2>6, <2>8, <2>9, <3>1 DEF Gets
  <2>10. CASE len.fd.ok
    <3>1. end = pos + 4 /\ len.val = n
      BY <2>1, <2>5, <2>6, <2>10 DEF Gets
    <3>2. out = [fd |-> after, val |-> IF after.ok THEN Taken(len.fd, after) ELSE << >>]
      BY <1>1, <1>m, <2>2, <2>6, <2>10, <3>1
    <3>3. after.ok => Taken(len.fd, after) = s
      <4>1. Carries(len.fd.bytes, len.fd.pos, s)
        BY <2>4, <2>6, <2>7, <3>1
      <4>2. Moved(after, len.fd, Len(s))
        <5>1. len.val = Len(s)
          BY <2>6, <3>1
        <5> QED  BY <1>5, <2>10, <5>1
      <4> QED  BY <1>3, <2>2, <4>1, <4>2, TakenCarried
    <3>4. after.ok => after.pos = (pos + 4) + n
      BY <1>5, <2>6, <2>10, <3>1 DEF Moved
    <3>5. fd.pauses = {} => IF (pos + 4) + n <= size THEN after.ok ELSE ~after.ok /\ after.pos = size
      BY <1>5, <2>6, <2>7, <2>10, <3>1 DEF Moved
    <3>6. (pos + 4) + n = pos + (4 + n)
      OBVIOUS
    <3> QED  BY <2>1, <2>2, <2>6, <2>8, <3>2, <3>3, <3>4, <3>5, <3>6 DEF Gets
  <2> QED  BY <2>9, <2>10
<1> QED  BY <1>6, <1>7 DEF out

\* The two words of eight bytes.
Words(t) == << Word(SubSeq(t, 1, 4)), Word(SubSeq(t, 5, 8)) >>

LEMMA FourOf ==
    ASSUME NEW t \in Seq(Byte), NEW m \in Nat, NEW n \in Nat, 1 <= m, n = m + 3, n <= Len(t)
    PROVE  \E u \in Seq(Byte) : u = SubSeq(t, m, n) /\ Len(u) = 4 /\ \A i \in 1..4 : u[i] = t[m + i - 1]
<1>1. \A i \in m..n : t[i] \in Byte
  OBVIOUS
<1>2. /\ SubSeq(t, m, n) \in Seq(Byte) /\ Len(SubSeq(t, m, n)) = IF m <= n THEN n - m + 1 ELSE 0
      /\ \A i \in 1..(n - m + 1) : SubSeq(t, m, n)[i] = t[m + i - 1]
  BY <1>1, SubSeqProperties
<1>3. n - m + 1 = 4 /\ m <= n
  OBVIOUS
<1> QED  BY <1>2, <1>3

LEMMA HalvesOfBytes ==
    ASSUME NEW t \in Seq(Byte), Len(t) = 8
    PROVE  Words(t) \in U32 \X U32
<1>1. PICK m \in Nat, n \in Nat, k \in Nat, l \in Nat : m = 1 /\ n = 4 /\ k = 5 /\ l = 8
  OBVIOUS
<1>2. 1 <= m /\ n = m + 3 /\ n <= Len(t)
  BY <1>1
<1>a. 1 <= k /\ l = k + 3 /\ l <= Len(t)
  BY <1>1
<1>3. PICK u \in Seq(Byte) : u = SubSeq(t, m, n) /\ Len(u) = 4
  BY <1>2, FourOf, Zenon
<1>4. PICK v \in Seq(Byte) : v = SubSeq(t, k, l) /\ Len(v) = 4
  BY <1>a, FourOf, Zenon
<1>5. Word(SubSeq(t, 1, 4)) \in U32 /\ Word(SubSeq(t, 5, 8)) \in U32
  BY <1>1, <1>3, <1>4, WordInRange
<1> QED  BY <1>5 DEF Words

LEMMA DoubleBytes ==
    ASSUME NEW d \in U32 \X U32
    PROVE  send_double(d) \in Seq(Byte) /\ Len(send_double(d)) = 8 /\ Words(send_double(d)) = d
<1>1. PICK x \in U32, y \in U32 : d = <<x, y>>
  OBVIOUS
<1>2. PICK v \in Seq(Byte) : v = send_u32(x) /\ Len(v) = 4 /\ Word(v) = x
  BY WordBytes
<1>3. PICK w \in Seq(Byte) : w = send_u32(y) /\ Len(w) = 4 /\ Word(w) = y
  BY WordBytes
<1>4. send_double(d) = v \o w
  BY <1>1, <1>2, <1>3 DEF send_double
<1>5. PICK t \in Seq(Byte) : t = v \o w
  BY ConcatProperties
<1>c. Len(t) = 8 /\ \A i \in 1..(4 + 4) : t[i] = IF i <= 4 THEN v[i] ELSE w[i - 4]
  <2>1. Len(t) = Len(v) + Len(w)
    BY <1>5
  <2>2. ASSUME NEW i \in 1..(4 + 4) PROVE t[i] = IF i <= 4 THEN v[i] ELSE w[i - 4]
    <3>1. CASE i <= 4
      <4>1. i \in 1..Len(v)
        BY <1>2, <3>1
      <4>2. (v \o w)[i] = v[i]
        BY <4>1
      <4> QED  BY <1>5, <3>1, <4>2
    <3>2. CASE ~(i <= 4)
      <4>1. PICK j \in 1..Len(w) : i = Len(v) + j /\ j = i - 4
        BY <1>2, <1>3, <3>2
      <4>2. (v \o w)[Len(v) + j] = w[j]
        OBVIOUS
      <4> QED  BY <1>5, <3>2, <4>1, <4>2
    <3> QED  BY <3>1, <3>2
  <2> QED  BY <1>2, <1>3, <2>1, <2>2
<1>d. PICK m \in Nat, n \in Nat, k \in Nat, l \in Nat :
         /\ m = 1 /\ n = 4 /\ k = 5 /\ l = 8
         /\ n = m + 3 /\ n <= Len(t) /\ l = k + 3 /\ l <= Len(t) /\ 1 <= m /\ 1 <= k
  BY <1>c
<1>6. PICK a \in Seq(Byte) : a = SubSeq(t, 1, 4) /\ Len(a) = 4 /\ \A i \in 1..4 : a[i] = t[m + i - 1]
  <2>1. \E a \in Seq(Byte) : a = SubSeq(t, m, n) /\ Len(a) = 4 /\ \A i \in 1..4 : a[i] = t[m + i - 1]
    BY <1>d, FourOf
  <2> QED  BY <1>d, <2>1
<1>7. PICK b \in Seq(Byte) : b = SubSeq(t, 5, 8) /\ Len(b) = 4 /\ \A i \in 1..4 : b[i] = t[k + i - 1]
  <2>1. \E b \in Seq(Byte) : b = SubSeq(t, k, l) /\ Len(b) = 4 /\ \A i \in 1..4 : b[i] = t[k + i - 1]
    BY <1>d, FourOf
  <2> QED  BY <1>d, <2>1
<1>8. a = v
  <2>1. ASSUME NEW i \in 1..4 PROVE a[i] = v[i]
    <3>1. m + i - 1 = i /\ i \in 1..(4 + 4) /\ i <= 4
      BY <1>d
    <3> QED  BY <1>c, <1>6, <3>1
  <2> QED  BY <1>2, <1>6, <2>1, SeqEqual
<1>9. b = w
  <2>1. ASSUME NEW i \in 1..4 PROVE b[i] = w[i]
    <3>1. PICK j \in 1..(4 + 4) : j = k + i - 1 /\ ~(j <= 4) /\ j - 4 = i
      BY <1>d
    <3> QED  BY <1>c, <1>7, <3>1
  <2> QED  BY <1>3, <1>7, <2>1, SeqEqual
<1>e. send_double(d) = t
  BY <1>4, <1>5
<1>f. Words(t) = <<Word(v), Word(w)>>
  BY <1>6, <1>7, <1>8, <1>9 DEF Words
<1> QED  BY <1>1, <1>2, <1>3, <1>c, <1>e, <1>f

LEMMA DoubleReads ==
    ASSUME NEW fd, Open(fd)
    PROVE  /\ Yields(recv_double(fd), fd, U32 \X U32)
           /\ \A d \in U32 \X U32 : Carries(fd.bytes, fd.pos, send_double(d)) =>
                                       Gets(recv_double(fd), fd, send_double(d), d)
<1> DEFINE after == recv_exact(fd, 8)
           out == recv_double(fd)
<1>1. out = [fd |-> after, val |-> IF after.ok THEN Words(Taken(fd, after)) ELSE << >>]
  BY DEF recv_double, Field, With, Read, Words
<1>2. Moved(after, fd, 8)
  BY RecvExactMoves
<1> HIDE DEF after, out
<1>3. Yields(out, fd, U32 \X U32)
  <2>1. after.ok => Words(Taken(fd, after)) \in U32 \X U32
    BY <1>2, TakenInRange, HalvesOfBytes
  <2> QED  BY <1>1, <1>2, <2>1 DEF Yields, Moved
<1>4. ASSUME NEW d \in U32 \X U32, Carries(fd.bytes, fd.pos, send_double(d))
      PROVE  Gets(out, fd, send_double(d), d)
  <2>1. PICK w \in Seq(Byte) : w = send_double(d) /\ Len(w) = 8 /\ Words(w) = d
    BY DoubleBytes
  <2>2. after.ok => Taken(fd, after) = w
    BY <1>2, <1>4, <2>1, TakenCarried
  <2>3. out.fd = after /\ (after.ok => out.val = d)
    BY <1>1, <2>1, <2>2
  <2>4. Gets(out, fd, w, d)
    BY <1>2, <2>1, <2>3 DEF Gets, Moved
  <2> QED  BY <2>1, <2>4
<1> QED  BY <1>3, <1>4 DEF out

-----------------------------------------------------------------------------
(* A page                                                                   *)

PageBytes(p) == send_string(p.title) \o send_string(p.url) \o send_double(p.score)

LEMMA PageParts ==
    ASSUME NEW p \in LeanPage
    PROVE  p.title \in Text /\ p.url \in Text /\ p.score \in U32 \X U32 /\ p = Page(p.title, p.url, p.score)
BY DEF LeanPage, Text, Byte, Page

LEMMA PageIsLean ==
    ASSUME NEW title \in Text, NEW url \in Text, NEW score \in U32 \X U32
    PROVE  Page(title, url, score) \in LeanPage
BY DEF LeanPage, Text, Byte, Page

\* recv_page at fd with the pages val: what it adds, if anything, is a page.
LEMMA PageYields ==
    ASSUME NEW r, Open(r.fd), NEW k \in Nat, r.val \in Seq(LeanPage), Len(r.val) <= k
    PROVE  /\ Later(recv_page(r).fd, r.fd)
           /\ recv_page(r).val \in Seq(LeanPage) /\ Len(recv_page(r).val) <= k + 1
<1> DEFINE title == recv_string(r.fd)
           url == recv_string(title.fd)
           score == recv_double(url.fd)
           out == recv_page(r)
<1>1. out = [fd |-> score.fd,
             val |-> IF title.fd.ok /\ url.fd.ok /\ score.fd.ok
                     THEN Append(r.val, Page(title.val, url.val, score.val)) ELSE r.val]
  BY DEF recv_page, Read
<1>2. Yields(title, r.fd, Text) /\ Open(title.fd)
  BY StringReads DEF Yields, Later
<1> HIDE DEF title
<1>3. Yields(url, title.fd, Text) /\ Open(url.fd)
  BY <1>2, StringReads DEF Yields, Later
<1> HIDE DEF url
<1>4. Yields(score, url.fd, U32 \X U32)
  BY <1>3, DoubleReads
<1> HIDE DEF score, out
<1>5. Later(score.fd, r.fd)
  <2>1. Later(score.fd, title.fd)
    BY <1>2, <1>3, <1>4, LaterStill DEF Yields
  <2> QED  BY <1>2, <2>1, LaterStill DEF Yields
<1>6. CASE title.fd.ok /\ url.fd.ok /\ score.fd.ok
  <2>1. PICK p \in LeanPage, v \in Seq(LeanPage) : p = Page(title.val, url.val, score.val) /\ v = r.val
    BY <1>2, <1>3, <1>4, <1>6, PageIsLean DEF Yields
  <2>2. Append(v, p) \in Seq(LeanPage) /\ Len(Append(v, p)) = Len(v) + 1
    OBVIOUS
  <2>3. out.val = Append(v, p) /\ Len(v) <= k /\ Len(v) \in Nat
    BY <1>1, <1>6, <2>1
  <2> QED  BY <1>1, <1>5, <2>2, <2>3 DEF out
<1>7. CASE ~(title.fd.ok /\ url.fd.ok /\ score.fd.ok)
  <2>1. out.val = r.val
    BY <1>1, <1>7
  <2>2. PICK v \in Seq(LeanPage) : v = r.val
    OBVIOUS
  <2>3. Len(v) \in Nat /\ Len(v) <= k + 1
    BY <2>2
  <2>4. Later(out.fd, r.fd) /\ out.val = v
    BY <1>1, <1>5, <2>1, <2>2
  <2> QED  BY <2>3, <2>4 DEF out
<1> QED  BY <1>6, <1>7

\* Without pauses fd is q bytes into its stream, or at the end of a shorter one.
Stands(fd, bytes, q) ==
    /\ Open(fd) /\ fd.bytes = bytes /\ fd.pauses = {}
    /\ fd.pos = IF q <= Len(bytes) THEN q ELSE Len(bytes)

LEMMA CarriesThere ==
    ASSUME NEW fd, NEW bytes, NEW q \in Nat, NEW w \in Seq(Byte),
           Stands(fd, bytes, q), Carries(bytes, q, w)
    PROVE  Carries(fd.bytes, fd.pos, w)
<1>1. Len(bytes) \in Nat /\ fd.bytes = bytes /\ fd.pos = IF q <= Len(bytes) THEN q ELSE Len(bytes)
  BY DEF Stands, Open, Fd
<1>2. CASE q <= Len(bytes)
  BY <1>1, <1>2
<1>3. CASE ~(q <= Len(bytes))
  <2>1. Carries(bytes, Len(bytes), w)
    BY <1>1 DEF Carries
  <2> QED  BY <1>1, <1>3, <2>1
<1> QED  BY <1>2, <1>3

LEMMA Advances ==
    ASSUME NEW fd, NEW bytes, NEW q \in Nat, NEW w \in Seq(Byte), Len(w) > 0,
           Stands(fd, bytes, q), NEW out, NEW x, Gets(out, fd, w, x)
    PROVE  /\ Stands(out.fd, bytes, q + Len(w))
           /\ out.fd.ok <=> q + Len(w) <= Len(bytes)
           /\ out.fd.ok => out.val = x
<1>1. PICK size \in Nat, pos \in Nat, len \in Nat :
         /\ size = Len(bytes) /\ pos = fd.pos /\ len = Len(w) /\ len > 0
         /\ pos = (IF q <= size THEN q ELSE size)
  BY DEF Stands, Open, Fd
<1>2. fd.bytes = bytes /\ fd.pauses = {}
  BY DEF Stands
<1>3. Later(out.fd, fd) /\ (out.fd.ok => out.val = x)
  BY DEF Gets
<1>4. Open(out.fd) /\ out.fd.bytes = bytes /\ out.fd.pauses = {}
  BY <1>2, <1>3 DEF Later
<1>5. /\ out.fd.ok => out.fd.pos = pos + len
      /\ IF pos + len <= size THEN out.fd.ok ELSE ~out.fd.ok /\ out.fd.pos = size
  BY <1>1, <1>2 DEF Gets
<1>6. CASE q + len <= size
  <2>1. pos + len = q + len
    BY <1>1, <1>6
  <2>2. out.fd.ok /\ out.fd.pos = q + len
    BY <1>5, <1>6, <2>1
  <2> QED  BY <1>1, <1>3, <1>4, <1>6, <2>2 DEF Stands
<1>7. CASE ~(q + len <= size)
  <2>1. ~(pos + len <= size)
    BY <1>1, <1>7
  <2>2. ~out.fd.ok /\ out.fd.pos = size
    BY <1>5, <2>1
  <2> QED  BY <1>1, <1>3, <1>4, <1>7, <2>2 DEF Stands
<1> QED  BY <1>6, <1>7

\* recv_page at the bytes of p.
LEMMA PageGets ==
    ASSUME NEW r, NEW bytes, NEW q \in Nat, Stands(r.fd, bytes, q),
           NEW p \in LeanPage, Carries(bytes, q, PageBytes(p))
    PROVE  /\ Stands(recv_page(r).fd, bytes, q + Len(PageBytes(p)))
           /\ recv_page(r).val = IF q + Len(PageBytes(p)) <= Len(bytes) THEN Append(r.val, p) ELSE r.val
<1> DEFINE title == recv_string(r.fd)
           url == recv_string(title.fd)
           score == recv_double(url.fd)
           out == recv_page(r)
<1>1. out = [fd |-> score.fd,
             val |-> IF title.fd.ok /\ url.fd.ok /\ score.fd.ok
                     THEN Append(r.val, Page(title.val, url.val, score.val)) ELSE r.val]
  BY DEF recv_page, Read
<1>p. p.title \in Text /\ p.url \in Text /\ p.score \in U32 \X U32 /\ p = Page(p.title, p.url, p.score)
  BY PageParts
<1>2. PICK t \in Seq(Byte) : t = send_string(p.title) /\ Len(t) > 0
  <2>1. Len(p.title) \in Nat
    BY <1>p DEF Text
  <2> QED  BY <1>p, <2>1, StringBytes
<1>3. PICK u \in Seq(Byte) : u = send_string(p.url) /\ Len(u) > 0
  <2>1. Len(p.url) \in Nat
    BY <1>p DEF Text
  <2> QED  BY <1>p, <2>1, StringBytes
<1>4. PICK d \in Seq(Byte) : d = send_double(p.score) /\ Len(d) > 0
  <2>1. PICK x \in U32 \X U32 : x = p.score
    BY <1>p
  <2>2. PICK v \in Seq(Byte) : v = send_double(x) /\ Len(v) = 8
    BY DoubleBytes
  <2>3. Len(v) > 0 /\ v = send_double(p.score)
    BY <2>1, <2>2
  <2> QED  BY <2>3
<1>5. PageBytes(p) = (t \o u) \o d /\ t \o u \in Seq(Byte)
  BY <1>2, <1>3, <1>4 DEF PageBytes
<1>6. PICK a \in Nat, b \in Nat, c \in Nat, size \in Nat :
         /\ a = Len(t) /\ b = Len(u) /\ c = Len(d) /\ size = Len(bytes)
         /\ Len(t \o u) = a + b /\ Len(PageBytes(p)) = (a + b) + c
         /\ a > 0 /\ b > 0 /\ c > 0
  <2>1. Len(bytes) \in Nat
    BY DEF Stands, Open, Fd
  <2>2. Len(t \o u) = Len(t) + Len(u)
    OBVIOUS
  <2>3. PICK v \in Seq(Byte) : v = t \o u
    BY <1>5
  <2>4. Len(v \o d) = Len(v) + Len(d)
    OBVIOUS
  <2>5. Len(PageBytes(p)) = (Len(t) + Len(u)) + Len(d)
    BY <1>5, <2>2, <2>3, <2>4
  <2>6. Len(t) \in Nat /\ Len(u) \in Nat /\ Len(d) \in Nat /\ Len(t) > 0 /\ Len(u) > 0 /\ Len(d) > 0
    BY <1>2, <1>3, <1>4
  <2> QED  BY <2>1, <2>2, <2>5, <2>6
<1>7. /\ Carries(bytes, q, t) /\ Carries(bytes, q + a, u)
      /\ Carries(bytes, (q + a) + b, d)
  <2>1. Carries(bytes, q, t \o u) /\ Carries(bytes, q + Len(t \o u), d)
    BY <1>5, CarriesParts
  <2>2. Carries(bytes, q, t) /\ Carries(bytes, q + Len(t), u)
    BY <2>1, CarriesParts
  <2>3. q + Len(t \o u) = (q + a) + b
    BY <1>6
  <2> QED  BY <1>6, <2>1, <2>2, <2>3
<1>8. /\ Stands(title.fd, bytes, q + a) /\ (title.fd.ok <=> q + a <= size)
      /\ title.fd.ok => title.val = p.title
  <2>1. Carries(r.fd.bytes, r.fd.pos, t) /\ Open(r.fd)
    BY <1>7, CarriesThere DEF Stands
  <2>2. Gets(title, r.fd, t, p.title)
    BY <1>2, <1>p, <2>1, StringReads
  <2> HIDE DEF title
  <2> QED  BY <1>2, <1>6, <2>2, Advances
<1> HIDE DEF title
<1>9. /\ Stands(url.fd, bytes, (q + a) + b) /\ (url.fd.ok <=> (q + a) + b <= size)
      /\ url.fd.ok => url.val = p.url
  <2>0. PICK m \in Nat : m = q + a
    OBVIOUS
  <2>1. Carries(title.fd.bytes, title.fd.pos, u) /\ Open(title.fd)
    BY <1>7, <1>8, <2>0, CarriesThere DEF Stands
  <2>2. Gets(url, title.fd, u, p.url)
    BY <1>3, <1>p, <2>1, StringReads
  <2> HIDE DEF url
  <2>3. /\ Stands(url.fd, bytes, m + Len(u)) /\ (url.fd.ok <=> m + Len(u) <= Len(bytes))
        /\ url.fd.ok => url.val = p.url
    <3>1. Stands(title.fd, bytes, m) /\ Len(u) > 0
      BY <1>3, <1>8, <2>0
    <3> QED  BY <2>2, <3>1, Advances
  <2> QED  BY <1>6, <2>0, <2>3
<1> HIDE DEF url
<1>10. /\ Stands(score.fd, bytes, ((q + a) + b) + c) /\ (score.fd.ok <=> ((q + a) + b) + c <= size)
       /\ score.fd.ok => score.val = p.score
  <2>0. PICK m \in Nat : m = (q + a) + b
    OBVIOUS
  <2>1. Carries(url.fd.bytes, url.fd.pos, d) /\ Open(url.fd)
    BY <1>7, <1>9, <2>0, CarriesThere DEF Stands
  <2>2. Gets(score, url.fd, d, p.score)
    BY <1>4, <1>p, <2>1, DoubleReads
  <2> HIDE DEF score
  <2>3. /\ Stands(score.fd, bytes, m + Len(d)) /\ (score.fd.ok <=> m + Len(d) <= Len(bytes))
        /\ score.fd.ok => score.val = p.score
    <3>1. Stands(url.fd, bytes, m) /\ Len(d) > 0
      BY <1>4, <1>9, <2>0
    <3> QED  BY <2>2, <3>1, Advances
  <2> QED  BY <1>6, <2>0, <2>3
<1> HIDE DEF score, out
<1>11. ((q + a) + b) + c = q + Len(PageBytes(p))
  BY <1>6
<1>12. CASE q + Len(PageBytes(p)) <= Len(bytes)
  <2>1. title.fd.ok /\ url.fd.ok /\ score.fd.ok
    BY <1>6, <1>8, <1>9, <1>10, <1>11, <1>12
  <2>2. out.val = Append(r.val, p)
    BY <1>1, <1>8, <1>9, <1>10, <1>p, <2>1
  <2> QED  BY <1>1, <1>10, <1>11, <1>12, <2>2 DEF out
<1>13. CASE ~(q + Len(PageBytes(p)) <= Len(bytes))
  <2>1. ~score.fd.ok
    BY <1>6, <1>10, <1>11, <1>13
  <2>2. out.val = r.val
    BY <1>1, <2>1
  <2> QED  BY <1>1, <1>10, <1>11, <1>13, <2>2 DEF out
<1> QED  BY <1>12, <1>13

-----------------------------------------------------------------------------
(* All pages of an answer                                                   *)

\* g is what recv_query_data has read after each of m pages.
UptoEq(g, first, m) == g = [i \in 0..m |-> IF i = 0 THEN Read(first, << >>) ELSE recv_page(g[i - 1])]

Upto(first, m) == CHOOSE g : UptoEq(g, first, m)

LEMMA QueryDataUnfolds ==
    ASSUME NEW fd
    PROVE  recv_query_data(fd) = IF recv_u32(fd).fd.ok
                                 THEN Upto(recv_u32(fd).fd, recv_u32(fd).val)[recv_u32(fd).val].val
                                 ELSE << >>
BY DEF recv_query_data, Upto, UptoEq

LEMMA UptoExists ==
    ASSUME NEW first, NEW n \in Nat
    PROVE  \A i \in 0..n : Upto(first, n)[i] = IF i = 0 THEN Read(first, << >>)
                                               ELSE recv_page(Upto(first, n)[i - 1])
<1> DEFINE Missing == {m \in Nat : ~ \E g : UptoEq(g, first, m)}
           start == Read(first, << >>)
<1>1. Missing = {}
  <2> SUFFICES ASSUME Missing # {} PROVE FALSE
    OBVIOUS
  <2>1. PICK k \in Missing : \A j \in Missing : k <= j
    <3>1. Missing \in SUBSET Nat
      OBVIOUS
    <3> HIDE DEF Missing
    <3> QED  BY <3>1, LeastNumber
  <2>2. k \in Nat /\ ~ \E g : UptoEq(g, first, k)
    OBVIOUS
  <2> HIDE DEF start
  <2>3. CASE k = 0
    <3> DEFINE h == [i \in 0..0 |-> start]
    <3>1. h = [i \in 0..0 |-> IF i = 0 THEN start ELSE recv_page(h[i - 1])]
      OBVIOUS
    <3> HIDE DEF h
    <3> QED  BY <2>2, <2>3, <3>1 DEF UptoEq, start
  <2>4. CASE k # 0
    <3>1. k - 1 \in Nat /\ k - 1 \notin Missing
      BY <2>1, <2>2, <2>4
    <3>2. PICK g : UptoEq(g, first, k - 1)
      BY <3>1
    <3> DEFINE h == [i \in 0..k |-> IF i = k THEN recv_page(g[k - 1]) ELSE g[i]]
    <3>3. \A i \in 0..(k - 1) : h[i] = g[i]
      BY <2>2
    <3>4. h[k] = recv_page(g[k - 1])
      BY <2>2
    <3>5. \A i \in 0..(k - 1) : g[i] = IF i = 0 THEN start ELSE recv_page(g[i - 1])
      BY <3>2 DEF UptoEq, start
    <3>6. h = [i \in 0..k |-> h[i]]
      OBVIOUS
    <3>7. h[k - 1] = g[k - 1]
      BY <3>1, <3>3
    <3> HIDE DEF h
    <3>8. ASSUME NEW i \in 0..k
          PROVE  h[i] = IF i = 0 THEN start ELSE recv_page(h[i - 1])
      <4>1. CASE i = k
        BY <2>4, <3>4, <3>7, <4>1
      <4>2. CASE i # k
        <5>1. i \in 0..(k - 1) /\ (i # 0 => i - 1 \in 0..(k - 1))
          BY <2>2, <4>2
        <5>2. h[i] = g[i] /\ (i # 0 => h[i - 1] = g[i - 1])
          BY <3>3, <5>1
        <5> QED  BY <3>5, <5>1, <5>2
      <4> QED  BY <4>1, <4>2
    <3>9. UptoEq(h, first, k)
      BY <3>6, <3>8 DEF UptoEq, start
    <3> QED  BY <2>2, <3>9
  <2> QED  BY <2>3, <2>4
<1>2. UptoEq(Upto(first, n), first, n)
  BY <1>1 DEF Upto
<1> DEFINE g == Upto(first, n)
<1>3. UptoEq(g, first, n)
  BY <1>2
<1> HIDE DEF g, start
<1>4. \A i \in 0..n : g[i] = IF i = 0 THEN start ELSE recv_page(g[i - 1])
  BY <1>3 DEF UptoEq, start
<1> QED  BY <1>4 DEF g, start

\* After i pages there are at most i, whatever was in the stream.
Bounded(r, i) == Open(r.fd) /\ r.val \in Seq(LeanPage) /\ Len(r.val) <= i

LEMMA UptoBounded ==
    ASSUME NEW first, Open(first), NEW n \in Nat
    PROVE  Bounded(Upto(first, n)[n], n)
<1> DEFINE g == Upto(first, n)
           Wrong == {i \in 0..n : ~Bounded(g[i], i)}
<1>1. \A i \in 0..n : g[i] = IF i = 0 THEN Read(first, << >>) ELSE recv_page(g[i - 1])
  BY UptoExists
<1> HIDE DEF g
<1>2. Wrong = {}
  <2> SUFFICES ASSUME Wrong # {} PROVE FALSE
    OBVIOUS
  <2>1. PICK k \in Wrong : \A j \in Wrong : k <= j
    <3>1. Wrong \in SUBSET Nat
      OBVIOUS
    <3> HIDE DEF Wrong
    <3> QED  BY <3>1, LeastNumber
  <2>2. k \in 0..n /\ ~Bounded(g[k], k)
    OBVIOUS
  <2>3. CASE k = 0
    <3>1. g[k] = [fd |-> first, val |-> << >>]
      BY <1>1, <2>2, <2>3 DEF Read
    <3>2. << >> \in Seq(LeanPage) /\ Len(<< >>) <= k
      BY <2>3
    <3> QED  BY <2>2, <3>1, <3>2 DEF Bounded
  <2>4. CASE k # 0
    <3>1. PICK h \in 0..n : k = h + 1 /\ k - 1 = h
      BY <2>2, <2>4
    <3>2. h \notin Wrong
      BY <2>1, <2>2, <3>1
    <3>3. PICK r : r = g[h] /\ Bounded(r, h)
      BY <3>2
    <3>4. g[k] = recv_page(r)
      BY <1>1, <2>2, <2>4, <3>1, <3>3
    <3>5. /\ Later(recv_page(r).fd, r.fd)
          /\ recv_page(r).val \in Seq(LeanPage) /\ Len(recv_page(r).val) <= h + 1
      BY <3>3, PageYields DEF Bounded
    <3> QED  BY <2>2, <3>1, <3>4, <3>5 DEF Bounded, Later
  <2> QED  BY <2>3, <2>4
<1>3. n \in 0..n
  OBVIOUS
<1>4. Bounded(g[n], n)
  BY <1>2, <1>3
<1> QED  BY <1>4 DEF g

\* The bytes of the pages, and where those of page i end in an answer.
Encoded(pages) == [i \in DOMAIN pages |-> PageBytes(pages[i])]

End(pages, i) == 4 + Len(Joined(Encoded(pages), i))

LEMMA EncodedTyped ==
    ASSUME NEW pages \in Seq(LeanPage)
    PROVE  Encoded(pages) \in Seq(Seq(Byte)) /\ Len(Encoded(pages)) = Len(pages)
<1>1. Len(pages) \in Nat /\ DOMAIN pages = 1..Len(pages) /\ \A i \in 1..Len(pages) : pages[i] \in LeanPage
  OBVIOUS
<1>2. ASSUME NEW p \in LeanPage PROVE PageBytes(p) \in Seq(Byte)
  <2>1. PICK title \in Text, url \in Text, score \in U32 \X U32 :
           title = p.title /\ url = p.url /\ score = p.score
    BY PageParts
  <2>2. PICK t \in Seq(Byte), u \in Seq(Byte), d \in Seq(Byte) :
           t = send_string(title) /\ u = send_string(url) /\ d = send_double(score)
    BY StringBytes, DoubleBytes
  <2>3. PageBytes(p) = t \o u \o d
    BY <2>1, <2>2 DEF PageBytes
  <2> QED  BY <2>3
<1>3. Encoded(pages) \in [1..Len(pages) -> Seq(Byte)]
  BY <1>1, <1>2 DEF Encoded
<1>4. Encoded(pages) \in Seq(Seq(Byte))
  BY <1>1, <1>3, SeqDef
<1>5. DOMAIN Encoded(pages) = 1..Len(pages)
  BY <1>3
<1> QED  BY <1>1, <1>4, <1>5

LEMMA AnswerBytes ==
    ASSUME NEW pages \in Seq(LeanPage), Len(pages) \in U32
    PROVE  /\ send_query_response(pages) = send_u32(Len(pages)) \o FlattenSeq(Encoded(pages))
           /\ FlattenSeq(Encoded(pages)) \in Seq(Byte)
           /\ send_query_response(pages) \in Seq(Byte)
           /\ Len(send_query_response(pages)) = End(pages, Len(pages))
<1>1. send_query_response(pages) = send_u32(Len(pages)) \o FlattenSeq(Encoded(pages))
  BY DEF send_query_response, Counted, Encoded, PageBytes
<1>2. PICK v \in Seq(Byte) : v = send_u32(Len(pages)) /\ Len(v) = 4
  BY WordBytes
<1>3. PICK s \in Seq(Seq(Byte)) : s = Encoded(pages) /\ Len(s) = Len(pages)
  BY EncodedTyped
<1>4. PICK w \in Seq(Byte) : w = FlattenSeq(s)
  BY JoinKeepsElements
<1>5. w = Joined(s, Len(s))
  BY <1>4, JoinedAll
<1>6. v \o w \in Seq(Byte) /\ Len(v \o w) = Len(v) + Len(w)
  OBVIOUS
<1>7. Len(w) = Len(Joined(Encoded(pages), Len(pages)))
  BY <1>3, <1>5
<1>8. Len(v \o w) = End(pages, Len(pages))
  BY <1>2, <1>6, <1>7 DEF End
<1> QED  BY <1>1, <1>2, <1>3, <1>4, <1>6, <1>8

LEMMA PagesStand ==
    ASSUME NEW pages \in Seq(LeanPage), Len(pages) \in U32, NEW i \in 0..(Len(pages) - 1)
    PROVE  /\ Carries(send_query_response(pages), End(pages, i), PageBytes(pages[i + 1]))
           /\ End(pages, i) \in Nat
           /\ End(pages, i + 1) = End(pages, i) + Len(PageBytes(pages[i + 1]))
<1>1. PICK v \in Seq(Byte) : v = send_u32(Len(pages)) /\ Len(v) = 4
  BY WordBytes
<1>2. PICK s \in Seq(Seq(Byte)) : s = Encoded(pages) /\ Len(s) = Len(pages)
  BY EncodedTyped
<1>3. PICK w \in Seq(Byte) : w = FlattenSeq(s) /\ send_query_response(pages) = v \o w
  BY <1>1, <1>2, AnswerBytes
<1>a. PICK n \in Nat : n = Len(s) /\ n = Len(pages)
  BY <1>2
<1>b. i \in 0..(n - 1)
  BY <1>a
<1>4. PICK h \in 1..n : n = Len(s) /\ n = Len(pages) /\ h = i + 1 /\ i \in 0..n /\ i < n
  BY <1>a, <1>b
<1>5. PICK p \in Seq(Byte) : p = s[h] /\ p = PageBytes(pages[h])
  <2>1. s[h] \in Seq(Byte)
    <3>1. h \in 1..Len(s)
      BY <1>4
    <3> QED  BY <3>1
  <2>2. h \in DOMAIN pages
    BY <1>4
  <2> QED  BY <1>2, <2>1, <2>2 DEF Encoded
<1>i. i \in 0..Len(s) /\ i < Len(s)
  BY <1>4
<1>6. PICK a \in Seq(Byte) : a = Joined(s, i)
  BY <1>i, JoinedStep
<1>7. Joined(s, h) = a \o p
  <2>1. Joined(s, i + 1) = Joined(s, i) \o s[i + 1]
    BY <1>i, JoinedStep
  <2> QED  BY <1>4, <1>5, <1>6, <2>1
<1>8. Begins(a \o p, w)
  <2>1. h \in 0..Len(s)
    BY <1>4
  <2>2. Begins(Joined(s, h), FlattenSeq(s))
    BY <2>1, JoinedBegins
  <2> QED  BY <1>3, <1>7, <2>2
<1>9. /\ Len(a) \in Nat /\ Len(p) \in Nat /\ Len(w) \in Nat
      /\ Len(a \o p) = Len(a) + Len(p) /\ Len(v \o w) = 4 + Len(w)
      /\ End(pages, i) = 4 + Len(a) /\ End(pages, h) = 4 + Len(a \o p)
  <2>1. End(pages, i) = 4 + Len(a) /\ End(pages, h) = 4 + Len(a \o p)
    BY <1>2, <1>6, <1>7 DEF End
  <2>2. Len(v \o w) = Len(v) + Len(w)
    OBVIOUS
  <2> QED  BY <1>1, <2>1, <2>2
<1>10. ASSUME NEW j \in 1..Len(p) PROVE (v \o w)[4 + Len(a) + j] = p[j]
  <2>a. PICK la \in Nat, lp \in Nat, lw \in Nat :
           la = Len(a) /\ lp = Len(p) /\ lw = Len(w) /\ la + lp = Len(a \o p)
    BY <1>9
  <2>b. j \in 1..lp
    BY <2>a
  <2>1. PICK k \in 1..(la + lp) : k = la + j
    BY <2>b
  <2>2. k \in 1..lw /\ w[k] = (a \o p)[k]
    <3>1. k \in 1..Len(a \o p) /\ la + lp <= lw
      BY <1>8, <2>a DEF Begins
    <3> QED  BY <1>8, <2>a, <3>1 DEF Begins
  <2>3. (a \o p)[k] = p[j]
    <3>1. PICK i1 \in 1..(la + lp) : i1 = la + j /\ ~(i1 <= la) /\ i1 - la = j
      <4>1. \A x \in Nat, y \in Nat : \A z \in 1..y : z \in Int /\ x + z \in 1..(x + y) /\ ~(x + z <= x) /\ (x + z) - x = z
        OBVIOUS
      <4> QED  BY <2>b, <4>1
    <3>2. (a \o p)[i1] = IF i1 <= Len(a) THEN a[i1] ELSE p[i1 - Len(a)]
      BY <2>a, ConcatProperties
    <3> QED  BY <2>a, <2>1, <3>1, <3>2
  <2>4. (v \o w)[Len(v) + k] = w[k]
    BY <2>a, <2>2
  <2>5. 4 + Len(a) + j = Len(v) + k
    BY <1>1, <2>a, <2>1
  <2> QED  BY <2>2, <2>3, <2>4, <2>5
<1>11. Carries(v \o w, 4 + Len(a), p)
  BY <1>10 DEF Carries
<1>12. End(pages, h) = End(pages, i) + Len(p) /\ End(pages, i) \in Nat
  BY <1>9
<1> QED  BY <1>3, <1>4, <1>5, <1>9, <1>11, <1>12

LEMMA CutCarries ==
    ASSUME NEW whole \in Seq(Byte), NEW cut \in 0..Len(whole), NEW bytes, bytes = SubSeq(whole, 1, cut)
    PROVE  /\ bytes \in Seq(Byte) /\ Len(bytes) = cut
           /\ \A pos \in Nat, w \in Seq(Byte) : Carries(whole, pos, w) => Carries(bytes, pos, w)
<1>1. PICK n \in Nat : n = Len(whole) /\ cut \in Nat /\ cut <= n
  OBVIOUS
<1>2. bytes \in Seq(Byte) /\ Len(bytes) = cut /\ \A j \in 1..cut : bytes[j] = whole[j]
  BY <1>1
<1>3. ASSUME NEW pos \in Nat, NEW w \in Seq(Byte), Carries(whole, pos, w),
             NEW j \in 1..Len(w), pos + j <= Len(bytes)
      PROVE  bytes[pos + j] = w[j]
  <2>1. PICK k \in 1..cut : k = pos + j /\ k <= Len(whole)
    BY <1>1, <1>2, <1>3
  <2> QED  BY <1>2, <1>3, <2>1 DEF Carries
<1> QED  BY <1>2, <1>3 DEF Carries

\* a is the first k elements of v.
FirstOnes(a, v, k) == a = SubSeq(v, 1, k) /\ Len(a) = k /\ \A j \in 1..k : a[j] = v[j]

LEMMA PrefixIs ==
    ASSUME NEW S, NEW v \in Seq(S), NEW k \in 0..Len(v)
    PROVE  \E a \in Seq(S) : FirstOnes(a, v, k)
<1>1. k \in Nat /\ Len(v) \in Nat /\ k <= Len(v)
  OBVIOUS
<1>2. SubSeq(v, 1, k) \in Seq(S) /\ Len(SubSeq(v, 1, k)) = k
  BY <1>1
<1>3. \A j \in 1..k : SubSeq(v, 1, k)[j] = v[j]
  BY <1>1
<1> QED  BY <1>2, <1>3 DEF FirstOnes

LEMMA PrefixGrows ==
    ASSUME NEW S, NEW v \in Seq(S), NEW i \in 0..(Len(v) - 1)
    PROVE  Append(SubSeq(v, 1, i), v[i + 1]) = SubSeq(v, 1, i + 1)
<1>p. \A k \in 0..Len(v) : \E b \in Seq(S) : FirstOnes(b, v, k)
  BY PrefixIs
<1>1. PICK n \in Nat : n = Len(v) /\ i \in Nat /\ i + 1 <= n
  OBVIOUS
<1>2. PICK h \in 1..n : h = i + 1
  BY <1>1
<1>a. i \in 0..Len(v) /\ h \in 0..Len(v)
  BY <1>1, <1>2
<1>3. PICK a \in Seq(S) : a = SubSeq(v, 1, i) /\ Len(a) = i /\ \A j \in 1..i : a[j] = v[j]
  BY <1>a, <1>p DEF FirstOnes
<1>4. PICK b \in Seq(S) : b = SubSeq(v, 1, h) /\ Len(b) = h /\ \A j \in 1..h : b[j] = v[j]
  BY <1>a, <1>p DEF FirstOnes
<1>5. PICK x \in S : x = v[h]
  BY <1>1, <1>2
<1>6. PICK c \in Seq(S) : c = Append(a, x) /\ Len(c) = h /\ \A j \in 1..h : c[j] = IF j = h THEN x ELSE a[j]
  <2>1. Append(a, x) \in Seq(S) /\ Len(Append(a, x)) = Len(a) + 1
    OBVIOUS
  <2>2. ASSUME NEW j \in 1..h PROVE Append(a, x)[j] = IF j = h THEN x ELSE a[j]
    <3>1. CASE j = h
      <4>1. Append(a, x)[Len(a) + 1] = x
        OBVIOUS
      <4> QED  BY <1>2, <1>3, <3>1, <4>1
    <3>2. CASE j # h
      <4>1. j \in 1..Len(a)
        BY <1>1, <1>2, <1>3, <3>2
      <4>2. Append(a, x)[j] = a[j]
        BY <4>1
      <4> QED  BY <3>2, <4>2
    <3> QED  BY <3>1, <3>2
  <2> QED  BY <1>2, <1>3, <2>1, <2>2
<1>7. \A j \in 1..h : c[j] = b[j]
  <2> SUFFICES ASSUME NEW j \in 1..h PROVE c[j] = b[j]
    OBVIOUS
  <2>1. j # h => j \in 1..i
    BY <1>1, <1>2
  <2> QED  BY <1>3, <1>4, <1>5, <1>6, <2>1
<1>8. c = b
  BY <1>4, <1>6, <1>7, SeqEqual
<1> QED  BY <1>2, <1>3, <1>4, <1>5, <1>6, <1>8

\* What the loop has after i pages of an answer cut short.
Reached(r, bytes, pages, i) ==
    /\ Stands(r.fd, bytes, End(pages, i))
    /\ \E k \in 0..i : r.val = SubSeq(pages, 1, k) /\ (End(pages, i) <= Len(bytes) => k = i)

LEMMA ReachedNext ==
    ASSUME NEW pages \in Seq(LeanPage), Len(pages) \in U32, NEW i \in 0..(Len(pages) - 1),
           NEW cut \in 0..Len(send_query_response(pages)),
           NEW bytes, bytes = SubSeq(send_query_response(pages), 1, cut),
           NEW r, Reached(r, bytes, pages, i)
    PROVE  Reached(recv_page(r), bytes, pages, i + 1)
<1>1. PICK whole \in Seq(Byte) : whole = send_query_response(pages)
  BY AnswerBytes
<1>2. /\ bytes \in Seq(Byte) /\ Len(bytes) = cut
      /\ \A pos \in Nat, w \in Seq(Byte) : Carries(whole, pos, w) => Carries(bytes, pos, w)
  <2>1. cut \in 0..Len(whole) /\ bytes = SubSeq(whole, 1, cut)
    BY <1>1
  <2> QED  BY <2>1, CutCarries
<1>3. PICK p \in LeanPage, w \in Seq(Byte) : p = pages[i + 1] /\ w = PageBytes(p)
  <2>1. PICK n \in Nat : n = Len(pages)
    OBVIOUS
  <2>2. PICK h \in 1..n : h = i + 1
    BY <2>1
  <2>3. pages[h] \in LeanPage
    BY <2>1
  <2>4. Encoded(pages)[h] \in Seq(Byte) /\ Encoded(pages)[h] = PageBytes(pages[h])
    <3>1. PICK s \in Seq(Seq(Byte)) : s = Encoded(pages) /\ Len(s) = n
      BY <2>1, EncodedTyped
    <3>2. h \in 1..Len(s) /\ h \in DOMAIN pages
      BY <2>1, <3>1
    <3>3. s[h] \in Seq(Byte)
      BY <3>2
    <3> QED  BY <3>1, <3>2, <3>3 DEF Encoded
  <2> QED  BY <2>2, <2>3, <2>4
<1>4. PICK q \in Nat : q = End(pages, i) /\ End(pages, i + 1) = q + Len(w) /\ Carries(whole, q, w)
  BY <1>1, <1>3, PagesStand
<1>5. Stands(r.fd, bytes, q) /\ Carries(bytes, q, PageBytes(p))
  BY <1>2, <1>3, <1>4 DEF Reached
<1>6. /\ Stands(recv_page(r).fd, bytes, q + Len(w))
      /\ recv_page(r).val = IF q + Len(w) <= Len(bytes) THEN Append(r.val, p) ELSE r.val
  <2>1. /\ Stands(recv_page(r).fd, bytes, q + Len(PageBytes(p)))
        /\ recv_page(r).val = IF q + Len(PageBytes(p)) <= Len(bytes) THEN Append(r.val, p) ELSE r.val
    BY <1>5, PageGets
  <2> QED  BY <1>3, <2>1
<1>7. PICK k \in 0..i : r.val = SubSeq(pages, 1, k) /\ (q <= Len(bytes) => k = i)
  BY <1>4 DEF Reached
<1>8. PICK len \in Nat, size \in Nat : len = Len(w) /\ size = Len(bytes)
  BY <1>2
<1>9. CASE q + len <= size
  <2>1. k = i
    BY <1>7, <1>8, <1>9
  <2>2. recv_page(r).val = SubSeq(pages, 1, i + 1)
    BY <1>3, <1>6, <1>7, <1>8, <1>9, <2>1, PrefixGrows
  <2>3. i + 1 \in 0..(i + 1)
    OBVIOUS
  <2> QED  BY <1>4, <1>6, <2>2, <2>3 DEF Reached
<1>10. CASE ~(q + len <= size)
  <2>1. recv_page(r).val = SubSeq(pages, 1, k) /\ k \in 0..(i + 1)
    BY <1>6, <1>7, <1>8, <1>10
  <2> QED  BY <1>4, <1>6, <1>8, <1>10, <2>1 DEF Reached
<1> QED  BY <1>9, <1>10

\* Whatever pages are sent and wherever the stream ends, what is received are
\* the first of them, unchanged and in order, and all if the answer is whole.
THEOREM CutAnswerIsPrefix ==
    ASSUME NEW pages \in Seq(LeanPage), Len(pages) \in U32,
           NEW cut \in 0..Len(send_query_response(pages))
    PROVE  \E k \in 0..Len(pages) :
              /\ recv_query_data(Opened(SubSeq(send_query_response(pages), 1, cut), {})) = SubSeq(pages, 1, k)
              /\ cut = Len(send_query_response(pages)) => k = Len(pages)
<1>1. PICK whole \in Seq(Byte), n \in Nat : whole = send_query_response(pages) /\ n = Len(pages)
  BY AnswerBytes
<1>2. PICK bytes \in Seq(Byte) :
         /\ bytes = SubSeq(whole, 1, cut) /\ Len(bytes) = cut
         /\ \A pos \in Nat, w \in Seq(Byte) : Carries(whole, pos, w) => Carries(bytes, pos, w)
  <2>1. cut \in 0..Len(whole)
    BY <1>1
  <2> QED  BY <2>1, CutCarries
<1> DEFINE fd == Opened(bytes, {})
           count == recv_u32(fd)
           g == Upto(count.fd, n)
<1>3. PICK v \in Seq(Byte), w \in Seq(Byte) : v = send_u32(n) /\ Len(v) = 4 /\ whole = v \o w
  <2>1. n \in U32
    BY <1>1
  <2> QED  BY <1>1, <2>1, WordBytes, AnswerBytes
<1>4. Carries(bytes, 0, v)
  <2>1. Carries(whole, 0, v)
    BY <1>3, CarriesFront
  <2> QED  BY <1>2, <2>1
<1>5. Stands(fd, bytes, 0) /\ fd.bytes = bytes /\ fd.pos = 0
  BY <1>2 DEF Stands, Open, Fd, Opened
<1> HIDE DEF fd
<1>6. /\ Stands(count.fd, bytes, 4) /\ (count.fd.ok <=> 4 <= cut)
      /\ count.fd.ok => count.val = n
  <2>1. Open(fd) /\ n \in U32 /\ Carries(fd.bytes, fd.pos, send_u32(n))
    BY <1>1, <1>3, <1>4, <1>5 DEF Stands
  <2>2. Gets(count, fd, v, n)
    BY <1>3, <2>1, U32Reads
  <2> HIDE DEF count
  <2>3. PICK zero \in Nat : zero = 0
    OBVIOUS
  <2>4. Stands(fd, bytes, zero) /\ Len(v) > 0
    BY <1>3, <1>5, <2>3
  <2>5. /\ Stands(count.fd, bytes, zero + Len(v)) /\ (count.fd.ok <=> zero + Len(v) <= Len(bytes))
        /\ count.fd.ok => count.val = n
    BY <2>2, <2>4, Advances
  <2> QED  BY <1>2, <1>3, <2>3, <2>5
<1>7. recv_query_data(fd) = IF count.fd.ok THEN Upto(count.fd, count.val)[count.val].val ELSE << >>
  BY QueryDataUnfolds
<1> HIDE DEF count
<1>8. CASE ~count.fd.ok
  <2>1. cut < 4
    BY <1>2, <1>6, <1>8
  <2>2. cut # Len(whole)
    <3>1. Len(v \o w) = Len(v) + Len(w)
      OBVIOUS
    <3> QED  BY <1>3, <2>1, <3>1
  <2>3. PICK a \in Seq(LeanPage) : a = SubSeq(pages, 1, 0) /\ Len(a) = 0
    <3>1. 0 \in 0..Len(pages)
      OBVIOUS
    <3> QED  BY <3>1, PrefixIs DEF FirstOnes
  <2>4. recv_query_data(fd) = SubSeq(pages, 1, 0)
    BY <1>7, <1>8, <2>3, EmptySeq
  <2>5. 0 \in 0..Len(pages)
    OBVIOUS
  <2> QED  BY <1>1, <1>2, <2>2, <2>4, <2>5 DEF fd
<1>9. CASE count.fd.ok
  <2>1. recv_query_data(fd) = g[n].val
    BY <1>6, <1>7, <1>9
  <2>2. \A i \in 0..n : g[i] = IF i = 0 THEN Read(count.fd, << >>) ELSE recv_page(g[i - 1])
    BY UptoExists
  <2> HIDE DEF g
  <2> DEFINE Wrong == {i \in 0..n : ~Reached(g[i], bytes, pages, i)}
  <2>3. Wrong = {}
    <3> SUFFICES ASSUME Wrong # {} PROVE FALSE
      OBVIOUS
    <3>1. PICK i \in Wrong : \A j \in Wrong : i <= j
      <4>1. Wrong \in SUBSET Nat
        OBVIOUS
      <4> HIDE DEF Wrong
      <4> QED  BY <4>1, LeastNumber
    <3>2. i \in 0..n /\ ~Reached(g[i], bytes, pages, i)
      OBVIOUS
    <3>3. CASE i = 0
      <4>1. End(pages, 0) = 4
        BY DEF End, Joined
      <4>2. g[0] = [fd |-> count.fd, val |-> << >>]
        BY <2>2 DEF Read
      <4>3. SubSeq(pages, 1, 0) = << >>
        <5>1. 0 \in 0..Len(pages)
          OBVIOUS
        <5> QED  BY <5>1, PrefixIs, EmptySeq DEF FirstOnes
      <4>4. 0 \in 0..0
        OBVIOUS
      <4>5. Reached(g[0], bytes, pages, 0)
        BY <1>6, <4>1, <4>2, <4>3, <4>4 DEF Reached
      <4> QED  BY <3>2, <3>3, <4>5
    <3>4. CASE i # 0
      <4>1. PICK h \in 0..(n - 1) : i = h + 1 /\ i - 1 = h /\ h \in 0..n
        BY <3>2, <3>4
      <4>2. h \notin Wrong
        BY <3>1, <3>2, <4>1
      <4>3. PICK r : r = g[h] /\ Reached(r, bytes, pages, h)
        BY <4>1, <4>2
      <4>4. g[i] = recv_page(r)
        BY <2>2, <3>2, <3>4, <4>1, <4>3
      <4>5. h \in 0..(Len(pages) - 1) /\ bytes = SubSeq(send_query_response(pages), 1, cut)
        BY <1>1, <1>2, <4>1
      <4>6. Reached(recv_page(r), bytes, pages, h + 1)
        BY <4>3, <4>5, ReachedNext
      <4> QED  BY <3>2, <4>1, <4>4, <4>6
    <3> QED  BY <3>3, <3>4
  <2>4. Reached(g[n], bytes, pages, n)
    <3>1. n \in 0..n
      OBVIOUS
    <3> QED  BY <2>3, <3>1
  <2>5. PICK k \in 0..n : g[n].val = SubSeq(pages, 1, k) /\ (End(pages, n) <= Len(bytes) => k = n)
    BY <2>4 DEF Reached
  <2>6. cut = Len(whole) => k = n
    <3>1. Len(whole) = End(pages, n)
      BY <1>1, AnswerBytes
    <3> QED  BY <1>2, <2>5, <3>1
  <2> QED  BY <1>1, <1>2, <2>1, <2>5, <2>6 DEF fd
<1> QED  BY <1>8, <1>9

\* Even if reads run into their timeout and the fields that follow are read
\* from the wrong place: pages, and no more than were sent.
THEOREM AnyAnswerIsBounded ==
    ASSUME NEW pages \in Seq(LeanPage), Len(pages) \in U32,
           NEW cut \in 0..Len(send_query_response(pages)), NEW pauses \in SUBSET Nat,
           NEW got, got = recv_query_data(Opened(SubSeq(send_query_response(pages), 1, cut), pauses))
    PROVE  got \in Seq(LeanPage) /\ Len(got) <= Len(pages)
<1>1. PICK whole \in Seq(Byte), n \in Nat : whole = send_query_response(pages) /\ n = Len(pages)
  BY AnswerBytes
<1>2. PICK bytes \in Seq(Byte) :
         /\ bytes = SubSeq(whole, 1, cut)
         /\ \A pos \in Nat, w \in Seq(Byte) : Carries(whole, pos, w) => Carries(bytes, pos, w)
  <2>1. cut \in 0..Len(whole)
    BY <1>1
  <2> QED  BY <2>1, CutCarries
<1> DEFINE fd == Opened(bytes, pauses)
           count == recv_u32(fd)
<1>3. PICK v \in Seq(Byte), w \in Seq(Byte) : v = send_u32(n) /\ Len(v) = 4 /\ whole = v \o w
  <2>1. n \in U32
    BY <1>1
  <2> QED  BY <1>1, <2>1, WordBytes, AnswerBytes
<1>4. Carries(bytes, 0, v)
  <2>1. Carries(whole, 0, v)
    BY <1>3, CarriesFront
  <2> QED  BY <1>2, <2>1
<1>5. Open(fd) /\ fd.bytes = bytes /\ fd.pos = 0
  BY <1>2 DEF Open, Fd, Opened
<1>f. got = recv_query_data(fd)
  BY <1>1, <1>2
<1> HIDE DEF fd
<1>6. Open(count.fd) /\ (count.fd.ok => count.val = n)
  <2>1. n \in U32 /\ Carries(fd.bytes, fd.pos, send_u32(n))
    BY <1>1, <1>3, <1>4, <1>5
  <2>2. Gets(count, fd, v, n)
    BY <1>3, <1>5, <2>1, U32Reads
  <2> HIDE DEF count
  <2> QED  BY <2>2 DEF Gets, Later
<1>7. recv_query_data(fd) = IF count.fd.ok THEN Upto(count.fd, count.val)[count.val].val ELSE << >>
  BY QueryDataUnfolds
<1> HIDE DEF count
<1>8. CASE ~count.fd.ok
  <2>1. got = << >>
    BY <1>7, <1>8, <1>f
  <2>2. << >> \in Seq(LeanPage) /\ Len(<< >>) = 0 /\ 0 <= n
    OBVIOUS
  <2> QED  BY <1>1, <2>1, <2>2
<1>9. CASE count.fd.ok
  <2>1. Bounded(Upto(count.fd, n)[n], n)
    BY <1>6, UptoBounded
  <2> QED  BY <1>1, <1>6, <1>7, <1>9, <1>f, <2>1 DEF Bounded
<1> QED  BY <1>8, <1>9
=============================================================================
