-------------------------- MODULE WebSocket_proofs --------------------------
(***************************************************************************)
(* Proofs about WebSocket for every number of peers, descriptors, keys,    *)
(* batches and frames, and every way in which reads split the streams.     *)
(*                                                                         *)
(* The codec is correct by itself: DecodeFrame inverts what the peers      *)
(* encode, once all of the frame has arrived.  The tables agree whatever   *)
(* the peers send and however long they do not read.  That a number which  *)
(* is to be closed still denotes the socket it was noted for is another    *)
(* matter: it holds until a descriptor is listed for removal twice, which  *)
(* the history variable twice tells.                                       *)
(*                                                                         *)
(* What the recursive definitions compute is proved by the least-number    *)
(* principle, which the library states for sets.                           *)
(***************************************************************************)
EXTENDS WebSocket, WellFoundedInduction, TLAPS

-----------------------------------------------------------------------------
(* The inductive invariant *)

Types ==
  /\ running \in BOOLEAN /\ listening \in BOOLEAN /\ twice \in BOOLEAN
  /\ apc \in {"accept", "read", "add", "done"} /\ afd \in Fd \cup {None}
  /\ bpc \in {"incoming", "decode", "stuck", "close", "send", "write", "done"}
  /\ cur \in Fd \cup {None} /\ toRemove \in Seq(Fd)
  /\ out \in [key : Keys, batch : 0..MaxPush, to : SUBSET Fd, dead : SUBSET Fd]
  /\ main \in {"run", "join", "stopped"}
  /\ fds \in [Fd -> Clients \cup {0}]
  /\ conns \in [Fd -> ConnInfo \cup {None}]
  /\ subs \in [Keys -> SUBSET Fd]
  /\ buffers \in [Keys -> Seq(1..MaxPush)]
  /\ peer \in [Clients -> {"out", "waiting", "asked", "bad", "open", "gone"}]
  /\ want \in [Clients -> Keys \cup {None}]
  /\ sent \in [Clients -> Seq(Frame)]
  /\ full \subseteq Clients

\* The sink keeps at most MaxKeep batches of a key.
Kept == \A k \in Keys : Len(buffers[k]) <= MaxKeep

\* The accept thread has a descriptor exactly while it sets one up, which the tables
\* do not know.
Accepting ==
  /\ apc \in {"read", "add"} <=> afd # None
  /\ afd # None => conns[afd] = None /\ (fds[afd] # 0 \/ twice)
  /\ apc = "add" /\ fds[afd] # 0 => want[fds[afd]] \in Keys /\ peer[fds[afd]] \in {"open", "gone"}
  /\ \A c \in Clients : peer[c] = "asked" => want[c] \in Keys
  /\ main = "stopped" => apc = "done" /\ bpc = "done"

\* A descriptor denotes the peer it was registered with, and no other does.
Owned ==
  /\ \A f \in Fd : conns[f] # None => fds[f] = conns[f].who
  /\ \A f, g \in Fd : fds[f] = fds[g] /\ fds[f] # 0 => f = g
  /\ \A f \in Fd : fds[f] # 0 => peer[fds[f]] # "out"

\* No more has been read of a stream than was sent.
Streams ==
  \A f \in Fd : conns[f] # None => conns[f].bytes <= StreamSize(sent[conns[f].who])

\* What ProcessIncoming still has to read, is decoding and has listed are different
\* connections, but for one that is listed while it is decoded; as long as none is
\* listed twice, what is listed and what is being closed is still what it was.
Listed == {toRemove[i] : i \in 1..Len(toRemove)}
Distinct ==
  /\ \A i \in 1..Len(toRemove) : conns[toRemove[i]] # None
  /\ \A i, j \in 1..Len(toRemove) : toRemove[i] = toRemove[j] => i = j
Incoming ==
  /\ cur # None <=> bpc \in {"decode", "stuck", "close"}
  /\ bpc \in {"decode", "stuck"} => conns[cur] # None
  /\ bpc = "close" => /\ conns[cur] = None /\ todo = {}
                      /\ twice \/ (fds[cur] # 0 /\ cur # afd)
  /\ bpc \in {"send", "write", "done"} => toRemove = <<>>
  /\ bpc \in {"incoming", "decode", "stuck"} =>
       /\ \A f \in todo : f \in Fd /\ conns[f] # None /\ f \notin Listed /\ f # cur
  /\ ~twice => Distinct

\* BroadcastData serves each key once, and only connections that still have it.
Serving ==
  /\ bpc \in {"send", "write"} => /\ \A e \in todo : e[1] \in Keys /\ e[2] \subseteq subs[e[1]]
                                /\ \A d, e \in todo : d[1] = e[1] => d = e
  /\ bpc = "write" => /\ out.to \subseteq subs[out.key] /\ out.dead \subseteq subs[out.key]
                      /\ \A e \in todo : e[1] # out.key
  /\ bpc = "done" => todo = {}

WsInv ==
  /\ Types /\ Kept /\ Accepting /\ Owned /\ Streams /\ Incoming /\ Serving
  /\ IndexesAgree /\ NoLeak

-----------------------------------------------------------------------------
(* Induction: a set of numbers has a least one *)

\* The least-number principle.
LEMMA LeastNumber ==
  ASSUME NEW T \in SUBSET Nat, T # {}
  PROVE  \E x \in T : \A y \in T : x <= y
<1>1. PICK R : R = OpToRel(<, Nat)
  OBVIOUS
<1>2. IsWellFoundedOn(R, Nat)
  BY <1>1, NatLessThanWellFounded, Zenon
<1>3. \A x \in Nat, y \in Nat : x < y => <<x, y>> \in R
  BY <1>1 DEF OpToRel
<1>4. PICK x \in T : \A y \in T : ~(<<y, x>> \in R)
  BY <1>2, WFMin
<1>5. \A y \in T : ~(y < x)
  BY <1>3, <1>4
<1> QED  BY <1>5

-----------------------------------------------------------------------------
(* The bytes of a stream *)

\* Every frame of a peer has a size.
LEMMA FrameSizes ==
  \A m \in Frame : SizeOf(m) \in Nat /\ SizeOf(m) > 0
BY DEF Frame, SizeOf, Op

\* f[i] is the size of the first i frames of s.
Sums(f, s, k) ==
  /\ f \in [0..k -> Nat] /\ f[0] = 0
  /\ \A i \in 1..k : f[i] = f[i - 1] + SizeOf(s[i])

\* There is such a function.
LEMMA SumsExist ==
  ASSUME NEW s \in Seq(Frame)
  PROVE  \E f : Sums(f, s, Len(s))
<1> DEFINE T == {k \in 0..Len(s) : ~ \E f : Sums(f, s, k)}
<1> SUFFICES ASSUME ~ \E f : Sums(f, s, Len(s)) PROVE FALSE
  OBVIOUS
<1>1. Len(s) \in T /\ T \in SUBSET Nat
  OBVIOUS
<1>2. PICK k \in T : \A y \in T : k <= y
  BY <1>1, LeastNumber
<1>3. CASE k = 0
  <2> DEFINE f == [i \in 0..0 |-> 0]
  <2>1. Sums(f, s, 0)
    BY DEF Sums
  <2> QED  BY <2>1, <1>2, <1>3
<1>4. CASE k # 0
  <2>1. k - 1 \in 0..Len(s) /\ k \in 1..Len(s) /\ k \in Nat
    BY <1>2, <1>4
  <2>2. k - 1 \notin T
    BY <2>1, <1>2
  <2>3. PICK f : Sums(f, s, k - 1)
    BY <2>1, <2>2
  <2>4. s[k] \in Frame
    BY <2>1
  <2>5. PICK z \in Nat : z = SizeOf(s[k])
    BY <2>4, FrameSizes
  <2> DEFINE h == [i \in 0..k |-> IF i = k THEN f[k - 1] + z ELSE f[i]]
  <2>6. h \in [0..k -> Nat]
    BY <2>1, <2>3, <2>5 DEF Sums
  <2>7. h[0] = 0
    BY <2>1, <2>3 DEF Sums
  <2>8. ASSUME NEW i \in 1..k PROVE h[i] = h[i - 1] + SizeOf(s[i])
    <3>1. CASE i = k
      BY <3>1, <2>1, <2>3, <2>5
    <3>2. CASE i # k
      BY <3>2, <2>1, <2>3 DEF Sums
    <3> QED  BY <3>1, <3>2
  <2>9. Sums(h, s, k)
    BY <2>6, <2>7, <2>8 DEF Sums
  <2> QED  BY <2>9, <1>2
<1> QED  BY <1>3, <1>4

\* StreamSize is its last value.
LEMMA StreamSums ==
  ASSUME NEW s \in Seq(Frame)
  PROVE  \E f : Sums(f, s, Len(s)) /\ StreamSize(s) = f[Len(s)]
<1> DEFINE P(f) == f = [i \in 0..Len(s) |-> IF i = 0 THEN 0 ELSE f[i - 1] + SizeOf(s[i])]
<1>1. PICK f : Sums(f, s, Len(s))
  BY SumsExist
<1>2. P(f)
  BY <1>1 DEF Sums
<1>3. PICK g : g = CHOOSE h : P(h)
  OBVIOUS
<1>4. P(g)
  <2> HIDE DEF P
  <2> QED  BY <1>2, <1>3, Zenon
<1>5. StreamSize(s) = g[Len(s)]
  BY <1>3, Zenon DEF StreamSize
<1>6. Sums(g, s, Len(s))
  <2> DEFINE D == {i \in 0..Len(s) : g[i] # f[i]}
  <2>1. D = {}
    <3> SUFFICES ASSUME D # {} PROVE FALSE
      OBVIOUS
    <3>1. PICK k \in D : \A y \in D : k <= y
      <4>1. D \in SUBSET Nat
        OBVIOUS
      <4> QED  BY <4>1, LeastNumber
    <3>2. CASE k = 0
      BY <3>1, <3>2, <1>1, <1>4 DEF Sums
    <3>3. CASE k # 0
      <4>1. k - 1 \in 0..Len(s) /\ k - 1 \notin D /\ k \in 1..Len(s)
        BY <3>1, <3>3
      <4> QED  BY <4>1, <3>1, <1>1, <1>4 DEF Sums
    <3> QED  BY <3>2, <3>3
  <2>2. \A i \in 0..Len(s) : g[i] = f[i] /\ f[i] \in Nat
    BY <2>1, <1>1 DEF Sums
  <2>3. g = [i \in 0..Len(s) |-> g[i]]
    BY <1>4
  <2>4. g \in [0..Len(s) -> Nat]
    BY <2>2, <2>3
  <2>5. 0 \in 0..Len(s) /\ \A i \in 1..Len(s) : i \in 0..Len(s) /\ i - 1 \in 0..Len(s)
    OBVIOUS
  <2>6. g[0] = 0 /\ \A i \in 1..Len(s) : g[i] = g[i - 1] + SizeOf(s[i])
    BY <2>2, <2>5, <1>1 DEF Sums
  <2> QED  BY <2>4, <2>6 DEF Sums
<1> QED  BY <1>5, <1>6

\* An empty stream has no bytes, and every stream has a number of them.
LEMMA StreamTypes ==
  /\ StreamSize(<<>>) = 0
  /\ \A s \in Seq(Frame) : StreamSize(s) \in Nat
<1>1. <<>> \in Seq(Frame) /\ Len(<<>>) = 0
  OBVIOUS
<1>2. PICK f : Sums(f, <<>>, 0) /\ StreamSize(<<>>) = f[0]
  BY <1>1, StreamSums
<1>3. ASSUME NEW s \in Seq(Frame) PROVE StreamSize(s) \in Nat
  <2>1. PICK g : Sums(g, s, Len(s)) /\ StreamSize(s) = g[Len(s)]
    BY StreamSums
  <2> QED  BY <2>1 DEF Sums
<1> QED  BY <1>2, <1>3 DEF Sums

\* A frame that is sent adds its size.
LEMMA StreamGrows ==
  ASSUME NEW s \in Seq(Frame), NEW m \in Frame
  PROVE  StreamSize(Append(s, m)) = StreamSize(s) + SizeOf(m)
<1>1. PICK t \in Seq(Frame) : t = Append(s, m)
  <2>1. Append(s, m) \in Seq(Frame)
    OBVIOUS
  <2> QED  BY <2>1, Zenon
<1>2. Len(t) = Len(s) + 1 /\ t[Len(s) + 1] = m /\ \A i \in 1..Len(s) : t[i] = s[i]
  BY <1>1
<1>3. PICK f : Sums(f, s, Len(s)) /\ StreamSize(s) = f[Len(s)]
  BY StreamSums
<1>4. PICK g : Sums(g, t, Len(t)) /\ StreamSize(t) = g[Len(t)]
  BY StreamSums
<1> DEFINE D == {i \in 0..Len(s) : g[i] # f[i]}
<1>5. D = {}
  <2> SUFFICES ASSUME D # {} PROVE FALSE
    OBVIOUS
  <2>1. PICK k \in D : \A y \in D : k <= y
    <3>1. D \in SUBSET Nat
      OBVIOUS
    <3> QED  BY <3>1, LeastNumber
  <2>2. CASE k = 0
    BY <2>1, <2>2, <1>3, <1>4 DEF Sums
  <2>3. CASE k # 0
    <3>1. k - 1 \in 0..Len(s) /\ k - 1 \notin D /\ k \in 1..Len(s) /\ k \in 1..Len(t)
      BY <2>1, <2>3, <1>2
    <3>2. g[k - 1] = f[k - 1] /\ t[k] = s[k]
      BY <3>1, <1>2
    <3>3. g[k] = g[k - 1] + SizeOf(t[k]) /\ f[k] = f[k - 1] + SizeOf(s[k])
      BY <3>1, <1>3, <1>4 DEF Sums
    <3> QED  BY <3>2, <3>3, <2>1
  <2> QED  BY <2>2, <2>3
<1>6. g[Len(s)] = f[Len(s)]
  BY <1>5
<1>7. Len(s) \in Nat
  OBVIOUS
<1>8. g[Len(s) + 1] = g[Len(s)] + SizeOf(m)
  <2>1. Len(s) + 1 \in 1..Len(t)
    BY <1>2, <1>7
  <2>2. (Len(s) + 1) - 1 = Len(s)
    BY <1>7
  <2>3. g[Len(s) + 1] = g[(Len(s) + 1) - 1] + SizeOf(t[Len(s) + 1])
    BY <2>1, <1>4 DEF Sums
  <2> QED  BY <2>2, <2>3, <1>2
<1> QED  BY <1>1, <1>2, <1>3, <1>4, <1>6, <1>8

\* A frame that is handled takes its size with it.
LEMMA StreamShrinks ==
  ASSUME NEW s \in Seq(Frame), s # <<>>
  PROVE  StreamSize(s) = SizeOf(Head(s)) + StreamSize(Tail(s))
<1>1. PICK t \in Seq(Frame) : t = Tail(s)
  <2>1. Tail(s) \in Seq(Frame)
    OBVIOUS
  <2> QED  BY <2>1, Zenon
<1>2. PICK n \in Nat : n = Len(t)
  OBVIOUS
<1>3. Len(s) = n + 1 /\ \A i \in 1..n : t[i] = s[i + 1]
  BY <1>1, <1>2
<1>4. PICK f : Sums(f, s, n + 1) /\ StreamSize(s) = f[n + 1]
  BY <1>3, StreamSums
<1>5. PICK g : Sums(g, t, n) /\ StreamSize(t) = g[n]
  BY <1>2, StreamSums
<1>6. PICK z \in Nat : z = SizeOf(Head(s))
  <2>1. Head(s) \in Frame
    OBVIOUS
  <2> QED  BY <2>1, FrameSizes
<1>7. f[1] = z
  <2>1. 1 \in 1..(n + 1) /\ 1 - 1 = 0
    BY <1>3
  <2> QED  BY <2>1, <1>3, <1>4, <1>6 DEF Sums
<1> DEFINE D == {i \in 0..n : f[i + 1] # z + g[i]}
<1>8. D = {}
  <2> SUFFICES ASSUME D # {} PROVE FALSE
    OBVIOUS
  <2>1. PICK k \in D : \A y \in D : k <= y
    <3>1. D \in SUBSET Nat
      OBVIOUS
    <3> QED  BY <3>1, LeastNumber
  <2>2. CASE k = 0
    BY <2>1, <2>2, <1>5, <1>7 DEF Sums
  <2>3. CASE k # 0
    <3>1. k - 1 \in 0..n /\ k - 1 \notin D /\ k \in 1..n /\ k + 1 \in 1..(n + 1) /\ k \in Nat
      BY <2>1, <2>3
    <3>2. f[k] = z + g[k - 1]
      BY <3>1
    <3>3. f[k + 1] = f[k] + SizeOf(s[k + 1])
      <4>1. (k + 1) - 1 = k
        BY <3>1
      <4>2. f[k + 1] = f[(k + 1) - 1] + SizeOf(s[k + 1])
        BY <3>1, <1>4 DEF Sums
      <4> QED  BY <4>1, <4>2
    <3>4. g[k] = g[k - 1] + SizeOf(t[k]) /\ t[k] = s[k + 1] /\ g[k - 1] \in Nat
      BY <3>1, <1>3, <1>5 DEF Sums
    <3>5. SizeOf(t[k]) \in Nat
      BY <3>1, <1>2, FrameSizes
    <3> QED  BY <3>2, <3>3, <3>4, <3>5, <2>1
  <2> QED  BY <2>2, <2>3
<1>9. f[n + 1] = z + g[n]
  BY <1>8
<1> QED  BY <1>1, <1>4, <1>5, <1>6, <1>9
-----------------------------------------------------------------------------
(* The codec *)

\* What is where in a concatenation.
LEMMA Glued ==
  ASSUME NEW s \in Seq(Nat), NEW t \in Seq(Nat)
  PROVE  /\ s \o t \in Seq(Nat) /\ Len(s \o t) = Len(s) + Len(t)
         /\ \A i \in 1..Len(s) : (s \o t)[i] = s[i]
         /\ \A i \in (Len(s) + 1)..(Len(s) + Len(t)) : (s \o t)[i] = t[i - Len(s)]
OBVIOUS

\* A byte before n bytes.
Byte(x, t) == <<x>> \o t
ByteAndRest(a, x, t, n) ==
  /\ a \in Seq(Nat) /\ Len(a) = n + 1 /\ a[1] = x
  /\ \A i \in 2..(n + 1) : a[i] = t[i - 1]

\* The byte is first, and the others follow.
LEMMA GluedByte ==
  ASSUME NEW x \in Nat, NEW t \in Seq(Nat), NEW n \in Nat, Len(t) = n,
         NEW a, a = Byte(x, t)
  PROVE  ByteAndRest(a, x, t, n)
<1>1. PICK s \in Seq(Nat) : s = <<x>>
  <2>1. <<x>> \in Seq(Nat)
    OBVIOUS
  <2> QED  BY <2>1, Zenon
<1>2. Len(s) = 1 /\ s[1] = x
  BY <1>1
<1>3. /\ s \o t \in Seq(Nat) /\ Len(s \o t) = Len(s) + Len(t)
      /\ \A i \in 1..Len(s) : (s \o t)[i] = s[i]
      /\ \A i \in (Len(s) + 1)..(Len(s) + Len(t)) : (s \o t)[i] = t[i - Len(s)]
  BY Glued
<1>4. /\ s \o t \in Seq(Nat) /\ Len(s \o t) = n + 1 /\ (s \o t)[1] = x
      /\ \A i \in 2..(n + 1) : (s \o t)[i] = t[i - 1]
  BY <1>2, <1>3
<1> QED  BY <1>1, <1>4, Zenon DEF Byte, ByteAndRest

\* The mask bit and the key of a peer change the second byte and add four.
Keyed(e) == e \o <<1, 2, 3, 4>>
WithMask(h) == Keyed([h EXCEPT ![2] = @ + 128])
MaskedBytes(x, h, n) ==
  /\ x \in Seq(Nat) /\ Len(x) = n + 4 /\ x[2] = h[2] + 128
  /\ \A i \in 1..n : i # 2 => x[i] = h[i]

\* The bytes of a masked header.
LEMMA Masked ==
  ASSUME NEW h \in Seq(Nat), NEW n \in Nat, Len(h) = n, n >= 2, NEW x, x = WithMask(h)
  PROVE  MaskedBytes(x, h, n)
<1>0. 2 \in 1..Len(h) /\ h[2] \in Nat
  OBVIOUS
<1>1. PICK y \in Nat : y = h[2] + 128
  BY <1>0
<1>2. PICK e : e = [h EXCEPT ![2] = y]
  OBVIOUS
<1>3. e \in Seq(Nat) /\ Len(e) = n /\ e[2] = y /\ \A i \in 1..n : i # 2 => e[i] = h[i]
  BY <1>0, <1>2
<1>4. PICK k \in Seq(Nat) : k = <<1, 2, 3, 4>>
  <2>1. <<1, 2, 3, 4>> \in Seq(Nat)
    OBVIOUS
  <2> QED  BY <2>1, Zenon
<1>5. Len(k) = 4
  BY <1>4
<1>6. x = Keyed(e)
  BY <1>1, <1>2 DEF WithMask
<1>7. Keyed(e) = e \o k
  BY <1>4, Zenon DEF Keyed
<1>8. /\ e \o k \in Seq(Nat) /\ Len(e \o k) = Len(e) + Len(k)
      /\ \A i \in 1..Len(e) : (e \o k)[i] = e[i]
  BY <1>3, Glued
<1>9. /\ x \in Seq(Nat) /\ Len(x) = Len(e) + Len(k) /\ \A i \in 1..Len(e) : x[i] = e[i]
  BY <1>6, <1>7, <1>8, Zenon
<1>10. 1..Len(e) = 1..n /\ 2 \in 1..n
  BY <1>0, <1>3
<1>11. \A i \in 1..n : x[i] = e[i]
  BY <1>9, <1>10, Zenon
<1>12. x \in Seq(Nat) /\ Len(x) = n + 4
  BY <1>3, <1>5, <1>9, Zenon
<1>13. x[2] = h[2] + 128
  BY <1>1, <1>3, <1>10, <1>11, Zenon
<1>14. \A i \in 1..n : i # 2 => x[i] = h[i]
  BY <1>3, <1>11, Zenon
<1> QED  BY <1>12, <1>13, <1>14, Zenon DEF MaskedBytes

\* The bytes of a sequence.
LEMMA BytesAreNumbers ==
  \A d \in Seq(Nat) : \A i \in 1..Len(d) : d[i] \in Nat
OBVIOUS

\* Two bytes, most significant first.
LEMMA NumberOfTwo ==
  ASSUME NEW d \in Seq(Nat), Len(d) = 2
  PROVE  NumberOf(d) = d[1] * 256 + d[2]
<1> DEFINE P(f) == f = [i \in 0..Len(d) |-> IF i = 0 THEN 0 ELSE f[i - 1] * 256 + d[i]]
<1>1. d[1] \in Nat /\ d[2] \in Nat
  <2> HIDE DEF P
  <2>1. \A i \in 1..Len(d) : d[i] \in Nat
    BY BytesAreNumbers, Zenon
  <2>2. 1 \in 1..Len(d) /\ 2 \in 1..Len(d)
    OBVIOUS
  <2> QED  BY <2>1, <2>2, Zenon
<1>0. 0..Len(d) = 0..2
  BY Zenon
<1>2. \E f : P(f)
  <2> DEFINE f == [i \in 0..2 |-> IF i = 0 THEN 0 ELSE IF i = 1 THEN d[1] ELSE d[1] * 256 + d[2]]
  <2>1. f[0] = 0 /\ f[1] = d[1] /\ f[2] = d[1] * 256 + d[2]
    OBVIOUS
  <2>2. \A i \in 0..2 : i = 0 \/ i = 1 \/ i = 2
    OBVIOUS
  <2>3. \A i \in 0..2 : f[i] = IF i = 0 THEN 0 ELSE f[i - 1] * 256 + d[i]
    <3> HIDE DEF f
    <3> QED  BY <1>1, <2>1, <2>2
  <2>4. P(f)
    BY <1>0, <1>1, <2>3
  <2> QED  BY <2>4
<1>3. PICK g : g = CHOOSE h : P(h)
  OBVIOUS
<1>4. P(g)
  <2> HIDE DEF P
  <2> QED  BY <1>2, <1>3, Zenon
<1>5. NumberOf(d) = g[Len(d)]
  BY <1>3, Zenon DEF NumberOf
<1>6. g[0] = 0 /\ g[1] = d[1] /\ g[2] = g[1] * 256 + d[2]
  <2>1. \A i \in 0..2 : g[i] = IF i = 0 THEN 0 ELSE g[i - 1] * 256 + d[i]
    BY <1>0, <1>1, <1>4
  <2> QED  BY <1>1, <2>1
<1> QED  BY <1>5, <1>6

\* Eight bytes, of which the first five are 0.
LEMMA NumberOfEight ==
  ASSUME NEW d \in Seq(Nat), Len(d) = 8, \A i \in 1..5 : d[i] = 0
  PROVE  NumberOf(d) = d[6] * 65536 + d[7] * 256 + d[8]
<1> DEFINE P(f) == f = [i \in 0..Len(d) |-> IF i = 0 THEN 0 ELSE f[i - 1] * 256 + d[i]]
<1>1. d[6] \in Nat /\ d[7] \in Nat /\ d[8] \in Nat
  <2> HIDE DEF P
  <2>1. \A i \in 1..Len(d) : d[i] \in Nat
    BY BytesAreNumbers, Zenon
  <2>2. 6 \in 1..Len(d) /\ 7 \in 1..Len(d) /\ 8 \in 1..Len(d)
    OBVIOUS
  <2> QED  BY <2>1, <2>2, Zenon
<1>0. 0..Len(d) = 0..8
  BY Zenon
<1>2. \E f : P(f)
  <2> DEFINE f == [i \in 0..8 |-> IF i <= 5 THEN 0 ELSE IF i = 6 THEN d[6]
                                  ELSE IF i = 7 THEN d[6] * 256 + d[7]
                                  ELSE (d[6] * 256 + d[7]) * 256 + d[8]]
  <2>1. /\ \A i \in 0..5 : f[i] = 0
        /\ f[6] = d[6] /\ f[7] = d[6] * 256 + d[7] /\ f[8] = (d[6] * 256 + d[7]) * 256 + d[8]
    OBVIOUS
  <2>2. \A i \in 0..8 : i \in 0..5 \/ i = 6 \/ i = 7 \/ i = 8
    OBVIOUS
  <2>3. \A i \in 0..8 : f[i] = IF i = 0 THEN 0 ELSE f[i - 1] * 256 + d[i]
    <3> HIDE DEF f
    <3>1. \A i \in 0..5 : f[i] = IF i = 0 THEN 0 ELSE f[i - 1] * 256 + d[i]
      BY <2>1
    <3>2. f[6] = f[5] * 256 + d[6] /\ f[7] = f[6] * 256 + d[7] /\ f[8] = f[7] * 256 + d[8]
      BY <1>1, <2>1
    <3> QED  BY <2>2, <3>1, <3>2
  <2>4. P(f)
    BY <1>0, <1>1, <2>3
  <2> QED  BY <2>4
<1>3. PICK g : g = CHOOSE h : P(h)
  OBVIOUS
<1>4. P(g)
  <2> HIDE DEF P
  <2> QED  BY <1>2, <1>3, Zenon
<1>5. NumberOf(d) = g[Len(d)]
  BY <1>3, Zenon DEF NumberOf
<1>6. \A i \in 0..8 : g[i] = IF i = 0 THEN 0 ELSE g[i - 1] * 256 + d[i]
  BY <1>0, <1>1, <1>4
<1>7. g[0] = 0 /\ g[1] = 0 /\ g[2] = 0 /\ g[3] = 0 /\ g[4] = 0 /\ g[5] = 0
  <2>1. d[1] = 0 /\ d[2] = 0 /\ d[3] = 0 /\ d[4] = 0 /\ d[5] = 0
    OBVIOUS
  <2>2. g[0] = 0 /\ g[1] = g[0] * 256 + d[1]
    BY <1>6
  <2>3. g[2] = g[1] * 256 + d[2] /\ g[3] = g[2] * 256 + d[3]
    BY <1>6
  <2>4. g[4] = g[3] * 256 + d[4] /\ g[5] = g[4] * 256 + d[5]
    BY <1>6
  <2> QED  BY <2>1, <2>2, <2>3, <2>4
<1>8. g[6] = d[6] /\ g[7] = g[6] * 256 + d[7] /\ g[8] = g[7] * 256 + d[8]
  BY <1>1, <1>6, <1>7
<1> QED  BY <1>1, <1>5, <1>8

\* The header of a Close: the length is in the second byte.
LEMMA CloseHeader ==
  ASSUME NEW m, m = [op |-> Op.close, len |-> 2, sub |-> FALSE]
  PROVE  PeerHeader(m)[1] = 136 /\ PeerHeader(m)[2] = 130
<1>1. PICK h : h = EncodeHeader(m.len, m.op)
  BY Zenon
<1>2. h = <<136>> \o <<2>>
  BY <1>1 DEF EncodeHeader, Op
<1>3. h \in Seq(Nat) /\ Len(h) = 2 /\ h[1] = 136 /\ h[2] = 2
  BY <1>2
<1>4. PeerHeader(m) = WithMask(h)
  BY <1>1, Zenon DEF PeerHeader, WithMask, Keyed
<1>5. 2 \in Nat /\ 2 >= 2
  OBVIOUS
<1>6. MaskedBytes(PeerHeader(m), h, 2)
  <2>1. h \in Seq(Nat) /\ Len(h) = 2
    BY <1>3
  <2> QED  BY <2>1, <1>4, <1>5, Masked, Zenon
<1> QED  BY <1>3, <1>6 DEF MaskedBytes

\* The header of a text of 126 bytes: the length is in two bytes more.
LEMMA TextHeader ==
  ASSUME NEW m, m = [op |-> Op.text, len |-> 126, sub |-> TRUE]
  PROVE  /\ PeerHeader(m)[1] = 129 /\ PeerHeader(m)[2] = 254
         /\ PeerHeader(m) \in Seq(Nat) /\ Len(PeerHeader(m)) = 8
         /\ PeerHeader(m)[3] = 0 /\ PeerHeader(m)[4] = 126
<1>1. PICK h : h = EncodeHeader(m.len, m.op)
  BY Zenon
<1>2. PICK b : b = BytesOf(126, 2)
  BY Zenon
<1>3. b \in Seq(Nat) /\ Len(b) = 2 /\ b[1] = 0 /\ b[2] = 126
  <2>1. b = [i \in 1..2 |-> IF 2 - i > 2 THEN 0 ELSE (126 \div Weight[2 - i + 1]) % 256]
    BY <1>2 DEF BytesOf
  <2>2. b[1] = 0 /\ b[2] = 126
    BY <2>1 DEF Weight
  <2>3. \A i \in 1..2 : b[i] \in Nat
    BY <2>2
  <2> QED  BY <2>1, <2>2, <2>3
<1>4. PICK a : a = Byte(126, b)
  BY Zenon
<1>5. h = Byte(129, a)
  <2>1. h = <<129>> \o (<<126>> \o b)
    BY <1>1, <1>2 DEF EncodeHeader, Op
  <2> QED  BY <2>1, <1>4, Zenon DEF Byte
<1>6. ByteAndRest(a, 126, b, 2)
  <2>1. 126 \in Nat /\ 2 \in Nat
    OBVIOUS
  <2>2. b \in Seq(Nat) /\ Len(b) = 2
    BY <1>3
  <2> QED  BY <2>1, <2>2, <1>4, GluedByte, Zenon
<1>7. a \in Seq(Nat) /\ Len(a) = 3 /\ a[1] = 126 /\ a[2] = 0 /\ a[3] = 126
  BY <1>3, <1>6 DEF ByteAndRest
<1>8. ByteAndRest(h, 129, a, 3)
  <2>1. 129 \in Nat /\ 3 \in Nat
    OBVIOUS
  <2>2. a \in Seq(Nat) /\ Len(a) = 3
    BY <1>7
  <2> QED  BY <2>1, <2>2, <1>5, GluedByte, Zenon
<1>9. h \in Seq(Nat) /\ Len(h) = 4 /\ h[1] = 129 /\ h[2] = 126 /\ h[3] = 0 /\ h[4] = 126
  BY <1>7, <1>8 DEF ByteAndRest
<1>10. PeerHeader(m) = WithMask(h)
  BY <1>1, Zenon DEF PeerHeader, WithMask, Keyed
<1>11. MaskedBytes(PeerHeader(m), h, 4)
  <2>1. 4 \in Nat /\ 4 >= 2
    OBVIOUS
  <2>2. h \in Seq(Nat) /\ Len(h) = 4
    BY <1>9
  <2> QED  BY <2>1, <2>2, <1>10, Masked, Zenon
<1> QED  BY <1>9, <1>11 DEF MaskedBytes

\* The header of a Ping of 65536 bytes: the length is in eight bytes more.
IsLong(m) == m = [op |-> Op.ping, len |-> 65536, sub |-> FALSE]
\* Its bytes.
LEMMA LongHeader ==
  ASSUME NEW m, IsLong(m)
  PROVE  /\ PeerHeader(m)[1] = 137 /\ PeerHeader(m)[2] = 255
         /\ PeerHeader(m) \in Seq(Nat) /\ Len(PeerHeader(m)) = 14
         /\ \A i \in 3..7 : PeerHeader(m)[i] = 0
         /\ PeerHeader(m)[8] = 1 /\ PeerHeader(m)[9] = 0 /\ PeerHeader(m)[10] = 0
<1>1. PICK h : h = EncodeHeader(m.len, m.op)
  BY Zenon
<1>2. PICK b : b = BytesOf(m.len, 8)
  BY Zenon
<1>3. /\ b \in Seq(Nat) /\ Len(b) = 8 /\ \A i \in 1..5 : b[i] = 0
      /\ b[6] = 1 /\ b[7] = 0 /\ b[8] = 0
  <2>1. b = [i \in 1..8 |-> IF 8 - i > 2 THEN 0 ELSE (65536 \div Weight[8 - i + 1]) % 256]
    BY <1>2 DEF BytesOf, IsLong
  <2>2. b[6] = 1 /\ b[7] = 0 /\ b[8] = 0
    BY <2>1 DEF Weight
  <2>3. \A i \in 1..5 : b[i] = 0
    BY <2>1
  <2>4. \A i \in 1..8 : i \in 1..5 \/ i = 6 \/ i = 7 \/ i = 8
    OBVIOUS
  <2>5. \A i \in 1..8 : b[i] \in Nat
    BY <2>2, <2>3, <2>4
  <2> QED  BY <2>1, <2>2, <2>3, <2>5
<1>4. PICK a : a = Byte(127, b)
  BY Zenon
<1>5. h = Byte(137, a)
  <2>1. h = <<137>> \o (<<127>> \o b)
    BY <1>1, <1>2 DEF EncodeHeader, Op, IsLong
  <2> QED  BY <2>1, <1>4, Zenon DEF Byte
<1>6. ByteAndRest(a, 127, b, 8)
  <2>1. 127 \in Nat /\ 8 \in Nat
    OBVIOUS
  <2>2. b \in Seq(Nat) /\ Len(b) = 8
    BY <1>3
  <2> QED  BY <2>1, <2>2, <1>4, GluedByte, Zenon
<1>7. /\ a \in Seq(Nat) /\ Len(a) = 9 /\ a[1] = 127 /\ \A i \in 2..6 : a[i] = 0
      /\ a[7] = 1 /\ a[8] = 0 /\ a[9] = 0
  BY <1>3, <1>6 DEF ByteAndRest
<1>8. ByteAndRest(h, 137, a, 9)
  <2>1. 137 \in Nat /\ 9 \in Nat
    OBVIOUS
  <2>2. a \in Seq(Nat) /\ Len(a) = 9
    BY <1>7
  <2> QED  BY <2>1, <2>2, <1>5, GluedByte, Zenon
<1>9. /\ h \in Seq(Nat) /\ Len(h) = 10 /\ h[1] = 137 /\ h[2] = 127 /\ \A i \in 3..7 : h[i] = 0
      /\ h[8] = 1 /\ h[9] = 0 /\ h[10] = 0
  BY <1>7, <1>8 DEF ByteAndRest
<1>10. PeerHeader(m) = WithMask(h)
  BY <1>1, Zenon DEF PeerHeader, WithMask, Keyed
<1>11. MaskedBytes(PeerHeader(m), h, 10)
  <2>1. 10 \in Nat /\ 10 >= 2
    OBVIOUS
  <2>2. h \in Seq(Nat) /\ Len(h) = 10
    BY <1>9
  <2> QED  BY <2>1, <2>2, <1>10, Masked, Zenon
<1> QED  BY <1>9, <1>11 DEF MaskedBytes

\* What DecodeFrame answers when len bytes of the stream that begins with m are there.
Answer(m, len) ==
  IF len < SizeOf(m) THEN None
  ELSE [op |-> m.op, payload |-> m.len, consumed |-> SizeOf(m)]

\* The length is in the second byte.
LEMMA DecodesClose ==
  ASSUME NEW m, m = [op |-> Op.close, len |-> 2, sub |-> FALSE], NEW len \in Nat
  PROVE  DecodeFrame(PeerHeader(m), len) = Answer(m, len)
<1>1. PICK x : x = PeerHeader(m)
  BY Zenon
<1>2. x[1] = 136 /\ x[2] = 130
  BY <1>1, CloseHeader
<1>3. x[2] % 128 = 2 /\ x[1] % 16 = 8 /\ x[2] >= 128
  BY <1>2
<1>4. SizeOf(m) = 8 /\ m.op = 8 /\ m.len = 2
  BY DEF SizeOf, Op
<1>5. DecodeFrame(x, len) = IF len < 8 THEN None ELSE [op |-> 8, payload |-> 2, consumed |-> 8]
  BY <1>3 DEF DecodeFrame
<1> QED  BY <1>1, <1>4, <1>5 DEF Answer

\* The length is in two bytes.
LEMMA DecodesText ==
  ASSUME NEW m, m = [op |-> Op.text, len |-> 126, sub |-> TRUE], NEW len \in Nat
  PROVE  DecodeFrame(PeerHeader(m), len) = Answer(m, len)
<1>1. PICK x : x = PeerHeader(m)
  BY Zenon
<1>2. x[1] = 129 /\ x[2] = 254 /\ x \in Seq(Nat) /\ Len(x) = 8 /\ x[3] = 0 /\ x[4] = 126
  BY <1>1, TextHeader
<1>3. x[2] % 128 = 126 /\ x[1] % 16 = 1 /\ x[2] >= 128
  BY <1>2
<1>4. SizeOf(m) = 134 /\ m.op = 1 /\ m.len = 126
  BY DEF SizeOf, Op
<1>5. PICK d : d = SubSeq(x, 3, 4)
  BY Zenon
<1>6. d \in Seq(Nat) /\ Len(d) = 2 /\ d[1] = 0 /\ d[2] = 126
  BY <1>2, <1>5
<1>7. NumberOf(SubSeq(x, 3, 2 + 2)) = 126
  <2>1. NumberOf(d) = d[1] * 256 + d[2]
    BY <1>6, NumberOfTwo
  <2>2. d = SubSeq(x, 3, 2 + 2)
    BY <1>5
  <2> QED  BY <1>6, <2>1, <2>2
<1>8. DecodeFrame(x, len) = IF len < 134 THEN None ELSE [op |-> 1, payload |-> 126, consumed |-> 134]
  BY <1>3, <1>7 DEF DecodeFrame
<1> QED  BY <1>1, <1>4, <1>8 DEF Answer

\* The length is in eight bytes.
LEMMA DecodesLong ==
  ASSUME NEW m, IsLong(m), NEW len \in Nat
  PROVE  DecodeFrame(PeerHeader(m), len) = Answer(m, len)
<1>1. PICK x : x = PeerHeader(m)
  BY Zenon
<1>2. /\ x[1] = 137 /\ x[2] = 255 /\ x \in Seq(Nat) /\ Len(x) = 14
      /\ \A i \in 3..7 : x[i] = 0
      /\ x[8] = 1 /\ x[9] = 0 /\ x[10] = 0
  BY <1>1, LongHeader
<1>3. x[2] % 128 = 127 /\ x[1] % 16 = 9 /\ x[2] >= 128
  BY <1>2
<1>4. SizeOf(m) = 65550 /\ m.op = 9 /\ m.len = 65536
  BY DEF SizeOf, Op, IsLong
<1>5. PICK d : d = SubSeq(x, 3, 10)
  OBVIOUS
<1>6. d \in Seq(Nat) /\ Len(d) = 8 /\ \A i \in 1..8 : d[i] = x[i + 2]
  BY <1>2, <1>5
<1>7. /\ \A i \in 1..5 : d[i] = 0
      /\ d[6] = 1 /\ d[7] = 0 /\ d[8] = 0
  BY <1>2, <1>6
<1>8. NumberOf(SubSeq(x, 3, 2 + 8)) = 65536
  <2>1. NumberOf(d) = d[6] * 65536 + d[7] * 256 + d[8]
    BY <1>6, <1>7, NumberOfEight
  <2>2. d = SubSeq(x, 3, 2 + 8)
    BY <1>5
  <2> QED  BY <1>7, <2>1, <2>2
<1>9. DecodeFrame(x, len) = IF len < 65550 THEN None ELSE [op |-> 9, payload |-> 65536, consumed |-> 65550]
  BY <1>3, <1>8 DEF DecodeFrame
<1> QED  BY <1>1, <1>4, <1>9 DEF Answer

\* DecodeFrame inverts what the peers encode, at every length that has been read.
LEMMA Decodes ==
  \A m \in Frame, len \in Nat : DecodeFrame(PeerHeader(m), len) = Answer(m, len)
<1> SUFFICES ASSUME NEW m \in Frame, NEW len \in Nat
             PROVE  DecodeFrame(PeerHeader(m), len) = Answer(m, len)
  OBVIOUS
<1>1. CASE m = [op |-> Op.close, len |-> 2, sub |-> FALSE]
  BY <1>1, DecodesClose
<1>2. CASE m = [op |-> Op.text, len |-> 126, sub |-> TRUE]
  BY <1>2, DecodesText
<1>3. CASE m = [op |-> Op.ping, len |-> 65536, sub |-> FALSE]
  BY <1>3, DecodesLong DEF IsLong
<1> QED  BY <1>1, <1>2, <1>3 DEF Frame

-----------------------------------------------------------------------------
(* The steps that change no table *)

\* A peer asks for a key.
LEMMA AskStep ==
  ASSUME WsInv, NEW c \in Clients, Ask(c)
  PROVE  WsInv'
<1>1. Types'
  BY DEF WsInv, Types, Ask, aVars, bVars, mgr
<1>2. Kept'
  BY DEF WsInv, Kept, Ask, aVars, bVars, mgr, peers
<1>3. Accepting'
  <2>1. PICK k \in Keys : want' = [want EXCEPT ![c] = k]
    BY DEF Ask
  <2>2. /\ want'[c] \in Keys /\ peer[c] = "waiting" /\ peer'[c] = "asked"
        /\ \A d \in Clients : d # c => want'[d] = want[d] /\ peer'[d] = peer[d]
    BY <2>1 DEF WsInv, Types, Ask
  <2>3. apc = "add" => afd # None /\ afd \in Fd
    BY DEF WsInv, Types, Accepting
  <2>4. apc = "add" /\ fds[afd] # 0 => fds[afd] \in Clients /\ fds[afd] # c
    BY <2>2, <2>3 DEF WsInv, Types, Accepting
  <2>5. apc' = apc /\ afd' = afd /\ fds' = fds /\ conns' = conns /\ twice' = twice /\ main' = main /\ bpc' = bpc
    BY DEF Ask, aVars, bVars, mgr
  <2>6. \A d \in Clients : peer'[d] = "asked" => want'[d] \in Keys
    BY <2>2 DEF WsInv, Accepting
  <2>7. apc = "add" /\ fds[afd] # 0 => want'[fds[afd]] \in Keys /\ peer'[fds[afd]] \in {"open", "gone"}
    BY <2>2, <2>4 DEF WsInv, Accepting
  <2> QED  BY <2>5, <2>6, <2>7 DEF WsInv, Accepting
<1>4. Owned'
  BY DEF WsInv, Owned, Ask, aVars, bVars, mgr, peers
<1>5. Streams'
  BY DEF WsInv, Streams, Ask, aVars, bVars, mgr, peers
<1>6. Incoming'
  BY DEF WsInv, Incoming, Distinct, Listed, Ask, aVars, bVars, mgr, peers
<1>7. Serving'
  BY DEF WsInv, Serving, Ask, aVars, bVars, mgr, peers
<1>8. IndexesAgree'
  BY DEF WsInv, IndexesAgree, Ask, aVars, bVars, mgr
<1>9. NoLeak'
  BY DEF WsInv, NoLeak, Ask, aVars, bVars, mgr, peers
<1> QED  BY <1>1, <1>2, <1>3, <1>4, <1>5, <1>6, <1>7, <1>8, <1>9 DEF WsInv

\* A peer leaves.
LEMMA LeaveStep ==
  ASSUME WsInv, NEW c \in Clients, Leave(c)
  PROVE  WsInv'
<1>1. Types'
  BY DEF WsInv, Types, Leave, aVars, bVars, mgr, peers
<1>2. Kept'
  BY DEF WsInv, Kept, Leave, aVars, bVars, mgr, peers
<1>3. Accepting'
  BY DEF WsInv, Accepting, Leave, aVars, bVars, mgr, peers
<1>4. Owned'
  BY DEF WsInv, Owned, Leave, aVars, bVars, mgr, peers
<1>5. Streams'
  BY DEF WsInv, Streams, Leave, aVars, bVars, mgr, peers
<1>6. Incoming'
  BY DEF WsInv, Incoming, Distinct, Listed, Leave, aVars, bVars, mgr, peers
<1>7. Serving'
  BY DEF WsInv, Serving, Leave, aVars, bVars, mgr, peers
<1>8. IndexesAgree'
  BY DEF WsInv, IndexesAgree, Leave, aVars, bVars, mgr, peers
<1>9. NoLeak'
  BY DEF WsInv, NoLeak, Leave, aVars, bVars, mgr, peers
<1> QED  BY <1>1, <1>2, <1>3, <1>4, <1>5, <1>6, <1>7, <1>8, <1>9 DEF WsInv

\* A peer reads.
LEMMA DrainStep ==
  ASSUME WsInv, NEW c \in Clients, Drain(c)
  PROVE  WsInv'
<1>1. Types'
  BY DEF WsInv, Types, Drain, aVars, bVars, mgr, peers
<1>2. Kept'
  BY DEF WsInv, Kept, Drain, aVars, bVars, mgr, peers
<1>3. Accepting'
  BY DEF WsInv, Accepting, Drain, aVars, bVars, mgr, peers
<1>4. Owned'
  BY DEF WsInv, Owned, Drain, aVars, bVars, mgr, peers
<1>5. Streams'
  BY DEF WsInv, Streams, Drain, aVars, bVars, mgr, peers
<1>6. Incoming'
  BY DEF WsInv, Incoming, Distinct, Listed, Drain, aVars, bVars, mgr, peers
<1>7. Serving'
  BY DEF WsInv, Serving, Drain, aVars, bVars, mgr, peers
<1>8. IndexesAgree'
  BY DEF WsInv, IndexesAgree, Drain, aVars, bVars, mgr, peers
<1>9. NoLeak'
  BY DEF WsInv, NoLeak, Drain, aVars, bVars, mgr, peers
<1> QED  BY <1>1, <1>2, <1>3, <1>4, <1>5, <1>6, <1>7, <1>8, <1>9 DEF WsInv

\* The accept thread answers.
LEMMA HandshakeStep ==
  ASSUME WsInv, Handshake
  PROVE  WsInv'
<1>1. Types'
  BY DEF WsInv, Types, Handshake, aVars, bVars, mgr, peers
<1>2. Kept'
  BY DEF WsInv, Kept, Handshake, aVars, bVars, mgr, peers
<1>3. Accepting'
  <2>1. afd # None /\ fds[afd] \in Clients
    BY DEF WsInv, Types, Accepting, Handshake
  <2>2. PICK c \in Clients : c = fds[afd]
    BY <2>1
  <2>3. want[c] \in Keys /\ conns[afd] = None
    BY <2>1, <2>2 DEF WsInv, Accepting, Handshake
  <2>4. peer'[c] = "open" /\ \A d \in Clients : d # c => peer'[d] = peer[d]
    BY <2>2 DEF WsInv, Types, Handshake
  <2> QED  BY <2>1, <2>2, <2>3, <2>4 DEF WsInv, Accepting, Handshake, mgr
<1>4. Owned'
  BY DEF WsInv, Owned, Handshake, aVars, bVars, mgr, peers
<1>5. Streams'
  BY DEF WsInv, Streams, Handshake, aVars, bVars, mgr, peers
<1>6. Incoming'
  BY DEF WsInv, Incoming, Distinct, Listed, Handshake, aVars, bVars, mgr, peers
<1>7. Serving'
  BY DEF WsInv, Serving, Handshake, aVars, bVars, mgr, peers
<1>8. IndexesAgree'
  BY DEF WsInv, IndexesAgree, Handshake, aVars, bVars, mgr, peers
<1>9. NoLeak'
  BY DEF WsInv, NoLeak, Handshake, aVars, bVars, mgr, peers
<1> QED  BY <1>1, <1>2, <1>3, <1>4, <1>5, <1>6, <1>7, <1>8, <1>9 DEF WsInv

\* The accept loop ends.
LEMMA AcceptExitStep ==
  ASSUME WsInv, AcceptExit
  PROVE  WsInv'
<1>1. Types'
  BY DEF WsInv, Types, AcceptExit, aVars, bVars, mgr, peers
<1>2. Kept'
  BY DEF WsInv, Kept, AcceptExit, aVars, bVars, mgr, peers
<1>3. Accepting'
  BY DEF WsInv, Accepting, AcceptExit, aVars, bVars, mgr, peers
<1>4. Owned'
  BY DEF WsInv, Owned, AcceptExit, aVars, bVars, mgr, peers
<1>5. Streams'
  BY DEF WsInv, Streams, AcceptExit, aVars, bVars, mgr, peers
<1>6. Incoming'
  BY DEF WsInv, Incoming, Distinct, Listed, AcceptExit, aVars, bVars, mgr, peers
<1>7. Serving'
  BY DEF WsInv, Serving, AcceptExit, aVars, bVars, mgr, peers
<1>8. IndexesAgree'
  BY DEF WsInv, IndexesAgree, AcceptExit, aVars, bVars, mgr, peers
<1>9. NoLeak'
  BY DEF WsInv, NoLeak, AcceptExit, aVars, bVars, mgr, peers
<1> QED  BY <1>1, <1>2, <1>3, <1>4, <1>5, <1>6, <1>7, <1>8, <1>9 DEF WsInv

\* A turn of the broadcast loop begins.
LEMMA PollStep ==
  ASSUME WsInv, Poll
  PROVE  WsInv'
<1>1. Types'
  BY DEF WsInv, Types, Poll, aVars, bVars, mgr, peers
<1>2. Kept'
  BY DEF WsInv, Kept, Poll, aVars, bVars, mgr, peers
<1>3. Accepting'
  BY DEF WsInv, Accepting, Poll, aVars, bVars, mgr, peers
<1>4. Owned'
  BY DEF WsInv, Owned, Poll, aVars, bVars, mgr, peers
<1>5. Streams'
  BY DEF WsInv, Streams, Poll, aVars, bVars, mgr, peers
<1>6. Incoming'
  <2>1. None \notin Fd
    BY WebSocketAssumption DEF Fd
  <2>2. cur = None /\ toRemove = <<>> /\ \A f \in todo' : f \in Fd /\ conns[f] # None
    BY DEF WsInv, Incoming, Poll, Readable
  <2>4. Len(toRemove') = 0
    BY <2>2 DEF Poll
  <2>3. Listed' = {}
    BY <2>2 DEF Listed, Poll
  <2> QED  BY <2>1, <2>2, <2>3, <2>4 DEF WsInv, Incoming, Distinct, Poll, mgr
<1>7. Serving'
  BY DEF WsInv, Serving, Poll, aVars, bVars, mgr, peers
<1>8. IndexesAgree'
  BY DEF WsInv, IndexesAgree, Poll, aVars, bVars, mgr, peers
<1>9. NoLeak'
  BY DEF WsInv, NoLeak, Poll, aVars, bVars, mgr, peers
<1> QED  BY <1>1, <1>2, <1>3, <1>4, <1>5, <1>6, <1>7, <1>8, <1>9 DEF WsInv

\* The rest of what was read is no complete frame.
LEMMA DecodeEndsStep ==
  ASSUME WsInv, DecodeEnds
  PROVE  WsInv'
<1>1. Types'
  BY DEF WsInv, Types, DecodeEnds, aVars, bVars, mgr, peers
<1>2. Kept'
  BY DEF WsInv, Kept, DecodeEnds, aVars, bVars, mgr, peers
<1>3. Accepting'
  BY DEF WsInv, Accepting, DecodeEnds, aVars, bVars, mgr, peers
<1>4. Owned'
  BY DEF WsInv, Owned, DecodeEnds, aVars, bVars, mgr, peers
<1>5. Streams'
  BY DEF WsInv, Streams, DecodeEnds, aVars, bVars, mgr, peers
<1>6. Incoming'
  <2>1. None \notin Fd
    BY WebSocketAssumption DEF Fd
  <2> QED  BY <2>1 DEF WsInv, Incoming, Distinct, Listed, DecodeEnds, mgr
<1>7. Serving'
  BY DEF WsInv, Serving, DecodeEnds, aVars, bVars, mgr, peers
<1>8. IndexesAgree'
  BY DEF WsInv, IndexesAgree, DecodeEnds, aVars, bVars, mgr, peers
<1>9. NoLeak'
  BY DEF WsInv, NoLeak, DecodeEnds, aVars, bVars, mgr, peers
<1> QED  BY <1>1, <1>2, <1>3, <1>4, <1>5, <1>6, <1>7, <1>8, <1>9 DEF WsInv

\* The subscriptions are copied.
LEMMA SnapshotSubscriptionsStep ==
  ASSUME WsInv, SnapshotSubscriptions
  PROVE  WsInv'
<1>1. Types'
  BY DEF WsInv, Types, SnapshotSubscriptions, aVars, bVars, mgr, peers
<1>2. Kept'
  BY DEF WsInv, Kept, SnapshotSubscriptions, aVars, bVars, mgr, peers
<1>3. Accepting'
  BY DEF WsInv, Accepting, SnapshotSubscriptions, aVars, bVars, mgr, peers
<1>4. Owned'
  BY DEF WsInv, Owned, SnapshotSubscriptions, aVars, bVars, mgr, peers
<1>5. Streams'
  BY DEF WsInv, Streams, SnapshotSubscriptions, aVars, bVars, mgr, peers
<1>6. Incoming'
  BY DEF WsInv, Incoming, Distinct, Listed, SnapshotSubscriptions, aVars, bVars, mgr, peers
<1>7. Serving'
  BY DEF WsInv, Serving, SnapshotSubscriptions, aVars, bVars, mgr, peers
<1>8. IndexesAgree'
  BY DEF WsInv, IndexesAgree, SnapshotSubscriptions, aVars, bVars, mgr, peers
<1>9. NoLeak'
  BY DEF WsInv, NoLeak, SnapshotSubscriptions, aVars, bVars, mgr, peers
<1> QED  BY <1>1, <1>2, <1>3, <1>4, <1>5, <1>6, <1>7, <1>8, <1>9 DEF WsInv

\* The broadcast loop ends.
LEMMA BroadcastExitStep ==
  ASSUME WsInv, BroadcastExit
  PROVE  WsInv'
<1>1. Types'
  BY DEF WsInv, Types, BroadcastExit, aVars, bVars, mgr, peers
<1>2. Kept'
  BY DEF WsInv, Kept, BroadcastExit, aVars, bVars, mgr, peers
<1>3. Accepting'
  BY DEF WsInv, Accepting, BroadcastExit, aVars, bVars, mgr, peers
<1>4. Owned'
  BY DEF WsInv, Owned, BroadcastExit, aVars, bVars, mgr, peers
<1>5. Streams'
  BY DEF WsInv, Streams, BroadcastExit, aVars, bVars, mgr, peers
<1>6. Incoming'
  BY DEF WsInv, Incoming, Distinct, Listed, BroadcastExit, aVars, bVars, mgr, peers
<1>7. Serving'
  BY DEF WsInv, Serving, BroadcastExit, aVars, bVars, mgr, peers
<1>8. IndexesAgree'
  BY DEF WsInv, IndexesAgree, BroadcastExit, aVars, bVars, mgr, peers
<1>9. NoLeak'
  BY DEF WsInv, NoLeak, BroadcastExit, aVars, bVars, mgr, peers
<1> QED  BY <1>1, <1>2, <1>3, <1>4, <1>5, <1>6, <1>7, <1>8, <1>9 DEF WsInv

\* Stop is called.
LEMMA StopBeginStep ==
  ASSUME WsInv, StopBegin
  PROVE  WsInv'
<1>1. Types'
  BY DEF WsInv, Types, StopBegin, aVars, bVars, mgr, peers
<1>2. Kept'
  BY DEF WsInv, Kept, StopBegin, aVars, bVars, mgr, peers
<1>3. Accepting'
  BY DEF WsInv, Accepting, StopBegin, aVars, bVars, mgr, peers
<1>4. Owned'
  BY DEF WsInv, Owned, StopBegin, aVars, bVars, mgr, peers
<1>5. Streams'
  BY DEF WsInv, Streams, StopBegin, aVars, bVars, mgr, peers
<1>6. Incoming'
  BY DEF WsInv, Incoming, Distinct, Listed, StopBegin, aVars, bVars, mgr, peers
<1>7. Serving'
  BY DEF WsInv, Serving, StopBegin, aVars, bVars, mgr, peers
<1>8. IndexesAgree'
  BY DEF WsInv, IndexesAgree, StopBegin, aVars, bVars, mgr, peers
<1>9. NoLeak'
  BY DEF WsInv, NoLeak, StopBegin, aVars, bVars, mgr, peers
<1> QED  BY <1>1, <1>2, <1>3, <1>4, <1>5, <1>6, <1>7, <1>8, <1>9 DEF WsInv

\* Nothing happens.
LEMMA StutterStep ==
  ASSUME WsInv, UNCHANGED vars
  PROVE  WsInv'
BY DEF WsInv, Types, Kept, Accepting, Owned, Streams, Incoming, Distinct, Listed, Serving, IndexesAgree, NoLeak, vars

-----------------------------------------------------------------------------
(* Peers and the sink *)

\* A peer sends a frame.
LEMMA SendStep ==
  ASSUME WsInv, NEW c \in Clients, NEW m \in Frame, Send(c, m)
  PROVE  WsInv'
<1> DEFINE s == sent[c]
<1>0. /\ s \in Seq(Frame) /\ sent'[c] = Append(s, m) /\ sent' \in [Clients -> Seq(Frame)]
      /\ \A d \in Clients : d # c => sent'[d] = sent[d]
  BY DEF WsInv, Types, Send
<1> HIDE DEF s
<1>1. Types'
  BY <1>0 DEF WsInv, Types, Send, aVars, bVars, mgr
<1>2. Kept'
  BY DEF WsInv, Kept, Send, aVars, bVars, mgr, peers
<1>3. Accepting'
  BY DEF WsInv, Accepting, Send, aVars, bVars, mgr, peers
<1>4. Owned'
  BY DEF WsInv, Owned, Send, aVars, bVars, mgr, peers
<1>5. Streams'
  <2>1. ASSUME NEW f \in Fd, conns'[f] # None
        PROVE  conns'[f].bytes <= StreamSize(sent'[conns'[f].who])
    <3>1. PICK w \in Clients : w = conns[f].who
      BY <2>1 DEF WsInv, Types, Send, mgr, ConnInfo
    <3>2. PICK n \in Nat : n = conns[f].bytes
      BY <2>1 DEF WsInv, Types, Send, mgr, ConnInfo
    <3>3. n <= StreamSize(sent[w])
      BY <2>1, <3>1, <3>2 DEF WsInv, Streams, Send, mgr
    <3>4. CASE w = c
      <4>1. StreamSize(sent'[c]) = StreamSize(s) + SizeOf(m)
        BY <1>0, StreamGrows
      <4>2. StreamSize(s) \in Nat /\ SizeOf(m) \in Nat
        BY <1>0, StreamTypes, FrameSizes
      <4> QED  BY <3>1, <3>2, <3>3, <3>4, <4>1, <4>2 DEF Send, mgr, s
    <3>5. CASE w # c
      BY <3>1, <3>2, <3>3, <3>5, <1>0 DEF Send, mgr
    <3> QED  BY <3>4, <3>5
  <2> QED  BY <2>1 DEF Streams
<1>6. Incoming'
  BY DEF WsInv, Incoming, Distinct, Listed, Send, aVars, bVars, mgr, peers
<1>7. Serving'
  BY DEF WsInv, Serving, Send, aVars, bVars, mgr, peers
<1>8. IndexesAgree'
  BY DEF WsInv, IndexesAgree, Send, aVars, bVars, mgr, peers
<1>9. NoLeak'
  BY DEF WsInv, NoLeak, Send, aVars, bVars, mgr, peers
<1> QED  BY <1>1, <1>2, <1>3, <1>4, <1>5, <1>6, <1>7, <1>8, <1>9 DEF WsInv

\* The batches of the sink are numbered from 1, at most MaxPush of them.
LEMMA Numbered ==
  ASSUME Types
  PROVE  NumPushed \in 0..MaxPush
<1>0. MaxPush \in Nat
  BY WebSocketAssumption
<1> DEFINE S == {0} \cup UNION {Range(buffers[k]) : k \in Keys}
<1>1. S \subseteq 0..MaxPush
  <2>1. ASSUME NEW k \in Keys, NEW x \in Range(buffers[k]) PROVE x \in 0..MaxPush
    <3>1. buffers[k] \in Seq(1..MaxPush)
      BY DEF Types
    <3>2. PICK q \in Seq(1..MaxPush) : q = buffers[k]
      BY <3>1
    <3>3. PICK i \in 1..Len(q) : x = q[i]
      BY <3>2 DEF Range
    <3> QED  BY <3>3, <1>0
  <2> QED  BY <2>1, <1>0
<1> HIDE DEF S
<1> DEFINE T == {MaxPush - x : x \in S}
<1>2. 0 \in S
  BY DEF S
<1>3. T \in SUBSET Nat /\ T # {}
  BY <1>0, <1>1, <1>2
<1>4. PICK y \in T : \A z \in T : y <= z
  BY <1>3, LeastNumber
<1>5. PICK x \in S : y = MaxPush - x
  BY <1>4
<1>6. \A z \in S : x >= z
  <2> SUFFICES ASSUME NEW z \in S PROVE x >= z
    OBVIOUS
  <2>1. MaxPush - z \in T /\ x \in 0..MaxPush /\ z \in 0..MaxPush
    BY <1>1
  <2> QED  BY <2>1, <1>0, <1>4, <1>5
<1>7. (CHOOSE v \in S : \A z \in S : v >= z) \in S
  BY <1>6, Zenon
<1>8. NumPushed = CHOOSE v \in S : \A z \in S : v >= z
  BY Zenon DEF NumPushed, Max, S
<1> QED  BY <1>1, <1>7, <1>8

\* A batch is pushed, the oldest one goes.
LEMMA PushBatchStep ==
  ASSUME WsInv, NEW k \in Keys, PushBatch(k)
  PROVE  WsInv'
<1>0. PICK n \in 1..MaxPush : n = NumPushed + 1
  <2>1. NumPushed \in 0..MaxPush
    BY Numbered DEF WsInv
  <2> QED  BY <2>1, WebSocketAssumption DEF PushBatch
<1>a. PICK b \in Seq(1..MaxPush) : b = buffers[k]
  BY DEF WsInv, Types
<1>b. PICK t : t = IF Len(Append(b, n)) > MaxKeep THEN Tail(Append(b, n)) ELSE Append(b, n)
  OBVIOUS
<1>c. buffers' = [buffers EXCEPT ![k] = t]
  BY <1>0, <1>a, <1>b DEF PushBatch
<1>d. t \in Seq(1..MaxPush) /\ Len(t) <= MaxKeep
  <2>1. Len(b) <= MaxKeep /\ MaxKeep \in Nat
    BY <1>a, WebSocketAssumption DEF WsInv, Kept
  <2>2. PICK r \in Seq(1..MaxPush) : r = Append(b, n) /\ Len(r) = Len(b) + 1
    <3>1. Append(b, n) \in Seq(1..MaxPush) /\ Len(Append(b, n)) = Len(b) + 1
      OBVIOUS
    <3> QED  BY <3>1, Zenon
  <2>3. Tail(r) \in Seq(1..MaxPush) /\ Len(Tail(r)) = Len(b)
    BY <2>2
  <2>4. t = IF Len(r) > MaxKeep THEN Tail(r) ELSE r
    BY <1>b, <2>2, Zenon
  <2>5. CASE Len(r) > MaxKeep
    BY <2>1, <2>3, <2>4, <2>5
  <2>6. CASE ~(Len(r) > MaxKeep)
    <3>1. t = r
      BY <2>4, <2>6, Zenon
    <3>2. Len(r) \in Nat
      OBVIOUS
    <3> QED  BY <2>1, <2>6, <3>1, <3>2
  <2> QED  BY <2>5, <2>6, Zenon
<1>1. Types'
  <2>1. buffers' \in [Keys -> Seq(1..MaxPush)]
    BY <1>c, <1>d DEF WsInv, Types
  <2>2. UNCHANGED <<running, listening, twice, apc, afd, bpc, cur, toRemove, out, main, fds, conns, subs,
                    peer, want, sent, full>>
    BY DEF PushBatch, aVars, bVars, mgr, peers
  <2> QED  BY <2>1, <2>2 DEF WsInv, Types
<1>2. Kept'
  BY <1>c, <1>d DEF WsInv, Types, Kept
<1>3. Accepting'
  BY DEF WsInv, Accepting, PushBatch, aVars, bVars, mgr, peers
<1>4. Owned'
  BY DEF WsInv, Owned, PushBatch, aVars, bVars, mgr, peers
<1>5. Streams'
  BY DEF WsInv, Streams, PushBatch, aVars, bVars, mgr, peers
<1>6. Incoming'
  BY DEF WsInv, Incoming, Distinct, Listed, PushBatch, aVars, bVars, mgr, peers
<1>7. Serving'
  BY DEF WsInv, Serving, PushBatch, aVars, bVars, mgr, peers
<1>8. IndexesAgree'
  BY DEF WsInv, IndexesAgree, PushBatch, aVars, bVars, mgr, peers
<1>9. NoLeak'
  BY DEF WsInv, NoLeak, PushBatch, aVars, bVars, mgr, peers
<1> QED  BY <1>1, <1>2, <1>3, <1>4, <1>5, <1>6, <1>7, <1>8, <1>9 DEF WsInv

-----------------------------------------------------------------------------
(* The accept thread *)

\* The kernel gives out a number that is free.
LEMMA LowestIsFree ==
  ASSUME FreeFds # {}
  PROVE  LowestFree \in Fd /\ fds[LowestFree] = 0
<1>1. FreeFds \in SUBSET Nat
  BY WebSocketAssumption DEF FreeFds, Fd
<1>2. \E f \in FreeFds : \A g \in FreeFds : f <= g
  BY <1>1, LeastNumber
<1>3. LowestFree \in FreeFds
  BY <1>2, Zenon DEF LowestFree
<1> QED  BY <1>3 DEF FreeFds

\* A peer is accepted.
LEMMA AcceptStep ==
  ASSUME WsInv, NEW c \in Clients, Accept(c)
  PROVE  WsInv'
<1>a. PICK l \in Fd : l = LowestFree /\ fds[l] = 0
  BY LowestIsFree DEF Accept
<1>b. fds \in [Fd -> Clients \cup {0}] /\ peer[c] = "out" /\ fds' = [fds EXCEPT ![l] = c] /\ afd' = l
  BY <1>a DEF WsInv, Types, Accept
<1>c. /\ fds'[l] = c /\ \A f \in Fd : f # l => fds'[f] = fds[f]
      /\ peer'[c] = "waiting" /\ \A d \in Clients : d # c => peer'[d] = peer[d]
  BY <1>b DEF WsInv, Types, Accept
<1>d. c # 0 /\ None \notin Fd /\ 0 \notin Clients
  BY WebSocketAssumption DEF Clients, Fd
<1>e. conns[l] = None
  <2> SUFFICES ASSUME conns[l] # None PROVE FALSE
    OBVIOUS
  <2>1. fds[l] = conns[l].who /\ conns[l].who \in Clients
    BY DEF WsInv, Types, Owned, ConnInfo
  <2> QED  BY <2>1, <1>a, <1>d
<1>f. \A f \in Fd : fds[f] # c
  BY <1>b, <1>d DEF WsInv, Owned
<1>g. apc = "accept" /\ afd = None /\ apc' = "read"
  BY DEF WsInv, Accepting, Accept
<1>1. Types'
  BY <1>a, <1>b, <1>g DEF WsInv, Types, Accept, bVars, mgr
<1>2. Kept'
  BY DEF WsInv, Kept, Accept, aVars, bVars, mgr, peers
<1>3. Accepting'
  <2>1. afd' # None /\ fds'[afd'] # 0 /\ conns'[afd'] = None
    BY <1>b, <1>c, <1>d, <1>e DEF Accept, mgr
  <2>2. \A d \in Clients : peer'[d] = "asked" => want'[d] \in Keys
    BY <1>c DEF WsInv, Accepting, Accept
  <2>3. main' # "stopped"
    BY <1>g DEF WsInv, Accepting, Accept
  <2> QED  BY <2>1, <2>2, <2>3, <1>g DEF Accepting
<1>4. Owned'
  <2>1. ASSUME NEW f \in Fd, conns'[f] # None PROVE fds'[f] = conns'[f].who
    BY <2>1, <1>c, <1>e DEF WsInv, Owned, Accept, mgr
  <2>2. ASSUME NEW f \in Fd, NEW g \in Fd, fds'[f] = fds'[g], fds'[f] # 0 PROVE f = g
    BY <2>2, <1>c, <1>f DEF WsInv, Owned
  <2>3. ASSUME NEW f \in Fd, fds'[f] # 0 PROVE peer'[fds'[f]] # "out"
    <3>1. CASE f = l
      BY <3>1, <1>c
    <3>2. CASE f # l
      <4>1. PICK d \in Clients : d = fds[f]
        BY <2>3, <3>2, <1>b, <1>c
      <4> QED  BY <4>1, <3>2, <2>3, <1>c, <1>f DEF WsInv, Owned
    <3> QED  BY <3>1, <3>2
  <2> QED  BY <2>1, <2>2, <2>3 DEF Owned
<1>5. Streams'
  BY DEF WsInv, Streams, Accept, aVars, bVars, mgr, peers
<1>6. Incoming'
  <2>1. bpc' = "close" => twice' \/ (fds'[cur'] # 0 /\ cur' # afd')
    <3> SUFFICES ASSUME bpc = "close", ~twice PROVE fds'[cur] # 0 /\ cur # l
      BY <1>b DEF Accept, bVars
    <3>1. cur \in Fd /\ fds[cur] # 0
      BY DEF WsInv, Types, Incoming
    <3> QED  BY <3>1, <1>a, <1>c
  <2> QED  BY <2>1 DEF WsInv, Incoming, Distinct, Listed, Accept, bVars, mgr
<1>7. Serving'
  BY DEF WsInv, Serving, Accept, aVars, bVars, mgr, peers
<1>8. IndexesAgree'
  BY DEF WsInv, IndexesAgree, Accept, aVars, bVars, mgr, peers
<1>9. NoLeak'
  <2>1. \A f \in Fd : fds'[f] # 0 => conns'[f] # None \/ f = afd' \/ (bpc' = "close" /\ f = cur')
    BY <1>b, <1>c, <1>d, <1>g DEF WsInv, NoLeak, Accept, mgr, bVars
  <2>2. main' # "stopped"
    BY <1>g DEF WsInv, Accepting, Accept
  <2> QED  BY <2>1, <2>2 DEF NoLeak
<1> QED  BY <1>1, <1>2, <1>3, <1>4, <1>5, <1>6, <1>7, <1>8, <1>9 DEF WsInv

\* Only the sockets behind F are closed, and only their peers see it.
LEMMA Closing ==
  ASSUME WsInv, NEW F \in SUBSET Fd, Close(F)
  PROVE  /\ fds' \in [Fd -> Clients \cup {0}] /\ sent' \in [Clients -> Seq(Frame)]
         /\ peer' \in [Clients -> {"out", "waiting", "asked", "bad", "open", "gone"}]
         /\ \A f \in F : fds'[f] = 0
         /\ \A f \in Fd : f \notin F => fds'[f] = fds[f]
         /\ \A f \in Fd : f \notin F /\ fds[f] # 0 =>
              peer'[fds[f]] = peer[fds[f]] /\ sent'[fds[f]] = sent[fds[f]]
         /\ \A c \in Clients : peer'[c] = peer[c] \/ peer'[c] = "gone"
<1>1. PICK C : C = {fds[f] : f \in F}
  OBVIOUS
<1>2. /\ fds' = [f \in Fd |-> IF f \in F THEN 0 ELSE fds[f]]
      /\ peer' = [c \in Clients |-> IF c \in C THEN "gone" ELSE peer[c]]
      /\ sent' = [c \in Clients |-> IF c \in C THEN <<>> ELSE sent[c]]
  BY <1>1 DEF Close
<1>3. fds' \in [Fd -> Clients \cup {0}]
  BY <1>2 DEF WsInv, Types
<1>4. sent' \in [Clients -> Seq(Frame)]
  <2>1. <<>> \in Seq(Frame)
    OBVIOUS
  <2> QED  BY <1>2, <2>1 DEF WsInv, Types
<1>5. peer' \in [Clients -> {"out", "waiting", "asked", "bad", "open", "gone"}]
  BY <1>2 DEF WsInv, Types
<1>6. \A f \in Fd : f \notin F /\ fds[f] # 0 => fds[f] \in Clients /\ fds[f] \notin C
  BY <1>1 DEF WsInv, Types, Owned
<1> QED  BY <1>2, <1>3, <1>4, <1>5, <1>6

\* What is closed is in no table any more: the others are as they were.
LEMMA ClosingKeeps ==
  ASSUME WsInv, NEW F \in SUBSET Fd, Close(F), \A f \in F : conns'[f] = None,
         \A g \in Fd : conns'[g] # None => conns'[g] = conns[g]
  PROVE  Owned' /\ Streams'
<1>1. /\ \A f \in F : fds'[f] = 0
      /\ \A f \in Fd : f \notin F => fds'[f] = fds[f]
      /\ \A f \in Fd : f \notin F /\ fds[f] # 0 =>
           peer'[fds[f]] = peer[fds[f]] /\ sent'[fds[f]] = sent[fds[f]]
  BY Closing
<1>2. ASSUME NEW g \in Fd, conns'[g] # None
      PROVE  /\ g \notin F /\ conns'[g] = conns[g] /\ fds[g] = conns[g].who /\ fds[g] # 0
  <2>1. conns[g] # None /\ conns[g] \in ConnInfo /\ fds[g] = conns[g].who
    BY <1>2 DEF WsInv, Types, Owned
  <2>2. conns[g].who \in Clients
    BY <2>1 DEF ConnInfo
  <2>3. fds[g] # 0
    BY <2>1, <2>2 DEF Clients
  <2> QED  BY <1>2, <2>1, <2>3
<1>3. Owned'
  <2>1. ASSUME NEW g \in Fd, conns'[g] # None PROVE fds'[g] = conns'[g].who
    BY <2>1, <1>1, <1>2
  <2>2. ASSUME NEW f \in Fd, NEW g \in Fd, fds'[f] = fds'[g], fds'[f] # 0 PROVE f = g
    BY <2>2, <1>1 DEF WsInv, Owned
  <2>3. ASSUME NEW f \in Fd, fds'[f] # 0 PROVE peer'[fds'[f]] # "out"
    BY <2>3, <1>1 DEF WsInv, Owned
  <2> QED  BY <2>1, <2>2, <2>3 DEF Owned
<1>4. Streams'
  <2>1. ASSUME NEW g \in Fd, conns'[g] # None
        PROVE  conns'[g].bytes <= StreamSize(sent'[conns'[g].who])
    <3>1. conns'[g] = conns[g] /\ sent'[conns[g].who] = sent[conns[g].who] /\ conns[g] # None
      BY <2>1, <1>1, <1>2
    <3> QED  BY <3>1 DEF WsInv, Streams
  <2> QED  BY <2>1 DEF Streams
<1> QED  BY <1>3, <1>4

\* A peer that did not ask for an upgrade is closed, or the descriptor was.
LEMMA RefuseStep ==
  ASSUME WsInv, Refuse
  PROVE  WsInv'
<1>a. PICK l \in Fd : l = afd
  BY DEF WsInv, Types, Accepting, Refuse
<1>b. /\ Close({l}) /\ apc = "read" /\ apc' = "accept" /\ afd' = None /\ conns[l] = None
      /\ UNCHANGED <<running, listening, bVars, main, mgr, buffers, want, got, full>>
  BY <1>a DEF WsInv, Accepting, Refuse
<1>c. /\ fds' \in [Fd -> Clients \cup {0}] /\ sent' \in [Clients -> Seq(Frame)]
      /\ peer' \in [Clients -> {"out", "waiting", "asked", "bad", "open", "gone"}]
      /\ fds'[l] = 0 /\ \A f \in Fd : f # l => fds'[f] = fds[f]
      /\ \A c \in Clients : peer'[c] = peer[c] \/ peer'[c] = "gone"
  <2>1. {l} \in SUBSET Fd
    OBVIOUS
  <2> QED  BY <1>b, <2>1, Closing
<1>d. Owned' /\ Streams'
  <2>1. {l} \in SUBSET Fd
    OBVIOUS
  <2>2. \A f \in {l} : conns'[f] = None
    BY <1>b DEF mgr
  <2>3. \A g \in Fd : conns'[g] # None => conns'[g] = conns[g]
    BY <1>b DEF mgr
  <2> QED  BY <1>b, <2>1, <2>2, <2>3, ClosingKeeps
<1>1. Types'
  BY <1>b, <1>c DEF WsInv, Types, bVars, mgr
<1>2. Kept'
  BY <1>b DEF WsInv, Kept
<1>3. Accepting'
  BY <1>b, <1>c DEF WsInv, Accepting, bVars
<1>4. Owned'
  BY <1>d
<1>5. Streams'
  BY <1>d
<1>6. Incoming'
  <2>1. bpc' = "close" => twice' \/ (fds'[cur'] # 0 /\ cur' # afd')
    <3> SUFFICES ASSUME bpc = "close", ~twice PROVE fds'[cur] # 0 /\ cur # None
      BY <1>b DEF bVars
    <3>1. cur \in Fd /\ cur # None /\ fds[cur] # 0 /\ cur # l
      BY <1>a DEF WsInv, Types, Incoming
    <3> QED  BY <3>1, <1>c
  <2> QED  BY <2>1, <1>b DEF WsInv, Incoming, Distinct, Listed, bVars, mgr
<1>7. Serving'
  BY <1>b DEF WsInv, Serving, bVars, mgr
<1>8. IndexesAgree'
  BY <1>b DEF WsInv, IndexesAgree, mgr
<1>9. NoLeak'
  <2>1. \A f \in Fd : fds'[f] # 0 => conns'[f] # None \/ f = afd' \/ (bpc' = "close" /\ f = cur')
    BY <1>a, <1>b, <1>c DEF WsInv, NoLeak, mgr, bVars
  <2>2. main' # "stopped"
    BY <1>b DEF WsInv, Accepting
  <2> QED  BY <2>1, <2>2 DEF NoLeak
<1> QED  BY <1>1, <1>2, <1>3, <1>4, <1>5, <1>6, <1>7, <1>8, <1>9 DEF WsInv

\* A connection enters both tables.
LEMMA AddConnectionStep ==
  ASSUME WsInv, AddConnection
  PROVE  WsInv'
<1>a. PICK l \in Fd : l = afd
  BY DEF WsInv, Types, Accepting, AddConnection
<1>b. PICK c \in Clients : c = fds[l]
  BY <1>a DEF WsInv, Types, AddConnection, Lost
<1>c. PICK k \in Keys : k = want[c]
  BY <1>a, <1>b DEF WsInv, Accepting, AddConnection, Lost
<1>d. PICK r \in ConnInfo : r = [key |-> k, who |-> c, bytes |-> 0]
  <2>1. [key |-> k, who |-> c, bytes |-> 0] \in ConnInfo
    BY DEF ConnInfo
  <2> QED  BY <2>1, Zenon
<1>e. r # None /\ r.key = k /\ r.who = c /\ r.bytes = 0
  BY <1>d, NoneAssumption
<1>f. /\ conns' = [conns EXCEPT ![l] = r] /\ subs' = [subs EXCEPT ![k] = @ \cup {l}]
      /\ want' = [want EXCEPT ![c] = None] /\ afd' = None /\ apc' = "accept"
  BY <1>a, <1>b, <1>c, <1>d DEF AddConnection
<1>g. /\ conns'[l] = r /\ \A f \in Fd : f # l => conns'[f] = conns[f]
      /\ \A f \in Fd, j \in Keys : f \in subs'[j] <=> f \in subs[j] \/ (f = l /\ j = k)
      /\ \A d \in Clients : d # c => want'[d] = want[d]
  BY <1>f DEF WsInv, Types
<1>h. /\ conns[l] = None /\ peer[c] \in {"open", "gone"} /\ apc = "add"
      /\ bpc \notin {"decode", "stuck", "close"}
  BY <1>a, <1>b DEF WsInv, Accepting, AddConnection, MuFree, Lost
<1>1. Types'
  <2>1. conns' \in [Fd -> ConnInfo \cup {None}]
    BY <1>f DEF WsInv, Types
  <2>2. subs' \in [Keys -> SUBSET Fd]
    BY <1>f DEF WsInv, Types
  <2>3. want' \in [Clients -> Keys \cup {None}]
    BY <1>f DEF WsInv, Types
  <2> QED  BY <2>1, <2>2, <2>3, <1>f DEF WsInv, Types, AddConnection, bVars
<1>2. Kept'
  BY DEF WsInv, Kept, AddConnection, aVars, bVars, mgr, peers
<1>3. Accepting'
  <2>1. \A d \in Clients : peer'[d] = "asked" => want'[d] \in Keys
    BY <1>g, <1>h DEF WsInv, Accepting, AddConnection
  <2>2. main' # "stopped"
    BY <1>h DEF WsInv, Accepting, AddConnection
  <2> QED  BY <2>1, <2>2, <1>f DEF Accepting
<1>4. Owned'
  BY <1>b, <1>e, <1>g DEF WsInv, Owned, AddConnection
<1>5. Streams'
  <2>1. StreamSize(sent[c]) \in Nat
    BY StreamTypes DEF WsInv, Types
  <2>2. ASSUME NEW f \in Fd, conns'[f] # None PROVE conns'[f].bytes <= StreamSize(sent[conns'[f].who])
    BY <2>1, <2>2, <1>e, <1>g DEF WsInv, Streams
  <2> QED  BY <2>2 DEF WsInv, Streams, AddConnection
<1>6. Incoming'
  <2>1. cur = None /\ cur' = None
    BY <1>h DEF WsInv, Incoming, AddConnection, bVars
  <2>2. \A i \in 1..Len(toRemove) : toRemove[i] \in Fd
    BY DEF WsInv, Types
  <2>3. \A f \in Fd : conns[f] # None => conns'[f] # None
    BY <1>g, <1>h
  <2>4. ~twice' => Distinct'
    BY <2>2, <2>3 DEF WsInv, Incoming, Distinct, AddConnection, bVars
  <2>5. bpc' \in {"incoming", "decode", "stuck"} =>
          \A f \in todo' : f \in Fd /\ conns'[f] # None /\ f \notin Listed' /\ f # cur'
    BY <2>3 DEF WsInv, Incoming, AddConnection, bVars, Listed
  <2> QED  BY <2>1, <2>4, <2>5, <1>h DEF WsInv, Incoming, AddConnection, bVars
<1>7. Serving'
  <2>1. \A j \in Keys : subs[j] \subseteq subs'[j]
    BY <1>f DEF WsInv, Types
  <2> QED  BY <2>1 DEF WsInv, Serving, AddConnection, bVars
<1>8. IndexesAgree'
  BY <1>e, <1>g, <1>h DEF WsInv, IndexesAgree
<1>9. NoLeak'
  <2>1. \A f \in Fd : fds'[f] # 0 => conns'[f] # None
    BY <1>a, <1>e, <1>g, <1>h DEF WsInv, NoLeak, AddConnection
  <2>2. main' # "stopped"
    BY <1>h DEF WsInv, Accepting, AddConnection
  <2> QED  BY <2>1, <2>2 DEF NoLeak
<1> QED  BY <1>1, <1>2, <1>3, <1>4, <1>5, <1>6, <1>7, <1>8, <1>9 DEF WsInv

-----------------------------------------------------------------------------
(* The broadcast thread reads and decodes *)

\* Some bytes of a connection are read, or the end of its stream.
LEMMA ReadStep ==
  ASSUME WsInv, NEW f \in Fd, Read(f)
  PROVE  WsInv'
<1>a. /\ bpc = "incoming" /\ f \in todo /\ todo' = todo \ {f} /\ cur = None
      /\ conns[f] # None /\ f \notin Listed
  BY DEF WsInv, Incoming, Read
<1>b. PICK r \in ConnInfo : r = conns[f]
  BY <1>a DEF WsInv, Types
<1>c. PICK w \in Clients : w = r.who /\ fds[f] = w
  BY <1>a, <1>b DEF WsInv, Owned, ConnInfo
<1>d. PICK z \in Nat : z = StreamSize(sent[w])
  BY StreamTypes DEF WsInv, Types
<1>e. r.bytes \in Nat /\ r.bytes <= z /\ Unhandled(f) = z - r.bytes
  BY <1>a, <1>b, <1>c, <1>d DEF WsInv, Streams, Unhandled, ConnInfo
<1>n. None \notin Fd /\ f # None
  BY WebSocketAssumption DEF Fd
<1>f. \/ /\ toRemove' = Append(toRemove, f) /\ UNCHANGED <<bpc, cur, conns>>
      \/ /\ bpc' = "decode" /\ cur' = f /\ toRemove' = toRemove
         /\ \E n \in 0..z : conns' = [conns EXCEPT ![f].bytes = n]
  <2>1. CASE Unhandled(f) = 0
    BY <2>1 DEF Read
  <2>2. CASE Unhandled(f) # 0
    <3>1. PICK n : /\ n \in (conns[f].bytes + 1)..(conns[f].bytes + Unhandled(f))
                   /\ conns' = [conns EXCEPT ![f].bytes = n]
      BY <2>2 DEF Read
    <3>2. n \in 0..z
      BY <3>1, <1>b, <1>e
    <3> QED  BY <2>2, <3>1, <3>2 DEF Read
  <2> QED  BY <2>1, <2>2
<1>g. PICK q : q \in ConnInfo /\ conns' = [conns EXCEPT ![f] = q] /\ q.key = r.key /\ q.who = w /\ q.bytes <= z
  <2>1. CASE conns' = conns
    <3>1. conns' = [conns EXCEPT ![f] = r]
      BY <1>b, <2>1 DEF WsInv, Types
    <3> QED  BY <3>1, <1>c, <1>e
  <2>2. ASSUME NEW n \in 0..z, conns' = [conns EXCEPT ![f].bytes = n]
        PROVE  \E q : q \in ConnInfo /\ conns' = [conns EXCEPT ![f] = q] /\ q.key = r.key /\ q.who = w /\ q.bytes <= z
    <3>1. PICK q : q = [r EXCEPT !.bytes = n]
      BY Zenon
    <3>2. q \in ConnInfo /\ q.key = r.key /\ q.who = w /\ q.bytes = n
      BY <3>1, <1>c, <1>d DEF ConnInfo
    <3>3. conns' = [conns EXCEPT ![f] = q]
      BY <2>2, <3>1, <1>b
    <3>4. n <= z
      BY <1>d
    <3> QED  BY <3>2, <3>3, <3>4
  <2> QED  BY <2>1, <2>2, <1>f
<1>h. /\ conns'[f] = q /\ q # None /\ q.who = w /\ q.key = r.key
      /\ \A g \in Fd : g # f => conns'[g] = conns[g]
  BY <1>g, NoneAssumption DEF WsInv, Types
<1>i. \A g \in Fd : (conns'[g] # None <=> conns[g] # None)
  BY <1>a, <1>h, Zenon
<1>j. \A g \in Fd : conns'[g] # None => conns'[g].who = conns[g].who /\ conns'[g].key = conns[g].key
  BY <1>b, <1>c, <1>h
<1>k. bpc' \in {"incoming", "decode"} /\ UNCHANGED <<running, listening, twice, out, full, fds, subs, afd, main, apc, want, peer, sent, buffers>>
  BY <1>a, <1>f DEF Read, aVars, peers
<1>1. Types'
  <2>1. conns' \in [Fd -> ConnInfo \cup {None}]
    BY <1>g DEF WsInv, Types
  <2>2. toRemove' \in Seq(Fd)
    <3>1. toRemove \in Seq(Fd) /\ (toRemove' = toRemove \/ toRemove' = Append(toRemove, f))
      BY <1>f DEF WsInv, Types
    <3>2. Append(toRemove, f) \in Seq(Fd)
      BY <3>1
    <3> QED  BY <3>1, <3>2, Zenon
  <2>3. cur' \in Fd \cup {None}
    BY <1>f DEF WsInv, Types
  <2> QED  BY <2>1, <2>2, <2>3, <1>k DEF WsInv, Types, Read
<1>2. Kept'
  BY <1>k DEF WsInv, Kept
<1>3. Accepting'
  <2>1. afd # None => afd \in Fd /\ conns[afd] = None
    BY DEF WsInv, Types, Accepting
  <2>2. afd # None => conns'[afd] = None
    BY <2>1, <1>i
  <2>3. main # "stopped"
    BY <1>a DEF WsInv, Accepting
  <2> QED  BY <2>2, <2>3, <1>k DEF WsInv, Accepting
<1>4. Owned'
  BY <1>i, <1>j, <1>k DEF WsInv, Owned
<1>5. Streams'
  <2>1. ASSUME NEW g \in Fd, conns'[g] # None
        PROVE  conns'[g].bytes <= StreamSize(sent[conns'[g].who])
    <3>1. CASE g = f
      BY <3>1, <1>d, <1>g, <1>h
    <3>2. CASE g # f
      BY <2>1, <3>2, <1>h DEF WsInv, Streams
    <3> QED  BY <3>1, <3>2
  <2> QED  BY <2>1, <1>k DEF WsInv, Streams
<1>6. Incoming'
  <2>1. PICK s \in Seq(Fd) : s = toRemove
    BY DEF WsInv, Types
  <2>2. /\ \A i \in 1..Len(s) : s[i] \in Fd /\ s[i] # f
        /\ ~twice => /\ \A i \in 1..Len(s) : conns[s[i]] # None
                     /\ \A i, j \in 1..Len(s) : s[i] = s[j] => i = j
    BY <2>1, <1>a DEF WsInv, Incoming, Distinct, Listed
  <2>3. CASE toRemove' = Append(toRemove, f) /\ UNCHANGED <<bpc, cur, conns>>
    <3>1. PICK t \in Seq(Fd) : t = Append(s, f)
      <4>1. Append(s, f) \in Seq(Fd)
        OBVIOUS
      <4> QED  BY <4>1, Zenon
    <3>2. Len(t) = Len(s) + 1 /\ t[Len(s) + 1] = f /\ \A i \in 1..Len(s) : t[i] = s[i]
      BY <3>1
    <3>3. \A i \in 1..Len(t) : i \in 1..Len(s) \/ i = Len(s) + 1
      BY <3>2
    <3>4. ~twice => /\ \A i \in 1..Len(t) : conns[t[i]] # None
                    /\ \A i, j \in 1..Len(t) : t[i] = t[j] => i = j
      BY <2>2, <3>2, <3>3, <1>a
    <3>5. \A i \in 1..Len(t) : t[i] = f \/ t[i] \in Listed
      BY <2>1, <3>2, <3>3 DEF Listed
    <3>6. toRemove' = t
      BY <2>1, <2>3, <3>1
    <3>7. \A g \in todo' : g \notin Listed'
      BY <3>5, <3>6, <1>a DEF WsInv, Incoming, Listed
    <3> QED  BY <2>3, <3>4, <3>6, <3>7, <1>a, <1>k DEF WsInv, Incoming, Distinct
  <2>4. CASE bpc' = "decode" /\ cur' = f /\ toRemove' = toRemove
    <3>1. Listed' = Listed
      BY <2>4 DEF Listed
    <3>2. \A g \in todo' : g \in Fd /\ conns'[g] # None /\ g \notin Listed' /\ g # f
      BY <3>1, <1>a, <1>i DEF WsInv, Incoming
    <3>3. ~twice' => Distinct'
      BY <2>1, <2>2, <2>4, <1>i, <1>k DEF Distinct
    <3> QED  BY <2>4, <3>1, <3>2, <3>3, <1>a, <1>h, <1>n DEF Incoming
  <2> QED  BY <2>3, <2>4, <1>f
<1>7. Serving'
  BY <1>k DEF Serving
<1>8. IndexesAgree'
  BY <1>i, <1>j, <1>k DEF WsInv, IndexesAgree
<1>9. NoLeak'
  BY <1>a, <1>i, <1>k DEF WsInv, NoLeak, Accepting
<1> QED  BY <1>1, <1>2, <1>3, <1>4, <1>5, <1>6, <1>7, <1>8, <1>9 DEF WsInv

\* A frame is handled: its bytes go, and a Close lists its connection.
LEMMA HandleFrameStep ==
  ASSUME WsInv, HandleFrame
  PROVE  WsInv'
<1>a. /\ bpc = "decode" /\ Decoded # None /\ cur # None /\ cur \in Fd /\ conns[cur] # None
      /\ fds[cur] = conns[cur].who
  BY DEF WsInv, Types, Incoming, Owned, HandleFrame
<1>b. PICK l \in Fd : l = cur
  BY <1>a
<1>c. PICK r \in ConnInfo : r = conns[l]
  BY <1>a, <1>b DEF WsInv, Types
<1>d. PICK c \in Clients : c = r.who /\ c = fds[l]
  BY <1>a, <1>b, <1>c DEF ConnInfo
<1>e. PICK s \in Seq(Frame) : s = sent[c]
  BY DEF WsInv, Types
<1>f. s # <<>> /\ Decoded = DecodeFrame(PeerHeader(Head(s)), r.bytes)
  BY <1>a, <1>b, <1>c, <1>d, <1>e DEF Decoded
<1>g. PICK m \in Frame : m = Head(s)
  BY <1>f
<1>h. PICK z \in Nat : z = SizeOf(m) /\ z > 0
  BY FrameSizes
<1>i. r.bytes \in Nat /\ Decoded = Answer(m, r.bytes)
  BY <1>f, <1>g, Decodes DEF ConnInfo
<1>j. z <= r.bytes /\ Decoded.consumed = z
  <2>1. ~(r.bytes < z)
    BY <1>a, <1>h, <1>i DEF Answer
  <2>2. Decoded = [op |-> m.op, payload |-> m.len, consumed |-> z]
    BY <2>1, <1>h, <1>i DEF Answer
  <2> QED  BY <2>1, <2>2, <1>h, <1>i
<1>k. PICK q : q = [r EXCEPT !.bytes = r.bytes - z]
  BY Zenon
<1>l. q \in ConnInfo /\ q.key = r.key /\ q.who = c /\ q.bytes = r.bytes - z
  <2>1. PICK b \in Nat : b = r.bytes - z
    BY <1>h, <1>i, <1>j
  <2>2. q = [r EXCEPT !.bytes = b]
    BY <1>k, <2>1, Zenon
  <2>3. q \in ConnInfo /\ q.key = r.key /\ q.who = r.who /\ q.bytes = b
    BY <2>2 DEF ConnInfo
  <2> QED  BY <1>d, <2>1, <2>3, Zenon
<1>m. conns' = [conns EXCEPT ![l] = q]
  BY <1>b, <1>c, <1>j, <1>k DEF HandleFrame
<1>n. /\ conns'[l] = q /\ q # None /\ \A g \in Fd : g # l => conns'[g] = conns[g]
  BY <1>l, <1>m, NoneAssumption DEF WsInv, Types
<1>o. PICK t \in Seq(Frame) : t = Tail(s)
  <2>1. Tail(s) \in Seq(Frame)
    BY <1>f
  <2> QED  BY <2>1, Zenon
<1>p. sent'[c] = t /\ \A d \in Clients : d # c => sent'[d] = sent[d]
  BY <1>a, <1>b, <1>d, <1>e, <1>o DEF WsInv, Types, HandleFrame
<1>q. \A g \in Fd : (conns'[g] # None <=> conns[g] # None)
  BY <1>a, <1>b, <1>n, Zenon
<1>r. \A g \in Fd : conns'[g] # None => conns'[g].who = conns[g].who /\ conns'[g].key = conns[g].key
  BY <1>c, <1>d, <1>l, <1>n
<1>s. /\ bpc' \in {"stuck", "decode"} /\ todo' = todo /\ cur' = cur
      /\ UNCHANGED <<running, listening, out, fds, subs, afd, main, apc, want, peer, buffers>>
      /\ full' \subseteq Clients
  <2>1. full' = full \/ full' = full \cup {c}
    BY <1>b, <1>d DEF HandleFrame, Takes
  <2> QED  BY <2>1 DEF WsInv, Types, HandleFrame, aVars
<1>t. StreamSize(s) = z + StreamSize(t) /\ StreamSize(t) \in Nat
  BY <1>e, <1>f, <1>g, <1>h, <1>o, StreamShrinks, StreamTypes
<1>u. r.bytes <= StreamSize(s)
  BY <1>a, <1>b, <1>c, <1>d, <1>e DEF WsInv, Streams
<1>v. \/ m.op # Op.close /\ toRemove' = toRemove /\ twice' = twice
      \/ m.op = Op.close /\ toRemove' = Append(toRemove, l) /\ twice' = (twice \/ l \in Range(toRemove))
  BY <1>b, <1>d, <1>e, <1>g DEF HandleFrame
<1>w. twice' \in BOOLEAN /\ (~twice' => ~twice /\ (m.op = Op.close => l \notin Listed))
  <2>1. Range(toRemove) = Listed
    <3>1. DOMAIN toRemove = 1..Len(toRemove)
      BY DEF WsInv, Types
    <3> QED  BY <3>1 DEF Range, Listed
  <2> QED  BY <2>1, <1>v DEF WsInv, Types
<1>1. Types'
  <2>1. conns' \in [Fd -> ConnInfo \cup {None}]
    BY <1>l, <1>m DEF WsInv, Types
  <2>2. toRemove' \in Seq(Fd)
    <3>1. toRemove \in Seq(Fd) /\ (toRemove' = toRemove \/ toRemove' = Append(toRemove, l))
      BY <1>v DEF WsInv, Types
    <3>2. Append(toRemove, l) \in Seq(Fd)
      BY <3>1
    <3> QED  BY <3>1, <3>2, Zenon
  <2>3. sent' \in [Clients -> Seq(Frame)]
    <3>1. sent' = [sent EXCEPT ![c] = t]
      BY <1>b, <1>d, <1>e, <1>o DEF HandleFrame
    <3> QED  BY <3>1 DEF WsInv, Types
  <2> QED  BY <2>1, <2>2, <2>3, <1>s, <1>w DEF WsInv, Types
<1>2. Kept'
  BY <1>s DEF WsInv, Kept
<1>3. Accepting'
  <2>1. afd # None => afd \in Fd /\ conns[afd] = None
    BY DEF WsInv, Types, Accepting
  <2>2. afd # None => conns'[afd] = None
    BY <2>1, <1>q
  <2>3. main # "stopped"
    BY <1>a DEF WsInv, Accepting
  <2>4. twice => twice'
    BY <1>v
  <2> QED  BY <2>2, <2>3, <2>4, <1>s DEF WsInv, Accepting
<1>4. Owned'
  BY <1>q, <1>r, <1>s DEF WsInv, Owned
<1>5. Streams'
  <2>1. ASSUME NEW g \in Fd, conns'[g] # None
        PROVE  conns'[g].bytes <= StreamSize(sent'[conns'[g].who])
    <3>1. CASE g = l
      <4>1. conns'[g].bytes = r.bytes - z /\ sent'[conns'[g].who] = t
        BY <3>1, <1>l, <1>n, <1>p
      <4> QED  BY <4>1, <1>h, <1>i, <1>t, <1>u
    <3>2. CASE g # l
      <4>1. PICK d \in Clients : d = conns[g].who
        BY <2>1, <3>2, <1>n DEF WsInv, Types, ConnInfo
      <4>2. d = fds[g] /\ d # 0
        BY <4>1, <2>1, <3>2, <1>n DEF WsInv, Owned, Clients
      <4>3. d # c
        BY <4>2, <3>2, <1>d DEF WsInv, Owned
      <4> QED  BY <4>1, <4>3, <2>1, <3>2, <1>n, <1>p DEF WsInv, Streams
    <3> QED  BY <3>1, <3>2
  <2> QED  BY <2>1 DEF Streams
<1>6. Incoming'
  <2>1. PICK u \in Seq(Fd) : u = toRemove
    BY DEF WsInv, Types
  <2>2. /\ \A i \in 1..Len(u) : u[i] \in Fd
        /\ ~twice => /\ \A i \in 1..Len(u) : conns[u[i]] # None
                     /\ \A i, j \in 1..Len(u) : u[i] = u[j] => i = j
    BY <2>1 DEF WsInv, Incoming, Distinct
  <2>3. CASE m.op = Op.close
    <3>1. PICK v \in Seq(Fd) : v = Append(u, l)
      <4>1. Append(u, l) \in Seq(Fd)
        OBVIOUS
      <4> QED  BY <4>1, Zenon
    <3>2. Len(v) = Len(u) + 1 /\ v[Len(u) + 1] = l /\ \A i \in 1..Len(u) : v[i] = u[i]
      BY <3>1
    <3>3. \A i \in 1..Len(v) : i \in 1..Len(u) \/ i = Len(u) + 1
      BY <3>2
    <3>4. \A i \in 1..Len(v) : v[i] = l \/ v[i] \in Listed
      BY <2>1, <3>2, <3>3 DEF Listed
    <3>5. toRemove' = v
      BY <2>1, <2>3, <3>1, <1>v
    <3>6. ~twice' => Distinct'
      <4> SUFFICES ASSUME ~twice' PROVE Distinct'
        OBVIOUS
      <4>1. \A i \in 1..Len(u) : u[i] # l /\ conns[u[i]] # None
        BY <2>1, <2>2, <2>3, <1>w DEF Listed
      <4>2. \A i, j \in 1..Len(u) : u[i] = u[j] => i = j
        BY <2>2, <1>w
      <4>3. \A i \in 1..Len(v) : conns'[v[i]] # None
        <5>1. ASSUME NEW i \in 1..Len(v)
              PROVE  conns'[v[i]] # None
          <6>1. CASE i \in 1..Len(u)
            BY <6>1, <4>1, <2>2, <3>2, <1>q
          <6>2. CASE i = Len(u) + 1
            BY <6>2, <3>2, <1>n
          <6> QED  BY <6>1, <6>2, <3>3
        <5> QED  BY <5>1
      <4>4. \A i, j \in 1..Len(v) : v[i] = v[j] => i = j
        BY <4>1, <4>2, <3>2, <3>3
      <4> QED  BY <4>3, <4>4, <3>5 DEF Distinct
    <3>7. \A g \in todo' : g \in Fd /\ conns'[g] # None /\ g \notin Listed' /\ g # cur'
      BY <3>4, <3>5, <1>a, <1>b, <1>q, <1>s DEF WsInv, Incoming, Listed
    <3> QED  BY <3>6, <3>7, <1>a, <1>b, <1>n, <1>s DEF Incoming
  <2>4. CASE m.op # Op.close
    <3>1. toRemove' = toRemove /\ twice' = twice
      BY <2>4, <1>v
    <3>2. Listed' = Listed
      BY <3>1 DEF Listed
    <3>3. \A g \in todo' : g \in Fd /\ conns'[g] # None /\ g \notin Listed' /\ g # cur'
      BY <3>2, <1>a, <1>q, <1>s DEF WsInv, Incoming
    <3>4. ~twice' => Distinct'
      BY <2>1, <2>2, <3>1, <1>q DEF Distinct
    <3> QED  BY <3>3, <3>4, <1>a, <1>b, <1>n, <1>s DEF Incoming
  <2> QED  BY <2>3, <2>4
<1>7. Serving'
  BY <1>s DEF Serving
<1>8. IndexesAgree'
  BY <1>q, <1>r, <1>s DEF WsInv, IndexesAgree
<1>9. NoLeak'
  BY <1>a, <1>q, <1>s DEF WsInv, NoLeak, Accepting
<1> QED  BY <1>1, <1>2, <1>3, <1>4, <1>5, <1>6, <1>7, <1>8, <1>9 DEF WsInv

-----------------------------------------------------------------------------
(* Connections are removed *)

\* The tables stay two indexes of the same connections, and only those of F go.
LEMMA Removal ==
  ASSUME WsInv, NEW F \in SUBSET Fd, RemoveConnectionLocked(F)
  PROVE  /\ conns' \in [Fd -> ConnInfo \cup {None}] /\ subs' \in [Keys -> SUBSET Fd]
         /\ \A f \in F : conns'[f] = None
         /\ \A f \in Fd : f \notin F => conns'[f] = conns[f]
         /\ \A k \in Keys : \A f \in subs[k] : f \in subs'[k] \/ (f \in F /\ conns[f].key = k)
         /\ IndexesAgree'
<1>1. /\ conns' = [f \in Fd |-> IF f \in F THEN None ELSE conns[f]]
      /\ subs' = [k \in Keys |-> {f \in subs[k] : f \in F => conns[f] = None \/ conns[f].key # k}]
  BY DEF RemoveConnectionLocked
<1>2. /\ \A f \in F : conns'[f] = None
      /\ \A f \in Fd : f \notin F => conns'[f] = conns[f]
  BY <1>1
<1>3. conns' \in [Fd -> ConnInfo \cup {None}]
  BY <1>1 DEF WsInv, Types
<1>4. subs' \in [Keys -> SUBSET Fd]
  BY <1>1 DEF WsInv, Types
<1>5. \A f \in Fd, k \in Keys :
        f \in subs'[k] <=> f \in subs[k] /\ (f \in F => conns[f] = None \/ conns[f].key # k)
  BY <1>1
<1>6. \A k \in Keys : \A f \in subs[k] : f \in subs'[k] \/ (f \in F /\ conns[f].key = k)
  <2>1. \A k \in Keys : subs[k] \subseteq Fd
    BY DEF WsInv, Types
  <2> QED  BY <1>5, <2>1
<1>7. IndexesAgree'
  <2>1. ASSUME NEW f \in Fd, NEW k \in Keys
        PROVE  f \in subs'[k] <=> conns'[f] # None /\ conns'[f].key = k
    <3>1. f \in subs[k] <=> conns[f] # None /\ conns[f].key = k
      BY DEF WsInv, IndexesAgree
    <3> QED  BY <3>1, <1>2, <1>5
  <2> QED  BY <2>1 DEF IndexesAgree
<1> QED  BY <1>2, <1>3, <1>4, <1>6, <1>7

\* A listed number leaves the tables, if it is in them.
LEMMA RemoveListedStep ==
  ASSUME WsInv, RemoveListed
  PROVE  WsInv'
<1>a. PICK s \in Seq(Fd) : s = toRemove /\ s # <<>>
  BY DEF WsInv, Types, RemoveListed
<1>b. PICK l \in Fd : l = Head(s) /\ l = s[1]
  BY <1>a
<1>c. PICK t \in Seq(Fd) : t = Tail(s) /\ Len(t) = Len(s) - 1 /\ \A i \in 1..Len(t) : t[i] = s[i + 1]
  <2>1. Tail(s) \in Seq(Fd) /\ Len(Tail(s)) = Len(s) - 1 /\ \A i \in 1..Len(Tail(s)) : Tail(s)[i] = s[i + 1]
    BY <1>a
  <2> QED  BY <2>1, Zenon
<1>d. 1 \in 1..Len(s) /\ \A i \in 1..Len(t) : i + 1 \in 1..Len(s) /\ i + 1 # 1
  BY <1>a, <1>c
<1>e. ~twice => /\ \A i \in 1..Len(s) : conns[s[i]] # None
                /\ \A i, j \in 1..Len(s) : s[i] = s[j] => i = j
  BY <1>a DEF WsInv, Incoming, Distinct
<1>f. ~twice => conns[l] # None /\ \A i \in 1..Len(t) : t[i] \in Fd /\ t[i] # l /\ conns[t[i]] # None
  BY <1>b, <1>c, <1>d, <1>e
<1>g. /\ RemoveConnectionLocked({l}) /\ bpc = "incoming" /\ bpc' = "close" /\ todo = {} /\ todo' = {}
      /\ cur' = l /\ toRemove' = t
      /\ UNCHANGED <<running, listening, apc, afd, twice, out, main, fds, buffers, peer, want, sent, got, full>>
  BY <1>a, <1>b, <1>c DEF RemoveListed, aVars, peers
<1>h. /\ conns' \in [Fd -> ConnInfo \cup {None}] /\ subs' \in [Keys -> SUBSET Fd]
      /\ conns'[l] = None
      /\ \A f \in Fd : f # l => conns'[f] = conns[f]
      /\ IndexesAgree'
  <2>1. {l} \in SUBSET Fd
    OBVIOUS
  <2> QED  BY <1>g, <2>1, Removal
<1>n. None \notin Fd /\ l # None
  BY WebSocketAssumption DEF Fd
<1>1. Types'
  BY <1>g, <1>h DEF WsInv, Types
<1>2. Kept'
  BY <1>g DEF WsInv, Kept
<1>3. Accepting'
  <2>1. afd # None => afd \in Fd /\ conns'[afd] = None
    BY <1>h DEF WsInv, Types, Accepting
  <2>2. main # "stopped"
    BY <1>g DEF WsInv, Accepting
  <2> QED  BY <2>1, <2>2, <1>g DEF WsInv, Accepting
<1>4. Owned'
  BY <1>g, <1>h DEF WsInv, Owned
<1>5. Streams'
  BY <1>g, <1>h DEF WsInv, Streams
<1>6. Incoming'
  <2>1. ~twice' => Distinct'
    <3> SUFFICES ASSUME ~twice PROVE Distinct'
      BY <1>g
    <3>1. \A i \in 1..Len(t) : conns'[t[i]] # None
      BY <1>f, <1>h
    <3>2. \A i, j \in 1..Len(t) : t[i] = t[j] => i = j
      <4> SUFFICES ASSUME NEW i \in 1..Len(t), NEW j \in 1..Len(t), t[i] = t[j] PROVE i = j
        OBVIOUS
      <4>1. i + 1 = j + 1
        BY <1>c, <1>d, <1>e
      <4> QED  BY <4>1
    <3> QED  BY <3>1, <3>2, <1>g DEF Distinct
  <2>2. twice' \/ (fds'[cur'] # 0 /\ cur' # afd')
    <3> SUFFICES ASSUME ~twice PROVE fds[l] # 0 /\ l # afd
      BY <1>g
    <3>1. conns[l] \in ConnInfo /\ fds[l] = conns[l].who
      BY <1>f DEF WsInv, Types, Owned
    <3>2. conns[l].who \in Clients
      BY <3>1 DEF ConnInfo
    <3>3. fds[l] # 0
      BY <3>1, <3>2 DEF Clients
    <3>4. l # afd
      BY <1>f, <1>n DEF WsInv, Accepting
    <3> QED  BY <3>3, <3>4
  <2> QED  BY <2>1, <2>2, <1>g, <1>h, <1>n DEF Incoming
<1>7. Serving'
  BY <1>g DEF Serving
<1>8. IndexesAgree'
  BY <1>h
<1>9. NoLeak'
  <2>1. main # "stopped"
    BY <1>g DEF WsInv, Accepting
  <2> QED  BY <2>1, <1>g, <1>h DEF WsInv, NoLeak
<1> QED  BY <1>1, <1>2, <1>3, <1>4, <1>5, <1>6, <1>7, <1>8, <1>9 DEF WsInv

\* It is closed, whatever it denotes.
LEMMA CloseListedStep ==
  ASSUME WsInv, CloseListed
  PROVE  WsInv'
<1>a. PICK l \in Fd : l = cur /\ conns[l] = None /\ (twice \/ l # afd)
  BY DEF WsInv, Types, Incoming, CloseListed
<1>b. /\ Close({l}) /\ bpc = "close" /\ bpc' = "incoming" /\ cur' = None /\ todo = {} /\ todo' = {}
      /\ UNCHANGED <<running, listening, apc, afd, toRemove, twice, out, main, conns, subs, buffers,
                     want, got, full>>
  BY <1>a DEF WsInv, Incoming, CloseListed, aVars, mgr
<1>c. /\ fds' \in [Fd -> Clients \cup {0}] /\ sent' \in [Clients -> Seq(Frame)]
      /\ peer' \in [Clients -> {"out", "waiting", "asked", "bad", "open", "gone"}]
      /\ fds'[l] = 0
      /\ \A f \in Fd : f # l => fds'[f] = fds[f]
      /\ \A f \in Fd : f # l /\ fds[f] # 0 => peer'[fds[f]] = peer[fds[f]]
      /\ \A c \in Clients : peer'[c] = peer[c] \/ peer'[c] = "gone"
  <2>1. {l} \in SUBSET Fd
    OBVIOUS
  <2> QED  BY <1>b, <2>1, Closing
<1>d. Owned' /\ Streams'
  <2>1. {l} \in SUBSET Fd
    OBVIOUS
  <2>2. \A f \in {l} : conns'[f] = None
    BY <1>a, <1>b
  <2>3. \A g \in Fd : conns'[g] # None => conns'[g] = conns[g]
    BY <1>b
  <2> QED  BY <1>b, <2>1, <2>2, <2>3, ClosingKeeps
<1>1. Types'
  BY <1>b, <1>c DEF WsInv, Types
<1>2. Kept'
  BY <1>b DEF WsInv, Kept
<1>3. Accepting'
  <2>1. afd # None => afd \in Fd /\ conns[afd] = None /\ (fds'[afd] # 0 \/ twice)
    BY <1>a, <1>c DEF WsInv, Types, Accepting
  <2>2. apc = "add" /\ fds'[afd] # 0 => want[fds'[afd]] \in Keys /\ peer'[fds'[afd]] \in {"open", "gone"}
    <3> SUFFICES ASSUME apc = "add", fds'[afd] # 0
                 PROVE  want[fds'[afd]] \in Keys /\ peer'[fds'[afd]] \in {"open", "gone"}
      OBVIOUS
    <3>1. afd \in Fd
      BY DEF WsInv, Types, Accepting
    <3>2. afd # l /\ fds'[afd] = fds[afd]
      BY <3>1, <1>c
    <3>3. peer'[fds[afd]] = peer[fds[afd]]
      BY <3>1, <3>2, <1>c
    <3> QED  BY <3>2, <3>3 DEF WsInv, Accepting
  <2>3. \A c \in Clients : peer'[c] = "asked" => want[c] \in Keys
    BY <1>c DEF WsInv, Accepting
  <2>4. main # "stopped"
    BY <1>b DEF WsInv, Accepting
  <2> QED  BY <2>1, <2>2, <2>3, <2>4, <1>b DEF WsInv, Accepting
<1>4. Owned'
  BY <1>d
<1>5. Streams'
  BY <1>d
<1>6. Incoming'
  BY <1>b DEF WsInv, Incoming, Distinct
<1>7. Serving'
  BY <1>b DEF Serving
<1>8. IndexesAgree'
  BY <1>b DEF WsInv, IndexesAgree
<1>9. NoLeak'
  <2>1. main # "stopped"
    BY <1>b DEF WsInv, Accepting
  <2> QED  BY <2>1, <1>a, <1>b, <1>c DEF WsInv, NoLeak
<1> QED  BY <1>1, <1>2, <1>3, <1>4, <1>5, <1>6, <1>7, <1>8, <1>9 DEF WsInv

\* The last element of a sequence is an element of it.
LEMMA LastIsElement ==
  ASSUME NEW S, NEW q \in Seq(S), q # <<>>
  PROVE  Last(q) \in S
<1>1. Len(q) \in 1..Len(q) /\ \A i \in 1..Len(q) : q[i] \in S
  OBVIOUS
<1> QED  BY <1>1, Zenon DEF Last

\* A key is begun.
LEMMA BroadcastKeyStep ==
  ASSUME WsInv, NEW e \in todo, BroadcastKey(e)
  PROVE  WsInv'
<1>a. /\ bpc = "send" /\ todo' = todo \ {e}
      /\ UNCHANGED <<running, listening, apc, afd, cur, toRemove, twice, main, fds, conns, subs, buffers,
                     peer, want, sent, got, full>>
  BY DEF BroadcastKey, aVars, mgr, peers
<1>b. PICK k \in Keys : k = e[1] /\ e[2] \subseteq subs[k]
  BY <1>a DEF WsInv, Serving
<1>c. PICK S \in SUBSET Fd : S = e[2]
  BY <1>b DEF WsInv, Types
<1>d. \/ bpc' = "send" /\ out' = out
      \/ bpc' = "write" /\ out' = [key |-> k, batch |-> Latest(k), to |-> S, dead |-> {}]
  BY <1>a, <1>b, <1>c DEF BroadcastKey
<1>e. PICK v \in 0..MaxPush : v = Latest(k)
  <2>1. buffers[k] \in Seq(1..MaxPush)
    BY DEF WsInv, Types
  <2>2. 0 \in 0..MaxPush /\ \A n \in 1..MaxPush : n \in 0..MaxPush
    BY WebSocketAssumption
  <2>3. CASE buffers[k] = <<>>
    BY <2>2, <2>3 DEF Latest
  <2>4. CASE buffers[k] # <<>>
    <3>1. Last(buffers[k]) \in 1..MaxPush
      BY <2>1, <2>4, LastIsElement
    <3> QED  BY <2>2, <2>4, <3>1 DEF Latest
  <2> QED  BY <2>3, <2>4
<1>1. Types'
  <2>1. out' \in [key : Keys, batch : 0..MaxPush, to : SUBSET Fd, dead : SUBSET Fd]
    BY <1>d, <1>e DEF WsInv, Types
  <2> QED  BY <1>a, <1>d, <2>1 DEF WsInv, Types
<1>2. Kept'
  BY <1>a DEF WsInv, Kept
<1>3. Accepting'
  BY <1>a DEF WsInv, Accepting
<1>4. Owned'
  BY <1>a DEF WsInv, Owned
<1>5. Streams'
  BY <1>a DEF WsInv, Streams
<1>6. Incoming'
  BY <1>a, <1>d DEF WsInv, Incoming, Distinct
<1>7. Serving'
  <2>1. /\ \A d \in todo' : d[1] \in Keys /\ d[2] \subseteq subs'[d[1]] /\ d[1] # k
        /\ \A d, g \in todo' : d[1] = g[1] => d = g
    BY <1>a, <1>b DEF WsInv, Serving
  <2>2. bpc' = "write" => out'.key = k /\ out'.to = S /\ out'.dead = {}
    BY <1>d
  <2> QED  BY <2>1, <2>2, <1>a, <1>b, <1>c, <1>d DEF Serving
<1>8. IndexesAgree'
  BY <1>a DEF WsInv, IndexesAgree
<1>9. NoLeak'
  BY <1>a, <1>d DEF WsInv, NoLeak, Accepting
<1> QED  BY <1>1, <1>2, <1>3, <1>4, <1>5, <1>6, <1>7, <1>8, <1>9 DEF WsInv

\* One subscriber has been written to, or could not be.
LEMMA WriteStep ==
  ASSUME WsInv, NEW f \in Fd, WriteTo(f) \/ WriteFails(f)
  PROVE  WsInv'
<1>a. /\ bpc = "write" /\ f \in out.to
      /\ UNCHANGED <<running, listening, apc, afd, bpc, todo, cur, toRemove, twice, main, fds, conns, subs,
                     buffers, peer, want, sent>>
  BY DEF WriteTo, WriteFails, aVars, mgr, peers
<1>b. out \in [key : Keys, batch : 0..MaxPush, to : SUBSET Fd, dead : SUBSET Fd]
  BY DEF WsInv, Types
<1>c. PICK T \in SUBSET out.to : T = out.to \ {f}
  OBVIOUS
<1>d. PICK D \in SUBSET (out.dead \cup {f}) :
        out' = [key |-> out.key, batch |-> out.batch, to |-> T, dead |-> D]
  <2>1. CASE WriteTo(f)
    <3>1. out' = [key |-> out.key, batch |-> out.batch, to |-> T, dead |-> out.dead]
      BY <2>1, <1>b, <1>c DEF WriteTo
    <3> QED  BY <3>1
  <2>2. CASE WriteFails(f)
    <3>1. out' = [key |-> out.key, batch |-> out.batch, to |-> T, dead |-> out.dead \cup {f}]
      BY <2>2, <1>b, <1>c DEF WriteFails
    <3> QED  BY <3>1
  <2> QED  BY <2>1, <2>2
<1>e. full' \subseteq Clients
  <2>1. out.to \subseteq subs[out.key] /\ out.key \in Keys
    BY <1>a, <1>b DEF WsInv, Serving
  <2>2. conns[f] # None /\ conns[f] \in ConnInfo
    BY <2>1, <1>a DEF WsInv, Types, IndexesAgree
  <2>3. fds[f] \in Clients
    BY <2>2 DEF WsInv, Owned, ConnInfo
  <2>4. full' = full \/ full' = full \cup {fds[f]}
    BY DEF WriteTo, WriteFails, Takes, peers
  <2> QED  BY <2>3, <2>4 DEF WsInv, Types
<1>1. Types'
  <2>1. out' \in [key : Keys, batch : 0..MaxPush, to : SUBSET Fd, dead : SUBSET Fd]
    BY <1>b, <1>d
  <2> QED  BY <1>a, <1>e, <2>1 DEF WsInv, Types
<1>2. Kept'
  BY <1>a DEF WsInv, Kept
<1>3. Accepting'
  BY <1>a DEF WsInv, Accepting
<1>4. Owned'
  BY <1>a DEF WsInv, Owned
<1>5. Streams'
  BY <1>a DEF WsInv, Streams
<1>6. Incoming'
  BY <1>a DEF WsInv, Incoming, Distinct
<1>7. Serving'
  <2>1. out'.key = out.key /\ out'.to = T /\ out'.dead = D
    BY <1>d
  <2>2. out.to \subseteq subs[out.key] /\ out.dead \subseteq subs[out.key]
    BY <1>a DEF WsInv, Serving
  <2>3. T \subseteq subs[out.key] /\ D \subseteq subs[out.key]
    BY <2>2, <1>a, <1>c, <1>d
  <2> QED  BY <2>1, <2>3, <1>a DEF WsInv, Serving
<1>8. IndexesAgree'
  BY <1>a DEF WsInv, IndexesAgree
<1>9. NoLeak'
  BY <1>a DEF WsInv, NoLeak
<1> QED  BY <1>1, <1>2, <1>3, <1>4, <1>5, <1>6, <1>7, <1>8, <1>9 DEF WsInv

\* Who could not be written to is removed and closed.
LEMMA RemoveDeadStep ==
  ASSUME WsInv, RemoveDead
  PROVE  WsInv'
<1>b. out \in [key : Keys, batch : 0..MaxPush, to : SUBSET Fd, dead : SUBSET Fd]
  BY DEF WsInv, Types
<1>c. PICK F \in SUBSET Fd : F = out.dead
  BY <1>b
<1>d. PICK k \in Keys : k = out.key
  BY <1>b
<1>a. /\ bpc = "write" /\ bpc' = "send" /\ RemoveConnectionLocked(F) /\ Close(F) /\ out' = Idle
      /\ UNCHANGED <<running, listening, apc, afd, todo, cur, toRemove, twice, main, buffers, want, got, full>>
  BY <1>c DEF RemoveDead, aVars
<1>e. \A f \in F : conns[f] # None /\ conns[f].key = k
  <2>1. F \subseteq subs[k]
    BY <1>a, <1>c, <1>d DEF WsInv, Serving
  <2> QED  BY <2>1 DEF WsInv, IndexesAgree
<1>f. /\ conns' \in [Fd -> ConnInfo \cup {None}] /\ subs' \in [Keys -> SUBSET Fd]
      /\ \A f \in F : conns'[f] = None
      /\ \A f \in Fd : f \notin F => conns'[f] = conns[f]
      /\ \A j \in Keys : \A f \in subs[j] : f \in subs'[j] \/ (f \in F /\ conns[f].key = j)
      /\ IndexesAgree'
  BY <1>a, Removal
<1>g. /\ fds' \in [Fd -> Clients \cup {0}] /\ sent' \in [Clients -> Seq(Frame)]
      /\ peer' \in [Clients -> {"out", "waiting", "asked", "bad", "open", "gone"}]
      /\ \A f \in F : fds'[f] = 0
      /\ \A f \in Fd : f \notin F => fds'[f] = fds[f]
      /\ \A f \in Fd : f \notin F /\ fds[f] # 0 => peer'[fds[f]] = peer[fds[f]]
      /\ \A c \in Clients : peer'[c] = peer[c] \/ peer'[c] = "gone"
  BY <1>a, Closing
<1>h. Owned' /\ Streams'
  <2>1. \A g \in Fd : conns'[g] # None => conns'[g] = conns[g]
    BY <1>f
  <2> QED  BY <1>a, <1>f, <2>1, ClosingKeeps
<1>1. Types'
  <2>1. Idle \in [key : Keys, batch : 0..MaxPush, to : SUBSET Fd, dead : SUBSET Fd]
    <3>1. 1 \in Keys /\ 0 \in 0..MaxPush
      BY WebSocketAssumption DEF Keys
    <3> QED  BY <3>1 DEF Idle
  <2> QED  BY <1>a, <1>f, <1>g, <2>1 DEF WsInv, Types
<1>2. Kept'
  BY <1>a DEF WsInv, Kept
<1>3. Accepting'
  <2>1. afd # None => afd \in Fd /\ afd \notin F /\ conns[afd] = None
    BY <1>e DEF WsInv, Types, Accepting
  <2>2. afd # None => conns'[afd] = None /\ fds'[afd] = fds[afd]
    BY <2>1, <1>f, <1>g
  <2>3. apc = "add" /\ fds[afd] # 0 => peer'[fds[afd]] = peer[fds[afd]]
    BY <2>1, <1>g DEF WsInv, Accepting
  <2>4. \A c \in Clients : peer'[c] = "asked" => want[c] \in Keys
    BY <1>g DEF WsInv, Accepting
  <2>5. main # "stopped"
    BY <1>a DEF WsInv, Accepting
  <2>6. apc = "add" => afd # None
    BY DEF WsInv, Accepting
  <2> QED  BY <2>2, <2>3, <2>4, <2>5, <2>6, <1>a DEF WsInv, Accepting
<1>4. Owned'
  BY <1>h
<1>5. Streams'
  BY <1>h
<1>6. Incoming'
  <2>1. cur = None /\ toRemove = <<>>
    BY <1>a DEF WsInv, Incoming
  <2>2. cur' = None /\ toRemove' = <<>> /\ Len(toRemove') = 0
    BY <2>1, <1>a
  <2> QED  BY <2>2, <1>a DEF Incoming, Distinct
<1>7. Serving'
  <2>1. ASSUME NEW d \in todo' PROVE d[1] \in Keys /\ d[2] \subseteq subs'[d[1]]
    <3>1. d \in todo
      BY <2>1, <1>a
    <3>2. d[1] # k /\ d[1] \in Keys /\ d[2] \subseteq subs[d[1]]
      BY <1>a, <1>d, <3>1 DEF WsInv, Serving
    <3> QED  BY <1>e, <1>f, <3>2
  <2>2. \A d, g \in todo' : d[1] = g[1] => d = g
    BY <1>a DEF WsInv, Serving
  <2> QED  BY <2>1, <2>2, <1>a DEF Serving
<1>8. IndexesAgree'
  BY <1>f
<1>9. NoLeak'
  <2>1. main # "stopped"
    BY <1>a DEF WsInv, Accepting
  <2>2. ASSUME NEW f \in Fd, fds'[f] # 0 PROVE conns'[f] # None \/ f = afd
    BY <2>2, <1>a, <1>f, <1>g DEF WsInv, NoLeak
  <2> QED  BY <2>1, <2>2, <1>a DEF NoLeak
<1> QED  BY <1>1, <1>2, <1>3, <1>4, <1>5, <1>6, <1>7, <1>8, <1>9 DEF WsInv

\* Both threads have ended; Stop closes what is left.
LEMMA StopCloseAllStep ==
  ASSUME WsInv, StopCloseAll
  PROVE  WsInv'
<1>a. /\ main = "join" /\ bpc = "done" /\ apc = "done" /\ afd = None /\ cur = None
      /\ toRemove = <<>> /\ todo = {}
  BY DEF WsInv, Accepting, Incoming, Serving, StopCloseAll
<1>b. PICK F \in SUBSET Fd : F = {f \in Fd : conns[f] # None}
  OBVIOUS
<1>c. /\ main' = "stopped" /\ Close(F)
      /\ conns' = [f \in Fd |-> None] /\ subs' = [k \in Keys |-> {}]
      /\ UNCHANGED <<running, listening, apc, afd, bpc, todo, cur, toRemove, twice, out, buffers, want, got, full>>
  BY <1>b DEF StopCloseAll, aVars, bVars
<1>d. None \notin Fd
  BY WebSocketAssumption DEF Fd
<1>e. \A f \in Fd : conns'[f] = None
  BY <1>c
<1>f. /\ fds' \in [Fd -> Clients \cup {0}] /\ sent' \in [Clients -> Seq(Frame)]
      /\ peer' \in [Clients -> {"out", "waiting", "asked", "bad", "open", "gone"}]
      /\ \A f \in F : fds'[f] = 0
      /\ \A f \in Fd : f \notin F => fds'[f] = fds[f]
      /\ \A c \in Clients : peer'[c] = peer[c] \/ peer'[c] = "gone"
  BY <1>c, Closing
<1>g. \A f \in Fd : fds'[f] = 0
  <2>1. \A f \in Fd : fds[f] # 0 => f \in F
    BY <1>a, <1>b, <1>d DEF WsInv, NoLeak
  <2> QED  BY <2>1, <1>f
<1>h. Owned' /\ Streams'
  BY <1>c, <1>e, ClosingKeeps
<1>1. Types'
  <2>1. conns' \in [Fd -> ConnInfo \cup {None}]
    BY <1>c
  <2>2. subs' \in [Keys -> SUBSET Fd]
    BY <1>c
  <2> QED  BY <2>1, <2>2, <1>c, <1>f DEF WsInv, Types
<1>2. Kept'
  BY <1>c DEF WsInv, Kept
<1>3. Accepting'
  BY <1>a, <1>c, <1>f DEF WsInv, Accepting
<1>4. Owned'
  BY <1>h
<1>5. Streams'
  BY <1>h
<1>6. Incoming'
  <2>1. Len(toRemove') = 0
    BY <1>a, <1>c
  <2> QED  BY <2>1, <1>a, <1>c DEF Incoming, Distinct
<1>7. Serving'
  BY <1>a, <1>c DEF Serving
<1>8. IndexesAgree'
  BY <1>c, <1>e DEF IndexesAgree
<1>9. NoLeak'
  BY <1>g DEF NoLeak
<1> QED  BY <1>1, <1>2, <1>3, <1>4, <1>5, <1>6, <1>7, <1>8, <1>9 DEF WsInv

-----------------------------------------------------------------------------
(* The theorems *)

\* Every step keeps the invariant.
LEMMA WsStep ==
  ASSUME WsInv, [Next]_vars
  PROVE  WsInv'
<1>1. CASE ANext
  BY <1>1, AcceptStep, RefuseStep, HandshakeStep, AddConnectionStep, AcceptExitStep DEF ANext
<1>2. CASE BNext
  BY <1>2, PollStep, ReadStep, HandleFrameStep, DecodeEndsStep, RemoveListedStep, CloseListedStep,
     SnapshotSubscriptionsStep, BroadcastKeyStep, WriteStep, RemoveDeadStep, BroadcastExitStep DEF BNext
<1>3. CASE MainNext
  BY <1>3, StopBeginStep, StopCloseAllStep DEF MainNext
<1>4. CASE \E c \in Clients : Ask(c) \/ Leave(c) \/ Drain(c) \/ \E m \in Frame : Send(c, m)
  BY <1>4, AskStep, LeaveStep, DrainStep, SendStep
<1>5. CASE \E k \in Keys : PushBatch(k)
  BY <1>5, PushBatchStep
<1>6. CASE UNCHANGED vars
  BY <1>6, StutterStep
<1> QED  BY <1>1, <1>2, <1>3, <1>4, <1>5, <1>6 DEF Next

\* The manager starts with empty tables.
LEMMA WsInit ==
  ASSUME Init
  PROVE  WsInv
<1>0. None \notin Fd /\ 0 \notin Clients /\ Len(<<>>) = 0 /\ MaxKeep \in Nat
  BY WebSocketAssumption DEF Fd, Clients
<1>1. Types
  <2>1. Idle \in [key : Keys, batch : 0..MaxPush, to : SUBSET Fd, dead : SUBSET Fd]
    <3>1. 1 \in Keys /\ 0 \in 0..MaxPush
      BY WebSocketAssumption DEF Keys
    <3> QED  BY <3>1 DEF Idle
  <2>2. out = Idle
    BY DEF Init
  <2>3. /\ running \in BOOLEAN /\ listening \in BOOLEAN /\ twice \in BOOLEAN
        /\ apc = "accept" /\ afd = None /\ bpc = "send" /\ cur = None /\ main = "run"
        /\ full \subseteq Clients
    BY Zenon DEF Init
  <2>6. toRemove \in Seq(Fd)
    <3>1. toRemove = <<>>
      BY DEF Init
    <3> QED  BY <3>1
  <2>4. /\ fds \in [Fd -> Clients \cup {0}] /\ conns \in [Fd -> ConnInfo \cup {None}]
        /\ subs \in [Keys -> SUBSET Fd] /\ buffers \in [Keys -> Seq(1..MaxPush)]
    BY DEF Init
  <2>5. /\ peer \in [Clients -> {"out", "waiting", "asked", "bad", "open", "gone"}]
        /\ want \in [Clients -> Keys \cup {None}] /\ sent \in [Clients -> Seq(Frame)]
    BY DEF Init
  <2> QED  BY <2>1, <2>2, <2>3, <2>4, <2>5, <2>6 DEF Types
<1>2. Kept
  BY <1>0 DEF Init, Kept
<1>3. Accepting
  BY DEF Init, Accepting
<1>4. Owned
  BY DEF Init, Owned
<1>5. Streams
  BY <1>0 DEF Init, Streams
<1>6. Incoming
  BY <1>0 DEF Init, Incoming, Distinct
<1>7. Serving
  BY DEF Init, Serving
<1>8. IndexesAgree
  BY DEF Init, IndexesAgree
<1>9. NoLeak
  BY <1>0 DEF Init, NoLeak
<1> QED  BY <1>1, <1>2, <1>3, <1>4, <1>5, <1>6, <1>7, <1>8, <1>9 DEF WsInv

\* The invariant of the manager, its threads, the kernel and the peers.
THEOREM WebSocketInvariant == Spec => []WsInv
<1>1. Init => WsInv
  BY WsInit
<1>2. WsInv /\ [Next]_vars => WsInv'
  BY WsStep
<1> QED  BY <1>1, <1>2, PTL DEF Spec

\* The tables of the manager and the descriptors of the process agree, whatever the
\* peers send: connections_ and subscriptions_ index the same connections, each entry
\* still denotes the socket that was registered, no socket is forgotten, and none is
\* open after Stop.  What is listed for removal or with the accept thread denotes what
\* it did as well, as long as no descriptor has been listed twice.
THEOREM TablesAgree == Spec => []TablesSound
<1>1. WsInv => TablesSound
  <2> SUFFICES ASSUME WsInv PROVE TablesSound
    OBVIOUS
  <2>1. \A f \in Fd : conns[f] = None \/ conns[f] \in ConnInfo
    BY DEF WsInv, Types
  <2>2. TypeOK
    BY <2>1 DEF WsInv, Types, Kept, TypeOK
  <2>3. OwnDescriptors
    <3>1. ~twice => IsInjective(toRemove)
      <4>1. DOMAIN toRemove = 1..Len(toRemove)
        BY DEF WsInv, Types
      <4> QED  BY <4>1 DEF WsInv, Incoming, Distinct, IsInjective
    <3>2. bpc = "write" => \A f \in out.to \cup out.dead : conns[f] # None /\ conns[f].key = out.key
      <4> SUFFICES ASSUME bpc = "write", NEW f \in out.to \cup out.dead
                   PROVE  conns[f] # None /\ conns[f].key = out.key
        OBVIOUS
      <4>1. out.key \in Keys /\ f \in Fd
        BY DEF WsInv, Types
      <4>2. f \in subs[out.key]
        BY DEF WsInv, Serving
      <4> QED  BY <4>1, <4>2 DEF WsInv, IndexesAgree
    <3> QED  BY <3>1, <3>2 DEF WsInv, Accepting, Owned, Incoming, Distinct, OwnDescriptors
  <2> QED  BY <2>2, <2>3 DEF WsInv, TablesSound
<1> QED  BY <1>1, WebSocketInvariant, PTL

\* At every point at which reads cut a stream, DecodeFrame answers exactly when the
\* first frame is complete, with what the peer encoded, and consumes its bytes only.
THEOREM DecoderKeepsStep == Spec => []FramesInStep
<1>1. WsInv => FramesInStep
  <2> SUFFICES ASSUME WsInv, NEW f \in Fd, conns[f] # None, sent[conns[f].who] # <<>>
               PROVE  LET m == Head(sent[conns[f].who])
                          d == DecodeFrame(PeerHeader(m), conns[f].bytes)
                      IN IF conns[f].bytes < SizeOf(m) THEN d = None
                         ELSE d = [op |-> m.op, payload |-> m.len, consumed |-> SizeOf(m)]
    BY DEF FramesInStep
  <2>1. conns[f].who \in Clients /\ conns[f].bytes \in Nat
    BY DEF WsInv, Types, ConnInfo
  <2>2. PICK s \in Seq(Frame) : s = sent[conns[f].who] /\ s # <<>>
    BY <2>1 DEF WsInv, Types
  <2>3. PICK m \in Frame : m = Head(s)
    BY <2>2
  <2>4. PICK n \in Nat : n = conns[f].bytes
    BY <2>1
  <2>5. DecodeFrame(PeerHeader(m), n) = Answer(m, n)
    BY Decodes
  <2> QED  BY <2>2, <2>3, <2>4, <2>5 DEF Answer
<1> QED  BY <1>1, WebSocketInvariant, PTL
=============================================================================
