-------------------------- MODULE Profiling_proofs --------------------------
(***************************************************************************)
(* Proofs about Profiling for every finite set of processes and of CPUs,   *)
(* every way of grouping stacks, every whitelist, every size of the map,   *)
(* the ring buffer and the queue, and every life time of the symbolizer's  *)
(* cache.                                                                  *)
(*                                                                         *)
(* A sum is the number of its units, so that sums are compared by          *)
(* bijections between sets of units.  The lemma the rest follows from is   *)
(* SumPartition: a sum may be taken group by group, which is what          *)
(* stack_merger and the stack window do to the counts of a batch.          *)
(***************************************************************************)
EXTENDS Profiling, FiniteSetTheorems, TLAPS

-----------------------------------------------------------------------------
(* Sums over finite sets *)

\* f is a number on each element of the finite set S.
Summable(f, S) == IsFiniteSet(S) /\ \A x \in S : f[x] \in Nat

\* The units of one element.
LEMMA OneElement ==
  ASSUME NEW x, NEW n \in Nat
  PROVE  IsFiniteSet({x} \X (1..n)) /\ Cardinality({x} \X (1..n)) = n
<1>1. IsFiniteSet({x}) /\ Cardinality({x}) = 1
  BY FS_Singleton
<1>2. IsFiniteSet(1..n) /\ Cardinality(1..n) = n
  BY FS_Interval
<1>3. /\ IsFiniteSet({x} \X (1..n))
      /\ Cardinality({x} \X (1..n)) = Cardinality({x}) * Cardinality(1..n)
  BY <1>1, <1>2, FS_Product
<1> QED  BY <1>1, <1>2, <1>3

\* A sum is a number.
LEMMA SumType ==
  ASSUME NEW f, NEW S, Summable(f, S)
  PROVE  IsFiniteSet(Units(f, S)) /\ SumOver(f, S) \in Nat
<1> DEFINE h == [x \in S |-> {x} \X (1..f[x])]
           H == {{x} \X (1..f[x]) : x \in S}
<1>1. h \in Surjection(S, H)
  BY DEF Surjection
<1>2. IsFiniteSet(H)
  BY <1>1, FS_Surjection DEF Summable
<1>3. ASSUME NEW X \in H PROVE IsFiniteSet(X)
  <2>1. PICK x \in S : X = {x} \X (1..f[x])
    OBVIOUS
  <2>2. f[x] \in Nat
    BY DEF Summable
  <2> QED  BY <2>1, <2>2, OneElement
<1>4. IsFiniteSet(UNION H)
  <2> HIDE DEF H
  <2> QED  BY <1>2, <1>3, FS_UNION
<1>5. IsFiniteSet(Units(f, S))
  BY <1>4 DEF Units
<1> QED  BY <1>5, FS_CardinalityType DEF SumOver

\* It depends on the values in S only, and the empty one is 0.
LEMMA SumSame ==
  ASSUME NEW f, NEW g, NEW S, \A x \in S : f[x] = g[x]
  PROVE  SumOver(f, S) = SumOver(g, S)
<1>1. Units(f, S) = Units(g, S)
  BY DEF Units
<1> QED  BY <1>1 DEF SumOver

LEMMA SumEmpty == \A f : SumOver(f, {}) = 0
<1>1. \A f : Units(f, {}) = {}
  BY DEF Units
<1> QED  BY <1>1, FS_EmptySet DEF SumOver

LEMMA SumOne ==
  ASSUME NEW f, NEW x, f[x] \in Nat
  PROVE  SumOver(f, {x}) = f[x]
<1>1. Units(f, {x}) = {x} \X (1..f[x])
  BY DEF Units
<1> QED  BY <1>1, OneElement DEF SumOver

\* The sums over two parts add up.
LEMMA SumUnion ==
  ASSUME NEW f, NEW S, NEW T, Summable(f, S), Summable(f, T), S \cap T = {}
  PROVE  Summable(f, S \cup T) /\ SumOver(f, S \cup T) = SumOver(f, S) + SumOver(f, T)
<1>1. Summable(f, S \cup T)
  BY FS_Union DEF Summable
<1>2. PICK U, V : U = Units(f, S) /\ V = Units(f, T)
  OBVIOUS
<1>3. IsFiniteSet(U) /\ IsFiniteSet(V)
  BY <1>2, SumType
<1>4. Units(f, S \cup T) = U \cup V /\ U \cap V = {}
  BY <1>2 DEF Units
<1>5. Cardinality(U \cup V) = Cardinality(U) + Cardinality(V) - Cardinality(U \cap V)
  BY <1>3, FS_Union
<1>6. Cardinality(U \cap V) = 0
  BY <1>4, FS_EmptySet
<1>7. PICK u \in Nat, v \in Nat : u = Cardinality(U) /\ v = Cardinality(V)
  BY <1>3, FS_CardinalityType
<1>8. Cardinality(U \cup V) = u + v
  BY <1>5, <1>6, <1>7
<1>9. SumOver(f, S) = u /\ SumOver(f, T) = v /\ SumOver(f, S \cup T) = u + v
  BY <1>2, <1>4, <1>7, <1>8 DEF SumOver
<1> QED  BY <1>1, <1>9

\* A sum may be taken group by group: the group of an element s is h[s].
Group(S, h, t) == {s \in S : h[s] = t}

LEMMA SumPartition ==
  ASSUME NEW S, NEW T, NEW f, NEW F, NEW h \in [S -> T], Summable(f, S),
         \A t \in T : F[t] = SumOver(f, Group(S, h, t))
  PROVE  SumOver(F, T) = SumOver(f, S)
<1>1. ASSUME NEW t \in T
      PROVE  /\ F[t] \in Nat
             /\ Bijection(1..F[t], Units(f, Group(S, h, t))) # {}
  <2>1. Summable(f, Group(S, h, t))
    BY FS_Subset DEF Summable, Group
  <2>2. IsFiniteSet(Units(f, Group(S, h, t)))
    BY <2>1, SumType
  <2>3. F[t] = Cardinality(Units(f, Group(S, h, t)))
    BY DEF SumOver
  <2> QED  BY <2>2, <2>3, FS_CardinalityType DEF ExistsBijection
<1> DEFINE B == [t \in T |-> CHOOSE b : b \in Bijection(1..F[t], Units(f, Group(S, h, t)))]
<1>2. ASSUME NEW t \in T
      PROVE  B[t] \in Bijection(1..F[t], Units(f, Group(S, h, t)))
  BY <1>1
<1> HIDE DEF B
<1>3. ASSUME NEW t \in T, NEW n \in 1..F[t]
      PROVE  /\ B[t][n] \in Units(f, S) /\ h[B[t][n][1]] = t
             /\ \A m \in 1..F[t] : B[t][m] = B[t][n] => m = n
  <2>1. B[t] \in Bijection(1..F[t], Units(f, Group(S, h, t)))
    BY <1>2
  <2>2. /\ B[t][n] \in Units(f, Group(S, h, t))
        /\ \A m \in 1..F[t] : B[t][m] = B[t][n] => m = n
    <3>1. PICK b, N : b = B[t] /\ N = 1..F[t]
      OBVIOUS
    <3>2. /\ b \in [N -> Units(f, Group(S, h, t))]
          /\ \A m, l \in N : b[m] = b[l] => m = l
      BY <2>1, <3>1, Zenon DEF Bijection, Injection, IsInjective
    <3>3. n \in N
      BY <3>1
    <3> QED  BY <3>1, <3>2, <3>3, Zenon
  <2>3. PICK s \in Group(S, h, t), i \in Nat : i \in 1..f[s] /\ B[t][n] = <<s, i>>
    BY <2>2 DEF Units
  <2>4. s \in S /\ h[s] = t
    BY DEF Group
  <2>5. B[t][n] \in Units(f, S)
    BY <2>3, <2>4 DEF Units
  <2> QED  BY <2>2, <2>3, <2>4, <2>5
<1>4. ASSUME NEW u \in Units(F, T)
      PROVE  \E t \in T : \E n \in 1..F[t] : u = <<t, n>>
  BY DEF Units
<1>5. ASSUME NEW t \in T, NEW n \in 1..F[t]
      PROVE  <<t, n>> \in Units(F, T)
  BY DEF Units
<1> DEFINE g == [u \in Units(F, T) |-> B[u[1]][u[2]]]
<1>6. \A t \in T : \A n \in 1..F[t] : g[<<t, n>>] = B[t][n]
  BY <1>5
<1>7. g \in [Units(F, T) -> Units(f, S)]
  BY <1>3, <1>4
<1> HIDE DEF g
<1>8. ASSUME NEW u \in Units(F, T), NEW v \in Units(F, T), g[u] = g[v]
      PROVE  u = v
  <2>1. PICK t \in T, n \in Nat : n \in 1..F[t] /\ u = <<t, n>>
    BY <1>4
  <2>2. PICK r \in T, m \in Nat : m \in 1..F[r] /\ v = <<r, m>>
    BY <1>4
  <2>3. B[t][n] = B[r][m]
    BY <1>6, <1>8, <2>1, <2>2
  <2>4. t = r
    <3>1. h[B[t][n][1]] = t /\ h[B[r][m][1]] = r
      BY <1>3, <2>1, <2>2
    <3> QED  BY <2>3, <3>1
  <2>5. n = m
    BY <2>1, <2>2, <2>3, <2>4, <1>3
  <2> QED  BY <2>1, <2>2, <2>4, <2>5
<1>9. ASSUME NEW x \in Units(f, S)
      PROVE  \E u \in Units(F, T) : g[u] = x
  <2>1. PICK s \in S, i \in Nat : i \in 1..f[s] /\ x = <<s, i>>
    BY DEF Units
  <2>2. PICK t \in T : t = h[s]
    OBVIOUS
  <2>3. x \in Units(f, Group(S, h, t))
    BY <2>1, <2>2 DEF Units, Group
  <2>4. PICK n \in 1..F[t] : B[t][n] = x
    BY <2>3, <1>2 DEF Bijection, Surjection
  <2> QED  BY <2>4, <1>5, <1>6
<1>10. g \in Injection(Units(F, T), Units(f, S)) /\ g \in Bijection(Units(F, T), Units(f, S))
  <2>1. DOMAIN g = Units(F, T)
    BY <1>7
  <2>2. IsInjective(g)
    BY <1>8, <2>1, Zenon DEF IsInjective
  <2> QED  BY <1>7, <1>9, <2>2, Zenon DEF Bijection, Injection, Surjection
<1>11. IsFiniteSet(Units(f, S))
  BY SumType
<1>12. IsFiniteSet(Units(F, T))
  BY <1>10, <1>11, FS_Injection, Zenon
<1>13. Cardinality(Units(f, S)) = Cardinality(Units(F, T))
  BY <1>10, <1>12, FS_Bijection DEF ExistsBijection
<1> QED  BY <1>13 DEF SumOver

\* A sum does not depend on what the elements are called.
LEMMA SumReindex ==
  ASSUME NEW S, NEW T, NEW f, NEW F, NEW h \in [S -> T], Summable(f, S),
         \A t \in T : \E s \in S : Group(S, h, t) = {s} /\ F[t] = f[s]
  PROVE  SumOver(F, T) = SumOver(f, S)
<1>1. ASSUME NEW t \in T PROVE F[t] = SumOver(f, Group(S, h, t))
  <2>1. PICK s \in S : Group(S, h, t) = {s} /\ F[t] = f[s]
    OBVIOUS
  <2>2. f[s] \in Nat
    BY DEF Summable
  <2> QED  BY <2>1, <2>2, SumOne
<1> QED  BY <1>1, SumPartition

\* Sums are added element by element.
LEMMA SumAdd ==
  ASSUME NEW S, NEW f, NEW g, NEW F, Summable(f, S), Summable(g, S),
         \A x \in S : F[x] = f[x] + g[x]
  PROVE  SumOver(F, S) = SumOver(f, S) + SumOver(g, S)
<1> DEFINE S1 == S \X {1}
           S2 == S \X {2}
           p == [u \in S1 \cup S2 |-> IF u[2] = 1 THEN f[u[1]] ELSE g[u[1]]]
           h1 == [u \in S1 |-> u[1]]
           h2 == [u \in S2 |-> u[1]]
           h == [u \in S1 \cup S2 |-> u[1]]
<1>1. \A x \in S : /\ p[<<x, 1>>] = f[x] /\ p[<<x, 2>>] = g[x]
                   /\ f[x] \in Nat /\ g[x] \in Nat
  BY DEF Summable
<1>2. Summable(p, S1) /\ Summable(p, S2) /\ S1 \cap S2 = {}
  <2>1. IsFiniteSet(S) /\ IsFiniteSet({1}) /\ IsFiniteSet({2})
    BY FS_Singleton DEF Summable
  <2>2. IsFiniteSet(S1) /\ IsFiniteSet(S2)
    BY <2>1, FS_Product
  <2>3. \A u \in S1 \cup S2 : p[u] \in Nat
    BY <1>1
  <2>4. S1 \cap S2 = {}
    OBVIOUS
  <2> QED  BY <2>2, <2>3, <2>4 DEF Summable
<1>3. SumOver(f, S) = SumOver(p, S1)
  <2>1. h1 \in [S1 -> S]
    OBVIOUS
  <2>2. ASSUME NEW x \in S
        PROVE  \E u \in S1 : Group(S1, h1, x) = {u} /\ f[x] = p[u]
    <3>1. Group(S1, h1, x) = {<<x, 1>>}
      BY DEF Group
    <3> QED  BY <3>1, <1>1
  <2> HIDE DEF S1, S2, p, h1
  <2> QED  BY <2>1, <2>2, <1>2, SumReindex
<1>4. SumOver(g, S) = SumOver(p, S2)
  <2>1. h2 \in [S2 -> S]
    OBVIOUS
  <2>2. ASSUME NEW x \in S
        PROVE  \E u \in S2 : Group(S2, h2, x) = {u} /\ g[x] = p[u]
    <3>1. Group(S2, h2, x) = {<<x, 2>>}
      BY DEF Group
    <3> QED  BY <3>1, <1>1
  <2> HIDE DEF S1, S2, p, h2
  <2> QED  BY <2>1, <2>2, <1>2, SumReindex
<1>5. /\ Summable(p, S1 \cup S2)
      /\ SumOver(p, S1 \cup S2) = SumOver(p, S1) + SumOver(p, S2)
  <2> HIDE DEF S1, S2, p
  <2> QED  BY <1>2, SumUnion
<1>6. ASSUME NEW x \in S PROVE F[x] = SumOver(p, Group(S1 \cup S2, h, x))
  <2>1. PICK a, b : a = <<x, 1>> /\ b = <<x, 2>>
    OBVIOUS
  <2>2. Group(S1 \cup S2, h, x) = {a} \cup {b} /\ a # b
    BY <2>1 DEF Group
  <2>3. p[a] = f[x] /\ p[b] = g[x] /\ f[x] \in Nat /\ g[x] \in Nat
    BY <1>1, <2>1
  <2> HIDE DEF S1, S2, p, h
  <2>4. Summable(p, {a}) /\ Summable(p, {b})
    BY <2>3, FS_Singleton DEF Summable
  <2>5. SumOver(p, {a} \cup {b}) = SumOver(p, {a}) + SumOver(p, {b})
    BY <2>2, <2>4, SumUnion
  <2>6. SumOver(p, {a}) = f[x] /\ SumOver(p, {b}) = g[x]
    BY <2>3, SumOne
  <2> QED  BY <2>2, <2>5, <2>6
<1>7. SumOver(F, S) = SumOver(p, S1 \cup S2)
  <2>1. h \in [S1 \cup S2 -> S]
    OBVIOUS
  <2> HIDE DEF S1, S2, p, h
  <2>2. PICK U : U = S1 \cup S2
    OBVIOUS
  <2>3. /\ h \in [U -> S] /\ Summable(p, U)
        /\ \A x \in S : F[x] = SumOver(p, Group(U, h, x))
    BY <2>1, <2>2, <1>5, <1>6
  <2>4. SumOver(F, S) = SumOver(p, U)
    BY <2>3, SumPartition
  <2> QED  BY <2>2, <2>4
<1> QED  BY <1>3, <1>4, <1>5, <1>7

\* One element more behind the others, one less before them.
LEMMA SumAppend ==
  ASSUME NEW f, NEW g, NEW n \in Nat, \A i \in 1..n : f[i] \in Nat /\ g[i] = f[i],
         g[n + 1] \in Nat
  PROVE  SumOver(g, 1..(n + 1)) = SumOver(f, 1..n) + g[n + 1]
<1>1. 1..(n + 1) = (1..n) \cup {n + 1} /\ (1..n) \cap {n + 1} = {}
  OBVIOUS
<1>2. PICK I, J : I = 1..n /\ J = {n + 1}
  OBVIOUS
<1>3. Summable(g, I) /\ Summable(g, J)
  <2>1. IsFiniteSet(1..n)
    BY FS_Interval
  <2>2. IsFiniteSet({n + 1})
    BY FS_Singleton
  <2> QED  BY <1>2, <2>1, <2>2 DEF Summable
<1>4. SumOver(g, I \cup J) = SumOver(g, I) + SumOver(g, J)
  BY <1>1, <1>2, <1>3, SumUnion
<1>5. SumOver(g, I) = SumOver(f, I)
  BY <1>2, SumSame
<1>6. SumOver(g, J) = g[n + 1]
  BY <1>2, SumOne
<1> QED  BY <1>1, <1>2, <1>4, <1>5, <1>6

LEMMA SumTail ==
  ASSUME NEW f, NEW g, NEW n \in Nat, n # 0, \A i \in 1..n : f[i] \in Nat,
         \A i \in 1..(n - 1) : g[i] = f[i + 1]
  PROVE  SumOver(f, 1..n) = f[1] + SumOver(g, 1..(n - 1))
<1>1. PICK I, J : I = {1} /\ J = 2..n
  OBVIOUS
<1>2. 1..n = I \cup J /\ I \cap J = {}
  BY <1>1
<1>3. Summable(f, I) /\ Summable(f, J)
  <2>1. IsFiniteSet({1})
    BY FS_Singleton
  <2>2. IsFiniteSet(2..n)
    BY FS_Interval
  <2> QED  BY <1>1, <2>1, <2>2 DEF Summable
<1>4. SumOver(f, I \cup J) = SumOver(f, I) + SumOver(f, J)
  BY <1>2, <1>3, SumUnion
<1>5. SumOver(f, I) = f[1]
  <2>1. f[1] \in Nat
    OBVIOUS
  <2> QED  BY <1>1, <2>1, SumOne
<1> DEFINE h == [i \in 2..n |-> i - 1]
<1>6. PICK K : K = 1..(n - 1)
  OBVIOUS
<1>7. h \in [J -> K]
  BY <1>1, <1>6
<1>8. ASSUME NEW t \in K
      PROVE  \E s \in J : Group(J, h, t) = {s} /\ g[t] = f[s]
  <2>1. t + 1 \in J /\ Group(J, h, t) = {t + 1} /\ g[t] = f[t + 1]
    BY <1>1, <1>6 DEF Group
  <2> QED  BY <2>1
<1>9. SumOver(g, K) = SumOver(f, J)
  <2> HIDE DEF h
  <2> QED  BY <1>3, <1>7, <1>8, SumReindex
<1> QED  BY <1>2, <1>4, <1>5, <1>6, <1>9

-----------------------------------------------------------------------------
(* The inductive invariant *)

\* The samples of a batch.
Rec == [pid : Pids, count : Nat, name : 0 .. 2]

\* Once events may be enabled the kernel has the flags and the whitelist.
FiltersSet == src = "opening" \/ on # {} => flags.filter = (targets # {}) /\ flags.pids = targets

\* With a whitelist only its processes are on their way to the window.
Ours(b) == \A i \in DOMAIN b : b[i].pid \in targets
OursInKernel ==
  /\ \A p \in Pids : p \notin targets => counts[p] = 0
  /\ \A c \in Cpus : cpu[c] # None => cpu[c] \in targets
  /\ \A i \in DOMAIN ring : ring[i] \in targets
OursInWork ==
  /\ keys \subseteq targets
  /\ \A w \in Workers : Ours(batch[w])
  /\ \A i \in DOMAIN queue : Ours(queue[i])
  /\ \A p \in Pids : p \notin targets => window[p].count = 0
OnlyOurs == targets # {} => OursInKernel /\ OursInWork

\* Until a stack has an entry all its samples are between look-up and insert, or the
\* map is full; the first insert leaves fewer than there are CPUs behind.
Waiting(p) == {c \in Cpus : cpu[c] = p}
Entries == {q \in Pids : counts[q] > 0}
SampleLost(p) ==
  /\ counts[p] + Cardinality(Waiting(p)) <= taken[p]
  /\ counts[p] > 0 => taken[p] - counts[p] < Cardinality(Cpus)
  /\ counts[p] = 0 => taken[p] = Cardinality(Waiting(p)) \/ Cardinality(Entries) >= MaxEntries
Lost == \A p \in Pids : SampleLost(p)

\* A process left the layout of its cache entry after the entry was loaded.
StaleSince == \A p \in Pids : cache[p].stale <= cache[p].age

\* The process thread waits with empty hands.
EmptyHands == pc["loop"] = "idle" => batch["loop"] = <<>>

ProfileInv ==
  TypeOK /\ FiltersSet /\ OnlyOurs /\ Lost /\ Conserved /\ EmptyHands /\ StaleSince

-----------------------------------------------------------------------------
(* Types *)

\* The counts of a batch add up to a number.
LEMMA TotalType ==
  ASSUME NEW b \in Seq(Rec)
  PROVE  Summable(CountsOf(b), DOMAIN b) /\ Total(b) \in Nat
<1>1. DOMAIN b = 1..Len(b) /\ Len(b) \in Nat
  OBVIOUS
<1>2. IsFiniteSet(DOMAIN b)
  BY <1>1, FS_Interval
<1>3. ASSUME NEW i \in DOMAIN b PROVE CountsOf(b)[i] \in Nat
  <2>1. b[i] \in Rec
    OBVIOUS
  <2>2. CountsOf(b)[i] = b[i].count
    BY DEF CountsOf
  <2> QED  BY <2>1, <2>2 DEF Rec
<1>4. Summable(CountsOf(b), DOMAIN b)
  BY <1>2, <1>3 DEF Summable
<1> QED  BY <1>4, SumType DEF Total

LEMMA MaxAgeType == MaxAge \in Nat /\ MaxAge > 0 /\ \A a \in 0 .. MaxAge : Older(a) \in 0 .. MaxAge
<1>1. PICK n \in Nat : n = TicksPerSec * (TtlSec + 1)
  BY ProfilingAssumption
<1>2. MaxAge = n + 1
  BY <1>1 DEF MaxAge
<1> QED  BY <1>2 DEF Older

\* Starting and stopping, and the thread of the stream mode.
LEMMA SourceTypes ==
  ASSUME TypeOK, \/ StartLoad \/ ApplyFilterMaps \/ (\E c \in Cpus : OpenPerfEvent(c))
                 \/ StartThread \/ SetCallback \/ StopBegin \/ StopEnd \/ StreamPollExit
  PROVE  TypeOK'
<1>1. UNCHANGED <<cpu, taken, counts, ring, mode, targets, layout, cache, work>>
  BY DEF StartLoad, ApplyFilterMaps, OpenPerfEvent, StartThread, SetCallback, StopBegin,
         StopEnd, StreamPollExit, kernel, source
<1>2. flags' \in [stream : BOOLEAN, filter : BOOLEAN, pids : SUBSET Pids]
  <2>1. targets \in SUBSET Pids /\ flags \in [stream : BOOLEAN, filter : BOOLEAN, pids : SUBSET Pids]
    BY DEF TypeOK
  <2>2. CASE flags' = flags
    BY <2>1, <2>2
  <2>3. CASE flags' = [stream |-> mode = "stream", filter |-> targets # {}, pids |-> targets]
    BY <2>1, <2>3
  <2> QED  BY <2>2, <2>3 DEF StartLoad, ApplyFilterMaps, OpenPerfEvent, StartThread, SetCallback,
                StopBegin, StopEnd, StreamPollExit, kernel
<1>3. /\ src' \in {"off", "loaded", "failed", "opening", "started", "stopping", "stopped"}
      /\ untried' \subseteq Cpus /\ on' \subseteq Cpus
      /\ callback' \in BOOLEAN /\ poll' \in {"none", "run", "exit"}
  BY DEF TypeOK, StartLoad, ApplyFilterMaps, OpenPerfEvent, StartThread, SetCallback, StopBegin,
         StopEnd, StreamPollExit, kernel, source
<1>4. /\ mode' \in {"stream", "aggregated"} /\ targets' \in SUBSET Pids
      /\ cpu' \in [Cpus -> Pids \cup {None}]
      /\ taken' \in [Pids -> Nat] /\ counts' \in [Pids -> Nat] /\ ring' \in Seq(Pids)
  BY <1>1 DEF TypeOK
<1> QED  BY <1>1, <1>2, <1>3, <1>4 DEF TypeOK, work

\* A step of the rest of the program, or of the kernel, changes its own variables.
Untouched == UNCHANGED <<flags, on, source, layout>>

LEMMA RestTypes ==
  ASSUME TypeOK, Untouched,
         cpu' \in [Cpus -> Pids \cup {None}],
         taken' \in [Pids -> Nat], counts' \in [Pids -> Nat], ring' \in Seq(Pids),
         cache' \in [Pids -> [layout : 0 .. 2, age : 0 .. MaxAge, stale : 0 .. MaxAge]],
         keys' \subseteq Pids,
         pc' \in [Workers -> {"idle", "collect", "process", "named"}],
         batch' \in [Workers -> Seq(Rec)], queue' \in Seq(Seq(Rec)),
         window' \in [Pids -> [count : Nat, name : 0 .. 2]], owed' \in Nat
  PROVE  TypeOK'
<1>1. UNCHANGED <<mode, targets, flags, src, untried, on, callback, poll, layout>>
  BY DEF Untouched, source
<1>2. /\ mode' \in {"stream", "aggregated"} /\ targets' \in SUBSET Pids
      /\ flags' \in [stream : BOOLEAN, filter : BOOLEAN, pids : SUBSET Pids]
      /\ src' \in {"off", "loaded", "failed", "opening", "started", "stopping", "stopped"}
      /\ untried' \subseteq Cpus /\ on' \subseteq Cpus
      /\ callback' \in BOOLEAN /\ poll' \in {"none", "run", "exit"}
      /\ layout' \in [Pids -> 0 .. 2]
  BY <1>1, Zenon DEF TypeOK
<1> QED  BY <1>2, Zenon DEF TypeOK, Rec, MaxAge

\* What the steps of the pipeline may assume of its variables.
LEMMA WorkTypes ==
  ASSUME TypeOK
  PROVE  /\ cpu \in [Cpus -> Pids \cup {None}]
         /\ taken \in [Pids -> Nat] /\ counts \in [Pids -> Nat] /\ ring \in Seq(Pids)
         /\ cache \in [Pids -> [layout : 0 .. 2, age : 0 .. MaxAge, stale : 0 .. MaxAge]]
         /\ keys \subseteq Pids
         /\ pc \in [Workers -> {"idle", "collect", "process", "named"}]
         /\ batch \in [Workers -> Seq(Rec)] /\ queue \in Seq(Seq(Rec))
         /\ window \in [Pids -> [count : Nat, name : 0 .. 2]] /\ owed \in Nat
         /\ layout \in [Pids -> 0 .. 2]
BY Zenon DEF TypeOK, Rec

LEMMA WorkersTwo == "pool" \in Workers /\ "loop" \in Workers
BY DEF Workers

\* The probe.
LEMMA SubmitType ==
  ASSUME ring \in Seq(Pids), NEW p \in Pids, Submit(p)
  PROVE  /\ ring' \in Seq(Pids)
         /\ \A i \in DOMAIN ring' : (i \in DOMAIN ring /\ ring'[i] = ring[i]) \/ ring'[i] = p
BY DEF Submit

LEMMA SampleTypes ==
  ASSUME TypeOK, NEW c \in Cpus, NEW p \in Pids, TakeSample(c, p)
  PROVE  TypeOK'
<1>1. Untouched /\ UNCHANGED <<cache, work>>
  BY DEF TakeSample, Untouched
<1>2. taken' \in [Pids -> Nat]
  BY WorkTypes DEF TakeSample
<1>3. counts' \in [Pids -> Nat]
  <2>1. counts' = counts \/ counts' = [counts EXCEPT ![p] = @ + 1]
    BY DEF TakeSample, SampleHit, SampleMiss
  <2>2. counts \in [Pids -> Nat]
    BY WorkTypes
  <2>3. CASE counts' = [counts EXCEPT ![p] = @ + 1]
    BY <2>2, <2>3
  <2> QED  BY <2>1, <2>2, <2>3
<1>4. cpu' \in [Cpus -> Pids \cup {None}]
  BY WorkTypes DEF TakeSample, SampleHit, SampleMiss
<1>5. ring' \in Seq(Pids)
  BY WorkTypes, SubmitType DEF TakeSample, SampleHit, SampleMiss
<1> QED  BY <1>1, <1>2, <1>3, <1>4, <1>5, RestTypes, WorkTypes DEF work

LEMMA InsertTypes ==
  ASSUME TypeOK, NEW c \in Cpus, Insert(c)
  PROVE  TypeOK'
<1>1. Untouched /\ UNCHANGED <<taken, cache, work>>
  BY DEF Insert, Untouched
<1>2. PICK p \in Pids : p = cpu[c]
  BY WorkTypes DEF Insert
<1>3. counts' = [counts EXCEPT ![p] = Inserted(p)] /\ Submit(p) /\ cpu' = [cpu EXCEPT ![c] = None]
  BY <1>2 DEF Insert
<1>4. Inserted(p) \in Nat
  BY WorkTypes DEF Inserted
<1>5. counts' \in [Pids -> Nat]
  BY <1>3, <1>4, WorkTypes
<1>6. cpu' \in [Cpus -> Pids \cup {None}] /\ ring' \in Seq(Pids)
  BY <1>3, WorkTypes, SubmitType
<1> QED  BY <1>1, <1>5, <1>6, RestTypes, WorkTypes DEF work

\* A batch joins the queue.
LEMMA EnqueueTypes ==
  ASSUME TypeOK, NEW b \in Seq(Rec), Enqueue(b)
  PROVE  queue' \in Seq(Seq(Rec)) /\ owed' \in Nat
BY WorkTypes, TotalType DEF Enqueue

LEMMA SampleType ==
  ASSUME NEW p \in Pids, NEW n \in Nat
  PROVE  Sample(p, n) \in Rec /\ <<Sample(p, n)>> \in Seq(Rec)
<1>1. Sample(p, n) \in Rec
  BY DEF Sample, Rec
<1> QED  BY <1>1

LEMMA StreamTypes ==
  ASSUME TypeOK, HandleStreamEvent
  PROVE  TypeOK'
<1>1. Untouched /\ UNCHANGED <<cpu, taken, counts, cache, keys, pc, batch, window>>
  BY DEF HandleStreamEvent, Untouched
<1>2. ring # <<>> /\ ring' = Tail(ring) /\ ring \in Seq(Pids)
  BY WorkTypes DEF HandleStreamEvent
<1>3. ring' \in Seq(Pids) /\ Head(ring) \in Pids
  BY <1>2
<1>4. queue' \in Seq(Seq(Rec)) /\ owed' \in Nat
  <2>1. CASE callback
    <3>1. Enqueue(<<Sample(Head(ring), 1)>>)
      BY <2>1 DEF HandleStreamEvent
    <3>2. <<Sample(Head(ring), 1)>> \in Seq(Rec)
      BY <1>3, SampleType
    <3> QED  BY <3>1, <3>2, EnqueueTypes
  <2>2. CASE ~callback
    <3>1. queue' = queue /\ owed' = owed
      BY <2>2 DEF HandleStreamEvent
    <3> QED  BY <3>1, WorkTypes
  <2> QED  BY <2>1, <2>2
<1> QED  BY <1>1, <1>3, <1>4, RestTypes, WorkTypes

LEMMA CollectTypes ==
  ASSUME TypeOK, CollectBegin \/ (\E p \in Pids : CollectLookup(p)) \/ CollectEnqueue
  PROVE  TypeOK'
<1>1. Untouched /\ UNCHANGED <<cpu, taken, counts, ring, cache, window>>
  BY DEF CollectBegin, CollectLookup, CollectEnqueue, Untouched, kernel, source
<1>2. keys' \subseteq Pids
  BY WorkTypes DEF CollectBegin, CollectLookup, CollectEnqueue
<1>3. pc' \in [Workers -> {"idle", "collect", "process", "named"}]
  BY WorkTypes, WorkersTwo DEF CollectBegin, CollectLookup, CollectEnqueue
<1>4. batch' \in [Workers -> Seq(Rec)]
  <2>1. batch \in [Workers -> Seq(Rec)] /\ <<>> \in Seq(Rec)
    BY WorkTypes
  <2>2. ASSUME NEW p \in Pids, CollectLookup(p) PROVE batch' \in [Workers -> Seq(Rec)]
    <3>1. Sample(p, counts[p]) \in Rec
      BY WorkTypes, SampleType
    <3>2. PICK b \in Seq(Rec) : b = Append(batch["pool"], Sample(p, counts[p]))
      <4>1. batch["pool"] \in Seq(Rec)
        BY <2>1, WorkersTwo
      <4>2. Append(batch["pool"], Sample(p, counts[p])) \in Seq(Rec)
        BY <3>1, <4>1
      <4> QED  BY <4>2, Zenon
    <3>3. batch' = [batch EXCEPT !["pool"] = b]
      BY <2>2, <3>2 DEF CollectLookup
    <3> QED  BY <2>1, <3>3
  <2> QED  BY <2>1, <2>2 DEF CollectBegin, CollectEnqueue
<1>5. queue' \in Seq(Seq(Rec)) /\ owed' \in Nat
  <2>1. batch["pool"] \in Seq(Rec)
    BY WorkTypes, WorkersTwo
  <2>2. (queue' = queue /\ owed' = owed) \/ Enqueue(batch["pool"])
    BY DEF CollectBegin, CollectLookup, CollectEnqueue
  <2> QED  BY <2>1, <2>2, EnqueueTypes, WorkTypes
<1> QED  BY <1>1, <1>2, <1>3, <1>4, <1>5, RestTypes, WorkTypes

\* The symbolizer.
LEMMA CacheTypes ==
  ASSUME TypeOK, NEW P
  PROVE  CacheAfter(P) \in [Pids -> [layout : 0 .. 2, age : 0 .. MaxAge, stale : 0 .. MaxAge]]
<1> DEFINE E == [layout : 0 .. 2, age : 0 .. MaxAge, stale : 0 .. MaxAge]
           kept == PurgeExpiredMapsCaches(cache)
<1>1. NoEntry \in E /\ \A p \in Pids : LoadMaps(p) \in E /\ cache[p] \in E
  BY WorkTypes, MaxAgeType DEF NoEntry, LoadMaps
<1>2. \A p \in Pids : kept[p] \in E
  BY <1>1, Zenon DEF PurgeExpiredMapsCaches
<1>3. \A p \in Pids : ResolveUser(kept, p) \in E
  BY <1>1, <1>2, Zenon DEF ResolveUser
<1>4. \A p \in Pids : (IF p \in P THEN ResolveUser(kept, p) ELSE kept[p]) \in E
  BY <1>2, <1>3, Zenon
<1>5. CacheAfter(P) = [p \in Pids |-> IF p \in P THEN ResolveUser(kept, p) ELSE kept[p]]
  BY Zenon DEF CacheAfter
<1> HIDE DEF E, kept
<1>6. CacheAfter(P) \in [Pids -> E]
  BY <1>4, <1>5, Zenon
<1> QED  BY <1>6 DEF E

\* The batch gets its names, and nothing else changes in it.
LEMMA NamesOnly ==
  ASSUME TypeOK, Symbolize
  PROVE  /\ batch' \in [Workers -> Seq(Rec)]
         /\ batch'["pool"] = batch["pool"]
         /\ Len(batch'["loop"]) = Len(batch["loop"])
         /\ \A i \in 1..Len(batch["loop"]) :
              /\ batch'["loop"][i].pid = batch["loop"][i].pid
              /\ batch'["loop"][i].count = batch["loop"][i].count
<1>1. PICK b \in Seq(Rec) : b = batch["loop"]
  BY WorkTypes, WorkersTwo
<1>2. cache' \in [Pids -> [layout : 0 .. 2, age : 0 .. MaxAge, stale : 0 .. MaxAge]]
  BY CacheTypes DEF Symbolize
<1>3. PICK n : n = [i \in DOMAIN b |-> [b[i] EXCEPT !.name = cache'[b[i].pid].layout]]
  OBVIOUS
<1>4. batch' = [batch EXCEPT !["loop"] = n]
  BY <1>1, <1>3 DEF Symbolize
<1>5. ASSUME NEW i \in 1..Len(b)
      PROVE  n[i] \in Rec /\ n[i].pid = b[i].pid /\ n[i].count = b[i].count
  <2>1. b[i] \in Rec
    OBVIOUS
  <2>2. b[i].pid \in Pids
    BY <2>1 DEF Rec
  <2>3. cache'[b[i].pid].layout \in 0 .. 2
    BY <1>2, <2>2
  <2>4. n[i] = [b[i] EXCEPT !.name = cache'[b[i].pid].layout]
    BY <1>3
  <2> QED  BY <2>1, <2>3, <2>4 DEF Rec
<1>6. n \in Seq(Rec) /\ Len(n) = Len(b)
  <2>1. Len(b) \in Nat /\ DOMAIN b = 1..Len(b)
    OBVIOUS
  <2>2. n \in [1..Len(b) -> Rec]
    BY <1>3, <1>5, <2>1
  <2> QED  BY <2>1, <2>2
<1>7. batch' \in [Workers -> Seq(Rec)] /\ batch'["loop"] = n /\ batch'["pool"] = batch["pool"]
  BY <1>4, <1>6, WorkTypes, WorkersTwo
<1> QED  BY <1>1, <1>5, <1>6, <1>7

LEMMA SymbolizeTypes ==
  ASSUME TypeOK, Symbolize
  PROVE  TypeOK'
<1>1. Untouched /\ UNCHANGED <<cpu, taken, counts, ring, keys, queue, window, owed>>
  BY DEF Symbolize, Untouched, kernel, source
<1>2. cache' \in [Pids -> [layout : 0 .. 2, age : 0 .. MaxAge, stale : 0 .. MaxAge]]
  BY CacheTypes DEF Symbolize
<1>3. pc' \in [Workers -> {"idle", "collect", "process", "named"}]
  BY WorkTypes, WorkersTwo DEF Symbolize
<1> QED  BY <1>1, <1>2, <1>3, NamesOnly, RestTypes, WorkTypes

LEMMA ApiTypes ==
  ASSUME TypeOK, ApiCollect
  PROVE  TypeOK'
<1>1. Untouched /\ UNCHANGED <<cpu, taken, counts, ring, work>>
  BY DEF ApiCollect, Untouched, kernel, source
<1>2. cache' \in [Pids -> [layout : 0 .. 2, age : 0 .. MaxAge, stale : 0 .. MaxAge]]
  BY CacheTypes DEF ApiCollect
<1> QED  BY <1>1, <1>2, RestTypes, WorkTypes DEF work

\* Time.
LEMMA TickTypes ==
  ASSUME TypeOK, Tick
  PROVE  TypeOK'
<1>1. Untouched /\ UNCHANGED <<cpu, taken, counts, ring, work>>
  BY DEF Tick, Untouched, kernel, source
<1>2. ASSUME NEW p \in Pids
      PROVE  Aged(p) \in [layout : 0 .. 2, age : 0 .. MaxAge, stale : 0 .. MaxAge]
  <2>1. PICK e \in [layout : 0 .. 2, age : 0 .. MaxAge, stale : 0 .. MaxAge] : e = cache[p]
    BY WorkTypes
  <2>2. Older(e.age) \in 0 .. MaxAge /\ Older(e.stale) \in 0 .. MaxAge /\ 0 \in 0 .. MaxAge
    BY MaxAgeType
  <2>3. PICK s \in 0 .. MaxAge : s = IF e.layout = layout[p] THEN 0 ELSE Older(e.stale)
    BY <2>2
  <2>4. Aged(p) = IF e.layout = 0 THEN e
                  ELSE [e EXCEPT !.age = Older(e.age), !.stale = s]
    BY <2>1, <2>3 DEF Aged
  <2> QED  BY <2>2, <2>4
<1>3. cache' \in [Pids -> [layout : 0 .. 2, age : 0 .. MaxAge, stale : 0 .. MaxAge]]
  BY <1>2 DEF Tick
<1> QED  BY <1>1, <1>3, RestTypes, WorkTypes DEF work

LEMMA MoveTypes ==
  ASSUME TypeOK, NEW p \in Movers, Move(p)
  PROVE  TypeOK'
<1>1. UNCHANGED <<kernel, source, cache, work>>
  BY DEF Move
<1>2. layout' \in [Pids -> 0 .. 2]
  <2>1. layout \in [Pids -> 0 .. 2]
    BY WorkTypes
  <2>2. layout' = [layout EXCEPT ![p] = 0] \/ layout' = [layout EXCEPT ![p] = 2]
    BY DEF Move
  <2> QED  BY <2>1, <2>2
<1> QED  BY <1>1, <1>2, Zenon DEF TypeOK, kernel, source, work

-----------------------------------------------------------------------------
(* Merging and the window keep the counts *)

\* A set of numbers has a least one.
LEMMA LeastNumber ==
  ASSUME NEW T \in SUBSET Nat, T # {}
  PROVE  \E x \in T : \A y \in T : x <= y
<1>1. PICK R : R = OpToRel(<, Nat)
  OBVIOUS
<1>2. IsWellFoundedOn(R, Nat)
  BY <1>1, NatLessThanWellFounded, Zenon
<1>3. \A x \in Nat, y \in Nat : x < y => <<x, y>> \in R
  BY <1>1 DEF OpToRel
<1>4. PICK x \in T : \A y \in T : ~(<<y, x>> \in R)
  BY <1>2, WFMin
<1>5. \A y \in T : ~(y < x)
  BY <1>3, <1>4
<1> QED  BY <1>5

\* The first samples of the keys of a batch, and what Merge makes of them.
Firsts(b) == {j \in DOMAIN b : \A h \in 1 .. j - 1 : StackKey(b[h]) # StackKey(b[j])}
Merged(b, i) == [b[i] EXCEPT !.count = SumOver(CountsOf(b), Alike(b, i))]

LEMMA MergeIsMerged == \A b : Merge(b) = {Merged(b, i) : i \in Firsts(b)}
BY DEF Merge, Merged, Firsts

\* Every key has one first sample.
LEMMA FirstExists ==
  ASSUME NEW b \in Seq(Rec), NEW i \in DOMAIN b
  PROVE  \E l \in Firsts(b) : StackKey(b[l]) = StackKey(b[i])
<1>1. DOMAIN b = 1..Len(b) /\ Len(b) \in Nat
  OBVIOUS
<1>2. Alike(b, i) \in SUBSET Nat /\ i \in Alike(b, i)
  BY <1>1 DEF Alike
<1>3. PICK l \in Alike(b, i) : \A y \in Alike(b, i) : l <= y
  BY <1>2, LeastNumber
<1>4. l \in 1..Len(b) /\ StackKey(b[l]) = StackKey(b[i])
  BY <1>1 DEF Alike
<1>5. ASSUME NEW h \in 1 .. l - 1, StackKey(b[h]) = StackKey(b[l]) PROVE FALSE
  <2>1. h \in DOMAIN b /\ ~(l <= h)
    BY <1>1, <1>4
  <2>2. h \in Alike(b, i)
    BY <2>1, <1>4, <1>5 DEF Alike
  <2> QED  BY <2>1, <2>2, <1>3
<1>6. l \in Firsts(b)
  BY <1>1, <1>4, <1>5 DEF Firsts
<1> QED  BY <1>4, <1>6

LEMMA FirstIsOne ==
  ASSUME NEW b \in Seq(Rec), NEW i \in Firsts(b), NEW j \in Firsts(b),
         StackKey(b[i]) = StackKey(b[j])
  PROVE  i = j
<1>1. i \in Nat /\ j \in Nat /\ i >= 1 /\ j >= 1
  BY DEF Firsts
<1>2. ~(i < j)
  <2> SUFFICES ASSUME i < j PROVE FALSE
    OBVIOUS
  <2>1. i \in 1 .. j - 1
    BY <1>1
  <2> QED  BY <2>1 DEF Firsts
<1>3. ~(j < i)
  <2> SUFFICES ASSUME j < i PROVE FALSE
    OBVIOUS
  <2>1. j \in 1 .. i - 1
    BY <1>1
  <2> QED  BY <2>1 DEF Firsts
<1> QED  BY <1>1, <1>2, <1>3

LEMMA MergedFacts ==
  ASSUME NEW b \in Seq(Rec), NEW i \in DOMAIN b
  PROVE  /\ Merged(b, i) \in Rec
         /\ Merged(b, i).pid = b[i].pid /\ Merged(b, i).name = b[i].name
         /\ Merged(b, i).count = SumOver(CountsOf(b), Alike(b, i))
<1>1. b[i] \in Rec
  OBVIOUS
<1>2. Summable(CountsOf(b), Alike(b, i))
  <2>1. Alike(b, i) \subseteq DOMAIN b
    BY DEF Alike
  <2> QED  BY <2>1, TotalType, FS_Subset DEF Summable
<1>3. PICK n \in Nat : n = SumOver(CountsOf(b), Alike(b, i))
  BY <1>2, SumType
<1>4. Merged(b, i) = [b[i] EXCEPT !.count = n]
  BY <1>3 DEF Merged
<1> QED  BY <1>1, <1>3, <1>4 DEF Rec

\* A merged batch has the counts of the batch.
LEMMA MergeSum ==
  ASSUME NEW b \in Seq(Rec)
  PROVE  /\ Merge(b) \subseteq Rec /\ IsFiniteSet(Merge(b))
         /\ SumOver([s \in Merge(b) |-> s.count], Merge(b)) = Total(b)
<1> DEFINE D == DOMAIN b
           M == {Merged(b, i) : i \in Firsts(b)}
           first == [i \in D |-> CHOOSE l \in Firsts(b) : StackKey(b[l]) = StackKey(b[i])]
           h == [i \in D |-> Merged(b, first[i])]
           F == [s \in M |-> s.count]
<1>1. ASSUME NEW i \in D
      PROVE  first[i] \in Firsts(b) /\ StackKey(b[first[i]]) = StackKey(b[i])
  BY FirstExists
<1>2. Firsts(b) \subseteq D
  BY DEF Firsts
<1>3. M \subseteq Rec
  BY <1>2, MergedFacts
<1> HIDE DEF first
<1>4. h \in [D -> M] /\ \A i \in D : h[i] = Merged(b, first[i])
  BY <1>1
<1>5. ASSUME NEW l \in Firsts(b)
      PROVE  Group(D, h, Merged(b, l)) = Alike(b, l)
  <2>1. ASSUME NEW i \in D, h[i] = Merged(b, l) PROVE i \in Alike(b, l)
    <3>1. Merged(b, first[i]) = Merged(b, l) /\ first[i] \in D /\ l \in D
      BY <2>1, <1>1, <1>2
    <3>2. b[first[i]].pid = b[l].pid /\ b[first[i]].name = b[l].name
      BY <3>1, MergedFacts
    <3>3. StackKey(b[first[i]]) = StackKey(b[l])
      BY <3>2 DEF StackKey
    <3> QED  BY <3>3, <1>1 DEF Alike
  <2>2. ASSUME NEW i \in Alike(b, l) PROVE i \in D /\ h[i] = Merged(b, l)
    <3>1. i \in D /\ StackKey(b[i]) = StackKey(b[l])
      BY DEF Alike
    <3>2. first[i] = l
      BY <3>1, <1>1, FirstIsOne
    <3> QED  BY <3>1, <3>2, <1>4
  <2> QED  BY <2>1, <2>2 DEF Group, Alike
<1>6. ASSUME NEW t \in M PROVE F[t] = SumOver(CountsOf(b), Group(D, h, t))
  <2>1. PICK l \in Firsts(b) : t = Merged(b, l)
    OBVIOUS
  <2>2. F[t] = SumOver(CountsOf(b), Alike(b, l))
    BY <2>1, <1>2, MergedFacts
  <2> QED  BY <2>1, <2>2, <1>5
<1>7. Summable(CountsOf(b), D)
  BY TotalType
<1>8. SumOver(F, M) = SumOver(CountsOf(b), D)
  <2> HIDE DEF D, M, h, F
  <2> QED  BY <1>4, <1>6, <1>7, SumPartition
<1>9. IsFiniteSet(M)
  <2>1. h \in Surjection(D, M)
    <3>1. ASSUME NEW t \in M PROVE \E i \in D : h[i] = t
      <4>1. PICK l \in Firsts(b) : t = Merged(b, l)
        OBVIOUS
      <4>2. l \in D /\ first[l] = l
        BY <1>1, <1>2, FirstIsOne
      <4> QED  BY <4>1, <4>2, <1>4
    <3> HIDE DEF D, M, h
    <3> QED  BY <3>1, <1>4 DEF Surjection
  <2>2. IsFiniteSet(D)
    BY <1>7 DEF Summable
  <2> HIDE DEF D, M, h
  <2> QED  BY <2>1, <2>2, FS_Surjection
<1>10. Merge(b) = M
  BY MergeIsMerged
<1>11. SumOver(CountsOf(b), D) = Total(b)
  BY DEF Total
<1> HIDE DEF M
<1> QED  BY <1>3, <1>8, <1>9, <1>10, <1>11

\* What a window gains from merged samples is their counts.
Mine(M, p) == {s \in M : s.pid = p}
Gain(M, p) == SumOver([s \in Mine(M, p) |-> s.count], Mine(M, p))
Counted(win) == SumOver([p \in Pids |-> win[p].count], Pids)

LEMMA AddStackSum ==
  ASSUME NEW win \in [Pids -> [count : Nat, name : 0 .. 2]], NEW M, M \subseteq Rec, IsFiniteSet(M)
  PROVE  /\ AddStack(win, M) \in [Pids -> [count : Nat, name : 0 .. 2]]
         /\ \A p \in Pids : Mine(M, p) = {} => AddStack(win, M)[p] = win[p]
         /\ Counted(AddStack(win, M)) = Counted(win) + SumOver([s \in M |-> s.count], M)
<1> DEFINE f == [s \in M |-> s.count]
           h == [s \in M |-> s.pid]
           old == [p \in Pids |-> win[p].count]
           gain == [p \in Pids |-> Gain(M, p)]
           sum == [p \in Pids |-> AddStack(win, M)[p].count]
<1>1. \A s \in M : s.pid \in Pids /\ s.count \in Nat /\ s.name \in 0 .. 2
  BY DEF Rec
<1>2. Summable(f, M) /\ h \in [M -> Pids]
  BY <1>1 DEF Summable
<1>3. ASSUME NEW p \in Pids
      PROVE  Gain(M, p) \in Nat /\ Gain(M, p) = SumOver(f, Group(M, h, p))
  <2>1. Group(M, h, p) = Mine(M, p)
    BY DEF Group, Mine
  <2>2. IsFiniteSet(Mine(M, p))
    BY FS_Subset DEF Mine
  <2>3. \A s \in Mine(M, p) : [t \in Mine(M, p) |-> t.count][s] = f[s] /\ f[s] \in Nat
    BY <1>1 DEF Mine
  <2>4. Summable(f, Mine(M, p))
    BY <2>2, <2>3 DEF Summable
  <2>5. Gain(M, p) = SumOver(f, Mine(M, p))
    BY <2>3, SumSame DEF Gain
  <2> HIDE DEF f, h
  <2> QED  BY <2>1, <2>4, <2>5, SumType
<1>4. ASSUME NEW p \in Pids
      PROVE  /\ AddStack(win, M)[p] \in [count : Nat, name : 0 .. 2]
             /\ Mine(M, p) = {} => AddStack(win, M)[p] = win[p]
             /\ AddStack(win, M)[p].count = win[p].count + Gain(M, p)
  <2>1. PICK n \in Nat : n = Gain(M, p)
    BY <1>3
  <2>2. win[p] \in [count : Nat, name : 0 .. 2]
    OBVIOUS
  <2>3. CASE Mine(M, p) = {}
    <3>1. AddStack(win, M)[p] = win[p]
      BY <2>3 DEF AddStack, Mine
    <3>2. n = 0
      BY <2>1, <2>3, SumEmpty DEF Gain
    <3> QED  BY <2>1, <2>2, <3>1, <3>2
  <2>4. CASE Mine(M, p) # {}
    <3>1. PICK s : s = CHOOSE t \in Mine(M, p) : TRUE
      OBVIOUS
    <3>2. s \in Mine(M, p)
      BY <2>4, <3>1
    <3>3. s.name \in 0 .. 2
      BY <3>2, <1>1 DEF Mine
    <3>4. AddStack(win, M)[p] = [count |-> win[p].count + n,
                                 name |-> IF win[p].count > 0 THEN win[p].name ELSE s.name]
      BY <2>1, <2>4, <3>1 DEF AddStack, Mine, Gain
    <3> QED  BY <2>1, <2>2, <2>4, <3>3, <3>4
  <2> QED  BY <2>3, <2>4
<1>5. AddStack(win, M) \in [Pids -> [count : Nat, name : 0 .. 2]]
  <2>1. AddStack(win, M) = [p \in Pids |-> AddStack(win, M)[p]]
    BY DEF AddStack
  <2> QED  BY <2>1, <1>4
<1>6. SumOver(gain, Pids) = SumOver(f, M)
  <2>1. \A p \in Pids : gain[p] = SumOver(f, Group(M, h, p))
    BY <1>3
  <2> HIDE DEF f, h, gain
  <2> QED  BY <2>1, <1>2, SumPartition
<1>7. Summable(old, Pids) /\ Summable(gain, Pids)
  BY <1>3, ProfilingAssumption DEF Summable
<1>8. \A p \in Pids : sum[p] = old[p] + gain[p]
  BY <1>4
<1>9. SumOver(sum, Pids) = SumOver(old, Pids) + SumOver(gain, Pids)
  <2> HIDE DEF old, gain, sum
  <2> QED  BY <1>7, <1>8, SumAdd
<1> QED  BY <1>4, <1>5, <1>6, <1>9 DEF Counted

LEMMA WindowCounted == InWindow = Counted(window)
BY DEF InWindow, Counted

LEMMA CountedType ==
  ASSUME NEW win \in [Pids -> [count : Nat, name : 0 .. 2]]
  PROVE  Counted(win) \in Nat
<1>1. Summable([p \in Pids |-> win[p].count], Pids)
  BY ProfilingAssumption DEF Summable
<1> QED  BY <1>1, SumType DEF Counted

LEMMA EmptyWindow ==
  Empty \in [Pids -> [count : Nat, name : 0 .. 2]] /\ Counted(Empty) = 0
<1>1. Units([p \in Pids |-> Empty[p].count], Pids) = {}
  BY DEF Units, Empty
<1>2. Counted(Empty) = 0
  BY <1>1, FS_EmptySet DEF Counted, SumOver
<1> QED  BY <1>2 DEF Empty

-----------------------------------------------------------------------------
(* The sum of the counts on their way *)

QueueTotals(q) == [i \in DOMAIN q |-> Total(q[i])]
InQueue(q) == SumOver(QueueTotals(q), DOMAIN q)

LEMMA QueueType ==
  ASSUME NEW q \in Seq(Seq(Rec))
  PROVE  /\ InQueue(q) \in Nat
         /\ \A i \in 1..Len(q) : QueueTotals(q)[i] = Total(q[i]) /\ Total(q[i]) \in Nat
<1>1. DOMAIN q = 1..Len(q) /\ Len(q) \in Nat
  OBVIOUS
<1>2. ASSUME NEW i \in 1..Len(q)
      PROVE  QueueTotals(q)[i] = Total(q[i]) /\ Total(q[i]) \in Nat
  <2>1. q[i] \in Seq(Rec)
    OBVIOUS
  <2> QED  BY <2>1, <1>1, TotalType DEF QueueTotals
<1>3. IsFiniteSet(1..Len(q))
  BY <1>1, FS_Interval
<1>4. Summable(QueueTotals(q), DOMAIN q)
  BY <1>1, <1>2, <1>3 DEF Summable
<1> QED  BY <1>2, <1>4, SumType DEF InQueue

LEMMA QueueAppend ==
  ASSUME NEW q \in Seq(Seq(Rec)), NEW b \in Seq(Rec)
  PROVE  InQueue(Append(q, b)) = InQueue(q) + Total(b)
<1>1. PICK n \in Nat : n = Len(q)
  OBVIOUS
<1>2. PICK r \in Seq(Seq(Rec)) : r = Append(q, b)
  <2>1. Append(q, b) \in Seq(Seq(Rec))
    OBVIOUS
  <2> QED  BY <2>1, Zenon
<1>3. Len(r) = n + 1 /\ r[n + 1] = b /\ \A i \in 1..n : r[i] = q[i]
  BY <1>1, <1>2
<1>4. DOMAIN q = 1..n /\ DOMAIN r = 1..(n + 1)
  BY <1>1, <1>3
<1>5. PICK f, g : f = QueueTotals(q) /\ g = QueueTotals(r)
  OBVIOUS
<1>6. \A i \in 1..n : f[i] \in Nat /\ g[i] = f[i]
  <2>1. \A i \in 1..n : f[i] = Total(q[i]) /\ f[i] \in Nat
    BY <1>1, <1>5, QueueType
  <2>2. \A i \in 1..Len(r) : g[i] = Total(r[i])
    BY <1>5, QueueType
  <2>3. \A i \in 1..n : i \in 1..Len(r)
    BY <1>3
  <2> QED  BY <2>1, <2>2, <2>3, <1>3
<1>7. g[n + 1] = Total(b) /\ g[n + 1] \in Nat
  <2>1. \A i \in 1..Len(r) : g[i] = Total(r[i])
    BY <1>5, QueueType
  <2>2. n + 1 \in 1..Len(r)
    BY <1>3
  <2>3. Total(b) \in Nat
    BY TotalType
  <2> QED  BY <2>1, <2>2, <2>3, <1>3
<1>8. SumOver(g, 1..(n + 1)) = SumOver(f, 1..n) + g[n + 1]
  BY <1>6, <1>7, SumAppend
<1> QED  BY <1>2, <1>4, <1>5, <1>7, <1>8 DEF InQueue

LEMMA QueueTail ==
  ASSUME NEW q \in Seq(Seq(Rec)), q # <<>>
  PROVE  InQueue(q) = Total(Head(q)) + InQueue(Tail(q))
<1>1. PICK n \in Nat : n = Len(q) /\ n # 0
  OBVIOUS
<1>2. PICK r \in Seq(Seq(Rec)) : r = Tail(q)
  <2>1. Tail(q) \in Seq(Seq(Rec))
    OBVIOUS
  <2> QED  BY <2>1, Zenon
<1>3. Len(r) = n - 1 /\ Head(q) = q[1] /\ \A i \in 1..(n - 1) : r[i] = q[i + 1]
  BY <1>1, <1>2
<1>4. DOMAIN q = 1..n /\ DOMAIN r = 1..(n - 1)
  BY <1>1, <1>3
<1>5. PICK f, g : f = QueueTotals(q) /\ g = QueueTotals(r)
  OBVIOUS
<1>6. \A i \in 1..n : f[i] = Total(q[i]) /\ f[i] \in Nat
  BY <1>1, <1>5, QueueType
<1>7. ASSUME NEW i \in 1..(n - 1) PROVE g[i] = f[i + 1]
  <2>1. i + 1 \in 1..n /\ r[i] = q[i + 1]
    BY <1>1, <1>3
  <2>2. g[i] = Total(r[i])
    BY <1>3, <1>5, QueueType
  <2> QED  BY <2>1, <2>2, <1>6
<1>8. SumOver(f, 1..n) = f[1] + SumOver(g, 1..(n - 1))
  BY <1>1, <1>6, <1>7, SumTail
<1>9. f[1] = Total(Head(q))
  BY <1>1, <1>3, <1>6
<1> QED  BY <1>2, <1>4, <1>5, <1>8, <1>9 DEF InQueue

\* An empty batch counts nothing.
LEMMA NothingYet == Total(<<>>) = 0 /\ InQueue(<<>>) = 0
<1>1. DOMAIN <<>> = {}
  OBVIOUS
<1> QED  BY <1>1, SumEmpty DEF Total, InQueue

\* Conserved, as a statement about the three places.
LEMMA ConservedForm ==
  Conserved <=> owed = InQueue(queue) + Total(batch["loop"]) + Counted(window)
BY DEF Conserved, InQueue, QueueTotals, InWindow, Counted

\* All the numbers in it are numbers.
LEMMA PlacesType ==
  ASSUME TypeOK
  PROVE  /\ InQueue(queue) \in Nat /\ Total(batch["loop"]) \in Nat /\ Counted(window) \in Nat
         /\ owed \in Nat
<1>1. batch["loop"] \in Seq(Rec)
  BY WorkTypes, WorkersTwo
<1> QED  BY <1>1, WorkTypes, QueueType, TotalType, CountedType

LEMMA ConservedEnqueue ==
  ASSUME TypeOK, Conserved, NEW b \in Seq(Rec), Enqueue(b), batch'["loop"] = batch["loop"],
         window' = window
  PROVE  Conserved'
<1>1. queue' = Append(queue, b) /\ owed' = owed + Total(b)
  BY DEF Enqueue
<1>2. InQueue(queue') = InQueue(queue) + Total(b)
  BY <1>1, WorkTypes, QueueAppend
<1>3. PICK q \in Nat, l \in Nat, w \in Nat, n \in Nat :
        q = InQueue(queue) /\ l = Total(batch["loop"]) /\ w = Counted(window) /\ n = Total(b)
  BY PlacesType, TotalType
<1>4. owed = q + l + w
  BY <1>3, ConservedForm
<1>5. owed' = (q + n) + l + w
  BY <1>1, <1>3, <1>4
<1>6. InQueue(queue') = q + n /\ Total(batch'["loop"]) = l /\ Counted(window') = w
  BY <1>2, <1>3
<1>7. owed' = InQueue(queue') + Total(batch'["loop"]) + Counted(window')
  BY <1>5, <1>6
<1> QED  BY <1>7 DEF Conserved, InQueue, QueueTotals, InWindow, Counted

LEMMA ConservedRests ==
  ASSUME Conserved, UNCHANGED <<queue, window, owed>>, batch'["loop"] = batch["loop"]
  PROVE  Conserved'
BY DEF Conserved, InWindow

-----------------------------------------------------------------------------
(* The process thread *)

LEMMA TakeBatchStep ==
  ASSUME TypeOK, Conserved, EmptyHands, TakeBatch
  PROVE  TypeOK' /\ Conserved' /\ EmptyHands'
<1>1. Untouched /\ UNCHANGED <<cpu, taken, counts, ring, cache, keys, window, owed>>
  BY DEF TakeBatch, Untouched, kernel, source
<1>2. /\ queue # <<>> /\ queue' = Tail(queue) /\ batch' = [batch EXCEPT !["loop"] = Head(queue)]
      /\ pc["loop"] = "idle" /\ pc' = [pc EXCEPT !["loop"] = "process"]
  BY DEF TakeBatch
<1>3. queue \in Seq(Seq(Rec)) /\ batch \in [Workers -> Seq(Rec)]
  BY WorkTypes
<1>4. queue' \in Seq(Seq(Rec)) /\ Head(queue) \in Seq(Rec)
  BY <1>2, <1>3
<1>5. batch' \in [Workers -> Seq(Rec)] /\ batch'["loop"] = Head(queue)
  BY <1>2, <1>3, <1>4, WorkersTwo
<1>6. pc' \in [Workers -> {"idle", "collect", "process", "named"}] /\ pc'["loop"] = "process"
  BY <1>2, WorkTypes, WorkersTwo
<1>7. TypeOK'
  BY <1>1, <1>4, <1>5, <1>6, RestTypes, WorkTypes
<1>8. Conserved'
  <2>1. Total(batch["loop"]) = 0
    BY <1>2, NothingYet DEF EmptyHands
  <2>2. InQueue(queue) = Total(batch'["loop"]) + InQueue(queue')
    BY <1>2, <1>3, <1>5, QueueTail
  <2>3. PICK q \in Nat, l \in Nat, w \in Nat :
          q = InQueue(queue') /\ l = Total(batch'["loop"]) /\ w = Counted(window)
    BY <1>4, <1>5, PlacesType, QueueType, TotalType
  <2>4. owed = (l + q) + 0 + w
    BY <2>1, <2>2, <2>3, ConservedForm
  <2>5. owed' = InQueue(queue') + Total(batch'["loop"]) + Counted(window')
    BY <1>1, <2>3, <2>4
  <2> QED  BY <2>5 DEF Conserved, InQueue, QueueTotals, InWindow, Counted
<1>9. EmptyHands'
  BY <1>6 DEF EmptyHands
<1> QED  BY <1>7, <1>8, <1>9

\* Naming changes no count.
LEMMA SymbolizeStep ==
  ASSUME TypeOK, Conserved, Symbolize
  PROVE  TypeOK' /\ Conserved' /\ EmptyHands'
<1>1. UNCHANGED <<queue, window, owed>> /\ pc' = [pc EXCEPT !["loop"] = "named"]
  BY DEF Symbolize
<1>2. PICK b \in Seq(Rec), n \in Seq(Rec) : b = batch["loop"] /\ n = batch'["loop"]
  BY WorkTypes, WorkersTwo, NamesOnly
<1>3. Len(n) = Len(b) /\ \A i \in 1..Len(b) : n[i].count = b[i].count
  BY <1>2, NamesOnly
<1>4. DOMAIN n = DOMAIN b /\ DOMAIN b = 1..Len(b)
  BY <1>3
<1>5. CountsOf(n) = CountsOf(b)
  BY <1>3, <1>4 DEF CountsOf
<1>6. Total(batch'["loop"]) = Total(batch["loop"])
  BY <1>2, <1>4, <1>5 DEF Total
<1>7. Conserved'
  BY <1>1, <1>6 DEF Conserved, InWindow
<1>8. pc'["loop"] = "named"
  BY <1>1, WorkTypes, WorkersTwo
<1> QED  BY <1>7, <1>8, SymbolizeTypes DEF EmptyHands

\* Merging and adding loses no count and makes none up.
LEMMA AddToWindowStep ==
  ASSUME TypeOK, Conserved, AddToWindow
  PROVE  TypeOK' /\ Conserved' /\ EmptyHands'
<1>1. /\ Untouched /\ UNCHANGED <<cpu, taken, counts, ring, cache, keys, queue, owed>>
      /\ window' = AddStack(window, Merge(batch["loop"]))
      /\ batch' = [batch EXCEPT !["loop"] = <<>>] /\ pc' = [pc EXCEPT !["loop"] = "idle"]
  BY DEF AddToWindow, Untouched, kernel, source
<1>2. PICK b \in Seq(Rec) : b = batch["loop"]
  BY WorkTypes, WorkersTwo
<1>3. PICK M : M = Merge(b)
  OBVIOUS
<1>4. /\ M \subseteq Rec /\ IsFiniteSet(M)
      /\ SumOver([s \in M |-> s.count], M) = Total(b)
  BY <1>3, MergeSum
<1>5. /\ window' \in [Pids -> [count : Nat, name : 0 .. 2]]
      /\ Counted(window') = Counted(window) + Total(b)
  BY <1>1, <1>2, <1>3, <1>4, AddStackSum, WorkTypes
<1>6. batch' \in [Workers -> Seq(Rec)] /\ batch'["loop"] = <<>>
  BY <1>1, WorkTypes, WorkersTwo
<1>7. pc' \in [Workers -> {"idle", "collect", "process", "named"}]
  BY <1>1, WorkTypes, WorkersTwo
<1>8. TypeOK'
  BY <1>1, <1>5, <1>6, <1>7, RestTypes, WorkTypes
<1>9. Conserved'
  <2>1. PICK q \in Nat, l \in Nat, w \in Nat :
          q = InQueue(queue) /\ l = Total(b) /\ w = Counted(window)
    BY <1>2, PlacesType
  <2>2. owed = q + l + w
    BY <1>2, <2>1, ConservedForm
  <2>3. Total(batch'["loop"]) = 0
    BY <1>6, NothingYet
  <2>4. owed' = InQueue(queue') + Total(batch'["loop"]) + Counted(window')
    BY <1>1, <1>5, <2>1, <2>2, <2>3
  <2> QED  BY <2>4 DEF Conserved, InQueue, QueueTotals, InWindow, Counted
<1> QED  BY <1>6, <1>8, <1>9 DEF EmptyHands

\* A flush takes out what the window holds.
LEMMA FlushStep ==
  ASSUME TypeOK, Conserved, Flush
  PROVE  TypeOK' /\ Conserved'
<1>1. /\ Untouched /\ UNCHANGED <<cpu, taken, counts, ring, cache, keys, pc, batch, queue>>
      /\ window' = Empty /\ owed' = owed - InWindow
  BY DEF Flush, Untouched, kernel, source
<1>2. PICK q \in Nat, l \in Nat, w \in Nat :
        q = InQueue(queue) /\ l = Total(batch["loop"]) /\ w = Counted(window)
  BY PlacesType
<1>3. owed = q + l + w /\ owed' = owed - w
  BY <1>1, <1>2, ConservedForm, WindowCounted
<1>4. owed' = q + l
  BY <1>3
<1>5. TypeOK'
  BY <1>1, <1>4, EmptyWindow, RestTypes, WorkTypes
<1>6. owed' = InQueue(queue') + Total(batch'["loop"]) + Counted(window')
  BY <1>1, <1>2, <1>4, EmptyWindow
<1> QED  BY <1>5, <1>6 DEF Conserved, InQueue, QueueTotals, InWindow, Counted

\* Collecting: what is enqueued is owed from then on.
LEMMA CollectStep ==
  ASSUME TypeOK, Conserved, EmptyHands,
         CollectBegin \/ (\E p \in Pids : CollectLookup(p)) \/ CollectEnqueue
  PROVE  Conserved' /\ EmptyHands'
<1>1. batch'["loop"] = batch["loop"] /\ pc'["loop"] = pc["loop"] /\ window' = window
  <2>1. /\ batch' = batch \/ \E b : batch' = [batch EXCEPT !["pool"] = b]
        /\ pc' = pc \/ \E s : pc' = [pc EXCEPT !["pool"] = s]
        /\ window' = window
    BY Zenon DEF CollectBegin, CollectLookup, CollectEnqueue
  <2>2. batch \in [Workers -> Seq(Rec)] /\ pc \in [Workers -> {"idle", "collect", "process", "named"}]
    BY WorkTypes
  <2> QED  BY <2>1, <2>2, WorkersTwo
<1>2. Conserved'
  <2>1. UNCHANGED <<queue, owed>> \/ Enqueue(batch["pool"])
    BY Zenon DEF CollectBegin, CollectLookup, CollectEnqueue
  <2>2. batch["pool"] \in Seq(Rec)
    BY WorkTypes, WorkersTwo
  <2>3. CASE UNCHANGED <<queue, owed>>
    BY <1>1, <2>3, ConservedRests
  <2>4. CASE Enqueue(batch["pool"])
    BY <1>1, <2>2, <2>4, ConservedEnqueue
  <2> QED  BY <2>1, <2>3, <2>4
<1> QED  BY <1>1, <1>2 DEF EmptyHands

\* So it is with a sample of the stream.
LEMMA StreamStep ==
  ASSUME TypeOK, Conserved, EmptyHands, HandleStreamEvent
  PROVE  Conserved' /\ EmptyHands'
<1>1. UNCHANGED <<pc, batch, window>> /\ ring # <<>>
  BY DEF HandleStreamEvent
<1>2. Head(ring) \in Pids
  BY <1>1, WorkTypes
<1>3. CASE callback
  <2>1. Enqueue(<<Sample(Head(ring), 1)>>)
    BY <1>3 DEF HandleStreamEvent
  <2>2. <<Sample(Head(ring), 1)>> \in Seq(Rec)
    BY <1>2, SampleType
  <2>3. Conserved'
    BY <1>1, <2>1, <2>2, ConservedEnqueue
  <2> QED  BY <1>1, <2>3 DEF EmptyHands
<1>4. CASE ~callback
  <2>1. UNCHANGED <<queue, owed>>
    BY <1>4 DEF HandleStreamEvent
  <2> QED  BY <1>1, <2>1, ConservedRests DEF EmptyHands
<1> QED  BY <1>3, <1>4

\* Every step keeps the types and every count handed over.
LEMMA TypesKept ==
  ASSUME TypeOK, Conserved, EmptyHands, [Next]_vars
  PROVE  TypeOK'
<1>1. CASE SourceStep
  <2>1. CASE HandleStreamEvent
    BY <2>1, StreamTypes
  <2> QED  BY <1>1, <2>1, SourceTypes DEF SourceStep
<1>2. CASE ProbeStep
  BY <1>2, SampleTypes, InsertTypes DEF ProbeStep
<1>3. CASE PipelineStep
  <2>1. CASE CollectBegin \/ (\E p \in Pids : CollectLookup(p)) \/ CollectEnqueue
    BY <2>1, CollectTypes
  <2> QED  BY <1>3, <2>1, TakeBatchStep, SymbolizeTypes, AddToWindowStep, FlushStep, ApiTypes
           DEF PipelineStep
<1>4. CASE \E p \in Movers : Move(p)
  BY <1>4, MoveTypes
<1>5. CASE Tick
  BY <1>5, TickTypes
<1>6. CASE UNCHANGED vars
  BY <1>6, Zenon DEF vars, kernel, source, work, TypeOK
<1> QED  BY <1>1, <1>2, <1>3, <1>4, <1>5, <1>6 DEF Next

LEMMA CountsKept ==
  ASSUME TypeOK, Conserved, EmptyHands, [Next]_vars
  PROVE  Conserved' /\ EmptyHands'
<1> DEFINE Still == UNCHANGED <<pc, batch, queue, window, owed>>
<1>1. CASE Still
  BY <1>1, ConservedRests DEF EmptyHands
<1>2. CASE SourceStep
  <2>1. CASE HandleStreamEvent
    BY <2>1, StreamStep
  <2>2. CASE ~HandleStreamEvent
    <3>1. Still
      BY <1>2, <2>2, Zenon DEF SourceStep, StartLoad, ApplyFilterMaps, OpenPerfEvent, StartThread,
           SetCallback, StopBegin, StopEnd, StreamPollExit, work
    <3> QED  BY <1>1, <3>1
  <2> QED  BY <2>1, <2>2
<1>3. CASE ProbeStep
  <2>1. Still
    BY <1>3, Zenon DEF ProbeStep, TakeSample, Insert, work
  <2> QED  BY <1>1, <2>1
<1>4. CASE PipelineStep
  <2>1. CASE CollectBegin \/ (\E p \in Pids : CollectLookup(p)) \/ CollectEnqueue
    BY <2>1, CollectStep
  <2>2. CASE Flush
    <3>1. UNCHANGED <<pc, batch>>
      BY <2>2 DEF Flush
    <3> QED  BY <2>2, <3>1, FlushStep DEF EmptyHands
  <2>3. CASE ApiCollect
    <3>1. Still
      BY <2>3 DEF ApiCollect, work
    <3> QED  BY <1>1, <3>1
  <2> QED  BY <1>4, <2>1, <2>2, <2>3, TakeBatchStep, SymbolizeStep, AddToWindowStep DEF PipelineStep
<1>5. CASE (\E p \in Movers : Move(p)) \/ Tick \/ UNCHANGED vars
  <2>1. Still
    BY <1>5, Zenon DEF Move, Tick, vars, work
  <2> QED  BY <1>1, <2>1
<1> QED  BY <1>2, <1>3, <1>4, <1>5 DEF Next

-----------------------------------------------------------------------------
(* What the map of the probe loses *)

\* The CPUs at a stack, and the entries of the map, can be counted.
LEMMA WaitingCounts ==
  /\ \A p : IsFiniteSet(Waiting(p)) /\ Cardinality(Waiting(p)) \in Nat
            /\ Cardinality(Waiting(p)) <= Cardinality(Cpus)
  /\ Cardinality(Cpus) \in Nat /\ IsFiniteSet(Entries) /\ Cardinality(Entries) \in Nat
<1>1. IsFiniteSet(Cpus) /\ IsFiniteSet(Pids)
  BY ProfilingAssumption
<1>2. \A p : Waiting(p) \subseteq Cpus
  BY DEF Waiting
<1>3. Entries \subseteq Pids
  BY DEF Entries
<1> QED  BY <1>1, <1>2, <1>3, FS_Subset, FS_CardinalityType

\* An entry never leaves the map, so the map never has fewer of them.
LEMMA EntriesGrow ==
  ASSUME TypeOK, counts' \in [Pids -> Nat], \A q \in Pids : counts[q] <= counts'[q]
  PROVE  /\ Cardinality(Entries') \in Nat /\ Cardinality(Entries) <= Cardinality(Entries')
<1>1. Entries \subseteq Entries'
  BY WorkTypes DEF Entries
<1>2. IsFiniteSet(Entries')
  <2>1. Entries' \subseteq Pids
    BY DEF Entries
  <2> QED  BY <2>1, FS_Subset, ProfilingAssumption
<1> QED  BY <1>1, <1>2, FS_Subset, FS_CardinalityType

\* A sample of one stack does not change what is lost of another.
LEMMA LostElsewhere ==
  ASSUME TypeOK, Lost, counts' \in [Pids -> Nat], \A q \in Pids : counts[q] <= counts'[q],
         NEW q \in Pids, counts'[q] = counts[q], taken'[q] = taken[q], Waiting(q)' = Waiting(q)
  PROVE  SampleLost(q)'
<1>1. Cardinality(Entries') \in Nat /\ Cardinality(Entries) <= Cardinality(Entries')
  BY EntriesGrow
<1>2. /\ Cardinality(Entries) \in Nat /\ Cardinality(Cpus) \in Nat
      /\ Cardinality(Waiting(q)) \in Nat /\ counts[q] \in Nat /\ taken[q] \in Nat
  BY WaitingCounts, WorkTypes
<1>3. SampleLost(q)
  BY DEF Lost
<1>4. PICK e \in Nat, f \in Nat, w \in Nat :
        e = Cardinality(Entries) /\ f = Cardinality(Entries') /\ w = Cardinality(Waiting(q))
  BY <1>1, <1>2
<1>5. Cardinality(Waiting(q)') = w /\ e <= f /\ MaxEntries \in Nat
  BY <1>1, <1>4, ProfilingAssumption
<1>6. /\ counts[q] + w <= taken[q]
      /\ counts[q] > 0 => taken[q] - counts[q] < Cardinality(Cpus)
      /\ counts[q] = 0 => taken[q] = w \/ e >= MaxEntries
  BY <1>3, <1>4 DEF SampleLost
<1>7. counts[q] = 0 => taken[q] = w \/ f >= MaxEntries
  BY <1>5, <1>6
<1> QED  BY <1>4, <1>5, <1>6, <1>7 DEF SampleLost

LEMMA LostSample ==
  ASSUME TypeOK, Lost, NEW c \in Cpus, NEW p \in Pids, TakeSample(c, p)
  PROVE  Lost'
<1>1. /\ cpu[c] = None /\ taken' = [taken EXCEPT ![p] = @ + 1]
      /\ SampleHit(c, p) \/ SampleMiss(c, p)
  BY DEF TakeSample
<1>2. /\ counts \in [Pids -> Nat] /\ taken \in [Pids -> Nat] /\ cpu \in [Cpus -> Pids \cup {None}]
      /\ counts[p] \in Nat /\ taken[p] \in Nat
  BY WorkTypes
<1>3. /\ taken'[p] = taken[p] + 1 /\ \A q \in Pids : q # p => taken'[q] = taken[q]
  BY <1>1, <1>2
<1>4. SampleLost(p)
  BY DEF Lost
<1>5. PICK w \in Nat, k \in Nat : w = Cardinality(Waiting(p)) /\ k = Cardinality(Cpus)
  BY WaitingCounts
<1>6. CASE SampleHit(c, p)
  <2>1. counts[p] > 0 /\ counts' = [counts EXCEPT ![p] = @ + 1] /\ cpu' = cpu
    BY <1>6 DEF SampleHit
  <2>2. /\ counts' \in [Pids -> Nat] /\ counts'[p] = counts[p] + 1
        /\ \A q \in Pids : counts[q] <= counts'[q] /\ (q # p => counts'[q] = counts[q])
    BY <1>2, <2>1
  <2>3. \A q : Waiting(q)' = Waiting(q)
    BY <2>1 DEF Waiting
  <2>4. SampleLost(p)'
    <3>1. Cardinality(Waiting(p)') = w
      BY <1>5, <2>3
    <3> QED  BY <1>2, <1>3, <1>4, <1>5, <2>1, <2>2, <3>1 DEF SampleLost
  <2>5. ASSUME NEW q \in Pids, q # p PROVE SampleLost(q)'
    BY <1>3, <2>2, <2>3, <2>5, LostElsewhere
  <2> QED  BY <2>4, <2>5 DEF Lost
<1>7. CASE SampleMiss(c, p)
  <2>1. counts[p] = 0 /\ cpu' = [cpu EXCEPT ![c] = p] /\ counts' = counts
    BY <1>7 DEF SampleMiss
  <2>2. counts' \in [Pids -> Nat] /\ \A q \in Pids : counts[q] <= counts'[q] /\ counts'[q] = counts[q]
    BY <1>2, <2>1
  <2>3. /\ Waiting(p)' = Waiting(p) \cup {c} /\ c \notin Waiting(p)
        /\ \A q \in Pids : q # p => Waiting(q)' = Waiting(q)
    BY <1>1, <1>2, <2>1, ProfilingAssumption DEF Waiting
  <2>4. SampleLost(p)'
    <3>1. Cardinality(Waiting(p)') = w + 1
      <4>1. Cardinality(Waiting(p) \cup {c}) = Cardinality(Waiting(p)) + 1
        BY <2>3, WaitingCounts, FS_AddElement
      <4> QED  BY <1>5, <2>3, <4>1
    <3>2. /\ Cardinality(Entries') \in Nat /\ Cardinality(Entries) \in Nat
          /\ Cardinality(Entries) <= Cardinality(Entries')
      BY <2>2, EntriesGrow, WaitingCounts
    <3>3. /\ counts[p] + w <= taken[p]
          /\ taken[p] = w \/ Cardinality(Entries) >= MaxEntries
      BY <1>4, <1>5, <2>1 DEF SampleLost
    <3>4. PICK e \in Nat, f \in Nat : e = Cardinality(Entries) /\ f = Cardinality(Entries')
      BY <3>2
    <3>5. MaxEntries \in Nat
      BY ProfilingAssumption
    <3>6. taken'[p] = w + 1 \/ f >= MaxEntries
      BY <1>2, <1>3, <3>2, <3>3, <3>4, <3>5
    <3>7. counts'[p] = 0 /\ counts'[p] + (w + 1) <= taken'[p]
      BY <1>2, <1>3, <2>1, <2>2, <3>3
    <3> QED  BY <3>1, <3>4, <3>6, <3>7 DEF SampleLost
  <2>5. ASSUME NEW q \in Pids, q # p PROVE SampleLost(q)'
    BY <1>3, <2>2, <2>3, <2>5, LostElsewhere
  <2> QED  BY <2>4, <2>5 DEF Lost
<1> QED  BY <1>1, <1>6, <1>7

LEMMA LostInsert ==
  ASSUME TypeOK, Lost, NEW c \in Cpus, Insert(c)
  PROVE  Lost'
<1>1. PICK p \in Pids : p = cpu[c]
  BY WorkTypes DEF Insert
<1>2. counts' = [counts EXCEPT ![p] = Inserted(p)] /\ cpu' = [cpu EXCEPT ![c] = None] /\ taken' = taken
  BY <1>1 DEF Insert
<1>3. /\ counts \in [Pids -> Nat] /\ taken \in [Pids -> Nat] /\ cpu \in [Cpus -> Pids \cup {None}]
      /\ counts[p] \in Nat /\ taken[p] \in Nat
  BY WorkTypes
<1>4. PICK n \in Nat : n = Inserted(p) /\ counts[p] <= n
  <2>1. Inserted(p) = counts[p] \/ (counts[p] = 0 /\ Inserted(p) = 1)
    BY Zenon DEF Inserted
  <2> QED  BY <1>3, <2>1
<1>5. /\ counts' \in [Pids -> Nat] /\ counts'[p] = n
      /\ \A q \in Pids : counts[q] <= counts'[q] /\ (q # p => counts'[q] = counts[q])
  BY <1>2, <1>3, <1>4
<1>6. /\ Waiting(p)' = Waiting(p) \ {c} /\ c \in Waiting(p)
      /\ \A q \in Pids : q # p => Waiting(q)' = Waiting(q)
  BY <1>1, <1>2, <1>3, ProfilingAssumption DEF Waiting
<1>7. PICK w \in Nat, k \in Nat, e \in Nat :
        w = Cardinality(Waiting(p)) /\ k = Cardinality(Cpus) /\ e = Cardinality(Entries)
  BY WaitingCounts
<1>8. PICK v \in Nat : v = Cardinality(Waiting(p)') /\ w = v + 1 /\ w <= k
  <2>1. IsFiniteSet(Waiting(p)) /\ Cardinality(Waiting(p)) <= Cardinality(Cpus)
    BY WaitingCounts
  <2>2. Cardinality(Waiting(p) \ {c}) = Cardinality(Waiting(p)) - 1
    BY <1>6, <2>1, FS_RemoveElement
  <2>3. IsFiniteSet(Waiting(p) \ {c})
    BY <2>1, FS_Subset
  <2>4. Cardinality(Waiting(p) \ {c}) \in Nat
    BY <2>3, FS_CardinalityType
  <2> QED  BY <1>6, <1>7, <2>1, <2>2, <2>4
<1>9. /\ counts[p] + w <= taken[p]
      /\ counts[p] > 0 => taken[p] - counts[p] < k
      /\ counts[p] = 0 => taken[p] = w \/ e >= MaxEntries
  BY <1>7 DEF Lost, SampleLost
<1>10. n = IF counts[p] = 0 /\ e < MaxEntries THEN 1 ELSE counts[p]
  BY <1>4, <1>7 DEF Inserted, Entries
<1>11. PICK f \in Nat : f = Cardinality(Entries') /\ e <= f
  BY <1>5, <1>7, EntriesGrow
<1>12. MaxEntries \in Nat
  BY ProfilingAssumption
<1>13. /\ n + v <= taken[p]
       /\ n > 0 => taken[p] - n < k
       /\ n = 0 => taken[p] = v \/ f >= MaxEntries
  BY <1>3, <1>8, <1>9, <1>10, <1>11, <1>12
<1>14. SampleLost(p)'
  BY <1>2, <1>5, <1>7, <1>8, <1>11, <1>13 DEF SampleLost
<1>15. ASSUME NEW q \in Pids, q # p PROVE SampleLost(q)'
  BY <1>2, <1>5, <1>6, <1>15, LostElsewhere
<1> QED  BY <1>14, <1>15 DEF Lost

LEMMA LostKept ==
  ASSUME TypeOK, Lost, [Next]_vars
  PROVE  Lost'
<1>1. CASE UNCHANGED <<counts, cpu, taken>>
  BY <1>1, Zenon DEF Lost, SampleLost, Waiting, Entries
<1>2. CASE ProbeStep
  BY <1>2, LostSample, LostInsert DEF ProbeStep
<1>3. CASE SourceStep
  <2>1. UNCHANGED <<counts, cpu, taken>>
    BY <1>3, Zenon DEF SourceStep, StartLoad, ApplyFilterMaps, OpenPerfEvent, StartThread,
       SetCallback, StopBegin, StopEnd, HandleStreamEvent, StreamPollExit, kernel
  <2> QED  BY <1>1, <2>1
<1>4. CASE PipelineStep
  <2>1. UNCHANGED <<counts, cpu, taken>>
    BY <1>4, Zenon DEF PipelineStep, CollectBegin, CollectLookup, CollectEnqueue, TakeBatch,
       Symbolize, AddToWindow, Flush, ApiCollect, kernel
  <2> QED  BY <1>1, <2>1
<1>5. CASE (\E p \in Movers : Move(p)) \/ Tick \/ UNCHANGED vars
  <2>1. UNCHANGED <<counts, cpu, taken>>
    BY <1>5, Zenon DEF Move, Tick, vars, kernel
  <2> QED  BY <1>1, <2>1
<1> QED  BY <1>2, <1>3, <1>4, <1>5 DEF Next

-----------------------------------------------------------------------------
(* The filters *)

\* The whitelist never changes, and every step but ApplyFilterMaps leaves the flags
\* alone, as long as events may be enabled.
LEMMA FiltersKept ==
  ASSUME TypeOK, FiltersSet, [Next]_vars
  PROVE  FiltersSet' /\ targets' = targets
<1> DEFINE Still == /\ UNCHANGED <<flags, targets>>
                    /\ src' = "opening" \/ on' # {} => src = "opening" \/ on # {}
<1>1. CASE Still
  BY <1>1 DEF FiltersSet
<1>2. CASE SourceStep
  <2>1. CASE ApplyFilterMaps
    BY <2>1 DEF ApplyFilterMaps, FiltersSet
  <2>2. CASE \E c \in Cpus : OpenPerfEvent(c)
    BY <2>2, <1>1 DEF OpenPerfEvent
  <2>3. CASE StopEnd
    BY <2>3, <1>1 DEF StopEnd
  <2>4. CASE HandleStreamEvent
    BY <2>4, <1>1 DEF HandleStreamEvent, source
  <2>5. CASE StartLoad \/ StartThread \/ SetCallback \/ StopBegin \/ StreamPollExit
    BY <2>5, <1>1 DEF StartLoad, StartThread, SetCallback, StopBegin, StreamPollExit, kernel
  <2> QED  BY <1>2, <2>1, <2>2, <2>3, <2>4, <2>5 DEF SourceStep
<1>3. CASE UNCHANGED <<flags, on, source>>
  BY <1>1, <1>3 DEF source
<1>4. CASE ProbeStep
  <2>1. UNCHANGED <<flags, on, source>>
    BY <1>4, Zenon DEF ProbeStep, TakeSample, Insert
  <2> QED  BY <1>3, <2>1
<1>5. CASE PipelineStep
  <2>1. UNCHANGED <<flags, on, source>>
    BY <1>5, Zenon DEF PipelineStep, CollectBegin, CollectLookup, CollectEnqueue, TakeBatch,
       Symbolize, AddToWindow, Flush, ApiCollect, kernel
  <2> QED  BY <1>3, <2>1
<1>6. CASE (\E p \in Movers : Move(p)) \/ Tick \/ UNCHANGED vars
  <2>1. UNCHANGED <<flags, on, source>>
    BY <1>6, Zenon DEF Move, Tick, vars, kernel
  <2> QED  BY <1>3, <2>1
<1> QED  BY <1>2, <1>4, <1>5, <1>6 DEF Next

\* The probe counts only processes of the whitelist.
LEMMA KernelOursKept ==
  ASSUME TypeOK, FiltersSet, targets # {}, OursInKernel, [Next]_vars
  PROVE  OursInKernel'
<1>1. targets' = targets
  BY FiltersKept
<1>2. CASE UNCHANGED <<counts, cpu, ring>>
  BY <1>1, <1>2, Zenon DEF OursInKernel
<1>3. ASSUME NEW c \in Cpus, NEW p \in Pids, TakeSample(c, p) PROVE OursInKernel'
  <2>1. p \in targets
    <3>1. on # {} /\ Passes(p)
      BY <1>3 DEF TakeSample
    <3> QED  BY <3>1 DEF FiltersSet, Passes
  <2>2. /\ counts \in [Pids -> Nat] /\ ring \in Seq(Pids) /\ cpu \in [Cpus -> Pids \cup {None}]
        /\ SampleHit(c, p) \/ SampleMiss(c, p)
    BY <1>3, WorkTypes DEF TakeSample
  <2>3. \A q \in Pids : q # p => counts'[q] = counts[q]
    BY <2>2 DEF SampleHit, SampleMiss
  <2>4. \A d \in Cpus : cpu'[d] = cpu[d] \/ cpu'[d] = p
    BY <2>2 DEF SampleHit, SampleMiss
  <2>5. \A i \in DOMAIN ring' : (i \in DOMAIN ring /\ ring'[i] = ring[i]) \/ ring'[i] = p
    BY <2>2, SubmitType DEF SampleHit, SampleMiss
  <2> QED  BY <1>1, <2>1, <2>3, <2>4, <2>5 DEF OursInKernel
<1>4. ASSUME NEW c \in Cpus, Insert(c) PROVE OursInKernel'
  <2>1. PICK p \in Pids : p = cpu[c] /\ p # None
    BY <1>4, WorkTypes DEF Insert
  <2>2. p \in targets
    BY <2>1 DEF OursInKernel
  <2>3. counts' = [counts EXCEPT ![p] = Inserted(p)] /\ cpu' = [cpu EXCEPT ![c] = None] /\ Submit(p)
    BY <1>4, <2>1 DEF Insert
  <2>4. counts \in [Pids -> Nat] /\ ring \in Seq(Pids) /\ cpu \in [Cpus -> Pids \cup {None}]
    BY WorkTypes
  <2>5. \A q \in Pids : q # p => counts'[q] = counts[q]
    BY <2>3, <2>4
  <2>6. \A d \in Cpus : cpu'[d] = cpu[d] \/ cpu'[d] = None
    BY <2>3, <2>4
  <2>7. \A i \in DOMAIN ring' : (i \in DOMAIN ring /\ ring'[i] = ring[i]) \/ ring'[i] = p
    BY <2>3, <2>4, SubmitType
  <2> QED  BY <1>1, <2>2, <2>5, <2>6, <2>7 DEF OursInKernel
<1>5. CASE HandleStreamEvent
  <2>1. UNCHANGED <<counts, cpu>> /\ ring # <<>> /\ ring' = Tail(ring) /\ ring \in Seq(Pids)
    BY <1>5, WorkTypes DEF HandleStreamEvent
  <2>2. \A i \in DOMAIN ring' : i + 1 \in DOMAIN ring /\ ring'[i] = ring[i + 1]
    BY <2>1
  <2> QED  BY <1>1, <2>1, <2>2 DEF OursInKernel
<1>6. CASE SourceStep /\ ~HandleStreamEvent
  <2>1. UNCHANGED <<counts, cpu, ring>>
    BY <1>6, Zenon DEF SourceStep, StartLoad, ApplyFilterMaps, OpenPerfEvent, StartThread,
       SetCallback, StopBegin, StopEnd, StreamPollExit, kernel
  <2> QED  BY <1>2, <2>1
<1>7. CASE PipelineStep
  <2>1. UNCHANGED <<counts, cpu, ring>>
    BY <1>7, Zenon DEF PipelineStep, CollectBegin, CollectLookup, CollectEnqueue, TakeBatch,
       Symbolize, AddToWindow, Flush, ApiCollect, kernel
  <2> QED  BY <1>2, <2>1
<1>8. CASE (\E p \in Movers : Move(p)) \/ Tick \/ UNCHANGED vars
  <2>1. UNCHANGED <<counts, cpu, ring>>
    BY <1>8, Zenon DEF Move, Tick, vars, kernel
  <2> QED  BY <1>2, <2>1
<1> QED  BY <1>3, <1>4, <1>5, <1>6, <1>7, <1>8 DEF Next, ProbeStep

\* A step that adds nothing leaves only samples of the whitelist; what it may add is
\* a batch at the end of the queue, a batch in a worker's hands or merged samples.
LEMMA OursMoves ==
  ASSUME TypeOK, targets' = targets, OursInWork,
         keys' \subseteq targets,
         \A w \in Workers : Ours(batch'[w]),
         \A i \in DOMAIN queue' : Ours(queue'[i]),
         \A p \in Pids : p \notin targets => window'[p] = window[p] \/ window'[p].count = 0
  PROVE  OursInWork'
<1>1. keys' \subseteq targets' /\ \A p \in Pids : p \notin targets' => window'[p].count = 0
  BY DEF OursInWork
<1>2. \A w \in Workers : Ours(batch[w])'
  BY DEF Ours
<1>3. \A i \in DOMAIN queue' : \A j \in DOMAIN queue'[i] : queue'[i][j].pid \in targets'
  BY DEF Ours
<1> QED  BY <1>1, <1>2, <1>3 DEF OursInWork, Ours

LEMMA OursEnqueued ==
  ASSUME TypeOK, OursInWork, NEW b \in Seq(Rec), Ours(b), Enqueue(b)
  PROVE  \A i \in DOMAIN queue' : Ours(queue'[i])
<1>1. queue' = Append(queue, b) /\ queue \in Seq(Seq(Rec))
  BY WorkTypes DEF Enqueue
<1>2. \A i \in DOMAIN queue' : (i \in DOMAIN queue /\ queue'[i] = queue[i]) \/ queue'[i] = b
  BY <1>1
<1> QED  BY <1>2 DEF OursInWork

LEMMA OursCollected ==
  ASSUME TypeOK, targets' = targets, OursInKernel, OursInWork,
         CollectBegin \/ (\E p \in Pids : CollectLookup(p)) \/ CollectEnqueue
  PROVE  OursInWork'
<1>1. /\ batch \in [Workers -> Seq(Rec)] /\ batch["pool"] \in Seq(Rec)
      /\ keys \subseteq Pids /\ \A p \in Pids : counts[p] \in Nat
  BY WorkTypes, WorkersTwo
<1>2. window' = window
  BY DEF CollectBegin, CollectLookup, CollectEnqueue
<1>3. keys \subseteq targets /\ \A w \in Workers : Ours(batch[w])
  BY DEF OursInWork
<1>4. CASE CollectBegin
  <2>1. keys' \subseteq targets
    BY <1>1, <1>4 DEF CollectBegin, OursInKernel
  <2>2. batch' = batch /\ queue' = queue
    BY <1>4 DEF CollectBegin
  <2> QED  BY <1>2, <1>3, <2>1, <2>2, OursMoves DEF OursInWork
<1>5. ASSUME NEW p \in Pids, CollectLookup(p) PROVE OursInWork'
  <2>1. keys' \subseteq targets /\ p \in targets /\ queue' = queue
    BY <1>3, <1>5 DEF CollectLookup
  <2>2. Sample(p, counts[p]) \in Rec /\ Sample(p, counts[p]).pid = p
    BY <1>1, SampleType DEF Sample
  <2>3. PICK s : s = Sample(p, counts[p])
    OBVIOUS
  <2>4. PICK b \in Seq(Rec) : b = Append(batch["pool"], s)
    <3>1. Append(batch["pool"], s) \in Seq(Rec)
      BY <1>1, <2>2, <2>3
    <3> QED  BY <3>1, Zenon
  <2>5. \A i \in DOMAIN b : (i \in DOMAIN batch["pool"] /\ b[i] = batch["pool"][i]) \/ b[i] = s
    BY <1>1, <2>2, <2>3, <2>4
  <2>6. Ours(b)
    BY <1>3, <2>1, <2>2, <2>3, <2>5, WorkersTwo DEF Ours
  <2>7. batch' = [batch EXCEPT !["pool"] = b]
    BY <1>5, <2>3, <2>4 DEF CollectLookup
  <2>8. \A w \in Workers : Ours(batch'[w])
    <3>1. \A w \in Workers : batch'[w] = batch[w] \/ batch'[w] = b
      BY <1>1, <2>7
    <3> QED  BY <1>3, <2>6, <3>1
  <2> QED  BY <1>2, <2>1, <2>8, OursMoves DEF OursInWork
<1>6. CASE CollectEnqueue
  <2>1. Ours(batch["pool"])
    BY <1>3, WorkersTwo
  <2>2. keys' = keys /\ batch' = [batch EXCEPT !["pool"] = <<>>]
    BY <1>6 DEF CollectEnqueue
  <2>3. \A w \in Workers : Ours(batch'[w])
    <3>1. \A w \in Workers : batch'[w] = batch[w] \/ batch'[w] = <<>>
      BY <1>1, <2>2
    <3>2. Ours(<<>>)
      BY DEF Ours
    <3> QED  BY <1>3, <3>1, <3>2
  <2>4. \A i \in DOMAIN queue' : Ours(queue'[i])
    <3>1. queue' = queue \/ Enqueue(batch["pool"])
      BY <1>6 DEF CollectEnqueue
    <3> QED  BY <1>1, <2>1, <3>1, OursEnqueued DEF OursInWork
  <2> QED  BY <1>2, <1>3, <2>2, <2>3, <2>4, OursMoves
<1> QED  BY <1>4, <1>5, <1>6

LEMMA OursStreamed ==
  ASSUME TypeOK, targets' = targets, OursInKernel, OursInWork, HandleStreamEvent
  PROVE  OursInWork'
<1>1. UNCHANGED <<keys, batch, window>> /\ ring # <<>> /\ ring \in Seq(Pids)
  BY WorkTypes DEF HandleStreamEvent
<1>2. Head(ring) \in Pids /\ Head(ring) \in targets
  <2>1. 1 \in DOMAIN ring /\ Head(ring) = ring[1]
    BY <1>1
  <2> QED  BY <1>1, <2>1 DEF OursInKernel
<1>3. PICK b \in Seq(Rec) : b = <<Sample(Head(ring), 1)>>
  BY <1>2, SampleType
<1>4. Ours(b)
  BY <1>2, <1>3 DEF Ours, Sample
<1>5. queue' = queue \/ Enqueue(b)
  BY <1>3 DEF HandleStreamEvent
<1>6. \A i \in DOMAIN queue' : Ours(queue'[i])
  BY <1>4, <1>5, OursEnqueued DEF OursInWork
<1> QED  BY <1>1, <1>6, OursMoves DEF OursInWork

LEMMA OursProcessed ==
  ASSUME TypeOK, targets' = targets, OursInWork, TakeBatch \/ Symbolize \/ AddToWindow \/ Flush
  PROVE  OursInWork'
<1>1. keys' = keys /\ keys \subseteq targets /\ \A w \in Workers : Ours(batch[w])
  BY DEF OursInWork, TakeBatch, Symbolize, AddToWindow, Flush
<1>2. batch \in [Workers -> Seq(Rec)] /\ queue \in Seq(Seq(Rec))
  BY WorkTypes
<1>3. CASE TakeBatch
  <2>1. /\ queue # <<>> /\ queue' = Tail(queue) /\ window' = window
        /\ batch' = [batch EXCEPT !["loop"] = Head(queue)]
    BY <1>3 DEF TakeBatch
  <2>2. 1 \in DOMAIN queue /\ Head(queue) = queue[1]
    BY <1>2, <2>1
  <2>3. \A i \in DOMAIN queue' : i + 1 \in DOMAIN queue /\ queue'[i] = queue[i + 1]
    BY <1>2, <2>1
  <2>4. Ours(Head(queue)) /\ \A i \in DOMAIN queue' : Ours(queue'[i])
    BY <2>2, <2>3 DEF OursInWork
  <2>5. \A w \in Workers : batch'[w] = batch[w] \/ batch'[w] = Head(queue)
    BY <1>2, <2>1
  <2> QED  BY <1>1, <2>1, <2>4, <2>5, OursMoves
<1>4. CASE Symbolize
  <2>1. UNCHANGED <<queue, window>>
    BY <1>4 DEF Symbolize
  <2>2. \A w \in Workers : Ours(batch'[w])
    <3>1. PICK b \in Seq(Rec), n \in Seq(Rec) : b = batch["loop"] /\ n = batch'["loop"]
      BY <1>2, <1>4, NamesOnly, WorkersTwo
    <3>2. Len(n) = Len(b) /\ \A i \in 1..Len(b) : n[i].pid = b[i].pid
      BY <1>4, <3>1, NamesOnly
    <3>3. Ours(b) /\ DOMAIN b = 1..Len(b) /\ DOMAIN n = 1..Len(b)
      BY <1>1, <3>1, <3>2, WorkersTwo
    <3>4. Ours(batch'["loop"])
      BY <3>1, <3>2, <3>3 DEF Ours
    <3>5. Ours(batch'["pool"])
      BY <1>1, <1>4, NamesOnly, WorkersTwo
    <3> QED  BY <3>4, <3>5 DEF Workers
  <2> QED  BY <1>1, <2>1, <2>2, OursMoves DEF OursInWork
<1>5. CASE AddToWindow
  <2>1. /\ queue' = queue /\ batch' = [batch EXCEPT !["loop"] = <<>>]
        /\ window' = AddStack(window, Merge(batch["loop"]))
    BY <1>5 DEF AddToWindow
  <2>2. \A w \in Workers : Ours(batch'[w])
    <3>1. \A w \in Workers : batch'[w] = batch[w] \/ batch'[w] = <<>>
      BY <1>2, <2>1
    <3>2. Ours(<<>>)
      BY DEF Ours
    <3> QED  BY <1>1, <3>1, <3>2
  <2>3. PICK b \in Seq(Rec) : b = batch["loop"]
    BY <1>2, WorkersTwo
  <2>4. PICK M : M = Merge(b)
    OBVIOUS
  <2>5. \A s \in M : s.pid \in targets
    <3>1. M = {Merged(b, i) : i \in Firsts(b)} /\ Firsts(b) \subseteq DOMAIN b
      BY <2>4, MergeIsMerged DEF Firsts
    <3>2. \A i \in DOMAIN b : Merged(b, i).pid = b[i].pid
      BY MergedFacts
    <3>3. Ours(b)
      BY <1>1, <2>3, WorkersTwo
    <3> QED  BY <3>1, <3>2, <3>3 DEF Ours
  <2>6. \A p \in Pids : Mine(M, p) = {} => window'[p] = window[p]
    <3>1. M \subseteq Rec /\ IsFiniteSet(M) /\ window \in [Pids -> [count : Nat, name : 0 .. 2]]
      BY <2>4, MergeSum, WorkTypes
    <3> QED  BY <2>1, <2>3, <2>4, <3>1, AddStackSum
  <2>7. \A p \in Pids : p \notin targets => window'[p] = window[p]
    BY <2>5, <2>6 DEF Mine
  <2> QED  BY <1>1, <2>1, <2>2, <2>7, OursMoves DEF OursInWork
<1>6. CASE Flush
  <2>1. UNCHANGED <<batch, queue>> /\ window' = Empty
    BY <1>6 DEF Flush
  <2>2. \A p \in Pids : window'[p].count = 0
    BY <2>1 DEF Empty
  <2> QED  BY <1>1, <2>1, <2>2, OursMoves DEF OursInWork
<1> QED  BY <1>3, <1>4, <1>5, <1>6

LEMMA WorkOursKept ==
  ASSUME TypeOK, FiltersSet, OursInKernel, OursInWork, [Next]_vars
  PROVE  OursInWork'
<1>1. targets' = targets
  BY FiltersKept
<1>2. CASE UNCHANGED <<keys, batch, queue, window>>
  BY <1>1, <1>2, OursMoves DEF OursInWork
<1>3. CASE SourceStep
  <2>1. CASE HandleStreamEvent
    BY <1>1, <2>1, OursStreamed
  <2>2. CASE ~HandleStreamEvent
    <3>1. UNCHANGED <<keys, batch, queue, window>>
      BY <1>3, <2>2, Zenon DEF SourceStep, StartLoad, ApplyFilterMaps, OpenPerfEvent, StartThread,
         SetCallback, StopBegin, StopEnd, StreamPollExit, work
    <3> QED  BY <1>2, <3>1
  <2> QED  BY <2>1, <2>2
<1>4. CASE PipelineStep
  <2>1. CASE ApiCollect
    BY <1>2, <2>1 DEF ApiCollect, work
  <2> QED  BY <1>1, <1>4, <2>1, OursCollected, OursProcessed DEF PipelineStep
<1>5. CASE ProbeStep
  <2>1. UNCHANGED <<keys, batch, queue, window>>
    BY <1>5, Zenon DEF ProbeStep, TakeSample, Insert, work
  <2> QED  BY <1>2, <2>1
<1>6. CASE (\E p \in Movers : Move(p)) \/ Tick \/ UNCHANGED vars
  <2>1. UNCHANGED <<keys, batch, queue, window>>
    BY <1>6, Zenon DEF Move, Tick, vars, work
  <2> QED  BY <1>2, <2>1
<1> QED  BY <1>3, <1>4, <1>5, <1>6 DEF Next

-----------------------------------------------------------------------------
(* The age of the names *)

\* What Process leaves in the cache for a process: nothing, what it found, or what it
\* loaded; for a process it resolved, no expired entry.
LEMMA CacheChoices ==
  ASSUME NEW P, NEW p \in Pids
  PROVE  /\ CacheAfter(P)[p] \in {NoEntry, LoadMaps(p), cache[p]}
         /\ p \in P => CacheAfter(P)[p] = LoadMaps(p) \/ ~Expired(CacheAfter(P)[p])
<1> DEFINE kept == PurgeExpiredMapsCaches(cache)
<1>1. kept[p] = NoEntry \/ kept[p] = cache[p]
  BY Zenon DEF PurgeExpiredMapsCaches
<1>2. ResolveUser(kept, p) = LoadMaps(p) \/ (ResolveUser(kept, p) = kept[p] /\ ~Expired(kept[p]))
  BY Zenon DEF ResolveUser
<1>3. CacheAfter(P)[p] = IF p \in P THEN ResolveUser(kept, p) ELSE kept[p]
  BY DEF CacheAfter
<1> HIDE DEF kept
<1>4. CASE p \in P
  <2>1. CacheAfter(P)[p] = ResolveUser(kept, p)
    BY <1>3, <1>4
  <2> QED  BY <1>1, <1>2, <2>1
<1>5. CASE p \notin P
  <2>1. CacheAfter(P)[p] = kept[p]
    BY <1>3, <1>5
  <2> QED  BY <1>1, <1>5, <2>1
<1> QED  BY <1>4, <1>5

LEMMA StaleAfter ==
  ASSUME StaleSince, NEW P, cache' = CacheAfter(P)
  PROVE  StaleSince'
<1>1. ASSUME NEW p \in Pids PROVE cache'[p].stale <= cache'[p].age
  <2>1. NoEntry.stale <= NoEntry.age /\ LoadMaps(p).stale <= LoadMaps(p).age
    BY DEF NoEntry, LoadMaps
  <2>2. cache[p].stale <= cache[p].age
    BY DEF StaleSince
  <2>3. cache'[p] = NoEntry \/ cache'[p] = LoadMaps(p) \/ cache'[p] = cache[p]
    BY CacheChoices
  <2> QED  BY <2>1, <2>2, <2>3
<1> QED  BY <1>1 DEF StaleSince

LEMMA StaleTick ==
  ASSUME TypeOK, StaleSince, Tick
  PROVE  StaleSince'
<1>1. ASSUME NEW p \in Pids PROVE Aged(p).stale <= Aged(p).age
  <2>1. PICK e \in [layout : 0 .. 2, age : 0 .. MaxAge, stale : 0 .. MaxAge] : e = cache[p]
    BY WorkTypes
  <2>2. e.stale <= e.age
    BY <2>1 DEF StaleSince
  <2>3. PICK a \in 0 .. MaxAge, s \in 0 .. MaxAge : a = Older(e.age) /\ s = Older(e.stale)
    BY MaxAgeType
  <2>4. s <= a /\ 0 <= a
    <3>1. MaxAge \in Nat /\ e.age \in 0 .. MaxAge /\ e.stale \in 0 .. MaxAge
      BY MaxAgeType
    <3> QED  BY <2>2, <2>3, <3>1 DEF Older
  <2>5. PICK z \in 0 .. MaxAge : z = (IF e.layout = layout[p] THEN 0 ELSE s) /\ z <= a
    <3>1. 0 \in 0 .. MaxAge
      BY MaxAgeType
    <3>2. CASE e.layout = layout[p]
      BY <2>4, <3>1, <3>2
    <3>3. CASE e.layout # layout[p]
      BY <2>3, <2>4, <3>3
    <3> QED  BY <3>2, <3>3
  <2>6. Aged(p) = IF e.layout = 0 THEN e ELSE [e EXCEPT !.age = a, !.stale = z]
    BY <2>1, <2>3, <2>5 DEF Aged
  <2> QED  BY <2>2, <2>5, <2>6
<1>2. \A p \in Pids : cache'[p] = Aged(p)
  BY DEF Tick
<1> QED  BY <1>1, <1>2 DEF StaleSince

LEMMA StaleKept ==
  ASSUME TypeOK, StaleSince, [Next]_vars
  PROVE  StaleSince'
<1>1. CASE cache' = cache
  BY <1>1 DEF StaleSince
<1>2. CASE Symbolize
  BY <1>2, StaleAfter DEF Symbolize
<1>3. CASE ApiCollect
  BY <1>3, StaleAfter DEF ApiCollect
<1>4. CASE Tick
  BY <1>4, StaleTick
<1>5. CASE SourceStep
  <2>1. cache' = cache
    BY <1>5, Zenon DEF SourceStep, StartLoad, ApplyFilterMaps, OpenPerfEvent, StartThread,
       SetCallback, StopBegin, StopEnd, HandleStreamEvent, StreamPollExit
  <2> QED  BY <1>1, <2>1
<1>6. CASE ProbeStep
  <2>1. cache' = cache
    BY <1>6, Zenon DEF ProbeStep, TakeSample, Insert
  <2> QED  BY <1>1, <2>1
<1>7. CASE PipelineStep
  <2>1. cache' = cache \/ Symbolize \/ ApiCollect
    BY <1>7, Zenon DEF PipelineStep, CollectBegin, CollectLookup, CollectEnqueue, TakeBatch,
       AddToWindow, Flush
  <2> QED  BY <1>1, <1>2, <1>3, <2>1
<1>8. CASE (\E p \in Movers : Move(p)) \/ UNCHANGED vars
  <2>1. cache' = cache
    BY <1>8, Zenon DEF Move, vars
  <2> QED  BY <1>1, <2>1
<1> QED  BY <1>4, <1>5, <1>6, <1>7, <1>8 DEF Next

\* At most n whole units of t are less than n + 1 units.
LEMMA WholeUnits ==
  ASSUME NEW a \in Nat, NEW t \in Nat \ {0}, NEW n \in Nat, a \div t <= n
  PROVE  a < t * (n + 1)
<1>1. PICK q \in Int, r \in Int : q = a \div t /\ r = a % t
  OBVIOUS
<1>2. a = t * q + r /\ r < t
  BY <1>1
<1>3. t * q <= t * n
  BY <1>1
<1>4. t * (n + 1) = t * n + t
  OBVIOUS
<1> QED  BY <1>2, <1>3, <1>4

-----------------------------------------------------------------------------
(* The theorems *)

LEMMA ProfileInit == Init => ProfileInv
<1> SUFFICES ASSUME Init PROVE ProfileInv
  OBVIOUS
<1>1. TypeOK
  <2>1. /\ mode \in {"stream", "aggregated"} /\ targets \in SUBSET Pids
        /\ src = "off" /\ untried \subseteq Cpus /\ on = {} /\ callback = FALSE /\ poll = "none"
        /\ keys = {} /\ owed = 0
    BY ProfilingAssumption DEF Init
  <2>2. flags \in [stream : BOOLEAN, filter : BOOLEAN, pids : SUBSET Pids]
    BY DEF Init
  <2>3. cpu \in [Cpus -> Pids \cup {None}] /\ taken \in [Pids -> Nat] /\ counts \in [Pids -> Nat]
        /\ ring \in Seq(Pids) /\ layout \in [Pids -> 0 .. 2]
    BY DEF Init
  <2>4. cache \in [Pids -> [layout : 0 .. 2, age : 0 .. MaxAge, stale : 0 .. MaxAge]]
    BY MaxAgeType DEF Init, NoEntry
  <2>5. pc \in [Workers -> {"idle", "collect", "process", "named"}]
    BY DEF Init
  <2>6. batch \in [Workers -> Seq(Rec)] /\ queue \in Seq(Seq(Rec))
    BY DEF Init
  <2>7. window \in [Pids -> [count : Nat, name : 0 .. 2]]
    BY EmptyWindow DEF Init
  <2> QED  BY <2>1, <2>2, <2>3, <2>4, <2>5, <2>6, <2>7 DEF TypeOK, Rec
<1>2. FiltersSet
  BY DEF Init, FiltersSet
<1>3. OnlyOurs
  <2>1. OursInKernel
    BY DEF Init, OursInKernel
  <2>2. \A w \in Workers : batch[w] = <<>>
    BY DEF Init
  <2>3. OursInWork
    BY <2>2 DEF Init, OursInWork, Ours, Empty
  <2> QED  BY <2>1, <2>3 DEF OnlyOurs
<1>4. Lost
  <2>1. ASSUME NEW p \in Pids PROVE SampleLost(p)
    <3>1. Waiting(p) = {}
      BY ProfilingAssumption DEF Init, Waiting
    <3>2. Cardinality(Waiting(p)) = 0
      BY <3>1, FS_EmptySet
    <3>3. counts[p] = 0 /\ taken[p] = 0
      BY DEF Init
    <3> QED  BY <3>2, <3>3 DEF SampleLost
  <2> QED  BY <2>1 DEF Lost
<1>5. Conserved
  <2>1. queue = <<>> /\ batch["loop"] = <<>> /\ window = Empty /\ owed = 0
    BY WorkersTwo DEF Init
  <2> QED  BY <2>1, NothingYet, EmptyWindow, ConservedForm
<1>6. EmptyHands
  BY WorkersTwo DEF Init, EmptyHands
<1>7. StaleSince
  BY DEF Init, StaleSince, NoEntry
<1> QED  BY <1>1, <1>2, <1>3, <1>4, <1>5, <1>6, <1>7 DEF ProfileInv

LEMMA ProfileStep == ProfileInv /\ [Next]_vars => ProfileInv'
<1> SUFFICES ASSUME ProfileInv, [Next]_vars PROVE ProfileInv'
  OBVIOUS
<1>1. TypeOK /\ FiltersSet /\ OnlyOurs /\ Lost /\ Conserved /\ EmptyHands /\ StaleSince
  BY DEF ProfileInv
<1>2. OnlyOurs'
  <2>1. targets' = targets
    BY <1>1, FiltersKept
  <2> QED  BY <1>1, <2>1, KernelOursKept, WorkOursKept DEF OnlyOurs
<1> QED  BY <1>1, <1>2, TypesKept, FiltersKept, LostKept, CountsKept, StaleKept DEF ProfileInv

\* In every state of the profile pipeline the variables have their types, the whitelist
\* is in the kernel whenever an event can fire, only its processes are on their way,
\* the map has lost only what the race on an entry or a full map explains, every count
\* handed over is in one place, and no cache entry is staler than it is old.
THEOREM ProfileInvariant == Spec => []ProfileInv
<1> QED  BY ProfileInit, ProfileStep, PTL DEF Spec

LEMMA LostBound ==
  ASSUME TypeOK, Lost
  PROVE  LostAtMost
<1>1. ASSUME NEW p \in Pids
      PROVE  /\ counts[p] + Cardinality(Waiting(p)) <= taken[p]
             /\ counts[p] > 0 =>
                  taken[p] - Cardinality(Waiting(p)) - counts[p] < Cardinality(Cpus)
  <2>1. PICK w \in Nat, k \in Nat : w = Cardinality(Waiting(p)) /\ k = Cardinality(Cpus)
    BY WaitingCounts
  <2>2. counts[p] \in Nat /\ taken[p] \in Nat
    BY WorkTypes
  <2>3. counts[p] + w <= taken[p] /\ (counts[p] > 0 => taken[p] - counts[p] < k)
    BY <2>1 DEF Lost, SampleLost
  <2> QED  BY <2>1, <2>2, <2>3
<1> QED  BY <1>1 DEF LostAtMost, Waiting

\* CountsSound holds in every reachable state: on any number of CPUs the map of
\* on_cpu_sample invents no sample and loses fewer than there are CPUs of a stack that
\* has an entry, enqueueing, merging, windowing and flushing keep every count, and with
\* a whitelist nothing of another process is counted from the first sample on.
THEOREM CountsAreSound == Spec => []CountsSound
<1>1. ProfileInv => CountsSound
  <2> SUFFICES ASSUME ProfileInv PROVE CountsSound
    OBVIOUS
  <2>1. TypeOK /\ Lost /\ OnlyOurs /\ Conserved
    BY DEF ProfileInv
  <2>2. LostAtMost
    BY <2>1, LostBound
  <2>3. OnlyTargets
    BY <2>1 DEF OnlyTargets, OnlyOurs, OursInKernel, OursInWork
  <2> QED  BY <2>1, <2>2, <2>3 DEF CountsSound
<1> QED  BY <1>1, ProfileInvariant, PTL

\* Only Symbolize takes the process thread from an unnamed batch to a named one.
LEMMA OnlySymbolizeNames ==
  ASSUME TypeOK, [Next]_vars, pc["loop"] = "process", pc'["loop"] = "named"
  PROVE  Symbolize
<1>1. pc'["loop"] # pc["loop"]
  OBVIOUS
<1>2. pc \in [Workers -> {"idle", "collect", "process", "named"}]
  BY WorkTypes
<1>3. ~UNCHANGED pc
  BY <1>1
<1>4. PipelineStep
  <2>1. ~SourceStep
    BY <1>3, Zenon DEF SourceStep, StartLoad, ApplyFilterMaps, OpenPerfEvent, StartThread,
       SetCallback, StopBegin, StopEnd, HandleStreamEvent, StreamPollExit, work
  <2>2. ~ProbeStep
    BY <1>3, Zenon DEF ProbeStep, TakeSample, Insert, work
  <2>3. ~((\E p \in Movers : Move(p)) \/ Tick \/ UNCHANGED vars)
    BY <1>3, Zenon DEF Move, Tick, vars, work
  <2> QED  BY <2>1, <2>2, <2>3 DEF Next
<1>5. ~(CollectBegin \/ CollectEnqueue)
  <2>1. CollectBegin \/ CollectEnqueue => \E s : pc' = [pc EXCEPT !["pool"] = s]
    BY DEF CollectBegin, CollectEnqueue
  <2> QED  BY <1>1, <1>2, <2>1, WorkersTwo
<1>6. ~TakeBatch /\ ~AddToWindow
  BY DEF TakeBatch, AddToWindow
<1>7. ~(\E p \in Pids : CollectLookup(p)) /\ ~Flush /\ ~ApiCollect
  BY <1>3, Zenon DEF CollectLookup, Flush, ApiCollect, work
<1> QED  BY <1>4, <1>5, <1>6, <1>7 DEF PipelineStep

\* With a cache life time set, the names Symbolize gives are never those of an address
\* space the process left TtlSec + 1 seconds ago or earlier, however often the entry is
\* used, purged or reloaded by the API thread.  (cache_ttl_sec = 0 turns expiry off.)
THEOREM NamesStayFresh ==
  ASSUME TtlSec # 0
  PROVE  Spec => NamesFresh
<1> DEFINE Fresh == \A i \in DOMAIN batch'["loop"] :
                      cache'[batch'["loop"][i].pid].stale < TicksPerSec * (TtlSec + 1)
<1>1. ASSUME ProfileInv, ProfileInv', [Next]_vars, pc["loop"] = "process", pc'["loop"] = "named"
      PROVE  Fresh
  <2>1. TypeOK /\ TypeOK' /\ StaleSince'
    BY <1>1 DEF ProfileInv
  <2>2. Symbolize
    BY <1>1, <2>1, OnlySymbolizeNames
  <2>3. PICK b \in Seq(Rec), n \in Seq(Rec) : b = batch["loop"] /\ n = batch'["loop"]
    BY <2>1, <2>2, WorkTypes, WorkersTwo, NamesOnly
  <2>4. Len(n) = Len(b) /\ \A i \in 1..Len(b) : n[i].pid = b[i].pid
    BY <2>1, <2>2, <2>3, NamesOnly
  <2>5. PICK P : P = {b[i].pid : i \in DOMAIN b}
    OBVIOUS
  <2>6. cache' = CacheAfter(P)
    BY <2>2, <2>3, <2>5 DEF Symbolize
  <2>7. ASSUME NEW i \in DOMAIN n PROVE cache'[n[i].pid].stale < TicksPerSec * (TtlSec + 1)
    <3>1. i \in DOMAIN b /\ n[i].pid = b[i].pid /\ b[i] \in Rec
      BY <2>4
    <3>2. PICK p \in Pids : p = n[i].pid /\ p \in P
      BY <2>5, <3>1 DEF Rec
    <3>3. PICK e \in [layout : 0 .. 2, age : 0 .. MaxAge, stale : 0 .. MaxAge] : e = cache'[p]
      BY <2>1, <2>6, CacheTypes
    <3>4. e = LoadMaps(p) \/ ~Expired(e)
      BY <2>6, <3>2, <3>3, CacheChoices
    <3>5. e.stale <= e.age /\ e.stale \in Nat /\ e.age \in Nat
      BY <2>1, <3>3, MaxAgeType DEF StaleSince
    <3>6. PICK m \in Nat : m = TicksPerSec * (TtlSec + 1) /\ m > 0
      BY ProfilingAssumption
    <3>7. CASE e = LoadMaps(p)
      <4>1. e.stale = 0
        BY <3>7 DEF LoadMaps
      <4>2. cache'[n[i].pid].stale = 0
        BY <3>2, <3>3, <4>1
      <4> QED  BY <3>6, <4>2
    <3>8. CASE ~Expired(e)
      <4>1. e.age \div TicksPerSec <= TtlSec
        <5>1. PICK q \in Int : q = e.age \div TicksPerSec
          BY <3>5, ProfilingAssumption
        <5> QED  BY <3>8, <5>1, ProfilingAssumption DEF Expired, Age
      <4>2. e.age < m
        BY <3>5, <3>6, <4>1, WholeUnits, ProfilingAssumption
      <4> QED  BY <3>2, <3>3, <3>5, <3>6, <4>2
    <3> QED  BY <3>4, <3>7, <3>8
  <2> QED  BY <2>3, <2>7
<1>2. ProfileInv /\ ProfileInv' /\ [Next]_vars =>
        [pc["loop"] = "process" /\ pc'["loop"] = "named" => Fresh]_vars
  BY <1>1
<1> QED  BY <1>2, ProfileInvariant, PTL DEF Spec, NamesFresh
=============================================================================
