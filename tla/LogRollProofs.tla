----------------------------- MODULE LogRollProofs -----------------------------
(***************************************************************************)
(* Theorems about the sizes that RollFileFlush counts (LogFlush.hpp:114),   *)
(* for any instants, sizes of batches, limits and numbers of batches and    *)
(* runs.  The bytes in a file are a sum over its batches; what is proved    *)
(* about sums rests on the least-element principle of the natural numbers.  *)
(***************************************************************************)
EXTENDS LogFlushProofs, WellFoundedInduction

-----------------------------------------------------------------------------
(* Sums                                                                     *)

LEMMA Smallest ==
  ASSUME NEW T, T \subseteq Nat, T # {}
  PROVE  \E m \in T : \A k \in T : m <= k
<1> DEFINE R == OpToRel(<, Nat)
<1>1. IsWellFoundedOn(R, Nat)
  BY NatLessThanWellFounded
<1>2. \A x, y \in Nat : x < y => <<x, y>> \in R
  BY DEF OpToRel
<1> HIDE DEF R
<1>3. PICK m \in T : \A k \in T : ~(<<k, m>> \in R)
  BY <1>1, WFMin
<1>4. \A k \in T : k \in Nat
  OBVIOUS
<1>5. \A k \in T : ~(k < m)
  BY <1>2, <1>3, <1>4
<1> QED
  BY <1>4, <1>5

(* What holds at 0 and passes from each place to the next holds everywhere. *)
LEMMA Climb ==
  ASSUME NEW n \in Nat, NEW P, 0 \in P, \A i \in 1 .. n : i - 1 \in P => i \in P
  PROVE  \A i \in 0 .. n : i \in P
<1> DEFINE T == {i \in 0 .. n : i \notin P}
<1>1. SUFFICES ASSUME T # {} PROVE FALSE
  OBVIOUS
<1>2. T \subseteq Nat
  OBVIOUS
<1>3. \A i \in 0 .. n : i \notin P => i \in T
  OBVIOUS
<1>4. \A i \in T : i \in 0 .. n /\ i \notin P
  OBVIOUS
<1> HIDE DEF T
<1>5. PICK m \in T : \A k \in T : m <= k
  BY <1>1, <1>2, Smallest
<1>6. m \in 1 .. n
  BY <1>4
<1>7. m - 1 \in 0 .. n /\ ~(m <= m - 1)
  BY <1>6
<1>8. m - 1 \in P
  BY <1>3, <1>5, <1>7
<1> QED
  BY <1>4, <1>6, <1>8

(* The partial sums of numbers.                                             *)
Sums(f, w, n) == f \in [0 .. n -> Nat] /\ f[0] = 0 /\ \A i \in 1 .. n : f[i] = f[i - 1] + w[i]

LEMMA SumsExist ==
  ASSUME NEW n \in Nat, NEW w \in [1 .. n -> Nat]
  PROVE  \E f : Sums(f, w, n)
<1> DEFINE P == {k \in 0 .. n : \E f : Sums(f, w, k)}
<1>1. 0 \in P
  <2>1. Sums([i \in 0 .. 0 |-> 0], w, 0)
    BY DEF Sums
  <2> QED
    BY <2>1
<1>2. ASSUME NEW k \in 1 .. n, k - 1 \in P PROVE k \in P
  <2>1. PICK f : Sums(f, w, k - 1)
    BY <1>2
  <2> DEFINE g == [i \in 0 .. k |-> IF i = k THEN f[k - 1] + w[k] ELSE f[i]]
  <2>2. /\ f \in [0 .. k - 1 -> Nat] /\ f[0] = 0
        /\ \A i \in 1 .. k - 1 : f[i] = f[i - 1] + w[i]
    BY <2>1 DEF Sums
  <2>3. w[k] \in Nat /\ f[k - 1] \in Nat
    BY <2>2
  <2>4. g \in [0 .. k -> Nat]
    BY <2>2, <2>3
  <2>5. g[k] = f[k - 1] + w[k] /\ \A i \in 0 .. k - 1 : g[i] = f[i]
    OBVIOUS
  <2> HIDE DEF g
  <2>6. ASSUME NEW i \in 1 .. k PROVE g[i] = g[i - 1] + w[i]
    <3>1. CASE i = k
      BY <2>5, <3>1
    <3>2. CASE i # k
      <4>1. i \in 1 .. k - 1 /\ i \in 0 .. k - 1 /\ i - 1 \in 0 .. k - 1
        BY <3>2
      <4> QED
        BY <2>2, <2>5, <4>1
    <3> QED
      BY <3>1, <3>2
  <2>7. g[0] = 0
    BY <2>2, <2>5
  <2>8. Sums(g, w, k)
    BY <2>4, <2>6, <2>7 DEF Sums
  <2> QED
    BY <2>8
<1>3. \A k \in P : \E f : Sums(f, w, k)
  OBVIOUS
<1> HIDE DEF P
<1>4. \A k \in 1 .. n : k - 1 \in P => k \in P
  BY <1>2
<1>5. \A k \in 0 .. n : k \in P
  BY <1>1, <1>4, Climb
<1> QED
  BY <1>3, <1>5

(* Two sums of the same numbers are the same.                               *)
LEMMA SumsSame ==
  ASSUME NEW n \in Nat, NEW v, NEW w, NEW f, NEW g, Sums(f, v, n), Sums(g, w, n),
         \A i \in 1 .. n : v[i] = w[i]
  PROVE  \A i \in 0 .. n : f[i] = g[i]
<1> DEFINE P == {i \in 0 .. n : f[i] = g[i]}
<1>1. 0 \in P
  BY DEF Sums
<1>2. \A i \in 1 .. n : i - 1 \in P => i \in P
  BY DEF Sums
<1>3. \A i \in P : f[i] = g[i]
  OBVIOUS
<1> HIDE DEF P
<1> QED
  BY <1>1, <1>2, <1>3, Climb

(* A sum of natural numbers never falls.                                    *)
LEMMA SumsRise ==
  ASSUME NEW n \in Nat, NEW w \in [1 .. n -> Nat], NEW f, Sums(f, w, n),
         NEW m \in 0 .. n
  PROVE  \A i \in 0 .. n : m <= i => f[m] <= f[i]
<1> DEFINE P == {i \in 0 .. n : m <= i => f[m] <= f[i]}
<1>1. /\ \A i \in 0 .. n : f[i] \in Nat
      /\ \A i \in 1 .. n : f[i] = f[i - 1] + w[i] /\ w[i] \in Nat /\ i - 1 \in 0 .. n
  BY DEF Sums
<1>2. 0 \in P
  BY <1>1
<1>3. ASSUME NEW i \in 1 .. n, i - 1 \in P PROVE i \in P
  <2>1. CASE m = i
    BY <1>1, <2>1
  <2>2. CASE m # i
    BY <1>1, <1>3, <2>2
  <2> QED
    BY <2>1, <2>2
<1>4. \A i \in P : m <= i => f[m] <= f[i]
  OBVIOUS
<1> HIDE DEF P
<1> QED
  BY <1>2, <1>3, <1>4, Climb

-----------------------------------------------------------------------------
(* The bytes of a file                                                      *)

BytesOf(s, runs) == [i \in 1 .. Len(s) |-> IF s[i].run \in runs THEN s[i].size ELSE 0]

(* The count is the sum its definition asks for.                            *)
LEMMA Counted ==
  ASSUME NEW s \in Seq(Batch), NEW runs
  PROVE  /\ Len(s) \in Nat
         /\ BytesOf(s, runs) \in [1 .. Len(s) -> Nat]
         /\ Sums(BytesUpTo(s, runs), BytesOf(s, runs), Len(s))
<1> DEFINE n == Len(s)
           w == BytesOf(s, runs)
           g(f) == [i \in 0 .. Len(s) |->
                     IF i = 0 THEN 0
                     ELSE f[i - 1] + (IF s[i].run \in runs THEN s[i].size ELSE 0)]
<1>1. n \in Nat /\ \A i \in 1 .. n : s[i].size \in Nat
  BY RangeOf, BatchFields
<1>2. w \in [1 .. n -> Nat]
  BY <1>1 DEF BytesOf
<1>3. \A i \in 1 .. n : w[i] = IF s[i].run \in runs THEN s[i].size ELSE 0
  BY DEF BytesOf
<1>4. PICK f : Sums(f, w, n)
  BY <1>1, <1>2, SumsExist
<1>5. f = g(f)
  <2>1. f \in [0 .. n -> Nat] /\ f[0] = 0
        /\ \A i \in 1 .. n : f[i] = f[i - 1] + w[i]
    BY <1>4 DEF Sums
  <2>2. \A i \in 0 .. n : f[i] = g(f)[i]
    BY <1>1, <1>3, <2>1
  <2> QED
    BY <2>1, <2>2
<1>6. BytesUpTo(s, runs) = g(BytesUpTo(s, runs))
  BY <1>5 DEF BytesUpTo
<1> DEFINE h == BytesUpTo(s, runs)
<1>7. /\ DOMAIN h = 0 .. n /\ h[0] = 0
      /\ \A i \in 1 .. n : h[i] = h[i - 1] + w[i]
  BY <1>1, <1>3, <1>6
<1>8. h = [i \in 0 .. n |-> h[i]]
  BY <1>6
<1> HIDE DEF h, w, n
<1>9. \A i \in 0 .. n : h[i] \in Nat
  <2> DEFINE P == {i \in 0 .. n : h[i] \in Nat}
  <2>1. 0 \in P
    BY <1>1, <1>7
  <2>2. \A i \in 1 .. n : i - 1 \in P => i \in P
    BY <1>2, <1>7
  <2>3. \A i \in P : h[i] \in Nat
    OBVIOUS
  <2> HIDE DEF P
  <2> QED
    BY <1>1, <2>1, <2>2, <2>3, Climb
<1> QED
  BY <1>1, <1>2, <1>7, <1>8, <1>9 DEF Sums, h, w, n

(* What is counted of a beginning is what is counted up to its end.         *)
LEMMA CountedBegins ==
  ASSUME NEW s \in Seq(Batch), NEW t \in Seq(Batch), Begins(s, t), NEW runs
  PROVE  /\ \A i \in 0 .. Len(s) : BytesUpTo(s, runs)[i] = BytesUpTo(t, runs)[i]
         /\ Bytes(s, runs) \in Nat /\ Bytes(t, runs) \in Nat
         /\ Bytes(s, runs) <= Bytes(t, runs)
<1> DEFINE f == BytesUpTo(s, runs)
           g == BytesUpTo(t, runs)
           v == BytesOf(s, runs)
           w == BytesOf(t, runs)
<1>1. /\ Len(s) \in Nat /\ Len(t) \in Nat /\ Len(s) <= Len(t)
      /\ \A i \in 1 .. Len(s) : t[i] = s[i]
      /\ \A i \in 1 .. Len(s) : i \in 1 .. Len(t)
  BY LenProperties DEF Begins
<1>2. /\ Sums(f, v, Len(s)) /\ Sums(g, w, Len(t))
      /\ w \in [1 .. Len(t) -> Nat]
  BY Counted
<1>3. \A i \in 1 .. Len(s) : v[i] = w[i]
  BY <1>1 DEF BytesOf
<1> HIDE DEF f, g, v, w
<1> DEFINE k == [i \in 0 .. Len(s) |-> g[i]]
<1>4. Sums(k, w, Len(s))
  BY <1>1, <1>2 DEF Sums
<1>5. \A i \in 0 .. Len(s) : k[i] = g[i]
  OBVIOUS
<1> HIDE DEF k
<1>6. \A i \in 0 .. Len(s) : f[i] = k[i]
  BY <1>1, <1>2, <1>3, <1>4, SumsSame
<1>7. \A i \in 0 .. Len(s) : f[i] = g[i]
  BY <1>5, <1>6
<1>8. Len(s) \in 0 .. Len(t) /\ Len(t) \in 0 .. Len(t) /\ Len(s) \in 0 .. Len(s)
  BY <1>1
<1>9. g[Len(s)] <= g[Len(t)]
  BY <1>1, <1>2, <1>8, SumsRise
<1>10. f[Len(s)] = g[Len(s)] /\ f[Len(s)] \in Nat /\ g[Len(t)] \in Nat
  BY <1>2, <1>7, <1>8 DEF Sums
<1> QED
  BY <1>7, <1>9, <1>10 DEF f, g, Bytes

(* Where no batch of the runs is, nothing is counted.                       *)
LEMMA CountedNone ==
  ASSUME NEW s \in Seq(Batch), NEW runs, \A i \in 1 .. Len(s) : s[i].run \notin runs
  PROVE  Bytes(s, runs) = 0
<1> DEFINE f == BytesUpTo(s, runs)
           z == [i \in 1 .. Len(s) |-> 0]
           k == [i \in 0 .. Len(s) |-> 0]
<1>1. Len(s) \in Nat /\ Sums(f, BytesOf(s, runs), Len(s))
  BY Counted
<1>2. \A i \in 1 .. Len(s) : BytesOf(s, runs)[i] = z[i]
  BY DEF BytesOf
<1>3. Sums(k, z, Len(s)) /\ \A i \in 0 .. Len(s) : k[i] = 0
  BY <1>1 DEF Sums
<1> HIDE DEF f, z, k
<1>4. \A i \in 0 .. Len(s) : f[i] = k[i]
  BY <1>1, <1>2, <1>3, SumsSame
<1>5. Len(s) \in 0 .. Len(s)
  BY <1>1
<1> QED
  BY <1>3, <1>4, <1>5 DEF f, Bytes

(* Among batches of these runs, it does not matter which others are         *)
(* counted.                                                                 *)
LEMMA CountedAlike ==
  ASSUME NEW s \in Seq(Batch), NEW runs, NEW others,
         \A i \in 1 .. Len(s) : s[i].run \in runs <=> s[i].run \in others
  PROVE  Bytes(s, runs) = Bytes(s, others)
<1>1. /\ Len(s) \in Nat
      /\ Sums(BytesUpTo(s, runs), BytesOf(s, runs), Len(s))
      /\ Sums(BytesUpTo(s, others), BytesOf(s, others), Len(s))
  BY Counted
<1>2. \A i \in 1 .. Len(s) : BytesOf(s, runs)[i] = BytesOf(s, others)[i]
  BY DEF BytesOf
<1>3. \A i \in 0 .. Len(s) : BytesUpTo(s, runs)[i] = BytesUpTo(s, others)[i]
  BY <1>1, <1>2, SumsSame
<1>4. Len(s) \in 0 .. Len(s)
  BY <1>1
<1> QED
  BY <1>3, <1>4 DEF Bytes

(* An end has no more than the whole.                                       *)
LEMMA CountedEnd ==
  ASSUME NEW s \in Seq(Batch), NEW t \in Seq(Batch), NEW runs
  PROVE  Bytes(t, runs) <= Bytes(s \o t, runs)
<1> DEFINE f == BytesUpTo(t, runs)
           g == BytesUpTo(s \o t, runs)
           v == BytesOf(t, runs)
           w == BytesOf(s \o t, runs)
           m == Len(s)
           n == Len(t)
<1>1. /\ s \o t \in Seq(Batch) /\ Len(s \o t) = m + n
      /\ \A i \in 1 .. m + n : (s \o t)[i] = IF i <= m THEN s[i] ELSE t[i - m]
      /\ m \in Nat /\ n \in Nat
  BY ConcatProperties, LenProperties
<1>2. /\ Sums(f, v, n) /\ Sums(g, w, m + n)
  BY <1>1, Counted
<1>3. \A i \in 1 .. n : m + i \in 1 .. m + n /\ (s \o t)[m + i] = t[i]
  BY <1>1
<1>4. \A i \in 1 .. n : w[m + i] = v[i]
  BY <1>1, <1>3 DEF BytesOf
<1>6. v \in [1 .. n -> Nat]
  BY Counted
<1> HIDE DEF f, g, v, w, m, n
<1>5. \A i \in 1 .. n : g[m + i] = g[m + (i - 1)] + v[i]
  <2>1. \A i \in 1 .. n : m + i \in 1 .. m + n /\ (m + i) - 1 = m + (i - 1)
    BY <1>1
  <2> QED
    BY <1>2, <1>4, <2>1 DEF Sums
<1>7. /\ \A i \in 0 .. n : f[i] \in Nat /\ g[m + i] \in Nat
      /\ f[0] = 0 /\ \A i \in 1 .. n : f[i] = f[i - 1] + v[i]
  <2>1. \A i \in 0 .. n : m + i \in 0 .. m + n
    BY <1>1
  <2> QED
    BY <1>2, <2>1 DEF Sums
<1> DEFINE P == {i \in 0 .. n : f[i] <= g[m + i]}
<1>8. 0 \in P
  BY <1>1, <1>7
<1>9. ASSUME NEW i \in 1 .. n, i - 1 \in P PROVE i \in P
  <2>1. i \in 0 .. n /\ i - 1 \in 0 .. n /\ f[i - 1] <= g[m + (i - 1)]
    BY <1>1, <1>9
  <2>2. /\ f[i] = f[i - 1] + v[i] /\ g[m + i] = g[m + (i - 1)] + v[i]
        /\ f[i - 1] \in Nat /\ g[m + (i - 1)] \in Nat /\ v[i] \in Nat
    BY <1>5, <1>6, <1>7, <2>1
  <2>3. f[i] <= g[m + i]
    BY <2>1, <2>2
  <2> QED
    BY <2>1, <2>3
<1>10. \A i \in P : f[i] <= g[m + i]
  OBVIOUS
<1> HIDE DEF P
<1>a. \A i \in 1 .. n : i - 1 \in P => i \in P
  BY <1>9
<1>11. \A i \in 0 .. n : f[i] <= g[m + i]
  BY <1>1, <1>8, <1>a, <1>10, Climb
<1>12. f[n] <= g[m + n]
  BY <1>1, <1>11
<1> QED
  BY <1>1, <1>12 DEF f, g, m, n, Bytes

(* A batch more.                                                            *)
LEMMA CountedMore ==
  ASSUME NEW s \in Seq(Batch), NEW b \in Batch, NEW runs
  PROVE  Bytes(Append(s, b), runs) =
           Bytes(s, runs) + (IF b.run \in runs THEN b.size ELSE 0)
<1> DEFINE t == Append(s, b)
<1>1. /\ t \in Seq(Batch) /\ Len(t) = Len(s) + 1 /\ Len(s) \in Nat
      /\ t[Len(s) + 1] = b /\ \A i \in 1 .. Len(s) : t[i] = s[i]
  BY OneMoreBatch, RangeOf
<1> HIDE DEF t
<1>2. Begins(s, t)
  BY <1>1 DEF Begins
<1>3. BytesUpTo(t, runs)[Len(s)] = BytesUpTo(s, runs)[Len(s)]
  BY <1>1, <1>2, CountedBegins
<1>4. Sums(BytesUpTo(t, runs), BytesOf(t, runs), Len(t))
  BY <1>1, Counted
<1>5. Len(s) + 1 \in 1 .. Len(t) /\ (Len(s) + 1) - 1 = Len(s)
  BY <1>1
<1>6. BytesUpTo(t, runs)[Len(s) + 1] =
        BytesUpTo(t, runs)[Len(s)] + BytesOf(t, runs)[Len(s) + 1]
  BY <1>4, <1>5 DEF Sums
<1>7. BytesOf(t, runs)[Len(s) + 1] = IF b.run \in runs THEN b.size ELSE 0
  BY <1>1, <1>5 DEF BytesOf
<1> QED
  BY <1>1, <1>3, <1>6, <1>7 DEF t, Bytes

-----------------------------------------------------------------------------
(* What a step does to a file of the rolling sink                           *)

LEMMA ContentsOf ==
  ASSUME StreamInv, FileInv, NEW f \in FilesOf("roll")
  PROVE  /\ f \in Files /\ kern[f] \in Seq(Batch) /\ Contents(f) \in Seq(Batch)
         /\ stream["roll"] = f => Contents(f) = kern[f] \o ubuf["roll"]
         /\ stream["roll"] # f => Contents(f) = kern[f]
         /\ Begins(kern[f], Contents(f))
<1>1. f \in Files /\ kern[f] \in Seq(Batch) /\ ubuf["roll"] \in Seq(Batch)
  BY FileNames DEF FileInv, StreamInv, Sinks
<1>2. kern[f] \o << >> = kern[f]
  BY <1>1, ConcatEmptySeq
<1>3. CASE stream["roll"] = f
  BY <1>1, <1>3, JoinedBegins DEF Contents
<1>4. CASE stream["roll"] # f
  BY <1>1, <1>2, <1>4, JoinedBegins DEF Contents
<1> QED
  BY <1>1, <1>3, <1>4

(* Where a sequence is cut does not matter.                                 *)
LEMMA CutJoined ==
  ASSUME NEW u \in Seq(Batch), NEW n \in 0 .. Len(u)
  PROVE  SubSeq(u, 1, n) \o SubSeq(u, n + 1, Len(u)) = u
<1> DEFINE front == SubSeq(u, 1, n)
           rest == SubSeq(u, n + 1, Len(u))
<1>1. /\ Len(u) \in Nat
      /\ front \in Seq(Batch) /\ Len(front) = n
      /\ \A i \in 1 .. n : front[i] = u[i]
      /\ rest \in Seq(Batch) /\ Len(rest) = Len(u) - n
      /\ \A i \in 1 .. Len(u) - n : rest[i] = u[n + i]
  BY Cut, RangeOf
<1> HIDE DEF front, rest
<1>2. /\ front \o rest \in Seq(Batch) /\ Len(front \o rest) = Len(u)
      /\ \A i \in 1 .. Len(u) :
           (front \o rest)[i] = IF i <= n THEN front[i] ELSE rest[i - n]
  <2>1. Len(front) + Len(rest) = Len(u)
    BY <1>1
  <2> QED
    BY <1>1, <2>1, ConcatProperties
<1>3. ASSUME NEW i \in 1 .. Len(u) PROVE (front \o rest)[i] = u[i]
  <2>1. CASE i <= n
    BY <1>1, <1>2, <2>1
  <2>2. CASE i > n
    <3>1. i - n \in 1 .. Len(u) - n /\ n + (i - n) = i
      BY <1>1, <2>2
    <3> QED
      BY <1>1, <1>2, <2>2, <3>1
  <2> QED
    BY <1>1, <2>1, <2>2
<1>4. front \o rest = u
  BY <1>2, <1>3, SeqEqual
<1> QED
  BY <1>4 DEF front, rest

(* A Write adds the batch to the file of its sink.                          *)
LEMMA WriteGrows ==
  ASSUME ControlInv, StreamInv, FileInv, Write, NEW f \in FilesOf("roll")
  PROVE  Contents(f)' = IF sink = "roll" /\ f = stream["roll"]
                        THEN Append(Contents(f), batch) ELSE Contents(f)
<1> DEFINE u == Append(ubuf[sink], batch)
           g == stream[sink]
<1>1. /\ kern \in [Files -> Seq(Batch)] /\ ubuf \in [Sinks -> Seq(Batch)]
      /\ sink \in Sinks /\ "roll" \in Sinks /\ UNCHANGED stream /\ f \in Files
  BY FileNames DEF FileInv, StreamInv, ControlInv, Sinks, Write
<1>2. /\ u \in Seq(Batch) /\ g \in FilesOf(sink) /\ g \in Files /\ batch \in Batch
  BY <1>1, Written, FileNames
<1>3. PICK n \in 0 .. Len(u) : /\ kern' = [kern EXCEPT ![g] = @ \o SubSeq(u, 1, n)]
                               /\ ubuf' = [ubuf EXCEPT ![sink] = SubSeq(u, n + 1, Len(u))]
  BY Written
<1>4. /\ SubSeq(u, 1, n) \in Seq(Batch) /\ SubSeq(u, n + 1, Len(u)) \in Seq(Batch)
      /\ SubSeq(u, 1, n) \o SubSeq(u, n + 1, Len(u)) = u
  BY <1>2, Cut, CutJoined
<1>5. CASE sink = "roll" /\ f = stream["roll"]
  <2>1. /\ kern'[f] = kern[f] \o SubSeq(u, 1, n)
        /\ ubuf'["roll"] = SubSeq(u, n + 1, Len(u))
    BY <1>1, <1>3, <1>5
  <2>2. Contents(f)' = (kern[f] \o SubSeq(u, 1, n)) \o SubSeq(u, n + 1, Len(u))
    BY <1>1, <1>5, <2>1 DEF Contents
  <2>3. Contents(f)' = kern[f] \o Append(ubuf["roll"], batch)
    <3> HIDE DEF u
    <3>1. kern[f] \in Seq(Batch) /\ u = Append(ubuf["roll"], batch)
      BY <1>1, <1>5 DEF u
    <3> DEFINE k == kern[f]
               a == SubSeq(u, 1, n)
               b == SubSeq(u, n + 1, Len(u))
    <3>2. k \in Seq(Batch) /\ a \in Seq(Batch) /\ b \in Seq(Batch)
      BY <1>4, <3>1
    <3> HIDE DEF k, a, b
    <3>3. (k \o a) \o b = k \o (a \o b)
      BY <3>2, ConcatAssociative
    <3>4. (kern[f] \o SubSeq(u, 1, n)) \o SubSeq(u, n + 1, Len(u)) =
            kern[f] \o (SubSeq(u, 1, n) \o SubSeq(u, n + 1, Len(u)))
      BY <3>3 DEF k, a, b
    <3>5. kern[f] \o (SubSeq(u, 1, n) \o SubSeq(u, n + 1, Len(u))) = kern[f] \o u
      BY <1>4
    <3> QED
      BY <2>2, <3>1, <3>4, <3>5
  <2>4. /\ Append(ubuf["roll"], batch) = ubuf["roll"] \o <<batch>>
        /\ Append(kern[f] \o ubuf["roll"], batch) = (kern[f] \o ubuf["roll"]) \o <<batch>>
        /\ <<batch>> \in Seq(Batch)
    <3>1. kern[f] \in Seq(Batch) /\ ubuf["roll"] \in Seq(Batch)
      BY <1>1
    <3>2. kern[f] \o ubuf["roll"] \in Seq(Batch)
      BY <3>1, Joined
    <3>3. <<batch>> \in Seq(Batch)
      BY <1>2
    <3> QED
      BY <1>2, <3>1, <3>2, <3>3, AppendIsConcat
  <2>5. kern[f] \o (ubuf["roll"] \o <<batch>>) = (kern[f] \o ubuf["roll"]) \o <<batch>>
    BY <1>1, <2>4, ConcatAssociative
  <2>6. Contents(f) = kern[f] \o ubuf["roll"]
    BY <1>5 DEF Contents
  <2> QED
    BY <1>5, <2>3, <2>4, <2>5, <2>6
<1>6. CASE sink = "roll" /\ f # stream["roll"]
  <2>1. kern'[f] = kern[f] /\ stream'["roll"] = stream["roll"]
    BY <1>1, <1>3, <1>6
  <2> QED
    BY <1>6, <2>1 DEF Contents
<1>7. CASE sink # "roll"
  <2>1. f # g
    BY <1>1, <1>2, <1>7, FileNames
  <2>2. kern'[f] = kern[f] /\ stream'["roll"] = stream["roll"] /\ ubuf'["roll"] = ubuf["roll"]
    BY <1>1, <1>3, <1>7, <2>1
  <2> QED
    BY <1>7, <2>2 DEF Contents
<1> QED
  BY <1>5, <1>6, <1>7

(* Any other step leaves the file as it is or cuts off its end.             *)
LEMMA OthersCut ==
  ASSUME ControlInv, StreamInv, FileInv, StreamInv', FileInv', [Next]_vars, ~Write,
         NEW f \in FilesOf("roll")
  PROVE  Begins(Contents(f)', Contents(f))
<1>1. /\ kern \in [Files -> Seq(Batch)] /\ ubuf \in [Sinks -> Seq(Batch)]
      /\ sink \in Sinks /\ "roll" \in Sinks /\ f \in Files
      /\ kern[f] \in Seq(Batch) /\ Contents(f) \in Seq(Batch)
      /\ Begins(kern[f], Contents(f)) /\ Begins(Contents(f), Contents(f))
  BY FileNames, ContentsOf, JoinedBegins DEF FileInv, StreamInv, ControlInv, Sinks
<1>2. \A q \in Seq(Batch) : q \o << >> = q
  BY ConcatEmptySeq
<1>a. ASSUME UNCHANGED <<kern, stream, ubuf>> PROVE Contents(f)' = Contents(f)
  BY <1>a DEF Contents
<1>b. ASSUME ubuf'["roll"] = << >>, kern'[f] = kern[f] \/ kern'[f] = Contents(f)
      PROVE  Begins(Contents(f)', Contents(f))
  <2>1. Contents(f)' = kern'[f] \o << >>
    BY <1>b DEF Contents
  <2> QED
    BY <1>1, <1>2, <1>b, <2>1
<1>3. CASE Start
  <2>1. stream["roll"] = NoFile /\ ubuf["roll"] = << >> /\ ubuf' = ubuf /\ kern' = kern
    BY <1>1, <1>3 DEF Start, StreamInv
  <2> QED
    BY <1>b, <2>1
<1>4. CASE RealFlush \/ KeepFile \/ WriteFails \/ FflushFails
  BY <1>1, <1>4, <1>a DEF RealFlush, KeepFile, WriteFails, FflushFails
<1>5. CASE Fsync \/ FsyncFails \/ WriteBack \/ Tick
  BY <1>1, <1>5, <1>a DEF Fsync, FsyncFails, WriteBack, Tick
<1>6. CASE NewFile
  <2>1. ubuf'["roll"] = << >>
    BY <1>1, <1>6 DEF NewFile
  <2>2. CASE UNCHANGED kern
    BY <1>b, <2>1, <2>2
  <2>3. CASE kern' = [h \in Files |->
                       IF h = stream["roll"] THEN kern[h] \o ubuf["roll"] ELSE kern[h]]
    <3>1. kern'[f] = IF f = stream["roll"] THEN kern[f] \o ubuf["roll"] ELSE kern[f]
      BY <1>1, <2>3
    <3>2. kern'[f] = Contents(f)
      BY <3>1, ContentsOf
    <3> QED
      BY <1>b, <2>1, <3>2
  <2> QED
    BY <1>6, <2>2, <2>3 DEF NewFile
<1>7. CASE Fflush
  <2>1. /\ kern' = [kern EXCEPT ![stream[sink]] = @ \o ubuf[sink]]
        /\ ubuf' = [ubuf EXCEPT ![sink] = << >>] /\ UNCHANGED stream
        /\ stream[sink] \in FilesOf(sink)
    BY <1>7 DEF Fflush, StreamInv, ControlInv
  <2>2. CASE sink = "roll"
    <3>1. ubuf'["roll"] = << >>
      BY <1>1, <2>1, <2>2
    <3>2. kern'[f] = IF f = stream["roll"] THEN kern[f] \o ubuf["roll"] ELSE kern[f]
      BY <1>1, <2>1, <2>2
    <3>3. kern'[f] = Contents(f)
      BY <3>2, ContentsOf
    <3> QED
      BY <1>b, <3>1, <3>3
  <2>3. CASE sink # "roll"
    <3>1. stream[sink] # f
      BY <1>1, <2>1, <2>3, FileNames
    <3>2. kern'[f] = kern[f] /\ ubuf'["roll"] = ubuf["roll"] /\ UNCHANGED stream
      BY <1>1, <2>1, <2>3, <3>1
    <3>3. Contents(f)' = Contents(f)
      BY <3>2 DEF Contents
    <3> QED
      BY <1>1, <3>3
  <2> QED
    BY <2>2, <2>3
<1>8. CASE Exit
  <2>1. /\ ubuf'["roll"] = << >>
        /\ kern'[f] = (kern[f] \o (IF f = stream["file"] THEN ubuf["file"] ELSE << >>))
                        \o (IF f = stream["roll"] THEN ubuf["roll"] ELSE << >>)
    BY <1>1, <1>8 DEF Exit, ProcessGone
  <2>2. f # stream["file"]
    BY <1>1, FileNames DEF StreamInv, Sinks
  <2>3. kern'[f] = Contents(f)
    BY <1>1, <1>2, <2>1, <2>2 DEF Contents
  <2> QED
    BY <1>b, <2>1, <2>3
<1>9. CASE Crash
  <2>1. ubuf'["roll"] = << >> /\ kern'[f] = kern[f]
    BY <1>1, <1>9 DEF Crash, ProcessGone
  <2> QED
    BY <1>b, <2>1
<1>10. CASE PowerLoss
  <2>1. /\ ubuf'["roll"] = << >>
        /\ kern'[f] \in Seq(Batch) /\ Len(kern'[f]) = disk[f] /\ disk[f] <= Len(kern[f])
        /\ \A i \in 1 .. disk[f] : kern'[f][i] = kern[f][i]
    BY <1>1, <1>10, FilesCut DEF PowerLoss, ProcessGone, FileInv
  <2>2. Begins(kern'[f], kern[f])
    BY <2>1 DEF Begins
  <2>3. Begins(kern'[f], Contents(f))
    BY <1>1, <2>1, <2>2, BeginsTransitive
  <2>4. Contents(f)' = kern'[f] \o << >>
    BY <2>1 DEF Contents
  <2> QED
    BY <1>2, <2>1, <2>3, <2>4
<1>11. CASE UNCHANGED vars
  BY <1>1, <1>11, <1>a DEF vars
<1> QED
  BY <1>3, <1>4, <1>5, <1>6, <1>7, <1>8, <1>9, <1>10, <1>11 DEF Next, FlushStep

-----------------------------------------------------------------------------
(* The size that is counted                                                 *)

(* A run's batches do not go over the limit.                                *)
InTime(s, r) == \A i \in 1 .. Len(s) : s[i].run = r => BytesUpTo(s, {r})[i - 1] < MaxSize

(* A file the run has still to name has nothing of the run in it, the names *)
(* it takes being numbered (LogFlush.hpp:140); so the size, which is reset  *)
(* with each new file, covers what the run has put into the open one.  It   *)
(* is below the limit when a batch is about to be written.                  *)
SizeInv ==
  LET g == stream["roll"]
  IN  g # NoFile => /\ g.num < cnt
                    /\ Bytes(Contents(g), {run}) <= curSize
                    /\ pc = "write" /\ sink = "roll" => curSize < MaxSize

FreshInv ==
  pc # "down" =>
    \A f \in FilesOf("roll") : \A i \in 1 .. Len(Contents(f)) :
      Contents(f)[i].run = run => f.num < cnt

InTimeInv == \A f \in FilesOf("roll"), r \in Nat : InTime(Contents(f), r)

RollInv == SizeInv /\ FreshInv /\ InTimeInv

(* A beginning of what is in time is so too.                                *)
LEMMA InTimeBegins ==
  ASSUME NEW s \in Seq(Batch), NEW t \in Seq(Batch), Begins(s, t), NEW r, InTime(t, r)
  PROVE  InTime(s, r)
<1>1. /\ Len(s) \in Nat /\ Len(t) \in Nat /\ Len(s) <= Len(t)
      /\ \A i \in 1 .. Len(s) : t[i] = s[i] /\ i \in 1 .. Len(t) /\ i - 1 \in 0 .. Len(s)
  BY LenProperties DEF Begins
<1>2. \A i \in 0 .. Len(s) : BytesUpTo(s, {r})[i] = BytesUpTo(t, {r})[i]
  BY CountedBegins
<1> QED
  BY <1>1, <1>2 DEF InTime

(* A batch is in time if what is there of its run is below the limit.       *)
LEMMA InTimeMore ==
  ASSUME NEW s \in Seq(Batch), NEW b \in Batch, NEW r, InTime(s, r),
         b.run = r => Bytes(s, {r}) < MaxSize
  PROVE  InTime(Append(s, b), r)
<1> DEFINE t == Append(s, b)
<1>1. /\ t \in Seq(Batch) /\ Len(t) = Len(s) + 1 /\ Len(s) \in Nat
      /\ t[Len(s) + 1] = b /\ \A i \in 1 .. Len(s) : t[i] = s[i]
  BY OneMoreBatch, RangeOf
<1> HIDE DEF t
<1>2. Begins(s, t)
  BY <1>1 DEF Begins
<1>3. \A i \in 0 .. Len(s) : BytesUpTo(s, {r})[i] = BytesUpTo(t, {r})[i]
  BY <1>1, <1>2, CountedBegins
<1>4. ASSUME NEW i \in 1 .. Len(t), t[i].run = r PROVE BytesUpTo(t, {r})[i - 1] < MaxSize
  <2>1. CASE i \in 1 .. Len(s)
    <3>1. i - 1 \in 0 .. Len(s) /\ t[i] = s[i]
      BY <1>1, <2>1
    <3> QED
      BY <1>3, <1>4, <2>1, <3>1 DEF InTime
  <2>2. CASE i = Len(s) + 1
    <3>1. b.run = r /\ i - 1 = Len(s) /\ Len(s) \in 0 .. Len(s)
      BY <1>1, <1>4, <2>2
    <3> QED
      BY <1>3, <3>1 DEF Bytes
  <2> QED
    BY <1>1, <2>1, <2>2
<1> QED
  BY <1>4 DEF InTime, t

LEMMA ContentsType ==
  StreamInv /\ FileInv => \A f \in FilesOf("roll") : Contents(f) \in Seq(Batch)
BY ContentsOf

(* What a step makes of a file of the rolling sink.                         *)
LEMMA ContentsStep ==
  FlushInv /\ [Next]_vars =>
    \A f \in FilesOf("roll") : \E b, c \in Seq(Batch) :
      /\ b = Contents(f) /\ c = Contents(f)'
      /\ \/ Begins(c, b)
         \/ Write /\ sink = "roll" /\ f = stream["roll"] /\ c = Append(b, batch)
<1>1. (StreamInv /\ FileInv => \A f \in FilesOf("roll") : Contents(f) \in Seq(Batch))'
  BY ContentsType, PTL
<1> SUFFICES ASSUME FlushInv, [Next]_vars, NEW f \in FilesOf("roll")
             PROVE  \E b, c \in Seq(Batch) :
                      /\ b = Contents(f) /\ c = Contents(f)'
                      /\ \/ Begins(c, b)
                         \/ /\ Write /\ sink = "roll" /\ f = stream["roll"]
                            /\ c = Append(b, batch)
  OBVIOUS
<1> USE DEF FlushInv
<1>2. StreamInv' /\ FileInv'
  BY StreamStep, FileStep
<1>3. PICK b \in Seq(Batch) : b = Contents(f)
  BY ContentsType
<1>4. PICK c \in Seq(Batch) : c = Contents(f)'
  BY <1>1, <1>2
<1>5. CASE Write
  <2>1. c = IF sink = "roll" /\ f = stream["roll"] THEN Append(b, batch) ELSE b
    BY <1>3, <1>4, <1>5, WriteGrows
  <2> QED
    BY <1>3, <1>4, <1>5, <2>1, JoinedBegins
<1>6. CASE ~Write
  <2>1. Begins(c, b)
    BY <1>2, <1>3, <1>4, <1>6, OthersCut
  <2> QED
    BY <1>3, <1>4, <2>1
<1> QED
  BY <1>5, <1>6

(* The batch about to be written, and what is there of its run.             *)
LEMMA WriteBelow ==
  ASSUME FlushInv, SizeInv, Write, sink = "roll"
  PROVE  /\ stream["roll"] \in FilesOf("roll") /\ batch \in Batch /\ batch.run = run
         /\ Bytes(Contents(stream["roll"]), {run}) < MaxSize
<1>1. /\ stream["roll"] \in FilesOf("roll") /\ batch \in Batch /\ batch.run = run
      /\ stream["roll"] # NoFile /\ pc = "write"
  BY Written DEF FlushInv, Write
<1>2. Contents(stream["roll"]) \in Seq(Batch)
  BY <1>1, ContentsOf DEF FlushInv
<1>3. Bytes(Contents(stream["roll"]), {run}) \in Nat
  BY <1>2, JoinedBegins, CountedBegins
<1>4. /\ Bytes(Contents(stream["roll"]), {run}) <= curSize
      /\ curSize < MaxSize /\ curSize \in Nat /\ MaxSize \in Nat
  BY <1>1, FlushConfig DEF SizeInv, FlushInv, ControlInv
<1> QED
  BY <1>1, <1>3, <1>4

LEMMA InTimeStep == FlushInv /\ RollInv /\ [Next]_vars => InTimeInv'
<1> SUFFICES ASSUME FlushInv, RollInv, [Next]_vars, NEW f \in FilesOf("roll"), NEW r \in Nat
             PROVE  InTime(Contents(f), r)'
  BY DEF InTimeInv
<1>1. PICK b \in Seq(Batch), c \in Seq(Batch) :
        /\ b = Contents(f) /\ c = Contents(f)'
        /\ \/ Begins(c, b)
           \/ Write /\ sink = "roll" /\ f = stream["roll"] /\ c = Append(b, batch)
  BY ContentsStep
<1>2. InTime(b, r)
  BY <1>1 DEF RollInv, InTimeInv
<1>3. ASSUME Begins(c, b) PROVE InTime(c, r)
  BY <1>2, <1>3, InTimeBegins
<1>4. ASSUME Write, sink = "roll", f = stream["roll"], c = Append(b, batch)
      PROVE  InTime(c, r)
  <2>1. batch \in Batch /\ batch.run = run /\ Bytes(b, {run}) < MaxSize
    BY <1>1, <1>4, WriteBelow DEF RollInv
  <2>2. InTime(Append(b, batch), r)
    BY <1>2, <2>1, InTimeMore
  <2> QED
    BY <1>4, <2>2
<1>5. InTime(c, r)
  BY <1>1, <1>3, <1>4
<1> QED
  BY <1>1, <1>5 DEF InTime

(* How the rolling sink's file, its number and the size move.               *)
StaysOpen ==
  /\ UNCHANGED <<run, cnt>> /\ stream'["roll"] = stream["roll"]
  /\ pc' # "down" => pc # "down"
  /\ curSize' \in Nat /\ curSize <= curSize'
  /\ Write /\ sink = "roll" => curSize' = curSize + batch.size
  /\ pc' = "write" /\ sink' = "roll" =>
       /\ UNCHANGED curSize
       /\ stream["roll"] # NoFile => curSize < MaxSize \/ UNCHANGED <<pc, sink>>

Closes == UNCHANGED <<run, cnt, curSize>> /\ pc' = "down" /\ stream'["roll"] = NoFile

LEMMA RollMoves ==
  ASSUME ControlInv, StreamInv, [Next]_vars
  PROVE  Start \/ NewFile \/ Closes \/ StaysOpen
<1>t. /\ curSize \in Nat /\ MaxSize \in Nat \ {0} /\ sink \in Sinks
      /\ stream \in [Sinks -> Files \cup {NoFile}] /\ "roll" \in Sinks
  BY FlushConfig DEF ControlInv, StreamInv, Sinks
<1>a. ASSUME UNCHANGED <<run, pc, sink, stream, cnt, curSize>>, ~Write PROVE StaysOpen
  BY <1>a, <1>t DEF StaysOpen
<1>b. ASSUME UNCHANGED <<run, stream, cnt, curSize>>, pc # "down", pc' # "write", ~Write
      PROVE  StaysOpen
  BY <1>b, <1>t DEF StaysOpen
<1>1. CASE RealFlush
  <2>1. ~Write /\ sink' = "file"
    BY <1>1 DEF RealFlush, Write
  <2>2. UNCHANGED <<run, stream, cnt, curSize>> /\ pc # "down"
    BY <1>1 DEF RealFlush
  <2> QED
    BY <1>t, <2>1, <2>2 DEF StaysOpen
<1>2. CASE KeepFile
  <2>1. ~Write /\ UNCHANGED <<run, stream, cnt, curSize>> /\ pc # "down" /\ ~Full
    BY <1>2 DEF KeepFile, Write
  <2>2. stream["roll"] # NoFile => curSize < MaxSize
    BY <1>t, <2>1 DEF Full
  <2> QED
    BY <1>t, <2>1, <2>2 DEF StaysOpen
<1>3. CASE Write \/ WriteFails
  <2>1. pc' # "write" /\ pc # "down"
    BY <1>3, <1>t, FlushGoesOn, WhereFlushGoes DEF Write, WriteFails
  <2>2. UNCHANGED <<run, stream, cnt>> /\ Count /\ pc = "write"
    BY <1>3 DEF Write, WriteFails
  <2>3. batch.size \in Nat
    BY <2>2, BatchFields DEF ControlInv, Busy
  <2>4. curSize' \in Nat /\ curSize <= curSize'
        /\ (sink = "roll" => curSize' = curSize + batch.size)
    BY <1>t, <2>2, <2>3 DEF Count
  <2> QED
    BY <1>t, <2>1, <2>2, <2>4 DEF StaysOpen
<1>4. CASE Fflush \/ FflushFails \/ Fsync \/ FsyncFails
  <2>1. GoesOn \/ FlushReturns
    BY <1>4, FlushGoesOn DEF Fflush, FflushFails, Fsync, FsyncFails
  <2>2. pc' # "write" /\ pc # "down" /\ pc # "write"
    BY <1>4, <1>t, <2>1, WhereFlushGoes DEF Fflush, FflushFails, Fsync, FsyncFails
  <2>3. UNCHANGED <<run, stream, cnt, curSize>>
    BY <1>4 DEF Fflush, FflushFails, Fsync, FsyncFails
  <2>4. ~Write
    BY <2>2 DEF Write
  <2> QED
    BY <1>b, <2>2, <2>3, <2>4
<1>5. CASE Exit \/ Crash \/ PowerLoss
  BY <1>5, <1>t DEF Exit, Crash, PowerLoss, ProcessGone, Closes
<1>6. CASE WriteBack \/ Tick \/ UNCHANGED vars
  <2>1. UNCHANGED <<run, pc, sink, stream, cnt, curSize, batch>>
    BY <1>6 DEF WriteBack, Tick, vars
  <2>2. ~Write
    <3>1. SUFFICES ASSUME Write PROVE FALSE
      OBVIOUS
    <3>2. pc = "write" /\ pc' # "write"
      BY <1>t, <3>1, FlushGoesOn, WhereFlushGoes DEF Write
    <3> QED
      BY <2>1, <3>2
  <2> QED
    BY <1>a, <2>1, <2>2
<1> QED
  BY <1>1, <1>2, <1>3, <1>4, <1>5, <1>6 DEF Next, FlushStep

(* A batch of the run in a file the run has still to name would have been   *)
(* there before the run began.                                              *)
LEMMA FreshStep == FlushInv /\ OrderInv /\ RollInv /\ [Next]_vars => FreshInv'
<1> SUFFICES ASSUME FlushInv, OrderInv, RollInv, [Next]_vars, pc' # "down",
                    NEW f \in FilesOf("roll"), NEW c, c = Contents(f)',
                    NEW i \in 1 .. Len(c), c[i].run = run'
             PROVE  f.num < cnt'
  <2> SUFFICES ASSUME FlushInv, OrderInv, RollInv, [Next]_vars, pc' # "down",
                      NEW f \in FilesOf("roll")
               PROVE  \A i \in 1 .. Len(Contents(f)') :
                        Contents(f)'[i].run = run' => f.num < cnt'
    BY DEF FreshInv
  <2> QED
    OBVIOUS
<1> USE DEF FlushInv
<1>t. run \in Nat /\ cnt \in Nat /\ "roll" \in Sinks /\ f.num \in Nat
  <2>1. f.num \in Nat
    BY FlushConfig, FileNames DEF Files, FixedFile
  <2> QED
    BY <2>1, FlushConfig DEF ControlInv, Sinks
<1>1. PICK b \in Seq(Batch) :
        /\ b = Contents(f) /\ c \in Seq(Batch)
        /\ \/ Begins(c, b)
           \/ Write /\ sink = "roll" /\ f = stream["roll"] /\ c = Append(b, batch)
  BY ContentsStep
<1>2. CASE Start
  <2>1. /\ pc = "down" /\ run' = run + 1 /\ stream["roll"] = NoFile
        /\ ubuf["roll"] = << >> /\ UNCHANGED <<kern, ubuf>>
    BY <1>2, <1>t DEF Start, StreamInv
  <2>2. kern[f] \in Seq(Batch) /\ kern[f] \o << >> = kern[f]
    BY ContentsOf, ConcatEmptySeq
  <2>3. c = kern[f]
    BY <2>1, <2>2 DEF Contents
  <2>4. c[i] \in Batch /\ InKernel("roll", c[i])
    BY <2>2, <2>3, RangeOf DEF InKernel
  <2>5. c[i].run <= run /\ c[i].run \in Nat
    BY <1>t, <2>4, BatchFields DEF OrderInv, Ordered
  <2> QED
    BY <1>t, <2>1, <2>5
<1>3. CASE ~Start
  <2>1. UNCHANGED run /\ cnt <= cnt' /\ cnt' \in Nat /\ pc # "down"
    <3>1. NewFile \/ StaysOpen
      BY <1>3, RollMoves DEF Closes
    <3>2. CASE NewFile
      BY <1>t, <3>2 DEF NewFile
    <3>3. CASE StaysOpen
      BY <1>t, <3>3 DEF StaysOpen
    <3> QED
      BY <3>1, <3>2, <3>3
  <2>2. CASE Begins(c, b)
    <3>1. i \in 1 .. Len(b) /\ b[i] = c[i]
      BY <1>1, <2>2, RangeOf DEF Begins
    <3>2. f.num < cnt
      BY <1>1, <2>1, <3>1 DEF RollInv, FreshInv
    <3> QED
      BY <1>t, <2>1, <3>2
  <2>3. CASE f = stream["roll"]
    <3>1. f.num < cnt
      BY <2>3, FileNames DEF RollInv, SizeInv
    <3> QED
      BY <1>t, <2>1, <3>1
  <2> QED
    BY <1>1, <2>2, <2>3
<1> QED
  BY <1>2, <1>3

LEMMA SizeStep == FlushInv /\ RollInv /\ [Next]_vars => SizeInv'
<1> SUFFICES ASSUME FlushInv, RollInv, [Next]_vars,
                    NEW g, g = stream'["roll"], g # NoFile,
                    NEW c, c = Contents(g)'
             PROVE  /\ g.num < cnt'
                    /\ Bytes(c, {run'}) <= curSize'
                    /\ pc' = "write" /\ sink' = "roll" => curSize' < MaxSize
  BY DEF SizeInv
<1> USE DEF FlushInv
<1>t. /\ run \in Nat /\ cnt \in Nat /\ curSize \in Nat /\ "roll" \in Sinks
      /\ MaxSize \in Nat \ {0}
      /\ stream \in [Sinks -> Files \cup {NoFile}]
  BY FlushConfig DEF ControlInv, StreamInv, Sinks
<1>0. g \in FilesOf("roll")
  <2>1. StreamInv'
    BY StreamStep
  <2> QED
    BY <1>t, <2>1 DEF StreamInv
<1>1. PICK b \in Seq(Batch) :
        /\ b = Contents(g) /\ c \in Seq(Batch)
        /\ \/ Begins(c, b)
           \/ Write /\ sink = "roll" /\ g = stream["roll"] /\ c = Append(b, batch)
  BY <1>0, ContentsStep
<1>2. CASE NewFile
  <2>1. /\ g = CreateFilename(cnt) /\ cnt' = cnt + 1 /\ curSize' = 0
        /\ UNCHANGED run /\ pc = "roll"
    BY <1>2, <1>t DEF NewFile
  <2>2. g.num = cnt
    BY <2>1 DEF CreateFilename
  <2>3. Begins(c, b)
    BY <1>1, <2>1 DEF Write
  <2>4. \A i \in 1 .. Len(c) : c[i] = b[i] /\ i \in 1 .. Len(b)
    BY <1>1, <2>3, RangeOf DEF Begins
  <2>5. \A i \in 1 .. Len(b) : b[i].run = run => g.num < cnt
    BY <1>0, <1>1, <2>1 DEF RollInv, FreshInv
  <2>6. \A i \in 1 .. Len(c) : c[i].run \notin {run}
    BY <1>t, <2>2, <2>4, <2>5
  <2>7. Bytes(c, {run}) = 0
    BY <1>1, <2>6, CountedNone
  <2> QED
    BY <1>t, <2>1, <2>2, <2>7
<1>3. CASE StaysOpen
  <2>1. /\ UNCHANGED <<run, cnt>> /\ g = stream["roll"]
        /\ curSize' \in Nat /\ curSize <= curSize'
    BY <1>3 DEF StaysOpen
  <2>2. /\ g.num < cnt /\ Bytes(b, {run}) <= curSize
        /\ pc = "write" /\ sink = "roll" => curSize < MaxSize
    BY <1>1, <2>1 DEF RollInv, SizeInv
  <2>3. pc' = "write" /\ sink' = "roll" => curSize' < MaxSize
    BY <1>3, <2>1, <2>2 DEF StaysOpen
  <2>4. Bytes(b, {run}) \in Nat
    BY <1>1, JoinedBegins, CountedBegins
  <2>5. CASE Begins(c, b)
    <3>1. Bytes(c, {run}) \in Nat /\ Bytes(c, {run}) <= Bytes(b, {run})
      BY <1>1, <2>5, CountedBegins
    <3> QED
      BY <1>t, <2>1, <2>2, <2>3, <2>4, <3>1
  <2>6. CASE Write /\ sink = "roll" /\ c = Append(b, batch)
    <3>1. batch \in Batch /\ batch.run = run
      BY <2>6, Written
    <3>2. Bytes(c, {run}) = Bytes(b, {run}) + batch.size
      BY <1>1, <2>6, <3>1, CountedMore
    <3>3. curSize' = curSize + batch.size /\ batch.size \in Nat
      BY <1>3, <2>6, <3>1, BatchFields DEF StaysOpen
    <3> QED
      BY <1>t, <2>1, <2>2, <2>3, <2>4, <3>2, <3>3
  <2> QED
    BY <1>1, <2>5, <2>6
<1>4. CASE Start
  <2>1. stream'["roll"] = NoFile
    BY <1>4, <1>t DEF Start, StreamInv
  <2> QED
    BY <2>1
<1> QED
  BY <1>2, <1>3, <1>4, RollMoves DEF Closes

LEMMA RollInit == Init => RollInv
<1> SUFFICES ASSUME Init PROVE RollInv
  OBVIOUS
<1>1. /\ pc = "down" /\ stream["roll"] = NoFile
      /\ ubuf["roll"] = << >> /\ \A f \in Files : kern[f] = << >>
  BY DEF Init, Sinks
<1>2. Len(<< >>) = 0 /\ << >> \in Seq(Batch) /\ << >> \o << >> = << >>
  BY EmptySeq, ConcatEmptySeq
<1>3. \A f \in FilesOf("roll") : Contents(f) = << >>
  BY <1>1, <1>2, FileNames DEF Contents
<1>4. SizeInv /\ FreshInv
  BY <1>1 DEF SizeInv, FreshInv
<1>5. InTimeInv
  BY <1>2, <1>3 DEF InTimeInv, InTime
<1> QED
  BY <1>4, <1>5 DEF RollInv

LEMMA RollInvariant == Spec => [](FlushInv /\ RollInv)
<1>1. FlushInv /\ OrderInv /\ RollInv /\ [Next]_vars => OrderInv' /\ RollInv'
  BY OrderStep, SizeStep, FreshStep, InTimeStep DEF RollInv
<1> QED
  BY FlushInvariant, OrderInit, RollInit, <1>1, PTL DEF Spec

(* A file of the rolling sink is over its limit by less than one batch, as  *)
(* far as one process is concerned (LogFlush.hpp:103-115): failures of      *)
(* fwrite, fflush, fclose and fopen only make the size that is counted too  *)
(* large.                                                                   *)
THEOREM RolledBeforeFull == Spec => []RolledInTime
<1>1. ASSUME FlushInv, RollInv PROVE RolledInTime
  <2>1. \A r \in 1 .. run : r \in Nat
    BY <1>1, FlushConfig DEF FlushInv, ControlInv
  <2> QED
    BY <1>1, <2>1 DEF RolledInTime, RollInv, InTimeInv, InTime
<1> QED
  BY RollInvariant, <1>1, PTL

(* The type invariant: RollFileFlush never numbers a file beyond the        *)
(* batches there have been (LogFlush.hpp:140), and the size it counts       *)
(* covers what is still in the user buffer (LogFlush.hpp:114).              *)
THEOREM FlushTypes == Spec => []FlushTypeOK
<1>1. ASSUME FlushInv, RollInv PROVE Bytes(ubuf["roll"], 1 .. MaxRuns) <= curSize
  <2> DEFINE g == stream["roll"]
             u == ubuf["roll"]
  <2>1. /\ u \in Seq(Batch) /\ curSize \in Nat
        /\ g # NoFile => g \in FilesOf("roll")
        /\ g = NoFile => u = << >>
        /\ \A b \in Range(u) : b.run = run
    BY <1>1 DEF FlushInv, ControlInv, StreamInv, Sinks
  <2>2. \A i \in 1 .. Len(u) : u[i].run = run /\ u[i].run \in 1 .. MaxRuns
    BY <2>1, RangeOf, BatchFields
  <2>3. CASE g = NoFile
    <3>1. \A i \in 1 .. Len(u) : u[i].run \notin 1 .. MaxRuns
      BY <2>1, <2>3, EmptySeq
    <3>2. Bytes(u, 1 .. MaxRuns) = 0
      BY <2>1, <3>1, CountedNone
    <3> QED
      BY <2>1, <3>2
  <2>4. CASE g # NoFile
    <3>1. /\ kern[g] \in Seq(Batch) /\ Contents(g) = kern[g] \o u
          /\ Contents(g) \in Seq(Batch)
      BY <1>1, <2>1, <2>4, ContentsOf DEF FlushInv
    <3>2. Bytes(Contents(g), {run}) <= curSize
      BY <1>1, <2>4 DEF RollInv, SizeInv
    <3> HIDE DEF g, u
    <3>3. Bytes(u, {run}) <= Bytes(kern[g] \o u, {run})
      BY <2>1, <3>1, CountedEnd
    <3>4. \A i \in 1 .. Len(u) : u[i].run \in {run} <=> u[i].run \in 1 .. MaxRuns
      BY <2>2
    <3>5. Bytes(u, {run}) = Bytes(u, 1 .. MaxRuns)
      BY <2>1, <3>4, CountedAlike
    <3>6. Bytes(u, {run}) \in Nat /\ Bytes(Contents(g), {run}) \in Nat
      BY <2>1, <3>1, JoinedBegins, CountedBegins
    <3>7. Bytes(u, 1 .. MaxRuns) <= curSize
      BY <2>1, <3>1, <3>2, <3>3, <3>5, <3>6
    <3> QED
      BY <3>7 DEF u
  <2> QED
    BY <2>3, <2>4
<1>2. FlushShapes /\ Bytes(ubuf["roll"], 1 .. MaxRuns) <= curSize => FlushTypeOK
  BY DEF FlushShapes, FlushTypeOK
<1> QED
  BY RollInvariant, ShapesKept, <1>1, <1>2, PTL
=============================================================================
