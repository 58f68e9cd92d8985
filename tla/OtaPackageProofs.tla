-------------------------- MODULE OtaPackageProofs ---------------------------
(***************************************************************************)
(* For any builds, any size of a chunk and any number of things wrong with *)
(* a package: what passes the validator and is installed to the end is the *)
(* validated build, and what the packager makes passes the validator and   *)
(* can be installed.                                                       *)
(*                                                                         *)
(* SlotInv: whatever is wrong with a package, and whatever it is exchanged *)
(* for, its records keep their names, each once, and each part of the slot *)
(* is what a record of the package the job described announces, and begins *)
(* as its kind must: the data may come from another file, its digest may   *)
(* not.  BuiltInv: as long as nothing was changed, the package is the      *)
(* packager's of this core, and it is the one that was checked, described  *)
(* and unpacked.  The arithmetic of the chunks comes first: the packager   *)
(* reads as many as the others count, they are as long as the reader wants *)
(* them, and together they are the payload.                                *)
(***************************************************************************)
EXTENDS OtaPackage, SequenceTheorems, FiniteSetTheorems, FunctionTheorems,
        WellFoundedInduction, TLAPS

LEMMA Smallest ==
  ASSUME NEW T, T \subseteq Nat, T # {}
  PROVE  \E m \in T : \A k \in T : m <= k
  <1>1. IsWellFoundedOn(OpToRel(<, Nat), Nat) BY NatLessThanWellFounded
  <1>2. PICK m \in T : \A k \in T : ~(<<k, m>> \in OpToRel(<, Nat)) BY <1>1, WFMin
  <1>3. \A k \in T : ~ (k < m) BY <1>2 DEF OpToRel
  <1>4. \A k \in T : m \in Int /\ k \in Int OBVIOUS
  <1>5. \A k \in T : m <= k BY <1>3, <1>4
  <1> QED BY <1>5

LEMMA Inductive ==
  ASSUME NEW S, 0 \in S, \A n \in Nat : n \in S => n + 1 \in S
  PROVE  Nat \subseteq S
  <1>1. SUFFICES ASSUME Nat \ S # {} PROVE FALSE OBVIOUS
  <1>2. PICK m \in Nat \ S : \A k \in Nat \ S : m <= k BY <1>1, Smallest
  <1>3. m # 0 /\ m - 1 \in Nat /\ m - 1 \in S BY <1>2
  <1> QED BY <1>2, <1>3

-----------------------------------------------------------------------------
(* The chunks of a payload *)

\* The first n parts of s, one after the other.
Joins(g, s, n) == g = [i \in 1 .. n |-> IF i = 1 THEN s[i] ELSE g[i - 1] \o s[i]]

LEMMA JoinExists ==
  ASSUME NEW s, NEW n \in Nat
  PROVE  \E g : Joins(g, s, n)
  <1> DEFINE S == {k \in Nat : \E g : Joins(g, s, k)}
  <1>1. 0 \in S
    <2>1. Joins([i \in 1 .. 0 |-> s[i]], s, 0) BY DEF Joins
    <2> QED BY <2>1
  <1>2. ASSUME NEW k \in Nat, k \in S PROVE k + 1 \in S
    <2>1. PICK g : Joins(g, s, k) BY <1>2
    <2> DEFINE new == IF k = 0 THEN s[1] ELSE g[k] \o s[k + 1]
               h == [i \in 1 .. k + 1 |-> IF i = k + 1 THEN new ELSE g[i]]
    <2>2. new = IF k = 0 THEN s[1] ELSE g[k] \o s[k + 1] OBVIOUS
    <2> HIDE DEF new
    <2>3. h = [i \in 1 .. k + 1 |-> IF i = k + 1 THEN new ELSE g[i]] OBVIOUS
    <2> HIDE DEF h
    <2>4. \A i \in 1 .. k : h[i] = g[i] BY <2>3
    <2>5. ASSUME NEW i \in 1 .. k + 1
          PROVE  h[i] = IF i = 1 THEN s[i] ELSE h[i - 1] \o s[i]
      <3>1. CASE i = k + 1
        <4>1. h[i] = new BY <2>3, <3>1
        <4>2. k # 0 => k \in 1 .. k /\ h[k] = g[k] /\ i - 1 = k BY <2>4, <3>1
        <4> QED BY <3>1, <4>1, <4>2, <2>2
      <3>2. CASE i \in 1 .. k
        <4>1. h[i] = g[i] /\ (i # 1 => i - 1 \in 1 .. k /\ h[i - 1] = g[i - 1])
          BY <2>4, <3>2
        <4>2. g[i] = IF i = 1 THEN s[i] ELSE g[i - 1] \o s[i] BY <2>1, <3>2 DEF Joins
        <4> QED BY <4>1, <4>2
      <3> QED BY <3>1, <3>2
    <2>6. h = [i \in 1 .. k + 1 |-> IF i = 1 THEN s[i] ELSE h[i - 1] \o s[i]]
      <3> DEFINE f == [i \in 1 .. k + 1 |-> IF i = 1 THEN s[i] ELSE h[i - 1] \o s[i]]
      <3>1. h = f BY <2>3, <2>5
      <3> QED BY <3>1
    <2>7. Joins(h, s, k + 1) BY <2>6 DEF Joins
    <2> QED BY <2>7
  <1> HIDE DEF S
  <1>3. Nat \subseteq S BY <1>1, <1>2, Inductive
  <1> QED BY <1>3 DEF S

LEMMA FlattenIs ==
  ASSUME NEW s, Len(s) \in Nat \ {0}
  PROVE  \E g : Joins(g, s, Len(s)) /\ FlattenSeq(s) = g[Len(s)]
  <1> DEFINE n == Len(s)
             f == CHOOSE g : g = [i \in 1 .. n |-> IF i = 1 THEN s[i] ELSE g[i - 1] \o s[i]]
  <1>1. \E g : g = [i \in 1 .. n |-> IF i = 1 THEN s[i] ELSE g[i - 1] \o s[i]]
    <2>1. PICK g : Joins(g, s, n) BY JoinExists
    <2>2. g = [i \in 1 .. n |-> IF i = 1 THEN s[i] ELSE g[i - 1] \o s[i]] BY <2>1 DEF Joins
    <2> QED BY <2>2
  <1>2. f = [i \in 1 .. n |-> IF i = 1 THEN s[i] ELSE f[i - 1] \o s[i]] BY <1>1
  <1>3. FlattenSeq(s) = f[n] BY DEF FlattenSeq
  <1> QED BY <1>2, <1>3 DEF Joins

LEMMA KeepsItsHead ==
  ASSUME NEW A, NEW q \in Seq(A), NEW r \in Seq(A), Len(q) >= 1
  PROVE  q \o r \in Seq(A) /\ Len(q \o r) >= 1 /\ (q \o r)[1] = q[1]
  OBVIOUS

\* What is put together begins with the first part.
LEMMA BeginsWith ==
  ASSUME NEW A, NEW s, Len(s) \in Nat \ {0}, \A i \in 1 .. Len(s) : s[i] \in Seq(A),
         s[1] # <<>>
  PROVE  FlattenSeq(s) # <<>> /\ FlattenSeq(s)[1] = s[1][1]
  <1>1. PICK g : Joins(g, s, Len(s)) /\ FlattenSeq(s) = g[Len(s)] BY FlattenIs
  <1> DEFINE Good(q) == q \in Seq(A) /\ Len(q) >= 1 /\ q[1] = s[1][1]
             S == {k \in Nat : k + 1 <= Len(s) => Good(g[k + 1])}
  <1>2. 0 \in S
    <2>1. g[1] = s[1] /\ s[1] \in Seq(A) BY <1>1 DEF Joins
    <2>2. Len(s[1]) >= 1 BY <2>1
    <2> QED BY <2>1, <2>2
  <1>3. ASSUME NEW k \in Nat, k \in S PROVE k + 1 \in S
    <2>1. SUFFICES ASSUME k + 2 <= Len(s) PROVE Good(g[k + 2]) OBVIOUS
    <2>2. Good(g[k + 1]) BY <1>3, <2>1
    <2>3. g[k + 2] = g[k + 1] \o s[k + 2] /\ s[k + 2] \in Seq(A)
      <3>1. k + 2 \in 1 .. Len(s) /\ k + 2 # 1 /\ (k + 2) - 1 = k + 1 BY <2>1
      <3> QED BY <1>1, <3>1 DEF Joins
    <2> DEFINE q == g[k + 1]  r == s[k + 2]
    <2>4. q \in Seq(A) /\ r \in Seq(A) /\ Len(q) >= 1 /\ q[1] = s[1][1] BY <2>2, <2>3
    <2>5. g[k + 2] = q \o r BY <2>3
    <2> HIDE DEF q, r
    <2>6. q \o r \in Seq(A) /\ Len(q \o r) >= 1 /\ (q \o r)[1] = q[1] BY <2>4, KeepsItsHead
    <2> QED BY <2>4, <2>5, <2>6
  <1> HIDE DEF S
  <1>4. Nat \subseteq S BY <1>2, <1>3, Inductive
  <1>5. Len(s) - 1 \in Nat /\ (Len(s) - 1) + 1 = Len(s) OBVIOUS
  <1>6. Len(s) - 1 \in S BY <1>4, <1>5
  <1>7. Good(g[Len(s)]) BY <1>5, <1>6 DEF S
  <1> QED BY <1>1, <1>7

\* How many chunks of c symbols a payload of n symbols needs.
LEMMA Arithmetic ==
  ASSUME NEW c \in Nat \ {0}, NEW n \in Nat
  PROVE  LET k == (n + c - 1) \div c IN
         /\ k \in Nat
         /\ n <= k * c
         /\ n > 0 => k > 0 /\ (k - 1) * c < n
         /\ n = 0 => k = 0
  OBVIOUS

LEMMA SizeOfChunk == ChunkBytes \in Nat \ {0} BY OtaPackageAssumption

\* Where chunk i of a payload of n symbols begins, and that only the last may be short.
LEMMA Places ==
  ASSUME NEW n \in Nat
  PROVE  /\ Chunks(n) \in Nat
         /\ n > 0 => Chunks(n) > 0
         /\ n = 0 => Chunks(n) = 0
         /\ n <= Chunks(n) * ChunkBytes
         /\ \A i \in 0 .. Chunks(n) - 1 :
              /\ i * ChunkBytes \in Nat /\ i * ChunkBytes < n
              /\ (i + 1) * ChunkBytes = i * ChunkBytes + ChunkBytes
              /\ i < Chunks(n) - 1 => (i + 1) * ChunkBytes < n
              /\ i = Chunks(n) - 1 => (i + 1) * ChunkBytes >= n
  <1> DEFINE c == ChunkBytes
  <1>1. c \in Nat \ {0} BY SizeOfChunk
  <1>2. Chunks(n) = (n + c - 1) \div c BY DEF Chunks
  <1> HIDE DEF c
  <1>3. /\ Chunks(n) \in Nat
        /\ n <= Chunks(n) * c
        /\ n > 0 => Chunks(n) > 0 /\ (Chunks(n) - 1) * c < n
        /\ n = 0 => Chunks(n) = 0
    BY <1>1, <1>2, Arithmetic
  <1>4. ASSUME NEW i \in 0 .. Chunks(n) - 1
        PROVE  /\ i * c \in Nat /\ i * c < n
               /\ (i + 1) * c = i * c + c
               /\ i < Chunks(n) - 1 => (i + 1) * c < n
               /\ i = Chunks(n) - 1 => (i + 1) * c >= n
    <2> DEFINE k == Chunks(n)
    <2>1. k \in Nat /\ k > 0 /\ i \in Nat /\ i <= k - 1 BY <1>3
    <2>2. n > 0 /\ (k - 1) * c < n /\ n <= k * c BY <1>3, <2>1
    <2> HIDE DEF k
    <2>3. i * c \in Nat /\ (i + 1) * c = i * c + c BY <1>1, <2>1
    <2>4. \A a, b \in Nat : a <= b => a * c <= b * c BY <1>1
    <2>5. i * c <= (k - 1) * c /\ (k - 1) * c \in Nat
      <3>1. k - 1 \in Nat BY <2>1
      <3>2. (k - 1) * c \in Nat BY <3>1, <1>1
      <3> QED BY <2>4, <3>1, <3>2, <2>1
    <2>6. i < k - 1 => (i + 1) * c <= (k - 1) * c
      <3>1. k - 1 \in Nat /\ i + 1 \in Nat BY <2>1
      <3>2. i < k - 1 => i + 1 <= k - 1 BY <2>1
      <3> QED BY <3>1, <3>2, <2>4
    <2>7. i = k - 1 => i + 1 = k BY <2>1
    <2>8. (i + 1) * c \in Nat BY <1>1, <2>1
    <2>9. i < k - 1 => (i + 1) * c < n BY <2>2, <2>5, <2>6, <2>8
    <2>10. i = k - 1 => (i + 1) * c >= n BY <2>2, <2>7
    <2>11. i * c < n BY <2>2, <2>3, <2>5
    <2> QED BY <2>3, <2>9, <2>10, <2>11 DEF k
  <1> QED BY <1>3, <1>4 DEF c

LEMMA CountUpTo == \A k \in Nat \ {0} : IsFiniteSet(0 .. k - 1) /\ Cardinality(0 .. k - 1) = k
  <1> TAKE k \in Nat \ {0}
  <1>1. /\ IsFiniteSet(0 .. k - 1)
        /\ Cardinality(0 .. k - 1) = IF 0 > k - 1 THEN 0 ELSE (k - 1) - 0 + 1
    BY FS_Interval
  <1> QED BY <1>1

\* The packager, which reads to the end, makes as many chunks as the others count.
LEMMA ReadsAre ==
  ASSUME NEW A, NEW p \in Seq(A)
  PROVE  Reads(p) = 0 .. Chunks(Len(p)) - 1
  <1> DEFINE n == Len(p)  k == Chunks(n)  c == ChunkBytes
  <1>1. n \in Nat /\ c \in Nat \ {0} BY SizeOfChunk
  <1>2. /\ k \in Nat /\ n <= k * c
        /\ \A i \in 0 .. k - 1 : i * c < n
    BY <1>1, Places
  <1> HIDE DEF n, k, c
  <1>3. ASSUME NEW i \in 0 .. n, i * c < n PROVE i \in 0 .. k - 1
    <2>1. SUFFICES ASSUME ~ (i < k) PROVE FALSE BY <1>2
    <2>2. i \in Nat /\ k \in Nat /\ k <= i BY <1>1, <1>2, <2>1
    <2>3. \A x, y \in Nat : x <= y => x * c <= y * c /\ x * c \in Nat /\ y * c \in Nat BY <1>1
    <2>4. k * c <= i * c /\ k * c \in Nat /\ i * c \in Nat BY <2>2, <2>3
    <2> QED BY <1>1, <1>2, <1>3, <2>4
  <1>4. ASSUME NEW i \in 0 .. k - 1 PROVE i \in 0 .. n /\ i * c < n
    <2>1. i * c < n /\ i \in Nat BY <1>2
    <2>2. i <= i * c
      <3>1. \A x, y \in Nat : y # 0 => x <= x * y BY SMTT(30)
      <3> QED BY <1>1, <2>1, <3>1
    <2>3. i * c \in Nat BY <1>1, <2>1
    <2> QED BY <1>1, <2>1, <2>2, <2>3
  <1>5. Reads(p) = {i \in 0 .. n : i * c < n} BY DEF Reads, n, c
  <1> QED BY <1>3, <1>4, <1>5 DEF k, n

LEMMA PartsAre ==
  ASSUME NEW A, NEW p \in Seq(A), p # <<>>
  PROVE  Parts(p) = [i \in 1 .. Chunks(Len(p)) |-> Part(p, i - 1)]
  <1>1. Len(p) \in Nat /\ Len(p) > 0 OBVIOUS
  <1>2. Chunks(Len(p)) \in Nat \ {0} BY <1>1, Places
  <1>3. Cardinality(Reads(p)) = Chunks(Len(p)) BY <1>2, ReadsAre, CountUpTo
  <1> QED BY <1>3 DEF Parts

LEMMA Between ==
  ASSUME NEW A, NEW p \in Seq(A), NEW m \in Nat, NEW n \in Nat, m <= n, n <= Len(p)
  PROVE  /\ SubSeq(p, m + 1, n) \in Seq(A)
         /\ Len(SubSeq(p, m + 1, n)) = n - m
         /\ \A j \in 1 .. n - m : SubSeq(p, m + 1, n)[j] = p[m + j]
  OBVIOUS

LEMMA Longer ==
  ASSUME NEW A, NEW p \in Seq(A), NEW m \in Nat, NEW n \in Nat, m <= n, n <= Len(p)
  PROVE  SubSeq(p, 1, m) \o SubSeq(p, m + 1, n) = SubSeq(p, 1, n)
  <1> DEFINE a == SubSeq(p, 1, m)  b == SubSeq(p, m + 1, n)  e == SubSeq(p, 1, n)
  <1>1. a \in Seq(A) /\ Len(a) = m /\ \A j \in 1 .. m : a[j] = p[j] OBVIOUS
  <1>2. b \in Seq(A) /\ Len(b) = n - m /\ \A j \in 1 .. n - m : b[j] = p[m + j]
    BY Between
  <1>3. e \in Seq(A) /\ Len(e) = n /\ \A j \in 1 .. n : e[j] = p[j] OBVIOUS
  <1> HIDE DEF a, b, e
  <1>4. a \o b \in Seq(A) /\ Len(a \o b) = n
    <2>0. a \in Seq(A) /\ b \in Seq(A) BY <1>1, <1>2
    <2>1. a \o b \in Seq(A) /\ Len(a \o b) = Len(a) + Len(b) BY <2>0
    <2>2. m + (n - m) = n OBVIOUS
    <2> QED BY <1>1, <1>2, <2>1, <2>2
  <1>5. ASSUME NEW j \in 1 .. n PROVE (a \o b)[j] = e[j]
    <2>1. CASE j <= m BY SMTT(30), <1>1, <1>2, <1>3, <2>1
    <2>2. CASE j > m
      <3>1. j - m \in 1 .. n - m /\ m + (j - m) = j BY <2>2
      <3>2. (a \o b)[j] = b[j - m] BY <1>1, <1>2, <2>2
      <3> QED BY <1>2, <1>3, <3>1, <3>2
    <2>3. j <= m \/ j > m OBVIOUS
    <2> QED BY <2>1, <2>2, <2>3
  <1>6. a \o b = e BY <1>3, <1>4, <1>5
  <1> QED BY <1>6 DEF a, b, e

\* One chunk: a full one, or the rest.
LEMMA OneChunk ==
  ASSUME NEW A, NEW p \in Seq(A), NEW i \in 0 .. Chunks(Len(p)) - 1
  PROVE  /\ Part(p, i) \in Seq(A) /\ Part(p, i) # <<>>
         /\ Len(Part(p, i)) = Wanted(Len(p), i)
         /\ SubSeq(p, 1, i * ChunkBytes) \o Part(p, i)
              = SubSeq(p, 1, Least((i + 1) * ChunkBytes, Len(p)))
  <1> DEFINE m == i * ChunkBytes  n == Least((i + 1) * ChunkBytes, Len(p))
             k == Chunks(Len(p))
  <1>0. Len(p) \in Nat /\ ChunkBytes \in Nat \ {0} BY SizeOfChunk
  <1>1. /\ k \in Nat
        /\ m \in Nat /\ m < Len(p)
        /\ (i + 1) * ChunkBytes = m + ChunkBytes
        /\ i < k - 1 => (i + 1) * ChunkBytes < Len(p)
        /\ i = k - 1 => (i + 1) * ChunkBytes >= Len(p)
    BY <1>0, Places
  <1>2. n \in Nat /\ m < n /\ n <= Len(p) /\ Part(p, i) = SubSeq(p, m + 1, n)
        /\ (i < k - 1 => n - m = ChunkBytes)
        /\ (i = k - 1 => n = Len(p))
    <2>1. Part(p, i) = SubSeq(p, m + 1, n) BY DEF Part
    <2>2. n = IF m + ChunkBytes < Len(p) THEN m + ChunkBytes ELSE Len(p) BY <1>1 DEF Least
    <2> HIDE DEF m, n, k
    <2>3. n \in Nat /\ m < n /\ n <= Len(p) BY <2>2, <1>0, <1>1
    <2>4. i < k - 1 => n - m = ChunkBytes BY <2>2, <1>0, <1>1
    <2>5. i = k - 1 => n = Len(p) BY <2>2, <1>0, <1>1
    <2> QED BY <2>1, <2>3, <2>4, <2>5
  <1>w. Wanted(Len(p), i) = n - m
    <2>1. i \in Int /\ k \in Int /\ i <= k - 1 BY <1>1
    <2>2. Wanted(Len(p), i) = IF i < k - 1 THEN ChunkBytes ELSE Len(p) - ChunkBytes * (k - 1)
      BY DEF Wanted
    <2>3. i = k - 1 => ChunkBytes * (k - 1) = m BY <1>0, <2>1
    <2> HIDE DEF m, n, k
    <2>4. i < k - 1 \/ i = k - 1 BY <2>1
    <2> QED BY <2>2, <2>3, <2>4, <1>2
  <1> HIDE DEF m, n, k
  <1>3. Part(p, i) \in Seq(A) /\ Len(Part(p, i)) = n - m BY <1>1, <1>2, Between
  <1>4. SubSeq(p, 1, m) \o Part(p, i) = SubSeq(p, 1, n) BY <1>1, <1>2, Longer
  <1>5. Part(p, i) # <<>>
    <2>1. n - m > 0 BY <1>1, <1>2
    <2> QED BY <1>3, <2>1
  <1> QED BY <1>w, <1>3, <1>4, <1>5 DEF m, n

\* The chunks of a payload, one after the other, are the payload.
LEMMA ChunksAreThePayload ==
  ASSUME NEW A, NEW p \in Seq(A), p # <<>>
  PROVE  FlattenSeq(Parts(p)) = p
  <1> DEFINE s == Parts(p)  n == Chunks(Len(p))
  <1>1. Len(p) \in Nat \ {0} /\ n \in Nat \ {0} /\ Len(p) <= n * ChunkBytes
    <2>1. Len(p) \in Nat \ {0} OBVIOUS
    <2>2. Len(p) > 0 BY <2>1
    <2> QED BY <2>1, <2>2, Places
  <1>2. s = [i \in 1 .. n |-> Part(p, i - 1)] BY PartsAre
  <1> HIDE DEF s, n
  <1>3. Len(s) = n
    <2> DEFINE T == {Part(p, i - 1) : i \in 1 .. n}
    <2>0. s \in [1 .. n -> T] BY <1>2
    <2>1. DOMAIN s = 1 .. n BY <1>2
    <2> HIDE DEF T
    <2>2. s \in Seq(T)
      <3>1. n \in Nat BY <1>1
      <3> QED BY <2>0, <3>1
    <2> QED BY <1>1, <2>1, <2>2
  <1>4. PICK g : Joins(g, s, n) /\ FlattenSeq(s) = g[n] BY <1>1, <1>3, FlattenIs
  <1> DEFINE Upto(i) == SubSeq(p, 1, Least(i * ChunkBytes, Len(p)))
             S == {i \in Nat : i + 1 <= n => g[i + 1] = Upto(i + 1)}
  <1>5. \A i \in 0 .. n - 1 : SubSeq(p, 1, i * ChunkBytes) \o Part(p, i) = Upto(i + 1)
    BY OneChunk DEF n
  <1>6. 0 \in S
    <2>1. 0 \in 0 .. n - 1 /\ 1 \in 1 .. n BY <1>1
    <2>2. g[1] = Part(p, 0) BY <1>2, <1>4, <2>1 DEF Joins
    <2>3. 0 * ChunkBytes = 0 BY SizeOfChunk
    <2>4. SubSeq(p, 1, 0) \o Part(p, 0) = Upto(1)
      <3>1. SubSeq(p, 1, 0 * ChunkBytes) \o Part(p, 0) = Upto(0 + 1) BY <1>5, <2>1
      <3>2. 0 + 1 = 1 OBVIOUS
      <3> QED BY <3>1, <3>2, <2>3
    <2>5. SubSeq(p, 1, 0) = <<>> OBVIOUS
    <2>6. Part(p, 0) \in Seq(A) BY <2>1, OneChunk DEF n
    <2>7. <<>> \o Part(p, 0) = Part(p, 0) BY <2>6
    <2>8. g[1] = Upto(1) BY <2>2, <2>4, <2>5, <2>7
    <2>9. 0 + 1 = 1 OBVIOUS
    <2> QED BY <2>8, <2>9
  <1>7. ASSUME NEW i \in Nat, i \in S PROVE i + 1 \in S
    <2>1. SUFFICES ASSUME i + 2 <= n PROVE g[i + 2] = Upto(i + 2)
      <3>1. (i + 1) + 1 = i + 2 /\ i + 1 \in Nat OBVIOUS
      <3> QED BY <3>1
    <2>2. i + 2 \in 1 .. n /\ i + 2 # 1 /\ (i + 2) - 1 = i + 1 /\ i + 1 <= n
          /\ i + 1 \in 0 .. n - 1 /\ (i + 1) + 1 = i + 2 BY <2>1, <1>1
    <2>3. g[i + 2] = g[i + 1] \o Part(p, i + 1) BY <1>2, <1>4, <2>2 DEF Joins
    <2>4. g[i + 1] = Upto(i + 1) BY <1>7, <2>2
    <2>5. Least((i + 1) * ChunkBytes, Len(p)) = (i + 1) * ChunkBytes
      <3>1. (i + 1) * ChunkBytes < Len(p) BY <1>1, <2>2, Places DEF n
      <3> QED BY <3>1 DEF Least
    <2> QED BY <1>5, <2>2, <2>3, <2>4, <2>5
  <1> HIDE DEF S
  <1>8. Nat \subseteq S BY <1>6, <1>7, Inductive
  <1>9. n - 1 \in S /\ (n - 1) + 1 = n BY <1>1, <1>8
  <1>10. g[n] = Upto(n) BY <1>1, <1>9 DEF S
  <1>11. Least(n * ChunkBytes, Len(p)) = Len(p)
    <2>1. n * ChunkBytes \in Nat BY <1>1, SizeOfChunk
    <2> QED BY <1>1, <2>1 DEF Least
  <1>12. SubSeq(p, 1, Len(p)) = p OBVIOUS
  <1> QED BY <1>4, <1>10, <1>11, <1>12 DEF s
-----------------------------------------------------------------------------
(* What is installed *)

Names == {"xImage", "rootfs", "zero"}
Symbols == {Noise} \cup UNION {UNION {Range(c[n]) : n \in Names} : c \in Cores}
Fields == {"top", "current", "dir", "version", "ok", "records", "chunks", "lists"}

RecordIsWhole(r) ==
    /\ DOMAIN r = {"kind", "name", "size", "md5"}
    /\ r.name \in Names /\ r.size \in Nat
    /\ IF r.name = "zero" THEN r.kind = "rtos"
                          ELSE r.kind \in {"kernel", "rootfs"} /\ r.size > 0
ChunkIsWhole(c) ==
    DOMAIN c = {"name", "index", "digest", "data"} /\ c.data \in Seq(Symbols)

\* Whatever is wrong with a package, no two of its records have a name in common.
Proper(p) ==
    /\ DOMAIN p = Fields
    /\ \A r \in p.records : RecordIsWhole(r)
    /\ \A r, s \in p.records : r.name = s.name => r = s
    /\ \A c \in p.chunks : ChunkIsWhole(c)

\* The package carries this build.
Carries(p, c) ==
    /\ c \in Cores
    /\ \A n \in Names : \E r \in p.records : r.name = n /\ r.md5 = c[n]

\* One part of the slot is what a record of the described package announces.
InSlot(k) ==
    \E r \in described.records : r.kind = k /\ slot[k] = r.md5 /\ slot[k][1] = Magic[k]

Jobs == {"idle", "describe", "unpack", "kernel", "rootfs", "done", "failed"}
SlotInv ==
    /\ core \in Cores /\ job \in Jobs
    /\ pkg # NoPackage => Proper(pkg)
    /\ pkg = NoPackage => checked = NoPackage /\ ~asked /\ job = "idle"
    /\ described # NoPackage => Proper(described)
    /\ \A c \in work.chunks : ChunkIsWhole(c)
    /\ passed.pkg # NoPackage => Proper(passed.pkg) /\ Carries(passed.pkg, passed.core)
    /\ job \in {"unpack", "kernel", "rootfs", "done"} => described # NoPackage
    /\ slot = [kernel |-> slot.kernel, rootfs |-> slot.rootfs]
    /\ job \in {"rootfs", "done"} => InSlot("kernel")
    /\ job = "done" => InSlot("rootfs")

LEMMA Cored ==
  ASSUME NEW c \in Cores, NEW n \in Names
  PROVE  /\ c[n] \in Seq(Range(c[n])) /\ Range(c[n]) \subseteq Symbols
         /\ n # "zero" => c[n] # <<>>
  BY OtaPackageAssumption DEF Names, Symbols, Nothing

LEMMA Wider ==
  ASSUME NEW A, NEW B, A \subseteq B, NEW s \in Seq(A)
  PROVE  s \in Seq(B)
  OBVIOUS

LEMMA Noisy == Noise \in Symbols
  <1>1. \A U : Noise \in {Noise} \cup U OBVIOUS
  <1> QED BY <1>1 DEF Symbols

\* A chunk whose content was tampered with is still a sequence of symbols.
LEMMA TouchedIsWhole ==
  ASSUME NEW s \in Seq(Symbols), NEW d \in Touched(s)
  PROVE  d \in Seq(Symbols)
  <1>1. CASE d = Append(s, Noise) BY <1>1, Noisy
  <1>2. CASE d = Front(s) BY <1>2 DEF Front
  <1>3. CASE d = [s EXCEPT ![1] = Noise]
    <2>1. Len(s) \in Nat /\ s \in [1 .. Len(s) -> Symbols] OBVIOUS
    <2>2. d \in [1 .. Len(s) -> Symbols] BY <1>3, <2>1, Noisy
    <2> QED BY <2>1, <2>2
  <1> QED BY <1>1, <1>2, <1>3 DEF Touched

LEMMA SameChunks ==
  ASSUME NEW p, Proper(p), NEW X, \A c \in X : ChunkIsWhole(c)
  PROVE  Proper([p EXCEPT !.chunks = X])
  BY DEF Proper, Fields
LEMMA SameRecords ==
  ASSUME NEW p, Proper(p), NEW X,
         \A r \in X : RecordIsWhole(r),
         \A r, s \in X : r.name = s.name => r = s
  PROVE  Proper([p EXCEPT !.records = X])
  BY DEF Proper, Fields
LEMMA OtherField ==
  ASSUME NEW p, Proper(p), NEW f \in Fields \ {"records", "chunks"}, NEW x
  PROVE  Proper([p EXCEPT ![f] = x])
  BY DEF Proper, Fields

LEMMA ChangedChunks == ASSUME Proper(pkg), ChunkChanged PROVE Proper(pkg')
  <1> DEFINE D(c) == Touched(c.data) \cup {x.data : x \in pkg.chunks}
  <1>1. \A c \in pkg.chunks : ChunkIsWhole(c) BY DEF Proper
  <1>2. \A c \in pkg.chunks : \A d \in D(c) : d \in Seq(Symbols)
    BY <1>1, TouchedIsWhole DEF ChunkIsWhole
  <1>3. PICK c \in pkg.chunks :
               \/ pkg' = [pkg EXCEPT !.chunks = @ \ {c}]
               \/ \E d \in D(c) : pkg' = [pkg EXCEPT !.chunks = Swap(@, c, [c EXCEPT !.data = d])]
               \/ pkg' = [pkg EXCEPT !.chunks = @ \cup {[c EXCEPT !.digest = <<Noise>>]}]
               \/ pkg' = [pkg EXCEPT !.chunks = Swap(@, c, [c EXCEPT !.index = @ + 1])]
    BY DEF ChunkChanged
  <1> HIDE DEF D
  <1>4. ASSUME NEW e, ChunkIsWhole(e), NEW X,
               \A x \in X : x \in pkg.chunks \/ x = e, pkg' = [pkg EXCEPT !.chunks = X]
        PROVE  Proper(pkg')
    BY <1>1, <1>4, SameChunks
  <1>5. CASE pkg' = [pkg EXCEPT !.chunks = @ \ {c}] BY <1>1, <1>5, SameChunks
  <1>6. CASE \E d \in D(c) : pkg' = [pkg EXCEPT !.chunks = Swap(@, c, [c EXCEPT !.data = d])]
    <2>1. PICK d \in D(c) : pkg' = [pkg EXCEPT !.chunks = Swap(@, c, [c EXCEPT !.data = d])]
      BY <1>6
    <2> DEFINE e == [c EXCEPT !.data = d]
    <2>2. ChunkIsWhole(e) BY <1>1, <1>2 DEF ChunkIsWhole
    <2>3. pkg' = [pkg EXCEPT !.chunks = Swap(pkg.chunks, c, e)] BY <2>1
    <2> HIDE DEF e
    <2> QED BY <2>2, <2>3, <1>4 DEF Swap
  <1>7. CASE pkg' = [pkg EXCEPT !.chunks = @ \cup {[c EXCEPT !.digest = <<Noise>>]}]
    <2> DEFINE e == [c EXCEPT !.digest = <<Noise>>]
    <2>2. ChunkIsWhole(e) BY <1>1 DEF ChunkIsWhole
    <2>3. pkg' = [pkg EXCEPT !.chunks = pkg.chunks \cup {e}] BY <1>7
    <2> HIDE DEF e
    <2> QED BY <2>2, <2>3, <1>4
  <1>8. CASE pkg' = [pkg EXCEPT !.chunks = Swap(@, c, [c EXCEPT !.index = @ + 1])]
    <2> DEFINE e == [c EXCEPT !.index = @ + 1]
    <2>2. ChunkIsWhole(e) BY <1>1 DEF ChunkIsWhole
    <2>3. pkg' = [pkg EXCEPT !.chunks = Swap(pkg.chunks, c, e)] BY <1>8
    <2> HIDE DEF e
    <2> QED BY <2>2, <2>3, <1>4 DEF Swap
  <1> QED BY <1>3, <1>5, <1>6, <1>7, <1>8

LEMMA ChangedLists == ASSUME Proper(pkg), ListChanged PROVE Proper(pkg')
  <1>1. \E X : pkg' = [pkg EXCEPT !.lists = X] BY DEF ListChanged
  <1> QED BY <1>1, OtherField DEF Fields

LEMMA ChangedHead == ASSUME Proper(pkg), HeadChanged PROVE Proper(pkg')
  BY OtherField DEF HeadChanged, Fields

LEMMA ChangedRecords == ASSUME Proper(pkg), RecordChanged PROVE Proper(pkg')
  <1>1. /\ \A r \in pkg.records : RecordIsWhole(r)
        /\ \A r, s \in pkg.records : r.name = s.name => r = s
    BY DEF Proper
  <1>2. ASSUME NEW r \in pkg.records, NEW s, RecordIsWhole(s), s.name = r.name,
               pkg' = [pkg EXCEPT !.records = Swap(@, r, s)]
        PROVE  Proper(pkg')
    <2> DEFINE X == Swap(pkg.records, r, s)
    <2>1. \A x \in X : RecordIsWhole(x) BY <1>1, <1>2 DEF Swap
    <2>2. \A x, y \in X : x.name = y.name => x = y BY <1>1, <1>2 DEF Swap
    <2>3. pkg' = [pkg EXCEPT !.records = X] BY <1>2
    <2> HIDE DEF X
    <2> QED BY <2>1, <2>2, <2>3, SameRecords
  <1>3. CASE \E r \in pkg.records : pkg' = [pkg EXCEPT !.records = @ \ {r}]
    BY <1>1, <1>3, SameRecords
  <1>4. CASE \E r \in pkg.records :
               pkg' = [pkg EXCEPT !.records = Swap(@, r, [r EXCEPT !.size = @ + 1])]
    <2>1. PICK r \in pkg.records :
                 pkg' = [pkg EXCEPT !.records = Swap(@, r, [r EXCEPT !.size = @ + 1])] BY <1>4
    <2>2. RecordIsWhole([r EXCEPT !.size = @ + 1]) /\ [r EXCEPT !.size = @ + 1].name = r.name
      BY <1>1 DEF RecordIsWhole
    <2> QED BY <1>2, <2>1, <2>2
  <1>5. CASE \E r \in pkg.records :
               pkg' = [pkg EXCEPT !.records = Swap(@, r, [r EXCEPT !.md5 = <<Noise>>])]
    <2>1. PICK r \in pkg.records :
                 pkg' = [pkg EXCEPT !.records = Swap(@, r, [r EXCEPT !.md5 = <<Noise>>])] BY <1>5
    <2>2. RecordIsWhole([r EXCEPT !.md5 = <<Noise>>]) /\ [r EXCEPT !.md5 = <<Noise>>].name = r.name
      BY <1>1 DEF RecordIsWhole
    <2> QED BY <1>2, <2>1, <2>2
  <1> DEFINE X == {[r EXCEPT !.kind = OtherKind(@)] : r \in pkg.records}
  <1>6. CASE pkg' = [pkg EXCEPT !.records = X]
    <2>1. ASSUME NEW r \in pkg.records
          PROVE  RecordIsWhole([r EXCEPT !.kind = OtherKind(@)])
                 /\ [r EXCEPT !.kind = OtherKind(@)].name = r.name
      BY <1>1 DEF RecordIsWhole, OtherKind
    <2>2. \A x \in X : RecordIsWhole(x) BY <2>1
    <2>3. ASSUME NEW x \in X, NEW y \in X, x.name = y.name PROVE x = y
      <3>1. PICK r \in pkg.records : x = [r EXCEPT !.kind = OtherKind(@)] OBVIOUS
      <3>2. PICK s \in pkg.records : y = [s EXCEPT !.kind = OtherKind(@)] OBVIOUS
      <3>3. r.name = s.name BY <2>1, <2>3, <3>1, <3>2
      <3>4. r = s BY <1>1, <3>3
      <3> QED BY <3>1, <3>2, <3>4
    <2> HIDE DEF X
    <2> QED BY <1>6, <2>2, <2>3, SameRecords
  <1> QED BY <1>3, <1>4, <1>5, <1>6 DEF RecordChanged

LEMMA Packaged ==
  ASSUME NEW b \in Cores, NEW f, NEW v, NEW t, NEW names \in SUBSET Names
  PROVE  Proper(Package(b, f, v, t, names))
  <1> DEFINE p == Package(b, f, v, t, names)
  <1>1. /\ DOMAIN p = Fields
        /\ p.records = {ImgRecord(n, b[n]) : n \in names}
        /\ p.chunks = UNION {ChunkFiles(n, b[n]) : n \in names}
    BY DEF Package, Fields
  <1> HIDE DEF p
  <1>2. ASSUME NEW n \in names PROVE RecordIsWhole(ImgRecord(n, b[n]))
    <2>1. n \in Names /\ b[n] \in Seq(Range(b[n])) /\ (n # "zero" => b[n] # <<>>)
      BY Cored
    <2>2. Len(b[n]) \in Nat /\ (n # "zero" => Len(b[n]) > 0) BY <2>1
    <2> QED BY <2>1, <2>2 DEF RecordIsWhole, ImgRecord, Partition, Names
  <1>3. \A r, s \in p.records : r.name = s.name => r = s BY <1>1 DEF ImgRecord
  <1>4. ASSUME NEW c \in p.chunks PROVE ChunkIsWhole(c)
    <2>1. PICK n \in names : c \in ChunkFiles(n, b[n]) BY <1>1
    <2>3. n \in Names /\ b[n] \in Seq(Range(b[n])) /\ Range(b[n]) \subseteq Symbols
      BY Cored
    <2>5. Reads(b[n]) = 0 .. Chunks(Len(b[n])) - 1 BY <2>3, ReadsAre
    <2>2. PICK i \in 0 .. Chunks(Len(b[n])) - 1 :
                 c = [name |-> n, index |-> i,
                      digest |-> IF i = 0 THEN b[n] ELSE Part(b[n], i - 1),
                      data |-> Part(b[n], i)]
      BY <2>1, <2>5 DEF ChunkFiles
    <2>4. Part(b[n], i) \in Seq(Symbols) BY <2>2, <2>3, OneChunk, Wider
    <2> QED BY <2>2, <2>4 DEF ChunkIsWhole
  <1>5. \A r \in p.records : RecordIsWhole(r) BY <1>1, <1>2
  <1>6. DOMAIN p = Fields BY <1>1
  <1>7. Proper(p) BY <1>3, <1>4, <1>5, <1>6 DEF Proper
  <1> QED BY <1>7 DEF p

LEMMA NoneIsNone == \A p : Proper(p) => p # NoPackage BY DEF Proper, NoPackage, Fields

LEMMA BuildSlot == ASSUME SlotInv, Build PROVE SlotInv'
  <1>1. \E f, v, t : \E names \in SUBSET Names : pkg' = Package(core, f, v, t, names)
    BY DEF Build, Names, WithOrWithoutRtos
  <1>2. Proper(pkg') BY <1>1, Packaged DEF SlotInv
  <1>3. UNCHANGED <<core, passed, installer>> BY DEF Build, packager
  <1> QED BY <1>2, <1>3, NoneIsNone DEF SlotInv, InSlot, installer

LEMMA ChangesProper ==
  ASSUME SlotInv, Repack \/ Exchange \/ Rename
  PROVE  Proper(pkg')
  <1>1. Proper(pkg) BY DEF Repack, Exchange, Rename, Changes, SlotInv
  <1>2. CASE Repack
    BY <1>1, <1>2, ChangedChunks, ChangedLists, ChangedRecords, ChangedHead DEF Repack
  <1>3. CASE Exchange
    <2>1. \E c \in Cores : \E f, v, t : \E names \in SUBSET Names :
             pkg' = Package(c, f, v, t, names)
      BY <1>3 DEF Exchange, Names, WithOrWithoutRtos
    <2> QED BY <2>1, Packaged
  <1>4. CASE Rename BY <1>1, <1>4 DEF Rename
  <1> QED BY <1>2, <1>3, <1>4

LEMMA RepackSlot == ASSUME SlotInv, Repack \/ Exchange \/ Rename PROVE SlotInv'
  <1>1. UNCHANGED <<core, passed, installer>>
    BY DEF Repack, Exchange, Rename, Changes, packager
  <1>2. Proper(pkg') BY ChangesProper
  <1> QED BY <1>1, <1>2, NoneIsNone DEF SlotInv, InSlot, installer

LEMMA ValidateSlot == ASSUME SlotInv, Validate PROVE SlotInv'
  <1>1. PICK c \in Cores : Validates(pkg, Payloads(c)) /\ passed' = [pkg |-> pkg, core |-> c]
    BY DEF Validate
  <1>2. UNCHANGED <<core, pkg, asked, checked, installer>> BY DEF Validate, packager
  <1>3. Proper(pkg) BY DEF Validate, SlotInv
  <1>4. ASSUME NEW n \in Names PROVE \E r \in pkg.records : r.name = n /\ r.md5 = c[n]
    <2>1. n \in DOMAIN Payloads(c) /\ Payloads(c)[n] = c[n] BY DEF Payloads, Names
    <2>2. PayloadHolds(pkg, n, c[n]) BY <1>1, <2>1 DEF Validates
    <2> QED BY <2>2 DEF PayloadHolds, RecordsNamed
  <1>5. Carries(pkg, c) BY <1>4 DEF Carries
  <1>6. passed'.pkg = pkg /\ passed'.core = c BY <1>1
  <1> QED BY <1>2, <1>3, <1>5, <1>6 DEF SlotInv, InSlot, installer

LEMMA CheckSlot == ASSUME SlotInv, CheckDescribes \/ CheckHashes PROVE SlotInv'
  <1>1. UNCHANGED <<core, pkg, passed, installer>>
    BY DEF CheckDescribes, CheckHashes, packager
  <1>2. pkg # NoPackage BY DEF CheckDescribes, CheckHashes, SlotInv
  <1> QED BY <1>1, <1>2 DEF SlotInv, InSlot, installer

LEMMA JobSlot == ASSUME SlotInv, HashJob \/ DescribeJob \/ UnpackJob PROVE SlotInv'
  <1>0. pkg # NoPackage BY DEF HashJob, DescribeJob, UnpackJob, SlotInv
  <1>1. CASE HashJob
    <2>1. job' \in {"describe", "failed"} /\ UNCHANGED <<core, pkg, passed, described, work, slot>>
      BY <1>1 DEF HashJob, packager
    <2> QED BY <1>0, <2>1 DEF SlotInv, Jobs
  <1>2. CASE DescribeJob
    <2>1. job = "describe" /\ UNCHANGED <<core, pkg, passed, work, slot>>
          /\ \/ Describes(pkg) /\ described' = pkg /\ job' = "unpack"
             \/ job' = "failed" /\ UNCHANGED described
      BY <1>2 DEF DescribeJob, packager
    <2>3. CASE described' = pkg /\ job' = "unpack"
      <3> QED BY <1>0, <2>1, <2>3 DEF SlotInv, Jobs
    <2>4. CASE job' = "failed" /\ UNCHANGED described BY <1>0, <2>1, <2>4 DEF SlotInv, Jobs
    <2> QED BY <2>1, <2>3, <2>4
  <1>3. CASE UnpackJob
    <2>1. job = "unpack" /\ UNCHANGED <<core, pkg, passed, described, slot>>
          /\ \/ work' = [chunks |-> pkg.chunks, lists |-> pkg.lists] /\ job' = "kernel"
             \/ job' = "failed" /\ UNCHANGED work
      BY <1>3 DEF UnpackJob, packager
    <2>2. CASE work' = [chunks |-> pkg.chunks, lists |-> pkg.lists] /\ job' = "kernel"
      <3>1. \A c \in pkg.chunks : ChunkIsWhole(c) BY <1>0 DEF SlotInv, Proper
      <3>2. \A c \in work'.chunks : ChunkIsWhole(c) BY <2>2, <3>1
      <3> QED BY <1>0, <2>1, <2>2, <3>2 DEF SlotInv, Jobs
    <2>3. CASE job' = "failed" /\ UNCHANGED work BY <1>0, <2>1, <2>3 DEF SlotInv, Jobs
    <2> QED BY <2>1, <2>2, <2>3
  <1> QED BY <1>1, <1>2, <1>3

\* What is written begins with its first chunk.
LEMMA WrittenBegins ==
  ASSUME NEW p, \A c \in p.chunks : ChunkIsWhole(c), NEW r, r.size \in Nat \ {0},
         NEW w \in Written(p, r)
  PROVE  Content(w)[1] = w[0][1]
  <1> DEFINE n == Chunks(r.size)  s == [i \in 1 .. n |-> w[i - 1]]
  <1>1. r.size \in Nat /\ r.size > 0 OBVIOUS
  <1>2. n \in Nat \ {0} BY <1>1, Places
  <1>3. w \in [0 .. n - 1 -> {c.data : c \in p.chunks}] BY DEF Written
  <1>4. \A i \in 0 .. n - 1 : w[i] \in Seq(Symbols) BY <1>3 DEF ChunkIsWhole
  <1>5. Len(w[0]) = Wanted(r.size, 0)
    <2>1. 0 \in DOMAIN w BY <1>2, <1>3
    <2> QED BY <2>1 DEF Written
  <1>6. Wanted(r.size, 0) > 0
    <2>1. 0 < n - 1 \/ n - 1 = 0 BY <1>2
    <2>2. CASE 0 < n - 1
      <3>1. Wanted(r.size, 0) = ChunkBytes BY <2>2 DEF Wanted
      <3> QED BY <3>1, SizeOfChunk
    <2>3. CASE n - 1 = 0
      <3>1. Wanted(r.size, 0) = r.size - ChunkBytes * 0 BY <2>3 DEF Wanted
      <3>2. ChunkBytes * 0 = 0 BY SizeOfChunk
      <3> QED BY <1>1, <3>1, <3>2
    <2> QED BY <2>1, <2>2, <2>3
  <1>7. Cardinality(DOMAIN w) = n
    <2>1. DOMAIN w = 0 .. n - 1 BY <1>3
    <2> QED BY <1>2, <2>1, CountUpTo
  <1>8. Content(w) = FlattenSeq(s) BY <1>7 DEF Content
  <1> HIDE DEF n
  <1>9. /\ Len(s) = n
        /\ \A i \in 1 .. n : s[i] \in Seq(Symbols)
        /\ s[1] = w[0]
    <2>1. \A i \in 1 .. n : i - 1 \in 0 .. n - 1 BY <1>2
    <2>2. \A i \in 1 .. n : s[i] = w[i - 1] /\ s[i] \in Seq(Symbols) BY <1>4, <2>1
    <2>3. s \in [1 .. n -> Seq(Symbols)] BY <2>2
    <2>4. s \in Seq(Seq(Symbols)) /\ DOMAIN s = 1 .. n BY <1>2, <2>3
    <2>5. 1 \in 1 .. n /\ 1 - 1 = 0 BY <1>2
    <2> HIDE DEF s
    <2>6. Len(s) = n BY <2>4, <1>2
    <2> QED BY <2>2, <2>5, <2>6
  <1> HIDE DEF s
  <1>10. w[0] # <<>> BY <1>5, <1>6
  <1> QED BY <1>2, <1>8, <1>9, <1>10, BeginsWith

LEMMA WriteSlot ==
  ASSUME SlotInv, NEW k \in {"kernel", "rootfs"}, NEW next,
         next = IF k = "kernel" THEN "rootfs" ELSE "done", WritePayload(k, next)
  PROVE  SlotInv'
  <1>1. /\ job = k /\ described # NoPackage /\ Proper(described)
        /\ \A c \in work.chunks : ChunkIsWhole(c)
        /\ pkg # NoPackage /\ UNCHANGED <<core, pkg, passed, described, work>>
    BY DEF WritePayload, SlotInv, packager
  <1>2. PICK r \in described.records :
          /\ r.kind = k
          /\ \/ \E w \in Written(work, r) :
                  /\ w[0][1] = Magic[k] /\ Content(w) = r.md5
                  /\ slot' = [slot EXCEPT ![k] = Content(w)] /\ job' = next
             \/ slot' = [slot EXCEPT ![k] = Nothing] /\ job' = "failed"
    BY DEF WritePayload, OfKind, Takes
  <1>3. slot = [kernel |-> slot.kernel, rootfs |-> slot.rootfs] BY DEF SlotInv
  <1>4. CASE slot' = [slot EXCEPT ![k] = Nothing] /\ job' = "failed"
    <2>1. slot' = [kernel |-> slot'.kernel, rootfs |-> slot'.rootfs] BY <1>3, <1>4
    <2> QED BY <1>1, <1>4, <2>1 DEF SlotInv, Jobs
  <1>5. CASE \E w \in Written(work, r) :
                  /\ w[0][1] = Magic[k] /\ Content(w) = r.md5
                  /\ slot' = [slot EXCEPT ![k] = Content(w)] /\ job' = next
    <2>1. PICK w \in Written(work, r) :
                  /\ w[0][1] = Magic[k] /\ Content(w) = r.md5
                  /\ slot' = [slot EXCEPT ![k] = Content(w)] /\ job' = next
      BY <1>5
    <2>2. r.size \in Nat \ {0}
      <3>1. RecordIsWhole(r) BY <1>1 DEF Proper
      <3> QED BY <1>2, <3>1 DEF RecordIsWhole
    <2>3. Content(w)[1] = Magic[k] BY <1>1, <2>1, <2>2, WrittenBegins
    <2>4. slot'[k] = r.md5 /\ slot'[k][1] = Magic[k] BY <1>3, <2>1, <2>3
    <2>5. InSlot(k)' BY <1>1, <1>2, <2>4 DEF InSlot, Magic
    <2>6. slot' = [kernel |-> slot'.kernel, rootfs |-> slot'.rootfs] BY <1>3, <2>1
    <2>7. CASE k = "kernel" BY <1>1, <2>1, <2>5, <2>6, <2>7 DEF SlotInv, Jobs
    <2>8. CASE k = "rootfs"
      <3>1. InSlot("kernel") BY <1>1, <2>8 DEF SlotInv
      <3>2. slot'.kernel = slot.kernel BY <1>3, <2>1, <2>8
      <3>3. InSlot("kernel")' BY <1>1, <3>1, <3>2 DEF InSlot, Magic
      <3> QED BY <1>1, <2>1, <2>5, <2>6, <2>8, <3>3 DEF SlotInv, Jobs
    <2> QED BY <2>7, <2>8
  <1> QED BY <1>2, <1>4, <1>5

LEMMA SlotInvariant == Spec => []SlotInv
  <1>1. Init => SlotInv BY DEF Init, SlotInv, Jobs
  <1>2. SlotInv /\ [Next]_vars => SlotInv'
    <2>1. SUFFICES ASSUME SlotInv, [Next]_vars PROVE SlotInv' OBVIOUS
    <2>2. CASE WriteKernel BY <2>1, <2>2, WriteSlot DEF WriteKernel
    <2>3. CASE WriteRootfs BY <2>1, <2>3, WriteSlot DEF WriteRootfs
    <2>4. CASE UNCHANGED vars BY <2>1, <2>4 DEF SlotInv, InSlot, vars, packager, installer
    <2> QED BY <2>1, <2>2, <2>3, <2>4, BuildSlot, RepackSlot, ValidateSlot, CheckSlot, JobSlot
         DEF Next  <1> QED BY <1>1, <1>2, PTL DEF Spec

\* A package that passed the validator and that the job described puts the
\* validated build into the slot, whatever its file is exchanged for before it
\* is unpacked (validate-img.py; image.py, run_job and _write_payload).
THEOREM OnlyTheValidated == Spec => []InstalledIsValidated
  <1>1. SlotInv => InstalledIsValidated
    <2>1. SUFFICES ASSUME SlotInv, job = "done", passed.pkg = described
                   PROVE  slot = [kernel |-> passed.core.xImage, rootfs |-> passed.core.rootfs]
      BY DEF InstalledIsValidated
    <2> DEFINE c == passed.core
    <2>2. Proper(described) /\ Carries(described, c) BY <2>1 DEF SlotInv
    <2>3. c.xImage[1] = Uboot /\ c.rootfs[1] = Squash /\ Uboot # Squash
      BY <2>2, OtaPackageAssumption DEF Carries
    <2> HIDE DEF c
    <2>4. ASSUME NEW r \in described.records
          PROVE  /\ r.name \in Names /\ (r.name = "zero" => r.kind = "rtos")
                 /\ r.md5 = c[r.name]
      <3>1. RecordIsWhole(r) BY <2>2 DEF Proper
      <3>2. r.name \in Names /\ (r.name = "zero" => r.kind = "rtos")
        BY <3>1 DEF RecordIsWhole
      <3>3. PICK s \in described.records : s.name = r.name /\ s.md5 = c[r.name]
        BY <2>2, <3>2 DEF Carries
      <3>4. s = r BY <2>2, <3>3 DEF Proper
      <3> QED BY <3>2, <3>3, <3>4
    <2>5. slot.kernel = c.xImage
      <3>1. PICK r \in described.records :
                   r.kind = "kernel" /\ slot.kernel = r.md5 /\ slot.kernel[1] = Uboot
        BY <2>1 DEF SlotInv, InSlot, Magic
      <3> QED BY <2>3, <2>4, <3>1 DEF Names
    <2>6. slot.rootfs = c.rootfs
      <3>1. PICK r \in described.records :
                   r.kind = "rootfs" /\ slot.rootfs = r.md5 /\ slot.rootfs[1] = Squash
        BY <2>1 DEF SlotInv, InSlot, Magic
      <3> QED BY <2>3, <2>4, <3>1 DEF Names
    <2>7. slot = [kernel |-> slot.kernel, rootfs |-> slot.rootfs] BY <2>1 DEF SlotInv
    <2> QED BY <2>5, <2>6, <2>7 DEF c
  <1> QED BY <1>1, SlotInvariant, PTL

-----------------------------------------------------------------------------
(* What is built *)

ChunkOf(n, p, i) ==
    [name |-> n, index |-> i, digest |-> IF i = 0 THEN p ELSE Part(p, i - 1), data |-> Part(p, i)]

\* The chunk files of one payload, one for each index.
LEMMA ChunkSet ==
  ASSUME NEW n, NEW A, NEW p \in Seq(A), p # <<>>
  PROVE  LET K == ChunkFiles(n, p)  k == Chunks(Len(p)) IN
         /\ k \in Nat \ {0} /\ Len(p) \in Nat \ {0}
         /\ K = {ChunkOf(n, p, i) : i \in 0 .. k - 1}
         /\ \A i \in 0 .. k - 1 : At(K, i) = ChunkOf(n, p, i)
         /\ {c.index : c \in K} = 0 .. k - 1
         /\ \A c, d \in K : c.index = d.index => c = d
         /\ \A c \in K : c.name = n
         /\ Cardinality(K) = k
  <1> DEFINE K == ChunkFiles(n, p)  k == Chunks(Len(p))
  <1>1. k \in Nat \ {0} /\ Len(p) \in Nat \ {0}
    <2>1. Len(p) \in Nat \ {0} OBVIOUS
    <2>2. Len(p) > 0 BY <2>1
    <2> QED BY <2>1, <2>2, Places
  <1>2. K = {ChunkOf(n, p, i) : i \in 0 .. k - 1}
    <2>1. Reads(p) = 0 .. k - 1 BY ReadsAre
    <2> HIDE DEF k
    <2> QED BY <2>1 DEF ChunkFiles, ChunkOf
  <1> HIDE DEF K, k
  <1>3. ASSUME NEW i \in 0 .. k - 1
        PROVE  ChunkOf(n, p, i).index = i /\ ChunkOf(n, p, i).name = n
    BY DEF ChunkOf
  <1>4. \A c, d \in K : c.index = d.index => c = d BY <1>2, <1>3
  <1>5. ASSUME NEW i \in 0 .. k - 1 PROVE At(K, i) = ChunkOf(n, p, i)
    <2>1. ChunkOf(n, p, i) \in K /\ ChunkOf(n, p, i).index = i BY <1>2, <1>3
    <2>2. At(K, i) \in K /\ At(K, i).index = i BY <2>1 DEF At
    <2> QED BY <1>4, <2>1, <2>2
  <1>6. {c.index : c \in K} = 0 .. k - 1 BY <1>2, <1>3
  <1>7. \A c \in K : c.name = n BY <1>2, <1>3
  <1>8. Cardinality(K) = k
    <2> DEFINE f == [i \in 0 .. k - 1 |-> ChunkOf(n, p, i)]
    <2>1. f \in Bijection(0 .. k - 1, K)
      <3>1. f \in [0 .. k - 1 -> K] BY <1>2
      <3>2. \A a, b \in 0 .. k - 1 : f[a] = f[b] => a = b BY <1>3
      <3>3. \A c \in K : \E a \in 0 .. k - 1 : f[a] = c BY <1>2
      <3> HIDE DEF f
      <3> QED BY <3>1, <3>2, <3>3 DEF Bijection, Injection, Surjection, IsInjective
    <2>2. ExistsBijection(0 .. k - 1, K) BY <2>1 DEF ExistsBijection
    <2>3. IsFiniteSet(0 .. k - 1) /\ Cardinality(0 .. k - 1) = k BY <1>1, CountUpTo
    <2> QED BY <2>2, <2>3, FS_Bijection
  <1> QED BY <1>1, <1>2, <1>4, <1>5, <1>6, <1>7, <1>8 DEF K, k

\* The package that the packager made of this core, and what it looked at first.
Sets == {{"xImage", "rootfs", "zero"}, {"xImage", "rootfs"}}
MadeOf(names) ==
    /\ names \in Sets
    /\ "zero" \in names => core.zero # Nothing
    /\ FitsBuild(core)
    /\ \E v, t : pkg = Package(core, file, v, t, names)

LEMMA Payload ==
  ASSUME core \in Cores, NEW names, MadeOf(names), NEW n \in names
  PROVE  n \in Names /\ core[n] \in Seq(Range(core[n])) /\ core[n] # <<>>
  <1>1. n \in Names BY DEF MadeOf, Sets, Names
  <1>2. n = "zero" => core[n] # <<>> BY DEF MadeOf, Nothing
  <1> QED BY <1>1, <1>2, Cored

LEMMA Contents ==
  ASSUME core \in Cores, NEW names, MadeOf(names)
  PROVE  /\ pkg.records = {ImgRecord(n, core[n]) : n \in names}
         /\ \A n \in names :
              /\ {c \in pkg.chunks : c.name = n} = ChunkFiles(n, core[n])
              /\ RecordsNamed(pkg, n) = {ImgRecord(n, core[n])}
              /\ ListFile(n, core[n]) \in pkg.lists
              /\ ImgRecord(n, core[n]) \in OfKind(pkg, Partition[n])
  <1>1. /\ pkg.records = {ImgRecord(n, core[n]) : n \in names}
        /\ pkg.chunks = UNION {ChunkFiles(n, core[n]) : n \in names}
        /\ pkg.lists = {ListFile(n, core[n]) : n \in names}
    BY DEF MadeOf, Package
  <1>2. ASSUME NEW n \in names PROVE \A c \in ChunkFiles(n, core[n]) : c.name = n
    BY DEF ChunkFiles
  <1>3. ASSUME NEW n \in names
        PROVE  {c \in pkg.chunks : c.name = n} = ChunkFiles(n, core[n])
    BY <1>1, <1>2
  <1>4. ASSUME NEW n \in names
        PROVE  RecordsNamed(pkg, n) = {ImgRecord(n, core[n])}
    BY <1>1 DEF RecordsNamed, ImgRecord
  <1>5. ASSUME NEW n \in names
        PROVE  ImgRecord(n, core[n]) \in OfKind(pkg, Partition[n])
    BY <1>1 DEF OfKind, ImgRecord
  <1> QED BY <1>1, <1>3, <1>4, <1>5

\* The validator finds the payload whole.
LEMMA Accepted ==
  ASSUME core \in Cores, NEW names, MadeOf(names), NEW n \in names
  PROVE  PayloadHolds(pkg, n, core[n])
  <1> DEFINE p == core[n]  K == ChunkFiles(n, p)  k == Chunks(Len(p))
  <1>1. p \in Seq(Range(p)) /\ p # <<>> BY Payload
  <1>2. /\ k \in Nat \ {0} /\ Len(p) \in Nat \ {0}
        /\ \A i \in 0 .. k - 1 : At(K, i) = ChunkOf(n, p, i)
        /\ {c.index : c \in K} = 0 .. k - 1
        /\ \A c, d \in K : c.index = d.index => c = d
    BY ZenonT(60), <1>1, ChunkSet
  <1>3. /\ {c \in pkg.chunks : c.name = n} = K
        /\ RecordsNamed(pkg, n) = {ImgRecord(n, p)}
        /\ ListFile(n, p) \in pkg.lists
    BY Contents
  <1>4. \E r \in RecordsNamed(pkg, n) : r.size = Len(p) /\ r.md5 = p BY <1>3 DEF ImgRecord
  <1> HIDE DEF K
  <1>5. K \in Kept(pkg, n) BY <1>2, <1>3 DEF Kept
  <1>6. ChainHolds(K, p)
    <2>1. ASSUME NEW i \in 0 .. k - 1
          PROVE  At(K, i).digest = IF i = 0 THEN p ELSE At(K, i - 1).data
      <3>1. i # 0 => i - 1 \in 0 .. k - 1 BY <1>2
      <3>2. At(K, i) = ChunkOf(n, p, i) /\ (i # 0 => At(K, i - 1) = ChunkOf(n, p, i - 1))
        BY <1>2, <3>1
      <3> QED BY <3>2 DEF ChunkOf
    <2> QED BY <2>1 DEF ChainHolds
  <1>7. Sums(K, p) = Parts(p)
    <2>1. ASSUME NEW i \in 1 .. k PROVE At(K, i - 1).data = Part(p, i - 1)
      <3>1. i - 1 \in 0 .. k - 1 BY <1>2
      <3> QED BY <1>2, <3>1 DEF ChunkOf
    <2> QED BY <1>1, <2>1, PartsAre DEF Sums
  <1>8. ListHolds(pkg, K, n, p) BY <1>3, <1>7 DEF ListHolds, ListFile
  <1>9. Reassembled(K, p) = p BY <1>1, <1>7, ChunksAreThePayload DEF Reassembled
  <1> QED BY <1>2, <1>4, <1>5, <1>6, <1>8, <1>9 DEF PayloadHolds

\* The printer finds in it what it needs.
LEMMA Described ==
  ASSUME core \in Cores, NEW names, MadeOf(names)
  PROVE  Describes(pkg)
  <1>1. ASSUME NEW n \in {"xImage", "rootfs"}
        PROVE  LET r == ImgRecord(n, core[n])  C == ChunkNames(pkg, n) IN
               /\ r \in OfKind(pkg, Partition[n]) /\ r.name = n
               /\ r.size > 0 /\ C # {} /\ Unbroken(C) /\ At(C, 0).digest = r.md5
               /\ Cardinality(C) = Chunks(r.size)
               /\ r.size <= Capacity[Partition[n]]
    <2> DEFINE r == ImgRecord(n, core[n])  C == ChunkNames(pkg, n)  p == core[n]
               k == Chunks(Len(p))
    <2>1. n \in names BY DEF MadeOf, Sets
    <2>2. p \in Seq(Range(p)) /\ p # <<>> BY <2>1, Payload
    <2>3. C = ChunkFiles(n, p) /\ r \in OfKind(pkg, Partition[n])
      BY <2>1, Contents DEF ChunkNames
    <2>4. /\ k \in Nat \ {0} /\ Len(p) \in Nat \ {0}
          /\ C = {ChunkOf(n, p, i) : i \in 0 .. k - 1}
          /\ \A i \in 0 .. k - 1 : At(C, i) = ChunkOf(n, p, i)
          /\ {c.index : c \in C} = 0 .. k - 1
          /\ Cardinality(C) = k
      BY <2>2, <2>3, ChunkSet
    <2>5. r.size = Len(p) /\ r.md5 = p /\ r.name = n BY DEF ImgRecord
    <2>6. Len(p) <= Capacity[Partition[n]] BY DEF MadeOf, FitsBuild, Partition
    <2>7. 0 \in 0 .. k - 1 BY <2>4
    <2> HIDE DEF C, r
    <2>8. C # {} BY <2>4, <2>7
    <2>9. At(C, 0).digest = p BY <2>4, <2>7 DEF ChunkOf
    <2>10. r.size > 0 BY <2>4, <2>5
    <2>11. Unbroken(C) BY <2>4 DEF Unbroken
    <2> QED BY <2>3, <2>4, <2>5, <2>6, <2>8, <2>9, <2>10, <2>11 DEF C, r
  <1>2. Partition["xImage"] = "kernel" /\ Partition["rootfs"] = "rootfs" BY DEF Partition
  <1>3. ASSUME NEW k \in {"kernel", "rootfs"}
        PROVE  \E r \in OfKind(pkg, k) :
            LET C == ChunkNames(pkg, r.name) IN
            /\ r.size > 0 /\ C # {} /\ Unbroken(C) /\ At(C, 0).digest = r.md5
            /\ Cardinality(C) = Chunks(r.size)
            /\ r.size <= Capacity[k]
    <2>1. PICK n \in {"xImage", "rootfs"} : Partition[n] = k BY <1>2
    <2> QED BY <1>1, <2>1
  <1> QED BY <1>3 DEF Describes

\* Each part can be written, chunk by chunk, to the end.
LEMMA Writable ==
  ASSUME core \in Cores, NEW names, MadeOf(names), NEW n \in names,
         NEW q, q.chunks = pkg.chunks, q.lists = pkg.lists
  PROVE  \E w \in Written(q, ImgRecord(n, core[n])) :
            w[0][1] = core[n][1] /\ Content(w) = core[n]
  <1> DEFINE p == core[n]  k == Chunks(Len(p))  w == [i \in 0 .. k - 1 |-> Part(p, i)]
             r == ImgRecord(n, p)
  <1>1. p \in Seq(Range(p)) /\ p # <<>> BY Payload
  <1>2. /\ k \in Nat \ {0} /\ Len(p) \in Nat \ {0}
        /\ ChunkFiles(n, p) = {ChunkOf(n, p, i) : i \in 0 .. k - 1}
    BY <1>1, ChunkSet
  <1>3. /\ {c \in q.chunks : c.name = n} = ChunkFiles(n, p)
        /\ ListFile(n, p) \in q.lists
    BY Contents
  <1>4. r.size = Len(p) /\ r.md5 = p /\ r.name = n BY DEF ImgRecord
  <1>5. ASSUME NEW i \in 0 .. k - 1
        PROVE  ChunkOf(n, p, i) \in q.chunks /\ ChunkOf(n, p, i).data = Part(p, i)
    BY <1>2, <1>3 DEF ChunkOf
  <1>6. w \in [0 .. k - 1 -> {c.data : c \in q.chunks}]
    <2>1. ASSUME NEW i \in 0 .. k - 1 PROVE Part(p, i) \in {c.data : c \in q.chunks}
      BY <1>5
    <2> QED BY <2>1
  <1>7. ASSUME NEW i \in 0 .. k - 1
        PROVE  /\ [name |-> n, index |-> i, data |-> w[i],
                   digest |-> IF i = 0 THEN p ELSE w[i - 1]] \in q.chunks
               /\ Len(w[i]) = Wanted(Len(p), i)
               /\ w[i] = Parts(p)[i + 1]
    <2>1. i # 0 => i - 1 \in 0 .. k - 1 BY <1>2
    <2>2. w[i] = Part(p, i) /\ (i # 0 => w[i - 1] = Part(p, i - 1)) BY <2>1
    <2>3. ChunkOf(n, p, i) = [name |-> n, index |-> i, data |-> w[i],
                              digest |-> IF i = 0 THEN p ELSE w[i - 1]]
      BY <2>2 DEF ChunkOf
    <2>4. Len(w[i]) = Wanted(Len(p), i) BY <1>1, <2>2, OneChunk
    <2>5. Parts(p)[i + 1] = Part(p, i)
      <3>1. i + 1 \in 1 .. k /\ (i + 1) - 1 = i BY <1>2
      <3> QED BY <1>1, <3>1, PartsAre
    <2> HIDE DEF w
    <2> QED BY <1>5, <2>2, <2>3, <2>4, <2>5
  <1>8. DOMAIN w = 0 .. k - 1 OBVIOUS
  <1>9. Len(Parts(p)) = k
    <2>1. Parts(p) \in [1 .. k -> {Part(p, i - 1) : i \in 1 .. k}] BY <1>1, PartsAre
    <2>2. \A T, s : s \in [1 .. k -> T] => Len(s) = k
      <3> TAKE T, s
      <3> HAVE s \in [1 .. k -> T]
      <3>1. s \in Seq(T) /\ DOMAIN s = 1 .. k BY <1>2
      <3> QED BY <3>1, <1>2
    <2> HIDE DEF k
    <2> QED BY <2>1, <2>2
  <1>10. Content(w) = p
    <2>2. Cardinality(DOMAIN w) = k BY <1>2, <1>8, CountUpTo
    <2>3. ASSUME NEW i \in 1 .. k PROVE w[i - 1] = Part(p, i - 1)
      <3>1. i - 1 \in 0 .. k - 1 BY <1>2
      <3> QED BY <3>1
    <2> HIDE DEF w
    <2>4. [i \in 1 .. k |-> w[i - 1]] = Parts(p) BY <1>1, <2>3, PartsAre
    <2>5. Content(w) = FlattenSeq(Parts(p)) BY <2>2, <2>4 DEF Content
    <2> QED BY <1>1, <2>5, ChunksAreThePayload
  <1>11. w[0][1] = p[1]
    <2>1. 0 \in 0 .. k - 1 BY <1>2
    <2>2. w[0] = Part(p, 0) BY <2>1
    <2> DEFINE m == Least((0 + 1) * ChunkBytes, Len(p))
    <2>3. Part(p, 0) = SubSeq(p, 0 * ChunkBytes + 1, m) BY DEF Part
    <2>4. 0 * ChunkBytes + 1 = 1 /\ (0 + 1) * ChunkBytes = ChunkBytes BY SizeOfChunk
    <2>5. m \in 1 .. Len(p) BY <1>2, <2>4, SizeOfChunk DEF Least
    <2> HIDE DEF m
    <2>6. SubSeq(p, 1, m)[1] = p[1] BY <1>1, <2>5
    <2> QED BY <2>2, <2>3, <2>4, <2>6
  <1>12. w \in Written(q, r)
    <2> HIDE DEF w
    <2>1. \E l \in q.lists :
            /\ l.name = n /\ l.digest = p /\ Len(l.sums) = k
            /\ \A i \in 0 .. k - 1 :
                  /\ [name |-> n, index |-> i, data |-> w[i],
                      digest |-> IF i = 0 THEN p ELSE w[i - 1]] \in q.chunks
                  /\ Len(w[i]) = Wanted(Len(p), i)
                  /\ w[i] = l.sums[i + 1]
      <3>1. ListFile(n, p).name = n /\ ListFile(n, p).digest = p /\ ListFile(n, p).sums = Parts(p)
        BY DEF ListFile
      <3> QED BY <1>3, <1>7, <1>9, <3>1
    <2> QED BY <1>4, <1>6, <1>8, <2>1 DEF Written
  <1> QED BY <1>10, <1>11, <1>12

\* The validator's answer to what the packager made.
LEMMA Valid ==
  ASSUME core \in Cores, NEW names, MadeOf(names), pkg.current = pkg.version,
         RecordsNamed(pkg, "zero") # {}, Len(core.zero) <= Capacity.rtos
  PROVE  Validates(pkg, Payloads(core))
  <1>1. PICK v, t : pkg = Package(core, file, v, t, names) BY DEF MadeOf
  <1>2. pkg.top = file /\ pkg.ok = TRUE /\ pkg.dir = v /\ pkg.version = v
    BY <1>1 DEF Package
  <1>3. HeadIsRight(pkg) BY <1>2 DEF HeadIsRight
  <1>4. pkg.records = {ImgRecord(n, core[n]) : n \in names} BY Contents
  <1>5. "zero" \in names BY <1>4 DEF RecordsNamed, ImgRecord
  <1>6. names = {"xImage", "rootfs", "zero"} BY <1>5 DEF MadeOf, Sets
  <1>7. /\ DOMAIN Payloads(core) = names
        /\ \A n \in names : Payloads(core)[n] = core[n]
    BY <1>6 DEF Payloads
  <1>8. {r.name : r \in pkg.records} = names
    <2>1. \A n \in names : ImgRecord(n, core[n]).name = n BY DEF ImgRecord
    <2> QED BY <1>4, <2>1
  <1>9. DeclaresAll(pkg, Payloads(core)) BY <1>5, <1>7, <1>8 DEF DeclaresAll
  <1>10. \A n \in names : PayloadHolds(pkg, n, core[n]) BY Accepted
  <1>11. FitsPartitions(Payloads(core))
    <2>1. Len(core.xImage) <= Capacity.kernel /\ Len(core.rootfs) <= Capacity.rootfs
      BY DEF MadeOf, FitsBuild
    <2>2. \A n \in names : Len(core[n]) <= Capacity[Partition[n]] BY <1>6, <2>1 DEF Partition
    <2> QED BY <1>7, <2>2 DEF FitsPartitions
  <1> QED BY <1>3, <1>7, <1>9, <1>10, <1>11 DEF Validates

BuiltInv ==
    /\ changes \in Nat
    /\ Untouched =>
         /\ \E names : MadeOf(names)
         /\ checked \in {NoPackage, pkg} /\ job # "failed"
         /\ job \in {"unpack", "kernel", "rootfs"} => described = pkg
         /\ job \in {"kernel", "rootfs"} => work = [chunks |-> pkg.chunks, lists |-> pkg.lists]

LEMMA QuietBuilt ==
  ASSUME BuiltInv, UNCHANGED <<core, pkg, file, asked, checked, job, described, work, changes>>
  PROVE  BuiltInv'
  BY DEF BuiltInv, MadeOf, FitsBuild, Untouched, Package

LEMMA BuildBuilt == ASSUME SlotInv, BuiltInv, Build PROVE BuiltInv'
  <1>1. PICK f \in Files, v \in Versions, t \in Versions \cup {Noise}, names \in Sets :
               /\ "zero" \in names => core.zero # Nothing
               /\ pkg' = Package(core, f, v, t, names) /\ file' = f
    BY DEF Build, Sets, WithOrWithoutRtos
  <1>2. /\ pkg = NoPackage /\ FitsBuild(core)
        /\ UNCHANGED <<core, asked, checked, job, described, work, changes>>
    BY DEF Build, packager, installer
  <1>3. Package(core, f, v, t, names)' = Package(core, f, v, t, names) BY <1>2 DEF Package
  <1>4. FitsBuild(core)' BY <1>2 DEF FitsBuild
  <1>5. MadeOf(names)' BY <1>1, <1>2, <1>3, <1>4 DEF MadeOf
  <1>6. checked = NoPackage /\ job = "idle" /\ changes \in Nat BY <1>2 DEF SlotInv, BuiltInv
  <1> QED BY <1>2, <1>5, <1>6 DEF BuiltInv

LEMMA RepackBuilt == ASSUME SlotInv, BuiltInv, Repack \/ Exchange \/ Rename PROVE BuiltInv'
  <1>1. changes' = changes + 1 /\ changes \in Nat
    BY DEF Repack, Exchange, Rename, Changes, BuiltInv
  <1>2. ~Untouched' BY <1>1 DEF Untouched
  <1>3. changes' \in Nat BY <1>1
  <1> QED BY <1>2, <1>3 DEF BuiltInv

LEMMA WriteBuilt ==
  ASSUME SlotInv, BuiltInv, NEW k \in {"kernel", "rootfs"}, NEW next,
         next \in {"rootfs", "done"}, WritePayload(k, next)
  PROVE  BuiltInv'
  <1>1. job = k /\ UNCHANGED <<core, pkg, file, asked, checked, described, work, changes>>
    BY DEF WritePayload, packager
  <1>3. Untouched => job' # "failed"
    <2>1. SUFFICES ASSUME Untouched PROVE job' # "failed" OBVIOUS
    <2>2. PICK names : MadeOf(names) BY <2>1 DEF BuiltInv
    <2>3. /\ core \in Cores /\ described = pkg
          /\ work.chunks = pkg.chunks /\ work.lists = pkg.lists
      BY <1>1, <2>1 DEF SlotInv, BuiltInv
    <2>4. PICK r \in OfKind(pkg, k) :
             \/ job' = next
             \/ ~\E w \in Written(work, r) : w[0][1] = Magic[k] /\ Content(w) = r.md5
      BY <2>3 DEF WritePayload, Takes
    <2>5. PICK n \in names : r = ImgRecord(n, core[n])
      <3>1. r \in pkg.records BY DEF OfKind
      <3> QED BY <2>2, <2>3, <3>1, Contents
    <2>6. Partition[n] = k /\ r.md5 = core[n] BY <2>5 DEF OfKind, ImgRecord
    <2>7. n \in Names BY <2>2, <2>3, <2>5, Payload
    <2>8. core[n][1] = Magic[k]
      BY <2>3, <2>6, <2>7, OtaPackageAssumption DEF Names, Partition, Magic
    <2>9. \E w \in Written(work, r) : w[0][1] = core[n][1] /\ Content(w) = core[n]
      BY <2>2, <2>3, <2>5, Writable
    <2>10. \E w \in Written(work, r) : w[0][1] = Magic[k] /\ Content(w) = r.md5
      BY <2>6, <2>8, <2>9
    <2> QED BY <2>4, <2>10
  <1>4. Untouched' <=> Untouched BY <1>1 DEF Untouched
  <1>5. \A names : MadeOf(names) => MadeOf(names)'
    BY <1>1 DEF MadeOf, FitsBuild, Package
  <1> QED BY <1>1, <1>3, <1>4, <1>5 DEF BuiltInv

LEMMA CheckBuilt == ASSUME SlotInv, BuiltInv, CheckDescribes \/ CheckHashes PROVE BuiltInv'
  <1>1. UNCHANGED <<core, pkg, file, job, described, work, changes>>
    BY DEF CheckDescribes, CheckHashes, packager, installer
  <1>2. Untouched' <=> Untouched BY <1>1 DEF Untouched
  <1>3. \A names : MadeOf(names) => MadeOf(names)'
    BY <1>1 DEF MadeOf, FitsBuild, Package
  <1>4. checked' \in {checked, pkg} BY DEF CheckDescribes, CheckHashes
  <1> QED BY <1>1, <1>2, <1>3, <1>4 DEF BuiltInv

LEMMA JobBuilt ==
  ASSUME SlotInv, BuiltInv, HashJob \/ DescribeJob \/ UnpackJob
  PROVE  BuiltInv'
  <1>1. UNCHANGED <<core, pkg, file, asked, checked, changes>>
    BY DEF HashJob, DescribeJob, UnpackJob, packager
  <1>2. Untouched' <=> Untouched BY <1>1 DEF Untouched
  <1>3. \A names : MadeOf(names) => MadeOf(names)'
    BY <1>1 DEF MadeOf, FitsBuild, Package
  <1>5. ASSUME Untouched
        PROVE  /\ job' # "failed"
               /\ job' \in {"unpack", "kernel", "rootfs"} => described' = pkg
               /\ job' \in {"kernel", "rootfs"} =>
                    work' = [chunks |-> pkg.chunks, lists |-> pkg.lists]
    <2>1. CASE HashJob
      <3>1. checked = pkg BY <1>5, <2>1 DEF HashJob, BuiltInv
      <3> QED BY <2>1, <3>1 DEF HashJob
    <2>2. CASE DescribeJob
      <3>1. Describes(pkg) BY <1>5, Described DEF BuiltInv, SlotInv
      <3> QED BY <2>2, <3>1 DEF DescribeJob
    <2>3. CASE UnpackJob
      <3>1. job = "unpack" /\ described = pkg BY <1>5, <2>3 DEF UnpackJob, BuiltInv
      <3> QED BY <2>3, <3>1 DEF UnpackJob
    <2> QED BY <2>1, <2>2, <2>3
  <1> QED BY <1>1, <1>2, <1>3, <1>5 DEF BuiltInv

LEMMA BuiltInvariant == Spec => [](SlotInv /\ BuiltInv)
  <1>1. Init => BuiltInv BY DEF Init, BuiltInv, Untouched
  <1>2. SlotInv /\ BuiltInv /\ [Next]_vars => BuiltInv'
    <2>1. SUFFICES ASSUME SlotInv, BuiltInv, [Next]_vars PROVE BuiltInv' OBVIOUS
    <2>2. CASE WriteKernel BY <2>1, <2>2, WriteBuilt DEF WriteKernel
    <2>3. CASE WriteRootfs BY <2>1, <2>3, WriteBuilt DEF WriteRootfs
    <2>4. CASE UNCHANGED vars BY <2>1, <2>4, QuietBuilt DEF vars, packager, installer
    <2>5. CASE Validate BY <2>1, <2>5, QuietBuilt DEF Validate, packager, installer
    <2> QED BY <2>1, <2>2, <2>3, <2>4, <2>5, BuildBuilt, RepackBuilt, CheckBuilt, JobBuilt
         DEF Next
  <1> QED BY <1>1, <1>2, SlotInvariant, PTL DEF Spec

\* Whatever the payloads and the size of a chunk, the validator accepts what the
\* packager made, and the printer can install it (build-img.py, chunk_payload;
\* validate-img.py; image.py, describe and _write_payload).
THEOREM TheBuiltIsGood == Spec => []BuiltIsAccepted
  <1>1. SlotInv /\ BuiltInv => BuiltIsAccepted
    <2>1. SUFFICES ASSUME SlotInv, BuiltInv PROVE BuiltIsAccepted OBVIOUS
    <2>2. SUFFICES ASSUME Untouched
                   PROVE  /\ /\ pkg.current = pkg.version /\ RecordsNamed(pkg, "zero") # {}
                             /\ Len(core.zero) <= Capacity.rtos
                            => Validates(pkg, Payloads(core))
                          /\ Describes(pkg)
                          /\ job # "failed"
      BY DEF BuiltIsAccepted
    <2>3. PICK names : MadeOf(names) BY <2>2, <2>1 DEF BuiltInv
    <2>4. core \in Cores BY <2>1 DEF SlotInv
    <2>5. Describes(pkg) BY <2>3, <2>4, Described
    <2>6. job # "failed" BY <2>2, <2>1 DEF BuiltInv
    <2>7. ASSUME pkg.current = pkg.version, RecordsNamed(pkg, "zero") # {},
                 Len(core.zero) <= Capacity.rtos
          PROVE  Validates(pkg, Payloads(core))
      BY <2>3, <2>4, <2>7, Valid
    <2> QED BY <2>5, <2>6, <2>7
  <1> QED BY <1>1, BuiltInvariant, PTL
====
