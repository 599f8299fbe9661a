---------------------------- MODULE KernelProofs ----------------------------
(***************************************************************************)
(* Lemmas about the kernel's handlers: whatever comes in, a handler only   *)
(* adds legal events at the end of the log, keeps the book that of the     *)
(* log, promises nobody an event that is not going to be there, opens no   *)
(* turn without a reason and loses nobody who waits to be heard.           *)
(***************************************************************************)
EXTENDS Handlers, RuleProofs

----------------------------------------------------------------------------
(***************************************************************************)
(* Sequences and folds.                                                    *)
(***************************************************************************)
IsSeq(c) == c \in Seq(Range(c))

\* What holds at 0 and is handed on up to n holds up to n.
LEMMA Upwards ==
  ASSUME NEW n \in Nat, NEW A, 0 \in A, \A k \in 1..n : k - 1 \in A => k \in A
  PROVE  0..n \subseteq A
<1> DEFINE Left == {k \in 0..n : k \notin A}
<1> SUFFICES ASSUME Left # {} PROVE FALSE
  OBVIOUS
<1>1. Left \subseteq Nat
  OBVIOUS
<1>2. PICK k \in Left : \A m \in Left : ~(<<m, k>> \in OpToRel(<, Nat))
  <2> HIDE DEF Left
  <2> QED
    BY <1>1, WFMin, NatLessThanWellFounded
<1>3. k \in 1..n /\ k - 1 \in 0..n /\ k - 1 \in Nat /\ k \in Nat /\ k - 1 < k
  <2>1. k # 0 /\ k \in 0..n
    OBVIOUS
  <2> QED
    BY <2>1
<1>4. k - 1 \notin Left
  BY <1>2, <1>3 DEF OpToRel
<1> QED
  BY <1>3, <1>4

\* A function on 1..n is a sequence of that length.
LEMMA SeqOfLength ==
  ASSUME NEW n \in Nat, NEW f, f = [i \in 1..n |-> f[i]]
  PROVE  IsSeq(f) /\ Len(f) = n /\ DOMAIN f = 1..n
<1> DEFINE R == Range(f)
<1>1. \A i \in 1..n : f[i] \in R
  BY DEF Range
<1> HIDE DEF R
<1>2. f \in [1..n -> R]
  BY <1>1
<1>3. f \in Seq(R) /\ Len(f) = n
  BY <1>2
<1> QED
  BY <1>2, <1>3 DEF IsSeq, R

\* A sequence is a function on 1..Len.
LEMMA SeqIsFunction ==
  ASSUME NEW f, IsSeq(f)
  PROVE  /\ Len(f) \in Nat /\ DOMAIN f = 1..Len(f)
         /\ f = [i \in 1..Len(f) |-> f[i]]
<1>1. Len(f) \in Nat /\ f \in [1..Len(f) -> Range(f)]
  BY LenProperties DEF IsSeq
<1> QED
  BY <1>1

LEMMA EmptyIsSeq == IsSeq(<< >>) /\ Len(<< >>) = 0 /\ DOMAIN << >> = {}
  BY EmptySeq DEF IsSeq

LEMMA LonelyIsSeq ==
  ASSUME NEW x
  PROVE  IsSeq(<<x>>) /\ Len(<<x>>) = 1 /\ <<x>>[1] = x
BY DEF IsSeq, Range

\* Appending keeps it one.
LEMMA AppendIsSeq ==
  ASSUME NEW f, IsSeq(f), NEW x
  PROVE  /\ IsSeq(Append(f, x)) /\ Len(Append(f, x)) = Len(f) + 1
         /\ \A i \in 1..Len(f) : Append(f, x)[i] = f[i]
         /\ Append(f, x)[Len(f) + 1] = x
BY Appended DEF IsSeq

\* The greatest of a set of places that has the last one.
LEMMA LastPlace ==
  ASSUME NEW n \in Nat, NEW T \in SUBSET (1..(n + 1)), n + 1 \in T
  PROVE  Max(T) = n + 1
<1>1. \A y \in T : y \in Int /\ n + 1 >= y
  OBVIOUS
<1>2. ASSUME NEW x \in T, \A y \in T : x >= y PROVE x = n + 1
  <2>1. x >= n + 1 /\ n + 1 >= x /\ x \in Int
    BY <1>1, <1>2
  <2> QED
    BY <2>1
<1>3. n + 1 \in T /\ \A y \in T : n + 1 >= y
  BY <1>1
<1> QED
  BY <1>2, <1>3 DEF Max

\* A set of places has a greatest one.
LEMMA GreatestPlace ==
  ASSUME NEW n \in Nat, NEW T \in SUBSET (1..n), T # {}
  PROVE  Max(T) \in T /\ \A y \in T : Max(T) >= y
<1> DEFINE A == {k \in 0..n : \A U \in SUBSET (1..k) : U # {} =>
                                 \E x \in U : \A y \in U : x >= y}
<1>1. 0 \in A
  <2>1. ASSUME NEW U \in SUBSET (1..0), U # {} PROVE FALSE
    <3>1. PICK x \in U : x \in 1..0
      BY <2>1
    <3> QED
      BY <3>1
  <2> QED
    BY <2>1
<1>2. ASSUME NEW k \in 1..n, k - 1 \in A PROVE k \in A
  <2> SUFFICES ASSUME NEW U \in SUBSET (1..k), U # {}
               PROVE  \E x \in U : \A y \in U : x >= y
    OBVIOUS
  <2>1. CASE k \in U
    BY <2>1
  <2>2. CASE k \notin U
    <3>1. U \in SUBSET (1..(k - 1))
      BY <2>2
    <3> QED
      BY <3>1, <1>2
  <2> QED
    BY <2>1, <2>2
<1>3. n \in A
  <2> HIDE DEF A
  <2>1. 0..n \subseteq A
    BY <1>1, <1>2, Upwards
  <2> QED
    BY <2>1
<1>4. \E x \in T : \A y \in T : x >= y
  BY <1>3
<1> QED
  BY <1>4 DEF Max

----------------------------------------------------------------------------
(***************************************************************************)
(* What is picked of a sequence.                                           *)
(***************************************************************************)
\* Picked is built up place by place.
LEMMA PickedChain ==
  ASSUME NEW seq, IsSeq(seq), NEW at
  PROVE  \E v : /\ v[0] = << >> /\ Picked(seq, at) = v[Len(seq)]
                /\ \A k \in 1..Len(seq) :
                     v[k] = IF k \in at THEN Append(v[k - 1], seq[k]) ELSE v[k - 1]
<1> DEFINE n == Len(seq)
           Is(m, f) == f = [k \in 0..m |-> IF k = 0 THEN << >>
                                           ELSE IF k \in at THEN Append(f[k - 1], seq[k])
                                           ELSE f[k - 1]]
           A == {m \in 0..n : \E f : Is(m, f)}
<1>0. n \in Nat
  BY SeqIsFunction
<1>1. 0 \in A
  <2> DEFINE f == [k \in 0..0 |-> << >>]
  <2>1. \A k \in 0..0 : k = 0
    OBVIOUS
  <2>2. Is(0, f)
    BY <2>1
  <2>3. \E any : Is(0, any)
    BY <2>2
  <2> HIDE DEF Is, f
  <2> QED
    BY <1>0, <2>3
<1>2. ASSUME NEW m \in 1..n, m - 1 \in A PROVE m \in A
  <2>1. PICK f : Is(m - 1, f)
    BY <1>2
  <2> DEFINE g == [k \in 0..m |-> IF k = m
                     THEN IF m \in at THEN Append(f[m - 1], seq[m]) ELSE f[m - 1]
                     ELSE f[k]]
             h == [k \in 0..m |-> IF k = 0 THEN << >>
                                  ELSE IF k \in at THEN Append(g[k - 1], seq[k])
                                  ELSE g[k - 1]]
  <2>2. ASSUME NEW k \in 0..m PROVE g[k] = h[k]
    <3>1. CASE k = m
      <4>1. k # 0 /\ k - 1 \in 0..m /\ k - 1 # m
        BY <3>1
      <4>2. g[k - 1] = f[k - 1]
        BY <4>1
      <4> QED
        BY <3>1, <4>1, <4>2
    <3>2. CASE k # m /\ k # 0
      <4>1. k \in 0..(m - 1) /\ k - 1 \in 0..m /\ k - 1 # m
        BY <3>2
      <4>2. g[k - 1] = f[k - 1] /\ g[k] = f[k]
        BY <3>2, <4>1
      <4>3. f[k] = IF k \in at THEN Append(f[k - 1], seq[k]) ELSE f[k - 1]
        BY <2>1, <3>2, <4>1
      <4> QED
        BY <3>2, <4>2, <4>3
    <3>3. CASE k # m /\ k = 0
      <4>1. f[0] = << >>
        BY <2>1
      <4> QED
        BY <3>3, <4>1
    <3> QED
      BY <3>1, <3>2, <3>3
  <2>3. g = h
    BY <2>2
  <2>4. Is(m, g)
    BY <2>3
  <2>5. \E any : Is(m, any)
    BY <2>4
  <2> HIDE DEF Is, g, h, n
  <2> QED
    BY <1>0, <2>5
<1>3. n \in A
  <2> HIDE DEF A, n
  <2>1. 0..n \subseteq A
    BY <1>0, <1>1, <1>2, Upwards
  <2> QED
    BY <1>0, <2>1
<1> DEFINE v == CHOOSE f : Is(n, f)
<1>4. Is(n, v)
  BY <1>3
<1>5. Picked(seq, at) = v[n]
  BY DEF Picked
<1> HIDE DEF v
<1>6. v[0] = << >>
  <2>1. 0 \in 0..n
    BY <1>0
  <2> QED
    BY <1>4, <2>1
<1>7. ASSUME NEW k \in 1..n
      PROVE  v[k] = IF k \in at THEN Append(v[k - 1], seq[k]) ELSE v[k - 1]
  <2>1. k \in 0..n /\ k # 0
    BY <1>0
  <2> QED
    BY <1>4, <2>1
<1> QED
  BY <1>5, <1>6, <1>7

\* It is made of elements at those places, in order, and of all of them.
Positions(pos, m, at) ==
  /\ \A j \in 1..m : pos[j] \in at
  /\ \A i, j \in 1..m : i < j => pos[i] < pos[j]
  /\ \A i \in at : \E j \in 1..m : pos[j] = i

LEMMA PickedIs ==
  ASSUME NEW seq, IsSeq(seq), NEW at \in SUBSET (DOMAIN seq)
  PROVE  /\ IsSeq(Picked(seq, at))
         /\ \E pos : /\ Positions(pos, Len(Picked(seq, at)), at)
                     /\ \A j \in 1..Len(Picked(seq, at)) : Picked(seq, at)[j] = seq[pos[j]]
<1> DEFINE n == Len(seq)
<1>0. n \in Nat /\ at \subseteq 1..n
  BY SeqIsFunction
<1>1. PICK v : /\ v[0] = << >> /\ Picked(seq, at) = v[n]
               /\ \A k \in 1..n :
                    v[k] = IF k \in at THEN Append(v[k - 1], seq[k]) ELSE v[k - 1]
  BY PickedChain
<1> DEFINE Good(k) == /\ IsSeq(v[k])
                      /\ \E pos : /\ Positions(pos, Len(v[k]), at \intersect (1..k))
                                  /\ \A j \in 1..Len(v[k]) : v[k][j] = seq[pos[j]]
           A == {k \in 0..n : Good(k)}
<1> HIDE DEF n
<1>2. 0 \in A
  <2>1. IsSeq(v[0]) /\ Len(v[0]) = 0
    BY <1>1, EmptyIsSeq
  <2>2. Positions(<< >>, 0, at \intersect (1..0))
    BY <1>0 DEF Positions
  <2>3. \A j \in 1..Len(v[0]) : v[0][j] = seq[<< >>[j]]
    BY <2>1
  <2>4. Good(0)
    BY <2>1, <2>2, <2>3
  <2> HIDE DEF Good
  <2> QED
    BY <1>0, <2>4
<1>3. ASSUME NEW k \in 1..n, k - 1 \in A PROVE k \in A
  <2>a. k \in Nat /\ k - 1 \in Nat /\ k \in 0..n
    BY <1>0
  <2>b. Good(k - 1)
    <3> HIDE DEF Good
    <3> QED
      BY <1>3, Zenon
  <2>1. /\ IsSeq(v[k - 1]) /\ Good(k - 1)
        /\ k \in Nat /\ k - 1 \in Nat /\ k \in 0..n
    BY <2>a, <2>b
  <2>2. PICK pos : /\ Positions(pos, Len(v[k - 1]), at \intersect (1..(k - 1)))
                   /\ \A j \in 1..Len(v[k - 1]) : v[k - 1][j] = seq[pos[j]]
    BY <2>1
  <2>3. CASE k \in at
    <3> DEFINE m == Len(v[k - 1])
               new == [j \in 1..(m + 1) |-> IF j = m + 1 THEN k ELSE pos[j]]
    <3>1. m \in Nat
      BY <2>1, SeqIsFunction
    <3>2. v[k] = Append(v[k - 1], seq[k])
      BY <1>1, <2>3
    <3>3. /\ IsSeq(v[k]) /\ Len(v[k]) = m + 1
          /\ \A i \in 1..m : v[k][i] = v[k - 1][i]
          /\ v[k][m + 1] = seq[k]
      BY <2>1, <3>2, AppendIsSeq
    <3> HIDE DEF m
    <3>4. /\ \A j \in 1..m : j \in 1..(m + 1) /\ j # m + 1 /\ new[j] = pos[j]
          /\ new[m + 1] = k /\ m + 1 \in 1..(m + 1)
          /\ \A j \in 1..(m + 1) : j = m + 1 \/ j \in 1..m
      BY <3>1
    <3> HIDE DEF new
    <3>5. \A j \in 1..m : pos[j] \in at /\ pos[j] \in 1..(k - 1)
      BY <2>2 DEF Positions, m
    <3>6. Positions(new, m + 1, at \intersect (1..k))
      <4>1. ASSUME NEW j \in 1..(m + 1) PROVE new[j] \in at \intersect (1..k)
        <5>1. CASE j = m + 1
          BY <2>1, <2>3, <3>4, <5>1
        <5>2. CASE j \in 1..m
          <6>1. pos[j] \in 1..(k - 1)
            BY <3>5, <5>2
          <6>2. pos[j] \in 1..k
            BY <2>1, <6>1
          <6> QED
            BY <3>4, <3>5, <5>2, <6>2
        <5> QED
          BY <3>4, <5>1, <5>2
      <4>2. ASSUME NEW i \in 1..(m + 1), NEW j \in 1..(m + 1), i < j
            PROVE  new[i] < new[j]
        <5>1. i \in 1..m
          BY <3>1, <4>2
        <5>2. CASE j = m + 1
          <6>1. pos[i] \in 1..(k - 1)
            BY <3>5, <5>1
          <6>2. pos[i] < k
            BY <2>1, <6>1
          <6> QED
            BY <3>4, <5>1, <5>2, <6>2
        <5>3. CASE j \in 1..m
          <6>1. pos[i] < pos[j]
            BY <2>2, <4>2, <5>1, <5>3 DEF Positions, m
          <6> QED
            BY <3>4, <5>1, <5>3, <6>1
        <5> QED
          BY <3>4, <5>2, <5>3
      <4>3. ASSUME NEW i \in at \intersect (1..k) PROVE \E j \in 1..(m + 1) : new[j] = i
        <5>1. CASE i = k
          BY <3>4, <5>1
        <5>2. CASE i # k
          <6>1. i \in at \intersect (1..(k - 1))
            BY <2>1, <4>3, <5>2
          <6>2. PICK j \in 1..m : pos[j] = i
            BY <2>2, <6>1 DEF Positions, m
          <6> QED
            BY <3>4, <6>2
        <5> QED
          BY <5>1, <5>2
      <4> QED
        BY <4>1, <4>2, <4>3 DEF Positions
    <3>7. ASSUME NEW j \in 1..(m + 1) PROVE v[k][j] = seq[new[j]]
      <4>1. CASE j = m + 1
        BY <3>3, <3>4, <4>1
      <4>2. CASE j \in 1..m
        <5>1. v[k - 1][j] = seq[pos[j]]
          BY <2>2, <4>2 DEF m
        <5> QED
          BY <3>3, <3>4, <4>2, <5>1
      <4> QED
        BY <3>4, <4>1, <4>2
    <3>8. Good(k)
      BY <3>3, <3>6, <3>7
    <3> HIDE DEF Good
    <3> QED
      BY <2>1, <3>8
  <2>4. CASE k \notin at
    <3>1. v[k] = v[k - 1]
      BY <1>1, <2>4
    <3>2. at \intersect (1..k) = at \intersect (1..(k - 1))
      <4>1. \A i \in at : i \in 1..k <=> i \in 1..(k - 1)
        BY <1>0, <2>1, <2>4
      <4> QED
        BY <4>1
    <3>3. Good(k)
      BY <2>1, <3>1, <3>2
    <3> HIDE DEF Good
    <3> QED
      BY <2>1, <3>3
  <2> QED
    BY <2>3, <2>4
<1>4. Good(n)
  <2> HIDE DEF Good
  <2>1. 0..n \subseteq A
    <3> HIDE DEF A
    <3> QED
      BY <1>0, <1>2, <1>3, Upwards
  <2> QED
    BY <1>0, <2>1
<1>5. at \intersect (1..n) = at
  BY <1>0
<1>6. Picked(seq, at) = v[n]
  BY <1>1
<1> QED
  <2>1. PICK pos : /\ Positions(pos, Len(v[n]), at)
                   /\ \A j \in 1..Len(v[n]) : v[n][j] = seq[pos[j]]
    BY <1>4, <1>5
  <2>2. IsSeq(v[n])
    BY <1>4
  <2> QED
    BY <1>6, <2>1, <2>2

----------------------------------------------------------------------------
(***************************************************************************)
(* FoldLeft takes the last place of a set of places away, again and again. *)
(***************************************************************************)
LEMMA PlacesOf ==
  ASSUME NEW m \in Nat \ {0}, NEW T \in SUBSET (1..m)
  PROVE  /\ m \in T => /\ Max(T) = m /\ T \ {m} \in SUBSET (1..(m - 1))
                       /\ T \ {m} \in SUBSET (1..m)
         /\ m \notin T => T \in SUBSET (1..(m - 1))
         /\ m \notin T /\ T # {} => /\ T \ {Max(T)} \in SUBSET (1..(m - 1))
                                    /\ T \ {Max(T)} \in SUBSET (1..m)
<1>0. m - 1 \in Nat /\ m - 1 + 1 = m /\ m \in Nat
  OBVIOUS
<1>1. \A x \in 1..m : x = m \/ x \in 1..(m - 1)
  BY <1>0
<1>2. m \in T => Max(T) = m
  BY <1>0, LastPlace
<1> QED
  BY <1>0, <1>1, <1>2

LEMMA PlacesUpTo ==
  ASSUME NEW n \in Nat, NEW k \in 1..n
  PROVE  /\ 1..k \in SUBSET (1..n) /\ 1..k # {} /\ 1..(k - 1) \in SUBSET (1..n)
         /\ Max(1..k) = k /\ (1..k) \ {k} = 1..(k - 1)
<1>1. k \in Nat \ {0} /\ k \in 1..k /\ k - 1 \in Nat /\ k - 1 + 1 = k
  OBVIOUS
<1>2. Max(1..k) = k
  BY <1>1, LastPlace
<1>3. \A x : x \in (1..k) \ {k} <=> x \in 1..(k - 1)
  BY <1>1
<1>4. 1..k \in SUBSET (1..n) /\ 1..(k - 1) \in SUBSET (1..n)
  OBVIOUS
<1> QED
  BY <1>1, <1>2, <1>3, <1>4

\* PutEach puts one body after the other.
LEMMA PutEachChain ==
  ASSUME NEW s, NEW cause, NEW bodies, IsSeq(bodies)
  PROVE  \E v : /\ v[0] = s /\ PutEach(s, cause, bodies) = v[Len(bodies)]
                /\ \A k \in 1..Len(bodies) : v[k] = Put(v[k - 1], cause, bodies[k])
<1> DEFINE n == Len(bodies)
           Is(m, f) == f = [T \in SUBSET (1..m) |-> IF T = {} THEN s
                              ELSE Put(f[T \ {Max(T)}], cause, bodies[Max(T)])]
           A == {m \in 0..n : \E f : Is(m, f)}
<1>0. n \in Nat /\ DOMAIN bodies = 1..n
  BY SeqIsFunction
<1>1. 0 \in A
  <2> DEFINE f == [T \in SUBSET (1..0) |-> s]
  <2>1. \A T \in SUBSET (1..0) : T = {}
    OBVIOUS
  <2>2. Is(0, f)
    BY <2>1
  <2>3. \E any : Is(0, any)
    BY <2>2
  <2> HIDE DEF Is, f, n
  <2> QED
    BY <1>0, <2>3
<1>2. ASSUME NEW m \in 1..n, m - 1 \in A PROVE m \in A
  <2>1. PICK f : Is(m - 1, f)
    BY <1>2
  <2>2. m \in Nat \ {0} /\ m \in 0..n
    <3> HIDE DEF n
    <3> QED
      BY <1>0
  <2> DEFINE g == [T \in SUBSET (1..m) |->
                     IF m \in T THEN Put(f[T \ {m}], cause, bodies[m]) ELSE f[T]]
             h == [T \in SUBSET (1..m) |-> IF T = {} THEN s
                     ELSE Put(g[T \ {Max(T)}], cause, bodies[Max(T)])]
  <2>3. ASSUME NEW T \in SUBSET (1..m) PROVE g[T] = h[T]
    <3>1. CASE m \in T
      <4>1. Max(T) = m /\ T \ {m} \in SUBSET (1..m) /\ T # {}
        BY <2>2, <3>1, PlacesOf
      <4>2. g[T \ {m}] = f[T \ {m}]
        BY <4>1
      <4> QED
        BY <3>1, <4>1, <4>2
    <3>2. CASE m \notin T /\ T # {}
      <4>1. /\ T \in SUBSET (1..(m - 1)) /\ T \ {Max(T)} \in SUBSET (1..m)
            /\ m \notin T \ {Max(T)}
        BY <2>2, <3>2, PlacesOf
      <4>2. g[T \ {Max(T)}] = f[T \ {Max(T)}] /\ g[T] = f[T]
        BY <3>2, <4>1
      <4>3. f[T] = Put(f[T \ {Max(T)}], cause, bodies[Max(T)])
        BY <2>1, <3>2, <4>1
      <4> QED
        BY <3>2, <4>2, <4>3
    <3>3. CASE m \notin T /\ T = {}
      <4>1. f[{}] = s
        BY <2>1
      <4> QED
        BY <3>3, <4>1
    <3> QED
      BY <3>1, <3>2, <3>3
  <2>4. g = h
    BY <2>3
  <2>5. Is(m, g)
    BY <2>4
  <2>6. \E any : Is(m, any)
    BY <2>5
  <2> HIDE DEF Is, g, h, n
  <2> QED
    BY <2>2, <2>6
<1>3. n \in A
  <2> HIDE DEF A, n
  <2>1. 0..n \subseteq A
    BY <1>0, <1>1, <1>2, Upwards
  <2> QED
    BY <1>0, <2>1
<1> DEFINE it == CHOOSE f : Is(n, f)
           v == [k \in 0..n |-> it[1..k]]
<1>4. Is(n, it)
  BY <1>3
<1>5. PutEach(s, cause, bodies) = it[1..n]
  BY <1>0 DEF PutEach, FoldLeft, MapThenFoldSet
<1> HIDE DEF it, n
<1>6. v[0] = s /\ v[n] = it[1..n]
  <2>1. 1..0 = {} /\ 0 \in 0..n /\ n \in 0..n
    BY <1>0
  <2>2. it[{}] = s
    BY <1>4
  <2> QED
    BY <2>1, <2>2
<1>7. ASSUME NEW k \in 1..n PROVE v[k] = Put(v[k - 1], cause, bodies[k])
  <2>1. k \in 0..n /\ k - 1 \in 0..n
    BY <1>0
  <2>2. it[1..k] = Put(it[(1..k) \ {k}], cause, bodies[k])
    <3>1. 1..k \in SUBSET (1..n) /\ 1..k # {} /\ Max(1..k) = k
      BY <1>0, PlacesUpTo
    <3> QED
      BY <1>4, <3>1
  <2>3. (1..k) \ {k} = 1..(k - 1)
    BY <1>0, PlacesUpTo
  <2> QED
    BY <2>1, <2>2, <2>3
<1> QED
  BY <1>5, <1>6, <1>7 DEF n

\* What the ledger remembers of a log.
BookOf(log) == FoldLeft(Record, EmptyBook, log)

\* It remembers one event after the other.
LEMMA BookChain ==
  ASSUME NEW log, IsSeq(log)
  PROVE  \E v : /\ v[0] = EmptyBook /\ BookOf(log) = v[Len(log)]
                /\ \A k \in 1..Len(log) : v[k] = Record(v[k - 1], log[k])
<1> DEFINE n == Len(log)
           Is(m, f) == f = [T \in SUBSET (1..m) |-> IF T = {} THEN EmptyBook
                              ELSE Record(f[T \ {Max(T)}], log[Max(T)])]
           A == {m \in 0..n : \E f : Is(m, f)}
<1>0. n \in Nat /\ DOMAIN log = 1..n
  BY SeqIsFunction
<1>1. 0 \in A
  <2> DEFINE f == [T \in SUBSET (1..0) |-> EmptyBook]
  <2>1. \A T \in SUBSET (1..0) : T = {}
    OBVIOUS
  <2>2. Is(0, f)
    BY <2>1
  <2>3. \E any : Is(0, any)
    BY <2>2
  <2> HIDE DEF Is, f, n
  <2> QED
    BY <1>0, <2>3
<1>2. ASSUME NEW m \in 1..n, m - 1 \in A PROVE m \in A
  <2>1. PICK f : Is(m - 1, f)
    BY <1>2
  <2>2. m \in Nat \ {0} /\ m \in 0..n
    <3> HIDE DEF n
    <3> QED
      BY <1>0
  <2> DEFINE g == [T \in SUBSET (1..m) |->
                     IF m \in T THEN Record(f[T \ {m}], log[m]) ELSE f[T]]
             h == [T \in SUBSET (1..m) |-> IF T = {} THEN EmptyBook
                     ELSE Record(g[T \ {Max(T)}], log[Max(T)])]
  <2>3. ASSUME NEW T \in SUBSET (1..m) PROVE g[T] = h[T]
    <3>1. CASE m \in T
      <4>1. Max(T) = m /\ T \ {m} \in SUBSET (1..m) /\ T # {}
        BY <2>2, <3>1, PlacesOf
      <4>2. g[T \ {m}] = f[T \ {m}]
        BY <4>1
      <4> QED
        BY <3>1, <4>1, <4>2
    <3>2. CASE m \notin T /\ T # {}
      <4>1. /\ T \in SUBSET (1..(m - 1)) /\ T \ {Max(T)} \in SUBSET (1..m)
            /\ m \notin T \ {Max(T)}
        BY <2>2, <3>2, PlacesOf
      <4>2. g[T \ {Max(T)}] = f[T \ {Max(T)}] /\ g[T] = f[T]
        BY <3>2, <4>1
      <4>3. f[T] = Record(f[T \ {Max(T)}], log[Max(T)])
        BY <2>1, <3>2, <4>1
      <4> QED
        BY <3>2, <4>2, <4>3
    <3>3. CASE m \notin T /\ T = {}
      <4>1. f[{}] = EmptyBook
        BY <2>1
      <4> QED
        BY <3>3, <4>1
    <3> QED
      BY <3>1, <3>2, <3>3
  <2>4. g = h
    BY <2>3
  <2>5. Is(m, g)
    BY <2>4
  <2>6. \E any : Is(m, any)
    BY <2>5
  <2> HIDE DEF Is, g, h, n
  <2> QED
    BY <2>2, <2>6
<1>3. n \in A
  <2> HIDE DEF A, n
  <2>1. 0..n \subseteq A
    BY <1>0, <1>1, <1>2, Upwards
  <2> QED
    BY <1>0, <2>1
<1> DEFINE it == CHOOSE f : Is(n, f)
           v == [k \in 0..n |-> it[1..k]]
<1>4. Is(n, it)
  BY <1>3
<1>5. BookOf(log) = it[1..n]
  BY <1>0 DEF BookOf, FoldLeft, MapThenFoldSet
<1> HIDE DEF it, n
<1>6. v[0] = EmptyBook /\ v[n] = it[1..n]
  <2>1. 1..0 = {} /\ 0 \in 0..n /\ n \in 0..n
    BY <1>0
  <2>2. it[{}] = EmptyBook
    BY <1>4
  <2> QED
    BY <2>1, <2>2
<1>7. ASSUME NEW k \in 1..n PROVE v[k] = Record(v[k - 1], log[k])
  <2>1. k \in 0..n /\ k - 1 \in 0..n
    BY <1>0
  <2>2. it[1..k] = Record(it[(1..k) \ {k}], log[k])
    <3>1. 1..k \in SUBSET (1..n) /\ 1..k # {} /\ Max(1..k) = k
      BY <1>0, PlacesUpTo
    <3> QED
      BY <1>4, <3>1
  <2>3. (1..k) \ {k} = 1..(k - 1)
    BY <1>0, PlacesUpTo
  <2> QED
    BY <2>1, <2>2, <2>3
<1> QED
  BY <1>5, <1>6, <1>7 DEF n

\* What a replay starts with.
NothingReplayed == [book |-> EmptyBook, ok |-> TRUE, ended |-> NotEnded, restarts |-> 0]

\* A replay goes through the events in turn.
LEMMA ReplayChain ==
  ASSUME NEW log, IsSeq(log)
  PROVE  \E v : /\ v[0] = NothingReplayed /\ Replay(log) = v[Len(log)]
                /\ \A k \in 1..Len(log) : v[k] = ReplayEvent(v[k - 1], log[k])
<1> DEFINE n == Len(log)
           Is(m, f) == f = [T \in SUBSET (1..m) |-> IF T = {} THEN NothingReplayed
                              ELSE ReplayEvent(f[T \ {Max(T)}], log[Max(T)])]
           A == {m \in 0..n : \E f : Is(m, f)}
<1>0. n \in Nat /\ DOMAIN log = 1..n
  BY SeqIsFunction
<1>1. 0 \in A
  <2> DEFINE f == [T \in SUBSET (1..0) |-> NothingReplayed]
  <2>1. \A T \in SUBSET (1..0) : T = {}
    OBVIOUS
  <2>2. Is(0, f)
    BY <2>1
  <2>3. \E any : Is(0, any)
    BY <2>2
  <2> HIDE DEF Is, f, n
  <2> QED
    BY <1>0, <2>3
<1>2. ASSUME NEW m \in 1..n, m - 1 \in A PROVE m \in A
  <2>1. PICK f : Is(m - 1, f)
    BY <1>2
  <2>2. m \in Nat \ {0} /\ m \in 0..n
    <3> HIDE DEF n
    <3> QED
      BY <1>0
  <2> DEFINE g == [T \in SUBSET (1..m) |->
                     IF m \in T THEN ReplayEvent(f[T \ {m}], log[m]) ELSE f[T]]
             h == [T \in SUBSET (1..m) |-> IF T = {} THEN NothingReplayed
                     ELSE ReplayEvent(g[T \ {Max(T)}], log[Max(T)])]
  <2>3. ASSUME NEW T \in SUBSET (1..m) PROVE g[T] = h[T]
    <3>1. CASE m \in T
      <4>1. Max(T) = m /\ T \ {m} \in SUBSET (1..m) /\ T # {}
        BY <2>2, <3>1, PlacesOf
      <4>2. g[T \ {m}] = f[T \ {m}]
        BY <4>1
      <4> QED
        BY <3>1, <4>1, <4>2
    <3>2. CASE m \notin T /\ T # {}
      <4>1. /\ T \in SUBSET (1..(m - 1)) /\ T \ {Max(T)} \in SUBSET (1..m)
            /\ m \notin T \ {Max(T)}
        BY <2>2, <3>2, PlacesOf
      <4>2. g[T \ {Max(T)}] = f[T \ {Max(T)}] /\ g[T] = f[T]
        BY <3>2, <4>1
      <4>3. f[T] = ReplayEvent(f[T \ {Max(T)}], log[Max(T)])
        BY <2>1, <3>2, <4>1
      <4> QED
        BY <3>2, <4>2, <4>3
    <3>3. CASE m \notin T /\ T = {}
      <4>1. f[{}] = NothingReplayed
        BY <2>1
      <4> QED
        BY <3>3, <4>1
    <3> QED
      BY <3>1, <3>2, <3>3
  <2>4. g = h
    BY <2>3
  <2>5. Is(m, g)
    BY <2>4
  <2>6. \E any : Is(m, any)
    BY <2>5
  <2> HIDE DEF Is, g, h, n
  <2> QED
    BY <2>2, <2>6
<1>3. n \in A
  <2> HIDE DEF A, n
  <2>1. 0..n \subseteq A
    BY <1>0, <1>1, <1>2, Upwards
  <2> QED
    BY <1>0, <2>1
<1> DEFINE it == CHOOSE f : Is(n, f)
           v == [k \in 0..n |-> it[1..k]]
<1>4. Is(n, it)
  BY <1>3
<1>5. Replay(log) = it[1..n]
  BY <1>0 DEF Replay, NothingReplayed, FoldLeft, MapThenFoldSet
<1> HIDE DEF it, n
<1>6. v[0] = NothingReplayed /\ v[n] = it[1..n]
  <2>1. 1..0 = {} /\ 0 \in 0..n /\ n \in 0..n
    BY <1>0
  <2>2. it[{}] = NothingReplayed
    BY <1>4
  <2> QED
    BY <2>1, <2>2
<1>7. ASSUME NEW k \in 1..n PROVE v[k] = ReplayEvent(v[k - 1], log[k])
  <2>1. k \in 0..n /\ k - 1 \in 0..n
    BY <1>0
  <2>2. it[1..k] = ReplayEvent(it[(1..k) \ {k}], log[k])
    <3>1. 1..k \in SUBSET (1..n) /\ 1..k # {} /\ Max(1..k) = k
      BY <1>0, PlacesUpTo
    <3> QED
      BY <1>4, <3>1
  <2>3. (1..k) \ {k} = 1..(k - 1)
    BY <1>0, PlacesUpTo
  <2> QED
    BY <2>1, <2>2, <2>3
<1> QED
  BY <1>5, <1>6, <1>7 DEF n

\* What is remembered of a list of commands that were in a log.
RecentIn(log, ids) ==
  FoldLeft(LAMBDA recent, id : Remember(recent, id, EventsOf(log, id)), << >>, ids)

\* Loading remembers the commands in turn.
LEMMA RecentChain ==
  ASSUME NEW log, NEW ids, IsSeq(ids)
  PROVE  \E v : /\ v[0] = << >> /\ RecentIn(log, ids) = v[Len(ids)]
                /\ \A k \in 1..Len(ids) : v[k] = Remember(v[k - 1], ids[k], EventsOf(log, ids[k]))
<1> DEFINE n == Len(ids)
           Is(m, f) == f = [T \in SUBSET (1..m) |-> IF T = {} THEN << >>
                              ELSE Remember(f[T \ {Max(T)}], ids[Max(T)], EventsOf(log, ids[Max(T)]))]
           A == {m \in 0..n : \E f : Is(m, f)}
<1>0. n \in Nat /\ DOMAIN ids = 1..n
  BY SeqIsFunction
<1>1. 0 \in A
  <2> DEFINE f == [T \in SUBSET (1..0) |-> << >>]
  <2>1. \A T \in SUBSET (1..0) : T = {}
    OBVIOUS
  <2>2. Is(0, f)
    BY <2>1
  <2>3. \E any : Is(0, any)
    BY <2>2
  <2> HIDE DEF Is, f, n
  <2> QED
    BY <1>0, <2>3
<1>2. ASSUME NEW m \in 1..n, m - 1 \in A PROVE m \in A
  <2>1. PICK f : Is(m - 1, f)
    BY <1>2
  <2>2. m \in Nat \ {0} /\ m \in 0..n
    <3> HIDE DEF n
    <3> QED
      BY <1>0
  <2> DEFINE g == [T \in SUBSET (1..m) |->
                     IF m \in T THEN Remember(f[T \ {m}], ids[m], EventsOf(log, ids[m])) ELSE f[T]]
             h == [T \in SUBSET (1..m) |-> IF T = {} THEN << >>
                     ELSE Remember(g[T \ {Max(T)}], ids[Max(T)], EventsOf(log, ids[Max(T)]))]
  <2>3. ASSUME NEW T \in SUBSET (1..m) PROVE g[T] = h[T]
    <3>1. CASE m \in T
      <4>1. Max(T) = m /\ T \ {m} \in SUBSET (1..m) /\ T # {}
        BY <2>2, <3>1, PlacesOf
      <4>2. g[T \ {m}] = f[T \ {m}]
        BY <4>1
      <4> QED
        BY <3>1, <4>1, <4>2
    <3>2. CASE m \notin T /\ T # {}
      <4>1. /\ T \in SUBSET (1..(m - 1)) /\ T \ {Max(T)} \in SUBSET (1..m)
            /\ m \notin T \ {Max(T)}
        BY <2>2, <3>2, PlacesOf
      <4>2. g[T \ {Max(T)}] = f[T \ {Max(T)}] /\ g[T] = f[T]
        BY <3>2, <4>1
      <4>3. f[T] = Remember(f[T \ {Max(T)}], ids[Max(T)], EventsOf(log, ids[Max(T)]))
        BY <2>1, <3>2, <4>1
      <4> QED
        BY <3>2, <4>2, <4>3
    <3>3. CASE m \notin T /\ T = {}
      <4>1. f[{}] = << >>
        BY <2>1
      <4> QED
        BY <3>3, <4>1
    <3> QED
      BY <3>1, <3>2, <3>3
  <2>4. g = h
    BY <2>3
  <2>5. Is(m, g)
    BY <2>4
  <2>6. \E any : Is(m, any)
    BY <2>5
  <2> HIDE DEF Is, g, h, n
  <2> QED
    BY <2>2, <2>6
<1>3. n \in A
  <2> HIDE DEF A, n
  <2>1. 0..n \subseteq A
    BY <1>0, <1>1, <1>2, Upwards
  <2> QED
    BY <1>0, <2>1
<1> DEFINE it == CHOOSE f : Is(n, f)
           v == [k \in 0..n |-> it[1..k]]
<1>4. Is(n, it)
  BY <1>3
<1>5. RecentIn(log, ids) = it[1..n]
  BY <1>0 DEF RecentIn, FoldLeft, MapThenFoldSet
<1> HIDE DEF it, n
<1>6. v[0] = << >> /\ v[n] = it[1..n]
  <2>1. 1..0 = {} /\ 0 \in 0..n /\ n \in 0..n
    BY <1>0
  <2>2. it[{}] = << >>
    BY <1>4
  <2> QED
    BY <2>1, <2>2
<1>7. ASSUME NEW k \in 1..n PROVE v[k] = Remember(v[k - 1], ids[k], EventsOf(log, ids[k]))
  <2>1. k \in 0..n /\ k - 1 \in 0..n
    BY <1>0
  <2>2. it[1..k] = Remember(it[(1..k) \ {k}], ids[k], EventsOf(log, ids[k]))
    <3>1. 1..k \in SUBSET (1..n) /\ 1..k # {} /\ Max(1..k) = k
      BY <1>0, PlacesUpTo
    <3> QED
      BY <1>4, <3>1
  <2>3. (1..k) \ {k} = 1..(k - 1)
    BY <1>0, PlacesUpTo
  <2> QED
    BY <2>1, <2>2, <2>3
<1> QED
  BY <1>5, <1>6, <1>7 DEF n

----------------------------------------------------------------------------
(***************************************************************************)
(* Logs that grow by legal events.                                         *)
(***************************************************************************)
\* What can be recorded: a reply comes with its calls in order.
Fine(body) ==
  /\ "k" \in DOMAIN body
  /\ body.k = "message.assistant" => "calls" \in DOMAIN body /\ IsSeq(body.calls)

\* The event of a number.
IsEvent(e, number) ==
  /\ e.seq = number
  /\ e.k = "message.assistant" => IsSeq(e.calls)

IsLog(l) == IsSeq(l) /\ \A i \in 1..Len(l) : IsEvent(l[i], i)

LegalSince(l, first) == \A i \in first..Len(l) : Legal(BookOf(SubSeq(l, 1, i - 1)), l[i])

Longer(l, m) ==
  /\ Len(l) <= Len(m)
  /\ \A i \in 1..Len(l) : m[i] = l[i]
  /\ LegalSince(m, Len(l) + 1)

\* The beginning of a sequence.
LEMMA BeginningIsSeq ==
  ASSUME NEW l, IsSeq(l), NEW n \in 0..Len(l)
  PROVE  /\ IsSeq(SubSeq(l, 1, n)) /\ Len(SubSeq(l, 1, n)) = n
         /\ \A i \in 1..n : SubSeq(l, 1, n)[i] = l[i]
<1> DEFINE t == SubSeq(l, 1, n)
<1>1. Len(l) \in Nat /\ n \in Nat /\ l \in Seq(Range(l))
  BY SeqIsFunction DEF IsSeq
<1>2. \A i \in 1..n : l[i] \in Range(l)
  BY <1>1, ElementOfSeq
<1>3. /\ t \in Seq(Range(l)) /\ Len(t) = IF 1 <= n THEN n - 1 + 1 ELSE 0
      /\ \A i \in 1..(n - 1 + 1) : t[i] = l[1 + i - 1]
  BY <1>1, <1>2, SubSeqProperties
<1>4. Len(t) = n
  BY <1>1, <1>3
<1>5. \A i \in 1..n : t[i] = l[i]
  BY <1>1, <1>3
<1>6. t = [i \in 1..n |-> t[i]]
  BY <1>3, <1>4, LenProperties
<1> HIDE DEF t
<1> QED
  BY <1>1, <1>4, <1>5, <1>6, SeqOfLength DEF t

\* Sequences that are the same at every place are the same.
LEMMA SameSeq ==
  ASSUME NEW l, IsSeq(l), NEW m, IsSeq(m), Len(l) = Len(m),
         \A i \in 1..Len(l) : l[i] = m[i]
  PROVE  l = m
BY SeqIsFunction

\* Beginnings of two logs that agree so far are the same.
LEMMA SameBeginning ==
  ASSUME NEW l, IsSeq(l), NEW m, IsSeq(m), NEW n \in 0..Len(l), n <= Len(m),
         \A i \in 1..n : l[i] = m[i]
  PROVE  SubSeq(l, 1, n) = SubSeq(m, 1, n)
<1>1. n \in 0..Len(m) /\ n \in Nat
  BY SeqIsFunction
<1>2. /\ IsSeq(SubSeq(l, 1, n)) /\ Len(SubSeq(l, 1, n)) = n
      /\ \A i \in 1..n : SubSeq(l, 1, n)[i] = l[i]
  BY BeginningIsSeq
<1>3. /\ IsSeq(SubSeq(m, 1, n)) /\ Len(SubSeq(m, 1, n)) = n
      /\ \A i \in 1..n : SubSeq(m, 1, n)[i] = m[i]
  BY <1>1, BeginningIsSeq
<1> HIDE DEF IsSeq
<1> QED
  BY <1>2, <1>3, SameSeq

\* The book of a beginning is what the chain has come to.
LEMMA BookOfBeginning ==
  ASSUME NEW l, IsSeq(l), NEW v, v[0] = EmptyBook,
         \A k \in 1..Len(l) : v[k] = Record(v[k - 1], l[k]),
         NEW n \in 0..Len(l)
  PROVE  BookOf(SubSeq(l, 1, n)) = v[n]
<1> DEFINE t == SubSeq(l, 1, n)
<1>1. IsSeq(t) /\ Len(t) = n /\ \A i \in 1..n : t[i] = l[i]
  BY BeginningIsSeq
<1>2. n \in Nat /\ Len(l) \in Nat
  BY SeqIsFunction
<1>3. PICK w : /\ w[0] = EmptyBook /\ BookOf(t) = w[Len(t)]
               /\ \A k \in 1..Len(t) : w[k] = Record(w[k - 1], t[k])
  BY <1>1, BookChain
<1> HIDE DEF t
<1> DEFINE A == {k \in 0..n : w[k] = v[k]}
<1>4. 0 \in A
  BY <1>2, <1>3
<1>5. ASSUME NEW k \in 1..n, k - 1 \in A PROVE k \in A
  <2>1. k \in 0..n /\ k \in 1..Len(l) /\ k \in 1..Len(t)
    BY <1>1, <1>2
  <2>2. w[k] = Record(w[k - 1], t[k]) /\ v[k] = Record(v[k - 1], l[k])
    BY <1>3, <2>1
  <2>3. w[k - 1] = v[k - 1] /\ t[k] = l[k]
    BY <1>1, <1>5
  <2> QED
    BY <2>1, <2>2, <2>3
<1>6. n \in A
  <2> HIDE DEF A
  <2>1. 0..n \subseteq A
    BY <1>2, <1>4, <1>5, Upwards
  <2> QED
    BY <1>2, <2>1
<1> QED
  BY <1>1, <1>3, <1>6 DEF t

\* The book of a log with one event more.
LEMMA BookOfMore ==
  ASSUME NEW l, IsSeq(l), NEW e
  PROVE  BookOf(Append(l, e)) = Record(BookOf(l), e)
<1> DEFINE t == Append(l, e)
           n == Len(l)
<1>1. /\ IsSeq(t) /\ Len(t) = n + 1 /\ \A i \in 1..n : t[i] = l[i]
      /\ t[n + 1] = e
  BY AppendIsSeq
<1>2. n \in Nat
  BY SeqIsFunction
<1> HIDE DEF t, n
<1>3. PICK v : /\ v[0] = EmptyBook /\ BookOf(t) = v[Len(t)]
               /\ \A k \in 1..Len(t) : v[k] = Record(v[k - 1], t[k])
  BY <1>1, BookChain
<1>4. v[n + 1] = Record(v[n], e)
  <2>1. n + 1 \in 1..Len(t) /\ n + 1 - 1 = n
    BY <1>1, <1>2
  <2>2. PICK k \in 1..Len(t) : k = n + 1
    BY <2>1
  <2>3. v[k] = Record(v[k - 1], t[k])
    BY <1>3
  <2>4. k - 1 = n /\ t[k] = e
    BY <1>1, <1>2, <2>2
  <2>5. v[k] = Record(v[n], e)
    BY <2>3, <2>4
  <2> QED
    BY <2>2, <2>5, Zenon
<1>5. BookOf(SubSeq(t, 1, n)) = v[n]
  <2>1. n \in 0..Len(t)
    BY <1>1, <1>2
  <2> QED
    BY <1>1, <1>3, <2>1, BookOfBeginning
<1>6. SubSeq(t, 1, n) = l
  <2>1. n \in 0..Len(t)
    BY <1>1, <1>2
  <2>2. /\ IsSeq(SubSeq(t, 1, n)) /\ Len(SubSeq(t, 1, n)) = n
        /\ \A i \in 1..n : SubSeq(t, 1, n)[i] = t[i]
    BY <1>1, <2>1, BeginningIsSeq
  <2> QED
    BY <1>1, <2>2, SameSeq DEF n
<1> QED
  BY <1>1, <1>3, <1>4, <1>5, <1>6 DEF t

\* The book of a log counts its events.
LEMMA BookOfLog ==
  ASSUME NEW l, IsLog(l)
  PROVE  Shaped(BookOf(l)) /\ BookOf(l).next = Len(l) + 1
<1>1. PICK v : /\ v[0] = EmptyBook /\ BookOf(l) = v[Len(l)]
               /\ \A k \in 1..Len(l) : v[k] = Record(v[k - 1], l[k])
  BY BookChain DEF IsLog
<1> DEFINE n == Len(l)
           A == {k \in 0..n : Shaped(v[k]) /\ v[k].next = k + 1}
<1>2. n \in Nat
  BY SeqIsFunction DEF IsLog
<1>3. 0 \in A
  BY <1>1, <1>2 DEF EmptyBook, Shaped, Fields
<1>4. ASSUME NEW k \in 1..n, k - 1 \in A PROVE k \in A
  <2>1. v[k] = Record(v[k - 1], l[k]) /\ l[k].seq = k /\ k \in 0..n
    BY <1>1, <1>2 DEF IsLog, IsEvent
  <2>2. Shaped(v[k - 1])
    BY <1>4
  <2>3. PICK b, e : b = v[k - 1] /\ e = l[k]
    OBVIOUS
  <2>4. Shaped(Record(b, e)) /\ Record(b, e).next = e.seq + 1
    BY <2>2, <2>3, RecordNumbers
  <2>5. v[k] = Record(b, e) /\ e.seq = k
    BY <2>1, <2>3
  <2> QED
    BY <2>1, <2>4, <2>5
<1>5. n \in A
  <2> HIDE DEF A, n
  <2>1. 0..n \subseteq A
    BY <1>2, <1>3, <1>4, Upwards
  <2> QED
    BY <1>2, <2>1
<1> QED
  BY <1>1, <1>5

\* A log that gets one more legal event is longer.
LEMMA OneMore ==
  ASSUME NEW l, IsLog(l), NEW e, Legal(BookOf(l), e),
         e.k = "message.assistant" => IsSeq(e.calls)
  PROVE  IsLog(Append(l, e)) /\ Longer(l, Append(l, e)) /\ Len(Append(l, e)) = Len(l) + 1
<1> DEFINE t == Append(l, e)
           n == Len(l)
<1>1. /\ IsSeq(t) /\ Len(t) = n + 1 /\ \A i \in 1..n : t[i] = l[i]
      /\ t[n + 1] = e
  BY AppendIsSeq DEF IsLog
<1>2. n \in Nat
  BY SeqIsFunction DEF IsLog
<1>3. e.seq = n + 1
  BY BookOfLog DEF Legal
<1>4. SubSeq(t, 1, n) = l
  <2> HIDE DEF t
  <2>1. n \in 0..Len(t) /\ IsSeq(l)
    BY <1>1, <1>2 DEF IsLog
  <2>2. /\ IsSeq(SubSeq(t, 1, n)) /\ Len(SubSeq(t, 1, n)) = n
        /\ \A i \in 1..n : SubSeq(t, 1, n)[i] = t[i]
    BY <1>1, <2>1, BeginningIsSeq
  <2>3. PICK u : u = SubSeq(t, 1, n)
    OBVIOUS
  <2>4. IsSeq(u) /\ Len(u) = Len(l) /\ \A i \in 1..Len(u) : u[i] = l[i]
    BY <1>1, <2>2, <2>3
  <2>5. u = l
    BY <2>1, <2>4, SameSeq
  <2> QED
    BY <2>3, <2>5
<1> HIDE DEF t, n
<1>5. IsLog(t)
  <2>1. ASSUME NEW i \in 1..Len(t) PROVE IsEvent(t[i], i)
    <3>1. CASE i = n + 1
      <4>1. IsEvent(e, n + 1)
        BY <1>3 DEF IsEvent
      <4> QED
        BY <1>1, <3>1, <4>1
    <3>2. CASE i \in 1..n
      <4>1. IsEvent(l[i], i)
        BY <3>2 DEF IsLog, n
      <4> QED
        BY <1>1, <3>2, <4>1
    <3> QED
      BY <1>1, <1>2, <3>1, <3>2
  <2> QED
    BY <1>1, <2>1 DEF IsLog
<1>6. LegalSince(t, n + 1)
  <2>1. ASSUME NEW i \in (n + 1)..Len(t) PROVE Legal(BookOf(SubSeq(t, 1, i - 1)), t[i])
    <3>1. i = n + 1 /\ i - 1 = n
      BY <1>1, <1>2
    <3> QED
      BY <1>1, <1>4, <3>1
  <2> QED
    BY <2>1 DEF LegalSince
<1> QED
  BY <1>1, <1>2, <1>5, <1>6 DEF Longer, t, n

LEMMA LongerIsReflexive ==
  ASSUME NEW l, IsLog(l)
  PROVE  Longer(l, l)
<1>1. Len(l) \in Nat
  BY SeqIsFunction DEF IsLog
<1> QED
  BY <1>1 DEF Longer, LegalSince

LEMMA LongerIsTransitive ==
  ASSUME NEW l, IsLog(l), NEW m, IsLog(m), NEW k, IsLog(k), Longer(l, m), Longer(m, k)
  PROVE  Longer(l, k)
<1>1. Len(l) \in Nat /\ Len(m) \in Nat /\ Len(k) \in Nat /\ IsSeq(m) /\ IsSeq(k)
  BY SeqIsFunction DEF IsLog
<1>2. Len(l) <= Len(m) /\ Len(m) <= Len(k)
  BY DEF Longer
<1>3. \A i \in 1..Len(m) : k[i] = m[i]
  BY DEF Longer
<1>4. ASSUME NEW i \in (Len(l) + 1)..Len(k) PROVE Legal(BookOf(SubSeq(k, 1, i - 1)), k[i])
  <2>1. CASE i <= Len(m)
    <3>1. /\ i \in (Len(l) + 1)..Len(m) /\ i \in 1..Len(m) /\ i - 1 \in 0..Len(k)
          /\ i - 1 <= Len(m) /\ \A j \in 1..(i - 1) : j \in 1..Len(m)
      BY <1>1, <1>2, <2>1
    <3>2. SubSeq(k, 1, i - 1) = SubSeq(m, 1, i - 1)
      BY <1>1, <1>3, <3>1, SameBeginning
    <3>3. Legal(BookOf(SubSeq(m, 1, i - 1)), m[i])
      BY <3>1 DEF Longer, LegalSince
    <3> QED
      BY <1>3, <3>1, <3>2, <3>3
  <2>2. CASE ~(i <= Len(m))
    <3>1. i \in (Len(m) + 1)..Len(k)
      BY <1>1, <2>2
    <3> QED
      BY <3>1 DEF Longer, LegalSince
  <2> QED
    BY <2>1, <2>2
<1>5. ASSUME NEW i \in 1..Len(l) PROVE k[i] = l[i]
  <2>1. i \in 1..Len(m)
    BY <1>1, <1>2
  <2> QED
    BY <1>3, <2>1 DEF Longer
<1>6. Len(l) <= Len(k)
  BY <1>1, <1>2
<1> QED
  BY <1>4, <1>5, <1>6 DEF Longer, LegalSince

----------------------------------------------------------------------------
(***************************************************************************)
(* A sound kernel: its book is the book of its log.  A handler takes it    *)
(* onward: the log gets longer by legal events, the rest of what is on     *)
(* record or promised stays.                                               *)
(***************************************************************************)
KernelFields ==
  { "log", "book", "stored", "turn", "waiting", "recent", "policy", "perm", "eff",
    "closing", "restarting", "refused", "out", "replies" }

TurnFields ==
  { "id", "cause", "stage", "mark", "requests", "retries", "retrying", "interjected",
    "queued", "refresh", "calls", "intr" }

\* What an interruption may do with the queue.
Queueings == {"return", "keep", "send"}

Shapely(s) ==
  /\ DOMAIN s = KernelFields
  /\ DOMAIN s.turn = TurnFields
  /\ IsSeq(s.turn.calls)
  /\ s.turn.intr.queued \in Queueings

Sound(s) ==
  /\ Shapely(s)
  /\ IsLog(s.log)
  /\ s.book = BookOf(s.log)
  /\ s.stored \in 0..Len(s.log)

Onward(s, t) ==
  /\ Sound(t)
  /\ Longer(s.log, t.log)
  /\ t.stored = s.stored
  /\ t.waiting = s.waiting /\ t.recent = s.recent /\ t.replies = s.replies

LEMMA OnwardIsReflexive ==
  ASSUME NEW s, Sound(s)
  PROVE  Onward(s, s)
BY LongerIsReflexive DEF Sound, Onward

LEMMA OnwardIsTransitive ==
  ASSUME NEW s, Sound(s), NEW t, Onward(s, t), NEW u, Onward(t, u)
  PROVE  Onward(s, u)
<1>1. IsLog(s.log) /\ IsLog(t.log) /\ IsLog(u.log)
  BY DEF Sound, Onward
<1>2. Longer(s.log, t.log) /\ Longer(t.log, u.log)
  BY DEF Onward
<1>3. Longer(s.log, u.log)
  <2>1. PICK a, b, c : a = s.log /\ b = t.log /\ c = u.log
    OBVIOUS
  <2>2. Longer(a, c)
    BY <1>1, <1>2, <2>1, LongerIsTransitive
  <2> QED
    BY <2>1, <2>2
<1> QED
  BY <1>3 DEF Onward

\* Nothing is recorded.
LEMMA Aside ==
  ASSUME NEW s, Sound(s), NEW t, Shapely(t),
         t.log = s.log, t.book = s.book, t.stored = s.stored,
         t.waiting = s.waiting, t.recent = s.recent, t.replies = s.replies
  PROVE  Onward(s, t)
BY LongerIsReflexive DEF Sound, Onward

\* Each of the calls is changed, none added.
LEMMA EachOf ==
  ASSUME NEW f, IsSeq(f), NEW g, g = [i \in DOMAIN f |-> g[i]]
  PROVE  IsSeq(g) /\ Len(g) = Len(f) /\ DOMAIN g = DOMAIN f
<1>1. Len(f) \in Nat /\ DOMAIN f = 1..Len(f)
  BY SeqIsFunction
<1> DEFINE n == Len(f)
<1>2. g = [i \in 1..n |-> g[i]]
  BY <1>1
<1> HIDE DEF n
<1> QED
  BY <1>1, <1>2, SeqOfLength DEF n

----------------------------------------------------------------------------
(***************************************************************************)
(* Recording.                                                              *)
(***************************************************************************)
\* An event is recorded if it is legal and remembered as refused if not.
LEMMA CommitOnward ==
  ASSUME NEW s, Sound(s), NEW turn, NEW cause, NEW body, Fine(body)
  PROVE  Onward(s, Commit(s, turn, cause, body))
<1> DEFINE e == Event(s.book.next, turn, cause, body)
           t == Commit(s, turn, cause, body)
<1>0. e.k = "message.assistant" => IsSeq(e.calls)
  BY DEF Fine, Event
<1>1. CASE Legal(s.book, e)
  <2>1. t = [s EXCEPT !.log = Append(s.log, e), !.book = Record(s.book, e)]
    BY <1>1 DEF Commit
  <2>2. PICK l : l = s.log
    OBVIOUS
  <2> HIDE DEF e, t
  <2>3. IsLog(l) /\ s.book = BookOf(l)
    BY <2>2 DEF Sound
  <2>4. Legal(BookOf(l), e)
    BY <1>1, <2>3
  <2>5. IsLog(Append(l, e)) /\ Longer(l, Append(l, e)) /\ Len(Append(l, e)) = Len(l) + 1
    BY <1>0, <2>3, <2>4, OneMore
  <2>6. BookOf(Append(l, e)) = Record(BookOf(l), e)
    BY <2>3, BookOfMore DEF IsLog
  <2>7. Len(l) \in Nat
    BY <2>3, SeqIsFunction DEF IsLog
  <2>8. /\ t.log = Append(l, e) /\ t.book = Record(s.book, e) /\ t.stored = s.stored
        /\ t.waiting = s.waiting /\ t.recent = s.recent /\ t.replies = s.replies
        /\ Shapely(t)
    BY <2>1, <2>2 DEF Sound, Shapely, KernelFields
  <2>9. s.stored \in 0..Len(Append(l, e))
    BY <2>2, <2>5, <2>7 DEF Sound
  <2> QED
    BY <2>2, <2>3, <2>5, <2>6, <2>8, <2>9 DEF Onward, Sound, t
<1>2. CASE ~Legal(s.book, e)
  <2>1. t = [s EXCEPT !.refused = TRUE]
    BY <1>2 DEF Commit
  <2> HIDE DEF e, t
  <2>2. /\ t.log = s.log /\ t.book = s.book /\ t.stored = s.stored
        /\ t.waiting = s.waiting /\ t.recent = s.recent /\ t.replies = s.replies
        /\ Shapely(t)
    BY <2>1 DEF Sound, Shapely, KernelFields
  <2> QED
    BY <2>2, Aside DEF t
<1> QED
  BY <1>1, <1>2

LEMMA PutOnward ==
  ASSUME NEW s, Sound(s), NEW cause, NEW body, Fine(body)
  PROVE  Onward(s, Put(s, cause, body)) /\ Sound(Put(s, cause, body))
<1>1. PICK turn : turn = IF body.k = "turn.started" THEN s.book.next ELSE s.turn.id
  OBVIOUS
<1>2. Put(s, cause, body) = Commit(s, turn, cause, body)
  BY <1>1 DEF Put
<1> QED
  BY <1>2, CommitOnward DEF Onward

\* A list of things to record.
Bodies(list) == IsSeq(list) /\ \A i \in 1..Len(list) : Fine(list[i])

LEMMA PickedHolds ==
  ASSUME NEW f, IsSeq(f), NEW at \in SUBSET (DOMAIN f)
  PROVE  LET t == Picked(f, at) IN
         IsSeq(t) /\ \A i \in 1..Len(t) : \E j \in at : t[i] = f[j]
BY PickedIs DEF Positions

LEMMA PickedBodies ==
  ASSUME NEW f, Bodies(f), NEW at \in SUBSET (DOMAIN f)
  PROVE  Bodies(Picked(f, at))
<1>1. IsSeq(f) /\ \A i \in DOMAIN f : Fine(f[i])
  BY SeqIsFunction DEF Bodies
<1>2. PICK t : t = Picked(f, at)
  OBVIOUS
<1>3. IsSeq(t) /\ \A i \in 1..Len(t) : \E j \in at : t[i] = f[j]
  BY <1>1, <1>2, PickedHolds
<1> QED
  BY <1>1, <1>2, <1>3 DEF Bodies

LEMMA ResultIsFine ==
  ASSUME NEW call, NEW why
  PROVE  Fine(Result(call, why))
BY DEF Fine, Result

\* One result for each call.
LEMMA ResultsAreBodies ==
  ASSUME NEW calls, IsSeq(calls), NEW h, h = [i \in DOMAIN calls |-> h[i]],
         \A i \in DOMAIN calls : \E call, why : h[i] = Result(call, why)
  PROVE  Bodies(h) /\ DOMAIN h = DOMAIN calls
<1>1. IsSeq(h) /\ Len(h) = Len(calls) /\ DOMAIN h = DOMAIN calls
  BY EachOf
<1>2. DOMAIN calls = 1..Len(h)
  BY <1>1, SeqIsFunction
<1>3. ASSUME NEW i \in 1..Len(h) PROVE Fine(h[i])
  <2>1. PICK call, why : h[i] = Result(call, why)
    BY <1>2
  <2> QED
    BY <2>1, ResultIsFine
<1> QED
  BY <1>1, <1>3 DEF Bodies

LEMMA PutEachOnward ==
  ASSUME NEW s, Sound(s), NEW cause, NEW bodies, Bodies(bodies)
  PROVE  Onward(s, PutEach(s, cause, bodies)) /\ Sound(PutEach(s, cause, bodies))
<1>1. PICK v : /\ v[0] = s /\ PutEach(s, cause, bodies) = v[Len(bodies)]
               /\ \A k \in 1..Len(bodies) : v[k] = Put(v[k - 1], cause, bodies[k])
  BY PutEachChain DEF Bodies
<1> DEFINE n == Len(bodies)
           A == {k \in 0..n : Onward(s, v[k])}
<1>2. n \in Nat
  BY SeqIsFunction DEF Bodies
<1>3. 0 \in A
  BY <1>1, <1>2, OnwardIsReflexive
<1>4. ASSUME NEW k \in 1..n, k - 1 \in A PROVE k \in A
  <2>1. PICK t, body : t = v[k - 1] /\ body = bodies[k]
    OBVIOUS
  <2>2. Onward(s, t) /\ Sound(t)
    BY <1>4, <2>1 DEF Onward
  <2>3. Onward(t, Put(t, cause, body))
    <3>1. Fine(body)
      BY <2>1 DEF Bodies
    <3> QED
      BY <2>2, <3>1, PutOnward
  <2>4. Onward(s, Put(t, cause, body))
    <3>1. PICK u : u = Put(t, cause, body)
      OBVIOUS
    <3> QED
      BY <2>2, <2>3, <3>1, OnwardIsTransitive
  <2>5. v[k] = Put(t, cause, body) /\ k \in 0..n
    BY <1>1, <2>1
  <2> QED
    BY <2>4, <2>5
<1>5. n \in A
  <2> HIDE DEF A, n
  <2>1. 0..n \subseteq A
    BY <1>2, <1>3, <1>4, Upwards
  <2> QED
    BY <1>2, <2>1
<1> QED
  BY <1>1, <1>5 DEF Onward

LEMMA DoOnward ==
  ASSUME NEW s, Sound(s), NEW actions
  PROVE  Onward(s, Do(s, actions)) /\ Sound(Do(s, actions))
<1>1. PICK t : t = Do(s, actions)
  OBVIOUS
<1>2. /\ t.log = s.log /\ t.book = s.book /\ t.stored = s.stored
      /\ t.waiting = s.waiting /\ t.recent = s.recent /\ t.replies = s.replies
      /\ Shapely(t)
  BY <1>1 DEF Sound, Shapely, KernelFields, Do
<1> QED
  BY <1>1, <1>2, Aside DEF Onward

----------------------------------------------------------------------------
(***************************************************************************)
(* Turns.                                                                  *)
(***************************************************************************)
LEMMA BoundaryIsBodies ==
  ASSUME NEW s
  PROVE  Bodies(Boundary(s))
<1>1. PICK body : body = [k |-> "context.injected", fact |-> "permission", perm |-> s.perm]
  OBVIOUS
<1>2. Fine(body)
  BY <1>1 DEF Fine
<1>3. Bodies(<<body>>)
  BY <1>2, LonelyIsSeq DEF Bodies
<1>4. Bodies(<< >>)
  BY EmptyIsSeq DEF Bodies
<1>5. Boundary(s) \in {<< >>, <<body>>}
  BY <1>1 DEF Boundary
<1> QED
  BY <1>3, <1>4, <1>5

LEMMA RefreshFactsOnward ==
  ASSUME NEW s, Sound(s)
  PROVE  Onward(s, RefreshFacts(s)) /\ Sound(RefreshFacts(s))
<1>1. CASE ~s.turn.refresh
  BY <1>1, OnwardIsReflexive DEF RefreshFacts
<1>2. CASE s.turn.refresh
  <2>1. PICK t : t = [s EXCEPT !.turn.refresh = FALSE, !.eff = s.perm]
    OBVIOUS
  <2>2. Onward(s, t)
    <3>1. /\ t.log = s.log /\ t.book = s.book /\ t.stored = s.stored
          /\ t.waiting = s.waiting /\ t.recent = s.recent /\ t.replies = s.replies
          /\ Shapely(t)
      BY <2>1 DEF Sound, Shapely, KernelFields, TurnFields
    <3> QED
      BY <3>1, Aside
  <2>3. PICK u : u = PutEach(t, s.turn.cause, Boundary(t))
    OBVIOUS
  <2>4. Onward(t, u)
    BY <2>2, <2>3, BoundaryIsBodies, PutEachOnward DEF Onward
  <2>5. RefreshFacts(s) = u
    BY <1>2, <2>1, <2>3 DEF RefreshFacts
  <2> QED
    BY <2>2, <2>4, <2>5, OnwardIsTransitive DEF Onward
<1> QED
  BY <1>1, <1>2

LEMMA OpenTurnOnward ==
  ASSUME NEW s, Sound(s), NEW trigger, NEW cause
  PROVE  Onward(s, OpenTurn(s, trigger, cause)) /\ Sound(OpenTurn(s, trigger, cause))
<1>1. PICK t : t = Put(s, cause, [k |-> "turn.started", trigger |-> trigger,
                                  triggers |-> << >>])
  OBVIOUS
<1>2. Onward(s, t) /\ Sound(t)
  <2>1. Fine([k |-> "turn.started", trigger |-> trigger, triggers |-> << >>])
    BY DEF Fine
  <2> QED
    BY <1>1, <2>1, PutOnward
<1>3. PICK u : u = [t EXCEPT !.turn = NewTurn(s.book.next, cause, "opening", s.book.next),
                             !.eff = s.perm]
  OBVIOUS
<1>4. Onward(t, u)
  <2>1. /\ u.log = t.log /\ u.book = t.book /\ u.stored = t.stored
        /\ u.waiting = t.waiting /\ u.recent = t.recent /\ u.replies = t.replies
        /\ Shapely(u)
    BY <1>2, <1>3, EmptyIsSeq
       DEF Sound, Shapely, KernelFields, TurnFields, NewTurn, NotInterrupting, Queueings
  <2> QED
    BY <1>2, <2>1, Aside
<1>5. PICK v : v = PutEach(u, cause, Boundary(u))
  OBVIOUS
<1>6. Onward(u, v)
  BY <1>4, <1>5, BoundaryIsBodies, PutEachOnward DEF Onward
<1>7. PICK w : w = [v EXCEPT !.turn.mark = Len(v.log)]
  OBVIOUS
<1>8. Onward(v, w)
  <2>1. Sound(v)
    BY <1>6 DEF Onward
  <2>2. /\ w.log = v.log /\ w.book = v.book /\ w.stored = v.stored
        /\ w.waiting = v.waiting /\ w.recent = v.recent /\ w.replies = v.replies
        /\ Shapely(w)
    BY <1>7, <2>1 DEF Sound, Shapely, KernelFields, TurnFields
  <2> QED
    BY <2>1, <2>2, Aside
<1>9. OpenTurn(s, trigger, cause) = w
  BY <1>1, <1>3, <1>5, <1>7 DEF OpenTurn
<1>10. Onward(s, u)
  BY <1>2, <1>4, OnwardIsTransitive
<1>11. Onward(s, v)
  BY <1>6, <1>10, OnwardIsTransitive
<1> QED
  BY <1>8, <1>9, <1>11, OnwardIsTransitive DEF Onward

LEMMA EndTurnOnward ==
  ASSUME NEW s, Sound(s), NEW cause, NEW reason
  PROVE  Onward(s, EndTurn(s, cause, reason)) /\ Sound(EndTurn(s, cause, reason))
<1>1. PICK t : t = Put(s, cause, [k |-> "turn.ended", reason |-> reason])
  OBVIOUS
<1>2. Onward(s, t) /\ Sound(t)
  <2>1. Fine([k |-> "turn.ended", reason |-> reason])
    BY DEF Fine
  <2> QED
    BY <1>1, <2>1, PutOnward
<1>3. PICK x : x = [turn |-> s.turn.id, ended |-> s.book.next]
  OBVIOUS
<1>4. PICK u : u = [t EXCEPT !.turn = NoTurn, !.closing = Append(@, x)]
  OBVIOUS
<1>5. Onward(t, u)
  <2>1. /\ u.log = t.log /\ u.book = t.book /\ u.stored = t.stored
        /\ u.waiting = t.waiting /\ u.recent = t.recent /\ u.replies = t.replies
        /\ Shapely(u)
    BY <1>2, <1>4, EmptyIsSeq
       DEF Sound, Shapely, KernelFields, TurnFields, NoTurn, NewTurn, NotInterrupting,
           Queueings
  <2> QED
    BY <1>2, <2>1, Aside
<1>6. EndTurn(s, cause, reason) = u
  BY <1>1, <1>3, <1>4 DEF EndTurn
<1> QED
  BY <1>2, <1>5, <1>6, OnwardIsTransitive DEF Onward

LEMMA FinishTurnOnward ==
  ASSUME NEW s, Sound(s), NEW cause, NEW reason
  PROVE  Onward(s, FinishTurn(s, cause, reason)) /\ Sound(FinishTurn(s, cause, reason))
<1>1. PICK t : t = EndTurn(s, cause, reason)
  OBVIOUS
<1>2. Onward(s, t) /\ Sound(t)
  BY <1>1, EndTurnOnward
<1>3. CASE s.turn.queued = << >>
  BY <1>1, <1>2, <1>3 DEF FinishTurn
<1>4. CASE s.turn.queued # << >>
  <2>1. PICK u : u = OpenTurn(t, Last(s.turn.queued).seq, Last(s.turn.queued).cause)
    OBVIOUS
  <2>2. Onward(t, u)
    BY <1>2, <2>1, OpenTurnOnward
  <2>3. FinishTurn(s, cause, reason) = u
    BY <1>1, <1>4, <2>1 DEF FinishTurn
  <2> QED
    BY <1>2, <2>2, <2>3, OnwardIsTransitive DEF Onward
<1> QED
  BY <1>3, <1>4

LEMMA WithdrawQueuedOnward ==
  ASSUME NEW s, Sound(s), NEW cause
  PROVE  Onward(s, WithdrawQueued(s, cause)) /\ Sound(WithdrawQueued(s, cause))
<1>1. CASE s.turn.queued = << >>
  BY <1>1, OnwardIsReflexive DEF WithdrawQueued
<1>2. CASE s.turn.queued # << >>
  <2>1. PICK t : t = [s EXCEPT !.turn.queued = << >>]
    OBVIOUS
  <2>2. Onward(s, t)
    <3>1. /\ t.log = s.log /\ t.book = s.book /\ t.stored = s.stored
          /\ t.waiting = s.waiting /\ t.recent = s.recent /\ t.replies = s.replies
          /\ Shapely(t)
      BY <2>1 DEF Sound, Shapely, KernelFields, TurnFields
    <3> QED
      BY <3>1, Aside
  <2>3. PICK body : body = [k |-> "message.withdrawn",
                            msgs |-> [i \in DOMAIN s.turn.queued |-> s.turn.queued[i].seq]]
    OBVIOUS
  <2>4. PICK u : u = Put(t, cause, body)
    OBVIOUS
  <2>5. Onward(t, u)
    <3>1. Fine(body)
      BY <2>3 DEF Fine
    <3> QED
      BY <2>2, <2>4, <3>1, PutOnward DEF Onward
  <2>6. WithdrawQueued(s, cause) = u
    BY <1>2, <2>1, <2>3, <2>4 DEF WithdrawQueued
  <2> QED
    BY <2>2, <2>5, <2>6, OnwardIsTransitive DEF Onward
<1> QED
  BY <1>1, <1>2

----------------------------------------------------------------------------
(***************************************************************************)
(* Calls.                                                                  *)
(***************************************************************************)
\* Only what is not on record changes.
Still(s, t) == Onward(s, t) /\ Sound(t) /\ t.log = s.log

LEMMA StillAside ==
  ASSUME NEW s, Sound(s), NEW t, Shapely(t),
         t.log = s.log, t.book = s.book, t.stored = s.stored,
         t.waiting = s.waiting, t.recent = s.recent, t.replies = s.replies
  PROVE  Still(s, t)
BY Aside DEF Still, Onward

LEMMA SetStateStill ==
  ASSUME NEW s, Sound(s), NEW i, NEW state
  PROVE  Still(s, SetState(s, i, state)) /\ Sound(SetState(s, i, state))
<1>1. PICK f : f = s.turn.calls
  OBVIOUS
<1>2. PICK g : g = [f EXCEPT ![i].state = state]
  OBVIOUS
<1>3. IsSeq(f)
  BY <1>1 DEF Sound, Shapely
<1>4. g = [j \in DOMAIN f |-> g[j]]
  BY <1>2
<1>5. IsSeq(g)
  BY <1>3, <1>4, EachOf
<1>6. PICK t : t = [s EXCEPT !.turn.calls = g]
  OBVIOUS
<1>7. SetState(s, i, state) = t
  BY <1>1, <1>2, <1>6 DEF SetState, Sound, Shapely, KernelFields, TurnFields
<1>8. /\ t.log = s.log /\ t.book = s.book /\ t.stored = s.stored
      /\ t.waiting = s.waiting /\ t.recent = s.recent /\ t.replies = s.replies
      /\ Shapely(t)
  BY <1>5, <1>6 DEF Sound, Shapely, KernelFields, TurnFields
<1> QED
  BY <1>7, <1>8, StillAside DEF Still

LEMMA FinishStepOnward ==
  ASSUME NEW s, Sound(s), NEW cause
  PROVE  Onward(s, FinishStep(s, cause)) /\ Sound(FinishStep(s, cause))
<1>1. CASE s.turn.requests >= s.policy.stepLimit
  BY <1>1, FinishTurnOnward DEF FinishStep
<1>2. CASE ~(s.turn.requests >= s.policy.stepLimit)
  <2>1. PICK t : t = [s EXCEPT !.turn.stage = "ready", !.turn.mark = 0,
                               !.turn.calls = << >>]
    OBVIOUS
  <2>2. Onward(s, t)
    <3>1. /\ t.log = s.log /\ t.book = s.book /\ t.stored = s.stored
          /\ t.waiting = s.waiting /\ t.recent = s.recent /\ t.replies = s.replies
          /\ Shapely(t)
      BY <2>1, EmptyIsSeq DEF Sound, Shapely, KernelFields, TurnFields
    <3> QED
      BY <3>1, Aside
  <2>3. PICK u : u = RefreshFacts(t)
    OBVIOUS
  <2>4. Onward(t, u)
    BY <2>2, <2>3, RefreshFactsOnward DEF Onward
  <2>5. FinishStep(s, cause) = u
    BY <1>2, <2>1, <2>3 DEF FinishStep
  <2> QED
    BY <2>2, <2>4, <2>5, OnwardIsTransitive DEF Onward
<1> QED
  BY <1>1, <1>2

LEMMA SettleCallsOnward ==
  ASSUME NEW s, Sound(s), NEW at \in SUBSET (DOMAIN s.turn.calls), NEW cause, NEW why
  PROVE  Onward(s, SettleCalls(s, at, cause, why)) /\ Sound(SettleCalls(s, at, cause, why))
<1>1. CASE s.turn.stage # "tools"
  BY <1>1, OnwardIsReflexive DEF SettleCalls
<1>2. CASE s.turn.stage = "tools"
  <2>1. PICK calls : calls = s.turn.calls
    OBVIOUS
  <2>2. PICK g : g = [i \in DOMAIN calls |->
                        IF i \in at THEN [calls[i] EXCEPT !.state = "done"] ELSE calls[i]]
    OBVIOUS
  <2>3. PICK t : t = [s EXCEPT !.turn.calls = g]
    OBVIOUS
  <2>4. IsSeq(calls) /\ at \in SUBSET (DOMAIN calls)
    BY <2>1 DEF Sound, Shapely
  <2>5. IsSeq(g)
    <3>1. g = [j \in DOMAIN calls |-> g[j]]
      BY <2>2
    <3> QED
      BY <2>4, <3>1, EachOf
  <2>6. Onward(s, t)
    <3>1. /\ t.log = s.log /\ t.book = s.book /\ t.stored = s.stored
          /\ t.waiting = s.waiting /\ t.recent = s.recent /\ t.replies = s.replies
          /\ Shapely(t)
      BY <2>3, <2>5 DEF Sound, Shapely, KernelFields, TurnFields
    <3> QED
      BY <3>1, Aside
  <2>7. PICK h : h = [i \in DOMAIN calls |-> Result(calls[i].id, why[i])]
    OBVIOUS
  <2>8. Bodies(h) /\ DOMAIN h = DOMAIN calls
    BY <2>4, <2>7, ResultsAreBodies
  <2>9. Bodies(Picked(h, at))
    BY <2>4, <2>8, PickedBodies
  <2>10. PICK put : put = PutEach(t, cause, Picked(h, at))
    OBVIOUS
  <2>11. Onward(t, put)
    BY <2>6, <2>9, <2>10, PutEachOnward DEF Onward
  <2>12. PICK u : u = FinishStep(put, s.turn.cause)
    OBVIOUS
  <2>13. Onward(put, u)
    BY <2>11, <2>12, FinishStepOnward DEF Onward
  <2>14. Onward(s, put)
    BY <2>6, <2>11, OnwardIsTransitive
  <2>15. Onward(s, u)
    BY <2>13, <2>14, OnwardIsTransitive
  <2>16. SettleCalls(s, at, cause, why) =
           IF at # {} /\ Finished(t.turn.calls) THEN u ELSE put
    <3>1. s.turn.calls = calls
      BY <2>1
    <3> QED
      BY <1>2, <2>2, <2>3, <2>7, <2>10, <2>12, <3>1
         DEF SettleCalls, Sound, Shapely, KernelFields, TurnFields
  <2> QED
    BY <2>14, <2>15, <2>16 DEF Onward
<1> QED
  BY <1>1, <1>2

LEMMA DispatchStill ==
  ASSUME NEW s, Sound(s)
  PROVE  Still(s, Dispatch(s)) /\ Sound(Dispatch(s))
<1>1. CASE s.turn.stage # "tools" \/ s.stored < s.turn.mark
  BY <1>1, OnwardIsReflexive DEF Dispatch, Still
<1>2. CASE ~(s.turn.stage # "tools" \/ s.stored < s.turn.mark)
  <2> DEFINE calls == s.turn.calls
             due(state) == {i \in DOMAIN calls : calls[i].state = state
                                                  /\ Landed(s, calls[i])}
             approved == due("approved")
             answered == due("answered")
             going == [i \in DOMAIN calls |->
                         IF i \in approved \union answered
                           THEN [calls[i] EXCEPT !.state = "running"]
                           ELSE calls[i]]
             next == Ready(going)
             g == [i \in DOMAIN going |-> IF i \in next
                      THEN [going[i] EXCEPT !.state = "guarding"] ELSE going[i]]
             a == {RunTool(s, calls[i]) : i \in approved}
                  \union {[a |-> "AnswerTool", call |-> calls[i].id] : i \in answered}
                  \union {[a |-> "GuardTool", call |-> calls[i].id] : i \in next}
             t == [s EXCEPT !.turn.calls = g]
  <2>1. Dispatch(s) = Do(t, a)
    BY <1>2 DEF Dispatch
  <2>2. g = [i \in DOMAIN calls |-> g[i]]
    OBVIOUS
  <2> HIDE DEF g, a
  <2>3. IsSeq(g)
    BY <2>2, EachOf DEF Sound, Shapely
  <2>4. /\ t.log = s.log /\ t.book = s.book /\ t.stored = s.stored
        /\ t.waiting = s.waiting /\ t.recent = s.recent /\ t.replies = s.replies
        /\ Shapely(t)
    BY <2>3 DEF Sound, Shapely, KernelFields, TurnFields
  <2> HIDE DEF t
  <2>5. PICK u : u = Do(t, a)
    OBVIOUS
  <2>6. /\ u.log = t.log /\ u.book = t.book /\ u.stored = t.stored
        /\ u.waiting = t.waiting /\ u.recent = t.recent /\ u.replies = t.replies
        /\ Shapely(u)
    BY <2>4, <2>5 DEF Shapely, KernelFields, Do
  <2> QED
    BY <2>1, <2>4, <2>5, <2>6, StillAside DEF Still
<1> QED
  BY <1>1, <1>2

LEMMA StartToolsOnward ==
  ASSUME NEW s, Sound(s), NEW reply, NEW calls, IsSeq(calls), NEW cause
  PROVE  Onward(s, StartTools(s, reply, calls, cause))
         /\ Sound(StartTools(s, reply, calls, cause))
<1> DEFINE skipping == s.turn.interjected # None
           why(c) == IF skipping THEN "skipped"
                     ELSE IF c.access = "bad" THEN "unknown" ELSE "denied"
           blocked == {i \in DOMAIN calls :
                         skipping \/ calls[i].access = "bad"
                           \/ (calls[i].access = "write" /\ ReadOnlyNow(s))}
           pending == Picked(calls, DOMAIN calls \ blocked)
           h == [i \in DOMAIN calls |-> Result(calls[i].id, why(calls[i]))]
           by == IF skipping THEN s.turn.interjected ELSE cause
           put == PutEach(s, by, Picked(h, blocked))
           step == [put EXCEPT !.turn.stage = "tools", !.turn.mark = reply,
                               !.turn.calls = pending]
<1>1. StartTools(s, reply, calls, cause) =
        IF pending = << >> THEN FinishStep(step, cause) ELSE step
  BY DEF StartTools
<1>2. blocked \in SUBSET (DOMAIN calls) /\ DOMAIN calls \ blocked \in SUBSET (DOMAIN calls)
  OBVIOUS
<1>3. h = [i \in DOMAIN calls |-> h[i]]
      /\ \A i \in DOMAIN calls : \E call, said : h[i] = Result(call, said)
  OBVIOUS
<1> HIDE DEF h, blocked
<1>4. Bodies(h) /\ DOMAIN h = DOMAIN calls
  BY <1>3, ResultsAreBodies
<1>5. Bodies(Picked(h, blocked)) /\ IsSeq(pending)
  BY <1>2, <1>4, PickedIs, PickedBodies
<1> HIDE DEF pending, by
<1>6. Onward(s, put) /\ Sound(put)
  BY <1>5, PutEachOnward
<1> HIDE DEF put
<1>7. Onward(put, step)
  <2>1. /\ step.log = put.log /\ step.book = put.book /\ step.stored = put.stored
        /\ step.waiting = put.waiting /\ step.recent = put.recent
        /\ step.replies = put.replies
        /\ Shapely(step)
    BY <1>5, <1>6 DEF Sound, Shapely, KernelFields, TurnFields
  <2> HIDE DEF step
  <2> QED
    BY <1>6, <2>1, Aside
<1> HIDE DEF step
<1>8. Onward(s, step) /\ Sound(step)
  BY <1>6, <1>7, OnwardIsTransitive DEF Onward
<1>9. Onward(step, FinishStep(step, cause))
  BY <1>8, FinishStepOnward
<1>10. Onward(s, FinishStep(step, cause))
  BY <1>8, <1>9, OnwardIsTransitive
<1> QED
  BY <1>1, <1>8, <1>10 DEF Onward

----------------------------------------------------------------------------
(***************************************************************************)
(* The turn goes on.                                                       *)
(***************************************************************************)
LEMMA AskStill ==
  ASSUME NEW s, Sound(s)
  PROVE  Still(s, Ask(s))
<1>1. PICK t : t = Ask(s)
  OBVIOUS
<1>2. /\ t.log = s.log /\ t.book = s.book /\ t.stored = s.stored
      /\ t.waiting = s.waiting /\ t.recent = s.recent /\ t.replies = s.replies
      /\ Shapely(t)
  BY <1>1 DEF Sound, Shapely, KernelFields, TurnFields, Ask, Do
<1> QED
  BY <1>1, <1>2, StillAside

LEMMA AdvanceStill ==
  ASSUME NEW s, Sound(s)
  PROVE  Still(s, Advance(s)) /\ Sound(Advance(s))
<1>1. PICK d : d = Dispatch(s)
  OBVIOUS
<1>2. Still(s, d)
  BY <1>1, DispatchStill
<1>3. PICK h : h = Do([s EXCEPT !.turn.stage = "hooking"],
                      {[a |-> "RunTurnStartHooks", turn |-> s.turn.id]})
  OBVIOUS
<1>4. Still(s, h)
  <2>1. /\ h.log = s.log /\ h.book = s.book /\ h.stored = s.stored
        /\ h.waiting = s.waiting /\ h.recent = s.recent /\ h.replies = s.replies
        /\ Shapely(h)
    BY <1>3 DEF Sound, Shapely, KernelFields, TurnFields, Do
  <2> QED
    BY <2>1, StillAside
<1>5. Still(s, Ask(s)) /\ Still(s, s)
  BY AskStill, OnwardIsReflexive DEF Still
<1>6. Advance(s) \in {d, h, Ask(s), s}
  BY <1>1, <1>3 DEF Advance
<1> QED
  BY <1>2, <1>4, <1>5, <1>6 DEF Still

LEMMA TurnStartHookedOnward ==
  ASSUME NEW s, Sound(s), NEW turn, NEW injected
  PROVE  Onward(s, TurnStartHooked(s, turn, injected))
<1>1. CASE s.turn.id # turn \/ s.turn.stage # "hooking"
  BY <1>1, OnwardIsReflexive DEF TurnStartHooked
<1>2. CASE ~(s.turn.id # turn \/ s.turn.stage # "hooking")
  <2>1. PICK t : t = [s EXCEPT !.turn.stage = "ready", !.turn.mark = 0]
    OBVIOUS
  <2>2. Onward(s, t) /\ Sound(t)
    <3>1. /\ t.log = s.log /\ t.book = s.book /\ t.stored = s.stored
          /\ t.waiting = s.waiting /\ t.recent = s.recent /\ t.replies = s.replies
          /\ Shapely(t)
      BY <2>1 DEF Sound, Shapely, KernelFields, TurnFields
    <3> QED
      BY <3>1, Aside DEF Onward
  <2>3. PICK put : put = IF injected
                           THEN Put(t, s.turn.cause,
                                    [k |-> "context.injected", fact |-> "hook"])
                           ELSE t
    OBVIOUS
  <2>4. Onward(t, put)
    <3>1. Onward(t, t)
      BY <2>2, OnwardIsReflexive
    <3>2. Onward(t, Put(t, s.turn.cause, [k |-> "context.injected", fact |-> "hook"]))
      <4>1. Fine([k |-> "context.injected", fact |-> "hook"])
        BY DEF Fine
      <4> QED
        BY <2>2, <4>1, PutOnward
    <3> QED
      BY <2>3, <3>1, <3>2
  <2>5. PICK u : u = RefreshFacts(put)
    OBVIOUS
  <2>6. Onward(put, u)
    BY <2>4, <2>5, RefreshFactsOnward DEF Onward
  <2>7. PICK v : v = Advance(u)
    OBVIOUS
  <2>8. Onward(u, v)
    BY <2>6, <2>7, AdvanceStill DEF Onward, Still
  <2>9. TurnStartHooked(s, turn, injected) = v
    BY <1>2, <2>1, <2>3, <2>5, <2>7 DEF TurnStartHooked
  <2>10. Onward(s, put)
    BY <2>2, <2>4, OnwardIsTransitive
  <2>11. Onward(s, u)
    BY <2>6, <2>10, OnwardIsTransitive
  <2> QED
    BY <2>8, <2>9, <2>11, OnwardIsTransitive
<1> QED
  BY <1>1, <1>2

----------------------------------------------------------------------------
(***************************************************************************)
(* The model.                                                              *)
(***************************************************************************)
LEMMA NumberedCallsAreSeq ==
  ASSUME NEW reply, NEW calls, IsSeq(calls)
  PROVE  IsSeq(NumberedCalls(reply, calls))
<1>1. PICK g : g = NumberedCalls(reply, calls)
  OBVIOUS
<1>2. g = [i \in DOMAIN calls |-> g[i]]
  BY <1>1 DEF NumberedCalls
<1> QED
  BY <1>1, <1>2, EachOf

LEMMA SettleOnward ==
  ASSUME NEW s, Sound(s), NEW seen, NEW cause, NEW ending, IsSeq(ending.calls), NEW cut
  PROVE  LET r == Settle(s, seen, cause, ending, cut) IN
         Onward(s, r.s) /\ Sound(r.s) /\ IsSeq(r.calls)
<1> DEFINE failed == ending.error # "none"
           kept == IF ending.sent /\ (cut \/ ~failed) THEN ending.calls ELSE << >>
           replied == ending.sent /\ (ending.text \/ kept # << >>)
           error == IF ~cut /\ ~failed /\ ~replied THEN "retry" ELSE ending.error
           calls == NumberedCalls(s.book.next, kept)
           said == [k |-> "message.assistant", seen |-> seen,
                    calls |-> [i \in DOMAIN calls |-> calls[i].id]]
           put == IF replied THEN Put(s, cause, said) ELSE s
           called == [k |-> "model.called", seen |-> seen, aside |-> FALSE,
                      result |-> IF cut THEN "interrupted"
                                 ELSE IF error = "none" THEN "ok" ELSE "error"]
           r == Settle(s, seen, cause, ending, cut)
<1>1. r.s = Put(put, cause, called) /\ r.calls = calls
  BY DEF Settle
<1>2. IsSeq(kept)
  BY EmptyIsSeq
<1> HIDE DEF kept
<1>3. IsSeq(calls)
  BY <1>2, NumberedCallsAreSeq
<1> HIDE DEF replied, r, calls
<1>8. Fine(said)
  <2>1. PICK g : g = [i \in DOMAIN calls |-> calls[i].id]
    OBVIOUS
  <2>2. g = [i \in DOMAIN calls |-> g[i]]
    BY <2>1
  <2>3. IsSeq(g)
    BY <1>3, <2>2, EachOf
  <2> QED
    BY <2>1, <2>3 DEF Fine
<1>9. Fine(called)
  BY DEF Fine
<1> HIDE DEF said, called
<1>4. Onward(s, put) /\ Sound(put)
  BY <1>8, OnwardIsReflexive, PutOnward
<1> HIDE DEF put
<1>5. Onward(put, Put(put, cause, called)) /\ Sound(Put(put, cause, called))
  BY <1>4, <1>9, PutOnward
<1>6. Onward(s, Put(put, cause, called))
  BY <1>4, <1>5, OnwardIsTransitive
<1>7. Onward(s, r.s) /\ Sound(r.s) /\ IsSeq(r.calls)
  BY <1>1, <1>3, <1>5, <1>6
<1> QED
  BY <1>7 DEF r

LEMMA WaitToRetryOnward ==
  ASSUME NEW s, Sound(s), NEW seen, NEW cause, NEW cut
  PROVE  Onward(s, WaitToRetry(s, seen, cause, cut))
<1>1. PICK put : put = IF cut THEN Put(s, cause, [k |-> "context.injected", fact |-> "cut"])
                              ELSE s
  OBVIOUS
<1>2. Onward(s, put) /\ Sound(put)
  <2>1. Fine([k |-> "context.injected", fact |-> "cut"])
    BY DEF Fine
  <2> QED
    BY <1>1, <2>1, OnwardIsReflexive, PutOnward
<1>3. PICK t : t = WaitToRetry(s, seen, cause, cut)
  OBVIOUS
<1>4. t = Do([put EXCEPT !.turn.retries = @ + 1, !.turn.retrying = TRUE,
                     !.turn.stage = "waiting", !.turn.mark = seen],
         {[a |-> "Wake", seen |-> seen]})
  BY <1>1, <1>3 DEF WaitToRetry
<1>5. Onward(put, t)
  <2>1. /\ t.log = put.log /\ t.book = put.book /\ t.stored = put.stored
        /\ t.waiting = put.waiting /\ t.recent = put.recent /\ t.replies = put.replies
        /\ Shapely(t)
    BY <1>2, <1>4 DEF Sound, Shapely, KernelFields, TurnFields, Do
  <2> QED
    BY <1>2, <2>1, Aside
<1> QED
  BY <1>2, <1>3, <1>5, OnwardIsTransitive

LEMMA ModelEndedOnward ==
  ASSUME NEW s, Sound(s), NEW seen, NEW ending, IsSeq(ending.calls)
  PROVE  Onward(s, ModelEnded(s, seen, ending))
<1>1. CASE s.turn.stage # "asking" \/ s.turn.mark # seen
  BY <1>1, OnwardIsReflexive DEF ModelEnded
<1>2. CASE ~(s.turn.stage # "asking" \/ s.turn.mark # seen)
  <2>1. PICK cause : cause = s.turn.cause
    OBVIOUS
  <2>2. PICK taken : taken = [s EXCEPT !.turn.stage = "settling", !.turn.mark = 0]
    OBVIOUS
  <2>3. Onward(s, taken) /\ Sound(taken)
    <3>1. /\ taken.log = s.log /\ taken.book = s.book /\ taken.stored = s.stored
          /\ taken.waiting = s.waiting /\ taken.recent = s.recent
          /\ taken.replies = s.replies
          /\ Shapely(taken)
      BY <2>2 DEF Sound, Shapely, KernelFields, TurnFields
    <3> QED
      BY <3>1, Aside DEF Onward
  <2>4. PICK r : r = Settle(taken, seen, cause, ending, FALSE)
    OBVIOUS
  <2>5. Onward(taken, r.s) /\ Sound(r.s) /\ IsSeq(r.calls)
    BY <2>3, <2>4, SettleOnward
  <2>6. PICK calm : calm = [r.s EXCEPT !.turn.retries = 0]
    OBVIOUS
  <2>7. Onward(r.s, calm) /\ Sound(calm)
    <3>1. PICK t : t = r.s
      OBVIOUS
    <3>2. /\ calm.log = t.log /\ calm.book = t.book /\ calm.stored = t.stored
          /\ calm.waiting = t.waiting /\ calm.recent = t.recent
          /\ calm.replies = t.replies
          /\ Shapely(calm)
      BY <2>5, <2>6, <3>1 DEF Sound, Shapely, KernelFields, TurnFields
    <3> QED
      BY <2>5, <3>1, <3>2, Aside DEF Onward
  <2>8. Onward(s, r.s)
    BY <2>3, <2>5, OnwardIsTransitive
  <2>9. Onward(s, calm)
    BY <2>5, <2>7, <2>8, OnwardIsTransitive
  <2>10. /\ Onward(r.s, WaitToRetry(r.s, seen, cause, r.reply # 0))
         /\ Onward(r.s, FinishTurn(r.s, cause, "error"))
         /\ Onward(calm, StartTools(calm, r.reply, r.calls, cause))
         /\ Onward(calm, FinishTurn(calm, cause, "completed"))
    BY <2>5, <2>7, WaitToRetryOnward, FinishTurnOnward, StartToolsOnward
  <2>11. /\ Onward(s, WaitToRetry(r.s, seen, cause, r.reply # 0))
         /\ Onward(s, FinishTurn(r.s, cause, "error"))
         /\ Onward(s, StartTools(calm, r.reply, r.calls, cause))
         /\ Onward(s, FinishTurn(calm, cause, "completed"))
    BY <2>8, <2>9, <2>10, OnwardIsTransitive
  <2>12. ModelEnded(s, seen, ending) \in
           {WaitToRetry(r.s, seen, cause, r.reply # 0), FinishTurn(r.s, cause, "error"),
            StartTools(calm, r.reply, r.calls, cause), FinishTurn(calm, cause, "completed")}
    BY <1>2, <2>1, <2>2, <2>4, <2>6 DEF ModelEnded
  <2> QED
    BY <2>11, <2>12
<1> QED
  BY <1>1, <1>2

----------------------------------------------------------------------------
(***************************************************************************)
(* Interrupting.                                                           *)
(***************************************************************************)
LEMMA CloseInterruptedOnward ==
  ASSUME NEW s, Sound(s), NEW cause, NEW queued \in Queueings
  PROVE  Onward(s, CloseInterrupted(s, cause, queued))
         /\ Sound(CloseInterrupted(s, cause, queued))
<1>1. PICK left : left = CASE queued = "return" -> WithdrawQueued(s, cause)
                           [] queued = "keep"   -> [s EXCEPT !.turn.queued = << >>]
                           [] queued = "send"   -> s
  OBVIOUS
<1>2. Onward(s, left) /\ Sound(left)
  <2>1. CASE queued = "return"
    BY <1>1, <2>1, WithdrawQueuedOnward
  <2>2. CASE queued = "keep"
    <3>1. left = [s EXCEPT !.turn.queued = << >>]
      BY <1>1, <2>2
    <3>2. /\ left.log = s.log /\ left.book = s.book /\ left.stored = s.stored
          /\ left.waiting = s.waiting /\ left.recent = s.recent
          /\ left.replies = s.replies
          /\ Shapely(left)
      BY <3>1 DEF Sound, Shapely, KernelFields, TurnFields
    <3> QED
      BY <3>2, Aside DEF Onward
  <2>3. CASE queued = "send"
    BY <1>1, <2>3, OnwardIsReflexive
  <2> QED
    BY <2>1, <2>2, <2>3 DEF Queueings
<1>3. CloseInterrupted(s, cause, queued) = FinishTurn(left, cause, "interrupted")
  BY <1>1 DEF CloseInterrupted
<1>4. Onward(left, FinishTurn(left, cause, "interrupted"))
  BY <1>2, FinishTurnOnward
<1> QED
  BY <1>2, <1>3, <1>4, OnwardIsTransitive DEF Onward

LEMMA CancelStepOnward ==
  ASSUME NEW s, Sound(s), NEW cause
  PROVE  Onward(s, CancelStep(s, cause)) /\ Sound(CancelStep(s, cause))
<1> DEFINE calls == s.turn.calls
           stopping(c) == c.state = "stopping" \/ (c.state = "running" /\ c.access = "write")
           left == {i \in DOMAIN calls : calls[i].state # "done" /\ ~stopping(calls[i])}
           g == [i \in DOMAIN calls |->
                   [calls[i] EXCEPT !.state = IF stopping(calls[i]) THEN "stopping"
                                              ELSE "done"]]
           marked == [s EXCEPT !.turn.calls = g]
           h == [i \in DOMAIN calls |-> Result(calls[i].id, CutReason(calls[i]))]
           put == PutEach(marked, cause, Picked(h, left))
           actions == {[a |-> "StopTool", call |-> calls[i].id] :
                         i \in {j \in DOMAIN calls : calls[j].state = "running"
                                                      /\ stopping(calls[j])}}
                      \union {[a |-> "CancelTool", call |-> calls[i].id] :
                         i \in {j \in DOMAIN calls : Executing(calls[j])
                                                      /\ ~stopping(calls[j])}}
<1>1. CancelStep(s, cause) = Do(put, actions)
  BY DEF CancelStep
<1>2. /\ g = [i \in DOMAIN calls |-> g[i]] /\ h = [i \in DOMAIN calls |-> h[i]]
      /\ \A i \in DOMAIN calls : \E call, why : h[i] = Result(call, why)
  OBVIOUS
<1>3. left \in SUBSET (DOMAIN calls)
  OBVIOUS
<1>4. IsSeq(calls)
  BY DEF Sound, Shapely
<1> HIDE DEF actions, left, h, g, calls
<1>5. IsSeq(g) /\ Bodies(h) /\ DOMAIN h = DOMAIN calls
  BY <1>2, <1>4, EachOf, ResultsAreBodies
<1>6. Bodies(Picked(h, left))
  BY <1>3, <1>5, PickedBodies
<1>7. Onward(s, marked) /\ Sound(marked)
  <2>1. /\ marked.log = s.log /\ marked.book = s.book /\ marked.stored = s.stored
        /\ marked.waiting = s.waiting /\ marked.recent = s.recent
        /\ marked.replies = s.replies
        /\ Shapely(marked)
    BY <1>5 DEF Sound, Shapely, KernelFields, TurnFields
  <2> HIDE DEF marked
  <2> QED
    BY <2>1, Aside DEF Onward
<1> HIDE DEF marked
<1>8. Onward(marked, put) /\ Sound(put)
  BY <1>6, <1>7, PutEachOnward
<1> HIDE DEF put
<1>9. Onward(put, Do(put, actions)) /\ Sound(Do(put, actions))
  BY <1>8, DoOnward
<1>10. Onward(s, put)
  BY <1>7, <1>8, OnwardIsTransitive
<1> QED
  BY <1>1, <1>9, <1>10, OnwardIsTransitive

LEMMA StillStoppingIsSeq ==
  ASSUME NEW s, Sound(s)
  PROVE  IsSeq(StillStopping(s))
<1> DEFINE at == {i \in DOMAIN s.turn.calls : s.turn.calls[i].state = "stopping"}
<1>1. IsSeq(s.turn.calls) /\ at \in SUBSET (DOMAIN s.turn.calls)
  BY DEF Sound, Shapely
<1>2. StillStopping(s) = Picked(s.turn.calls, at)
  BY DEF StillStopping
<1> HIDE DEF at
<1> QED
  BY <1>1, <1>2, PickedIs

LEMMA ForceStopOnward ==
  ASSUME NEW s, Sound(s), NEW cause, NEW queued \in Queueings
  PROVE  Onward(s, ForceStop(s, cause, queued)) /\ Sound(ForceStop(s, cause, queued))
<1>1. CASE s.turn.intr.wake = 0
  BY <1>1, OnwardIsReflexive DEF ForceStop
<1>2. CASE s.turn.intr.wake # 0
  <2>1. PICK left : left = StillStopping(s)
    OBVIOUS
  <2>2. PICK t : t = [s EXCEPT !.turn.intr = NotInterrupting,
                               !.turn.stage = "settling", !.turn.calls = << >>]
    OBVIOUS
  <2>3. Onward(s, t) /\ Sound(t)
    <3>1. /\ t.log = s.log /\ t.book = s.book /\ t.stored = s.stored
          /\ t.waiting = s.waiting /\ t.recent = s.recent /\ t.replies = s.replies
          /\ Shapely(t)
      BY <2>2, EmptyIsSeq
         DEF Sound, Shapely, KernelFields, TurnFields, NotInterrupting, Queueings
    <3> QED
      BY <3>1, Aside DEF Onward
  <2>4. PICK h : h = [i \in DOMAIN left |-> Result(left[i].id, "running")]
    OBVIOUS
  <2>5. Bodies(h)
    BY <2>1, <2>4, StillStoppingIsSeq, ResultsAreBodies
  <2>6. PICK settled : settled = PutEach(t, cause, h)
    OBVIOUS
  <2>7. Onward(t, settled) /\ Sound(settled)
    BY <2>3, <2>5, <2>6, PutEachOnward
  <2>8. PICK closed : closed = CloseInterrupted(settled, cause, queued)
    OBVIOUS
  <2>9. Onward(settled, closed) /\ Sound(closed)
    BY <2>7, <2>8, CloseInterruptedOnward
  <2>10. PICK actions : actions = {[a |-> "CancelTool", call |-> left[i].id] :
                                     i \in DOMAIN left}
    OBVIOUS
  <2>11. Onward(closed, Do(closed, actions)) /\ Sound(Do(closed, actions))
    BY <2>9, DoOnward
  <2>12. ForceStop(s, cause, queued) = Do(closed, actions)
    BY <1>2, <2>1, <2>2, <2>4, <2>6, <2>8, <2>10 DEF ForceStop
  <2>13. Onward(s, settled)
    BY <2>3, <2>7, OnwardIsTransitive
  <2>14. Onward(s, closed)
    BY <2>9, <2>13, OnwardIsTransitive
  <2> QED
    BY <2>11, <2>12, <2>14, OnwardIsTransitive
<1> QED
  BY <1>1, <1>2

LEMMA ForceStopAsBeforeOnward ==
  ASSUME NEW s, Sound(s)
  PROVE  Onward(s, ForceStopAsBefore(s)) /\ Sound(ForceStopAsBefore(s))
<1>1. PICK cause, queued : cause = s.turn.intr.cause /\ queued = s.turn.intr.queued
  OBVIOUS
<1>2. queued \in Queueings
  BY <1>1 DEF Sound, Shapely
<1> QED
  BY <1>1, <1>2, ForceStopOnward DEF ForceStopAsBefore

LEMMA WokeOnward ==
  ASSUME NEW s, Sound(s), NEW seen
  PROVE  Onward(s, Woke(s, seen))
<1>1. PICK t : t = [s EXCEPT !.turn.stage = "ready", !.turn.mark = 0]
  OBVIOUS
<1>2. Onward(s, t) /\ Sound(t)
  <2>1. /\ t.log = s.log /\ t.book = s.book /\ t.stored = s.stored
        /\ t.waiting = s.waiting /\ t.recent = s.recent /\ t.replies = s.replies
        /\ Shapely(t)
    BY <1>1 DEF Sound, Shapely, KernelFields, TurnFields
  <2> QED
    BY <2>1, Aside DEF Onward
<1>3. PICK u : u = RefreshFacts(t)
  OBVIOUS
<1>4. Onward(t, u) /\ Sound(u)
  BY <1>2, <1>3, RefreshFactsOnward
<1>5. Onward(u, Advance(u))
  BY <1>4, AdvanceStill DEF Still
<1>6. Onward(s, u)
  BY <1>2, <1>4, OnwardIsTransitive
<1>7. Onward(s, Advance(u))
  BY <1>5, <1>6, OnwardIsTransitive
<1>8. Woke(s, seen) \in {ForceStopAsBefore(s), Advance(u), s}
  BY <1>1, <1>3 DEF Woke
<1> QED
  BY <1>7, <1>8, ForceStopAsBeforeOnward, OnwardIsReflexive

----------------------------------------------------------------------------
(***************************************************************************)
(* Tools.                                                                  *)
(***************************************************************************)
LEMMA StoppedDoneOnward ==
  ASSUME NEW s, Sound(s), NEW call, NEW stopped
  PROVE  Onward(s, StoppedDone(s, call, stopped))
<1> DEFINE intr == s.turn.intr
           at == At(s, call, {"stopping"})
           i == CHOOSE i \in at : TRUE
           done == SetState(s, i, "done")
           put == IF stopped THEN Put(done, intr.cause, Result(call, "running"))
                             ELSE Put(done, s.turn.cause, Result(call, "done"))
           left == \E j \in DOMAIN done.turn.calls : done.turn.calls[j].state = "stopping"
           t == [put EXCEPT !.turn.intr = NotInterrupting,
                            !.turn.stage = "settling", !.turn.calls = << >>]
<1>1. StoppedDone(s, call, stopped) =
        IF at = {} THEN s ELSE IF left THEN put
        ELSE CloseInterrupted(t, intr.cause, intr.queued)
  BY DEF StoppedDone
<1>2. intr.queued \in Queueings
  BY DEF Sound, Shapely
<1> HIDE DEF i, at, left, intr
<1>3. Onward(s, done) /\ Sound(done)
  BY SetStateStill DEF Still
<1> HIDE DEF done
<1>4. Onward(done, put) /\ Sound(put)
  BY <1>3, PutOnward, ResultIsFine
<1> HIDE DEF put
<1>5. Onward(put, t) /\ Sound(t)
  <2>1. /\ t.log = put.log /\ t.book = put.book /\ t.stored = put.stored
        /\ t.waiting = put.waiting /\ t.recent = put.recent /\ t.replies = put.replies
        /\ Shapely(t)
    BY <1>4, EmptyIsSeq
       DEF Sound, Shapely, KernelFields, TurnFields, NotInterrupting, Queueings
  <2> HIDE DEF t
  <2> QED
    BY <1>4, <2>1, Aside DEF Onward
<1> HIDE DEF t
<1>6. PICK u : u = CloseInterrupted(t, intr.cause, intr.queued)
  OBVIOUS
<1>7. Onward(t, u)
  BY <1>2, <1>5, <1>6, CloseInterruptedOnward
<1>8. Onward(s, put)
  BY <1>3, <1>4, OnwardIsTransitive
<1>9. Onward(s, t)
  BY <1>5, <1>8, OnwardIsTransitive
<1>10. Onward(s, u)
  BY <1>7, <1>9, OnwardIsTransitive
<1> QED
  BY <1>1, <1>6, <1>8, <1>10, OnwardIsReflexive

\* A call is done, its result recorded, and the step goes on if it was the last.
LEMMA DoneOnward ==
  ASSUME NEW s, Sound(s), NEW i, NEW cause, NEW body, Fine(body), NEW by
  PROVE  LET put == Put(SetState(s, i, "done"), cause, body)
             after == IF Finished(put.turn.calls) THEN FinishStep(put, by) ELSE put
         IN  Onward(s, after) /\ Sound(after)
<1>1. PICK done : done = SetState(s, i, "done")
  OBVIOUS
<1>2. Onward(s, done) /\ Sound(done)
  BY <1>1, SetStateStill DEF Still
<1>3. PICK put : put = Put(done, cause, body)
  OBVIOUS
<1>4. Onward(done, put) /\ Sound(put)
  BY <1>2, <1>3, PutOnward
<1>5. Onward(s, put)
  BY <1>2, <1>4, OnwardIsTransitive
<1>6. Onward(put, FinishStep(put, by)) /\ Sound(FinishStep(put, by))
  BY <1>4, FinishStepOnward
<1>7. Onward(s, FinishStep(put, by))
  BY <1>5, <1>6, OnwardIsTransitive
<1> QED
  BY <1>1, <1>3, <1>4, <1>5, <1>6, <1>7

\* The executor is told what may run next.
LEMMA ThenDispatch ==
  ASSUME NEW s, Sound(s), NEW t, Onward(s, t)
  PROVE  Onward(s, Dispatch(t)) /\ Sound(Dispatch(t))
<1>1. Onward(t, Dispatch(t)) /\ Sound(Dispatch(t))
  BY DispatchStill DEF Onward, Still
<1> QED
  BY <1>1, OnwardIsTransitive

LEMMA ToolDoneOnward ==
  ASSUME NEW s, Sound(s), NEW call, NEW stopped
  PROVE  Onward(s, ToolDone(s, call, stopped))
<1> DEFINE at == At(s, call, {"running", "questioning", "answered", "stopping"})
           i == CHOOSE i \in at : TRUE
           body == Result(call, IF stopped THEN "running" ELSE "done")
           put == Put(SetState(s, i, "done"), s.turn.cause, body)
           after == IF Finished(put.turn.calls) THEN FinishStep(put, s.turn.cause)
                    ELSE put
<1>1. ToolDone(s, call, stopped) =
        IF s.turn.intr.wake # 0 THEN StoppedDone(s, call, stopped)
        ELSE IF at = {} THEN s ELSE Dispatch(after)
  BY DEF ToolDone
<1>2. Onward(s, after)
  <2>1. Fine(body)
    BY ResultIsFine
  <2> HIDE DEF i, body
  <2> QED
    BY <2>1, DoneOnward
<1> HIDE DEF after, at
<1>3. Onward(s, Dispatch(after))
  BY <1>2, ThenDispatch
<1> QED
  BY <1>1, <1>3, StoppedDoneOnward, OnwardIsReflexive

LEMMA ToolGuardedOnward ==
  ASSUME NEW s, Sound(s), NEW call, NEW verdict
  PROVE  Onward(s, ToolGuarded(s, call, verdict))
<1> DEFINE at == At(s, call, {"guarding"})
           i == CHOOSE i \in at : TRUE
           denied == Put(SetState(s, i, "done"), s.turn.cause, Result(call, "denied"))
           after == IF Finished(denied.turn.calls) THEN FinishStep(denied, s.turn.cause)
                    ELSE denied
           marked == [SetState(s, i, "asking") EXCEPT
                        !.turn.calls[i].asksWrite = (verdict = "askWrite")]
           asking == Put(marked, s.turn.cause, [k |-> "approval.requested", call |-> call])
           going == Do(SetState(s, i, "running"), {RunTool(s, s.turn.calls[i])})
<1>1. ToolGuarded(s, call, verdict) \in {s, going, Dispatch(after), Dispatch(asking)}
  BY DEF ToolGuarded
<1> HIDE DEF i
<1>2. Onward(s, after)
  BY DoneOnward, ResultIsFine
<1>3. Onward(s, going)
  <2>1. PICK t : t = SetState(s, i, "running")
    OBVIOUS
  <2>2. Onward(s, t) /\ Sound(t)
    BY <2>1, SetStateStill DEF Still
  <2>3. PICK actions : actions = {RunTool(s, s.turn.calls[i])}
    OBVIOUS
  <2>4. Onward(t, Do(t, actions))
    BY <2>2, DoOnward
  <2> QED
    BY <2>1, <2>2, <2>3, <2>4, OnwardIsTransitive
<1>4. Onward(s, asking)
  <2>1. PICK t : t = SetState(s, i, "asking")
    OBVIOUS
  <2>2. Onward(s, t) /\ Sound(t)
    BY <2>1, SetStateStill DEF Still
  <2>3. PICK f : f = t.turn.calls
    OBVIOUS
  <2>4. PICK g : g = [f EXCEPT ![i].asksWrite = (verdict = "askWrite")]
    OBVIOUS
  <2>5. IsSeq(g)
    <3>1. IsSeq(f)
      BY <2>2, <2>3 DEF Sound, Shapely
    <3>2. g = [j \in DOMAIN f |-> g[j]]
      BY <2>4
    <3> QED
      BY <3>1, <3>2, EachOf
  <2>6. PICK u : u = [t EXCEPT !.turn.calls = g]
    OBVIOUS
  <2>7. Onward(t, u) /\ Sound(u)
    <3>1. /\ u.log = t.log /\ u.book = t.book /\ u.stored = t.stored
          /\ u.waiting = t.waiting /\ u.recent = t.recent /\ u.replies = t.replies
          /\ Shapely(u)
      BY <2>2, <2>5, <2>6 DEF Sound, Shapely, KernelFields, TurnFields
    <3> QED
      BY <2>2, <3>1, Aside DEF Onward
  <2>8. marked = u
    BY <2>1, <2>2, <2>3, <2>4, <2>6 DEF Sound, Shapely, KernelFields, TurnFields
  <2>9. Onward(u, asking)
    <3>1. Fine([k |-> "approval.requested", call |-> call])
      BY DEF Fine
    <3> HIDE DEF marked
    <3> QED
      BY <2>7, <2>8, <3>1, PutOnward
  <2>10. Onward(s, u)
    BY <2>2, <2>7, OnwardIsTransitive
  <2> HIDE DEF asking
  <2> QED
    BY <2>9, <2>10, OnwardIsTransitive
<1> HIDE DEF after, asking, going
<1>5. Onward(s, Dispatch(after)) /\ Onward(s, Dispatch(asking))
  BY <1>2, <1>4, ThenDispatch
<1> QED
  BY <1>1, <1>3, <1>5, OnwardIsReflexive

LEMMA ToolAsksOnward ==
  ASSUME NEW s, Sound(s), NEW call
  PROVE  Onward(s, ToolAsks(s, call))
<1> DEFINE at == At(s, call, {"running"})
           i == CHOOSE i \in at : TRUE
           skipped == Put(SetState(s, i, "done"), s.turn.cause, Result(call, "unanswered"))
           after == IF Finished(skipped.turn.calls) THEN FinishStep(skipped, s.turn.cause)
                    ELSE skipped
           actions == {[a |-> "CancelTool", call |-> call]}
           asked == Put(SetState(s, i, "questioning"), s.turn.cause,
                        [k |-> "question.asked", call |-> call])
<1>1. ToolAsks(s, call) \in {s, asked, Dispatch(Do(after, actions))}
  BY DEF ToolAsks
<1> HIDE DEF i, actions
<1>2. Onward(s, after) /\ Sound(after)
  BY DoneOnward, ResultIsFine
<1>3. Onward(s, asked)
  <2>1. PICK t : t = SetState(s, i, "questioning")
    OBVIOUS
  <2>2. Onward(s, t) /\ Sound(t)
    BY <2>1, SetStateStill DEF Still
  <2>3. Onward(t, asked)
    <3>1. Fine([k |-> "question.asked", call |-> call])
      BY DEF Fine
    <3> QED
      BY <2>1, <2>2, <3>1, PutOnward
  <2> HIDE DEF asked
  <2> QED
    BY <2>2, <2>3, OnwardIsTransitive
<1> HIDE DEF after, asked
<1>4. Onward(after, Do(after, actions))
  BY <1>2, DoOnward
<1>5. Onward(s, Do(after, actions))
  BY <1>2, <1>4, OnwardIsTransitive
<1>6. PICK t : t = Do(after, actions)
  OBVIOUS
<1>7. Onward(s, Dispatch(t))
  BY <1>5, <1>6, ThenDispatch
<1> QED
  BY <1>1, <1>3, <1>6, <1>7, OnwardIsReflexive

----------------------------------------------------------------------------
(***************************************************************************)
(* What a message or a permission does to the calls.                       *)
(***************************************************************************)
LEMMA VoidWaitingOnward ==
  ASSUME NEW s, Sound(s), NEW cause
  PROVE  Onward(s, VoidWaiting(s, cause)) /\ Sound(VoidWaiting(s, cause))
<1> DEFINE calls == s.turn.calls
           questioning == {i \in DOMAIN calls : calls[i].state = "questioning"}
           why == [i \in DOMAIN calls |-> IF i \in questioning THEN "voided" ELSE "skipped"]
           at == {i \in DOMAIN calls : AwaitingPerson(calls[i])}
           settled == SettleCalls(s, at, cause, why)
           actions == {[a |-> "CancelTool", call |-> calls[i].id] :
                         i \in {j \in questioning : s.turn.stage = "tools"}}
<1>1. VoidWaiting(s, cause) = Do(settled, actions)
  BY DEF VoidWaiting
<1>2. at \in SUBSET (DOMAIN s.turn.calls)
  OBVIOUS
<1> HIDE DEF at, why, actions
<1>3. Onward(s, settled) /\ Sound(settled)
  BY <1>2, SettleCallsOnward
<1> HIDE DEF settled
<1>4. Onward(settled, Do(settled, actions)) /\ Sound(Do(settled, actions))
  BY <1>3, DoOnward
<1> QED
  BY <1>1, <1>3, <1>4, OnwardIsTransitive

LEMMA InterjectOnward ==
  ASSUME NEW s, Sound(s), NEW cause
  PROVE  Onward(s, Interject(s, cause))
<1> DEFINE calls == s.turn.calls
           t == [s EXCEPT !.turn.interjected = cause]
           at == {i \in DOMAIN calls : NotRun(calls[i])}
           why == [i \in DOMAIN calls |-> "skipped"]
           settled == SettleCalls(t, at, cause, why)
<1>1. Interject(s, cause) \in {s, settled}
  BY DEF Interject
<1>2. at \in SUBSET (DOMAIN calls)
  OBVIOUS
<1> HIDE DEF at, why
<1>3. /\ t.log = s.log /\ t.book = s.book /\ t.stored = s.stored
      /\ t.waiting = s.waiting /\ t.recent = s.recent /\ t.replies = s.replies
      /\ Shapely(t) /\ t.turn.calls = calls
  BY DEF Sound, Shapely, KernelFields, TurnFields
<1> HIDE DEF t
<1>4. Onward(s, t) /\ Sound(t)
  BY <1>3, Aside DEF Onward
<1>5. Onward(t, settled)
  BY <1>2, <1>3, <1>4, SettleCallsOnward
<1> HIDE DEF settled
<1> QED
  BY <1>1, <1>4, <1>5, OnwardIsTransitive, OnwardIsReflexive

LEMMA TakeEffectOnward ==
  ASSUME NEW s, Sound(s), NEW new
  PROVE  Onward(s, TakeEffect(s, new)) /\ Sound(TakeEffect(s, new))
<1>1. PICK t : t = [s EXCEPT !.eff = new]
  OBVIOUS
<1>2. Onward(s, t) /\ Sound(t)
  <2>1. /\ t.log = s.log /\ t.book = s.book /\ t.stored = s.stored
        /\ t.waiting = s.waiting /\ t.recent = s.recent /\ t.replies = s.replies
        /\ Shapely(t)
    BY <1>1 DEF Sound, Shapely, KernelFields, TurnFields
  <2> QED
    BY <2>1, Aside DEF Onward
<1> DEFINE calls == t.turn.calls
           waiting == {i \in DOMAIN calls : NotRun(calls[i]) /\ Writes(calls[i])}
           why == [i \in DOMAIN calls |-> "denied"]
           settled == SettleCalls(t, waiting, t.turn.cause, why)
<1>3. DenyWaitingWrites(t) \in {t, settled}
  BY DEF DenyWaitingWrites
<1>4. waiting \in SUBSET (DOMAIN t.turn.calls)
  OBVIOUS
<1> HIDE DEF waiting, why
<1>5. Onward(t, settled)
  BY <1>2, <1>4, SettleCallsOnward
<1> HIDE DEF settled
<1>6. Onward(s, DenyWaitingWrites(t))
  BY <1>2, <1>3, <1>5, OnwardIsTransitive
<1>7. TakeEffect(s, new) \in {DenyWaitingWrites(t), s}
  BY <1>1 DEF TakeEffect
<1> QED
  BY <1>6, <1>7, OnwardIsReflexive DEF Onward

----------------------------------------------------------------------------
(***************************************************************************)
(* What commands are told.  Events are named by their numbers, in order;   *)
(* who was told that they are accepted was told of events on disk.         *)
(***************************************************************************)
Numbers(events) ==
  /\ IsSeq(events)
  /\ \A i \in 1..Len(events) : events[i] \in Nat \ {0} /\ events[i] <= Last(events)

NumbersUpTo(events, n) == Numbers(events) /\ \A i \in 1..Len(events) : events[i] <= n

Entries(list) == IsSeq(list) /\ \A i \in 1..Len(list) : Numbers(list[i].events)

Answers(list, n) ==
  IsSeq(list) /\ \A i \in 1..Len(list) : list[i].ok => NumbersUpTo(list[i].events, n)

\* What commands were accepted for is recorded.
Recalled(list, n) ==
  IsSeq(list) /\ \A i \in 1..Len(list) : NumbersUpTo(list[i].events, n)

Talking(s) ==
  /\ Entries(s.waiting)
  /\ Entries(s.recent)
  /\ Answers(s.replies, s.stored)

\* A command takes the kernel onward and answers honestly.
Goes(s, t) ==
  /\ Sound(t)
  /\ Longer(s.log, t.log)
  /\ t.stored = s.stored
  /\ Talking(t)

LEMMA NoNumbers ==
  ASSUME NEW n
  PROVE  NumbersUpTo(<< >>, n) /\ Numbers(<< >>)
BY EmptyIsSeq DEF Numbers, NumbersUpTo

LEMMA OneNumber ==
  ASSUME NEW k \in Nat \ {0}
  PROVE  Numbers(<<k>>)
BY LonelyIsSeq DEF Numbers, Last

LEMMA LogLength ==
  ASSUME NEW s, Sound(s)
  PROVE  Len(s.log) \in Nat
BY SeqIsFunction DEF Sound, IsLog

LEMMA OnwardGoes ==
  ASSUME NEW s, Sound(s), Talking(s), NEW t, Onward(s, t)
  PROVE  Goes(s, t)
BY DEF Goes, Onward, Talking

LEMMA GoesIsTransitive ==
  ASSUME NEW s, Sound(s), NEW t, Goes(s, t), NEW u, Goes(t, u)
  PROVE  Goes(s, u)
<1>1. IsLog(s.log) /\ IsLog(t.log) /\ IsLog(u.log)
  BY DEF Sound, Goes
<1>2. Longer(s.log, t.log) /\ Longer(t.log, u.log)
  BY DEF Goes
<1>3. PICK a, b, c : a = s.log /\ b = t.log /\ c = u.log
  OBVIOUS
<1>4. Longer(a, c)
  BY <1>1, <1>2, <1>3, LongerIsTransitive
<1> QED
  BY <1>3, <1>4 DEF Goes

LEMMA InSeqs ==
  ASSUME NEW S, NEW f \in Seq(S)
  PROVE  IsSeq(f)
<1>1. Len(f) \in Nat /\ f \in [1..Len(f) -> S]
  BY LenProperties
<1>2. PICK n : n = Len(f)
  OBVIOUS
<1>3. f = [i \in 1..n |-> f[i]] /\ n \in Nat
  BY <1>1, <1>2
<1> QED
  BY <1>3, SeqOfLength

\* Each element of what is appended to was there or is the new one.
LEMMA AppendHolds ==
  ASSUME NEW f, IsSeq(f), NEW x
  PROVE  LET t == Append(f, x) IN
         IsSeq(t) /\ \A i \in 1..Len(t) : t[i] = x \/ \E j \in 1..Len(f) : t[i] = f[j]
<1>1. /\ IsSeq(Append(f, x)) /\ Len(Append(f, x)) = Len(f) + 1
      /\ \A i \in 1..Len(f) : Append(f, x)[i] = f[i]
      /\ Append(f, x)[Len(f) + 1] = x
  BY AppendIsSeq
<1>2. PICK n, t : n = Len(f) /\ t = Append(f, x)
  OBVIOUS
<1>3. n \in Nat
  BY <1>2, SeqIsFunction
<1>4. ASSUME NEW i \in 1..Len(t) PROVE t[i] = x \/ \E j \in 1..n : t[i] = f[j]
  <2>1. CASE i = n + 1
    BY <1>1, <1>2, <2>1
  <2>2. CASE i \in 1..n
    BY <1>1, <1>2, <2>2
  <2> QED
    BY <1>1, <1>2, <1>3, <2>1, <2>2
<1> QED
  BY <1>1, <1>2, <1>4

LEMMA TailHolds ==
  ASSUME NEW f, IsSeq(f), Len(f) > 0
  PROVE  LET t == Tail(f) IN
         IsSeq(t) /\ \A i \in 1..Len(t) : \E j \in 1..Len(f) : t[i] = f[j]
<1>1. f \in Seq(Range(f)) /\ f # << >>
  BY EmptySeq DEF IsSeq
<1>2. PICK n, t : n = Len(f) /\ t = Tail(f)
  OBVIOUS
<1>3. /\ t \in Seq(Range(f)) /\ Len(t) = n - 1
      /\ \A i \in 1..Len(t) : t[i] = f[i + 1]
  BY <1>1, <1>2, HeadTailProperties
<1>4. IsSeq(t)
  BY <1>3, InSeqs
<1>5. n \in Nat
  BY <1>2, SeqIsFunction
<1>6. ASSUME NEW i \in 1..Len(t) PROVE \E j \in 1..n : t[i] = f[j]
  <2>1. i + 1 \in 1..n
    BY <1>3, <1>5
  <2> QED
    BY <1>3, <2>1
<1> QED
  BY <1>2, <1>4, <1>6

LEMMA ConcatHolds ==
  ASSUME NEW f, IsSeq(f), NEW g, IsSeq(g)
  PROVE  LET t == f \o g IN
         IsSeq(t) /\ \A i \in 1..Len(t) : \/ \E j \in 1..Len(f) : t[i] = f[j]
                                         \/ \E j \in 1..Len(g) : t[i] = g[j]
<1>1. PICK S : S = Range(f) \union Range(g)
  OBVIOUS
<1>2. f \in Seq(S) /\ g \in Seq(S)
  BY <1>1, SeqMonotonic DEF IsSeq
<1>3. PICK m, n, t : m = Len(f) /\ n = Len(g) /\ t = f \o g
  OBVIOUS
<1>4. /\ t \in Seq(S) /\ Len(t) = m + n
      /\ \A i \in 1..(m + n) : t[i] = IF i <= m THEN f[i] ELSE g[i - m]
  BY <1>2, <1>3, ConcatProperties
<1>5. IsSeq(t)
  BY <1>4, InSeqs
<1>6. m \in Nat /\ n \in Nat
  BY <1>3, SeqIsFunction
<1>7. ASSUME NEW i \in 1..(m + n)
      PROVE  \/ \E j \in 1..m : t[i] = f[j]
             \/ \E j \in 1..n : t[i] = g[j]
  <2>1. CASE i <= m
    <3>1. i \in 1..m /\ t[i] = f[i]
      BY <1>4, <1>6, <2>1
    <3> QED
      BY <3>1
  <2>2. CASE ~(i <= m)
    <3>1. i - m \in 1..n /\ t[i] = g[i - m]
      BY <1>4, <1>6, <2>2
    <3> QED
      BY <3>1
  <2> QED
    BY <2>1, <2>2
<1> QED
  BY <1>3, <1>4, <1>5, <1>7

----------------------------------------------------------------------------
(***************************************************************************)
(* Answering.                                                              *)
(***************************************************************************)
\* What is remembered was remembered before, or is the new one.
LEMMA RememberHolds ==
  ASSUME NEW recent, IsSeq(recent), NEW id, NEW events
  PROVE  LET r == Remember(recent, id, events) IN
         /\ IsSeq(r)
         /\ \A i \in 1..Len(r) : \/ r[i].events = events
                                 \/ \E j \in 1..Len(recent) : r[i] = recent[j]
<1>1. DOMAIN recent = 1..Len(recent) /\ Len(recent) \in Nat
  BY SeqIsFunction
<1>2. CASE \E i \in DOMAIN recent : recent[i].id = id
  <2>1. PICK g : g = [i \in DOMAIN recent |-> IF recent[i].id = id
                                              THEN [id |-> id, events |-> events]
                                              ELSE recent[i]]
    OBVIOUS
  <2>2. Remember(recent, id, events) = g
    BY <1>2, <2>1 DEF Remember
  <2>3. g = [i \in DOMAIN recent |-> g[i]]
    BY <2>1
  <2>4. IsSeq(g) /\ Len(g) = Len(recent)
    BY <2>3, EachOf
  <2>5. ASSUME NEW i \in 1..Len(g)
        PROVE  g[i].events = events \/ \E j \in 1..Len(recent) : g[i] = recent[j]
    <3>1. i \in DOMAIN recent
      BY <1>1, <2>4
    <3>2. CASE recent[i].id = id
      BY <2>1, <3>1, <3>2
    <3>3. CASE recent[i].id # id
      <4>1. g[i] = recent[i]
        BY <2>1, <3>1, <3>3
      <4> QED
        BY <1>1, <3>1, <4>1
    <3> QED
      BY <3>2, <3>3
  <2> QED
    BY <2>2, <2>4, <2>5
<1>3. CASE ~\E i \in DOMAIN recent : recent[i].id = id
  <2>1. PICK x : x = [id |-> id, events |-> events]
    OBVIOUS
  <2>2. PICK longer : longer = Append(recent, x)
    OBVIOUS
  <2>3. Remember(recent, id, events) =
          IF Len(longer) > Capacity THEN Tail(longer) ELSE longer
    BY <1>3, <2>1, <2>2 DEF Remember
  <2>4. /\ IsSeq(longer)
        /\ \A i \in 1..Len(longer) :
             longer[i] = x \/ \E j \in 1..Len(recent) : longer[i] = recent[j]
    BY <2>2, AppendHolds
  <2>5. \A i \in 1..Len(longer) : \/ longer[i].events = events
                                   \/ \E j \in 1..Len(recent) : longer[i] = recent[j]
    BY <2>1, <2>4
  <2>6. CASE Len(longer) > Capacity
    <3>1. Len(longer) > 0
      <4>1. Len(longer) \in Nat
        BY <2>4, SeqIsFunction
      <4> QED
        BY <2>6, <4>1, KernelLimits
    <3>2. PICK t : t = Tail(longer)
      OBVIOUS
    <3>3. IsSeq(t) /\ \A i \in 1..Len(t) : \E j \in 1..Len(longer) : t[i] = longer[j]
      BY <2>4, <3>1, <3>2, TailHolds
    <3>4. \A i \in 1..Len(t) : \/ t[i].events = events
                               \/ \E j \in 1..Len(recent) : t[i] = recent[j]
      BY <2>5, <3>3
    <3> QED
      BY <2>3, <2>6, <3>2, <3>3, <3>4
  <2>7. CASE ~(Len(longer) > Capacity)
    BY <2>3, <2>4, <2>5, <2>7
  <2> QED
    BY <2>6, <2>7
<1> QED
  BY <1>2, <1>3

LEMMA RememberKeepsEntries ==
  ASSUME NEW recent, Entries(recent), NEW id, NEW events, Numbers(events)
  PROVE  Entries(Remember(recent, id, events))
<1>1. IsSeq(recent) /\ \A i \in 1..Len(recent) : Numbers(recent[i].events)
  BY DEF Entries
<1>2. PICK r : r = Remember(recent, id, events)
  OBVIOUS
<1>3. /\ IsSeq(r)
      /\ \A i \in 1..Len(r) : \/ r[i].events = events
                              \/ \E j \in 1..Len(recent) : r[i] = recent[j]
  BY <1>1, <1>2, RememberHolds
<1> QED
  BY <1>1, <1>2, <1>3 DEF Entries

LEMMA RememberKeepsRecalled ==
  ASSUME NEW recent, NEW n, Recalled(recent, n), NEW id, NEW events,
         NumbersUpTo(events, n)
  PROVE  Recalled(Remember(recent, id, events), n)
<1>1. IsSeq(recent) /\ \A i \in 1..Len(recent) : NumbersUpTo(recent[i].events, n)
  BY DEF Recalled
<1>2. PICK r : r = Remember(recent, id, events)
  OBVIOUS
<1>3. /\ IsSeq(r)
      /\ \A i \in 1..Len(r) : \/ r[i].events = events
                              \/ \E j \in 1..Len(recent) : r[i] = recent[j]
  BY <1>1, <1>2, RememberHolds
<1> QED
  BY <1>1, <1>2, <1>3 DEF Recalled

\* Only what commands are told changes.
LEMMA TalkGoes ==
  ASSUME NEW s, Sound(s), NEW t, Shapely(t), Talking(t),
         t.log = s.log, t.book = s.book, t.stored = s.stored
  PROVE  Goes(s, t)
BY LongerIsReflexive DEF Sound, Goes

LEMMA WaitingGoes ==
  ASSUME NEW s, Sound(s), Talking(s), NEW id, NEW events, Numbers(events),
         NEW recent, Entries(recent)
  PROVE  Goes(s, [s EXCEPT !.recent = recent,
                           !.waiting = Append(@, [id |-> id, events |-> events])])
<1>1. PICK x : x = [id |-> id, events |-> events]
  OBVIOUS
<1>2. PICK w : w = Append(s.waiting, x)
  OBVIOUS
<1>3. PICK t : t = [s EXCEPT !.recent = recent, !.waiting = w]
  OBVIOUS
<1>4. IsSeq(w) /\ \A i \in 1..Len(w) : w[i] = x \/ \E j \in 1..Len(s.waiting) : w[i] = s.waiting[j]
  BY <1>2, AppendHolds DEF Talking, Entries
<1>5. Entries(w)
  <2>1. x.events = events
    BY <1>1
  <2> QED
    BY <1>4, <2>1 DEF Talking, Entries
<1>6. /\ t.log = s.log /\ t.book = s.book /\ t.stored = s.stored
      /\ t.waiting = w /\ t.recent = recent /\ t.replies = s.replies
      /\ Shapely(t)
  BY <1>3 DEF Sound, Shapely, KernelFields
<1>7. Talking(t)
  BY <1>5, <1>6 DEF Talking
<1>8. Goes(s, t)
  BY <1>6, <1>7, TalkGoes
<1> QED
  BY <1>1, <1>2, <1>3, <1>8 DEF Sound, Shapely, KernelFields

LEMMA AcceptGoes ==
  ASSUME NEW s, Sound(s), Talking(s), NEW id, NEW events, Numbers(events)
  PROVE  Goes(s, Accept(s, id, events))
<1>1. PICK recent : recent = Remember(s.recent, id, events)
  OBVIOUS
<1>2. Entries(recent)
  BY <1>1, RememberKeepsEntries DEF Talking
<1>3. PICK x : x = [id |-> id, events |-> events]
  OBVIOUS
<1>4. Goes(s, [s EXCEPT !.recent = recent, !.waiting = Append(@, x)])
  BY <1>2, <1>3, WaitingGoes
<1> QED
  BY <1>1, <1>3, <1>4 DEF Accept, Sound, Shapely, KernelFields

LEMMA AnsweredGoes ==
  ASSUME NEW s, Sound(s), Talking(s), NEW x, x.ok => NumbersUpTo(x.events, s.stored)
  PROVE  Goes(s, [s EXCEPT !.replies = Append(@, x)])
<1>1. PICK r : r = Append(s.replies, x)
  OBVIOUS
<1>2. PICK t : t = [s EXCEPT !.replies = r]
  OBVIOUS
<1>3. IsSeq(r) /\ \A i \in 1..Len(r) : r[i] = x \/ \E j \in 1..Len(s.replies) : r[i] = s.replies[j]
  BY <1>1, AppendHolds DEF Talking, Answers
<1>4. Answers(r, s.stored)
  BY <1>3 DEF Talking, Answers
<1>5. /\ t.log = s.log /\ t.book = s.book /\ t.stored = s.stored
      /\ t.waiting = s.waiting /\ t.recent = s.recent /\ t.replies = r
      /\ Shapely(t)
  BY <1>2 DEF Sound, Shapely, KernelFields
<1>6. Talking(t)
  BY <1>4, <1>5 DEF Talking
<1>7. Goes(s, t)
  BY <1>5, <1>6, TalkGoes
<1> QED
  BY <1>1, <1>2, <1>7 DEF Sound, Shapely, KernelFields

LEMMA ReplyGoes ==
  ASSUME NEW s, Sound(s), Talking(s), NEW id, NEW events, NumbersUpTo(events, s.stored)
  PROVE  Goes(s, Reply(s, id, events))
<1>1. PICK x : x = [id |-> id, ok |-> TRUE, events |-> events]
  OBVIOUS
<1>2. x.ok => NumbersUpTo(x.events, s.stored)
  BY <1>1
<1> QED
  BY <1>1, <1>2, AnsweredGoes DEF Reply

LEMMA RejectGoes ==
  ASSUME NEW s, Sound(s), Talking(s), NEW id
  PROVE  Goes(s, Reject(s, id))
<1>1. PICK x : x = [id |-> id, ok |-> FALSE, events |-> << >>]
  OBVIOUS
<1>2. x.ok => NumbersUpTo(x.events, s.stored)
  BY <1>1
<1> QED
  BY <1>1, <1>2, AnsweredGoes DEF Reject

LEMMA AcceptEmptyGoes ==
  ASSUME NEW s, Sound(s), Talking(s), NEW id
  PROVE  Goes(s, AcceptEmpty(s, id))
<1>1. PICK recent : recent = Remember(s.recent, id, << >>)
  OBVIOUS
<1>2. Entries(recent)
  BY <1>1, RememberKeepsEntries, NoNumbers DEF Talking
<1>3. PICK t : t = [s EXCEPT !.recent = recent]
  OBVIOUS
<1>4. /\ t.log = s.log /\ t.book = s.book /\ t.stored = s.stored
      /\ t.waiting = s.waiting /\ t.recent = recent /\ t.replies = s.replies
      /\ Shapely(t)
  BY <1>3 DEF Sound, Shapely, KernelFields
<1>5. Talking(t)
  BY <1>2, <1>4 DEF Talking
<1>6. Goes(s, t)
  BY <1>4, <1>5, TalkGoes
<1>7. Goes(t, Reply(t, id, << >>))
  BY <1>5, <1>6, ReplyGoes, NoNumbers DEF Goes
<1>8. AcceptEmpty(s, id) = Reply(t, id, << >>)
  BY <1>1, <1>3 DEF AcceptEmpty, Sound, Shapely, KernelFields
<1> QED
  BY <1>6, <1>7, <1>8, GoesIsTransitive

\* What is numbered and on disk is numbered among what is on disk.
LEMMA NumbersStored ==
  ASSUME NEW s, Sound(s), NEW events, Numbers(events), IsStored(s, events)
  PROVE  NumbersUpTo(events, s.stored)
<1>1. CASE events = << >>
  BY <1>1, NoNumbers
<1>2. CASE Last(events) <= s.stored
  <2>1. Len(s.log) \in Nat /\ s.stored \in Nat
    BY LogLength DEF Sound
  <2>2. Len(events) \in Nat
    BY SeqIsFunction DEF Numbers
  <2>3. ASSUME NEW i \in 1..Len(events) PROVE events[i] <= s.stored
    <3>1. events[i] \in Nat /\ events[i] <= Last(events)
      BY DEF Numbers
    <3>2. Len(events) \in 1..Len(events)
      BY <2>2
    <3>3. Last(events) \in Nat
      BY <3>2 DEF Numbers, Last
    <3> QED
      BY <1>2, <2>1, <3>1, <3>3
  <2> QED
    BY <2>3 DEF NumbersUpTo
<1> QED
  BY <1>1, <1>2 DEF IsStored

LEMMA ReplyWhenStoredGoes ==
  ASSUME NEW s, Sound(s), Talking(s), NEW id, NEW events, Numbers(events)
  PROVE  Goes(s, ReplyWhenStored(s, id, events))
<1>1. CASE IsStored(s, events)
  BY <1>1, NumbersStored, ReplyGoes DEF ReplyWhenStored
<1>2. CASE ~IsStored(s, events)
  <2>1. PICK x : x = [id |-> id, events |-> events]
    OBVIOUS
  <2>2. Goes(s, [s EXCEPT !.recent = s.recent, !.waiting = Append(@, x)])
    BY <2>1, WaitingGoes DEF Talking
  <2>3. [s EXCEPT !.recent = s.recent, !.waiting = Append(@, x)] =
          [s EXCEPT !.waiting = Append(@, x)]
    BY DEF Sound, Shapely, KernelFields
  <2> QED
    BY <1>2, <2>1, <2>2, <2>3 DEF ReplyWhenStored
<1> QED
  BY <1>1, <1>2

\* The numbers of what was recorded since.
LEMMA SinceNumbers ==
  ASSUME NEW s, Sound(s), NEW t, Sound(t), Longer(s.log, t.log)
  PROVE  Numbers(Since(s, t))
<1>1. PICK m, n, k : m = Len(s.log) /\ n = Len(t.log) /\ k = n - m
  OBVIOUS
<1>2. m \in Nat /\ n \in Nat /\ m <= n /\ k \in Nat
  BY <1>1, LogLength DEF Longer
<1>3. PICK f : f = Since(s, t)
  OBVIOUS
<1>4. f = [i \in 1..k |-> m + i]
  BY <1>1, <1>3 DEF Since
<1>5. f = [i \in 1..k |-> f[i]]
  BY <1>4
<1>6. IsSeq(f) /\ Len(f) = k
  BY <1>2, <1>5, SeqOfLength
<1>7. ASSUME NEW i \in 1..k PROVE f[i] \in Nat \ {0} /\ f[i] <= f[k]
  <2>1. k \in 1..k
    BY <1>2
  <2>2. f[i] = m + i /\ f[k] = m + k
    BY <1>4, <2>1
  <2> QED
    BY <1>1, <1>2, <2>2
<1> QED
  BY <1>1, <1>3, <1>6, <1>7 DEF Numbers, Last

----------------------------------------------------------------------------
(***************************************************************************)
(* Commands.                                                               *)
(***************************************************************************)
\* What was done is accepted under the numbers of what was recorded.
LEMMA AcceptedGoes ==
  ASSUME NEW s, Sound(s), Talking(s), NEW t, Onward(s, t), NEW id
  PROVE  LET u == Accept(t, id, Since(s, t)) IN Goes(s, u) /\ Sound(u) /\ Talking(u)
<1>1. Goes(s, t) /\ Sound(t) /\ Talking(t)
  BY OnwardGoes DEF Goes
<1>2. PICK events : events = Since(s, t)
  OBVIOUS
<1>3. Numbers(events)
  BY <1>1, <1>2, SinceNumbers DEF Goes
<1>4. PICK u : u = Accept(t, id, events)
  OBVIOUS
<1>5. Goes(t, u)
  BY <1>1, <1>3, <1>4, AcceptGoes
<1> QED
  BY <1>1, <1>2, <1>4, <1>5, GoesIsTransitive DEF Goes

\* One event is recorded and accepted under its number.
LEMMA PutAcceptGoes ==
  ASSUME NEW s, Sound(s), Talking(s), NEW id, NEW body, Fine(body)
  PROVE  LET u == Accept(Put(s, id, body), id, <<s.book.next>>) IN
         Goes(s, u) /\ Sound(u) /\ Talking(u)
<1>1. PICK put : put = Put(s, id, body)
  OBVIOUS
<1>2. Goes(s, put) /\ Sound(put) /\ Talking(put)
  BY <1>1, PutOnward, OnwardGoes DEF Goes
<1>3. Numbers(<<s.book.next>>)
  <2>1. s.book.next \in Nat \ {0}
    <3>1. PICK l : l = s.log
      OBVIOUS
    <3>2. IsLog(l) /\ s.book = BookOf(l)
      BY <3>1 DEF Sound
    <3>3. BookOf(l).next = Len(l) + 1 /\ Len(l) \in Nat
      BY <3>2, BookOfLog, SeqIsFunction DEF IsLog
    <3> QED
      BY <3>2, <3>3
  <2> QED
    BY <2>1, OneNumber
<1>4. PICK events : events = <<s.book.next>>
  OBVIOUS
<1>5. PICK u : u = Accept(put, id, events)
  OBVIOUS
<1>6. Goes(put, u)
  BY <1>2, <1>3, <1>4, <1>5, AcceptGoes
<1> QED
  BY <1>1, <1>2, <1>4, <1>5, <1>6, GoesIsTransitive DEF Goes

\* After a command was answered, the kernel may still go onward.
LEMMA GoesOnward ==
  ASSUME NEW s, Sound(s), NEW t, Goes(s, t), NEW u, Onward(t, u)
  PROVE  Goes(s, u) /\ Sound(u) /\ Talking(u)
<1>1. Goes(t, u)
  BY OnwardGoes DEF Goes
<1> QED
  BY <1>1, GoesIsTransitive DEF Goes

LEMMA DoGoes ==
  ASSUME NEW s, Sound(s), NEW t, Goes(s, t), NEW actions
  PROVE  Goes(s, Do(t, actions))
<1>1. Onward(t, Do(t, actions))
  BY DoOnward DEF Goes
<1> QED
  BY <1>1, GoesOnward

LEMMA SendGoes ==
  ASSUME NEW s, Sound(s), Talking(s), NEW id, NEW urgent
  PROVE  /\ Goes(s, Send(s, id, urgent))
         /\ LET put == Accept(Put(s, id, [k |-> "message.user", ambient |-> FALSE]), id,
                              <<s.book.next>>)
            IN  Onward(put, Send(s, id, urgent))
<1> DEFINE seq == s.book.next
           body == [k |-> "message.user", ambient |-> FALSE]
           put == Accept(Put(s, id, body), id, <<seq>>)
           queued == [put EXCEPT !.turn.queued = Append(@, [seq |-> seq, cause |-> id])]
           voided == VoidWaiting(queued, id)
<1>11. Fine(body)
  BY DEF Fine
<1>1. Send(s, id, urgent) \in {OpenTurn(put, seq, id), Interject(voided, id), voided}
  BY DEF Send
<1> HIDE DEF body
<1>2. Goes(s, put) /\ Sound(put) /\ Talking(put)
  BY <1>11, PutAcceptGoes
<1> HIDE DEF put, seq
<1>3. Onward(put, OpenTurn(put, seq, id))
  BY <1>2, OpenTurnOnward
<1>4. Goes(s, OpenTurn(put, seq, id))
  BY <1>2, <1>3, GoesOnward
<1>5. Onward(put, queued)
  <2>1. PICK q : q = Append(put.turn.queued, [seq |-> seq, cause |-> id])
    OBVIOUS
  <2>2. PICK t : t = [put EXCEPT !.turn.queued = q]
    OBVIOUS
  <2>3. queued = t
    BY <1>2, <2>1, <2>2 DEF Sound, Shapely, KernelFields, TurnFields
  <2>4. /\ t.log = put.log /\ t.book = put.book /\ t.stored = put.stored
        /\ t.waiting = put.waiting /\ t.recent = put.recent /\ t.replies = put.replies
        /\ Shapely(t)
    BY <1>2, <2>2 DEF Sound, Shapely, KernelFields, TurnFields
  <2> QED
    BY <1>2, <2>3, <2>4, Aside
<1> HIDE DEF queued
<1>6. Goes(s, queued) /\ Sound(queued)
  BY <1>2, <1>5, GoesOnward
<1>7. Onward(queued, voided) /\ Sound(voided)
  BY <1>6, VoidWaitingOnward
<1> HIDE DEF voided
<1>8. Goes(s, voided)
  BY <1>6, <1>7, GoesOnward
<1>9. Onward(voided, Interject(voided, id))
  BY <1>7, InterjectOnward
<1>10. Goes(s, Interject(voided, id))
  BY <1>8, <1>9, GoesOnward
<1>12. Onward(put, voided) /\ Onward(put, Interject(voided, id))
  <2>1. Onward(put, voided)
    BY <1>2, <1>5, <1>7, OnwardIsTransitive
  <2> QED
    BY <1>2, <1>9, <2>1, OnwardIsTransitive
<1> QED
  BY <1>1, <1>3, <1>4, <1>8, <1>10, <1>12 DEF put, seq, body

LEMMA SetPermissionGoes ==
  ASSUME NEW s, Sound(s), Talking(s), NEW id, NEW change
  PROVE  /\ Goes(s, SetPermission(s, id, change))
         /\ LET new == [f \in DOMAIN s.perm |->
                          IF f \in DOMAIN change THEN change[f] ELSE s.perm[f]]
                put == Accept(Put(s, id, [k |-> "policy.changed", perm |-> new]), id,
                              <<s.book.next>>)
            IN  IF new = s.perm THEN SetPermission(s, id, change) = AcceptEmpty(s, id)
                                ELSE Onward(put, SetPermission(s, id, change))
<1>1. PICK new : new = [f \in DOMAIN s.perm |->
                          IF f \in DOMAIN change THEN change[f] ELSE s.perm[f]]
  OBVIOUS
<1>2. PICK body : body = [k |-> "policy.changed", perm |-> new]
  OBVIOUS
<1>3. PICK put : put = Accept(Put(s, id, body), id, <<s.book.next>>)
  OBVIOUS
<1>4. Goes(s, put) /\ Sound(put) /\ Talking(put)
  <2>1. Fine(body)
    BY <1>2 DEF Fine
  <2> QED
    BY <1>3, <2>1, PutAcceptGoes
<1>5. PICK changed : changed = [put EXCEPT !.perm = new, !.turn.refresh = ~Idle(s)]
  OBVIOUS
<1>6. Onward(put, changed)
  <2>1. /\ changed.log = put.log /\ changed.book = put.book /\ changed.stored = put.stored
        /\ changed.waiting = put.waiting /\ changed.recent = put.recent
        /\ changed.replies = put.replies
        /\ Shapely(changed)
    BY <1>4, <1>5 DEF Sound, Shapely, KernelFields, TurnFields
  <2> QED
    BY <1>4, <2>1, Aside
<1>7. Goes(s, changed) /\ Sound(changed)
  BY <1>4, <1>6, GoesOnward
<1>8. PICK tighter : tighter = TakeEffect(changed, new)
  OBVIOUS
<1>9. Onward(changed, tighter) /\ Sound(tighter)
  BY <1>7, <1>8, TakeEffectOnward
<1>10. Goes(s, tighter)
  BY <1>7, <1>9, GoesOnward
<1>11. Onward(tighter, RefreshFacts(tighter))
  BY <1>9, RefreshFactsOnward
<1>12. Goes(s, RefreshFacts(tighter))
  BY <1>10, <1>11, GoesOnward
<1>13. IF new = s.perm THEN SetPermission(s, id, change) = AcceptEmpty(s, id)
       ELSE SetPermission(s, id, change) \in {RefreshFacts(tighter), tighter}
  BY <1>1, <1>2, <1>3, <1>5, <1>8 DEF SetPermission
<1>14. Onward(put, tighter) /\ Onward(put, RefreshFacts(tighter))
  <2>1. Onward(put, tighter)
    BY <1>4, <1>6, <1>9, OnwardIsTransitive
  <2> QED
    BY <1>4, <1>11, <2>1, OnwardIsTransitive
<1> QED
  BY <1>1, <1>2, <1>3, <1>10, <1>12, <1>13, <1>14, AcceptEmptyGoes

\* The call a person has answered, with the number that must be on disk first.
LEMMA AnsweredCallStill ==
  ASSUME NEW s, Sound(s), NEW i, NEW state, NEW at
  PROVE  LET t == [SetState(s, i, state) EXCEPT !.turn.calls[i].at = at] IN
         Onward(s, t) /\ Sound(t)
<1>1. PICK t : t = SetState(s, i, state)
  OBVIOUS
<1>2. Onward(s, t) /\ Sound(t)
  BY <1>1, SetStateStill DEF Still
<1>3. PICK f : f = t.turn.calls
  OBVIOUS
<1>4. PICK g : g = [f EXCEPT ![i].at = at]
  OBVIOUS
<1>5. IsSeq(g)
  <2>1. IsSeq(f)
    BY <1>2, <1>3 DEF Sound, Shapely
  <2>2. g = [j \in DOMAIN f |-> g[j]]
    BY <1>4
  <2> QED
    BY <2>1, <2>2, EachOf
<1>6. PICK u : u = [t EXCEPT !.turn.calls = g]
  OBVIOUS
<1>7. Onward(t, u)
  <2>1. /\ u.log = t.log /\ u.book = t.book /\ u.stored = t.stored
        /\ u.waiting = t.waiting /\ u.recent = t.recent /\ u.replies = t.replies
        /\ Shapely(u)
    BY <1>2, <1>5, <1>6 DEF Sound, Shapely, KernelFields, TurnFields
  <2> QED
    BY <1>2, <2>1, Aside
<1>8. [t EXCEPT !.turn.calls[i].at = at] = u
  BY <1>2, <1>3, <1>4, <1>6 DEF Sound, Shapely, KernelFields, TurnFields
<1>9. Onward(s, u)
  BY <1>2, <1>7, OnwardIsTransitive
<1> QED
  BY <1>1, <1>8, <1>9 DEF Onward

LEMMA AnswerApprovalGoes ==
  ASSUME NEW s, Sound(s), Talking(s), NEW id, NEW call, NEW allow
  PROVE  /\ Goes(s, AnswerApproval(s, id, call, allow))
         /\ \/ AnswerApproval(s, id, call, allow) = Reject(s, id)
            \/ \E u, t : /\ Onward(s, u)
                          /\ Longer(Put(s, id, [k |-> "approval.decided",
                                               call |-> call]).log, u.log)
                          /\ At(s, call, {"asking"}) # {}
                          /\ t = Accept(u, id, Since(s, u))
                          /\ Onward(t, AnswerApproval(s, id, call, allow))
<1> DEFINE at == At(s, call, {"asking"})
           i == CHOOSE i \in at : TRUE
           seq == s.book.next
           body == [k |-> "approval.decided", call |-> call]
           decided == Put(s, id, body)
           approved == [SetState(decided, i, "approved") EXCEPT !.turn.calls[i].at = seq]
           denied == Put(SetState(decided, i, "done"), id, Result(call, "denied"))
           finished == IF Finished(denied.turn.calls) THEN FinishStep(denied, s.turn.cause)
                       ELSE denied
           after == IF allow THEN approved ELSE finished
           told == Accept(after, id, Since(s, after))
<1>1. AnswerApproval(s, id, call, allow) = IF at = {} THEN Reject(s, id) ELSE Dispatch(told)
  BY DEF AnswerApproval
<1>10. Fine(body)
  BY DEF Fine
<1> HIDE DEF i, seq, body, at
<1>2. Onward(s, decided) /\ Sound(decided)
  BY <1>10, PutOnward
<1> HIDE DEF decided
<1>3. Onward(decided, approved)
  BY <1>2, AnsweredCallStill
<1>4. Onward(decided, finished)
  BY <1>2, DoneOnward, ResultIsFine
<1> HIDE DEF approved, finished, denied
<1>5. Onward(s, approved) /\ Onward(s, finished)
  BY <1>2, <1>3, <1>4, OnwardIsTransitive
<1>6. Onward(s, after) /\ Longer(decided.log, after.log)
  BY <1>3, <1>4, <1>5 DEF Onward
<1> HIDE DEF after
<1>7. Goes(s, told) /\ Sound(told)
  BY <1>6, AcceptedGoes
<1> HIDE DEF told
<1>8. Onward(told, Dispatch(told))
  BY <1>7, DispatchStill DEF Still
<1>9. Goes(s, Dispatch(told))
  BY <1>7, <1>8, GoesOnward
<1>11. CASE at = {}
  BY <1>1, <1>11, RejectGoes
<1>12. CASE at # {}
  <2>1. told = Accept(after, id, Since(s, after))
    BY DEF told
  <2>2. decided = Put(s, id, [k |-> "approval.decided", call |-> call])
    BY DEF decided, body
  <2>3. At(s, call, {"asking"}) # {}
    BY <1>12 DEF at
  <2> QED
    BY <1>1, <1>6, <1>8, <1>9, <1>12, <2>1, <2>2, <2>3
<1> QED
  BY <1>11, <1>12

LEMMA AnswerQuestionGoes ==
  ASSUME NEW s, Sound(s), Talking(s), NEW id, NEW call
  PROVE  /\ Goes(s, AnswerQuestion(s, id, call))
         /\ \/ AnswerQuestion(s, id, call) = Reject(s, id)
            \/ \E u : /\ Onward(s, u)
                       /\ Longer(Put(s, id, [k |-> "question.answered",
                                            call |-> call]).log, u.log)
                       /\ At(s, call, {"questioning"}) # {}
                       /\ AnswerQuestion(s, id, call) = Accept(u, id, <<s.book.next>>)
<1> DEFINE at == At(s, call, {"questioning"})
           i == CHOOSE i \in at : TRUE
           seq == s.book.next
           body == [k |-> "question.answered", call |-> call]
           put == Put(s, id, body)
           answered == [SetState(put, i, "answered") EXCEPT !.turn.calls[i].at = seq]
           told == Accept(answered, id, <<seq>>)
<1>1. AnswerQuestion(s, id, call) = IF at = {} THEN Reject(s, id) ELSE told
  BY DEF AnswerQuestion
<1>2. Numbers(<<seq>>)
  <2>1. PICK l : l = s.log
    OBVIOUS
  <2>2. IsLog(l) /\ s.book = BookOf(l)
    BY <2>1 DEF Sound
  <2>3. BookOf(l).next = Len(l) + 1 /\ Len(l) \in Nat
    BY <2>2, BookOfLog, SeqIsFunction DEF IsLog
  <2>4. seq \in Nat \ {0}
    BY <2>2, <2>3
  <2> QED
    BY <2>4, OneNumber
<1>8. Fine(body)
  BY DEF Fine
<1> HIDE DEF i, seq, body, at
<1>3. Onward(s, put) /\ Sound(put)
  BY <1>8, PutOnward
<1> HIDE DEF put
<1>4. Onward(put, answered)
  BY <1>3, AnsweredCallStill
<1> HIDE DEF answered
<1>5. Goes(s, answered) /\ Sound(answered) /\ Talking(answered)
  <2>1. Onward(s, answered)
    BY <1>3, <1>4, OnwardIsTransitive
  <2> QED
    BY <2>1, OnwardGoes DEF Goes
<1>6. Goes(answered, told)
  <2>1. PICK events : events = <<seq>>
    OBVIOUS
  <2> QED
    BY <1>2, <1>5, <2>1, AcceptGoes
<1> HIDE DEF told
<1>7. Goes(s, told)
  BY <1>5, <1>6, GoesIsTransitive
<1>9. CASE at = {}
  BY <1>1, <1>9, RejectGoes
<1>10. CASE at # {}
  <2>1. told = Accept(answered, id, <<s.book.next>>)
    BY DEF told, seq
  <2>2. put = Put(s, id, [k |-> "question.answered", call |-> call])
    BY DEF put, body
  <2>3. At(s, call, {"questioning"}) # {}
    BY <1>10 DEF at
  <2>4. Onward(s, answered) /\ Longer(put.log, answered.log)
    BY <1>3, <1>4, OnwardIsTransitive DEF Onward
  <2> QED
    BY <1>1, <1>7, <1>10, <2>1, <2>2, <2>3, <2>4
<1> QED
  BY <1>9, <1>10

LEMMA WaitForStoppingGoes ==
  ASSUME NEW s, Sound(s), Talking(s), NEW t, Onward(s, t), NEW id,
         NEW queued \in Queueings
  PROVE  Goes(s, WaitForStopping(s, t, id, queued))
<1>1. PICK waiting : waiting = [t EXCEPT !.turn.intr =
                                  [cause |-> id, queued |-> queued, wake |-> t.turn.mark]]
  OBVIOUS
<1>2. PICK events : events = Since(s, t)
  OBVIOUS
<1>3. Sound(t)
  BY DEF Onward
<1>4. Onward(t, waiting) /\ Sound(waiting)
  <2>1. /\ waiting.log = t.log /\ waiting.book = t.book /\ waiting.stored = t.stored
        /\ waiting.waiting = t.waiting /\ waiting.recent = t.recent
        /\ waiting.replies = t.replies
        /\ Shapely(waiting)
    BY <1>1, <1>3 DEF Sound, Shapely, KernelFields, TurnFields
  <2> QED
    BY <1>3, <2>1, Aside DEF Onward
<1>5. Goes(s, waiting) /\ Talking(waiting)
  <2>1. Onward(s, waiting)
    BY <1>4, OnwardIsTransitive
  <2> QED
    BY <2>1, OnwardGoes DEF Goes
<1>6. Numbers(events)
  BY <1>2, <1>3, SinceNumbers DEF Onward
<1>7. Goes(s, AcceptEmpty(waiting, id)) /\ Goes(s, Accept(waiting, id, events))
  <2>1. Goes(waiting, AcceptEmpty(waiting, id)) /\ Goes(waiting, Accept(waiting, id, events))
    BY <1>4, <1>5, <1>6, AcceptEmptyGoes, AcceptGoes
  <2> QED
    BY <1>5, <2>1, GoesIsTransitive
<1>8. PICK told : told = IF events = << >> THEN AcceptEmpty(waiting, id)
                                           ELSE Accept(waiting, id, events)
  OBVIOUS
<1>9. Goes(s, told)
  BY <1>7, <1>8
<1>10. PICK actions : actions = {[a |-> "Wake", seen |-> t.turn.mark]}
  OBVIOUS
<1>11. Goes(s, Do(told, actions))
  BY <1>9, DoGoes
<1> QED
  BY <1>1, <1>2, <1>8, <1>10, <1>11 DEF WaitForStopping

LEMMA InterruptGoes ==
  ASSUME NEW s, Sound(s), Talking(s), NEW id, NEW queued \in Queueings,
         NEW received, IsSeq(received.calls)
  PROVE  Goes(s, Interrupt(s, id, queued, received))
<1> DEFINE accepted(t) == Accept(t, id, Since(s, t))
           taken == [s EXCEPT !.turn.stage = "settling", !.turn.calls = << >>]
           cut == Settle(taken, s.turn.mark, s.turn.cause, received, TRUE)
           h == [i \in DOMAIN cut.calls |-> Result(cut.calls[i].id, "before")]
           cancelled == PutEach(cut.s, id, h)
           step == CancelStep(s, id)
           closed == CloseInterrupted(cancelled, id, queued)
           stop == {[a |-> "CancelModel", seen |-> s.turn.mark]}
<1>1. Interrupt(s, id, queued, received) \in
        {Reject(s, id), accepted(ForceStop(s, id, queued)), Do(accepted(closed), stop),
         WaitForStopping(s, step, id, queued), accepted(CloseInterrupted(step, id, queued)),
         accepted(CloseInterrupted(taken, id, queued))}
  BY DEF Interrupt
<1>2. Onward(s, taken) /\ Sound(taken)
  <2>1. /\ taken.log = s.log /\ taken.book = s.book /\ taken.stored = s.stored
        /\ taken.waiting = s.waiting /\ taken.recent = s.recent
        /\ taken.replies = s.replies
        /\ Shapely(taken)
    BY EmptyIsSeq DEF Sound, Shapely, KernelFields, TurnFields
  <2> HIDE DEF taken
  <2> QED
    BY <2>1, Aside DEF Onward
<1> HIDE DEF taken, stop
<1>3. Onward(taken, cut.s) /\ Sound(cut.s) /\ IsSeq(cut.calls)
  <2>1. PICK mark, cause : mark = s.turn.mark /\ cause = s.turn.cause
    OBVIOUS
  <2> QED
    BY <1>2, <2>1, SettleOnward
<1> HIDE DEF cut
<1>4. Bodies(h)
  <2>1. /\ h = [i \in DOMAIN cut.calls |-> h[i]]
        /\ \A i \in DOMAIN cut.calls : \E call, why : h[i] = Result(call, why)
    OBVIOUS
  <2> HIDE DEF h
  <2> QED
    BY <1>3, <2>1, ResultsAreBodies
<1> HIDE DEF h
<1>5. Onward(cut.s, cancelled) /\ Sound(cancelled)
  BY <1>3, <1>4, PutEachOnward
<1> HIDE DEF cancelled
<1>6. Onward(cancelled, closed)
  BY <1>5, CloseInterruptedOnward
<1> HIDE DEF closed
<1>7. Onward(s, cut.s)
  BY <1>2, <1>3, OnwardIsTransitive
<1>8. Onward(s, cancelled)
  BY <1>3, <1>5, <1>7, OnwardIsTransitive
<1>9. Onward(s, closed)
  BY <1>5, <1>6, <1>8, OnwardIsTransitive
<1>10. Onward(s, step) /\ Sound(step)
  BY CancelStepOnward
<1> HIDE DEF step
<1>11. /\ Onward(s, CloseInterrupted(step, id, queued))
       /\ Onward(s, CloseInterrupted(taken, id, queued))
       /\ Onward(s, ForceStop(s, id, queued))
  <2>1. /\ Onward(step, CloseInterrupted(step, id, queued))
        /\ Onward(taken, CloseInterrupted(taken, id, queued))
    BY <1>2, <1>10, CloseInterruptedOnward
  <2> QED
    BY <1>2, <1>10, <2>1, ForceStopOnward, OnwardIsTransitive
<1>12. /\ Goes(s, accepted(closed))
       /\ Goes(s, accepted(CloseInterrupted(step, id, queued)))
       /\ Goes(s, accepted(CloseInterrupted(taken, id, queued)))
       /\ Goes(s, accepted(ForceStop(s, id, queued)))
  BY <1>9, <1>11, AcceptedGoes
<1>13. Goes(s, Do(accepted(closed), stop))
  <2>1. PICK t : t = accepted(closed)
    OBVIOUS
  <2> QED
    BY <1>12, <2>1, DoGoes
<1>14. Goes(s, WaitForStopping(s, step, id, queued)) /\ Goes(s, Reject(s, id))
  BY <1>10, WaitForStoppingGoes, RejectGoes
<1> HIDE DEF accepted
<1> QED
  BY <1>1, <1>12, <1>13, <1>14

\* What a command may ask for.
Asks(op) ==
  /\ op.op \in {"send", "interrupt", "permission", "approve", "answer"}
  /\ op.op = "interrupt" => op.queued \in Queueings

LEMMA ReceiveGoes ==
  ASSUME NEW s, Sound(s), Talking(s), NEW id, NEW op, Asks(op), NEW call,
         NEW received, IsSeq(received.calls)
  PROVE  Goes(s, Receive(s, id, op, call, received))
<1> DEFINE known == {i \in DOMAIN s.recent : s.recent[i].id = id}
           k == CHOOSE i \in known : TRUE
<1>1. CASE known # {}
  <2>1. k \in known
    BY <1>1
  <2>2. k \in 1..Len(s.recent)
    BY <2>1, SeqIsFunction DEF Talking, Entries
  <2>3. PICK events : events = s.recent[k].events
    OBVIOUS
  <2>4. Numbers(events)
    BY <2>2, <2>3 DEF Talking, Entries
  <2>5. Receive(s, id, op, call, received) = ReplyWhenStored(s, id, events)
    BY <1>1, <2>3 DEF Receive
  <2> QED
    BY <2>4, <2>5, ReplyWhenStoredGoes
<1>2. CASE known = {}
  <2>1. Receive(s, id, op, call, received) =
          CASE op.op = "send"       -> Send(s, id, op.urgent)
            [] op.op = "interrupt"  -> Interrupt(s, id, op.queued, received)
            [] op.op = "permission" -> SetPermission(s, id, op.change)
            [] op.op = "approve"    -> AnswerApproval(s, id, call, op.allow)
            [] op.op = "answer"     -> AnswerQuestion(s, id, call)
    BY <1>2 DEF Receive
  <2> HIDE DEF known, k
  <2>2. CASE op.op = "send"
    <3>1. Receive(s, id, op, call, received) = Send(s, id, op.urgent)
      BY <2>1, <2>2
    <3> QED
      BY <3>1, SendGoes
  <2>3. CASE op.op = "interrupt"
    <3>1. Receive(s, id, op, call, received) = Interrupt(s, id, op.queued, received)
      BY <2>1, <2>3
    <3>2. PICK queued : queued = op.queued
      OBVIOUS
    <3>3. queued \in Queueings
      BY <2>3, <3>2 DEF Asks
    <3> QED
      BY <3>1, <3>2, <3>3, InterruptGoes
  <2>4. CASE op.op = "permission"
    <3>1. Receive(s, id, op, call, received) = SetPermission(s, id, op.change)
      BY <2>1, <2>4
    <3> QED
      BY <3>1, SetPermissionGoes
  <2>5. CASE op.op = "approve"
    <3>1. Receive(s, id, op, call, received) = AnswerApproval(s, id, call, op.allow)
      BY <2>1, <2>5
    <3> QED
      BY <3>1, AnswerApprovalGoes
  <2>6. CASE op.op = "answer"
    <3>1. Receive(s, id, op, call, received) = AnswerQuestion(s, id, call)
      BY <2>1, <2>6
    <3> QED
      BY <3>1, AnswerQuestionGoes
  <2> QED
    BY <2>2, <2>3, <2>4, <2>5, <2>6 DEF Asks
<1> QED
  BY <1>1, <1>2

----------------------------------------------------------------------------
(***************************************************************************)
(* The disk.                                                               *)
(***************************************************************************)
\* Whose events are now on disk is told and no longer waits.
NowTold(s, t, upto) ==
  \E ready, answers :
    /\ ready = {i \in DOMAIN s.waiting :
                  IsStored([s EXCEPT !.stored = upto], s.waiting[i].events)}
    /\ answers = [i \in DOMAIN s.waiting |->
                    [id |-> s.waiting[i].id, ok |-> TRUE, events |-> s.waiting[i].events]]
    /\ t.waiting = Picked(s.waiting, DOMAIN s.waiting \ ready)
    /\ t.replies = s.replies \o Picked(answers, ready)

\* A batch is on disk: nothing is recorded, what waited for it is answered.
LEMMA StoredGoes ==
  ASSUME NEW s, Sound(s), Talking(s), NEW upto \in Nat, upto <= Len(s.log)
  PROVE  LET t == Stored(s, upto) IN
         /\ Sound(t) /\ Talking(t) /\ t.log = s.log /\ t.recent = s.recent
         /\ t.stored = IF upto <= s.stored THEN s.stored ELSE upto
         /\ upto <= s.stored => t.waiting = s.waiting /\ t.replies = s.replies
         /\ upto > s.stored => NowTold(s, t, upto)
<1>0. s.stored \in Nat
  BY LogLength DEF Sound
<1>1. CASE upto <= s.stored
  BY <1>0, <1>1 DEF Stored
<1>2. CASE ~(upto <= s.stored)
  <2> DEFINE landed == [s EXCEPT !.stored = upto]
             ready == {i \in DOMAIN s.waiting : IsStored(landed, s.waiting[i].events)}
             answers == [i \in DOMAIN s.waiting |->
                           [id |-> s.waiting[i].id, ok |-> TRUE,
                            events |-> s.waiting[i].events]]
             closed == {i \in DOMAIN s.closing : s.closing[i].ended <= upto}
             left == Picked(s.waiting, DOMAIN s.waiting \ ready)
             told == Picked(answers, ready)
             said == [landed EXCEPT
                        !.waiting = left,
                        !.replies = s.replies \o told,
                        !.closing = Picked(s.closing, DOMAIN s.closing \ closed)]
             actions == {[a |-> "Push", from |-> s.stored + 1, upto |-> upto]}
                \union {[a |-> "RunTurnEndHooks", turn |-> s.closing[i].turn] : i \in closed}
  <2>1. Stored(s, upto) = Advance(Do(said, actions))
    <3>1. /\ landed.waiting = s.waiting /\ landed.replies = s.replies
          /\ landed.closing = s.closing
      BY DEF Sound, Shapely, KernelFields
    <3>2. DOMAIN landed = KernelFields
      BY DEF Sound, Shapely
    <3> DEFINE raw == [landed EXCEPT
                         !.waiting = Picked(@, DOMAIN @ \ ready),
                         !.replies = @ \o Picked(answers, ready),
                         !.closing = Picked(@, DOMAIN @ \ closed)]
    <3>3. Stored(s, upto) = Advance(Do(raw, actions))
      BY <1>2 DEF Stored
    <3> HIDE DEF landed, ready, answers, closed
    <3>4. raw = said
      BY <3>1, <3>2 DEF KernelFields
    <3> HIDE DEF raw, said, actions
    <3> QED
      BY <3>3, <3>4
  <2>2. IsSeq(s.waiting) /\ \A i \in DOMAIN s.waiting : Numbers(s.waiting[i].events)
    BY SeqIsFunction DEF Talking, Entries
  <2>3. Sound(landed)
    <3>1. PICK t : t = landed
      OBVIOUS
    <3>2. /\ t.log = s.log /\ t.book = s.book /\ t.stored = upto /\ Shapely(t)
      BY <3>1 DEF Sound, Shapely, KernelFields
    <3>3. upto \in 0..Len(s.log)
      BY LogLength
    <3>4. Sound(t)
      BY <3>2, <3>3 DEF Sound
    <3> QED
      BY <3>1, <3>4
  <2>4. landed.stored = upto /\ landed.log = s.log /\ landed.book = s.book
        /\ landed.recent = s.recent /\ DOMAIN landed = KernelFields
    BY DEF Sound, Shapely, KernelFields
  <2> HIDE DEF landed
  <2>5. ready \in SUBSET (DOMAIN s.waiting)
        /\ DOMAIN s.waiting \ ready \in SUBSET (DOMAIN s.waiting)
    OBVIOUS
  <2>6. \A i \in ready : NumbersUpTo(s.waiting[i].events, upto)
    BY <2>2, <2>3, <2>4, NumbersStored
  <2> HIDE DEF ready
  <2>7. IsSeq(answers) /\ DOMAIN answers = DOMAIN s.waiting
    <3>1. answers = [i \in DOMAIN s.waiting |-> answers[i]]
      OBVIOUS
    <3> HIDE DEF answers
    <3> QED
      BY <2>2, <3>1, EachOf
  <2>8. \A i \in ready : NumbersUpTo(answers[i].events, upto)
    BY <2>5, <2>6
  <2> HIDE DEF answers
  <2>9. IsSeq(told) /\ \A i \in 1..Len(told) : \E j \in ready : told[i] = answers[j]
    BY <2>5, <2>7, PickedHolds
  <2>10. IsSeq(left) /\ \A i \in 1..Len(left) : \E j \in DOMAIN s.waiting : left[i] = s.waiting[j]
    <3>1. PICK w, at : w = s.waiting /\ at = DOMAIN s.waiting \ ready
      OBVIOUS
    <3>2. IsSeq(w) /\ at \in SUBSET (DOMAIN w)
      BY <2>2, <3>1
    <3>3. IsSeq(Picked(w, at))
          /\ \A i \in 1..Len(Picked(w, at)) : \E j \in at : Picked(w, at)[i] = w[j]
      BY <3>2, PickedHolds
    <3> QED
      BY <3>1, <3>3
  <2> HIDE DEF told, left, actions
  <2>11. Entries(left)
    BY <2>2, <2>10 DEF Entries
  <2>12. Answers(s.replies, upto)
    <3>1. s.stored \in Nat
      BY LogLength DEF Sound
    <3>2. ASSUME NEW i \in 1..Len(s.replies), s.replies[i].ok
          PROVE  NumbersUpTo(s.replies[i].events, upto)
      <4>1. NumbersUpTo(s.replies[i].events, s.stored)
        BY <3>2 DEF Talking, Answers
      <4> QED
        BY <1>2, <3>1, <4>1 DEF NumbersUpTo, Numbers
    <3> QED
      BY <3>2 DEF Talking, Answers
  <2>13. Answers(s.replies \o told, upto)
    <3>1. PICK r : r = s.replies
      OBVIOUS
    <3>2. PICK t : t = r \o told
      OBVIOUS
    <3>3. IsSeq(r)
      BY <3>1 DEF Talking, Answers
    <3>4. IsSeq(t) /\ \A i \in 1..Len(t) : \/ \E j \in 1..Len(r) : t[i] = r[j]
                                           \/ \E j \in 1..Len(told) : t[i] = told[j]
      <4>1. IsSeq(told)
        BY <2>9
      <4>2. IsSeq(r \o told)
            /\ \A i \in 1..Len(r \o told) :
                 \/ \E j \in 1..Len(r) : (r \o told)[i] = r[j]
                 \/ \E j \in 1..Len(told) : (r \o told)[i] = told[j]
        BY <3>3, <4>1, ConcatHolds
      <4> QED
        BY <3>2, <4>2
    <3>5. Answers(t, upto)
      BY <2>8, <2>9, <2>12, <3>1, <3>4 DEF Answers
    <3> QED
      BY <3>1, <3>2, <3>5
  <2>14. /\ said.log = s.log /\ said.book = s.book /\ said.stored = upto
         /\ said.recent = s.recent /\ said.waiting = left
         /\ said.replies = s.replies \o told /\ DOMAIN said = KernelFields
         /\ said.turn = landed.turn
    BY <2>4 DEF KernelFields
  <2> HIDE DEF said
  <2>15. Sound(said) /\ Talking(said)
    BY <2>3, <2>4, <2>11, <2>13, <2>14 DEF Sound, Shapely, Talking
  <2>16. PICK d : d = Do(said, actions)
    OBVIOUS
  <2>17. Still(said, d)
    <3>1. /\ d.log = said.log /\ d.book = said.book /\ d.stored = said.stored
          /\ d.waiting = said.waiting /\ d.recent = said.recent /\ d.replies = said.replies
          /\ Shapely(d)
      BY <2>15, <2>16 DEF Sound, Shapely, KernelFields, Do
    <3> QED
      BY <2>15, <3>1, StillAside
  <2>18. Still(d, Advance(d))
    BY <2>17, AdvanceStill DEF Still
  <2>19. PICK t : t = Advance(d)
    OBVIOUS
  <2>20. Onward(said, t)
    BY <2>15, <2>17, <2>18, <2>19, OnwardIsTransitive DEF Still
  <2>21. Goes(said, t)
    BY <2>15, <2>20, OnwardGoes
  <2>22. t.waiting = left /\ t.replies = s.replies \o told /\ t.recent = s.recent
    BY <2>14, <2>20 DEF Onward
  <2>23. NowTold(s, t, upto)
    BY <2>22 DEF NowTold, left, told, ready, answers, landed
  <2> QED
    BY <1>2, <2>1, <2>14, <2>16, <2>17, <2>18, <2>19, <2>21, <2>22, <2>23 DEF Goes, Still
<1> QED
  BY <1>1, <1>2

----------------------------------------------------------------------------
(***************************************************************************)
(* Stopping on purpose, and loading.                                       *)
(***************************************************************************)
LEMMA RestartOnward ==
  ASSUME NEW s, Sound(s), NEW received, IsSeq(received.calls)
  PROVE  Onward(s, Restart(s, received))
<1> DEFINE started == [s EXCEPT !.restarting = TRUE]
           stopped == ForceStopAsBefore(started)
           turn == stopped.turn
           taken == [stopped EXCEPT !.turn.stage = "settling", !.turn.calls = << >>]
           undone == {i \in DOMAIN turn.calls : turn.calls[i].state # "done"}
           cut == Settle(taken, turn.mark, turn.cause, received, TRUE)
           asking == turn.stage = "asking"
           base == IF asking THEN cut.s ELSE taken
           unfinished == IF asking THEN cut.calls ELSE Picked(turn.calls, undone)
           h == [i \in DOMAIN unfinished |-> Result(unfinished[i].id, "restarted")]
           settled == PutEach(base, turn.cause, h)
           ended == EndTurn(settled, turn.cause, "restarted")
           stops == IF asking THEN {[a |-> "CancelModel", seen |-> turn.mark]}
                    ELSE {[a |-> "CancelTool", call |-> turn.calls[i].id] :
                            i \in {j \in DOMAIN turn.calls : Executing(turn.calls[j])}}
<1>1. Restart(s, received) \in {stopped, Do(ended, stops)}
  BY DEF Restart
<1>2. Onward(s, started) /\ Sound(started)
  <2>1. /\ started.log = s.log /\ started.book = s.book /\ started.stored = s.stored
        /\ started.waiting = s.waiting /\ started.recent = s.recent
        /\ started.replies = s.replies
        /\ Shapely(started)
    BY DEF Sound, Shapely, KernelFields
  <2> HIDE DEF started
  <2> QED
    BY <2>1, Aside DEF Onward
<1> HIDE DEF started, stops
<1>3. Onward(started, stopped) /\ Sound(stopped)
  BY <1>2, ForceStopAsBeforeOnward
<1> HIDE DEF stopped
<1>4. Onward(stopped, taken) /\ Sound(taken)
  <2>1. /\ taken.log = stopped.log /\ taken.book = stopped.book
        /\ taken.stored = stopped.stored /\ taken.waiting = stopped.waiting
        /\ taken.recent = stopped.recent /\ taken.replies = stopped.replies
        /\ Shapely(taken)
    BY <1>3, EmptyIsSeq DEF Sound, Shapely, KernelFields, TurnFields
  <2> HIDE DEF taken
  <2> QED
    BY <1>3, <2>1, Aside DEF Onward
<1> HIDE DEF taken
<1>5. Onward(taken, cut.s) /\ Sound(cut.s) /\ IsSeq(cut.calls)
  <2>1. PICK mark, cause : mark = turn.mark /\ cause = turn.cause
    OBVIOUS
  <2> HIDE DEF turn
  <2> QED
    BY <1>4, <2>1, SettleOnward
<1> HIDE DEF cut
<1>6. IsSeq(Picked(turn.calls, undone))
  <2>1. IsSeq(turn.calls) /\ undone \in SUBSET (DOMAIN turn.calls)
    BY <1>3 DEF Sound, Shapely
  <2> HIDE DEF undone
  <2> QED
    BY <2>1, PickedIs
<1> HIDE DEF undone, turn, asking
<1>7. Onward(taken, base) /\ Sound(base) /\ IsSeq(unfinished)
  BY <1>4, <1>5, <1>6, OnwardIsReflexive
<1> HIDE DEF base, unfinished
<1>8. Bodies(h)
  <2>1. /\ h = [i \in DOMAIN unfinished |-> h[i]]
        /\ \A i \in DOMAIN unfinished : \E call, why : h[i] = Result(call, why)
    OBVIOUS
  <2> HIDE DEF h
  <2> QED
    BY <1>7, <2>1, ResultsAreBodies
<1> HIDE DEF h
<1>9. Onward(base, settled) /\ Sound(settled)
  BY <1>7, <1>8, PutEachOnward
<1> HIDE DEF settled
<1>10. Onward(settled, ended) /\ Sound(ended)
  BY <1>9, EndTurnOnward
<1> HIDE DEF ended
<1>11. Onward(ended, Do(ended, stops))
  BY <1>10, DoOnward
<1>12. Onward(s, stopped)
  BY <1>2, <1>3, OnwardIsTransitive
<1>13. Onward(s, taken)
  BY <1>3, <1>4, <1>12, OnwardIsTransitive
<1>14. Onward(s, base)
  BY <1>4, <1>7, <1>13, OnwardIsTransitive
<1>15. Onward(s, settled)
  BY <1>7, <1>9, <1>14, OnwardIsTransitive
<1>16. Onward(s, ended)
  BY <1>9, <1>10, <1>15, OnwardIsTransitive
<1>17. Onward(s, Do(ended, stops))
  BY <1>10, <1>11, <1>16, OnwardIsTransitive
<1> QED
  BY <1>1, <1>12, <1>17

\* The reply the book names is one, and calls without a result are somebody's.
LEMMA LastReplyOfLog ==
  ASSUME NEW l, IsLog(l)
  PROVE  /\ BookOf(l).lastReply \in 0..Len(l)
         /\ BookOf(l).lastReply # 0 => l[BookOf(l).lastReply].k = "message.assistant"
         /\ BookOf(l).pending # {} => BookOf(l).lastReply # 0
<1>1. PICK v : /\ v[0] = EmptyBook /\ BookOf(l) = v[Len(l)]
               /\ \A k \in 1..Len(l) : v[k] = Record(v[k - 1], l[k])
  BY BookChain DEF IsLog
<1> DEFINE n == Len(l)
           A == {k \in 0..n :
                   /\ Shaped(v[k])
                   /\ v[k].lastReply \in 0..k
                   /\ v[k].lastReply # 0 => l[v[k].lastReply].k = "message.assistant"
                   /\ v[k].pending # {} => v[k].lastReply # 0}
<1>2. n \in Nat
  BY SeqIsFunction DEF IsLog
<1>3. 0 \in A
  BY <1>1, <1>2 DEF EmptyBook, Shaped, Fields
<1>4. ASSUME NEW k \in 1..n, k - 1 \in A PROVE k \in A
  <2>1. PICK b, e, r : b = v[k - 1] /\ e = l[k] /\ r = Record(b, e)
    OBVIOUS
  <2>2. v[k] = r /\ e.seq = k /\ k \in 0..n
    BY <1>1, <1>2, <2>1 DEF IsLog, IsEvent
  <2>3. /\ Shaped(b) /\ b.lastReply \in 0..(k - 1)
        /\ b.lastReply # 0 => l[b.lastReply].k = "message.assistant"
        /\ b.pending # {} => b.lastReply # 0
    BY <1>4, <2>1
  <2>4. /\ Shaped(r)
        /\ r.lastReply = IF e.k = "message.assistant" THEN e.seq ELSE b.lastReply
    BY <2>1, <2>3, RecordNumbers
  <2>5. r.pending = IF e.k = "message.assistant" THEN b.pending \union Range(e.calls)
                    ELSE IF e.k = "tool.result" THEN b.pending \ {e.call} ELSE b.pending
    <3>1. Record(b, e).pending =
            IF e.k = "message.assistant" THEN b.pending \union Range(e.calls)
            ELSE IF e.k = "tool.result" THEN b.pending \ {e.call} ELSE b.pending
      BY <2>3, RecordPending
    <3> QED
      BY <2>1, <3>1
  <2>6. CASE e.k = "message.assistant"
    <3>1. r.lastReply = k /\ l[k].k = "message.assistant" /\ k \in 0..k /\ k # 0
      BY <1>2, <2>1, <2>2, <2>4, <2>6
    <3> QED
      BY <2>2, <2>4, <3>1
  <2>7. CASE e.k # "message.assistant"
    <3>1. r.lastReply = b.lastReply
      BY <2>4, <2>7
    <3>2. r.pending # {} => b.pending # {}
      BY <2>5, <2>7
    <3>3. r.lastReply \in 0..k
      BY <1>2, <2>3, <3>1
    <3> QED
      BY <2>2, <2>3, <2>4, <3>1, <3>2, <3>3
  <2> QED
    BY <2>6, <2>7
<1>5. n \in A
  <2> HIDE DEF A, n
  <2>1. 0..n \subseteq A
    BY <1>2, <1>3, <1>4, Upwards
  <2> QED
    BY <1>2, <2>1
<1> QED
  BY <1>1, <1>5

LEMMA UnresolvedIsSeq ==
  ASSUME NEW s, Sound(s)
  PROVE  IsSeq(Unresolved(s))
<1>1. PICK l : l = s.log
  OBVIOUS
<1>2. IsLog(l) /\ s.book = BookOf(l)
  BY <1>1 DEF Sound
<1>3. PICK calls : calls = IF s.book.pending = {} THEN << >>
                           ELSE s.log[s.book.lastReply].calls
  OBVIOUS
<1>4. IsSeq(calls)
  <2>1. CASE s.book.pending = {}
    BY <1>3, <2>1, EmptyIsSeq
  <2>2. CASE s.book.pending # {}
    <3>1. PICK n : n = s.book.lastReply
      OBVIOUS
    <3>2. n \in 1..Len(l) /\ l[n].k = "message.assistant"
      <4>1. n \in 0..Len(l) /\ n # 0 /\ l[n].k = "message.assistant"
        BY <1>2, <2>2, <3>1, LastReplyOfLog
      <4>2. Len(l) \in Nat
        BY <1>2, SeqIsFunction DEF IsLog
      <4> QED
        BY <4>1, <4>2
    <3>3. IsSeq(l[n].calls)
      BY <1>2, <3>2 DEF IsLog, IsEvent
    <3> QED
      BY <1>1, <1>3, <2>2, <3>1, <3>3
  <2> QED
    BY <2>1, <2>2
<1>5. PICK at : at = {i \in DOMAIN calls : calls[i] \in s.book.pending}
  OBVIOUS
<1>6. IsSeq(Picked(calls, at))
  BY <1>4, <1>5, PickedIs
<1> QED
  BY <1>3, <1>5, <1>6 DEF Unresolved

LEMMA RecoverOnward ==
  ASSUME NEW s, Sound(s), NEW replay
  PROVE  Onward(s, Recover(s, replay))
<1> DEFINE start == s.book.open
           pending == Unresolved(s)
           cause == s.log[start].cause
           resumed == [s EXCEPT !.turn = NewTurn(start, cause, "settling", 0)]
           h == [i \in DOMAIN pending |-> Result(pending[i], "restarted")]
           settled == PutEach(resumed, cause, h)
           trigger == replay.ended.trigger
           by == IF trigger = replay.ended.seq THEN replay.ended.cause
                 ELSE s.log[trigger].cause
<1>1. Recover(s, replay) \in {EndTurn(settled, cause, "aborted"), OpenTurn(s, trigger, by), s}
  BY DEF Recover
<1>2. IsSeq(pending)
  BY UnresolvedIsSeq
<1>3. Onward(s, resumed) /\ Sound(resumed)
  <2>1. /\ resumed.log = s.log /\ resumed.book = s.book /\ resumed.stored = s.stored
        /\ resumed.waiting = s.waiting /\ resumed.recent = s.recent
        /\ resumed.replies = s.replies
        /\ Shapely(resumed)
    BY EmptyIsSeq
       DEF Sound, Shapely, KernelFields, TurnFields, NewTurn, NotInterrupting, Queueings
  <2> HIDE DEF resumed
  <2> QED
    BY <2>1, Aside DEF Onward
<1> HIDE DEF pending, cause, trigger, by, resumed
<1>4. Bodies(h)
  <2>1. /\ h = [i \in DOMAIN pending |-> h[i]]
        /\ \A i \in DOMAIN pending : \E call, why : h[i] = Result(call, why)
    OBVIOUS
  <2> HIDE DEF h
  <2> QED
    BY <1>2, <2>1, ResultsAreBodies
<1> HIDE DEF h
<1>5. Onward(resumed, settled) /\ Sound(settled)
  BY <1>3, <1>4, PutEachOnward
<1> HIDE DEF settled
<1>6. Onward(settled, EndTurn(settled, cause, "aborted"))
  BY <1>5, EndTurnOnward
<1>7. Onward(s, settled)
  BY <1>3, <1>5, OnwardIsTransitive
<1>8. Onward(s, EndTurn(settled, cause, "aborted"))
  BY <1>5, <1>6, <1>7, OnwardIsTransitive
<1>9. Onward(s, OpenTurn(s, trigger, by)) /\ Onward(s, s)
  BY OpenTurnOnward, OnwardIsReflexive
<1> QED
  BY <1>1, <1>8, <1>9

\* Replaying keeps the book.
LEMMA ReplayBook ==
  ASSUME NEW l, IsSeq(l)
  PROVE  Replay(l).book = BookOf(l)
<1>1. PICK v : /\ v[0] = EmptyBook /\ BookOf(l) = v[Len(l)]
               /\ \A k \in 1..Len(l) : v[k] = Record(v[k - 1], l[k])
  BY BookChain
<1>2. PICK w : /\ w[0] = NothingReplayed /\ Replay(l) = w[Len(l)]
               /\ \A k \in 1..Len(l) : w[k] = ReplayEvent(w[k - 1], l[k])
  BY ReplayChain
<1> DEFINE n == Len(l)
           A == {k \in 0..n : w[k].book = v[k]}
<1>3. n \in Nat
  BY SeqIsFunction
<1>4. 0 \in A
  BY <1>1, <1>2, <1>3 DEF NothingReplayed
<1>5. ASSUME NEW k \in 1..n, k - 1 \in A PROVE k \in A
  <2>1. PICK r, e : r = w[k - 1] /\ e = l[k]
    OBVIOUS
  <2>2. r.book = v[k - 1]
    BY <1>5, <2>1
  <2>3. ReplayEvent(r, e).book = Record(r.book, e)
    BY DEF ReplayEvent
  <2>4. w[k] = ReplayEvent(r, e) /\ v[k] = Record(v[k - 1], e)
    BY <1>1, <1>2, <2>1
  <2>5. w[k].book = v[k]
    BY <2>2, <2>3, <2>4
  <2> QED
    BY <1>3, <2>5
<1>6. n \in A
  <2> HIDE DEF A, n
  <2>1. 0..n \subseteq A
    BY <1>3, <1>4, <1>5, Upwards
  <2> QED
    BY <1>3, <2>1
<1> QED
  BY <1>1, <1>2, <1>6

\* The least of a set of places.
LEMMA LeastPlace ==
  ASSUME NEW n \in Nat, NEW T \in SUBSET (1..n), T # {}
  PROVE  Min(T) \in T
<1> DEFINE P == {n + 1 - t : t \in T}
<1>1. P \in SUBSET (1..n) /\ P # {}
  <2>1. \A t \in T : t \in 1..n /\ n + 1 - t \in 1..n
    OBVIOUS
  <2>2. PICK t : t \in T
    OBVIOUS
  <2>3. n + 1 - t \in P
    BY <2>2
  <2> QED
    BY <2>1, <2>3
<1>2. Max(P) \in P /\ \A y \in P : Max(P) >= y
  <2> HIDE DEF P
  <2> QED
    BY <1>1, GreatestPlace
<1>3. PICK m \in T : Max(P) = n + 1 - m
  BY <1>2
<1>4. \A t \in T : n + 1 - t \in P
  OBVIOUS
<1>5. \A t \in T : m <= t
  <2> HIDE DEF P
  <2>1. TAKE t \in T
  <2>2. n + 1 - m >= n + 1 - t
    BY <1>2, <1>3, <1>4
  <2> QED
    BY <2>2
<1>6. Min(T) = CHOOSE x \in T : \A y \in T : x <= y
  BY DEF Min
<1> QED
  BY <1>5, <1>6

\* What the log says a command did is told by numbers, in order.
LEMMA EventsOfNumbers ==
  ASSUME NEW log, IsSeq(log), NEW id
  PROVE  NumbersUpTo(EventsOf(log, id), Len(log))
<1>1. PICK f : f = [i \in DOMAIN log |-> i]
  OBVIOUS
<1>2. PICK at : at = {i \in DOMAIN log : log[i].cause = id}
  OBVIOUS
<1>3. PICK own : own = Picked(f, at)
  OBVIOUS
<1>4. PICK n : n = Len(log)
  OBVIOUS
<1>5. n \in Nat /\ DOMAIN log = 1..n
  BY <1>4, SeqIsFunction
<1>6. IsSeq(f) /\ at \in SUBSET (DOMAIN f)
  <2>1. f = [i \in DOMAIN log |-> f[i]]
    BY <1>1
  <2> QED
    BY <1>1, <1>2, <2>1, EachOf
<1>7. IsSeq(own) /\ \E pos : /\ Positions(pos, Len(own), at)
                             /\ \A j \in 1..Len(own) : own[j] = f[pos[j]]
  BY <1>3, <1>6, PickedIs
<1>8. PICK pos : /\ Positions(pos, Len(own), at)
                 /\ \A j \in 1..Len(own) : own[j] = f[pos[j]]
  BY <1>7
<1>9. PICK m : m = Len(own)
  OBVIOUS
<1>10. m \in Nat /\ DOMAIN own = 1..m
  BY <1>7, <1>9, SeqIsFunction
<1>11. \A j \in 1..m : own[j] = pos[j] /\ pos[j] \in 1..n
  <2>1. TAKE j \in 1..m
  <2>2. pos[j] \in at /\ own[j] = f[pos[j]]
    BY <1>8, <1>9 DEF Positions
  <2> QED
    BY <1>1, <1>2, <1>5, <2>2
<1>12. \A i, j \in 1..m : i <= j => own[i] <= own[j]
  <2>1. TAKE i, j \in 1..m
  <2>2. HAVE i <= j
  <2>3. CASE i = j
    BY <1>11, <2>3
  <2>4. CASE i < j
    <3>1. pos[i] < pos[j]
      BY <1>8, <1>9, <2>4 DEF Positions
    <3> QED
      BY <1>11, <3>1
  <2> QED
    BY <2>2, <2>3, <2>4
<1>13. ASSUME NEW k \in 0..m PROVE NumbersUpTo(SubSeq(own, 1, k), n)
  <2>1. PICK t : t = SubSeq(own, 1, k)
    OBVIOUS
  <2>2. IsSeq(t) /\ Len(t) = k /\ \A i \in 1..k : t[i] = own[i]
    BY <1>7, <1>9, <1>13, <2>1, BeginningIsSeq
  <2>3. ASSUME NEW i \in 1..k PROVE t[i] \in Nat \ {0} /\ t[i] <= t[k] /\ t[i] <= n
    <3>1. i \in 1..m /\ k \in 1..m /\ i <= k
      BY <1>10, <1>13
    <3>2. own[i] <= own[k] /\ own[i] \in 1..n
      BY <1>11, <1>12, <3>1
    <3>3. t[i] = own[i] /\ t[k] = own[k]
      BY <2>2, <3>1
    <3> QED
      BY <1>5, <3>2, <3>3
  <2> QED
    BY <2>1, <2>2, <2>3 DEF NumbersUpTo, Numbers, Last
<1>14. PICK opens : opens = {j \in DOMAIN own : log[own[j]].k = "turn.started"}
  OBVIOUS
<1>15. EventsOf(log, id) =
         IF opens = {} THEN own
         ELSE SubSeq(own, 1, IF Min(opens) = 1 THEN 1 ELSE Min(opens) - 1)
  BY <1>1, <1>2, <1>3, <1>14 DEF EventsOf
<1>16. CASE opens = {}
  <2>1. SubSeq(own, 1, m) = own
    <3>1. own \in Seq(Range(own))
      BY <1>7 DEF IsSeq
    <3> QED
      BY <1>9, <3>1, SubSeqFull
  <2>2. NumbersUpTo(SubSeq(own, 1, m), n)
    BY <1>10, <1>13
  <2> QED
    BY <1>4, <1>15, <1>16, <2>1, <2>2
<1>17. CASE opens # {}
  <2>1. Min(opens) \in 1..m
    <3>1. opens \in SUBSET (1..m)
      BY <1>10, <1>14
    <3> QED
      BY <1>10, <1>17, <3>1, LeastPlace
  <2>2. PICK k : k = IF Min(opens) = 1 THEN 1 ELSE Min(opens) - 1
    OBVIOUS
  <2>3. k \in 0..m
    BY <1>10, <2>1, <2>2
  <2> QED
    BY <1>4, <1>13, <1>15, <1>17, <2>2, <2>3
<1> QED
  BY <1>16, <1>17

LEMMA RecentOfRecalled ==
  ASSUME NEW log, IsSeq(log)
  PROVE  Recalled(RecentOf(log), Len(log))
<1>1. PICK first : first = {i \in DOMAIN log :
                              /\ log[i].cause # None
                              /\ \A j \in 1..(i - 1) : log[j].cause # log[i].cause}
  OBVIOUS
<1>2. PICK f : f = [i \in DOMAIN log |-> log[i].cause]
  OBVIOUS
<1>3. PICK ids : ids = Picked(f, first)
  OBVIOUS
<1>4. IsSeq(ids)
  <2>1. f = [i \in DOMAIN log |-> f[i]]
    BY <1>2
  <2>2. IsSeq(f) /\ first \in SUBSET (DOMAIN f)
    BY <1>1, <1>2, <2>1, EachOf
  <2> QED
    BY <1>3, <2>2, PickedIs
<1>5. RecentOf(log) = RecentIn(log, ids)
  BY <1>1, <1>2, <1>3 DEF RecentOf, RecentIn
<1>6. PICK v : /\ v[0] = << >> /\ RecentIn(log, ids) = v[Len(ids)]
               /\ \A k \in 1..Len(ids) :
                    v[k] = Remember(v[k - 1], ids[k], EventsOf(log, ids[k]))
  BY <1>4, RecentChain
<1> DEFINE n == Len(ids)
           A == {k \in 0..n : Recalled(v[k], Len(log))}
<1>7. n \in Nat
  BY <1>4, SeqIsFunction
<1>8. 0 \in A
  BY <1>6, <1>7, EmptyIsSeq DEF Recalled
<1>9. ASSUME NEW k \in 1..n, k - 1 \in A PROVE k \in A
  <2>1. PICK r, id, events : r = v[k - 1] /\ id = ids[k] /\ events = EventsOf(log, id)
    OBVIOUS
  <2>2. PICK m : m = Len(log)
    OBVIOUS
  <2>5. Recalled(r, m) /\ NumbersUpTo(events, m)
    BY <1>9, <2>1, <2>2, EventsOfNumbers
  <2>3. Recalled(Remember(r, id, events), m)
    BY <2>5, RememberKeepsRecalled
  <2>4. v[k] = Remember(r, id, events)
    BY <1>6, <2>1
  <2> QED
    BY <1>7, <2>2, <2>3, <2>4
<1>10. n \in A
  <2> HIDE DEF A, n
  <2>1. 0..n \subseteq A
    BY <1>7, <1>8, <1>9, Upwards
  <2> QED
    BY <1>7, <2>1
<1> QED
  BY <1>5, <1>6, <1>10

\* Loading goes on from the log it reads.
LEMMA LoadGoes ==
  ASSUME NEW log, IsLog(log), NEW policy
  PROVE  LET t == Load(log, policy) IN
         /\ Sound(t) /\ Talking(t) /\ Longer(log, t.log) /\ t.stored = Len(log)
         /\ t.waiting = << >> /\ t.replies = << >> /\ Recalled(t.recent, Len(log))
<1>1. PICK replay : replay = Replay(log)
  OBVIOUS
<1>2. PICK s : s = [ log |-> log, book |-> replay.book, stored |-> Len(log), turn |-> NoTurn,
             waiting |-> << >>, recent |-> RecentOf(log),
             policy |-> policy, perm |-> PermissionOf(log), eff |-> PermissionOf(log), closing |-> << >>,
             restarting |-> FALSE, refused |-> ~replay.ok,
             out |-> {}, replies |-> << >> ]
  OBVIOUS
<1>3. Load(log, policy) = Recover(s, replay)
  BY <1>1, <1>2 DEF Load
<1>4. IsSeq(log) /\ Len(log) \in Nat
  BY SeqIsFunction DEF IsLog
<1>5. Sound(s)
  <2>1. /\ s.log = log /\ s.book = replay.book /\ s.stored = Len(log) /\ s.turn = NoTurn
        /\ DOMAIN s = KernelFields
    BY <1>2 DEF KernelFields
  <2>2. Shapely(s)
    BY <2>1, EmptyIsSeq
       DEF Shapely, NoTurn, NewTurn, TurnFields, NotInterrupting, Queueings
  <2>3. s.book = BookOf(log)
    BY <1>1, <1>4, <2>1, ReplayBook
  <2> QED
    BY <1>4, <2>1, <2>2, <2>3 DEF Sound
<1>6. Talking(s)
  <2>1. s.waiting = << >> /\ s.recent = RecentOf(log) /\ s.replies = << >>
    BY <1>2
  <2>2. Entries(<< >>) /\ Answers(<< >>, s.stored)
    BY EmptyIsSeq DEF Entries, Answers
  <2>3. Entries(RecentOf(log))
    BY <1>4, RecentOfRecalled DEF Recalled, NumbersUpTo, Entries
  <2> QED
    BY <2>1, <2>2, <2>3 DEF Talking
<1>7. PICK t : t = Recover(s, replay)
  OBVIOUS
<1>8. Onward(s, t)
  BY <1>5, <1>7, RecoverOnward
<1>9. Goes(s, t)
  BY <1>5, <1>6, <1>8, OnwardGoes
<1>10. s.log = log /\ s.stored = Len(log) /\ s.waiting = << >> /\ s.replies = << >>
       /\ s.recent = RecentOf(log)
  BY <1>2
<1> QED
  BY <1>3, <1>4, <1>7, <1>8, <1>9, <1>10, RecentOfRecalled DEF Goes, Onward

\* What an event made of a body carries.
LEMMA EventIs ==
  ASSUME NEW seq, NEW turn, NEW cause, NEW body
  PROVE  LET e == Event(seq, turn, cause, body) IN
         /\ e.seq = seq /\ e.turn = turn /\ e.cause = cause
         /\ \A f \in DOMAIN body \ {"seq", "turn", "cause"} : e[f] = body[f]
BY DEF Event

\* What a request on its way has brought is kept; its calls get a result.
Cut(s, received, by, why) ==
  LET taken == [s EXCEPT !.turn.stage = "settling", !.turn.calls = << >>]
      cut == Settle(taken, s.turn.mark, s.turn.cause, received, TRUE)
  IN  PutEach(cut.s, by, [i \in DOMAIN cut.calls |-> Result(cut.calls[i].id, why)])

----------------------------------------------------------------------------
(***************************************************************************)
(* What opens a turn, and who has not been heard yet.  The circumstances g *)
(* are: w, the commands that interrupt and send what is queued; n, how     *)
(* often a turn is taken up again; z, whether the session is stopping on   *)
(* purpose; c, whether every message must be heard.                        *)
(***************************************************************************)
\* The ends of a turn after which what was said in it is not owed an answer.
Covering == {"interrupted", "aborted", "restarted"}

\* A request has seen the message; the end of a turn covers it.
HeardAt(l, m, i) == l[i].k = "model.called" /\ l[i].seen >= m
CoveredAt(l, m, i) == l[i].k = "turn.ended" /\ m < i /\ l[i].reason \in Covering

\* No request has seen the message, no end of a turn has covered it.
StillUnheard(l, m) ==
  /\ m \in 1..Len(l) /\ l[m].k = "message.user"
  /\ \A i \in 1..Len(l) : ~HeardAt(l, m, i) /\ ~CoveredAt(l, m, i)

\* The turn is opened by a message said since the last turn ended, or said while
\* the turn ran that ended just before, and nobody stopped that one for good.
FromMessage(l, p, g) ==
  LET j == l[p].trigger IN
  /\ j \in 1..(p - 1) /\ l[j].k = "message.user"
  /\ \A i \in j..(p - 1) : l[i].k = "turn.ended" =>
       i = p - 1 /\ (l[i].reason = "interrupted" => l[i].cause \in g.w)

\* The turn takes up one that a planned restart ended, not too often in a row.
FromRestart(l, p, g) ==
  LET r == Replay(SubSeq(l, 1, p - 1)) IN
  /\ r.ended.reason = "restarted" /\ r.ended.trigger = l[p].trigger
  /\ r.restarts <= g.n

FoundedAt(l, p, g) ==
  l[p].k = "turn.started" => FromMessage(l, p, g) \/ FromRestart(l, p, g)

Founded(l, g) == \A p \in 1..Len(l) : FoundedAt(l, p, g)

\* What the running turn has queued are messages said while it runs.
Overhears(l, t) ==
  /\ IsSeq(t.queued)
  /\ t.id # 0 => t.id \in 1..Len(l) /\ \A i \in t.id..Len(l) : l[i].k # "turn.ended"
  /\ \A i \in 1..Len(t.queued) :
       /\ t.id # 0
       /\ t.queued[i].seq \in (t.id + 1)..Len(l)
       /\ l[t.queued[i].seq].k = "message.user"

\* A turn that has come so far has asked before.
HasAsked(t) ==
  /\ t.requests \in Nat
  /\ t.stage \in {"asking", "waiting", "tools"} \/ t.retrying => t.requests # 0

\* An interruption that sends what is queued was asked to.
MeansIt(t, g) == t.intr.wake # 0 /\ t.intr.queued = "send" => t.intr.cause \in g.w

\* The next request will hear it: it is queued, the request under way has it in view,
\* or the turn has not asked yet.
WillHear(t, m) ==
  /\ t.id # 0
  /\ \/ \E i \in 1..Len(t.queued) : t.queued[i].seq = m
     \/ t.stage = "asking" /\ t.mark >= m
     \/ t.requests = 0

Heeding(l, t) == \A m : StillUnheard(l, m) => WillHear(t, m)

\* What the handlers keep: turns open for a reason, and who is unheard will be heard.
Attentive(s, g) ==
  /\ Sound(s) /\ s.restarting = g.z
  /\ s.refused = TRUE \/ /\ Founded(s.log, g) /\ Overhears(s.log, s.turn)
                         /\ HasAsked(s.turn) /\ MeansIt(s.turn, g)
                         /\ g.c => Heeding(s.log, s.turn)

\* The same, but nobody has to be heard.
Deaf(g) == [w |-> g.w, n |-> g.n, z |-> g.z, c |-> FALSE]

----------------------------------------------------------------------------
(***************************************************************************)
(* What does not depend on the rest of the log.                            *)
(***************************************************************************)
LEMMA FoundedAlike ==
  ASSUME NEW l, IsSeq(l), NEW m, IsSeq(m), NEW n \in Nat, n <= Len(l), n <= Len(m),
         \A i \in 1..n : m[i] = l[i], NEW g, Founded(l, g), NEW p \in 1..n
  PROVE  FoundedAt(m, p, g)
<1>1. Len(l) \in Nat /\ Len(m) \in Nat
  BY SeqIsFunction
<1>2. p \in 1..Len(l) /\ m[p] = l[p]
  BY <1>1
<1>3. FoundedAt(l, p, g)
  BY <1>2 DEF Founded
<1>4. ASSUME FromMessage(l, p, g) PROVE FromMessage(m, p, g)
  <2>1. PICK j : j = l[p].trigger
    OBVIOUS
  <2>2. /\ j \in 1..(p - 1) /\ l[j].k = "message.user"
        /\ \A i \in j..(p - 1) : l[i].k = "turn.ended" =>
             i = p - 1 /\ (l[i].reason = "interrupted" => l[i].cause \in g.w)
    BY <1>4, <2>1 DEF FromMessage
  <2>3. \A i \in j..(p - 1) : m[i] = l[i]
    BY <2>2
  <2>4. m[j] = l[j] /\ m[p].trigger = j
    BY <1>2, <2>1, <2>2
  <2> QED
    BY <2>2, <2>3, <2>4 DEF FromMessage
<1>5. ASSUME FromRestart(l, p, g) PROVE FromRestart(m, p, g)
  <2>1. PICK q : q = p - 1
    OBVIOUS
  <2>2. q \in 0..Len(l) /\ q <= Len(m) /\ \A i \in 1..q : l[i] = m[i]
    BY <1>1, <2>1
  <2>3. SubSeq(l, 1, q) = SubSeq(m, 1, q)
    BY <2>2, SameBeginning
  <2> QED
    BY <1>2, <1>5, <2>1, <2>3 DEF FromRestart
<1> QED
  BY <1>2, <1>3, <1>4, <1>5 DEF FoundedAt

LEMMA FoundedMore ==
  ASSUME NEW l, IsSeq(l), NEW g, Founded(l, g), NEW e,
         FoundedAt(Append(l, e), Len(l) + 1, g)
  PROVE  Founded(Append(l, e), g)
<1>1. PICK m, n : m = Append(l, e) /\ n = Len(l)
  OBVIOUS
<1>2. /\ IsSeq(m) /\ Len(m) = n + 1 /\ n \in Nat
      /\ \A i \in 1..n : m[i] = l[i]
  BY <1>1, AppendIsSeq, SeqIsFunction
<1>3. n <= Len(l) /\ n <= Len(m)
  BY <1>1, <1>2
<1>4. ASSUME NEW p \in 1..n PROVE FoundedAt(m, p, g)
  BY <1>2, <1>3, <1>4, FoundedAlike
<1>5. FoundedAt(m, n + 1, g)
  BY <1>1
<1>6. \A p \in 1..Len(m) : p \in 1..n \/ p = n + 1
  BY <1>2
<1>7. \A p \in 1..Len(m) : FoundedAt(m, p, g)
  BY <1>4, <1>5, <1>6
<1> QED
  BY <1>1, <1>7 DEF Founded

LEMMA FoundedBefore ==
  ASSUME NEW l, IsSeq(l), NEW g, Founded(l, g), NEW n \in 0..Len(l)
  PROVE  Founded(SubSeq(l, 1, n), g)
<1>1. PICK m : m = SubSeq(l, 1, n)
  OBVIOUS
<1>2. Len(l) \in Nat
  BY SeqIsFunction
<1>3. IsSeq(m) /\ Len(m) = n /\ \A i \in 1..n : m[i] = l[i]
  BY <1>1, BeginningIsSeq
<1>4. n \in Nat /\ n <= Len(l) /\ n <= Len(m)
  BY <1>2, <1>3
<1>5. ASSUME NEW p \in 1..n PROVE FoundedAt(m, p, g)
  BY <1>3, <1>4, <1>5, FoundedAlike
<1> QED
  BY <1>1, <1>3, <1>5 DEF Founded

LEMMA DeafIs ==
  ASSUME NEW g
  PROVE  /\ Deaf(g).w = g.w /\ Deaf(g).n = g.n /\ Deaf(g).z = g.z /\ Deaf(g).c = FALSE
         /\ Deaf(Deaf(g)) = Deaf(g)
BY DEF Deaf

LEMMA DeafFounded ==
  ASSUME NEW l, NEW g
  PROVE  Founded(l, g) <=> Founded(l, Deaf(g))
BY DeafIs DEF Founded, FoundedAt, FromMessage, FromRestart

LEMMA AttentiveDeaf ==
  ASSUME NEW s, NEW g, Attentive(s, g)
  PROVE  Attentive(s, Deaf(g))
<1>1. MeansIt(s.turn, g) <=> MeansIt(s.turn, Deaf(g))
  BY DeafIs DEF MeansIt
<1> QED
  BY <1>1, DeafIs, DeafFounded DEF Attentive

----------------------------------------------------------------------------
(***************************************************************************)
(* Who is unheard when the log grows.                                      *)
(***************************************************************************)
\* One event more covers and hears what it did before.
LEMMA UnheardBefore ==
  ASSUME NEW l, IsSeq(l), NEW e, NEW m, StillUnheard(Append(l, e), m),
         e.k # "message.user" \/ m # Len(l) + 1
  PROVE  StillUnheard(l, m)
<1>1. PICK n : n = Len(l)
  OBVIOUS
<1>2. PICK k : k = Append(l, e)
  OBVIOUS
<1>3. /\ n \in Nat /\ Len(k) = n + 1 /\ k[n + 1] = e
      /\ \A i \in 1..n : k[i] = l[i]
  BY <1>1, <1>2, AppendIsSeq, SeqIsFunction
<1>4. /\ m \in 1..Len(k) /\ k[m].k = "message.user"
      /\ \A i \in 1..Len(k) : ~HeardAt(k, m, i) /\ ~CoveredAt(k, m, i)
  BY <1>2 DEF StillUnheard
<1>5. m \in 1..n
  BY <1>1, <1>3, <1>4
<1>6. \A i \in 1..n : ~HeardAt(k, m, i) /\ ~CoveredAt(k, m, i)
  BY <1>3, <1>4
<1>7. \A i \in 1..n : ~HeardAt(l, m, i) /\ ~CoveredAt(l, m, i)
  BY <1>3, <1>6 DEF HeardAt, CoveredAt
<1> QED
  BY <1>1, <1>3, <1>4, <1>5, <1>7 DEF StillUnheard

\* The last event itself has not heard it.
LEMMA UnheardAtLast ==
  ASSUME NEW l, IsSeq(l), NEW e, NEW m, StillUnheard(Append(l, e), m)
  PROVE  /\ ~(e.k = "model.called" /\ e.seen >= m)
         /\ ~(e.k = "turn.ended" /\ e.reason \in Covering)
         /\ m \in 1..(Len(l) + 1)
<1>1. PICK n : n = Len(l)
  OBVIOUS
<1>2. PICK k : k = Append(l, e)
  OBVIOUS
<1>3. n \in Nat /\ Len(k) = n + 1 /\ k[n + 1] = e
  BY <1>1, <1>2, AppendIsSeq, SeqIsFunction
<1>4. /\ m \in 1..Len(k) /\ k[m].k = "message.user"
      /\ \A i \in 1..Len(k) : ~HeardAt(k, m, i) /\ ~CoveredAt(k, m, i)
  BY <1>2 DEF StillUnheard
<1>5. ~HeardAt(k, m, n + 1) /\ ~CoveredAt(k, m, n + 1)
  BY <1>3, <1>4
<1>6. e.k = "turn.ended" => m < n + 1
  <2> SUFFICES ASSUME e.k = "turn.ended" PROVE m < n + 1
    OBVIOUS
  <2>1. m # n + 1
    BY <1>3, <1>4
  <2> QED
    BY <1>3, <1>4, <2>1
<1> QED
  BY <1>1, <1>3, <1>4, <1>5, <1>6 DEF HeardAt, CoveredAt

\* What is queued is still there when the log grows by something that ends no turn.
LEMMA OverhearsMore ==
  ASSUME NEW l, IsSeq(l), NEW t, Overhears(l, t), NEW e, e.k # "turn.ended"
  PROVE  Overhears(Append(l, e), t)
<1>1. PICK n : n = Len(l)
  OBVIOUS
<1>2. PICK k : k = Append(l, e)
  OBVIOUS
<1>3. /\ n \in Nat /\ Len(k) = n + 1 /\ k[n + 1] = e
      /\ \A i \in 1..n : k[i] = l[i]
  BY <1>1, <1>2, AppendIsSeq, SeqIsFunction
<1>4. ASSUME t.id # 0
      PROVE  t.id \in 1..Len(k) /\ \A i \in t.id..Len(k) : k[i].k # "turn.ended"
  <2>1. t.id \in 1..n /\ \A i \in t.id..n : l[i].k # "turn.ended"
    BY <1>1, <1>4 DEF Overhears
  <2>2. \A i \in t.id..(n + 1) : (i \in t.id..n /\ i \in 1..n) \/ i = n + 1
    BY <1>3, <2>1
  <2> QED
    BY <1>3, <2>1, <2>2
<1>5. ASSUME NEW i \in 1..Len(t.queued)
      PROVE  /\ t.id # 0
             /\ t.queued[i].seq \in (t.id + 1)..Len(k)
             /\ k[t.queued[i].seq].k = "message.user"
  <2>1. PICK q : q = t.queued[i].seq
    OBVIOUS
  <2>2. t.id # 0 /\ q \in (t.id + 1)..n /\ l[q].k = "message.user" /\ t.id \in 1..n
    BY <1>1, <2>1 DEF Overhears
  <2>3. q \in 1..n /\ q \in (t.id + 1)..(n + 1)
    BY <1>3, <2>2
  <2> QED
    BY <1>3, <2>1, <2>2, <2>3
<1> QED
  BY <1>2, <1>4, <1>5 DEF Overhears

----------------------------------------------------------------------------
(***************************************************************************)
(* Recording what opens and ends no turn and is no message.                *)
(***************************************************************************)
\* Bodies of the kinds that the properties about opening and hearing look at.
Loud == {"turn.started", "turn.ended", "message.user"}
QuietBody(body) == Fine(body) /\ body.k \notin Loud
QuietBodies(list) == IsSeq(list) /\ \A i \in 1..Len(list) : QuietBody(list[i])

\* The turn is as it was, and what was refused stays refused.
Heeds(s, t, g) ==
  Attentive(t, g) /\ t.turn = s.turn /\ (s.refused = TRUE => t.refused = TRUE)

\* What recording one event does.
EventOf(s, cause, body) ==
  Event(s.book.next, IF body.k = "turn.started" THEN s.book.next ELSE s.turn.id,
        cause, body)

PutTo(s, p, e) ==
  /\ Sound(p) /\ p.turn = s.turn /\ p.restarting = s.restarting
  /\ \/ p.log = Append(s.log, e) /\ p.refused = s.refused
     \/ p.log = s.log /\ p.refused = TRUE

LEMMA PutDoes ==
  ASSUME NEW s, Sound(s), NEW cause, NEW body, Fine(body),
         NEW e, e = EventOf(s, cause, body), NEW p, p = Put(s, cause, body)
  PROVE  PutTo(s, p, e) /\ e.k = body.k /\ e.cause = cause
<1>1. Sound(p)
  BY PutOnward
<1>2. e.k = body.k /\ e.cause = cause
  BY EventIs DEF Fine, EventOf
<1>3. p = IF Legal(s.book, e)
            THEN [s EXCEPT !.log = Append(@, e), !.book = Record(@, e)]
            ELSE [s EXCEPT !.refused = TRUE]
  BY DEF Put, Commit, EventOf
<1>4. DOMAIN s = KernelFields
  BY DEF Sound, Shapely
<1> HIDE DEF Put
<1>5. /\ p.turn = s.turn /\ p.restarting = s.restarting
      /\ \/ p.log = Append(s.log, e) /\ p.refused = s.refused
         \/ p.log = s.log /\ p.refused = TRUE
  BY <1>3, <1>4 DEF KernelFields
<1> QED
  BY <1>1, <1>2, <1>5 DEF PutTo

LEMMA PutQuiet ==
  ASSUME NEW s, NEW g, Attentive(s, g), NEW cause, NEW body, QuietBody(body),
         NEW p, p = Put(s, cause, body)
  PROVE  Heeds(s, p, g)
<1>1. PICK e : e = EventOf(s, cause, body)
  OBVIOUS
<1>2. Sound(s) /\ s.restarting = g.z /\ Fine(body) /\ body.k \notin Loud
  BY DEF Attentive, QuietBody
<1>0. PutTo(s, p, e) /\ e.k = body.k
  BY <1>1, <1>2, PutDoes
<1>3. /\ Sound(p) /\ p.turn = s.turn /\ p.restarting = s.restarting /\ e.k = body.k
      /\ \/ p.log = Append(s.log, e) /\ p.refused = s.refused
         \/ p.log = s.log /\ p.refused = TRUE
  BY <1>0 DEF PutTo
<1>4. CASE p.refused = TRUE
  BY <1>2, <1>3, <1>4 DEF Heeds, Attentive
<1>5. CASE p.refused # TRUE
  <2>1. p.log = Append(s.log, e) /\ p.refused = s.refused /\ s.refused # TRUE
    BY <1>3, <1>5
  <2>2. /\ Founded(s.log, g) /\ Overhears(s.log, s.turn)
        /\ HasAsked(s.turn) /\ MeansIt(s.turn, g)
        /\ g.c => Heeding(s.log, s.turn)
    BY <2>1 DEF Attentive
  <2>3. PICK l : l = s.log
    OBVIOUS
  <2>4. IsSeq(l) /\ Len(l) \in Nat /\ Append(l, e)[Len(l) + 1] = e
    BY <1>2, <2>3, SeqIsFunction, AppendIsSeq DEF Sound, IsLog
  <2>5. e.k \notin Loud
    BY <1>2, <1>3
  <2>6. FoundedAt(Append(l, e), Len(l) + 1, g)
    BY <2>4, <2>5 DEF FoundedAt, Loud
  <2>7. Founded(Append(l, e), g)
    BY <2>2, <2>3, <2>4, <2>6, FoundedMore
  <2>8. Overhears(Append(l, e), s.turn)
    <3>1. PICK t : t = s.turn
      OBVIOUS
    <3>2. Overhears(l, t) /\ e.k # "turn.ended"
      BY <2>2, <2>3, <2>5, <3>1 DEF Loud
    <3>3. Overhears(Append(l, e), t)
      BY <2>4, <3>2, OverhearsMore
    <3> QED
      BY <3>1, <3>3
  <2>9. g.c => Heeding(Append(l, e), s.turn)
    <3> SUFFICES ASSUME g.c, NEW m, StillUnheard(Append(l, e), m)
                 PROVE  WillHear(s.turn, m)
      BY DEF Heeding
    <3>1. StillUnheard(l, m)
      BY <2>4, <2>5, UnheardBefore DEF Loud
    <3> QED
      BY <2>2, <2>3, <3>1 DEF Heeding
  <2> QED
    BY <1>2, <1>3, <2>1, <2>2, <2>3, <2>7, <2>8, <2>9 DEF Heeds, Attentive
<1> QED
  BY <1>4, <1>5

LEMMA NotesIsReflexive ==
  ASSUME NEW s, NEW g, Attentive(s, g)
  PROVE  Heeds(s, s, g)
BY DEF Heeds

LEMMA PutEachQuiet ==
  ASSUME NEW s, NEW g, Attentive(s, g), NEW cause, NEW list, QuietBodies(list),
         NEW p, p = PutEach(s, cause, list)
  PROVE  Heeds(s, p, g)
<1>1. IsSeq(list)
  BY DEF QuietBodies
<1>2. PICK v : /\ v[0] = s /\ PutEach(s, cause, list) = v[Len(list)]
               /\ \A k \in 1..Len(list) : v[k] = Put(v[k - 1], cause, list[k])
  BY <1>1, PutEachChain
<1> DEFINE n == Len(list)
           A == {k \in 0..n : Heeds(s, v[k], g)}
<1>3. n \in Nat
  BY <1>1, SeqIsFunction
<1>4. 0 \in A
  BY <1>2, <1>3, NotesIsReflexive
<1>5. ASSUME NEW k \in 1..n, k - 1 \in A PROVE k \in A
  <2>1. PICK t, body : t = v[k - 1] /\ body = list[k]
    OBVIOUS
  <2>2. Heeds(s, t, g) /\ Attentive(t, g) /\ QuietBody(body)
    BY <1>5, <2>1 DEF Heeds, QuietBodies
  <2>3. PICK u : u = Put(t, cause, body)
    OBVIOUS
  <2>4. Heeds(t, u, g)
    BY <2>2, <2>3, PutQuiet
  <2>5. Heeds(s, u, g)
    BY <2>2, <2>4 DEF Heeds
  <2>6. v[k] = u /\ k \in 0..n
    BY <1>2, <2>1, <2>3
  <2> QED
    BY <2>5, <2>6
<1>6. n \in A
  <2> HIDE DEF A, n
  <2>1. 0..n \subseteq A
    BY <1>3, <1>4, <1>5, Upwards
  <2> QED
    BY <1>3, <2>1
<1> QED
  BY <1>2, <1>6

LEMMA ResultIsQuiet ==
  ASSUME NEW call, NEW why
  PROVE  QuietBody(Result(call, why))
BY ResultIsFine DEF QuietBody, Result, Loud

LEMMA ResultsAreQuiet ==
  ASSUME NEW calls, IsSeq(calls), NEW h, h = [i \in DOMAIN calls |-> h[i]],
         \A i \in DOMAIN calls : \E call, why : h[i] = Result(call, why)
  PROVE  /\ QuietBodies(h) /\ DOMAIN h = DOMAIN calls
         /\ \A at \in SUBSET (DOMAIN calls) : QuietBodies(Picked(h, at))
<1>1. IsSeq(h) /\ DOMAIN h = DOMAIN calls /\ Len(h) = Len(calls)
  BY EachOf
<1>2. DOMAIN h = 1..Len(h)
  BY <1>1, SeqIsFunction
<1>3. \A i \in DOMAIN h : QuietBody(h[i])
  BY <1>1, ResultIsQuiet
<1>4. QuietBodies(h)
  BY <1>1, <1>2, <1>3 DEF QuietBodies
<1>5. ASSUME NEW at \in SUBSET (DOMAIN calls) PROVE QuietBodies(Picked(h, at))
  <2>1. at \in SUBSET (DOMAIN h)
    BY <1>1
  <2>2. PICK t : t = Picked(h, at)
    OBVIOUS
  <2>3. IsSeq(t) /\ \A i \in 1..Len(t) : \E j \in at : t[i] = h[j]
    <3>1. /\ IsSeq(Picked(h, at))
          /\ \A i \in 1..Len(Picked(h, at)) : \E j \in at : Picked(h, at)[i] = h[j]
      BY <1>1, <2>1, PickedHolds
    <3> QED
      BY <2>2, <3>1
  <2> QED
    BY <1>3, <2>1, <2>2, <2>3 DEF QuietBodies
<1> QED
  BY <1>1, <1>4, <1>5

----------------------------------------------------------------------------
(***************************************************************************)
(* Changing what is not on record.                                         *)
(***************************************************************************)
\* The turn has asked before.
Tried(s) == s.refused = TRUE \/ s.turn.requests # 0

\* The stage changes to one that hears nobody, and only a turn that has asked
\* comes so far.
MovesOn(s, t) ==
  /\ t.turn.stage # "asking"
  /\ \/ Tried(s)
     \/ t.turn.stage \notin {"waiting", "tools"} /\ t.turn.retrying = s.turn.retrying

\* The turn is at the same place, with the same queue.
KeepsStage(s, t) ==
  t.turn.stage = s.turn.stage /\ t.turn.mark = s.turn.mark /\ t.turn.retrying = s.turn.retrying

Alongside(s, t) ==
  /\ Sound(t) /\ t.log = s.log /\ t.refused = s.refused /\ t.restarting = s.restarting
  /\ t.turn.id = s.turn.id /\ t.turn.requests = s.turn.requests
  /\ t.turn.intr = s.turn.intr \/ t.turn.intr.wake = 0

LEMMA AlongsideHeeds ==
  ASSUME NEW s, NEW g, Attentive(s, g), NEW t, Alongside(s, t),
         t.turn.queued = s.turn.queued \/ (t.turn.queued = << >> /\ ~g.c),
         \/ KeepsStage(s, t)
         \/ MovesOn(s, t) /\ (g.c => s.turn.stage # "asking")
  PROVE  Attentive(t, g)
<1>1. /\ Sound(t) /\ t.restarting = g.z
      /\ t.log = s.log /\ t.refused = s.refused
      /\ t.turn.id = s.turn.id /\ t.turn.requests = s.turn.requests
      /\ t.turn.intr = s.turn.intr \/ t.turn.intr.wake = 0
  BY DEF Alongside, Attentive
<1>2. CASE s.refused = TRUE
  BY <1>1, <1>2 DEF Attentive
<1>3. CASE s.refused # TRUE
  <2>1. /\ Founded(s.log, g) /\ Overhears(s.log, s.turn)
        /\ HasAsked(s.turn) /\ MeansIt(s.turn, g)
        /\ g.c => Heeding(s.log, s.turn)
    BY <1>3 DEF Attentive
  <2>2. Overhears(t.log, t.turn)
    <3>1. CASE t.turn.queued = s.turn.queued
      BY <1>1, <2>1, <3>1 DEF Overhears
    <3>2. CASE t.turn.queued = << >>
      BY <1>1, <2>1, <3>2, EmptyIsSeq DEF Overhears
    <3> QED
      BY <3>1, <3>2
  <2>3. HasAsked(t.turn)
    BY <1>1, <1>3, <2>1 DEF HasAsked, KeepsStage, MovesOn, Tried
  <2>4. MeansIt(t.turn, g)
    BY <1>1, <2>1 DEF MeansIt
  <2>5. g.c => Heeding(t.log, t.turn)
    <3> SUFFICES ASSUME g.c, NEW m, StillUnheard(t.log, m) PROVE WillHear(t.turn, m)
      BY DEF Heeding
    <3>1. WillHear(s.turn, m)
      BY <1>1, <2>1 DEF Heeding
    <3>2. t.turn.queued = s.turn.queued
      OBVIOUS
    <3>3. s.turn.stage = "asking" => t.turn.stage = "asking" /\ t.turn.mark = s.turn.mark
      BY DEF KeepsStage, MovesOn
    <3> QED
      BY <1>1, <3>1, <3>2, <3>3 DEF WillHear
  <2> QED
    BY <1>1, <2>1, <2>2, <2>3, <2>4, <2>5 DEF Attentive
<1> QED
  BY <1>2, <1>3

\* What of the kernel and of the turn these proofs do not look at.
LEMMA SameTurnHeeds ==
  ASSUME NEW s, NEW g, Attentive(s, g), NEW t, Sound(t), t.log = s.log,
         t.refused = s.refused, t.restarting = s.restarting, t.turn = s.turn
  PROVE  Attentive(t, g)
BY AlongsideHeeds DEF Alongside, KeepsStage

LEMMA NotesIsTransitive ==
  ASSUME NEW s, NEW g, NEW t, Heeds(s, t, g), NEW u, Heeds(t, u, g)
  PROVE  Heeds(s, u, g)
BY DEF Heeds

LEMMA NotesTried ==
  ASSUME NEW s, NEW g, NEW t, Heeds(s, t, g), Tried(s)
  PROVE  Tried(t)
BY DEF Heeds, Tried

LEMMA DoHeeds ==
  ASSUME NEW s, NEW g, Attentive(s, g), NEW actions, NEW t, t = Do(s, actions)
  PROVE  Heeds(s, t, g)
<1>1. Sound(s)
  BY DEF Attentive
<1>2. Sound(t)
  BY <1>1, DoOnward
<1>3. /\ t.log = s.log /\ t.refused = s.refused /\ t.restarting = s.restarting
      /\ t.turn = s.turn
  BY <1>1 DEF Do, Sound, Shapely, KernelFields
<1> HIDE DEF Do
<1>4. Attentive(t, g)
  BY <1>2, <1>3, SameTurnHeeds
<1> QED
  BY <1>3, <1>4 DEF Heeds

LEMMA BoundaryIsQuiet ==
  ASSUME NEW s
  PROVE  QuietBodies(Boundary(s))
<1>1. Bodies(Boundary(s))
  BY BoundaryIsBodies
<1>2. ASSUME NEW i \in 1..Len(Boundary(s)) PROVE Boundary(s)[i].k \notin Loud
  <2>1. CASE Told(s) = s.perm
    <3>1. Boundary(s) = << >>
      BY <2>1 DEF Boundary
    <3> QED
      BY <3>1, EmptyIsSeq
  <2>2. CASE Told(s) # s.perm
    <3>1. Boundary(s) = << [k |-> "context.injected", fact |-> "permission", perm |-> s.perm] >>
      BY <2>2 DEF Boundary
    <3>2. PICK b : b = [k |-> "context.injected", fact |-> "permission", perm |-> s.perm]
      OBVIOUS
    <3>3. Len(<<b>>) = 1 /\ <<b>>[1] = b
      BY LonelyIsSeq
    <3>4. i = 1
      BY <3>1, <3>2, <3>3
    <3> QED
      BY <3>1, <3>2, <3>3, <3>4 DEF Loud
  <2> QED
    BY <2>1, <2>2
<1> QED
  BY <1>1, <1>2 DEF QuietBodies, Bodies, QuietBody

LEMMA RefreshFactsHeeds ==
  ASSUME NEW s, NEW g, Attentive(s, g), NEW r, r = RefreshFacts(s)
  PROVE  Attentive(r, g)
<1>1. CASE ~s.turn.refresh
  BY <1>1 DEF RefreshFacts
<1>2. CASE s.turn.refresh
  <2>1. PICK t : t = [s EXCEPT !.turn.refresh = FALSE, !.eff = s.perm]
    OBVIOUS
  <2>2. Sound(s)
    BY DEF Attentive
  <2>3. /\ t.log = s.log /\ t.book = s.book /\ t.stored = s.stored /\ Shapely(t)
        /\ t.refused = s.refused /\ t.restarting = s.restarting
        /\ t.turn.id = s.turn.id /\ t.turn.requests = s.turn.requests
        /\ t.turn.intr = s.turn.intr /\ t.turn.queued = s.turn.queued
        /\ t.turn.stage = s.turn.stage /\ t.turn.mark = s.turn.mark
        /\ t.turn.retrying = s.turn.retrying
    BY <2>1, <2>2 DEF Sound, Shapely, KernelFields, TurnFields
  <2>4. Sound(t)
    BY <2>2, <2>3 DEF Sound
  <2>5. Attentive(t, g)
    BY <2>3, <2>4, AlongsideHeeds DEF Alongside, KeepsStage
  <2>6. PICK cause, list : cause = s.turn.cause /\ list = Boundary(t)
    OBVIOUS
  <2>7. r = PutEach(t, cause, list)
    BY <1>2, <2>1, <2>6 DEF RefreshFacts
  <2>8. QuietBodies(list)
    BY <2>6, BoundaryIsQuiet
  <2> QED
    BY <2>5, <2>7, <2>8, PutEachQuiet DEF Heeds
<1> QED
  BY <1>1, <1>2

----------------------------------------------------------------------------
(***************************************************************************)
(* Opening and ending turns.                                               *)
(***************************************************************************)
\* A turn opened now by this event is founded.
Opens(l, j, g) ==
  \/ /\ j \in 1..Len(l) /\ l[j].k = "message.user"
     /\ \A i \in j..Len(l) : l[i].k = "turn.ended" =>
          i = Len(l) /\ (l[i].reason = "interrupted" => l[i].cause \in g.w)
  \/ /\ Replay(l).ended.reason = "restarted" /\ Replay(l).ended.trigger = j
     /\ Replay(l).restarts <= g.n

LEMMA OpensFounded ==
  ASSUME NEW l, IsSeq(l), NEW j, NEW g, Opens(l, j, g), NEW e, e.trigger = j
  PROVE  FoundedAt(Append(l, e), Len(l) + 1, g)
<1>1. PICK m, n : m = Append(l, e) /\ n = Len(l)
  OBVIOUS
<1>2. /\ IsSeq(m) /\ Len(m) = n + 1 /\ n \in Nat /\ m[n + 1] = e
      /\ \A i \in 1..n : m[i] = l[i]
  BY <1>1, AppendIsSeq, SeqIsFunction
<1>3. PICK p : p = n + 1
  OBVIOUS
<1>4. p - 1 = n /\ m[p].trigger = j
  BY <1>2, <1>3
<1>5. CASE /\ j \in 1..Len(l) /\ l[j].k = "message.user"
           /\ \A i \in j..Len(l) : l[i].k = "turn.ended" =>
                i = Len(l) /\ (l[i].reason = "interrupted" => l[i].cause \in g.w)
  <2>1. j \in 1..n /\ m[j].k = "message.user"
    BY <1>1, <1>2, <1>5
  <2>2. \A i \in j..n : i \in 1..n
    BY <1>2, <2>1
  <2>3. \A i \in j..n : m[i].k = "turn.ended" =>
          i = n /\ (m[i].reason = "interrupted" => m[i].cause \in g.w)
    BY <1>1, <1>2, <1>5, <2>2
  <2>4. FromMessage(m, p, g)
    BY <1>4, <2>1, <2>3 DEF FromMessage
  <2> QED
    BY <1>1, <1>3, <2>4 DEF FoundedAt
<1>6. CASE /\ Replay(l).ended.reason = "restarted" /\ Replay(l).ended.trigger = j
           /\ Replay(l).restarts <= g.n
  <2>1. SubSeq(m, 1, n) = l
    <3>1. n \in 0..Len(m) /\ n <= Len(l)
      BY <1>1, <1>2
    <3>2. PICK b : b = SubSeq(m, 1, n)
      OBVIOUS
    <3>3. IsSeq(b) /\ Len(b) = n /\ \A i \in 1..n : b[i] = m[i]
      BY <1>2, <3>1, <3>2, BeginningIsSeq
    <3>4. \A i \in 1..Len(b) : b[i] = l[i]
      BY <1>2, <3>3
    <3>5. Len(b) = Len(l)
      BY <1>1, <3>3
    <3> QED
      BY <3>2, <3>3, <3>4, <3>5, SameSeq
  <2>2. FromRestart(m, p, g)
    BY <1>4, <1>6, <2>1 DEF FromRestart
  <2> QED
    BY <1>1, <1>3, <2>2 DEF FoundedAt
<1> QED
  BY <1>5, <1>6 DEF Opens

\* A message, or what opens a turn, is recorded.
LEMMA PutFounds ==
  ASSUME NEW s, NEW g, Attentive(s, g), NEW cause, NEW body, Fine(body),
         NEW p, p = Put(s, cause, body), p.refused # TRUE,
         NEW e, e = EventOf(s, cause, body),
         body.k # "turn.started" \/ Opens(s.log, e.trigger, g)
  PROVE  /\ s.refused # TRUE /\ p.log = Append(s.log, e) /\ Founded(p.log, g)
         /\ p.turn = s.turn /\ e.k = body.k
<1>1. Sound(s)
  BY DEF Attentive
<1>2. PutTo(s, p, e) /\ e.k = body.k
  BY <1>1, PutDoes
<1>3. s.refused # TRUE /\ p.log = Append(s.log, e) /\ p.turn = s.turn
  BY <1>2 DEF PutTo
<1>4. PICK l : l = s.log
  OBVIOUS
<1>5. IsSeq(l) /\ Append(l, e)[Len(l) + 1] = e
  BY <1>1, <1>4, AppendIsSeq DEF Sound, IsLog
<1>6. Founded(l, g)
  BY <1>3, <1>4 DEF Attentive
<1>7. FoundedAt(Append(l, e), Len(l) + 1, g)
  <2>1. CASE body.k # "turn.started"
    BY <1>2, <1>5, <2>1 DEF FoundedAt
  <2>2. CASE Opens(s.log, e.trigger, g)
    <3>1. PICK j : j = e.trigger
      OBVIOUS
    <3>2. Opens(l, j, g) /\ e.trigger = j
      BY <1>4, <2>2, <3>1
    <3> QED
      BY <1>5, <3>2, OpensFounded
  <2> QED
    BY <2>1, <2>2
<1>8. Founded(Append(l, e), g)
  BY <1>5, <1>6, <1>7, FoundedMore
<1> QED
  BY <1>2, <1>3, <1>4, <1>8

\* Everybody has been heard, or covered.
NobodyWaits(l) == \A m : ~StillUnheard(l, m)

LEMMA DeafHeeds ==
  ASSUME NEW s, NEW g, Attentive(s, Deaf(g))
  PROVE  /\ Sound(s) /\ s.restarting = g.z
         /\ s.refused # TRUE => /\ Founded(s.log, g) /\ Overhears(s.log, s.turn)
                                /\ HasAsked(s.turn) /\ MeansIt(s.turn, g)
<1>1. MeansIt(s.turn, g) <=> MeansIt(s.turn, Deaf(g))
  BY DeafIs DEF MeansIt
<1> QED
  BY <1>1, DeafIs, DeafFounded DEF Attentive

\* The log t has what s had and then the end of the turn.
EndsWith(s, t, cause, reason) ==
  \E e : /\ s.refused # TRUE /\ t.log = Append(s.log, e)
         /\ e.k = "turn.ended" /\ e.reason = reason /\ e.cause = cause

LEMMA EndTurnHeeds ==
  ASSUME NEW s, NEW g, Attentive(s, Deaf(g)), NEW cause, NEW reason,
         g.c => s.refused = TRUE \/ reason \in Covering \/ NobodyWaits(s.log),
         NEW t, t = EndTurn(s, cause, reason)
  PROVE  /\ Attentive(t, g) /\ t.turn = NoTurn
         /\ t.refused # TRUE => EndsWith(s, t, cause, reason)
<1>1. PICK body : body = [k |-> "turn.ended", reason |-> reason]
  OBVIOUS
<1>2. PICK p, e : p = Put(s, cause, body) /\ e = EventOf(s, cause, body)
  OBVIOUS
<1>3. Sound(s) /\ s.restarting = g.z
  BY DeafHeeds
<1>4. Fine(body) /\ body.k = "turn.ended" /\ body.reason = reason
      /\ "reason" \in DOMAIN body \ {"seq", "turn", "cause"}
  BY <1>1 DEF Fine
<1>5. PutTo(s, p, e) /\ e.k = body.k /\ e.cause = cause
  BY <1>2, <1>3, <1>4, PutDoes
<1>6. e.reason = reason
  <2>1. e.reason = body.reason
    BY <1>2, <1>4, EventIs DEF EventOf
  <2> QED
    BY <1>4, <2>1
<1>7. t = [p EXCEPT !.turn = NoTurn,
                    !.closing = Append(@, [turn |-> s.turn.id, ended |-> s.book.next])]
  BY <1>1, <1>2 DEF EndTurn
<1>8. Sound(t)
  BY <1>3, EndTurnOnward
<1>9. DOMAIN p = KernelFields
  BY <1>5 DEF PutTo, Sound, Shapely
<1> HIDE DEF EndTurn
<1>10. /\ t.turn = NoTurn /\ t.log = p.log /\ t.refused = p.refused
       /\ t.restarting = p.restarting
  BY <1>7, <1>9 DEF KernelFields
<1>11. CASE t.refused = TRUE
  BY <1>3, <1>5, <1>8, <1>10, <1>11 DEF PutTo, Attentive
<1>12. CASE t.refused # TRUE
  <2>1. p.refused # TRUE
    BY <1>10, <1>12
  <2>2. /\ s.refused # TRUE /\ p.log = Append(s.log, e) /\ Founded(p.log, Deaf(g))
    <3>1. body.k # "turn.started"
      BY <1>4
    <3>2. PICK d : d = Deaf(g)
      OBVIOUS
    <3>3. Attentive(s, d)
      BY <3>2
    <3>4. Founded(p.log, d)
      BY <1>2, <1>4, <2>1, <3>1, <3>3, PutFounds
    <3>5. s.refused # TRUE /\ p.log = Append(s.log, e)
      BY <1>5, <2>1 DEF PutTo
    <3> QED
      BY <3>2, <3>4, <3>5
  <2>3. Founded(t.log, g)
    BY <1>10, <2>2, DeafFounded
  <2>4. Overhears(t.log, NoTurn) /\ HasAsked(NoTurn) /\ MeansIt(NoTurn, g)
    BY EmptyIsSeq DEF Overhears, HasAsked, MeansIt, NoTurn, NewTurn, NotInterrupting
  <2>5. EndsWith(s, t, cause, reason)
    BY <1>4, <1>5, <1>6, <1>10, <2>2 DEF EndsWith
  <2>6. g.c => Heeding(t.log, NoTurn)
    <3> SUFFICES ASSUME g.c, NEW m, StillUnheard(t.log, m) PROVE FALSE
      BY DEF Heeding
    <3>1. PICK l : l = s.log
      OBVIOUS
    <3>2. IsSeq(l) /\ StillUnheard(Append(l, e), m)
      BY <1>3, <1>10, <2>2, <3>1 DEF Sound, IsLog
    <3>3. ~(e.k = "turn.ended" /\ e.reason \in Covering)
      BY <3>2, UnheardAtLast
    <3>4. StillUnheard(l, m)
      BY <1>4, <1>5, <3>2, UnheardBefore
    <3> QED
      BY <1>4, <1>5, <1>6, <2>2, <3>1, <3>3, <3>4 DEF NobodyWaits
  <2> QED
    BY <1>3, <1>5, <1>8, <1>10, <2>3, <2>4, <2>5, <2>6 DEF Attentive, PutTo
<1> QED
  BY <1>11, <1>12

LEMMA OpenTurnHeeds ==
  ASSUME NEW s, NEW g, Attentive(s, Deaf(g)), NEW trigger, NEW cause,
         s.refused = TRUE \/ Opens(s.log, trigger, g),
         NEW t, t = OpenTurn(s, trigger, cause)
  PROVE  Attentive(t, g)
<1>1. PICK body : body = [k |-> "turn.started", trigger |-> trigger, triggers |-> << >>]
  OBVIOUS
<1>2. PICK p, e : p = Put(s, cause, body) /\ e = EventOf(s, cause, body)
  OBVIOUS
<1>3. Sound(s) /\ s.restarting = g.z
  BY DeafHeeds
<1>4. Fine(body) /\ body.k = "turn.started" /\ body.trigger = trigger
      /\ "trigger" \in DOMAIN body \ {"seq", "turn", "cause"}
  BY <1>1 DEF Fine
<1>5. PutTo(s, p, e) /\ e.k = body.k /\ e.cause = cause
  BY <1>2, <1>3, <1>4, PutDoes
<1>6. e.trigger = trigger
  <2>1. e.trigger = body.trigger
    BY <1>2, <1>4, EventIs DEF EventOf
  <2> QED
    BY <1>4, <2>1
<1>7. PICK u : u = [p EXCEPT !.turn = NewTurn(s.book.next, cause, "opening", s.book.next),
                             !.eff = s.perm]
  OBVIOUS
<1>8. PICK list, v : list = Boundary(u) /\ v = PutEach(u, cause, list)
  OBVIOUS
<1>9. t = [v EXCEPT !.turn.mark = Len(v.log)]
  BY <1>1, <1>2, <1>7, <1>8 DEF OpenTurn
<1>10. Sound(t)
  BY <1>3, OpenTurnOnward
<1> HIDE DEF OpenTurn
<1>11. Sound(p) /\ DOMAIN p = KernelFields
  BY <1>5 DEF PutTo, Sound, Shapely
<1>12. /\ u.turn = NewTurn(s.book.next, cause, "opening", s.book.next)
       /\ u.log = p.log /\ u.refused = p.refused /\ u.restarting = p.restarting
       /\ u.book = p.book /\ u.stored = p.stored /\ DOMAIN u = KernelFields
  BY <1>7, <1>11 DEF KernelFields
<1>13. Sound(u)
  <2>1. Shapely(u)
    BY <1>12, EmptyIsSeq
       DEF Shapely, TurnFields, NewTurn, NotInterrupting, Queueings
  <2> QED
    BY <1>11, <1>12, <2>1 DEF Sound
<1>14. /\ u.turn.id = s.book.next /\ u.turn.stage = "opening" /\ u.turn.queued = << >>
       /\ u.turn.requests = 0 /\ u.turn.retrying = FALSE /\ u.turn.intr.wake = 0
  BY <1>12 DEF NewTurn, NotInterrupting
<1>15. Attentive(u, g)
  <2>1. CASE p.refused = TRUE
    BY <1>3, <1>5, <1>12, <1>13, <2>1 DEF PutTo, Attentive
  <2>2. CASE p.refused # TRUE
    <3>1. s.refused # TRUE /\ p.log = Append(s.log, e)
      BY <1>5, <2>2 DEF PutTo
    <3>2. Founded(p.log, g)
      <4>1. Opens(s.log, trigger, Deaf(g))
        BY <3>1, DeafIs DEF Opens
      <4>2. PICK d : d = Deaf(g)
        OBVIOUS
      <4>3. Attentive(s, d) /\ Opens(s.log, e.trigger, d)
        BY <1>6, <4>1, <4>2
      <4>4. Founded(p.log, d)
        BY <1>2, <1>4, <2>2, <4>3, PutFounds
      <4> QED
        BY <4>2, <4>4, DeafFounded
    <3>3. PICK l, n : l = s.log /\ n = Len(l)
      OBVIOUS
    <3>4. /\ IsSeq(l) /\ n \in Nat /\ s.book.next = n + 1
      <4>1. IsLog(l) /\ s.book = BookOf(l)
        BY <1>3, <3>3 DEF Sound
      <4> QED
        BY <3>3, <4>1, BookOfLog, SeqIsFunction DEF IsLog
    <3>5. Len(Append(l, e)) = n + 1 /\ Append(l, e)[n + 1] = e
      BY <3>3, <3>4, AppendIsSeq
    <3>6. Overhears(u.log, u.turn)
      <4>1. u.log = Append(l, e) /\ u.turn.id = n + 1
        BY <1>12, <1>14, <3>1, <3>3, <3>4
      <4>2. PICK k : k = Append(l, e)
        OBVIOUS
      <4>3. n + 1 \in 1..Len(k) /\ \A i \in (n + 1)..Len(k) : k[i] = e
        BY <3>4, <3>5, <4>2
      <4>4. e.k # "turn.ended"
        BY <1>4, <1>5
      <4> QED
        BY <1>14, <4>1, <4>2, <4>3, <4>4, EmptyIsSeq DEF Overhears
    <3>7. HasAsked(u.turn) /\ MeansIt(u.turn, g)
      BY <1>14 DEF HasAsked, MeansIt
    <3>8. Heeding(u.log, u.turn)
      <4>1. u.turn.id # 0
        BY <1>14, <3>4
      <4> QED
        BY <1>14, <4>1 DEF Heeding, WillHear
    <3> QED
      BY <1>3, <1>5, <1>12, <1>13, <3>2, <3>6, <3>7, <3>8 DEF Attentive, PutTo
  <2> QED
    BY <2>1, <2>2
<1>16. Heeds(u, v, g)
  <2>1. QuietBodies(list)
    BY <1>8, BoundaryIsQuiet
  <2> QED
    BY <1>8, <1>15, <2>1, PutEachQuiet
<1>17. Attentive(v, g) /\ v.turn = u.turn
  BY <1>16 DEF Heeds
<1>18. /\ t.log = v.log /\ t.refused = v.refused /\ t.restarting = v.restarting
       /\ t.turn.id = v.turn.id /\ t.turn.requests = v.turn.requests
       /\ t.turn.intr = v.turn.intr /\ t.turn.queued = v.turn.queued
       /\ t.turn.stage = v.turn.stage /\ t.turn.retrying = v.turn.retrying
  <2>1. Shapely(v)
    BY <1>17 DEF Attentive, Sound
  <2> QED
    BY <1>9, <2>1 DEF Shapely, KernelFields, TurnFields
<1> QED
  BY <1>10, <1>14, <1>17, <1>18, AlongsideHeeds DEF Alongside, MovesOn

\* What was queued may open the next turn.
LEMMA QueuedOpens ==
  ASSUME NEW s, NEW g, Attentive(s, Deaf(g)), s.turn.queued # << >>,
         NEW cause, NEW reason, reason = "interrupted" => s.refused = TRUE \/ cause \in g.w,
         NEW t, EndsWith(s, t, cause, reason)
  PROVE  Opens(t.log, Last(s.turn.queued).seq, g)
<1>1. PICK e : /\ s.refused # TRUE /\ t.log = Append(s.log, e)
               /\ e.k = "turn.ended" /\ e.reason = reason /\ e.cause = cause
  BY DEF EndsWith
<1>2. Sound(s) /\ Overhears(s.log, s.turn)
  BY <1>1, DeafHeeds
<1>3. PICK l, n : l = s.log /\ n = Len(l)
  OBVIOUS
<1>4. PICK k : k = Append(l, e)
  OBVIOUS
<1>5. IsSeq(l) /\ n \in Nat /\ Len(k) = n + 1 /\ k[n + 1] = e /\ \A i \in 1..n : k[i] = l[i]
  BY <1>2, <1>3, <1>4, AppendIsSeq, SeqIsFunction DEF Sound, IsLog
<1>6. PICK q, c : q = s.turn.queued /\ c = Len(q)
  OBVIOUS
<1>7. IsSeq(q) /\ c \in Nat /\ c # 0
  <2>1. IsSeq(q)
    BY <1>2, <1>6 DEF Overhears
  <2>2. c \in Nat /\ q = [i \in 1..c |-> q[i]]
    BY <1>6, <2>1, SeqIsFunction
  <2>3. c # 0
    <3> SUFFICES ASSUME c = 0 PROVE FALSE
      OBVIOUS
    <3>1. \A i \in 1..Len(q) : q[i] = << >>[i]
      BY <1>6
    <3>2. q = << >>
      BY <1>6, <2>1, <3>1, EmptyIsSeq, SameSeq
    <3> QED
      BY <1>6, <3>2
  <2> QED
    BY <2>1, <2>2, <2>3
<1>8. PICK j : j = q[c].seq
  OBVIOUS
<1>9. Last(q).seq = j
  BY <1>6, <1>8 DEF Last
<1>10. /\ s.turn.id # 0 /\ s.turn.id \in 1..n
       /\ \A i \in s.turn.id..n : l[i].k # "turn.ended"
       /\ j \in (s.turn.id + 1)..n /\ l[j].k = "message.user"
  BY <1>2, <1>3, <1>6, <1>7, <1>8 DEF Overhears
<1>11. j \in 1..Len(k) /\ k[j].k = "message.user"
  BY <1>5, <1>10
<1>12. \A i \in j..Len(k) : k[i].k = "turn.ended" => i = n + 1
  <2> SUFFICES ASSUME NEW i \in j..Len(k), i # n + 1 PROVE k[i].k # "turn.ended"
    OBVIOUS
  <2>1. i \in s.turn.id..n /\ i \in 1..n
    BY <1>5, <1>10
  <2> QED
    BY <1>5, <1>10, <2>1
<1>13. Opens(k, j, g)
  BY <1>1, <1>5, <1>11, <1>12 DEF Opens
<1> QED
  BY <1>1, <1>3, <1>4, <1>6, <1>9, <1>13

LEMMA FinishTurnHeeds ==
  ASSUME NEW s, NEW g, Attentive(s, Deaf(g)), NEW cause, NEW reason,
         s.turn.queued # << >> /\ reason = "interrupted" => s.refused = TRUE \/ cause \in g.w,
         g.c /\ s.turn.queued = << >> =>
           s.refused = TRUE \/ reason \in Covering \/ NobodyWaits(s.log),
         NEW t, t = FinishTurn(s, cause, reason)
  PROVE  Attentive(t, g)
<1>1. PICK u : u = EndTurn(s, cause, reason)
  OBVIOUS
<1>2. CASE s.turn.queued = << >>
  <2>1. t = u
    BY <1>1, <1>2 DEF FinishTurn
  <2> QED
    BY <1>1, <1>2, <2>1, EndTurnHeeds
<1>3. CASE s.turn.queued # << >>
  <2>1. PICK trigger, by : trigger = Last(s.turn.queued).seq /\ by = Last(s.turn.queued).cause
    OBVIOUS
  <2>2. t = OpenTurn(u, trigger, by)
    BY <1>1, <1>3, <2>1 DEF FinishTurn
  <2>3. PICK d : d = Deaf(g)
    OBVIOUS
  <2>4. Attentive(s, Deaf(d)) /\ d.c = FALSE
    BY <2>3, DeafIs
  <2>5. Attentive(u, d) /\ (u.refused # TRUE => EndsWith(s, u, cause, reason))
    BY <1>1, <2>4, EndTurnHeeds
  <2>6. u.refused = TRUE \/ Opens(u.log, trigger, g)
    BY <1>3, <2>1, <2>5, QueuedOpens
  <2>7. Attentive(u, Deaf(g))
    BY <2>3, <2>5
  <2> QED
    BY <2>2, <2>6, <2>7, OpenTurnHeeds
<1> QED
  BY <1>2, <1>3

\* The turn ends because its last request needs nothing more, or may not go on.
LEMMA FinishPlain ==
  ASSUME NEW s, NEW g, Attentive(s, g), Tried(s), s.turn.stage # "asking",
         NEW cause, NEW reason, reason # "interrupted",
         NEW t, t = FinishTurn(s, cause, reason)
  PROVE  Attentive(t, g)
<1>1. Attentive(s, Deaf(g))
  BY AttentiveDeaf
<1>2. ASSUME g.c, s.turn.queued = << >>, s.refused # TRUE PROVE NobodyWaits(s.log)
  <2> SUFFICES ASSUME NEW m, StillUnheard(s.log, m) PROVE FALSE
    BY DEF NobodyWaits
  <2>1. WillHear(s.turn, m)
    BY <1>2 DEF Attentive, Heeding
  <2>2. Len(s.turn.queued) = 0
    BY <1>2, EmptyIsSeq
  <2>3. ~\E i \in 1..Len(s.turn.queued) : s.turn.queued[i].seq = m
    BY <2>2
  <2>4. s.turn.requests # 0
    BY <1>2 DEF Tried
  <2> QED
    BY <2>1, <2>3, <2>4 DEF WillHear
<1> QED
  BY <1>1, <1>2, FinishTurnHeeds

----------------------------------------------------------------------------
(***************************************************************************)
(* Calls.                                                                  *)
(***************************************************************************)
\* Only the calls of the turn differ.
CallsOnly(s, t, g) ==
  /\ Attentive(t, g) /\ t.refused = s.refused /\ t.log = s.log
  /\ t.turn.id = s.turn.id /\ t.turn.cause = s.turn.cause
  /\ t.turn.stage = s.turn.stage /\ t.turn.mark = s.turn.mark
  /\ t.turn.queued = s.turn.queued /\ t.turn.requests = s.turn.requests
  /\ t.turn.intr = s.turn.intr

LEMMA CallsHeed ==
  ASSUME NEW s, NEW g, Attentive(s, g), NEW c, IsSeq(c),
         NEW t, t = [s EXCEPT !.turn.calls = c]
  PROVE  CallsOnly(s, t, g) /\ t.turn.calls = c
<1>1. Sound(s)
  BY DEF Attentive
<1>2. /\ t.log = s.log /\ t.book = s.book /\ t.stored = s.stored /\ Shapely(t)
      /\ t.refused = s.refused /\ t.restarting = s.restarting
      /\ t.turn.id = s.turn.id /\ t.turn.requests = s.turn.requests
      /\ t.turn.cause = s.turn.cause
      /\ t.turn.intr = s.turn.intr /\ t.turn.queued = s.turn.queued
      /\ t.turn.stage = s.turn.stage /\ t.turn.mark = s.turn.mark
      /\ t.turn.retrying = s.turn.retrying /\ t.turn.calls = c
  BY <1>1 DEF Sound, Shapely, KernelFields, TurnFields
<1>3. Sound(t)
  BY <1>1, <1>2 DEF Sound
<1>4. Attentive(t, g)
  BY <1>2, <1>3, AlongsideHeeds DEF Alongside, KeepsStage
<1> QED
  BY <1>2, <1>4 DEF CallsOnly

LEMMA MovedOnHeeds ==
  ASSUME NEW s, NEW g, Attentive(s, g), g.c => s.turn.stage # "asking",
         NEW stage, stage \in {"ready", "settling", "hooking"}, NEW t, Shapely(t),
         t.log = s.log, t.book = s.book, t.stored = s.stored,
         t.refused = s.refused, t.restarting = s.restarting,
         t.turn.id = s.turn.id, t.turn.requests = s.turn.requests,
         t.turn.queued = s.turn.queued, t.turn.retrying = s.turn.retrying,
         t.turn.intr = s.turn.intr \/ t.turn.intr.wake = 0,
         t.turn.stage = stage
  PROVE  Attentive(t, g)
<1>1. Sound(t)
  BY DEF Attentive, Sound
<1>2. Alongside(s, t)
  BY <1>1 DEF Alongside
<1>3. MovesOn(s, t)
  BY DEF MovesOn
<1> QED
  BY <1>2, <1>3, AlongsideHeeds

LEMMA ToolsHaveAsked ==
  ASSUME NEW s, NEW g, Attentive(s, g), s.turn.stage \in {"asking", "waiting", "tools"}
  PROVE  Tried(s)
BY DEF Attentive, HasAsked, Tried

LEMMA FinishStepHeeds ==
  ASSUME NEW s, NEW g, Attentive(s, g), s.turn.stage = "tools", NEW cause,
         NEW t, t = FinishStep(s, cause)
  PROVE  Attentive(t, g)
<1>1. Tried(s)
  BY ToolsHaveAsked
<1>2. CASE s.turn.requests >= s.policy.stepLimit
  <2>1. t = FinishTurn(s, cause, "step_limit")
    BY <1>2 DEF FinishStep
  <2>2. PICK reason : reason = "step_limit"
    OBVIOUS
  <2> QED
    BY <1>1, <2>1, <2>2, FinishPlain
<1>3. CASE ~(s.turn.requests >= s.policy.stepLimit)
  <2>1. PICK u : u = [s EXCEPT !.turn.stage = "ready", !.turn.mark = 0, !.turn.calls = << >>]
    OBVIOUS
  <2>2. t = RefreshFacts(u)
    BY <1>3, <2>1 DEF FinishStep
  <2>3. /\ u.log = s.log /\ u.book = s.book /\ u.stored = s.stored /\ Shapely(u)
        /\ u.refused = s.refused /\ u.restarting = s.restarting
        /\ u.turn.id = s.turn.id /\ u.turn.requests = s.turn.requests
        /\ u.turn.intr = s.turn.intr /\ u.turn.queued = s.turn.queued
        /\ u.turn.stage = "ready" /\ u.turn.retrying = s.turn.retrying
    BY <2>1, EmptyIsSeq DEF Attentive, Sound, Shapely, KernelFields, TurnFields
  <2>4. Attentive(u, g)
    BY <2>3, MovedOnHeeds
  <2> QED
    BY <2>2, <2>4, RefreshFactsHeeds
<1> QED
  BY <1>2, <1>3

LEMMA SettleCallsHeeds ==
  ASSUME NEW s, NEW g, Attentive(s, g), NEW at \in SUBSET (DOMAIN s.turn.calls),
         NEW cause, NEW why, NEW t, t = SettleCalls(s, at, cause, why)
  PROVE  Attentive(t, g)
<1>1. CASE s.turn.stage # "tools"
  BY <1>1 DEF SettleCalls
<1>2. CASE s.turn.stage = "tools"
  <2>0. Sound(s)
    BY DEF Attentive
  <2>1. PICK calls : calls = s.turn.calls
    OBVIOUS
  <2>2. PICK c : c = [i \in DOMAIN calls |->
                        IF i \in at THEN [calls[i] EXCEPT !.state = "done"] ELSE calls[i]]
    OBVIOUS
  <2>3. PICK done : done = [s EXCEPT !.turn.calls = c]
    OBVIOUS
  <2>4. IsSeq(calls) /\ at \in SUBSET (DOMAIN calls)
    BY <2>0, <2>1 DEF Sound, Shapely
  <2>5. IsSeq(c)
    <3>1. c = [j \in DOMAIN calls |-> c[j]]
      BY <2>2
    <3> QED
      BY <2>4, <3>1, EachOf
  <2>6. CallsOnly(s, done, g)
    BY <2>3, <2>5, CallsHeed
  <2>7. PICK h : h = [i \in DOMAIN calls |-> Result(calls[i].id, why[i])]
    OBVIOUS
  <2>8. QuietBodies(Picked(h, at))
    <3>1. \A i \in DOMAIN calls : \E call, said : h[i] = Result(call, said)
      BY <2>7
    <3>2. h = [i \in DOMAIN calls |-> h[i]]
      BY <2>7
    <3> QED
      BY <2>4, <3>1, <3>2, ResultsAreQuiet
  <2>9. PICK list, put : list = Picked(h, at) /\ put = PutEach(done, cause, list)
    OBVIOUS
  <2>10. Heeds(done, put, g)
    BY <2>6, <2>8, <2>9, PutEachQuiet DEF CallsOnly
  <2>11. Attentive(put, g) /\ put.turn.stage = "tools"
    BY <1>2, <2>6, <2>10 DEF Heeds, CallsOnly
  <2>12. PICK by, u : by = s.turn.cause /\ u = FinishStep(put, by)
    OBVIOUS
  <2>13. Attentive(u, g)
    BY <2>11, <2>12, FinishStepHeeds
  <2>14. t = IF at # {} /\ Finished(done.turn.calls) THEN u ELSE put
    <3>1. s.turn.calls = calls
      BY <2>1
    <3> QED
      BY <1>2, <2>0, <2>2, <2>3, <2>7, <2>9, <2>12, <3>1
         DEF SettleCalls, Sound, Shapely, KernelFields, TurnFields
  <2> QED
    BY <2>11, <2>13, <2>14
<1> QED
  BY <1>1, <1>2

LEMMA DispatchHeeds ==
  ASSUME NEW s, NEW g, Attentive(s, g), NEW t, t = Dispatch(s)
  PROVE  Attentive(t, g)
<1>1. CASE s.turn.stage # "tools" \/ s.stored < s.turn.mark
  BY <1>1 DEF Dispatch
<1>2. CASE ~(s.turn.stage # "tools" \/ s.stored < s.turn.mark)
  <2> DEFINE calls == s.turn.calls
             due(state) == {i \in DOMAIN calls : calls[i].state = state
                                                  /\ Landed(s, calls[i])}
             approved == due("approved")
             answered == due("answered")
             going == [i \in DOMAIN calls |->
                         IF i \in approved \union answered
                           THEN [calls[i] EXCEPT !.state = "running"]
                           ELSE calls[i]]
             next == Ready(going)
             c == [i \in DOMAIN going |-> IF i \in next
                      THEN [going[i] EXCEPT !.state = "guarding"] ELSE going[i]]
             a == {RunTool(s, calls[i]) : i \in approved}
                  \union {[a |-> "AnswerTool", call |-> calls[i].id] : i \in answered}
                  \union {[a |-> "GuardTool", call |-> calls[i].id] : i \in next}
  <2>1. Dispatch(s) = Do([s EXCEPT !.turn.calls = c], a)
    BY <1>2 DEF Dispatch
  <2>2. c = [i \in DOMAIN calls |-> c[i]]
    OBVIOUS
  <2> HIDE DEF c, a
  <2>3. IsSeq(c)
    BY <2>2, EachOf DEF Attentive, Sound, Shapely
  <2>4. PICK u, b, k : u = [s EXCEPT !.turn.calls = k] /\ b = a /\ k = c
    OBVIOUS
  <2>5. Attentive(u, g)
    BY <2>3, <2>4, CallsHeed DEF CallsOnly
  <2>6. t = Do(u, b)
    BY <2>1, <2>4
  <2> QED
    BY <2>5, <2>6, DoHeeds DEF Heeds
<1> QED
  BY <1>1, <1>2

LEMMA StartToolsHeeds ==
  ASSUME NEW s, NEW g, Attentive(s, g), Tried(s), s.turn.stage # "asking",
         NEW reply, NEW calls, IsSeq(calls), NEW cause,
         NEW t, t = StartTools(s, reply, calls, cause)
  PROVE  Attentive(t, g)
<1> DEFINE skipping == s.turn.interjected # None
           why(c) == IF skipping THEN "skipped"
                     ELSE IF c.access = "bad" THEN "unknown" ELSE "denied"
           blocked == {i \in DOMAIN calls :
                         skipping \/ calls[i].access = "bad"
                           \/ (calls[i].access = "write" /\ ReadOnlyNow(s))}
           pending == Picked(calls, DOMAIN calls \ blocked)
           h == [i \in DOMAIN calls |-> Result(calls[i].id, why(calls[i]))]
           by == IF skipping THEN s.turn.interjected ELSE cause
           list == Picked(h, blocked)
           put == PutEach(s, by, list)
           step == [put EXCEPT !.turn.stage = "tools", !.turn.mark = reply,
                               !.turn.calls = pending]
<1>1. t = IF pending = << >> THEN FinishStep(step, cause) ELSE step
  BY DEF StartTools
<1>2. blocked \in SUBSET (DOMAIN calls) /\ DOMAIN calls \ blocked \in SUBSET (DOMAIN calls)
  OBVIOUS
<1>3. h = [i \in DOMAIN calls |-> h[i]]
      /\ \A i \in DOMAIN calls : \E call, said : h[i] = Result(call, said)
  OBVIOUS
<1> HIDE DEF h, blocked
<1>4. QuietBodies(list)
  BY <1>2, <1>3, ResultsAreQuiet
<1>5. IsSeq(pending)
  BY <1>2, PickedIs
<1> HIDE DEF pending, by, list
<1>6. Heeds(s, put, g)
  BY <1>4, PutEachQuiet
<1> HIDE DEF put
<1>7. Attentive(put, g) /\ Tried(put) /\ put.turn = s.turn /\ Sound(put)
  BY <1>6, NotesTried DEF Heeds, Attentive
<1>8. /\ step.log = put.log /\ step.book = put.book /\ step.stored = put.stored
      /\ Shapely(step)
      /\ step.refused = put.refused /\ step.restarting = put.restarting
      /\ step.turn.id = put.turn.id /\ step.turn.requests = put.turn.requests
      /\ step.turn.intr = put.turn.intr /\ step.turn.queued = put.turn.queued
      /\ step.turn.stage = "tools" /\ step.turn.retrying = put.turn.retrying
  BY <1>5, <1>7 DEF Sound, Shapely, KernelFields, TurnFields
<1> HIDE DEF step
<1>9. Sound(step)
  BY <1>7, <1>8 DEF Sound
<1>10. Attentive(step, g)
  BY <1>7, <1>8, <1>9, AlongsideHeeds DEF Alongside, MovesOn
<1>11. Attentive(FinishStep(step, cause), g)
  BY <1>8, <1>10, FinishStepHeeds
<1> QED
  BY <1>1, <1>10, <1>11

----------------------------------------------------------------------------
(***************************************************************************)
(* The turn goes on.                                                       *)
(***************************************************************************)
LEMMA AskHeeds ==
  ASSUME NEW s, NEW g, Attentive(s, g), s.stored = Len(s.log), NEW t, t = Ask(s)
  PROVE  Attentive(t, g)
<1>1. Sound(s) /\ s.restarting = g.z
  BY DEF Attentive
<1>2. Sound(t)
  BY <1>1, AskStill DEF Still
<1>3. /\ t.log = s.log /\ t.refused = s.refused /\ t.restarting = s.restarting
      /\ t.turn.id = s.turn.id /\ t.turn.intr = s.turn.intr
      /\ t.turn.requests = IF s.turn.retrying THEN s.turn.requests ELSE s.turn.requests + 1
      /\ t.turn.queued = << >> /\ t.turn.stage = "asking" /\ t.turn.mark = s.stored
      /\ t.turn.retrying = FALSE
  <2>1. PICK r : r = IF s.turn.retrying THEN s.turn.requests ELSE s.turn.requests + 1
    OBVIOUS
  <2>2. PICK u : u = [s EXCEPT !.turn.requests = r, !.turn.retrying = FALSE,
                               !.turn.interjected = None, !.turn.queued = << >>,
                               !.turn.stage = "asking", !.turn.mark = s.stored]
    OBVIOUS
  <2>3. PICK a : a = {[a |-> "CallModel", seen |-> s.stored]}
    OBVIOUS
  <2>4. t = Do(u, a)
    BY <2>1, <2>2, <2>3 DEF Ask
  <2>5. /\ u.log = s.log /\ u.refused = s.refused /\ u.restarting = s.restarting
        /\ u.turn.id = s.turn.id /\ u.turn.intr = s.turn.intr
        /\ u.turn.requests = r /\ u.turn.queued = << >> /\ u.turn.stage = "asking"
        /\ u.turn.mark = s.stored /\ u.turn.retrying = FALSE
        /\ DOMAIN u = KernelFields
    BY <1>1, <2>2 DEF Sound, Shapely, KernelFields, TurnFields
  <2>6. /\ t.log = u.log /\ t.refused = u.refused /\ t.restarting = u.restarting
        /\ t.turn = u.turn
    BY <2>4, <2>5 DEF Do, KernelFields
  <2> QED
    BY <2>1, <2>5, <2>6
<1> HIDE DEF Ask
<1>4. CASE s.refused = TRUE
  BY <1>1, <1>2, <1>3, <1>4 DEF Attentive
<1>5. CASE s.refused # TRUE
  <2>1. /\ Founded(s.log, g) /\ Overhears(s.log, s.turn)
        /\ HasAsked(s.turn) /\ MeansIt(s.turn, g)
        /\ g.c => Heeding(s.log, s.turn)
    BY <1>5 DEF Attentive
  <2>2. Overhears(t.log, t.turn)
    BY <1>3, <2>1, EmptyIsSeq DEF Overhears
  <2>3. HasAsked(t.turn)
    BY <1>3, <2>1 DEF HasAsked
  <2>4. MeansIt(t.turn, g)
    BY <1>3, <2>1 DEF MeansIt
  <2>5. g.c => Heeding(t.log, t.turn)
    <3> SUFFICES ASSUME g.c, NEW m, StillUnheard(t.log, m) PROVE WillHear(t.turn, m)
      BY DEF Heeding
    <3>1. WillHear(s.turn, m)
      BY <1>3, <2>1 DEF Heeding
    <3>2. m \in 1..Len(s.log)
      BY <1>3 DEF StillUnheard
    <3>3. Len(s.log) \in Nat
      BY <1>1, SeqIsFunction DEF Sound, IsLog
    <3>4. t.turn.mark >= m
      BY <1>3, <3>2, <3>3
    <3> QED
      BY <1>3, <3>1, <3>4 DEF WillHear
  <2> QED
    BY <1>1, <1>2, <1>3, <2>1, <2>2, <2>3, <2>4, <2>5 DEF Attentive
<1> QED
  BY <1>4, <1>5

LEMMA AdvanceHeeds ==
  ASSUME NEW s, NEW g, Attentive(s, g), NEW t, t = Advance(s)
  PROVE  Attentive(t, g)
<1>1. PICK d : d = Dispatch(s)
  OBVIOUS
<1>2. Attentive(d, g)
  BY <1>1, DispatchHeeds
<1>3. PICK a : a = {[a |-> "RunTurnStartHooks", turn |-> s.turn.id]}
  OBVIOUS
<1>4. PICK u : u = [s EXCEPT !.turn.stage = "hooking"]
  OBVIOUS
<1>5. PICK h : h = Do(u, a)
  OBVIOUS
<1>6. ASSUME s.turn.stage = "opening" PROVE Attentive(h, g)
  <2>1. /\ u.log = s.log /\ u.book = s.book /\ u.stored = s.stored /\ Shapely(u)
        /\ u.refused = s.refused /\ u.restarting = s.restarting
        /\ u.turn.id = s.turn.id /\ u.turn.requests = s.turn.requests
        /\ u.turn.intr = s.turn.intr /\ u.turn.queued = s.turn.queued
        /\ u.turn.stage = "hooking" /\ u.turn.retrying = s.turn.retrying
    BY <1>4 DEF Attentive, Sound, Shapely, KernelFields, TurnFields
  <2>2. Attentive(u, g)
    BY <1>6, <2>1, MovedOnHeeds
  <2> QED
    BY <1>5, <2>2, DoHeeds DEF Heeds
<1>7. s.stored = Len(s.log) => Attentive(Ask(s), g)
  BY AskHeeds
<1>8. \/ t = d
      \/ t = h /\ s.turn.stage = "opening"
      \/ t = Ask(s) /\ s.stored = Len(s.log)
      \/ t = s
  BY <1>1, <1>3, <1>4, <1>5 DEF Advance
<1> QED
  BY <1>2, <1>6, <1>7, <1>8

LEMMA TurnStartHookedHeeds ==
  ASSUME NEW s, NEW g, Attentive(s, g), NEW turn, NEW injected,
         NEW t, t = TurnStartHooked(s, turn, injected)
  PROVE  Attentive(t, g)
<1>1. CASE s.turn.id # turn \/ s.turn.stage # "hooking"
  BY <1>1 DEF TurnStartHooked
<1>2. CASE ~(s.turn.id # turn \/ s.turn.stage # "hooking")
  <2>1. PICK u : u = [s EXCEPT !.turn.stage = "ready", !.turn.mark = 0]
    OBVIOUS
  <2>2. /\ u.log = s.log /\ u.book = s.book /\ u.stored = s.stored /\ Shapely(u)
        /\ u.refused = s.refused /\ u.restarting = s.restarting
        /\ u.turn.id = s.turn.id /\ u.turn.requests = s.turn.requests
        /\ u.turn.intr = s.turn.intr /\ u.turn.queued = s.turn.queued
        /\ u.turn.stage = "ready" /\ u.turn.retrying = s.turn.retrying
    BY <2>1 DEF Attentive, Sound, Shapely, KernelFields, TurnFields
  <2>3. Attentive(u, g)
    BY <1>2, <2>2, MovedOnHeeds
  <2>4. PICK cause, body : /\ cause = s.turn.cause
                           /\ body = [k |-> "context.injected", fact |-> "hook"]
    OBVIOUS
  <2>5. QuietBody(body)
    BY <2>4 DEF QuietBody, Fine, Loud
  <2>6. PICK put : put = Put(u, cause, body)
    OBVIOUS
  <2>7. Attentive(put, g)
    BY <2>3, <2>5, <2>6, PutQuiet DEF Heeds
  <2>8. PICK v, r : v = (IF injected THEN put ELSE u) /\ r = RefreshFacts(v)
    OBVIOUS
  <2>9. Attentive(r, g)
    BY <2>3, <2>7, <2>8, RefreshFactsHeeds
  <2>10. t = Advance(r)
    BY <1>2, <2>1, <2>4, <2>6, <2>8 DEF TurnStartHooked
  <2> QED
    BY <2>9, <2>10, AdvanceHeeds
<1> QED
  BY <1>1, <1>2

----------------------------------------------------------------------------
(***************************************************************************)
(* The model.                                                              *)
(***************************************************************************)
LEMMA AttentiveAgain ==
  ASSUME NEW s, NEW g, Attentive(s, Deaf(g)),
         g.c => s.refused = TRUE \/ Heeding(s.log, s.turn)
  PROVE  Attentive(s, g)
BY DeafHeeds DEF Attentive

\* Unheard before and after the event.
UnheardAside(s, cause, body, m) ==
  /\ s.refused # TRUE /\ StillUnheard(s.log, m)
  /\ \E e : /\ e = EventOf(s, cause, body) /\ e.k = body.k
            /\ IsSeq(s.log) /\ StillUnheard(Append(s.log, e), m)

\* What is unheard after a quiet event was unheard before.
LEMMA UnheardMore ==
  ASSUME NEW s, Sound(s), NEW cause, NEW body, Fine(body), body.k # "message.user",
         NEW p, p = Put(s, cause, body), p.refused # TRUE,
         NEW m, StillUnheard(p.log, m)
  PROVE  UnheardAside(s, cause, body, m)
<1>1. PICK e : e = EventOf(s, cause, body)
  OBVIOUS
<1>2. PutTo(s, p, e) /\ e.k = body.k
  BY <1>1, PutDoes
<1>3. p.log = Append(s.log, e) /\ s.refused # TRUE
  BY <1>2 DEF PutTo
<1>4. IsSeq(s.log)
  BY DEF Sound, IsLog
<1>5. PICK l : l = s.log
  OBVIOUS
<1>6. StillUnheard(Append(l, e), m)
  BY <1>3, <1>5
<1>7. StillUnheard(l, m)
  BY <1>2, <1>4, <1>5, <1>6, UnheardBefore
<1> QED
  BY <1>1, <1>2, <1>3, <1>4, <1>5, <1>6, <1>7 DEF UnheardAside

\* Who is not heard by a request will be.
HeardBy(s, seen) ==
  s.refused = TRUE \/ \A m : StillUnheard(s.log, m) => seen >= m \/ WillHear(s.turn, m)

Settled(s, r, g) ==
  /\ Attentive(r.s, g) /\ r.s.turn = s.turn /\ IsSeq(r.calls)
  /\ s.refused = TRUE => r.s.refused = TRUE

LEMMA SettleHeeds ==
  ASSUME NEW s, NEW g, Attentive(s, Deaf(g)), NEW seen, g.c => HeardBy(s, seen),
         NEW cause, NEW ending, IsSeq(ending.calls), NEW cut,
         NEW r, r = Settle(s, seen, cause, ending, cut)
  PROVE  Settled(s, r, g)
<1> DEFINE failed == ending.error # "none"
           kept == IF ending.sent /\ (cut \/ ~failed) THEN ending.calls ELSE << >>
           replied == ending.sent /\ (ending.text \/ kept # << >>)
           error == IF ~cut /\ ~failed /\ ~replied THEN "retry" ELSE ending.error
           calls == NumberedCalls(s.book.next, kept)
           said == [k |-> "message.assistant", seen |-> seen,
                    calls |-> [i \in DOMAIN calls |-> calls[i].id]]
           put == IF replied THEN Put(s, cause, said) ELSE s
           called == [k |-> "model.called", seen |-> seen, aside |-> FALSE,
                      result |-> IF cut THEN "interrupted"
                                 ELSE IF error = "none" THEN "ok" ELSE "error"]
<1>1. r.s = Put(put, cause, called) /\ r.calls = calls
  BY DEF Settle
<1>2. IsSeq(kept)
  BY EmptyIsSeq
<1> HIDE DEF kept
<1>3. IsSeq(calls)
  BY <1>2, NumberedCallsAreSeq
<1> HIDE DEF replied, calls
<1>4. QuietBody(said) /\ Fine(said) /\ said.k # "message.user"
  <2>1. PICK c : c = [i \in DOMAIN calls |-> calls[i].id]
    OBVIOUS
  <2>2. c = [i \in DOMAIN calls |-> c[i]]
    BY <2>1
  <2>3. IsSeq(c)
    BY <1>3, <2>2, EachOf
  <2> QED
    BY <2>1, <2>3 DEF Fine, QuietBody, Loud
<1>5. QuietBody(called) /\ Fine(called) /\ called.k = "model.called" /\ called.seen = seen
      /\ "seen" \in DOMAIN called \ {"seq", "turn", "cause"}
  BY DEF Fine, QuietBody, Loud
<1> HIDE DEF said, called
<1>6. Heeds(s, put, Deaf(g))
  <2>1. PICK d : d = Deaf(g)
    OBVIOUS
  <2>2. PICK p : p = Put(s, cause, said)
    OBVIOUS
  <2>3. Heeds(s, p, d) /\ Heeds(s, s, d)
    BY <1>4, <2>1, <2>2, PutQuiet, NotesIsReflexive
  <2> QED
    BY <2>1, <2>2, <2>3
<1>7. ASSUME NEW m, StillUnheard(put.log, m), put.refused # TRUE
      PROVE  StillUnheard(s.log, m) /\ s.refused # TRUE
  <2>1. CASE replied
    <3>1. PICK p : p = Put(s, cause, said)
      OBVIOUS
    <3>2. put = p
      BY <2>1, <3>1
    <3>3. Sound(s)
      BY DEF Attentive
    <3> HIDE DEF put
    <3> QED
      BY <1>4, <1>7, <3>1, <3>2, <3>3, UnheardMore DEF UnheardAside
  <2>2. CASE ~replied
    BY <1>7, <2>2
  <2> QED
    BY <2>1, <2>2
<1> HIDE DEF put
<1>8. PICK p, u, d : p = put /\ u = r.s /\ d = Deaf(g)
  OBVIOUS
<1>9. Heeds(p, u, d)
  <2>1. Attentive(p, d)
    BY <1>6, <1>8 DEF Heeds
  <2>2. u = Put(p, cause, called)
    BY <1>1, <1>8
  <2> QED
    BY <1>5, <2>1, <2>2, PutQuiet
<1>10. /\ Attentive(u, Deaf(g)) /\ u.turn = s.turn /\ Sound(p)
       /\ s.refused = TRUE => u.refused = TRUE
  BY <1>6, <1>8, <1>9 DEF Heeds, Attentive
<1>11. ASSUME g.c, u.refused # TRUE PROVE Heeding(u.log, u.turn)
  <2> SUFFICES ASSUME NEW m, StillUnheard(u.log, m) PROVE WillHear(s.turn, m)
    BY <1>10 DEF Heeding
  <2>1. u = Put(p, cause, called)
    BY <1>1, <1>8
  <2>2. /\ p.refused # TRUE /\ StillUnheard(p.log, m)
        /\ \E e : /\ e = EventOf(p, cause, called) /\ e.k = called.k
                  /\ IsSeq(p.log) /\ StillUnheard(Append(p.log, e), m)
    <3>1. UnheardAside(p, cause, called, m)
      BY <1>5, <1>10, <1>11, <2>1, UnheardMore
    <3> QED
      BY <3>1 DEF UnheardAside
  <2>3. PICK e : /\ e = EventOf(p, cause, called) /\ e.k = called.k
                 /\ IsSeq(p.log) /\ StillUnheard(Append(p.log, e), m)
    BY <2>2
  <2>4. e.seen = seen
    <3>1. "seen" \in DOMAIN called \ {"seq", "turn", "cause"}
      BY <1>5
    <3>2. PICK n, x : e = Event(n, x, cause, called)
      BY <2>3 DEF EventOf
    <3> QED
      BY <1>5, <3>1, <3>2, EventIs
  <2>5. ~(seen >= m)
    <3>1. PICK l : l = p.log
      OBVIOUS
    <3>2. ~(e.k = "model.called" /\ e.seen >= m)
      BY <2>3, <3>1, UnheardAtLast
    <3> QED
      BY <1>5, <2>3, <2>4, <3>2
  <2>6. StillUnheard(s.log, m) /\ s.refused # TRUE
    BY <1>7, <1>8, <2>2
  <2> QED
    BY <1>11, <2>5, <2>6 DEF HeardBy
<1>12. Attentive(u, g)
  BY <1>10, <1>11, AttentiveAgain
<1> QED
  BY <1>1, <1>3, <1>8, <1>10, <1>12 DEF Settled

LEMMA WaitToRetryHeeds ==
  ASSUME NEW s, NEW g, Attentive(s, g), Tried(s), s.turn.stage # "asking",
         NEW seen, NEW cause, NEW cut, NEW t, t = WaitToRetry(s, seen, cause, cut)
  PROVE  Attentive(t, g)
<1>1. PICK p : p = Put(s, cause, [k |-> "context.injected", fact |-> "cut"])
  OBVIOUS
<1>2. PICK put : put = IF cut THEN p ELSE s
  OBVIOUS
<1>3. Heeds(s, put, g)
  <2>1. QuietBody([k |-> "context.injected", fact |-> "cut"])
    BY DEF Fine, QuietBody, Loud
  <2>2. Heeds(s, p, g)
    BY <1>1, <2>1, PutQuiet
  <2> QED
    BY <1>2, <2>2, NotesIsReflexive
<1>4. PICK u : u = [put EXCEPT !.turn.retries = @ + 1, !.turn.retrying = TRUE,
                               !.turn.stage = "waiting", !.turn.mark = seen]
  OBVIOUS
<1>5. PICK a : a = {[a |-> "Wake", seen |-> seen]}
  OBVIOUS
<1>6. t = Do(u, a)
  BY <1>1, <1>2, <1>4, <1>5 DEF WaitToRetry
<1>7. Attentive(put, g) /\ Tried(put) /\ put.turn = s.turn /\ Sound(put)
  BY <1>3, NotesTried DEF Heeds, Attentive
<1>8. /\ u.log = put.log /\ u.book = put.book /\ u.stored = put.stored /\ Shapely(u)
      /\ u.refused = put.refused /\ u.restarting = put.restarting
      /\ u.turn.id = put.turn.id /\ u.turn.requests = put.turn.requests
      /\ u.turn.intr = put.turn.intr /\ u.turn.queued = put.turn.queued
      /\ u.turn.stage = "waiting"
  BY <1>4, <1>7 DEF Sound, Shapely, KernelFields, TurnFields
<1>9. Sound(u)
  BY <1>7, <1>8 DEF Sound
<1>10. Attentive(u, g)
  BY <1>7, <1>8, <1>9, AlongsideHeeds DEF Alongside, MovesOn
<1> QED
  BY <1>6, <1>10, DoHeeds DEF Heeds

LEMMA ModelEndedHeeds ==
  ASSUME NEW s, NEW g, Attentive(s, g), NEW seen, NEW ending, IsSeq(ending.calls),
         NEW t, t = ModelEnded(s, seen, ending)
  PROVE  Attentive(t, g)
<1>1. CASE s.turn.stage # "asking" \/ s.turn.mark # seen
  BY <1>1 DEF ModelEnded
<1>2. CASE ~(s.turn.stage # "asking" \/ s.turn.mark # seen)
  <2>1. PICK cause : cause = s.turn.cause
    OBVIOUS
  <2>2. PICK taken : taken = [s EXCEPT !.turn.stage = "settling", !.turn.mark = 0]
    OBVIOUS
  <2>3. /\ taken.log = s.log /\ taken.book = s.book /\ taken.stored = s.stored
        /\ taken.refused = s.refused /\ taken.restarting = s.restarting
        /\ taken.turn.id = s.turn.id /\ taken.turn.requests = s.turn.requests
        /\ taken.turn.queued = s.turn.queued /\ taken.turn.retrying = s.turn.retrying
        /\ taken.turn.intr = s.turn.intr
        /\ taken.turn.stage = "settling" /\ Shapely(taken)
    BY <2>2 DEF Attentive, Sound, Shapely, KernelFields, TurnFields
  <2>4. PICK d : d = Deaf(g)
    OBVIOUS
  <2>5. Attentive(s, d) /\ (d.c => s.turn.stage # "asking")
    BY <2>4, AttentiveDeaf, DeafIs
  <2>6. Attentive(taken, d)
    BY <2>3, <2>5, MovedOnHeeds
  <2>7. g.c => HeardBy(taken, seen)
    BY <1>2, <2>3 DEF Attentive, Heeding, HeardBy, WillHear
  <2>8. PICK r : r = Settle(taken, seen, cause, ending, FALSE)
    OBVIOUS
  <2>9. Settled(taken, r, g)
    BY <2>4, <2>6, <2>7, <2>8, SettleHeeds
  <2>10. Tried(s)
    BY <1>2, ToolsHaveAsked
  <2>11. PICK u : u = r.s
    OBVIOUS
  <2>12. /\ Attentive(u, g) /\ Tried(u) /\ u.turn.stage = "settling" /\ IsSeq(r.calls)
         /\ Sound(u)
    BY <2>3, <2>9, <2>10, <2>11 DEF Settled, Tried, Attentive
  <2>13. PICK calm : calm = [u EXCEPT !.turn.retries = 0]
    OBVIOUS
  <2>14. /\ calm.log = u.log /\ calm.book = u.book /\ calm.stored = u.stored
         /\ calm.refused = u.refused /\ calm.restarting = u.restarting
         /\ calm.turn.id = u.turn.id /\ calm.turn.requests = u.turn.requests
         /\ calm.turn.queued = u.turn.queued /\ calm.turn.retrying = u.turn.retrying
         /\ calm.turn.intr = u.turn.intr
         /\ calm.turn.stage = "settling" /\ Shapely(calm)
    BY <2>12, <2>13 DEF Sound, Shapely, KernelFields, TurnFields
  <2>15. Attentive(calm, g) /\ Tried(calm)
    <3>1. Attentive(calm, g)
      BY <2>12, <2>14, MovedOnHeeds
    <3> QED
      BY <2>12, <2>14, <3>1 DEF Tried
  <2>16. PICK late, failed, step, over :
           /\ late = WaitToRetry(u, seen, cause, r.reply # 0)
           /\ failed = FinishTurn(u, cause, "error")
           /\ step = StartTools(calm, r.reply, r.calls, cause)
           /\ over = FinishTurn(calm, cause, "completed")
    OBVIOUS
  <2>17. Attentive(late, g)
    BY <2>12, <2>16, WaitToRetryHeeds
  <2>18. Attentive(failed, g)
    <3>1. PICK why : why = "error"
      OBVIOUS
    <3> QED
      BY <2>12, <2>16, <3>1, FinishPlain
  <2>19. Attentive(step, g)
    BY <2>12, <2>14, <2>15, <2>16, StartToolsHeeds
  <2>20. Attentive(over, g)
    <3>1. PICK why : why = "completed"
      OBVIOUS
    <3> QED
      BY <2>14, <2>15, <2>16, <3>1, FinishPlain
  <2>21. t \in {late, failed, step, over}
    BY <1>2, <2>1, <2>2, <2>8, <2>11, <2>13, <2>16 DEF ModelEnded
  <2> QED
    BY <2>17, <2>18, <2>19, <2>20, <2>21
<1> QED
  BY <1>1, <1>2

----------------------------------------------------------------------------
(***************************************************************************)
(* Interrupting.                                                           *)
(***************************************************************************)
\* Nobody waits for anything any more.
Emptied(s, t, g) ==
  /\ Attentive(t, g) /\ t.turn.queued = << >>
  /\ s.refused = TRUE => t.refused = TRUE

LEMMA QueueEmptied ==
  ASSUME NEW s, NEW g, Attentive(s, Deaf(g)), NEW t, t = [s EXCEPT !.turn.queued = << >>]
  PROVE  Emptied(s, t, Deaf(g))
<1>1. PICK d : d = Deaf(g)
  OBVIOUS
<1>2. /\ t.log = s.log /\ t.book = s.book /\ t.stored = s.stored /\ Shapely(t)
      /\ t.refused = s.refused /\ t.restarting = s.restarting
      /\ t.turn.id = s.turn.id /\ t.turn.requests = s.turn.requests
      /\ t.turn.intr = s.turn.intr /\ t.turn.queued = << >>
      /\ t.turn.stage = s.turn.stage /\ t.turn.mark = s.turn.mark
      /\ t.turn.retrying = s.turn.retrying
  BY DEF Attentive, Sound, Shapely, KernelFields, TurnFields
<1>3. Sound(t)
  BY <1>2 DEF Attentive, Sound
<1>4. Attentive(s, d) /\ ~d.c
  BY <1>1, DeafIs
<1>5. Attentive(t, d)
  BY <1>2, <1>3, <1>4, AlongsideHeeds DEF Alongside, KeepsStage
<1> QED
  BY <1>1, <1>2, <1>5 DEF Emptied

LEMMA WithdrawQueuedHeeds ==
  ASSUME NEW s, NEW g, Attentive(s, Deaf(g)), NEW cause,
         NEW t, t = WithdrawQueued(s, cause)
  PROVE  Emptied(s, t, Deaf(g))
<1>1. CASE s.turn.queued = << >>
  BY <1>1 DEF WithdrawQueued, Emptied
<1>2. CASE s.turn.queued # << >>
  <2>1. PICK u : u = [s EXCEPT !.turn.queued = << >>]
    OBVIOUS
  <2>2. Emptied(s, u, Deaf(g))
    BY <2>1, QueueEmptied
  <2>3. PICK body : body = [k |-> "message.withdrawn",
                            msgs |-> [i \in DOMAIN s.turn.queued |-> s.turn.queued[i].seq]]
    OBVIOUS
  <2>4. QuietBody(body)
    BY <2>3 DEF QuietBody, Fine, Loud
  <2>5. t = Put(u, cause, body)
    BY <1>2, <2>1, <2>3 DEF WithdrawQueued
  <2>6. PICK d : d = Deaf(g)
    OBVIOUS
  <2>7. Heeds(u, t, d)
    BY <2>2, <2>4, <2>5, <2>6, PutQuiet DEF Emptied
  <2> QED
    BY <2>2, <2>6, <2>7 DEF Emptied, Heeds
<1> QED
  BY <1>1, <1>2

LEMMA CloseInterruptedHeeds ==
  ASSUME NEW s, NEW g, Attentive(s, Deaf(g)), NEW cause, NEW queued \in Queueings,
         queued = "send" => s.refused = TRUE \/ cause \in g.w,
         NEW t, t = CloseInterrupted(s, cause, queued)
  PROVE  Attentive(t, g)
<1>1. PICK left : left = CASE queued = "return" -> WithdrawQueued(s, cause)
                           [] queued = "keep"   -> [s EXCEPT !.turn.queued = << >>]
                           [] queued = "send"   -> s
  OBVIOUS
<1>2. PICK reason : reason = "interrupted"
  OBVIOUS
<1>3. t = FinishTurn(left, cause, reason)
  BY <1>1, <1>2 DEF CloseInterrupted
<1>4. /\ Attentive(left, Deaf(g))
      /\ left.turn.queued # << >> => left.refused = TRUE \/ cause \in g.w
  <2>1. CASE queued = "return"
    <3>1. left = WithdrawQueued(s, cause)
      BY <1>1, <2>1
    <3>2. Emptied(s, left, Deaf(g))
      BY <3>1, WithdrawQueuedHeeds
    <3> QED
      BY <3>2 DEF Emptied
  <2>2. CASE queued = "keep"
    <3>1. left = [s EXCEPT !.turn.queued = << >>]
      BY <1>1, <2>2
    <3>2. Emptied(s, left, Deaf(g))
      BY <3>1, QueueEmptied
    <3> QED
      BY <3>2 DEF Emptied
  <2>3. CASE queued = "send"
    BY <1>1, <2>3
  <2> QED
    BY <2>1, <2>2, <2>3 DEF Queueings
<1>5. reason \in Covering
  BY <1>2 DEF Covering
<1> QED
  BY <1>3, <1>4, <1>5, FinishTurnHeeds

LEMMA CancelStepHeeds ==
  ASSUME NEW s, NEW g, Attentive(s, g), NEW cause, NEW t, t = CancelStep(s, cause)
  PROVE  /\ Attentive(t, g) /\ t.turn.stage = s.turn.stage
         /\ t.turn.id = s.turn.id /\ (s.refused = TRUE => t.refused = TRUE)
<1> DEFINE calls == s.turn.calls
           stopping(c) == c.state = "stopping" \/ (c.state = "running" /\ c.access = "write")
           left == {i \in DOMAIN calls : calls[i].state # "done" /\ ~stopping(calls[i])}
           c == [i \in DOMAIN calls |->
                   [calls[i] EXCEPT !.state = IF stopping(calls[i]) THEN "stopping"
                                              ELSE "done"]]
           marked == [s EXCEPT !.turn.calls = c]
           h == [i \in DOMAIN calls |-> Result(calls[i].id, CutReason(calls[i]))]
           list == Picked(h, left)
           put == PutEach(marked, cause, list)
           actions == {[a |-> "StopTool", call |-> calls[i].id] :
                         i \in {j \in DOMAIN calls : calls[j].state = "running"
                                                      /\ stopping(calls[j])}}
                      \union {[a |-> "CancelTool", call |-> calls[i].id] :
                         i \in {j \in DOMAIN calls : Executing(calls[j])
                                                      /\ ~stopping(calls[j])}}
<1>1. t = Do(put, actions)
  BY DEF CancelStep
<1>2. /\ c = [i \in DOMAIN calls |-> c[i]] /\ h = [i \in DOMAIN calls |-> h[i]]
      /\ \A i \in DOMAIN calls : \E call, why : h[i] = Result(call, why)
  OBVIOUS
<1>3. left \in SUBSET (DOMAIN calls)
  OBVIOUS
<1>4. IsSeq(calls)
  BY DEF Attentive, Sound, Shapely
<1> HIDE DEF actions, left, h, c, calls
<1>5. IsSeq(c)
  BY <1>2, <1>4, EachOf
<1>6. QuietBodies(list)
  BY <1>2, <1>3, <1>4, ResultsAreQuiet
<1> HIDE DEF list
<1>7. PICK u, v, b, w : u = marked /\ v = put /\ b = actions /\ w = c
  OBVIOUS
<1>8. CallsOnly(s, u, g)
  <2>1. u = [s EXCEPT !.turn.calls = w] /\ IsSeq(w)
    BY <1>5, <1>7
  <2> QED
    BY <2>1, CallsHeed
<1>9. Heeds(u, v, g)
  BY <1>6, <1>7, <1>8, PutEachQuiet DEF CallsOnly
<1>10. Heeds(v, t, g)
  <2>1. t = Do(v, b)
    BY <1>1, <1>7
  <2>2. Attentive(v, g)
    BY <1>9 DEF Heeds
  <2> QED
    BY <2>1, <2>2, DoHeeds
<1> QED
  BY <1>8, <1>9, <1>10 DEF Heeds, CallsOnly

\* A list of results of calls.
LEMMA ResultListIsQuiet ==
  ASSUME NEW calls, IsSeq(calls), NEW h, h = [i \in DOMAIN calls |-> h[i]],
         \A i \in DOMAIN calls : \E call, why : h[i] = Result(call, why)
  PROVE  QuietBodies(h)
BY ResultsAreQuiet

LEMMA ForceStopHeeds ==
  ASSUME NEW s, NEW g, Attentive(s, g), NEW cause, NEW queued \in Queueings,
         queued = "send" => s.refused = TRUE \/ s.turn.intr.wake = 0 \/ cause \in g.w,
         NEW t, t = ForceStop(s, cause, queued)
  PROVE  Attentive(t, g)
<1>1. CASE s.turn.intr.wake = 0
  BY <1>1 DEF ForceStop
<1>2. CASE s.turn.intr.wake # 0
  <2>1. PICK left : left = StillStopping(s)
    OBVIOUS
  <2>2. PICK u : u = [s EXCEPT !.turn.intr = NotInterrupting,
                               !.turn.stage = "settling", !.turn.calls = << >>]
    OBVIOUS
  <2>3. PICK d : d = Deaf(g)
    OBVIOUS
  <2>4. Attentive(s, d) /\ (d.c => s.turn.stage # "asking")
    BY <2>3, AttentiveDeaf, DeafIs
  <2>5. /\ u.log = s.log /\ u.book = s.book /\ u.stored = s.stored
        /\ u.refused = s.refused /\ u.restarting = s.restarting
        /\ u.turn.id = s.turn.id /\ u.turn.requests = s.turn.requests
        /\ u.turn.queued = s.turn.queued /\ u.turn.retrying = s.turn.retrying
        /\ u.turn.intr.wake = 0
        /\ u.turn.stage = "settling" /\ Shapely(u)
    BY <2>2, EmptyIsSeq
       DEF Attentive, Sound, Shapely, KernelFields, TurnFields, NotInterrupting, Queueings
  <2>6. Attentive(u, d)
    BY <2>4, <2>5, MovedOnHeeds
  <2>7. PICK h : h = [i \in DOMAIN left |-> Result(left[i].id, "running")]
    OBVIOUS
  <2>8. QuietBodies(h)
    <3>1. IsSeq(left)
      BY <2>1, StillStoppingIsSeq DEF Attentive
    <3>2. /\ h = [i \in DOMAIN left |-> h[i]]
          /\ \A i \in DOMAIN left : \E call, why : h[i] = Result(call, why)
      BY <2>7
    <3> QED
      BY <3>1, <3>2, ResultListIsQuiet
  <2>9. PICK settled : settled = PutEach(u, cause, h)
    OBVIOUS
  <2>10. Heeds(u, settled, d)
    BY <2>6, <2>8, <2>9, PutEachQuiet
  <2>11. PICK closed : closed = CloseInterrupted(settled, cause, queued)
    OBVIOUS
  <2>12. Attentive(closed, g)
    <3>1. /\ Attentive(settled, Deaf(g))
          /\ queued = "send" => settled.refused = TRUE \/ cause \in g.w
      BY <1>2, <2>3, <2>5, <2>10 DEF Heeds
    <3> QED
      BY <2>11, <3>1, CloseInterruptedHeeds
  <2>13. PICK actions : actions = {[a |-> "CancelTool", call |-> left[i].id] :
                                     i \in DOMAIN left}
    OBVIOUS
  <2>14. t = Do(closed, actions)
    BY <1>2, <2>1, <2>2, <2>7, <2>9, <2>11, <2>13 DEF ForceStop
  <2> QED
    BY <2>12, <2>14, DoHeeds DEF Heeds
<1> QED
  BY <1>1, <1>2

LEMMA ForceStopAsBeforeHeeds ==
  ASSUME NEW s, NEW g, Attentive(s, g), NEW t, t = ForceStopAsBefore(s)
  PROVE  Attentive(t, g)
<1>1. PICK cause, queued : cause = s.turn.intr.cause /\ queued = s.turn.intr.queued
  OBVIOUS
<1>2. queued \in Queueings
  BY <1>1 DEF Attentive, Sound, Shapely
<1>3. queued = "send" => s.refused = TRUE \/ s.turn.intr.wake = 0 \/ cause \in g.w
  BY <1>1 DEF Attentive, MeansIt
<1>4. t = ForceStop(s, cause, queued)
  BY <1>1 DEF ForceStopAsBefore
<1> QED
  BY <1>2, <1>3, <1>4, ForceStopHeeds

LEMMA WokeHeeds ==
  ASSUME NEW s, NEW g, Attentive(s, g), NEW seen, NEW t, t = Woke(s, seen)
  PROVE  Attentive(t, g)
<1>1. PICK u : u = [s EXCEPT !.turn.stage = "ready", !.turn.mark = 0]
  OBVIOUS
<1>2. ASSUME s.turn.stage = "waiting" PROVE Attentive(u, g)
  <2>1. /\ u.log = s.log /\ u.book = s.book /\ u.stored = s.stored /\ Shapely(u)
        /\ u.refused = s.refused /\ u.restarting = s.restarting
        /\ u.turn.id = s.turn.id /\ u.turn.requests = s.turn.requests
        /\ u.turn.intr = s.turn.intr /\ u.turn.queued = s.turn.queued
        /\ u.turn.stage = "ready" /\ u.turn.retrying = s.turn.retrying
    BY <1>1 DEF Attentive, Sound, Shapely, KernelFields, TurnFields
  <2> QED
    BY <1>2, <2>1, MovedOnHeeds
<1>3. PICK r, v, f : r = RefreshFacts(u) /\ v = Advance(r) /\ f = ForceStopAsBefore(s)
  OBVIOUS
<1>4. ASSUME s.turn.stage = "waiting" PROVE Attentive(v, g)
  BY <1>2, <1>3, <1>4, RefreshFactsHeeds, AdvanceHeeds
<1>5. Attentive(f, g)
  BY <1>3, ForceStopAsBeforeHeeds
<1>6. t = f \/ (t = v /\ s.turn.stage = "waiting") \/ t = s
  BY <1>1, <1>3 DEF Woke
<1> QED
  BY <1>4, <1>5, <1>6

----------------------------------------------------------------------------
(***************************************************************************)
(* Answering commands.                                                     *)
(***************************************************************************)
\* Only what is remembered and said of commands differs.
Telling(s, t) ==
  /\ t.log = s.log /\ t.book = s.book /\ t.stored = s.stored /\ t.turn = s.turn
  /\ t.refused = s.refused /\ t.restarting = s.restarting /\ DOMAIN t = KernelFields

LEMMA TellingHeeds ==
  ASSUME NEW s, NEW g, Attentive(s, g), NEW t, Telling(s, t)
  PROVE  Heeds(s, t, g)
<1>1. Sound(t)
  BY DEF Attentive, Sound, Shapely, Telling
<1>2. Attentive(t, g)
  BY <1>1, SameTurnHeeds DEF Telling
<1> QED
  BY <1>2 DEF Heeds, Telling

LEMMA AnswersTell ==
  ASSUME NEW s, DOMAIN s = KernelFields, NEW id, NEW events
  PROVE  /\ Telling(s, Accept(s, id, events)) /\ Telling(s, Reply(s, id, events))
         /\ Telling(s, Reject(s, id)) /\ Telling(s, AcceptEmpty(s, id))
         /\ Telling(s, ReplyWhenStored(s, id, events))
<1>1. Telling(s, Accept(s, id, events))
  BY DEF Telling, Accept, KernelFields
<1>2. Telling(s, Reply(s, id, events)) /\ Telling(s, Reject(s, id))
  BY DEF Telling, Reply, Reject, KernelFields
<1>3. Telling(s, AcceptEmpty(s, id))
  <2>1. PICK u : u = [s EXCEPT !.recent = Remember(@, id, << >>)]
    OBVIOUS
  <2>2. Telling(s, u)
    BY <2>1 DEF Telling, KernelFields
  <2>3. PICK v : v = [u EXCEPT !.replies = Append(@, [id |-> id, ok |-> TRUE,
                                                      events |-> << >>])]
    OBVIOUS
  <2>4. Telling(u, v)
    BY <2>2, <2>3 DEF Telling, KernelFields
  <2>5. AcceptEmpty(s, id) = v
    BY <2>1, <2>3 DEF AcceptEmpty, Reply
  <2> QED
    BY <2>2, <2>4, <2>5 DEF Telling
<1>4. Telling(s, ReplyWhenStored(s, id, events))
  <2>1. PICK u : u = [s EXCEPT !.waiting = Append(@, [id |-> id, events |-> events])]
    OBVIOUS
  <2>2. Telling(s, u)
    BY <2>1 DEF Telling, KernelFields
  <2>3. ReplyWhenStored(s, id, events) \in {Reply(s, id, events), u}
    BY <2>1 DEF ReplyWhenStored
  <2> QED
    BY <1>2, <2>2, <2>3
<1> QED
  BY <1>1, <1>2, <1>3, <1>4

LEMMA AnswersHeed ==
  ASSUME NEW s, NEW g, Attentive(s, g), NEW id, NEW events,
         NEW t, t \in {Accept(s, id, events), Reply(s, id, events), Reject(s, id),
                       AcceptEmpty(s, id), ReplyWhenStored(s, id, events)}
  PROVE  Heeds(s, t, g)
<1>1. DOMAIN s = KernelFields
  BY DEF Attentive, Sound, Shapely
<1>2. Telling(s, t)
  BY <1>1, AnswersTell
<1> QED
  BY <1>2, TellingHeeds

LEMMA WaitForStoppingHeeds ==
  ASSUME NEW s, NEW g, Attentive(s, g), NEW s0, NEW id, NEW queued \in Queueings,
         queued = "send" => id \in g.w,
         NEW t, t = WaitForStopping(s0, s, id, queued)
  PROVE  Attentive(t, g)
<1>1. PICK waiting : waiting = [s EXCEPT !.turn.intr =
                                  [cause |-> id, queued |-> queued, wake |-> s.turn.mark]]
  OBVIOUS
<1>2. PICK events, actions : /\ events = Since(s0, s)
                             /\ actions = {[a |-> "Wake", seen |-> s.turn.mark]}
  OBVIOUS
<1>3. /\ waiting.log = s.log /\ waiting.book = s.book /\ waiting.stored = s.stored
      /\ waiting.refused = s.refused /\ waiting.restarting = s.restarting
      /\ waiting.turn.id = s.turn.id /\ waiting.turn.requests = s.turn.requests
      /\ waiting.turn.queued = s.turn.queued /\ waiting.turn.stage = s.turn.stage
      /\ waiting.turn.mark = s.turn.mark /\ waiting.turn.retrying = s.turn.retrying
      /\ waiting.turn.intr.cause = id /\ waiting.turn.intr.queued = queued
      /\ Shapely(waiting)
  BY <1>1 DEF Attentive, Sound, Shapely, KernelFields, TurnFields
<1>4. Sound(waiting) /\ waiting.restarting = g.z
  BY <1>3 DEF Attentive, Sound
<1>5. MeansIt(waiting.turn, g)
  BY <1>3 DEF MeansIt
<1>6. ASSUME s.refused # TRUE
      PROVE  /\ Founded(waiting.log, g) /\ Overhears(waiting.log, waiting.turn)
             /\ HasAsked(waiting.turn)
             /\ g.c => Heeding(waiting.log, waiting.turn)
  <2>1. /\ Founded(s.log, g) /\ Overhears(s.log, s.turn) /\ HasAsked(s.turn)
        /\ g.c => Heeding(s.log, s.turn)
    BY <1>6 DEF Attentive
  <2>2. Overhears(waiting.log, waiting.turn)
    BY <1>3, <2>1 DEF Overhears
  <2>3. HasAsked(waiting.turn)
    BY <1>3, <2>1 DEF HasAsked
  <2>4. g.c => Heeding(waiting.log, waiting.turn)
    BY <1>3, <2>1 DEF Heeding, WillHear
  <2> QED
    BY <1>3, <2>1, <2>2, <2>3, <2>4
<1>7. Attentive(waiting, g)
  BY <1>3, <1>4, <1>5, <1>6 DEF Attentive
<1>8. PICK told : told = IF events = << >> THEN AcceptEmpty(waiting, id)
                                           ELSE Accept(waiting, id, events)
  OBVIOUS
<1>9. told \in {Accept(waiting, id, events), Reply(waiting, id, events), Reject(waiting, id),
                AcceptEmpty(waiting, id), ReplyWhenStored(waiting, id, events)}
  BY <1>8
<1>10. Attentive(told, g)
  BY <1>7, <1>9, AnswersHeed DEF Heeds
<1>11. t = Do(told, actions)
  BY <1>1, <1>2, <1>8 DEF WaitForStopping
<1> QED
  BY <1>10, <1>11, DoHeeds DEF Heeds

LEMMA AcceptHeeds ==
  ASSUME NEW s, NEW g, Attentive(s, g), NEW id, NEW events, NEW t, t = Accept(s, id, events)
  PROVE  Heeds(s, t, g)
<1>1. t \in {Accept(s, id, events), Reply(s, id, events), Reject(s, id),
             AcceptEmpty(s, id), ReplyWhenStored(s, id, events)}
  OBVIOUS
<1> QED
  BY <1>1, AnswersHeed

LEMMA RejectHeeds ==
  ASSUME NEW s, NEW g, Attentive(s, g), NEW id, NEW t, t = Reject(s, id)
  PROVE  Heeds(s, t, g)
<1>1. PICK events : events = << >>
  OBVIOUS
<1>2. t \in {Accept(s, id, events), Reply(s, id, events), Reject(s, id),
             AcceptEmpty(s, id), ReplyWhenStored(s, id, events)}
  OBVIOUS
<1> QED
  BY <1>2, AnswersHeed

LEMMA InterruptHeeds ==
  ASSUME NEW s, NEW g, Attentive(s, g), NEW id, NEW queued \in Queueings,
         queued = "send" => id \in g.w,
         NEW received, IsSeq(received.calls),
         NEW t, t = Interrupt(s, id, queued, received)
  PROVE  Attentive(t, g)
<1>1. PICK taken : taken = [s EXCEPT !.turn.stage = "settling", !.turn.calls = << >>]
  OBVIOUS
<1>2. PICK mark, cause, yes : mark = s.turn.mark /\ cause = s.turn.cause /\ yes = TRUE
  OBVIOUS
<1>3. PICK cut : cut = Settle(taken, mark, cause, received, yes)
  OBVIOUS
<1>4. PICK h : h = [i \in DOMAIN cut.calls |-> Result(cut.calls[i].id, "before")]
  OBVIOUS
<1>5. PICK cancelled : cancelled = PutEach(cut.s, id, h)
  OBVIOUS
<1>6. PICK step, forced, closed, closedStep, closedTaken, waited :
        /\ step = CancelStep(s, id)
        /\ forced = ForceStop(s, id, queued)
        /\ closed = CloseInterrupted(cancelled, id, queued)
        /\ closedStep = CloseInterrupted(step, id, queued)
        /\ closedTaken = CloseInterrupted(taken, id, queued)
        /\ waited = WaitForStopping(s, step, id, queued)
  OBVIOUS
<1>7. PICK stop : stop = {[a |-> "CancelModel", seen |-> s.turn.mark]}
  OBVIOUS
<1>8. t \in {Reject(s, id), Accept(forced, id, Since(s, forced)),
             Do(Accept(closed, id, Since(s, closed)), stop), waited,
             Accept(closedStep, id, Since(s, closedStep)),
             Accept(closedTaken, id, Since(s, closedTaken))}
  <2>1. CASE Idle(s)
    BY <2>1 DEF Interrupt
  <2>2. CASE ~Idle(s) /\ s.turn.intr.wake # 0
    <3>1. t = Accept(forced, id, Since(s, forced))
      BY <1>6, <2>2 DEF Interrupt
    <3> QED
      BY <3>1
  <2>3. CASE ~Idle(s) /\ s.turn.intr.wake = 0 /\ s.turn.stage = "asking"
    <3> DEFINE T == [s EXCEPT !.turn.stage = "settling", !.turn.calls = << >>]
               C == Settle(T, s.turn.mark, s.turn.cause, received, TRUE)
               H == [i \in DOMAIN C.calls |-> Result(C.calls[i].id, "before")]
               N == PutEach(C.s, id, H)
               L == CloseInterrupted(N, id, queued)
    <3>1. t = Do(Accept(L, id, Since(s, L)), {[a |-> "CancelModel", seen |-> s.turn.mark]})
      BY <2>3 DEF Interrupt
    <3> HIDE DEF L
    <3>2. T = taken
      BY <1>1
    <3> HIDE DEF T
    <3>3. C = cut
      BY <1>2, <1>3, <3>2
    <3> HIDE DEF C
    <3>4. H = h
      BY <1>4, <3>3
    <3> HIDE DEF H
    <3>5. N = cancelled
      BY <1>5, <3>3, <3>4
    <3> HIDE DEF N
    <3>6. L = closed
      BY <1>6, <3>5 DEF L
    <3>7. t = Do(Accept(closed, id, Since(s, closed)), stop)
      BY <1>7, <3>1, <3>6
    <3> QED
      BY <3>7
  <2>4. CASE ~Idle(s) /\ s.turn.intr.wake = 0 /\ s.turn.stage # "asking"
             /\ s.turn.stage = "tools"
    <3>1. t = waited \/ t = Accept(closedStep, id, Since(s, closedStep))
      BY <1>6, <2>4 DEF Interrupt
    <3> QED
      BY <3>1
  <2>5. CASE ~Idle(s) /\ s.turn.intr.wake = 0 /\ s.turn.stage # "asking"
             /\ s.turn.stage # "tools"
    <3>1. t = Accept(closedTaken, id, Since(s, closedTaken))
      BY <1>1, <1>6, <2>5 DEF Interrupt
    <3> QED
      BY <3>1
  <2> QED
    BY <2>1, <2>2, <2>3, <2>4, <2>5
<1>9. PICK d : d = Deaf(g)
  OBVIOUS
<1>10. Attentive(s, d) /\ (d.c => s.turn.stage # "asking") /\ d = Deaf(d) /\ ~d.c
  BY <1>9, AttentiveDeaf, DeafIs
<1>11. Attentive(taken, d)
  <2>1. /\ taken.log = s.log /\ taken.book = s.book /\ taken.stored = s.stored
        /\ taken.refused = s.refused /\ taken.restarting = s.restarting
        /\ taken.turn.id = s.turn.id /\ taken.turn.requests = s.turn.requests
        /\ taken.turn.queued = s.turn.queued /\ taken.turn.retrying = s.turn.retrying
        /\ taken.turn.intr = s.turn.intr
        /\ taken.turn.stage = "settling" /\ Shapely(taken)
    BY <1>1, EmptyIsSeq DEF Attentive, Sound, Shapely, KernelFields, TurnFields
  <2> QED
    BY <1>10, <2>1, MovedOnHeeds
<1>12. Settled(taken, cut, d)
  BY <1>3, <1>10, <1>11, SettleHeeds
<1>13. QuietBodies(h)
  <2>1. PICK calls : calls = cut.calls
    OBVIOUS
  <2>2. /\ h = [i \in DOMAIN calls |-> h[i]]
        /\ \A i \in DOMAIN calls : \E call, why : h[i] = Result(call, why)
    BY <1>4, <2>1
  <2> QED
    BY <1>12, <2>1, <2>2, ResultListIsQuiet DEF Settled
<1>14. Attentive(cancelled, d)
  <2>1. PICK u : u = cut.s
    OBVIOUS
  <2>2. Attentive(u, d)
    BY <1>12, <2>1 DEF Settled
  <2> QED
    BY <1>5, <1>13, <2>1, <2>2, PutEachQuiet DEF Heeds
<1>15. Attentive(step, g)
  BY <1>6, CancelStepHeeds
<1>16. Attentive(closed, g) /\ Attentive(closedTaken, g)
  BY <1>6, <1>9, <1>11, <1>14, CloseInterruptedHeeds
<1>17. Attentive(closedStep, g)
  <2>1. Attentive(step, Deaf(g))
    BY <1>15, AttentiveDeaf
  <2> QED
    BY <1>6, <2>1, CloseInterruptedHeeds
<1>18. Attentive(waited, g)
  BY <1>6, <1>15, WaitForStoppingHeeds
<1>19. Attentive(forced, g)
  BY <1>6, ForceStopHeeds
<1>20. PICK ef, ec, es, et : /\ ef = Since(s, forced) /\ ec = Since(s, closed)
                             /\ es = Since(s, closedStep) /\ et = Since(s, closedTaken)
  OBVIOUS
<1>21. PICK af, ac, as, at, rej :
         /\ af = Accept(forced, id, ef) /\ ac = Accept(closed, id, ec)
         /\ as = Accept(closedStep, id, es) /\ at = Accept(closedTaken, id, et)
         /\ rej = Reject(s, id)
  OBVIOUS
<1>22. Attentive(af, g) /\ Attentive(ac, g) /\ Attentive(as, g) /\ Attentive(at, g)
  BY <1>16, <1>17, <1>19, <1>21, AcceptHeeds DEF Heeds
<1>23. Attentive(rej, g)
  BY <1>21, RejectHeeds DEF Heeds
<1>24. PICK ad : ad = Do(ac, stop)
  OBVIOUS
<1>25. Attentive(ad, g)
  BY <1>22, <1>24, DoHeeds DEF Heeds
<1>26. t \in {rej, af, ad, waited, as, at}
  BY <1>8, <1>20, <1>21, <1>24
<1> QED
  BY <1>18, <1>22, <1>23, <1>25, <1>26

----------------------------------------------------------------------------
(***************************************************************************)
(* Tools.                                                                  *)
(***************************************************************************)
LEMMA SetStateHeeds ==
  ASSUME NEW s, NEW g, Attentive(s, g), NEW i, NEW state, NEW t, t = SetState(s, i, state)
  PROVE  CallsOnly(s, t, g)
<1>1. PICK f : f = s.turn.calls
  OBVIOUS
<1>2. PICK c : c = [f EXCEPT ![i].state = state]
  OBVIOUS
<1>3. IsSeq(f)
  BY <1>1 DEF Attentive, Sound, Shapely
<1>4. c = [j \in DOMAIN f |-> c[j]]
  BY <1>2
<1>5. IsSeq(c)
  BY <1>3, <1>4, EachOf
<1>6. t = [s EXCEPT !.turn.calls = c]
  BY <1>1, <1>2 DEF SetState, Attentive, Sound, Shapely, KernelFields, TurnFields
<1> QED
  BY <1>5, <1>6, CallsHeed

\* One call gets the number of what it waits for, or what it asks for.
Timed(s, i, x) == [s EXCEPT !.turn.calls[i].at = x]
Asking(s, i, x) == [s EXCEPT !.turn.calls[i].asksWrite = x]

LEMMA CallFieldHeeds ==
  ASSUME NEW s, NEW g, Attentive(s, g), NEW i, NEW x,
         NEW t, t = Timed(s, i, x) \/ t = Asking(s, i, x)
  PROVE  CallsOnly(s, t, g)
<1>1. PICK f : f = s.turn.calls
  OBVIOUS
<1>2. PICK a, b : a = [f EXCEPT ![i].at = x] /\ b = [f EXCEPT ![i].asksWrite = x]
  OBVIOUS
<1>3. IsSeq(f)
  BY <1>1 DEF Attentive, Sound, Shapely
<1>4. a = [j \in DOMAIN f |-> a[j]] /\ b = [j \in DOMAIN f |-> b[j]]
  BY <1>2
<1>5. IsSeq(a) /\ IsSeq(b)
  BY <1>3, <1>4, EachOf
<1>6. t = [s EXCEPT !.turn.calls = a] \/ t = [s EXCEPT !.turn.calls = b]
  BY <1>1, <1>2 DEF Timed, Asking, Attentive, Sound, Shapely, KernelFields, TurnFields
<1>7. CASE t = [s EXCEPT !.turn.calls = a]
  BY <1>5, <1>7, CallsHeed
<1>8. CASE t = [s EXCEPT !.turn.calls = b]
  BY <1>5, <1>8, CallsHeed
<1> QED
  BY <1>6, <1>7, <1>8

\* A call is done, its result recorded, and the step goes on if it was the last.
LEMMA DoneHeeds ==
  ASSUME NEW s, NEW g, Attentive(s, g), s.turn.stage = "tools", NEW i, NEW cause,
         NEW body, QuietBody(body), NEW by,
         NEW put, put = Put(SetState(s, i, "done"), cause, body),
         NEW t, t = IF Finished(put.turn.calls) THEN FinishStep(put, by) ELSE put
  PROVE  Attentive(t, g)
<1>1. PICK done : done = SetState(s, i, "done")
  OBVIOUS
<1>2. CallsOnly(s, done, g)
  BY <1>1, SetStateHeeds
<1>3. Heeds(done, put, g)
  BY <1>1, <1>2, PutQuiet DEF CallsOnly
<1>4. Attentive(put, g) /\ put.turn.stage = "tools"
  BY <1>2, <1>3 DEF Heeds, CallsOnly
<1>5. PICK f : f = FinishStep(put, by)
  OBVIOUS
<1>6. Attentive(f, g)
  BY <1>4, <1>5, FinishStepHeeds
<1> QED
  BY <1>4, <1>5, <1>6

LEMMA StoppedDoneHeeds ==
  ASSUME NEW s, NEW g, Attentive(s, g), s.turn.intr.wake # 0, NEW call, NEW stopped,
         NEW t, t = StoppedDone(s, call, stopped)
  PROVE  Attentive(t, g)
<1> DEFINE intr == s.turn.intr
           at == At(s, call, {"stopping"})
           i == CHOOSE i \in at : TRUE
           done == SetState(s, i, "done")
           put == IF stopped THEN Put(done, intr.cause, Result(call, "running"))
                             ELSE Put(done, s.turn.cause, Result(call, "done"))
           left == \E j \in DOMAIN done.turn.calls : done.turn.calls[j].state = "stopping"
           u == [put EXCEPT !.turn.intr = NotInterrupting,
                            !.turn.stage = "settling", !.turn.calls = << >>]
<1>1. t = IF at = {} THEN s ELSE IF left THEN put
          ELSE CloseInterrupted(u, intr.cause, intr.queued)
  BY DEF StoppedDone
<1>2. intr.queued \in Queueings /\ (intr.queued = "send" => s.refused = TRUE \/ intr.cause \in g.w)
  BY DEF Attentive, Sound, Shapely, MeansIt
<1> HIDE DEF i, at, left, intr
<1>3. CallsOnly(s, done, g)
  BY SetStateHeeds
<1>4. PICK d, p, by, cause, queued : /\ d = done /\ p = put /\ by = s.turn.cause
                                     /\ cause = intr.cause /\ queued = intr.queued
  OBVIOUS
<1> HIDE DEF done
<1>5. Heeds(d, p, g)
  <2>1. QuietBody(Result(call, "running")) /\ QuietBody(Result(call, "done"))
    BY ResultIsQuiet
  <2>2. PICK a, b : a = Put(d, cause, Result(call, "running"))
                    /\ b = Put(d, by, Result(call, "done"))
    OBVIOUS
  <2>3. Heeds(d, a, g) /\ Heeds(d, b, g)
    BY <1>3, <1>4, <2>1, <2>2, PutQuiet DEF CallsOnly
  <2>4. p = a \/ p = b
    BY <1>4, <2>2
  <2> QED
    BY <2>3, <2>4
<1> HIDE DEF put
<1>6. /\ Attentive(p, g) /\ (s.refused = TRUE => p.refused = TRUE)
  BY <1>3, <1>4, <1>5 DEF Heeds, CallsOnly
<1>7. PICK v, dg : v = u /\ dg = Deaf(g)
  OBVIOUS
<1>8. Attentive(p, dg) /\ (dg.c => p.turn.stage # "asking")
  BY <1>6, <1>7, AttentiveDeaf, DeafIs
<1>9. Attentive(v, dg) /\ (s.refused = TRUE => v.refused = TRUE)
  <2>1. /\ v.log = p.log /\ v.book = p.book /\ v.stored = p.stored
        /\ v.refused = p.refused /\ v.restarting = p.restarting
        /\ v.turn.id = p.turn.id /\ v.turn.requests = p.turn.requests
        /\ v.turn.queued = p.turn.queued /\ v.turn.retrying = p.turn.retrying
        /\ v.turn.intr.wake = 0
        /\ v.turn.stage = "settling" /\ Shapely(v)
    BY <1>4, <1>6, <1>7, EmptyIsSeq
       DEF Attentive, Sound, Shapely, KernelFields, TurnFields, NotInterrupting, Queueings
  <2> QED
    BY <1>6, <1>8, <2>1, MovedOnHeeds
<1> HIDE DEF u
<1>10. PICK w : w = CloseInterrupted(v, cause, queued)
  OBVIOUS
<1>11. Attentive(w, g)
  <2>1. queued \in Queueings /\ (queued = "send" => v.refused = TRUE \/ cause \in g.w)
    BY <1>2, <1>4, <1>9
  <2> QED
    BY <1>7, <1>9, <1>10, <2>1, CloseInterruptedHeeds
<1>12. t = s \/ t = p \/ t = w
  BY <1>1, <1>4, <1>7, <1>10
<1> QED
  BY <1>6, <1>11, <1>12

LEMMA ToolDoneHeeds ==
  ASSUME NEW s, NEW g, Attentive(s, g), NEW call, NEW stopped,
         NEW t, t = ToolDone(s, call, stopped)
  PROVE  Attentive(t, g)
<1> DEFINE at == At(s, call, {"running", "questioning", "answered", "stopping"})
           i == CHOOSE i \in at : TRUE
           body == Result(call, IF stopped THEN "running" ELSE "done")
           put == Put(SetState(s, i, "done"), s.turn.cause, body)
           after == IF Finished(put.turn.calls) THEN FinishStep(put, s.turn.cause)
                    ELSE put
<1>1. t = IF s.turn.intr.wake # 0 THEN StoppedDone(s, call, stopped)
          ELSE IF at = {} THEN s ELSE Dispatch(after)
  BY DEF ToolDone
<1>2. at # {} => s.turn.stage = "tools"
  BY DEF At
<1>3. QuietBody(body)
  BY ResultIsQuiet
<1> HIDE DEF at, i, body
<1>4. PICK p, a, by, d : p = put /\ a = after /\ by = s.turn.cause /\ d = Dispatch(a)
  OBVIOUS
<1>5. ASSUME at # {} PROVE Attentive(d, g)
  <2>1. Attentive(a, g)
    BY <1>2, <1>3, <1>4, <1>5, DoneHeeds
  <2> QED
    BY <1>4, <2>1, DispatchHeeds
<1> HIDE DEF put, after
<1>6. CASE s.turn.intr.wake # 0
  BY <1>1, <1>6, StoppedDoneHeeds
<1>7. CASE s.turn.intr.wake = 0
  BY <1>1, <1>4, <1>5, <1>7
<1> QED
  BY <1>6, <1>7

LEMMA ToolGuardedHeeds ==
  ASSUME NEW s, NEW g, Attentive(s, g), NEW call, NEW verdict,
         NEW t, t = ToolGuarded(s, call, verdict)
  PROVE  Attentive(t, g)
<1> DEFINE at == At(s, call, {"guarding"})
           i == CHOOSE i \in at : TRUE
           body == Result(call, "denied")
           denied == Put(SetState(s, i, "done"), s.turn.cause, body)
           after == IF Finished(denied.turn.calls) THEN FinishStep(denied, s.turn.cause)
                    ELSE denied
           x == (verdict = "askWrite")
           marked == [SetState(s, i, "asking") EXCEPT !.turn.calls[i].asksWrite = x]
           request == [k |-> "approval.requested", call |-> call]
           asking == Put(marked, s.turn.cause, request)
           going == Do(SetState(s, i, "running"), {RunTool(s, s.turn.calls[i])})
<1>1. t = s \/ (at # {} /\ t \in {going, Dispatch(after), Dispatch(asking)})
  BY DEF ToolGuarded
<1>2. at # {} => s.turn.stage = "tools"
  BY DEF At
<1>3. QuietBody(body) /\ QuietBody(request)
  BY ResultIsQuiet DEF QuietBody, Fine, Loud
<1> HIDE DEF at, i, body, request, x
<1>4. PICK p, a, by : p = denied /\ a = after /\ by = s.turn.cause
  OBVIOUS
<1>5. at # {} => Attentive(a, g)
  BY <1>2, <1>3, <1>4, DoneHeeds
<1>6. PICK q, m, y, r, go : /\ q = SetState(s, i, "asking") /\ m = marked /\ y = asking
                            /\ r = SetState(s, i, "running") /\ go = going
  OBVIOUS
<1>7. PICK actions : actions = {RunTool(s, s.turn.calls[i])}
  OBVIOUS
<1>8. Attentive(go, g)
  <2>1. CallsOnly(s, r, g)
    BY <1>6, SetStateHeeds
  <2>2. go = Do(r, actions)
    BY <1>6, <1>7
  <2> QED
    BY <2>1, <2>2, DoHeeds DEF CallsOnly, Heeds
<1>9. Attentive(y, g)
  <2>1. CallsOnly(s, q, g)
    BY <1>6, SetStateHeeds
  <2>2. m = Asking(q, i, x)
    BY <1>6 DEF Asking
  <2>3. CallsOnly(q, m, g)
    BY <2>1, <2>2, CallFieldHeeds DEF CallsOnly
  <2>4. y = Put(m, by, request)
    BY <1>4, <1>6
  <2> QED
    BY <1>3, <2>3, <2>4, PutQuiet DEF CallsOnly, Heeds
<1> HIDE DEF after, asking, going
<1>10. PICK da, dy : da = Dispatch(a) /\ dy = Dispatch(y)
  OBVIOUS
<1>11. Attentive(dy, g) /\ (at # {} => Attentive(da, g))
  BY <1>5, <1>9, <1>10, DispatchHeeds
<1> QED
  BY <1>1, <1>4, <1>6, <1>8, <1>10, <1>11

LEMMA ToolAsksHeeds ==
  ASSUME NEW s, NEW g, Attentive(s, g), NEW call, NEW t, t = ToolAsks(s, call)
  PROVE  Attentive(t, g)
<1> DEFINE at == At(s, call, {"running"})
           i == CHOOSE i \in at : TRUE
           body == Result(call, "unanswered")
           skipped == Put(SetState(s, i, "done"), s.turn.cause, body)
           after == IF Finished(skipped.turn.calls) THEN FinishStep(skipped, s.turn.cause)
                    ELSE skipped
           actions == {[a |-> "CancelTool", call |-> call]}
           asking == [k |-> "question.asked", call |-> call]
           asked == Put(SetState(s, i, "questioning"), s.turn.cause, asking)
<1>1. t = s \/ (at # {} /\ t \in {asked, Dispatch(Do(after, actions))})
  BY DEF ToolAsks
<1>2. at # {} => s.turn.stage = "tools"
  BY DEF At
<1>3. QuietBody(body) /\ QuietBody(asking)
  BY ResultIsQuiet DEF QuietBody, Fine, Loud
<1> HIDE DEF at, i, body, asking, actions
<1>4. PICK p, a, by, q, y, b : /\ p = skipped /\ a = after /\ by = s.turn.cause
                               /\ q = SetState(s, i, "questioning") /\ y = asked
                               /\ b = actions
  OBVIOUS
<1>5. at # {} => Attentive(a, g)
  BY <1>2, <1>3, <1>4, DoneHeeds
<1>6. Attentive(y, g)
  <2>1. CallsOnly(s, q, g)
    BY <1>4, SetStateHeeds
  <2>2. y = Put(q, by, asking)
    BY <1>4
  <2> QED
    BY <1>3, <2>1, <2>2, PutQuiet DEF CallsOnly, Heeds
<1> HIDE DEF after, asked
<1>7. PICK w, d : w = Do(a, b) /\ d = Dispatch(w)
  OBVIOUS
<1>8. at # {} => Attentive(d, g)
  BY <1>5, <1>7, DoHeeds, DispatchHeeds DEF Heeds
<1> QED
  BY <1>1, <1>4, <1>6, <1>7, <1>8

----------------------------------------------------------------------------
(***************************************************************************)
(* What a message or a permission does to the calls.                       *)
(***************************************************************************)
LEMMA VoidWaitingHeeds ==
  ASSUME NEW s, NEW g, Attentive(s, g), NEW cause, NEW t, t = VoidWaiting(s, cause)
  PROVE  Attentive(t, g)
<1> DEFINE calls == s.turn.calls
           questioning == {i \in DOMAIN calls : calls[i].state = "questioning"}
           why == [i \in DOMAIN calls |-> IF i \in questioning THEN "voided" ELSE "skipped"]
           at == {i \in DOMAIN calls : AwaitingPerson(calls[i])}
           settled == SettleCalls(s, at, cause, why)
           actions == {[a |-> "CancelTool", call |-> calls[i].id] :
                         i \in {j \in questioning : s.turn.stage = "tools"}}
<1>1. t = Do(settled, actions)
  BY DEF VoidWaiting
<1>2. at \in SUBSET (DOMAIN s.turn.calls)
  OBVIOUS
<1> HIDE DEF at, why, actions
<1>3. PICK u, b : u = settled /\ b = actions
  OBVIOUS
<1>4. Attentive(u, g)
  BY <1>2, <1>3, SettleCallsHeeds
<1> HIDE DEF settled
<1>5. t = Do(u, b)
  BY <1>1, <1>3
<1> QED
  BY <1>4, <1>5, DoHeeds DEF Heeds

LEMMA InterjectHeeds ==
  ASSUME NEW s, NEW g, Attentive(s, g), NEW cause, NEW t, t = Interject(s, cause)
  PROVE  Attentive(t, g)
<1> DEFINE calls == s.turn.calls
           u == [s EXCEPT !.turn.interjected = cause]
           at == {i \in DOMAIN calls : NotRun(calls[i])}
           why == [i \in DOMAIN calls |-> "skipped"]
           settled == SettleCalls(u, at, cause, why)
<1>1. t = s \/ t = settled
  BY DEF Interject
<1>2. at \in SUBSET (DOMAIN calls)
  OBVIOUS
<1> HIDE DEF at, why
<1>3. PICK v, w : v = u /\ w = settled
  OBVIOUS
<1>4. /\ v.log = s.log /\ v.book = s.book /\ v.stored = s.stored /\ Shapely(v)
      /\ v.refused = s.refused /\ v.restarting = s.restarting
      /\ v.turn.id = s.turn.id /\ v.turn.requests = s.turn.requests
      /\ v.turn.intr = s.turn.intr /\ v.turn.queued = s.turn.queued
      /\ v.turn.stage = s.turn.stage /\ v.turn.mark = s.turn.mark
      /\ v.turn.retrying = s.turn.retrying /\ v.turn.calls = calls
  BY <1>3 DEF Attentive, Sound, Shapely, KernelFields, TurnFields
<1> HIDE DEF u
<1>5. Sound(v)
  BY <1>4 DEF Attentive, Sound
<1>6. Attentive(v, g)
  BY <1>4, <1>5, AlongsideHeeds DEF Alongside, KeepsStage
<1>7. at \in SUBSET (DOMAIN v.turn.calls)
  BY <1>2, <1>4
<1>8. Attentive(w, g)
  BY <1>3, <1>6, <1>7, SettleCallsHeeds
<1> QED
  BY <1>1, <1>3, <1>8

LEMMA TakeEffectHeeds ==
  ASSUME NEW s, NEW g, Attentive(s, g), NEW new, NEW t, t = TakeEffect(s, new)
  PROVE  Attentive(t, g)
<1>1. PICK u : u = [s EXCEPT !.eff = new]
  OBVIOUS
<1>2. /\ u.log = s.log /\ u.book = s.book /\ u.stored = s.stored /\ Shapely(u)
      /\ u.refused = s.refused /\ u.restarting = s.restarting /\ u.turn = s.turn
  BY <1>1 DEF Attentive, Sound, Shapely, KernelFields
<1>3. Sound(u)
  BY <1>2 DEF Attentive, Sound
<1>4. Attentive(u, g)
  BY <1>2, <1>3, SameTurnHeeds
<1> DEFINE calls == u.turn.calls
           waiting == {i \in DOMAIN calls : NotRun(calls[i]) /\ Writes(calls[i])}
           why == [i \in DOMAIN calls |-> "denied"]
           settled == SettleCalls(u, waiting, u.turn.cause, why)
<1>5. DenyWaitingWrites(u) \in {u, settled}
  BY DEF DenyWaitingWrites
<1>6. waiting \in SUBSET (DOMAIN u.turn.calls)
  OBVIOUS
<1> HIDE DEF waiting, why
<1>7. PICK w, by : w = settled /\ by = u.turn.cause
  OBVIOUS
<1>8. Attentive(w, g)
  BY <1>4, <1>6, <1>7, SettleCallsHeeds
<1> HIDE DEF settled
<1>9. t = s \/ t = u \/ t = w
  BY <1>1, <1>5, <1>7 DEF TakeEffect
<1> QED
  BY <1>4, <1>8, <1>9

----------------------------------------------------------------------------
(***************************************************************************)
(* The commands of a person.                                               *)
(***************************************************************************)
LEMMA NextNumber ==
  ASSUME NEW s, Sound(s)
  PROVE  s.book.next = Len(s.log) + 1 /\ Len(s.log) \in Nat /\ IsSeq(s.log)
<1>1. PICK l : l = s.log
  OBVIOUS
<1>2. IsLog(l) /\ s.book = BookOf(l)
  BY <1>1 DEF Sound
<1>3. BookOf(l).next = Len(l) + 1 /\ Len(l) \in Nat
  BY <1>2, BookOfLog, SeqIsFunction DEF IsLog
<1> QED
  BY <1>1, <1>2, <1>3 DEF IsLog

\* A message is the last event, and it alone is newly unheard.
Says(s, p, g) ==
  /\ Attentive(p, Deaf(g)) /\ p.turn = s.turn
  /\ p.refused # TRUE =>
       /\ s.refused # TRUE /\ Len(p.log) = Len(s.log) + 1
       /\ p.log[Len(s.log) + 1].k = "message.user"
       /\ Opens(p.log, Len(s.log) + 1, g)
       /\ \A m : StillUnheard(p.log, m) => m = Len(s.log) + 1 \/ StillUnheard(s.log, m)

LEMMA MessageHeeds ==
  ASSUME NEW s, NEW g, Attentive(s, g), NEW cause,
         NEW body, Fine(body), body.k = "message.user", NEW p, p = Put(s, cause, body)
  PROVE  Says(s, p, g)
<1>2. Fine(body) /\ body.k = "message.user" /\ p = Put(s, cause, body)
  OBVIOUS
<1>3. PICK e : e = EventOf(s, cause, body)
  OBVIOUS
<1>4. Sound(s) /\ s.restarting = g.z
  BY DEF Attentive
<1>5. PutTo(s, p, e) /\ e.k = "message.user"
  BY <1>2, <1>3, <1>4, PutDoes
<1>6. Sound(p) /\ p.turn = s.turn /\ p.restarting = g.z
  BY <1>4, <1>5 DEF PutTo
<1>7. CASE p.refused = TRUE
  BY <1>6, <1>7, DeafIs DEF Attentive, Says
<1>8. CASE p.refused # TRUE
  <2>1. /\ s.refused # TRUE /\ p.log = Append(s.log, e) /\ Founded(p.log, g)
    <3>1. s.refused # TRUE /\ p.log = Append(s.log, e)
      BY <1>5, <1>8 DEF PutTo
    <3>2. body.k # "turn.started"
      BY <1>2
    <3>3. Founded(p.log, g)
      BY <1>3, <1>8, <3>2, PutFounds
    <3> QED
      BY <3>1, <3>3
  <2>2. PICK l, n : l = s.log /\ n = Len(s.log) + 1
    OBVIOUS
  <2>3. IsSeq(l) /\ Len(l) \in Nat /\ n = Len(l) + 1
    BY <1>4, <2>2, NextNumber
  <2>4. PICK k : k = Append(l, e)
    OBVIOUS
  <2>5. p.log = k /\ Len(k) = n /\ k[n] = e
    BY <2>1, <2>2, <2>3, <2>4, AppendIsSeq
  <2>6. Opens(k, n, g)
    <3>1. \A i \in n..Len(k) : k[i].k # "turn.ended"
      <4>1. \A i \in n..Len(k) : i = n
        BY <2>3, <2>5
      <4> QED
        BY <1>5, <2>5, <4>1
    <3>2. n \in 1..Len(k) /\ k[n].k = "message.user"
      BY <1>5, <2>3, <2>5
    <3> QED
      BY <3>1, <3>2 DEF Opens
  <2>7. \A m : StillUnheard(k, m) => m = n \/ StillUnheard(l, m)
    <3> SUFFICES ASSUME NEW m, StillUnheard(k, m), m # n PROVE StillUnheard(l, m)
      OBVIOUS
    <3>1. StillUnheard(Append(l, e), m) /\ m # Len(l) + 1
      BY <2>3, <2>4
    <3> QED
      BY <2>3, <3>1, UnheardBefore
  <2>8. Attentive(p, Deaf(g))
    <3>1. Overhears(l, s.turn) /\ HasAsked(s.turn) /\ MeansIt(s.turn, g)
      BY <2>1, <2>2 DEF Attentive
    <3>2. PICK t : t = s.turn
      OBVIOUS
    <3>3. Overhears(k, t)
      BY <1>5, <2>3, <2>4, <3>1, <3>2, OverhearsMore
    <3>4. MeansIt(s.turn, Deaf(g))
      BY <3>1, DeafIs DEF MeansIt
    <3>5. Founded(p.log, Deaf(g))
      BY <2>1, DeafFounded
    <3> QED
      BY <1>6, <2>5, <3>1, <3>2, <3>3, <3>4, <3>5, DeafIs DEF Attentive
  <2> QED
    BY <1>5, <1>6, <2>1, <2>2, <2>3, <2>5, <2>6, <2>7, <2>8 DEF Says
<1> QED
  BY <1>7, <1>8

LEMMA SendHeeds ==
  ASSUME NEW s, NEW g, Attentive(s, g), NEW id, NEW urgent, NEW t, t = Send(s, id, urgent)
  PROVE  Attentive(t, g)
<1>1. PICK p : p = Put(s, id, [k |-> "message.user", ambient |-> FALSE])
  OBVIOUS
<1>2. Says(s, p, g)
  <2>1. PICK body : body = [k |-> "message.user", ambient |-> FALSE]
    OBVIOUS
  <2>2. Fine(body) /\ body.k = "message.user" /\ p = Put(s, id, body)
    BY <1>1, <2>1 DEF Fine
  <2> QED
    BY <2>2, MessageHeeds
<1>3. PICK seq, events : seq = s.book.next /\ events = <<seq>>
  OBVIOUS
<1>4. PICK put, d : put = Accept(p, id, events) /\ d = Deaf(g)
  OBVIOUS
<1>5. Attentive(put, d) /\ Telling(p, put)
  <2>1. Attentive(p, d)
    BY <1>2, <1>4 DEF Says
  <2>2. DOMAIN p = KernelFields
    BY <2>1 DEF Attentive, Sound, Shapely
  <2> QED
    BY <1>4, <2>1, <2>2, AcceptHeeds, AnswersTell DEF Heeds
<1>6. seq = Len(s.log) + 1 /\ Len(s.log) \in Nat
  BY <1>3, NextNumber DEF Attentive
<1>7. /\ put.turn = s.turn /\ put.log = p.log /\ put.refused = p.refused
      /\ Attentive(put, Deaf(g))
  BY <1>2, <1>4, <1>5 DEF Telling, Says
<1>8. CASE Idle(s)
  <2>1. t = OpenTurn(put, seq, id)
    BY <1>1, <1>3, <1>4, <1>8 DEF Send
  <2>2. put.refused = TRUE \/ Opens(put.log, seq, g)
    BY <1>2, <1>6, <1>7 DEF Says
  <2> QED
    BY <1>7, <2>1, <2>2, OpenTurnHeeds
<1>9. CASE ~Idle(s)
  <2>1. PICK q : q = [put EXCEPT !.turn.queued = Append(@, [seq |-> seq, cause |-> id])]
    OBVIOUS
  <2>2. PICK x, old : x = [seq |-> seq, cause |-> id] /\ old = s.turn.queued
    OBVIOUS
  <2>3. PICK new : new = Append(old, x)
    OBVIOUS
  <2>4. /\ q.log = p.log /\ q.book = put.book /\ q.stored = put.stored /\ Shapely(q)
        /\ q.refused = p.refused /\ q.restarting = put.restarting
        /\ q.turn.id = s.turn.id /\ q.turn.requests = s.turn.requests
        /\ q.turn.intr = s.turn.intr /\ q.turn.queued = new
        /\ q.turn.stage = s.turn.stage /\ q.turn.mark = s.turn.mark
        /\ q.turn.retrying = s.turn.retrying
    BY <1>7, <2>1, <2>2, <2>3 DEF Attentive, Sound, Shapely, KernelFields, TurnFields
  <2>5. Sound(q) /\ q.restarting = g.z
    BY <1>7, <2>4, DeafIs DEF Attentive, Sound
  <2>6. ASSUME q.refused = TRUE PROVE Attentive(q, g)
    BY <2>5, <2>6 DEF Attentive
  <2>7. ASSUME q.refused # TRUE PROVE Attentive(q, g)
    <3>1. /\ p.refused # TRUE /\ s.refused # TRUE /\ Len(p.log) = seq
          /\ p.log[seq].k = "message.user"
          /\ \A m : StillUnheard(p.log, m) => m = seq \/ StillUnheard(s.log, m)
      BY <1>2, <1>6, <2>4, <2>7 DEF Says
    <3>2. /\ Founded(put.log, g) /\ Overhears(put.log, put.turn)
          /\ HasAsked(put.turn) /\ MeansIt(put.turn, g)
      BY <1>7, <3>1, DeafHeeds
    <3>3. Founded(q.log, g) /\ HasAsked(q.turn) /\ MeansIt(q.turn, g)
      BY <1>7, <2>4, <3>2 DEF HasAsked, MeansIt
    <3>4. Overhears(p.log, s.turn)
      BY <1>7, <3>2
    <3>5. IsSeq(old)
      BY <2>2, <3>4 DEF Overhears
    <3>6. PICK n : n = Len(old)
      OBVIOUS
    <3>7. /\ n \in Nat /\ IsSeq(new) /\ Len(new) = n + 1 /\ new[n + 1] = x
          /\ \A i \in 1..n : new[i] = old[i]
      BY <2>3, <3>5, <3>6, AppendIsSeq, SeqIsFunction
    <3>8. x.seq = seq
      BY <2>2
    <3>9. Overhears(q.log, q.turn)
      <4>1. s.turn.id # 0 /\ s.turn.id \in 1..Len(s.log)
        <5>1. Overhears(s.log, s.turn)
          BY <3>1 DEF Attentive
        <5> QED
          BY <1>9, <5>1 DEF Idle, Overhears
      <4>2. seq \in (s.turn.id + 1)..Len(p.log)
        BY <1>6, <3>1, <4>1
      <4>3. ASSUME NEW i \in 1..Len(new)
            PROVE  /\ new[i].seq \in (s.turn.id + 1)..Len(p.log)
                   /\ p.log[new[i].seq].k = "message.user"
        <5>1. CASE i = n + 1
          BY <3>1, <3>7, <3>8, <4>2, <5>1
        <5>2. CASE i # n + 1
          <6>1. i \in 1..n
            BY <3>7, <4>3, <5>2
          <6>2. i \in 1..Len(s.turn.queued) /\ new[i] = s.turn.queued[i]
            BY <2>2, <3>6, <3>7, <6>1
          <6> QED
            BY <3>4, <6>2 DEF Overhears
        <5> QED
          BY <5>1, <5>2
      <4>4. \A i \in s.turn.id..Len(p.log) : p.log[i].k # "turn.ended"
        BY <3>4, <4>1 DEF Overhears
      <4>5. s.turn.id \in 1..Len(p.log)
        BY <1>6, <3>1, <4>1
      <4> QED
        BY <2>4, <3>7, <4>1, <4>3, <4>4, <4>5 DEF Overhears
    <3>10. g.c => Heeding(q.log, q.turn)
      <4> SUFFICES ASSUME g.c, NEW m, StillUnheard(p.log, m) PROVE WillHear(q.turn, m)
        BY <2>4 DEF Heeding
      <4>1. s.turn.id # 0
        BY <1>9 DEF Idle
      <4>2. CASE m = seq
        <5>1. n + 1 \in 1..Len(new)
          BY <3>7
        <5> QED
          BY <2>4, <3>7, <3>8, <4>1, <4>2, <5>1 DEF WillHear
      <4>3. CASE StillUnheard(s.log, m)
        <5>1. WillHear(s.turn, m)
          BY <3>1, <4>3 DEF Attentive, Heeding
        <5>2. ASSUME NEW i \in 1..Len(s.turn.queued), s.turn.queued[i].seq = m
              PROVE  i \in 1..Len(new) /\ new[i].seq = m
          BY <2>2, <3>6, <3>7, <5>2
        <5> QED
          BY <2>4, <5>1, <5>2 DEF WillHear
      <4> QED
        BY <3>1, <4>2, <4>3
    <3> QED
      BY <2>5, <3>3, <3>9, <3>10 DEF Attentive
  <2>8. Attentive(q, g)
    BY <2>6, <2>7
  <2>9. PICK v, w : v = VoidWaiting(q, id) /\ w = Interject(v, id)
    OBVIOUS
  <2>10. Attentive(v, g) /\ Attentive(w, g)
    BY <2>8, <2>9, VoidWaitingHeeds, InterjectHeeds
  <2>11. t = v \/ t = w
    BY <1>1, <1>3, <1>4, <1>9, <2>1, <2>9 DEF Send
  <2> QED
    BY <2>10, <2>11
<1> QED
  BY <1>8, <1>9

LEMMA SetPermissionHeeds ==
  ASSUME NEW s, NEW g, Attentive(s, g), NEW id, NEW change,
         NEW t, t = SetPermission(s, id, change)
  PROVE  Attentive(t, g)
<1>1. PICK new : new = [f \in DOMAIN s.perm |->
                          IF f \in DOMAIN change THEN change[f] ELSE s.perm[f]]
  OBVIOUS
<1>2. PICK body, events : body = [k |-> "policy.changed", perm |-> new]
                          /\ events = <<s.book.next>>
  OBVIOUS
<1>3. PICK p : p = Put(s, id, body)
  OBVIOUS
<1>4. Heeds(s, p, g)
  <2>1. QuietBody(body)
    BY <1>2 DEF QuietBody, Fine, Loud
  <2> QED
    BY <1>3, <2>1, PutQuiet
<1>5. PICK put : put = Accept(p, id, events)
  OBVIOUS
<1>6. Attentive(put, g)
  BY <1>4, <1>5, AcceptHeeds DEF Heeds
<1>7. PICK changed : changed = [put EXCEPT !.perm = new, !.turn.refresh = ~Idle(s)]
  OBVIOUS
<1>8. /\ changed.log = put.log /\ changed.book = put.book /\ changed.stored = put.stored
      /\ Shapely(changed)
      /\ changed.refused = put.refused /\ changed.restarting = put.restarting
      /\ changed.turn.id = put.turn.id /\ changed.turn.requests = put.turn.requests
      /\ changed.turn.intr = put.turn.intr /\ changed.turn.queued = put.turn.queued
      /\ changed.turn.stage = put.turn.stage /\ changed.turn.mark = put.turn.mark
      /\ changed.turn.retrying = put.turn.retrying
  BY <1>6, <1>7 DEF Attentive, Sound, Shapely, KernelFields, TurnFields
<1>9. Sound(changed)
  BY <1>6, <1>8 DEF Attentive, Sound
<1>10. Attentive(changed, g)
  BY <1>6, <1>8, <1>9, AlongsideHeeds DEF Alongside, KeepsStage
<1>11. PICK tighter, fresh, told :
         /\ tighter = TakeEffect(changed, new) /\ fresh = RefreshFacts(tighter)
         /\ told = AcceptEmpty(s, id)
  OBVIOUS
<1>12. Attentive(tighter, g) /\ Attentive(fresh, g)
  BY <1>10, <1>11, TakeEffectHeeds, RefreshFactsHeeds
<1>13. Attentive(told, g)
  <2>1. PICK none : none = << >>
    OBVIOUS
  <2>2. told \in {Accept(s, id, none), Reply(s, id, none), Reject(s, id),
                  AcceptEmpty(s, id), ReplyWhenStored(s, id, none)}
    BY <1>11
  <2> QED
    BY <2>2, AnswersHeed DEF Heeds
<1>14. t \in {told, fresh, tighter}
  BY <1>1, <1>2, <1>3, <1>5, <1>7, <1>11 DEF SetPermission
<1> QED
  BY <1>12, <1>13, <1>14

LEMMA AnswerApprovalHeeds ==
  ASSUME NEW s, NEW g, Attentive(s, g), NEW id, NEW call, NEW allow,
         NEW t, t = AnswerApproval(s, id, call, allow)
  PROVE  Attentive(t, g)
<1> DEFINE at == At(s, call, {"asking"})
           i == CHOOSE i \in at : TRUE
           x == s.book.next
           by == s.turn.cause
           body == [k |-> "approval.decided", call |-> call]
           result == Result(call, "denied")
           decided == Put(s, id, body)
           approved == [SetState(decided, i, "approved") EXCEPT !.turn.calls[i].at = x]
           denied == Put(SetState(decided, i, "done"), id, result)
           over == IF Finished(denied.turn.calls) THEN FinishStep(denied, by) ELSE denied
           told(u) == Dispatch(Accept(u, id, Since(s, u)))
<1>1. t \in {Reject(s, id)} \/ (at # {} /\ t \in {told(approved), told(over)})
  BY DEF AnswerApproval
<1>2. at # {} => s.turn.stage = "tools"
  BY DEF At
<1>3. QuietBody(body) /\ QuietBody(result)
  BY ResultIsQuiet DEF QuietBody, Fine, Loud
<1> HIDE DEF at, i, x, body, result
<1>4. PICK d, q, a, y, c, o : /\ d = decided /\ q = SetState(decided, i, "approved")
                              /\ a = approved /\ y = denied /\ c = by /\ o = over
  OBVIOUS
<1>5. Heeds(s, d, g)
  BY <1>3, <1>4, PutQuiet
<1>6. Attentive(d, g) /\ (at # {} => d.turn.stage = "tools")
  BY <1>2, <1>5 DEF Heeds
<1>7. Attentive(a, g)
  <2>1. CallsOnly(d, q, g)
    BY <1>4, <1>6, SetStateHeeds
  <2>2. a = Timed(q, i, x)
    BY <1>4 DEF Timed
  <2> QED
    BY <2>1, <2>2, CallFieldHeeds DEF CallsOnly
<1>8. at # {} => Attentive(o, g)
  <2>1. /\ y = Put(SetState(d, i, "done"), id, result)
        /\ o = IF Finished(y.turn.calls) THEN FinishStep(y, c) ELSE y
    BY <1>4
  <2> QED
    BY <1>3, <1>6, <2>1, DoneHeeds
<1> HIDE DEF decided, approved, denied, over
<1>9. PICK na, no, ta, to : /\ na = Since(s, a) /\ no = Since(s, o)
                            /\ ta = Accept(a, id, na) /\ to = Accept(o, id, no)
  OBVIOUS
<1>10. PICK da, do, r : da = Dispatch(ta) /\ do = Dispatch(to) /\ r = Reject(s, id)
  OBVIOUS
<1>11. Attentive(da, g)
  <2>1. Attentive(ta, g)
    BY <1>7, <1>9, AcceptHeeds DEF Heeds
  <2> QED
    BY <1>10, <2>1, DispatchHeeds
<1>12. at # {} => Attentive(do, g)
  <2>1. at # {} => Attentive(to, g)
    BY <1>8, <1>9, AcceptHeeds DEF Heeds
  <2> QED
    BY <1>10, <2>1, DispatchHeeds
<1>13. Attentive(r, g)
  BY <1>10, RejectHeeds DEF Heeds
<1>14. t = r \/ (at # {} /\ t \in {da, do})
  BY <1>1, <1>4, <1>9, <1>10
<1> QED
  BY <1>11, <1>12, <1>13, <1>14

LEMMA AnswerQuestionHeeds ==
  ASSUME NEW s, NEW g, Attentive(s, g), NEW id, NEW call,
         NEW t, t = AnswerQuestion(s, id, call)
  PROVE  Attentive(t, g)
<1> DEFINE at == At(s, call, {"questioning"})
           i == CHOOSE i \in at : TRUE
           x == s.book.next
           body == [k |-> "question.answered", call |-> call]
           put == Put(s, id, body)
           answered == [SetState(put, i, "answered") EXCEPT !.turn.calls[i].at = x]
<1>1. t \in {Reject(s, id), Accept(answered, id, <<x>>)}
  BY DEF AnswerQuestion
<1>2. QuietBody(body)
  BY DEF QuietBody, Fine, Loud
<1> HIDE DEF at, i, x, body
<1>3. PICK p, q, a, n : /\ p = put /\ q = SetState(put, i, "answered") /\ a = answered
                        /\ n = <<x>>
  OBVIOUS
<1>4. Heeds(s, p, g)
  BY <1>2, <1>3, PutQuiet
<1>5. CallsOnly(p, q, g)
  BY <1>3, <1>4, SetStateHeeds DEF Heeds
<1>6. a = Timed(q, i, x)
  BY <1>3 DEF Timed
<1>7. Attentive(a, g)
  BY <1>5, <1>6, CallFieldHeeds DEF CallsOnly
<1> HIDE DEF put, answered
<1>8. PICK r, w : r = Reject(s, id) /\ w = Accept(a, id, n)
  OBVIOUS
<1>9. Attentive(r, g) /\ Attentive(w, g)
  BY <1>7, <1>8, RejectHeeds, AcceptHeeds DEF Heeds
<1> QED
  BY <1>1, <1>3, <1>8, <1>9

LEMMA ReceiveHeeds ==
  ASSUME NEW s, NEW g, Attentive(s, g), NEW id, NEW op, Asks(op), NEW call,
         op.op = "interrupt" /\ op.queued = "send" => id \in g.w,
         NEW received, IsSeq(received.calls),
         NEW t, t = Receive(s, id, op, call, received)
  PROVE  Attentive(t, g)
<1> DEFINE known == {i \in DOMAIN s.recent : s.recent[i].id = id}
           before == s.recent[CHOOSE i \in known : TRUE].events
<1>1. CASE known # {}
  <2>1. t = ReplyWhenStored(s, id, before)
    BY <1>1 DEF Receive
  <2> HIDE DEF known, before
  <2>2. PICK n : n = before
    OBVIOUS
  <2>3. t \in {Accept(s, id, n), Reply(s, id, n), Reject(s, id),
               AcceptEmpty(s, id), ReplyWhenStored(s, id, n)}
    BY <2>1, <2>2
  <2> QED
    BY <2>3, AnswersHeed DEF Heeds
<1>2. CASE known = {}
  <2>1. t =
          CASE op.op = "send"       -> Send(s, id, op.urgent)
            [] op.op = "interrupt"  -> Interrupt(s, id, op.queued, received)
            [] op.op = "permission" -> SetPermission(s, id, op.change)
            [] op.op = "approve"    -> AnswerApproval(s, id, call, op.allow)
            [] op.op = "answer"     -> AnswerQuestion(s, id, call)
    BY <1>2 DEF Receive
  <2>2. CASE op.op = "send"
    <3>1. t = Send(s, id, op.urgent)
      BY <2>1, <2>2
    <3> QED
      BY <3>1, SendHeeds
  <2>3. CASE op.op = "interrupt"
    <3>1. PICK queued : queued = op.queued
      OBVIOUS
    <3>2. /\ queued \in Queueings /\ (queued = "send" => id \in g.w)
          /\ t = Interrupt(s, id, queued, received)
      BY <2>1, <2>3, <3>1 DEF Asks
    <3> QED
      BY <3>2, InterruptHeeds
  <2>4. CASE op.op = "permission"
    <3>1. t = SetPermission(s, id, op.change)
      BY <2>1, <2>4
    <3> QED
      BY <3>1, SetPermissionHeeds
  <2>5. CASE op.op = "approve"
    <3>1. t = AnswerApproval(s, id, call, op.allow)
      BY <2>1, <2>5
    <3> QED
      BY <3>1, AnswerApprovalHeeds
  <2>6. CASE op.op = "answer"
    <3>1. t = AnswerQuestion(s, id, call)
      BY <2>1, <2>6
    <3> QED
      BY <3>1, AnswerQuestionHeeds
  <2> QED
    BY <2>2, <2>3, <2>4, <2>5, <2>6 DEF Asks
<1> QED
  BY <1>1, <1>2

----------------------------------------------------------------------------
(***************************************************************************)
(* The disk, and stopping on purpose.                                      *)
(***************************************************************************)
LEMMA StoredHeeds ==
  ASSUME NEW s, NEW g, Attentive(s, g), NEW upto \in Nat, upto <= Len(s.log),
         NEW t, t = Stored(s, upto)
  PROVE  Attentive(t, g)
<1>1. CASE upto <= s.stored
  BY <1>1 DEF Stored
<1>2. CASE ~(upto <= s.stored)
  <2> DEFINE landed == [s EXCEPT !.stored = upto]
             ready == {i \in DOMAIN s.waiting : IsStored(landed, s.waiting[i].events)}
             answers == [i \in DOMAIN s.waiting |->
                           [id |-> s.waiting[i].id, ok |-> TRUE,
                            events |-> s.waiting[i].events]]
             closed == {i \in DOMAIN s.closing : s.closing[i].ended <= upto}
             said == [landed EXCEPT
                        !.waiting = Picked(@, DOMAIN @ \ ready),
                        !.replies = @ \o Picked(answers, ready),
                        !.closing = Picked(@, DOMAIN @ \ closed)]
             actions == {[a |-> "Push", from |-> s.stored + 1, upto |-> upto]}
                \union {[a |-> "RunTurnEndHooks", turn |-> s.closing[i].turn] : i \in closed}
  <2>1. t = Advance(Do(said, actions))
    BY <1>2 DEF Stored
  <2>2. PICK u, b : u = said /\ b = actions
    OBVIOUS
  <2>3. /\ u.log = s.log /\ u.book = s.book /\ u.stored = upto /\ Shapely(u)
        /\ u.refused = s.refused /\ u.restarting = s.restarting /\ u.turn = s.turn
    <3> HIDE DEF ready, answers, closed
    <3> QED
      BY <2>2 DEF Attentive, Sound, Shapely, KernelFields
  <2> HIDE DEF said, actions
  <2>4. upto \in 0..Len(s.log)
    BY LogLength DEF Attentive, Sound
  <2>5. Sound(u)
    BY <2>3, <2>4 DEF Attentive, Sound
  <2>6. Attentive(u, g)
    BY <2>3, <2>5, SameTurnHeeds
  <2>7. PICK v : v = Do(u, b)
    OBVIOUS
  <2>8. Attentive(v, g)
    BY <2>6, <2>7, DoHeeds DEF Heeds
  <2>9. t = Advance(v)
    BY <2>1, <2>2, <2>7
  <2> QED
    BY <2>8, <2>9, AdvanceHeeds
<1> QED
  BY <1>1, <1>2

\* A planned restart in the middle of a request: what came so far is kept.
WoundUpAsking(u, received) ==
  Do(EndTurn(Cut(u, received, u.turn.cause, "restarted"), u.turn.cause, "restarted"),
     {[a |-> "CancelModel", seen |-> u.turn.mark]})

\* The session is told to stop.
Noticed(s) == [s EXCEPT !.restarting = TRUE]

LEMMA RestartWhileAsking ==
  ASSUME NEW s, NEW received, NEW u, u = ForceStopAsBefore(Noticed(s)),
         ~Idle(u), u.turn.stage = "asking"
  PROVE  Restart(s, received) = WoundUpAsking(u, received)
<1> DEFINE stopped == ForceStopAsBefore([s EXCEPT !.restarting = TRUE])
           turn == stopped.turn
           open == [stopped EXCEPT !.turn.stage = "settling", !.turn.calls = << >>]
           undone == {i \in DOMAIN turn.calls : turn.calls[i].state # "done"}
           end == Settle(open, turn.mark, turn.cause, received, TRUE)
           asking == turn.stage = "asking"
           base == IF asking THEN end.s ELSE open
           unfinished == IF asking THEN end.calls ELSE Picked(turn.calls, undone)
           h == [i \in DOMAIN unfinished |-> Result(unfinished[i].id, "restarted")]
           settled == PutEach(base, turn.cause, h)
           stops == IF asking THEN {[a |-> "CancelModel", seen |-> turn.mark]}
                    ELSE {[a |-> "CancelTool", call |-> turn.calls[i].id] :
                            i \in {j \in DOMAIN turn.calls : Executing(turn.calls[j])}}
           after == IF Idle(stopped) THEN stopped
                    ELSE Do(EndTurn(settled, turn.cause, "restarted"), stops)
<1>0. PICK by, why, p, actions :
          /\ by = u.turn.cause /\ why = "restarted" /\ p = Cut(u, received, by, why)
          /\ actions = {[a |-> "CancelModel", seen |-> u.turn.mark]}
  OBVIOUS
<1>1. PICK taken : taken = [u EXCEPT !.turn.stage = "settling", !.turn.calls = << >>]
  OBVIOUS
<1>2. PICK cut : cut = Settle(taken, u.turn.mark, u.turn.cause, received, TRUE)
  OBVIOUS
<1>3. PICK calls : calls = cut.calls
  OBVIOUS
<1>4. p = PutEach(cut.s, by, [i \in DOMAIN calls |-> Result(calls[i].id, why)])
  BY <1>0, <1>1, <1>2, <1>3 DEF Cut
<1>5. p = PutEach(cut.s, u.turn.cause,
                  [i \in DOMAIN calls |-> Result(calls[i].id, "restarted")])
  BY <1>0, <1>4
<1>7. Restart(s, received) = after
  BY DEF Restart
<1>8. stopped = u
  BY DEF Noticed
<1> HIDE DEF stopped
<1>9. asking /\ turn = u.turn
  BY <1>8
<1>10. stops = actions
  BY <1>0, <1>9
<1>11. open = taken /\ end = cut
  BY <1>1, <1>2, <1>8
<1> HIDE DEF open, end, turn
<1>12. base = cut.s /\ unfinished = calls
  BY <1>3, <1>9, <1>11
<1> HIDE DEF base, unfinished, asking, stops
<1>13. h = [i \in DOMAIN calls |-> Result(calls[i].id, "restarted")]
  BY <1>12
<1> HIDE DEF h
<1>14. settled = p
  BY <1>5, <1>9, <1>12, <1>13
<1> HIDE DEF settled
<1>15. after = Do(EndTurn(p, by, why), actions)
  BY <1>0, <1>8, <1>9, <1>10, <1>14
<1>16. WoundUpAsking(u, received) = Do(EndTurn(p, by, why), actions)
  BY <1>0 DEF WoundUpAsking
<1> QED
  BY <1>7, <1>15, <1>16

\* After a planned restart the session rests, and nobody waits to be heard.
LEMMA RestartHeeds ==
  ASSUME NEW s, NEW g, NEW h, Attentive(s, h), g.w = h.w, g.n = h.n, g.c = h.c,
         g.z = TRUE, NEW received, IsSeq(received.calls),
         NEW t, t = Restart(s, received)
  PROVE  Attentive(t, g) /\ Idle(t)
<1>1. PICK noted : noted = Noticed(s)
  OBVIOUS
<1>2. Attentive(noted, g)
  <2>1. /\ Shapely(noted) /\ noted.log = s.log /\ noted.book = s.book
        /\ noted.stored = s.stored /\ noted.turn = s.turn
        /\ noted.refused = s.refused /\ noted.restarting = TRUE
    BY <1>1 DEF Noticed, Attentive, Sound, Shapely, KernelFields
  <2>2. Sound(noted)
    BY <2>1 DEF Attentive, Sound
  <2>3. Founded(s.log, h) => Founded(s.log, g)
    BY DEF Founded, FoundedAt, FromMessage, FromRestart
  <2>4. MeansIt(s.turn, h) => MeansIt(s.turn, g)
    BY DEF MeansIt
  <2> QED
    BY <2>1, <2>2, <2>3, <2>4 DEF Attentive
<1>3. PICK u : u = ForceStopAsBefore(noted)
  OBVIOUS
<1>4. Attentive(u, g)
  BY <1>2, <1>3, ForceStopAsBeforeHeeds
<1>5. CASE Idle(u)
  <2>1. t = u
    BY <1>1, <1>3, <1>5 DEF Restart, Noticed
  <2> QED
    BY <1>4, <1>5, <2>1
<1>6. CASE ~Idle(u)
  <2>1. PICK by, why, mark : /\ by = u.turn.cause /\ why = "restarted" /\ mark = u.turn.mark
    OBVIOUS
  <2>2. PICK d : d = Deaf(g)
    OBVIOUS
  <2>3. PICK taken : taken = [u EXCEPT !.turn.stage = "settling", !.turn.calls = << >>]
    OBVIOUS
  <2>4. Attentive(taken, d)
    <3>1. Attentive(u, d) /\ d.c = FALSE
      BY <1>4, <2>2, AttentiveDeaf, DeafIs
    <3>2. /\ taken.log = u.log /\ taken.book = u.book /\ taken.stored = u.stored
          /\ taken.refused = u.refused /\ taken.restarting = u.restarting
          /\ taken.turn.id = u.turn.id /\ taken.turn.requests = u.turn.requests
          /\ taken.turn.queued = u.turn.queued /\ taken.turn.retrying = u.turn.retrying
          /\ taken.turn.intr = u.turn.intr
          /\ taken.turn.stage = "settling" /\ Shapely(taken)
      BY <1>4, <2>3, EmptyIsSeq DEF Attentive, Sound, Shapely, KernelFields, TurnFields
    <3> QED
      BY <3>1, <3>2, MovedOnHeeds
  <2>5. ASSUME NEW p, Attentive(p, d), NEW e, e = EndTurn(p, by, why),
               NEW actions, t = Do(e, actions)
        PROVE  Attentive(t, g) /\ Idle(t)
    <3>1. Attentive(p, Deaf(g)) /\ why \in Covering
      BY <2>1, <2>2, <2>5 DEF Covering
    <3>2. Attentive(e, g) /\ e.turn = NoTurn
      BY <2>5, <3>1, EndTurnHeeds
    <3>3. Attentive(t, g) /\ t.turn = NoTurn
      <4>1. t = Do(e, actions) /\ Attentive(e, g)
        BY <2>5, <3>2
      <4>2. Heeds(e, t, g)
        BY <4>1, DoHeeds
      <4> QED
        BY <3>2, <4>2 DEF Heeds
    <3> QED
      BY <3>3 DEF Idle, NoTurn, NewTurn
  <2>6. CASE u.turn.stage = "asking"
    <3>1. PICK cut : cut = Settle(taken, mark, by, received, TRUE)
      OBVIOUS
    <3>2. Settled(taken, cut, d)
      <4>1. Attentive(taken, Deaf(d)) /\ d.c = FALSE
        BY <2>2, <2>4, DeafIs
      <4> QED
        BY <3>1, <4>1, SettleHeeds
    <3>3. PICK calls, base : calls = cut.calls /\ base = cut.s
      OBVIOUS
    <3>4. IsSeq(calls) /\ Attentive(base, d)
      BY <3>2, <3>3 DEF Settled
    <3>5. PICK list : list = [i \in DOMAIN calls |-> Result(calls[i].id, why)]
      OBVIOUS
    <3>6. QuietBodies(list)
      <4>1. list = [i \in DOMAIN calls |-> list[i]]
        BY <3>5
      <4>2. \A i \in DOMAIN calls : \E call, x : list[i] = Result(call, x)
        BY <3>5
      <4> QED
        BY <3>4, <4>1, <4>2, ResultsAreQuiet
    <3>7. PICK p : p = PutEach(base, by, list)
      OBVIOUS
    <3>8. Attentive(p, d)
      BY <3>4, <3>6, <3>7, PutEachQuiet DEF Heeds
    <3>9. PICK e, actions : /\ e = EndTurn(p, by, why)
                            /\ actions = {[a |-> "CancelModel", seen |-> mark]}
      OBVIOUS
    <3>10. t = Do(e, actions)
      <4>1. u = ForceStopAsBefore(Noticed(s))
        BY <1>1, <1>3
      <4>2. t = WoundUpAsking(u, received)
        BY <1>6, <2>6, <4>1, RestartWhileAsking
      <4>3. p = Cut(u, received, by, why)
        BY <2>1, <2>3, <3>1, <3>3, <3>5, <3>7 DEF Cut
      <4> QED
        BY <2>1, <3>9, <4>2, <4>3 DEF WoundUpAsking
    <3> QED
      BY <2>5, <3>8, <3>9, <3>10
  <2>7. CASE u.turn.stage # "asking"
    <3>1. PICK calls, at : /\ calls = u.turn.calls
                           /\ at = {i \in DOMAIN calls : calls[i].state # "done"}
      OBVIOUS
    <3>2. IsSeq(calls) /\ at \in SUBSET (DOMAIN calls)
      BY <1>4, <3>1 DEF Attentive, Sound, Shapely
    <3>3. PICK left : left = Picked(calls, at)
      OBVIOUS
    <3>4. IsSeq(left)
      BY <3>2, <3>3, PickedHolds
    <3>5. PICK list : list = [i \in DOMAIN left |-> Result(left[i].id, why)]
      OBVIOUS
    <3>6. QuietBodies(list)
      <4>1. list = [i \in DOMAIN left |-> list[i]]
        BY <3>5
      <4>2. \A i \in DOMAIN left : \E call, x : list[i] = Result(call, x)
        BY <3>5
      <4> QED
        BY <3>4, <4>1, <4>2, ResultsAreQuiet
    <3>7. PICK p : p = PutEach(taken, by, list)
      OBVIOUS
    <3>8. Attentive(p, d)
      BY <2>4, <3>6, <3>7, PutEachQuiet DEF Heeds
    <3>9. PICK e, actions : /\ e = EndTurn(p, by, why)
                            /\ actions = {[a |-> "CancelTool", call |-> calls[i].id] :
                                            i \in {j \in DOMAIN calls : Executing(calls[j])}}
      OBVIOUS
    <3>10. t = Do(e, actions)
      <4>1. p = PutEach(taken, u.turn.cause,
                        [i \in DOMAIN left |-> Result(left[i].id, "restarted")])
        BY <2>1, <3>5, <3>7
      <4>2. e = EndTurn(p, u.turn.cause, "restarted")
        BY <2>1, <3>9
      <4>3. u = ForceStopAsBefore([s EXCEPT !.restarting = TRUE])
        BY <1>1, <1>3 DEF Noticed
      <4> QED
        BY <1>6, <2>3, <2>7, <3>1, <3>3, <3>9, <4>1, <4>2, <4>3 DEF Restart
    <3> QED
      BY <2>5, <3>8, <3>9, <3>10
  <2> QED
    BY <2>6, <2>7
<1> QED
  BY <1>5, <1>6

=============================================================================
