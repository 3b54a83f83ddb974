--------------------------- MODULE PipelineProofs ---------------------------
(* Proofs about a record and the verdict on it: `assayist run`, which writes *)
(* records and hands them to the gate (module Pipeline), the gate by itself  *)
(* (module Gate), and the way of a record through OTLP (module MetricPath).  *)
(* They hold for any definitions, any number of CPUs, runs and fragments,    *)
(* any interference with the host, any groups, captures and trips.           *)
EXTENDS Pipeline, Gate, MetricPath, FiniteSetTheorems, SequenceTheorems, TLAPS

(* Induction over the natural numbers, on sets. *)

\* Every set of natural numbers that is not empty has a least member.
LEMMA NatMin ==
    ASSUME NEW T, T \subseteq Nat, T /= {}
    PROVE  \E x \in T : \A y \in T : x <= y
  <1>1. IsWellFoundedOn(OpToRel(<, Nat), Nat)
    BY NatLessThanWellFounded
  <1>2. PICK x \in T : \A y \in T : ~(<<y, x>> \in OpToRel(<, Nat))
    BY <1>1, WFMin
  <1>3. \A y \in T : ~(y < x)
    BY <1>2 DEF OpToRel
  <1>4. QED
    BY <1>3

\* A set with 0 and, with every number, the next holds them all.
LEMMA SetInduction ==
    ASSUME NEW S, 0 \in S, \A n \in Nat : n \in S => n + 1 \in S
    PROVE  \A n \in Nat : n \in S
  <1> SUFFICES ASSUME NEW m \in Nat, m \notin S PROVE FALSE
    OBVIOUS
  <1>1. PICK x \in {n \in Nat : n \notin S} : \A y \in {n \in Nat : n \notin S} : x <= y
    <2>1. {n \in Nat : n \notin S} \subseteq Nat /\ {n \in Nat : n \notin S} /= {}
      OBVIOUS
    <2>2. QED
      BY <2>1, NatMin
  <1>2. x /= 0 /\ x \in Nat
    BY <1>1
  <1>3. x - 1 \in Nat /\ x - 1 \in S
    BY <1>1, <1>2
  <1>4. QED
    BY <1>1, <1>2, <1>3

-----------------------------------------------------------------------------
(* FlattenSeq. *)

\* F is the running concatenation of the first k members of s.
Concats(F, s, k) == F[1] = s[1] /\ \A i \in 2 .. k : F[i] = F[i - 1] \o s[i]

\* It starts with the first member.
LEMMA ConcatenateFirst ==
    ASSUME NEW T, NEW s, s[1] \in Seq(T)
    PROVE  \E F \in [1 .. 1 -> Seq(T)] : Concats(F, s, 1)
  <1> DEFINE F == [i \in 1 .. 1 |-> s[1]]
  <1>1. F \in [1 .. 1 -> Seq(T)] /\ F[1] = s[1]
    OBVIOUS
  <1> HIDE DEF F
  <1>2. Concats(F, s, 1)
    BY <1>1 DEF Concats
  <1>3. QED
    BY <1>1, <1>2

\* It goes on with the next.
LEMMA ConcatenateNext ==
    ASSUME NEW T, NEW s, NEW n \in Nat \ {0}, s[n + 1] \in Seq(T),
           NEW F \in [1 .. n -> Seq(T)], Concats(F, s, n)
    PROVE  \E H \in [1 .. n + 1 -> Seq(T)] : Concats(H, s, n + 1)
  <1>1. F[n] \in Seq(T)
    OBVIOUS
  <1>2. PICK e \in Seq(T) : e = F[n] \o s[n + 1]
    <2>1. F[n] \o s[n + 1] \in Seq(T)
      BY <1>1
    <2>2. QED
      BY <2>1, Zenon
  <1> DEFINE H == [i \in 1 .. n + 1 |-> IF i = n + 1 THEN e ELSE F[i]]
  <1>3. H \in [1 .. n + 1 -> Seq(T)]
    BY <1>2
  <1>4. H[n + 1] = e
    OBVIOUS
  <1>5. \A i \in 1 .. n : H[i] = F[i]
    OBVIOUS
  <1> HIDE DEF H
  <1>6. H[1] = s[1]
    BY <1>5 DEF Concats
  <1>7. ASSUME NEW i \in 2 .. n + 1 PROVE H[i] = H[i - 1] \o s[i]
    <2>1. CASE i = n + 1
      <3>1. i - 1 = n /\ n \in 1 .. n
        BY <2>1
      <3>2. H[i] = e /\ H[i - 1] = F[n] /\ s[i] = s[n + 1]
        BY <1>4, <1>5, <2>1, <3>1
      <3>3. QED
        BY <1>2, <3>2, Zenon
    <2>2. CASE i /= n + 1
      <3>1. i \in 2 .. n /\ i \in 1 .. n /\ i - 1 \in 1 .. n
        BY <2>2
      <3>2. QED
        BY <1>5, <3>1 DEF Concats
    <2>3. QED
      BY <2>1, <2>2
  <1>8. QED
    BY <1>3, <1>6, <1>7 DEF Concats

\* So it exists for the whole of s.
LEMMA Concatenations ==
    ASSUME NEW T, NEW s \in Seq(Seq(T)), Len(s) /= 0
    PROVE  \E F \in [1 .. Len(s) -> Seq(T)] : Concats(F, s, Len(s))
  <1> DEFINE S == {k \in Nat : k \in 1 .. Len(s) =>
                                   \E F \in [1 .. k -> Seq(T)] : Concats(F, s, k)}
  <1>1. Len(s) \in Nat /\ \A i \in 1 .. Len(s) : s[i] \in Seq(T)
    OBVIOUS
  <1>2. 0 \in S
    OBVIOUS
  <1>3. ASSUME NEW n \in Nat, n \in S PROVE n + 1 \in S
    <2> SUFFICES ASSUME n + 1 \in 1 .. Len(s)
                 PROVE  \E F \in [1 .. n + 1 -> Seq(T)] : Concats(F, s, n + 1)
      OBVIOUS
    <2>1. s[n + 1] \in Seq(T)
      BY <1>1
    <2>2. CASE n = 0
      <3>1. n + 1 = 1 /\ s[1] \in Seq(T)
        BY <2>1, <2>2
      <3>2. \E F \in [1 .. 1 -> Seq(T)] : Concats(F, s, 1)
        BY <3>1, ConcatenateFirst
      <3>3. QED
        BY <3>1, <3>2, Zenon
    <2>3. CASE n /= 0
      <3>1. n \in Nat \ {0} /\ n \in 1 .. Len(s)
        BY <1>1, <2>3
      <3>2. PICK F \in [1 .. n -> Seq(T)] : Concats(F, s, n)
        BY <1>3, <3>1
      <3>3. QED
        BY <2>1, <3>1, <3>2, ConcatenateNext
    <2>4. QED
      BY <2>2, <2>3
  <1> HIDE DEF S
  <1>4. Len(s) \in S
    BY <1>1, <1>2, <1>3, SetInduction
  <1>5. QED
    BY <1>1, <1>4 DEF S

\* FlattenSeq is the last of the running concatenations.
LEMMA Flattening ==
    ASSUME NEW T, NEW s \in Seq(Seq(T)), Len(s) /= 0
    PROVE  \E F : /\ F \in [1 .. Len(s) -> Seq(T)] /\ Concats(F, s, Len(s))
                 /\ FlattenSeq(s) = F[Len(s)]
  <1> DEFINE Eqn(f) == f = [i \in 1 .. Len(s) |-> IF i = 1 THEN s[i] ELSE f[i - 1] \o s[i]]
             F == CHOOSE f : Eqn(f)
  <1>1. FlattenSeq(s) = F[Len(s)]
    BY Zenon DEF FlattenSeq
  <1>2. \E f : Eqn(f)
    <2>1. PICK f \in [1 .. Len(s) -> Seq(T)] : Concats(f, s, Len(s))
      BY Concatenations
    <2>2. ASSUME NEW i \in 1 .. Len(s)
          PROVE  f[i] = IF i = 1 THEN s[i] ELSE f[i - 1] \o s[i]
      <3>1. i = 1 \/ (i /= 1 /\ i \in 2 .. Len(s))
        OBVIOUS
      <3>2. QED
        BY <2>1, <3>1, Zenon DEF Concats
    <2>3. Eqn(f)
      BY <2>1, <2>2, Zenon
    <2>4. QED
      BY <2>3
  <1>3. Eqn(F)
    BY <1>2, Zenon
  <1> HIDE DEF F
  <1>4. DOMAIN F = 1 .. Len(s)
    BY <1>3, Zenon
  <1>5. \A i \in 1 .. Len(s) : F[i] = IF i = 1 THEN s[i] ELSE F[i - 1] \o s[i]
    BY <1>3, Zenon
  <1>6. 1 \in 1 .. Len(s) /\ \A i \in 2 .. Len(s) : i /= 1 /\ i \in 1 .. Len(s)
    OBVIOUS
  <1>7. Concats(F, s, Len(s))
    BY <1>5, <1>6, Zenon DEF Concats
  <1> DEFINE S == {k \in Nat : k \in 1 .. Len(s) => F[k] \in Seq(T)}
  <1>8. 0 \in S
    OBVIOUS
  <1>9. ASSUME NEW n \in Nat, n \in S PROVE n + 1 \in S
    <2> SUFFICES ASSUME n + 1 \in 1 .. Len(s) PROVE F[n + 1] \in Seq(T)
      OBVIOUS
    <2>1. s[n + 1] \in Seq(T) /\ (n /= 0 => n \in 1 .. Len(s) /\ n + 1 \in 2 .. Len(s))
      OBVIOUS
    <2>2. CASE n = 0
      BY <1>7, <2>1, <2>2 DEF Concats
    <2>3. CASE n /= 0
      <3>1. F[n] \in Seq(T) /\ (n + 1) - 1 = n
        BY <1>9, <2>1, <2>3
      <3>2. F[n + 1] = F[n] \o s[n + 1]
        BY <1>7, <2>1, <2>3, <3>1, Zenon DEF Concats
      <3>3. QED
        BY <2>1, <3>1, <3>2
    <2>4. QED
      BY <2>2, <2>3
  <1> HIDE DEF S
  <1>10. \A k \in 1 .. Len(s) : F[k] \in Seq(T)
    <2>1. \A n \in Nat : n \in S
      BY <1>8, <1>9, SetInduction
    <2>2. QED
      BY <2>1 DEF S
  <1>11. F \in [1 .. Len(s) -> Seq(T)]
    <2>1. F = [i \in 1 .. Len(s) |-> F[i]]
      BY <1>3, <1>5, Zenon
    <2>2. QED
      BY <1>10, <2>1
  <1>12. QED
    BY <1>1, <1>7, <1>11

\* What is flattened keeps its members' type.
LEMMA FlattenType ==
    ASSUME NEW T, NEW s \in Seq(Seq(T))
    PROVE  FlattenSeq(s) \in Seq(T)
  <1>1. CASE Len(s) = 0
    <2>1. FlattenSeq(s) = s
      BY <1>1, Zenon DEF FlattenSeq
    <2>2. s = <<>>
      BY <1>1
    <2>3. QED
      BY <2>1, <2>2
  <1>2. CASE Len(s) /= 0
    <2>1. PICK F : F \in [1 .. Len(s) -> Seq(T)] /\ FlattenSeq(s) = F[Len(s)]
      BY <1>2, Flattening
    <2>2. PICK n \in Nat : n = Len(s)
      OBVIOUS
    <2>3. n \in 1 .. n
      BY <1>2, <2>2
    <2>4. QED
      BY <2>1, <2>2, <2>3, Zenon
  <1>3. QED
    BY <1>1, <1>2

\* Two sequences of one length whose members are related place by place.
Alike(x, y, R) == Len(x) = Len(y) /\ \A k \in 1 .. Len(x) : <<x[k], y[k]>> \in R

\* Concatenation keeps sequences alike.
LEMMA AlikeConcat ==
    ASSUME NEW A, NEW B, NEW R, NEW x \in Seq(A), NEW u \in Seq(A), NEW y \in Seq(B),
           NEW v \in Seq(B), Alike(x, y, R), Alike(u, v, R)
    PROVE  Alike(x \o u, y \o v, R)
  <1>1. /\ Len(x \o u) = Len(x) + Len(u) /\ Len(y \o v) = Len(y) + Len(v)
        /\ Len(x) = Len(y) /\ Len(u) = Len(v) /\ Len(x) \in Nat /\ Len(u) \in Nat
    <2>1. Len(x) = Len(y) /\ Len(u) = Len(v)
      BY DEF Alike
    <2>2. QED
      BY <2>1
  <1>2. ASSUME NEW k \in 1 .. Len(x \o u) PROVE <<(x \o u)[k], (y \o v)[k]>> \in R
    <2>1. CASE k <= Len(x)
      <3>1. (x \o u)[k] = x[k] /\ (y \o v)[k] = y[k] /\ k \in 1 .. Len(x)
        BY <1>1, <2>1
      <3>2. QED
        BY <3>1 DEF Alike
    <2>2. CASE k > Len(x)
      <3>1. /\ (x \o u)[k] = u[k - Len(x)] /\ (y \o v)[k] = v[k - Len(x)]
            /\ k - Len(x) \in 1 .. Len(u)
        BY <1>1, <2>2
      <3>2. QED
        BY <3>1 DEF Alike
    <2>3. k <= Len(x) \/ k > Len(x)
      <3>1. k \in Int /\ Len(x) \in Int
        BY <1>1
      <3>2. QED
        BY <3>1
    <2>4. QED
      BY <2>1, <2>2, <2>3, Zenon
  <1>3. Len(x \o u) = Len(y \o v)
    BY <1>1
  <1>4. QED
    BY <1>2, <1>3, Zenon DEF Alike

\* Flattening sequences of alike sequences gives alike sequences.
LEMMA AlikeFlatten ==
    ASSUME NEW A, NEW B, NEW R, NEW s \in Seq(Seq(A)), NEW t \in Seq(Seq(B)),
           Len(s) = Len(t), \A i \in 1 .. Len(s) : Alike(s[i], t[i], R)
    PROVE  Alike(FlattenSeq(s), FlattenSeq(t), R)
  <1>1. CASE Len(s) = 0
    <2>1. FlattenSeq(s) = s /\ FlattenSeq(t) = t
      BY <1>1, Zenon DEF FlattenSeq
    <2>2. Alike(s, t, R)
      BY <1>1 DEF Alike
    <2>3. QED
      BY <2>1, <2>2, Zenon
  <1>2. CASE Len(s) /= 0
    <2>1. PICK F : /\ F \in [1 .. Len(s) -> Seq(A)] /\ Concats(F, s, Len(s))
                   /\ FlattenSeq(s) = F[Len(s)]
      BY <1>2, Flattening
    <2>2. PICK H : /\ H \in [1 .. Len(t) -> Seq(B)] /\ Concats(H, t, Len(t))
                   /\ FlattenSeq(t) = H[Len(t)]
      BY <1>2, Flattening
    <2> DEFINE S == {k \in Nat : k \in 1 .. Len(s) => Alike(F[k], H[k], R)}
    <2>3. 0 \in S
      OBVIOUS
    <2>4. ASSUME NEW n \in Nat, n \in S PROVE n + 1 \in S
      <3> SUFFICES ASSUME n + 1 \in 1 .. Len(s) PROVE Alike(F[n + 1], H[n + 1], R)
        OBVIOUS
      <3>1. /\ s[n + 1] \in Seq(A) /\ t[n + 1] \in Seq(B) /\ Alike(s[n + 1], t[n + 1], R)
            /\ n /= 0 => n \in 1 .. Len(s) /\ n + 1 \in 2 .. Len(s)
        OBVIOUS
      <3>2. CASE n = 0
        <4>1. F[n + 1] = s[n + 1] /\ H[n + 1] = t[n + 1]
          BY <2>1, <2>2, <3>2 DEF Concats
        <4>2. QED
          BY <3>1, <4>1
      <3>3. CASE n /= 0
        <4>1. F[n] \in Seq(A) /\ H[n] \in Seq(B) /\ Alike(F[n], H[n], R) /\ (n + 1) - 1 = n
          <5>1. Alike(F[n], H[n], R)
            BY <2>4, <3>1, <3>3, Zenon
          <5>2. F[n] \in Seq(A) /\ H[n] \in Seq(B)
            BY <2>1, <2>2, <3>1, <3>3
          <5>3. QED
            BY <5>1, <5>2
        <4>2. F[n + 1] = F[n] \o s[n + 1] /\ H[n + 1] = H[n] \o t[n + 1]
          BY <2>1, <2>2, <3>1, <3>3, <4>1, Zenon DEF Concats
        <4>3. Alike(F[n] \o s[n + 1], H[n] \o t[n + 1], R)
          BY <3>1, <4>1, AlikeConcat
        <4>4. QED
          BY <4>2, <4>3, Zenon
      <3>4. QED
        BY <3>2, <3>3
    <2> HIDE DEF S
    <2>5. Len(s) \in S
      <3>1. Len(s) \in Nat
        OBVIOUS
      <3>2. QED
        BY <2>3, <2>4, <3>1, SetInduction
    <2>6. Alike(F[Len(s)], H[Len(t)], R)
      BY <1>2, <2>5 DEF S
    <2>7. QED
      BY <2>1, <2>2, <2>6, Zenon
  <1>3. QED
    BY <1>1, <1>2

\* f holds the one value of each of the first m members of s.
Pushed(f, s, m) == Len(f) = m /\ \A i \in 1 .. m : f[i] = s[i][1]

\* What a concatenation is made of.
LEMMA ConcatenateIndex ==
    ASSUME NEW T, NEW f \in Seq(T), NEW u \in Seq(T)
    PROVE  /\ f \o u \in Seq(T) /\ Len(f \o u) = Len(f) + Len(u) /\ Len(f) \in Nat
           /\ \A k \in 1 .. Len(f) : (f \o u)[k] = f[k]
           /\ \A k \in Len(f) + 1 .. Len(f) + Len(u) : (f \o u)[k] = u[k - Len(f)]
  <1>1. f \o u \in Seq(T)
    OBVIOUS
  <1>2. Len(f \o u) = Len(f) + Len(u) /\ Len(f) \in Nat
    OBVIOUS
  <1>3. ASSUME NEW k \in 1 .. Len(f) PROVE (f \o u)[k] = f[k]
    OBVIOUS
  <1>4. ASSUME NEW k \in Len(f) + 1 .. Len(f) + Len(u) PROVE (f \o u)[k] = u[k - Len(f)]
    OBVIOUS
  <1>5. QED
    BY <1>1, <1>2, <1>3, <1>4, Zenon

\* Pushing the next value.
LEMMA PushOne ==
    ASSUME NEW T, NEW s, NEW m \in Nat, NEW f \in Seq(T), NEW u \in Seq(T), Len(u) = 1,
           u = s[m + 1], Pushed(f, s, m)
    PROVE  Pushed(f \o u, s, m + 1)
  <1>1. Len(f) = m /\ \A i \in 1 .. m : f[i] = s[i][1]
    BY DEF Pushed
  <1>2. PICK h \in Seq(T) :
            /\ h = f \o u /\ Len(h) = Len(f) + Len(u) /\ \A k \in 1 .. Len(f) : h[k] = f[k]
            /\ \A k \in Len(f) + 1 .. Len(f) + Len(u) : h[k] = u[k - Len(f)]
    <2>1. /\ f \o u \in Seq(T) /\ Len(f \o u) = Len(f) + Len(u)
          /\ \A k \in 1 .. Len(f) : (f \o u)[k] = f[k]
          /\ \A k \in Len(f) + 1 .. Len(f) + Len(u) : (f \o u)[k] = u[k - Len(f)]
      BY ConcatenateIndex, ZenonT(40)
    <2>2. QED
      BY <2>1, Zenon
  <1>3. Len(h) = m + 1
    BY <1>1, <1>2, Zenon
  <1>4. ASSUME NEW i \in 1 .. m + 1 PROVE h[i] = s[i][1]
    <2>1. CASE i = m + 1
      <3>1. i \in Len(f) + 1 .. Len(f) + Len(u) /\ i - Len(f) = 1
        BY <1>1, <2>1
      <3>2. h[i] = u[1]
        BY <1>2, <3>1, Zenon
      <3>3. QED
        BY <2>1, <3>2, Zenon
    <2>2. CASE i /= m + 1
      <3>1. i \in 1 .. m
        BY <2>2
      <3>2. QED
        BY <1>1, <1>2, <3>1, Zenon
    <2>3. QED
      BY <2>1, <2>2
  <1>5. Pushed(h, s, m + 1)
    BY <1>3, <1>4, Zenon DEF Pushed
  <1>6. QED
    BY <1>2, <1>5, Zenon

\* A loop that pushes one value for each of the first n members and nothing for the
\* others leaves those n values.
LEMMA FlattenSingles ==
    ASSUME NEW T, NEW s \in Seq(Seq(T)), NEW n \in 0 .. Len(s),
           \A i \in 1 .. n : Len(s[i]) = 1, \A i \in n + 1 .. Len(s) : s[i] = <<>>
    PROVE  Pushed(FlattenSeq(s), s, n)
  <1>1. CASE Len(s) = 0
    <2>1. FlattenSeq(s) = s
      BY <1>1, Zenon DEF FlattenSeq
    <2>2. Pushed(s, s, n)
      BY <1>1 DEF Pushed
    <2>3. QED
      BY <2>1, <2>2, Zenon
  <1>2. CASE Len(s) /= 0
    <2>1. PICK F : /\ F \in [1 .. Len(s) -> Seq(T)] /\ Concats(F, s, Len(s))
                   /\ FlattenSeq(s) = F[Len(s)]
      BY <1>2, Flattening
    <2> DEFINE S == {k \in Nat : k \in 1 .. Len(s) =>
                        (k <= n => Pushed(F[k], s, k)) /\ (k > n => Pushed(F[k], s, n))}
    <2>2. 0 \in S
      OBVIOUS
    <2>3. ASSUME NEW k \in Nat, k \in S PROVE k + 1 \in S
      <3> SUFFICES ASSUME k + 1 \in 1 .. Len(s)
                   PROVE  /\ k + 1 <= n => Pushed(F[k + 1], s, k + 1)
                          /\ k + 1 > n => Pushed(F[k + 1], s, n)
        OBVIOUS
      <3>1. /\ s[k + 1] \in Seq(T) /\ n \in Nat
            /\ k /= 0 => k \in 1 .. Len(s) /\ k + 1 \in 2 .. Len(s)
            /\ k + 1 <= n => Len(s[k + 1]) = 1
            /\ k + 1 > n => s[k + 1] = <<>>
        OBVIOUS
      <3>2. CASE k = 0
        <4>1. F[k + 1] = s[1] /\ k + 1 = 1
          BY <2>1, <3>2 DEF Concats
        <4>2. QED
          BY <3>1, <3>2, <4>1 DEF Pushed
      <3>3. CASE k /= 0
        <4>1. F[k] \in Seq(T) /\ (k + 1) - 1 = k
          BY <2>1, <3>1, <3>3
        <4>2. (k <= n => Pushed(F[k], s, k)) /\ (k > n => Pushed(F[k], s, n))
          BY <2>3, <3>1, <3>3, Zenon
        <4>3. F[k + 1] = F[k] \o s[k + 1]
          BY <2>1, <3>1, <3>3, <4>1, Zenon DEF Concats
        <4>4. CASE k + 1 <= n
          <5>1. Pushed(F[k], s, k) /\ Len(s[k + 1]) = 1
            BY <3>1, <4>2, <4>4
          <5>2. Pushed(F[k] \o s[k + 1], s, k + 1)
            BY <3>1, <4>1, <5>1, PushOne
          <5>3. Pushed(F[k + 1], s, k + 1)
            BY <4>3, <5>2, Zenon
          <5>4. QED
            BY <3>1, <4>4, <5>3
        <4>5. CASE k + 1 > n
          <5>1. Pushed(F[k], s, n)
            <6>1. CASE k > n
              BY <4>2, <6>1
            <6>2. CASE ~(k > n)
              <7>1. k = n
                BY <3>1, <4>5, <6>2
              <7>2. k <= n
                BY <7>1
              <7>3. QED
                BY <4>2, <7>1, <7>2
            <6>3. QED
              BY <6>1, <6>2
          <5>2. F[k] \o s[k + 1] = F[k]
            <6>1. F[k] \o <<>> = F[k]
              BY <4>1
            <6>2. QED
              BY <3>1, <4>5, <6>1, Zenon
          <5>3. Pushed(F[k + 1], s, n)
            BY <4>3, <5>1, <5>2, Zenon
          <5>4. QED
            BY <3>1, <4>5, <5>3
        <4>6. QED
          BY <3>1, <4>4, <4>5
      <3>4. QED
        BY <3>2, <3>3
    <2> HIDE DEF S
    <2>4. Len(s) \in S
      <3>1. Len(s) \in Nat
        OBVIOUS
      <3>2. QED
        BY <2>2, <2>3, <3>1, SetInduction
    <2>5. Pushed(F[Len(s)], s, n)
      <3>1. Len(s) \in 1 .. Len(s) /\ (Len(s) <= n => Len(s) = n) /\ (Len(s) <= n \/ Len(s) > n)
        BY <1>2
      <3>2. QED
        BY <2>4, <3>1, Zenon DEF S
    <2>6. QED
      BY <2>1, <2>5, Zenon
  <1>3. QED
    BY <1>1, <1>2

\* A function on 1 .. n is a sequence of length n.
LEMMA FunctionIsSeq ==
    ASSUME NEW T, NEW n \in Nat, NEW q \in [1 .. n -> T]
    PROVE  q \in Seq(T) /\ Len(q) = n
  OBVIOUS

\* A sequence of one member.
LEMMA Single ==
    ASSUME NEW x
    PROVE  Len(<<x>>) = 1 /\ <<x>>[1] = x
  OBVIOUS

\* Sequences of one member each.
LEMMA AlikeOne ==
    ASSUME NEW R, NEW a, NEW x, <<a, x>> \in R
    PROVE  Alike(<<a>>, <<x>>, R)
  <1>1. Len(<<a>>) = 1 /\ Len(<<x>>) = 1 /\ <<a>>[1] = a /\ <<x>>[1] = x
    BY Single, Zenon
  <1>2. \A k \in 1 .. 1 : k = 1
    OBVIOUS
  <1>3. QED
    BY <1>1, <1>2, Zenon DEF Alike

\* A set with the empty sequence and, with every sequence, all that are longer by
\* one member, holds all sequences.
LEMMA SeqInduction ==
    ASSUME NEW T, NEW P, <<>> \in P, \A s \in Seq(T), x \in T : s \in P => Append(s, x) \in P
    PROVE  \A s \in Seq(T) : s \in P
  <1> DEFINE S == {k \in Nat : \A s \in Seq(T) : Len(s) = k => s \in P}
  <1>1. 0 \in S
    <2>1. \A s \in Seq(T) : Len(s) = 0 => s = <<>>
      OBVIOUS
    <2>2. QED
      BY <2>1
  <1>2. ASSUME NEW n \in Nat, n \in S PROVE n + 1 \in S
    <2> SUFFICES ASSUME NEW s \in Seq(T), Len(s) = n + 1 PROVE s \in P
      OBVIOUS
    <2> DEFINE u == [i \in 1 .. n |-> s[i]]
    <2>1. u \in [1 .. n -> T] /\ s[n + 1] \in T
      OBVIOUS
    <2>2. u \in Seq(T) /\ Len(u) = n
      BY <2>1, FunctionIsSeq
    <2>3. \A i \in 1 .. n : u[i] = s[i]
      OBVIOUS
    <2> HIDE DEF u
    <2>4. Append(u, s[n + 1]) = s
      BY <2>1, <2>2, <2>3
    <2>5. u \in P
      BY <1>2, <2>2
    <2>6. Append(u, s[n + 1]) \in P
      BY <2>1, <2>2, <2>5
    <2>7. QED
      BY <2>4, <2>6, Zenon
  <1> HIDE DEF S
  <1>3. \A n \in Nat : n \in S
    BY <1>1, <1>2, SetInduction
  <1>4. QED
    BY <1>3 DEF S

\* Concatenation is associative and has the empty sequence as its unit.
LEMMA ConcatLaws ==
    ASSUME NEW T, NEW s \in Seq(T), NEW t \in Seq(T), NEW u \in Seq(T)
    PROVE  /\ s \o t \in Seq(T) /\ (s \o t) \o u = s \o (t \o u)
           /\ s \o <<>> = s /\ <<>> \o s = s
  <1>1. s \o t \in Seq(T)
    OBVIOUS
  <1>2. s \o <<>> = s /\ <<>> \o s = s
    OBVIOUS
  <1>3. (s \o t) \o u = s \o (t \o u)
    OBVIOUS
  <1>4. QED
    BY <1>1, <1>2, <1>3, Zenon

\* Appending to one part of a concatenation.
LEMMA ConcatAppend ==
    ASSUME NEW T, NEW s \in Seq(T), NEW t \in Seq(T), NEW x \in T
    PROVE  s \o Append(t, x) = Append(s \o t, x) /\ Append(s, x) \in Seq(T)
  <1>1. s \o Append(t, x) = Append(s \o t, x)
    OBVIOUS
  <1>2. QED
    BY <1>1

\* Flattening nothing, and flattening one member more.
LEMMA FlattenAppend ==
    ASSUME NEW T, NEW s \in Seq(Seq(T)), NEW x \in Seq(T)
    PROVE  FlattenSeq(Append(s, x)) = FlattenSeq(s) \o x
  <1>1. PICK t \in Seq(Seq(T)) : t = Append(s, x)
    <2>1. Append(s, x) \in Seq(Seq(T))
      OBVIOUS
    <2>2. QED
      BY <2>1, Zenon
  <1>2. /\ Len(t) = Len(s) + 1 /\ t[Len(s) + 1] = x /\ \A i \in 1 .. Len(s) : t[i] = s[i]
        /\ Len(s) \in Nat /\ Len(t) /= 0
    BY <1>1
  <1>3. PICK H : /\ H \in [1 .. Len(t) -> Seq(T)] /\ Concats(H, t, Len(t))
                 /\ FlattenSeq(t) = H[Len(t)]
    BY <1>2, Flattening
  <1>4. CASE Len(s) = 0
    <2>1. s = <<>>
      BY <1>4
    <2>2. FlattenSeq(s) = <<>>
      BY <1>4, <2>1, Zenon DEF FlattenSeq
    <2>3. H[Len(t)] = x
      BY <1>2, <1>3, <1>4 DEF Concats
    <2>4. <<>> \o x = x
      BY ConcatLaws
    <2>5. QED
      BY <1>1, <1>3, <2>2, <2>3, <2>4, Zenon
  <1>5. CASE Len(s) /= 0
    <2>1. PICK F : /\ F \in [1 .. Len(s) -> Seq(T)] /\ Concats(F, s, Len(s))
                   /\ FlattenSeq(s) = F[Len(s)]
      BY <1>5, Flattening
    <2> DEFINE S == {k \in Nat : k \in 1 .. Len(s) => F[k] = H[k]}
    <2>2. 0 \in S
      OBVIOUS
    <2>3. ASSUME NEW n \in Nat, n \in S PROVE n + 1 \in S
      <3> SUFFICES ASSUME n + 1 \in 1 .. Len(s) PROVE F[n + 1] = H[n + 1]
        OBVIOUS
      <3>1. s[n + 1] = t[n + 1]
        BY <1>2
      <3>2. CASE n = 0
        <4>1. F[1] = s[1] /\ H[1] = t[1]
          BY <1>3, <2>1, Zenon DEF Concats
        <4>2. n + 1 = 1
          BY <3>2
        <4>3. QED
          BY <3>1, <4>1, <4>2, Zenon
      <3>3. CASE n /= 0
        <4>1. n \in 1 .. Len(s) /\ n + 1 \in 2 .. Len(s) /\ n + 1 \in 2 .. Len(t) /\ (n + 1) - 1 = n
          <5>1. Len(t) = Len(s) + 1 /\ Len(s) \in Nat
            BY <1>2
          <5>2. QED
            BY <3>3, <5>1
        <4>2. F[n] = H[n]
          BY <2>3, <4>1, Zenon
        <4>3. QED
          BY <1>3, <2>1, <3>1, <4>1, <4>2, Zenon DEF Concats
      <3>4. QED
        BY <3>2, <3>3
    <2> HIDE DEF S
    <2>4. \A n \in Nat : n \in S
      BY <2>2, <2>3, SetInduction
    <2>5. F[Len(s)] = H[Len(s)]
      BY <1>2, <1>5, <2>4 DEF S
    <2>6. Len(t) \in 2 .. Len(t) /\ Len(t) - 1 = Len(s) /\ t[Len(t)] = x
      BY <1>2, <1>5
    <2>7. H[Len(t)] = H[Len(s)] \o x
      BY <1>3, <2>6, Zenon DEF Concats
    <2>8. QED
      BY <1>1, <1>3, <2>1, <2>5, <2>7, Zenon
  <1>6. QED
    BY <1>4, <1>5

\* Flattening nothing.
LEMMA FlattenEmpty == FlattenSeq(<<>>) = <<>>
  <1>1. Len(<<>>) = 0
    OBVIOUS
  <1>2. QED
    BY <1>1, Zenon DEF FlattenSeq

-----------------------------------------------------------------------------
(* Loops that push, for each member of a sequence, a sequence of their own. *)
Bind(s, w) == FlattenSeq([i \in DOMAIN s |-> w[s[i]]])

\* It gives a sequence, and nothing for nothing.
LEMMA BindType ==
    ASSUME NEW A, NEW B, NEW w \in [A -> Seq(B)], NEW s \in Seq(A)
    PROVE  Bind(s, w) \in Seq(B) /\ Bind(<<>>, w) = <<>>
  <1>1. [i \in DOMAIN s |-> w[s[i]]] \in Seq(Seq(B))
    <2>1. DOMAIN s = 1 .. Len(s) /\ Len(s) \in Nat
      OBVIOUS
    <2>2. [i \in DOMAIN s |-> w[s[i]]] \in [1 .. Len(s) -> Seq(B)]
      BY <2>1
    <2>3. QED
      BY <2>1, <2>2, FunctionIsSeq
  <1>2. [i \in DOMAIN <<>> |-> w[<<>>[i]]] = <<>>
    OBVIOUS
  <1>3. Bind(s, w) \in Seq(B)
    BY <1>1, FlattenType DEF Bind
  <1>4. QED
    BY <1>2, <1>3, FlattenEmpty, Zenon DEF Bind

\* After the others it pushes what x calls for.
LEMMA BindAppend ==
    ASSUME NEW A, NEW B, NEW w \in [A -> Seq(B)], NEW s \in Seq(A), NEW x \in A
    PROVE  Bind(Append(s, x), w) = Bind(s, w) \o w[x]
  <1> DEFINE m == [i \in DOMAIN s |-> w[s[i]]]
             m2 == [i \in DOMAIN Append(s, x) |-> w[Append(s, x)[i]]]
  <1>1. m \in Seq(Seq(B)) /\ Len(m) = Len(s) /\ \A i \in 1 .. Len(s) : m[i] = w[s[i]]
    <2>1. DOMAIN s = 1 .. Len(s) /\ Len(s) \in Nat
      OBVIOUS
    <2>2. m \in [1 .. Len(s) -> Seq(B)]
      BY <2>1
    <2>3. QED
      BY <2>1, <2>2, FunctionIsSeq
  <1>2. /\ DOMAIN Append(s, x) = 1 .. Len(s) + 1 /\ Len(s) \in Nat
        /\ \A i \in 1 .. Len(s) : Append(s, x)[i] = s[i]
        /\ Append(s, x)[Len(s) + 1] = x
    OBVIOUS
  <1>3. /\ m2 \in Seq(Seq(B)) /\ Len(m2) = Len(s) + 1
        /\ \A i \in 1 .. Len(s) : m2[i] = w[s[i]]
        /\ m2[Len(s) + 1] = w[x]
    <2>1. m2 \in [1 .. Len(s) + 1 -> Seq(B)]
      BY <1>2
    <2>2. QED
      BY <1>2, <2>1, FunctionIsSeq
  <1>4. Bind(s, w) = FlattenSeq(m) /\ Bind(Append(s, x), w) = FlattenSeq(m2)
    BY Zenon DEF Bind
  <1> HIDE DEF m, m2
  <1>5. m2 = Append(m, w[x]) /\ w[x] \in Seq(B)
    BY <1>1, <1>3
  <1>6. FlattenSeq(Append(m, w[x])) = FlattenSeq(m) \o w[x]
    BY <1>1, <1>5, FlattenAppend
  <1>7. QED
    BY <1>4, <1>5, <1>6, Zenon

\* One loop over two inputs.
LEMMA BindConcat ==
    ASSUME NEW A, NEW B, NEW w \in [A -> Seq(B)], NEW s \in Seq(A), NEW t \in Seq(A)
    PROVE  Bind(s \o t, w) = Bind(s, w) \o Bind(t, w)
  <1> DEFINE P == {u \in Seq(A) : Bind(s \o u, w) = Bind(s, w) \o Bind(u, w)}
  <1>1. <<>> \in P
    <2>1. s \o <<>> = s /\ Bind(s, w) \o <<>> = Bind(s, w) /\ <<>> \in Seq(A)
      BY BindType, ConcatLaws
    <2>2. QED
      BY <2>1, BindType, Zenon
  <1>2. ASSUME NEW u \in Seq(A), NEW x \in A, u \in P PROVE Append(u, x) \in P
    <2>1. s \o Append(u, x) = Append(s \o u, x) /\ Append(u, x) \in Seq(A) /\ s \o u \in Seq(A)
      BY ConcatAppend, ConcatLaws, SMTT(30)
    <2>2. Bind(Append(s \o u, x), w) = Bind(s \o u, w) \o w[x]
      BY <2>1, BindAppend
    <2>3. Bind(Append(u, x), w) = Bind(u, w) \o w[x]
      BY BindAppend
    <2>4. Bind(s \o u, w) = Bind(s, w) \o Bind(u, w)
      BY <1>2
    <2>5. Bind(s, w) \in Seq(B) /\ Bind(u, w) \in Seq(B)
      BY BindType
    <2>6. w[x] \in Seq(B)
      OBVIOUS
    <2>7. (Bind(s, w) \o Bind(u, w)) \o w[x] = Bind(s, w) \o (Bind(u, w) \o w[x])
      BY <2>5, <2>6, ConcatLaws, SMTT(30)
    <2>8. Bind(s \o Append(u, x), w) = Bind(s, w) \o Bind(Append(u, x), w)
      BY <2>1, <2>2, <2>3, <2>4, <2>7, Zenon
    <2>9. QED
      BY <2>1, <2>8
  <1> HIDE DEF P
  <1>3. t \in P
    BY <1>1, <1>2, SeqInduction
  <1>4. QED
    BY <1>3 DEF P

\* The same, under a name.
Distributes(s, t, w) == Bind(s \o t, w) = Bind(s, w) \o Bind(t, w)

\* A loop distributes over its input.
LEMMA BindDistributes ==
    ASSUME NEW A, NEW B, NEW w \in [A -> Seq(B)], NEW s \in Seq(A), NEW t \in Seq(A)
    PROVE  Distributes(s, t, w)
  <1>1. Bind(s \o t, w) = Bind(s, w) \o Bind(t, w)
    BY BindConcat
  <1>2. QED
    BY <1>1, Zenon DEF Distributes

\* v pushes for a member of A what w pushes for all that u pushes for it.
Composed(v, u, w, A) == \A x \in A : v[x] = Bind(u[x], w)
OneLoop(s, u, w, v) == Bind(Bind(s, u), w) = Bind(s, v)

\* A loop over what a loop pushed is one loop.
LEMMA BindBind ==
    ASSUME NEW A, NEW B, NEW C, NEW u \in [A -> Seq(B)], NEW w \in [B -> Seq(C)],
           NEW v \in [A -> Seq(C)], Composed(v, u, w, A), NEW s \in Seq(A)
    PROVE  OneLoop(s, u, w, v)
  <1> DEFINE P == {q \in Seq(A) : Bind(Bind(q, u), w) = Bind(q, v)}
  <1>1. <<>> \in P
    <2>1. Bind(<<>>, u) = <<>> /\ Bind(<<>>, w) = <<>> /\ Bind(<<>>, v) = <<>>
      <3>1. <<>> \in Seq(A) /\ <<>> \in Seq(B)
        OBVIOUS
      <3>2. QED
        BY <3>1, BindType
    <2>2. QED
      BY <2>1
  <1>2. ASSUME NEW q \in Seq(A), NEW x \in A, q \in P PROVE Append(q, x) \in P
    <2>1. Bind(Append(q, x), u) = Bind(q, u) \o u[x]
      BY BindAppend
    <2>2. Bind(Append(q, x), v) = Bind(q, v) \o v[x]
      BY BindAppend
    <2>3. Bind(q, u) \in Seq(B) /\ u[x] \in Seq(B)
      BY BindType
    <2>4. Bind(Bind(q, u) \o u[x], w) = Bind(Bind(q, u), w) \o Bind(u[x], w)
      <3>1. PICK f \in Seq(B) : f = Bind(q, u)
        BY <2>3, Zenon
      <3>2. PICK h \in Seq(B) : h = u[x]
        BY <2>3, Zenon
      <3>3. Bind(f \o h, w) = Bind(f, w) \o Bind(h, w)
        <4>1. Distributes(f, h, w)
          BY BindDistributes, Zenon
        <4>2. QED
          BY <4>1, Zenon DEF Distributes
      <3>4. QED
        BY <3>1, <3>2, <3>3, Zenon
    <2>5. Bind(Bind(q, u), w) = Bind(q, v)
      BY <1>2
    <2>6. Bind(Bind(Append(q, x), u), w) = Bind(Append(q, x), v)
      BY <2>1, <2>2, <2>4, <2>5, Zenon DEF Composed
    <2>7. Append(q, x) \in Seq(A)
      OBVIOUS
    <2>8. QED
      BY <2>6, <2>7
  <1> HIDE DEF P
  <1>3. s \in P
    BY <1>1, <1>2, SeqInduction
  <1>4. QED
    BY <1>3, Zenon DEF P, OneLoop

\* A loop over one member.
LEMMA BindOne ==
    ASSUME NEW A, NEW B, NEW w \in [A -> Seq(B)], NEW x \in A
    PROVE  Bind(<<x>>, w) = w[x]
  <1>1. Append(<<>>, x) = <<x>> /\ <<>> \in Seq(A) /\ w[x] \in Seq(B)
    OBVIOUS
  <1>2. Bind(Append(<<>>, x), w) = Bind(<<>>, w) \o w[x]
    BY <1>1, BindAppend
  <1>3. Bind(<<>>, w) = <<>>
    BY <1>1, BindType
  <1>4. <<>> \o w[x] = w[x]
    BY <1>1, ConcatLaws
  <1>5. QED
    BY <1>1, <1>2, <1>3, <1>4, Zenon

\* Loops over alike sequences that push alike sequences for related members.
LEMMA BindAlike ==
    ASSUME NEW A, NEW B, NEW R, NEW Q, NEW s \in Seq(A), NEW t \in Seq(A), Alike(s, t, R),
           NEW u \in [A -> Seq(B)], NEW v \in [A -> Seq(B)],
           \A x, y \in A : <<x, y>> \in R => Alike(u[x], v[y], Q)
    PROVE  Alike(Bind(s, u), Bind(t, v), Q)
  <1> DEFINE f == [i \in DOMAIN s |-> u[s[i]]]
             h == [i \in DOMAIN t |-> v[t[i]]]
  <1>1. /\ DOMAIN s = 1 .. Len(s) /\ DOMAIN t = 1 .. Len(t) /\ Len(s) \in Nat /\ Len(t) \in Nat
        /\ \A i \in 1 .. Len(s) : s[i] \in A
        /\ \A i \in 1 .. Len(t) : t[i] \in A
    OBVIOUS
  <1>2. Len(s) = Len(t) /\ \A i \in 1 .. Len(s) : <<s[i], t[i]>> \in R
    BY Zenon DEF Alike
  <1>3. f \in [1 .. Len(s) -> Seq(B)] /\ h \in [1 .. Len(t) -> Seq(B)]
    BY <1>1
  <1>4. f \in Seq(Seq(B)) /\ Len(f) = Len(s) /\ h \in Seq(Seq(B)) /\ Len(h) = Len(t)
    BY <1>1, <1>3, FunctionIsSeq
  <1>5. ASSUME NEW i \in 1 .. Len(f) PROVE Alike(f[i], h[i], Q)
    <2>1. f[i] = u[s[i]] /\ h[i] = v[t[i]] /\ s[i] \in A /\ t[i] \in A /\ <<s[i], t[i]>> \in R
      BY <1>1, <1>2, <1>4, Zenon
    <2>2. QED
      BY <2>1, Zenon
  <1>6. Bind(s, u) = FlattenSeq(f) /\ Bind(t, v) = FlattenSeq(h)
    BY Zenon DEF Bind
  <1> HIDE DEF f, h
  <1>7. Alike(FlattenSeq(f), FlattenSeq(h), Q)
    BY <1>2, <1>4, <1>5, AlikeFlatten
  <1>8. QED
    BY <1>6, <1>7, Zenon

\* The members of a sequence, and that none comes twice.
Members(s) == {s[i] : i \in 1 .. Len(s)}
NoDup(s) == \A i, j \in 1 .. Len(s) : s[i] = s[j] => i = j

\* The members of a concatenation.
LEMMA ConcatMembers ==
    ASSUME NEW T, NEW s \in Seq(T), NEW t \in Seq(T)
    PROVE  /\ Members(s \o t) = Members(s) \cup Members(t)
           /\ NoDup(s) /\ NoDup(t) /\ Members(s) \cap Members(t) = {} => NoDup(s \o t)
  <1>1. PICK h : /\ h = s \o t /\ Len(h) = Len(s) + Len(t)
                 /\ \A k \in 1 .. Len(s) : h[k] = s[k]
                 /\ \A k \in Len(s) + 1 .. Len(s) + Len(t) : h[k] = t[k - Len(s)]
    <2>1. /\ Len(s \o t) = Len(s) + Len(t) /\ \A k \in 1 .. Len(s) : (s \o t)[k] = s[k]
          /\ \A k \in Len(s) + 1 .. Len(s) + Len(t) : (s \o t)[k] = t[k - Len(s)]
      BY ConcatenateIndex, Zenon
    <2>2. QED
      BY <2>1, Zenon
  <1>2. Len(s) \in Nat /\ Len(t) \in Nat
    OBVIOUS
  <1>3. ASSUME NEW i \in 1 .. Len(h)
        PROVE  \/ i \in 1 .. Len(s) /\ h[i] = s[i]
               \/ i \in Len(s) + 1 .. Len(h) /\ i - Len(s) \in 1 .. Len(t) /\ h[i] = t[i - Len(s)]
    <2>1. i \in 1 .. Len(s) \/ (i \in Len(s) + 1 .. Len(s) + Len(t) /\ i - Len(s) \in 1 .. Len(t))
      BY <1>1, <1>2
    <2>2. QED
      BY <1>1, <2>1, Zenon
  <1>4. ASSUME NEW i \in 1 .. Len(s) PROVE i \in 1 .. Len(h) /\ h[i] = s[i]
    <2>1. i \in 1 .. Len(h)
      BY <1>1, <1>2
    <2>2. QED
      BY <1>1, <2>1, Zenon
  <1>5. ASSUME NEW i \in 1 .. Len(t)
        PROVE  i + Len(s) \in 1 .. Len(h) /\ h[i + Len(s)] = t[i]
    <2>1. /\ i + Len(s) \in 1 .. Len(h) /\ (i + Len(s)) - Len(s) = i
          /\ i + Len(s) \in Len(s) + 1 .. Len(s) + Len(t)
      BY <1>1, <1>2
    <2>2. QED
      BY <1>1, <2>1, Zenon
  <1>6. Members(h) = Members(s) \cup Members(t)
    <2>1. ASSUME NEW x \in Members(h) PROVE x \in Members(s) \/ x \in Members(t)
      <3>1. PICK i \in 1 .. Len(h) : x = h[i]
        BY DEF Members
      <3>2. QED
        BY <1>3, <3>1, Zenon DEF Members
    <2>2. ASSUME NEW x \in Members(s) PROVE x \in Members(h)
      BY <1>4, Zenon DEF Members
    <2>3. ASSUME NEW x \in Members(t) PROVE x \in Members(h)
      BY <1>5, Zenon DEF Members
    <2>4. QED
      BY <2>1, <2>2, <2>3
  <1>7. ASSUME NoDup(s), NoDup(t), Members(s) \cap Members(t) = {} PROVE NoDup(h)
    <2> SUFFICES ASSUME NEW i \in 1 .. Len(h), NEW j \in 1 .. Len(h), h[i] = h[j] PROVE i = j
      BY DEF NoDup
    <2>1. CASE i \in 1 .. Len(s) /\ h[i] = s[i] /\ j \in 1 .. Len(s) /\ h[j] = s[j]
      BY <1>7, <2>1, Zenon DEF NoDup
    <2>2. CASE /\ i - Len(s) \in 1 .. Len(t) /\ h[i] = t[i - Len(s)]
               /\ j - Len(s) \in 1 .. Len(t) /\ h[j] = t[j - Len(s)]
      <3>1. i - Len(s) = j - Len(s)
        BY <1>7, <2>2, Zenon DEF NoDup
      <3>2. QED
        BY <1>2, <3>1
    <2>3. ASSUME NEW k \in 1 .. Len(s), NEW l \in 1 .. Len(t), s[k] = t[l] PROVE FALSE
      <3>1. s[k] \in Members(s) /\ s[k] \in Members(t)
        BY <2>3, Zenon DEF Members
      <3>2. QED
        BY <1>7, <3>1
    <2>4. QED
      BY <1>3, <2>1, <2>2, <2>3, Zenon
  <1>8. QED
    BY <1>1, <1>6, <1>7, Zenon

\* One member more.
LEMMA AppendMembers ==
    ASSUME NEW T, NEW s \in Seq(T), NEW x \in T
    PROVE  /\ Members(Append(s, x)) = Members(s) \cup {x}
           /\ NoDup(Append(s, x)) => NoDup(s) /\ x \notin Members(s)
  <1>1. PICK h : /\ h = Append(s, x) /\ Len(h) = Len(s) + 1 /\ h[Len(s) + 1] = x
                 /\ \A k \in 1 .. Len(s) : h[k] = s[k]
    <2>1. /\ Len(Append(s, x)) = Len(s) + 1 /\ Append(s, x)[Len(s) + 1] = x
          /\ \A k \in 1 .. Len(s) : Append(s, x)[k] = s[k]
      OBVIOUS
    <2>2. QED
      BY <2>1, Zenon
  <1>2. /\ Len(s) \in Nat /\ Len(s) + 1 \in 1 .. Len(h)
        /\ \A k \in 1 .. Len(s) : k \in 1 .. Len(h) /\ k /= Len(s) + 1
        /\ \A k \in 1 .. Len(h) : k \in 1 .. Len(s) \/ k = Len(s) + 1
    <2>1. Len(s) \in Nat
      OBVIOUS
    <2>2. QED
      BY <1>1, <2>1
  <1>3. Members(h) = Members(s) \cup {x}
    <2>1. ASSUME NEW y \in Members(h) PROVE y \in Members(s) \/ y = x
      BY <1>1, <1>2, Zenon DEF Members
    <2>2. ASSUME NEW y \in Members(s) PROVE y \in Members(h)
      BY <1>1, <1>2, Zenon DEF Members
    <2>3. x \in Members(h)
      BY <1>1, <1>2, Zenon DEF Members
    <2>4. QED
      BY <2>1, <2>2, <2>3
  <1>4. ASSUME NoDup(h) PROVE NoDup(s) /\ x \notin Members(s)
    <2>1. NoDup(s)
      <3> SUFFICES ASSUME NEW i \in 1 .. Len(s), NEW j \in 1 .. Len(s), s[i] = s[j] PROVE i = j
        BY Zenon DEF NoDup
      <3>1. h[i] = h[j] /\ i \in 1 .. Len(h) /\ j \in 1 .. Len(h)
        BY <1>1, <1>2, Zenon
      <3>2. QED
        BY <1>4, <3>1, Zenon DEF NoDup
    <2>2. ASSUME NEW k \in 1 .. Len(s), x = s[k] PROVE FALSE
      <3>1. h[k] = h[Len(s) + 1] /\ k \in 1 .. Len(h) /\ k /= Len(s) + 1
        BY <1>1, <1>2, <2>2, Zenon
      <3>2. QED
        BY <1>2, <1>4, <3>1, Zenon DEF NoDup
    <2>3. QED
      BY <2>1, <2>2, Zenon DEF Members
  <1>5. QED
    BY <1>1, <1>3, <1>4, Zenon

\* What a loop pushes.
LEMMA BindMembers ==
    ASSUME NEW A, NEW B, NEW w \in [A -> Seq(B)], NEW s \in Seq(A)
    PROVE  \A y : y \in Members(Bind(s, w)) <=> \E c \in Members(s) : y \in Members(w[c])
  <1> DEFINE Pushes(q) == \A y : y \in Members(Bind(q, w)) <=> \E c \in Members(q) : y \in Members(w[c])
             P == {q \in Seq(A) : Pushes(q)}
  <1>1. <<>> \in P
    <2>1. Bind(<<>>, w) = <<>>
      BY BindType
    <2>2. Members(<<>>) = {} /\ <<>> \in Seq(A)
      BY DEF Members
    <2>3. Pushes(<<>>)
      BY <2>1, <2>2, Zenon
    <2>4. QED
      BY <2>2, <2>3, Zenon
  <1>2. ASSUME NEW q \in Seq(A), NEW x \in A, q \in P PROVE Append(q, x) \in P
    <2>1. Bind(Append(q, x), w) = Bind(q, w) \o w[x]
      BY BindAppend, Zenon
    <2>2. Bind(q, w) \in Seq(B)
      BY BindType, Zenon
    <2>3. w[x] \in Seq(B) /\ Append(q, x) \in Seq(A)
      OBVIOUS
    <2>4. Members(Bind(q, w) \o w[x]) = Members(Bind(q, w)) \cup Members(w[x])
      BY <2>2, <2>3, ConcatMembers, ZenonT(40)
    <2>5. Members(Append(q, x)) = Members(q) \cup {x}
      BY AppendMembers
    <2>6. Pushes(q)
      BY <1>2, Zenon
    <2>7. Pushes(Append(q, x))
      BY <2>1, <2>4, <2>5, <2>6, Zenon
    <2>8. QED
      BY <2>3, <2>7, Zenon
  <1> HIDE DEF P
  <1>3. s \in P
    BY <1>1, <1>2, SeqInduction
  <1>4. QED
    BY <1>3, Zenon DEF P

\* w pushes nothing twice.
Apart(w, A) == /\ \A c \in A : NoDup(w[c])
               /\ \A c, d \in A : c /= d => Members(w[c]) \cap Members(w[d]) = {}

\* A loop that pushes different things for different members repeats nothing.
LEMMA BindNoDup ==
    ASSUME NEW A, NEW B, NEW w \in [A -> Seq(B)], NEW s \in Seq(A), NoDup(s), Apart(w, A)
    PROVE  NoDup(Bind(s, w))
  <1> DEFINE P == {q \in Seq(A) : NoDup(q) => NoDup(Bind(q, w))}
  <1>1. <<>> \in P
    <2>1. Bind(<<>>, w) = <<>> /\ <<>> \in Seq(A)
      <3>1. <<>> \in Seq(A)
        OBVIOUS
      <3>2. QED
        BY <3>1, BindType, Zenon
    <2>2. NoDup(<<>>)
      BY DEF NoDup
    <2>3. NoDup(Bind(<<>>, w))
      BY <2>1, <2>2, Zenon
    <2>4. QED
      BY <2>1, <2>3
  <1>2. ASSUME NEW q \in Seq(A), NEW x \in A, q \in P PROVE Append(q, x) \in P
    <2> SUFFICES ASSUME NoDup(Append(q, x)) PROVE NoDup(Bind(Append(q, x), w))
      OBVIOUS
    <2>1. Bind(Append(q, x), w) = Bind(q, w) \o w[x]
      BY BindAppend, Zenon
    <2>2. Bind(q, w) \in Seq(B) /\ w[x] \in Seq(B)
      BY BindType
    <2>3. NoDup(q) /\ x \notin Members(q)
      BY AppendMembers
    <2>4. \A y : y \in Members(Bind(q, w)) <=> \E c \in Members(q) : y \in Members(w[c])
      BY BindMembers, Zenon
    <2>5. ASSUME NEW c \in Members(q) PROVE Members(w[c]) \cap Members(w[x]) = {}
      <3>1. c \in A /\ c /= x
        BY <2>3 DEF Members
      <3>2. QED
        BY <3>1, Zenon DEF Apart
    <2>6. Members(Bind(q, w)) \cap Members(w[x]) = {}
      BY <2>4, <2>5, Zenon
    <2>7. NoDup(Bind(q, w)) /\ NoDup(w[x])
      BY <1>2, <2>3, Zenon DEF Apart
    <2>8. NoDup(Bind(q, w) \o w[x])
      BY <2>2, <2>6, <2>7, ConcatMembers
    <2>9. QED
      BY <2>1, <2>8, Zenon
  <1> HIDE DEF P
  <1>3. s \in P
    BY <1>1, <1>2, SeqInduction
  <1>4. QED
    BY <1>3 DEF P

-----------------------------------------------------------------------------
(* Sequences of records, whatever the records are. *)

\* Pushing a record leaves the earlier ones in their places.
LEMMA AppendFacts ==
    ASSUME NEW s, NEW e, IsSeq(s)
    PROVE  /\ IsSeq(Append(s, e))
           /\ Len(Append(s, e)) = Len(s) + 1
           /\ \A i \in 1 .. Len(s) : Append(s, e)[i] = s[i]
           /\ Append(s, e)[Len(s) + 1] = e
  <1> DEFINE T == {s[i] : i \in 1 .. Len(s)} \cup {e}
  <1>1. s \in Seq(T) /\ e \in T
    <2>1. s \in [1 .. Len(s) -> T] /\ Len(s) \in Nat
      BY DEF IsSeq
    <2>2. QED
      BY <2>1
  <1> HIDE DEF T
  <1>2. /\ Append(s, e) \in Seq(T)
        /\ Len(Append(s, e)) = Len(s) + 1
        /\ \A i \in 1 .. Len(s) : Append(s, e)[i] = s[i]
        /\ Append(s, e)[Len(s) + 1] = e
    BY <1>1
  <1>3. \A t \in Seq(T) : IsSeq(t)
    BY DEF IsSeq
  <1>4. QED
    BY <1>2, <1>3

\* An empty group is a sequence, and the only one without a record.
LEMMA EmptyIsSeq == IsSeq(<<>>) /\ Len(<<>>) = 0
  BY DEF IsSeq

\* A group with records has a first one.
LEMMA NotEmpty ==
    ASSUME NEW s, IsSeq(s), s /= <<>>
    PROVE  1 \in DOMAIN s
  <1>1. CASE Len(s) = 0
    <2>1. DOMAIN s = {}
      BY <1>1 DEF IsSeq
    <2>2. s = <<>>
      BY <1>1, <2>1 DEF IsSeq
    <2>3. QED
      BY <2>2
  <1>2. CASE Len(s) /= 0
    BY <1>2 DEF IsSeq
  <1>3. QED
    BY <1>1, <1>2

-----------------------------------------------------------------------------
(* The rules of the contract and the gate. *)

\* The grade reproducible needs consistent tuning, pinned threads and costs, and
\* only inconsistent tuning makes a run invalid.
LEMMA Grading ==
    ASSUME NEW consistent \in BOOLEAN, NEW extended, NEW costs
    PROVE  /\ compute_grade("captured", consistent, extended, TRUE, costs) = "reproducible" =>
                 consistent /\ extended /\ costs
           /\ consistent => compute_grade("captured", consistent, extended, TRUE, costs) /= "invalid"
  BY Zenon DEF compute_grade

\* What a passing A/B comparison needs.
LEMMA AbPass ==
    ASSUME NEW A, NEW B, NEW c, NEW s, ab(A, B, c, s) = "pass"
    PROVE  /\ Admitted(A, B, c)
           /\ \A m \in Comparable(A, B) \ c.ignore : ~Contaminated(A, m) /\ ~Contaminated(B, m)
  <1>1. Admitted(A, B, c) /\ "contaminated" \notin Statuses(A, B, c, s)
    BY Zenon DEF ab
  <1>2. ASSUME NEW m \in Comparable(A, B) \ c.ignore
        PROVE  ~Contaminated(A, m) /\ ~Contaminated(B, m)
    <2>1. Status(m, A, B, c, s) /= "contaminated"
      BY <1>1 DEF Statuses
    <2>2. m \notin c.ignore
      OBVIOUS
    <2>3. QED
      BY <2>1, <2>2, Zenon DEF Status
  <1>3. QED
    BY <1>1, <1>2

\* The gate's verdicts, and what a pass needs in the two modes that count runs;
\* run_cmd gives the third mode no runs to read.
LEMMA JudgePass ==
    ASSUME NEW mo \in GateModes, NEW A, NEW B, NEW c, NEW s
    PROVE  /\ judge(mo, A, B, c, s) \in Verdicts
           /\ judge(mo, A, B, c, s) = "pass" => A /= <<>> /\ B /= <<>>
           /\ judge(mo, A, B, c, s) = "pass" /\ mo /= "longitudinal_drift" =>
                 /\ ab(A, B, c, s) = "pass"
                 /\ mo = "subsystem_triad" => \A i \in DOMAIN B : B[i].over = {}
  <1>1. /\ ab(A, B, c, s) \in Verdicts
        /\ drift(A, B, c, s) \in Verdicts
    BY Zenon DEF ab, drift, Verdicts
  <1>2. /\ triad(A, B, c, s) \in Verdicts
        /\ triad(A, B, c, s) = "pass" =>
              ab(A, B, c, s) = "pass" /\ \A i \in DOMAIN B : B[i].over = {}
    BY <1>1, Zenon DEF triad, Verdicts
  <1>3. CASE mo = "ab_permutation"
    BY <1>1, <1>3, Zenon DEF judge, Verdicts
  <1>4. CASE mo = "longitudinal_drift"
    BY <1>1, <1>4, Zenon DEF judge, Verdicts
  <1>5. CASE mo = "subsystem_triad"
    BY <1>2, <1>5, Zenon DEF judge, Verdicts
  <1>6. QED
    BY <1>3, <1>4, <1>5, Zenon DEF GateModes

\* Of the gate's four verdicts only a pass exits with 0, and only an error with 1.
LEMMA ExitCodes ==
    ASSUME NEW v \in Verdicts
    PROVE  exit_code(v) = 0 => v = "pass"
  BY DEF exit_code, Verdicts

-----------------------------------------------------------------------------
(* The cells of a definition: one axis after the other, and the selection    *)
(* run_cmd makes of them.                                                    *)

\* The dimensions of the first k axes, the values of the matrix, the cells with
\* those dimensions.
Dims(def, k) == {def.parameterise[i].name : i \in 1 .. k}
Vals(def) == UNION {Members(def.parameterise[i].values) : i \in 1 .. Len(def.parameterise)}
Cells(def, k) == [Dims(def, k) -> Vals(def)]

\* E[i] are the cells after i axes.
Expands(E, def, k) ==
    /\ E[0] = <<[d \in {} |-> 0]>>
    /\ \A i \in 1 .. k : E[i] = extend(E[i - 1], def.parameterise[i])

\* One axis more.
LEMMA ExpandNext ==
    ASSUME NEW def, NEW n \in Nat, NEW F, Expands(F, def, n)
    PROVE  \E H : Expands(H, def, n + 1)
  <1>1. PICK e : e = extend(F[n], def.parameterise[n + 1])
    BY Zenon
  <1> DEFINE H == [i \in 0 .. n + 1 |-> IF i = n + 1 THEN e ELSE F[i]]
  <1>2. H[n + 1] = e
    OBVIOUS
  <1>3. \A i \in 0 .. n : H[i] = F[i]
    OBVIOUS
  <1> HIDE DEF H
  <1>4. H[0] = <<[d \in {} |-> 0]>>
    <2>1. 0 \in 0 .. n
      OBVIOUS
    <2>2. QED
      BY <1>3, <2>1, Zenon DEF Expands
  <1>5. ASSUME NEW i \in 1 .. n + 1 PROVE H[i] = extend(H[i - 1], def.parameterise[i])
    <2>1. CASE i = n + 1
      <3>1. i - 1 = n /\ n \in 0 .. n
        BY <2>1
      <3>2. QED
        BY <1>1, <1>2, <1>3, <2>1, <3>1, Zenon
    <2>2. CASE i /= n + 1
      <3>1. i \in 1 .. n /\ i \in 0 .. n /\ i - 1 \in 0 .. n
        BY <2>2
      <3>2. QED
        BY <1>3, <3>1, Zenon DEF Expands
    <2>3. QED
      BY <2>1, <2>2
  <1>6. Expands(H, def, n + 1)
    BY <1>4, <1>5, Zenon DEF Expands
  <1>7. QED
    BY <1>6

\* expand_cells goes through all axes.
LEMMA Expansion ==
    ASSUME NEW def, Len(def.parameterise) \in Nat
    PROVE  \E E : /\ Expands(E, def, Len(def.parameterise))
                  /\ expand_cells(def) = E[Len(def.parameterise)]
  <1> DEFINE n == Len(def.parameterise)
             S == {k \in Nat : \E F : Expands(F, def, k)}
             first == <<[d \in {} |-> 0]>>
             Eqn(f) == f = [k \in 0 .. n |-> IF k = 0 THEN first
                                             ELSE extend(f[k - 1], def.parameterise[k])]
             E == CHOOSE f : Eqn(f)
  <1>1. expand_cells(def) = E[n]
    BY Zenon DEF expand_cells
  <1>2. \E F : Expands(F, def, n)
    <2>1. 0 \in S
      <3> DEFINE F == [i \in 0 .. 0 |-> first]
      <3>1. F[0] = first /\ \A i \in 1 .. 0 : FALSE
        OBVIOUS
      <3> HIDE DEF F
      <3>2. Expands(F, def, 0)
        BY <3>1, Zenon DEF Expands
      <3>3. QED
        BY <3>2
    <2>2. ASSUME NEW k \in Nat, k \in S PROVE k + 1 \in S
      BY <2>2, ExpandNext
    <2> HIDE DEF S
    <2>3. n \in S
      BY <2>1, <2>2, SetInduction
    <2>4. QED
      BY <2>3 DEF S
  <1>3. PICK F : Expands(F, def, n)
    BY <1>2
  <1> DEFINE f == [k \in 0 .. n |-> F[k]]
  <1>4. ASSUME NEW k \in 0 .. n
        PROVE  f[k] = IF k = 0 THEN first ELSE extend(f[k - 1], def.parameterise[k])
    <2>1. k = 0 \/ (k /= 0 /\ k \in 1 .. n /\ k - 1 \in 0 .. n)
      OBVIOUS
    <2>2. QED
      BY <1>3, <2>1, Zenon DEF Expands
  <1>5. Eqn(f)
    BY <1>4, Zenon
  <1> HIDE DEF f
  <1>6. Eqn(E)
    BY <1>5, Zenon
  <1> HIDE DEF E
  <1>7. \A k \in 0 .. n : E[k] = IF k = 0 THEN first ELSE extend(E[k - 1], def.parameterise[k])
    BY <1>6, Zenon
  <1>8. 0 \in 0 .. n /\ \A i \in 1 .. n : i /= 0 /\ i \in 0 .. n
    OBVIOUS
  <1>9. Expands(E, def, n)
    BY <1>7, <1>8, Zenon DEF Expands
  <1>10. QED
    BY <1>1, <1>9, Zenon

\* The row of a cell: the cells of one more axis that agree with it.
Row(def, k) ==
    [c \in Cells(def, k - 1) |->
        [j \in DOMAIN def.parameterise[k].values |->
            with_value(c, def.parameterise[k], def.parameterise[k].values[j])]]

\* The k-th axis is new.
LEMMA NextAxis ==
    ASSUME NEW def, IsDef(def), NEW k \in 1 .. Len(def.parameterise)
    PROVE  /\ Dims(def, k) = Dims(def, k - 1) \cup {def.parameterise[k].name}
           /\ def.parameterise[k].name \notin Dims(def, k - 1)
           /\ IsSeq(def.parameterise[k].values)
           /\ Members(def.parameterise[k].values) \subseteq Vals(def)
  <1>1. /\ Len(def.parameterise) \in Nat /\ DOMAIN def.parameterise = 1 .. Len(def.parameterise)
    BY DEF IsDef, IsSeq
  <1>2. Dims(def, k) = Dims(def, k - 1) \cup {def.parameterise[k].name}
    <2>1. 1 .. k = (1 .. k - 1) \cup {k}
      BY <1>1
    <2>2. QED
      BY <2>1 DEF Dims
  <1>3. def.parameterise[k].name \notin Dims(def, k - 1)
    <2> SUFFICES ASSUME NEW i \in 1 .. k - 1, def.parameterise[k].name = def.parameterise[i].name
                 PROVE  FALSE
      BY DEF Dims
    <2>1. i \in DOMAIN def.parameterise /\ k \in DOMAIN def.parameterise /\ i /= k
      BY <1>1
    <2>2. QED
      BY <2>1, Zenon DEF IsDef
  <1>4. IsSeq(def.parameterise[k].values)
    BY <1>1, Zenon DEF IsDef
  <1>5. Members(def.parameterise[k].values) \subseteq Vals(def)
    BY DEF Vals
  <1>6. QED
    BY <1>2, <1>3, <1>4, <1>5, Zenon

\* e is c with the value v of the k-th axis.
NextCell(def, k, c, v, e) ==
    /\ e \in Cells(def, k)
    /\ e[def.parameterise[k].name] = v
    /\ \A d \in Dims(def, k - 1) : e[d] = c[d]

\* A cell with a value of the next axis.
LEMMA WithValue ==
    ASSUME NEW def, IsDef(def), NEW k \in 1 .. Len(def.parameterise),
           NEW c \in Cells(def, k - 1), NEW v \in Vals(def), NEW e,
           e = with_value(c, def.parameterise[k], v)
    PROVE  NextCell(def, k, c, v, e)
  <1> DEFINE x == def.parameterise[k].name
  <1>1. /\ DOMAIN c = Dims(def, k - 1) /\ \A d \in Dims(def, k - 1) : c[d] \in Vals(def)
    BY DEF Cells
  <1>2. Dims(def, k) = Dims(def, k - 1) \cup {x} /\ x \notin Dims(def, k - 1)
    BY NextAxis, Zenon
  <1> HIDE DEF x
  <1>3. e = [d \in Dims(def, k - 1) \cup {x} |-> IF d = x THEN v ELSE c[d]]
    BY <1>1, Zenon DEF with_value, x
  <1>4. e \in [Dims(def, k - 1) \cup {x} -> Vals(def)]
    BY <1>1, <1>3
  <1>5. e[x] = v /\ \A d \in Dims(def, k - 1) : e[d] = c[d]
    BY <1>2, <1>3
  <1>6. QED
    BY <1>2, <1>4, <1>5, Zenon DEF NextCell, Cells, x

\* What a row is made of.
LEMMA RowType ==
    ASSUME NEW def, IsDef(def), NEW k \in 1 .. Len(def.parameterise)
    PROVE  /\ Row(def, k) \in [Cells(def, k - 1) -> Seq(Cells(def, k))]
           /\ \A c \in Cells(def, k - 1) :
                 /\ Len(Row(def, k)[c]) = Len(def.parameterise[k].values)
                 /\ \A j \in 1 .. Len(def.parameterise[k].values) :
                       /\ def.parameterise[k].values[j] \in Vals(def)
                       /\ Row(def, k)[c][j]
                            = with_value(c, def.parameterise[k], def.parameterise[k].values[j])
  <1> DEFINE vs == def.parameterise[k].values
             row(c) == [j \in DOMAIN vs |-> with_value(c, def.parameterise[k], vs[j])]
  <1>1. Len(vs) \in Nat /\ DOMAIN vs = 1 .. Len(vs) /\ \A j \in 1 .. Len(vs) : vs[j] \in Vals(def)
    <2>1. IsSeq(vs) /\ Members(vs) \subseteq Vals(def)
      BY NextAxis, Zenon
    <2>2. Len(vs) \in Nat /\ DOMAIN vs = 1 .. Len(vs)
      BY <2>1 DEF IsSeq
    <2>3. QED
      BY <2>1, <2>2 DEF Members
  <1>2. ASSUME NEW c \in Cells(def, k - 1)
        PROVE  /\ row(c) \in Seq(Cells(def, k)) /\ Len(row(c)) = Len(vs)
               /\ \A j \in 1 .. Len(vs) : row(c)[j] = with_value(c, def.parameterise[k], vs[j])
    <2>1. \A j \in 1 .. Len(vs) : with_value(c, def.parameterise[k], vs[j]) \in Cells(def, k)
      <3> SUFFICES ASSUME NEW j \in 1 .. Len(vs)
                   PROVE  with_value(c, def.parameterise[k], vs[j]) \in Cells(def, k)
        OBVIOUS
      <3>1. PICK v \in Vals(def) : v = vs[j]
        BY <1>1, Zenon
      <3>2. PICK e : e = with_value(c, def.parameterise[k], v)
        BY Zenon
      <3>3. NextCell(def, k, c, v, e)
        BY <3>2, WithValue, Zenon
      <3>4. QED
        BY <3>1, <3>2, <3>3, Zenon DEF NextCell
    <2>2. row(c) \in [1 .. Len(vs) -> Cells(def, k)]
      BY <1>1, <2>1
    <2>3. row(c) \in Seq(Cells(def, k)) /\ Len(row(c)) = Len(vs)
      BY <1>1, <2>2, FunctionIsSeq
    <2>4. QED
      BY <1>1, <2>3, Zenon
  <1>3. Row(def, k) = [c \in Cells(def, k - 1) |-> row(c)]
    BY Zenon DEF Row
  <1>4. \A c \in Cells(def, k - 1) : Row(def, k)[c] = row(c)
    BY <1>3, Zenon
  <1> HIDE DEF row
  <1>5. Row(def, k) \in [Cells(def, k - 1) -> Seq(Cells(def, k))]
    BY <1>2, <1>3
  <1>6. ASSUME NEW c \in Cells(def, k - 1)
        PROVE  /\ Len(Row(def, k)[c]) = Len(vs)
               /\ \A j \in 1 .. Len(vs) :
                     /\ vs[j] \in Vals(def)
                     /\ Row(def, k)[c][j] = with_value(c, def.parameterise[k], vs[j])
    <2>1. /\ Row(def, k)[c] = row(c) /\ Len(row(c)) = Len(vs)
          /\ \A j \in 1 .. Len(vs) : row(c)[j] = with_value(c, def.parameterise[k], vs[j])
      BY <1>2, <1>4, Zenon
    <2>2. QED
      BY <1>1, <2>1, Zenon
  <1>7. QED
    BY <1>5, <1>6, Zenon

\* The cells after k axes: the rows of those after k - 1.
LEMMA ExpandCells ==
    ASSUME NEW def, IsDef(def), NEW E, Expands(E, def, Len(def.parameterise)),
           NEW k \in Nat, k <= Len(def.parameterise)
    PROVE  /\ E[k] \in Seq(Cells(def, k))
           /\ k /= 0 => E[k] = Bind(E[k - 1], Row(def, k))
  <1> DEFINE n == Len(def.parameterise)
             S == {i \in Nat : i <= n => E[i] \in Seq(Cells(def, i))}
  <1>1. n \in Nat
    BY DEF IsDef, IsSeq
  <1>2. 0 \in S
    <2>1. Dims(def, 0) = {}
      BY DEF Dims
    <2>2. [d \in {} |-> 0] \in Cells(def, 0)
      BY <2>1 DEF Cells
    <2>3. <<[d \in {} |-> 0]>> \in Seq(Cells(def, 0))
      BY <2>2
    <2>4. QED
      BY <2>3, Zenon DEF Expands
  <1>3. ASSUME NEW i \in 1 .. n, E[i - 1] \in Seq(Cells(def, i - 1))
        PROVE  E[i] = Bind(E[i - 1], Row(def, i)) /\ E[i] \in Seq(Cells(def, i))
    <2>1. E[i] = extend(E[i - 1], def.parameterise[i])
      BY Zenon DEF Expands
    <2>2. PICK cells \in Seq(Cells(def, i - 1)) : cells = E[i - 1]
      BY <1>3, Zenon
    <2>3. \A j \in DOMAIN cells : cells[j] \in Cells(def, i - 1)
      OBVIOUS
    <2>4. [j \in DOMAIN cells |-> Row(def, i)[cells[j]]]
            = [j \in DOMAIN cells |->
                 [l \in DOMAIN def.parameterise[i].values |->
                    with_value(cells[j], def.parameterise[i], def.parameterise[i].values[l])]]
      BY <2>3, Zenon DEF Row
    <2>5. E[i] = Bind(cells, Row(def, i))
      BY <2>1, <2>2, <2>4, Zenon DEF extend, Bind
    <2>6. Row(def, i) \in [Cells(def, i - 1) -> Seq(Cells(def, i))]
      BY RowType, Zenon
    <2>7. Bind(cells, Row(def, i)) \in Seq(Cells(def, i))
      BY <2>6, BindType
    <2>8. QED
      BY <2>2, <2>5, <2>7, Zenon
  <1>4. ASSUME NEW i \in Nat, i \in S PROVE i + 1 \in S
    <2> SUFFICES ASSUME i + 1 <= n PROVE E[i + 1] \in Seq(Cells(def, i + 1))
      OBVIOUS
    <2>1. i + 1 \in 1 .. n /\ (i + 1) - 1 = i /\ i <= n
      BY <1>1
    <2>2. E[i] \in Seq(Cells(def, i))
      BY <1>4, <2>1
    <2>3. QED
      BY <1>3, <2>1, <2>2, Zenon
  <1> HIDE DEF S
  <1>5. \A i \in Nat : i \in S
    BY <1>2, <1>4, SetInduction
  <1>6. E[k] \in Seq(Cells(def, k))
    BY <1>5, Zenon DEF S
  <1>7. ASSUME k /= 0 PROVE E[k] = Bind(E[k - 1], Row(def, k))
    <2>1. k \in 1 .. n /\ k - 1 \in Nat /\ k - 1 <= n
      BY <1>1, <1>7
    <2>2. E[k - 1] \in Seq(Cells(def, k - 1))
      BY <1>5, <2>1, Zenon DEF S
    <2>3. QED
      BY <1>3, <2>1, <2>2, Zenon
  <1>8. QED
    BY <1>6, <1>7, Zenon

\* A dimension names one axis.
LEMMA AxisOf ==
    ASSUME NEW def, IsDef(def), NEW k \in 1 .. Len(def.parameterise)
    PROVE  Axis(def, def.parameterise[k].name) = {def.parameterise[k]}
  <1>1. DOMAIN def.parameterise = 1 .. Len(def.parameterise)
    BY DEF IsDef, IsSeq
  <1>2. {j \in DOMAIN def.parameterise : def.parameterise[j].name = def.parameterise[k].name} = {k}
    BY <1>1, Zenon DEF IsDef
  <1>3. QED
    BY <1>2, Zenon DEF Axis

\* c has group g's value in the compared dimension, as far as it has that dimension.
Own(def, g, c) ==
    \A dim \in def.compare : \A axis \in Axis(def, dim) :
        dim \in DOMAIN c => c[dim] = CompareValue(axis, g)

\* The selection of run_cmd, after k axes and within a row.
Keep(def, g, k) == [c \in Cells(def, k) |-> IF Own(def, g, c) THEN <<c>> ELSE <<>>]
OwnRow(def, g, k) == [c \in Cells(def, k - 1) |-> Bind(Row(def, k)[c], Keep(def, g, k))]

\* Both push sequences of cells.
LEMMA KeepType ==
    ASSUME NEW def, NEW g, NEW k
    PROVE  /\ Keep(def, g, k) \in [Cells(def, k) -> Seq(Cells(def, k))]
           /\ \A c \in Cells(def, k) :
                 /\ Own(def, g, c) => Keep(def, g, k)[c] = <<c>>
                 /\ ~Own(def, g, c) => Keep(def, g, k)[c] = <<>>
  <1>1. ASSUME NEW c \in Cells(def, k)
        PROVE  (IF Own(def, g, c) THEN <<c>> ELSE <<>>) \in Seq(Cells(def, k))
    OBVIOUS
  <1>2. Keep(def, g, k) \in [Cells(def, k) -> Seq(Cells(def, k))]
    BY <1>1, Zenon DEF Keep
  <1>3. QED
    BY <1>2, Zenon DEF Keep

\* What one axis adds to a cell of the group is a sequence of longer cells.
LEMMA OwnRowType ==
    ASSUME NEW def, IsDef(def), NEW g, NEW k \in 1 .. Len(def.parameterise)
    PROVE  /\ OwnRow(def, g, k) \in [Cells(def, k - 1) -> Seq(Cells(def, k))]
           /\ \A c \in Cells(def, k - 1) : OwnRow(def, g, k)[c] = Bind(Row(def, k)[c], Keep(def, g, k))
  <1>1. /\ Row(def, k) \in [Cells(def, k - 1) -> Seq(Cells(def, k))]
        /\ Keep(def, g, k) \in [Cells(def, k) -> Seq(Cells(def, k))]
    BY RowType, KeepType, Zenon
  <1>2. ASSUME NEW c \in Cells(def, k - 1)
        PROVE  Bind(Row(def, k)[c], Keep(def, g, k)) \in Seq(Cells(def, k))
    <2>1. PICK r \in Seq(Cells(def, k)) : r = Row(def, k)[c]
      BY <1>1
    <2>2. Bind(r, Keep(def, g, k)) \in Seq(Cells(def, k))
      BY <1>1, BindType, Zenon
    <2>3. QED
      BY <2>1, <2>2, Zenon
  <1>3. OwnRow(def, g, k) \in [Cells(def, k - 1) -> Seq(Cells(def, k))]
    BY <1>2, Zenon DEF OwnRow
  <1>4. QED
    BY <1>3, Zenon DEF OwnRow

\* A cell with a value of the next axis is a group's own when the cell is and, if
\* that axis is compared, the value is.
LEMMA OwnNext ==
    ASSUME NEW def, IsDef(def), NEW g, NEW k \in 1 .. Len(def.parameterise),
           NEW c \in Cells(def, k - 1), NEW v \in Vals(def), NEW e,
           e = with_value(c, def.parameterise[k], v)
    PROVE  Own(def, g, e) <=>
              /\ Own(def, g, c)
              /\ def.parameterise[k].name \in def.compare => v = CompareValue(def.parameterise[k], g)
  <1> DEFINE x == def.parameterise[k].name
  <1>1. e \in Cells(def, k) /\ e[x] = v /\ \A d \in Dims(def, k - 1) : e[d] = c[d]
    <2>1. NextCell(def, k, c, v, e)
      BY WithValue, Zenon
    <2>2. QED
      BY <2>1, Zenon DEF NextCell
  <1>2. Dims(def, k) = Dims(def, k - 1) \cup {x} /\ x \notin Dims(def, k - 1)
    BY NextAxis, Zenon
  <1>3. DOMAIN c = Dims(def, k - 1) /\ DOMAIN e = Dims(def, k)
    BY <1>1 DEF Cells
  <1>4. Axis(def, x) = {def.parameterise[k]}
    BY AxisOf, Zenon
  <1> HIDE DEF x
  <1>5. ASSUME Own(def, g, e)
        PROVE  Own(def, g, c) /\ (x \in def.compare => v = CompareValue(def.parameterise[k], g))
    <2>1. Own(def, g, c)
      <3> SUFFICES ASSUME NEW dim \in def.compare, NEW axis \in Axis(def, dim), dim \in DOMAIN c
                   PROVE  c[dim] = CompareValue(axis, g)
        BY Zenon DEF Own
      <3>1. dim \in DOMAIN e /\ e[dim] = c[dim]
        BY <1>1, <1>2, <1>3
      <3>2. QED
        BY <1>5, <3>1, Zenon DEF Own
    <2>2. ASSUME x \in def.compare PROVE v = CompareValue(def.parameterise[k], g)
      <3>1. def.parameterise[k] \in Axis(def, x) /\ x \in DOMAIN e
        BY <1>2, <1>3, <1>4
      <3>2. QED
        BY <1>1, <1>5, <2>2, <3>1, Zenon DEF Own
    <2>3. QED
      BY <2>1, <2>2
  <1>6. ASSUME Own(def, g, c), x \in def.compare => v = CompareValue(def.parameterise[k], g)
        PROVE  Own(def, g, e)
    <2> SUFFICES ASSUME NEW dim \in def.compare, NEW axis \in Axis(def, dim), dim \in DOMAIN e
                 PROVE  e[dim] = CompareValue(axis, g)
      BY Zenon DEF Own
    <2>1. CASE dim = x
      <3>1. axis = def.parameterise[k]
        BY <1>4, <2>1
      <3>2. QED
        BY <1>1, <1>6, <2>1, <3>1, Zenon
    <2>2. CASE dim /= x
      <3>1. dim \in DOMAIN c /\ e[dim] = c[dim]
        BY <1>1, <1>2, <1>3, <2>2
      <3>2. QED
        BY <1>6, <3>1, Zenon DEF Own
    <2>3. QED
      BY <2>1, <2>2
  <1>7. QED
    BY <1>5, <1>6, Zenon DEF x

\* A row of a cell that is not the group's has nothing of the group's.
LEMMA OwnRowEmpty ==
    ASSUME NEW def, IsDef(def), NEW g, NEW k \in 1 .. Len(def.parameterise),
           NEW c \in Cells(def, k - 1), ~Own(def, g, c)
    PROVE  OwnRow(def, g, k)[c] = <<>>
  <1> DEFINE vs == def.parameterise[k].values
  <1>1. PICK r \in Seq(Cells(def, k)) :
            /\ r = Row(def, k)[c] /\ Len(r) = Len(vs)
            /\ \A j \in 1 .. Len(vs) : vs[j] \in Vals(def) /\ r[j] = with_value(c, def.parameterise[k], vs[j])
    <2>1. Row(def, k)[c] \in Seq(Cells(def, k))
      BY RowType
    <2>2. QED
      BY <2>1, RowType, Zenon
  <1>2. Keep(def, g, k) \in [Cells(def, k) -> Seq(Cells(def, k))]
    BY KeepType, Zenon
  <1>3. ASSUME NEW y \in Members(r) PROVE Members(Keep(def, g, k)[y]) = {}
    <2>1. PICK j \in 1 .. Len(vs) : y = r[j]
      BY <1>1, Zenon DEF Members
    <2>2. PICK v \in Vals(def) : v = vs[j]
      BY <1>1, Zenon
    <2>3. y = with_value(c, def.parameterise[k], v)
      BY <1>1, <2>1, <2>2, Zenon
    <2>4. ~Own(def, g, y)
      BY <2>3, OwnNext
    <2>5. y \in Cells(def, k)
      BY <2>3, WithValue, Zenon DEF NextCell
    <2>6. Keep(def, g, k)[y] = <<>>
      BY <2>4, <2>5, KeepType, Zenon
    <2>7. QED
      BY <2>6 DEF Members
  <1>4. PICK b \in Seq(Cells(def, k)) : b = Bind(r, Keep(def, g, k))
    BY <1>2, BindType, Zenon
  <1>5. Members(b) = {}
    <2>1. \A y : y \in Members(b) <=> \E z \in Members(r) : y \in Members(Keep(def, g, k)[z])
      BY <1>2, <1>4, BindMembers, Zenon
    <2>2. QED
      BY <1>3, <2>1, Zenon
  <1>6. b = <<>>
    <2>1. \A j \in 1 .. Len(b) : b[j] \in Members(b)
      BY DEF Members
    <2>2. Len(b) = 0
      <3>1. Len(b) \in Nat /\ (Len(b) /= 0 => 1 \in 1 .. Len(b))
        OBVIOUS
      <3>2. QED
        BY <1>5, <2>1, <3>1, Zenon
    <2>3. QED
      BY <2>2
  <1>7. QED
    BY <1>1, <1>4, <1>6, OwnRowType, Zenon

\* Selecting after one more axis is selecting before it and then within the rows.
LEMMA SelectStep ==
    ASSUME NEW def, IsDef(def), NEW g, NEW k \in 1 .. Len(def.parameterise),
           NEW s \in Seq(Cells(def, k - 1))
    PROVE  /\ Bind(Bind(s, Row(def, k)), Keep(def, g, k))
                = Bind(Bind(s, Keep(def, g, k - 1)), OwnRow(def, g, k))
           /\ Bind(s, Keep(def, g, k - 1)) \in Seq(Cells(def, k - 1))
  <1> DEFINE A == Cells(def, k - 1)
             B == Cells(def, k)
  <1>1. Row(def, k) \in [A -> Seq(B)] /\ Keep(def, g, k) \in [B -> Seq(B)]
    BY RowType, KeepType, Zenon
  <1>2. Keep(def, g, k - 1) \in [A -> Seq(A)]
    BY KeepType, Zenon
  <1>3. /\ OwnRow(def, g, k) \in [A -> Seq(B)]
        /\ \A c \in A : OwnRow(def, g, k)[c] = Bind(Row(def, k)[c], Keep(def, g, k))
    BY OwnRowType, Zenon
  <1>4. ASSUME NEW c \in A
        PROVE  OwnRow(def, g, k)[c] = Bind(Keep(def, g, k - 1)[c], OwnRow(def, g, k))
    <2>1. CASE Own(def, g, c)
      <3>1. Keep(def, g, k - 1)[c] = <<c>>
        BY <2>1, KeepType, Zenon
      <3>2. Bind(<<c>>, OwnRow(def, g, k)) = OwnRow(def, g, k)[c]
        BY <1>3, BindOne, Zenon
      <3>3. QED
        BY <3>1, <3>2, Zenon
    <2>2. CASE ~Own(def, g, c)
      <3>1. Keep(def, g, k - 1)[c] = <<>>
        BY <2>2, KeepType, Zenon
      <3>2. Bind(<<>>, OwnRow(def, g, k)) = <<>>
        BY <1>3, BindType, Zenon
      <3>3. QED
        BY <2>2, <3>1, <3>2, OwnRowEmpty, Zenon
    <2>3. QED
      BY <2>1, <2>2
  <1> HIDE DEF A, B
  <1>5. s \in Seq(A)
    BY DEF A
  <1>6. Bind(Bind(s, Row(def, k)), Keep(def, g, k)) = Bind(s, OwnRow(def, g, k))
    <2>1. Composed(OwnRow(def, g, k), Row(def, k), Keep(def, g, k), A)
      BY <1>3, Zenon DEF Composed
    <2>2. OneLoop(s, Row(def, k), Keep(def, g, k), OwnRow(def, g, k))
      BY <1>1, <1>3, <1>5, <2>1, BindBind, Zenon
    <2>3. QED
      BY <2>2, Zenon DEF OneLoop
  <1>7. Bind(Bind(s, Keep(def, g, k - 1)), OwnRow(def, g, k)) = Bind(s, OwnRow(def, g, k))
    <2>1. Composed(OwnRow(def, g, k), Keep(def, g, k - 1), OwnRow(def, g, k), A)
      BY <1>4, Zenon DEF Composed
    <2>2. OneLoop(s, Keep(def, g, k - 1), OwnRow(def, g, k), OwnRow(def, g, k))
      BY <1>2, <1>3, <1>5, <2>1, BindBind, Zenon
    <2>3. QED
      BY <2>2, Zenon DEF OneLoop
  <1>8. Bind(s, Keep(def, g, k - 1)) \in Seq(A)
    BY <1>2, <1>5, BindType
  <1>9. QED
    BY <1>6, <1>7, <1>8, Zenon DEF A

\* group_cells selects from all cells.
LEMMA GroupCells ==
    ASSUME NEW def, IsDef(def), NEW g
    PROVE  /\ expand_cells(def) \in Seq(Cells(def, Len(def.parameterise)))
           /\ group_cells(def, g) = Bind(expand_cells(def), Keep(def, g, Len(def.parameterise)))
           /\ group_cells(def, g) \in Seq(Cells(def, Len(def.parameterise)))
  <1> DEFINE n == Len(def.parameterise)
             selected(cell) == \A dim \in def.compare : \A axis \in Axis(def, dim) :
                                  cell[dim] = CompareValue(axis, g)
  <1>1. n \in Nat /\ DOMAIN def.parameterise = 1 .. n
    BY DEF IsDef, IsSeq
  <1>2. PICK cells \in Seq(Cells(def, n)) : cells = expand_cells(def)
    <2>1. PICK E : Expands(E, def, n) /\ expand_cells(def) = E[n]
      BY <1>1, Expansion
    <2>2. n <= n
      BY <1>1
    <2>3. E[n] \in Seq(Cells(def, n))
      BY <1>1, <2>1, <2>2, ExpandCells, Zenon
    <2>4. QED
      BY <2>1, <2>3, Zenon
  <1>3. ASSUME NEW c \in Cells(def, n) PROVE selected(c) <=> Own(def, g, c)
    <2>1. DOMAIN c = Dims(def, n)
      BY DEF Cells
    <2>2. ASSUME NEW dim, NEW axis \in Axis(def, dim) PROVE dim \in Dims(def, n)
      BY <1>1, Zenon DEF Axis, Dims
    <2>3. QED
      BY <2>1, <2>2, Zenon DEF Own
  <1>4. \A i \in DOMAIN cells : cells[i] \in Cells(def, n)
    OBVIOUS
  <1>5. ASSUME NEW i \in DOMAIN cells
        PROVE  Keep(def, g, n)[cells[i]] = IF selected(cells[i]) THEN <<cells[i]>> ELSE <<>>
    <2>1. PICK c \in Cells(def, n) : c = cells[i]
      BY <1>4, Zenon
    <2>2. Own(def, g, c) => Keep(def, g, n)[c] = <<c>>
      BY KeepType, Zenon
    <2>3. ~Own(def, g, c) => Keep(def, g, n)[c] = <<>>
      BY KeepType, Zenon
    <2>4. selected(c) <=> Own(def, g, c)
      BY <1>3, Zenon
    <2>5. Keep(def, g, n)[c] = IF selected(c) THEN <<c>> ELSE <<>>
      BY <2>2, <2>3, <2>4, Zenon
    <2>6. QED
      BY <2>1, <2>5, Zenon
  <1>6. group_cells(def, g)
          = FlattenSeq([i \in DOMAIN cells |-> IF selected(cells[i]) THEN <<cells[i]>> ELSE <<>>])
    BY <1>2, Zenon DEF group_cells
  <1> HIDE DEF selected
  <1>7. group_cells(def, g) = Bind(cells, Keep(def, g, n))
    BY <1>5, <1>6, Zenon DEF Bind
  <1>8. Keep(def, g, n) \in [Cells(def, n) -> Seq(Cells(def, n))]
    BY KeepType, Zenon
  <1>9. Bind(cells, Keep(def, g, n)) \in Seq(Cells(def, n))
    BY <1>8, BindType
  <1>10. QED
    BY <1>2, <1>7, <1>9, Zenon

-----------------------------------------------------------------------------
(* The two groups, cell by cell. *)

\* x and y agree but in the compared dimension, of which each has its own value.
Match(def, k, x, y) ==
    \A d \in Dims(def, k) :
        /\ d \notin def.compare => x[d] = y[d]
        /\ d \in def.compare => \A axis \in Axis(def, d) :
              x[d] = CompareValue(axis, "a") /\ y[d] = CompareValue(axis, "b")
Pairs(def, k) == {p \in Cells(def, k) \X Cells(def, k) : Match(def, k, p[1], p[2])}

\* Matching cells are each their own group's.
LEMMA PairsOwn ==
    ASSUME NEW def, NEW k, NEW x, NEW y
    PROVE  /\ <<x, y>> \in Pairs(def, k) <=>
                 x \in Cells(def, k) /\ y \in Cells(def, k) /\ Match(def, k, x, y)
           /\ <<x, y>> \in Pairs(def, k) => Own(def, "a", x) /\ Own(def, "b", y)
  <1>1. <<x, y>> \in Pairs(def, k) <=>
                 x \in Cells(def, k) /\ y \in Cells(def, k) /\ Match(def, k, x, y)
    <2>1. <<x, y>>[1] = x /\ <<x, y>>[2] = y
      OBVIOUS
    <2>2. <<x, y>> \in Cells(def, k) \X Cells(def, k) <=> x \in Cells(def, k) /\ y \in Cells(def, k)
      OBVIOUS
    <2>3. QED
      BY <2>1, <2>2, Zenon DEF Pairs
  <1>2. ASSUME <<x, y>> \in Pairs(def, k) PROVE Own(def, "a", x) /\ Own(def, "b", y)
    <2>1. DOMAIN x = Dims(def, k) /\ DOMAIN y = Dims(def, k) /\ Match(def, k, x, y)
      BY <1>1, <1>2 DEF Cells
    <2>2. QED
      BY <2>1, Zenon DEF Own, Match
  <1>3. QED
    BY <1>1, <1>2, Zenon

\* Matching cells with matching values of the next axis match.
LEMMA MatchNext ==
    ASSUME NEW def, IsDef(def), NEW k \in 1 .. Len(def.parameterise), NEW x, NEW y,
           Match(def, k - 1, x, y), NEW v, NEW u, NEW e, NEW f,
           NextCell(def, k, x, v, e), NextCell(def, k, y, u, f),
           def.parameterise[k].name \notin def.compare => v = u,
           def.parameterise[k].name \in def.compare =>
              v = CompareValue(def.parameterise[k], "a") /\ u = CompareValue(def.parameterise[k], "b")
    PROVE  <<e, f>> \in Pairs(def, k)
  <1> DEFINE m == def.parameterise[k].name
  <1>1. e \in Cells(def, k) /\ e[m] = v /\ \A d \in Dims(def, k - 1) : e[d] = x[d]
    BY Zenon DEF NextCell
  <1>2. f \in Cells(def, k) /\ f[m] = u /\ \A d \in Dims(def, k - 1) : f[d] = y[d]
    BY Zenon DEF NextCell
  <1>3. Dims(def, k) = Dims(def, k - 1) \cup {m}
    BY NextAxis, Zenon
  <1>4. \A axis \in Axis(def, m) : axis = def.parameterise[k]
    BY AxisOf
  <1>5. ASSUME NEW d \in Dims(def, k)
        PROVE  /\ d \notin def.compare => e[d] = f[d]
               /\ d \in def.compare => \A axis \in Axis(def, d) :
                     e[d] = CompareValue(axis, "a") /\ f[d] = CompareValue(axis, "b")
    <2>1. CASE d = m
      BY <1>1, <1>2, <1>4, <2>1, Zenon
    <2>2. CASE d /= m
      <3>1. d \in Dims(def, k - 1)
        BY <1>3, <2>2
      <3>2. e[d] = x[d] /\ f[d] = y[d]
        BY <1>1, <1>2, <3>1, Zenon
      <3>3. QED
        BY <3>1, <3>2, Zenon DEF Match
    <2>3. QED
      BY <2>1, <2>2
  <1>6. Match(def, k, e, f)
    BY <1>5, Zenon DEF Match
  <1>7. QED
    BY <1>1, <1>2, <1>6, PairsOwn, Zenon

\* A loop over two members.
LEMMA BindTwo ==
    ASSUME NEW A, NEW B, NEW w \in [A -> Seq(B)], NEW r \in Seq(A), Len(r) = 2
    PROVE  Bind(r, w) = w[r[1]] \o w[r[2]] /\ r[1] \in A /\ r[2] \in A
  <1>1. r[1] \in A /\ r[2] \in A
    <2>1. 1 \in 1 .. Len(r) /\ 2 \in 1 .. Len(r)
      OBVIOUS
    <2>2. QED
      BY <2>1, ElementOfSeq
  <1>2. <<r[1]>> \in Seq(A)
    BY <1>1
  <1>3. Append(<<r[1]>>, r[2]) = r
    <2>1. PICK p \in Seq(A) : p = <<r[1]>> /\ Len(p) = 1 /\ p[1] = r[1]
      BY <1>2
    <2>2. PICK q \in Seq(A) : q = Append(p, r[2]) /\ Len(q) = 2 /\ q[1] = r[1] /\ q[2] = r[2]
      <3>1. Append(p, r[2]) \in Seq(A)
        BY <1>1
      <3>2. /\ Len(Append(p, r[2])) = 2 /\ Append(p, r[2])[1] = r[1]
            /\ Append(p, r[2])[2] = r[2]
        BY <1>1, <2>1
      <3>3. QED
        BY <3>1, <3>2, Zenon
    <2>3. q = r
      <3>1. \A i \in 1 .. 2 : i = 1 \/ i = 2
        OBVIOUS
      <3>2. \A i \in 1 .. Len(q) : q[i] = r[i]
        BY <2>2, <3>1, Zenon
      <3>3. Len(q) = Len(r)
        BY <2>2, Zenon
      <3>4. QED
        BY <3>2, <3>3, SeqEqual
    <2>4. QED
      BY <2>1, <2>2, <2>3, Zenon
  <1>4. Bind(Append(<<r[1]>>, r[2]), w) = Bind(<<r[1]>>, w) \o w[r[2]]
    BY <1>1, <1>2, BindAppend
  <1>5. Bind(<<r[1]>>, w) = w[r[1]]
    BY <1>1, BindOne
  <1>6. QED
    BY <1>1, <1>3, <1>4, <1>5, Zenon

\* The selection of one cell.
LEMMA KeepOwn ==
    ASSUME NEW def, NEW g, NEW k, NEW c \in Cells(def, k), Own(def, g, c)
    PROVE  Keep(def, g, k)[c] = <<c>>
  BY KeepType, Zenon

\* A cell of the other group is left out.
LEMMA KeepOther ==
    ASSUME NEW def, NEW g, NEW k, NEW c \in Cells(def, k), ~Own(def, g, c)
    PROVE  Keep(def, g, k)[c] = <<>>
  BY KeepType, Zenon

\* The rows of matching cells, after selection.
LEMMA OwnRowsAlike ==
    ASSUME NEW def, IsDef(def), CompareOk(def), NEW k \in 1 .. Len(def.parameterise),
           NEW x, NEW y, <<x, y>> \in Pairs(def, k - 1)
    PROVE  Alike(OwnRow(def, "a", k)[x], OwnRow(def, "b", k)[y], Pairs(def, k))
  <1> DEFINE ax == def.parameterise[k]
             vs == def.parameterise[k].values
             C == Cells(def, k)
             ka == Keep(def, "a", k)
             kb == Keep(def, "b", k)
  <1>1. /\ x \in Cells(def, k - 1) /\ y \in Cells(def, k - 1) /\ Match(def, k - 1, x, y)
        /\ Own(def, "a", x) /\ Own(def, "b", y)
    BY PairsOwn, Zenon
  <1>2. PICK r \in Seq(C) :
            /\ r = Row(def, k)[x] /\ Len(r) = Len(vs)
            /\ \A j \in 1 .. Len(vs) : vs[j] \in Vals(def) /\ r[j] = with_value(x, ax, vs[j])
    <2>1. Row(def, k)[x] \in Seq(C)
      BY <1>1, RowType
    <2>2. QED
      BY <1>1, <2>1, RowType, Zenon
  <1>3. PICK s \in Seq(C) :
            /\ s = Row(def, k)[y] /\ Len(s) = Len(vs)
            /\ \A j \in 1 .. Len(vs) : vs[j] \in Vals(def) /\ s[j] = with_value(y, ax, vs[j])
    <2>1. Row(def, k)[y] \in Seq(C)
      BY <1>1, RowType
    <2>2. QED
      BY <1>1, <2>1, RowType, Zenon
  <1>4. ka \in [C -> Seq(C)] /\ kb \in [C -> Seq(C)]
    BY KeepType, Zenon
  <1>5. OwnRow(def, "a", k)[x] = Bind(r, ka) /\ OwnRow(def, "b", k)[y] = Bind(s, kb)
    BY <1>1, <1>2, <1>3, OwnRowType, Zenon
  <1>6. ASSUME NEW j \in 1 .. Len(vs)
        PROVE  /\ NextCell(def, k, x, vs[j], r[j]) /\ NextCell(def, k, y, vs[j], s[j])
               /\ r[j] \in C /\ s[j] \in C
               /\ Own(def, "a", r[j]) <=> (ax.name \in def.compare => vs[j] = CompareValue(ax, "a"))
               /\ Own(def, "b", s[j]) <=> (ax.name \in def.compare => vs[j] = CompareValue(ax, "b"))
    <2>1. PICK v \in Vals(def) : v = vs[j]
      BY <1>2, Zenon
    <2>2. PICK e : e = r[j]
      BY Zenon
    <2>3. PICK f : f = s[j]
      BY Zenon
    <2>4. e = with_value(x, def.parameterise[k], v) /\ f = with_value(y, def.parameterise[k], v)
      BY <1>2, <1>3, <2>1, <2>2, <2>3, Zenon
    <2>5. NextCell(def, k, x, v, e)
      BY <1>1, <2>4, WithValue, Zenon
    <2>6. NextCell(def, k, y, v, f)
      BY <1>1, <2>4, WithValue, Zenon
    <2>7. Own(def, "a", e) <=> (ax.name \in def.compare => v = CompareValue(ax, "a"))
      BY <1>1, <2>4, OwnNext
    <2>8. Own(def, "b", f) <=> (ax.name \in def.compare => v = CompareValue(ax, "b"))
      BY <1>1, <2>4, OwnNext
    <2>9. e \in C /\ f \in C
      BY <2>5, <2>6, Zenon DEF NextCell
    <2>10. QED
      BY <2>1, <2>2, <2>3, <2>5, <2>6, <2>7, <2>8, <2>9, Zenon
  <1>7. ASSUME NEW i \in 1 .. Len(vs), NEW j \in 1 .. Len(vs),
               ax.name \notin def.compare => vs[i] = vs[j],
               ax.name \in def.compare => vs[i] = CompareValue(ax, "a") /\ vs[j] = CompareValue(ax, "b")
        PROVE  Alike(ka[r[i]], kb[s[j]], Pairs(def, k))
    <2>1. Own(def, "a", r[i]) /\ Own(def, "b", s[j]) /\ r[i] \in C /\ s[j] \in C
      BY <1>6, <1>7, Zenon
    <2>2. ka[r[i]] = <<r[i]>> /\ kb[s[j]] = <<s[j]>>
      <3>1. PICK e \in C : e = r[i]
        BY <2>1, Zenon
      <3>2. PICK f \in C : f = s[j]
        BY <2>1, Zenon
      <3>3. Own(def, "a", e) /\ Own(def, "b", f)
        BY <2>1, <3>1, <3>2, Zenon
      <3>4. ka[e] = <<e>>
        BY <3>3, KeepOwn
      <3>5. kb[f] = <<f>>
        BY <3>3, KeepOwn
      <3>6. QED
        BY <3>1, <3>2, <3>4, <3>5, Zenon
    <2>3. NextCell(def, k, x, vs[i], r[i]) /\ NextCell(def, k, y, vs[j], s[j])
      BY <1>6, Zenon
    <2>4. <<r[i], s[j]>> \in Pairs(def, k)
      BY <1>1, <1>7, <2>3, MatchNext, Zenon
    <2>5. Alike(<<r[i]>>, <<s[j]>>, Pairs(def, k))
      BY <2>4, AlikeOne, Zenon
    <2>6. QED
      BY <2>2, <2>5, Zenon
  <1>8. ASSUME \A j \in 1 .. Len(vs) : Alike(ka[r[j]], kb[s[j]], Pairs(def, k))
        PROVE  Alike(Bind(r, ka), Bind(s, kb), Pairs(def, k))
    <2> DEFINE R == {<<r[j], s[j]>> : j \in 1 .. Len(vs)}
    <2>1. Alike(r, s, R)
      BY <1>2, <1>3, Zenon DEF Alike
    <2>2. ASSUME NEW p \in C, NEW q \in C, <<p, q>> \in R PROVE Alike(ka[p], kb[q], Pairs(def, k))
      <3>1. PICK j \in 1 .. Len(vs) : <<p, q>> = <<r[j], s[j]>>
        BY <2>2, Zenon
      <3>2. p = r[j] /\ q = s[j]
        BY <3>1
      <3>3. QED
        BY <1>8, <3>2, Zenon
    <2> HIDE DEF R
    <2>3. QED
      BY <1>4, <2>1, <2>2, BindAlike
  <1>9. CASE ax.name \notin def.compare
    BY <1>5, <1>7, <1>8, <1>9, Zenon
  <1>10. CASE ax.name \in def.compare
    <2>1. Len(vs) = 2
      <3>1. \E axis \in Axis(def, ax.name) : Len(axis.values) = 2
        BY <1>10, Zenon DEF CompareOk
      <3>2. QED
        <4>1. PICK axis : axis \in Axis(def, ax.name) /\ Len(axis.values) = 2
          BY <3>1, Zenon
        <4>2. Axis(def, ax.name) = {ax}
          BY AxisOf, Zenon
        <4>3. axis = ax
          BY <4>1, <4>2
        <4>4. QED
          BY <4>1, <4>3, Zenon
    <2>2. CompareValue(ax, "a") = vs[1] /\ CompareValue(ax, "b") = vs[2]
      BY DEF CompareValue
    <2>3. CASE vs[1] = vs[2]
      <3>1. ASSUME NEW j \in 1 .. Len(vs)
            PROVE  vs[j] = CompareValue(ax, "a") /\ vs[j] = CompareValue(ax, "b")
        <4>1. j = 1 \/ j = 2
          BY <2>1
        <4>2. QED
          BY <2>2, <2>3, <4>1, Zenon
      <3>2. QED
        BY <1>5, <1>7, <1>8, <3>1, Zenon
    <2>4. CASE vs[1] /= vs[2]
      <3>1. 1 \in 1 .. Len(vs) /\ 2 \in 1 .. Len(vs)
        BY <2>1
      <3>2. ~Own(def, "a", r[2]) /\ ~Own(def, "b", s[1]) /\ r[2] \in C /\ s[1] \in C
        BY <1>6, <1>10, <2>2, <2>4, <3>1, Zenon
      <3>3. ka[r[2]] = <<>> /\ kb[s[1]] = <<>>
        <4>1. PICK e \in C : e = r[2]
          BY <3>2, Zenon
        <4>2. PICK f \in C : f = s[1]
          BY <3>2, Zenon
        <4>3. ka[e] = <<>>
          BY <3>2, <4>1, KeepOther, Zenon
        <4>4. kb[f] = <<>>
          BY <3>2, <4>2, KeepOther, Zenon
        <4>5. QED
          BY <4>1, <4>2, <4>3, <4>4, Zenon
      <3>4. Bind(r, ka) = ka[r[1]] \o ka[r[2]] /\ Bind(s, kb) = kb[s[1]] \o kb[s[2]]
        <4>1. Len(r) = 2 /\ Len(s) = 2
          BY <1>2, <1>3, <2>1, Zenon
        <4>2. Bind(r, ka) = ka[r[1]] \o ka[r[2]]
          BY <1>4, <4>1, BindTwo
        <4>3. Bind(s, kb) = kb[s[1]] \o kb[s[2]]
          BY <1>4, <4>1, BindTwo
        <4>4. QED
          BY <4>2, <4>3, Zenon
      <3>5. ka[r[1]] \o <<>> = ka[r[1]] /\ <<>> \o kb[s[2]] = kb[s[2]]
        <4>1. r[1] \in C /\ s[2] \in C
          BY <1>6, <3>1, Zenon
        <4>2. ka[r[1]] \in Seq(C) /\ kb[s[2]] \in Seq(C)
          BY <1>4, <4>1
        <4>3. QED
          BY <4>2, ConcatLaws
      <3>6. Alike(ka[r[1]], kb[s[2]], Pairs(def, k))
        BY <1>7, <1>10, <2>2, <3>1, Zenon
      <3>7. Bind(r, ka) = ka[r[1]] /\ Bind(s, kb) = kb[s[2]]
        BY <3>3, <3>4, <3>5, Zenon
      <3>8. QED
        BY <1>5, <3>6, <3>7, Zenon
    <2>5. QED
      BY <2>3, <2>4
  <1>11. QED
    BY <1>9, <1>10

\* After any number of axes the two selections are alike.
LEMMA SelectionsAlike ==
    ASSUME NEW def, IsDef(def), CompareOk(def), NEW E, Expands(E, def, Len(def.parameterise)),
           NEW k \in Nat, k <= Len(def.parameterise)
    PROVE  Alike(Bind(E[k], Keep(def, "a", k)), Bind(E[k], Keep(def, "b", k)), Pairs(def, k))
  <1> DEFINE n == Len(def.parameterise)
             Sel(g, i) == Bind(E[i], Keep(def, g, i))
             S == {i \in Nat : i <= n => Alike(Sel("a", i), Sel("b", i), Pairs(def, i))}
  <1>1. n \in Nat
    BY DEF IsDef, IsSeq
  <1>2. 0 \in S
    <2>1. PICK c : c = [d \in {} |-> 0]
      BY Zenon
    <2>2. E[0] = <<c>>
      BY <2>1, Zenon DEF Expands
    <2>3. Dims(def, 0) = {}
      BY DEF Dims
    <2>4. c \in Cells(def, 0) /\ DOMAIN c = {}
      BY <2>1, <2>3 DEF Cells
    <2>5. Match(def, 0, c, c)
      BY <2>3 DEF Match
    <2>6. <<c, c>> \in Pairs(def, 0)
      BY <2>4, <2>5, PairsOwn, Zenon
    <2>7. Own(def, "a", c) /\ Own(def, "b", c)
      BY <2>6, PairsOwn, Zenon
    <2>8. ASSUME NEW g, Own(def, g, c) PROVE Sel(g, 0) = <<c>>
      <3>1. Keep(def, g, 0) \in [Cells(def, 0) -> Seq(Cells(def, 0))]
        BY KeepType, Zenon
      <3>2. Bind(<<c>>, Keep(def, g, 0)) = Keep(def, g, 0)[c]
        BY <2>4, <3>1, BindOne
      <3>3. Keep(def, g, 0)[c] = <<c>>
        BY <2>4, <2>8, KeepOwn
      <3>4. QED
        BY <2>2, <3>2, <3>3, Zenon
    <2>9. Alike(<<c>>, <<c>>, Pairs(def, 0))
      BY <2>6, AlikeOne, Zenon
    <2>10. Alike(Sel("a", 0), Sel("b", 0), Pairs(def, 0))
      <3>1. Sel("a", 0) = <<c>> /\ Sel("b", 0) = <<c>>
        BY <2>7, <2>8
      <3>2. QED
        BY <2>9, <3>1, Zenon
    <2>11. QED
      BY <2>10
  <1>3. ASSUME NEW i \in Nat, i \in S PROVE i + 1 \in S
    <2> SUFFICES ASSUME i + 1 <= n PROVE Alike(Sel("a", i + 1), Sel("b", i + 1), Pairs(def, i + 1))
      OBVIOUS
    <2>1. PICK j \in 1 .. n : j = i + 1
      BY <1>1
    <2>2. j - 1 = i /\ i <= n /\ j \in Nat /\ j <= n /\ j /= 0
      BY <1>1, <2>1
    <2>3. Alike(Sel("a", i), Sel("b", i), Pairs(def, i))
      BY <1>3, <2>2
    <2>4. E[i] \in Seq(Cells(def, i))
      BY <2>2, ExpandCells, Zenon
    <2>5. E[j] = Bind(E[j - 1], Row(def, j))
      BY <2>2, ExpandCells, Zenon
    <2>6. PICK s \in Seq(Cells(def, j - 1)) : s = E[i]
      BY <2>2, <2>4, Zenon
    <2>7. ASSUME NEW g
          PROVE  /\ Sel(g, j) = Bind(Sel(g, i), OwnRow(def, g, j))
                 /\ Sel(g, i) \in Seq(Cells(def, j - 1))
      <3>1. Bind(Bind(s, Row(def, j)), Keep(def, g, j))
               = Bind(Bind(s, Keep(def, g, j - 1)), OwnRow(def, g, j))
        BY SelectStep, Zenon
      <3>2. Bind(s, Keep(def, g, j - 1)) \in Seq(Cells(def, j - 1))
        BY SelectStep, Zenon
      <3>3. QED
        BY <2>2, <2>5, <2>6, <3>1, <3>2, Zenon
    <2>8. ASSUME NEW g PROVE OwnRow(def, g, j) \in [Cells(def, j - 1) -> Seq(Cells(def, j))]
      BY OwnRowType, Zenon
    <2>9. ASSUME NEW x, NEW y, <<x, y>> \in Pairs(def, j - 1)
          PROVE  Alike(OwnRow(def, "a", j)[x], OwnRow(def, "b", j)[y], Pairs(def, j))
      BY <2>9, OwnRowsAlike, Zenon
    <2>10. PICK sa \in Seq(Cells(def, j - 1)) : sa = Sel("a", i)
      BY <2>7, Zenon
    <2>11. PICK sb \in Seq(Cells(def, j - 1)) : sb = Sel("b", i)
      BY <2>7, Zenon
    <2>12. Alike(sa, sb, Pairs(def, j - 1))
      BY <2>2, <2>3, <2>10, <2>11, Zenon
    <2>13. PICK wa \in [Cells(def, j - 1) -> Seq(Cells(def, j))] : wa = OwnRow(def, "a", j)
      BY <2>8, Zenon
    <2>14. PICK wb \in [Cells(def, j - 1) -> Seq(Cells(def, j))] : wb = OwnRow(def, "b", j)
      BY <2>8, Zenon
    <2>15. \A x, y \in Cells(def, j - 1) :
              <<x, y>> \in Pairs(def, j - 1) => Alike(wa[x], wb[y], Pairs(def, j))
      BY <2>9, <2>13, <2>14, Zenon
    <2>16. Alike(Bind(sa, wa), Bind(sb, wb), Pairs(def, j))
      BY <2>12, <2>15, BindAlike, Zenon
    <2>17. Alike(Sel("a", j), Sel("b", j), Pairs(def, j))
      <3>1. Sel("a", j) = Bind(Sel("a", i), OwnRow(def, "a", j))
        BY <2>7
      <3>2. Sel("b", j) = Bind(Sel("b", i), OwnRow(def, "b", j))
        BY <2>7
      <3>3. Sel("a", j) = Bind(sa, wa) /\ Sel("b", j) = Bind(sb, wb)
        BY <2>10, <2>11, <2>13, <2>14, <3>1, <3>2, Zenon
      <3>4. QED
        BY <2>16, <3>3, Zenon
    <2>18. QED
      BY <2>1, <2>17, Zenon
  <1> HIDE DEF S
  <1>4. k \in S
    BY <1>2, <1>3, SetInduction
  <1>5. QED
    BY <1>4, Zenon DEF S

\* So the cells of the two groups are.
LEMMA GroupsAlike ==
    ASSUME NEW def, IsDef(def), CompareOk(def)
    PROVE  Alike(group_cells(def, "a"), group_cells(def, "b"), Pairs(def, Len(def.parameterise)))
  <1> DEFINE n == Len(def.parameterise)
  <1>1. n \in Nat /\ n <= n
    BY DEF IsDef, IsSeq
  <1>2. PICK E : Expands(E, def, n) /\ expand_cells(def) = E[n]
    BY <1>1, Expansion
  <1>3. Alike(Bind(E[n], Keep(def, "a", n)), Bind(E[n], Keep(def, "b", n)), Pairs(def, n))
    BY <1>1, <1>2, SelectionsAlike, Zenon
  <1>4. group_cells(def, "a") = Bind(E[n], Keep(def, "a", n))
    BY <1>2, GroupCells, Zenon
  <1>5. group_cells(def, "b") = Bind(E[n], Keep(def, "b", n))
    BY <1>2, GroupCells, Zenon
  <1>6. QED
    BY <1>3, <1>4, <1>5, Zenon

\* A plan runs every cell of its group `repeat` times.
LEMMA PlanIs ==
    ASSUME NEW def, IsDef(def), NEW g, NEW r \in Nat \ {0}
    PROVE  /\ Len(group_cells(def, g)) \in Nat
           /\ Len(group_cells(def, g)) * r \in Nat
           /\ Len(plan(def, g, r)) = Len(group_cells(def, g)) * r
           /\ \A i \in 1 .. Len(group_cells(def, g)) * r :
                 /\ plan(def, g, r)[i] = group_cells(def, g)[(i - 1) \div r + 1]
                 /\ (i - 1) \div r + 1 \in 1 .. Len(group_cells(def, g))
  <1>1. PICK cells \in Seq(Cells(def, Len(def.parameterise))) : cells = group_cells(def, g)
    BY GroupCells, Zenon
  <1>2. Len(cells) \in Nat
    OBVIOUS
  <1>3. PICK m \in Nat : m = Len(cells)
    BY <1>2, Zenon
  <1>4. m * r \in Nat
    OBVIOUS
  <1>5. ASSUME NEW i \in 1 .. m * r PROVE (i - 1) \div r + 1 \in 1 .. m
    <2>1. PICK q \in Int : q = (i - 1) \div r
      <3>1. (i - 1) \div r \in Int
        BY <1>4
      <3>2. QED
        BY <3>1, Zenon
    <2>2. i - 1 \in Int /\ 0 <= i - 1 /\ i - 1 < m * r
      BY <1>4
    <2>3. q * r <= i - 1 /\ i - 1 < q * r + r
      BY <2>1, <2>2
    <2>4. q >= 0
      <3>1. CASE q < 0
        <4>1. (q + 1) * r <= 0
          BY <3>1
        <4>2. q * r + r = (q + 1) * r
          OBVIOUS
        <4>3. QED
          BY <2>2, <2>3, <4>1, <4>2
      <3>2. QED
        BY <3>1
    <2>5. q < m
      <3>1. CASE q >= m
        <4>1. m * r <= q * r
          BY <3>1
        <4>2. QED
          BY <2>2, <2>3, <4>1
      <3>2. QED
        BY <3>1
    <2>6. QED
      BY <2>1, <2>4, <2>5
  <1>6. plan(def, g, r) = [i \in 1 .. m * r |-> cells[(i - 1) \div r + 1]]
    BY <1>1, <1>3, Zenon DEF plan
  <1>7. /\ Len(plan(def, g, r)) = m * r
        /\ \A i \in 1 .. m * r : plan(def, g, r)[i] = cells[(i - 1) \div r + 1]
    <2>1. PICK p : p = [i \in 1 .. m * r |-> cells[(i - 1) \div r + 1]]
      BY Zenon
    <2>2. DOMAIN p = 1 .. m * r /\ \A i \in 1 .. m * r : p[i] = cells[(i - 1) \div r + 1]
      BY <2>1
    <2>3. p \in [1 .. m * r -> Cells(def, Len(def.parameterise))]
      <3>1. \A i \in 1 .. m * r : p[i] \in Cells(def, Len(def.parameterise))
        BY <1>3, <1>5, <2>2
      <3>2. QED
        BY <2>1, <3>1
    <2>4. Len(p) = m * r
      BY <1>4, <2>3, FunctionIsSeq
    <2>5. QED
      BY <1>6, <2>1, <2>2, <2>4, Zenon
  <1>8. QED
    BY <1>1, <1>3, <1>4, <1>5, <1>7, Zenon

-----------------------------------------------------------------------------
(* The cells and the matrix. *)

\* The choices of one value for each of the first k axes.
Combos(def, k) ==
    {c \in Cells(def, k) : \A i \in 1 .. k : c[def.parameterise[i].name] \in Members(def.parameterise[i].values)}

\* The members of a row.
LEMMA RowMembers ==
    ASSUME NEW def, IsDef(def), NEW k \in 1 .. Len(def.parameterise), NEW c \in Cells(def, k - 1)
    PROVE  /\ Row(def, k)[c] \in Seq(Cells(def, k))
           /\ \A y \in Members(Row(def, k)[c]) :
                 \E v \in Members(def.parameterise[k].values) : NextCell(def, k, c, v, y)
           /\ \A v \in Members(def.parameterise[k].values) :
                 \E y \in Members(Row(def, k)[c]) : NextCell(def, k, c, v, y)
           /\ ~Repeats(def.parameterise[k]) => NoDup(Row(def, k)[c])
  <1> DEFINE ax == def.parameterise[k]
             vs == def.parameterise[k].values
  <1>1. PICK r \in Seq(Cells(def, k)) :
            /\ r = Row(def, k)[c] /\ Len(r) = Len(vs)
            /\ \A j \in 1 .. Len(vs) : vs[j] \in Vals(def) /\ r[j] = with_value(c, ax, vs[j])
    <2>1. Row(def, k)[c] \in Seq(Cells(def, k))
      BY RowType
    <2>2. QED
      BY <2>1, RowType, Zenon
  <1>2. ASSUME NEW j \in 1 .. Len(vs) PROVE NextCell(def, k, c, vs[j], r[j])
    <2>1. PICK v \in Vals(def) : v = vs[j]
      BY <1>1, Zenon
    <2>2. PICK e : e = r[j]
      BY Zenon
    <2>3. e = with_value(c, def.parameterise[k], v)
      BY <1>1, <2>1, <2>2, Zenon
    <2>4. NextCell(def, k, c, v, e)
      BY <2>3, WithValue, Zenon
    <2>5. QED
      BY <2>1, <2>2, <2>4, Zenon
  <1>3. ASSUME NEW y \in Members(r)
        PROVE  \E v \in Members(vs) : NextCell(def, k, c, v, y)
    <2>1. PICK j \in 1 .. Len(vs) : y = r[j]
      BY <1>1, Zenon DEF Members
    <2>2. vs[j] \in Members(vs)
      BY DEF Members
    <2>3. QED
      BY <1>2, <2>1, <2>2, Zenon
  <1>4. ASSUME NEW v \in Members(vs)
        PROVE  \E y \in Members(r) : NextCell(def, k, c, v, y)
    <2>1. PICK j \in 1 .. Len(vs) : v = vs[j]
      BY Zenon DEF Members
    <2>2. r[j] \in Members(r)
      BY <1>1, Zenon DEF Members
    <2>3. QED
      BY <1>2, <2>1, <2>2, Zenon
  <1>5. ASSUME ~Repeats(ax) PROVE NoDup(r)
    <2> SUFFICES ASSUME NEW i \in 1 .. Len(r), NEW j \in 1 .. Len(r), r[i] = r[j] PROVE i = j
      BY Zenon DEF NoDup
    <2>1. i \in 1 .. Len(vs) /\ j \in 1 .. Len(vs)
      BY <1>1, Zenon
    <2>2. r[i][ax.name] = vs[i] /\ r[j][ax.name] = vs[j]
      BY <1>2, <2>1, Zenon DEF NextCell
    <2>3. vs[i] = vs[j]
      BY <2>2, Zenon
    <2>4. DOMAIN vs = 1 .. Len(vs)
      BY NextAxis DEF IsSeq
    <2>5. QED
      BY <1>5, <2>1, <2>3, <2>4, Zenon DEF Repeats
  <1>6. QED
    BY <1>1, <1>3, <1>4, <1>5, Zenon

\* A choice for k axes is one for k - 1 and a value of the next.
LEMMA NextCombo ==
    ASSUME NEW def, IsDef(def), NEW k \in 1 .. Len(def.parameterise)
    PROVE  \A y : y \in Combos(def, k) <=> \E c \in Combos(def, k - 1) : y \in Members(Row(def, k)[c])
  <1> DEFINE p == def.parameterise
             m == p[k].name
  <1>1. /\ Dims(def, k) = Dims(def, k - 1) \cup {m} /\ m \notin Dims(def, k - 1)
    BY NextAxis, Zenon
  <1>2. /\ \A i \in 1 .. k - 1 : i \in 1 .. k
        /\ \A i \in 1 .. k : i = k \/ i \in 1 .. k - 1
        /\ k \in 1 .. k
    <2>1. Len(def.parameterise) \in Nat
      BY DEF IsDef, IsSeq
    <2>2. QED
      BY <2>1
  <1>3. \A i \in 1 .. k - 1 : p[i].name \in Dims(def, k - 1)
    BY DEF Dims
  <1>4. ASSUME NEW c \in Combos(def, k - 1), NEW y \in Members(Row(def, k)[c])
        PROVE  y \in Combos(def, k)
    <2>1. c \in Cells(def, k - 1)
      BY DEF Combos
    <2>2. PICK v \in Members(p[k].values) : NextCell(def, k, c, v, y)
      BY <2>1, RowMembers, Zenon
    <2>3. y \in Cells(def, k) /\ y[m] = v /\ \A d \in Dims(def, k - 1) : y[d] = c[d]
      BY <2>2, Zenon DEF NextCell
    <2>4. ASSUME NEW i \in 1 .. k PROVE y[p[i].name] \in Members(p[i].values)
      <3>1. CASE i = k
        BY <2>3, <3>1, Zenon
      <3>2. CASE i \in 1 .. k - 1
        <4>1. y[p[i].name] = c[p[i].name]
          BY <1>3, <2>3, <3>2, Zenon
        <4>2. c[p[i].name] \in Members(p[i].values)
          BY <3>2, Zenon DEF Combos
        <4>3. QED
          BY <4>1, <4>2, Zenon
      <3>3. QED
        BY <1>2, <3>1, <3>2, Zenon
    <2>5. QED
      BY <2>3, <2>4, Zenon DEF Combos
  <1>5. ASSUME NEW y \in Combos(def, k)
        PROVE  \E c \in Combos(def, k - 1) : y \in Members(Row(def, k)[c])
    <2>1. y \in Cells(def, k) /\ \A i \in 1 .. k : y[p[i].name] \in Members(p[i].values)
      BY Zenon DEF Combos
    <2>2. y = [d \in Dims(def, k) |-> y[d]] /\ \A d \in Dims(def, k) : y[d] \in Vals(def)
      BY <2>1 DEF Cells
    <2> DEFINE c == [d \in Dims(def, k - 1) |-> y[d]]
    <2>3. c \in Cells(def, k - 1) /\ \A d \in Dims(def, k - 1) : c[d] = y[d]
      BY <1>1, <2>2 DEF Cells
    <2> HIDE DEF c
    <2>4. c \in Combos(def, k - 1)
      <3>1. ASSUME NEW i \in 1 .. k - 1 PROVE c[p[i].name] \in Members(p[i].values)
        BY <1>2, <1>3, <2>1, <2>3, Zenon
      <3>2. QED
        BY <2>3, <3>1, Zenon DEF Combos
    <2>5. y[m] \in Members(p[k].values)
      BY <1>2, <2>1, Zenon
    <2>6. PICK e \in Members(Row(def, k)[c]) : NextCell(def, k, c, y[m], e)
      BY <2>3, <2>5, RowMembers, Zenon
    <2>7. e \in Cells(def, k) /\ e[m] = y[m] /\ \A d \in Dims(def, k - 1) : e[d] = c[d]
      BY <2>6, Zenon DEF NextCell
    <2>8. e = [d \in Dims(def, k) |-> e[d]]
      BY <2>7 DEF Cells
    <2>9. \A d \in Dims(def, k) : e[d] = y[d]
      BY <1>1, <2>3, <2>7
    <2>10. e = y
      BY <2>2, <2>8, <2>9
    <2>11. QED
      BY <2>4, <2>6, <2>10, Zenon
  <1>6. QED
    BY <1>4, <1>5, Zenon

\* Rows of different cells have nothing in common.
LEMMA RowsApart ==
    ASSUME NEW def, IsDef(def), NEW k \in 1 .. Len(def.parameterise), ~Repeats(def.parameterise[k])
    PROVE  Apart(Row(def, k), Cells(def, k - 1))
  <1>1. \A c \in Cells(def, k - 1) : NoDup(Row(def, k)[c])
    BY RowMembers, Zenon
  <1>2. ASSUME NEW c \in Cells(def, k - 1), NEW d \in Cells(def, k - 1),
               NEW y \in Members(Row(def, k)[c]), y \in Members(Row(def, k)[d])
        PROVE  c = d
    <2>1. PICK v : NextCell(def, k, c, v, y)
      BY RowMembers, Zenon
    <2>2. PICK u : NextCell(def, k, d, u, y)
      BY <1>2, RowMembers, Zenon
    <2>3. \A x \in Dims(def, k - 1) : c[x] = d[x]
      BY <2>1, <2>2, Zenon DEF NextCell
    <2>4. c = [x \in Dims(def, k - 1) |-> c[x]] /\ d = [x \in Dims(def, k - 1) |-> d[x]]
      BY DEF Cells
    <2>5. QED
      BY <2>3, <2>4
  <1>3. ASSUME NEW c \in Cells(def, k - 1), NEW d \in Cells(def, k - 1), c /= d
        PROVE  Members(Row(def, k)[c]) \cap Members(Row(def, k)[d]) = {}
    BY <1>2, <1>3
  <1>4. QED
    BY <1>1, <1>3, Zenon DEF Apart

\* The cells after k axes are the choices, each once.
LEMMA CellsAreCombos ==
    ASSUME NEW def, IsDef(def), \A i \in DOMAIN def.parameterise : ~Repeats(def.parameterise[i]),
           NEW E, Expands(E, def, Len(def.parameterise)),
           NEW k \in Nat, k <= Len(def.parameterise)
    PROVE  NoDup(E[k]) /\ Members(E[k]) = Combos(def, k)
  <1> DEFINE n == Len(def.parameterise)
             S == {i \in Nat : i <= n => NoDup(E[i]) /\ Members(E[i]) = Combos(def, i)}
  <1>1. n \in Nat /\ DOMAIN def.parameterise = 1 .. n
    BY DEF IsDef, IsSeq
  <1>2. 0 \in S
    <2>1. PICK c : c = [d \in {} |-> 0]
      BY Zenon
    <2>2. E[0] = <<c>>
      BY <2>1, Zenon DEF Expands
    <2>3. PICK s : s = E[0] /\ Len(s) = 1 /\ s[1] = c
      <3>1. Len(<<c>>) = 1 /\ <<c>>[1] = c
        BY Single
      <3>2. QED
        BY <2>2, <3>1, Zenon
    <2>4. NoDup(s) /\ Members(s) = {c}
      BY <2>3 DEF NoDup, Members
    <2>5. Dims(def, 0) = {}
      BY DEF Dims
    <2>6. Cells(def, 0) = {c}
      BY <2>1, <2>5 DEF Cells
    <2>7. Combos(def, 0) = {c}
      BY <2>6 DEF Combos
    <2>8. NoDup(E[0]) /\ Members(E[0]) = Combos(def, 0)
      BY <2>3, <2>4, <2>7, Zenon
    <2>9. QED
      BY <2>8
  <1>3. ASSUME NEW i \in Nat, i \in S PROVE i + 1 \in S
    <2> SUFFICES ASSUME i + 1 <= n PROVE NoDup(E[i + 1]) /\ Members(E[i + 1]) = Combos(def, i + 1)
      OBVIOUS
    <2>1. PICK j \in 1 .. n : j = i + 1
      BY <1>1
    <2>2. j - 1 = i /\ i <= n /\ j \in Nat /\ j <= n /\ j /= 0
      BY <1>1, <2>1
    <2>3. NoDup(E[i]) /\ Members(E[i]) = Combos(def, i)
      BY <1>3, <2>2
    <2>4. E[i] \in Seq(Cells(def, i))
      BY <2>2, ExpandCells, Zenon
    <2>5. E[j] = Bind(E[j - 1], Row(def, j))
      BY <2>2, ExpandCells, Zenon
    <2>6. PICK s \in Seq(Cells(def, j - 1)) : s = E[i]
      BY <2>2, <2>4, Zenon
    <2>7. PICK w \in [Cells(def, j - 1) -> Seq(Cells(def, j))] : w = Row(def, j)
      BY RowType, Zenon
    <2>8. ~Repeats(def.parameterise[j])
      BY <1>1, Zenon
    <2>9. Apart(w, Cells(def, j - 1))
      BY <2>7, <2>8, RowsApart, Zenon
    <2>10. NoDup(s) /\ Members(s) = Combos(def, j - 1)
      BY <2>2, <2>3, <2>6, Zenon
    <2>11. NoDup(Bind(s, w))
      BY <2>9, <2>10, BindNoDup, Zenon
    <2>12. \A y : y \in Members(Bind(s, w)) <=> \E c \in Members(s) : y \in Members(w[c])
      BY BindMembers, Zenon
    <2>13. \A y : y \in Combos(def, j) <=> \E c \in Combos(def, j - 1) : y \in Members(Row(def, j)[c])
      BY NextCombo, Zenon
    <2>14. \A y : y \in Members(Bind(s, w)) <=> y \in Combos(def, j)
      BY <2>7, <2>10, <2>12, <2>13, Zenon
    <2>15. Members(Bind(s, w)) = Combos(def, j)
      BY <2>14
    <2>16. E[j] = Bind(s, w)
      BY <2>2, <2>5, <2>6, <2>7, Zenon
    <2>17. NoDup(E[j]) /\ Members(E[j]) = Combos(def, j)
      BY <2>11, <2>15, <2>16, Zenon
    <2>18. QED
      BY <2>1, <2>17, Zenon
  <1> HIDE DEF S
  <1>4. k \in S
    BY <1>2, <1>3, SetInduction
  <1>5. QED
    BY <1>4, Zenon DEF S

\* A group's cells are the choices that are its own, each once.
LEMMA GroupIsOwn ==
    ASSUME NEW def, IsDef(def), \A i \in DOMAIN def.parameterise : ~Repeats(def.parameterise[i]),
           NEW g
    PROVE  /\ NoDup(group_cells(def, g))
           /\ \A c : c \in Members(group_cells(def, g)) <=>
                        c \in Combos(def, Len(def.parameterise)) /\ Own(def, g, c)
  <1> DEFINE n == Len(def.parameterise)
  <1>1. n \in Nat /\ n <= n
    BY DEF IsDef, IsSeq
  <1>2. PICK E : Expands(E, def, n) /\ expand_cells(def) = E[n]
    BY <1>1, Expansion
  <1>3. NoDup(E[n]) /\ Members(E[n]) = Combos(def, n)
    <2>1. NoDup(E[n])
      BY <1>1, <1>2, CellsAreCombos, Zenon
    <2>2. Members(E[n]) = Combos(def, n)
      BY <1>1, <1>2, CellsAreCombos, Zenon
    <2>3. QED
      BY <2>1, <2>2
  <1>4. E[n] \in Seq(Cells(def, n))
    BY <1>1, <1>2, ExpandCells, Zenon
  <1>5. PICK s \in Seq(Cells(def, n)) : s = E[n]
    BY <1>4, Zenon
  <1>6. group_cells(def, g) = Bind(s, Keep(def, g, n))
    BY <1>2, <1>5, GroupCells, Zenon
  <1>7. PICK w \in [Cells(def, n) -> Seq(Cells(def, n))] : w = Keep(def, g, n)
    BY KeepType, Zenon
  <1>8. ASSUME NEW c \in Cells(def, n)
        PROVE  /\ NoDup(w[c])
               /\ \A y : y \in Members(w[c]) <=> y = c /\ Own(def, g, c)
    <2>1. CASE Own(def, g, c)
      <3>1. w[c] = <<c>>
        BY <1>7, <2>1, KeepOwn
      <3>2. PICK u : u = w[c] /\ Len(u) = 1 /\ u[1] = c
        <4>1. Len(<<c>>) = 1 /\ <<c>>[1] = c
          BY Single
        <4>2. QED
          BY <3>1, <4>1, Zenon
      <3>3. NoDup(u) /\ Members(u) = {c}
        BY <3>2 DEF NoDup, Members
      <3>4. \A y : y \in Members(u) <=> y = c
        BY <3>3
      <3>5. QED
        BY <2>1, <3>2, <3>3, <3>4, Zenon
    <2>2. CASE ~Own(def, g, c)
      <3>1. w[c] = <<>>
        BY <1>7, <2>2, KeepOther
      <3>2. PICK u : u = w[c] /\ Len(u) = 0
        BY <3>1
      <3>3. NoDup(u) /\ Members(u) = {}
        BY <3>2 DEF NoDup, Members
      <3>4. QED
        BY <2>2, <3>2, <3>3, Zenon
    <2>3. QED
      BY <2>1, <2>2
  <1>9. Apart(w, Cells(def, n))
    <2>1. ASSUME NEW c \in Cells(def, n), NEW d \in Cells(def, n), c /= d
          PROVE  Members(w[c]) \cap Members(w[d]) = {}
      BY <1>8, <2>1
    <2>2. QED
      BY <1>8, <2>1, Zenon DEF Apart
  <1>10. NoDup(s) /\ Members(s) = Combos(def, n)
    BY <1>3, <1>5, Zenon
  <1>11. NoDup(Bind(s, w))
    BY <1>9, <1>10, BindNoDup, Zenon
  <1>12. \A y : y \in Members(Bind(s, w)) <=> \E c \in Members(s) : y \in Members(w[c])
    BY BindMembers, Zenon
  <1>13. \A c \in Combos(def, n) : c \in Cells(def, n)
    BY DEF Combos
  <1>14. \A c : c \in Members(Bind(s, w)) <=> c \in Combos(def, n) /\ Own(def, g, c)
    <2>1. ASSUME NEW c \in Members(Bind(s, w)) PROVE c \in Combos(def, n) /\ Own(def, g, c)
      <3>1. PICK d \in Combos(def, n) : c \in Members(w[d])
        BY <1>10, <1>12, Zenon
      <3>2. d \in Cells(def, n)
        BY <1>13
      <3>3. c = d /\ Own(def, g, d)
        BY <1>8, <3>1, <3>2, Zenon
      <3>4. QED
        BY <3>1, <3>3, Zenon
    <2>2. ASSUME NEW c \in Combos(def, n), Own(def, g, c) PROVE c \in Members(Bind(s, w))
      <3>1. c \in Cells(def, n)
        BY <1>13
      <3>2. c \in Members(w[c])
        BY <1>8, <2>2, <3>1, Zenon
      <3>3. QED
        BY <1>10, <1>12, <3>2, Zenon
    <2>3. QED
      BY <2>1, <2>2, Zenon
  <1>15. QED
    BY <1>6, <1>7, <1>11, <1>14, Zenon

\* Division in the plan: the runs of one cell.
LEMMA RunsOfCell ==
    ASSUME NEW r \in Nat \ {0}, NEW m \in Nat, NEW l \in 1 .. m
    PROVE  /\ {i \in 1 .. m * r : (i - 1) \div r + 1 = l} = (l - 1) * r + 1 .. l * r
           /\ Cardinality((l - 1) * r + 1 .. l * r) = r
  <1>1. m * r \in Nat /\ (l - 1) * r \in Nat /\ l * r \in Nat /\ l * r = (l - 1) * r + r
    <2>1. l - 1 \in Nat /\ l \in Nat
      OBVIOUS
    <2>2. QED
      BY <2>1
  <1>2. l * r <= m * r
    OBVIOUS
  <1>3. ASSUME NEW i \in 1 .. m * r, (i - 1) \div r + 1 = l PROVE i \in (l - 1) * r + 1 .. l * r
    <2>1. PICK q \in Int : q = (i - 1) \div r
      <3>1. (i - 1) \div r \in Int
        BY <1>1
      <3>2. QED
        BY <3>1, Zenon
    <2>2. q * r <= i - 1 /\ i - 1 < q * r + r
      BY <1>1, <2>1
    <2>3. q = l - 1
      BY <1>3, <2>1
    <2>4. (l - 1) * r <= i - 1 /\ i - 1 < (l - 1) * r + r
      BY <2>2, <2>3
    <2>5. QED
      BY <1>1, <2>4
  <1>4. ASSUME NEW i \in (l - 1) * r + 1 .. l * r PROVE i \in 1 .. m * r /\ (i - 1) \div r + 1 = l
    <2>1. i \in 1 .. m * r
      BY <1>1, <1>2
    <2>2. PICK q \in Int : q = (i - 1) \div r
      <3>1. (i - 1) \div r \in Int
        BY <1>1
      <3>2. QED
        BY <3>1, Zenon
    <2>3. q * r <= i - 1 /\ i - 1 < q * r + r
      BY <1>1, <2>2
    <2>4. (l - 1) * r <= i - 1 /\ i - 1 < (l - 1) * r + r
      BY <1>1
    <2>5. q <= l - 1
      <3>1. CASE q >= l
        <4>1. l * r <= q * r
          BY <3>1
        <4>2. QED
          BY <1>1, <2>3, <2>4, <4>1
      <3>2. QED
        BY <3>1
    <2>6. q >= l - 1
      <3>1. CASE q <= l - 2
        <4>1. (q + 1) * r <= (l - 1) * r
          BY <3>1
        <4>2. (q + 1) * r = q * r + r
          OBVIOUS
        <4>3. QED
          BY <1>1, <2>3, <2>4, <4>1, <4>2
      <3>2. QED
        BY <3>1
    <2>7. QED
      BY <2>1, <2>2, <2>5, <2>6
  <1>5. {i \in 1 .. m * r : (i - 1) \div r + 1 = l} = (l - 1) * r + 1 .. l * r
    BY <1>3, <1>4, Zenon
  <1>6. Cardinality((l - 1) * r + 1 .. l * r) = r
    <2>1. PICK a \in Int, b \in Int : a = (l - 1) * r + 1 /\ b = l * r
      BY <1>1
    <2>2. Cardinality(a .. b) = IF a > b THEN 0 ELSE b - a + 1
      BY FS_Interval
    <2>3. ~(a > b) /\ b - a + 1 = r
      BY <1>1, <2>1
    <2>4. Cardinality(a .. b) = r
      BY <2>2, <2>3
    <2>5. QED
      BY <2>1, <2>4, Zenon
  <1>7. QED
    BY <1>5, <1>6, Zenon

-----------------------------------------------------------------------------
(* Initial states, and the steps before anything is recorded. *)

\* The plans of a command line.
LEMMA PlanLength ==
    ASSUME opts \in Options, NEW g
    PROVE  Len(Plan(g)) \in Nat /\ IsDef(opts.def) /\ opts.repeat \in Nat \ {0}
  <1>1. PICK def, r : def = opts.def /\ r = opts.repeat
    BY Zenon
  <1>2. IsDef(def) /\ r \in Nat \ {0}
    BY <1>1, PipelineAssumption
  <1>3. Len(plan(def, g, r)) = Len(group_cells(def, g)) * r /\ Len(group_cells(def, g)) * r \in Nat
    BY <1>2, PlanIs, Zenon
  <1>4. QED
    BY <1>1, <1>2, <1>3, Zenon DEF Plan

\* A step that records nothing keeps the progress, if it executes only a run that
\* is still to come and the gate only when none is.
LEMMA ProgressKept ==
    ASSUME ProgressInv, opts' = opts, \A g \in Groups : files'[g] = files[g],
           pc' = "observe" => ~Finished,
           truth'.gate = "ran" => Finished /\ validate(opts.def)
    PROVE  ProgressInv'
  <1>1. "a" \in Groups /\ "b" \in Groups /\ files'.a = files.a /\ files'.b = files.b
    BY DEF Groups
  <1>2. \A g : Plan(g)' = Plan(g)
    BY Zenon DEF Plan
  <1>3. Finished' = Finished
    BY <1>2 DEF Finished
  <1>4. QED
    BY <1>1, <1>2, <1>3 DEF ProgressInv

\* Nothing is recorded when the command starts.
LEMMA InitIInv == Init => IInv
  <1> SUFFICES ASSUME Init PROVE IInv
    OBVIOUS
  <1>1. RecordsInv
    BY EmptyIsSeq DEF Init, RecordsInv, Groups
  <1>2. StageInv /\ PrepInv
    BY DEF Init, StageInv, PrepInv
  <1>3. RunIds = {}
    BY DEF Init, RunIds, Groups
  <1>4. PassCertifiesRuns /\ AppliedPrepHolds /\ OverBudgetNeverPasses
    BY <1>3 DEF Init, PassCertifiesRuns, AppliedPrepHolds, OverBudgetNeverPasses, GateRan
  <1>5. ProgressInv
    <2>1. /\ opts \in Options /\ pc = "load" /\ truth.gate = "none"
          /\ \A g \in Groups : files[g] = <<>>
      BY DEF Init, Groups
    <2>2. \A g \in Groups : Len(files[g]) <= Len(Plan(g))
      BY <2>1, PlanLength, EmptyIsSeq
    <2>3. files.b = <<>>
      BY <2>1 DEF Groups
    <2>4. QED
      BY <2>1, <2>2, <2>3 DEF ProgressInv
  <1>6. QED
    BY <1>1, <1>2, <1>4, <1>5 DEF IInv

\* A step that records nothing and does not run the gate keeps what the records
\* promise; it may end the command, but not with a gate that ran.
LEMMA BeforeGate ==
    ASSUME IInv, pc /= "exited" \/ code' = code, UNCHANGED <<opts, files, truth>>,
           drifts' = 0 => drifts = 0
    PROVE  RecordsInv' /\ PassCertifiesRuns' /\ OverBudgetNeverPasses' /\ AppliedPrepHolds'
  <1>1. RecordsInv'
    BY DEF IInv, RecordsInv, Plan
  <1>2. AppliedPrepHolds'
    BY DEF IInv, AppliedPrepHolds, RunIds, FileOf
  <1>3. CASE pc /= "exited"
    <2>1. ~GateRan'
      BY <1>3 DEF IInv, StageInv, GateRan
    <2>2. QED
      BY <1>1, <1>2, <2>1 DEF PassCertifiesRuns, OverBudgetNeverPasses
  <1>4. CASE code' = code
    <2>1. RunIds' = RunIds /\ GateRan' = GateRan
      BY <1>4 DEF RunIds, GateRan
    <2>2. PassCertifiesRuns'
      BY <1>4, <2>1 DEF IInv, PassCertifiesRuns, TruthOf, Plan
    <2>3. OverBudgetNeverPasses'
      BY <1>4, <2>1 DEF IInv, OverBudgetNeverPasses, TruthOf
    <2>4. QED
      BY <1>1, <1>2, <2>2, <2>3
  <1>5. QED
    BY <1>3, <1>4

\* Loading and preparing the host, and every way to give up.
LEMMA PrepIInv ==
    ASSUME IInv,
           \/ Load \/ LoadFails \/ WriteTunable \/ PrepFails \/ Prepared
           \/ ExecuteRun \/ RunFails \/ ObserveHost \/ GateMissing
    PROVE  IInv'
  <1> USE DEF Exit, history
  <1>1. UNCHANGED <<opts, files, truth, drifts>> /\ pc /= "exited"
    BY DEF IInv, StageInv, Load, LoadFails, WriteTunable, PrepFails, Prepared,
           ExecuteRun, RunFails, ObserveHost, GateMissing
  <1>2. StageInv'
    BY <1>1 DEF IInv, StageInv, Load, LoadFails, WriteTunable, PrepFails, Prepared,
           ExecuteRun, RunFails, ObserveHost, GateMissing
  <1>3. PrepInv'
    <2>1. CASE Prepared
      BY <2>1 DEF Prepared, PrepInv, Reading
    <2>2. CASE ExecuteRun
      BY <2>2 DEF IInv, ExecuteRun, PrepInv, Reading
    <2>3. CASE Load \/ LoadFails \/ WriteTunable \/ PrepFails \/ RunFails \/ ObserveHost
               \/ GateMissing
      <3>1. pc' \notin {"loop", "observe"}
        BY <2>3 DEF Load, LoadFails, WriteTunable, PrepFails, RunFails, ObserveHost, GateMissing
      <3>2. QED
        BY <3>1 DEF PrepInv
    <2>4. QED
      BY <2>1, <2>2, <2>3
  <1>4. ProgressInv'
    <2>1. pc' = "observe" => ~Finished
      <3>1. CASE ExecuteRun
        BY <3>1 DEF ExecuteRun
      <3>2. CASE Load \/ LoadFails \/ WriteTunable \/ PrepFails \/ Prepared \/ RunFails
                 \/ ObserveHost \/ GateMissing
        BY <3>2 DEF Load, LoadFails, WriteTunable, PrepFails, Prepared, RunFails,
               ObserveHost, GateMissing
      <3>3. QED
        BY <3>1, <3>2
    <2>2. truth'.gate /= "ran"
      BY <1>1 DEF IInv, StageInv
    <2>3. QED
      BY <1>1, <2>1, <2>2, ProgressKept DEF IInv
  <1>5. QED
    BY <1>1, <1>2, <1>3, <1>4, BeforeGate DEF IInv

\* Interference with the host: prep is no longer vouched for.
LEMMA HostDriftsIInv ==
    ASSUME IInv, HostDrifts
    PROVE  IInv'
  <1>1. UNCHANGED <<opts, files, truth, pc, code>> /\ drifts' = drifts + 1
    BY DEF HostDrifts
  <1>2. StageInv' /\ drifts' /= 0
    BY <1>1 DEF IInv, StageInv
  <1>3. PrepInv'
    BY <1>2 DEF PrepInv
  <1>4. ProgressInv'
    <2>1. ProgressInv /\ (pc' = "observe" => ~Finished)
      BY <1>1 DEF IInv, ProgressInv
    <2>2. truth'.gate = "ran" => Finished /\ validate(opts.def)
      BY <1>1 DEF IInv, ProgressInv
    <2>3. QED
      BY <1>1, <2>1, <2>2, ProgressKept
  <1>5. QED
    BY <1>1, <1>2, <1>3, <1>4, BeforeGate DEF IInv

-----------------------------------------------------------------------------
(* Recording a run, and the gate. *)

\* Record appends to one group what assemble makes of the run, on the host as it
\* is read back at that moment.
LEMMA RecordIInv ==
    ASSUME IInv, Record
    PROVE  IInv'
  <1> DEFINE g == Group
             rec == Assemble(opts.def, Plan(g)[Len(files[g]) + 1], Reading,
                             opts.def.pin_threads, frag)
             tr == [frag |-> frag, host |-> host]
  <1>1. /\ pc = "observe" /\ pc' = "loop" /\ g \in Groups
        /\ UNCHANGED <<opts, host, code, drifts>>
    BY DEF Record, Group, Groups
  <1>2. files' = [files EXCEPT ![g] = Append(files[g], rec)]
    BY DEF Record
  <1>3. truth' = [truth EXCEPT ![g] = Append(truth[g], tr)]
    BY DEF Record
  <1>4. Reading = [k \in Readback |-> tr.host[k]] /\ tr.frag = frag
    BY DEF Reading
  <1>5. rec.grade = compute_grade("captured", tuning_consistent(opts.def, Reading),
                                  opts.def.pin_threads, TRUE, frag.costs)
    BY DEF Assemble
  <1>6. rec = Assemble(opts.def, Plan(g)[Len(files[g]) + 1], [k \in Readback |-> tr.host[k]],
                       opts.def.pin_threads, tr.frag)
    BY <1>4
  <1> HIDE DEF rec, tr, g
  <1>7. /\ files'[g] = Append(files[g], rec) /\ truth'[g] = Append(truth[g], tr)
        /\ \A h \in Groups : h /= g => files'[h] = files[h] /\ truth'[h] = truth[h]
        /\ DOMAIN files' = DOMAIN files /\ DOMAIN truth' = DOMAIN truth
        /\ truth'.gate = truth.gate
    BY <1>1, <1>2, <1>3 DEF IInv, RecordsInv, Groups
  <1>8. /\ IsSeq(files[g]) /\ IsSeq(truth[g]) /\ Len(files[g]) = Len(truth[g])
        /\ Len(files[g]) \in Nat
        /\ DOMAIN files[g] = 1 .. Len(files[g])
    BY <1>1 DEF IInv, RecordsInv, IsSeq
  <1>9. /\ IsSeq(files'[g]) /\ Len(files'[g]) = Len(files[g]) + 1
        /\ \A i \in 1 .. Len(files[g]) : files'[g][i] = files[g][i]
        /\ files'[g][Len(files[g]) + 1] = rec
    BY <1>7, <1>8, AppendFacts
  <1>10. /\ IsSeq(truth'[g]) /\ Len(truth'[g]) = Len(truth[g]) + 1
         /\ \A i \in 1 .. Len(truth[g]) : truth'[g][i] = truth[g][i]
         /\ truth'[g][Len(truth[g]) + 1] = tr
    BY <1>7, <1>8, AppendFacts
  <1>11. RecordsInv'
    <2> SUFFICES ASSUME NEW h \in Groups
                 PROVE  /\ IsSeq(files'[h]) /\ IsSeq(truth'[h]) /\ Len(files'[h]) = Len(truth'[h])
                        /\ \A i \in 1 .. Len(files'[h]) :
                              files'[h][i] =
                                Assemble(opts.def, Plan(h)[i], [k \in Readback |-> truth'[h][i].host[k]],
                                         opts.def.pin_threads, truth'[h][i].frag)
      BY <1>1, <1>7 DEF IInv, RecordsInv, Plan
    <2>1. CASE h /= g
      <3>1. files'[h] = files[h] /\ truth'[h] = truth[h]
        BY <2>1, <1>7, Zenon
      <3>2. RecordsInv
        BY Zenon DEF IInv
      <3>3. QED
        BY <3>1, <3>2, Zenon DEF RecordsInv
    <2>2. CASE h = g
      <3> SUFFICES ASSUME NEW i \in 1 .. Len(files'[g])
                   PROVE  files'[g][i] =
                            Assemble(opts.def, Plan(g)[i], [k \in Readback |-> truth'[g][i].host[k]],
                                     opts.def.pin_threads, truth'[g][i].frag)
        BY <2>2, <1>8, <1>9, <1>10
      <3>1. CASE i = Len(files[g]) + 1
        BY <3>1, <1>6, <1>8, <1>9, <1>10
      <3>2. CASE i \in 1 .. Len(files[g])
        BY <3>2, <1>1, <1>8, <1>9, <1>10 DEF IInv, RecordsInv
      <3>3. QED
        BY <1>8, <1>9, <3>1, <3>2
    <2>3. QED
      BY <2>1, <2>2
  <1>12. StageInv' /\ PrepInv' /\ ~GateRan'
    BY <1>1, <1>7 DEF IInv, StageInv, PrepInv, Reading, GateRan
  <1>13. AppliedPrepHolds'
    <2> SUFFICES ASSUME opts.apply_prep, drifts = 0, NEW h \in Groups, NEW i \in DOMAIN files'[h]
                 PROVE  files'[h][i].grade /= "invalid"
      BY <1>1 DEF AppliedPrepHolds, RunIds, FileOf
    <2>1. \A x \in Groups : \A j \in DOMAIN files[x] : files[x][j].grade /= "invalid"
      <3> SUFFICES ASSUME NEW x \in Groups, NEW j \in DOMAIN files[x]
                   PROVE  files[x][j].grade /= "invalid"
        OBVIOUS
      <3>1. <<x, j>> \in RunIds /\ FileOf(<<x, j>>) = files[x][j]
        BY DEF RunIds, FileOf
      <3>2. QED
        BY <3>1 DEF IInv, AppliedPrepHolds
    <2>2. rec.grade /= "invalid"
      <3>1. tuning_consistent(opts.def, Reading)
        BY <1>1 DEF IInv, PrepInv
      <3>2. QED
        BY <1>5, <3>1, Grading, Zenon
    <2>3. CASE h /= g
      BY <1>7, <2>1, <2>3
    <2>4. CASE h = g
      <3>1. i \in 1 .. Len(files[g]) + 1
        BY <1>9, <2>4 DEF IsSeq
      <3>2. QED
        BY <1>8, <1>9, <2>1, <2>2, <2>4, <3>1
    <2>5. QED
      BY <2>3, <2>4
  <1>14. ProgressInv'
    <2>1. /\ ProgressInv /\ ~Finished /\ opts \in Options /\ validate(opts.def)
          /\ truth.gate = "none"
      BY <1>1 DEF IInv, ProgressInv, StageInv
    <2>2. \A h : Plan(h)' = Plan(h)
      BY <1>1, Zenon DEF Plan
    <2>3. \A h \in Groups : Len(Plan(h)) \in Nat /\ Len(files[h]) \in Nat
      BY <2>1, PlanLength DEF IInv, RecordsInv, IsSeq
    <2>4. /\ Len(files[g]) < Len(Plan(g))
          /\ g = "b" => Len(files.a) = Len(Plan("a"))
      BY <1>1, <2>1, <2>3 DEF g, Group, Groups, Finished, ProgressInv
    <2>5. \A h \in Groups : Len(files'[h]) <= Len(Plan(h))
      <3> SUFFICES ASSUME NEW h \in Groups PROVE Len(files'[h]) <= Len(Plan(h))
        OBVIOUS
      <3>1. CASE h = g
        BY <1>9, <2>3, <2>4, <3>1
      <3>2. CASE h /= g
        BY <1>7, <2>1, <3>2 DEF ProgressInv
      <3>3. QED
        BY <3>1, <3>2
    <2>6. files'.b /= <<>> => Len(files'.a) = Len(Plan("a"))
      <3>1. CASE g = "b"
        BY <1>7, <2>4, <3>1 DEF Groups
      <3>2. CASE g = "a"
        <4>1. files.b = <<>>
          BY <2>1, <2>3, <2>4, <3>2 DEF ProgressInv, Groups
        <4>2. QED
          BY <1>7, <3>2, <4>1 DEF Groups
      <3>3. QED
        BY <1>1, <3>1, <3>2 DEF Groups
    <2>7. QED
      BY <1>1, <1>7, <2>1, <2>2, <2>5, <2>6 DEF ProgressInv
  <1>15. QED
    BY <1>11, <1>12, <1>13, <1>14 DEF IInv, PassCertifiesRuns, OverBudgetNeverPasses

\* assayist capture writes a record of its own and no group's.
LEMMA CaptureIInv ==
    ASSUME IInv, Capture
    PROVE  IInv'
  <1>1. /\ pc = "capture" /\ pc' = "exited" /\ UNCHANGED <<opts, truth, drifts>>
        /\ \E x : files' = [files EXCEPT !.out = x]
    BY DEF Capture, Exit, history
  <1>2. files'.a = files.a /\ files'.b = files.b /\ DOMAIN files' = DOMAIN files
    BY <1>1 DEF IInv, RecordsInv
  <1>3. \A g \in Groups : files'[g] = files[g]
    BY <1>2 DEF Groups
  <1>4. RecordsInv'
    BY <1>1, <1>2, <1>3 DEF IInv, RecordsInv, Plan
  <1>5. StageInv' /\ PrepInv' /\ ~GateRan'
    BY <1>1 DEF IInv, StageInv, PrepInv, GateRan
  <1>6. AppliedPrepHolds'
    BY <1>1, <1>3 DEF IInv, AppliedPrepHolds, RunIds, FileOf
  <1>7. ProgressInv'
    <2>1. pc' /= "observe" /\ truth'.gate /= "ran" /\ ProgressInv
      BY <1>1 DEF IInv, StageInv
    <2>2. QED
      BY <1>1, <1>3, <2>1, ProgressKept
  <1>8. QED
    BY <1>4, <1>5, <1>6, <1>7 DEF IInv, PassCertifiesRuns, OverBudgetNeverPasses

\* A step that only ends the command, after the gate.
LEMMA GateKept ==
    ASSUME IInv, pc = "loop", pc' = "exited", UNCHANGED <<opts, files, drifts>>,
           NEW x, truth' = [truth EXCEPT !.gate = x]
    PROVE  /\ RecordsInv' /\ StageInv' /\ PrepInv' /\ AppliedPrepHolds'
           /\ (x = "ran" => Finished) => ProgressInv'
           /\ truth'.gate = x /\ \A g \in Groups : truth'[g] = truth[g]
  <1>1. /\ \A g \in Groups : truth'[g] = truth[g]
        /\ DOMAIN truth' = DOMAIN truth /\ truth'.gate = x
    BY DEF IInv, RecordsInv, Groups
  <1>2. RecordsInv'
    BY <1>1 DEF IInv, RecordsInv, Plan
  <1>3. StageInv' /\ PrepInv'
    BY DEF IInv, StageInv, PrepInv
  <1>4. AppliedPrepHolds'
    BY DEF IInv, AppliedPrepHolds, RunIds, FileOf
  <1>5. ASSUME x = "ran" => Finished PROVE ProgressInv'
    <2>1. ProgressInv /\ validate(opts.def)
      BY DEF IInv, StageInv
    <2>2. QED
      BY <1>1, <1>5, <2>1, ProgressKept
  <1>6. QED
    BY <1>1, <1>2, <1>3, <1>4, <1>5

\* One run of a comparison that passed: its record is the one its fragment and
\* its host gave it, so what the gate asked of the record holds of them.
LEMMA PassedRun ==
    ASSUME IInv, NEW s, opts.def.mode \in GateModes,
           judge(opts.def.mode, files.a, files.b, GateConfig, s) = "pass",
           opts.def.mode /= "longitudinal_drift",
           NEW g \in Groups, NEW i \in DOMAIN files[g]
    PROVE  /\ ~opts.allow_ungraded =>
                 /\ opts.def.pin_threads
                 /\ truth[g][i].frag.costs
                 /\ \A k \in Wanted(opts.def) \cap Readback : truth[g][i].host[k]
           /\ \A m \in Comparable(files.a, files.b) \ opts.def.ignore :
                 truth[g][i].frag.series[m] > 0 => Source[m] \notin truth[g][i].frag.over
           /\ opts.def.mode = "subsystem_triad" /\ g = "b" => truth[g][i].frag.over = {}
  <1> DEFINE rd == [k \in Readback |-> truth[g][i].host[k]]
             fr == truth[g][i].frag
             file == files[g][i]
  <1>1. file = Assemble(opts.def, Plan(g)[i], rd, opts.def.pin_threads, fr)
    BY DEF IInv, RecordsInv, IsSeq
  <1>2. /\ file.grade = compute_grade("captured", tuning_consistent(opts.def, rd),
                                      opts.def.pin_threads, TRUE, fr.costs)
        /\ file.series = fr.series /\ file.over = fr.over
    BY <1>1 DEF Assemble
  <1>3. /\ ab(files.a, files.b, GateConfig, s) = "pass"
        /\ opts.def.mode = "subsystem_triad" => \A j \in DOMAIN files.b : files.b[j].over = {}
    BY JudgePass
  <1>4. /\ Admitted(files.a, files.b, GateConfig)
        /\ \A m \in Comparable(files.a, files.b) \ GateConfig.ignore :
              ~Contaminated(files.a, m) /\ ~Contaminated(files.b, m)
    BY <1>3, AbPass, Zenon
  <1>5. GateConfig.ignore = opts.def.ignore /\ GateConfig.allow_ungraded = opts.allow_ungraded
    BY DEF GateConfig
  <1>6. ASSUME ~opts.allow_ungraded
        PROVE  /\ opts.def.pin_threads
               /\ fr.costs
               /\ \A k \in Wanted(opts.def) \cap Readback : truth[g][i].host[k]
    <2>1. file \in RunsOf(files.a, files.b)
      BY DEF RunsOf, Groups
    <2>2. file.grade = "reproducible"
      BY <1>4, <1>5, <1>6, <2>1, Zenon DEF Admitted
    <2>3. tuning_consistent(opts.def, rd) \in BOOLEAN
      BY DEF tuning_consistent
    <2>4. tuning_consistent(opts.def, rd) /\ opts.def.pin_threads /\ fr.costs
      BY <1>2, <2>2, <2>3, Grading, Zenon
    <2>5. QED
      BY <2>4 DEF tuning_consistent
  <1>7. ASSUME NEW m \in Comparable(files.a, files.b) \ opts.def.ignore, fr.series[m] > 0
        PROVE  Source[m] \notin fr.over
    <2>1. m \in Metrics
      BY DEF Comparable
    <2>2. ~Contaminated(files[g], m)
      BY <1>4, <1>5, Zenon DEF Groups
    <2>3. ~reduce(file)[m].contaminated
      BY <2>2 DEF Contaminated
    <2>4. reduce(file)[m].contaminated =
             (file.series[m] > 0 /\ (Source[m] \in file.over \/ m \in file.overflow))
      BY <2>1 DEF reduce
    <2>5. QED
      BY <1>2, <1>7, <2>3, <2>4
  <1>8. opts.def.mode = "subsystem_triad" /\ g = "b" => fr.over = {}
    BY <1>2, <1>3
  <1>9. QED
    BY <1>6, <1>7, <1>8

\* The gate's turn: exit 0 means it judged the files of a finished plan a pass.
LEMMA RunGateIInv ==
    ASSUME IInv, RunGate
    PROVE  IInv'
  <1>1. /\ pc = "loop" /\ pc' = "exited" /\ Finished /\ UNCHANGED <<opts, files, drifts>>
        /\ truth' = [truth EXCEPT !.gate = "ran"]
    BY DEF RunGate, Exit
  <1>2. PICK s \in Signal : code' = exit_code(GateJudges(s))
    BY Zenon DEF RunGate, Exit
  <1>3. /\ RecordsInv' /\ StageInv' /\ PrepInv' /\ AppliedPrepHolds' /\ ProgressInv'
        /\ \A g \in Groups : truth'[g] = truth[g]
    BY <1>1, GateKept
  <1>4. CASE code' = 0
    <2>1. opts.def.mode \in GateModes
      BY <1>1 DEF IInv, StageInv, validate
    <2>2. GateJudges(s) = "pass"
      <3>1. GateJudges(s) \in Verdicts
        BY <2>1, JudgePass, Zenon DEF GateJudges
      <3>2. exit_code(GateJudges(s)) = 0
        BY <1>2, <1>4
      <3>3. QED
        BY <3>1, <3>2, ExitCodes
    <2>3. opts.def.mode /= "longitudinal_drift"
      <3>1. judge(opts.def.mode, <<>>, <<>>, GateConfig, s) /= "pass"
        BY Zenon DEF judge
      <3>2. QED
        BY <2>2, <3>1, Zenon DEF GateJudges
    <2>4. judge(opts.def.mode, files.a, files.b, GateConfig, s) = "pass"
      BY <2>2, <2>3, Zenon DEF GateJudges
    <2>5. files.a /= <<>> /\ files.b /= <<>>
      BY <2>1, <2>4, JudgePass
    <2>6. \A g \in Groups : Len(files[g]) = Len(Plan(g)) /\ files[g] /= <<>>
      BY <1>1, <2>5 DEF Finished, Groups
    <2>7. ASSUME NEW g \in Groups, NEW i \in DOMAIN files[g]
          PROVE  /\ ~opts.allow_ungraded =>
                       /\ opts.def.pin_threads
                       /\ truth[g][i].frag.costs
                       /\ \A k \in Wanted(opts.def) \cap Readback : truth[g][i].host[k]
                 /\ \A m \in Comparable(files.a, files.b) \ opts.def.ignore :
                       truth[g][i].frag.series[m] > 0 => Source[m] \notin truth[g][i].frag.over
                 /\ opts.def.mode = "subsystem_triad" /\ g = "b" => truth[g][i].frag.over = {}
      BY <2>1, <2>3, <2>4, PassedRun
    <2>8. opts.def.pin_threads \/ opts.allow_ungraded
      <3>1. "a" \in Groups /\ IsSeq(files.a)
        BY DEF Groups, IInv, RecordsInv
      <3>2. 1 \in DOMAIN files.a
        BY <2>5, <3>1, NotEmpty
      <3>3. QED
        BY <2>7, <3>1, <3>2
    <2>9. PassCertifiesRuns'
      BY <1>1, <1>3, <2>6, <2>7, <2>8 DEF PassCertifiesRuns, RunIds, TruthOf, Plan
    <2>10. OverBudgetNeverPasses'
      BY <1>1, <1>3, <2>7 DEF OverBudgetNeverPasses, RunIds, TruthOf
    <2>11. QED
      BY <1>3, <2>9, <2>10 DEF IInv
  <1>5. CASE code' /= 0
    BY <1>3, <1>5 DEF IInv, PassCertifiesRuns, OverBudgetNeverPasses
  <1>6. QED
    BY <1>4, <1>5

\* A gate killed by a signal ran to no end, so nothing is claimed of its exit 0.
LEMMA GateKilledIInv ==
    ASSUME IInv, GateKilled
    PROVE  IInv'
  <1>1. /\ pc = "loop" /\ pc' = "exited" /\ UNCHANGED <<opts, files, drifts>>
        /\ truth' = [truth EXCEPT !.gate = "killed"]
    BY DEF GateKilled, Exit
  <1>2. /\ RecordsInv' /\ StageInv' /\ PrepInv' /\ AppliedPrepHolds' /\ ProgressInv'
        /\ truth'.gate = "killed"
    BY <1>1, GateKept
  <1>3. ~GateRan'
    BY <1>2 DEF GateRan
  <1>4. QED
    BY <1>2, <1>3 DEF IInv, PassCertifiesRuns, OverBudgetNeverPasses

-----------------------------------------------------------------------------
\* The inductive invariant holds in every behaviour of the command.
THEOREM Invariance == Spec => []IInv
  <1>1. IInv /\ [Next]_vars => IInv'
    <2> SUFFICES ASSUME IInv, [Next]_vars PROVE IInv'
      OBVIOUS
    <2>1. CASE UNCHANGED vars
      <3>1. RecordsInv' /\ PassCertifiesRuns' /\ OverBudgetNeverPasses' /\ AppliedPrepHolds'
        BY <2>1, BeforeGate DEF vars
      <3>2. StageInv' /\ PrepInv'
        BY <2>1 DEF IInv, vars, StageInv, PrepInv, Reading
      <3>3. ProgressInv'
        <4>1. /\ ProgressInv /\ (pc' = "observe" => ~Finished)
              /\ truth'.gate = "ran" => Finished /\ validate(opts.def)
          BY <2>1 DEF IInv, ProgressInv, vars
        <4>2. QED
          BY <2>1, <4>1, ProgressKept DEF vars
      <3>4. QED
        BY <3>1, <3>2, <3>3 DEF IInv
    <2>2. CASE Next
      BY <2>2, PrepIInv, HostDriftsIInv, RecordIInv, CaptureIInv, RunGateIInv, GateKilledIInv
         DEF Next
    <2>3. QED
      BY <2>1, <2>2
  <1>2. QED
    BY <1>1, InitIInv, PTL DEF Spec

\* Exit 0 of a gate that ran to its end certifies every run of the plan, for any
\* definition and any interference with the host between the runs.
THEOREM PassIsCertified == Spec => []PassCertifiesRuns
  <1>1. IInv => PassCertifiesRuns
    BY DEF IInv
  <1>2. QED
    BY <1>1, Invariance, PTL

\* On a host nobody else touches, --apply-prep refuses at once or holds for all
\* runs.
THEOREM AppliedPrepIsHeld == Spec => []AppliedPrepHolds
  <1>1. IInv => AppliedPrepHolds
    BY DEF IInv
  <1>2. QED
    BY <1>1, Invariance, PTL

\* A source probe over budget in any run keeps the comparison from passing.
THEOREM OverBudgetIsCaught == Spec => []OverBudgetNeverPasses
  <1>1. IInv => OverBudgetNeverPasses
    BY DEF IInv
  <1>2. QED
    BY <1>1, Invariance, PTL

-----------------------------------------------------------------------------
(* The two groups. *)

\* What is recorded has the parameters of its place in the plan.
LEMMA RecordedParams ==
    ASSUME IInv, NEW g \in Groups
    PROVE  /\ DOMAIN files[g] = 1 .. Len(files[g]) /\ Len(files[g]) \in Nat
           /\ \A i \in 1 .. Len(files[g]) : files[g][i].params = Plan(g)[i]
  <1>1. IsSeq(files[g])
    BY DEF IInv, RecordsInv
  <1>2. DOMAIN files[g] = 1 .. Len(files[g]) /\ Len(files[g]) \in Nat
    BY <1>1 DEF IsSeq
  <1>3. ASSUME NEW i \in 1 .. Len(files[g]) PROVE files[g][i].params = Plan(g)[i]
    <2>1. files[g][i] = Assemble(opts.def, Plan(g)[i], [k \in Readback |-> truth[g][i].host[k]],
                                 opts.def.pin_threads, truth[g][i].frag)
      BY DEF IInv, RecordsInv
    <2>2. QED
      BY <2>1 DEF Assemble
  <1>4. QED
    BY <1>2, <1>3, Zenon

\* One pair of matching cells, in the words of PairedRuns.
LEMMA MatchingCells ==
    ASSUME NEW def, IsDef(def), CompareOk(def), NEW a, NEW b,
           <<a, b>> \in Pairs(def, Len(def.parameterise))
    PROVE  /\ DOMAIN a = DOMAIN b
           /\ {d \in DOMAIN a : a[d] /= b[d]}
                = {d \in def.compare : \A axis \in Axis(def, d) : ~Repeats(axis)}
           /\ \A dim \in def.compare : \A axis \in Axis(def, dim) : <<a[dim], b[dim]>> = axis.values
  <1> DEFINE n == Len(def.parameterise)
  <1>1. n \in Nat /\ DOMAIN def.parameterise = 1 .. n
    BY DEF IsDef, IsSeq
  <1>2. /\ a \in Cells(def, n) /\ b \in Cells(def, n) /\ Match(def, n, a, b)
    BY PairsOwn, Zenon
  <1>3. DOMAIN a = Dims(def, n) /\ DOMAIN b = Dims(def, n)
    BY <1>2 DEF Cells
  <1>4. ASSUME NEW dim \in def.compare
        PROVE  /\ dim \in Dims(def, n)
               /\ \E axis : Axis(def, dim) = {axis} /\ IsSeq(axis.values) /\ Len(axis.values) = 2
    <2>1. PICK axis \in Axis(def, dim) : Len(axis.values) = 2
      BY Zenon DEF CompareOk
    <2>2. PICK k \in 1 .. n : def.parameterise[k].name = dim /\ axis = def.parameterise[k]
      BY <1>1, <2>1, Zenon DEF Axis
    <2>3. Axis(def, dim) = {axis}
      BY <2>2, AxisOf
    <2>4. IsSeq(axis.values)
      BY <2>2, NextAxis
    <2>5. dim \in Dims(def, n)
      BY <2>2, Zenon DEF Dims
    <2>6. QED
      BY <2>1, <2>3, <2>4, <2>5, Zenon
  <1>5. ASSUME NEW dim \in def.compare, NEW axis \in Axis(def, dim)
        PROVE  /\ a[dim] = axis.values[1] /\ b[dim] = axis.values[2]
               /\ <<a[dim], b[dim]>> = axis.values
               /\ Repeats(axis) <=> a[dim] = b[dim]
    <2>1. dim \in Dims(def, n) /\ IsSeq(axis.values) /\ Len(axis.values) = 2
      <3>1. PICK x : Axis(def, dim) = {x} /\ IsSeq(x.values) /\ Len(x.values) = 2
        BY <1>4, Zenon
      <3>2. axis = x
        BY <3>1
      <3>3. QED
        BY <1>4, <3>1, <3>2, Zenon
    <2>2. a[dim] = CompareValue(axis, "a") /\ b[dim] = CompareValue(axis, "b")
      BY <1>2, <2>1, Zenon DEF Match
    <2>3. a[dim] = axis.values[1] /\ b[dim] = axis.values[2]
      BY <2>2 DEF CompareValue
    <2>4. PICK vs : vs = axis.values
      BY Zenon
    <2>5. vs = [i \in 1 .. 2 |-> vs[i]] /\ DOMAIN vs = 1 .. 2
      BY <2>1, <2>4 DEF IsSeq
    <2>6. <<vs[1], vs[2]>> = vs
      BY <2>5
    <2>7. \A i \in 1 .. 2 : i = 1 \/ i = 2
      OBVIOUS
    <2>8. 1 \in 1 .. 2 /\ 2 \in 1 .. 2 /\ 1 /= 2
      OBVIOUS
    <2>9. Repeats(axis) <=> vs[1] = vs[2]
      BY <2>4, <2>5, <2>7, <2>8, Zenon DEF Repeats
    <2>10. QED
      BY <2>3, <2>4, <2>6, <2>9, Zenon
  <1>6. ASSUME NEW d \in DOMAIN a, a[d] /= b[d]
        PROVE  d \in def.compare /\ \A axis \in Axis(def, d) : ~Repeats(axis)
    <2>1. d \in def.compare
      BY <1>2, <1>3, <1>6, Zenon DEF Match
    <2>2. QED
      BY <1>5, <1>6, <2>1, Zenon
  <1>7. ASSUME NEW d \in def.compare, \A axis \in Axis(def, d) : ~Repeats(axis)
        PROVE  d \in DOMAIN a /\ a[d] /= b[d]
    <2>1. PICK axis : axis \in Axis(def, d)
      BY <1>4
    <2>2. QED
      BY <1>3, <1>4, <1>5, <1>7, <2>1, Zenon
  <1>8. {d \in DOMAIN a : a[d] /= b[d]}
           = {d \in def.compare : \A axis \in Axis(def, d) : ~Repeats(axis)}
    BY <1>6, <1>7, Zenon
  <1>9. QED
    BY <1>3, <1>5, <1>8, Zenon

\* The i-th cells of the two plans match.
LEMMA PlansMatch ==
    ASSUME NEW def, IsDef(def), CompareOk(def), NEW r \in Nat \ {0}
    PROVE  /\ Len(plan(def, "a", r)) = Len(plan(def, "b", r))
           /\ \A i \in 1 .. Len(plan(def, "b", r)) :
                 <<plan(def, "a", r)[i], plan(def, "b", r)[i]>> \in Pairs(def, Len(def.parameterise))
  <1> DEFINE a == group_cells(def, "a")
             b == group_cells(def, "b")
  <1>1. /\ Len(a) = Len(b)
        /\ \A i \in 1 .. Len(a) : <<a[i], b[i]>> \in Pairs(def, Len(def.parameterise))
    BY GroupsAlike, Zenon DEF Alike
  <1>2. /\ Len(plan(def, "a", r)) = Len(a) * r
        /\ \A i \in 1 .. Len(a) * r : /\ plan(def, "a", r)[i] = a[(i - 1) \div r + 1]
                                     /\ (i - 1) \div r + 1 \in 1 .. Len(a)
    BY PlanIs, Zenon
  <1>3. /\ Len(plan(def, "b", r)) = Len(b) * r
        /\ \A i \in 1 .. Len(b) * r : /\ plan(def, "b", r)[i] = b[(i - 1) \div r + 1]
                                     /\ (i - 1) \div r + 1 \in 1 .. Len(b)
    BY PlanIs, Zenon
  <1>4. QED
    BY <1>1, <1>2, <1>3, Zenon

\* The i-th runs of the two groups.
LEMMA RunsPaired ==
    ASSUME IInv
    PROVE  PairedRuns
  <1> SUFFICES ASSUME NEW i \in DOMAIN files.b
               PROVE  LET a == files.a[i].params
                          b == files.b[i].params
                      IN /\ DOMAIN a = DOMAIN b
                         /\ {d \in DOMAIN a : a[d] /= b[d]}
                            = {d \in opts.def.compare : \A axis \in Axis(opts.def, d) : ~Repeats(axis)}
                         /\ \A dim \in opts.def.compare : \A axis \in Axis(opts.def, dim) :
                               <<a[dim], b[dim]>> = axis.values
    BY Zenon DEF PairedRuns
  <1>1. "a" \in Groups /\ "b" \in Groups
    BY DEF Groups
  <1>2. /\ i \in 1 .. Len(files.b) /\ Len(files.b) \in Nat
        /\ \A j \in 1 .. Len(files.a) : files.a[j].params = Plan("a")[j]
        /\ \A j \in 1 .. Len(files.b) : files.b[j].params = Plan("b")[j]
    BY <1>1, RecordedParams
  <1>3. /\ files.b /= <<>> /\ opts \in Options /\ validate(opts.def)
        /\ Len(files.a) = Len(Plan("a")) /\ Len(files.b) <= Len(Plan("b"))
    <2>1. files.b /= <<>>
      BY <1>2
    <2>2. QED
      BY <1>1, <2>1 DEF IInv, ProgressInv
  <1>4. PICK def, r : def = opts.def /\ r = opts.repeat
    BY Zenon
  <1>5. IsDef(def) /\ r \in Nat \ {0} /\ CompareOk(def) /\ Len(Plan("b")) \in Nat
    BY <1>3, <1>4, PlanLength DEF validate
  <1>6. Plan("a") = plan(def, "a", r) /\ Plan("b") = plan(def, "b", r)
    BY <1>4, Zenon DEF Plan
  <1>7. /\ Len(plan(def, "a", r)) = Len(plan(def, "b", r))
        /\ \A j \in 1 .. Len(plan(def, "b", r)) :
              <<plan(def, "a", r)[j], plan(def, "b", r)[j]>> \in Pairs(def, Len(def.parameterise))
    BY <1>5, PlansMatch, Zenon
  <1>8. i \in 1 .. Len(Plan("b"))
    BY <1>2, <1>3, <1>5
  <1>9. i \in 1 .. Len(files.a) /\ <<Plan("a")[i], Plan("b")[i]>> \in Pairs(def, Len(def.parameterise))
    BY <1>3, <1>6, <1>7, <1>8, Zenon
  <1>10. PICK a, b : a = files.a[i].params /\ b = files.b[i].params
    BY Zenon
  <1>11. <<a, b>> \in Pairs(def, Len(def.parameterise))
    BY <1>2, <1>9, <1>10, Zenon
  <1>12. /\ DOMAIN a = DOMAIN b
         /\ {d \in DOMAIN a : a[d] /= b[d]}
              = {d \in def.compare : \A axis \in Axis(def, d) : ~Repeats(axis)}
         /\ \A dim \in def.compare : \A axis \in Axis(def, dim) : <<a[dim], b[dim]>> = axis.values
    BY <1>5, <1>11, MatchingCells
  <1>13. QED
    BY <1>4, <1>10, <1>12, Zenon

\* The combinations of the matrix are the choices of one value per axis.
LEMMA MatrixCombos ==
    ASSUME IsDef(opts.def), NEW c \in Matrix
    PROVE  c \in Combos(opts.def, Len(opts.def.parameterise))
  <1> DEFINE p == opts.def.parameterise
             n == Len(p)
             axes == {p[i] : i \in DOMAIN p}
             dims == {axis.name : axis \in axes}
             vals == UNION {{axis.values[i] : i \in DOMAIN axis.values} : axis \in axes}
  <1>1. n \in Nat /\ DOMAIN p = 1 .. n
    BY DEF IsDef, IsSeq
  <1>2. /\ c \in [dims -> vals]
        /\ \A axis \in axes : \E i \in DOMAIN axis.values : c[axis.name] = axis.values[i]
    BY Zenon DEF Matrix
  <1>3. ASSUME NEW i \in 1 .. n
        PROVE  {p[i].values[j] : j \in DOMAIN p[i].values} = Members(p[i].values)
    <2>1. IsSeq(p[i].values)
      BY <1>1, Zenon DEF IsDef
    <2>2. DOMAIN p[i].values = 1 .. Len(p[i].values)
      BY <2>1 DEF IsSeq
    <2>3. QED
      BY <2>2, Zenon DEF Members
  <1>4. dims = Dims(opts.def, n)
    BY <1>1 DEF Dims
  <1>5. vals \subseteq Vals(opts.def)
    <2> SUFFICES ASSUME NEW x \in vals PROVE x \in Vals(opts.def)
      OBVIOUS
    <2>1. PICK axis \in axes : x \in {axis.values[j] : j \in DOMAIN axis.values}
      BY Zenon
    <2>2. PICK i \in 1 .. n : axis = p[i]
      BY <1>1, Zenon
    <2>3. x \in Members(p[i].values)
      BY <1>3, <2>1, <2>2, Zenon
    <2>4. QED
      BY <2>3, Zenon DEF Vals
  <1> HIDE DEF dims, vals
  <1>6. c \in Cells(opts.def, n)
    <2>1. c \in [Dims(opts.def, n) -> vals]
      BY <1>2, <1>4, Zenon
    <2>2. QED
      BY <1>5, <2>1 DEF Cells
  <1>7. ASSUME NEW i \in 1 .. n PROVE c[p[i].name] \in Members(p[i].values)
    <2>1. p[i] \in axes
      BY <1>1, Zenon
    <2>2. PICK j \in DOMAIN p[i].values : c[p[i].name] = p[i].values[j]
      BY <1>2, <2>1, Zenon
    <2>3. QED
      BY <1>3, <2>2, Zenon
  <1>8. QED
    BY <1>6, <1>7, Zenon DEF Combos

\* How often a plan runs a cell.
LEMMA PlanCounts ==
    ASSUME NEW def, IsDef(def), \A i \in DOMAIN def.parameterise : ~Repeats(def.parameterise[i]),
           NEW g, NEW r \in Nat \ {0}, NEW c \in Combos(def, Len(def.parameterise))
    PROVE  /\ Own(def, g, c) =>
                 Cardinality({i \in 1 .. Len(plan(def, g, r)) : plan(def, g, r)[i] = c}) = r
           /\ ~Own(def, g, c) =>
                 Cardinality({i \in 1 .. Len(plan(def, g, r)) : plan(def, g, r)[i] = c}) = 0
  <1> DEFINE cells == group_cells(def, g)
             p == plan(def, g, r)
             runs == {i \in 1 .. Len(p) : p[i] = c}
  <1>1. NoDup(cells) /\ (c \in Members(cells) <=> Own(def, g, c))
    BY GroupIsOwn, Zenon
  <1>2. /\ Len(cells) \in Nat
        /\ Len(p) = Len(cells) * r
        /\ \A i \in 1 .. Len(cells) * r : /\ p[i] = cells[(i - 1) \div r + 1]
                                         /\ (i - 1) \div r + 1 \in 1 .. Len(cells)
    BY PlanIs, Zenon
  <1>3. PICK m \in Nat : m = Len(cells)
    BY <1>2, Zenon
  <1>4. ASSUME Own(def, g, c) PROVE Cardinality(runs) = r
    <2>1. PICK l \in 1 .. m : c = cells[l]
      BY <1>1, <1>3, <1>4, Zenon DEF Members
    <2>2. ASSUME NEW i \in 1 .. m * r PROVE p[i] = c <=> (i - 1) \div r + 1 = l
      <3>1. p[i] = cells[(i - 1) \div r + 1] /\ (i - 1) \div r + 1 \in 1 .. m
        BY <1>2, <1>3, Zenon
      <3>2. QED
        BY <1>1, <1>3, <2>1, <3>1, Zenon DEF NoDup
    <2>3. Len(p) = m * r
      BY <1>2, <1>3, Zenon
    <2>4. runs = {i \in 1 .. m * r : (i - 1) \div r + 1 = l}
      BY <2>2, <2>3, Zenon
    <2>5. runs = (l - 1) * r + 1 .. l * r /\ Cardinality((l - 1) * r + 1 .. l * r) = r
      BY <2>4, RunsOfCell, Zenon
    <2>6. QED
      BY <2>5, Zenon
  <1>5. ASSUME ~Own(def, g, c) PROVE Cardinality(runs) = 0
    <2>1. ASSUME NEW i \in 1 .. Len(p), p[i] = c PROVE FALSE
      <3>1. p[i] = cells[(i - 1) \div r + 1] /\ (i - 1) \div r + 1 \in 1 .. Len(cells)
        BY <1>2, Zenon
      <3>2. c \in Members(cells)
        BY <2>1, <3>1, Zenon DEF Members
      <3>3. QED
        BY <1>1, <1>5, <3>2
    <2>2. runs = {}
      BY <2>1, Zenon
    <2>3. QED
      BY <2>2, FS_EmptySet, Zenon
  <1>6. QED
    BY <1>4, <1>5, Zenon

\* A combination of a matrix with a compared dimension is one group's and not the
\* other's; without one it is both groups'.
LEMMA OwnOfCombo ==
    ASSUME NEW def, IsDef(def), CompareOk(def),
           \A i \in DOMAIN def.parameterise : ~Repeats(def.parameterise[i]),
           NEW c \in Combos(def, Len(def.parameterise))
    PROVE  /\ def.compare = {} => Own(def, "a", c) /\ Own(def, "b", c)
           /\ def.compare /= {} => (Own(def, "a", c) <=> ~Own(def, "b", c))
  <1> DEFINE n == Len(def.parameterise)
  <1>1. n \in Nat /\ DOMAIN def.parameterise = 1 .. n
    BY DEF IsDef, IsSeq
  <1>2. def.compare = {} => Own(def, "a", c) /\ Own(def, "b", c)
    BY DEF Own
  <1>3. ASSUME NEW dim \in def.compare PROVE Own(def, "a", c) <=> ~Own(def, "b", c)
    <2>1. \A d \in def.compare : d = dim
      BY Zenon DEF IsDef
    <2>2. PICK axis \in Axis(def, dim) : Len(axis.values) = 2
      BY Zenon DEF CompareOk
    <2>3. PICK k \in 1 .. n : def.parameterise[k].name = dim /\ axis = def.parameterise[k]
      BY <1>1, <2>2, Zenon DEF Axis
    <2>4. Axis(def, dim) = {axis}
      BY <2>3, AxisOf
    <2>5. DOMAIN axis.values = 1 .. 2
      <3>1. IsSeq(axis.values)
        BY <2>3, NextAxis
      <3>2. QED
        BY <2>2, <3>1 DEF IsSeq
    <2>6. axis.values[1] /= axis.values[2]
      <3>1. ~Repeats(axis)
        BY <1>1, <2>3, Zenon
      <3>2. 1 \in 1 .. 2 /\ 2 \in 1 .. 2 /\ 1 /= 2
        OBVIOUS
      <3>3. QED
        BY <2>5, <3>1, <3>2, Zenon DEF Repeats
    <2>7. c[dim] \in Members(axis.values)
      BY <2>3, Zenon DEF Combos
    <2>8. c[dim] = axis.values[1] \/ c[dim] = axis.values[2]
      BY <2>2, <2>7 DEF Members
    <2>9. dim \in DOMAIN c
      <3>1. c \in Cells(def, n)
        BY DEF Combos
      <3>2. dim \in Dims(def, n)
        BY <2>3, Zenon DEF Dims
      <3>3. QED
        BY <3>1, <3>2 DEF Cells
    <2>10. ASSUME NEW g PROVE Own(def, g, c) <=> c[dim] = CompareValue(axis, g)
      <3>1. ASSUME c[dim] = CompareValue(axis, g), NEW d \in def.compare, NEW x \in Axis(def, d)
            PROVE  c[d] = CompareValue(x, g)
        <4>1. d = dim
          BY <2>1
        <4>2. x = axis
          BY <2>4, <4>1
        <4>3. QED
          BY <3>1, <4>1, <4>2, Zenon
      <3>2. QED
        BY <2>2, <2>9, <3>1, Zenon DEF Own
    <2>11. CompareValue(axis, "a") = axis.values[1] /\ CompareValue(axis, "b") = axis.values[2]
      BY DEF CompareValue
    <2>12. (Own(def, "a", c) <=> c[dim] = axis.values[1]) /\ (Own(def, "b", c) <=> c[dim] = axis.values[2])
      BY <2>10, <2>11, Zenon
    <2>13. QED
      BY <2>6, <2>8, <2>12, Zenon
  <1>4. QED
    BY <1>2, <1>3, Zenon

\* The matrix, once the gate has run.
LEMMA MatrixIsRecorded ==
    ASSUME IInv
    PROVE  MatrixRecorded
  <1> DEFINE runs(g, c) == Cardinality({i \in DOMAIN files[g] : files[g][i].params = c})
  <1> SUFFICES ASSUME truth.gate = "ran",
                      \A i \in DOMAIN opts.def.parameterise : ~Repeats(opts.def.parameterise[i]),
                      NEW c \in Matrix
               PROVE  IF opts.def.compare = {} THEN \A g \in Groups : runs(g, c) = opts.repeat
                      ELSE {runs(g, c) : g \in Groups} = {0, opts.repeat}
    BY Zenon DEF MatrixRecorded
  <1>1. opts \in Options /\ Finished /\ validate(opts.def)
    BY DEF IInv, ProgressInv
  <1>2. PICK def, r : def = opts.def /\ r = opts.repeat
    BY Zenon
  <1>3. IsDef(def) /\ r \in Nat \ {0} /\ CompareOk(def)
    BY <1>1, <1>2, PlanLength DEF validate
  <1>4. c \in Combos(def, Len(def.parameterise))
    BY <1>2, <1>3, MatrixCombos, Zenon
  <1>5. \A i \in DOMAIN def.parameterise : ~Repeats(def.parameterise[i])
    BY <1>2, Zenon
  <1>6. ASSUME NEW g \in Groups
        PROVE  (Own(def, g, c) => runs(g, c) = r) /\ (~Own(def, g, c) => runs(g, c) = 0)
    <2>1. PICK p : p = plan(def, g, r)
      BY Zenon
    <2>2. Plan(g) = p
      BY <1>2, <2>1, Zenon DEF Plan
    <2>3. Len(files[g]) = Len(p)
      BY <1>1, <2>2 DEF Finished
    <2>4. DOMAIN files[g] = 1 .. Len(p) /\ \A i \in 1 .. Len(p) : files[g][i].params = p[i]
      BY <2>2, <2>3, RecordedParams, Zenon
    <2>5. {i \in DOMAIN files[g] : files[g][i].params = c} = {i \in 1 .. Len(p) : p[i] = c}
      BY <2>4, Zenon
    <2>6. /\ Own(def, g, c) => Cardinality({i \in 1 .. Len(p) : p[i] = c}) = r
          /\ ~Own(def, g, c) => Cardinality({i \in 1 .. Len(p) : p[i] = c}) = 0
      <3>1. /\ Own(def, g, c) =>
                   Cardinality({i \in 1 .. Len(plan(def, g, r)) : plan(def, g, r)[i] = c}) = r
            /\ ~Own(def, g, c) =>
                   Cardinality({i \in 1 .. Len(plan(def, g, r)) : plan(def, g, r)[i] = c}) = 0
        BY <1>3, <1>4, <1>5, PlanCounts
      <3>2. QED
        BY <2>1, <3>1, Zenon
    <2>7. QED
      BY <2>5, <2>6, Zenon
  <1>7. /\ def.compare = {} => Own(def, "a", c) /\ Own(def, "b", c)
        /\ def.compare /= {} => (Own(def, "a", c) <=> ~Own(def, "b", c))
    BY <1>3, <1>4, <1>5, OwnOfCombo, Zenon
  <1>8. CASE def.compare = {}
    <2>1. \A g \in Groups : runs(g, c) = r
      BY <1>6, <1>7, <1>8 DEF Groups
    <2>2. QED
      BY <1>2, <1>8, <2>1, Zenon
  <1>9. CASE def.compare /= {}
    <2>1. "a" \in Groups /\ "b" \in Groups /\ \A g \in Groups : g = "a" \/ g = "b"
      BY DEF Groups
    <2>2. \/ runs("a", c) = r /\ runs("b", c) = 0
          \/ runs("a", c) = 0 /\ runs("b", c) = r
      BY <1>6, <1>7, <1>9, <2>1, Zenon
    <2>3. {runs(g, c) : g \in Groups} = {0, r}
      BY <2>1, <2>2
    <2>4. QED
      BY <1>2, <1>9, <2>3, Zenon
  <1>10. QED
    BY <1>8, <1>9

\* The parameters of the two groups' runs differ in nothing but the compared dimension,
\* run by run, and when the gate has run they cover the matrix, for any axes, values and repeats.
THEOREM GroupsAreLikeForLike == Spec => []GroupsLikeForLike
  <1>1. IInv => GroupsLikeForLike
    BY RunsPaired, MatrixIsRecorded DEF GroupsLikeForLike
  <1>2. QED
    BY <1>1, Invariance, PTL

-----------------------------------------------------------------------------
(* The gate by itself (module Gate), for groups of any size, any metrics and *)
(* probes, and any signal.                                                   *)

(* The rules, read off their CASE expressions. *)

\* An A/B comparison passes exactly when its runs are admitted, something was
\* compared, and nothing compared is contaminated or regressed.
LEMMA AbPasses ==
    ASSUME NEW A, NEW B, NEW c, NEW s
    PROVE  ab(A, B, c, s) = "pass" <=>
              /\ Admitted(A, B, c)
              /\ Comparable(A, B) /= {}
              /\ \A m \in Comparable(A, B) : /\ Status(m, A, B, c, s) /= "contaminated"
                                             /\ Status(m, A, B, c, s) /= "regressed"
  <1>1. Statuses(A, B, c, s) = {} <=> Comparable(A, B) = {}
    BY DEF Statuses
  <1>2. \A x : x \in Statuses(A, B, c, s) <=>
               \E m \in Comparable(A, B) : Status(m, A, B, c, s) = x
    BY DEF Statuses
  <1>3. ab(A, B, c, s) = "pass" <=>
              /\ Admitted(A, B, c)
              /\ Statuses(A, B, c, s) /= {}
              /\ "contaminated" \notin Statuses(A, B, c, s)
              /\ "regressed" \notin Statuses(A, B, c, s)
    BY Zenon DEF ab
  <1>4. QED
    BY <1>1, <1>2, <1>3, Zenon

\* A metric that is not ignored is contaminated exactly when one group's is.
LEMMA StatusContaminated ==
    ASSUME NEW A, NEW B, NEW c, NEW s, NEW m
    PROVE  Status(m, A, B, c, s) = "contaminated" <=>
              m \notin c.ignore /\ (Contaminated(A, m) \/ Contaminated(B, m))
  BY Zenon DEF Status

\* A metric has regressed exactly when it is neither ignored nor contaminated
\* and moved the bad way.
LEMMA StatusRegressed ==
    ASSUME NEW A, NEW B, NEW c, NEW s, NEW m
    PROVE  Status(m, A, B, c, s) = "regressed" <=>
              /\ m \notin c.ignore
              /\ ~Contaminated(A, m) /\ ~Contaminated(B, m)
              /\ s[m] /= "none" /\ bad_direction(m, s[m])
  BY Zenon DEF Status

\* A metric has improved exactly when it is neither ignored nor contaminated and
\* moved the good way.
LEMMA StatusImproved ==
    ASSUME NEW A, NEW B, NEW c, NEW s, NEW m
    PROVE  Status(m, A, B, c, s) = "improved" <=>
              /\ m \notin c.ignore
              /\ ~Contaminated(A, m) /\ ~Contaminated(B, m)
              /\ s[m] /= "none" /\ ~bad_direction(m, s[m]) /\ Polarity[m] /= "unknown"
  BY Zenon DEF Status

\* An A/B comparison is an error exactly when the runs are not admitted or there
\* is nothing to compare, and otherwise contaminated when a compared metric is.
LEMMA AbRefuses ==
    ASSUME NEW A, NEW B, NEW c, NEW s
    PROVE  /\ ab(A, B, c, s) = "error" <=> ~Admitted(A, B, c) \/ Comparable(A, B) = {}
           /\ ab(A, B, c, s) = "contaminated" <=>
                 /\ Admitted(A, B, c)
                 /\ \E m \in Comparable(A, B) : Status(m, A, B, c, s) = "contaminated"
  <1>1. Statuses(A, B, c, s) = {} <=> Comparable(A, B) = {}
    BY DEF Statuses
  <1>2. "contaminated" \in Statuses(A, B, c, s) <=>
               \E m \in Comparable(A, B) : Status(m, A, B, c, s) = "contaminated"
    BY DEF Statuses
  <1>3. ab(A, B, c, s) = "error" <=> ~Admitted(A, B, c) \/ Statuses(A, B, c, s) = {}
    BY Zenon DEF ab
  <1>4. "contaminated" \in Statuses(A, B, c, s) => Statuses(A, B, c, s) /= {}
    OBVIOUS
  <1>5. ab(A, B, c, s) = "contaminated" <=>
              Admitted(A, B, c) /\ "contaminated" \in Statuses(A, B, c, s)
    BY <1>4, Zenon DEF ab
  <1>6. QED
    BY <1>1, <1>2, <1>3, <1>5, Zenon

\* The two modes that count runs pass only where the A/B comparison does; the
\* triad mode wants group B within budget as well.
LEMMA JudgePasses ==
    ASSUME NEW A, NEW B, NEW c, NEW s
    PROVE  /\ judge("ab_permutation", A, B, c, s) = "pass" <=>
                 A /= <<>> /\ B /= <<>> /\ ab(A, B, c, s) = "pass"
           /\ judge("longitudinal_drift", A, B, c, s) = "pass" <=>
                 A /= <<>> /\ B /= <<>> /\ drift(A, B, c, s) = "pass"
           /\ judge("subsystem_triad", A, B, c, s) = "pass" <=>
                 /\ A /= <<>> /\ B /= <<>> /\ ab(A, B, c, s) = "pass"
                 /\ \A i \in DOMAIN B : B[i].over = {}
  <1>1. triad(A, B, c, s) = "pass" <=>
           ab(A, B, c, s) = "pass" /\ \A i \in DOMAIN B : B[i].over = {}
    BY Zenon DEF triad
  <1>2. judge("subsystem_triad", A, B, c, s) =
           IF A = <<>> \/ B = <<>> THEN "error" ELSE triad(A, B, c, s)
    BY Zenon DEF judge
  <1>3. judge("ab_permutation", A, B, c, s) =
           IF A = <<>> \/ B = <<>> THEN "error" ELSE ab(A, B, c, s)
    BY Zenon DEF judge
  <1>4. judge("longitudinal_drift", A, B, c, s) =
           IF A = <<>> \/ B = <<>> THEN "error" ELSE drift(A, B, c, s)
    BY Zenon DEF judge
  <1>5. QED
    BY <1>1, <1>2, <1>3, <1>4, Zenon

-----------------------------------------------------------------------------
(* Observer effect. *)

\* Group X is group Y with more probes over budget: the same runs otherwise.
Dirtier(X, Y) ==
    /\ DOMAIN X = DOMAIN Y
    /\ \A i \in DOMAIN Y : /\ X[i].grade = Y[i].grade
                           /\ X[i].tenancy = Y[i].tenancy
                           /\ X[i].series = Y[i].series
                           /\ X[i].overflow = Y[i].overflow
                           /\ Y[i].over \subseteq X[i].over

\* Charging a probe over budget in one run makes the group dirtier.
LEMMA DirtyIsDirtier ==
    ASSUME NEW g, g \in [DOMAIN g -> Runs], NEW i \in DOMAIN g, NEW p \in Probes
    PROVE  Dirtier(Dirty(g, i, p), g)
  <1> DEFINE r == [g[i] EXCEPT !.over = @ \cup {p}]
  <1>1. Dirty(g, i, p) = [g EXCEPT ![i] = r]
    BY DEF Dirty
  <1>2. /\ r.grade = g[i].grade /\ r.tenancy = g[i].tenancy /\ r.series = g[i].series
        /\ r.overflow = g[i].overflow /\ g[i].over \subseteq r.over
    BY DEF Runs
  <1> HIDE DEF r
  <1>3. QED
    BY <1>1, <1>2 DEF Dirtier

\* A dirtier group has the same samples and at least the contamination.
LEMMA DirtierGroup ==
    ASSUME NEW X, NEW Y, Dirtier(X, Y), NEW m \in Metrics
    PROVE  Samples(X, m) = Samples(Y, m) /\ (Contaminated(Y, m) => Contaminated(X, m))
  <1>1. \A i \in DOMAIN Y : reduce(X[i])[m].samples = reduce(Y[i])[m].samples
    BY DEF Dirtier, reduce
  <1>2. [i \in DOMAIN X |-> reduce(X[i])[m].samples] =
        [i \in DOMAIN Y |-> reduce(Y[i])[m].samples]
    BY <1>1 DEF Dirtier
  <1>3. \A i \in DOMAIN Y : reduce(Y[i])[m].contaminated => reduce(X[i])[m].contaminated
    BY DEF Dirtier, reduce
  <1>4. QED
    BY <1>2, <1>3, Zenon DEF Samples, Contaminated, Dirtier

\* Admission reads grades and tenancies only.
LEMMA DirtierAdmitted ==
    ASSUME NEW X, NEW A, NEW Y, NEW B, NEW c, Dirtier(X, A), Dirtier(Y, B), Admitted(X, Y, c)
    PROVE  Admitted(A, B, c)
  <1>1. \A r \in RunsOf(A, B) : \E q \in RunsOf(X, Y) :
           r.grade = q.grade /\ r.tenancy = q.tenancy
    BY DEF Dirtier, RunsOf
  <1>2. QED
    BY <1>1 DEF Admitted

\* A verdict that passes with more probes over budget passes with fewer.
LEMMA DirtierPasses ==
    ASSUME NEW X, NEW A, NEW Y, NEW B, NEW c, NEW s, NEW mo \in Modes,
           Dirtier(X, A), Dirtier(Y, B), A /= <<>>, B /= <<>>,
           judge(mo, X, Y, c, s) = "pass"
    PROVE  judge(mo, A, B, c, s) = "pass"
  <1>1. Comparable(X, Y) = Comparable(A, B)
    BY DirtierGroup DEF Comparable
  <1>2. drift(X, Y, c, s) = drift(A, B, c, s)
    BY <1>1 DEF drift
  <1>3. ASSUME ab(X, Y, c, s) = "pass" PROVE ab(A, B, c, s) = "pass"
    <2>1. Admitted(A, B, c) /\ Comparable(A, B) /= {}
      BY <1>1, <1>3, AbPasses, DirtierAdmitted
    <2>2. ASSUME NEW m \in Comparable(A, B)
          PROVE  /\ Status(m, A, B, c, s) /= "contaminated"
                 /\ Status(m, A, B, c, s) /= "regressed"
      <3>1. m \in Metrics
        BY DEF Comparable
      <3>2. /\ Status(m, X, Y, c, s) /= "contaminated"
            /\ Status(m, X, Y, c, s) /= "regressed"
        BY <1>1, <1>3, AbPasses, Zenon
      <3>3. m \in c.ignore \/ (~Contaminated(X, m) /\ ~Contaminated(Y, m))
        BY <3>2, StatusContaminated, Zenon
      <3>4. m \in c.ignore \/ (~Contaminated(A, m) /\ ~Contaminated(B, m))
        <4>1. /\ Contaminated(A, m) => Contaminated(X, m)
              /\ Contaminated(B, m) => Contaminated(Y, m)
          BY <3>1, DirtierGroup
        <4>2. QED
          BY <3>3, <4>1, Zenon
      <3>5. Status(m, A, B, c, s) /= "contaminated"
        <4>1. Status(m, A, B, c, s) = "contaminated" <=>
                 m \notin c.ignore /\ (Contaminated(A, m) \/ Contaminated(B, m))
          BY StatusContaminated, Zenon
        <4>2. QED
          BY <3>4, <4>1, Zenon
      <3>6. Status(m, A, B, c, s) = "regressed" => Status(m, X, Y, c, s) = "regressed"
        <4>1. Status(m, X, Y, c, s) = "regressed" <=>
                 /\ m \notin c.ignore
                 /\ ~Contaminated(X, m) /\ ~Contaminated(Y, m)
                 /\ s[m] /= "none" /\ bad_direction(m, s[m])
          BY StatusRegressed, Zenon
        <4>2. Status(m, A, B, c, s) = "regressed" =>
                 /\ m \notin c.ignore
                 /\ s[m] /= "none" /\ bad_direction(m, s[m])
          BY StatusRegressed, Zenon
        <4>3. QED
          BY <3>3, <4>1, <4>2, Zenon
      <3>7. QED
        BY <3>2, <3>5, <3>6, Zenon
    <2>3. QED
      BY <2>1, <2>2, AbPasses
  <1>4. (\A i \in DOMAIN Y : Y[i].over = {}) => \A i \in DOMAIN B : B[i].over = {}
    BY DEF Dirtier
  <1>5. CASE mo = "ab_permutation"
    <2>1. ab(X, Y, c, s) = "pass"
      BY <1>5, JudgePasses, Zenon
    <2>2. QED
      BY <1>3, <1>5, <2>1, JudgePasses, Zenon
  <1>6. CASE mo = "longitudinal_drift"
    <2>1. drift(X, Y, c, s) = "pass"
      BY <1>6, JudgePasses, Zenon
    <2>2. QED
      BY <1>2, <1>6, <2>1, JudgePasses, Zenon
  <1>7. CASE mo = "subsystem_triad"
    <2>1. ab(X, Y, c, s) = "pass" /\ \A i \in DOMAIN Y : Y[i].over = {}
      BY <1>7, JudgePasses, Zenon
    <2>2. QED
      BY <1>3, <1>4, <1>7, <2>1, JudgePasses, Zenon
  <1>8. QED
    BY <1>5, <1>6, <1>7, Zenon DEF Modes

-----------------------------------------------------------------------------
(* Invariance. *)

\* The inputs stay as they were given, and the verdict is what judging them gives.
GateIInv ==
    /\ mode \in Modes
    /\ groupA \in [DOMAIN groupA -> Runs]
    /\ groupB \in [DOMAIN groupB -> Runs]
    /\ signal \in Signal
    /\ Judged => verdict = judge(mode, groupA, groupB, cfg, signal)

\* The gate judges once and never changes its inputs.
THEOREM GateInvariance == GateSpec => []GateIInv
  <1>1. GateInit => GateIInv
    <2> SUFFICES ASSUME GateInit PROVE GateIInv
      OBVIOUS
    <2>1. \A g \in RunGroups : g \in [DOMAIN g -> Runs]
      BY GateAssumption DEF RunGroups
    <2>2. QED
      BY <2>1 DEF GateInit, GateIInv, Judged
  <1>2. GateIInv /\ [GateNext]_gateVars => GateIInv'
    BY Zenon DEF GateIInv, GateNext, Judge, Judged, inputs, gateVars
  <1>3. QED
    BY <1>1, <1>2, PTL DEF GateSpec

\* The triage of exit codes: whatever the inputs, more observer effect in any run
\* of either group cannot turn the gate's verdict into a pass.
THEOREM DirtCannotPass == GateSpec => []DirtNeverPasses
  <1>1. GateIInv => DirtNeverPasses
    <2> SUFFICES ASSUME GateIInv, Judged, verdict /= "pass", NEW p \in Probes
                 PROVE  /\ \A i \in DOMAIN groupA :
                              judge(mode, Dirty(groupA, i, p), groupB, cfg, signal) /= "pass"
                        /\ \A i \in DOMAIN groupB :
                              judge(mode, groupA, Dirty(groupB, i, p), cfg, signal) /= "pass"
      BY DEF DirtNeverPasses
    <2>1. judge(mode, groupA, groupB, cfg, signal) /= "pass"
      BY DEF GateIInv
    <2>2. Dirtier(groupA, groupA) /\ Dirtier(groupB, groupB)
      BY DEF Dirtier
    <2>3. ASSUME NEW i \in DOMAIN groupA, judge(mode, Dirty(groupA, i, p), groupB, cfg, signal) = "pass"
          PROVE  FALSE
      <3>1. Dirtier(Dirty(groupA, i, p), groupA)
        BY DirtyIsDirtier DEF GateIInv
      <3>2. groupA /= <<>>
        OBVIOUS
      <3>3. groupB /= <<>>
        BY <2>3, Zenon DEF judge
      <3>4. QED
        BY <2>1, <2>2, <2>3, <3>1, <3>2, <3>3, DirtierPasses, Zenon DEF GateIInv
    <2>4. ASSUME NEW i \in DOMAIN groupB, judge(mode, groupA, Dirty(groupB, i, p), cfg, signal) = "pass"
          PROVE  FALSE
      <3>1. Dirtier(Dirty(groupB, i, p), groupB)
        BY DirtyIsDirtier DEF GateIInv
      <3>2. groupB /= <<>>
        OBVIOUS
      <3>3. groupA /= <<>>
        BY <2>4, Zenon DEF judge
      <3>4. QED
        BY <2>1, <2>2, <2>4, <3>1, <3>2, <3>3, DirtierPasses, Zenon DEF GateIInv
    <2>5. QED
      BY <2>3, <2>4
  <1>2. GateSpec => []GateIInv
    BY GateInvariance
  <1>3. QED
    BY <1>1, <1>2, PTL

\* Exchanging the groups changes neither admission nor what can be compared.
LEMMA Exchange ==
    ASSUME NEW A, NEW B, NEW c
    PROVE  /\ Comparable(A, B) = Comparable(B, A)
           /\ Admitted(A, B, c) <=> Admitted(B, A, c)
  <1>1. RunsOf(A, B) = RunsOf(B, A)
    BY DEF RunsOf
  <1>2. QED
    BY <1>1 DEF Comparable, Admitted

\* Reversing a change turns a bad direction of a known polarity into a good one.
LEMMA Reversal ==
    ASSUME NEW s \in Signal, NEW m \in Metrics
    PROVE  /\ Flip(s)[m] = "none" <=> s[m] = "none"
           /\ s[m] /= "none" /\ Polarity[m] /= "unknown" =>
                 (bad_direction(m, s[m]) <=> ~bad_direction(m, Flip(s)[m]))
           /\ \A way : bad_direction(m, way) => Polarity[m] /= "unknown"
  <1>1. s[m] \in {"none", "up", "down"} /\ Polarity[m] \in {"lower", "higher", "unknown"}
    BY RulesAssumption DEF Signal
  <1>2. /\ s[m] = "up" => Flip(s)[m] = "down"
        /\ s[m] = "down" => Flip(s)[m] = "up"
        /\ s[m] = "none" => Flip(s)[m] = "none"
    BY Zenon DEF Flip
  <1>3. QED
    BY <1>1, <1>2 DEF bad_direction

\* The A/B comparison treats its two groups alike, whatever their sizes.
THEOREM ComparisonIsAMirror == GateSpec => []MirrorImage
  <1>1. GateIInv => MirrorImage
    <2> DEFINE S == Flip(signal)
    <2> SUFFICES ASSUME GateIInv, Judged, mode = "ab_permutation"
                 PROVE  /\ verdict = "error" <=> judge(mode, groupB, groupA, cfg, S) = "error"
                        /\ verdict = "contaminated" <=>
                              judge(mode, groupB, groupA, cfg, S) = "contaminated"
                        /\ \A m \in Comparable(groupA, groupB) :
                              /\ Status(m, groupA, groupB, cfg, signal) = "regressed" <=>
                                    Status(m, groupB, groupA, cfg, S) = "improved"
                              /\ Status(m, groupA, groupB, cfg, signal) = "improved" <=>
                                    Status(m, groupB, groupA, cfg, S) = "regressed"
      BY DEF MirrorImage
    <2> HIDE DEF S
    <2>1. /\ verdict = IF groupA = <<>> \/ groupB = <<>> THEN "error" ELSE ab(groupA, groupB, cfg, signal)
          /\ judge(mode, groupB, groupA, cfg, S) =
                IF groupB = <<>> \/ groupA = <<>> THEN "error" ELSE ab(groupB, groupA, cfg, S)
      BY Zenon DEF GateIInv, judge
    <2>2. ASSUME NEW m
          PROVE  Status(m, groupA, groupB, cfg, signal) = "contaminated" <=>
                 Status(m, groupB, groupA, cfg, S) = "contaminated"
      <3>1. Status(m, groupA, groupB, cfg, signal) = "contaminated" <=>
               m \notin cfg.ignore /\ (Contaminated(groupA, m) \/ Contaminated(groupB, m))
        BY StatusContaminated, Zenon
      <3>2. Status(m, groupB, groupA, cfg, S) = "contaminated" <=>
               m \notin cfg.ignore /\ (Contaminated(groupB, m) \/ Contaminated(groupA, m))
        BY StatusContaminated, Zenon
      <3>3. QED
        BY <3>1, <3>2, Zenon
    <2>3. ab(groupA, groupB, cfg, signal) = "error" <=> ab(groupB, groupA, cfg, S) = "error"
      <3>1. ab(groupA, groupB, cfg, signal) = "error" <=>
               ~Admitted(groupA, groupB, cfg) \/ Comparable(groupA, groupB) = {}
        BY AbRefuses, Zenon
      <3>2. ab(groupB, groupA, cfg, S) = "error" <=>
               ~Admitted(groupB, groupA, cfg) \/ Comparable(groupB, groupA) = {}
        BY AbRefuses, Zenon
      <3>3. /\ Comparable(groupA, groupB) = Comparable(groupB, groupA)
            /\ Admitted(groupA, groupB, cfg) <=> Admitted(groupB, groupA, cfg)
        BY Exchange, Zenon
      <3>4. QED
        BY <3>1, <3>2, <3>3, Zenon
    <2>4. ab(groupA, groupB, cfg, signal) = "contaminated" <=> ab(groupB, groupA, cfg, S) = "contaminated"
      <3>1. ab(groupA, groupB, cfg, signal) = "contaminated" <=>
               /\ Admitted(groupA, groupB, cfg)
               /\ \E m \in Comparable(groupA, groupB) : Status(m, groupA, groupB, cfg, signal) = "contaminated"
        BY AbRefuses, Zenon
      <3>2. ab(groupB, groupA, cfg, S) = "contaminated" <=>
               /\ Admitted(groupB, groupA, cfg)
               /\ \E m \in Comparable(groupB, groupA) : Status(m, groupB, groupA, cfg, S) = "contaminated"
        BY AbRefuses, Zenon
      <3>3. /\ Comparable(groupA, groupB) = Comparable(groupB, groupA)
            /\ Admitted(groupA, groupB, cfg) <=> Admitted(groupB, groupA, cfg)
        BY Exchange, Zenon
      <3>4. QED
        BY <2>2, <3>1, <3>2, <3>3, Zenon
    <2>5. ASSUME NEW m \in Comparable(groupA, groupB)
          PROVE  /\ Status(m, groupA, groupB, cfg, signal) = "regressed" <=>
                       Status(m, groupB, groupA, cfg, S) = "improved"
                 /\ Status(m, groupA, groupB, cfg, signal) = "improved" <=>
                       Status(m, groupB, groupA, cfg, S) = "regressed"
      <3>1. /\ S[m] = "none" <=> signal[m] = "none"
            /\ signal[m] /= "none" /\ Polarity[m] /= "unknown" =>
                  (bad_direction(m, signal[m]) <=> ~bad_direction(m, S[m]))
            /\ bad_direction(m, signal[m]) => Polarity[m] /= "unknown"
            /\ bad_direction(m, S[m]) => Polarity[m] /= "unknown"
        BY Reversal, Zenon DEF GateIInv, S, Comparable
      <3>2. Status(m, groupA, groupB, cfg, signal) = "regressed" <=>
               Status(m, groupB, groupA, cfg, S) = "improved"
        <4>1. Status(m, groupA, groupB, cfg, signal) = "regressed" <=>
                 /\ m \notin cfg.ignore
                 /\ ~Contaminated(groupA, m) /\ ~Contaminated(groupB, m)
                 /\ signal[m] /= "none" /\ bad_direction(m, signal[m])
          BY StatusRegressed, Zenon
        <4>2. Status(m, groupB, groupA, cfg, S) = "improved" <=>
                 /\ m \notin cfg.ignore
                 /\ ~Contaminated(groupB, m) /\ ~Contaminated(groupA, m)
                 /\ S[m] /= "none" /\ ~bad_direction(m, S[m]) /\ Polarity[m] /= "unknown"
          BY StatusImproved, Zenon
        <4>3. QED
          BY <3>1, <4>1, <4>2, Zenon
      <3>3. Status(m, groupA, groupB, cfg, signal) = "improved" <=>
               Status(m, groupB, groupA, cfg, S) = "regressed"
        <4>1. Status(m, groupA, groupB, cfg, signal) = "improved" <=>
                 /\ m \notin cfg.ignore
                 /\ ~Contaminated(groupA, m) /\ ~Contaminated(groupB, m)
                 /\ signal[m] /= "none" /\ ~bad_direction(m, signal[m])
                 /\ Polarity[m] /= "unknown"
          BY StatusImproved, Zenon
        <4>2. Status(m, groupB, groupA, cfg, S) = "regressed" <=>
                 /\ m \notin cfg.ignore
                 /\ ~Contaminated(groupB, m) /\ ~Contaminated(groupA, m)
                 /\ S[m] /= "none" /\ bad_direction(m, S[m])
          BY StatusRegressed, Zenon
        <4>3. QED
          BY <3>1, <4>1, <4>2, Zenon
      <3>4. QED
        BY <3>2, <3>3
    <2>6. QED
      BY <2>1, <2>3, <2>4, <2>5, Zenon
  <1>2. GateSpec => []GateIInv
    BY GateInvariance
  <1>3. QED
    BY <1>1, <1>2, PTL

\* What a passing A/B comparison says of one metric it compared.
LEMMA AbCertifies ==
    ASSUME NEW A, NEW B, NEW c, NEW s, ab(A, B, c, s) = "pass",
           NEW m \in Comparable(A, B) \ c.ignore
    PROVE  ~bad_direction(m, s[m]) /\ ~Contaminated(A, m) /\ ~Contaminated(B, m)
  <1>1. Status(m, A, B, c, s) /= "contaminated" /\ Status(m, A, B, c, s) /= "regressed"
    BY AbPasses, Zenon
  <1>2. m \notin c.ignore
    OBVIOUS
  <1>3. ~Contaminated(A, m) /\ ~Contaminated(B, m)
    <2>1. Status(m, A, B, c, s) = "contaminated" <=>
             m \notin c.ignore /\ (Contaminated(A, m) \/ Contaminated(B, m))
      BY StatusContaminated, Zenon
    <2>2. QED
      BY <1>1, <1>2, <2>1, Zenon
  <1>4. s[m] = "none" \/ ~bad_direction(m, s[m])
    <2>1. Status(m, A, B, c, s) = "regressed" <=>
             /\ m \notin c.ignore
             /\ ~Contaminated(A, m) /\ ~Contaminated(B, m)
             /\ s[m] /= "none" /\ bad_direction(m, s[m])
      BY StatusRegressed, Zenon
    <2>2. QED
      BY <1>1, <1>2, <1>3, <2>1, Zenon
  <1>5. ~bad_direction(m, "none")
    BY DEF bad_direction
  <1>6. QED
    BY <1>3, <1>4, <1>5, Zenon

\* Exit 0 certifies the inputs in every mode: something was compared and nothing
\* compared regressed; where runs are counted they were admitted and clean.
THEOREM GatePassIsCertified == GateSpec => []PassCertifies
  <1>1. GateIInv => PassCertifies
    <2> SUFFICES ASSUME GateIInv, verdict = "pass" PROVE PassCertifies
      BY DEF PassCertifies
    <2>1. judge(mode, groupA, groupB, cfg, signal) = "pass"
      BY DEF GateIInv, Judged
    <2>2. CASE mode = "longitudinal_drift"
      <3>1. drift(groupA, groupB, cfg, signal) = "pass"
        BY <2>1, <2>2, JudgePasses, Zenon
      <3>2. /\ Comparable(groupA, groupB) \ cfg.ignore /= {}
            /\ \A m \in Comparable(groupA, groupB) \ cfg.ignore : ~bad_direction(m, signal[m])
        BY <3>1, Zenon DEF drift
      <3>3. QED
        BY <2>2, <3>2 DEF PassCertifies, CountsRuns
    <2>3. CASE mode /= "longitudinal_drift"
      <3>1. /\ ab(groupA, groupB, cfg, signal) = "pass"
            /\ mode = "subsystem_triad" => \A i \in DOMAIN groupB : groupB[i].over = {}
        <4>1. CASE mode = "ab_permutation"
          BY <2>1, <4>1, JudgePasses, Zenon
        <4>2. CASE mode = "subsystem_triad"
          BY <2>1, <4>2, JudgePasses, Zenon
        <4>3. QED
          BY <2>3, <4>1, <4>2, Zenon DEF GateIInv, Modes
      <3>2. Admitted(groupA, groupB, cfg) /\ Comparable(groupA, groupB) /= {}
        BY <3>1, AbPasses, Zenon
      <3>3. \A m \in Comparable(groupA, groupB) \ cfg.ignore :
               ~bad_direction(m, signal[m]) /\ ~Contaminated(groupA, m) /\ ~Contaminated(groupB, m)
        BY <3>1, AbCertifies, Zenon
      <3>4. QED
        BY <3>1, <3>2, <3>3, Zenon DEF PassCertifies, Admitted
    <2>4. QED
      BY <2>2, <2>3
  <1>2. GateSpec => []GateIInv
    BY GateInvariance
  <1>3. QED
    BY <1>1, <1>2, PTL

-----------------------------------------------------------------------------
(* The way of a record through OTLP (module MetricPath), for any captured    *)
(* spans and series, any sequence of exports and imports.                    *)

\* The FlattenSeq of module MetricPath is the one the lemmas above are about.
LEMMA SameFlatten == \A s : FlattenSeq(s) = FlattenSeq(s)
  BY Zenon DEF FlattenSeq, FlattenSeq

-----------------------------------------------------------------------------
(* One series through OTLP. *)

\* What a sequence of members of T is.
LEMMA MembersIn ==
    ASSUME NEW T, NEW s, IsList(s), \A i \in DOMAIN s : s[i] \in T
    PROVE  s \in Seq(T) /\ DOMAIN s = 1 .. Len(s) /\ Len(s) \in Nat
  <1>1. Len(s) \in Nat /\ s = [i \in 1 .. Len(s) |-> s[i]]
    BY DEF IsList
  <1>2. DOMAIN s = 1 .. Len(s)
    BY <1>1, Zenon
  <1>3. s \in [1 .. Len(s) -> T]
    BY <1>1, <1>2, Zenon
  <1>4. s \in Seq(T)
    BY <1>1, <1>3
  <1>5. QED
    BY <1>1, <1>2, <1>4, Zenon

\* The data of a series after a trip.
TripData(s) == IF s.kind = "histogram"
               THEN IF s.data.layout = "log2"
                    THEN [layout |-> "log2", buckets |-> s.data.buckets,
                          count |-> u64_str(s.data.count), sum |-> s.data.sum]
                    ELSE [layout |-> "explicit", buckets |-> s.data.buckets,
                          bounds |-> s.data.bounds,
                          count |-> u64_str(s.data.count), sum |-> s.data.sum]
               ELSE s.data

\* A count that was written stays as it was written.
LEMMA CountAgain == \A n : u64_str(u64_str(n)) = u64_str(n)
  BY Zenon DEF u64_str

\* A trip keeps all of a series but its labels and its overflow flag.
LEMMA ThroughIs ==
    ASSUME NEW s, IsSeries(s)
    PROVE  Through(s) = [name |-> s.name, unit |-> s.unit, source |-> s.source, key |-> s.key,
                         labels |-> NoLabels, overflow |-> FALSE, kind |-> s.kind,
                         data |-> TripData(s)]
  <1>1. CASE s.kind = "histogram" /\ s.data.layout = "log2"
    BY <1>1 DEF Through, metric_to_series, series_to_metric, histogram_body, TripData
  <1>2. CASE s.kind = "histogram" /\ s.data.layout = "explicit"
    BY <1>2 DEF Through, metric_to_series, series_to_metric, histogram_body, TripData
  <1>3. CASE s.kind = "counter"
    BY <1>3 DEF Through, metric_to_series, series_to_metric, histogram_body, TripData
  <1>4. CASE s.kind = "gauge"
    BY <1>4 DEF Through, metric_to_series, series_to_metric, histogram_body, TripData
  <1>5. QED
    BY <1>1, <1>2, <1>3, <1>4 DEF IsSeries

\* What comes back is a series again.
LEMMA ThroughIsSeries ==
    ASSUME NEW s, IsSeries(s)
    PROVE  IsSeries(Through(s))
  <1>1. PICK t : /\ t = Through(s)
                 /\ t = [name |-> s.name, unit |-> s.unit, source |-> s.source, key |-> s.key,
                         labels |-> NoLabels, overflow |-> FALSE, kind |-> s.kind,
                         data |-> TripData(s)]
    BY ThroughIs
  <1>2. t.name = s.name /\ t.kind = s.kind /\ t.data = TripData(s)
    BY <1>1
  <1>3. t.kind = "histogram" => t.data.layout \in {"log2", "explicit"}
    BY <1>2 DEF TripData
  <1>4. t = [name |-> t.name, unit |-> t.unit, kind |-> t.kind, source |-> t.source,
             key |-> t.key, labels |-> t.labels, overflow |-> t.overflow, data |-> t.data]
    BY <1>1
  <1>5. IsSeries(t)
    BY <1>2, <1>3, <1>4 DEF IsSeries
  <1>6. QED
    BY <1>1, <1>5

\* A second trip changes nothing.
LEMMA ThroughTwice ==
    ASSUME NEW s, IsSeries(s)
    PROVE  Through(Through(s)) = Through(s)
  <1>1. PICK t : /\ t = Through(s)
                 /\ t = [name |-> s.name, unit |-> s.unit, source |-> s.source, key |-> s.key,
                         labels |-> NoLabels, overflow |-> FALSE, kind |-> s.kind,
                         data |-> TripData(s)]
    BY ThroughIs
  <1>2. IsSeries(t)
    BY <1>1, ThroughIsSeries
  <1>3. Through(t) = [name |-> t.name, unit |-> t.unit, source |-> t.source, key |-> t.key,
                      labels |-> NoLabels, overflow |-> FALSE, kind |-> t.kind,
                      data |-> TripData(t)]
    BY <1>2, ThroughIs
  <1>4. t.kind = s.kind /\ t.data = TripData(s)
    BY <1>1
  <1>5. TripData(t) = t.data
    <2>1. CASE s.kind = "histogram" /\ s.data.layout = "log2"
      <3>1. PICK e : /\ e = t.data
                     /\ e = [layout |-> "log2", buckets |-> s.data.buckets,
                             count |-> u64_str(s.data.count), sum |-> s.data.sum]
        BY <1>4, <2>1 DEF TripData
      <3>2. TripData(t) = [layout |-> "log2", buckets |-> e.buckets,
                           count |-> u64_str(e.count), sum |-> e.sum]
        BY <1>4, <2>1, <3>1 DEF TripData
      <3>3. u64_str(e.count) = e.count
        BY <3>1, CountAgain
      <3>4. QED
        BY <3>1, <3>2, <3>3
    <2>2. CASE s.kind = "histogram" /\ s.data.layout /= "log2"
      <3>1. PICK e : /\ e = t.data
                     /\ e = [layout |-> "explicit", buckets |-> s.data.buckets,
                             bounds |-> s.data.bounds,
                             count |-> u64_str(s.data.count), sum |-> s.data.sum]
        BY <1>4, <2>2 DEF TripData
      <3>2. TripData(t) = [layout |-> "explicit", buckets |-> e.buckets, bounds |-> e.bounds,
                           count |-> u64_str(e.count), sum |-> e.sum]
        BY <1>4, <2>2, <3>1 DEF TripData
      <3>3. u64_str(e.count) = e.count
        BY <3>1, CountAgain
      <3>4. QED
        BY <3>1, <3>2, <3>3
    <2>3. CASE s.kind /= "histogram"
      BY <1>4, <2>3 DEF TripData
    <2>4. QED
      BY <2>1, <2>2, <2>3
  <1>6. Through(t) = t
    <2>1. t = [name |-> t.name, unit |-> t.unit, source |-> t.source, key |-> t.key,
               labels |-> NoLabels, overflow |-> FALSE, kind |-> t.kind, data |-> t.data]
      BY <1>1
    <2>2. QED
      BY <1>3, <1>5, <2>1, Zenon
  <1>7. QED
    BY <1>1, <1>6

-----------------------------------------------------------------------------
(* All series of a record through OTLP. *)

\* The metrics of the probe costs carry names of their own.
LEMMA ProbeNames ==
    ASSUME NEW run, IsList(run.costs)
    PROVE  \E P : probe_metrics(run) \in Seq(P) /\ \A m \in P : IsProbe(m.name)
  <1> DEFINE metric(name, cost) == [name |-> name, unit |-> "1", source |-> Absent,
                                    key |-> Absent,
                                    body |-> [type |-> "gauge", value |-> cost]]
             P == {metric("assayist.probe.steady_cpu_fraction", run.costs[i]) :
                      i \in DOMAIN run.costs}
                  \cup {metric("assayist.probe.run_time_ns", run.costs[i]) :
                          i \in DOMAIN run.costs}
             Q == [i \in DOMAIN run.costs |->
                     <<metric("assayist.probe.steady_cpu_fraction", run.costs[i]),
                       metric("assayist.probe.run_time_ns", run.costs[i])>>]
  <1>1. DOMAIN run.costs = 1 .. Len(run.costs) /\ Len(run.costs) \in Nat
    BY DEF IsList
  <1>2. \A m \in P : IsProbe(m.name)
    BY DEF IsProbe
  <1>3. ASSUME NEW i \in DOMAIN run.costs PROVE Q[i] \in Seq(P)
    <2>1. /\ metric("assayist.probe.steady_cpu_fraction", run.costs[i]) \in P
          /\ metric("assayist.probe.run_time_ns", run.costs[i]) \in P
      OBVIOUS
    <2> HIDE DEF P
    <2>2. QED
      BY <2>1
  <1>4. Q \in Seq(Seq(P))
    <2> HIDE DEF P
    <2>1. Q \in [1 .. Len(run.costs) -> Seq(P)]
      BY <1>1, <1>3
    <2> HIDE DEF Q
    <2>2. QED
      BY <1>1, <2>1
  <1>5. probe_metrics(run) = FlattenSeq(Q)
    BY SameFlatten, Zenon DEF probe_metrics
  <1> HIDE DEF P, Q
  <1>6. FlattenSeq(Q) \in Seq(P)
    BY <1>4, FlattenType
  <1>7. QED
    BY <1>2, <1>5, <1>6, Zenon

\* A metric has the name of its series.
LEMMA MetricName ==
    ASSUME NEW s
    PROVE  series_to_metric(s).name = s.name
  BY DEF series_to_metric

\* The importer, given the metrics of a record's series first and then any that
\* carry the names of probe metrics, pushes the series and nothing else.
LEMMA PushSeries ==
    ASSUME NEW run, SeriesInv(run), NEW P, NEW p \in Seq(P), \A m \in P : IsProbe(m.name),
           NEW d, d.metrics = [i \in DOMAIN run.series |-> series_to_metric(run.series[i])] \o p
    PROVE  import_series(d) = ThroughAll(run)
  <1> DEFINE n == Len(run.series)
             A == {series_to_metric(run.series[i]) : i \in DOMAIN run.series}
             a == [i \in DOMAIN run.series |-> series_to_metric(run.series[i])]
             Q == [i \in DOMAIN d.metrics |-> IF IsProbe(d.metrics[i].name) THEN <<>>
                                              ELSE <<metric_to_series(d.metrics[i])>>]
             T == {metric_to_series(d.metrics[i]) : i \in DOMAIN d.metrics}
  <1>1. n \in Nat /\ DOMAIN run.series = 1 .. n
    BY DEF SeriesInv, IsList
  <1>2. a \in Seq(A \cup P) /\ p \in Seq(A \cup P) /\ Len(a) = n /\ Len(p) \in Nat
    <2>1. a \in [1 .. n -> A \cup P]
      BY <1>1, Zenon
    <2> HIDE DEF A, a, n
    <2>2. QED
      BY <1>1, <2>1
  <1>3. PICK ms \in Seq(A \cup P) :
            /\ ms = d.metrics /\ Len(ms) = n + Len(p) /\ \A k \in 1 .. n : ms[k] = a[k]
            /\ \A k \in n + 1 .. n + Len(p) : ms[k] = p[k - n]
    <2> HIDE DEF A, n
    <2>1. d.metrics = a \o p
      OBVIOUS
    <2> HIDE DEF a
    <2>2. /\ a \o p \in Seq(A \cup P) /\ Len(a \o p) = Len(a) + Len(p)
          /\ \A k \in 1 .. Len(a) : (a \o p)[k] = a[k]
          /\ \A k \in Len(a) + 1 .. Len(a) + Len(p) : (a \o p)[k] = p[k - Len(a)]
      BY <1>2, ConcatenateIndex, Zenon
    <2>3. QED
      BY <1>2, <2>1, <2>2, Zenon
  <1>4. DOMAIN d.metrics = 1 .. n + Len(p) /\ n \in 0 .. n + Len(p)
    <2> HIDE DEF A, a, n
    <2>1. QED
      BY <1>1, <1>2, <1>3
  <1>5. Q \in Seq(Seq(T)) /\ Len(Q) = n + Len(p)
    <2>1. ASSUME NEW i \in DOMAIN d.metrics PROVE Q[i] \in Seq(T)
      <3>1. metric_to_series(d.metrics[i]) \in T
        OBVIOUS
      <3> HIDE DEF T
      <3>2. QED
        BY <3>1
    <2>2. Q \in [1 .. n + Len(p) -> Seq(T)]
      <3> HIDE DEF T, n
      <3>1. QED
        BY <1>4, <2>1
    <2> HIDE DEF T, Q, n
    <2>3. n + Len(p) \in Nat
      BY <1>1, <1>2
    <2>4. QED
      BY <2>2, <2>3, FunctionIsSeq, Zenon
  <1>6. ASSUME NEW i \in 1 .. n
        PROVE  Q[i] = <<Through(run.series[i])>>
    <2>1. i \in DOMAIN d.metrics /\ i \in DOMAIN run.series
      <3> HIDE DEF n
      <3>1. QED
        BY <1>1, <1>2, <1>4
    <2>2. d.metrics[i] = series_to_metric(run.series[i])
      BY <1>3, <2>1, Zenon
    <2>3. ~IsProbe(d.metrics[i].name)
      <3>1. d.metrics[i].name = run.series[i].name
        BY <2>2, MetricName, Zenon
      <3>2. QED
        BY <2>1, <3>1 DEF SeriesInv, IsSeries
    <2>4. QED
      BY <2>1, <2>2, <2>3, Zenon DEF Through
  <1>7. ASSUME NEW i \in n + 1 .. n + Len(p) PROVE Q[i] = <<>>
    <2>1. i \in DOMAIN d.metrics /\ i - n \in 1 .. Len(p)
      <3> HIDE DEF n
      <3>1. QED
        BY <1>1, <1>2, <1>4
    <2>2. d.metrics[i] = p[i - n] /\ p[i - n] \in P
      <3>1. p[i - n] \in P
        <4> HIDE DEF n
        <4>1. QED
          BY <2>1
      <3>2. QED
        BY <1>3, <3>1, Zenon
    <2>3. IsProbe(d.metrics[i].name)
      BY <2>2, Zenon
    <2>4. QED
      BY <2>1, <2>3, Zenon
  <1>8. import_series(d) = FlattenSeq(Q)
    BY SameFlatten, Zenon DEF import_series
  <1> HIDE DEF Q, T, A, a
  <1>9. PICK f : f = FlattenSeq(Q) /\ f \in Seq(T) /\ Pushed(f, Q, n)
    <2>1. \A i \in 1 .. n : Len(Q[i]) = 1
      BY <1>6, Single, Zenon
    <2>2. Pushed(FlattenSeq(Q), Q, n)
      BY <1>4, <1>5, <1>7, <2>1, FlattenSingles
    <2>3. FlattenSeq(Q) \in Seq(T)
      BY <1>5, FlattenType
    <2>4. QED
      BY <2>2, <2>3, Zenon
  <1>10. Len(f) = n /\ \A i \in 1 .. n : f[i] = Through(run.series[i])
    BY <1>6, <1>9, Single, Zenon DEF Pushed
  <1> HIDE DEF n
  <1>11. f = [i \in 1 .. n |-> Through(run.series[i])]
    BY <1>9, <1>10
  <1>12. QED
    BY <1>1, <1>8, <1>9, <1>11, Zenon DEF ThroughAll

\* So does an import of a record's own document, whatever else is exported with it.
LEMMA SeriesTrip ==
    ASSUME NEW run, SeriesInv(run), IsList(run.costs), NEW sg, sg /= "traces"
    PROVE  import_series(export(run, sg)) = ThroughAll(run)
  <1>1. PICK d : d = export(run, sg)
    OBVIOUS
  <1>2. d.metrics = [i \in DOMAIN run.series |-> series_to_metric(run.series[i])]
                    \o probe_metrics(run)
    BY <1>1, Zenon DEF export
  <1>3. PICK P : probe_metrics(run) \in Seq(P) /\ \A m \in P : IsProbe(m.name)
    BY ProbeNames, Zenon
  <1>4. import_series(d) = ThroughAll(run)
    BY <1>2, <1>3, PushSeries, Zenon
  <1>5. QED
    BY <1>1, <1>4, Zenon

\* A record that came back once comes back the same.
LEMMA SeriesTripAgain ==
    ASSUME NEW run, SeriesInv(run), NEW r, r.series = ThroughAll(run)
    PROVE  SeriesInv(r) /\ ThroughAll(r) = ThroughAll(run)
  <1>1. Len(run.series) \in Nat /\ DOMAIN run.series = 1 .. Len(run.series)
    BY DEF SeriesInv, IsList
  <1>2. DOMAIN r.series = DOMAIN run.series
    BY Zenon DEF ThroughAll
  <1>3. \A i \in DOMAIN run.series : r.series[i] = Through(run.series[i])
    BY Zenon DEF ThroughAll
  <1>4. \A i \in DOMAIN run.series : IsSeries(run.series[i])
    BY DEF SeriesInv
  <1>5. \A i \in DOMAIN run.series : IsSeries(r.series[i])
    BY <1>3, <1>4, ThroughIsSeries, Zenon
  <1>6. IsList(r.series)
    <2>1. PICK n \in Nat : n = Len(run.series)
      BY <1>1, Zenon
    <2>2. PICK q : q = r.series /\ q = [i \in 1 .. n |-> Through(run.series[i])]
      BY <1>1, <2>1, Zenon DEF ThroughAll
    <2>3. Len(q) = n
      BY <2>2
    <2>4. IsList(q)
      BY <2>1, <2>2, <2>3, Zenon DEF IsList
    <2>5. QED
      BY <2>2, <2>4, Zenon
  <1>7. \A i \in DOMAIN run.series : Through(r.series[i]) = Through(run.series[i])
    BY <1>3, <1>4, ThroughTwice, Zenon
  <1>8. ThroughAll(r) = ThroughAll(run)
    BY <1>2, <1>7, Zenon DEF ThroughAll
  <1>9. SeriesInv(r)
    BY <1>2, <1>5, <1>6, Zenon DEF SeriesInv
  <1>10. QED
    BY <1>8, <1>9
-----------------------------------------------------------------------------
(* What the gate reads from the series. *)

\* One metric of a series.
Reduced(run, s, stat, v) ==
    [id |-> <<s.name, s.key, s.labels, stat>>, value |-> v,
     contaminated |-> s.source \in overbudget_sources(run) \/ s.overflow,
     polarity |-> polarity_of(NameWords(s) \cup LabelWords(s.labels), s.unit)]

\* A series gives three metrics or one.
LEMMA ReduceIs ==
    ASSUME NEW run, NEW s
    PROVE  /\ s.kind = "histogram" =>
                 reduce_series(run, s) = <<Reduced(run, s, "mean", Estimates(s.data)[1]),
                                           Reduced(run, s, "p50", Estimates(s.data)[2]),
                                           Reduced(run, s, "p99", Estimates(s.data)[3])>>
           /\ s.kind /= "histogram" =>
                 reduce_series(run, s) = <<Reduced(run, s, "value", s.data)>>
  BY Zenon DEF reduce_series, Reduced

\* More words never make a metric less higher-better.
LEMMA MoreWords ==
    ASSUME NEW w, NEW x, w \subseteq x, NEW unit, polarity_of(w, unit) = "higher"
    PROVE  polarity_of(x, unit) = "higher"
  <1>1. "lower" /= "higher" /\ "unknown" /= "higher"
    OBVIOUS
  <1>2. w \cap {"bytes", "packets", "throughput", "iops"} /= {} \/ unit = "By"
    BY <1>1, Zenon DEF polarity_of
  <1>3. x \cap {"bytes", "packets", "throughput", "iops"} /= {} \/ unit = "By"
    BY <1>2, Zenon
  <1>4. QED
    BY <1>3, Zenon DEF polarity_of

\* Metric n, read after a trip, keeps what matters of metric m, read before it.
Same(m, n) ==
    /\ Plain(n) = Plain(m)
    /\ LabelWords(m.id[3]) = {} => n.polarity = m.polarity
    /\ n.polarity = "higher" => m.polarity = "higher"

\* What is compared of a metric does not depend on the record, nor on the trip, and its
\* direction only on the labels.
LEMMA PlainTrip ==
    ASSUME NEW r1, NEW r2, NEW s, IsSeries(s), NEW stat, NEW v
    PROVE  Same(Reduced(r1, s, stat, v), Reduced(r2, Through(s), stat, v))
  <1>1. PICK t : /\ t = Through(s) /\ t.name = s.name /\ t.key = s.key /\ t.unit = s.unit
                 /\ t.labels = NoLabels
    <2>1. PICK t : /\ t = Through(s)
                   /\ t = [name |-> s.name, unit |-> s.unit, source |-> s.source, key |-> s.key,
                           labels |-> NoLabels, overflow |-> FALSE, kind |-> s.kind,
                           data |-> TripData(s)]
      BY ThroughIs
    <2>2. t.name = s.name /\ t.key = s.key /\ t.unit = s.unit /\ t.labels = NoLabels
      BY <2>1
    <2>3. QED
      BY <2>1, <2>2
  <1>2. PICK m : m = Reduced(r1, s, stat, v)
    OBVIOUS
  <1>3. PICK n : n = Reduced(r2, t, stat, v)
    OBVIOUS
  <1>4. PICK w : w = LabelWords(s.labels)
    OBVIOUS
  <1>5. /\ Plain(m) = [id |-> <<s.name, s.key, stat>>, value |-> v]
        /\ m.id[3] = s.labels /\ m.polarity = polarity_of(NameWords(s) \cup w, s.unit)
    BY <1>2, <1>4 DEF Plain, Reduced
  <1>6. /\ Plain(n) = [id |-> <<t.name, t.key, stat>>, value |-> v]
        /\ n.polarity = polarity_of(NameWords(t) \cup LabelWords(t.labels), t.unit)
    BY <1>3 DEF Plain, Reduced
  <1>7. NameWords(t) = NameWords(s)
    BY <1>1, Zenon DEF NameWords
  <1>8. LabelWords(NoLabels) = {}
    <2>1. DOMAIN NoLabels = {}
      BY Zenon DEF NoLabels
    <2>2. QED
      BY <2>1, Zenon DEF LabelWords
  <1>9. n.polarity = polarity_of(NameWords(s), s.unit)
    <2>1. NameWords(s) \cup {} = NameWords(s)
      BY Zenon
    <2>2. QED
      BY <1>1, <1>6, <1>7, <1>8, <2>1, Zenon
  <1>10. Plain(n) = Plain(m)
    BY <1>1, <1>5, <1>6, Zenon
  <1>11. ASSUME LabelWords(m.id[3]) = {} PROVE n.polarity = m.polarity
    <2>1. w = {}
      BY <1>4, <1>5, <1>11, Zenon
    <2>2. NameWords(s) \cup w = NameWords(s)
      BY <2>1, Zenon
    <2>3. QED
      BY <1>5, <1>9, <2>2, Zenon
  <1>12. ASSUME n.polarity = "higher" PROVE m.polarity = "higher"
    <2>1. PICK few : few = NameWords(s)
      OBVIOUS
    <2>2. PICK more : more = few \cup w
      OBVIOUS
    <2>3. PICK unit : unit = s.unit
      OBVIOUS
    <2>4. few \subseteq more
      BY <2>2, Zenon
    <2>5. polarity_of(few, unit) = "higher"
      BY <1>9, <1>12, <2>1, <2>3, Zenon
    <2>6. polarity_of(more, unit) = "higher"
      BY <2>4, <2>5, MoreWords
    <2>7. QED
      BY <1>5, <2>1, <2>2, <2>3, <2>6, Zenon
  <1>13. Same(m, n)
    BY <1>10, <1>11, <1>12, Zenon DEF Same
  <1>14. QED
    BY <1>1, <1>2, <1>3, <1>13, Zenon

\* The mean of a log2 histogram is not moved by a count that was missing.
LEMMA MeanTrip ==
    ASSUME NEW sum, NEW n, NEW x, NEW y, NEW z, z = u64_str(n)
    PROVE  (IF sum /= Absent /\ z /= Absent /\ z > 0 THEN x ELSE y)
             = (IF sum /= Absent /\ n /= Absent /\ n > 0 THEN x ELSE y)
  <1>1. CASE n = Absent
    <2>1. z = 0 /\ ~(z > 0)
      BY <1>1 DEF u64_str
    <2>2. QED
      BY <1>1, <2>1, Zenon
  <1>2. CASE n /= Absent
    <2>1. z = n
      BY <1>2, Zenon DEF u64_str
    <2>2. QED
      BY <2>1, Zenon
  <1>3. QED
    BY <1>1, <1>2

\* The estimates of a histogram are those of its buckets and bounds, sum and count.
LEMMA EstimatesTrip ==
    ASSUME NEW s, IsSeries(s), s.kind = "histogram"
    PROVE  Estimates(TripData(s)) = Estimates(s.data)
  <1>1. CASE s.data.layout = "log2"
    <2>1. PICK e : /\ e = TripData(s) /\ e.layout = "log2" /\ e.buckets = s.data.buckets
                   /\ e.count = u64_str(s.data.count) /\ e.sum = s.data.sum
      <3>1. PICK e : e = [layout |-> "log2", buckets |-> s.data.buckets,
                          count |-> u64_str(s.data.count), sum |-> s.data.sum]
        OBVIOUS
      <3>2. /\ e.layout = "log2" /\ e.buckets = s.data.buckets
            /\ e.count = u64_str(s.data.count) /\ e.sum = s.data.sum
        BY <3>1
      <3>3. e = TripData(s)
        BY <1>1, <3>1, Zenon DEF TripData
      <3>4. QED
        BY <3>2, <3>3
    <2>2. PICK d : d = s.data
      OBVIOUS
    <2>3. PICK x : x = exact_mean(d.sum, d.count)
      OBVIOUS
    <2>4. PICK y : y = log2_mean(d.buckets)
      OBVIOUS
    <2>5. (IF d.sum /= Absent /\ e.count /= Absent /\ e.count > 0 THEN x ELSE y)
            = (IF d.sum /= Absent /\ d.count /= Absent /\ d.count > 0 THEN x ELSE y)
      <3>1. PICK n : n = d.count
        OBVIOUS
      <3>2. PICK z : z = e.count
        OBVIOUS
      <3>3. PICK sum : sum = d.sum
        OBVIOUS
      <3>4. z = u64_str(n)
        BY <2>1, <2>2, <3>1, <3>2, Zenon
      <3>5. (IF sum /= Absent /\ z /= Absent /\ z > 0 THEN x ELSE y)
              = (IF sum /= Absent /\ n /= Absent /\ n > 0 THEN x ELSE y)
        BY <3>4, MeanTrip, Zenon
      <3>6. QED
        BY <3>1, <3>2, <3>3, <3>5, Zenon
    <2>6. "log2" /= "explicit"
      OBVIOUS
    <2>7. Estimates(d) = <<IF d.sum /= Absent /\ d.count /= Absent /\ d.count > 0 THEN x ELSE y,
                           log2_percentile(d.buckets, 50), log2_percentile(d.buckets, 99)>>
      BY <1>1, <2>2, <2>3, <2>4, <2>6, Zenon DEF Estimates
    <2>8. Estimates(e) = <<IF d.sum /= Absent /\ e.count /= Absent /\ e.count > 0 THEN x ELSE y,
                           log2_percentile(d.buckets, 50), log2_percentile(d.buckets, 99)>>
      <3>1. e.layout /= "explicit" /\ e.buckets = d.buckets /\ e.sum = d.sum
        BY <2>1, <2>2, <2>6, Zenon
      <3>2. Estimates(e) = <<IF d.sum /= Absent /\ e.count /= Absent /\ e.count > 0
                               THEN exact_mean(d.sum, e.count) ELSE y,
                             log2_percentile(d.buckets, 50), log2_percentile(d.buckets, 99)>>
        BY <2>4, <3>1, Zenon DEF Estimates
      <3>3. e.count /= Absent /\ e.count > 0 => e.count = d.count
        BY <2>1, <2>2 DEF u64_str
      <3>4. QED
        BY <2>3, <3>2, <3>3, Zenon
    <2>9. Estimates(e) = Estimates(s.data)
      BY <2>2, <2>5, <2>7, <2>8, Zenon
    <2>10. QED
      BY <2>1, <2>9, Zenon
  <1>2. CASE s.data.layout = "explicit"
    <2>1. PICK e : /\ e = TripData(s) /\ e.layout = "explicit" /\ e.buckets = s.data.buckets
                   /\ e.bounds = s.data.bounds
      <3>1. PICK e : e = [layout |-> "explicit", buckets |-> s.data.buckets,
                          bounds |-> s.data.bounds,
                          count |-> u64_str(s.data.count), sum |-> s.data.sum]
        OBVIOUS
      <3>2. e.layout = "explicit" /\ e.buckets = s.data.buckets /\ e.bounds = s.data.bounds
        BY <3>1
      <3>3. e = TripData(s)
        <4>1. "explicit" /= "log2"
          OBVIOUS
        <4>2. QED
          BY <1>2, <3>1, <4>1, Zenon DEF TripData
      <3>4. QED
        BY <3>2, <3>3
    <2>2. Estimates(e) = Estimates(s.data)
      BY <1>2, <2>1, Zenon DEF Estimates
    <2>3. QED
      BY <2>1, <2>2, Zenon
  <1>3. QED
    BY <1>1, <1>2 DEF IsSeries

\* Alike triples.
LEMMA AlikeThree ==
    ASSUME NEW R, NEW a, NEW b, NEW c, NEW x, NEW y, NEW z,
           <<a, x>> \in R, <<b, y>> \in R, <<c, z>> \in R
    PROVE  Alike(<<a, b, c>>, <<x, y, z>>, R)
  <1>1. Len(<<a, b, c>>) = 3 /\ Len(<<x, y, z>>) = 3
    OBVIOUS
  <1>2. ASSUME NEW k \in 1 .. 3 PROVE <<<<a, b, c>>[k], <<x, y, z>>[k]>> \in R
    <2>1. k = 1 \/ k = 2 \/ k = 3
      OBVIOUS
    <2>2. CASE k = 1
      BY <2>2
    <2>3. CASE k = 2
      BY <2>3
    <2>4. CASE k = 3
      BY <2>4
    <2>5. QED
      BY <2>1, <2>2, <2>3, <2>4
  <1>3. QED
    BY <1>1, <1>2, Zenon DEF Alike

\* The metrics of one series, in order.
Gauges(run, s) == {Reduced(run, s, "mean", Estimates(s.data)[1]),
                   Reduced(run, s, "p50", Estimates(s.data)[2]),
                   Reduced(run, s, "p99", Estimates(s.data)[3]),
                   Reduced(run, s, "value", s.data)}

\* The gate reduces a series to a sequence of its metrics.
LEMMA ReduceType ==
    ASSUME NEW run, NEW s, NEW A, Gauges(run, s) \subseteq A
    PROVE  reduce_series(run, s) \in Seq(A)
  <1>1. PICK a \in A : a = Reduced(run, s, "mean", Estimates(s.data)[1])
    BY Zenon DEF Gauges
  <1>2. PICK b \in A : b = Reduced(run, s, "p50", Estimates(s.data)[2])
    BY Zenon DEF Gauges
  <1>3. PICK c \in A : c = Reduced(run, s, "p99", Estimates(s.data)[3])
    BY Zenon DEF Gauges
  <1>4. PICK d \in A : d = Reduced(run, s, "value", s.data)
    BY Zenon DEF Gauges
  <1>5. <<a, b, c>> \in Seq(A) /\ <<d>> \in Seq(A)
    OBVIOUS
  <1>6. QED
    BY <1>1, <1>2, <1>3, <1>4, <1>5, ReduceIs, Zenon

\* The metrics of a series before and after a trip are the same, place by place.
LEMMA ReduceTrip ==
    ASSUME NEW r1, NEW r2, NEW s, IsSeries(s), NEW R,
           \A a \in Gauges(r1, s) : \A b \in Gauges(r2, Through(s)) :
               Same(a, b) => <<a, b>> \in R
    PROVE  Alike(reduce_series(r1, s), reduce_series(r2, Through(s)), R)
  <1>1. PICK t : /\ t = Through(s) /\ t.kind = s.kind /\ t.data = TripData(s)
    <2>1. PICK t : /\ t = Through(s)
                   /\ t = [name |-> s.name, unit |-> s.unit, source |-> s.source, key |-> s.key,
                           labels |-> NoLabels, overflow |-> FALSE, kind |-> s.kind,
                           data |-> TripData(s)]
      BY ThroughIs
    <2>2. t.kind = s.kind /\ t.data = TripData(s)
      BY <2>1
    <2>3. QED
      BY <2>1, <2>2
  <1>2. ASSUME NEW stat, NEW v, Reduced(r1, s, stat, v) \in Gauges(r1, s),
               Reduced(r2, t, stat, v) \in Gauges(r2, t)
        PROVE  <<Reduced(r1, s, stat, v), Reduced(r2, t, stat, v)>> \in R
    <2>1. \A a \in Gauges(r1, s) : \A b \in Gauges(r2, t) :
              Same(a, b) => <<a, b>> \in R
      BY <1>1, Zenon
    <2>2. Same(Reduced(r1, s, stat, v), Reduced(r2, Through(s), stat, v))
      BY PlainTrip
    <2>3. Same(Reduced(r1, s, stat, v), Reduced(r2, t, stat, v))
      BY <1>1, <2>2, Zenon
    <2>4. QED
      BY <1>2, <2>1, <2>3, Zenon
  <1>3. CASE s.kind = "histogram"
    <2>1. Estimates(t.data) = Estimates(s.data)
      BY <1>1, <1>3, EstimatesTrip, Zenon
    <2>2. <<Reduced(r1, s, "mean", Estimates(s.data)[1]),
            Reduced(r2, t, "mean", Estimates(t.data)[1])>> \in R
      <3>1. /\ Reduced(r1, s, "mean", Estimates(s.data)[1]) \in Gauges(r1, s)
            /\ Reduced(r2, t, "mean", Estimates(s.data)[1]) \in Gauges(r2, t)
        BY <2>1, Zenon DEF Gauges
      <3>2. QED
        BY <1>2, <2>1, <3>1, Zenon
    <2>3. <<Reduced(r1, s, "p50", Estimates(s.data)[2]),
            Reduced(r2, t, "p50", Estimates(t.data)[2])>> \in R
      <3>1. /\ Reduced(r1, s, "p50", Estimates(s.data)[2]) \in Gauges(r1, s)
            /\ Reduced(r2, t, "p50", Estimates(s.data)[2]) \in Gauges(r2, t)
        BY <2>1, Zenon DEF Gauges
      <3>2. QED
        BY <1>2, <2>1, <3>1, Zenon
    <2>4. <<Reduced(r1, s, "p99", Estimates(s.data)[3]),
            Reduced(r2, t, "p99", Estimates(t.data)[3])>> \in R
      <3>1. /\ Reduced(r1, s, "p99", Estimates(s.data)[3]) \in Gauges(r1, s)
            /\ Reduced(r2, t, "p99", Estimates(s.data)[3]) \in Gauges(r2, t)
        BY <2>1, Zenon DEF Gauges
      <3>2. QED
        BY <1>2, <2>1, <3>1, Zenon
    <2>5. QED
      BY <1>1, <1>3, <2>2, <2>3, <2>4, ReduceIs, AlikeThree, Zenon
  <1>4. CASE s.kind /= "histogram"
    <2>1. t.data = s.data
      BY <1>1, <1>4, Zenon DEF TripData
    <2>2. <<Reduced(r1, s, "value", s.data), Reduced(r2, t, "value", t.data)>> \in R
      <3>1. /\ Reduced(r1, s, "value", s.data) \in Gauges(r1, s)
            /\ Reduced(r2, t, "value", s.data) \in Gauges(r2, t)
        BY <2>1, Zenon DEF Gauges
      <3>2. QED
        BY <1>2, <2>1, <3>1, Zenon
    <2>3. QED
      BY <1>1, <1>4, <2>2, ReduceIs, AlikeOne, Zenon
  <1>5. QED
    BY <1>3, <1>4

\* The gate reads the same metrics from a record that came back.
LEMMA PlainKept ==
    ASSUME NEW run, SeriesInv(run), NEW r, r.series = ThroughAll(run)
    PROVE  /\ DOMAIN SeriesMetrics(r) = DOMAIN SeriesMetrics(run)
           /\ \A i \in DOMAIN SeriesMetrics(run) :
                 Same(SeriesMetrics(run)[i], SeriesMetrics(r)[i])
  <1> DEFINE s == [i \in DOMAIN run.series |-> reduce_series(run, run.series[i])]
             t == [i \in DOMAIN r.series |-> reduce_series(r, r.series[i])]
             A == UNION {Gauges(run, run.series[i]) : i \in DOMAIN run.series}
             B == UNION {Gauges(r, r.series[i]) : i \in DOMAIN run.series}
             R == {q \in A \X B : Same(q[1], q[2])}
  <1>1. PICK n \in Nat : n = Len(run.series) /\ DOMAIN run.series = 1 .. n
    <2>1. Len(run.series) \in Nat /\ DOMAIN run.series = 1 .. Len(run.series)
      BY DEF SeriesInv, IsList
    <2>2. QED
      BY <2>1, Zenon
  <1>2. DOMAIN r.series = 1 .. n /\ \A i \in 1 .. n : r.series[i] = Through(run.series[i])
    BY <1>1, Zenon DEF ThroughAll
  <1>3. \A a \in A : \A b \in B : Same(a, b) => <<a, b>> \in R
    <2> HIDE DEF A, B
    <2> QED
      OBVIOUS
  <1>4. \A a, b : <<a, b>> \in R => Same(a, b)
    <2> HIDE DEF A, B
    <2> QED
      OBVIOUS
  <1> HIDE DEF R
  <1>5. s \in Seq(Seq(A)) /\ Len(s) = n
    <2>1. ASSUME NEW i \in 1 .. n PROVE s[i] \in Seq(A)
      <3>1. s[i] = reduce_series(run, run.series[i])
        BY <1>1, Zenon
      <3>2. Gauges(run, run.series[i]) \subseteq A
        BY <1>1, Zenon
      <3> HIDE DEF s, A
      <3>3. QED
        BY <3>1, <3>2, ReduceType, Zenon
    <2>2. s \in [1 .. n -> Seq(A)]
      <3>1. s = [i \in 1 .. n |-> s[i]]
        BY <1>1, Zenon
      <3> HIDE DEF s, A
      <3>2. QED
        BY <2>1, <3>1, Zenon
    <2> HIDE DEF s, A
    <2>3. QED
      BY <2>2, FunctionIsSeq
  <1>6. t \in Seq(Seq(B)) /\ Len(t) = n
    <2>1. ASSUME NEW i \in 1 .. n PROVE t[i] \in Seq(B)
      <3>1. t[i] = reduce_series(r, r.series[i])
        BY <1>1, <1>2, Zenon
      <3>2. Gauges(r, r.series[i]) \subseteq B
        BY <1>1, Zenon
      <3> HIDE DEF t, B
      <3>3. QED
        BY <3>1, <3>2, ReduceType, Zenon
    <2>2. t \in [1 .. n -> Seq(B)]
      <3>1. t = [i \in 1 .. n |-> t[i]]
        BY <1>2, Zenon
      <3> HIDE DEF t, B
      <3>2. QED
        BY <2>1, <3>1, Zenon
    <2> HIDE DEF t, B
    <2>3. QED
      BY <2>2, FunctionIsSeq
  <1>7. ASSUME NEW i \in 1 .. n PROVE Alike(s[i], t[i], R)
    <2>1. IsSeries(run.series[i]) /\ r.series[i] = Through(run.series[i])
      BY <1>1, <1>2, Zenon DEF SeriesInv
    <2>2. Gauges(run, run.series[i]) \subseteq A /\ Gauges(r, r.series[i]) \subseteq B
      BY <1>1, Zenon
    <2>3. s[i] = reduce_series(run, run.series[i]) /\ t[i] = reduce_series(r, r.series[i])
      BY <1>1, <1>2, Zenon
    <2> HIDE DEF s, t, A, B
    <2>4. Alike(reduce_series(run, run.series[i]), reduce_series(r, r.series[i]), R)
      BY <1>3, <2>1, <2>2, ReduceTrip, Zenon
    <2>5. QED
      BY <2>3, <2>4, Zenon
  <1>8. SeriesMetrics(run) = FlattenSeq(s) /\ SeriesMetrics(r) = FlattenSeq(t)
    BY SameFlatten, Zenon DEF SeriesMetrics
  <1> HIDE DEF s, t, A, B
  <1>9. Alike(FlattenSeq(s), FlattenSeq(t), R)
    BY <1>5, <1>6, <1>7, AlikeFlatten
  <1>10. PICK x \in Seq(A) : x = SeriesMetrics(run)
    BY <1>5, <1>8, FlattenType, Zenon
  <1>11. PICK y \in Seq(B) : y = SeriesMetrics(r)
    BY <1>6, <1>8, FlattenType, Zenon
  <1>12. Len(x) = Len(y) /\ \A k \in 1 .. Len(x) : Same(x[k], y[k])
    <2>1. Alike(x, y, R)
      BY <1>8, <1>9, <1>10, <1>11, Zenon
    <2>2. QED
      BY <1>4, <2>1, Zenon DEF Alike
  <1>13. DOMAIN x = 1 .. Len(x) /\ DOMAIN y = 1 .. Len(y)
    OBVIOUS
  <1>14. QED
    BY <1>10, <1>11, <1>12, <1>13, Zenon

-----------------------------------------------------------------------------
(* The spans of a record through OTLP. *)

\* One exported span, and the name the importer finds for a span id.
SpanOut(run, i) ==
    [traceId |-> run.run_id, spanId |-> span_id(run.run_id, run.spans[i].name, i),
     parentSpanId |-> ParentId(run, run.spans[i].parent),
     name |-> run.spans[i].name, start |-> run.spans[i].start, end |-> run.spans[i].end]
NameById(d, id) ==
    LET named == {i \in DOMAIN d.spans : d.spans[i].spanId = id}
    IN IF named = {} THEN Absent ELSE d.spans[CHOOSE i \in named : TRUE].name

\* A parent that is named exists, and the first of that name is the one exported.
LEMMA ParentIs ==
    ASSUME NEW run, SpansInv(run), NEW p
    PROVE  \/ /\ ~\E i \in DOMAIN run.spans : run.spans[i].name = p
              /\ ParentId(run, p) = Absent
           \/ \E i \in DOMAIN run.spans : /\ run.spans[i].name = p
                                          /\ ParentId(run, p) = span_id(run.run_id, p, i)
  <1> DEFINE named == {i \in DOMAIN run.spans : run.spans[i].name = p}
             first == CHOOSE i \in named : \A j \in named : i <= j
  <1>1. CASE named = {}
    <2>1. ParentId(run, p) = Absent
      BY <1>1, Zenon DEF ParentId
    <2>2. QED
      BY <1>1, <2>1, Zenon
  <1>2. CASE named /= {}
    <2>1. named \subseteq Nat
      <3>1. DOMAIN run.spans = 1 .. Len(run.spans) /\ Len(run.spans) \in Nat
        BY DEF SpansInv, IsList
      <3>2. QED
        BY <3>1
    <2>2. ParentId(run, p) = span_id(run.run_id, p, first)
      BY <1>2, Zenon DEF ParentId
    <2>3. \E i \in named : \A j \in named : i <= j
      <3> HIDE DEF named
      <3>1. QED
        BY <1>2, <2>1, NatMin
    <2>4. first \in named
      <3> HIDE DEF named
      <3>1. QED
        BY <2>3, Zenon
    <2> HIDE DEF first
    <2>5. first \in DOMAIN run.spans /\ run.spans[first].name = p
      BY <2>4, Zenon
    <2>6. QED
      BY <2>2, <2>5, Zenon
  <1>3. QED
    BY <1>1, <1>2, Zenon

\* Two span ids are one only for one place and one name.
LEMMA SpanIdInjective ==
    ASSUME NEW r, NEW a, NEW i, NEW b, NEW j, span_id(r, a, i) = span_id(r, b, j)
    PROVE  a = b /\ i = j
  BY DEF span_id

\* The importer finds the parent's name again, or none if there was none.
LEMMA ParentFound ==
    ASSUME NEW run, SpansInv(run), run.spans /= <<>>, NEW d,
           d.spans = [i \in DOMAIN run.spans |-> SpanOut(run, i)], NEW p
    PROVE  NameById(d, ParentId(run, p)) = KnownParent(run, p)
  <1>1. DOMAIN d.spans = DOMAIN run.spans
    BY Zenon
  <1>2. ASSUME NEW i \in DOMAIN run.spans
        PROVE  /\ d.spans[i].spanId = span_id(run.run_id, run.spans[i].name, i)
               /\ d.spans[i].name = run.spans[i].name
    <2>1. PICK o : o = SpanOut(run, i) /\ d.spans[i] = o
      BY Zenon
    <2>2. /\ o.spanId = span_id(run.run_id, run.spans[i].name, i)
          /\ o.name = run.spans[i].name
      BY <2>1 DEF SpanOut
    <2>3. QED
      BY <2>1, <2>2, Zenon
  <1>3. run.run_id = "run"
    BY Zenon DEF SpansInv
  <1> DEFINE named == {i \in DOMAIN d.spans : d.spans[i].spanId = ParentId(run, p)}
  <1>4. CASE /\ ~\E i \in DOMAIN run.spans : run.spans[i].name = p
             /\ ParentId(run, p) = Absent
    <2>1. \A i \in DOMAIN run.spans : span_id("run", run.spans[i].name, i) /= Absent
      BY DEF SpansInv, IsSpan
    <2>2. \A i \in DOMAIN d.spans : d.spans[i].spanId /= ParentId(run, p)
      BY <1>1, <1>2, <1>3, <1>4, <2>1, Zenon
    <2>3. named = {}
      BY <2>2, Zenon
    <2>4. NameById(d, ParentId(run, p)) = Absent
      BY <2>3, Zenon DEF NameById
    <2>5. QED
      BY <1>4, <2>4, Zenon DEF KnownParent
  <1>5. ASSUME NEW i \in DOMAIN run.spans, run.spans[i].name = p,
               ParentId(run, p) = span_id(run.run_id, p, i)
        PROVE  NameById(d, ParentId(run, p)) = KnownParent(run, p)
    <2>1. i \in named
      BY <1>1, <1>2, <1>5, Zenon
    <2>2. (CHOOSE j \in named : TRUE) \in named
      <3> HIDE DEF named
      <3>1. QED
        BY <2>1, Zenon
    <2>3. PICK j \in named : j = CHOOSE k \in named : TRUE
      BY <2>2, Zenon
    <2>4. j \in DOMAIN run.spans /\ d.spans[j].spanId = span_id(run.run_id, p, i)
      BY <1>1, <1>5, <2>3, Zenon
    <2>5. span_id(run.run_id, run.spans[j].name, j) = span_id(run.run_id, p, i)
      BY <1>2, <2>4, Zenon
    <2>6. run.spans[j].name = p
      BY <2>5, SpanIdInjective
    <2>7. d.spans[j].name = p
      BY <1>2, <2>4, <2>6, Zenon
    <2>8. NameById(d, ParentId(run, p)) = d.spans[j].name
      BY <2>1, <2>3, Zenon DEF NameById
    <2>9. QED
      BY <1>5, <2>7, <2>8, Zenon DEF KnownParent
  <1>6. \/ /\ ~\E i \in DOMAIN run.spans : run.spans[i].name = p
           /\ ParentId(run, p) = Absent
        \/ \E i \in DOMAIN run.spans : /\ run.spans[i].name = p
                                       /\ ParentId(run, p) = span_id(run.run_id, p, i)
    BY ParentIs
  <1>7. QED
    BY <1>4, <1>5, <1>6, Zenon

\* So the importer gives back the spans, each under the parent it named.
LEMMA SpansTrip ==
    ASSUME NEW run, SpansInv(run), NEW sg, sg /= "metrics"
    PROVE  /\ import_spans(export(run, sg)) = Rooted(run)
           /\ run.spans /= <<>> => import(export(run, sg)).run_id = run.run_id
  <1>1. PICK d : d = export(run, sg)
    OBVIOUS
  <1>2. d.spans = [i \in DOMAIN run.spans |-> SpanOut(run, i)]
    BY <1>1, Zenon DEF export, spans, SpanOut
  <1>3. DOMAIN d.spans = DOMAIN run.spans
    BY <1>2, Zenon
  <1>4. ASSUME NEW i \in DOMAIN run.spans
        PROVE  [name |-> d.spans[i].name, parent |-> NameById(d, d.spans[i].parentSpanId),
                start |-> d.spans[i].start, end |-> d.spans[i].end]
               = [run.spans[i] EXCEPT !.parent = KnownParent(run, @)]
    <2>1. run.spans /= <<>>
      BY <1>4 
    <2>2. PICK o : o = SpanOut(run, i) /\ d.spans[i] = o
      BY <1>2, Zenon
    <2>3. /\ o.parentSpanId = ParentId(run, run.spans[i].parent) /\ o.name = run.spans[i].name
          /\ o.start = run.spans[i].start /\ o.end = run.spans[i].end
      BY <2>2 DEF SpanOut
    <2>4. NameById(d, o.parentSpanId) = KnownParent(run, run.spans[i].parent)
      <3>1. NameById(d, ParentId(run, run.spans[i].parent))
            = KnownParent(run, run.spans[i].parent)
        BY <1>2, <2>1, ParentFound
      <3>2. QED
        BY <2>3, <3>1, Zenon
    <2>5. PICK s : /\ s = run.spans[i]
                   /\ s = [name |-> s.name, parent |-> s.parent, start |-> s.start, end |-> s.end]
      BY Zenon DEF SpansInv, IsSpan
    <2>6. PICK k : k = KnownParent(run, s.parent)
      OBVIOUS
    <2>7. [s EXCEPT !.parent = k] = [name |-> s.name, parent |-> k, start |-> s.start,
                                     end |-> s.end]
      BY <2>5
    <2>8. [run.spans[i] EXCEPT !.parent = KnownParent(run, @)] = [s EXCEPT !.parent = k]
      BY <2>5, <2>6, Zenon
    <2>9. QED
      BY <2>2, <2>3, <2>4, <2>5, <2>6, <2>7, <2>8, Zenon
  <1>5. import_spans(d) = [i \in DOMAIN d.spans |->
                              [name |-> d.spans[i].name,
                               parent |-> NameById(d, d.spans[i].parentSpanId),
                               start |-> d.spans[i].start, end |-> d.spans[i].end]]
    BY Zenon DEF import_spans, NameById
  <1>6. import_spans(d) = Rooted(run)
    BY <1>3, <1>4, <1>5, Zenon DEF Rooted
  <1>7. ASSUME run.spans /= <<>> PROVE import(d).run_id = run.run_id
    <2>1. 1 \in DOMAIN run.spans
      BY <1>7 DEF SpansInv, IsList
    <2>2. d.spans /= <<>>
      BY <1>3, <2>1
    <2>3. PICK o : o = SpanOut(run, 1) /\ d.spans[1] = o
      BY <1>2, <2>1, Zenon
    <2>4. o.traceId = run.run_id
      BY <2>3 DEF SpanOut
    <2>5. import(d).run_id = d.spans[1].traceId
      BY <2>2 DEF import
    <2>6. QED
      BY <2>3, <2>4, <2>5, Zenon
  <1>8. QED
    BY <1>1, <1>6, <1>7, Zenon

\* A second trip finds the same parents.
LEMMA SpansTripAgain ==
    ASSUME NEW run, SpansInv(run), NEW r, r.spans = Rooted(run),
           run.spans /= <<>> => r.run_id = run.run_id
    PROVE  SpansInv(r) /\ Rooted(r) = Rooted(run)
  <1>1. Len(run.spans) \in Nat /\ DOMAIN run.spans = 1 .. Len(run.spans)
    BY DEF SpansInv, IsList
  <1>2. DOMAIN r.spans = DOMAIN run.spans
    BY Zenon DEF Rooted
  <1>3. ASSUME NEW i \in DOMAIN run.spans
        PROVE  \E s : /\ s = r.spans[i]
                      /\ s = [name |-> s.name, parent |-> s.parent, start |-> s.start,
                              end |-> s.end]
                      /\ s.name = run.spans[i].name
                      /\ s.parent = KnownParent(run, run.spans[i].parent)
    <2>1. PICK o : /\ o = run.spans[i]
                   /\ o = [name |-> o.name, parent |-> o.parent, start |-> o.start, end |-> o.end]
      BY Zenon DEF SpansInv, IsSpan
    <2>2. PICK k : k = KnownParent(run, o.parent)
      OBVIOUS
    <2>3. r.spans[i] = [o EXCEPT !.parent = k]
      BY <2>1, <2>2, Zenon DEF Rooted
    <2>4. PICK s : s = [name |-> o.name, parent |-> k, start |-> o.start, end |-> o.end]
      OBVIOUS
    <2>5. [o EXCEPT !.parent = k] = s
      BY <2>1, <2>4
    <2>6. /\ s = [name |-> s.name, parent |-> s.parent, start |-> s.start, end |-> s.end]
          /\ s.name = o.name /\ s.parent = k
      BY <2>4
    <2>7. QED
      BY <2>1, <2>2, <2>3, <2>5, <2>6, Zenon
  <1>4. \A i \in DOMAIN run.spans : /\ r.spans[i].name = run.spans[i].name
                                    /\ r.spans[i].parent = KnownParent(run, run.spans[i].parent)
    BY <1>3, Zenon
  <1>5. \A p : KnownParent(r, p) = KnownParent(run, p)
    BY <1>2, <1>4, Zenon DEF KnownParent
  <1>6. \A p : KnownParent(run, KnownParent(run, p)) = KnownParent(run, p)
    BY Zenon DEF KnownParent
  <1>7. ASSUME NEW i \in DOMAIN run.spans
        PROVE  [r.spans[i] EXCEPT !.parent = KnownParent(r, @)] = r.spans[i]
    <2>1. PICK s : /\ s = r.spans[i]
                   /\ s = [name |-> s.name, parent |-> s.parent, start |-> s.start,
                           end |-> s.end]
                   /\ s.parent = KnownParent(run, run.spans[i].parent)
      BY <1>3, Zenon
    <2>2. KnownParent(r, s.parent) = s.parent
      BY <1>5, <1>6, <2>1, Zenon
    <2>3. [s EXCEPT !.parent = s.parent] = s
      BY <2>1
    <2>4. QED
      BY <2>1, <2>2, <2>3, Zenon
  <1>8. Rooted(r) = r.spans
    <2>1. r.spans = [i \in DOMAIN run.spans |-> r.spans[i]]
      BY Zenon DEF Rooted
    <2>2. QED
      BY <1>2, <1>7, <2>1, Zenon DEF Rooted
  <1>9. \A i \in DOMAIN run.spans : IsSpan(r.spans[i], i)
    <2> SUFFICES ASSUME NEW i \in DOMAIN run.spans PROVE IsSpan(r.spans[i], i)
      OBVIOUS
    <2>1. span_id("run", run.spans[i].name, i) /= Absent
      BY DEF SpansInv, IsSpan
    <2>2. QED
      BY <1>3, <2>1, Zenon DEF IsSpan
  <1>10. IsList(r.spans)
    <2>1. PICK n \in Nat : n = Len(run.spans) /\ DOMAIN run.spans = 1 .. n
      BY <1>1, Zenon
    <2>2. PICK q : q = r.spans /\ q = [i \in 1 .. n |-> r.spans[i]]
      BY <2>1, Zenon DEF Rooted
    <2>3. Len(q) = n
      BY <2>2
    <2>4. IsList(q)
      BY <2>1, <2>2, <2>3, Zenon DEF IsList
    <2>5. QED
      BY <2>2, <2>4, Zenon
  <1>11. ASSUME r.spans /= <<>> PROVE r.run_id = "run"
    <2>1. run.spans /= <<>>
      <3>1. CASE run.spans = <<>>
        <4>1. DOMAIN run.spans = {}
          BY <3>1
        <4>2. r.spans = [i \in {} |-> r.spans[i]]
          BY <4>1, Zenon DEF Rooted
        <4>3. r.spans = <<>>
          BY <4>2
        <4>4. QED
          BY <1>11, <4>3
      <3>2. QED
        BY <3>1
    <2>2. QED
      BY <2>1, Zenon DEF SpansInv
  <1>12. SpansInv(r)
    BY <1>2, <1>9, <1>10, <1>11, Zenon DEF SpansInv
  <1>13. QED
    BY <1>8, <1>12

-----------------------------------------------------------------------------
(* The assembled record. *)

\* A loader's histogram series.
LEMMA LoaderSeries ==
    ASSUME NEW name, ~IsProbe(name), NEW unit, NEW source, NEW data,
           data.layout \in {"log2", "explicit"}
    PROVE  IsSeries(Series(name, unit, source, data))
  <1>1. PICK s : s = Series(name, unit, source, data)
    OBVIOUS
  <1>2. /\ s = [name |-> s.name, unit |-> s.unit, kind |-> s.kind, source |-> s.source,
                key |-> s.key, labels |-> s.labels, overflow |-> s.overflow, data |-> s.data]
        /\ s.name = name /\ s.kind = "histogram" /\ s.data = data
    BY <1>1 DEF Series
  <1>3. IsSeries(s)
    BY <1>2 DEF IsSeries
  <1>4. QED
    BY <1>1, <1>3, Zenon

\* What the loaders write, with or without observations, are series.
LEMMA LoadersSeries ==
    ASSUME NEW hires \in BOOLEAN
    PROVE  \E T : GadgetSeries(hires) \in Seq(T) /\ \A s \in T : IsSeries(s)
  <1>1. CASE Total(seen) = 0
    <2>1. GadgetSeries(hires) = <<>>
      BY <1>1, Zenon DEF GadgetSeries
    <2>2. PICK T : T = {}
      OBVIOUS
    <2>3. <<>> \in Seq(T) /\ \A s \in T : IsSeries(s)
      BY <2>2
    <2>4. QED
      BY <2>1, <2>3, Zenon
  <1>2. CASE Total(seen) /= 0
    <2>1. ~IsProbe("block.io_latency") /\ ~IsProbe("kvm.exit_handling_latency")
          /\ ~IsProbe("net.tap_rx_packet_size")
      BY DEF IsProbe
    <2>2. PICK x : /\ x = IF hires THEN Explicit(slots, log_linear_bounds)
                          ELSE Log2(collapse_to_log2(slots))
                   /\ x.layout \in {"log2", "explicit"}
      <3>1. PICK x : x = IF hires THEN Explicit(slots, log_linear_bounds)
                         ELSE Log2(collapse_to_log2(slots))
        OBVIOUS
      <3>2. x.layout \in {"log2", "explicit"}
        BY <3>1 DEF Explicit, Log2
      <3>3. QED
        BY <3>1, <3>2
    <2>3. PICK y : y = Log2(plain) /\ y.layout \in {"log2", "explicit"}
      <3>1. PICK y : y = Log2(plain)
        OBVIOUS
      <3>2. y.layout \in {"log2", "explicit"}
        BY <3>1 DEF Log2
      <3>3. QED
        BY <3>1, <3>2
    <2>4. PICK z : z = Explicit(sizes, size_bounds) /\ z.layout \in {"log2", "explicit"}
      <3>1. PICK z : z = Explicit(sizes, size_bounds)
        OBVIOUS
      <3>2. z.layout \in {"log2", "explicit"}
        BY <3>1 DEF Explicit
      <3>3. QED
        BY <3>1, <3>2
    <2>5. PICK a : a = Series("block.io_latency", "ns", "block_rq_complete", x) /\ IsSeries(a)
      BY <2>1, <2>2, LoaderSeries
    <2>6. PICK b : b = Series("kvm.exit_handling_latency", "ns", "kvm_exit", y) /\ IsSeries(b)
      BY <2>1, <2>3, LoaderSeries
    <2>7. PICK e : e = Series("net.tap_rx_packet_size", "By", "tap_rx", z) /\ IsSeries(e)
      BY <2>1, <2>4, LoaderSeries
    <2>8. GadgetSeries(hires) = <<a, b, e>>
      BY <1>2, <2>2, <2>3, <2>4, <2>5, <2>6, <2>7, Zenon DEF GadgetSeries
    <2>9. PICK T : T = {a, b, e}
      OBVIOUS
    <2>10. <<a, b, e>> \in Seq(T) /\ \A s \in T : IsSeries(s)
      BY <2>5, <2>6, <2>7, <2>9
    <2>11. QED
      BY <2>8, <2>10, Zenon
  <1>3. QED
    BY <1>1, <1>2

\* Rewriting the labels leaves series series.
LEMMA RewrittenSeries ==
    ASSUME NEW T, NEW q \in Seq(T), \A s \in T : IsSeries(s)
    PROVE  /\ IsList(rewrite_vm_id_labels(q))
           /\ \A i \in DOMAIN rewrite_vm_id_labels(q) : IsSeries(rewrite_vm_id_labels(q)[i])
  <1>1. PICK n \in Nat : DOMAIN q = 1 .. n /\ \A i \in 1 .. n : q[i] \in T
    OBVIOUS
  <1> DEFINE Vm(s) == [l \in DOMAIN s.labels |-> IF l = "vm_id" /\ s.labels[l] \in DOMAIN Table
                                                 THEN Table[s.labels[l]] ELSE s.labels[l]]
  <1>2. rewrite_vm_id_labels(q) = [i \in 1 .. n |-> [q[i] EXCEPT !.labels = Vm(q[i])]]
    BY <1>1, Zenon DEF rewrite_vm_id_labels
  <1> HIDE DEF Vm
  <1>3. ASSUME NEW s, IsSeries(s), NEW v PROVE IsSeries([s EXCEPT !.labels = v])
    <2>1. s = [name |-> s.name, unit |-> s.unit, kind |-> s.kind, source |-> s.source,
               key |-> s.key, labels |-> s.labels, overflow |-> s.overflow, data |-> s.data]
      BY <1>3 DEF IsSeries
    <2>2. PICK t : t = [name |-> s.name, unit |-> s.unit, kind |-> s.kind, source |-> s.source,
                        key |-> s.key, labels |-> v, overflow |-> s.overflow, data |-> s.data]
      OBVIOUS
    <2>3. [s EXCEPT !.labels = v] = t
      BY <2>1, <2>2
    <2>4. /\ t = [name |-> t.name, unit |-> t.unit, kind |-> t.kind, source |-> t.source,
                  key |-> t.key, labels |-> t.labels, overflow |-> t.overflow, data |-> t.data]
          /\ t.name = s.name /\ t.kind = s.kind /\ t.data = s.data
      BY <2>2
    <2>5. IsSeries(t)
      BY <1>3, <2>4 DEF IsSeries
    <2>6. QED
      BY <2>3, <2>5, Zenon
  <1>4. PICK w : w = rewrite_vm_id_labels(q)
    OBVIOUS
  <1>5. DOMAIN w = 1 .. n /\ \A i \in 1 .. n : w[i] = [q[i] EXCEPT !.labels = Vm(q[i])]
    BY <1>2, <1>4, Zenon
  <1>6. \A i \in 1 .. n : IsSeries(w[i])
    <2> SUFFICES ASSUME NEW i \in 1 .. n PROVE IsSeries(w[i])
      OBVIOUS
    <2>1. IsSeries(q[i])
      BY <1>1, Zenon
    <2>2. IsSeries([q[i] EXCEPT !.labels = Vm(q[i])])
      BY <1>3, <2>1
    <2>3. QED
      BY <1>5, <2>2, Zenon
  <1>7. IsList(w)
    <2>1. w = [i \in 1 .. n |-> w[i]]
      BY <1>2, <1>4, Zenon
    <2>2. Len(w) = n
      BY <2>1
    <2>3. QED
      BY <2>1, <2>2, Zenon DEF IsList
  <1>8. QED
    BY <1>4, <1>5, <1>6, <1>7, Zenon

\* The loaders' series and the capture's other ones make a record of series.
LEMMA AssembledSeries ==
    ASSUME NEW c \in Captures
    PROVE  LET q == rewrite_vm_id_labels(GadgetSeries(c.hires) \o c.extra)
           IN IsList(q) /\ \A i \in DOMAIN q : IsSeries(q[i])
  <1>1. /\ c.hires \in BOOLEAN /\ IsList(c.extra)
        /\ \A i \in DOMAIN c.extra : IsSeries(c.extra[i])
    BY PathAssumption, Zenon
  <1>2. PICK T : GadgetSeries(c.hires) \in Seq(T) /\ \A s \in T : IsSeries(s)
    BY <1>1, LoadersSeries
  <1>3. PICK E : E = {c.extra[i] : i \in DOMAIN c.extra}
    OBVIOUS
  <1>4. c.extra \in Seq(E)
    BY <1>1, <1>3, MembersIn
  <1>5. PICK g : g = GadgetSeries(c.hires) /\ g \in Seq(T \cup E)
    <2>1. Seq(T) \subseteq Seq(T \cup E)
      OBVIOUS
    <2>2. QED
      BY <1>2, <2>1, Zenon
  <1>6. PICK x : x = c.extra /\ x \in Seq(T \cup E)
    <2>1. Seq(E) \subseteq Seq(T \cup E)
      OBVIOUS
    <2>2. QED
      BY <1>4, <2>1, Zenon
  <1>7. g \o x \in Seq(T \cup E)
    BY <1>5, <1>6, ConcatenateIndex
  <1>8. \A s \in T \cup E : IsSeries(s)
    BY <1>1, <1>2, <1>3, Zenon
  <1>9. PICK q : q = g \o x /\ q \in Seq(T \cup E)
    BY <1>7, Zenon
  <1>10. /\ IsList(rewrite_vm_id_labels(q))
         /\ \A i \in DOMAIN rewrite_vm_id_labels(q) : IsSeries(rewrite_vm_id_labels(q)[i])
    BY <1>8, <1>9, RewrittenSeries
  <1>11. q = GadgetSeries(c.hires) \o c.extra
    BY <1>5, <1>6, <1>9, Zenon
  <1>12. QED
    BY <1>10, <1>11, Zenon

-----------------------------------------------------------------------------
(* The invariant. *)

\* Nothing is recorded at first.
LEMMA PathStarts == PathInit => PathInv
  <1> SUFFICES ASSUME PathInit PROVE PathInv
    OBVIOUS
  <1>1. record = None /\ doc = None /\ signals = <<>>
    BY DEF PathInit
  <1>2. QED
    BY <1>1 DEF PathInv

\* A record is its own original, and a capture's series and spans are well formed.
LEMMA AssembleKeeps ==
    ASSUME PathInv, NEW c \in Captures, WriteRecord(c)
    PROVE  PathInv'
  <1>1. PICK run : /\ run = [run_id |-> "run", source |-> "captured", grade |-> c.grade,
                           tenancy |-> "single_tenant", params_hash |-> "cell",
                           spans |-> c.spans,
                           series |-> rewrite_vm_id_labels(GadgetSeries(c.hires) \o c.extra),
                           costs |-> <<[probe_id |-> "block_rq_issue", over |-> FALSE],
                                       [probe_id |-> "block_rq_complete", over |-> c.over]>>,
                           report |-> <<[name |-> "iops", unit |-> "", value |-> 7]>>]
                   /\ record' = run /\ orig' = run
    BY Zenon DEF WriteRecord
  <1>2. record = None /\ doc' = doc /\ signals' = signals
    BY DEF WriteRecord
  <1>3. doc' = None
    BY <1>2 DEF PathInv
  <1>4. /\ run.run_id = "run" /\ run.spans = c.spans
        /\ run.series = rewrite_vm_id_labels(GadgetSeries(c.hires) \o c.extra)
        /\ run.costs = <<[probe_id |-> "block_rq_issue", over |-> FALSE],
                         [probe_id |-> "block_rq_complete", over |-> c.over]>>
    BY <1>1, Zenon
  <1>5. SeriesInv(run)
    BY <1>4, AssembledSeries, Zenon DEF SeriesInv
  <1>6. SpansInv(run)
    <2>1. IsList(c.spans) /\ \A i \in DOMAIN c.spans : IsSpan(c.spans[i], i)
      BY PathAssumption, Zenon
    <2>2. QED
      BY <1>4, <2>1, Zenon DEF SpansInv
  <1>7. IsList(run.costs)
    <2>1. PICK a, b : run.costs = <<a, b>>
      BY <1>4, Zenon
    <2>2. QED
      BY <2>1 DEF IsList
  <1>8. signals' \in Seq(Signals)
    BY <1>2 DEF PathInv
  <1>9. record' = orig' /\ SeriesInv(orig)' /\ SpansInv(orig)' /\ IsList(orig.costs)'
    BY <1>1, <1>5, <1>6, <1>7, Zenon DEF SeriesInv, SpansInv
  <1>10. QED
    BY <1>3, <1>8, <1>9, Zenon DEF PathInv

\* A further trip asks for no more than before.
LEMMA KeptByMore ==
    ASSUME NEW r, NEW run, NEW trips, NEW more, trips \subseteq more, KeptBy(r, run, trips)
    PROVE  KeptBy(r, run, more)
  BY Zenon DEF KeptBy

\* An export adds its signal to the trips.
LEMMA TripsGrow ==
    ASSUME signals \in Seq(Signals), NEW sig \in Signals,
           signals' = Append(signals, sig)
    PROVE  signals' \in Seq(Signals) /\ Trips \subseteq Trips' /\ sig \in Trips'
  <1>1. signals' \in Seq(Signals) /\ Len(signals') = Len(signals) + 1 /\ Len(signals) \in Nat
    OBVIOUS
  <1>2. DOMAIN signals = 1 .. Len(signals) /\ DOMAIN signals' = 1 .. Len(signals) + 1
    BY <1>1
  <1>3. /\ signals'[Len(signals) + 1] = sig
        /\ \A i \in 1 .. Len(signals) : signals'[i] = signals[i]
    OBVIOUS
  <1>4. Len(signals) + 1 \in DOMAIN signals' /\ DOMAIN signals \subseteq DOMAIN signals'
    BY <1>1, <1>2
  <1>5. QED
    BY <1>1, <1>2, <1>3, <1>4, Zenon DEF Trips

\* An export leaves the record and asks for no more of it.
LEMMA ExportKeeps ==
    ASSUME PathInv, NEW sig \in Signals, Export(sig)
    PROVE  PathInv'
  <1>1. /\ record /= None /\ doc' = export(record, sig)
        /\ signals' = Append(signals, sig)
        /\ record' = record /\ orig' = orig
    BY DEF Export
  <1>2. signals' \in Seq(Signals) /\ Trips \subseteq Trips' /\ sig \in Trips'
    BY <1>1, TripsGrow DEF PathInv
  <1>3. PICK r : r = record /\ r = record'
    BY <1>1
  <1>4. PICK o : o = orig /\ o = orig'
    BY <1>1
  <1>5. /\ SeriesInv(o) /\ SpansInv(o) /\ IsList(o.costs)
        /\ r = o \/ KeptBy(r, o, Trips)
    BY <1>1, <1>3, <1>4, Zenon DEF PathInv
  <1>6. PICK more : more = Trips' /\ (r = o \/ KeptBy(r, o, more))
    BY <1>2, <1>5, KeptByMore
  <1>7. /\ SeriesInv(orig)' /\ SpansInv(orig)' /\ IsList(orig.costs)'
        /\ (record = orig \/ KeptBy(record, orig, Trips))'
    BY <1>3, <1>4, <1>5, <1>6, Zenon DEF SeriesInv, SpansInv, KeptBy
  <1>8. record' /= None /\ (\E s \in Trips : doc = export(record, s))'
    BY <1>1, <1>2, <1>3, Zenon
  <1>9. QED
    BY <1>2, <1>7, <1>8, Zenon DEF PathInv

\* An import leaves of the record what one trip leaves, the first time and every time.
LEMMA ImportKeeps ==
    ASSUME PathInv, Import
    PROVE  PathInv'
  <1>1. /\ doc /= None /\ record' = import(doc) /\ doc' = None
        /\ orig' = orig /\ signals' = signals
    BY DEF Import
  <1>2. record /= None /\ \E s \in Trips : doc = export(record, s)
    BY <1>1, Zenon DEF PathInv
  <1>3. PICK r : r = record
    OBVIOUS
  <1>4. PICK o : o = orig /\ o = orig'
    BY <1>1
  <1>5. PICK trips : trips = Trips /\ trips = Trips'
    BY <1>1 DEF Trips
  <1>6. PICK sg \in trips : doc = export(r, sg)
    BY <1>2, <1>3, <1>5, Zenon
  <1>7. PICK d : d = export(r, sg) /\ d = doc
    BY <1>6
  <1>8. PICK q : q = import(d) /\ record' = q
    BY <1>1, <1>7, Zenon
  <1>9. /\ SeriesInv(o) /\ SpansInv(o) /\ IsList(o.costs)
        /\ r = o \/ KeptBy(r, o, trips)
    BY <1>2, <1>3, <1>4, <1>5, Zenon DEF PathInv
  <1>10. IsList(r.costs)
    <2>1. CASE r = o
      BY <1>9, <2>1
    <2>2. CASE KeptBy(r, o, trips)
      <3>1. r.costs = <<>>
        BY <2>2, Zenon DEF KeptBy
      <3>2. QED
        BY <3>1 DEF IsList
    <2>3. QED
      BY <1>9, <2>1, <2>2
  <1>11. q.costs = <<>> /\ q.series = import_series(d) /\ q.spans = import_spans(d)
    BY <1>8, Zenon DEF import
  <1>12. ASSUME "traces" \notin trips PROVE q.series = ThroughAll(o)
    <2>1. sg /= "traces"
      BY <1>6, <1>12
    <2>2. SeriesInv(r) /\ ThroughAll(r) = ThroughAll(o)
      <3>1. CASE r = o
        BY <1>9, <3>1, Zenon
      <3>2. CASE KeptBy(r, o, trips)
        <4>1. r.series = ThroughAll(o)
          BY <1>12, <3>2, Zenon DEF KeptBy
        <4>2. QED
          BY <1>9, <4>1, SeriesTripAgain
      <3>3. QED
        BY <1>9, <3>1, <3>2
    <2>3. import_series(export(r, sg)) = ThroughAll(r)
      BY <1>10, <2>1, <2>2, SeriesTrip
    <2>4. QED
      BY <1>7, <1>11, <2>2, <2>3, Zenon
  <1>13. ASSUME "metrics" \notin trips
         PROVE  q.spans = Rooted(o) /\ (o.spans /= <<>> => q.run_id = o.run_id)
    <2>1. sg /= "metrics"
      BY <1>6, <1>13
    <2>2. /\ SpansInv(r) /\ Rooted(r) = Rooted(o)
          /\ o.spans /= <<>> => r.spans /= <<>> /\ r.run_id = o.run_id
      <3>1. CASE r = o
        BY <1>9, <3>1, Zenon
      <3>2. CASE KeptBy(r, o, trips)
        <4>1. r.spans = Rooted(o) /\ (o.spans /= <<>> => r.run_id = o.run_id)
          BY <1>13, <3>2, Zenon DEF KeptBy
        <4>2. SpansInv(r) /\ Rooted(r) = Rooted(o)
          BY <1>9, <4>1, SpansTripAgain
        <4>3. ASSUME o.spans /= <<>> PROVE r.spans /= <<>>
          <5>1. 1 \in DOMAIN o.spans
            BY <1>9, <4>3 DEF SpansInv, IsList
          <5>2. DOMAIN r.spans = DOMAIN o.spans
            BY <4>1, Zenon DEF Rooted
          <5>3. QED
            BY <5>1, <5>2
        <4>4. QED
          BY <4>1, <4>2, <4>3, Zenon
      <3>3. QED
        BY <1>9, <3>1, <3>2
    <2>3. /\ import_spans(export(r, sg)) = Rooted(r)
          /\ r.spans /= <<>> => import(export(r, sg)).run_id = r.run_id
      BY <2>1, <2>2, SpansTrip
    <2>4. QED
      BY <1>7, <1>8, <1>11, <2>2, <2>3, Zenon
  <1>14. KeptBy(q, o, trips)
    BY <1>11, <1>12, <1>13, Zenon DEF KeptBy
  <1>15. /\ SeriesInv(orig)' /\ SpansInv(orig)' /\ IsList(orig.costs)'
         /\ KeptBy(record, orig, Trips)'
    BY <1>4, <1>5, <1>8, <1>9, <1>14, Zenon DEF SeriesInv, SpansInv, KeptBy
  <1>16. signals' \in Seq(Signals)
    BY <1>1 DEF PathInv
  <1>17. QED
    BY <1>1, <1>15, <1>16, Zenon DEF PathInv

\* The inductive invariant holds in every state: what a record has lost, and what it
\* still has, is known from the signals it was exported with.
THEOREM PathInvariance == PathSpec => []PathInv
  <1>1. PathInit => PathInv
    BY PathStarts
  <1>2. ASSUME PathInv, [PathNext]_pathVars PROVE PathInv'
    <2>1. ASSUME NEW v \in Values, Observe(v) PROVE PathInv'
      <3>1. record' = record /\ doc' = doc /\ orig' = orig /\ signals' = signals
        BY <2>1 DEF Observe
      <3>2. QED
        BY <1>2, <3>1, Zenon DEF PathInv, SeriesInv, SpansInv, KeptBy, Trips
    <2>2. ASSUME NEW c \in Captures, WriteRecord(c) PROVE PathInv'
      BY <1>2, <2>2, AssembleKeeps
    <2>3. ASSUME NEW sig \in Signals, Export(sig) PROVE PathInv'
      BY <1>2, <2>3, ExportKeeps
    <2>4. CASE Import
      BY <1>2, <2>4, ImportKeeps
    <2>5. CASE UNCHANGED pathVars
      <3>1. record' = record /\ doc' = doc /\ orig' = orig /\ signals' = signals
        BY <2>5 DEF pathVars
      <3>2. QED
        BY <1>2, <3>1, Zenon DEF PathInv, SeriesInv, SpansInv, KeptBy, Trips
    <2>6. QED
      BY <1>2, <2>1, <2>2, <2>3, <2>4, <2>5 DEF PathNext
  <1>3. QED
    BY <1>1, <1>2, PTL DEF PathSpec

\* However often a record goes through OTLP, the gate reads the same values from its
\* series, and the same directions where no label had a say in them, and the same spans
\* under the same parents (export, import, reduce).
THEOREM RoundTrip == PathSpec => []RoundTripKeeps
  <1>1. ASSUME PathInv PROVE RoundTripKeeps
    <2> SUFFICES ASSUME Imported PROVE
            /\ "traces" \notin Trips =>
                  /\ DOMAIN SeriesMetrics(record) = DOMAIN SeriesMetrics(orig)
                  /\ \A i \in DOMAIN SeriesMetrics(orig) :
                        /\ Plain(SeriesMetrics(record)[i]) = Plain(SeriesMetrics(orig)[i])
                        /\ LabelWords(SeriesMetrics(orig)[i].id[3]) = {} =>
                              SeriesMetrics(record)[i].polarity = SeriesMetrics(orig)[i].polarity
            /\ "metrics" \notin Trips =>
                  /\ record.spans = Rooted(orig)
                  /\ orig.spans /= <<>> => record.run_id = orig.run_id
      BY Zenon DEF RoundTripKeeps, Rooted
    <2>1. SeriesInv(orig) /\ KeptBy(record, orig, Trips)
      BY <1>1, Zenon DEF PathInv, Imported
    <2>2. ASSUME "traces" \notin Trips
          PROVE  /\ DOMAIN SeriesMetrics(record) = DOMAIN SeriesMetrics(orig)
                 /\ \A i \in DOMAIN SeriesMetrics(orig) :
                       Same(SeriesMetrics(orig)[i], SeriesMetrics(record)[i])
      <3>1. record.series = ThroughAll(orig)
        BY <2>1, <2>2, Zenon DEF KeptBy
      <3>2. QED
        BY <2>1, <3>1, PlainKept
    <2>3. QED
      BY <2>1, <2>2, Zenon DEF KeptBy, Same
  <1>2. QED
    BY <1>1, PathInvariance, PTL

\* For any words in any labels, a trip makes no metric higher-better that was not
\* (polarity_of on the whole id, series_to_metric without the labels).
THEOREM TripsMakeNothingBetter == PathSpec => []NoTripMakesMoreBetter
  <1>1. ASSUME PathInv PROVE NoTripMakesMoreBetter
    <2> SUFFICES ASSUME Imported, "traces" \notin Trips,
                        NEW i \in DOMAIN SeriesMetrics(orig),
                        SeriesMetrics(record)[i].polarity = "higher"
                 PROVE  SeriesMetrics(orig)[i].polarity = "higher"
      BY Zenon DEF NoTripMakesMoreBetter
    <2>1. SeriesInv(orig) /\ record.series = ThroughAll(orig)
      BY <1>1, Zenon DEF PathInv, Imported, KeptBy
    <2>2. Same(SeriesMetrics(orig)[i], SeriesMetrics(record)[i])
      BY <2>1, PlainKept
    <2>3. QED
      BY <2>2, Zenon DEF Same
  <1>2. QED
    BY <1>1, PathInvariance, PTL
=============================================================================
