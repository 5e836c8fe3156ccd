------------------------------- MODULE Recursion -------------------------------
(***************************************************************************)
(* Induction without an operator as a parameter: the property that is      *)
(* proved of every number is the set of the numbers that have it.  And     *)
(* what it gives for what is defined by recursion: there is a function     *)
(* that goes from a start through a sequence of steps.                     *)
(***************************************************************************)
EXTENDS Integers, SequencesExt, SequenceTheorems, WellFoundedInduction, TLAPS

(* A set of natural numbers has a least element. *)
LEMMA Least ==
  ASSUME NEW T, T \subseteq Nat, T # {} PROVE \E x \in T : \A y \in T : x <= y
<1> DEFINE R == OpToRel(<, Nat)
<1>1. IsWellFoundedOn(R, Nat)
  BY NatLessThanWellFounded DEF R
<1>2. \A x, y \in Nat : x < y => <<x, y>> \in R
  BY DEF R, OpToRel
<1> HIDE DEF R
<1>3. PICK x \in T : \A y \in T : ~ (<<y, x>> \in R)
  BY <1>1, WFMin
<1>4. \A y \in T : ~ (y < x)
  BY <1>2, <1>3
<1> QED BY <1>4

(* What holds of 0, and of n + 1 if of n, holds of every number. *)
LEMMA Induct ==
  ASSUME NEW S, 0 \in S, \A n \in Nat : n \in S => n + 1 \in S PROVE Nat \subseteq S
<1> SUFFICES ASSUME Nat \ S # {} PROVE FALSE
  OBVIOUS
<1>1. PICK x \in Nat \ S : \A y \in Nat \ S : x <= y
  BY Least
<1>2. x # 0 /\ x - 1 \in Nat
  BY <1>1
<1>3. x - 1 \in S
  BY <1>1, <1>2
<1>4. x - 1 + 1 \in S
  BY <1>2, <1>3
<1> QED BY <1>1, <1>4

(* The same up to a number n. *)
LEMMA InductTo ==
  ASSUME NEW n \in Nat, NEW S, 0 \in S, \A i \in 0 .. n - 1 : i \in S => i + 1 \in S
  PROVE  0 .. n \subseteq S
<1> DEFINE T == {i \in Nat : i <= n => i \in S}
<1>1. 0 \in T
  OBVIOUS
<1>2. ASSUME NEW i \in Nat, i \in T PROVE i + 1 \in T
  BY <1>2
<1> HIDE DEF T
<1>3. Nat \subseteq T
  BY <1>1, <1>2, Induct
<1> QED BY <1>3 DEF T

(* f goes from start through the steps 1..n, each of which maps T to T. *)
Folds(f, T, n, start, step) ==
  /\ f \in [0 .. n -> T] /\ f[0] = start
  /\ \A i \in 1 .. n : f[i] = step[i][f[i - 1]]

LEMMA FoldExists ==
  ASSUME NEW T, NEW n \in Nat, NEW start \in T, NEW step \in [1 .. n -> [T -> T]]
  PROVE  \E f : Folds(f, T, n, start, step)
<1> DEFINE S == {m \in 0 .. n : \E f : Folds(f, T, m, start, step)}
<1>1. 0 \in S
  <2> DEFINE f == [i \in 0 .. 0 |-> start]
  <2>1. Folds(f, T, 0, start, step)
    BY DEF Folds
  <2> QED BY <2>1
<1>2. ASSUME NEW m \in 0 .. n - 1, m \in S PROVE m + 1 \in S
  <2>1. PICK f : Folds(f, T, m, start, step)
    BY <1>2
  <2> DEFINE g == [i \in 0 .. m + 1 |-> IF i = m + 1 THEN step[m + 1][f[m]] ELSE f[i]]
  <2>2. f[m] \in T /\ step[m + 1][f[m]] \in T
    BY <2>1 DEF Folds
  <2>3. g \in [0 .. m + 1 -> T]
    BY <2>1, <2>2 DEF Folds
  <2>4. g[0] = start
    BY <2>1 DEF Folds
  <2>5. ASSUME NEW i \in 1 .. m + 1 PROVE g[i] = step[i][g[i - 1]]
    <3>1. CASE i = m + 1
      BY <3>1
    <3>2. CASE i # m + 1
      BY <2>1, <3>2 DEF Folds
    <3> QED BY <3>1, <3>2
  <2> HIDE DEF g
  <2>6. Folds(g, T, m + 1, start, step)
    BY <2>3, <2>4, <2>5 DEF Folds
  <2>7. m + 1 \in 0 .. n
    OBVIOUS
  <2> QED BY <2>6, <2>7
<1> HIDE DEF S
<1>3. \A m \in 0 .. n - 1 : m \in S => m + 1 \in S
  BY <1>2
<1>4. 0 .. n \subseteq S
  BY <1>1, <1>3, InductTo
<1> QED BY <1>4 DEF S

-----------------------------------------------------------------------------
(* Sequences. *)

(* What is appended is one more of what a sequence holds. *)
LEMMA AppendRange ==
  ASSUME NEW T, NEW s \in Seq(T), NEW x \in T
  PROVE  Append(s, x) \in Seq(T) /\ Range(Append(s, x)) = Range(s) \cup {x}
<1>1. DOMAIN Append(s, x) = DOMAIN s \cup {Len(s) + 1} /\ Len(s) \in Nat /\ DOMAIN s = 1 .. Len(s)
  OBVIOUS
<1>2. Append(s, x)[Len(s) + 1] = x /\ \A i \in DOMAIN s : Append(s, x)[i] = s[i]
  OBVIOUS
<1> QED BY <1>1, <1>2 DEF Range

(* What FlattenSeq chooses: the concatenations of the first i of seqs. *)
Flattening(flat, seqs) ==
  flat = [i \in 1 .. Len(seqs) |-> IF i = 1 THEN seqs[i] ELSE flat[i - 1] \o seqs[i]]

(* FlattenSeq concatenates its sequences one after the other. *)
LEMMA FlattenIs ==
  ASSUME NEW T, NEW seqs \in Seq(Seq(T))
  PROVE  \E flat \in [0 .. Len(seqs) -> Seq(T)] :
           /\ flat[0] = <<>> /\ flat[Len(seqs)] = FlattenSeq(seqs)
           /\ \A i \in 1 .. Len(seqs) : flat[i] = flat[i - 1] \o seqs[i]
<1> DEFINE n == Len(seqs)
           step == [i \in 1 .. n |-> [s \in Seq(T) |-> s \o seqs[i]]]
<1>1. step \in [1 .. n -> [Seq(T) -> Seq(T)]] /\ n \in Nat /\ <<>> \in Seq(T)
  OBVIOUS
<1> HIDE DEF step
<1>2. PICK f : Folds(f, Seq(T), n, <<>>, step)
  BY <1>1, FoldExists
<1>3. f \in [0 .. n -> Seq(T)] /\ f[0] = <<>>
  BY <1>2 DEF Folds
<1>4. ASSUME NEW i \in 1 .. n PROVE f[i] = f[i - 1] \o seqs[i]
  <2>1. i - 1 \in 0 .. n
    OBVIOUS
  <2>2. f[i - 1] \in Seq(T) /\ f[i] = step[i][f[i - 1]]
    BY <1>2, <2>1 DEF Folds
  <2> QED BY <2>2 DEF step
<1>5. n = 0 => f[n] = FlattenSeq(seqs)
  BY <1>3 DEF FlattenSeq
<1>6. ASSUME n # 0 PROVE f[n] = FlattenSeq(seqs)
  <2> DEFINE h == [i \in 1 .. n |-> f[i]]
             e == [i \in 1 .. n |-> IF i = 1 THEN seqs[i] ELSE h[i - 1] \o seqs[i]]
  <2>1. ASSUME NEW i \in 1 .. n PROVE h[i] = e[i]
    <3>1. CASE i = 1
      <4>1. f[1] = <<>> \o seqs[1] /\ seqs[1] \in Seq(T)
        BY <1>3, <1>4, <3>1
      <4> QED BY <3>1, <4>1
    <3>2. CASE i # 1
      <4>1. h[i] = f[i] /\ h[i - 1] = f[i - 1]
        BY <3>2
      <4> HIDE DEF h
      <4>2. e[i] = h[i - 1] \o seqs[i]
        BY <3>2
      <4> QED BY <1>4, <4>1, <4>2
    <3> QED BY <3>1, <3>2
  <2>2. h = e
    <3> HIDE DEF h
    <3>1. h = [i \in 1 .. n |-> h[i]]
      BY DEF h
    <3>2. e = [i \in 1 .. n |-> e[i]]
      OBVIOUS
    <3> HIDE DEF e
    <3> QED BY <2>1, <3>1, <3>2
  <2>3. Flattening(h, seqs)
    BY <2>2, Zenon DEF Flattening
  <2> HIDE DEF h, e
  <2>4. PICK g : g = CHOOSE flat : Flattening(flat, seqs)
    OBVIOUS
  <2>5. Flattening(g, seqs)
    BY <2>3, <2>4
  <2>6. FlattenSeq(seqs) = g[n]
    BY <1>6, <2>4, Zenon DEF FlattenSeq, Flattening
  <2>7. g[1] = seqs[1]
    <3>1. 1 \in 1 .. n
      BY <1>1, <1>6
    <3> QED BY <2>5, <3>1, Zenon DEF Flattening
  <2>8. ASSUME NEW i \in 2 .. n PROVE g[i] = g[i - 1] \o seqs[i]
    <3>1. i \in 1 .. n /\ i # 1
      OBVIOUS
    <3> QED BY <2>5, <3>1, Zenon DEF Flattening
  <2> DEFINE S == {i \in 0 .. n : i # 0 => g[i] = f[i]}
  <2>9. 0 \in S
    OBVIOUS
  <2>10. ASSUME NEW i \in 0 .. n - 1, i \in S PROVE i + 1 \in S
    <3>1. CASE i = 0
      <4>1. f[1] = <<>> \o seqs[1] /\ seqs[1] \in Seq(T)
        BY <1>3, <1>4, <3>1
      <4> QED BY <2>7, <3>1, <4>1
    <3>2. CASE i # 0
      <4>1. PICK k \in 2 .. n : k = i + 1 /\ k - 1 = i /\ k \in 1 .. n
        BY <3>2
      <4>2. g[k] = g[k - 1] \o seqs[k] /\ f[k] = f[k - 1] \o seqs[k]
        BY <1>4, <2>8, <4>1
      <4>3. g[i] = f[i]
        BY <2>10, <3>2
      <4>4. g[k] = f[k]
        <5>1. g[k - 1] = f[k - 1]
          BY <4>1, <4>3
        <5> QED BY <4>2, <5>1
      <4>5. k \in S
        BY <4>1, <4>4
      <4> HIDE DEF S
      <4> QED BY <4>1, <4>5
    <3> QED BY <3>1, <3>2
  <2> HIDE DEF S
  <2>11. 0 .. n \subseteq S
    BY <1>1, <2>9, <2>10, InductTo
  <2>12. n \in S
    BY <1>1, <2>11
  <2> QED BY <1>6, <2>6, <2>12 DEF S
<1> QED BY <1>3, <1>4, <1>5, <1>6

LEMMA FlattenAppend ==
  ASSUME NEW T, NEW s \in Seq(Seq(T)), NEW t \in Seq(T)
  PROVE  FlattenSeq(s) \in Seq(T) /\ FlattenSeq(Append(s, t)) = FlattenSeq(s) \o t
<1> DEFINE n == Len(s)
<1>1. PICK u \in Seq(Seq(T)) : u = Append(s, t)
  BY AppendRange
<1>2. n \in Nat /\ Len(u) = n + 1 /\ u[n + 1] = t /\ \A i \in 1 .. n : u[i] = s[i]
  BY <1>1
<1>3. PICK f \in [0 .. n -> Seq(T)] : /\ f[0] = <<>> /\ f[n] = FlattenSeq(s)
                                     /\ \A i \in 1 .. n : f[i] = f[i - 1] \o s[i]
  BY FlattenIs
<1>4. PICK g \in [0 .. Len(u) -> Seq(T)] : /\ g[0] = <<>> /\ g[Len(u)] = FlattenSeq(u)
                                          /\ \A i \in 1 .. Len(u) : g[i] = g[i - 1] \o u[i]
  BY FlattenIs
<1> DEFINE S == {i \in 0 .. n : f[i] = g[i]}
<1>5. 0 \in S
  BY <1>2, <1>3, <1>4
<1>6. ASSUME NEW i \in 0 .. n - 1, i \in S PROVE i + 1 \in S
  <2>1. PICK k \in 1 .. n : k = i + 1 /\ k - 1 = i /\ k \in 1 .. Len(u)
    BY <1>2
  <2>2. f[k] = f[k - 1] \o s[k] /\ g[k] = g[k - 1] \o u[k]
    BY <1>3, <1>4, <2>1
  <2>3. f[k - 1] = g[k - 1] /\ u[k] = s[k]
    BY <1>2, <1>6, <2>1
  <2>4. f[k] = g[k] /\ k \in 0 .. n
    BY <2>2, <2>3
  <2>5. k \in S
    BY <2>4
  <2> HIDE DEF S
  <2> QED BY <2>1, <2>5
<1> HIDE DEF S
<1>7. 0 .. n \subseteq S
  BY <1>2, <1>5, <1>6, InductTo
<1>8. f[n] = g[n]
  <2>1. n \in 0 .. n
    BY <1>2
  <2> QED BY <1>7, <2>1 DEF S
<1>9. PICK m \in 1 .. Len(u) : m = n + 1 /\ m - 1 = n /\ m = Len(u)
  BY <1>2
<1>10. g[m] = g[m - 1] \o u[m]
  BY <1>4
<1>11. FlattenSeq(u) = FlattenSeq(s) \o t
  BY <1>2, <1>3, <1>4, <1>8, <1>9, <1>10
<1>12. f[n] \in Seq(T)
  BY <1>2
<1> QED BY <1>1, <1>3, <1>11, <1>12
=============================================================================
