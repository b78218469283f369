---------------------------- MODULE ReplyProofs ----------------------------
(***************************************************************************)
(* What holds of a reply on its way: of the prompt it answers, of what the *)
(* client is shown of it and what is stored, and of the documents it is    *)
(* traced to, for chains, replies and answers of the index of any length.  *)
(***************************************************************************)
EXTENDS MCRequests, FiniteSetTheorems, SequenceTheorems, WellFoundedInduction, TLAPS

-----------------------------------------------------------------------------
(***************************************************************************)
(* Induction, for sets: the library's theorem of the least element serves  *)
(* where its induction theorems, which take an operator, cannot be used.   *)
(***************************************************************************)

\* A set of numbers that has zero, and with a number the next, has them all.
LEMMA Induction ==
  ASSUME NEW T, 0 \in T, \A n \in Nat : n \in T => n + 1 \in T
  PROVE  Nat \subseteq T
<1> SUFFICES ASSUME Nat \ T # {} PROVE FALSE
  OBVIOUS
<1>1. PICK x \in Nat \ T : \A y \in Nat \ T : ~(<<y, x>> \in OpToRel(<, Nat))
  BY NatLessThanWellFounded, WFMin
<1>2. \A y \in Nat \ T : ~(y < x)
  BY <1>1 DEF OpToRel
<1>3. x # 0 /\ x - 1 \in Nat /\ x - 1 < x
  OBVIOUS
<1>4. x - 1 \in T
  BY <1>2, <1>3
<1>5. (x - 1) + 1 \in T
  BY <1>3, <1>4
<1> QED
  BY <1>3, <1>5

\* The same for numbers up to some n.
LEMMA InductionUpTo ==
  ASSUME NEW n \in Nat, NEW T, 0 \in T, \A i \in 0..n - 1 : i \in T => i + 1 \in T
  PROVE  0..n \subseteq T
<1> DEFINE U == {i \in Nat : i \in T \/ i > n}
<1>1. 0 \in U
  OBVIOUS
<1>2. ASSUME NEW i \in Nat, i \in U PROVE i + 1 \in U
  BY <1>2
<1> HIDE DEF U
<1>3. Nat \subseteq U
  BY <1>1, <1>2, Induction
<1> QED
  BY <1>3 DEF U

\* A set of sequences that has the empty one, and with one each that is longer
\* by an element, has them all.
LEMMA SeqInduction ==
  ASSUME NEW S, NEW T, <<>> \in T, \A s \in Seq(S), e \in S : s \in T => Append(s, e) \in T
  PROVE  Seq(S) \subseteq T
<1> DEFINE U == {n \in Nat : \A s \in Seq(S) : Len(s) = n => s \in T}
<1>1. 0 \in U
  OBVIOUS
<1>2. ASSUME NEW n \in Nat, n \in U PROVE n + 1 \in U
  <2> SUFFICES ASSUME NEW s \in Seq(S), Len(s) = n + 1 PROVE s \in T
    OBVIOUS
  <2>1. s # <<>>
    OBVIOUS
  <2>2. PICK t \in Seq(S), e \in S : s = Append(t, e)
    BY <2>1, SequenceEmptyOrAppend
  <2>3. Len(t) = n
    BY <2>2
  <2> QED
    BY <1>2, <2>2, <2>3
<1> HIDE DEF U
<1>3. Nat \subseteq U
  BY <1>1, <1>2, Induction
<1> QED
  BY <1>3 DEF U

\* Numbers up to n, some of them: there is a last.
LEMMA LastOf ==
  ASSUME NEW n \in Nat, NEW T, T \subseteq 1..n, T # {}
  PROVE  \E m \in T : \A i \in T : i <= m
<1> DEFINE U == {i \in Nat : \A V \in SUBSET (1..i) : V # {} => \E m \in V : \A j \in V : j <= m}
<1>1. 0 \in U
  <2>1. 1..0 = {}
    OBVIOUS
  <2> QED
    BY <2>1
<1>2. ASSUME NEW i \in Nat, i \in U PROVE i + 1 \in U
  <2> SUFFICES ASSUME NEW V \in SUBSET (1..i + 1), V # {} PROVE \E m \in V : \A j \in V : j <= m
    OBVIOUS
  <2>1. CASE i + 1 \in V
    BY <2>1
  <2>2. CASE i + 1 \notin V
    <3>1. V \in SUBSET (1..i)
      BY <2>2
    <3> QED
      BY <1>2, <3>1
  <2> QED
    BY <2>1, <2>2
<1> HIDE DEF U
<1>3. n \in U
  BY <1>1, <1>2, Induction
<1> QED
  BY <1>3 DEF U

-----------------------------------------------------------------------------
(***************************************************************************)
(* Sequences of sequences, put together.                                   *)
(***************************************************************************)

\* What FlattenSeq adds up.
AddUp(seqs, n, sums) == \A i \in 1..n : sums[i] = IF i = 1 THEN seqs[i] ELSE sums[i - 1] \o seqs[i]

\* One of its sums.
LEMMA AddsUp ==
  ASSUME NEW seqs, NEW n, NEW f, AddUp(seqs, n, f), NEW i \in Nat, i + 1 \in 1..n
  PROVE  f[i + 1] = IF i = 0 THEN seqs[i + 1] ELSE f[i] \o seqs[i + 1]
<1>1. PICK j : j = i + 1
  OBVIOUS
<1>2. f[j] = IF j = 1 THEN seqs[j] ELSE f[j - 1] \o seqs[j]
  BY <1>1, Zenon DEF AddUp
<1>3. j - 1 = i /\ (j = 1 <=> i = 0)
  BY <1>1
<1> QED
  BY <1>1, <1>2, <1>3, Zenon

\* Its definition of a function by recursion makes sense: there is one.
LEMMA SumsExist ==
  ASSUME NEW S, NEW seqs \in Seq(Seq(S))
  PROVE  \E sums : sums = [i \in 1..Len(seqs) |-> IF i = 1 THEN seqs[i] ELSE sums[i - 1] \o seqs[i]]
<1> DEFINE U == {n \in Nat : n <= Len(seqs) => \E f : f \in [1..n -> Seq(S)] /\ AddUp(seqs, n, f)}
<1>1. 0 \in U
  <2>1. [i \in 1..0 |-> <<>>] \in [1..0 -> Seq(S)] /\ 1..0 = {}
    OBVIOUS
  <2>2. AddUp(seqs, 0, [i \in 1..0 |-> <<>>])
    BY <2>1 DEF AddUp
  <2> QED
    BY <2>1, <2>2
<1>2. ASSUME NEW n \in Nat, n \in U PROVE n + 1 \in U
  <2> SUFFICES ASSUME n + 1 <= Len(seqs) PROVE \E f : f \in [1..n + 1 -> Seq(S)] /\ AddUp(seqs, n + 1, f)
    OBVIOUS
  <2>1. PICK f : f \in [1..n -> Seq(S)] /\ AddUp(seqs, n, f)
    BY <1>2
  <2>2. PICK x : x = IF n = 0 THEN seqs[1] ELSE f[n] \o seqs[n + 1]
    OBVIOUS
  <2>3. x \in Seq(S)
    <3>1. seqs[n + 1] \in Seq(S) /\ (n # 0 => f[n] \in Seq(S))
      BY <2>1
    <3> QED
      BY <2>2, <3>1
  <2> DEFINE g == [i \in 1..n + 1 |-> IF i = n + 1 THEN x ELSE f[i]]
  <2>4. g \in [1..n + 1 -> Seq(S)]
    BY <2>1, <2>3
  <2>5. g[n + 1] = x /\ \A i \in 1..n : g[i] = f[i]
    OBVIOUS
  <2> HIDE DEF g
  <2>6. ASSUME NEW i \in 1..n + 1 PROVE g[i] = IF i = 1 THEN seqs[i] ELSE g[i - 1] \o seqs[i]
    <3>1. CASE i = n + 1
      <4>1. n # 0 => g[n] = f[n]
        BY <2>5
      <4> QED
        BY <2>2, <2>5, <3>1, <4>1
    <3>2. CASE i # n + 1
      <4>1. i \in 1..n /\ (i # 1 => i - 1 \in 1..n)
        BY <3>2
      <4>2. f[i] = IF i = 1 THEN seqs[i] ELSE f[i - 1] \o seqs[i]
        BY <2>1, <4>1 DEF AddUp
      <4> QED
        BY <2>5, <4>1, <4>2
    <3> QED
      BY <3>1, <3>2
  <2> QED
    BY <2>4, <2>6 DEF AddUp
<1> HIDE DEF U
<1>3. Len(seqs) \in Nat /\ Len(seqs) \in U
  <2>1. Len(seqs) \in Nat
    OBVIOUS
  <2>2. Nat \subseteq U
    BY <1>1, <1>2, Induction
  <2> QED
    BY <2>1, <2>2, Zenon
<1>4. PICK f : f \in [1..Len(seqs) -> Seq(S)] /\ AddUp(seqs, Len(seqs), f)
  BY <1>3 DEF U
<1>5. f = [i \in 1..Len(seqs) |-> IF i = 1 THEN seqs[i] ELSE f[i - 1] \o seqs[i]]
  BY <1>4 DEF AddUp
<1> QED
  BY <1>5

\* So FlattenSeq gives the last of the sums.
LEMMA FlattenIsSum ==
  ASSUME NEW S, NEW seqs \in Seq(Seq(S)), seqs # <<>>
  PROVE  \E sums : /\ sums \in [1..Len(seqs) -> Seq(S)] /\ AddUp(seqs, Len(seqs), sums)
                   /\ FlattenSeq(seqs) = sums[Len(seqs)]
<1> DEFINE f == CHOOSE f : f = [i \in 1..Len(seqs) |-> IF i = 1 THEN seqs[i] ELSE f[i - 1] \o seqs[i]]
<1>1. f = [i \in 1..Len(seqs) |-> IF i = 1 THEN seqs[i] ELSE f[i - 1] \o seqs[i]]
  <2>1. \E sums : sums = [i \in 1..Len(seqs) |-> IF i = 1 THEN seqs[i] ELSE sums[i - 1] \o seqs[i]]
    BY SumsExist
  <2> QED
    BY <2>1, Zenon
<1>2. FlattenSeq(seqs) = f[Len(seqs)]
  BY DEF FlattenSeq
<1> HIDE DEF f
<1>3. Len(seqs) \in Nat \ {0}
  OBVIOUS
<1>4. \A i \in 1..Len(seqs) : f[i] = IF i = 1 THEN seqs[i] ELSE f[i - 1] \o seqs[i]
  BY <1>1
<1> DEFINE U == {n \in Nat : n >= 1 /\ n <= Len(seqs) => f[n] \in Seq(S)}
<1>5. 0 \in U
  OBVIOUS
<1>6. ASSUME NEW n \in Nat, n \in U PROVE n + 1 \in U
  <2> SUFFICES ASSUME n + 1 <= Len(seqs) PROVE f[n + 1] \in Seq(S)
    OBVIOUS
  <2>1. f[n + 1] = IF n + 1 = 1 THEN seqs[n + 1] ELSE f[n] \o seqs[n + 1]
    BY <1>4
  <2>2. seqs[n + 1] \in Seq(S)
    OBVIOUS
  <2>3. n # 0 => f[n] \in Seq(S)
    BY <1>6
  <2> QED
    BY <2>1, <2>2, <2>3
<1> HIDE DEF U
<1>7. \A n \in 1..Len(seqs) : f[n] \in Seq(S)
  <2>1. Nat \subseteq U
    BY <1>5, <1>6, Induction
  <2> QED
    BY <2>1 DEF U
<1>8. f \in [1..Len(seqs) -> Seq(S)]
  BY <1>1, <1>7
<1> QED
  BY <1>2, <1>4, <1>8 DEF AddUp
\* Nothing from nothing, and a sequence more comes at the end.
LEMMA FlattenBasics ==
  ASSUME NEW S
  PROVE  /\ FlattenSeq(<<>>) = <<>>
         /\ \A seqs \in Seq(Seq(S)) : FlattenSeq(seqs) \in Seq(S)
         /\ \A seqs \in Seq(Seq(S)), t \in Seq(S) : FlattenSeq(Append(seqs, t)) = FlattenSeq(seqs) \o t
<1>1. FlattenSeq(<<>>) = <<>>
  BY DEF FlattenSeq
<1>2. ASSUME NEW seqs \in Seq(Seq(S)) PROVE FlattenSeq(seqs) \in Seq(S)
  <2>1. CASE seqs = <<>>
    BY <1>1, <2>1, EmptySeq, Zenon
  <2>2. CASE seqs # <<>>
    <3>1. Len(seqs) \in 1..Len(seqs)
      BY <2>2
    <3>2. PICK sums : sums \in [1..Len(seqs) -> Seq(S)] /\ FlattenSeq(seqs) = sums[Len(seqs)]
      BY <2>2, FlattenIsSum
    <3> QED
      BY <3>1, <3>2
  <2> QED
    BY <2>1, <2>2
<1>3. ASSUME NEW seqs \in Seq(Seq(S)), NEW t \in Seq(S)
      PROVE  FlattenSeq(Append(seqs, t)) = FlattenSeq(seqs) \o t
  <2>1. PICK more : more = Append(seqs, t)
    OBVIOUS
  <2>2. PICK n : n = Len(seqs)
    OBVIOUS
  <2>3. /\ more \in Seq(Seq(S)) /\ more # <<>> /\ Len(more) = n + 1 /\ n \in Nat
        /\ more[n + 1] = t /\ \A i \in 1..n : more[i] = seqs[i]
    BY <2>1, <2>2
  <2>4. PICK g : g \in [1..n + 1 -> Seq(S)] /\ AddUp(more, n + 1, g) /\ FlattenSeq(more) = g[n + 1]
    BY <2>3, FlattenIsSum
  <2>5. g[n + 1] = IF n = 0 THEN t ELSE g[n] \o t
    <3>1. n + 1 \in 1..n + 1
      BY <2>3
    <3>2. g[n + 1] = IF n = 0 THEN more[n + 1] ELSE g[n] \o more[n + 1]
      BY <2>3, <2>4, <3>1, AddsUp, Zenon
    <3> QED
      BY <2>3, <3>2, Zenon
  <2>6. CASE n = 0
    <3>1. seqs = <<>>
      BY <2>2, <2>6, EmptySeq
    <3> QED
      BY <1>1, <2>1, <2>4, <2>5, <2>6, <3>1
  <2>7. CASE n # 0
    <3>1. PICK f : f \in [1..n -> Seq(S)] /\ AddUp(seqs, n, f) /\ FlattenSeq(seqs) = f[n]
      BY <2>2, <2>7, FlattenIsSum
    <3> DEFINE U == {i \in Nat : i >= 1 /\ i <= n => f[i] = g[i]}
    <3>2. 0 \in U
      OBVIOUS
    <3>3. ASSUME NEW i \in Nat, i \in U PROVE i + 1 \in U
      <4> SUFFICES ASSUME i + 1 <= n PROVE f[i + 1] = g[i + 1]
        OBVIOUS
      <4>1. i + 1 \in 1..n /\ i + 1 \in 1..n + 1
        BY <2>3
      <4>2. f[i + 1] = IF i = 0 THEN seqs[i + 1] ELSE f[i] \o seqs[i + 1]
        BY <3>1, <4>1, AddsUp, Zenon
      <4>3. g[i + 1] = IF i = 0 THEN more[i + 1] ELSE g[i] \o more[i + 1]
        BY <2>4, <4>1, AddsUp, Zenon
      <4>4. more[i + 1] = seqs[i + 1]
        BY <2>3, <4>1
      <4>5. i # 0 => f[i] = g[i]
        BY <2>3, <3>3, <4>1
      <4> QED
        BY <4>1, <4>2, <4>3, <4>4, <4>5, Zenon
    <3> HIDE DEF U
    <3>4. n \in U
      BY <2>3, <3>2, <3>3, Induction
    <3>5. f[n] = g[n]
      BY <2>3, <2>7, <3>4 DEF U
    <3> QED
      BY <2>1, <2>4, <2>5, <2>7, <3>1, <3>5
  <2> QED
    BY <2>6, <2>7
<1> QED
  BY <1>1, <1>2, <1>3

\* What is appended to the second is appended to both.
LEMMA AppendConcat ==
  ASSUME NEW S, NEW s \in Seq(S), NEW t \in Seq(S), NEW e \in S
  PROVE  Append(s \o t, e) = s \o Append(t, e)
<1>1. s \o t \in Seq(S) /\ <<e>> \in Seq(S)
  OBVIOUS
<1>2. Append(s \o t, e) = (s \o t) \o <<e>> /\ Append(t, e) = t \o <<e>>
  BY <1>1, AppendIsConcat
<1> QED
  BY <1>1, <1>2, ConcatAssociative

\* The members of a sequence that goes on as another.
LEMMA JoinedSeq ==
  ASSUME NEW S
  PROVE  \A s, t \in Seq(S) : \A u : u = s \o t =>
           /\ u \in Seq(S) /\ Len(u) = Len(s) + Len(t)
           /\ \A i \in 1..Len(s) : u[i] = s[i]
           /\ \A i \in 1..Len(t) : u[i + Len(s)] = t[i]
  OBVIOUS

\* What is in a sequence, and in one that is longer.
LEMMA InSeq ==
  ASSUME NEW S
  PROVE  /\ ToSet(<<>>) = {}
         /\ \A s \in Seq(S) : ToSet(s) = {s[i] : i \in 1..Len(s)} /\ ToSet(s) \subseteq S
         /\ \A s, t \in Seq(S) : ToSet(s \o t) = ToSet(s) \cup ToSet(t)
         /\ \A s \in Seq(S), e \in S : ToSet(Append(s, e)) = ToSet(s) \cup {e}
<1>1. ToSet(<<>>) = {}
  BY DEF ToSet
<1>2. \A s \in Seq(S) : ToSet(s) = {s[i] : i \in 1..Len(s)} /\ ToSet(s) \subseteq S
  BY DEF ToSet
<1>3. ASSUME NEW s \in Seq(S), NEW t \in Seq(S) PROVE ToSet(s \o t) = ToSet(s) \cup ToSet(t)
  <2>1. PICK u : u = s \o t
    OBVIOUS
  <2>2. /\ u \in Seq(S) /\ Len(u) = Len(s) + Len(t) /\ Len(s) \in Nat /\ Len(t) \in Nat
        /\ \A i \in 1..Len(s) : u[i] = s[i]
        /\ \A i \in 1..Len(t) : u[i + Len(s)] = t[i]
        /\ \A i \in 1..Len(u) : i \in 1..Len(s) \/ i - Len(s) \in 1..Len(t)
    BY <2>1
  <2>3. ToSet(u) = {u[i] : i \in 1..Len(u)} /\ ToSet(s) = {s[i] : i \in 1..Len(s)} /\ ToSet(t) = {t[i] : i \in 1..Len(t)}
    BY <1>2, <2>2
  <2>4. ASSUME NEW i \in 1..Len(u) PROVE u[i] \in ToSet(s) \cup ToSet(t)
    <3>1. CASE i \in 1..Len(s)
      BY <2>2, <2>3, <3>1
    <3>2. CASE i - Len(s) \in 1..Len(t)
      <4>1. u[i - Len(s) + Len(s)] = t[i - Len(s)] /\ i - Len(s) + Len(s) = i
        BY <2>2, <3>2
      <4> QED
        BY <2>3, <3>2, <4>1
    <3> QED
      BY <2>2, <3>1, <3>2
  <2>5. \A i \in 1..Len(s) : i \in 1..Len(u) /\ s[i] = u[i]
    BY <2>2
  <2>6. \A i \in 1..Len(t) : i + Len(s) \in 1..Len(u) /\ t[i] = u[i + Len(s)]
    BY <2>2
  <2>7. \A x \in ToSet(s) \cup ToSet(t) : x \in ToSet(u)
    BY <2>3, <2>5, <2>6, Zenon
  <2>8. \A x \in ToSet(u) : x \in ToSet(s) \cup ToSet(t)
    BY <2>3, <2>4, Zenon
  <2> QED
    BY <2>1, <2>7, <2>8, Zenon
<1>4. ASSUME NEW s \in Seq(S), NEW e \in S PROVE ToSet(Append(s, e)) = ToSet(s) \cup {e}
  <2>1. Append(s, e) = s \o <<e>> /\ <<e>> \in Seq(S)
    BY AppendIsConcat
  <2>2. ToSet(<<e>>) = {e}
    BY DEF ToSet
  <2> QED
    BY <1>3, <2>1, <2>2
<1> QED
  BY <1>1, <1>2, <1>3, <1>4

\* What is in one of the sequences is in the whole, and nothing else.
LEMMA InFlatten ==
  ASSUME NEW S, NEW seqs \in Seq(Seq(S))
  PROVE  \A x : x \in ToSet(FlattenSeq(seqs)) <=> \E k \in 1..Len(seqs) : x \in ToSet(seqs[k])
<1> DEFINE T == {f \in Seq(Seq(S)) : \A x : x \in ToSet(FlattenSeq(f)) <=> \E k \in 1..Len(f) : x \in ToSet(f[k])}
<1>1. <<>> \in T
  BY FlattenBasics, InSeq
<1>2. ASSUME NEW f \in Seq(Seq(S)), NEW t \in Seq(S), f \in T PROVE Append(f, t) \in T
  <2>1. PICK g : g = Append(f, t)
    OBVIOUS
  <2>2. g \in Seq(Seq(S)) /\ Len(g) = Len(f) + 1 /\ Len(f) \in Nat /\ g[Len(g)] = t /\ \A k \in 1..Len(f) : g[k] = f[k]
    BY <2>1
  <2>3. ToSet(FlattenSeq(g)) = ToSet(FlattenSeq(f)) \cup ToSet(t)
    <3>1. FlattenSeq(g) = FlattenSeq(f) \o t /\ FlattenSeq(f) \in Seq(S)
      BY <2>1, FlattenBasics
    <3> QED
      BY <3>1, InSeq
  <2>4. \A x : (\E k \in 1..Len(g) : x \in ToSet(g[k])) <=> x \in ToSet(t) \/ \E k \in 1..Len(f) : x \in ToSet(f[k])
    <3>1. Len(g) \in 1..Len(g) /\ \A k \in 1..Len(g) : k = Len(g) \/ k \in 1..Len(f)
      BY <2>2
    <3>2. \A k \in 1..Len(f) : k \in 1..Len(g)
      BY <2>2
    <3> QED
      BY <2>2, <3>1, <3>2, Zenon
  <2> QED
    BY <1>2, <2>1, <2>2, <2>3, <2>4
<1> HIDE DEF T
<1>3. Seq(Seq(S)) \subseteq T
  BY <1>1, <1>2, SeqInduction
<1> QED
  BY <1>3 DEF T

\* What is added to the last comes at the end.
LEMMA FlattenLastGrows ==
  ASSUME NEW S, NEW seqs \in Seq(Seq(S)), NEW t \in Seq(S), NEW p \in Seq(S)
  PROVE  FlattenSeq(Append(seqs, t \o p)) = FlattenSeq(Append(seqs, t)) \o p
<1>1. FlattenSeq(seqs) \in Seq(S) /\ t \o p \in Seq(S)
  BY FlattenBasics
<1>2. FlattenSeq(Append(seqs, t \o p)) = FlattenSeq(seqs) \o (t \o p)
  BY <1>1, FlattenBasics
<1>3. FlattenSeq(Append(seqs, t)) = FlattenSeq(seqs) \o t
  BY FlattenBasics
<1>4. (FlattenSeq(seqs) \o t) \o p = FlattenSeq(seqs) \o (t \o p)
  BY <1>1, ConcatAssociative
<1> QED
  BY <1>2, <1>3, <1>4

\* What is added to the last that is not empty comes at the end.
LEMMA FlattenGrows ==
  ASSUME NEW S, NEW p \in Seq(S)
  PROVE  \A seqs \in Seq(Seq(S)) : \A k \in 1..Len(seqs) : (\A l \in k + 1..Len(seqs) : seqs[l] = <<>>)
           => FlattenSeq([seqs EXCEPT ![k] = @ \o p]) = FlattenSeq(seqs) \o p
<1>1. \A f \in Seq(Seq(S)), t \in Seq(S) : FlattenSeq(Append(f, t \o p)) = FlattenSeq(Append(f, t)) \o p
  BY FlattenLastGrows
<1> DEFINE Fits(f) == \A i \in 1..Len(f) : (\A l \in i + 1..Len(f) : f[l] = <<>>)
                        => FlattenSeq([f EXCEPT ![i] = @ \o p]) = FlattenSeq(f) \o p
           T == {f \in Seq(Seq(S)) : Fits(f)}
<1>2. <<>> \in T
  OBVIOUS
<1>3. ASSUME NEW f \in Seq(Seq(S)), NEW t \in Seq(S), f \in T PROVE Append(f, t) \in T
  <2>1. PICK g : g = Append(f, t)
    OBVIOUS
  <2>2. g \in Seq(Seq(S)) /\ Len(g) = Len(f) + 1 /\ Len(f) \in Nat /\ g[Len(g)] = t /\ \A i \in 1..Len(f) : g[i] = f[i]
    BY <2>1
  <2>3. FlattenSeq(g) = FlattenSeq(f) \o t /\ FlattenSeq(f) \in Seq(S)
    BY <2>1, FlattenBasics
  <2> SUFFICES ASSUME NEW i \in 1..Len(g), \A l \in i + 1..Len(g) : g[l] = <<>>
               PROVE  FlattenSeq([g EXCEPT ![i] = @ \o p]) = FlattenSeq(g) \o p
    BY <2>1, <2>2
  <2>4. PICK h : h = [g EXCEPT ![i] = @ \o p]
    OBVIOUS
  <2>5. PICK v : v = g[i] \o p
    OBVIOUS
  <2>6. v \in Seq(S) /\ h = [g EXCEPT ![i] = v]
    BY <2>2, <2>4, <2>5
  <2>7. h \in Seq(Seq(S)) /\ Len(h) = Len(g) /\ h[i] = v /\ \A l \in 1..Len(g) : l # i => h[l] = g[l]
    BY <2>2, <2>6, ExceptSeq
  <2>8. CASE i = Len(g)
    <3>1. v = t \o p
      BY <2>2, <2>8, <2>5
    <3>2. h = Append(f, v)
      <4>1. PICK w : w = Append(f, v)
        OBVIOUS
      <4>2. w \in Seq(Seq(S)) /\ Len(w) = Len(f) + 1 /\ w[Len(f) + 1] = v /\ \A l \in 1..Len(f) : w[l] = f[l]
        BY <2>6, <4>1, AppendProperties
      <4>3. ASSUME NEW l \in 1..Len(h) PROVE h[l] = w[l]
        <5>1. l = Len(f) + 1 \/ (l \in 1..Len(f) /\ l # i)
          BY <2>2, <2>8, <2>7
        <5> QED
          BY <2>2, <2>8, <2>7, <4>2, <5>1, Zenon
      <4>4. Len(w) = Len(h)
        BY <2>2, <2>7, <4>2
      <4> QED
        BY <2>7, <4>1, <4>2, <4>3, <4>4, SeqEqual
    <3> QED
      <4>1. FlattenSeq(Append(f, t \o p)) = FlattenSeq(Append(f, t)) \o p
        BY <1>1, Zenon
      <4>2. FlattenSeq(h) = FlattenSeq(g) \o p
        BY <2>1, <3>1, <3>2, <4>1
      <4> QED
        BY <2>4, <4>2, Zenon
  <2>9. CASE i # Len(g)
    <3>1. i \in 1..Len(f)
      BY <2>2, <2>9
    <3>2. t = <<>>
      <4>1. Len(g) \in i + 1..Len(g)
        BY <2>2, <2>9
      <4> QED
        BY <2>2, <4>1
    <3>3. \A l \in i + 1..Len(f) : f[l] = <<>>
      <4>1. \A l \in i + 1..Len(f) : l \in i + 1..Len(g) /\ l \in 1..Len(f)
        BY <2>2, <3>1
      <4> QED
        BY <2>2, <4>1, Zenon
    <3>4. PICK e : e = [f EXCEPT ![i] = @ \o p]
      OBVIOUS
    <3>5. h = Append(e, t)
      <4>1. e = [f EXCEPT ![i] = v]
        BY <2>2, <2>5, <3>1, <3>4
      <4>2. e \in Seq(Seq(S)) /\ Len(e) = Len(f) /\ e[i] = v /\ \A l \in 1..Len(f) : l # i => e[l] = f[l]
        BY <2>6, <3>1, <4>1, ExceptSeq
      <4>3. PICK w : w = Append(e, t)
        OBVIOUS
      <4>4. w \in Seq(Seq(S)) /\ Len(w) = Len(e) + 1 /\ w[Len(e) + 1] = t /\ \A l \in 1..Len(e) : w[l] = e[l]
        BY <4>2, <4>3, AppendProperties
      <4>5. ASSUME NEW l \in 1..Len(h) PROVE h[l] = w[l]
        <5>1. (l = Len(g) /\ l # i) \/ l \in 1..Len(f)
          BY <2>2, <2>9, <2>7
        <5>2. w[Len(g)] = t /\ \A m \in 1..Len(f) : w[m] = e[m]
          BY <2>2, <4>2, <4>4
        <5> QED
          BY <2>2, <2>7, <3>2, <4>2, <5>1, <5>2, Zenon
      <4>6. Len(w) = Len(h)
        BY <2>2, <2>7, <4>2, <4>4
      <4> QED
        BY <2>7, <4>3, <4>4, <4>5, <4>6, SeqEqual
    <3>6. FlattenSeq(e) = FlattenSeq(f) \o p
      BY <1>3, <3>1, <3>3, <3>4
    <3>7. e \in Seq(Seq(S))
      <4>1. e = [f EXCEPT ![i] = v]
        BY <2>2, <2>5, <3>1, <3>4
      <4> QED
        BY <2>6, <3>1, <4>1, ExceptSeq
    <3>8. FlattenSeq(h) = FlattenSeq(e) \o t /\ FlattenSeq(e) \in Seq(S)
      BY <3>5, <3>7, FlattenBasics
    <3> QED
      BY <2>3, <2>4, <3>2, <3>6, <3>8, ConcatEmptySeq
  <2> QED
    BY <2>8, <2>9
<1>4. Seq(Seq(S)) \subseteq T
  <2> HIDE DEF T
  <2> QED
    BY <1>2, <1>3, SeqInduction
<1> QED
  BY <1>4

\* Sequences put together are what is in the one, and then in the other.
LEMMA FlattenConcat ==
  ASSUME NEW S, NEW f \in Seq(Seq(S)), NEW g \in Seq(Seq(S))
  PROVE  FlattenSeq(f \o g) = FlattenSeq(f) \o FlattenSeq(g)
<1> DEFINE T == {h \in Seq(Seq(S)) : FlattenSeq(f \o h) = FlattenSeq(f) \o FlattenSeq(h)}
<1>1. <<>> \in T
  <2>1. f \o <<>> = f /\ FlattenSeq(f) \o <<>> = FlattenSeq(f)
    BY FlattenBasics, ConcatEmptySeq
  <2> QED
    BY <2>1, FlattenBasics
<1>2. ASSUME NEW h \in Seq(Seq(S)), NEW t \in Seq(S), h \in T PROVE Append(h, t) \in T
  <2>1. f \o Append(h, t) = Append(f \o h, t)
    OBVIOUS
  <2>2. f \o h \in Seq(Seq(S)) /\ Append(h, t) \in Seq(Seq(S))
    OBVIOUS
  <2>3. FlattenSeq(Append(f \o h, t)) = FlattenSeq(f \o h) \o t
    BY <2>2, FlattenBasics
  <2>4. FlattenSeq(f \o h) = FlattenSeq(f) \o FlattenSeq(h)
    BY <1>2
  <2>5. FlattenSeq(Append(h, t)) = FlattenSeq(h) \o t
    BY FlattenBasics
  <2>6. (FlattenSeq(f) \o FlattenSeq(h)) \o t = FlattenSeq(f) \o (FlattenSeq(h) \o t)
    <3>1. FlattenSeq(f) \in Seq(S) /\ FlattenSeq(h) \in Seq(S)
      BY FlattenBasics
    <3> QED
      BY <3>1, ConcatAssociative
  <2> QED
    BY <2>1, <2>2, <2>3, <2>4, <2>5, <2>6
<1> HIDE DEF T
<1>3. Seq(Seq(S)) \subseteq T
  BY <1>1, <1>2, SeqInduction
<1> QED
  BY <1>3 DEF T

\* A function on 1..n is a sequence.
LEMMA IsSeq ==
  ASSUME NEW S, NEW n \in Nat, NEW f \in [1..n -> S]
  PROVE  f \in Seq(S) /\ Len(f) = n
OBVIOUS

\* A sequence is another with one more at its end, if it is so place by place.
LEMMA IsAppend ==
  ASSUME NEW S, NEW s \in Seq(S), NEW e \in S, NEW g, g \in Seq(S), Len(g) = Len(s) + 1,
         g[Len(s) + 1] = e, \A k \in 1..Len(s) : g[k] = s[k]
  PROVE  g = Append(s, e)
<1>1. PICK w : w = Append(s, e)
  OBVIOUS
<1>2. w \in Seq(S) /\ Len(w) = Len(s) + 1 /\ w[Len(s) + 1] = e /\ \A k \in 1..Len(s) : w[k] = s[k]
  BY <1>1, AppendProperties
<1>3. \A k \in 1..Len(g) : k = Len(s) + 1 \/ k \in 1..Len(s)
  OBVIOUS
<1>4. \A k \in 1..Len(g) : g[k] = w[k]
  BY <1>2, <1>3, Zenon
<1>5. Len(g) = Len(w)
  BY <1>2
<1> QED
  BY <1>1, <1>2, <1>4, <1>5, SeqEqual

\* Content after content, in any order of putting it together.
LEMMA PiecesConcat ==
  /\ \A s, t \in Seq(Nat) : s \o t \in Seq(Nat)
  /\ \A s \in Seq(Nat) : s \o <<>> = s /\ <<>> \o s = s
  /\ \A s, t, u \in Seq(Nat) : (s \o t) \o u = s \o (t \o u)
<1>1. \A s, t \in Seq(Nat) : s \o t \in Seq(Nat)
  OBVIOUS
<1>2. \A s \in Seq(Nat) : s \o <<>> = s /\ <<>> \o s = s
  BY ConcatEmptySeq, Zenon
<1>3. ASSUME NEW s \in Seq(Nat), NEW t \in Seq(Nat), NEW u \in Seq(Nat)
      PROVE  (s \o t) \o u = s \o (t \o u)
  OBVIOUS
<1> QED
  BY <1>1, <1>2, <1>3

\* Content without lines between parts, after content without them.
LEMMA GaplessConcat ==
  ASSUME NEW s \in Seq(Nat), NEW t \in Seq(Nat), \A i \in 1..Len(s) : s[i] # Gap, \A i \in 1..Len(t) : t[i] # Gap
  PROVE  \A i \in 1..Len(s \o t) : (s \o t)[i] # Gap
<1>1. ASSUME NEW i \in 1..Len(s \o t) PROVE (s \o t)[i] # Gap
  <2>1. Len(s) \in Nat /\ Len(t) \in Nat /\ Len(s \o t) = Len(s) + Len(t)
    BY ConcatProperties
  <2>2. (s \o t)[i] = IF i <= Len(s) THEN s[i] ELSE t[i - Len(s)]
    BY <2>1, ConcatProperties
  <2>3. i <= Len(s) => i \in 1..Len(s)
    BY <2>1
  <2>4. ~(i <= Len(s)) => i - Len(s) \in 1..Len(t)
    BY <2>1
  <2> QED
    BY <2>2, <2>3, <2>4
<1> QED
  BY <1>1

\* A piece, or none for the line between parts.
Kept(pieces) == [k \in DOMAIN pieces |-> IF pieces[k] = Gap THEN <<>> ELSE <<pieces[k]>>]

\* What Seamless makes of content that grows by a piece.
LEMMA SeamlessBasics ==
  /\ Seamless(<<>>) = <<>>
  /\ \A s \in Seq(Nat) : Seamless(s) \in Seq(Nat)
  /\ \A s \in Seq(Nat), e \in Nat : Seamless(Append(s, e)) = IF e = Gap THEN Seamless(s) ELSE Append(Seamless(s), e)
<1>1. Seamless(<<>>) = <<>>
  <2>1. Kept(<<>>) = <<>>
    BY DEF Kept
  <2> QED
    BY <2>1, FlattenBasics DEF Seamless, Kept
<1>2. ASSUME NEW s \in Seq(Nat)
      PROVE  Kept(s) \in Seq(Seq(Nat)) /\ Len(Kept(s)) = Len(s)
  <2>1. Len(s) \in Nat /\ DOMAIN s = 1..Len(s)
    OBVIOUS
  <2>2. ASSUME NEW k \in 1..Len(s) PROVE (IF s[k] = Gap THEN <<>> ELSE <<s[k]>>) \in Seq(Nat)
    <3>1. s[k] \in Nat
      OBVIOUS
    <3>2. <<s[k]>> \in Seq(Nat) /\ <<>> \in Seq(Nat)
      BY <3>1
    <3> QED
      BY <3>2
  <2>3. Kept(s) \in [1..Len(s) -> Seq(Nat)]
    BY <2>1, <2>2 DEF Kept
  <2> QED
    BY <2>1, <2>3, IsSeq
<1>3. \A s \in Seq(Nat) : Seamless(s) = FlattenSeq(Kept(s))
  BY DEF Seamless, Kept
<1>4. ASSUME NEW s \in Seq(Nat), NEW e \in Nat
      PROVE  Seamless(Append(s, e)) = IF e = Gap THEN Seamless(s) ELSE Append(Seamless(s), e)
  <2>1. PICK g : g = Append(s, e)
    OBVIOUS
  <2>2. g \in Seq(Nat) /\ Len(g) = Len(s) + 1 /\ Len(s) \in Nat /\ g[Len(s) + 1] = e /\ \A k \in 1..Len(s) : g[k] = s[k]
    BY <2>1
  <2>3. PICK t : t = IF e = Gap THEN <<>> ELSE <<e>>
    OBVIOUS
  <2>4. t \in Seq(Nat)
    BY <2>3
  <2>5. Kept(g) \in Seq(Seq(Nat)) /\ Kept(s) \in Seq(Seq(Nat)) /\ Len(Kept(g)) = Len(Kept(s)) + 1 /\ Len(Kept(s)) = Len(s)
    BY <1>2, <2>2
  <2>6. Kept(g)[Len(s) + 1] = t
    <3>1. Len(s) + 1 \in DOMAIN g
      BY <2>2
    <3> QED
      BY <2>2, <2>3, <3>1 DEF Kept
  <2>7. \A k \in 1..Len(s) : Kept(g)[k] = Kept(s)[k]
    <3>1. \A k \in 1..Len(s) : k \in DOMAIN g /\ k \in DOMAIN s
      BY <2>2
    <3> QED
      BY <2>2, <3>1 DEF Kept
  <2>8. Kept(g) = Append(Kept(s), t)
    BY <2>4, <2>5, <2>6, <2>7, IsAppend
  <2>9. Seamless(g) = Seamless(s) \o t
    BY <1>3, <2>2, <2>4, <2>5, <2>8, FlattenBasics
  <2>10. Seamless(s) \in Seq(Nat)
    BY <1>3, <2>5, FlattenBasics
  <2>11. e = Gap => Seamless(s) \o t = Seamless(s)
    BY <2>3, <2>10, ConcatEmptySeq
  <2>12. e # Gap => Seamless(s) \o t = Append(Seamless(s), e)
    BY <2>3, <2>10, AppendIsConcat
  <2> QED
    BY <2>1, <2>9, <2>11, <2>12
<1> QED
  BY <1>1, <1>2, <1>3, <1>4, FlattenBasics

\* Content without lines between parts.
LEMMA SeamlessIsSame ==
  \A s \in Seq(Nat) : (\A k \in 1..Len(s) : s[k] # Gap) => Seamless(s) = s
<1> DEFINE T == {s \in Seq(Nat) : (\A k \in 1..Len(s) : s[k] # Gap) => Seamless(s) = s}
<1>1. <<>> \in T
  BY SeamlessBasics
<1>2. ASSUME NEW s \in Seq(Nat), NEW e \in Nat, s \in T PROVE Append(s, e) \in T
  <2> SUFFICES ASSUME \A k \in 1..Len(Append(s, e)) : Append(s, e)[k] # Gap PROVE Seamless(Append(s, e)) = Append(s, e)
    BY AppendProperties
  <2>1. e # Gap
    <3>1. Len(s) + 1 \in 1..Len(Append(s, e)) /\ Append(s, e)[Len(s) + 1] = e
      OBVIOUS
    <3> QED
      BY <3>1
  <2>2. \A k \in 1..Len(s) : s[k] # Gap
    <3>1. \A k \in 1..Len(s) : k \in 1..Len(Append(s, e)) /\ Append(s, e)[k] = s[k]
      OBVIOUS
    <3> QED
      BY <3>1
  <2> QED
    BY <1>2, <2>1, <2>2, SeamlessBasics
<1> HIDE DEF T
<1>3. Seq(Nat) \subseteq T
  BY <1>1, <1>2, SeqInduction
<1> QED
  BY <1>3 DEF T

\* The content of two after each other, and of a line before content.
LEMMA SeamlessConcat ==
  /\ \A s, t \in Seq(Nat) : Seamless(s \o t) = Seamless(s) \o Seamless(t)
  /\ \A s \in Seq(Nat) : (\A k \in 1..Len(s) : s[k] # Gap) => Seamless(<<Gap>> \o s) = s
<1>1. ASSUME NEW s \in Seq(Nat), NEW t \in Seq(Nat) PROVE Seamless(s \o t) = Seamless(s) \o Seamless(t)
  <2> DEFINE T == {u \in Seq(Nat) : Seamless(s \o u) = Seamless(s) \o Seamless(u)}
  <2>1. <<>> \in T
    <3>1. s \o <<>> = s /\ Seamless(s) \o <<>> = Seamless(s)
      BY SeamlessBasics, ConcatEmptySeq
    <3> QED
      BY <3>1, SeamlessBasics
  <2>2. ASSUME NEW u \in Seq(Nat), NEW e \in Nat, u \in T PROVE Append(u, e) \in T
    <3>1. s \o Append(u, e) = Append(s \o u, e) /\ s \o u \in Seq(Nat) /\ Append(u, e) \in Seq(Nat)
      OBVIOUS
    <3>2. Seamless(Append(s \o u, e)) = IF e = Gap THEN Seamless(s \o u) ELSE Append(Seamless(s \o u), e)
      BY <3>1, SeamlessBasics
    <3>3. Seamless(Append(u, e)) = IF e = Gap THEN Seamless(u) ELSE Append(Seamless(u), e)
      BY SeamlessBasics
    <3>4. Seamless(s \o u) = Seamless(s) \o Seamless(u)
      BY <2>2
    <3>5. Seamless(s) \in Seq(Nat) /\ Seamless(u) \in Seq(Nat)
      BY SeamlessBasics, Zenon
    <3>6. \A v, w \in Seq(Nat) : Append(v \o w, e) = v \o Append(w, e)
      BY AppendConcat
    <3>7. CASE e = Gap
      BY <3>1, <3>2, <3>3, <3>4, <3>7, Zenon
    <3>8. CASE e # Gap
      <4>1. Append(Seamless(s) \o Seamless(u), e) = Seamless(s) \o Append(Seamless(u), e)
        BY <3>5, <3>6, Zenon
      <4> QED
        BY <3>1, <3>2, <3>3, <3>4, <3>8, <4>1, Zenon
    <3> QED
      BY <3>7, <3>8
  <2> HIDE DEF T
  <2>3. Seq(Nat) \subseteq T
    BY <2>1, <2>2, SeqInduction
  <2> QED
    BY <2>3 DEF T
<1>2. ASSUME NEW s \in Seq(Nat), \A k \in 1..Len(s) : s[k] # Gap PROVE Seamless(<<Gap>> \o s) = s
  <2>1. <<Gap>> = Append(<<>>, Gap) /\ <<Gap>> \in Seq(Nat)
    BY DEF Gap
  <2>2. Seamless(<<Gap>>) = <<>>
    <3>1. Gap \in Nat /\ <<>> \in Seq(Nat)
      BY DEF Gap
    <3>2. Seamless(Append(<<>>, Gap)) = Seamless(<<>>) /\ Seamless(<<>>) = <<>>
      BY <3>1, SeamlessBasics
    <3> QED
      BY <2>1, <3>2
  <2>3. Seamless(s) = s
    BY <1>2, SeamlessIsSame
  <2> QED
    BY <1>1, <2>1, <2>2, <2>3, ConcatEmptySeq
<1> QED
  BY <1>1, <1>2

\* Parts with lines before some of them, put together.
LEMMA SeamlessFlatten ==
  ASSUME NEW f \in Seq(Seq(Nat)), NEW g \in Seq(Seq(Nat)), Len(f) = Len(g), \A k \in 1..Len(f) : Seamless(f[k]) = g[k]
  PROVE  Seamless(FlattenSeq(f)) = FlattenSeq(g)
<1> DEFINE T == {h \in Seq(Seq(Nat)) : \A u \in Seq(Seq(Nat)) : Len(h) = Len(u) /\ (\A k \in 1..Len(h) : Seamless(h[k]) = u[k])
                   => Seamless(FlattenSeq(h)) = FlattenSeq(u)}
<1>1. <<>> \in T
  <2>1. \A u \in Seq(Seq(Nat)) : Len(<<>>) = Len(u) => u = <<>>
    BY EmptySeq
  <2> QED
    BY <2>1, FlattenBasics, SeamlessBasics
<1>2. ASSUME NEW h \in Seq(Seq(Nat)), NEW t \in Seq(Nat), h \in T PROVE Append(h, t) \in T
  <2>1. PICK m : m = Append(h, t)
    OBVIOUS
  <2>2. m \in Seq(Seq(Nat)) /\ Len(m) = Len(h) + 1 /\ Len(h) \in Nat /\ m[Len(m)] = t /\ \A k \in 1..Len(h) : m[k] = h[k]
    BY <2>1
  <2> SUFFICES ASSUME NEW u \in Seq(Seq(Nat)), Len(m) = Len(u), \A k \in 1..Len(m) : Seamless(m[k]) = u[k]
               PROVE  Seamless(FlattenSeq(m)) = FlattenSeq(u)
    BY <2>1, <2>2
  <2>3. u # <<>>
    <3>1. Len(u) # 0
      BY <2>2
    <3> QED
      BY <3>1, EmptySeq
  <2>4. PICK v \in Seq(Seq(Nat)), e \in Seq(Nat) : u = Append(v, e)
    BY <2>3, SequenceEmptyOrAppend
  <2>5. Len(v) = Len(h) /\ u[Len(m)] = e /\ \A k \in 1..Len(h) : u[k] = v[k]
    <3>1. Len(u) = Len(v) + 1 /\ Len(v) \in Nat /\ u[Len(v) + 1] = e /\ \A k \in 1..Len(v) : u[k] = v[k]
      BY <2>4, AppendProperties
    <3>2. Len(u) = Len(h) + 1 /\ Len(h) \in Nat
      BY <2>2
    <3>3. Len(v) = Len(h)
      BY <3>1, <3>2
    <3> QED
      BY <2>2, <3>1, <3>3
  <2>6. Len(m) \in 1..Len(m) /\ \A k \in 1..Len(h) : k \in 1..Len(m)
    BY <2>2
  <2>7. Seamless(t) = e /\ \A k \in 1..Len(h) : Seamless(h[k]) = v[k]
    BY <2>2, <2>5, <2>6, Zenon
  <2>8. Seamless(FlattenSeq(h)) = FlattenSeq(v)
    BY <1>2, <2>5, <2>7
  <2>9. FlattenSeq(m) = FlattenSeq(h) \o t /\ FlattenSeq(h) \in Seq(Nat)
    BY <2>1, FlattenBasics
  <2>10. FlattenSeq(u) = FlattenSeq(v) \o e
    BY <2>4, FlattenBasics
  <2>11. Seamless(FlattenSeq(h) \o t) = Seamless(FlattenSeq(h)) \o Seamless(t)
    BY <2>9, SeamlessConcat
  <2> QED
    BY <2>7, <2>8, <2>9, <2>10, <2>11
<1> HIDE DEF T
<1>3. Seq(Seq(Nat)) \subseteq T
  BY <1>1, <1>2, SeqInduction
<1>4. f \in T
  BY <1>3
<1> QED
  BY <1>4 DEF T

-----------------------------------------------------------------------------
(***************************************************************************)
(* The reply.  What is gathered in its parts is what went out in chunks:   *)
(* piece by piece for text and thoughts, call by call for calls.           *)
(***************************************************************************)
Names == Tools \cup {Undefined, NoName}
Contents == {"text", "thinking"}
CallVendors == {"first", "second"}
Vendors == {"content", "reasoning_content", "reasoning"} \cup CallVendors

PartRecords ==
  [kind : Contents \cup {"call"}, vendor : Vendors, tracked : BOOLEAN, name : Seq(Names), id : Nat, pieces : Seq(Nat)]
ChunkRecords ==
  [kind : Contents \cup {"call", "args", "error"}, id : Nat, name : Names, pieces : Seq(Nat)]
CallRecords == [id : Nat, name : Names, args : Seq(Nat)]

\* A part that was opened by one vendor has content of its kind.
OfVendor(part) ==
  /\ part.kind = "call" <=> part.vendor \in CallVendors
  /\ part.vendor \in {"reasoning_content", "reasoning"} => part.kind = "thinking"

\* Ids grow, and one part at most is open for a vendor.
PartsFit(ps, n) ==
  /\ n \in Nat /\ ps \in Seq(PartRecords)
  /\ \A k \in 1..Len(ps) : ps[k].id \in 1..n /\ OfVendor(ps[k]) /\ \A i \in 1..Len(ps[k].pieces) : ps[k].pieces[i] # Gap
  /\ \A k, l \in 1..Len(ps) : ps[k].id = ps[l].id => k = l
  /\ \A k, l \in 1..Len(ps) : ps[k].tracked /\ ps[l].tracked /\ ps[k].vendor = ps[l].vendor => k = l

\* The pieces of a kind, of parts or chunks.
PiecesOf(ps, kind) == [k \in DOMAIN ps |-> IF ps[k].kind = kind THEN ps[k].pieces ELSE <<>>]
Gathered(ps, kind) == FlattenSeq(PiecesOf(ps, kind))

ContentFits(ps, cs, m) ==
  \A kind \in Contents : /\ ToSet(Gathered(ps, kind)) = ToSet(Gathered(cs, kind))
                         /\ ~m => Gathered(ps, kind) = Gathered(cs, kind)

NamedCalls(ps) == {Call(ps[k]) : k \in {j \in 1..Len(ps) : IsNamed(ps[j])}}

\* Where calls begin, and the arguments that follow one of them.
Begun(cs) == {i \in 1..Len(cs) : cs[i].kind = "call"}
Following(cs, i) == [d \in DOMAIN cs |->
      IF cs[d].kind = "args" /\ i < d /\ \A e \in i + 1..d : cs[e].kind # "call" THEN cs[d].pieces ELSE <<>>]
Arguments(cs, i) == cs[i].pieces \o FlattenSeq(Following(cs, i))

CallsFit(calls, cs, m) ==
  /\ \A call \in calls : \E i \in Begun(cs) : cs[i].id = call.id /\ cs[i].name = call.name
  /\ \A i \in Begun(cs) : \E call \in calls : cs[i].id = call.id /\ cs[i].name = call.name
  /\ \A i, j \in Begun(cs) : cs[i].id = cs[j].id => i = j
  /\ ~m => \A call \in calls, i \in Begun(cs) : cs[i].id = call.id => Arguments(cs, i) = call.args

ReplyFits(ps, cs, n, m) ==
  /\ PartsFit(ps, n) /\ cs \in Seq(ChunkRecords) /\ m \in BOOLEAN
  /\ ContentFits(ps, cs, m)
  /\ CallsFit(NamedCalls(ps), cs, m)

ReplyInv ==
  /\ exchange \in {"streaming", "saved"} => ReplyFits(parts, chunks, sent, mixed)
  /\ exchange = "saved" => chain # <<>> /\ chain[Len(chain)] = Assistant(Text, Thinking, Calls)

HavePieces(S) == \A x \in S : x.pieces \in Seq(Nat)

\* Pieces of parts or of chunks are sequences of pieces.
LEMMA PiecesTyped ==
  ASSUME NEW S, HavePieces(S), NEW kind, NEW ps \in Seq(S)
  PROVE  PiecesOf(ps, kind) \in Seq(Seq(Nat)) /\ Len(PiecesOf(ps, kind)) = Len(ps)
<1>1. Len(ps) \in Nat /\ DOMAIN ps = 1..Len(ps)
  OBVIOUS
<1>2. ASSUME NEW k \in 1..Len(ps) PROVE (IF ps[k].kind = kind THEN ps[k].pieces ELSE <<>>) \in Seq(Nat)
  <2>1. ps[k].pieces \in Seq(Nat) /\ <<>> \in Seq(Nat)
    BY DEF HavePieces
  <2> QED
    BY <2>1
<1>3. PiecesOf(ps, kind) \in [1..Len(ps) -> Seq(Nat)]
  BY <1>1, <1>2 DEF PiecesOf
<1> QED
  BY <1>1, <1>3, IsSeq

\* Where there is nothing, nothing is gathered.
LEMMA GatheredNothing ==
  \A kind : Gathered(<<>>, kind) = <<>>
<1>1. \A kind : PiecesOf(<<>>, kind) = <<>>
  BY DEF PiecesOf
<1> QED
  BY <1>1, FlattenBasics DEF Gathered

\* Pieces of parts or of chunks, when there is one more.
LEMMA GatheredOneMore ==
  ASSUME NEW S, HavePieces(S), NEW kind, NEW ps \in Seq(S), NEW x \in S
  PROVE  /\ Gathered(ps, kind) \in Seq(Nat)
         /\ Gathered(Append(ps, x), kind) = Gathered(ps, kind) \o (IF x.kind = kind THEN x.pieces ELSE <<>>)
<1>1. PICK qs : qs = Append(ps, x)
  OBVIOUS
<1>2. qs \in Seq(S) /\ Len(qs) = Len(ps) + 1 /\ Len(ps) \in Nat /\ qs[Len(ps) + 1] = x /\ \A k \in 1..Len(ps) : qs[k] = ps[k]
  BY <1>1, AppendProperties
<1>3. PICK t : t = IF x.kind = kind THEN x.pieces ELSE <<>>
  OBVIOUS
<1>4. t \in Seq(Nat)
  BY <1>3 DEF HavePieces
<1>5. /\ PiecesOf(qs, kind) \in Seq(Seq(Nat)) /\ Len(PiecesOf(qs, kind)) = Len(PiecesOf(ps, kind)) + 1
      /\ PiecesOf(ps, kind) \in Seq(Seq(Nat)) /\ Len(PiecesOf(ps, kind)) = Len(ps)
  BY <1>2, PiecesTyped
<1>6. PiecesOf(qs, kind)[Len(ps) + 1] = t
  <2>1. Len(ps) + 1 \in DOMAIN qs
    BY <1>2
  <2> QED
    BY <1>2, <1>3, <2>1 DEF PiecesOf
<1>7. \A k \in 1..Len(ps) : PiecesOf(qs, kind)[k] = PiecesOf(ps, kind)[k]
  <2>1. \A k \in 1..Len(ps) : k \in DOMAIN qs /\ k \in DOMAIN ps
    BY <1>2
  <2> QED
    BY <1>2, <2>1 DEF PiecesOf
<1>8. PiecesOf(qs, kind) = Append(PiecesOf(ps, kind), t)
  BY <1>4, <1>5, <1>6, <1>7, IsAppend
<1> QED
  BY <1>1, <1>3, <1>4, <1>5, <1>8, FlattenBasics DEF Gathered

\* Where the parts of that kind are the same, the same is gathered.
LEMMA GatheredSame ==
  ASSUME NEW S, HavePieces(S), NEW kind, NEW ps \in Seq(S), NEW qs \in Seq(S), Len(qs) = Len(ps),
         \A k \in 1..Len(ps) : qs[k].kind = ps[k].kind /\ (ps[k].kind = kind => qs[k].pieces = ps[k].pieces)
  PROVE  Gathered(qs, kind) = Gathered(ps, kind)
<1>1. DOMAIN ps = 1..Len(ps) /\ DOMAIN qs = 1..Len(ps)
  OBVIOUS
<1>2. PiecesOf(qs, kind) = PiecesOf(ps, kind)
  BY <1>1 DEF PiecesOf
<1> QED
  BY <1>2 DEF Gathered

\* One of the parts has pieces more than it had.
GrownBy(ps, qs, k, p) ==
  /\ Len(qs) = Len(ps) /\ k \in 1..Len(ps) /\ p \in Seq(Nat) /\ qs[k].pieces = ps[k].pieces \o p
  /\ \A l \in 1..Len(ps) : qs[l].kind = ps[l].kind /\ (l # k => qs[l].pieces = ps[l].pieces)

\* A piece for one of the parts is gathered, and comes last if the part is the
\* last of its kind.
LEMMA GatheredGrows ==
  ASSUME NEW S, HavePieces(S), NEW kind, NEW ps \in Seq(S), NEW qs \in Seq(S), NEW k, NEW p,
         GrownBy(ps, qs, k, p), ps[k].kind = kind
  PROVE  /\ ToSet(Gathered(qs, kind)) = ToSet(Gathered(ps, kind)) \cup ToSet(p)
         /\ (\A l \in k + 1..Len(ps) : ps[l].kind # kind) => Gathered(qs, kind) = Gathered(ps, kind) \o p
<1>1. /\ Len(qs) = Len(ps) /\ k \in 1..Len(ps) /\ p \in Seq(Nat) /\ qs[k].pieces = ps[k].pieces \o p
      /\ \A l \in 1..Len(ps) : qs[l].kind = ps[l].kind /\ (l # k => qs[l].pieces = ps[l].pieces)
  BY DEF GrownBy
<1>2. PICK f : f = PiecesOf(ps, kind)
  OBVIOUS
<1>3. PICK g : g = PiecesOf(qs, kind)
  OBVIOUS
<1>4. f \in Seq(Seq(Nat)) /\ g \in Seq(Seq(Nat)) /\ Len(f) = Len(ps) /\ Len(g) = Len(ps)
  <2>1. PiecesOf(ps, kind) \in Seq(Seq(Nat)) /\ Len(PiecesOf(ps, kind)) = Len(ps)
    BY PiecesTyped
  <2>2. PiecesOf(qs, kind) \in Seq(Seq(Nat)) /\ Len(PiecesOf(qs, kind)) = Len(qs)
    BY PiecesTyped
  <2> QED
    BY <1>1, <1>2, <1>3, <2>1, <2>2
<1>5. \A l \in 1..Len(ps) : l \in DOMAIN ps /\ l \in DOMAIN qs
  BY <1>1
<1>6. /\ \A l \in 1..Len(ps) : l # k => g[l] = f[l]
      /\ f[k] = ps[k].pieces /\ g[k] = f[k] \o p
      /\ \A l \in 1..Len(ps) : ps[l].kind # kind => f[l] = <<>>
  <2>1. \A l \in 1..Len(ps) : /\ f[l] = IF ps[l].kind = kind THEN ps[l].pieces ELSE <<>>
                              /\ g[l] = IF qs[l].kind = kind THEN qs[l].pieces ELSE <<>>
    BY <1>2, <1>3, <1>5 DEF PiecesOf
  <2> QED
    BY <1>1, <2>1, Zenon
<1>7. ToSet(g[k]) = ToSet(f[k]) \cup ToSet(p)
  <2>1. f[k] \in Seq(Nat)
    BY <1>1, <1>4
  <2> QED
    BY <1>1, <1>6, <2>1, InSeq
<1>8. ToSet(FlattenSeq(g)) = ToSet(FlattenSeq(f)) \cup ToSet(p)
  <2>1. /\ \A x : x \in ToSet(FlattenSeq(f)) <=> \E l \in 1..Len(ps) : x \in ToSet(f[l])
        /\ \A x : x \in ToSet(FlattenSeq(g)) <=> \E l \in 1..Len(ps) : x \in ToSet(g[l])
    BY <1>4, InFlatten
  <2>2. ASSUME NEW x \in ToSet(FlattenSeq(g)) PROVE x \in ToSet(FlattenSeq(f)) \cup ToSet(p)
    <3>1. PICK l \in 1..Len(ps) : x \in ToSet(g[l])
      BY <1>1, <2>1
    <3>2. x \in ToSet(f[l]) \/ x \in ToSet(p)
      BY <1>6, <1>7, <3>1, Zenon
    <3> QED
      BY <2>1, <3>2
  <2>3. \A x \in ToSet(FlattenSeq(f)) \cup ToSet(p) : x \in ToSet(FlattenSeq(g))
    BY <1>1, <1>6, <1>7, <2>1, Zenon
  <2> QED
    BY <2>2, <2>3, Zenon
<1>9. ASSUME \A l \in k + 1..Len(ps) : ps[l].kind # kind PROVE FlattenSeq(g) = FlattenSeq(f) \o p
  <2>1. \A l \in k + 1..Len(f) : f[l] = <<>>
    <3>1. \A l \in k + 1..Len(f) : l \in 1..Len(ps) /\ l \in k + 1..Len(ps)
      BY <1>1, <1>4
    <3> QED
      BY <1>6, <1>9, <3>1, Zenon
  <2>2. FlattenSeq([f EXCEPT ![k] = @ \o p]) = FlattenSeq(f) \o p
    BY <1>1, <1>4, <2>1, FlattenGrows
  <2>3. PICK v : v = f[k] \o p
    OBVIOUS
  <2>4. v \in Seq(Nat)
    BY <1>1, <1>4, <2>3
  <2>5. g = [f EXCEPT ![k] = v]
    <3>1. PICK h : h = [f EXCEPT ![k] = v]
      OBVIOUS
    <3>2. h \in Seq(Seq(Nat)) /\ Len(h) = Len(f) /\ \A l \in 1..Len(f) : h[l] = IF l = k THEN v ELSE f[l]
      BY <1>1, <1>4, <2>4, <3>1, ExceptSeq
    <3>3. \A l \in 1..Len(g) : g[l] = h[l]
      BY <1>4, <1>6, <2>3, <3>2, Zenon
    <3> QED
      <4>1. Len(g) = Len(h)
        BY <1>4, <3>2
      <4> QED
        BY <1>4, <3>1, <3>2, <3>3, <4>1, SeqEqual
  <2> QED
    BY <2>2, <2>3, <2>5, Zenon
<1> QED
  BY <1>1, <1>2, <1>3, <1>8, <1>9 DEF Gathered

\* Nothing gives nothing.
LEMMA FlattenNothing ==
  ASSUME NEW S, NEW seqs \in Seq(Seq(S)), \A k \in 1..Len(seqs) : seqs[k] = <<>>
  PROVE  FlattenSeq(seqs) = <<>>
<1>1. PICK s : s = FlattenSeq(seqs)
  OBVIOUS
<1>2. s \in Seq(S)
  BY <1>1, FlattenBasics
<1>3. \A x : x \notin ToSet(s)
  <2>1. \A x : x \in ToSet(s) <=> \E k \in 1..Len(seqs) : x \in ToSet(seqs[k])
    BY <1>1, InFlatten
  <2>2. ToSet(<<>>) = {}
    BY InSeq
  <2> QED
    BY <2>1, <2>2
<1>4. \A k \in 1..Len(s) : s[k] \in ToSet(s)
  BY <1>2 DEF ToSet
<1>5. Len(s) = 0
  <2>1. Len(s) # 0 => 1 \in 1..Len(s)
    BY <1>2
  <2> QED
    BY <1>3, <1>4, <2>1
<1> QED
  BY <1>1, <1>2, <1>5, EmptySeq

\* Chunks are sequences of pieces.
LEMMA FollowingTyped ==
  ASSUME NEW cs \in Seq(ChunkRecords), NEW i
  PROVE  Following(cs, i) \in Seq(Seq(Nat)) /\ Len(Following(cs, i)) = Len(cs)
<1>1. Len(cs) \in Nat /\ DOMAIN cs = 1..Len(cs)
  OBVIOUS
<1>2. ASSUME NEW d \in 1..Len(cs)
      PROVE  (IF cs[d].kind = "args" /\ i < d /\ \A e \in i + 1..d : cs[e].kind # "call" THEN cs[d].pieces ELSE <<>>)
               \in Seq(Nat)
  <2>1. cs[d] \in ChunkRecords
    OBVIOUS
  <2>2. cs[d].pieces \in Seq(Nat) /\ <<>> \in Seq(Nat)
    BY <2>1 DEF ChunkRecords
  <2> QED
    BY <2>2
<1>3. Following(cs, i) \in [1..Len(cs) -> Seq(Nat)]
  BY <1>1, <1>2 DEF Following
<1> QED
  BY <1>1, <1>3, IsSeq

\* The arguments of a call that has begun, when a chunk more comes.
LEMMA ArgumentsGrow ==
  ASSUME NEW cs \in Seq(ChunkRecords), NEW x \in ChunkRecords, NEW i \in 1..Len(cs)
  PROVE  /\ Arguments(cs, i) \in Seq(Nat)
         /\ Arguments(Append(cs, x), i) = Arguments(cs, i) \o
              (IF x.kind = "args" /\ \A e \in i + 1..Len(cs) : cs[e].kind # "call" THEN x.pieces ELSE <<>>)
<1>1. PICK ds : ds = Append(cs, x)
  OBVIOUS
<1>2. PICK n : n = Len(cs)
  OBVIOUS
<1>3. /\ ds \in Seq(ChunkRecords) /\ Len(ds) = n + 1 /\ n \in Nat /\ ds[n + 1] = x
      /\ \A k \in 1..n : ds[k] = cs[k]
  BY <1>1, <1>2, AppendProperties
<1>4. PICK t : t = IF x.kind = "args" /\ \A e \in i + 1..n : cs[e].kind # "call" THEN x.pieces ELSE <<>>
  OBVIOUS
<1>5. x.pieces \in Seq(Nat) /\ cs[i].pieces \in Seq(Nat) /\ t \in Seq(Nat)
  <2>1. cs[i] \in ChunkRecords
    OBVIOUS
  <2>2. \A y \in ChunkRecords : y.pieces \in Seq(Nat)
    BY DEF ChunkRecords
  <2> QED
    BY <1>4, <2>1, <2>2
<1>6. /\ Following(ds, i) \in Seq(Seq(Nat)) /\ Len(Following(ds, i)) = n + 1
      /\ Following(cs, i) \in Seq(Seq(Nat)) /\ Len(Following(cs, i)) = n
  BY <1>2, <1>3, FollowingTyped
<1>7. Following(ds, i)[n + 1] = t
  <2>1. n + 1 \in DOMAIN ds /\ i < n + 1
    BY <1>2, <1>3
  <2>2. Following(ds, i)[n + 1] =
          IF x.kind = "args" /\ \A e \in i + 1..n + 1 : ds[e].kind # "call" THEN x.pieces ELSE <<>>
    BY <1>3, <2>1 DEF Following
  <2>3. ASSUME x.kind = "args"
        PROVE  (\A e \in i + 1..n + 1 : ds[e].kind # "call") <=> \A e \in i + 1..n : cs[e].kind # "call"
    <3>1. \A e \in i + 1..n : e \in 1..n /\ e \in i + 1..n + 1
      BY <1>2, <1>3
    <3>2. \A e \in i + 1..n + 1 : e = n + 1 \/ e \in i + 1..n
      BY <1>2, <1>3
    <3>3. ASSUME \A e \in i + 1..n + 1 : ds[e].kind # "call", NEW e \in i + 1..n PROVE cs[e].kind # "call"
      BY <1>3, <3>1, <3>3
    <3>4. ASSUME \A e \in i + 1..n : cs[e].kind # "call", NEW e \in i + 1..n + 1 PROVE ds[e].kind # "call"
      <4>1. CASE e = n + 1
        BY <1>3, <2>3, <4>1
      <4>2. CASE e \in i + 1..n
        BY <1>3, <3>1, <3>4, <4>2
      <4> QED
        BY <3>2, <4>1, <4>2
    <3> QED
      BY <3>3, <3>4
  <2> QED
    BY <1>4, <2>2, <2>3
<1>8. \A d \in 1..n : Following(ds, i)[d] = Following(cs, i)[d]
  <2> SUFFICES ASSUME NEW d \in 1..n PROVE Following(ds, i)[d] = Following(cs, i)[d]
    OBVIOUS
  <2>1. d \in DOMAIN ds /\ d \in DOMAIN cs /\ ds[d] = cs[d]
    BY <1>2, <1>3
  <2>2. \A e \in i + 1..d : ds[e] = cs[e]
    <3>1. \A e \in i + 1..d : e \in 1..n
      BY <1>2, <1>3
    <3> QED
      BY <1>3, <3>1
  <2>3. (\A e \in i + 1..d : ds[e].kind # "call") <=> \A e \in i + 1..d : cs[e].kind # "call"
    BY <2>2
  <2> QED
    BY <2>1, <2>3 DEF Following
<1>9. Following(ds, i) = Append(Following(cs, i), t)
  BY <1>5, <1>6, <1>7, <1>8, IsAppend
<1>10. FlattenSeq(Following(ds, i)) = FlattenSeq(Following(cs, i)) \o t /\ FlattenSeq(Following(cs, i)) \in Seq(Nat)
  BY <1>5, <1>6, <1>9, FlattenBasics
<1>11. Arguments(cs, i) \in Seq(Nat)
  BY <1>5, <1>10, PiecesConcat, Zenon DEF Arguments
<1>12. ds[i].pieces = cs[i].pieces
  BY <1>2, <1>3
<1>13. cs[i].pieces \o (FlattenSeq(Following(cs, i)) \o t) = (cs[i].pieces \o FlattenSeq(Following(cs, i))) \o t
  <2>1. \A p, q, u \in Seq(Nat) : (p \o q) \o u = p \o (q \o u)
    BY PiecesConcat, Zenon
  <2>2. cs[i].pieces \in Seq(Nat) /\ t \in Seq(Nat)
    BY <1>5
  <2>3. PICK q \in Seq(Nat) : q = FlattenSeq(Following(cs, i))
    BY <1>10, Zenon
  <2>4. cs[i].pieces \o (q \o t) = (cs[i].pieces \o q) \o t
    BY <2>1, <2>2, Zenon
  <2> QED
    BY <2>3, <2>4, Zenon
<1> QED
  BY <1>1, <1>2, <1>4, <1>10, <1>11, <1>12, <1>13 DEF Arguments

\* Those of a call that begins.
LEMMA ArgumentsBegin ==
  ASSUME NEW cs \in Seq(ChunkRecords), NEW x \in ChunkRecords
  PROVE  Arguments(Append(cs, x), Len(cs) + 1) = x.pieces
<1>1. PICK ds : ds = Append(cs, x)
  OBVIOUS
<1>2. PICK n : n = Len(cs)
  OBVIOUS
<1>3. ds \in Seq(ChunkRecords) /\ Len(ds) = n + 1 /\ n \in Nat /\ ds[n + 1] = x
  BY <1>1, <1>2, AppendProperties
<1>4. Following(ds, n + 1) \in Seq(Seq(Nat)) /\ Len(Following(ds, n + 1)) = n + 1
  BY <1>3, FollowingTyped
<1>5. \A d \in 1..n + 1 : Following(ds, n + 1)[d] = <<>>
  <2>1. \A d \in 1..n + 1 : d \in DOMAIN ds /\ ~(n + 1 < d)
    BY <1>3
  <2> QED
    BY <2>1 DEF Following
<1>6. FlattenSeq(Following(ds, n + 1)) = <<>>
  BY <1>4, <1>5, FlattenNothing
<1>7. x.pieces \in Seq(Nat)
  BY DEF ChunkRecords
<1>8. x.pieces \o <<>> = x.pieces
  BY <1>7, ConcatEmptySeq
<1> QED
  BY <1>1, <1>2, <1>3, <1>6, <1>8 DEF Arguments

\* A part more, of a vendor that has none open.
LEMMA PartAdded ==
  ASSUME NEW ps, NEW n, PartsFit(ps, n), NEW part \in PartRecords, part.id = n + 1, OfVendor(part),
         \A i \in 1..Len(part.pieces) : part.pieces[i] # Gap,
         \A k \in 1..Len(ps) : ~(ps[k].tracked /\ ps[k].vendor = part.vendor)
  PROVE  PartsFit(Append(ps, part), n + 1)
<1>1. PICK qs : qs = Append(ps, part)
  OBVIOUS
<1>2. PICK s : s = Len(ps)
  OBVIOUS
<1>3. n \in Nat /\ ps \in Seq(PartRecords)
  BY DEF PartsFit
<1>4. qs \in Seq(PartRecords) /\ Len(qs) = s + 1 /\ s \in Nat /\ qs[s + 1] = part /\ \A k \in 1..s : qs[k] = ps[k]
  BY <1>1, <1>2, <1>3, AppendProperties
<1>5. \A k \in 1..Len(qs) : k = s + 1 \/ k \in 1..s
  BY <1>4
<1>6. ASSUME NEW k \in 1..Len(qs)
      PROVE  qs[k].id \in 1..n + 1 /\ OfVendor(qs[k]) /\ \A i \in 1..Len(qs[k].pieces) : qs[k].pieces[i] # Gap
  <2>1. CASE k = s + 1
    <3>1. n + 1 \in 1..n + 1
      BY <1>3
    <3> QED
      BY <1>4, <2>1, <3>1
  <2>2. CASE k \in 1..s
    <3>1. ps[k].id \in 1..n /\ OfVendor(ps[k]) /\ \A i \in 1..Len(ps[k].pieces) : ps[k].pieces[i] # Gap
      BY <1>2, <2>2, Zenon DEF PartsFit
    <3>2. \A id \in 1..n : id \in 1..n + 1
      BY <1>3
    <3>3. qs[k] = ps[k]
      BY <1>4, <2>2
    <3> QED
      BY <3>1, <3>2, <3>3, Zenon
  <2> QED
    BY <1>5, <2>1, <2>2
<1>7. \A k \in 1..s : ps[k].id # n + 1
  <2>1. \A k \in 1..s : ps[k].id \in 1..n
    BY <1>2, Zenon DEF PartsFit
  <2> QED
    BY <1>3, <2>1
<1>8. \A k, l \in 1..s : ps[k].id = ps[l].id => k = l
  BY <1>2, Zenon DEF PartsFit
<1>9. \A k, l \in 1..s : ps[k].tracked /\ ps[l].tracked /\ ps[k].vendor = ps[l].vendor => k = l
  BY <1>2, Zenon DEF PartsFit
<1>10. ASSUME NEW k \in 1..Len(qs), NEW l \in 1..Len(qs), qs[k].id = qs[l].id PROVE k = l
  BY <1>4, <1>5, <1>7, <1>8, <1>10
<1>11. ASSUME NEW k \in 1..Len(qs), NEW l \in 1..Len(qs), qs[k].tracked, qs[l].tracked, qs[k].vendor = qs[l].vendor
       PROVE  k = l
  BY <1>2, <1>4, <1>5, <1>9, <1>11
<1>12. n + 1 \in Nat
  BY <1>3
<1> QED
  BY <1>1, <1>4, <1>6, <1>10, <1>11, <1>12, Zenon DEF PartsFit

\* Parts that change in their pieces and names, or are closed.
LEMMA PartsChanged ==
  ASSUME NEW ps, NEW n, PartsFit(ps, n), NEW m \in Nat, n <= m, NEW qs \in Seq(PartRecords), Len(qs) = Len(ps),
         \A k \in 1..Len(ps) : /\ qs[k].id = ps[k].id /\ qs[k].kind = ps[k].kind /\ qs[k].vendor = ps[k].vendor
                               /\ qs[k].tracked => ps[k].tracked,
         \A k \in 1..Len(ps) : \A i \in 1..Len(qs[k].pieces) : qs[k].pieces[i] # Gap
  PROVE  PartsFit(qs, m)
<1>1. n \in Nat /\ \A id \in 1..n : id \in 1..m
  BY DEF PartsFit
<1>2. \A k \in 1..Len(ps) : ps[k].id \in 1..n /\ OfVendor(ps[k])
  BY Zenon DEF PartsFit
<1>3. \A k \in 1..Len(qs) : qs[k].id \in 1..m /\ OfVendor(qs[k])
  BY <1>1, <1>2, Zenon DEF OfVendor
<1>4. \A k, l \in 1..Len(qs) : qs[k].id = qs[l].id => k = l
  BY Zenon DEF PartsFit
<1>5. \A k, l \in 1..Len(qs) : qs[k].tracked /\ qs[l].tracked /\ qs[k].vendor = qs[l].vendor => k = l
  BY Zenon DEF PartsFit
<1>6. \A k \in 1..Len(qs) : \A i \in 1..Len(qs[k].pieces) : qs[k].pieces[i] # Gap
  OBVIOUS
<1> QED
  BY <1>3, <1>4, <1>5, <1>6, Zenon DEF PartsFit

\* What parts and chunks are made of.
LEMMA RecordsHavePieces ==
  HavePieces(PartRecords) /\ HavePieces(ChunkRecords)
BY DEF HavePieces, PartRecords, ChunkRecords

\* What is gathered of parts, or of chunks, when there is one more.
LEMMA OneMoreGathered ==
  /\ \A kind : \A ps \in Seq(PartRecords), part \in PartRecords :
       /\ Gathered(ps, kind) \in Seq(Nat)
       /\ Gathered(Append(ps, part), kind) = Gathered(ps, kind) \o (IF part.kind = kind THEN part.pieces ELSE <<>>)
  /\ \A kind : \A cs \in Seq(ChunkRecords), x \in ChunkRecords :
       /\ Gathered(cs, kind) \in Seq(Nat)
       /\ Gathered(Append(cs, x), kind) = Gathered(cs, kind) \o (IF x.kind = kind THEN x.pieces ELSE <<>>)
<1>1. HavePieces(PartRecords) /\ HavePieces(ChunkRecords)
  BY RecordsHavePieces
<1>2. ASSUME NEW kind, NEW ps \in Seq(PartRecords), NEW part \in PartRecords
      PROVE  /\ Gathered(ps, kind) \in Seq(Nat)
             /\ Gathered(Append(ps, part), kind) = Gathered(ps, kind) \o (IF part.kind = kind THEN part.pieces ELSE <<>>)
  BY <1>1, GatheredOneMore
<1>3. ASSUME NEW kind, NEW cs \in Seq(ChunkRecords), NEW x \in ChunkRecords
      PROVE  /\ Gathered(cs, kind) \in Seq(Nat)
             /\ Gathered(Append(cs, x), kind) = Gathered(cs, kind) \o (IF x.kind = kind THEN x.pieces ELSE <<>>)
  BY <1>1, GatheredOneMore
<1> QED
  BY <1>2, <1>3, Zenon

\* A part more and a chunk with what is in it.
LEMMA ContentAdded ==
  ASSUME NEW ps \in Seq(PartRecords), NEW cs \in Seq(ChunkRecords), NEW m, ContentFits(ps, cs, m),
         NEW part \in PartRecords, NEW x \in ChunkRecords, x.kind = part.kind, x.pieces = part.pieces
  PROVE  ContentFits(Append(ps, part), Append(cs, x), m)
<1> SUFFICES ASSUME NEW kind \in Contents
             PROVE  /\ ToSet(Gathered(Append(ps, part), kind)) = ToSet(Gathered(Append(cs, x), kind))
                    /\ ~m => Gathered(Append(ps, part), kind) = Gathered(Append(cs, x), kind)
  BY DEF ContentFits
<1>1. PICK t : t = IF part.kind = kind THEN part.pieces ELSE <<>>
  OBVIOUS
<1>2. t \in Seq(Nat)
  BY <1>1, RecordsHavePieces DEF HavePieces
<1>3. Gathered(Append(ps, part), kind) = Gathered(ps, kind) \o t /\ Gathered(ps, kind) \in Seq(Nat)
  BY <1>1, OneMoreGathered, Zenon
<1>4. Gathered(Append(cs, x), kind) = Gathered(cs, kind) \o t /\ Gathered(cs, kind) \in Seq(Nat)
  <2>1. t = IF x.kind = kind THEN x.pieces ELSE <<>>
    BY <1>1
  <2> QED
    BY <2>1, OneMoreGathered, Zenon
<1>5. /\ ToSet(Gathered(ps, kind)) = ToSet(Gathered(cs, kind))
      /\ ~m => Gathered(ps, kind) = Gathered(cs, kind)
  BY DEF ContentFits
<1>6. /\ ToSet(Gathered(ps, kind) \o t) = ToSet(Gathered(ps, kind)) \cup ToSet(t)
      /\ ToSet(Gathered(cs, kind) \o t) = ToSet(Gathered(cs, kind)) \cup ToSet(t)
  BY <1>2, <1>3, <1>4, InSeq
<1> QED
  BY <1>3, <1>4, <1>5, <1>6

\* A piece for a part and a chunk with that piece.
LEMMA ContentGrown ==
  ASSUME NEW ps \in Seq(PartRecords), NEW cs \in Seq(ChunkRecords), NEW m \in BOOLEAN, ContentFits(ps, cs, m),
         NEW qs \in Seq(PartRecords), NEW x \in ChunkRecords, NEW k, GrownBy(ps, qs, k, x.pieces), x.kind = ps[k].kind,
         NEW m2 \in BOOLEAN, m2 <=> (m \/ \E l \in k + 1..Len(ps) : ps[l].kind = x.kind)
  PROVE  ContentFits(qs, Append(cs, x), m2)
<1> SUFFICES ASSUME NEW kind \in Contents
             PROVE  /\ ToSet(Gathered(qs, kind)) = ToSet(Gathered(Append(cs, x), kind))
                    /\ ~m2 => Gathered(qs, kind) = Gathered(Append(cs, x), kind)
  BY DEF ContentFits
<1>1. x.pieces \in Seq(Nat)
  BY RecordsHavePieces DEF HavePieces
<1>2. HavePieces(PartRecords) /\ HavePieces(ChunkRecords)
  BY RecordsHavePieces
<1>3. /\ ToSet(Gathered(ps, kind)) = ToSet(Gathered(cs, kind))
      /\ ~m => Gathered(ps, kind) = Gathered(cs, kind)
  BY DEF ContentFits
<1>4. /\ Gathered(Append(cs, x), kind) = Gathered(cs, kind) \o (IF x.kind = kind THEN x.pieces ELSE <<>>)
      /\ Gathered(cs, kind) \in Seq(Nat)
  BY OneMoreGathered, Zenon
<1>5. CASE x.kind = kind
  <2>1. PICK p : p = x.pieces
    OBVIOUS
  <2>2. ps[k].kind = kind /\ GrownBy(ps, qs, k, p)
    BY <1>5, <2>1
  <2>3. /\ ToSet(Gathered(qs, kind)) = ToSet(Gathered(ps, kind)) \cup ToSet(p)
        /\ (\A l \in k + 1..Len(ps) : ps[l].kind # kind) => Gathered(qs, kind) = Gathered(ps, kind) \o p
    BY <1>2, <2>2, GatheredGrows
  <2>4. ToSet(Gathered(qs, kind)) = ToSet(Gathered(ps, kind)) \cup ToSet(x.pieces)
    BY <2>1, <2>3
  <2>5. ToSet(Gathered(cs, kind) \o x.pieces) = ToSet(Gathered(cs, kind)) \cup ToSet(x.pieces)
    BY <1>1, <1>4, InSeq
  <2>6. ASSUME ~m2 PROVE Gathered(qs, kind) = Gathered(ps, kind) \o x.pieces
    <3>1. \A l \in k + 1..Len(ps) : ps[l].kind # kind
      BY <1>5, <2>6
    <3> QED
      BY <2>1, <2>3, <3>1
  <2> QED
    BY <1>3, <1>4, <1>5, <2>4, <2>5, <2>6
<1>6. CASE x.kind # kind
  <2>1. Gathered(qs, kind) = Gathered(ps, kind)
    <3>1. \A l \in 1..Len(ps) : qs[l].kind = ps[l].kind /\ (ps[l].kind = kind => qs[l].pieces = ps[l].pieces)
      BY <1>6 DEF GrownBy
    <3> QED
      BY <1>2, <3>1, GatheredSame DEF GrownBy
  <2>2. Gathered(Append(cs, x), kind) = Gathered(cs, kind)
    BY <1>4, <1>6, PiecesConcat
  <2> QED
    BY <1>3, <2>1, <2>2
<1> QED
  BY <1>5, <1>6

\* The calls of the parts, when there is a part more.
LEMMA NamedAdded ==
  ASSUME NEW ps \in Seq(PartRecords), NEW part \in PartRecords
  PROVE  NamedCalls(Append(ps, part)) = NamedCalls(ps) \cup (IF IsNamed(part) THEN {Call(part)} ELSE {})
<1>1. PICK qs : qs = Append(ps, part)
  OBVIOUS
<1>2. PICK s : s = Len(ps)
  OBVIOUS
<1>3. Len(qs) = s + 1 /\ s \in Nat /\ qs[s + 1] = part /\ \A k \in 1..s : qs[k] = ps[k]
  BY <1>1, <1>2, AppendProperties
<1>4. s + 1 \in 1..Len(qs) /\ (\A k \in 1..Len(qs) : k = s + 1 \/ k \in 1..s) /\ \A k \in 1..s : k \in 1..Len(qs)
  BY <1>3
<1>5. \A x : x \in NamedCalls(qs) <=> \E k \in 1..Len(qs) : IsNamed(qs[k]) /\ x = Call(qs[k])
  BY Zenon DEF NamedCalls
<1>6. \A x : x \in NamedCalls(ps) <=> \E k \in 1..s : IsNamed(ps[k]) /\ x = Call(ps[k])
  BY <1>2, Zenon DEF NamedCalls
<1> HIDE DEF NamedCalls, IsNamed, Call
<1>7. \A x : x \in NamedCalls(qs) <=> (x \in NamedCalls(ps) \/ (IsNamed(part) /\ x = Call(part)))
  <2> TAKE x
  <2>1. ASSUME x \in NamedCalls(qs) PROVE x \in NamedCalls(ps) \/ (IsNamed(part) /\ x = Call(part))
    <3>1. PICK k \in 1..Len(qs) : IsNamed(qs[k]) /\ x = Call(qs[k])
      BY <1>5, <2>1
    <3>2. CASE k = s + 1
      BY <1>3, <3>1, <3>2
    <3>3. CASE k \in 1..s
      BY <1>3, <1>6, <3>1, <3>3
    <3> QED
      BY <1>4, <3>2, <3>3
  <2>2. ASSUME x \in NamedCalls(ps) PROVE x \in NamedCalls(qs)
    <3>1. PICK k \in 1..s : IsNamed(ps[k]) /\ x = Call(ps[k])
      BY <1>6, <2>2
    <3>2. IsNamed(qs[k]) /\ x = Call(qs[k]) /\ k \in 1..Len(qs)
      BY <1>3, <1>4, <3>1
    <3> QED
      BY <1>5, <3>2
  <2>3. ASSUME IsNamed(part), x = Call(part) PROVE x \in NamedCalls(qs)
    <3>1. IsNamed(qs[s + 1]) /\ x = Call(qs[s + 1])
      BY <1>3, <2>3
    <3> QED
      BY <1>4, <1>5, <3>1
  <2> QED
    BY <2>1, <2>2, <2>3
<1> QED
  BY <1>1, <1>7

\* Parts of calls that stay as they are.
LEMMA NamedSame ==
  ASSUME NEW ps, NEW qs, Len(qs) = Len(ps),
         \A k \in 1..Len(ps) : /\ qs[k].kind = ps[k].kind
                               /\ ps[k].kind = "call" => /\ qs[k].id = ps[k].id /\ qs[k].name = ps[k].name
                                                         /\ qs[k].pieces = ps[k].pieces
  PROVE  NamedCalls(qs) = NamedCalls(ps)
<1>1. \A k \in 1..Len(ps) : IsNamed(qs[k]) <=> IsNamed(ps[k])
  BY DEF IsNamed
<1>2. \A k \in 1..Len(ps) : IsNamed(ps[k]) => Call(qs[k]) = Call(ps[k])
  BY DEF IsNamed, Call
<1>3. {j \in 1..Len(qs) : IsNamed(qs[j])} = {j \in 1..Len(ps) : IsNamed(ps[j])}
  BY <1>1, Zenon
<1> QED
  BY <1>2, <1>3, Zenon DEF NamedCalls

\* The calls with other ids.
Without(calls, id) == {call \in calls : call.id # id}

\* One of the parts changes, and its call with it.
LEMMA NamedChanged ==
  ASSUME NEW ps, NEW qs, NEW n, PartsFit(ps, n), Len(qs) = Len(ps), NEW k \in 1..Len(ps),
         \A l \in 1..Len(ps) : l # k => qs[l] = ps[l]
  PROVE  NamedCalls(qs) = Without(NamedCalls(ps), ps[k].id) \cup (IF IsNamed(qs[k]) THEN {Call(qs[k])} ELSE {})
<1>1. \A x : x \in NamedCalls(qs) <=> \E l \in 1..Len(ps) : IsNamed(qs[l]) /\ x = Call(qs[l])
  BY Zenon DEF NamedCalls
<1>2. \A x : x \in NamedCalls(ps) <=> \E l \in 1..Len(ps) : IsNamed(ps[l]) /\ x = Call(ps[l])
  BY Zenon DEF NamedCalls
<1>3. \A l \in 1..Len(ps) : Call(ps[l]).id = ps[l].id
  BY DEF Call
<1>4. \A l \in 1..Len(ps) : ps[l].id = ps[k].id => l = k
  BY Zenon DEF PartsFit
<1> HIDE DEF NamedCalls, IsNamed, Call
<1>5. ASSUME NEW x, x \in NamedCalls(qs)
      PROVE  (x \in NamedCalls(ps) /\ x.id # ps[k].id) \/ (IsNamed(qs[k]) /\ x = Call(qs[k]))
  <2>1. PICK l \in 1..Len(ps) : IsNamed(qs[l]) /\ x = Call(qs[l])
    BY <1>1, <1>5
  <2>2. CASE l = k
    BY <2>1, <2>2
  <2>3. CASE l # k
    <3>1. IsNamed(ps[l]) /\ x = Call(ps[l])
      BY <2>1, <2>3
    <3>2. x.id # ps[k].id
      BY <1>3, <1>4, <2>3, <3>1
    <3> QED
      BY <1>2, <3>1, <3>2
  <2> QED
    BY <2>2, <2>3
<1>6. ASSUME NEW x, x \in NamedCalls(ps), x.id # ps[k].id PROVE x \in NamedCalls(qs)
  <2>1. PICK l \in 1..Len(ps) : IsNamed(ps[l]) /\ x = Call(ps[l])
    BY <1>2, <1>6
  <2>2. l # k
    BY <1>3, <1>6, <2>1
  <2>3. IsNamed(qs[l]) /\ x = Call(qs[l])
    BY <2>1, <2>2
  <2> QED
    BY <1>1, <2>3
<1>7. IsNamed(qs[k]) => Call(qs[k]) \in NamedCalls(qs)
  BY <1>1
<1> QED
  BY <1>5, <1>6, <1>7 DEF Without

\* Where calls begin, when there is a chunk more.
LEMMA BegunGrows ==
  ASSUME NEW cs \in Seq(ChunkRecords), NEW x \in ChunkRecords
  PROVE  /\ Begun(Append(cs, x)) = Begun(cs) \cup (IF x.kind = "call" THEN {Len(cs) + 1} ELSE {})
         /\ \A i \in Begun(cs) : Append(cs, x)[i] = cs[i] /\ i # Len(cs) + 1
         /\ Append(cs, x)[Len(cs) + 1] = x
<1>1. PICK ds : ds = Append(cs, x)
  OBVIOUS
<1>2. PICK s : s = Len(cs)
  OBVIOUS
<1>3. Len(ds) = s + 1 /\ s \in Nat /\ ds[s + 1] = x /\ \A k \in 1..s : ds[k] = cs[k]
  BY <1>1, <1>2, AppendProperties
<1>4. s + 1 \in 1..Len(ds) /\ (\A k \in 1..Len(ds) : k = s + 1 \/ k \in 1..s) /\ \A k \in 1..s : k \in 1..Len(ds) /\ k # s + 1
  BY <1>3
<1>5. \A i \in Begun(cs) : i \in 1..s
  BY <1>2 DEF Begun
<1>6. Begun(ds) = Begun(cs) \cup (IF x.kind = "call" THEN {s + 1} ELSE {})
  BY <1>2, <1>3, <1>4 DEF Begun
<1> QED
  BY <1>1, <1>2, <1>3, <1>4, <1>5, <1>6

\* A chunk that is of no call.
LEMMA CallsUntouched ==
  ASSUME NEW calls, NEW cs \in Seq(ChunkRecords), NEW m, CallsFit(calls, cs, m),
         NEW x \in ChunkRecords, x.kind \notin {"call", "args"}, NEW m2, m => m2
  PROVE  CallsFit(calls, Append(cs, x), m2)
<1>1. PICK ds : ds = Append(cs, x)
  OBVIOUS
<1>2. Begun(ds) = Begun(cs) /\ \A i \in Begun(cs) : ds[i] = cs[i]
  <2>1. /\ Begun(Append(cs, x)) = Begun(cs) \cup (IF x.kind = "call" THEN {Len(cs) + 1} ELSE {})
        /\ \A i \in Begun(cs) : Append(cs, x)[i] = cs[i] /\ i # Len(cs) + 1
        /\ Append(cs, x)[Len(cs) + 1] = x
    BY BegunGrows
  <2> QED
    BY <1>1, <2>1
<1>3. ASSUME NEW i \in Begun(cs) PROVE Arguments(ds, i) = Arguments(cs, i)
  <2>1. i \in 1..Len(cs)
    BY DEF Begun
  <2>2. Arguments(cs, i) \in Seq(Nat) /\ Arguments(ds, i) = Arguments(cs, i) \o <<>>
    BY <1>1, <2>1, ArgumentsGrow
  <2> QED
    BY <2>2, PiecesConcat
<1>4. /\ \A call \in calls : \E i \in Begun(ds) : ds[i].id = call.id /\ ds[i].name = call.name
      /\ \A i \in Begun(ds) : \E call \in calls : ds[i].id = call.id /\ ds[i].name = call.name
      /\ \A i, j \in Begun(ds) : ds[i].id = ds[j].id => i = j
  <2>1. /\ \A call \in calls : \E i \in Begun(cs) : cs[i].id = call.id /\ cs[i].name = call.name
        /\ \A i \in Begun(cs) : \E call \in calls : cs[i].id = call.id /\ cs[i].name = call.name
        /\ \A i, j \in Begun(cs) : cs[i].id = cs[j].id => i = j
    BY Zenon DEF CallsFit
  <2> QED
    BY <1>2, <2>1
<1>5. ASSUME ~m2 PROVE \A call \in calls, i \in Begun(ds) : ds[i].id = call.id => Arguments(ds, i) = call.args
  <2>1. \A call \in calls, i \in Begun(cs) : cs[i].id = call.id => Arguments(cs, i) = call.args
    BY <1>5, Zenon DEF CallsFit
  <2> QED
    BY <1>2, <1>3, <2>1, Zenon
<1> QED
  <2>1. CallsFit(calls, ds, m2)
    BY <1>4, <1>5, Zenon DEF CallsFit
  <2> QED
    BY <1>1, <2>1

\* A chunk that begins a call.
LEMMA CallsBegin ==
  ASSUME NEW calls, NEW cs \in Seq(ChunkRecords), NEW m, CallsFit(calls, cs, m),
         NEW x \in ChunkRecords, x.kind = "call", NEW new, new.id = x.id, new.name = x.name, new.args = x.pieces,
         \A call \in calls : call.id # x.id
  PROVE  CallsFit(calls \cup {new}, Append(cs, x), m)
<1>1. PICK ds : ds = Append(cs, x)
  OBVIOUS
<1>2. PICK s : s = Len(cs) + 1
  OBVIOUS
<1>3. Begun(ds) = Begun(cs) \cup {s} /\ ds[s] = x /\ \A i \in Begun(cs) : ds[i] = cs[i] /\ i # s
  <2>1. /\ Begun(Append(cs, x)) = Begun(cs) \cup (IF x.kind = "call" THEN {Len(cs) + 1} ELSE {})
        /\ \A i \in Begun(cs) : Append(cs, x)[i] = cs[i] /\ i # Len(cs) + 1
        /\ Append(cs, x)[Len(cs) + 1] = x
    BY BegunGrows
  <2> QED
    BY <1>1, <1>2, <2>1
<1>4. ASSUME NEW i \in Begun(cs) PROVE Arguments(ds, i) = Arguments(cs, i)
  <2>1. i \in 1..Len(cs)
    BY DEF Begun
  <2>2. Arguments(cs, i) \in Seq(Nat) /\ Arguments(ds, i) = Arguments(cs, i) \o <<>>
    BY <1>1, <2>1, ArgumentsGrow
  <2> QED
    BY <2>2, PiecesConcat
<1>5. Arguments(ds, s) = x.pieces
  BY <1>1, <1>2, ArgumentsBegin
<1>6. /\ \A call \in calls : \E i \in Begun(cs) : cs[i].id = call.id /\ cs[i].name = call.name
      /\ \A i \in Begun(cs) : \E call \in calls : cs[i].id = call.id /\ cs[i].name = call.name
      /\ \A i, j \in Begun(cs) : cs[i].id = cs[j].id => i = j
      /\ ~m => \A call \in calls, i \in Begun(cs) : cs[i].id = call.id => Arguments(cs, i) = call.args
  BY Zenon DEF CallsFit
<1>7. \A i \in Begun(cs) : cs[i].id # x.id
  BY <1>6
<1>8. \A call \in calls \cup {new} : \E i \in Begun(ds) : ds[i].id = call.id /\ ds[i].name = call.name
  BY <1>3, <1>6
<1>9. \A i \in Begun(ds) : \E call \in calls \cup {new} : ds[i].id = call.id /\ ds[i].name = call.name
  BY <1>3, <1>6
<1>10. \A i, j \in Begun(ds) : ds[i].id = ds[j].id => i = j
  BY <1>3, <1>6, <1>7
<1>11. ASSUME ~m PROVE \A call \in calls \cup {new}, i \in Begun(ds) : ds[i].id = call.id => Arguments(ds, i) = call.args
  <2> SUFFICES ASSUME NEW call \in calls \cup {new}, NEW i \in Begun(ds), ds[i].id = call.id
               PROVE  Arguments(ds, i) = call.args
    OBVIOUS
  <2>1. CASE i = s
    <3>1. call = new
      BY <1>3, <2>1
    <3> QED
      BY <1>5, <2>1, <3>1
  <2>2. CASE i # s
    <3>1. i \in Begun(cs) /\ ds[i] = cs[i]
      BY <1>3, <2>2
    <3>2. call \in calls
      BY <1>7, <3>1
    <3> QED
      BY <1>4, <1>6, <1>11, <3>1, <3>2
  <2> QED
    BY <2>1, <2>2
<1> QED
  <2>1. CallsFit(calls \cup {new}, ds, m)
    BY <1>8, <1>9, <1>10, <1>11, Zenon DEF CallsFit
  <2> QED
    BY <1>1, <2>1

\* A call that has its id for itself, and the call that was begun last.
OneOf(call, calls) == call \in calls /\ \A other \in calls : other.id = call.id => other = call
IsLast(last, cs) == last \in Begun(cs) /\ \A i \in Begun(cs) : i <= last

\* A call goes on with what a chunk of arguments brings.
GoesOn(calls, cs, m, x, old, new, last, m2) ==
  /\ cs \in Seq(ChunkRecords) /\ x \in ChunkRecords /\ x.kind = "args" /\ CallsFit(calls, cs, m)
  /\ OneOf(old, calls) /\ new.id = old.id /\ new.name = old.name /\ new.args = old.args \o x.pieces
  /\ IsLast(last, cs) /\ m \in BOOLEAN /\ m2 \in BOOLEAN /\ (m2 <=> (m \/ old.id # cs[last].id))

\* A chunk with arguments: the client adds them to the call that was begun
\* last, which is the one they are for unless chunks are mixed.
LEMMA CallsGoOn ==
  ASSUME NEW calls, NEW cs, NEW m, NEW x, NEW old, NEW new, NEW last, NEW m2, GoesOn(calls, cs, m, x, old, new, last, m2)
  PROVE  CallsFit(Without(calls, old.id) \cup {new}, Append(cs, x), m2)
<1>1. /\ cs \in Seq(ChunkRecords) /\ x \in ChunkRecords /\ x.kind = "args" /\ CallsFit(calls, cs, m)
      /\ old \in calls /\ \A call \in calls : call.id = old.id => call = old
      /\ new.id = old.id /\ new.name = old.name /\ new.args = old.args \o x.pieces
      /\ last \in Begun(cs) /\ \A i \in Begun(cs) : i <= last
      /\ m \in BOOLEAN /\ m2 \in BOOLEAN /\ (m2 <=> (m \/ old.id # cs[last].id))
  BY DEF GoesOn, OneOf, IsLast
<1>2. PICK ds : ds = Append(cs, x)
  OBVIOUS
<1>3. Begun(ds) = Begun(cs) /\ \A i \in Begun(cs) : ds[i] = cs[i]
  <2>1. /\ Begun(Append(cs, x)) = Begun(cs) \cup (IF x.kind = "call" THEN {Len(cs) + 1} ELSE {})
        /\ \A i \in Begun(cs) : Append(cs, x)[i] = cs[i] /\ i # Len(cs) + 1
        /\ Append(cs, x)[Len(cs) + 1] = x
    BY <1>1, BegunGrows
  <2> QED
    BY <1>1, <1>2, <2>1
<1>4. PICK rest : rest = Without(calls, old.id)
  OBVIOUS
<1>5. ASSUME NEW i \in Begun(cs)
      PROVE  /\ i # last => Arguments(ds, i) = Arguments(cs, i)
             /\ i = last => Arguments(ds, i) = Arguments(cs, i) \o x.pieces
  <2>1. i \in 1..Len(cs) /\ last \in 1..Len(cs) /\ i <= last /\ cs[last].kind = "call" /\ Len(cs) \in Nat
    BY <1>1 DEF Begun
  <2>2. /\ Arguments(cs, i) \in Seq(Nat)
        /\ Arguments(ds, i) = Arguments(cs, i) \o (IF \A e \in i + 1..Len(cs) : cs[e].kind # "call" THEN x.pieces ELSE <<>>)
    BY <1>1, <1>2, <2>1, ArgumentsGrow
  <2>3. CASE i # last
    <3>1. last \in i + 1..Len(cs)
      BY <2>1, <2>3
    <3>2. Arguments(ds, i) = Arguments(cs, i) \o <<>>
      BY <2>1, <2>2, <3>1
    <3> QED
      BY <2>2, <2>3, <3>2, PiecesConcat
  <2>4. CASE i = last
    <3>1. ASSUME NEW e \in i + 1..Len(cs), cs[e].kind = "call" PROVE FALSE
      <4>1. e \in Begun(cs) /\ ~(e <= last)
        BY <2>1, <2>4, <3>1 DEF Begun
      <4> QED
        BY <1>1, <4>1
    <3> QED
      BY <2>2, <2>4, <3>1
  <2> QED
    BY <2>3, <2>4
<1>6. /\ \A call \in calls : \E i \in Begun(cs) : cs[i].id = call.id /\ cs[i].name = call.name
      /\ \A i \in Begun(cs) : \E call \in calls : cs[i].id = call.id /\ cs[i].name = call.name
      /\ \A i, j \in Begun(cs) : cs[i].id = cs[j].id => i = j
      /\ ~m => \A call \in calls, i \in Begun(cs) : cs[i].id = call.id => Arguments(cs, i) = call.args
  BY <1>1, Zenon DEF CallsFit
<1>7. \A call \in rest : call \in calls /\ call.id # old.id
  BY <1>4 DEF Without
<1>8. \A call \in calls : call = old \/ call \in rest
  BY <1>1, <1>4 DEF Without
<1>9. \A call \in rest \cup {new} : \E i \in Begun(ds) : ds[i].id = call.id /\ ds[i].name = call.name
  <2>1. \A call \in rest : \E i \in Begun(ds) : ds[i].id = call.id /\ ds[i].name = call.name
    BY <1>3, <1>6, <1>7
  <2>2. \E i \in Begun(ds) : ds[i].id = new.id /\ ds[i].name = new.name
    BY <1>1, <1>3, <1>6
  <2> QED
    BY <2>1, <2>2
<1>10. ASSUME NEW i \in Begun(ds) PROVE \E call \in rest \cup {new} : ds[i].id = call.id /\ ds[i].name = call.name
  <2>1. PICK call \in calls : ds[i].id = call.id /\ ds[i].name = call.name
    BY <1>3, <1>6
  <2>2. CASE call = old
    BY <1>1, <2>1, <2>2
  <2>3. CASE call \in rest
    BY <2>1, <2>3
  <2> QED
    BY <1>8, <2>2, <2>3
<1>11. \A i, j \in Begun(ds) : ds[i].id = ds[j].id => i = j
  BY <1>3, <1>6
<1>12. ASSUME ~m2 PROVE \A call \in rest \cup {new}, i \in Begun(ds) : ds[i].id = call.id => Arguments(ds, i) = call.args
  <2>1. ~m /\ old.id = cs[last].id
    BY <1>1, <1>12
  <2> SUFFICES ASSUME NEW call \in rest \cup {new}, NEW i \in Begun(ds), ds[i].id = call.id
               PROVE  Arguments(ds, i) = call.args
    OBVIOUS
  <2>2. i \in Begun(cs) /\ ds[i] = cs[i]
    BY <1>3
  <2>3. CASE call = new
    <3>1. cs[i].id = cs[last].id
      BY <1>1, <2>1, <2>2, <2>3
    <3>2. i = last
      BY <1>1, <1>6, <2>2, <3>1
    <3>3. Arguments(cs, i) = old.args
      BY <1>1, <1>6, <2>1, <2>2, <3>2
    <3> QED
      BY <1>1, <1>5, <2>2, <2>3, <3>2, <3>3
  <2>4. CASE call \in rest
    <3>1. i # last
      BY <1>7, <2>1, <2>2, <2>4
    <3>2. Arguments(cs, i) = call.args
      BY <1>6, <1>7, <2>1, <2>2, <2>4
    <3> QED
      BY <1>5, <2>2, <3>1, <3>2
  <2> QED
    BY <2>3, <2>4
<1> QED
  <2>1. CallsFit(rest \cup {new}, ds, m2)
    BY <1>9, <1>10, <1>11, <1>12, Zenon DEF CallsFit
  <2> QED
    BY <1>2, <1>4, <2>1

\* A part of content that begins, and its chunk.
LEMMA ContentBegins ==
  ASSUME NEW ps, NEW cs, NEW n, NEW m, ReplyFits(ps, cs, n, m),
         NEW part \in PartRecords, part.kind \in Contents, part.name = <<>>, part.id = n + 1, OfVendor(part),
         \A i \in 1..Len(part.pieces) : part.pieces[i] # Gap,
         \A k \in 1..Len(ps) : ~(ps[k].tracked /\ ps[k].vendor = part.vendor),
         NEW x \in ChunkRecords, x.kind = part.kind, x.pieces = part.pieces
  PROVE  ReplyFits(Append(ps, part), Append(cs, x), n + 1, m)
<1>1. PartsFit(ps, n) /\ cs \in Seq(ChunkRecords) /\ m \in BOOLEAN /\ ContentFits(ps, cs, m) /\ CallsFit(NamedCalls(ps), cs, m)
  BY Zenon DEF ReplyFits
<1>2. ps \in Seq(PartRecords)
  BY <1>1, Zenon DEF PartsFit
<1>3. PartsFit(Append(ps, part), n + 1)
  BY <1>1, PartAdded
<1>4. ContentFits(Append(ps, part), Append(cs, x), m)
  BY <1>1, <1>2, ContentAdded
<1>5. NamedCalls(Append(ps, part)) = NamedCalls(ps)
  <2>1. ~IsNamed(part)
    BY DEF IsNamed
  <2> QED
    BY <1>2, <2>1, NamedAdded
<1>6. CallsFit(NamedCalls(ps), Append(cs, x), m)
  <2>1. x.kind \notin {"call", "args"}
    BY DEF Contents
  <2> QED
    BY <1>1, <2>1, CallsUntouched
<1>7. Append(cs, x) \in Seq(ChunkRecords)
  BY <1>1, AppendProperties
<1> QED
  BY <1>1, <1>3, <1>4, <1>5, <1>6, <1>7, Zenon DEF ReplyFits

\* A part of content goes on with what a chunk brings.
PartGoesOn(ps, qs, k, x, m, m2) ==
  /\ qs \in Seq(PartRecords) /\ x \in ChunkRecords /\ GrownBy(ps, qs, k, x.pieces)
  /\ x.kind = ps[k].kind /\ x.kind \in Contents /\ \A i \in 1..Len(x.pieces) : x.pieces[i] # Gap
  /\ \A l \in 1..Len(ps) : /\ qs[l].id = ps[l].id /\ qs[l].vendor = ps[l].vendor /\ qs[l].tracked = ps[l].tracked
                           /\ qs[l].name = ps[l].name
  /\ m2 \in BOOLEAN /\ (m2 <=> (m \/ \E l \in k + 1..Len(ps) : ps[l].kind = x.kind))

\* A part of content that goes on, and its chunk.
LEMMA ContentGoesOn ==
  ASSUME NEW ps, NEW cs, NEW n, NEW m, ReplyFits(ps, cs, n, m),
         NEW qs, NEW k, NEW x, NEW m2, PartGoesOn(ps, qs, k, x, m, m2)
  PROVE  ReplyFits(qs, Append(cs, x), n + 1, m2)
<1>1. /\ qs \in Seq(PartRecords) /\ x \in ChunkRecords /\ GrownBy(ps, qs, k, x.pieces)
      /\ x.kind = ps[k].kind /\ x.kind \in Contents /\ \A i \in 1..Len(x.pieces) : x.pieces[i] # Gap
      /\ \A l \in 1..Len(ps) : /\ qs[l].id = ps[l].id /\ qs[l].vendor = ps[l].vendor /\ qs[l].tracked = ps[l].tracked
                               /\ qs[l].name = ps[l].name
      /\ m2 \in BOOLEAN /\ (m2 <=> (m \/ \E l \in k + 1..Len(ps) : ps[l].kind = x.kind))
  BY DEF PartGoesOn
<1>2. PartsFit(ps, n) /\ cs \in Seq(ChunkRecords) /\ m \in BOOLEAN /\ ContentFits(ps, cs, m) /\ CallsFit(NamedCalls(ps), cs, m)
  BY Zenon DEF ReplyFits
<1>3. ps \in Seq(PartRecords) /\ n \in Nat
  BY <1>2, Zenon DEF PartsFit
<1>4. /\ Len(qs) = Len(ps) /\ k \in 1..Len(ps) /\ x.pieces \in Seq(Nat) /\ qs[k].pieces = ps[k].pieces \o x.pieces
      /\ \A l \in 1..Len(ps) : qs[l].kind = ps[l].kind /\ (l # k => qs[l].pieces = ps[l].pieces)
  BY <1>1, Zenon DEF GrownBy
<1>5. ps[k].pieces \in Seq(Nat)
  <2>1. ps[k] \in PartRecords
    BY <1>3, <1>4
  <2> QED
    BY <2>1, RecordsHavePieces DEF HavePieces
<1>6. \A l \in 1..Len(ps) : \A i \in 1..Len(qs[l].pieces) : qs[l].pieces[i] # Gap
  <2>1. \A l \in 1..Len(ps) : \A i \in 1..Len(ps[l].pieces) : ps[l].pieces[i] # Gap
    BY <1>2, Zenon DEF PartsFit
  <2>2. \A i \in 1..Len(qs[k].pieces) : qs[k].pieces[i] # Gap
    <3>1. \A i \in 1..Len(ps[k].pieces) : ps[k].pieces[i] # Gap
      BY <1>4, <2>1
    <3> QED
      <4>1. \A i \in 1..Len(ps[k].pieces \o x.pieces) : (ps[k].pieces \o x.pieces)[i] # Gap
        BY <1>1, <1>4, <1>5, <3>1, GaplessConcat
      <4> QED
        BY <1>4, <4>1, Zenon
  <2> QED
    BY <1>4, <2>1, <2>2, Zenon
<1>7. PartsFit(qs, n + 1)
  <2>1. n + 1 \in Nat /\ n <= n + 1
    BY <1>3
  <2>2. \A l \in 1..Len(ps) : /\ qs[l].id = ps[l].id /\ qs[l].kind = ps[l].kind /\ qs[l].vendor = ps[l].vendor
                              /\ qs[l].tracked => ps[l].tracked
    BY <1>1, <1>4
  <2> QED
    BY <1>1, <1>2, <1>4, <1>6, <2>1, <2>2, PartsChanged
<1>8. ContentFits(qs, Append(cs, x), m2)
  BY <1>1, <1>2, <1>3, ContentGrown
<1>9. NamedCalls(qs) = NamedCalls(ps)
  <2>1. ps[k].kind # "call"
    BY <1>1 DEF Contents
  <2>2. \A l \in 1..Len(ps) : /\ qs[l].kind = ps[l].kind
                              /\ ps[l].kind = "call" => /\ qs[l].id = ps[l].id /\ qs[l].name = ps[l].name
                                                        /\ qs[l].pieces = ps[l].pieces
    BY <1>1, <1>4, <2>1
  <2> QED
    BY <1>4, <2>2, NamedSame
<1>10. CallsFit(NamedCalls(ps), Append(cs, x), m2)
  <2>1. x.kind \notin {"call", "args"}
    BY <1>1 DEF Contents
  <2> QED
    BY <1>1, <1>2, <2>1, CallsUntouched
<1>11. Append(cs, x) \in Seq(ChunkRecords)
  BY <1>1, <1>2, AppendProperties
<1> QED
  BY <1>1, <1>7, <1>8, <1>9, <1>10, <1>11, Zenon DEF ReplyFits

\* Parts that are closed.
LEMMA PartsClosed ==
  ASSUME NEW ps, NEW cs, NEW n, NEW m, ReplyFits(ps, cs, n, m), NEW qs \in Seq(PartRecords), Len(qs) = Len(ps),
         \A l \in 1..Len(ps) : /\ qs[l].id = ps[l].id /\ qs[l].kind = ps[l].kind /\ qs[l].vendor = ps[l].vendor
                               /\ qs[l].name = ps[l].name /\ qs[l].pieces = ps[l].pieces
                               /\ qs[l].tracked => ps[l].tracked,
         NEW n2 \in Nat, n <= n2
  PROVE  ReplyFits(qs, cs, n2, m)
<1>1. PartsFit(ps, n) /\ cs \in Seq(ChunkRecords) /\ m \in BOOLEAN /\ ContentFits(ps, cs, m) /\ CallsFit(NamedCalls(ps), cs, m)
  BY Zenon DEF ReplyFits
<1>2. ps \in Seq(PartRecords)
  BY <1>1, Zenon DEF PartsFit
<1>3. PartsFit(qs, n2)
  <2>1. \A l \in 1..Len(ps) : \A i \in 1..Len(ps[l].pieces) : ps[l].pieces[i] # Gap
    BY <1>1, Zenon DEF PartsFit
  <2>2. \A l \in 1..Len(ps) : \A i \in 1..Len(qs[l].pieces) : qs[l].pieces[i] # Gap
    BY <2>1
  <2>3. \A l \in 1..Len(ps) : /\ qs[l].id = ps[l].id /\ qs[l].kind = ps[l].kind /\ qs[l].vendor = ps[l].vendor
                              /\ qs[l].tracked => ps[l].tracked
    OBVIOUS
  <2> QED
    BY <1>1, <2>2, <2>3, PartsChanged
<1>4. \A kind : Gathered(qs, kind) = Gathered(ps, kind)
  <2>1. \A kind : \A l \in 1..Len(ps) : qs[l].kind = ps[l].kind /\ (ps[l].kind = kind => qs[l].pieces = ps[l].pieces)
    OBVIOUS
  <2>2. HavePieces(PartRecords)
    BY RecordsHavePieces
  <2> QED
    BY <1>2, <2>1, <2>2, GatheredSame
<1>5. ContentFits(qs, cs, m)
  BY <1>1, <1>4, Zenon DEF ContentFits
<1>6. NamedCalls(qs) = NamedCalls(ps)
  BY NamedSame
<1> QED
  BY <1>1, <1>3, <1>5, <1>6, Zenon DEF ReplyFits

\* What is gathered stays the same.
LEMMA ContentSame ==
  ASSUME NEW ps, NEW cs, NEW m \in BOOLEAN, ContentFits(ps, cs, m), NEW qs, NEW ds, NEW m2 \in BOOLEAN, m => m2,
         \A kind \in Contents : Gathered(qs, kind) = Gathered(ps, kind) /\ Gathered(ds, kind) = Gathered(cs, kind)
  PROVE  ContentFits(qs, ds, m2)
BY Zenon DEF ContentFits

\* A chunk that brings no content.
LEMMA NoContent ==
  ASSUME NEW cs \in Seq(ChunkRecords), NEW x \in ChunkRecords, x.kind \notin Contents
  PROVE  \A kind \in Contents : Gathered(Append(cs, x), kind) = Gathered(cs, kind)
<1> SUFFICES ASSUME NEW kind \in Contents PROVE Gathered(Append(cs, x), kind) = Gathered(cs, kind)
  OBVIOUS
<1>1. x.kind # kind
  OBVIOUS
<1>2. Gathered(Append(cs, x), kind) = Gathered(cs, kind) \o (IF x.kind = kind THEN x.pieces ELSE <<>>) /\ Gathered(cs, kind) \in Seq(Nat)
  BY OneMoreGathered, Zenon
<1> QED
  BY <1>1, <1>2, PiecesConcat

\* A call that has no name yet: the client is not told.
LEMMA CallWaits ==
  ASSUME NEW ps, NEW cs, NEW n, NEW m, ReplyFits(ps, cs, n, m),
         NEW part \in PartRecords, part.kind = "call", part.name = <<>>, part.id = n + 1, OfVendor(part),
         \A i \in 1..Len(part.pieces) : part.pieces[i] # Gap,
         \A k \in 1..Len(ps) : ~(ps[k].tracked /\ ps[k].vendor = part.vendor)
  PROVE  ReplyFits(Append(ps, part), cs, n + 1, m)
<1>1. PartsFit(ps, n) /\ cs \in Seq(ChunkRecords) /\ m \in BOOLEAN /\ ContentFits(ps, cs, m) /\ CallsFit(NamedCalls(ps), cs, m)
  BY Zenon DEF ReplyFits
<1>2. ps \in Seq(PartRecords)
  BY <1>1, Zenon DEF PartsFit
<1>3. PartsFit(Append(ps, part), n + 1)
  BY <1>1, PartAdded
<1>4. ASSUME NEW kind \in Contents PROVE Gathered(Append(ps, part), kind) = Gathered(ps, kind)
  <2>1. part.kind # kind
    BY DEF Contents
  <2>2. Gathered(Append(ps, part), kind) = Gathered(ps, kind) \o (IF part.kind = kind THEN part.pieces ELSE <<>>) /\ Gathered(ps, kind) \in Seq(Nat)
    BY <1>2, OneMoreGathered, Zenon
  <2> QED
    BY <2>1, <2>2, PiecesConcat
<1>5. ContentFits(Append(ps, part), cs, m)
  BY <1>1, <1>4, ContentSame
<1>6. NamedCalls(Append(ps, part)) = NamedCalls(ps)
  <2>1. ~IsNamed(part)
    BY DEF IsNamed
  <2> QED
    BY <1>2, <2>1, NamedAdded
<1> QED
  BY <1>1, <1>3, <1>5, <1>6, Zenon DEF ReplyFits

\* A call that has its name at once: the client is told of it.
LEMMA CallStarts ==
  ASSUME NEW ps, NEW cs, NEW n, NEW m, ReplyFits(ps, cs, n, m),
         NEW part \in PartRecords, IsNamed(part), part.id = n + 1, OfVendor(part),
         \A i \in 1..Len(part.pieces) : part.pieces[i] # Gap,
         \A k \in 1..Len(ps) : ~(ps[k].tracked /\ ps[k].vendor = part.vendor),
         NEW x \in ChunkRecords, x.kind = "call", x.id = part.id, x.name = part.name[1], x.pieces = part.pieces
  PROVE  ReplyFits(Append(ps, part), Append(cs, x), n + 1, m)
<1>1. PartsFit(ps, n) /\ cs \in Seq(ChunkRecords) /\ m \in BOOLEAN /\ ContentFits(ps, cs, m) /\ CallsFit(NamedCalls(ps), cs, m)
  BY Zenon DEF ReplyFits
<1>2. ps \in Seq(PartRecords) /\ n \in Nat
  BY <1>1, Zenon DEF PartsFit
<1>3. PartsFit(Append(ps, part), n + 1)
  BY <1>1, PartAdded
<1>4. ContentFits(Append(ps, part), Append(cs, x), m)
  <2>1. x.kind = part.kind
    BY DEF IsNamed
  <2> QED
    BY <1>1, <1>2, <2>1, ContentAdded
<1>5. NamedCalls(Append(ps, part)) = NamedCalls(ps) \cup {Call(part)}
  BY <1>2, NamedAdded
<1>6. \A call \in NamedCalls(ps) : call.id # x.id
  <2>1. \A k \in 1..Len(ps) : ps[k].id \in 1..n
    BY <1>1, Zenon DEF PartsFit
  <2>2. \A call \in NamedCalls(ps) : call.id \in 1..n
    BY <2>1 DEF NamedCalls, Call
  <2> QED
    BY <1>2, <2>2
<1>7. CallsFit(NamedCalls(ps) \cup {Call(part)}, Append(cs, x), m)
  <2>1. Call(part).id = x.id /\ Call(part).name = x.name /\ Call(part).args = x.pieces
    BY DEF Call
  <2> QED
    BY <1>1, <1>6, <2>1, CallsBegin
<1>8. Append(cs, x) \in Seq(ChunkRecords)
  BY <1>1, AppendProperties
<1> QED
  BY <1>1, <1>3, <1>4, <1>5, <1>7, <1>8, Zenon DEF ReplyFits

\* A part of a call that changes in its name and pieces.
CallChanges(ps, qs, k) ==
  /\ qs \in Seq(PartRecords) /\ Len(qs) = Len(ps) /\ k \in 1..Len(ps)
  /\ \A l \in 1..Len(ps) : l # k => qs[l] = ps[l]
  /\ ps[k].kind = "call" /\ qs[k].kind = "call"
  /\ qs[k].id = ps[k].id /\ qs[k].vendor = ps[k].vendor /\ qs[k].tracked = ps[k].tracked
  /\ \A i \in 1..Len(qs[k].pieces) : qs[k].pieces[i] # Gap

\* Parts fit when one of a call changes, and no content does.
LEMMA CallChanged ==
  ASSUME NEW ps, NEW n, PartsFit(ps, n), NEW qs, NEW k, CallChanges(ps, qs, k)
  PROVE  /\ PartsFit(qs, n + 1)
         /\ \A kind \in Contents : Gathered(qs, kind) = Gathered(ps, kind)
         /\ NamedCalls(qs) = Without(NamedCalls(ps), ps[k].id) \cup (IF IsNamed(qs[k]) THEN {Call(qs[k])} ELSE {})
<1>1. /\ qs \in Seq(PartRecords) /\ Len(qs) = Len(ps) /\ k \in 1..Len(ps)
      /\ \A l \in 1..Len(ps) : l # k => qs[l] = ps[l]
      /\ ps[k].kind = "call" /\ qs[k].kind = "call"
      /\ qs[k].id = ps[k].id /\ qs[k].vendor = ps[k].vendor /\ qs[k].tracked = ps[k].tracked
      /\ \A i \in 1..Len(qs[k].pieces) : qs[k].pieces[i] # Gap
  BY Zenon DEF CallChanges
<1>2. ps \in Seq(PartRecords) /\ n \in Nat /\ \A l \in 1..Len(ps) : \A i \in 1..Len(ps[l].pieces) : ps[l].pieces[i] # Gap
  BY Zenon DEF PartsFit
<1>3. PartsFit(qs, n + 1)
  <2>1. n + 1 \in Nat /\ n <= n + 1
    BY <1>2
  <2>2. \A l \in 1..Len(ps) : /\ qs[l].id = ps[l].id /\ qs[l].kind = ps[l].kind /\ qs[l].vendor = ps[l].vendor
                              /\ qs[l].tracked => ps[l].tracked
    BY <1>1, Zenon
  <2>3. \A l \in 1..Len(ps) : \A i \in 1..Len(qs[l].pieces) : qs[l].pieces[i] # Gap
    BY <1>1, <1>2, Zenon
  <2> QED
    BY <1>1, <2>1, <2>2, <2>3, PartsChanged
<1>4. ASSUME NEW kind \in Contents PROVE Gathered(qs, kind) = Gathered(ps, kind)
  <2>1. kind # "call" /\ HavePieces(PartRecords)
    BY RecordsHavePieces DEF Contents
  <2>2. \A l \in 1..Len(ps) : qs[l].kind = ps[l].kind /\ (ps[l].kind = kind => qs[l].pieces = ps[l].pieces)
    BY <1>1, <2>1, Zenon
  <2> QED
    BY <1>1, <1>2, <2>1, <2>2, GatheredSame
<1>5. NamedCalls(qs) = Without(NamedCalls(ps), ps[k].id) \cup (IF IsNamed(qs[k]) THEN {Call(qs[k])} ELSE {})
  <2>1. Len(qs) = Len(ps) /\ k \in 1..Len(ps) /\ \A l \in 1..Len(ps) : l # k => qs[l] = ps[l]
    BY <1>1
  <2> QED
    BY <2>1, NamedChanged, SMTT(30)
<1> QED
  BY <1>3, <1>4, <1>5

\* The call of a part is the only one with its id.
LEMMA OneCall ==
  ASSUME NEW ps, NEW n, PartsFit(ps, n), NEW k \in 1..Len(ps)
  PROVE  /\ IsNamed(ps[k]) => Call(ps[k]) \in NamedCalls(ps)
         /\ \A call \in NamedCalls(ps) : call.id = ps[k].id => IsNamed(ps[k]) /\ call = Call(ps[k])
<1>1. \A x : x \in NamedCalls(ps) <=> \E l \in 1..Len(ps) : IsNamed(ps[l]) /\ x = Call(ps[l])
  BY Zenon DEF NamedCalls
<1>2. \A l \in 1..Len(ps) : ps[l].id = ps[k].id => l = k
  BY Zenon DEF PartsFit
<1>3. \A l \in 1..Len(ps) : Call(ps[l]).id = ps[l].id
  BY DEF Call
<1> HIDE DEF NamedCalls, IsNamed, Call
<1> QED
  BY <1>1, <1>2, <1>3

\* A call that still has no name.
LEMMA CallStillWaits ==
  ASSUME NEW ps, NEW cs, NEW n, NEW m, ReplyFits(ps, cs, n, m), NEW qs, NEW k, CallChanges(ps, qs, k),
         ps[k].name = <<>>, qs[k].name = <<>>
  PROVE  ReplyFits(qs, cs, n + 1, m)
<1>1. PartsFit(ps, n) /\ cs \in Seq(ChunkRecords) /\ m \in BOOLEAN /\ ContentFits(ps, cs, m) /\ CallsFit(NamedCalls(ps), cs, m)
  BY Zenon DEF ReplyFits
<1>2. /\ PartsFit(qs, n + 1)
      /\ \A kind \in Contents : Gathered(qs, kind) = Gathered(ps, kind)
      /\ NamedCalls(qs) = Without(NamedCalls(ps), ps[k].id) \cup (IF IsNamed(qs[k]) THEN {Call(qs[k])} ELSE {})
  BY <1>1, CallChanged
<1>3. ContentFits(qs, cs, m)
  BY <1>1, <1>2, ContentSame
<1>4. NamedCalls(qs) = NamedCalls(ps)
  <2>1. ~IsNamed(ps[k]) /\ ~IsNamed(qs[k])
    BY DEF IsNamed
  <2>2. k \in 1..Len(ps)
    BY Zenon DEF CallChanges
  <2>3. \A call \in NamedCalls(ps) : call.id # ps[k].id
    BY <1>1, <2>1, <2>2, OneCall
  <2> QED
    BY <1>2, <2>1, <2>3 DEF Without
<1> QED
  BY <1>1, <1>2, <1>3, <1>4, Zenon DEF ReplyFits

\* A call that gets its name: the client is told of it.
LEMMA CallIsNamed ==
  ASSUME NEW ps, NEW cs, NEW n, NEW m, ReplyFits(ps, cs, n, m), NEW qs, NEW k, CallChanges(ps, qs, k),
         ps[k].name = <<>>, IsNamed(qs[k]),
         NEW x \in ChunkRecords, x.kind = "call", x.id = qs[k].id, x.name = qs[k].name[1], x.pieces = qs[k].pieces
  PROVE  ReplyFits(qs, Append(cs, x), n + 1, m)
<1>1. PartsFit(ps, n) /\ cs \in Seq(ChunkRecords) /\ m \in BOOLEAN /\ ContentFits(ps, cs, m) /\ CallsFit(NamedCalls(ps), cs, m)
  BY Zenon DEF ReplyFits
<1>2. /\ PartsFit(qs, n + 1)
      /\ \A kind \in Contents : Gathered(qs, kind) = Gathered(ps, kind)
      /\ NamedCalls(qs) = Without(NamedCalls(ps), ps[k].id) \cup (IF IsNamed(qs[k]) THEN {Call(qs[k])} ELSE {})
  BY <1>1, CallChanged
<1>3. ContentFits(qs, Append(cs, x), m)
  <2>1. \A kind \in Contents : Gathered(Append(cs, x), kind) = Gathered(cs, kind)
    <3>1. x.kind \notin Contents
      BY DEF Contents
    <3> QED
      BY <1>1, <3>1, NoContent
  <2> QED
    BY <1>1, <1>2, <2>1, ContentSame
<1>4. k \in 1..Len(ps) /\ qs[k].id = ps[k].id
  BY Zenon DEF CallChanges
<1>5. \A call \in NamedCalls(ps) : call.id # ps[k].id
  <2>1. ~IsNamed(ps[k])
    BY DEF IsNamed
  <2> QED
    BY <1>1, <1>4, <2>1, OneCall
<1>6. NamedCalls(qs) = NamedCalls(ps) \cup {Call(qs[k])}
  BY <1>2, <1>5 DEF Without
<1>7. CallsFit(NamedCalls(ps) \cup {Call(qs[k])}, Append(cs, x), m)
  <2>1. Call(qs[k]).id = x.id /\ Call(qs[k]).name = x.name /\ Call(qs[k]).args = x.pieces
    BY DEF Call
  <2>2. \A call \in NamedCalls(ps) : call.id # x.id
    BY <1>4, <1>5
  <2> QED
    BY <1>1, <2>1, <2>2, CallsBegin
<1>8. Append(cs, x) \in Seq(ChunkRecords)
  BY <1>1, AppendProperties
<1> QED
  BY <1>1, <1>2, <1>3, <1>6, <1>7, <1>8, Zenon DEF ReplyFits

\* The call that the client was told of last.
LastBegun(cs) ==
  CHOOSE c \in DOMAIN cs : cs[c].kind = "call" /\ \A d \in DOMAIN cs : cs[d].kind = "call" => d <= c

\* A part of a call gets what a chunk of arguments brings.
CallGrows(ps, qs, k, cs, x, m, m2) ==
  /\ CallChanges(ps, qs, k)
  /\ ps[k].name # <<>> /\ qs[k].name # <<>> /\ qs[k].name[1] = ps[k].name[1]
  /\ x \in ChunkRecords /\ x.kind = "args" /\ qs[k].pieces = ps[k].pieces \o x.pieces
  /\ m2 \in BOOLEAN /\ (m2 <=> (m \/ qs[k].id # cs[LastBegun(cs)].id))

\* A call that has its name goes on with its arguments.
LEMMA CallGoesOn ==
  ASSUME NEW ps, NEW cs, NEW n, NEW m, ReplyFits(ps, cs, n, m),
         NEW qs, NEW k, NEW x, NEW m2, CallGrows(ps, qs, k, cs, x, m, m2)
  PROVE  ReplyFits(qs, Append(cs, x), n + 1, m2)
<1>1. /\ CallChanges(ps, qs, k)
      /\ ps[k].name # <<>> /\ qs[k].name # <<>> /\ qs[k].name[1] = ps[k].name[1]
      /\ x \in ChunkRecords /\ x.kind = "args" /\ qs[k].pieces = ps[k].pieces \o x.pieces
      /\ m2 \in BOOLEAN /\ (m2 <=> (m \/ qs[k].id # cs[LastBegun(cs)].id))
  BY DEF CallGrows
<1>2. PartsFit(ps, n) /\ cs \in Seq(ChunkRecords) /\ m \in BOOLEAN /\ ContentFits(ps, cs, m) /\ CallsFit(NamedCalls(ps), cs, m)
  BY <1>1, Zenon DEF ReplyFits
<1>3. /\ PartsFit(qs, n + 1)
      /\ \A kind \in Contents : Gathered(qs, kind) = Gathered(ps, kind)
      /\ NamedCalls(qs) = Without(NamedCalls(ps), ps[k].id) \cup (IF IsNamed(qs[k]) THEN {Call(qs[k])} ELSE {})
  BY <1>1, <1>2, CallChanged
<1>4. m => m2
  BY <1>1
<1>5. ContentFits(qs, Append(cs, x), m2)
  <2>1. \A kind \in Contents : Gathered(Append(cs, x), kind) = Gathered(cs, kind)
    <3>1. x.kind \notin Contents
      BY <1>1 DEF Contents
    <3> QED
      BY <1>1, <1>2, <3>1, NoContent
  <2> QED
    BY <1>1, <1>2, <1>3, <1>4, <2>1, ContentSame
<1>6. k \in 1..Len(ps) /\ qs[k].id = ps[k].id /\ ps[k].kind = "call" /\ qs[k].kind = "call"
  BY <1>1, Zenon DEF CallChanges
<1>7. IsNamed(ps[k]) /\ IsNamed(qs[k])
  BY <1>1, <1>6 DEF IsNamed
<1>8. PICK old : old = Call(ps[k])
  OBVIOUS
<1>9. PICK new : new = Call(qs[k])
  OBVIOUS
<1>10. /\ old \in NamedCalls(ps) /\ old.id = ps[k].id /\ \A call \in NamedCalls(ps) : call.id = old.id => call = old
  <2>1. old.id = ps[k].id
    BY <1>1, <1>8 DEF Call
  <2> QED
    BY <1>1, <1>2, <1>6, <1>7, <1>8, <2>1, OneCall
<1>11. new.id = old.id /\ new.name = old.name /\ new.args = old.args \o x.pieces
  BY <1>1, <1>6, <1>8, <1>9 DEF Call
<1>12. PICK last : last = LastBegun(cs)
  OBVIOUS
<1>13. last \in Begun(cs) /\ \A i \in Begun(cs) : i <= last
  <2>1. PICK c \in Begun(cs) : TRUE
    <3>1. \A call \in NamedCalls(ps) : \E i \in Begun(cs) : cs[i].id = call.id /\ cs[i].name = call.name
      BY <1>1, <1>2, Zenon DEF CallsFit
    <3> QED
      BY <1>1, <1>10, <3>1
  <2>2. Len(cs) \in Nat /\ DOMAIN cs = 1..Len(cs) /\ Begun(cs) \subseteq 1..Len(cs) /\ Begun(cs) # {}
    BY <1>1, <1>2, <2>1 DEF Begun
  <2>3. \E c2 \in Begun(cs) : \A d \in Begun(cs) : d <= c2
    BY <1>1, <2>2, LastOf
  <2>4. \E c2 \in DOMAIN cs : cs[c2].kind = "call" /\ \A d \in DOMAIN cs : cs[d].kind = "call" => d <= c2
    BY <1>1, <2>2, <2>3 DEF Begun
  <2>5. last \in DOMAIN cs /\ cs[last].kind = "call" /\ \A d \in DOMAIN cs : cs[d].kind = "call" => d <= last
    BY <1>1, <1>12, <2>4 DEF LastBegun
  <2> QED
    BY <1>1, <2>2, <2>5 DEF Begun
<1>14. m2 <=> (m \/ old.id # cs[last].id)
  BY <1>1, <1>6, <1>10, <1>12
<1>15. CallsFit(Without(NamedCalls(ps), old.id) \cup {new}, Append(cs, x), m2)
  <2>1. GoesOn(NamedCalls(ps), cs, m, x, old, new, last, m2)
    BY <1>1, <1>2, <1>10, <1>11, <1>13, <1>14, Zenon DEF GoesOn, OneOf, IsLast
  <2> QED
    BY <1>1, <2>1, CallsGoOn
<1>16. NamedCalls(qs) = Without(NamedCalls(ps), old.id) \cup {new}
  BY <1>1, <1>3, <1>7, <1>9, <1>10
<1>17. Append(cs, x) \in Seq(ChunkRecords)
  BY <1>1, <1>2, AppendProperties
<1> QED
  BY <1>1, <1>3, <1>5, <1>15, <1>16, <1>17, Zenon DEF ReplyFits

-----------------------------------------------------------------------------
(* The deltas of the provider.                                             *)

\* A part that is open for a vendor, of which there is one at most.
LEMMA OpenPart ==
  ASSUME NEW n, PartsFit(parts, n), NEW vendor
  PROVE  /\ Open(vendor) \subseteq 1..Len(parts)
         /\ \A k, l \in Open(vendor) : k = l
         /\ \A k \in Open(vendor) : parts[k] \in PartRecords /\ parts[k].vendor = vendor /\ OfVendor(parts[k])
         /\ \A k \in 1..Len(parts) : k \in Open(vendor) <=> parts[k].tracked /\ parts[k].vendor = vendor
<1>1. parts \in Seq(PartRecords) /\ DOMAIN parts = 1..Len(parts)
  BY DEF PartsFit
<1>2. \A k \in 1..Len(parts) : parts[k] \in PartRecords
  BY <1>1
<1>3. /\ \A k, l \in 1..Len(parts) : parts[k].tracked /\ parts[l].tracked /\ parts[k].vendor = parts[l].vendor => k = l
      /\ \A k \in 1..Len(parts) : OfVendor(parts[k])
  BY Zenon DEF PartsFit
<1>4. \A k : k \in Open(vendor) <=> k \in 1..Len(parts) /\ parts[k].vendor = vendor /\ parts[k].tracked
  BY <1>1, Zenon DEF Open
<1> QED
  BY <1>2, <1>3, <1>4, Zenon

\* A delta of content is collected into its part, and its chunk brings the same.
LEMMA Collected ==
  ASSUME ReplyFits(parts, chunks, sent, mixed), NEW kind \in Contents, NEW vendor \in Vendors \ CallVendors,
         vendor \in {"reasoning_content", "reasoning"} => kind = "thinking",
         NEW pieces \in Seq(Nat), \A i \in 1..Len(pieces) : pieces[i] # Gap,
         \A k \in Open(vendor) : parts[k].kind = kind, sent' = sent + 1, Collect(kind, vendor, pieces)
  PROVE  ReplyFits(parts', chunks', sent', mixed')
<1>1. PartsFit(parts, sent) /\ chunks \in Seq(ChunkRecords) /\ mixed \in BOOLEAN
  BY Zenon DEF ReplyFits
<1>2. parts \in Seq(PartRecords) /\ sent \in Nat /\ DOMAIN parts = 1..Len(parts) /\ Len(parts) \in Nat
  BY <1>1 DEF PartsFit
<1>3. PICK x : x = Chunk(kind, 0, NoName, pieces)
  OBVIOUS
<1>4. x \in ChunkRecords /\ x.kind = kind /\ x.pieces = pieces
  BY <1>3 DEF Chunk, ChunkRecords, Names
<1>5. chunks' = Append(chunks, x)
  BY <1>3 DEF Collect
<1>6. /\ Open(vendor) \subseteq 1..Len(parts)
      /\ \A k, l \in Open(vendor) : k = l
      /\ \A k \in Open(vendor) : parts[k] \in PartRecords /\ parts[k].vendor = vendor /\ OfVendor(parts[k])
      /\ \A k \in 1..Len(parts) : k \in Open(vendor) <=> parts[k].tracked /\ parts[k].vendor = vendor
  BY <1>1, OpenPart
<1>7. CASE Open(vendor) = {}
  <2>1. PICK part : part = Part(kind, vendor, <<>>, pieces)
    OBVIOUS
  <2>2. /\ part \in PartRecords /\ part.kind = kind /\ part.vendor = vendor /\ part.name = <<>> /\ part.id = sent + 1
        /\ part.pieces = pieces
    BY <1>2, <2>1 DEF Part, PartRecords
  <2>3. OfVendor(part)
    BY <2>2 DEF OfVendor, Contents, CallVendors
  <2>4. parts' = Append(parts, part) /\ (mixed' <=> mixed)
    BY <1>7, <2>1 DEF Collect
  <2>5. \A k \in 1..Len(parts) : ~(parts[k].tracked /\ parts[k].vendor = part.vendor)
    BY <1>6, <1>7, <2>2
  <2>6. mixed' = mixed
    BY <1>1, <1>7 DEF Collect
  <2>7. ReplyFits(Append(parts, part), Append(chunks, x), sent + 1, mixed)
    BY <1>4, <2>2, <2>3, <2>5, ContentBegins
  <2> QED
    BY <1>5, <2>4, <2>6, <2>7
<1>8. CASE Open(vendor) # {}
  <2>1. PICK k \in Open(vendor) : TRUE
    BY <1>8
  <2>2. k \in 1..Len(parts) /\ parts[k].kind = kind /\ \A l \in 1..Len(parts) : l \in Open(vendor) <=> l = k
    BY <1>6, <2>1
  <2>3. PICK qs : qs = [l \in 1..Len(parts) |-> IF l = k THEN [parts[l] EXCEPT !.pieces = @ \o pieces] ELSE parts[l]]
    OBVIOUS
  <2>4. parts' = qs
    BY <1>2, <1>8, <2>2, <2>3 DEF Collect
  <2>5. \A l \in 1..Len(parts) : parts[l] \in PartRecords
    BY <1>2
  <2>6. parts[k].pieces \o pieces \in Seq(Nat)
    BY <2>2, <2>5, PiecesConcat DEF PartRecords
  <2>7. \A l \in 1..Len(parts) :
          /\ qs[l] \in PartRecords
          /\ qs[l].id = parts[l].id /\ qs[l].vendor = parts[l].vendor /\ qs[l].tracked = parts[l].tracked
          /\ qs[l].name = parts[l].name /\ qs[l].kind = parts[l].kind
          /\ (l # k => qs[l].pieces = parts[l].pieces)
    BY <2>3, <2>5, <2>6 DEF PartRecords
  <2>8. qs \in Seq(PartRecords) /\ Len(qs) = Len(parts)
    <3>1. qs \in [1..Len(parts) -> PartRecords]
      BY <2>3, <2>7
    <3> QED
      BY <1>2, <3>1, IsSeq
  <2>9. qs[k].pieces = parts[k].pieces \o pieces
    BY <2>2, <2>3, <2>5 DEF PartRecords
  <2>10. GrownBy(parts, qs, k, x.pieces)
    BY <1>4, <2>2, <2>7, <2>8, <2>9 DEF GrownBy
  <2>11. mixed' \in BOOLEAN /\ (mixed' <=> (mixed \/ \E l \in k + 1..Len(parts) : parts[l].kind = x.kind))
    <3>1. mixed' = (mixed \/ \E j \in Open(vendor) : \E l \in j + 1..Len(parts) : parts[l].kind = kind)
      BY DEF Collect
    <3>2. (\E j \in Open(vendor) : \E l \in j + 1..Len(parts) : parts[l].kind = kind)
            <=> \E l \in k + 1..Len(parts) : parts[l].kind = kind
      BY <1>6, <2>1
    <3> QED
      BY <1>1, <1>4, <3>1, <3>2
  <2>12. ReplyFits(qs, Append(chunks, x), sent + 1, mixed')
    <3>1. PICK m2 : m2 = mixed'
      OBVIOUS
    <3>2. m2 \in BOOLEAN /\ (m2 <=> (mixed \/ \E l \in k + 1..Len(parts) : parts[l].kind = x.kind))
      BY <2>11, <3>1
    <3>3. x.kind = parts[k].kind /\ x.kind \in Contents /\ \A i \in 1..Len(x.pieces) : x.pieces[i] # Gap
      BY <1>4, <2>2
    <3>4. PartGoesOn(parts, qs, k, x, mixed, m2)
      BY <1>4, <2>7, <2>8, <2>10, <3>2, <3>3 DEF PartGoesOn
    <3>5. ReplyFits(qs, Append(chunks, x), sent + 1, m2)
      BY <3>4, ContentGoesOn
    <3> QED
      BY <3>1, <3>5
  <2> QED
    BY <1>5, <2>4, <2>12
<1> QED
  BY <1>7, <1>8

\* Parts of content that are closed, for a delta that closes them.
LEMMA ContentClosed ==
  ASSUME ReplyFits(parts, chunks, sent, mixed), NEW n2 \in Nat, sent <= n2
  PROVE  /\ ReplyFits(Untrack(Open("content")), chunks, n2, mixed)
         /\ Len(Untrack(Open("content"))) = Len(parts)
         /\ \A k \in 1..Len(parts) : ~(Untrack(Open("content"))[k].tracked /\ Untrack(Open("content"))[k].vendor = "content")
<1>1. PartsFit(parts, sent)
  BY Zenon DEF ReplyFits
<1>2. parts \in Seq(PartRecords) /\ DOMAIN parts = 1..Len(parts) /\ Len(parts) \in Nat
  BY <1>1 DEF PartsFit
<1>3. PICK ks : ks = Open("content")
  OBVIOUS
<1>4. PICK qs : qs = Untrack(ks)
  OBVIOUS
<1>5. \A k \in 1..Len(parts) : k \in ks <=> parts[k].tracked /\ parts[k].vendor = "content"
  BY <1>1, <1>3, OpenPart
<1>6. qs = [k \in 1..Len(parts) |-> [parts[k] EXCEPT !.tracked = @ /\ k \notin ks]]
  BY <1>2, <1>4 DEF Untrack
<1>7. \A k \in 1..Len(parts) : parts[k] \in PartRecords
  BY <1>2
<1>8. ASSUME NEW k \in 1..Len(parts)
      PROVE  /\ qs[k] \in PartRecords
             /\ qs[k].id = parts[k].id /\ qs[k].kind = parts[k].kind /\ qs[k].vendor = parts[k].vendor
             /\ qs[k].name = parts[k].name /\ qs[k].pieces = parts[k].pieces
             /\ qs[k].tracked <=> (parts[k].tracked /\ k \notin ks)
  <2>1. PICK b \in BOOLEAN : b = (parts[k].tracked /\ k \notin ks)
    OBVIOUS
  <2>2. qs[k] = [parts[k] EXCEPT !.tracked = b]
    BY <1>6, <2>1
  <2>3. parts[k] \in PartRecords
    BY <1>7
  <2> QED
    BY <2>1, <2>2, <2>3 DEF PartRecords
<1>9. qs \in Seq(PartRecords) /\ Len(qs) = Len(parts)
  <2>1. qs \in [1..Len(parts) -> PartRecords]
    BY <1>6, <1>8
  <2> QED
    BY <1>2, <2>1, IsSeq
<1>10. ReplyFits(qs, chunks, n2, mixed)
  <2>1. \A l \in 1..Len(parts) : /\ qs[l].id = parts[l].id /\ qs[l].kind = parts[l].kind /\ qs[l].vendor = parts[l].vendor
                                 /\ qs[l].name = parts[l].name /\ qs[l].pieces = parts[l].pieces
                                 /\ qs[l].tracked => parts[l].tracked
    BY <1>8
  <2> QED
    BY <1>9, <2>1, PartsClosed
<1>11. \A k \in 1..Len(parts) : ~(qs[k].tracked /\ qs[k].vendor = "content")
  BY <1>5, <1>8
<1> QED
  BY <1>3, <1>4, <1>9, <1>10, <1>11

\* A delta is numbered and so never the line that joins parts.
LEMMA NewPiece ==
  ASSUME ReplyFits(parts, chunks, sent, mixed)
  PROVE  /\ sent \in Nat /\ <<sent + 1>> \in Seq(Nat) /\ \A i \in 1..Len(<<sent + 1>>) : <<sent + 1>>[i] # Gap
         /\ <<>> \in Seq(Nat) /\ \A i \in 1..Len(<<>>) : <<>>[i] # Gap
<1>1. PartsFit(parts, sent)
  BY Zenon DEF ReplyFits
<1>2. sent \in Nat
  BY <1>1 DEF PartsFit
<1> QED
  BY <1>2 DEF Gap

\* What is open for content is a part of text, or else one of thinking.
LEMMA OpenContent ==
  ASSUME ReplyFits(parts, chunks, sent, mixed)
  PROVE  /\ (\E k \in Open("content") : parts[k].kind = "thinking") => \A k \in Open("content") : parts[k].kind = "thinking"
         /\ ~(\E k \in Open("content") : parts[k].kind = "thinking") => \A k \in Open("content") : parts[k].kind = "text"
<1>1. PartsFit(parts, sent)
  BY Zenon DEF ReplyFits
<1>2. /\ \A k, l \in Open("content") : k = l
      /\ \A k \in Open("content") : parts[k] \in PartRecords /\ parts[k].vendor = "content" /\ OfVendor(parts[k])
  BY <1>1, OpenPart
<1>3. \A k \in Open("content") : parts[k].kind \in {"text", "thinking"}
  BY <1>2 DEF OfVendor, PartRecords, Contents, CallVendors
<1> QED
  BY <1>2, <1>3

\* The reply fits after each delta of content.
LEMMA ContentSteps ==
  ASSUME ReplyFits(parts, chunks, sent, mixed), TextDelta \/ ThinkTag \/ EndThinkTag \/ ReasoningDelta
  PROVE  ReplyFits(parts', chunks', sent', mixed')
<1>1. /\ sent \in Nat /\ <<sent + 1>> \in Seq(Nat) /\ \A i \in 1..Len(<<sent + 1>>) : <<sent + 1>>[i] # Gap
      /\ <<>> \in Seq(Nat) /\ \A i \in 1..Len(<<>>) : <<>>[i] # Gap
  BY NewPiece
<1>2. /\ (\E k \in Open("content") : parts[k].kind = "thinking") => \A k \in Open("content") : parts[k].kind = "thinking"
      /\ ~(\E k \in Open("content") : parts[k].kind = "thinking") => \A k \in Open("content") : parts[k].kind = "text"
  BY OpenContent
<1>3. "content" \in Vendors \ CallVendors /\ {"reasoning_content", "reasoning"} \subseteq Vendors \ CallVendors
      /\ "text" \in Contents /\ "thinking" \in Contents /\ "content" \notin {"reasoning_content", "reasoning"}
  BY DEF Vendors, CallVendors, Contents
<1>4. sent' = sent + 1
  BY DEF TextDelta, ThinkTag, EndThinkTag, ReasoningDelta, Streams
<1>5. ASSUME Collect("text", "content", <<sent + 1>>), ~(\E k \in Open("content") : parts[k].kind = "thinking")
      PROVE  ReplyFits(parts', chunks', sent', mixed')
  BY <1>1, <1>2, <1>3, <1>4, <1>5, Collected
<1>6. ASSUME Collect("thinking", "content", <<sent + 1>>), \E k \in Open("content") : parts[k].kind = "thinking"
      PROVE  ReplyFits(parts', chunks', sent', mixed')
  BY <1>1, <1>2, <1>3, <1>4, <1>6, Collected
<1>7. CASE TextDelta
  BY <1>5, <1>6, <1>7 DEF TextDelta
<1>8. CASE EndThinkTag
  <2>1. CASE \E k \in Open("content") : parts[k].kind = "thinking"
    <3>1. parts' = Untrack(Open("content")) /\ chunks' = chunks /\ mixed' = mixed
      BY <1>8, <2>1 DEF EndThinkTag
    <3>2. sent + 1 \in Nat /\ sent <= sent + 1
      BY <1>1
    <3>3. ReplyFits(Untrack(Open("content")), chunks, sent + 1, mixed)
      BY <3>2, ContentClosed
    <3> QED
      BY <1>4, <3>1, <3>3
  <2>2. CASE ~\E k \in Open("content") : parts[k].kind = "thinking"
    BY <1>5, <1>8, <2>2 DEF EndThinkTag
  <2> QED
    BY <2>1, <2>2
<1>9. CASE ThinkTag
  <2>1. CASE \E k \in Open("content") : parts[k].kind = "thinking"
    BY <1>6, <1>9, <2>1 DEF ThinkTag
  <2>2. CASE ~\E k \in Open("content") : parts[k].kind = "thinking"
    <3>1. PICK qs : qs = Untrack(Open("content"))
      OBVIOUS
    <3>2. PICK part : part = Part("thinking", "content", <<>>, <<>>)
      OBVIOUS
    <3>3. PICK x : x = Chunk("thinking", 0, NoName, <<>>)
      OBVIOUS
    <3>4. parts' = Append(qs, part) /\ chunks' = Append(chunks, x) /\ mixed' = mixed
      BY <1>9, <2>2, <3>1, <3>2, <3>3 DEF ThinkTag
    <3>5. ReplyFits(qs, chunks, sent, mixed) /\ \A k \in 1..Len(qs) : ~(qs[k].tracked /\ qs[k].vendor = "content")
      BY <1>1, <3>1, ContentClosed
    <3>6. /\ part \in PartRecords /\ part.kind = "thinking" /\ part.vendor = "content" /\ part.name = <<>>
          /\ part.id = sent + 1 /\ part.pieces = <<>>
      BY <1>1, <1>3, <3>2 DEF Part, PartRecords
    <3>7. OfVendor(part)
      BY <3>6 DEF OfVendor, CallVendors
    <3>8. x \in ChunkRecords /\ x.kind = "thinking" /\ x.pieces = <<>>
      BY <1>3, <3>3 DEF Chunk, ChunkRecords, Names
    <3>9. ReplyFits(Append(qs, part), Append(chunks, x), sent + 1, mixed)
      BY <1>3, <3>5, <3>6, <3>7, <3>8, ContentBegins
    <3> QED
      BY <1>4, <3>4, <3>9
  <2> QED
    BY <2>1, <2>2
<1>10. CASE ReasoningDelta
  <2>1. PICK field \in {"reasoning_content", "reasoning"} : Collect("thinking", field, <<sent + 1>>)
    BY <1>10 DEF ReasoningDelta
  <2>2. \A k \in Open(field) : parts[k].kind = "thinking"
    <3>1. PartsFit(parts, sent)
      BY Zenon DEF ReplyFits
    <3>2. \A k \in Open(field) : parts[k].vendor = field /\ OfVendor(parts[k])
      BY <3>1, OpenPart
    <3> QED
      BY <3>2 DEF OfVendor
  <2> QED
    BY <1>1, <1>3, <1>4, <2>1, <2>2, Collected
<1> QED
  BY <1>7, <1>8, <1>9, <1>10

\* The ids of parts.
Ids(ps) == {ps[k].id : k \in DOMAIN ps}

\* A part more has an id more, and changed parts keep theirs.
LEMMA IdsKept ==
  /\ \A ps \in Seq(PartRecords), part \in PartRecords : Ids(Append(ps, part)) = Ids(ps) \cup {part.id}
  /\ \A ps, qs : DOMAIN qs = DOMAIN ps /\ (\A k \in DOMAIN ps : qs[k].id = ps[k].id) => Ids(qs) = Ids(ps)
<1>1. ASSUME NEW ps \in Seq(PartRecords), NEW part \in PartRecords PROVE Ids(Append(ps, part)) = Ids(ps) \cup {part.id}
  <2>1. PICK qs : qs = Append(ps, part)
    OBVIOUS
  <2>2. /\ DOMAIN qs = 1..Len(ps) + 1 /\ DOMAIN ps = 1..Len(ps) /\ Len(ps) \in Nat /\ qs[Len(ps) + 1] = part
        /\ \A k \in 1..Len(ps) : qs[k] = ps[k]
    BY <2>1, AppendProperties
  <2>3. Len(ps) + 1 \in DOMAIN qs /\ (\A k \in DOMAIN ps : k \in DOMAIN qs) /\ \A k \in DOMAIN qs : k = Len(ps) + 1 \/ k \in DOMAIN ps
    BY <2>2
  <2>4. Ids(qs) = Ids(ps) \cup {part.id}
    BY <2>2, <2>3 DEF Ids
  <2> QED
    BY <2>1, <2>4
<1>2. ASSUME NEW ps, NEW qs, DOMAIN qs = DOMAIN ps, \A k \in DOMAIN ps : qs[k].id = ps[k].id PROVE Ids(qs) = Ids(ps)
  BY <1>2 DEF Ids
<1> QED
  BY <1>1, <1>2

\* A delta of a call, taken apart: what it goes on with, and what becomes of it.
CallDelta(index, name, pieces, given, part, begins, collected) ==
  /\ parts' = collected
  /\ IF part.name = <<>> THEN chunks' = chunks /\ mixed' = mixed
     ELSE IF begins
     THEN chunks' = Append(chunks, Chunk("call", part.id, name, part.pieces)) /\ mixed' = mixed
     ELSE /\ chunks' = Append(chunks, Chunk("args", 0, name, pieces))
          /\ mixed' = (mixed \/ part.id # chunks[LastBegun(chunks)].id)

\* The reply fits after a delta of a call, unless it fails for its name.
LEMMA CallSteps ==
  ASSUME ReplyFits(parts, chunks, sent, mixed), ToolCallDelta
  PROVE  \/ exchange' = "errored"
         \/ /\ exchange' = exchange /\ ReplyFits(parts', chunks', sent', mixed')
            /\ Ids(parts') \subseteq Ids(parts) \cup {sent + 1}
<1>1. PICK index \in {"first", "second"}, name \in Tools \cup {Undefined, NoName}, more \in BOOLEAN :
        /\ name = NoName => more
        /\ index = "second" => Open("first") # {}
        /\ LET ks == Open(index)
               old == CHOOSE k \in ks : TRUE
               given == IF name = NoName THEN <<>> ELSE <<name>>
               pieces == IF more THEN <<sent + 1>> ELSE <<>>
               part == IF ks = {} THEN Part("call", index, given, pieces)
                       ELSE [parts[old] EXCEPT !.name = @ \o given, !.pieces = @ \o pieces]
               begins == ks = {} \/ parts[old].name = <<>>
               collected == IF ks = {} THEN Append(parts, part) ELSE [parts EXCEPT ![old] = part]
           IN IF name # NoName /\ ~IsDefined(name) THEN ErrorOut
              ELSE /\ parts' = collected /\ UNCHANGED exchange
                   /\ IF part.name = <<>> THEN UNCHANGED <<chunks, mixed>>
                      ELSE IF begins
                      THEN chunks' = Append(chunks, Chunk("call", part.id, name, part.pieces)) /\ UNCHANGED mixed
                      ELSE /\ chunks' = Append(chunks, Chunk("args", 0, name, pieces))
                           /\ mixed' = (mixed \/ part.id # chunks[CHOOSE c \in DOMAIN chunks :
                                  chunks[c].kind = "call" /\ \A d \in DOMAIN chunks :
                                     chunks[d].kind = "call" => d <= c].id)
  BY Zenon DEF ToolCallDelta
<1>2. PICK ks : ks = Open(index)
  OBVIOUS
<1>3. PICK old : old = CHOOSE k \in ks : TRUE
  OBVIOUS
<1>4. PICK given : given = IF name = NoName THEN <<>> ELSE <<name>>
  OBVIOUS
<1>5. PICK pieces : pieces = IF more THEN <<sent + 1>> ELSE <<>>
  OBVIOUS
<1>6. PICK part : part = IF ks = {} THEN Part("call", index, given, pieces)
                         ELSE [parts[old] EXCEPT !.name = @ \o given, !.pieces = @ \o pieces]
  OBVIOUS
<1>7. PICK qs : qs = IF ks = {} THEN Append(parts, part) ELSE [parts EXCEPT ![old] = part]
  OBVIOUS
<1>8. ErrorOut \/ (exchange' = exchange /\ CallDelta(index, name, pieces, given, part, ks = {} \/ parts[old].name = <<>>, qs))
  BY <1>1, <1>2, <1>3, <1>4, <1>5, <1>6, <1>7, SMTT(30) DEF CallDelta, LastBegun
<1>9. CASE ErrorOut
  BY <1>9 DEF ErrorOut
<1>10. CASE exchange' = exchange /\ CallDelta(index, name, pieces, given, part, ks = {} \/ parts[old].name = <<>>, qs)
  <2>1. /\ sent \in Nat /\ <<sent + 1>> \in Seq(Nat) /\ \A i \in 1..Len(<<sent + 1>>) : <<sent + 1>>[i] # Gap
        /\ <<>> \in Seq(Nat) /\ \A i \in 1..Len(<<>>) : <<>>[i] # Gap
    BY NewPiece
  <2>2. pieces \in Seq(Nat) /\ \A i \in 1..Len(pieces) : pieces[i] # Gap
    BY <1>5, <2>1
  <2>3. given \in Seq(Names) /\ name \in Names /\ (given # <<>> => given[1] = name)
    <3>1. name \in Names
      BY <1>1 DEF Names
    <3> QED
      BY <1>4, <3>1
  <2>4. sent' = sent + 1
    BY DEF ToolCallDelta, Streams
  <2>5. PartsFit(parts, sent) /\ chunks \in Seq(ChunkRecords) /\ mixed \in BOOLEAN
    BY Zenon DEF ReplyFits
  <2>6. parts \in Seq(PartRecords) /\ DOMAIN parts = 1..Len(parts) /\ Len(parts) \in Nat
    BY <2>5 DEF PartsFit
  <2>7. index \in CallVendors /\ index \in Vendors
    BY <1>1 DEF CallVendors, Vendors
  <2>8. /\ ks \subseteq 1..Len(parts)
        /\ \A k, l \in ks : k = l
        /\ \A k \in ks : parts[k] \in PartRecords /\ parts[k].vendor = index /\ OfVendor(parts[k])
        /\ \A k \in 1..Len(parts) : k \in ks <=> parts[k].tracked /\ parts[k].vendor = index
    BY <1>2, <2>5, OpenPart
  <2>9. parts' = qs
    BY <1>10 DEF CallDelta
  <2>10. part.name = <<>> => chunks' = chunks /\ mixed' = mixed
    BY <1>10 DEF CallDelta
  <2>11. part.name # <<>> /\ (ks = {} \/ parts[old].name = <<>>)
           => chunks' = Append(chunks, Chunk("call", part.id, name, part.pieces)) /\ mixed' = mixed
    BY <1>10 DEF CallDelta
  <2>12. part.name # <<>> /\ ~(ks = {} \/ parts[old].name = <<>>)
           => /\ chunks' = Append(chunks, Chunk("args", 0, name, pieces))
              /\ mixed' = (mixed \/ part.id # chunks[LastBegun(chunks)].id)
    BY <1>10 DEF CallDelta
  <2>13. CASE ks = {}
    <3>1. part = Part("call", index, given, pieces) /\ qs = Append(parts, part)
      BY <1>6, <1>7, <2>13
    <3>2. /\ part \in PartRecords /\ part.kind = "call" /\ part.vendor = index /\ part.name = given
          /\ part.id = sent + 1 /\ part.pieces = pieces
      BY <2>1, <2>2, <2>3, <2>7, <3>1 DEF Part, PartRecords
    <3>3. OfVendor(part)
      BY <2>7, <3>2 DEF OfVendor, CallVendors
    <3>4. \A k \in 1..Len(parts) : ~(parts[k].tracked /\ parts[k].vendor = part.vendor)
      BY <2>8, <2>13, <3>2
    <3>5. Ids(qs) \subseteq Ids(parts) \cup {sent + 1}
      BY <2>6, <3>1, <3>2, IdsKept
    <3>6. CASE given = <<>>
      <4>1. ReplyFits(Append(parts, part), chunks, sent + 1, mixed)
        BY <2>2, <3>2, <3>3, <3>4, <3>6, CallWaits
      <4> QED
        BY <1>10, <2>4, <2>9, <3>5, <2>10, <3>1, <3>2, <3>6, <4>1
    <3>7. CASE given # <<>>
      <4>1. PICK x : x = Chunk("call", part.id, name, part.pieces)
        OBVIOUS
      <4>2. x \in ChunkRecords /\ x.kind = "call" /\ x.id = part.id /\ x.name = part.name[1] /\ x.pieces = part.pieces
        BY <2>1, <2>2, <2>3, <3>2, <3>7, <4>1 DEF Chunk, ChunkRecords
      <4>3. IsNamed(part)
        BY <3>2, <3>7 DEF IsNamed
      <4>4. ReplyFits(Append(parts, part), Append(chunks, x), sent + 1, mixed)
        BY <2>2, <3>2, <3>3, <3>4, <4>2, <4>3, CallStarts
      <4> QED
        BY <1>10, <2>4, <2>9, <3>5, <2>11, <2>13, <3>1, <3>2, <3>7, <4>1, <4>4
    <3> QED
      BY <3>6, <3>7
  <2>14. CASE ks # {}
    <3>1. old \in ks
      BY <1>3, <2>14
    <3>2. PICK was : was = parts[old]
      OBVIOUS
    <3>3. old \in 1..Len(parts) /\ was \in PartRecords /\ was.vendor = index /\ was.kind = "call"
      BY <2>7, <2>8, <3>1, <3>2 DEF OfVendor
    <3>4. was.name \in Seq(Names) /\ was.pieces \in Seq(Nat) /\ was.id \in Nat
      BY <3>3 DEF PartRecords
    <3>5. part = [was EXCEPT !.name = @ \o given, !.pieces = @ \o pieces] /\ qs = [parts EXCEPT ![old] = part]
      BY <1>6, <1>7, <2>14, <3>2
    <3>6. was.name \o given \in Seq(Names) /\ was.pieces \o pieces \in Seq(Nat)
      BY <2>2, <2>3, <3>4, ConcatProperties
    <3>7. /\ part \in PartRecords /\ part.kind = "call" /\ part.id = was.id /\ part.vendor = was.vendor
          /\ part.tracked = was.tracked /\ part.name = was.name \o given /\ part.pieces = was.pieces \o pieces
      BY <3>3, <3>5, <3>6 DEF PartRecords
    <3>8. qs \in Seq(PartRecords) /\ Len(qs) = Len(parts) /\ qs[old] = part /\ \A l \in 1..Len(parts) : l # old => qs[l] = parts[l]
      BY <2>6, <3>3, <3>5, <3>7, ExceptSeq
    <3>9. \A i \in 1..Len(part.pieces) : part.pieces[i] # Gap
      <4>1. \A i \in 1..Len(was.pieces) : was.pieces[i] # Gap
        BY <2>5, <3>2, <3>3, Zenon DEF PartsFit
      <4> QED
        BY <2>2, <3>4, <3>7, <4>1, GaplessConcat
    <3>10. CallChanges(parts, qs, old)
      BY <3>2, <3>3, <3>7, <3>8, <3>9 DEF CallChanges
    <3>11. Ids(qs) \subseteq Ids(parts) \cup {sent + 1}
      <4>1. DOMAIN qs = DOMAIN parts /\ \A l \in DOMAIN parts : qs[l].id = parts[l].id
        BY <2>6, <3>2, <3>7, <3>8
      <4> QED
        BY <4>1, IdsKept
    <3>12. CASE part.name = <<>>
      <4>1. was.name = <<>>
        <5>1. was.name \o given = <<>>
          BY <3>7, <3>12
        <5>2. Len(was.name \o given) = Len(was.name) + Len(given) /\ Len(was.name \o given) = 0
          BY <2>3, <3>4, <5>1, ConcatProperties
        <5>3. Len(was.name) \in Nat /\ Len(given) \in Nat
          BY <2>3, <3>4
        <5>4. Len(was.name) = 0
          BY <5>2, <5>3
        <5> QED
          BY <3>4, <5>4
      <4>2. ReplyFits(qs, chunks, sent + 1, mixed)
        BY <3>2, <3>8, <3>10, <3>12, <4>1, CallStillWaits
      <4> QED
        BY <1>10, <2>4, <2>9, <3>11, <2>10, <3>12, <4>2
    <3>13. CASE part.name # <<>> /\ was.name = <<>>
      <4>1. PICK x : x = Chunk("call", part.id, name, part.pieces)
        OBVIOUS
      <4>2. part.name = given /\ given # <<>>
        BY <2>3, <3>7, <3>13, ConcatEmptySeq
      <4>3. x \in ChunkRecords /\ x.kind = "call" /\ x.id = part.id /\ x.name = part.name[1] /\ x.pieces = part.pieces
        BY <2>3, <3>4, <3>6, <3>7, <4>1, <4>2 DEF Chunk, ChunkRecords
      <4>4. IsNamed(part)
        BY <3>7, <3>13 DEF IsNamed
      <4>5. ReplyFits(qs, Append(chunks, x), sent + 1, mixed)
        BY <3>2, <3>8, <3>10, <3>13, <4>3, <4>4, CallIsNamed
      <4> QED
        BY <1>10, <2>4, <2>9, <3>11, <2>11, <3>2, <3>13, <4>1, <4>5
    <3>14. CASE part.name # <<>> /\ was.name # <<>>
      <4>1. PICK x : x = Chunk("args", 0, name, pieces)
        OBVIOUS
      <4>2. x \in ChunkRecords /\ x.kind = "args" /\ part.pieces = was.pieces \o x.pieces
        BY <2>2, <2>3, <3>7, <4>1 DEF Chunk, ChunkRecords
      <4>3. part.name[1] = was.name[1]
        BY <2>3, <3>4, <3>7, <3>14
      <4>4. PICK m2 : m2 = mixed'
        OBVIOUS
      <4>5. m2 \in BOOLEAN /\ (m2 <=> (mixed \/ part.id # chunks[LastBegun(chunks)].id)) /\ chunks' = Append(chunks, x)
        BY <2>5, <2>12, <2>14, <3>2, <3>14, <4>1, <4>4
      <4>6. ReplyFits(qs, Append(chunks, x), sent + 1, m2)
        <5>1. /\ parts[old].name # <<>> /\ qs[old].name # <<>> /\ qs[old].name[1] = parts[old].name[1]
              /\ qs[old].pieces = parts[old].pieces \o x.pieces
              /\ (m2 <=> (mixed \/ qs[old].id # chunks[LastBegun(chunks)].id))
          BY <3>2, <3>8, <3>14, <4>2, <4>3, <4>5
        <5>2. CallGrows(parts, qs, old, chunks, x, mixed, m2)
          BY <3>10, <4>2, <4>5, <5>1 DEF CallGrows
        <5> QED
          BY <5>2, CallGoesOn
      <4> QED
        BY <1>10, <2>4, <2>9, <3>11, <4>4, <4>5, <4>6
    <3> QED
      BY <3>12, <3>13, <3>14
  <2> QED
    BY <2>13, <2>14
<1> QED
  BY <1>8, <1>9, <1>10

-----------------------------------------------------------------------------
(* The reply that is stored.                                               *)

CallLists(ps) == [k \in DOMAIN ps |-> IF IsNamed(ps[k]) THEN <<Call(ps[k])>> ELSE <<>>]
CallsOf(ps) == FlattenSeq(CallLists(ps))
OwnIds(s) == \A k, l \in 1..Len(s) : s[k].id = s[l].id => k = l

\* The call of a part that is named.
LEMMA CallTyped ==
  ASSUME NEW part \in PartRecords
  PROVE  (IF IsNamed(part) THEN <<Call(part)>> ELSE <<>>) \in Seq(CallRecords)
<1>1. part.name \in Seq(Names) /\ part.id \in Nat /\ part.pieces \in Seq(Nat)
  BY DEF PartRecords
<1>2. CASE IsNamed(part)
  <2>1. part.name # <<>>
    BY <1>2 DEF IsNamed
  <2>2. part.name[1] \in Names
    BY <1>1, <2>1
  <2>3. Call(part) \in CallRecords
    BY <1>1, <2>2 DEF Call, CallRecords
  <2> QED
    BY <1>2, <2>3
<1>3. CASE ~IsNamed(part)
  BY <1>3
<1> QED
  BY <1>2, <1>3

\* One sequence of calls for each part.
LEMMA CallListsTyped ==
  ASSUME NEW ps \in Seq(PartRecords)
  PROVE  CallLists(ps) \in Seq(Seq(CallRecords)) /\ Len(CallLists(ps)) = Len(ps)
<1>1. Len(ps) \in Nat /\ DOMAIN ps = 1..Len(ps)
  OBVIOUS
<1>2. CallLists(ps) = [k \in 1..Len(ps) |-> IF IsNamed(ps[k]) THEN <<Call(ps[k])>> ELSE <<>>]
  BY <1>1 DEF CallLists
<1>3. \A k \in 1..Len(ps) : (IF IsNamed(ps[k]) THEN <<Call(ps[k])>> ELSE <<>>) \in Seq(CallRecords)
  <2>1. \A k \in 1..Len(ps) : ps[k] \in PartRecords
    BY <1>1
  <2> QED
    BY <2>1, CallTyped, Zenon
<1>4. CallLists(ps) \in [1..Len(ps) -> Seq(CallRecords)]
  BY <1>2, <1>3, Zenon
<1> QED
  BY <1>1, <1>4, IsSeq

\* The calls of a reply with one more part.
LEMMA OneMorePart ==
  ASSUME NEW ps \in Seq(PartRecords), NEW x \in PartRecords
  PROVE  /\ CallsOf(ps) \in Seq(CallRecords)
         /\ CallsOf(Append(ps, x)) = IF IsNamed(x) THEN Append(CallsOf(ps), Call(x)) ELSE CallsOf(ps)
<1>1. PICK qs : qs = Append(ps, x)
  OBVIOUS
<1>2. /\ qs \in Seq(PartRecords) /\ Len(qs) = Len(ps) + 1 /\ Len(ps) \in Nat /\ qs[Len(ps) + 1] = x
      /\ \A k \in 1..Len(ps) : qs[k] = ps[k]
  BY <1>1, AppendProperties
<1>3. PICK t : t = IF IsNamed(x) THEN <<Call(x)>> ELSE <<>>
  OBVIOUS
<1>4. t \in Seq(CallRecords)
  BY <1>3, CallTyped
<1>5. /\ CallLists(qs) \in Seq(Seq(CallRecords)) /\ Len(CallLists(qs)) = Len(CallLists(ps)) + 1
      /\ CallLists(ps) \in Seq(Seq(CallRecords)) /\ Len(CallLists(ps)) = Len(ps)
  BY <1>2, CallListsTyped
<1>6. CallLists(qs)[Len(ps) + 1] = t
  <2>1. Len(ps) + 1 \in DOMAIN qs
    BY <1>2
  <2> QED
    BY <1>2, <1>3, <2>1 DEF CallLists
<1>7. \A k \in 1..Len(ps) : CallLists(qs)[k] = CallLists(ps)[k]
  <2>1. \A k \in 1..Len(ps) : k \in DOMAIN qs /\ k \in DOMAIN ps
    BY <1>2
  <2> QED
    BY <1>2, <2>1 DEF CallLists
<1>8. CallLists(qs) = Append(CallLists(ps), t)
  BY <1>4, <1>5, <1>6, <1>7, IsAppend
<1>9. CallsOf(qs) = CallsOf(ps) \o t /\ CallsOf(ps) \in Seq(CallRecords)
  BY <1>4, <1>5, <1>8, FlattenBasics DEF CallsOf
<1>10. CASE IsNamed(x)
  <2>1. Call(x) \in CallRecords
    BY <1>3, <1>4, <1>10
  <2>2. CallsOf(ps) \o <<Call(x)>> = Append(CallsOf(ps), Call(x))
    BY <1>9, <2>1, AppendIsConcat
  <2> QED
    BY <1>1, <1>3, <1>9, <1>10, <2>2
<1>11. CASE ~IsNamed(x)
  BY <1>1, <1>3, <1>9, <1>11, ConcatEmptySeq
<1> QED
  BY <1>10, <1>11

\* The calls of a reply are those of its named parts, and no two have one id.
LEMMA CallsOfParts ==
  \A ps \in Seq(PartRecords) :
    /\ CallsOf(ps) \in Seq(CallRecords) /\ ToSet(CallsOf(ps)) = NamedCalls(ps)
    /\ OwnIds(ps) => OwnIds(CallsOf(ps))
<1> DEFINE T == {ps \in Seq(PartRecords) : /\ CallsOf(ps) \in Seq(CallRecords) /\ ToSet(CallsOf(ps)) = NamedCalls(ps)
                                           /\ OwnIds(ps) => OwnIds(CallsOf(ps))}
<1>1. <<>> \in T
  <2>1. CallLists(<<>>) = <<>>
    BY DEF CallLists
  <2>2. CallsOf(<<>>) = <<>>
    BY <2>1, FlattenBasics DEF CallsOf
  <2>3. NamedCalls(<<>>) = {}
    BY DEF NamedCalls
  <2>4. OwnIds(<<>>)
    BY DEF OwnIds
  <2> QED
    <3>1. ToSet(<<>>) = {} /\ <<>> \in Seq(PartRecords) /\ <<>> \in Seq(CallRecords)
      BY InSeq
    <3> QED
      BY <2>2, <2>3, <2>4, <3>1
<1>2. ASSUME NEW ps \in Seq(PartRecords), NEW x \in PartRecords, ps \in T PROVE Append(ps, x) \in T
  <2>1. PICK qs : qs = Append(ps, x)
    OBVIOUS
  <2>2. PICK s : s = CallsOf(ps)
    OBVIOUS
  <2>3. s \in Seq(CallRecords) /\ CallsOf(qs) = IF IsNamed(x) THEN Append(s, Call(x)) ELSE s
    BY <2>1, <2>2, OneMorePart
  <2>4. NamedCalls(qs) = NamedCalls(ps) \cup (IF IsNamed(x) THEN {Call(x)} ELSE {})
    BY <2>1, NamedAdded
  <2>5. ToSet(s) = NamedCalls(ps) /\ (OwnIds(ps) => OwnIds(s))
    <3>1. ToSet(CallsOf(ps)) = NamedCalls(ps) /\ (OwnIds(ps) => OwnIds(CallsOf(ps)))
      BY <1>2, Zenon
    <3> QED
      BY <2>2, <3>1
  <2>6. /\ qs \in Seq(PartRecords) /\ Len(qs) = Len(ps) + 1 /\ Len(ps) \in Nat /\ qs[Len(ps) + 1] = x
        /\ \A k \in 1..Len(ps) : qs[k] = ps[k]
    BY <2>1, AppendProperties
  <2>7. ASSUME OwnIds(qs) PROVE OwnIds(ps) /\ \A k \in 1..Len(ps) : ps[k].id # x.id
    <3>1. \A k \in 1..Len(ps) : k \in 1..Len(qs) /\ k # Len(ps) + 1
      BY <2>6
    <3>2. Len(ps) + 1 \in 1..Len(qs)
      BY <2>6
    <3> QED
      BY <2>6, <2>7, <3>1, <3>2, Zenon DEF OwnIds
  <2>8. CASE ~IsNamed(x)
    <3>1. CallsOf(qs) = s /\ NamedCalls(qs) = NamedCalls(ps)
      BY <2>3, <2>4, <2>8
    <3> QED
      BY <2>1, <2>3, <2>5, <2>6, <2>7, <3>1
  <2>9. CASE IsNamed(x)
    <3>1. PICK c : c = Call(x)
      OBVIOUS
    <3>2. c \in CallRecords /\ c.id = x.id
      <4>1. <<c>> \in Seq(CallRecords)
        BY <2>9, <3>1, CallTyped
      <4> QED
        BY <3>1, <4>1 DEF Call
    <3>3. PICK u : u = Append(s, c)
      OBVIOUS
    <3>4. /\ u \in Seq(CallRecords) /\ Len(u) = Len(s) + 1 /\ Len(s) \in Nat /\ u[Len(s) + 1] = c
          /\ \A k \in 1..Len(s) : u[k] = s[k]
      BY <2>3, <3>2, <3>3, AppendProperties
    <3>5. CallsOf(qs) = u /\ NamedCalls(qs) = NamedCalls(ps) \cup {c}
      BY <2>3, <2>4, <2>9, <3>1, <3>3
    <3>6. ToSet(u) = ToSet(s) \cup {c}
      BY <2>3, <3>2, <3>3, InSeq
    <3>7. ASSUME OwnIds(qs) PROVE OwnIds(u)
      <4>1. \A call \in NamedCalls(ps) : call.id # x.id
        <5>1. \A k \in 1..Len(ps) : ps[k].id # x.id
          BY <2>7, <3>7
        <5> QED
          BY <5>1 DEF NamedCalls, Call
      <4>2. \A k \in 1..Len(s) : s[k].id # x.id
        <5>1. ToSet(s) = {s[k] : k \in 1..Len(s)}
          BY <2>3, InSeq
        <5> QED
          BY <2>5, <4>1, <5>1
      <4>3. OwnIds(s)
        BY <2>5, <2>7, <3>7
      <4>4. \A k \in 1..Len(u) : k = Len(s) + 1 \/ k \in 1..Len(s)
        BY <3>4
      <4>5. \A k, l \in 1..Len(s) : s[k].id = s[l].id => k = l
        BY <4>3 DEF OwnIds
      <4>6. ASSUME NEW k \in 1..Len(u), NEW l \in 1..Len(u), u[k].id = u[l].id PROVE k = l
        BY <3>2, <3>4, <4>2, <4>4, <4>5, <4>6, Zenon
      <4> QED
        BY <4>6 DEF OwnIds
    <3> QED
      BY <2>1, <2>5, <2>6, <3>4, <3>5, <3>6, <3>7
  <2> QED
    BY <2>8, <2>9
<1> HIDE DEF T
<1>3. Seq(PartRecords) \subseteq T
  BY <1>1, <1>2, SeqInduction
<1>4. ASSUME NEW ps \in Seq(PartRecords)
      PROVE  /\ CallsOf(ps) \in Seq(CallRecords) /\ ToSet(CallsOf(ps)) = NamedCalls(ps)
             /\ OwnIds(ps) => OwnIds(CallsOf(ps))
  <2>1. ps \in T
    BY <1>3
  <2> QED
    BY <2>1, Zenon DEF T
<1> QED
  BY <1>4

\* Content that is joined from the parts of a kind, with or without gaps, is
\* what is gathered from them.
LEMMA Joined ==
  ASSUME NEW n, NEW ps, PartsFit(ps, n), NEW kind, NEW f, f = [k \in 1..Len(ps) |-> f[k]],
         \A k \in 1..Len(ps) : IF ps[k].kind # kind THEN f[k] = <<>> ELSE f[k] \in {<<Gap>> \o ps[k].pieces, ps[k].pieces}
  PROVE  FlattenSeq(f) \in Seq(Nat) /\ Seamless(FlattenSeq(f)) = Gathered(ps, kind)
<1>1. /\ ps \in Seq(PartRecords) /\ Len(ps) \in Nat /\ DOMAIN ps = 1..Len(ps) /\ HavePieces(PartRecords)
      /\ \A k \in 1..Len(ps) : \A i \in 1..Len(ps[k].pieces) : ps[k].pieces[i] # Gap
  BY RecordsHavePieces DEF PartsFit
<1>2. PICK g : g = PiecesOf(ps, kind)
  OBVIOUS
<1>3. g \in Seq(Seq(Nat)) /\ Len(g) = Len(ps)
  BY <1>1, <1>2, PiecesTyped
<1>4. \A k \in 1..Len(ps) : g[k] = IF ps[k].kind = kind THEN ps[k].pieces ELSE <<>>
  BY <1>1, <1>2 DEF PiecesOf
<1>5. ASSUME NEW k \in 1..Len(ps) PROVE f[k] \in Seq(Nat) /\ Seamless(f[k]) = g[k]
  <2>1. ps[k].pieces \in Seq(Nat) /\ \A i \in 1..Len(ps[k].pieces) : ps[k].pieces[i] # Gap
    <3>1. ps[k] \in PartRecords
      BY <1>1
    <3> QED
      BY <1>1, <3>1 DEF HavePieces
  <2>2. CASE ps[k].kind # kind
    <3>1. f[k] = <<>> /\ g[k] = <<>>
      BY <1>4, <2>2
    <3> QED
      BY <3>1, SeamlessBasics
  <2>3. CASE ps[k].kind = kind
    <3>1. g[k] = ps[k].pieces
      BY <1>4, <2>3
    <3>2. CASE f[k] = ps[k].pieces
      BY <2>1, <3>1, <3>2, SeamlessIsSame
    <3>3. CASE f[k] = <<Gap>> \o ps[k].pieces
      <4>1. Seamless(<<Gap>> \o ps[k].pieces) = ps[k].pieces
        BY <2>1, SeamlessConcat
      <4>2. <<Gap>> \in Seq(Nat)
        BY DEF Gap
      <4>3. <<Gap>> \o ps[k].pieces \in Seq(Nat)
        BY <2>1, <4>2, PiecesConcat
      <4> QED
        BY <3>1, <3>3, <4>1, <4>3
    <3> QED
      BY <2>3, <3>2, <3>3
  <2> QED
    BY <2>2, <2>3
<1>6. f \in Seq(Seq(Nat)) /\ Len(f) = Len(ps)
  <2>1. f \in [1..Len(ps) -> Seq(Nat)]
    BY <1>5
  <2> QED
    BY <1>1, <2>1, IsSeq
<1>7. FlattenSeq(f) \in Seq(Nat)
  BY <1>6, FlattenBasics
<1>8. Seamless(FlattenSeq(f)) = FlattenSeq(g)
  BY <1>3, <1>5, <1>6, SeamlessFlatten
<1> QED
  BY <1>2, <1>7, <1>8 DEF Gathered

\* The text, the thoughts and the calls that are stored.
LEMMA StoredReply ==
  ASSUME NEW n, PartsFit(parts, n)
  PROVE  /\ Text \in Seq(Nat) /\ Seamless(Text) = Gathered(parts, "text")
         /\ Thinking \in Seq(Nat) /\ Seamless(Thinking) = Gathered(parts, "thinking")
         /\ Calls \in Seq(CallRecords) /\ ToSet(Calls) = NamedCalls(parts) /\ OwnIds(Calls)
<1>1. parts \in Seq(PartRecords) /\ DOMAIN parts = 1..Len(parts)
  BY DEF PartsFit
<1>2. Text \in Seq(Nat) /\ Seamless(Text) = Gathered(parts, "text")
  <2>1. PICK f : f = [k \in 1..Len(parts) |->
          IF parts[k].kind # "text" THEN <<>>
          ELSE IF IsParted(k) THEN <<Gap>> \o parts[k].pieces ELSE parts[k].pieces]
    OBVIOUS
  <2>2. Text = FlattenSeq(f)
    BY <1>1, <2>1, Zenon DEF Text
  <2>3. f = [k \in 1..Len(parts) |-> f[k]]
    BY <2>1
  <2>4. \A k \in 1..Len(parts) :
          IF parts[k].kind # "text" THEN f[k] = <<>> ELSE f[k] \in {<<Gap>> \o parts[k].pieces, parts[k].pieces}
    BY <2>1
  <2>5. FlattenSeq(f) \in Seq(Nat) /\ Seamless(FlattenSeq(f)) = Gathered(parts, "text")
    BY <2>3, <2>4, Joined
  <2> QED
    BY <2>2, <2>5
<1>3. Thinking \in Seq(Nat) /\ Seamless(Thinking) = Gathered(parts, "thinking")
  <2>1. PICK f : f = [k \in 1..Len(parts) |->
          IF parts[k].kind # "thinking" THEN <<>>
          ELSE IF \E j \in 1..k - 1 : parts[j].kind = "thinking" THEN <<Gap>> \o parts[k].pieces ELSE parts[k].pieces]
    OBVIOUS
  <2>2. Thinking = FlattenSeq(f)
    BY <1>1, <2>1, Zenon DEF Thinking
  <2>3. f = [k \in 1..Len(parts) |-> f[k]]
    BY <2>1
  <2>4. \A k \in 1..Len(parts) :
          IF parts[k].kind # "thinking" THEN f[k] = <<>> ELSE f[k] \in {<<Gap>> \o parts[k].pieces, parts[k].pieces}
    BY <2>1
  <2>5. FlattenSeq(f) \in Seq(Nat) /\ Seamless(FlattenSeq(f)) = Gathered(parts, "thinking")
    BY <2>3, <2>4, Joined
  <2> QED
    BY <2>2, <2>5
<1>4. Calls = CallsOf(parts)
  BY Zenon DEF Calls, CallsOf, CallLists
<1>5. OwnIds(parts)
  BY Zenon DEF PartsFit, OwnIds
<1> QED
  BY <1>1, <1>2, <1>3, <1>4, <1>5, CallsOfParts

\* What the client makes of the chunks, in the terms of the invariant.
LEMMA ShownIsGathered ==
  /\ \A kind : Shown(kind) = Gathered(chunks, kind)
  /\ \A c : ShownCall(c) = [id |-> chunks[c].id, name |-> chunks[c].name, args |-> Arguments(chunks, c)]
<1>1. \A kind : Shown(kind) = Gathered(chunks, kind)
  BY Zenon DEF Shown, Gathered, PiecesOf
<1>2. \A c : ShownCall(c) = [id |-> chunks[c].id, name |-> chunks[c].name, args |-> Arguments(chunks, c)]
  BY Zenon DEF ShownCall, Arguments, Following
<1> QED
  BY <1>1, <1>2

\* A reply that fits was shown as it is stored.
LEMMA ShownAsStored ==
  ReplyInv => ClientSeesWhatIsStored
<1> SUFFICES ASSUME ReplyInv, exchange = "saved" PROVE ClientSeesWhatIsStored
  BY DEF ClientSeesWhatIsStored
<1>1. ReplyFits(parts, chunks, sent, mixed) /\ chain[Len(chain)] = Assistant(Text, Thinking, Calls)
  BY DEF ReplyInv
<1>2. /\ PartsFit(parts, sent) /\ chunks \in Seq(ChunkRecords) /\ ContentFits(parts, chunks, mixed)
      /\ CallsFit(NamedCalls(parts), chunks, mixed)
  BY <1>1, Zenon DEF ReplyFits
<1>3. PICK reply2 : reply2 = chain[Len(chain)]
  OBVIOUS
<1>4. reply2.text = Text /\ reply2.thinking = Thinking /\ reply2.calls = Calls
  BY <1>1, <1>3 DEF Assistant
<1>5. /\ Seamless(Text) = Gathered(parts, "text") /\ Seamless(Thinking) = Gathered(parts, "thinking")
      /\ Calls \in Seq(CallRecords) /\ ToSet(Calls) = NamedCalls(parts)
  BY <1>2, StoredReply
<1>6. /\ ToSet(Gathered(parts, "text")) = ToSet(Gathered(chunks, "text"))
      /\ ToSet(Gathered(parts, "thinking")) = ToSet(Gathered(chunks, "thinking"))
      /\ ~mixed => /\ Gathered(parts, "text") = Gathered(chunks, "text")
                   /\ Gathered(parts, "thinking") = Gathered(chunks, "thinking")
  <2>1. "text" \in Contents /\ "thinking" \in Contents
    BY DEF Contents
  <2> QED
    BY <1>2, <2>1, Zenon DEF ContentFits
<1>7. Shown("text") = Gathered(chunks, "text") /\ Shown("thinking") = Gathered(chunks, "thinking")
  BY ShownIsGathered, Zenon
<1>8. PICK calls : calls = NamedCalls(parts)
  OBVIOUS
<1>9. calls \subseteq CallRecords
  BY <1>5, <1>8, InSeq
<1>10. /\ \A call \in calls : \E i \in Begun(chunks) : chunks[i].id = call.id /\ chunks[i].name = call.name
       /\ \A i \in Begun(chunks) : \E call \in calls : chunks[i].id = call.id /\ chunks[i].name = call.name
       /\ \A i, j \in Begun(chunks) : chunks[i].id = chunks[j].id => i = j
       /\ ~mixed => \A call \in calls, i \in Begun(chunks) : chunks[i].id = call.id => Arguments(chunks, i) = call.args
  BY <1>2, <1>8, Zenon DEF CallsFit
<1>11. ShownCalls = {ShownCall(c) : c \in Begun(chunks)}
  <2>1. DOMAIN chunks = 1..Len(chunks)
    BY <1>2
  <2> QED
    BY <2>1, Zenon DEF ShownCalls, Begun
<1>12. \A c : ShownCall(c).id = chunks[c].id /\ ShownCall(c).name = chunks[c].name /\ ShownCall(c).args = Arguments(chunks, c)
  <2> TAKE c
  <2>1. ShownCall(c) = [id |-> chunks[c].id, name |-> chunks[c].name, args |-> Arguments(chunks, c)]
    BY ShownIsGathered, Zenon
  <2> QED
    BY <2>1
<1>13. {[id |-> c.id, name |-> c.name] : c \in calls} = {[id |-> c.id, name |-> c.name] : c \in ShownCalls}
  <2>1. ASSUME NEW call \in calls PROVE \E c \in ShownCalls : c.id = call.id /\ c.name = call.name
    BY <1>10, <1>11, <1>12
  <2>2. ASSUME NEW c \in ShownCalls PROVE \E call \in calls : c.id = call.id /\ c.name = call.name
    BY <1>10, <1>11, <1>12
  <2> QED
    BY <2>1, <2>2
<1>14. ASSUME ~mixed PROVE calls = ShownCalls
  <2>1. ASSUME NEW call \in calls, NEW i \in Begun(chunks), chunks[i].id = call.id, chunks[i].name = call.name
        PROVE  ShownCall(i) = call
    <3>1. ShownCall(i) = [id |-> chunks[i].id, name |-> chunks[i].name, args |-> Arguments(chunks, i)]
      BY ShownIsGathered, Zenon
    <3>2. Arguments(chunks, i) = call.args
      BY <1>10, <1>14, <2>1
    <3>3. call \in CallRecords
      BY <1>9
    <3> QED
      BY <2>1, <3>1, <3>2, <3>3 DEF CallRecords
  <2>2. \A call \in calls : call \in ShownCalls
    BY <1>10, <1>11, <2>1
  <2>3. \A c \in ShownCalls : c \in calls
    BY <1>10, <1>11, <2>1
  <2> QED
    BY <2>2, <2>3
<1> QED
  BY <1>3, <1>4, <1>5, <1>6, <1>7, <1>8, <1>13, <1>14 DEF ClientSeesWhatIsStored

-----------------------------------------------------------------------------
(***************************************************************************)
(* The chain.  A call is answered after it was made and before the next    *)
(* reply, and a call of this exchange once at most; what was made before   *)
(* the last reply has been answered, or it is old and another reply        *)
(* covers it.                                                              *)
(***************************************************************************)
StoredNames == Names \cup {CHOOSE t \in ServerTools : TRUE, CHOOSE t \in UserTools : TRUE}
StoredCalls == [id : Nat, name : StoredNames, args : Seq(Nat)]
FileRecords == [kind : FileKinds, uploaded : BOOLEAN]
Messages ==
  [role : {"user", "assistant", "tool"}, text : Seq(Nat), thinking : Seq(Nat), calls : Seq(StoredCalls), answers : Nat,
   files : Seq(FileRecords)]

IsReply(msg) == msg.role = "assistant"

\* A message by itself: only responses of tools answer.
MessageFits(msg, n) ==
  /\ msg.role = "tool" <=> msg.answers # 0
  /\ IsOld(msg.answers) \/ msg.answers <= n
  /\ msg.role = "user" => msg.calls = <<>>
  /\ IsReply(msg) => /\ \A k \in 1..Len(msg.calls) : IsOld(msg.calls[k].id) \/ msg.calls[k].id \in 1..n
                     /\ \A k, l \in 1..Len(msg.calls) : msg.calls[k].id = msg.calls[l].id => k = l

ChainFits(msgs, n) ==
  /\ n \in Nat /\ msgs \in Seq(Messages)
  /\ \A i \in 1..Len(msgs) : MessageFits(msgs[i], n)
  /\ \A i, j \in 1..Len(msgs) :
       msgs[i].answers # 0 /\ ~IsOld(msgs[i].answers) /\ msgs[i].answers = msgs[j].answers => i = j
  /\ \A i \in 1..Len(msgs) : IsReply(msgs[i]) =>
       \A k \in 1..Len(msgs[i].calls) : \A j \in 1..i : msgs[j].answers # msgs[i].calls[k].id
  /\ \A i \in 1..Len(msgs) : IsReply(msgs[i]) =>
       \A k \in 1..Len(msgs[i].calls) : \A j \in i + 1..Len(msgs) :
          msgs[j].answers = msgs[i].calls[k].id => \A l \in i + 1..j : ~IsReply(msgs[l])

\* The calls of the message in place i have answers before the next reply.
IsAnswered(msgs, i) ==
  \A k \in 1..Len(msgs[i].calls) : \E j \in i + 1..Len(msgs) :
    /\ msgs[j].answers = msgs[i].calls[k].id
    /\ \A l \in i + 1..j : ~IsReply(msgs[l])

NoReplyAfter(msgs, i) == \A j \in i + 1..Len(msgs) : ~IsReply(msgs[j])

\* So they have, or they are old and another reply covers them.
IsSettled(msgs, i) ==
  \/ IsAnswered(msgs, i)
  \/ /\ \A k \in 1..Len(msgs[i].calls) : IsOld(msgs[i].calls[k].id)
     /\ \E j \in i + 1..Len(msgs) : IsReply(msgs[j])

\* A call of this exchange that no message answers, as its id is above those of
\* all answers of the exchange.
IsNew(msgs, id) == ~IsOld(id) /\ \A i \in 1..Len(msgs) : IsOld(msgs[i].answers) \/ msgs[i].answers < id

\* Every message of the chain is in the prompt.
Mirrors(asked, msgs) ==
  /\ DOMAIN asked = 1..Len(msgs) /\ Len(asked) = Len(msgs)
  /\ \A i \in 1..Len(msgs) :
       /\ Len(asked[i].files) = Len(msgs[i].files)
       /\ asked[i].role = msgs[i].role /\ asked[i].answers = msgs[i].answers
       /\ \A id \in asked[i].calls : IsReply(msgs[i]) /\ \E k \in 1..Len(msgs[i].calls) : id = msgs[i].calls[k].id

ChainInv ==
  /\ exchange \in {"asking", "streaming", "saved"} => ChainFits(chain, sent)
  /\ exchange = "asking" => \A i \in 1..Len(chain) : IsReply(chain[i]) => NoReplyAfter(chain, i) \/ IsSettled(chain, i)
  /\ exchange = "streaming" =>
       /\ \A i \in 1..Len(chain) : IsReply(chain[i]) => IsSettled(chain, i)
       /\ \A k \in 1..Len(parts) : IsNew(chain, parts[k].id)
       /\ Mirrors(prompt, chain)
  /\ exchange = "saved" =>
       /\ chain # <<>> /\ IsReply(chain[Len(chain)])
       /\ \A i \in 1..Len(chain) - 1 : IsReply(chain[i]) => IsSettled(chain, i)
       /\ \A k \in 1..Len(chain[Len(chain)].calls) : IsNew(chain, chain[Len(chain)].calls[k].id)

\* One chain goes on from another.
Continues(ms, msgs) ==
  /\ Len(msgs) \in Nat /\ Len(ms) \in Nat /\ Len(msgs) <= Len(ms)
  /\ \A k \in 1..Len(msgs) : ms[k] = msgs[k]

\* What has been answered stays so.
LEMMA StaysAnswered ==
  ASSUME NEW msgs, NEW ms, Continues(ms, msgs), NEW i \in 1..Len(msgs), IsAnswered(msgs, i)
  PROVE  IsAnswered(ms, i)
<1>1. /\ Len(msgs) \in Nat /\ Len(ms) \in Nat /\ Len(msgs) <= Len(ms)
      /\ \A k \in 1..Len(msgs) : ms[k] = msgs[k]
  BY Zenon DEF Continues
<1>2. ms[i] = msgs[i]
  BY <1>1
<1>3. ASSUME NEW k \in 1..Len(msgs[i].calls)
      PROVE  \E j \in i + 1..Len(ms) : ms[j].answers = msgs[i].calls[k].id /\ \A l \in i + 1..j : ~IsReply(ms[l])
  <2>1. PICK j \in i + 1..Len(msgs) : msgs[j].answers = msgs[i].calls[k].id /\ \A l \in i + 1..j : ~IsReply(msgs[l])
    BY Zenon DEF IsAnswered
  <2>2. j \in i + 1..Len(ms) /\ ms[j] = msgs[j] /\ \A l \in i + 1..j : ms[l] = msgs[l]
    BY <1>1, <2>1
  <2> QED
    BY <2>1, <2>2, Zenon
<1> QED
  BY <1>2, <1>3, Zenon DEF IsAnswered

\* What has been settled stays so.
LEMMA StaysSettled ==
  ASSUME NEW msgs, NEW ms, Continues(ms, msgs), NEW i \in 1..Len(msgs), IsSettled(msgs, i)
  PROVE  IsSettled(ms, i)
<1>1. CASE IsAnswered(msgs, i)
  BY <1>1, StaysAnswered, Zenon DEF IsSettled
<1>2. ASSUME \A k \in 1..Len(msgs[i].calls) : IsOld(msgs[i].calls[k].id), NEW j \in i + 1..Len(msgs), IsReply(msgs[j])
      PROVE  IsSettled(ms, i)
  <2>1. /\ Len(msgs) \in Nat /\ Len(ms) \in Nat /\ Len(msgs) <= Len(ms)
        /\ \A k \in 1..Len(msgs) : ms[k] = msgs[k]
    BY Zenon DEF Continues
  <2>2. ms[i] = msgs[i] /\ j \in i + 1..Len(ms) /\ ms[j] = msgs[j]
    BY <2>1
  <2> QED
    BY <1>2, <2>2, Zenon DEF IsSettled
<1> QED
  BY <1>1, <1>2, Zenon DEF IsSettled

\* A chain fits as well when more has been sent.
LEMMA FitsLater ==
  ASSUME NEW msgs, NEW n, ChainFits(msgs, n), NEW m \in Nat, n <= m
  PROVE  ChainFits(msgs, m)
<1>1. n \in Nat /\ msgs \in Seq(Messages) /\ \A i \in 1..Len(msgs) : MessageFits(msgs[i], n)
  BY Zenon DEF ChainFits
<1>2. ASSUME NEW i \in 1..Len(msgs) PROVE MessageFits(msgs[i], m)
  <2>1. msgs[i] \in Messages
    BY <1>1
  <2>2. msgs[i].answers \in Nat
    BY <2>1 DEF Messages
  <2>3. MessageFits(msgs[i], n)
    BY <1>1
  <2>4. \A id \in 1..n : id \in 1..m
    BY <1>1
  <2>5. IsOld(msgs[i].answers) \/ msgs[i].answers <= m
    BY <1>1, <2>2, <2>3 DEF MessageFits
  <2> QED
    BY <2>3, <2>4, <2>5, Zenon DEF MessageFits
<1> QED
  BY <1>1, <1>2, Zenon DEF ChainFits

\* Nothing is pending: the calls of the last reply have been answered too.
LEMMA NothingPending ==
  ASSUME NEW msgs, NEW n, ChainFits(msgs, n), ~HasPendingToolCalls(msgs), NEW i \in 1..Len(msgs), IsReply(msgs[i]),
         NoReplyAfter(msgs, i)
  PROVE  IsAnswered(msgs, i)
<1>1. msgs \in Seq(Messages) /\ DOMAIN msgs = 1..Len(msgs) /\ Len(msgs) \in Nat
  BY DEF ChainFits
<1>2. PICK replies : replies = {k \in DOMAIN msgs : msgs[k].role = "assistant"}
  OBVIOUS
<1>3. PICK answered : answered = {msgs[k].answers : k \in {j \in DOMAIN msgs : msgs[j].role = "tool"}}
  OBVIOUS
<1>4. PICK last : last = CHOOSE k \in replies : \A j \in replies : j <= k
  OBVIOUS
<1>5. i \in replies /\ \A j \in replies : j <= i
  <2>1. i \in replies
    BY <1>1, <1>2 DEF IsReply
  <2>2. ASSUME NEW j \in replies, ~(j <= i) PROVE FALSE
    <3>1. j \in i + 1..Len(msgs) /\ msgs[j].role = "assistant"
      BY <1>1, <1>2, <2>2
    <3> QED
      BY <3>1 DEF NoReplyAfter, IsReply
  <2> QED
    BY <2>1, <2>2
<1>6. last \in replies /\ \A j \in replies : j <= last
  BY <1>4, <1>5
<1>7. last = i
  BY <1>1, <1>2, <1>5, <1>6
<1>8. \A call \in ToSet(msgs[i].calls) : call.id \in answered
  <2>1. ~(\E call \in ToSet(msgs[last].calls) : call.id \notin answered)
    BY <1>2, <1>3, <1>4, <1>5, Zenon DEF HasPendingToolCalls
  <2> QED
    BY <1>7, <2>1
<1>9. ASSUME NEW k \in 1..Len(msgs[i].calls)
      PROVE  \E j \in i + 1..Len(msgs) : msgs[j].answers = msgs[i].calls[k].id /\ \A l \in i + 1..j : ~IsReply(msgs[l])
  <2>1. msgs[i].calls[k] \in ToSet(msgs[i].calls)
    <3>1. msgs[i] \in Messages
      BY <1>1
    <3>2. msgs[i].calls \in Seq(StoredCalls)
      BY <3>1 DEF Messages
    <3> QED
      BY <3>2, InSeq
  <2>2. PICK j \in 1..Len(msgs) : msgs[j].answers = msgs[i].calls[k].id
    BY <1>1, <1>3, <1>8, <2>1
  <2>3. \A l \in 1..i : msgs[l].answers # msgs[i].calls[k].id
    BY Zenon DEF ChainFits
  <2>4. j \in i + 1..Len(msgs)
    BY <1>1, <2>2, <2>3
  <2>5. \A l \in i + 1..j : ~IsReply(msgs[l])
    <3>1. \A l \in i + 1..j : l \in i + 1..Len(msgs)
      BY <1>1, <2>4
    <3> QED
      BY <3>1, Zenon DEF NoReplyAfter
  <2> QED
    BY <2>2, <2>4, <2>5
<1> QED
  BY <1>9, Zenon DEF IsAnswered

\* The calls of a reply that is there when the request comes are old.
LEMMA CallsOfThreads ==
  /\ OldCalls \in Seq(StoredCalls) /\ Len(OldCalls) = 2 /\ OwnIds(OldCalls)
  /\ \A k \in 1..2 : OldCalls[k] \in StoredCalls /\ IsOld(OldCalls[k].id) /\ OldCalls[k].id # 0
  /\ ~IsOld(0)
<1>1. PICK c1 : c1 = Stored(Pieces + 1, CHOOSE t \in ServerTools : TRUE)
  OBVIOUS
<1>2. PICK c2 : c2 = Stored(Pieces + 2, CHOOSE t \in UserTools : TRUE)
  OBVIOUS
<1>3. c1 \in StoredCalls /\ c1.id = Pieces + 1 /\ c2 \in StoredCalls /\ c2.id = Pieces + 2
  BY <1>1, <1>2, InferenceAssumption DEF Stored, StoredCalls, StoredNames
<1>4. OldCalls = <<c1, c2>>
  BY <1>1, <1>2 DEF OldCalls
<1>5. OldCalls \in Seq(StoredCalls) /\ Len(OldCalls) = 2 /\ OldCalls[1] = c1 /\ OldCalls[2] = c2
  BY <1>3, <1>4
<1>6. IsOld(c1.id) /\ IsOld(c2.id) /\ ~IsOld(0) /\ c1.id # 0 /\ c2.id # 0 /\ c1.id # c2.id
  BY <1>3, InferenceAssumption DEF IsOld
<1>7. \A k \in 1..2 : k = 1 \/ k = 2
  OBVIOUS
<1> QED
  BY <1>3, <1>5, <1>6, <1>7 DEF OwnIds

\* What threads are made of: each message is a user's, a reply without calls or
\* with the old ones, or a response to one of them.
OldFits(msg) ==
  /\ msg \in Messages /\ \A n \in Nat : MessageFits(msg, n)
  /\ IsReply(msg) => msg.answers = 0 /\ msg.calls \in {<<>>, OldCalls}
  /\ msg.role # "tool" => msg.answers = 0
  /\ msg.role = "tool" => msg.answers = msg.calls[1].id /\ IsOld(msg.answers)

LEMMA MessagesOfThreads ==
  /\ \A files \in Seq(FileRecords) : OldFits(User(files)) /\ User(files).role = "user"
  /\ \A msg \in OldMessages : OldFits(msg)
<1>1. ASSUME NEW files \in Seq(FileRecords) PROVE OldFits(User(files)) /\ User(files).role = "user"
  BY CallsOfThreads DEF User, Messages, MessageFits, IsReply, OldFits
<1>2. ASSUME NEW k \in 1..2 PROVE OldFits(ToolResponse(OldCalls[k]))
  <2>1. PICK c : c = OldCalls[k]
    OBVIOUS
  <2>2. c \in StoredCalls /\ IsOld(c.id) /\ c.id # 0 /\ <<c>> \in Seq(StoredCalls) /\ c.id \in Nat
    BY <2>1, CallsOfThreads DEF StoredCalls
  <2> QED
    BY <2>1, <2>2 DEF ToolResponse, Messages, MessageFits, IsReply, OldFits
<1>3. ASSUME NEW cs \in {<<>>, OldCalls} PROVE OldFits(Assistant(<<>>, <<>>, cs))
  <2>1. PICK msg : msg = Assistant(<<>>, <<>>, cs)
    OBVIOUS
  <2>2. cs \in Seq(StoredCalls) /\ OwnIds(cs) /\ \A k \in 1..Len(cs) : IsOld(cs[k].id)
    <3>1. CASE cs = <<>>
      BY <3>1 DEF OwnIds
    <3>2. CASE cs = OldCalls
      BY <3>2, CallsOfThreads
    <3> QED
      BY <1>3, <3>1, <3>2
  <2>3. msg.role = "assistant" /\ msg.calls = cs /\ msg.answers = 0 /\ msg \in Messages
    BY <2>1, <2>2 DEF Assistant, Messages
  <2>4. \A n \in Nat : MessageFits(msg, n)
    BY <2>2, <2>3 DEF MessageFits, IsReply, OwnIds
  <2> QED
    BY <1>3, <2>1, <2>3, <2>4 DEF OldFits, IsReply
<1>4. DOMAIN OldCalls = 1..2
  BY CallsOfThreads
<1>5. <<>> \in Seq(FileRecords)
  OBVIOUS
<1>6. ASSUME NEW msg \in OldMessages PROVE OldFits(msg)
  BY <1>1, <1>2, <1>3, <1>4, <1>5 DEF OldMessages
<1> QED
  BY <1>1, <1>6

\* A thread that goes on: it begins with the user, and a response comes after
\* the reply with the calls, of which there is one, and before any other.
IsContinuable(msgs) ==
  /\ msgs \in Seq(Messages) /\ Len(msgs) >= 1
  /\ \A i \in 1..Len(msgs) : OldFits(msgs[i])
  /\ msgs[1].role = "user"
  /\ \A i \in 2..Len(msgs) : msgs[i].role = "tool" =>
       \E j \in 1..i - 1 : /\ IsReply(msgs[j]) /\ msgs[j].calls = OldCalls
                           /\ \A l \in j + 1..i - 1 : ~IsReply(msgs[l])
  /\ \A i, j \in 1..Len(msgs) : msgs[i].calls = OldCalls /\ msgs[j].calls = OldCalls => i = j

LEMMA ThreadsGoOn ==
  ASSUME NEW msgs \in Threads
  PROVE  IsContinuable(msgs)
<1>1. ASSUME NEW files \in Seq(FileRecords) PROVE IsContinuable(<<User(files)>>)
  <2>1. PICK u : u = User(files)
    OBVIOUS
  <2>2. OldFits(u) /\ u.role = "user" /\ u \in Messages
    BY <2>1, MessagesOfThreads DEF OldFits
  <2>3. PICK us : us = <<u>>
    OBVIOUS
  <2>4. us \in Seq(Messages) /\ Len(us) = 1 /\ us[1] = u /\ (\A i \in 1..Len(us) : i = 1) /\ \A i \in 2..Len(us) : FALSE
    BY <2>2, <2>3
  <2> QED
    BY <2>1, <2>2, <2>3, <2>4 DEF IsContinuable
<1>2. ASSUME NEW n \in 3..ThreadLength, msgs \in [1..n -> OldMessages], msgs[1] = User(<<>>),
             \A i \in 2..Len(msgs) : MayFollow(SubSeq(msgs, 1, i - 1), msgs[i]),
             \A i, j \in DOMAIN msgs : msgs[i].calls = OldCalls /\ msgs[j].calls = OldCalls => i = j
      PROVE  IsContinuable(msgs)
  <2>1. n \in Nat /\ n >= 3
    BY <1>2, InferenceAssumption
  <2>2. \A msg \in OldMessages : OldFits(msg) /\ msg \in Messages
    BY MessagesOfThreads DEF OldFits
  <2>3. msgs \in [1..n -> Messages]
    BY <1>2, <2>2
  <2>4. msgs \in Seq(Messages) /\ Len(msgs) = n /\ DOMAIN msgs = 1..n
    BY <2>1, <2>3, IsSeq
  <2>5. \A i \in 1..n : OldFits(msgs[i])
    BY <1>2, <2>2
  <2>6. msgs[1].role = "user"
    BY <1>2 DEF User
  <2>7. ASSUME NEW i \in 2..n, msgs[i].role = "tool"
        PROVE  \E j \in 1..i - 1 : /\ IsReply(msgs[j]) /\ msgs[j].calls = OldCalls
                                   /\ \A l \in j + 1..i - 1 : ~IsReply(msgs[l])
    <3>1. PICK ms : ms = SubSeq(msgs, 1, i - 1)
      OBVIOUS
    <3>2. Len(ms) = i - 1 /\ DOMAIN ms = 1..i - 1 /\ (\A l \in 1..i - 1 : ms[l] = msgs[l]) /\ i - 1 \in 1..n
      BY <2>1, <2>4, <3>1
    <3>3. PICK msg : msg = msgs[i]
      OBVIOUS
    <3>4. MayFollow(ms, msg)
      BY <1>2, <2>4, <3>1, <3>3, Zenon
    <3>5. \E j \in DOMAIN ms : /\ ms[j].role = "assistant" /\ msg.calls[1] \in ToSet(ms[j].calls)
                               /\ \A l \in j + 1..Len(ms) : ms[l].role # "assistant"
      BY <2>7, <3>3, <3>4, Zenon DEF MayFollow
    <3>6. PICK j \in 1..i - 1 : /\ ms[j].role = "assistant" /\ msg.calls[1] \in ToSet(ms[j].calls)
                                /\ \A l \in j + 1..i - 1 : ms[l].role # "assistant"
      BY <3>2, <3>5
    <3>7. j \in 1..n /\ ms[j] = msgs[j] /\ \A l \in j + 1..i - 1 : l \in 1..i - 1 /\ ms[l] = msgs[l]
      BY <2>1, <3>2
    <3>8. IsReply(msgs[j]) /\ \A l \in j + 1..i - 1 : ~IsReply(msgs[l])
      BY <3>6, <3>7 DEF IsReply
    <3>9. msgs[j].calls \in {<<>>, OldCalls}
      BY <2>5, <3>7, <3>8, Zenon DEF OldFits
    <3>10. msgs[j].calls # <<>>
      <4>1. ToSet(<<>>) = {}
        BY InSeq
      <4> QED
        BY <3>6, <3>7, <4>1
    <3> QED
      BY <3>8, <3>9, <3>10
  <2>8. \A i, j \in 1..n : msgs[i].calls = OldCalls /\ msgs[j].calls = OldCalls => i = j
    BY <1>2, <2>4, Zenon
  <2>9. Len(msgs) >= 1
    BY <2>1, <2>4
  <2> QED
    BY <2>4, <2>5, <2>6, <2>7, <2>8, <2>9, Zenon DEF IsContinuable
<1>3. CASE msgs = <<User(<<>>)>>
  <2>1. <<>> \in Seq(FileRecords)
    OBVIOUS
  <2> QED
    BY <1>1, <1>3, <2>1
<1>4. CASE \E file \in FileRecords : msgs = <<User(<<file>>)>>
  <2>1. PICK file \in FileRecords : msgs = <<User(<<file>>)>>
    BY <1>4
  <2>2. <<file>> \in Seq(FileRecords)
    OBVIOUS
  <2> QED
    BY <1>1, <2>1, <2>2
<1>5. CASE msgs # <<User(<<>>)>> /\ ~\E file \in FileRecords : msgs = <<User(<<file>>)>>
  <2>1. /\ msgs \in UNION {[1..n -> OldMessages] : n \in 3..ThreadLength}
        /\ msgs[1] = User(<<>>)
        /\ \A i \in 2..Len(msgs) : MayFollow(SubSeq(msgs, 1, i - 1), msgs[i])
        /\ \A i, j \in DOMAIN msgs : msgs[i].calls = OldCalls /\ msgs[j].calls = OldCalls => i = j
    BY <1>5 DEF Threads, FileRecords
  <2>2. PICK n \in 3..ThreadLength : msgs \in [1..n -> OldMessages]
    BY <2>1
  <2> QED
    BY <1>2, <2>1, <2>2, Zenon
<1> QED
  BY <1>3, <1>4, <1>5

\* The chain a request continues fits: no response comes before its call or
\* after another reply.
LEMMA FirstChain ==
  InferenceInit => ReplyInv /\ ChainInv
<1> SUFFICES ASSUME InferenceInit PROVE ReplyInv /\ ChainInv
  OBVIOUS
<1>1. exchange = "asking" /\ chain \in Threads /\ sent = IF Len(chain) = 1 /\ chain[1].files = <<>> THEN 0 ELSE 2
  BY DEF InferenceInit
<1>2. sent \in Nat
  BY <1>1
<1>3. PICK n : n = Len(chain)
  OBVIOUS
<1>4. /\ chain \in Seq(Messages) /\ n \in Nat /\ n >= 1
      /\ \A i \in 1..n : OldFits(chain[i])
      /\ chain[1].role = "user"
      /\ \A i \in 2..n : chain[i].role = "tool" =>
           \E j \in 1..i - 1 : /\ IsReply(chain[j]) /\ chain[j].calls = OldCalls
                               /\ \A l \in j + 1..i - 1 : ~IsReply(chain[l])
      /\ \A i, j \in 1..n : chain[i].calls = OldCalls /\ chain[j].calls = OldCalls => i = j
  BY <1>1, <1>3, ThreadsGoOn DEF IsContinuable
<1>5. \A i \in 1..n : MessageFits(chain[i], sent)
  BY <1>2, <1>4, Zenon DEF OldFits
<1>6. ASSUME NEW i \in 1..n, IsReply(chain[i]), NEW k \in 1..Len(chain[i].calls)
      PROVE  chain[i].calls = OldCalls /\ IsOld(chain[i].calls[k].id) /\ chain[i].calls[k].id # 0
  <2>1. chain[i].calls \in {<<>>, OldCalls}
    BY <1>4, <1>6, Zenon DEF OldFits
  <2>2. chain[i].calls # <<>>
    BY <1>6
  <2> QED
    BY <1>6, <2>1, <2>2, CallsOfThreads
<1>7. ASSUME NEW i \in 1..n, chain[i].answers # 0
      PROVE  /\ chain[i].role = "tool" /\ IsOld(chain[i].answers)
             /\ \E j \in 1..i - 1 : /\ IsReply(chain[j]) /\ chain[j].calls = OldCalls
                                    /\ \A l \in j + 1..i - 1 : ~IsReply(chain[l])
  <2>1. chain[i].role = "tool" /\ IsOld(chain[i].answers)
    BY <1>4, <1>7, Zenon DEF OldFits
  <2>2. i \in 2..n
    BY <1>4, <2>1
  <2> QED
    BY <1>4, <2>1, <2>2, Zenon
<1>8. \A i, j \in 1..n : chain[i].answers # 0 /\ ~IsOld(chain[i].answers) /\ chain[i].answers = chain[j].answers => i = j
  BY <1>7, Zenon
<1>9. ASSUME NEW i \in 1..n, IsReply(chain[i]), NEW k \in 1..Len(chain[i].calls), NEW j \in 1..n,
             chain[j].answers = chain[i].calls[k].id
      PROVE  j \in i + 1..n /\ \A l \in i + 1..j : ~IsReply(chain[l])
  <2>1. chain[i].calls = OldCalls /\ chain[j].answers # 0
    BY <1>6, <1>9
  <2>2. PICK h \in 1..j - 1 : chain[h].calls = OldCalls /\ \A l \in h + 1..j - 1 : ~IsReply(chain[l])
    BY <1>7, <2>1
  <2>3. h \in 1..n
    BY <1>4
  <2>4. h = i
    BY <1>4, <2>1, <2>2, <2>3, Zenon
  <2>5. chain[j].role = "tool"
    BY <1>7, <2>1, Zenon
  <2>6. ~IsReply(chain[j])
    BY <2>5 DEF IsReply
  <2>7. j \in i + 1..n /\ \A l \in i + 1..j : l = j \/ l \in h + 1..j - 1
    BY <1>4, <2>4
  <2> QED
    BY <2>2, <2>6, <2>7
<1>10. ASSUME NEW i \in 1..n, IsReply(chain[i]), NEW k \in 1..Len(chain[i].calls), NEW j \in 1..i
       PROVE  chain[j].answers # chain[i].calls[k].id
  <2>1. j \in 1..n /\ j \notin i + 1..n
    BY <1>4
  <2> QED
    BY <1>9, <1>10, <2>1, Zenon
<1>11. ASSUME NEW i \in 1..n, IsReply(chain[i]), NEW k \in 1..Len(chain[i].calls), NEW j \in i + 1..n,
              chain[j].answers = chain[i].calls[k].id
       PROVE  \A l \in i + 1..j : ~IsReply(chain[l])
  <2>1. j \in 1..n
    BY <1>4
  <2> QED
    BY <1>9, <1>11, <2>1, Zenon
<1>12. ChainFits(chain, sent)
  BY <1>2, <1>3, <1>4, <1>5, <1>8, <1>10, <1>11, Zenon DEF ChainFits
<1>13. ASSUME NEW i \in 1..n, IsReply(chain[i]) PROVE NoReplyAfter(chain, i) \/ IsSettled(chain, i)
  BY <1>3, <1>6, <1>13, Zenon DEF NoReplyAfter, IsSettled
<1> QED
  BY <1>1, <1>3, <1>12, <1>13 DEF ReplyInv, ChainInv

\* How long a sequence is that is given place by place.
LEMMA LenOf ==
  ASSUME NEW n \in Nat, NEW f, DOMAIN f = 1..n, f = [k \in 1..n |-> f[k]]
  PROVE  Len(f) = n
<1>1. f \in [1..n -> {f[k] : k \in 1..n}]
  OBVIOUS
<1> QED
  BY <1>1, IsSeq

\* The provider is sent each message, with the calls of replies only.
LEMMA MessageSent ==
  ASSUME NEW msg \in Messages, NEW n, MessageFits(msg, n),
         NEW asked, asked = Sent([msg EXCEPT !.files = [k \in DOMAIN @ |-> MapFile(@[k])]])
  PROVE  /\ Len(asked.files) = Len(msg.files)
         /\ asked.role = msg.role /\ asked.answers = msg.answers
         /\ \A id \in asked.calls : IsReply(msg) /\ \E k \in 1..Len(msg.calls) : id = msg.calls[k].id
<1>1. msg.files \in Seq(FileRecords) /\ msg.calls \in Seq(StoredCalls) /\ msg.role \in {"user", "assistant", "tool"}
  BY DEF Messages
<1>2. Len(msg.files) \in Nat /\ DOMAIN msg.files = 1..Len(msg.files) /\ DOMAIN msg.calls = 1..Len(msg.calls)
  BY <1>1
<1>3. PICK files : files = [k \in DOMAIN msg.files |-> MapFile(msg.files[k])]
  OBVIOUS
<1>4. PICK out : out = [msg EXCEPT !.files = files]
  OBVIOUS
<1>5. /\ out.files = files /\ out.role = msg.role /\ out.answers = msg.answers /\ out.calls = msg.calls
  BY <1>4 DEF Messages
<1>6. asked = Sent(out)
  BY <1>3, <1>4
<1>7. PICK g : g = [k \in DOMAIN out.files |-> [as |-> IF host = "queue" THEN "file_urls" ELSE ContentPart(out.files[k].kind),
                                              whole |-> out.files[k].whole]]
  OBVIOUS
<1>8. PICK calls : calls = IF out.role = "tool" THEN {} ELSE {out.calls[k].id : k \in DOMAIN out.calls}
  OBVIOUS
<1>9. asked = [role |-> out.role, text |-> Seamless(out.text), files |-> g, calls |-> calls, answers |-> out.answers]
  BY <1>6, <1>7, <1>8 DEF Sent
<1>10. asked.role = out.role /\ asked.answers = out.answers /\ asked.files = g /\ asked.calls = calls
  BY <1>9
<1>11. Len(g) = Len(msg.files)
  <2>1. DOMAIN g = 1..Len(msg.files)
    BY <1>2, <1>3, <1>5, <1>7
  <2>2. g = [k \in 1..Len(msg.files) |-> g[k]]
    BY <1>7, <2>1
  <2> QED
    BY <1>2, <2>1, <2>2, LenOf
<1>12. ASSUME NEW id \in calls PROVE IsReply(msg) /\ \E k \in 1..Len(msg.calls) : id = msg.calls[k].id
  <2>1. msg.role # "tool" /\ \E k \in 1..Len(msg.calls) : id = msg.calls[k].id
    BY <1>2, <1>5, <1>8, <1>12
  <2>2. msg.calls # <<>>
    BY <2>1
  <2>3. msg.role # "user"
    BY <2>2 DEF MessageFits
  <2> QED
    BY <1>1, <2>1, <2>3 DEF IsReply
<1> QED
  BY <1>5, <1>10, <1>11, <1>12

\* The provider is asked with the whole chain, when nothing in it is pending.
LEMMA AskStep ==
  ASSUME ChainInv, Ask
  PROVE  ReplyInv' /\ ChainInv'
<1>1. /\ exchange = "asking" /\ ~HasPendingToolCalls(chain)
      /\ parts' = <<>> /\ chunks' = <<>> /\ mixed' = FALSE /\ chain' = chain /\ sent' = sent
      /\ exchange' = "failed" \/ (exchange' = "streaming" /\
           prompt' = [i \in DOMAIN Mapped(chain) |-> Sent(Mapped(chain)[i])])
  BY Zenon DEF Ask
<1>2. CASE exchange' = "failed"
  BY <1>2 DEF ReplyInv, ChainInv
<1>3. CASE exchange' = "streaming" /\ prompt' = [i \in DOMAIN Mapped(chain) |-> Sent(Mapped(chain)[i])]
  <2>1. ChainFits(chain, sent) /\ \A i \in 1..Len(chain) : IsReply(chain[i]) => NoReplyAfter(chain, i) \/ IsSettled(chain, i)
    BY <1>1 DEF ChainInv
  <2>2. sent \in Nat /\ chain \in Seq(Messages) /\ \A i \in 1..Len(chain) : MessageFits(chain[i], sent)
    BY <2>1, Zenon DEF ChainFits
  <2>3. DOMAIN chain = 1..Len(chain) /\ Len(chain) \in Nat /\ \A i \in 1..Len(chain) : chain[i] \in Messages
    BY <2>2
  <2>4. \A i \in 1..Len(chain) : IsReply(chain[i]) => IsSettled(chain, i)
    BY <1>1, <2>1, NothingPending DEF IsSettled
  <2>5. ReplyFits(<<>>, <<>>, sent, FALSE)
    <3>1. PartsFit(<<>>, sent)
      BY <2>2 DEF PartsFit
    <3>2. ContentFits(<<>>, <<>>, FALSE)
      BY GatheredNothing DEF ContentFits
    <3>3. NamedCalls(<<>>) = {} /\ Begun(<<>>) = {}
      BY DEF NamedCalls, Begun
    <3>4. CallsFit(NamedCalls(<<>>), <<>>, FALSE)
      BY <3>3 DEF CallsFit
    <3>5. <<>> \in Seq(ChunkRecords) /\ FALSE \in BOOLEAN
      OBVIOUS
    <3> QED
      BY <3>1, <3>2, <3>4, <3>5, Zenon DEF ReplyFits
  <2>6. PICK asked : asked = prompt'
    OBVIOUS
  <2>7. DOMAIN asked = 1..Len(chain) /\ \A i \in 1..Len(chain) :
          asked[i] = Sent([chain[i] EXCEPT !.files = [k \in DOMAIN @ |-> MapFile(@[k])]])
    BY <1>3, <2>3, <2>6 DEF Mapped
  <2>8. Len(asked) = Len(chain)
    <3>1. asked = [i \in 1..Len(chain) |-> asked[i]]
      BY <1>3, <2>3, <2>6, <2>7
    <3> QED
      BY <2>3, <2>7, <3>1, LenOf
  <2>9. ASSUME NEW i \in 1..Len(chain)
        PROVE  /\ Len(asked[i].files) = Len(chain[i].files)
               /\ asked[i].role = chain[i].role /\ asked[i].answers = chain[i].answers
               /\ \A id \in asked[i].calls : IsReply(chain[i]) /\ \E k \in 1..Len(chain[i].calls) : id = chain[i].calls[k].id
    <3>1. PICK msg : msg = chain[i]
      OBVIOUS
    <3>2. PICK out : out = asked[i]
      OBVIOUS
    <3>3. msg \in Messages /\ MessageFits(msg, sent)
      BY <2>2, <2>3, <3>1
    <3>4. out = Sent([msg EXCEPT !.files = [k \in DOMAIN @ |-> MapFile(@[k])]])
      BY <2>7, <3>1, <3>2, Zenon
    <3>5. /\ Len(out.files) = Len(msg.files)
          /\ out.role = msg.role /\ out.answers = msg.answers
          /\ \A id \in out.calls : IsReply(msg) /\ \E k \in 1..Len(msg.calls) : id = msg.calls[k].id
      BY <3>3, <3>4, MessageSent, Zenon
    <3> QED
      BY <3>1, <3>2, <3>5
  <2>10. Mirrors(asked, chain)
    BY <2>7, <2>8, <2>9, Zenon DEF Mirrors
  <2>11. ReplyInv'
    BY <1>1, <1>3, <2>5 DEF ReplyInv
  <2>12. \A k \in 1..Len(<<>>) : IsNew(chain, <<>>[k].id)
    OBVIOUS
  <2>13. ChainInv'
    BY <1>1, <1>3, <2>1, <2>4, <2>6, <2>10, <2>12 DEF ChainInv
  <2> QED
    BY <2>11, <2>13
<1> QED
  BY <1>1, <1>2, <1>3

\* A delta that is collected adds its own number at most.
LEMMA CollectIds ==
  ASSUME ReplyFits(parts, chunks, sent, mixed), NEW kind \in Contents, NEW vendor \in Vendors, NEW pieces \in Seq(Nat),
         Collect(kind, vendor, pieces)
  PROVE  Ids(parts') \subseteq Ids(parts) \cup {sent + 1}
<1>1. PartsFit(parts, sent)
  BY Zenon DEF ReplyFits
<1>2. parts \in Seq(PartRecords) /\ sent \in Nat /\ DOMAIN parts = 1..Len(parts)
  BY <1>1 DEF PartsFit
<1>3. CASE Open(vendor) = {}
  <2>1. PICK part : part = Part(kind, vendor, <<>>, pieces)
    OBVIOUS
  <2>2. part \in PartRecords /\ part.id = sent + 1
    BY <1>2, <2>1 DEF Part, PartRecords
  <2>3. parts' = Append(parts, part)
    BY <1>3, <2>1 DEF Collect
  <2> QED
    BY <1>2, <2>2, <2>3, IdsKept
<1>4. CASE Open(vendor) # {}
  <2>1. PICK qs : qs = [k \in DOMAIN parts |->
                          IF k \in Open(vendor) THEN [parts[k] EXCEPT !.pieces = @ \o pieces] ELSE parts[k]]
    OBVIOUS
  <2>2. parts' = qs
    BY <1>4, <2>1 DEF Collect
  <2>3. \A k \in DOMAIN parts : parts[k] \in PartRecords
    BY <1>2
  <2>4. DOMAIN qs = DOMAIN parts /\ \A k \in DOMAIN parts : qs[k].id = parts[k].id
    BY <2>1, <2>3 DEF PartRecords
  <2> QED
    BY <2>2, <2>4, IdsKept
<1> QED
  BY <1>3, <1>4

\* Every delta adds its own number at most.
LEMMA DeltaIds ==
  ASSUME ReplyFits(parts, chunks, sent, mixed), exchange' # "errored",
         TextDelta \/ ThinkTag \/ EndThinkTag \/ ReasoningDelta \/ ToolCallDelta
  PROVE  Ids(parts') \subseteq Ids(parts) \cup {sent + 1}
<1>1. PartsFit(parts, sent)
  BY Zenon DEF ReplyFits
<1>2. /\ parts \in Seq(PartRecords) /\ sent \in Nat /\ DOMAIN parts = 1..Len(parts)
      /\ \A k \in DOMAIN parts : parts[k] \in PartRecords
  BY <1>1 DEF PartsFit
<1>3. /\ "text" \in Contents /\ "thinking" \in Contents /\ <<sent + 1>> \in Seq(Nat)
      /\ "content" \in Vendors /\ {"reasoning_content", "reasoning"} \subseteq Vendors /\ {"first", "second"} \subseteq Vendors
  BY <1>2 DEF Contents, Vendors, CallVendors
<1>4. PICK qs : qs = Untrack(Open("content"))
  OBVIOUS
<1>5. Len(qs) = Len(parts) /\ qs \in Seq(PartRecords) /\ Ids(qs) = Ids(parts)
  <2>1. sent <= sent
    BY <1>2
  <2>2. ReplyFits(qs, chunks, sent, mixed) /\ Len(qs) = Len(parts)
    BY <1>2, <1>4, <2>1, ContentClosed
  <2>3. qs \in Seq(PartRecords)
    BY <2>2, Zenon DEF ReplyFits, PartsFit
  <2>4. DOMAIN qs = DOMAIN parts /\ \A k \in DOMAIN parts : qs[k].id = parts[k].id
    BY <1>2, <1>4 DEF Untrack, PartRecords
  <2> QED
    BY <2>2, <2>3, <2>4, IdsKept
<1>6. CASE TextDelta
  <2>1. PICK kind \in Contents : Collect(kind, "content", <<sent + 1>>)
    BY <1>3, <1>6 DEF TextDelta
  <2> QED
    BY <1>3, <2>1, CollectIds
<1>7. CASE ThinkTag
  <2>1. CASE Collect("thinking", "content", <<sent + 1>>)
    BY <1>3, <2>1, CollectIds
  <2>2. CASE parts' = Append(qs, Part("thinking", "content", <<>>, <<>>))
    <3>1. PICK part : part = Part("thinking", "content", <<>>, <<>>)
      OBVIOUS
    <3>2. part \in PartRecords /\ part.id = sent + 1
      BY <1>2, <1>3, <3>1 DEF Part, PartRecords
    <3> QED
      BY <1>5, <2>2, <3>1, <3>2, IdsKept
  <2> QED
    BY <1>4, <1>7, <2>1, <2>2 DEF ThinkTag
<1>8. CASE EndThinkTag
  <2>1. CASE Collect("text", "content", <<sent + 1>>)
    BY <1>3, <2>1, CollectIds
  <2>2. CASE parts' = qs
    BY <1>5, <2>2
  <2> QED
    BY <1>4, <1>8, <2>1, <2>2 DEF EndThinkTag
<1>9. CASE ReasoningDelta
  <2>1. PICK field \in {"reasoning_content", "reasoning"} : Collect("thinking", field, <<sent + 1>>)
    BY <1>9 DEF ReasoningDelta
  <2> QED
    BY <1>3, <2>1, CollectIds
<1>10. CASE ToolCallDelta
  BY <1>10, CallSteps
<1> QED
  BY <1>6, <1>7, <1>8, <1>9, <1>10

\* A delta changes the reply alone; its number is above that of every answer.
LEMMA DeltaStep ==
  ASSUME ReplyInv, ChainInv, TextDelta \/ ThinkTag \/ EndThinkTag \/ ReasoningDelta \/ ToolCallDelta
  PROVE  ReplyInv' /\ ChainInv'
<1>1. exchange = "streaming" /\ sent < Pieces /\ sent' = sent + 1 /\ UNCHANGED <<chain, prompt>>
  BY DEF TextDelta, ThinkTag, EndThinkTag, ReasoningDelta, ToolCallDelta, Streams, Quiet
<1>2. ReplyFits(parts, chunks, sent, mixed)
  BY <1>1 DEF ReplyInv
<1>3. CASE exchange' = "errored"
  BY <1>3 DEF ReplyInv, ChainInv
<1>4. CASE exchange' # "errored"
  <2>1. exchange' = "streaming" /\ ReplyFits(parts', chunks', sent', mixed')
    <3>1. CASE ToolCallDelta
      BY <1>1, <1>2, <1>4, <3>1, CallSteps
    <3>2. CASE TextDelta \/ ThinkTag \/ EndThinkTag \/ ReasoningDelta
      <4>1. exchange' = exchange
        BY <3>2 DEF TextDelta, ThinkTag, EndThinkTag, ReasoningDelta, Quiet
      <4> QED
        BY <1>1, <1>2, <3>2, <4>1, ContentSteps
    <3> QED
      BY <3>1, <3>2
  <2>2. ReplyInv'
    BY <2>1 DEF ReplyInv
  <2>3. /\ ChainFits(chain, sent)
        /\ \A i \in 1..Len(chain) : IsReply(chain[i]) => IsSettled(chain, i)
        /\ \A k \in 1..Len(parts) : IsNew(chain, parts[k].id)
        /\ Mirrors(prompt, chain)
    BY <1>1, Zenon DEF ChainInv
  <2>4. sent \in Nat /\ chain \in Seq(Messages) /\ \A i \in 1..Len(chain) : MessageFits(chain[i], sent)
    BY <2>3, Zenon DEF ChainFits
  <2>5. ChainFits(chain, sent + 1)
    BY <2>3, <2>4, FitsLater
  <2>6. \A i \in 1..Len(chain) : chain[i].answers \in Nat /\ (IsOld(chain[i].answers) \/ chain[i].answers <= sent)
    <3>1. \A i \in 1..Len(chain) : chain[i] \in Messages
      BY <2>4
    <3>2. \A i \in 1..Len(chain) : chain[i].answers \in Nat
      BY <3>1 DEF Messages
    <3> QED
      BY <2>4, <3>2, Zenon DEF MessageFits
  <2>7. PICK qs : qs = parts'
    OBVIOUS
  <2>8. Ids(qs) \subseteq Ids(parts) \cup {sent + 1}
    BY <1>2, <1>4, <2>7, DeltaIds
  <2>9. DOMAIN qs = 1..Len(qs) /\ DOMAIN parts = 1..Len(parts)
    <3>1. qs \in Seq(PartRecords) /\ parts \in Seq(PartRecords)
      BY <1>2, <2>1, <2>7, Zenon DEF ReplyFits, PartsFit
    <3> QED
      BY <3>1
  <2>10. ASSUME NEW k \in 1..Len(qs) PROVE IsNew(chain, qs[k].id)
    <3>1. qs[k].id \in Ids(qs)
      BY <2>9 DEF Ids
    <3>2. CASE qs[k].id = sent + 1
      <4>1. ~IsOld(sent + 1)
        BY <1>1, <2>4, InferenceAssumption DEF IsOld
      <4>2. \A i \in 1..Len(chain) : IsOld(chain[i].answers) \/ chain[i].answers < sent + 1
        BY <2>4, <2>6
      <4> QED
        BY <3>2, <4>1, <4>2, Zenon DEF IsNew
    <3>3. CASE qs[k].id \in Ids(parts)
      <4>1. PICK l \in 1..Len(parts) : qs[k].id = parts[l].id
        BY <2>9, <3>3 DEF Ids
      <4> QED
        BY <2>3, <4>1
    <3> QED
      BY <2>8, <3>1, <3>2, <3>3
  <2>11. ChainInv'
    <3>1. /\ ChainFits(chain', sent')
          /\ \A i \in 1..Len(chain') : IsReply(chain'[i]) => IsSettled(chain', i)
          /\ \A k \in 1..Len(parts') : IsNew(chain', parts'[k].id)
          /\ Mirrors(prompt', chain')
      BY <1>1, <2>3, <2>5, <2>7, <2>10
    <3> QED
      BY <2>1, <3>1 DEF ChainInv
  <2> QED
    BY <2>2, <2>11
<1> QED
  BY <1>3, <1>4

\* The reply that is stored: its calls have ids above those of every answer.
LEMMA SaveStep ==
  ASSUME ReplyInv, ChainInv, Save
  PROVE  ReplyInv' /\ ChainInv'
<1>1. /\ exchange = "streaming"
      /\ \/ /\ chain' = Append(chain, Assistant(Text, Thinking, Calls)) /\ exchange' = "saved"
            /\ UNCHANGED <<sent, parts, chunks, mixed>>
         \/ exchange' = "failed"
  BY Zenon DEF Save, Fail
<1>2. CASE exchange' = "failed"
  BY <1>2 DEF ReplyInv, ChainInv
<1>3. CASE /\ chain' = Append(chain, Assistant(Text, Thinking, Calls)) /\ exchange' = "saved"
           /\ UNCHANGED <<sent, parts, chunks, mixed>>
  <2>1. ReplyFits(parts, chunks, sent, mixed)
    BY <1>1 DEF ReplyInv
  <2>2. PartsFit(parts, sent)
    BY <2>1, Zenon DEF ReplyFits
  <2>3. /\ Text \in Seq(Nat) /\ Thinking \in Seq(Nat)
        /\ Calls \in Seq(CallRecords) /\ ToSet(Calls) = NamedCalls(parts) /\ OwnIds(Calls)
    BY <2>2, StoredReply
  <2>4. Text' = Text /\ Thinking' = Thinking /\ Calls' = Calls
    BY <1>3 DEF Text, Thinking, Calls, IsParted, IsNamed, Call
  <2>5. /\ ChainFits(chain, sent)
        /\ \A i \in 1..Len(chain) : IsReply(chain[i]) => IsSettled(chain, i)
        /\ \A k \in 1..Len(parts) : IsNew(chain, parts[k].id)
    BY <1>1, Zenon DEF ChainInv
  <2>6. sent \in Nat /\ chain \in Seq(Messages) /\ \A i \in 1..Len(chain) : MessageFits(chain[i], sent)
    BY <2>5, Zenon DEF ChainFits
  <2>7. PICK msg : msg = Assistant(Text, Thinking, Calls)
    OBVIOUS
  <2>8. PICK calls : calls = Calls
    OBVIOUS
  <2>9. calls \in Seq(StoredCalls) /\ Len(calls) \in Nat
    <3>1. CallRecords \subseteq StoredCalls
      BY DEF CallRecords, StoredCalls, StoredNames
    <3> QED
      BY <2>3, <2>8, <3>1
  <2>10. msg \in Messages /\ msg.role = "assistant" /\ msg.answers = 0 /\ msg.calls = calls
    BY <2>3, <2>7, <2>8, <2>9 DEF Assistant, Messages
  <2>11. ASSUME NEW k \in 1..Len(calls)
         PROVE  calls[k].id \in 1..sent /\ IsNew(chain, calls[k].id)
    <3>1. calls[k] \in NamedCalls(parts)
      <4>1. ToSet(calls) = {calls[l] : l \in 1..Len(calls)}
        BY <2>9, InSeq
      <4> QED
        BY <2>3, <2>8, <4>1
    <3>2. PICK l \in 1..Len(parts) : calls[k].id = parts[l].id
      BY <3>1 DEF NamedCalls, Call
    <3>3. parts[l].id \in 1..sent
      BY <2>2, <3>2, Zenon DEF PartsFit
    <3> QED
      BY <2>5, <3>2, <3>3
  <2>12. PICK msgs : msgs = Append(chain, msg)
    OBVIOUS
  <2>13. /\ msgs \in Seq(Messages) /\ Len(msgs) = Len(chain) + 1 /\ Len(chain) \in Nat /\ msgs[Len(chain) + 1] = msg
         /\ \A k \in 1..Len(chain) : msgs[k] = chain[k]
    BY <2>6, <2>10, <2>12, AppendProperties
  <2>14. (\A i \in 1..Len(msgs) : i = Len(chain) + 1 \/ i \in 1..Len(chain)) /\ \A i \in 1..Len(chain) : i # Len(chain) + 1
    BY <2>13
  <2>15. \A i \in 1..Len(msgs) : MessageFits(msgs[i], sent)
    <3>1. MessageFits(msg, sent)
      BY <2>3, <2>6, <2>8, <2>10, <2>11 DEF MessageFits, IsReply, OwnIds
    <3> QED
      BY <2>6, <2>13, <2>14, <3>1
  <2>16. \A i, j \in 1..Len(msgs) :
           msgs[i].answers # 0 /\ ~IsOld(msgs[i].answers) /\ msgs[i].answers = msgs[j].answers => i = j
    <3>1. \A i, j \in 1..Len(chain) :
            chain[i].answers # 0 /\ ~IsOld(chain[i].answers) /\ chain[i].answers = chain[j].answers => i = j
      BY <2>5, Zenon DEF ChainFits
    <3> QED
      BY <2>10, <2>13, <2>14, <3>1
  <2>17. ASSUME NEW i \in 1..Len(msgs), IsReply(msgs[i]), NEW k \in 1..Len(msgs[i].calls), NEW j \in 1..i
         PROVE  msgs[j].answers # msgs[i].calls[k].id
    <3>1. CASE i \in 1..Len(chain)
      <4>1. j \in 1..Len(chain) /\ msgs[j] = chain[j] /\ msgs[i] = chain[i]
        BY <2>13, <3>1
      <4>2. \A l \in 1..Len(chain[i].calls) : \A m \in 1..i : chain[m].answers # chain[i].calls[l].id
        BY <2>5, <2>17, <3>1, <4>1, Zenon DEF ChainFits
      <4> QED
        BY <4>1, <4>2
    <3>2. CASE i = Len(chain) + 1
      <4>1. msgs[i].calls = calls /\ calls[k].id \in 1..sent /\ IsNew(chain, calls[k].id)
        BY <2>10, <2>11, <2>13, <3>2
      <4>2. CASE j = Len(chain) + 1
        BY <2>6, <2>10, <2>13, <4>1, <4>2
      <4>3. CASE j \in 1..Len(chain)
        <5>1. chain[j].answers \in Nat
          <6>1. chain[j] \in Messages
            BY <2>6, <4>3
          <6> QED
            BY <6>1 DEF Messages
        <5>2. IsOld(chain[j].answers) \/ chain[j].answers < calls[k].id
          BY <4>1, <4>3, Zenon DEF IsNew
        <5>3. ~IsOld(calls[k].id) /\ calls[k].id \in Nat
          BY <2>6, <4>1 DEF IsNew
        <5>4. chain[j].answers # calls[k].id
          BY <5>1, <5>2, <5>3
        <5> QED
          BY <2>13, <4>1, <4>3, <5>4
      <4> QED
        BY <2>13, <3>2, <4>2, <4>3
    <3> QED
      BY <2>14, <3>1, <3>2
  <2>18. ASSUME NEW i \in 1..Len(msgs), IsReply(msgs[i]), NEW k \in 1..Len(msgs[i].calls), NEW j \in i + 1..Len(msgs),
                msgs[j].answers = msgs[i].calls[k].id, NEW l \in i + 1..j
         PROVE  ~IsReply(msgs[l])
    <3>1. i \in 1..Len(chain) /\ msgs[i] = chain[i]
      BY <2>13
    <3>2. msgs[i].calls[k].id # 0
      <4>1. IsOld(msgs[i].calls[k].id) \/ msgs[i].calls[k].id \in 1..sent
        BY <2>15, <2>18, Zenon DEF MessageFits
      <4> QED
        BY <4>1, InferenceAssumption DEF IsOld
    <3>3. j # Len(chain) + 1
      BY <2>10, <2>13, <2>18, <3>2
    <3>4. j \in i + 1..Len(chain) /\ j \in 1..Len(chain) /\ msgs[j] = chain[j] /\ l \in 1..Len(chain) /\ msgs[l] = chain[l]
      BY <2>13, <3>3
    <3>5. \A c \in 1..Len(chain[i].calls) : \A m \in i + 1..Len(chain) :
             chain[m].answers = chain[i].calls[c].id => \A h \in i + 1..m : ~IsReply(chain[h])
      BY <2>5, <2>18, <3>1, Zenon DEF ChainFits
    <3> QED
      BY <2>18, <3>1, <3>4, <3>5, Zenon
  <2>19. ChainFits(msgs, sent)
    BY <2>6, <2>13, <2>15, <2>16, <2>17, <2>18, Zenon DEF ChainFits
  <2>20. ASSUME NEW i \in 1..Len(msgs) - 1, IsReply(msgs[i]) PROVE IsSettled(msgs, i)
    <3>1. i \in 1..Len(chain) /\ msgs[i] = chain[i]
      BY <2>13
    <3>2. Continues(msgs, chain)
      BY <2>13 DEF Continues
    <3> QED
      BY <2>5, <2>20, <3>1, <3>2, StaysSettled
  <2>21. ASSUME NEW k \in 1..Len(calls) PROVE IsNew(msgs, calls[k].id)
    <3>1. IsNew(chain, calls[k].id) /\ calls[k].id \in 1..sent
      BY <2>11
    <3>2. 0 < calls[k].id
      BY <2>6, <3>1
    <3>3. \A i \in 1..Len(msgs) : IsOld(msgs[i].answers) \/ msgs[i].answers < calls[k].id
      BY <2>10, <2>13, <2>14, <3>1, <3>2 DEF IsNew
    <3> QED
      BY <3>1, <3>3, Zenon DEF IsNew
  <2>22. msgs # <<>> /\ msgs[Len(msgs)] = msg
    BY <2>13
  <2>23. chain' = msgs /\ msgs[Len(msgs)] = Assistant(Text', Thinking', Calls')
    BY <1>3, <2>4, <2>7, <2>12, <2>22
  <2>24. ReplyInv'
    BY <1>3, <2>1, <2>22, <2>23 DEF ReplyInv
  <2>25. ChainInv'
    <3>1. IsReply(msgs[Len(msgs)]) /\ msgs[Len(msgs)].calls = calls
      BY <2>10, <2>22 DEF IsReply
    <3>2. sent' = sent /\ exchange' = "saved"
      BY <1>3
    <3> QED
      BY <2>19, <2>20, <2>21, <2>22, <2>23, <3>1, <3>2 DEF ChainInv
  <2> QED
    BY <2>24, <2>25
<1> QED
  BY <1>1, <1>2, <1>3

\* The provider is asked again when every call of the reply has been answered.
LEMMA AnswerStep ==
  ASSUME ChainInv, AnswerCalls
  PROVE  ReplyInv' /\ ChainInv'
<1>1. exchange = "saved" /\ sent' = sent
  BY DEF AnswerCalls
<1>2. PICK calls : calls = chain[Len(chain)].calls
  OBVIOUS
<1>3. PICK server : server = SelectSeq(calls, LAMBDA call : call.name \in ServerTools)
  OBVIOUS
<1>4. \E raises \in Raises(server) :
         /\ chain' = chain \o Answers(server, raises)
         /\ exchange' = IF raises # 0 THEN "failed" ELSE IF calls = <<>> \/ server # calls THEN "ended" ELSE "asking"
  BY <1>2, <1>3, Zenon DEF AnswerCalls
<1>5. CASE exchange' # "asking"
  <2>1. exchange' \in {"failed", "ended"}
    BY <1>4, <1>5
  <2> QED
    BY <2>1 DEF ReplyInv, ChainInv
<1>6. CASE exchange' = "asking"
  <2>1. chain' = chain \o Answers(calls, 0)
    BY <1>4, <1>6
  <2>2. /\ ChainFits(chain, sent)
        /\ chain # <<>> /\ IsReply(chain[Len(chain)])
        /\ \A i \in 1..Len(chain) - 1 : IsReply(chain[i]) => IsSettled(chain, i)
        /\ \A k \in 1..Len(calls) : IsNew(chain, calls[k].id)
    BY <1>1, <1>2 DEF ChainInv
  <2>3. sent \in Nat /\ chain \in Seq(Messages) /\ \A i \in 1..Len(chain) : MessageFits(chain[i], sent)
    BY <2>2, Zenon DEF ChainFits
  <2>4. Len(chain) \in Nat /\ Len(chain) \in 1..Len(chain) /\ chain[Len(chain)] \in Messages
    BY <2>2, <2>3
  <2>5. PICK s : s = Len(chain)
    OBVIOUS
  <2>6. PICK c : c = Len(calls)
    OBVIOUS
  <2>7. s \in Nat /\ s \in 1..s /\ c \in Nat /\ calls \in Seq(StoredCalls) /\ \A k \in 1..c : calls[k] \in StoredCalls
    BY <1>2, <2>4, <2>5, <2>6 DEF Messages
  <2>8. /\ \A k \in 1..c : calls[k].id \in 1..sent
        /\ \A k, l \in 1..c : calls[k].id = calls[l].id => k = l
    BY <1>2, <2>2, <2>3, <2>4, <2>6, Zenon DEF MessageFits, IsNew
  <2>9. PICK ans : ans = Answers(calls, 0)
    OBVIOUS
  <2>10. ans = [k \in 1..c |-> ToolResponse(calls[k])]
    BY <2>6, <2>9 DEF Answers
  <2>11. ASSUME NEW k \in 1..c
         PROVE  ans[k] \in Messages /\ ans[k].role = "tool" /\ ans[k].answers = calls[k].id /\ MessageFits(ans[k], sent)
    <3>1. ans[k] = ToolResponse(calls[k]) /\ <<calls[k]>> \in Seq(StoredCalls) /\ calls[k].id \in 1..sent /\ calls[k].id \in Nat
      BY <2>7, <2>8, <2>10 DEF StoredCalls
    <3>2. ans[k] \in Messages /\ ans[k].role = "tool" /\ ans[k].answers = calls[k].id
      BY <3>1 DEF ToolResponse, Messages
    <3>3. ans[k].answers <= sent /\ ans[k].answers # 0
      BY <2>3, <3>1, <3>2
    <3> QED
      BY <3>2, <3>3 DEF MessageFits, IsReply
  <2>12. ans \in Seq(Messages) /\ Len(ans) = c
    <3>1. ans \in [1..c -> Messages]
      BY <2>10, <2>11
    <3> QED
      BY <2>7, <3>1, IsSeq
  <2>13. PICK msgs : msgs = chain \o ans
    OBVIOUS
  <2>14. /\ msgs \in Seq(Messages) /\ Len(msgs) = s + c
         /\ \A k \in 1..s : msgs[k] = chain[k]
         /\ \A i \in 1..Len(msgs) : i \in 1..s \/ (i - s \in 1..c /\ msgs[i] = ans[i - s])
    <3>1. /\ msgs \in Seq(Messages) /\ Len(msgs) = Len(chain) + Len(ans)
          /\ \A k \in 1..Len(chain) : msgs[k] = chain[k]
          /\ \A k \in 1..Len(ans) : msgs[k + Len(chain)] = ans[k]
      <4>1. \A f, g \in Seq(Messages) : \A u : u = f \o g =>
              /\ u \in Seq(Messages) /\ Len(u) = Len(f) + Len(g)
              /\ \A i \in 1..Len(f) : u[i] = f[i]
              /\ \A i \in 1..Len(g) : u[i + Len(f)] = g[i]
        BY JoinedSeq
      <4>2. chain \in Seq(Messages) /\ ans \in Seq(Messages)
        BY <2>3, <2>12
      <4> QED
        BY <2>13, <4>1, <4>2
    <3>2. /\ msgs \in Seq(Messages) /\ Len(msgs) = s + c
          /\ \A k \in 1..s : msgs[k] = chain[k]
          /\ \A k \in 1..c : msgs[k + s] = ans[k]
      BY <2>5, <2>12, <3>1, Zenon
    <3>3. ASSUME NEW i \in 1..Len(msgs), i \notin 1..s PROVE i - s \in 1..c /\ i - s + s = i
      BY <2>7, <3>2, <3>3
    <3>4. ASSUME NEW i \in 1..Len(msgs), i \notin 1..s PROVE msgs[i] = ans[i - s]
      BY <3>2, <3>3, <3>4, Zenon
    <3> QED
      BY <3>2, <3>3, <3>4, Zenon
  <2>15. ASSUME NEW i \in 1..Len(msgs)
         PROVE  \/ i \in 1..s /\ msgs[i] = chain[i]
                \/ \E k \in 1..c : i = s + k /\ msgs[i] = ans[k]
    <3>1. CASE i \in 1..s
      BY <2>14, <3>1
    <3>2. CASE i - s \in 1..c /\ msgs[i] = ans[i - s]
      <4>1. i = s + (i - s)
        BY <2>7
      <4> QED
        BY <3>2, <4>1
    <3> QED
      BY <2>14, <3>1, <3>2
  <2>16. ASSUME NEW i \in 1..Len(msgs), NEW k \in 1..c, i = s + k, msgs[i] = ans[k]
         PROVE  ~IsReply(msgs[i]) /\ i \notin 1..s
    BY <2>7, <2>11, <2>16 DEF IsReply
  <2>17. \A i \in 1..Len(msgs) : IsReply(msgs[i]) => i \in 1..s /\ msgs[i] = chain[i]
    BY <2>15, <2>16
  <2>18. \A i \in 1..Len(msgs) : MessageFits(msgs[i], sent)
    BY <2>3, <2>5, <2>11, <2>15
  <2>19. \A l \in 1..s, k \in 1..c : chain[l].answers # calls[k].id
    <3>1. \A l \in 1..s : chain[l].answers \in Nat
      <4>1. \A l \in 1..s : chain[l] \in Messages
        BY <2>3, <2>5
      <4> QED
        BY <4>1 DEF Messages
    <3>2. ASSUME NEW l \in 1..s, NEW k \in 1..c PROVE chain[l].answers # calls[k].id
      <4>1. ~IsOld(calls[k].id) /\ (IsOld(chain[l].answers) \/ chain[l].answers < calls[k].id)
        BY <2>2, <2>5, <2>6, Zenon DEF IsNew
      <4>2. calls[k].id \in Nat /\ chain[l].answers \in Nat
        BY <2>3, <2>8, <3>1
      <4> QED
        BY <4>1, <4>2
    <3> QED
      BY <3>2
  <2>20. ASSUME NEW i \in 1..Len(msgs), NEW j \in 1..Len(msgs), msgs[i].answers # 0, ~IsOld(msgs[i].answers),
                msgs[i].answers = msgs[j].answers
         PROVE  i = j
    <3>1. \A l, m \in 1..s : chain[l].answers # 0 /\ ~IsOld(chain[l].answers) /\ chain[l].answers = chain[m].answers => l = m
      BY <2>2, <2>5, Zenon DEF ChainFits
    <3>2. \A l \in 1..s, k \in 1..c : chain[l].answers # calls[k].id
      BY <2>19
    <3>3. CASE i \in 1..s /\ msgs[i] = chain[i]
      <4>1. CASE j \in 1..s /\ msgs[j] = chain[j]
        BY <2>20, <3>1, <3>3, <4>1, Zenon
      <4>2. CASE \E k \in 1..c : j = s + k /\ msgs[j] = ans[k]
        BY <2>11, <2>20, <3>2, <3>3, <4>2
      <4> QED
        BY <2>15, <4>1, <4>2, Zenon
    <3>4. CASE \E k \in 1..c : i = s + k /\ msgs[i] = ans[k]
      <4>1. CASE j \in 1..s /\ msgs[j] = chain[j]
        BY <2>11, <2>20, <3>2, <3>4, <4>1
      <4>2. CASE \E k \in 1..c : j = s + k /\ msgs[j] = ans[k]
        BY <2>8, <2>11, <2>20, <3>4, <4>2
      <4> QED
        BY <2>15, <4>1, <4>2, Zenon
    <3> QED
      BY <2>15, <3>3, <3>4, Zenon
  <2>21. ASSUME NEW i \in 1..Len(msgs), IsReply(msgs[i]), NEW k \in 1..Len(msgs[i].calls), NEW j \in 1..i
         PROVE  msgs[j].answers # msgs[i].calls[k].id
    <3>1. i \in 1..s /\ msgs[i] = chain[i] /\ j \in 1..s /\ msgs[j] = chain[j]
      BY <2>7, <2>14, <2>17, <2>21
    <3>2. \A l \in 1..Len(chain[i].calls) : \A m \in 1..i : chain[m].answers # chain[i].calls[l].id
      BY <2>2, <2>5, <2>21, <3>1, Zenon DEF ChainFits
    <3> QED
      BY <3>1, <3>2
  <2>22. ASSUME NEW i \in 1..s - 1, IsReply(chain[i]), NEW h \in 1..Len(chain[i].calls), NEW k \in 1..c
         PROVE  chain[i].calls[h].id # calls[k].id
    <3>1. IsSettled(chain, i)
      BY <2>2, <2>5, <2>22, Zenon
    <3>2. CASE IsAnswered(chain, i)
      <4>1. PICK j \in i + 1..s : chain[j].answers = chain[i].calls[h].id
        BY <2>5, <3>2, Zenon DEF IsAnswered
      <4>2. j \in 1..s
        BY <2>7, <4>1
      <4> QED
        BY <2>19, <4>1, <4>2, Zenon
    <3>3. CASE IsOld(chain[i].calls[h].id)
      BY <2>2, <2>6, <3>3, Zenon DEF IsNew
    <3> QED
      BY <3>1, <3>2, <3>3, Zenon DEF IsSettled
  <2>23. ASSUME NEW i \in 1..Len(msgs), IsReply(msgs[i]), NEW k \in 1..Len(msgs[i].calls), NEW j \in i + 1..Len(msgs),
                msgs[j].answers = msgs[i].calls[k].id, NEW l \in i + 1..j
         PROVE  ~IsReply(msgs[l])
    <3>1. i \in 1..s /\ msgs[i] = chain[i] /\ j \in 1..Len(msgs) /\ l \in 1..Len(msgs)
      BY <2>7, <2>14, <2>17, <2>23
    <3>2. CASE i = s
      <4>1. l \notin 1..s
        BY <2>7, <3>2
      <4> QED
        BY <2>17, <3>1, <4>1, Zenon
    <3>3. CASE i # s /\ j \in 1..s /\ msgs[j] = chain[j]
      <4>1. j \in i + 1..s /\ l \in 1..s /\ msgs[l] = chain[l]
        BY <2>7, <2>14, <3>1, <3>3
      <4>2. \A d \in 1..Len(chain[i].calls) : \A m \in i + 1..s :
               chain[m].answers = chain[i].calls[d].id => \A h \in i + 1..m : ~IsReply(chain[h])
        BY <2>2, <2>5, <2>23, <3>1, Zenon DEF ChainFits
      <4> QED
        BY <2>23, <3>1, <3>3, <4>1, <4>2, Zenon
    <3>4. CASE i # s /\ \E d \in 1..c : j = s + d /\ msgs[j] = ans[d]
      <4>1. i \in 1..s - 1
        BY <2>7, <3>1, <3>4
      <4>2. PICK d \in 1..c : msgs[j] = ans[d]
        BY <3>4
      <4>3. msgs[j].answers = calls[d].id
        BY <2>11, <4>2
      <4> QED
        BY <2>22, <2>23, <3>1, <4>1, <4>3, Zenon
    <3> QED
      BY <2>15, <3>1, <3>2, <3>3, <3>4, Zenon
  <2>24. ChainFits(msgs, sent)
    BY <2>3, <2>14, <2>18, <2>20, <2>21, <2>23, Zenon DEF ChainFits
  <2>25. ASSUME NEW i \in 1..Len(msgs), IsReply(msgs[i]) PROVE NoReplyAfter(msgs, i) \/ IsSettled(msgs, i)
    <3>1. i \in 1..s /\ msgs[i] = chain[i]
      BY <2>17, <2>25
    <3>2. CASE i = s
      <4>1. ASSUME NEW j \in i + 1..Len(msgs), IsReply(msgs[j]) PROVE FALSE
        <5>1. j \in 1..Len(msgs) /\ j \notin 1..s
          BY <2>7, <2>14, <3>2
        <5> QED
          BY <2>17, <4>1, <5>1
      <4> QED
        BY <4>1 DEF NoReplyAfter
    <3>3. CASE i # s
      <4>1. i \in 1..Len(chain) - 1 /\ i \in 1..Len(chain)
        BY <2>5, <2>7, <3>1, <3>3
      <4>2. Continues(msgs, chain)
        BY <2>5, <2>7, <2>14 DEF Continues
      <4> QED
        BY <2>2, <2>25, <3>1, <4>1, <4>2, StaysSettled
    <3> QED
      BY <3>2, <3>3
  <2>26. chain' = msgs
    BY <2>1, <2>9, <2>13
  <2> QED
    BY <1>1, <1>6, <2>24, <2>25, <2>26 DEF ReplyInv, ChainInv
<1> QED
  BY <1>5, <1>6

\* Both invariants hold after every step of an exchange.
LEMMA ExchangeStep ==
  ReplyInv /\ ChainInv /\ [InferenceNext]_inferenceVars => ReplyInv' /\ ChainInv'
<1> SUFFICES ASSUME ReplyInv, ChainInv, [InferenceNext]_inferenceVars PROVE ReplyInv' /\ ChainInv'
  OBVIOUS
<1>1. CASE Ask
  BY <1>1, AskStep
<1>2. CASE StopAsking
  BY <1>2 DEF StopAsking, ReplyInv, ChainInv
<1>3. CASE TextDelta \/ ThinkTag \/ EndThinkTag \/ ReasoningDelta \/ ToolCallDelta
  BY <1>3, DeltaStep
<1>4. CASE ProviderFails
  BY <1>4 DEF ProviderFails, Fail, ReplyInv, ChainInv
<1>5. CASE Save
  BY <1>5, SaveStep
<1>6. CASE AnswerCalls
  BY <1>6, AnswerStep
<1>7. CASE UNCHANGED inferenceVars
  <2>1. UNCHANGED <<exchange, chain, sent, parts, chunks, mixed, prompt>>
    BY <1>7 DEF inferenceVars
  <2>2. Text' = Text /\ Thinking' = Thinking /\ Calls' = Calls
    BY <2>1 DEF Text, Thinking, Calls, IsParted, IsNamed, Call
  <2> QED
    BY <2>1, <2>2 DEF ReplyInv, ChainInv
<1> QED
  BY <1>1, <1>2, <1>3, <1>4, <1>5, <1>6, <1>7 DEF InferenceNext

\* A chain that fits is a prompt that is whole.
LEMMA WholePrompts ==
  ChainInv => PromptsAreWhole
<1> SUFFICES ASSUME ChainInv, exchange = "streaming" PROVE PromptsAreWhole
  BY DEF PromptsAreWhole
<1>1. /\ ChainFits(chain, sent)
      /\ \A i \in 1..Len(chain) : IsReply(chain[i]) => IsSettled(chain, i)
      /\ Mirrors(prompt, chain)
  BY Zenon DEF ChainInv
<1>2. /\ DOMAIN prompt = 1..Len(chain) /\ Len(prompt) = Len(chain)
      /\ \A i \in 1..Len(chain) :
           /\ Len(prompt[i].files) = Len(chain[i].files)
           /\ prompt[i].role = chain[i].role /\ prompt[i].answers = chain[i].answers
           /\ \A id \in prompt[i].calls : IsReply(chain[i]) /\ \E k \in 1..Len(chain[i].calls) : id = chain[i].calls[k].id
  BY <1>1, Zenon DEF Mirrors
<1>3. sent \in Nat /\ Len(chain) \in Nat /\ \A i \in 1..Len(chain) : MessageFits(chain[i], sent)
  BY <1>1 DEF ChainFits
<1>4. PICK n : n = Len(chain)
  OBVIOUS
<1>5. n \in Nat /\ DOMAIN prompt = 1..n /\ Len(prompt) = n
  BY <1>2, <1>3, <1>4, Zenon
<1>6. ASSUME NEW i \in DOMAIN prompt, NEW id \in prompt[i].calls
      PROVE  LET answers == {j \in i + 1..Len(prompt) : prompt[j].answers = id}
                 replies == {j \in i + 1..Len(prompt) : prompt[j].role = "assistant"}
             IN /\ answers = {} => IsOld(id) /\ replies # {}
                /\ \A j \in answers, k \in replies : j < k
                /\ ~IsOld(id) => \A j, k \in answers : j = k
  <2>1. PICK answers : answers = {j \in i + 1..Len(prompt) : prompt[j].answers = id}
    OBVIOUS
  <2>2. PICK replies : replies = {j \in i + 1..Len(prompt) : prompt[j].role = "assistant"}
    OBVIOUS
  <2>3. /\ i \in 1..n /\ answers = {j \in i + 1..n : prompt[j].answers = id}
        /\ replies = {j \in i + 1..n : prompt[j].role = "assistant"}
    BY <1>5, <2>1, <2>2
  <2>4. IsReply(chain[i]) /\ \E k \in 1..Len(chain[i].calls) : id = chain[i].calls[k].id
    BY <1>2, <1>4, <1>6, <2>3
  <2>5. PICK c \in 1..Len(chain[i].calls) : id = chain[i].calls[c].id
    BY <2>4
  <2>6. \A k \in i + 1..n : k \in 1..n /\ prompt[k].answers = chain[k].answers /\ prompt[k].role = chain[k].role
    BY <1>2, <1>4, <1>5, <2>3
  <2>7. ASSUME answers = {} PROVE IsOld(id) /\ replies # {}
    <3>1. ~IsAnswered(chain, i)
      <4>1. SUFFICES ASSUME IsAnswered(chain, i) PROVE FALSE
        OBVIOUS
      <4>2. PICK j \in i + 1..n : chain[j].answers = id
        BY <1>4, <2>5, <4>1, Zenon DEF IsAnswered
      <4> QED
        BY <2>3, <2>6, <2>7, <4>2
    <3>2. /\ \A k \in 1..Len(chain[i].calls) : IsOld(chain[i].calls[k].id)
          /\ \E j \in i + 1..n : IsReply(chain[j])
      BY <1>1, <1>4, <2>4, <2>3, <3>1, Zenon DEF IsSettled
    <3>3. PICK j \in i + 1..n : chain[j].role = "assistant"
      BY <3>2 DEF IsReply
    <3> QED
      BY <2>3, <2>5, <2>6, <3>2, <3>3
  <2>8. ASSUME NEW j \in answers, NEW k \in replies PROVE j < k
    <3>1. j \in i + 1..n /\ chain[j].answers = id /\ k \in i + 1..n /\ IsReply(chain[k])
      BY <2>3, <2>6 DEF IsReply
    <3>2. \A d \in 1..Len(chain[i].calls) : \A m \in i + 1..n :
             chain[m].answers = chain[i].calls[d].id => \A l \in i + 1..m : ~IsReply(chain[l])
      BY <1>1, <1>4, <2>4, <2>3, Zenon DEF ChainFits
    <3>3. k \notin i + 1..j
      BY <2>5, <3>1, <3>2, Zenon
    <3> QED
      BY <1>5, <3>1, <3>3
  <2>9. ASSUME ~IsOld(id), NEW j \in answers, NEW k \in answers PROVE j = k
    <3>1. j \in 1..n /\ chain[j].answers = id /\ k \in 1..n /\ chain[k].answers = id
      BY <2>3, <2>6
    <3>2. \A l, m \in 1..n : chain[l].answers # 0 /\ ~IsOld(chain[l].answers) /\ chain[l].answers = chain[m].answers => l = m
      BY <1>1, <1>4, Zenon DEF ChainFits
    <3>3. id # 0
      <4>1. id \in 1..sent
        BY <1>3, <1>4, <2>4, <2>3, <2>5, <2>9, Zenon DEF MessageFits
      <4> QED
        BY <1>3, <4>1
    <3> QED
      BY <2>9, <3>1, <3>2, <3>3, Zenon
  <2> QED
    BY <2>7, <2>8, <2>9, <2>1, <2>2
<1>7. n = Len(chain) /\ \A i \in 1..n : Len(prompt[i].files) = Len(chain[i].files)
  BY <1>2, <1>4, Zenon
<1>8. \A i \in DOMAIN prompt : Len(prompt[i].files) = Len(chain[i].files)
  BY <1>5, <1>7, Zenon
<1>9. Len(prompt) = Len(chain)
  BY <1>5, <1>7, Zenon
<1> QED
  BY <1>6, <1>8, <1>9, Zenon DEF PromptsAreWhole

\* The inductive invariants of a reply that comes in and of the chain it answers.
THEOREM ExchangeAlways ==
  InferenceSpec => [](ReplyInv /\ ChainInv)
<1>1. InferenceInit => ReplyInv /\ ChainInv
  BY FirstChain
<1>2. ReplyInv /\ ChainInv /\ [InferenceNext]_inferenceVars => (ReplyInv /\ ChainInv)'
  BY ExchangeStep
<1> QED
  BY <1>1, <1>2, PTL DEF InferenceSpec

\* The reply that is stored is the one the client was shown.
THEOREM ClientSees ==
  InferenceSpec => []ClientSeesWhatIsStored
BY ExchangeAlways, ShownAsStored, PTL

\* The provider is asked with every message, over no call that the last reply
\* left open, and with one answer for each call of the exchange.
THEOREM PromptsWhole ==
  InferenceSpec => []PromptsAreWhole
BY ExchangeAlways, WholePrompts, PTL

-----------------------------------------------------------------------------
(***************************************************************************)
(* The documents.  What was found and may be shown is ranked, the spans    *)
(* that were built lie apart and hold what has been looked at, and the     *)
(* response says of each of them which documents it lists.                 *)
(***************************************************************************)
Spans == [left : Nat, right : Nat, documents : SUBSET UNION Found]
Tops == [left : Nat, right : Nat, members : SUBSET Nat]

SpansFound ==
  \/ received = <<>>
  \/ \E spans : /\ received = <<spans>> /\ IsFiniteSet(spans)
                /\ \A s \in spans : s \in Spans /\ s.left < s.right

NothingRanked == ranked = <<>> /\ nested = {} /\ flattened = <<>> /\ mapped = 0 /\ shown = <<>> /\ listed = <<>>

RankedFit(spans, ss) ==
  /\ ss \in Seq(Spans)
  /\ \A i \in 1..Len(ss) : ss[i].left < ss[i].right /\ \A d \in ss[i].documents : IsShown(d)
  /\ \A i, j \in 1..Len(ss) : i < j => ss[i].left <= ss[j].left
  /\ \A s \in spans, d \in Documents : d \in s.documents /\ IsShown(d) =>
       \E j \in 1..Len(ss) : ss[j].left = s.left /\ ss[j].right = s.right /\ d \in ss[j].documents

\* A span that was built holds its members.
Holds(ss, top) ==
  /\ top \in Tops /\ top.left < top.right /\ top.members \subseteq 1..Len(ss)
  /\ \A j \in top.members : top.left <= ss[j].left /\ ss[j].right <= top.right

TopsFit(ss, from, taken, tops) ==
  /\ from \in Nat /\ taken \subseteq 1..Len(ss) /\ tops \in Seq(Tops)
  /\ \A k \in 1..Len(tops) : Holds(ss, tops[k])
  /\ \A k, l \in 1..Len(tops) : k < l => tops[k].right <= tops[l].left
  /\ \A j \in 1..Len(ss) : j < from \/ j \in taken => \E k \in 1..Len(tops) : j \in tops[k].members
  /\ \A j \in 1..Len(ss), k \in 1..Len(tops) : j >= from /\ j \notin taken => tops[k].right <= ss[j].left

\* A document goes with a span exactly if the span lists it.
Agree(ls, documents) ==
  /\ \A k \in 1..Len(ls) : \A d : d \in ls[k] <=> d \in DOMAIN documents /\ k \in documents[d]
  /\ \A d \in DOMAIN documents : IsShown(d) /\ documents[d] \subseteq 1..Len(ls)

ListsFit(ls, n) ==
  /\ n \in Nat /\ n <= Len(flattened)
  /\ ls \in Seq(SUBSET UNION Found) /\ Len(ls) = n
  /\ \A k \in 1..n : ls[k] = {d \in DocumentsOf(flattened[k]) : ~IsPersonal(d)}

AttributionInv ==
  /\ SpansFound /\ SpansAndDocumentsAgree
  /\ reply = 0 /\ current = 0 => NothingRanked
  /\ reply = 0 /\ current # 0 => /\ received # <<>> /\ RankedFit(received[1], ranked)
                                 /\ TopsFit(ranked, current, nested, flattened)
                                 /\ ListsFit(listed, mapped) /\ Agree(listed, shown)

\* All elements of a finite set are in a sequence that SetToSeqs makes of it.
LEMMA InOrder ==
  ASSUME NEW S, IsFiniteSet(S), NEW f \in SetToSeqs(S)
  PROVE  /\ f \in Seq(S)
         /\ \A x \in S : \E j \in 1..Len(f) : f[j] = x
<1>1. PICK n : n = Cardinality(S)
  OBVIOUS
<1>2. n \in Nat
  BY <1>1, FS_CardinalityType
<1>3. f \in [1..n -> S] /\ \A i, j \in 1..n : i # j => f[i] # f[j]
  BY <1>1 DEF SetToSeqs
<1>4. f \in Seq(S) /\ Len(f) = n
  BY <1>2, <1>3, IsSeq
<1>5. f \in Injection(1..n, S)
  BY <1>3 DEF Injection, IsInjective
<1>6. IsFiniteSet(1..n) /\ Cardinality(1..n) = n
  BY <1>2, FS_Interval
<1>7. f \in Surjection(1..n, S)
  BY <1>1, <1>5, <1>6, FS_Injection
<1>8. \A x \in S : \E j \in 1..n : f[j] = x
  BY <1>7 DEF Surjection
<1> QED
  BY <1>4, <1>8

\* Of finitely many spans finitely many are left, and what may be shown of each.
LEMMA FilteredSpans ==
  ASSUME NEW spans, IsFiniteSet(spans), \A s \in spans : s \in Spans /\ s.left < s.right
  PROVE  /\ IsFiniteSet(Filtered(spans))
         /\ \A t \in Filtered(spans) : t \in Spans /\ t.left < t.right /\ \A d \in t.documents : IsShown(d)
         /\ \A s \in spans : \A d : d \in s.documents /\ IsShown(d) =>
              \E t \in Filtered(spans) : t.left = s.left /\ t.right = s.right /\ d \in t.documents
<1> DEFINE Trimmed(s) == [s EXCEPT !.documents = {d \in @ : IsShown(d)}]
           some == {Trimmed(s) : s \in spans}
           keep == [s \in spans |-> Trimmed(s)]
<1>1. keep \in Surjection(spans, some)
  BY DEF Surjection
<1>2. IsFiniteSet(some)
  <2> HIDE DEF keep, some
  <2> QED
    BY <1>1, FS_Surjection
<1>3. Filtered(spans) = {t \in some : t.documents # {}}
  BY Zenon DEF Filtered
<1>4. ASSUME NEW s \in spans
      PROVE  /\ Trimmed(s) \in Spans /\ Trimmed(s).left = s.left /\ Trimmed(s).right = s.right
             /\ Trimmed(s).documents = {d \in s.documents : IsShown(d)}
  BY <1>4 DEF Spans
<1>5. IsFiniteSet(Filtered(spans))
  <2>1. Filtered(spans) \in SUBSET some
    BY <1>3
  <2> HIDE DEF some
  <2> QED
    BY <1>2, <2>1, FS_Subset
<1>6. ASSUME NEW t \in Filtered(spans) PROVE t \in Spans /\ t.left < t.right /\ \A d \in t.documents : IsShown(d)
  <2>1. PICK s \in spans : t = Trimmed(s)
    BY <1>3
  <2> HIDE DEF Trimmed
  <2> QED
    BY <1>4, <2>1
<1>7. ASSUME NEW s \in spans, NEW d, d \in s.documents, IsShown(d)
      PROVE  \E t \in Filtered(spans) : t.left = s.left /\ t.right = s.right /\ d \in t.documents
  <2>1. Trimmed(s) \in some
    OBVIOUS
  <2>2. d \in Trimmed(s).documents
    BY <1>4, <1>7
  <2>3. Trimmed(s) \in Filtered(spans)
    BY <1>3, <2>1, <2>2
  <2> HIDE DEF Trimmed
  <2> QED
    BY <1>4, <2>2, <2>3
<1> QED
  BY <1>5, <1>6, <1>7

\* What is ranked fits what was found.
LEMMA Ranked ==
  ASSUME NEW spans, IsFiniteSet(spans), \A s \in spans : s \in Spans /\ s.left < s.right,
         NEW ss \in SetToSeqs(Filtered(spans)), \A i, j \in DOMAIN ss : i < j => Before(ss[i], ss[j])
  PROVE  RankedFit(spans, ss)
<1>1. PICK kept : kept = Filtered(spans)
  OBVIOUS
<1>2. /\ IsFiniteSet(kept)
      /\ \A t \in kept : t \in Spans /\ t.left < t.right /\ \A d \in t.documents : IsShown(d)
      /\ \A s \in spans : \A d : d \in s.documents /\ IsShown(d) =>
           \E t \in kept : t.left = s.left /\ t.right = s.right /\ d \in t.documents
  BY <1>1, FilteredSpans
<1>3. ss \in Seq(kept) /\ \A x \in kept : \E j \in 1..Len(ss) : ss[j] = x
  BY <1>1, <1>2, InOrder
<1>4. \A i \in 1..Len(ss) : ss[i] \in kept
  BY <1>3
<1>5. ss \in Seq(Spans)
  <2>1. kept \subseteq Spans
    BY <1>2
  <2> QED
    BY <1>3, <2>1
<1>6. \A i, j \in 1..Len(ss) : i < j => ss[i].left <= ss[j].left
  <2>1. \A i \in 1..Len(ss) : ss[i].left \in Nat
    BY <1>2, <1>4 DEF Spans
  <2>2. \A i, j \in 1..Len(ss) : i < j => Before(ss[i], ss[j])
    BY <1>3
  <2> QED
    BY <2>1, <2>2 DEF Before
<1>7. \A s \in spans, d \in Documents : d \in s.documents /\ IsShown(d) =>
        \E j \in 1..Len(ss) : ss[j].left = s.left /\ ss[j].right = s.right /\ d \in ss[j].documents
  BY <1>2, <1>3
<1> QED
  BY <1>2, <1>4, <1>5, <1>6, <1>7 DEF RankedFit

\* The index finds spans, finitely many of them.
LEMMA FoundFit ==
  ASSUME NEW chosen \in SomePlaces, NEW found \in [chosen -> Found]
  PROVE  LET spans == {Span(place[1], place[2], found[place]) : place \in chosen}
         IN IsFiniteSet(spans) /\ \A s \in spans : s \in Spans /\ s.left < s.right
<1> DEFINE Placed(place) == Span(place[1], place[2], found[place])
           spans == {Placed(place) : place \in chosen}
           at == [place \in chosen |-> Placed(place)]
<1>1. chosen \in SUBSET Places
  BY DEF SomePlaces, kSubset
<1>2. IsFiniteSet(Places)
  <2>1. IsFiniteSet(0..Tokens)
    BY AttributionAssumption, FS_Interval
  <2>2. IsFiniteSet((0..Tokens) \X (0..Tokens))
    BY <2>1, FS_Product
  <2>3. Places \in SUBSET ((0..Tokens) \X (0..Tokens))
    BY DEF Places
  <2> QED
    BY <2>2, <2>3, FS_Subset
<1>3. IsFiniteSet(chosen)
  BY <1>1, <1>2, FS_Subset
<1>4. at \in Surjection(chosen, spans)
  BY DEF Surjection
<1>5. IsFiniteSet(spans)
  <2> HIDE DEF at, spans
  <2> QED
    BY <1>3, <1>4, FS_Surjection
<1>6. ASSUME NEW place \in chosen PROVE Placed(place) \in Spans /\ Placed(place).left < Placed(place).right
  <2>1. place[1] \in Nat /\ place[2] \in Nat /\ place[1] < place[2]
    BY <1>1, AttributionAssumption DEF Places
  <2>2. found[place] \in SUBSET UNION Found
    OBVIOUS
  <2> QED
    BY <2>1, <2>2 DEF Span, Spans
<1> QED
  BY <1>5, <1>6

\* A top level span that begins with span i and has been held against those up
\* to m: it has taken in what overlaps it, and ends before what does not.
Grown(i, m, top) ==
  /\ Holds(ranked, top) /\ top.left = ranked[i].left
  /\ i \in top.members /\ top.members \ {i} \subseteq (i + 1..m) \ nested
  /\ \A j \in i + 1..m : j \notin nested /\ j \notin top.members => top.right <= ranked[j].left

\* It begins with one span.
LEMMA TopBegins ==
  ASSUME NEW spans, RankedFit(spans, ranked), NEW i \in 1..Len(ranked),
         NEW top, top = [left |-> ranked[i].left, right |-> ranked[i].right, members |-> {i}]
  PROVE  Grown(i, i, top)
<1>1. ranked[i] \in Spans /\ ranked[i].left < ranked[i].right
  BY DEF RankedFit
<1>2. top \in Tops /\ top.left = ranked[i].left /\ top.right = ranked[i].right /\ top.members = {i}
  BY <1>1 DEF Tops, Spans
<1>3. ranked[i].left \in Nat /\ ranked[i].right \in Nat
  BY <1>1 DEF Spans
<1>4. Holds(ranked, top)
  BY <1>1, <1>2, <1>3 DEF Holds
<1>5. i + 1..i = {}
  OBVIOUS
<1> QED
  BY <1>2, <1>4, <1>5 DEF Grown

\* It is held against one span more.
LEMMA TopGrows ==
  ASSUME NEW spans, RankedFit(spans, ranked), NEW i \in 1..Len(ranked), NEW m \in i..Len(ranked) - 1,
         NEW top, Grown(i, m, top)
  PROVE  Grown(i, m + 1, TakeIn(top, m + 1))
<1>1. PICK j : j = m + 1
  OBVIOUS
<1>2. j \in 1..Len(ranked) /\ i < j /\ m \in Nat /\ i \in Nat /\ j \in Nat
  BY <1>1
<1>3. /\ Holds(ranked, top) /\ top.left = ranked[i].left
      /\ i \in top.members /\ top.members \ {i} \subseteq (i + 1..m) \ nested
      /\ \A k \in i + 1..m : k \notin nested /\ k \notin top.members => top.right <= ranked[k].left
  BY DEF Grown
<1>4. /\ top \in Tops /\ top.left < top.right /\ top.members \subseteq 1..Len(ranked)
      /\ \A k \in top.members : top.left <= ranked[k].left /\ ranked[k].right <= top.right
  BY <1>3 DEF Holds
<1>5. /\ \A k \in 1..Len(ranked) : ranked[k].left \in Nat /\ ranked[k].right \in Nat /\ ranked[k].left < ranked[k].right
      /\ \A k, l \in 1..Len(ranked) : k < l => ranked[k].left <= ranked[l].left
  <2>1. \A k \in 1..Len(ranked) : ranked[k] \in Spans
    BY DEF RankedFit
  <2> QED
    BY <2>1 DEF RankedFit, Spans
<1>6. top.left \in Nat /\ top.right \in Nat /\ top.members \in SUBSET Nat
  BY <1>4 DEF Tops
<1>7. /\ ranked[j].left \in Nat /\ ranked[j].right \in Nat /\ ranked[j].left < ranked[j].right
      /\ top.left <= ranked[j].left
  BY <1>2, <1>3, <1>5
<1>8. (i + 1..m) \subseteq (i + 1..j) /\ j \in i + 1..j /\ \A k \in i + 1..j : k = j \/ k \in i + 1..m
  BY <1>1, <1>2
<1>9. CASE j \notin nested /\ Overlaps(top, ranked[j])
  <2>1. ranked[j].left < top.right
    BY <1>6, <1>7, <1>9 DEF Overlaps
  <2>2. PICK end : end = IF ranked[j].right > top.right THEN ranked[j].right ELSE top.right
    OBVIOUS
  <2>3. PICK members : members = top.members \cup {j}
    OBVIOUS
  <2>4. PICK new : new = [left |-> top.left, right |-> end, members |-> members]
    OBVIOUS
  <2>5. TakeIn(top, j) = new
    <3>1. (IF ranked[j].left < top.left THEN ranked[j].left ELSE top.left) = top.left
      BY <1>6, <1>7
    <3> QED
      BY <1>9, <2>2, <2>3, <2>4, <3>1, Zenon DEF TakeIn
  <2>6. end \in Nat /\ end >= top.right /\ end >= ranked[j].right
    BY <1>6, <1>7, <2>2
  <2>7. new \in Tops /\ new.left = top.left /\ new.right = end /\ new.members = members
    BY <1>2, <1>6, <2>3, <2>4, <2>6 DEF Tops
  <2>8. \A k \in members : top.left <= ranked[k].left /\ ranked[k].right <= end
    <3>1. ASSUME NEW k \in top.members PROVE top.left <= ranked[k].left /\ ranked[k].right <= end
      BY <1>4, <1>5, <1>6, <2>6, <3>1
    <3> QED
      BY <1>7, <2>3, <2>6, <3>1
  <2>9. Holds(ranked, new)
    BY <1>2, <1>4, <1>6, <2>3, <2>6, <2>7, <2>8 DEF Holds
  <2>10. i \in members /\ members \ {i} \subseteq (i + 1..j) \ nested
    BY <1>3, <1>8, <1>9, <2>3
  <2>11. ASSUME NEW k \in i + 1..j, k \notin nested, k \notin members PROVE end <= ranked[k].left
    <3>1. k \in i + 1..m /\ k \notin top.members /\ k < j /\ k \in 1..Len(ranked)
      BY <1>1, <1>2, <1>8, <2>3, <2>11
    <3>2. top.right <= ranked[k].left /\ ranked[k].left <= ranked[j].left
      BY <1>2, <1>3, <1>5, <2>11, <3>1
    <3> QED
      BY <1>5, <1>6, <1>7, <2>1, <3>1, <3>2
  <2>12. Grown(i, j, new)
    BY <1>3, <2>7, <2>9, <2>10, <2>11 DEF Grown
  <2> QED
    BY <1>1, <2>5, <2>12
<1>10. CASE ~(j \notin nested /\ Overlaps(top, ranked[j]))
  <2>1. TakeIn(top, j) = top
    BY <1>10 DEF TakeIn
  <2>2. top.members \ {i} \subseteq (i + 1..j) \ nested
    BY <1>3, <1>8
  <2>3. ASSUME NEW k \in i + 1..j, k \notin nested, k \notin top.members PROVE top.right <= ranked[k].left
    <3>1. CASE k \in i + 1..m
      BY <1>3, <2>3, <3>1
    <3>2. CASE k = j
      <4>1. ~(ranked[j].left < top.right)
        BY <1>7, <1>10, <2>3, <3>2 DEF Overlaps
      <4> QED
        BY <1>6, <1>7, <3>2, <4>1
    <3> QED
      BY <1>8, <3>1, <3>2
  <2>4. Grown(i, j, top)
    BY <1>3, <2>2, <2>3 DEF Grown
  <2> QED
    BY <1>1, <2>1, <2>4
<1> QED
  BY <1>9, <1>10

\* TopLevel goes through the spans from i on.
Grows(i, n, f) ==
  /\ f[i] = [left |-> ranked[i].left, right |-> ranked[i].right, members |-> {i}]
  /\ \A j \in i + 1..n : f[j] = TakeIn(f[j - 1], j)

\* Its definition of a function by recursion makes sense: there is one.
LEMMA TopsExist ==
  ASSUME NEW n \in Nat, NEW i \in 1..n
  PROVE  \E tops : tops = [j \in i..n |->
           IF j = i THEN [left |-> ranked[i].left, right |-> ranked[i].right, members |-> {i}]
           ELSE TakeIn(tops[j - 1], j)]
<1>1. PICK first : first = [left |-> ranked[i].left, right |-> ranked[i].right, members |-> {i}]
  OBVIOUS
<1> DEFINE U == {k \in Nat : \E f : f = [j \in i..i + k |-> f[j]] /\ Grows(i, i + k, f)}
<1>2. 0 \in U
  <2>1. PICK f : f = [j \in i..i + 0 |-> first]
    OBVIOUS
  <2>2. f[i] = first /\ i + 1..i + 0 = {} /\ f = [j \in i..i + 0 |-> f[j]]
    BY <2>1
  <2> QED
    BY <1>1, <2>2 DEF Grows
<1>3. ASSUME NEW k \in Nat, k \in U PROVE k + 1 \in U
  <2>1. PICK f : f = [j \in i..i + k |-> f[j]] /\ Grows(i, i + k, f)
    BY <1>3
  <2>2. PICK m : m = i + k + 1
    OBVIOUS
  <2>3. PICK g : g = [j \in i..m |-> IF j = m THEN TakeIn(f[m - 1], m) ELSE f[j]]
    OBVIOUS
  <2>4. g[m] = TakeIn(f[m - 1], m) /\ \A j \in i..i + k : g[j] = f[j]
    BY <2>2, <2>3
  <2>5. g[i] = f[i] /\ g[m] = TakeIn(g[m - 1], m)
    <3>1. m - 1 \in i..i + k /\ i \in i..i + k
      BY <2>2
    <3> QED
      BY <2>4, <3>1
  <2>6. ASSUME NEW j \in i + 1..m PROVE g[j] = TakeIn(g[j - 1], j)
    <3>1. CASE j = m
      BY <2>5, <3>1
    <3>2. CASE j # m
      <4>1. j \in i + 1..i + k /\ j \in i..i + k /\ j - 1 \in i..i + k
        BY <2>2, <3>2
      <4>2. f[j] = TakeIn(f[j - 1], j)
        BY <2>1, <4>1, Zenon DEF Grows
      <4> QED
        BY <2>4, <4>1, <4>2, Zenon
    <3> QED
      BY <3>1, <3>2
  <2>7. Grows(i, m, g)
    BY <2>1, <2>5, <2>6 DEF Grows
  <2>8. g = [j \in i..m |-> g[j]]
    BY <2>3
  <2>9. m = i + (k + 1)
    BY <2>2
  <2> QED
    BY <2>7, <2>8, <2>9
<1> HIDE DEF U
<1>4. n - i \in U
  <2>1. n - i \in Nat
    OBVIOUS
  <2> QED
    BY <1>2, <1>3, <2>1, Induction
<1>5. PICK f : f = [j \in i..n |-> f[j]] /\ Grows(i, n, f)
  <2>1. i + (n - i) = n
    OBVIOUS
  <2> QED
    BY <1>4, <2>1 DEF U
<1>6. \A j \in i..n : f[j] = IF j = i THEN first ELSE TakeIn(f[j - 1], j)
  <2>1. \A j \in i..n : j = i \/ j \in i + 1..n
    OBVIOUS
  <2>2. i \notin i + 1..n
    OBVIOUS
  <2> QED
    BY <1>1, <1>5, <2>1, <2>2, Zenon DEF Grows
<1>7. [j \in i..n |-> f[j]] = [j \in i..n |-> IF j = i THEN first ELSE TakeIn(f[j - 1], j)]
  BY <1>6, Zenon
<1> QED
  BY <1>1, <1>5, <1>7, Zenon

\* What TopLevel builds from a span that is not nested.
LEMMA Built ==
  ASSUME NEW spans, RankedFit(spans, ranked), NEW i \in 1..Len(ranked)
  PROVE  Grown(i, Len(ranked), TopLevel(i))
<1>1. PICK n : n = Len(ranked)
  OBVIOUS
<1>2. n \in Nat /\ i \in 1..n
  BY <1>1 DEF RankedFit
<1> DEFINE f == CHOOSE f : f = [j \in i..n |->
                  IF j = i THEN [left |-> ranked[i].left, right |-> ranked[i].right, members |-> {i}]
                  ELSE TakeIn(f[j - 1], j)]
<1>3. f = [j \in i..n |-> IF j = i THEN [left |-> ranked[i].left, right |-> ranked[i].right, members |-> {i}]
                          ELSE TakeIn(f[j - 1], j)]
  <2>1. \E tops : tops = [j \in i..n |->
          IF j = i THEN [left |-> ranked[i].left, right |-> ranked[i].right, members |-> {i}]
          ELSE TakeIn(tops[j - 1], j)]
    BY <1>2, TopsExist
  <2> QED
    BY <2>1, Zenon
<1>4. TopLevel(i) = f[n]
  BY <1>1 DEF TopLevel
<1> HIDE DEF f
<1>5. f[i] = [left |-> ranked[i].left, right |-> ranked[i].right, members |-> {i}]
  <2>1. i \in i..n
    BY <1>2
  <2> QED
    BY <1>3, <2>1, Zenon
<1>6. ASSUME NEW j \in i..n - 1 PROVE f[j + 1] = TakeIn(f[j], j + 1)
  <2>1. PICK k : k = j + 1
    OBVIOUS
  <2>2. k \in i..n /\ k # i /\ k - 1 = j
    BY <1>2, <2>1
  <2>3. f[k] = TakeIn(f[k - 1], k)
    BY <1>3, <2>2, Zenon
  <2> QED
    BY <2>1, <2>2, <2>3, Zenon
<1> DEFINE U == {k \in Nat : i + k <= n => Grown(i, i + k, f[i + k])}
<1>7. 0 \in U
  <2>1. Grown(i, i, f[i])
    BY <1>1, <1>2, <1>5, TopBegins
  <2>2. i + 0 = i
    BY <1>2
  <2> QED
    BY <2>1, <2>2
<1>8. ASSUME NEW k \in Nat, k \in U PROVE k + 1 \in U
  <2> SUFFICES ASSUME i + (k + 1) <= n PROVE Grown(i, i + (k + 1), f[i + (k + 1)])
    OBVIOUS
  <2>1. PICK m : m = i + k
    OBVIOUS
  <2>2. m \in i..n - 1 /\ m + 1 = i + (k + 1) /\ i + k <= n
    BY <1>2, <2>1
  <2>3. Grown(i, m, f[m])
    BY <1>8, <2>1, <2>2
  <2>4. Grown(i, m + 1, TakeIn(f[m], m + 1))
    BY <1>1, <1>2, <2>2, <2>3, TopGrows
  <2> QED
    BY <1>6, <2>2, <2>4
<1> HIDE DEF U
<1>9. n - i \in U
  <2>1. n - i \in Nat
    BY <1>2
  <2> QED
    BY <1>7, <1>8, <2>1, Induction
<1>10. i + (n - i) = n /\ n <= n
  BY <1>2
<1> QED
  BY <1>1, <1>4, <1>9, <1>10 DEF U

\* One round of flatten_spans: the spans that are built stay apart, and what is
\* left to be looked at begins after them.
LEMMA FlattenStep ==
  ASSUME AttributionInv, Flatten
  PROVE  AttributionInv'
<1>1. reply = 0 /\ current \in 1..Len(ranked) /\ current # 0
  <2>1. reply = 0 /\ current \in DOMAIN ranked
    BY DEF Flatten
  <2>2. current # 0
    BY <2>1 DEF AttributionInv, NothingRanked
  <2>3. ranked \in Seq(Spans)
    BY <2>1, <2>2 DEF AttributionInv, RankedFit
  <2> QED
    BY <2>1, <2>2, <2>3
<1>2. /\ SpansFound /\ received # <<>> /\ RankedFit(received[1], ranked)
      /\ TopsFit(ranked, current, nested, flattened) /\ ListsFit(listed, mapped) /\ Agree(listed, shown)
  BY <1>1 DEF AttributionInv
<1>3. /\ current' = current + 1
      /\ UNCHANGED <<inquiry, received, ranked, mapped, shown, listed, reply>>
  BY DEF Flatten
<1>4. PICK top : top = TopLevel(current)
  OBVIOUS
<1>5. /\ current \in nested => UNCHANGED <<nested, flattened>>
      /\ current \notin nested => nested' = nested \cup (top.members \ {current}) /\ flattened' = Append(flattened, top)
  BY <1>4 DEF Flatten
<1>6. /\ current \in Nat /\ nested \subseteq 1..Len(ranked) /\ flattened \in Seq(Tops)
      /\ \A k \in 1..Len(flattened) : Holds(ranked, flattened[k])
      /\ \A k, l \in 1..Len(flattened) : k < l => flattened[k].right <= flattened[l].left
      /\ \A j \in 1..Len(ranked) : j < current \/ j \in nested => \E k \in 1..Len(flattened) : j \in flattened[k].members
      /\ \A j \in 1..Len(ranked), k \in 1..Len(flattened) :
           j >= current /\ j \notin nested => flattened[k].right <= ranked[j].left
  BY <1>2 DEF TopsFit
<1>7. SpansFound' /\ (reply = 0)' /\ (current # 0)'
  <2>1. current' # 0
    BY <1>3, <1>6
  <2> QED
    BY <1>1, <1>2, <1>3, <2>1 DEF SpansFound
<1>8. CASE current \in nested
  <2>1. \A j \in 1..Len(ranked) : j < current + 1 => j < current \/ j = current
    BY <1>6
  <2>2. \A j \in 1..Len(ranked) : j < current + 1 \/ j \in nested => \E k \in 1..Len(flattened) : j \in flattened[k].members
    BY <1>6, <1>8, <2>1
  <2>3. \A j \in 1..Len(ranked), k \in 1..Len(flattened) :
          j >= current + 1 /\ j \notin nested => flattened[k].right <= ranked[j].left
    BY <1>6
  <2>4. TopsFit(ranked, current + 1, nested, flattened)
    BY <1>6, <2>2, <2>3 DEF TopsFit
  <2>5. flattened' = flattened /\ nested' = nested
    BY <1>5, <1>8
  <2>6. TopsFit(ranked', current', nested', flattened')
    BY <1>3, <2>4, <2>5
  <2>7. ListsFit(listed, mapped)'
    BY <1>2, <1>3, <2>5 DEF ListsFit, DocumentsOf
  <2> QED
    BY <1>2, <1>3, <1>7, <2>6, <2>7 DEF AttributionInv, SpansAndDocumentsAgree
<1>9. CASE current \notin nested
  <2>1. Grown(current, Len(ranked), top)
    BY <1>1, <1>2, <1>4, Built
  <2>2. /\ Holds(ranked, top) /\ top.left = ranked[current].left
        /\ current \in top.members /\ top.members \ {current} \subseteq (current + 1..Len(ranked)) \ nested
        /\ \A j \in current + 1..Len(ranked) : j \notin nested /\ j \notin top.members => top.right <= ranked[j].left
    BY <2>1 DEF Grown
  <2>3. PICK tops : tops = Append(flattened, top)
    OBVIOUS
  <2>4. PICK n : n = Len(flattened)
    OBVIOUS
  <2>5. /\ tops \in Seq(Tops) /\ Len(tops) = n + 1 /\ n \in Nat
        /\ tops[n + 1] = top /\ \A k \in 1..n : tops[k] = flattened[k]
    <3>1. top \in Tops
      BY <2>2 DEF Holds
    <3> QED
      BY <1>6, <2>3, <2>4, <3>1, AppendProperties
  <2>6. PICK taken : taken = nested \cup (top.members \ {current})
    OBVIOUS
  <2>7. taken \subseteq 1..Len(ranked)
    BY <1>6, <2>2, <2>6 DEF Holds
  <2>8. \A k \in 1..n + 1 : k = n + 1 \/ k \in 1..n
    BY <2>5
  <2>9. \A k \in 1..Len(tops) : Holds(ranked, tops[k])
    BY <1>6, <2>2, <2>4, <2>5, <2>8
  <2>10. ASSUME NEW k \in 1..Len(tops), NEW l \in 1..Len(tops), k < l PROVE tops[k].right <= tops[l].left
    <3>1. k \in 1..n
      BY <2>5, <2>10
    <3>2. CASE l \in 1..n
      BY <1>6, <2>4, <2>5, <2>10, <3>1, <3>2
    <3>3. CASE l = n + 1
      <4>1. flattened[k].right <= ranked[current].left
        <5>1. current \in 1..Len(ranked) /\ current >= current
          BY <1>1, <1>6
        <5> QED
          BY <1>6, <1>9, <2>4, <3>1, <5>1
      <4> QED
        BY <2>2, <2>5, <3>1, <3>3, <4>1
    <3> QED
      BY <2>5, <2>8, <3>2, <3>3
  <2>11. ASSUME NEW j \in 1..Len(ranked), j < current + 1 \/ j \in taken
         PROVE  \E k \in 1..Len(tops) : j \in tops[k].members
    <3>1. j < current \/ j \in nested \/ j \in top.members
      BY <1>6, <2>2, <2>6, <2>11
    <3>2. CASE j < current \/ j \in nested
      <4>1. PICK k \in 1..n : j \in flattened[k].members
        BY <1>6, <2>4, <3>2
      <4> QED
        BY <2>5, <4>1
    <3>3. CASE j \in top.members
      <4>1. n + 1 \in 1..Len(tops)
        BY <2>5
      <4> QED
        BY <2>5, <3>3, <4>1
    <3> QED
      BY <3>1, <3>2, <3>3
  <2>12. ASSUME NEW j \in 1..Len(ranked), NEW k \in 1..Len(tops), j >= current + 1, j \notin taken
         PROVE  tops[k].right <= ranked[j].left
    <3>1. j \in current + 1..Len(ranked) /\ j >= current /\ j \notin nested /\ j \notin top.members
      BY <1>6, <2>6, <2>12
    <3>2. CASE k \in 1..n
      BY <1>6, <2>4, <2>5, <3>1, <3>2
    <3>3. CASE k = n + 1
      BY <2>2, <2>5, <3>1, <3>3
    <3> QED
      BY <2>5, <2>8, <3>2, <3>3
  <2>13. TopsFit(ranked, current + 1, taken, tops)
    BY <1>6, <2>5, <2>7, <2>9, <2>10, <2>11, <2>12 DEF TopsFit
  <2>14. flattened' = tops /\ nested' = taken
    BY <1>5, <1>9, <2>3, <2>6
  <2>15. TopsFit(ranked', current', nested', flattened')
    BY <1>3, <2>13, <2>14
  <2>16. ListsFit(listed, mapped)'
    <3>1. /\ mapped \in Nat /\ mapped <= n /\ listed \in Seq(SUBSET UNION Found) /\ Len(listed) = mapped
          /\ \A k \in 1..mapped : listed[k] = {d \in DocumentsOf(flattened[k]) : ~IsPersonal(d)}
      BY <1>2, <2>4 DEF ListsFit
    <3>2. mapped <= Len(tops) /\ \A k \in 1..mapped : tops[k] = flattened[k]
      BY <2>5, <3>1
    <3>3. \A k \in 1..mapped : listed[k] = {d \in DocumentsOf(tops[k]) : ~IsPersonal(d)}
      BY <3>1, <3>2
    <3>4. \A k \in 1..mapped : listed[k] = {d \in UNION {ranked[j].documents : j \in tops[k].members} : ~IsPersonal(d)}
      BY <3>3 DEF DocumentsOf
    <3> QED
      BY <1>3, <2>14, <3>1, <3>2, <3>4 DEF ListsFit, DocumentsOf
  <2> QED
    BY <1>2, <1>3, <1>7, <2>15, <2>16 DEF AttributionInv, SpansAndDocumentsAgree
<1> QED
  BY <1>8, <1>9

\* One round of the loop over the spans: the documents of one more span.
LEMMA MapStep ==
  ASSUME AttributionInv, MapSpan
  PROVE  AttributionInv'
<1>1. /\ reply = 0 /\ current # 0 /\ mapped < Len(flattened)
      /\ mapped' = mapped + 1
      /\ UNCHANGED <<inquiry, received, ranked, current, nested, flattened, reply>>
  <2>1. reply = 0 /\ current > 0 /\ mapped < Len(flattened)
    BY DEF MapSpan
  <2>2. current # 0
    BY <2>1
  <2> QED
    BY <2>1, <2>2 DEF MapSpan
<1>2. PICK new : new = {d \in DocumentsOf(flattened[mapped + 1]) : ~IsPersonal(d)}
  OBVIOUS
<1>3. listed' = Append(listed, new) /\ shown' = WithSpan(shown, new, mapped + 1)
  BY <1>2 DEF MapSpan
<1>4. /\ SpansFound /\ received # <<>> /\ RankedFit(received[1], ranked)
      /\ TopsFit(ranked, current, nested, flattened) /\ ListsFit(listed, mapped) /\ Agree(listed, shown)
  BY <1>1 DEF AttributionInv
<1>5. PICK m : m = mapped + 1
  OBVIOUS
<1>6. /\ mapped \in Nat /\ mapped <= Len(flattened) /\ listed \in Seq(SUBSET UNION Found) /\ Len(listed) = mapped
      /\ \A k \in 1..mapped : listed[k] = {d \in DocumentsOf(flattened[k]) : ~IsPersonal(d)}
  BY <1>4 DEF ListsFit
<1>7. /\ Len(flattened) \in Nat /\ \A k \in 1..Len(flattened) : Holds(ranked, flattened[k])
      /\ ranked \in Seq(Spans) /\ \A i \in 1..Len(ranked) : \A d \in ranked[i].documents : IsShown(d)
  BY <1>4 DEF TopsFit, RankedFit
<1>8. m \in 1..Len(flattened) /\ m \in Nat /\ m <= Len(flattened) /\ mapped < m
  BY <1>1, <1>5, <1>6, <1>7
<1>9. ASSUME NEW d \in new PROVE d \in UNION Found /\ IsShown(d)
  <2>1. PICK j \in flattened[m].members : d \in ranked[j].documents
    BY <1>2, <1>5 DEF DocumentsOf
  <2>2. j \in 1..Len(ranked)
    BY <1>7, <1>8, <2>1 DEF Holds
  <2>3. ranked[j] \in Spans
    BY <1>7, <2>2
  <2> QED
    BY <1>7, <2>1, <2>2, <2>3 DEF Spans
<1>10. PICK ls : ls = Append(listed, new)
  OBVIOUS
<1>11. /\ ls \in Seq(SUBSET UNION Found) /\ Len(ls) = m /\ ls[m] = new
       /\ \A k \in 1..mapped : ls[k] = listed[k]
  <2>1. new \in SUBSET UNION Found
    BY <1>9
  <2> QED
    BY <1>5, <1>6, <1>10, <2>1, AppendProperties
<1>12. \A k \in 1..m : k = m \/ k \in 1..mapped
  BY <1>5, <1>6
<1>13. \A k \in 1..m : ls[k] = {d \in DocumentsOf(flattened[k]) : ~IsPersonal(d)}
  BY <1>2, <1>5, <1>6, <1>11, <1>12
<1>14. ListsFit(ls, m)
  BY <1>8, <1>11, <1>13 DEF ListsFit
<1>15. PICK documents : documents = WithSpan(shown, new, m)
  OBVIOUS
<1>16. /\ DOMAIN documents = DOMAIN shown \cup new
       /\ \A d \in DOMAIN documents : documents[d] = IF d \notin DOMAIN shown THEN {m}
                                                    ELSE IF d \in new THEN shown[d] \cup {m} ELSE shown[d]
  BY <1>15 DEF WithSpan, FromDocument, UpdateMapped
<1>17. /\ \A k \in 1..mapped : \A d : d \in listed[k] <=> d \in DOMAIN shown /\ k \in shown[d]
       /\ \A d \in DOMAIN shown : IsShown(d) /\ shown[d] \subseteq 1..mapped
  BY <1>4, <1>6 DEF Agree
<1>18. m \notin 1..mapped /\ (\A k \in 1..mapped : k # m /\ k \in 1..m) /\ m \in 1..m
  BY <1>5, <1>6
<1>19. ASSUME NEW k \in 1..m, NEW d PROVE d \in ls[k] <=> d \in DOMAIN documents /\ k \in documents[d]
  <2>1. CASE k = m
    BY <1>11, <1>16, <1>17, <1>18, <2>1
  <2>2. CASE k \in 1..mapped
    <3>1. ls[k] = listed[k] /\ k # m /\ (d \in listed[k] <=> d \in DOMAIN shown /\ k \in shown[d])
      BY <1>11, <1>17, <1>18, <2>2
    <3>2. CASE d \in DOMAIN shown
      <4>1. d \in DOMAIN documents /\ documents[d] = IF d \in new THEN shown[d] \cup {m} ELSE shown[d]
        BY <1>16, <3>2
      <4>2. k \in documents[d] <=> k \in shown[d]
        BY <3>1, <4>1
      <4> QED
        BY <3>1, <3>2, <4>1, <4>2
    <3>3. CASE d \notin DOMAIN shown
      <4>1. d \in DOMAIN documents => documents[d] = {m}
        BY <1>16, <3>3
      <4>2. ~(d \in DOMAIN documents /\ k \in documents[d])
        BY <3>1, <4>1
      <4> QED
        BY <3>1, <3>3, <4>2
    <3> QED
      BY <3>2, <3>3
  <2> QED
    BY <1>12, <2>1, <2>2
<1>20. ASSUME NEW d \in DOMAIN documents PROVE IsShown(d) /\ documents[d] \subseteq 1..m
  <2>1. CASE d \in DOMAIN shown
    <3>1. IsShown(d) /\ shown[d] \subseteq 1..m
      BY <1>17, <1>18, <2>1
    <3>2. documents[d] = IF d \in new THEN shown[d] \cup {m} ELSE shown[d]
      BY <1>16, <2>1
    <3> QED
      BY <1>18, <3>1, <3>2
  <2>2. CASE d \notin DOMAIN shown
    <3>1. d \in new /\ documents[d] = {m}
      BY <1>16, <2>2
    <3> QED
      BY <1>9, <1>18, <3>1
  <2> QED
    BY <2>1, <2>2
<1>21. Agree(ls, documents)
  BY <1>11, <1>19, <1>20 DEF Agree
<1>22. ListsFit(listed, mapped)' /\ Agree(listed, shown)'
  <2>1. listed' = ls /\ mapped' = m /\ shown' = documents
    BY <1>1, <1>3, <1>5, <1>10, <1>15
  <2>2. Agree(listed', shown')
    BY <1>21, <2>1
  <2>3. \A k \in 1..m : ls[k] = {d \in UNION {ranked[j].documents : j \in flattened[k].members} : ~IsPersonal(d)}
    BY <1>13 DEF DocumentsOf
  <2>4. ListsFit(listed, mapped)'
    BY <1>1, <1>8, <1>11, <2>1, <2>3 DEF ListsFit, DocumentsOf
  <2> QED
    BY <2>2, <2>4
<1>23. SpansFound' /\ received' # <<>> /\ RankedFit(received[1], ranked)' /\ TopsFit(ranked, current, nested, flattened)'
  BY <1>1, <1>4 DEF SpansFound
<1> QED
  BY <1>1, <1>22, <1>23 DEF AttributionInv, SpansAndDocumentsAgree

\* A sort that leaves places in order changes none.
LEMMA Increasing ==
  ASSUME NEW n \in Nat, NEW f \in [1..n -> 1..n], \A k, l \in 1..n : k < l => f[k] < f[l]
  PROVE  \A k \in 1..n : f[k] = k
<1> DEFINE U == {k \in Nat : k \in 1..n => f[k] >= k}
           V == {k \in Nat : k < n => f[n - k] <= n - k}
<1>1. 0 \in U /\ 0 \in V
  OBVIOUS
<1>2. ASSUME NEW k \in Nat, k \in U PROVE k + 1 \in U
  <2> SUFFICES ASSUME k + 1 \in 1..n PROVE f[k + 1] >= k + 1
    OBVIOUS
  <2>1. f[k + 1] \in 1..n
    OBVIOUS
  <2>2. k # 0 => k \in 1..n /\ f[k] \in 1..n /\ f[k] >= k /\ f[k] < f[k + 1]
    BY <1>2
  <2> QED
    BY <2>1, <2>2
<1>3. ASSUME NEW k \in Nat, k \in V PROVE k + 1 \in V
  <2> SUFFICES ASSUME k + 1 < n PROVE f[n - (k + 1)] <= n - (k + 1)
    OBVIOUS
  <2>1. n - (k + 1) \in 1..n /\ n - k \in 1..n /\ n - (k + 1) < n - k
    OBVIOUS
  <2>2. f[n - (k + 1)] < f[n - k] /\ f[n - k] <= n - k
    BY <1>3, <2>1
  <2>3. f[n - (k + 1)] \in 1..n /\ f[n - k] \in 1..n
    BY <2>1
  <2> QED
    BY <2>2, <2>3
<1> HIDE DEF U, V
<1>4. ASSUME NEW k \in 1..n PROVE f[k] = k
  <2>1. f[k] >= k
    <3>1. k \in Nat
      OBVIOUS
    <3>2. k \in U
      BY <1>1, <1>2, <3>1, Induction
    <3> QED
      BY <3>2 DEF U
  <2>2. f[k] <= k
    <3>1. n - k \in Nat /\ n - (n - k) = k /\ n - k < n
      OBVIOUS
    <3>2. n - k \in V
      BY <1>1, <1>3, <3>1, Induction
    <3> QED
      BY <3>1, <3>2 DEF V
  <2> QED
    BY <2>1, <2>2
<1> QED
  BY <1>4

\* The spans stand apart, in order: the sort leaves them where they are.
LEMMA InPlace ==
  ASSUME AttributionInv, reply = 0, current # 0, NEW order \in Orders
  PROVE  /\ DOMAIN order = DOMAIN flattened
         /\ \A k \in DOMAIN flattened : order[k] = k
<1>1. PICK n : n = Len(flattened)
  OBVIOUS
<1>2. /\ flattened \in Seq(Tops)
      /\ \A k \in 1..n : Holds(ranked, flattened[k])
      /\ \A k, l \in 1..n : k < l => flattened[k].right <= flattened[l].left
  BY <1>1 DEF AttributionInv, TopsFit
<1>3. n \in Nat /\ DOMAIN flattened = 1..n
  BY <1>1, <1>2
<1>4. IsFiniteSet(1..n) /\ Cardinality(1..n) = n
  BY <1>3, FS_Interval
<1>5. \A k \in 1..n : /\ flattened[k].left \in Nat /\ flattened[k].right \in Nat
                      /\ flattened[k].left < flattened[k].right
  BY <1>2 DEF Holds, Tops
<1>6. \A k, l \in 1..n : k < l => flattened[k].left < flattened[l].left
  BY <1>2, <1>5
<1>7. order \in [1..n -> 1..n]
  BY <1>3, <1>4 DEF Orders, SetToSeqs
<1>8. ASSUME NEW k \in 1..n, NEW l \in 1..n, k < l PROVE order[k] < order[l]
  <2>1. /\ order[k] \in 1..n /\ order[l] \in 1..n
        /\ \/ flattened[order[k]].left < flattened[order[l]].left
           \/ flattened[order[k]].left = flattened[order[l]].left /\ order[k] < order[l]
    BY <1>7, <1>8 DEF Orders
  <2>2. order[l] < order[k] => flattened[order[l]].left < flattened[order[k]].left
    BY <1>6, <2>1
  <2>3. order[k] = order[l] => order[k] < order[l]
    <3>1. flattened[order[k]].left \in Nat /\ flattened[order[l]].left \in Nat
      BY <1>5, <2>1
    <3> QED
      BY <2>1, <3>1
  <2>4. ~(order[l] < order[k])
    <3>1. flattened[order[k]].left \in Nat /\ flattened[order[l]].left \in Nat
      BY <1>5, <2>1
    <3> QED
      BY <2>1, <2>2, <3>1
  <2> QED
    BY <2>1, <2>3, <2>4
<1>9. \A k \in 1..n : order[k] = k
  BY <1>3, <1>7, <1>8, Increasing
<1> QED
  BY <1>3, <1>7, <1>9

\* The response is put together: it says the same of spans and documents.
LEMMA AttributeStep ==
  ASSUME AttributionInv, Attribute
  PROVE  AttributionInv'
<1>1. /\ reply = 0 /\ current # 0 /\ Len(ranked) < current /\ mapped = Len(flattened)
      /\ reply' = 200
      /\ UNCHANGED <<inquiry, received, ranked, current, nested, mapped, shown>>
  <2>1. reply = 0 /\ current > 0 /\ current > Len(ranked) /\ mapped = Len(flattened)
    BY DEF Attribute
  <2>2. current # 0
    BY <2>1
  <2> QED
    BY <2>1, <2>2 DEF Attribute
<1>2. /\ SpansFound /\ received # <<>> /\ RankedFit(received[1], ranked)
      /\ TopsFit(ranked, current, nested, flattened) /\ ListsFit(listed, mapped) /\ Agree(listed, shown)
  BY <1>1 DEF AttributionInv
<1>3. PICK order \in Orders : /\ flattened' = [k \in DOMAIN flattened |-> flattened[order[k]]]
                              /\ listed' = [k \in DOMAIN listed |-> listed[order[k]]]
  BY Zenon DEF Attribute
<1>4. \A k \in DOMAIN flattened : order[k] = k
  BY <1>1, InPlace
<1>5. PICK n : n = Len(flattened)
  OBVIOUS
<1>6. /\ n \in Nat /\ flattened \in Seq(Tops) /\ listed \in Seq(SUBSET UNION Found) /\ Len(listed) = n
      /\ \A k \in 1..n : listed[k] = {d \in DocumentsOf(flattened[k]) : ~IsPersonal(d)}
  BY <1>1, <1>2, <1>5 DEF ListsFit, TopsFit
<1>7. DOMAIN flattened = 1..n /\ DOMAIN listed = 1..n
  BY <1>5, <1>6
<1>8. flattened' = flattened
  <2>1. flattened = [k \in DOMAIN flattened |-> flattened[k]]
    BY <1>6
  <2> QED
    BY <1>3, <1>4, <2>1, Zenon
<1>9. listed' = listed
  <2>1. listed = [k \in DOMAIN listed |-> listed[k]]
    BY <1>6
  <2> QED
    BY <1>3, <1>4, <1>7, <2>1, Zenon
<1>10. /\ \A k \in 1..n : Holds(ranked, flattened[k])
       /\ \A k, l \in 1..n : k < l => flattened[k].right <= flattened[l].left
       /\ \A j \in 1..Len(ranked) : j < current => \E k \in 1..n : j \in flattened[k].members
       /\ current \in Nat
  BY <1>2, <1>5 DEF TopsFit
<1>11. /\ ranked \in Seq(Spans)
       /\ \A s \in received[1], d \in Documents : d \in s.documents /\ IsShown(d) =>
            \E j \in 1..Len(ranked) : ranked[j].left = s.left /\ ranked[j].right = s.right /\ d \in ranked[j].documents
  BY <1>2 DEF RankedFit
<1>12. /\ \A k \in 1..n : \A d : d \in listed[k] <=> d \in DOMAIN shown /\ k \in shown[d]
       /\ \A d \in DOMAIN shown : IsShown(d) /\ shown[d] \subseteq 1..n
  BY <1>2, <1>6 DEF Agree
<1>13. ASSUME NEW s \in received[1], NEW d \in Documents, d \in s.documents, IsShown(d)
       PROVE  \E k \in 1..n : flattened[k].left <= s.left /\ s.right <= flattened[k].right /\ d \in listed[k]
  <2>1. PICK j \in 1..Len(ranked) : ranked[j].left = s.left /\ ranked[j].right = s.right /\ d \in ranked[j].documents
    BY <1>11, <1>13
  <2>2. j < current
    BY <1>1, <1>10, <1>11
  <2>3. PICK k \in 1..n : j \in flattened[k].members
    BY <1>10, <2>2
  <2>4. flattened[k].left <= ranked[j].left /\ ranked[j].right <= flattened[k].right
    BY <1>10, <2>3 DEF Holds
  <2>5. d \in DocumentsOf(flattened[k]) /\ ~IsPersonal(d)
    BY <1>13, <2>1, <2>3 DEF DocumentsOf, IsShown
  <2>6. d \in listed[k]
    BY <1>6, <2>5
  <2> QED
    BY <2>1, <2>4, <2>6
<1>14. /\ \A k \in DOMAIN listed, d \in Documents : d \in listed[k] <=> d \in DOMAIN shown /\ k \in shown[d]
       /\ \A d \in DOMAIN shown : IsShown(d) /\ shown[d] \subseteq DOMAIN listed
       /\ \A k, l \in DOMAIN flattened : k < l => flattened[k].right <= flattened[l].left
       /\ \A s \in received[1], d \in Documents : d \in s.documents /\ IsShown(d) =>
            \E k \in DOMAIN flattened :
              flattened[k].left <= s.left /\ s.right <= flattened[k].right /\ d \in listed[k]
  BY <1>7, <1>10, <1>12, <1>13, Zenon
<1>15. SpansAndDocumentsAgree'
  BY <1>1, <1>8, <1>9, <1>14 DEF SpansAndDocumentsAgree, IsShown, IsPersonal
<1>16. SpansFound'
  BY <1>1, <1>2 DEF SpansFound
<1> QED
  BY <1>1, <1>15, <1>16 DEF AttributionInv

\* The index is asked, or nothing is.
LEMMA InquireStep ==
  ASSUME AttributionInv, Inquire
  PROVE  AttributionInv'
<1>1. /\ reply = 0 /\ received = <<>>
      /\ \/ \E code \in {400, 404} \cup Refusals : End(code)
         \/ /\ \E chosen \in SomePlaces : \E found \in [chosen -> Found] :
                 received' = <<{Span(place[1], place[2], found[place]) : place \in chosen}>>
            /\ UNCHANGED <<ranked, current, nested, flattened, mapped, shown, listed, reply>>
  BY DEF Inquire, Refused
<1>2. SpansFound
  BY DEF AttributionInv
<1>3. \A code \in {400, 404} \cup Refusals : code # 0 /\ code # 200
  <2>1. \A failure \in Failures : AnswerOfFailure(failure) \in {500, 502, 503}
    BY DEF AnswerOfFailure
  <2>2. Refusals \subseteq {500, 502, 503}
    BY <2>1 DEF Refusals, Unanswered
  <2> QED
    BY <2>2
<1>4. CASE \E code \in {400, 404} \cup Refusals : End(code)
  <2>1. PICK code \in {400, 404} \cup Refusals : End(code)
    BY <1>4
  <2>2. reply' # 0 /\ reply' # 200 /\ received' = received
    BY <1>3, <2>1 DEF End
  <2> QED
    BY <1>2, <2>2 DEF AttributionInv, SpansAndDocumentsAgree, SpansFound
<1>5. CASE /\ \E chosen \in SomePlaces : \E found \in [chosen -> Found] :
                received' = <<{Span(place[1], place[2], found[place]) : place \in chosen}>>
           /\ UNCHANGED <<ranked, current, nested, flattened, mapped, shown, listed, reply>>
  <2>1. PICK chosen \in SomePlaces : \E found \in [chosen -> Found] :
          received' = <<{Span(place[1], place[2], found[place]) : place \in chosen}>>
    BY <1>5
  <2>2. PICK found \in [chosen -> Found] :
          received' = <<{Span(place[1], place[2], found[place]) : place \in chosen}>>
    BY <2>1
  <2>3. PICK spans : spans = {Span(place[1], place[2], found[place]) : place \in chosen}
    OBVIOUS
  <2>4. IsFiniteSet(spans) /\ \A s \in spans : s \in Spans /\ s.left < s.right
    BY <2>3, FoundFit
  <2>5. SpansFound'
    BY <2>2, <2>3, <2>4, Zenon DEF SpansFound
  <2>6. current = 0
    BY <1>1 DEF AttributionInv
  <2> QED
    BY <1>1, <1>5, <2>5, <2>6 DEF AttributionInv, SpansAndDocumentsAgree, NothingRanked
<1> QED
  BY <1>1, <1>4, <1>5

\* What was found is filtered and ranked.
LEMMA FilterStep ==
  ASSUME AttributionInv, Filter
  PROVE  AttributionInv'
<1>1. /\ reply = 0 /\ received # <<>> /\ current = 0 /\ current' = 1
      /\ UNCHANGED <<inquiry, received, nested, flattened, mapped, shown, listed, reply>>
  BY DEF Filter
<1>2. SpansFound /\ NothingRanked
  BY <1>1 DEF AttributionInv
<1>3. PICK spans : received = <<spans>> /\ IsFiniteSet(spans) /\ \A s \in spans : s \in Spans /\ s.left < s.right
  BY <1>1, <1>2, Zenon DEF SpansFound
<1>4. received[1] = spans
  BY <1>3
<1>5. PICK ss : ss = ranked'
  OBVIOUS
<1>6. ss \in SetToSeqs(Filtered(spans)) /\ \A i, j \in DOMAIN ss : i < j => Before(ss[i], ss[j])
  BY <1>4, <1>5 DEF Filter
<1>7. RankedFit(spans, ss)
  BY <1>3, <1>6, Ranked
<1>8. TopsFit(ss, 1, {}, <<>>)
  <2>1. <<>> \in Seq(Tops) /\ 1..Len(<<>>) = {} /\ \A j \in 1..Len(ss) : ~(j < 1)
    BY <1>7 DEF RankedFit
  <2> QED
    BY <2>1, Zenon DEF TopsFit
<1>9. ListsFit(listed, mapped)'
  <2>1. listed' = <<>> /\ mapped' = 0 /\ flattened' = <<>>
    BY <1>1, <1>2 DEF NothingRanked
  <2> QED
    BY <2>1 DEF ListsFit
<1>10. Agree(<<>>, <<>>)
  <2>1. DOMAIN <<>> = {} /\ 1..Len(<<>>) = {}
    OBVIOUS
  <2> QED
    BY <2>1, Zenon DEF Agree
<1>11. SpansFound'
  BY <1>1, <1>2 DEF SpansFound
<1>12. RankedFit(received'[1], ranked') /\ TopsFit(ranked', current', nested', flattened') /\ Agree(listed', shown')
  BY <1>1, <1>2, <1>4, <1>5, <1>7, <1>8, <1>10 DEF NothingRanked
<1>13. received' # <<>> /\ current' # 0 /\ reply' # 200
  BY <1>1
<1> QED
  BY <1>9, <1>11, <1>12, <1>13 DEF AttributionInv, SpansAndDocumentsAgree

\* Every step of the attribution keeps it.
LEMMA AttributionStep ==
  ASSUME AttributionInv, [AttributionNext]_attributionVars
  PROVE  AttributionInv'
<1>1. CASE UNCHANGED attributionVars
  <2>1. /\ UNCHANGED <<received, ranked, current, nested, flattened>>
        /\ UNCHANGED <<mapped, shown, listed, reply>>
    BY <1>1 DEF attributionVars
  <2>2. SpansFound' <=> SpansFound
    BY <2>1 DEF SpansFound
  <2>3. SpansAndDocumentsAgree' <=> SpansAndDocumentsAgree
    BY <2>1 DEF SpansAndDocumentsAgree, IsShown, IsPersonal
  <2>4. ListsFit(listed, mapped)' <=> ListsFit(listed, mapped)
    BY <2>1 DEF ListsFit, DocumentsOf
  <2> QED
    BY <2>1, <2>2, <2>3, <2>4 DEF AttributionInv, NothingRanked
<1> QED
  BY <1>1, InquireStep, FilterStep, FlattenStep, MapStep, AttributeStep DEF AttributionNext

\* Before the index is asked nothing is found.
LEMMA AttributionBegins ==
  AttributionInit \/ NoInquiry => AttributionInv
  BY DEF AttributionInit, NoInquiry, AttributionInv, SpansFound, SpansAndDocumentsAgree, NothingRanked

\* The inductive invariant of an inquiry, from what was found to the response.
THEOREM AttributionAlways ==
  AttributionSpec => []AttributionInv
<1>1. AttributionInit => AttributionInv
  BY AttributionBegins
<1>2. AttributionInv /\ [AttributionNext]_attributionVars => AttributionInv'
  BY AttributionStep
<1> QED
  BY <1>1, <1>2, PTL DEF AttributionSpec

\* The response fits together, whatever the index answers.
THEOREM SpansAndDocuments ==
  AttributionSpec => []SpansAndDocumentsAgree
<1>1. AttributionInv => SpansAndDocumentsAgree
  BY DEF AttributionInv
<1> QED
  BY <1>1, AttributionAlways, PTL

\* Without an exchange there is no reply to look at.
LEMMA NothingExchanged == NoExchange => ReplyInv /\ ChainInv
  BY DEF NoExchange, ReplyInv, ChainInv

\* All three for the ways of requests, of which one moves and the others rest.
THEOREM RepliesHold ==
  RequestsSpec => [](ClientSeesWhatIsStored /\ PromptsAreWhole /\ SpansAndDocumentsAgree)
<1>1. RequestsInit => ReplyInv /\ ChainInv /\ AttributionInv
  BY FirstChain, NothingExchanged, AttributionBegins DEF RequestsInit
<1>2. ReplyInv /\ ChainInv /\ AttributionInv /\ [RequestsNext]_requestsVars => (ReplyInv /\ ChainInv /\ AttributionInv)'
  <2>1. [RequestsNext]_requestsVars => [InferenceNext]_inferenceVars /\ [AttributionNext]_attributionVars
    BY DEF RequestsNext, requestsVars
  <2> QED
    BY <2>1, ExchangeStep, AttributionStep
<1>3. ReplyInv /\ ChainInv /\ AttributionInv => ClientSeesWhatIsStored /\ PromptsAreWhole /\ SpansAndDocumentsAgree
  BY ShownAsStored, WholePrompts DEF AttributionInv
<1> QED
  BY <1>1, <1>2, <1>3, PTL DEF RequestsSpec

=============================================================================
