------------------------- MODULE HistoryIndexProofs -------------------------
(***************************************************************************)
(* Proofs about the journal's files, for any sizes and numbers of          *)
(* operations, records and crashes: what can be read of the journal is     *)
(* always the whole end of what was emitted, and maintenance takes no      *)
(* evidence away that recovery or a queued request still needs.            *)
(*                                                                         *)
(* Files are read by folds and by a recursive function; what these compute *)
(* is shown by induction.  The theorems on induction of the library that   *)
(* have an operator as a parameter cannot be cited; those on well-founded  *)
(* relations can, and give induction over sets of numbers.                 *)
(***************************************************************************)
EXTENDS HistoryIndex, FiniteSetTheorems, TLAPS

----------------------------------------------------------------------------
(* Induction.                                                              *)

\* A set of numbers has a least element.
LEMMA Least ==
  ASSUME NEW T \in SUBSET Nat, T # {}
  PROVE  \E x \in T : \A y \in T : x <= y
<1> DEFINE R == {ss \in Nat \X Nat : ss[1] < ss[2]}
<1>1. IsWellFoundedOn(R, Nat)
  BY NatLessThanWellFounded, Zenon DEF OpToRel
<1>2. \E x \in T : \A y \in T : <<y, x>> \notin R
  BY <1>1, WFMin
<1>3. \A x, y \in Nat : <<y, x>> \in R <=> y < x
  OBVIOUS
<1> HIDE DEF R
<1>4. PICK x \in T : \A y \in T : <<y, x>> \notin R
  BY <1>2
<1>5. ASSUME NEW y \in T PROVE x <= y
  <2>1. x \in Nat /\ y \in Nat /\ ~(y < x)
    BY <1>3, <1>4
  <2> QED BY <2>1
<1> QED BY <1>4, <1>5

\* A set of numbers that has 0 and the successors of its elements has them all.
LEMMA Induction ==
  ASSUME NEW P, 0 \in P, \A n \in Nat : n \in P => n + 1 \in P
  PROVE  \A n \in Nat : n \in P
<1> SUFFICES ASSUME Nat \ P # {} PROVE FALSE
  OBVIOUS
<1>1. PICK x \in Nat \ P : \A y \in Nat \ P : x <= y
  BY Least
<1>2. x # 0 /\ x - 1 \in Nat /\ x - 1 \in P
  BY <1>1
<1> QED BY <1>1, <1>2

----------------------------------------------------------------------------
(* Sequences.                                                              *)

LEMMA AppendIs ==
  ASSUME NEW X, NEW s \in Seq(X), NEW x \in X
  PROVE  /\ Append(s, x) \in Seq(X) /\ Len(Append(s, x)) = Len(s) + 1
         /\ Append(s, x)[Len(s) + 1] = x /\ \A i \in 1..Len(s) : Append(s, x)[i] = s[i]
OBVIOUS

\* A sequence that is not empty has a last element, and what is before it.
LEMMA FrontAndLast ==
  ASSUME NEW X, NEW s \in Seq(X), s # <<>>
  PROVE  /\ SubSeq(s, 1, Len(s) - 1) \in Seq(X) /\ s[Len(s)] \in X
         /\ Len(SubSeq(s, 1, Len(s) - 1)) = Len(s) - 1
         /\ s = Append(SubSeq(s, 1, Len(s) - 1), s[Len(s)])
<1>1. Len(s) \in Nat /\ Len(s) # 0 /\ DOMAIN s = 1..Len(s)
  OBVIOUS
<1>2. s[Len(s)] \in X
  BY <1>1
<1>3. /\ SubSeq(s, 1, Len(s) - 1) \in Seq(X) /\ Len(SubSeq(s, 1, Len(s) - 1)) = Len(s) - 1
      /\ \A i \in 1..(Len(s) - 1) : SubSeq(s, 1, Len(s) - 1)[i] = s[i]
  BY <1>1
<1>4. s = Append(SubSeq(s, 1, Len(s) - 1), s[Len(s)])
  BY <1>1, <1>2, <1>3
<1> QED BY <1>2, <1>3, <1>4

LEMMA ConcatIs ==
  ASSUME NEW X, NEW s \in Seq(X), NEW t \in Seq(X)
  PROVE  /\ s \o t \in Seq(X) /\ Len(s \o t) = Len(s) + Len(t)
         /\ \A i \in 1..Len(s) : (s \o t)[i] = s[i]
         /\ \A i \in 1..Len(t) : (s \o t)[Len(s) + i] = t[i]
OBVIOUS

LEMMA ConcatAssoc ==
  ASSUME NEW X, NEW s \in Seq(X), NEW t \in Seq(X), NEW u \in Seq(X)
  PROVE  (s \o t) \o u = s \o (t \o u)
OBVIOUS

LEMMA ConcatAppend ==
  ASSUME NEW X, NEW s \in Seq(X), NEW t \in Seq(X), NEW x \in X
  PROVE  s \o Append(t, x) = Append(s \o t, x)
OBVIOUS

LEMMA ConcatEmpty == ASSUME NEW X, NEW s \in Seq(X) PROVE s \o <<>> = s /\ <<>> \o s = s
OBVIOUS

LEMMA ConcatRange ==
  ASSUME NEW X, NEW s \in Seq(X), NEW t \in Seq(X)
  PROVE  Range(s \o t) = Range(s) \cup Range(t)
<1>1. /\ s \o t \in Seq(X) /\ Len(s \o t) = Len(s) + Len(t) /\ Len(s) \in Nat /\ Len(t) \in Nat
      /\ DOMAIN s = 1..Len(s) /\ DOMAIN t = 1..Len(t) /\ DOMAIN (s \o t) = 1..(Len(s) + Len(t))
      /\ \A i \in 1..Len(s) : (s \o t)[i] = s[i]
      /\ \A i \in 1..Len(t) : (s \o t)[Len(s) + i] = t[i]
  OBVIOUS
<1>2. \A i \in 1..(Len(s) + Len(t)) : i \in 1..Len(s) \/ (i - Len(s) \in 1..Len(t) /\ i = Len(s) + (i - Len(s)))
  BY <1>1
<1>3. \A i \in 1..Len(s) : i \in 1..(Len(s) + Len(t))
  BY <1>1
<1>4. \A i \in 1..Len(t) : Len(s) + i \in 1..(Len(s) + Len(t))
  BY <1>1
<1>5. ASSUME NEW x \in Range(s \o t) PROVE x \in Range(s) \cup Range(t)
  <2>1. PICK i \in 1..(Len(s) + Len(t)) : x = (s \o t)[i]
    BY <1>1 DEF Range
  <2>2. x = s[i] \/ (i - Len(s) \in 1..Len(t) /\ x = t[i - Len(s)])
    BY <1>1, <1>2, <2>1
  <2>3. CASE i \in 1..Len(s)
    BY <1>1, <2>1, <2>3 DEF Range
  <2>4. CASE i \notin 1..Len(s)
    BY <1>1, <1>2, <2>1, <2>4 DEF Range
  <2> QED BY <2>3, <2>4
<1>6. ASSUME NEW x \in Range(s) PROVE x \in Range(s \o t)
  BY <1>1, <1>3 DEF Range
<1>7. ASSUME NEW x \in Range(t) PROVE x \in Range(s \o t)
  BY <1>1, <1>4 DEF Range
<1> QED BY <1>5, <1>6, <1>7
----------------------------------------------------------------------------
(* FlattenSeq.                                                             *)

\* The runs of s up to n: the i-th is its first i elements, one after another.
Runs(s, n, f) == f = [i \in 1..n |-> IF i = 1 THEN s[i] ELSE f[i - 1] \o s[i]]

Joined(s, f, k) == f[k + 1] = f[k] \o s[k + 1]
Agree(s, t, n) == \A i \in 1..n : s[i] = t[i]

LEMMA RunsFirst ==
  ASSUME NEW s, NEW n \in Nat, NEW f, Runs(s, n, f), n # 0
  PROVE  f[1] = s[1]
<1>1. 1 \in 1..n
  OBVIOUS
<1> QED BY <1>1 DEF Runs

LEMMA RunsNext ==
  ASSUME NEW s, NEW n \in Nat, NEW f, Runs(s, n, f), NEW k \in Nat, k # 0, k + 1 <= n
  PROVE  Joined(s, f, k)
<1>1. k + 1 \in 1..n /\ k + 1 # 1 /\ (k + 1) - 1 = k
  OBVIOUS
<1>2. \A i \in 1..n : f[i] = IF i = 1 THEN s[i] ELSE f[i - 1] \o s[i]
  BY DEF Runs
<1>3. f[k + 1] = IF k + 1 = 1 THEN s[k + 1] ELSE f[(k + 1) - 1] \o s[k + 1]
  BY <1>1, <1>2, Zenon
<1> QED BY <1>1, <1>3 DEF Joined

LEMMA RunsExtend ==
  ASSUME NEW s, NEW n \in Nat, NEW f, Runs(s, n, f)
  PROVE  \E g : Runs(s, n + 1, g)
<1> DEFINE x == IF n = 0 THEN s[1] ELSE f[n] \o s[n + 1]
           g == [i \in 1..(n + 1) |-> IF i = n + 1 THEN x ELSE f[i]]
<1>1. g = [i \in 1..(n + 1) |-> g[i]]
  BY Zenon
<1>2. \A i \in 1..(n + 1) : g[i] = IF i = n + 1 THEN x ELSE f[i]
  BY Zenon
<1>3. (n = 0 => x = s[1]) /\ (n # 0 => x = f[n] \o s[n + 1])
  BY Zenon
<1> HIDE DEF g, x
<1>4. n + 1 \in 1..(n + 1) /\ \A i \in 1..n : i \in 1..(n + 1) /\ i # n + 1
  OBVIOUS
<1>5. g[n + 1] = x /\ \A i \in 1..n : g[i] = f[i]
  BY <1>2, <1>4, Zenon
<1>6. ASSUME NEW i \in 1..(n + 1) PROVE g[i] = IF i = 1 THEN s[i] ELSE g[i - 1] \o s[i]
  <2>1. CASE i = n + 1 /\ n = 0
    <3>1. i = 1 /\ n + 1 = 1
      BY <2>1
    <3> QED BY <1>3, <1>5, <2>1, <3>1, Zenon
  <2>2. CASE i = n + 1 /\ n # 0
    <3>1. i # 1 /\ i - 1 = n /\ n \in 1..n
      BY <2>2
    <3>2. g[i] = f[n] \o s[i] /\ g[i - 1] = f[n]
      BY <1>3, <1>5, <2>2, <3>1, Zenon
    <3> QED BY <3>1, <3>2, Zenon
  <2>3. CASE i # n + 1
    <3>1. i \in 1..n /\ (i # 1 => i - 1 \in 1..n)
      BY <2>3
    <3>2. f[i] = IF i = 1 THEN s[i] ELSE f[i - 1] \o s[i]
      BY <3>1, Zenon DEF Runs
    <3> QED BY <1>5, <3>1, <3>2, Zenon
  <2> QED BY <2>1, <2>2, <2>3
<1>7. g = [i \in 1..(n + 1) |-> IF i = 1 THEN s[i] ELSE g[i - 1] \o s[i]]
  BY <1>1, <1>6, Zenon
<1>8. Runs(s, n + 1, g)
  BY <1>7 DEF Runs
<1> QED BY <1>8

LEMMA RunsExist == ASSUME NEW s, NEW n \in Nat PROVE \E f : Runs(s, n, f)
<1> DEFINE P == {k \in Nat : \E f : Runs(s, k, f)}
<1>1. 0 \in P
  <2>1. Runs(s, 0, [i \in {} |-> i])
    BY DEF Runs
  <2> QED BY <2>1
<1>2. ASSUME NEW k \in Nat, k \in P PROVE k + 1 \in P
  BY <1>2, RunsExtend
<1> HIDE DEF P
<1>3. n \in P
  BY <1>1, <1>2, Induction
<1> QED BY <1>3 DEF P

\* Runs are told by the elements they are made of.
LEMMA RunsUnique ==
  ASSUME NEW n \in Nat, NEW s, NEW a \in Nat, NEW f, Runs(s, a, f), n <= a,
                        NEW t, NEW b \in Nat, NEW g, Runs(t, b, g), n <= b,
         Agree(s, t, n)
  PROVE  Agree(f, g, n)
<1> DEFINE P == {k \in Nat : k \in 1..n => f[k] = g[k]}
<1>1. 0 \in P
  OBVIOUS
<1>2. ASSUME NEW k \in Nat, k \in P PROVE k + 1 \in P
  <2> SUFFICES ASSUME k + 1 \in 1..n PROVE f[k + 1] = g[k + 1]
    OBVIOUS
  <2>1. k + 1 <= a /\ k + 1 <= b /\ s[k + 1] = t[k + 1] /\ a # 0 /\ b # 0
    BY DEF Agree
  <2>2. CASE k = 0
    <3>1. f[1] = s[1]
      BY <2>1, RunsFirst
    <3>2. g[1] = t[1]
      BY <2>1, RunsFirst
    <3> QED BY <2>1, <2>2, <3>1, <3>2
  <2>3. CASE k # 0
    <3>1. Joined(s, f, k) /\ Joined(t, g, k)
      BY <2>1, <2>3, RunsNext
    <3>2. f[k + 1] = f[k] \o s[k + 1] /\ g[k + 1] = g[k] \o t[k + 1]
      BY <3>1 DEF Joined
    <3>3. k \in 1..n
      BY <2>3
    <3>4. f[k] = g[k]
      BY <1>2, <3>3
    <3> QED BY <2>1, <3>2, <3>4, Zenon
  <2> QED BY <2>2, <2>3
<1> HIDE DEF P
<1>3. \A k \in Nat : k \in P
  BY <1>1, <1>2, Induction
<1> QED BY <1>3 DEF P, Agree

LEMMA FrontsAgree ==
  ASSUME NEW X, NEW s \in Seq(X), NEW t \in Seq(X), NEW m \in Nat, m <= Len(s), m <= Len(t),
         Agree(s, t, m)
  PROVE  SubSeq(s, 1, m) = SubSeq(t, 1, m)
<1>1. \A i \in 1..m : s[i] = t[i]
  BY DEF Agree
<1> QED BY <1>1

LEMMA FlattenIs ==
  ASSUME NEW s, Len(s) \in Nat, Len(s) # 0, NEW f, Runs(s, Len(s), f)
  PROVE  FlattenSeq(s) = f[Len(s)]
<1> DEFINE c == CHOOSE g : g = [i \in 1..Len(s) |-> IF i = 1 THEN s[i] ELSE g[i - 1] \o s[i]]
<1>1. FlattenSeq(s) = c[Len(s)]
  BY Zenon DEF FlattenSeq
<1>2. c = [i \in 1..Len(s) |-> IF i = 1 THEN s[i] ELSE c[i - 1] \o s[i]]
  BY Zenon DEF Runs
<1> HIDE DEF c
<1>3. Runs(s, Len(s), c)
  BY <1>2 DEF Runs
<1>4. Len(s) <= Len(s) /\ Len(s) \in 1..Len(s) /\ Agree(s, s, Len(s))
  BY DEF Agree
<1>5. Agree(c, f, Len(s))
  BY <1>3, <1>4, RunsUnique
<1> QED BY <1>1, <1>4, <1>5 DEF Agree

LEMMA FlattenEmpty == FlattenSeq(<<>>) = <<>>
BY DEF FlattenSeq

LEMMA FlattenAppend ==
  ASSUME NEW X, NEW s \in Seq(Seq(X)), NEW x \in Seq(X)
  PROVE  FlattenSeq(Append(s, x)) = FlattenSeq(s) \o x
<1> DEFINE t == Append(s, x)
           n == Len(s)
<1>1. n \in Nat /\ Len(s) = n /\ Len(t) = n + 1 /\ t[n + 1] = x /\ Agree(t, s, n)
  BY AppendIs DEF Agree
<1> HIDE DEF t, n
<1>2. n + 1 \in Nat /\ n + 1 # 0 /\ n <= n /\ n <= n + 1 /\ n + 1 <= n + 1
  BY <1>1
<1>3. PICK g : Runs(t, n + 1, g)
  BY <1>2, RunsExist, Zenon
<1>4. FlattenSeq(t) = g[n + 1]
  BY <1>1, <1>2, <1>3, FlattenIs, Zenon
<1>5. CASE n = 0
  <2>1. s = <<>> /\ FlattenSeq(s) = <<>>
    BY <1>1, <1>5, FlattenEmpty
  <2>2. g[1] = t[1]
    BY <1>2, <1>3, RunsFirst
  <2>3. n + 1 = 1
    BY <1>5
  <2>4. FlattenSeq(t) = x
    BY <1>1, <1>4, <2>2, <2>3
  <2> QED BY <2>1, <2>4, ConcatEmpty DEF t
<1>6. CASE n # 0
  <2>1. PICK f : Runs(s, n, f)
    BY <1>1, RunsExist, Zenon
  <2>2. FlattenSeq(s) = f[n]
    BY <1>1, <1>6, <2>1, FlattenIs, Zenon
  <2>3. Agree(g, f, n)
    BY <1>1, <1>2, <1>3, <2>1, RunsUnique
  <2>4. Joined(t, g, n)
    BY <1>1, <1>2, <1>3, <1>6, RunsNext
  <2>5. n \in 1..n
    BY <1>1, <1>6
  <2> QED BY <1>1, <1>4, <2>2, <2>3, <2>4, <2>5 DEF t, Agree, Joined
<1> QED BY <1>5, <1>6
\* What holds of the empty sequence and of every extension holds of all.
LEMMA SeqInduction ==
  ASSUME NEW X, NEW P, <<>> \in P,
         \A s \in Seq(X) : \A x \in X : s \in P => Append(s, x) \in P
  PROVE  \A s \in Seq(X) : s \in P
<1> DEFINE Q == {n \in Nat : \A s \in Seq(X) : Len(s) = n => s \in P}
<1>1. 0 \in Q
  OBVIOUS
<1>2. ASSUME NEW n \in Nat, n \in Q PROVE n + 1 \in Q
  <2> SUFFICES ASSUME NEW s \in Seq(X), Len(s) = n + 1 PROVE s \in P
    OBVIOUS
  <2>1. s # <<>> /\ Len(s) - 1 = n
    OBVIOUS
  <2>2. /\ SubSeq(s, 1, Len(s) - 1) \in Seq(X) /\ s[Len(s)] \in X
        /\ Len(SubSeq(s, 1, Len(s) - 1)) = n
        /\ s = Append(SubSeq(s, 1, Len(s) - 1), s[Len(s)])
    BY <2>1, FrontAndLast
  <2>3. SubSeq(s, 1, Len(s) - 1) \in P
    BY <1>2, <2>2
  <2> QED BY <2>2, <2>3
<1> HIDE DEF Q
<1>3. \A n \in Nat : n \in Q
  BY <1>1, <1>2, Induction
<1> QED BY <1>3 DEF Q

LEMMA FlattenType == ASSUME NEW X, NEW s \in Seq(Seq(X)) PROVE FlattenSeq(s) \in Seq(X)
<1> DEFINE P == {t \in Seq(Seq(X)) : FlattenSeq(t) \in Seq(X)}
<1>1. <<>> \in P
  <2>1. <<>> \in Seq(Seq(X)) /\ <<>> \in Seq(X)
    OBVIOUS
  <2> QED BY <2>1, FlattenEmpty, Zenon
<1>2. ASSUME NEW t \in Seq(Seq(X)), NEW x \in Seq(X), t \in P PROVE Append(t, x) \in P
  <2>1. FlattenSeq(t) \in Seq(X)
    BY <1>2
  <2>2. FlattenSeq(t) \o x \in Seq(X)
    BY <2>1
  <2>3. FlattenSeq(Append(t, x)) = FlattenSeq(t) \o x
    BY FlattenAppend
  <2>4. Append(t, x) \in Seq(Seq(X))
    OBVIOUS
  <2> QED BY <2>2, <2>3, <2>4
<1> HIDE DEF P
<1>3. s \in P
  BY <1>1, <1>2, SeqInduction
<1> QED BY <1>3 DEF P

LEMMA FlattenConcat ==
  ASSUME NEW X, NEW s \in Seq(Seq(X)), NEW t \in Seq(Seq(X))
  PROVE  FlattenSeq(s \o t) = FlattenSeq(s) \o FlattenSeq(t)
<1> DEFINE P == {u \in Seq(Seq(X)) : FlattenSeq(s \o u) = FlattenSeq(s) \o FlattenSeq(u)}
<1>1. <<>> \in P
  <2>1. FlattenSeq(s) \in Seq(X)
    BY FlattenType
  <2>2. s \o <<>> = s /\ FlattenSeq(s) \o <<>> = FlattenSeq(s)
    BY <2>1, ConcatEmpty
  <2>3. <<>> \in Seq(Seq(X))
    OBVIOUS
  <2>4. FlattenSeq(s \o <<>>) = FlattenSeq(s) \o FlattenSeq(<<>>)
    BY <2>2, FlattenEmpty, Zenon
  <2> QED BY <2>3, <2>4, Zenon
<1>2. ASSUME NEW u \in Seq(Seq(X)), NEW x \in Seq(X), u \in P PROVE Append(u, x) \in P
  <2>1. s \o Append(u, x) = Append(s \o u, x) /\ s \o u \in Seq(Seq(X)) /\ Append(u, x) \in Seq(Seq(X))
    BY ConcatAppend, ConcatIs
  <2>2. FlattenSeq(Append(s \o u, x)) = FlattenSeq(s \o u) \o x
    BY <2>1, FlattenAppend
  <2>3. FlattenSeq(Append(u, x)) = FlattenSeq(u) \o x
    BY FlattenAppend
  <2>4. FlattenSeq(s \o u) = FlattenSeq(s) \o FlattenSeq(u)
    BY <1>2
  <2>5. FlattenSeq(s) \in Seq(X) /\ FlattenSeq(u) \in Seq(X)
    BY FlattenType
  <2>6. (FlattenSeq(s) \o FlattenSeq(u)) \o x = FlattenSeq(s) \o (FlattenSeq(u) \o x)
    BY <2>5, ConcatAssoc
  <2>7. FlattenSeq(s \o Append(u, x)) = FlattenSeq(s) \o FlattenSeq(Append(u, x))
    BY <2>1, <2>2, <2>3, <2>4, <2>6, Zenon
  <2> QED BY <2>1, <2>7
<1> HIDE DEF P
<1>3. t \in P
  BY <1>1, <1>2, SeqInduction
<1> QED BY <1>3 DEF P

LEMMA FlattenOne == ASSUME NEW X, NEW x \in Seq(X) PROVE FlattenSeq(<<x>>) = x
<1>1. <<>> \in Seq(Seq(X)) /\ <<x>> = Append(<<>>, x)
  OBVIOUS
<1>2. FlattenSeq(Append(<<>>, x)) = FlattenSeq(<<>>) \o x
  BY <1>1, FlattenAppend, Zenon
<1> QED BY <1>1, <1>2, FlattenEmpty, ConcatEmpty

\* What is in the flattened sequence is in one of those it is made of.
InOne(r, s) == \E i \in DOMAIN s : r \in Range(s[i])
LEMMA FlattenRange ==
  ASSUME NEW X, NEW s \in Seq(Seq(X))
  PROVE  \A r : r \in Range(FlattenSeq(s)) <=> InOne(r, s)
<1> DEFINE P == {t \in Seq(Seq(X)) : \A r : r \in Range(FlattenSeq(t)) <=> InOne(r, t)}
<1>1. <<>> \in P
  BY FlattenEmpty DEF InOne, Range
<1>2. ASSUME NEW t \in Seq(Seq(X)), NEW x \in Seq(X), t \in P PROVE Append(t, x) \in P
  <2>1. FlattenSeq(t) \in Seq(X)
    BY FlattenType
  <2>2. Range(FlattenSeq(Append(t, x))) = Range(FlattenSeq(t)) \cup Range(x)
    <3>1. FlattenSeq(Append(t, x)) = FlattenSeq(t) \o x
      BY FlattenAppend
    <3>2. Range(FlattenSeq(t) \o x) = Range(FlattenSeq(t)) \cup Range(x)
      BY <2>1, ConcatRange
    <3> QED BY <3>1, <3>2, Zenon
  <2>3. /\ Append(t, x) \in Seq(Seq(X)) /\ Len(t) \in Nat /\ DOMAIN t = 1..Len(t)
        /\ DOMAIN Append(t, x) = 1..(Len(t) + 1) /\ Append(t, x)[Len(t) + 1] = x
        /\ \A i \in 1..Len(t) : Append(t, x)[i] = t[i]
    OBVIOUS
  <2>4. /\ Len(t) + 1 \in 1..(Len(t) + 1)
        /\ \A i : i \in 1..(Len(t) + 1) <=> i \in 1..Len(t) \/ i = Len(t) + 1
    BY <2>3
  <2>5. ASSUME NEW r PROVE InOne(r, Append(t, x)) <=> InOne(r, t) \/ r \in Range(x)
    BY <2>3, <2>4, Zenon DEF InOne
  <2>6. \A r : r \in Range(FlattenSeq(t)) <=> InOne(r, t)
    BY <1>2
  <2>7. \A r : r \in Range(FlattenSeq(Append(t, x))) <=> InOne(r, Append(t, x))
    BY <2>2, <2>5, <2>6
  <2> QED BY <2>3, <2>7
<1> HIDE DEF P
<1>3. s \in P
  BY <1>1, <1>2, SeqInduction
<1> QED BY <1>3 DEF P
----------------------------------------------------------------------------
(* The evidence that is retained: a fold over the records read.            *)

\* An iteration over the subsets of 1..n, the greatest number last.
Weighs(s, n, f) ==
  f = [S \in SUBSET (1..n) |-> IF S = {} THEN {} ELSE Weigh(f[S \ {Max(S)}], s[Max(S)])]

LEMMA MaxIs == ASSUME NEW n \in Nat, NEW S \in SUBSET (1..n), n \in S PROVE Max(S) = n
<1>1. \A y \in S : n >= y
  OBVIOUS
<1>2. \A x \in S : (\A y \in S : x >= y) => x = n
  OBVIOUS
<1>3. \A y \in S : Max(S) >= y
  BY <1>1, Zenon DEF Max
<1>4. Max(S) \in S
  BY <1>1, Zenon DEF Max
<1> QED BY <1>2, <1>3, <1>4

LEMMA WeighsExtend ==
  ASSUME NEW s, NEW n \in Nat, NEW f, Weighs(s, n, f)
  PROVE  \E g : Weighs(s, n + 1, g)
<1> DEFINE g == [S \in SUBSET (1..(n + 1)) |->
                   IF n + 1 \in S THEN Weigh(f[S \ {n + 1}], s[n + 1]) ELSE f[S]]
<1>1. g = [S \in SUBSET (1..(n + 1)) |-> g[S]]
  BY Zenon
<1>2. \A S \in SUBSET (1..(n + 1)) :
        g[S] = IF n + 1 \in S THEN Weigh(f[S \ {n + 1}], s[n + 1]) ELSE f[S]
  BY Zenon
<1> HIDE DEF g
<1>3. \A S \in SUBSET (1..n) : f[S] = IF S = {} THEN {} ELSE Weigh(f[S \ {Max(S)}], s[Max(S)])
  BY Zenon DEF Weighs
<1>4. ASSUME NEW S \in SUBSET (1..(n + 1))
      PROVE  g[S] = IF S = {} THEN {} ELSE Weigh(g[S \ {Max(S)}], s[Max(S)])
  <2>1. CASE n + 1 \in S
    <3>1. Max(S) = n + 1
      BY <2>1, MaxIs
    <3>2. S \ {n + 1} \in SUBSET (1..(n + 1)) /\ n + 1 \notin S \ {n + 1} /\ S # {}
      BY <2>1
    <3>3. g[S \ {n + 1}] = f[S \ {n + 1}]
      BY <1>2, <3>2, Zenon
    <3>4. g[S] = Weigh(f[S \ {n + 1}], s[n + 1])
      BY <1>2, <2>1, Zenon
    <3> QED BY <3>1, <3>2, <3>3, <3>4, Zenon
  <2>2. CASE n + 1 \notin S
    <3>1. S \in SUBSET (1..n)
      BY <2>2
    <3>2. g[S] = f[S]
      BY <1>2, <2>2, Zenon
    <3>3. S \ {Max(S)} \in SUBSET (1..(n + 1)) /\ n + 1 \notin S \ {Max(S)}
      BY <2>2
    <3>4. g[S \ {Max(S)}] = f[S \ {Max(S)}]
      BY <1>2, <3>3, Zenon
    <3> QED BY <1>3, <3>1, <3>2, <3>4, Zenon
  <2> QED BY <2>1, <2>2
<1>5. g = [S \in SUBSET (1..(n + 1)) |-> IF S = {} THEN {} ELSE Weigh(g[S \ {Max(S)}], s[Max(S)])]
  BY <1>1, <1>4, Zenon
<1>6. Weighs(s, n + 1, g)
  BY <1>5, Zenon DEF Weighs
<1> QED BY <1>6

LEMMA WeighsExist == ASSUME NEW s, NEW n \in Nat PROVE \E f : Weighs(s, n, f)
<1> DEFINE P == {k \in Nat : \E f : Weighs(s, k, f)}
<1>1. 0 \in P
  <2>1. SUBSET (1..0) = {{}}
    OBVIOUS
  <2>2. Weighs(s, 0, [S \in SUBSET (1..0) |-> {}])
    BY <2>1 DEF Weighs
  <2> QED BY <2>2
<1>2. ASSUME NEW k \in Nat, k \in P PROVE k + 1 \in P
  BY <1>2, WeighsExtend
<1> HIDE DEF P
<1>3. n \in P
  BY <1>1, <1>2, Induction
<1> QED BY <1>3 DEF P

\* The fold, by the prefixes of what is read.
WeighedTo(s, n, h) ==
  /\ h[0] = {} /\ \A i \in 1..n : h[i] = Weigh(h[i - 1], s[i])
LEMMA FoldIs ==
  ASSUME NEW X, NEW s \in Seq(X)
  PROVE  \E h : WeighedTo(s, Len(s), h) /\ FoldLeft(Weigh, {}, s) = h[Len(s)]
<1> DEFINE n == Len(s)
           c == CHOOSE g : g = [S \in SUBSET (1..n) |->
                                  IF S = {} THEN {} ELSE Weigh(g[S \ {Max(S)}], s[Max(S)])]
           h == [i \in 0..n |-> c[1..i]]
<1>1. n \in Nat /\ DOMAIN s = 1..n
  OBVIOUS
<1>2. FoldLeft(Weigh, {}, s) = c[1..n]
  BY <1>1, Zenon DEF FoldLeft, MapThenFoldSet
<1> HIDE DEF n
<1>3. \E g : Weighs(s, n, g)
  BY <1>1, WeighsExist
<1>4. c = [S \in SUBSET (1..n) |-> IF S = {} THEN {} ELSE Weigh(c[S \ {Max(S)}], s[Max(S)])]
  BY <1>3, Zenon DEF Weighs
<1> HIDE DEF c
<1>5. \A S \in SUBSET (1..n) : c[S] = IF S = {} THEN {} ELSE Weigh(c[S \ {Max(S)}], s[Max(S)])
  BY <1>4, Zenon
<1>6. \A i \in 0..n : h[i] = c[1..i]
  OBVIOUS
<1> HIDE DEF h
<1>7. h[0] = {}
  <2>1. 0 \in 0..n /\ 1..0 = {} /\ {} \in SUBSET (1..n)
    BY <1>1
  <2> QED BY <1>5, <1>6, <2>1, Zenon
<1>8. ASSUME NEW i \in 1..n PROVE h[i] = Weigh(h[i - 1], s[i])
  <2>1. i \in 0..n /\ i - 1 \in 0..n /\ i \in Nat /\ 1..i \in SUBSET (1..n) /\ 1..i # {}
    BY <1>1
  <2>2. i \in 1..i /\ 1..i \in SUBSET (1..i)
    BY <1>1
  <2>3. Max(1..i) = i
    BY <2>1, <2>2, MaxIs
  <2>4. (1..i) \ {i} = 1..(i - 1)
    BY <2>1
  <2>5. c[1..i] = Weigh(c[(1..i) \ {Max(1..i)}], s[Max(1..i)])
    BY <1>5, <2>1, Zenon
  <2>6. h[i] = c[1..i] /\ h[i - 1] = c[1..(i - 1)]
    BY <1>6, <2>1, Zenon
  <2> QED BY <2>3, <2>4, <2>5, <2>6, Zenon
<1>9. h[n] = c[1..n]
  BY <1>1, <1>6
<1> QED BY <1>2, <1>7, <1>8, <1>9 DEF WeighedTo, n
Cut(r) == [r EXCEPT !.cut = TRUE]
OnePer(K) == \A k, q \in K : k.op = q.op => k = q
\* A record of the operation, and as good as r.
Stands(k, r) == k.op = r.op /\ (Committed(r) => Committed(k))

LEMMA CutIs ==
  ASSUME NEW r \in Record
  PROVE  /\ Cut(r) \in Record /\ Cut(r).op = r.op /\ Cut(r).kind = r.kind /\ Cut(r).of = r.of
         /\ Committed(Cut(r)) <=> Committed(r)
<1>1. Cut(r) \in Record
  BY DEF Cut, Record
<1>2. Cut(r).op = r.op /\ Cut(r).kind = r.kind /\ Cut(r).of = r.of
  BY DEF Cut, Record
<1> QED BY <1>1, <1>2 DEF Committed

\* What reading one record does to the evidence.
LEMMA WeighIs ==
  ASSUME NEW K \in SUBSET Record, NEW r \in Record
  PROVE  /\ \A k \in Weigh(K, r) : k \in K \/ k = Cut(r)
         /\ OnePer(K) => OnePer(Weigh(K, r))
         /\ \A k \in K : k.op # r.op => k \in Weigh(K, r)
         /\ r.op \in Protected =>
              \A q \in K : \E k \in Weigh(K, r) :
                 Stands(k, r) /\ (q.op = r.op => Stands(k, q))
         /\ r.op \in Protected => \E k \in Weigh(K, r) : Stands(k, r)
<1> DEFINE others == {k \in K : k.op # r.op}
           before == K \ others
           W == Weigh(K, r)
<1>1. W = IF r.op \in Protected \/ ~Committed(r)
          THEN IF ~Committed(r) /\ \E k \in before : Committed(k) THEN K ELSE others \cup {Cut(r)}
          ELSE others
  BY Zenon DEF Weigh, Cut
<1>2. Cut(r).op = r.op /\ (Committed(Cut(r)) <=> Committed(r))
  BY CutIs
<1>3. \A k : k \in others <=> k \in K /\ k.op # r.op
  OBVIOUS
<1>4. \A k : k \in before <=> k \in K /\ k.op = r.op
  OBVIOUS
<1> HIDE DEF others, before, W
<1>5. CASE ~Committed(r) /\ \E k \in before : Committed(k)
  <2>1. W = K
    BY <1>1, <1>5, Zenon
  <2>2. PICK k \in K : k.op = r.op /\ Committed(k)
    BY <1>4, <1>5, Zenon
  <2>3. Stands(k, r) /\ \A q \in K : q.op = r.op => Stands(k, q)
    BY <1>5, <2>2 DEF Stands
  <2> QED BY <2>1, <2>2, <2>3, Zenon DEF W
<1>6. CASE ~(~Committed(r) /\ \E k \in before : Committed(k)) /\ (r.op \in Protected \/ ~Committed(r))
  <2>1. W = others \cup {Cut(r)}
    BY <1>1, <1>6, Zenon
  <2>2. Cut(r) \in W /\ Stands(Cut(r), r)
    BY <1>2, <2>1 DEF Stands
  <2>3. ASSUME NEW q \in K, q.op = r.op PROVE Stands(Cut(r), q)
    <3>1. q \in before
      BY <1>4, <2>3
    <3>2. Committed(q) => Committed(r)
      BY <1>6, <3>1
    <3> QED BY <1>2, <2>3, <3>2 DEF Stands
  <2>4. \A k \in W : k \in K \/ k = Cut(r)
    BY <1>3, <2>1
  <2>5. OnePer(K) => OnePer(W)
    BY <1>2, <1>3, <2>1, Zenon DEF OnePer
  <2>6. \A k \in K : k.op # r.op => k \in W
    BY <1>3, <2>1
  <2> QED BY <2>2, <2>3, <2>4, <2>5, <2>6, Zenon DEF W
<1>7. CASE ~(r.op \in Protected \/ ~Committed(r))
  <2>1. W = others /\ r.op \notin Protected
    BY <1>1, <1>7, Zenon
  <2> QED BY <1>3, <2>1, Zenon DEF W, OnePer
<1> QED BY <1>5, <1>6, <1>7, Zenon

\* The evidence that the fold keeps: one record of an operation, each of one that
\* was read, and for an operation that is protected one as good as each that was read.
LEMMA FoldKeeps ==
  ASSUME NEW s \in Seq(Record)
  PROVE  /\ \A k \in FoldLeft(Weigh, {}, s) : \E r \in Range(s) : k = Cut(r)
         /\ OnePer(FoldLeft(Weigh, {}, s))
         /\ \A r \in Range(s) :
              r.op \in Protected => \E k \in FoldLeft(Weigh, {}, s) : Stands(k, r)
<1> DEFINE n == Len(s)
<1>1. n \in Nat /\ DOMAIN s = 1..n /\ \A i \in 1..n : s[i] \in Record
  OBVIOUS
<1>2. PICK h : WeighedTo(s, n, h) /\ FoldLeft(Weigh, {}, s) = h[n]
  BY FoldIs
<1> DEFINE Made(i) == \A k \in h[i] : k \in Record /\ \E j \in 1..i : k = Cut(s[j])
           Stood(i) == \A j \in 1..i : s[j].op \in Protected => \E k \in h[i] : Stands(k, s[j])
           P == {i \in Nat : i <= n => Made(i) /\ OnePer(h[i]) /\ Stood(i)}
<1>3. h[0] = {} /\ \A i \in 1..n : h[i] = Weigh(h[i - 1], s[i])
  BY <1>2 DEF WeighedTo
<1> HIDE DEF n
<1>4. 0 \in P
  <2>1. Made(0) /\ OnePer(h[0])
    BY <1>3, Zenon DEF OnePer
  <2>2. Stood(0)
    OBVIOUS
  <2> QED BY <2>1, <2>2
<1>5. ASSUME NEW i \in Nat, i \in P PROVE i + 1 \in P
  <2> SUFFICES ASSUME i + 1 <= n PROVE Made(i + 1) /\ OnePer(h[i + 1]) /\ Stood(i + 1)
    OBVIOUS
  <2>1. i + 1 \in 1..n /\ (i + 1) - 1 = i /\ i <= n
    BY <1>1
  <2>2. Made(i) /\ OnePer(h[i]) /\ Stood(i)
    BY <1>5, <2>1
  <2>3. h[i + 1] = Weigh(h[i], s[i + 1])
    BY <1>3, <2>1
  <2>4. h[i] \in SUBSET Record /\ s[i + 1] \in Record
    BY <1>1, <2>1, <2>2
  <2> DEFINE K == h[i]
             r == s[i + 1]
             W == Weigh(K, r)
  <2>5. /\ \A k \in W : k \in K \/ k = Cut(r)
        /\ OnePer(K) => OnePer(W)
        /\ \A k \in K : k.op # r.op => k \in W
        /\ r.op \in Protected =>
             \A q \in K : \E k \in W : Stands(k, r) /\ (q.op = r.op => Stands(k, q))
        /\ r.op \in Protected => \E k \in W : Stands(k, r)
    <3> HIDE DEF K, r
    <3>1. K \in SUBSET Record /\ r \in Record
      BY <2>4 DEF K, r
    <3> QED BY <3>1, WeighIs DEF W
  <2>6. Cut(r) \in Record
    BY <2>4, CutIs
  <2>7. i + 1 \in 1..(i + 1) /\ \A j \in 1..i : j \in 1..(i + 1)
    OBVIOUS
  <2>8. \A j \in 1..(i + 1) : j \in 1..i \/ j = i + 1
    OBVIOUS
  <2> HIDE DEF W
  <2>9. Made(i + 1)
    <3> SUFFICES ASSUME NEW k \in W PROVE k \in Record /\ \E j \in 1..(i + 1) : k = Cut(s[j])
      BY <2>3 DEF W
    <3>1. CASE k \in K
      BY <2>2, <2>7, <3>1, Zenon
    <3>2. CASE k = Cut(r)
      BY <2>6, <2>7, <3>2, Zenon
    <3> QED BY <2>5, <3>1, <3>2
  <2>10. OnePer(h[i + 1])
    BY <2>2, <2>3, <2>5 DEF W
  <2>11. Stood(i + 1)
    <3> SUFFICES ASSUME NEW j \in 1..(i + 1), s[j].op \in Protected
                 PROVE \E k \in W : Stands(k, s[j])
      BY <2>3 DEF W
    <3>1. CASE j = i + 1
      BY <2>5, <3>1
    <3>2. CASE j \in 1..i
      <4>1. PICK q \in K : Stands(q, s[j])
        BY <2>2, <3>2
      <4>2. CASE q.op # r.op
        BY <2>5, <4>1, <4>2
      <4>3. CASE q.op = r.op
        <5>1. r.op \in Protected
          BY <4>1, <4>3 DEF Stands
        <5>2. PICK k \in W : Stands(k, q)
          BY <2>5, <4>3, <5>1
        <5> QED BY <4>1, <5>2 DEF Stands
      <4> QED BY <4>2, <4>3
    <3> QED BY <2>8, <3>1, <3>2
  <2> QED BY <2>9, <2>10, <2>11
<1> HIDE DEF P
<1>6. n \in P
  BY <1>1, <1>4, <1>5, Induction
<1>7. Made(n) /\ OnePer(h[n]) /\ Stood(n)
  BY <1>1, <1>6 DEF P
<1>8. ASSUME NEW k \in h[n] PROVE \E r \in Range(s) : k = Cut(r)
  BY <1>1, <1>7 DEF Range
<1>9. ASSUME NEW r \in Range(s), r.op \in Protected PROVE \E k \in h[n] : Stands(k, r)
  <2>1. PICK j \in 1..n : r = s[j]
    BY <1>1 DEF Range
  <2> QED BY <1>7, <1>9, <2>1
<1> QED BY <1>2, <1>7, <1>8, <1>9
----------------------------------------------------------------------------
(* The recovery file, by operation.                                        *)

Sorted(s, n) == \A i, j \in 1..n : i < j => s[i].op < s[j].op
Sortable(T) ==
  /\ IsFiniteSet(T) /\ Cardinality(T) \in Nat
  /\ \E s \in [1..Cardinality(T) -> T] : Sorted(s, Cardinality(T))

LEMMA SortableExtend ==
  ASSUME NEW T \in SUBSET Record, Sortable(T), NEW x \in Record, \A r \in T : r.op < x.op
  PROVE  Sortable(T \cup {x})
<1> DEFINE c == Cardinality(T)
           U == T \cup {x}
<1>1. PICK s \in [1..c -> T] : Sorted(s, c)
  BY DEF Sortable
<1>2. x \notin T
  <2>1. SUFFICES ASSUME x \in T PROVE FALSE
    OBVIOUS
  <2>2. x.op < x.op /\ x.op \in Nat
    BY <2>1 DEF Record, ops
  <2> QED BY <2>2
<1>3. IsFiniteSet(U) /\ Cardinality(U) = c + 1 /\ c \in Nat
  BY <1>2, FS_AddElement DEF Sortable
<1> DEFINE t == [i \in 1..(c + 1) |-> IF i = c + 1 THEN x ELSE s[i]]
<1>4. \A i \in 1..(c + 1) : t[i] = IF i = c + 1 THEN x ELSE s[i]
  OBVIOUS
<1>5. t \in [1..(c + 1) -> U]
  BY <1>1, <1>3
<1> HIDE DEF t
<1>6. Sorted(t, c + 1)
  <2> SUFFICES ASSUME NEW i \in 1..(c + 1), NEW j \in 1..(c + 1), i < j PROVE t[i].op < t[j].op
    BY DEF Sorted
  <2>1. i \in 1..c /\ i # c + 1
    BY <1>3
  <2>2. t[i] = s[i] /\ s[i] \in T
    BY <1>1, <1>4, <2>1
  <2>3. CASE j = c + 1
    BY <1>4, <2>2, <2>3
  <2>4. CASE j # c + 1
    <3>1. j \in 1..c
      BY <1>3, <2>4
    <3> QED BY <1>1, <1>4, <2>1, <2>2, <2>4, <3>1 DEF Sorted
  <2> QED BY <2>3, <2>4
<1>7. IsFiniteSet(U) /\ Cardinality(U) \in Nat
  BY <1>3
<1>8. \E z \in [1..Cardinality(U) -> U] : Sorted(z, Cardinality(U))
  BY <1>3, <1>5, <1>6, Zenon
<1> QED BY <1>7, <1>8, Zenon DEF Sortable

LEMMA AllSortable ==
  ASSUME NEW S \in SUBSET Record, OnePer(S)
  PROVE  Sortable(S)
<1>1. MaxOps \in Nat /\ \A r \in S : r.op \in Nat /\ r.op <= MaxOps
  BY CapsAssumption DEF Record, ops
<1> DEFINE P == {m \in Nat : \A T \in SUBSET S : (\A r \in T : r.op <= m) => Sortable(T)}
<1>2. 0 \in P
  <2> SUFFICES ASSUME NEW T \in SUBSET S, \A r \in T : r.op <= 0 PROVE Sortable(T)
    OBVIOUS
  <2>1. \A r \in S : r.op # 0
    BY DEF Record, ops
  <2>2. T = {}
    BY <1>1, <2>1
  <2>3. 1..0 = {} /\ [i \in {} |-> i] \in [{} -> {}] /\ 0 \in Nat
    OBVIOUS
  <2>4. Sorted([i \in {} |-> i], 0)
    BY <2>3 DEF Sorted
  <2>5. IsFiniteSet(T) /\ Cardinality(T) = 0
    BY <2>2, FS_EmptySet
  <2>6. \E s \in [1..Cardinality(T) -> T] : Sorted(s, Cardinality(T))
    BY <2>2, <2>3, <2>4, <2>5, Zenon
  <2> QED BY <2>3, <2>5, <2>6 DEF Sortable
<1>3. ASSUME NEW m \in Nat, m \in P PROVE m + 1 \in P
  <2> SUFFICES ASSUME NEW T \in SUBSET S, \A r \in T : r.op <= m + 1 PROVE Sortable(T)
    OBVIOUS
  <2>1. CASE \A r \in T : r.op # m + 1
    <3>1. \A r \in T : r.op <= m
      BY <1>1, <2>1
    <3> QED BY <1>3, <3>1
  <2>2. CASE \E r \in T : r.op = m + 1
    <3>1. PICK x \in T : x.op = m + 1
      BY <2>2
    <3> DEFINE R == T \ {x}
    <3>2. R \in SUBSET S /\ R \in SUBSET Record /\ T = R \cup {x} /\ x \in Record
      BY <3>1
    <3>3. \A r \in R : r.op <= m /\ r.op < x.op
      <4> SUFFICES ASSUME NEW r \in R PROVE r.op <= m /\ r.op < x.op
        OBVIOUS
      <4>1. r.op # x.op
        BY <3>1, <3>2 DEF OnePer
      <4> QED BY <1>1, <3>1, <4>1
    <3>4. Sortable(R)
      BY <1>3, <3>2, <3>3
    <3> HIDE DEF R
    <3> QED BY <3>2, <3>3, <3>4, SortableExtend
  <2> QED BY <2>1, <2>2
<1> HIDE DEF P
<1>4. MaxOps \in P
  BY <1>1, <1>2, <1>3, Induction
<1> QED BY <1>1, <1>4 DEF P

LEMMA InOrderIs ==
  ASSUME NEW S \in SUBSET Record, OnePer(S)
  PROVE  InOrder(S) \in Seq(Record) /\ Range(InOrder(S)) = S
<1> DEFINE n == Cardinality(S)
           s == InOrder(S)
<1>1. IsFiniteSet(S) /\ n \in Nat /\ \E t \in [1..n -> S] : Sorted(t, n)
  BY AllSortable DEF Sortable
<1>2. \E t \in [1..n -> S] : \A i, j \in DOMAIN t : i < j => t[i].op < t[j].op
  BY <1>1 DEF Sorted
<1>3. s = CHOOSE t \in [1..n -> S] : \A i, j \in DOMAIN t : i < j => t[i].op < t[j].op
  BY Zenon DEF InOrder
<1> HIDE DEF s, n
<1>4. s \in [1..n -> S] /\ \A i, j \in DOMAIN s : i < j => s[i].op < s[j].op
  BY <1>2, <1>3, Zenon
<1>5. \A i \in 1..n : s[i] \in S /\ s[i].op \in Nat
  BY <1>4 DEF Record, ops
<1>6. s \in Injection(1..n, S)
  <2>1. ASSUME NEW i \in 1..n, NEW j \in 1..n, s[i] = s[j] PROVE i = j
    <3>1. ~(i < j) /\ ~(j < i)
      BY <1>4, <1>5, <2>1
    <3> QED BY <1>1, <3>1
  <2> QED BY <1>4, <2>1 DEF Injection, IsInjective
<1>7. IsFiniteSet(1..n) /\ Cardinality(1..n) = n
  BY <1>1, FS_Interval
<1>8. s \in Surjection(1..n, S)
  BY <1>1, <1>6, <1>7, FS_Injection DEF n
<1>9. Range(s) = S
  BY <1>4, <1>8 DEF Range, Surjection
<1>10. s \in Seq(Record)
  BY <1>1, <1>4
<1> QED BY <1>9, <1>10 DEF s
----------------------------------------------------------------------------
(* The journal as a function of the archive and the log.                   *)

Segment == [recs: Seq(Record), raw: BOOLEAN, gz: BOOLEAN, known: Known, bad: BOOLEAN]
LogFile == [there: BOOLEAN, known: Known, recs: Seq(Record),
            tail: {"clean", "unended", "torn", "bad"}]
Recs(S) == [i \in DOMAIN S |-> S[i].recs]
LiveOf(l) == IF l.there THEN <<l.recs>> ELSE <<>>
JournalOf(S, l) == FlattenSeq(Recs(S) \o LiveOf(l))
Tailed(l) == IF l.there THEN l.recs ELSE <<>>

LEMMA SegmentIs ==
  ASSUME NEW s \in Segment
  PROVE  /\ s.recs \in Seq(Record) /\ s.raw \in BOOLEAN /\ s.gz \in BOOLEAN
         /\ s.known \in Known /\ s.bad \in BOOLEAN
BY DEF Segment

LEMMA LogIs ==
  ASSUME NEW l \in LogFile
  PROVE  /\ l.there \in BOOLEAN /\ l.known \in Known /\ l.recs \in Seq(Record)
         /\ l.tail \in {"clean", "unended", "torn", "bad"}
         /\ Tailed(l) \in Seq(Record)
<1>1. /\ l.there \in BOOLEAN /\ l.known \in Known /\ l.recs \in Seq(Record)
      /\ l.tail \in {"clean", "unended", "torn", "bad"}
  BY DEF LogFile
<1>2. <<>> \in Seq(Record)
  OBVIOUS
<1> QED BY <1>1, <1>2 DEF Tailed

LEMMA RecsIs ==
  ASSUME NEW S \in Seq(Segment)
  PROVE  /\ Recs(S) \in Seq(Seq(Record)) /\ Len(Recs(S)) = Len(S)
         /\ \A i \in 1..Len(S) : Recs(S)[i] = S[i].recs
<1>1. Len(S) \in Nat /\ DOMAIN S = 1..Len(S) /\ \A i \in 1..Len(S) : S[i].recs \in Seq(Record)
  BY SegmentIs
<1> QED BY <1>1 DEF Recs

LEMMA LiveIs ==
  ASSUME NEW l \in LogFile
  PROVE  LiveOf(l) \in Seq(Seq(Record)) /\ FlattenSeq(LiveOf(l)) = Tailed(l)
<1>1. l.recs \in Seq(Record)
  BY LogIs
<1>2. CASE l.there
  <2>1. LiveOf(l) = <<l.recs>> /\ <<l.recs>> \in Seq(Seq(Record)) /\ Tailed(l) = l.recs
    BY <1>1, <1>2 DEF LiveOf, Tailed
  <2> QED BY <1>1, <2>1, FlattenOne
<1>3. CASE ~l.there
  <2>1. LiveOf(l) = <<>> /\ <<>> \in Seq(Seq(Record)) /\ Tailed(l) = <<>>
    BY <1>3 DEF LiveOf, Tailed
  <2> QED BY <2>1, FlattenEmpty, Zenon
<1> QED BY <1>2, <1>3

LEMMA JournalIs ==
  ASSUME NEW S \in Seq(Segment), NEW l \in LogFile
  PROVE  /\ FlattenSeq(Recs(S)) \in Seq(Record)
         /\ JournalOf(S, l) = FlattenSeq(Recs(S)) \o Tailed(l)
         /\ JournalOf(S, l) \in Seq(Record)
<1>1. Recs(S) \in Seq(Seq(Record)) /\ LiveOf(l) \in Seq(Seq(Record))
  BY RecsIs, LiveIs
<1>2. FlattenSeq(Recs(S) \o LiveOf(l)) = FlattenSeq(Recs(S)) \o FlattenSeq(LiveOf(l))
  BY <1>1, FlattenConcat
<1>3. FlattenSeq(Recs(S)) \in Seq(Record) /\ Tailed(l) \in Seq(Record)
  BY <1>1, FlattenType, LogIs
<1>4. JournalOf(S, l) = FlattenSeq(Recs(S)) \o Tailed(l)
  BY <1>2, LiveIs DEF JournalOf
<1> QED BY <1>3, <1>4

\* The two ways in which a segment changes its form and not its records.
Zipped(s) == [s EXCEPT !.gz = TRUE]
Bared(s) == [s EXCEPT !.raw = FALSE, !.known = Unknown]

LEMMA FormIs ==
  ASSUME NEW s \in Segment
  PROVE  /\ Zipped(s) \in Segment /\ Zipped(s).recs = s.recs
         /\ Bared(s) \in Segment /\ Bared(s).recs = s.recs
<1>1. Unknown \in Known
  BY DEF Unknown, Known
<1> QED BY <1>1 DEF Segment, Zipped, Bared

LEMMA SegmentChanged ==
  ASSUME NEW S \in Seq(Segment), NEW k, NEW T,
         \/ T = [S EXCEPT ![k].gz = TRUE]
         \/ T = [S EXCEPT ![k].raw = FALSE, ![k].known = Unknown]
  PROVE  T \in Seq(Segment) /\ Len(T) = Len(S) /\ Recs(T) = Recs(S)
<1>1. Len(S) \in Nat /\ DOMAIN S = 1..Len(S) /\ \A i \in 1..Len(S) : S[i] \in Segment
  OBVIOUS
<1>2. /\ DOMAIN T = DOMAIN S /\ T = [i \in DOMAIN S |-> T[i]]
      /\ \A i \in DOMAIN S : T[i] = S[i] \/ T[i] = Zipped(S[i]) \/ T[i] = Bared(S[i])
  <2>1. CASE T = [S EXCEPT ![k].gz = TRUE]
    BY <2>1, Zenon DEF Zipped
  <2>2. CASE T = [S EXCEPT ![k].raw = FALSE, ![k].known = Unknown]
    BY <2>2 DEF Bared
  <2> QED BY <2>1, <2>2
<1>3. \A i \in 1..Len(S) : T[i] \in Segment /\ T[i].recs = S[i].recs
  BY <1>1, <1>2, FormIs, Zenon
<1>4. T \in Seq(Segment) /\ Len(T) = Len(S)
  <2>1. T \in [1..Len(S) -> Segment]
    BY <1>1, <1>2, <1>3, Zenon
  <2> QED BY <1>1, <2>1
<1>5. Recs(T) = Recs(S)
  BY <1>1, <1>2, <1>3, Zenon DEF Recs
<1> QED BY <1>4, <1>5
LEMMA SegmentAppended ==
  ASSUME NEW S \in Seq(Segment), NEW x \in Segment
  PROVE  /\ Append(S, x) \in Seq(Segment) /\ Len(Append(S, x)) = Len(S) + 1
         /\ Recs(Append(S, x)) = Append(Recs(S), x.recs)
         /\ FlattenSeq(Recs(Append(S, x))) = FlattenSeq(Recs(S)) \o x.recs
<1>1. /\ Append(S, x) \in Seq(Segment) /\ Len(Append(S, x)) = Len(S) + 1 /\ Len(S) \in Nat
      /\ Append(S, x)[Len(S) + 1] = x /\ \A i \in 1..Len(S) : Append(S, x)[i] = S[i]
  BY AppendIs
<1>2. x.recs \in Seq(Record)
  BY SegmentIs
<1>3. /\ Recs(S) \in Seq(Seq(Record)) /\ Len(Recs(S)) = Len(S)
      /\ \A i \in 1..Len(S) : Recs(S)[i] = S[i].recs
  BY RecsIs
<1>4. /\ Recs(Append(S, x)) \in Seq(Seq(Record)) /\ Len(Recs(Append(S, x))) = Len(S) + 1
      /\ \A i \in 1..(Len(S) + 1) : Recs(Append(S, x))[i] = Append(S, x)[i].recs
  BY <1>1, RecsIs
<1>5. /\ Append(Recs(S), x.recs) \in Seq(Seq(Record)) /\ Len(Append(Recs(S), x.recs)) = Len(S) + 1
      /\ Append(Recs(S), x.recs)[Len(S) + 1] = x.recs
      /\ \A i \in 1..Len(S) : Append(Recs(S), x.recs)[i] = Recs(S)[i]
  BY <1>2, <1>3, AppendIs
<1>6. ASSUME NEW i \in 1..(Len(S) + 1) PROVE Recs(Append(S, x))[i] = Append(Recs(S), x.recs)[i]
  <2>1. CASE i = Len(S) + 1
    BY <1>1, <1>4, <1>5, <2>1, Zenon
  <2>2. CASE i # Len(S) + 1
    <3>1. i \in 1..Len(S)
      BY <1>1, <2>2
    <3> QED BY <1>1, <1>3, <1>4, <1>5, <3>1, Zenon
  <2> QED BY <2>1, <2>2
<1>7. Recs(Append(S, x)) = Append(Recs(S), x.recs)
  BY <1>4, <1>5, <1>6
<1> QED BY <1>1, <1>2, <1>3, <1>7, FlattenAppend

\* A record written through a descriptor that outlived the rotation.
LEMMA NewestGrown ==
  ASSUME NEW S \in Seq(Segment), S # <<>>, NEW r \in Record, NEW T,
         T = [S EXCEPT ![Len(S)].recs = Append(@, r)]
  PROVE  /\ T \in Seq(Segment) /\ Len(T) = Len(S)
         /\ Recs(T) = [Recs(S) EXCEPT ![Len(S)] = Append(@, r)]
         /\ FlattenSeq(Recs(T)) = Append(FlattenSeq(Recs(S)), r)
<1> DEFINE n == Len(S)
           a == S[n].recs
           F == SubSeq(Recs(S), 1, n - 1)
<1>1. /\ n \in Nat /\ n # 0 /\ DOMAIN S = 1..n /\ n \in 1..n /\ a \in Seq(Record)
      /\ \A i \in 1..n : S[i] \in Segment
  BY SegmentIs
<1>2. Append(a, r) \in Seq(Record)
  BY <1>1, AppendIs
<1>3. /\ Recs(S) \in Seq(Seq(Record)) /\ Len(Recs(S)) = n /\ Recs(S)[n] = a
      /\ \A i \in 1..n : Recs(S)[i] = S[i].recs
  BY <1>1, RecsIs
<1>4. /\ DOMAIN T = 1..n /\ T = [i \in 1..n |-> T[i]]
      /\ T[n] = [S[n] EXCEPT !.recs = Append(a, r)]
      /\ \A i \in 1..n : i # n => T[i] = S[i]
  BY <1>1
<1>5. T[n] \in Segment /\ T[n].recs = Append(a, r)
  BY <1>1, <1>2, <1>4 DEF Segment
<1>6. \A i \in 1..n : T[i] \in Segment
  BY <1>1, <1>4, <1>5, Zenon
<1>7. T \in Seq(Segment) /\ Len(T) = n
  <2>1. T \in [1..n -> Segment]
    BY <1>4, <1>6, Zenon
  <2> QED BY <1>1, <2>1
<1>8. /\ Recs(T) \in Seq(Seq(Record)) /\ Len(Recs(T)) = n /\ Recs(T)[n] = Append(a, r)
      /\ \A i \in 1..n : Recs(T)[i] = T[i].recs
  BY <1>1, <1>5, <1>7, RecsIs
<1>9. \A i \in 1..n : i # n => Recs(T)[i] = Recs(S)[i]
  BY <1>3, <1>4, <1>8, Zenon
<1> HIDE DEF n, a
<1>10. Recs(S) # <<>> /\ Recs(T) # <<>>
  BY <1>1, <1>3, <1>8
<1>11. /\ F \in Seq(Seq(Record)) /\ Recs(S) = Append(F, a)
  BY <1>3, <1>10, FrontAndLast
<1>12. Recs(T) = Append(SubSeq(Recs(T), 1, n - 1), Append(a, r))
  <2>1. Recs(T) = Append(SubSeq(Recs(T), 1, Len(Recs(T)) - 1), Recs(T)[Len(Recs(T))])
    BY <1>8, <1>10, FrontAndLast
  <2> QED BY <1>8, <2>1, Zenon
<1>13. SubSeq(Recs(T), 1, n - 1) = F
  <2>1. n - 1 \in Nat /\ n - 1 <= n /\ \A i \in 1..(n - 1) : i \in 1..n /\ i # n
    BY <1>1
  <2>2. Agree(Recs(T), Recs(S), n - 1)
    BY <1>9, <2>1, Zenon DEF Agree
  <2> QED BY <1>3, <1>8, <2>1, <2>2, FrontsAgree
<1>14. FlattenSeq(Recs(S)) = FlattenSeq(F) \o a
  BY <1>1, <1>11, FlattenAppend
<1>15. FlattenSeq(Recs(T)) = FlattenSeq(F) \o Append(a, r)
  BY <1>2, <1>11, <1>12, <1>13, FlattenAppend
<1>16. FlattenSeq(F) \in Seq(Record)
  BY <1>11, FlattenType
<1>17. FlattenSeq(F) \o Append(a, r) = Append(FlattenSeq(F) \o a, r)
  BY <1>1, <1>16, ConcatAppend
<1>18. Recs(T) = [Recs(S) EXCEPT ![n] = Append(@, r)]
  <2>1. DOMAIN Recs(S) = 1..n /\ DOMAIN Recs(T) = 1..n
    BY <1>3, <1>8
  <2>2. \A i \in 1..n : Recs(T)[i] = IF i = n THEN Append(Recs(S)[n], r) ELSE Recs(S)[i]
    BY <1>3, <1>8, <1>9, Zenon
  <2>3. Recs(T) = [i \in 1..n |-> Recs(T)[i]]
    <3>1. Recs(T) = [i \in 1..n |-> T[i].recs]
      BY <1>4, Zenon DEF Recs
    <3> QED BY <1>8, <3>1, Zenon
  <2> QED BY <2>1, <2>2, <2>3, Zenon
<1> QED BY <1>7, <1>14, <1>15, <1>17, <1>18 DEF n

LEMMA OldestDropped ==
  ASSUME NEW S \in Seq(Segment), S # <<>>
  PROVE  /\ Tail(S) \in Seq(Segment) /\ Len(Tail(S)) = Len(S) - 1 /\ S[1].recs \in Seq(Record)
         /\ \A i \in 1..(Len(S) - 1) : Recs(Tail(S))[i] = Recs(S)[i + 1]
         /\ FlattenSeq(Recs(S)) = S[1].recs \o FlattenSeq(Recs(Tail(S)))
<1> DEFINE a == S[1].recs
           R == Recs(Tail(S))
<1>1. /\ Len(S) \in Nat /\ Len(S) # 0 /\ Tail(S) \in Seq(Segment) /\ Len(Tail(S)) = Len(S) - 1
      /\ \A i \in 1..(Len(S) - 1) : Tail(S)[i] = S[i + 1]
  OBVIOUS
<1>2. a \in Seq(Record)
  BY <1>1, SegmentIs
<1>3. /\ Recs(S) \in Seq(Seq(Record)) /\ Len(Recs(S)) = Len(S)
      /\ \A i \in 1..Len(S) : Recs(S)[i] = S[i].recs
  BY RecsIs
<1>4. /\ R \in Seq(Seq(Record)) /\ Len(R) = Len(S) - 1
      /\ \A i \in 1..(Len(S) - 1) : R[i] = Tail(S)[i].recs
  BY <1>1, RecsIs
<1> HIDE DEF R
<1>5. \A i \in 1..(Len(S) - 1) : R[i] = Recs(S)[i + 1]
  BY <1>1, <1>3, <1>4
<1>6. Recs(S)[1] = a
  BY <1>1, <1>3
<1> HIDE DEF a
<1>7. Recs(S) = <<a>> \o R
  BY <1>1, <1>2, <1>3, <1>4, <1>5, <1>6
<1>8. <<a>> \in Seq(Seq(Record))
  BY <1>2
<1>9. FlattenSeq(Recs(S)) = FlattenSeq(<<a>>) \o FlattenSeq(R)
  BY <1>4, <1>7, <1>8, FlattenConcat
<1>10. FlattenSeq(<<a>>) = a
  BY <1>2, FlattenOne
<1> QED BY <1>1, <1>2, <1>5, <1>9, <1>10 DEF a, R

----------------------------------------------------------------------------
(* The numbers of the records.                                             *)

EndsAt(J, c) == \A i \in DOMAIN J : J[i].n + Len(J) = c + i

LEMMA EndsGrown ==
  ASSUME NEW J \in Seq(Record), NEW c \in Nat, EndsAt(J, c), NEW r \in Record, r.n = c + 1
  PROVE  EndsAt(Append(J, r), c + 1)
<1>1. /\ Append(J, r) \in Seq(Record) /\ Len(Append(J, r)) = Len(J) + 1 /\ Len(J) \in Nat
      /\ Append(J, r)[Len(J) + 1] = r /\ \A i \in 1..Len(J) : Append(J, r)[i] = J[i]
      /\ DOMAIN J = 1..Len(J) /\ DOMAIN Append(J, r) = 1..(Len(J) + 1)
  BY AppendIs
<1> SUFFICES ASSUME NEW i \in 1..(Len(J) + 1)
             PROVE Append(J, r)[i].n + (Len(J) + 1) = (c + 1) + i
  BY <1>1 DEF EndsAt
<1>2. CASE i = Len(J) + 1
  BY <1>1, <1>2
<1>3. CASE i # Len(J) + 1
  <2>1. i \in 1..Len(J)
    BY <1>1, <1>3
  <2>2. J[i].n + Len(J) = c + i /\ J[i] \in Record
    BY <1>1, <2>1 DEF EndsAt
  <2>3. J[i].n \in Nat
    BY <2>2, CapsAssumption DEF Record
  <2> QED BY <1>1, <2>1, <2>2, <2>3
<1> QED BY <1>2, <1>3

LEMMA EndsCut ==
  ASSUME NEW A \in Seq(Record), NEW B \in Seq(Record), NEW c \in Nat, EndsAt(A \o B, c)
  PROVE  EndsAt(B, c)
<1>1. /\ Len(A \o B) = Len(A) + Len(B) /\ Len(A) \in Nat /\ Len(B) \in Nat
      /\ DOMAIN B = 1..Len(B) /\ DOMAIN (A \o B) = 1..(Len(A) + Len(B))
      /\ \A i \in 1..Len(B) : (A \o B)[Len(A) + i] = B[i]
  BY ConcatIs
<1> SUFFICES ASSUME NEW i \in 1..Len(B) PROVE B[i].n + Len(B) = c + i
  BY <1>1 DEF EndsAt
<1>2. Len(A) + i \in 1..(Len(A) + Len(B))
  BY <1>1
<1>3. (A \o B)[Len(A) + i].n + Len(A \o B) = c + (Len(A) + i)
  BY <1>1, <1>2 DEF EndsAt
<1>4. B[i].n + (Len(A) + Len(B)) = c + (Len(A) + i)
  BY <1>1, <1>3
<1>5. B[i] \in Record
  BY <1>1
<1>6. B[i].n \in Nat
  BY <1>5, CapsAssumption DEF Record
<1> DEFINE x == B[i].n
           a == Len(A)
           b == Len(B)
<1>7. x + (a + b) = c + (a + i) /\ x \in Nat /\ a \in Nat /\ b \in Nat /\ i \in Nat
  BY <1>1, <1>4, <1>6
<1> HIDE DEF x, a, b
<1>8. x + b = c + i
  BY <1>7
<1> QED BY <1>8 DEF x, b
----------------------------------------------------------------------------
(* The inductive invariant.                                                *)

Held(rc) == IF rc.there THEN rc.recs ELSE {}
\* r is in a segment after the k-th, in the log or in the recovery file.
SeenIn(R, t, h, r, k) ==
  (\E i \in 1..Len(R) : i > k /\ r \in Range(R[i])) \/ r \in Range(t) \/ r \in h
Seen(r, k) == SeenIn(Recs(segs), Tailed(log), Held(recov), r, k)

\* Where the files are while the worker is between two changes of them.
Shape ==
  /\ handle = "log" => log.there
  /\ handle = "moved" => ~log.there /\ segs # <<>>
  /\ pc = "full" => log.there
  /\ pc \in {"moved", "twin", "reopen"} => ~log.there
  /\ pc \in {"select", "remove"} => handle = "none"
  /\ todo > 0 => pc = "remove"

\* What is known of a record that can be read: an operation restores one other or
\* none, and has success records of one kind only.
Proper(r) ==
  /\ r.op <= opened /\ Journalled(r)
  /\ r.kind = "renamed" => r.of = 0
  /\ r.kind = "reverted" => r.of # 0
  /\ r.op = cur.n => r.of = cur.of
Uniform ==
  /\ cur.n <= opened /\ cur.wrote \subseteq {"renamed", "reverted", "required"}
  /\ \A r \in Record : Seen(r, 0) => Proper(r)
  /\ \A r, q \in Record : Seen(r, 0) /\ Seen(q, 0) /\ r.op = q.op => r.of = q.of

\* The evidence is outside what is about to be removed.
Evident ==
  /\ \A o \in wanted : \E r \in Record : Seen(r, todo) /\ r.op = o /\ r.kind = "renamed"
  /\ \A kind \in cur.wrote :
       \E r \in Record : Seen(r, todo) /\ r.op = cur.n /\ (Committed(r) \/ r.kind = kind)

Ended == EndsAt(JournalOf(segs, log), count)
Inv == JournalTypeOK /\ OnePer(recov.recs) /\ Shape /\ Ended /\ Uniform /\ Evident

----------------------------------------------------------------------------
(* What can be seen, and how a step changes it.                            *)

LEMMA RangeAppend ==
  ASSUME NEW X, NEW s \in Seq(X), NEW x \in X
  PROVE  Range(Append(s, x)) = Range(s) \cup {x}
<1>1. /\ Len(s) \in Nat /\ DOMAIN s = 1..Len(s) /\ DOMAIN Append(s, x) = 1..(Len(s) + 1)
      /\ Append(s, x)[Len(s) + 1] = x /\ \A i \in 1..Len(s) : Append(s, x)[i] = s[i]
  OBVIOUS
<1>2. \A i : i \in 1..(Len(s) + 1) <=> i \in 1..Len(s) \/ i = Len(s) + 1
  BY <1>1
<1>3. ASSUME NEW y PROVE y \in Range(Append(s, x)) <=> y \in Range(s) \/ y = x
  BY <1>1, <1>2, Zenon DEF Range
<1> QED BY <1>3

LEMMA TypedParts ==
  ASSUME JournalTypeOK
  PROVE  /\ segs \in Seq(Segment) /\ log \in LogFile
         /\ Recs(segs) \in Seq(Seq(Record)) /\ Len(Recs(segs)) = Len(segs) /\ Len(segs) \in Nat
         /\ Tailed(log) \in Seq(Record)
         /\ recov.recs \in SUBSET Record /\ Held(recov) \in SUBSET Record
         /\ JournalOf(segs, log) \in Seq(Record)
         /\ Journal = JournalOf(segs, log)
<1>1. segs \in Seq(Segment) /\ log \in LogFile
  BY Zenon DEF JournalTypeOK, Segment, LogFile
<1>2. recov.recs \in SUBSET Record
  BY DEF JournalTypeOK
<1>3. Held(recov) \in SUBSET Record
  BY <1>2 DEF Held
<1>4. Journal = JournalOf(segs, log)
  BY Zenon DEF Journal, Archived, Live, JournalOf, Recs, LiveOf
<1>5. Len(segs) \in Nat
  BY <1>1
<1> QED BY <1>1, <1>2, <1>3, <1>4, <1>5, RecsIs, LogIs, JournalIs

LEMMA VisibleIs ==
  ASSUME JournalTypeOK
  PROVE  \A r : r \in Visible <=> r \in Record /\ Seen(r, 0)
<1>1. /\ segs \in Seq(Segment) /\ log \in LogFile
      /\ Recs(segs) \in Seq(Seq(Record)) /\ Tailed(log) \in Seq(Record)
      /\ Held(recov) \in SUBSET Record /\ Journal = JournalOf(segs, log)
  BY TypedParts
<1>2. /\ JournalOf(segs, log) = FlattenSeq(Recs(segs)) \o Tailed(log)
      /\ FlattenSeq(Recs(segs)) \in Seq(Record)
  BY <1>1, JournalIs
<1>3. Range(Journal) = Range(FlattenSeq(Recs(segs))) \cup Range(Tailed(log))
  BY <1>1, <1>2, ConcatRange
<1>4. \A r : r \in Range(FlattenSeq(Recs(segs))) <=> InOne(r, Recs(segs))
  BY <1>1, FlattenRange
<1>5. DOMAIN Recs(segs) = 1..Len(Recs(segs)) /\ \A i \in 1..Len(Recs(segs)) : i > 0
  BY <1>1
<1>6. \A r : InOne(r, Recs(segs)) <=>
               \E i \in 1..Len(Recs(segs)) : i > 0 /\ r \in Range(Recs(segs)[i])
  BY <1>5, Zenon DEF InOne
<1>7. Visible = Range(Journal) \cup Held(recov)
  BY Zenon DEF Visible, Held
<1>8. \A r : r \in Visible <=> Seen(r, 0)
  BY <1>3, <1>4, <1>6, <1>7, Zenon DEF Seen, SeenIn
<1>9. Range(Journal) \subseteq Record
  BY <1>1, <1>2, ConcatIs DEF Range
<1>10. Visible \subseteq Record
  BY <1>1, <1>7, <1>9
<1> QED BY <1>8, <1>10

\* The same records in the same places.
SameRecords ==
  /\ Recs(segs') = Recs(segs) /\ Tailed(log') = Tailed(log) /\ Held(recov') = Held(recov)
LEMMA SameSeen ==
  ASSUME SameRecords
  PROVE  \A r, k : SeenIn(Recs(segs'), Tailed(log'), Held(recov'), r, k) <=> Seen(r, k)
BY Zenon DEF SameRecords, Seen
NothingNew ==
  \A r \in Record : SeenIn(Recs(segs'), Tailed(log'), Held(recov'), r, 0) => Seen(r, 0)
NothingGone ==
  \A r \in Record : Seen(r, todo) => SeenIn(Recs(segs'), Tailed(log'), Held(recov'), r, todo')

LEMMA SeenSooner ==
  ASSUME NEW R, Len(R) \in Nat, NEW t, NEW h, NEW r, NEW k \in Nat, NEW m \in Nat, m <= k,
         SeenIn(R, t, h, r, k)
  PROVE  SeenIn(R, t, h, r, m)
<1>1. \A i \in 1..Len(R) : i > k => i > m
  OBVIOUS
<1> QED BY <1>1, Zenon DEF SeenIn

\* A step that leaves every record where it can be read.
LEMMA QuietStep ==
  ASSUME JournalTypeOK, JournalTypeOK', Ended, SameRecords, count' = count, todo' <= todo
  PROVE  Ended' /\ NothingNew /\ NothingGone
<1>1. segs' \in Seq(Segment) /\ log' \in LogFile
  BY Zenon DEF JournalTypeOK, Segment, LogFile
<1>2. /\ segs \in Seq(Segment) /\ log \in LogFile /\ Len(Recs(segs)) \in Nat
      /\ todo \in Nat /\ todo' \in Nat
  <2>1. /\ segs \in Seq(Segment) /\ log \in LogFile /\ Len(Recs(segs)) \in Nat
        /\ Len(segs) \in Nat
    BY TypedParts
  <2>2. Len(segs') \in Nat
    BY <1>1
  <2>3. todo \in 0..Len(segs) /\ todo' \in 0..Len(segs')
    BY Zenon DEF JournalTypeOK
  <2> QED BY <2>1, <2>2, <2>3
<1>3. /\ JournalOf(segs, log) = FlattenSeq(Recs(segs)) \o Tailed(log)
      /\ JournalOf(segs', log') = FlattenSeq(Recs(segs')) \o Tailed(log')
  BY <1>1, <1>2, JournalIs
<1>4. JournalOf(segs', log') = JournalOf(segs, log)
  BY <1>3, Zenon DEF SameRecords
<1>5. Ended'
  BY <1>4, Zenon DEF Ended
<1>6. NothingNew
  BY SameSeen, Zenon DEF NothingNew
<1>7. ASSUME NEW r \in Record, Seen(r, todo)
      PROVE  SeenIn(Recs(segs'), Tailed(log'), Held(recov'), r, todo')
  <2>1. SeenIn(Recs(segs), Tailed(log), Held(recov), r, todo')
    BY <1>2, <1>7, SeenSooner DEF Seen
  <2> QED BY <2>1, Zenon DEF SameRecords
<1> QED BY <1>5, <1>6, <1>7 DEF NothingGone

\* What is known of the records stays known when the operations stay the same.
LEMMA CarriedOver ==
  ASSUME Uniform, Evident, NothingNew, NothingGone, UNCHANGED <<cur, opened, wanted>>
  PROVE  Uniform' /\ Evident'
<1>1. \A r : Proper(r)' <=> Proper(r)
  BY DEF Proper
<1>2. Uniform'
  BY <1>1, Zenon DEF Uniform, NothingNew, Seen
<1>3. Evident'
  <2>1. ASSUME NEW o \in wanted PROVE \E r \in Record : Seen(r, todo)' /\ r.op = o /\ r.kind = "renamed"
    <3>1. PICK r \in Record : Seen(r, todo) /\ r.op = o /\ r.kind = "renamed"
      BY DEF Evident
    <3> QED BY <3>1, Zenon DEF NothingGone, Seen
  <2>2. ASSUME NEW kind \in cur.wrote
        PROVE  \E r \in Record : Seen(r, todo)' /\ r.op = cur.n /\ (Committed(r) \/ r.kind = kind)
    <3>1. PICK r \in Record : Seen(r, todo) /\ r.op = cur.n /\ (Committed(r) \/ r.kind = kind)
      BY DEF Evident
    <3> QED BY <3>1, Zenon DEF NothingGone, Seen
  <2> QED BY <2>1, <2>2 DEF Evident, Committed
<1> QED BY <1>2, <1>3

----------------------------------------------------------------------------
(* Types.                                                                  *)

DiagFile == [known: Known, recs: Seq(Record), back: Seq(Record), backKnown: Known]
RecovFile == [there: BOOLEAN, known: Known, recs: SUBSET Record]
Pending == [n: 0..MaxOps, of: 0..MaxOps, wrote: SUBSET Kinds]
Controlled ==
  /\ handle \in {"none", "log", "moved"}
  /\ pc \in {"idle", "full", "moved", "twin", "reopen", "select", "remove", "clear"}
  /\ who \in {"emit", "maintain"} /\ todo \in 0..Len(segs)
TypedAs ==
  /\ segs \in Seq(Segment) /\ log \in LogFile /\ diag \in DiagFile /\ recov \in RecovFile
  /\ Controlled /\ cur \in Pending
  /\ opened \in 0..MaxOps /\ wanted \subseteq ops
  /\ count \in 0..MaxRecs /\ dcount \in 0..MaxRecs /\ mishaps \in 0..MaxMishaps

LEMMA TypeIs == JournalTypeOK <=> TypedAs
BY Zenon DEF JournalTypeOK, TypedAs, Controlled, Segment, LogFile, DiagFile, RecovFile, Pending
LEMMA TypeIsNext == JournalTypeOK' <=> TypedAs'
BY Zenon DEF JournalTypeOK, TypedAs, Controlled, Segment, LogFile, DiagFile, RecovFile, Pending

LEMMA LineIs ==
  ASSUME JournalTypeOK, cur.n # 0, NEW kind \in Kinds, NEW n \in 1..MaxRecs
  PROVE  /\ Line(kind, n) \in Record /\ Line(kind, n).op = cur.n /\ Line(kind, n).kind = kind
         /\ Line(kind, n).of = cur.of /\ Line(kind, n).n = n
<1>1. cur.n \in 1..MaxOps /\ cur.of \in 0..MaxOps
  BY CapsAssumption DEF JournalTypeOK
<1> QED BY <1>1 DEF Line, Record, ops
----------------------------------------------------------------------------
(* The steps that leave the journal's files alone.                         *)

LEMMA FilesAlone ==
  ASSUME Inv, JournalTypeOK', UNCHANGED <<segs, log, recov, count>>, todo' <= todo
  PROVE  OnePer(recov.recs)' /\ Ended' /\ NothingNew /\ NothingGone
<1>1. SameRecords
  BY DEF SameRecords
<1>2. OnePer(recov.recs)'
  BY Zenon DEF Inv, OnePer
<1> QED BY <1>1, <1>2, QuietStep DEF Inv

LEMMA BeginStep == ASSUME Inv, NEW of \in 0..MaxOps, Begin(of) PROVE Inv'
<1>1. /\ cur.n = 0 /\ opened < MaxOps /\ handle # "none" /\ pc = "idle"
      /\ opened' = opened + 1 /\ cur' = [n |-> opened + 1, of |-> of, wrote |-> {}]
      /\ UNCHANGED <<segs, log, diag, recov, handle, pc, who, todo, wanted, count, dcount, mishaps>>
  BY DEF Begin, files, control
<1>2. TypedAs /\ MaxOps \in Nat /\ MaxRecs \in Nat
  BY TypeIs, CapsAssumption DEF Inv
<1>3. JournalTypeOK'
  <2>1. opened' \in 0..MaxOps /\ cur' \in Pending
    BY <1>1, <1>2 DEF TypedAs, Pending
  <2> QED BY <1>1, <1>2, <2>1, TypeIsNext, Zenon DEF TypedAs, Controlled
<1>4. todo' <= todo
  <2>1. todo \in 0..Len(segs) /\ Len(segs) \in Nat
    BY <1>2, TypedParts DEF TypedAs, Controlled, Inv
  <2> QED BY <1>1, <2>1
<1>5. OnePer(recov.recs)' /\ Ended' /\ NothingNew /\ NothingGone
  BY <1>1, <1>3, <1>4, FilesAlone
<1>6. Shape'
  BY <1>1 DEF Shape, Inv
<1>7. ASSUME NEW r \in Record, Seen(r, 0) PROVE Proper(r)'
  <2>1. Proper(r) /\ r.op \in Nat /\ opened \in Nat
    BY <1>2, <1>7 DEF Inv, Uniform, Record, ops, TypedAs
  <2>2. r.op <= opened' /\ r.op # cur'.n
    BY <1>1, <2>1 DEF Proper
  <2> QED BY <2>1, <2>2 DEF Proper, Journalled, Committed
<1>8. Uniform'
  <2>1. cur'.n <= opened' /\ cur'.wrote = {}
    BY <1>1, <1>2 DEF TypedAs
  <2>2. \A r : Seen(r, 0)' <=> Seen(r, 0)
    BY <1>1, Zenon DEF Seen
  <2> QED BY <1>7, <2>1, <2>2 DEF Uniform, Inv
<1>9. Evident'
  <2>1. \A r : Seen(r, todo)' <=> Seen(r, todo)
    BY <1>1, Zenon DEF Seen
  <2>2. cur'.wrote = {} /\ wanted' = wanted
    BY <1>1
  <2> QED BY <2>1, <2>2 DEF Evident, Inv
<1> QED BY <1>3, <1>5, <1>6, <1>8, <1>9 DEF Inv

LEMMA NothingPending ==
  ASSUME Uniform, Evident, NothingNew, NothingGone, cur' = NoOp, UNCHANGED <<opened, wanted>>,
         opened \in Nat
  PROVE  Uniform' /\ Evident'
<1>1. cur'.n = 0 /\ cur'.wrote = {}
  BY DEF NoOp
<1>2. ASSUME NEW r \in Record, Proper(r) PROVE Proper(r)'
  <2>1. r.op # 0
    BY DEF Record, ops
  <2> QED BY <1>1, <1>2, <2>1 DEF Proper, Journalled, Committed
<1>3. Uniform'
  BY <1>1, <1>2 DEF Uniform, NothingNew, Seen
<1>4. ASSUME NEW o \in wanted PROVE \E r \in Record : Seen(r, todo)' /\ r.op = o /\ r.kind = "renamed"
  <2>1. PICK r \in Record : Seen(r, todo) /\ r.op = o /\ r.kind = "renamed"
    BY DEF Evident
  <2> QED BY <2>1, Zenon DEF NothingGone, Seen
<1>5. Evident'
  BY <1>1, <1>4 DEF Evident
<1> QED BY <1>3, <1>5

LEMMA SettleStep == ASSUME Inv, Settle PROVE Inv'
<1>1. /\ pc = "idle" /\ cur' = NoOp
      /\ UNCHANGED <<segs, log, diag, recov, handle, pc, who, todo, opened, wanted, count, dcount, mishaps>>
  BY DEF Settle, files, control
<1>2. TypedAs /\ MaxOps \in Nat
  BY TypeIs, CapsAssumption DEF Inv
<1>3. JournalTypeOK'
  <2>1. cur' \in Pending
    BY <1>1, <1>2 DEF Pending, NoOp
  <2> QED BY <1>1, <1>2, <2>1, TypeIsNext, Zenon DEF TypedAs, Controlled
<1>4. todo' <= todo /\ opened \in Nat
  <2>1. todo \in 0..Len(segs) /\ Len(segs) \in Nat
    BY <1>2, TypedParts DEF TypedAs, Controlled, Inv
  <2> QED BY <1>1, <1>2, <2>1 DEF TypedAs
<1>5. OnePer(recov.recs)' /\ Ended' /\ NothingNew /\ NothingGone
  BY <1>1, <1>3, <1>4, FilesAlone
<1>6. Shape'
  BY <1>1 DEF Shape, Inv
<1>7. Uniform' /\ Evident'
  BY <1>1, <1>4, <1>5, NothingPending DEF Inv
<1> QED BY <1>3, <1>5, <1>6, <1>7 DEF Inv

LEMMA DiagnoseStep == ASSUME Inv, NEW kind \in {"failed", "settled"}, Diagnose(kind) PROVE Inv'
<1>1. /\ cur.n # 0 /\ pc = "idle" /\ count + dcount < MaxRecs /\ cur' = NoOp /\ dcount' = dcount + 1
      /\ \/ diag' = [known |-> Unknown, recs |-> <<Line(kind, dcount + 1)>>,
                     back |-> diag.recs, backKnown |-> Unknown]
         \/ diag' = [diag EXCEPT !.recs = Append(@, Line(kind, dcount + 1))]
      /\ UNCHANGED <<segs, log, recov, handle, pc, who, todo, opened, wanted, count, mishaps>>
  BY DEF Diagnose, MayWrite, files, control
<1>2. TypedAs /\ MaxOps \in Nat /\ MaxRecs \in Nat
  BY TypeIs, CapsAssumption DEF Inv
<1>3. JournalTypeOK'
  <2>1. cur' \in Pending
    BY <1>1, <1>2 DEF Pending, NoOp
  <2>2. dcount' \in 0..MaxRecs /\ dcount + 1 \in 1..MaxRecs
    BY <1>1, <1>2 DEF TypedAs
  <2>3. Line(kind, dcount + 1) \in Record
    BY <1>1, <2>2, LineIs DEF Inv, Kinds
  <2>4. Unknown \in Known
    BY DEF Unknown, Known
  <2>5. diag \in DiagFile
    BY <1>2 DEF TypedAs
  <2> DEFINE r == Line(kind, dcount + 1)
  <2> HIDE DEF r
  <2>6. diag.recs \in Seq(Record) /\ <<r>> \in Seq(Record) /\ Append(diag.recs, r) \in Seq(Record)
    BY <2>3, <2>5 DEF DiagFile, r
  <2>7. diag' \in DiagFile
    <3>1. CASE diag' = [known |-> Unknown, recs |-> <<Line(kind, dcount + 1)>>,
                        back |-> diag.recs, backKnown |-> Unknown]
      <4>1. diag' = [known |-> Unknown, recs |-> <<r>>, back |-> diag.recs, backKnown |-> Unknown]
        BY <3>1, Zenon DEF r
      <4> QED BY <2>4, <2>6, <4>1, Zenon DEF DiagFile
    <3>2. CASE diag' = [diag EXCEPT !.recs = Append(@, Line(kind, dcount + 1))]
      <4>1. diag' = [diag EXCEPT !.recs = Append(diag.recs, r)]
        BY <3>2, Zenon DEF r
      <4> QED BY <2>5, <2>6, <4>1 DEF DiagFile
    <3> QED BY <1>1, <3>1, <3>2
  <2> QED BY <1>1, <1>2, <2>1, <2>2, <2>7, TypeIsNext, Zenon DEF TypedAs, Controlled
<1>4. todo' <= todo /\ opened \in Nat
  <2>1. todo \in 0..Len(segs) /\ Len(segs) \in Nat
    BY <1>2, TypedParts DEF TypedAs, Controlled, Inv
  <2> QED BY <1>1, <1>2, <2>1 DEF TypedAs
<1>5. OnePer(recov.recs)' /\ Ended' /\ NothingNew /\ NothingGone
  BY <1>1, <1>3, <1>4, FilesAlone
<1>6. Shape'
  BY <1>1 DEF Shape, Inv
<1>7. Uniform' /\ Evident'
  BY <1>1, <1>4, <1>5, NothingPending DEF Inv
<1> QED BY <1>3, <1>5, <1>6, <1>7 DEF Inv

\* Requests come and go; none is made while maintenance has the mailbox.
LEMMA WantedStep == ASSUME Inv, NEW o \in ops, Want(o) \/ Answered(o) PROVE Inv'
<1>1. /\ UNCHANGED <<segs, log, diag, recov, handle, pc, who, todo, cur, opened, count, dcount, mishaps>>
      /\ \/ ~Maintaining /\ Renamed(o) /\ wanted' = wanted \cup {o}
         \/ wanted' = wanted \ {o}
  BY DEF Want, Answered, files, control
<1>2. TypedAs
  BY TypeIs DEF Inv
<1>3. JournalTypeOK'
  <2>1. wanted' \subseteq ops
    BY <1>1, <1>2 DEF TypedAs
  <2> QED BY <1>1, <1>2, <2>1, TypeIsNext, Zenon DEF TypedAs, Controlled
<1>4. todo' <= todo /\ todo \in Nat
  <2>1. todo \in 0..Len(segs) /\ Len(segs) \in Nat
    BY <1>2, TypedParts DEF TypedAs, Controlled, Inv
  <2> QED BY <1>1, <2>1
<1>5. OnePer(recov.recs)' /\ Ended' /\ NothingNew /\ NothingGone
  BY <1>1, <1>3, <1>4, FilesAlone
<1>6. Shape'
  BY <1>1 DEF Shape, Inv
<1>7. Uniform'
  <2>1. \A r : (Seen(r, 0)' <=> Seen(r, 0)) /\ (Proper(r)' <=> Proper(r))
    BY <1>1, Zenon DEF Seen, Proper
  <2> QED BY <1>1, <2>1 DEF Uniform, Inv
<1>8. Evident'
  <2>1. \A r : Seen(r, todo)' <=> Seen(r, todo)
    BY <1>1, Zenon DEF Seen
  <2>2. ASSUME ~Maintaining, Renamed(o)
        PROVE  \E r \in Record : Seen(r, todo) /\ r.op = o /\ r.kind = "renamed"
    <3>1. todo = 0
      BY <1>4, <2>2 DEF Maintaining, Shape, Inv
    <3> QED BY <2>2, <3>1, VisibleIs DEF Renamed, Inv
  <2>3. \A p \in wanted' : \E r \in Record : Seen(r, todo) /\ r.op = p /\ r.kind = "renamed"
    BY <1>1, <2>2 DEF Evident, Inv
  <2> QED BY <1>1, <2>1, <2>3 DEF Evident, Inv
<1> QED BY <1>3, <1>5, <1>6, <1>7, <1>8 DEF Inv

\* The journal is closed, maintenance begins, or the worker is killed.
LEMMA ControlStep == ASSUME Inv, CloseJournal \/ Maintain \/ Crash PROVE Inv'
<1>1. UNCHANGED <<segs, log, diag, recov, cur, opened, wanted, count, dcount>>
  BY DEF CloseJournal, Maintain, Crash, files
<1>2. TypedAs /\ todo \in Nat
  <2>1. Len(segs) \in Nat /\ TypedAs
    BY TypedParts, TypeIs DEF Inv
  <2> QED BY <2>1 DEF TypedAs, Controlled
<1>3. /\ handle' \in {"none", handle}
      /\ pc' \in {"idle", "full", "select"} /\ who' \in {"emit", "maintain", who}
      /\ todo' \in {0, todo} /\ mishaps' \in 0..MaxMishaps
      /\ handle' = "none" /\ (pc' = "full" => log.there)
      /\ todo' > 0 => todo > 0 /\ pc = "idle"
  <2>1. CASE CloseJournal
    BY <1>2, <2>1 DEF CloseJournal, TypedAs
  <2>2. CASE Maintain
    BY <1>2, <2>2 DEF Maintain, Go, TypedAs
  <2>3. CASE Crash
    BY <1>2, <2>3, CapsAssumption DEF Crash, Mishap, TypedAs
  <2> QED BY <2>1, <2>2, <2>3
<1>4. JournalTypeOK'
  <2>1. Controlled'
    BY <1>1, <1>2, <1>3 DEF TypedAs, Controlled
  <2> QED BY <1>1, <1>2, <1>3, <2>1, TypeIsNext, Zenon DEF TypedAs
<1>5. todo' <= todo
  BY <1>2, <1>3
<1>6. OnePer(recov.recs)' /\ Ended' /\ NothingNew /\ NothingGone
  BY <1>1, <1>4, <1>5, FilesAlone
<1>7. Shape'
  BY <1>1, <1>2, <1>3 DEF Shape, Inv
<1>8. Uniform' /\ Evident'
  BY <1>1, <1>6, CarriedOver DEF Inv
<1> QED BY <1>4, <1>6, <1>7, <1>8 DEF Inv
----------------------------------------------------------------------------
(* The steps that move the files and no record.                            *)

LEMMA QuietInv ==
  ASSUME Inv, JournalTypeOK', Shape', SameRecords, UNCHANGED <<cur, opened, wanted, count>>,
         todo' <= todo, OnePer(recov.recs)'
  PROVE  Inv'
<1>1. Ended' /\ NothingNew /\ NothingGone
  BY QuietStep DEF Inv
<1>2. Uniform' /\ Evident'
  BY <1>1, CarriedOver DEF Inv
<1> QED BY <1>1, <1>2 DEF Inv

LEMMA TodoIs == ASSUME Inv PROVE TypedAs /\ todo \in Nat /\ Len(segs) \in Nat /\ todo <= Len(segs)
<1>1. Len(segs) \in Nat /\ TypedAs
  BY TypedParts, TypeIs DEF Inv
<1> QED BY <1>1 DEF TypedAs, Controlled

LEMMA FreshLogIs == FreshLog \in LogFile /\ FreshLog.there /\ Tailed(FreshLog) = <<>>
<1>1. Unknown \in Known /\ <<>> \in Seq(Record)
  BY DEF Unknown, Known
<1> QED BY <1>1 DEF FreshLog, LogFile, Tailed

LEMMA OpenJournalStep == ASSUME Inv, OpenJournal PROVE Inv'
<1>1. /\ handle = "none" /\ pc = "idle" /\ handle' = "log"
      /\ \/ log.there /\ log' = [log EXCEPT !.tail = IF @ = "unended" THEN "clean" ELSE @]
         \/ ~log.there /\ log' = FreshLog
      /\ UNCHANGED <<segs, diag, recov, pc, who, todo, cur, opened, wanted, count, dcount, mishaps>>
  BY DEF OpenJournal
<1>2. TypedAs /\ todo \in Nat
  BY TodoIs
<1>3. log \in LogFile
  BY <1>2 DEF TypedAs
<1>4. log' \in LogFile /\ log'.there /\ Tailed(log') = Tailed(log)
  <2>1. CASE log.there /\ log' = [log EXCEPT !.tail = IF @ = "unended" THEN "clean" ELSE @]
    <3>1. log'.there = log.there /\ log'.recs = log.recs
      BY <1>3, <2>1 DEF LogFile
    <3>2. log' \in LogFile
      BY <1>3, <2>1 DEF LogFile
    <3> QED BY <2>1, <3>1, <3>2 DEF Tailed
  <2>2. CASE ~log.there /\ log' = FreshLog
    <3>1. Tailed(log) = <<>>
      BY <2>2 DEF Tailed
    <3> QED BY <2>2, <3>1, FreshLogIs
  <2> QED BY <1>1, <2>1, <2>2
<1>5. JournalTypeOK'
  <2>1. Controlled'
    BY <1>1, <1>2 DEF TypedAs, Controlled
  <2> QED BY <1>1, <1>2, <1>4, <2>1, TypeIsNext, Zenon DEF TypedAs
<1>6. Shape'
  BY <1>1, <1>2, <1>4 DEF Shape, Inv
<1>7. SameRecords
  BY <1>1, <1>4 DEF SameRecords
<1>8. OnePer(recov.recs)'
  BY <1>1, Zenon DEF Inv, OnePer
<1> QED BY <1>1, <1>2, <1>5, <1>6, <1>7, <1>8, QuietInv

LEMMA SegmentStep == ASSUME Inv, Compress \/ DropRaw PROVE Inv'
<1>1. /\ pc \in {"moved", "twin"} /\ pc' \in {"twin", "reopen"}
      /\ \/ segs' = [segs EXCEPT ![Newest].gz = TRUE]
         \/ segs' = [segs EXCEPT ![Newest].raw = FALSE, ![Newest].known = Unknown]
         \/ segs' = segs
      /\ mishaps' = mishaps \/ (mishaps < MaxMishaps /\ mishaps' = mishaps + 1)
      /\ UNCHANGED <<log, diag, recov, handle, who, todo, cur, opened, wanted, count, dcount>>
  BY DEF Compress, DropRaw, Go, Mishap
<1>2. TypedAs /\ todo \in Nat /\ Len(segs) \in Nat /\ MaxMishaps \in Nat
  BY TodoIs, CapsAssumption
<1>3. segs' \in Seq(Segment) /\ Len(segs') = Len(segs) /\ Recs(segs') = Recs(segs)
  <2>1. segs \in Seq(Segment)
    BY <1>2 DEF TypedAs
  <2>2. CASE segs' = [segs EXCEPT ![Newest].gz = TRUE]
    BY <2>1, <2>2, SegmentChanged
  <2>3. CASE segs' = [segs EXCEPT ![Newest].raw = FALSE, ![Newest].known = Unknown]
    BY <2>1, <2>3, SegmentChanged
  <2> QED BY <1>1, <2>1, <2>2, <2>3
<1>4. JournalTypeOK'
  <2>1. Controlled'
    BY <1>1, <1>2, <1>3 DEF TypedAs, Controlled
  <2>2. mishaps' \in 0..MaxMishaps
    BY <1>1, <1>2 DEF TypedAs
  <2> QED BY <1>1, <1>2, <1>3, <2>1, <2>2, TypeIsNext, Zenon DEF TypedAs
<1>5. Shape'
  <2>1. segs # <<>> => segs' # <<>>
    BY <1>2, <1>3 DEF TypedAs
  <2> QED BY <1>1, <1>2, <2>1 DEF Shape, Inv
<1>6. SameRecords
  BY <1>1, <1>3 DEF SameRecords
<1>7. OnePer(recov.recs)'
  BY <1>1, Zenon DEF Inv, OnePer
<1> QED BY <1>1, <1>2, <1>4, <1>5, <1>6, <1>7, QuietInv

LEMMA ReopenStep == ASSUME Inv, Reopen PROVE Inv'
<1>1. /\ pc = "reopen" /\ log' = FreshLog
      /\ \/ pc' = "idle" /\ handle' = "log"
         \/ pc' = "select" /\ handle' = "none"
      /\ UNCHANGED <<segs, diag, recov, who, todo, cur, opened, wanted, count, dcount, mishaps>>
  BY DEF Reopen
<1>2. TypedAs /\ todo \in Nat
  BY TodoIs
<1>3. log' \in LogFile /\ log'.there /\ Tailed(log') = <<>> /\ Tailed(log) = <<>>
  <2>1. ~log.there
    BY <1>1 DEF Shape, Inv
  <2> QED BY <1>1, <2>1, FreshLogIs DEF Tailed
<1>4. JournalTypeOK'
  <2>1. Controlled'
    BY <1>1, <1>2 DEF TypedAs, Controlled
  <2> QED BY <1>1, <1>2, <1>3, <2>1, TypeIsNext, Zenon DEF TypedAs
<1>5. Shape'
  BY <1>1, <1>2, <1>3 DEF Shape, Inv
<1>6. SameRecords
  BY <1>1, <1>3 DEF SameRecords
<1>7. OnePer(recov.recs)'
  BY <1>1, Zenon DEF Inv, OnePer
<1> QED BY <1>1, <1>2, <1>4, <1>5, <1>6, <1>7, QuietInv

LEMMA ClearStep == ASSUME Inv, Clear PROVE Inv'
<1>1. /\ pc = "remove" /\ todo = 0 /\ pc' = "idle"
      /\ recov' = IF recov.recs = {} THEN [recov EXCEPT !.there = FALSE] ELSE recov
      /\ UNCHANGED <<segs, log, diag, handle, who, todo, cur, opened, wanted, count, dcount, mishaps>>
  BY DEF Clear, Go
<1>2. TypedAs /\ todo \in Nat
  BY TodoIs
<1>3. recov' \in RecovFile /\ recov'.recs = recov.recs /\ Held(recov') = Held(recov)
  <2>1. recov \in RecovFile
    BY <1>2 DEF TypedAs
  <2>2. CASE recov.recs = {}
    <3>1. recov' \in RecovFile /\ recov'.recs = {}
      BY <1>1, <2>1, <2>2 DEF RecovFile
    <3> QED BY <2>2, <3>1 DEF Held
  <2>3. CASE recov.recs # {}
    BY <1>1, <2>1, <2>3
  <2> QED BY <2>2, <2>3
<1>4. JournalTypeOK'
  <2>1. Controlled'
    BY <1>1, <1>2 DEF TypedAs, Controlled
  <2> QED BY <1>1, <1>2, <1>3, <2>1, TypeIsNext, Zenon DEF TypedAs
<1>5. Shape'
  BY <1>1, <1>2 DEF Shape, Inv
<1>6. SameRecords
  BY <1>1, <1>3 DEF SameRecords
<1>7. OnePer(recov.recs)'
  BY <1>3, Zenon DEF Inv, OnePer
<1> QED BY <1>1, <1>2, <1>4, <1>5, <1>6, <1>7, QuietInv
----------------------------------------------------------------------------
(* The steps that write a record.                                          *)

Growth(r) ==
  /\ JournalOf(segs', log') = Append(JournalOf(segs, log), r)
  /\ \A q \in Record :
       SeenIn(Recs(segs'), Tailed(log'), Held(recov'), q, 0) <=> Seen(q, 0) \/ q = r

LEMMA LogGrown ==
  ASSUME Inv, log.there, NEW r \in Record,
         log' \in LogFile, log'.there, log'.recs = Append(log.recs, r), UNCHANGED <<segs, recov>>
  PROVE  Growth(r)
<1>1. segs \in Seq(Segment) /\ log \in LogFile
  BY TypedParts DEF Inv
<1>2. Tailed(log) = log.recs /\ Tailed(log') = Append(log.recs, r) /\ log.recs \in Seq(Record)
  BY <1>1, LogIs DEF Tailed
<1>3. /\ JournalOf(segs, log) = FlattenSeq(Recs(segs)) \o Tailed(log)
      /\ JournalOf(segs', log') = FlattenSeq(Recs(segs)) \o Tailed(log')
      /\ FlattenSeq(Recs(segs)) \in Seq(Record)
  BY <1>1, JournalIs
<1>4. JournalOf(segs', log') = Append(JournalOf(segs, log), r)
  BY <1>2, <1>3, ConcatAppend
<1>5. Range(Tailed(log')) = Range(Tailed(log)) \cup {r}
  BY <1>2, RangeAppend
<1>6. \A q : SeenIn(Recs(segs'), Tailed(log'), Held(recov'), q, 0) <=> Seen(q, 0) \/ q = r
  BY <1>5, Zenon DEF Seen, SeenIn
<1> QED BY <1>4, <1>6 DEF Growth

LEMMA ArchiveGrown ==
  ASSUME Inv, ~log.there, segs # <<>>, NEW r \in Record,
         segs' = [segs EXCEPT ![Newest].recs = Append(@, r)], UNCHANGED <<log, recov>>
  PROVE  Growth(r) /\ segs' \in Seq(Segment) /\ Len(segs') = Len(segs)
<1> DEFINE n == Len(segs)
<1>1. segs \in Seq(Segment) /\ log \in LogFile /\ Len(segs) \in Nat
  BY TypedParts DEF Inv
<1>2. /\ segs' \in Seq(Segment) /\ Len(segs') = Len(segs)
      /\ Recs(segs') = [Recs(segs) EXCEPT ![n] = Append(@, r)]
      /\ FlattenSeq(Recs(segs')) = Append(FlattenSeq(Recs(segs)), r)
  BY <1>1, NewestGrown DEF Newest
<1>3. Tailed(log) = <<>> /\ Tailed(log') = <<>>
  BY DEF Tailed
<1>4. /\ JournalOf(segs, log) = FlattenSeq(Recs(segs)) \o <<>>
      /\ JournalOf(segs', log') = FlattenSeq(Recs(segs')) \o <<>>
      /\ FlattenSeq(Recs(segs)) \in Seq(Record) /\ FlattenSeq(Recs(segs')) \in Seq(Record)
  BY <1>1, <1>2, <1>3, JournalIs
<1>5. JournalOf(segs', log') = Append(JournalOf(segs, log), r)
  <2>1. FlattenSeq(Recs(segs)) \o <<>> = FlattenSeq(Recs(segs))
    BY <1>4, ConcatEmpty
  <2>2. FlattenSeq(Recs(segs')) \o <<>> = FlattenSeq(Recs(segs'))
    BY <1>4, ConcatEmpty
  <2> QED BY <1>2, <1>4, <2>1, <2>2, Zenon
<1>6. /\ Recs(segs) \in Seq(Seq(Record)) /\ Len(Recs(segs)) = n /\ n \in 1..n
      /\ Recs(segs') \in Seq(Seq(Record)) /\ Len(Recs(segs')) = n
  <2>1. n \in 1..n
    BY <1>1
  <2>2. Recs(segs) \in Seq(Seq(Record)) /\ Len(Recs(segs)) = n
    BY <1>1, RecsIs
  <2>3. Recs(segs') \in Seq(Seq(Record)) /\ Len(Recs(segs')) = Len(segs')
    BY <1>2, RecsIs
  <2> QED BY <1>2, <2>1, <2>2, <2>3
<1>7. \A i \in 1..n : Recs(segs')[i] = IF i = n THEN Append(Recs(segs)[n], r) ELSE Recs(segs)[i]
  <2>1. DOMAIN Recs(segs) = 1..n
    BY <1>6
  <2> QED BY <1>2, <2>1, Zenon
<1>8. Recs(segs)[n] \in Seq(Record)
  BY <1>6
<1>9. Range(Recs(segs')[n]) = Range(Recs(segs)[n]) \cup {r}
  <2>1. Recs(segs')[n] = Append(Recs(segs)[n], r)
    BY <1>6, <1>7, Zenon
  <2>2. Range(Append(Recs(segs)[n], r)) = Range(Recs(segs)[n]) \cup {r}
    BY <1>8, RangeAppend
  <2> QED BY <2>1, <2>2, Zenon
<1>10. \A i \in 1..n : i > 0
  BY <1>1
<1>11. \A q : (\E i \in 1..n : i > 0 /\ q \in Range(Recs(segs')[i]))
              <=> (\E i \in 1..n : i > 0 /\ q \in Range(Recs(segs)[i])) \/ q = r
  BY <1>6, <1>7, <1>9, <1>10, Zenon
<1>12. \A q : SeenIn(Recs(segs'), Tailed(log'), Held(recov'), q, 0) <=> Seen(q, 0) \/ q = r
  BY <1>6, <1>11, Zenon DEF Seen, SeenIn
<1> QED BY <1>2, <1>5, <1>12 DEF Growth

\* The record says what the operation has done, and is there for who needs it.
LEMMA WrittenOver ==
  ASSUME Inv, NEW kind \in {"renamed", "reverted", "required"}, MayWrite(kind),
         NEW r \in Record, r = Line(kind, count + 1), Growth(r), todo' = todo,
         count' = count + 1, cur' = [cur EXCEPT !.wrote = @ \cup {kind}],
         UNCHANGED <<opened, wanted>>
  PROVE  Ended' /\ Uniform' /\ Evident'
<1>1. TypedAs /\ todo \in Nat
  BY TodoIs
<1>2. /\ cur.n # 0 /\ pc = "idle" /\ count + dcount < MaxRecs
      /\ kind = "renamed" => cur.of = 0
      /\ kind = "reverted" => cur.of # 0
  BY DEF MayWrite
<1>3. count + 1 \in 1..MaxRecs /\ count \in Nat
  BY <1>1, <1>2, CapsAssumption DEF TypedAs
<1>4. r.op = cur.n /\ r.kind = kind /\ r.of = cur.of /\ r.n = count + 1
  BY <1>2, <1>3, LineIs DEF Inv, Kinds
<1>5. cur'.n = cur.n /\ cur'.of = cur.of /\ cur'.wrote = cur.wrote \cup {kind}
  BY <1>1 DEF TypedAs, Pending
<1>6. todo = 0
  BY <1>1, <1>2 DEF Shape, Inv
<1>7. Ended'
  <2>1. JournalOf(segs, log) \in Seq(Record)
    BY TypedParts DEF Inv
  <2>2. EndsAt(Append(JournalOf(segs, log), r), count + 1)
    BY <1>3, <1>4, <2>1, EndsGrown DEF Inv, Ended
  <2> QED BY <2>2, Zenon DEF Growth, Ended
<1>8. Proper(r)
  BY <1>2, <1>4 DEF Proper, Journalled, Committed, Uniform, Inv
<1>9. \A q : Proper(q)' <=> Proper(q)
  BY <1>5, Zenon DEF Proper
<1>10. \A q \in Record : Seen(q, 0)' <=> Seen(q, 0) \/ q = r
  BY Zenon DEF Growth, Seen
<1>11. \A q \in Record : Seen(q, 0) => Proper(q)
  BY DEF Uniform, Inv
<1>12. \A q, p \in Record : Seen(q, 0) /\ Seen(p, 0) /\ q.op = p.op => q.of = p.of
  BY DEF Uniform, Inv
<1>13. ASSUME NEW q \in Record, Seen(q, 0), q.op = r.op PROVE q.of = r.of
  BY <1>4, <1>11, <1>13 DEF Proper
<1>14. \A q, p \in Record : Seen(q, 0)' /\ Seen(p, 0)' /\ q.op = p.op => q.of = p.of
  <2> SUFFICES ASSUME NEW q \in Record, NEW p \in Record, Seen(q, 0) \/ q = r, Seen(p, 0) \/ p = r,
                      q.op = p.op
               PROVE q.of = p.of
    BY <1>10, Zenon
  <2>1. CASE q = r
    BY <1>13, <2>1
  <2>2. CASE q # r
    <3>1. CASE p = r
      BY <1>13, <2>2, <3>1
    <3>2. CASE p # r
      BY <1>12, <2>2, <3>2
    <3> QED BY <3>1, <3>2
  <2> QED BY <2>1, <2>2
<1>15. Uniform'
  <2>1. cur'.n <= opened' /\ cur'.wrote \subseteq {"renamed", "reverted", "required"}
    BY <1>5 DEF Uniform, Inv
  <2>2. \A q \in Record : Seen(q, 0)' => Proper(q)'
    BY <1>8, <1>9, <1>10, <1>11, Zenon
  <2> QED BY <1>14, <2>1, <2>2, Zenon DEF Uniform
<1>16. \A q \in Record : Seen(q, todo)' <=> Seen(q, todo) \/ q = r
  BY <1>6, <1>10, Zenon DEF Seen
<1>17. ASSUME NEW o \in wanted PROVE \E q \in Record : Seen(q, todo)' /\ q.op = o /\ q.kind = "renamed"
  BY <1>16 DEF Evident, Inv
<1>18. ASSUME NEW k \in cur'.wrote
       PROVE  \E q \in Record : Seen(q, todo)' /\ q.op = cur'.n /\ (Committed(q) \/ q.kind = k)
  <2>1. CASE k = kind
    BY <1>4, <1>5, <1>16, <2>1
  <2>2. CASE k # kind
    <3>1. k \in cur.wrote
      BY <1>5, <2>2
    <3>2. PICK q \in Record : Seen(q, todo) /\ q.op = cur.n /\ (Committed(q) \/ q.kind = k)
      BY <3>1 DEF Evident, Inv
    <3> QED BY <1>5, <1>16, <3>2
  <2> QED BY <2>1, <2>2
<1>19. Evident'
  BY <1>17, <1>18 DEF Evident, Committed
<1> QED BY <1>7, <1>15, <1>19
Longer(l, r, tail) == [l EXCEPT !.recs = Append(@, r), !.tail = tail]
LEMMA LineKept ==
  ASSUME NEW l \in LogFile, NEW r \in Record, NEW tail \in {"clean", "unended", "torn", "bad"}, NEW m,
         m = Longer(l, r, tail)
  PROVE  m \in LogFile /\ m.there = l.there /\ m.recs = Append(l.recs, r)
<1>1. l.recs \in Seq(Record)
  BY LogIs
<1>2. Append(l.recs, r) \in Seq(Record)
  BY <1>1, AppendIs
<1> QED BY <1>2 DEF LogFile, Longer

\* emit, and what a failure of it leaves.
LEMMA WrittenStep ==
  ASSUME Inv, NEW kind \in {"renamed", "reverted", "required"}, MayWrite(kind),
         NEW r \in Record, r = Line(kind, count + 1), Growth(r),
         segs' \in Seq(Segment), Len(segs') = Len(segs), log' \in LogFile, log'.there = log.there,
         count' = count + 1, cur' = [cur EXCEPT !.wrote = @ \cup {kind}],
         handle' = handle, todo' = todo, mishaps' \in 0..MaxMishaps,
         \/ pc' = pc /\ who' = who
         \/ pc' = "full" /\ who' = "emit" /\ log.there,
         UNCHANGED <<diag, recov, opened, wanted, dcount>>
  PROVE  Inv'
<1>1. TypedAs /\ todo \in Nat /\ MaxRecs \in Nat
  BY TodoIs, CapsAssumption
<1>2. cur.n # 0 /\ pc = "idle" /\ count + dcount < MaxRecs
  BY DEF MayWrite
<1>3. Ended' /\ Uniform' /\ Evident'
  BY WrittenOver
<1>4. JournalTypeOK'
  <2>1. Controlled'
    BY <1>1 DEF TypedAs, Controlled
  <2>2. cur' \in Pending
    <3>1. cur \in Pending /\ kind \in Kinds
      BY <1>1 DEF TypedAs, Kinds
    <3> QED BY <3>1 DEF Pending
  <2>3. count' \in 0..MaxRecs
    BY <1>1, <1>2 DEF TypedAs
  <2> QED BY <1>1, <2>1, <2>2, <2>3, TypeIsNext, Zenon DEF TypedAs
<1>5. Shape'
  <2>1. segs # <<>> => segs' # <<>>
    BY <1>1 DEF TypedAs
  <2> QED BY <1>1, <1>2, <2>1 DEF Shape, Inv
<1>6. OnePer(recov.recs)'
  BY Zenon DEF Inv, OnePer
<1> QED BY <1>3, <1>4, <1>5, <1>6 DEF Inv

LEMMA EmitStep ==
  ASSUME Inv, NEW kind \in {"renamed", "reverted", "required"}, Emit(kind)
  PROVE  Inv'
<1> DEFINE r == Line(kind, count + 1)
<1>1. /\ handle # "none" /\ MayWrite(kind) /\ count' = count + 1
      /\ cur' = [cur EXCEPT !.wrote = @ \cup {kind}]
      /\ UNCHANGED <<diag, recov, opened, wanted, dcount, mishaps>>
      /\ \/ /\ handle = "log"
            /\ log' = [log EXCEPT !.recs = Append(@, r), !.tail = Written(@)]
            /\ \/ pc' = "full" /\ who' = "emit" /\ UNCHANGED <<handle, todo>>
               \/ UNCHANGED <<handle, pc, who, todo>>
            /\ UNCHANGED segs
         \/ /\ handle # "log"
            /\ segs' = [segs EXCEPT ![Newest].recs = Append(@, r)]
            /\ UNCHANGED <<log, handle, pc, who, todo>>
  BY DEF Emit, control
<1>2. TypedAs /\ todo \in Nat
  BY TodoIs
<1>3. r \in Record
  <2>1. count + 1 \in 1..MaxRecs /\ cur.n # 0
    BY <1>1, <1>2, CapsAssumption DEF TypedAs, MayWrite
  <2> QED BY <2>1, LineIs DEF Inv, Kinds
<1>4. segs \in Seq(Segment) /\ log \in LogFile /\ mishaps' \in 0..MaxMishaps
  BY <1>1, <1>2 DEF TypedAs
<1>5. CASE handle = "log"
  <2>1. log.there
    BY <1>5 DEF Shape, Inv
  <2>2. Written(log.tail) \in {"clean", "unended", "torn", "bad"}
    BY DEF Written
  <2> HIDE DEF r
  <2>3. PICK tail \in {"clean", "unended", "torn", "bad"} : log' = Longer(log, r, tail)
    BY <1>1, <1>5, <2>2, Zenon DEF Longer
  <2>4. log' \in LogFile /\ log'.there = log.there /\ log'.recs = Append(log.recs, r)
    <3>1. log \in LogFile
      BY <1>4
    <3> QED BY <1>3, <2>3, <2>1, <3>1, LineKept
  <2>5. segs' = segs
    BY <1>1, <1>5
  <2>6. Growth(r)
    BY <1>1, <1>3, <2>1, <2>4, <2>5, LogGrown
  <2> QED BY <1>1, <1>3, <1>4, <1>5, <2>1, <2>4, <2>5, <2>6, WrittenStep DEF r
<1>6. CASE handle # "log"
  <2>1. handle = "moved"
    BY <1>1, <1>2, <1>6 DEF TypedAs, Controlled
  <2>2. ~log.there /\ segs # <<>>
    BY <2>1 DEF Shape, Inv
  <2> HIDE DEF r
  <2>3. Growth(r) /\ segs' \in Seq(Segment) /\ Len(segs') = Len(segs)
    BY <1>1, <1>3, <1>6, <2>2, ArchiveGrown
  <2> QED BY <1>1, <1>3, <1>4, <1>6, <2>3, WrittenStep DEF r
<1> QED BY <1>5, <1>6

LEMMA EmitFailsStep ==
  ASSUME Inv, NEW kind \in {"renamed", "reverted", "required"}, EmitFails(kind)
  PROVE  Inv'
<1> DEFINE r == Line(kind, count + 1)
           tail == IF log.tail = "clean" THEN "unended" ELSE "bad"
<1>1. /\ handle = "log" /\ MayWrite(kind) /\ mishaps < MaxMishaps /\ mishaps' = mishaps + 1
      /\ UNCHANGED <<segs, diag, recov, handle, pc, who, todo, opened, wanted, dcount>>
      /\ \/ log' = [log EXCEPT !.tail = "torn"] /\ UNCHANGED <<count, cur>>
         \/ /\ log' = [log EXCEPT !.recs = Append(@, r), !.tail = tail]
            /\ count' = count + 1 /\ cur' = [cur EXCEPT !.wrote = @ \cup {kind}]
  BY DEF EmitFails, Mishap, control
<1>2. TypedAs /\ todo \in Nat /\ Len(segs) \in Nat
  BY TodoIs
<1>3. r \in Record
  <2>1. count + 1 \in 1..MaxRecs /\ cur.n # 0
    BY <1>1, <1>2, CapsAssumption DEF TypedAs, MayWrite
  <2> QED BY <2>1, LineIs DEF Inv, Kinds
<1>4. segs \in Seq(Segment) /\ log \in LogFile /\ mishaps' \in 0..MaxMishaps /\ log.there
  <2>1. log.there
    BY <1>1 DEF Shape, Inv
  <2> QED BY <1>1, <1>2, <2>1, CapsAssumption DEF TypedAs
<1>5. CASE log' = [log EXCEPT !.tail = "torn"] /\ UNCHANGED <<count, cur>>
  <2>1. log' \in LogFile /\ log'.there = log.there /\ log'.recs = log.recs
    BY <1>4, <1>5 DEF LogFile
  <2>2. JournalTypeOK'
    <3>1. Controlled'
      BY <1>1, <1>2 DEF TypedAs, Controlled
    <3> QED BY <1>1, <1>2, <1>4, <1>5, <2>1, <3>1, TypeIsNext, Zenon DEF TypedAs
  <2>3. Shape'
    BY <1>1, <2>1 DEF Shape, Inv
  <2>4. SameRecords
    BY <1>1, <2>1 DEF SameRecords, Tailed
  <2>5. OnePer(recov.recs)'
    BY <1>1, Zenon DEF Inv, OnePer
  <2> QED BY <1>1, <1>2, <1>5, <2>2, <2>3, <2>4, <2>5, QuietInv
<1>6. CASE /\ log' = [log EXCEPT !.recs = Append(@, r), !.tail = tail]
           /\ count' = count + 1 /\ cur' = [cur EXCEPT !.wrote = @ \cup {kind}]
  <2>1. tail \in {"clean", "unended", "torn", "bad"}
    OBVIOUS
  <2>5. log' = Longer(log, r, tail)
    BY <1>6, Zenon DEF Longer
  <2> HIDE DEF r, tail
  <2>2. log' \in LogFile /\ log'.there = log.there /\ log'.recs = Append(log.recs, r)
    BY <1>3, <1>4, <2>1, <2>5, LineKept
  <2>3. Growth(r)
    BY <1>1, <1>3, <1>4, <2>2, LogGrown
  <2> QED BY <1>1, <1>3, <1>4, <1>6, <2>2, <2>3, WrittenStep DEF r
<1> QED BY <1>1, <1>5, <1>6
----------------------------------------------------------------------------
(* Rotation, removal and publication.                                      *)

LEMMA RotateStep == ASSUME Inv, Rotate PROVE Inv'
<1> DEFINE x == [recs |-> log.recs, raw |-> TRUE, gz |-> FALSE, known |-> Unknown,
                 bad |-> log.tail \in {"torn", "bad"}]
<1>1. /\ pc = "full" /\ segs' = Append(segs, x)
      /\ log' = [log EXCEPT !.there = FALSE, !.recs = <<>>, !.tail = "clean"]
      /\ pc' \in {"moved", "idle"} /\ handle' \in {"moved", "none"}
      /\ mishaps' = mishaps \/ (mishaps < MaxMishaps /\ mishaps' = mishaps + 1)
      /\ UNCHANGED <<diag, recov, who, todo, cur, opened, wanted, count, dcount>>
  BY DEF Rotate, Mishap
<1>2. TypedAs /\ todo \in Nat /\ Len(segs) \in Nat /\ todo <= Len(segs)
  BY TodoIs
<1>3. segs \in Seq(Segment) /\ log \in LogFile /\ log.there
  BY <1>1, <1>2 DEF TypedAs, Shape, Inv
<1>4. x \in Segment /\ x.recs = log.recs /\ log.recs \in Seq(Record)
  <2>1. Unknown \in Known
    BY DEF Unknown, Known
  <2>2. log.recs \in Seq(Record)
    BY <1>3, LogIs
  <2>3. (log.tail \in {"torn", "bad"}) \in BOOLEAN
    OBVIOUS
  <2> QED BY <2>1, <2>2, <2>3, Zenon DEF Segment
<1> HIDE DEF x
<1>5. /\ segs' \in Seq(Segment) /\ Len(segs') = Len(segs) + 1
      /\ Recs(segs') = Append(Recs(segs), log.recs)
      /\ FlattenSeq(Recs(segs')) = FlattenSeq(Recs(segs)) \o log.recs
  BY <1>1, <1>3, <1>4, SegmentAppended
<1>6. log' \in LogFile /\ ~log'.there /\ Tailed(log') = <<>> /\ Tailed(log) = log.recs
  <2>1. <<>> \in Seq(Record)
    OBVIOUS
  <2>2. log' \in LogFile /\ log'.there = FALSE
    BY <1>1, <1>3, <2>1 DEF LogFile
  <2> QED BY <1>3, <2>2 DEF Tailed
<1>7. JournalTypeOK'
  <2>1. Controlled'
    BY <1>1, <1>2, <1>5 DEF TypedAs, Controlled
  <2>2. mishaps' \in 0..MaxMishaps
    BY <1>1, <1>2, CapsAssumption DEF TypedAs
  <2> QED BY <1>1, <1>2, <1>5, <1>6, <2>1, <2>2, TypeIsNext, Zenon DEF TypedAs
<1>8. Shape'
  <2>1. segs' # <<>>
    BY <1>2, <1>5
  <2> QED BY <1>1, <1>2, <1>6, <2>1 DEF Shape, Inv
<1>9. OnePer(recov.recs)'
  BY <1>1, Zenon DEF Inv, OnePer
<1>10. Ended'
  <2>1. /\ JournalOf(segs, log) = FlattenSeq(Recs(segs)) \o log.recs
        /\ JournalOf(segs, log) \in Seq(Record)
        /\ JournalOf(segs', log') = FlattenSeq(Recs(segs')) \o <<>>
        /\ FlattenSeq(Recs(segs')) \in Seq(Record)
    BY <1>3, <1>5, <1>6, JournalIs
  <2>2. FlattenSeq(Recs(segs')) \o <<>> = FlattenSeq(Recs(segs'))
    BY <2>1, ConcatEmpty
  <2>3. JournalOf(segs', log') = JournalOf(segs, log)
    BY <1>5, <2>1, <2>2, Zenon
  <2> QED BY <1>1, <2>3, Zenon DEF Ended, Inv
<1>11. /\ Recs(segs) \in Seq(Seq(Record)) /\ Len(Recs(segs)) = Len(segs)
       /\ Recs(segs') \in Seq(Seq(Record)) /\ Len(Recs(segs')) = Len(segs) + 1
       /\ Recs(segs')[Len(segs) + 1] = log.recs
       /\ \A i \in 1..Len(segs) : Recs(segs')[i] = Recs(segs)[i]
  <2>1. Recs(segs) \in Seq(Seq(Record)) /\ Len(Recs(segs)) = Len(segs)
    BY <1>3, RecsIs
  <2>2. Recs(segs') \in Seq(Seq(Record)) /\ Len(Recs(segs')) = Len(segs')
    BY <1>5, RecsIs
  <2>3. /\ Append(Recs(segs), log.recs)[Len(Recs(segs)) + 1] = log.recs
        /\ \A i \in 1..Len(Recs(segs)) : Append(Recs(segs), log.recs)[i] = Recs(segs)[i]
    BY <1>4, <2>1, AppendIs
  <2> QED BY <1>5, <2>1, <2>2, <2>3
<1> DEFINE n == Len(segs)
<1>12. /\ n + 1 \in 1..(n + 1) /\ \A k \in Nat : k <= n => n + 1 > k
       /\ \A i : i \in 1..(n + 1) <=> i \in 1..n \/ i = n + 1
  BY <1>2
<1>13. \A r : r \notin Range(<<>>)
  BY DEF Range
<1> HIDE DEF n
<1>14. ASSUME NEW r, NEW k \in Nat, k <= n
       PROVE  SeenIn(Recs(segs'), Tailed(log'), Held(recov'), r, k) <=> Seen(r, k)
  <2>1. (\E i \in 1..(n + 1) : i > k /\ r \in Range(Recs(segs')[i]))
          <=> (\E i \in 1..n : i > k /\ r \in Range(Recs(segs)[i])) \/ r \in Range(log.recs)
    BY <1>11, <1>12, <1>14, Zenon DEF n
  <2> QED BY <1>1, <1>6, <1>11, <1>13, <2>1, Zenon DEF Seen, SeenIn, n
<1>15. NothingNew /\ NothingGone
  <2>1. 0 \in Nat /\ 0 <= n /\ todo <= n
    BY <1>2 DEF n
  <2> QED BY <1>1, <1>2, <1>14, <2>1, Zenon DEF NothingNew, NothingGone
<1>16. Uniform' /\ Evident'
  BY <1>1, <1>15, CarriedOver DEF Inv
<1> QED BY <1>7, <1>8, <1>9, <1>10, <1>16 DEF Inv

LEMMA DiscardStep == ASSUME Inv, Discard PROVE Inv'
<1>1. /\ pc = "remove" /\ todo > 0
      /\ \/ /\ segs' = [segs EXCEPT ![1].raw = FALSE, ![1].known = Unknown] /\ todo' = todo
         \/ segs' = Tail(segs) /\ todo' = todo - 1
      /\ UNCHANGED <<log, diag, recov, handle, pc, who, cur, opened, wanted, count, dcount, mishaps>>
  BY DEF Discard
<1>2. TypedAs /\ todo \in Nat /\ Len(segs) \in Nat /\ todo <= Len(segs)
  BY TodoIs
<1>3. /\ segs \in Seq(Segment) /\ log \in LogFile /\ segs # <<>> /\ handle = "none"
      /\ UNCHANGED <<log, recov>>
  BY <1>1, <1>2 DEF TypedAs, Shape, Inv
<1>4. OnePer(recov.recs)'
  BY <1>1, Zenon DEF Inv, OnePer
<1>5. CASE segs' = [segs EXCEPT ![1].raw = FALSE, ![1].known = Unknown] /\ todo' = todo
  <2>1. segs' \in Seq(Segment) /\ Len(segs') = Len(segs) /\ Recs(segs') = Recs(segs)
    <3> DEFINE k == 1
    <3>1. segs' = [segs EXCEPT ![k].raw = FALSE, ![k].known = Unknown]
      BY <1>5, Zenon
    <3> HIDE DEF k
    <3> QED BY <1>3, <3>1, SegmentChanged
  <2>2. JournalTypeOK'
    <3>1. Controlled'
      BY <1>1, <1>2, <1>5, <2>1 DEF TypedAs, Controlled
    <3> QED BY <1>1, <1>2, <2>1, <3>1, TypeIsNext, Zenon DEF TypedAs
  <2>3. Shape'
    BY <1>1, <1>3, <1>5 DEF Shape, Inv
  <2>4. SameRecords
    BY <1>1, <2>1 DEF SameRecords
  <2> QED BY <1>1, <1>2, <1>4, <1>5, <2>2, <2>3, <2>4, QuietInv
<1>6. CASE segs' = Tail(segs) /\ todo' = todo - 1
  <2>1. /\ segs' \in Seq(Segment) /\ Len(segs') = Len(segs) - 1 /\ segs[1].recs \in Seq(Record)
        /\ \A i \in 1..(Len(segs) - 1) : Recs(segs')[i] = Recs(segs)[i + 1]
        /\ FlattenSeq(Recs(segs)) = segs[1].recs \o FlattenSeq(Recs(segs'))
    BY <1>3, <1>6, OldestDropped, Zenon
  <2>2. JournalTypeOK'
    <3>1. Controlled'
      BY <1>1, <1>2, <1>6, <2>1 DEF TypedAs, Controlled
    <3> QED BY <1>1, <1>2, <2>1, <3>1, TypeIsNext, Zenon DEF TypedAs
  <2>3. Shape'
    BY <1>1, <1>2, <1>3 DEF Shape, Inv
  <2>4. Ended'
    <3>1. /\ JournalOf(segs, log) = FlattenSeq(Recs(segs)) \o Tailed(log)
          /\ JournalOf(segs', log') = FlattenSeq(Recs(segs')) \o Tailed(log)
          /\ FlattenSeq(Recs(segs')) \in Seq(Record) /\ Tailed(log) \in Seq(Record)
          /\ JournalOf(segs', log') \in Seq(Record)
      BY <1>3, <2>1, JournalIs, LogIs
    <3> DEFINE a == segs[1].recs
               b == FlattenSeq(Recs(segs'))
               c == Tailed(log)
    <3>2. a \in Seq(Record) /\ b \in Seq(Record) /\ c \in Seq(Record)
      BY <2>1, <3>1
    <3>3. JournalOf(segs, log) = (a \o b) \o c /\ JournalOf(segs', log') = b \o c
      BY <2>1, <3>1, Zenon
    <3> HIDE DEF a, b, c
    <3>4. (a \o b) \o c = a \o (b \o c)
      BY <3>2, ConcatAssoc
    <3>5. JournalOf(segs, log) = segs[1].recs \o JournalOf(segs', log')
      BY <3>3, <3>4, Zenon DEF a
    <3>6. EndsAt(segs[1].recs \o JournalOf(segs', log'), count)
      BY <3>5, Zenon DEF Ended, Inv
    <3>7. count \in Nat
      BY <1>2, CapsAssumption DEF TypedAs
    <3>8. EndsAt(JournalOf(segs', log'), count)
      BY <2>1, <3>1, <3>6, <3>7, EndsCut
    <3> QED BY <1>1, <3>8, Zenon DEF Ended
  <2>5. Len(Recs(segs)) = Len(segs) /\ Len(Recs(segs')) = Len(segs) - 1
    BY <1>3, <2>1, RecsIs
  <2>6. ASSUME NEW r, NEW k \in Nat, NEW i \in 1..Len(Recs(segs')), i > k, r \in Range(Recs(segs')[i])
        PROVE  \E j \in 1..Len(Recs(segs)) : j > k /\ r \in Range(Recs(segs)[j])
    <3>1. i + 1 \in 1..Len(Recs(segs)) /\ i + 1 > k /\ i \in 1..(Len(segs) - 1)
      BY <1>2, <2>5, <2>6
    <3>2. r \in Range(Recs(segs)[i + 1])
      BY <2>1, <2>6, <3>1
    <3> QED BY <3>1, <3>2
  <2>7. NothingNew
    BY <1>1, <2>6, Zenon DEF NothingNew, Seen, SeenIn
  <2>8. ASSUME NEW r, NEW i \in 1..Len(Recs(segs)), i > todo, r \in Range(Recs(segs)[i])
        PROVE  \E j \in 1..Len(Recs(segs')) : j > todo' /\ r \in Range(Recs(segs')[j])
    <3> DEFINE j == i - 1
    <3>1. j \in 1..Len(Recs(segs')) /\ j > todo' /\ j \in 1..(Len(segs) - 1) /\ j + 1 = i
      BY <1>1, <1>2, <1>6, <2>5, <2>8
    <3> HIDE DEF j
    <3>2. r \in Range(Recs(segs')[j])
      BY <2>1, <2>8, <3>1
    <3> QED BY <3>1, <3>2
  <2>9. NothingGone
    BY <1>1, <2>8, Zenon DEF NothingGone, Seen, SeenIn
  <2>10. Uniform' /\ Evident'
    BY <1>1, <2>7, <2>9, CarriedOver DEF Inv
  <2> QED BY <1>4, <2>2, <2>3, <2>4, <2>10 DEF Inv
<1> QED BY <1>1, <1>5, <1>6
LEMMA KeptIs == ASSUME Inv PROVE Expired \in 0..Len(segs)
<1>1. Len(segs) \in Nat
  BY TodoIs
<1>2. Kept \in 0..Len(segs)
  <2>1. Kept = 0 \/ Kept = Len(segs) \/ (~(Len(segs) <= 1) /\ (Kept = 1 \/ Kept = 2))
    BY Zenon DEF Kept
  <2> QED BY <1>1, <2>1
<1> QED BY <1>1, <1>2 DEF Expired

\* What maintenance reads is what is about to expire and the recovery file; what
\* is later is the rest.
ReadPart == FlattenSeq(Evidence \o SubSeq(Archived, 1, Expired))
LaterPart == FlattenSeq(SubSeq(Archived, Expired + 1, Len(segs)) \o Live)
LEMMA PartsAre ==
  ASSUME Inv
  PROVE  /\ ReadPart \in Seq(Record)
         /\ \A r : r \in Range(ReadPart) =>
              r \in Held(recov) \/ \E i \in 1..Len(segs) : r \in Range(Recs(segs)[i])
         /\ \A r \in Record : Seen(r, 0) => Seen(r, Expired) \/ r \in Range(ReadPart)
         /\ \A r \in Held(recov) : r \in Range(ReadPart)
         /\ \A r : r \in Range(LaterPart) =>
              r \in Record /\ SeenIn(Recs(segs), Tailed(log), {}, r, Expired)
         /\ \A r : SeenIn(Recs(segs), Tailed(log), {}, r, Expired) => r \in Range(LaterPart)
<1> DEFINE n == Len(segs)
           e == Expired
           R == Recs(segs)
           A == SubSeq(R, 1, e)
           B == SubSeq(R, e + 1, n)
<1>1. /\ segs \in Seq(Segment) /\ log \in LogFile
      /\ R \in Seq(Seq(Record)) /\ Len(R) = n /\ n \in Nat
      /\ Held(recov) \in SUBSET Record /\ recov.recs \in SUBSET Record
  BY TypedParts DEF Inv
<1>2. e \in Nat /\ e <= n
  BY <1>1, KeptIs
<1>3. Archived = R /\ Live = LiveOf(log)
  BY Zenon DEF Archived, Recs, Live, LiveOf
<1>4. LiveOf(log) \in Seq(Seq(Record)) /\ FlattenSeq(LiveOf(log)) = Tailed(log)
  BY <1>1, LiveIs
<1>5. Evidence \in Seq(Seq(Record)) /\ \A r : InOne(r, Evidence) <=> r \in Held(recov)
  <2>1. InOrder(recov.recs) \in Seq(Record) /\ Range(InOrder(recov.recs)) = recov.recs
    BY <1>1, InOrderIs DEF Inv
  <2>2. CASE recov.there
    <3>1. /\ Evidence = <<InOrder(recov.recs)>> /\ Held(recov) = recov.recs
          /\ Evidence \in Seq(Seq(Record)) /\ DOMAIN Evidence = {1}
          /\ Evidence[1] = InOrder(recov.recs)
      BY <2>1, <2>2 DEF Evidence, Held
    <3>2. \A r : InOne(r, Evidence) <=> r \in Range(Evidence[1])
      BY <3>1 DEF InOne
    <3> QED BY <2>1, <3>1, <3>2
  <2>3. CASE ~recov.there
    <3>1. /\ Evidence = <<>> /\ Held(recov) = {} /\ DOMAIN Evidence = {}
          /\ Evidence \in Seq(Seq(Record))
      BY <2>3 DEF Evidence, Held
    <3> QED BY <3>1, Zenon DEF InOne
  <2> QED BY <2>2, <2>3
<1> HIDE DEF n, e, R
<1>6. /\ A \in Seq(Seq(Record)) /\ DOMAIN A = 1..e /\ \A i \in 1..e : A[i] = R[i]
  BY <1>1, <1>2
<1>7. /\ B \in Seq(Seq(Record)) /\ DOMAIN B = 1..(n - e) /\ \A i \in 1..(n - e) : B[i] = R[e + i]
  BY <1>1, <1>2
<1> HIDE DEF A, B
<1>8. ReadPart = FlattenSeq(Evidence \o A) /\ LaterPart = FlattenSeq(B \o LiveOf(log))
  BY <1>3, Zenon DEF ReadPart, LaterPart, A, B, n, e
<1>9. /\ Evidence \o A \in Seq(Seq(Record))
      /\ FlattenSeq(Evidence \o A) = FlattenSeq(Evidence) \o FlattenSeq(A)
      /\ FlattenSeq(Evidence) \in Seq(Record) /\ FlattenSeq(A) \in Seq(Record)
  BY <1>5, <1>6, FlattenConcat, FlattenType, ConcatIs
<1>10. /\ FlattenSeq(B \o LiveOf(log)) = FlattenSeq(B) \o Tailed(log)
       /\ FlattenSeq(B) \in Seq(Record) /\ Tailed(log) \in Seq(Record)
  BY <1>1, <1>4, <1>7, FlattenConcat, FlattenType, LogIs
<1>11. \A r : r \in Range(ReadPart) <=> InOne(r, Evidence) \/ InOne(r, A)
  <2>1. Range(ReadPart) = Range(FlattenSeq(Evidence)) \cup Range(FlattenSeq(A))
    BY <1>8, <1>9, ConcatRange
  <2> QED BY <1>5, <1>6, <2>1, FlattenRange
<1>12. \A r : r \in Range(LaterPart) <=> InOne(r, B) \/ r \in Range(Tailed(log))
  <2>1. Range(LaterPart) = Range(FlattenSeq(B)) \cup Range(Tailed(log))
    BY <1>8, <1>10, ConcatRange
  <2> QED BY <1>7, <2>1, FlattenRange
<1>13. ReadPart \in Seq(Record)
  BY <1>8, <1>9, ConcatIs
<1>14. \A r : InOne(r, A) => \E i \in 1..n : r \in Range(R[i])
  <2>1. \A i \in 1..e : i \in 1..n
    BY <1>1, <1>2
  <2> QED BY <1>6, <2>1, Zenon DEF InOne
<1>15. \A r : (\E i \in 1..n : i > 0 /\ r \in Range(R[i])) =>
              InOne(r, A) \/ \E i \in 1..n : i > e /\ r \in Range(R[i])
  <2>1. \A i \in 1..n : i > e \/ i \in 1..e
    BY <1>1, <1>2
  <2> QED BY <1>6, <2>1, Zenon DEF InOne
<1>16. \A r : InOne(r, B) <=> \E i \in 1..n : i > e /\ r \in Range(R[i])
  <2>1. ASSUME NEW r, InOne(r, B) PROVE \E i \in 1..n : i > e /\ r \in Range(R[i])
    <3>1. PICK j \in 1..(n - e) : r \in Range(B[j])
      BY <1>7, <2>1 DEF InOne
    <3>2. e + j \in 1..n /\ e + j > e /\ r \in Range(R[e + j])
      BY <1>1, <1>2, <1>7, <3>1
    <3> QED BY <3>2
  <2>2. ASSUME NEW r, NEW i \in 1..n, i > e, r \in Range(R[i]) PROVE InOne(r, B)
    <3> DEFINE j == i - e
    <3>1. j \in 1..(n - e) /\ e + j = i
      BY <1>1, <1>2, <2>2
    <3> HIDE DEF j
    <3>2. B[j] = R[i]
      BY <1>7, <3>1
    <3> QED BY <1>7, <2>2, <3>1, <3>2, Zenon DEF InOne
  <2> QED BY <2>1, <2>2
<1>17. ASSUME NEW r \in Record, Seen(r, 0) PROVE Seen(r, Expired) \/ r \in Range(ReadPart)
  BY <1>1, <1>5, <1>11, <1>15, <1>17, Zenon DEF Seen, SeenIn, n, e, R
<1>18. ASSUME NEW r PROVE SeenIn(Recs(segs), Tailed(log), {}, r, Expired) <=> r \in Range(LaterPart)
  BY <1>1, <1>12, <1>16, Zenon DEF SeenIn, n, e, R
<1>19. ASSUME NEW r \in Range(LaterPart) PROVE r \in Record
  <2>1. LaterPart \in Seq(Record)
    BY <1>8, <1>10, ConcatIs
  <2> QED BY <2>1 DEF Range
<1>20. \A r : r \in Range(ReadPart) =>
              r \in Held(recov) \/ \E i \in 1..Len(segs) : r \in Range(Recs(segs)[i])
  BY <1>5, <1>11, <1>14, Zenon DEF n, R
<1>21. \A r \in Held(recov) : r \in Range(ReadPart)
  BY <1>5, <1>11, Zenon
<1> QED BY <1>13, <1>17, <1>18, <1>19, <1>20, <1>21
\* Publishing keeps, for who needs it, a record as good as each that expires.
LEMMA RetainedIs ==
  ASSUME Inv
  PROVE  /\ Retained \in SUBSET Record /\ OnePer(Retained)
         /\ \A k \in Retained : \E r \in Record : Seen(r, 0) /\ k = Cut(r)
         /\ \A r \in Record : Seen(r, 0) /\ r.op \in Protected =>
              \/ Seen(r, Expired) /\ r \notin Held(recov)
              \/ \E q \in Record, k \in Retained :
                    Seen(q, 0) /\ k = Cut(q) /\ Stands(k, r)
              \/ \E q \in Record : /\ SeenIn(Recs(segs), Tailed(log), {}, q, Expired)
                                   /\ q.op = r.op /\ Committed(q)
<1> DEFINE F == FoldLeft(Weigh, {}, ReadPart)
<1>1. /\ ReadPart \in Seq(Record)
      /\ \A r : r \in Range(ReadPart) =>
           r \in Held(recov) \/ \E i \in 1..Len(segs) : r \in Range(Recs(segs)[i])
      /\ \A r \in Record : Seen(r, 0) => Seen(r, Expired) \/ r \in Range(ReadPart)
      /\ \A r \in Held(recov) : r \in Range(ReadPart)
      /\ \A r : r \in Range(LaterPart) =>
           r \in Record /\ SeenIn(Recs(segs), Tailed(log), {}, r, Expired)
  BY PartsAre
<1>2. /\ \A k \in F : \E r \in Range(ReadPart) : k = Cut(r)
      /\ OnePer(F)
      /\ \A r \in Range(ReadPart) : r.op \in Protected => \E k \in F : Stands(k, r)
  BY <1>1, FoldKeeps
<1>3. Retained = {k \in F : \A r \in Range(LaterPart) : Committed(r) => r.op # k.op}
  BY Zenon DEF Retained, ReadPart, LaterPart
<1> HIDE DEF F
<1>4. Range(ReadPart) \subseteq Record
  BY <1>1 DEF Range
<1>5. ASSUME NEW r \in Range(ReadPart) PROVE Seen(r, 0)
  <2>1. Len(Recs(segs)) = Len(segs) /\ \A i \in 1..Len(segs) : i > 0
    BY TypedParts DEF Inv
  <2> QED BY <1>1, <2>1, Zenon DEF Seen, SeenIn
<1>6. ASSUME NEW k \in Retained PROVE \E r \in Record : Seen(r, 0) /\ k = Cut(r)
  BY <1>2, <1>3, <1>4, <1>5
<1>7. Retained \in SUBSET Record
  BY <1>6, CutIs
<1>8. OnePer(Retained)
  BY <1>2, <1>3 DEF OnePer
<1>9. ASSUME NEW r \in Record, Seen(r, 0), r.op \in Protected, r \in Range(ReadPart)
      PROVE  \/ \E q \in Record, k \in Retained : Seen(q, 0) /\ k = Cut(q) /\ Stands(k, r)
             \/ \E q \in Record : /\ SeenIn(Recs(segs), Tailed(log), {}, q, Expired)
                                  /\ q.op = r.op /\ Committed(q)
  <2>1. PICK k \in F : Stands(k, r)
    BY <1>2, <1>9
  <2>2. CASE k \in Retained
    BY <1>6, <2>1, <2>2
  <2>3. CASE k \notin Retained
    <3>1. PICK q \in Range(LaterPart) : Committed(q) /\ q.op = k.op
      BY <1>3, <2>3
    <3> QED BY <1>1, <2>1, <3>1 DEF Stands
  <2> QED BY <2>2, <2>3
<1>10. ASSUME NEW r \in Record, r \in Held(recov) PROVE r \in Range(ReadPart)
  BY <1>1, <1>10
<1>11. ASSUME NEW r \in Record, Seen(r, 0), r.op \in Protected,
              ~(Seen(r, Expired) /\ r \notin Held(recov))
       PROVE  r \in Range(ReadPart)
  BY <1>1, <1>10, <1>11
<1> QED BY <1>6, <1>7, <1>8, <1>9, <1>11, Zenon
Alike(q, r) == q.op = r.op /\ q.kind = r.kind /\ q.of = r.of

\* Two records of one operation that both say it was done say the same.
LEMMA SameKind ==
  ASSUME Uniform, NEW r \in Record, NEW q \in Record, Seen(r, 0), Seen(q, 0), q.op = r.op,
         r.kind = "renamed", Committed(q)
  PROVE  q.kind = "renamed"
<1>1. q.of = r.of /\ Proper(q) /\ Proper(r)
  BY DEF Uniform
<1> QED BY <1>1 DEF Proper, Committed

LEMMA PublishStep == ASSUME Inv, Publish PROVE Inv'
<1>1. /\ pc = "select"
      /\ UNCHANGED <<segs, log, diag, handle, who, cur, opened, wanted, count, dcount, mishaps>>
      /\ \/ pc' = "idle" /\ UNCHANGED <<recov, todo>>
         \/ /\ pc' = "remove" /\ todo' = Expired
            /\ \/ recov.there /\ recov.recs = Retained /\ UNCHANGED recov
               \/ recov' = [there |-> TRUE, known |-> Unknown, recs |-> Retained]
  BY DEF Publish, Go
<1>2. TypedAs /\ todo \in Nat /\ Len(segs) \in Nat
  BY TodoIs
<1>3. handle = "none" /\ todo = 0
  BY <1>1, <1>2 DEF Shape, Inv
<1>4. CASE pc' = "idle" /\ UNCHANGED <<recov, todo>>
  <2>1. JournalTypeOK'
    <3>1. Controlled'
      BY <1>1, <1>2, <1>4 DEF TypedAs, Controlled
    <3> QED BY <1>1, <1>2, <1>4, <3>1, TypeIsNext, Zenon DEF TypedAs
  <2>2. Shape'
    BY <1>1, <1>3, <1>4 DEF Shape, Inv
  <2>3. SameRecords
    BY <1>1, <1>4 DEF SameRecords
  <2>4. OnePer(recov.recs)'
    BY <1>4, Zenon DEF Inv, OnePer
  <2> QED BY <1>1, <1>2, <1>4, <2>1, <2>2, <2>3, <2>4, QuietInv
<1>5. CASE /\ pc' = "remove" /\ todo' = Expired
           /\ \/ recov.there /\ recov.recs = Retained /\ UNCHANGED recov
              \/ recov' = [there |-> TRUE, known |-> Unknown, recs |-> Retained]
  <2>1. /\ Retained \in SUBSET Record /\ OnePer(Retained)
        /\ \A k \in Retained : \E r \in Record : Seen(r, 0) /\ k = Cut(r)
        /\ \A r \in Record : Seen(r, 0) /\ r.op \in Protected =>
             \/ Seen(r, Expired) /\ r \notin Held(recov)
             \/ \E q \in Record, k \in Retained : Seen(q, 0) /\ k = Cut(q) /\ Stands(k, r)
             \/ \E q \in Record : /\ SeenIn(Recs(segs), Tailed(log), {}, q, Expired)
                                  /\ q.op = r.op /\ Committed(q)
    BY RetainedIs
  <2>2. Expired \in 0..Len(segs)
    BY KeptIs
  <2>3. recov' \in RecovFile /\ recov'.recs = Retained /\ Held(recov') = Retained
    <3>1. Unknown \in Known
      BY DEF Unknown, Known
    <3>2. CASE recov.there /\ recov.recs = Retained /\ UNCHANGED recov
      BY <1>2, <3>2 DEF Held, TypedAs
    <3>3. CASE recov' = [there |-> TRUE, known |-> Unknown, recs |-> Retained]
      BY <2>1, <3>1, <3>3 DEF Held, RecovFile
    <3> QED BY <1>5, <3>2, <3>3
  <2>4. JournalTypeOK'
    <3>1. Controlled'
      BY <1>1, <1>2, <1>5, <2>2 DEF TypedAs, Controlled
    <3> QED BY <1>1, <1>2, <2>3, <3>1, TypeIsNext, Zenon DEF TypedAs
  <2>5. Shape'
    BY <1>1, <1>3, <1>5 DEF Shape, Inv
  <2>6. OnePer(recov.recs)'
    BY <2>1, <2>3, Zenon DEF OnePer
  <2>7. Ended'
    BY <1>1, Zenon DEF Ended, Inv
  <2>8. \A r, k : Seen(r, k)' <=> SeenIn(Recs(segs), Tailed(log), {}, r, k) \/ r \in Retained
    BY <1>1, <2>3, Zenon DEF Seen, SeenIn
  <2>9. \A r, k : SeenIn(Recs(segs), Tailed(log), {}, r, k) \/ r \in Held(recov) <=> Seen(r, k)
    BY Zenon DEF Seen, SeenIn
  <2>10. \A r : SeenIn(Recs(segs), Tailed(log), {}, r, Expired) => Seen(r, 0)
    <3>1. Len(Recs(segs)) \in Nat /\ Expired \in Nat /\ 0 <= Expired
      BY <1>2, <2>2, TypedParts DEF Inv
    <3>2. \A r : SeenIn(Recs(segs), Tailed(log), {}, r, Expired)
                   => SeenIn(Recs(segs), Tailed(log), {}, r, 0)
      BY <3>1, SeenSooner
    <3> QED BY <2>9, <3>2, Zenon
  <2>11. ASSUME NEW r \in Record, Seen(r, 0)' PROVE \E q \in Record : Seen(q, 0) /\ Alike(q, r)
    <3>1. CASE r \in Retained
      BY <2>1, <3>1, CutIs DEF Alike
    <3>2. CASE r \notin Retained
      BY <2>8, <2>9, <2>11, <3>2 DEF Alike
    <3> QED BY <3>1, <3>2
  <2>12. ASSUME NEW q \in Record, NEW r \in Record, Proper(q), Alike(q, r) PROVE Proper(r)'
    BY <1>1, <2>12 DEF Proper, Alike, Journalled, Committed
  <2>13. Uniform'
    <3>1. \A r \in Record : Seen(r, 0)' => Proper(r)'
      BY <2>11, <2>12 DEF Uniform, Inv
    <3>2. ASSUME NEW r \in Record, NEW p \in Record, Seen(r, 0)', Seen(p, 0)', r.op = p.op
          PROVE  r.of = p.of
      <4>1. PICK q \in Record : Seen(q, 0) /\ Alike(q, r)
        BY <2>11, <3>2
      <4>2. PICK u \in Record : Seen(u, 0) /\ Alike(u, p)
        BY <2>11, <3>2
      <4> QED BY <3>2, <4>1, <4>2 DEF Alike, Uniform, Inv
    <3>3. cur'.n <= opened' /\ cur'.wrote \subseteq {"renamed", "reverted", "required"}
      BY <1>1 DEF Uniform, Inv
    <3> QED BY <3>1, <3>2, <3>3, Zenon DEF Uniform
  <2>14. \A r : SeenIn(Recs(segs), Tailed(log), {}, r, Expired) \/ r \in Retained => Seen(r, todo)'
    BY <1>5, <2>8, Zenon
  <2>15. \A r : Seen(r, Expired) /\ r \notin Held(recov) => Seen(r, todo)'
    BY <2>9, <2>14, Zenon
  <2>16. ASSUME NEW o \in wanted PROVE \E r \in Record : Seen(r, todo)' /\ r.op = o /\ r.kind = "renamed"
    <3>1. PICK r \in Record : Seen(r, 0) /\ r.op = o /\ r.kind = "renamed"
      BY <1>3 DEF Evident, Inv
    <3>2. r.op \in Protected /\ Committed(r) /\ Uniform
      BY <3>1 DEF Protected, Committed, Inv
    <3>3. CASE Seen(r, Expired) /\ r \notin Held(recov)
      BY <2>15, <3>1, <3>3
    <3>4. ASSUME NEW q \in Record, NEW k \in Retained, Seen(q, 0), k = Cut(q), Stands(k, r)
          PROVE  Seen(k, todo)' /\ k \in Record /\ k.op = o /\ k.kind = "renamed"
      <4>1. k.op = q.op /\ k.kind = q.kind /\ k \in Record
        BY <3>4, CutIs
      <4>2. q.op = r.op /\ Committed(q) /\ k.op = r.op
        BY <3>2, <3>4, <4>1 DEF Stands, Committed
      <4>3. q.kind = "renamed"
        BY <3>1, <3>2, <3>4, <4>2, SameKind
      <4> QED BY <2>14, <3>1, <3>4, <4>1, <4>2, <4>3
    <3>5. ASSUME NEW q \in Record, SeenIn(Recs(segs), Tailed(log), {}, q, Expired),
                 q.op = r.op, Committed(q)
          PROVE  Seen(q, todo)' /\ q.op = o /\ q.kind = "renamed"
      <4>1. Seen(q, 0)
        BY <2>10, <3>5
      <4>2. q.kind = "renamed"
        BY <3>1, <3>2, <3>5, <4>1, SameKind
      <4> QED BY <2>14, <3>1, <3>5, <4>2
    <3>6. \/ Seen(r, Expired) /\ r \notin Held(recov)
          \/ \E q \in Record, k \in Retained : Seen(q, 0) /\ k = Cut(q) /\ Stands(k, r)
          \/ \E q \in Record : /\ SeenIn(Recs(segs), Tailed(log), {}, q, Expired)
                               /\ q.op = r.op /\ Committed(q)
      BY <2>1, <3>1, <3>2
    <3> QED BY <3>3, <3>4, <3>5, <3>6
  <2>17. ASSUME NEW kind \in cur.wrote
         PROVE  \E r \in Record : Seen(r, todo)' /\ r.op = cur.n /\ (Committed(r) \/ r.kind = kind)
    <3>1. PICK r \in Record : Seen(r, 0) /\ r.op = cur.n /\ (Committed(r) \/ r.kind = kind)
      BY <1>3 DEF Evident, Inv
    <3>2. r.op \in Protected /\ Proper(r)
      BY <3>1 DEF Protected, Record, ops, Uniform, Inv
    <3>3. CASE Seen(r, Expired) /\ r \notin Held(recov)
      BY <2>15, <3>1, <3>3
    <3>4. ASSUME NEW q \in Record, NEW k \in Retained, Seen(q, 0), k = Cut(q), Stands(k, r)
          PROVE  Seen(k, todo)' /\ k \in Record /\ k.op = cur.n /\ (Committed(k) \/ k.kind = kind)
      <4>1. k.kind = q.kind /\ k \in Record /\ Proper(q)
        BY <3>4, CutIs DEF Uniform, Inv
      <4>2. k.op = r.op /\ (Committed(r) => Committed(k))
        BY <3>4 DEF Stands
      <4>3. Committed(k) \/ k.kind = kind
        BY <3>1, <3>2, <4>1, <4>2 DEF Proper, Journalled, Committed
      <4> QED BY <2>14, <3>1, <4>1, <4>2, <4>3
    <3>5. ASSUME NEW q \in Record, SeenIn(Recs(segs), Tailed(log), {}, q, Expired),
                 q.op = r.op, Committed(q)
          PROVE  Seen(q, todo)' /\ q.op = cur.n
      BY <2>14, <3>1, <3>5
    <3>6. \/ Seen(r, Expired) /\ r \notin Held(recov)
          \/ \E q \in Record, k \in Retained : Seen(q, 0) /\ k = Cut(q) /\ Stands(k, r)
          \/ \E q \in Record : /\ SeenIn(Recs(segs), Tailed(log), {}, q, Expired)
                               /\ q.op = r.op /\ Committed(q)
      BY <2>1, <3>1, <3>2
    <3> QED BY <3>3, <3>4, <3>5, <3>6
  <2>18. Evident'
    BY <1>1, <2>16, <2>17 DEF Evident, Committed
  <2> QED BY <2>4, <2>5, <2>6, <2>7, <2>13, <2>18 DEF Inv
<1> QED BY <1>1, <1>4, <1>5
----------------------------------------------------------------------------
(* The history cache is brought up to date: what it knows of the files is  *)
(* kept with them, and nothing else of them changes.                        *)

SourceFile == [known: Known, recs: Seq(Record)]

LEMMA SourcesIs ==
  ASSUME Inv
  PROVE  /\ Len(Sources) \in Nat /\ AtErrors \in Nat /\ AtSegments \in Nat
         /\ Cardinality(recov.recs) \in Nat
<1>1. diag \in DiagFile /\ recov \in RecovFile /\ segs \in Seq(Segment) /\ log \in LogFile
  BY TodoIs DEF TypedAs
<1>2. Cardinality(recov.recs) \in Nat
  <2>1. recov.recs \in SUBSET Record
    BY <1>1 DEF RecovFile
  <2>2. Sortable(recov.recs)
    BY <2>1, AllSortable DEF Inv
  <2> QED BY <2>2 DEF Sortable
<1>3. AtErrors \in Nat /\ AtSegments \in Nat
  BY DEF AtErrors, AtSegments
<1>4. ASSUME NEW k \in Known, NEW s \in Seq(Record) PROVE File(k, s) \in SourceFile
  BY DEF File, SourceFile
<1> DEFINE a == IF HasBackup THEN <<File(diag.backKnown, diag.back)>> ELSE <<>>
           b == <<File(diag.known, diag.recs)>>
           c == IF recov.there THEN <<File(recov.known, InOrder(recov.recs))>> ELSE <<>>
           d == [i \in DOMAIN segs |-> File(segs[i].known, segs[i].recs)]
           e == IF log.there THEN <<File(log.known, log.recs)>> ELSE <<>>
<1>5. /\ File(diag.backKnown, diag.back) \in SourceFile /\ File(diag.known, diag.recs) \in SourceFile
  BY <1>1, <1>4 DEF DiagFile
<1>6. File(recov.known, InOrder(recov.recs)) \in SourceFile
  <2>1. recov.recs \in SUBSET Record /\ recov.known \in Known
    BY <1>1 DEF RecovFile
  <2>2. InOrder(recov.recs) \in Seq(Record)
    BY <2>1, InOrderIs DEF Inv
  <2> QED BY <1>4, <2>1, <2>2
<1>7. File(log.known, log.recs) \in SourceFile
  BY <1>1, <1>4, LogIs
<1>8. a \in Seq(SourceFile)
  <2>1. CASE HasBackup
    BY <1>5, <2>1
  <2>2. CASE ~HasBackup
    BY <2>2
  <2> QED BY <2>1, <2>2
<1>9. b \in Seq(SourceFile)
  BY <1>5
<1>10. c \in Seq(SourceFile)
  <2>1. CASE recov.there
    BY <1>6, <2>1
  <2>2. CASE ~recov.there
    BY <2>2
  <2> QED BY <2>1, <2>2
<1>11. d \in Seq(SourceFile)
  <2>1. Len(segs) \in Nat /\ DOMAIN segs = 1..Len(segs)
    BY <1>1
  <2>2. \A i \in 1..Len(segs) : File(segs[i].known, segs[i].recs) \in SourceFile
    <3> SUFFICES ASSUME NEW i \in 1..Len(segs) PROVE File(segs[i].known, segs[i].recs) \in SourceFile
      OBVIOUS
    <3>1. segs[i] \in Segment
      BY <1>1, <2>1
    <3> QED BY <1>4, <3>1, SegmentIs
  <2>3. d \in [1..Len(segs) -> SourceFile]
    BY <2>1, <2>2, Zenon
  <2> HIDE DEF d
  <2> QED BY <2>1, <2>3
<1>12. e \in Seq(SourceFile)
  <2>1. CASE log.there
    BY <1>7, <2>1
  <2>2. CASE ~log.there
    BY <2>2
  <2> QED BY <2>1, <2>2
<1>13. Sources = a \o b \o c \o d \o e
  BY Zenon DEF Sources
<1> HIDE DEF a, b, c, d, e
<1>14. Sources \in Seq(SourceFile)
  BY <1>8, <1>9, <1>10, <1>11, <1>12, <1>13
<1>15. Len(Sources) \in Nat
  BY <1>14
<1> QED BY <1>2, <1>3, <1>15

LEMMA RefreshStep == ASSUME Inv, Refresh PROVE Inv'
<1>1. /\ handle = "none" /\ pc = "idle"
      /\ UNCHANGED <<handle, pc, who, todo, cur, opened, wanted, count, dcount, mishaps>>
  BY DEF Refresh, control
<1> DEFINE K(i, recs) == [at |-> i, size |-> Len(recs)]
<1>2. /\ diag' = [diag EXCEPT !.known = K(AtErrors, diag.recs),
                              !.backKnown = IF HasBackup THEN K(1, diag.back) ELSE Unknown]
      /\ recov' = [recov EXCEPT !.known =
                     IF recov.there THEN [at |-> AtSegments, size |-> Cardinality(recov.recs)] ELSE Unknown]
      /\ segs' = [i \in DOMAIN segs |-> [segs[i] EXCEPT !.known = K(AtSegments + i, segs[i].recs)]]
      /\ log' = [log EXCEPT !.known = IF log.there THEN K(Len(Sources), log.recs) ELSE Unknown]
  BY Zenon DEF Refresh
<1>3. TypedAs /\ todo \in Nat /\ Len(segs) \in Nat
  BY TodoIs
<1>4. diag \in DiagFile /\ recov \in RecovFile /\ segs \in Seq(Segment) /\ log \in LogFile
  BY <1>3 DEF TypedAs
<1>5. /\ Len(Sources) \in Nat /\ AtErrors \in Nat /\ AtSegments \in Nat
      /\ Cardinality(recov.recs) \in Nat
  BY SourcesIs
<1>6. Unknown \in Known
  BY DEF Unknown, Known
<1>7. ASSUME NEW i \in Nat, NEW s \in Seq(Record) PROVE K(i, s) \in Known
  BY DEF Known
<1> HIDE DEF K
<1>8. diag' \in DiagFile
  <2>1. diag.recs \in Seq(Record) /\ diag.back \in Seq(Record)
    BY <1>4 DEF DiagFile
  <2> DEFINE x == K(AtErrors, diag.recs)
             y == IF HasBackup THEN K(1, diag.back) ELSE Unknown
  <2>2. x \in Known /\ y \in Known
    BY <1>5, <1>6, <1>7, <2>1
  <2>3. diag' = [diag EXCEPT !.known = x, !.backKnown = y]
    BY <1>2, Zenon
  <2> HIDE DEF x, y
  <2> QED BY <1>4, <2>2, <2>3 DEF DiagFile
<1>9. recov' \in RecovFile /\ recov'.recs = recov.recs /\ recov'.there = recov.there
  <2> DEFINE x == IF recov.there THEN [at |-> AtSegments, size |-> Cardinality(recov.recs)] ELSE Unknown
  <2>1. x \in Known
    BY <1>5, <1>6 DEF Known
  <2>2. recov' = [recov EXCEPT !.known = x]
    BY <1>2, Zenon
  <2> HIDE DEF x
  <2> QED BY <1>4, <2>1, <2>2 DEF RecovFile
<1>10. log' \in LogFile /\ log'.recs = log.recs /\ log'.there = log.there
  <2>1. log.recs \in Seq(Record)
    BY <1>4, LogIs
  <2> DEFINE x == IF log.there THEN K(Len(Sources), log.recs) ELSE Unknown
  <2>2. x \in Known
    BY <1>5, <1>6, <1>7, <2>1
  <2>3. log' = [log EXCEPT !.known = x]
    BY <1>2, Zenon
  <2> HIDE DEF x
  <2> QED BY <1>4, <2>2, <2>3 DEF LogFile
<1>11. segs' \in Seq(Segment) /\ Len(segs') = Len(segs) /\ Recs(segs') = Recs(segs)
  <2>1. DOMAIN segs = 1..Len(segs) /\ \A i \in 1..Len(segs) : segs[i] \in Segment
    BY <1>4
  <2>2. segs' = [i \in 1..Len(segs) |-> [segs[i] EXCEPT !.known = K(AtSegments + i, segs[i].recs)]]
    BY <1>2, <2>1, Zenon
  <2>3. \A i \in 1..Len(segs) : segs'[i] \in Segment /\ segs'[i].recs = segs[i].recs
    <3> SUFFICES ASSUME NEW i \in 1..Len(segs)
                 PROVE  segs'[i] \in Segment /\ segs'[i].recs = segs[i].recs
      OBVIOUS
    <3> DEFINE x == K(AtSegments + i, segs[i].recs)
               s == segs[i]
    <3>1. s \in Segment /\ s.recs \in Seq(Record) /\ AtSegments + i \in Nat
      BY <1>5, <2>1, SegmentIs
    <3>2. x \in Known
      BY <1>7, <3>1
    <3>3. segs'[i] = [s EXCEPT !.known = x]
      BY <2>2, Zenon
    <3> HIDE DEF x, s
    <3>4. [s EXCEPT !.known = x] \in Segment /\ [s EXCEPT !.known = x].recs = s.recs
      BY <3>1, <3>2 DEF Segment
    <3> QED BY <3>3, <3>4 DEF s
  <2>4. segs' \in [1..Len(segs) -> Segment]
    BY <2>2, <2>3, Zenon
  <2>5. segs' \in Seq(Segment) /\ Len(segs') = Len(segs)
    BY <1>3, <2>4
  <2>6. DOMAIN segs' = DOMAIN segs
    BY <2>1, <2>2, Zenon
  <2>7. Recs(segs') = Recs(segs)
    BY <2>1, <2>3, <2>6, Zenon DEF Recs
  <2> QED BY <2>5, <2>7
<1>12. JournalTypeOK'
  <2>1. Controlled'
    BY <1>1, <1>3, <1>11 DEF TypedAs, Controlled
  <2> QED BY <1>1, <1>3, <1>8, <1>9, <1>10, <1>11, <2>1, TypeIsNext, Zenon DEF TypedAs
<1>13. Shape'
  BY <1>1, <1>3 DEF Shape, Inv
<1>14. SameRecords
  <2>1. Tailed(log') = Tailed(log) /\ Held(recov') = Held(recov)
    BY <1>9, <1>10, Zenon DEF Tailed, Held
  <2> QED BY <1>11, <2>1 DEF SameRecords
<1>15. OnePer(recov.recs)'
  BY <1>9, Zenon DEF Inv, OnePer
<1> QED BY <1>1, <1>3, <1>12, <1>13, <1>14, <1>15, QuietInv
----------------------------------------------------------------------------
(* The invariant holds of every behaviour, and what it means.              *)

LEMMA InitInv == ASSUME HistoryInit PROVE Inv
<1>1. /\ segs = <<>> /\ log = FreshLog
      /\ diag = [known |-> Unknown, recs |-> <<>>, back |-> <<>>, backKnown |-> Unknown]
      /\ recov = [there |-> FALSE, known |-> Unknown, recs |-> {}]
      /\ handle = "none" /\ pc = "idle" /\ who = "emit" /\ todo = 0
      /\ cur = NoOp /\ opened = 0 /\ wanted = {}
      /\ count = 0 /\ dcount = 0 /\ mishaps = 0
  BY DEF HistoryInit, JournalInit
<1>2. MaxOps \in Nat /\ MaxRecs \in Nat /\ MaxMishaps \in Nat
  BY CapsAssumption
<1>3. Unknown \in Known /\ <<>> \in Seq(Record) /\ <<>> \in Seq(Segment) /\ Len(<<>>) = 0
  BY DEF Unknown, Known
<1>4. log \in LogFile /\ log.there /\ Tailed(log) = <<>>
  BY <1>1, FreshLogIs
<1>5. diag \in DiagFile
  <2>1. [known |-> Unknown, recs |-> <<>>, back |-> <<>>, backKnown |-> Unknown] \in DiagFile
    BY <1>3, Zenon DEF DiagFile
  <2> QED BY <1>1, <2>1
<1>6. recov \in RecovFile /\ recov.recs = {} /\ Held(recov) = {}
  <2>1. [there |-> FALSE, known |-> Unknown, recs |-> {}] \in RecovFile
    BY <1>3 DEF RecovFile
  <2> QED BY <1>1, <2>1 DEF Held
<1>7. cur \in Pending /\ cur.n = 0 /\ cur.wrote = {}
  BY <1>1, <1>2 DEF Pending, NoOp
<1>8. JournalTypeOK
  <2>1. Controlled
    BY <1>1, <1>3 DEF Controlled
  <2>2. opened \in 0..MaxOps /\ wanted \subseteq ops
    BY <1>1, <1>2
  <2>3. count \in 0..MaxRecs /\ dcount \in 0..MaxRecs /\ mishaps \in 0..MaxMishaps
    BY <1>1, <1>2
  <2>4. segs \in Seq(Segment)
    BY <1>1, <1>3
  <2> QED BY <1>4, <1>5, <1>6, <1>7, <2>1, <2>2, <2>3, <2>4, TypeIs, Zenon DEF TypedAs
<1>9. Recs(segs) = <<>>
  BY <1>1 DEF Recs
<1>10. JournalOf(segs, log) = <<>>
  <2>1. segs \in Seq(Segment)
    BY <1>1, <1>3
  <2>2. JournalOf(segs, log) = FlattenSeq(<<>>) \o <<>>
    BY <1>4, <1>9, <2>1, JournalIs
  <2>3. JournalOf(segs, log) = <<>> \o <<>>
    BY <2>2, FlattenEmpty, Zenon
  <2>4. <<>> \o <<>> = <<>>
    BY <1>3, ConcatEmpty
  <2> QED BY <2>3, <2>4, Zenon
<1>11. Ended
  BY <1>10 DEF Ended, EndsAt
<1>12. \A r, k : ~Seen(r, k)
  <2>1. Len(Recs(segs)) = 0 /\ Range(Tailed(log)) = {}
    BY <1>3, <1>4, <1>9 DEF Range
  <2>2. 1..0 = {}
    OBVIOUS
  <2> QED BY <1>6, <2>1, <2>2, Zenon DEF Seen, SeenIn
<1>13. Uniform
  BY <1>1, <1>7, <1>12 DEF Uniform
<1>14. Evident
  BY <1>1, <1>7 DEF Evident
<1>15. Shape
  BY <1>1 DEF Shape
<1>16. OnePer(recov.recs)
  BY <1>6 DEF OnePer
<1> QED BY <1>8, <1>11, <1>13, <1>14, <1>15, <1>16 DEF Inv

LEMMA UnchangedStep == ASSUME Inv, UNCHANGED historyVars PROVE Inv'
<1>1. UNCHANGED <<segs, log, diag, recov, handle, pc, who, todo, cur, opened, wanted, count, dcount, mishaps>>
  BY DEF historyVars, journalVars, files, control
<1>2. TypedAs /\ todo \in Nat
  BY TodoIs
<1>3. JournalTypeOK'
  BY <1>1, <1>2, TypeIsNext, Zenon DEF TypedAs, Controlled
<1>4. Shape'
  BY <1>1 DEF Shape, Inv
<1>5. SameRecords
  BY <1>1 DEF SameRecords
<1>6. OnePer(recov.recs)'
  BY <1>1, Zenon DEF Inv, OnePer
<1> QED BY <1>1, <1>2, <1>3, <1>4, <1>5, <1>6, QuietInv

LEMMA NextInv == ASSUME Inv, HistoryNext PROVE Inv'
<1>1. CASE Refresh
  BY <1>1, RefreshStep
<1>2. CASE JournalNext
  <2>1. ASSUME NEW of \in 0..MaxOps, Begin(of) PROVE Inv'
    BY <2>1, BeginStep
  <2>2. ASSUME NEW o \in ops, Want(o) \/ Answered(o) PROVE Inv'
    BY <2>2, WantedStep
  <2>3. CASE Settle
    BY <2>3, SettleStep
  <2>4. CASE OpenJournal
    BY <2>4, OpenJournalStep
  <2>5. ASSUME NEW kind \in {"renamed", "reverted", "required"}, Emit(kind) \/ EmitFails(kind)
        PROVE  Inv'
    BY <2>5, EmitStep, EmitFailsStep
  <2>6. ASSUME NEW kind \in {"failed", "settled"}, Diagnose(kind) PROVE Inv'
    BY <2>6, DiagnoseStep
  <2>7. CASE Rotate
    BY <2>7, RotateStep
  <2>8. CASE Compress \/ DropRaw
    BY <2>8, SegmentStep
  <2>9. CASE Reopen
    BY <2>9, ReopenStep
  <2>10. CASE Publish
    BY <2>10, PublishStep
  <2>11. CASE Discard
    BY <2>11, DiscardStep
  <2>12. CASE Clear
    BY <2>12, ClearStep
  <2>13. CASE CloseJournal \/ Maintain \/ Crash
    BY <2>13, ControlStep
  <2> QED BY <1>2, <2>1, <2>2, <2>3, <2>4, <2>5, <2>6, <2>7, <2>8, <2>9, <2>10, <2>11, <2>12, <2>13
          DEF JournalNext
<1> QED BY <1>1, <1>2 DEF HistoryNext

\* The whole invariant, of every behaviour: the files have their types and their places
\* between two changes (Shape: rotate and maintain_archives), the journal that can be
\* read ends at the last record emitted (Ended), the records of an operation agree
\* with one another and with the pending record (Uniform: what emit is given), and
\* the evidence that is needed is outside what is about to be removed (Evident).
THEOREM HistoryInvHolds == HistorySpec => []Inv
<1>1. HistoryInit => Inv
  BY InitInv
<1>2. Inv /\ [HistoryNext]_historyVars => Inv'
  BY NextInv, UnchangedStep
<1> QED BY <1>1, <1>2, PTL DEF HistorySpec

\* What can be read of the journal is the whole end of what was emitted, in order and
\* each record once, wherever emit, rotate, the compression or maintain_archives was
\* interrupted or failed.
THEOREM SuffixIsKept == HistorySpec => []SuffixKept
<1>1. Inv => SuffixKept
  <2> SUFFICES ASSUME Inv PROVE SuffixKept
    OBVIOUS
  <2>1. Journal = JournalOf(segs, log)
    BY TypedParts DEF Inv
  <2> QED BY <2>1, Zenon DEF SuffixKept, Inv, Ended, EndsAt
<1> QED BY <1>1, HistoryInvHolds, PTL

\* maintain_archives removes no record somebody still needs: at every moment the rename
\* that a queued request is about can be read, and of the operation whose pending
\* record is on disk each kind of record it has, or its success.
THEOREM EvidenceIsKept == HistorySpec => []EvidenceKept
<1>1. Inv => EvidenceKept
  <2> SUFFICES ASSUME Inv PROVE EvidenceKept
    OBVIOUS
  <2>1. JournalTypeOK /\ todo \in Nat /\ Len(Recs(segs)) \in Nat
    BY TodoIs, TypedParts DEF Inv
  <2>2. ASSUME NEW r \in Record, Seen(r, todo) PROVE r \in Visible
    <3>1. Seen(r, 0)
      <4>1. 0 \in Nat /\ 0 <= todo
        BY <2>1
      <4> QED BY <2>1, <2>2, <4>1, SeenSooner DEF Seen
    <3> QED BY <2>1, <3>1, VisibleIs
  <2>3. \A o \in wanted : \E r \in Record : Seen(r, todo) /\ r.op = o /\ r.kind = "renamed"
    BY DEF Inv, Evident
  <2>4. \A o \in wanted : Renamed(o)
    BY <2>2, <2>3, Zenon DEF Renamed
  <2>5. \A kind \in cur.wrote :
          \E r \in Record : Seen(r, todo) /\ r.op = cur.n /\ (Committed(r) \/ r.kind = kind)
    BY DEF Inv, Evident
  <2>6. \A kind \in cur.wrote : \E r \in Visible : r.op = cur.n /\ (Committed(r) \/ r.kind = kind)
    BY <2>2, <2>5, Zenon
  <2> QED BY <2>4, <2>6 DEF EvidenceKept
<1> QED BY <1>1, HistoryInvHolds, PTL
=============================================================================
