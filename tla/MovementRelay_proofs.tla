------------------------ MODULE MovementRelay_proofs ------------------------
(***************************************************************************)
(* What the relay of movement promises, for any number of players and      *)
(* maps, any numbers, ids, queues and packets, and clients that report     *)
(* whatever they like.                                                     *)
(*                                                                         *)
(* The invariant RelayInv has a part for every step of an action's way:    *)
(* what a player did is numbered upwards to its last number (MadeInv) and  *)
(* leaves it in its last jump or landed from all of them (JumpsInv); a     *)
(* queue holds actions of players of the same map, within its limit        *)
(* (QueueInv); and who is not being closed has heard of every player of    *)
(* its map up to some number, with exactly the later actions in its queue  *)
(* (ViewInv).  What a batch does (Outcome) and what stays of a queue       *)
(* (Keep) are recursive: their lemmas come by induction over sets.         *)
(***************************************************************************)
EXTENDS MovementRelay, SequenceTheorems, WellFoundedInduction, TLAPS

-----------------------------------------------------------------------------
(* Recursive functions.  The principles of induction of the library are       *)
(* about predicates; here they are stated about sets.                         *)

LEMMA Least ==
  ASSUME NEW T \in SUBSET Nat, T # {}
  PROVE  \E n \in T : \A m \in T : n <= m
<1>1. IsWellFoundedOn(OpToRel(<, Nat), Nat)
  BY NatLessThanWellFounded
<1>2. PICK n \in T : \A m \in T : ~(<<m, n>> \in OpToRel(<, Nat))
  BY <1>1, WFMin
<1>3. \A m \in T : ~(m < n)
  BY <1>2 DEF OpToRel
<1> QED BY <1>3

LEMMA Induction ==
  ASSUME NEW G \in SUBSET Nat, 0 \in G, \A n \in G : n + 1 \in G
  PROVE  G = Nat
<1>1. SUFFICES ASSUME Nat \ G # {} PROVE FALSE
  OBVIOUS
<1>2. PICK n \in Nat \ G : \A m \in Nat \ G : n <= m
  BY <1>1, Least
<1>3. n # 0 /\ n - 1 \in Nat /\ n - 1 \in G
  BY <1>2
<1> QED BY <1>2, <1>3

\* A function on 0..L with this first value and these steps.
Iterates(f, L, S, b, step) ==
  f \in [0..L -> S] /\ f[0] = b /\ \A n \in 1..L : f[n] = step[n][f[n - 1]]

LEMMA Recursion ==
  ASSUME NEW L \in Nat, NEW S, NEW b \in S, NEW step, \A n \in 1..L : step[n] \in [S -> S]
  PROVE  \E f : Iterates(f, L, S, b, step)
<1> DEFINE G == {k \in Nat : k <= L => \E f : Iterates(f, k, S, b, step)}
<1>1. 0 \in G
  <2>1. Iterates([n \in 0..0 |-> b], 0, S, b, step)
    BY DEF Iterates
  <2> QED BY <2>1
<1>2. ASSUME NEW k \in G PROVE k + 1 \in G
  <2> SUFFICES ASSUME k + 1 <= L PROVE \E f : Iterates(f, k + 1, S, b, step)
    OBVIOUS
  <2>1. PICK f : Iterates(f, k, S, b, step)
    BY <1>2
  <2> DEFINE v == step[k + 1][f[k]]
             h == [n \in 0..(k + 1) |-> IF n <= k THEN f[n] ELSE v]
  <2>2. v \in S
    BY <1>2, <2>1 DEF Iterates
  <2>3. h \in [0..(k + 1) -> S] /\ h[0] = b
    BY <1>2, <2>1, <2>2 DEF Iterates
  <2>4. ASSUME NEW n \in 1..(k + 1) PROVE h[n] = step[n][h[n - 1]]
    <3>1. CASE n <= k
      <4>1. h[n] = f[n] /\ h[n - 1] = f[n - 1]
        BY <1>2, <2>4, <3>1
      <4> QED BY <2>1, <2>4, <3>1, <4>1 DEF Iterates
    <3>2. CASE n = k + 1
      <4>1. h[n] = v /\ h[n - 1] = f[k]
        BY <1>2, <3>2
      <4> QED BY <3>2, <4>1
    <3> QED BY <1>2, <2>4, <3>1, <3>2
  <2> HIDE DEF h
  <2>5. Iterates(h, k + 1, S, b, step)
    BY <2>3, <2>4 DEF Iterates
  <2> QED BY <2>5
<1>3. L \in G
  BY <1>1, <1>2, Induction
<1> QED BY <1>3

\* Two functions that begin alike and go on alike.
GoAlike(f, g, m) == f[0] = g[0] /\ \A n \in 1..m : f[n - 1] = g[n - 1] => f[n] = g[n]

LEMMA SameRecursion ==
  ASSUME NEW m \in Nat, NEW f, NEW g, GoAlike(f, g, m)
  PROVE  \A n \in 0..m : f[n] = g[n]
<1> DEFINE G == {k \in Nat : k <= m => f[k] = g[k]}
<1>1. 0 \in G
  BY DEF GoAlike
<1>2. ASSUME NEW k \in G PROVE k + 1 \in G
  <2> SUFFICES ASSUME k + 1 <= m PROVE f[k + 1] = g[k + 1]
    OBVIOUS
  <2>1. k + 1 \in 1..m /\ (k + 1) - 1 = k /\ f[k] = g[k]
    BY <1>2
  <2> QED BY <2>1 DEF GoAlike
<1>3. G = Nat
  BY <1>1, <1>2, Induction
<1>4. \A n \in 0..m : n \in G
  BY <1>3
<1> QED BY <1>4

-----------------------------------------------------------------------------
(* Sequences, and what Keep keeps of one.                                     *)

\* What holds of the empty sequence and survives Append holds of all.
LEMMA SeqInduction ==
  ASSUME NEW S, NEW G \in SUBSET Seq(S), <<>> \in G,
         \A q \in G, x \in S : Append(q, x) \in G
  PROVE  G = Seq(S)
<1> DEFINE N == {n \in Nat : \A q \in Seq(S) : Len(q) = n => q \in G}
<1>1. 0 \in N
  <2>1. \A q \in Seq(S) : Len(q) = 0 => q = <<>>
    OBVIOUS
  <2> QED BY <2>1
<1>2. ASSUME NEW n \in N PROVE n + 1 \in N
  <2> SUFFICES ASSUME NEW q \in Seq(S), Len(q) = n + 1 PROVE q \in G
    OBVIOUS
  <2>1. q # <<>>
    OBVIOUS
  <2>2. PICK r \in Seq(S), x \in S : q = Append(r, x)
    BY <2>1, SequenceEmptyOrAppend
  <2>3. Len(r) = n
    BY <2>2
  <2> QED BY <1>2, <2>2, <2>3
<1>3. N = Nat
  BY <1>1, <1>2, Induction
<1>4. \A q \in Seq(S) : Len(q) \in N
  BY <1>3
<1> QED BY <1>4

Keeping(q, T, S) ==
  [n \in 1..Len(q) |-> [k \in Seq(S) |-> IF q[n] \in T THEN Append(k, q[n]) ELSE k]]

LEMMA KeepIs ==
  ASSUME NEW S, NEW T, NEW q \in Seq(S), NEW f,
         Iterates(f, Len(q), Seq(S), <<>>, Keeping(q, T, S))
  PROVE  Keep(q, T) = f[Len(q)]
<1> DEFINE Fits(g) == g = [n \in 0..Len(q) |->
             IF n = 0 THEN <<>>
             ELSE IF q[n] \in T THEN Append(g[n - 1], q[n]) ELSE g[n - 1]]
           g1 == CHOOSE g : Fits(g)
<1>0. /\ Len(q) \in Nat /\ f \in [0..Len(q) -> Seq(S)]
      /\ f[0] = <<>>
      /\ \A n \in 1..Len(q) : f[n] = IF q[n] \in T THEN Append(f[n - 1], q[n]) ELSE f[n - 1]
  <2>1. Len(q) \in Nat /\ \A n \in 1..Len(q) : n - 1 \in 0..Len(q)
    OBVIOUS
  <2>2. f \in [0..Len(q) -> Seq(S)] /\ f[0] = <<>>
        /\ \A n \in 1..Len(q) : f[n] = Keeping(q, T, S)[n][f[n - 1]]
    BY DEF Iterates
  <2>3. \A n \in 1..Len(q) : f[n - 1] \in Seq(S)
    BY <2>1, <2>2
  <2> QED BY <2>1, <2>2, <2>3 DEF Keeping
<1>1. Keep(q, T) = g1[Len(q)]
  BY DEF Keep
<1>2. Fits(f)
  <2>1. ASSUME NEW n \in 0..Len(q)
        PROVE  f[n] = IF n = 0 THEN <<>>
                      ELSE IF q[n] \in T THEN Append(f[n - 1], q[n]) ELSE f[n - 1]
    <3>1. CASE n = 0
      BY <1>0, <3>1
    <3>2. CASE n # 0
      <4>1. n \in 1..Len(q)
        BY <1>0, <3>2
      <4> QED BY <1>0, <3>2, <4>1
    <3> QED BY <3>1, <3>2
  <2> QED BY <1>0, <2>1
<1>3. Fits(g1)
  BY <1>2
<1> HIDE DEF g1
<1>4. \A n \in 0..Len(q) : g1[n] = IF n = 0 THEN <<>>
             ELSE IF q[n] \in T THEN Append(g1[n - 1], q[n]) ELSE g1[n - 1]
  BY <1>3
<1>5. GoAlike(f, g1, Len(q))
  BY <1>0, <1>4 DEF GoAlike
<1>6. \A n \in 0..Len(q) : f[n] = g1[n]
  BY <1>0, <1>5, SameRecursion
<1> QED BY <1>0, <1>1, <1>6

LEMMA KeepBuilds ==
  ASSUME NEW S, NEW T, NEW q \in Seq(S)
  PROVE  \E f : Iterates(f, Len(q), Seq(S), <<>>, Keeping(q, T, S))
<1>1. /\ Len(q) \in Nat /\ <<>> \in Seq(S)
      /\ \A n \in 1..Len(q) : q[n] \in S
  OBVIOUS
<1>2. \A k \in Seq(S), x \in S : Append(k, x) \in Seq(S)
  OBVIOUS
<1>3. \A n \in 1..Len(q) : Keeping(q, T, S)[n] \in [Seq(S) -> Seq(S)]
  BY <1>1, <1>2 DEF Keeping
<1> QED BY <1>1, <1>3, Recursion

LEMMA KeepSeq ==
  ASSUME NEW S, NEW T, NEW q \in Seq(S)
  PROVE  Keep(q, T) \in Seq(S)
<1>1. PICK f : Iterates(f, Len(q), Seq(S), <<>>, Keeping(q, T, S))
  BY KeepBuilds
<1>2. Len(q) \in 0..Len(q)
  OBVIOUS
<1>3. f \in [0..Len(q) -> Seq(S)]
  BY <1>1 DEF Iterates
<1>4. Keep(q, T) = f[Len(q)]
  BY <1>1, KeepIs
<1> QED BY <1>2, <1>3, <1>4

LEMMA KeepEmpty ==
  ASSUME NEW T
  PROVE  Keep(<<>>, T) = <<>>
<1>1. <<>> \in Seq({}) /\ Len(<<>>) = 0
  OBVIOUS
<1>2. PICK f : Iterates(f, 0, Seq({}), <<>>, Keeping(<<>>, T, {}))
  BY <1>1, KeepBuilds
<1> QED BY <1>1, <1>2, KeepIs DEF Iterates

LEMMA KeepAppend ==
  ASSUME NEW S, NEW T, NEW q \in Seq(S), NEW x \in S
  PROVE  Keep(Append(q, x), T) = IF x \in T THEN Append(Keep(q, T), x) ELSE Keep(q, T)
<1> DEFINE r == Append(q, x)
<1>1. /\ r \in Seq(S) /\ Len(r) = Len(q) + 1 /\ Len(q) \in Nat
      /\ r[Len(q) + 1] = x /\ \A n \in 1..Len(q) : r[n] = q[n]
  BY AppendProperties
<1> HIDE DEF r
<1>2. PICK f : Iterates(f, Len(q), Seq(S), <<>>, Keeping(q, T, S))
  BY KeepBuilds
<1>3. PICK g : Iterates(g, Len(r), Seq(S), <<>>, Keeping(r, T, S))
  BY <1>1, KeepBuilds
<1>4. /\ \A n \in 0..Len(q) : f[n] \in Seq(S) /\ g[n] \in Seq(S)
      /\ f[0] = <<>> /\ g[0] = <<>>
      /\ \A n \in 1..Len(q) : n - 1 \in 0..Len(q) /\ n \in 1..Len(r)
  <2>1. f \in [0..Len(q) -> Seq(S)] /\ g \in [0..Len(r) -> Seq(S)]
    BY <1>2, <1>3 DEF Iterates
  <2>2. f[0] = <<>> /\ g[0] = <<>>
    BY <1>2, <1>3 DEF Iterates
  <2>3. /\ \A n \in 0..Len(q) : n \in 0..Len(r)
        /\ \A n \in 1..Len(q) : n - 1 \in 0..Len(q) /\ n \in 1..Len(r)
    BY <1>1
  <2> QED BY <2>1, <2>2, <2>3
<1>5. /\ \A n \in 1..Len(q) : f[n] = Keeping(q, T, S)[n][f[n - 1]]
      /\ \A n \in 1..(Len(q) + 1) : g[n] = Keeping(r, T, S)[n][g[n - 1]]
  BY <1>1, <1>2, <1>3 DEF Iterates
<1>6. \A n \in 1..Len(q) : /\ f[n] = IF q[n] \in T THEN Append(f[n - 1], q[n]) ELSE f[n - 1]
                           /\ g[n] = IF q[n] \in T THEN Append(g[n - 1], q[n]) ELSE g[n - 1]
  <2> SUFFICES ASSUME NEW n \in 1..Len(q)
               PROVE  /\ f[n] = IF q[n] \in T THEN Append(f[n - 1], q[n]) ELSE f[n - 1]
                      /\ g[n] = IF q[n] \in T THEN Append(g[n - 1], q[n]) ELSE g[n - 1]
    OBVIOUS
  <2>1. f[n - 1] \in Seq(S) /\ g[n - 1] \in Seq(S) /\ n \in 1..Len(r) /\ r[n] = q[n]
    BY <1>1, <1>4
  <2>2. f[n] = Keeping(q, T, S)[n][f[n - 1]] /\ g[n] = Keeping(r, T, S)[n][g[n - 1]]
    BY <1>1, <1>5, <2>1
  <2> QED BY <2>1, <2>2 DEF Keeping
<1>7. GoAlike(f, g, Len(q))
  BY <1>4, <1>6 DEF GoAlike
<1>8. f[Len(q)] = g[Len(q)]
  <2>1. Len(q) \in 0..Len(q)
    BY <1>1
  <2> QED BY <1>1, <1>7, <2>1, SameRecursion
<1>9. g[Len(r)] = IF x \in T THEN Append(g[Len(q)], x) ELSE g[Len(q)]
  <2>1. /\ Len(q) + 1 \in 1..(Len(q) + 1) /\ Len(q) \in 0..Len(q)
        /\ (Len(q) + 1) - 1 = Len(q) /\ Len(q) + 1 \in 1..Len(r)
    BY <1>1
  <2> QED BY <1>1, <1>4, <1>5, <2>1 DEF Keeping
<1>10. Keep(q, T) = f[Len(q)] /\ Keep(r, T) = g[Len(r)]
  BY <1>1, <1>2, <1>3, KeepIs
<1> QED BY <1>8, <1>9, <1>10 DEF r

LEMMA KeepConcat ==
  ASSUME NEW S, NEW T, NEW q \in Seq(S), NEW r \in Seq(S)
  PROVE  Keep(q \o r, T) = Keep(q, T) \o Keep(r, T)
<1> DEFINE G == {t \in Seq(S) : Keep(q \o t, T) = Keep(q, T) \o Keep(t, T)}
<1>1. <<>> \in G
  <2>1. q \o <<>> = q /\ Keep(q, T) \o <<>> = Keep(q, T) /\ <<>> \in Seq(S)
    BY KeepSeq, ConcatEmptySeq
  <2> QED BY <2>1, KeepEmpty
<1>2. ASSUME NEW t \in G, NEW x \in S PROVE Append(t, x) \in G
  <2> DEFINE k == Keep(q, T)
             l == Keep(t, T)
  <2>1. k \in Seq(S) /\ l \in Seq(S) /\ q \o t \in Seq(S) /\ Append(t, x) \in Seq(S)
    BY KeepSeq, ConcatProperties
  <2>2. q \o Append(t, x) = Append(q \o t, x)
    BY <1>2
  <2>3. Keep(q \o t, T) = k \o l
    BY <1>2
  <2>4. Keep(Append(q \o t, x), T) = IF x \in T THEN Append(k \o l, x) ELSE k \o l
    <3> DEFINE u == q \o t
    <3>1. u \in Seq(S)
      BY <2>1
    <3> HIDE DEF u
    <3>2. Keep(Append(u, x), T) = IF x \in T THEN Append(Keep(u, T), x) ELSE Keep(u, T)
      BY <3>1, KeepAppend
    <3> QED BY <2>3, <3>2 DEF u
  <2>5. Keep(Append(t, x), T) = IF x \in T THEN Append(l, x) ELSE l
    BY <1>2, KeepAppend
  <2> HIDE DEF k, l
  <2>6. k \o Append(l, x) = Append(k \o l, x)
    BY <2>1
  <2>7. Keep(q \o Append(t, x), T) = k \o Keep(Append(t, x), T)
    BY <2>2, <2>4, <2>5, <2>6
  <2> QED BY <2>1, <2>7 DEF k
<1> HIDE DEF G
<1>3. G = Seq(S)
  <2>1. G \in SUBSET Seq(S)
    BY DEF G
  <2> QED BY <1>1, <1>2, <2>1, SeqInduction
<1> QED BY <1>3 DEF G

LEMMA AppendElements ==
  ASSUME NEW S, NEW q \in Seq(S), NEW x \in S
  PROVE  /\ Append(q, x) \in Seq(S) /\ Len(Append(q, x)) = Len(q) + 1
         /\ \A i \in 1..Len(q) : i \in 1..Len(Append(q, x)) /\ Append(q, x)[i] = q[i]
         /\ Len(q) + 1 \in 1..Len(Append(q, x)) /\ Append(q, x)[Len(q) + 1] = x
         /\ \A i \in 1..Len(Append(q, x)) : i \in 1..Len(q) \/ i = Len(q) + 1
  BY AppendProperties

\* What is kept was there and is in the set.
LEMMA KeepIn ==
  ASSUME NEW S, NEW T, NEW q \in Seq(S)
  PROVE  \A i \in 1..Len(Keep(q, T)) :
           Keep(q, T)[i] \in T /\ \E j \in 1..Len(q) : q[j] = Keep(q, T)[i]
<1> DEFINE Good(t) == \A i \in 1..Len(Keep(t, T)) :
             Keep(t, T)[i] \in T /\ \E j \in 1..Len(t) : t[j] = Keep(t, T)[i]
           G == {t \in Seq(S) : Good(t)}
<1>1. <<>> \in G
  BY KeepEmpty
<1>2. ASSUME NEW t \in G, NEW x \in S PROVE Append(t, x) \in G
  <2> DEFINE k == Keep(t, T)
             l == Keep(Append(t, x), T)
  <2>1. k \in Seq(S) /\ l = IF x \in T THEN Append(k, x) ELSE k
    BY <1>2, KeepSeq, KeepAppend
  <2>2. ASSUME NEW i \in 1..Len(k)
        PROVE  k[i] \in T /\ \E j \in 1..Len(Append(t, x)) : Append(t, x)[j] = k[i]
    <3>1. k[i] \in T /\ \E j \in 1..Len(t) : t[j] = k[i]
      BY <1>2
    <3> QED BY <1>2, <3>1, AppendElements
  <2> HIDE DEF k, l
  <2>3. ASSUME NEW i \in 1..Len(l)
        PROVE  l[i] \in T /\ \E j \in 1..Len(Append(t, x)) : Append(t, x)[j] = l[i]
    <3>1. CASE x \notin T
      BY <2>1, <2>2, <3>1
    <3>2. CASE x \in T /\ i \in 1..Len(k)
      <4>1. l[i] = k[i]
        BY <2>1, <3>2, AppendElements
      <4> QED BY <2>2, <3>2, <4>1
    <3>3. CASE x \in T /\ i \notin 1..Len(k)
      <4>1. l[i] = x
        BY <2>1, <2>3, <3>3, AppendElements
      <4>2. \E j \in 1..Len(Append(t, x)) : Append(t, x)[j] = x
        BY <1>2, AppendElements
      <4> QED BY <3>3, <4>1, <4>2
    <3> QED BY <3>1, <3>2, <3>3
  <2>4. Append(t, x) \in Seq(S)
    BY <1>2
  <2> QED BY <2>3, <2>4 DEF l
<1> HIDE DEF G
<1>3. G = Seq(S)
  <2>1. G \in SUBSET Seq(S)
    BY DEF G
  <2> QED BY <1>1, <1>2, <2>1, SeqInduction
<1> QED BY <1>3 DEF G

LEMMA KeepAll ==
  ASSUME NEW S, NEW T, NEW q \in Seq(S), \A i \in 1..Len(q) : q[i] \in T
  PROVE  Keep(q, T) = q
<1> DEFINE G == {t \in Seq(S) : (\A i \in 1..Len(t) : t[i] \in T) => Keep(t, T) = t}
<1>1. <<>> \in G
  BY KeepEmpty
<1>2. ASSUME NEW t \in G, NEW x \in S PROVE Append(t, x) \in G
  <2> SUFFICES ASSUME \A i \in 1..Len(Append(t, x)) : Append(t, x)[i] \in T
               PROVE  Keep(Append(t, x), T) = Append(t, x)
    BY <1>2, AppendElements
  <2>1. x \in T /\ \A i \in 1..Len(t) : t[i] \in T
    BY <1>2, AppendElements
  <2>2. Keep(t, T) = t
    BY <1>2, <2>1
  <2> QED BY <1>2, <2>1, <2>2, KeepAppend
<1> HIDE DEF G
<1>3. G = Seq(S)
  <2>1. G \in SUBSET Seq(S)
    BY DEF G
  <2> QED BY <1>1, <1>2, <2>1, SeqInduction
<1> QED BY <1>3 DEF G

LEMMA KeepNone ==
  ASSUME NEW S, NEW T, NEW q \in Seq(S), \A i \in 1..Len(q) : q[i] \notin T
  PROVE  Keep(q, T) = <<>>
<1>1. \A i \in 1..Len(Keep(q, T)) : FALSE
  BY KeepIn
<1>2. Keep(q, T) \in Seq(S)
  BY KeepSeq
<1> DEFINE k == Keep(q, T)
<1> HIDE DEF k
<1>3. k = <<>>
  <2>1. k \in Seq(S) /\ \A i \in 1..Len(k) : FALSE
    BY <1>1, <1>2 DEF k
  <2>2. Len(k) = 0
    BY <2>1
  <2> QED BY <2>1, <2>2
<1> QED BY <1>3 DEF k

\* Keeping less of what was kept.
LEMMA KeepTwice ==
  ASSUME NEW S, NEW T, NEW U \in SUBSET T, NEW q \in Seq(S)
  PROVE  Keep(Keep(q, T), U) = Keep(q, U)
<1> DEFINE G == {t \in Seq(S) : Keep(Keep(t, T), U) = Keep(t, U)}
<1>1. <<>> \in G
  BY KeepEmpty
<1>2. ASSUME NEW t \in G, NEW x \in S PROVE Append(t, x) \in G
  <2>1. Keep(t, T) \in Seq(S) /\ Append(t, x) \in Seq(S)
    BY <1>2, KeepSeq
  <2>2. Keep(Append(t, x), T) = IF x \in T THEN Append(Keep(t, T), x) ELSE Keep(t, T)
    BY <1>2, KeepAppend
  <2>3. Keep(Append(t, x), U) = IF x \in U THEN Append(Keep(t, U), x) ELSE Keep(t, U)
    BY <1>2, KeepAppend
  <2>4. Keep(Append(Keep(t, T), x), U) =
          IF x \in U THEN Append(Keep(Keep(t, T), U), x) ELSE Keep(Keep(t, T), U)
    BY <2>1, KeepAppend
  <2>5. Keep(Keep(t, T), U) = Keep(t, U)
    BY <1>2
  <2>6. Keep(Keep(Append(t, x), T), U) = Keep(Append(t, x), U)
    BY <2>2, <2>3, <2>4, <2>5
  <2> QED BY <2>1, <2>6
<1> HIDE DEF G
<1>3. G = Seq(S)
  <2>1. G \in SUBSET Seq(S)
    BY DEF G
  <2> QED BY <1>1, <1>2, <2>1, SeqInduction
<1> QED BY <1>3 DEF G

-----------------------------------------------------------------------------
(* Queues of numbered actions.                                                *)

Rising(q) == \A i, j \in 1..Len(q) : i < j => q[i].action.seq < q[j].action.seq
Owner(s) == {item \in Item : item.from = s}
After(n) == {item \in Item : item.action.seq > n}

LEMMA ItemNumber ==
  ASSUME NEW x \in Item
  PROVE  x.action.seq \in Nat /\ x.from \in Players /\ x.visit \in Nat /\ x.action \in Action
BY Bounds DEF Item, Action

LEMMA RisingAppend ==
  ASSUME NEW q \in Seq(Item), NEW x \in Item
  PROVE  Rising(Append(q, x)) <=>
           Rising(q) /\ \A i \in 1..Len(q) : q[i].action.seq < x.action.seq
<1> DEFINE r == Append(q, x)
<1>1. /\ Len(r) = Len(q) + 1 /\ Len(q) \in Nat /\ r[Len(q) + 1] = x
      /\ \A i \in 1..Len(q) : r[i] = q[i]
  BY AppendProperties
<1> HIDE DEF r
<1>2. ASSUME Rising(r)
      PROVE  Rising(q) /\ \A i \in 1..Len(q) : q[i].action.seq < x.action.seq
  <2>1. \A i, j \in 1..Len(q) : i \in 1..Len(r) /\ j \in 1..Len(r)
    BY <1>1
  <2>2. Rising(q)
    BY <1>1, <1>2, <2>1 DEF Rising
  <2>3. \A i \in 1..Len(q) : i \in 1..Len(r) /\ Len(q) + 1 \in 1..Len(r) /\ i < Len(q) + 1
    BY <1>1
  <2> QED BY <1>1, <1>2, <2>2, <2>3 DEF Rising
<1>3. ASSUME Rising(q), \A i \in 1..Len(q) : q[i].action.seq < x.action.seq
      PROVE  Rising(r)
  <2> SUFFICES ASSUME NEW i \in 1..Len(r), NEW j \in 1..Len(r), i < j
               PROVE  r[i].action.seq < r[j].action.seq
    BY DEF Rising
  <2>1. i \in 1..Len(q) /\ (j \in 1..Len(q) \/ j = Len(q) + 1)
    BY <1>1
  <2> QED BY <1>1, <1>3, <2>1 DEF Rising
<1> QED BY <1>2, <1>3 DEF r

LEMMA KeepRising ==
  ASSUME NEW T, NEW q \in Seq(Item), Rising(q)
  PROVE  Rising(Keep(q, T))
<1> DEFINE G == {t \in Seq(Item) : Rising(t) => Rising(Keep(t, T))}
<1>1. <<>> \in G
  <2>1. Rising(<<>>)
    BY DEF Rising
  <2> QED BY <2>1, KeepEmpty
<1>2. ASSUME NEW t \in G, NEW x \in Item PROVE Append(t, x) \in G
  <2> SUFFICES ASSUME Rising(Append(t, x)) PROVE Rising(Keep(Append(t, x), T))
    BY <1>2, AppendElements
  <2> DEFINE k == Keep(t, T)
  <2>1. Rising(t) /\ \A i \in 1..Len(t) : t[i].action.seq < x.action.seq
    BY <1>2, RisingAppend
  <2>2. Rising(k) /\ k \in Seq(Item)
    BY <1>2, <2>1, KeepSeq
  <2>3. \A i \in 1..Len(k) : k[i].action.seq < x.action.seq
    BY <1>2, <2>1, KeepIn
  <2>4. Keep(Append(t, x), T) = IF x \in T THEN Append(k, x) ELSE k
    BY <1>2, KeepAppend
  <2> HIDE DEF k
  <2>5. Rising(Append(k, x))
    BY <2>2, <2>3, RisingAppend
  <2> QED BY <2>2, <2>4, <2>5
<1> HIDE DEF G
<1>3. G = Seq(Item)
  <2>1. G \in SUBSET Seq(Item)
    BY DEF G
  <2> QED BY <1>1, <1>2, <2>1, SeqInduction
<1> QED BY <1>3 DEF G

LEMMA RisingConcat ==
  ASSUME NEW q \in Seq(Item), NEW r \in Seq(Item)
  PROVE  Rising(q \o r) <=>
           /\ Rising(q) /\ Rising(r)
           /\ \A i \in 1..Len(q), j \in 1..Len(r) : q[i].action.seq < r[j].action.seq
<1> DEFINE both == q \o r
<1>1. /\ Len(both) = Len(q) + Len(r) /\ Len(q) \in Nat /\ Len(r) \in Nat
      /\ \A i \in 1..Len(q) : both[i] = q[i] /\ i \in 1..Len(both)
      /\ \A j \in 1..Len(r) : both[Len(q) + j] = r[j] /\ Len(q) + j \in 1..Len(both)
      /\ \A i \in 1..Len(both) : i \in 1..Len(q) \/ \E j \in 1..Len(r) : i = Len(q) + j
  <2>1. Len(q) \in Nat /\ Len(r) \in Nat
    OBVIOUS
  <2>2. /\ Len(both) = Len(q) + Len(r)
        /\ \A i \in 1..(Len(q) + Len(r)) : both[i] = IF i <= Len(q) THEN q[i] ELSE r[i - Len(q)]
    BY ConcatProperties
  <2> HIDE DEF both
  <2>3. \A i \in 1..Len(q) : both[i] = q[i] /\ i \in 1..Len(both)
    BY <2>1, <2>2
  <2>4. ASSUME NEW j \in 1..Len(r)
        PROVE  both[Len(q) + j] = r[j] /\ Len(q) + j \in 1..Len(both)
    <3>1. /\ Len(q) + j \in 1..(Len(q) + Len(r)) /\ ~(Len(q) + j <= Len(q))
          /\ (Len(q) + j) - Len(q) = j
      BY <2>1
    <3> QED BY <2>2, <3>1
  <2>5. ASSUME NEW i \in 1..Len(both), i \notin 1..Len(q)
        PROVE  \E j \in 1..Len(r) : i = Len(q) + j
    <3>1. i - Len(q) \in 1..Len(r) /\ i = Len(q) + (i - Len(q))
      BY <2>1, <2>2, <2>5
    <3> QED BY <3>1
  <2> QED BY <2>1, <2>2, <2>3, <2>4, <2>5
<1> HIDE DEF both
<1>2. ASSUME Rising(both)
      PROVE  /\ Rising(q) /\ Rising(r)
             /\ \A i \in 1..Len(q), j \in 1..Len(r) : q[i].action.seq < r[j].action.seq
  <2>1. Rising(q)
    BY <1>1, <1>2 DEF Rising
  <2>2. Rising(r)
    <3> SUFFICES ASSUME NEW i \in 1..Len(r), NEW j \in 1..Len(r), i < j
                 PROVE  r[i].action.seq < r[j].action.seq
      BY DEF Rising
    <3>1. Len(q) + i < Len(q) + j
      BY <1>1
    <3> QED BY <1>1, <1>2, <3>1 DEF Rising
  <2>3. ASSUME NEW i \in 1..Len(q), NEW j \in 1..Len(r)
        PROVE  q[i].action.seq < r[j].action.seq
    <3>1. i < Len(q) + j
      BY <1>1
    <3> QED BY <1>1, <1>2, <3>1 DEF Rising
  <2> QED BY <2>1, <2>2, <2>3
<1>3. ASSUME Rising(q), Rising(r),
             \A i \in 1..Len(q), j \in 1..Len(r) : q[i].action.seq < r[j].action.seq
      PROVE  Rising(both)
  <2> SUFFICES ASSUME NEW i \in 1..Len(both), NEW j \in 1..Len(both), i < j
               PROVE  both[i].action.seq < both[j].action.seq
    BY DEF Rising
  <2>1. CASE j \in 1..Len(q)
    <3>1. i \in 1..Len(q)
      BY <1>1, <2>1
    <3> QED BY <1>1, <1>3, <2>1, <3>1 DEF Rising
  <2>2. CASE j \notin 1..Len(q)
    <3>1. PICK m \in 1..Len(r) : j = Len(q) + m
      BY <1>1, <2>2
    <3>2. CASE i \in 1..Len(q)
      BY <1>1, <1>3, <3>1, <3>2
    <3>3. CASE i \notin 1..Len(q)
      <4>1. PICK k \in 1..Len(r) : i = Len(q) + k
        BY <1>1, <3>3
      <4>2. k < m
        BY <1>1, <3>1, <4>1
      <4> QED BY <1>1, <1>3, <3>1, <4>1, <4>2 DEF Rising
    <3> QED BY <3>2, <3>3
  <2> QED BY <2>1, <2>2
<1> QED BY <1>2, <1>3 DEF both

\* Once the first x of what is new was handed out, the rest is new.
LEMMA HandedOut ==
  ASSUME NEW q \in Seq(Item), Rising(q), NEW n \in Nat,
         NEW x \in Seq(Item), x # <<>>, NEW y \in Seq(Item), Newer(q, n) = x \o y
  PROVE  Newer(q, x[Len(x)].action.seq) = y
<1> DEFINE w == x[Len(x)].action.seq
<1>1. Len(x) \in 1..Len(x) /\ Len(x) \in Nat /\ x[Len(x)] \in Item
  OBVIOUS
<1>2. w \in Nat
  BY <1>1, ItemNumber
<1>3. Newer(q, n) = Keep(q, After(n)) /\ Newer(q, w) = Keep(q, After(w))
  BY DEF Newer, After
<1>4. Rising(x \o y)
  BY <1>3, KeepRising
<1>5. /\ Rising(x)
      /\ \A i \in 1..Len(x), j \in 1..Len(y) : x[i].action.seq < y[j].action.seq
  BY <1>4, RisingConcat
<1>6. w > n
  <2>1. Len(x) \in 1..Len(x \o y) /\ (x \o y)[Len(x)] = x[Len(x)]
    BY <1>1, ConcatProperties
  <2>2. x[Len(x)] \in After(n)
    BY <1>3, <2>1, KeepIn
  <2> QED BY <2>2 DEF After
<1>7. After(w) \in SUBSET After(n)
  <2> SUFFICES ASSUME NEW item \in After(w) PROVE item \in After(n)
    OBVIOUS
  <2>1. item \in Item /\ item.action.seq > w /\ item.action.seq \in Nat
    BY ItemNumber DEF After
  <2>2. item.action.seq > n
    BY <1>2, <1>6, <2>1
  <2> QED BY <2>1, <2>2 DEF After
<1>8. \A i \in 1..Len(x) : x[i] \notin After(w)
  <2> SUFFICES ASSUME NEW i \in 1..Len(x) PROVE ~(x[i].action.seq > w)
    BY DEF After
  <2>1. x[i] \in Item /\ x[i].action.seq \in Nat
    BY ItemNumber
  <2>2. CASE i = Len(x)
    BY <1>2, <2>2
  <2>3. CASE i # Len(x)
    <3>1. i < Len(x)
      BY <1>1, <2>3
    <3>2. x[i].action.seq < w
      BY <1>1, <1>5, <3>1 DEF Rising
    <3> HIDE DEF w
    <3> QED BY <1>2, <2>1, <3>2
  <2> QED BY <2>2, <2>3
<1>9. \A j \in 1..Len(y) : y[j] \in After(w)
  <2> SUFFICES ASSUME NEW j \in 1..Len(y) PROVE y[j] \in After(w)
    OBVIOUS
  <2>1. y[j] \in Item /\ y[j].action.seq \in Nat
    BY ItemNumber
  <2>2. w < y[j].action.seq
    BY <1>1, <1>5
  <2> HIDE DEF w
  <2>3. y[j].action.seq > w
    BY <1>2, <2>1, <2>2
  <2> QED BY <2>1, <2>3 DEF After
<1> HIDE DEF w
<1>10. Keep(x, After(w)) = <<>> /\ Keep(y, After(w)) = y
  BY <1>8, <1>9, KeepNone, KeepAll
<1>11. Keep(x \o y, After(w)) = <<>> \o y
  <2>1. Keep(x \o y, After(w)) = Keep(x, After(w)) \o Keep(y, After(w))
    BY KeepConcat
  <2> QED BY <1>10, <2>1
<1>12. Keep(Keep(q, After(n)), After(w)) = Keep(q, After(w))
  BY <1>7, KeepTwice
<1>13. Newer(q, w) = y
  BY <1>3, <1>11, <1>12
<1> QED BY <1>13 DEF w

LEMMA FirstOfIs ==
  ASSUME NEW S, NEW q \in Seq(S), NEW n \in Nat \ {0}
  PROVE  /\ FirstOf(q, n) \in Seq(S) /\ Len(FirstOf(q, n)) <= n
         /\ Len(FirstOf(q, n)) <= Len(q)
         /\ Len(q) <= n => FirstOf(q, n) = q
         /\ \A i \in 1..Len(FirstOf(q, n)) : FirstOf(q, n)[i] = q[i] /\ i \in 1..Len(q)
<1>1. Len(q) \in Nat
  OBVIOUS
<1>2. CASE Len(q) > n
  <2> DEFINE f == SubSeq(q, 1, n)
  <2>1. \A i \in 1..n : i \in 1..Len(q)
    BY <1>1, <1>2
  <2>2. 1 \in 1..(Len(q) + 1) /\ n \in 0..Len(q)
    BY <1>1, <1>2
  <2>3. /\ f \in Seq(S) /\ Len(f) = n
        /\ \A i \in 1..n : f[i] = q[i]
    BY <1>1, <1>2, <2>1
  <2>4. FirstOf(q, n) = f
    BY <1>2 DEF FirstOf
  <2> HIDE DEF f
  <2> QED BY <1>1, <1>2, <2>1, <2>3, <2>4
<1>3. CASE ~(Len(q) > n)
  BY <1>1, <1>3 DEF FirstOf
<1> QED BY <1>2, <1>3

\* A packet and what stays waiting.
LEMMA FrontAndRest ==
  ASSUME NEW S, NEW q \in Seq(S)
  PROVE  /\ FirstOf(q, Pack) \in Seq(S) /\ TakeFront(q) \in Seq(S)
         /\ FirstOf(q, Pack) \o TakeFront(q) = q
         /\ Len(TakeFront(q)) <= Len(q)
         /\ \A i \in 1..Len(TakeFront(q)) : \E j \in 1..Len(q) : TakeFront(q)[i] = q[j]
<1>0. Pack \in Nat \ {0} /\ Len(q) \in Nat
  BY Bounds
<1>1. CASE Len(q) > Pack
  <2> DEFINE f == SubSeq(q, 1, Pack)
             t == SubSeq(q, Pack + 1, Len(q))
  <2>1. /\ f \in Seq(S) /\ t \in Seq(S) /\ Len(t) = Len(q) - Pack
        /\ \A i \in 1..(Len(q) - Pack) : t[i] = q[Pack + i] /\ Pack + i \in 1..Len(q)
    BY <1>0, <1>1
  <2>2. f \o t = q
    <3>1. /\ 1 \in 1..(Len(q) + 1) /\ Pack \in 0..Len(q) /\ Len(q) \in 0..Len(q)
          /\ Pack \in 1..(Len(q) + 1)
      BY <1>0, <1>1
    <3>2. SubSeq(q, 1, Len(q)) = q
      BY SubSeqFull
    <3>3. f \o t = SubSeq(q, 1, Len(q))
      BY <1>0, <1>1, <3>1, ConcatAdjacentSubSeq
    <3> QED BY <3>2, <3>3
  <2>3. FirstOf(q, Pack) = f /\ TakeFront(q) = t
    BY <1>1 DEF FirstOf, TakeFront
  <2> HIDE DEF f, t
  <2>4. Len(t) <= Len(q)
    BY <1>0, <2>1
  <2>5. \A i \in 1..Len(t) : \E j \in 1..Len(q) : t[i] = q[j]
    BY <2>1
  <2>6. FirstOf(q, Pack) \in Seq(S) /\ TakeFront(q) \in Seq(S)
    BY <2>1, <2>3
  <2>7. FirstOf(q, Pack) \o TakeFront(q) = q
    BY ONLY <2>2, <2>3
  <2>8. \A i \in 1..Len(TakeFront(q)) : \E j \in 1..Len(q) : TakeFront(q)[i] = q[j]
    BY ONLY <2>3, <2>5
  <2>9. Len(TakeFront(q)) <= Len(q)
    BY ONLY <2>3, <2>4
  <2> QED BY <2>6, <2>7, <2>8, <2>9
<1>2. CASE ~(Len(q) > Pack)
  <2>1. FirstOf(q, Pack) = q /\ TakeFront(q) = <<>>
    BY <1>2 DEF FirstOf, TakeFront
  <2>2. q \o <<>> = q
    BY ConcatEmptySeq
  <2>3. /\ <<>> \in Seq(S) /\ Len(<<>>) <= Len(q)
        /\ \A i \in 1..Len(<<>>) : \E j \in 1..Len(q) : <<>>[i] = q[j]
    BY <1>0
  <2>4. FirstOf(q, Pack) \in Seq(S) /\ TakeFront(q) \in Seq(S)
    BY <2>1, <2>3
  <2>5. FirstOf(q, Pack) \o TakeFront(q) = q
    BY ONLY <2>1, <2>2
  <2>6. \A i \in 1..Len(TakeFront(q)) : \E j \in 1..Len(q) : TakeFront(q)[i] = q[j]
    BY ONLY <2>1, <2>3
  <2>7. Len(TakeFront(q)) <= Len(q)
    BY <2>1, <2>3
  <2> QED BY <2>4, <2>5, <2>6, <2>7
<1> QED BY <1>1, <1>2

-----------------------------------------------------------------------------
(* What a batch does.                                                         *)

Moves == [gen : Nat, seq : Nat, jump : Nat, air : BOOLEAN, grounded : BOOLEAN]
Begun(p) == [move |-> move[p], took |-> <<>>]
Accepting(batch, H) == [n \in 1..Len(batch) |-> [d \in H |-> AcceptAction(d, batch[n])]]

\* What holds before a batch and survives every action of it holds after it.
LEMMA OutcomeIn ==
  ASSUME NEW p, NEW batch \in Seq(Action), NEW H, Begun(p) \in H,
         \A d \in H, a \in Action : AcceptAction(d, a) \in H
  PROVE  Outcome(p, batch) \in H
<1> DEFINE L == Len(batch)
           Fits(g) == g = [n \in 0..L |-> IF n = 0 THEN Begun(p)
                                          ELSE AcceptAction(g[n - 1], batch[n])]
           g1 == CHOOSE g : Fits(g)
<1>1. L \in Nat /\ \A n \in 1..L : batch[n] \in Action /\ n - 1 \in 0..L
  OBVIOUS
<1>2. \A n \in 1..L : Accepting(batch, H)[n] \in [H -> H]
  BY <1>1 DEF Accepting
<1>3. PICK f : Iterates(f, L, H, Begun(p), Accepting(batch, H))
  BY <1>1, <1>2, Recursion
<1>4. /\ f \in [0..L -> H] /\ f[0] = Begun(p)
      /\ \A n \in 1..L : f[n] = AcceptAction(f[n - 1], batch[n])
  <2>1. f \in [0..L -> H] /\ f[0] = Begun(p)
        /\ \A n \in 1..L : f[n] = Accepting(batch, H)[n][f[n - 1]]
    BY <1>3 DEF Iterates
  <2>2. \A n \in 1..L : f[n - 1] \in H
    BY <1>1, <2>1
  <2> QED BY <2>1, <2>2 DEF Accepting
<1>5. Outcome(p, batch) = g1[L]
  BY DEF Outcome, Begun
<1>6. Fits(f)
  <2>1. ASSUME NEW n \in 0..L
        PROVE  f[n] = IF n = 0 THEN Begun(p) ELSE AcceptAction(f[n - 1], batch[n])
    <3>1. CASE n = 0
      BY <1>4, <3>1
    <3>2. CASE n # 0
      <4>1. n \in 1..L
        BY <1>1, <3>2
      <4> QED BY <1>4, <3>2, <4>1
    <3> QED BY <3>1, <3>2
  <2> QED BY <1>4, <2>1
<1>7. Fits(g1)
  BY <1>6
<1> HIDE DEF g1
<1>8. \A n \in 0..L : g1[n] = IF n = 0 THEN Begun(p) ELSE AcceptAction(g1[n - 1], batch[n])
  BY <1>7
<1>9. GoAlike(f, g1, L)
  <2>1. f[0] = g1[0]
    BY <1>1, <1>4, <1>8
  <2>2. ASSUME NEW n \in 1..L, f[n - 1] = g1[n - 1] PROVE f[n] = g1[n]
    <3>1. n \in 0..L /\ n # 0
      BY <1>1
    <3> QED BY <1>4, <1>8, <2>2, <3>1
  <2> QED BY <2>1, <2>2 DEF GoAlike
<1>10. L \in 0..L
  BY <1>1
<1>11. f[L] = g1[L]
  BY <1>1, <1>9, <1>10, SameRecursion
<1> QED BY <1>4, <1>5, <1>10, <1>11

LEMMA AppliedMoves ==
  ASSUME NEW m \in Moves, NEW a \in Action
  PROVE  /\ Applied(m, a) \in Moves /\ Consume(m, a) \in Moves
         /\ Applied(m, a).gen = m.gen /\ Applied(m, a).seq = a.seq
         /\ Applied(m, a).jump = a.jump
         /\ Applied(m, a).air = CASE a.kind = "Jump" -> TRUE
                                  [] a.kind \in {"Land", "Respawn"} -> FALSE
                                  [] OTHER -> m.air
         /\ Consume(m, a).gen = m.gen /\ Consume(m, a).seq = a.seq
         /\ Consume(m, a).jump = m.jump /\ Consume(m, a).air = m.air
<1>1. /\ a.seq \in Nat /\ a.jump \in Nat /\ a.grounded \in BOOLEAN
  BY Bounds DEF Action
<1> DEFINE v == CASE a.kind = "Jump" -> TRUE
                  [] a.kind \in {"Land", "Respawn"} -> FALSE
                  [] OTHER -> m.air
<1>2. v \in BOOLEAN
  BY DEF Moves
<1>3. Applied(m, a) = [gen |-> m.gen, seq |-> a.seq, jump |-> a.jump, grounded |-> a.grounded,
                       air |-> v]
  <2>1. Applied(m, a) = [m EXCEPT !.seq = a.seq, !.jump = a.jump, !.grounded = a.grounded,
                                  !.air = v]
    BY DEF Applied
  <2> HIDE DEF v
  <2> QED BY <2>1 DEF Moves
<1>4. Consume(m, a) = [gen |-> m.gen, seq |-> a.seq, jump |-> m.jump, grounded |-> m.grounded,
                       air |-> m.air]
  BY DEF Consume, Moves
<1> HIDE DEF v
<1>5. /\ Applied(m, a) \in Moves /\ Consume(m, a) \in Moves
      /\ Applied(m, a).gen = m.gen /\ Applied(m, a).seq = a.seq
      /\ Applied(m, a).jump = a.jump /\ Applied(m, a).air = v
      /\ Consume(m, a).gen = m.gen /\ Consume(m, a).seq = a.seq
      /\ Consume(m, a).jump = m.jump /\ Consume(m, a).air = m.air
  BY <1>1, <1>2, <1>3, <1>4 DEF Moves
<1> QED BY <1>5 DEF v

Does == [move : Moves, took : Seq(Action)]

\* The three things an action of a batch may do.
LEMMA AcceptActionIs ==
  ASSUME NEW d \in Does, NEW a \in Action
  PROVE  \/ AcceptAction(d, a) = d
         \/ /\ a.seq > d.move.seq /\ Allowed(d.move, a)
            /\ AcceptAction(d, a) = [move |-> Applied(d.move, a), took |-> Append(d.took, a)]
         \/ /\ a.seq > d.move.seq
            /\ AcceptAction(d, a) = [move |-> Consume(d.move, a), took |-> d.took]
<1>1. a.seq \in Nat /\ d.move.seq \in Nat
  BY Bounds DEF Action, Does, Moves
<1>2. CASE a.seq <= d.move.seq
  BY <1>2 DEF AcceptAction
<1>3. CASE ~(a.seq <= d.move.seq) /\ Allowed(d.move, a)
  <2>1. a.seq > d.move.seq
    BY <1>1, <1>3
  <2>2. AcceptAction(d, a) = [d EXCEPT !.move = Applied(@, a), !.took = Append(@, a)]
    BY <1>3 DEF AcceptAction
  <2>3. AcceptAction(d, a) = [move |-> Applied(d.move, a), took |-> Append(d.took, a)]
    BY <2>2 DEF Does
  <2> QED BY <1>3, <2>1, <2>3
<1>4. CASE ~(a.seq <= d.move.seq) /\ ~Allowed(d.move, a)
  <2>1. a.seq > d.move.seq
    BY <1>1, <1>4
  <2>2. AcceptAction(d, a) = [d EXCEPT !.move = Consume(@, a)]
    BY <1>4 DEF AcceptAction
  <2>3. AcceptAction(d, a) = [move |-> Consume(d.move, a), took |-> d.took]
    BY <2>2 DEF Does
  <2> QED BY <2>1, <2>3
<1> QED BY <1>2, <1>3, <1>4

\* The actions that count are numbered upwards from the last one before.
Numbered(m, d) ==
  /\ d \in Does /\ d.move.gen = m.gen /\ m.seq <= d.move.seq
  /\ \A i \in 1..Len(d.took) : m.seq < d.took[i].seq /\ d.took[i].seq <= d.move.seq
  /\ \A i, j \in 1..Len(d.took) : i < j => d.took[i].seq < d.took[j].seq

LEMMA OutcomeNumbered ==
  ASSUME NEW p, move[p] \in Moves, NEW batch \in Seq(Action)
  PROVE  Numbered(move[p], Outcome(p, batch))
<1> DEFINE m == move[p]
           H == {d \in Does : Numbered(m, d)}
<1>1. Begun(p) \in H
  <2>1. /\ Begun(p) \in Does /\ Begun(p).move = m /\ Begun(p).took = <<>>
        /\ m.seq <= m.seq /\ Len(<<>>) = 0
    BY DEF Begun, Does, Moves
  <2>2. Numbered(m, Begun(p))
    BY <2>1 DEF Numbered
  <2> QED BY <2>1, <2>2
<1>2. ASSUME NEW d \in H, NEW a \in Action PROVE AcceptAction(d, a) \in H
  <2> DEFINE t == d.took
             n == d.move.seq
             u == Append(t, a)
             e == AcceptAction(d, a)
  <2>1. /\ d \in Does /\ t \in Seq(Action) /\ d.move \in Moves /\ n \in Nat /\ m.seq \in Nat
        /\ a.seq \in Nat /\ m \in Moves
    BY Bounds DEF Does, Action, Moves
  <2>2. /\ d.move.gen = m.gen /\ m.seq <= n
        /\ \A i \in 1..Len(t) : m.seq < t[i].seq /\ t[i].seq <= n /\ t[i].seq \in Nat
        /\ \A i, j \in 1..Len(t) : i < j => t[i].seq < t[j].seq
    <3>1. Numbered(m, d)
      OBVIOUS
    <3>2. \A i \in 1..Len(t) : t[i] \in Action
      BY <2>1
    <3>3. \A b \in Action : b.seq \in Nat
      BY Bounds DEF Action
    <3> QED BY <3>1, <3>2, <3>3 DEF Numbered
  <2>3. CASE e = d
    BY <2>3
  <2>4. ASSUME NEW o \in Moves, o.gen = m.gen, o.seq = a.seq, a.seq > n,
               NEW v \in Seq(Action), v = t \/ v = u,
               e = [move |-> o, took |-> v]
        PROVE  e \in H
    <3>1. e \in Does /\ e.move = o /\ e.took = v
      BY <2>4 DEF Does
    <3> HIDE DEF n, t, m, e
    <3>2. m.seq <= o.seq
      BY <2>1, <2>2, <2>4
    <3>3. \A i \in 1..Len(v) : (i \in 1..Len(t) /\ v[i] = t[i])
                               \/ (v[i] = a /\ i = Len(t) + 1)
      BY <2>1, <2>4, AppendElements
    <3>4. \A i \in 1..Len(v) : m.seq < v[i].seq /\ v[i].seq <= o.seq
      BY <2>1, <2>2, <2>4, <3>3
    <3>5. ASSUME NEW i \in 1..Len(v), NEW j \in 1..Len(v), i < j
          PROVE  v[i].seq < v[j].seq
      <4>0. Len(t) \in Nat /\ Len(v) \in Nat
        BY <2>1
      <4>1. CASE j \in 1..Len(t) /\ v[j] = t[j]
        <5>1. i \in 1..Len(t) /\ v[i] = t[i]
          BY <3>3, <3>5, <4>0, <4>1
        <5> QED BY <2>2, <3>5, <4>1, <5>1
      <4>2. CASE v[j] = a /\ j = Len(t) + 1
        <5>1. i \in 1..Len(t) /\ v[i] = t[i]
          BY <3>3, <3>5, <4>0, <4>2
        <5>2. t[i].seq <= n /\ t[i].seq \in Nat
          BY <2>2, <5>1
        <5>3. t[i].seq < a.seq
          BY ONLY <2>1, <2>4, <5>2
        <5> QED BY <4>2, <5>1, <5>3
      <4> QED BY <3>3, <4>1, <4>2
    <3>6. Numbered(m, e)
      BY <2>4, <3>1, <3>2, <3>4, <3>5 DEF Numbered
    <3> QED BY <3>1, <3>6 DEF m
  <2>5. u \in Seq(Action)
    BY <2>1
  <2>6. CASE a.seq > n /\ e = [move |-> Applied(d.move, a), took |-> u]
    <3>1. /\ Applied(d.move, a) \in Moves /\ Applied(d.move, a).gen = m.gen
          /\ Applied(d.move, a).seq = a.seq
      BY <2>1, <2>2, AppliedMoves
    <3> HIDE DEF e, u, t, n, m, H
    <3>2. e \in H
      BY <2>4, <2>5, <2>6, <3>1
    <3> QED BY <3>2 DEF e
  <2>7. CASE a.seq > n /\ e = [move |-> Consume(d.move, a), took |-> t]
    <3>1. /\ Consume(d.move, a) \in Moves /\ Consume(d.move, a).gen = m.gen
          /\ Consume(d.move, a).seq = a.seq
      BY <2>1, <2>2, AppliedMoves
    <3> HIDE DEF e, u, t, n, m, H
    <3>2. e \in H
      BY <2>1, <2>4, <2>7, <3>1
    <3> QED BY <3>2 DEF e
  <2> QED BY <2>1, <2>3, <2>6, <2>7, AcceptActionIs
<1> HIDE DEF H
<1>3. Outcome(p, batch) \in H
  BY <1>1, <1>2, OutcomeIn
<1> QED BY <1>3 DEF H

-----------------------------------------------------------------------------
(* Jumps.                                                                     *)

Lands(a) == a.kind \in {"Land", "Respawn"}
Landed(did, i, j) == \E k \in (i + 1)..(j - 1) : Lands(did[k]) /\ did[k].jump = did[i].jump
InAir(did, i, j) == \A k \in (i + 1)..(j - 1) : did[k].kind = "Input"

\* What JumpsAlternate says of the actions a player did.
Alternates(did) ==
  \A j \in DOMAIN did :
    /\ did[j].kind = "Jump" =>
         \A i \in 1..(j - 1) :
           did[i].kind = "Jump" => did[i].jump < did[j].jump /\ Landed(did, i, j)
    /\ did[j].kind = "Land" =>
         \E i \in 1..(j - 1) :
           did[i].kind = "Jump" /\ did[i].jump = did[j].jump /\ InAir(did, i, j)

\* A player in the air is in its last jump, and one on the ground has landed
\* from all of them.
JumpState(m, did) ==
  /\ did \in Seq(Action) /\ Alternates(did)
  /\ \A i \in 1..Len(did) : did[i].kind = "Jump" => did[i].jump <= m.jump
  /\ m.air => \E i \in 1..Len(did) : /\ did[i].kind = "Jump" /\ did[i].jump = m.jump
                                     /\ InAir(did, i, Len(did) + 1)
  /\ ~m.air => \A i \in 1..Len(did) : did[i].kind = "Jump" => Landed(did, i, Len(did) + 1)

\* What an action more leaves as it was.
LEMMA OneMore ==
  ASSUME NEW did \in Seq(Action), NEW a \in Action
  PROVE  LET more == Append(did, a) IN
         /\ more \in Seq(Action) /\ Len(more) = Len(did) + 1 /\ more[Len(did) + 1] = a
         /\ \A i \in 1..Len(did) : more[i] = did[i]
         /\ \A i \in 1..Len(did), j \in 1..(Len(did) + 1) :
              /\ Landed(more, i, j) <=> Landed(did, i, j)
              /\ InAir(more, i, j) <=> InAir(did, i, j)
         /\ \A i \in 1..Len(did) :
              /\ Landed(did, i, Len(did) + 1) => Landed(more, i, Len(did) + 2)
              /\ InAir(did, i, Len(did) + 1) /\ a.kind = "Input" => InAir(more, i, Len(did) + 2)
              /\ Lands(a) /\ a.jump = did[i].jump => Landed(more, i, Len(did) + 2)
<1> DEFINE more == Append(did, a)
           n == Len(did)
<1>1. /\ more \in Seq(Action) /\ Len(more) = n + 1 /\ n \in Nat
      /\ more[n + 1] = a /\ \A i \in 1..n : more[i] = did[i]
  BY AppendProperties
<1> HIDE DEF more, n
<1>2. ASSUME NEW i \in 1..n, NEW j \in 1..(n + 1)
      PROVE  /\ Landed(more, i, j) <=> Landed(did, i, j)
             /\ InAir(more, i, j) <=> InAir(did, i, j)
  <2>1. \A k \in (i + 1)..(j - 1) : k \in 1..n /\ more[k] = did[k]
    BY <1>1
  <2> QED BY <1>1, <2>1 DEF Landed, InAir
<1>3. ASSUME NEW i \in 1..n
      PROVE  /\ Landed(did, i, n + 1) => Landed(more, i, n + 2)
             /\ InAir(did, i, n + 1) /\ a.kind = "Input" => InAir(more, i, n + 2)
             /\ Lands(a) /\ a.jump = did[i].jump => Landed(more, i, n + 2)
  <2>1. /\ \A k \in (i + 1)..((n + 1) - 1) : k \in 1..n /\ k \in (i + 1)..((n + 2) - 1)
        /\ \A k \in (i + 1)..((n + 2) - 1) : k \in (i + 1)..((n + 1) - 1) \/ k = n + 1
        /\ n + 1 \in (i + 1)..((n + 2) - 1)
    BY <1>1
  <2>2. Landed(did, i, n + 1) => Landed(more, i, n + 2)
    BY <1>1, <2>1 DEF Landed
  <2>3. InAir(did, i, n + 1) /\ a.kind = "Input" => InAir(more, i, n + 2)
    BY <1>1, <2>1 DEF InAir
  <2>4. Lands(a) /\ a.jump = did[i].jump => Landed(more, i, n + 2)
    BY <1>1, <2>1 DEF Landed
  <2> QED BY <2>2, <2>3, <2>4
<1> QED BY <1>1, <1>2, <1>3 DEF more, n

LEMMA JumpStep ==
  ASSUME NEW m \in Moves, NEW did, JumpState(m, did), NEW a \in Action, Allowed(m, a)
  PROVE  JumpState(Applied(m, a), Append(did, a))
<1> DEFINE more == Append(did, a)
           n == Len(did)
           o == Applied(m, a)
<1>1. did \in Seq(Action) /\ n \in Nat
  BY DEF JumpState
<1>2. /\ more \in Seq(Action) /\ Len(more) = n + 1 /\ more[n + 1] = a
      /\ \A i \in 1..n : more[i] = did[i] /\ i \in 1..(n + 1)
      /\ \A i \in 1..(n + 1) : i \in 1..n \/ i = n + 1
      /\ n + 1 \in 1..(n + 1) /\ (n + 1) + 1 = n + 2 /\ (n + 1) - 1 = n
      /\ \A j \in 1..n : \A i \in 1..(j - 1) : i \in 1..n
  BY <1>1, OneMore
<1>3. /\ \A i \in 1..n, j \in 1..(n + 1) : /\ Landed(more, i, j) <=> Landed(did, i, j)
                                           /\ InAir(more, i, j) <=> InAir(did, i, j)
      /\ \A i \in 1..n :
           /\ Landed(did, i, n + 1) => Landed(more, i, n + 2)
           /\ InAir(did, i, n + 1) /\ a.kind = "Input" => InAir(more, i, n + 2)
           /\ Lands(a) /\ a.jump = did[i].jump => Landed(more, i, n + 2)
  BY <1>1, OneMore
<1>4. /\ o.jump = a.jump
      /\ o.air = CASE a.kind = "Jump" -> TRUE
                   [] a.kind \in {"Land", "Respawn"} -> FALSE
                   [] OTHER -> m.air
      /\ m.air \in BOOLEAN /\ m.jump \in Nat /\ a.jump \in Nat /\ a.kind \in Kinds
      /\ \A i \in 1..n : did[i].jump \in Nat
  <2>1. \A b \in Action : b.jump \in Nat /\ b.kind \in Kinds
    BY Bounds DEF Action
  <2>2. m.air \in BOOLEAN /\ m.jump \in Nat
    BY DEF Moves
  <2>3. \A i \in 1..n : did[i] \in Action
    BY <1>1
  <2>4. /\ o.jump = a.jump
        /\ o.air = CASE a.kind = "Jump" -> TRUE
                     [] a.kind \in {"Land", "Respawn"} -> FALSE
                     [] OTHER -> m.air
    BY AppliedMoves
  <2> QED BY <2>1, <2>2, <2>3, <2>4
<1>5. /\ Alternates(did)
      /\ \A i \in 1..n : did[i].kind = "Jump" => did[i].jump <= m.jump
      /\ m.air => \E i \in 1..n : /\ did[i].kind = "Jump" /\ did[i].jump = m.jump
                                  /\ InAir(did, i, n + 1)
      /\ ~m.air => \A i \in 1..n : did[i].kind = "Jump" => Landed(did, i, n + 1)
  BY DEF JumpState
<1>6. \A j \in 1..n :
        /\ did[j].kind = "Jump" =>
             \A i \in 1..(j - 1) :
               did[i].kind = "Jump" => did[i].jump < did[j].jump /\ Landed(did, i, j)
        /\ did[j].kind = "Land" =>
             \E i \in 1..(j - 1) :
               did[i].kind = "Jump" /\ did[i].jump = did[j].jump /\ InAir(did, i, j)
  BY <1>1, <1>5 DEF Alternates
<1>7. \/ a.kind = "Jump" /\ ~m.air /\ a.jump > m.jump
      \/ a.kind = "Respawn" /\ a.jump = m.jump
      \/ a.kind = "Land" /\ m.air /\ a.jump = m.jump
      \/ a.kind = "Input" /\ a.jump = m.jump
  BY DEF Allowed, TakesOff, ComesDown
<1> HIDE DEF more, n, o
<1>8. Alternates(more)
  <2>1. ASSUME NEW j \in 1..n
        PROVE  /\ more[j].kind = "Jump" =>
                    \A i \in 1..(j - 1) :
                      more[i].kind = "Jump" => more[i].jump < more[j].jump /\ Landed(more, i, j)
               /\ more[j].kind = "Land" =>
                    \E i \in 1..(j - 1) :
                      more[i].kind = "Jump" /\ more[i].jump = more[j].jump /\ InAir(more, i, j)
    <3>1. more[j] = did[j] /\ \A i \in 1..(j - 1) : i \in 1..n /\ more[i] = did[i]
      BY <1>2
    <3>2. \A i \in 1..(j - 1) : /\ Landed(more, i, j) <=> Landed(did, i, j)
                                /\ InAir(more, i, j) <=> InAir(did, i, j)
      BY <1>2, <1>3
    <3> QED BY <1>6, <3>1, <3>2
  <2>2. ASSUME a.kind = "Jump", NEW i \in 1..n, more[i].kind = "Jump"
        PROVE  more[i].jump < a.jump /\ Landed(more, i, n + 1)
    <3>1. did[i].kind = "Jump" /\ more[i] = did[i] /\ ~m.air /\ a.jump > m.jump
      BY <1>2, <1>7, <2>2
    <3>2. did[i].jump <= m.jump /\ Landed(did, i, n + 1)
      BY <1>5, <3>1
    <3>3. did[i].jump < a.jump
      BY <1>4, <3>1, <3>2
    <3> QED BY <1>2, <1>3, <3>1, <3>2, <3>3
  <2>3. ASSUME a.kind = "Land"
        PROVE  \E i \in 1..n : /\ more[i].kind = "Jump" /\ more[i].jump = a.jump
                               /\ InAir(more, i, n + 1)
    <3>1. m.air /\ a.jump = m.jump
      BY <1>7, <2>3
    <3>2. PICK i \in 1..n : did[i].kind = "Jump" /\ did[i].jump = m.jump /\ InAir(did, i, n + 1)
      BY <1>5, <3>1
    <3> QED BY <1>2, <1>3, <3>1, <3>2
  <2>4. ASSUME NEW j \in 1..(n + 1)
        PROVE  /\ more[j].kind = "Jump" =>
                    \A i \in 1..(j - 1) :
                      more[i].kind = "Jump" => more[i].jump < more[j].jump /\ Landed(more, i, j)
               /\ more[j].kind = "Land" =>
                    \E i \in 1..(j - 1) :
                      more[i].kind = "Jump" /\ more[i].jump = more[j].jump /\ InAir(more, i, j)
    <3>1. CASE j \in 1..n
      BY <2>1, <3>1
    <3>2. CASE j = n + 1
      <4>1. more[j] = a /\ j - 1 = n
        BY <1>2, <3>2
      <4> QED BY <2>2, <2>3, <3>2, <4>1
    <3> QED BY <1>2, <3>1, <3>2
  <2>5. DOMAIN more = 1..(n + 1)
    BY <1>2
  <2> QED BY <2>4, <2>5 DEF Alternates
<1>9. ASSUME NEW i \in 1..(n + 1), more[i].kind = "Jump"
      PROVE  more[i].jump <= o.jump
  <2>1. CASE i = n + 1
    BY <1>2, <1>4, <2>1
  <2>2. CASE i \in 1..n
    <3>1. did[i].jump <= m.jump /\ more[i] = did[i] /\ did[i].jump \in Nat
      BY <1>2, <1>4, <1>5, <1>9, <2>2
    <3>2. m.jump <= a.jump
      BY <1>4, <1>7
    <3> QED BY <1>4, <3>1, <3>2
  <2> QED BY <1>2, <2>1, <2>2
<1>10. ASSUME o.air
       PROVE  \E i \in 1..(n + 1) : /\ more[i].kind = "Jump" /\ more[i].jump = o.jump
                                    /\ InAir(more, i, n + 2)
  <2>1. CASE a.kind = "Jump"
    <3>1. InAir(more, n + 1, n + 2)
      <4>1. \A k \in ((n + 1) + 1)..((n + 2) - 1) : FALSE
        BY <1>1 DEF n
      <4> QED BY <4>1 DEF InAir
    <3> QED BY <1>2, <1>4, <2>1, <3>1
  <2>2. CASE a.kind = "Input" /\ a.jump = m.jump
    <3>1. m.air
      BY <1>4, <1>10, <2>2
    <3>2. PICK i \in 1..n : did[i].kind = "Jump" /\ did[i].jump = m.jump /\ InAir(did, i, n + 1)
      BY <1>5, <3>1
    <3> QED BY <1>2, <1>3, <1>4, <2>2, <3>2
  <2> QED BY <1>4, <1>7, <1>10, <2>1, <2>2
<1>11. ASSUME ~o.air, NEW i \in 1..(n + 1), more[i].kind = "Jump"
       PROVE  Landed(more, i, n + 2)
  <2>0. a.kind # "Jump"
    BY <1>4, <1>11
  <2>1. i \in 1..n /\ did[i].kind = "Jump" /\ more[i] = did[i]
    BY <1>2, <1>11, <2>0
  <2>2. CASE ~m.air
    BY <1>3, <1>5, <2>1, <2>2
  <2>3. CASE m.air
    <3>1. Lands(a) /\ a.jump = m.jump
      BY <1>4, <1>7, <1>11, <2>0, <2>3 DEF Lands
    <3>2. PICK last \in 1..n : /\ did[last].kind = "Jump" /\ did[last].jump = m.jump
                               /\ InAir(did, last, n + 1)
      BY <1>5, <2>3
    <3>3. CASE i = last
      BY <1>3, <2>1, <3>1, <3>2, <3>3
    <3>4. CASE i < last
      <4>1. i \in 1..(last - 1)
        BY <1>1, <2>1, <3>4 DEF n
      <4>2. Landed(did, i, last)
        BY <1>6, <2>1, <3>2, <4>1
      <4>3. Landed(did, i, n + 1)
        <5>1. \A k \in (i + 1)..(last - 1) : k \in (i + 1)..((n + 1) - 1)
          BY <1>1 DEF n
        <5> QED BY <4>2, <5>1 DEF Landed
      <4> QED BY <1>3, <2>1, <4>3
    <3>5. CASE i > last
      <4>1. i \in (last + 1)..((n + 1) - 1)
        BY <1>1, <2>1, <3>5 DEF n
      <4> QED BY <2>1, <3>2, <4>1 DEF InAir
    <3>6. i \in Nat /\ last \in Nat
      BY <1>1, <2>1 DEF n
    <3> QED BY <3>3, <3>4, <3>5, <3>6
  <2> QED BY <1>4, <2>2, <2>3
<1>12. Len(more) + 1 = n + 2
  BY <1>1, <1>2 DEF n
<1>13. JumpState(o, more)
  <2>1. \A i \in 1..Len(more) : more[i].kind = "Jump" => more[i].jump <= o.jump
    BY <1>2, <1>9
  <2>2. o.air => \E i \in 1..Len(more) : /\ more[i].kind = "Jump" /\ more[i].jump = o.jump
                                         /\ InAir(more, i, Len(more) + 1)
    BY <1>2, <1>10, <1>12
  <2>3. ~o.air => \A i \in 1..Len(more) : more[i].kind = "Jump" => Landed(more, i, Len(more) + 1)
    BY <1>2, <1>11, <1>12
  <2> QED BY <1>2, <1>8, <2>1, <2>2, <2>3 DEF JumpState
<1> QED BY <1>13 DEF more, o

ActionsOf(q) == [i \in DOMAIN q |-> q[i].action]

LEMMA OutcomeJumps ==
  ASSUME NEW p, move[p] \in Moves, NEW did, JumpState(move[p], did), NEW batch \in Seq(Action)
  PROVE  JumpState(Outcome(p, batch).move, did \o Outcome(p, batch).took)
<1> DEFINE H == {d \in Does : JumpState(d.move, did \o d.took)}
<1>0. did \in Seq(Action)
  BY DEF JumpState
<1>1. Begun(p) \in H
  <2>1. Begun(p) \in Does /\ Begun(p).move = move[p] /\ Begun(p).took = <<>>
    BY DEF Begun, Does
  <2>2. did \o <<>> = did
    BY <1>0, ConcatEmptySeq
  <2> QED BY <2>1, <2>2
<1>2. ASSUME NEW d \in H, NEW a \in Action PROVE AcceptAction(d, a) \in H
  <2> DEFINE e == AcceptAction(d, a)
  <2>1. /\ d \in Does /\ d.move \in Moves /\ d.took \in Seq(Action)
        /\ JumpState(d.move, did \o d.took)
    BY DEF Does
  <2>2. CASE e = d
    BY <2>2
  <2>3. CASE Allowed(d.move, a) /\ e = [move |-> Applied(d.move, a), took |-> Append(d.took, a)]
    <3>1. JumpState(Applied(d.move, a), Append(did \o d.took, a))
      BY <2>1, <2>3, JumpStep
    <3>2. did \o Append(d.took, a) = Append(did \o d.took, a)
      BY <1>0, <2>1
    <3>3. Applied(d.move, a) \in Moves /\ Append(d.took, a) \in Seq(Action)
      <4>1. Applied(d.move, a) \in Moves
        BY <2>1, AppliedMoves
      <4>2. Append(d.took, a) \in Seq(Action)
        BY <2>1
      <4> QED BY <4>1, <4>2
    <3> HIDE DEF e
    <3>4. e \in Does /\ e.move = Applied(d.move, a) /\ e.took = Append(d.took, a)
      BY <2>3, <3>3 DEF Does
    <3>5. e \in H
      BY <3>1, <3>2, <3>4
    <3> QED BY <3>5 DEF e
  <2>4. CASE e = [move |-> Consume(d.move, a), took |-> d.took]
    <3>1. /\ Consume(d.move, a) \in Moves /\ Consume(d.move, a).jump = d.move.jump
          /\ Consume(d.move, a).air = d.move.air
      BY <2>1, AppliedMoves
    <3>2. JumpState(Consume(d.move, a), did \o d.took)
      BY <2>1, <3>1 DEF JumpState
    <3> HIDE DEF e
    <3>3. e \in Does /\ e.move = Consume(d.move, a) /\ e.took = d.took
      BY <2>1, <2>4, <3>1 DEF Does
    <3>4. e \in H
      BY <3>2, <3>3
    <3> QED BY <3>4 DEF e
  <2> QED BY <2>1, <2>2, <2>3, <2>4, AcceptActionIs
<1> HIDE DEF H
<1>3. Outcome(p, batch) \in H
  BY <1>1, <1>2, OutcomeIn
<1> QED BY <1>3 DEF H

-----------------------------------------------------------------------------
(* The invariant.                                                             *)

TypeInv ==
  /\ where \in [Players -> Maps \cup {None}] /\ move \in [Players -> Moves]
  /\ queue \in [Players -> Seq(Item)] /\ made \in [Players -> Seq(Item)]
  /\ screen \in [Players -> [Players -> Nat]] /\ closing \in [Players -> BOOLEAN]

\* What a player did in its visit is numbered upwards, to its last number.
MadeInv ==
  \A s \in Players :
    /\ Rising(made[s])
    /\ \A i \in 1..Len(made[s]) : /\ made[s][i].from = s /\ made[s][i].visit = move[s].gen
                                  /\ made[s][i].action.seq <= move[s].seq

JumpsInv == \A p \in Players : JumpState(move[p], ActionsOf(made[p]))

\* What waits is within the limit, and of players of the same map.
QueueInv ==
  \A r \in Players :
    /\ Len(queue[r]) <= Limit
    /\ \A i \in 1..Len(queue[r]) : where[r] # None /\ where[queue[r][i].from] = where[r]

\* Who is not being closed and shares a map with s will hear of all it does.
Hears(r, s) == ~closing[r] /\ where[r] # None /\ where[s] = where[r]
UpToDate(r, s) ==
  /\ screen[r][s] <= move[s].seq
  /\ From(queue[r], s) = Newer(made[s], screen[r][s])
ViewInv == \A r, s \in Players : Hears(r, s) => UpToDate(r, s)

RelayInv == TypeInv /\ MadeInv /\ JumpsInv /\ QueueInv /\ ViewInv

LEMMA KeepLen ==
  ASSUME NEW S, NEW T, NEW q \in Seq(S)
  PROVE  Len(Keep(q, T)) <= Len(q)
<1> DEFINE G == {t \in Seq(S) : Len(Keep(t, T)) <= Len(t)}
<1>1. <<>> \in G
  <2>1. <<>> \in Seq(S) /\ Len(<<>>) <= Len(<<>>)
    OBVIOUS
  <2> QED BY <2>1, KeepEmpty
<1>2. ASSUME NEW t \in G, NEW x \in S PROVE Append(t, x) \in G
  <2> DEFINE k == Keep(t, T)
             l == Keep(Append(t, x), T)
  <2>1. k \in Seq(S) /\ l = IF x \in T THEN Append(k, x) ELSE k
    BY <1>2, KeepSeq, KeepAppend
  <2>2. Len(k) <= Len(t) /\ t \in Seq(S)
    BY <1>2
  <2> HIDE DEF k, l
  <2>3. Len(k) \in Nat /\ Len(t) \in Nat /\ Len(Append(t, x)) = Len(t) + 1
        /\ Len(Append(k, x)) = Len(k) + 1 /\ Append(t, x) \in Seq(S)
    BY <2>1, <2>2
  <2>4. Len(l) <= Len(Append(t, x))
    BY <2>1, <2>2, <2>3
  <2> QED BY <2>3, <2>4 DEF l
<1> HIDE DEF G
<1>3. G = Seq(S)
  <2>1. G \in SUBSET Seq(S)
    BY DEF G
  <2> QED BY <1>1, <1>2, <2>1, SeqInduction
<1> QED BY <1>3 DEF G

LEMMA FromNewer ==
  ASSUME NEW q, NEW s, NEW n
  PROVE  /\ From(q, s) = Keep(q, Owner(s)) /\ Newer(q, n) = Keep(q, After(n))
         /\ From(<<>>, s) = <<>> /\ Newer(<<>>, n) = <<>>
<1>1. From(q, s) = Keep(q, Owner(s)) /\ Newer(q, n) = Keep(q, After(n))
  BY DEF From, Newer, Owner, After
<1>2. From(<<>>, s) = Keep(<<>>, Owner(s)) /\ Newer(<<>>, n) = Keep(<<>>, After(n))
  BY DEF From, Newer, Owner, After
<1> QED BY <1>1, <1>2, KeepEmpty

\* The other queues once a player left.
LEMMA RemovedIs ==
  ASSUME TypeInv, NEW p \in Players
  PROVE  LET left == RemovePlayer(p) IN
         /\ left \in [Players -> Seq(Item)] /\ left[p] = <<>>
         /\ \A r \in Players :
              /\ Len(left[r]) <= Len(queue[r])
              /\ \A i \in 1..Len(left[r]) :
                   left[r][i].from # p /\ \E j \in 1..Len(queue[r]) : queue[r][j] = left[r][i]
              /\ From(left[r], p) = <<>>
              /\ r # p => \A s \in Players \ {p} : From(left[r], s) = From(queue[r], s)
<1> DEFINE left == RemovePlayer(p)
           others == {item \in Item : item.from # p}
<1>1. \A r \in Players : queue[r] \in Seq(Item)
  BY DEF TypeInv
<1>2. /\ left[p] = <<>> /\ \A r \in Players \ {p} : left[r] = Keep(queue[r], others)
      /\ left = [r \in Players |-> left[r]]
  BY DEF RemovePlayer
<1> HIDE DEF left, others
<1>3. \A r \in Players : left[r] \in Seq(Item)
  <2>1. <<>> \in Seq(Item)
    OBVIOUS
  <2>2. \A r \in Players : Keep(queue[r], others) \in Seq(Item)
    BY <1>1, KeepSeq
  <2> QED BY <1>2, <2>1, <2>2
<1>4. left \in [Players -> Seq(Item)]
  BY <1>2, <1>3
<1>5. ASSUME NEW r \in Players
      PROVE  /\ Len(left[r]) <= Len(queue[r])
             /\ \A i \in 1..Len(left[r]) :
                  left[r][i].from # p /\ \E j \in 1..Len(queue[r]) : queue[r][j] = left[r][i]
             /\ From(left[r], p) = <<>>
             /\ r # p => \A s \in Players \ {p} : From(left[r], s) = From(queue[r], s)
  <2>1. CASE r = p
    <3>1. Len(left[r]) = 0 /\ Len(queue[r]) \in Nat /\ From(left[r], p) = <<>>
      BY <1>1, <1>2, <2>1, FromNewer
    <3> QED BY <2>1, <3>1
  <2>2. CASE r # p
    <3>1. left[r] = Keep(queue[r], others) /\ queue[r] \in Seq(Item)
      BY <1>1, <1>2, <2>2
    <3>2. Len(left[r]) <= Len(queue[r])
      BY <3>1, KeepLen
    <3>3. \A i \in 1..Len(left[r]) :
            left[r][i] \in others /\ \E j \in 1..Len(queue[r]) : queue[r][j] = left[r][i]
      BY <3>1, KeepIn
    <3>4. \A i \in 1..Len(left[r]) : left[r][i] \notin Owner(p)
      BY <3>3 DEF others, Owner
    <3>5. From(left[r], p) = <<>>
      <4>1. Keep(left[r], Owner(p)) = <<>>
        BY <1>3, <3>4, KeepNone
      <4>2. From(left[r], p) = Keep(left[r], Owner(p))
        BY FromNewer
      <4> QED BY <4>1, <4>2
    <3>6. ASSUME NEW s \in Players \ {p} PROVE From(left[r], s) = From(queue[r], s)
      <4>1. Owner(s) \in SUBSET others
        BY DEF Owner, others
      <4>2. Keep(Keep(queue[r], others), Owner(s)) = Keep(queue[r], Owner(s))
        BY <3>1, <4>1, KeepTwice
      <4> QED BY <3>1, <4>2, FromNewer
    <3> QED BY <3>2, <3>3, <3>5, <3>6 DEF others
  <2> QED BY <2>1, <2>2
<1> QED BY <1>2, <1>4, <1>5 DEF left

\* A player's state, handed to a newcomer, leaves nothing new of it.
LEMMA LastMadeIs ==
  ASSUME TypeInv, MadeInv, NEW s \in Players
  PROVE  /\ LastMade(s) \in Nat /\ LastMade(s) <= move[s].seq
         /\ Newer(made[s], LastMade(s)) = <<>>
<1> DEFINE q == made[s]
           n == LastMade(s)
<1>1. q \in Seq(Item) /\ move[s] \in Moves /\ move[s].seq \in Nat
  BY DEF TypeInv, Moves
<1>2. /\ Rising(q)
      /\ \A i \in 1..Len(q) : q[i].action.seq <= move[s].seq
  BY DEF MadeInv
<1>3. n = IF q = <<>> THEN 0 ELSE q[Len(q)].action.seq
  BY DEF LastMade
<1> HIDE DEF q, n
<1>4. CASE q = <<>>
  <2>1. n = 0 /\ Newer(q, n) = <<>>
    BY <1>3, <1>4, FromNewer
  <2>2. 0 <= move[s].seq
    BY <1>1
  <2> QED BY <2>1, <2>2 DEF q, n
<1>5. CASE q # <<>>
  <2>1. Len(q) \in 1..Len(q) /\ q[Len(q)] \in Item /\ n = q[Len(q)].action.seq /\ Len(q) \in Nat
    BY <1>1, <1>3, <1>5
  <2>2. n \in Nat /\ n <= move[s].seq
    BY <1>2, <2>1, ItemNumber
  <2>3. \A i \in 1..Len(q) : q[i] \notin After(n)
    <3> SUFFICES ASSUME NEW i \in 1..Len(q) PROVE ~(q[i].action.seq > n)
      BY DEF After
    <3>1. CASE i = Len(q)
      BY <2>1, <2>2, <3>1
    <3>2. CASE i # Len(q)
      <4>1. i < Len(q) /\ q[i] \in Item
        BY <1>1, <2>1, <3>2
      <4>2. q[i].action.seq < n /\ q[i].action.seq \in Nat
        BY <1>2, <2>1, <4>1, ItemNumber DEF Rising
      <4> QED BY <2>2, <4>2
    <3> QED BY <3>1, <3>2
  <2>4. Newer(q, n) = <<>>
    <3>1. Keep(q, After(n)) = <<>>
      BY <1>1, <2>3, KeepNone
    <3>2. Newer(q, n) = Keep(q, After(n))
      BY FromNewer
    <3> QED BY <3>1, <3>2
  <2> QED BY <2>2, <2>4 DEF q, n
<1> QED BY <1>4, <1>5

LEMMA JumpsBegin ==
  ASSUME NEW m, m.air = FALSE
  PROVE  JumpState(m, ActionsOf(<<>>))
<1>1. ActionsOf(<<>>) = <<>> /\ <<>> \in Seq(Action) /\ Len(<<>>) = 0
  BY DEF ActionsOf
<1>2. Alternates(<<>>)
  BY DEF Alternates
<1>3. \A i \in 1..Len(<<>>) : FALSE
  OBVIOUS
<1>4. JumpState(m, <<>>)
  BY <1>1, <1>2, <1>3 DEF JumpState
<1> QED BY <1>1, <1>4

LEMMA FreshIs == Fresh \in Moves /\ Fresh.air = FALSE /\ Fresh.seq = 0
BY DEF Fresh, Moves

LEMMA BeginMapIs ==
  ASSUME NEW m \in Moves
  PROVE  BeginMap(m) \in Moves /\ BeginMap(m).air = FALSE /\ BeginMap(m).seq = 0
<1>1. ASSUME NEW f \in Moves, NEW n \in Nat
      PROVE  [f EXCEPT !.gen = n] \in Moves /\ [f EXCEPT !.gen = n].air = f.air
             /\ [f EXCEPT !.gen = n].seq = f.seq
  BY DEF Moves
<1>2. m.gen + 1 \in Nat
  BY DEF Moves
<1> QED BY <1>1, <1>2, FreshIs DEF BeginMap

\* p starts anew with the movement state next, in map m or in none.
Restarts(p, m, next) ==
  /\ where' = [where EXCEPT ![p] = m]
  /\ move' = [move EXCEPT ![p] = next]
  /\ queue' = RemovePlayer(p)
  /\ made' = [made EXCEPT ![p] = <<>>]

LEMMA RestartStep ==
  ASSUME RelayInv, NEW p \in Players, NEW m \in Maps \cup {None},
         NEW next \in Moves, next.air = FALSE, Restarts(p, m, next),
         screen' \in [Players -> [Players -> Nat]], closing' \in [Players -> BOOLEAN],
         \A r \in Players \ {p} : closing'[r] = closing[r],
         \A r \in Players : screen'[r][p] = 0,
         \A r, s \in Players \ {p} : Hears(r, s) => screen'[r][s] = screen[r][s],
         \A s \in Players \ {p} : m # None /\ where[s] = m => screen'[p][s] = LastMade(s)
  PROVE  RelayInv'
<1>0. TypeInv /\ MadeInv /\ JumpsInv /\ QueueInv /\ ViewInv
  BY DEF RelayInv
<1>1. /\ where'[p] = m /\ \A r \in Players \ {p} : where'[r] = where[r]
      /\ move'[p] = next /\ \A r \in Players \ {p} : move'[r] = move[r]
      /\ made'[p] = <<>> /\ \A r \in Players \ {p} : made'[r] = made[r]
      /\ where' \in [Players -> Maps \cup {None}] /\ move' \in [Players -> Moves]
  BY <1>0 DEF Restarts, TypeInv
<1>2. /\ queue' \in [Players -> Seq(Item)] /\ queue'[p] = <<>>
      /\ \A r \in Players :
           /\ Len(queue'[r]) <= Len(queue[r])
           /\ \A i \in 1..Len(queue'[r]) :
                queue'[r][i].from # p /\ \E j \in 1..Len(queue[r]) : queue[r][j] = queue'[r][i]
           /\ From(queue'[r], p) = <<>>
           /\ r # p => \A s \in Players \ {p} : From(queue'[r], s) = From(queue[r], s)
  BY <1>0, RemovedIs DEF Restarts
<1>3. made' \in [Players -> Seq(Item)]
  <2>1. <<>> \in Seq(Item) /\ made \in [Players -> Seq(Item)]
    BY <1>0 DEF TypeInv
  <2> QED BY <2>1 DEF Restarts
<1>4. TypeInv'
  BY <1>1, <1>2, <1>3 DEF TypeInv
<1>5. MadeInv'
  <2> SUFFICES ASSUME NEW s \in Players
               PROVE  /\ Rising(made'[s])
                      /\ \A i \in 1..Len(made'[s]) :
                           /\ made'[s][i].from = s /\ made'[s][i].visit = move'[s].gen
                           /\ made'[s][i].action.seq <= move'[s].seq
    BY DEF MadeInv
  <2>1. CASE s = p
    <3>1. made'[s] = <<>> /\ Len(<<>>) = 0
      BY <1>1, <2>1
    <3>2. Rising(<<>>)
      BY DEF Rising
    <3>3. Len(made'[s]) = 0 /\ Rising(made'[s])
      BY <3>1, <3>2
    <3>4. \A i \in 1..Len(made'[s]) : FALSE
      BY <3>3
    <3> QED BY <3>3, <3>4
  <2>2. CASE s # p
    <3>1. made'[s] = made[s] /\ move'[s] = move[s]
      BY <1>1, <2>2
    <3>2. /\ Rising(made[s])
          /\ \A i \in 1..Len(made[s]) : /\ made[s][i].from = s /\ made[s][i].visit = move[s].gen
                                        /\ made[s][i].action.seq <= move[s].seq
      BY <1>0 DEF MadeInv
    <3> QED BY ONLY <3>1, <3>2
  <2> QED BY <2>1, <2>2
<1>6. JumpsInv'
  <2> SUFFICES ASSUME NEW s \in Players PROVE JumpState(move'[s], ActionsOf(made'[s]))
    BY DEF JumpsInv
  <2>1. CASE s = p
    BY <1>1, <2>1, JumpsBegin
  <2>2. CASE s # p
    BY <1>0, <1>1, <2>2 DEF JumpsInv
  <2> QED BY <2>1, <2>2
<1>7. QueueInv'
  <2> SUFFICES ASSUME NEW r \in Players
               PROVE  /\ Len(queue'[r]) <= Limit
                      /\ \A i \in 1..Len(queue'[r]) :
                           where'[r] # None /\ where'[queue'[r][i].from] = where'[r]
    BY DEF QueueInv
  <2>1. Len(queue'[r]) <= Limit
    <3>1. /\ Len(queue'[r]) \in Nat /\ Len(queue[r]) \in Nat /\ Limit \in Nat
          /\ Len(queue'[r]) <= Len(queue[r]) /\ Len(queue[r]) <= Limit
      BY <1>0, <1>2, Bounds DEF QueueInv, TypeInv
    <3> QED BY <3>1
  <2>2. ASSUME NEW i \in 1..Len(queue'[r])
        PROVE  where'[r] # None /\ where'[queue'[r][i].from] = where'[r]
    <3>1. r # p
      BY <1>2, <2>2
    <3>2. PICK j \in 1..Len(queue[r]) : queue[r][j] = queue'[r][i]
      BY <1>2
    <3>3. where[r] # None /\ where[queue[r][j].from] = where[r]
      BY <1>0 DEF QueueInv
    <3>4. queue'[r][i].from # p /\ queue'[r][i].from \in Players
      <4>1. queue[r][j] \in Item
        BY <1>0 DEF TypeInv
      <4> QED BY <1>2, <3>2, <4>1, ItemNumber
    <3> QED BY <1>1, <3>1, <3>2, <3>3, <3>4
  <2> QED BY <2>1, <2>2
<1>8. ViewInv'
  <2> SUFFICES ASSUME NEW r \in Players, NEW s \in Players,
                      ~closing'[r], where'[r] # None, where'[s] = where'[r]
               PROVE  /\ screen'[r][s] <= move'[s].seq
                      /\ From(queue'[r], s) = Newer(made'[s], screen'[r][s])
    BY DEF ViewInv, Hears, UpToDate
  <2>0. move'[s].seq \in Nat
    BY <1>1 DEF Moves
  <2>1. CASE s = p
    <3>1. screen'[r][s] = 0 /\ From(queue'[r], s) = <<>> /\ made'[s] = <<>>
      BY <1>1, <1>2, <2>1
    <3>2. Newer(<<>>, screen'[r][s]) = <<>>
      BY FromNewer
    <3>3. screen'[r][s] <= move'[s].seq
      BY <2>0, <3>1
    <3> QED BY <3>1, <3>2, <3>3
  <2>2. CASE s # p /\ r = p
    <3>1. where[s] = m /\ m # None
      BY <1>1, <2>2
    <3>2. screen'[r][s] = LastMade(s) /\ queue'[r] = <<>> /\ made'[s] = made[s]
          /\ move'[s] = move[s]
      BY <1>1, <1>2, <2>2, <3>1
    <3>3. LastMade(s) <= move[s].seq /\ Newer(made[s], LastMade(s)) = <<>>
      BY <1>0, LastMadeIs
    <3> QED BY <3>2, <3>3, FromNewer
  <2>3. CASE s # p /\ r # p
    <3>1. Hears(r, s)
      BY <1>1, <2>3 DEF Hears
    <3>2. /\ screen'[r][s] = screen[r][s] /\ closing'[r] = closing[r]
          /\ From(queue'[r], s) = From(queue[r], s)
          /\ made'[s] = made[s] /\ move'[s] = move[s]
      BY <1>1, <1>2, <2>3, <3>1
    <3>3. UpToDate(r, s)
      BY <1>0, <3>1 DEF ViewInv
    <3> QED BY <3>2, <3>3 DEF UpToDate
  <2> QED BY <2>1, <2>2, <2>3
<1> QED BY <1>4, <1>5, <1>6, <1>7, <1>8 DEF RelayInv

-----------------------------------------------------------------------------
(* Batches.                                                                   *)

Items == Seq(Item)
Actions == Seq(Action)

LEMMA ItemsJoin ==
  ASSUME NEW q \in Items, NEW r \in Items
  PROVE  /\ q \o r \in Items /\ Len(q \o r) = Len(q) + Len(r)
         /\ Len(q) \in Nat /\ Len(r) \in Nat
         /\ \A i \in 1..(Len(q) + Len(r)) :
              (q \o r)[i] = IF i <= Len(q) THEN q[i] ELSE r[i - Len(q)]
BY ConcatProperties, LenProperties DEF Items

LEMMA ActionsJoin ==
  ASSUME NEW q \in Actions, NEW r \in Actions
  PROVE  /\ q \o r \in Actions /\ Len(q \o r) = Len(q) + Len(r)
         /\ \A i \in 1..(Len(q) + Len(r)) :
              (q \o r)[i] = IF i <= Len(q) THEN q[i] ELSE r[i - Len(q)]
BY ConcatProperties DEF Actions

ItemsOf(p, visit, took) ==
  [i \in DOMAIN took |-> [from |-> p, visit |-> visit, action |-> took[i]]]

LEMMA ItemsAre ==
  ASSUME NEW p \in Players, NEW visit \in Nat, NEW took \in Seq(Action)
  PROVE  LET items == ItemsOf(p, visit, took) IN
         /\ items \in Seq(Item) /\ Len(items) = Len(took)
         /\ \A i \in 1..Len(took) : /\ items[i].from = p /\ items[i].visit = visit
                                    /\ items[i].action = took[i]
<1> DEFINE items == ItemsOf(p, visit, took)
<1>1. /\ items \in [1..Len(took) -> Item] /\ Len(took) \in Nat
      /\ \A i \in 1..Len(took) : items[i] = [from |-> p, visit |-> visit, action |-> took[i]]
  BY DEF ItemsOf, Item
<1> HIDE DEF items
<1>2. items \in Seq(Item) /\ Len(items) = Len(took)
  BY <1>1
<1>3. ASSUME NEW i \in 1..Len(took)
      PROVE  items[i].from = p /\ items[i].visit = visit /\ items[i].action = took[i]
  BY <1>1
<1> QED BY <1>2, <1>3 DEF items

LEMMA DidJoin ==
  ASSUME NEW q \in Seq(Item), NEW p \in Players, NEW visit \in Nat, NEW took \in Seq(Action)
  PROVE  ActionsOf(q \o ItemsOf(p, visit, took)) = ActionsOf(q) \o took
<1> DEFINE items == ItemsOf(p, visit, took)
           a == ActionsOf(q \o items)
           b == ActionsOf(q)
           both == b \o took
<1>1. /\ items \in Seq(Item) /\ Len(items) = Len(took) /\ Len(took) \in Nat /\ Len(q) \in Nat
      /\ \A i \in 1..Len(took) : items[i].action = took[i]
  BY ItemsAre
<1>2. /\ q \o items \in Seq(Item) /\ Len(q \o items) = Len(q) + Len(took)
      /\ \A i \in 1..(Len(q) + Len(took)) :
           (q \o items)[i] = IF i <= Len(q) THEN q[i] ELSE items[i - Len(q)]
  <2> HIDE DEF items
  <2>1. q \in Items /\ items \in Items
    BY <1>1 DEF Items
  <2>2. /\ q \o items \in Items /\ Len(q \o items) = Len(q) + Len(items)
        /\ \A i \in 1..(Len(q) + Len(items)) :
             (q \o items)[i] = IF i <= Len(q) THEN q[i] ELSE items[i - Len(q)]
    BY ONLY <2>1, ItemsJoin
  <2>3. q \o items \in Seq(Item)
    BY <2>2 DEF Items
  <2> QED BY <1>1, <2>2, <2>3
<1>3. \A s \in Seq(Item) : /\ ActionsOf(s) \in Seq(Action) /\ Len(ActionsOf(s)) = Len(s)
                           /\ \A i \in 1..Len(s) : ActionsOf(s)[i] = s[i].action
  <2> SUFFICES ASSUME NEW s \in Seq(Item)
               PROVE  /\ ActionsOf(s) \in Seq(Action) /\ Len(ActionsOf(s)) = Len(s)
                      /\ \A i \in 1..Len(s) : ActionsOf(s)[i] = s[i].action
    OBVIOUS
  <2>1. Len(s) \in Nat /\ DOMAIN s = 1..Len(s) /\ \A i \in 1..Len(s) : s[i].action \in Action
    BY ItemNumber
  <2>2. ActionsOf(s) \in [1..Len(s) -> Action]
    BY <2>1 DEF ActionsOf
  <2>3. \A i \in 1..Len(s) : ActionsOf(s)[i] = s[i].action
    BY <2>1 DEF ActionsOf
  <2> QED BY <2>1, <2>2, <2>3
<1>4. /\ b \in Seq(Action) /\ Len(b) = Len(q) /\ \A i \in 1..Len(q) : b[i] = q[i].action
  BY <1>3
<1>5. /\ a \in Seq(Action) /\ Len(a) = Len(q) + Len(took)
      /\ \A i \in 1..(Len(q) + Len(took)) : a[i] = (q \o items)[i].action
  <2> DEFINE u == q \o items
  <2>1. u \in Seq(Item) /\ Len(u) = Len(q) + Len(took)
    BY <1>2
  <2> HIDE DEF u
  <2>2. /\ ActionsOf(u) \in Seq(Action) /\ Len(ActionsOf(u)) = Len(u)
        /\ \A i \in 1..Len(u) : ActionsOf(u)[i] = u[i].action
    BY <1>3, <2>1
  <2> QED BY <2>1, <2>2 DEF u
<1> HIDE DEF b, a, items
<1>6. /\ both \in Seq(Action) /\ Len(both) = Len(q) + Len(took)
      /\ \A i \in 1..(Len(q) + Len(took)) :
           both[i] = IF i <= Len(q) THEN b[i] ELSE took[i - Len(q)]
  <2>1. b \in Actions /\ took \in Actions
    BY <1>4 DEF Actions
  <2>2. /\ both \in Actions /\ Len(both) = Len(b) + Len(took)
        /\ \A i \in 1..(Len(b) + Len(took)) :
             both[i] = IF i <= Len(b) THEN b[i] ELSE took[i - Len(b)]
    BY ONLY <2>1, ActionsJoin
  <2>3. both \in Seq(Action)
    BY <2>2 DEF Actions
  <2> QED BY <1>4, <2>2, <2>3
<1> HIDE DEF both
<1>7. ASSUME NEW i \in 1..(Len(q) + Len(took)) PROVE a[i] = both[i]
  <2>1. CASE i <= Len(q)
    <3>1. i \in 1..Len(q)
      BY <1>1, <2>1
    <3> QED BY <1>2, <1>4, <1>5, <1>6, <2>1, <3>1
  <2>2. CASE ~(i <= Len(q))
    <3>1. i - Len(q) \in 1..Len(took)
      BY <1>1, <2>2
    <3> QED BY <1>1, <1>2, <1>5, <1>6, <2>2, <3>1
  <2> QED BY <2>1, <2>2
<1>8. a = both
  BY <1>5, <1>6, <1>7
<1> QED BY <1>8 DEF a, b, both, items

LEMMA BatchIs ==
  ASSUME NEW p \in Players, NEW batch \in Batches(p)
  PROVE  batch \in Seq(Action)
<1>1. PICK n \in 1..MaxBatch : batch \in [1..n -> Reports[p]]
  BY DEF Batches
<1>2. Reports[p] \subseteq Action /\ n \in Nat
  BY Bounds
<1> QED BY <1>1, <1>2

LEMMA ReceiveStep ==
  ASSUME RelayInv, NEW p \in Players, NEW visit, NEW batch \in Batches(p),
         where[p] # None, AcceptActionBatch(p, visit), ReceiveActions(p, visit, batch),
         UNCHANGED <<where, screen>>
  PROVE  RelayInv'
<1>0. /\ TypeInv /\ MadeInv /\ JumpsInv /\ QueueInv /\ ViewInv
      /\ where' = where /\ screen' = screen
  BY DEF RelayInv
<1> DEFINE done == Outcome(p, batch)
           took == done.took
           items == ItemsOf(p, visit, took)
           to == Present(where[p])
<1>1. visit = move[p].gen /\ move[p] \in Moves /\ visit \in Nat /\ move[p].seq \in Nat
  BY <1>0 DEF AcceptActionBatch, TypeInv, Moves
<1>2. /\ Numbered(move[p], done)
      /\ JumpState(done.move, ActionsOf(made[p]) \o took)
  <2>1. batch \in Seq(Action)
    BY BatchIs
  <2>2. JumpState(move[p], ActionsOf(made[p]))
    BY <1>0 DEF JumpsInv
  <2> QED BY <1>1, <2>1, <2>2, OutcomeNumbered, OutcomeJumps
<1>3. /\ done.move \in Moves /\ took \in Seq(Action) /\ done.move.gen = visit
      /\ move[p].seq <= done.move.seq /\ done.move.seq \in Nat
      /\ \A i \in 1..Len(took) : move[p].seq < took[i].seq /\ took[i].seq <= done.move.seq
      /\ \A i, j \in 1..Len(took) : i < j => took[i].seq < took[j].seq
  BY <1>1, <1>2 DEF Numbered, Does, Moves
<1>4. /\ move' = [move EXCEPT ![p] = done.move]
      /\ made' = [made EXCEPT ![p] = @ \o items]
      /\ queue' = [r \in Players |-> IF r \in to THEN Queued(r, items) ELSE queue[r]]
      /\ closing' = [r \in Players |-> closing[r] \/ (r \in to /\ Overflow(r, items))]
  BY DEF ReceiveActions, ItemsOf
<1>5. to = {r \in Players : where[r] = where[p]}
  BY DEF Present
<1> HIDE DEF done, to
<1>6. /\ items \in Seq(Item) /\ Len(items) = Len(took) /\ Len(took) \in Nat
      /\ \A i \in 1..Len(items) : /\ items[i].from = p /\ items[i].visit = visit
                                  /\ items[i].action = took[i]
  BY <1>1, <1>3, ItemsAre
<1>7. \A r \in Players : /\ queue[r] \in Seq(Item) /\ made[r] \in Seq(Item)
                         /\ queue[r] \o items \in Seq(Item) /\ made[r] \o items \in Seq(Item)
                         /\ screen[r] \in [Players -> Nat] /\ closing[r] \in BOOLEAN
                         /\ Len(queue[r]) \in Nat
  BY <1>0, <1>6, ConcatProperties DEF TypeInv
<1>8. Limit \in Nat \ {0}
  BY Bounds
<1>9. TypeInv'
  <2>1. \A r \in Players : Queued(r, items) \in Seq(Item)
    BY <1>7, <1>8, FirstOfIs DEF Queued
  <2>2. queue' \in [Players -> Seq(Item)]
    BY <1>4, <1>7, <2>1
  <2>3. move' \in [Players -> Moves] /\ made' \in [Players -> Seq(Item)]
    BY <1>0, <1>3, <1>4, <1>7 DEF TypeInv
  <2>4. closing' \in [Players -> BOOLEAN]
    BY <1>4, <1>7
  <2> QED BY <1>0, <2>2, <2>3, <2>4 DEF TypeInv
<1>10. /\ made'[p] = made[p] \o items /\ move'[p] = done.move
       /\ \A s \in Players \ {p} : made'[s] = made[s] /\ move'[s] = move[s]
  BY <1>0, <1>4 DEF TypeInv
<1>11. MadeInv'
  <2> SUFFICES ASSUME NEW s \in Players
               PROVE  /\ Rising(made'[s])
                      /\ \A i \in 1..Len(made'[s]) :
                           /\ made'[s][i].from = s /\ made'[s][i].visit = move'[s].gen
                           /\ made'[s][i].action.seq <= move'[s].seq
    BY DEF MadeInv
  <2>1. /\ Rising(made[s])
        /\ \A i \in 1..Len(made[s]) : /\ made[s][i].from = s /\ made[s][i].visit = move[s].gen
                                      /\ made[s][i].action.seq <= move[s].seq
    BY <1>0 DEF MadeInv
  <2>2. CASE s # p
    <3>1. made'[s] = made[s] /\ move'[s] = move[s]
      BY <1>10, <2>2
    <3> QED BY ONLY <2>1, <3>1
  <2>3. CASE s = p
    <3> DEFINE q == made[p]
               both == q \o items
    <3>1. q \in Seq(Item) /\ Rising(q) /\ Len(q) \in Nat
          /\ \A i \in 1..Len(q) : /\ q[i].from = p /\ q[i].visit = visit
                                  /\ q[i].action.seq <= move[p].seq /\ q[i].action.seq \in Nat
      <4>1. \A i \in 1..Len(q) : q[i] \in Item
        BY <1>7
      <4>2. \A i \in 1..Len(q) : q[i].action.seq \in Nat
        BY <4>1, ItemNumber
      <4> QED BY <1>1, <1>7, <2>1, <2>3, <4>2
    <3>2. \A i \in 1..Len(items) : items[i].action.seq \in Nat
      <4>1. \A i \in 1..Len(items) : items[i] \in Item
        BY <1>6
      <4> QED BY <4>1, ItemNumber
    <3> HIDE DEF items, q, took
    <3>3. Rising(items)
      BY <1>3, <1>6 DEF Rising
    <3>4. \A i \in 1..Len(q), j \in 1..Len(items) : q[i].action.seq < items[j].action.seq
      <4> SUFFICES ASSUME NEW i \in 1..Len(q), NEW j \in 1..Len(items)
                   PROVE  q[i].action.seq < items[j].action.seq
        OBVIOUS
      <4>1. items[j].action = took[j] /\ move[p].seq < took[j].seq
        BY <1>3, <1>6
      <4>2. q[i].action.seq <= move[p].seq /\ q[i].action.seq \in Nat
            /\ items[j].action.seq \in Nat
        BY <3>1, <3>2
      <4> QED BY ONLY <1>1, <4>1, <4>2
    <3>5. Rising(both)
      BY <1>6, <3>1, <3>3, <3>4, RisingConcat
    <3>6. /\ Len(both) = Len(q) + Len(items)
          /\ \A i \in 1..(Len(q) + Len(items)) :
               both[i] = IF i <= Len(q) THEN q[i] ELSE items[i - Len(q)]
      <4>1. q \in Items /\ items \in Items
        BY <1>6, <3>1 DEF Items
      <4> QED BY ONLY <4>1, ItemsJoin
    <3> HIDE DEF both
    <3>7. ASSUME NEW i \in 1..Len(both)
          PROVE  /\ both[i].from = p /\ both[i].visit = done.move.gen
                 /\ both[i].action.seq <= done.move.seq
      <4>1. CASE i \in 1..Len(q)
        <5>1. both[i] = q[i]
          BY <1>6, <3>1, <3>6, <3>7, <4>1
        <5>2. q[i].action.seq <= move[p].seq /\ q[i].action.seq \in Nat
          BY <3>1, <4>1
        <5>3. q[i].action.seq <= done.move.seq
          BY ONLY <1>1, <1>3, <5>2
        <5> QED BY <1>3, <3>1, <4>1, <5>1, <5>3
      <4>2. CASE i \notin 1..Len(q)
        <5>1. i - Len(q) \in 1..Len(items) /\ ~(i <= Len(q)) /\ i \in 1..(Len(q) + Len(items))
          BY <1>6, <3>1, <3>6, <3>7, <4>2
        <5>2. both[i] = items[i - Len(q)]
          BY <3>6, <5>1
        <5> QED BY <1>3, <1>6, <5>1, <5>2
      <4> QED BY <4>1, <4>2
    <3>8. made'[s] = both /\ move'[s] = done.move
      BY <1>10, <2>3 DEF both, q
    <3> QED BY ONLY <2>3, <3>5, <3>7, <3>8
  <2> QED BY <2>2, <2>3
<1>12. JumpsInv'
  <2> SUFFICES ASSUME NEW s \in Players PROVE JumpState(move'[s], ActionsOf(made'[s]))
    BY DEF JumpsInv
  <2>1. CASE s = p
    <3>1. ActionsOf(made[p] \o items) = ActionsOf(made[p]) \o took
      <4>1. made[p] \in Seq(Item) /\ took \in Seq(Action) /\ visit \in Nat /\ p \in Players
        BY <1>1, <1>3, <1>7
      <4> HIDE DEF took
      <4> QED BY ONLY <4>1, DidJoin DEF items
    <3> QED BY <1>2, <1>10, <2>1, <3>1
  <2>2. CASE s # p
    BY <1>0, <1>10, <2>2 DEF JumpsInv
  <2> QED BY <2>1, <2>2
<1> HIDE DEF items
<1>13. \A r \in Players :
         /\ r \notin to => queue'[r] = queue[r] /\ closing'[r] = closing[r]
         /\ r \in to => /\ queue'[r] = FirstOf(queue[r] \o items, Limit)
                        /\ ~closing'[r] => ~closing[r] /\ queue'[r] = queue[r] \o items
  <2> SUFFICES ASSUME NEW r \in Players, r \in to, ~closing'[r]
               PROVE  ~closing[r] /\ FirstOf(queue[r] \o items, Limit) = queue[r] \o items
    <3>1. \A r \in Players : queue'[r] = IF r \in to THEN Queued(r, items) ELSE queue[r]
      BY <1>4
    <3>2. \A r \in Players : r \notin to => closing'[r] = closing[r]
      BY <1>4, <1>7
    <3> QED BY <3>1, <3>2 DEF Queued
  <2>1. ~closing[r] /\ ~(Len(queue[r]) + Len(items) > Limit)
    BY <1>4 DEF Overflow
  <2>2. Len(queue[r] \o items) = Len(queue[r]) + Len(items)
    <3>1. queue[r] \in Items /\ items \in Items
      BY <1>6, <1>7 DEF Items
    <3> QED BY ONLY <3>1, ItemsJoin
  <2>3. Len(queue[r] \o items) <= Limit
    <3>1. Len(queue[r]) \in Nat /\ Len(items) \in Nat
      BY <1>6, <1>7
    <3> QED BY ONLY <1>8, <2>1, <2>2, <3>1
  <2> QED BY <1>7, <1>8, <2>1, <2>3, FirstOfIs
<1>14. QueueInv'
  <2> SUFFICES ASSUME NEW r \in Players
               PROVE  /\ Len(queue'[r]) <= Limit
                      /\ \A i \in 1..Len(queue'[r]) :
                           where'[r] # None /\ where'[queue'[r][i].from] = where'[r]
    BY DEF QueueInv
  <2>1. /\ Len(queue[r]) <= Limit
        /\ \A i \in 1..Len(queue[r]) : where[r] # None /\ where[queue[r][i].from] = where[r]
    BY <1>0 DEF QueueInv
  <2>2. CASE r \notin to
    <3>1. queue'[r] = queue[r]
      BY <1>13, <2>2
    <3> QED BY <1>0, <2>1, <3>1
  <2>3. CASE r \in to
    <3> DEFINE both == queue[r] \o items
    <3>1. where[r] = where[p]
      BY <1>5, <2>3
    <3>2. queue'[r] = FirstOf(both, Limit) /\ both \in Seq(Item)
      BY <1>7, <1>13, <2>3
    <3>3. /\ Len(both) = Len(queue[r]) + Len(items)
          /\ \A i \in 1..(Len(queue[r]) + Len(items)) :
               both[i] = IF i <= Len(queue[r]) THEN queue[r][i] ELSE items[i - Len(queue[r])]
      <4>1. queue[r] \in Items /\ items \in Items
        BY <1>6, <1>7 DEF Items
      <4> QED BY ONLY <4>1, ItemsJoin
    <3> HIDE DEF both
    <3>4. Len(queue'[r]) <= Limit
      BY <1>8, <3>2, FirstOfIs
    <3>5. ASSUME NEW i \in 1..Len(queue'[r])
          PROVE  where[r] # None /\ where[queue'[r][i].from] = where[r]
      <4>1. queue'[r][i] = both[i] /\ i \in 1..Len(both)
        BY <1>8, <3>2, FirstOfIs
      <4>2. CASE i <= Len(queue[r])
        <5>1. i \in 1..Len(queue[r])
          BY <1>6, <1>7, <3>3, <4>1, <4>2
        <5>2. i \in 1..(Len(queue[r]) + Len(items))
          BY <3>3, <4>1
        <5>3. both[i] = queue[r][i]
          BY <3>3, <4>2, <5>2
        <5> QED BY <2>1, <4>1, <5>1, <5>3
      <4>3. CASE ~(i <= Len(queue[r]))
        <5>0. i \in 1..(Len(queue[r]) + Len(items))
          BY <3>3, <4>1
        <5>1. i - Len(queue[r]) \in 1..Len(items)
          <6>1. Len(queue[r]) \in Nat /\ Len(items) \in Nat
            BY <1>6, <1>7
          <6> QED BY ONLY <4>3, <5>0, <6>1
        <5>2. both[i] = items[i - Len(queue[r])]
          BY <3>3, <4>3, <5>0
        <5> QED BY <1>6, <3>1, <4>1, <5>1, <5>2
      <4> QED BY <4>2, <4>3
    <3> QED BY <1>0, <3>4, <3>5
  <2> QED BY <2>2, <2>3
<1>15. ViewInv'
  <2> SUFFICES ASSUME NEW r \in Players, NEW s \in Players,
                      ~closing'[r], where[r] # None, where[s] = where[r]
               PROVE  /\ screen[r][s] <= move'[s].seq
                      /\ From(queue'[r], s) = Newer(made'[s], screen[r][s])
    BY <1>0 DEF ViewInv, Hears, UpToDate
  <2>0. Hears(r, s)
    BY <1>13 DEF Hears
  <2>1. /\ screen[r][s] <= move[s].seq /\ screen[r][s] \in Nat /\ move[s].seq \in Nat
        /\ From(queue[r], s) = Newer(made[s], screen[r][s])
    BY <1>0, <1>7, <2>0 DEF ViewInv, UpToDate, TypeInv, Moves
  <2>2. screen[r][s] <= move'[s].seq
    <3>1. CASE s = p
      <4>1. move'[s] = done.move /\ move[p].seq <= done.move.seq /\ done.move.seq \in Nat
        BY <1>3, <1>10, <3>1
      <4> QED BY <2>1, <3>1, <4>1
    <3>2. CASE s # p
      BY <1>10, <2>1, <3>2
    <3> QED BY <3>1, <3>2
  <2>3. ASSUME r \in to
        PROVE  From(queue'[r], s) = Newer(made'[s], screen[r][s])
    <3>1. ~closing[r] /\ queue'[r] = queue[r] \o items
      BY <1>13, <2>3
    <3>2. From(queue[r], s) = Newer(made[s], screen[r][s])
      BY <2>1, <3>1
    <3>3. From(queue'[r], s) = From(queue[r], s) \o Keep(items, Owner(s))
      <4>1. Keep(queue[r] \o items, Owner(s)) = Keep(queue[r], Owner(s)) \o Keep(items, Owner(s))
        BY <1>6, <1>7, KeepConcat
      <4> QED BY <3>1, <4>1, FromNewer
    <3>4. CASE s # p
      <4>1. \A i \in 1..Len(items) : items[i] \notin Owner(s)
        BY <1>6, <3>4 DEF Owner
      <4>2. Keep(items, Owner(s)) = <<>>
        BY <1>6, <4>1, KeepNone
      <4>3. From(queue[r], s) \in Seq(Item)
        <5>1. Keep(queue[r], Owner(s)) \in Seq(Item)
          BY <1>7, KeepSeq
        <5> QED BY <5>1, FromNewer
      <4>4. From(queue[r], s) \o <<>> = From(queue[r], s)
        BY <4>3, ConcatEmptySeq
      <4> QED BY <1>10, <3>2, <3>3, <3>4, <4>2, <4>4
    <3>5. CASE s = p
      <4> DEFINE v == screen[r][s]
      <4>1. \A i \in 1..Len(items) : items[i] \in Owner(p)
        <5>1. \A i \in 1..Len(items) : items[i] \in Item
          BY <1>6
        <5> QED BY <1>6, <5>1 DEF Owner
      <4>2. Keep(items, Owner(p)) = items
        BY <1>6, <4>1, KeepAll
      <4>3. \A i \in 1..Len(items) : items[i] \in After(v)
        <5> SUFFICES ASSUME NEW i \in 1..Len(items) PROVE items[i] \in After(v)
          OBVIOUS
        <5>1. items[i] \in Item /\ items[i].action.seq \in Nat
          BY <1>6, ItemNumber
        <5>2. move[p].seq < items[i].action.seq
          BY <1>3, <1>6
        <5>3. v <= move[p].seq /\ v \in Nat
          BY <2>1, <3>5
        <5> HIDE DEF v
        <5>4. items[i].action.seq > v
          BY ONLY <1>1, <5>1, <5>2, <5>3
        <5> QED BY <5>1, <5>4 DEF After
      <4> HIDE DEF v
      <4>4. Keep(items, After(v)) = items
        BY <1>6, <4>3, KeepAll
      <4>5. Keep(made[p] \o items, After(v)) = Keep(made[p], After(v)) \o Keep(items, After(v))
        BY <1>6, <1>7, KeepConcat
      <4>6. Newer(made'[p], v) = Newer(made[p], v) \o items
        BY <1>10, <4>4, <4>5, FromNewer
      <4>7. From(queue'[r], p) = Newer(made[p], v) \o items
        BY <3>2, <3>3, <3>5, <4>2 DEF v
      <4> QED BY <3>5, <4>6, <4>7 DEF v
    <3> QED BY <3>4, <3>5
  <2>4. ASSUME r \notin to
        PROVE  From(queue'[r], s) = Newer(made'[s], screen[r][s])
    <3>1. queue'[r] = queue[r]
      BY <1>13, <2>4
    <3>2. s # p
      BY <1>5, <2>4
    <3>3. made'[s] = made[s]
      BY <1>10, <3>2
    <3> QED BY <2>1, <3>1, <3>3
  <2> QED BY <2>2, <2>3, <2>4
<1> QED BY <1>9, <1>11, <1>12, <1>14, <1>15 DEF RelayInv

-----------------------------------------------------------------------------
(* Ticks.                                                                     *)

\* Handing out the front packet of a queue leaves what is new.
LEMMA ShownIs ==
  ASSUME RelayInv, NEW r \in Players, NEW s \in Players
  PROVE  /\ Shown(r, s) \in Nat
         /\ Hears(r, s) =>
              /\ Shown(r, s) <= move[s].seq
              /\ From(TakeFront(queue[r]), s) = Newer(made[s], Shown(r, s))
<1>0. TypeInv /\ MadeInv /\ ViewInv
  BY DEF RelayInv
<1> DEFINE q == queue[r]
           f == FirstOf(q, Pack)
           t == TakeFront(q)
           x == From(f, s)
           y == From(t, s)
           n == screen[r][s]
           d == made[s]
<1>1. q \in Seq(Item) /\ d \in Seq(Item) /\ n \in Nat /\ move[s].seq \in Nat
  BY <1>0 DEF TypeInv, Moves
<1>2. f \in Seq(Item) /\ t \in Seq(Item) /\ f \o t = q
  BY <1>1, FrontAndRest
<1>3. x \in Seq(Item) /\ y \in Seq(Item) /\ From(q, s) = x \o y
  <2>1. x = Keep(f, Owner(s)) /\ y = Keep(t, Owner(s)) /\ From(q, s) = Keep(q, Owner(s))
    BY FromNewer
  <2> HIDE DEF f, t, x, y, q
  <2>2. Keep(f \o t, Owner(s)) = Keep(f, Owner(s)) \o Keep(t, Owner(s))
    BY <1>2, KeepConcat
  <2>3. x \in Seq(Item)
    BY <1>2, <2>1, KeepSeq
  <2>4. y \in Seq(Item)
    BY <1>2, <2>1, KeepSeq
  <2> QED BY <1>2, <2>1, <2>2, <2>3, <2>4
<1>4. Shown(r, s) = IF x = <<>> THEN n ELSE x[Len(x)].action.seq
  BY DEF Shown
<1>5. Rising(d) /\ \A i \in 1..Len(d) : d[i].action.seq <= move[s].seq
  BY <1>0 DEF MadeInv
<1>6. Hears(r, s) => n <= move[s].seq /\ From(q, s) = Newer(d, n)
  BY <1>0 DEF ViewInv, UpToDate
<1> HIDE DEF f, t, x, y, q, n, d
<1>7. CASE x = <<>>
  <2>1. Shown(r, s) = n /\ From(q, s) = y
    <3>1. <<>> \o y = y
      BY <1>3, ConcatEmptySeq
    <3> QED BY <1>3, <1>4, <1>7, <3>1
  <2> QED BY <1>1, <1>6, <2>1 DEF y, t, q, d
<1>8. CASE x # <<>>
  <2> DEFINE w == x[Len(x)].action.seq
  <2>1. Len(x) \in 1..Len(x) /\ x[Len(x)] \in Item
    BY <1>3, <1>8
  <2>2. Shown(r, s) = w /\ w \in Nat
    BY <1>4, <1>8, <2>1, ItemNumber
  <2>3. ASSUME Hears(r, s)
        PROVE  w <= move[s].seq /\ y = Newer(d, w)
    <3>1. Newer(d, n) = x \o y
      BY <1>3, <1>6, <2>3
    <3>2. Newer(d, w) = y
      BY <1>1, <1>3, <1>5, <1>8, <3>1, HandedOut
    <3>3. \E j \in 1..Len(d) : d[j] = x[Len(x)]
      <4>1. Len(x) \in 1..Len(x \o y) /\ (x \o y)[Len(x)] = x[Len(x)]
        BY <1>3, <2>1, ConcatProperties
      <4>2. Newer(d, n) = Keep(d, After(n))
        BY FromNewer
      <4>3. \A i \in 1..Len(Keep(d, After(n))) :
              \E j \in 1..Len(d) : d[j] = Keep(d, After(n))[i]
        BY <1>1, KeepIn
      <4> QED BY <3>1, <4>1, <4>2, <4>3
    <3>4. w <= move[s].seq
      BY <1>5, <3>3
    <3> QED BY <3>2, <3>4
  <2> HIDE DEF w
  <2> QED BY <2>2, <2>3 DEF y, t, q, d
<1> QED BY <1>7, <1>8

LEMMA TickStep ==
  ASSUME RelayInv, NEW m \in Maps, NEW to \in SUBSET Due(m), Tick(m, to)
  PROVE  RelayInv'
<1>0. TypeInv /\ MadeInv /\ JumpsInv /\ QueueInv /\ ViewInv
  BY DEF RelayInv
<1>1. /\ where' = where /\ move' = move /\ made' = made
      /\ queue' = [r \in Players |-> IF r \in to THEN TakeFront(queue[r]) ELSE queue[r]]
  BY DEF Tick
<1>2. PICK failed \in SUBSET to :
        /\ closing' = CloseFailed(failed)
        /\ screen' = [r \in Players |-> IF r \in to \ failed
                                        THEN [s \in Players |-> Shown(r, s)] ELSE screen[r]]
  BY DEF Tick
<1>3. \A r \in Players : queue[r] \in Seq(Item) /\ TakeFront(queue[r]) \in Seq(Item)
  BY <1>0, FrontAndRest DEF TypeInv
<1>4. \A r \in Players :
        /\ r \notin to => queue'[r] = queue[r] /\ screen'[r] = screen[r]
        /\ r \in to => queue'[r] = TakeFront(queue[r])
        /\ r \in to \ failed => \A s \in Players : screen'[r][s] = Shown(r, s)
        /\ r \in failed => closing'[r] /\ screen'[r] = screen[r]
        /\ ~closing'[r] => ~closing[r] /\ r \notin failed
  BY <1>1, <1>2 DEF CloseFailed
<1>5. TypeInv'
  <2>1. queue' \in [Players -> Seq(Item)]
    BY <1>1, <1>3
  <2>2. screen' \in [Players -> [Players -> Nat]]
    <3>1. \A r \in Players : [s \in Players |-> Shown(r, s)] \in [Players -> Nat]
      BY ShownIs
    <3>2. screen \in [Players -> [Players -> Nat]]
      BY <1>0 DEF TypeInv
    <3> QED BY <1>2, <3>1, <3>2
  <2>3. closing' \in [Players -> BOOLEAN]
    BY <1>0, <1>2 DEF CloseFailed, TypeInv
  <2> QED BY <1>0, <1>1, <2>1, <2>2, <2>3 DEF TypeInv
<1>6. MadeInv' /\ JumpsInv'
  BY <1>0, <1>1 DEF MadeInv, JumpsInv
<1>7. QueueInv'
  <2> SUFFICES ASSUME NEW r \in Players
               PROVE  /\ Len(queue'[r]) <= Limit
                      /\ \A i \in 1..Len(queue'[r]) :
                           where[r] # None /\ where[queue'[r][i].from] = where[r]
    BY <1>1 DEF QueueInv
  <2>1. /\ Len(queue[r]) <= Limit
        /\ \A i \in 1..Len(queue[r]) : where[r] # None /\ where[queue[r][i].from] = where[r]
    BY <1>0 DEF QueueInv
  <2>2. CASE r \notin to
    BY <1>4, <2>1, <2>2
  <2>3. CASE r \in to
    <3> DEFINE q == queue[r]
               t == TakeFront(q)
    <3>1. queue'[r] = t
      BY <1>4, <2>3
    <3>2. /\ Len(t) <= Len(q) /\ Len(t) \in Nat /\ Len(q) \in Nat /\ Limit \in Nat
          /\ \A i \in 1..Len(t) : \E j \in 1..Len(q) : t[i] = q[j]
      <4>1. q \in Seq(Item) /\ t \in Seq(Item)
        BY <1>3
      <4>2. /\ Len(t) <= Len(q)
            /\ \A i \in 1..Len(t) : \E j \in 1..Len(q) : t[i] = q[j]
        BY <4>1, FrontAndRest
      <4> HIDE DEF q, t
      <4>3. Len(t) \in Nat /\ Len(q) \in Nat /\ Limit \in Nat
        BY <4>1, Bounds
      <4> QED BY <4>2, <4>3
    <3> HIDE DEF t
    <3>3. Len(t) <= Limit
      BY <2>1, <3>2
    <3>4. \A i \in 1..Len(t) : where[r] # None /\ where[t[i].from] = where[r]
      BY <2>1, <3>2
    <3> QED BY <3>1, <3>3, <3>4
  <2> QED BY <2>2, <2>3
<1>8. ViewInv'
  <2> SUFFICES ASSUME NEW r \in Players, NEW s \in Players,
                      ~closing'[r], where[r] # None, where[s] = where[r]
               PROVE  /\ screen'[r][s] <= move[s].seq
                      /\ From(queue'[r], s) = Newer(made[s], screen'[r][s])
    BY <1>1 DEF ViewInv, Hears, UpToDate
  <2>1. Hears(r, s) /\ UpToDate(r, s) /\ r \notin failed
    BY <1>0, <1>4 DEF ViewInv, Hears
  <2>2. CASE r \notin to
    BY <1>4, <2>1, <2>2 DEF UpToDate
  <2>3. CASE r \in to
    BY <1>4, <2>1, <2>3, ShownIs
  <2> QED BY <2>2, <2>3
<1> QED BY <1>5, <1>6, <1>7, <1>8 DEF RelayInv

-----------------------------------------------------------------------------
(* The theorems.                                                              *)

LEMMA InitInv == Init => RelayInv
<1> SUFFICES ASSUME Init PROVE RelayInv
  OBVIOUS
<1>1. <<>> \in Seq(Item) /\ Len(<<>>) = 0 /\ \A i \in 1..Len(<<>>) : FALSE
  OBVIOUS
<1>2. TypeInv
  BY <1>1, FreshIs DEF Init, TypeInv
<1>3. \A p \in Players : /\ where[p] = None /\ move[p] = Fresh
                         /\ queue[p] = <<>> /\ made[p] = <<>>
  BY DEF Init
<1>4. Rising(<<>>)
  BY <1>1 DEF Rising
<1>5. MadeInv
  BY <1>1, <1>3, <1>4 DEF MadeInv
<1>6. JumpsInv
  BY <1>3, FreshIs, JumpsBegin DEF JumpsInv
<1>7. 0 <= Limit
  BY Bounds
<1>8. QueueInv
  BY <1>1, <1>3, <1>7 DEF QueueInv
<1>9. ViewInv
  BY <1>3 DEF ViewInv, Hears
<1> QED BY <1>2, <1>5, <1>6, <1>8, <1>9 DEF RelayInv

LEMMA AddPlayerStep ==
  ASSUME RelayInv, NEW p \in Players, NEW m \in Maps, NEW player \in Moves,
         AddPlayer(p, m, player), UNCHANGED closing
  PROVE  RelayInv'
<1>1. TypeInv /\ MadeInv
  BY DEF RelayInv
<1>2. BeginMap(player) \in Moves /\ BeginMap(player).air = FALSE
  BY BeginMapIs
<1>3. Restarts(p, m, BeginMap(player))
  BY DEF AddPlayer, Restarts
<1>4. screen' = Snapshots(p, m)
  BY DEF AddPlayer
<1>5. \A s \in Players : LastMade(s) \in Nat
  BY <1>1, LastMadeIs
<1>6. screen \in [Players -> [Players -> Nat]] /\ closing' \in [Players -> BOOLEAN]
  BY <1>1 DEF TypeInv
<1>7. \A r, s \in Players :
        screen'[r][s] = IF s = p THEN 0 ELSE IF r = p /\ where[s] = m THEN LastMade(s)
                        ELSE screen[r][s]
  BY <1>4 DEF Snapshots
<1>8. screen' \in [Players -> [Players -> Nat]]
  BY <1>4, <1>5, <1>6 DEF Snapshots
<1>9. m \in Maps \cup {None} /\ \A r \in Players \ {p} : closing'[r] = closing[r]
  OBVIOUS
<1>10. /\ \A r \in Players : screen'[r][p] = 0
       /\ \A r, s \in Players \ {p} : Hears(r, s) => screen'[r][s] = screen[r][s]
       /\ \A s \in Players \ {p} : m # None /\ where[s] = m => screen'[p][s] = LastMade(s)
  BY <1>7
<1> HIDE DEF AddPlayer
<1> QED BY ONLY RelayInv, <1>2, <1>3, <1>6, <1>8, <1>9, <1>10, RestartStep

LEMMA CleanupStep ==
  ASSUME RelayInv, NEW p \in Players, Cleanup(p)
  PROVE  RelayInv'
<1>1. TypeInv
  BY DEF RelayInv
<1>2. Restarts(p, None, Fresh)
  BY DEF Cleanup, Restarts
<1>3. screen \in [Players -> [Players -> Nat]] /\ closing \in [Players -> BOOLEAN]
  BY <1>1 DEF TypeInv
<1>4. /\ screen' = [r \in Players |-> [s \in Players |-> IF p \in {r, s} THEN 0 ELSE screen[r][s]]]
      /\ closing' = [closing EXCEPT ![p] = FALSE]
  BY DEF Cleanup
<1>5. screen' \in [Players -> [Players -> Nat]] /\ closing' \in [Players -> BOOLEAN]
  BY <1>3, <1>4
<1>6. /\ \A r \in Players \ {p} : closing'[r] = closing[r]
      /\ \A r \in Players : screen'[r][p] = 0
      /\ \A r, s \in Players \ {p} : screen'[r][s] = screen[r][s]
  BY <1>3, <1>4
<1>7. None \in Maps \cup {None}
  OBVIOUS
<1> QED BY <1>2, <1>5, <1>6, <1>7, FreshIs, RestartStep

LEMMA RequestCloseStep ==
  ASSUME RelayInv, NEW p \in Players, RequestClose(p)
  PROVE  RelayInv'
<1>1. /\ where' = where /\ move' = move /\ queue' = queue /\ made' = made /\ screen' = screen
      /\ closing' = [closing EXCEPT ![p] = TRUE]
  BY DEF RequestClose
<1>2. TypeInv' /\ \A r \in Players : ~closing'[r] => ~closing[r]
  BY <1>1 DEF RelayInv, TypeInv
<1>3. MadeInv' /\ JumpsInv' /\ QueueInv'
  BY <1>1 DEF RelayInv, MadeInv, JumpsInv, QueueInv
<1>4. ViewInv'
  BY <1>1, <1>2 DEF RelayInv, ViewInv, Hears, UpToDate
<1> QED BY <1>2, <1>3, <1>4 DEF RelayInv

LEMMA StepInv == RelayInv /\ [Next]_vars => RelayInv'
<1> SUFFICES ASSUME RelayInv, [Next]_vars PROVE RelayInv'
  OBVIOUS
<1>1. TypeInv
  BY DEF RelayInv
<1>2. ASSUME NEW p \in Players, NEW m \in Maps, Enter(p, m) PROVE RelayInv'
  BY <1>2, FreshIs, AddPlayerStep DEF Enter
<1>3. ASSUME NEW p \in Players, NEW m \in Maps, ChangeMap(p, m) PROVE RelayInv'
  <2>1. move[p] \in Moves
    BY <1>1 DEF TypeInv
  <2> QED BY <1>3, <2>1, AddPlayerStep DEF ChangeMap
<1>4. ASSUME NEW p \in Players, Revive(p) PROVE RelayInv'
  <2>1. move[p] \in Moves /\ where[p] \in Maps
    BY <1>1, <1>4 DEF TypeInv, Revive
  <2> QED BY <1>4, <2>1, AddPlayerStep DEF Revive
<1>5. ASSUME NEW p \in Players, Receive(p) PROVE RelayInv'
  <2>1. /\ where[p] # None
        /\ \E visit \in 1..move[p].gen, batch \in Batches(p) :
             AcceptActionBatch(p, visit) /\ ReceiveActions(p, visit, batch)
        /\ UNCHANGED <<where, screen>>
    BY <1>5 DEF Receive
  <2> QED BY <2>1, ReceiveStep
<1>6. ASSUME NEW p \in Players, RequestClose(p) PROVE RelayInv'
  BY <1>6, RequestCloseStep
<1>7. ASSUME NEW p \in Players, Cleanup(p) PROVE RelayInv'
  BY <1>7, CleanupStep
<1>8. ASSUME NEW m \in Maps, NEW to \in SUBSET Due(m), Tick(m, to) PROVE RelayInv'
  BY <1>8, TickStep
<1>9. ASSUME UNCHANGED vars PROVE RelayInv'
  BY <1>9 DEF vars, RelayInv, TypeInv, MadeInv, JumpsInv, QueueInv, ViewInv, Hears, UpToDate
<1> QED BY <1>2, <1>3, <1>4, <1>5, <1>6, <1>7, <1>8, <1>9 DEF Next

LEMMA Invariance == Spec => []RelayInv
<1>1. Init => RelayInv
  BY InitInv
<1>2. RelayInv /\ [Next]_vars => RelayInv'
  BY StepInv
<1> QED BY <1>1, <1>2, PTL DEF Spec

\* What waits for a player is exactly what the others of its map did since it
\* last heard of them: Map::ReceiveActions3D, Tick3D and RemovePlayer lose,
\* repeat and mix up nothing, for any number of players, maps and actions.
THEOREM NothingLostOnTheWay == Spec => []RelayExact
<1>1. RelayInv => RelayExact
  <2> SUFFICES ASSUME RelayInv PROVE RelayExact
    OBVIOUS
  <2>1. TypeInv /\ MadeInv /\ QueueInv /\ ViewInv
    BY DEF RelayInv
  <2>2. \A r \in Players : DOMAIN queue[r] = 1..Len(queue[r]) /\ DOMAIN made[r] = 1..Len(made[r])
    BY <2>1 DEF TypeInv
  <2> QED BY <2>1, <2>2 DEF RelayExact, MadeInv, QueueInv, ViewInv, Hears, UpToDate, Present
<1> QED BY <1>1, Invariance, PTL

\* Whatever a client claims, Player::AcceptAction3D lets it take off with new
\* ids only, land only from a jump it is in, and be in one jump at a time.
THEOREM NoJumpInTheAir == Spec => []JumpsAlternate
<1>1. ASSUME RelayInv PROVE JumpsAlternate
  <2>1. ASSUME NEW p \in Players PROVE Alternates(ActionsOf(made[p]))
    <3>1. JumpState(move[p], ActionsOf(made[p]))
      BY <1>1 DEF RelayInv, JumpsInv
    <3> QED BY <3>1 DEF JumpState
  <2> QED BY <2>1, Zenon DEF JumpsAlternate, ActionsOf, Alternates, Landed, InAir, Lands
<1> QED BY <1>1, Invariance, PTL

=============================================================================
