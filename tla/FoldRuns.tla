------------------------------- MODULE FoldRuns -------------------------------
(***************************************************************************)
(* What FoldLeft computes over a sequence, one element at a time, for any  *)
(* operation Op (whose first argument, a parameter, is the same at every   *)
(* step): it goes through a run of values, the first of which is the base. *)
(* A module with loops over sequences instantiates this one for each loop. *)
(***************************************************************************)
EXTENDS Integers, Sequences, Folds

CONSTANT Op(_, _, _)

Max(S) == CHOOSE x \in S : \A y \in S : x >= y

Fold(p, base, seq) ==
    MapThenFoldSet(LAMBDA x, r : Op(p, r, x), base, LAMBDA i : seq[i], LAMBDA S : Max(S), DOMAIN seq)

\* h goes through the values of the fold of the first n elements.
Runs(h, p, base, seq, n) ==
    h[0] = base /\ \A k \in 1 .. n : h[k] = Op(p, h[k - 1], seq[k])

-----------------------------------------------------------------------------
\* Induction over the numbers, for a property given as the set of the numbers
\* that have it: what a module that instantiates this one proves of Nat.
Induction == \A S : 0 \in S /\ (\A n \in Nat : n \in S => n + 1 \in S) => \A n \in Nat : n \in S

LEMMA ByInduction ==
    ASSUME Induction, NEW S, 0 \in S, \A n \in Nat : n \in S => n + 1 \in S
    PROVE  \A n \in Nat : n \in S
BY DEF Induction

\* A set of positions has a last one.
LEMMA MaxOf ==
    ASSUME Induction, NEW k \in Nat, NEW s \in SUBSET (1 .. k), s # {}
    PROVE  Max(s) \in s /\ \A y \in s : y <= Max(s)
<1> DEFINE S == {n \in Nat : \A t \in SUBSET (1 .. n) : t # {} => \E x \in t : \A y \in t : x >= y}
<1>1. 0 \in S
  <2>1. 1 .. 0 = {}
    OBVIOUS
  <2> QED
    BY <2>1
<1>2. ASSUME NEW n \in Nat, n \in S PROVE n + 1 \in S
  <2>1. ASSUME NEW t \in SUBSET (1 .. (n + 1)), t # {}
        PROVE  \E x \in t : \A y \in t : x >= y
    <3>1. CASE n + 1 \in t
      <4>1. \A y \in t : n + 1 >= y
        OBVIOUS
      <4> QED
        BY <3>1, <4>1
    <3>2. CASE n + 1 \notin t
      <4>1. t \in SUBSET (1 .. n)
        BY <3>2
      <4> QED
        BY <1>2, <2>1, <4>1
    <3> QED
      BY <3>1, <3>2
  <2> QED
    BY <2>1
<1> HIDE DEF S
<1>3. k \in S
  BY <1>1, <1>2, ByInduction
<1> USE DEF S
<1>4. \E x \in s : \A y \in s : x >= y
  BY <1>3
<1>5. Max(s) = CHOOSE x \in s : \A y \in s : x >= y
  BY DEF Max
<1>6. Max(s) \in s /\ \A y \in s : Max(s) >= y
  BY <1>4, <1>5
<1> QED
  BY <1>6

LEMMA MaxInterval ==
    ASSUME Induction, NEW k \in Nat, k # 0
    PROVE  Max(1 .. k) = k /\ (1 .. k) \ {Max(1 .. k)} = 1 .. (k - 1)
<1>1. 1 .. k # {} /\ k \in 1 .. k
  OBVIOUS
<1>2. Max(1 .. k) \in 1 .. k /\ k <= Max(1 .. k)
  BY <1>1, MaxOf
<1> QED
  BY <1>2


LEMMA FoldRun ==
    ASSUME Induction, NEW p, NEW base, NEW seq, NEW n \in Nat, DOMAIN seq = 1 .. n
    PROVE  \E h : Runs(h, p, base, seq, n) /\ Fold(p, base, seq) = h[n]
<1> DEFINE Eq(g, D) == g = [s \in SUBSET D |->
                              IF s = {} THEN base ELSE Op(p, g[s \ {Max(s)}], seq[Max(s)])]
           S == {k \in Nat : \E g : Eq(g, 1 .. k)}
<1>1. 0 \in S
  <2>1. Eq([s \in SUBSET (1 .. 0) |-> base], 1 .. 0)
    OBVIOUS
  <2> QED
    BY <2>1
<1>2. ASSUME NEW k \in Nat, k \in S PROVE k + 1 \in S
  <2>1. PICK g : Eq(g, 1 .. k)
    BY <1>2
  <2> DEFINE f == [s \in SUBSET (1 .. (k + 1)) |->
                     IF k + 1 \in s THEN Op(p, g[s \ {k + 1}], seq[k + 1]) ELSE g[s]]
  <2>2. ASSUME NEW s \in SUBSET (1 .. (k + 1))
        PROVE  f[s] = IF s = {} THEN base ELSE Op(p, f[s \ {Max(s)}], seq[Max(s)])
    <3>1. CASE k + 1 \in s
      <4>1. Max(s) \in s /\ \A y \in s : y <= Max(s)
        <5>1. k + 1 \in Nat /\ s # {}
          BY <3>1
        <5> QED
          BY <5>1, MaxOf
      <4>2. Max(s) = k + 1
        <5>1. Max(s) \in 1 .. (k + 1) /\ k + 1 <= Max(s)
          BY <3>1, <4>1
        <5> QED
          BY <5>1
      <4>3. s \ {k + 1} \in SUBSET (1 .. k)
        OBVIOUS
      <4>4. f[s \ {k + 1}] = g[s \ {k + 1}]
        BY <4>3
      <4> QED
        BY <3>1, <4>2, <4>4
    <3>2. CASE k + 1 \notin s
      <4>1. s \in SUBSET (1 .. k)
        BY <3>2
      <4>2. CASE s = {}
        BY <2>1, <4>1, <4>2
      <4>3. CASE s # {}
        <5>1. s \ {Max(s)} \in SUBSET (1 .. k)
          BY <4>1
        <5>2. f[s] = g[s] /\ f[s \ {Max(s)}] = g[s \ {Max(s)}]
          BY <3>2, <5>1
        <5>3. g[s] = Op(p, g[s \ {Max(s)}], seq[Max(s)])
          BY <2>1, <4>1, <4>3
        <5> QED
          BY <4>3, <5>2, <5>3
      <4> QED
        BY <4>2, <4>3
    <3> QED
      BY <3>1, <3>2
  <2>3. Eq(f, 1 .. (k + 1))
    <3> HIDE DEF f
    <3>1. f = [s \in SUBSET (1 .. (k + 1)) |-> f[s]]
      BY DEF f
    <3>2. [s \in SUBSET (1 .. (k + 1)) |-> f[s]] =
          [s \in SUBSET (1 .. (k + 1)) |->
               IF s = {} THEN base ELSE Op(p, f[s \ {Max(s)}], seq[Max(s)])]
      BY <2>2
    <3> QED
      BY <3>1, <3>2
  <2> HIDE DEF Eq, f
  <2>4. \E g1 : Eq(g1, 1 .. (k + 1))
    BY <2>3
  <2> QED
    BY <2>4
<1> HIDE DEF S
<1>3. n \in S
  BY <1>1, <1>2, ByInduction
<1> USE DEF S
<1>4. \E g : Eq(g, 1 .. n)
  BY <1>3
<1> DEFINE iter == CHOOSE g : Eq(g, 1 .. n)
<1>5. Eq(iter, 1 .. n)
  BY <1>4
<1>6. Fold(p, base, seq) = iter[1 .. n]
  BY DEF Fold, MapThenFoldSet
<1> HIDE DEF iter
<1> DEFINE h == [k \in 0 .. n |-> iter[1 .. k]]
<1>7. h[0] = base
  BY <1>5
<1>8. ASSUME NEW k \in 1 .. n PROVE h[k] = Op(p, h[k - 1], seq[k])
  <2>1. k \in Nat /\ k # 0 /\ k - 1 \in 0 .. n /\ k \in 0 .. n
    OBVIOUS
  <2>2. Max(1 .. k) = k /\ (1 .. k) \ {Max(1 .. k)} = 1 .. (k - 1)
    BY <2>1, MaxInterval
  <2>3. 1 .. k \in SUBSET (1 .. n)
    OBVIOUS
  <2>4. 1 .. k # {}
    BY <2>1
  <2>5. iter[1 .. k] = Op(p, iter[1 .. (k - 1)], seq[k])
    BY <1>5, <2>2, <2>3, <2>4
  <2> QED
    BY <2>1, <2>5
<1>9. h[n] = iter[1 .. n]
  OBVIOUS
<1> QED
  BY <1>6, <1>7, <1>8, <1>9 DEF Runs

\* Two runs of one fold are the same.
LEMMA SameRun ==
    ASSUME Induction, NEW p, NEW base, NEW n \in Nat, NEW s, NEW t, \A k \in 1 .. n : s[k] = t[k],
           NEW g, NEW h, Runs(g, p, base, s, n), Runs(h, p, base, t, n)
    PROVE  g[n] = h[n]
<1> DEFINE S == {k \in Nat : k <= n => g[k] = h[k]}
<1>1. 0 \in S
  BY DEF Runs
<1>2. ASSUME NEW k \in Nat, k \in S PROVE k + 1 \in S
  <2>1. SUFFICES ASSUME k + 1 <= n PROVE g[k + 1] = h[k + 1]
    OBVIOUS
  <2>2. k + 1 \in 1 .. n /\ (k + 1) - 1 = k /\ g[k] = h[k]
    BY <1>2, <2>1
  <2>3. s[k + 1] = t[k + 1]
    BY <2>2
  <2>4. g[k + 1] = Op(p, g[k], s[k + 1]) /\ h[k + 1] = Op(p, h[k], t[k + 1])
    BY <2>2 DEF Runs
  <2> QED
    BY <2>2, <2>3, <2>4
<1> HIDE DEF S
<1>3. n \in S
  BY <1>1, <1>2, ByInduction
<1> QED
  BY <1>3 DEF S

-----------------------------------------------------------------------------
\* The values a loop goes through, for what holds after each step of it.
THEOREM FoldGoesThrough ==
    Induction => \A p, base, seq : \A n \in Nat : DOMAIN seq = 1 .. n =>
        \E h : Runs(h, p, base, seq, n) /\ Fold(p, base, seq) = h[n]
BY FoldRun

\* The loops of the terminal host (over queued frames, pending Inputs and
\* pending connections) start from the base, whatever they do to an element.
THEOREM FoldOfNone == Induction => \A p, base : Fold(p, base, <<>>) = base
<1> SUFFICES ASSUME Induction, NEW p, NEW base PROVE Fold(p, base, <<>>) = base
  OBVIOUS
<1>1. DOMAIN <<>> = 1 .. 0 /\ 0 \in Nat
  OBVIOUS
<1>2. PICK h : Runs(h, p, base, <<>>, 0) /\ Fold(p, base, <<>>) = h[0]
  BY <1>1, FoldRun
<1> QED
  BY <1>2 DEF Runs

\* And an element more is one step more: what a loop does to a queue with a
\* frame appended is what it does to the queue, and then to the frame.
THEOREM FoldOfAppend ==
    Induction => \A p, base, X : \A seq \in Seq(X) : \A x \in X :
        Fold(p, base, Append(seq, x)) = Op(p, Fold(p, base, seq), x)
<1> SUFFICES ASSUME Induction, NEW p, NEW base, NEW X, NEW seq \in Seq(X), NEW x \in X
             PROVE  Fold(p, base, Append(seq, x)) = Op(p, Fold(p, base, seq), x)
  OBVIOUS
<1> DEFINE n == Len(seq)
           longer == Append(seq, x)
<1>1. /\ n \in Nat /\ n + 1 \in Nat
      /\ DOMAIN seq = 1 .. n /\ DOMAIN longer = 1 .. (n + 1)
      /\ longer[n + 1] = x
      /\ \A k \in 1 .. n : longer[k] = seq[k]
  OBVIOUS
<1> HIDE DEF n, longer
<1>2. PICK h : Runs(h, p, base, seq, n) /\ Fold(p, base, seq) = h[n]
  BY <1>1, FoldRun
<1>3. PICK g : Runs(g, p, base, longer, n + 1) /\ Fold(p, base, longer) = g[n + 1]
  BY <1>1, FoldRun
<1>4. Runs(g, p, base, longer, n)
  BY <1>1, <1>3 DEF Runs
<1>5. g[n] = h[n]
  BY <1>1, <1>2, <1>4, SameRun
<1>6. n + 1 \in 1 .. (n + 1) /\ (n + 1) - 1 = n
  BY <1>1
<1>7. g[n + 1] = Op(p, g[n], x)
  BY <1>1, <1>3, <1>6 DEF Runs
<1> QED
  BY <1>2, <1>3, <1>5, <1>7 DEF longer

=============================================================================
