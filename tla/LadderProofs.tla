---------------------------- MODULE LadderProofs ----------------------------
(***************************************************************************)
(* Proofs about LadderStorage.  The first part is arithmetic on words and  *)
(* bits: while every summary bit says whether its word is empty            *)
(* (BitsExact), next_set and prev_set find what a scan of all levels would *)
(* find.  The second part reads the links of the arena as sequences of     *)
(* slots (Path) and shows, step by step, how rest, unlink_and_release and  *)
(* sweep_level carry the lists from one step to the next (Layout).  Both   *)
(* together give the refinement: links, free list and bits are the queues, *)
(* the stack and the set of Ladder.                                        *)
(***************************************************************************)
EXTENDS LadderStorage, FiniteSetTheorems, WellFoundedInduction, TLAPS

(* Sequences of slots as paths along links *)

\* The n-th member of s, and Null before its first and behind its last.
At(s, n) == IF n \in 1 .. Len(s) THEN s[n] ELSE Null

In(x, s) == \E n \in 1 .. Len(s) : At(s, n) = x

Once(s) == \A m, n \in 1 .. Len(s) : At(s, m) = At(s, n) => m = n

Last(s) == At(s, Len(s))

\* The list that starts at from and runs along link is s, and ends.
Path(link, from, s) ==
  /\ s \in Seq(Slots) /\ Once(s)
  /\ from = At(s, 1)
  /\ \A n \in 1 .. Len(s) : link[At(s, n)] = At(s, n + 1)

(* The inductive invariant: q[t] is the queue of level t, f the free list, and *)
(* r the makers the running sweep keeps.                                       *)

Live(x, t) == node[x].word = Lots /\ node[x].tick = t

\* The first maker a sweep has not come to points back at one it has.
Level(t, s) ==
  /\ Path(next, IF t = sweep THEN cursor ELSE head[t], s)
  /\ \A n \in 1 .. Len(s) : Live(At(s, n), t)
  /\ \A n \in 1 .. Len(s) : n > 1 \/ t # sweep => node[At(s, n)].prev = At(s, n - 1)
  /\ s # <<>> \/ t # sweep => tail[t] = Last(s)

Kept(r) ==
  /\ Path(next, reloadHead, r)
  /\ \A n \in 1 .. Len(r) : Live(At(r, n), sweep) /\ node[At(r, n)].prev = At(r, n - 1)
  /\ reloadTail = Last(r)
  /\ Idle => r = <<>>

Apart(q, r) == Idle \/ \A x \in Slots : In(x, r) => ~ In(x, q[sweep])

Covered(q, r) ==
  \A x \in Slots : node[x].word = Lots =>
    node[x].tick \in Ticks /\ (In(x, q[node[x].tick]) \/ In(x, r))

Pooled(f) == \A x \in Slots : node[x].word # Lots => In(x, f)

Marked(q) == \A t \in Ticks : test(t) <=> q[t] # <<>> \/ t = sweep

Layout(q, f, r) ==
  /\ q \in [Ticks -> Seq(Slots)]
  /\ Path(word, freeHead, f)
  /\ \A t \in Ticks : Level(t, q[t])
  /\ Kept(r) /\ Apart(q, r) /\ Covered(q, r) /\ Pooled(f) /\ Marked(q)

Link == Slots \union {Null}
Node == [word : Link \union {Lots}, next : Link \union {Garbage},
         prev : Link \union {Garbage}, tick : Ticks \union {Garbage}]

StorageTypes ==
  /\ node \in [Slots -> Node]
  /\ head \in [Ticks -> Link] /\ tail \in [Ticks -> Link]
  /\ sweep \in Ticks \union {NumTicks}

\* A summary bit says that its word is not empty.
BitsExact ==
  /\ l0 \in [0 .. L0Words - 1 -> SUBSET Bits]
  /\ l1 \in [0 .. L1Words - 1 -> SUBSET Bits]
  /\ l2 \in SUBSET (0 .. L1Words - 1)
  /\ \A w \in 0 .. L0Words - 1 : Bit(w) \in l1[Word(w)] <=> l0[w] # {}
  /\ \A w \in 0 .. L1Words - 1 : w \in l2 <=> l1[w] # {}
  /\ \A w \in 0 .. L1Words - 1 : \A b \in l1[w] : w * WordBits + b < L0Words

-----------------------------------------------------------------------------
(* Least and greatest elements *)

\* A non-empty set of naturals has a least element.
LEMMA NatLeast ==
  ASSUME NEW S \in SUBSET Nat, S # {}
  PROVE  \E x \in S : \A y \in S : x <= y
<1> DEFINE R == OpToRel(<, Nat)
<1>1. IsWellFoundedOn(R, Nat)
  BY NatLessThanWellFounded
<1>2. PICK x \in S : \A y \in S : ~ (<<y, x>> \in R)
  <2> HIDE DEF R
  <2> QED BY <1>1, WFMin
<1>3. ASSUME NEW y \in S PROVE x <= y
  <2>1. ~ (<<y, x>> \in Nat \X Nat /\ y < x)
    BY <1>2 DEF OpToRel
  <2> QED BY <2>1
<1> QED BY <1>3

LEMMA MinIs ==
  ASSUME NEW S \in SUBSET Nat, S # {}
  PROVE  Min(S) \in S /\ \A y \in S : Min(S) <= y
<1>1. \E x \in S : \A y \in S : x <= y
  BY NatLeast
<1> QED BY <1>1 DEF Min

LEMMA MaxIs ==
  ASSUME NEW S \in SUBSET Nat, S # {}, NEW n \in Nat, \A x \in S : x <= n
  PROVE  Max(S) \in S /\ \A y \in S : y <= Max(S)
<1> DEFINE U == {n - x : x \in S}
<1>1. U \in SUBSET Nat /\ U # {}
  <2>1. \A x \in S : n - x \in Nat
    OBVIOUS
  <2> QED BY <2>1
<1>2. PICK u \in U : \A y \in U : u <= y
  BY <1>1, NatLeast
<1>3. PICK x \in S : u = n - x
  OBVIOUS
<1>4. \A y \in S : y <= x
  <2> SUFFICES ASSUME NEW y \in S PROVE y <= x
    OBVIOUS
  <2>1. n - y \in U
    OBVIOUS
  <2>2. n - x <= n - y
    BY <1>2, <1>3, <2>1
  <2> QED BY <2>2
<1> QED BY <1>4 DEF Max

LEMMA MinUnique ==
  ASSUME NEW S \in SUBSET Nat, NEW x \in S, \A y \in S : x <= y
  PROVE  Min(S) = x
<1>1. Min(S) \in S /\ Min(S) <= x
  BY MinIs
<1>2. x <= Min(S) /\ x \in Nat /\ Min(S) \in Nat
  BY <1>1
<1> QED BY <1>1, <1>2

LEMMA MaxUnique ==
  ASSUME NEW S \in SUBSET Nat, NEW x \in S, \A y \in S : y <= x
  PROVE  Max(S) = x
<1>1. x \in Nat /\ \A y \in S : y <= x
  OBVIOUS
<1>2. Max(S) \in S /\ x <= Max(S)
  BY <1>1, MaxIs
<1>3. Max(S) <= x /\ Max(S) \in Nat
  BY <1>2
<1> QED BY <1>1, <1>2, <1>3

-----------------------------------------------------------------------------
(* Words and bits *)

LEMMA Width ==
  /\ WordBits \in Nat /\ WordBits > 0 /\ NumTicks \in Nat /\ NumTicks > 0
  /\ \A b \in Bits : b \in Nat /\ b < WordBits
  /\ \A b \in Nat : b < WordBits => b \in Bits
BY StorageAssumption DEF Bits

LEMMA Digits ==
  ASSUME NEW t \in Nat
  PROVE  Word(t) \in Nat /\ Bit(t) \in Bits /\ t = Word(t) * WordBits + Bit(t)
<1> DEFINE B == WordBits
           d == t \div B
           m == t % B
<1>1. B \in Nat /\ B > 0
  BY Width
<1> HIDE DEF B
<1>2. m \in 0 .. B - 1 /\ d \in Nat /\ t = B * d + m
  BY <1>1
<1> HIDE DEF d, m
<1>3. t = d * B + m
  BY <1>1, <1>2
<1> QED BY <1>2, <1>3 DEF B, d, m, Word, Bit, Bits

\* Words come before bits.
LEMMA Lexicographic ==
  ASSUME NEW v \in Nat, NEW w \in Nat, NEW b \in Bits, NEW c \in Bits, v < w
  PROVE  v * WordBits + b < w * WordBits + c
<1> DEFINE B == WordBits
<1>1. B \in Nat /\ b \in Nat /\ c \in Nat /\ b < B
  BY Width
<1> HIDE DEF B
<1>2. PICK k \in Nat : w = v + 1 + k
  <2>1. w - v - 1 \in Nat /\ w = v + 1 + (w - v - 1)
    OBVIOUS
  <2> QED BY <2>1
<1>3. w * B = v * B + B + k * B
  BY <1>1, <1>2
<1>4. v * B \in Nat /\ k * B \in Nat /\ w * B \in Nat
  BY <1>1
<1>5. v * B + b < w * B + c
  <2> DEFINE vB == v * B
             kB == k * B
             wB == w * B
  <2>1. vB \in Nat /\ kB \in Nat /\ wB = vB + B + kB
    BY <1>3, <1>4
  <2> HIDE DEF vB, kB, wB
  <2>2. vB + b < wB + c
    BY <1>1, <2>1
  <2> QED BY <2>2 DEF vB, wB
<1> QED BY <1>5 DEF B

LEMMA Compose ==
  ASSUME NEW w \in Nat, NEW b \in Bits
  PROVE  /\ w * WordBits + b \in Nat
         /\ Word(w * WordBits + b) = w /\ Bit(w * WordBits + b) = b
<1> DEFINE t == w * WordBits + b
<1>1. t \in Nat /\ b \in Nat
  BY Width
<1> HIDE DEF t
<1>2. Word(t) \in Nat /\ Bit(t) \in Bits /\ Word(t) * WordBits + Bit(t) = w * WordBits + b
  BY <1>1, Digits DEF t
<1>3. ~ (Word(t) < w) /\ ~ (w < Word(t))
  <2> DEFINE p == Word(t) * WordBits + Bit(t)
             u == w * WordBits + b
  <2>1. Word(t) < w => p < u
    BY <1>2, Lexicographic
  <2>2. w < Word(t) => u < p
    BY <1>2, Lexicographic
  <2>3. p = u /\ u \in Nat
    BY <1>1, <1>2 DEF t
  <2> HIDE DEF p, u
  <2> QED BY <2>1, <2>2, <2>3
<1>4. Word(t) = w
  BY <1>2, <1>3
<1>5. Bit(t) = b
  <2>1. Bit(t) \in Nat /\ w * WordBits \in Nat
    BY <1>2, Width
  <2> QED BY <1>1, <1>2, <1>4, <2>1
<1> QED BY <1>1, <1>4, <1>5 DEF t

LEMMA Order ==
  ASSUME NEW s \in Nat, NEW t \in Nat
  PROVE  /\ s <= t => Word(s) <= Word(t)
         /\ Word(s) = Word(t) => (s <= t <=> Bit(s) <= Bit(t))
         /\ Word(s) < Word(t) => s < t
         /\ Word(s) = Word(t) /\ Bit(s) = Bit(t) => s = t
<1>1. /\ Word(s) \in Nat /\ Bit(s) \in Bits /\ s = Word(s) * WordBits + Bit(s)
      /\ Word(t) \in Nat /\ Bit(t) \in Bits /\ t = Word(t) * WordBits + Bit(t)
  BY Digits
<1>2. Word(s) < Word(t) => s < t
  BY <1>1, Lexicographic
<1>3. Word(t) < Word(s) => t < s
  BY <1>1, Lexicographic
<1>4. Word(s) = Word(t) => (s <= t <=> Bit(s) <= Bit(t))
  <2> SUFFICES ASSUME Word(s) = Word(t) PROVE s <= t <=> Bit(s) <= Bit(t)
    OBVIOUS
  <2> DEFINE x == Word(s) * WordBits
  <2>1. x \in Nat /\ Bit(s) \in Nat /\ Bit(t) \in Nat /\ s = x + Bit(s) /\ t = x + Bit(t)
    BY <1>1, Width
  <2> HIDE DEF x
  <2> QED BY <2>1
<1>5. Word(s) = Word(t) /\ Bit(s) = Bit(t) => s = t
  BY <1>1
<1> QED BY <1>1, <1>2, <1>3, <1>4, <1>5

\* Every tick has a word, every word a summary bit, every bit of a word a tick.
LEMMA Extent ==
  /\ L0Words \in Nat /\ L0Words > 0 /\ L1Words \in Nat /\ L1Words <= WordBits
  /\ \A t \in Ticks : t \in Nat /\ Word(t) \in 0 .. L0Words - 1 /\ Bit(t) \in Bits
  /\ \A w \in 0 .. L0Words - 1, b \in Bits : w * WordBits + b \in Ticks
  /\ \A w \in 0 .. L0Words - 1 : w \in Nat /\ Word(w) \in 0 .. L1Words - 1 /\ Bit(w) \in Bits
<1> DEFINE B == WordBits
           W == L0Words
           V == L1Words
<1>1. B \in Nat /\ B > 0 /\ NumTicks \in Nat /\ NumTicks > 0 /\ NumTicks <= B * B * B
      /\ NumTicks % B = 0
  BY StorageAssumption
<1>2. W \in Nat /\ NumTicks = B * W
  <2> HIDE DEF B
  <2>1. W = NumTicks \div B
    BY DEF L0Words, B
  <2> QED BY <1>1, <2>1
<1>3. V \in Nat /\ B * V <= W + B - 1 /\ W + B - 1 < B * V + B
  <2>1. V = (W + B - 1) \div B
    BY DEF L1Words
  <2> HIDE DEF B, W, V
  <2>2. W + B - 1 \in Nat
    BY <1>1, <1>2
  <2> QED BY <1>1, <2>1, <2>2
<1> HIDE DEF B, W, V
<1>4. W > 0
  BY <1>1, <1>2
<1>5. W <= B * B
  <2> SUFFICES ASSUME W > B * B PROVE FALSE
    BY <1>1, <1>2
  <2> DEFINE C == B * B
  <2>1. C \in Nat /\ B * B * B = B * C
    BY <1>1
  <2> HIDE DEF C
  <2>2. W > C
    BY DEF C
  <2>3. B * W >= B * C + B
    <3>1. PICK k \in Nat : W = C + 1 + k
      <4>1. W - C - 1 \in Nat /\ W = C + 1 + (W - C - 1)
        BY <1>2, <2>1, <2>2
      <4> QED BY <4>1
    <3>2. B * W = B * C + B + B * k /\ B * k \in Nat
      BY <1>1, <2>1, <3>1
    <3> QED BY <1>1, <2>1, <3>2
  <2> QED BY <1>1, <1>2, <2>1, <2>3
<1>6. V <= B
  <2> SUFFICES ASSUME V > B PROVE FALSE
    BY <1>1, <1>3
  <2>1. B * V >= B * B + B
    <3>1. PICK k \in Nat : V = B + 1 + k
      <4>1. V - B - 1 \in Nat /\ V = B + 1 + (V - B - 1)
        BY <1>1, <1>3
      <4> QED BY <4>1
    <3>2. B * V = B * B + B + B * k /\ B * k \in Nat
      BY <1>1, <3>1
    <3> QED BY <1>1, <3>2
  <2> QED BY <1>1, <1>2, <1>3, <1>5, <2>1
<1>7. \A t \in Ticks : t \in Nat /\ Word(t) \in 0 .. W - 1 /\ Bit(t) \in Bits
  <2> SUFFICES ASSUME NEW t \in Ticks PROVE t \in Nat /\ Word(t) \in 0 .. W - 1 /\ Bit(t) \in Bits
    OBVIOUS
  <2>1. t \in Nat /\ t < W * B
    BY <1>1, <1>2 DEF Ticks
  <2>2. Word(t) \in Nat /\ Bit(t) \in Bits /\ t = Word(t) * B + Bit(t)
    BY <2>1, Digits DEF B
  <2>3. 0 \in Bits /\ Bit(t) \in Nat
    BY <2>2, Width
  <2>4. ~ (W < Word(t))
    <3> SUFFICES ASSUME W < Word(t) PROVE FALSE
      OBVIOUS
    <3>1. W * B + 0 < Word(t) * B + Bit(t)
      BY <1>2, <2>2, <2>3, Lexicographic DEF B
    <3> QED BY <1>1, <1>2, <2>1, <2>2, <3>1
  <2>5. Word(t) # W
    BY <1>1, <1>2, <2>1, <2>2, <2>3
  <2> QED BY <1>2, <2>1, <2>2, <2>4, <2>5
<1>8. \A w \in 0 .. W - 1, b \in Bits : w * B + b \in Ticks
  <2> SUFFICES ASSUME NEW w \in 0 .. W - 1, NEW b \in Bits PROVE w * B + b \in Ticks
    OBVIOUS
  <2>1. w \in Nat /\ w < W /\ 0 \in Bits
    BY <1>1, <1>2 DEF Bits, B
  <2>2. w * B + b < W * B + 0
    BY <1>2, <2>1, Lexicographic DEF B
  <2>3. w * B + b \in Nat
    BY <2>1, Compose DEF B
  <2> QED BY <1>1, <1>2, <2>2, <2>3 DEF Ticks
<1>9. \A w \in 0 .. W - 1 : w \in Nat /\ Word(w) \in 0 .. V - 1 /\ Bit(w) \in Bits
  <2> SUFFICES ASSUME NEW w \in 0 .. W - 1 PROVE w \in Nat /\ Word(w) \in 0 .. V - 1 /\ Bit(w) \in Bits
    OBVIOUS
  <2>1. w \in Nat /\ w < W
    BY <1>2
  <2>2. Word(w) \in Nat /\ Bit(w) \in Bits /\ w = Word(w) * B + Bit(w)
    BY <2>1, Digits DEF B
  <2>3. 0 \in Bits /\ Bit(w) \in Nat
    BY <2>2, Width
  <2>4. w < V * B
    BY <1>1, <1>2, <1>3, <2>1
  <2>5. ~ (V < Word(w))
    <3> SUFFICES ASSUME V < Word(w) PROVE FALSE
      OBVIOUS
    <3>1. V * B + 0 < Word(w) * B + Bit(w)
      BY <1>3, <2>2, <2>3, Lexicographic DEF B
    <3> QED BY <1>1, <1>3, <2>1, <2>2, <2>4, <3>1
  <2>6. Word(w) # V
    BY <1>1, <1>3, <2>1, <2>2, <2>3, <2>4
  <2> QED BY <1>3, <2>1, <2>2, <2>5, <2>6
<1> QED BY <1>2, <1>3, <1>4, <1>6, <1>7, <1>8, <1>9 DEF B, W, V

-----------------------------------------------------------------------------
(* The bitmap *)

WordSet == 0 .. L0Words - 1

LEMMA BitsStart == clear => BitsExact /\ \A t \in Ticks : ~ test(t)
<1> SUFFICES ASSUME clear PROVE BitsExact /\ \A t \in Ticks : ~ test(t)
  OBVIOUS
<1>1. l0 = [w \in 0 .. L0Words - 1 |-> {}] /\ l1 = [w \in 0 .. L1Words - 1 |-> {}] /\ l2 = {}
  BY DEF clear
<1> QED BY <1>1, Extent DEF BitsExact, test

\* set and reset change one tick and keep the summaries.
LEMMA SetExact ==
  ASSUME BitsExact, NEW t \in Ticks, set(t)
  PROVE  BitsExact' /\ \A x \in Ticks : test(x)' <=> test(x) \/ x = t
<1> DEFINE w == Word(t)
           v == Word(Word(t))
<1>1. /\ w \in 0 .. L0Words - 1 /\ v \in 0 .. L1Words - 1 /\ Bit(t) \in Bits /\ Bit(w) \in Bits
      /\ t \in Nat /\ w \in Nat
  BY Extent
<1>2. /\ l0' = [l0 EXCEPT ![w] = @ \union {Bit(t)}]
      /\ l1' = [l1 EXCEPT ![v] = @ \union {Bit(w)}]
      /\ l2' = l2 \union {v}
  BY DEF set
<1>3. /\ l0 \in [0 .. L0Words - 1 -> SUBSET Bits]
      /\ l1 \in [0 .. L1Words - 1 -> SUBSET Bits]
      /\ l2 \in SUBSET (0 .. L1Words - 1)
      /\ \A u \in 0 .. L0Words - 1 : Bit(u) \in l1[Word(u)] <=> l0[u] # {}
      /\ \A u \in 0 .. L1Words - 1 : u \in l2 <=> l1[u] # {}
      /\ \A u \in 0 .. L1Words - 1 : \A b \in l1[u] : u * WordBits + b < L0Words
  BY DEF BitsExact
<1>4. w = v * WordBits + Bit(w)
  BY <1>1, Digits
<1>5. \A u \in 0 .. L0Words - 1 : u \in Nat /\ Word(u) \in 0 .. L1Words - 1 /\ (Word(u) = v /\ Bit(u) = Bit(w) => u = w)
  BY <1>1, Extent, Order
<1>6. \A x \in Ticks : x \in Nat /\ Word(x) \in 0 .. L0Words - 1 /\ (Word(x) = w /\ Bit(x) = Bit(t) => x = t)
  BY <1>1, Extent, Order
<1>7. Word(w) = v
  OBVIOUS
<1> HIDE DEF w, v
<1>8. /\ \A u \in 0 .. L0Words - 1 : l0'[u] = IF u = w THEN l0[w] \union {Bit(t)} ELSE l0[u]
      /\ \A u \in 0 .. L1Words - 1 : l1'[u] = IF u = v THEN l1[v] \union {Bit(w)} ELSE l1[u]
  BY <1>1, <1>2, <1>3
<1>9. /\ l0' \in [0 .. L0Words - 1 -> SUBSET Bits]
      /\ l1' \in [0 .. L1Words - 1 -> SUBSET Bits]
      /\ l2' \in SUBSET (0 .. L1Words - 1)
  BY <1>1, <1>2, <1>3
<1>10. \A u \in 0 .. L0Words - 1 : Bit(u) \in l1'[Word(u)] <=> l0'[u] # {}
  BY <1>1, <1>3, <1>5, <1>8, <1>7
<1>11. \A u \in 0 .. L1Words - 1 : u \in l2' <=> l1'[u] # {}
  BY <1>2, <1>3, <1>8
<1>12. \A u \in 0 .. L1Words - 1 : \A b \in l1'[u] : u * WordBits + b < L0Words
  <2> SUFFICES ASSUME NEW u \in 0 .. L1Words - 1, NEW b \in l1'[u] PROVE u * WordBits + b < L0Words
    OBVIOUS
  <2>1. CASE b \in l1[u]
    BY <1>3, <2>1
  <2>2. CASE b \notin l1[u]
    <3>1. u = v /\ b = Bit(w)
      BY <1>8, <2>2
    <3> QED BY <1>1, <1>4, <3>1, Extent
  <2> QED BY <2>1, <2>2
<1>13. BitsExact'
  BY <1>9, <1>10, <1>11, <1>12 DEF BitsExact, Word, Bit, L0Words, L1Words, Bits
<1>14. \A x \in Ticks : Bit(x) \in l0'[Word(x)] <=> Bit(x) \in l0[Word(x)] \/ x = t
  BY <1>6, <1>8 DEF w
<1> QED BY <1>13, <1>14 DEF test, Word, Bit

LEMMA ResetExact ==
  ASSUME BitsExact, NEW t \in Ticks, reset(t)
  PROVE  BitsExact' /\ \A x \in Ticks : test(x)' <=> test(x) /\ x # t
<1> DEFINE w == Word(t)
           v == Word(Word(t))
           m0 == l0[w] \ {Bit(t)}
           m1 == IF m0 = {} THEN l1[v] \ {Bit(w)} ELSE l1[v]
<1>1. /\ w \in 0 .. L0Words - 1 /\ v \in 0 .. L1Words - 1 /\ Bit(t) \in Bits /\ Bit(w) \in Bits
      /\ t \in Nat /\ w \in Nat
  BY Extent
<1>2. /\ l0' = [l0 EXCEPT ![w] = m0]
      /\ l1' = [l1 EXCEPT ![v] = m1]
      /\ l2' = IF m0 = {} /\ m1 = {} THEN l2 \ {v} ELSE l2
  BY DEF reset
<1>3. /\ l0 \in [0 .. L0Words - 1 -> SUBSET Bits]
      /\ l1 \in [0 .. L1Words - 1 -> SUBSET Bits]
      /\ l2 \in SUBSET (0 .. L1Words - 1)
      /\ \A u \in 0 .. L0Words - 1 : Bit(u) \in l1[Word(u)] <=> l0[u] # {}
      /\ \A u \in 0 .. L1Words - 1 : u \in l2 <=> l1[u] # {}
      /\ \A u \in 0 .. L1Words - 1 : \A b \in l1[u] : u * WordBits + b < L0Words
  BY DEF BitsExact
<1>5. \A u \in 0 .. L0Words - 1 : u \in Nat /\ Word(u) \in 0 .. L1Words - 1 /\ (Word(u) = v /\ Bit(u) = Bit(w) => u = w)
  BY <1>1, Extent, Order
<1>6. \A x \in Ticks : x \in Nat /\ Word(x) \in 0 .. L0Words - 1 /\ (Word(x) = w /\ Bit(x) = Bit(t) => x = t)
  BY <1>1, Extent, Order
<1>4. PICK n0, n1 : n0 = m0 /\ n1 = m1
  OBVIOUS
<1>7. n0 = l0[w] \ {Bit(t)} /\ n1 = (IF n0 = {} THEN l1[v] \ {Bit(w)} ELSE l1[v])
      /\ l2' = IF n0 = {} /\ n1 = {} THEN l2 \ {v} ELSE l2
  BY <1>2, <1>4
<1>8. Word(w) = v
  OBVIOUS
<1> HIDE DEF w, v, m0, m1
<1>9. /\ \A u \in 0 .. L0Words - 1 : l0'[u] = IF u = w THEN n0 ELSE l0[u]
      /\ \A u \in 0 .. L1Words - 1 : l1'[u] = IF u = v THEN n1 ELSE l1[u]
  BY <1>1, <1>2, <1>3, <1>4
<1>10. /\ l0' \in [0 .. L0Words - 1 -> SUBSET Bits]
       /\ l1' \in [0 .. L1Words - 1 -> SUBSET Bits]
       /\ l2' \in SUBSET (0 .. L1Words - 1)
  BY <1>1, <1>2, <1>3, <1>4, <1>7
<1>11. \A u \in 0 .. L0Words - 1 : Bit(u) \in l1'[Word(u)] <=> l0'[u] # {}
  BY <1>1, <1>3, <1>5, <1>7, <1>8, <1>9
<1>12. \A u \in 0 .. L1Words - 1 : u \in l2' <=> l1'[u] # {}
  <2>1. v \in l2 <=> l1[v] # {}
    BY <1>1, <1>3
  <2>2. n0 # {} => n1 # {}
    BY <1>1, <1>3, <1>5, <1>7, <1>8
  <2> QED BY <1>3, <1>7, <1>9, <2>1, <2>2
<1>13. \A u \in 0 .. L1Words - 1 : \A b \in l1'[u] : u * WordBits + b < L0Words
  BY <1>3, <1>7, <1>9
<1>14. BitsExact'
  BY <1>10, <1>11, <1>12, <1>13 DEF BitsExact, Word, Bit, L0Words, L1Words, Bits
<1>15. \A x \in Ticks : Bit(x) \in l0'[Word(x)] <=> Bit(x) \in l0[Word(x)] /\ x # t
  BY <1>6, <1>7, <1>9 DEF w
<1> QED BY <1>14, <1>15 DEF test, Word, Bit

\* A word that is not empty has its bit in the first summary, a summary word
\* that is not empty in the second.
LEMMA Summaries ==
  ASSUME BitsExact
  PROVE  /\ \A w \in WordSet : l0[w] \subseteq Bits /\ (Bit(w) \in l1[Word(w)] <=> l0[w] # {})
         /\ \A v \in 0 .. L1Words - 1 : l1[v] \subseteq Bits /\ (v \in l2 <=> l1[v] # {})
         /\ l2 \subseteq Bits
         /\ \A v \in 0 .. L1Words - 1 : \A b \in l1[v] :
              /\ v * WordBits + b \in WordSet /\ l0[v * WordBits + b] # {}
              /\ Word(v * WordBits + b) = v /\ Bit(v * WordBits + b) = b
<1>1. /\ l0 \in [0 .. L0Words - 1 -> SUBSET Bits]
      /\ l1 \in [0 .. L1Words - 1 -> SUBSET Bits]
      /\ l2 \in SUBSET (0 .. L1Words - 1)
      /\ \A u \in 0 .. L0Words - 1 : Bit(u) \in l1[Word(u)] <=> l0[u] # {}
      /\ \A u \in 0 .. L1Words - 1 : u \in l2 <=> l1[u] # {}
      /\ \A u \in 0 .. L1Words - 1 : \A b \in l1[u] : u * WordBits + b < L0Words
  BY DEF BitsExact
<1>2. l2 \subseteq Bits
  <2> SUFFICES ASSUME NEW x \in l2 PROVE x \in Bits
    OBVIOUS
  <2>1. x \in Nat /\ x < WordBits
    BY <1>1, Extent, Width
  <2> QED BY <2>1, Width
<1>3. ASSUME NEW v \in 0 .. L1Words - 1, NEW b \in l1[v]
      PROVE  /\ v * WordBits + b \in WordSet /\ l0[v * WordBits + b] # {}
             /\ Word(v * WordBits + b) = v /\ Bit(v * WordBits + b) = b
  <2> DEFINE u == v * WordBits + b
  <2>1. v \in Nat /\ b \in Bits
    BY <1>1, <1>3
  <2>2. u \in Nat /\ Word(u) = v /\ Bit(u) = b
    BY <2>1, Compose
  <2>3. u < L0Words
    BY <1>1, <1>3
  <2> HIDE DEF u
  <2>4. u \in WordSet
    BY <2>2, <2>3, Extent DEF WordSet
  <2>5. l0[u] # {}
    BY <1>1, <1>3, <2>2, <2>4 DEF WordSet
  <2> QED BY <2>2, <2>4, <2>5 DEF u
<1> QED BY <1>1, <1>2, <1>3 DEF WordSet

LEMMA TickOfBit ==
  ASSUME BitsExact, NEW w \in WordSet, NEW b \in l0[w]
  PROVE  /\ w * WordBits + b \in Ticks /\ test(w * WordBits + b)
         /\ Word(w * WordBits + b) = w /\ Bit(w * WordBits + b) = b
<1>1. w \in Nat /\ b \in Bits
  BY Summaries, Extent DEF WordSet
<1>2. w * WordBits + b \in Ticks
  BY <1>1, Extent DEF WordSet
<1>3. Word(w * WordBits + b) = w /\ Bit(w * WordBits + b) = b
  BY <1>1, Compose
<1> QED BY <1>2, <1>3 DEF test

LEMMA MasksAre ==
  /\ \A b \in Bits : /\ Above(b) = {c \in Bits : c >= b} /\ Above(b + 1) = {c \in Bits : c > b}
                     /\ Below(WordBits - 1 - b) = {c \in Bits : c <= b}
                     /\ Below(WordBits - b) = {c \in Bits : c < b}
                     /\ Below(WordBits - 1 - b + 1) = {c \in Bits : c < b}
  /\ \A S \in SUBSET Bits : S \in SUBSET Nat /\ \A x \in S : x <= WordBits
BY Width DEF Above, Below

\* The nearest occupied tick from i upwards, and downwards.
IsNext(i, r) == r \in Ticks /\ test(r) /\ i <= r /\ \A t \in Ticks : test(t) /\ i <= t => r <= t
IsPrev(i, r) == r \in Ticks /\ test(r) /\ r <= i /\ \A t \in Ticks : test(t) /\ t <= i => t <= r

\* The lowest tick of the first word above.
LEMMA LowestNext ==
  ASSUME BitsExact, NEW i \in Ticks, NEW v \in WordSet, l0[v] # {}, Word(i) < v,
         \A t \in Ticks : test(t) /\ i <= t => v <= Word(t)
  PROVE  IsNext(i, v * WordBits + Min(l0[v]))
<1>1. Min(l0[v]) \in l0[v] /\ \A b \in l0[v] : Min(l0[v]) <= b
  BY Summaries, MasksAre, MinIs
<1> DEFINE r == v * WordBits + Min(l0[v])
<1>2. r \in Ticks /\ test(r) /\ Word(r) = v /\ Bit(r) = Min(l0[v])
  BY <1>1, TickOfBit
<1>3. i \in Nat /\ r \in Nat /\ v \in Nat /\ Word(i) \in Nat
  BY <1>2, Extent, Digits DEF WordSet
<1> HIDE DEF r
<1>4. i <= r
  BY <1>2, <1>3, Order
<1>5. ASSUME NEW t \in Ticks, test(t), i <= t PROVE r <= t
  <2>1. v <= Word(t) /\ t \in Nat /\ Word(t) \in Nat /\ Bit(t) \in l0[Word(t)]
    BY <1>5, Extent, Digits DEF test
  <2>2. CASE v = Word(t)
    BY <1>1, <1>2, <1>3, <2>1, <2>2, Order
  <2>3. CASE v # Word(t)
    <3>1. Word(r) < Word(t)
      BY <1>2, <1>3, <2>1, <2>3
    <3> QED BY <1>3, <2>1, <3>1, Order
  <2> QED BY <2>2, <2>3
<1> QED BY <1>2, <1>4, <1>5 DEF IsNext, r

LEMMA HighestPrev ==
  ASSUME BitsExact, NEW i \in Ticks, NEW v \in WordSet, l0[v] # {}, v < Word(i),
         \A t \in Ticks : test(t) /\ t <= i => Word(t) <= v
  PROVE  IsPrev(i, v * WordBits + Max(l0[v]))
<1>1. Max(l0[v]) \in l0[v] /\ \A b \in l0[v] : b <= Max(l0[v])
  BY Summaries, MasksAre, MaxIs, Width
<1> DEFINE r == v * WordBits + Max(l0[v])
<1>2. r \in Ticks /\ test(r) /\ Word(r) = v /\ Bit(r) = Max(l0[v])
  BY <1>1, TickOfBit
<1>3. i \in Nat /\ r \in Nat /\ v \in Nat /\ Word(i) \in Nat
  BY <1>2, Extent, Digits DEF WordSet
<1> HIDE DEF r
<1>4. r <= i
  BY <1>2, <1>3, Order
<1>5. ASSUME NEW t \in Ticks, test(t), t <= i PROVE t <= r
  <2>1. Word(t) <= v /\ t \in Nat /\ Word(t) \in Nat /\ Bit(t) \in l0[Word(t)]
    BY <1>5, Extent, Digits DEF test
  <2>2. CASE v = Word(t)
    BY <1>1, <1>2, <1>3, <2>1, <2>2, Order
  <2>3. CASE v # Word(t)
    <3>1. Word(t) < Word(r)
      BY <1>2, <1>3, <2>1, <2>3
    <3> QED BY <1>3, <2>1, <3>1, Order
  <2> QED BY <2>2, <2>3
<1> QED BY <1>2, <1>4, <1>5 DEF IsPrev, r

LEMMA NextFinds ==
  ASSUME BitsExact, NEW i \in Ticks
  PROVE  \/ IsNext(i, next_set(i))
         \/ next_set(i) = NPOS /\ \A t \in Ticks : i <= t => ~ test(t)
<1> DEFINE w  == Word(i)
           w1 == Word(w)
           m0 == l0[w] \intersect Above(Bit(i))
           m1 == l1[w1] \intersect Above(Bit(w) + 1)
           m2 == l2 \intersect Above(w1 + 1)
           LowestOf(v) == v * WordBits + Min(l0[v])
<1>1. /\ i \in Nat /\ w \in Nat /\ w \in WordSet /\ w1 \in Nat /\ w1 \in 0 .. L1Words - 1
      /\ Bit(i) \in Bits /\ Bit(w) \in Bits /\ w1 \in Bits /\ i < NumTicks
  <2>1. w \in WordSet /\ w1 \in 0 .. L1Words - 1 /\ i \in Nat /\ w \in Nat /\ Bit(i) \in Bits /\ Bit(w) \in Bits
    BY Extent DEF WordSet
  <2>2. w1 \in Nat /\ w1 < WordBits
    BY <2>1, Extent, Width
  <2>3. i < NumTicks
    BY Width DEF Ticks
  <2> QED BY <2>1, <2>2, <2>3, Width
<1>2. /\ m0 = {b \in l0[w] : Bit(i) <= b} /\ m1 = {b \in l1[w1] : Bit(w) < b}
      /\ m2 = {v \in l2 : w1 < v}
  BY <1>1, MasksAre, Summaries, Width
<1>3. next_set(i) = IF m0 # {} THEN w * WordBits + Min(m0)
                    ELSE IF m1 # {} THEN LowestOf(w1 * WordBits + Min(m1))
                    ELSE IF m2 # {} THEN LowestOf(Min(m2) * WordBits + Min(l1[Min(m2)]))
                    ELSE NPOS
  BY <1>1, Width DEF next_set
<1>4. \A t \in Ticks : /\ t \in Nat /\ Word(t) \in WordSet /\ Word(t) \in Nat
                       /\ (test(t) => l0[Word(t)] # {} /\ Bit(t) \in l0[Word(t)])
                       /\ (i <= t => w <= Word(t))
                       /\ (Word(t) = w => (i <= t <=> Bit(i) <= Bit(t)))
  BY <1>1, Extent, Order DEF test, WordSet
<1>5. \A u \in WordSet : l0[u] # {} =>
        /\ u \in Nat /\ Word(u) \in Nat /\ Word(u) \in l2 /\ Word(u) \in 0 .. L1Words - 1
        /\ Bit(u) \in l1[Word(u)]
        /\ (w <= u => w1 <= Word(u))
        /\ (Word(u) = w1 => (w <= u <=> Bit(w) <= Bit(u)) /\ (Bit(u) = Bit(w) => u = w))
  BY <1>1, Extent, Summaries, Order, Digits DEF WordSet
<1> HIDE DEF w, w1, m0, m1, m2, LowestOf
<1>6. \A x \in l2 : x \in 0 .. L1Words - 1 /\ x \in Nat
  BY Extent DEF BitsExact
<1>7. CASE m0 # {}
  <2>1. Min(m0) \in m0 /\ \A b \in m0 : Min(m0) <= b
    BY <1>1, <1>2, <1>7, MinIs, MasksAre, Summaries
  <2> DEFINE r == w * WordBits + Min(m0)
  <2>2. r \in Ticks /\ test(r) /\ Word(r) = w /\ Bit(r) = Min(m0) /\ r \in Nat
    BY <1>1, <1>2, <2>1, TickOfBit, Extent
  <2>3. next_set(i) = r
    BY <1>3, <1>7
  <2> HIDE DEF r
  <2>4. i <= r
    BY <1>2, <1>4, <2>1, <2>2
  <2>5. ASSUME NEW t \in Ticks, test(t), i <= t PROVE r <= t
    <3>1. CASE Word(t) = w
      <4>1. Bit(t) \in m0
        BY <1>2, <1>4, <2>5, <3>1
      <4> QED BY <1>4, <2>1, <2>2, <3>1, <4>1, Order
    <3>2. CASE Word(t) # w
      <4>1. w < Word(t)
        BY <1>1, <1>4, <2>5, <3>2
      <4> QED BY <1>4, <2>2, <4>1, Order
    <3> QED BY <3>1, <3>2
  <2> QED BY <2>2, <2>3, <2>4, <2>5 DEF IsNext
<1>8. ASSUME m0 = {}, NEW t \in Ticks, test(t), i <= t PROVE w < Word(t)
  <2>1. Word(t) # w
    BY <1>2, <1>4, <1>8
  <2> QED BY <1>1, <1>4, <1>8, <2>1
<1>9. CASE m0 = {} /\ m1 # {}
  <2>1. Min(m1) \in m1 /\ \A b \in m1 : Min(m1) <= b
    BY <1>1, <1>2, <1>9, MinIs, MasksAre, Summaries
  <2> DEFINE v == w1 * WordBits + Min(m1)
  <2>2. v \in WordSet /\ l0[v] # {} /\ Word(v) = w1 /\ Bit(v) = Min(m1) /\ v \in Nat
    BY <1>1, <1>2, <2>1, Summaries, Extent DEF WordSet
  <2>3. next_set(i) = LowestOf(v)
    BY <1>3, <1>9
  <2> HIDE DEF v
  <2>4. w < v
    <3>1. Bit(w) < Min(m1) /\ Bit(w) \in Nat /\ Min(m1) \in Nat
      <4>1. Min(m1) \in Bits
        BY <1>1, <1>2, <2>1, Summaries
      <4> QED BY <1>1, <1>2, <2>1, <4>1, Width
    <3>2. w <= v /\ w # v
      BY <1>5, <2>2, <3>1
    <3> QED BY <1>1, <2>2, <3>2
  <2>5. ASSUME NEW t \in Ticks, test(t), i <= t PROVE v <= Word(t)
    <3>1. w < Word(t) /\ Word(t) \in WordSet /\ l0[Word(t)] # {} /\ Word(t) \in Nat
      BY <1>4, <1>8, <1>9, <2>5
    <3>2. CASE Word(Word(t)) = w1
      <4>1. Bit(Word(t)) \in m1
        <5>1. Bit(w) <= Bit(Word(t)) /\ Bit(Word(t)) # Bit(w) /\ Bit(Word(t)) \in l1[w1]
          BY <1>1, <1>5, <3>1, <3>2
        <5>2. Bit(Word(t)) \in Nat /\ Bit(w) \in Nat
          BY <1>1, <3>1, Digits, Width
        <5> QED BY <1>2, <5>1, <5>2
      <4> QED BY <2>1, <2>2, <3>1, <3>2, <4>1, Order
    <3>3. CASE Word(Word(t)) # w1
      <4>1. w1 < Word(Word(t))
        BY <1>1, <1>5, <3>1, <3>3
      <4> QED BY <2>2, <3>1, <4>1, Order
    <3> QED BY <3>2, <3>3
  <2>6. IsNext(i, LowestOf(v))
    BY <2>2, <2>4, <2>5, LowestNext DEF w, LowestOf
  <2> QED BY <2>3, <2>6
<1>10. ASSUME m0 = {}, m1 = {}, NEW t \in Ticks, test(t), i <= t
      PROVE  /\ w1 < Word(Word(t)) /\ Word(Word(t)) \in m2 /\ Word(t) \in WordSet /\ l0[Word(t)] # {}
             /\ Word(Word(t)) \in 0 .. L1Words - 1 /\ Bit(Word(t)) \in l1[Word(Word(t))]
  <2>1. w < Word(t) /\ Word(t) \in WordSet /\ l0[Word(t)] # {} /\ Word(t) \in Nat
    BY <1>4, <1>8, <1>10
  <2>2. Word(Word(t)) # w1
    <3> SUFFICES ASSUME Word(Word(t)) = w1 PROVE FALSE
      OBVIOUS
    <3>1. Bit(w) <= Bit(Word(t)) /\ Bit(Word(t)) # Bit(w) /\ Bit(Word(t)) \in l1[w1]
      BY <1>1, <1>5, <2>1
    <3>2. Bit(Word(t)) \in Nat /\ Bit(w) \in Nat
      BY <1>1, <2>1, Digits, Width
    <3> QED BY <1>2, <1>10, <3>1, <3>2
  <2>3. w1 < Word(Word(t))
    BY <1>1, <1>5, <2>1, <2>2
  <2> QED BY <1>2, <1>5, <2>1, <2>3
<1>11. CASE m0 = {} /\ m1 = {} /\ m2 # {}
  <2> DEFINE x == Min(m2)
             v == x * WordBits + Min(l1[x])
  <2>1. x \in m2 /\ \A y \in m2 : x <= y
    BY <1>2, <1>11, MinIs, MasksAre, Summaries
  <2>2. x \in l2 /\ w1 < x /\ x \in 0 .. L1Words - 1 /\ x \in Nat
    BY <1>2, <1>6, <2>1
  <2>3. next_set(i) = LowestOf(v)
    BY <1>3, <1>11
  <2> HIDE DEF x
  <2>4. Min(l1[x]) \in l1[x] /\ \A b \in l1[x] : Min(l1[x]) <= b
    BY <2>2, MinIs, MasksAre, Summaries
  <2>5. v \in WordSet /\ l0[v] # {} /\ Word(v) = x /\ Bit(v) = Min(l1[x]) /\ v \in Nat
    BY <2>2, <2>4, Summaries, Extent DEF WordSet
  <2> HIDE DEF v
  <2>6. w < v
    <3>1. Word(w) < Word(v)
      BY <2>2, <2>5 DEF w1
    <3> QED BY <1>1, <2>5, <3>1, Order
  <2>7. ASSUME NEW t \in Ticks, test(t), i <= t PROVE v <= Word(t)
    <3>1. /\ Word(Word(t)) \in m2 /\ Word(t) \in WordSet /\ Word(t) \in Nat
          /\ Word(Word(t)) \in Nat /\ Bit(Word(t)) \in l1[Word(Word(t))]
      BY <1>4, <1>10, <1>11, <2>7, Extent
    <3>2. x <= Word(Word(t))
      BY <2>1, <3>1
    <3>3. CASE x = Word(Word(t))
      BY <2>4, <2>5, <3>1, <3>3, Order
    <3>4. CASE x # Word(Word(t))
      <4>1. Word(v) < Word(Word(t))
        BY <2>2, <2>5, <3>1, <3>2, <3>4
      <4> QED BY <2>5, <3>1, <4>1, Order
    <3> QED BY <3>3, <3>4
  <2>8. IsNext(i, LowestOf(v))
    BY <2>5, <2>6, <2>7, LowestNext DEF w, LowestOf
  <2> QED BY <2>3, <2>8
<1>12. CASE m0 = {} /\ m1 = {} /\ m2 = {}
  <2>1. next_set(i) = NPOS
    BY <1>3, <1>12
  <2> QED BY <1>10, <1>12, <2>1
<1> QED BY <1>7, <1>9, <1>11, <1>12

LEMMA PrevFinds ==
  ASSUME BitsExact, NEW i \in Ticks
  PROVE  \/ IsPrev(i, prev_set(i))
         \/ prev_set(i) = NPOS /\ \A t \in Ticks : t <= i => ~ test(t)
<1> DEFINE w  == Word(i)
           w1 == Word(w)
           m0 == l0[w] \intersect Below(WordBits - 1 - Bit(i))
           m1 == l1[w1] \intersect Below(WordBits - Bit(w))
           m2 == l2 \intersect Below(WordBits - 1 - w1 + 1)
           HighestOf(v) == v * WordBits + Max(l0[v])
<1>1. /\ i \in Nat /\ w \in Nat /\ w \in WordSet /\ w1 \in Nat /\ w1 \in 0 .. L1Words - 1
      /\ Bit(i) \in Bits /\ Bit(w) \in Bits /\ w1 \in Bits
  <2>1. w \in WordSet /\ w1 \in 0 .. L1Words - 1 /\ i \in Nat /\ w \in Nat /\ Bit(i) \in Bits /\ Bit(w) \in Bits
    BY Extent DEF WordSet
  <2>2. w1 \in Nat /\ w1 < WordBits
    BY <2>1, Extent, Width
  <2> QED BY <2>1, <2>2, Width
<1>2. /\ m0 = {b \in l0[w] : b <= Bit(i)} /\ m1 = {b \in l1[w1] : b < Bit(w)}
      /\ m2 = {v \in l2 : v < w1}
  BY <1>1, MasksAre, Summaries, Width
<1>3. prev_set(i) = IF m0 # {} THEN w * WordBits + Max(m0)
                    ELSE IF m1 # {} THEN HighestOf(w1 * WordBits + Max(m1))
                    ELSE IF m2 # {} THEN HighestOf(Max(m2) * WordBits + Max(l1[Max(m2)]))
                    ELSE NPOS
  BY <1>1 DEF prev_set
<1>4. \A t \in Ticks : /\ t \in Nat /\ Word(t) \in WordSet /\ Word(t) \in Nat
                       /\ (test(t) => l0[Word(t)] # {} /\ Bit(t) \in l0[Word(t)])
                       /\ (t <= i => Word(t) <= w)
                       /\ (Word(t) = w => (t <= i <=> Bit(t) <= Bit(i)))
  BY <1>1, Extent, Order DEF test, WordSet
<1>5. \A u \in WordSet : l0[u] # {} =>
        /\ u \in Nat /\ Word(u) \in Nat /\ Word(u) \in l2 /\ Word(u) \in 0 .. L1Words - 1
        /\ Bit(u) \in l1[Word(u)]
        /\ (u <= w => Word(u) <= w1)
        /\ (Word(u) = w1 => (u <= w <=> Bit(u) <= Bit(w)) /\ (Bit(u) = Bit(w) => u = w))
  BY <1>1, Extent, Summaries, Order, Digits DEF WordSet
<1> HIDE DEF w, w1, m0, m1, m2, HighestOf
<1>6. \A x \in l2 : x \in 0 .. L1Words - 1 /\ x \in Nat
  BY Extent DEF BitsExact
<1>7. CASE m0 # {}
  <2>1. Max(m0) \in m0 /\ \A b \in m0 : b <= Max(m0)
    BY <1>1, <1>2, <1>7, MaxIs, MasksAre, Summaries, Width
  <2> DEFINE r == w * WordBits + Max(m0)
  <2>2. r \in Ticks /\ test(r) /\ Word(r) = w /\ Bit(r) = Max(m0) /\ r \in Nat
    BY <1>1, <1>2, <2>1, TickOfBit, Extent
  <2>3. prev_set(i) = r
    BY <1>3, <1>7
  <2> HIDE DEF r
  <2>4. r <= i
    BY <1>2, <1>4, <2>1, <2>2
  <2>5. ASSUME NEW t \in Ticks, test(t), t <= i PROVE t <= r
    <3>1. CASE Word(t) = w
      <4>1. Bit(t) \in m0
        BY <1>2, <1>4, <2>5, <3>1
      <4> QED BY <1>4, <2>1, <2>2, <3>1, <4>1, Order
    <3>2. CASE Word(t) # w
      <4>1. Word(t) < w
        BY <1>1, <1>4, <2>5, <3>2
      <4> QED BY <1>4, <2>2, <4>1, Order
    <3> QED BY <3>1, <3>2
  <2> QED BY <2>2, <2>3, <2>4, <2>5 DEF IsPrev
<1>8. ASSUME m0 = {}, NEW t \in Ticks, test(t), t <= i PROVE Word(t) < w
  <2>1. Word(t) # w
    BY <1>2, <1>4, <1>8
  <2> QED BY <1>1, <1>4, <1>8, <2>1
<1>9. CASE m0 = {} /\ m1 # {}
  <2>1. Max(m1) \in m1 /\ \A b \in m1 : b <= Max(m1)
    BY <1>1, <1>2, <1>9, MaxIs, MasksAre, Summaries, Width
  <2> DEFINE v == w1 * WordBits + Max(m1)
  <2>2. v \in WordSet /\ l0[v] # {} /\ Word(v) = w1 /\ Bit(v) = Max(m1) /\ v \in Nat
    BY <1>1, <1>2, <2>1, Summaries, Extent DEF WordSet
  <2>3. prev_set(i) = HighestOf(v)
    BY <1>3, <1>9
  <2> HIDE DEF v
  <2>4. v < w
    <3>1. Max(m1) < Bit(w) /\ Bit(w) \in Nat /\ Max(m1) \in Nat
      <4>1. Max(m1) \in Bits
        BY <1>1, <1>2, <2>1, Summaries
      <4> QED BY <1>1, <1>2, <2>1, <4>1, Width
    <3>2. v <= w /\ w # v
      BY <1>5, <2>2, <3>1
    <3> QED BY <1>1, <2>2, <3>2
  <2>5. ASSUME NEW t \in Ticks, test(t), t <= i PROVE Word(t) <= v
    <3>1. Word(t) < w /\ Word(t) \in WordSet /\ l0[Word(t)] # {} /\ Word(t) \in Nat
      BY <1>4, <1>8, <1>9, <2>5
    <3>2. CASE Word(Word(t)) = w1
      <4>1. Bit(Word(t)) \in m1
        <5>1. Bit(Word(t)) <= Bit(w) /\ Bit(Word(t)) # Bit(w) /\ Bit(Word(t)) \in l1[w1]
          BY <1>1, <1>5, <3>1, <3>2
        <5>2. Bit(Word(t)) \in Nat /\ Bit(w) \in Nat
          BY <1>1, <3>1, Digits, Width
        <5> QED BY <1>2, <5>1, <5>2
      <4> QED BY <2>1, <2>2, <3>1, <3>2, <4>1, Order
    <3>3. CASE Word(Word(t)) # w1
      <4>1. Word(Word(t)) < w1
        BY <1>1, <1>5, <3>1, <3>3
      <4> QED BY <2>2, <3>1, <4>1, Order
    <3> QED BY <3>2, <3>3
  <2>6. IsPrev(i, HighestOf(v))
    BY <2>2, <2>4, <2>5, HighestPrev DEF w, HighestOf
  <2> QED BY <2>3, <2>6
<1>10. ASSUME m0 = {}, m1 = {}, NEW t \in Ticks, test(t), t <= i
      PROVE  /\ Word(Word(t)) < w1 /\ Word(Word(t)) \in m2 /\ Word(t) \in WordSet /\ l0[Word(t)] # {}
             /\ Word(Word(t)) \in 0 .. L1Words - 1 /\ Bit(Word(t)) \in l1[Word(Word(t))]
  <2>1. Word(t) < w /\ Word(t) \in WordSet /\ l0[Word(t)] # {} /\ Word(t) \in Nat
    BY <1>4, <1>8, <1>10
  <2>2. Word(Word(t)) # w1
    <3> SUFFICES ASSUME Word(Word(t)) = w1 PROVE FALSE
      OBVIOUS
    <3>1. Bit(Word(t)) <= Bit(w) /\ Bit(Word(t)) # Bit(w) /\ Bit(Word(t)) \in l1[w1]
      BY <1>1, <1>5, <2>1
    <3>2. Bit(Word(t)) \in Nat /\ Bit(w) \in Nat
      BY <1>1, <2>1, Digits, Width
    <3> QED BY <1>2, <1>10, <3>1, <3>2
  <2>3. Word(Word(t)) < w1
    BY <1>1, <1>5, <2>1, <2>2
  <2> QED BY <1>2, <1>5, <2>1, <2>3
<1>11. CASE m0 = {} /\ m1 = {} /\ m2 # {}
  <2> DEFINE x == Max(m2)
             v == x * WordBits + Max(l1[x])
  <2>1. x \in m2 /\ \A y \in m2 : y <= x
    BY <1>2, <1>11, MaxIs, MasksAre, Summaries, Width
  <2>2. x \in l2 /\ x < w1 /\ x \in 0 .. L1Words - 1 /\ x \in Nat
    BY <1>2, <1>6, <2>1
  <2>3. prev_set(i) = HighestOf(v)
    BY <1>3, <1>11
  <2> HIDE DEF x
  <2>4. Max(l1[x]) \in l1[x] /\ \A b \in l1[x] : b <= Max(l1[x])
    BY <2>2, MaxIs, MasksAre, Summaries, Width
  <2>5. v \in WordSet /\ l0[v] # {} /\ Word(v) = x /\ Bit(v) = Max(l1[x]) /\ v \in Nat
    BY <2>2, <2>4, Summaries, Extent DEF WordSet
  <2> HIDE DEF v
  <2>6. v < w
    <3>1. Word(v) < Word(w)
      BY <2>2, <2>5 DEF w1
    <3> QED BY <1>1, <2>5, <3>1, Order
  <2>7. ASSUME NEW t \in Ticks, test(t), t <= i PROVE Word(t) <= v
    <3>1. /\ Word(Word(t)) \in m2 /\ Word(t) \in WordSet /\ Word(t) \in Nat
          /\ Word(Word(t)) \in Nat /\ Bit(Word(t)) \in l1[Word(Word(t))]
      BY <1>4, <1>10, <1>11, <2>7, Extent
    <3>2. Word(Word(t)) <= x
      BY <2>1, <3>1
    <3>3. CASE x = Word(Word(t))
      BY <2>4, <2>5, <3>1, <3>3, Order
    <3>4. CASE x # Word(Word(t))
      <4>1. Word(Word(t)) < Word(v)
        BY <2>2, <2>5, <3>1, <3>2, <3>4
      <4> QED BY <2>5, <3>1, <4>1, Order
    <3> QED BY <3>3, <3>4
  <2>8. IsPrev(i, HighestOf(v))
    BY <2>5, <2>6, <2>7, HighestPrev DEF w, HighestOf
  <2> QED BY <2>3, <2>8
<1>12. CASE m0 = {} /\ m1 = {} /\ m2 = {}
  <2>1. prev_set(i) = NPOS
    BY <1>3, <1>12
  <2> QED BY <1>10, <1>12, <2>1
<1> QED BY <1>7, <1>9, <1>11, <1>12

LEMMA SearchesFind == BitsExact => SearchesExact
<1> SUFFICES ASSUME BitsExact, NEW i \in Ticks
             PROVE  /\ next_set(i) = Min({t \in Ticks : t >= i /\ test(t)} \union {NPOS})
                    /\ prev_set(i) = IF \E t \in 0 .. i : test(t) THEN Max({t \in 0 .. i : test(t)}) ELSE NPOS
  BY DEF SearchesExact
<1>1. \A t \in Ticks : t \in Nat /\ t < NPOS
  BY Width DEF Ticks, NPOS
<1>2. \A t : t \in 0 .. i <=> t \in Ticks /\ t <= i
  BY Width DEF Ticks
<1>3. next_set(i) = Min({t \in Ticks : t >= i /\ test(t)} \union {NPOS})
  <2> DEFINE S == {t \in Ticks : t >= i /\ test(t)} \union {NPOS}
  <2>1. S \in SUBSET Nat
    BY <1>1, Width DEF NPOS
  <2>2. CASE IsNext(i, next_set(i))
    <3>1. next_set(i) \in S
      BY <1>1, <2>2 DEF IsNext
    <3>2. ASSUME NEW t \in S PROVE next_set(i) <= t
      <4>1. CASE t = NPOS
        <5>1. NPOS \in Nat /\ next_set(i) \in Nat /\ next_set(i) < NPOS
          BY <1>1, <2>2, Width DEF IsNext, NPOS
        <5> QED BY <4>1, <5>1
      <4>2. CASE t \in Ticks /\ i <= t /\ test(t)
        BY <1>1, <2>2, <4>2 DEF IsNext
      <4> QED BY <1>1, <4>1, <4>2
    <3> HIDE DEF S
    <3>3. Min(S) = next_set(i)
      BY <2>1, <3>1, <3>2, MinUnique
    <3> QED BY <3>3 DEF S
  <2>3. CASE next_set(i) = NPOS /\ \A t \in Ticks : i <= t => ~ test(t)
    <3>1. S = {NPOS} /\ NPOS \in Nat
      BY <1>1, <2>3, Width DEF NPOS
    <3>2. NPOS \in S /\ \A t \in S : NPOS <= t
      BY <3>1
    <3> HIDE DEF S
    <3>3. Min(S) = NPOS
      BY <2>1, <3>2, MinUnique
    <3> QED BY <2>3, <3>3 DEF S
  <2> QED BY <2>2, <2>3, NextFinds
<1>4. prev_set(i) = IF \E t \in 0 .. i : test(t) THEN Max({t \in 0 .. i : test(t)}) ELSE NPOS
  <2> DEFINE S == {t \in 0 .. i : test(t)}
  <2>1. S \in SUBSET Nat
    BY <1>1, <1>2
  <2>2. CASE IsPrev(i, prev_set(i))
    <3>1. prev_set(i) \in S /\ \A t \in S : t <= prev_set(i)
      BY <1>1, <1>2, <2>2 DEF IsPrev
    <3>2. \E t \in 0 .. i : test(t)
      BY <3>1
    <3> HIDE DEF S
    <3>3. Max(S) = prev_set(i)
      BY <2>1, <3>1, MaxUnique
    <3> QED BY <3>2, <3>3 DEF S
  <2>3. CASE prev_set(i) = NPOS /\ \A t \in Ticks : t <= i => ~ test(t)
    BY <1>2, <2>3
  <2> QED BY <2>2, <2>3, PrevFinds
<1> QED BY <1>3, <1>4

-----------------------------------------------------------------------------
(* Paths *)

LEMMA AtType ==
  ASSUME NEW s \in Seq(Slots)
  PROVE  /\ Len(s) \in Nat /\ Null \notin Slots
         /\ \A n \in 1 .. Len(s) : At(s, n) \in Slots /\ At(s, n) = s[n]
         /\ \A n \in Int : n \notin 1 .. Len(s) => At(s, n) = Null
         /\ \A n \in Int : At(s, n) \in Slots \union {Null} /\ (At(s, n) \in Slots <=> n \in 1 .. Len(s))
         /\ (s = <<>> <=> Len(s) = 0) /\ (s # <<>> <=> At(s, 1) # Null)
         /\ (s = <<>> <=> Last(s) = Null)
<1>1. Len(s) \in Nat /\ Null \notin Slots /\ \A n \in 1 .. Len(s) : s[n] \in Slots
  <2>1. Null \notin Slots
    BY StorageAssumption DEF Slots, Null
  <2> QED BY <2>1
<1>2. s = <<>> <=> Len(s) = 0
  OBVIOUS
<1>3. \A n \in Int : At(s, n) \in Slots \union {Null} /\ (At(s, n) \in Slots <=> n \in 1 .. Len(s))
  BY <1>1 DEF At
<1>4. s # <<>> <=> At(s, 1) # Null
  BY <1>1, <1>2 DEF At
<1>5. s = <<>> <=> Last(s) = Null
  BY <1>1, <1>2 DEF At, Last
<1> QED BY <1>1, <1>2, <1>3, <1>4, <1>5 DEF At

LEMMA AtAppend ==
  ASSUME NEW s \in Seq(Slots), NEW x \in Slots
  PROVE  /\ Append(s, x) \in Seq(Slots) /\ Len(Append(s, x)) = Len(s) + 1
         /\ \A n \in Int : At(Append(s, x), n) = IF n = Len(s) + 1 THEN x ELSE At(s, n)
BY DEF At

LEMMA AtTail ==
  ASSUME NEW s \in Seq(Slots), s # <<>>
  PROVE  /\ Tail(s) \in Seq(Slots) /\ Len(Tail(s)) = Len(s) - 1 /\ Head(s) = At(s, 1)
         /\ \A n \in Int : At(Tail(s), n) = IF n >= 1 THEN At(s, n + 1) ELSE Null
<1>1. Len(s) \in Nat /\ Len(s) # 0
  OBVIOUS
<1> QED BY <1>1 DEF At

LEMMA AtConcat ==
  ASSUME NEW s \in Seq(Slots), NEW r \in Seq(Slots)
  PROVE  /\ s \o r \in Seq(Slots) /\ Len(s \o r) = Len(s) + Len(r)
         /\ \A n \in Int : At(s \o r, n) = IF n <= Len(s) THEN At(s, n) ELSE At(r, n - Len(s))
BY DEF At

LEMMA AtCons ==
  ASSUME NEW x \in Slots, NEW s \in Seq(Slots)
  PROVE  /\ <<x>> \o s \in Seq(Slots) /\ Len(<<x>> \o s) = Len(s) + 1
         /\ \A n \in Int : At(<<x>> \o s, n) = IF n = 1 THEN x ELSE At(s, n - 1)
<1>1. <<x>> \in Seq(Slots) /\ Len(<<x>>) = 1 /\ <<x>>[1] = x
  OBVIOUS
<1>2. Len(s) \in Nat
  OBVIOUS
<1>3. \A n \in Int : At(<<x>>, n) = IF n = 1 THEN x ELSE Null
  BY <1>1 DEF At
<1>4. \A n \in Int : n < 1 => At(s, n - 1) = Null
  BY <1>2 DEF At
<1>5. /\ <<x>> \o s \in Seq(Slots) /\ Len(<<x>> \o s) = Len(<<x>>) + Len(s)
      /\ \A n \in Int : At(<<x>> \o s, n) = IF n <= Len(<<x>>) THEN At(<<x>>, n) ELSE At(s, n - Len(<<x>>))
  BY <1>1, AtConcat
<1>6. ASSUME NEW n \in Int PROVE At(<<x>> \o s, n) = IF n = 1 THEN x ELSE At(s, n - 1)
  <2>1. CASE n = 1
    BY <1>1, <1>3, <1>5, <2>1
  <2>2. CASE n < 1
    BY <1>1, <1>3, <1>4, <1>5, <2>2
  <2>3. CASE n > 1
    BY <1>1, <1>5, <2>3
  <2> QED BY <2>1, <2>2, <2>3
<1> QED BY <1>1, <1>2, <1>5, <1>6

LEMMA AtRemove ==
  ASSUME NEW s \in Seq(Slots), NEW k \in 1 .. Len(s)
  PROVE  /\ Queues!RemoveAt(s, k) \in Seq(Slots) /\ Len(Queues!RemoveAt(s, k)) = Len(s) - 1
         /\ \A n \in Int : At(Queues!RemoveAt(s, k), n) = IF n < k THEN At(s, n) ELSE At(s, n + 1)
<1> DEFINE a == SubSeq(s, 1, k - 1)
           b == SubSeq(s, k + 1, Len(s))
<1>1. Len(s) \in Nat /\ k \in Nat /\ 1 <= k /\ k <= Len(s)
  OBVIOUS
<1>2. a \in Seq(Slots) /\ Len(a) = k - 1 /\ \A n \in 1 .. k - 1 : a[n] = s[n]
  BY <1>1
<1>3. b \in Seq(Slots) /\ Len(b) = Len(s) - k /\ \A n \in 1 .. Len(s) - k : b[n] = s[n + k]
  BY <1>1
<1>4. Queues!RemoveAt(s, k) = a \o b
  BY DEF Queues!RemoveAt
<1> HIDE DEF a, b
<1>5. a \o b \in Seq(Slots) /\ Len(a \o b) = Len(s) - 1
  <2>1. a \o b \in Seq(Slots) /\ Len(a \o b) = Len(a) + Len(b)
    BY <1>2, <1>3, AtConcat
  <2> QED BY <1>1, <1>2, <1>3, <2>1
<1>6. \A n \in Int : At(a \o b, n) = IF n <= k - 1 THEN At(a, n) ELSE At(b, n - (k - 1))
  BY <1>2, <1>3, AtConcat
<1>7. \A n \in Int : n <= k - 1 => At(a, n) = At(s, n)
  BY <1>1, <1>2 DEF At
<1>8. ASSUME NEW n \in Int, ~ (n <= k - 1) PROVE At(b, n - (k - 1)) = At(s, n + 1)
  <2>1. CASE n + 1 \in 1 .. Len(s)
    <3>1. n - (k - 1) \in 1 .. Len(s) - k /\ (n - (k - 1)) + k = n + 1
      BY <1>1, <1>8, <2>1
    <3> QED BY <1>3, <2>1, <3>1 DEF At
  <2>2. CASE n + 1 \notin 1 .. Len(s)
    <3>1. n - (k - 1) \notin 1 .. Len(s) - k
      BY <1>1, <1>8, <2>2
    <3> QED BY <1>3, <2>2, <3>1 DEF At
  <2> QED BY <2>1, <2>2
<1>9. ASSUME NEW n \in Int
      PROVE  At(a \o b, n) = IF n < k THEN At(s, n) ELSE At(s, n + 1)
  <2>1. CASE n <= k - 1
    BY <1>1, <1>6, <1>7, <2>1
  <2>2. CASE ~ (n <= k - 1)
    BY <1>1, <1>6, <1>8, <2>2
  <2> QED BY <2>1, <2>2
<1> QED BY <1>4, <1>5, <1>9

\* A list without repetition fits the arena.
LEMMA PathFits ==
  ASSUME NEW s \in Seq(Slots), Once(s)
  PROVE  Len(s) <= PoolCap
<1> DEFINE g == [n \in 1 .. Len(s) |-> At(s, n)]
<1>1. Len(s) \in Nat /\ PoolCap \in Nat
  BY StorageAssumption
<1>2. g \in [1 .. Len(s) -> Slots] /\ \A m, n \in 1 .. Len(s) : g[m] = g[n] => m = n
  BY AtType DEF Once
<1> HIDE DEF g
<1>3. g \in Injection(1 .. Len(s), Slots)
  BY <1>2 DEF Injection, IsInjective
<1>4. IsFiniteSet(Slots) /\ Cardinality(Slots) = PoolCap
  <2>1. 1 \in Int /\ PoolCap \in Int /\ PoolCap > 0
    BY StorageAssumption
  <2> QED BY <2>1, FS_Interval DEF Slots
<1>5. Cardinality(1 .. Len(s)) = Len(s)
  <2>1. 1 \in Int /\ Len(s) \in Int
    BY <1>1
  <2>2. Cardinality(1 .. Len(s)) = IF 1 > Len(s) THEN 0 ELSE Len(s) - 1 + 1
    BY <2>1, FS_Interval
  <2> QED BY <1>1, <2>2
<1>6. Cardinality(1 .. Len(s)) <= Cardinality(Slots)
  BY <1>3, <1>4, FS_Injection
<1> QED BY <1>4, <1>5, <1>6

\* Walking the links reads the list.
LEMMA ChainIs ==
  ASSUME NEW link, NEW from, NEW s, Path(link, from, s)
  PROVE  Chain(link, from) = s
<1> DEFINE N == 0 .. PoolCap
           step(g, n) == IF n = 0 THEN from ELSE IF g[n - 1] \in Slots THEN link[g[n - 1]] ELSE Null
           walks(g) == g = [n \in N |-> step(g, n)]
           at == CHOOSE g : walks(g)
           h == [n \in N |-> At(s, n + 1)]
<1>1. Chain(link, from) = [n \in 1 .. Cardinality({m \in N : at[m] \in Slots}) |-> at[n - 1]]
  BY DEF Chain
<1>2. s \in Seq(Slots) /\ Once(s) /\ from = At(s, 1)
      /\ \A n \in 1 .. Len(s) : link[At(s, n)] = At(s, n + 1)
  BY DEF Path
<1>3. Len(s) \in Nat /\ Len(s) <= PoolCap /\ PoolCap \in Nat
  BY <1>2, PathFits, StorageAssumption
<1>4. \A n \in N : n \in Int /\ n + 1 \in Int /\ (n # 0 => n - 1 \in N /\ (n - 1) + 1 = n)
  BY <1>3
<1>5. \A n \in Int : (At(s, n) \in Slots <=> n \in 1 .. Len(s)) /\ (At(s, n) \notin Slots => At(s, n) = Null)
  BY <1>2, AtType
<1>6. ASSUME NEW n \in N, n # 0
      PROVE  At(s, n + 1) = IF At(s, n) \in Slots THEN link[At(s, n)] ELSE Null
  <2>1. CASE At(s, n) \in Slots
    BY <1>2, <1>4, <1>5, <2>1
  <2>2. CASE At(s, n) \notin Slots
    <3>1. n + 1 \notin 1 .. Len(s)
      BY <1>3, <1>5, <1>6, <2>2
    <3> QED BY <1>4, <1>5, <2>2, <3>1
  <2> QED BY <2>1, <2>2
<1>7. walks(h)
  <2>1. ASSUME NEW n \in N PROVE At(s, n + 1) = step(h, n)
    <3>1. CASE n = 0
      BY <1>2, <3>1
    <3>2. CASE n # 0
      <4>1. h[n - 1] = At(s, n)
        BY <1>4, <3>2
      <4> QED BY <1>6, <3>2, <4>1
    <3> QED BY <3>1, <3>2
  <2>2. h = [n \in N |-> step(h, n)]
    BY <2>1
  <2> QED BY <2>2
<1>8. walks(at)
  <2> HIDE DEF walks, h
  <2> QED BY <1>7
<1>9. \A n \in N : at[n] = step(at, n)
  <2> HIDE DEF at
  <2> QED BY <1>8
<1> HIDE DEF at, walks, h
<1>10. \A n \in N : at[n] = At(s, n + 1)
  <2> DEFINE Bad == {n \in N : at[n] # At(s, n + 1)}
  <2> SUFFICES ASSUME Bad # {} PROVE FALSE
    OBVIOUS
  <2>1. Bad \in SUBSET Nat
    BY <1>3
  <2>2. PICK n \in Bad : \A m \in Bad : n <= m
    BY <2>1, NatLeast
  <2>3. n \in N /\ at[n] # At(s, n + 1)
    OBVIOUS
  <2>4. n # 0
    BY <1>2, <1>9, <2>3
  <2>5. n - 1 \in N /\ n - 1 \notin Bad
    <3>1. n - 1 \in N /\ ~ (n <= n - 1)
      BY <1>3, <2>3, <2>4
    <3> QED BY <2>2, <3>1
  <2>6. at[n - 1] = At(s, n)
    BY <1>4, <2>3, <2>4, <2>5
  <2> QED BY <1>6, <1>9, <2>3, <2>4, <2>6
<1>11. {m \in N : at[m] \in Slots} = 0 .. Len(s) - 1
  <2>1. ASSUME NEW m \in N PROVE at[m] \in Slots <=> m \in 0 .. Len(s) - 1
    <3>1. at[m] \in Slots <=> m + 1 \in 1 .. Len(s)
      BY <1>4, <1>5, <1>10
    <3> QED BY <1>3, <3>1
  <2>2. \A m \in 0 .. Len(s) - 1 : m \in N
    BY <1>3
  <2> QED BY <2>1, <2>2
<1>12. Cardinality(0 .. Len(s) - 1) = Len(s)
  <2>1. 0 \in Int /\ Len(s) - 1 \in Int
    BY <1>3
  <2>2. Cardinality(0 .. Len(s) - 1) = IF 0 > Len(s) - 1 THEN 0 ELSE (Len(s) - 1) - 0 + 1
    BY <2>1, FS_Interval
  <2> QED BY <1>3, <2>2
<1>13. Chain(link, from) = [n \in 1 .. Len(s) |-> at[n - 1]]
  BY <1>1, <1>11, <1>12
<1>14. ASSUME NEW n \in 1 .. Len(s) PROVE at[n - 1] = s[n]
  <2>1. n - 1 \in N /\ (n - 1) + 1 = n
    BY <1>3
  <2> QED BY <1>10, <2>1 DEF At
<1>15. s = [n \in 1 .. Len(s) |-> s[n]]
  BY <1>2
<1> QED BY <1>13, <1>14, <1>15

LEMMA InAppend ==
  ASSUME NEW s \in Seq(Slots), NEW x \in Slots
  PROVE  /\ In(x, Append(s, x)) /\ \A y : In(y, s) => In(y, Append(s, x))
         /\ \A y : In(y, Append(s, x)) => In(y, s) \/ y = x
<1> DEFINE z == Append(s, x)
<1>1. Len(z) = Len(s) + 1 /\ \A n \in Int : At(z, n) = IF n = Len(s) + 1 THEN x ELSE At(s, n)
  BY AtAppend
<1>2. Len(s) \in Nat
  OBVIOUS
<1> HIDE DEF z
<1>3. \A n \in 1 .. Len(s) : n \in 1 .. Len(z) /\ At(z, n) = At(s, n)
  BY <1>1, <1>2
<1>4. Len(z) \in 1 .. Len(z) /\ At(z, Len(z)) = x
  BY <1>1, <1>2
<1>5. \A n \in 1 .. Len(z) : At(z, n) = x \/ (n \in 1 .. Len(s) /\ At(z, n) = At(s, n))
  BY <1>1, <1>2
<1> QED BY <1>3, <1>4, <1>5 DEF In, z

LEMMA InCons ==
  ASSUME NEW s \in Seq(Slots), NEW x \in Slots
  PROVE  /\ In(x, <<x>> \o s) /\ \A y : In(y, s) => In(y, <<x>> \o s)
         /\ \A y : In(y, <<x>> \o s) => In(y, s) \/ y = x
<1> DEFINE z == <<x>> \o s
<1>1. Len(z) = Len(s) + 1 /\ \A n \in Int : At(z, n) = IF n = 1 THEN x ELSE At(s, n - 1)
  BY AtCons
<1>2. Len(s) \in Nat
  OBVIOUS
<1> HIDE DEF z
<1>3. \A n \in 1 .. Len(s) : n + 1 \in 1 .. Len(z) /\ At(z, n + 1) = At(s, n)
  BY <1>1, <1>2
<1>4. 1 \in 1 .. Len(z) /\ At(z, 1) = x
  BY <1>1, <1>2
<1>5. \A n \in 1 .. Len(z) : At(z, n) = x \/ (n - 1 \in 1 .. Len(s) /\ At(z, n) = At(s, n - 1))
  BY <1>1, <1>2
<1> QED BY <1>3, <1>4, <1>5 DEF In, z

LEMMA InConcat ==
  ASSUME NEW s \in Seq(Slots), NEW r \in Seq(Slots)
  PROVE  \A y : In(y, s \o r) <=> In(y, s) \/ In(y, r)
<1> DEFINE z == s \o r
<1>1. /\ Len(z) = Len(s) + Len(r)
      /\ \A n \in Int : At(z, n) = IF n <= Len(s) THEN At(s, n) ELSE At(r, n - Len(s))
  BY AtConcat
<1>2. Len(s) \in Nat /\ Len(r) \in Nat
  OBVIOUS
<1> HIDE DEF z
<1>3. \A n \in 1 .. Len(s) : n \in 1 .. Len(z) /\ At(z, n) = At(s, n)
  BY <1>1, <1>2
<1>4. ASSUME NEW n \in 1 .. Len(r) PROVE In(At(r, n), z)
  <2>1. n + Len(s) \in 1 .. Len(z) /\ At(z, n + Len(s)) = At(r, n)
    BY <1>1, <1>2
  <2> QED BY <2>1 DEF In
<1>5. \A n \in 1 .. Len(z) : \/ n \in 1 .. Len(s) /\ At(z, n) = At(s, n)
                             \/ n - Len(s) \in 1 .. Len(r) /\ At(z, n) = At(r, n - Len(s))
  BY <1>1, <1>2
<1> QED BY <1>3, <1>4, <1>5 DEF In, z

LEMMA PathFrame ==
  ASSUME NEW link, NEW link2, NEW from, NEW s, Path(link, from, s),
         \A n \in 1 .. Len(s) : link2[At(s, n)] = link[At(s, n)]
  PROVE  Path(link2, from, s)
BY DEF Path

\* A slot behind the last one.
LEMMA PathAppend ==
  ASSUME NEW link, NEW link2, NEW from, NEW s, Path(link, from, s),
         NEW x \in Slots, ~ In(x, s), link2[x] = Null,
         s # <<>> => link2[Last(s)] = x,
         \A n \in 1 .. Len(s) : n # Len(s) => link2[At(s, n)] = link[At(s, n)]
  PROVE  Path(link2, IF s = <<>> THEN x ELSE from, Append(s, x))
<1>1. s \in Seq(Slots) /\ Once(s) /\ from = At(s, 1)
      /\ \A n \in 1 .. Len(s) : link[At(s, n)] = At(s, n + 1)
  BY DEF Path
<1> DEFINE z == Append(s, x)
<1>2. /\ z \in Seq(Slots) /\ Len(z) = Len(s) + 1
      /\ \A n \in Int : At(z, n) = IF n = Len(s) + 1 THEN x ELSE At(s, n)
  BY <1>1, AtAppend
<1>3. Len(s) \in Nat /\ (s = <<>> <=> Len(s) = 0)
  BY <1>1, AtType
<1> HIDE DEF z
<1>4. \A n \in 1 .. Len(z) : \/ n \in 1 .. Len(s) /\ At(z, n) = At(s, n)
                             \/ n = Len(s) + 1 /\ At(z, n) = x
  BY <1>2, <1>3
<1>5. Once(z)
  BY <1>1, <1>4 DEF Once, In
<1>6. At(z, 1) = IF s = <<>> THEN x ELSE from
  BY <1>1, <1>2, <1>3
<1>7. ASSUME NEW n \in 1 .. Len(z) PROVE link2[At(z, n)] = At(z, n + 1)
  <2>1. n \in Int /\ n + 1 \in Int
    OBVIOUS
  <2>2. CASE n = Len(s) + 1
    <3>1. At(z, n + 1) = At(s, n + 1) /\ At(z, n) = x /\ n + 1 \notin 1 .. Len(s)
      BY <1>2, <1>3, <2>1, <2>2
    <3> QED BY <1>1, <2>1, <3>1, AtType
  <2>3. CASE n = Len(s)
    <3>1. At(z, n) = Last(s) /\ s # <<>> /\ At(z, n + 1) = x
      BY <1>2, <1>3, <2>1, <2>3 DEF Last
    <3> QED BY <3>1
  <2>4. CASE n < Len(s)
    <3>1. n \in 1 .. Len(s) /\ At(z, n) = At(s, n) /\ At(z, n + 1) = At(s, n + 1)
      BY <1>2, <1>3, <2>1, <2>4
    <3> QED BY <1>1, <2>4, <3>1
  <2> QED BY <1>2, <1>3, <2>2, <2>3, <2>4
<1> QED BY <1>2, <1>5, <1>6, <1>7 DEF Path, z

\* The list without its first slot.
LEMMA PathTail ==
  ASSUME NEW link, NEW from, NEW s, Path(link, from, s), s # <<>>
  PROVE  /\ Path(link, link[from], Tail(s)) /\ ~ In(from, Tail(s))
         /\ from = Head(s) /\ from \in Slots /\ In(from, s)
         /\ \A y \in Slots : In(y, s) => In(y, Tail(s)) \/ y = from
         /\ \A y : In(y, Tail(s)) => In(y, s)
<1>1. s \in Seq(Slots) /\ Once(s) /\ from = At(s, 1)
      /\ \A n \in 1 .. Len(s) : link[At(s, n)] = At(s, n + 1)
  BY DEF Path
<1> DEFINE z == Tail(s)
<1>2. /\ z \in Seq(Slots) /\ Len(z) = Len(s) - 1 /\ Head(s) = At(s, 1)
      /\ \A n \in Int : At(z, n) = IF n >= 1 THEN At(s, n + 1) ELSE Null
  BY <1>1, AtTail
<1>3. Len(s) \in Nat /\ Len(s) # 0 /\ \A n \in 1 .. Len(s) : At(s, n) \in Slots
  BY <1>1, AtType
<1> HIDE DEF z
<1>4. \A n \in 1 .. Len(z) : n + 1 \in 1 .. Len(s) /\ At(z, n) = At(s, n + 1) /\ n + 1 # 1
  BY <1>2, <1>3
<1>5. Once(z)
  <2> SUFFICES ASSUME NEW m \in 1 .. Len(z), NEW n \in 1 .. Len(z), At(z, m) = At(z, n) PROVE m = n
    BY DEF Once
  <2>1. m + 1 = n + 1
    BY <1>1, <1>4 DEF Once
  <2> QED BY <2>1
<1>6. 1 \in 1 .. Len(s) /\ At(z, 1) = At(s, 2)
  BY <1>2, <1>3
<1>7. link[from] = At(z, 1)
  BY <1>1, <1>6
<1>8. ASSUME NEW n \in 1 .. Len(z) PROVE link[At(z, n)] = At(z, n + 1)
  <2>1. n + 1 \in 1 .. Len(s) /\ At(z, n) = At(s, n + 1) /\ At(z, n + 1) = At(s, (n + 1) + 1)
    BY <1>2, <1>4
  <2> QED BY <1>1, <2>1
<1>9. ~ In(from, z)
  BY <1>1, <1>4, <1>6 DEF In, Once
<1>10. ASSUME NEW n \in 1 .. Len(s), n # 1 PROVE In(At(s, n), z)
  <2>1. n - 1 \in 1 .. Len(z) /\ At(z, n - 1) = At(s, n)
    BY <1>2, <1>3, <1>10
  <2> QED BY <2>1 DEF In
<1>11. \A y : In(y, s) => In(y, z) \/ y = from
  BY <1>1, <1>10 DEF In
<1>12. \A y : In(y, z) => In(y, s)
  BY <1>4 DEF In
<1>13. In(from, s)
  BY <1>1, <1>6 DEF In
<1> QED BY <1>1, <1>2, <1>3, <1>5, <1>6, <1>7, <1>8, <1>9, <1>11, <1>12, <1>13 DEF Path, z

\* A slot before the first one.
LEMMA PathCons ==
  ASSUME NEW link, NEW link2, NEW from, NEW s, Path(link, from, s),
         NEW x \in Slots, ~ In(x, s), link2[x] = from,
         \A n \in 1 .. Len(s) : link2[At(s, n)] = link[At(s, n)]
  PROVE  Path(link2, x, <<x>> \o s)
<1>1. s \in Seq(Slots) /\ Once(s) /\ from = At(s, 1)
      /\ \A n \in 1 .. Len(s) : link[At(s, n)] = At(s, n + 1)
  BY DEF Path
<1> DEFINE z == <<x>> \o s
<1>2. /\ z \in Seq(Slots) /\ Len(z) = Len(s) + 1
      /\ \A n \in Int : At(z, n) = IF n = 1 THEN x ELSE At(s, n - 1)
  BY <1>1, AtCons
<1>3. Len(s) \in Nat
  BY <1>1, AtType
<1> HIDE DEF z
<1>4. \A n \in 1 .. Len(z) : \/ n = 1 /\ At(z, n) = x
                             \/ n - 1 \in 1 .. Len(s) /\ At(z, n) = At(s, n - 1)
  BY <1>2, <1>3
<1>5. Once(z)
  <2> SUFFICES ASSUME NEW m \in 1 .. Len(z), NEW n \in 1 .. Len(z), At(z, m) = At(z, n) PROVE m = n
    BY DEF Once
  <2>1. CASE m = 1 /\ At(z, m) = x
    BY <1>4, <2>1 DEF In
  <2>2. CASE m - 1 \in 1 .. Len(s) /\ At(z, m) = At(s, m - 1)
    <3>1. n - 1 \in 1 .. Len(s) /\ At(z, n) = At(s, n - 1)
      BY <1>4, <2>2 DEF In
    <3>2. m - 1 = n - 1
      BY <1>1, <2>2, <3>1 DEF Once
    <3> QED BY <3>2
  <2> QED BY <1>4, <2>1, <2>2
<1>6. At(z, 1) = x
  BY <1>2
<1>7. ASSUME NEW n \in 1 .. Len(z) PROVE link2[At(z, n)] = At(z, n + 1)
  <2>1. n + 1 # 1 /\ n + 1 \in Int /\ (n + 1) - 1 = n
    OBVIOUS
  <2>2. At(z, n + 1) = At(s, n)
    BY <1>2, <2>1
  <2>3. CASE n = 1
    BY <1>1, <1>6, <2>2, <2>3
  <2>4. CASE n # 1
    <3>1. n - 1 \in 1 .. Len(s) /\ At(z, n) = At(s, n - 1) /\ (n - 1) + 1 = n
      BY <1>4, <2>4
    <3> QED BY <1>1, <2>2, <3>1
  <2> QED BY <2>3, <2>4
<1> QED BY <1>2, <1>5, <1>6, <1>7 DEF Path, z

\* One list behind another.
LEMMA PathConcat ==
  ASSUME NEW link, NEW link2, NEW from, NEW s, Path(link, from, s),
         NEW from2, NEW r, Path(link, from2, r),
         \A x \in Slots : In(x, r) => ~ In(x, s),
         s # <<>> => link2[Last(s)] = from2,
         \A n \in 1 .. Len(s) : n # Len(s) => link2[At(s, n)] = link[At(s, n)],
         \A n \in 1 .. Len(r) : link2[At(r, n)] = link[At(r, n)]
  PROVE  Path(link2, IF s = <<>> THEN from2 ELSE from, s \o r)
<1>1. s \in Seq(Slots) /\ Once(s) /\ from = At(s, 1)
      /\ \A n \in 1 .. Len(s) : link[At(s, n)] = At(s, n + 1)
  BY DEF Path
<1>2. r \in Seq(Slots) /\ Once(r) /\ from2 = At(r, 1)
      /\ \A n \in 1 .. Len(r) : link[At(r, n)] = At(r, n + 1)
  BY DEF Path
<1> DEFINE z == s \o r
<1>3. /\ z \in Seq(Slots) /\ Len(z) = Len(s) + Len(r)
      /\ \A n \in Int : At(z, n) = IF n <= Len(s) THEN At(s, n) ELSE At(r, n - Len(s))
  BY <1>1, <1>2, AtConcat
<1>4. /\ Len(s) \in Nat /\ Len(r) \in Nat /\ (s = <<>> <=> Len(s) = 0)
      /\ \A n \in 1 .. Len(s) : At(s, n) \in Slots
      /\ \A n \in 1 .. Len(r) : At(r, n) \in Slots
  BY <1>1, <1>2, AtType
<1> HIDE DEF z
<1>5. \A n \in 1 .. Len(z) : \/ n \in 1 .. Len(s) /\ At(z, n) = At(s, n)
                             \/ n - Len(s) \in 1 .. Len(r) /\ At(z, n) = At(r, n - Len(s))
  BY <1>3, <1>4
<1>6. \A m \in 1 .. Len(s), n \in 1 .. Len(r) : At(s, m) # At(r, n)
  BY <1>4 DEF In
<1>7. Once(z)
  <2> SUFFICES ASSUME NEW m \in 1 .. Len(z), NEW n \in 1 .. Len(z), At(z, m) = At(z, n) PROVE m = n
    BY DEF Once
  <2> DEFINE d == Len(s)
  <2>1. CASE m \in 1 .. d /\ At(z, m) = At(s, m)
    BY <1>1, <1>5, <1>6, <2>1 DEF Once
  <2>2. CASE m - d \in 1 .. Len(r) /\ At(z, m) = At(r, m - d)
    <3>1. n - d \in 1 .. Len(r) /\ At(z, n) = At(r, n - d)
      BY <1>5, <1>6, <2>2
    <3>2. m - d = n - d
      BY <1>2, <2>2, <3>1 DEF Once
    <3> QED BY <1>4, <3>2
  <2> QED BY <1>5, <2>1, <2>2
<1>8. At(z, 1) = IF s = <<>> THEN from2 ELSE from
  BY <1>1, <1>2, <1>3, <1>4
<1>9. ASSUME NEW n \in 1 .. Len(z) PROVE link2[At(z, n)] = At(z, n + 1)
  <2>1. n \in Int /\ n + 1 \in Int
    OBVIOUS
  <2>2. CASE n < Len(s)
    <3>1. n \in 1 .. Len(s) /\ At(z, n) = At(s, n) /\ At(z, n + 1) = At(s, n + 1)
      BY <1>3, <1>4, <2>1, <2>2
    <3> QED BY <1>1, <2>2, <3>1
  <2>3. CASE n = Len(s)
    <3>1. At(z, n) = Last(s) /\ s # <<>> /\ At(z, n + 1) = At(r, 1)
      BY <1>3, <1>4, <2>1, <2>3 DEF Last
    <3> QED BY <1>2, <3>1
  <2>4. CASE n > Len(s)
    <3>1. /\ n - Len(s) \in 1 .. Len(r) /\ At(z, n) = At(r, n - Len(s))
          /\ At(z, n + 1) = At(r, (n - Len(s)) + 1)
      BY <1>3, <1>4, <2>1, <2>4
    <3> QED BY <1>2, <3>1
  <2> QED BY <1>4, <2>1, <2>2, <2>3, <2>4
<1> QED BY <1>3, <1>7, <1>8, <1>9 DEF Path, z

LEMMA InRemove ==
  ASSUME NEW s \in Seq(Slots), Once(s), NEW k \in 1 .. Len(s)
  PROVE  /\ \A y : In(y, Queues!RemoveAt(s, k)) => In(y, s) /\ y # At(s, k)
         /\ \A y : In(y, s) => In(y, Queues!RemoveAt(s, k)) \/ y = At(s, k)
<1> DEFINE z == Queues!RemoveAt(s, k)
<1>1. /\ Len(z) = Len(s) - 1
      /\ \A n \in Int : At(z, n) = IF n < k THEN At(s, n) ELSE At(s, n + 1)
  BY AtRemove
<1>2. Len(s) \in Nat /\ k \in Int /\ 1 <= k /\ k <= Len(s)
  OBVIOUS
<1> HIDE DEF z
<1>3. ASSUME NEW n \in 1 .. Len(z)
      PROVE  \/ n \in 1 .. Len(s) /\ n # k /\ At(z, n) = At(s, n)
             \/ n + 1 \in 1 .. Len(s) /\ n + 1 # k /\ At(z, n) = At(s, n + 1)
  <2>1. n \in Int /\ 1 <= n /\ n <= Len(s) - 1
    BY <1>1
  <2>2. n \in 1 .. Len(s) /\ n + 1 \in 1 .. Len(s)
    BY <1>2, <2>1
  <2>3. At(z, n) = IF n < k THEN At(s, n) ELSE At(s, n + 1)
    BY <1>1, <2>1
  <2> QED BY <1>2, <2>1, <2>2, <2>3
<1>4. \A y : In(y, z) => In(y, s) /\ y # At(s, k)
  BY <1>3 DEF In, Once
<1>5. ASSUME NEW n \in 1 .. Len(s), n # k PROVE In(At(s, n), z)
  <2>1. CASE n < k
    <3>1. n \in 1 .. Len(z) /\ At(z, n) = At(s, n)
      BY <1>1, <1>2, <2>1
    <3> QED BY <3>1 DEF In
  <2>2. CASE n > k
    <3>1. n - 1 \in 1 .. Len(z) /\ At(z, n - 1) = At(s, n)
      BY <1>1, <1>2, <2>2
    <3> QED BY <3>1 DEF In
  <2> QED BY <1>2, <1>5, <2>1, <2>2
<1>6. \A y : In(y, s) => In(y, z) \/ y = At(s, k)
  BY <1>5 DEF In
<1> QED BY <1>4, <1>6 DEF z

\* The slot at position k taken out: its neighbours become neighbours.
LEMMA PathRemove ==
  ASSUME NEW link, NEW link2, NEW from, NEW s, Path(link, from, s), NEW k \in 1 .. Len(s),
         k # 1 => link2[At(s, k - 1)] = At(s, k + 1),
         \A n \in 1 .. Len(s) : n # k /\ n + 1 # k => link2[At(s, n)] = link[At(s, n)]
  PROVE  Path(link2, IF k = 1 THEN At(s, 2) ELSE from, Queues!RemoveAt(s, k))
<1>1. s \in Seq(Slots) /\ Once(s) /\ from = At(s, 1)
      /\ \A n \in 1 .. Len(s) : link[At(s, n)] = At(s, n + 1)
  BY DEF Path
<1> DEFINE z == Queues!RemoveAt(s, k)
<1>2. /\ z \in Seq(Slots) /\ Len(z) = Len(s) - 1
      /\ \A n \in Int : At(z, n) = IF n < k THEN At(s, n) ELSE At(s, n + 1)
  BY <1>1, AtRemove
<1>3. Len(s) \in Nat /\ k \in Int /\ 1 <= k /\ k <= Len(s)
  BY <1>1, AtType
<1> HIDE DEF z
<1>4. \A n \in 1 .. Len(z) : \/ n < k /\ n \in 1 .. Len(s) /\ At(z, n) = At(s, n)
                             \/ n >= k /\ n + 1 \in 1 .. Len(s) /\ At(z, n) = At(s, n + 1)
  <2> SUFFICES ASSUME NEW n \in 1 .. Len(z)
               PROVE  \/ n < k /\ n \in 1 .. Len(s) /\ At(z, n) = At(s, n)
                      \/ n >= k /\ n + 1 \in 1 .. Len(s) /\ At(z, n) = At(s, n + 1)
    OBVIOUS
  <2>1. n \in Int /\ 1 <= n /\ n <= Len(s) - 1
    BY <1>2
  <2>2. n \in 1 .. Len(s) /\ n + 1 \in 1 .. Len(s)
    BY <1>3, <2>1
  <2>3. At(z, n) = IF n < k THEN At(s, n) ELSE At(s, n + 1)
    BY <1>2, <2>1
  <2> QED BY <1>3, <2>1, <2>2, <2>3
<1>5. Once(z)
  <2> SUFFICES ASSUME NEW m \in 1 .. Len(z), NEW n \in 1 .. Len(z), At(z, m) = At(z, n) PROVE m = n
    BY DEF Once
  <2>1. m \in Int /\ n \in Int
    OBVIOUS
  <2>2. m < k /\ n < k => m = n
    BY <1>1, <1>4 DEF Once
  <2>3. m >= k /\ n >= k => m + 1 = n + 1
    BY <1>1, <1>3, <1>4, <2>1 DEF Once
  <2>4. m < k /\ n >= k => m = n + 1
    BY <1>1, <1>3, <1>4, <2>1 DEF Once
  <2>5. m >= k /\ n < k => m + 1 = n
    BY <1>1, <1>3, <1>4, <2>1 DEF Once
  <2> QED BY <1>3, <2>1, <2>2, <2>3, <2>4, <2>5
<1>6. At(z, 1) = IF k = 1 THEN At(s, 2) ELSE from
  BY <1>1, <1>2, <1>3
<1>7. ASSUME NEW n \in 1 .. Len(z) PROVE link2[At(z, n)] = At(z, n + 1)
  <2>1. n \in Int /\ n + 1 \in Int /\ 1 <= n
    OBVIOUS
  <2>2. CASE n + 1 < k
    <3>1. n \in 1 .. Len(s) /\ n < k /\ n # k /\ n + 1 # k
      BY <1>3, <2>1, <2>2
    <3>2. At(z, n) = At(s, n) /\ At(z, n + 1) = At(s, n + 1)
      BY <1>2, <2>1, <2>2, <3>1
    <3> QED BY <1>1, <3>1, <3>2
  <2>3. CASE n + 1 = k
    <3>1. k # 1 /\ n = k - 1 /\ n < k
      BY <1>3, <2>1, <2>3
    <3>2. At(z, n) = At(s, n)
      BY <1>2, <2>1, <3>1
    <3>3. At(z, n + 1) = At(s, k + 1)
      BY <1>2, <1>3, <2>1, <2>3
    <3> QED BY <3>1, <3>2, <3>3
  <2>4. CASE n >= k
    <3>1. /\ n + 1 \in 1 .. Len(s) /\ At(z, n) = At(s, n + 1) /\ At(z, n + 1) = At(s, (n + 1) + 1)
          /\ n + 1 # k /\ (n + 1) + 1 # k
      BY <1>2, <1>3, <2>1, <2>4
    <3> QED BY <1>1, <3>1
  <2> QED BY <1>3, <2>1, <2>2, <2>3, <2>4
<1> QED BY <1>2, <1>5, <1>6, <1>7 DEF Path, z

-----------------------------------------------------------------------------
(* The arena's updates, field by field *)

LEMMA PutNext ==
  ASSUME NEW n \in [Slots -> Node], NEW y \in Slots, NEW v \in Link \union {Garbage}
  PROVE  /\ [n EXCEPT ![y].next = v] \in [Slots -> Node]
         /\ \A x \in Slots : x # y => [n EXCEPT ![y].next = v][x] = n[x]
         /\ [n EXCEPT ![y].next = v][y].next = v
         /\ [n EXCEPT ![y].next = v][y].prev = n[y].prev
         /\ [n EXCEPT ![y].next = v][y].word = n[y].word
         /\ [n EXCEPT ![y].next = v][y].tick = n[y].tick
<1>1. n[y] \in Node
  OBVIOUS
<1>2. [n EXCEPT ![y].next = v] = [x \in Slots |-> IF x = y THEN [n[y] EXCEPT !.next = v] ELSE n[x]]
  OBVIOUS
<1>3. /\ [n[y] EXCEPT !.next = v] \in Node /\ [n[y] EXCEPT !.next = v].next = v
      /\ [n[y] EXCEPT !.next = v].prev = n[y].prev /\ [n[y] EXCEPT !.next = v].word = n[y].word
      /\ [n[y] EXCEPT !.next = v].tick = n[y].tick
  BY <1>1 DEF Node
<1> QED BY <1>2, <1>3

LEMMA PutPrev ==
  ASSUME NEW n \in [Slots -> Node], NEW y \in Slots, NEW v \in Link \union {Garbage}
  PROVE  /\ [n EXCEPT ![y].prev = v] \in [Slots -> Node]
         /\ \A x \in Slots : x # y => [n EXCEPT ![y].prev = v][x] = n[x]
         /\ [n EXCEPT ![y].prev = v][y].prev = v
         /\ [n EXCEPT ![y].prev = v][y].next = n[y].next
         /\ [n EXCEPT ![y].prev = v][y].word = n[y].word
         /\ [n EXCEPT ![y].prev = v][y].tick = n[y].tick
<1>1. n[y] \in Node
  OBVIOUS
<1>2. [n EXCEPT ![y].prev = v] = [x \in Slots |-> IF x = y THEN [n[y] EXCEPT !.prev = v] ELSE n[x]]
  OBVIOUS
<1>3. /\ [n[y] EXCEPT !.prev = v] \in Node /\ [n[y] EXCEPT !.prev = v].prev = v
      /\ [n[y] EXCEPT !.prev = v].next = n[y].next /\ [n[y] EXCEPT !.prev = v].word = n[y].word
      /\ [n[y] EXCEPT !.prev = v].tick = n[y].tick
  BY <1>1 DEF Node
<1> QED BY <1>2, <1>3

LEMMA PutDead ==
  ASSUME NEW n \in [Slots -> Node], NEW y \in Slots, NEW v \in Link
  PROVE  /\ [n EXCEPT ![y] = Dead(v)] \in [Slots -> Node]
         /\ \A x \in Slots : x # y => [n EXCEPT ![y] = Dead(v)][x] = n[x]
         /\ [n EXCEPT ![y] = Dead(v)][y].word = v
<1>1. Dead(v) \in Node /\ Dead(v).word = v
  BY DEF Dead, Node
<1> QED BY <1>1

LEMMA PutLive ==
  ASSUME StorageTypes, NEW y \in Slots, NEW t \in Ticks
  PROVE  /\ Constructed(y, t) \in [Slots -> Node]
         /\ \A x \in Slots : x # y => Constructed(y, t)[x] = node[x]
         /\ Constructed(y, t)[y] = [word |-> Lots, next |-> Null, prev |-> tail[t], tick |-> t]
<1>1. tail[t] \in Link /\ node \in [Slots -> Node]
  BY DEF StorageTypes
<1>2. [word |-> Lots, next |-> Null, prev |-> tail[t], tick |-> t] \in Node
  BY <1>1 DEF Node, Link
<1> QED BY <1>1, <1>2 DEF Constructed

-----------------------------------------------------------------------------
(* What the layout says of one slot *)

LEMMA NotATick == Idle => \A t \in Ticks : t # sweep
<1>1. NumTicks \notin Ticks
  <2>1. NumTicks \in Nat
    BY StorageAssumption
  <2> QED BY <2>1 DEF Ticks
<1> QED BY <1>1 DEF Idle

LEMMA Places ==
  ASSUME StorageTypes, NEW q, NEW f, NEW r, Layout(q, f, r)
  PROVE  /\ \A x : In(x, f) => x \in Slots /\ node[x].word \in Link /\ node[x].word # Lots
         /\ \A t \in Ticks : \A x : In(x, q[t]) => x \in Slots /\ Live(x, t)
         /\ \A x : In(x, r) => x \in Slots /\ Live(x, sweep)
         /\ freeHead \in Link /\ (freeHead # Null <=> f # <<>>)
<1>1. Path(word, freeHead, f) /\ \A n \in 1 .. Len(f) : word[At(f, n)] = At(f, n + 1)
  BY DEF Layout, Path
<1>2. f \in Seq(Slots) /\ freeHead = At(f, 1)
  BY <1>1 DEF Path
<1>3. ASSUME NEW x, In(x, f) PROVE x \in Slots /\ node[x].word \in Link /\ node[x].word # Lots
  <2>1. PICK n \in 1 .. Len(f) : At(f, n) = x
    BY <1>3 DEF In
  <2>2. x \in Slots /\ At(f, n + 1) \in Slots \union {Null}
    BY <1>2, <2>1, AtType
  <2>3. node[x].word = At(f, n + 1)
    BY <1>1, <2>1, <2>2 DEF word
  <2>4. Lots \notin Slots \union {Null}
    BY StorageAssumption DEF Slots, Null
  <2> QED BY <2>2, <2>3, <2>4 DEF Link
<1>4. ASSUME NEW t \in Ticks, NEW x, In(x, q[t]) PROVE x \in Slots /\ Live(x, t)
  <2>1. q[t] \in Seq(Slots) /\ \A n \in 1 .. Len(q[t]) : Live(At(q[t], n), t)
    BY DEF Layout, Level
  <2> QED BY <1>4, <2>1, AtType DEF In
<1>5. ASSUME NEW x, In(x, r) PROVE x \in Slots /\ Live(x, sweep)
  <2>1. r \in Seq(Slots) /\ \A n \in 1 .. Len(r) : Live(At(r, n), sweep)
    BY DEF Layout, Kept, Path
  <2> QED BY <1>5, <2>1, AtType DEF In
<1>6. freeHead \in Link /\ (freeHead # Null <=> f # <<>>)
  BY <1>2, AtType DEF Link
<1> QED BY <1>3, <1>4, <1>5, <1>6

LEMMA Ends ==
  ASSUME StorageTypes, NEW q, NEW f, NEW r, Layout(q, f, r), NEW t \in Ticks, t # sweep
  PROVE  /\ q[t] \in Seq(Slots) /\ Path(next, head[t], q[t]) /\ tail[t] = Last(q[t])
         /\ (tail[t] = Null <=> q[t] = <<>>) /\ (head[t] = Null <=> q[t] = <<>>)
         /\ (tail[t] # Null => In(tail[t], q[t]))
         /\ \A n \in 1 .. Len(q[t]) : node[At(q[t], n)].prev = At(q[t], n - 1)
<1>1. /\ q[t] \in Seq(Slots) /\ Path(next, head[t], q[t]) /\ tail[t] = Last(q[t])
      /\ \A n \in 1 .. Len(q[t]) : node[At(q[t], n)].prev = At(q[t], n - 1)
  BY DEF Layout, Level, Path
<1>2. head[t] = At(q[t], 1)
  BY <1>1 DEF Path
<1>3. (tail[t] = Null <=> q[t] = <<>>) /\ (head[t] = Null <=> q[t] = <<>>)
  BY <1>1, <1>2, AtType
<1>4. tail[t] # Null => In(tail[t], q[t])
  <2> SUFFICES ASSUME q[t] # <<>> PROVE In(Last(q[t]), q[t])
    BY <1>1, <1>3
  <2>1. Len(q[t]) \in 1 .. Len(q[t])
    BY <1>1, AtType
  <2> QED BY <2>1 DEF In, Last
<1> QED BY <1>1, <1>3, <1>4

LEMMA NoNull == Null \notin Slots /\ Lots \notin Link
BY StorageAssumption DEF Null, Slots, Link

\* A level a step does not touch.
LEMMA LevelFrame ==
  ASSUME NEW t \in Ticks, NEW s, Level(t, s), t # sweep, t # sweep',
         head'[t] = head[t], tail'[t] = tail[t],
         \A x : In(x, s) => node'[x] = node[x]
  PROVE  Level(t, s)'
<1>1. s \in Seq(Slots) /\ Path(next, head[t], s) /\ tail[t] = Last(s)
  BY DEF Level, Path
<1>2. \A n \in 1 .. Len(s) : node'[At(s, n)] = node[At(s, n)] /\ At(s, n) \in Slots
  BY <1>1, AtType DEF In
<1>3. \A n \in 1 .. Len(s) : next'[At(s, n)] = next[At(s, n)]
  BY <1>2 DEF next
<1>4. Path(next', head[t], s)
  BY <1>1, <1>3, PathFrame
<1>5. \A n \in 1 .. Len(s) : Live(At(s, n), t) /\ node[At(s, n)].prev = At(s, n - 1)
  BY DEF Level
<1>6. \A n \in 1 .. Len(s) : Live(At(s, n), t)' /\ node'[At(s, n)].prev = At(s, n - 1)
  BY <1>2, <1>5 DEF Live
<1>7. Path(next, IF t = sweep THEN cursor ELSE head[t], s)'
  BY <1>4 DEF Path
<1>8. Last(s)' = Last(s) /\ \A n \in 1 .. Len(s) : At(s, n)' = At(s, n) /\ At(s, n - 1)' = At(s, n - 1)
  OBVIOUS
<1> QED BY <1>1, <1>6, <1>7, <1>8 DEF Level

\* The free list, when the slots on it keep their links.
LEMMA FreeFrame ==
  ASSUME NEW from, NEW f, Path(word, from, f), \A x : In(x, f) => node'[x] = node[x]
  PROVE  Path(word', from, f)
<1>1. \A n \in 1 .. Len(f) : node'[At(f, n)] = node[At(f, n)] /\ At(f, n) \in Slots
  BY AtType DEF In, Path
<1>2. \A n \in 1 .. Len(f) : word'[At(f, n)] = word[At(f, n)]
  BY <1>1 DEF word
<1> QED BY <1>2, PathFrame

\* No dead slot is lost: while none changes sides, ...
LEMMA PooledSame ==
  ASSUME NEW f, Pooled(f), \A x \in Slots : node'[x].word = node[x].word
  PROVE  Pooled(f)'
<1>1. \A x \in Slots : node'[x].word # Lots => In(x, f)
  BY DEF Pooled
<1> QED BY <1>1 DEF Pooled, In, At

\* ... when one is released, ...
LEMMA PooledCons ==
  ASSUME NEW f \in Seq(Slots), Pooled(f), NEW s \in Slots,
         \A x \in Slots : x # s => node'[x].word = node[x].word
  PROVE  Pooled(<<s>> \o f)'
<1> DEFINE z == <<s>> \o f
<1>1. In(s, z) /\ \A x : In(x, f) => In(x, z)
  BY InCons
<1> HIDE DEF z
<1>2. \A x \in Slots : node'[x].word # Lots => In(x, z)
  BY <1>1 DEF Pooled
<1>3. Pooled(z)'
  BY <1>2 DEF Pooled, In, At
<1> QED BY <1>3 DEF z

\* ... and when one is acquired.
LEMMA PooledTail ==
  ASSUME NEW f, Pooled(f), f # <<>>, Path(word, freeHead, f),
         node'[freeHead].word = Lots,
         \A x \in Slots : x # freeHead => node'[x].word = node[x].word
  PROVE  Pooled(Tail(f))'
<1> DEFINE z == Tail(f)
<1>1. \A x \in Slots : In(x, f) => In(x, z) \/ x = freeHead
  BY PathTail
<1> HIDE DEF z
<1>2. \A x \in Slots : node'[x].word # Lots => In(x, z)
  BY <1>1 DEF Pooled
<1>3. Pooled(z)'
  BY <1>2 DEF Pooled, In, At
<1> QED BY <1>3 DEF z

-----------------------------------------------------------------------------
(* The steps *)

LEMMA RestStep ==
  ASSUME StorageTypes, NEW q, NEW f, NEW r, Layout(q, f, r), NEW t \in Ticks, rest(t),
         \A x \in Ticks : test(x)' <=> test(x) \/ x = t
  PROVE  /\ f # <<>> /\ StorageTypes'
         /\ Layout([q EXCEPT ![t] = Append(@, Head(f))], Tail(f), r)'
<1> DEFINE s == Head(f)
           z == Append(q[t], s)
           q1 == [q EXCEPT ![t] = Append(@, Head(f))]
           f1 == Tail(f)
<1>1. /\ Idle /\ freeHead # Null /\ freeHead' = node[freeHead].word
      /\ node' = IF tail[t] = Null THEN Constructed(freeHead, t)
                 ELSE [Constructed(freeHead, t) EXCEPT ![tail[t]].next = freeHead]
      /\ head' = IF tail[t] = Null THEN [head EXCEPT ![t] = freeHead] ELSE head
      /\ tail' = [tail EXCEPT ![t] = freeHead]
      /\ sweep' = sweep /\ cursor' = cursor /\ reloadHead' = reloadHead /\ reloadTail' = reloadTail
  BY DEF rest, loopVars
<1>2. /\ q \in [Ticks -> Seq(Slots)] /\ Path(word, freeHead, f)
      /\ \A x \in Ticks : Level(x, q[x])
      /\ Kept(r) /\ Covered(q, r) /\ Marked(q)
  BY DEF Layout
<1>3. /\ \A x : In(x, f) => x \in Slots /\ node[x].word \in Link /\ node[x].word # Lots
      /\ \A u \in Ticks : \A x : In(x, q[u]) => x \in Slots /\ Live(x, u)
      /\ f # <<>>
  BY <1>1, Places
<1>4. \A u \in Ticks : u # sweep /\ u # sweep'
  BY <1>1, NotATick
<1>5. /\ q[t] \in Seq(Slots) /\ Path(next, head[t], q[t]) /\ tail[t] = Last(q[t])
      /\ (tail[t] = Null <=> q[t] = <<>>)
      /\ (tail[t] # Null => In(tail[t], q[t]))
      /\ \A n \in 1 .. Len(q[t]) : node[At(q[t], n)].prev = At(q[t], n - 1)
  BY <1>4, Ends
<1>6. /\ s \in Slots /\ In(s, f) /\ s = freeHead /\ ~ In(s, f1)
      /\ Path(word, word[s], f1) /\ \A y : In(y, f1) => In(y, f)
  BY <1>2, <1>3, PathTail
<1> HIDE DEF s
<1>7. word[s] = node[s].word /\ node[s].word \in Link /\ node[s].word # Lots
  BY <1>3, <1>6 DEF word
<1>8. tail[t] # Null => tail[t] \in Slots /\ tail[t] # s /\ Live(tail[t], t)
  BY <1>3, <1>5, <1>7 DEF Live
<1>9. /\ node' \in [Slots -> Node]
      /\ \A x \in Slots : x # s /\ x # tail[t] => node'[x] = node[x]
      /\ node'[s] = [word |-> Lots, next |-> Null, prev |-> tail[t], tick |-> t]
      /\ tail[t] # Null =>
           /\ node'[tail[t]].next = s /\ node'[tail[t]].prev = node[tail[t]].prev
           /\ node'[tail[t]].word = node[tail[t]].word /\ node'[tail[t]].tick = node[tail[t]].tick
  <2> DEFINE c == Constructed(s, t)
  <2>1. c \in [Slots -> Node] /\ (\A x \in Slots : x # s => c[x] = node[x])
        /\ c[s] = [word |-> Lots, next |-> Null, prev |-> tail[t], tick |-> t]
    BY <1>6, PutLive
  <2> HIDE DEF c
  <2>2. CASE tail[t] = Null
    <3>1. node' = c
      BY <1>1, <1>6, <2>2 DEF c
    <3> QED BY <2>1, <2>2, <3>1
  <2>3. CASE tail[t] # Null
    <3>1. node' = [c EXCEPT ![tail[t]].next = s]
      BY <1>1, <1>6, <2>3 DEF c
    <3>2. s \in Link \union {Garbage}
      BY <1>6 DEF Link
    <3>3. /\ node' \in [Slots -> Node]
          /\ \A x \in Slots : x # tail[t] => node'[x] = c[x]
          /\ node'[tail[t]].next = s /\ node'[tail[t]].prev = c[tail[t]].prev
          /\ node'[tail[t]].word = c[tail[t]].word /\ node'[tail[t]].tick = c[tail[t]].tick
      BY <1>8, <2>1, <2>3, <3>1, <3>2, PutNext
    <3> QED BY <1>6, <1>8, <2>1, <2>3, <3>3
  <2> QED BY <2>2, <2>3
<1>10. \A x \in Slots : x # s => /\ node'[x].prev = node[x].prev /\ node'[x].word = node[x].word
                               /\ node'[x].tick = node[x].tick
                               /\ (x # tail[t] => node'[x].next = node[x].next)
  <2> SUFFICES ASSUME NEW x \in Slots, x # s
               PROVE  /\ node'[x].prev = node[x].prev /\ node'[x].word = node[x].word
                      /\ node'[x].tick = node[x].tick
                      /\ (x # tail[t] => node'[x].next = node[x].next)
    OBVIOUS
  <2>1. CASE x = tail[t]
    BY <1>9, <2>1, NoNull
  <2>2. CASE x # tail[t]
    BY <1>9, <2>2
  <2> QED BY <2>1, <2>2
<1>11. head' \in [Ticks -> Link] /\ tail' \in [Ticks -> Link]
      /\ head'[t] = (IF tail[t] = Null THEN s ELSE head[t]) /\ tail'[t] = s
      /\ \A u \in Ticks : u # t => head'[u] = head[u] /\ tail'[u] = tail[u]
  BY <1>1, <1>6 DEF StorageTypes, Link
<1>12. StorageTypes'
  <2>1. sweep' \in Ticks \union {NumTicks}
    BY <1>1 DEF StorageTypes
  <2> QED BY <1>9, <1>11, <2>1 DEF StorageTypes, Node, Link, Ticks, Slots
<1>13. Path(word', freeHead', f1)
  <2>1. ASSUME NEW x, In(x, f1) PROVE node'[x] = node[x]
    <3>1. x \in Slots /\ node[x].word # Lots /\ x # s
      BY <1>3, <1>6, <2>1
    <3>2. x # tail[t]
      BY <1>8, <3>1 DEF Live, Null, Slots
    <3> QED BY <1>9, <3>1, <3>2
  <2> QED BY <1>1, <1>6, <1>7, <2>1, FreeFrame
<1>14. ~ In(s, q[t])
  BY <1>3, <1>7 DEF Live
<1>15. /\ Path(next', IF q[t] = <<>> THEN s ELSE head[t], z)
       /\ In(s, z) /\ \A y : In(y, q[t]) => In(y, z)
       /\ \A y \in Slots : In(y, z) => In(y, q[t]) \/ y = s
  <2>1. next'[s] = Null
    BY <1>6, <1>9 DEF next
  <2>2. q[t] # <<>> => next'[Last(q[t])] = s
    BY <1>5, <1>8, <1>9 DEF next
  <2>3. ASSUME NEW n \in 1 .. Len(q[t]), n # Len(q[t]) PROVE next'[At(q[t], n)] = next[At(q[t], n)]
    <3>1. In(At(q[t], n), q[t]) /\ Len(q[t]) \in 1 .. Len(q[t])
      BY <1>5, AtType DEF In
    <3>2. At(q[t], n) # Last(q[t])
      BY <1>5, <2>3, <3>1 DEF Path, Once, Last
    <3>3. At(q[t], n) \in Slots /\ At(q[t], n) # s
      BY <1>3, <1>14, <3>1
    <3> QED BY <1>5, <1>10, <3>2, <3>3 DEF next
  <2>4. PICK l : l = next
    OBVIOUS
  <2>5. PICK ln : ln = next'
    OBVIOUS
  <2>6. PICK h : h = head[t]
    OBVIOUS
  <2>7. PICK y : y = q[t]
    OBVIOUS
  <2>8. /\ Path(l, h, y) /\ s \in Slots /\ ~ In(s, y) /\ ln[s] = Null /\ (y # <<>> => ln[Last(y)] = s)
        /\ \A n \in 1 .. Len(y) : n # Len(y) => ln[At(y, n)] = l[At(y, n)]
    BY <1>5, <1>6, <1>14, <2>1, <2>2, <2>3, <2>4, <2>5, <2>6, <2>7
  <2>9. Path(ln, IF y = <<>> THEN s ELSE h, Append(y, s))
    BY <2>8, PathAppend
  <2>10. In(s, z) /\ (\A x : In(x, q[t]) => In(x, z)) /\ \A x : In(x, z) => In(x, q[t]) \/ x = s
    BY <1>5, <1>6, InAppend
  <2> QED BY <2>5, <2>6, <2>7, <2>9, <2>10
<1>16. z \in Seq(Slots) /\ Len(z) = Len(q[t]) + 1 /\ Len(q[t]) \in Nat
      /\ \A n \in Int : At(z, n) = IF n = Len(q[t]) + 1 THEN s ELSE At(q[t], n)
  BY <1>5, <1>6, AtAppend, AtType
<1> HIDE DEF z, f1
<1>17. /\ Path(next', head'[t], z)
       /\ \A n \in 1 .. Len(z) : Live(At(z, n), t)' /\ node'[At(z, n)].prev = At(z, n - 1)
       /\ tail'[t] = Last(z)
  <2>1. Path(next', head'[t], z)
    BY <1>5, <1>11, <1>15
  <2>2. ASSUME NEW n \in 1 .. Len(z)
        PROVE  Live(At(z, n), t)' /\ node'[At(z, n)].prev = At(z, n - 1)
    <3>1. CASE n = Len(q[t]) + 1
      <4>1. At(z, n) = s /\ At(z, n - 1) = Last(q[t])
        BY <1>16, <3>1 DEF Last
      <4>2. node'[s].word = Lots /\ node'[s].tick = t /\ node'[s].prev = tail[t]
        BY <1>9
      <4>3. At(z, n)' = At(z, n)
        OBVIOUS
      <4> QED BY <1>5, <4>1, <4>2, <4>3 DEF Live
    <3>2. CASE n # Len(q[t]) + 1
      <4>1. n \in 1 .. Len(q[t]) /\ At(z, n) = At(q[t], n) /\ At(z, n - 1) = At(q[t], n - 1)
        BY <1>16, <3>2
      <4>2. At(q[t], n) \in Slots /\ Live(At(q[t], n), t) /\ At(q[t], n) # s
        <5>1. In(At(q[t], n), q[t])
          BY <4>1 DEF In
        <5> QED BY <1>3, <1>14, <5>1
      <4>3. At(z, n)' = At(z, n)
        OBVIOUS
      <4> QED BY <1>5, <1>10, <4>1, <4>2, <4>3 DEF Live
    <3> QED BY <3>1, <3>2
  <2>3. Last(z) = s
    BY <1>16 DEF Last
  <2> QED BY <1>11, <2>1, <2>2, <2>3
<1>18. q1 \in [Ticks -> Seq(Slots)] /\ q1[t] = z /\ \A u \in Ticks : u # t => q1[u] = q[u]
  BY <1>2, <1>16 DEF z, s
<1> HIDE DEF q1
<1>19. ASSUME NEW u \in Ticks PROVE Level(u, q1[u])'
  <2>1. CASE u = t
    <3>1. Level(t, z)'
      BY <1>4, <1>17 DEF Level, Path, At, Last, Once
    <3> QED BY <1>18, <2>1, <3>1
  <2>2. CASE u # t
    <3>1. ASSUME NEW x, In(x, q[u]) PROVE node'[x] = node[x]
      <4>1. x \in Slots /\ Live(x, u)
        BY <1>3, <3>1
      <4>2. x # s /\ x # tail[t]
        BY <1>7, <1>8, <2>2, <4>1 DEF Live, Null, Slots
      <4> QED BY <1>9, <4>1, <4>2
    <3>2. Level(u, q[u])
      BY <1>2
    <3>3. head'[u] = head[u] /\ tail'[u] = tail[u] /\ u # sweep /\ u # sweep'
      BY <1>4, <1>11, <2>2
    <3>4. PICK y : y = q[u]
      OBVIOUS
    <3>5. Level(u, y)'
      BY <3>1, <3>2, <3>3, <3>4, LevelFrame
    <3> QED BY <1>18, <2>2, <3>4, <3>5
  <2> QED BY <2>1, <2>2
<1>20. Kept(r)'
  <2>1. r = <<>> /\ Path(next, reloadHead, r) /\ reloadTail = Last(r)
    BY <1>1, <1>2 DEF Kept
  <2>2. Len(r) = 0 /\ At(r, 1) = Null
    BY <2>1 DEF At
  <2>3. Path(next', reloadHead, r)
    BY <2>1, <2>2, PathFrame
  <2> QED BY <1>1, <2>1, <2>2, <2>3 DEF Kept, Path, Idle
<1>21. Apart(q1, r)'
  BY <1>1 DEF Apart, Idle
<1>22. Covered(q1, r)'
  <2> SUFFICES ASSUME NEW x \in Slots, node'[x].word = Lots
               PROVE  node'[x].tick \in Ticks /\ (In(x, q1[node'[x].tick]) \/ In(x, r))
    BY DEF Covered, In, At
  <2>1. CASE x = s
    <3>1. node'[x].tick = t /\ In(x, z)
      BY <1>9, <1>15, <2>1 DEF z
    <3> QED BY <1>18, <3>1
  <2>2. CASE x # s
    <3>1. node[x].tick \in Ticks /\ (In(x, q[node[x].tick]) \/ In(x, r)) /\ node'[x].tick = node[x].tick
      BY <1>2, <1>10, <2>2 DEF Covered
    <3>2. In(x, q[node[x].tick]) => In(x, q1[node[x].tick])
      BY <1>15, <1>18, <3>1 DEF z
    <3> QED BY <3>1, <3>2
  <2> QED BY <2>1, <2>2
<1>p. Pooled(f1)'
  <2>1. \A x \in Slots : x # freeHead => node'[x].word = node[x].word
    BY <1>6, <1>10
  <2>2. node'[freeHead].word = Lots /\ f # <<>> /\ Pooled(f)
    BY <1>3, <1>6, <1>9 DEF Layout
  <2> QED BY <1>2, <2>1, <2>2, PooledTail DEF f1
<1>23. Marked(q1)'
  <2>1. z # <<>>
    BY <1>16
  <2>2. \A u \in Ticks : test(u) <=> q[u] # <<>>
    BY <1>2, <1>4 DEF Marked
  <2>3. ASSUME NEW u \in Ticks PROVE test(u)' <=> q1[u] # <<>>
    <3>1. CASE u = t
      BY <1>18, <2>1, <3>1
    <3>2. CASE u # t
      BY <1>18, <2>2, <3>2
    <3> QED BY <3>1, <3>2
  <2> QED BY <1>4, <2>3 DEF Marked
<1>24. Layout(q1, f1, r)'
  <2>1. Path(word, freeHead, f1)'
    BY <1>13 DEF Path
  <2> QED BY <1>18, <1>19, <1>20, <1>21, <1>22, <1>23, <1>p, <2>1 DEF Layout
<1> QED BY <1>3, <1>6, <1>12, <1>24 DEF z, q1, f1

LEMMA UnlinkStep ==
  ASSUME StorageTypes, NEW q, NEW f, NEW r, Layout(q, f, r), NEW s \in Slots,
         unlink_and_release(s), NEW t \in Ticks, t = node[s].tick,
         NEW k \in 1 .. Len(q[t]), At(q[t], k) = s,
         \A x \in Ticks : test(x)' <=> test(x) /\ (head'[t] = Null => x # t)
  PROVE  /\ StorageTypes' /\ (head'[t] = Null <=> Len(q[t]) = 1)
         /\ Layout([q EXCEPT ![t] = Queues!RemoveAt(@, k)], <<s>> \o f, r)'
<1> DEFINE z == Queues!RemoveAt(q[t], k)
           q1 == [q EXCEPT ![t] = Queues!RemoveAt(@, k)]
           f1 == <<s>> \o f
<1>0. PICK p : p = node[s].prev
  OBVIOUS
<1>00. PICK n : n = node[s].next
  OBVIOUS
<1>1. /\ Idle /\ freeHead' = s
      /\ head' = IF p = Null THEN [head EXCEPT ![t] = n] ELSE head
      /\ tail' = IF n = Null THEN [tail EXCEPT ![t] = p] ELSE tail
      /\ node' = Released(Bypassed(s), s)
      /\ sweep' = sweep /\ cursor' = cursor /\ reloadHead' = reloadHead /\ reloadTail' = reloadTail
  BY <1>0, <1>00 DEF unlink_and_release, loopVars
<1>2. /\ q \in [Ticks -> Seq(Slots)] /\ Path(word, freeHead, f)
      /\ \A x \in Ticks : Level(x, q[x])
      /\ Kept(r) /\ Covered(q, r) /\ Marked(q)
  BY DEF Layout
<1>3. /\ \A x : In(x, f) => x \in Slots /\ node[x].word \in Link /\ node[x].word # Lots
      /\ \A u \in Ticks : \A x : In(x, q[u]) => x \in Slots /\ Live(x, u)
      /\ freeHead \in Link
  BY Places
<1>4. \A u \in Ticks : u # sweep /\ u # sweep'
  BY <1>1, NotATick
<1>5. /\ q[t] \in Seq(Slots) /\ Path(next, head[t], q[t]) /\ tail[t] = Last(q[t])
      /\ \A m \in 1 .. Len(q[t]) : node[At(q[t], m)].prev = At(q[t], m - 1)
  BY <1>4, Ends
<1>6. /\ Once(q[t]) /\ head[t] = At(q[t], 1)
      /\ \A m \in 1 .. Len(q[t]) : next[At(q[t], m)] = At(q[t], m + 1)
  BY <1>5 DEF Path
<1>7. /\ Len(q[t]) \in Nat /\ k \in Int /\ 1 <= k /\ k <= Len(q[t])
      /\ \A m \in Int : At(q[t], m) \in Link /\ (At(q[t], m) # Null <=> m \in 1 .. Len(q[t]))
  BY <1>5, AtType DEF Link
<1>8. p = At(q[t], k - 1) /\ n = At(q[t], k + 1)
  <2>1. node[s].next = next[s]
    BY DEF next
  <2> QED BY <1>0, <1>00, <1>5, <1>6, <2>1
<1>9. /\ p \in Link /\ (p # Null <=> k # 1) /\ n \in Link /\ (n # Null <=> k # Len(q[t]))
      /\ (p # Null => k - 1 \in 1 .. Len(q[t])) /\ (n # Null => k + 1 \in 1 .. Len(q[t]))
  BY <1>7, <1>8
<1>10. \A m \in 1 .. Len(q[t]) : /\ At(q[t], m) = s => m = k
                                 /\ p # Null /\ At(q[t], m) = p => m = k - 1
                                 /\ n # Null /\ At(q[t], m) = n => m = k + 1
  BY <1>6, <1>8, <1>9 DEF Once
<1>11. /\ p # Null => p \in Slots /\ p # s /\ Live(p, t)
       /\ n # Null => n \in Slots /\ n # s /\ Live(n, t)
       /\ Live(s, t)
       /\ p # Null \/ n # Null => p # n
  <2>1. In(s, q[t])
    BY DEF In
  <2>2. p # Null => In(p, q[t]) /\ p # s
    BY <1>7, <1>8, <1>9, <1>10 DEF In
  <2>3. n # Null => In(n, q[t]) /\ n # s
    BY <1>7, <1>8, <1>9, <1>10 DEF In
  <2>4. ASSUME p # Null, p = n PROVE FALSE
    <3>1. k - 1 = k + 1
      BY <1>8, <1>9, <1>10, <2>4
    <3> QED BY <1>7, <3>1
  <2> QED BY <1>3, <2>1, <2>2, <2>3, <2>4
<1>12. /\ node' \in [Slots -> Node] /\ node'[s].word = freeHead
       /\ \A x \in Slots : x # s /\ x # p /\ x # n => node'[x] = node[x]
       /\ p # Null => /\ node'[p].next = n /\ node'[p].prev = node[p].prev
                      /\ node'[p].word = node[p].word /\ node'[p].tick = node[p].tick
       /\ n # Null => /\ node'[n].prev = p /\ node'[n].next = node[n].next
                      /\ node'[n].word = node[n].word /\ node'[n].tick = node[n].tick
  <2>1. node \in [Slots -> Node]
    BY DEF StorageTypes
  <2>2. PICK fw : fw = IF p = Null THEN node ELSE [node EXCEPT ![p].next = n]
    OBVIOUS
  <2>3. PICK b : b = IF n = Null THEN fw ELSE [fw EXCEPT ![n].prev = p]
    OBVIOUS
  <2>4. Bypassed(s) = b
    BY <1>0, <1>00, <2>2, <2>3 DEF Bypassed
  <2>5. node' = [b EXCEPT ![s] = Dead(freeHead)]
    BY <1>1, <2>4 DEF Released
  <2>6. n \in Link \union {Garbage} /\ p \in Link \union {Garbage}
    BY <1>9
  <2>7. /\ fw \in [Slots -> Node] /\ \A x \in Slots : x # p => fw[x] = node[x]
        /\ p # Null => /\ fw[p].next = n /\ fw[p].prev = node[p].prev
                       /\ fw[p].word = node[p].word /\ fw[p].tick = node[p].tick
    <3>1. CASE p = Null
      BY <2>1, <2>2, <3>1
    <3>2. CASE p # Null
      BY <1>11, <2>1, <2>2, <2>6, <3>2, PutNext
    <3> QED BY <3>1, <3>2
  <2>8. /\ b \in [Slots -> Node] /\ \A x \in Slots : x # n => b[x] = fw[x]
        /\ n # Null => /\ b[n].prev = p /\ b[n].next = fw[n].next
                       /\ b[n].word = fw[n].word /\ b[n].tick = fw[n].tick
    <3>1. CASE n = Null
      BY <2>3, <2>7, <3>1
    <3>2. CASE n # Null
      BY <1>11, <2>3, <2>6, <2>7, <3>2, PutPrev
    <3> QED BY <3>1, <3>2
  <2>9. /\ node' \in [Slots -> Node] /\ node'[s].word = freeHead
        /\ \A x \in Slots : x # s => node'[x] = b[x]
    BY <1>3, <2>5, <2>8, PutDead
  <2>10. \A x \in Slots : x # s /\ x # p /\ x # n => node'[x] = node[x]
    BY <2>7, <2>8, <2>9
  <2>11. p # Null => /\ node'[p].next = n /\ node'[p].prev = node[p].prev
                     /\ node'[p].word = node[p].word /\ node'[p].tick = node[p].tick
    BY <1>11, <2>7, <2>8, <2>9
  <2>12. n # Null => /\ node'[n].prev = p /\ node'[n].next = node[n].next
                     /\ node'[n].word = node[n].word /\ node'[n].tick = node[n].tick
    BY <1>11, <2>7, <2>8, <2>9
  <2> QED BY <2>9, <2>10, <2>11, <2>12
<1>13. ASSUME NEW x \in Slots, x # s
       PROVE  /\ node'[x].word = node[x].word /\ node'[x].tick = node[x].tick
              /\ (x # p => node'[x].next = node[x].next)
              /\ (x # n => node'[x].prev = node[x].prev)
  <2>1. CASE x = p
    BY <1>11, <1>12, <1>13, <2>1, NoNull
  <2>2. CASE x = n
    BY <1>11, <1>12, <1>13, <2>2, NoNull
  <2>3. CASE x # p /\ x # n
    BY <1>12, <1>13, <2>3
  <2> QED BY <2>1, <2>2, <2>3
<1>14. /\ head' \in [Ticks -> Link] /\ tail' \in [Ticks -> Link]
       /\ head'[t] = (IF p = Null THEN n ELSE head[t])
       /\ tail'[t] = (IF n = Null THEN p ELSE tail[t])
       /\ \A u \in Ticks : u # t => head'[u] = head[u] /\ tail'[u] = tail[u]
  BY <1>1, <1>9 DEF StorageTypes
<1>15. StorageTypes'
  <2>1. sweep' \in Ticks \union {NumTicks}
    BY <1>1 DEF StorageTypes
  <2> QED BY <1>12, <1>14, <2>1 DEF StorageTypes, Node, Link, Ticks, Slots
<1>16. /\ z \in Seq(Slots) /\ Len(z) = Len(q[t]) - 1
       /\ \A m \in Int : At(z, m) = IF m < k THEN At(q[t], m) ELSE At(q[t], m + 1)
       /\ \A y : In(y, z) => In(y, q[t]) /\ y # s
       /\ \A y : In(y, q[t]) => In(y, z) \/ y = s
  <2>1. /\ z \in Seq(Slots) /\ Len(z) = Len(q[t]) - 1
        /\ \A m \in Int : At(z, m) = IF m < k THEN At(q[t], m) ELSE At(q[t], m + 1)
    BY <1>5, AtRemove
  <2>2. /\ \A y : In(y, z) => In(y, q[t]) /\ y # At(q[t], k)
        /\ \A y : In(y, q[t]) => In(y, z) \/ y = At(q[t], k)
    BY <1>5, <1>6, InRemove
  <2> HIDE DEF z
  <2> QED BY <2>1, <2>2
<1>17. Path(next', head'[t], z)
  <2>1. PICK l : l = next
    OBVIOUS
  <2>2. PICK ln : ln = next'
    OBVIOUS
  <2>3. PICK h : h = head[t]
    OBVIOUS
  <2>4. PICK y : y = q[t]
    OBVIOUS
  <2>5. k # 1 => ln[At(y, k - 1)] = At(y, k + 1)
    <3> SUFFICES ASSUME k # 1 PROVE next'[p] = n
      BY <1>8, <2>2, <2>4
    <3> QED BY <1>9, <1>11, <1>12 DEF next
  <2>6. ASSUME NEW m \in 1 .. Len(y), m # k, m + 1 # k PROVE ln[At(y, m)] = l[At(y, m)]
    <3>1. At(q[t], m) \in Slots /\ At(q[t], m) # s
      BY <1>5, <1>10, <2>4, <2>6, AtType
    <3>2. At(q[t], m) # p
      <4> SUFFICES ASSUME At(q[t], m) = p PROVE FALSE
        OBVIOUS
      <4>1. p # Null
        BY <3>1, NoNull
      <4>2. m = k - 1
        BY <1>10, <2>4, <4>1
      <4> QED BY <1>7, <2>6, <4>2
    <3> QED BY <1>13, <2>1, <2>2, <2>4, <3>1, <3>2 DEF next
  <2>7. Path(l, h, y) /\ k \in 1 .. Len(y)
    BY <1>5, <2>1, <2>3, <2>4
  <2>8. Path(ln, IF k = 1 THEN At(y, 2) ELSE h, Queues!RemoveAt(y, k))
    BY <2>5, <2>6, <2>7, PathRemove
  <2>9. head'[t] = IF k = 1 THEN At(y, 2) ELSE h
    <3>1. k = 1 => n = At(y, 2)
      BY <1>8, <2>4
    <3> QED BY <1>9, <1>14, <2>3, <3>1
  <2> QED BY <2>2, <2>4, <2>8, <2>9
<1>18. head'[t] = Null <=> Len(q[t]) = 1
  <2>1. k = 1 => (n = Null <=> Len(q[t]) = 1)
    BY <1>7, <1>9
  <2>2. k # 1 => head[t] # Null /\ Len(q[t]) # 1
    <3>1. 1 \in 1 .. Len(q[t]) /\ 1 \in Int
      BY <1>7
    <3>2. At(q[t], 1) # Null
      BY <1>7, <3>1
    <3>3. k # 1 => Len(q[t]) # 1
      <4>1. k \in 1 .. 1 => k = 1
        OBVIOUS
      <4> QED BY <4>1
    <3> QED BY <1>6, <3>2, <3>3
  <2> QED BY <1>9, <1>14, <2>1, <2>2
<1>19. tail'[t] = Last(z)
  <2>1. Last(z) = IF Len(q[t]) - 1 < k THEN At(q[t], Len(q[t]) - 1) ELSE At(q[t], (Len(q[t]) - 1) + 1)
    <3>1. Len(z) = Len(q[t]) - 1 /\ Len(q[t]) - 1 \in Int
      BY <1>7, <1>16
    <3>2. Last(z) = At(z, Len(q[t]) - 1)
      BY <3>1 DEF Last
    <3> HIDE DEF z
    <3> QED BY <1>16, <3>1, <3>2
  <2>2. CASE k = Len(q[t])
    BY <1>7, <1>8, <1>9, <1>14, <2>1, <2>2
  <2>3. CASE k # Len(q[t])
    <3>1. ~ (Len(q[t]) - 1 < k) /\ (Len(q[t]) - 1) + 1 = Len(q[t])
      BY <1>7, <2>3
    <3> QED BY <1>5, <1>9, <1>14, <2>1, <2>3, <3>1 DEF Last
  <2> QED BY <2>2, <2>3
<1>20. ASSUME NEW m \in 1 .. Len(z)
       PROVE  Live(At(z, m), t)' /\ node'[At(z, m)].prev = At(z, m - 1)
  <2>1. m \in Int /\ 1 <= m /\ m <= Len(q[t]) - 1 /\ m \in 1 .. Len(q[t]) /\ m + 1 \in 1 .. Len(q[t])
    BY <1>7, <1>16
  <2>2. /\ At(z, m) = IF m < k THEN At(q[t], m) ELSE At(q[t], m + 1)
        /\ At(z, m - 1) = IF m - 1 < k THEN At(q[t], m - 1) ELSE At(q[t], (m - 1) + 1)
    BY <1>16, <2>1
  <2>3. In(At(z, m), z)
    BY DEF In
  <2>4. At(z, m) \in Slots /\ At(z, m) # s /\ Live(At(z, m), t)
    BY <1>3, <1>16, <2>3
  <2>5. Live(At(z, m), t)'
    <3>1. At(z, m)' = At(z, m)
      OBVIOUS
    <3> QED BY <1>13, <2>4, <3>1 DEF Live
  <2>6. CASE m < k
    <3>1. At(z, m) = At(q[t], m) /\ At(z, m - 1) = At(q[t], m - 1)
      BY <1>7, <2>1, <2>2, <2>6
    <3>2. At(q[t], m) # n
      <4> SUFFICES ASSUME At(q[t], m) = n PROVE FALSE
        OBVIOUS
      <4>1. m = k + 1
        BY <1>10, <2>1, <2>4, <3>1, NoNull
      <4> QED BY <1>7, <2>6, <4>1
    <3> QED BY <1>5, <1>13, <2>1, <2>4, <2>5, <3>1, <3>2
  <2>7. CASE m = k
    <3>1. At(z, m) = n /\ At(z, m - 1) = p
      BY <1>7, <1>8, <2>2, <2>7
    <3> QED BY <1>12, <2>4, <2>5, <3>1, NoNull
  <2>8. CASE m > k
    <3>1. At(z, m) = At(q[t], m + 1) /\ At(z, m - 1) = At(q[t], m)
      BY <1>7, <2>1, <2>2, <2>8
    <3>2. At(q[t], m + 1) # n
      <4> SUFFICES ASSUME At(q[t], m + 1) = n PROVE FALSE
        OBVIOUS
      <4>1. m + 1 = k + 1
        BY <1>10, <2>1, <2>4, <3>1, NoNull
      <4> QED BY <1>7, <2>1, <2>8, <4>1
    <3>3. node[At(q[t], m + 1)].prev = At(q[t], (m + 1) - 1) /\ (m + 1) - 1 = m
      BY <1>5, <2>1
    <3> QED BY <1>13, <2>4, <2>5, <3>1, <3>2, <3>3
  <2> QED BY <1>7, <2>1, <2>6, <2>7, <2>8
<1>21. Path(word', freeHead', f1)
  <2>1. ASSUME NEW x, In(x, f) PROVE node'[x] = node[x] /\ x # s /\ x \in Slots
    <3>1. x \in Slots /\ node[x].word # Lots
      BY <1>3, <2>1
    <3>2. x # p /\ x # n /\ x # s
      BY <1>11, <3>1, NoNull DEF Live
    <3> QED BY <1>12, <3>1, <3>2
  <2>2. PICK l : l = word
    OBVIOUS
  <2>3. PICK ln : ln = word'
    OBVIOUS
  <2>4. PICK h : h = freeHead
    OBVIOUS
  <2>5. Path(l, h, f) /\ ~ In(s, f) /\ ln[s] = h
    BY <1>2, <1>12, <2>1, <2>2, <2>3, <2>4 DEF word
  <2>6. \A m \in 1 .. Len(f) : ln[At(f, m)] = l[At(f, m)]
    BY <2>1, <2>2, <2>3 DEF word, In
  <2>7. Path(ln, s, <<s>> \o f)
    BY <2>5, <2>6, PathCons
  <2> QED BY <1>1, <2>3, <2>7
<1> HIDE DEF z, f1
<1>22. q1 \in [Ticks -> Seq(Slots)] /\ q1[t] = z /\ \A u \in Ticks : u # t => q1[u] = q[u]
  BY <1>2, <1>16 DEF z
<1> HIDE DEF q1
<1>23. ASSUME NEW u \in Ticks PROVE Level(u, q1[u])'
  <2>1. CASE u = t
    <3>1. Level(t, z)'
      BY <1>4, <1>17, <1>19, <1>20 DEF Level, Path, At, Last, Once
    <3> QED BY <1>22, <2>1, <3>1
  <2>2. CASE u # t
    <3>1. ASSUME NEW x, In(x, q[u]) PROVE node'[x] = node[x]
      <4>1. x \in Slots /\ Live(x, u)
        BY <1>3, <3>1
      <4>2. x # s /\ x # p /\ x # n
        BY <1>11, <2>2, <4>1, NoNull DEF Live
      <4> QED BY <1>12, <4>1, <4>2
    <3>2. Level(u, q[u])
      BY <1>2
    <3>3. head'[u] = head[u] /\ tail'[u] = tail[u] /\ u # sweep /\ u # sweep'
      BY <1>4, <1>14, <2>2
    <3>4. PICK y : y = q[u]
      OBVIOUS
    <3>5. Level(u, y)'
      BY <3>1, <3>2, <3>3, <3>4, LevelFrame
    <3> QED BY <1>22, <2>2, <3>4, <3>5
  <2> QED BY <2>1, <2>2
<1>24. Kept(r)'
  <2>1. r = <<>> /\ Path(next, reloadHead, r) /\ reloadTail = Last(r)
    BY <1>1, <1>2 DEF Kept
  <2>2. Len(r) = 0 /\ At(r, 1) = Null
    BY <2>1 DEF At
  <2>3. Path(next', reloadHead, r)
    BY <2>1, <2>2, PathFrame
  <2> QED BY <1>1, <2>1, <2>2, <2>3 DEF Kept, Path, Idle
<1>25. Apart(q1, r)'
  BY <1>1 DEF Apart, Idle
<1>26. Covered(q1, r)'
  <2> SUFFICES ASSUME NEW x \in Slots, node'[x].word = Lots
               PROVE  node'[x].tick \in Ticks /\ (In(x, q1[node'[x].tick]) \/ In(x, r))
    BY DEF Covered, In, At
  <2>1. x # s
    BY <1>3, <1>12, NoNull
  <2>2. node[x].tick \in Ticks /\ (In(x, q[node[x].tick]) \/ In(x, r)) /\ node'[x].tick = node[x].tick
    BY <1>2, <1>13, <2>1 DEF Covered
  <2>3. In(x, q[node[x].tick]) => In(x, q1[node[x].tick])
    BY <1>16, <1>22, <2>1, <2>2 DEF z
  <2> QED BY <2>2, <2>3
<1>p. Pooled(f1)'
  <2>1. f \in Seq(Slots) /\ Pooled(f)
    BY DEF Layout, Path
  <2> QED BY <1>13, <2>1, PooledCons DEF f1
<1>27. Marked(q1)'
  <2>1. z = <<>> <=> Len(q[t]) = 1
    <3>1. z = <<>> <=> Len(z) = 0
      <4>1. z \in Seq(Slots)
        BY <1>16
      <4> HIDE DEF z
      <4> QED BY <4>1, AtType
    <3> QED BY <1>7, <1>16, <3>1
  <2>2. \A u \in Ticks : test(u) <=> q[u] # <<>>
    BY <1>2, <1>4 DEF Marked
  <2>3. ASSUME NEW u \in Ticks PROVE test(u)' <=> q1[u] # <<>>
    <3>1. CASE u = t
      <4>1. q[t] # <<>>
        BY <1>5, <1>7, AtType
      <4> QED BY <1>18, <1>22, <2>1, <2>2, <3>1, <4>1
    <3>2. CASE u # t
      BY <1>22, <2>2, <3>2
    <3> QED BY <3>1, <3>2
  <2> QED BY <1>4, <2>3 DEF Marked
<1>28. Layout(q1, f1, r)'
  <2>1. Path(word, freeHead, f1)'
    BY <1>21 DEF Path
  <2> QED BY <1>22, <1>23, <1>24, <1>25, <1>26, <1>27, <1>p, <2>1 DEF Layout
<1> QED BY <1>15, <1>18, <1>28 DEF z, q1, f1

LEMMA EnterStep ==
  ASSUME StorageTypes, NEW q, NEW f, NEW r, Layout(q, f, r), NEW t \in Ticks, EnterSweep(t)
  PROVE  StorageTypes' /\ Layout(q, f, r)'
<1>1. /\ Idle /\ test(t) /\ sweep' = t /\ cursor' = head[t] /\ reloadHead' = Null /\ reloadTail' = Null
      /\ node' = node /\ freeHead' = freeHead /\ head' = head /\ tail' = tail
      /\ l0' = l0
  BY DEF EnterSweep, poolVars, bitVars
<1>2. /\ q \in [Ticks -> Seq(Slots)] /\ Path(word, freeHead, f)
      /\ \A u \in Ticks : Level(u, q[u])
      /\ Kept(r) /\ Covered(q, r) /\ Marked(q)
  BY DEF Layout
<1>3. \A u \in Ticks : u # sweep
  BY <1>1, NotATick
<1>4. next' = next /\ word' = word
  BY <1>1 DEF next, word
<1>5. StorageTypes'
  BY <1>1 DEF StorageTypes, Node, Link, Ticks, Slots
<1>6. Path(word, freeHead, f)'
  BY <1>1, <1>2, <1>4 DEF Path
<1>7. ASSUME NEW u \in Ticks PROVE Level(u, q[u])'
  <2>1. PICK s : s = q[u]
    OBVIOUS
  <2>2. /\ Path(next, head[u], s)
        /\ \A n \in 1 .. Len(s) : Live(At(s, n), u) /\ node[At(s, n)].prev = At(s, n - 1)
        /\ tail[u] = Last(s)
    BY <1>2, <1>3, <2>1 DEF Level
  <2>3. (IF u = sweep' THEN cursor' ELSE head'[u]) = head[u]
    BY <1>1
  <2>4. Path(next', IF u = sweep' THEN cursor' ELSE head'[u], s)
    BY <1>4, <2>2, <2>3
  <2>5. Level(u, s)'
    BY <1>1, <2>2, <2>4 DEF Level, Path, Live, At, Last
  <2> QED BY <2>1, <2>5
<1>8. r = <<>>
  BY <1>1, <1>2 DEF Kept
<1>9. Kept(r)'
  <2>1. Len(r) = 0 /\ \A n \in Int : At(r, n) = Null
    BY <1>8 DEF At
  <2>2. Path(next', Null, r)
    BY <1>8, <2>1 DEF Path, Once
  <2> QED BY <1>1, <1>8, <2>1, <2>2 DEF Kept, Last, Path
<1>10. Apart(q, r)'
  BY <1>8 DEF Apart, In
<1>11. Covered(q, r)'
  BY <1>1, <1>2 DEF Covered, In, At
<1>p. Pooled(f)'
  BY <1>1, PooledSame DEF Layout
<1>12. Marked(q)'
  BY <1>1, <1>2, <1>3 DEF Marked, test
<1> QED BY <1>2, <1>5, <1>6, <1>7, <1>9, <1>10, <1>11, <1>12, <1>p DEF Layout

\* The maker under the sweep's cursor is the first of what is left of its level.
LEMMA Cursor ==
  ASSUME StorageTypes, NEW q, NEW f, NEW r, Layout(q, f, r), NEW t \in Ticks, t = sweep
  PROVE  /\ q[t] \in Seq(Slots) /\ Path(next, cursor, q[t])
         /\ cursor \in Link /\ cursor = At(q[t], 1) /\ (cursor # Null <=> q[t] # <<>>)
         /\ q[t] # <<>> => tail[t] = Last(q[t])
         /\ \A n \in 1 .. Len(q[t]) : n > 1 => node[At(q[t], n)].prev = At(q[t], n - 1)
         /\ r \in Seq(Slots) /\ Path(next, reloadHead, r) /\ reloadTail = Last(r)
         /\ reloadHead \in Link /\ reloadHead = At(r, 1) /\ reloadTail \in Link
         /\ (reloadHead # Null <=> r # <<>>) /\ (reloadTail # Null <=> r # <<>>)
         /\ \A n \in 1 .. Len(r) : Live(At(r, n), t) /\ node[At(r, n)].prev = At(r, n - 1)
         /\ \A x \in Slots : In(x, r) => ~ In(x, q[t])
         /\ t # NumTicks
<1>1. /\ q[t] \in Seq(Slots) /\ Path(next, cursor, q[t])
      /\ q[t] # <<>> => tail[t] = Last(q[t])
      /\ \A n \in 1 .. Len(q[t]) : n > 1 => node[At(q[t], n)].prev = At(q[t], n - 1)
  <2>1. Level(t, q[t]) /\ q[t] \in Seq(Slots)
    BY DEF Layout
  <2> QED BY <2>1 DEF Level
<1>2. /\ r \in Seq(Slots) /\ Path(next, reloadHead, r) /\ reloadTail = Last(r)
      /\ \A n \in 1 .. Len(r) : Live(At(r, n), t) /\ node[At(r, n)].prev = At(r, n - 1)
  BY DEF Layout, Kept, Path
<1>3. cursor = At(q[t], 1) /\ reloadHead = At(r, 1)
  BY <1>1, <1>2 DEF Path
<1>4. cursor \in Link /\ (cursor # Null <=> q[t] # <<>>)
  BY <1>1, <1>3, AtType DEF Link
<1>5. /\ reloadHead \in Link /\ reloadTail \in Link
      /\ (reloadHead # Null <=> r # <<>>) /\ (reloadTail # Null <=> r # <<>>)
  <2>1. Len(r) \in Int
    BY <1>2
  <2> QED BY <1>2, <1>3, <2>1, AtType DEF Link, Last
<1>6. t # NumTicks
  BY NotATick DEF Idle
<1>7. \A x \in Slots : In(x, r) => ~ In(x, q[t])
  BY <1>6 DEF Layout, Apart, Idle
<1> QED BY <1>1, <1>2, <1>3, <1>4, <1>5, <1>6, <1>7

\* What is left of a level without its first maker.
LEMMA Shorter ==
  ASSUME NEW s \in Seq(Slots), s # <<>>
  PROVE  /\ Tail(s) # <<>> => Last(Tail(s)) = Last(s)
         /\ \A n \in 1 .. Len(Tail(s)) : n > 1 => At(Tail(s), n) = At(s, n + 1) /\ At(Tail(s), n - 1) = At(s, n)
<1> DEFINE z == Tail(s)
<1>1. /\ z \in Seq(Slots) /\ Len(z) = Len(s) - 1
      /\ \A n \in Int : At(z, n) = IF n >= 1 THEN At(s, n + 1) ELSE Null
  BY AtTail
<1>2. Len(s) \in Nat
  OBVIOUS
<1> HIDE DEF z
<1>3. z # <<>> => Len(z) # 0
  BY <1>1, AtType
<1>4. ASSUME Len(z) # 0 PROVE Last(z) = Last(s)
  <2>1. Len(z) \in Int /\ Len(z) >= 1 /\ Len(z) + 1 = Len(s)
    BY <1>1, <1>2, <1>4
  <2> QED BY <1>1, <2>1 DEF Last
<1>5. \A n \in 1 .. Len(z) : n > 1 => At(z, n) = At(s, n + 1) /\ At(z, n - 1) = At(s, n)
  <2> SUFFICES ASSUME NEW n \in 1 .. Len(z), n > 1
               PROVE  At(z, n) = At(s, n + 1) /\ At(z, n - 1) = At(s, n)
    OBVIOUS
  <2>1. n \in Int /\ n - 1 \in Int /\ n - 1 >= 1 /\ (n - 1) + 1 = n /\ n >= 1
    OBVIOUS
  <2> QED BY <1>1, <2>1
<1> QED BY <1>3, <1>4, <1>5 DEF z

\* The swept level, its first maker gone, when the others are as they were.
LEMMA Advance ==
  ASSUME StorageTypes, NEW q, NEW f, NEW r, Layout(q, f, r), NEW t \in Ticks, t = sweep,
         q[t] # <<>>, cursor' = node[cursor].next, sweep' = sweep, tail' = tail,
         \A x \in Slots : In(x, Tail(q[t])) => node'[x] = node[x]
  PROVE  /\ Level(t, Tail(q[t]))' /\ cursor = Head(q[t]) /\ cursor \in Slots /\ In(cursor, q[t])
         /\ ~ In(cursor, Tail(q[t])) /\ Tail(q[t]) \in Seq(Slots)
         /\ \A y : In(y, Tail(q[t])) => In(y, q[t])
         /\ \A y \in Slots : In(y, q[t]) => In(y, Tail(q[t])) \/ y = cursor
<1> DEFINE z == Tail(q[t])
<1>1. /\ q[t] \in Seq(Slots) /\ Path(next, cursor, q[t])
      /\ q[t] # <<>> => tail[t] = Last(q[t])
      /\ \A n \in 1 .. Len(q[t]) : n > 1 => node[At(q[t], n)].prev = At(q[t], n - 1)
  BY Cursor
<1>2. /\ Path(next, next[cursor], z) /\ ~ In(cursor, z)
      /\ cursor = Head(q[t]) /\ cursor \in Slots /\ In(cursor, q[t])
      /\ \A y : In(y, z) => In(y, q[t])
      /\ \A y \in Slots : In(y, q[t]) => In(y, z) \/ y = cursor
  <2>1. PICK l : l = next
    OBVIOUS
  <2>2. PICK h : h = cursor
    OBVIOUS
  <2>3. PICK s : s = q[t]
    OBVIOUS
  <2>4. Path(l, h, s) /\ s # <<>>
    BY <1>1, <2>1, <2>2, <2>3
  <2>5. /\ Path(l, l[h], Tail(s)) /\ ~ In(h, Tail(s))
        /\ h = Head(s) /\ h \in Slots /\ In(h, s)
        /\ \A y \in Slots : In(y, s) => In(y, Tail(s)) \/ y = h
        /\ \A y : In(y, Tail(s)) => In(y, s)
    BY <2>4, PathTail
  <2> QED BY <2>1, <2>2, <2>3, <2>5
<1>3. z \in Seq(Slots) /\ Len(z) = Len(q[t]) - 1 /\ Len(q[t]) \in Nat
  BY <1>1, AtTail
<1>4. /\ z # <<>> => Last(z) = Last(q[t])
      /\ \A n \in 1 .. Len(z) : n > 1 => At(z, n) = At(q[t], n + 1) /\ At(z, n - 1) = At(q[t], n)
  BY <1>1, Shorter
<1>5. \A x \in Slots : In(x, z) => node'[x] = node[x]
  OBVIOUS
<1>6. \A x : In(x, q[t]) => Live(x, t)
  BY Places
<1> HIDE DEF z
<1>7. ASSUME NEW n \in 1 .. Len(z)
      PROVE  At(z, n) \in Slots /\ node'[At(z, n)] = node[At(z, n)] /\ Live(At(z, n), t)
  <2>1. At(z, n) \in Slots /\ In(At(z, n), z)
    BY <1>3, AtType DEF In
  <2> QED BY <1>2, <1>5, <1>6, <2>1
<1>8. Path(next', cursor', z)
  <2>1. \A n \in 1 .. Len(z) : next'[At(z, n)] = next[At(z, n)]
    BY <1>7 DEF next
  <2>2. cursor' = next[cursor]
    BY <1>2 DEF next
  <2> QED BY <1>2, <2>1, <2>2, PathFrame
<1>9. ASSUME NEW n \in 1 .. Len(z)
      PROVE  Live(At(z, n), t)' /\ (n > 1 => node'[At(z, n)].prev = At(z, n - 1))
  <2>1. Live(At(z, n), t)'
    <3>1. At(z, n)' = At(z, n)
      BY DEF z
    <3> QED BY <1>7, <3>1 DEF Live
  <2>2. ASSUME n > 1 PROVE node'[At(z, n)].prev = At(z, n - 1)
    <3>1. n + 1 \in 1 .. Len(q[t]) /\ n + 1 > 1 /\ (n + 1) - 1 = n
      BY <1>3
    <3>2. node[At(q[t], n + 1)].prev = At(q[t], n)
      BY <1>1, <3>1
    <3> QED BY <1>4, <1>7, <2>2, <3>2
  <2> QED BY <2>1, <2>2
<1>10. Level(t, z)'
  <2>1. Path(next, IF t = sweep THEN cursor ELSE head[t], z)'
    BY <1>8 DEF Path, z
  <2>2. (z # <<>> \/ t # sweep => tail[t] = Last(z))'
    BY <1>1, <1>4 DEF z, Last, At
  <2>3. \A n \in 1 .. Len(z) : Live(At(z, n), t)' /\ (n > 1 \/ t # sweep' => node'[At(z, n)].prev = At(z, n - 1))
    BY <1>9
  <2> QED BY <2>1, <2>2, <2>3 DEF Level, At, z
<1> QED BY <1>2, <1>3, <1>10 DEF z

LEMMA ReleaseStep ==
  ASSUME StorageTypes, NEW q, NEW f, NEW r, Layout(q, f, r), NEW t \in Ticks, t = sweep, ReleaseMaker
  PROVE  /\ q[t] # <<>> /\ StorageTypes'
         /\ Layout([q EXCEPT ![t] = Tail(@)], <<Head(q[t])>> \o f, r)'
<1> DEFINE z == Tail(q[t])
           q1 == [q EXCEPT ![t] = Tail(@)]
           c == Head(q[t])
           f1 == <<c>> \o f
<1>1. /\ ~Idle /\ cursor # Null
      /\ cursor' = node[cursor].next /\ node' = [node EXCEPT ![cursor] = Dead(freeHead)]
      /\ freeHead' = cursor /\ head' = head /\ tail' = tail /\ l0' = l0
      /\ sweep' = sweep /\ reloadHead' = reloadHead /\ reloadTail' = reloadTail
  BY DEF ReleaseMaker, InLoop, Released, bitVars
<1>2. /\ q \in [Ticks -> Seq(Slots)] /\ Path(word, freeHead, f)
      /\ \A u \in Ticks : Level(u, q[u])
      /\ Kept(r) /\ Covered(q, r) /\ Marked(q)
  BY DEF Layout
<1>3. /\ \A x : In(x, f) => x \in Slots /\ node[x].word \in Link /\ node[x].word # Lots
      /\ \A u \in Ticks : \A x : In(x, q[u]) => x \in Slots /\ Live(x, u)
      /\ \A x : In(x, r) => x \in Slots /\ Live(x, t)
      /\ freeHead \in Link
  BY Places
<1>4. /\ q[t] # <<>> /\ r \in Seq(Slots) /\ Path(next, reloadHead, r) /\ reloadTail = Last(r)
      /\ \A n \in 1 .. Len(r) : Live(At(r, n), t) /\ node[At(r, n)].prev = At(r, n - 1)
      /\ \A x \in Slots : In(x, r) => ~ In(x, q[t])
      /\ cursor \in Slots
  BY <1>1, Cursor DEF Link
<1>5. /\ node' \in [Slots -> Node] /\ node'[cursor].word = freeHead
      /\ \A x \in Slots : x # cursor => node'[x] = node[x]
  BY <1>1, <1>3, <1>4, PutDead DEF StorageTypes
<1>6. ~ In(cursor, z)
  <2>1. Path(next, cursor, q[t])
    BY Cursor
  <2> QED BY <1>4, <2>1, PathTail
<1>7. \A x \in Slots : In(x, z) => node'[x] = node[x]
  BY <1>5, <1>6
<1>8. /\ Level(t, z)' /\ cursor = c /\ In(cursor, q[t]) /\ z \in Seq(Slots)
      /\ \A y : In(y, z) => In(y, q[t])
      /\ \A y \in Slots : In(y, q[t]) => In(y, z) \/ y = cursor
  BY <1>1, <1>4, <1>7, Advance
<1> HIDE DEF z, c
<1>9. StorageTypes'
  BY <1>1, <1>5 DEF StorageTypes, Node, Link, Ticks, Slots
<1>10. Path(word', freeHead', f1)
  <2>1. ASSUME NEW x, In(x, f) PROVE node'[x] = node[x] /\ x # c /\ x \in Slots
    BY <1>3, <1>5, <1>8, <2>1 DEF Live
  <2>2. PICK l : l = word
    OBVIOUS
  <2>3. PICK ln : ln = word'
    OBVIOUS
  <2>4. PICK h : h = freeHead
    OBVIOUS
  <2>5. Path(l, h, f) /\ ~ In(c, f) /\ ln[c] = h /\ c \in Slots
    BY <1>2, <1>4, <1>5, <1>8, <2>1, <2>2, <2>3, <2>4 DEF word
  <2>6. \A m \in 1 .. Len(f) : ln[At(f, m)] = l[At(f, m)]
    BY <2>1, <2>2, <2>3 DEF word, In
  <2>7. Path(ln, c, <<c>> \o f)
    BY <2>5, <2>6, PathCons
  <2> QED BY <1>1, <1>8, <2>3, <2>7
<1>11. q1 \in [Ticks -> Seq(Slots)] /\ q1[t] = z /\ \A u \in Ticks : u # t => q1[u] = q[u]
  BY <1>2, <1>8 DEF z
<1> HIDE DEF q1, f1
<1>12. ASSUME NEW u \in Ticks PROVE Level(u, q1[u])'
  <2>1. CASE u = t
    BY <1>8, <1>11, <2>1
  <2>2. CASE u # t
    <3>1. ASSUME NEW x, In(x, q[u]) PROVE node'[x] = node[x]
      BY <1>3, <1>5, <1>8, <2>2, <3>1 DEF Live
    <3>2. Level(u, q[u])
      BY <1>2
    <3>3. head'[u] = head[u] /\ tail'[u] = tail[u] /\ u # sweep /\ u # sweep'
      BY <1>1, <2>2
    <3>4. PICK y : y = q[u]
      OBVIOUS
    <3>5. Level(u, y)'
      BY <3>1, <3>2, <3>3, <3>4, LevelFrame
    <3> QED BY <1>11, <2>2, <3>4, <3>5
  <2> QED BY <2>1, <2>2
<1>13. Kept(r)'
  <2>1. ASSUME NEW n \in 1 .. Len(r) PROVE At(r, n) \in Slots /\ node'[At(r, n)] = node[At(r, n)]
    <3>1. In(At(r, n), r) /\ At(r, n) \in Slots
      BY <1>4, AtType DEF In
    <3> QED BY <1>4, <1>5, <1>8, <3>1
  <2>2. \A n \in 1 .. Len(r) : next'[At(r, n)] = next[At(r, n)]
    BY <2>1 DEF next
  <2>3. Path(next', reloadHead, r)
    BY <1>4, <2>2, PathFrame
  <2>4. \A n \in 1 .. Len(r) : Live(At(r, n), sweep)' /\ node'[At(r, n)].prev = At(r, n - 1)
    BY <1>1, <1>4, <2>1 DEF Live
  <2> QED BY <1>1, <1>4, <2>3, <2>4 DEF Kept, Path, Idle, At, Last
<1>14. Apart(q1, r)'
  <2>1. \A x \in Slots : In(x, r) => ~ In(x, q1[sweep'])
    BY <1>1, <1>4, <1>8, <1>11
  <2> QED BY <2>1 DEF Apart, In, At
<1>15. Covered(q1, r)'
  <2> SUFFICES ASSUME NEW x \in Slots, node'[x].word = Lots
               PROVE  node'[x].tick \in Ticks /\ (In(x, q1[node'[x].tick]) \/ In(x, r))
    BY DEF Covered, In, At
  <2>1. x # cursor
    BY <1>3, <1>5, NoNull
  <2>2. node[x].tick \in Ticks /\ (In(x, q[node[x].tick]) \/ In(x, r)) /\ node'[x].tick = node[x].tick
    BY <1>2, <1>5, <2>1 DEF Covered
  <2>3. In(x, q[node[x].tick]) => In(x, q1[node[x].tick])
    BY <1>8, <1>11, <2>1, <2>2
  <2> QED BY <2>2, <2>3
<1>p. Pooled(f1)'
  <2>1. f \in Seq(Slots) /\ Pooled(f)
    BY DEF Layout, Path
  <2> QED BY <1>4, <1>5, <1>8, <2>1, PooledCons DEF f1
<1>16. Marked(q1)'
  <2>1. ASSUME NEW u \in Ticks PROVE test(u)' <=> q1[u] # <<>> \/ u = sweep'
    <3>1. test(u)' <=> test(u)
      BY <1>1 DEF test
    <3>2. test(u) <=> q[u] # <<>> \/ u = sweep
      BY <1>2 DEF Marked
    <3> QED BY <1>1, <1>11, <3>1, <3>2
  <2> QED BY <2>1 DEF Marked
<1>17. Layout(q1, f1, r)'
  <2>1. Path(word, freeHead, f1)'
    BY <1>10 DEF Path
  <2> QED BY <1>11, <1>12, <1>13, <1>14, <1>15, <1>16, <1>p, <2>1 DEF Layout
<1> QED BY <1>4, <1>9, <1>17 DEF q1, f1, c

LEMMA ReloadStep ==
  ASSUME StorageTypes, NEW q, NEW f, NEW r, Layout(q, f, r), NEW t \in Ticks, t = sweep, ReloadMaker
  PROVE  /\ q[t] # <<>> /\ StorageTypes'
         /\ Layout([q EXCEPT ![t] = Tail(@)], f, Append(r, Head(q[t])))'
<1> DEFINE z == Tail(q[t])
           q1 == [q EXCEPT ![t] = Tail(@)]
           c == Head(q[t])
           r1 == Append(r, c)
           kept == [node EXCEPT ![cursor].next = Null, ![cursor].prev = reloadTail]
<1>1. /\ ~Idle /\ cursor # Null
      /\ cursor' = node[cursor].next
      /\ node' = IF reloadTail = Null THEN kept ELSE [kept EXCEPT ![reloadTail].next = cursor]
      /\ reloadHead' = IF reloadTail = Null THEN cursor ELSE reloadHead
      /\ reloadTail' = cursor
      /\ freeHead' = freeHead /\ head' = head /\ tail' = tail /\ l0' = l0 /\ sweep' = sweep
  BY DEF ReloadMaker, InLoop, bitVars
<1>2. /\ q \in [Ticks -> Seq(Slots)] /\ Path(word, freeHead, f)
      /\ \A u \in Ticks : Level(u, q[u])
      /\ Kept(r) /\ Covered(q, r) /\ Marked(q)
  BY DEF Layout
<1>3. /\ \A x : In(x, f) => x \in Slots /\ node[x].word \in Link /\ node[x].word # Lots
      /\ \A u \in Ticks : \A x : In(x, q[u]) => x \in Slots /\ Live(x, u)
      /\ \A x : In(x, r) => x \in Slots /\ Live(x, t)
  BY Places
<1>4. /\ q[t] # <<>> /\ r \in Seq(Slots) /\ Path(next, reloadHead, r) /\ reloadTail = Last(r)
      /\ \A n \in 1 .. Len(r) : Live(At(r, n), t) /\ node[At(r, n)].prev = At(r, n - 1)
      /\ \A x \in Slots : In(x, r) => ~ In(x, q[t])
      /\ cursor \in Slots /\ reloadTail \in Link /\ (reloadTail # Null <=> r # <<>>)
  BY <1>1, Cursor DEF Link
<1>5. /\ ~ In(cursor, z) /\ In(cursor, q[t]) /\ cursor = c
      /\ \A y : In(y, z) => In(y, q[t])
  <2>1. Path(next, cursor, q[t])
    BY Cursor
  <2> QED BY <1>4, <2>1, PathTail
<1>6. ~ In(cursor, r) /\ (reloadTail # Null => In(reloadTail, r)) /\ (reloadTail # Null => reloadTail \in Slots)
  <2>1. r # <<>> => Len(r) \in 1 .. Len(r)
    BY <1>4, AtType
  <2>2. r # <<>> => In(Last(r), r)
    BY <2>1 DEF In, Last
  <2> QED BY <1>3, <1>4, <1>5, <2>2
<1>7. cursor # reloadTail
  BY <1>1, <1>6
<1>8. /\ kept \in [Slots -> Node]
      /\ \A x \in Slots : x # cursor => kept[x] = node[x]
      /\ kept[cursor].next = Null /\ kept[cursor].prev = reloadTail
      /\ kept[cursor].word = node[cursor].word /\ kept[cursor].tick = node[cursor].tick
  <2> DEFINE k1 == [node EXCEPT ![cursor].next = Null]
  <2>1. node \in [Slots -> Node] /\ Null \in Link \union {Garbage} /\ reloadTail \in Link \union {Garbage}
    BY <1>4 DEF StorageTypes, Link
  <2>2. /\ k1 \in [Slots -> Node] /\ \A x \in Slots : x # cursor => k1[x] = node[x]
        /\ k1[cursor].next = Null
        /\ k1[cursor].word = node[cursor].word /\ k1[cursor].tick = node[cursor].tick
    BY <1>4, <2>1, PutNext
  <2>3. kept = [k1 EXCEPT ![cursor].prev = reloadTail]
    BY <2>1
  <2> HIDE DEF k1, kept
  <2>4. /\ kept \in [Slots -> Node] /\ \A x \in Slots : x # cursor => kept[x] = k1[x]
        /\ kept[cursor].prev = reloadTail /\ kept[cursor].next = k1[cursor].next
        /\ kept[cursor].word = k1[cursor].word /\ kept[cursor].tick = k1[cursor].tick
    BY <1>4, <2>1, <2>2, <2>3, PutPrev
  <2> QED BY <2>2, <2>4
<1> HIDE DEF kept
<1>9. /\ node' \in [Slots -> Node]
      /\ \A x \in Slots : x # cursor /\ x # reloadTail => node'[x] = node[x]
      /\ node'[cursor].next = Null /\ node'[cursor].prev = reloadTail
      /\ node'[cursor].word = node[cursor].word /\ node'[cursor].tick = node[cursor].tick
      /\ reloadTail # Null => /\ node'[reloadTail].next = cursor
                              /\ node'[reloadTail].prev = node[reloadTail].prev
                              /\ node'[reloadTail].word = node[reloadTail].word
                              /\ node'[reloadTail].tick = node[reloadTail].tick
  <2>1. CASE reloadTail = Null
    BY <1>1, <1>8, <2>1
  <2>2. CASE reloadTail # Null
    <3>1. cursor \in Link \union {Garbage} /\ reloadTail \in Slots
      BY <1>4, <1>6, <2>2 DEF Link
    <3>2. node' = [kept EXCEPT ![reloadTail].next = cursor]
      BY <1>1, <2>2
    <3>3. /\ node' \in [Slots -> Node] /\ \A x \in Slots : x # reloadTail => node'[x] = kept[x]
          /\ node'[reloadTail].next = cursor /\ node'[reloadTail].prev = kept[reloadTail].prev
          /\ node'[reloadTail].word = kept[reloadTail].word
          /\ node'[reloadTail].tick = kept[reloadTail].tick
      BY <1>8, <3>1, <3>2, PutNext
    <3> QED BY <1>4, <1>7, <1>8, <3>1, <3>3
  <2> QED BY <2>1, <2>2
<1>10. ASSUME NEW x \in Slots
       PROVE  /\ node'[x].word = node[x].word /\ node'[x].tick = node[x].tick
              /\ (x # cursor => node'[x].prev = node[x].prev)
  <2>1. CASE x = cursor
    BY <1>9, <2>1
  <2>2. CASE x = reloadTail
    BY <1>9, <2>2, NoNull
  <2>3. CASE x # cursor /\ x # reloadTail
    BY <1>9, <2>3
  <2> QED BY <2>1, <2>2, <2>3
<1>11. \A x \in Slots : In(x, z) => node'[x] = node[x]
  <2> SUFFICES ASSUME NEW x \in Slots, In(x, z) PROVE node'[x] = node[x]
    OBVIOUS
  <2>1. x # cursor /\ x # reloadTail
    BY <1>4, <1>5, <1>6, NoNull
  <2> QED BY <1>9, <2>1
<1>12. /\ Level(t, z)' /\ z \in Seq(Slots)
       /\ \A y \in Slots : In(y, q[t]) => In(y, z) \/ y = cursor
  BY <1>1, <1>4, <1>11, Advance
<1> HIDE DEF z, c
<1>13. StorageTypes'
  BY <1>1, <1>9 DEF StorageTypes, Node, Link, Ticks, Slots
<1>14. Path(word', freeHead', f)
  <2>1. ASSUME NEW x, In(x, f) PROVE node'[x] = node[x]
    <3>1. x \in Slots /\ node[x].word # Lots
      BY <1>3, <2>1
    <3>2. x # cursor
      BY <1>3, <1>5, <3>1 DEF Live
    <3>3. x # reloadTail
      BY <1>3, <1>6, <3>1, NoNull DEF Live
    <3> QED BY <1>9, <3>1, <3>2, <3>3
  <2> QED BY <1>1, <1>2, <2>1, FreeFrame
<1>15. q1 \in [Ticks -> Seq(Slots)] /\ q1[t] = z /\ \A u \in Ticks : u # t => q1[u] = q[u]
  BY <1>2, <1>12 DEF z
<1> HIDE DEF q1
<1>16. ASSUME NEW u \in Ticks PROVE Level(u, q1[u])'
  <2>1. CASE u = t
    BY <1>12, <1>15, <2>1
  <2>2. CASE u # t
    <3>1. ASSUME NEW x, In(x, q[u]) PROVE node'[x] = node[x]
      <4>1. x \in Slots /\ Live(x, u)
        BY <1>3, <3>1
      <4>2. x # cursor
        BY <1>3, <1>5, <2>2, <4>1 DEF Live
      <4>3. x # reloadTail
        BY <1>3, <1>6, <2>2, <4>1, NoNull DEF Live
      <4> QED BY <1>9, <4>1, <4>2, <4>3
    <3>2. Level(u, q[u])
      BY <1>2
    <3>3. head'[u] = head[u] /\ tail'[u] = tail[u] /\ u # sweep /\ u # sweep'
      BY <1>1, <2>2
    <3>4. PICK y : y = q[u]
      OBVIOUS
    <3>5. Level(u, y)'
      BY <3>1, <3>2, <3>3, <3>4, LevelFrame
    <3> QED BY <1>15, <2>2, <3>4, <3>5
  <2> QED BY <2>1, <2>2
<1>17. /\ r1 \in Seq(Slots) /\ Len(r1) = Len(r) + 1 /\ Len(r) \in Nat
       /\ \A n \in Int : At(r1, n) = IF n = Len(r) + 1 THEN cursor ELSE At(r, n)
       /\ In(cursor, r1) /\ (\A y : In(y, r) => In(y, r1)) /\ (\A y : In(y, r1) => In(y, r) \/ y = cursor)
  <2>1. c \in Slots /\ r \in Seq(Slots) /\ Len(r) \in Nat
    BY <1>4, <1>5
  <2>2. /\ r1 \in Seq(Slots) /\ Len(r1) = Len(r) + 1
        /\ \A n \in Int : At(r1, n) = IF n = Len(r) + 1 THEN c ELSE At(r, n)
    BY <2>1, AtAppend
  <2>3. In(c, r1) /\ (\A y : In(y, r) => In(y, r1)) /\ (\A y : In(y, r1) => In(y, r) \/ y = c)
    BY <2>1, InAppend
  <2> HIDE DEF r1
  <2> QED BY <1>5, <2>1, <2>2, <2>3
<1>18. Path(next', reloadHead', r1)
  <2>1. PICK l : l = next
    OBVIOUS
  <2>2. PICK ln : ln = next'
    OBVIOUS
  <2>3. PICK h : h = reloadHead
    OBVIOUS
  <2>4. r # <<>> => ln[Last(r)] = c
    BY <1>4, <1>5, <1>6, <1>9, <2>2 DEF next
  <2>5. ASSUME NEW n \in 1 .. Len(r), n # Len(r) PROVE ln[At(r, n)] = l[At(r, n)]
    <3>1. In(At(r, n), r) /\ At(r, n) \in Slots /\ Len(r) \in 1 .. Len(r)
      BY <1>4, AtType DEF In
    <3>2. At(r, n) # Last(r)
      BY <1>4, <2>5, <3>1 DEF Path, Once, Last
    <3>3. At(r, n) # cursor /\ At(r, n) # reloadTail
      BY <1>4, <1>6, <3>1, <3>2
    <3> QED BY <1>9, <2>1, <2>2, <3>1, <3>3 DEF next
  <2>6. Path(l, h, r) /\ c \in Slots /\ ~ In(c, r) /\ ln[c] = Null
    BY <1>4, <1>5, <1>6, <1>9, <2>1, <2>2, <2>3 DEF next
  <2>7. Path(ln, IF r = <<>> THEN c ELSE h, Append(r, c))
    BY <2>4, <2>5, <2>6, PathAppend
  <2> QED BY <1>1, <1>4, <1>5, <2>2, <2>3, <2>7
<1> HIDE DEF r1
<1>19. ASSUME NEW n \in 1 .. Len(r1)
       PROVE  Live(At(r1, n), sweep)' /\ node'[At(r1, n)].prev = At(r1, n - 1)
  <2>0. At(r1, n)' = At(r1, n)
    BY DEF r1, c
  <2>1. CASE n = Len(r) + 1
    <3>1. At(r1, n) = cursor /\ At(r1, n - 1) = Last(r)
      BY <1>17, <2>1 DEF Last
    <3>2. Live(cursor, t)
      BY <1>3, <1>5
    <3> QED BY <1>1, <1>4, <1>9, <2>0, <3>1, <3>2 DEF Live
  <2>2. CASE n # Len(r) + 1
    <3>1. n \in 1 .. Len(r) /\ At(r1, n) = At(r, n) /\ At(r1, n - 1) = At(r, n - 1)
      BY <1>17, <2>2
    <3>2. At(r, n) \in Slots /\ At(r, n) # cursor
      BY <1>4, <1>6, <3>1, AtType DEF In
    <3> QED BY <1>1, <1>4, <1>10, <2>0, <3>1, <3>2 DEF Live
  <2> QED BY <2>1, <2>2
<1>20. Kept(r1)'
  <2>1. Last(r1) = cursor
    BY <1>17 DEF Last
  <2>2. Path(next, reloadHead, r1)'
    BY <1>18 DEF Path, r1, c
  <2>3. ~ Idle'
    BY <1>1 DEF Idle
  <2> QED BY <1>1, <1>19, <2>1, <2>2, <2>3 DEF Kept, At, Last, r1, c
<1>21. Apart(q1, r1)'
  <2>1. \A x \in Slots : In(x, r1) => ~ In(x, q1[sweep'])
    BY <1>1, <1>4, <1>5, <1>15, <1>17
  <2> QED BY <2>1 DEF Apart, In, At, q1, r1, c
<1>22. Covered(q1, r1)'
  <2> SUFFICES ASSUME NEW x \in Slots, node'[x].word = Lots
               PROVE  node'[x].tick \in Ticks /\ (In(x, q1[node'[x].tick]) \/ In(x, r1))
    BY DEF Covered, In, At, q1, r1, c
  <2>1. CASE x = cursor
    <3>1. node'[x].tick = t
      BY <1>3, <1>5, <1>9, <2>1 DEF Live
    <3> QED BY <1>17, <2>1, <3>1
  <2>2. CASE x # cursor
    <3>1. node[x].tick \in Ticks /\ (In(x, q[node[x].tick]) \/ In(x, r)) /\ node'[x].tick = node[x].tick
      BY <1>2, <1>10 DEF Covered
    <3>2. In(x, q[node[x].tick]) => In(x, q1[node[x].tick])
      BY <1>12, <1>15, <2>2, <3>1
    <3> QED BY <1>17, <3>1, <3>2
  <2> QED BY <2>1, <2>2
<1>p. Pooled(f)'
  BY <1>10, PooledSame DEF Layout
<1>23. Marked(q1)'
  <2>1. ASSUME NEW u \in Ticks PROVE test(u)' <=> q1[u] # <<>> \/ u = sweep'
    <3>1. test(u)' <=> test(u)
      BY <1>1 DEF test
    <3>2. test(u) <=> q[u] # <<>> \/ u = sweep
      BY <1>2 DEF Marked
    <3> QED BY <1>1, <1>15, <3>1, <3>2
  <2> QED BY <2>1 DEF Marked, q1
<1>24. Layout(q1, f, r1)'
  <2>1. Path(word, freeHead, f)'
    BY <1>14 DEF Path
  <2> QED BY <1>15, <1>16, <1>20, <1>21, <1>22, <1>23, <1>p, <2>1 DEF Layout
<1> QED BY <1>4, <1>13, <1>24 DEF q1, r1, c

\* Either exit of a sweep, link by link: the kept makers hang behind the rest.
LEMMA LeaveLinks ==
  ASSUME StorageTypes, NEW q, NEW f, NEW r, Layout(q, f, r), NEW t \in Ticks, t = sweep, LeaveSweep
  PROVE  /\ node' \in [Slots -> Node]
         /\ \A x \in Slots : /\ node'[x].word = node[x].word /\ node'[x].tick = node[x].tick
                             /\ (x # Last(q[t]) => node'[x].next = node[x].next)
                             /\ (x # cursor /\ x # reloadHead => node'[x].prev = node[x].prev)
                             /\ (x # Last(q[t]) /\ x # cursor /\ x # reloadHead => node'[x] = node[x])
         /\ q[t] # <<>> => node'[Last(q[t])].next = reloadHead /\ node'[cursor].prev = Null
         /\ r # <<>> => node'[reloadHead].prev = Last(q[t])
         /\ head' = [head EXCEPT ![t] = IF q[t] = <<>> THEN reloadHead ELSE cursor]
         /\ tail' = [tail EXCEPT ![t] = IF r = <<>> THEN Last(q[t]) ELSE Last(r)]
<1> DEFINE e == Last(q[t])
<1>1. /\ q[t] \in Seq(Slots) /\ Path(next, cursor, q[t])
      /\ cursor \in Link /\ cursor = At(q[t], 1) /\ (cursor # Null <=> q[t] # <<>>)
      /\ q[t] # <<>> => tail[t] = e
      /\ reloadTail = Last(r) /\ r \in Seq(Slots) /\ reloadHead \in Link /\ reloadHead = At(r, 1)
      /\ (reloadHead # Null <=> r # <<>>)
      /\ \A n \in 1 .. Len(r) : node[At(r, n)].prev = At(r, n - 1)
      /\ \A x \in Slots : In(x, r) => ~ In(x, q[t])
  BY Cursor
<1>2. node \in [Slots -> Node] /\ tail \in [Ticks -> Link]
  BY DEF StorageTypes
<1>3. /\ e = Null <=> q[t] = <<>>
      /\ q[t] # <<>> => /\ e \in Slots /\ In(e, q[t]) /\ cursor \in Slots /\ In(cursor, q[t])
                        /\ node[e].next = Null
  <2>1. e = Null <=> q[t] = <<>>
    BY <1>1, AtType
  <2> SUFFICES ASSUME q[t] # <<>>
               PROVE  /\ e \in Slots /\ In(e, q[t]) /\ cursor \in Slots /\ In(cursor, q[t])
                      /\ node[e].next = Null
    BY <2>1
  <2>2. 1 \in 1 .. Len(q[t]) /\ Len(q[t]) \in 1 .. Len(q[t]) /\ Len(q[t]) + 1 \in Int
        /\ Len(q[t]) + 1 \notin 1 .. Len(q[t])
    BY <1>1, AtType
  <2>3. e \in Slots /\ In(e, q[t]) /\ cursor \in Slots /\ In(cursor, q[t])
    BY <1>1, <2>2, AtType DEF In, Last
  <2>4. next[e] = At(q[t], Len(q[t]) + 1)
    BY <1>1, <2>2 DEF Path, Last
  <2>5. At(q[t], Len(q[t]) + 1) = Null
    BY <1>1, <2>2, AtType
  <2> QED BY <2>3, <2>4, <2>5 DEF next
<1>4. r # <<>> => reloadHead \in Slots /\ In(reloadHead, r) /\ node[reloadHead].prev = Null
  <2> SUFFICES ASSUME r # <<>>
               PROVE  reloadHead \in Slots /\ In(reloadHead, r) /\ node[reloadHead].prev = Null
    OBVIOUS
  <2>1. 1 \in 1 .. Len(r) /\ 0 \in Int /\ 0 \notin 1 .. Len(r) /\ 1 - 1 = 0
    BY <1>1, AtType
  <2>2. At(r, 0) = Null /\ reloadHead \in Slots
    BY <1>1, <2>1, AtType
  <2>3. node[At(r, 1)].prev = At(r, 1 - 1)
    BY <1>1, <2>1
  <2> QED BY <1>1, <2>1, <2>2, <2>3 DEF In
<1> HIDE DEF e
<1>5. Splice \/ FixUp
  BY DEF LeaveSweep
<1>6. CASE Splice /\ cursor = Null
  <2>1. /\ reloadHead # Null /\ head' = [head EXCEPT ![t] = reloadHead] /\ node' = node
        /\ tail' = [tail EXCEPT ![t] = reloadTail]
    BY <1>6 DEF Splice
  <2>2. q[t] = <<>> /\ r # <<>> /\ e = Null
    BY <1>1, <1>3, <1>6, <2>1
  <2> QED BY <1>1, <1>2, <1>4, <2>1, <2>2 DEF e
<1>7. CASE Splice /\ cursor # Null
  <2>1. /\ reloadHead # Null
        /\ node' = [node EXCEPT ![reloadHead].prev = tail[t], ![tail[t]].next = reloadHead,
                                ![cursor].prev = Null]
        /\ head' = [head EXCEPT ![t] = cursor] /\ tail' = [tail EXCEPT ![t] = reloadTail]
    BY <1>7 DEF Splice
  <2>2. /\ q[t] # <<>> /\ r # <<>> /\ e \in Slots /\ cursor \in Slots /\ reloadHead \in Slots /\ tail[t] = e
        /\ reloadHead # e /\ reloadHead # cursor
        /\ e \in Link \union {Garbage} /\ reloadHead \in Link \union {Garbage}
        /\ Null \in Link \union {Garbage}
    BY <1>1, <1>3, <1>4, <1>7, <2>1 DEF Link
  <2> DEFINE a == [node EXCEPT ![reloadHead].prev = e]
             b == [a EXCEPT ![e].next = reloadHead]
             c == [b EXCEPT ![cursor].prev = Null]
  <2>3. node' = c
    BY <1>2, <2>1, <2>2
  <2>4. /\ a \in [Slots -> Node] /\ \A x \in Slots : x # reloadHead => a[x] = node[x]
        /\ a[reloadHead].prev = e /\ a[reloadHead].next = node[reloadHead].next
        /\ a[reloadHead].word = node[reloadHead].word /\ a[reloadHead].tick = node[reloadHead].tick
    BY <1>2, <2>2, PutPrev
  <2> HIDE DEF a
  <2>5. /\ b \in [Slots -> Node] /\ \A x \in Slots : x # e => b[x] = a[x]
        /\ b[e].next = reloadHead /\ b[e].prev = a[e].prev
        /\ b[e].word = a[e].word /\ b[e].tick = a[e].tick
    BY <2>2, <2>4, PutNext
  <2> HIDE DEF b
  <2>6. /\ c \in [Slots -> Node] /\ \A x \in Slots : x # cursor => c[x] = b[x]
        /\ c[cursor].prev = Null /\ c[cursor].next = b[cursor].next
        /\ c[cursor].word = b[cursor].word /\ c[cursor].tick = b[cursor].tick
    BY <2>2, <2>5, PutPrev
  <2> HIDE DEF c
  <2>7. ASSUME NEW x \in Slots
        PROVE  /\ c[x].word = node[x].word /\ c[x].tick = node[x].tick
               /\ (x # e => c[x].next = node[x].next)
               /\ (x # cursor /\ x # reloadHead => c[x].prev = node[x].prev)
               /\ (x # e /\ x # cursor /\ x # reloadHead => c[x] = node[x])
    <3>1. CASE x = reloadHead
      BY <2>2, <2>4, <2>5, <2>6, <3>1
    <3>2. CASE x # reloadHead /\ x = e
      BY <2>2, <2>4, <2>5, <2>6, <3>2
    <3>3. CASE x # reloadHead /\ x # e
      BY <2>2, <2>4, <2>5, <2>6, <3>3
    <3> QED BY <3>1, <3>2, <3>3
  <2>8. c[e].next = reloadHead /\ c[cursor].prev = Null /\ c[reloadHead].prev = e
    <3>1. c[e].next = reloadHead
      BY <2>2, <2>5, <2>6
    <3>2. c[reloadHead] = a[reloadHead]
      BY <2>2, <2>5, <2>6
    <3> QED BY <2>4, <2>6, <3>1, <3>2
  <2>9. /\ head' = [head EXCEPT ![t] = IF q[t] = <<>> THEN reloadHead ELSE cursor]
        /\ tail' = [tail EXCEPT ![t] = IF r = <<>> THEN e ELSE Last(r)]
    BY <1>1, <2>1, <2>2
  <2>10. node' \in [Slots -> Node]
    BY <2>3, <2>6
  <2> QED BY <2>3, <2>7, <2>8, <2>9, <2>10 DEF e
<1>8. CASE FixUp /\ cursor # Null
  <2>1. /\ reloadHead = Null /\ head' = [head EXCEPT ![t] = cursor]
        /\ node' = [node EXCEPT ![cursor].prev = Null] /\ tail' = tail
    BY <1>8 DEF FixUp
  <2>2. /\ q[t] # <<>> /\ r = <<>> /\ e \in Slots /\ cursor \in Slots /\ tail[t] = e
        /\ Null \in Link \union {Garbage} /\ node[e].next = Null
    BY <1>1, <1>3, <1>8, <2>1 DEF Link
  <2>3. /\ node' \in [Slots -> Node] /\ \A x \in Slots : x # cursor => node'[x] = node[x]
        /\ node'[cursor].prev = Null /\ node'[cursor].next = node[cursor].next
        /\ node'[cursor].word = node[cursor].word /\ node'[cursor].tick = node[cursor].tick
    BY <1>2, <2>1, <2>2, PutPrev
  <2>4. tail' = [tail EXCEPT ![t] = e]
    BY <1>2, <2>1, <2>2
  <2>5. node'[e].next = Null
    BY <2>2, <2>3
  <2> QED BY <2>1, <2>2, <2>3, <2>4, <2>5 DEF e
<1>9. CASE FixUp /\ cursor = Null
  <2>1. /\ reloadHead = Null /\ head' = [head EXCEPT ![t] = cursor]
        /\ node' = node /\ tail' = [tail EXCEPT ![t] = Null]
    BY <1>9 DEF FixUp
  <2>2. q[t] = <<>> /\ r = <<>> /\ e = Null
    BY <1>1, <1>3, <1>9, <2>1
  <2> QED BY <1>2, <1>9, <2>1, <2>2 DEF e
<1> QED BY <1>5, <1>6, <1>7, <1>8, <1>9

LEMMA LeaveStep ==
  ASSUME StorageTypes, NEW q, NEW f, NEW r, Layout(q, f, r), NEW t \in Ticks, t = sweep, LeaveSweep,
         \A x \in Ticks : test(x)' <=> test(x) /\ (head'[t] = Null => x # t)
  PROVE  /\ StorageTypes' /\ (head'[t] = Null <=> q[t] \o r = <<>>)
         /\ Layout([q EXCEPT ![t] = @ \o r], f, <<>>)'
<1> DEFINE z == q[t] \o r
           q1 == [q EXCEPT ![t] = @ \o r]
           a == Len(q[t])
<1>0. PICK e : e = Last(q[t])
  OBVIOUS
<1>1. /\ ~Idle /\ sweep' = NumTicks /\ cursor' = Null /\ reloadHead' = Null /\ reloadTail' = Null
      /\ freeHead' = freeHead
  BY DEF LeaveSweep
<1>2. /\ node' \in [Slots -> Node]
      /\ \A x \in Slots : /\ node'[x].word = node[x].word /\ node'[x].tick = node[x].tick
                          /\ (x # e => node'[x].next = node[x].next)
                          /\ (x # cursor /\ x # reloadHead => node'[x].prev = node[x].prev)
                          /\ (x # e /\ x # cursor /\ x # reloadHead => node'[x] = node[x])
      /\ q[t] # <<>> => node'[e].next = reloadHead /\ node'[cursor].prev = Null
      /\ r # <<>> => node'[reloadHead].prev = e
      /\ head' = [head EXCEPT ![t] = IF q[t] = <<>> THEN reloadHead ELSE cursor]
      /\ tail' = [tail EXCEPT ![t] = IF r = <<>> THEN e ELSE Last(r)]
  BY <1>0, LeaveLinks
<1>3. /\ q \in [Ticks -> Seq(Slots)] /\ Path(word, freeHead, f)
      /\ \A u \in Ticks : Level(u, q[u])
      /\ Kept(r) /\ Covered(q, r) /\ Marked(q)
  BY DEF Layout
<1>4. /\ \A x : In(x, f) => x \in Slots /\ node[x].word \in Link /\ node[x].word # Lots
      /\ \A u \in Ticks : \A x : In(x, q[u]) => x \in Slots /\ Live(x, u)
      /\ \A x : In(x, r) => x \in Slots /\ Live(x, t)
  BY Places
<1>5. /\ q[t] \in Seq(Slots) /\ Path(next, cursor, q[t])
      /\ cursor \in Link /\ cursor = At(q[t], 1) /\ (cursor # Null <=> q[t] # <<>>)
      /\ \A n \in 1 .. Len(q[t]) : n > 1 => node[At(q[t], n)].prev = At(q[t], n - 1)
      /\ r \in Seq(Slots) /\ Path(next, reloadHead, r)
      /\ reloadHead \in Link /\ reloadHead = At(r, 1) /\ (reloadHead # Null <=> r # <<>>)
      /\ \A n \in 1 .. Len(r) : node[At(r, n)].prev = At(r, n - 1)
      /\ \A x \in Slots : In(x, r) => ~ In(x, q[t])
  BY Cursor
<1>6. /\ Once(q[t]) /\ Once(r)
      /\ \A n \in 1 .. Len(q[t]) : At(q[t], n) \in Slots /\ In(At(q[t], n), q[t])
      /\ \A n \in 1 .. Len(r) : At(r, n) \in Slots /\ In(At(r, n), r)
      /\ a \in Nat /\ Len(r) \in Nat
      /\ (q[t] = <<>> <=> a = 0) /\ (r = <<>> <=> Len(r) = 0)
  BY <1>5, AtType DEF Path, In
<1>7. /\ q[t] # <<>> => e \in Slots /\ In(e, q[t]) /\ cursor \in Slots /\ In(cursor, q[t])
      /\ r # <<>> => reloadHead \in Slots /\ In(reloadHead, r)
  <2>1. q[t] # <<>> => a \in 1 .. Len(q[t]) /\ 1 \in 1 .. Len(q[t])
    BY <1>6
  <2>2. r # <<>> => 1 \in 1 .. Len(r)
    BY <1>6
  <2> QED BY <1>0, <1>5, <1>6, <2>1, <2>2 DEF Last
<1>8. /\ q[t] = <<>> => cursor = Null /\ e = Null
      /\ r = <<>> => reloadHead = Null /\ Last(r) = Null
  BY <1>0, <1>5, AtType
<1>9. \A n \in 1 .. Len(q[t]) : /\ At(q[t], n) = e => n = a
                                /\ At(q[t], n) = cursor => n = 1
                                /\ At(q[t], n) # reloadHead
  <2> SUFFICES ASSUME NEW n \in 1 .. Len(q[t])
               PROVE  /\ At(q[t], n) = e => n = a
                      /\ At(q[t], n) = cursor => n = 1
                      /\ At(q[t], n) # reloadHead
    OBVIOUS
  <2>1. a \in 1 .. Len(q[t]) /\ 1 \in 1 .. Len(q[t])
    BY <1>6
  <2>2. At(q[t], n) # reloadHead
    BY <1>5, <1>6, <1>7, <1>8, NoNull
  <2> QED BY <1>0, <1>5, <1>6, <2>1, <2>2 DEF Once, Last
<1>10. \A n \in 1 .. Len(r) : /\ At(r, n) # e /\ At(r, n) # cursor
                              /\ At(r, n) = reloadHead => n = 1
  <2> SUFFICES ASSUME NEW n \in 1 .. Len(r)
               PROVE  /\ At(r, n) # e /\ At(r, n) # cursor
                      /\ At(r, n) = reloadHead => n = 1
    OBVIOUS
  <2>1. 1 \in 1 .. Len(r)
    BY <1>6
  <2>2. At(r, n) # e /\ At(r, n) # cursor
    BY <1>5, <1>6, <1>7, <1>8, NoNull
  <2> QED BY <1>5, <1>6, <2>1, <2>2 DEF Once
<1>11. /\ head' \in [Ticks -> Link] /\ tail' \in [Ticks -> Link]
       /\ head'[t] = (IF q[t] = <<>> THEN reloadHead ELSE cursor)
       /\ tail'[t] = (IF r = <<>> THEN e ELSE Last(r))
       /\ \A u \in Ticks : u # t => head'[u] = head[u] /\ tail'[u] = tail[u]
  <2>1. head \in [Ticks -> Link] /\ tail \in [Ticks -> Link]
    BY DEF StorageTypes
  <2>2. Last(r) \in Link /\ e \in Link
    BY <1>0, <1>5, <1>6, AtType DEF Last, Link
  <2> QED BY <1>2, <1>5, <2>1, <2>2
<1>12. StorageTypes'
  BY <1>1, <1>2, <1>11 DEF StorageTypes, Node, Link, Ticks, Slots
<1>13. Path(word', freeHead', f)
  <2>1. ASSUME NEW n \in 1 .. Len(f) PROVE word'[At(f, n)] = word[At(f, n)]
    <3>1. At(f, n) \in Slots
      BY <1>3, AtType DEF Path
    <3> QED BY <1>2, <3>1 DEF word
  <2> QED BY <1>1, <1>3, <2>1, PathFrame
<1>14. /\ z \in Seq(Slots) /\ Len(z) = a + Len(r)
       /\ \A n \in Int : At(z, n) = IF n <= a THEN At(q[t], n) ELSE At(r, n - a)
       /\ \A y : In(y, z) <=> In(y, q[t]) \/ In(y, r)
  BY <1>5, AtConcat, InConcat
<1> HIDE DEF a
<1>15. Path(next', head'[t], z)
  <2>1. PICK l : l = next
    OBVIOUS
  <2>2. PICK ln : ln = next'
    OBVIOUS
  <2>3. PICK h : h = cursor
    OBVIOUS
  <2>4. PICK h2 : h2 = reloadHead
    OBVIOUS
  <2>5. PICK s : s = q[t]
    OBVIOUS
  <2>6. Path(l, h, s) /\ Path(l, h2, r) /\ \A x \in Slots : In(x, r) => ~ In(x, s)
    BY <1>5, <2>1, <2>3, <2>4, <2>5
  <2>7. s # <<>> => ln[Last(s)] = h2
    BY <1>0, <1>2, <1>7, <2>2, <2>4, <2>5 DEF next
  <2>8. ASSUME NEW n \in 1 .. Len(s), n # Len(s) PROVE ln[At(s, n)] = l[At(s, n)]
    <3>1. At(s, n) # e /\ At(s, n) \in Slots
      BY <1>6, <1>9, <2>5, <2>8 DEF a
    <3> QED BY <1>2, <2>1, <2>2, <3>1 DEF next
  <2>9. ASSUME NEW n \in 1 .. Len(r) PROVE ln[At(r, n)] = l[At(r, n)]
    BY <1>2, <1>6, <1>10, <2>1, <2>2 DEF next
  <2>10. Path(ln, IF s = <<>> THEN h2 ELSE h, s \o r)
    BY <2>6, <2>7, <2>8, <2>9, PathConcat
  <2> QED BY <1>11, <2>2, <2>3, <2>4, <2>5, <2>10
<1> HIDE DEF z
<1>16. z = <<>> <=> q[t] = <<>> /\ r = <<>>
  <2>1. z = <<>> <=> Len(z) = 0
    BY <1>14, AtType
  <2> QED BY <1>6, <1>14, <2>1
<1>17. head'[t] = Null <=> z = <<>>
  BY <1>5, <1>11, <1>16
<1>18. tail'[t] = Last(z)
  <2>1. Last(z) = At(z, a + Len(r)) /\ a + Len(r) \in Int
    BY <1>6, <1>14 DEF Last
  <2>2. CASE r = <<>>
    <3>1. a + Len(r) = a
      BY <1>6, <2>2
    <3> QED BY <1>0, <1>6, <1>11, <1>14, <2>1, <2>2, <3>1 DEF Last, a
  <2>3. CASE r # <<>>
    <3>1. ~ (a + Len(r) <= a) /\ (a + Len(r)) - a = Len(r)
      BY <1>6, <2>3
    <3> QED BY <1>11, <1>14, <2>1, <2>3, <3>1 DEF Last
  <2> QED BY <2>2, <2>3
<1>19. ASSUME NEW n \in 1 .. Len(z)
       PROVE  Live(At(z, n), t)' /\ node'[At(z, n)].prev = At(z, n - 1)
  <2>0. At(z, n)' = At(z, n)
    BY DEF z
  <2>1. In(At(z, n), z)
    BY DEF In
  <2>2. At(z, n) \in Slots /\ Live(At(z, n), t)
    BY <1>4, <1>14, <2>1
  <2>3. Live(At(z, n), t)'
    BY <1>2, <2>0, <2>2 DEF Live
  <2>4. n \in Int /\ n - 1 \in Int /\ 1 <= n /\ n <= a + Len(r)
    BY <1>14
  <2>5. CASE n <= a
    <3>1. n \in 1 .. Len(q[t]) /\ n - 1 <= a
      BY <1>6, <2>4, <2>5 DEF a
    <3>2. At(z, n) = At(q[t], n) /\ At(z, n - 1) = At(q[t], n - 1) /\ At(q[t], n) # reloadHead
      BY <1>9, <1>14, <2>4, <2>5, <3>1
    <3>3. CASE n = 1
      <4>1. At(q[t], n) = cursor /\ q[t] # <<>>
        BY <1>5, <1>6, <2>5, <3>3
      <4>2. At(q[t], n - 1) = Null
        <5>1. n - 1 \notin 1 .. Len(q[t])
          BY <3>3
        <5> QED BY <1>5, <2>4, <5>1, AtType
      <4> QED BY <1>2, <2>3, <3>2, <4>1, <4>2
    <3>4. CASE n # 1
      <4>1. At(q[t], n) # cursor /\ n > 1
        BY <1>9, <2>4, <3>1, <3>4
      <4> QED BY <1>2, <1>5, <2>2, <2>3, <3>1, <3>2, <4>1
    <3> QED BY <3>3, <3>4
  <2>6. CASE ~ (n <= a)
    <3>1. n - a \in 1 .. Len(r) /\ (n - a) - 1 \in Int
      BY <1>6, <2>4, <2>6
    <3>2. At(z, n) = At(r, n - a) /\ At(r, n - a) # cursor
      BY <1>10, <1>14, <2>4, <2>6, <3>1
    <3>3. CASE n - a = 1
      <4>1. n - 1 = a /\ n - 1 <= a /\ r # <<>>
        BY <1>6, <2>4, <3>1, <3>3
      <4>2. At(z, n - 1) = e
        BY <1>0, <1>14, <2>4, <4>1 DEF Last, a
      <4>3. At(r, n - a) = reloadHead
        BY <1>5, <3>3
      <4> QED BY <1>2, <2>3, <3>2, <4>1, <4>2, <4>3
    <3>4. CASE n - a # 1
      <4>1. ~ (n - 1 <= a) /\ (n - 1) - a = (n - a) - 1
        BY <1>6, <2>4, <3>1, <3>4
      <4>2. At(z, n - 1) = At(r, (n - a) - 1)
        BY <1>14, <2>4, <4>1
      <4>3. At(r, n - a) # reloadHead
        BY <1>10, <3>1, <3>4
      <4> QED BY <1>2, <1>5, <2>2, <2>3, <3>1, <3>2, <4>2, <4>3
    <3> QED BY <3>3, <3>4
  <2> QED BY <2>4, <2>5, <2>6, <1>6
<1>20. q1 \in [Ticks -> Seq(Slots)] /\ q1[t] = z /\ \A u \in Ticks : u # t => q1[u] = q[u]
  BY <1>3, <1>14 DEF z
<1> HIDE DEF q1
<1>21. \A u \in Ticks : u # sweep'
  <2>1. NumTicks \notin Ticks
    BY Width DEF Ticks
  <2> QED BY <1>1, <2>1
<1>22. ASSUME NEW u \in Ticks PROVE Level(u, q1[u])'
  <2>1. CASE u = t
    <3>1. Level(t, z)'
      BY <1>15, <1>18, <1>19, <1>21 DEF Level, Path, At, Last, Once, z
    <3> QED BY <1>20, <2>1, <3>1
  <2>2. CASE u # t
    <3>1. ASSUME NEW x, In(x, q[u]) PROVE node'[x] = node[x]
      <4>1. x \in Slots /\ Live(x, u)
        BY <1>4, <3>1
      <4>2. x # e /\ x # cursor
        BY <1>4, <1>7, <1>8, <2>2, <4>1, NoNull DEF Live
      <4>3. x # reloadHead
        BY <1>4, <1>7, <1>8, <2>2, <4>1, NoNull DEF Live
      <4> QED BY <1>2, <4>1, <4>2, <4>3
    <3>2. Level(u, q[u])
      BY <1>3
    <3>3. head'[u] = head[u] /\ tail'[u] = tail[u] /\ u # sweep /\ u # sweep'
      BY <1>11, <1>21, <2>2
    <3>4. PICK y : y = q[u]
      OBVIOUS
    <3>5. Level(u, y)'
      BY <3>1, <3>2, <3>3, <3>4, LevelFrame
    <3> QED BY <1>20, <2>2, <3>4, <3>5
  <2> QED BY <2>1, <2>2
<1>23. Kept(<<>>)'
  <2>1. \A n \in Int : At(<<>>, n) = Null
    BY DEF At
  <2>2. Path(next', Null, <<>>)
    BY <2>1 DEF Path, Once
  <2> QED BY <1>1, <2>1, <2>2 DEF Kept, Last, Path
<1>24. Apart(q1, <<>>)'
  BY DEF Apart, In
<1>25. Covered(q1, <<>>)'
  <2> SUFFICES ASSUME NEW x \in Slots, node'[x].word = Lots
               PROVE  node'[x].tick \in Ticks /\ In(x, q1[node'[x].tick])
    BY DEF Covered, In, At, q1
  <2>1. /\ node[x].tick \in Ticks /\ (In(x, q[node[x].tick]) \/ In(x, r))
        /\ node'[x].tick = node[x].tick /\ node[x].word = Lots
    BY <1>2, <1>3 DEF Covered
  <2>2. CASE In(x, r)
    <3>1. node[x].tick = t
      BY <1>4, <2>2 DEF Live
    <3> QED BY <1>14, <1>20, <2>1, <2>2, <3>1
  <2>3. CASE In(x, q[node[x].tick])
    BY <1>14, <1>20, <2>1, <2>3
  <2> QED BY <2>1, <2>2, <2>3
<1>p. Pooled(f)'
  BY <1>2, PooledSame DEF Layout
<1>26. Marked(q1)'
  <2>1. ASSUME NEW u \in Ticks PROVE test(u)' <=> q1[u] # <<>>
    <3>1. test(u) <=> q[u] # <<>> \/ u = t
      BY <1>3 DEF Marked
    <3>2. CASE u = t
      BY <1>17, <1>20, <3>1, <3>2
    <3>3. CASE u # t
      BY <1>20, <3>1, <3>3
    <3> QED BY <3>2, <3>3
  <2> QED BY <1>21, <2>1 DEF Marked, q1
<1>27. Layout(q1, f, <<>>)'
  <2>1. Path(word, freeHead, f)'
    BY <1>13 DEF Path
  <2> QED BY <1>20, <1>22, <1>23, <1>24, <1>25, <1>26, <1>p, <2>1 DEF Layout
<1> QED BY <1>12, <1>17, <1>27 DEF q1, z

-----------------------------------------------------------------------------
(* The invariant, and the ladder the storage implements *)

StorageInv == StorageTypes /\ BitsExact /\ \E q, f, r : Layout(q, f, r)

LEMMA LayoutStart ==
  ASSUME Init
  PROVE  StorageTypes /\ Layout([t \in Ticks |-> <<>>], [i \in 1 .. PoolCap |-> i], <<>>)
<1> DEFINE q == [t \in Ticks |-> <<>>]
           f == [i \in 1 .. PoolCap |-> i]
<1>1. /\ node = [s \in Slots |-> Dead(IF s = PoolCap THEN Null ELSE s + 1)]
      /\ freeHead = 1
      /\ head = [t \in Ticks |-> Null] /\ tail = [t \in Ticks |-> Null]
      /\ clear
      /\ sweep = NumTicks /\ cursor = Null /\ reloadHead = Null /\ reloadTail = Null
  BY DEF Init
<1>2. PoolCap \in Nat /\ PoolCap >= 1
  BY StorageAssumption
<1>3. \A s \in Slots : /\ node[s].word = (IF s = PoolCap THEN Null ELSE s + 1)
                       /\ node[s].word \in Link /\ node[s] \in Node
  <2> SUFFICES ASSUME NEW s \in Slots
               PROVE  /\ node[s].word = (IF s = PoolCap THEN Null ELSE s + 1)
                      /\ node[s].word \in Link /\ node[s] \in Node
    OBVIOUS
  <2>1. PICK v : v = IF s = PoolCap THEN Null ELSE s + 1
    OBVIOUS
  <2>2. v \in Link
    BY <1>2, <2>1 DEF Link, Slots
  <2>3. node[s] = [word |-> v, next |-> Garbage, prev |-> Garbage, tick |-> Garbage]
    BY <1>1, <2>1 DEF Dead
  <2> QED BY <2>1, <2>2, <2>3 DEF Node
<1>4. StorageTypes
  BY <1>1, <1>3 DEF StorageTypes, Link
<1>5. \A t \in Ticks : t # sweep
  BY <1>1, NotATick DEF Idle
<1>6. /\ f \in Seq(Slots) /\ Len(f) = PoolCap
      /\ \A n \in Int : At(f, n) = IF n \in 1 .. PoolCap THEN n ELSE Null
  BY <1>2 DEF Slots, At
<1> HIDE DEF f
<1>7. Path(word, freeHead, f)
  <2>1. Once(f)
    BY <1>6 DEF Once
  <2>2. freeHead = At(f, 1)
    BY <1>1, <1>2, <1>6
  <2>3. ASSUME NEW n \in 1 .. Len(f) PROVE word[At(f, n)] = At(f, n + 1)
    <3>1. n \in Slots /\ n \in Int /\ n + 1 \in Int /\ At(f, n) = n
      BY <1>6 DEF Slots
    <3>2. word[n] = IF n = PoolCap THEN Null ELSE n + 1
      BY <1>3, <3>1 DEF word
    <3>3. At(f, n + 1) = IF n = PoolCap THEN Null ELSE n + 1
      BY <1>2, <1>6, <3>1 DEF Slots
    <3> QED BY <3>1, <3>2, <3>3
  <2> QED BY <1>6, <2>1, <2>2, <2>3 DEF Path
<1>8. /\ <<>> \in Seq(Slots) /\ Len(<<>>) = 0 /\ \A n \in Int : At(<<>>, n) = Null
  BY DEF At
<1>9. Path(next, Null, <<>>)
  BY <1>8 DEF Path, Once
<1>10. ASSUME NEW t \in Ticks PROVE Level(t, <<>>)
  BY <1>1, <1>5, <1>8, <1>9 DEF Level, Last
<1>11. Kept(<<>>)
  BY <1>1, <1>8, <1>9 DEF Kept, Last
<1>12. Apart(q, <<>>)
  BY <1>1 DEF Apart, Idle
<1>13. Covered(q, <<>>)
  BY <1>3, NoNull DEF Covered
<1>p. Pooled(f)
  <2> SUFFICES ASSUME NEW x \in Slots PROVE In(x, f)
    BY DEF Pooled
  <2>1. x \in 1 .. Len(f) /\ At(f, x) = x
    BY <1>6 DEF Slots
  <2> QED BY <2>1 DEF In
<1>14. Marked(q)
  BY <1>1, <1>5, BitsStart DEF Marked
<1>15. q \in [Ticks -> Seq(Slots)] /\ \A t \in Ticks : q[t] = <<>>
  BY <1>8
<1> HIDE DEF q
<1>16. Layout(q, f, <<>>)
  BY <1>7, <1>10, <1>11, <1>12, <1>13, <1>14, <1>15, <1>p DEF Layout
<1> QED BY <1>4, <1>16 DEF q, f

\* What the bits say after a step that may empty level t.
LEMMA ClearBits ==
  ASSUME BitsExact, NEW t \in Ticks,
         \/ head'[t] = Null /\ reset(t)
         \/ head'[t] # Null /\ UNCHANGED bitVars
  PROVE  BitsExact' /\ \A x \in Ticks : test(x)' <=> test(x) /\ (head'[t] = Null => x # t)
<1>1. CASE head'[t] = Null /\ reset(t)
  <2>1. BitsExact' /\ \A x \in Ticks : test(x)' <=> test(x) /\ x # t
    BY <1>1, ResetExact
  <2> QED BY <1>1, <2>1
<1>2. CASE head'[t] # Null /\ UNCHANGED bitVars
  <2>1. l0' = l0 /\ l1' = l1 /\ l2' = l2
    BY <1>2 DEF bitVars
  <2>2. BitsExact'
    BY <2>1 DEF BitsExact, Word, Bit, L0Words, L1Words, Bits
  <2> QED BY <1>2, <2>1, <2>2 DEF test
<1> QED BY <1>1, <1>2

LEMMA KeptBits == BitsExact /\ UNCHANGED bitVars => BitsExact'
BY DEF BitsExact, Word, Bit, L0Words, L1Words, Bits, bitVars

\* The storage reads as the lists it is made of.
LEMMA Reads ==
  ASSUME NEW q, NEW f, NEW r, Layout(q, f, r)
  PROVE  /\ [t \in Ticks |-> Chain(next, IF t = sweep THEN cursor ELSE head[t])] = q
         /\ Chain(word, freeHead) = f /\ Chain(next, reloadHead) = r
<1>1. /\ q \in [Ticks -> Seq(Slots)] /\ Path(word, freeHead, f) /\ Path(next, reloadHead, r)
      /\ \A t \in Ticks : Path(next, IF t = sweep THEN cursor ELSE head[t], q[t])
  BY DEF Layout, Level, Kept
<1>2. Chain(word, freeHead) = f /\ Chain(next, reloadHead) = r
  BY <1>1, ChainIs
<1>3. \A t \in Ticks : Chain(next, IF t = sweep THEN cursor ELSE head[t]) = q[t]
  BY <1>1, ChainIs
<1> QED BY <1>1, <1>2, <1>3

LEMMA ReadsNext ==
  ASSUME NEW q, NEW f, NEW r, Layout(q, f, r)'
  PROVE  /\ [t \in Ticks |-> Chain(next, IF t = sweep THEN cursor ELSE head[t])]' = q
         /\ Chain(word, freeHead)' = f /\ Chain(next, reloadHead)' = r
<1>1. /\ q \in [Ticks -> Seq(Slots)] /\ Path(word', freeHead', f) /\ Path(next', reloadHead', r)
      /\ \A t \in Ticks : Path(next', IF t = sweep' THEN cursor' ELSE head'[t], q[t])
  BY DEF Layout, Level, Kept, Path
<1>2. Chain(word', freeHead') = f /\ Chain(next', reloadHead') = r
  BY <1>1, ChainIs
<1>3. \A t \in Ticks : Chain(next', IF t = sweep' THEN cursor' ELSE head'[t]) = q[t]
  BY <1>1, ChainIs
<1>4. Chain(word, freeHead)' = f /\ Chain(next, reloadHead)' = r
  BY <1>2 DEF Chain
<1>5. [t \in Ticks |-> Chain(next', IF t = sweep' THEN cursor' ELSE head'[t])] = q
  BY <1>1, <1>3
<1>6. [t \in Ticks |-> Chain(next, IF t = sweep THEN cursor ELSE head[t])]' = q
  BY <1>5 DEF Chain
<1> QED BY <1>4, <1>6

\* Every step is one step of the ladder, from lists to lists.
LEMMA StorageStep ==
  ASSUME StorageInv, Next
  PROVE  StorageInv' /\ Queues!Next
<1> DEFINE Lv == [t \in Ticks |-> Chain(next, IF t = sweep THEN cursor ELSE head[t])]
           Oc == {t \in Ticks : test(t)}
           Fr == Chain(word, freeHead)
           Rl == Chain(next, reloadHead)
<1>1. StorageTypes /\ BitsExact /\ \E q, f, r : Layout(q, f, r)
  BY DEF StorageInv
<1>2. PICK q : \E f, r : Layout(q, f, r)
  BY <1>1
<1>3. PICK f : \E r : Layout(q, f, r)
  BY <1>2
<1>4. PICK r : Layout(q, f, r)
  BY <1>3
<1>5. q \in [Ticks -> Seq(Slots)] /\ Kept(r) /\ Covered(q, r) /\ Marked(q)
  BY <1>4 DEF Layout
<1>6. Lv = q /\ Fr = f /\ Rl = r
  BY <1>4, Reads
<1>7. Queues!Ticks = Ticks
  BY DEF Queues!Ticks, Ticks
<1> HIDE DEF Lv, Oc, Fr, Rl
<1>8. ASSUME NEW t \in Ticks, rest(t) PROVE StorageInv' /\ Queues!Next
  <2>1. set(t) /\ Idle /\ sweep' = sweep /\ reloadHead' = reloadHead
    BY <1>8 DEF rest, loopVars
  <2>2. BitsExact' /\ \A x \in Ticks : test(x)' <=> test(x) \/ x = t
    BY <1>1, <2>1, SetExact
  <2> DEFINE q1 == [q EXCEPT ![t] = Append(@, Head(f))]
             f1 == Tail(f)
  <2>3. f # <<>> /\ StorageTypes' /\ Layout(q1, f1, r)'
    BY <1>1, <1>4, <1>8, <2>2, RestStep
  <2>4. StorageInv'
    BY <2>2, <2>3 DEF StorageInv
  <2>5. Lv' = q1 /\ Fr' = f1 /\ Rl' = r
    BY <2>3, ReadsNext DEF Lv, Fr, Rl
  <2>6. Oc' = Oc \union {t}
    BY <2>2 DEF Oc
  <2>7. Queues!Rest(t)
    BY <1>6, <2>1, <2>3, <2>5, <2>6 DEF Queues!Rest, Queues!Idle, Idle, Lv, Oc, Fr, Rl
  <2> QED BY <1>7, <2>4, <2>7 DEF Queues!Next
<1>9. ASSUME NEW t \in Ticks, EnterSweep(t) PROVE StorageInv' /\ Queues!Next
  <2>1. Idle /\ test(t) /\ sweep' = t /\ UNCHANGED bitVars
    BY <1>9 DEF EnterSweep
  <2>2. BitsExact' /\ \A x \in Ticks : test(x)' <=> test(x)
    BY <1>1, <2>1, KeptBits DEF bitVars, test
  <2>3. StorageTypes' /\ Layout(q, f, r)'
    BY <1>1, <1>4, <1>9, EnterStep
  <2>4. StorageInv'
    BY <2>2, <2>3 DEF StorageInv
  <2>5. Lv' = q /\ Fr' = f /\ Rl' = r
    BY <2>3, ReadsNext DEF Lv, Fr, Rl
  <2>6. Oc' = Oc /\ t \in Oc
    BY <2>1, <2>2 DEF Oc
  <2>7. Queues!Begin(t)
    BY <1>6, <2>1, <2>5, <2>6 DEF Queues!Begin, Queues!Idle, Idle, Lv, Oc, Fr, Rl
  <2> QED BY <1>7, <2>4, <2>7 DEF Queues!Next
<1>10. ASSUME NEW s \in Slots, unlink_and_release(s) PROVE StorageInv' /\ Queues!Next
  <2>1. Idle /\ node[s].word = Lots /\ sweep' = sweep /\ reloadHead' = reloadHead
    BY <1>10 DEF unlink_and_release, loopVars
  <2>2. PICK t : t = node[s].tick
    OBVIOUS
  <2>3. t \in Ticks /\ In(s, q[t])
    <3>1. r = <<>>
      BY <1>5, <2>1 DEF Kept
    <3>2. ~ In(s, r)
      BY <3>1 DEF In
    <3> QED BY <1>5, <2>1, <2>2, <3>2 DEF Covered
  <2>4. PICK k \in 1 .. Len(q[t]) : At(q[t], k) = s
    BY <2>3 DEF In
  <2>5. \/ head'[t] = Null /\ reset(t)
        \/ head'[t] # Null /\ UNCHANGED bitVars
    BY <1>10, <2>2 DEF unlink_and_release
  <2>6. BitsExact' /\ \A x \in Ticks : test(x)' <=> test(x) /\ (head'[t] = Null => x # t)
    BY <1>1, <2>3, <2>5, ClearBits
  <2> DEFINE q1 == [q EXCEPT ![t] = Queues!RemoveAt(@, k)]
             f1 == <<s>> \o f
  <2>7. StorageTypes' /\ (head'[t] = Null <=> Len(q[t]) = 1) /\ Layout(q1, f1, r)'
    BY <1>1, <1>4, <1>10, <2>2, <2>3, <2>4, <2>6, UnlinkStep
  <2>8. StorageInv'
    BY <2>6, <2>7 DEF StorageInv
  <2>9. Lv' = q1 /\ Fr' = f1 /\ Rl' = r
    BY <2>7, ReadsNext DEF Lv, Fr, Rl
  <2>10. Oc' = IF Len(q[t]) = 1 THEN Oc \ {t} ELSE Oc
    BY <2>3, <2>6, <2>7 DEF Oc
  <2>11. q[t][k] = s
    BY <2>4 DEF At
  <2>12. Queues!Unlink(t, k)
    BY <1>6, <2>1, <2>9, <2>10, <2>11 DEF Queues!Unlink, Queues!Idle, Idle, Lv, Oc, Fr, Rl
  <2>13. k \in 1 .. PoolCap /\ k <= Len(Lv[t])
    <3>1. Len(q[t]) <= PoolCap /\ Len(q[t]) \in Nat /\ PoolCap \in Nat
      <4>1. q[t] \in Seq(Slots) /\ Once(q[t])
        BY <1>4, <2>3 DEF Layout, Level, Path
      <4> QED BY <4>1, PathFits, StorageAssumption
    <3> QED BY <1>6, <2>4, <3>1
  <2> QED BY <1>7, <2>3, <2>8, <2>12, <2>13 DEF Queues!Next, Lv
<1>11. ASSUME ~Idle PROVE sweep \in Ticks
  BY <1>1, <1>11 DEF StorageTypes, Idle
<1>12. ASSUME ReleaseMaker PROVE StorageInv' /\ Queues!Next
  <2>1. ~Idle /\ UNCHANGED bitVars /\ sweep' = sweep
    BY <1>12 DEF ReleaseMaker, InLoop, bitVars
  <2>2. PICK t \in Ticks : t = sweep
    BY <1>11, <2>1
  <2>3. BitsExact' /\ \A x \in Ticks : test(x)' <=> test(x)
    BY <1>1, <2>1, KeptBits DEF bitVars, test
  <2> DEFINE q1 == [q EXCEPT ![t] = Tail(@)]
             f1 == <<Head(q[t])>> \o f
  <2>4. q[t] # <<>> /\ StorageTypes' /\ Layout(q1, f1, r)'
    BY <1>1, <1>4, <1>12, <2>2, ReleaseStep
  <2>5. StorageInv'
    BY <2>3, <2>4 DEF StorageInv
  <2>6. Lv' = q1 /\ Fr' = f1 /\ Rl' = r
    BY <2>4, ReadsNext DEF Lv, Fr, Rl
  <2>7. Oc' = Oc
    BY <2>3 DEF Oc
  <2>8. Queues!Take
    BY <1>6, <2>1, <2>2, <2>4, <2>6, <2>7 DEF Queues!Take, Queues!Swept, Queues!Idle, Idle, Lv, Oc, Fr, Rl
  <2> QED BY <2>5, <2>8 DEF Queues!Next
<1>13. ASSUME ReloadMaker PROVE StorageInv' /\ Queues!Next
  <2>1. ~Idle /\ UNCHANGED bitVars /\ sweep' = sweep
    BY <1>13 DEF ReloadMaker, InLoop, bitVars
  <2>2. PICK t \in Ticks : t = sweep
    BY <1>11, <2>1
  <2>3. BitsExact' /\ \A x \in Ticks : test(x)' <=> test(x)
    BY <1>1, <2>1, KeptBits DEF bitVars, test
  <2> DEFINE q1 == [q EXCEPT ![t] = Tail(@)]
             r1 == Append(r, Head(q[t]))
  <2>4. q[t] # <<>> /\ StorageTypes' /\ Layout(q1, f, r1)'
    BY <1>1, <1>4, <1>13, <2>2, ReloadStep
  <2>5. StorageInv'
    BY <2>3, <2>4 DEF StorageInv
  <2>6. Lv' = q1 /\ Fr' = f /\ Rl' = r1
    BY <2>4, ReadsNext DEF Lv, Fr, Rl
  <2>7. Oc' = Oc
    BY <2>3 DEF Oc
  <2>8. Queues!Keep
    BY <1>6, <2>1, <2>2, <2>4, <2>6, <2>7 DEF Queues!Keep, Queues!Swept, Queues!Idle, Idle, Lv, Oc, Fr, Rl
  <2> QED BY <2>5, <2>8 DEF Queues!Next
<1>14. ASSUME LeaveSweep PROVE StorageInv' /\ Queues!Next
  <2>1. ~Idle /\ sweep' = NumTicks /\ (Splice \/ FixUp)
    BY <1>14 DEF LeaveSweep
  <2>2. PICK t \in Ticks : t = sweep
    BY <1>11, <2>1
  <2>3. \/ head'[t] = Null /\ reset(t)
        \/ head'[t] # Null /\ UNCHANGED bitVars
    <3>1. head \in [Ticks -> Link]
      BY <1>1 DEF StorageTypes
    <3>2. CASE Splice
      BY <2>2, <3>1, <3>2 DEF Splice
    <3>3. CASE FixUp
      BY <2>2, <3>1, <3>3 DEF FixUp
    <3> QED BY <2>1, <3>2, <3>3
  <2>4. BitsExact' /\ \A x \in Ticks : test(x)' <=> test(x) /\ (head'[t] = Null => x # t)
    BY <1>1, <2>3, ClearBits
  <2> DEFINE q1 == [q EXCEPT ![t] = @ \o r]
  <2>5. StorageTypes' /\ (head'[t] = Null <=> q[t] \o r = <<>>) /\ Layout(q1, f, <<>>)'
    BY <1>1, <1>4, <1>14, <2>2, <2>4, LeaveStep
  <2>6. StorageInv'
    BY <2>4, <2>5 DEF StorageInv
  <2>7. Lv' = q1 /\ Fr' = f /\ Rl' = <<>>
    BY <2>5, ReadsNext DEF Lv, Fr, Rl
  <2>8. Oc' = IF q[t] \o r = <<>> THEN Oc \ {t} ELSE Oc
    BY <2>4, <2>5 DEF Oc
  <2>9. Queues!End
    BY <1>6, <2>1, <2>2, <2>7, <2>8 DEF Queues!End, Queues!Swept, Queues!Idle, Idle, Lv, Oc, Fr, Rl
  <2> QED BY <2>6, <2>9 DEF Queues!Next
<1> QED BY <1>8, <1>9, <1>10, <1>12, <1>13, <1>14 DEF Next

LEMMA StorageStart == Init => StorageInv /\ Queues!Init
<1> SUFFICES ASSUME Init PROVE StorageInv /\ Queues!Init
  OBVIOUS
<1> DEFINE q == [t \in Ticks |-> <<>>]
           f == [i \in 1 .. PoolCap |-> i]
<1>1. StorageTypes /\ Layout(q, f, <<>>)
  BY LayoutStart
<1>2. BitsExact /\ \A t \in Ticks : ~ test(t)
  BY BitsStart DEF Init
<1>3. StorageInv
  BY <1>1, <1>2 DEF StorageInv
<1>4. /\ [t \in Ticks |-> Chain(next, IF t = sweep THEN cursor ELSE head[t])] = q
      /\ Chain(word, freeHead) = f /\ Chain(next, reloadHead) = <<>>
  BY <1>1, Reads
<1>5. {t \in Ticks : test(t)} = {}
  BY <1>2
<1>6. Queues!Ticks = Ticks /\ sweep = NumTicks
  BY DEF Queues!Ticks, Ticks, Init
<1>7. Queues!Init
  BY <1>4, <1>5, <1>6 DEF Queues!Init
<1> QED BY <1>3, <1>7

LEMMA StorageStutter ==
  ASSUME StorageInv, UNCHANGED vars
  PROVE  StorageInv' /\ UNCHANGED Queues!vars
<1>1. /\ node' = node /\ freeHead' = freeHead /\ head' = head /\ tail' = tail
      /\ l0' = l0 /\ l1' = l1 /\ l2' = l2
      /\ sweep' = sweep /\ cursor' = cursor /\ reloadHead' = reloadHead /\ reloadTail' = reloadTail
  BY DEF vars, poolVars, levelVars, bitVars, loopVars
<1>2. StorageTypes' /\ BitsExact'
  BY <1>1, KeptBits DEF StorageInv, StorageTypes, Node, Link, Ticks, Slots, bitVars
<1>3. next' = next /\ word' = word
  BY <1>1 DEF next, word
<1>4. PICK q : \E f, r : Layout(q, f, r)
  BY DEF StorageInv
<1>5. PICK f : \E r : Layout(q, f, r)
  BY <1>4
<1>6. PICK r : Layout(q, f, r)
  BY <1>5
<1>7. Layout(q, f, r)'
  BY <1>1, <1>3, <1>6 DEF Layout, Path, Level, Live, Kept, Apart, Covered, Pooled, Marked, At, In, Last, Once, Idle, test
<1>8. UNCHANGED Queues!vars
  <2>1. UNCHANGED {t \in Ticks : test(t)}
    BY <1>1 DEF test
  <2>2. /\ UNCHANGED [t \in Ticks |-> Chain(next, IF t = sweep THEN cursor ELSE head[t])]
        /\ UNCHANGED Chain(word, freeHead) /\ UNCHANGED Chain(next, reloadHead)
    BY <1>6, <1>7, Reads, ReadsNext
  <2> QED BY <1>1, <2>1, <2>2 DEF Queues!vars
<1> QED BY <1>2, <1>7, <1>8 DEF StorageInv

\* Whatever is rested, cancelled or swept, every slot of the arena is once on the
\* free list, in the queue of its level, or among the makers the running sweep
\* keeps; outside a sweep's own level, links agree both ways and head and tail are
\* the ends; and the bitmap marks the levels that have anybody.
THEOREM StorageCorrect == Spec => []StorageInv
<1>1. Init => StorageInv
  BY StorageStart
<1>2. StorageInv /\ [Next]_vars => StorageInv'
  BY StorageStep, StorageStutter
<1> QED BY <1>1, <1>2, PTL DEF Spec

\* next_set and prev_set of level_bitmap.hpp return the nearest occupied level,
\* up and down, from any level, or NPOS: for every width of the words and every
\* number of levels three layers of them can index.
THEOREM SearchesCorrect == Spec => []SearchesExact
<1>1. StorageInv => SearchesExact
  BY SearchesFind DEF StorageInv
<1> QED BY <1>1, StorageCorrect, PTL

\* rest, unlink_and_release and sweep_level, link by link, do what the engine asks
\* of its ladder: append, remove from anywhere, take or keep the first maker, put
\* the kept ones at the back; slots are handed out last released first.
THEOREM StorageImplements == Spec => ImplementsLadder
<1>1. Init => Queues!Init
  BY StorageStart
<1>2. StorageInv /\ [Next]_vars => [Queues!Next]_(Queues!vars)
  BY StorageStep, StorageStutter
<1> QED BY <1>1, <1>2, StorageCorrect, PTL DEF Spec, ImplementsLadder, Queues!Spec
=============================================================================
