---------------------------- MODULE LadderStorage ----------------------------
(***************************************************************************)
(* How the book stores its ladder: the intrusive doubly linked list of     *)
(* each level (rest, unlink_and_release and sweep_level of                 *)
(* src/include/lob/order_book.hpp), the arena whose free list runs through *)
(* the first bytes of its dead slots (src/include/lob/memory_pool.hpp),    *)
(* and the three levels of words that index the occupied price levels      *)
(* (src/include/lob/level_bitmap.hpp).                                     *)
(*                                                                         *)
(* Quantities are left out: whether a sweep fills its maker in part, keeps *)
(* it or releases it, and when it stops, is any choice.  A book has one    *)
(* bitmap per side, used alike; this is one side.  A word is the set of    *)
(* its one bits.  The first eight bytes of a slot hold a live order's      *)
(* quantity (Lots) or a dead one's link; the other bytes of a dead slot    *)
(* are Garbage, whatever they were before.                                 *)
(***************************************************************************)
EXTENDS Naturals, FiniteSetsExt, Sequences

CONSTANTS WordBits,   \* 64
          NumTicks,   \* bits of the bitmap, levels of the ladder
          PoolCap,
          Lots, Garbage

ASSUME StorageAssumption ==
  /\ WordBits \in Nat \ {0} /\ PoolCap \in Nat \ {0}
  /\ NumTicks \in Nat \ {0} /\ NumTicks % WordBits = 0
  /\ NumTicks <= WordBits * WordBits * WordBits
  /\ Lots \notin 0 .. PoolCap

VARIABLES node,                     \* the arena
          freeHead,
          head, tail,               \* of each level
          l0, l1, l2,               \* the bitmap's words
          sweep, cursor,            \* sweep_level's level and its o
          reloadHead, reloadTail

poolVars == <<node, freeHead>>
levelVars == <<head, tail>>
bitVars  == <<l0, l1, l2>>
loopVars == <<sweep, cursor, reloadHead, reloadTail>>
vars == <<poolVars, levelVars, bitVars, loopVars>>

Ticks == 0 .. NumTicks - 1
Slots == 1 .. PoolCap
Null  == 0
NPOS  == NumTicks + 1

Bits == 0 .. WordBits - 1
L0Words == NumTicks \div WordBits
L1Words == (L0Words + WordBits - 1) \div WordBits
Word(i) == i \div WordBits
Bit(i)  == i % WordBits

Dead(link) == [word |-> link, next |-> Garbage, prev |-> Garbage, tick |-> Garbage]

\* An empty bitmap, as its constructor leaves it.
clear ==
  /\ l0 = [w \in 0 .. L0Words - 1 |-> {}] /\ l1 = [w \in 0 .. L1Words - 1 |-> {}]
  /\ l2 = {}

\* The free list is threaded through the slots back to front.
Init ==
  /\ node = [s \in Slots |-> Dead(IF s = PoolCap THEN Null ELSE s + 1)]
  /\ freeHead = 1
  /\ head = [t \in Ticks |-> Null] /\ tail = [t \in Ticks |-> Null]
  /\ clear
  /\ sweep = NumTicks /\ cursor = Null /\ reloadHead = Null /\ reloadTail = Null

-----------------------------------------------------------------------------
(* LevelBitmap *)

set(i) ==
  /\ l0' = [l0 EXCEPT ![Word(i)] = @ \union {Bit(i)}]
  /\ l1' = [l1 EXCEPT ![Word(Word(i))] = @ \union {Bit(Word(i))}]
  /\ l2' = l2 \union {Word(Word(i))}

\* A summary bit goes only when its word becomes empty.
reset(i) ==
  LET w  == Word(i)
      w1 == Word(w)
      m0 == l0[w] \ {Bit(i)}
      m1 == IF m0 = {} THEN l1[w1] \ {Bit(w)} ELSE l1[w1]
  IN  /\ l0' = [l0 EXCEPT ![w] = m0]
      /\ l1' = [l1 EXCEPT ![w1] = m1]
      /\ l2' = IF m0 = {} /\ m1 = {} THEN l2 \ {w1} ELSE l2

test(i) == Bit(i) \in l0[Word(i)]

\* Mutant: the mask of all ones, shifted one too far.
AboveShifted(s) == {b \in Bits : b > s}

\* ~0 shifted left by s, and right by s: nothing is left of it at s = WordBits.
Above(s) == {b \in Bits : b >= s}
Below(s) == {b \in Bits : b + s < WordBits}

next_set(i) ==
  LET w  == Word(i)
      w1 == Word(w)
      m0 == l0[w] \intersect Above(Bit(i))
      m1 == l1[w1] \intersect Above(Bit(w) + 1)
      m2 == l2 \intersect Above(w1 + 1)
      LowestOf(v) == v * WordBits + Min(l0[v])
  IN  IF i >= NumTicks THEN NPOS
      ELSE IF m0 # {} THEN w * WordBits + Min(m0)
      ELSE IF m1 # {} THEN LowestOf(w1 * WordBits + Min(m1))
      ELSE IF m2 # {} THEN LowestOf(Min(m2) * WordBits + Min(l1[Min(m2)]))
      ELSE NPOS

prev_set(i) ==
  LET w  == Word(i)
      w1 == Word(w)
      m0 == l0[w] \intersect Below(WordBits - 1 - Bit(i))
      m1 == l1[w1] \intersect Below(WordBits - Bit(w))
      m2 == l2 \intersect Below(WordBits - 1 - w1 + 1)
      HighestOf(v) == v * WordBits + Max(l0[v])
  IN  IF m0 # {} THEN w * WordBits + Max(m0)
      ELSE IF m1 # {} THEN HighestOf(w1 * WordBits + Max(m1))
      ELSE IF m2 # {} THEN HighestOf(Max(m2) * WordBits + Max(l1[Max(m2)]))
      ELSE NPOS

-----------------------------------------------------------------------------
(* rest: take a slot, append it to the level's tail *)

Idle == sweep = NumTicks

\* The arena with slot s constructed as an order at level t.
Constructed(s, t) ==
  [node EXCEPT ![s] = [word |-> Lots, next |-> Null, prev |-> tail[t], tick |-> t]]

rest(t) ==
  LET s == freeHead
  IN  /\ Idle /\ s # Null
      /\ freeHead' = node[s].word
      /\ node' = IF tail[t] = Null THEN Constructed(s, t)
                 ELSE [Constructed(s, t) EXCEPT ![tail[t]].next = s]
      /\ head' = IF tail[t] = Null THEN [head EXCEPT ![t] = s] ELSE head
      /\ tail' = [tail EXCEPT ![t] = s]
      /\ set(t)
      /\ UNCHANGED loopVars

-----------------------------------------------------------------------------
(* unlink_and_release, of a live order *)

\* The arena after release(s), in the arena `pool`.
Released(pool, s) == [pool EXCEPT ![s] = Dead(freeHead)]

\* The neighbours of s point at each other.
Bypassed(s) ==
  LET o == node[s]
      forward == IF o.prev = Null THEN node ELSE [node EXCEPT ![o.prev].next = o.next]
  IN  IF o.next = Null THEN forward ELSE [forward EXCEPT ![o.next].prev = o.prev]

unlink_and_release(s) ==
  LET o == node[s]
      t == o.tick
  IN  /\ Idle /\ o.word = Lots
      /\ head' = IF o.prev = Null THEN [head EXCEPT ![t] = o.next] ELSE head
      /\ tail' = IF o.next = Null THEN [tail EXCEPT ![t] = o.prev] ELSE tail
      /\ node' = Released(Bypassed(s), s)
      /\ freeHead' = s
      /\ IF head'[t] = Null THEN reset(t) ELSE UNCHANGED bitVars
      /\ UNCHANGED loopVars

-----------------------------------------------------------------------------
(* sweep_level: its entry, one action per fate of a maker, its exit *)

EnterSweep(t) ==
  /\ Idle /\ test(t)
  /\ sweep' = t /\ cursor' = head[t]
  /\ reloadHead' = Null /\ reloadTail' = Null
  /\ UNCHANGED <<poolVars, head, tail, bitVars>>

InLoop == ~Idle /\ cursor # Null

ReleaseMaker ==
  /\ InLoop
  /\ cursor' = node[cursor].next
  /\ node' = Released(node, cursor)
  /\ freeHead' = cursor
  /\ UNCHANGED <<head, tail, bitVars, sweep, reloadHead, reloadTail>>

ReloadMaker ==
  /\ InLoop
  /\ cursor' = node[cursor].next
  /\ LET kept == [node EXCEPT ![cursor].next = Null, ![cursor].prev = reloadTail]
     IN  node' = IF reloadTail = Null THEN kept ELSE [kept EXCEPT ![reloadTail].next = cursor]
  /\ reloadHead' = IF reloadTail = Null THEN cursor ELSE reloadHead
  /\ reloadTail' = cursor
  /\ UNCHANGED <<freeHead, head, tail, bitVars, sweep>>

\* The refilled makers go behind the untouched ones.
Splice ==
  /\ reloadHead # Null
  /\ IF cursor = Null
     THEN /\ head' = [head EXCEPT ![sweep] = reloadHead]
          /\ UNCHANGED node
     ELSE /\ node' = [node EXCEPT ![reloadHead].prev = tail[sweep],
                                  ![tail[sweep]].next = reloadHead, ![cursor].prev = Null]
          /\ head' = [head EXCEPT ![sweep] = cursor]
  /\ tail' = [tail EXCEPT ![sweep] = reloadTail]
  /\ UNCHANGED bitVars

\* Mutant: the tail of a level swept clean stays.
FixUpKeepsTail ==
  /\ reloadHead = Null
  /\ head' = [head EXCEPT ![sweep] = cursor]
  /\ node' = IF cursor = Null THEN node ELSE [node EXCEPT ![cursor].prev = Null]
  /\ UNCHANGED tail
  /\ IF cursor = Null THEN reset(sweep) ELSE UNCHANGED bitVars

\* No maker was refilled: the level starts at the cursor, or is empty.
FixUp ==
  /\ reloadHead = Null
  /\ head' = [head EXCEPT ![sweep] = cursor]
  /\ IF cursor # Null
     THEN node' = [node EXCEPT ![cursor].prev = Null] /\ UNCHANGED <<tail, bitVars>>
     ELSE tail' = [tail EXCEPT ![sweep] = Null] /\ reset(sweep) /\ UNCHANGED node

LeaveSweep ==
  /\ ~Idle
  /\ Splice \/ FixUp
  /\ sweep' = NumTicks /\ cursor' = Null /\ reloadHead' = Null /\ reloadTail' = Null
  /\ UNCHANGED freeHead

Next ==
  \/ \E t \in Ticks : rest(t) \/ EnterSweep(t)
  \/ \E s \in Slots : unlink_and_release(s)
  \/ ReleaseMaker \/ ReloadMaker \/ LeaveSweep

Spec == Init /\ [][Next]_vars

-----------------------------------------------------------------------------
(* The properties of the storage *)

\* The slots a list runs through, PoolCap + 1 of them if it never ends.
Chain(link, from) ==
  LET at[n \in 0 .. PoolCap] ==
        IF n = 0 THEN from ELSE IF at[n - 1] \in Slots THEN link[at[n - 1]] ELSE Null
  IN  [n \in 1 .. Cardinality({m \in 0 .. PoolCap : at[m] \in Slots}) |-> at[n - 1]]

next == [s \in Slots |-> node[s].next]
word == [s \in Slots |-> node[s].word]

Queues == INSTANCE Ladder WITH
  levels <- [t \in Ticks |-> Chain(next, IF t = sweep THEN cursor ELSE head[t])],
  occupied <- {t \in Ticks : test(t)},
  free <- Chain(word, freeHead),
  reload <- Chain(next, reloadHead)

\* Links, free list and bits are the queues, the stack and the set the engine
\* thinks it has: no call loses a slot, links one twice, frees one that is
\* queued, or leaves a level marked that has nobody in it.
ImplementsLadder == Queues!Spec

\* Both searches return the nearest occupied level from any starting level, up
\* and down and across words and summary words, or none; sweep_level hops to the
\* next best price by them, and unlink_and_release.
SearchesExact ==
  \A i \in Ticks :
    /\ next_set(i) = Min({t \in Ticks : t >= i /\ test(t)} \union {NPOS})
    /\ prev_set(i) = IF \E t \in 0 .. i : test(t) THEN Max({t \in 0 .. i : test(t)}) ELSE NPOS
=============================================================================
