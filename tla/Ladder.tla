-------------------------------- MODULE Ladder --------------------------------
(***************************************************************************)
(* What the matching engine asks of its storage: a FIFO of arena slots at  *)
(* every price level, the set of occupied levels, a stack of free slots,   *)
(* and the loop that takes or puts back makers from the front of one       *)
(* level.  OrderBook uses its levels, bitmaps and arena in just these      *)
(* ways; LadderStorage does it with links and words of bits.               *)
(***************************************************************************)
EXTENDS Naturals, SequencesExt

CONSTANTS NumTicks, PoolCap

VARIABLES levels,    \* levels[t]: the slots queued at t, oldest first; while
                     \* t is swept, from the sweep's cursor on
          occupied,  \* the levels marked occupied
          free,      \* the free slots, the next one to hand out first
          sweep,     \* the level being swept, or NumTicks
          reload     \* the makers this sweep keeps for the back of the queue

vars == <<levels, occupied, free, sweep, reload>>

Ticks == 0 .. NumTicks - 1

Init ==
  /\ levels = [t \in Ticks |-> <<>>] /\ occupied = {}
  /\ free = [i \in 1 .. PoolCap |-> i]
  /\ sweep = NumTicks /\ reload = <<>>

Idle == sweep = NumTicks

Rest(t) ==
  /\ Idle /\ free # <<>>
  /\ levels' = [levels EXCEPT ![t] = Append(@, Head(free))]
  /\ free' = Tail(free)
  /\ occupied' = occupied \union {t}
  /\ UNCHANGED <<sweep, reload>>

\* The order at position n of its level leaves, from wherever it stands.
Unlink(t, n) ==
  /\ Idle
  /\ levels' = [levels EXCEPT ![t] = RemoveAt(@, n)]
  /\ free' = <<levels[t][n]>> \o free
  /\ occupied' = IF Len(levels[t]) = 1 THEN occupied \ {t} ELSE occupied
  /\ UNCHANGED <<sweep, reload>>

Begin(t) ==
  /\ Idle /\ t \in occupied
  /\ sweep' = t
  /\ UNCHANGED <<levels, occupied, free, reload>>

Swept == levels[sweep]

\* The maker at the front is filled and gives its slot back.
Take ==
  /\ ~Idle /\ Swept # <<>>
  /\ levels' = [levels EXCEPT ![sweep] = Tail(@)]
  /\ free' = <<Head(Swept)>> \o free
  /\ UNCHANGED <<occupied, sweep, reload>>

\* The maker at the front shows a new clip and is kept aside.
Keep ==
  /\ ~Idle /\ Swept # <<>>
  /\ levels' = [levels EXCEPT ![sweep] = Tail(@)]
  /\ reload' = Append(reload, Head(Swept))
  /\ UNCHANGED <<occupied, free, sweep>>

End ==
  /\ ~Idle
  /\ levels' = [levels EXCEPT ![sweep] = @ \o reload]
  /\ occupied' = IF Swept \o reload = <<>> THEN occupied \ {sweep} ELSE occupied
  /\ sweep' = NumTicks /\ reload' = <<>>
  /\ UNCHANGED free

Next ==
  \/ \E t \in Ticks : Rest(t) \/ Begin(t)
  \/ \E t \in Ticks, n \in 1 .. PoolCap : n <= Len(levels[t]) /\ Unlink(t, n)
  \/ Take \/ Keep \/ End

Spec == Init /\ [][Next]_vars
=============================================================================
