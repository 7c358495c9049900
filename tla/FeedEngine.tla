------------------------------ MODULE FeedEngine ------------------------------
(***************************************************************************)
(* Both ends of a market data session: the generator of the synthetic ITCH *)
(* feed and the gateways that apply it to the book                         *)
(* (src/bench/pipeline_common.hpp, src/bench/bench_flat_hash.cpp).         *)
(*                                                                         *)
(* A frame is a record of its kind, order reference and shares.  The       *)
(* generator's bids lie below the middle and its asks above, so no add     *)
(* trades and prices are left out: what the gateways see of the book is    *)
(* the lots each engine id has open.  The book gives every order an id no  *)
(* other order had (OrderBook.StaleIdRejected) and has room for all.       *)
(***************************************************************************)
EXTENDS Integers, FiniteSets, Sequences

CONSTANTS NMsgs,       \* N_MSGS, the frames of the feed
          Shares,      \* sizes of added orders
          MaxExec,     \* largest execution: 8
          LoadCap      \* most references the hashed gateway holds

ASSUME FeedEngineAssumption ==
  /\ NMsgs \in Nat /\ MaxExec \in Nat \ {0} /\ LoadCap \in Nat
  /\ Shares \subseteq Nat \ {0}

VARIABLES feed,      \* the frames generated so far
          live,      \* the generator's open orders: reference -> shares, or 0
          st         \* its statistics: adds, execs, exec_lots

feedVars == <<feed, live, st>>

Refs == 1 .. NMsgs

FeedInit ==
  /\ feed = <<>> /\ live = [r \in Refs |-> 0]
  /\ st = [adds |-> 0, execs |-> 0, exec_lots |-> 0]

-----------------------------------------------------------------------------
(* generate_feed: one action per bucket *)

\* The four frames, by the fields the gateways read.
AddOrder(ref, shares)      == [kind |-> "A", ref |-> ref, shares |-> shares]
OrderExecuted(ref, shares) == [kind |-> "E", ref |-> ref, shares |-> shares]
OrderCancel(ref, shares)   == [kind |-> "X", ref |-> ref, shares |-> shares]
OrderDelete(ref)           == [kind |-> "D", ref |-> ref, shares |-> 0]

Emit(frame) == feed' = Append(feed, frame)

GenerateAdd ==
  \E shares \in Shares :
    LET ref == st.adds + 1                  \* next_ref counts the adds
    IN  /\ Emit(AddOrder(ref, shares))
        /\ live' = [live EXCEPT ![ref] = shares]
        /\ st' = [st EXCEPT !.adds = @ + 1]

GenerateExecute ==
  \E ref \in {r \in Refs : live[r] > 0}, k \in 1 .. MaxExec :
    LET ex == IF k < live[ref] THEN k ELSE live[ref]
    IN  /\ Emit(OrderExecuted(ref, ex))
        /\ live' = [live EXCEPT ![ref] = @ - ex]
        /\ st' = [st EXCEPT !.execs = @ + 1, !.exec_lots = @ + ex]

\* A partial cancel leaves a share.
GenerateCancel ==
  \E ref \in {r \in Refs : live[r] >= 2} : \E cx \in 1 .. live[ref] - 1 :
    /\ Emit(OrderCancel(ref, cx))
    /\ live' = [live EXCEPT ![ref] = @ - cx]
    /\ UNCHANGED st

GenerateDelete ==
  \E ref \in {r \in Refs : live[r] > 0} :
    /\ Emit(OrderDelete(ref))
    /\ live' = [live EXCEPT ![ref] = 0]
    /\ UNCHANGED st

generate_feed ==
  /\ Len(feed) < NMsgs
  /\ GenerateAdd \/ GenerateExecute \/ GenerateCancel \/ GenerateDelete

-----------------------------------------------------------------------------
(* The sinks turn a frame into an engine message *)

Message(frame) ==
  [type |-> CASE frame.kind = "A" -> "NewOrder" [] frame.kind = "E" -> "Execute"
              [] frame.kind = "X" -> "Reduce"   [] frame.kind = "D" -> "Cancel",
   id |-> frame.ref, qty |-> frame.shares]

RingSink(frame)    == Message(frame)
GatewaySink(frame) == Message(frame)
Sink(frame)        == Message(frame)

-----------------------------------------------------------------------------
(* The gateways.  book[id] is what order id has open; 0 is no order's id. *)

NewGateway == [book |-> <<>>, refs |-> [r \in Refs |-> 0], trades |-> 0, traded_lots |-> 0]

\* reduce and cancel of an engine id, dead and absent ones included.
Open(gw, id) == IF id = 0 THEN 0 ELSE gw.book[id]
Reduced(gw, id, q) == IF q < Open(gw, id) THEN q ELSE Open(gw, id)
Less(gw, id, q) == IF id = 0 THEN gw ELSE [gw EXCEPT !.book[id] = @ - q]

\* An execution counts as a trade when it removed something.
Executed(gw, id, q) ==
  [Less(gw, id, Reduced(gw, id, q)) EXCEPT
     !.trades = @ + (IF Reduced(gw, id, q) > 0 THEN 1 ELSE 0),
     !.traded_lots = @ + Reduced(gw, id, q)]

\* Mutant: partial cancels count as trades.
ApplyCountingReduces(gw, m) ==
  CASE m.type = "NewOrder" ->
         [gw EXCEPT !.book = Append(@, m.qty), !.refs[m.id] = Len(gw.book) + 1]
    [] m.type \in {"Execute", "Reduce"} -> Executed(gw, gw.refs[m.id], m.qty)
    [] m.type = "Cancel" -> Less(gw, gw.refs[m.id], Open(gw, gw.refs[m.id]))

\* Gateway: a flat array of engine ids, written by adds only.
Apply(gw, m) ==
  CASE m.type = "NewOrder" ->
         [gw EXCEPT !.book = Append(@, m.qty), !.refs[m.id] = Len(gw.book) + 1]
    [] m.type = "Execute" -> Executed(gw, gw.refs[m.id], m.qty)
    [] m.type = "Reduce"  -> Less(gw, gw.refs[m.id], Reduced(gw, gw.refs[m.id], m.qty))
    [] m.type = "Cancel"  -> Less(gw, gw.refs[m.id], Open(gw, gw.refs[m.id]))

Held(gw) == {r \in Refs : gw.refs[r] # 0}

\* Mutant: an execution forgets the reference, filled or not.
HashApplyForgets(gw, m) ==
  CASE m.type = "NewOrder" ->
         [gw EXCEPT !.book = Append(@, m.qty),
                    !.refs[m.id] = IF Cardinality(Held(gw)) >= LoadCap THEN @ ELSE Len(gw.book) + 1]
    [] m.type \in {"Execute", "Cancel"} -> [Executed(gw, gw.refs[m.id], m.qty) EXCEPT !.refs[m.id] = 0]
    [] OTHER -> Apply(gw, m)

\* HashGateway: a map that refuses new references at its load cap, an answer
\* nobody reads, and forgets a reference on a delete only.
HashApply(gw, m) ==
  CASE m.type = "NewOrder" ->
         [gw EXCEPT !.book = Append(@, m.qty),
                    !.refs[m.id] = IF Cardinality(Held(gw)) >= LoadCap THEN @ ELSE Len(gw.book) + 1]
    [] m.type = "Cancel"  -> [Less(gw, gw.refs[m.id], Open(gw, gw.refs[m.id])) EXCEPT !.refs[m.id] = 0]
    [] OTHER -> Apply(gw, m)

=============================================================================
