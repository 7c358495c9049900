---------------------------- MODULE SessionProofs ----------------------------
(***************************************************************************)
(* The sessions that run a feed through the engine, for a feed of any      *)
(* length, any sizes of orders, rings and load cap.                        *)
(*                                                                         *)
(* The control invariant numbers every frame on its way: applied, in the   *)
(* channel, stamped, unread.  The generator's ledger after each frame is   *)
(* h; the gateway that has applied n frames agrees with h[n], but for the  *)
(* orders it holds under no reference.                                     *)
(***************************************************************************)
EXTENDS FeedSession, FiniteSetTheorems, WellFoundedInduction, TLAPS

-----------------------------------------------------------------------------
(* The control of a session *)

SecondSessions == {"paced", "arena", "hash", "signals", "journal"}

\* Frames no longer in the channel.
Popped == IF pcE = "applied" THEN Len(applied) - 1 ELSE Len(applied)

ProducerInv ==
  /\ session \in {"generate"} \union FirstSessions \union SecondSessions
  /\ i \in 0 .. NMsgs /\ pcP \in {"read", "stamped", "journalled"}
  /\ pcP # "read" => i < NMsgs /\ session # "free_run"
  /\ session = "generate" => i = 0 /\ pcP = "read"
  /\ session # "free_run" => 1 .. i \subseteq t0 /\ (pcP # "read" => i + 1 \in t0)
  /\ session # "generate" => Len(feed) = NMsgs

EngineInv ==
  /\ applied \in Seq(Nat) /\ Len(applied) <= i /\ \A n \in 1 .. Len(applied) : applied[n] = n
  /\ pcE \in {"poll", "applied", "released"} /\ (pcE # "poll" => Len(applied) > 0)
  /\ done = IF pcE = "poll" THEN Len(applied) ELSE Len(applied) - 1
  /\ chan \in Seq(Nat) /\ Popped + Len(chan) = i
  /\ \A n \in 1 .. Len(chan) : chan[n] = Popped + n
  /\ samples \in Seq(BOOLEAN) /\ \A n \in 1 .. Len(samples) : samples[n]

ControlInv == ProducerInv /\ EngineInv

DrainInv ==
  /\ updates \in Seq(Nat) /\ seq \in Nat /\ consumed \in Nat
  /\ published = consumed + Len(updates)
  /\ pcD \in {"last", "left"} => Joined
  /\ pcD = "left" => updates = <<>>
  /\ session = "generate" => pcD = "off"

-----------------------------------------------------------------------------
(* The generator's ledger, frame by frame *)

Frames == [kind : {"A", "E", "X", "D"}, ref : Refs, shares : Nat]

Ledgers == [lots : [Refs -> Nat], adds : Nat, execs : Nat, exec_lots : Nat]

NewLedger == [lots |-> [r \in Refs |-> 0], adds |-> 0, execs |-> 0, exec_lots |-> 0]

\* A frame the generator may emit.
Legal(s, f) ==
  CASE f.kind = "A" -> f.ref = s.adds + 1 /\ f.shares > 0
    [] f.kind = "E" -> 0 < f.shares /\ f.shares <= s.lots[f.ref]
    [] f.kind = "X" -> 0 < f.shares /\ f.shares < s.lots[f.ref]
    [] f.kind = "D" -> s.lots[f.ref] > 0

Entered(s, f) ==
  [lots |-> [s.lots EXCEPT ![f.ref] = CASE f.kind = "A" -> f.shares
                                        [] f.kind = "D" -> 0
                                        [] f.kind \in {"E", "X"} -> @ - f.shares],
   adds |-> s.adds + (IF f.kind = "A" THEN 1 ELSE 0),
   execs |-> s.execs + (IF f.kind = "E" THEN 1 ELSE 0),
   exec_lots |-> s.exec_lots + (IF f.kind = "E" THEN f.shares ELSE 0)]

\* Nothing is open under a reference not given out.
Ledger(s) == s \in Ledgers /\ \A r \in Refs : r > s.adds => s.lots[r] = 0

History(h) ==
  /\ h[0] = NewLedger
  /\ \A n \in 0 .. Len(feed) : Ledger(h[n]) /\ h[n].adds <= n
  /\ \A n \in 1 .. Len(feed) : Legal(h[n - 1], feed[n]) /\ h[n] = Entered(h[n - 1], feed[n])
  /\ live = h[Len(feed)].lots
  /\ st = [adds |-> h[Len(feed)].adds, execs |-> h[Len(feed)].execs, exec_lots |-> h[Len(feed)].exec_lots]

-----------------------------------------------------------------------------
(* What a gateway makes of the frames *)

Gateways == [book : Seq(Nat), refs : [Refs -> Nat], trades : Nat, traded_lots : Nat]

\* The gateway g has applied the frames that made ledger s.  A reference it does
\* not know is that of an order it was refused or one that is gone.
Agrees(g, s) ==
  /\ g \in Gateways /\ Len(g.book) = s.adds
  /\ \A r \in Refs : g.refs[r] \in {0, r} /\ (r > s.adds => g.refs[r] = 0)
  /\ \A r \in 1 .. s.adds :
       /\ g.refs[r] = r => g.book[r] = s.lots[r]
       /\ g.refs[r] # r => g.book[r] > 0 \/ s.lots[r] = 0
  /\ Orphans(g) = {} => g.trades = s.execs /\ g.traded_lots = s.exec_lots

\* Every order is known by its reference.
Dense(g) == \A r \in 1 .. Len(g.book) : g.refs[r] = r

GatewayInv ==
  /\ feed \in Seq(Frames) /\ Len(feed) <= NMsgs
  /\ \E h : History(h) /\ Agrees(gw, h[Len(applied)])
  /\ session # "hash" => Dense(gw)

-----------------------------------------------------------------------------
(* The journal and its replay *)

\* g[n] is the gateway after n frames.
Replays(g) ==
  /\ g[0] = NewGateway
  /\ \A n \in 1 .. Len(applied) : g[n] = Apply(g[n - 1], Message(feed[n]))
  /\ gw = g[Len(applied)]
  /\ replay.pos \in 0 .. Len(applied) /\ replay.gw = g[replay.pos]

JournalInv ==
  /\ pcP = "journalled" => session = "journal"
  /\ journal \in Seq(Nat)
  /\ Len(journal) = IF session # "journal" THEN 0 ELSE IF pcP = "journalled" THEN i + 1 ELSE i
  /\ \A n \in 1 .. Len(journal) : journal[n] = n
  /\ session # "journal" => replay = NotReplayed
  /\ session # "hash" => \E g : Replays(g)

-----------------------------------------------------------------------------
(* Induction over the frames: the least element of a set of numbers *)

LEMMA NatLeast ==
  ASSUME NEW S \in SUBSET Nat, S # {}
  PROVE  \E x \in S : \A y \in S : x <= y
<1> DEFINE R == OpToRel(<, Nat)
<1>1. IsWellFoundedOn(R, Nat)
  BY NatLessThanWellFounded
<1>2. PICK x \in S : \A y \in S : ~ (<<y, x>> \in R)
  <2> HIDE DEF R
  <2> QED BY <1>1, WFMin
<1>3. ASSUME NEW y \in S PROVE x <= y
  <2>1. ~ (<<y, x>> \in Nat \X Nat /\ y < x)
    BY <1>2 DEF OpToRel
  <2> QED BY <2>1
<1> QED BY <1>3

\* Induction from a to b.
LEMMA Upward ==
  ASSUME NEW a \in Nat, NEW b \in Nat, NEW S, a \in S,
         \A k \in a .. b : k \in S /\ k + 1 <= b => k + 1 \in S
  PROVE  a .. b \subseteq S
<1> SUFFICES ASSUME (a .. b) \ S # {} PROVE FALSE
  OBVIOUS
<1>1. PICK x \in (a .. b) \ S : \A y \in (a .. b) \ S : x <= y
  <2>1. (a .. b) \ S \in SUBSET Nat
    OBVIOUS
  <2> QED BY <2>1, NatLeast
<1>2. x # a /\ x - 1 \in a .. b /\ (x - 1) + 1 = x
  BY <1>1
<1>3. x - 1 \in S
  BY <1>1, <1>2
<1> QED BY <1>1, <1>2, <1>3

-----------------------------------------------------------------------------
(* The steps of the threads, whatever the session *)

\* A producer step of any session.
Stamps ==
  /\ StampEntry /\ session # "free_run"

Hands ==
  /\ HandOver /\ UNCHANGED <<t0, journal>>
  /\ IF session = "free_run" THEN Reading
     ELSE pcP = IF session = "journal" THEN "journalled" ELSE "stamped"

Writes == session = "journal" /\ AppendFrame

LEMMA ProducerSteps ==
  ASSUME Producer, ProducerInv, JournalInv
  PROVE  /\ UNCHANGED <<feedVars, session, engine, signals, replay>>
         /\ session # "generate"
         /\ Stamps \/ Hands \/ Writes
BY DEF Producer, ProducerInv, JournalInv, FreeRunProducer, PacedProducer, CopyProducer, ArenaProducer, RefProducer,
       SignalsProducer, JournalProducer, HandOverStamped, PublishFrame, AppendFrame, StampEntry, storage,
       Stamps, Hands, Writes, WithPublisher, FirstSessions, SecondSessions

\* An engine step of any session.
Counts == done' = done + 1 /\ session # "free_run" /\ samples' = Sample

Pops ==
  /\ Polling /\ session # "hash"
  /\ chan' = Tail(chan) /\ applied' = Append(applied, Head(chan))
  /\ gw' = Apply(gw, Message(Front))
  /\ Counts \/ (done' = done + 1 /\ samples' = samples)
  /\ UNCHANGED <<pcE, signals>>

Applies ==
  /\ Polling
  /\ gw' = IF session = "hash" THEN HashApply(gw, Message(Front)) ELSE Apply(gw, Message(Front))
  /\ applied' = Append(applied, Head(chan))
  /\ pcE' = "applied"
  /\ UNCHANGED <<chan, done, samples, signals>>

Releases ==
  /\ pcE = "applied" /\ chan' = Tail(chan)
  /\ UNCHANGED <<applied, gw, signals>>
  /\ \/ pcE' = "poll" /\ Counts
     \/ pcE' = "released" /\ UNCHANGED <<done, samples>>

Publishes ==
  /\ pcE = "released" /\ pcE' = "poll"
  /\ PublishTop /\ Counts
  /\ UNCHANGED <<chan, applied, gw, consumed, pcD>>

LEMMA EngineSteps ==
  ASSUME Engine
  PROVE  /\ UNCHANGED <<feedVars, session, producer, t0, storage>>
         /\ session # "generate"
         /\ Pops \/ Applies \/ Releases \/ Publishes
<1>1. UNCHANGED <<feedVars, session, producer, t0, storage>> /\ session # "generate"
  BY DEF Engine, WithPublisher
<1> SUFFICES Pops \/ Applies \/ Releases \/ Publishes
  BY <1>1
<1>2. CASE session = "free_run" /\ FreeRunEngine
  BY <1>2 DEF FreeRunEngine, Pops, RingSink
<1>3. CASE session \in {"paced", "copy"} /\ PopApplySample
  BY <1>3 DEF PopApplySample, Pops, Counts, RingSink
<1>4. ASSUME ReleaseAndSample, session # "free_run" PROVE Releases
  BY <1>4 DEF ReleaseAndSample, ReleaseFront, Releases, Counts
<1>5. ASSUME ApplyInPlace(Apply(gw, Message(Front))), session # "hash" PROVE Applies
  BY <1>5 DEF ApplyInPlace, Applies
<1>6. CASE session = "arena" /\ ArenaEngine
  BY <1>4, <1>5, <1>6 DEF ArenaEngine, GatewaySink
<1>7. CASE session \in {"dense", "hash"} /\ RefEngine
  <2>1. CASE session = "dense" /\ ApplyInPlace(Apply(gw, Sink(Front)))
    BY <1>5, <2>1 DEF Sink
  <2>2. CASE session = "hash" /\ ApplyInPlace(HashApply(gw, Sink(Front)))
    BY <2>2 DEF Sink, ApplyInPlace, Applies
  <2> QED BY <1>4, <1>7, <2>1, <2>2 DEF RefEngine
<1>8. CASE session \in WithPublisher /\ SignalsEngine
  <2>1. session \notin {"free_run", "hash", "generate"}
    BY <1>8 DEF WithPublisher
  <2>2. CASE ApplyInPlace(Apply(gw, GatewaySink(Front)))
    BY <1>5, <2>1, <2>2 DEF GatewaySink
  <2>3. CASE ReleaseFront("released") /\ UNCHANGED <<done, samples, signals>>
    BY <2>3 DEF ReleaseFront, Releases
  <2>4. CASE /\ pcE = "released"
             /\ PublishTop
             /\ samples' = Sample /\ done' = done + 1 /\ pcE' = "poll"
             /\ UNCHANGED <<chan, applied, gw, consumed, pcD>>
    BY <2>1, <2>4 DEF Publishes, Counts
  <2> QED BY <1>8, <2>1, <2>2, <2>3, <2>4 DEF SignalsEngine
<1>9. CASE session \in {"plain", "journal"} /\ JournalEngine
  BY <1>4, <1>5, <1>9 DEF JournalEngine, GatewaySink
<1> QED BY <1>2, <1>3, <1>6, <1>7, <1>8, <1>9 DEF Engine, PacedEngine, CopyEngine

\* main starts a session only once the one before it is over.
LEMMA Sessions ==
  ASSUME SecondSession
  PROVE  /\ SessionOver /\ session \in FirstSessions
         /\ \E name \in SecondSessions : NewSession(name)
BY DEF SecondSession, PipelineMain, ZeroCopyMain, FlatHashMain, SignalsMain, JournalMain, FirstSessions, SecondSessions

-----------------------------------------------------------------------------
(* The control invariant *)

\* A thread that is through its loop has nothing left to do.
LEMMA JoinedIsIdle ==
  ASSUME ControlInv, Joined
  PROVE  Len(applied) = NMsgs /\ pcE = "poll" /\ chan = <<>> /\ pcP = "read"
<1>1. Len(applied) \in Nat /\ Len(applied) <= NMsgs /\ i = NMsgs /\ NMsgs \in Nat
  BY FeedEngineAssumption DEF ControlInv, ProducerInv, EngineInv, Joined
<1>2. pcE = "poll" /\ Len(applied) = NMsgs
  BY <1>1 DEF ControlInv, EngineInv, Joined
<1>3. chan \in Seq(Nat) /\ Len(chan) = 0
  BY <1>1, <1>2 DEF ControlInv, EngineInv, Popped
<1>4. chan = <<>>
  BY <1>3
<1>5. pcP = "read"
  BY <1>1 DEF ControlInv, ProducerInv
<1> QED BY <1>2, <1>4, <1>5

LEMMA ControlInit == Init => ControlInv
BY FeedEngineAssumption
   DEF Init, FeedInit, ControlInv, ProducerInv, EngineInv, Popped


LEMMA ControlGenerate ==
  ASSUME ControlInv, Generate
  PROVE  ControlInv'
BY DEF Generate, producer, engine, ControlInv, ProducerInv, EngineInv, Popped

LEMMA ControlNewSession ==
  ASSUME NEW name \in FirstSessions \union SecondSessions, NewSession(name),
         chan = <<>>, Len(feed) = NMsgs
  PROVE  ControlInv'
<1>1. name # "generate"
  BY DEF FirstSessions, SecondSessions
<1> QED BY <1>1, FeedEngineAssumption DEF NewSession, feedVars, ControlInv, ProducerInv, EngineInv, Popped

\* The channel's head and what a push and a pop make of its numbers.
LEMMA ChanPush ==
  ASSUME ControlInv, HandOver
  PROVE  /\ i \in Nat /\ Popped \in Nat /\ Len(chan) \in Nat
         /\ chan' \in Seq(Nat) /\ Popped + Len(chan') = i + 1
         /\ \A n \in 1 .. Len(chan') : chan'[n] = Popped + n
<1>1. /\ chan \in Seq(Nat) /\ Popped + Len(chan) = i /\ i \in Nat /\ chan' = Append(chan, i + 1)
      /\ \A n \in 1 .. Len(chan) : chan[n] = Popped + n
  BY FeedEngineAssumption DEF ControlInv, ProducerInv, EngineInv, HandOver
<1>2. Popped \in Nat
  BY DEF ControlInv, EngineInv, Popped
<1>3. /\ chan' \in Seq(Nat) /\ Len(chan') = Len(chan) + 1 /\ chan'[Len(chan) + 1] = i + 1
      /\ \A n \in 1 .. Len(chan) : chan'[n] = chan[n]
  BY <1>1
<1>4. ASSUME NEW n \in 1 .. Len(chan) + 1 PROVE chan'[n] = Popped + n
  <2>1. CASE n = Len(chan) + 1
    BY <1>1, <1>2, <1>3, <2>1
  <2>2. CASE n # Len(chan) + 1
    BY <1>1, <1>3, <2>2
  <2> QED BY <2>1, <2>2
<1> QED BY <1>1, <1>2, <1>3, <1>4

LEMMA ChanPop ==
  ASSUME ControlInv, chan # <<>>
  PROVE  /\ i \in Nat /\ Popped \in Nat /\ Len(chan) \in Nat /\ Len(chan) > 0
         /\ Head(chan) = Popped + 1 /\ Popped + 1 <= i
         /\ Tail(chan) \in Seq(Nat) /\ (Popped + 1) + Len(Tail(chan)) = i
         /\ \A n \in 1 .. Len(Tail(chan)) : Tail(chan)[n] = (Popped + 1) + n
<1>1. /\ chan \in Seq(Nat) /\ Popped + Len(chan) = i /\ i \in Nat
      /\ \A n \in 1 .. Len(chan) : chan[n] = Popped + n
  BY FeedEngineAssumption DEF ControlInv, ProducerInv, EngineInv
<1>2. Popped \in Nat
  BY DEF ControlInv, EngineInv, Popped
<1>3. Len(chan) \in Nat /\ Len(chan) > 0
  BY <1>1
<1>4. /\ Tail(chan) \in Seq(Nat) /\ Len(Tail(chan)) = Len(chan) - 1 /\ Head(chan) = chan[1]
      /\ \A n \in 1 .. Len(chan) - 1 : Tail(chan)[n] = chan[n + 1]
  BY <1>1, <1>3
<1>5. ASSUME NEW n \in 1 .. Len(chan) - 1 PROVE Tail(chan)[n] = (Popped + 1) + n
  <2>1. n + 1 \in 1 .. Len(chan)
    BY <1>3
  <2> QED BY <1>1, <1>2, <1>4, <2>1
<1>6. Head(chan) = Popped + 1
  BY <1>1, <1>3, <1>4
<1> QED BY <1>1, <1>2, <1>3, <1>4, <1>5, <1>6

LEMMA ControlProducer ==
  ASSUME ControlInv, JournalInv, Producer
  PROVE  ControlInv'
<1>1. /\ UNCHANGED <<feed, session, done, pcE, applied, samples>> /\ session # "generate"
      /\ Stamps \/ Hands \/ Writes
  BY ProducerSteps DEF ControlInv, feedVars, engine
<1>2. /\ i \in Nat /\ NMsgs \in Nat /\ i <= NMsgs /\ ProducerInv /\ EngineInv
      /\ (pcP = "journalled" => session = "journal")
  BY FeedEngineAssumption DEF ControlInv, ProducerInv, JournalInv
<1>3. CASE Stamps
  <2>1. ProducerInv'
    BY <1>1, <1>2, <1>3 DEF Stamps, StampEntry, Reading, ProducerInv
  <2>2. EngineInv'
    BY <1>1, <1>2, <1>3 DEF Stamps, StampEntry, EngineInv, Popped
  <2> QED BY <2>1, <2>2 DEF ControlInv
<1>4. CASE Writes
  <2>1. ProducerInv'
    BY <1>1, <1>2, <1>4 DEF Writes, AppendFrame, ProducerInv
  <2>2. EngineInv'
    BY <1>1, <1>2, <1>4 DEF Writes, AppendFrame, EngineInv, Popped
  <2> QED BY <2>1, <2>2 DEF ControlInv
<1>5. CASE Hands
  <2>1. HandOver /\ i' = i + 1 /\ pcP' = "read" /\ t0' = t0 /\ i < NMsgs
        /\ (session # "free_run" => pcP # "read")
    BY <1>2, <1>5 DEF Hands, HandOver, Reading, ProducerInv
  <2>2. ProducerInv'
    <3>1. session # "free_run" => 1 .. i + 1 \subseteq t0
      BY <1>2, <2>1 DEF ProducerInv
    <3> QED BY <1>1, <1>2, <2>1, <3>1 DEF ProducerInv
  <2>3. Popped' = Popped
    BY <1>1 DEF Popped
  <2>4. EngineInv'
    <3>1. /\ Popped \in Nat
          /\ chan' \in Seq(Nat) /\ Popped + Len(chan') = i + 1
          /\ \A n \in 1 .. Len(chan') : chan'[n] = Popped + n
      BY <2>1, ChanPush
    <3> QED BY <1>1, <1>2, <2>1, <2>3, <3>1 DEF EngineInv
  <2> QED BY <2>2, <2>4 DEF ControlInv
<1> QED BY <1>1, <1>3, <1>4, <1>5

\* A sample reads the stamp of a frame handed over in this session.
LEMMA Sampled ==
  ASSUME ControlInv, Counts, done + 1 \in 1 .. i
  PROVE  samples' \in Seq(BOOLEAN) /\ \A n \in 1 .. Len(samples') : samples'[n]
<1>1. done + 1 \in t0
  BY DEF ControlInv, ProducerInv, Counts
<1>2. samples' = Append(samples, TRUE)
  BY <1>1 DEF Counts, Sample
<1>3. samples \in Seq(BOOLEAN) /\ Len(samples) \in Nat /\ \A n \in 1 .. Len(samples) : samples[n]
  BY DEF ControlInv, EngineInv
<1>4. /\ samples' \in Seq(BOOLEAN) /\ Len(samples') = Len(samples) + 1
      /\ samples'[Len(samples) + 1] = TRUE /\ \A n \in 1 .. Len(samples) : samples'[n] = samples[n]
  BY <1>2, <1>3
<1>5. ASSUME NEW n \in 1 .. Len(samples) + 1 PROVE samples'[n]
  <2>1. CASE n = Len(samples) + 1
    BY <1>4, <2>1
  <2>2. CASE n # Len(samples) + 1
    BY <1>3, <1>4, <2>2
  <2> QED BY <2>1, <2>2
<1> QED BY <1>4, <1>5

\* The next frame applied is the next of the feed.
LEMMA AppliedNext ==
  ASSUME ControlInv, Polling
  PROVE  /\ Head(chan) = Len(applied) + 1 /\ Len(applied) \in Nat /\ Len(applied) + 1 <= i
         /\ applied' = Append(applied, Head(chan)) =>
              /\ applied' \in Seq(Nat) /\ Len(applied') = Len(applied) + 1
              /\ \A n \in 1 .. Len(applied') : applied'[n] = n
<1>1. applied \in Seq(Nat) /\ Len(applied) \in Nat /\ \A n \in 1 .. Len(applied) : applied[n] = n
  BY DEF ControlInv, EngineInv
<1>2. Popped = Len(applied) /\ chan # <<>>
  BY DEF Polling, Popped
<1>3. Head(chan) = Len(applied) + 1 /\ Len(applied) + 1 <= i
  BY <1>2, ChanPop
<1>4. ASSUME applied' = Append(applied, Head(chan))
      PROVE  /\ applied' \in Seq(Nat) /\ Len(applied') = Len(applied) + 1
             /\ \A n \in 1 .. Len(applied') : applied'[n] = n
  <2>1. /\ applied' \in Seq(Nat) /\ Len(applied') = Len(applied) + 1
        /\ applied'[Len(applied) + 1] = Len(applied) + 1
        /\ \A n \in 1 .. Len(applied) : applied'[n] = applied[n]
    BY <1>1, <1>3, <1>4
  <2>2. \A n \in 1 .. Len(applied) + 1 : n \in 1 .. Len(applied) \/ n = Len(applied) + 1
    BY <1>1
  <2> QED BY <1>1, <2>1, <2>2
<1> QED BY <1>1, <1>3, <1>4

LEMMA ControlEngine ==
  ASSUME ControlInv, Engine
  PROVE  ControlInv'
<1>1. /\ UNCHANGED <<feed, session, i, pcP, t0>> /\ session # "generate"
      /\ Pops \/ Applies \/ Releases \/ Publishes
  BY EngineSteps DEF feedVars, producer
<1>2. ProducerInv'
  BY <1>1 DEF ControlInv, ProducerInv
<1>3. EngineInv /\ i \in Nat /\ Len(applied) \in Nat
  BY FeedEngineAssumption DEF ControlInv, ProducerInv, EngineInv
<1>4. CASE Pops
  <2>1. Polling /\ chan # <<>> /\ pcE = "poll" /\ pcE' = pcE /\ chan' = Tail(chan) /\ done' = done + 1
        /\ applied' = Append(applied, Head(chan))
    BY <1>4 DEF Pops, Polling, Counts
  <2>2. /\ applied' \in Seq(Nat) /\ Len(applied') = Len(applied) + 1 /\ Len(applied) + 1 <= i
        /\ \A n \in 1 .. Len(applied') : applied'[n] = n
    BY <2>1, AppliedNext
  <2>3. Popped = Len(applied) /\ Popped' = Len(applied) + 1 /\ done = Len(applied)
    BY <1>3, <2>1, <2>2 DEF Popped, EngineInv
  <2>4. /\ chan' \in Seq(Nat) /\ Popped' + Len(chan') = i
        /\ \A n \in 1 .. Len(chan') : chan'[n] = Popped' + n
    BY <2>1, <2>3, ChanPop
  <2>5. samples' \in Seq(BOOLEAN) /\ \A n \in 1 .. Len(samples') : samples'[n]
    <3>1. CASE Counts
      BY <1>3, <2>2, <2>3, <3>1, Sampled
    <3>2. CASE samples' = samples
      BY <1>3, <3>2 DEF EngineInv
    <3> QED BY <1>4, <3>1, <3>2 DEF Pops
  <2>6. EngineInv'
    BY <1>1, <1>3, <2>1, <2>2, <2>3, <2>4, <2>5 DEF EngineInv
  <2> QED BY <1>2, <2>6 DEF ControlInv
<1>5. CASE Applies
  <2>1. Polling /\ pcE = "poll" /\ pcE' = "applied" /\ chan' = chan /\ done' = done /\ samples' = samples
        /\ applied' = Append(applied, Head(chan))
    BY <1>5 DEF Applies, Polling
  <2>2. /\ applied' \in Seq(Nat) /\ Len(applied') = Len(applied) + 1 /\ Len(applied) + 1 <= i
        /\ \A n \in 1 .. Len(applied') : applied'[n] = n
    BY <2>1, AppliedNext
  <2>3. Popped = Len(applied) /\ Popped' = Len(applied) /\ done = Len(applied)
    BY <1>3, <2>1, <2>2 DEF Popped, EngineInv
  <2>4. EngineInv'
    BY <1>1, <1>3, <2>1, <2>2, <2>3 DEF EngineInv
  <2> QED BY <1>2, <2>4 DEF ControlInv
<1>6. CASE Releases
  <2>1. pcE = "applied" /\ applied' = applied /\ chan' = Tail(chan) /\ Popped = Len(applied) - 1 /\ Len(applied) > 0
        /\ done = Len(applied) - 1
    BY <1>3, <1>6 DEF Releases, Popped, EngineInv
  <2>2. chan # <<>>
    <3>1. Len(chan) > 0
      BY <1>3, <2>1 DEF EngineInv
    <3> QED BY <3>1
  <2>3. pcE' \in {"poll", "released"} /\ Popped' = Len(applied)
    BY <1>6, <2>1 DEF Releases, Popped
  <2>4. /\ chan' \in Seq(Nat) /\ Popped' + Len(chan') = i
        /\ \A n \in 1 .. Len(chan') : chan'[n] = Popped' + n
    <3>1. Popped' = Popped + 1
      BY <1>3, <2>1, <2>3
    <3> QED BY <2>1, <2>2, <3>1, ChanPop
  <2>5. CASE pcE' = "poll" /\ Counts
    <3>1. done + 1 \in 1 .. i
      BY <1>3, <2>1 DEF EngineInv
    <3>2. samples' \in Seq(BOOLEAN) /\ \A n \in 1 .. Len(samples') : samples'[n]
      BY <2>5, <3>1, Sampled
    <3>3. done' = Len(applied)
      BY <1>3, <2>1, <2>5 DEF Counts
    <3>4. EngineInv'
      BY <1>1, <1>3, <2>1, <2>4, <2>5, <3>2, <3>3 DEF EngineInv
    <3> QED BY <1>2, <3>4 DEF ControlInv
  <2>6. CASE pcE' = "released" /\ UNCHANGED <<done, samples>>
    <3>1. EngineInv'
      BY <1>1, <1>3, <2>1, <2>4, <2>6 DEF EngineInv
    <3> QED BY <1>2, <3>1 DEF ControlInv
  <2> QED BY <1>6, <2>5, <2>6 DEF Releases
<1>7. CASE Publishes
  <2>1. pcE = "released" /\ pcE' = "poll" /\ applied' = applied /\ chan' = chan /\ done = Len(applied) - 1
        /\ Len(applied) > 0 /\ Popped = Len(applied) /\ Counts /\ done' = done + 1
    BY <1>3, <1>7 DEF Publishes, Popped, EngineInv, Counts
  <2>2. Popped' = Popped
    BY <2>1 DEF Popped
  <2>3. done + 1 \in 1 .. i
    BY <1>3, <2>1 DEF EngineInv
  <2>4. samples' \in Seq(BOOLEAN) /\ \A n \in 1 .. Len(samples') : samples'[n]
    BY <2>1, <2>3, Sampled
  <2>5. EngineInv'
    BY <1>1, <1>3, <2>1, <2>2, <2>4 DEF EngineInv
  <2> QED BY <1>2, <2>5 DEF ControlInv
<1> QED BY <1>1, <1>4, <1>5, <1>6, <1>7

\* Nothing of the control moves with the drain, the replay or the end.
LEMMA ControlSame ==
  ASSUME ControlInv, UNCHANGED <<feed, session, producer, chan, t0, done, pcE, applied, samples>>
  PROVE  ControlInv'
BY DEF producer, ControlInv, ProducerInv, EngineInv, Popped

-----------------------------------------------------------------------------
(* The drain *)

LEMMA DrainInit == Init => DrainInv
BY DEF Init, DrainInv

LEMMA DrainNewSession ==
  ASSUME NEW name \in FirstSessions \union SecondSessions, NewSession(name)
  PROVE  DrainInv'
<1>1. name # "generate"
  BY DEF FirstSessions, SecondSessions
<1> QED BY <1>1 DEF NewSession, DrainInv

LEMMA DrainSame ==
  ASSUME DrainInv, UNCHANGED <<session, signals>>, Joined => Joined'
  PROVE  DrainInv'
BY DEF signals, DrainInv

\* Only the engine publishes, and it has nothing left once the threads are joined.
LEMMA DrainEngine ==
  ASSUME ControlInv, DrainInv, Engine
  PROVE  DrainInv'
<1>1. UNCHANGED <<session, i>> /\ (Pops \/ Applies \/ Releases \/ Publishes) /\ session # "generate"
  BY EngineSteps DEF producer
<1>2. ~Joined
  BY <1>1, JoinedIsIdle DEF Pops, Applies, Releases, Publishes, Polling
<1>3. CASE UNCHANGED signals
  BY <1>1, <1>2, <1>3 DEF signals, DrainInv
<1>4. CASE Publishes
  <2>1. pcD' = pcD /\ consumed' = consumed /\ PublishTop
    BY <1>4 DEF Publishes
  <2>2. updates \in Seq(Nat) /\ seq \in Nat /\ consumed \in Nat /\ published = consumed + Len(updates)
        /\ Len(updates) \in Nat
    BY DEF DrainInv
  <2>3. CASE Len(updates) < UpdateCap /\ seq' = seq + 1
             /\ updates' = Append(updates, seq + 1) /\ published' = published + 1
    <3>1. updates' \in Seq(Nat) /\ Len(updates') = Len(updates) + 1
      BY <2>2, <2>3
    <3> QED BY <1>1, <1>2, <2>1, <2>2, <2>3, <3>1 DEF DrainInv
  <2>4. CASE updates' = updates /\ published' = published /\ seq' \in Nat
    BY <1>1, <1>2, <2>1, <2>4 DEF DrainInv
  <2> QED BY <2>1, <2>2, <2>3, <2>4 DEF PublishTop
<1> QED BY <1>1, <1>3, <1>4 DEF Pops, Applies, Releases

LEMMA DrainDrain ==
  ASSUME DrainInv, Drain
  PROVE  DrainInv'
<1>1. UNCHANGED <<session, i, done>>
  BY DEF Drain, producer, engine
<1>2. Joined' = Joined
  BY <1>1 DEF Joined
<1>3. updates \in Seq(Nat) /\ consumed \in Nat /\ Len(updates) \in Nat
  BY DEF DrainInv
<1>4. CASE Consume
  <2>1. updates' \in Seq(Nat) /\ Len(updates') = Len(updates) - 1 /\ Len(updates) > 0
    BY <1>3, <1>4 DEF Consume
  <2> QED BY <1>1, <1>2, <1>3, <1>4, <2>1 DEF Consume, DrainInv
<1>5. CASE SeeStop
  BY <1>1, <1>2, <1>5 DEF SeeStop, DrainInv
<1>6. CASE DrainEmpty
  BY <1>1, <1>2, <1>6 DEF DrainEmpty, DrainInv
<1> QED BY <1>4, <1>5, <1>6 DEF Drain

-----------------------------------------------------------------------------
(* The ledger *)

\* A legal frame leaves a ledger a ledger.
LEMMA EnteredIs ==
  ASSUME NEW s, Ledger(s), NEW f \in Frames, Legal(s, f)
  PROVE  LET r == f.ref
             t == Entered(s, f)
             d == IF f.kind = "D" THEN s.lots[r] ELSE f.shares
         IN  /\ Ledger(t) /\ r \in Refs /\ r \in Nat /\ r > 0
             /\ s.lots \in [Refs -> Nat] /\ s.adds \in Nat
             /\ IF f.kind = "A"
                THEN /\ r = s.adds + 1 /\ f.shares \in Nat /\ f.shares > 0
                     /\ t.lots = [s.lots EXCEPT ![r] = f.shares] /\ t.adds = s.adds + 1
                     /\ t.execs = s.execs /\ t.exec_lots = s.exec_lots
                ELSE /\ d \in Nat /\ 0 < d /\ d <= s.lots[r] /\ r <= s.adds
                     /\ t.lots = [s.lots EXCEPT ![r] = s.lots[r] - d] /\ t.adds = s.adds
                     /\ t.execs = s.execs + (IF f.kind = "E" THEN 1 ELSE 0)
                     /\ t.exec_lots = s.exec_lots + (IF f.kind = "E" THEN d ELSE 0)
<1> DEFINE r == f.ref
           t == Entered(s, f)
           d == IF f.kind = "D" THEN s.lots[r] ELSE f.shares
<1>1. /\ s \in Ledgers /\ s.lots \in [Refs -> Nat] /\ s.adds \in Nat /\ s.execs \in Nat /\ s.exec_lots \in Nat
      /\ \A q \in Refs : q > s.adds => s.lots[q] = 0
      /\ s = [lots |-> s.lots, adds |-> s.adds, execs |-> s.execs, exec_lots |-> s.exec_lots]
  BY DEF Ledger, Ledgers
<1>2. r \in Refs /\ r \in Nat /\ r > 0 /\ f.shares \in Nat /\ f.kind \in {"A", "E", "X", "D"}
  BY FeedEngineAssumption DEF Frames, Refs
<1>3. s.lots[r] \in Nat
  BY <1>1, <1>2
<1>4. CASE f.kind = "A"
  <2>1. r = s.adds + 1 /\ f.shares > 0
    BY <1>4 DEF Legal
  <2>2. t = [lots |-> [s.lots EXCEPT ![r] = f.shares], adds |-> s.adds + 1, execs |-> s.execs, exec_lots |-> s.exec_lots]
    BY <1>1, <1>4 DEF Entered
  <2>4. [s.lots EXCEPT ![r] = f.shares] \in [Refs -> Nat]
        /\ \A q \in Refs : q > s.adds + 1 => [s.lots EXCEPT ![r] = f.shares][q] = 0
    BY <1>1, <1>2, <2>1 DEF Refs
  <2> DEFINE l == [s.lots EXCEPT ![r] = f.shares]
  <2>5. t.lots = l /\ t.adds = s.adds + 1 /\ t \in Ledgers
    <3> HIDE DEF t
    <3> QED BY <1>1, <2>2, <2>4 DEF Ledgers
  <2>6. Ledger(t)
    <3> HIDE DEF t, l
    <3>1. \A q \in Refs : q > s.adds + 1 => l[q] = 0
      BY <2>4 DEF l
    <3> QED BY <2>5, <3>1 DEF Ledger
  <2> QED BY <1>1, <1>2, <1>4, <2>1, <2>2, <2>6
<1>5. CASE f.kind # "A"
  <2>1. d \in Nat /\ 0 < d /\ d <= s.lots[r]
    <3>1. CASE f.kind = "D"
      BY <1>3, <3>1 DEF Legal
    <3>2. CASE f.kind = "E"
      BY <1>2, <1>3, <3>2 DEF Legal
    <3>3. CASE f.kind = "X"
      BY <1>2, <1>3, <3>3 DEF Legal
    <3> QED BY <1>2, <1>5, <3>1, <3>2, <3>3
  <2>2. r <= s.adds
    BY <1>1, <1>2, <2>1
  <2>3. t = [lots |-> [s.lots EXCEPT ![r] = s.lots[r] - d], adds |-> s.adds,
             execs |-> s.execs + (IF f.kind = "E" THEN 1 ELSE 0),
             exec_lots |-> s.exec_lots + (IF f.kind = "E" THEN d ELSE 0)]
    <3>1. CASE f.kind = "D"
      BY <1>1, <1>2, <1>3, <3>1 DEF Entered
    <3>2. CASE f.kind = "E"
      BY <1>1, <1>2, <1>3, <3>2 DEF Entered
    <3>3. CASE f.kind = "X"
      BY <1>1, <1>2, <1>3, <3>3 DEF Entered
    <3> QED BY <1>2, <1>5, <3>1, <3>2, <3>3
  <2>4. s.lots[r] - d \in Nat
    BY <1>3, <2>1
  <2> DEFINE l == [s.lots EXCEPT ![r] = s.lots[r] - d]
  <2>5. l \in [Refs -> Nat] /\ \A q \in Refs : q > s.adds => l[q] = 0
    <3> HIDE DEF d
    <3>1. l \in [Refs -> Nat]
      BY <1>1, <2>4
    <3>2. \A q \in Refs : q > s.adds => q # r
      BY <1>2, <2>2, <1>1 DEF Refs
    <3> QED BY <1>1, <3>1, <3>2
  <2>6. t.lots = l /\ t.adds = s.adds /\ t.execs = s.execs + (IF f.kind = "E" THEN 1 ELSE 0)
        /\ t.exec_lots = s.exec_lots + (IF f.kind = "E" THEN d ELSE 0) /\ t \in Ledgers
    <3> HIDE DEF t, l, d
    <3> QED BY <1>1, <2>1, <2>3, <2>5 DEF Ledgers, l
  <2>7. Ledger(t)
    <3> HIDE DEF t, l
    <3> QED BY <2>5, <2>6 DEF Ledger
  <2> QED BY <1>1, <1>2, <1>5, <2>1, <2>2, <2>6, <2>7
<1> QED BY <1>4, <1>5

\* What the generator emits is legal, and its books are the ledger's.
LEMMA Emits ==
  ASSUME NEW s, Ledger(s), s.adds < NMsgs, generate_feed,
         live = s.lots, st = [adds |-> s.adds, execs |-> s.execs, exec_lots |-> s.exec_lots]
  PROVE  \E f \in Frames :
           /\ Legal(s, f) /\ feed' = Append(feed, f)
           /\ live' = Entered(s, f).lots
           /\ st' = [adds |-> Entered(s, f).adds, execs |-> Entered(s, f).execs, exec_lots |-> Entered(s, f).exec_lots]
<1>1. /\ live \in [Refs -> Nat] /\ s.adds \in Nat /\ s.execs \in Nat /\ s.exec_lots \in Nat
  BY DEF Ledger, Ledgers
<1>2. NMsgs \in Nat /\ MaxExec \in Nat /\ MaxExec > 0 /\ \A n \in Shares : n \in Nat /\ n > 0
  BY FeedEngineAssumption
<1>3. ASSUME NEW shares \in Shares, Emit(AddOrder(st.adds + 1, shares)),
             live' = [live EXCEPT ![st.adds + 1] = shares], st' = [st EXCEPT !.adds = @ + 1]
      PROVE  \E f \in Frames :
               /\ Legal(s, f) /\ feed' = Append(feed, f)
               /\ live' = Entered(s, f).lots
               /\ st' = [adds |-> Entered(s, f).adds, execs |-> Entered(s, f).execs, exec_lots |-> Entered(s, f).exec_lots]
  <2> DEFINE f == AddOrder(s.adds + 1, shares)
  <2>1. f \in Frames /\ f.kind = "A" /\ f.ref = s.adds + 1 /\ f.shares = shares
    BY <1>1, <1>2 DEF AddOrder, Frames, Refs
  <2>2. feed' = Append(feed, f)
    BY <1>3 DEF Emit
  <2> HIDE DEF f
  <2>3. Legal(s, f)
    BY <1>2, <2>1 DEF Legal
  <2>4. live' = Entered(s, f).lots
    BY <1>3, <2>1 DEF Entered
  <2>5. st' = [adds |-> Entered(s, f).adds, execs |-> Entered(s, f).execs, exec_lots |-> Entered(s, f).exec_lots]
    BY <1>1, <1>3, <2>1 DEF Entered
  <2> QED BY <2>1, <2>2, <2>3, <2>4, <2>5
<1>4. ASSUME NEW ref \in Refs, NEW ex \in Nat, 0 < ex, ex <= live[ref], Emit(OrderExecuted(ref, ex)),
             live' = [live EXCEPT ![ref] = @ - ex], st' = [st EXCEPT !.execs = @ + 1, !.exec_lots = @ + ex]
      PROVE  \E f \in Frames :
               /\ Legal(s, f) /\ feed' = Append(feed, f)
               /\ live' = Entered(s, f).lots
               /\ st' = [adds |-> Entered(s, f).adds, execs |-> Entered(s, f).execs, exec_lots |-> Entered(s, f).exec_lots]
  <2> DEFINE f == OrderExecuted(ref, ex)
  <2>1. f \in Frames /\ f.kind = "E" /\ f.ref = ref /\ f.shares = ex
    BY <1>4 DEF OrderExecuted, Frames
  <2>2. feed' = Append(feed, f)
    BY <1>4 DEF Emit
  <2> HIDE DEF f
  <2>3. Legal(s, f)
    BY <1>4, <2>1 DEF Legal
  <2>4. live' = Entered(s, f).lots
    BY <1>4, <2>1 DEF Entered
  <2>5. st' = [adds |-> Entered(s, f).adds, execs |-> Entered(s, f).execs, exec_lots |-> Entered(s, f).exec_lots]
    <3>1. st' = [adds |-> s.adds, execs |-> s.execs + 1, exec_lots |-> s.exec_lots + ex]
      BY <1>4
    <3>2. Entered(s, f).adds = s.adds /\ Entered(s, f).execs = s.execs + 1 /\ Entered(s, f).exec_lots = s.exec_lots + ex
      BY <1>1, <2>1 DEF Entered
    <3> QED BY <3>1, <3>2
  <2> QED BY <2>1, <2>2, <2>3, <2>4, <2>5
<1>5. ASSUME NEW ref \in Refs, NEW cx \in Nat, 0 < cx, cx < live[ref], Emit(OrderCancel(ref, cx)),
             live' = [live EXCEPT ![ref] = @ - cx], st' = st
      PROVE  \E f \in Frames :
               /\ Legal(s, f) /\ feed' = Append(feed, f)
               /\ live' = Entered(s, f).lots
               /\ st' = [adds |-> Entered(s, f).adds, execs |-> Entered(s, f).execs, exec_lots |-> Entered(s, f).exec_lots]
  <2> DEFINE f == OrderCancel(ref, cx)
  <2>1. f \in Frames /\ f.kind = "X" /\ f.ref = ref /\ f.shares = cx
    BY <1>5 DEF OrderCancel, Frames
  <2>2. feed' = Append(feed, f)
    BY <1>5 DEF Emit
  <2> HIDE DEF f
  <2>3. Legal(s, f)
    BY <1>5, <2>1 DEF Legal
  <2>4. live' = Entered(s, f).lots
    BY <1>5, <2>1 DEF Entered
  <2>5. st' = [adds |-> Entered(s, f).adds, execs |-> Entered(s, f).execs, exec_lots |-> Entered(s, f).exec_lots]
    BY <1>1, <1>5, <2>1 DEF Entered
  <2> QED BY <2>1, <2>2, <2>3, <2>4, <2>5
<1>6. ASSUME NEW ref \in Refs, 0 < live[ref], Emit(OrderDelete(ref)),
             live' = [live EXCEPT ![ref] = 0], st' = st
      PROVE  \E f \in Frames :
               /\ Legal(s, f) /\ feed' = Append(feed, f)
               /\ live' = Entered(s, f).lots
               /\ st' = [adds |-> Entered(s, f).adds, execs |-> Entered(s, f).execs, exec_lots |-> Entered(s, f).exec_lots]
  <2> DEFINE f == OrderDelete(ref)
  <2>1. f \in Frames /\ f.kind = "D" /\ f.ref = ref /\ f.shares = 0
    BY <1>6 DEF OrderDelete, Frames
  <2>2. feed' = Append(feed, f)
    BY <1>6 DEF Emit
  <2> HIDE DEF f
  <2>3. Legal(s, f)
    BY <1>1, <1>6, <2>1 DEF Legal
  <2>4. live' = Entered(s, f).lots
    BY <1>6, <2>1 DEF Entered
  <2>5. st' = [adds |-> Entered(s, f).adds, execs |-> Entered(s, f).execs, exec_lots |-> Entered(s, f).exec_lots]
    BY <1>1, <1>6, <2>1 DEF Entered
  <2> QED BY <2>1, <2>2, <2>3, <2>4, <2>5
<1>7. CASE GenerateAdd
  BY <1>3, <1>7 DEF GenerateAdd
<1>8. CASE GenerateExecute
  <2>1. PICK ref \in {r \in Refs : live[r] > 0}, k \in 1 .. MaxExec :
          LET ex == IF k < live[ref] THEN k ELSE live[ref]
          IN  /\ Emit(OrderExecuted(ref, ex))
              /\ live' = [live EXCEPT ![ref] = @ - ex]
              /\ st' = [st EXCEPT !.execs = @ + 1, !.exec_lots = @ + ex]
    BY <1>8 DEF GenerateExecute
  <2> DEFINE ex == IF k < live[ref] THEN k ELSE live[ref]
  <2>2. ref \in Refs /\ ex \in Nat /\ 0 < ex /\ ex <= live[ref]
    BY <1>1, <1>2
  <2> QED BY <1>4, <2>1, <2>2
<1>9. CASE GenerateCancel
  <2>1. PICK ref \in {r \in Refs : live[r] >= 2} : \E cx \in 1 .. live[ref] - 1 :
          /\ Emit(OrderCancel(ref, cx)) /\ live' = [live EXCEPT ![ref] = @ - cx] /\ UNCHANGED st
    BY <1>9 DEF GenerateCancel
  <2>2. PICK cx \in 1 .. live[ref] - 1 :
          /\ Emit(OrderCancel(ref, cx)) /\ live' = [live EXCEPT ![ref] = @ - cx] /\ UNCHANGED st
    BY <2>1
  <2>3. ref \in Refs /\ cx \in Nat /\ 0 < cx /\ cx < live[ref]
    BY <1>1
  <2> QED BY <1>5, <2>2, <2>3
<1>10. CASE GenerateDelete
  BY <1>6, <1>10 DEF GenerateDelete
<1> QED BY <1>7, <1>8, <1>9, <1>10 DEF generate_feed

\* The feed grows at its end; the ledgers of the frames before stay.
LEMMA HistoryGrows ==
  ASSUME feed \in Seq(Frames), Len(feed) <= NMsgs, generate_feed, NEW h, History(h)
  PROVE  /\ feed' \in Seq(Frames) /\ Len(feed') <= NMsgs
         /\ \E k : History(k)' /\ k[0] = h[0]
<1> DEFINE N == Len(feed)
<1>1. N \in Nat /\ N < NMsgs /\ NMsgs \in Nat
  BY FeedEngineAssumption DEF generate_feed
<1>2. /\ h[0] = NewLedger
      /\ \A n \in 0 .. N : Ledger(h[n]) /\ h[n].adds <= n
      /\ \A n \in 1 .. N : Legal(h[n - 1], feed[n]) /\ h[n] = Entered(h[n - 1], feed[n])
      /\ live = h[N].lots
      /\ st = [adds |-> h[N].adds, execs |-> h[N].execs, exec_lots |-> h[N].exec_lots]
  BY DEF History
<1>3. N \in 0 .. N /\ Ledger(h[N]) /\ h[N].adds \in Nat /\ h[N].adds <= N
  BY <1>1, <1>2 DEF Ledger, Ledgers
<1>4. PICK f \in Frames :
        /\ Legal(h[N], f) /\ feed' = Append(feed, f)
        /\ live' = Entered(h[N], f).lots
        /\ st' = [adds |-> Entered(h[N], f).adds, execs |-> Entered(h[N], f).execs,
                  exec_lots |-> Entered(h[N], f).exec_lots]
  <2>1. h[N].adds < NMsgs
    BY <1>1, <1>3
  <2> QED BY <1>2, <1>3, <2>1, Emits
<1>5. PICK e : e = Entered(h[N], f)
  OBVIOUS
<1>6. Ledger(e) /\ e.adds <= N + 1
  <2>1. Ledger(e)
    BY <1>3, <1>4, <1>5, EnteredIs
  <2>2. e.adds = h[N].adds + (IF f.kind = "A" THEN 1 ELSE 0)
    BY <1>5 DEF Entered
  <2> QED BY <1>1, <1>3, <2>1, <2>2
<1>7. PICK k : k = [n \in 0 .. N + 1 |-> IF n = N + 1 THEN e ELSE h[n]]
  OBVIOUS
<1>8. k[N + 1] = e /\ \A n \in 0 .. N : k[n] = h[n]
  <2>1. N + 1 \in 0 .. N + 1 /\ \A n \in 0 .. N : n \in 0 .. N + 1 /\ n # N + 1
    BY <1>1
  <2> QED BY <1>7, <2>1
<1>9. /\ feed' \in Seq(Frames) /\ Len(feed') = N + 1 /\ feed'[N + 1] = f
      /\ \A n \in 1 .. N : feed'[n] = feed[n]
  BY <1>4
<1>10. \A n \in 0 .. N + 1 : Ledger(k[n]) /\ k[n].adds <= n
  <2>1. \A n \in 0 .. N + 1 : n \in 0 .. N \/ n = N + 1
    BY <1>1
  <2> QED BY <1>2, <1>6, <1>8, <2>1
<1>11. ASSUME NEW n \in 1 .. N + 1
       PROVE  Legal(k[n - 1], feed'[n]) /\ k[n] = Entered(k[n - 1], feed'[n])
  <2>1. CASE n = N + 1
    <3>1. n - 1 = N /\ k[n - 1] = h[N] /\ k[n] = e /\ feed'[n] = f
      BY <1>1, <1>3, <1>8, <1>9, <2>1
    <3> QED BY <1>4, <1>5, <3>1
  <2>2. CASE n # N + 1
    <3>1. n \in 1 .. N /\ n \in 0 .. N /\ n - 1 \in 0 .. N
      BY <1>1, <2>2
    <3> QED BY <1>2, <1>8, <1>9, <3>1
  <2> QED BY <2>1, <2>2
<1>12. k[0] = h[0] /\ k[0] = NewLedger
  <2>1. 0 \in 0 .. N
    BY <1>1
  <2> QED BY <1>2, <1>8, <2>1
<1>13. History(k)'
  <2>1. live' = k[Len(feed')].lots
    BY <1>4, <1>5, <1>8, <1>9
  <2>2. st' = [adds |-> k[Len(feed')].adds, execs |-> k[Len(feed')].execs, exec_lots |-> k[Len(feed')].exec_lots]
    BY <1>4, <1>5, <1>8, <1>9
  <2> QED BY <1>9, <1>10, <1>11, <1>12, <2>1, <2>2 DEF History
<1> QED BY <1>1, <1>9, <1>12, <1>13

-----------------------------------------------------------------------------
(* A gateway applies a frame *)

LEMMA GatewayType ==
  ASSUME NEW g \in Gateways
  PROVE  /\ g.book \in Seq(Nat) /\ Len(g.book) \in Nat /\ g.refs \in [Refs -> Nat]
         /\ g.trades \in Nat /\ g.traded_lots \in Nat
         /\ g = [book |-> g.book, refs |-> g.refs, trades |-> g.trades, traded_lots |-> g.traded_lots]
<1>1. g.book \in Seq(Nat) /\ g.refs \in [Refs -> Nat] /\ g.trades \in Nat /\ g.traded_lots \in Nat
      /\ g = [book |-> g.book, refs |-> g.refs, trades |-> g.trades, traded_lots |-> g.traded_lots]
  BY DEF Gateways
<1> QED BY <1>1

\* An order is held under no reference exactly when its own is not its own.
LEMMA OrphansAre ==
  ASSUME NEW g, NEW s, Agrees(g, s), s.adds \in Nat, s.adds <= NMsgs
  PROVE  Orphans(g) = {id \in 1 .. s.adds : g.book[id] > 0 /\ g.refs[id] # id}
<1>1. \A id \in 1 .. s.adds : id \in Refs
  BY FeedEngineAssumption DEF Refs
<1>2. \A r \in Refs : g.refs[r] \in {0, r} /\ r # 0
  BY DEF Agrees, Refs
<1>3. \A id \in 1 .. s.adds : (\A r \in Refs : g.refs[r] # id) <=> g.refs[id] # id
  BY <1>1, <1>2
<1> QED BY <1>3 DEF Orphans, Agrees

\* Reducing id 0 does nothing, any other id takes lots off its order.
LEMMA LessIs ==
  ASSUME NEW g \in Gateways, NEW id \in Nat, NEW q
  PROVE  Less(g, id, q) =
           [book |-> IF id = 0 THEN g.book ELSE [g.book EXCEPT ![id] = @ - q],
            refs |-> g.refs, trades |-> g.trades, traded_lots |-> g.traded_lots]
<1>1. g = [book |-> g.book, refs |-> g.refs, trades |-> g.trades, traded_lots |-> g.traded_lots]
  BY GatewayType
<1>2. CASE id = 0
  BY <1>1, <1>2 DEF Less
<1>3. CASE id # 0
  <2>1. Less(g, id, q) = [g EXCEPT !.book[id] = @ - q]
    BY <1>3 DEF Less
  <2> DEFINE b == g.book
             x == g.refs
             y == g.trades
             z == g.traded_lots
  <2>2. g = [book |-> b, refs |-> x, trades |-> y, traded_lots |-> z]
    BY <1>1
  <2> HIDE DEF b, x, y, z
  <2>3. [g EXCEPT !.book[id] = @ - q]
          = [book |-> [b EXCEPT ![id] = @ - q], refs |-> x, trades |-> y, traded_lots |-> z]
    BY <2>2
  <2> QED BY <1>3, <2>1, <2>3 DEF b, x, y, z
<1> QED BY <1>2, <1>3

\* What an execution, a reduction or a deletion takes off.
Removed(g, f) ==
  IF f.kind = "D" THEN Open(g, g.refs[f.ref]) ELSE Reduced(g, g.refs[f.ref], f.shares)

After(g, f, refs) ==
  [book |-> IF g.refs[f.ref] = 0 THEN g.book ELSE [g.book EXCEPT ![g.refs[f.ref]] = @ - Removed(g, f)],
   refs |-> refs,
   trades |-> g.trades + (IF f.kind = "E" /\ Removed(g, f) > 0 THEN 1 ELSE 0),
   traded_lots |-> g.traded_lots + (IF f.kind = "E" THEN Removed(g, f) ELSE 0)]

LEMMA MessageIs ==
  ASSUME NEW f \in Frames
  PROVE  /\ Message(f).id = f.ref /\ Message(f).qty = f.shares /\ f.ref \in Refs /\ f.shares \in Nat
         /\ (f.kind = "A" => Message(f).type = "NewOrder") /\ (f.kind = "E" => Message(f).type = "Execute")
         /\ (f.kind = "X" => Message(f).type = "Reduce") /\ (f.kind = "D" => Message(f).type = "Cancel")
         /\ f.kind \in {"A", "E", "X", "D"}
BY DEF Message, Frames

LEMMA ApplyTakes ==
  ASSUME NEW g \in Gateways, NEW f \in Frames, f.kind # "A", Removed(g, f) \in Nat
  PROVE  /\ Apply(g, Message(f)) = After(g, f, g.refs)
         /\ HashApply(g, Message(f)) =
              After(g, f, IF f.kind = "D" THEN [g.refs EXCEPT ![f.ref] = 0] ELSE g.refs)
<1> DEFINE m == Message(f)
           id == g.refs[f.ref]
           q == Removed(g, f)
<1>1. /\ m.id = f.ref /\ m.qty = f.shares /\ f.ref \in Refs
      /\ (f.kind = "E" => m.type = "Execute") /\ (f.kind = "X" => m.type = "Reduce")
      /\ (f.kind = "D" => m.type = "Cancel") /\ f.kind \in {"E", "X", "D"}
  BY MessageIs
<1>2. /\ g.book \in Seq(Nat) /\ g.refs \in [Refs -> Nat] /\ g.trades \in Nat /\ g.traded_lots \in Nat
      /\ id \in Nat
  BY <1>1, GatewayType
<1>3. Less(g, id, q) =
        [book |-> IF id = 0 THEN g.book ELSE [g.book EXCEPT ![id] = @ - q],
         refs |-> g.refs, trades |-> g.trades, traded_lots |-> g.traded_lots]
  <2> HIDE DEF id, q
  <2> QED BY <1>2, LessIs
<1>4. CASE f.kind = "E"
  <2>1. q = Reduced(g, id, m.qty)
    BY <1>1, <1>4 DEF Removed
  <2>2. Apply(g, m) = Executed(g, id, m.qty) /\ HashApply(g, m) = Apply(g, m)
    <3> HIDE DEF m
    <3> QED BY <1>1, <1>4 DEF Apply, HashApply
  <2>3. Executed(g, id, m.qty) =
          [Less(g, id, q) EXCEPT !.trades = @ + (IF q > 0 THEN 1 ELSE 0), !.traded_lots = @ + q]
    BY <2>1 DEF Executed
  <2>4. Executed(g, id, m.qty) =
          [book |-> IF id = 0 THEN g.book ELSE [g.book EXCEPT ![id] = @ - q],
           refs |-> g.refs, trades |-> g.trades + (IF q > 0 THEN 1 ELSE 0), traded_lots |-> g.traded_lots + q]
    <3> DEFINE b == IF id = 0 THEN g.book ELSE [g.book EXCEPT ![id] = @ - q]
               l == Less(g, id, q)
               x == g.refs
               y == g.trades
               z == g.traded_lots
               e == IF q > 0 THEN 1 ELSE 0
    <3>1. l = [book |-> b, refs |-> x, trades |-> y, traded_lots |-> z]
      BY <1>3
    <3>2. [l EXCEPT !.trades = @ + e, !.traded_lots = @ + q]
            = [book |-> b, refs |-> x, trades |-> y + e, traded_lots |-> z + q]
      <4> HIDE DEF b, l, x, y, z, e, q
      <4>1. l.trades = y /\ l.traded_lots = z
        BY <3>1
      <4> DEFINE r == [l EXCEPT !.trades = y + e]
                 u == y + e
                 v == z + q
      <4>2. [l EXCEPT !.trades = @ + e, !.traded_lots = @ + q] = [r EXCEPT !.traded_lots = v]
        BY <4>1
      <4>3. r = [book |-> b, refs |-> x, trades |-> u, traded_lots |-> z]
        <5> HIDE DEF u
        <5> QED BY <3>1 DEF u
      <4> HIDE DEF r, u, v
      <4>4. [r EXCEPT !.traded_lots = v] = [book |-> b, refs |-> x, trades |-> u, traded_lots |-> v]
        BY <4>3
      <4> QED BY <4>2, <4>4 DEF u, v
    <3> QED BY <2>3, <3>2
  <2> QED BY <1>4, <2>2, <2>4 DEF After
<1>5. CASE f.kind = "X"
  <2>1. Apply(g, m) = Less(g, id, q) /\ HashApply(g, m) = Apply(g, m)
    <3>1. q = Reduced(g, id, m.qty)
      BY <1>1, <1>5 DEF Removed
    <3> HIDE DEF m, q
    <3> QED BY <1>1, <1>5, <3>1 DEF Apply, HashApply
  <2>2. After(g, f, g.refs) =
          [book |-> IF id = 0 THEN g.book ELSE [g.book EXCEPT ![id] = @ - q],
           refs |-> g.refs, trades |-> g.trades, traded_lots |-> g.traded_lots]
    <3>1. g.trades + (IF f.kind = "E" /\ Removed(g, f) > 0 THEN 1 ELSE 0) = g.trades
          /\ g.traded_lots + (IF f.kind = "E" THEN Removed(g, f) ELSE 0) = g.traded_lots
      BY <1>2, <1>5
    <3> QED BY <3>1 DEF After
  <2> QED BY <1>3, <1>5, <2>1, <2>2
<1>6. CASE f.kind = "D"
  <2>1. Apply(g, m) = Less(g, id, q) /\ HashApply(g, m) = [Less(g, id, q) EXCEPT !.refs[m.id] = 0]
    <3>1. q = Open(g, id)
      BY <1>6 DEF Removed
    <3> HIDE DEF m, q
    <3> QED BY <1>1, <1>6, <3>1 DEF Apply, HashApply
  <2>2. After(g, f, g.refs) =
          [book |-> IF id = 0 THEN g.book ELSE [g.book EXCEPT ![id] = @ - q],
           refs |-> g.refs, trades |-> g.trades, traded_lots |-> g.traded_lots]
    <3>1. g.trades + (IF f.kind = "E" /\ Removed(g, f) > 0 THEN 1 ELSE 0) = g.trades
          /\ g.traded_lots + (IF f.kind = "E" THEN Removed(g, f) ELSE 0) = g.traded_lots
      BY <1>2, <1>6
    <3> QED BY <3>1 DEF After
  <2>3. After(g, f, [g.refs EXCEPT ![f.ref] = 0]) =
          [book |-> IF id = 0 THEN g.book ELSE [g.book EXCEPT ![id] = @ - q],
           refs |-> [g.refs EXCEPT ![f.ref] = 0], trades |-> g.trades, traded_lots |-> g.traded_lots]
    <3>1. g.trades + (IF f.kind = "E" /\ Removed(g, f) > 0 THEN 1 ELSE 0) = g.trades
          /\ g.traded_lots + (IF f.kind = "E" THEN Removed(g, f) ELSE 0) = g.traded_lots
      BY <1>2, <1>6
    <3> QED BY <3>1 DEF After
  <2> DEFINE b == IF id = 0 THEN g.book ELSE [g.book EXCEPT ![id] = @ - q]
             l == Less(g, id, q)
             x == g.refs
             y == g.trades
             z == g.traded_lots
  <2>4. l = [book |-> b, refs |-> x, trades |-> y, traded_lots |-> z]
    BY <1>3
  <2>5. [l EXCEPT !.refs[m.id] = 0] = [book |-> b, refs |-> [x EXCEPT ![m.id] = 0], trades |-> y, traded_lots |-> z]
    <3> HIDE DEF b, l, x, y, z, m
    <3> QED BY <2>4
  <2> QED BY <1>1, <1>3, <1>6, <2>1, <2>2, <2>3, <2>5
<1> QED BY <1>1, <1>4, <1>5, <1>6

Added(g, f, refs) ==
  [book |-> Append(g.book, f.shares), refs |-> refs, trades |-> g.trades, traded_lots |-> g.traded_lots]

\* An add is booked under the next id; only a full table leaves it without its reference.
LEMMA ApplyAdds ==
  ASSUME NEW g \in Gateways, NEW f \in Frames, f.kind = "A"
  PROVE  LET refs == [g.refs EXCEPT ![f.ref] = Len(g.book) + 1]
         IN  /\ Apply(g, Message(f)) = Added(g, f, refs)
             /\ HashApply(g, Message(f)) = Added(g, f, IF Cardinality(Held(g)) >= LoadCap THEN g.refs ELSE refs)
<1> DEFINE m == Message(f)
           full == Cardinality(Held(g)) >= LoadCap
           b == g.book
           x == g.refs
           y == g.trades
           z == g.traded_lots
<1>1. m.id = f.ref /\ m.qty = f.shares /\ m.type = "NewOrder" /\ f.ref \in Refs
  BY MessageIs
<1>2. g = [book |-> b, refs |-> x, trades |-> y, traded_lots |-> z] /\ x \in [Refs -> Nat]
  BY GatewayType
<1>3. Apply(g, m) = [g EXCEPT !.book = Append(@, m.qty), !.refs[m.id] = Len(b) + 1]
  <2> HIDE DEF m
  <2> QED BY <1>1 DEF Apply
<1>4. HashApply(g, m) = [g EXCEPT !.book = Append(@, m.qty), !.refs[m.id] = IF full THEN @ ELSE Len(b) + 1]
  <2> HIDE DEF m
  <2> QED BY <1>1 DEF HashApply
<1> HIDE DEF m, full, b, x, y, z
<1>5. Apply(g, m) = [book |-> Append(b, f.shares), refs |-> [x EXCEPT ![f.ref] = Len(b) + 1], trades |-> y, traded_lots |-> z]
  BY <1>1, <1>2, <1>3
<1>6. HashApply(g, m) = [book |-> Append(b, f.shares),
                         refs |-> [x EXCEPT ![f.ref] = IF full THEN @ ELSE Len(b) + 1], trades |-> y, traded_lots |-> z]
  BY <1>1, <1>2, <1>4
<1>7. [x EXCEPT ![f.ref] = IF full THEN @ ELSE Len(b) + 1] = IF full THEN x ELSE [x EXCEPT ![f.ref] = Len(b) + 1]
  BY <1>1, <1>2
<1> QED BY <1>5, <1>6, <1>7 DEF Added, m, full, b, x, y, z

LEMMA AddAgrees ==
  ASSUME NEW g, NEW s, Agrees(g, s), Ledger(s), NEW f \in Frames, f.kind = "A", Legal(s, f),
         NEW R, R = g.refs \/ R = [g.refs EXCEPT ![f.ref] = Len(g.book) + 1]
  PROVE  /\ Agrees(Added(g, f, R), Entered(s, f))
         /\ Orphans(g) \subseteq Orphans(Added(g, f, R))
         /\ R # g.refs => Orphans(Added(g, f, R)) = Orphans(g)
         /\ R # g.refs /\ Dense(g) => Dense(Added(g, f, R))
<1> DEFINE r == f.ref
           e == Added(g, f, R)
           t == Entered(s, f)
           N == s.adds
<1>1. /\ Ledger(t) /\ r \in Refs /\ r \in Nat /\ r > 0 /\ s.lots \in [Refs -> Nat] /\ N \in Nat
      /\ r = N + 1 /\ f.shares \in Nat /\ f.shares > 0
      /\ t.lots = [s.lots EXCEPT ![r] = f.shares] /\ t.adds = N + 1
      /\ t.execs = s.execs /\ t.exec_lots = s.exec_lots
  <2>1. /\ Ledger(t) /\ r \in Refs /\ r \in Nat /\ r > 0 /\ s.lots \in [Refs -> Nat] /\ N \in Nat
    BY EnteredIs
  <2>2. r = N + 1 /\ f.shares \in Nat /\ f.shares > 0
    BY EnteredIs
  <2>3. t.adds = N + 1
    BY DEF Entered
  <2>4. t.lots = [s.lots EXCEPT ![r] = f.shares]
    BY DEF Entered
  <2>5. t.execs = s.execs /\ t.exec_lots = s.exec_lots
    BY EnteredIs
  <2> QED BY <2>1, <2>2, <2>3, <2>4, <2>5
<1>2. /\ g \in Gateways /\ g.book \in Seq(Nat) /\ Len(g.book) = N /\ g.refs \in [Refs -> Nat]
      /\ g.trades \in Nat /\ g.traded_lots \in Nat
      /\ \A q \in Refs : g.refs[q] \in {0, q} /\ (q > N => g.refs[q] = 0)
      /\ \A q \in 1 .. N : /\ g.refs[q] = q => g.book[q] = s.lots[q]
                           /\ g.refs[q] # q => g.book[q] > 0 \/ s.lots[q] = 0
      /\ (Orphans(g) = {} => g.trades = s.execs /\ g.traded_lots = s.exec_lots)
  BY GatewayType DEF Agrees
<1>3. /\ e.book \in Seq(Nat) /\ Len(e.book) = N + 1 /\ e.book[N + 1] = f.shares
      /\ \A q \in 1 .. N : e.book[q] = g.book[q]
      /\ e.refs = R /\ e.trades = g.trades /\ e.traded_lots = g.traded_lots
      /\ e = [book |-> e.book, refs |-> R, trades |-> e.trades, traded_lots |-> e.traded_lots]
  BY <1>1, <1>2 DEF Added
<1> HIDE DEF t, r, e
<1>4. N + 1 <= NMsgs /\ NMsgs \in Nat /\ (\A q \in 1 .. N + 1 : q \in Refs)
  BY <1>1, FeedEngineAssumption DEF Refs
<1>5. R \in [Refs -> Nat] /\ (\A q \in Refs : q # N + 1 => R[q] = g.refs[q]) /\ R[N + 1] \in {0, N + 1}
      /\ (R # g.refs => R[N + 1] = N + 1) /\ N + 1 \in Refs
  BY <1>1, <1>2 DEF r
<1>6. e \in Gateways
  BY <1>2, <1>3, <1>5 DEF Gateways
<1>7. \A q \in Refs : e.refs[q] \in {0, q} /\ (q > N + 1 => e.refs[q] = 0)
  BY <1>1, <1>2, <1>3, <1>5 DEF Refs
<1>8. ASSUME NEW q \in 1 .. N + 1
      PROVE  /\ e.refs[q] = q => e.book[q] = t.lots[q]
             /\ e.refs[q] # q => e.book[q] > 0 \/ t.lots[q] = 0
  <2>1. CASE q = N + 1
    BY <1>1, <1>3, <2>1
  <2>2. CASE q # N + 1
    <3>1. q \in 1 .. N /\ q \in Refs /\ t.lots[q] = s.lots[q]
      BY <1>1, <1>4, <2>2
    <3> QED BY <1>2, <1>3, <1>5, <2>2, <3>1
  <2> QED BY <2>1, <2>2
<1>9. \A q \in 1 .. N : q \in 1 .. N + 1 /\ q # N + 1 /\ q \in Refs
  BY <1>1, <1>4
<1>10. Orphans(g) = {q \in 1 .. N : g.book[q] > 0 /\ g.refs[q] # q}
  BY <1>1, <1>4, OrphansAre
<1>11. Orphans(e) = {q \in 1 .. N + 1 : e.book[q] > 0 /\ e.refs[q] # q}
  <2>1. \A q \in 1 .. N + 1 : (\A w \in Refs : e.refs[w] # q) <=> e.refs[q] # q
    <3>1. \A w \in Refs : w # 0
      BY DEF Refs
    <3> QED BY <1>4, <1>7, <3>1
  <2> QED BY <1>3, <2>1 DEF Orphans
<1>12. Orphans(g) \subseteq Orphans(e)
  BY <1>3, <1>5, <1>9, <1>10, <1>11
<1>13. R # g.refs => Orphans(e) = Orphans(g)
  <2> SUFFICES ASSUME R # g.refs, NEW q \in 1 .. N + 1, e.book[q] > 0, e.refs[q] # q
               PROVE  q \in Orphans(g)
    BY <1>11, <1>12
  <2>1. q # N + 1 /\ q \in 1 .. N
    BY <1>1, <1>3, <1>5
  <2> QED BY <1>3, <1>5, <1>9, <1>10, <2>1
<1>14. Agrees(e, t)
  <2>1. Orphans(e) = {} => e.trades = t.execs /\ e.traded_lots = t.exec_lots
    BY <1>1, <1>2, <1>3, <1>12
  <2> QED BY <1>1, <1>3, <1>6, <1>7, <1>8, <2>1 DEF Agrees
<1>15. R # g.refs /\ Dense(g) => Dense(e)
  <2> SUFFICES ASSUME R # g.refs, Dense(g), NEW q \in 1 .. N + 1 PROVE e.refs[q] = q
    BY <1>3 DEF Dense
  <2>1. CASE q = N + 1
    BY <1>3, <1>5, <2>1
  <2>2. CASE q # N + 1
    <3>1. q \in 1 .. N /\ q \in Refs
      BY <1>1, <1>4, <2>2
    <3> QED BY <1>2, <1>3, <1>5, <2>2, <3>1 DEF Dense
  <2> QED BY <2>1, <2>2
<1> QED BY <1>12, <1>13, <1>14, <1>15 DEF t, e

\* The lots taken off the generator's order come off the gateway's, if it knows it.
LEMMA TakeAgrees ==
  ASSUME NEW g, NEW s, Agrees(g, s), Ledger(s), s.adds <= NMsgs, NEW f \in Frames, f.kind # "A", Legal(s, f),
         NEW R, R = g.refs \/ (f.kind = "D" /\ R = [g.refs EXCEPT ![f.ref] = 0])
  PROVE  /\ Removed(g, f) \in Nat
         /\ Agrees(After(g, f, R), Entered(s, f))
         /\ Orphans(After(g, f, R)) = Orphans(g)
         /\ R = g.refs /\ Dense(g) => Dense(After(g, f, R))
<1> DEFINE r == f.ref
           t == Entered(s, f)
           N == s.adds
           d == IF f.kind = "D" THEN s.lots[r] ELSE f.shares
           e == After(g, f, R)
<1>1. /\ Ledger(t) /\ r \in Refs /\ r \in Nat /\ r > 0 /\ s.lots \in [Refs -> Nat] /\ N \in Nat
      /\ d \in Nat /\ 0 < d /\ d <= s.lots[r] /\ r <= N
      /\ t.lots = [s.lots EXCEPT ![r] = s.lots[r] - d] /\ t.adds = N
      /\ t.execs = s.execs + (IF f.kind = "E" THEN 1 ELSE 0)
      /\ t.exec_lots = s.exec_lots + (IF f.kind = "E" THEN d ELSE 0)
  BY EnteredIs
<1>2. /\ g \in Gateways /\ g.book \in Seq(Nat) /\ Len(g.book) = N /\ g.refs \in [Refs -> Nat]
      /\ g.trades \in Nat /\ g.traded_lots \in Nat
      /\ \A q \in Refs : g.refs[q] \in {0, q} /\ (q > N => g.refs[q] = 0)
      /\ \A q \in 1 .. N : /\ g.refs[q] = q => g.book[q] = s.lots[q]
                           /\ g.refs[q] # q => g.book[q] > 0 \/ s.lots[q] = 0
      /\ (Orphans(g) = {} => g.trades = s.execs /\ g.traded_lots = s.exec_lots)
  BY GatewayType DEF Agrees
<1>3. f.shares \in Nat /\ f.kind \in {"E", "X", "D"} /\ s.lots[r] \in Nat
  BY <1>1 DEF Frames
<1>4. \A q \in 1 .. N : q \in Refs
  BY <1>1, FeedEngineAssumption DEF Refs
<1>5. Orphans(g) = {q \in 1 .. N : g.book[q] > 0 /\ g.refs[q] # q}
  BY <1>1, OrphansAre
<1>6. /\ e.refs = R /\ e.trades = g.trades + (IF f.kind = "E" /\ Removed(g, f) > 0 THEN 1 ELSE 0)
      /\ e.traded_lots = g.traded_lots + (IF f.kind = "E" THEN Removed(g, f) ELSE 0)
      /\ e.book = IF g.refs[r] = 0 THEN g.book ELSE [g.book EXCEPT ![g.refs[r]] = @ - Removed(g, f)]
      /\ e = [book |-> e.book, refs |-> R, trades |-> e.trades, traded_lots |-> e.traded_lots]
  BY DEF After
<1>7. R \in [Refs -> Nat] /\ (\A q \in Refs : q # r => R[q] = g.refs[q]) /\ R[r] \in {0, g.refs[r]}
      /\ (R[r] # g.refs[r] => f.kind = "D")
  <2>1. CASE R = g.refs
    BY <1>1, <1>2, <2>1
  <2>2. CASE f.kind = "D" /\ R = [g.refs EXCEPT ![r] = 0]
    BY <1>1, <1>2, <2>2
  <2> QED BY <2>1, <2>2
<1>8. \A q \in Refs : R[q] \in {0, q} /\ (q > N => R[q] = 0)
  BY <1>2, <1>7
<1> HIDE DEF e, t
<1>9. CASE g.refs[r] = 0
  <2>1. Removed(g, f) = 0
    BY <1>3, <1>9 DEF Removed, Open, Reduced
  <2>2. R = g.refs
    <3>1. R[r] = g.refs[r]
      BY <1>7, <1>9
    <3> QED BY <1>2, <1>7, <3>1
  <2>3. e = g /\ e.book = g.book /\ e.refs = g.refs /\ e.trades = g.trades /\ e.traded_lots = g.traded_lots
    <3>1. e.book = g.book /\ e.refs = g.refs /\ e.trades = g.trades /\ e.traded_lots = g.traded_lots
      BY <1>2, <1>6, <1>9, <2>1, <2>2
    <3> QED BY <1>2, <1>6, <2>2, <3>1, GatewayType
  <2>4. r \in Orphans(g)
    <3>1. r \in 1 .. N /\ g.refs[r] # r /\ s.lots[r] # 0
      BY <1>1, <1>3, <1>9
    <3>2. g.book[r] > 0
      BY <1>2, <3>1
    <3> QED BY <1>5, <3>1, <3>2
  <2>5. ASSUME NEW q \in 1 .. N
        PROVE  /\ e.refs[q] = q => e.book[q] = t.lots[q]
               /\ e.refs[q] # q => e.book[q] > 0 \/ t.lots[q] = 0
    <3>1. CASE q = r
      BY <1>1, <1>5, <1>9, <2>3, <2>4, <3>1
    <3>2. CASE q # r
      <4>1. t.lots[q] = s.lots[q]
        BY <1>1, <1>4, <3>2
      <4> QED BY <1>2, <2>3, <4>1
    <3> QED BY <3>1, <3>2
  <2>6. Agrees(e, t)
    <3>1. Orphans(e) = {} => FALSE
      BY <2>3, <2>4
    <3> QED BY <1>1, <1>2, <2>3, <2>5, <3>1 DEF Agrees
  <2> QED BY <2>1, <2>3, <2>6 DEF e, t
<1>10. CASE g.refs[r] = r
  <2>1. r \in 1 .. N /\ g.book[r] = s.lots[r] /\ r # 0
    BY <1>1, <1>2, <1>10
  <2>2. Open(g, r) = s.lots[r]
    BY <2>1 DEF Open
  <2>3. Removed(g, f) = d
    <3>1. CASE f.kind = "D"
      BY <1>10, <2>2, <3>1 DEF Removed
    <3>2. CASE f.kind # "D"
      <4>1. Removed(g, f) = Reduced(g, r, f.shares)
        BY <1>10, <3>2 DEF Removed
      <4>2. Reduced(g, r, f.shares) = IF f.shares < s.lots[r] THEN f.shares ELSE s.lots[r]
        BY <2>2 DEF Reduced
      <4> QED BY <1>1, <1>3, <3>2, <4>1, <4>2
    <3> QED BY <3>1, <3>2
  <2>4. e.book = [g.book EXCEPT ![r] = s.lots[r] - d]
    BY <1>6, <1>10, <2>1, <2>3
  <2>5. /\ e.book \in Seq(Nat) /\ Len(e.book) = N /\ e.book[r] = s.lots[r] - d
        /\ \A q \in 1 .. N : q # r => e.book[q] = g.book[q]
    <3>1. s.lots[r] - d \in Nat
      BY <1>1, <1>3
    <3> HIDE DEF d
    <3>2. r \in DOMAIN g.book
      BY <1>2, <2>1
    <3> QED BY <1>2, <2>1, <2>4, <3>1, <3>2
  <2>6. e.trades = g.trades + (IF f.kind = "E" THEN 1 ELSE 0)
        /\ e.traded_lots = g.traded_lots + (IF f.kind = "E" THEN d ELSE 0)
    BY <1>1, <1>6, <2>3
  <2>7. e \in Gateways
    <3>1. e.trades \in Nat /\ e.traded_lots \in Nat
      BY <1>1, <1>2, <2>6
    <3> QED BY <1>6, <1>7, <2>5, <3>1 DEF Gateways
  <2>8. R[r] # r => f.kind = "D" /\ s.lots[r] - d = 0
    BY <1>1, <1>3, <1>7, <1>10
  <2>9. ASSUME NEW q \in 1 .. N
        PROVE  /\ e.refs[q] = q => e.book[q] = t.lots[q]
               /\ e.refs[q] # q => e.book[q] > 0 \/ t.lots[q] = 0
    <3>1. CASE q = r
      <4>1. t.lots[r] = s.lots[r] - d
        BY <1>1
      <4> QED BY <1>6, <2>5, <2>8, <3>1, <4>1
    <3>2. CASE q # r
      <4>1. t.lots[q] = s.lots[q] /\ e.book[q] = g.book[q] /\ e.refs[q] = g.refs[q]
        BY <1>1, <1>4, <1>6, <1>7, <2>5, <3>2
      <4> QED BY <1>2, <4>1
    <3> QED BY <3>1, <3>2
  <2>10. Orphans(e) = {q \in 1 .. N : e.book[q] > 0 /\ e.refs[q] # q}
    <3>1. \A q \in 1 .. N : (\A w \in Refs : e.refs[w] # q) <=> e.refs[q] # q
      <4>1. \A w \in Refs : w # 0
        BY DEF Refs
      <4> QED BY <1>4, <1>6, <1>8, <4>1
    <3> QED BY <2>5, <3>1 DEF Orphans
  <2>11. ASSUME NEW q \in 1 .. N
         PROVE  (e.book[q] > 0 /\ e.refs[q] # q) <=> (g.book[q] > 0 /\ g.refs[q] # q)
    <3>1. CASE q = r
      BY <1>6, <1>10, <2>5, <2>8, <3>1
    <3>2. CASE q # r
      BY <1>4, <1>6, <1>7, <2>5, <3>2
    <3> QED BY <3>1, <3>2
  <2>12. Orphans(e) = Orphans(g)
    BY <1>5, <2>10, <2>11
  <2>13. Agrees(e, t)
    <3>1. Orphans(e) = {} => e.trades = t.execs /\ e.traded_lots = t.exec_lots
      BY <1>1, <1>2, <2>6, <2>12
    <3> QED BY <1>1, <1>6, <1>8, <2>5, <2>7, <2>9, <3>1 DEF Agrees
  <2>14. R = g.refs /\ Dense(g) => Dense(e)
    BY <1>2, <1>6, <2>5 DEF Dense
  <2> QED BY <1>1, <2>3, <2>12, <2>13, <2>14 DEF e, t
<1> QED BY <1>1, <1>2, <1>9, <1>10

\* A frame applied keeps gateway and ledger in agreement; only an add at a full
\* table makes an orphan, and nothing unmakes one.
LEMMA ApplyAgrees ==
  ASSUME NEW g, NEW s, Agrees(g, s), Ledger(s), s.adds <= NMsgs, NEW f \in Frames, Legal(s, f),
         NEW e, e = Apply(g, Message(f)) \/ e = HashApply(g, Message(f))
  PROVE  /\ Agrees(e, Entered(s, f))
         /\ Orphans(g) \subseteq Orphans(e)
         /\ Orphans(e) # Orphans(g) => Cardinality(Held(g)) >= LoadCap
         /\ e = Apply(g, Message(f)) /\ Dense(g) => Dense(e)
<1>1. g \in Gateways /\ g.refs \in [Refs -> Nat] /\ f.ref \in Refs /\ Len(g.book) \in Nat
  BY GatewayType DEF Agrees, Frames
<1>2. CASE f.kind = "A"
  <2> DEFINE R == [g.refs EXCEPT ![f.ref] = Len(g.book) + 1]
  <2>1. R # g.refs
    <3>1. Len(g.book) = s.adds /\ f.ref = s.adds + 1 /\ s.adds \in Nat
      BY <1>2, EnteredIs DEF Agrees
    <3>2. g.refs[f.ref] = 0
      BY <1>1, <3>1 DEF Agrees
    <3>3. R[f.ref] = s.adds + 1
      BY <1>1, <3>1
    <3> QED BY <3>1, <3>2, <3>3
  <2>2. ASSUME NEW Q, Q = g.refs \/ Q = R, e = Added(g, f, Q)
        PROVE  /\ Agrees(e, Entered(s, f)) /\ Orphans(g) \subseteq Orphans(e)
               /\ Q # g.refs => Orphans(e) = Orphans(g)
               /\ Q # g.refs /\ Dense(g) => Dense(e)
    BY <1>2, <2>2, AddAgrees
  <2> HIDE DEF R
  <2>3. Apply(g, Message(f)) = Added(g, f, R)
    BY <1>1, <1>2, ApplyAdds DEF R
  <2>4. HashApply(g, Message(f)) = Added(g, f, IF Cardinality(Held(g)) >= LoadCap THEN g.refs ELSE R)
    BY <1>1, <1>2, ApplyAdds DEF R
  <2>5. CASE e = Apply(g, Message(f))
    BY <2>1, <2>2, <2>3, <2>5
  <2>6. CASE e = HashApply(g, Message(f)) /\ Cardinality(Held(g)) >= LoadCap /\ e # Apply(g, Message(f))
    BY <2>2, <2>4, <2>6
  <2>7. CASE e = HashApply(g, Message(f)) /\ ~(Cardinality(Held(g)) >= LoadCap)
    BY <2>1, <2>2, <2>4, <2>7
  <2> QED BY <2>5, <2>6, <2>7
<1>3. CASE f.kind # "A"
  <2>1. Removed(g, f) \in Nat
    BY <1>3, TakeAgrees
  <2>2. /\ Apply(g, Message(f)) = After(g, f, g.refs)
        /\ HashApply(g, Message(f)) = After(g, f, IF f.kind = "D" THEN [g.refs EXCEPT ![f.ref] = 0] ELSE g.refs)
    BY <1>1, <1>3, <2>1, ApplyTakes
  <2>3. ASSUME NEW Q, Q = g.refs \/ (f.kind = "D" /\ Q = [g.refs EXCEPT ![f.ref] = 0]), e = After(g, f, Q)
        PROVE  Agrees(e, Entered(s, f)) /\ Orphans(e) = Orphans(g) /\ (Q = g.refs /\ Dense(g) => Dense(e))
    BY <1>3, <2>3, TakeAgrees
  <2>4. CASE e = Apply(g, Message(f))
    BY <2>2, <2>3, <2>4
  <2>5. CASE e = HashApply(g, Message(f)) /\ e # Apply(g, Message(f))
    <3>1. f.kind = "D" /\ e = After(g, f, [g.refs EXCEPT ![f.ref] = 0])
      BY <2>2, <2>5
    <3> QED BY <2>3, <2>5, <3>1
  <2> QED BY <2>4, <2>5
<1> QED BY <1>2, <1>3

-----------------------------------------------------------------------------
(* Gateway and ledger through the steps of a session *)

LEMMA Fresh ==
  /\ Agrees(NewGateway, NewLedger) /\ Dense(NewGateway) /\ Orphans(NewGateway) = {}
  /\ Ledger(NewLedger) /\ NewLedger.adds = 0
<1>1. /\ NewGateway.book = <<>> /\ NewGateway.refs = [r \in Refs |-> 0]
      /\ NewGateway.trades = 0 /\ NewGateway.traded_lots = 0 /\ NewGateway \in Gateways
  BY DEF NewGateway, Gateways
<1>2. /\ NewLedger.lots = [r \in Refs |-> 0] /\ NewLedger.adds = 0 /\ NewLedger.execs = 0
      /\ NewLedger.exec_lots = 0 /\ NewLedger \in Ledgers
  BY DEF NewLedger, Ledgers
<1>3. Len(NewGateway.book) = 0
  BY <1>1
<1>4. Orphans(NewGateway) = {}
  BY <1>3 DEF Orphans
<1> QED BY <1>1, <1>2, <1>3, <1>4 DEF Agrees, Dense, Ledger

LEMMA GatewayInit == Init => GatewayInv
<1> SUFFICES ASSUME Init PROVE GatewayInv
  OBVIOUS
<1>1. feed = <<>> /\ applied = <<>> /\ gw = NewGateway
      /\ live = [r \in Refs |-> 0] /\ st = [adds |-> 0, execs |-> 0, exec_lots |-> 0]
  BY DEF Init, FeedInit
<1> DEFINE h == [n \in {0} |-> NewLedger]
<1>2. History(h)
  <2>1. Len(feed) = 0 /\ 0 .. Len(feed) = {0} /\ h[0] = NewLedger /\ 1 .. Len(feed) = {}
    BY <1>1
  <2>2. live = h[0].lots /\ st = [adds |-> h[0].adds, execs |-> h[0].execs, exec_lots |-> h[0].exec_lots]
    BY <1>1 DEF NewLedger
  <2> HIDE DEF h
  <2> QED BY <2>1, <2>2, Fresh DEF History
<1>3. Len(applied) = 0 /\ h[0] = NewLedger
  BY <1>1
<1> HIDE DEF h
<1>4. feed \in Seq(Frames) /\ Len(feed) <= NMsgs
  BY <1>1, FeedEngineAssumption
<1> QED BY <1>1, <1>2, <1>3, <1>4, Fresh DEF GatewayInv

LEMMA GatewayGenerate ==
  ASSUME ControlInv, GatewayInv, Generate
  PROVE  GatewayInv'
<1>1. session = "generate" /\ generate_feed /\ session' = session /\ applied' = applied /\ gw' = gw
  BY DEF Generate, engine
<1>2. Len(applied) = 0
  BY <1>1, FeedEngineAssumption DEF ControlInv, ProducerInv, EngineInv
<1>3. PICK h : History(h) /\ Agrees(gw, h[0])
  BY <1>2 DEF GatewayInv
<1>4. /\ feed' \in Seq(Frames) /\ Len(feed') <= NMsgs
      /\ \E k : History(k)' /\ k[0] = h[0]
  BY <1>1, <1>3, HistoryGrows DEF GatewayInv
<1>5. PICK k : History(k)' /\ k[0] = h[0]
  BY <1>4
<1>6. Agrees(gw', k[Len(applied')])
  BY <1>1, <1>2, <1>3, <1>5
<1>7. Dense(gw')
  BY <1>1 DEF GatewayInv
<1> QED BY <1>4, <1>5, <1>6, <1>7 DEF GatewayInv

LEMMA GatewayNewSession ==
  ASSUME GatewayInv, NEW name, NewSession(name)
  PROVE  GatewayInv'
<1>1. UNCHANGED <<feed, live, st>> /\ applied' = <<>> /\ gw' = NewGateway
  BY DEF NewSession, feedVars
<1>2. PICK h : History(h)
  BY DEF GatewayInv
<1>3. History(h)'
  BY <1>1, <1>2 DEF History
<1>4. Len(applied') = 0 /\ h[0] = NewLedger
  BY <1>1, <1>2 DEF History
<1>5. Agrees(gw', h[Len(applied')]) /\ Dense(gw')
  BY <1>1, <1>4, Fresh
<1> QED BY <1>1, <1>3, <1>5 DEF GatewayInv

LEMMA GatewaySame ==
  ASSUME GatewayInv, UNCHANGED <<feedVars, session, applied, gw>>
  PROVE  GatewayInv'
<1>1. PICK h : History(h) /\ Agrees(gw, h[Len(applied)])
  BY DEF GatewayInv
<1>2. History(h)'
  BY <1>1 DEF History, feedVars
<1> QED BY <1>1, <1>2 DEF GatewayInv, feedVars

\* The frames applied are of the feed.
LEMMA Within ==
  ASSUME ControlInv, GatewayInv
  PROVE  /\ Len(applied) \in 0 .. Len(feed) /\ Len(feed) \in Nat /\ Len(feed) <= NMsgs /\ NMsgs \in Nat
         /\ session # "generate" => Len(feed) = NMsgs
<1>1. Len(applied) \in Nat /\ Len(feed) \in Nat /\ Len(feed) <= NMsgs /\ NMsgs \in Nat
      /\ Len(applied) <= i /\ i \in 0 .. NMsgs
  BY FeedEngineAssumption DEF ControlInv, ProducerInv, EngineInv, GatewayInv
<1> QED BY <1>1 DEF ControlInv, ProducerInv

LEMMA GatewayApply ==
  ASSUME ControlInv, GatewayInv, Polling, session # "generate", UNCHANGED <<feedVars, session>>,
         applied' = Append(applied, Head(chan)),
         gw' = IF session = "hash" THEN HashApply(gw, Message(Front)) ELSE Apply(gw, Message(Front))
  PROVE  /\ GatewayInv'
         /\ Orphans(gw) \subseteq Orphans(gw')
         /\ Orphans(gw') # Orphans(gw) => Cardinality(Held(gw)) >= LoadCap
<1> DEFINE n == Len(applied)
<1>1. /\ Head(chan) = n + 1 /\ n \in Nat /\ n + 1 <= i /\ Len(applied') = n + 1
  BY AppliedNext
<1>2. n + 1 \in 1 .. Len(feed) /\ n \in 0 .. Len(feed) /\ (n + 1) - 1 = n /\ n + 1 \in 0 .. Len(feed)
      /\ Len(feed) \in Nat /\ n <= NMsgs /\ NMsgs \in Nat
  BY <1>1, Within DEF ControlInv, ProducerInv
<1>3. PICK h : History(h) /\ Agrees(gw, h[n])
  BY DEF GatewayInv
<1>4. feed \in Seq(Frames) /\ feed[n + 1] \in Frames
  BY <1>2 DEF GatewayInv
<1>5. /\ Ledger(h[n]) /\ h[n].adds <= n /\ h[n].adds \in Nat
      /\ Legal(h[n], feed[n + 1]) /\ h[n + 1] = Entered(h[n], feed[n + 1])
  BY <1>2, <1>3 DEF History, Ledger, Ledgers
<1> DEFINE f == feed[n + 1]
<1>6. Front = f
  BY <1>1 DEF Front
<1>7. h[n].adds <= NMsgs
  BY <1>1, <1>2, <1>5
<1> HIDE DEF f, n
<1>8. /\ Agrees(gw', h[n + 1])
      /\ Orphans(gw) \subseteq Orphans(gw')
      /\ Orphans(gw') # Orphans(gw) => Cardinality(Held(gw)) >= LoadCap
      /\ gw' = Apply(gw, Message(f)) /\ Dense(gw) => Dense(gw')
  <2>1. gw' = Apply(gw, Message(f)) \/ gw' = HashApply(gw, Message(f))
    BY <1>6
  <2>2. f \in Frames /\ Legal(h[n], f) /\ h[n + 1] = Entered(h[n], f)
    BY <1>4, <1>5 DEF f
  <2> QED BY <1>3, <1>5, <1>7, <2>1, <2>2, ApplyAgrees
<1>9. session' # "hash" => Dense(gw')
  BY <1>6, <1>8 DEF GatewayInv
<1>10. History(h)'
  BY <1>3 DEF History, feedVars
<1>11. GatewayInv'
  <2>1. feed' = feed
    BY DEF feedVars
  <2>2. Agrees(gw', h[Len(applied')])
    BY <1>1, <1>8
  <2> QED BY <1>9, <1>10, <2>1, <2>2 DEF GatewayInv
<1> QED BY <1>8, <1>11

LEMMA GatewayEngine ==
  ASSUME ControlInv, GatewayInv, Engine
  PROVE  /\ GatewayInv'
         /\ Orphans(gw) \subseteq Orphans(gw')
         /\ Orphans(gw') # Orphans(gw) => Cardinality(Held(gw)) >= LoadCap
<1>1. /\ UNCHANGED <<feedVars, session>> /\ session # "generate"
      /\ Pops \/ Applies \/ Releases \/ Publishes
  BY EngineSteps
<1>2. CASE Pops \/ Applies
  <2>1. /\ Polling /\ applied' = Append(applied, Head(chan))
        /\ gw' = IF session = "hash" THEN HashApply(gw, Message(Front)) ELSE Apply(gw, Message(Front))
    BY <1>2 DEF Pops, Applies
  <2> QED BY <1>1, <2>1, GatewayApply
<1>3. CASE Releases \/ Publishes
  <2>1. applied' = applied /\ gw' = gw
    BY <1>3 DEF Releases, Publishes
  <2> QED BY <1>1, <2>1, GatewaySame
<1> QED BY <1>1, <1>2, <1>3

-----------------------------------------------------------------------------
(* The journal *)

LEMMA JournalInit == Init => JournalInv
<1> SUFFICES ASSUME Init PROVE JournalInv
  OBVIOUS
<1>1. /\ session = "generate" /\ pcP = "read" /\ journal = <<>> /\ replay = NotReplayed
      /\ applied = <<>> /\ gw = NewGateway
  BY DEF Init
<1>2. Replays([n \in {0} |-> NewGateway])
  BY <1>1 DEF Replays, NotReplayed
<1> QED BY <1>1, <1>2 DEF JournalInv

\* What the replay reads, and no frame is applied, journalled or replayed.
LEMMA ReplaysSame ==
  ASSUME NEW g, Replays(g), UNCHANGED <<applied, gw, replay>>, feed' = feed \/ Len(applied) = 0
  PROVE  Replays(g)'
<1>1. CASE feed' = feed
  BY <1>1 DEF Replays
<1>2. CASE Len(applied) = 0
  BY <1>2 DEF Replays
<1> QED BY <1>1, <1>2

LEMMA JournalSame ==
  ASSUME JournalInv, UNCHANGED <<session, producer, storage, applied, gw>>, feed' = feed \/ Len(applied) = 0
  PROVE  JournalInv'
<1>1. session # "hash" => \E g : Replays(g)'
  BY ReplaysSame DEF JournalInv, storage
<1> QED BY <1>1 DEF JournalInv, producer, storage

LEMMA JournalNewSession ==
  ASSUME JournalInv, session # "journal", NEW name, NewSession(name)
  PROVE  JournalInv'
<1>1. /\ pcP' = "read" /\ i' = 0 /\ journal' = journal /\ replay' = replay /\ applied' = <<>> /\ gw' = NewGateway
  BY DEF NewSession, storage
<1>2. journal \in Seq(Nat) /\ Len(journal) = 0 /\ replay = NotReplayed
  BY DEF JournalInv
<1>3. Replays([n \in {0} |-> NewGateway])'
  BY <1>1, <1>2 DEF Replays, NotReplayed
<1> QED BY <1>1, <1>2, <1>3 DEF JournalInv

LEMMA JournalWritten ==
  ASSUME ControlInv, JournalInv, Producer
  PROVE  JournalInv'
<1>1. /\ UNCHANGED <<feed, session, applied, gw, replay>> /\ session # "generate"
      /\ Stamps \/ Hands \/ Writes
  BY ProducerSteps DEF ControlInv, feedVars, engine
<1>2. session # "hash" => \E g : Replays(g)'
  <2> SUFFICES ASSUME session # "hash" PROVE \E g : Replays(g)'
    OBVIOUS
  <2>1. PICK g : Replays(g)
    BY DEF JournalInv
  <2>2. Replays(g)'
    BY <1>1, <2>1, ReplaysSame
  <2> QED BY <2>2
<1>3. i \in Nat /\ journal \in Seq(Nat)
  BY FeedEngineAssumption DEF ControlInv, ProducerInv, JournalInv
<1>4. CASE Stamps
  BY <1>1, <1>2, <1>4 DEF Stamps, StampEntry, Reading, storage, JournalInv
<1>5. CASE Hands
  BY <1>1, <1>2, <1>5 DEF Hands, HandOver, JournalInv
<1>6. CASE Writes
  <2>1. /\ session = "journal" /\ pcP = "stamped" /\ pcP' = "journalled" /\ i' = i
        /\ journal' = Append(journal, i + 1) /\ Len(journal) = i
    BY <1>6 DEF Writes, AppendFrame, JournalInv
  <2>2. /\ journal' \in Seq(Nat) /\ Len(journal') = i + 1 /\ journal'[i + 1] = i + 1
        /\ \A n \in 1 .. i : journal'[n] = journal[n]
    BY <1>3, <2>1
  <2>3. \A n \in 1 .. i + 1 : journal'[n] = n
    <3>1. \A n \in 1 .. i + 1 : n \in 1 .. i \/ n = i + 1
      BY <1>3
    <3> QED BY <2>1, <2>2, <3>1 DEF JournalInv
  <2> QED BY <1>1, <1>2, <2>1, <2>2, <2>3 DEF JournalInv
<1> QED BY <1>1, <1>4, <1>5, <1>6

LEMMA JournalApplied ==
  ASSUME ControlInv, GatewayInv, JournalInv, Engine
  PROVE  JournalInv'
<1>1. /\ UNCHANGED <<feedVars, session, producer, storage>> /\ session # "generate"
      /\ Pops \/ Applies \/ Releases \/ Publishes
  BY EngineSteps
<1>2. CASE Releases \/ Publishes
  <2>1. applied' = applied /\ gw' = gw
    BY <1>2 DEF Releases, Publishes
  <2> QED BY <1>1, <2>1, JournalSame DEF feedVars
<1>3. CASE Pops \/ Applies
  <2> SUFFICES ASSUME session # "hash" PROVE \E g : Replays(g)'
    BY <1>1 DEF JournalInv, producer, storage
  <2> DEFINE n == Len(applied)
  <2>1. /\ Polling /\ applied' = Append(applied, Head(chan)) /\ gw' = Apply(gw, Message(Front))
        /\ feed' = feed /\ replay' = replay
    BY <1>1, <1>3 DEF Pops, Applies, feedVars, storage
  <2>2. Head(chan) = n + 1 /\ n \in Nat /\ Len(applied') = n + 1
    BY <2>1, AppliedNext
  <2>3. Front = feed[n + 1]
    BY <2>2 DEF Front
  <2>4. PICK g : Replays(g)
    BY DEF JournalInv
  <2>5. /\ g[0] = NewGateway
        /\ \A k \in 1 .. n : g[k] = Apply(g[k - 1], Message(feed[k]))
        /\ gw = g[n] /\ replay.pos \in 0 .. n /\ replay.gw = g[replay.pos]
    BY <2>4 DEF Replays
  <2>6. PICK e : e = [k \in 0 .. n + 1 |-> IF k = n + 1 THEN gw' ELSE g[k]]
    OBVIOUS
  <2>7. e[n + 1] = gw' /\ \A k \in 0 .. n : e[k] = g[k]
    <3>1. n + 1 \in 0 .. n + 1 /\ \A k \in 0 .. n : k \in 0 .. n + 1 /\ k # n + 1
      BY <2>2
    <3> QED BY <2>6, <3>1
  <2>8. ASSUME NEW k \in 1 .. n + 1 PROVE e[k] = Apply(e[k - 1], Message(feed[k]))
    <3>1. CASE k = n + 1
      <4>1. k - 1 = n /\ n \in 0 .. n
        BY <2>2, <3>1
      <4> QED BY <2>1, <2>3, <2>5, <2>7, <3>1, <4>1
    <3>2. CASE k # n + 1
      <4>1. k \in 1 .. n /\ k \in 0 .. n /\ k - 1 \in 0 .. n
        BY <2>2, <3>2
      <4> QED BY <2>5, <2>7, <4>1
    <3> QED BY <3>1, <3>2
  <2>9. e[0] = NewGateway /\ replay.pos \in 0 .. n + 1 /\ replay.gw = e[replay.pos]
    <3>1. 0 \in 0 .. n /\ \A k \in 0 .. n : k \in 0 .. n + 1
      BY <2>2
    <3> QED BY <2>5, <2>7, <3>1
  <2> HIDE DEF n
  <2>10. Replays(e)'
    BY <2>1, <2>2, <2>7, <2>8, <2>9 DEF Replays
  <2> QED BY <2>10
<1> QED BY <1>1, <1>2, <1>3

LEMMA JournalReplayed ==
  ASSUME ControlInv, GatewayInv, JournalInv, ReplayFrame
  PROVE  JournalInv'
<1>1. /\ session = "journal" /\ Joined /\ replay.pos < Len(journal)
      /\ UNCHANGED <<feed, session, i, pcP, applied, gw, journal>>
      /\ replay' = [pos |-> replay.pos + 1, gw |-> Apply(replay.gw, Message(feed[journal[replay.pos + 1]]))]
  BY DEF ReplayFrame, feedVars, producer, engine, GatewaySink
<1>2. Len(applied) = NMsgs /\ pcP = "read" /\ i = NMsgs /\ NMsgs \in Nat /\ Len(journal) = NMsgs
  BY <1>1, JoinedIsIdle, FeedEngineAssumption DEF JournalInv, Joined
<1>3. PICK g : Replays(g)
  BY <1>1 DEF JournalInv
<1> DEFINE p == replay.pos
<1>4. p \in Nat /\ p < NMsgs /\ replay.gw = g[p]
  BY <1>1, <1>2, <1>3 DEF Replays
<1>5. p + 1 \in 1 .. NMsgs /\ (p + 1) - 1 = p /\ p + 1 \in 0 .. NMsgs
  BY <1>2, <1>4
<1>6. journal[p + 1] = p + 1
  BY <1>2, <1>5 DEF JournalInv
<1>7. replay'.pos = p + 1 /\ replay'.gw = Apply(g[p], Message(feed[p + 1]))
  BY <1>1, <1>4, <1>6
<1>8. g[p + 1] = Apply(g[p], Message(feed[p + 1]))
  BY <1>2, <1>3, <1>5 DEF Replays
<1> HIDE DEF p
<1>9. Replays(g)'
  BY <1>1, <1>2, <1>3, <1>5, <1>7, <1>8 DEF Replays
<1> QED BY <1>1, <1>9 DEF JournalInv

-----------------------------------------------------------------------------
(* A session's invariant *)

SessionInv == ControlInv /\ DrainInv /\ GatewayInv /\ JournalInv

LEMMA SessionInit == Init => SessionInv
BY ControlInit, DrainInit, GatewayInit, JournalInit DEF SessionInv

\* A session starts with the channel empty, the one before it over.
LEMMA StartsEmpty ==
  ASSUME SessionInv, NEW name, NewSession(name), Start \/ SecondSession
  PROVE  /\ chan = <<>> /\ Len(feed) = NMsgs
         /\ session \notin {"hash", "journal"}
<1>1. CASE Start
  <2>1. session = "generate" /\ Len(feed) = NMsgs
    BY <1>1 DEF Start
  <2>2. i = 0 /\ Len(applied) \in Nat /\ Len(applied) <= 0
    BY <2>1 DEF SessionInv, ControlInv, ProducerInv, EngineInv
  <2>3. pcE = "poll" /\ Popped = 0 /\ chan \in Seq(Nat) /\ Len(chan) = 0
    BY <2>2 DEF SessionInv, ControlInv, EngineInv, Popped
  <2>4. chan = <<>>
    BY <2>3
  <2> QED BY <2>1, <2>4
<1>2. CASE SecondSession
  <2>1. Joined /\ session \in FirstSessions
    BY <1>2, Sessions DEF SessionOver
  <2>2. chan = <<>>
    BY <2>1, JoinedIsIdle DEF SessionInv
  <2> QED BY <2>1, <2>2 DEF SessionInv, ControlInv, ProducerInv, FirstSessions
<1> QED BY <1>1, <1>2

LEMMA SessionNewSession ==
  ASSUME SessionInv, Start \/ SecondSession
  PROVE  SessionInv'
<1>1. PICK name \in FirstSessions \union SecondSessions : NewSession(name)
  BY Sessions DEF Start
<1>2. chan = <<>> /\ Len(feed) = NMsgs /\ session \notin {"hash", "journal"}
  BY <1>1, StartsEmpty
<1>3. ControlInv'
  BY <1>1, <1>2, ControlNewSession
<1>4. DrainInv'
  BY <1>1, DrainNewSession DEF SessionInv
<1>5. GatewayInv'
  BY <1>1, GatewayNewSession DEF SessionInv
<1>6. JournalInv'
  BY <1>1, <1>2, JournalNewSession DEF SessionInv
<1> QED BY <1>3, <1>4, <1>5, <1>6 DEF SessionInv

LEMMA SessionGenerate ==
  ASSUME SessionInv, Generate
  PROVE  SessionInv'
<1>1. /\ session = "generate"
      /\ UNCHANGED <<session, producer, storage, signals, applied, gw, done, i>>
  BY DEF Generate, engine, producer
<1>2. Len(applied) = 0
  BY <1>1, FeedEngineAssumption DEF SessionInv, ControlInv, ProducerInv, EngineInv
<1>3. ControlInv'
  BY ControlGenerate DEF SessionInv
<1>4. DrainInv'
  BY <1>1, DrainSame DEF SessionInv, Joined
<1>5. GatewayInv'
  BY GatewayGenerate DEF SessionInv
<1>6. JournalInv'
  BY <1>1, <1>2, JournalSame DEF SessionInv
<1> QED BY <1>3, <1>4, <1>5, <1>6 DEF SessionInv

LEMMA SessionProducer ==
  ASSUME SessionInv, Producer
  PROVE  SessionInv'
<1>1. ControlInv /\ DrainInv /\ GatewayInv /\ JournalInv /\ ProducerInv
  BY DEF SessionInv, ControlInv
<1>2. /\ UNCHANGED <<feedVars, session, engine, signals>>
      /\ Stamps \/ Hands \/ Writes
  BY <1>1, ProducerSteps
<1>3. ~Joined
  BY <1>1, <1>2, JoinedIsIdle
     DEF Stamps, StampEntry, Reading, Hands, Writes, AppendFrame, Joined, ProducerInv
<1>4. ControlInv' /\ JournalInv'
  BY <1>1, ControlProducer, JournalWritten
<1>5. DrainInv'
  BY <1>1, <1>2, <1>3, DrainSame
<1>6. GatewayInv'
  BY <1>1, <1>2, GatewaySame DEF engine
<1> QED BY <1>4, <1>5, <1>6 DEF SessionInv

LEMMA SessionEngine ==
  ASSUME SessionInv, Engine
  PROVE  SessionInv'
BY ControlEngine, DrainEngine, GatewayEngine, JournalApplied DEF SessionInv

LEMMA SessionDrain ==
  ASSUME SessionInv, Drain
  PROVE  SessionInv'
<1>1. UNCHANGED <<feedVars, session, producer, chan, t0, done, pcE, applied, gw, samples, storage, feed>>
  BY DEF Drain, engine, feedVars
<1>2. ControlInv'
  BY <1>1, ControlSame DEF SessionInv
<1>3. DrainInv'
  BY DrainDrain DEF SessionInv
<1>4. GatewayInv'
  BY <1>1, GatewaySame DEF SessionInv
<1>5. JournalInv'
  BY <1>1, JournalSame DEF SessionInv
<1> QED BY <1>2, <1>3, <1>4, <1>5 DEF SessionInv

LEMMA SessionReplay ==
  ASSUME SessionInv, ReplayFrame
  PROVE  SessionInv'
<1>1. UNCHANGED <<feedVars, session, producer, chan, t0, done, pcE, applied, gw, samples, signals, feed, i>>
  BY DEF ReplayFrame, engine, producer, feedVars
<1>2. ControlInv'
  BY <1>1, ControlSame DEF SessionInv
<1>3. DrainInv'
  BY <1>1, DrainSame DEF SessionInv, Joined
<1>4. GatewayInv'
  BY <1>1, GatewaySame DEF SessionInv
<1>5. JournalInv'
  BY JournalReplayed DEF SessionInv
<1> QED BY <1>2, <1>3, <1>4, <1>5 DEF SessionInv

LEMMA SessionStutter ==
  ASSUME SessionInv, UNCHANGED vars
  PROVE  SessionInv'
<1>1. UNCHANGED <<feedVars, session, producer, chan, t0, done, pcE, applied, gw, samples, signals, storage, feed, i>>
  BY DEF vars, engine, producer, feedVars
<1>2. ControlInv'
  BY <1>1, ControlSame DEF SessionInv
<1>3. DrainInv'
  BY <1>1, DrainSame DEF SessionInv, Joined
<1>4. GatewayInv'
  BY <1>1, GatewaySame DEF SessionInv
<1>5. JournalInv'
  BY <1>1, JournalSame DEF SessionInv
<1> QED BY <1>2, <1>3, <1>4, <1>5 DEF SessionInv

LEMMA SessionStep == SessionInv /\ [Next]_vars => SessionInv'
<1> SUFFICES ASSUME SessionInv, [Next]_vars PROVE SessionInv'
  OBVIOUS
<1> QED BY SessionNewSession, SessionGenerate, SessionProducer, SessionEngine, SessionDrain,
           SessionReplay, SessionStutter DEF Next, Terminated

LEMMA Session == Spec => []SessionInv
BY SessionInit, SessionStep, PTL DEF Spec

-----------------------------------------------------------------------------
(* What a session promises *)

\* The k-th frame applied is the k-th of the feed, and every sample reads a
\* stamp this session's producer wrote (bench_itch_pipeline.cpp:95-96).
THEOREM SamplesArePaired == Spec => []SamplesPaired
<1>1. SessionInv => SamplesPaired
  BY DEF SessionInv, ControlInv, EngineInv, SamplesPaired
<1> QED BY <1>1, Session, PTL

\* The thread that drains the signals leaves none behind: the engine, which
\* publishes them, was through when it saw stop (bench_signals.cpp).
THEOREM SignalsDrained == Spec => []DrainLeavesNothing
<1>1. SessionInv => DrainLeavesNothing
  <2> SUFFICES ASSUME SessionInv, pcD = "left" PROVE consumed = published
    BY DEF DrainLeavesNothing
  <2>1. updates = <<>> /\ published = consumed + Len(updates) /\ consumed \in Nat
    BY DEF SessionInv, DrainInv
  <2> QED BY <2>1
<1> QED BY <1>1, Session, PTL

\* The journal holds the frames applied, in order, and replayed into a fresh
\* gateway it ends in the live gateway's state (bench_journal.cpp:186).
THEOREM ReplayMatches == Spec => []ReplayDeterministic
<1>1. SessionInv => ReplayDeterministic
  <2> SUFFICES ASSUME SessionInv, session = "journal" PROVE ReplayDeterministic
    BY DEF ReplayDeterministic
  <2>1. ControlInv /\ GatewayInv /\ JournalInv /\ ProducerInv /\ EngineInv /\ i \in Nat
    BY FeedEngineAssumption DEF SessionInv, ControlInv, ProducerInv
  <2>2. Len(applied) \in Nat /\ Len(applied) <= Len(journal)
    BY <2>1 DEF EngineInv, JournalInv
  <2>3. ASSUME NEW k \in 1 .. Len(applied) PROVE k <= Len(journal) /\ journal[k] = applied[k]
    <3>1. k \in 1 .. Len(journal)
      BY <2>1, <2>2 DEF JournalInv
    <3> QED BY <2>1, <3>1 DEF EngineInv, JournalInv
  <2>4. ASSUME Over PROVE replay.gw = gw
    <3>1. Joined /\ replay.pos = Len(journal)
      BY <2>4 DEF Over, SessionOver
    <3>2. Len(applied) = NMsgs /\ Len(journal) = NMsgs
      BY <2>1, <3>1, JoinedIsIdle DEF JournalInv, Joined
    <3> QED BY <2>1, <3>1, <3>2 DEF JournalInv, Replays
  <2> QED BY <2>3, <2>4 DEF ReplayDeterministic
<1> QED BY <1>1, Session, PTL

\* A gateway that knows every order by its reference has no orphan.
LEMMA DenseHasNone ==
  ASSUME GatewayInv, Dense(gw), Len(applied) \in 0 .. Len(feed)
  PROVE  Orphans(gw) = {}
<1>1. PICK h : History(h) /\ Agrees(gw, h[Len(applied)])
  BY DEF GatewayInv
<1>2. /\ h[Len(applied)].adds \in Nat /\ h[Len(applied)].adds <= NMsgs
      /\ Len(gw.book) = h[Len(applied)].adds
  <2>1. Ledger(h[Len(applied)]) /\ h[Len(applied)].adds <= Len(applied) /\ Agrees(gw, h[Len(applied)])
    BY <1>1 DEF History
  <2>2. h[Len(applied)].adds \in Nat /\ Len(gw.book) = h[Len(applied)].adds
    BY <2>1 DEF Ledger, Ledgers, Agrees
  <2> QED BY <2>1, <2>2, FeedEngineAssumption DEF GatewayInv
<1>3. \A id \in 1 .. Len(gw.book) : id \in Refs
  BY <1>2, FeedEngineAssumption DEF Refs
<1> QED BY <1>3 DEF Orphans, Dense

\* An order without a reference stays, and only a gateway at its load cap makes
\* one: HashGateway's insert was refused (bench_flat_hash.cpp).
THEOREM OrphansForever == Spec => OrphansStay
<1> DEFINE Stay == [/\ Orphans(gw) \subseteq Orphans(gw')
                    /\ Orphans(gw') # Orphans(gw) => Cardinality(Held(gw)) >= LoadCap]_gw
<1>1. SessionInv /\ [Next]_vars => Stay
  <2> SUFFICES ASSUME SessionInv, [Next]_vars, gw' # gw PROVE Stay
    OBVIOUS
  <2>1. CASE Engine
    BY <2>1, GatewayEngine DEF SessionInv
  <2>2. CASE Start \/ SecondSession
    <3>1. PICK name : NewSession(name)
      BY <2>2, Sessions DEF Start
    <3>2. Dense(gw) /\ Len(applied) \in 0 .. Len(feed)
      BY <2>2, <3>1, StartsEmpty, Within DEF SessionInv, GatewayInv
    <3>3. gw' = NewGateway /\ Orphans(gw) = {}
      BY <3>1, <3>2, DenseHasNone DEF NewSession, SessionInv
    <3> QED BY <3>3, Fresh
  <2>3. CASE Generate \/ Drain \/ ReplayFrame \/ Terminated \/ UNCHANGED vars
    BY <2>3 DEF Generate, Drain, ReplayFrame, Terminated, engine, vars
  <2>4. CASE Producer
    BY <2>4 DEF Producer, engine
  <2> QED BY <2>1, <2>2, <2>3, <2>4 DEF Next
<1> QED BY <1>1, Session, PTL DEF Spec, OrphansStay

-----------------------------------------------------------------------------
(* The two ends of a session *)

\* The frames ahead of the engine are those past the last applied.
LEMMA AheadIs ==
  ASSUME ControlInv, GatewayInv
  PROVE  Ahead = Len(applied) + 1 .. Len(feed)
<1>1. Len(applied) \in 0 .. Len(feed) /\ Len(feed) \in Nat /\ \A n \in 1 .. Len(applied) : applied[n] = n
  BY Within DEF ControlInv, EngineInv
<1>2. {applied[n] : n \in 1 .. Len(applied)} = 1 .. Len(applied)
  BY <1>1
<1> QED BY <1>1, <1>2 DEF Ahead

\* No frame from n + 1 on concerns r: the generator leaves it alone.
LEMMA LotsStay ==
  ASSUME NEW h, History(h), feed \in Seq(Frames), Len(feed) <= NMsgs,
         NEW n \in 0 .. Len(feed), NEW r \in Refs,
         \A k \in n + 1 .. Len(feed) : feed[k].ref # r
  PROVE  h[Len(feed)].lots[r] = h[n].lots[r]
<1> DEFINE N == Len(feed)
           S == {k \in n .. N : h[k].lots[r] = h[n].lots[r]}
<1>1. N \in Nat /\ n \in Nat /\ n <= N /\ n \in S
  OBVIOUS
<1>2. ASSUME NEW k \in n .. N, k \in S, k + 1 <= N PROVE k + 1 \in S
  <2>1. k + 1 \in 1 .. N /\ k \in 0 .. N /\ (k + 1) - 1 = k /\ k + 1 \in n + 1 .. N /\ k + 1 \in n .. N
    BY <1>1, <1>2
  <2>2. Legal(h[k], feed[k + 1]) /\ h[k + 1] = Entered(h[k], feed[k + 1]) /\ Ledger(h[k])
    BY <2>1 DEF History
  <2>3. feed[k + 1] \in Frames /\ feed[k + 1].ref # r
    BY <2>1
  <2>4. h[k].lots \in [Refs -> Nat]
    BY <2>2 DEF Ledger, Ledgers
  <2>5. Entered(h[k], feed[k + 1]).lots[r] = h[k].lots[r]
    BY <2>3, <2>4 DEF Entered
  <2> QED BY <1>2, <2>1, <2>2, <2>5
<1>3. N \in n .. N
  BY <1>1
<1> HIDE DEF N, S
<1>4. n .. N \subseteq S
  BY <1>1, <1>2, Upward
<1> QED BY <1>3, <1>4 DEF S, N

\* The generator's executions past n are those of the frames past n.
LEMMA CountsExecutions ==
  ASSUME NEW h, History(h), feed \in Seq(Frames), NEW n \in 0 .. Len(feed)
  PROVE  h[Len(feed)].execs = h[n].execs + Cardinality({k \in n + 1 .. Len(feed) : feed[k].kind = "E"})
<1> DEFINE N == Len(feed)
           Execs(m) == {k \in n + 1 .. m : feed[k].kind = "E"}
           S == {m \in n .. N : h[m].execs = h[n].execs + Cardinality(Execs(m))}
<1>1. N \in Nat /\ n \in Nat /\ n <= N
  OBVIOUS
<1>2. \A m \in 0 .. N : h[m].execs \in Nat
  BY DEF History, Ledger, Ledgers
<1>3. n \in S
  <2>1. Execs(n) = {} /\ h[n].execs \in Nat
    BY <1>1, <1>2
  <2>2. Cardinality(Execs(n)) = 0
    BY <2>1, FS_EmptySet
  <2>3. h[n].execs = h[n].execs + Cardinality(Execs(n)) /\ n \in n .. N
    BY <1>1, <2>1, <2>2
  <2> QED BY <2>3
<1>4. ASSUME NEW m \in n .. N PROVE IsFiniteSet(Execs(m)) /\ Cardinality(Execs(m)) \in Nat
  <2>1. IsFiniteSet(n + 1 .. m) /\ Execs(m) \subseteq n + 1 .. m
    BY <1>1, FS_Interval
  <2>2. IsFiniteSet(Execs(m))
    BY <2>1, FS_Subset
  <2> QED BY <2>2, FS_CardinalityType
<1>5. ASSUME NEW m \in n .. N, m \in S, m + 1 <= N PROVE m + 1 \in S
  <2>1. m + 1 \in 1 .. N /\ m \in 0 .. N /\ (m + 1) - 1 = m /\ m + 1 \in n .. N /\ m + 1 \in 0 .. N /\ m \in Nat
    BY <1>1, <1>5
  <2>2. h[m + 1] = Entered(h[m], feed[m + 1])
    BY <2>1 DEF History
  <2>3. h[m + 1].execs = h[m].execs + (IF feed[m + 1].kind = "E" THEN 1 ELSE 0)
    BY <2>2 DEF Entered
  <2>4. CASE feed[m + 1].kind = "E"
    <3>1. Execs(m + 1) = Execs(m) \union {m + 1} /\ m + 1 \notin Execs(m)
      BY <1>1, <2>1, <2>4
    <3>2. Cardinality(Execs(m + 1)) = Cardinality(Execs(m)) + 1
      BY <1>4, <3>1, FS_AddElement
    <3>3. h[m].execs = h[n].execs + Cardinality(Execs(m)) /\ Cardinality(Execs(m)) \in Nat /\ h[n].execs \in Nat
      BY <1>1, <1>2, <1>4, <1>5
    <3>4. h[m + 1].execs = h[n].execs + Cardinality(Execs(m + 1))
      <4> HIDE DEF Execs
      <4> QED BY <2>3, <2>4, <3>2, <3>3
    <3> QED BY <2>1, <3>4
  <2>5. CASE feed[m + 1].kind # "E"
    <3>1. Execs(m + 1) = Execs(m)
      BY <1>1, <2>1, <2>5
    <3> HIDE DEF Execs
    <3> QED BY <1>1, <1>2, <1>4, <1>5, <2>1, <2>3, <2>5, <3>1
  <2> QED BY <2>4, <2>5
<1>6. N \in n .. N
  BY <1>1
<1>7. n .. N \subseteq S
  <2> HIDE DEF N, S, Execs
  <2> QED BY <1>1, <1>3, <1>5, Upward
<1> QED BY <1>6, <1>7

\* What the gateway has open under a reference is what the generator had.
LEMMA OpenAgrees ==
  ASSUME NEW s, Agrees(gw, s), Ledger(s), s.adds <= NMsgs, Orphans(gw) = {}, NEW r \in Refs
  PROVE  OpenLots(r) = s.lots[r]
<1>1. s.adds \in Nat /\ gw.refs[r] \in {0, r} /\ r \in Nat /\ r > 0
  BY FeedEngineAssumption DEF Ledger, Ledgers, Agrees, Refs
<1>2. CASE r > s.adds
  BY <1>1, <1>2 DEF Agrees, Ledger, OpenLots, Open
<1>3. CASE r <= s.adds
  <2>1. r \in 1 .. s.adds
    BY <1>1, <1>3
  <2>2. CASE gw.refs[r] = r
    BY <1>1, <2>1, <2>2 DEF Agrees, OpenLots, Open
  <2>3. CASE gw.refs[r] = 0
    <3>1. ~ (gw.book[r] > 0)
      BY <1>1, <2>1, <2>3, OrphansAre
    <3> QED BY <1>1, <2>1, <2>3, <3>1 DEF Agrees, OpenLots, Open
  <2> QED BY <1>1, <2>2, <2>3
<1> QED BY <1>1, <1>2, <1>3

\* At every moment the engine's book, trades and traded lots are the
\* generator's, but for the frames still ahead ("[VERIFIED]",
\* bench_itch_pipeline.cpp), unless an order is held under no reference.
THEOREM EndsAgree == Spec => []EnginesAgree
<1>1. SessionInv => EnginesAgree
  <2> SUFFICES ASSUME SessionInv, Orphans(gw) = {}
               PROVE  /\ \A r \in Refs : (\A k \in Ahead : feed[k].ref # r) => OpenLots(r) = live[r]
                      /\ gw.trades + Cardinality({k \in Ahead : feed[k].kind = "E"}) = st.execs
                      /\ Ahead = {} => gw.traded_lots = st.exec_lots
    BY DEF EnginesAgree
  <2> DEFINE n == Len(applied)
             N == Len(feed)
  <2>1. /\ n \in 0 .. N /\ N \in Nat /\ N <= NMsgs /\ NMsgs \in Nat
        /\ Ahead = n + 1 .. N /\ feed \in Seq(Frames)
    BY Within, AheadIs DEF SessionInv, GatewayInv
  <2>2. PICK h : History(h) /\ Agrees(gw, h[n])
    BY DEF SessionInv, GatewayInv
  <2>3. /\ Ledger(h[n]) /\ h[n].adds <= NMsgs
        /\ live = h[N].lots /\ st.execs = h[N].execs /\ st.exec_lots = h[N].exec_lots
    <3>1. Ledger(h[n]) /\ h[n].adds <= n
      BY <2>1, <2>2 DEF History
    <3>2. h[n].adds \in Nat
      BY <3>1 DEF Ledger, Ledgers
    <3> QED BY <2>1, <2>2, <3>1, <3>2 DEF History
  <2>4. ASSUME NEW r \in Refs, \A k \in Ahead : feed[k].ref # r PROVE OpenLots(r) = live[r]
    <3>1. h[N].lots[r] = h[n].lots[r]
      BY <2>1, <2>2, <2>4, LotsStay
    <3>2. OpenLots(r) = h[n].lots[r]
      BY <2>2, <2>3, OpenAgrees
    <3> QED BY <2>3, <3>1, <3>2
  <2>5. gw.trades = h[n].execs /\ gw.traded_lots = h[n].exec_lots
    BY <2>2 DEF Agrees
  <2>6. gw.trades + Cardinality({k \in Ahead : feed[k].kind = "E"}) = st.execs
    <3>1. h[N].execs = h[n].execs + Cardinality({k \in n + 1 .. N : feed[k].kind = "E"})
      BY <2>1, <2>2, CountsExecutions
    <3> QED BY <2>1, <2>3, <2>5, <3>1
  <2>7. ASSUME Ahead = {} PROVE gw.traded_lots = st.exec_lots
    <3>1. n = N
      BY <2>1, <2>7
    <3> QED BY <2>3, <2>5, <3>1
  <2> QED BY <2>4, <2>6, <2>7
<1> QED BY <1>1, Session, PTL
=============================================================================
