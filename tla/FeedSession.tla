----------------------------- MODULE FeedSession -----------------------------
(***************************************************************************)
(* The programs that run the feed through the engine, two sessions each: a *)
(* producer thread that reads the feed, a ring or an arena, the engine     *)
(* thread that applies every frame to a gateway and samples its latency,   *)
(* and what some sessions add: the signals and the thread that drains      *)
(* them, the journal and its replay into a fresh gateway.                  *)
(*                                                                         *)
(*   free_run, paced   src/bench/bench_itch_pipeline.cpp                   *)
(*   copy, arena       src/bench/bench_zero_copy.cpp                       *)
(*   dense, hash       src/bench/bench_flat_hash.cpp                       *)
(*   bbo, signals      src/bench/bench_signals.cpp                         *)
(*   plain, journal    src/bench/bench_journal.cpp                         *)
(*                                                                         *)
(* A channel is a sequence of positions of the feed that refuses a push    *)
(* when full, which is what SpscRing and ArenaRing are shown to be; an     *)
(* arena keeps its front until it is released.  Pacing is left out: how    *)
(* long a thread waits is any choice of the interleaving.  Stamps are      *)
(* left out but for which session wrote them: t0 outlives the session.     *)
(***************************************************************************)
EXTENDS FeedEngine

CONSTANTS RingCap,      \* of the ring, and of the arena
          UpdateCap     \* of the ring of signals

VARIABLES session,      \* the session running, or "generate"
          i, pcP,       \* producer: frames read, place in its loop
          chan,
          t0,           \* the frames stamped in this session
          done, pcE,    \* engine: frames counted, place in its loop
          applied,      \* the frames applied, in order
          gw,
          samples,      \* per sample: was the stamp it read of this session
          seq, updates, \* signals: changes of the top, updates queued
          published, consumed, pcD,
          journal, replay

producer == <<i, pcP>>
engine == <<done, pcE, applied, gw, samples>>
signals == <<seq, updates, published, consumed, pcD>>
storage == <<journal, replay>>
vars == <<feedVars, session, producer, chan, t0, engine, signals, storage>>

\* The session a program runs first.
FirstSessions == {"free_run", "copy", "dense", "bbo", "plain"}

WithPublisher == {"bbo", "signals"}

NotReplayed == [pos |-> 0, gw |-> NewGateway]

Init ==
  /\ FeedInit
  /\ session = "generate"
  /\ i = 0 /\ pcP = "read" /\ chan = <<>> /\ t0 = {}
  /\ done = 0 /\ pcE = "poll" /\ applied = <<>> /\ gw = NewGateway /\ samples = <<>>
  /\ seq = 0 /\ updates = <<>> /\ published = 0 /\ consumed = 0 /\ pcD = "off"
  /\ journal = <<>> /\ replay = NotReplayed

Generate ==
  /\ session = "generate" /\ generate_feed
  /\ UNCHANGED <<session, producer, chan, t0, engine, signals, storage>>

\* A session has its own threads, gateway, publisher and samples; the ring or
\* the arena is the program's, and so is t0, whose stamps are now old ones.
NewSession(name) ==
  /\ session' = name
  /\ i' = 0 /\ pcP' = "read" /\ t0' = {}
  /\ done' = 0 /\ pcE' = "poll" /\ applied' = <<>> /\ gw' = NewGateway /\ samples' = <<>>
  /\ seq' = 0 /\ updates' = <<>> /\ published' = 0 /\ consumed' = 0
  /\ pcD' = IF name \in WithPublisher THEN "drain" ELSE "off"
  /\ UNCHANGED <<feedVars, chan, storage>>

\* The feed is on disk and mapped.
Start ==
  /\ session = "generate" /\ Len(feed) = NMsgs
  /\ \E name \in FirstSessions : NewSession(name)

-----------------------------------------------------------------------------
(* Steps the producers share *)

Reading == pcP = "read" /\ i < NMsgs

StampEntry ==
  /\ Reading
  /\ t0' = t0 \union {i + 1}
  /\ pcP' = "stamped"
  /\ UNCHANGED <<i, chan, storage>>

\* Hand frame i over, spinning while the channel is full.
HandOver ==
  /\ Len(chan) < RingCap
  /\ chan' = Append(chan, i + 1)
  /\ i' = i + 1 /\ pcP' = "read"

HandOverStamped == pcP = "stamped" /\ HandOver /\ UNCHANGED <<t0, storage>>

(* The producer threads *)

FreeRunProducer == Reading /\ HandOver /\ UNCHANGED <<t0, storage>>

PacedProducer == StampEntry \/ HandOverStamped

CopyProducer  == StampEntry \/ HandOverStamped

ArenaProducer == StampEntry \/ HandOverStamped

RefProducer   == StampEntry \/ HandOverStamped

SignalsProducer == StampEntry \/ HandOverStamped

\* Mutant: the journal has no room for the last frame.
AppendUnlessFull ==
  /\ pcP = "stamped" /\ Len(chan) < RingCap
  /\ journal' = IF Len(journal) + 1 < NMsgs THEN Append(journal, i + 1) ELSE journal
  /\ pcP' = "journalled"
  /\ UNCHANGED <<i, chan, t0, replay>>

\* The frame is in its slot, then in the journal, then the engine's.
AppendFrame ==
  /\ pcP = "stamped" /\ Len(chan) < RingCap
  /\ journal' = Append(journal, i + 1)
  /\ pcP' = "journalled"
  /\ UNCHANGED <<i, chan, t0, replay>>

PublishFrame == pcP = "journalled" /\ HandOver /\ UNCHANGED <<t0, storage>>

JournalProducer ==
  \/ StampEntry
  \/ session = "plain" /\ HandOverStamped
  \/ session = "journal" /\ (AppendFrame \/ PublishFrame)

Producer ==
  /\ \/ session = "free_run" /\ FreeRunProducer
     \/ session = "paced"    /\ PacedProducer
     \/ session = "copy"     /\ CopyProducer
     \/ session = "arena"    /\ ArenaProducer
     \/ session \in {"dense", "hash"} /\ RefProducer
     \/ session \in WithPublisher /\ SignalsProducer
     \/ session \in {"plain", "journal"} /\ JournalProducer
  /\ UNCHANGED <<feedVars, session, engine, signals>>

-----------------------------------------------------------------------------
(* Steps the engine threads share *)

\* Mutant: the sample is filed under the next message.
SampleNext == Append(samples, done + 2 \in t0)
Sample == Append(samples, done + 1 \in t0)

Front == feed[Head(chan)]
Polling == pcE = "poll" /\ done < NMsgs /\ chan # <<>>

\* Pop a message, apply it, sample.
PopApplySample ==
  /\ Polling
  /\ chan' = Tail(chan) /\ applied' = Append(applied, Head(chan))
  /\ gw' = Apply(gw, RingSink(Front))
  /\ samples' = Sample
  /\ done' = done + 1
  /\ UNCHANGED <<pcE, signals>>

\* Decode the frame where it lies, by the gateway's apply.
ApplyInPlace(after) ==
  /\ Polling /\ gw' = after
  /\ applied' = Append(applied, Head(chan))
  /\ pcE' = "applied"
  /\ UNCHANGED <<chan, done, samples, signals>>

\* Mutant: the slot is not given back.
ReleaseForgotten(next) ==
  /\ pcE = "applied"
  /\ chan' = chan
  /\ pcE' = next
  /\ UNCHANGED <<applied, gw>>

ReleaseFront(next) ==
  /\ pcE = "applied"
  /\ chan' = Tail(chan)
  /\ pcE' = next
  /\ UNCHANGED <<applied, gw>>

ReleaseAndSample ==
  /\ ReleaseFront("poll")
  /\ samples' = Sample
  /\ done' = done + 1
  /\ UNCHANGED signals

(* The engine threads *)

FreeRunEngine ==
  /\ Polling
  /\ chan' = Tail(chan) /\ applied' = Append(applied, Head(chan))
  /\ done' = done + 1
  /\ gw' = Apply(gw, RingSink(Front))
  /\ UNCHANGED <<pcE, samples, signals>>

PacedEngine == PopApplySample

CopyEngine == PopApplySample

ArenaEngine == ApplyInPlace(Apply(gw, GatewaySink(Front))) \/ ReleaseAndSample

RefEngine ==
  \/ session = "dense" /\ ApplyInPlace(Apply(gw, Sink(Front)))
  \/ session = "hash"  /\ ApplyInPlace(HashApply(gw, Sink(Front)))
  \/ ReleaseAndSample

\* on_message_applied runs on the released frame's book; the message may have
\* left the top as it was.
PublishTop ==
  \/ /\ seq' = seq + 1
     /\ updates' = IF Len(updates) < UpdateCap THEN Append(updates, seq + 1) ELSE updates
     /\ published' = published + (IF Len(updates) < UpdateCap THEN 1 ELSE 0)
  \/ UNCHANGED <<seq, updates, published>>

SignalsEngine ==
  \/ ApplyInPlace(Apply(gw, GatewaySink(Front)))
  \/ ReleaseFront("released") /\ UNCHANGED <<done, samples, signals>>
  \/ /\ pcE = "released"
     /\ PublishTop
     /\ samples' = Sample /\ done' = done + 1 /\ pcE' = "poll"
     /\ UNCHANGED <<chan, applied, gw, consumed, pcD>>

JournalEngine == ApplyInPlace(Apply(gw, GatewaySink(Front))) \/ ReleaseAndSample

Engine ==
  /\ \/ session = "free_run" /\ FreeRunEngine
     \/ session = "paced"    /\ PacedEngine
     \/ session = "copy"     /\ CopyEngine
     \/ session = "arena"    /\ ArenaEngine
     \/ session \in {"dense", "hash"} /\ RefEngine
     \/ session \in WithPublisher /\ SignalsEngine
     \/ session \in {"plain", "journal"} /\ JournalEngine
  /\ UNCHANGED <<feedVars, session, producer, t0, storage>>

-----------------------------------------------------------------------------
(* The thread that drains the signals: until it sees stop, then until empty *)

Joined == done = NMsgs /\ i = NMsgs

Consume ==
  /\ pcD \in {"drain", "last"} /\ updates # <<>>
  /\ consumed' = consumed + 1
  /\ updates' = Tail(updates)
  /\ UNCHANGED <<seq, published, pcD>>

\* main joins the producer before it sets stop.
SeeStop ==
  /\ pcD = "drain" /\ Joined
  /\ pcD' = "last"
  /\ UNCHANGED <<seq, updates, published, consumed>>

\* Mutant: the thread leaves when it sees stop.
LeaveAtOnce ==
  /\ pcD = "last"
  /\ pcD' = "left"
  /\ UNCHANGED <<seq, updates, published, consumed>>

DrainEmpty ==
  /\ pcD = "last" /\ updates = <<>>
  /\ pcD' = "left"
  /\ UNCHANGED <<seq, updates, published, consumed>>

Drain ==
  /\ Consume \/ SeeStop \/ DrainEmpty
  /\ UNCHANGED <<feedVars, session, producer, chan, t0, engine, storage>>

(* The replay of the journal, once the session is over *)

ReplayFrame ==
  /\ session = "journal" /\ Joined /\ replay.pos < Len(journal)
  /\ replay' = [pos |-> replay.pos + 1,
                gw |-> Apply(replay.gw, GatewaySink(feed[journal[replay.pos + 1]]))]
  /\ UNCHANGED <<feedVars, session, producer, chan, t0, engine, signals, journal>>

SessionOver ==
  /\ Joined
  /\ session \in WithPublisher => pcD = "left"
  /\ session = "journal" => replay.pos = Len(journal)

(* main goes on to its second session *)

PipelineMain == session = "free_run" /\ NewSession("paced")
ZeroCopyMain == session = "copy"     /\ NewSession("arena")
FlatHashMain == session = "dense"    /\ NewSession("hash")
SignalsMain  == session = "bbo"      /\ NewSession("signals")
JournalMain  == session = "plain"    /\ NewSession("journal")

SecondSession ==
  /\ SessionOver
  /\ PipelineMain \/ ZeroCopyMain \/ FlatHashMain \/ SignalsMain \/ JournalMain

Over == SessionOver /\ session \notin FirstSessions

Terminated == Over /\ UNCHANGED vars

Next == Generate \/ Start \/ Producer \/ Engine \/ Drain \/ ReplayFrame \/ SecondSession \/ Terminated

\* Every thread runs on a core of its own and spins, never sleeps.
Spec == /\ Init /\ [][Next]_vars
        /\ WF_vars(Generate) /\ WF_vars(Start)
        /\ WF_vars(Producer) /\ WF_vars(Engine) /\ WF_vars(Drain) /\ WF_vars(ReplayFrame)
        /\ WF_vars(SecondSession)

-----------------------------------------------------------------------------
(* The properties of a session *)

\* Frames still ahead of the engine, in the channel or unread.
Ahead == {k \in 1 .. Len(feed) : k \notin {applied[n] : n \in 1 .. Len(applied)}}

OpenLots(ref) == Open(gw, gw.refs[ref])

\* An order the engine holds under no reference: insert was refused.
Orphans(g) == {id \in 1 .. Len(g.book) : g.book[id] > 0 /\ \A r \in Refs : g.refs[r] # id}

\* The two ends agree at every moment, on every path through rings and arenas:
\* an order that no frame still ahead concerns has the lots the generator left
\* it, and the trades and lots counted, plus the executions still ahead, are the
\* generator's ("[VERIFIED]").  A gateway that refused a reference may differ.
EnginesAgree ==
  LET executions == {k \in Ahead : feed[k].kind = "E"}
  IN  Orphans(gw) = {} =>
        /\ \A r \in Refs : (\A k \in Ahead : feed[k].ref # r) => OpenLots(r) = live[r]
        /\ gw.trades + Cardinality(executions) = st.execs
        /\ Ahead = {} => gw.traded_lots = st.exec_lots

\* The hashed gateway keeps the reference of an order that was filled, so the
\* table fills up with dead ones; an order is added without a reference only
\* when it is full, and stays in the book for ever, since no delete finds it.
OrphansStay ==
  [][/\ Orphans(gw) \subseteq Orphans(gw')
     /\ Orphans(gw') # Orphans(gw) => Cardinality(Held(gw)) >= LoadCap]_gw

\* "FIFO ordering makes the consumer's pop count equal the producer's message
\* index" (bench_itch_pipeline.cpp:95-96): the k-th frame applied is the k-th
\* of the feed, and the stamp its sample is computed from was written by this
\* session's producer, not left in t0 by an earlier one.
SamplesPaired ==
  /\ \A k \in 1 .. Len(applied) : applied[k] = k
  /\ \A k \in 1 .. Len(samples) : samples[k]

\* Once the drain thread has left, it has consumed all that was published.
DrainLeavesNothing == pcD = "left" => consumed = published

\* "Business state must match the live session exactly" (bench_journal.cpp:186):
\* at every moment the journal holds the frames the engine has applied, and its
\* replay into a fresh gateway ends in the live gateway's state.
ReplayDeterministic ==
  session = "journal" =>
    /\ \A k \in 1 .. Len(applied) : k <= Len(journal) /\ journal[k] = applied[k]
    /\ Over => replay.gw = gw

\* Both sessions end: nobody waits for a slot or a frame that never comes.
SessionEnds == <>Over
=============================================================================
