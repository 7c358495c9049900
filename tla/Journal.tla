------------------------------- MODULE Journal -------------------------------
(***************************************************************************)
(* The journal of src/include/lob/journal.hpp in its place: the feed       *)
(* thread of src/bench/bench_journal.cpp lands a frame in an arena slot,   *)
(* appends it to the journal and only then publishes the slot; the engine  *)
(* applies what was published; the process may stop at any point; a reader *)
(* opens the file, during the run or after it, and parses what the         *)
(* watermark covers.                                                       *)
(*                                                                         *)
(* The mapping is a file of Cap cells, a frame of size n fills n of them,  *)
(* and memcpy writes them in any order.  Pages outlive the process.  The   *)
(* arena is a bounded queue.                                               *)
(***************************************************************************)
EXTENDS Integers, Sequences

CONSTANTS Cap,          \* data_capacity
          Sizes,        \* lengths of frames, in cells
          ArenaCap,
          MaxFrames,    \* bound: frames on the wire
          Blank,        \* a cell never written
          Torn          \* what is parsed out of cells of different frames

Frames == [no : 1 .. MaxFrames, size : Sizes]
Cells  == [frame : Frames, part : Nat]

ASSUME JournalAssumption ==
  /\ Cap \in Nat /\ Sizes \subseteq Nat \ {0} /\ ArenaCap \in Nat \ {0} /\ MaxFrames \in Nat
  /\ Blank \notin Frames /\ Blank \notin Cells /\ Torn \notin Frames

VARIABLES file, committed, dropped,   \* what outlives the process
          off,
          pcF, frame, copied,         \* feed thread: step, frame, its cells copied
          wire,                       \* frames taken off the wire
          arena, applied,             \* published, applied by the engine
          len, cur, replayed          \* reader: its watermark, cursor, frames parsed

mapping == <<file, committed, dropped>>
feeder == <<off, pcF, frame, copied, wire>>
engine == <<arena, applied>>
reader == <<len, cur, replayed>>
vars == <<mapping, feeder, engine, reader>>

\* open: a fresh mapping and its header.
Init ==
  /\ file = [c \in 1 .. Cap |-> Blank] /\ committed = 0 /\ dropped = 0 /\ off = 0
  /\ pcF = "idle" /\ frame = Blank /\ copied = {} /\ wire = 0
  /\ arena = <<>> /\ applied = <<>>
  /\ len = 0 /\ cur = 0 /\ replayed = <<>>

-----------------------------------------------------------------------------
(* The feed thread *)

Fits(n) == off + n <= Cap

\* A frame arrives, lands in a free slot, and append begins.
Land(n) ==
  /\ pcF = "idle" /\ wire < MaxFrames /\ Len(arena) < ArenaCap
  /\ frame' = [no |-> wire + 1, size |-> n]
  /\ wire' = wire + 1
  /\ pcF' = IF Fits(n) THEN "copy" ELSE "drop"
  /\ copied' = {}
  /\ UNCHANGED <<mapping, off, engine, reader>>

\* Mutant: frames are counted instead of bytes.
LostOne == dropped + 1
Lost == dropped + frame.size

AppendDropped ==
  /\ pcF = "drop"
  /\ dropped' = Lost
  /\ pcF' = "publish"
  /\ UNCHANGED <<file, committed, off, frame, copied, wire, engine, reader>>

Copy(part) ==
  /\ pcF = "copy" /\ part \notin copied
  /\ file' = [file EXCEPT ![off + part] = [frame |-> frame, part |-> part]]
  /\ copied' = copied \union {part}
  /\ UNCHANGED <<committed, dropped, off, pcF, frame, wire, engine, reader>>

\* Mutant: the watermark moves while bytes are still missing.
CopiedMost == \A p \in 2 .. frame.size : p \in copied
Copied == \A p \in 1 .. frame.size : p \in copied

\* Mutant: the watermark is stored before the offset advances.
WatermarkBehind == off
Watermark == off + frame.size

Commit ==
  /\ pcF = "copy" /\ Copied
  /\ off' = off + frame.size
  /\ committed' = Watermark
  /\ pcF' = "publish"
  /\ UNCHANGED <<file, dropped, frame, copied, wire, engine, reader>>

Publish ==
  /\ pcF = "publish"
  /\ arena' = Append(arena, frame)
  /\ pcF' = "idle"
  /\ UNCHANGED <<mapping, off, frame, copied, wire, applied, reader>>

-----------------------------------------------------------------------------
(* The engine, the end of the process, a reader *)

Apply ==
  /\ arena # <<>>
  /\ applied' = Append(applied, Head(arena))
  /\ arena' = Tail(arena)
  /\ UNCHANGED <<mapping, feeder, reader>>

Crash ==
  /\ pcF # "dead"
  /\ pcF' = "dead" /\ arena' = <<>>
  /\ UNCHANGED <<mapping, off, frame, copied, wire, applied, reader>>

\* The reader, in a process of its own, opens the file as it is now.
ReplayOpen ==
  /\ len' = committed /\ cur' = 0 /\ replayed' = <<>>
  /\ UNCHANGED <<mapping, feeder, engine>>

WithinWatermark(n) == cur + n <= len

\* The frame at the cursor says its own length; what fills it is not checked.
ReplayNext ==
  /\ WithinWatermark(1)
  /\ LET first == file[cur + 1]
         n == first.frame.size
     IN /\ first # Blank /\ WithinWatermark(n)
        /\ cur' = cur + n
        /\ replayed' = Append(replayed,
             IF \A p \in 1 .. n : file[cur + p] = [frame |-> first.frame, part |-> p]
             THEN first.frame ELSE Torn)
  /\ UNCHANGED <<mapping, feeder, engine, len>>

Feed ==
  \/ \E n \in Sizes : Land(n)
  \/ AppendDropped
  \/ pcF = "copy" /\ \E p \in 1 .. frame.size : Copy(p)
  \/ Commit \/ Publish

Next == Feed \/ Apply \/ Crash \/ ReplayOpen \/ ReplayNext

Spec == Init /\ [][Next]_vars

-----------------------------------------------------------------------------
(* The properties of the journal *)

TypeOK ==
  /\ file \in [1 .. Cap -> {Blank} \union Cells]
  /\ committed \in 0 .. Cap /\ off \in 0 .. Cap /\ dropped \in Nat
  /\ pcF \in {"idle", "copy", "drop", "publish", "dead"}
  /\ frame \in Frames \union {Blank} /\ copied \subseteq Nat /\ wire \in 0 .. MaxFrames
  /\ arena \in Seq(Frames) /\ Len(arena) <= ArenaCap /\ applied \in Seq(Frames)
  /\ len \in 0 .. Cap /\ cur \in 0 .. len /\ replayed \in Seq(Frames \union {Torn})

Prefix(s, t) == Len(s) <= Len(t) /\ \A n \in 1 .. Len(s) : s[n] = t[n]

\* "A valid length-framed prefix -- never a torn final frame" (journal.hpp:44):
\* whenever the reader opened the file, no frame it parses is torn, and it never
\* stops inside a frame.
NeverTorn ==
  /\ \A n \in 1 .. Len(replayed) : replayed[n] # Torn
  /\ cur < len => file[cur + 1] # Blank /\ cur + file[cur + 1].frame.size <= len

\* "PROCESS crashes lose nothing" (journal.hpp:33): a full replay of a journal
\* that dropped nothing covers everything the engine had applied when it stopped.
ReplayCoversEngine ==
  (len = committed /\ cur = len /\ dropped = 0) => Prefix(applied, replayed)

\* A frame that does not fit is dropped, and a shorter one after it journalled, so
\* a journal can have a hole (journal.hpp:141, against "byte-identical copy of the
\* wire stream" at :18).  It is never silent: whenever the feed rests, journalled
\* and dropped bytes add up to the engine's, and while dropped says zero a replay
\* is the stream from its start.
DropsCounted ==
  LET Total[n \in 0 .. Len(applied)] == IF n = 0 THEN 0 ELSE Total[n - 1] + applied[n].size
  IN /\ (pcF = "idle" /\ arena = <<>>) => Total[Len(applied)] = off + dropped
     /\ dropped = 0 => \A n \in 1 .. Len(replayed) : replayed[n].no = n
=============================================================================
