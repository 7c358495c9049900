---------------------------- MODULE JournalProofs ----------------------------
(***************************************************************************)
(* Whenever a reader opens the journal it parses whole frames, and a full  *)
(* replay of a journal that dropped nothing covers the engine, for every   *)
(* size of the mapping, every set of frame lengths and any number of       *)
(* frames.  The inductive invariant says that every cell below the         *)
(* watermark is part of a frame that lies below it entirely, that the      *)
(* reader's cursor and watermark are at the starts of frames, and that the *)
(* journal's frames are the ones published under the same number.          *)
(***************************************************************************)
EXTENDS Journal, WellFoundedInduction, TLAPS

(* The inductive invariant *)

Feeding ==
  /\ committed = off
  /\ pcF \in {"copy", "drop", "publish"} =>
       frame \in Frames /\ frame.no = wire /\ Len(arena) < ArenaCap
  /\ pcF = "copy" =>
       /\ off + frame.size <= Cap /\ copied \subseteq 1 .. frame.size
       /\ \A p \in copied : file[off + p] = [frame |-> frame, part |-> p]
  /\ pcF = "dead" => arena = <<>>

\* The frame that cell c belongs to lies below the watermark, whole.
WholeFrame(c) ==
  LET f == file[c].frame
      p == file[c].part
  IN  /\ file[c] \in Cells
      /\ p \in 1 .. f.size /\ c - p >= 0 /\ c - p + f.size <= off
      /\ \A q \in 1 .. f.size : file[c - p + q] = [frame |-> f, part |-> q]

AllWhole == \A c \in 1 .. off : WholeFrame(c)

\* A frame starts behind the first b cells.
Boundary(b) == b <= off /\ (b < off => file[b + 1].part = 1)

Reading ==
  /\ Boundary(len) /\ Boundary(cur)
  /\ \A n \in 1 .. Len(replayed) : \E c \in 1 .. off : replayed[n] = file[c].frame

\* What was published carries the numbers of the wire.
Numbered ==
  /\ pcF = "idle" => Len(applied) + Len(arena) = wire
  /\ pcF \in {"copy", "drop", "publish"} => Len(applied) + Len(arena) = wire - 1
  /\ \A n \in 1 .. Len(applied) : applied[n].no = n
  /\ \A n \in 1 .. Len(arena) : arena[n].no = Len(applied) + n

\* A frame of the journal is the one that was published under its number.
SameFrame(f) ==
  /\ f.no <= wire
  /\ pcF \in {"copy", "drop"} => f.no < wire
  /\ pcF = "publish" /\ f.no = wire => f = frame
  /\ f.no <= Len(applied) => f = applied[f.no]
  /\ f.no > Len(applied) /\ f.no <= Len(applied) + Len(arena) => f = arena[f.no - Len(applied)]

AllSame == \A c \in 1 .. off : SameFrame(file[c].frame)

\* The number of the last frame of the first b cells.
LastNo(b) == IF b = 0 THEN 0 ELSE file[b].frame.no

\* While nothing was dropped the journal's numbers have no gap, it holds all
\* that was published, and the reader has parsed the first of them.
NoHole ==
  dropped = 0 =>
    /\ \A b \in 0 .. off - 1 : file[b + 1].part = 1 => file[b + 1].frame.no = LastNo(b) + 1
    /\ pcF \in {"idle", "publish"} => LastNo(off) = wire
    /\ pcF \in {"copy", "drop"} => LastNo(off) = wire - 1
    /\ Len(applied) + Len(arena) <= LastNo(off)
    /\ LastNo(cur) = Len(replayed)
    /\ \A n \in 1 .. Len(replayed) : replayed[n].no = n

JournalInv == TypeOK /\ Feeding /\ AllWhole /\ Reading /\ Numbered /\ AllSame /\ NoHole
LEMMA JournalInit == Init => JournalInv
<1> SUFFICES ASSUME Init PROVE JournalInv
  OBVIOUS
<1>1. TypeOK
  BY JournalAssumption DEF Init, TypeOK
<1>2. Feeding /\ AllWhole /\ AllSame
  BY DEF Init, Feeding, AllWhole, AllSame
<1>3. Reading /\ Numbered /\ NoHole
  BY DEF Init, Reading, Boundary, Numbered, NoHole, LastNo
<1> QED BY <1>1, <1>2, <1>3 DEF JournalInv

\* The number of the last of the first b cells is a number of the wire.
LEMMA LastNoType ==
  ASSUME JournalInv, NEW b \in 0 .. off
  PROVE  LastNo(b) \in Nat /\ LastNo(b) <= wire
<1> USE DEF JournalInv
<1>1. CASE b = 0
  BY <1>1 DEF LastNo, TypeOK
<1>2. CASE b # 0
  <2>1. b \in 1 .. off
    BY <1>2
  <2>2. file[b] \in Cells /\ file[b].frame.no <= wire
    BY <2>1 DEF AllWhole, WholeFrame, AllSame, SameFrame
  <2> QED BY <1>2, <2>2, JournalAssumption DEF LastNo, Cells, Frames
<1> QED BY <1>1, <1>2

\* The frame in hand.
LEMMA FrameInHand ==
  ASSUME JournalInv, pcF \in {"copy", "drop", "publish"}
  PROVE  frame \in Frames /\ frame.size \in Nat \ {0} /\ frame.no = wire
BY JournalAssumption DEF JournalInv, Feeding, Frames

\* Where a reader stands on a boundary below its watermark, a whole frame
\* follows that ends before it.
LEMMA WholeFrameFollows ==
  ASSUME JournalInv, NEW b \in 0 .. off, NEW e \in 0 .. off, Boundary(b), Boundary(e), b < e
  PROVE  /\ file[b + 1] \in Cells /\ file[b + 1].part = 1
         /\ file[b + 1].frame.size \in Nat \ {0}
         /\ b + file[b + 1].frame.size <= e
         /\ \A q \in 1 .. file[b + 1].frame.size :
              file[b + q] = [frame |-> file[b + 1].frame, part |-> q]
<1> USE DEF JournalInv
<1> DEFINE f == file[b + 1].frame
<1>1. b + 1 \in 1 .. off /\ file[b + 1].part = 1
  BY DEF Boundary, TypeOK
<1>2. WholeFrame(b + 1)
  BY <1>1 DEF AllWhole
<1>3. file[b + 1] \in Cells /\ f \in Frames /\ f.size \in Nat \ {0}
  BY <1>2, JournalAssumption DEF WholeFrame, Cells, Frames
<1>4. b + 1 - 1 = b
  BY <1>1 DEF TypeOK
<1>5. b + f.size <= off /\ \A q \in 1 .. f.size : file[b + q] = [frame |-> f, part |-> q]
  BY <1>1, <1>2, <1>3, <1>4 DEF WholeFrame
<1>6. b + f.size <= e
  <2>0. off \in Nat /\ b \in Nat /\ e \in Nat /\ f.size \in Nat
    BY <1>3 DEF TypeOK
  <2> SUFFICES ASSUME b + f.size > e PROVE FALSE
    BY <2>0
  <2>1. e < off /\ e - b + 1 \in 1 .. f.size /\ b + (e - b + 1) = e + 1
    BY <2>0, <1>5
  <2>2. file[e + 1] = [frame |-> f, part |-> e - b + 1]
    BY <1>5, <2>1
  <2>3. file[e + 1].part = 1
    BY <2>1 DEF Boundary
  <2> QED BY <2>0, <2>2, <2>3
<1> QED BY <1>1, <1>3, <1>5, <1>6

-----------------------------------------------------------------------------
(* Every step keeps the invariant *)

LEMMA TypeStep == JournalInv /\ [Next]_vars => TypeOK'
<1> SUFFICES ASSUME JournalInv, [Next]_vars PROVE TypeOK'
  OBVIOUS
<1> USE JournalAssumption DEF JournalInv, mapping, feeder, engine, reader
<1>1. CASE UNCHANGED vars
  BY <1>1 DEF vars, TypeOK
<1>2. ASSUME NEW n \in Sizes, Land(n) PROVE TypeOK'
  BY <1>2 DEF Land, TypeOK, Frames
<1>3. CASE AppendDropped
  <2>1. frame.size \in Nat
    BY <1>3, FrameInHand DEF AppendDropped
  <2> QED BY <1>3, <2>1 DEF AppendDropped, Lost, TypeOK
<1>4. ASSUME pcF = "copy", NEW p \in 1 .. frame.size, Copy(p) PROVE TypeOK'
  <2>1. frame \in Frames /\ frame.size \in Nat /\ off + frame.size <= Cap
    BY <1>4 DEF Feeding, Frames
  <2>2. off + p \in 1 .. Cap /\ [frame |-> frame, part |-> p] \in Cells /\ p \in Nat
    BY <1>4, <2>1 DEF TypeOK, Cells
  <2>3. file' \in [1 .. Cap -> {Blank} \union Cells]
    BY <1>4, <2>2 DEF Copy, TypeOK
  <2> QED BY <1>4, <2>2, <2>3 DEF Copy, TypeOK
<1>5. CASE Commit
  <2>1. frame.size \in Nat /\ off + frame.size <= Cap
    BY <1>5, FrameInHand DEF Commit, Feeding
  <2> QED BY <1>5, <2>1 DEF Commit, Watermark, TypeOK
<1>6. CASE Publish
  BY <1>6 DEF Publish, TypeOK, Feeding
<1>7. CASE Apply
  BY <1>7 DEF Apply, TypeOK
<1>8. CASE Crash
  BY <1>8 DEF Crash, TypeOK
<1>9. CASE ReplayOpen
  BY <1>9 DEF ReplayOpen, TypeOK
<1>10. CASE ReplayNext
  <2>1. cur \in 0 .. off /\ len \in 0 .. off /\ cur < len
    BY <1>10 DEF ReplayNext, WithinWatermark, TypeOK, Reading, Boundary
  <2>2. file[cur + 1] \in Cells /\ file[cur + 1].frame.size \in Nat
    BY <2>1, WholeFrameFollows DEF Reading
  <2>3. file[cur + 1].frame \in Frames
    BY <2>2 DEF Cells
  <2>4. replayed' \in Seq(Frames \union {Torn})
    BY <1>10, <2>3 DEF ReplayNext, TypeOK
  <2>5. cur' \in 0 .. len' /\ len' = len
    BY <1>10, <2>1, <2>2 DEF ReplayNext, WithinWatermark
  <2> QED BY <1>10, <2>4, <2>5 DEF ReplayNext, TypeOK
<1> QED BY <1>1, <1>2, <1>3, <1>4, <1>5, <1>6, <1>7, <1>8, <1>9, <1>10 DEF Next, Feed

LEMMA JournalStep == JournalInv /\ [Next]_vars => JournalInv'
<1> SUFFICES ASSUME JournalInv, [Next]_vars PROVE JournalInv'
  OBVIOUS
<1> USE DEF JournalInv, mapping, feeder, engine, reader
<1>0. TypeOK'
  BY TypeStep
<1>1. CASE UNCHANGED vars
  BY <1>0, <1>1 DEF vars, Feeding, AllWhole, WholeFrame, Reading, Boundary, Numbered, AllSame,
                    SameFrame, NoHole, LastNo
<1>2. ASSUME NEW n \in Sizes, Land(n) PROVE JournalInv'
  <2>1. frame' = [no |-> wire + 1, size |-> n] /\ frame' \in Frames /\ wire \in Nat
    BY <1>2, JournalAssumption DEF Land, TypeOK, Frames
  <2>2. Feeding'
    BY <1>2, <2>1, JournalAssumption DEF Land, Fits, Feeding
  <2>3. AllWhole' /\ Reading'
    BY <1>2 DEF Land, AllWhole, WholeFrame, Reading, Boundary
  <2>4. Numbered'
    BY <1>2, <2>1 DEF Land, Numbered
  <2>5. AllSame'
    <3> SUFFICES ASSUME NEW c \in 1 .. off PROVE SameFrame(file[c].frame)'
      BY <1>2 DEF Land, AllSame
    <3>1. SameFrame(file[c].frame) /\ file[c].frame \in Frames
      BY DEF AllSame, AllWhole, WholeFrame, Cells
    <3>2. file[c].frame.no \in Nat
      BY <3>1, JournalAssumption DEF Frames
    <3> QED BY <1>2, <2>1, <3>1, <3>2 DEF Land, SameFrame
  <2>6. NoHole'
    BY <1>2, <2>1 DEF Land, NoHole, LastNo
  <2> QED BY <1>0, <2>2, <2>3, <2>4, <2>5, <2>6
<1>3. CASE AppendDropped
  <2>1. frame.size \in Nat \ {0} /\ dropped \in Nat
    BY <1>3, FrameInHand DEF AppendDropped, TypeOK
  <2>2. Feeding' /\ AllWhole' /\ Reading' /\ Numbered'
    BY <1>3 DEF AppendDropped, Feeding, AllWhole, WholeFrame, Reading, Boundary, Numbered
  <2>3. AllSame'
    <3> SUFFICES ASSUME NEW c \in 1 .. off PROVE SameFrame(file[c].frame)'
      BY <1>3 DEF AppendDropped, AllSame
    <3>1. SameFrame(file[c].frame) /\ file[c].frame \in Frames /\ wire \in Nat
      BY DEF AllSame, AllWhole, WholeFrame, Cells, TypeOK
    <3>2. file[c].frame.no \in Nat
      BY <3>1, JournalAssumption DEF Frames
    <3> QED BY <1>3, <3>1, <3>2 DEF AppendDropped, SameFrame
  <2>4. NoHole'
    BY <1>3, <2>1 DEF AppendDropped, Lost, NoHole
  <2> QED BY <1>0, <2>2, <2>3, <2>4
<1>4. ASSUME pcF = "copy", NEW p \in 1 .. frame.size, Copy(p) PROVE JournalInv'
  <2>1. off \in Nat /\ Cap \in Nat /\ frame.size \in Nat /\ off + frame.size <= Cap
    BY <1>4, FrameInHand, JournalAssumption DEF TypeOK, Feeding
  <2>2. \A c \in 1 .. Cap : c # off + p => file'[c] = file[c]
    BY <1>4 DEF Copy, TypeOK
  <2>3. \A c \in 1 .. off : file'[c] = file[c]
    BY <2>1, <2>2
  <2>4. Feeding'
    <3>1. file'[off + p] = [frame |-> frame, part |-> p]
      BY <1>4, <2>1 DEF Copy, TypeOK
    <3>2. \A q \in copied : file'[off + q] = [frame |-> frame, part |-> q]
      <4> SUFFICES ASSUME NEW q \in copied PROVE file'[off + q] = [frame |-> frame, part |-> q]
        OBVIOUS
      <4>1. q \in 1 .. frame.size /\ off + q \in 1 .. Cap /\ q # p
        BY <1>4, <2>1 DEF Copy, Feeding
      <4>2. off + q # off + p
        BY <2>1, <4>1
      <4> QED BY <1>4, <2>2, <4>1, <4>2 DEF Feeding
    <3> QED BY <1>4, <3>1, <3>2 DEF Copy, Feeding
  <2>5. AllWhole'
    <3> SUFFICES ASSUME NEW c \in 1 .. off PROVE WholeFrame(c)'
      BY <1>4 DEF Copy, AllWhole
    <3>1. WholeFrame(c) /\ file'[c] = file[c] /\ off' = off
      BY <1>4, <2>3 DEF Copy, AllWhole
    <3>2. file[c].frame.size \in Nat
      BY <3>1, JournalAssumption DEF WholeFrame, Cells, Frames
    <3>3. \A q \in 1 .. file[c].frame.size : c - file[c].part + q \in 1 .. off
      BY <2>1, <3>1, <3>2 DEF WholeFrame
    <3> QED BY <2>3, <3>1, <3>3 DEF WholeFrame
  <2>6. Reading'
    <3>1. \A b \in Nat : Boundary(b) => Boundary(b)'
      BY <1>4, <2>1, <2>3 DEF Copy, Boundary
    <3> QED BY <1>4, <2>3, <3>1 DEF Copy, Reading, TypeOK
  <2>7. Numbered'
    BY <1>4 DEF Copy, Numbered
  <2>8. AllSame'
    BY <1>4, <2>3 DEF Copy, AllSame, SameFrame
  <2>9. NoHole'
    <3>1. \A b \in 0 .. off : LastNo(b)' = LastNo(b)
      BY <2>1, <2>3 DEF LastNo
    <3>2. off \in 0 .. off /\ cur \in 0 .. off
      BY <2>1 DEF TypeOK, Reading, Boundary
    <3>3. \A b \in 0 .. off - 1 : file'[b + 1] = file[b + 1] /\ b \in 0 .. off
      BY <2>1, <2>3
    <3> QED BY <1>4, <3>1, <3>2, <3>3 DEF Copy, NoHole
  <2> QED BY <1>0, <2>4, <2>5, <2>6, <2>7, <2>8, <2>9
<1>5. CASE Commit
  <2>1. /\ frame \in Frames /\ frame.size \in Nat \ {0} /\ frame.no = wire /\ off \in Nat
        /\ wire \in Nat /\ off' = off + frame.size /\ file' = file
    BY <1>5, FrameInHand DEF Commit, TypeOK
  <2>2. \A q \in 1 .. frame.size : file[off + q] = [frame |-> frame, part |-> q]
    BY <1>5 DEF Commit, Copied, Feeding
  <2>3. \A c \in off + 1 .. off + frame.size : file[c] = [frame |-> frame, part |-> c - off]
    <3> SUFFICES ASSUME NEW c \in off + 1 .. off + frame.size
                 PROVE  file[c] = [frame |-> frame, part |-> c - off]
      OBVIOUS
    <3>1. c - off \in 1 .. frame.size /\ off + (c - off) = c
      BY <2>1
    <3> QED BY <2>2, <3>1
  <2>4. Feeding' /\ Numbered'
    BY <1>5 DEF Commit, Watermark, Feeding, Numbered
  <2>5. AllWhole'
    <3> SUFFICES ASSUME NEW c \in 1 .. off + frame.size PROVE WholeFrame(c)'
      BY <2>1 DEF AllWhole
    <3>1. CASE c <= off
      <4>1. WholeFrame(c) /\ off <= off'
        BY <2>1, <3>1 DEF AllWhole
      <4>2. file[c].frame.size \in Nat
        BY <4>1, JournalAssumption DEF WholeFrame, Cells, Frames
      <4> QED BY <2>1, <4>1, <4>2 DEF WholeFrame
    <3>2. CASE c > off
      <4>1. file[c] = [frame |-> frame, part |-> c - off] /\ c - off \in 1 .. frame.size
        BY <2>1, <2>3, <3>2
      <4>2. file[c] \in Cells /\ file[c].frame = frame /\ file[c].part = c - off
        BY <2>1, <4>1 DEF Cells
      <4>3. c - (c - off) = off
        BY <2>1
      <4> QED BY <2>1, <2>2, <4>1, <4>2, <4>3 DEF WholeFrame
    <3> QED BY <2>1, <3>1, <3>2
  <2>6. Reading'
    <3>1. file[off + 1].part = 1
      <4>1. 1 \in 1 .. frame.size
        BY <2>1
      <4>2. file[off + 1] = [frame |-> frame, part |-> 1]
        BY <2>2, <4>1
      <4> QED BY <4>2
    <3>2. \A b \in Nat : Boundary(b) => Boundary(b)'
      BY <2>1, <3>1 DEF Boundary
    <3> QED BY <1>5, <2>1, <3>2 DEF Commit, Reading, TypeOK
  <2>7. AllSame'
    <3> SUFFICES ASSUME NEW c \in 1 .. off + frame.size PROVE SameFrame(file[c].frame)'
      BY <2>1 DEF AllSame
    <3>1. CASE c <= off
      <4>1. SameFrame(file[c].frame) /\ file[c].frame \in Frames
        BY <2>1, <3>1 DEF AllSame, AllWhole, WholeFrame, Cells
      <4>2. file[c].frame.no \in Nat /\ file[c].frame.no < wire
        BY <1>5, <4>1, JournalAssumption DEF Frames, SameFrame, Commit
      <4> QED BY <1>5, <2>1, <4>1, <4>2 DEF SameFrame, Commit
    <3>2. CASE c > off
      <4>0. c \in off + 1 .. off + frame.size
        BY <2>1, <3>2
      <4>3. file[c] = [frame |-> frame, part |-> c - off]
        BY <2>3, <4>0
      <4>1. file[c].frame = frame
        BY <4>3
      <4>2. Len(applied) + Len(arena) = wire - 1 /\ Len(applied) \in Nat /\ Len(arena) \in Nat
        BY <1>5 DEF Commit, Numbered, TypeOK
      <4> QED BY <1>5, <2>1, <4>1, <4>2 DEF SameFrame, Commit
    <3> QED BY <2>1, <3>1, <3>2
  <2>8. NoHole'
    <3> SUFFICES ASSUME dropped = 0 PROVE NoHole'
      BY <1>5 DEF Commit, NoHole
    <3>1. LastNo(off) = wire - 1
      BY <1>5 DEF NoHole, Commit
    <3>2. LastNo(off + frame.size) = wire
      <4>1. off + frame.size \in off + 1 .. off + frame.size /\ off + frame.size # 0
        BY <2>1
      <4>2. file[off + frame.size] = [frame |-> frame, part |-> frame.size]
        BY <2>1, <2>2
      <4> QED BY <2>1, <4>1, <4>2 DEF LastNo
    <3>3. \A b \in 0 .. off + frame.size - 1 :
            file[b + 1].part = 1 => file[b + 1].frame.no = LastNo(b) + 1
      <4> SUFFICES ASSUME NEW b \in 0 .. off + frame.size - 1, file[b + 1].part = 1
                   PROVE  file[b + 1].frame.no = LastNo(b) + 1
        OBVIOUS
      <4>1. CASE b < off
        BY <2>1, <4>1 DEF NoHole
      <4>2. CASE b >= off
        <5>1. file[b + 1] = [frame |-> frame, part |-> b + 1 - off]
          BY <2>1, <2>3, <4>2
        <5>2. b = off
          BY <2>1, <5>1
        <5> QED BY <2>1, <3>1, <5>1, <5>2
      <4> QED BY <2>1, <4>1, <4>2
    <3>4. Len(applied) + Len(arena) <= wire
      BY <1>5, <2>1 DEF Commit, Numbered, TypeOK
    <3>5. LastNo(cur)' = LastNo(cur)
      BY <1>5, <2>1 DEF LastNo, Commit
    <3> QED BY <1>5, <2>1, <3>2, <3>3, <3>4, <3>5 DEF NoHole, LastNo, Commit
  <2> QED BY <1>0, <2>4, <2>5, <2>6, <2>7, <2>8
<1>6. CASE Publish
  <2>1. frame \in Frames /\ frame.no = wire /\ wire \in Nat /\ arena \in Seq(Frames)
        /\ Len(applied) \in Nat /\ Len(applied) + Len(arena) = wire - 1
    BY <1>6, FrameInHand DEF Publish, TypeOK, Numbered
  <2>2. /\ arena' \in Seq(Frames) /\ Len(arena') = Len(arena) + 1
        /\ arena'[Len(arena) + 1] = frame /\ \A n \in 1 .. Len(arena) : arena'[n] = arena[n]
    BY <1>6, <2>1 DEF Publish
  <2>3. Feeding' /\ AllWhole' /\ Reading'
    BY <1>6 DEF Publish, Feeding, AllWhole, WholeFrame, Reading, Boundary
  <2>4. Numbered'
    <3>1. ASSUME NEW n \in 1 .. Len(arena') PROVE arena'[n].no = Len(applied) + n
      <4>1. CASE n = Len(arena) + 1
        BY <2>1, <2>2, <4>1
      <4>2. CASE n # Len(arena) + 1
        <5>1. n \in 1 .. Len(arena)
          BY <2>1, <2>2, <4>2
        <5> QED BY <2>2, <5>1 DEF Numbered
      <4> QED BY <4>1, <4>2
    <3>2. Len(applied) + Len(arena') = wire
      BY <2>1, <2>2
    <3> QED BY <1>6, <3>1, <3>2 DEF Publish, Numbered
  <2>5. AllSame'
    <3> SUFFICES ASSUME NEW c \in 1 .. off PROVE SameFrame(file[c].frame)'
      BY <1>6 DEF Publish, AllSame
    <3>1. SameFrame(file[c].frame) /\ file[c].frame \in Frames
      BY DEF AllSame, AllWhole, WholeFrame, Cells
    <3>2. file[c].frame.no \in Nat
      BY <3>1, JournalAssumption DEF Frames
    <3> DEFINE k == file[c].frame.no - Len(applied)
    <3>3. CASE k \in 1 .. Len(arena)
      BY <1>6, <2>1, <2>2, <3>1, <3>2, <3>3 DEF Publish, SameFrame
    <3>4. CASE k = Len(arena) + 1
      BY <1>6, <2>1, <2>2, <3>1, <3>2, <3>4 DEF Publish, SameFrame
    <3>5. CASE k <= 0
      BY <1>6, <2>1, <2>2, <3>1, <3>2, <3>5 DEF Publish, SameFrame
    <3>6. k <= Len(arena) + 1
      BY <2>1, <3>1, <3>2 DEF SameFrame
    <3> QED BY <2>1, <3>2, <3>3, <3>4, <3>5, <3>6
  <2>6. NoHole'
    BY <1>6, <2>1, <2>2 DEF Publish, NoHole, LastNo
  <2> QED BY <1>0, <2>3, <2>4, <2>5, <2>6
<1>7. CASE Apply
  <2>1. /\ arena \in Seq(Frames) /\ applied \in Seq(Frames) /\ arena # <<>> /\ Len(arena) \in Nat
        /\ Len(arena) > 0 /\ Len(applied) \in Nat /\ pcF # "dead"
    BY <1>7 DEF Apply, TypeOK, Feeding
  <2>2. /\ Len(arena') = Len(arena) - 1 /\ Len(applied') = Len(applied) + 1
        /\ applied'[Len(applied) + 1] = arena[1]
        /\ \A n \in 1 .. Len(applied) : applied'[n] = applied[n]
        /\ \A n \in 1 .. Len(arena) - 1 : arena'[n] = arena[n + 1]
    BY <1>7, <2>1 DEF Apply
  <2>3. AllWhole' /\ Reading'
    BY <1>7 DEF Apply, AllWhole, WholeFrame, Reading, Boundary
  <2>7. Feeding'
    <3>1. Len(arena') < ArenaCap \/ ~(Len(arena) < ArenaCap)
      BY <2>1, <2>2, JournalAssumption
    <3> QED BY <1>7, <2>1, <3>1 DEF Apply, Feeding
  <2>4. Numbered'
    <3>1. Len(applied') + Len(arena') = Len(applied) + Len(arena)
      BY <2>1, <2>2
    <3>2. \A n \in 1 .. Len(applied') : applied'[n].no = n
      BY <2>1, <2>2 DEF Numbered
    <3>3. \A n \in 1 .. Len(arena') : arena'[n].no = Len(applied') + n
      BY <2>1, <2>2 DEF Numbered
    <3> QED BY <1>7, <3>1, <3>2, <3>3 DEF Apply, Numbered
  <2>5. AllSame'
    <3> SUFFICES ASSUME NEW c \in 1 .. off PROVE SameFrame(file[c].frame)'
      BY <1>7 DEF Apply, AllSame
    <3>1. SameFrame(file[c].frame) /\ file[c].frame \in Frames
      BY DEF AllSame, AllWhole, WholeFrame, Cells
    <3> DEFINE k == file[c].frame.no
    <3>2. k \in Nat
      BY <3>1, JournalAssumption DEF Frames
    <3>3. k <= Len(applied) => file[c].frame = applied'[k]
      BY <2>1, <2>2, <3>1, <3>2, JournalAssumption DEF SameFrame, Frames
    <3>4. k = Len(applied) + 1 => file[c].frame = applied'[k]
      BY <2>1, <2>2, <3>1, <3>2 DEF SameFrame
    <3>5. k > Len(applied) + 1 /\ k <= Len(applied) + Len(arena)
            => file[c].frame = arena'[k - Len(applied')]
      <4> SUFFICES ASSUME k > Len(applied) + 1, k <= Len(applied) + Len(arena)
                   PROVE  file[c].frame = arena'[k - Len(applied')]
        OBVIOUS
      <4>1. k - Len(applied') \in 1 .. Len(arena) - 1 /\ (k - Len(applied')) + 1 = k - Len(applied)
        BY <2>1, <2>2, <3>2
      <4>2. file[c].frame = arena[k - Len(applied)]
        BY <2>1, <3>1, <3>2 DEF SameFrame
      <4> QED BY <2>2, <4>1, <4>2
    <3>6. k <= Len(applied') => file[c].frame = applied'[k]
      BY <2>1, <2>2, <3>2, <3>3, <3>4
    <3>7. k > Len(applied') /\ k <= Len(applied') + Len(arena') => file[c].frame = arena'[k - Len(applied')]
      BY <2>1, <2>2, <3>2, <3>5
    <3> QED BY <1>7, <3>1, <3>6, <3>7 DEF Apply, SameFrame
  <2>6. NoHole'
    BY <1>7, <2>1, <2>2 DEF Apply, NoHole, LastNo
  <2> QED BY <1>0, <2>3, <2>4, <2>5, <2>6, <2>7
<1>8. CASE Crash
  <2>1. Len(applied) \in Nat /\ Len(arena) \in Nat /\ arena' = <<>> /\ Len(arena') = 0
    BY <1>8 DEF Crash, TypeOK
  <2>2. Feeding' /\ AllWhole' /\ Reading' /\ Numbered'
    BY <1>8, <2>1 DEF Crash, Feeding, AllWhole, WholeFrame, Reading, Boundary, Numbered
  <2>3. AllSame'
    <3> SUFFICES ASSUME NEW c \in 1 .. off PROVE SameFrame(file[c].frame)'
      BY <1>8 DEF Crash, AllSame
    <3>1. SameFrame(file[c].frame) /\ file[c].frame \in Frames
      BY DEF AllSame, AllWhole, WholeFrame, Cells
    <3>2. file[c].frame.no \in Nat
      BY <3>1, JournalAssumption DEF Frames
    <3> QED BY <1>8, <2>1, <3>1, <3>2 DEF Crash, SameFrame
  <2>4. NoHole'
    <3>1. dropped = 0 => Len(applied) + Len(arena') <= LastNo(off)
      <4>1. LastNo(off) \in Nat
        BY LastNoType DEF TypeOK
      <4> QED BY <2>1, <4>1 DEF NoHole
    <3> QED BY <1>8, <3>1 DEF Crash, NoHole, LastNo
  <2> QED BY <1>0, <2>2, <2>3, <2>4
<1>9. CASE ReplayOpen
  <2>1. Feeding' /\ AllWhole' /\ Numbered' /\ AllSame'
    BY <1>9 DEF ReplayOpen, Feeding, AllWhole, WholeFrame, Numbered, AllSame, SameFrame
  <2>2. Boundary(0)
    <3>1. off > 0 => WholeFrame(1)
      BY DEF AllWhole, TypeOK
    <3> QED BY <3>1 DEF WholeFrame, Boundary, TypeOK
  <2>3. Reading'
    BY <1>9, <2>2 DEF ReplayOpen, Reading, Boundary, Feeding, TypeOK
  <2>4. NoHole'
    BY <1>9 DEF ReplayOpen, NoHole, LastNo
  <2> QED BY <1>0, <2>1, <2>3, <2>4
<1>10. CASE ReplayNext
  <2> DEFINE f == file[cur + 1].frame
  <2>1. cur \in 0 .. off /\ len \in 0 .. off /\ cur < len /\ off \in Nat
    BY <1>10 DEF ReplayNext, WithinWatermark, TypeOK, Reading, Boundary
  <2>2. /\ file[cur + 1] \in Cells /\ file[cur + 1].part = 1
        /\ f.size \in Nat \ {0} /\ cur + f.size <= len
        /\ \A q \in 1 .. f.size : file[cur + q] = [frame |-> f, part |-> q]
    BY <2>1, WholeFrameFollows DEF Reading
  <2>3. replayed' = Append(replayed, f) /\ cur' = cur + f.size
    BY <1>10, <2>2 DEF ReplayNext
  <2>4. f \in Frames /\ replayed \in Seq(Frames \union {Torn})
    BY <2>2 DEF Cells, TypeOK
  <2>5. Len(replayed') = Len(replayed) + 1 /\ replayed'[Len(replayed) + 1] = f
        /\ \A n \in 1 .. Len(replayed) : replayed'[n] = replayed[n]
    BY <2>3, <2>4
  <2>6. Feeding' /\ AllWhole' /\ Numbered' /\ AllSame'
    BY <1>10 DEF ReplayNext, Feeding, AllWhole, WholeFrame, Numbered, AllSame, SameFrame
  <2>7. file[cur + f.size] = [frame |-> f, part |-> f.size] /\ cur + f.size \in 1 .. off
    BY <2>1, <2>2
  <2>8. Boundary(cur + f.size)
    <3> SUFFICES ASSUME cur + f.size < off PROVE file[cur + f.size + 1].part = 1
      BY <2>7 DEF Boundary
    <3>1. PICK d \in 1 .. off : d = cur + f.size + 1
      BY <2>1, <2>7
    <3>2. WholeFrame(d)
      BY DEF AllWhole
    <3> DEFINE g == file[d].frame
               p == file[d].part
    <3>3. g.size \in Nat /\ p \in 1 .. g.size
      BY <3>2, JournalAssumption DEF WholeFrame, Cells, Frames
    <3> SUFFICES ASSUME p # 1 PROVE FALSE
      BY <3>1
    <3>4. p - 1 \in 1 .. g.size /\ d - p + (p - 1) = cur + f.size
      BY <2>1, <2>2, <3>1, <3>3
    <3>5. file[d - p + (p - 1)] = [frame |-> g, part |-> p - 1]
      BY <3>2, <3>4 DEF WholeFrame
    <3>6. g = f /\ p - 1 = f.size
      BY <2>7, <3>4, <3>5
    <3> QED BY <2>2, <3>3, <3>6
  <2>9. Reading'
    <3>1. \A n \in 1 .. Len(replayed') : \E c \in 1 .. off : replayed'[n] = file[c].frame
      <4>1. cur + 1 \in 1 .. off
        BY <2>1
      <4> QED BY <2>4, <2>5, <4>1 DEF Reading
    <3> QED BY <1>10, <2>3, <2>8, <3>1 DEF ReplayNext, Reading, Boundary
  <2>10. NoHole'
    <3> SUFFICES ASSUME dropped = 0 PROVE NoHole'
      BY <1>10 DEF ReplayNext, NoHole
    <3>1. f.no = LastNo(cur) + 1
      BY <2>1, <2>2 DEF NoHole
    <3>2. LastNo(cur)' = f.no
      BY <1>10, <2>1, <2>2, <2>3, <2>7 DEF ReplayNext, LastNo
    <3>3. LastNo(cur) = Len(replayed) /\ \A n \in 1 .. Len(replayed) : replayed[n].no = n
      BY DEF NoHole
    <3>4. \A n \in 1 .. Len(replayed') : replayed'[n].no = n
      BY <2>4, <2>5, <3>1, <3>3
    <3>5. LastNo(cur)' = Len(replayed')
      BY <2>5, <3>1, <3>2, <3>3
    <3> QED BY <1>10, <3>4, <3>5 DEF ReplayNext, NoHole, LastNo
  <2> QED BY <1>0, <2>6, <2>9, <2>10
<1> QED BY <1>1, <1>2, <1>3, <1>4, <1>5, <1>6, <1>7, <1>8, <1>9, <1>10 DEF Next, Feed

LEMMA JournalCorrect == Spec => []JournalInv
BY JournalInit, JournalStep, PTL DEF Spec

-----------------------------------------------------------------------------
(* What follows from it *)

\* The journal's variables keep their types, and nothing is written past the
\* end of the mapping.
THEOREM JournalTypes == Spec => []TypeOK
BY JournalCorrect, PTL DEF JournalInv

\* Whenever the file is opened, the reader parses whole frames, never stops
\* inside one and never meets a torn last one.
THEOREM PrefixWhole == Spec => []NeverTorn
<1>1. JournalInv => NeverTorn
  <2> SUFFICES ASSUME JournalInv PROVE NeverTorn
    OBVIOUS
  <2> USE DEF JournalInv
  <2>1. ASSUME NEW n \in 1 .. Len(replayed) PROVE replayed[n] # Torn
    <3>1. PICK c \in 1 .. off : replayed[n] = file[c].frame
      BY DEF Reading
    <3>2. file[c].frame \in Frames
      BY DEF AllWhole, WholeFrame, Cells
    <3> QED BY <3>1, <3>2, JournalAssumption
  <2>2. ASSUME cur < len PROVE file[cur + 1] # Blank /\ cur + file[cur + 1].frame.size <= len
    <3>1. cur \in 0 .. off /\ len \in 0 .. off
      BY <2>2 DEF TypeOK, Reading, Boundary
    <3>2. file[cur + 1] \in Cells /\ cur + file[cur + 1].frame.size <= len
      BY <2>2, <3>1, WholeFrameFollows DEF Reading
    <3> QED BY <3>2, JournalAssumption
  <2> QED BY <2>1, <2>2 DEF NeverTorn
<1> QED BY <1>1, JournalCorrect, PTL

\* A full replay of a journal that dropped nothing covers everything the engine
\* had applied, wherever the process stopped.
THEOREM CrashLosesNothing == Spec => []ReplayCoversEngine
<1>1. JournalInv => ReplayCoversEngine
  <2> SUFFICES ASSUME JournalInv, cur = committed, dropped = 0 PROVE Prefix(applied, replayed)
    BY DEF ReplayCoversEngine
  <2> USE DEF JournalInv
  <2>1. cur = off /\ Len(applied) \in Nat /\ Len(arena) \in Nat /\ Len(replayed) \in Nat
    BY DEF Feeding, TypeOK
  <2>2. Len(applied) <= Len(replayed)
    BY <2>1 DEF NoHole
  <2>3. ASSUME NEW n \in 1 .. Len(applied) PROVE applied[n] = replayed[n]
    <3>1. n \in 1 .. Len(replayed)
      BY <2>1, <2>2
    <3>2. replayed[n].no = n
      BY <3>1 DEF NoHole
    <3>3. PICK c \in 1 .. off : replayed[n] = file[c].frame
      BY <3>1 DEF Reading
    <3>4. SameFrame(file[c].frame)
      BY DEF AllSame
    <3> QED BY <2>1, <3>2, <3>3, <3>4 DEF SameFrame
  <2> QED BY <2>2, <2>3 DEF Prefix
<1> QED BY <1>1, JournalCorrect, PTL

-----------------------------------------------------------------------------
(* The bytes journalled and the bytes dropped *)

\* t[n] is the length of the first n frames published: together with the one
\* in hand, if it is accounted for, they are the bytes journalled or dropped.
Accounts(t) ==
  /\ t[0] = 0
  /\ \A n \in 0 .. Len(applied) + Len(arena) : t[n] \in Nat
  /\ \A n \in 1 .. Len(applied) : t[n] = t[n - 1] + applied[n].size
  /\ \A n \in 1 .. Len(arena) : t[Len(applied) + n] = t[Len(applied) + n - 1] + arena[n].size
  /\ pcF # "dead" =>
       off + dropped = t[Len(applied) + Len(arena)] + (IF pcF = "publish" THEN frame.size ELSE 0)

Accounted == \E t : Accounts(t)

LEMMA AccountedInit == Init => Accounted
<1> SUFFICES ASSUME Init PROVE Accounted
  OBVIOUS
<1>1. Len(applied) = 0 /\ Len(arena) = 0 /\ off = 0 /\ dropped = 0 /\ pcF = "idle"
  BY DEF Init
<1>2. Accounts([n \in {0} |-> 0])
  BY <1>1 DEF Accounts
<1> QED BY <1>2 DEF Accounted

LEMMA AccountedStep == JournalInv /\ Accounted /\ [Next]_vars => Accounted'
<1> SUFFICES ASSUME JournalInv, Accounted, [Next]_vars PROVE Accounted'
  OBVIOUS
<1>1. PICK t : Accounts(t)
  BY DEF Accounted
<1> DEFINE A == Len(applied)
           M == Len(applied) + Len(arena)
<1>2. /\ off \in Nat /\ dropped \in Nat /\ Len(applied) \in Nat /\ Len(arena) \in Nat /\ M \in Nat
      /\ applied \in Seq(Frames) /\ arena \in Seq(Frames)
  BY JournalAssumption DEF JournalInv, TypeOK
<1>3. /\ t[0] = 0 /\ \A n \in 0 .. M : t[n] \in Nat
      /\ \A n \in 1 .. A : t[n] = t[n - 1] + applied[n].size
      /\ \A n \in 1 .. Len(arena) : t[A + n] = t[A + n - 1] + arena[n].size
      /\ pcF # "dead" => off + dropped = t[M] + (IF pcF = "publish" THEN frame.size ELSE 0)
  BY <1>1 DEF Accounts
<1>4. CASE \/ \E n \in Sizes : Land(n)
           \/ pcF = "copy" /\ \E p \in 1 .. frame.size : Copy(p)
           \/ ReplayOpen \/ ReplayNext \/ UNCHANGED vars
  <2>1. /\ UNCHANGED <<applied, arena, off, dropped>>
        /\ \/ pcF' # "publish" /\ pcF # "publish" /\ pcF # "dead"
           \/ UNCHANGED <<pcF, frame>>
    BY <1>4 DEF Land, Copy, ReplayOpen, ReplayNext, vars, mapping, feeder, engine
  <2>2. Accounts(t)'
    BY <1>1, <2>1 DEF Accounts
  <2> QED BY <2>2 DEF Accounted
<1>5. CASE AppendDropped \/ Commit
  <2>1. /\ UNCHANGED <<applied, arena, frame>> /\ pcF # "publish" /\ pcF # "dead" /\ pcF' = "publish"
        /\ pcF \in {"copy", "drop"}
        /\ \/ off' = off /\ dropped' = dropped + frame.size
           \/ off' = off + frame.size /\ dropped' = dropped
    BY <1>5 DEF AppendDropped, Commit, Lost, engine
  <2>2. frame.size \in Nat
    BY <2>1, FrameInHand
  <2>3. off' + dropped' = t[M] + frame.size
    <3>1. off + dropped = t[M] /\ t[M] \in Nat
      <4>1. M \in 0 .. M
        BY <1>2
      <4> HIDE DEF M
      <4> QED BY <1>2, <1>3, <2>1, <4>1
    <3> HIDE DEF M
    <3> QED BY <1>2, <2>1, <2>2, <3>1
  <2>4. Accounts(t)'
    BY <1>3, <2>1, <2>3 DEF Accounts
  <2> QED BY <2>4 DEF Accounted
<1>6. CASE Publish
  <2>1. /\ pcF = "publish" /\ pcF' = "idle" /\ UNCHANGED <<applied, off, dropped>>
        /\ arena' = Append(arena, frame)
    BY <1>6 DEF Publish, mapping
  <2>2. frame \in Frames /\ frame.size \in Nat
    BY <2>1, FrameInHand
  <2>3. /\ Len(arena') = Len(arena) + 1 /\ arena'[Len(arena) + 1] = frame
        /\ \A n \in 1 .. Len(arena) : arena'[n] = arena[n]
    BY <1>2, <2>1, <2>2
  <2>4. PICK e : e = [k \in 0 .. M + 1 |-> IF k = M + 1 THEN t[M] + frame.size ELSE t[k]]
    OBVIOUS
  <2>5. e[M + 1] = t[M] + frame.size /\ \A k \in 0 .. M : e[k] = t[k]
    <3>1. M + 1 \in 0 .. M + 1 /\ \A k \in 0 .. M : k \in 0 .. M + 1 /\ k # M + 1
      BY <1>2
    <3> QED BY <2>4, <3>1
  <2>6. M \in 0 .. M /\ 0 \in 0 .. M /\ A + Len(arena') = M + 1
    BY <1>2, <2>3
  <2>7. e[0] = 0 /\ \A n \in 0 .. M + 1 : e[n] \in Nat
    <3>1. ASSUME NEW n \in 0 .. M + 1 PROVE e[n] \in Nat
      <4>1. n = M + 1 \/ n \in 0 .. M
        BY <1>2
      <4>2. t[M] + frame.size \in Nat
        BY <1>3, <2>2, <2>6
      <4> QED BY <1>3, <2>5, <4>1, <4>2
    <3> QED BY <1>3, <2>5, <2>6, <3>1
  <2>8. ASSUME NEW n \in 1 .. A PROVE e[n] = e[n - 1] + applied[n].size
    <3>1. n \in 0 .. M /\ n - 1 \in 0 .. M
      BY <1>2
    <3> QED BY <1>3, <2>5, <3>1
  <2>9. ASSUME NEW n \in 1 .. Len(arena) + 1 PROVE e[A + n] = e[A + n - 1] + arena'[n].size
    <3>1. CASE n = Len(arena) + 1
      <4>1. A + n = M + 1 /\ A + n - 1 = M
        BY <1>2, <3>1
      <4> QED BY <2>3, <2>5, <2>6, <3>1, <4>1
    <3>2. CASE n # Len(arena) + 1
      <4>1. n \in 1 .. Len(arena) /\ A + n \in 0 .. M /\ A + n - 1 \in 0 .. M
        BY <1>2, <3>2
      <4> QED BY <1>3, <2>3, <2>5, <4>1
    <3> QED BY <3>1, <3>2
  <2>10. off' + dropped' = e[M + 1]
    BY <1>3, <2>1, <2>5
  <2>11. e[M + 1] \in Nat
    BY <1>2, <2>7
  <2> HIDE DEF M
  <2>12. Accounts(e)'
    BY <2>1, <2>3, <2>6, <2>7, <2>8, <2>9, <2>10, <2>11 DEF Accounts
  <2> QED BY <2>12 DEF Accounted
<1>7. CASE Apply
  <2>1. /\ arena # <<>> /\ applied' = Append(applied, Head(arena)) /\ arena' = Tail(arena)
        /\ UNCHANGED <<off, dropped, pcF, frame>>
    BY <1>7 DEF Apply, mapping, feeder
  <2>2. /\ Len(applied') = A + 1 /\ applied'[A + 1] = arena[1] /\ \A n \in 1 .. A : applied'[n] = applied[n]
        /\ Len(arena') = Len(arena) - 1 /\ Len(arena) > 0
        /\ \A n \in 1 .. Len(arena) - 1 : arena'[n] = arena[n + 1]
    BY <1>2, <2>1
  <2>3. Len(applied') + Len(arena') = M
    BY <1>2, <2>2
  <2>4. ASSUME NEW n \in 1 .. A + 1 PROVE t[n] = t[n - 1] + applied'[n].size
    <3>1. CASE n = A + 1
      <4>1. 1 \in 1 .. Len(arena) /\ A + 1 - 1 = n - 1
        BY <1>2, <2>2, <3>1
      <4> QED BY <1>3, <2>2, <3>1, <4>1
    <3>2. CASE n # A + 1
      <4>1. n \in 1 .. A
        BY <1>2, <3>2
      <4> QED BY <1>3, <2>2, <4>1
    <3> QED BY <3>1, <3>2
  <2>5. ASSUME NEW n \in 1 .. Len(arena) - 1 PROVE t[(A + 1) + n] = t[(A + 1) + n - 1] + arena'[n].size
    <3>1. n + 1 \in 1 .. Len(arena) /\ (A + 1) + n = A + (n + 1) /\ (A + 1) + n - 1 = A + (n + 1) - 1
      BY <1>2
    <3> QED BY <1>3, <2>2, <3>1
  <2> HIDE DEF A, M
  <2>6. Accounts(t)'
    BY <1>3, <2>1, <2>2, <2>3, <2>4, <2>5 DEF Accounts
  <2> QED BY <2>6 DEF Accounted
<1>8. CASE Crash
  <2>1. pcF' = "dead" /\ applied' = applied /\ Len(arena') = 0
    BY <1>8 DEF Crash
  <2>2. \A n \in 0 .. Len(applied) + 0 : n \in 0 .. M
    BY <1>2
  <2>3. Accounts(t)'
    BY <1>3, <2>1, <2>2 DEF Accounts
  <2> QED BY <2>3 DEF Accounted
<1> QED BY <1>4, <1>5, <1>6, <1>7, <1>8 DEF Next, Feed

\* t[n] is the sum of the first n of the L lengths u.
Sums(t, u, L) == t[0] = 0 /\ \A n \in 1 .. L : t[n] = t[n - 1] + u[n]

\* Two sums of the same lengths are the same.
LEMMA OneTotal ==
  ASSUME NEW L \in Nat, NEW s, NEW t, NEW u, Sums(s, u, L), Sums(t, u, L)
  PROVE  \A n \in 0 .. L : s[n] = t[n]
<1>0. t[0] = 0 /\ s[0] = 0 /\ \A n \in 1 .. L : t[n] = t[n - 1] + u[n] /\ s[n] = s[n - 1] + u[n]
  BY DEF Sums
<1> DEFINE Bad == {n \in 0 .. L : s[n] # t[n]}
<1> SUFFICES ASSUME Bad # {} PROVE FALSE
  OBVIOUS
<1> DEFINE R == OpToRel(<, Nat)
<1>1. IsWellFoundedOn(R, Nat)
  BY NatLessThanWellFounded
<1>2. PICK n \in Bad : \A m \in Bad : ~ (<<m, n>> \in R)
  <2>1. Bad \in SUBSET Nat
    OBVIOUS
  <2> HIDE DEF R, Bad
  <2> QED BY <1>1, <2>1, WFMin
<1>3. n \in 1 .. L /\ n - 1 \in 0 .. L /\ n \in Nat /\ n - 1 \in Nat /\ n - 1 < n
  BY <1>0
<1>4. n - 1 \notin Bad
  <2>1. <<n - 1, n>> \in R
    BY <1>3 DEF OpToRel
  <2> QED BY <1>2, <2>1
<1>5. s[n - 1] = t[n - 1]
  BY <1>3, <1>4
<1> QED BY <1>0, <1>3, <1>5

\* Whenever the feed rests the bytes of the frames published are the bytes
\* journalled and the bytes dropped, and while dropped says zero the n-th frame
\* a reader parses is the n-th of the wire: a hole is never silent
\* (journal.hpp:141).
THEOREM NoSilentHole == Spec => []DropsCounted
<1>1. JournalInv /\ Accounted => DropsCounted
  <2> SUFFICES ASSUME JournalInv, Accounted PROVE DropsCounted
    OBVIOUS
  <2> DEFINE L == Len(applied)
             N == 0 .. L
             step(g, n) == IF n = 0 THEN 0 ELSE g[n - 1] + applied[n].size
             adds(g) == g = [n \in N |-> step(g, n)]
             total == CHOOSE g : adds(g)
  <2>1. L \in Nat /\ applied \in Seq(Frames)
    BY DEF JournalInv, TypeOK
  <2>2. PICK t : Accounts(t)
    BY DEF Accounted
  <2>3. t[0] = 0 /\ \A n \in 1 .. L : t[n] = t[n - 1] + applied[n].size
    BY <2>2 DEF Accounts
  <2>4. \A n \in N : n # 0 => n \in 1 .. L /\ n - 1 \in N
    BY <2>1
  <2>5. PICK h : h = [n \in N |-> t[n]]
    OBVIOUS
  <2>6. adds(h)
    <3>1. \A n \in N : t[n] = step(h, n)
      BY <2>3, <2>4, <2>5
    <3> QED BY <2>5, <3>1
  <2>7. adds(total)
    <3> HIDE DEF adds
    <3> QED BY <2>6
  <2>8. \A n \in N : total[n] = step(total, n)
    <3> HIDE DEF total
    <3> QED BY <2>7
  <2>9. total[L] = t[L]
    <3>1. total[0] = 0 /\ \A n \in 1 .. L : total[n] = total[n - 1] + applied[n].size
      <4> HIDE DEF total
      <4>1. 0 \in N /\ \A n \in 1 .. L : n \in N /\ n # 0
        BY <2>1
      <4> QED BY <2>8, <4>1
    <3> HIDE DEF total
    <3>2. PICK u : u = [n \in 1 .. L |-> applied[n].size]
      OBVIOUS
    <3>3. \A n \in 1 .. L : t[n] = t[n - 1] + u[n] /\ total[n] = total[n - 1] + u[n]
      BY <2>3, <3>1, <3>2
    <3>4. \A n \in 0 .. L : total[n] = t[n]
      <4> PICK k, s : k = L /\ s = total
        OBVIOUS
      <4>1. k \in Nat /\ Sums(t, u, k) /\ Sums(s, u, k)
        BY <2>1, <2>3, <3>1, <3>3 DEF Sums
      <4>2. \A n \in 0 .. k : s[n] = t[n]
        BY <4>1, OneTotal
      <4> QED BY <4>2
    <3> QED BY <2>1, <3>4
  <2>10. ASSUME pcF = "idle", arena = <<>> PROVE total[L] = off + dropped
    <3>1. Len(applied) + Len(arena) = L
      BY <2>1, <2>10
    <3>2. off + dropped = t[L] + 0 /\ t[L] \in Nat
      <4>1. off + dropped = t[Len(applied) + Len(arena)] + 0
        BY <2>2, <2>10 DEF Accounts
      <4>2. \A n \in 0 .. Len(applied) + Len(arena) : t[n] \in Nat
        BY <2>2 DEF Accounts
      <4> QED BY <2>1, <3>1, <4>1, <4>2
    <3> HIDE DEF total
    <3> QED BY <2>9, <3>2
  <2>11. dropped = 0 => \A n \in 1 .. Len(replayed) : replayed[n].no = n
    BY DEF JournalInv, NoHole
  <2> QED BY <2>10, <2>11 DEF DropsCounted
<1> QED BY <1>1, JournalCorrect, AccountedInit, AccountedStep, PTL DEF Spec
=============================================================================
