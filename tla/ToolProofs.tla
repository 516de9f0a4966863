------------------------------- MODULE ToolProofs ------------------------------
(***************************************************************************)
(* Theorems about the sound card, for any parameters, levels, controls and *)
(* subscribers, and about the two capture tools: CaptureAudio, for any     *)
(* period, any number of periods and any cards, and Capture, for any       *)
(* number of buffers and any command lines; and about all of them and the  *)
(* Windows layer side by side, as Periphery has them.                      *)
(***************************************************************************)
EXTENDS Periphery, WinProofs

(* The sound card *)

(* A PCM that is not closed has its substream; the rest is CapsInForce. *)
PcmInv ==
  /\ pcm # "closed" => substream = TRUE
  /\ pcm \in {"setup", "prepared", "running", "xrun"} =>
       caps = runtime.params /\ runtime.area = TRUE

(* The tables of the mixer have an entry for each control. *)
MixerInv ==
  /\ cache \in [Controls -> Levels]
  /\ hardware = cache
  /\ view \in [Mixers -> [Controls -> Levels]]
  /\ \A m \in Mixers, c \in Controls \cap Mutes :
       <<m, c>> \notin notices => view[m][c] = cache[c]

(* Every callback of the PCM keeps PcmInv: one that fails leaves the PCM in  *)
(* a state in which its parameters do not matter, or as it was.             *)
LEMMA PcmStep ==
ASSUME PcmInv, PcmNext
PROVE  PcmInv'
<1> USE DEF PcmInv, NoRuntime
<1>1. ASSUME NEW i \in BOOLEAN, NEW o \in BOOLEAN, Open(i, o) PROVE PcmInv'
  BY <1>1 DEF Open
<1>2. ASSUME NEW p \in Params, NEW ok \in BOOLEAN, HwParams(p, ok) PROVE PcmInv'
  BY <1>2 DEF HwParams
<1>3. ASSUME NEW ok \in BOOLEAN, Prepare(ok) PROVE PcmInv'
  BY <1>3 DEF Prepare
<1>4. ASSUME NEW to \in {"setup", "xrun"}, TriggerStop(to) PROVE PcmInv'
  BY <1>4 DEF TriggerStop
<1>5. CASE HwFree
  BY <1>5 DEF HwFree
<1>6. CASE TriggerStart
  BY <1>6 DEF TriggerStart
<1>7. CASE Close
  BY <1>7 DEF Close
<1>8. QED BY <1>1, <1>2, <1>3, <1>4, <1>5, <1>6, <1>7 DEF PcmNext

(* Every call of the mixer keeps MixerInv: what changes a mute tells those  *)
(* who subscribe to it.                                                     *)
LEMMA MixerStep ==
ASSUME MixerInv, MixerNext
PROVE  MixerInv'
<1> USE DEF MixerInv
<1>1. ASSUME NEW c \in Controls, NEW l \in Levels, NEW ok \in BOOLEAN, MutePut(c, l, ok)
      PROVE  MixerInv'
  <2>1. Kept(c, l, ok) \in Levels
    BY DEF Kept
  <2>2. cache' = [cache EXCEPT ![c] = Kept(c, l, ok)] /\ hardware' = cache'
    BY <1>1 DEF MutePut, Kept
  <2>3. cache' \in [Controls -> Levels] /\ view' = view
    BY <1>1, <2>1, <2>2 DEF MutePut
  <2>4. ASSUME NEW m \in Mixers, NEW d \in Controls \cap Mutes, <<m, d>> \notin notices'
        PROVE  view'[m][d] = cache'[d]
    <3>1. <<m, d>> \notin notices
      BY <1>1, <2>4 DEF MutePut, Told
    <3>2. d = c => cache'[c] = cache[c]
      BY <1>1, <2>4 DEF MutePut, Told
    <3>3. QED BY <2>2, <2>3, <3>1, <3>2
  <2>5. QED BY <2>2, <2>3, <2>4
<1>2. ASSUME NEW c \in Controls, NEW l \in Levels, NEW ok \in BOOLEAN, VolumePut(c, l, ok)
      PROVE  MixerInv'
  <2>1. Kept(c, l, ok) \in Levels
    BY DEF Kept
  <2>2. cache' = [cache EXCEPT ![c] = Kept(c, l, ok)] /\ hardware' = cache'
    BY <1>2 DEF VolumePut, Kept
  <2>3. c \notin Mutes /\ view' = view /\ notices' = notices
    BY <1>2 DEF VolumePut, Volumes, Mutes, Told
  <2>4. QED BY <2>1, <2>2, <2>3
<1>3. ASSUME NEW m \in Mixers, NEW c \in Controls, Get(m, c) PROVE MixerInv'
  BY <1>3 DEF Get
<1>4. QED BY <1>1, <1>2, <1>3 DEF MixerNext

-------------------------------------------------------------------------------
(* While the stream may be prepared, run or recovered, the hardware has the *)
(* parameters the application gave it and the DMA area is attached,         *)
(* whichever callbacks of rgb133audio.c failed before.                      *)
THEOREM CapsStayInForce == AudioSpec => []CapsInForce
<1>1. AudioInit => PcmInv
  BY DEF AudioInit, PcmInv
<1>2. PcmInv /\ [AudioNext]_audioVars => PcmInv'
  <2>1. CASE PcmNext
    BY <2>1, PcmStep
  <2>2. CASE UNCHANGED pcmVars
    BY <2>2 DEF PcmInv, pcmVars
  <2>3. MixerNext => UNCHANGED pcmVars
    BY DEF MixerNext, MutePut, VolumePut, Get
  <2>4. QED BY <2>1, <2>2, <2>3 DEF AudioNext, audioVars
<1>3. PcmInv => CapsInForce
  BY DEF PcmInv, CapsInForce
<1>4. QED BY <1>1, <1>2, <1>3, PTL DEF AudioSpec

(* The levels the driver answers with are those of the hardware, and no     *)
(* subscriber that has read its notifications is wrong about a mute.        *)
THEOREM MixerAlwaysTold == AudioSpec => []MixerTold
<1>1. AudioInit => MixerInv
  BY DEF AudioInit, MixerInv
<1>2. MixerInv /\ [AudioNext]_audioVars => MixerInv'
  <2>1. CASE MixerNext
    BY <2>1, MixerStep
  <2>2. CASE UNCHANGED mixerVars
    BY <2>2 DEF MixerInv, mixerVars
  <2>3. PcmNext => UNCHANGED mixerVars
    BY DEF PcmNext, Open, HwParams, Prepare, TriggerStop, HwFree, TriggerStart, Close
  <2>4. QED BY <2>1, <2>2, <2>3 DEF AudioNext, audioVars
<1>3. MixerInv => MixerTold
  BY DEF MixerInv, MixerTold
<1>4. QED BY <1>1, <1>2, <1>3, PTL DEF AudioSpec

-------------------------------------------------------------------------------
(* CaptureAudio *)

(* The ends of the periods in the ring. *)
Bounds == {k * Period : k \in 0 .. Periods}

(* The ring is made of whole periods. *)
LEMMA BoundFacts ==
/\ Frames \in Nat \ {0} /\ Period \in Nat \ {0} /\ Period <= Frames
/\ 0 \in Bounds /\ Bounds \subseteq 0 .. Frames
/\ \A b \in Bounds : b < Frames => b + Period \in Bounds
/\ \A b \in Bounds : b >= Period => b - Period \in Bounds
<1> USE CaptureAudioAssumption DEF Frames, Bounds
<1>1. Frames \in Nat \ {0} /\ Period <= Frames
  OBVIOUS
<1>2. 0 \in Bounds
  <2>1. 0 \in 0 .. Periods /\ 0 * Period = 0
    OBVIOUS
  <2>2. QED BY <2>1
<1>3. ASSUME NEW k \in 0 .. Periods
      PROVE  /\ k * Period \in 0 .. Frames
             /\ k * Period < Frames => k + 1 \in 0 .. Periods /\ (k + 1) * Period = k * Period + Period
             /\ k * Period >= Period => k - 1 \in 0 .. Periods /\ (k - 1) * Period = k * Period - Period
  OBVIOUS
<1>4. QED BY <1>1, <1>2, <1>3

(* The place i places after another, round the ring. *)
Round(at, i) == IF at + i < Frames THEN at + i ELSE at + i - Frames

(* A place goes round the ring: a comparison stands for a remainder. *)
LEMMA RoundIsModulo ==
ASSUME NEW at \in Place, NEW i \in 0 .. Frames - 1
PROVE  Round(at, i) = (at + i) % Frames
BY BoundFacts DEF Round, Place

-------------------------------------------------------------------------------
(* Where the two threads may be in the ring, whatever happened before. *)
Readers == [pc : {"read", "count", "signal"}, at : Nat, space : Nat, got : Nat]
Writers == [pc : {"wait", "look", "play", "account"}, at : Nat, cptr : Nat, put : Nat]

RingType ==
  /\ ring \in [Place -> Nat]
  /\ reader \in Readers /\ reader.at < Frames /\ reader.at + reader.space = Frames
  /\ writer \in Writers /\ writer.at < Frames
  /\ writer.pc = "account" => writer.put <= writer.cptr
  /\ ready \in Nat /\ captured \in Nat /\ played \in Nat

(* Every step of the player keeps places and counts in the ring. *)
LEMMA RingTypeStep ==
ASSUME RingType, [AudioAppNext]_audioAppVars
PROVE  RingType'
<1> USE BoundFacts DEF RingType, Readers, Writers
<1>1. ASSUME NEW n \in 1 .. Frames, ReadIn(n) PROVE RingType'
  <2>1. n <= reader.space /\ n \in Nat
    BY <1>1 DEF ReadIn
  <2>2. ring' \in [Place -> Nat]
    <3>1. ASSUME NEW i \in Place
          PROVE  (IF i \in reader.at .. reader.at + n - 1 THEN captured + (i - reader.at) + 1
                  ELSE ring[i]) \in Nat
      <4>1. i \in Nat
        BY DEF Place
      <4>2. CASE i \in reader.at .. reader.at + n - 1
        <5>1. captured + (i - reader.at) + 1 \in Nat
          BY <2>1, <4>2
        <5>2. QED BY <4>2, <5>1
      <4>3. CASE ~(i \in reader.at .. reader.at + n - 1)
        BY <4>3
      <4>4. QED BY <4>2, <4>3
    <3>2. QED BY <1>1, <3>1 DEF ReadIn
  <2>3. reader' \in Readers /\ reader'.at < Frames /\ reader'.at + reader'.space = Frames
    BY <1>1, <2>1 DEF ReadIn
  <2>4. QED BY <1>1, <2>1, <2>2, <2>3 DEF ReadIn
<1>2. CASE Count
  BY <1>2 DEF Count, Increased
<1>3. CASE Signal
  BY <1>3 DEF Signal
<1>4. CASE Look
  BY <1>4 DEF Look
<1>5. ASSUME NEW n \in 1 .. Period, Play(n) PROVE RingType'
  <2>1. n \in Nat /\ n <= writer.cptr /\ writer' = [writer EXCEPT !.pc = "account", !.put = n]
    BY <1>5 DEF Play
  <2>2. QED BY <1>5, <2>1 DEF Play
<1>6. CASE PlayFails
  BY <1>6 DEF PlayFails
<1>7. CASE Account
  <2>1. ready' \in Nat
    BY <1>7 DEF Account, Decreased
  <2>2. writer' = [pc |-> IF writer.cptr - writer.put > 0 THEN "play" ELSE "look",
                   at |-> Wrapped(writer.at + writer.put), cptr |-> writer.cptr - writer.put,
                   put |-> 0]
    BY <1>7 DEF Account
  <2>3. writer.cptr - writer.put \in Nat /\ Wrapped(writer.at + writer.put) \in 0 .. Frames - 1
    BY <1>7 DEF Account, Wrapped
  <2>4. QED BY <1>7, <2>1, <2>2, <2>3 DEF Account
<1>8. CASE UNCHANGED audioAppVars
  BY <1>8 DEF audioAppVars
<1>9. QED BY <1>1, <1>2, <1>3, <1>4, <1>5, <1>6, <1>7, <1>8 DEF AudioAppNext

(* The frames that have been read in and not been accounted as played. *)
Pending == captured - played

(* As long as nothing was overwritten and no period torn: ready counts the  *)
(* pending frames, but for those just read in; the reader is as many places *)
(* ahead of the writer as there are pending frames; the frames between them *)
(* are the pending ones, in their order; and the writer is at the end of a  *)
(* period, but for what it has yet to play of one that is ready.            *)
CountInv ==
  /\ Pending \in 0 .. Frames
  /\ ready = Pending - (IF reader.pc = "count" THEN reader.got ELSE 0)
  /\ writer.cptr <= ready
  /\ writer.pc = "play" => writer.cptr > 0
  /\ writer.pc = "account" => writer.put \in 1 .. writer.cptr
  /\ writer.pc \in {"wait", "look"} => writer.cptr = 0
  /\ writer.at + writer.cptr \in Bounds

PlaceInv ==
  /\ reader.at = writer.at + Pending \/ reader.at = writer.at + Pending - Frames
  /\ \A i \in 0 .. Pending - 1 : ring[Round(writer.at, i)] = played + i + 1

OrderInv == ~overrun /\ ~torn => CountInv /\ PlaceInv

(* Reading in puts the new frames behind the pending ones. *)
LEMMA ReadInStep ==
ASSUME RingType, OrderInv, NEW n \in 1 .. Frames, ReadIn(n), ~overrun', ~torn'
PROVE  CountInv' /\ PlaceInv'
<1> USE BoundFacts DEF RingType, Readers, Writers, Pending
<1>1. CountInv /\ PlaceInv /\ captured' - played' <= Frames /\ n <= reader.space /\ n \in Nat \ {0}
  <2>1. ~overrun /\ ~torn /\ ~(captured + n - played > Frames)
    BY Zenon DEF ReadIn
  <2>2. CountInv /\ PlaceInv
    BY <2>1 DEF OrderInv
  <2>3. captured' = captured + n /\ played' = played
    BY DEF ReadIn
  <2>4. n <= reader.space /\ n \in Nat \ {0}
    BY DEF ReadIn
  <2>5. QED BY <2>1, <2>2, <2>3, <2>4
<1>2. /\ captured' = captured + n /\ played' = played /\ ready' = ready /\ writer' = writer
      /\ reader.pc = "read" /\ reader'.pc = "count" /\ reader'.got = n
      /\ reader'.at = IF reader.space = n THEN 0 ELSE reader.at + n
  BY DEF ReadIn
<1>3. CountInv'
  BY <1>1, <1>2 DEF CountInv
<1>4. reader'.at = writer'.at + Pending' \/ reader'.at = writer'.at + Pending' - Frames
  BY <1>1, <1>2 DEF CountInv, PlaceInv
<1>5. ASSUME NEW i \in 0 .. Pending' - 1
      PROVE  ring'[Round(writer'.at, i)] = played' + i + 1
  <2>1. Round(writer.at, i) \in Place
    <3>1. i \in Nat /\ i < Frames
      BY <1>1, <1>2
    <3>2. Round(writer.at, i) \in Nat /\ Round(writer.at, i) < Frames
      BY <3>1 DEF Round
    <3>3. QED BY <3>2 DEF Place
  <2>2. \A j \in Place : ring'[j] = IF j \in reader.at .. reader.at + n - 1
                                   THEN captured + (j - reader.at) + 1 ELSE ring[j]
    BY DEF ReadIn
  <2>3. CASE i < Pending
    <3>1. ~(Round(writer.at, i) \in reader.at .. reader.at + n - 1)
      BY <1>1, <1>2, <2>3 DEF Round, CountInv, PlaceInv
    <3>2. ring[Round(writer.at, i)] = played + i + 1
      BY <1>1, <2>3 DEF PlaceInv, CountInv
    <3>3. QED BY <1>2, <2>1, <2>2, <3>1, <3>2
  <2>4. CASE i >= Pending
    <3>1. Round(writer.at, i) = reader.at + (i - Pending)
      BY <1>1, <1>2, <2>4 DEF Round, CountInv, PlaceInv
    <3>2. Round(writer.at, i) \in reader.at .. reader.at + n - 1
      BY <1>1, <1>2, <2>4, <3>1 DEF CountInv
    <3>3. QED BY <1>1, <1>2, <2>1, <2>2, <3>1, <3>2
  <2>5. QED BY <1>1, <1>2, <2>3, <2>4 DEF CountInv
<1>6. QED BY <1>3, <1>4, <1>5 DEF PlaceInv

(* Accounting moves the writer and the first pending frame together. *)
LEMMA AccountStep ==
ASSUME RingType, OrderInv, Account, ~overrun', ~torn'
PROVE  CountInv' /\ PlaceInv'
<1> USE BoundFacts DEF RingType, Readers, Writers, Pending
<1>1. CountInv /\ PlaceInv
  BY DEF Account, OrderInv
<1>2. /\ writer.put \in 1 .. writer.cptr /\ writer.cptr <= ready /\ ready <= captured - played
      /\ writer.at + writer.cptr <= Frames
  BY <1>1 DEF CountInv, Account
<1>3. /\ ready' = ready - writer.put /\ played' = played + writer.put
      /\ captured' = captured /\ reader' = reader /\ ring' = ring
      /\ writer'.cptr = writer.cptr - writer.put
      /\ writer'.at = IF writer.at + writer.put >= Frames THEN 0 ELSE writer.at + writer.put
      /\ writer'.pc = IF writer.cptr - writer.put > 0 THEN "play" ELSE "look"
  BY <1>2 DEF Account, Decreased, Wrapped
<1>4. writer'.at + writer'.cptr \in Bounds
  BY <1>1, <1>2, <1>3 DEF CountInv
<1>5. CountInv'
  BY <1>1, <1>2, <1>3, <1>4 DEF CountInv
<1>6. reader'.at = writer'.at + Pending' \/ reader'.at = writer'.at + Pending' - Frames
  BY <1>1, <1>2, <1>3 DEF PlaceInv
<1>7. ASSUME NEW i \in 0 .. Pending' - 1
      PROVE  ring'[Round(writer'.at, i)] = played' + i + 1
  <2>1. i + writer.put \in 0 .. Pending - 1
    BY <1>1, <1>2, <1>3 DEF CountInv
  <2>2. ring[Round(writer.at, i + writer.put)] = played + (i + writer.put) + 1
    BY <1>1, <2>1 DEF PlaceInv
  <2>3. Round(writer'.at, i) = Round(writer.at, i + writer.put)
    BY <1>1, <1>2, <1>3, <2>1 DEF Round, CountInv
  <2>4. QED BY <1>2, <1>3, <2>2, <2>3
<1>8. QED BY <1>5, <1>6, <1>7 DEF PlaceInv

(* The other steps leave the frames where they are. *)
LEMMA OtherSteps ==
ASSUME RingType, OrderInv, ~overrun', ~torn',
       \/ Count \/ Signal \/ Look \/ PlayFails
       \/ \E n \in 1 .. Period : Play(n)
PROVE  CountInv' /\ PlaceInv'
<1> USE BoundFacts DEF RingType, Readers, Writers, Pending
<1>1. /\ ring' = ring /\ captured' = captured /\ played' = played
      /\ reader'.at = reader.at /\ writer'.at = writer.at
      /\ CountInv /\ PlaceInv
  <2>1. ring' = ring /\ captured' = captured /\ played' = played
    BY DEF Count, Signal, Look, PlayFails, Play
  <2>2. reader'.at = reader.at /\ writer'.at = writer.at
    BY DEF Count, Signal, Look, PlayFails, Play
  <2>3. ~overrun /\ ~torn
    <3>1. overrun' = overrun
      BY Zenon DEF Count, Signal, Look, PlayFails, Play
    <3>2. torn' = torn \/ torn' = (torn \/ writer.cptr # Period)
      BY Zenon DEF Count, Signal, Look, PlayFails, Play
    <3>3. ~overrun
      BY <3>1
    <3>4. ~torn
      <4>1. CASE torn' = torn
        BY <4>1
      <4>2. CASE torn' = (torn \/ writer.cptr # Period)
        BY Zenon, <4>2
      <4>3. QED BY <3>2, <4>1, <4>2
    <3>5. QED BY <3>3, <3>4
  <2>4. CountInv /\ PlaceInv
    BY <2>3 DEF OrderInv
  <2>5. QED BY <2>1, <2>2, <2>4
<1>3. PlaceInv'
  BY <1>1 DEF PlaceInv, Round
<1>4. ASSUME Count PROVE CountInv'
  <2>1. ready' = ready + reader.got /\ writer' = writer /\ reader'.pc = "signal"
    BY <1>1, <1>4 DEF Count, Increased, CountInv
  <2>2. QED BY <1>1, <1>4, <2>1 DEF CountInv, Count
<1>5. ASSUME Signal PROVE CountInv'
  <2>1. /\ ready' = ready /\ reader'.pc = "read" /\ reader.pc = "signal"
        /\ writer' = writer \/ (writer.pc = "wait" /\ writer' = [writer EXCEPT !.pc = "look"])
    BY <1>5 DEF Signal
  <2>2. QED BY <1>1, <2>1 DEF CountInv
<1>6. ASSUME Look PROVE CountInv'
  <2>1. /\ ready' = ready /\ reader' = reader /\ writer.cptr = 0
        /\ \/ ready >= Period /\ writer'.pc = "play" /\ writer'.cptr = Period
           \/ writer'.pc = "wait" /\ writer'.cptr = 0
    BY <1>1, <1>6 DEF Look, CountInv
  <2>2. writer'.at + writer'.cptr \in Bounds
    BY <1>1, <2>1 DEF CountInv
  <2>3. QED BY <1>1, <2>1, <2>2 DEF CountInv
<1>7. ASSUME PlayFails PROVE CountInv'
  <2>1. writer.cptr = Period
    <3>1. torn' = (torn \/ writer.cptr # Period)
      BY <1>7 DEF PlayFails
    <3>2. (torn \/ writer.cptr # Period) => FALSE
      BY Zenon, <3>1
    <3>3. QED BY <3>2
  <2>2. ready' = ready /\ reader' = reader /\ writer'.pc = "look" /\ writer'.cptr = 0
    BY <1>7 DEF PlayFails
  <2>3. writer'.at + writer'.cptr \in Bounds
    BY <1>1, <2>1, <2>2 DEF CountInv
  <2>4. QED BY <1>1, <2>2, <2>3 DEF CountInv
<1>8. ASSUME NEW n \in 1 .. Period, Play(n) PROVE CountInv'
  BY <1>1, <1>8 DEF Play, CountInv
<1>9. QED BY <1>3, <1>4, <1>5, <1>6, <1>7, <1>8

(* Every step keeps what lies in the ring in the order it came. *)
LEMMA OrderStep ==
ASSUME RingType, OrderInv, [AudioAppNext]_audioAppVars
PROVE  OrderInv'
<1>1. ASSUME NEW n \in 1 .. Frames, ReadIn(n) PROVE OrderInv'
  BY <1>1, ReadInStep DEF OrderInv
<1>2. CASE Account
  BY <1>2, AccountStep DEF OrderInv
<1>3. CASE \/ Count \/ Signal \/ Look \/ PlayFails
           \/ \E n \in 1 .. Period : Play(n)
  BY <1>3, OtherSteps DEF OrderInv
<1>4. CASE UNCHANGED audioAppVars
  BY <1>4 DEF audioAppVars, OrderInv, CountInv, PlaceInv, Pending, Round
<1>5. QED BY <1>1, <1>2, <1>3, <1>4 DEF AudioAppNext

(* For every size of the ring and every split into reads and writes, what   *)
(* write_out() of the CaptureAudio tool plays next are the frames that      *)
(* read_in() captured next, and it never reaches past the ring's end, until *)
(* unplayed frames are overwritten or a period is given up half way.        *)
THEOREM FramesPlayInOrder == AudioAppSpec => []PlaysInOrder
<1>1. AudioAppInit => RingType /\ OrderInv
  <2>1. ASSUME AudioAppInit PROVE RingType
    BY <2>1, BoundFacts DEF AudioAppInit, RingType, Readers, Writers
  <2>2. ASSUME AudioAppInit PROVE OrderInv
    BY <2>2, BoundFacts DEF AudioAppInit, OrderInv, CountInv, PlaceInv, Pending
  <2>3. QED BY <2>1, <2>2
<1>2. RingType /\ OrderInv /\ [AudioAppNext]_audioAppVars => (RingType /\ OrderInv)'
  BY RingTypeStep, OrderStep
<1>3. RingType /\ OrderInv => PlaysInOrder
  <2> SUFFICES ASSUME RingType, CountInv, PlaceInv
               PROVE  /\ writer.at + writer.cptr <= Frames
                      /\ writer.cptr <= ready
                      /\ ready <= captured - played
                      /\ \A i \in 0 .. ready - 1 :
                           ring[(writer.at + i) % Frames] = played + i + 1
    BY DEF OrderInv, PlaysInOrder
  <2> USE BoundFacts DEF RingType, Readers, Writers, Pending
  <2>1. writer.at + writer.cptr <= Frames /\ writer.cptr <= ready /\ ready <= captured - played
    BY DEF CountInv
  <2>2. ASSUME NEW i \in 0 .. ready - 1
        PROVE  ring[(writer.at + i) % Frames] = played + i + 1
    <3>1. i \in 0 .. Pending - 1 /\ i \in 0 .. Frames - 1
      BY <2>1 DEF CountInv
    <3>2. writer.at \in Place
      BY DEF Place
    <3>3. QED BY <3>1, <3>2, RoundIsModulo DEF PlaceInv
  <2>3. QED BY <2>1, <2>2
<1>4. QED BY <1>1, <1>2, <1>3, PTL DEF AudioAppSpec

-------------------------------------------------------------------------------
(* The Capture tool: buffers the driver has. *)
Given == {b \in Slots : owner[b] # "app"}

Steps == {"none", "queue", "on", "loop", "take", "requeue", "off", "drain", "ended"}

ToolType ==
  /\ owner \in [Slots -> {"app", "queued", "done"}]
  /\ thread \in [pc : Steps, i : Nat, frame : Nat]
  /\ thread.pc \in {"none", "queue", "requeue", "drain"} => thread.i \in Slots

(* Where main() is when the thread runs, and when there is memory. *)
MainInv ==
  /\ thread.pc \notin {"none", "ended"} => main = "join"
  /\ main \in {"setup", "control", "open", "memory", "parameters", "start"} => thread.pc = "none"
  /\ main = "uninitialise" => thread.pc = "ended"
  /\ main \in {"parameters", "start", "join", "uninitialise"} => Wanted \subseteq memory

(* When the driver has none of the buffers: before the thread, when frames  *)
(* are read, and after it unless a call failed.  While it drains there are  *)
(* no more of them than turns of its last loop.                             *)
GivenInv ==
  /\ thread.pc = "none" => Given = {}
  /\ Value("io") = "read" => Given = {} /\ thread.pc \in {"none", "loop", "take", "ended"}
  /\ thread.pc = "ended" /\ ~fault => Given = {}
  /\ thread.pc = "drain" /\ ~fault => Cardinality(Given) <= NumBuffers - thread.i

(* The memory the driver may hold can be counted. *)
LEMMA GivenFinite ==
IsFiniteSet(Given) /\ Cardinality(Given) \in 0 .. NumBuffers
<1>1. IsFiniteSet(Slots) /\ Cardinality(Slots) = NumBuffers
  BY CaptureToolAssumption, FS_Interval DEF Slots
<1>2. Given \subseteq Slots
  BY DEF Given
<1>3. QED BY <1>1, <1>2, FS_Subset, FS_CardinalityType

(* What a step that gives or takes no buffer leaves. *)
LEMMA GivenSame ==
ASSUME \A b \in Slots : owner'[b] # "app" <=> owner[b] # "app"
PROVE  Given' = Given
BY Zenon DEF Given

(* One that takes a buffer takes it from the driver. *)
LEMMA GivenTaken ==
ASSUME ToolType, NEW b \in Slots, owner' = [owner EXCEPT ![b] = "app"]
PROVE  Given' = Given \ {b}
BY DEF Given, ToolType

(* A step keeps the types; the index of a loop over the buffers is one. *)
LEMMA ToolTypeStep ==
ASSUME ToolType, MainInv, [ToolNext]_toolVars
PROVE  ToolType'
<1> USE CaptureToolAssumption DEF ToolType, Steps, Slots
<1>1. CASE Main
  <2>1. owner' = owner \/ owner' = [b \in Slots |-> "app"]
    BY <1>1 DEF Main, Setup, OpenCaptureDeviceControl, OpenCaptureDevice, InitialiseBuffers,
                InitialiseCapture, StartCapture, JoinCaptureThread, UninitialiseBuffers,
                CloseCaptureDevice, driverVars
  <2>2. thread' = thread \/ StartCapture
    BY <1>1 DEF Main, Setup, OpenCaptureDeviceControl, OpenCaptureDevice, InitialiseBuffers,
                InitialiseCapture, JoinCaptureThread, UninitialiseBuffers, CloseCaptureDevice
  <2>3. CASE thread' = thread
    BY <2>1, <2>3
  <2>4. CASE StartCapture
    <3>1. thread.pc = "none"
      BY <2>4 DEF StartCapture, Goes, MainInv
    <3>2. \/ thread' = thread
          \/ thread' = [thread EXCEPT !.pc = "loop"]
          \/ thread' = [thread EXCEPT !.pc = "queue"]
      BY <2>4 DEF StartCapture
    <3>3. thread' \in [pc : Steps, i : Nat, frame : Nat] /\ thread'.i = thread.i
      BY <3>2
    <3>4. QED BY <2>1, <3>1, <3>3
  <2>5. QED BY <2>2, <2>3, <2>4
<1>2. CASE QueueBuffer
  <2>1. owner' \in [Slots -> {"app", "queued", "done"}]
    BY <1>2 DEF QueueBuffer
  <2>2. thread.i \in 0 .. NumBuffers - 1
    BY <1>2 DEF QueueBuffer
  <2>3. CASE thread' = [thread EXCEPT !.i = @ + 1,
                                      !.pc = IF thread.i = NumBuffers - 1 THEN "on" ELSE @]
    <3>1. thread' = [pc |-> IF thread.i = NumBuffers - 1 THEN "on" ELSE thread.pc,
                     i |-> thread.i + 1, frame |-> thread.frame]
      BY <2>3
    <3>2. thread.pc = "queue"
      BY <1>2 DEF QueueBuffer
    <3>3. QED BY <2>1, <2>2, <3>1, <3>2
  <2>4. CASE Ended
    BY <2>1, <2>4 DEF Ended
  <2>5. QED BY <1>2, <2>3, <2>4 DEF QueueBuffer
<1>3. CASE StreamOn \/ Loop \/ StreamOff
  <2>1. owner' = owner
    BY <1>3 DEF StreamOn, Loop, StreamOff, driverVars
  <2>2. CASE StreamOn
    BY <2>1, <2>2 DEF StreamOn, Ended
  <2>3. CASE Loop
    BY <2>1, <2>3 DEF Loop
  <2>4. CASE StreamOff
    <3>1. thread' = [pc |-> "drain", i |-> 0, frame |-> thread.frame]
      BY <2>4 DEF StreamOff
    <3>2. QED BY <2>1, <3>1
  <2>5. QED BY <1>3, <2>2, <2>3, <2>4
<1>4. Counted \in Nat
  BY DEF Counted
<1>5. CASE Read
  BY <1>4, <1>5 DEF Read, Ended, driverVars
<1>6. CASE Dequeue
  BY <1>4, <1>6 DEF Dequeue, Ended
<1>7. CASE Requeue
  BY <1>7 DEF Requeue, Ended
<1>8. CASE Drain
  <2>1. owner' \in [Slots -> {"app", "queued", "done"}]
    BY <1>8 DEF Drain
  <2>2. thread' = [pc |-> IF thread.i >= NumBuffers - 1 THEN "ended" ELSE thread.pc,
                   i |-> thread.i + 1, frame |-> thread.frame]
    BY <1>8 DEF Drain, Drained
  <2>3. thread.i \in 0 .. NumBuffers - 1 /\ thread.pc = "drain"
    BY <1>8 DEF Drain
  <2>4. QED BY <2>1, <2>2, <2>3
<1>9. CASE Fill
  BY <1>9 DEF Fill
<1>10. CASE signal_handler \/ UNCHANGED toolVars
  BY <1>10 DEF signal_handler, toolVars, driverVars
<1>11. QED BY <1>1, <1>2, <1>3, <1>5, <1>6, <1>7, <1>8, <1>9, <1>10
       DEF ToolNext, CaptureThreadFunc

(* Memory is taken back in one step of main(), after the thread has ended. *)
LEMMA MainStep ==
ASSUME ToolType, MainInv, [ToolNext]_toolVars
PROVE  MainInv'
<1> USE DEF MainInv, ToolType, Steps, Goes
<1>1. ASSUME UNCHANGED values PROVE Wanted' = Wanted
  BY <1>1 DEF Wanted, Value
<1>2. CASE Setup \/ OpenCaptureDeviceControl \/ OpenCaptureDevice
  BY <1>2 DEF Setup, OpenCaptureDeviceControl, OpenCaptureDevice
<1>3. CASE InitialiseBuffers
  BY <1>1, <1>3 DEF InitialiseBuffers
<1>4. CASE InitialiseCapture
  BY <1>1, <1>4 DEF InitialiseCapture
<1>5. CASE StartCapture
  BY <1>1, <1>5 DEF StartCapture
<1>6. CASE JoinCaptureThread
  BY <1>1, <1>6 DEF JoinCaptureThread
<1>7. CASE UninitialiseBuffers
  BY <1>7 DEF UninitialiseBuffers
<1>8. CASE CloseCaptureDevice
  BY <1>8 DEF CloseCaptureDevice
<1>9. CASE CaptureThreadFunc
  <2>1. UNCHANGED mainVars
    BY <1>9 DEF CaptureThreadFunc, QueueBuffer, StreamOn, Loop, Read, Dequeue, Requeue,
                StreamOff, Drain
  <2>2. thread.pc \notin {"none", "ended"}
    BY <1>9 DEF CaptureThreadFunc, QueueBuffer, StreamOn, Loop, Read, Dequeue, Requeue,
                StreamOff, Drain
  <2>3. main = "join" /\ Wanted' \subseteq memory' /\ main' = "join"
    BY <1>1, <2>1, <2>2 DEF mainVars
  <2>4. QED BY <2>3
<1>10. CASE Fill \/ signal_handler \/ UNCHANGED toolVars
  <2>1. UNCHANGED <<main, values, memory, thread>>
    BY <1>10 DEF Fill, signal_handler, toolVars, mainVars
  <2>2. QED BY <1>1, <2>1
<1>11. QED BY <1>2, <1>3, <1>4, <1>5, <1>6, <1>7, <1>8, <1>9, <1>10 DEF ToolNext, Main

(* The steps of the thread, by what they do to the buffers. *)
LEMMA GivenStep ==
ASSUME ToolType, MainInv, GivenInv, [ToolNext]_toolVars
PROVE  GivenInv'
<1> USE CaptureToolAssumption, GivenFinite DEF GivenInv
<1>1. ASSUME UNCHANGED values PROVE Value("io")' = Value("io")
  BY <1>1 DEF Value
<1>2. ASSUME UNCHANGED owner PROVE Given' = Given
  BY <1>2 DEF Given
<1>3. CASE Setup
  BY <1>2, <1>3 DEF Setup, Goes, MainInv, driverVars
<1>4. CASE OpenCaptureDeviceControl \/ OpenCaptureDevice \/ InitialiseBuffers \/ InitialiseCapture
           \/ JoinCaptureThread \/ UninitialiseBuffers
  <2>1. UNCHANGED <<values, owner, thread>> /\ (fault' = fault \/ fault' = TRUE)
    BY <1>4 DEF OpenCaptureDeviceControl, OpenCaptureDevice, InitialiseBuffers,
                InitialiseCapture, JoinCaptureThread, UninitialiseBuffers, driverVars, Fails
  <2>2. QED BY <1>1, <1>2, <2>1
<1>5. CASE StartCapture
  BY <1>1, <1>2, <1>5 DEF StartCapture, Goes, MainInv, ToolType, driverVars, Fails
<1>6. CASE CloseCaptureDevice
  <2>1. Given' = {}
    BY <1>6 DEF CloseCaptureDevice, Given
  <2>2. thread' = thread /\ values' = values
    BY <1>6 DEF CloseCaptureDevice
  <2>3. thread.pc \in {"none", "ended"}
    BY <1>6 DEF CloseCaptureDevice, Goes, MainInv
  <2>4. QED BY <1>1, <2>1, <2>2, <2>3
<1>7. CASE QueueBuffer
  <2>1. Value("io") # "read"
    BY <1>7 DEF QueueBuffer
  <2>2. Value("io")' # "read"
    BY <1>1, <1>7, <2>1 DEF QueueBuffer, mainVars
  <2>3. thread'.pc \in {"queue", "on"} \/ (thread'.pc = "ended" /\ fault' = TRUE)
    BY <1>7 DEF QueueBuffer, Ended, Fails, ToolType
  <2>4. QED BY <2>2, <2>3
<1>8. CASE StreamOn
  <2>1. Value("io")' # "read"
    BY <1>1, <1>8 DEF StreamOn, mainVars
  <2>2. thread'.pc = "loop" \/ (thread'.pc = "ended" /\ fault' = TRUE)
    BY <1>8 DEF StreamOn, Ended, Fails, ToolType
  <2>3. QED BY <2>1, <2>2
<1>9. CASE Loop
  <2>1. UNCHANGED <<values, owner, fault>>
    BY <1>9 DEF Loop, mainVars, driverVars
  <2>2. \/ thread'.pc \in {"take", "off"} /\ (Value("io") = "read" => thread'.pc = "take")
        \/ thread'.pc = "ended" /\ Value("io") = "read"
    BY <1>9 DEF Loop, ToolType
  <2>3. QED BY <1>1, <1>2, <2>1, <2>2
<1>10. CASE Read
  <2>1. UNCHANGED <<values, owner>> /\ Value("io") = "read"
    BY <1>10 DEF Read, mainVars, driverVars
  <2>2. thread'.pc \in {"loop", "ended"}
    BY <1>10 DEF Read, Ended, ToolType
  <2>3. QED BY <1>1, <1>2, <2>1, <2>2
<1>11. CASE Dequeue \/ Requeue
  <2>1. Value("io")' # "read"
    BY <1>1, <1>11 DEF Dequeue, Requeue, mainVars
  <2>2. thread'.pc \in {"requeue", "loop"} \/ (thread'.pc = "ended" /\ fault' = TRUE)
    BY <1>11 DEF Dequeue, Requeue, Ended, Fails, ToolType
  <2>3. QED BY <2>1, <2>2
<1>12. CASE StreamOff
  <2>1. Value("io")' # "read"
    BY <1>1, <1>12 DEF StreamOff, mainVars
  <2>2. owner' = owner /\ thread'.pc = "drain" /\ thread'.i = 0
    BY <1>12 DEF StreamOff, ToolType
  <2>3. QED BY <1>2, <2>1, <2>2
<1>13. CASE Drain
  <2>1. Value("io")' # "read"
    BY <1>1, <1>13 DEF Drain, mainVars
  <2>2. /\ thread.pc = "drain" /\ thread.i \in 0 .. NumBuffers - 1 /\ thread'.i = thread.i + 1
        /\ thread'.pc = IF thread.i >= NumBuffers - 1 THEN "ended" ELSE "drain"
    BY <1>13 DEF Drain, Drained, ToolType, Slots
  <2>3. ASSUME ~fault' PROVE Given' = {} \/ Cardinality(Given') <= NumBuffers - thread'.i
    <3>1. fault' = fault
      BY <1>13, <2>3 DEF Drain, Fails
    <3>2. Cardinality(Given) <= NumBuffers - thread.i
      BY <2>2, <2>3, <3>1
    <3>3. CASE \E b \in Slots : owner[b] # "app" /\ owner' = [owner EXCEPT ![b] = "app"]
      <4>1. PICK b \in Slots : owner[b] # "app" /\ owner' = [owner EXCEPT ![b] = "app"]
        BY <3>3
      <4>2. Given' = Given \ {b} /\ b \in Given
        BY <4>1, GivenTaken DEF Given
      <4>3. Cardinality(Given') = Cardinality(Given) - 1
        BY <4>2, FS_RemoveElement
      <4>4. QED BY <2>2, <3>2, <4>3
    <3>4. CASE (\A b \in Slots : owner[b] = "app") /\ UNCHANGED owner
      BY <1>2, <3>4 DEF Given
    <3>5. QED BY <1>13, <2>3, <3>3, <3>4 DEF Drain, Fails
  <2>4. IsFiniteSet(Given') /\ Cardinality(Given') \in Nat
    <3>1. Given' \subseteq Slots
      BY DEF Given
    <3>2. IsFiniteSet(Slots)
      BY FS_Interval DEF Slots
    <3>3. QED BY <3>1, <3>2, FS_Subset, FS_CardinalityType
  <2>5. ASSUME ~fault', thread'.pc = "ended" PROVE Given' = {}
    <3>1. NumBuffers - thread'.i <= 0
      BY <2>2, <2>5
    <3>2. QED BY <2>2, <2>3, <2>4, <2>5, <3>1, FS_EmptySet
  <2>6. ASSUME ~fault', thread'.pc = "drain"
        PROVE  Cardinality(Given') <= NumBuffers - thread'.i
    <3>1. CASE Given' = {}
      <4>1. Cardinality(Given') = 0
        BY <3>1, FS_EmptySet
      <4>2. QED BY <2>2, <2>6, <4>1
    <3>2. QED BY <2>3, <2>6, <3>1
  <2>7. QED BY <2>1, <2>2, <2>5, <2>6
<1>14. CASE Fill
  <2>1. Given' = Given
    BY <1>14 DEF Fill, Given, ToolType
  <2>2. UNCHANGED <<values, thread, fault>>
    BY <1>14 DEF Fill, mainVars
  <2>3. QED BY <1>1, <2>1, <2>2
<1>15. CASE signal_handler \/ UNCHANGED toolVars
  <2>1. UNCHANGED <<values, owner, thread, fault>>
    BY <1>15 DEF signal_handler, toolVars, driverVars
  <2>2. QED BY <1>1, <1>2, <2>1
<1>16. QED BY <1>3, <1>4, <1>5, <1>6, <1>7, <1>8, <1>9, <1>10, <1>11, <1>12, <1>13, <1>14, <1>15
       DEF ToolNext, Main, CaptureThreadFunc

(* Whatever the command line and wherever SIGINT falls, main() of the       *)
(* Capture tool frees or unmaps memory only when the driver has none of it  *)
(* and the capture thread has ended, unless a call has failed.              *)
THEOREM HeldMemoryAlwaysExists == ToolSpec => []HeldMemoryExists
<1>1. ToolInit => ToolType /\ MainInv /\ GivenInv
  <2> SUFFICES ASSUME ToolInit PROVE ToolType /\ MainInv /\ GivenInv
    OBVIOUS
  <2>1. ToolType
    BY CaptureToolAssumption DEF ToolInit, ToolType, Steps, Slots
  <2>2. MainInv
    BY DEF ToolInit, MainInv
  <2>3. Given = {} /\ thread.pc = "none"
    BY DEF ToolInit, Given
  <2>4. QED BY <2>1, <2>2, <2>3 DEF GivenInv
<1>2. ToolType /\ MainInv /\ GivenInv /\ [ToolNext]_toolVars => (ToolType /\ MainInv /\ GivenInv)'
  BY ToolTypeStep, MainStep, GivenStep
<1>3. ToolType /\ MainInv /\ GivenInv => HeldMemoryExists
  <2> SUFFICES ASSUME ToolType, MainInv, GivenInv PROVE HeldMemoryExists
    OBVIOUS
  <2>1. thread.pc \notin {"none", "ended"} => Wanted \subseteq memory
    BY DEF MainInv
  <2>2. ASSUME ~fault, NEW b \in Slots, owner[b] # "app" PROVE b \in memory
    <3>1. Given # {}
      BY <2>2 DEF Given
    <3>2. thread.pc \notin {"none", "ended"} /\ Value("io") # "read"
      BY <2>2, <3>1 DEF GivenInv
    <3>3. Wanted = Slots
      BY <3>2 DEF Wanted
    <3>4. QED BY <2>1, <3>2, <3>3
  <2>3. QED BY <2>1, <2>2 DEF HeldMemoryExists
<1>4. QED BY <1>1, <1>2, <1>3, PTL DEF ToolSpec


-------------------------------------------------------------------------------
(* The default device *)

(* With any number of cards, the default device is the first of those that *)
(* are listed, whatever the stream and whatever comes after it, unless a   *)
(* card before it is broken.                                               *)
THEOREM DefaultIsFirst ==
  ASSUME NEW cards, NEW n \in Nat, DOMAIN cards = 1 .. n, NEW stream,
         NEW k \in list_alsa_devices(cards, stream),
         \A i \in 1 .. k : cards[i].opens /\ cards[i].pcm
  PROVE  /\ acquire_default_device(cards, stream) \in list_alsa_devices(cards, stream)
         /\ \A i \in list_alsa_devices(cards, stream) : acquire_default_device(cards, stream) <= i
<1> DEFINE listed == list_alsa_devices(cards, stream)
           ends == {i \in DOMAIN cards :
                      ~cards[i].opens \/ ~cards[i].pcm \/ Suitable(cards[i], stream)}
<1>1. /\ listed = {i \in 1 .. n : cards[i].opens /\ cards[i].pcm /\ Suitable(cards[i], stream)}
      /\ listed \subseteq ends /\ ends \subseteq 1 .. n
  BY DEF list_alsa_devices, Suitable
<1>2. acquire_default_device(cards, stream)
      = IF ends = {} THEN Len(cards) ELSE CHOOSE i \in ends : \A j \in ends : i <= j
  BY DEF acquire_default_device
<1>3. \A i \in ends : (cards[i].opens /\ cards[i].pcm) => i \in listed
  BY <1>1
<1> HIDE DEF listed, ends
<1>4. PICK m \in ends : \A j \in ends : m <= j
  <2>1. ends \in SUBSET Nat /\ k \in ends
    BY <1>1 DEF listed
  <2>2. QED BY <2>1, Least
<1>5. (CHOOSE i \in ends : \A j \in ends : i <= j) = m
  <2>1. \A i \in ends : (\A j \in ends : i <= j) => i = m
    BY <1>1, <1>4
  <2>2. QED BY <1>4, <2>1
<1>6. acquire_default_device(cards, stream) = m
  BY <1>2, <1>4, <1>5
<1>7. m \in listed
  <2>1. k \in ends /\ m <= k /\ m \in 1 .. n /\ k \in 1 .. n
    BY <1>1, <1>4 DEF listed
  <2>2. m \in 1 .. k
    BY <2>1
  <2>3. QED BY <1>3, <1>4, <2>2
<1>8. QED BY <1>1, <1>4, <1>6, <1>7 DEF listed

-------------------------------------------------------------------------------
(* The parts side by side *)

(* A step of one part is none of another, and a step of Periphery is one of a *)
(* part.                                                                      *)
LEMMA StepOfPart ==
ASSUME [Next]_vars
PROVE  /\ [ListNext]_listVars
       /\ [WorkNext]_workVars
       /\ [DmaNext]_dmaVars
       /\ [AudioNext]_audioVars
       /\ [AudioAppNext]_audioAppVars
       /\ [ToolNext]_toolVars
<1> USE DEF winVars, appVars
<1>1. CASE Lists
  BY <1>1 DEF Lists
<1>2. CASE Dma
  BY <1>2 DEF Dma
<1>3. CASE Card
  BY <1>3 DEF Card
<1>4. CASE Sound
  BY <1>4 DEF Sound
<1>5. CASE Work(WorkNext)
  BY <1>5 DEF Work
<1>6. CASE Picture(ToolNext)
  BY <1>6 DEF Picture
<1>7. CASE UNCHANGED vars
  BY <1>7 DEF vars
<1>8. QED BY <1>1, <1>2, <1>3, <1>4, <1>5, <1>6, <1>7 DEF Next

(* Periphery is its parts: whatever it does, each of them does what its own *)
(* specification allows.                                                    *)
THEOREM PeripheryImplementsParts ==
  Spec => /\ ListSpec
          /\ WorkSpec
          /\ DmaSpec
          /\ AudioSpec
          /\ AudioAppSpec
          /\ ToolSpec
<1>1. Init => ListInit /\ WorkInit /\ DmaInit /\ AudioInit
               /\ AudioAppInit /\ ToolInit
  BY DEF Init
<1>2. [Next]_vars => [ListNext]_listVars /\ [WorkNext]_workVars /\ [DmaNext]_dmaVars
                      /\ [AudioNext]_audioVars /\ [AudioAppNext]_audioAppVars /\ [ToolNext]_toolVars
  BY StepOfPart
<1>3. QED BY <1>1, <1>2, PTL DEF Spec, ListSpec, WorkSpec, DmaSpec, AudioSpec, AudioAppSpec, ToolSpec

(* So all that was proved of the parts holds of them side by side, in the   *)
(* specification the run checks.                                            *)
THEOREM PeripherySafe ==
  Spec => [](/\ ListsMatch /\ OwedIsComing /\ BoardHasBuffer /\ PagesHeld
             /\ CapsInForce /\ MixerTold /\ PlaysInOrder /\ HeldMemoryExists)
BY PeripheryImplementsParts, ListsAlwaysMatch, OwedIsAlwaysComing, BoardAlwaysHasBuffer,
   PagesAlwaysHeld, CapsStayInForce, MixerAlwaysTold, FramesPlayInOrder,
   HeldMemoryAlwaysExists, PTL
================================================================================
