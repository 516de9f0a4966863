------------------------------ MODULE CaptureAudio -----------------------------
(***************************************************************************)
(* The CaptureAudio tool: after choosing devices and parameters it copies  *)
(* sound from a capture device to a playback device.  read_in() puts what  *)
(* the driver has into a ring, write_out() plays a period at a time once   *)
(* enough is there; a count of ready frames, under a mutex, is all that is *)
(* between them.  Captured frames are numbered from one.                   *)
(***************************************************************************)
EXTENDS Integers, Sequences, FiniteSets

CONSTANTS
  Period,       (* period_size and period_size_cap                           *)
  Periods,      (* buffers_cap_no                                            *)
  MaxFrames     (* bound on the frames captured                              *)

ASSUME CaptureAudioAssumption ==
  Period \in Nat \ {0} /\ Periods \in Nat \ {0} /\ MaxFrames \in Nat

VARIABLES
  ring,         (* the frame at each place of the buffers                    *)
  reader,       (* pc, where to read in, the space left there, frames read   *)
  writer,       (* pc, where to write out, frames left of the period, and    *)
                (* the frames just played                                    *)
  ready,        (* numFramesReady                                            *)
  started,      (* is_started                                                *)
  captured, played, (* frames read in, and accounted as written out          *)
  overrun,      (* unplayed frames were overwritten                          *)
  torn          (* a period was given up after a part of it had been played  *)

audioAppVars == <<ring, reader, writer, ready, started, captured, played, overrun, torn>>

Frames == Period * Periods
Place  == 0 .. Frames - 1

-------------------------------------------------------------------------------
(* Devices and parameters.  A card is [opens, pcm, captures, plays, ours]. *)

Suitable(card, stream) ==
  IF stream = "capture" THEN card.captures /\ card.ours ELSE card.plays

(* acquire_default_device: the first card that will do; the name of the    *)
(* last one looked at when there is none, or when a card is broken.        *)
acquire_default_device(cards, stream) ==
  LET ends == {i \in DOMAIN cards :
                 ~cards[i].opens \/ ~cards[i].pcm \/ Suitable(cards[i], stream)}
      first == CHOOSE i \in ends : \A j \in ends : i <= j IN
  IF ends = {} THEN Len(cards) ELSE first

(* list_alsa_devices: every card that opens; for capture only ours. *)
list_alsa_devices(cards, stream) ==
  {i \in DOMAIN cards : /\ cards[i].opens /\ cards[i].pcm
                        /\ IF stream = "capture" THEN cards[i].captures /\ cards[i].ours
                           ELSE cards[i].plays}

(* set_hwparams_capture: what is not supported falls back to a default,    *)
(* the rate to a near one.                                                 *)
set_hwparams_capture(want, hw) ==
  LET format   == IF want.format \in hw.formats THEN want.format ELSE "S16"
      channels == IF want.channels \in hw.channels THEN want.channels ELSE 2 IN
  IF format \notin hw.formats \/ channels \notin hw.channels THEN {}
  ELSE {[format |-> format, channels |-> channels, rate |-> r] :
           r \in IF want.rate \in hw.rates THEN {want.rate} ELSE hw.rates}

(* set_hwparams_playback: only the rate may be another. *)
set_hwparams_playback(want, hw) ==
  IF want.format \notin hw.formats \/ want.channels \notin hw.channels THEN {}
  ELSE {[want EXCEPT !.rate = r] : r \in IF want.rate \in hw.rates THEN {want.rate} ELSE hw.rates}

(* The default device for capture is one of the driver when there is one   *)
(* and no card before it is broken.                                        *)
ASSUME DefaultIsOurs ==
  LET Cards == [opens : BOOLEAN, pcm : {TRUE}, captures : BOOLEAN, plays : {TRUE}, ours : BOOLEAN] IN
  \A cards \in Cards \X Cards :
    (\A i \in 1 .. 2 : cards[i].opens) /\ list_alsa_devices(cards, "capture") # {} =>
      acquire_default_device(cards, "capture") \in list_alsa_devices(cards, "capture")

-------------------------------------------------------------------------------
AudioAppInit ==
  /\ ring = [i \in Place |-> 0]
  /\ reader = [pc |-> "read", at |-> 0, space |-> Frames, got |-> 0]
  /\ writer = [pc |-> "wait", at |-> 0, cptr |-> 0, put |-> 0]
  /\ ready = 0 /\ started = FALSE
  /\ captured = 0 /\ played = 0
  /\ overrun = FALSE /\ torn = FALSE

(* read_in: the driver has n frames and there is space for them. *)
ReadIn(n) ==
  /\ reader.pc = "read" /\ n \in 1 .. reader.space /\ captured + n <= MaxFrames
  /\ ring' = [i \in Place |->
       IF i \in reader.at .. reader.at + n - 1 THEN captured + (i - reader.at) + 1 ELSE ring[i]]
  /\ captured' = captured + n
  /\ overrun' = (overrun \/ captured + n - played > Frames)
  /\ reader' = IF reader.space = n
               THEN [pc |-> "count", at |-> 0, space |-> Frames, got |-> n]
               ELSE [pc |-> "count", at |-> reader.at + n, space |-> reader.space - n, got |-> n]
  /\ UNCHANGED <<writer, ready, started, played, torn>>

(* modify_num_frames_ready, under its mutex. *)
Increased(n) == IF ready + n > Frames THEN Frames ELSE ready + n
Decreased(n) == IF n > ready THEN 0 ELSE ready - n

Count ==
  /\ reader.pc = "count"
  /\ ready' = Increased(reader.got)
  /\ reader' = [reader EXCEPT !.pc = "signal"]
  /\ UNCHANGED <<ring, writer, started, captured, played, overrun, torn>>

(* The signal is lost on a writer that does not wait. *)
Signal ==
  /\ reader.pc = "signal"
  /\ reader' = [reader EXCEPT !.pc = "read"]
  /\ started' = (started \/ ready >= 3 * Period)
  /\ writer' = IF started' /\ writer.pc = "wait" THEN [writer EXCEPT !.pc = "look"] ELSE writer
  /\ UNCHANGED <<ring, ready, captured, played, overrun, torn>>

(* write_out: whole periods, as long as there are. *)
Look ==
  /\ writer.pc = "look"
  /\ writer' = IF ready >= Period THEN [writer EXCEPT !.pc = "play", !.cptr = Period]
               ELSE [writer EXCEPT !.pc = "wait"]
  /\ UNCHANGED <<ring, reader, ready, started, captured, played, overrun, torn>>

Play(n) ==
  /\ writer.pc = "play" /\ n \in 1 .. writer.cptr
  /\ writer' = [writer EXCEPT !.pc = "account", !.put = n]
  /\ UNCHANGED <<ring, reader, ready, started, captured, played, overrun, torn>>

(* An underrun: xrun_recovery, and the rest of the period is put off. *)
PlayFails ==
  /\ writer.pc = "play"
  /\ writer' = [writer EXCEPT !.pc = "look", !.cptr = 0]
  /\ torn' = (torn \/ writer.cptr # Period)
  /\ UNCHANGED <<ring, reader, ready, started, captured, played, overrun>>

(* Mutant: the pointer is set back one period too late. *)
Wrapped_Late(at) == IF at > Frames THEN 0 ELSE at

Wrapped(at) == IF at >= Frames THEN 0 ELSE at

Account ==
  /\ writer.pc = "account"
  /\ ready' = Decreased(writer.put)
  /\ played' = played + writer.put
  /\ LET left == writer.cptr - writer.put IN
     writer' = [pc |-> IF left > 0 THEN "play" ELSE "look",
                at |-> Wrapped(writer.at + writer.put), cptr |-> left, put |-> 0]
  /\ UNCHANGED <<ring, reader, started, captured, overrun, torn>>

AudioAppNext ==
  \/ \E n \in 1 .. Frames : ReadIn(n)
  \/ Count \/ Signal
  \/ \E n \in 1 .. Period : Play(n)
  \/ Look \/ PlayFails \/ Account

AudioAppSpec == AudioAppInit /\ [][AudioAppNext]_audioAppVars

-------------------------------------------------------------------------------
(* The next frames to be played are the next ones that were captured, and  *)
(* a call never reaches past the end of the ring, for as long as playing   *)
(* has kept up with capturing and no period was given up half way: for all *)
(* sizes of reads and writes and all interleavings of the two threads.     *)
PlaysInOrder ==
  ~overrun /\ ~torn =>
    /\ writer.at + writer.cptr <= Frames
    /\ writer.cptr <= ready
    /\ ready <= captured - played
    /\ \A i \in 0 .. ready - 1 : ring[(writer.at + i) % Frames] = played + i + 1
===============================================================================
