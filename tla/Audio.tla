--------------------------------- MODULE Audio ---------------------------------
(***************************************************************************)
(* The sound card of a board: one PCM for capture, whose callbacks are     *)
(* called in the order ALSA allows, and a mixer whose controls keep a copy *)
(* of what the hardware was told.  The core's calls may fail; what fails   *)
(* leaves the hardware as it was.  ALSA runs the callbacks of a PCM, and   *)
(* those of a card's mixer, one at a time, and tells the subscribers of a  *)
(* control when its put says that it has changed.                          *)
(***************************************************************************)
EXTENDS Naturals, FiniteSets

CONSTANTS
  Source, Embedded,     (* the board's kind of input, and of capture         *)
  Params,               (* format, rate and channels, as one value           *)
  Levels,               (* values of a mute, and of a volume                 *)
  Mixers                (* applications that subscribe to the mixer          *)

ASSUME AudioAssumption == Params # {} /\ Levels # {}

VARIABLES
  pcm,          (* the state ALSA keeps of the PCM                           *)
  audioInit,    (* dev->audioInit of the channel                             *)
  substream,    (* chip->substream is set                                    *)
  runtime,      (* what the application asked for; the DMA area is attached  *)
  caps,         (* what the hardware was set to                              *)
  running,      (* substream_private_data.running                            *)
  cache,        (* chip->linux_audio_config                                  *)
  hardware,     (* the level the hardware has of each control                *)
  view,         (* what each application thinks of each control              *)
  notices       (* changes the applications have not read yet                *)

pcmVars   == <<pcm, audioInit, substream, runtime, caps, running>>
mixerVars == <<cache, hardware, view, notices>>
audioVars == <<pcmVars, mixerVars>>

Unset == "unset"
NoRuntime == [params |-> Unset, area |-> FALSE]

-------------------------------------------------------------------------------
(* rgb133_snd_mixer_create_new: which controls a card has. *)
Mutes   == {"digital_mute", "analog_mute", "sdi_mute"}
Volumes == {"unbalanced", "balanced"}
Controls ==
  IF Source = "HDMI" \/ (Source = "HDMI_OR_ANALOGUE" /\ Embedded) THEN {"digital_mute"}
  ELSE IF Source = "ANALOGUE" \/ (Source \in {"HDMI_OR_ANALOGUE", "SDI_OR_ANALOGUE"} /\ ~Embedded)
  THEN {"analog_mute"} \cup Volumes
  ELSE IF Source = "SDI" \/ (Source = "SDI_OR_ANALOGUE" /\ Embedded) THEN {"sdi_mute"}
  ELSE {}

(* The core stores what the hardware has (AudioUtilsStoreConfigToChip). *)
AudioInit ==
  /\ pcm = "closed" /\ audioInit = FALSE /\ substream = FALSE
  /\ runtime = NoRuntime /\ caps = Unset /\ running = FALSE
  /\ \E l \in Levels : cache = [c \in Controls |-> l]
  /\ hardware = cache
  /\ view = [m \in Mixers |-> cache]
  /\ notices = {}

-------------------------------------------------------------------------------
(* The callbacks of the PCM. *)

Open(initialised, opened) ==
  /\ pcm = "closed"
  /\ audioInit' = (audioInit \/ initialised)
  /\ IF audioInit' /\ opened
     THEN pcm' = "open" /\ substream' = TRUE
     ELSE UNCHANGED <<pcm, substream>>
  /\ runtime' = NoRuntime
  /\ running' = FALSE
  /\ UNCHANGED <<caps, mixerVars>>

(* rgb133_mychip_pcm_hw_params; ALSA takes the PCM back to where it has no  *)
(* parameters, and calls hw_free, when it fails.                           *)
HwParams_Unchecked(p, ok) ==
  /\ pcm \in {"open", "setup", "prepared"}
  /\ runtime' = [params |-> p, area |-> TRUE]
  /\ caps' = IF ok THEN p ELSE caps
  /\ pcm' = "setup"
  /\ UNCHANGED <<audioInit, substream, running, mixerVars>>

HwParams(p, ok) ==
  /\ pcm \in {"open", "setup", "prepared"}
  /\ runtime' = [params |-> p, area |-> ok]
  /\ caps' = IF ok THEN p ELSE caps
  /\ pcm' = IF ok THEN "setup" ELSE "open"
  /\ UNCHANGED <<audioInit, substream, running, mixerVars>>

HwFree ==
  /\ pcm \in {"setup", "prepared"}
  /\ pcm' = "open"
  /\ runtime' = [runtime EXCEPT !.area = FALSE]
  /\ UNCHANGED <<audioInit, substream, caps, running, mixerVars>>

(* rgb133_mychip_pcm_prepare sets the hardware once more and clears the    *)
(* DMA area, which must be there.                                          *)
Prepare(ok) ==
  /\ pcm \in {"setup", "prepared", "xrun"}
  /\ caps' = IF ok THEN runtime.params ELSE caps
  /\ pcm' = IF ok THEN "prepared" ELSE pcm
  /\ UNCHANGED <<audioInit, substream, runtime, running, mixerVars>>

TriggerStart ==
  /\ pcm = "prepared"
  /\ pcm' = "running" /\ running' = TRUE
  /\ UNCHANGED <<audioInit, substream, runtime, caps, mixerVars>>

(* The application stops, or has not read in time. *)
TriggerStop(to) ==
  /\ pcm = "running" /\ to \in {"setup", "xrun"}
  /\ pcm' = to /\ running' = FALSE
  /\ UNCHANGED <<audioInit, substream, runtime, caps, mixerVars>>

(* ALSA stops and frees first; an error of the core loses the private data *)
(* only.                                                                   *)
Close ==
  /\ pcm \notin {"closed", "running"}
  /\ pcm' = "closed" /\ substream' = FALSE
  /\ runtime' = [runtime EXCEPT !.area = FALSE]
  /\ UNCHANGED <<audioInit, caps, running, mixerVars>>

PcmNext ==
  \/ \E i, o \in BOOLEAN : Open(i, o)
  \/ \E p \in Params, ok \in BOOLEAN : HwParams(p, ok)
  \/ \E ok \in BOOLEAN : Prepare(ok)
  \/ \E to \in {"setup", "xrun"} : TriggerStop(to)
  \/ HwFree \/ TriggerStart \/ Close

-------------------------------------------------------------------------------
(* The mixer: rgb133_snd_control_mute_put and _volume_put, which forgets    *)
(* what it has found out about a change.                                   *)
Told(c, changed) == IF changed THEN notices \cup {<<m, c>> : m \in Mixers} ELSE notices

(* Mutant: the level is kept although the hardware refused it. *)
Kept_Always(c, l, ok) == IF cache[c] # l THEN l ELSE cache[c]

Kept(c, l, ok) == IF cache[c] # l /\ ok THEN l ELSE cache[c]

MutePut(c, l, ok) ==
  /\ c \in Controls \cap Mutes
  /\ hardware' = [hardware EXCEPT ![c] = IF cache[c] # l /\ ok THEN l ELSE @]
  /\ cache' = [cache EXCEPT ![c] = Kept(c, l, ok)]
  /\ notices' = Told(c, cache'[c] # cache[c])
  /\ UNCHANGED <<pcmVars, view>>

VolumePut(c, l, ok) ==
  /\ c \in Controls \cap Volumes
  /\ hardware' = [hardware EXCEPT ![c] = IF cache[c] # l /\ ok THEN l ELSE @]
  /\ cache' = [cache EXCEPT ![c] = Kept(c, l, ok)]
  /\ notices' = Told(c, FALSE)
  /\ UNCHANGED <<pcmVars, view>>

(* An application hears of a change and gets the control. *)
Get(m, c) ==
  /\ <<m, c>> \in notices
  /\ notices' = notices \ {<<m, c>>}
  /\ view' = [view EXCEPT ![m][c] = cache[c]]
  /\ UNCHANGED <<pcmVars, cache, hardware>>

MixerNext ==
  \/ \E c \in Controls, l \in Levels, ok \in BOOLEAN : MutePut(c, l, ok) \/ VolumePut(c, l, ok)
  \/ \E m \in Mixers, c \in Controls : Get(m, c)

AudioNext == PcmNext \/ MixerNext

AudioSpec == AudioInit /\ [][AudioNext]_audioVars

-------------------------------------------------------------------------------
(* While an application may prepare, run or recover the stream, the        *)
(* hardware has the parameters it was given and the DMA area is attached,   *)
(* whichever calls failed on the way.                                      *)
CapsInForce ==
  pcm \in {"setup", "prepared", "running", "xrun"} =>
    caps = runtime.params /\ runtime.area /\ substream

(* The levels the driver answers with are those of the hardware, and an    *)
(* application that has read its notifications knows every mute; it may    *)
(* be wrong about a volume.                                                *)
MixerTold ==
  /\ cache = hardware
  /\ \A m \in Mixers, c \in Controls \cap Mutes :
       <<m, c>> \notin notices => view[m][c] = cache[c]
===============================================================================
