-------------------------------- MODULE Periphery ------------------------------
(***************************************************************************)
(* What stands around the capture path: the Windows layer the core is      *)
(* written against (lists, work, memory for DMA), the sound card, and the  *)
(* two capture tools.  They share no state: a behaviour is one of a part.  *)
(***************************************************************************)
EXTENDS WinLists, WinWork, WinDma, WinStrings, Audio, CaptureAudio, CaptureTool

VARIABLE part

winVars == <<listVars, workVars, dmaVars>>
appVars == <<audioVars, audioAppVars, toolVars>>
vars    == <<winVars, appVars, part>>

Parts == {"lists", "work", "dma", "card", "sound", "picture"}

Init ==
  /\ ListInit /\ WorkInit /\ DmaInit /\ AudioInit /\ AudioAppInit /\ ToolInit
  /\ part \in Parts
  /\ part = "picture" \/ args = CHOOSE a \in CommandLines : TRUE
  /\ part = "card" \/ hardware = CHOOSE h \in [Controls -> Levels] : \A c, d \in Controls : h[c] = h[d]

Lists == part = "lists" /\ ListNext /\ UNCHANGED <<workVars, dmaVars, appVars, part>>
Dma   == part = "dma" /\ DmaNext /\ UNCHANGED <<listVars, workVars, appVars, part>>
Card  == part = "card" /\ AudioNext /\ UNCHANGED <<winVars, audioAppVars, toolVars, part>>
Sound == part = "sound" /\ AudioAppNext /\ UNCHANGED <<winVars, audioVars, toolVars, part>>

Work(A)    == part = "work" /\ A /\ UNCHANGED <<listVars, dmaVars, appVars, part>>
Picture(A) == part = "picture" /\ A /\ UNCHANGED <<winVars, audioVars, audioAppVars, part>>

Next == Lists \/ Dma \/ Card \/ Sound \/ Work(WorkNext) \/ Picture(ToolNext)

Spec == Init /\ [][Next]_vars

(* The kernel's worker keeps taking up, calling and finishing work.        *)
WorkFairness == \A w \in Works : WF_vars(Work(Kernel(w)))

(* Both threads of the Capture tool run, and the board goes on filling     *)
(* buffers.                                                                *)
ToolFairness ==
  /\ WF_vars(Picture(Main))
  /\ WF_vars(Picture(CaptureThreadFunc))
  /\ WF_vars(Picture(Fill))

FairSpec == Spec /\ WorkFairness /\ ToolFairness

-------------------------------------------------------------------------------
(* Once SIGINT has come, or when a number of frames was asked for, the     *)
(* Capture tool comes to its end, also when a call fails on the way.       *)
Ends == (part = "picture" /\ (threadStop \/ (values # {} /\ Value("count") > 0))) ~> main = "done"
===============================================================================
