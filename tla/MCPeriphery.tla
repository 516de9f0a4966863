------------------------------- MODULE MCPeriphery -----------------------------
(* Two rings and one interlocked list; a work item and a DPC; two buffers in  *)
(* pages of two bytes; an analogue sound card; command lines with every way  *)
(* of capturing, and with what SetupValues refuses.                           *)
EXTENDS Periphery

Runs == [w \in Works |-> w]

MCParams == {"p", "q"}
MCLevels == 0 .. 1
MCMixers == {"m1", "m2"}

Given(io, count) ==
  [io |-> io, count |-> count, width |-> {}, height |-> {}, pixfmt |-> {}, rate |-> {},
   compose |-> <<>>, crop |-> <<>>, delay |-> 0]

MCCommandLines ==
  {Given(io, count) : io \in {{}, {"mmap"}, {"userptr"}, {"none"}}, count \in {0, 1, 2}}
  \cup {[Given({"mmap"}, 1) EXCEPT !.width = {w}, !.pixfmt = {p}] :
          w \in {0, 800, 4097}, p \in {"RV24", "RV33"}}
  \cup {[Given({}, 1) EXCEPT !.compose = c, !.rate = {r}, !.delay = 20000] :
          c \in {<<0, 0, 8>>, <<0, 0, 8, 8, 1>>}, r \in {2500, 100001}}
===============================================================================
