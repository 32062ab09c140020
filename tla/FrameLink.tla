----------------------------- MODULE FrameLink ------------------------------
(***************************************************************************)
(* What the SPI controller promises about frames: it is one queue from the *)
(* words written to DR to the words read from DR.  Frames leave it in the  *)
(* order they entered; one is lost only together with a receive overrun,   *)
(* or in a reset.                                                          *)
(***************************************************************************)
EXTENDS Naturals, Sequences

CONSTANTS Frames, Capacity   \* frames the link can hold

VARIABLES link,   \* frames sent and not yet read, oldest first
          ror     \* the overrun interrupt is recorded

vars == <<link, ror>>

Init == link = << >> /\ ror = FALSE

Send(frame) ==
    /\ Len(link) < Capacity
    /\ link' = Append(link, frame)
    /\ UNCHANGED ror

Receive ==
    /\ link # << >>
    /\ link' = Tail(link)
    /\ UNCHANGED ror

\* A frame that finds no room is dropped, or a read finds no frame.
Overrun ==
    /\ ror' = TRUE
    /\ \/ UNCHANGED link
       \/ \E i \in DOMAIN link :
            link' = SubSeq(link, 1, i - 1) \o SubSeq(link, i + 1, Len(link))

Clear == ror' = FALSE /\ UNCHANGED link

\* A reset keeps at most the frame being shifted and the latest frames, those
\* that have not reached the queue yet.
Reset ==
    /\ ror' = FALSE
    /\ \E cut \in 1 .. Len(link) + 1 :
         \E shifted \in {<< >>} \cup {<<link[i]>> : i \in 1 .. cut - 1} :
            link' = shifted \o SubSeq(link, cut, Len(link))

Next ==
    \/ \E frame \in Frames : Send(frame)
    \/ Receive \/ Overrun \/ Clear \/ Reset

Spec == Init /\ [][Next]_vars

=============================================================================
