------------------------------- MODULE MC_Mp3 -------------------------------
(***************************************************************************)
(* Mp3DecTest with uint32_t scaled to 7 bits, so that mSize and the       *)
(* header sizes wrap within three frames (44 + 52 + 52 > 128).  A decoded *)
(* frame writes nothing, a little, or a lot.                               *)
(***************************************************************************)
EXTENDS Mp3DecTest

MCSizeBits == 7
MCFrameSizes == {0, 4, 52}
MCMaxFrames == 3
=============================================================================
