------------------------------ MODULE MC_Frames ------------------------------
(***************************************************************************)
(* Input files for FrameSplitter.  Byte values are abstracted to the ones *)
(* the start-code tests tell apart: 0, 1, 0xB6 (182), 0x80 (128) and an    *)
(* ordinary byte 7.  Short files of every shape exercise the size checks  *)
(* of the readers (3, 4, 5, 6 and 7 bytes left); files built from start    *)
(* codes and short payloads exercise frames of 4 to 7 bytes, start codes   *)
(* at the very end, and near misses next to a start code.                  *)
(***************************************************************************)
EXTENDS FrameSplitter

MCVop == << 0, 0, 1, 182 >>
MCPsc == << 0, 0, 128 >>

\* MPEG-4 elementary streams: every file of up to 7 bytes over the VOP
\* alphabet, and start-code-separated frames with payloads of 0-3 bytes.
MCMpeg4Files ==
  SeqOf({0, 1, 182, 7}, 7)
  \cup {MCVop \o a \o MCVop \o b : a, b \in SeqOf({0, 1, 182}, 3)}
  \cup {MCVop \o a \o MCVop \o b \o MCVop \o c : a, b, c \in SeqOf({0, 7}, 1)}

\* H.263 streams: a picture start code, then payloads with and without a
\* further picture start code.
MCH263Files ==
  {MCPsc \o a : a \in SeqOf({0, 128, 7}, 4)}
  \cup {MCPsc \o a \o MCPsc \o b : a, b \in SeqOf({0, 7}, 2)}

MCGarbage == {0, 7}
==============================================================================
