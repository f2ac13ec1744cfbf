--------------------------- MODULE FramerStreams ---------------------------
(* The streams the framers are checked on: a PING and a WRITE whose payload *)
(* looks like a header, behind garble: breaks, lengths that reach into the  *)
(* frames behind them or past the end of the stream, a frame whose sender   *)
(* stopped half way, a neighbour's status.                                  *)
EXTENDS Naturals, Sequences

PingFrame  == <<0, 1, 3, 16, 7, 7>>
WriteFrame == <<0, 2, 6, 48, 0, 3, 9, 8, 8>>
SentFrames == {PingFrame, WriteFrame}

\* a status with zeros in its payload, as only the host looks at one
StatusFrames == {<<0, 4, 7, 128, 0, 0, 3, 0, 8, 8>>}

Junk == UNION {[1 .. n -> {0, 3, 9, 28}] : n \in 0 .. 3}
        \cup {SubSeq(WriteFrame, 1, 5), <<0, 0, 9, 0, 9>>, <<0, 5, 3, 128, 7, 7>>}

\* a status frame whose LEN byte was corrupted on the wire (3 became 9)
GarbledStatus == {<<0, 5, 9, 128, 7, 7>>}
=============================================================================
