---------------------------- MODULE MCFrameLink ----------------------------
(* A small instance of FrameLink: runs of 3 bytes, a size_t of 6 bits. *)
EXTENDS FrameLink

MCFrameTypes == 1 .. 4
MCCrc(bytes) == FoldLeft(LAMBDA sum, b : (2 * sum + b) % (RunMax + 2), 0, bytes)

MCConfig(m, e) == [message |-> m, encoded |-> e]
\* Both sizes right; an encoded size one too small; sizes whose sum passes the largest
\* size_t at the last region; sizes that cannot be counted; no message at all.
MCConfigs == {MCConfig(1, 7), MCConfig(2, 8), MCConfig(2, 7), MCConfig(3, 26),
              MCConfig(60, 63), MCConfig(0, 8)}
\* What the larger of the good configurations takes, and one less than the smaller takes.
MCWorkspaces == {21, 27}

MCFrames == {Frame(3, <<>>), Frame(4, <<0>>), Frame(4, <<4, 4>>)}
=============================================================================
