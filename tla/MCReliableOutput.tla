-------------------------- MODULE MCReliableOutput --------------------------
(***************************************************************************)
(* A small instance of ReliableOutput: an INITIATE and an application      *)
(* message at every sequence, two different ACKs, one or two retries.      *)
(***************************************************************************)
EXTENDS ReliableOutput

CONSTANT m1

MCMessages == {m1}

MCOffered ==
    {MakeFrame("INITIATE", 1, s, 0, NoMessage) : s \in Sequences16}
        \cup {MakeFrame("APPLICATION", 1, s, 0, m1) : s \in Sequences16}

MCAcknowledgements == {MakeFrame("ACK", 1, 0, a, NoMessage) : a \in {0, 1}}

=============================================================================
