--------------------------- MODULE MCReceptorStart ---------------------------
(* Two hosts: one sends two audio streams, a MIDI stream of its own name   *)
(* and text; the other one an audio stream with a name of the first.       *)
EXTENDS ReceptorStart

Sender(ip, name, kind, channels, rate) ==
    [ip |-> ip, name |-> name, kind |-> kind, channels |-> channels, rate |-> rate]

MCSenders == {
    Sender(1, "A", "audio", 2, 48000), Sender(1, "A", "serial", 1, 1),
    Sender(1, "B", "audio", 4, 44100), Sender(2, "A", "audio", 8, 96000),
    Sender(1, "MIDI1", "serial", 1, 1), Sender(2, "message", "text", 1, 1)}

MCRequests == [ip : {0, 1}, name : {"", "A"}, channels : {0, 2}]
=============================================================================
