---------------------------- MODULE MCMultistream ----------------------------
EXTENDS Multistream
CONSTANTS a, b, c
MCStreams == {a, b, c}
=============================================================================
