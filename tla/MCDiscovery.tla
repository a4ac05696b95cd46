---------------------------- MODULE MCDiscovery ----------------------------
(* Two networks.  On the first: the receptor of the stream, one of another *)
(* stream and a multistream server; on the second one whose name the name  *)
(* of the stream begins with; on this host one of the name of the stream.  *)
EXTENDS Discovery

Receptor(ip, name, server) == [ip |-> ip, name |-> name, server |-> server]

Mix1 == <<"mix", "1">>
MCHearer == Receptor(<<1, 2>>, Mix1, FALSE)
MCReceptors == {
    MCHearer, Receptor(<<1, 3>>, <<"bass">>, FALSE), Receptor(<<1, 4>>, <<"srv">>, TRUE),
    Receptor(<<2, 2>>, <<"mix">>, FALSE), Receptor(Own(1), Mix1, FALSE)}

Command(ip, name, server) == [ip |-> ip, name |-> name, server |-> server]
MCCommands == {
    Command(Nobody, Mix1, << >>), Command(<<1, 2>>, Mix1, << >>),
    Command(Nobody, Mix1, <<"srv">>)}

=============================================================================
