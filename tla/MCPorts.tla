------------------------------ MODULE MCPorts ------------------------------
(* Small values for Ports. *)
EXTENDS Ports

MCPorts == CppPorts \cup CPorts

Packet(length, rem) == [length |-> length, rem |-> rem]

\* In base 3: a byte of 3 or more goes on.  The third stream has a length in more bytes than it
\* needs, the fourth a packet that is too long.
MCStreams ==
    {<<Packet(<<2>>, 2), Packet(<<0>>, 0)>>,
     <<Packet(<<3, 1>>, 3), Packet(<<0>>, 0)>>,
     <<Packet(<<4, 3, 3, 0>>, 1)>>,
     <<Packet(<<5, 1>>, 5)>>}

MCStarts == {0, 20}
=============================================================================
