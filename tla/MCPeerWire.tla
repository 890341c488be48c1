------------------------------ MODULE MCPeerWire ------------------------------
(* Instances of PeerWire for TLC: one message of every type, with bitfields  *)
(* and pieces of no, one and two bytes.                                      *)
EXTENDS PeerWire

Message(t, ws, d) == [type |-> t, words |-> ws, data |-> d]

Plain == {Message(t, <<>>, <<>>) : t \in {"choke", "unchoke", "interested", "notinterested"}}

Numbered == {Message("have", <<7>>, <<>>), Message("request", <<1, 0, 300>>, <<>>),
             Message("cancel", <<1, 0, 300>>, <<>>)}

Bitfields == {Message("bitfield", <<>>, <<>>), Message("bitfield", <<>>, <<5>>),
              Message("bitfield", <<>>, <<0, 255>>)}

Pieces == {Message("piece", <<1, 0>>, <<>>), Message("piece", <<1, 16>>, <<4, 5>>)}

Keepalive == Message("keepalive", <<>>, <<>>)

All == Plain \cup Numbered \cup Bitfields \cup Pieces \cup {Keepalive}

Few == {Message("unchoke", <<>>, <<>>), Keepalive}
==============================================================================
