---------------------------- MODULE MCPtyBridge ----------------------------
(* PtyBridge with a shell that writes whole and broken escape sequences:    *)
(* private and other ones, cursor queries, overlong payloads, stray ESCs.   *)
EXTENDS PtyBridge

Query == <<"ESC", "[", "6", "n">>

Opens == {<<"ESC", "]">>, <<"ESC", "]", "5111", "dl", "token">>}
Ends  == {<<"BEL", "x">>, <<"ESC", "BEL">>, <<"ESC", "\\", "x">>}

Texts21 ==
  {a \o b \o c : a \in Opens, b \in {<<"x", "x", "x">>, <<"ESC">>, Query}, c \in Ends}
  \cup {Query \o c : c \in Ends}
=============================================================================
