---------------------------- MODULE MCMcpClient ----------------------------
(***************************************************************************)
(* An instance of McpClient: two servers whose identifiers are not related *)
(* and one whose identifier extends the first one's by a dot.  A tool of   *)
(* the first may have the tool_id of one of the third; one native tool has *)
(* the tool_id of a tool of the second, another begins like one.           *)
(***************************************************************************)
EXTENDS McpClient

Servers == {<<"a">>, <<"b">>, <<"a", "b">>}
ToolNames == {<<"x">>, <<"b", "x">>}
NativeTools == {<<"b", "x">>, <<"a", "native">>}
ReplacedStates == {"Connected"}
Resources == {"file:///r"}
=============================================================================
