----------------------------- MODULE MCPeerList -----------------------------
(***************************************************************************)
(* PeerList for TLC: this daemon at "self", which is among its own         *)
(* configured peers, and a configured address "known", where the process   *)
(* old is succeeded by new; "host" is a name of it that the resolver may   *)
(* answer, leave without an address or not know.                           *)
(***************************************************************************)
EXTENDS PeerList

CONSTANTS me, old, new

MCNames == {me, old, new}
MCLiteral == {"self", "known"}
MCAddrs == MCLiteral \cup {"host"}
MCDial == [a \in MCAddrs |-> IF a = "host" THEN "known" ELSE a]
MCAddrOf == [n \in MCNames |-> IF n = me THEN "self" ELSE "known"]
MCAnswers == [a \in MCAddrs |-> IF a = "host" THEN {{"known"}, {}} ELSE {{a}}]

=============================================================================
