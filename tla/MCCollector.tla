---------------------------- MODULE MCCollector ----------------------------
(***************************************************************************)
(* Collector for TLC: a job whose group is replaced twice, and deleted,    *)
(* beside another job that shares a target with it.                        *)
(* From the first group to the third one target is kept and one comes; the *)
(* second has one target twice and differs in its label alone, by a letter *)
(* that moves from the name to the value.  Unlabelled leaves all labels    *)
(* out.                                                                    *)
(***************************************************************************)
EXTENDS Collector

CONSTANT Unlabelled

\* Bytes, in no particular code.
A == <<1>>
B == <<2>>

Label(name, value) == IF Unlabelled THEN <<>> ELSE name :> value

First == [targets |-> <<A>>, labels |-> Label(<<4, 3>>, <<9>>)]
Second == [targets |-> <<B, B>>, labels |-> Label(<<4>>, <<3, 9>>)]
Third == [targets |-> <<B, A>>, labels |-> Label(<<4, 3>>, <<9>>)]

MCGroups == {First, Second, Third}
MCExternal == Label(<<5>>, <<1>>)

Active(stamp, group) ==
  [status |-> "Active", updated |-> stamp, group |-> group]

MCWritten ==
  {<<"job", Active(1, First)>>, <<"job", Active(2, Second)>>,
   <<"job", Active(3, Third)>>, <<"other", Active(1, First)>>,
   <<"job", [status |-> "Inactive", updated |-> 2, group |-> NoGroup]>>}

=============================================================================
