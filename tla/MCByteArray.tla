---------------------------- MODULE MCByteArray ----------------------------
(***************************************************************************)
(* Nodes of two bytes: a value of two bytes lies in one node or in two.    *)
(***************************************************************************)
EXTENDS ByteLoops

mc_Raw == {<<1>>, <<2, 3, 6>>}

Item(t, v) == [type |-> t, v |-> v]

mc_Items ==
  {Item("Fuint16", <<10>>), Item("Uint32", <<7>>), Item("Int32", <<-4>>), Item("Int32", <<-1>>),
   Item("StringF16", <<>>), Item("StringVint", <<6>>)}
=============================================================================
