------------------------------ MODULE ByteSeq ------------------------------
(***************************************************************************)
(* What a ByteArray promises its caller: a sequence of bytes and a         *)
(* position in it.  op is the last operation with its arguments and        *)
(* result.                                                                 *)
(***************************************************************************)
EXTENDS Naturals, Sequences

CONSTANT Start        \* the value of op before the first operation

VARIABLES data, pos, op

Larger(a, b) == IF a > b THEN a ELSE b

Init == data = <<>> /\ pos = 0 /\ op = Start

\* Bytes are put over what is there from pos on, and beyond the end.
Put(s) ==
  /\ pos' = pos + Len(s)
  /\ data' = [i \in 1 .. Larger(Len(data), pos') |-> IF i \in pos + 1 .. pos' THEN s[i - pos] ELSE data[i]]

Get(n) ==
  IF n <= Len(data) - pos
  THEN /\ op'.status = "ok" /\ op'.result = SubSeq(data, pos + 1, pos + n) /\ pos' = pos + n /\ UNCHANGED data
  ELSE op'.status = "out_of_range" /\ UNCHANGED <<data, pos>>

\* A value is read in several parts: what was read of it is gone if the rest is missing.
GetParts ==
  /\ pos' \in pos .. Len(data) /\ UNCHANGED data

\* Only a position beyond the end changes the bytes: unspecified ones fill the gap.
Seek(v) ==
  \/ op'.status = "out_of_range" /\ v > Len(data) /\ UNCHANGED <<data, pos>>
  \/ /\ pos' = v
     /\ Len(data') = Larger(Len(data), v) /\ SubSeq(data', 1, Len(data)) = data

Clear == data' = <<>> /\ pos' = 0

Next ==
  \/ op'.kind \in {"write", "writeItem"} /\ Put(op'.bytes)
  \/ op'.kind = "read" /\ op'.status # "fault" /\ Get(op'.size)
  \/ op'.kind = "readItem" /\ GetParts
  \/ op'.kind = "setPosition" /\ Seek(op'.v)
  \/ op'.kind = "clear" /\ Clear
  \/ /\ op'.kind = "getWriteBuffers" \/ op'.status = "fault"
     /\ UNCHANGED <<data, pos>>

Spec == Init /\ [][Next]_<<data, pos, op>>
=============================================================================
