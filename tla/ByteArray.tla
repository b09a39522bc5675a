----------------------------- MODULE ByteArray -----------------------------
(***************************************************************************)
(* gxh::ByteArray (bytearray.cc): bytes in a list of nodes of m_baseSize,  *)
(* with a pointer to the node of the position.  A node is its index in     *)
(* nodes, and 0 is the null pointer.  A byte has two payload bits and the  *)
(* bit for "more follows", a word three bits: the last byte of the longest *)
(* encoding has bits to spare, as the fifth byte of 32 bits has.           *)
(***************************************************************************)
EXTENDS Integers, Sequences

CONSTANTS m_baseSize,
          MaxSize,        \* bound: how far the array grows
          MaxWrites,      \* bound: writes, changes of the byte order and clears
          Raw,            \* sequences of bytes a caller writes
          Items,          \* typed values a caller writes: [type, v], v a sequence
          Junk            \* a byte that was never written

More == 4       \* 0x80: another byte follows; the payload is what is below
Word == 8       \* 2^32, or 2^64
Rounds == 2     \* bytes of the longest encoding: 5, or 10
Byte == 0 .. Word - 1

\* The values of a type: the C++ type's range, and strings whose length fits its prefix.
Fits(i) ==
  \/ i.type = "Fuint8" /\ \E x \in Byte : i.v = <<x>>
  \/ i.type = "Fuint16" /\ \E x \in 0 .. Word * Word - 1 : i.v = <<x>>
  \/ i.type = "Uint32" /\ \E x \in 0 .. Word - 1 : i.v = <<x>>
  \/ i.type = "Int32" /\ \E x \in -(Word \div 2) .. (Word \div 2) - 1 : i.v = <<x>>
  \/ i.type = "StringF16" /\ i.v \in Seq(Byte) /\ Len(i.v) < Word * Word
  \/ i.type = "StringVint" /\ i.v \in Seq(Byte) /\ Len(i.v) < Word

ASSUME BaseSizeAssumption == m_baseSize \in Nat \ {0}
ASSUME ValuesAssumption == Raw \subseteq Seq(Byte) /\ Junk \notin Byte /\ \A i \in Items : Fits(i)

VARIABLES nodes, cur, m_position, m_size, m_capacity, m_endian,
          op,             \* the last operation
          writes,         \* how many there were
          items           \* history: the last typed value, while it is still where it was written

byteVars == <<nodes, cur, m_position, m_size, m_capacity, m_endian, op, writes, items>>

Null == 0
Start == [kind |-> "new", status |-> "ok"]
NewNode == [i \in 1 .. m_baseSize |-> Junk]

ByteInit ==
  /\ nodes = <<NewNode>> /\ cur = 1
  /\ m_position = 0 /\ m_size = 0 /\ m_capacity = m_baseSize /\ m_endian = "big"
  /\ op = Start /\ writes = 0 /\ items = {}

getReadSize == m_size - m_position
getCapacity == m_capacity - m_position

(***************************************************************************)
(* The loop that read, write and the functions for iovec share: from node  *)
(* n, offset npos, over size bytes.  It goes on to the next node where one *)
(* ends, also after the last byte, so byte i is npos + i - 1 bytes from    *)
(* the beginning of n (ByteLoops has the loop itself).  It gives the       *)
(* places it visits, as <<node, offset>>, and the node it ends at.  A null *)
(* node is dereferenced before the loop looks at size.                     *)
(***************************************************************************)
Place(n, npos, i) == <<n + ((npos + i - 1) \div m_baseSize), ((npos + i - 1) % m_baseSize) + 1>>

\* The node that many nodes after n, in a list of len.
Following(n, i, len) == IF n + i > len THEN Null ELSE n + i

WalkOver(n, npos, size, len) ==
  IF n = Null \/ (size > 0 /\ Place(n, npos, size)[1] > len) THEN [at |-> <<>>, cur |-> Null, ok |-> FALSE]
  ELSE [at |-> [i \in 1 .. size |-> Place(n, npos, i)],
        cur |-> Following(n, (npos + size) \div m_baseSize, len), ok |-> TRUE]

NoWalk == [at |-> <<>>, cur |-> cur, ok |-> TRUE]

\* Mutant: a walk into the next node keeps the offset in it.
WalkSkipsOffset(n, npos, size) ==
  IF n = Null THEN WalkOver(n, npos, size, Len(nodes))
  ELSE [at |-> [i \in 1 .. size |-> <<IF npos + i > m_baseSize /\ n < Len(nodes) THEN n + 1 ELSE n,
                                      IF npos + i > m_baseSize THEN m_baseSize ELSE npos + i>>],
        cur |-> n, ok |-> TRUE]

Walk(n, npos, size) == WalkOver(n, npos, size, Len(nodes))

Offset == m_position % m_baseSize
Bytes(w) == [i \in 1 .. Len(w.at) |-> nodes[w.at[i][1]][w.at[i][2]]]

\* What a walk gives its caller, after the check for enough bytes.
Outcome(short, w) ==
  [status |-> IF short THEN "out_of_range" ELSE IF w.ok THEN "ok" ELSE "fault",
   result |-> IF short \/ ~w.ok THEN <<>> ELSE Bytes(w)]

\* Where the node of a position is: the loop of setPosition.
NodeOf(v) == Following(1, v \div m_baseSize, Len(nodes))

(***************************************************************************)
(* addCapacity and write.                                                  *)
(***************************************************************************)
\* ceil((size - old_cap) / m_baseSize) new nodes.
Count(size) == IF getCapacity >= size THEN 0
               ELSE (size - getCapacity + m_baseSize - 1) \div m_baseSize

Grown(size) == nodes \o [i \in 1 .. Count(size) |-> NewNode]

\* Mutant: m_cur stays null when the array was full.
CurAfterStale(size) == cur

\* m_cur moves to the first new node when the array was full.
CurAfter(size) == IF Count(size) > 0 /\ getCapacity = 0 THEN Len(nodes) + 1 ELSE cur

\* The walk of write, over the nodes after addCapacity.
PlacesOf(size) == [i \in 1 .. size |-> Place(CurAfter(size), Offset, i)]

Put(ns, places, s) ==
  [n \in DOMAIN ns |-> [o \in 1 .. m_baseSize |->
     IF \E i \in 1 .. Len(s) : places[i] = <<n, o>>
     THEN s[CHOOSE i \in 1 .. Len(s) : places[i] = <<n, o>>] ELSE ns[n][o]]]

Counted == writes < MaxWrites /\ writes' = writes + 1

\* write(s); with no bytes nothing changes.
writeBytes(s) ==
  LET grown == Grown(Len(s))
      end   == m_position + Len(s)
  IN  /\ nodes' = Put(grown, PlacesOf(Len(s)), s)
      /\ m_capacity' = m_capacity + Count(Len(s)) * m_baseSize
      /\ m_position' = end /\ m_size' = IF end > m_size THEN end ELSE m_size
      /\ cur' = Following(CurAfter(Len(s)), (Offset + Len(s)) \div m_baseSize, Len(grown))

Apart(s) == {i \in items : i.at + Len(i.bytes) <= m_position \/ i.at >= m_position + Len(s)}

Write(s) ==
  /\ Counted /\ m_position + Len(s) <= MaxSize
  /\ writeBytes(s) /\ items' = Apart(s)
  /\ op' = [kind |-> "write", bytes |-> s, status |-> "ok"]
  /\ UNCHANGED m_endian

\* readFromFile: the file is read and written in blocks of m_baseSize; as the blocks are written one
\* after the other, together they are one write of its contents.
readFromFile(s) ==
  /\ Counted /\ m_position + Len(s) <= MaxSize
  /\ writeBytes(s) /\ items' = Apart(s)
  /\ op' = [kind |-> "write", bytes |-> s, status |-> "ok"]
  /\ UNCHANGED m_endian

(***************************************************************************)
(* read, and the reads that do not move the position.                      *)
(***************************************************************************)
Read(size) ==
  LET w == Walk(cur, Offset, size)
      r == Outcome(size > getReadSize, w)
  IN  /\ op' = [kind |-> "read", size |-> size, status |-> r.status, result |-> r.result]
      /\ IF r.status # "ok" THEN UNCHANGED <<m_position, cur>>
         ELSE m_position' = m_position + size /\ cur' = w.cur
      /\ UNCHANGED <<nodes, m_size, m_capacity, m_endian, writes, items>>

\* read(buf, size, position): position only gives the offset, the node is the current one.
readAt(size, position) == Outcome(size > m_size - position, Walk(cur, position % m_baseSize, size))

\* toString, and toHexString over it.
toString ==
  IF getReadSize = 0 THEN Outcome(FALSE, NoWalk) ELSE readAt(getReadSize, m_position)

\* getReadBuffers(buffers, len, position), and with m_position the form without it: the buffers are the
\* places of the bytes.  As many as are left at m_position, wherever position is.
getReadBuffers(len, position) ==
  LET n == IF len > getReadSize THEN getReadSize ELSE len
  IN  Outcome(FALSE, IF n = 0 THEN NoWalk ELSE Walk(NodeOf(position), position % m_baseSize, n))

\* getWriteBuffers: room for len bytes from the position on; a socket stream then fills it and calls
\* setPosition.
GetWriteBuffers(len) ==
  /\ m_position + len <= MaxSize
  /\ nodes' = Grown(len) /\ cur' = CurAfter(len)
  /\ m_capacity' = m_capacity + Count(len) * m_baseSize
  /\ op' = [kind |-> "getWriteBuffers", size |-> len, status |-> "ok"]
  /\ UNCHANGED <<m_position, m_size, m_endian, writes, items>>

(***************************************************************************)
(* setPosition, clear, the byte order.                                     *)
(***************************************************************************)
setPosition(v) ==
  /\ IF v > m_capacity
     THEN /\ op' = [kind |-> "setPosition", v |-> v, status |-> "out_of_range"]
          /\ UNCHANGED <<m_position, m_size, cur>>
     ELSE /\ op' = [kind |-> "setPosition", v |-> v, status |-> "ok"]
          /\ m_position' = v /\ m_size' = (IF v > m_size THEN v ELSE m_size)
          /\ cur' = NodeOf(v)
  /\ UNCHANGED <<nodes, m_capacity, m_endian, writes, items>>

clear ==
  /\ Counted /\ nodes' = <<nodes[1]>> /\ cur' = 1
  /\ m_position' = 0 /\ m_size' = 0 /\ m_capacity' = m_baseSize /\ items' = {}
  /\ op' = [kind |-> "clear", status |-> "ok"]
  /\ UNCHANGED m_endian

setIsLittleEndian(val) ==
  /\ m_endian' = IF val THEN "little" ELSE "big"
  /\ m_endian' # m_endian /\ Counted
  /\ UNCHANGED <<nodes, cur, m_position, m_size, m_capacity, op, items>>

(***************************************************************************)
(* Typed values.                                                           *)
(***************************************************************************)
\* Mutant: the sign is lost.
EncodeZigzagPlain(v) == IF v < 0 THEN (-v * 2) % Word ELSE v * 2

EncodeZigzag(v) == IF v < 0 THEN (-v * 2 - 1) % Word ELSE v * 2

\* (v >> 1) ^ -(v & 1)
DecodeZigzag(v) == IF v % 2 = 0 THEN v \div 2 ELSE -(v \div 2) - 1

\* writeUint32, writeUint64: the low payload first; a word needs at most Rounds bytes.
Varint(v) == IF v >= More THEN <<(v % More) + More, v \div More>> ELSE <<v>>

\* A value of two bytes in the byte order: byteswap when it is not that of the machine.
Fixed(v, endian) == IF endian = "little" THEN <<v % Word, v \div Word>> ELSE <<v \div Word, v % Word>>

Encode(i, endian) ==
  CASE i.type = "Fuint8"     -> i.v
    [] i.type = "Fuint16"    -> Fixed(i.v[1], endian)
    [] i.type = "Uint32"     -> Varint(i.v[1])
    [] i.type = "Int32"      -> Varint(EncodeZigzag(i.v[1]))
    [] i.type = "StringF16"  -> Fixed(Len(i.v), endian) \o i.v
    [] i.type = "StringVint" -> Varint(Len(i.v)) \o i.v

\* The parts are written one after the other, by one write of the bytes.
WriteItem(i) ==
  LET s == Encode(i, m_endian)
  IN  /\ Counted /\ m_position + Len(s) <= MaxSize
      /\ writeBytes(s)
      /\ items' = {[at |-> m_position, item |-> i, bytes |-> s, endian |-> m_endian]}
      /\ op' = [kind |-> "writeItem", bytes |-> s, status |-> "ok"]
      /\ UNCHANGED m_endian

\* A reader is a record of where it is: each part moves it, or fails and leaves it there.
Reader == [pos |-> m_position, cur |-> cur, ok |-> "ok", v |-> 0, out |-> <<>>]

Part(r, size) ==
  LET w == Walk(r.cur, r.pos % m_baseSize, size)
  IN  IF r.ok # "ok" THEN r
      ELSE IF size > m_size - r.pos THEN [r EXCEPT !.ok = "out_of_range"]
      ELSE IF ~w.ok THEN [r EXCEPT !.ok = "fault"]
      ELSE [r EXCEPT !.pos = @ + size, !.cur = w.cur, !.out = Bytes(w)]

\* Bytes nobody has written read as anything; here as zero.
Num(b) == IF b = Junk THEN 0 ELSE b

\* A part that was read becomes a number or a string.
Then(r, F(_)) == IF r.ok = "ok" THEN F(r) ELSE r
Number(r, n) == [r EXCEPT !.v = n]

\* readUint32: at most Rounds bytes; bits beyond the word are shifted out.
readUint(r) ==
  Then(Part(r, 1), LAMBDA a :
    IF Num(a.out[1]) < More THEN Number(a, Num(a.out[1]))
    ELSE Then(Part(a, 1), LAMBDA b :
           Number(b, ((Num(a.out[1]) % More) + (Num(b.out[1]) % More) * More) % Word)))

readFuint16(r) ==
  Then(Part(r, 2), LAMBDA a :
    Number(a, IF m_endian = "little" THEN Num(a.out[1]) + Num(a.out[2]) * Word
                                     ELSE Num(a.out[1]) * Word + Num(a.out[2])))

\* The value is what the last part has given: a number here.
Value(r) == Then(r, LAMBDA a : [a EXCEPT !.out = <<a.v>>])

\* buff.resize(len), then read(len).
readBuff(r) == Then(r, LAMBDA a : Part(a, a.v))

Decode(type) ==
  CASE type = "Fuint8"     -> Part(Reader, 1)
    [] type = "Fuint16"    -> Value(readFuint16(Reader))
    [] type = "Uint32"     -> Value(readUint(Reader))
    [] type = "Int32"      -> Then(readUint(Reader), LAMBDA a : [a EXCEPT !.out = <<DecodeZigzag(a.v)>>])
    [] type = "StringF16"  -> readBuff(readFuint16(Reader))
    [] type = "StringVint" -> readBuff(readUint(Reader))

ReadItem(type) ==
  /\ \E d \in {Decode(type)} :
       /\ op' = [kind |-> "readItem", status |-> d.ok]
       /\ m_position' = d.pos /\ cur' = d.cur
  /\ UNCHANGED <<nodes, m_size, m_capacity, m_endian, writes, items>>

Types == {i.type : i \in Items}

ByteNext ==
  \/ \E s \in Raw : Write(s) \/ readFromFile(s)
  \/ \E n \in 0 .. MaxSize : Read(n) \/ GetWriteBuffers(n)
  \/ \E v \in 0 .. MaxSize : setPosition(v)
  \/ \E i \in Items : WriteItem(i)
  \/ \E t \in Types : ReadItem(t)
  \/ \E b \in BOOLEAN : setIsLittleEndian(b)
  \/ clear

ByteSpec == ByteInit /\ [][ByteNext]_byteVars

-----------------------------------------------------------------------------
ByteTypeOK ==
  /\ cur \in 0 .. Len(nodes) /\ m_position \in 0 .. m_size /\ m_size <= m_capacity
  /\ \A n \in 1 .. Len(nodes) : Len(nodes[n]) = m_baseSize

\* The nodes are exactly the capacity, and m_cur is the node of the position, null only at the end of
\* the last node: after every mix of writes, reads, seeks and clears (bytearray.cc:361, 395, 454, 530).
CurIsTheNode == m_capacity = Len(nodes) * m_baseSize /\ cur = NodeOf(m_position)

Data == [i \in 1 .. m_size |-> nodes[((i - 1) \div m_baseSize) + 1][((i - 1) % m_baseSize) + 1]]

\* The array is the sequence of bytes that its interface promises: whatever the nodes, writes, reads,
\* seeks and clear do what they do to a sequence with a position.
Abstract == INSTANCE ByteSeq WITH data <- Data, pos <- m_position
ImplementsByteSeq == Abstract!Spec

\* A typed value is read back as it was written, across nodes and whatever was read or written
\* elsewhere in between, if the byte order is the same: except an empty string that ends where the
\* capacity ends, for which read(0) dereferences the null node (bytearray.cc:387).
ReadsBack ==
  \A i \in items : i.at = m_position /\ i.endian = m_endian =>
    \E d \in {Decode(i.item.type)} :
      \/ d.ok = "ok" /\ d.out = i.item.v /\ d.pos = i.at + Len(i.bytes)
      \/ d.ok = "fault" /\ i.item.v = <<>> /\ d.pos = m_capacity

\* What is read without moving the position: read at a position in the current node (bytearray.cc:416);
\* the buffers from a position with as many bytes behind it (bytearray.cc:593); toString; and a read
\* meets a null node only if it asks for nothing at the end of the capacity (bytearray.cc:387).
PeeksRight ==
  /\ ByteTypeOK /\ CurIsTheNode
  /\ \A n \in 0 .. getReadSize : ~Walk(cur, Offset, n).ok => n = 0 /\ m_position = m_capacity
  /\ toString = [status |-> "ok", result |-> SubSeq(Data, m_position + 1, m_size)]
  /\ \A p \in 0 .. m_size : \A n \in 1 .. m_size - p :
       /\ NodeOf(p) = cur => readAt(n, p).result = SubSeq(Data, p + 1, p + n)
       /\ n <= getReadSize => getReadBuffers(n, p).result = SubSeq(Data, p + 1, p + n)
=============================================================================
