----------------------------- MODULE ByteLoops -----------------------------
(***************************************************************************)
(* The loops of bytearray.cc as they are written, step by step, over a     *)
(* list of len nodes, and what they compute: checked for every start and   *)
(* every size up to MaxSize.                                               *)
(***************************************************************************)
EXTENDS ByteArray

next(n, len) == IF n < len THEN n + 1 ELSE Null

Segment(n, npos, size) == [i \in 1 .. size |-> <<n, npos + i>>]

\* The loop of read, of write, and of the buffers of iovec.
RECURSIVE WalkLoop(_, _, _, _)
WalkLoop(n, npos, size, len) ==
  IF n = Null THEN [at |-> <<>>, cur |-> Null, ok |-> FALSE]
  ELSE LET ncap == m_baseSize - npos
       IN  IF size = 0 THEN [at |-> <<>>, cur |-> n, ok |-> TRUE]
           ELSE IF ncap >= size
           THEN [at |-> Segment(n, npos, size), cur |-> IF ncap = size THEN next(n, len) ELSE n, ok |-> TRUE]
           ELSE LET r == WalkLoop(next(n, len), 0, size - ncap, len)
                IN  [r EXCEPT !.at = IF r.ok THEN Segment(n, npos, ncap) \o @ ELSE @]

\* The loop of setPosition: v > m_cur->size moves on, v = m_cur->size moves on once more.
RECURSIVE SeekLoop(_, _, _)
SeekLoop(n, v, len) ==
  IF v > m_baseSize THEN SeekLoop(next(n, len), v - m_baseSize, len)
  ELSE IF v = m_baseSize THEN next(n, len) ELSE n

\* The loop of writeUint32 and writeUint64.
RECURSIVE VarintLoop(_)
VarintLoop(v) == IF v >= More THEN <<(v % More) + More>> \o VarintLoop(v \div More) ELSE <<v>>

\* The loop of writeToFile: min(read_size, m_baseSize) - diff bytes of each node; a length below 1
\* makes no progress.  It gives the places of the bytes written.
RECURSIVE FileLoop(_, _, _, _)
FileLoop(n, position, read_size, len) ==
  LET diff  == position % m_baseSize
      count == (IF read_size > m_baseSize THEN m_baseSize ELSE read_size) - diff
  IN  IF read_size = 0 THEN [at |-> <<>>, ok |-> TRUE]
      ELSE IF n = Null \/ count <= 0 THEN [at |-> <<>>, ok |-> FALSE]
      ELSE LET r == FileLoop(next(n, len), position + count, read_size - count, len)
           IN  [r EXCEPT !.at = Segment(n, diff, count) \o @]

Lists == 1 .. (MaxSize \div m_baseSize) + 1

\* The shared loop visits the places that ByteArray says, for any node, offset and size.
ASSUME WalkIsTheLoop ==
  \A len \in Lists, npos \in 0 .. m_baseSize - 1, size \in 0 .. MaxSize : \A n \in 0 .. len :
    WalkOver(n, npos, size, len) = WalkLoop(n, npos, size, len)

\* setPosition finds the node of a position.
ASSUME SeekIsTheLoop ==
  \A len \in Lists : \A v \in 0 .. len * m_baseSize : Following(1, v \div m_baseSize, len) = SeekLoop(1, v, len)

\* A word is encoded in at most Rounds bytes.
ASSUME VarintIsTheLoop == \A v \in 0 .. Word - 1 : Varint(v) = VarintLoop(v) /\ Len(Varint(v)) <= Rounds

\* writeToFile writes the bytes from the position to the end if and only if the position is at the
\* beginning of a node or as much as a node is left: bytearray.cc:473 takes the offset off what is left.
ASSUME FileIsRight ==
  \A len \in Lists : \A position \in 0 .. len * m_baseSize : \A size \in 0 .. len * m_baseSize - position :
    LET off == position % m_baseSize
        n   == Following(1, position \div m_baseSize, len)
    IN  (FileLoop(n, position, size, len) = [at |-> [i \in 1 .. size |-> Place(n, off, i)], ok |-> TRUE])
          <=> (off = 0 \/ size >= m_baseSize \/ size = 0)
=============================================================================
