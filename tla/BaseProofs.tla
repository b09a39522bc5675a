----------------------------- MODULE BaseProofs -----------------------------
(***************************************************************************)
(* Theorems about two parts of the library that every program on it uses:  *)
(* ByteArray, for nodes of any size, any bytes and any typed values that   *)
(* fit their type; and the configuration, for any texts of the files, any  *)
(* loggers and any number of edits, loads and calls.  The two share no     *)
(* state.                                                                  *)
(***************************************************************************)
EXTENDS ByteArray, Config, SequenceTheorems, TLAPS

-----------------------------------------------------------------------------
(***************************************************************************)
(* ByteArray.                                                              *)
(***************************************************************************)

-----------------------------------------------------------------------------
(* Division by the size of a node.                                         *)

\* Quotient and rest.
LEMMA DivMod ==
  ASSUME NEW x \in Nat, NEW b \in Nat \ {0}
  PROVE  x \div b \in Nat /\ x % b \in 0 .. b - 1 /\ x = b * (x \div b) + (x % b)
OBVIOUS

\* A smaller quotient is smaller by a whole node.
LEMMA DivMono ==
  ASSUME NEW p \in Nat, NEW q \in Nat, NEW b \in Nat \ {0}, p < q
  PROVE  b * p + b <= b * q
OBVIOUS

\* They are unique.
LEMMA DivUnique ==
  ASSUME NEW b \in Nat \ {0}, NEW q \in Nat, NEW r \in 0 .. b - 1, NEW x \in Nat, x = b * q + r
  PROVE  x \div b = q /\ x % b = r
<1>1. x \div b \in Nat /\ x % b \in 0 .. b - 1 /\ x = b * (x \div b) + (x % b)
  BY DivMod
<1>2. ~(x \div b < q)
  BY <1>1, DivMono
<1>3. ~(q < x \div b)
  BY <1>1, DivMono
<1>4. QED
  BY <1>1, <1>2, <1>3

\* An offset behind a position.
LEMMA DivShift ==
  ASSUME NEW b \in Nat \ {0}, NEW p \in Nat, NEW i \in Nat
  PROVE  /\ (p + i) \div b = (p \div b) + (((p % b) + i) \div b)
         /\ (p + i) % b = ((p % b) + i) % b
<1> DEFINE q == p \div b
           r == p % b
           u == (r + i) \div b
           w == (r + i) % b
<1>1. q \in Nat /\ r \in 0 .. b - 1 /\ p = b * q + r
  BY DivMod
<1>2. u \in Nat /\ w \in 0 .. b - 1 /\ r + i = b * u + w
  <2>1. r + i \in Nat
    BY <1>1
  <2> HIDE DEF q, r
  <2>2. QED
    BY <2>1, DivMod
<1>3. p + i = b * (q + u) + w
  <2> HIDE DEF q, r, u, w
  <2>1. p + i = b * q + b * u + w
    BY <1>1, <1>2
  <2>2. b * (q + u) = b * q + b * u
    BY <1>1, <1>2
  <2>3. QED
    BY <1>1, <1>2, <2>1, <2>2
<1> HIDE DEF q, r, u, w
<1>4. (p + i) \div b = q + u /\ (p + i) % b = w
  <2>1. PICK x \in Nat, y \in Nat : x = p + i /\ y = q + u
    BY <1>1, <1>2
  <2>2. x = b * y + w
    BY <1>3, <2>1
  <2>3. x \div b = y /\ x % b = w
    BY <1>2, <2>2, DivUnique
  <2>4. QED
    BY <2>1, <2>3
<1>5. QED
  BY <1>4 DEF q, r, u, w

\* Positions and nodes.
LEMMA DivLess ==
  ASSUME NEW b \in Nat \ {0}, NEW p \in Nat, NEW len \in Nat
  PROVE  /\ p < b * len <=> p \div b < len
         /\ p = b * len => p \div b = len /\ p % b = 0
<1>1. p \div b \in Nat /\ p % b \in 0 .. b - 1 /\ p = b * (p \div b) + (p % b)
  BY DivMod
<1>2. p \div b < len => p < b * len
  BY <1>1, DivMono
<1>3. len < p \div b => ~(p < b * len)
  BY <1>1, DivMono
<1>4. len = p \div b => ~(p < b * len)
  BY <1>1
<1>5. p = b * len => p \div b = len /\ p % b = 0
  BY DivUnique
<1>6. QED
  BY <1>1, <1>2, <1>3, <1>4, <1>5

-----------------------------------------------------------------------------
(* Places.                                                                 *)

\* The place of byte x of the array, counted from 0.
Spot(x) == <<1 + (x \div m_baseSize), (x % m_baseSize) + 1>>

Cells == Byte \cup {Junk}
Nodes == [1 .. m_baseSize -> Cells]

\* The bytes before the end of the capacity have a place, and each its own.
LEMMA SpotIn ==
  ASSUME NEW len \in Nat, NEW x \in Nat, x < m_baseSize * len
  PROVE  /\ 1 + (x \div m_baseSize) \in 1 .. len /\ (x % m_baseSize) + 1 \in 1 .. m_baseSize
BY DivMod, DivLess, BaseSizeAssumption

\* Different positions are different places.
LEMMA SpotInjective ==
  ASSUME NEW x \in Nat, NEW y \in Nat, Spot(x) = Spot(y)
  PROVE  x = y
<1>1. x \div m_baseSize \in Nat /\ x % m_baseSize \in 0 .. m_baseSize - 1
      /\ x = m_baseSize * (x \div m_baseSize) + (x % m_baseSize)
  BY DivMod, BaseSizeAssumption
<1>2. y \div m_baseSize \in Nat /\ y % m_baseSize \in 0 .. m_baseSize - 1
      /\ y = m_baseSize * (y \div m_baseSize) + (y % m_baseSize)
  BY DivMod, BaseSizeAssumption
<1>3. x \div m_baseSize = y \div m_baseSize /\ x % m_baseSize = y % m_baseSize
  BY <1>1, <1>2 DEF Spot
<1>4. QED
  BY <1>1, <1>2, <1>3

\* Byte i of a walk that begins at position p.
LEMMA PlaceIsSpot ==
  ASSUME NEW p \in Nat, NEW i \in Nat \ {0}
  PROVE  Place(1 + (p \div m_baseSize), p % m_baseSize, i) = Spot(p + i - 1)
<1>1. i - 1 \in Nat
  OBVIOUS
<1>2. /\ (p + (i - 1)) \div m_baseSize = (p \div m_baseSize) + (((p % m_baseSize) + (i - 1)) \div m_baseSize)
      /\ (p + (i - 1)) % m_baseSize = ((p % m_baseSize) + (i - 1)) % m_baseSize
  BY <1>1, DivShift, BaseSizeAssumption
<1>3. p \div m_baseSize \in Nat /\ p % m_baseSize \in Nat
  BY DivMod, BaseSizeAssumption
<1>4. p + (i - 1) = p + i - 1 /\ (p % m_baseSize) + (i - 1) = (p % m_baseSize) + i - 1
  BY <1>3
<1>5. ((p % m_baseSize) + i - 1) \div m_baseSize \in Nat
  BY <1>1, <1>3, <1>4, DivMod, BaseSizeAssumption
<1>6. QED
  BY <1>2, <1>3, <1>4, <1>5 DEF Place, Spot

\* The node of a position, in a list of len nodes.
Node(p, len) == Following(1, p \div m_baseSize, len)

\* The node of a position, or null at the end of the capacity.
LEMMA NodeIs ==
  ASSUME NEW len \in Nat, NEW p \in Nat, p <= m_baseSize * len
  PROVE  /\ p < m_baseSize * len => Node(p, len) = 1 + (p \div m_baseSize) /\ Node(p, len) \in 1 .. len
         /\ p = m_baseSize * len => Node(p, len) = Null
BY DivMod, DivLess, BaseSizeAssumption DEF Node, Following, Null

\* A walk of size bytes from position p.
LEMMA WalkRight ==
  ASSUME NEW len \in Nat, NEW p \in Nat, NEW size \in Nat, p + size <= m_baseSize * len
  PROVE  LET w == WalkOver(Node(p, len), p % m_baseSize, size, len)
         IN  IF p = m_baseSize * len THEN size = 0 /\ ~w.ok
             ELSE w = [at |-> [i \in 1 .. size |-> Spot(p + i - 1)], cur |-> Node(p + size, len), ok |-> TRUE]
<1> DEFINE n == Node(p, len)
<1>0. m_baseSize * len \in Nat
  BY BaseSizeAssumption
<1>1. CASE p = m_baseSize * len
  BY <1>0, <1>1, NodeIs DEF WalkOver
<1>2. CASE p < m_baseSize * len
  <2>1. n = 1 + (p \div m_baseSize) /\ n \in 1 .. len /\ n # Null
    <3>1. p <= m_baseSize * len
      BY <1>0, <1>2
    <3>2. QED
      BY <1>2, <3>1, NodeIs DEF Null
  <2>2. \A i \in 1 .. size : Place(n, p % m_baseSize, i) = Spot(p + i - 1)
    BY <2>1, PlaceIsSpot
  <2>3. ASSUME size > 0 PROVE ~(Place(n, p % m_baseSize, size)[1] > len)
    <3>1. Place(n, p % m_baseSize, size) = Spot(p + size - 1)
      BY <2>2, <2>3
    <3>2. p + size - 1 \in Nat /\ p + size - 1 < m_baseSize * len
      BY <1>0, <2>3
    <3>3. 1 + ((p + size - 1) \div m_baseSize) \in 1 .. len
      BY <3>2, SpotIn
    <3>4. QED
      BY <3>1, <3>3 DEF Spot
  <2>4. Following(n, ((p % m_baseSize) + size) \div m_baseSize, len) = Node(p + size, len)
    <3>1. (p + size) \div m_baseSize = (p \div m_baseSize) + (((p % m_baseSize) + size) \div m_baseSize)
      BY DivShift, BaseSizeAssumption
    <3>2. p \div m_baseSize \in Nat /\ p % m_baseSize \in Nat
      BY DivMod, BaseSizeAssumption
    <3>3. ((p % m_baseSize) + size) \div m_baseSize \in Nat
      BY <3>2, DivMod, BaseSizeAssumption
    <3>4. n + (((p % m_baseSize) + size) \div m_baseSize) = 1 + ((p + size) \div m_baseSize)
      BY <2>1, <3>1, <3>2, <3>3
    <3>5. QED
      BY <3>4 DEF Node, Following
  <2> HIDE DEF n
  <2>5. WalkOver(n, p % m_baseSize, size, len)
          = [at |-> [i \in 1 .. size |-> Place(n, p % m_baseSize, i)], cur |-> Node(p + size, len), ok |-> TRUE]
    BY <2>1, <2>3, <2>4 DEF WalkOver
  <2>6. [i \in 1 .. size |-> Place(n, p % m_baseSize, i)] = [i \in 1 .. size |-> Spot(p + i - 1)]
    BY <2>2
  <2>7. p # m_baseSize * len
    BY <1>0, <1>2
  <2>8. WalkOver(n, p % m_baseSize, size, len)
          = [at |-> [i \in 1 .. size |-> Spot(p + i - 1)], cur |-> Node(p + size, len), ok |-> TRUE]
    BY <2>5, <2>6
  <2>9. QED
    BY <2>7, <2>8 DEF n
<1>3. QED
  BY <1>0, <1>1, <1>2

-----------------------------------------------------------------------------
(* The invariant.                                                          *)

ArrayInv ==
  /\ nodes \in Seq(Nodes) /\ Len(nodes) \in Nat \ {0}
  /\ m_position \in Nat /\ m_size \in Nat /\ m_position <= m_size /\ m_size <= m_capacity
  /\ m_capacity = m_baseSize * Len(nodes)
  /\ cur = Node(m_position, Len(nodes))
  /\ m_endian \in {"big", "little"}

\* A sequence of bytes that lies at a position.
Lies(s, p) == p + Len(s) <= m_size /\ \A j \in 1 .. Len(s) : Data[p + j] = s[j]

\* The value written last lies where it was written.
ItemsInv ==
  \A i \in items :
    /\ i.item \in Items /\ i.bytes = Encode(i.item, i.endian)
    /\ i.at \in Nat /\ Lies(i.bytes, i.at)

Inv == ArrayInv /\ ItemsInv

-----------------------------------------------------------------------------
(* The bytes.                                                              *)

\* The byte at a place.
Cell(ns, x) == ns[1 + (x \div m_baseSize)][(x % m_baseSize) + 1]

\* A position below the capacity holds a byte, written or not.
LEMMA CellIn ==
  ASSUME NEW ns \in Seq(Nodes), NEW x \in Nat, x < m_baseSize * Len(ns)
  PROVE  Cell(ns, x) \in Cells
<1>1. 1 + (x \div m_baseSize) \in 1 .. Len(ns) /\ (x % m_baseSize) + 1 \in 1 .. m_baseSize
  BY SpotIn, LenProperties
<1>2. ns[1 + (x \div m_baseSize)] \in Nodes
  BY <1>1, ElementOfSeq
<1>3. QED
  BY <1>1, <1>2 DEF Cell, Nodes

\* A sequence given by its elements.
LEMMA SeqOf ==
  ASSUME NEW n \in Nat, NEW S, NEW f, f = [i \in 1 .. n |-> f[i]], \A i \in 1 .. n : f[i] \in S
  PROVE  f \in Seq(S) /\ Len(f) = n
<1>1. f \in [1 .. n -> S]
  BY Zenon
<1>2. QED
  BY <1>1, SeqDef

\* The data is the cells below m_size.
LEMMA DataIs ==
  ASSUME ArrayInv
  PROVE  /\ Data \in Seq(Cells) /\ Len(Data) = m_size
         /\ \A i \in 1 .. m_size : Data[i] = Cell(nodes, i - 1) /\ Data[i] \in Cells
<1>1. ASSUME NEW i \in 1 .. m_size PROVE Data[i] = Cell(nodes, i - 1) /\ Data[i] \in Cells
  <2>1. i - 1 \in Nat /\ i - 1 < m_baseSize * Len(nodes)
    BY BaseSizeAssumption DEF ArrayInv
  <2>2. (i - 1) \div m_baseSize \in Nat
    BY <2>1, DivMod, BaseSizeAssumption
  <2>3. ((i - 1) \div m_baseSize) + 1 = 1 + ((i - 1) \div m_baseSize)
    BY <2>2
  <2>4. Data[i] = Cell(nodes, i - 1)
    BY <2>3 DEF Data, Cell
  <2>5. QED
    BY <2>1, <2>4, CellIn DEF ArrayInv
<1>2. m_size \in Nat /\ Data = [i \in 1 .. m_size |-> Data[i]]
  BY DEF ArrayInv, Data
<1> HIDE DEF Data
<1>3. QED
  BY <1>1, <1>2, SeqOf

\* A part of the data.
LEMMA PartOfData ==
  ASSUME ArrayInv, NEW p \in Nat, NEW n \in Nat, p + n <= m_size
  PROVE  /\ SubSeq(Data, p + 1, p + n) \in Seq(Cells) /\ Len(SubSeq(Data, p + 1, p + n)) = n
         /\ \A i \in 1 .. n : SubSeq(Data, p + 1, p + n)[i] = Data[p + i]
<1>1. \A i \in p + 1 .. p + n : Data[i] \in Cells
  BY DataIs DEF ArrayInv
<1>2. /\ SubSeq(Data, p + 1, p + n) \in Seq(Cells)
      /\ Len(SubSeq(Data, p + 1, p + n)) = IF p + 1 <= p + n THEN (p + n) - (p + 1) + 1 ELSE 0
      /\ \A i \in 1 .. (p + n) - (p + 1) + 1 : SubSeq(Data, p + 1, p + n)[i] = Data[(p + 1) + i - 1]
  BY <1>1, SubSeqProperties
<1>3. QED
  BY <1>2

\* The bytes of a walk are the data.
LEMMA BytesRight ==
  ASSUME ArrayInv, NEW p \in Nat, NEW n \in Nat, p + n <= m_size,
         NEW w, w.at = [i \in 1 .. n |-> Spot(p + i - 1)]
  PROVE  Bytes(w) = SubSeq(Data, p + 1, p + n)
<1>1. Len(w.at) = n
  OBVIOUS
<1>2. ASSUME NEW i \in 1 .. n
      PROVE  nodes[w.at[i][1]][w.at[i][2]] = Data[p + i] /\ Data[p + i] \in Cells
  <2>1. w.at[i] = Spot(p + i - 1)
    OBVIOUS
  <2>2. p + i \in 1 .. m_size /\ (p + i) - 1 = p + i - 1
    BY DEF ArrayInv
  <2>3. Data[p + i] = Cell(nodes, p + i - 1) /\ Data[p + i] \in Cells
    BY <2>2, DataIs
  <2>4. QED
    BY <2>1, <2>3 DEF Cell, Spot
<1>3. Bytes(w) = [i \in 1 .. n |-> Data[p + i]]
  BY <1>1, <1>2 DEF Bytes
<1>4. PICK f : f = [i \in 1 .. n |-> Data[p + i]]
  OBVIOUS
<1>5. f \in Seq(Cells) /\ Len(f) = n /\ \A i \in 1 .. n : f[i] = Data[p + i]
  BY <1>2, <1>4, SeqOf
<1>6. QED
  BY <1>3, <1>4, <1>5, PartOfData, SeqEqual

\* A read of n bytes at position p.
LEMMA ReadRight ==
  ASSUME ArrayInv, NEW p \in Nat, NEW n \in Nat, p + n <= m_size
  PROVE  LET w == Walk(NodeOf(p), p % m_baseSize, n)
         IN  \/ w.ok /\ w.cur = NodeOf(p + n) /\ Bytes(w) = SubSeq(Data, p + 1, p + n) /\ p # m_capacity
             \/ ~w.ok /\ n = 0 /\ p = m_capacity
<1>1. PICK w : w = WalkOver(Node(p, Len(nodes)), p % m_baseSize, n, Len(nodes))
  OBVIOUS
<1>2. Walk(NodeOf(p), p % m_baseSize, n) = w
  BY <1>1 DEF Walk, NodeOf, Node
<1>3. p + n <= m_baseSize * Len(nodes) /\ Len(nodes) \in Nat
  BY BaseSizeAssumption DEF ArrayInv
<1>4. IF p = m_baseSize * Len(nodes) THEN n = 0 /\ ~w.ok
      ELSE w = [at |-> [i \in 1 .. n |-> Spot(p + i - 1)], cur |-> Node(p + n, Len(nodes)), ok |-> TRUE]
  BY <1>1, <1>3, WalkRight
<1>5. CASE p = m_capacity
  BY <1>2, <1>4, <1>5 DEF ArrayInv
<1>6. CASE p # m_capacity
  <2>1. w.at = [i \in 1 .. n |-> Spot(p + i - 1)] /\ w.ok /\ w.cur = Node(p + n, Len(nodes))
    BY <1>4, <1>6 DEF ArrayInv
  <2>2. Bytes(w) = SubSeq(Data, p + 1, p + n)
    BY <2>1, BytesRight
  <2>3. QED
    BY <1>2, <1>6, <2>1, <2>2 DEF NodeOf, Node
<1>7. QED
  BY <1>5, <1>6

-----------------------------------------------------------------------------
(* addCapacity and write.                                                  *)

\* addCapacity makes room for size bytes behind the position, and m_cur is then the node of it.
LEMMA GrowRight ==
  ASSUME ArrayInv, NEW size \in Nat
  PROVE  /\ Count(size) \in Nat /\ Grown(size) \in Seq(Nodes) /\ Len(Grown(size)) = Len(nodes) + Count(size)
         /\ \A n \in 1 .. Len(nodes) : Grown(size)[n] = nodes[n]
         /\ m_capacity + Count(size) * m_baseSize = m_baseSize * Len(Grown(size))
         /\ m_position + size <= m_baseSize * Len(Grown(size))
         /\ CurAfter(size) = Node(m_position, Len(Grown(size)))
<1> DEFINE k == Count(size)
           b == m_baseSize
<1>0. b \in Nat \ {0} /\ m_capacity \in Nat /\ m_position <= m_capacity /\ m_capacity = b * Len(nodes)
      /\ Len(nodes) \in Nat \ {0} /\ m_position \in Nat /\ getCapacity = m_capacity - m_position
  BY BaseSizeAssumption DEF ArrayInv, getCapacity
<1>1. k \in Nat /\ size <= getCapacity + b * k /\ (k = 0 <=> getCapacity >= size)
  <2>1. CASE getCapacity >= size
    BY <1>0, <2>1 DEF Count
  <2>2. CASE getCapacity < size
    <3>0. size - getCapacity + b - 1 \in Nat /\ size - getCapacity + b - 1 >= b
      BY <1>0, <2>2
    <3>1. PICK x \in Nat : x = size - getCapacity + b - 1 /\ x >= b
      BY <3>0
    <3>2. k = x \div b
      BY <1>0, <2>2, <3>1 DEF Count
    <3>3. x \div b \in Nat /\ x % b \in 0 .. b - 1 /\ x = b * (x \div b) + (x % b)
      BY <1>0, DivMod
    <3> HIDE DEF k
    <3>4. k \in Nat /\ x % b \in 0 .. b - 1 /\ x = b * k + (x % b)
      BY <3>2, <3>3
    <3>5. k # 0
      BY <1>0, <3>1, <3>4
    <3>6. size <= getCapacity + b * k
      BY <1>0, <3>1, <3>4
    <3>7. QED
      BY <1>0, <2>2, <3>4, <3>5, <3>6
  <2>3. QED
    BY <1>0, <2>1, <2>2
<1>2. NewNode \in Nodes
  BY DEF NewNode, Nodes, Cells
<1>3. PICK new : new = [i \in 1 .. k |-> NewNode]
  OBVIOUS
<1>4. new \in Seq(Nodes) /\ Len(new) = k
  BY <1>1, <1>2, <1>3, SeqOf
<1>5. /\ Grown(size) \in Seq(Nodes) /\ Len(Grown(size)) = Len(nodes) + k
      /\ \A n \in 1 .. Len(nodes) : Grown(size)[n] = nodes[n]
  <2>1. Grown(size) = nodes \o new
    BY <1>3 DEF Grown
  <2>2. nodes \in Seq(Nodes)
    BY DEF ArrayInv
  <2> HIDE DEF k
  <2>3. /\ nodes \o new \in Seq(Nodes) /\ Len(nodes \o new) = Len(nodes) + Len(new)
        /\ \A i \in 1 .. Len(nodes) + Len(new) : (nodes \o new)[i] = IF i <= Len(nodes) THEN nodes[i] ELSE new[i - Len(nodes)]
    BY <1>4, <2>2, ConcatProperties
  <2>4. QED
    BY <1>0, <1>1, <1>4, <2>1, <2>3
<1> HIDE DEF k
<1>6. m_baseSize * (Len(nodes) + k) = m_capacity + k * m_baseSize
  BY <1>0, <1>1
<1>7. m_position + size <= m_baseSize * (Len(nodes) + k)
  <2>1. k * b = b * k
    BY <1>0, <1>1
  <2>2. QED
    BY <1>0, <1>1, <1>6, <2>1
<1>8. CurAfter(size) = Node(m_position, Len(nodes) + k)
  <2>1. CASE k > 0 /\ getCapacity = 0
    <3>1. CurAfter(size) = Len(nodes) + 1
      BY <2>1 DEF CurAfter, k
    <3>2. m_position \div b = Len(nodes)
      BY <1>0, <2>1, DivLess
    <3>3. QED
      BY <1>0, <1>1, <2>1, <3>1, <3>2 DEF Node, Following
  <2>2. CASE ~(k > 0 /\ getCapacity = 0)
    <3>1. CurAfter(size) = Node(m_position, Len(nodes))
      BY <2>2 DEF CurAfter, ArrayInv, k
    <3>2. CASE k = 0
      BY <1>0, <3>1, <3>2
    <3>3. CASE m_position < m_capacity
      <4>1. m_position \div b < Len(nodes) /\ m_position \div b \in Nat
        BY <1>0, <3>3, DivLess, DivMod
      <4>2. QED
        BY <1>0, <1>1, <3>1, <4>1 DEF Node, Following
    <3>4. QED
      BY <1>0, <1>1, <2>2, <3>2, <3>3
  <2>3. QED
    BY <2>1, <2>2
<1>9. QED
  BY <1>1, <1>5, <1>6, <1>7, <1>8 DEF k

\* What the bytes are after a write.
Over(s, i) == IF i \in m_position + 1 .. m_position + Len(s) THEN s[i - m_position] ELSE Data[i]

\* write(s) puts the bytes over those from the position on, and keeps the nodes in order.
LEMMA WriteRight ==
  ASSUME ArrayInv, NEW s \in Seq(Byte), writeBytes(s), m_endian' = m_endian
  PROVE  /\ ArrayInv' /\ m_position' = m_position + Len(s)
         /\ m_size' = IF m_position + Len(s) > m_size THEN m_position + Len(s) ELSE m_size
         /\ \A i \in 1 .. m_size' : Data'[i] = Over(s, i)
<1> DEFINE len == Len(s)
           ns == Grown(len)
           L == Len(ns)
           b == m_baseSize
           ts == PlacesOf(len)
<1>0. /\ b \in Nat \ {0} /\ len \in Nat /\ m_position \in Nat /\ m_size \in Nat /\ m_position <= m_size
      /\ m_size <= m_capacity /\ Len(nodes) \in Nat \ {0} /\ m_capacity = b * Len(nodes) /\ nodes \in Seq(Nodes)
  BY BaseSizeAssumption, LenProperties DEF ArrayInv
<1>1. /\ Count(len) \in Nat /\ ns \in Seq(Nodes) /\ L = Len(nodes) + Count(len)
      /\ \A n \in 1 .. Len(nodes) : ns[n] = nodes[n]
      /\ m_capacity + Count(len) * b = b * L /\ m_position + len <= b * L
      /\ CurAfter(len) = Node(m_position, L)
  BY <1>0, GrowRight
<1>2. /\ nodes' = Put(ns, ts, s) /\ m_capacity' = b * L /\ m_position' = m_position + len
      /\ m_size' = (IF m_position + len > m_size THEN m_position + len ELSE m_size)
      /\ cur' = Following(Node(m_position, L), (Offset + len) \div b, L)
  BY <1>1 DEF writeBytes
<1>3. L \in Nat \ {0} /\ b * L \in Nat
  BY <1>0, <1>1
<1>types. b \in Nat \ {0} /\ len \in Nat /\ m_position \in Nat /\ L \in Nat /\ m_position <= b * L
  BY <1>0, <1>1, <1>3
<1>node. m_position < b * L => Node(m_position, L) = 1 + (m_position \div b)
  <2> HIDE DEF L
  <2>1. QED
    BY <1>types, NodeIs
<1>4. ASSUME NEW i \in 1 .. len PROVE ts[i] = Spot(m_position + i - 1)
  <2>1. m_position < b * L
    BY <1>0, <1>1, <1>3
  <2>2. CurAfter(len) = 1 + (m_position \div b)
    BY <1>1, <1>node, <2>1
  <2>3. ts[i] = Place(1 + (m_position \div b), m_position % b, i)
    BY <2>2 DEF PlacesOf, Offset
  <2>4. Place(1 + (m_position \div b), m_position % b, i) = Spot(m_position + i - 1)
    <3>1. i \in Nat \ {0}
      BY <1>types
    <3>2. QED
      BY <1>types, <3>1, PlaceIsSpot
  <2>5. QED
    BY <2>3, <2>4
<1>5. cur' = Node(m_position', L)
  <2>1. CASE m_position < b * L
    <3>1. Node(m_position, L) = 1 + (m_position \div b)
      BY <1>node, <2>1
    <3>2. (m_position + len) \div b = (m_position \div b) + ((Offset + len) \div b)
      BY <1>0, DivShift DEF Offset
    <3>3. m_position \div b \in Nat /\ Offset \in Nat
      <4>1. m_position \div b \in Nat /\ m_position % b \in 0 .. b - 1
        BY <1>types, DivMod
      <4>2. QED
        BY <1>types, <4>1 DEF Offset
    <3>4. (Offset + len) \div b \in Nat
      <4>1. Offset + len \in Nat
        BY <1>types, <3>3
      <4>2. QED
        BY <1>types, <4>1, DivMod
    <3>5. QED
      BY <1>2, <3>1, <3>2, <3>3, <3>4 DEF Node, Following
  <2>2. CASE m_position = b * L
    <3>1. len = 0 /\ Node(m_position, L) = Null
      BY <1>0, <1>1, <1>3, <2>2, NodeIs
    <3>2. Offset = 0
      BY <1>0, <1>3, <2>2, DivLess DEF Offset
    <3>3. (Offset + len) \div b = 0
      <4>1. b * 0 + 0 = 0
        BY <1>0
      <4>2. 0 \div b = 0
        BY <1>0, <4>1, DivUnique
      <4>3. QED
        BY <3>1, <3>2, <4>2
    <3>4. QED
      BY <1>0, <1>2, <1>3, <3>1, <3>3 DEF Following, Null
  <2>3. QED
    BY <1>0, <1>1, <1>3, <2>1, <2>2
<1>6. \A i \in 1 .. len : s[i] \in Cells
  BY ElementOfSeq DEF Cells
<1>7. nodes' \in Seq(Nodes) /\ Len(nodes') = L
  <2>1. DOMAIN ns = 1 .. L
    BY <1>1, LenProperties
  <2>2. \A n \in 1 .. L : ns[n] \in Nodes
    BY <1>1, ElementOfSeq
  <2>3. ASSUME NEW n \in 1 .. L PROVE nodes'[n] \in Nodes
    <3>1. nodes'[n] = [o \in 1 .. b |-> IF \E i \in 1 .. len : ts[i] = <<n, o>>
                                         THEN s[CHOOSE i \in 1 .. len : ts[i] = <<n, o>>] ELSE ns[n][o]]
      BY <1>2, <2>1 DEF Put
    <3>2. ASSUME NEW o \in 1 .. b PROVE nodes'[n][o] \in Cells
      <4>1. ns[n][o] \in Cells
        BY <2>2 DEF Nodes
      <4>2. QED
        BY <1>6, <3>1, <4>1
    <3>3. QED
      BY <3>1, <3>2 DEF Nodes
  <2>4. nodes' = [n \in 1 .. L |-> nodes'[n]]
    BY <1>2, <2>1 DEF Put
  <2>5. QED
    BY <1>3, <2>3, <2>4, SeqOf
<1>8. ASSUME NEW x \in Nat, x < b * L
      PROVE  Cell(nodes', x) = IF x \in m_position .. m_position + len - 1 THEN s[x - m_position + 1] ELSE Cell(ns, x)
  <2> DEFINE n == 1 + (x \div b)
             o == (x % b) + 1
  <2>1. n \in 1 .. L /\ o \in 1 .. b
    BY <1>3, <1>8, SpotIn
  <2>2. DOMAIN ns = 1 .. L
    BY <1>1, LenProperties
  <2>3. Cell(nodes', x) = IF \E i \in 1 .. len : ts[i] = <<n, o>>
                          THEN s[CHOOSE i \in 1 .. len : ts[i] = <<n, o>>] ELSE Cell(ns, x)
    BY <1>2, <2>1, <2>2 DEF Put, Cell
  <2>4. ASSUME NEW i \in 1 .. len PROVE ts[i] = <<n, o>> <=> x = m_position + i - 1
    <3>1. Spot(x) = <<n, o>>
      BY DEF Spot
    <3>2. m_position + i - 1 \in Nat
      BY <1>0
    <3>3. QED
      BY <1>4, <1>8, <3>1, <3>2, SpotInjective
  <2> HIDE DEF n, o
  <2>5. CASE x \in m_position .. m_position + len - 1
    <3>1. PICK j \in 1 .. len : j = x - m_position + 1
      BY <1>0, <1>8, <2>5
    <3>2. \A i \in 1 .. len : ts[i] = <<n, o>> <=> i = j
      BY SMTT(40), <1>0, <1>8, <2>4, <3>1
    <3>3. (CHOOSE i \in 1 .. len : ts[i] = <<n, o>>) = j
      BY <3>1, <3>2
    <3>4. QED
      BY <2>3, <2>5, <3>1, <3>2, <3>3
  <2>6. CASE x \notin m_position .. m_position + len - 1
    <3>1. \A i \in 1 .. len : ts[i] # <<n, o>>
      BY <1>0, <1>8, <2>4, <2>6
    <3>2. QED
      BY <2>3, <2>6, <3>1
  <2>7. QED
    BY <2>5, <2>6
<1>9. ArrayInv'
  <2>1. Node(m_position', L) = Node(m_position, Len(nodes))'
    BY <1>7 DEF Node, Following, Null
  <2>2. m_position' \in Nat /\ m_size' \in Nat /\ m_position' <= m_size' /\ m_size' <= m_capacity'
    <3>1. m_capacity <= b * L
      <4>1. Count(len) * b \in Nat /\ m_capacity \in Nat
        BY <1>0, <1>1
      <4>2. QED
        BY <1>1, <1>3, <4>1
    <3>2. QED
      BY SMTT(40), <1>0, <1>1, <1>2, <1>3, <3>1
  <2>3. QED
    BY <1>2, <1>3, <1>5, <1>7, <2>1, <2>2 DEF ArrayInv
<1>10. ASSUME NEW i \in 1 .. m_size' PROVE Data'[i] = Over(s, i)
  <2>1. Data'[i] = Cell(nodes', i - 1)
    <3>1. (i - 1) \div m_baseSize \in Nat
      <4>1. i - 1 \in Nat
        BY <1>9 DEF ArrayInv
      <4>2. QED
        BY <4>1, DivMod, BaseSizeAssumption
    <3>2. QED
      BY <3>1 DEF Data, Cell
  <2>2. i - 1 \in Nat /\ i - 1 < b * L
    BY <1>2, <1>3, <1>9 DEF ArrayInv
  <2>3. CASE i \in m_position + 1 .. m_position + len
    <3>1. i - 1 \in m_position .. m_position + len - 1 /\ (i - 1) - m_position + 1 = i - m_position
      BY <1>0, <2>3
    <3>2. QED
      BY <1>8, <2>1, <2>2, <2>3, <3>1 DEF Over
  <2>4. CASE i \notin m_position + 1 .. m_position + len
    <3>1. i - 1 \notin m_position .. m_position + len - 1
      BY <1>0, <2>2, <2>4
    <3>2. i \in 1 .. m_size
      BY <1>0, <1>2, <2>4
    <3>3. i - 1 < b * Len(nodes)
      BY <1>0, <3>2
    <3>4. 1 + ((i - 1) \div b) \in 1 .. Len(nodes)
      BY <1>0, <2>2, <3>3, SpotIn
    <3>5. Cell(ns, i - 1) = Cell(nodes, i - 1)
      BY <1>1, <3>4 DEF Cell
    <3>6. QED
      BY <1>8, <2>1, <2>2, <2>4, <3>1, <3>2, <3>5, DataIs DEF Over
  <2>5. QED
    BY <2>3, <2>4
<1>11. QED
  BY <1>2, <1>9, <1>10

-----------------------------------------------------------------------------
(* Reading typed values.                                                   *)

\* A reader stands at a position, with the node of it.
IsReader(r) ==
  /\ r = [pos |-> r.pos, cur |-> r.cur, ok |-> r.ok, v |-> r.v, out |-> r.out]
  /\ r.pos \in Nat /\ r.pos <= m_size /\ r.cur = NodeOf(r.pos) /\ r.v \in Nat

\* One part of a value: it is there, or too long, or nothing is asked for at the end of the capacity.
LEMMA PartIs ==
  ASSUME ArrayInv, NEW r, IsReader(r), r.ok = "ok", NEW size \in Nat
  PROVE  LET q == Part(r, size)
         IN  /\ IsReader(q) /\ q.v = r.v
             /\ \/ size > m_size - r.pos /\ q.ok = "out_of_range" /\ q.pos = r.pos
                \/ size = 0 /\ r.pos = m_capacity /\ q.ok = "fault" /\ q.pos = r.pos
                \/ /\ r.pos + size <= m_size /\ q.ok = "ok" /\ q.pos = r.pos + size
                   /\ q.out = SubSeq(Data, r.pos + 1, r.pos + size)
<1>1. PICK w : w = Walk(NodeOf(r.pos), r.pos % m_baseSize, size)
  OBVIOUS
<1>2. PICK q : q = Part(r, size)
  OBVIOUS
<1>3. q = IF size > m_size - r.pos THEN [r EXCEPT !.ok = "out_of_range"]
          ELSE IF ~w.ok THEN [r EXCEPT !.ok = "fault"]
          ELSE [r EXCEPT !.pos = @ + size, !.cur = w.cur, !.out = Bytes(w)]
  BY <1>1, <1>2 DEF Part, IsReader
<1>4. r.pos \in Nat /\ m_size \in Nat
  BY DEF IsReader, ArrayInv
<1>5. CASE size > m_size - r.pos
  <2>1. q = [r EXCEPT !.ok = "out_of_range"]
    BY <1>3, <1>5
  <2>2. QED
    BY <1>2, <1>5, <2>1 DEF IsReader
<1>6. CASE ~(size > m_size - r.pos)
  <2>1. r.pos + size <= m_size
    BY <1>4, <1>6
  <2>2. \/ w.ok /\ w.cur = NodeOf(r.pos + size) /\ Bytes(w) = SubSeq(Data, r.pos + 1, r.pos + size)
        \/ ~w.ok /\ size = 0 /\ r.pos = m_capacity
    BY <1>1, <1>4, <2>1, ReadRight
  <2>3. CASE ~w.ok /\ size = 0 /\ r.pos = m_capacity
    <3>1. q = [r EXCEPT !.ok = "fault"]
      BY <1>3, <1>6, <2>3
    <3>2. QED
      BY <1>2, <2>3, <3>1 DEF IsReader
  <2>4. CASE w.ok /\ w.cur = NodeOf(r.pos + size) /\ Bytes(w) = SubSeq(Data, r.pos + 1, r.pos + size)
    <3>1. q = [r EXCEPT !.pos = r.pos + size, !.cur = NodeOf(r.pos + size),
                        !.out = SubSeq(Data, r.pos + 1, r.pos + size)]
      BY <1>3, <1>6, <2>4
    <3>a. q = [pos |-> r.pos + size, cur |-> NodeOf(r.pos + size), ok |-> r.ok, v |-> r.v,
               out |-> SubSeq(Data, r.pos + 1, r.pos + size)]
      <4>1. PICK x, y : x = NodeOf(r.pos + size) /\ y = SubSeq(Data, r.pos + 1, r.pos + size)
        OBVIOUS
      <4>2. q = [r EXCEPT !.pos = r.pos + size, !.cur = x, !.out = y]
        BY <3>1, <4>1
      <4>3. r = [pos |-> r.pos, cur |-> r.cur, ok |-> r.ok, v |-> r.v, out |-> r.out]
        BY DEF IsReader
      <4>4. q = [pos |-> r.pos + size, cur |-> x, ok |-> r.ok, v |-> r.v, out |-> y]
        BY <4>2, <4>3
      <4>5. QED
        BY <4>1, <4>4
    <3>b. q.pos = r.pos + size /\ q.cur = NodeOf(q.pos) /\ q.ok = r.ok /\ q.v = r.v
          /\ q.out = SubSeq(Data, r.pos + 1, r.pos + size)
      BY <3>a
    <3>c. q = [pos |-> q.pos, cur |-> q.cur, ok |-> q.ok, v |-> q.v, out |-> q.out]
      BY <3>a, <3>b
    <3>2. IsReader(q) /\ q.v = r.v /\ q.ok = "ok" /\ q.pos = r.pos + size
          /\ q.out = SubSeq(Data, r.pos + 1, r.pos + size)
      BY <1>4, <2>1, <3>b, <3>c DEF IsReader
    <3>3. QED
      BY <1>2, <2>1, <3>2
  <2>5. QED
    BY <2>2, <2>3, <2>4
<1>7. QED
  BY <1>5, <1>6

\* A part of at least one byte that is there.
LEMMA PartThere ==
  ASSUME ArrayInv, NEW r, IsReader(r), r.ok = "ok", NEW size \in Nat, r.pos + size <= m_size,
         size # 0 \/ r.pos # m_capacity
  PROVE  LET q == Part(r, size)
         IN  /\ IsReader(q) /\ q.v = r.v /\ q.ok = "ok" /\ q.pos = r.pos + size
             /\ q.out \in Seq(Cells) /\ Len(q.out) = size /\ \A i \in 1 .. size : q.out[i] = Data[r.pos + i]
<1>1. PICK q : q = Part(r, size)
  OBVIOUS
<1>2. r.pos \in Nat /\ m_size \in Nat /\ ~(size > m_size - r.pos)
  BY DEF IsReader, ArrayInv
<1>3. /\ IsReader(q) /\ q.v = r.v /\ q.ok = "ok" /\ q.pos = r.pos + size
      /\ q.out = SubSeq(Data, r.pos + 1, r.pos + size)
  BY <1>1, <1>2, PartIs
<1>4. QED
  BY <1>1, <1>2, <1>3, PartOfData

\* One byte.
LEMMA PartOne ==
  ASSUME ArrayInv, NEW r, IsReader(r), r.ok = "ok"
  PROVE  LET q == Part(r, 1)
         IN  /\ r.pos \in Nat /\ m_size \in Nat /\ IsReader(q) /\ q.pos >= r.pos
             /\ (r.pos + 1 <= m_size => q.ok = "ok" /\ q.pos = r.pos + 1 /\ q.out[1] = Data[r.pos + 1])
             /\ (q.ok = "ok" => q.out[1] \in Cells)
<1>0. PICK n \in Nat : n = 1
  OBVIOUS
<1>1. PICK q : q = Part(r, n) /\ n = 1
  BY <1>0
<1>2. r.pos \in Nat /\ m_size \in Nat
  BY DEF IsReader, ArrayInv
<1>3. CASE r.pos + 1 <= m_size
  <2>1. r.pos + n <= m_size /\ n # 0
    BY <1>1, <1>3
  <2>2. /\ IsReader(q) /\ q.ok = "ok" /\ q.pos = r.pos + n
        /\ q.out \in Seq(Cells) /\ Len(q.out) = n /\ \A i \in 1 .. n : q.out[i] = Data[r.pos + i]
    BY <1>1, <2>1, PartThere
  <2>3. q.out[1] \in Cells
    BY <1>1, <2>2, ElementOfSeq
  <2>4. QED
    BY <1>1, <1>2, <2>2, <2>3
<1>4. CASE ~(r.pos + 1 <= m_size)
  <2>1. ~(r.pos + n <= m_size) /\ n # 0
    BY <1>1, <1>4
  <2>2. IsReader(q) /\ q.ok = "out_of_range" /\ q.pos = r.pos
    BY <1>1, <1>2, <2>1, PartIs
  <2>3. QED
    BY <1>1, <1>2, <1>4, <2>2
<1>5. QED
  BY <1>3, <1>4

\* The value of a byte.
LEMMA NumIs == \A c \in Cells : Num(c) \in Byte /\ (c \in Byte => Num(c) = c)
BY ValuesAssumption DEF Num, Cells, Byte, Word

\* A number is set.
LEMMA NumberIs ==
  ASSUME NEW r, IsReader(r), NEW n \in Nat
  PROVE  /\ IsReader(Number(r, n)) /\ Number(r, n).v = n /\ Number(r, n).pos = r.pos /\ Number(r, n).ok = r.ok
BY DEF IsReader, Number

\* readUint32 and readUint64.
LEMMA ReadUintIs ==
  ASSUME ArrayInv, NEW r, IsReader(r), r.ok = "ok"
  PROVE  LET q == readUint(r)
         IN  /\ IsReader(q) /\ q.pos >= r.pos
             /\ \A n \in 0 .. Word - 1 :
                  /\ r.pos + Len(Varint(n)) <= m_size
                  /\ \A i \in 1 .. Len(Varint(n)) : Data[r.pos + i] = Varint(n)[i]
                  => q.ok = "ok" /\ q.v = n /\ q.pos = r.pos + Len(Varint(n))
<1>1. PICK a : a = Part(r, 1)
  OBVIOUS
<1>2. PICK b : b = Part(a, 1)
  OBVIOUS
<1>3. readUint(r) = IF a.ok # "ok" THEN a
                    ELSE IF Num(a.out[1]) < More THEN Number(a, Num(a.out[1]))
                    ELSE IF b.ok # "ok" THEN b
                    ELSE Number(b, ((Num(a.out[1]) % More) + (Num(b.out[1]) % More) * More) % Word)
  BY <1>1, <1>2 DEF readUint, Then
<1>4. /\ r.pos \in Nat /\ m_size \in Nat /\ IsReader(a) /\ a.pos >= r.pos
      /\ (r.pos + 1 <= m_size => a.ok = "ok" /\ a.pos = r.pos + 1 /\ a.out[1] = Data[r.pos + 1])
      /\ (a.ok = "ok" => a.out[1] \in Cells)
  BY <1>1, PartOne
<1>5. ASSUME a.ok = "ok"
      PROVE  /\ IsReader(b) /\ b.pos >= a.pos
             /\ (a.pos + 1 <= m_size => b.ok = "ok" /\ b.pos = a.pos + 1 /\ b.out[1] = Data[a.pos + 1])
             /\ (b.ok = "ok" => b.out[1] \in Cells)
  BY <1>2, <1>4, <1>5, PartOne
<1>6. PICK q : q = readUint(r)
  OBVIOUS
<1>7. PICK x, y : x = Num(a.out[1]) /\ y = Num(b.out[1])
  OBVIOUS
<1>8. /\ a.ok = "ok" => x \in Byte /\ (a.out[1] \in Byte => x = a.out[1])
      /\ a.ok = "ok" /\ b.ok = "ok" => y \in Byte /\ (b.out[1] \in Byte => y = b.out[1])
  BY <1>4, <1>5, <1>7, NumIs
<1>9. q = IF a.ok # "ok" THEN a
          ELSE IF x < More THEN Number(a, x)
          ELSE IF b.ok # "ok" THEN b
          ELSE Number(b, ((x % More) + (y % More) * More) % Word)
  BY <1>3, <1>6, <1>7
<1>10. IsReader(q) /\ q.pos >= r.pos
  <2>1. CASE a.ok # "ok"
    BY <1>4, <1>9, <2>1
  <2>2. CASE a.ok = "ok" /\ x < More
    <3>1. q = Number(a, x) /\ x \in Nat
      BY <1>8, <1>9, <2>2 DEF Byte, Word
    <3>2. QED
      BY <1>4, <3>1, NumberIs
  <2>3. CASE a.ok = "ok" /\ ~(x < More)
    <3>0. a.pos \in Nat /\ b.pos \in Nat /\ b.pos >= r.pos
      BY <1>4, <1>5, <2>3 DEF IsReader
    <3>1. CASE b.ok # "ok"
      BY <1>5, <1>9, <2>3, <3>0, <3>1
    <3>2. CASE b.ok = "ok"
      <4>1. ((x % More) + (y % More) * More) % Word \in Nat
        BY <1>8, <2>3, <3>2 DEF Byte, Word, More
      <4>2. q = Number(b, ((x % More) + (y % More) * More) % Word)
        BY <1>9, <2>3, <3>2
      <4>3. QED
        BY <1>5, <2>3, <3>0, <4>1, <4>2, NumberIs
    <3>3. QED
      BY <3>1, <3>2
  <2>4. QED
    BY <2>1, <2>2, <2>3
<1>11. ASSUME NEW n \in 0 .. Word - 1, r.pos + Len(Varint(n)) <= m_size,
              \A i \in 1 .. Len(Varint(n)) : Data[r.pos + i] = Varint(n)[i]
       PROVE  q.ok = "ok" /\ q.v = n /\ q.pos = r.pos + Len(Varint(n))
  <2>1. CASE n < More
    <3>1. Varint(n) = <<n>> /\ Len(Varint(n)) = 1 /\ Varint(n)[1] = n /\ n \in Byte /\ n \in Nat
      BY <2>1 DEF Varint, More, Word, Byte
    <3>2. a.ok = "ok" /\ a.pos = r.pos + 1 /\ a.out[1] = n /\ x = n
      BY <1>4, <1>8, <1>11, <3>1
    <3>3. q = Number(a, n)
      BY <1>9, <2>1, <3>2
    <3>4. QED
      BY <1>4, <3>1, <3>2, <3>3, NumberIs
  <2>2. CASE ~(n < More)
    <3>1. Varint(n) = <<(n % More) + More, n \div More>>
      BY <2>2 DEF Varint, More, Word
    <3>2. /\ (n % More) + More \in Byte /\ n \div More \in Byte
          /\ ~((n % More) + More < More)
          /\ ((((n % More) + More) % More) + ((n \div More) % More) * More) % Word = n
      BY <2>2 DEF More, Word, Byte
    <3>3. Len(Varint(n)) = 2 /\ Varint(n)[1] = (n % More) + More /\ Varint(n)[2] = n \div More
      BY <3>1
    <3>4. r.pos + 2 <= m_size /\ Data[r.pos + 1] = (n % More) + More /\ Data[r.pos + 2] = n \div More
      BY <1>11, <3>3
    <3>5. a.ok = "ok" /\ a.pos = r.pos + 1 /\ x = (n % More) + More
      BY <1>4, <1>8, <3>2, <3>4
    <3>6. a.pos + 1 = r.pos + 2
      BY <1>4, <3>5
    <3>7. b.ok = "ok" /\ b.pos = r.pos + 2 /\ y = n \div More /\ IsReader(b)
      BY <1>5, <1>8, <3>2, <3>4, <3>5, <3>6
    <3>8. q = Number(b, n)
      BY <1>9, <3>2, <3>5, <3>7
    <3>9. n \in Nat
      OBVIOUS
    <3>10. QED
      BY <3>3, <3>7, <3>8, <3>9, NumberIs
  <2>3. QED
    BY <2>1, <2>2
<1>12. QED
  BY <1>6, <1>10, <1>11

\* readFuint16, in the byte order of the array.
LEMMA ReadFuint16Is ==
  ASSUME ArrayInv, NEW r, IsReader(r), r.ok = "ok"
  PROVE  LET q == readFuint16(r)
         IN  /\ IsReader(q) /\ q.pos >= r.pos
             /\ \A n \in 0 .. Word * Word - 1 :
                  /\ r.pos + 2 <= m_size
                  /\ \A i \in 1 .. 2 : Data[r.pos + i] = Fixed(n, m_endian)[i]
                  => q.ok = "ok" /\ q.v = n /\ q.pos = r.pos + 2
<1>0. PICK two \in Nat : two = 2
  OBVIOUS
<1>1. PICK a : a = Part(r, two)
  OBVIOUS
<1>2. PICK x, y : x = Num(a.out[1]) /\ y = Num(a.out[2])
  OBVIOUS
<1>3. PICK q : q = readFuint16(r)
  OBVIOUS
<1>4. q = IF a.ok # "ok" THEN a ELSE Number(a, IF m_endian = "little" THEN x + y * Word ELSE x * Word + y)
  BY <1>0, <1>1, <1>2, <1>3 DEF readFuint16, Then
<1>5. r.pos \in Nat /\ m_size \in Nat
  BY DEF IsReader, ArrayInv
<1>6. CASE ~(r.pos + two <= m_size)
  <2>1. two # 0
    BY <1>0
  <2>2. IsReader(a) /\ a.ok = "out_of_range" /\ a.pos = r.pos
    BY <1>1, <1>5, <1>6, <2>1, PartIs
  <2>3. QED
    BY <1>0, <1>3, <1>4, <1>5, <1>6, <2>2
<1>7. CASE r.pos + two <= m_size
  <2>1. two # 0
    BY <1>0
  <2>2. /\ IsReader(a) /\ a.ok = "ok" /\ a.pos = r.pos + two
        /\ a.out \in Seq(Cells) /\ Len(a.out) = two /\ \A i \in 1 .. two : a.out[i] = Data[r.pos + i]
    BY <1>1, <1>7, <2>1, PartThere
  <2>3. a.out[1] \in Cells /\ a.out[2] \in Cells /\ a.out[1] = Data[r.pos + 1] /\ a.out[2] = Data[r.pos + 2]
    BY <1>0, <2>2, ElementOfSeq
  <2>4. x \in Byte /\ y \in Byte /\ (a.out[1] \in Byte => x = a.out[1]) /\ (a.out[2] \in Byte => y = a.out[2])
    BY <1>2, <2>3, NumIs
  <2>5. PICK n : n = IF m_endian = "little" THEN x + y * Word ELSE x * Word + y
    OBVIOUS
  <2>6. n \in Nat /\ q = Number(a, n)
    BY <1>4, <2>2, <2>4, <2>5 DEF Byte, Word
  <2>7. IsReader(q) /\ q.v = n /\ q.pos = r.pos + 2 /\ q.ok = "ok"
    BY <1>0, <2>2, <2>6, NumberIs
  <2>8. ASSUME NEW m \in 0 .. Word * Word - 1, \A i \in 1 .. 2 : Data[r.pos + i] = Fixed(m, m_endian)[i]
        PROVE  n = m
    <3>1. a.out[1] = Fixed(m, m_endian)[1] /\ a.out[2] = Fixed(m, m_endian)[2]
      BY <2>3, <2>8
    <3>2. m % Word \in Byte /\ m \div Word \in Byte /\ (m % Word) + (m \div Word) * Word = m
          /\ (m \div Word) * Word + (m % Word) = m
      BY DEF Byte, Word
    <3>3. CASE m_endian = "little"
      <4>1. a.out[1] = m % Word /\ a.out[2] = m \div Word
        BY <3>1, <3>3 DEF Fixed
      <4>2. QED
        BY <2>4, <2>5, <3>2, <3>3, <4>1
    <3>4. CASE m_endian # "little"
      <4>1. a.out[1] = m \div Word /\ a.out[2] = m % Word
        BY <3>1, <3>4 DEF Fixed
      <4>2. QED
        BY <2>4, <2>5, <3>2, <3>4, <4>1
    <3>5. QED
      BY <3>3, <3>4
  <2>9. QED
    BY <1>3, <1>5, <2>7, <2>8
<1>8. QED
  BY <1>6, <1>7

\* A number becomes the value.
LEMMA ValueIs ==
  ASSUME NEW r, IsReader(r), NEW x
  PROVE  LET q == [r EXCEPT !.out = <<x>>]
         IN  IsReader(q) /\ q.pos = r.pos /\ q.ok = r.ok /\ q.out = <<x>>
BY DEF IsReader

\* The bytes of a string, whose length has been read.
LEMMA ReadBuffIs ==
  ASSUME ArrayInv, NEW r, IsReader(r)
  PROVE  LET q == readBuff(r)
         IN  /\ IsReader(q) /\ q.pos >= r.pos
             /\ r.ok = "ok" /\ r.pos + r.v <= m_size =>
                  \/ /\ q.ok = "ok" /\ q.pos = r.pos + r.v /\ q.out \in Seq(Cells) /\ Len(q.out) = r.v
                     /\ \A i \in 1 .. r.v : q.out[i] = Data[r.pos + i]
                  \/ q.ok = "fault" /\ r.v = 0 /\ q.pos = m_capacity /\ q.pos = r.pos
<1>1. PICK q : q = readBuff(r)
  OBVIOUS
<1>2. r.pos \in Nat /\ r.v \in Nat /\ m_size \in Nat
  BY DEF IsReader, ArrayInv
<1>3. CASE r.ok # "ok"
  BY <1>1, <1>2, <1>3 DEF readBuff, Then
<1>4. CASE r.ok = "ok"
  <2>1. PICK n \in Nat : n = r.v
    BY <1>2
  <2>2. q = Part(r, n)
    BY <1>1, <1>4, <2>1 DEF readBuff, Then
  <2>3. /\ IsReader(q)
        /\ \/ n > m_size - r.pos /\ q.ok = "out_of_range" /\ q.pos = r.pos
           \/ n = 0 /\ r.pos = m_capacity /\ q.ok = "fault" /\ q.pos = r.pos
           \/ /\ r.pos + n <= m_size /\ q.ok = "ok" /\ q.pos = r.pos + n
              /\ q.out = SubSeq(Data, r.pos + 1, r.pos + n)
    BY <1>4, <2>2, PartIs
  <2>4. r.pos + n <= m_size =>
          /\ SubSeq(Data, r.pos + 1, r.pos + n) \in Seq(Cells) /\ Len(SubSeq(Data, r.pos + 1, r.pos + n)) = n
          /\ \A i \in 1 .. n : SubSeq(Data, r.pos + 1, r.pos + n)[i] = Data[r.pos + i]
    BY <1>2, PartOfData
  <2>5. CASE n > m_size - r.pos /\ q.ok = "out_of_range" /\ q.pos = r.pos
    BY <1>1, <1>2, <2>1, <2>3, <2>5
  <2>6. CASE n = 0 /\ r.pos = m_capacity /\ q.ok = "fault" /\ q.pos = r.pos
    BY <1>1, <1>2, <2>1, <2>3, <2>6
  <2>7. CASE /\ r.pos + n <= m_size /\ q.ok = "ok" /\ q.pos = r.pos + n
             /\ q.out = SubSeq(Data, r.pos + 1, r.pos + n)
    <3>1. q.out \in Seq(Cells) /\ Len(q.out) = n /\ \A i \in 1 .. n : q.out[i] = Data[r.pos + i]
      BY <2>4, <2>7
    <3>2. q.pos >= r.pos
      BY <1>2, <2>7
    <3>3. QED
      BY <1>1, <2>1, <2>3, <2>7, <3>1, <3>2
  <2>8. QED
    BY <2>3, <2>5, <2>6, <2>7
<1>5. QED
  BY <1>3, <1>4

\* The encoding of a number or a length.
LEMMA VarintIs ==
  \A n \in 0 .. Word - 1 : Varint(n) \in Seq(Byte) /\ Len(Varint(n)) \in 1 .. Rounds
<1> SUFFICES ASSUME NEW n \in 0 .. Word - 1
             PROVE  Varint(n) \in Seq(Byte) /\ Len(Varint(n)) \in 1 .. Rounds
  OBVIOUS
<1>1. n \in Byte /\ (n >= More => (n % More) + More \in Byte /\ n \div More \in Byte)
  BY DEF Byte, Word, More
<1>2. CASE n >= More
  <2>1. Varint(n) = <<(n % More) + More, n \div More>>
    BY <1>2 DEF Varint
  <2>2. QED
    BY <1>1, <1>2, <2>1 DEF Rounds
<1>3. CASE ~(n >= More)
  <2>1. Varint(n) = <<n>>
    BY <1>3 DEF Varint
  <2>2. QED
    BY <1>1, <2>1 DEF Rounds
<1>4. QED
  BY <1>2, <1>3

\* A value of two bytes is written as two bytes.
LEMMA FixedIs ==
  \A n \in 0 .. Word * Word - 1 : \A e : Fixed(n, e) \in Seq(Byte) /\ Len(Fixed(n, e)) = 2
<1> SUFFICES ASSUME NEW n \in 0 .. Word * Word - 1, NEW e
             PROVE  Fixed(n, e) \in Seq(Byte) /\ Len(Fixed(n, e)) = 2
  OBVIOUS
<1>1. n % Word \in Byte /\ n \div Word \in Byte
  BY DEF Byte, Word
<1>2. QED
  BY <1>1 DEF Fixed

\* zigzag gives a word, and is undone.
LEMMA ZigzagIs ==
  \A x \in -(Word \div 2) .. (Word \div 2) - 1 :
    EncodeZigzag(x) \in 0 .. Word - 1 /\ DecodeZigzag(EncodeZigzag(x)) = x
BY DEF EncodeZigzag, DecodeZigzag, Word

\* The ranges of the words are numbers.
LEMMA WordsAre == Word \in Nat /\ Word * Word \in Nat
BY DEF Word

\* The length of a string that is short enough.
LEMMA LenIn ==
  ASSUME NEW s \in Seq(Byte), NEW n \in Nat, Len(s) < n
  PROVE  Len(s) \in 0 .. n - 1
<1>1. Len(s) \in Nat
  BY LenProperties
<1>2. QED
  BY <1>1

\* What is written for a value is a sequence of bytes.
LEMMA EncodeIs ==
  ASSUME NEW i, Fits(i), NEW e
  PROVE  Encode(i, e) \in Seq(Byte)
<1>1. CASE i.type = "Fuint8" /\ \E x \in Byte : i.v = <<x>>
  BY <1>1 DEF Encode
<1>2. CASE i.type = "Fuint16" /\ \E x \in 0 .. Word * Word - 1 : i.v = <<x>>
  <2>1. PICK x \in 0 .. Word * Word - 1 : i.v = <<x>>
    BY <1>2
  <2>2. Encode(i, e) = Fixed(x, e)
    BY <1>2, <2>1 DEF Encode
  <2>3. QED
    BY <2>2, FixedIs
<1>3. CASE i.type = "Uint32" /\ \E x \in 0 .. Word - 1 : i.v = <<x>>
  <2>1. PICK x \in 0 .. Word - 1 : i.v = <<x>>
    BY <1>3
  <2>2. Encode(i, e) = Varint(x)
    BY <1>3, <2>1 DEF Encode
  <2>3. QED
    BY <2>2, VarintIs
<1>4. CASE i.type = "Int32" /\ \E x \in -(Word \div 2) .. (Word \div 2) - 1 : i.v = <<x>>
  <2>1. PICK x \in -(Word \div 2) .. (Word \div 2) - 1 : i.v = <<x>>
    BY <1>4
  <2>2. Encode(i, e) = Varint(EncodeZigzag(x))
    BY <1>4, <2>1 DEF Encode
  <2>3. QED
    BY <2>2, VarintIs, ZigzagIs
<1>5. CASE i.type = "StringF16" /\ i.v \in Seq(Byte) /\ Len(i.v) < Word * Word
  <2>0. Len(i.v) \in Nat
    BY <1>5, LenProperties
  <2>1. Len(i.v) \in 0 .. Word * Word - 1
    BY <1>5, WordsAre, LenIn
  <2>2. Encode(i, e) = Fixed(Len(i.v), e) \o i.v
    BY <1>5 DEF Encode
  <2>3. QED
    BY <1>5, <2>1, <2>2, FixedIs, ConcatProperties
<1>6. CASE i.type = "StringVint" /\ i.v \in Seq(Byte) /\ Len(i.v) < Word
  <2>0. Len(i.v) \in Nat
    BY <1>6, LenProperties
  <2>1. Len(i.v) \in 0 .. Word - 1
    BY <1>6, WordsAre, LenIn
  <2>2. Encode(i, e) = Varint(Len(i.v)) \o i.v
    BY <1>6 DEF Encode
  <2>3. QED
    BY <1>6, <2>1, <2>2, VarintIs, ConcatProperties
<1>7. QED
  BY <1>1, <1>2, <1>3, <1>4, <1>5, <1>6 DEF Fits

\* The reader at the position.
LEMMA ReaderIs ==
  ASSUME ArrayInv
  PROVE  IsReader(Reader) /\ Reader.ok = "ok" /\ Reader.pos = m_position
BY DEF ArrayInv, IsReader, Reader, NodeOf, Node

\* A read of a typed value, whatever bytes there are, stays in the array and keeps m_cur the node of
\* the position.
LEMMA DecodeIs ==
  ASSUME ArrayInv, NEW i, Fits(i)
  PROVE  LET d == Decode(i.type) IN IsReader(d) /\ d.pos >= m_position
<1>0. PICK r : r = Reader
  OBVIOUS
<1>1. IsReader(r) /\ r.ok = "ok" /\ r.pos = m_position
  BY <1>0, ReaderIs
<1>2. PICK u, f : u = readUint(r) /\ f = readFuint16(r)
  OBVIOUS
<1>3. IsReader(u) /\ u.pos >= m_position
  BY <1>1, <1>2, ReadUintIs
<1>4. IsReader(f) /\ f.pos >= m_position
  BY <1>1, <1>2, ReadFuint16Is
<1>5. m_position \in Nat /\ u.pos \in Nat /\ f.pos \in Nat
  BY <1>3, <1>4 DEF ArrayInv, IsReader
<1>6. CASE i.type = "Fuint8"
  <2>1. Decode(i.type) = Part(r, 1)
    BY <1>0, <1>6 DEF Decode
  <2>2. QED
    BY <1>1, <2>1, PartOne
<1>7. CASE i.type = "Fuint16"
  <2>1. Decode(i.type) = IF f.ok = "ok" THEN [f EXCEPT !.out = <<f.v>>] ELSE f
    BY <1>0, <1>2, <1>7 DEF Decode, Value, Then
  <2>2. QED
    BY ZenonT(40), <1>4, <2>1, ValueIs
<1>8. CASE i.type = "Uint32"
  <2>1. Decode(i.type) = IF u.ok = "ok" THEN [u EXCEPT !.out = <<u.v>>] ELSE u
    BY <1>0, <1>2, <1>8 DEF Decode, Value, Then
  <2>2. QED
    BY ZenonT(40), <1>3, <2>1, ValueIs
<1>9. CASE i.type = "Int32"
  <2>1. Decode(i.type) = IF u.ok = "ok" THEN [u EXCEPT !.out = <<DecodeZigzag(u.v)>>] ELSE u
    BY <1>0, <1>2, <1>9 DEF Decode, Then
  <2>2. QED
    BY ZenonT(40), <1>3, <2>1, ValueIs
<1>10. CASE i.type = "StringF16"
  <2>1. PICK d : d = readBuff(f)
    OBVIOUS
  <2>2. Decode(i.type) = d
    BY <1>0, <1>2, <1>10, <2>1 DEF Decode
  <2>3. IsReader(d) /\ d.pos >= f.pos
    BY <1>4, <2>1, ReadBuffIs
  <2>4. d.pos \in Nat
    BY <2>3 DEF IsReader
  <2>5. QED
    BY <1>4, <1>5, <2>2, <2>3, <2>4
<1>11. CASE i.type = "StringVint"
  <2>1. PICK d : d = readBuff(u)
    OBVIOUS
  <2>2. Decode(i.type) = d
    BY <1>0, <1>2, <1>11, <2>1 DEF Decode
  <2>3. IsReader(d) /\ d.pos >= u.pos
    BY <1>3, <2>1, ReadBuffIs
  <2>4. d.pos \in Nat
    BY <2>3 DEF IsReader
  <2>5. QED
    BY <1>3, <1>5, <2>2, <2>3, <2>4
<1>12. QED
  BY <1>6, <1>7, <1>8, <1>9, <1>10, <1>11 DEF Fits

\* Two sequences lie one behind the other.
LEMMA LieBoth ==
  ASSUME ArrayInv, NEW s \in Seq(Byte), NEW t \in Seq(Byte), NEW p \in Nat, Lies(s \o t, p)
  PROVE  Lies(s, p) /\ Lies(t, p + Len(s)) /\ Len(s \o t) = Len(s) + Len(t)
<1>1. Len(s) \in Nat /\ Len(t) \in Nat /\ m_size \in Nat
  BY LenProperties DEF ArrayInv
<1>2. /\ Len(s \o t) = Len(s) + Len(t)
      /\ \A i \in 1 .. Len(s) + Len(t) : (s \o t)[i] = IF i <= Len(s) THEN s[i] ELSE t[i - Len(s)]
  BY ConcatProperties
<1>3. Lies(s, p)
  BY <1>1, <1>2 DEF Lies
<1>4. ASSUME NEW j \in 1 .. Len(t) PROVE Data[(p + Len(s)) + j] = t[j]
  <2>1. Len(s) + j \in 1 .. Len(s) + Len(t) /\ ~(Len(s) + j <= Len(s)) /\ (Len(s) + j) - Len(s) = j
        /\ p + (Len(s) + j) = (p + Len(s)) + j
    BY <1>1
  <2>2. (s \o t)[Len(s) + j] = t[j]
    BY <1>2, <2>1
  <2>3. Data[p + (Len(s) + j)] = (s \o t)[Len(s) + j]
    BY <1>2, <2>1 DEF Lies
  <2>4. QED
    BY <2>1, <2>2, <2>3
<1>5. (p + Len(s)) + Len(t) <= m_size
  BY <1>1, <1>2 DEF Lies
<1>6. QED
  BY <1>2, <1>3, <1>4, <1>5 DEF Lies

\* A string whose length has been read, and whose bytes lie there.
LEMMA StringThere ==
  ASSUME ArrayInv, NEW r, IsReader(r), r.ok = "ok", NEW s \in Seq(Byte), r.v = Len(s), Lies(s, r.pos)
  PROVE  LET q == readBuff(r)
         IN  \/ q.ok = "ok" /\ q.out = s /\ q.pos = r.pos + Len(s)
             \/ q.ok = "fault" /\ s = <<>> /\ q.pos = m_capacity
<1>1. PICK q : q = readBuff(r)
  OBVIOUS
<1>2. \/ /\ q.ok = "ok" /\ q.pos = r.pos + r.v /\ q.out \in Seq(Cells) /\ Len(q.out) = r.v
         /\ \A i \in 1 .. r.v : q.out[i] = Data[r.pos + i]
      \/ q.ok = "fault" /\ r.v = 0 /\ q.pos = m_capacity /\ q.pos = r.pos
  BY <1>1, ReadBuffIs DEF Lies
<1>3. s \in Seq(Cells)
  <2>1. Byte \subseteq Cells
    BY DEF Cells
  <2>2. Len(s) \in Nat /\ s = [i \in 1 .. Len(s) |-> s[i]] /\ \A i \in 1 .. Len(s) : s[i] \in Cells
    BY <2>1, LenProperties, ElementOfSeq
  <2>3. QED
    BY <2>2, SeqOf
<1>4. CASE /\ q.ok = "ok" /\ q.pos = r.pos + r.v /\ q.out \in Seq(Cells) /\ Len(q.out) = r.v
           /\ \A i \in 1 .. r.v : q.out[i] = Data[r.pos + i]
  <2>1. q.out = s
    BY <1>3, <1>4, SeqEqual DEF Lies
  <2>2. QED
    BY <1>1, <1>4, <2>1
<1>5. CASE q.ok = "fault" /\ r.v = 0 /\ q.pos = m_capacity /\ q.pos = r.pos
  <2>1. s = <<>>
    BY <1>5, EmptySeq
  <2>2. QED
    BY <1>1, <1>5, <2>1
<1>6. QED
  BY <1>2, <1>4, <1>5

\* A value whose bytes lie at the position is read back.
LEMMA DecodeRight ==
  ASSUME ArrayInv, NEW i, Fits(i), Lies(Encode(i, m_endian), m_position)
  PROVE  LET d == Decode(i.type)
         IN  \/ d.ok = "ok" /\ d.out = i.v /\ d.pos = m_position + Len(Encode(i, m_endian))
             \/ d.ok = "fault" /\ i.v = <<>> /\ d.pos = m_capacity
<1> DEFINE s == Encode(i, m_endian)
<1>0. PICK r : r = Reader
  OBVIOUS
<1>1. IsReader(r) /\ r.ok = "ok" /\ r.pos = m_position /\ m_position \in Nat /\ m_size \in Nat
  BY <1>0, ReaderIs DEF ArrayInv
<1>2. PICK u, f : u = readUint(r) /\ f = readFuint16(r)
  OBVIOUS
<1>3. /\ IsReader(u)
      /\ \A n \in 0 .. Word - 1 : Lies(Varint(n), m_position) =>
           u.ok = "ok" /\ u.v = n /\ u.pos = m_position + Len(Varint(n))
  BY <1>1, <1>2, ReadUintIs DEF Lies
<1>4. /\ IsReader(f)
      /\ \A n \in 0 .. Word * Word - 1 : Lies(Fixed(n, m_endian), m_position) =>
           f.ok = "ok" /\ f.v = n /\ f.pos = m_position + 2
  BY <1>1, <1>2, ReadFuint16Is, FixedIs DEF Lies
<1>5. CASE i.type = "Fuint8" /\ \E x \in Byte : i.v = <<x>>
  <2>1. PICK x \in Byte : i.v = <<x>>
    BY <1>5
  <2>2. PICK d : d = Part(r, 1)
    OBVIOUS
  <2>3. Decode(i.type) = d
    BY <1>0, <1>5, <2>2 DEF Decode
  <2>4. s = <<x>> /\ Len(s) = 1 /\ s[1] = x
    BY <1>5, <2>1 DEF Encode
  <2>5. m_position + 1 <= m_size /\ Data[m_position + 1] = x
    BY <2>4 DEF Lies
  <2>6. PICK n \in Nat : n = 1
    OBVIOUS
  <2>7. d = Part(r, n) /\ r.pos + n <= m_size /\ n # 0
    BY <1>1, <2>2, <2>5, <2>6
  <2>8. /\ d.ok = "ok" /\ d.pos = r.pos + n
        /\ d.out \in Seq(Cells) /\ Len(d.out) = n /\ \A j \in 1 .. n : d.out[j] = Data[r.pos + j]
    BY <1>1, <2>7, PartThere
  <2>9. d.out = <<x>>
    <3>1. d.out[1] = x /\ Len(d.out) = 1
      BY <1>1, <2>5, <2>6, <2>8
    <3>2. x \in Cells /\ <<x>> \in Seq(Cells) /\ Len(<<x>>) = 1 /\ <<x>>[1] = x
      BY DEF Cells
    <3>3. \A j \in 1 .. 1 : d.out[j] = <<x>>[j]
      BY <3>1, <3>2
    <3>4. QED
      BY <2>8, <3>1, <3>2, <3>3, SeqEqual
  <2>10. QED
    BY <1>1, <2>1, <2>3, <2>4, <2>6, <2>8, <2>9
<1>6. CASE i.type = "Fuint16" /\ \E x \in 0 .. Word * Word - 1 : i.v = <<x>>
  <2>1. PICK x \in 0 .. Word * Word - 1 : i.v = <<x>>
    BY <1>6
  <2>2. s = Fixed(x, m_endian)
    BY <1>6, <2>1 DEF Encode
  <2>3. f.ok = "ok" /\ f.v = x /\ f.pos = m_position + 2 /\ Len(s) = 2
    BY <1>4, <2>2, FixedIs
  <2>4. PICK d : d = [f EXCEPT !.out = <<f.v>>]
    OBVIOUS
  <2>5. Decode(i.type) = d
    BY <1>0, <1>2, <1>6, <2>3, <2>4 DEF Decode, Value, Then
  <2>6. d.pos = f.pos /\ d.ok = f.ok /\ d.out = <<f.v>>
    BY <1>4, <2>4, ValueIs
  <2>7. QED
    BY <2>1, <2>3, <2>5, <2>6
<1>7. CASE i.type = "Uint32" /\ \E x \in 0 .. Word - 1 : i.v = <<x>>
  <2>1. PICK x \in 0 .. Word - 1 : i.v = <<x>>
    BY <1>7
  <2>2. s = Varint(x)
    BY <1>7, <2>1 DEF Encode
  <2>3. u.ok = "ok" /\ u.v = x /\ u.pos = m_position + Len(s)
    BY <1>3, <2>2
  <2>4. PICK d : d = [u EXCEPT !.out = <<u.v>>]
    OBVIOUS
  <2>5. Decode(i.type) = d
    BY <1>0, <1>2, <1>7, <2>3, <2>4 DEF Decode, Value, Then
  <2>6. d.pos = u.pos /\ d.ok = u.ok /\ d.out = <<u.v>>
    BY <1>3, <2>4, ValueIs
  <2>7. QED
    BY <2>1, <2>3, <2>5, <2>6
<1>8. CASE i.type = "Int32" /\ \E x \in -(Word \div 2) .. (Word \div 2) - 1 : i.v = <<x>>
  <2>1. PICK x \in -(Word \div 2) .. (Word \div 2) - 1 : i.v = <<x>>
    BY <1>8
  <2>2. s = Varint(EncodeZigzag(x))
    BY <1>8, <2>1 DEF Encode
  <2>3. EncodeZigzag(x) \in 0 .. Word - 1 /\ DecodeZigzag(EncodeZigzag(x)) = x
    BY ZigzagIs
  <2>4. u.ok = "ok" /\ u.v = EncodeZigzag(x) /\ u.pos = m_position + Len(s)
    BY <1>3, <2>2, <2>3
  <2>5. PICK d : d = [u EXCEPT !.out = <<DecodeZigzag(u.v)>>]
    OBVIOUS
  <2>6. Decode(i.type) = d
    BY <1>0, <1>2, <1>8, <2>4, <2>5 DEF Decode, Then
  <2>7. d.pos = u.pos /\ d.ok = u.ok /\ d.out = <<DecodeZigzag(u.v)>>
    BY <1>3, <2>5, ValueIs
  <2>8. QED
    BY <2>1, <2>3, <2>4, <2>6, <2>7
<1>9. CASE i.type = "StringF16" /\ i.v \in Seq(Byte) /\ Len(i.v) < Word * Word
  <2>0. Len(i.v) \in Nat
    BY <1>9, LenProperties
  <2>1. Len(i.v) \in 0 .. Word * Word - 1
    BY <1>9, WordsAre, LenIn
  <2>2. PICK t : t = Fixed(Len(i.v), m_endian)
    OBVIOUS
  <2>3. t \in Seq(Byte) /\ Len(t) = 2 /\ s = t \o i.v
    BY <1>9, <2>1, <2>2, FixedIs DEF Encode
  <2>4. Lies(t, m_position) /\ Lies(i.v, m_position + Len(t)) /\ Len(s) = Len(t) + Len(i.v)
    <3>1. s = t \o i.v /\ Lies(t \o i.v, m_position)
      BY <2>3
    <3>2. i.v \in Seq(Byte) /\ t \in Seq(Byte) /\ m_position \in Nat
      BY <1>1, <1>9, <2>3
    <3>3. QED
      BY <3>1, <3>2, LieBoth
  <2>5. f.ok = "ok" /\ f.v = Len(i.v) /\ f.pos = m_position + 2
    BY <1>4, <2>1, <2>2, <2>4
  <2>6. PICK d : d = readBuff(f)
    OBVIOUS
  <2>7. Decode(i.type) = d
    BY <1>0, <1>2, <1>9, <2>6 DEF Decode
  <2>8. \/ d.ok = "ok" /\ d.out = i.v /\ d.pos = f.pos + Len(i.v)
        \/ d.ok = "fault" /\ i.v = <<>> /\ d.pos = m_capacity
    BY <1>4, <1>9, <2>3, <2>4, <2>5, <2>6, StringThere
  <2>9. f.pos + Len(i.v) = m_position + Len(s)
    <3>1. f.pos = m_position + Len(t) /\ Len(t) \in Nat
      BY <2>3, <2>5
    <3>2. PICK a \in Nat, b \in Nat, c \in Nat : a = m_position /\ b = Len(t) /\ c = Len(i.v)
      BY <1>1, <2>0, <3>1
    <3>3. f.pos = a + b /\ Len(s) = b + c
      BY <2>4, <3>1, <3>2
    <3>4. (a + b) + c = a + (b + c)
      OBVIOUS
    <3>5. QED
      BY <3>2, <3>3, <3>4
  <2>10. QED
    BY <2>7, <2>8, <2>9
<1>10. CASE i.type = "StringVint" /\ i.v \in Seq(Byte) /\ Len(i.v) < Word
  <2>0. Len(i.v) \in Nat
    BY <1>10, LenProperties
  <2>1. Len(i.v) \in 0 .. Word - 1
    BY <1>10, WordsAre, LenIn
  <2>2. PICK t : t = Varint(Len(i.v))
    OBVIOUS
  <2>3. t \in Seq(Byte) /\ Len(t) \in Nat /\ s = t \o i.v
    BY <1>10, <2>1, <2>2, VarintIs, LenProperties DEF Encode
  <2>4. Lies(t, m_position) /\ Lies(i.v, m_position + Len(t)) /\ Len(s) = Len(t) + Len(i.v)
    BY <1>1, <1>10, <2>3, LieBoth
  <2>5. u.ok = "ok" /\ u.v = Len(i.v) /\ u.pos = m_position + Len(t)
    BY <1>3, <2>1, <2>2, <2>4
  <2>6. PICK d : d = readBuff(u)
    OBVIOUS
  <2>7. Decode(i.type) = d
    BY <1>0, <1>2, <1>10, <2>6 DEF Decode
  <2>8. \/ d.ok = "ok" /\ d.out = i.v /\ d.pos = u.pos + Len(i.v)
        \/ d.ok = "fault" /\ i.v = <<>> /\ d.pos = m_capacity
    BY <1>3, <1>10, <2>4, <2>5, <2>6, StringThere
  <2>9. u.pos + Len(i.v) = m_position + Len(s)
    <3>1. m_position \in Nat /\ Len(t) \in Nat /\ Len(i.v) \in Nat
      BY <1>1, <2>0, <2>3
    <3>2. PICK a \in Nat, b \in Nat, c \in Nat : a = m_position /\ b = Len(t) /\ c = Len(i.v)
      BY <3>1
    <3>3. u.pos = a + b /\ Len(s) = b + c
      BY <2>4, <2>5, <3>2
    <3>4. (a + b) + c = a + (b + c)
      OBVIOUS
    <3>5. QED
      BY <3>2, <3>3, <3>4
  <2>10. QED
    BY <2>7, <2>8, <2>9
<1>11. QED
  BY <1>5, <1>6, <1>7, <1>8, <1>9, <1>10 DEF Fits

-----------------------------------------------------------------------------
(* The invariant is kept.                                                  *)

\* A new array satisfies the invariant.
LEMMA InitInv ==
  ASSUME ByteInit
  PROVE  Inv
<1>0. m_baseSize \in Nat \ {0} /\ m_baseSize * 1 = m_baseSize
  BY BaseSizeAssumption
<1>1. NewNode \in Nodes
  BY DEF NewNode, Nodes, Cells
<1>2. nodes \in Seq(Nodes) /\ Len(nodes) = 1
  BY <1>1 DEF ByteInit
<1>3. 0 \div m_baseSize = 0
  <2>1. m_baseSize * 0 + 0 = 0
    BY <1>0
  <2>2. QED
    BY <1>0, <2>1, DivUnique
<1>4. cur = Node(m_position, Len(nodes))
  BY <1>2, <1>3 DEF ByteInit, Node, Following
<1>5. QED
  BY <1>0, <1>2, <1>4 DEF ByteInit, Inv, ArrayInv, ItemsInv

\* Bytes below the old size stay when the nodes that hold them do.
LEMMA CellsKept ==
  ASSUME ArrayInv, ArrayInv', m_size <= m_size', \A n \in 1 .. Len(nodes) : nodes'[n] = nodes[n]
  PROVE  \A i \in 1 .. m_size : Data'[i] = Data[i]
<1> SUFFICES ASSUME NEW i \in 1 .. m_size PROVE Data'[i] = Data[i]
  OBVIOUS
<1>0. m_size \in Nat /\ m_size' \in Nat /\ m_size <= m_baseSize * Len(nodes) /\ Len(nodes) \in Nat
  BY DEF ArrayInv
<1>1. i \in 1 .. m_size' /\ i - 1 \in Nat /\ i - 1 < m_baseSize * Len(nodes)
  BY <1>0, BaseSizeAssumption
<1>2. 1 + ((i - 1) \div m_baseSize) \in 1 .. Len(nodes)
  BY <1>0, <1>1, SpotIn
<1>3. ((i - 1) \div m_baseSize) + 1 = 1 + ((i - 1) \div m_baseSize)
  BY <1>1, DivMod, BaseSizeAssumption
<1>4. Data'[i] = nodes'[1 + ((i - 1) \div m_baseSize)][((i - 1) % m_baseSize) + 1]
  BY <1>1, <1>3 DEF Data
<1>5. Data[i] = nodes[1 + ((i - 1) \div m_baseSize)][((i - 1) % m_baseSize) + 1]
  BY <1>3 DEF Data
<1>6. QED
  BY <1>2, <1>4, <1>5

\* Then the value written last is still there.
LEMMA ItemsKept ==
  ASSUME Inv, ArrayInv', m_size <= m_size', \A i \in 1 .. m_size : Data'[i] = Data[i], items' = items
  PROVE  Inv'
<1> SUFFICES ASSUME NEW i \in items
             PROVE  /\ i.item \in Items /\ i.bytes = Encode(i.item, i.endian)
                    /\ i.at \in Nat /\ Lies(i.bytes, i.at)'
  BY DEF Inv, ItemsInv
<1>1. i.item \in Items /\ i.bytes = Encode(i.item, i.endian) /\ i.at \in Nat /\ Lies(i.bytes, i.at)
  BY DEF Inv, ItemsInv
<1>2. i.bytes \in Seq(Byte)
  BY <1>1, ValuesAssumption, EncodeIs
<1>3. Len(i.bytes) \in Nat /\ m_size \in Nat /\ m_size' \in Nat
  BY <1>2, LenProperties DEF Inv, ArrayInv
<1>4. i.at + Len(i.bytes) <= m_size'
  BY <1>1, <1>3 DEF Lies
<1>5. ASSUME NEW j \in 1 .. Len(i.bytes) PROVE Data'[i.at + j] = i.bytes[j]
  <2>1. i.at + j \in 1 .. m_size
    BY <1>1, <1>3 DEF Lies
  <2>2. QED
    BY <1>1, <2>1 DEF Lies
<1>6. QED
  BY <1>1, <1>4, <1>5 DEF Lies

\* A write keeps what lies apart from it, and the bytes it writes lie where it began.
LEMMA WriteKeeps ==
  ASSUME ArrayInv, NEW s \in Seq(Byte), writeBytes(s), m_endian' = m_endian
  PROVE  /\ m_position + Len(s) <= m_size' /\ \A j \in 1 .. Len(s) : Data'[m_position + j] = s[j]
         /\ \A t \in Seq(Byte), p \in Nat :
              Lies(t, p) /\ (p + Len(t) <= m_position \/ p >= m_position + Len(s))
              => p + Len(t) <= m_size' /\ \A j \in 1 .. Len(t) : Data'[p + j] = t[j]
<1>1. /\ ArrayInv' /\ m_position' = m_position + Len(s)
      /\ m_size' = IF m_position + Len(s) > m_size THEN m_position + Len(s) ELSE m_size
      /\ \A i \in 1 .. m_size' : Data'[i] = Over(s, i)
  BY WriteRight
<1>2. m_position \in Nat /\ m_size \in Nat /\ Len(s) \in Nat
  BY LenProperties DEF ArrayInv
<1>3. ASSUME NEW j \in 1 .. Len(s) PROVE Data'[m_position + j] = s[j]
  <2>1. m_position + j \in 1 .. m_size' /\ m_position + j \in m_position + 1 .. m_position + Len(s)
        /\ (m_position + j) - m_position = j
    BY <1>1, <1>2
  <2>2. QED
    BY <1>1, <2>1 DEF Over
<1>4. ASSUME NEW t \in Seq(Byte), NEW p \in Nat, Lies(t, p),
             p + Len(t) <= m_position \/ p >= m_position + Len(s)
      PROVE  p + Len(t) <= m_size' /\ \A j \in 1 .. Len(t) : Data'[p + j] = t[j]
  <2>1. Len(t) \in Nat /\ p + Len(t) <= m_size
    BY <1>4, LenProperties DEF Lies
  <2>2. p + Len(t) <= m_size'
    BY <1>1, <1>2, <2>1
  <2>3. ASSUME NEW j \in 1 .. Len(t) PROVE Data'[p + j] = t[j]
    <3>1. p + j \in 1 .. m_size' /\ p + j \notin m_position + 1 .. m_position + Len(s)
      <4>1. m_size' \in Nat
        BY <1>1 DEF ArrayInv
      <4>2. CASE p + Len(t) <= m_position
        BY <1>2, <2>1, <2>2, <4>1, <4>2
      <4>3. CASE p >= m_position + Len(s)
        BY <1>2, <2>1, <2>2, <4>1, <4>3
      <4>4. QED
        BY <1>4, <4>2, <4>3
    <3>2. QED
      BY <1>1, <1>4, <3>1 DEF Over, Lies
  <2>4. QED
    BY <2>2, <2>3
<1>5. QED
  BY <1>1, <1>2, <1>3, <1>4

\* write, and readFromFile.
LEMMA WriteInv ==
  ASSUME Inv, NEW s \in Seq(Byte), writeBytes(s), items' = Apart(s), m_endian' = m_endian
  PROVE  Inv'
<1>1. ArrayInv'
  BY WriteRight DEF Inv
<1>2. ASSUME NEW i \in items'
      PROVE  /\ i.item \in Items /\ i.bytes = Encode(i.item, i.endian)
             /\ i.at \in Nat /\ Lies(i.bytes, i.at)'
  <2>1. i \in items /\ (i.at + Len(i.bytes) <= m_position \/ i.at >= m_position + Len(s))
    BY DEF Apart
  <2>2. i.item \in Items /\ i.bytes = Encode(i.item, i.endian) /\ i.at \in Nat /\ Lies(i.bytes, i.at)
    BY <2>1 DEF Inv, ItemsInv
  <2>3. i.bytes \in Seq(Byte)
    BY <2>2, ValuesAssumption, EncodeIs
  <2>4. i.at + Len(i.bytes) <= m_size' /\ \A j \in 1 .. Len(i.bytes) : Data'[i.at + j] = i.bytes[j]
    BY <2>1, <2>2, <2>3, WriteKeeps DEF Inv
  <2>5. QED
    BY <2>2, <2>4 DEF Lies
<1>3. QED
  BY <1>1, <1>2 DEF Inv, ItemsInv

\* Writing a typed value puts its encoding where it will be looked for.
LEMMA WriteItemInv ==
  ASSUME Inv, NEW i \in Items, WriteItem(i)
  PROVE  Inv'
<1>1. PICK s : s = Encode(i, m_endian)
  OBVIOUS
<1>2. s \in Seq(Byte)
  BY <1>1, ValuesAssumption, EncodeIs
<1>3. /\ writeBytes(s) /\ m_endian' = m_endian
      /\ items' = {[at |-> m_position, item |-> i, bytes |-> s, endian |-> m_endian]}
  BY <1>1 DEF WriteItem
<1>4. ArrayInv'
  BY <1>2, <1>3, WriteRight DEF Inv
<1>5. m_position + Len(s) <= m_size' /\ \A j \in 1 .. Len(s) : Data'[m_position + j] = s[j]
  BY <1>2, <1>3, WriteKeeps DEF Inv
<1>6. ASSUME NEW k \in items'
      PROVE  /\ k.item \in Items /\ k.bytes = Encode(k.item, k.endian)
             /\ k.at \in Nat /\ Lies(k.bytes, k.at)'
  <2>1. k.at = m_position /\ k.item = i /\ k.bytes = s /\ k.endian = m_endian
    BY <1>3
  <2>2. k.at \in Nat
    BY <2>1 DEF Inv, ArrayInv
  <2>3. Lies(k.bytes, k.at)'
    BY <1>5, <2>1 DEF Lies
  <2>4. QED
    BY <1>1, <2>1, <2>2, <2>3
<1>7. QED
  BY <1>4, <1>6 DEF Inv, ItemsInv

\* Steps that leave the nodes alone and move the position in them.
LEMMA MoveInv ==
  ASSUME Inv, UNCHANGED <<nodes, m_capacity, items>>, m_endian' \in {"big", "little"},
         m_position' \in Nat, m_position' <= m_size', m_size' \in Nat, m_size <= m_size', m_size' <= m_capacity,
         cur' = NodeOf(m_position')
  PROVE  Inv'
<1>1. ArrayInv'
  BY DEF Inv, ArrayInv, NodeOf, Node, Following, Null
<1>2. \A i \in 1 .. m_size : Data'[i] = Data[i]
  BY <1>1, CellsKept DEF Inv
<1>3. QED
  BY <1>1, <1>2, ItemsKept

\* What a read does.
LEMMA ReadDoes ==
  ASSUME ArrayInv, NEW n \in Nat, Read(n)
  PROVE  \/ /\ n <= m_size - m_position /\ op' = [kind |-> "read", size |-> n, status |-> "ok",
                                                   result |-> SubSeq(Data, m_position + 1, m_position + n)]
            /\ m_position' = m_position + n /\ cur' = NodeOf(m_position + n)
         \/ /\ op'.kind = "read" /\ op'.size = n /\ op'.status = "out_of_range" /\ n > m_size - m_position
            /\ m_position' = m_position /\ cur' = cur
         \/ /\ op'.kind = "read" /\ op'.status = "fault" /\ m_position' = m_position /\ cur' = cur
<1>1. PICK w : w = Walk(cur, Offset, n)
  OBVIOUS
<1>2. PICK r : r = Outcome(n > getReadSize, w)
  OBVIOUS
<1>3. /\ op' = [kind |-> "read", size |-> n, status |-> r.status, result |-> r.result]
      /\ IF r.status # "ok" THEN m_position' = m_position /\ cur' = cur
         ELSE m_position' = m_position + n /\ cur' = w.cur
  BY <1>1, <1>2 DEF Read
<1>4. m_position \in Nat /\ m_size \in Nat /\ m_position <= m_size /\ getReadSize = m_size - m_position
      /\ cur = NodeOf(m_position)
  BY DEF ArrayInv, getReadSize, NodeOf, Node
<1>5. CASE n > m_size - m_position
  <2>1. r.status = "out_of_range"
    BY <1>2, <1>4, <1>5 DEF Outcome
  <2>2. QED
    BY <1>3, <1>5, <2>1
<1>6. CASE ~(n > m_size - m_position)
  <2>1. m_position + n <= m_size /\ n <= m_size - m_position
    BY <1>4, <1>6
  <2>2. \/ w.ok /\ w.cur = NodeOf(m_position + n) /\ Bytes(w) = SubSeq(Data, m_position + 1, m_position + n)
        \/ ~w.ok
    BY <1>1, <1>4, <2>1, ReadRight DEF Offset
  <2>3. CASE ~w.ok
    <3>1. r.status = "fault"
      BY <1>2, <1>4, <1>6, <2>3 DEF Outcome
    <3>2. QED
      BY <1>3, <3>1
  <2>4. CASE w.ok /\ w.cur = NodeOf(m_position + n) /\ Bytes(w) = SubSeq(Data, m_position + 1, m_position + n)
    <3>1. r.status = "ok" /\ r.result = Bytes(w)
      BY <1>2, <1>4, <1>6, <2>4 DEF Outcome
    <3>2. QED
      BY <1>3, <2>1, <2>4, <3>1
  <2>5. QED
    BY <2>2, <2>3, <2>4
<1>7. QED
  BY <1>5, <1>6

\* read() moves the position and m_cur together, or neither.
LEMMA ReadInv ==
  ASSUME Inv, NEW n \in Nat, Read(n)
  PROVE  Inv'
<1>1. UNCHANGED <<nodes, m_size, m_capacity, m_endian, items>>
  BY DEF Read
<1>2. /\ m_position \in Nat /\ m_size \in Nat /\ m_position <= m_size /\ m_size <= m_capacity
      /\ m_endian \in {"big", "little"} /\ cur = NodeOf(m_position)
  BY DEF Inv, ArrayInv, NodeOf, Node
<1>3. \/ n <= m_size - m_position /\ m_position' = m_position + n /\ cur' = NodeOf(m_position + n)
      \/ m_position' = m_position /\ cur' = cur
  BY ReadDoes DEF Inv
<1>4. m_position' \in Nat /\ m_position' <= m_size /\ cur' = NodeOf(m_position')
  BY <1>2, <1>3
<1>5. QED
  BY <1>1, <1>2, <1>4, MoveInv

\* Where a read of a typed value ends.
LEMMA ReadItemDoes ==
  ASSUME ArrayInv, NEW t \in Types, ReadItem(t)
  PROVE  /\ op'.kind = "readItem" /\ m_position' \in Nat /\ m_position <= m_position' /\ m_position' <= m_size
         /\ cur' = NodeOf(m_position')
<1>1. PICK i \in Items : t = i.type
  BY DEF Types
<1>2. PICK d : d = Decode(i.type)
  OBVIOUS
<1>3. IsReader(d) /\ d.pos >= m_position
  BY <1>2, ValuesAssumption, DecodeIs
<1>4. op' = [kind |-> "readItem", status |-> d.ok] /\ m_position' = d.pos /\ cur' = d.cur
  BY <1>1, <1>2 DEF ReadItem
<1>5. QED
  BY <1>3, <1>4 DEF IsReader, ArrayInv

\* A typed read leaves the reader at a part it has finished.
LEMMA ReadItemInv ==
  ASSUME Inv, NEW t \in Types, ReadItem(t)
  PROVE  Inv'
<1>1. UNCHANGED <<nodes, m_size, m_capacity, m_endian, items>>
  BY DEF ReadItem
<1>2. m_size \in Nat /\ m_size <= m_capacity /\ m_endian \in {"big", "little"}
  BY DEF Inv, ArrayInv
<1>3. m_position' \in Nat /\ m_position' <= m_size /\ cur' = NodeOf(m_position')
  BY ReadItemDoes DEF Inv
<1>4. QED
  BY <1>1, <1>2, <1>3, MoveInv

\* setPosition() finds the node of the new position.
LEMMA SetPositionInv ==
  ASSUME Inv, NEW v \in Nat, setPosition(v)
  PROVE  Inv'
<1>1. UNCHANGED <<nodes, m_capacity, m_endian, items>>
  BY DEF setPosition
<1>2. /\ m_position \in Nat /\ m_size \in Nat /\ m_position <= m_size /\ m_size <= m_capacity /\ m_capacity \in Nat
      /\ m_endian \in {"big", "little"} /\ cur = NodeOf(m_position)
  BY BaseSizeAssumption DEF Inv, ArrayInv, NodeOf, Node
<1>3. CASE v > m_capacity
  <2>1. m_position' = m_position /\ m_size' = m_size /\ cur' = cur
    BY <1>3 DEF setPosition
  <2>2. QED
    BY <1>1, <1>2, <2>1, MoveInv
<1>4. CASE ~(v > m_capacity)
  <2>1. m_position' = v /\ m_size' = (IF v > m_size THEN v ELSE m_size) /\ cur' = NodeOf(v)
    BY <1>4 DEF setPosition
  <2>2. m_size' \in Nat /\ m_size <= m_size' /\ m_size' <= m_capacity /\ m_position' <= m_size'
    BY <1>2, <1>4, <2>1
  <2>3. QED
    BY <1>1, <1>2, <2>1, <2>2, MoveInv
<1>5. QED
  BY <1>3, <1>4

\* getWriteBuffers only adds nodes.
LEMMA GetWriteBuffersInv ==
  ASSUME Inv, NEW n \in Nat, GetWriteBuffers(n)
  PROVE  Inv'
<1>0. /\ m_position \in Nat /\ m_size \in Nat /\ m_position <= m_size /\ m_size <= m_capacity /\ m_capacity \in Nat
      /\ m_endian \in {"big", "little"} /\ Len(nodes) \in Nat \ {0} /\ m_baseSize \in Nat \ {0}
  BY BaseSizeAssumption DEF Inv, ArrayInv
<1>1. /\ nodes' = Grown(n) /\ cur' = CurAfter(n) /\ m_capacity' = m_capacity + Count(n) * m_baseSize
      /\ UNCHANGED <<m_position, m_size, m_endian, items>>
  BY DEF GetWriteBuffers
<1>2. /\ Count(n) \in Nat /\ nodes' \in Seq(Nodes) /\ Len(nodes') = Len(nodes) + Count(n)
      /\ \A k \in 1 .. Len(nodes) : nodes'[k] = nodes[k]
      /\ m_capacity' = m_baseSize * Len(nodes')
      /\ cur' = Node(m_position, Len(nodes'))
  BY <1>1, GrowRight DEF Inv
<1>3. m_size <= m_capacity'
  <2>1. Count(n) * m_baseSize \in Nat
    BY <1>0, <1>2
  <2>2. QED
    BY <1>0, <1>1, <2>1
<1>4. cur' = Node(m_position', Len(nodes'))
  BY <1>1, <1>2
<1>5. Len(nodes') \in Nat \ {0}
  BY <1>0, <1>2
<1>6. ArrayInv'
  BY <1>0, <1>1, <1>2, <1>3, <1>4, <1>5 DEF ArrayInv, Node, Following, Null
<1>7. \A i \in 1 .. m_size : Data'[i] = Data[i]
  BY <1>0, <1>1, <1>2, <1>6, CellsKept DEF Inv
<1>8. QED
  BY <1>0, <1>1, <1>6, <1>7, ItemsKept

\* clear keeps the first node only.
LEMMA ClearInv ==
  ASSUME Inv, clear
  PROVE  Inv'
<1>0. m_baseSize \in Nat \ {0} /\ m_baseSize * 1 = m_baseSize /\ m_endian \in {"big", "little"}
  BY BaseSizeAssumption DEF Inv, ArrayInv
<1>1. nodes[1] \in Nodes
  BY ElementOfSeq DEF Inv, ArrayInv
<1>2. nodes' \in Seq(Nodes) /\ Len(nodes') = 1
  BY <1>1 DEF clear
<1>3. 0 \div m_baseSize = 0
  <2>1. m_baseSize * 0 + 0 = 0
    BY <1>0
  <2>2. QED
    BY <1>0, <2>1, DivUnique
<1>4. cur' = Node(m_position', Len(nodes'))
  BY <1>2, <1>3 DEF clear, Node, Following
<1>5. ArrayInv'
  BY <1>0, <1>2, <1>4 DEF clear, ArrayInv, Node, Following, Null
<1>6. QED
  BY <1>5 DEF clear, Inv, ItemsInv

\* Every step keeps the invariant.
LEMMA NextInv ==
  ASSUME Inv, [ByteNext]_byteVars
  PROVE  Inv'
<1>1. ASSUME NEW s \in Raw, Write(s) \/ readFromFile(s) PROVE Inv'
  <2>1. s \in Seq(Byte)
    BY ValuesAssumption
  <2>2. writeBytes(s) /\ items' = Apart(s) /\ m_endian' = m_endian
    BY <1>1 DEF Write, readFromFile
  <2>3. QED
    BY <2>1, <2>2, WriteInv
<1>2. ASSUME NEW n \in Nat, Read(n) PROVE Inv'
  BY <1>2, ReadInv
<1>3. ASSUME NEW n \in Nat, GetWriteBuffers(n) PROVE Inv'
  BY <1>3, GetWriteBuffersInv
<1>4. ASSUME NEW v \in Nat, setPosition(v) PROVE Inv'
  BY <1>4, SetPositionInv
<1>5. ASSUME NEW i \in Items, WriteItem(i) PROVE Inv'
  BY <1>5, WriteItemInv
<1>6. ASSUME NEW t \in Types, ReadItem(t) PROVE Inv'
  BY <1>6, ReadItemInv
<1>7. ASSUME NEW b \in BOOLEAN, setIsLittleEndian(b) PROVE Inv'
  <2>1. UNCHANGED <<nodes, cur, m_position, m_size, m_capacity, items>> /\ m_endian' \in {"big", "little"}
    BY <1>7 DEF setIsLittleEndian
  <2>2. /\ m_position \in Nat /\ m_size \in Nat /\ m_position <= m_size /\ m_size <= m_capacity
        /\ cur = NodeOf(m_position)
    BY DEF Inv, ArrayInv, NodeOf, Node
  <2>3. QED
    BY <2>1, <2>2, MoveInv
<1>8. ASSUME clear PROVE Inv'
  BY <1>8, ClearInv
<1>9. ASSUME UNCHANGED byteVars PROVE Inv'
  <2>1. UNCHANGED <<nodes, cur, m_position, m_size, m_capacity, items, m_endian>>
    BY <1>9 DEF byteVars
  <2>2. /\ m_position \in Nat /\ m_size \in Nat /\ m_position <= m_size /\ m_size <= m_capacity
        /\ cur = NodeOf(m_position) /\ m_endian \in {"big", "little"}
    BY DEF Inv, ArrayInv, NodeOf, Node
  <2>3. QED
    BY <2>1, <2>2, MoveInv
<1>10. \A n \in 0 .. MaxSize : n \in Nat
  OBVIOUS
<1>11. QED
  BY <1>1, <1>2, <1>3, <1>4, <1>5, <1>6, <1>7, <1>8, <1>9, <1>10 DEF ByteNext

-----------------------------------------------------------------------------
(* What the invariant says of the reads.                                   *)

\* A read of some bytes that are there gives them.
LEMMA SomeBytes ==
  ASSUME ArrayInv, NEW p \in Nat, NEW n \in Nat \ {0}, p + n <= m_size
  PROVE  Outcome(FALSE, Walk(NodeOf(p), p % m_baseSize, n))
           = [status |-> "ok", result |-> SubSeq(Data, p + 1, p + n)]
<1>1. PICK w : w = Walk(NodeOf(p), p % m_baseSize, n)
  OBVIOUS
<1>2. w.ok /\ Bytes(w) = SubSeq(Data, p + 1, p + n)
  BY <1>1, ReadRight
<1>3. Outcome(FALSE, w) = [status |-> "ok", result |-> SubSeq(Data, p + 1, p + n)]
  BY <1>2 DEF Outcome
<1>4. QED
  BY <1>1, <1>3

\* The invariant contains the type and the place of m_cur.
LEMMA TypeRight ==
  ASSUME ArrayInv
  PROVE  ByteTypeOK /\ CurIsTheNode
<1>0. /\ nodes \in Seq(Nodes) /\ Len(nodes) \in Nat /\ m_baseSize \in Nat \ {0} /\ m_position \in Nat
      /\ m_size \in Nat /\ m_position <= m_size /\ m_size <= m_capacity /\ m_capacity = m_baseSize * Len(nodes)
      /\ cur = Node(m_position, Len(nodes))
  BY BaseSizeAssumption DEF ArrayInv
<1>1. m_capacity = Len(nodes) * m_baseSize
  BY <1>0
<1>2. cur \in 0 .. Len(nodes)
  <2>1. m_position \div m_baseSize \in Nat
    BY <1>0, DivMod
  <2>2. QED
    BY <1>0, <2>1 DEF Node, Following, Null
<1>3. ASSUME NEW n \in 1 .. Len(nodes) PROVE Len(nodes[n]) = m_baseSize
  <2>1. nodes[n] \in [1 .. m_baseSize -> Cells]
    BY <1>0, ElementOfSeq DEF Nodes
  <2>2. QED
    BY <1>0, <2>1, SeqOf
<1>4. m_position \in 0 .. m_size
  BY <1>0
<1>5. cur = NodeOf(m_position)
  BY <1>0 DEF NodeOf, Node
<1>6. QED
  BY <1>0, <1>1, <1>2, <1>3, <1>4, <1>5 DEF ByteTypeOK, CurIsTheNode

\* toString() gives the bytes from the position to the end.
LEMMA ToStringRight ==
  ASSUME ArrayInv
  PROVE  toString = [status |-> "ok", result |-> SubSeq(Data, m_position + 1, m_size)]
<1>0. m_position \in Nat /\ m_size \in Nat /\ m_position <= m_size /\ cur = NodeOf(m_position)
  BY DEF ArrayInv, NodeOf, Node
<1>1. PICK n \in Nat : n = m_size - m_position /\ n = getReadSize /\ m_position + n = m_size
  BY <1>0 DEF getReadSize
<1>2. CASE n = 0
  <2>1. toString = Outcome(FALSE, NoWalk)
    BY <1>1, <1>2 DEF toString
  <2>2. Bytes(NoWalk) = <<>>
    BY DEF Bytes, NoWalk
  <2>3. SubSeq(Data, m_position + 1, m_size) = <<>>
    <3>1. SubSeq(Data, m_position + 1, m_position + n) \in Seq(Cells)
          /\ Len(SubSeq(Data, m_position + 1, m_position + n)) = 0
      BY <1>0, <1>1, <1>2, PartOfData
    <3>2. QED
      BY <1>1, <3>1, EmptySeq
  <2>4. QED
    BY <2>1, <2>2, <2>3 DEF Outcome, NoWalk
<1>3. CASE n # 0
  <2>1. toString = readAt(n, m_position)
    BY <1>1, <1>3 DEF toString
  <2>2. ~(n > m_size - m_position)
    BY <1>1
  <2>3. readAt(n, m_position) = Outcome(FALSE, Walk(NodeOf(m_position), m_position % m_baseSize, n))
    <3>1. PICK w : w = Walk(NodeOf(m_position), m_position % m_baseSize, n)
      OBVIOUS
    <3>2. readAt(n, m_position) = Outcome(n > m_size - m_position, w)
      BY <1>0, <3>1 DEF readAt
    <3>3. Outcome(n > m_size - m_position, w) = Outcome(FALSE, w)
      BY <2>2 DEF Outcome
    <3>4. QED
      BY <3>1, <3>2, <3>3
  <2>4. n \in Nat \ {0} /\ m_position + n <= m_size
    BY <1>0, <1>1, <1>3
  <2>5. QED
    BY <1>0, <1>1, <2>1, <2>3, <2>4, SomeBytes
<1>4. QED
  BY <1>2, <1>3

\* The reads that do not move the position follow from the invariant.
LEMMA PeeksFromInv ==
  ASSUME ArrayInv
  PROVE  PeeksRight
<1>0. m_position \in Nat /\ m_size \in Nat /\ m_position <= m_size /\ cur = NodeOf(m_position)
      /\ getReadSize = m_size - m_position
  BY DEF ArrayInv, NodeOf, Node, getReadSize
<1>1. ASSUME NEW n \in 0 .. getReadSize, ~Walk(cur, Offset, n).ok
      PROVE  n = 0 /\ m_position = m_capacity
  <2>1. n \in Nat /\ m_position + n <= m_size
    BY <1>0
  <2>2. QED
    BY <1>0, <1>1, <2>1, ReadRight DEF Offset
<1>2. ASSUME NEW q \in 0 .. m_size, NEW n \in 1 .. m_size - q
      PROVE  /\ NodeOf(q) = cur => readAt(n, q).result = SubSeq(Data, q + 1, q + n)
             /\ n <= getReadSize => getReadBuffers(n, q).result = SubSeq(Data, q + 1, q + n)
  <2>1. q \in Nat /\ n \in Nat \ {0} /\ q + n <= m_size /\ ~(n > m_size - q)
    BY <1>0
  <2>2. Outcome(FALSE, Walk(NodeOf(q), q % m_baseSize, n)).result = SubSeq(Data, q + 1, q + n)
    <3>1. PICK w, x : w = Walk(NodeOf(q), q % m_baseSize, n) /\ x = SubSeq(Data, q + 1, q + n)
      OBVIOUS
    <3>2. Outcome(FALSE, w) = [status |-> "ok", result |-> x]
      BY <2>1, <3>1, SomeBytes
    <3>3. PICK o : o = Outcome(FALSE, w)
      OBVIOUS
    <3>4. o = [status |-> "ok", result |-> x]
      BY <3>2, <3>3
    <3>5. o.result = x
      BY <3>4
    <3>6. QED
      BY <3>1, <3>3, <3>5
  <2>3. ASSUME NodeOf(q) = cur PROVE readAt(n, q) = Outcome(FALSE, Walk(NodeOf(q), q % m_baseSize, n))
    <3>1. PICK w : w = Walk(NodeOf(q), q % m_baseSize, n)
      OBVIOUS
    <3>2. readAt(n, q) = Outcome(n > m_size - q, w)
      BY <2>3, <3>1 DEF readAt
    <3>3. Outcome(n > m_size - q, w) = Outcome(FALSE, w)
      BY <2>1 DEF Outcome
    <3>4. QED
      BY <3>1, <3>2, <3>3
  <2>4. ASSUME n <= getReadSize
        PROVE  getReadBuffers(n, q) = Outcome(FALSE, Walk(NodeOf(q), q % m_baseSize, n))
    <3>1. ~(n > getReadSize) /\ n # 0
      BY <1>0, <2>1, <2>4
    <3>2. QED
      BY <3>1 DEF getReadBuffers
  <2>5. QED
    BY <2>2, <2>3, <2>4
<1>3. QED
  BY <1>1, <1>2, TypeRight, ToStringRight DEF PeeksRight

\* That the last value is read back follows from where its bytes lie.
LEMMA ReadsBackFromInv ==
  ASSUME Inv
  PROVE  ReadsBack
<1>1. ASSUME NEW i \in items, i.at = m_position, i.endian = m_endian
      PROVE  \E d \in {Decode(i.item.type)} :
               \/ d.ok = "ok" /\ d.out = i.item.v /\ d.pos = i.at + Len(i.bytes)
               \/ d.ok = "fault" /\ i.item.v = <<>> /\ d.pos = m_capacity
  <2>1. PICK k : k = i.item
    OBVIOUS
  <2>2. k \in Items /\ i.bytes = Encode(k, m_endian) /\ Lies(Encode(k, m_endian), m_position)
    BY <1>1, <2>1 DEF Inv, ItemsInv
  <2>3. Fits(k)
    BY <2>2, ValuesAssumption
  <2>4. PICK d : d = Decode(k.type)
    OBVIOUS
  <2>5. \/ d.ok = "ok" /\ d.out = k.v /\ d.pos = m_position + Len(Encode(k, m_endian))
        \/ d.ok = "fault" /\ k.v = <<>> /\ d.pos = m_capacity
    BY <2>2, <2>3, <2>4, DecodeRight DEF Inv
  <2>6. QED
    BY <1>1, <2>1, <2>2, <2>4, <2>5
<1>2. QED
  BY <1>1 DEF ReadsBack

-----------------------------------------------------------------------------
(* The theorems.                                                           *)

\* The inductive invariant of the array: the nodes are its capacity, m_cur is the node of the position,
\* and the bytes of the typed value written last lie where they were written.
THEOREM ArrayIsSound == ByteSpec => []Inv
<1>1. ByteInit => Inv
  BY InitInv
<1>2. Inv /\ [ByteNext]_byteVars => Inv'
  BY NextInv
<1>3. QED
  BY <1>1, <1>2, PTL DEF ByteSpec

\* Every read that leaves the position alone gives the bytes of the array at it, over any number of nodes
\* of any size (bytearray.cc:416, 593, 645), and a null node is only met by a read of nothing (387).
THEOREM PeeksAreRight == ByteSpec => []PeeksRight
<1>1. Inv => PeeksRight
  BY PeeksFromInv DEF Inv
<1>2. QED
  BY <1>1, ArrayIsSound, PTL

\* A typed value is read back as it was written, wherever in the nodes it lies and whatever was written,
\* read or sought elsewhere in between (bytearray.cc:111 to 356).
THEOREM ValuesReadBack == ByteSpec => []ReadsBack
<1>1. Inv => ReadsBack
  BY ReadsBackFromInv
<1>2. QED
  BY <1>1, ArrayIsSound, PTL

-----------------------------------------------------------------------------
(* The array implements the sequence of bytes.                             *)

\* Data as it is after a step.
LEMMA DataNext ==
  ASSUME ArrayInv'
  PROVE  /\ Data' \in Seq(Cells) /\ Len(Data') = m_size' /\ m_size' \in Nat
         /\ Data' = [i \in 1 .. m_size' |-> Data'[i]]
<1>1. ASSUME NEW i \in 1 .. m_size' PROVE Data'[i] \in Cells
  <2>1. i - 1 \in Nat /\ i - 1 < m_baseSize * Len(nodes')
    BY BaseSizeAssumption DEF ArrayInv
  <2>2. (i - 1) \div m_baseSize \in Nat
    BY <2>1, DivMod, BaseSizeAssumption
  <2>3. ((i - 1) \div m_baseSize) + 1 = 1 + ((i - 1) \div m_baseSize)
    BY <2>2
  <2>4. Data'[i] = Cell(nodes', i - 1)
    BY <2>3 DEF Data, Cell
  <2>5. QED
    BY <2>1, <2>4, CellIn DEF ArrayInv
<1>2. m_size' \in Nat /\ Data' = [i \in 1 .. m_size' |-> Data'[i]]
  BY DEF ArrayInv, Data
<1> HIDE DEF Data
<1>3. QED
  BY <1>1, <1>2, SeqOf

\* The bytes do not change when none is added and the nodes that hold them stay.
LEMMA DataKept ==
  ASSUME ArrayInv, ArrayInv', m_size' = m_size, \A n \in 1 .. Len(nodes) : nodes'[n] = nodes[n]
  PROVE  Data' = Data
<1>1. \A i \in 1 .. m_size : Data'[i] = Data[i]
  <2>1. m_size <= m_size'
    BY DEF ArrayInv
  <2>2. QED
    BY <2>1, CellsKept
<1>2. Data \in Seq(Cells) /\ Len(Data) = m_size /\ Data' \in Seq(Cells) /\ Len(Data') = m_size
  BY DataIs, DataNext
<1>3. QED
  BY <1>1, <1>2, SeqEqual

\* write, readFromFile and the writes of typed values.
LEMMA PutStep ==
  ASSUME Inv, Inv', NEW s \in Seq(Byte), writeBytes(s), m_endian' = m_endian,
         op'.kind \in {"write", "writeItem"}, op'.bytes = s
  PROVE  Abstract!Next
<1>1. /\ m_position' = m_position + Len(s)
      /\ m_size' = IF m_position + Len(s) > m_size THEN m_position + Len(s) ELSE m_size
      /\ \A i \in 1 .. m_size' : Data'[i] = Over(s, i)
  BY WriteRight DEF Inv
<1>2. m_position \in Nat /\ m_size \in Nat /\ Len(s) \in Nat /\ Len(Data) = m_size
  BY DataIs, LenProperties DEF Inv, ArrayInv
<1>3. Abstract!Larger(Len(Data), m_position') = m_size'
  BY <1>1, <1>2 DEF Abstract!Larger
<1>4. Data' = [i \in 1 .. m_size' |-> Data'[i]]
  BY DataNext DEF Inv
<1>5. Data' = [i \in 1 .. m_size' |-> IF i \in m_position + 1 .. m_position' THEN s[i - m_position] ELSE Data[i]]
  <2>1. \A i \in 1 .. m_size' : Data'[i] = IF i \in m_position + 1 .. m_position' THEN s[i - m_position] ELSE Data[i]
    BY <1>1 DEF Over
  <2> HIDE DEF Data
  <2>2. QED
    BY <1>4, <2>1
<1>6. Abstract!Put(op'.bytes)
  BY <1>1, <1>3, <1>5 DEF Abstract!Put
<1>7. QED
  BY <1>6 DEF Abstract!Next

\* read() is a Get of the sequence, or fails without a change.
LEMMA GetStep ==
  ASSUME Inv, Inv', NEW n \in Nat, Read(n)
  PROVE  Abstract!Next
<1>1. nodes' = nodes /\ m_size' = m_size
  BY DEF Read
<1>2. Data' = Data
  BY <1>1, DataKept DEF Inv
<1>3. Len(Data) = m_size
  BY DataIs DEF Inv
<1>4. CASE /\ n <= m_size - m_position /\ op' = [kind |-> "read", size |-> n, status |-> "ok",
                                                result |-> SubSeq(Data, m_position + 1, m_position + n)]
           /\ m_position' = m_position + n
  <2>1. op'.kind = "read" /\ op'.size = n /\ op'.status = "ok"
        /\ op'.result = SubSeq(Data, m_position + 1, m_position + n)
    <3>1. PICK x : x = SubSeq(Data, m_position + 1, m_position + n)
      OBVIOUS
    <3>2. op' = [kind |-> "read", size |-> n, status |-> "ok", result |-> x]
      BY <1>4, <3>1
    <3>3. op'.kind = "read" /\ op'.size = n /\ op'.status = "ok" /\ op'.result = x
      BY <3>2
    <3>4. QED
      BY <3>1, <3>3
  <2>2. Abstract!Get(op'.size)
    BY <1>2, <1>3, <1>4, <2>1 DEF Abstract!Get
  <2>3. QED
    BY <2>1, <2>2 DEF Abstract!Next
<1>5. CASE /\ op'.kind = "read" /\ op'.size = n /\ op'.status = "out_of_range" /\ n > m_size - m_position
           /\ m_position' = m_position
  <2>1. ~(n <= m_size - m_position)
    BY <1>5 DEF Inv, ArrayInv
  <2>2. Abstract!Get(op'.size)
    BY <1>2, <1>3, <1>5, <2>1 DEF Abstract!Get
  <2>3. QED
    BY <1>5, <2>2 DEF Abstract!Next
<1>6. CASE op'.kind = "read" /\ op'.status = "fault" /\ m_position' = m_position
  BY <1>2, <1>6 DEF Abstract!Next
<1>7. QED
  BY <1>4, <1>5, <1>6, ReadDoes DEF Inv

\* setPosition() is a Seek, or fails without a change.
LEMMA SeekStep ==
  ASSUME Inv, Inv', NEW v \in Nat, setPosition(v)
  PROVE  Abstract!Next
<1>0. /\ m_position \in Nat /\ m_size \in Nat /\ m_size <= m_capacity /\ m_capacity \in Nat
      /\ Data \in Seq(Cells) /\ Len(Data) = m_size
  BY DataIs, BaseSizeAssumption DEF Inv, ArrayInv
<1>1. nodes' = nodes /\ op'.kind = "setPosition" /\ op'.v = v
  BY DEF setPosition
<1>2. CASE v > m_capacity
  <2>1. op'.status = "out_of_range" /\ m_position' = m_position /\ m_size' = m_size
    BY <1>2 DEF setPosition
  <2>2. Data' = Data
    BY <1>1, <2>1, DataKept DEF Inv
  <2>3. Abstract!Seek(op'.v)
    BY <1>0, <1>1, <1>2, <2>1, <2>2 DEF Abstract!Seek
  <2>4. QED
    BY <1>1, <2>3 DEF Abstract!Next
<1>3. CASE ~(v > m_capacity)
  <2>1. m_position' = v /\ m_size' = (IF v > m_size THEN v ELSE m_size)
    BY <1>3 DEF setPosition
  <2>2. Data' \in Seq(Cells) /\ Len(Data') = m_size' /\ m_size' = Abstract!Larger(Len(Data), v)
    BY <1>0, <2>1, DataNext DEF Inv, Abstract!Larger
  <2>3. m_size <= m_size' /\ m_size' \in Nat
    BY <1>0, <2>1
  <2>4. \A i \in 1 .. m_size : Data'[i] = Data[i]
    BY <1>1, <2>3, CellsKept DEF Inv
  <2>5. SubSeq(Data', 1, m_size) = Data
    <3> HIDE DEF Data
    <3>1. \A i \in 1 .. m_size : Data'[i] \in Cells
      BY <1>0, <2>4, ElementOfSeq
    <3>2. PICK d : d = Data'
      OBVIOUS
    <3>3. /\ SubSeq(d, 1, m_size) \in Seq(Cells)
          /\ Len(SubSeq(d, 1, m_size)) = IF 1 <= m_size THEN m_size - 1 + 1 ELSE 0
          /\ \A i \in 1 .. m_size - 1 + 1 : SubSeq(d, 1, m_size)[i] = d[1 + i - 1]
      BY <1>0, <3>1, <3>2, SubSeqProperties
    <3>4. Len(SubSeq(d, 1, m_size)) = m_size /\ \A i \in 1 .. m_size : SubSeq(d, 1, m_size)[i] = Data[i]
      BY <1>0, <2>4, <3>2, <3>3
    <3>5. QED
      BY <1>0, <3>2, <3>3, <3>4, SeqEqual
  <2>6. Abstract!Seek(op'.v)
    BY <1>0, <1>1, <2>1, <2>2, <2>5 DEF Abstract!Seek
  <2>7. QED
    BY <1>1, <2>6 DEF Abstract!Next
<1>4. QED
  BY <1>2, <1>3

\* Every step of the array is one of the sequence, or leaves it alone.
LEMMA AbstractStep ==
  ASSUME Inv, Inv', [ByteNext]_byteVars
  PROVE  [Abstract!Next]_<<Data, m_position, op>>
<1>1. ASSUME NEW s \in Raw, Write(s) \/ readFromFile(s) PROVE Abstract!Next
  <2>1. s \in Seq(Byte) /\ writeBytes(s) /\ m_endian' = m_endian
    BY <1>1, ValuesAssumption DEF Write, readFromFile
  <2>2. op' = [kind |-> "write", bytes |-> s, status |-> "ok"]
    BY <1>1 DEF Write, readFromFile
  <2>3. QED
    BY <2>1, <2>2, PutStep
<1>2. ASSUME NEW i \in Items, WriteItem(i) PROVE Abstract!Next
  <2>1. PICK s : s = Encode(i, m_endian)
    OBVIOUS
  <2>2. s \in Seq(Byte)
    BY <2>1, ValuesAssumption, EncodeIs
  <2>3. writeBytes(s) /\ m_endian' = m_endian /\ op' = [kind |-> "writeItem", bytes |-> s, status |-> "ok"]
    BY <1>2, <2>1 DEF WriteItem
  <2>4. QED
    BY <2>2, <2>3, PutStep
<1>3. ASSUME NEW n \in Nat, Read(n) PROVE Abstract!Next
  BY <1>3, GetStep
<1>4. ASSUME NEW n \in Nat, GetWriteBuffers(n) PROVE Abstract!Next
  <2>1. /\ nodes' = Grown(n) /\ m_size' = m_size /\ m_position' = m_position
        /\ op' = [kind |-> "getWriteBuffers", size |-> n, status |-> "ok"]
    BY <1>4 DEF GetWriteBuffers
  <2>2. \A k \in 1 .. Len(nodes) : nodes'[k] = nodes[k]
    BY <2>1, GrowRight DEF Inv
  <2>3. Data' = Data
    BY <2>1, <2>2, DataKept DEF Inv
  <2>4. QED
    BY <2>1, <2>3 DEF Abstract!Next
<1>5. ASSUME NEW v \in Nat, setPosition(v) PROVE Abstract!Next
  BY <1>5, SeekStep
<1>6. ASSUME NEW t \in Types, ReadItem(t) PROVE Abstract!Next
  <2>1. nodes' = nodes /\ m_size' = m_size
    BY <1>6 DEF ReadItem
  <2>2. Data' = Data /\ Len(Data) = m_size
    BY <2>1, DataKept, DataIs DEF Inv
  <2>3. op'.kind = "readItem" /\ m_position' \in Nat /\ m_position <= m_position' /\ m_position' <= m_size
    BY <1>6, ReadItemDoes DEF Inv
  <2>4. m_position' \in m_position .. m_size
    BY <2>3 DEF Inv, ArrayInv
  <2>5. QED
    BY <2>2, <2>3, <2>4 DEF Abstract!Next, Abstract!GetParts
<1>7. ASSUME NEW b \in BOOLEAN, setIsLittleEndian(b) PROVE UNCHANGED <<Data, m_position, op>>
  BY <1>7 DEF setIsLittleEndian, Data
<1>8. ASSUME clear PROVE Abstract!Next
  <2>1. m_size' = 0 /\ m_position' = 0 /\ op' = [kind |-> "clear", status |-> "ok"]
    BY <1>8 DEF clear
  <2>2. Data' \in Seq(Cells) /\ Len(Data') = 0
    BY <2>1, DataNext DEF Inv
  <2>3. Data' = <<>>
    BY <2>2, EmptySeq
  <2>4. QED
    BY <2>1, <2>3 DEF Abstract!Next, Abstract!Clear
<1>9. ASSUME UNCHANGED byteVars PROVE UNCHANGED <<Data, m_position, op>>
  BY <1>9 DEF byteVars, Data
<1>10. \A n \in 0 .. MaxSize : n \in Nat
  OBVIOUS
<1>11. QED
  BY <1>1, <1>2, <1>3, <1>4, <1>5, <1>6, <1>7, <1>8, <1>9, <1>10 DEF ByteNext

\* The array does to its nodes what its interface promises of a sequence of bytes with a position:
\* every write, read, seek and clear (bytearray.cc:361, 387, 454).
THEOREM ArrayIsASequence == ByteSpec => ImplementsByteSeq
<1>1. ByteInit => Abstract!Init
  <2> SUFFICES ASSUME ByteInit PROVE Abstract!Init
    OBVIOUS
  <2>1. Data \in Seq(Cells) /\ Len(Data) = 0
    BY InitInv, DataIs DEF Inv, ByteInit
  <2>2. Data = <<>>
    BY <2>1, EmptySeq
  <2>3. QED
    BY <2>2 DEF ByteInit, Abstract!Init
<1>2. Inv /\ Inv' /\ [ByteNext]_byteVars => [Abstract!Next]_<<Data, m_position, op>>
  BY AbstractStep
<1>3. QED
  BY <1>1, <1>2, ArrayIsSound, PTL DEF ByteSpec, ImplementsByteSeq, Abstract!Spec

-----------------------------------------------------------------------------
(***************************************************************************)
(* The configuration.                                                      *)
(***************************************************************************)

-----------------------------------------------------------------------------
(* The invariant.                                                          *)

Listeners == {"LogIniter", "MysqlInit", "other"}

\* The values that "logs" and "db" can get.
Casts == {LexicalCast("logs", c) : c \in LogValues}
CanBe(v) == IF v = "logs" THEN Casts \cup {<<>>} ELSE DbValues \cup {DbDefault}

ConfigTypes ==
  /\ pc \in [Threads -> {"idle", "next", "read", "compare", "notify", "assign"}]
  /\ at \in [Threads -> Vars] /\ at[Coder] = "db" /\ pc[Coder] \notin {"next", "read"}
  /\ file \in [Files -> [mtime : Nat, content : LogValues \cup DbValues \cup {Nil}]]
  /\ \A f \in Files : file[f].content \in Values(f) \cup {Nil}
  /\ s_file2modifytime \in [Files -> Nat] /\ todo \subseteq Files
  /\ m_val = [v \in Vars |-> m_val[v]] /\ \A v \in Vars : m_val[v] \in CanBe(v)
  /\ m_cbs \in [Vars -> SUBSET Listeners]
  /\ m_cbs["logs"] = {"LogIniter"} /\ m_cbs["db"] \subseteq {"MysqlInit", "other"} /\ "MysqlInit" \in m_cbs["db"]
  /\ readers \in [Vars -> SUBSET Threads] /\ calls \in [Threads -> SUBSET Listeners]
  /\ newv = [t \in Threads |-> newv[t]]
  /\ \A t \in Threads : pc[t] \in {"compare", "notify", "assign"} => newv[t] # Nil /\ newv[t] \in CanBe(at[t])

\* Who calls listeners holds the lock for reading, and nobody else does.
Locked ==
  /\ \A v \in Vars : \A t \in Threads : t \in readers[v] <=> pc[t] = "notify" /\ at[t] = v
  /\ \A t \in Threads : calls[t] # {} => pc[t] = "notify"
  /\ \A t \in Threads : calls[t] \subseteq m_cbs[at[t]]

\* The value the loader is about to give to "logs".
Changing == at[Loader] = "logs" /\ pc[Loader] \in {"read", "compare", "notify", "assign"}

Text == LexicalCast("logs", file["logs"].content)
Recorded == s_file2modifytime["logs"] = file["logs"].mtime

\* The time of the file is recorded before the file is read: while the recorded time is that of the
\* file, what was read is what the file holds.
Fresh ==
  /\ s_file2modifytime["logs"] <= file["logs"].mtime
  /\ ~Changing => (Recorded /\ Text # Nil => Same("logs", m_val["logs"], Text))
  /\ Changing /\ pc[Loader] # "read" /\ Recorded => newv[Loader] = Text

\* The loggers are as the value says.
Match(value) ==
  /\ DOMAIN value \subseteq DOMAIN came
  /\ \A n \in DOMAIN came : IF n \in DOMAIN value
                            THEN loggers[n] = SetUp(came[n]) /\ came[n].level = value[n].level
                            ELSE loggers[n] = Off

\* LogIniter has been called for the value that comes.
Told == Changing /\ (pc[Loader] = "assign" \/ (pc[Loader] = "notify" /\ calls[Loader] = {}))

Shaped ==
  /\ loggers = [n \in Loggers |-> loggers[n]] /\ DOMAIN came \subseteq Loggers
  /\ ~fault => Match(IF Told THEN newv[Loader] ELSE m_val["logs"])
  /\ DOMAIN m_val["logs"] \subseteq DOMAIN came
  /\ fault => Changing /\ pc[Loader] = "notify" /\ calls[Loader] = {} /\ FaultIsALevel

\* The same for "db", while no code sets it.
DbChanging == at[Loader] = "db" /\ pc[Loader] \in {"read", "compare", "notify", "assign"}

DbText == LexicalCast("db", file["db"].content)
DbRecorded == s_file2modifytime["db"] = file["db"].mtime

DbFresh ==
  /\ s_file2modifytime["db"] <= file["db"].mtime
  /\ ByFileOnly /\ ~DbChanging => (DbRecorded /\ DbText # Nil => m_val["db"] = DbText)
  /\ ByFileOnly /\ DbChanging /\ pc[Loader] # "read" /\ DbRecorded => newv[Loader] = DbText

\* MysqlInit has been called for the value that comes: it has taken the one that goes.
DbTold == at[Loader] = "db" /\ (pc[Loader] = "assign" \/ (pc[Loader] = "notify" /\ "MysqlInit" \notin calls[Loader]))

Behind == ByFileOnly => pool = IF DbTold THEN m_val["db"] ELSE was

ConfigInv == ConfigTypes /\ Locked /\ Fresh /\ Shaped /\ DaemonIsQuiet /\ DbFresh /\ Behind

-----------------------------------------------------------------------------
(* ConfigTypes and locks.                                                        *)

\* A text that can be converted gives a value, and one that defines only loggers.
LEMMA CastType ==
  ASSUME NEW v \in Vars, NEW c \in Values(v) \cup {Nil}, LexicalCast(v, c) # Nil
  PROVE  LexicalCast(v, c) \in CanBe(v)
BY DEF LexicalCast, CanBe, Casts, Values, Vars

\* A value of the variable "logs" that was cast names known loggers only.
LEMMA ValueNames ==
  ASSUME NEW x \in CanBe("logs"), x # Nil
  PROVE  DOMAIN x \subseteq Loggers
<1>1. CASE x = <<>>
  BY <1>1
<1>2. CASE x \in Casts
  <2>1. PICK c \in LogValues : x = LexicalCast("logs", c)
    BY <1>2 DEF Casts
  <2>2. Unnamed \notin DOMAIN c /\ DOMAIN x = DOMAIN c
    BY <2>1 DEF LexicalCast
  <2>3. QED
    BY <2>2, ConfigAssumption
<1>3. QED
  BY <1>1, <1>2 DEF CanBe

\* The initial state.
LEMMA InitHolds == Init => ConfigInv
<1> SUFFICES ASSUME Init PROVE ConfigInv
  OBVIOUS
<1>1. /\ file \in [Files -> {[mtime |-> 1, content |-> Nil]}]
      /\ pc = [t \in Threads |-> "idle"] /\ at = [t \in Threads |-> "db"]
      /\ s_file2modifytime = [f \in Files |-> 0] /\ todo = {}
      /\ m_val = [v \in Vars |-> IF v = "logs" THEN <<>> ELSE DbDefault]
      /\ m_cbs = [v \in Vars |-> IF v = "logs" THEN {"LogIniter"} ELSE {"MysqlInit"}]
      /\ readers = [v \in Vars |-> {}] /\ calls = [t \in Threads |-> {}] /\ newv = [t \in Threads |-> Nil]
      /\ came = <<>> /\ fault = FALSE /\ pool = DbDefault /\ was = DbDefault
      /\ loggers = [n \in Loggers |-> IF n = "root" THEN [level |-> "INFO", appenders |-> {"stdout"}] ELSE NewLogger]
  BY DEF Init
<1>2. \A f \in Files : file[f].mtime = 1 /\ file[f].content = Nil /\ s_file2modifytime[f] = 0
  BY <1>1
<1>3. ConfigTypes
  <2>1. file \in [Files -> [mtime : Nat, content : LogValues \cup DbValues \cup {Nil}]]
    BY <1>1
  <2>2. \A v \in Vars : m_val[v] \in CanBe(v)
    BY <1>1 DEF CanBe, Vars
  <2>3. m_val = [v \in Vars |-> m_val[v]] /\ newv = [t \in Threads |-> newv[t]]
    BY <1>1
  <2>4. m_cbs \in [Vars -> SUBSET Listeners] /\ m_cbs["logs"] = {"LogIniter"} /\ m_cbs["db"] = {"MysqlInit"}
    BY <1>1 DEF Vars, Listeners
  <2>5. Coder \in Threads /\ "db" \in Vars
    BY DEF Threads, Vars
  <2>6. QED
    BY <1>1, <1>2, <2>1, <2>2, <2>3, <2>4, <2>5 DEF ConfigTypes
<1>4. Locked
  BY <1>1 DEF Locked
<1>5. "logs" \in Files /\ Loader \in Threads /\ "logs" \in Vars
  BY DEF Files, Vars, Threads
<1>6. Fresh
  BY <1>1, <1>2, <1>5 DEF Fresh, Recorded, Changing
<1>10. DbFresh /\ Behind
  BY <1>1, <1>2, <1>5 DEF DbFresh, DbRecorded, DbChanging, DbTold, Behind, Files, Vars
<1>7. Shaped
  <2>1. m_val["logs"] = <<>> /\ DOMAIN m_val["logs"] = {}
    BY <1>1, <1>5
  <2>2. ~Told /\ ~fault
    BY <1>1, <1>5 DEF Told, Changing
  <2>3. loggers = [n \in Loggers |-> loggers[n]]
    BY <1>1
  <2>4. QED
    BY <1>1, <2>1, <2>2, <2>3 DEF Shaped, Match
<1>8. DaemonIsQuiet
  BY <1>1 DEF DaemonIsQuiet
<1>9. QED
  BY <1>3, <1>4, <1>6, <1>7, <1>8, <1>10 DEF ConfigInv

\* Every action keeps the types, and the lock with those who call listeners.
LEMMA NextTypes ==
  ASSUME ConfigTypes, Locked, [Next]_vars
  PROVE  ConfigTypes' /\ Locked'
<1>0. /\ Loader \in Threads /\ Coder \in Threads /\ Loader # Coder /\ "db" \in Vars /\ "logs" \in Vars
      /\ Files = Vars /\ \A t \in Threads : t = Loader \/ t = Coder
  BY ConfigAssumption DEF Threads, Vars, Files
<1>1. CASE UNCHANGED vars
  BY <1>1 DEF ConfigTypes, Locked, vars
<1>2. ASSUME NEW f \in Files, NEW c \in Values(f) \cup {Nil}, Edit(f, c)
      PROVE  ConfigTypes' /\ Locked'
  <2>1. /\ file' = [file EXCEPT ![f] = [mtime |-> @.mtime + 1, content |-> c]]
        /\ UNCHANGED <<s_file2modifytime, m_val, m_cbs, readers, pc, todo, at, newv, calls>>
    BY <1>2 DEF Edit
  <2>2. c \in LogValues \cup DbValues \cup {Nil}
    BY DEF Values
  <2>3. file' \in [Files -> [mtime : Nat, content : LogValues \cup DbValues \cup {Nil}]]
    BY <2>1, <2>2 DEF ConfigTypes
  <2>4. \A g \in Files : file'[g].content \in Values(g) \cup {Nil}
    BY <2>1 DEF ConfigTypes
  <2>5. QED
    BY <2>1, <2>3, <2>4 DEF ConfigTypes, Locked
<1>3. ASSUME NEW force \in BOOLEAN, Load(force)
      PROVE  ConfigTypes' /\ Locked'
  <2>1. /\ pc[Loader] = "idle" /\ pc' = [pc EXCEPT ![Loader] = "next"] /\ todo' = Files
        /\ UNCHANGED <<file, s_file2modifytime, m_val, m_cbs, readers, at, newv, calls>>
    BY <1>3 DEF Load, Goto
  <2>2. \A t \in Threads : pc'[t] = IF t = Loader THEN "next" ELSE pc[t]
    BY <2>1 DEF ConfigTypes
  <2>3. ConfigTypes'
    BY <1>0, <2>1, <2>2 DEF ConfigTypes
  <2>4. Locked'
    BY <1>0, <2>1, <2>2 DEF ConfigTypes, Locked
  <2>5. QED
    BY <2>3, <2>4
<1>4. ASSUME NEW f \in Files, Stat(f)
      PROVE  ConfigTypes' /\ Locked'
  <2>1. PICK w \in {"next", "read"} :
          /\ pc[Loader] = "next" /\ pc' = [pc EXCEPT ![Loader] = w] /\ todo' = todo \ {f}
          /\ at' = [at EXCEPT ![Loader] = f]
          /\ UNCHANGED <<file, m_val, m_cbs, readers, newv, calls>>
    BY <1>4 DEF Stat, Goto
  <2>2. \A t \in Threads : pc'[t] = (IF t = Loader THEN w ELSE pc[t]) /\ at'[t] = (IF t = Loader THEN f ELSE at[t])
    BY <2>1 DEF ConfigTypes
  <2>3. s_file2modifytime' \in [Files -> Nat]
    BY <1>4 DEF Stat, ConfigTypes
  <2>4. ConfigTypes'
    BY <1>0, <2>1, <2>2, <2>3 DEF ConfigTypes
  <2>5. Locked'
    BY <1>0, <2>1, <2>2 DEF ConfigTypes, Locked
  <2>6. QED
    BY <2>4, <2>5
<1>5. CASE ReadFile
  <2> DEFINE x == LexicalCast(at[Loader], file[at[Loader]].content)
             w == IF x = Nil THEN "next" ELSE "compare"
  <2>1. /\ pc[Loader] = "read" /\ newv' = [newv EXCEPT ![Loader] = x] /\ pc' = [pc EXCEPT ![Loader] = w]
        /\ UNCHANGED <<file, s_file2modifytime, todo, m_val, m_cbs, readers, at, calls>>
    BY <1>5 DEF ReadFile, Goto, loadVars
  <2>2. x # Nil => x \in CanBe(at[Loader])
    BY <1>0, CastType DEF ConfigTypes
  <2>3. w \in {"next", "compare"} /\ (w = "compare" => x # Nil)
    OBVIOUS
  <2> HIDE DEF x, w
  <2>4. \A t \in Threads : pc'[t] = (IF t = Loader THEN w ELSE pc[t]) /\ newv'[t] = (IF t = Loader THEN x ELSE newv[t])
    BY <2>1 DEF ConfigTypes
  <2>5. newv' = [t \in Threads |-> newv'[t]]
    <3>1. newv' = [t \in Threads |-> IF t = Loader THEN x ELSE newv[t]]
      BY <2>1 DEF ConfigTypes
    <3>2. QED
      BY <3>1
  <2>6. pc' \in [Threads -> {"idle", "next", "read", "compare", "notify", "assign"}]
    BY <2>1, <2>3 DEF ConfigTypes
  <2>7. ConfigTypes'
    BY <1>0, <2>1, <2>2, <2>3, <2>4, <2>5, <2>6 DEF ConfigTypes
  <2>8. Locked'
    BY <1>0, <2>1, <2>3, <2>4 DEF ConfigTypes, Locked
  <2>9. QED
    BY <2>7, <2>8
<1>6. CASE LoadDone
  <2>1. /\ pc[Loader] = "next" /\ newv' = [newv EXCEPT ![Loader] = Nil] /\ pc' = [pc EXCEPT ![Loader] = "idle"]
        /\ UNCHANGED <<file, s_file2modifytime, todo, m_val, m_cbs, readers, at, calls>>
    BY <1>6 DEF LoadDone, Goto
  <2>2. \A t \in Threads : pc'[t] = (IF t = Loader THEN "idle" ELSE pc[t]) /\ newv'[t] = (IF t = Loader THEN Nil ELSE newv[t])
    BY <2>1 DEF ConfigTypes
  <2>3. newv' = [t \in Threads |-> newv'[t]]
    <3>1. newv' = [t \in Threads |-> IF t = Loader THEN Nil ELSE newv[t]]
      BY <2>1 DEF ConfigTypes
    <3>2. QED
      BY <3>1
  <2>4. ConfigTypes'
    BY <1>0, <2>1, <2>2, <2>3 DEF ConfigTypes
  <2>5. Locked'
    BY <1>0, <2>1, <2>2 DEF ConfigTypes, Locked
  <2>6. QED
    BY <2>4, <2>5
<1>7. ASSUME NEW t \in Threads, Compare(t)
      PROVE  ConfigTypes' /\ Locked'
  <2> DEFINE v == at[t]
  <2>1. /\ pc[t] = "compare" /\ v \in Vars /\ UNCHANGED <<file, s_file2modifytime, todo, m_val, m_cbs, at, newv>>
    BY <1>7 DEF Compare, loadVars, ConfigTypes
  <2>2. CASE pc' = [pc EXCEPT ![t] = After(t)] /\ UNCHANGED <<readers, calls>>
    <3>1. \A u \in Threads : pc'[u] = IF u = t THEN After(t) ELSE pc[u]
      BY <2>2 DEF ConfigTypes
    <3>2. ConfigTypes'
      BY <1>0, <2>1, <2>2, <3>1 DEF ConfigTypes, After
    <3>3. Locked'
      BY <1>0, <2>1, <2>2, <3>1 DEF ConfigTypes, Locked, After
    <3>4. QED
      BY <3>2, <3>3
  <2>3. CASE /\ readers' = [readers EXCEPT ![v] = @ \cup {t}]
             /\ calls' = [calls EXCEPT ![t] = m_cbs[v]] /\ pc' = [pc EXCEPT ![t] = "notify"]
    <3> HIDE DEF v
    <3>1. \A u \in Threads : pc'[u] = (IF u = t THEN "notify" ELSE pc[u]) /\ calls'[u] = (IF u = t THEN m_cbs[v] ELSE calls[u])
      BY <2>3 DEF ConfigTypes
    <3>2. \A w \in Vars : readers'[w] = IF w = v THEN readers[v] \cup {t} ELSE readers[w]
      BY <2>3 DEF ConfigTypes
    <3>3. readers' \in [Vars -> SUBSET Threads] /\ calls' \in [Threads -> SUBSET Listeners]
      BY <2>1, <2>3 DEF ConfigTypes
    <3>4. ConfigTypes'
      BY <1>0, <2>1, <2>3, <3>1, <3>3 DEF ConfigTypes
    <3>5. Locked'
      <4>1. at[t] = v /\ \A u \in Threads : at[u] \in Vars
        BY DEF v, ConfigTypes
      <4>2. \A w \in Vars : \A u \in Threads : u \in readers'[w] <=> pc'[u] = "notify" /\ at'[u] = w
        BY <2>1, <3>1, <3>2, <4>1 DEF Locked
      <4>3. \A u \in Threads : (calls'[u] # {} => pc'[u] = "notify") /\ calls'[u] \subseteq m_cbs'[at'[u]]
        BY <2>1, <3>1, <4>1 DEF Locked
      <4>4. QED
        BY <4>2, <4>3 DEF Locked
    <3>6. QED
      BY <3>4, <3>5
  <2>4. QED
    BY <1>7, <2>2, <2>3 DEF Compare, Goto
<1>8. ASSUME NEW t \in Threads, NEW l, Notify(t, l)
      PROVE  ConfigTypes' /\ Locked'
  <2>1. /\ pc[t] = "notify" /\ l \in calls[t] /\ calls' = [calls EXCEPT ![t] = @ \ {l}]
        /\ UNCHANGED <<file, s_file2modifytime, todo, m_val, m_cbs, readers, pc, at, newv>>
    BY <1>8 DEF Notify, loadVars
  <2>2. QED
    BY <2>1 DEF ConfigTypes, Locked
<1>9. ASSUME NEW t \in Threads, Unlock(t)
      PROVE  ConfigTypes' /\ Locked'
  <2>1. /\ pc[t] = "notify" /\ calls[t] = {} /\ readers' = [readers EXCEPT ![at[t]] = @ \ {t}]
        /\ pc' = [pc EXCEPT ![t] = "assign"] /\ UNCHANGED <<file, s_file2modifytime, todo, m_val, m_cbs, at, newv, calls>>
    BY <1>9 DEF Unlock, Goto, loadVars
  <2>2. \A u \in Threads : pc'[u] = IF u = t THEN "assign" ELSE pc[u]
    BY <2>1 DEF ConfigTypes
  <2>3. \A w \in Vars : readers'[w] = IF w = at[t] THEN readers[w] \ {t} ELSE readers[w]
    BY <2>1 DEF ConfigTypes
  <2>4. readers' \in [Vars -> SUBSET Threads]
    BY <2>1 DEF ConfigTypes
  <2>5. ConfigTypes'
    BY <1>0, <2>1, <2>2, <2>4 DEF ConfigTypes
  <2>6. Locked'
    BY <1>0, <2>1, <2>2, <2>3 DEF ConfigTypes, Locked
  <2>7. QED
    BY <2>5, <2>6
<1>10. ASSUME NEW t \in Threads, Assign(t)
       PROVE  ConfigTypes' /\ Locked'
  <2>1. /\ pc[t] = "assign" /\ m_val' = [m_val EXCEPT ![at[t]] = newv[t]]
        /\ pc' = [pc EXCEPT ![t] = After(t)]
        /\ UNCHANGED <<file, s_file2modifytime, todo, m_cbs, readers, at, newv, calls>>
    BY <1>10 DEF Assign, Goto, loadVars
  <2>2. \A u \in Threads : pc'[u] = IF u = t THEN After(t) ELSE pc[u]
    BY <2>1 DEF ConfigTypes
  <2>3. m_val' = [v \in Vars |-> IF v = at[t] THEN newv[t] ELSE m_val[v]]
    BY <2>1 DEF ConfigTypes
  <2>4. m_val' = [v \in Vars |-> m_val'[v]] /\ \A v \in Vars : m_val'[v] \in CanBe(v)
    BY <2>1, <2>3 DEF ConfigTypes
  <2>5. ConfigTypes'
    BY <1>0, <2>1, <2>2, <2>4 DEF ConfigTypes, After
  <2>6. Locked'
    BY <1>0, <2>1, <2>2 DEF ConfigTypes, Locked, After
  <2>7. QED
    BY <2>5, <2>6
<1>11. ASSUME NEW x \in DbValues, SetByCode(x)
       PROVE  ConfigTypes' /\ Locked'
  <2>1. /\ pc[Coder] = "idle" /\ newv' = [newv EXCEPT ![Coder] = x] /\ pc' = [pc EXCEPT ![Coder] = "compare"]
        /\ UNCHANGED <<file, s_file2modifytime, todo, m_val, m_cbs, readers, at, calls>>
    BY <1>11 DEF SetByCode, Coded, Goto
  <2>2. \A t \in Threads : pc'[t] = (IF t = Coder THEN "compare" ELSE pc[t]) /\ newv'[t] = (IF t = Coder THEN x ELSE newv[t])
    BY <2>1 DEF ConfigTypes
  <2>3. newv' = [t \in Threads |-> newv'[t]]
    <3>1. newv' = [t \in Threads |-> IF t = Coder THEN x ELSE newv[t]]
      BY <2>1 DEF ConfigTypes
    <3>2. QED
      BY <3>1
  <2>4. x # Nil /\ x \in CanBe("db")
    BY ConfigAssumption DEF CanBe
  <2>5. ConfigTypes'
    BY <1>0, <2>1, <2>2, <2>3, <2>4 DEF ConfigTypes
  <2>6. Locked'
    BY <1>0, <2>1, <2>2 DEF ConfigTypes, Locked
  <2>7. QED
    BY <2>5, <2>6
<1>12. CASE addListener("other") \/ delListener("other")
  <2>1. /\ readers["db"] = {} /\ UNCHANGED <<file, s_file2modifytime, todo, m_val, readers, pc, at, newv, calls>>
        /\ m_cbs' \in {[m_cbs EXCEPT !["db"] = @ \cup {"other"}], [m_cbs EXCEPT !["db"] = @ \ {"other"}]}
    BY <1>12 DEF addListener, delListener, CanWrite
  <2>2. /\ m_cbs' \in [Vars -> SUBSET Listeners]
        /\ m_cbs'["logs"] = m_cbs["logs"] /\ m_cbs'["db"] \subseteq {"MysqlInit", "other"} /\ "MysqlInit" \in m_cbs'["db"]
    <3>1. ASSUME NEW S \in SUBSET {"MysqlInit", "other"}, "MysqlInit" \in S, m_cbs' = [m_cbs EXCEPT !["db"] = S]
          PROVE  /\ m_cbs' \in [Vars -> SUBSET Listeners]
                 /\ m_cbs'["logs"] = m_cbs["logs"] /\ m_cbs'["db"] \subseteq {"MysqlInit", "other"} /\ "MysqlInit" \in m_cbs'["db"]
      BY <1>0, <3>1 DEF ConfigTypes, Listeners
    <3>2. PICK S \in SUBSET {"MysqlInit", "other"} : "MysqlInit" \in S /\ m_cbs' = [m_cbs EXCEPT !["db"] = S]
      <4>1. /\ m_cbs["db"] \cup {"other"} \in SUBSET {"MysqlInit", "other"} /\ m_cbs["db"] \ {"other"} \in SUBSET {"MysqlInit", "other"}
            /\ "MysqlInit" \in m_cbs["db"]
        BY DEF ConfigTypes
      <4>2. QED
        BY <2>1, <4>1
    <3>3. QED
      BY <3>1, <3>2
  <2>3. ConfigTypes'
    BY <2>1, <2>2 DEF ConfigTypes
  <2>4. \A t \in Threads : calls[t] # {} => at[t] = "logs"
    BY <1>0, <2>1 DEF ConfigTypes, Locked, Vars
  <2>5. Locked'
    BY <2>1, <2>2, <2>4 DEF Locked
  <2>6. QED
    BY <2>3, <2>5
<1>13. QED
  BY <1>1, <1>2, <1>3, <1>4, <1>5, <1>6, <1>7, <1>8, <1>9, <1>10, <1>11, <1>12 DEF Next, Loading, Setting, Stopped

-----------------------------------------------------------------------------
(* The file and the loggers.                                               *)

\* The part of the state that "logs" and the loader's work on it depend on.
LogState == <<file["logs"], s_file2modifytime["logs"], m_val["logs"], pc[Loader], at[Loader], newv[Loader],
              calls[Loader], loggers, came, fault>>

LogInv == Fresh /\ Shaped /\ DaemonIsQuiet

\* A step that leaves all of that alone.
LEMMA LogStateKept ==
  ASSUME LogInv, UNCHANGED LogState
  PROVE  LogInv'
<1>1. /\ file'["logs"] = file["logs"] /\ s_file2modifytime'["logs"] = s_file2modifytime["logs"]
      /\ m_val'["logs"] = m_val["logs"] /\ pc'[Loader] = pc[Loader] /\ at'[Loader] = at[Loader]
      /\ newv'[Loader] = newv[Loader] /\ calls'[Loader] = calls[Loader]
      /\ UNCHANGED <<loggers, came, fault>>
  BY DEF LogState
<1>2. (Changing' <=> Changing) /\ (Told' <=> Told) /\ Text' = Text /\ (Recorded' <=> Recorded)
  BY <1>1 DEF Changing, Told, Text, Recorded
<1>3. Fresh'
  BY <1>1, <1>2 DEF LogInv, Fresh
<1>4. Shaped'
  BY <1>1, <1>2 DEF LogInv, Shaped, Match, FaultIsALevel
<1>5. DaemonIsQuiet'
  BY <1>1 DEF LogInv, DaemonIsQuiet
<1>6. QED
  BY <1>3, <1>4, <1>5 DEF LogInv

\* A step that leaves the loggers and the value alone, and does not reach or leave the time between
\* LogIniter's call and the assignment.
LEMMA LoggersKept ==
  ASSUME Shaped, DaemonIsQuiet, UNCHANGED <<loggers, came, fault>>, m_val'["logs"] = m_val["logs"],
         ~Told, ~Told', ~fault
  PROVE  Shaped' /\ DaemonIsQuiet'
BY DEF Shaped, DaemonIsQuiet, Match

\* A file is edited: the recorded time is no longer that of the file.
LEMMA EditKeeps ==
  ASSUME ConfigTypes, LogInv, NEW f \in Files, NEW c \in Values(f) \cup {Nil}, Edit(f, c)
  PROVE  LogInv'
<1>1. /\ file' = [file EXCEPT ![f] = [mtime |-> @.mtime + 1, content |-> c]]
      /\ UNCHANGED <<s_file2modifytime, m_val, pc, at, newv, calls, loggers, came, fault>>
  BY DEF Edit, logVars
<1>2. CASE f # "logs"
  <2>1. file'["logs"] = file["logs"]
    BY <1>1, <1>2 DEF ConfigTypes, Files, Vars
  <2>2. QED
    BY <1>1, <2>1, LogStateKept DEF LogState
<1>3. CASE f = "logs"
  <2>1. file'["logs"].mtime = file["logs"].mtime + 1 /\ file["logs"].mtime \in Nat /\ s_file2modifytime["logs"] \in Nat
    BY <1>1, <1>3 DEF ConfigTypes
  <2>2. ~Recorded' /\ s_file2modifytime'["logs"] <= file'["logs"].mtime
    BY <1>1, <2>1 DEF LogInv, Fresh, Recorded
  <2>3. Fresh'
    BY <2>2 DEF Fresh
  <2>4. Shaped' /\ DaemonIsQuiet'
    BY <1>1 DEF LogInv, Shaped, Match, Told, Changing, DaemonIsQuiet, FaultIsALevel
  <2>5. QED
    BY <2>3, <2>4 DEF LogInv
<1>4. QED
  BY <1>2, <1>3

\* The loader goes through the directory.
LEMMA LoaderKeeps ==
  ASSUME ConfigTypes, Locked, LogInv, Loading \/ \E force \in BOOLEAN : Load(force)
  PROVE  LogInv'
<1>0. /\ Loader \in Threads /\ "logs" \in Files /\ Files = Vars /\ calls[Loader] \in SUBSET Listeners
  BY DEF Threads, Files, Vars, ConfigTypes
<1>1. /\ UNCHANGED <<file, m_val, loggers, came, fault, calls>> /\ pc[Loader] \in {"idle", "next", "read"}
  BY DEF Loading, LoadDone, ReadFile, Stat, Load, loadVars, logVars
<1>2. ~Told /\ ~fault /\ Text' = Text
  BY <1>1 DEF Told, LogInv, Shaped, Text
<1>3. pc'[Loader] \in {"idle", "next", "read", "compare"}
  BY <1>0 DEF Loading, LoadDone, ReadFile, Stat, Load, Goto, ConfigTypes
<1>4. Shaped' /\ DaemonIsQuiet'
  <2>1. ~Told'
    BY <1>3 DEF Told
  <2>2. QED
    BY <1>1, <1>2, <2>1, LoggersKept DEF LogInv
<1>5. CASE LoadDone \/ \E force \in BOOLEAN : Load(force)
  <2>1. ~Changing /\ ~Changing' /\ UNCHANGED s_file2modifytime
    BY <1>0, <1>5 DEF LoadDone, Load, Goto, Changing, ConfigTypes
  <2>2. Fresh'
    BY <1>1, <1>2, <2>1 DEF LogInv, Fresh, Recorded
  <2>3. QED
    BY <1>4, <2>2 DEF LogInv
<1>6. ASSUME NEW f \in Files, Stat(f)
      PROVE  LogInv'
  <2>1. /\ pc[Loader] = "next" /\ at'[Loader] = f /\ ~Changing
    BY <1>0, <1>6 DEF Stat, ConfigTypes, Changing
  <2>2. CASE ~forced /\ s_file2modifytime[f] = file[f].mtime
    <3>1. pc'[Loader] = "next" /\ UNCHANGED s_file2modifytime
      BY <1>0, <1>6, <2>2 DEF Stat, Goto, ConfigTypes
    <3>2. ~Changing'
      BY <3>1 DEF Changing
    <3>3. Fresh'
      BY <1>1, <1>2, <2>1, <3>1, <3>2 DEF LogInv, Fresh, Recorded
    <3>4. QED
      BY <1>4, <3>3 DEF LogInv
  <2>3. CASE ~(~forced /\ s_file2modifytime[f] = file[f].mtime)
    <3>1. pc'[Loader] = "read" /\ s_file2modifytime' = [s_file2modifytime EXCEPT ![f] = file[f].mtime]
      BY <1>0, <1>6, <2>3 DEF Stat, Goto, ConfigTypes
    <3>2. file["logs"].mtime \in Nat /\ s_file2modifytime \in [Files -> Nat]
      BY <1>0 DEF ConfigTypes
    <3>3. CASE f = "logs"
      <4>1. Changing' /\ s_file2modifytime'["logs"] = file'["logs"].mtime
        BY <1>0, <1>1, <2>1, <3>1, <3>2, <3>3 DEF Changing
      <4>2. Fresh'
        BY <1>1, <3>1, <3>2, <4>1 DEF Fresh
      <4>3. QED
        BY <1>4, <4>2 DEF LogInv
    <3>4. CASE f # "logs"
      <4>1. ~Changing' /\ s_file2modifytime'["logs"] = s_file2modifytime["logs"]
        BY <1>0, <2>1, <3>1, <3>2, <3>4 DEF Changing
      <4>2. Fresh'
        BY <1>1, <1>2, <2>1, <4>1 DEF LogInv, Fresh, Recorded
      <4>3. QED
        BY <1>4, <4>2 DEF LogInv
    <3>5. QED
      BY <3>3, <3>4
  <2>4. QED
    BY <2>2, <2>3
<1>7. CASE ReadFile
  <2> DEFINE x == LexicalCast(at[Loader], file[at[Loader]].content)
  <2>1. /\ pc[Loader] = "read" /\ newv'[Loader] = x /\ pc'[Loader] = (IF x = Nil THEN "next" ELSE "compare")
        /\ UNCHANGED <<at, s_file2modifytime>>
    BY <1>0, <1>7 DEF ReadFile, Goto, loadVars, ConfigTypes
  <2>2. CASE at[Loader] = "logs"
    <3>1. x = Text
      BY <2>2 DEF Text
    <3> HIDE DEF x
    <3>2. Changing' <=> x # Nil
      BY <2>1, <2>2 DEF Changing
    <3>3. Fresh'
      BY <1>1, <1>2, <2>1, <2>2, <3>1, <3>2 DEF LogInv, Fresh, Recorded
    <3>4. QED
      BY <1>4, <3>3 DEF LogInv
  <2>3. CASE at[Loader] # "logs"
    <3>1. ~Changing /\ ~Changing'
      BY <2>1, <2>3 DEF Changing
    <3>2. Fresh'
      BY <1>1, <1>2, <2>1, <3>1 DEF LogInv, Fresh, Recorded
    <3>3. QED
      BY <1>4, <3>2 DEF LogInv
  <2>4. QED
    BY <2>2, <2>3
<1>8. QED
  BY <1>5, <1>6, <1>7 DEF Loading

\* A setter of "db", and the listeners that come and go.
LEMMA DbKeeps ==
  ASSUME ConfigTypes, Locked, LogInv,
         \/ \E x \in DbValues : SetByCode(x)
         \/ addListener("other") \/ delListener("other") \/ Stopped
         \/ \E t \in Threads : at[t] = "db" /\ Setting(t)
  PROVE  LogInv'
<1>0. /\ Loader \in Threads /\ Coder \in Threads /\ Loader # Coder /\ "db" \in Vars /\ "logs" \in Vars
      /\ Files = Vars /\ \A t \in Threads : t = Loader \/ t = Coder
  BY ConfigAssumption DEF Threads, Vars, Files
<1>1. CASE \/ \E x \in DbValues : SetByCode(x)
           \/ addListener("other") \/ delListener("other") \/ Stopped
  <2>1. UNCHANGED LogState
    BY <1>0, <1>1 DEF SetByCode, addListener, delListener, Stopped, vars, logVars, Coded, Goto, LogState, ConfigTypes
  <2>2. QED
    BY <2>1, LogStateKept
<1>2. ASSUME NEW t \in Threads, at[t] = "db", Setting(t)
      PROVE  LogInv'
  <2>1. UNCHANGED <<loggers, came, fault, file, s_file2modifytime, at, newv>>
    <3>1. ASSUME NEW l, Notify(t, l)
          PROVE  UNCHANGED <<loggers, came, fault, file, s_file2modifytime, at, newv>>
      <4>1. l # "LogIniter"
        BY <1>2, <3>1 DEF Notify, ConfigTypes, Locked
      <4>2. QED
        BY <3>1, <4>1 DEF Notify, logVars, loadVars
    <3>2. QED
      BY <1>2, <3>1 DEF Setting, Compare, Unlock, Assign, logVars, loadVars
  <2>2. m_val'["logs"] = m_val["logs"]
    BY <1>0, <1>2 DEF Setting, Compare, Notify, Unlock, Assign, ConfigTypes
  <2>3. CASE t = Coder
    <3>1. pc'[Loader] = pc[Loader] /\ calls'[Loader] = calls[Loader]
      BY <1>0, <1>2, <2>3 DEF Setting, Compare, Notify, Unlock, Assign, Goto, ConfigTypes
    <3>2. QED
      BY <2>1, <2>2, <3>1, LogStateKept DEF LogState
  <2>4. CASE t = Loader
    <3>1. ~Changing /\ ~Changing' /\ ~Told /\ ~Told' /\ ~fault
      BY <1>2, <2>1, <2>4 DEF Changing, Told, LogInv, Shaped
    <3>2. Fresh'
      BY <2>1, <2>2, <3>1 DEF LogInv, Fresh, Recorded, Text
    <3>3. QED
      BY <2>1, <2>2, <3>1, <3>2, LoggersKept DEF LogInv
  <2>5. QED
    BY <1>0, <2>3, <2>4
<1>3. QED
  BY <1>1, <1>2

\* LogIniter sets the loggers up for the new value, or meets a null logger.
LEMMA LogIniterSets ==
  ASSUME Shaped, DaemonIsQuiet, NEW old, NEW new, Match(old), DOMAIN new \subseteq Loggers, LogIniter(old, new), ~fault
  PROVE  /\ loggers' = [n \in Loggers |-> loggers'[n]] /\ DOMAIN came' \subseteq Loggers
         /\ DaemonIsQuiet' /\ DOMAIN came \subseteq DOMAIN came'
         /\ ~fault' => Match(new)'
         /\ fault' => \E n \in DOMAIN new \cap DOMAIN old : new[n].level # old[n].level
<1>1. CASE /\ \E n \in DOMAIN new \cap DOMAIN old : ~SameDefine(new[n], old[n])
           /\ fault' = TRUE /\ UNCHANGED <<loggers, came>>
  BY <1>1 DEF Shaped, DaemonIsQuiet, SameDefine
<1>2. CASE /\ \A n \in DOMAIN new \cap DOMAIN old : SameDefine(new[n], old[n])
           /\ loggers' = [n \in Loggers |->
                            IF n \in DOMAIN new \ DOMAIN old THEN SetUp(new[n])
                            ELSE IF n \in DOMAIN old \ DOMAIN new THEN Off
                            ELSE loggers[n]]
           /\ came' = [n \in DOMAIN came \cup DOMAIN new |->
                         IF n \in DOMAIN new \ DOMAIN old THEN new[n] ELSE came[n]]
           /\ UNCHANGED fault
  <2>1. DOMAIN old \subseteq DOMAIN came /\ DOMAIN came \subseteq Loggers
    BY DEF Match, Shaped
  <2>2. \A n \in Loggers : loggers'[n] = IF n \in DOMAIN new \ DOMAIN old THEN SetUp(new[n])
                                         ELSE IF n \in DOMAIN old \ DOMAIN new THEN Off
                                         ELSE loggers[n]
    BY <1>2
  <2>3. loggers' = [n \in Loggers |-> loggers'[n]] /\ DOMAIN came' = DOMAIN came \cup DOMAIN new
    BY <1>2
  <2>4. \A n \in DOMAIN came' : came'[n] = IF n \in DOMAIN new \ DOMAIN old THEN new[n] ELSE came[n]
    BY <1>2
  <2>5. Match(new)'
    <3>1. ASSUME NEW n \in DOMAIN came', n \in DOMAIN new
          PROVE  loggers'[n] = SetUp(came'[n]) /\ came'[n].level = new[n].level
      <4>1. CASE n \in DOMAIN old
        <5>1. n \in DOMAIN came /\ n \in Loggers /\ loggers'[n] = loggers[n] /\ came'[n] = came[n]
          BY <2>1, <2>2, <2>4, <3>1, <4>1
        <5>2. loggers[n] = SetUp(came[n]) /\ came[n].level = old[n].level /\ new[n].level = old[n].level
          BY <1>2, <3>1, <4>1, <5>1 DEF Match, SameDefine
        <5>3. QED
          BY <5>1, <5>2
      <4>2. CASE n \notin DOMAIN old
        BY <2>2, <2>4, <3>1, <4>2
      <4>3. QED
        BY <4>1, <4>2
    <3>2. ASSUME NEW n \in DOMAIN came', n \notin DOMAIN new
          PROVE  loggers'[n] = Off
      BY <2>1, <2>2, <2>3, <3>2 DEF Match
    <3>3. QED
      BY <2>3, <3>1, <3>2 DEF Match, SetUp, Off
  <2>6. DaemonIsQuiet'
    <3> SUFFICES ASSUME Daemon, NEW n \in DOMAIN came'
                 PROVE  "stdout" \notin loggers'[n].appenders
      BY DEF DaemonIsQuiet
    <3>1. n \in Loggers
      BY <2>1, <2>3
    <3>2. CASE n \in DOMAIN new \ DOMAIN old
      <4>1. loggers'[n] = [level |-> new[n].level, appenders |-> new[n].appenders \ {"stdout"}]
        BY <2>2, <3>1, <3>2 DEF SetUp
      <4>2. QED
        BY <4>1
    <3>3. CASE n \in DOMAIN old \ DOMAIN new
      BY <2>2, <3>1, <3>3 DEF Off
    <3>4. CASE n \notin DOMAIN new \ DOMAIN old /\ n \notin DOMAIN old \ DOMAIN new
      <4>1. n \in DOMAIN came
        BY <2>1, <2>3, <3>4
      <4>2. QED
        BY <2>2, <3>1, <3>4, <4>1 DEF DaemonIsQuiet
    <3>5. QED
      BY <3>2, <3>3, <3>4
  <2>7. QED
    BY <1>2, <2>1, <2>3, <2>5, <2>6
<1>3. QED
  BY <1>1, <1>2 DEF LogIniter

\* The loader sets "logs".
LEMMA LogsKeeps ==
  ASSUME ConfigTypes, Locked, LogInv, Setting(Loader), at[Loader] = "logs"
  PROVE  LogInv'
<1>0. /\ Loader \in Threads /\ "logs" \in Vars /\ Files = Vars
  BY DEF Threads, Files, Vars
<1>1. UNCHANGED <<file, s_file2modifytime, at, newv>> /\ Changing
  BY DEF Setting, Compare, Notify, Unlock, Assign, loadVars, Changing
<1>2. (Recorded' <=> Recorded) /\ Text' = Text /\ s_file2modifytime'["logs"] <= file'["logs"].mtime
  BY <1>1 DEF Recorded, Text, LogInv, Fresh
<1>3. CASE Compare(Loader)
  <2>1. pc[Loader] = "compare" /\ UNCHANGED <<m_val, loggers, came, fault>> /\ ~fault /\ ~Told
    BY <1>3 DEF Compare, logVars, LogInv, Shaped, Told
  <2>2. CASE Same("logs", newv[Loader], m_val["logs"]) /\ pc'[Loader] = "next"
    <3>1. ~Changing' /\ ~Told'
      BY <2>2 DEF Changing, Told
    <3>2. Recorded => newv[Loader] = Text
      BY <1>1, <2>1 DEF LogInv, Fresh
    <3>3. Recorded => Same("logs", m_val["logs"], Text)
      BY <2>2, <3>2 DEF Same, SameDefine
    <3>4. Fresh'
      BY <1>2, <2>1, <3>1, <3>3 DEF Fresh
    <3>5. QED
      BY <2>1, <3>1, <3>4, LoggersKept DEF LogInv
  <2>3. CASE calls'[Loader] = {"LogIniter"} /\ pc'[Loader] = "notify"
    <3>1. Changing' /\ ~Told'
      BY <1>1, <2>3 DEF Changing, Told
    <3>2. Fresh'
      BY <1>1, <1>2, <2>1, <3>1 DEF LogInv, Fresh
    <3>3. QED
      BY <2>1, <3>1, <3>2, LoggersKept DEF LogInv
  <2>4. QED
    BY <1>0, <1>3, <2>2, <2>3 DEF Compare, Goto, After, ConfigTypes
<1>4. ASSUME NEW l, Notify(Loader, l)
      PROVE  LogInv'
  <2>1. l = "LogIniter" /\ calls[Loader] = {"LogIniter"} /\ pc[Loader] = "notify" /\ UNCHANGED <<pc, m_val>>
    BY <1>0, <1>4 DEF Notify, Locked, ConfigTypes
  <2>2. calls'[Loader] = {} /\ LogIniter(m_val["logs"], newv[Loader])
    BY <1>0, <1>4, <2>1 DEF Notify, ConfigTypes
  <2>3. ~Told /\ Changing' /\ Told'
    BY <1>1, <2>1, <2>2 DEF Told, Changing
  <2>4. Fresh'
    BY <1>1, <1>2, <2>1, <2>3 DEF LogInv, Fresh
  <2>5. newv[Loader] \in CanBe("logs") /\ newv[Loader] # Nil
    BY <1>0, <2>1 DEF ConfigTypes
  <2>6. DOMAIN newv[Loader] \subseteq Loggers
    BY <2>5, ValueNames
  <2>7. CASE ~fault
    <3>1. Match(m_val["logs"])
      BY <2>3, <2>7 DEF LogInv, Shaped
    <3>2. /\ loggers' = [n \in Loggers |-> loggers'[n]] /\ DOMAIN came' \subseteq Loggers
          /\ DaemonIsQuiet' /\ DOMAIN came \subseteq DOMAIN came'
          /\ ~fault' => Match(newv[Loader])'
          /\ fault' => \E n \in DOMAIN newv[Loader] \cap DOMAIN m_val["logs"] : newv[Loader][n].level # m_val["logs"][n].level
      <4>1. ASSUME NEW new, new = newv[Loader]
            PROVE  /\ loggers' = [n \in Loggers |-> loggers'[n]] /\ DOMAIN came' \subseteq Loggers
                   /\ DaemonIsQuiet' /\ DOMAIN came \subseteq DOMAIN came'
                   /\ ~fault' => Match(new)'
                   /\ fault' => \E n \in DOMAIN new \cap DOMAIN m_val["logs"] : new[n].level # m_val["logs"][n].level
        BY <2>2, <2>6, <2>7, <3>1, <4>1, LogIniterSets DEF LogInv
      <4>2. QED
        BY <1>1, <4>1
    <3>3. Shaped'
      <4>1. DOMAIN m_val'["logs"] \subseteq DOMAIN came'
        BY <2>1, <3>1, <3>2 DEF Match
      <4>2. ~fault' => Match(IF Told THEN newv[Loader] ELSE m_val["logs"])'
        BY <2>3, <3>2
      <4>3. QED
        BY <1>1, <2>1, <2>2, <2>3, <3>2, <4>1, <4>2 DEF Shaped, FaultIsALevel
    <3>4. QED
      BY <2>4, <3>2, <3>3 DEF LogInv
  <2>8. CASE fault
    BY <2>1, <2>8 DEF LogInv, Shaped
  <2>9. QED
    BY <2>7, <2>8
<1>5. CASE Unlock(Loader)
  <2>1. /\ pc[Loader] = "notify" /\ calls[Loader] = {} /\ ~fault /\ pc'[Loader] = "assign"
        /\ UNCHANGED <<m_val, calls, loggers, came, fault>>
    BY <1>0, <1>5 DEF Unlock, Goto, ConfigTypes, logVars
  <2>2. Told /\ Told' /\ Changing'
    BY <1>1, <2>1 DEF Told, Changing
  <2>3. Fresh'
    BY <1>1, <1>2, <2>1, <2>2 DEF LogInv, Fresh
  <2>4. Shaped' /\ DaemonIsQuiet'
    BY <1>1, <2>1, <2>2 DEF LogInv, Shaped, Match, DaemonIsQuiet
  <2>5. QED
    BY <2>3, <2>4 DEF LogInv
<1>6. CASE Assign(Loader)
  <2>1. /\ pc[Loader] = "assign" /\ pc'[Loader] = "next" /\ m_val'["logs"] = newv[Loader]
        /\ UNCHANGED <<calls, loggers, came, fault>>
    BY <1>0, <1>6 DEF Assign, Goto, After, ConfigTypes, logVars
  <2>2. Told /\ ~Told' /\ ~Changing' /\ ~fault
    BY <1>1, <2>1 DEF Told, Changing, LogInv, Shaped
  <2>3. Recorded => Same("logs", m_val'["logs"], Text)
    BY <1>1, <2>1 DEF LogInv, Fresh, Same, SameDefine
  <2>4. Fresh'
    BY <1>2, <2>2, <2>3 DEF Fresh
  <2>5. Shaped' /\ DaemonIsQuiet'
    BY <1>1, <2>1, <2>2 DEF LogInv, Shaped, Match, DaemonIsQuiet
  <2>6. QED
    BY <2>4, <2>5 DEF LogInv
<1>7. QED
  BY <1>3, <1>4, <1>5, <1>6 DEF Setting

-----------------------------------------------------------------------------
(* "db" and the pool.                                                      *)

DbState == <<file["db"], s_file2modifytime["db"], m_val["db"], pc[Loader], at[Loader], newv[Loader], newv[Coder],
             calls[Loader], pool, was>>

DbInv == DbFresh /\ Behind

\* A step that leaves "db", its file, the pool and the loader alone.
LEMMA DbStateKept ==
  ASSUME DbInv, UNCHANGED DbState
  PROVE  DbInv'
<1>1. /\ file'["db"] = file["db"] /\ s_file2modifytime'["db"] = s_file2modifytime["db"]
      /\ m_val'["db"] = m_val["db"] /\ pc'[Loader] = pc[Loader] /\ at'[Loader] = at[Loader]
      /\ newv'[Loader] = newv[Loader] /\ newv'[Coder] = newv[Coder] /\ calls'[Loader] = calls[Loader]
      /\ UNCHANGED <<pool, was>>
  BY DEF DbState
<1>2. /\ (DbChanging' <=> DbChanging) /\ (DbTold' <=> DbTold) /\ DbText' = DbText
      /\ (DbRecorded' <=> DbRecorded) /\ (ByFileOnly' <=> ByFileOnly)
  BY <1>1 DEF DbChanging, DbTold, DbText, DbRecorded, ByFileOnly
<1>3. QED
  BY <1>1, <1>2 DEF DbInv, DbFresh, Behind

\* The loader works on the other file, or is between two files, before and after the step.
LEMMA DbAside ==
  ASSUME DbInv, file'["db"] = file["db"], s_file2modifytime'["db"] = s_file2modifytime["db"],
         m_val'["db"] = m_val["db"], newv'[Coder] = newv[Coder], UNCHANGED <<pool, was>>,
         ~DbChanging, ~DbChanging', ~DbTold, ~DbTold'
  PROVE  DbInv'
<1>1. DbText' = DbText /\ (DbRecorded' <=> DbRecorded) /\ (ByFileOnly' <=> ByFileOnly)
  BY DEF DbText, DbRecorded, ByFileOnly
<1>2. QED
  BY <1>1 DEF DbInv, DbFresh, Behind

\* Once code has set "db", only the recorded time is claimed.
LEMMA DbByCode ==
  ASSUME DbInv, newv'[Coder] # Nil, s_file2modifytime'["db"] <= file'["db"].mtime
  PROVE  DbInv'
BY DEF DbInv, DbFresh, Behind, ByFileOnly

\* The loader goes through the directory.
LEMMA DbLoaderKeeps ==
  ASSUME ConfigTypes, DbInv, Loading \/ \E force \in BOOLEAN : Load(force)
  PROVE  DbInv'
<1>0. /\ Loader \in Threads /\ Coder \in Threads /\ Loader # Coder /\ "db" \in Files /\ Files = Vars
  BY ConfigAssumption DEF Threads, Files, Vars
<1>1. /\ UNCHANGED <<file, m_val, pool, was, calls>> /\ pc[Loader] \in {"idle", "next", "read"}
      /\ newv'[Coder] = newv[Coder]
  BY <1>0 DEF Loading, LoadDone, ReadFile, Stat, Load, loadVars, logVars, ConfigTypes
<1>2. pc'[Loader] \in {"idle", "next", "read", "compare"}
  BY <1>0 DEF Loading, LoadDone, ReadFile, Stat, Load, Goto, ConfigTypes
<1>3. ~DbTold /\ ~DbTold' /\ DbText' = DbText /\ (ByFileOnly' <=> ByFileOnly)
  BY <1>1, <1>2 DEF DbTold, DbText, ByFileOnly
<1>4. Behind'
  BY <1>1, <1>3 DEF DbInv, Behind
<1>5. CASE LoadDone \/ \E force \in BOOLEAN : Load(force)
  <2>1. ~DbChanging /\ ~DbChanging' /\ UNCHANGED s_file2modifytime
    BY <1>0, <1>5 DEF LoadDone, Load, Goto, DbChanging, ConfigTypes
  <2>2. QED
    BY <1>1, <1>3, <2>1, DbAside
<1>6. ASSUME NEW f \in Files, Stat(f)
      PROVE  DbInv'
  <2>1. /\ pc[Loader] = "next" /\ at'[Loader] = f /\ ~DbChanging
    BY <1>0, <1>6 DEF Stat, ConfigTypes, DbChanging
  <2>2. CASE ~forced /\ s_file2modifytime[f] = file[f].mtime
    <3>1. pc'[Loader] = "next" /\ UNCHANGED s_file2modifytime
      BY <1>0, <1>6, <2>2 DEF Stat, Goto, ConfigTypes
    <3>2. ~DbChanging'
      BY <3>1 DEF DbChanging
    <3>3. QED
      BY <1>1, <1>3, <2>1, <3>1, <3>2, DbAside
  <2>3. CASE ~(~forced /\ s_file2modifytime[f] = file[f].mtime)
    <3>1. pc'[Loader] = "read" /\ s_file2modifytime' = [s_file2modifytime EXCEPT ![f] = file[f].mtime]
      BY <1>0, <1>6, <2>3 DEF Stat, Goto, ConfigTypes
    <3>2. file["db"].mtime \in Nat /\ s_file2modifytime \in [Files -> Nat]
      BY <1>0 DEF ConfigTypes
    <3>3. CASE f = "db"
      <4>1. DbChanging' /\ s_file2modifytime'["db"] = file'["db"].mtime
        BY <1>0, <1>1, <2>1, <3>1, <3>2, <3>3 DEF DbChanging
      <4>2. DbFresh'
        BY <1>1, <3>1, <3>2, <4>1 DEF DbFresh
      <4>3. QED
        BY <1>4, <4>2 DEF DbInv
    <3>4. CASE f # "db"
      <4>1. ~DbChanging' /\ s_file2modifytime'["db"] = s_file2modifytime["db"]
        BY <1>0, <2>1, <3>1, <3>2, <3>4 DEF DbChanging
      <4>2. QED
        BY <1>1, <1>3, <2>1, <4>1, DbAside
    <3>5. QED
      BY <3>3, <3>4
  <2>4. QED
    BY <2>2, <2>3
<1>7. CASE ReadFile
  <2> DEFINE x == LexicalCast(at[Loader], file[at[Loader]].content)
  <2>1. /\ pc[Loader] = "read" /\ newv'[Loader] = x /\ pc'[Loader] = (IF x = Nil THEN "next" ELSE "compare")
        /\ UNCHANGED <<at, s_file2modifytime>>
    BY <1>0, <1>7 DEF ReadFile, Goto, loadVars, ConfigTypes
  <2>2. CASE at[Loader] = "db"
    <3>1. x = DbText
      BY <2>2 DEF DbText
    <3> HIDE DEF x
    <3>2. DbChanging' <=> x # Nil
      BY <2>1, <2>2 DEF DbChanging
    <3>3. DbFresh'
      BY <1>1, <1>3, <2>1, <2>2, <3>1, <3>2 DEF DbInv, DbFresh, DbRecorded
    <3>4. QED
      BY <1>4, <3>3 DEF DbInv
  <2>3. CASE at[Loader] # "db"
    <3>1. ~DbChanging /\ ~DbChanging'
      BY <2>1, <2>3 DEF DbChanging
    <3>2. QED
      BY <1>1, <1>3, <2>1, <3>1, DbAside
  <2>4. QED
    BY <2>2, <2>3
<1>8. QED
  BY <1>5, <1>6, <1>7 DEF Loading

\* The loader sets "db".
LEMMA DbSetKeeps ==
  ASSUME ConfigTypes, Locked, DbInv, Setting(Loader), at[Loader] = "db"
  PROVE  DbInv'
<1>0. /\ Loader \in Threads /\ "db" \in Vars /\ Files = Vars
  BY DEF Threads, Files, Vars
<1>1. UNCHANGED <<file, s_file2modifytime, at, newv>> /\ DbChanging
  BY DEF Setting, Compare, Notify, Unlock, Assign, loadVars, DbChanging
<1>2. /\ (DbRecorded' <=> DbRecorded) /\ DbText' = DbText /\ s_file2modifytime'["db"] <= file'["db"].mtime
      /\ (ByFileOnly' <=> ByFileOnly)
  BY <1>1 DEF DbRecorded, DbText, DbInv, DbFresh, ByFileOnly
<1>3. CASE Compare(Loader)
  <2>1. pc[Loader] = "compare" /\ UNCHANGED <<m_val, pool, was>> /\ ~DbTold
    BY <1>3 DEF Compare, logVars, DbTold
  <2>2. CASE Same("db", newv[Loader], m_val["db"]) /\ pc'[Loader] = "next"
    <3>1. ~DbChanging' /\ ~DbTold'
      BY <2>2 DEF DbChanging, DbTold
    <3>2. ByFileOnly /\ DbRecorded => m_val["db"] = DbText
      BY <1>1, <2>1, <2>2 DEF DbInv, DbFresh, Same
    <3>3. QED
      BY <1>2, <2>1, <3>1, <3>2 DEF DbInv, DbFresh, Behind
  <2>3. CASE calls'[Loader] = m_cbs["db"] /\ pc'[Loader] = "notify"
    <3>1. DbChanging' /\ ~DbTold'
      BY <1>1, <2>3 DEF DbChanging, DbTold, ConfigTypes
    <3>2. QED
      BY <1>1, <1>2, <2>1, <3>1 DEF DbInv, DbFresh, Behind
  <2>4. QED
    BY <1>0, <1>3, <2>2, <2>3 DEF Compare, Goto, After, ConfigTypes
<1>4. ASSUME NEW l, Notify(Loader, l)
      PROVE  DbInv'
  <2>1. /\ l \in {"MysqlInit", "other"} /\ pc[Loader] = "notify" /\ UNCHANGED <<pc, m_val, was>>
        /\ calls'[Loader] = calls[Loader] \ {l} /\ DbChanging'
    BY <1>0, <1>1, <1>4 DEF Notify, Locked, ConfigTypes, DbChanging
  <2>2. DbFresh'
    BY <1>1, <1>2, <2>1 DEF DbInv, DbFresh
  <2>3. CASE l = "MysqlInit"
    <3>1. pool' = m_val["db"] /\ DbTold'
      BY <1>1, <1>4, <2>1, <2>3 DEF Notify, DbTold
    <3>2. QED
      BY <2>1, <2>2, <3>1 DEF DbInv, Behind
  <2>4. CASE l = "other"
    <3>1. pool' = pool /\ (DbTold' <=> DbTold)
      BY <1>1, <1>4, <2>1, <2>4 DEF Notify, DbTold, logVars
    <3>2. QED
      BY <1>2, <2>1, <2>2, <3>1 DEF DbInv, Behind
  <2>5. QED
    BY <2>1, <2>3, <2>4
<1>5. CASE Unlock(Loader)
  <2>1. /\ pc[Loader] = "notify" /\ calls[Loader] = {} /\ pc'[Loader] = "assign" /\ UNCHANGED <<m_val, was, pool>>
    BY <1>0, <1>5 DEF Unlock, Goto, ConfigTypes, logVars
  <2>2. DbTold /\ DbTold' /\ DbChanging'
    BY <1>1, <2>1 DEF DbTold, DbChanging
  <2>3. QED
    BY <1>1, <1>2, <2>1, <2>2 DEF DbInv, DbFresh, Behind
<1>6. CASE Assign(Loader)
  <2>1. /\ pc[Loader] = "assign" /\ pc'[Loader] = "next" /\ m_val'["db"] = newv[Loader] /\ was' = m_val["db"]
        /\ UNCHANGED pool
    BY <1>0, <1>6 DEF Assign, Goto, After, ConfigTypes, logVars
  <2>2. DbTold /\ ~DbTold' /\ ~DbChanging'
    BY <1>1, <2>1 DEF DbTold, DbChanging
  <2>3. QED
    BY <1>1, <1>2, <2>1, <2>2 DEF DbInv, DbFresh, Behind
<1>7. QED
  BY <1>3, <1>4, <1>5, <1>6 DEF Setting

\* Every step keeps "db" with its file, and the pool one change behind.
LEMMA DbNext ==
  ASSUME ConfigTypes, Locked, DbInv, [Next]_vars
  PROVE  DbInv'
<1>0. /\ Loader \in Threads /\ Coder \in Threads /\ Loader # Coder /\ "db" \in Vars /\ "logs" \in Vars
      /\ Files = Vars /\ \A t \in Threads : t = Loader \/ t = Coder
  BY ConfigAssumption DEF Threads, Vars, Files
<1>1. CASE UNCHANGED vars \/ addListener("other") \/ delListener("other") \/ Stopped
  <2>1. UNCHANGED DbState
    BY <1>1 DEF addListener, delListener, Stopped, vars, logVars, DbState
  <2>2. QED
    BY <2>1, DbStateKept
<1>2. ASSUME NEW f \in Files, NEW c \in Values(f) \cup {Nil}, Edit(f, c)
      PROVE  DbInv'
  <2>1. /\ file' = [file EXCEPT ![f] = [mtime |-> @.mtime + 1, content |-> c]]
        /\ UNCHANGED <<s_file2modifytime, m_val, pc, at, newv, calls, pool, was>>
    BY <1>2 DEF Edit, logVars
  <2>2. CASE f # "db"
    <3>1. file'["db"] = file["db"]
      BY <1>0, <2>1, <2>2 DEF ConfigTypes
    <3>2. QED
      BY <2>1, <3>1, DbStateKept DEF DbState
  <2>3. CASE f = "db"
    <3>1. file'["db"].mtime = file["db"].mtime + 1 /\ file["db"].mtime \in Nat /\ s_file2modifytime["db"] \in Nat
      BY <2>1, <2>3 DEF ConfigTypes
    <3>2. ~DbRecorded' /\ s_file2modifytime'["db"] <= file'["db"].mtime
      BY <2>1, <3>1 DEF DbInv, DbFresh, DbRecorded
    <3>3. QED
      BY <2>1, <3>2 DEF DbInv, DbFresh, Behind, ByFileOnly, DbTold
  <2>4. QED
    BY <2>2, <2>3
<1>3. ASSUME NEW x \in DbValues, SetByCode(x)
      PROVE  DbInv'
  <2>1. newv'[Coder] # Nil /\ UNCHANGED <<file, s_file2modifytime>>
    BY <1>0, <1>3, ConfigAssumption DEF SetByCode, ConfigTypes
  <2>2. QED
    BY <2>1, DbByCode DEF DbInv, DbFresh
<1>4. ASSUME Setting(Coder)
      PROVE  DbInv'
  <2>1. newv[Coder] # Nil /\ UNCHANGED <<file, s_file2modifytime, newv>>
    BY <1>0, <1>4 DEF Setting, Compare, Notify, Unlock, Assign, loadVars, ConfigTypes
  <2>2. QED
    BY <2>1, DbByCode DEF DbInv, DbFresh
<1>5. ASSUME Setting(Loader), at[Loader] # "db"
      PROVE  DbInv'
  <2>1. UNCHANGED <<file, s_file2modifytime, newv, at, was, pool>>
    <3>1. ASSUME NEW l, Notify(Loader, l)
          PROVE  UNCHANGED <<file, s_file2modifytime, newv, at, was, pool>>
      <4>1. l = "LogIniter"
        BY <1>0, <1>5, <3>1 DEF Notify, ConfigTypes, Locked, Vars
      <4>2. QED
        BY <3>1, <4>1 DEF Notify, loadVars
    <3>2. QED
      BY <1>5, <3>1 DEF Setting, Compare, Unlock, Assign, logVars, loadVars
  <2>2. m_val'["db"] = m_val["db"]
    BY <1>0, <1>5 DEF Setting, Compare, Notify, Unlock, Assign, ConfigTypes
  <2>3. ~DbChanging /\ ~DbChanging' /\ ~DbTold /\ ~DbTold'
    BY <1>5, <2>1 DEF DbChanging, DbTold
  <2>4. QED
    BY <2>1, <2>2, <2>3, DbAside
<1>6. QED
  BY <1>0, <1>1, <1>2, <1>3, <1>4, <1>5, DbLoaderKeeps, DbSetKeeps DEF Next

-----------------------------------------------------------------------------
(* The theorems.                                                           *)

\* Every step of the configuration and of its readers keeps the inductive invariant.
LEMMA NextHolds ==
  ASSUME ConfigInv, [Next]_vars
  PROVE  ConfigInv'
<1>1. ConfigTypes /\ Locked /\ LogInv /\ DbInv
  BY DEF ConfigInv, LogInv, DbInv
<1>2. ConfigTypes' /\ Locked' /\ DbInv'
  BY <1>1, NextTypes, DbNext
<1>3. CASE UNCHANGED vars
  <2>1. UNCHANGED LogState
    BY <1>3 DEF vars, LogState
  <2>2. QED
    BY <1>1, <1>2, <2>1, LogStateKept DEF ConfigInv, LogInv, DbInv
<1>4. ASSUME NEW t \in Threads, Setting(t)
      PROVE  LogInv'
  <2>1. at[t] = "db" \/ (at[t] = "logs" /\ t = Loader)
    BY <1>1 DEF ConfigTypes, Threads, Vars
  <2>2. QED
    BY <1>1, <1>4, <2>1, DbKeeps, LogsKeeps
<1>5. CASE Next
  BY <1>1, <1>2, <1>4, <1>5, EditKeeps, LoaderKeeps, DbKeeps DEF Next, ConfigInv, LogInv, DbInv
<1>6. QED
  BY <1>3, <1>5

\* The inductive invariant holds always.
LEMMA ConfigInvariant == Spec => []ConfigInv
<1>1. ConfigInv /\ [Next]_vars => ConfigInv'
  BY NextHolds
<1>2. QED
  BY <1>1, InitHolds, PTL DEF Spec

\* Whatever the files hold and whenever they are edited: an edit between lstat and the reading of the
\* file is not missed; every logger of the value has the level of its definition and the appenders of
\* the definition it came with, and one that is gone is off, until a changed level meets the null
\* logger; under -d no logger that was configured writes to the terminal; and while no code sets "db",
\* the pool is built with the value before the last one (config.cc:82-93, log.cpp:690-741,
\* mysql_pool.cc:15-17).
THEOREM EditsAreApplied == Spec => []EditsApplied
<1> SUFFICES ASSUME ConfigInv PROVE EditsApplied
  BY ConfigInvariant, PTL
<1>0. "logs" \in Vars /\ "db" \in Vars /\ Loader \in Threads /\ Files = Vars /\ pc[Loader] \in {"idle", "next", "read", "compare", "notify", "assign"}
  BY DEF Vars, Threads, Files, ConfigInv, ConfigTypes
<1>1. TypeOK
  <2>1. DOMAIN m_val["logs"] \subseteq DOMAIN came
    BY DEF ConfigInv, Shaped
  <2>2. QED
    BY <1>0, <2>1 DEF ConfigInv, ConfigTypes, Locked, TypeOK, CanBe, Casts
<1>2. NothingMissed
  <2> SUFFICES ASSUME NEW f \in Files, Settled(f), f = "db" => ByFileOnly, s_file2modifytime[f] = file[f].mtime,
                      LexicalCast(f, file[f].content) # Nil
               PROVE  Same(f, m_val[f], LexicalCast(f, file[f].content))
    BY DEF NothingMissed
  <2>1. CASE f = "logs"
    <3>1. ~Changing
      BY <2>1 DEF Settled, Changing
    <3>2. QED
      BY <2>1, <3>1 DEF ConfigInv, Fresh, Recorded, Text
  <2>2. CASE f = "db"
    <3>1. ~DbChanging
      BY <2>2 DEF Settled, DbChanging
    <3>2. QED
      BY <2>2, <3>1 DEF ConfigInv, DbFresh, DbRecorded, DbText, Same
  <2>3. QED
    BY <2>1, <2>2 DEF Files, Vars
<1>3. LoggersMatch
  <2> SUFFICES ASSUME Settled("logs") PROVE Match(m_val["logs"])
    BY DEF LoggersMatch, Match
  <2>1. ~Changing /\ ~Told
    BY DEF Settled, Changing, Told
  <2>2. QED
    BY <2>1 DEF ConfigInv, Shaped
<1>4. PoolIsBehind
  <2>1. Settled("db") => ~DbTold
    BY DEF Settled, DbTold
  <2>2. QED
    BY <2>1 DEF ConfigInv, Behind, PoolIsBehind
<1>5. FaultIsALevel
  BY DEF ConfigInv, Shaped, FaultIsALevel
<1>6. QED
  BY <1>1, <1>2, <1>3, <1>4, <1>5 DEF ConfigInv, EditsApplied

\* While a setter calls the listeners of a variable, its value is the one they are told is the old one,
\* and the listeners stay the same (config.h:390-398).
THEOREM OldStaysCurrent == Spec => OldIsCurrent
<1> DEFINE Kept == \A t \in Threads : pc[t] = "notify" /\ pc'[t] = "notify" =>
                     m_val'[at[t]] = m_val[at[t]] /\ m_cbs'[at[t]] = m_cbs[at[t]]
<1>1. ASSUME ConfigInv, [Next]_vars
      PROVE  [Kept]_vars
  <2> SUFFICES ASSUME Next, NEW t \in Threads, pc[t] = "notify", pc'[t] = "notify"
               PROVE  m_val'[at[t]] = m_val[at[t]] /\ m_cbs'[at[t]] = m_cbs[at[t]]
    BY <1>1
  <2>1. /\ t \in readers[at[t]] /\ at[t] \in Vars /\ m_cbs \in [Vars -> SUBSET Listeners]
        /\ m_val = [v \in Vars |-> m_val[v]] /\ "db" \in Vars
    BY <1>1 DEF ConfigInv, Locked, ConfigTypes, Vars
  <2>2. m_val'[at[t]] = m_val[at[t]]
    <3>1. ASSUME NEW u \in Threads, Assign(u)
          PROVE  m_val'[at[t]] = m_val[at[t]]
      <4>1. readers[at[u]] = {} /\ m_val' = [m_val EXCEPT ![at[u]] = newv[u]]
        BY <3>1 DEF Assign, CanWrite
      <4>2. at[u] # at[t]
        BY <2>1, <4>1
      <4>3. m_val' = [v \in Vars |-> IF v = at[u] THEN newv[u] ELSE m_val[v]]
        BY <2>1, <4>1
      <4>4. QED
        BY <2>1, <4>2, <4>3
    <3>2. CASE UNCHANGED m_val
      BY <3>2
    <3>3. QED
      BY <3>1, <3>2 DEF Next, Edit, Load, Loading, LoadDone, ReadFile, Stat, Setting, Compare, Notify, Unlock,
                        SetByCode, addListener, delListener, Stopped, vars
  <2>3. m_cbs'[at[t]] = m_cbs[at[t]]
    <3>1. CASE addListener("other") \/ delListener("other")
      <4>1. at[t] # "db"
        BY <2>1, <3>1 DEF addListener, delListener, CanWrite
      <4>2. QED
        BY <2>1, <3>1, <4>1 DEF addListener, delListener
    <3>2. CASE UNCHANGED m_cbs
      BY <3>2
    <3>3. QED
      BY <3>1, <3>2 DEF Next, Edit, Load, Loading, LoadDone, ReadFile, Stat, Setting, Compare, Notify, Unlock, Assign,
                        SetByCode, Stopped, vars
  <2>4. QED
    BY <2>2, <2>3
<1>2. QED
  BY <1>1, ConfigInvariant, PTL DEF Spec, OldIsCurrent
=============================================================================
