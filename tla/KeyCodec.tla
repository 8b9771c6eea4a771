------------------------------ MODULE KeyCodec ------------------------------
(***************************************************************************)
(* How keys become the byte strings that the tree compares, and how many   *)
(* of them a node has room for: the conversions of DB_node.cpp and         *)
(* DB_btree.cpp and DbFile::calculateT().  A byte string is a sequence of  *)
(* numbers below Base.                                                     *)
(***************************************************************************)
EXTENDS Integers, Sequences

CONSTANTS
  Base,        \* 2^8: the values of a byte
  MaxString,   \* MAX_STRING_KEY_SIZE, 255: the bytes of a string key in a node
  HeaderSize,  \* sizeof(NodeHeader), 20
  BlockSizes,  \* the sizes that BLOCK_SIZE, 4096, may be given
  KeySizes     \* the sizes of keys in a node: 4 and MaxString

ASSUME BaseAssumption == Base \in Nat /\ Base > 1
ASSUME StringAssumption == MaxString \in Nat \ {0}
ASSUME SizesAssumption ==
  HeaderSize \in Nat /\ BlockSizes \subseteq Nat /\ KeySizes \subseteq Nat \ {0}

-----------------------------------------------------------------------------
\* The values of a uint32_t, 2^32, and the constant 0x80000000.
Words == Base * (Base * (Base * Base))
Half == (Base \div 2) * (Base * (Base * Base))

\* The values of an int32_t.
Ints == (-Half)..(Words - Half - 1)

\* static_cast<int32_t> of any integer.
Cast32(k) == IF k % Words < Words - Half THEN k % Words ELSE (k % Words) - Words

Byte == 0..(Base - 1)
Low(u) == u % Base
Shift(u) == u \div Base

Biased(key) == (key + Half) % Words

intKeyToString(key) ==
  LET u == Biased(key)
  IN  <<Low(Shift(Shift(Shift(u)))), Low(Shift(Shift(u))), Low(Shift(u)), Low(u)>>

Joined(s) == (Base * ((Base * ((Base * s[1]) + s[2])) + s[3])) + s[4]

stringKeyToInt(s) == Cast32(Joined(s) - Half)

-----------------------------------------------------------------------------
\* Mutants: one byte more or one less is kept than a node has room for.
CutLate(key) == IF Len(key) > MaxString THEN SubSeq(key, 1, MaxString) ELSE key
CutEarly(key) ==
  IF Len(key) >= MaxString - 1 THEN SubSeq(key, 1, MaxString - 2) ELSE key

keyToString(key) ==
  IF Len(key) >= MaxString THEN SubSeq(key, 1, MaxString - 1) ELSE key

\* The bytes of a string key in its node, filled up with zeros.
serialized(key) ==
  [i \in 1..MaxString |-> IF i \in DOMAIN key /\ i < MaxString THEN key[i] ELSE 0]

\* strnlen: the bytes before the first zero.
Length(bytes) ==
  CHOOSE n \in 0..MaxString :
    /\ \A i \in 1..n : bytes[i] # 0
    /\ n < MaxString => bytes[n + 1] = 0

deserialized(bytes) == SubSeq(bytes, 1, Length(bytes))

\* The order of std::string, which findKey() and the searches use.
Before(s, t) ==
  \E i \in 1..Len(t) :
    /\ i <= Len(s) + 1
    /\ \A j \in 1..(i - 1) : s[j] = t[j]
    /\ i <= Len(s) => s[i] < t[i]

-----------------------------------------------------------------------------
\* A key takes its size, four bytes of value and eight of child.
Room(available, key_size) == (available - 8) \div (key_size + 12)

calculateT(block_size, key_size) ==
  LET available == block_size - HeaderSize
      most == Room(available, key_size)
      max_keys == IF most % 2 = 0 THEN most - 1 ELSE most
  IN  IF available <= 8 \/ most < 3 THEN 0 ELSE (max_keys + 1) \div 2

\* What Node::serialize() writes for a node of degree t.
NodeSize(t, key_size) ==
  HeaderSize + (8 * (2 * t)) + (4 * ((2 * t) - 1)) + (key_size * ((2 * t) - 1))

-----------------------------------------------------------------------------
(* The tree's order of integer keys is that of the integers, negative ones *)
(* included.                                                               *)
KeysInOrder ==
  \A j, k \in Ints : Before(intKeyToString(j), intKeyToString(k)) <=> j < k

(* A key that goes to disk in a node comes back as it was, so that a tree  *)
(* which has been closed is searched with the keys it was built with.      *)
IntsComeBack == \A k \in Ints : stringKeyToInt(intKeyToString(k)) = k

StringsComeBack(keys) ==
  \A s \in keys : deserialized(serialized(keyToString(s))) = keyToString(s)

(* A full node of the degree that calculateT() chooses fits into a block,  *)
(* and the degree is one that a tree can have.                             *)
NodeFits ==
  \A b \in BlockSizes, k \in KeySizes :
    LET t == calculateT(b, k)
    IN  t # 0 => t >= 2 /\ NodeSize(t, k) <= b
=============================================================================
