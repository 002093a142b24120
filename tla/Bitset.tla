------------------------------- MODULE Bitset -------------------------------
(***************************************************************************)
(* The bitset of src/bitset.rs.  A word of W bits is the set of its set    *)
(* bits, so that bitwise or is union and bitwise xor symmetric difference; *)
(* a bitset is a function from chunk numbers to words.                     *)
(***************************************************************************)
EXTENDS Naturals, FiniteSets

CONSTANT W   \* the width of a word: 64 in the code

ASSUME WidthAssumption == W \in Nat \ {0}

Word == SUBSET (0..(W - 1))

(* The chunks of a bitset for n bits, and all such bitsets. *)
Chunks(n)  == 0..((n + W - 1) \div W - 1)
Bitsets(n) == [Chunks(n) -> Word]

New(n) == [c \in Chunks(n) |-> {}]

Major(pos) == pos \div W
Minor(pos) == pos % W

Set(B, pos)   == [B EXCEPT ![Major(pos)] = @ \cup {Minor(pos)}]
Clear(B, pos) == [B EXCEPT ![Major(pos)] = @ \ {Minor(pos)}]

(* The positions whose bit is set. *)
Members(B) == { p \in 0..(W * Cardinality(DOMAIN B)) :
                  Major(p) \in DOMAIN B /\ Minor(p) \in B[Major(p)] }

Popcnt(B) == Cardinality(Members(B))

Xor(u, v) == (u \ v) \cup (v \ u)

(* The word that holds the number n. *)
AsWord(n) == { b \in 0..(W - 1) : (n \div 2^b) % 2 = 1 }

(* The xor of all chunks. *)
XorChunks(B) ==
  { b \in 0..(W - 1) : Cardinality({ c \in DOMAIN B : b \in B[c] }) % 2 = 1 }

Hash(B) == Xor(AsWord(Popcnt(B)), XorChunks(B))

(* hash_with_bit: what stands for the hash of Set(B, pos). *)
HashWithBit(B, pos) ==
  LET old_word == B[Major(pos)]
      new_word == old_word \cup {Minor(pos)}
  IN  Xor(Xor(Xor(Hash(B), old_word), new_word), AsWord(1))

EqWithoutBit(B, pos, other) == B = other                  \* mutant

(* eq_with_bit: whether Set(B, pos) equals other. *)
EqWithBit(B, pos, other) ==
  /\ DOMAIN B = DOMAIN other
  /\ \A c \in DOMAIN B :
       (IF c = Major(pos) THEN B[c] \cup {Minor(pos)} ELSE B[c]) = other[c]
=============================================================================
