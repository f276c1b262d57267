----------------------------- MODULE BitmapSet ------------------------------
(* BitmapSet of bitmap_set.ixx: a set of byte offsets, one bit per block of  *)
(* BlockSize bytes.  A value has the positions of the ones in its words and  *)
(* the member count that is kept beside them.  The words grow as needed and  *)
(* are zero at first, so their number makes no difference.                   *)
EXTENDS Integers, FiniteSets, FiniteSetsExt

CONSTANTS BlockSize,     \* bytes
          kBitsPerWord

ASSUME BlockAssumption ==
    /\ BlockSize \in Nat \ {0}
    /\ kBitsPerWord \in Nat \ {0}

EmptyBitmapSet == [bits |-> {}, size |-> 0]

\* Ones that are already there are not counted again.
InsertBits(set, bits) ==
    [bits |-> set.bits \cup bits,
     size |-> set.size + Cardinality(bits \ set.bits)]

\* The ones of [first, last), a word at a time: the first under first_mask,
\* the last under last_mask, the words between them whole.
InsertRange(set, first, last) ==
    LET first_bit == first \div BlockSize
        last_bit == last \div BlockSize - 1
        first_word == first_bit \div kBitsPerWord
        last_word == last_bit \div kBitsPerWord
        bits == {b \in first_word * kBitsPerWord ..
                           (last_word + 1) * kBitsPerWord - 1 :
                    /\ b \div kBitsPerWord = first_word =>
                           b % kBitsPerWord >= first_bit % kBitsPerWord
                    /\ b \div kBitsPerWord = last_word =>
                           b % kBitsPerWord <= last_bit % kBitsPerWord}
    IN  IF first = last THEN set ELSE InsertBits(set, bits)

\* What merge makes of the set; the source is left with what was in both.
Merge(set, source) ==
    IF source.size = 0 THEN set
    ELSE InsertBits(set, source.bits)

=============================================================================
