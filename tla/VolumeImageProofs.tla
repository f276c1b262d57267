------------------------- MODULE VolumeImageProofs --------------------------
(***************************************************************************)
(* Proofs about the image of a volume, for every geometry: all sizes of    *)
(* the volume, its clusters, blocks, chunks and words.                     *)
(*                                                                         *)
(* ReadPath: for every bitmap, a Read gives the bytes of the image and the *)
(* known-data map is exact.  The proof goes from the word-wise searches in *)
(* the bitmap over the loops that use them to the callback.                *)
(*                                                                         *)
(* IncrementalBackup: the dirty map has every chunk with a byte that may   *)
(* differ from the previous backup.  The proof goes from the loops that    *)
(* collect blocks to what the stores of the snapshots hold.                *)
(***************************************************************************)
EXTENDS ReadPath, IncrementalBackup, FiniteSetTheorems, WellFoundedInduction,
        TLAPS

-----------------------------------------------------------------------------
(* Numbers.                                                                *)

\* A non-empty set of naturals has a least element, and Min chooses it.
LEMMA NatMin == ASSUME NEW S \in SUBSET Nat, S # {}
  PROVE Min(S) \in S /\ \A y \in S : Min(S) <= y
  <1> DEFINE R == OpToRel(<, Nat)
  <1>0. R = {ss \in Nat \X Nat : ss[1] < ss[2]}
    BY DEF OpToRel
  <1>a. IsWellFoundedOn(R, Nat)
    BY NatLessThanWellFounded
  <1> HIDE DEF R
  <1>1. PICK x \in S : \A y \in S : ~(<<y,x>> \in R)
    BY <1>a, WFMin
  <1>2. \A y \in S : x <= y
    <2> TAKE y \in S
    <2>1. <<y, x>> \in Nat \X Nat
      OBVIOUS
    <2>2. <<y,x>>[1] = y /\ <<y,x>>[2] = x
      OBVIOUS
    <2>3. ~(<<y,x>>[1] < <<y,x>>[2])
      BY <1>1, <1>0, <2>1
    <2> QED BY <2>2, <2>3
  <1> QED BY <1>2 DEF Min

\* Quotient and remainder.
LEMMA DivMod == ASSUME NEW a \in Nat, NEW d \in Nat \ {0}
  PROVE /\ a \div d \in Nat
        /\ a % d \in 0 .. d - 1
        /\ a = d * (a \div d) + (a % d)
OBVIOUS

\* They are unique.
LEMMA DivUnique ==
  ASSUME NEW d \in Nat \ {0}, NEW q \in Int, NEW r \in 0 .. d - 1
  PROVE (d * q + r) \div d = q /\ (d * q + r) % d = r
OBVIOUS

\* Multiplication is monotonic.
LEMMA MulMono == ASSUME NEW d \in Nat, NEW x \in Int, NEW y \in Int, x <= y
  PROVE d * x <= d * y
OBVIOUS

\* A quotient is compared with q by comparing the dividend with d * q.
LEMMA DivRange == ASSUME NEW d \in Nat \ {0}, NEW a \in Nat, NEW q \in Nat
  PROVE /\ q <= a \div d <=> d * q <= a
        /\ a \div d < q <=> a < d * q
OBVIOUS

\* Multiples of d are at least d apart.
LEMMA MultipleGap ==
  ASSUME NEW d \in Nat \ {0}, NEW a \in Nat, NEW b \in Nat,
         a % d = 0, b % d = 0, a < b
  PROVE  a + d <= b
  <1> DEFINE p == a \div d
             q == b \div d
  <1>1. p \in Nat /\ q \in Nat /\ a = d * p /\ b = d * q
    BY DivMod
  <1>2. p + 1 <= q
    BY <1>1, MulMono
  <1> HIDE DEF p, q
  <1>3. d * (p + 1) <= d * q
    BY <1>1, <1>2, MulMono
  <1> QED BY <1>1, <1>3

\* Numbers are ordered by their quotients, then by their remainders.
LEMMA Lexicographic ==
  ASSUME NEW d \in Nat \ {0}, NEW x \in Nat, NEW y \in Nat
  PROVE  x <= y <=> \/ x \div d < y \div d
                    \/ x \div d = y \div d /\ x % d <= y % d
  <1> DEFINE p == x \div d
             q == y \div d
             r == x % d
             s == y % d
  <1>1. /\ p \in Nat /\ q \in Nat /\ r \in 0 .. d - 1 /\ s \in 0 .. d - 1
        /\ x = d * p + r /\ y = d * q + s
    BY DivMod
  <1> HIDE DEF p, q, r, s
  <1>2. p < q => d * (p + 1) <= d * q
    BY <1>1, MulMono
  <1>3. q < p => d * (q + 1) <= d * p
    BY <1>1, MulMono
  <1>4. x <= y <=> p < q \/ (p = q /\ r <= s)
    BY <1>1, <1>2, <1>3
  <1> QED BY <1>4 DEF p, q, r, s

\* Every number is in a word that begins at a multiple of d.
LEMMA BaseOf ==
  ASSUME NEW d \in Nat \ {0}, NEW c \in Nat
  PROVE  /\ c - (c % d) \in Nat
         /\ (c - (c % d)) % d = 0
         /\ c % d \in 0 .. d - 1
OBVIOUS

\* MarkClustersFree, with its masks for the first and the last byte, clears the
\* bits of the range and no others.
LEMMA MarkClustersFreeIs ==
  ASSUME NEW bits \in SUBSET StorageBits, NEW first \in Nat,
         NEW limit \in Nat, first < limit
  PROVE  MarkClustersFree(bits, first, limit) = bits \ (first .. limit - 1)
  <1> USE WidthAssumption
  <1> DEFINE last == limit - 1
             Cleared(b) ==
                /\ b \div ByteBits \in
                       first \div ByteBits .. last \div ByteBits
                /\ b \div ByteBits = first \div ByteBits =>
                       b % ByteBits >= first % ByteBits
                /\ b \div ByteBits = last \div ByteBits =>
                       b % ByteBits <= last % ByteBits
  <1>1. ASSUME NEW b \in Nat
        PROVE  Cleared(b) <=> first <= b /\ b <= last
    <2>1. last \in Nat
      OBVIOUS
    <2>2. first <= b <=> \/ first \div ByteBits < b \div ByteBits
                         \/ /\ first \div ByteBits = b \div ByteBits
                            /\ first % ByteBits <= b % ByteBits
      BY Lexicographic
    <2>3. b <= last <=> \/ b \div ByteBits < last \div ByteBits
                        \/ /\ b \div ByteBits = last \div ByteBits
                           /\ b % ByteBits <= last % ByteBits
      BY <2>1, Lexicographic
    <2>4. /\ b \div ByteBits \in Nat /\ first \div ByteBits \in Nat
          /\ last \div ByteBits \in Nat
          /\ b % ByteBits \in Nat /\ first % ByteBits \in Nat
          /\ last % ByteBits \in Nat
      BY <2>1, DivMod
    <2> HIDE DEF last
    <2> QED BY <2>2, <2>3, <2>4
  <1>2. \A b \in bits : Cleared(b) <=> b \in first .. last
    BY <1>1 DEF StorageBits
  <1>3. MarkClustersFree(bits, first, limit) = {b \in bits : ~Cleared(b)}
    BY DEF MarkClustersFree
  <1> QED BY <1>2, <1>3

-----------------------------------------------------------------------------
(* Searches in the allocation bitmap.                                      *)

\* r is the first cluster of [first, limit) that is, or is not, allocated.
IsFirst(allocated, bits, first, limit, r) ==
    /\ r \in first .. limit
    /\ \A c \in first .. r - 1 : c \in bits <=> ~allocated
    /\ r < limit => (r \in bits <=> allocated)

\* The ones of a word ^ nonmatching_word.
LEMMA MatchingBitsAre ==
  ASSUME NEW allocated \in BOOLEAN, NEW bits, NEW begin
  PROVE  MatchingBits(allocated, bits, begin) =
             {b \in 0 .. WordBits - 1 : begin + b \in bits <=> allocated}
BY DEF MatchingBits, LoadBitmapWord, WordMask

\* The word-wise search is right, for every word size and every range: the
\* masks of the first and the last word and the search of the words between
\* them leave no cluster out and take none from outside of the range.
LEMMA FindClusterIs ==
  ASSUME NEW allocated \in BOOLEAN, NEW bits \in SUBSET Nat,
         NEW first \in Nat, NEW limit \in Nat, first < limit
  PROVE  IsFirst(allocated, bits, first, limit,
                 FindCluster(allocated, bits, first, limit))
  <1> DEFINE W == WordBits
             Matching(begin) == MatchingBits(allocated, bits, begin)
             first_bit == first % W
             first_word == first - first_bit
             first_matching == {b \in Matching(first_word) : b >= first_bit}
             in_range == {b \in first_matching : b < limit - first_word}
             word_limit == limit - (limit % W)
             words == {w \in first_word + W .. word_limit - 1 :
                          w % W = 0 /\ Matching(w) # {}}
             final_matching == {b \in Matching(word_limit) :
                                   b < limit - word_limit}
             FoundIn(begin, matching) ==
                 IF matching = {} THEN limit ELSE begin + Min(matching)
             Result == IF limit - first <= W - first_bit
                       THEN FoundIn(first_word, in_range)
                       ELSE IF first_matching # {}
                            THEN FoundIn(first_word, first_matching)
                       ELSE IF words # {}
                            THEN FoundIn(Min(words), Matching(Min(words)))
                       ELSE FoundIn(word_limit, final_matching)
             Matches(c) == c \in bits <=> allocated
             First(r) == /\ r \in first .. limit
                         /\ \A c \in first .. r - 1 : ~Matches(c)
                         /\ r < limit => Matches(r)
  <1>1. FindCluster(allocated, bits, first, limit) = Result
    BY DEF FindCluster
  <1>2. SUFFICES First(Result)
    BY <1>1, Zenon DEF IsFirst
  <1>w. W \in Nat \ {0}
    BY WidthAssumption
  <1> HIDE DEF W
  <1>3. /\ first_word \in Nat /\ word_limit \in Nat
        /\ first_word % W = 0 /\ word_limit % W = 0
        /\ first_bit \in 0 .. W - 1
        /\ limit - word_limit \in 0 .. W - 1
        /\ first = first_word + first_bit
    <2>1. /\ first - (first % W) \in Nat /\ (first - (first % W)) % W = 0
          /\ first % W \in 0 .. W - 1
      BY <1>w, BaseOf
    <2>2. /\ limit - (limit % W) \in Nat /\ (limit - (limit % W)) % W = 0
          /\ limit % W \in 0 .. W - 1
      BY <1>w, BaseOf
    <2>3. /\ first_word \in Nat /\ first_word % W = 0
          /\ first_bit \in 0 .. W - 1
      BY <2>1
    <2>4. /\ word_limit \in Nat /\ word_limit % W = 0
      BY <2>2
    <2>5. limit - word_limit = limit % W
      BY <2>2
    <2>6. first = first_word + first_bit
      BY <2>1
    <2> QED BY <2>2, <2>3, <2>4, <2>5, <2>6
  <1>4. \A begin \in Nat : \A b :
           b \in Matching(begin) <=> b \in 0 .. W - 1 /\ Matches(begin + b)
    BY MatchingBitsAre DEF W
  <1> HIDE DEF Matching, first_bit, first_word, word_limit, Result, Matches
  \* A cluster beyond the first word is in the word of its base.
  <1>5. ASSUME NEW c \in Nat, first_word + W <= c, c < limit
        PROVE  \E w \in Nat : /\ w % W = 0 /\ c - w \in 0 .. W - 1
                              /\ first_word + W <= w
                              /\ w < word_limit \/ w = word_limit
    <2> DEFINE w == c - (c % W)
    <2>1. w \in Nat /\ w % W = 0 /\ c - w \in 0 .. W - 1
      <3>1. w \in Nat /\ w % W = 0 /\ c % W \in 0 .. W - 1
        BY <1>w, BaseOf
      <3>2. c - w = c % W
        BY <3>1
      <3> QED BY <3>1, <3>2
    <2> HIDE DEF w
    <2>2. first_word + W <= w
      <3>1. first_word < w
        BY <2>1, <1>w, <1>3, <1>5
      <3> QED BY <3>1, <2>1, <1>w, <1>3, MultipleGap
    <2>3. w <= word_limit
      <3>1. word_limit < w => word_limit + W <= w
        BY <2>1, <1>w, <1>3, MultipleGap
      <3> QED BY <3>1, <2>1, <1>w, <1>3, <1>5
    <2>4. w \in Nat
      BY <2>1
    <2> WITNESS w \in Nat
    <2> QED BY <2>1, <2>2, <2>3, <1>3
  \* What a word yields: the lowest of its matching bits, if no cluster before
  \* the word matches.
  <1>7. ASSUME NEW begin \in Nat, NEW X \in SUBSET Nat,
               \A b \in X : /\ begin + b \in first .. limit - 1
                            /\ Matches(begin + b),
               \A c \in first .. limit - 1 :
                  Matches(c) => \E b \in X : begin + b <= c
        PROVE  First(FoundIn(begin, X))
    <2>1. CASE X = {}
      BY <1>7, <2>1
    <2>2. CASE X # {}
      <3> DEFINE m == Min(X)
      <3>1. m \in X /\ \A b \in X : m <= b
        BY <2>2, NatMin
      <3>2. FoundIn(begin, X) = begin + m
        BY <2>2
      <3> HIDE DEF m
      <3>3. /\ begin + m \in first .. limit - 1
            /\ Matches(begin + m)
        BY <3>1, <1>7
      <3>4. ASSUME NEW c \in first .. (begin + m) - 1
            PROVE  ~Matches(c)
        <4>1. SUFFICES ASSUME Matches(c) PROVE FALSE
          OBVIOUS
        <4>2. PICK b \in X : begin + b <= c
          BY <4>1, <3>3, <1>7
        <4> QED BY <4>2, <3>1, <3>3
      <3>5. First(begin + m)
        <4>1. begin + m \in first .. limit
          BY <3>3
        <4>2. \A c \in first .. (begin + m) - 1 : ~Matches(c)
          BY <3>4
        <4> QED BY <4>1, <4>2, <3>3
      <3> QED BY <3>2, <3>5
    <2> QED BY <2>1, <2>2
  <1> HIDE DEF First, FoundIn
  \* The matching bits of the first word.
  <1>8. ASSUME NEW c \in first .. limit - 1, Matches(c), c < first_word + W
        PROVE  /\ c - first_word \in first_matching
               /\ first_word + (c - first_word) = c
    <2>1. c - first_word \in 0 .. W - 1 /\ c - first_word >= first_bit
      BY <1>8, <1>3, <1>w
    <2>2. first_word + (c - first_word) = c
      BY <1>3
    <2>3. c - first_word \in Matching(first_word)
      BY <2>1, <2>2, <1>8, <1>4, <1>3
    <2> QED BY <2>1, <2>2, <2>3
  <1>9. \A b \in first_matching :
           b \in Nat /\ first <= first_word + b /\ Matches(first_word + b)
           /\ first_word + b < first_word + W
    BY <1>3, <1>4, <1>w
  <1> HIDE DEF first_matching
  <1>10. CASE limit - first <= W - first_bit
    <2>1. Result = FoundIn(first_word, in_range)
      BY <1>10 DEF Result
    <2>2. in_range \in SUBSET Nat
      BY <1>9
    <2>3. \A b \in in_range : /\ first_word + b \in first .. limit - 1
                              /\ Matches(first_word + b)
      BY <1>9, <1>3
    <2>4. ASSUME NEW c \in first .. limit - 1, Matches(c)
          PROVE  \E b \in in_range : first_word + b <= c
      <3>1. c < first_word + W
        BY <1>10, <1>3, <1>w
      <3>2. c - first_word \in in_range
        BY <3>1, <2>4, <1>8, <1>3
      <3> QED BY <3>1, <3>2, <2>4, <1>8, <1>3
    <2> QED BY <2>1, <2>2, <2>3, <2>4, <1>7, <1>3
  <1> SUFFICES ASSUME first_word + W < limit
               PROVE  First(Result)
    BY <1>10, <1>3, <1>w
  <1>11. ~(limit - first <= W - first_bit)
    BY <1>3, <1>w
  <1>12. CASE first_matching # {}
    <2>1. Result = FoundIn(first_word, first_matching)
      BY <1>11, <1>12 DEF Result
    <2>2. first_matching \in SUBSET Nat
      BY <1>9
    <2>3. \A b \in first_matching : /\ first_word + b \in first .. limit - 1
                                    /\ Matches(first_word + b)
      BY <1>9, <1>3, <1>w
    <2>4. ASSUME NEW c \in first .. limit - 1, Matches(c)
          PROVE  \E b \in first_matching : first_word + b <= c
      <3>1. CASE c < first_word + W
        BY <3>1, <2>4, <1>8
      <3>2. CASE first_word + W <= c
        BY <3>2, <1>12, <1>9, <1>3, <1>w
      <3> QED BY <3>1, <3>2, <1>3, <1>w
    <2> QED BY <2>1, <2>2, <2>3, <2>4, <1>7, <1>3
  <1> SUFFICES ASSUME first_matching = {}
               PROVE  First(Result)
    BY <1>12
  \* Nothing is in the first word.
  <1>13. ASSUME NEW c \in first .. limit - 1, Matches(c)
         PROVE  \E w \in Nat : /\ w % W = 0 /\ c - w \in Matching(w)
                               /\ first_word + W <= w
                               /\ w < word_limit \/ w = word_limit
                               /\ w + (c - w) = c
    <2>1. c \in Nat /\ first_word + W <= c /\ c < limit
      BY <1>13, <1>8, <1>3, <1>w
    <2>2. PICK w \in Nat : /\ w % W = 0 /\ c - w \in 0 .. W - 1
                           /\ first_word + W <= w
                           /\ w < word_limit \/ w = word_limit
      BY <2>1, <1>5
    <2>3. w + (c - w) = c
      OBVIOUS
    <2>4. c - w \in Matching(w)
      BY <2>2, <2>3, <1>13, <1>4
    <2> QED BY <2>2, <2>3, <2>4
  <1>14. CASE words # {}
    <2> DEFINE w1 == Min(words)
    <2>1. words \in SUBSET Nat
      BY <1>3, <1>w
    <2>2. w1 \in words /\ \A w \in words : w1 <= w
      BY <1>14, <2>1, NatMin
    <2>3. Result = FoundIn(w1, Matching(w1))
      BY <1>11, <1>14 DEF Result
    <2> HIDE DEF w1
    <2>4. /\ w1 \in Nat /\ first_word + W <= w1 /\ w1 < word_limit
          /\ w1 % W = 0 /\ Matching(w1) # {}
      BY <2>2, <1>3, <1>w
    <2>5. w1 + W <= limit
      <3>1. w1 + W <= word_limit
        BY <2>4, <1>3, <1>w, MultipleGap
      <3> QED BY <3>1, <2>4, <1>3, <1>w
    <2>6. Matching(w1) \in SUBSET Nat
      BY <1>4, <2>4, <1>w
    <2>7. \A b \in Matching(w1) : /\ w1 + b \in first .. limit - 1
                                  /\ Matches(w1 + b)
      BY <1>4, <2>4, <2>5, <1>w, <1>3
    <2>8. ASSUME NEW c \in first .. limit - 1, Matches(c)
          PROVE  \E b \in Matching(w1) : w1 + b <= c
      <3>1. PICK w \in Nat : /\ w % W = 0 /\ c - w \in Matching(w)
                             /\ first_word + W <= w
                             /\ w < word_limit \/ w = word_limit
                             /\ w + (c - w) = c
        BY <2>8, <1>13
      <3>2. c - w \in 0 .. W - 1
        BY <3>1, <1>4
      <3>3. CASE w = w1
        BY <3>1, <3>2, <3>3
      <3>4. CASE w # w1
        <4>1. w1 < w
          BY <3>1, <3>4, <2>2, <2>4, <1>3, <1>w
        <4>2. w1 + W <= w
          BY <4>1, <3>1, <2>4, <1>w, MultipleGap
        <4>3. PICK b \in Matching(w1) : TRUE
          BY <2>4
        <4>4. b \in 0 .. W - 1
          BY <1>4, <2>4
        <4> QED BY <4>2, <4>3, <4>4, <3>2, <2>4, <1>w
      <3> QED BY <3>3, <3>4
    <2> QED BY <2>3, <2>4, <2>6, <2>7, <2>8, <1>7
  <1>15. CASE words = {}
    <2>1. Result = FoundIn(word_limit, final_matching)
      BY <1>11, <1>15 DEF Result
    <2>2. final_matching \in SUBSET Nat
      BY <1>4, <1>3, <1>w
    <2>3. first_word + W <= word_limit
      <3>1. first_word < word_limit
        BY <1>3, <1>w
      <3> QED BY <3>1, <1>3, <1>w, MultipleGap
    <2>4. \A b \in final_matching : /\ word_limit + b \in first .. limit - 1
                                    /\ Matches(word_limit + b)
      BY <2>3, <1>4, <1>3, <1>w
    <2>5. ASSUME NEW c \in first .. limit - 1, Matches(c)
          PROVE  \E b \in final_matching : word_limit + b <= c
      <3>1. PICK w \in Nat : /\ w % W = 0 /\ c - w \in Matching(w)
                             /\ first_word + W <= w
                             /\ w < word_limit \/ w = word_limit
                             /\ w + (c - w) = c
        BY <2>5, <1>13
      <3>2. w < word_limit => w \in words
        BY <3>1, <1>3, <1>w
      <3>3. w = word_limit
        BY <3>1, <3>2, <1>15
      <3>4. c - word_limit \in final_matching
        BY <3>1, <3>3, <1>3
      <3> QED BY <3>1, <3>3, <3>4
    <2> QED BY <2>1, <2>2, <2>4, <2>5, <1>7, <1>3
  <1> QED BY <1>14, <1>15

\* Min and Max of two numbers.
LEMMA MinMaxOfTwo ==
  ASSUME NEW a \in Int, NEW b \in Int
  PROVE  /\ Min({a, b}) = IF a <= b THEN a ELSE b
         /\ Max({a, b}) = IF a <= b THEN b ELSE a
BY DEF Min, Max

\* HasAllocatedClusters is true exactly if a byte of the range is in an
\* allocated cluster or beyond the clusters of the volume.
LEMMA HasAllocatedClustersIs ==
  ASSUME NEW bits \in SUBSET Nat, NEW offset \in Nat, NEW length \in Nat \ {0}
  PROVE  HasAllocatedClusters(bits, offset, length) <=>
            \E p \in offset .. offset + length - 1 :
               \/ p \div ClusterSize >= ClusterCount
               \/ p \div ClusterSize \in bits
  <1> DEFINE C == ClusterSize
             end == offset + (length - 1)
             first == offset \div C
             last == end \div C
             found == FindCluster(TRUE, bits, first, last + 1)
  <1>1. C \in Nat \ {0} /\ end \in Nat /\ offset <= end
        /\ ClusterCount \in Nat
    BY ClusterAssumption
  <1> HIDE DEF C, end
  <1>2. first \in Nat /\ last \in Nat
    BY <1>1, DivMod
  <1>3. \A p \in offset .. end : p \div C \in first .. last
    <2> TAKE p \in offset .. end
    <2>1. p \in Nat /\ p \div C \in Nat
      BY <1>1, DivMod
    <2>2. offset <= p <=> \/ first < p \div C
                          \/ first = p \div C /\ offset % C <= p % C
      BY <1>1, <2>1, Lexicographic
    <2>3. p <= end <=> \/ p \div C < last
                       \/ p \div C = last /\ p % C <= end % C
      BY <1>1, <2>1, Lexicographic
    <2> QED BY <2>1, <2>2, <2>3, <1>1, <1>2
  <1>4. ASSUME NEW c \in first .. last
        PROVE  \E p \in offset .. end : p \div C = c
    <2>0. c \in Nat
      BY <1>2
    <2>1. CASE offset <= C * c
      <3>1. (C * c) \div C = c
        <4>1. (C * c + 0) \div C = c
          BY <1>1, <2>0, DivUnique
        <4> QED BY <4>1, <1>1, <2>0
      <3>2. C * c <= end
        BY <1>1, <1>2, <2>0, DivRange
      <3>3. C * c \in Int
        BY <1>1, <2>0
      <3> QED BY <3>1, <3>2, <3>3, <2>1
    <2>2. CASE C * c < offset
      <3>1. c <= first
        BY <1>1, <1>2, <2>0, <2>2, DivRange
      <3> QED BY <3>1, <1>1, <1>2
    <2> QED BY <2>1, <2>2, <1>1, <2>0
  <1>5. IsFirst(TRUE, bits, first, last + 1, found)
    <2>1. first < last + 1
      BY <1>1, <1>2, <1>3
    <2>2. last + 1 \in Nat
      BY <1>2
    <2> HIDE DEF first, last
    <2> QED BY <2>1, <2>2, <1>2, FindClusterIs
  <1>6. HasAllocatedClusters(bits, offset, length) <=>
           last >= ClusterCount \/ found # last + 1
    BY DEF HasAllocatedClusters, C, end
  <1> HIDE DEF found, first, last
  <1>7. found # last + 1 <=> \E c \in first .. last : c \in bits
    BY <1>5, <1>2 DEF IsFirst
  <1>8. last >= ClusterCount <=> \E c \in first .. last : c >= ClusterCount
    <2>1. end \div C \in first .. last
      BY <1>1, <1>3
    <2> QED BY <2>1, <1>2, <1>1 DEF last
  <1>9. (\E c \in first .. last : c >= ClusterCount \/ c \in bits) <=>
        (\E p \in offset .. end :
            p \div C >= ClusterCount \/ p \div C \in bits)
    BY <1>3, <1>4
  <1>10. offset + length - 1 = end
    BY DEF end
  <1> QED BY <1>6, <1>7, <1>8, <1>9, <1>10 DEF C

\* The bytes of [offset, end) in the free clusters of [cluster, limit).
FreeBytes(bits, offset, end, limit, cluster) ==
    {p \in offset .. end - 1 : /\ p \div ClusterSize \in cluster .. limit - 1
                               /\ p \div ClusterSize \notin bits}

\* The loop over the runs of free clusters clears the bytes of all free
\* clusters and no others.  The function of those bytes satisfies the
\* recursive definition, and by induction no other function does.
LEMMA ClearedFromIs ==
  ASSUME NEW bits \in SUBSET Nat, NEW offset \in Nat, NEW end \in Nat,
         NEW limit \in 0 .. ClusterCount, NEW cluster \in 0 .. ClusterCount
  PROVE  ClearedFrom(bits, offset, end, limit)[cluster] =
             FreeBytes(bits, offset, end, limit, cluster)
  <1> DEFINE Gap(c) == FindCluster(FALSE, bits, c, limit)
             NextOf(c) == FindCluster(TRUE, bits, Gap(c), limit)
             Run(c) == Max({offset, Gap(c) * ClusterSize}) ..
                          Min({end, NextOf(c) * ClusterSize}) - 1
             Body(g, c) == IF c >= limit THEN {}
                           ELSE IF Gap(c) = limit THEN {}
                           ELSE Run(c) \cup g[NextOf(c)]
             Bytes(c) == FreeBytes(bits, offset, end, limit, c)
             G == [c \in 0 .. ClusterCount |-> Bytes(c)]
             Cleared == ClearedFrom(bits, offset, end, limit)
  <1>0. ClusterSize \in Nat \ {0} /\ ClusterCount \in Nat /\ limit \in Nat
    BY ClusterAssumption
  <1>1. Cleared = CHOOSE g : g = [c \in 0 .. ClusterCount |-> Body(g, c)]
    BY DEF ClearedFrom
  <1>2. ASSUME NEW c \in 0 .. limit - 1
        PROVE  IsFirst(FALSE, bits, c, limit, Gap(c))
    <2>1. c \in Nat /\ c < limit
      BY <1>0
    <2> QED BY <2>1, <1>0, FindClusterIs
  <1>3. ASSUME NEW c \in 0 .. limit - 1, Gap(c) # limit
        PROVE  /\ IsFirst(TRUE, bits, Gap(c), limit, NextOf(c))
               /\ Gap(c) < NextOf(c)
    <2> HIDE DEF Gap
    <2>1. Gap(c) \in Nat /\ Gap(c) < limit /\ Gap(c) \notin bits
      BY <1>0, <1>2, <1>3 DEF IsFirst
    <2>2. IsFirst(TRUE, bits, Gap(c), limit, NextOf(c))
      BY <2>1, <1>0, FindClusterIs
    <2> HIDE DEF NextOf
    <2> QED BY <2>1, <2>2, <1>0 DEF IsFirst
  <1> HIDE DEF Gap, NextOf, Cleared
  <1>4. ASSUME NEW c \in 0 .. limit - 1, Gap(c) # limit, NEW p
        PROVE  p \in Run(c) <=> /\ p \in offset .. end - 1
                                /\ p \div ClusterSize \in
                                       Gap(c) .. NextOf(c) - 1
    <2>1. /\ Gap(c) \in Nat /\ NextOf(c) \in Nat
      BY <1>0, <1>2, <1>3, <1>4 DEF IsFirst
    <2>2. /\ Gap(c) * ClusterSize \in Nat /\ NextOf(c) * ClusterSize \in Nat
          /\ Gap(c) * ClusterSize = ClusterSize * Gap(c)
          /\ NextOf(c) * ClusterSize = ClusterSize * NextOf(c)
      BY <2>1, <1>0
    <2>3. p \in Run(c) <=>
             /\ p \in offset .. end - 1
             /\ Gap(c) * ClusterSize <= p /\ p < NextOf(c) * ClusterSize
      <3> DEFINE a == Gap(c) * ClusterSize
                 b == NextOf(c) * ClusterSize
      <3>1. a \in Nat /\ b \in Nat
        BY <2>2
      <3>2. Run(c) = Max({offset, a}) .. Min({end, b}) - 1
        OBVIOUS
      <3> HIDE DEF a, b, Run
      <3>3. /\ Max({offset, a}) = IF offset <= a THEN a ELSE offset
            /\ Min({end, b}) = IF end <= b THEN end ELSE b
        <4>1. offset \in Int /\ end \in Int /\ a \in Int /\ b \in Int
          BY <3>1
        <4> QED BY <4>1, MinMaxOfTwo
      <3>4. p \in Run(c) <=> p \in offset .. end - 1 /\ a <= p /\ p < b
        BY <3>1, <3>2, <3>3
      <3> QED BY <3>4 DEF a, b
    <2>4. ASSUME p \in Nat
          PROVE  /\ Gap(c) * ClusterSize <= p <=>
                       Gap(c) <= p \div ClusterSize
                 /\ p < NextOf(c) * ClusterSize <=>
                       p \div ClusterSize < NextOf(c)
                 /\ p \div ClusterSize \in Nat
      BY <2>1, <2>2, <2>4, <1>0, DivRange, DivMod
    <2> HIDE DEF Run
    <2>5. p \in offset .. end - 1 => p \in Nat
      OBVIOUS
    <2> QED BY <2>1, <2>3, <2>4, <2>5
  <1> HIDE DEF Run
  <1>5. ASSUME NEW c \in 0 .. ClusterCount
        PROVE  Bytes(c) = Body(G, c)
    <2>1. CASE c >= limit
      BY <2>1, <1>0 DEF FreeBytes
    <2>2. CASE c < limit /\ Gap(c) = limit
      <3>1. \A d \in c .. limit - 1 : d \in bits
        BY <2>2, <1>2, <1>0 DEF IsFirst
      <3>2. Bytes(c) = {}
        BY <3>1 DEF FreeBytes
      <3> QED BY <3>2, <2>2, <1>0
    <2>3. CASE c < limit /\ Gap(c) # limit
      <3>0. c \in 0 .. limit - 1
        BY <2>3, <1>0
      <3>1. /\ Gap(c) \in c .. limit - 1 /\ NextOf(c) \in Gap(c) + 1 .. limit
            /\ \A d \in c .. Gap(c) - 1 : d \in bits
            /\ \A d \in Gap(c) .. NextOf(c) - 1 : d \notin bits
        BY <3>0, <2>3, <1>2, <1>3, <1>0 DEF IsFirst
      <3>2. /\ NextOf(c) \in 0 .. ClusterCount /\ NextOf(c) \in Nat
            /\ Gap(c) \in Nat
        BY <3>1, <3>0, <1>0
      <3>3. Body(G, c) = Run(c) \cup Bytes(NextOf(c))
        BY <3>2, <2>3, <1>0
      <3>4. \A p : p \in Bytes(c) <=> p \in Run(c) \/ p \in Bytes(NextOf(c))
        <4> TAKE p
        <4>1. p \in offset .. end - 1 => p \div ClusterSize \in Nat
          BY <1>0, DivMod
        <4>2. p \in Run(c) <=> /\ p \in offset .. end - 1
                               /\ p \div ClusterSize \in
                                      Gap(c) .. NextOf(c) - 1
          BY <3>0, <2>3, <1>4
        <4> QED BY <4>1, <4>2, <3>0, <3>1, <3>2, <1>0 DEF FreeBytes
      <3> QED BY <3>3, <3>4
    <2> QED BY <2>1, <2>2, <2>3, <1>0
  <1>6. G = [c \in 0 .. ClusterCount |-> Body(G, c)]
    BY <1>5
  <1>7. Cleared = [c \in 0 .. ClusterCount |-> Body(Cleared, c)]
    <2> HIDE DEF G, Body
    <2> QED BY <1>1, <1>6, Zenon
  <1> HIDE DEF G
  <1>8. \A c \in 0 .. ClusterCount : Cleared[c] = G[c]
    <2> DEFINE T == {k \in 0 .. ClusterCount :
                        Cleared[ClusterCount - k] # G[ClusterCount - k]}
    <2>1. SUFFICES ASSUME T # {} PROVE FALSE
      <3>1. ASSUME NEW c \in 0 .. ClusterCount, T = {}
            PROVE  Cleared[c] = G[c]
        <4>1. ClusterCount - c \in 0 .. ClusterCount
              /\ ClusterCount - (ClusterCount - c) = c
          BY <1>0
        <4> QED BY <4>1, <3>1
      <3> QED BY <3>1
    <2>2. T \in SUBSET Nat
      BY <1>0
    <2>3. PICK k \in T : \A j \in T : k <= j
      BY <2>1, <2>2, NatMin
    <2> DEFINE c == ClusterCount - k
    <2>4. c \in 0 .. ClusterCount /\ Cleared[c] # G[c]
      BY <1>0
    <2>5. \A d \in c + 1 .. ClusterCount : Cleared[d] = G[d]
      <3> TAKE d \in c + 1 .. ClusterCount
      <3>1. ClusterCount - d \in 0 .. ClusterCount /\ ClusterCount - d < k
            /\ ClusterCount - (ClusterCount - d) = d
        BY <1>0
      <3> QED BY <3>1, <2>3, <2>2
    <2> HIDE DEF c
    <2>6. c < limit /\ Gap(c) # limit => NextOf(c) \in c + 1 .. ClusterCount
      BY <1>2, <1>3, <1>0, <2>4 DEF IsFirst
    <2>7. Body(Cleared, c) = Body(G, c)
      <3>1. CASE c >= limit
        BY <3>1
      <3>2. CASE c < limit /\ Gap(c) = limit
        BY <3>2
      <3>3. CASE c < limit /\ Gap(c) # limit
        BY <3>3, <2>5, <2>6
      <3> QED BY <3>1, <3>2, <3>3, <2>4, <1>0
    <2> HIDE DEF Body
    <2>8. Cleared[c] = Body(Cleared, c) /\ G[c] = Body(G, c)
      BY <2>4, <1>6, <1>7
    <2> QED BY <2>4, <2>7, <2>8
  <1> QED BY <1>8 DEF G, Cleared

\* n bytes of output, with those of free clusters cleared.
Synthesized(bits, output, offset, n) ==
    [i \in 0 .. n - 1 |->
        IF (offset + i) \div ClusterSize \in (0 .. ClusterCount - 1) \ bits
        THEN 0 ELSE output[i]]

\* SynthesizeFreeClusters clears exactly the bytes of free clusters.
LEMMA SynthesizeFreeClustersIs ==
  ASSUME NEW bits \in SUBSET Nat, NEW offset \in Nat, NEW n \in Nat \ {0},
         NEW output, DOMAIN output = 0 .. n - 1
  PROVE  SynthesizeFreeClusters(bits, output, offset) =
             Synthesized(bits, output, offset, n)
  <1> DEFINE C == ClusterSize
             end == offset + n
             last == (end - 1) \div C
             limit == Min({ClusterCount, last + 1})
             first == offset \div C
             cleared == IF first < limit
                        THEN ClearedFrom(bits, offset, end, limit)[first]
                        ELSE {}
  <1>1. Cardinality(DOMAIN output) = n
    <2>1. Cardinality(0 .. n - 1) = n
      BY FS_Interval
    <2> QED BY <2>1
  <1>2. SynthesizeFreeClusters(bits, output, offset) =
           [i \in 0 .. n - 1 |->
              IF offset + i \in cleared THEN 0 ELSE output[i]]
    BY <1>1 DEF SynthesizeFreeClusters
  <1>3. /\ C \in Nat \ {0} /\ ClusterCount \in Nat
        /\ end \in Nat /\ end - 1 \in Nat
        /\ offset <= end - 1
    BY ClusterAssumption
  <1> HIDE DEF C, end
  <1>4. first \in Nat /\ last \in Nat
    BY <1>3, DivMod
  <1> HIDE DEF first, last
  <1>5. limit = IF ClusterCount <= last + 1 THEN ClusterCount ELSE last + 1
    <2>1. last + 1 \in Int /\ ClusterCount \in Int
      BY <1>3, <1>4
    <2> QED BY <2>1, MinMaxOfTwo
  <1> HIDE DEF limit
  <1>6. limit \in 0 .. ClusterCount
    BY <1>3, <1>4, <1>5
  <1>7. ASSUME NEW p \in offset .. end - 1
        PROVE  p \div C \in first .. last
    <2>0. p \in Nat
      BY <1>3
    <2>1. p \in Nat /\ p \div C \in Nat
      BY <2>0, <1>3, DivMod
    <2>2. C * first <= p
      <3>1. C * first <= offset
        BY <1>3, <1>4, DivRange DEF first
      <3> QED BY <3>1, <1>3, <1>4, <2>1
    <2>3. p < C * (last + 1)
      <3>1. last + 1 \in Nat /\ last < last + 1
        BY <1>4
      <3>2. end - 1 < C * (last + 1)
        BY <3>1, <1>3, DivRange DEF last
      <3> QED BY <3>1, <3>2, <1>3, <2>1
    <2> QED BY <2>1, <2>2, <2>3, <1>3, <1>4, DivRange
  <1>8. ASSUME NEW p \in offset .. end - 1
        PROVE  p \in cleared <=> p \div C \in (0 .. ClusterCount - 1) \ bits
    <2>1. p \div C \in first .. last /\ p \div C \in Nat
      BY <1>7, <1>4
    <2>2. CASE first < limit
      <3>1. first \in 0 .. ClusterCount
        BY <2>2, <1>3, <1>4, <1>5
      <3>2. cleared = FreeBytes(bits, offset, end, limit, first)
        BY <2>2, <3>1, <1>3, <1>6, ClearedFromIs
      <3> QED BY <3>2, <2>1, <1>3, <1>4, <1>5 DEF FreeBytes, C
    <2>3. CASE ~(first < limit)
      BY <2>3, <2>1, <1>3, <1>4, <1>5
    <2> QED BY <2>2, <2>3
  <1> HIDE DEF cleared
  <1>9. ASSUME NEW i \in 0 .. n - 1
        PROVE  offset + i \in offset .. end - 1
    BY DEF end
  <1> QED BY <1>2, <1>8, <1>9 DEF C, Synthesized

-----------------------------------------------------------------------------
(* The known-data map.                                                     *)

\* Division that rounds up.
LEMMA CeilDivIs ==
  ASSUME NEW a \in Nat, NEW d \in Nat \ {0}
  PROVE  /\ CeilDiv(a, d) \in Nat
         /\ \A q \in Nat : q < CeilDiv(a, d) <=> d * q < a
  <1> DEFINE k == a \div d
             r == a % d
  <1>1. k \in Nat /\ r \in 0 .. d - 1 /\ a = d * k + r
    BY DivMod
  <1>2. CeilDiv(a, d) = k + (IF r = 0 THEN 0 ELSE 1)
    BY DEF CeilDiv
  <1> HIDE DEF k, r
  <1>3. ASSUME NEW q \in Nat
        PROVE  q < CeilDiv(a, d) <=> d * q < a
    <2>1. q <= k => d * q <= d * k
      BY <1>1, MulMono
    <2>2. k + 1 <= q => d * (k + 1) <= d * q
      BY <1>1, MulMono
    <2>3. q + 1 <= k => d * (q + 1) <= d * k
      BY <1>1, MulMono
    <2>4. d * (k + 1) = d * k + d /\ d * (q + 1) = d * q + d
          /\ d * k \in Nat /\ d * q \in Nat
      BY <1>1
    <2> QED BY <1>1, <1>2, <2>1, <2>2, <2>3, <2>4
  <1> QED BY <1>1, <1>2, <1>3

\* A byte of the image that is not made up.
HasData(bits, p) == \/ p \div ClusterSize >= ClusterCount
                    \/ p \div ClusterSize \in bits

\* The bytes of a chunk.
ChunkBytes(chunk) == chunk * ChunkSize ..
                         Min({(chunk + 1) * ChunkSize, Length}) - 1

\* A chunk of the map has at least one byte, and they end with the device.
LEMMA ChunkRange ==
  ASSUME NEW chunk \in 0 .. Chunks - 1
  PROVE  LET n == Min({ChunkSize, Length - chunk * ChunkSize})
         IN  /\ chunk * ChunkSize \in Nat /\ n \in Nat \ {0}
             /\ ChunkBytes(chunk) =
                   chunk * ChunkSize .. chunk * ChunkSize + n - 1
  <1> DEFINE b == chunk * ChunkSize
             n == Min({ChunkSize, Length - b})
             e == Min({(chunk + 1) * ChunkSize, Length})
  <1>1. /\ ChunkSize \in Nat \ {0} /\ Length \in Nat
        /\ Chunks \in Nat /\ chunk \in Nat
    BY DeviceAssumption, CeilDivIs DEF Chunks
  <1>2. b \in Nat /\ b < Length /\ (chunk + 1) * ChunkSize = b + ChunkSize
    <2>1. ChunkSize * chunk < Length
      BY <1>1, CeilDivIs DEF Chunks
    <2> QED BY <2>1, <1>1
  <1>3. n = IF ChunkSize <= Length - b THEN ChunkSize ELSE Length - b
    <2>1. ChunkSize \in Int /\ Length - b \in Int
      BY <1>1, <1>2
    <2> QED BY <2>1, MinMaxOfTwo
  <1>4. e = IF b + ChunkSize <= Length THEN b + ChunkSize ELSE Length
    <2>1. b + ChunkSize \in Int /\ Length \in Int
      BY <1>1, <1>2
    <2> HIDE DEF b
    <2> QED BY <2>1, <1>2, MinMaxOfTwo
  <1>5. ChunkBytes(chunk) = b .. e - 1
    BY DEF ChunkBytes
  <1> HIDE DEF b, n, e
  <1>6. n \in Nat \ {0} /\ b + n - 1 = e - 1
    BY <1>1, <1>2, <1>3, <1>4
  <1>7. b \in Nat /\ n \in Nat \ {0} /\ ChunkBytes(chunk) = b .. b + n - 1
    BY <1>2, <1>5, <1>6
  <1> QED BY <1>7 DEF b, n

\* The plain computation sets the bit of a chunk exactly if it has data.
LEMMA KnownDataMapByChunkIs ==
  ASSUME NEW bits \in SUBSET Nat, NEW chunk \in 0 .. Chunks - 1
  PROVE  chunk \in KnownDataMapByChunk(bits) <=>
            \E p \in ChunkBytes(chunk) : HasData(bits, p)
  <1> DEFINE b == chunk * ChunkSize
             n == Min({ChunkSize, Length - b})
  <1>1. b \in Nat /\ n \in Nat \ {0} /\ ChunkBytes(chunk) = b .. b + n - 1
    BY ChunkRange
  <1>2. chunk \in KnownDataMapByChunk(bits) <=>
           HasAllocatedClusters(bits, b, n)
    BY DEF KnownDataMapByChunk
  <1> HIDE DEF b, n
  <1> QED BY <1>1, <1>2, HasAllocatedClustersIs DEF HasData

\* A chunk is ratio clusters, and these are whole bytes of the bitmap.
LEMMA RatioIs ==
  LET ratio == ChunkSize \div ClusterSize
  IN  /\ ratio \in Nat \ {0} /\ ChunkSize = ClusterSize * ratio
      /\ \E k \in Nat \ {0} : ratio = ByteBits * k
  <1> DEFINE unit == ClusterSize * ByteBits
             k == ChunkSize \div unit
  <1>1. /\ ClusterSize \in Nat \ {0} /\ ByteBits \in Nat \ {0}
        /\ ChunkSize \in Nat \ {0} /\ unit \in Nat \ {0}
        /\ ChunkSize % unit = 0
    BY ClusterAssumption, WidthAssumption, DeviceAssumption
  <1> HIDE DEF unit
  <1>2. k \in Nat /\ ChunkSize = unit * k + 0
    BY <1>1, DivMod
  <1> HIDE DEF k
  <1>3. k # 0
    BY <1>1, <1>2
  <1>4. ChunkSize = ClusterSize * (ByteBits * k) + 0
    BY <1>1, <1>2 DEF unit
  <1>5. ByteBits * k \in Nat \ {0}
    BY <1>1, <1>2, <1>3
  <1> DEFINE m == ByteBits * k
  <1>6. m \in Nat \ {0} /\ ChunkSize = ClusterSize * m + 0
    BY <1>4, <1>5
  <1> HIDE DEF m
  <1>7. ChunkSize \div ClusterSize = m
    BY <1>1, <1>6, DivUnique
  <1>8. k \in Nat \ {0}
    BY <1>2, <1>3
  <1> QED BY <1>1, <1>6, <1>7, <1>8 DEF m

\* The map has a bit for every chunk.
LEMMA MapCoversChunks ==
  /\ Chunks \in Nat /\ MapBytes * ByteBits \in Nat
  /\ Chunks <= MapBytes * ByteBits
  <1>1. ChunkSize \in Nat \ {0} /\ Length \in Nat /\ ByteBits \in Nat \ {0}
    BY WidthAssumption, DeviceAssumption
  <1>2. Chunks \in Nat
    BY <1>1, CeilDivIs DEF Chunks
  <1>3. MapBytes \in Nat
    BY <1>1, <1>2, CeilDivIs DEF MapBytes
  <1>4. ~(ByteBits * MapBytes < Chunks)
    <2>1. MapBytes < MapBytes <=> ByteBits * MapBytes < Chunks
      BY <1>1, <1>2, <1>3, CeilDivIs DEF MapBytes
    <2> QED BY <2>1, <1>3
  <1> QED BY <1>1, <1>2, <1>3, <1>4

\* A chunk that the bitmap covers has data exactly if one of its clusters is
\* allocated.
LEMMA CompleteChunk ==
  ASSUME NEW bits \in SUBSET Nat, NEW chunk \in 0 .. Chunks - 1,
         NEW ratio, ratio = ChunkSize \div ClusterSize,
         chunk < ClusterCount \div ratio
  PROVE  chunk \in ReduceBitmap(bits, ratio) <=>
            \E p \in ChunkBytes(chunk) : HasData(bits, p)
  <1> DEFINE C == ClusterSize
             N == ClusterCount
  <1>1. /\ C \in Nat \ {0} /\ N \in Nat /\ Length \in Nat /\ chunk \in Nat
        /\ ratio \in Nat \ {0} /\ ChunkSize = C * ratio /\ C * N <= Length
    BY ClusterAssumption, DeviceAssumption, RatioIs, MapCoversChunks
  <1> HIDE DEF C, N
  <1> DEFINE n == ratio * chunk
             m == ratio * (chunk + 1)
  <1>2. /\ n \in Nat /\ m \in Nat /\ chunk * ChunkSize = C * n
        /\ (chunk + 1) * ChunkSize = C * m
    BY <1>1
  <1>3. m <= N
    <2>1. N \div ratio \in Nat
      BY <1>1, DivMod
    <2>2. chunk + 1 <= N \div ratio
      BY <2>1, <1>1 DEF N
    <2> QED BY <2>2, <1>1, DivRange
  <1>4. \A c \in Nat : c \div ratio = chunk <=> n <= c /\ c < m
    <2> TAKE c \in Nat
    <2>1. c \div ratio \in Nat
      BY <1>1, DivMod
    <2>2. chunk <= c \div ratio <=> n <= c
      BY <1>1, DivRange
    <2>3. c \div ratio < chunk + 1 <=> c < m
      <3>1. chunk + 1 \in Nat
        BY <1>1
      <3> QED BY <3>1, <1>1, DivRange
    <2> QED BY <2>1, <2>2, <2>3, <1>1
  <1>5. ChunkBytes(chunk) = C * n .. C * m - 1
    <2>1. C * m <= Length
      <3>1. C * m <= C * N
        BY <1>1, <1>2, <1>3, MulMono
      <3> QED BY <3>1, <1>1, <1>2
    <2>2. C * m \in Int /\ Length \in Int
      BY <1>1, <1>2
    <2> HIDE DEF m
    <2>3. Min({C * m, Length}) = C * m
      BY <2>1, <2>2, MinMaxOfTwo
    <2> QED BY <2>3, <1>2 DEF ChunkBytes
  <1> HIDE DEF n, m
  <1>6. \A p \in C * n .. C * m - 1 : p \div C \in n .. m - 1
    <2> TAKE p \in C * n .. C * m - 1
    <2>1. p \in Nat
      BY <1>1, <1>2
    <2>2. p \div C \in Nat
      BY <2>1, <1>1, DivMod
    <2>3. C * n <= p /\ p < C * m
      BY <2>1, <1>1, <1>2
    <2>4. n <= p \div C /\ p \div C < m
      BY <2>1, <2>3, <1>1, <1>2, DivRange
    <2> QED BY <2>2, <2>4, <1>2
  <1>7. \A c \in n .. m - 1 :
           C * c \in C * n .. C * m - 1 /\ (C * c) \div C = c
    <2> TAKE c \in n .. m - 1
    <2>1. c \in Nat
      BY <1>2
    <2>2. (C * c + 0) \div C = c
      BY <2>1, <1>1, DivUnique
    <2>3. C * c \in Nat /\ C * c + 0 = C * c
      BY <2>1, <1>1
    <2>4. C * n <= C * c
      BY <2>1, <1>1, <1>2, MulMono
    <2>5. C * c < C * m
      BY <2>1, <2>2, <2>3, <1>1, <1>2, DivRange
    <2> QED BY <2>2, <2>3, <2>4, <2>5, <1>1, <1>2
  <1>8. chunk \in ReduceBitmap(bits, ratio) <=>
           \E c \in n .. m - 1 : c \in bits
    BY <1>2, <1>4 DEF ReduceBitmap
  <1>9. (\E p \in C * n .. C * m - 1 : HasData(bits, p)) <=>
           \E c \in n .. m - 1 : c \in bits
    <2>1. ASSUME NEW p \in C * n .. C * m - 1, HasData(bits, p)
          PROVE  \E c \in n .. m - 1 : c \in bits
      <3>1. p \div C \in n .. m - 1
        BY <1>6
      <3>2. ~(p \div C >= N)
        BY <3>1, <1>1, <1>2, <1>3
      <3>3. p \div C \in bits
        BY <3>2, <2>1 DEF HasData, C, N
      <3> QED BY <3>1, <3>3
    <2>2. ASSUME NEW c \in n .. m - 1, c \in bits
          PROVE  \E p \in C * n .. C * m - 1 : HasData(bits, p)
      <3>1. C * c \in C * n .. C * m - 1 /\ (C * c) \div C = c
        BY <1>7
      <3>2. HasData(bits, C * c)
        BY <3>1, <2>2 DEF HasData, C
      <3> QED BY <3>1, <3>2
    <2> QED BY <2>1, <2>2
  <1> QED BY <1>5, <1>8, <1>9

\* The vectorised computation gives every chunk the bit that the plain one
\* does.
LEMMA KnownDataMapUsingSimdIs ==
  ASSUME NEW bits \in SUBSET StorageBits, NEW chunk \in 0 .. Chunks - 1
  PROVE  chunk \in KnownDataMapUsingSimd(bits) <=>
            \E p \in ChunkBytes(chunk) : HasData(bits, p)
  <1> DEFINE ratio == ChunkSize \div ClusterSize
             complete == ClusterCount \div ratio
             b == complete * ChunkSize
             n == Min({ChunkSize, Length - b})
             later == complete .. MapBytes * ByteBits - 1
             reduced == ReduceBitmap(bits, ratio)
             Last == HasAllocatedClusters(bits, b, n)
             HasOne == \E p \in ChunkBytes(chunk) : HasData(bits, p)
  <1>1. /\ ratio \in Nat \ {0} /\ ChunkSize = ClusterSize * ratio
        /\ ClusterSize \in Nat \ {0} /\ ClusterCount \in Nat
        /\ chunk \in Nat /\ bits \in SUBSET Nat
    BY RatioIs, ClusterAssumption, MapCoversChunks DEF StorageBits
  <1>2. chunk \in KnownDataMapUsingSimd(bits) <=>
           IF complete >= Chunks THEN chunk \in reduced
           ELSE \/ chunk \in reduced /\ chunk < complete
                \/ chunk \in (IF Last THEN later ELSE later \ {complete})
    BY Zenon DEF KnownDataMapUsingSimd
  <1> HIDE DEF ratio
  <1>3. complete \in Nat
    BY <1>1, DivMod
  <1>4. chunk < complete => (chunk \in reduced <=> HasOne)
    BY <1>1, CompleteChunk DEF ratio
  <1>5. chunk \in 0 .. MapBytes * ByteBits - 1
    BY MapCoversChunks
  <1>6. chunk = complete => (Last <=> HasOne)
    <2> SUFFICES ASSUME chunk = complete PROVE Last <=> HasOne
      OBVIOUS
    <2>1. b \in Nat /\ n \in Nat \ {0} /\ ChunkBytes(chunk) = b .. b + n - 1
      BY ChunkRange
    <2> HIDE DEF b, n
    <2> QED BY <2>1, <1>1, HasAllocatedClustersIs DEF HasData
  <1>7. chunk > complete => HasOne
    <2> SUFFICES ASSUME chunk > complete PROVE HasOne
      OBVIOUS
    <2> DEFINE p == chunk * ChunkSize
    <2>1. p \in Nat /\ p \in ChunkBytes(chunk)
      <3> DEFINE k == Min({ChunkSize, Length - p})
      <3>1. p \in Nat /\ k \in Nat \ {0} /\ ChunkBytes(chunk) = p .. p + k - 1
        BY ChunkRange
      <3> HIDE DEF p, k
      <3> QED BY <3>1
    <2>2. ClusterCount <= ratio * chunk
      <3>1. ClusterCount \div ratio < chunk
        BY <1>1, <1>3
      <3>2. ClusterCount < ratio * chunk
        BY <3>1, <1>1, DivRange
      <3> QED BY <3>2, <1>1
    <2>3. ClusterSize * ClusterCount <= p
      <3>1. ratio * chunk \in Int
        BY <1>1
      <3>2. ClusterSize * ClusterCount <= ClusterSize * (ratio * chunk)
        BY <3>1, <2>2, <1>1, MulMono
      <3>3. ClusterSize * (ratio * chunk) = p
        BY <1>1
      <3> QED BY <3>2, <3>3
    <2> HIDE DEF p
    <2>4. ClusterCount <= p \div ClusterSize
      BY <2>1, <2>3, <1>1, DivRange
    <2>5. HasData(bits, p)
      BY <2>4, <2>1, <1>1, DivMod DEF HasData
    <2> QED BY <2>1, <2>5
  <1> HIDE DEF HasOne, Last, complete, reduced
  <1>8. chunk \in KnownDataMapUsingSimd(bits) <=> HasOne
    BY <1>1, <1>2, <1>3, <1>4, <1>5, <1>6, <1>7, MapCoversChunks
  <1> QED BY <1>8 DEF HasOne

\* Neither computation sets a bit that the file does not have.
LEMMA KnownDataMapType ==
  ASSUME NEW bits \in SUBSET StorageBits
  PROVE  /\ KnownDataMapByChunk(bits) \subseteq 0 .. MapBytes * ByteBits - 1
         /\ KnownDataMapUsingSimd(bits) \subseteq 0 .. MapBytes * ByteBits - 1
  <1> DEFINE ratio == ChunkSize \div ClusterSize
             complete == ClusterCount \div ratio
             reduced == ReduceBitmap(bits, ratio)
             later == complete .. MapBytes * ByteBits - 1
             top == MapBytes * ByteBits
  <1>1. KnownDataMapByChunk(bits) \subseteq 0 .. top - 1
    BY MapCoversChunks DEF KnownDataMapByChunk
  <1>2. PICK k \in Nat \ {0} : ratio = ByteBits * k
    BY RatioIs
  <1>3. /\ ratio \in Nat \ {0} /\ ChunkSize = ClusterSize * ratio
        /\ ClusterSize \in Nat \ {0} /\ ClusterCount \in Nat
        /\ ByteBits \in Nat \ {0} /\ Length \in Nat /\ ChunkSize \in Nat \ {0}
        /\ ClusterSize * ClusterCount <= Length
        /\ Chunks \in Nat /\ top \in Nat /\ Chunks <= top
        /\ bits \in SUBSET Nat
    BY RatioIs, ClusterAssumption, WidthAssumption, DeviceAssumption,
       MapCoversChunks DEF StorageBits
  <1>4. \/ /\ complete >= Chunks
           /\ KnownDataMapUsingSimd(bits) = reduced
        \/ /\ ~(complete >= Chunks)
           /\ KnownDataMapUsingSimd(bits) \subseteq
                 {chunk \in reduced : chunk < complete} \cup later
    BY DEF KnownDataMapUsingSimd
  <1> HIDE DEF ratio, top
  <1>5. complete \in Nat
    BY <1>3, DivMod
  <1>6. reduced \subseteq Nat
    <2> SUFFICES ASSUME NEW x \in reduced PROVE x \in Nat
      OBVIOUS
    <2>1. PICK c \in bits : x = c \div ratio
      BY DEF ReduceBitmap
    <2>2. c \in Nat
      BY <1>3
    <2> QED BY <2>1, <2>2, <1>3, DivMod
  <1>7. ASSUME complete >= Chunks, NEW c \in bits
        PROVE  c \div ratio < Chunks
    <2>1. ~(Chunks < CeilDiv(Length, ChunkSize))
      BY <1>3 DEF Chunks
    <2>2. Length <= ChunkSize * Chunks
      <3>1. ~(ChunkSize * Chunks < Length)
        BY <2>1, <1>3, CeilDivIs
      <3> QED BY <3>1, <1>3
    <2> DEFINE m == k * Chunks
    <2>3. m \in Nat /\ ByteBits * m = ratio * Chunks
          /\ ClusterSize * (ByteBits * m) = ChunkSize * Chunks
      BY <1>2, <1>3
    <2>4. ~(ByteBits * m < ClusterCount)
      <3> DEFINE x == ByteBits * m
      <3>0. x \in Nat
        BY <2>3, <1>3
      <3> HIDE DEF m, x
      <3>1. SUFFICES ASSUME x < ClusterCount PROVE FALSE
        BY DEF x
      <3>2. ClusterSize * (x + 1) <= ClusterSize * ClusterCount
        BY <3>0, <3>1, <1>3, MulMono
      <3>3. ClusterSize * x = ChunkSize * Chunks
        BY <2>3 DEF x
      <3>4. ClusterSize * (x + 1) = ClusterSize * x + ClusterSize
        BY <3>0, <1>3
      <3>5. ClusterSize * x \in Int /\ ClusterSize * ClusterCount \in Int
        BY <3>0, <1>3
      <3> QED BY <3>2, <3>3, <3>4, <3>5, <2>2, <1>3
    <2> HIDE DEF m
    <2>5. BitmapByteCount \in Nat /\ BitmapByteCount <= m
      <3>1. BitmapByteCount \in Nat
        BY <1>3, CeilDivIs DEF BitmapByteCount
      <3>2. ~(m < BitmapByteCount)
        BY <2>3, <2>4, <1>3, CeilDivIs DEF BitmapByteCount
      <3> QED BY <3>1, <3>2, <2>3
    <2>6. ByteBits * BitmapByteCount <= ByteBits * m
      BY <2>3, <2>5, <1>3, MulMono
    <2>7. c \in Nat /\ c < BitmapByteCount * ByteBits
      BY <2>5, <1>3 DEF StorageBits
    <2>8. BitmapByteCount * ByteBits = ByteBits * BitmapByteCount
          /\ ByteBits * BitmapByteCount \in Int
      BY <2>5, <1>3
    <2>9. c < ratio * Chunks
      BY <2>3, <2>6, <2>7, <2>8, <1>3
    <2> QED BY <2>7, <2>9, <1>3, DivRange
  <1>8. complete >= Chunks => reduced \subseteq 0 .. top - 1
    <2> SUFFICES ASSUME complete >= Chunks, NEW x \in reduced
                 PROVE  x \in 0 .. top - 1
      OBVIOUS
    <2>1. PICK c \in bits : x = c \div ratio
      BY DEF ReduceBitmap
    <2>2. x < Chunks
      BY <2>1, <1>7
    <2> QED BY <2>2, <1>3, <1>6
  <1> HIDE DEF complete, reduced
  <1>9. KnownDataMapUsingSimd(bits) \subseteq 0 .. top - 1
    <2>1. CASE complete >= Chunks
      BY <2>1, <1>4, <1>8
    <2>2. CASE ~(complete >= Chunks)
      <3>1. KnownDataMapUsingSimd(bits) \subseteq
                 {chunk \in reduced : chunk < complete} \cup later
        BY <2>2, <1>4
      <3>2. {chunk \in reduced : chunk < complete} \subseteq 0 .. top - 1
        <4> SUFFICES ASSUME NEW x \in reduced, x < complete
                     PROVE  x \in 0 .. top - 1
          OBVIOUS
        <4>1. x \in Nat
          BY <1>6
        <4> QED BY <4>1, <2>2, <1>3, <1>5
      <3>3. later \subseteq 0 .. top - 1
        BY <1>3, <1>5 DEF top
      <3> QED BY <3>1, <3>2, <3>3
    <2> QED BY <2>1, <2>2
  <1> QED BY <1>1, <1>9 DEF top

-----------------------------------------------------------------------------
(* Reads: the inductive invariant.                                         *)

\* The clusters that are free are those without a bit.
FreeInv == free = (0 .. ClusterCount - 1) \ bitmap

\* Nobody reads before the map is made.
QuietInv == phase # "serving" => reply = NoReply

ReadIInv ==
    /\ ReadTypeOK
    /\ FreeInv
    /\ QuietInv
    /\ ReadsTheImage
    /\ KnownDataMapIsExact

\* What the constants are.
LEMMA ConstantsAre ==
    /\ ClusterSize \in Nat \ {0} /\ ClusterCount \in Nat \ {0}
    /\ SectorSize \in Nat \ {0} /\ ChunkSize \in Nat \ {0} /\ Length \in Nat
    /\ UlongMax \in Nat \ {0}
BY ClusterAssumption, DeviceAssumption

\* Positions of bits are naturals.
LEMMA StorageBitsAreNat == StorageBits \subseteq Nat
BY DEF StorageBits

\* Nothing has been read.
LEMMA ReadInitIInv == ReadInit => ReadIInv
  <1> SUFFICES ASSUME ReadInit PROVE ReadIInv
    OBVIOUS
  <1>1. ReadTypeOK
    BY ConstantsAre, MapCoversChunks DEF ReadInit, ReadTypeOK, NoRequest,
       NoReply
  <1>2. FreeInv /\ QuietInv /\ ReadsTheImage /\ KnownDataMapIsExact
    BY DEF ReadInit, FreeInv, QuietInv, ReadsTheImage, KnownDataMapIsExact,
       NoReply
  <1> QED BY <1>1, <1>2 DEF ReadIInv

\* Each variable keeps to its values.
LEMMA ReadTypeStep == ReadTypeOK /\ [ReadNext]_readVars => ReadTypeOK'
  <1> SUFFICES ASSUME ReadTypeOK, [ReadNext]_readVars
               PROVE  ReadTypeOK'
    OBVIOUS
  <1> USE ConstantsAre DEF ReadTypeOK
  <1>1. ASSUME NEW first \in 0 .. ClusterCount - 1,
               NEW limit \in first + 1 .. ClusterCount,
               ExcludeExtent(first, limit)
        PROVE  ReadTypeOK'
    BY <1>1 DEF ExcludeExtent, MarkClustersFree
  <1>2. CASE EndExclusion
    BY <1>2 DEF EndExclusion
  <1>3. CASE MakeKnownDataMap
    BY <1>3, KnownDataMapType DEF MakeKnownDataMap
  <1>4. ASSUME NEW offset \in 0 .. Length, NEW length \in 0 .. UlongMax,
               Request(offset, length)
        PROVE  ReadTypeOK'
    BY <1>4 DEF Request
  <1>5. ASSUME NEW status \in {"success", "end_of_file",
                               "invalid_parameter", "error"},
               NEW data, Reply(status, data)
        PROVE  ReadTypeOK'
    BY <1>5 DEF Reply
  <1>6. CASE Return
    BY <1>6 DEF Return, NoRequest, NoReply
  <1>7. CASE UNCHANGED readVars
    BY <1>7 DEF readVars
  <1>8. CASE ReadOutsideFile
    BY <1>5, <1>8 DEF ReadOutsideFile
  <1> QED
    BY <1>1, <1>2, <1>3, <1>4, <1>5, <1>6, <1>7, <1>8 DEF ReadNext,
       ReadSynthetic,
       ReadTooLong, ReadFails, ReadDirect, ReadBounced

\* Excluding an extent makes its clusters free and no others.
LEMMA FreeStep == ReadTypeOK /\ FreeInv /\ [ReadNext]_readVars => FreeInv'
  <1> SUFFICES ASSUME ReadTypeOK, FreeInv, [ReadNext]_readVars
               PROVE  FreeInv'
    OBVIOUS
  <1> USE DEF FreeInv
  <1>1. ASSUME NEW first \in 0 .. ClusterCount - 1,
               NEW limit \in first + 1 .. ClusterCount,
               ExcludeExtent(first, limit)
        PROVE  FreeInv'
    <2>1. /\ first \in Nat /\ limit \in Nat
          /\ first < limit /\ limit <= ClusterCount
      BY ConstantsAre
    <2>2. bitmap' = bitmap \ (first .. limit - 1)
      BY <1>1, <2>1, MarkClustersFreeIs DEF ExcludeExtent, ReadTypeOK
    <2>3. free' = free \cup (first .. limit - 1)
      BY <1>1 DEF ExcludeExtent
    <2>4. first .. limit - 1 \subseteq 0 .. ClusterCount - 1
      BY <2>1, ConstantsAre
    <2> QED BY <2>2, <2>3, <2>4
  <1>2. CASE UNCHANGED <<bitmap, free>>
    BY <1>2
  <1> QED
    BY <1>1, <1>2 DEF ReadNext, EndExclusion, MakeKnownDataMap, Request, Reply,
       ReadOutsideFile, ReadSynthetic, ReadTooLong, ReadFails, ReadDirect,
       ReadBounced, Return, readVars

\* Reads begin after the last change of the bitmap.
LEMMA QuietStep == QuietInv /\ [ReadNext]_readVars => QuietInv'
BY DEF QuietInv, ReadNext, ExcludeExtent, EndExclusion, MakeKnownDataMap,
   Request,
   Reply, ReadOutsideFile, ReadSynthetic, ReadTooLong, ReadFails, ReadDirect,
   ReadBounced, Return, readVars

\* The image has data exactly where the bitmap says so.
LEMMA ImageIsBitmap ==
  ASSUME ReadTypeOK, FreeInv, NEW p \in Nat
  PROVE  ImageByte(p) # 0 <=> HasData(bitmap, p)
  <1>1. p \div ClusterSize \in Nat
    BY ConstantsAre, DivMod
  <1> QED BY <1>1, ConstantsAre DEF ImageByte, HasData, FreeInv

\* The map is made once, from the final bitmap, by either computation.
LEMMA MapStep ==
  ReadTypeOK /\ FreeInv /\ KnownDataMapIsExact /\ [ReadNext]_readVars
      => KnownDataMapIsExact'
  <1> SUFFICES ASSUME ReadTypeOK, FreeInv, KnownDataMapIsExact,
                      [ReadNext]_readVars
               PROVE  KnownDataMapIsExact'
    OBVIOUS
  <1>1. CASE MakeKnownDataMap
    <2>1. ASSUME NEW chunk \in 0 .. Chunks - 1
          PROVE  chunk \in known_data_map' <=>
                    \E p \in ChunkBytes(chunk) : HasData(bitmap, p)
      <3>1. bitmap \in SUBSET StorageBits /\ bitmap \in SUBSET Nat
        BY StorageBitsAreNat DEF ReadTypeOK
      <3> QED BY <1>1, <3>1, KnownDataMapByChunkIs, KnownDataMapUsingSimdIs
              DEF MakeKnownDataMap
    <2>2. ASSUME NEW chunk \in 0 .. Chunks - 1, NEW p \in ChunkBytes(chunk)
          PROVE  p \in Nat
      <3> DEFINE b == chunk * ChunkSize
                 n == Min({ChunkSize, Length - b})
      <3>1. b \in Nat /\ n \in Nat \ {0} /\ ChunkBytes(chunk) = b .. b + n - 1
        BY ChunkRange
      <3> HIDE DEF b, n
      <3> QED BY <3>1
    <2>3. ASSUME NEW p \in Nat
          PROVE  ImageByte(p)' # 0 <=> HasData(bitmap, p)
      <3>1. ImageByte(p)' = ImageByte(p)
        BY <1>1 DEF MakeKnownDataMap, ImageByte
      <3> QED BY <3>1, ImageIsBitmap
    <2> QED BY <2>1, <2>2, <2>3 DEF KnownDataMapIsExact, ChunkBytes
  <1>2. CASE phase' = "serving" /\ UNCHANGED <<phase, known_data_map, free>>
    BY <1>2 DEF KnownDataMapIsExact, ImageByte
  <1>3. CASE phase' # "serving"
    BY <1>3 DEF KnownDataMapIsExact
  <1> QED
    BY <1>1, <1>2, <1>3 DEF ReadNext, ExcludeExtent, EndExclusion,
       Request, Reply,
       ReadOutsideFile, ReadSynthetic, ReadTooLong, ReadFails, ReadDirect,
       ReadBounced, Return, readVars

\* What the answer to the current request has to be.
Answer == [i \in 0 .. Wanted - 1 |-> ImageByte(request.offset + i)]

\* A request in the file wants at least one byte, and none behind its end.
LEMMA WantedIs ==
  ASSUME ReadTypeOK, InFile
  PROVE  /\ Wanted \in Nat \ {0} /\ request.offset \in Nat
         /\ request.offset + Wanted <= Length
  <1>1. request.length \in Int /\ Length - request.offset \in Int
    BY ConstantsAre DEF ReadTypeOK
  <1>2. Wanted = IF request.length <= Length - request.offset
                 THEN request.length ELSE Length - request.offset
    BY <1>1, MinMaxOfTwo DEF Wanted
  <1> QED BY <1>2, ConstantsAre DEF ReadTypeOK, InFile

\* A read that touches no data is answered by zeros, which the image has there.
LEMMA SyntheticIsImage ==
  ASSUME ReadTypeOK, FreeInv, InFile, AllFree
  PROVE  [i \in 0 .. Wanted - 1 |-> 0] = Answer
  <1>1. /\ Wanted \in Nat \ {0} /\ request.offset \in Nat
    BY WantedIs
  <1>2. bitmap \in SUBSET Nat
    BY StorageBitsAreNat DEF ReadTypeOK
  <1>3. ~\E p \in request.offset .. request.offset + Wanted - 1 :
            HasData(bitmap, p)
    BY <1>1, <1>2, HasAllocatedClustersIs DEF AllFree, HasData
  <1>4. ASSUME NEW i \in 0 .. Wanted - 1
        PROVE  ImageByte(request.offset + i) = 0
    <2>1. /\ request.offset + i \in Nat
          /\ request.offset + i \in
                request.offset .. request.offset + Wanted - 1
      BY <1>1
    <2> QED BY <2>1, <1>3, ImageIsBitmap
  <1> QED BY <1>4 DEF Answer

\* The source's bytes with the free clusters cleared are the image's.
LEMMA SynthesizedIsImage ==
  ASSUME ReadTypeOK, FreeInv, InFile, NEW output,
         DOMAIN output = 0 .. Wanted - 1,
         \A i \in 0 .. Wanted - 1 : output[i] = request.offset + i + 1
  PROVE  SynthesizeFreeClusters(bitmap, output, request.offset) = Answer
  <1>1. /\ Wanted \in Nat \ {0} /\ request.offset \in Nat
    BY WantedIs
  <1>2. bitmap \in SUBSET Nat
    BY StorageBitsAreNat DEF ReadTypeOK
  <1>3. SynthesizeFreeClusters(bitmap, output, request.offset) =
           Synthesized(bitmap, output, request.offset, Wanted)
    BY <1>1, <1>2, SynthesizeFreeClustersIs
  <1>4. ASSUME NEW i \in 0 .. Wanted - 1
        PROVE  ImageByte(request.offset + i) =
                 IF (request.offset + i) \div ClusterSize
                       \in (0 .. ClusterCount - 1) \ bitmap
                 THEN 0 ELSE output[i]
    BY DEF ImageByte, FreeInv
  <1> QED BY <1>3, <1>4 DEF Answer, Synthesized

\* The bounce buffer holds the requested bytes, from copy_offset on.
LEMMA BounceHoldsRequest ==
  ASSUME ReadTypeOK, InFile, NEW i \in 0 .. Wanted - 1
  PROVE  SourceBytes(ReadBegin, ReadLength)[i + (request.offset - ReadBegin)]
            = request.offset + i + 1
  <1> DEFINE o == request.offset
             q == o \div SectorSize
             e == o + Wanted
             c == CeilDiv(e, SectorSize)
  <1>1. /\ Wanted \in Nat \ {0} /\ o \in Nat /\ e \in Nat
        /\ SectorSize \in Nat \ {0}
    BY WantedIs, ConstantsAre
  <1> HIDE DEF o, e
  <1>2. q \in Nat /\ SectorSize * q <= o
    BY <1>1, DivMod
  <1>3. c \in Nat /\ e <= SectorSize * c
    <2>1. c \in Nat
      BY <1>1, CeilDivIs
    <2>2. ~(c < c) /\ ~(SectorSize * c < e)
      BY <2>1, <1>1, CeilDivIs
    <2> QED BY <2>1, <2>2, <1>1
  <1>4. ReadBegin = q * SectorSize /\ ReadEnd = c * SectorSize
    BY DEF ReadBegin, ReadEnd, o, e
  <1> HIDE DEF q, c
  <1>5. ReadBegin \in Nat /\ ReadEnd \in Nat /\ ReadBegin <= o /\ e <= ReadEnd
    BY <1>1, <1>2, <1>3, <1>4
  <1>6. i + (o - ReadBegin) \in 0 .. ReadLength - 1
    BY <1>1, <1>5 DEF ReadLength, e
  <1>7. SourceBytes(ReadBegin, ReadLength)[i + (o - ReadBegin)] =
           ReadBegin + (i + (o - ReadBegin)) + 1
    BY <1>6 DEF SourceBytes
  <1> QED BY <1>1, <1>5, <1>7 DEF o

\* An answer is the image's, and stays it until it has been returned.
LEMMA AnswerStep ==
  ReadTypeOK /\ FreeInv /\ QuietInv /\ ReadsTheImage /\ [ReadNext]_readVars
      => ReadsTheImage'
  <1> SUFFICES ASSUME ReadTypeOK, FreeInv, QuietInv, ReadsTheImage,
                      [ReadNext]_readVars
               PROVE  ReadsTheImage'
    OBVIOUS
  <1>1. ASSUME reply' = [status |-> "success", data |-> Answer],
               UNCHANGED <<request, free>>
        PROVE  ReadsTheImage'
    BY <1>1 DEF ReadsTheImage, Answer, Wanted, ImageByte
  <1>2. ASSUME reply'.status # "success"
        PROVE  ReadsTheImage'
    BY <1>2 DEF ReadsTheImage
  <1>3. CASE \E first \in 0 .. ClusterCount - 1 :
                \E limit \in first + 1 .. ClusterCount :
                    ExcludeExtent(first, limit)
    BY <1>2, <1>3 DEF ExcludeExtent, QuietInv, NoReply
  <1>4. CASE EndExclusion \/ MakeKnownDataMap
    BY <1>2, <1>4 DEF EndExclusion, MakeKnownDataMap, QuietInv, NoReply
  <1>5. CASE \E offset \in 0 .. Length, length \in 0 .. UlongMax :
                Request(offset, length)
    BY <1>2, <1>5 DEF Request, NoReply
  <1>6. CASE ReadOutsideFile
    <2>1. CASE request.length = 0
      BY <1>6, <2>1 DEF ReadOutsideFile, Reply, ReadsTheImage
    <2>2. CASE request.length # 0
      BY <1>2, <1>6, <2>2 DEF ReadOutsideFile, Reply
    <2> QED BY <2>1, <2>2
  <1>7. CASE ReadSynthetic
    BY <1>1, <1>7, SyntheticIsImage DEF ReadSynthetic, Reply
  <1>8. CASE ReadTooLong \/ ReadFails
    BY <1>2, <1>8 DEF ReadTooLong, ReadFails, Reply
  <1>9. CASE ReadDirect
    <2> DEFINE output == SourceBytes(request.offset, Wanted)
    <2>1. DOMAIN output = 0 .. Wanted - 1
          /\ \A i \in 0 .. Wanted - 1 : output[i] = request.offset + i + 1
      BY DEF SourceBytes
    <2> HIDE DEF output
    <2>2. SynthesizeFreeClusters(bitmap, output, request.offset) = Answer
      BY <1>9, <2>1, SynthesizedIsImage DEF ReadDirect
    <2> QED BY <1>1, <1>9, <2>2 DEF ReadDirect, Reply, output
  <1>10. CASE ReadBounced
    <2> DEFINE bounce == SourceBytes(ReadBegin, ReadLength)
               output == [i \in 0 .. Wanted - 1 |->
                             bounce[i + (request.offset - ReadBegin)]]
    <2>1. DOMAIN output = 0 .. Wanted - 1
          /\ \A i \in 0 .. Wanted - 1 : output[i] = request.offset + i + 1
      BY <1>10, BounceHoldsRequest DEF ReadBounced
    <2>2. Copied(bounce) =
             SynthesizeFreeClusters(bitmap, output, request.offset)
      BY DEF Copied
    <2> HIDE DEF output, bounce
    <2>3. Copied(bounce) = Answer
      BY <1>10, <2>1, <2>2, SynthesizedIsImage DEF ReadBounced
    <2> QED BY <1>1, <1>10, <2>3 DEF ReadBounced, Reply, bounce
  <1>11. CASE Return
    BY <1>2, <1>11 DEF Return, NoReply
  <1>12. CASE UNCHANGED readVars
    BY <1>12 DEF readVars, ReadsTheImage, ImageByte
  <1> QED
    BY <1>3, <1>4, <1>5, <1>6, <1>7, <1>8, <1>9, <1>10, <1>11,
       <1>12 DEF ReadNext

\* The invariant holds in every reachable state.
LEMMA ReadIInvInvariant == ReadSpec => []ReadIInv
  <1>1. ReadIInv /\ [ReadNext]_readVars => ReadIInv'
    BY ReadTypeStep, FreeStep, QuietStep, AnswerStep, MapStep DEF ReadIInv
  <1> QED BY ReadInitIInv, <1>1, PTL DEF ReadSpec

\* Type correctness of OpenDevices and Read, for every geometry of the device.
THEOREM ReadTypeCorrect == ReadSpec => []ReadTypeOK
  <1>1. ReadIInv => ReadTypeOK
    BY DEF ReadIInv
  <1> QED BY ReadIInvInvariant, <1>1, PTL

\* Every successful Read gives the bytes of the image, for all sizes of
\* clusters, sectors, words and chunks, all bitmaps and all requests.
THEOREM ReadsAreOfTheImage == ReadSpec => []ReadsTheImage
  <1>1. ReadIInv => ReadsTheImage
    BY DEF ReadIInv
  <1> QED BY ReadIInvInvariant, <1>1, PTL

\* The known-data map has the bit of a chunk exactly if the image has data in
\* it, by the vectorised computation as well as by the plain one.
THEOREM KnownDataMapsAreExact == ReadSpec => []KnownDataMapIsExact
  <1>1. ReadIInv => KnownDataMapIsExact
    BY DEF ReadIInv
  <1> QED BY ReadIInvInvariant, <1>1, PTL

-----------------------------------------------------------------------------
(* Loops and bitmap sets.                                                  *)

\* A loop over 1 .. N: the body at i makes step[i][t] of the result t at the
\* smaller index hop[i].
IsLoop(N, T, base, hop, step) ==
    /\ N \in Nat /\ base \in T
    /\ hop \in [1 .. N -> Nat] /\ \A i \in 1 .. N : hop[i] < i
    /\ step \in [1 .. N -> [T -> T]]

IsResult(f, n, T, base, hop, step) ==
    /\ f \in [0 .. n -> T] /\ f[0] = base
    /\ \A i \in 1 .. n : f[i] = step[i][f[hop[i]]]

\* Such a loop has a result, whatever its body does.
LEMMA LoopExists ==
  ASSUME NEW N, NEW T, NEW base, NEW hop, NEW step,
         IsLoop(N, T, base, hop, step)
  PROVE  \E f : IsResult(f, N, T, base, hop, step)
  <1> DEFINE Is(f, n) == IsResult(f, n, T, base, hop, step)
             D == {n \in 0 .. N : ~\E f : Is(f, n)}
  <1> USE DEF IsResult
  <1>0. /\ N \in Nat /\ base \in T
        /\ hop \in [1 .. N -> Nat] /\ \A i \in 1 .. N : hop[i] < i
        /\ step \in [1 .. N -> [T -> T]]
    BY DEF IsLoop
  <1>1. SUFFICES ASSUME D # {} PROVE FALSE
    <2>1. N \in 0 .. N
      BY <1>0
    <2> QED BY <2>1
  <1>2. PICK n \in D : \A m \in D : n <= m
    <2>1. D \in SUBSET Nat
      BY <1>0
    <2> HIDE DEF D
    <2> QED BY <2>1, <1>1, NatMin
  <1>3. n # 0
    <2> SUFFICES ASSUME n = 0 PROVE FALSE
      OBVIOUS
    <2> DEFINE f == [i \in 0 .. 0 |-> base]
    <2>1. Is(f, n)
      BY <1>0
    <2> QED BY <2>1
  <1>4. n \in 1 .. N /\ n - 1 \in 0 .. N /\ n - 1 < n
    BY <1>0, <1>3
  <1>5. PICK f : Is(f, n - 1)
    <2>1. n - 1 \notin D
      <3> HIDE DEF D
      <3> QED BY <1>2, <1>4
    <2> QED BY <2>1, <1>4
  <1> DEFINE g == [i \in 0 .. n |-> IF i = n THEN step[n][f[hop[n]]]
                                             ELSE f[i]]
  <1>6. ASSUME NEW i \in 1 .. n
        PROVE  hop[i] \in 0 .. n - 1 /\ f[hop[i]] \in T /\ step[i] \in [T -> T]
    <2>1. i \in 1 .. N /\ hop[i] \in Nat /\ hop[i] < i
      BY <1>0, <1>4
    <2> QED BY <2>1, <1>0, <1>4, <1>5
  <1>7. g \in [0 .. n -> T]
    <2>1. \A i \in 0 .. n : i # n => f[i] \in T
      BY <1>4, <1>5
    <2>2. step[n][f[hop[n]]] \in T
      BY <1>4, <1>6
    <2> QED BY <2>1, <2>2
  <1>8. \A i \in 1 .. n : g[i] = step[i][g[hop[i]]]
    <2> TAKE i \in 1 .. n
    <2>1. hop[i] \in 0 .. n /\ g[hop[i]] = f[hop[i]]
      BY <1>4, <1>6
    <2>2. i # n => i \in 1 .. n - 1 /\ g[i] = f[i]
      BY <1>0, <1>4
    <2> QED BY <2>1, <2>2, <1>4, <1>5
  <1>9. g[0] = base
    BY <1>4, <1>5
  <1>10. Is(g, n)
    BY <1>0, <1>7, <1>8, <1>9
  <1> QED BY <1>10

-----------------------------------------------------------------------------
(* Sets of blocks.                                                         *)

\* The values of BitmapSet: the member count is exact.
BitmapSets ==
    {set \in [bits : SUBSET Nat, size : Nat] :
        IsFiniteSet(set.bits) /\ set.size = Cardinality(set.bits)}

\* A new set is empty.
LEMMA EmptyIs == EmptyBitmapSet \in BitmapSets /\ EmptyBitmapSet.bits = {}
BY FS_EmptySet DEF EmptyBitmapSet, BitmapSets

\* Bits are added and only the new ones are counted.
LEMMA InsertBitsIs ==
  ASSUME NEW set \in BitmapSets, NEW bits \in SUBSET Nat, IsFiniteSet(bits)
  PROVE  /\ InsertBits(set, bits) \in BitmapSets
         /\ InsertBits(set, bits).bits = set.bits \cup bits
  <1> DEFINE a == set.bits
             both == a \cup bits
             new == bits \ a
  <1>1. a \in SUBSET Nat /\ IsFiniteSet(a) /\ set.size = Cardinality(a)
    BY DEF BitmapSets
  <1>2. /\ IsFiniteSet(both) /\ IsFiniteSet(new)
        /\ Cardinality(both) = Cardinality(a) + Cardinality(bits)
                                   - Cardinality(a \cap bits)
        /\ Cardinality(new) = Cardinality(bits) - Cardinality(bits \cap a)
    BY <1>1, FS_Union, FS_Difference
  <1>3. /\ Cardinality(a) \in Nat /\ Cardinality(new) \in Nat
        /\ Cardinality(bits) \in Nat /\ Cardinality(a \cap bits) \in Nat
    BY <1>1, <1>2, FS_CardinalityType, FS_Intersection
  <1>4. a \cap bits = bits \cap a
    OBVIOUS
  <1>5. Cardinality(both) = Cardinality(a) + Cardinality(new)
    BY <1>2, <1>3, <1>4
  <1>6. InsertBits(set, bits) =
            [bits |-> both, size |-> Cardinality(a) + Cardinality(new)]
    BY <1>1 DEF InsertBits
  <1>7. both \in SUBSET Nat /\ Cardinality(a) + Cardinality(new) \in Nat
    <2>1. both \in SUBSET Nat
      BY <1>1
    <2>2. \A x, y \in Nat : x + y \in Nat
      OBVIOUS
    <2> QED BY <2>1, <2>2, <1>3
  <1> DEFINE k == Cardinality(a) + Cardinality(new)
             r == InsertBits(set, bits)
  <1>8. /\ r = [bits |-> both, size |-> k]
        /\ both \in SUBSET Nat /\ k \in Nat
        /\ IsFiniteSet(both) /\ k = Cardinality(both)
    BY <1>2, <1>5, <1>6, <1>7
  <1> HIDE DEF both, k, r
  <1>9. r.bits = both /\ r \in BitmapSets
    <2>1. r \in [bits : SUBSET Nat, size : Nat] /\ r.bits = both /\ r.size = k
      BY <1>8
    <2> QED BY <2>1, <1>8 DEF BitmapSets
  <1> QED BY <1>9 DEF both, r

\* insert_range, with its masks for the first and the last word, adds the
\* blocks of the range and no others.
LEMMA InsertRangeIs ==
  ASSUME NEW set \in BitmapSets, NEW f \in Nat, NEW l \in Nat, f <= l
  PROVE  /\ InsertRange(set, f * BlockSize, l * BlockSize) \in BitmapSets
         /\ InsertRange(set, f * BlockSize, l * BlockSize).bits =
                set.bits \cup (f .. l - 1)
  <1> DEFINE first == f * BlockSize
             limit == l * BlockSize
  <1>0. BlockSize \in Nat \ {0} /\ kBitsPerWord \in Nat \ {0}
    BY BlockAssumption
  <1>1. first \div BlockSize = f /\ limit \div BlockSize = l
    <2>1. (BlockSize * f + 0) \div BlockSize = f
          /\ (BlockSize * l + 0) \div BlockSize = l
      <3>1. 0 \in 0 .. BlockSize - 1
        BY <1>0
      <3> QED BY <1>0, <3>1, DivUnique
    <2>2. first = BlockSize * f + 0 /\ limit = BlockSize * l + 0
      BY <1>0
    <2> QED BY <2>1, <2>2
  <1> HIDE DEF first, limit
  <1>2. CASE f = l
    <2>1. first = limit /\ f .. l - 1 = {}
      BY <1>2 DEF first, limit
    <2>2. InsertRange(set, first, limit) = set
      BY <2>1 DEF InsertRange
    <2> QED BY <2>1, <2>2 DEF first, limit
  <1>3. CASE f < l
    <2> DEFINE last == l - 1
               W == kBitsPerWord
               fw == f \div W
               lw == last \div W
               bits == {b \in fw * W .. (lw + 1) * W - 1 :
                           /\ b \div W = fw => b % W >= f % W
                           /\ b \div W = lw => b % W <= last % W}
    <2>1. last \in Nat /\ W \in Nat \ {0}
      BY <1>0, <1>3
    <2>2. first # limit
      BY <1>1, <1>3
    <2>3. InsertRange(set, first, limit) = InsertBits(set, bits)
      BY <1>1, <2>2 DEF InsertRange
    <2> HIDE DEF last, W
    <2>4. /\ fw \in Nat /\ lw \in Nat /\ f % W \in Nat /\ last % W \in Nat
          /\ (lw + 1) * W = W * (lw + 1) /\ fw * W = W * fw
          /\ (lw + 1) * W - 1 \in Int /\ fw * W \in Nat
      BY <2>1, DivMod
    <2>5. ASSUME NEW b \in Nat
          PROVE  b \in bits <=> f <= b /\ b <= last
      <3>1. b \div W \in Nat /\ b % W \in Nat
        BY <2>1, DivMod
      <3>2. f <= b <=> \/ fw < b \div W
                       \/ fw = b \div W /\ f % W <= b % W
        BY <2>1, Lexicographic
      <3>3. b <= last <=> \/ b \div W < lw
                          \/ b \div W = lw /\ b % W <= last % W
        BY <2>1, Lexicographic
      <3>4. /\ fw <= b \div W <=> W * fw <= b
            /\ b \div W < lw + 1 <=> b < W * (lw + 1)
        <4>1. lw + 1 \in Nat
          BY <2>4
        <4> HIDE DEF fw, lw
        <4> QED BY <2>1, <2>4, <4>1, DivRange
      <3>5. b \in fw * W .. (lw + 1) * W - 1 <=>
                fw <= b \div W /\ b \div W <= lw
        <4>1. b \div W < lw + 1 <=> b \div W <= lw
          BY <3>1, <2>4
        <4> DEFINE lo == fw * W
                   hi == (lw + 1) * W
        <4>2. lo \in Nat /\ hi \in Int /\ lo = W * fw /\ hi = W * (lw + 1)
          <5> HIDE DEF fw, lw
          <5> QED BY <2>4, <2>1
        <4> HIDE DEF lo, hi
        <4>3. b \in lo .. hi - 1 <=> fw <= b \div W /\ b \div W <= lw
          <5> HIDE DEF fw, lw
          <5> QED BY <4>1, <4>2, <3>4
        <4> QED BY <4>3 DEF lo, hi
      <3>6. b \in bits <=> /\ fw <= b \div W /\ b \div W <= lw
                           /\ b \div W = fw => b % W >= f % W
                           /\ b \div W = lw => b % W <= last % W
        BY <3>5
      <3> HIDE DEF bits, fw, lw
      <3> QED BY <3>1, <3>2, <3>3, <3>6, <2>4
    <2>6. bits \subseteq Nat
      <3> HIDE DEF fw, lw
      <3> QED BY <2>4
    <2> HIDE DEF bits
    <2>7. bits = f .. l - 1
      <3>1. l - 1 = last /\ f .. last \subseteq Nat
        BY <2>1 DEF last
      <3>2. \A b : b \in f .. last <=> b \in Nat /\ f <= b /\ b <= last
        BY <2>1
      <3>3. \A b : b \in bits <=> b \in f .. last
        BY <2>5, <2>6, <3>2
      <3> QED BY <3>1, <3>3
    <2>8. IsFiniteSet(bits)
      BY <2>7, FS_Interval
    <2>9. /\ InsertBits(set, bits) \in BitmapSets
          /\ InsertBits(set, bits).bits = set.bits \cup bits
      BY <2>6, <2>8, InsertBitsIs
    <2> QED BY <2>3, <2>7, <2>9 DEF first, limit
  <1> QED BY <1>2, <1>3

\* merge makes the union of two sets.
LEMMA MergeIs ==
  ASSUME NEW set \in BitmapSets, NEW source \in BitmapSets
  PROVE  /\ Merge(set, source) \in BitmapSets
         /\ Merge(set, source).bits = set.bits \cup source.bits
  <1>1. /\ source.bits \in SUBSET Nat /\ IsFiniteSet(source.bits)
        /\ source.size = Cardinality(source.bits)
    BY DEF BitmapSets
  <1>2. CASE source.size = 0
    <2>1. source.bits = {}
      BY <1>1, <1>2, FS_EmptySet
    <2> QED BY <1>2, <2>1 DEF Merge
  <1>3. CASE source.size # 0
    BY <1>1, <1>3, InsertBitsIs DEF Merge
  <1> QED BY <1>2, <1>3

\* Whatever its arguments, insert_range leaves a set of blocks.
LEMMA InsertRangeType ==
  ASSUME NEW set \in BitmapSets, NEW first \in Nat, NEW last \in Nat
  PROVE  InsertRange(set, first, last) \in BitmapSets
  <1> DEFINE W == kBitsPerWord
             fb == first \div BlockSize
             lb == last \div BlockSize - 1
             lo == (fb \div W) * W
             hi == (lb \div W + 1) * W - 1
             bits == {b \in lo .. hi :
                         /\ b \div W = fb \div W => b % W >= fb % W
                         /\ b \div W = lb \div W => b % W <= lb % W}
  <1>1. BlockSize \in Nat \ {0} /\ W \in Nat \ {0}
    BY BlockAssumption
  <1>2. fb \in Nat /\ lb \in Int
    BY <1>1, DivMod
  <1>3. lo \in Nat
    <2>1. fb \div W \in Nat
      BY <1>1, <1>2, DivMod
    <2> QED BY <2>1, <1>1
  <1>4. hi \in Int
    BY <1>1, <1>2
  <1>5. InsertRange(set, first, last) =
            IF first = last THEN set ELSE InsertBits(set, bits)
    BY DEF InsertRange
  <1> HIDE DEF lo, hi
  <1>6. bits \subseteq lo .. hi /\ lo .. hi \subseteq Nat
    BY <1>3, <1>4
  <1> HIDE DEF bits
  <1>7. IsFiniteSet(bits) /\ bits \in SUBSET Nat
    <2>1. IsFiniteSet(lo .. hi)
      BY <1>3, <1>4, FS_Interval
    <2> QED BY <2>1, <1>6, FS_Subset
  <1> QED BY <1>5, <1>7, InsertBitsIs

-----------------------------------------------------------------------------
(* The blocks of a range of clusters.                                      *)

FirstBlock(c) == (c * ClusterSize) \div BlockSize
LimitBlock(c) == (c * ClusterSize - 1) \div BlockSize + 1

\* Quotients keep the order.
LEMMA DivMono ==
  ASSUME NEW d \in Nat \ {0}, NEW x \in Nat, NEW y \in Nat, x <= y
  PROVE  x \div d <= y \div d
  <1>1. x \div d \in Nat /\ d * (x \div d) <= x
    BY DivMod, DivRange
  <1> DEFINE q == x \div d
  <1> HIDE DEF q
  <1>2. q \in Nat /\ d * q <= y
    BY <1>1 DEF q
  <1>3. q <= y \div d
    BY <1>2, DivRange
  <1> QED BY <1>3 DEF q

\* The blocks of a range of clusters are a range, which grows with it.
LEMMA BlockRange ==
  /\ \A c \in Nat : /\ FirstBlock(c) \in Nat
                    /\ \A d \in Nat : c <= d => FirstBlock(c) <= FirstBlock(d)
  /\ \A c \in Nat \ {0} :
        /\ LimitBlock(c) \in Nat
        /\ \A d \in Nat \ {0} : c <= d => LimitBlock(c) <= LimitBlock(d)
        /\ \A d \in Nat : d < c => FirstBlock(d) < LimitBlock(c)
  <1>1. ClusterSize \in Nat \ {0} /\ BlockSize \in Nat \ {0}
    BY ClusterAssumption, BlockAssumption
  <1>2. ASSUME NEW c \in Nat
        PROVE  c * ClusterSize \in Nat /\ FirstBlock(c) \in Nat
    <2>1. c * ClusterSize \in Nat
      BY <1>1
    <2> DEFINE x == c * ClusterSize
    <2> HIDE DEF x
    <2>2. x \in Nat => x \div BlockSize \in Nat
      BY <1>1, DivMod
    <2> QED BY <2>1, <2>2 DEF FirstBlock, x
  <1>3. ASSUME NEW c \in Nat \ {0}
        PROVE  c * ClusterSize - 1 \in Nat /\ LimitBlock(c) \in Nat
    <2>1. c * ClusterSize \in Nat /\ c * ClusterSize # 0
      BY <1>1
    <2> DEFINE x == c * ClusterSize - 1
    <2>2. x \in Nat
      BY <2>1
    <2> HIDE DEF x
    <2>3. x \div BlockSize \in Nat
      BY <1>1, <2>2, DivMod
    <2> QED BY <2>2, <2>3 DEF LimitBlock, x
  <1>4. ASSUME NEW c \in Nat, NEW d \in Nat, c <= d
        PROVE  /\ c * ClusterSize <= d * ClusterSize
               /\ FirstBlock(c) <= FirstBlock(d)
    <2>1. ClusterSize * c <= ClusterSize * d
      BY <1>1, <1>4, MulMono
    <2>2. c * ClusterSize <= d * ClusterSize
      BY <2>1, <1>1
    <2> DEFINE x == c * ClusterSize
               y == d * ClusterSize
    <2>3. x \in Nat /\ y \in Nat /\ x <= y
      BY <2>2, <1>2
    <2> HIDE DEF x, y
    <2>4. x \div BlockSize <= y \div BlockSize
      BY <1>1, <2>3, DivMono
    <2> QED BY <2>2, <2>4 DEF x, y, FirstBlock
  <1>5. ASSUME NEW c \in Nat \ {0}, NEW d \in Nat \ {0}, c <= d
        PROVE  LimitBlock(c) <= LimitBlock(d)
    <2> DEFINE x == c * ClusterSize - 1
               y == d * ClusterSize - 1
    <2>1. c * ClusterSize <= d * ClusterSize /\ c * ClusterSize \in Nat
          /\ d * ClusterSize \in Nat
      BY <1>4, <1>5, <1>2
    <2>2. x \in Nat /\ y \in Nat /\ x <= y
      BY <2>1, <1>3
    <2> HIDE DEF x, y
    <2>3. x \div BlockSize <= y \div BlockSize /\ x \div BlockSize \in Nat
          /\ y \div BlockSize \in Nat
      BY <1>1, <2>2, DivMono, DivMod
    <2>4. x \div BlockSize + 1 <= y \div BlockSize + 1
      BY <2>3
    <2> QED BY <2>4 DEF x, y, LimitBlock
  <1>6. ASSUME NEW c \in Nat \ {0}, NEW d \in Nat, d < c
        PROVE  FirstBlock(d) < LimitBlock(c)
    <2> DEFINE x == d * ClusterSize
               y == c * ClusterSize - 1
    <2>1. ClusterSize * (d + 1) <= ClusterSize * c
      BY <1>1, <1>6, MulMono
    <2>2. x \in Nat /\ y \in Nat /\ x <= y
      BY <2>1, <1>1, <1>2, <1>3
    <2> HIDE DEF x, y
    <2>3. x \div BlockSize <= y \div BlockSize /\ x \div BlockSize \in Nat
          /\ y \div BlockSize \in Nat
      BY <1>1, <2>2, DivMono, DivMod
    <2>4. x \div BlockSize < y \div BlockSize + 1
      BY <2>3
    <2> QED BY <2>4 DEF x, y, FirstBlock, LimitBlock
  <1> QED BY <1>2, <1>3, <1>4, <1>5, <1>6

\* The blocks of one cluster.
LEMMA BlocksOfIs ==
  ASSUME NEW c \in Nat
  PROVE  BlocksOf(c) = FirstBlock(c) .. LimitBlock(c + 1) - 1
  <1> DEFINE x == (c * ClusterSize + ClusterSize - 1) \div BlockSize
  <1>1. ClusterSize \in Nat \ {0} /\ BlockSize \in Nat \ {0}
    BY ClusterAssumption, BlockAssumption
  <1>2. (c + 1) * ClusterSize - 1 = c * ClusterSize + ClusterSize - 1
    BY <1>1
  <1>3. c * ClusterSize + ClusterSize - 1 \in Int
    BY <1>1
  <1>4. x \in Int
    BY <1>1, <1>3
  <1>5. LimitBlock(c + 1) = x + 1
    BY <1>2 DEF LimitBlock
  <1>6. BlocksOf(c) = FirstBlock(c) .. x
    BY DEF BlocksOf, FirstBlock
  <1> HIDE DEF x
  <1>7. LimitBlock(c + 1) - 1 = x
    BY <1>4, <1>5
  <1> QED BY <1>6, <1>7

-----------------------------------------------------------------------------
(* Runs of changed clusters.                                               *)

\* What a set of runs must be for its blocks to be collected in one pass:
\* ranges of clusters, none of which begins within another.
IsRun(run) ==
    /\ run.first \in Nat /\ run.limit \in Nat
    /\ run.first < run.limit /\ run.limit <= ClusterCount

Disjoint(runs) ==
    \A r, s \in runs : r = s \/ r.limit <= s.first \/ s.limit <= r.first

Covers(runs, c) == \E run \in runs : run.first <= c /\ c < run.limit

\* The runs of a word: they are in it and apart from each other, and every
\* change of a cluster in the word is in one of them.
LEMMA WordRunsAre ==
  ASSUME NEW word \in SUBSET WordMask, NEW begin \in Nat
  PROVE  LET runs == WordRuns(word, begin)
         IN  /\ runs \subseteq [first : Nat, limit : Nat]
             /\ \A run \in runs : /\ IsRun(run) /\ begin <= run.first
                                  /\ run.limit <= begin + WordBits
             /\ Disjoint(runs)
             /\ \A b \in word : begin + b < ClusterCount =>
                                    Covers(runs, begin + b)
  <1> DEFINE starts == {b \in word : b - 1 \notin word
                                       /\ begin + b < ClusterCount}
             L(b) == Min({e \in b + 1 .. WordBits : e \notin word})
             Limit(b) == Min({begin + L(b), ClusterCount})
             Run(b) == [first |-> begin + b, limit |-> Limit(b)]
             runs == WordRuns(word, begin)
  <1>1. WordBits \in Nat \ {0} /\ ClusterCount \in Nat \ {0}
    BY WidthAssumption, ClusterAssumption
  <1>2. word \subseteq Nat /\ \A b \in word : b < WordBits
    BY <1>1 DEF WordMask
  <1>3. runs = {Run(b) : b \in starts}
    BY DEF WordRuns
  <1>4. ASSUME NEW b \in word
        PROVE  /\ L(b) \in Nat /\ b < L(b) /\ L(b) <= WordBits
               /\ L(b) \notin word
               /\ \A e \in b + 1 .. L(b) - 1 : e \in word
    <2> DEFINE E == {e \in b + 1 .. WordBits : e \notin word}
    <2>1. WordBits \in E /\ E \in SUBSET Nat
      BY <1>1, <1>2
    <2>2. Min(E) \in E /\ \A e \in E : Min(E) <= e
      <3> HIDE DEF E
      <3> QED BY <2>1, NatMin
    <2> DEFINE m == Min(E)
    <2>3. m \in E /\ \A e \in E : m <= e
      BY <2>2
    <2> HIDE DEF m
    <2>4. /\ m \in Nat /\ b < m /\ m <= WordBits /\ m \notin word
          /\ \A e \in b + 1 .. m - 1 : e \in word
      BY <2>3, <1>1, <1>2
    <2> QED BY <2>4 DEF m
  <1> HIDE DEF L
  <1>5. ASSUME NEW b \in starts
        PROVE  /\ b \in Nat /\ begin + b < ClusterCount
               /\ Limit(b) = IF begin + L(b) <= ClusterCount
                             THEN begin + L(b) ELSE ClusterCount
               /\ Limit(b) \in Nat /\ begin + b < Limit(b)
               /\ Limit(b) <= ClusterCount /\ Limit(b) <= begin + WordBits
    <2>1. /\ b \in Nat /\ begin + b < ClusterCount
          /\ L(b) \in Nat /\ b < L(b) /\ L(b) <= WordBits
      BY <1>2, <1>4
    <2>2. Limit(b) = IF begin + L(b) <= ClusterCount
                     THEN begin + L(b) ELSE ClusterCount
      <3>1. begin + L(b) \in Int /\ ClusterCount \in Int
        BY <2>1, <1>1
      <3> QED BY <3>1, MinMaxOfTwo
    <2> HIDE DEF Limit
    <2> QED BY <2>1, <2>2, <1>1
  <1> HIDE DEF Limit
  <1>6. ASSUME NEW b \in starts
        PROVE  /\ Run(b) \in [first : Nat, limit : Nat] /\ IsRun(Run(b))
               /\ begin <= Run(b).first /\ Run(b).limit <= begin + WordBits
    BY <1>1, <1>5 DEF IsRun
  <1>7. ASSUME NEW b \in starts, NEW d \in starts, b < d
        PROVE  Run(b).limit <= Run(d).first
    <2>1. b \in Nat /\ d \in Nat /\ d - 1 \notin word /\ b \in word
      BY <1>2
    <2>2. L(b) <= d
      <3> SUFFICES ASSUME d < L(b) PROVE FALSE
        BY <2>1, <1>4
      <3>1. d - 1 = b \/ d - 1 \in b + 1 .. L(b) - 1
        BY <2>1, <1>4, <1>7
      <3> QED BY <3>1, <2>1, <1>4
    <2>3. Limit(b) <= begin + d
      <3>1. L(b) \in Nat
        BY <2>1, <1>4
      <3> QED BY <3>1, <2>1, <2>2, <1>5, <1>1
    <2> QED BY <2>3
  <1>8. Disjoint(runs)
    <2> SUFFICES ASSUME NEW r \in runs, NEW s \in runs
                 PROVE  r = s \/ r.limit <= s.first \/ s.limit <= r.first
      BY DEF Disjoint
    <2>1. PICK b \in starts, d \in starts : r = Run(b) /\ s = Run(d)
      BY <1>3
    <2>2. b \in Nat /\ d \in Nat
      BY <1>2
    <2> HIDE DEF starts, Run
    <2>3. b = d \/ b < d \/ d < b
      BY <2>2
    <2> QED BY <2>1, <2>3, <1>7
  <1>9. ASSUME NEW b \in word, begin + b < ClusterCount
        PROVE  Covers(runs, begin + b)
    <2> DEFINE S == {s \in 0 .. b : \A x \in s .. b : x \in word}
    <2>1. b \in Nat
      BY <1>2
    <2>2. b \in S /\ S \in SUBSET Nat
      BY <2>1
    <2>3. PICK s \in S : \A t \in S : s <= t
      <3> HIDE DEF S
      <3> QED BY <2>2, NatMin
    <2>4. /\ s \in Nat /\ s <= b /\ s \in word
          /\ \A x \in s .. b : x \in word
      BY <2>1
    <2>5. s - 1 \notin word
      <3> SUFFICES ASSUME s - 1 \in word PROVE FALSE
        OBVIOUS
      <3>1. s - 1 \in Nat
        BY <1>2
      <3>2. \A x \in s - 1 .. b : x \in word
        <4> TAKE x \in s - 1 .. b
        <4>1. x = s - 1 \/ x \in s .. b
          BY <2>1, <2>4, <3>1
        <4> QED BY <4>1, <2>4
      <3>3. s - 1 \in S
        BY <3>1, <3>2, <2>4, <2>1
      <3> HIDE DEF S
      <3> QED BY <3>3, <2>3, <2>4
    <2>6. s \in starts
      BY <2>4, <2>5, <2>1, <1>9, <1>1
    <2>7. L(s) \in Nat /\ b < L(s)
      <3>1. L(s) \in Nat /\ s < L(s) /\ L(s) \notin word
        BY <2>4, <1>4
      <3>2. L(s) \notin s .. b
        BY <3>1, <2>4
      <3> QED BY <3>1, <3>2, <2>1, <2>4
    <2>8. begin + b < Limit(s)
      BY <2>1, <2>6, <2>7, <1>5, <1>9, <1>1
    <2>9. Run(s).first <= begin + b /\ begin + b < Run(s).limit
      BY <2>8, <2>4, <2>1
    <2> HIDE DEF Run, starts
    <2> QED BY <2>6, <2>9, <1>3 DEF Covers
  <1>10. /\ runs \subseteq [first : Nat, limit : Nat]
         /\ \A run \in runs : /\ IsRun(run) /\ begin <= run.first
                              /\ run.limit <= begin + WordBits
    <2> HIDE DEF starts, Run
    <2> QED BY <1>3, <1>6
  <1> QED BY <1>8, <1>9, <1>10

\* The loop over the words with a change: the runs it finds are apart from each
\* other, and every changed cluster is in one of them, although the loop skips
\* bytes that do not differ and goes on at one that need not begin a word.
LEMMA ChangedRunsAre ==
  ASSUME NEW previous \in SUBSET Nat, NEW current \in SUBSET Nat
  PROVE  LET runs == ChangedRuns(previous, current)
         IN  /\ \A run \in runs : IsRun(run)
             /\ Disjoint(runs)
             /\ \A c \in (previous \ current) \cup (current \ previous) :
                    c < ClusterCount => Covers(runs, c)
  <1> DEFINE N == BitmapByteCount
             B == ByteBits
             changed == (previous \ current) \cup (current \ previous)
             Word(i) == LoadBitmapWord(changed, i * B)
             Succ(i) == Min({i + WordBits \div B, N})
             Mismatches(i) == {k \in Succ(i) .. N - 1 :
                                  \E b \in changed : b \div B = k}
             Hop(i) == IF Word(i) # {} THEN Succ(i)
                       ELSE Min(Mismatches(i) \cup {N})
             Gain(i) == IF Word(i) # {} THEN WordRuns(Word(i), i * B) ELSE {}
             Body(g, i) == IF i = N THEN {}
                           ELSE IF Word(i) # {}
                                THEN WordRuns(Word(i), i * B) \cup g[Succ(i)]
                                ELSE g[Min(Mismatches(i) \cup {N})]
             G == CHOOSE g : g = [i \in 0 .. N |-> Body(g, i)]
             T == SUBSET [first : Nat, limit : Nat]
  <1>1. /\ B \in Nat \ {0} /\ WordBits \in Nat \ {0} /\ WordBits % B = 0
        /\ ClusterCount \in Nat \ {0}
    BY WidthAssumption, ClusterAssumption
  <1>2. N \in Nat /\ ClusterCount <= B * N
    <2>1. N \in Nat /\ \A q \in Nat : q < N <=> B * q < ClusterCount
      BY <1>1, CeilDivIs DEF BitmapByteCount
    <2>2. ~(B * N < ClusterCount)
      BY <2>1
    <2> HIDE DEF N
    <2> QED BY <2>1, <2>2, <1>1
  <1>3. ChangedRuns(previous, current) = G[0]
    BY DEF ChangedRuns
  <1>4. PICK k \in Nat \ {0} : WordBits \div B = k /\ WordBits = B * k
    <2> DEFINE k == WordBits \div B
    <2>1. k \in Nat /\ WordBits = B * k
      BY <1>1, DivMod
    <2> HIDE DEF k
    <2>2. k # 0
      BY <2>1, <1>1
    <2> QED BY <2>1, <2>2 DEF k
  <1>5. changed \subseteq Nat
    OBVIOUS
  <1> HIDE DEF N, B, changed
  <1>6. ASSUME NEW i \in 0 .. N - 1
        PROVE  /\ Succ(i) = IF i + k <= N THEN i + k ELSE N
               /\ Succ(i) \in i + 1 .. N
    <2>1. i + k \in Int /\ N \in Int
      BY <1>2, <1>4
    <2>2. Succ(i) = IF i + k <= N THEN i + k ELSE N
      BY <2>1, <1>4, MinMaxOfTwo
    <2> HIDE DEF Succ
    <2> QED BY <2>2, <1>2, <1>4
  <1>7. ASSUME NEW i \in Nat
        PROVE  /\ i * B \in Nat
               /\ Word(i) \in SUBSET WordMask
               /\ \A b : b \in Word(i) <=>
                         b \in WordMask /\ i * B + b \in changed
    BY <1>1 DEF LoadBitmapWord
  <1> HIDE DEF Word, Succ
  <1>8. ASSUME NEW i \in 0 .. N - 1
        PROVE  /\ Hop(i) \in i + 1 .. N
               /\ \A b \in changed : b \div B \in i + 1 .. Hop(i) - 1 =>
                      b \div B < i + k
               /\ Word(i) # {} => Hop(i) <= i + k
               /\ Word(i) # {} => Hop(i) = N \/ Hop(i) = i + k
    <2>0. i \in Nat /\ k \in Nat /\ N \in Nat /\ i < N
      BY <1>2
    <2>1. CASE Word(i) # {}
      <3>1. Hop(i) = Succ(i)
        BY <2>1
      <3> HIDE DEF Hop
      <3>2. \A b \in changed : b \div B \in Int
        BY <1>1, <1>5
      <3> QED BY <3>1, <3>2, <2>0, <1>6
    <2>2. CASE Word(i) = {}
      <3> DEFINE M == Mismatches(i) \cup {N}
      <3>1. M \in SUBSET Nat /\ N \in M /\ \A m \in M : Succ(i) <= m /\ m <= N
        <4>1. Succ(i) \in i + 1 .. N
          BY <1>6
        <4> QED BY <4>1, <2>0
      <3>2. Hop(i) = Min(M)
        BY <2>2
      <3> DEFINE h == Min(M)
      <3>3. h \in M /\ \A m \in M : h <= m
        <4> HIDE DEF M
        <4> QED BY <3>1, NatMin
      <3>4. \A b \in changed : b \div B \in Succ(i) .. h - 1 => FALSE
        <4> SUFFICES ASSUME NEW b \in changed, b \div B \in Succ(i) .. h - 1
                     PROVE  FALSE
          OBVIOUS
        <4>1. h \in Nat /\ h <= N /\ Succ(i) \in Nat
          BY <3>1, <3>3, <1>6, <2>0
        <4> HIDE DEF h
        <4>2. b \div B \in Mismatches(i)
          BY <4>1, <2>0
        <4>3. b \div B \in M /\ ~(h <= b \div B)
          BY <4>1, <4>2
        <4> HIDE DEF M
        <4> QED BY <4>3, <3>3 DEF h
      <3>5. h \in Nat /\ h <= N /\ Succ(i) <= h
        BY <3>1, <3>3
      <3> HIDE DEF h, M
      <3>6. Hop(i) = h
        BY <3>2 DEF h
      <3> HIDE DEF Hop
      <3>7. \A b \in changed : b \div B \in Int
        BY <1>1, <1>5
      <3>8. Succ(i) \in i + 1 .. N /\ Succ(i) <= i + k
        BY <1>6, <2>0
      <3>9. \A b \in changed :
               b \div B \in i + 1 .. h - 1 => b \div B < Succ(i)
        BY <3>4, <3>5, <3>7, <3>8, <2>0
      <3> QED BY <2>2, <3>5, <3>6, <3>7, <3>8, <3>9, <2>0
    <2> QED BY <2>1, <2>2
  <1>9. ASSUME NEW i \in 0 .. N - 1
        PROVE  Gain(i) \in T /\ \A g : Body(g, i) = Gain(i) \cup g[Hop(i)]
    <2>1. i \in Nat /\ i # N
      BY <1>2
    <2>2. Word(i) # {} => WordRuns(Word(i), i * B) \in T
      <3>1. i * B \in Nat /\ Word(i) \in SUBSET WordMask
        BY <2>1, <1>7
      <3> QED BY <3>1, WordRunsAre
    <2> QED BY <2>1, <2>2
  <1>10. \A g : Body(g, N) = {}
    OBVIOUS
  <1> HIDE DEF Gain, Hop, Body
  <1>11. \E g : g = [i \in 0 .. N |-> Body(g, i)]
    <2> DEFINE hop == [j \in 1 .. N |-> N - Hop(N - j)]
               step == [j \in 1 .. N |-> [t \in T |-> Gain(N - j) \cup t]]
    <2>1. /\ hop \in [1 .. N -> Nat] /\ \A j \in 1 .. N : hop[j] < j
      <3>1. ASSUME NEW j \in 1 .. N
            PROVE  N - Hop(N - j) \in Nat /\ N - Hop(N - j) < j
        <4>1. N - j \in 0 .. N - 1
          BY <1>2
        <4>2. Hop(N - j) \in (N - j) + 1 .. N
          BY <4>1, <1>8
        <4> QED BY <4>2, <1>2
      <3> QED BY <3>1
    <2>2. step \in [1 .. N -> [T -> T]]
      <3>1. ASSUME NEW j \in 1 .. N, NEW t \in T
            PROVE  Gain(N - j) \cup t \in T
        <4>1. N - j \in 0 .. N - 1
          BY <1>2
        <4>2. Gain(N - j) \in T
          BY <4>1, <1>9
        <4> QED BY <4>2
      <3> HIDE DEF T
      <3> QED BY <3>1
    <2>3. {} \in T
      OBVIOUS
    <2> HIDE DEF hop, step, T
    <2>4. PICK f \in [0 .. N -> T] :
             f[0] = {} /\ \A j \in 1 .. N : f[j] = step[j][f[hop[j]]]
      <3>1. IsLoop(N, T, {}, hop, step)
        BY <2>1, <2>2, <2>3, <1>2 DEF IsLoop
      <3>2. \E f : IsResult(f, N, T, {}, hop, step)
        BY <3>1, LoopExists
      <3> QED BY <3>2 DEF IsResult
    <2> DEFINE g == [i \in 0 .. N |-> f[N - i]]
    <2>5. ASSUME NEW i \in 0 .. N
          PROVE  f[N - i] = Body(g, i)
      <3>1. CASE i = N
        <4>1. N - i = 0
          BY <3>1, <1>2
        <4> QED BY <3>1, <4>1, <2>4, <1>10
      <3>2. CASE i # N
        <4>1. /\ i \in 0 .. N - 1 /\ N - i \in 1 .. N /\ N - (N - i) = i
          BY <3>2, <1>2
        <4>2. Hop(i) \in 0 .. N /\ N - Hop(i) \in 0 .. N
          <5>1. Hop(i) \in i + 1 .. N
            BY <4>1, <1>8
          <5> QED BY <5>1, <4>1, <1>2
        <4>3. hop[N - i] = N - Hop(i) /\ f[N - Hop(i)] \in T
          BY <4>1, <4>2, <2>4 DEF hop
        <4>4. f[N - i] = Gain(i) \cup f[N - Hop(i)]
          BY <4>1, <4>3, <2>4 DEF step
        <4>5. g[Hop(i)] = f[N - Hop(i)]
          BY <4>2
        <4> HIDE DEF g
        <4> QED BY <4>1, <4>4, <4>5, <1>9
      <3> QED BY <3>1, <3>2
    <2>6. g = [i \in 0 .. N |-> Body(g, i)]
      BY <2>5
    <2> QED BY <2>6
  <1>12. G = [i \in 0 .. N |-> Body(G, i)]
    BY <1>11, Zenon
  <1> HIDE DEF G
  <1> DEFINE Good(i) == /\ G[i] \in T
                        /\ \A run \in G[i] : IsRun(run) /\ i * B <= run.first
                        /\ Disjoint(G[i])
                        /\ \A c \in changed : i * B <= c /\ c < ClusterCount =>
                               Covers(G[i], c)
  <1>13. Good(N)
    <2>1. G[N] = {}
      BY <1>10, <1>12, <1>2
    <2>2. N * B = B * N
      BY <1>1, <1>2
    <2>3. \A c \in changed : ~(N * B <= c /\ c < ClusterCount)
      <3> DEFINE x == N * B
      <3>1. x \in Nat /\ ClusterCount <= x
        BY <2>2, <1>1, <1>2
      <3> HIDE DEF x
      <3>2. \A c \in changed : ~(x <= c /\ c < ClusterCount)
        BY <3>1, <1>1, <1>5
      <3> QED BY <3>2 DEF x
    <2> QED BY <2>1, <2>3 DEF Disjoint
  <1>14. ASSUME NEW i \in 0 .. N - 1, Good(Hop(i))
         PROVE  Good(i)
    <2> DEFINE h == Hop(i)
               x == i * B
               y == h * B
               A == Gain(i)
               C == G[h]
    <2>1. i \in Nat /\ h \in Nat /\ i < h /\ h <= N /\ i \in 0 .. N
      BY <1>8, <1>2
    <2>2. G[i] = A \cup C
      BY <2>1, <1>9, <1>12
    <2>3. /\ x \in Nat /\ y \in Nat /\ x <= y
          /\ Word(i) # {} => y <= x + WordBits
          /\ Word(i) # {} => y = x + WordBits \/ h = N
      <3>1. B * i <= B * h /\ (h <= i + k => B * h <= B * (i + k))
            /\ B * (i + k) = B * i + B * k
        BY <2>1, <1>1, MulMono
      <3>2. x = B * i /\ y = B * h
        BY <2>1, <1>1
      <3>3. Word(i) # {} => h <= i + k /\ (h = N \/ h = i + k)
        BY <1>8
      <3> HIDE DEF h, x, y
      <3> QED BY <3>1, <3>2, <3>3, <2>1, <1>1, <1>4
    <2>4. /\ A \in T
          /\ \A run \in A : IsRun(run) /\ x <= run.first
                            /\ run.limit <= x + WordBits
          /\ Disjoint(A)
          /\ \A b \in Word(i) : x + b < ClusterCount => Covers(A, x + b)
          /\ Word(i) = {} => A = {}
      <3>1. CASE Word(i) = {}
        BY <3>1 DEF Gain, Disjoint
      <3>2. CASE Word(i) # {}
        <4>1. A = WordRuns(Word(i), x)
          BY <3>2 DEF Gain
        <4>2. Word(i) \in SUBSET WordMask /\ x \in Nat
          BY <2>1, <1>7
        <4> HIDE DEF x, A
        <4> QED BY <3>2, <4>1, <4>2, WordRunsAre
      <3> QED BY <3>1, <3>2
    <2>5. /\ C \in T
          /\ \A run \in C : IsRun(run) /\ y <= run.first
          /\ Disjoint(C)
          /\ \A c \in changed : y <= c /\ c < ClusterCount => Covers(C, c)
      BY <1>14
    <2>6. h = N => C = {}
      BY <2>1, <1>10, <1>12
    <2>7. ASSUME NEW c \in changed, x <= c, c < y, c < ClusterCount
          PROVE  Covers(A, c)
      <3>1. c \in Nat /\ c \div B \in Nat
        BY <1>1, <1>5, DivMod
      <3>2. i <= c \div B /\ c \div B < h
        <4>1. x = B * i /\ y = B * h
          BY <2>1, <1>1
        <4> HIDE DEF h, x, y
        <4> QED BY <4>1, <3>1, <2>1, <2>7, <1>1, DivRange
      <3>3. c \div B < i + k
        <4>1. c \div B = i \/ c \div B \in i + 1 .. h - 1
          BY <3>1, <3>2, <2>1
        <4> QED BY <4>1, <1>8, <2>1, <1>4
      <3>4. c < B * (i + k)
        <4>1. i + k \in Nat
          BY <2>1, <1>4
        <4> QED BY <4>1, <3>1, <3>3, <1>1, DivRange
      <3>5. c - x \in WordMask /\ x + (c - x) = c
        <4>1. B * (i + k) = x + WordBits
          BY <2>1, <1>1, <1>4
        <4> HIDE DEF x, y
        <4> QED BY <4>1, <3>1, <3>4, <2>3, <2>7, <1>1 DEF WordMask
      <3>6. c - x \in Word(i)
        BY <3>5, <2>1, <1>7
      <3> HIDE DEF x, A
      <3> QED BY <3>5, <3>6, <2>4, <2>7
    <2> HIDE DEF h, x, y, A, C
    <2>8. A \cup C \in T
      BY <2>4, <2>5
    <2>9. \A run \in A \cup C : IsRun(run) /\ x <= run.first
      <3>1. \A run \in C : run.first \in Nat
        BY <2>5 DEF IsRun
      <3> QED BY <3>1, <2>3, <2>4, <2>5
    <2>10. Disjoint(A \cup C)
      <3>1. ASSUME NEW r \in A, NEW s \in C
            PROVE  r.limit <= s.first
        <4>1. Word(i) # {} /\ h # N
          BY <2>4, <2>6
        <4>2. r.limit <= y
          BY <4>1, <2>3, <2>4
        <4>3. r.limit \in Nat /\ s.first \in Nat /\ y <= s.first
          BY <2>4, <2>5 DEF IsRun
        <4> QED BY <4>2, <4>3, <2>3
      <3> QED BY <3>1, <2>4, <2>5 DEF Disjoint
    <2>11. ASSUME NEW c \in changed, x <= c, c < ClusterCount
           PROVE  Covers(A \cup C, c)
      <3>1. c \in Nat
        BY <1>5
      <3>2. CASE c < y
        BY <3>2, <2>7, <2>11 DEF Covers
      <3>3. CASE y <= c
        BY <3>3, <2>5, <2>11 DEF Covers
      <3> QED BY <3>1, <3>2, <3>3, <2>3
    <2> HIDE DEF T
    <2>12. /\ G[i] \in T
           /\ \A run \in G[i] : IsRun(run) /\ x <= run.first
           /\ Disjoint(G[i])
           /\ \A c \in changed : x <= c /\ c < ClusterCount => Covers(G[i], c)
      BY <2>2, <2>8, <2>9, <2>10, <2>11
    <2> QED BY <2>12 DEF x
  <1> HIDE DEF Good
  <1>15. Good(0)
    <2> DEFINE D == {j \in 0 .. N : ~Good(N - j)}
    <2>1. SUFFICES ASSUME D # {} PROVE FALSE
      <3>1. N \in 0 .. N /\ N - N = 0
        BY <1>2
      <3> QED BY <3>1
    <2>2. PICK j \in D : \A m \in D : j <= m
      <3>1. D \in SUBSET Nat
        BY <1>2
      <3> HIDE DEF D
      <3> QED BY <3>1, <2>1, NatMin
    <2>3. j # 0
      BY <1>13, <1>2
    <2>4. N - j \in 0 .. N - 1
      BY <2>3, <1>2
    <2>5. Hop(N - j) \in (N - j) + 1 .. N
      BY <2>4, <1>8
    <2> DEFINE m == N - Hop(N - j)
    <2>6. m \in 0 .. N /\ m < j /\ N - m = Hop(N - j)
      BY <2>5, <1>2
    <2>7. m \notin D
      <3>1. j \in Nat
        BY <1>2
      <3> HIDE DEF D, m
      <3> QED BY <3>1, <2>2, <2>6
    <2>8. Good(Hop(N - j))
      BY <2>6, <2>7
    <2>9. Good(N - j)
      BY <2>4, <2>8, <1>14
    <2> QED BY <2>9
  <1>16. 0 * B = 0
    BY <1>1
  <1>17. \A c \in changed : 0 * B <= c
    BY <1>16, <1>5
  <1> QED BY <1>3, <1>15, <1>17 DEF Good, changed

-----------------------------------------------------------------------------
(* Collecting blocks.                                                      *)

\* The state of ReadAllocationChangeBlocks between two runs.
Pendings == [range_first : Nat, range_limit : Nat, blocks : BitmapSets]

NothingPending == [range_first |-> 0, range_limit |-> 0,
                   blocks |-> EmptyBitmapSet]

\* What a cluster does to it.
PendingStep(runs, pending, c) ==
    IF \E run \in runs : run.first = c
    THEN AddClusterRange(pending, CHOOSE run \in runs : run.first = c)
    ELSE pending

\* add_cluster_range in blocks.
LEMMA AddClusterRangeIs ==
  ASSUME NEW pending \in Pendings, NEW run, IsRun(run)
  PROVE  LET first == FirstBlock(run.first) * BlockSize
             limit == LimitBlock(run.limit) * BlockSize
         IN  /\ AddClusterRange(pending, run) \in Pendings
             /\ first \in Nat /\ limit \in Nat
             /\ AddClusterRange(pending, run) =
                 IF first > pending.range_limit
                 THEN [range_first |-> first, range_limit |-> limit,
                       blocks |-> InsertRange(pending.blocks,
                                              pending.range_first,
                                              pending.range_limit)]
                 ELSE [range_first |-> pending.range_first,
                       range_limit |-> limit, blocks |-> pending.blocks]
  <1> DEFINE first == FirstBlock(run.first) * BlockSize
             limit == LimitBlock(run.limit) * BlockSize
             inserted == InsertRange(pending.blocks, pending.range_first,
                                     pending.range_limit)
  <1>1. first \in Nat /\ limit \in Nat
    <2>1. run.first \in Nat /\ run.limit \in Nat \ {0}
      BY DEF IsRun
    <2>2. FirstBlock(run.first) \in Nat /\ LimitBlock(run.limit) \in Nat
      BY <2>1, BlockRange
    <2> QED BY <2>2, BlockAssumption
  <1>2. /\ pending.range_first \in Nat /\ pending.range_limit \in Nat
        /\ pending.blocks \in BitmapSets
        /\ pending = [range_first |-> pending.range_first,
                      range_limit |-> pending.range_limit,
                      blocks |-> pending.blocks]
    BY DEF Pendings
  <1>3. inserted \in BitmapSets
    BY <1>2, InsertRangeType
  <1>4. AddClusterRange(pending, run) =
            IF first > pending.range_limit
            THEN [range_first |-> first, range_limit |-> limit,
                  blocks |-> inserted]
            ELSE [pending EXCEPT !.range_limit = limit]
    BY DEF AddClusterRange, FirstBlock, LimitBlock
  <1> HIDE DEF first, limit, inserted
  <1>5. [pending EXCEPT !.range_limit = limit] =
            [range_first |-> pending.range_first,
             range_limit |-> limit, blocks |-> pending.blocks]
    BY <1>2
  <1>6. AddClusterRange(pending, run) \in Pendings
    BY <1>1, <1>2, <1>3, <1>4, <1>5 DEF Pendings
  <1> QED BY <1>1, <1>4, <1>5, <1>6 DEF first, limit, inserted

\* The loop over the runs, cluster by cluster.
LEMMA PendingAfterIs ==
  ASSUME NEW runs, \A run \in runs : IsRun(run)
  PROVE  LET P == PendingAfter(runs)
         IN  /\ P \in [0 .. ClusterCount -> Pendings]
             /\ P[0] = NothingPending
             /\ \A n \in 1 .. ClusterCount :
                    P[n] = PendingStep(runs, P[n - 1], n - 1)
  <1> DEFINE N == ClusterCount
             T == Pendings
             P == PendingAfter(runs)
             Body(g, n) == IF n = 0 THEN NothingPending
                           ELSE PendingStep(runs, g[n - 1], n - 1)
             hop == [n \in 1 .. N |-> n - 1]
             step == [n \in 1 .. N |->
                         [t \in T |-> PendingStep(runs, t, n - 1)]]
  <1>1. N \in Nat
    BY ClusterAssumption
  <1>2. P = CHOOSE g : g = [n \in 0 .. N |-> Body(g, n)]
    BY DEF PendingAfter, PendingStep, NothingPending
  <1>3. ASSUME NEW t \in T, NEW c
        PROVE  PendingStep(runs, t, c) \in T
    <2>1. CASE \E run \in runs : run.first = c
      <3> DEFINE run == CHOOSE r \in runs : r.first = c
      <3>1. run \in runs
        BY <2>1
      <3> HIDE DEF run
      <3>2. AddClusterRange(t, run) \in T
        BY <3>1, AddClusterRangeIs
      <3> QED BY <2>1, <3>2 DEF PendingStep, run
    <2>2. CASE ~\E run \in runs : run.first = c
      BY <2>2 DEF PendingStep
    <2> QED BY <2>1, <2>2
  <1>4. NothingPending \in T
    BY EmptyIs DEF NothingPending, Pendings
  <1> HIDE DEF T, P
  <1>5. IsLoop(N, T, NothingPending, hop, step)
    <2>1. hop \in [1 .. N -> Nat] /\ \A n \in 1 .. N : hop[n] < n
      BY <1>1
    <2>2. step \in [1 .. N -> [T -> T]]
      BY <1>3
    <2> HIDE DEF hop, step
    <2> QED BY <1>1, <1>4, <2>1, <2>2 DEF IsLoop
  <1>6. PICK f : IsResult(f, N, T, NothingPending, hop, step)
    <2> HIDE DEF hop, step
    <2> QED BY <1>5, LoopExists
  <1>7. ASSUME NEW n \in 0 .. N
        PROVE  f[n] = Body(f, n)
    <2>1. CASE n = 0
      BY <2>1, <1>6 DEF IsResult
    <2>2. CASE n # 0
      <3>1. n \in 1 .. N /\ n - 1 \in 0 .. N
        BY <2>2, <1>1
      <3>2. hop[n] = n - 1 /\ f[n - 1] \in T
        BY <3>1, <1>6 DEF IsResult
      <3>3. f[n] = step[n][f[n - 1]]
        <4> HIDE DEF hop, step
        <4> QED BY <3>1, <3>2, <1>6 DEF IsResult
      <3>4. f[n] = PendingStep(runs, f[n - 1], n - 1)
        BY <3>1, <3>2, <3>3
      <3> QED BY <3>4, <2>2
    <2> QED BY <2>1, <2>2
  <1>8. f = [n \in 0 .. N |-> Body(f, n)]
    <2>1. DOMAIN f = 0 .. N /\ f = [n \in DOMAIN f |-> f[n]]
      BY <1>6 DEF IsResult
    <2> HIDE DEF Body
    <2> QED BY <2>1, <1>7
  <1>9. P = [n \in 0 .. N |-> Body(P, n)]
    <2> HIDE DEF Body
    <2> QED BY <1>2, <1>8, Zenon
  <1>10. P[0] = NothingPending
    BY <1>1, <1>9
  <1>11. \A n \in 1 .. N : P[n] = PendingStep(runs, P[n - 1], n - 1)
    <2> TAKE n \in 1 .. N
    <2>1. n \in 0 .. N /\ n # 0
      BY <1>1
    <2>2. P[n] = Body(P, n)
      <3> HIDE DEF Body
      <3> QED BY <1>9, <2>1
    <2> QED BY <2>1, <2>2
  <1>12. \A n \in 0 .. N : P[n] \in T
    <2> DEFINE D == {n \in 0 .. N : P[n] \notin T}
    <2>1. SUFFICES ASSUME D # {} PROVE FALSE
      OBVIOUS
    <2>2. PICK n \in D : \A m \in D : n <= m
      <3>1. D \in SUBSET Nat
        BY <1>1
      <3> HIDE DEF D
      <3> QED BY <3>1, <2>1, NatMin
    <2>3. n # 0
      BY <1>4, <1>10
    <2>4. n \in 1 .. N /\ n - 1 \in 0 .. N /\ ~(n <= n - 1)
      BY <2>3, <1>1
    <2>5. P[n - 1] \in T
      BY <2>2, <2>4
    <2> QED BY <2>4, <2>5, <1>3, <1>11
  <1>13. P \in [0 .. N -> T]
    <2>1. DOMAIN P = 0 .. N /\ P = [n \in DOMAIN P |-> P[n]]
      <3> HIDE DEF Body
      <3> QED BY <1>9
    <2> QED BY <2>1, <1>12
  <1> QED BY <1>10, <1>11, <1>13 DEF P, T

\* Multiples of the block size are ordered as their factors.
LEMMA BlockOrder ==
  ASSUME NEW x \in Nat, NEW y \in Nat
  PROVE  x * BlockSize > y * BlockSize <=> x > y
  <1>1. BlockSize \in Nat \ {0}
    BY BlockAssumption
  <1>2. x <= y => BlockSize * x <= BlockSize * y
    BY <1>1, MulMono
  <1>3. y + 1 <= x => BlockSize * (y + 1) <= BlockSize * x
    BY <1>1, MulMono
  <1>4. /\ x * BlockSize = BlockSize * x /\ y * BlockSize = BlockSize * y
        /\ BlockSize * (y + 1) = BlockSize * y + BlockSize
        /\ BlockSize * x \in Nat /\ BlockSize * y \in Nat
    BY <1>1
  <1> QED BY <1>1, <1>2, <1>3, <1>4

\* The blocks of a run.
RunBlocks(run) == FirstBlock(run.first) .. LimitBlock(run.limit) - 1

\* What is pending is [f, l): all blocks of the runs that begin before cluster
\* n are inserted or pending, and no later run begins before it or ends in it.
IsPending(runs, pending, n, f, l) ==
    /\ f \in Nat /\ l \in Nat /\ f <= l
    /\ pending.range_first = f * BlockSize
    /\ pending.range_limit = l * BlockSize
    /\ \A run \in runs : run.first < n =>
           \A b \in RunBlocks(run) :
               b \in pending.blocks.bits \/ b \in f .. l - 1
    /\ \A run \in runs : run.first >= n =>
           f <= FirstBlock(run.first) /\ l <= LimitBlock(run.limit)

\* add_cluster_range keeps that.
LEMMA PendingStepIs ==
  ASSUME NEW runs, \A run \in runs : IsRun(run), Disjoint(runs),
         NEW pending \in Pendings, NEW c \in Nat, NEW f, NEW l,
         IsPending(runs, pending, c, f, l)
  PROVE  \E F, L : IsPending(runs, PendingStep(runs, pending, c), c + 1, F, L)
  <1>1. /\ f \in Nat /\ l \in Nat /\ f <= l
        /\ pending.range_first = f * BlockSize
        /\ pending.range_limit = l * BlockSize
        /\ \A run \in runs : run.first < c =>
             \A b \in RunBlocks(run) :
                b \in pending.blocks.bits \/ b \in f .. l - 1
        /\ \A run \in runs : run.first >= c =>
             f <= FirstBlock(run.first) /\ l <= LimitBlock(run.limit)
    BY DEF IsPending
  <1>2. \A run \in runs : run.first \in Nat /\ run.limit \in Nat \ {0}
                          /\ run.first < run.limit
    BY DEF IsRun
  <1>3. CASE ~\E run \in runs : run.first = c
    <2>1. PendingStep(runs, pending, c) = pending
      BY <1>3 DEF PendingStep
    <2>2. \A run \in runs : /\ run.first < c + 1 <=> run.first < c
                            /\ run.first >= c + 1 => run.first >= c
      BY <1>2, <1>3
    <2>3. IsPending(runs, pending, c + 1, f, l)
      BY <1>1, <2>2 DEF IsPending
    <2> QED BY <2>1, <2>3
  <1>4. CASE \E run \in runs : run.first = c
    <2> DEFINE r == CHOOSE run \in runs : run.first = c
    <2>1. r \in runs /\ r.first = c
      BY <1>4
    <2>2. PendingStep(runs, pending, c) = AddClusterRange(pending, r)
      BY <1>4 DEF PendingStep
    <2> HIDE DEF r
    <2> DEFINE F == FirstBlock(r.first)
               L == LimitBlock(r.limit)
               new == PendingStep(runs, pending, c)
               inserted == InsertRange(pending.blocks, f * BlockSize,
                                       l * BlockSize)
    <2>3. F \in Nat /\ L \in Nat /\ F < L /\ f <= F /\ l <= L
      BY <2>1, <1>1, <1>2, BlockRange
    <2>4. ASSUME NEW s \in runs
          PROVE  /\ s.first = c => s = r
                 /\ s.first >= c + 1 => /\ r.limit <= s.first
                                        /\ F <= FirstBlock(s.first)
                                        /\ L <= LimitBlock(s.limit)
      <3>1. s = r \/ r.limit <= s.first \/ s.limit <= r.first
        BY <2>1 DEF Disjoint
      <3>2. /\ s.first \in Nat /\ s.limit \in Nat \ {0} /\ s.first < s.limit
            /\ r.limit \in Nat \ {0} /\ c < r.limit
        BY <2>1, <1>2
      <3>3. s.first = c => s = r
        BY <3>1, <3>2, <2>1
      <3>4. s.first >= c + 1 => r.limit <= s.first /\ r.limit <= s.limit
                                /\ c <= s.first
        BY <3>1, <3>2, <2>1
      <3>5. c <= s.first => F <= FirstBlock(s.first)
        BY <3>2, <2>1, BlockRange
      <3>6. r.limit <= s.limit => L <= LimitBlock(s.limit)
        BY <3>2, BlockRange
      <3> QED BY <3>3, <3>4, <3>5, <3>6
    <2>5. new = IF F * BlockSize > l * BlockSize
                THEN [range_first |-> F * BlockSize,
                      range_limit |-> L * BlockSize, blocks |-> inserted]
                ELSE [range_first |-> f * BlockSize,
                      range_limit |-> L * BlockSize,
                      blocks |-> pending.blocks]
      BY <2>1, <2>2, <1>1, AddClusterRangeIs
    <2>6. inserted.bits = pending.blocks.bits \cup (f .. l - 1)
      <3>1. pending.blocks \in BitmapSets
        BY DEF Pendings
      <3> QED BY <3>1, <1>1, InsertRangeIs
    <2>7. RunBlocks(r) = F .. L - 1
      BY DEF RunBlocks
    <2>8. \A s \in runs : s.first < c + 1 => s.first < c \/ s = r
      <3> TAKE s \in runs
      <3>1. s.first \in Nat
        BY <1>2
      <3>2. s.first < c + 1 => s.first < c \/ s.first = c
        BY <3>1
      <3> QED BY <3>2, <2>4
    <2>9. \A s \in runs : s.first >= c + 1 =>
             F <= FirstBlock(s.first) /\ L <= LimitBlock(s.limit)
      BY <2>4
    <2>10. \A s \in runs : \A b \in RunBlocks(s) : b \in Int
      <3> TAKE s \in runs
      <3>1. FirstBlock(s.first) \in Nat /\ LimitBlock(s.limit) \in Nat
        BY <1>2, BlockRange
      <3> QED BY <3>1 DEF RunBlocks
    <2>11. \A s \in runs : FirstBlock(s.first) \in Nat
      BY <1>2, BlockRange
    <2> HIDE DEF F, L, new, inserted
    <2>12. CASE F > l
      <3>1. new = [range_first |-> F * BlockSize,
                   range_limit |-> L * BlockSize, blocks |-> inserted]
        BY <2>12, <2>3, <2>5, <1>1, BlockOrder
      <3>2. /\ new.range_first = F * BlockSize
            /\ new.range_limit = L * BlockSize
            /\ new.blocks.bits = pending.blocks.bits \cup (f .. l - 1)
        BY <3>1, <2>6
      <3>3. \A s \in runs : s.first < c + 1 =>
               \A b \in RunBlocks(s) :
                   b \in new.blocks.bits \/ b \in F .. L - 1
        BY <3>2, <2>7, <2>8, <1>1
      <3>4. IsPending(runs, new, c + 1, F, L)
        BY <3>2, <3>3, <2>3, <2>9 DEF IsPending
      <3> QED BY <3>4 DEF new
    <2>13. CASE ~(F > l)
      <3>1. new = [range_first |-> f * BlockSize,
                   range_limit |-> L * BlockSize, blocks |-> pending.blocks]
        BY <2>13, <2>3, <2>5, <1>1, BlockOrder
      <3>2. /\ new.range_first = f * BlockSize
            /\ new.range_limit = L * BlockSize
            /\ new.blocks.bits = pending.blocks.bits
        BY <3>1
      <3>3. \A b \in Int : b \in f .. l - 1 \/ b \in F .. L - 1 =>
                              b \in f .. L - 1
        BY <2>3, <1>1
      <3>4. \A s \in runs : s.first < c + 1 =>
               \A b \in RunBlocks(s) :
                   b \in new.blocks.bits \/ b \in f .. L - 1
        BY <3>2, <3>3, <2>7, <2>8, <2>10, <1>1
      <3>5. \A s \in runs : s.first >= c + 1 =>
               f <= FirstBlock(s.first) /\ L <= LimitBlock(s.limit)
        BY <2>3, <2>9, <2>11, <1>1
      <3>6. f <= L
        BY <2>3, <1>1
      <3>7. IsPending(runs, new, c + 1, f, L)
        BY <3>2, <3>4, <3>5, <3>6, <2>3, <1>1 DEF IsPending
      <3> QED BY <3>7 DEF new
    <2> QED BY <2>12, <2>13
  <1> QED BY <1>3, <1>4

\* Every block of a cluster whose allocation differs is in the set.
LEMMA AllocationChangesAreCovered ==
  ASSUME NEW previous \in SUBSET Nat, NEW current \in SUBSET Nat
  PROVE  LET blocks == ReadAllocationChangeBlocks(previous, current)
         IN  /\ blocks \in BitmapSets
             /\ \A c \in (previous \ current) \cup (current \ previous) :
                   c < ClusterCount => BlocksOf(c) \subseteq blocks.bits
  <1> DEFINE runs == ChangedRuns(previous, current)
             changed == (previous \ current) \cup (current \ previous)
             N == ClusterCount
             P == PendingAfter(runs)
             Good(n) == \E f, l : IsPending(runs, P[n], n, f, l)
             blocks == ReadAllocationChangeBlocks(previous, current)
  <1>1. /\ \A run \in runs : IsRun(run)
        /\ Disjoint(runs)
        /\ \A c \in changed : c < ClusterCount => Covers(runs, c)
    BY ChangedRunsAre
  <1>2. N \in Nat
    BY ClusterAssumption
  <1>3. blocks = InsertRange(P[N].blocks, P[N].range_first, P[N].range_limit)
    BY DEF ReadAllocationChangeBlocks
  <1>4. changed \subseteq Nat
    OBVIOUS
  <1> HIDE DEF runs, changed, blocks
  <1>5. /\ P \in [0 .. N -> Pendings] /\ P[0] = NothingPending
        /\ \A n \in 1 .. N : P[n] = PendingStep(runs, P[n - 1], n - 1)
    BY <1>1, PendingAfterIs
  <1> HIDE DEF P
  <1>6. \A run \in runs : run.first \in Nat /\ run.limit \in Nat \ {0}
                          /\ run.first < run.limit /\ run.limit <= N
    BY <1>1, <1>2 DEF IsRun
  <1>7. Good(0)
    <2>1. /\ P[0].range_first = 0 * BlockSize
          /\ P[0].range_limit = 0 * BlockSize
      BY <1>5, BlockAssumption DEF NothingPending
    <2>2. \A run \in runs : 0 <= FirstBlock(run.first)
                            /\ 0 <= LimitBlock(run.limit)
      BY <1>6, BlockRange
    <2>3. \A run \in runs : ~(run.first < 0)
      BY <1>6
    <2>4. IsPending(runs, P[0], 0, 0, 0)
      BY <2>1, <2>2, <2>3 DEF IsPending
    <2> QED BY <2>4
  <1>8. Good(N)
    <2> DEFINE D == {n \in 0 .. N : ~Good(n)}
    <2>1. SUFFICES ASSUME D # {} PROVE FALSE
      BY <1>2
    <2>2. PICK n \in D : \A m \in D : n <= m
      <3>1. D \in SUBSET Nat
        BY <1>2
      <3> HIDE DEF D
      <3> QED BY <3>1, <2>1, NatMin
    <2>3. n # 0
      BY <1>7
    <2>4. /\ n \in 1 .. N /\ n - 1 \in 0 .. N /\ n - 1 \in Nat
          /\ ~(n <= n - 1) /\ (n - 1) + 1 = n
      BY <2>3, <1>2
    <2>5. PICK f, l : IsPending(runs, P[n - 1], n - 1, f, l)
      BY <2>2, <2>4
    <2>6. P[n - 1] \in Pendings
      BY <2>4, <1>5
    <2>7. \E F, L : IsPending(runs, PendingStep(runs, P[n - 1], n - 1),
                              (n - 1) + 1, F, L)
      BY <2>4, <2>5, <2>6, <1>1, PendingStepIs
    <2>8. Good(n)
      BY <2>4, <2>7, <1>5
    <2> QED BY <2>8
  <1>9. PICK f, l : IsPending(runs, P[N], N, f, l)
    BY <1>8
  <1>10. P[N].blocks \in BitmapSets
    BY <1>5, <1>2 DEF Pendings
  <1>11. /\ blocks \in BitmapSets
         /\ blocks.bits = P[N].blocks.bits \cup (f .. l - 1)
    <2>1. /\ f \in Nat /\ l \in Nat /\ f <= l
          /\ P[N].range_first = f * BlockSize
          /\ P[N].range_limit = l * BlockSize
      BY <1>9 DEF IsPending
    <2> QED BY <2>1, <1>3, <1>10, InsertRangeIs
  <1>12. ASSUME NEW run \in runs
         PROVE  RunBlocks(run) \subseteq blocks.bits
    <2>1. run.first < N
      BY <1>2, <1>6
    <2> QED BY <2>1, <1>9, <1>11 DEF IsPending
  <1>13. ASSUME NEW c \in changed, c < ClusterCount
         PROVE  BlocksOf(c) \subseteq blocks.bits
    <2>1. PICK run \in runs : run.first <= c /\ c < run.limit
      BY <1>1, <1>13 DEF Covers
    <2>2. c \in Nat /\ c + 1 \in Nat \ {0} /\ c + 1 <= run.limit
      BY <2>1, <1>4, <1>6
    <2>3. /\ FirstBlock(run.first) <= FirstBlock(c)
          /\ LimitBlock(c + 1) <= LimitBlock(run.limit)
          /\ FirstBlock(run.first) \in Nat /\ FirstBlock(c) \in Nat
          /\ LimitBlock(run.limit) \in Nat /\ LimitBlock(c + 1) \in Nat
      BY <2>1, <2>2, <1>6, BlockRange
    <2>4. BlocksOf(c) = FirstBlock(c) .. LimitBlock(c + 1) - 1
      BY <2>2, BlocksOfIs
    <2>5. BlocksOf(c) \subseteq RunBlocks(run)
      BY <2>3, <2>4 DEF RunBlocks
    <2> QED BY <2>5, <1>12
  <1> QED BY <1>11, <1>13 DEF blocks, changed

\* AddRange of SviExtentReader, rounding outward, adds the blocks of a cluster.
LEMMA AddExtentIs ==
  ASSUME NEW set \in BitmapSets, NEW c \in Nat
  PROVE  /\ AddExtent(set, c) \in BitmapSets
         /\ set.bits \cup BlocksOf(c) \subseteq AddExtent(set, c).bits
  <1> DEFINE start == c * ClusterSize
             end == start + ClusterSize
             f == start \div BlockSize
             p == CeilDiv(end, BlockSize)
             q == (end - 1) \div BlockSize
  <1>1. ClusterSize \in Nat \ {0} /\ BlockSize \in Nat \ {0}
    BY ClusterAssumption, BlockAssumption
  <1>2. start \in Nat /\ end \in Nat /\ end - 1 \in Nat /\ start <= end - 1
    BY <1>1
  <1>3. AddExtent(set, c) = InsertRange(set, f * BlockSize, p * BlockSize)
    BY DEF AddExtent
  <1>4. BlocksOf(c) = f .. q
    <2>1. c * ClusterSize + ClusterSize - 1 = end - 1
      BY <1>1
    <2> HIDE DEF end
    <2> QED BY <2>1 DEF BlocksOf
  <1> HIDE DEF start, end
  <1>5. f \in Nat /\ q \in Nat /\ f <= q /\ p \in Nat
    BY <1>1, <1>2, DivMod, DivMono, CeilDivIs
  <1>6. q < p
    <2>1. BlockSize * q <= end - 1 /\ BlockSize * q \in Nat
      BY <1>1, <1>2, <1>5, DivRange
    <2> HIDE DEF q
    <2>2. BlockSize * q < end
      BY <2>1, <1>2
    <2> QED BY <2>2, <1>1, <1>2, <1>5, CeilDivIs
  <1> HIDE DEF f, p, q
  <1>7. f <= p /\ f .. q \subseteq f .. p - 1
    BY <1>5, <1>6
  <1>8. /\ AddExtent(set, c) \in BitmapSets
        /\ AddExtent(set, c).bits = set.bits \cup (f .. p - 1)
    <2>1. /\ InsertRange(set, f * BlockSize, p * BlockSize) \in BitmapSets
          /\ InsertRange(set, f * BlockSize, p * BlockSize).bits =
                 set.bits \cup (f .. p - 1)
      BY <1>5, <1>7, InsertRangeIs
    <2> QED BY <2>1, <1>3
  <1> QED BY <1>4, <1>7, <1>8

\* Every block of a cluster of System Volume Information is in the set, and so
\* are the blocks that were there before.
LEMMA SviBlocksAreCovered ==
  ASSUME NEW set \in BitmapSets, NEW clusters
  PROVE  LET blocks == ReadBlockOffsets(clusters, set)
         IN  /\ blocks \in BitmapSets
             /\ set.bits \subseteq blocks.bits
             /\ \A c \in clusters : c \in 0 .. ClusterCount - 1 =>
                   BlocksOf(c) \subseteq blocks.bits
  <1> DEFINE N == ClusterCount
             T == BitmapSets
             Step(t, n) ==
                IF n - 1 \in clusters THEN AddExtent(t, n - 1) ELSE t
             Body(g, n) == IF n = 0 THEN set
                           ELSE IF n - 1 \in clusters
                                THEN AddExtent(g[n - 1], n - 1) ELSE g[n - 1]
             G == CHOOSE g : g = [n \in 0 .. N |-> Body(g, n)]
             hop == [n \in 1 .. N |-> n - 1]
             step == [n \in 1 .. N |-> [t \in T |-> Step(t, n)]]
             blocks == ReadBlockOffsets(clusters, set)
  <1>1. N \in Nat
    BY ClusterAssumption
  <1>2. blocks = G[N]
    BY DEF ReadBlockOffsets
  <1>3. ASSUME NEW t \in T, NEW n \in 1 .. N
        PROVE  /\ Step(t, n) \in T /\ t.bits \subseteq Step(t, n).bits
               /\ n - 1 \in clusters =>
                      BlocksOf(n - 1) \subseteq Step(t, n).bits
    <2>1. n - 1 \in Nat
      BY <1>1
    <2> QED BY <2>1, AddExtentIs
  <1>4. \A g : \A n \in 1 .. N : Body(g, n) = Step(g[n - 1], n)
    BY <1>1
  <1>5. \A g : Body(g, 0) = set
    OBVIOUS
  <1> HIDE DEF T, Step, Body
  <1>6. IsLoop(N, T, set, hop, step)
    <2>1. hop \in [1 .. N -> Nat] /\ \A n \in 1 .. N : hop[n] < n
      BY <1>1
    <2>2. step \in [1 .. N -> [T -> T]]
      BY <1>3
    <2>3. set \in T
      BY DEF T
    <2> HIDE DEF hop, step
    <2> QED BY <1>1, <2>1, <2>2, <2>3 DEF IsLoop
  <1>7. PICK f : IsResult(f, N, T, set, hop, step)
    <2> HIDE DEF hop, step
    <2> QED BY <1>6, LoopExists
  <1>8. ASSUME NEW n \in 0 .. N
        PROVE  f[n] = Body(f, n)
    <2>1. CASE n = 0
      BY <2>1, <1>5, <1>7 DEF IsResult
    <2>2. CASE n # 0
      <3>1. n \in 1 .. N /\ n - 1 \in 0 .. N
        BY <2>2, <1>1
      <3>2. hop[n] = n - 1 /\ f[n - 1] \in T
        BY <3>1, <1>7 DEF IsResult
      <3>3. f[n] = step[n][f[n - 1]]
        <4> HIDE DEF hop, step
        <4> QED BY <3>1, <3>2, <1>7 DEF IsResult
      <3>4. f[n] = Step(f[n - 1], n)
        BY <3>1, <3>2, <3>3
      <3> QED BY <3>1, <3>4, <1>4
    <2> QED BY <2>1, <2>2
  <1>9. f = [n \in 0 .. N |-> Body(f, n)]
    <2>1. DOMAIN f = 0 .. N /\ f = [n \in DOMAIN f |-> f[n]]
      BY <1>7 DEF IsResult
    <2> QED BY <2>1, <1>8
  <1>10. G = [n \in 0 .. N |-> Body(G, n)]
    BY <1>9, Zenon
  <1> HIDE DEF G
  <1>11. G[0] = set /\ \A n \in 1 .. N : G[n] = Step(G[n - 1], n)
    <2>1. \A n \in 0 .. N : G[n] = Body(G, n)
      BY <1>10
    <2>2. 0 \in 0 .. N /\ \A n \in 1 .. N : n \in 0 .. N
      BY <1>1
    <2> QED BY <2>1, <2>2, <1>4, <1>5
  <1> DEFINE Good(n) == /\ G[n] \in T /\ set.bits \subseteq G[n].bits
                        /\ \A c \in clusters : c \in 0 .. n - 1 =>
                               BlocksOf(c) \subseteq G[n].bits
  <1>12. Good(0)
    BY <1>11 DEF T
  <1>13. Good(N)
    <2> DEFINE D == {n \in 0 .. N : ~Good(n)}
    <2>1. SUFFICES ASSUME D # {} PROVE FALSE
      <3>1. N \in 0 .. N
        BY <1>1
      <3> HIDE DEF Good
      <3> QED BY <3>1
    <2>2. PICK n \in D : \A m \in D : n <= m
      <3>1. D \in SUBSET Nat
        BY <1>1
      <3> HIDE DEF D
      <3> QED BY <3>1, <2>1, NatMin
    <2>3. n # 0
      BY <1>12
    <2>4. n \in 1 .. N /\ n - 1 \in 0 .. N /\ ~(n <= n - 1)
      BY <2>3, <1>1
    <2>5. Good(n - 1)
      <3> HIDE DEF Good
      <3> QED BY <2>2, <2>4
    <2>6. /\ G[n] \in T /\ G[n - 1].bits \subseteq G[n].bits
          /\ n - 1 \in clusters => BlocksOf(n - 1) \subseteq G[n].bits
      BY <2>4, <2>5, <1>3, <1>11
    <2>7. ASSUME NEW c \in clusters, c \in 0 .. n - 1
          PROVE  BlocksOf(c) \subseteq G[n].bits
      <3>1. c = n - 1 \/ c \in 0 .. (n - 1) - 1
        BY <2>4, <2>7
      <3> QED BY <3>1, <2>5, <2>6
    <2>8. Good(n)
      BY <2>5, <2>6, <2>7
    <2> HIDE DEF Good
    <2> QED BY <2>8
  <1> QED BY <1>2, <1>13 DEF T

-----------------------------------------------------------------------------
(* The dirty-block map.                                                    *)

Descriptors == [original_offset : Nat, relative_offset : Nat,
                store_offset : Nat, forwarder : BOOLEAN]

\* The blocks that the descriptors name are in the set.
LEMMA DescriptorBlocksAreCovered ==
  ASSUME NEW stores, \A s \in stores : s.store \subseteq Descriptors
  PROVE  LET blocks == ReadDescriptorBlocks(stores)
         IN  /\ blocks \in BitmapSets
             /\ \A s \in stores : \A d \in s.store :
                   d.original_offset < VolumeSize =>
                       d.original_offset \div BlockSize \in blocks.bits
  <1> DEFINE all == UNION {s.store : s \in stores}
             bits == UNION {DescriptorBlocks(d) : d \in all}
             top == VolumeSize \div BlockSize
  <1>1. BlockSize \in Nat \ {0} /\ VolumeSize \in Nat
    BY ClusterAssumption, BlockAssumption DEF VolumeSize
  <1>2. top \in Nat
    BY <1>1, DivMod
  <1>3. ASSUME NEW d \in Descriptors
        PROVE  /\ DescriptorBlocks(d) \subseteq 0 .. top
               /\ d.original_offset < VolumeSize =>
                      d.original_offset \div BlockSize \in DescriptorBlocks(d)
    <2> DEFINE copied == {d.original_offset, d.store_offset}
               offsets == IF d.forwarder THEN copied \cup {d.relative_offset}
                          ELSE copied
    <2>1. DescriptorBlocks(d) =
             {o \div BlockSize : o \in {x \in offsets : x < VolumeSize}}
      BY DEF DescriptorBlocks
    <2>2. offsets \subseteq Nat /\ d.original_offset \in offsets
      BY DEF Descriptors
    <2> HIDE DEF offsets
    <2>3. ASSUME NEW o \in offsets, o < VolumeSize
          PROVE  o \div BlockSize \in 0 .. top
      <3>1. o \in Nat /\ o <= VolumeSize
        BY <2>2, <2>3, <1>1
      <3>2. o \div BlockSize <= top /\ o \div BlockSize \in Nat
        BY <3>1, <1>1, DivMod, DivMono
      <3> QED BY <3>2, <1>2
    <2> QED BY <2>1, <2>2, <2>3
  <1>4. all \subseteq Descriptors
    OBVIOUS
  <1>5. bits \subseteq 0 .. top
    <2> HIDE DEF all
    <2> QED BY <1>3, <1>4
  <1>6. bits \in SUBSET Nat /\ IsFiniteSet(bits)
    <2> HIDE DEF bits
    <2>1. IsFiniteSet(0 .. top)
      BY <1>2, FS_Interval
    <2>2. IsFiniteSet(bits)
      BY <2>1, <1>5, FS_Subset
    <2> QED BY <2>2, <1>2, <1>5
  <1>7. ReadDescriptorBlocks(stores) = InsertBits(EmptyBitmapSet, bits)
    BY DEF ReadDescriptorBlocks
  <1>8. ASSUME NEW s \in stores, NEW d \in s.store,
               d.original_offset < VolumeSize
        PROVE  d.original_offset \div BlockSize \in bits
    <2>1. d \in all /\ d \in Descriptors
      OBVIOUS
    <2> HIDE DEF all
    <2> QED BY <2>1, <1>3, <1>8
  <1> HIDE DEF bits
  <1>9. /\ ReadDescriptorBlocks(stores) \in BitmapSets
        /\ ReadDescriptorBlocks(stores).bits = bits
    BY <1>6, <1>7, EmptyIs, InsertBitsIs
  <1> QED BY <1>8, <1>9

-----------------------------------------------------------------------------
(* The inductive invariant.                                                *)

Snapshots == [id : {"baseline", "other", "payload", "successor"},
              creation_time : Nat, in_volume : BOOLEAN,
              alloc : SUBSET Clusters, svi : SUBSET Clusters,
              store : SUBSET Descriptors]

CatalogInv == snapshots \in Seq(Snapshots) /\ past \in Snapshots

\* The catalog is in the order of the times of creation.
OrderInv ==
    \A k, l \in DOMAIN snapshots :
        k <= l => snapshots[k].creation_time <= snapshots[l].creation_time

\* A snapshot of the time before the payload.
IsEarlier(s) == s.id \in {"baseline", "other"}

\* The baseline is the first entry and has the clusters it was taken with.
\* The payload is there once it was taken, with what was taken before it on
\* one side and what was taken after it on the other.
IdentityInv ==
    /\ \A k \in DOMAIN snapshots : snapshots[k].id = "baseline" =>
           /\ k = 1
           /\ snapshots[k].alloc = past.alloc /\ snapshots[k].svi = past.svi
    /\ stage = "changing" =>
           \A k \in DOMAIN snapshots : IsEarlier(snapshots[k])
    /\ stage # "changing" => \E p \in DOMAIN snapshots :
           /\ snapshots[p].id = "payload"
           /\ \A k \in DOMAIN snapshots :
                  /\ k < p => IsEarlier(snapshots[k])
                  /\ k > p => snapshots[k].id = "successor"

\* A block is in the store of an earlier snapshot.
IsStored(b) ==
    \E k \in DOMAIN snapshots :
        /\ IsEarlier(snapshots[k])
        /\ \E d \in snapshots[k].store : d.original_offset = b * BlockSize

\* As long as the baseline exists, what was written since is in a store.
WrittenInv ==
    (\E k \in DOMAIN snapshots : snapshots[k].id = "baseline") =>
        \A c \in written \cap (past.alloc \ past.svi) :
            \A b \in BlocksOf(c) : IsStored(b)

NoMapInv == stage # "prepared" => dirty_map = {NoMap}

IncrementalInv ==
    /\ TypeOK /\ CatalogInv /\ OrderInv /\ IdentityInv /\ WrittenInv
    /\ NoMapInv /\ DirtyMapCoversChanges

-----------------------------------------------------------------------------
(* What the actions do to the catalog.                                     *)

\* Entries are the same up to what is in the store.
SameEntry(s, t) ==
    /\ t.id = s.id /\ t.creation_time = s.creation_time
    /\ t.alloc = s.alloc /\ t.svi = s.svi
    /\ \A d \in s.store : d \in t.store

\* Copy on write adds to the newest store what is not in it.
LEMMA CopyOnWriteIs ==
  ASSUME TypeOK, CatalogInv, snapshots # <<>>, NEW c \in Clusters
  PROVE  LET new == CopyOnWrite(c)
             newest == Len(snapshots)
         IN  /\ new \in Seq(Snapshots) /\ Len(new) = newest
             /\ \A k \in 1 .. newest : SameEntry(snapshots[k], new[k])
             /\ (\E k \in 1 .. newest :
                    c \in snapshots[k].alloc \ snapshots[k].svi) =>
                    \A b \in BlocksOf(c) : \E d \in new[newest].store :
                        d.original_offset = b * BlockSize
  <1> DEFINE n == Len(snapshots)
             needed == \E k \in 1 .. n :
                           c \in snapshots[k].alloc \ snapshots[k].svi
             blocks == {b \in BlocksOf(c) :
                           \A d \in snapshots[n].store :
                               d.original_offset # b * BlockSize}
             added == {CopiedBlock(b) : b \in blocks}
             new == CopyOnWrite(c)
  <1>0. /\ snapshots \in Seq(Snapshots) /\ n \in Nat /\ n >= 1
        /\ \A k \in 1 .. n : snapshots[k] \in Snapshots
    BY DEF CatalogInv
  <1>1. new = IF needed THEN [snapshots EXCEPT ![n].store = @ \cup added]
              ELSE snapshots
    BY DEF CopyOnWrite
  <1>2. \A b \in BlocksOf(c) : b \in Nat
    <2>1. c \in Nat
      BY ClusterAssumption DEF Clusters
    <2>2. FirstBlock(c) \in Nat /\ LimitBlock(c + 1) \in Nat
      BY <2>1, BlockRange
    <2>3. BlocksOf(c) = FirstBlock(c) .. LimitBlock(c + 1) - 1
      BY <2>1, BlocksOfIs
    <2> QED BY <2>2, <2>3
  <1>3. ASSUME NEW b \in BlocksOf(c)
        PROVE  /\ CopiedBlock(b) \in Descriptors
               /\ CopiedBlock(b).original_offset = b * BlockSize
    <2>1. b * BlockSize \in Nat
      BY <1>2, BlockAssumption
    <2>2. (IF svi = {} THEN VolumeSize ELSE Min(svi) * ClusterSize) \in Nat
      <3>1. svi \in SUBSET Nat
        BY ClusterAssumption DEF TypeOK, Clusters
      <3>2. svi # {} => Min(svi) \in Nat
        BY <3>1, NatMin
      <3>3. VolumeSize \in Nat
        BY ClusterAssumption DEF VolumeSize
      <3> QED BY <3>2, <3>3, ClusterAssumption
    <2> QED BY <2>1, <2>2 DEF CopiedBlock, Descriptors
  <1>4. added \subseteq Descriptors
    BY <1>3
  <1> HIDE DEF n, needed, added, new
  <1>5. CASE ~needed
    BY <1>0, <1>1, <1>5 DEF SameEntry, n, needed, new
  <1>6. CASE needed
    <2> DEFINE top == [snapshots[n] EXCEPT !.store = @ \cup added]
    <2>1. /\ top \in Snapshots /\ top.store = snapshots[n].store \cup added
          /\ SameEntry(snapshots[n], top)
      <3>1. snapshots[n] \in Snapshots
        BY <1>0
      <3> QED BY <3>1, <1>4 DEF Snapshots, SameEntry
    <2>2. new = [snapshots EXCEPT ![n] = top]
      BY <1>1, <1>6
    <2> HIDE DEF top
    <2>3. /\ new \in Seq(Snapshots) /\ Len(new) = n /\ new[n] = top
          /\ \A k \in 1 .. n : k # n => new[k] = snapshots[k]
      BY <1>0, <2>1, <2>2 DEF n
    <2>4. \A k \in 1 .. n : SameEntry(snapshots[k], new[k])
      BY <2>1, <2>3 DEF SameEntry
    <2>5. ASSUME NEW b \in BlocksOf(c)
          PROVE  \E d \in new[n].store : d.original_offset = b * BlockSize
      <3>1. CASE b \in blocks
        BY <3>1, <2>1, <2>3, <1>3 DEF added
      <3>2. CASE b \notin blocks
        BY <3>2, <2>1, <2>3
      <3> QED BY <3>1, <3>2
    <2> QED BY <2>3, <2>4, <2>5 DEF n, new
  <1> QED BY <1>5, <1>6

\* A deleted entry's store passes to the entry before it.
LEMMA DeleteSnapshotIs ==
  ASSUME CatalogInv, NEW k \in DOMAIN snapshots, DeleteSnapshot(k)
  PROVE  /\ snapshots' \in Seq(Snapshots)
         /\ Len(snapshots') = Len(snapshots) - 1
         /\ \A i \in 1 .. Len(snapshots) - 1 :
               /\ i < k => SameEntry(snapshots[i], snapshots'[i])
               /\ i >= k => snapshots'[i] = snapshots[i + 1]
               /\ i = k - 1 => \A d \in snapshots[k].store :
                     \E e \in snapshots'[i].store :
                         e.original_offset = d.original_offset
  <1> DEFINE n == Len(snapshots)
             taken(i) == {d \in snapshots[k].store :
                             \A e \in snapshots[i].store :
                                 e.original_offset # d.original_offset}
             heir(i) == [snapshots[i] EXCEPT !.store = @ \cup taken(i)]
             at(i) == IF i < k - 1 THEN snapshots[i]
                      ELSE IF i = k - 1 THEN heir(i) ELSE snapshots[i + 1]
  <1>0. /\ n \in Nat /\ n >= 1 /\ k \in 1 .. n
        /\ \A i \in 1 .. n : snapshots[i] \in Snapshots
    BY DEF CatalogInv
  <1>1. snapshots' = [i \in 1 .. n - 1 |-> at(i)]
    BY DEF DeleteSnapshot
  <1>2. ASSUME NEW i \in 1 .. n
        PROVE  /\ heir(i) \in Snapshots
               /\ heir(i).store = snapshots[i].store \cup taken(i)
               /\ SameEntry(snapshots[i], heir(i))
    <2>1. snapshots[i] \in Snapshots /\ taken(i) \subseteq Descriptors
      BY <1>0 DEF Snapshots
    <2> HIDE DEF taken
    <2> QED BY <2>1 DEF Snapshots, SameEntry
  <1> HIDE DEF heir
  <1>3. ASSUME NEW i \in 1 .. n - 1
        PROVE  /\ at(i) \in Snapshots
               /\ i < k => SameEntry(snapshots[i], at(i))
               /\ i >= k => at(i) = snapshots[i + 1]
               /\ i = k - 1 => at(i) = heir(i)
    <2>1. i \in 1 .. n /\ i + 1 \in 1 .. n
      BY <1>0
    <2>2. CASE i < k - 1
      <3>1. at(i) = snapshots[i] /\ i < k /\ i # k - 1
        BY <2>2, <2>1, <1>0
      <3> QED BY <3>1, <2>1, <1>0 DEF SameEntry
    <2>3. CASE i = k - 1
      <3>1. at(i) = heir(i) /\ ~(i >= k)
        BY <2>3, <2>1, <1>0
      <3> QED BY <3>1, <2>1, <1>2
    <2>4. CASE i >= k
      <3>1. at(i) = snapshots[i + 1] /\ ~(i < k) /\ i # k - 1
        BY <2>4, <2>1, <1>0
      <3> QED BY <3>1, <2>1, <1>0
    <2> QED BY <2>1, <2>2, <2>3, <2>4, <1>0
  <1> HIDE DEF at, n
  <1>4. n - 1 \in Nat
    BY <1>0
  <1>5. snapshots' \in Seq(Snapshots) /\ Len(snapshots') = n - 1
    BY <1>1, <1>3, <1>4
  <1>6. \A i \in 1 .. n - 1 : snapshots'[i] = at(i)
    BY <1>1
  <1>7. ASSUME NEW i \in 1 .. n - 1, i = k - 1, NEW d \in snapshots[k].store
        PROVE  \E e \in snapshots'[i].store :
                   e.original_offset = d.original_offset
    <2>1. snapshots'[i].store = snapshots[i].store \cup taken(i)
      BY <1>2, <1>3, <1>6, <1>7, <1>0
    <2>2. CASE d \in taken(i)
      BY <2>1, <2>2
    <2>3. CASE d \notin taken(i)
      BY <2>1, <2>3
    <2> QED BY <2>2, <2>3
  <1> QED BY <1>3, <1>5, <1>6, <1>7 DEF n

\* A new entry is put at the end, with a time that is not before the others'.
LEMMA AppendIs ==
  ASSUME CatalogInv, NEW s \in Snapshots, snapshots' = Append(snapshots, s)
  PROVE  /\ snapshots' \in Seq(Snapshots)
         /\ Len(snapshots') = Len(snapshots) + 1
         /\ \A k \in 1 .. Len(snapshots) : snapshots'[k] = snapshots[k]
         /\ snapshots'[Len(snapshots) + 1] = s
BY DEF CatalogInv

\* What the entries of the catalog are.
LEMMA EntryTypes ==
  ASSUME CatalogInv
  PROVE  /\ Len(snapshots) \in Nat /\ DOMAIN snapshots = 1 .. Len(snapshots)
         /\ \A k \in 1 .. Len(snapshots) :
                /\ snapshots[k] \in Snapshots
                /\ snapshots[k].creation_time \in Nat
         /\ past \in Snapshots /\ past.creation_time \in Nat
  <1>1. /\ Len(snapshots) \in Nat /\ DOMAIN snapshots = 1 .. Len(snapshots)
        /\ \A k \in 1 .. Len(snapshots) : snapshots[k] \in Snapshots
        /\ past \in Snapshots
    BY DEF CatalogInv
  <1>2. \A s \in Snapshots : s.creation_time \in Nat
    BY DEF Snapshots
  <1> QED BY <1>1, <1>2

\* The three ways to take a snapshot.
LEMMA TakeIs ==
  ASSUME TypeOK, CatalogInv, OrderInv,
         TakeSnapshot \/ TakePayload \/ TakeSuccessor
  PROVE  \E s \in Snapshots :
            /\ snapshots' = Append(snapshots, s)
            /\ \A k \in DOMAIN snapshots :
                  snapshots[k].creation_time <= s.creation_time
            /\ TakeSnapshot => s.id = "other"
            /\ TakePayload => s.id = "payload"
            /\ TakeSuccessor => s.id = "successor"
  <1> DEFINE n == Len(snapshots)
  <1>0. /\ n \in Nat /\ DOMAIN snapshots = 1 .. n
        /\ \A k \in 1 .. n : snapshots[k].creation_time \in Nat
        /\ past.creation_time \in Nat
    BY EntryTypes
  <1>1. Now \in Nat /\ \A k \in 1 .. n : snapshots[k].creation_time <= Now
    <2>1. CASE n = 0
      <3>1. snapshots = <<>>
        BY <2>1 DEF CatalogInv
      <3> QED BY <3>1, <2>1, <1>0 DEF Now
    <2>2. CASE n # 0
      <3>1. snapshots # <<>> /\ n \in 1 .. n
        BY <2>2, <1>0
      <3>2. Now = snapshots[n].creation_time
        BY <3>1 DEF Now
      <3> QED BY <3>1, <3>2, <1>0 DEF OrderInv
    <2> QED BY <2>1, <2>2
  <1> HIDE DEF n
  <1>2. ASSUME NEW id \in {"baseline", "other", "payload", "successor"},
               NEW t \in Nat, NEW v \in BOOLEAN
        PROVE  /\ Snapshot(id, t, v) \in Snapshots
               /\ Snapshot(id, t, v).creation_time = t
               /\ Snapshot(id, t, v).id = id
    BY DEF Snapshot, Snapshots, TypeOK
  <1>3. ASSUME NEW tick \in {0, 1}
        PROVE  /\ Now + tick \in Nat
               /\ \A k \in 1 .. n : snapshots[k].creation_time <= Now + tick
    BY <1>0, <1>1
  <1>4. CASE TakeSnapshot
    <2>1. PICK tick \in {0, 1}, v \in BOOLEAN :
             snapshots' = Append(snapshots,
                 Snapshot("other",
                          snapshots[Len(snapshots)].creation_time + tick, v))
      BY <1>4 DEF TakeSnapshot
    <2>2. snapshots[Len(snapshots)].creation_time = Now
      BY <1>4 DEF TakeSnapshot, Now
    <2> DEFINE s == Snapshot("other", Now + tick, v)
    <2>3. snapshots' = Append(snapshots, s)
      BY <2>1, <2>2
    <2>4. s \in Snapshots /\ s.creation_time = Now + tick /\ s.id = "other"
      BY <1>2, <1>3
    <2>5. ~TakePayload /\ ~TakeSuccessor
      BY <1>4 DEF TakeSnapshot, TakePayload, TakeSuccessor
    <2> HIDE DEF s
    <2> QED BY <2>3, <2>4, <2>5, <1>0, <1>3
  <1>5. CASE TakePayload
    <2>1. PICK tick \in {0, 1} :
             snapshots' = Append(snapshots,
                                 Snapshot("payload", Now + tick, TRUE))
      BY <1>5 DEF TakePayload
    <2> DEFINE s == Snapshot("payload", Now + tick, TRUE)
    <2>2. s \in Snapshots /\ s.creation_time = Now + tick /\ s.id = "payload"
      BY <1>2, <1>3
    <2>3. ~TakeSnapshot /\ ~TakeSuccessor
      BY <1>5 DEF TakeSnapshot, TakePayload, TakeSuccessor
    <2>4. snapshots' = Append(snapshots, s)
      BY <2>1
    <2> HIDE DEF s
    <2> QED BY <2>2, <2>3, <2>4, <1>0, <1>3
  <1>6. CASE TakeSuccessor
    <2>1. PICK tick \in {0, 1} :
             snapshots' = Append(snapshots,
                                 Snapshot("successor", Now + tick, TRUE))
      BY <1>6 DEF TakeSuccessor
    <2> DEFINE s == Snapshot("successor", Now + tick, TRUE)
    <2>2. s \in Snapshots /\ s.creation_time = Now + tick /\ s.id = "successor"
      BY <1>2, <1>3
    <2>3. ~TakeSnapshot /\ ~TakePayload
      BY <1>6 DEF TakeSnapshot, TakePayload, TakeSuccessor
    <2>4. snapshots' = Append(snapshots, s)
      BY <2>1
    <2> HIDE DEF s
    <2> QED BY <2>2, <2>3, <2>4, <1>0, <1>3
  <1> QED BY <1>4, <1>5, <1>6

\* What a step does to the catalog: entries keep their place and gain stored
\* blocks, one is taken, or one is deleted.
Kept == /\ snapshots' \in Seq(Snapshots) /\ Len(snapshots') = Len(snapshots)
        /\ \A k \in 1 .. Len(snapshots) :
               SameEntry(snapshots[k], snapshots'[k])
        /\ stage = "changing" <=> stage' = "changing"

Taken == TakeSnapshot \/ TakePayload \/ TakeSuccessor

\* There are no other steps, and none changes what the baseline was.
LEMMA CatalogSteps ==
  ASSUME TypeOK, CatalogInv, [Next]_incrementalVars
  PROVE  /\ Kept \/ Taken \/ \E k \in DOMAIN snapshots : DeleteSnapshot(k)
         /\ past' = past
  <1> USE DEF incrementalVars
  <1>1. ASSUME snapshots' = snapshots,
               stage = "changing" <=> stage' = "changing"
        PROVE  Kept
    BY <1>1 DEF Kept, SameEntry, CatalogInv
  <1>2. ASSUME NEW c \in Clusters, Write(c)
        PROVE  Kept
    <2>1. CASE snapshots = <<>>
      BY <1>1, <1>2, <2>1 DEF Write, Change
    <2>2. CASE snapshots # <<>>
      <3>1. snapshots' = CopyOnWrite(c) /\ stage' = stage
        BY <1>2, <2>2 DEF Write, Change
      <3> QED BY <3>1, <2>2, CopyOnWriteIs DEF Kept
    <2> QED BY <2>1, <2>2
  <1>3. past' = past
    BY DEF Next, Write, Allocate, Free, Change, TakeSnapshot, DeleteSnapshot,
           TakePayload, TakeSuccessor, PrepareFails, BuildMap
  <1>4. ASSUME NEW c \in Clusters, Allocate(c) \/ Free(c)
        PROVE  Kept
    BY <1>4, <1>1 DEF Allocate, Free, Change
  <1>5. CASE PrepareFails \/ BuildMap \/ UNCHANGED incrementalVars
    BY <1>5, <1>1 DEF PrepareFails, BuildMap
  <1> QED BY <1>2, <1>3, <1>4, <1>5 DEF Next, Taken

-----------------------------------------------------------------------------
(* The steps.                                                              *)

\* The baseline is the only snapshot, and nothing was written since.
LEMMA IncrementalInitInv == Init => IncrementalInv
  <1> SUFFICES ASSUME Init PROVE IncrementalInv
    OBVIOUS
  <1> DEFINE s == Snapshot("baseline", 0, TRUE)
  <1>1. /\ stage = "changing" /\ alloc \in SUBSET Clusters
        /\ svi \subseteq alloc /\ snapshots = <<s>> /\ past = s
        /\ dirty_map = {NoMap} /\ written = {} /\ changes = 0
    BY ChunkAssumption DEF Init, Clusters
  <1>2. /\ s \in Snapshots /\ s.id = "baseline"
    BY <1>1 DEF Snapshot, Snapshots
  <1> HIDE DEF s
  <1>3. /\ snapshots \in Seq(Snapshots) /\ DOMAIN snapshots = {1}
        /\ snapshots[1] = s
    BY <1>1, <1>2
  <1>4. TypeOK
    BY <1>1, BoundAssumption DEF TypeOK
  <1>5. CatalogInv
    BY <1>1, <1>2, <1>3 DEF CatalogInv
  <1>6. OrderInv
    BY <1>2, <1>3 DEF OrderInv, Snapshots
  <1>7. IdentityInv
    BY <1>1, <1>2, <1>3 DEF IdentityInv, IsEarlier
  <1>8. WrittenInv
    BY <1>1 DEF WrittenInv
  <1>9. NoMapInv /\ DirtyMapCoversChanges
    BY <1>1 DEF NoMapInv, DirtyMapCoversChanges
  <1> QED BY <1>4, <1>5, <1>6, <1>7, <1>8, <1>9 DEF IncrementalInv

\* The catalog stays well formed and in the order of the creation times.
LEMMA CatalogStep ==
  ASSUME TypeOK, CatalogInv, OrderInv, [Next]_incrementalVars
  PROVE  CatalogInv' /\ OrderInv'
  <1> DEFINE n == Len(snapshots)
  <1>0. /\ n \in Nat /\ DOMAIN snapshots = 1 .. n
        /\ \A k \in 1 .. n : snapshots[k].creation_time \in Nat
        /\ past' = past /\ past \in Snapshots
    BY CatalogSteps, EntryTypes
  <1>1. CASE Kept
    <2>1. DOMAIN snapshots' = 1 .. n
      BY <1>1 DEF Kept
    <2> QED BY <1>0, <1>1, <2>1
         DEF CatalogInv, OrderInv, Kept, SameEntry
  <1>2. CASE Taken
    <2>1. PICK s \in Snapshots :
             /\ snapshots' = Append(snapshots, s)
             /\ \A k \in DOMAIN snapshots :
                   snapshots[k].creation_time <= s.creation_time
      BY <1>2, TakeIs DEF Taken
    <2>2. /\ snapshots' \in Seq(Snapshots) /\ DOMAIN snapshots' = 1 .. n + 1
          /\ \A k \in 1 .. n : snapshots'[k] = snapshots[k]
          /\ snapshots'[n + 1] = s
      BY <2>1, AppendIs
    <2>3. s.creation_time \in Nat
      BY DEF Snapshots
    <2> HIDE DEF n
    <2>4. ASSUME NEW k \in 1 .. n + 1, NEW l \in 1 .. n + 1, k <= l
          PROVE  snapshots'[k].creation_time <= snapshots'[l].creation_time
      <3>1. CASE l = n + 1 /\ k = n + 1
        BY <3>1, <2>2, <2>3
      <3>2. CASE l = n + 1 /\ k \in 1 .. n
        BY <3>2, <2>1, <2>2, <1>0
      <3>3. CASE l \in 1 .. n
        <4>1. k \in 1 .. n
          BY <3>3, <2>4, <1>0
        <4> QED BY <4>1, <3>3, <2>2, <2>4, <1>0 DEF OrderInv
      <3> QED BY <3>1, <3>2, <3>3, <1>0
    <2> QED BY <2>2, <2>4, <1>0 DEF CatalogInv, OrderInv
  <1>3. ASSUME NEW k \in DOMAIN snapshots, DeleteSnapshot(k)
        PROVE  CatalogInv' /\ OrderInv'
    <2>1. /\ snapshots' \in Seq(Snapshots) /\ DOMAIN snapshots' = 1 .. n - 1
          /\ \A i \in 1 .. n - 1 :
                /\ i < k => SameEntry(snapshots[i], snapshots'[i])
                /\ i >= k => snapshots'[i] = snapshots[i + 1]
      BY <1>3, DeleteSnapshotIs
    <2>2. k \in 1 .. n
      BY <1>0
    <2> HIDE DEF n
    <2>3. ASSUME NEW i \in 1 .. n - 1
          PROVE  \E j \in 1 .. n :
                    /\ snapshots'[i].creation_time = snapshots[j].creation_time
                    /\ i < k => j = i
                    /\ i >= k => j = i + 1
      <3>1. CASE i < k
        <4>1. i \in 1 .. n /\ ~(i >= k)
          BY <3>1, <2>2, <1>0
        <4> QED BY <3>1, <4>1, <2>1 DEF SameEntry
      <3>2. CASE i >= k
        <4>1. i + 1 \in 1 .. n /\ ~(i < k)
          BY <3>2, <2>2, <1>0
        <4> QED BY <3>2, <4>1, <2>1
      <3> QED BY <3>1, <3>2, <2>2, <1>0
    <2>4. OrderInv'
      <3> SUFFICES ASSUME NEW i \in 1 .. n - 1, NEW l \in 1 .. n - 1, i <= l
                   PROVE  snapshots'[i].creation_time
                              <= snapshots'[l].creation_time
        BY <2>1 DEF OrderInv
      <3>1. PICK j \in 1 .. n :
               /\ snapshots'[i].creation_time = snapshots[j].creation_time
               /\ i < k => j = i
               /\ i >= k => j = i + 1
        BY <2>3
      <3>2. PICK m \in 1 .. n :
               /\ snapshots'[l].creation_time = snapshots[m].creation_time
               /\ l < k => m = l
               /\ l >= k => m = l + 1
        BY <2>3
      <3>3. j <= m
        BY <3>1, <3>2, <2>2, <1>0
      <3> QED BY <3>1, <3>2, <3>3, <1>0 DEF OrderInv
    <2> QED BY <2>1, <2>4, <1>0 DEF CatalogInv
  <1> QED BY <1>1, <1>2, <1>3, CatalogSteps

\* Which snapshots there are, and what the baseline holds.
LEMMA IdentityStep ==
  ASSUME TypeOK, CatalogInv, OrderInv, IdentityInv, [Next]_incrementalVars
  PROVE  IdentityInv'
  <1> DEFINE n == Len(snapshots)
  <1>0. /\ n \in Nat /\ DOMAIN snapshots = 1 .. n
        /\ past' = past
    BY CatalogSteps, EntryTypes
  <1>1. CASE Kept
    <2>1. DOMAIN snapshots' = 1 .. n
      BY <1>1 DEF Kept
    <2>2. /\ \A k \in 1 .. n : SameEntry(snapshots[k], snapshots'[k])
          /\ stage = "changing" <=> stage' = "changing"
      BY <1>1 DEF Kept
    <2> QED BY <1>0, <2>1, <2>2 DEF IdentityInv, SameEntry, IsEarlier
  <1>2. CASE Taken
    <2>1. PICK s \in Snapshots :
             /\ snapshots' = Append(snapshots, s)
             /\ TakeSnapshot => s.id = "other"
             /\ TakePayload => s.id = "payload"
             /\ TakeSuccessor => s.id = "successor"
      BY <1>2, TakeIs DEF Taken
    <2>2. /\ DOMAIN snapshots' = 1 .. n + 1
          /\ \A k \in 1 .. n : snapshots'[k] = snapshots[k]
          /\ snapshots'[n + 1] = s
      BY <2>1, AppendIs
    <2>3. /\ TakeSnapshot => stage = "changing" /\ stage' = "changing"
          /\ TakePayload => stage = "changing" /\ stage' # "changing"
          /\ TakeSuccessor => stage # "changing" /\ stage' # "changing"
      BY DEF TakeSnapshot, TakePayload, TakeSuccessor
    <2> HIDE DEF n
    <2>4. \A k \in 1 .. n + 1 : k \in 1 .. n \/ k = n + 1
      BY <1>0
    <2>5. ASSUME NEW k \in 1 .. n + 1, snapshots'[k].id = "baseline"
          PROVE  /\ k = 1 /\ snapshots'[k].alloc = past.alloc
                 /\ snapshots'[k].svi = past.svi
      <3>1. s.id # "baseline"
        BY <1>2, <2>1 DEF Taken
      <3>2. k \in 1 .. n
        BY <3>1, <2>2, <2>4, <2>5
      <3> QED BY <3>2, <2>2, <2>5, <1>0 DEF IdentityInv
    <2>6. CASE TakeSnapshot
      <3>1. \A k \in 1 .. n + 1 : IsEarlier(snapshots'[k])
        BY <2>1, <2>2, <2>3, <2>4, <2>6, <1>0 DEF IdentityInv, IsEarlier
      <3> QED BY <3>1, <2>2, <2>3, <2>5, <2>6, <1>0 DEF IdentityInv
    <2>7. CASE TakePayload
      <3>1. /\ \A k \in 1 .. n : IsEarlier(snapshots'[k])
            /\ snapshots'[n + 1].id = "payload"
        BY <2>1, <2>2, <2>3, <2>7, <1>0 DEF IdentityInv, IsEarlier
      <3>2. \A k \in 1 .. n + 1 :
               /\ k < n + 1 => IsEarlier(snapshots'[k])
               /\ k > n + 1 => snapshots'[k].id = "successor"
        BY <3>1, <1>0
      <3>3. n + 1 \in 1 .. n + 1
        BY <1>0
      <3> QED BY <3>1, <3>2, <3>3, <2>2, <2>3, <2>5, <2>7, <1>0
           DEF IdentityInv
    <2>8. CASE TakeSuccessor
      <3>1. PICK p \in 1 .. n :
               /\ snapshots[p].id = "payload"
               /\ \A k \in 1 .. n :
                      /\ k < p => IsEarlier(snapshots[k])
                      /\ k > p => snapshots[k].id = "successor"
        BY <2>3, <2>8, <1>0 DEF IdentityInv
      <3>2. \A k \in 1 .. n + 1 : /\ k < p => IsEarlier(snapshots'[k])
                                  /\ k > p => snapshots'[k].id = "successor"
        <4> TAKE k \in 1 .. n + 1
        <4>1. CASE k \in 1 .. n
          BY <4>1, <3>1, <2>2
        <4>2. CASE k = n + 1
          BY <4>2, <2>1, <2>2, <2>8, <1>0
        <4> QED BY <4>1, <4>2, <2>4
      <3>3. p \in 1 .. n + 1 /\ snapshots'[p].id = "payload"
        BY <3>1, <2>2, <1>0
      <3> QED BY <3>2, <3>3, <2>2, <2>3, <2>5, <2>8, <1>0
           DEF IdentityInv
    <2> QED BY <1>2, <2>6, <2>7, <2>8 DEF Taken
  <1>3. ASSUME NEW k \in DOMAIN snapshots, DeleteSnapshot(k)
        PROVE  IdentityInv'
    <2>1. /\ DOMAIN snapshots' = 1 .. n - 1
          /\ \A i \in 1 .. n - 1 :
                /\ i < k => SameEntry(snapshots[i], snapshots'[i])
                /\ i >= k => snapshots'[i] = snapshots[i + 1]
      BY <1>3, DeleteSnapshotIs
    <2>2. k \in 1 .. n /\ stage' = stage /\ IsEarlier(snapshots[k])
      BY <1>0, <1>3 DEF DeleteSnapshot, IsEarlier
    <2> HIDE DEF n
    <2> DEFINE From(i) == IF i < k THEN i ELSE i + 1
    <2>3. ASSUME NEW i \in 1 .. n - 1
          PROVE  /\ From(i) \in 1 .. n /\ From(i) # k
                 /\ snapshots'[i].id = snapshots[From(i)].id
                 /\ snapshots'[i].alloc = snapshots[From(i)].alloc
                 /\ snapshots'[i].svi = snapshots[From(i)].svi
      <3>1. CASE i < k
        <4>1. From(i) = i /\ i \in 1 .. n /\ i # k
          BY <3>1, <2>2, <1>0
        <4> HIDE DEF From
        <4> QED BY <3>1, <4>1, <2>1 DEF SameEntry
      <3>2. CASE ~(i < k)
        <4>1. From(i) = i + 1 /\ i + 1 \in 1 .. n /\ i >= k /\ i + 1 # k
          BY <3>2, <2>2, <1>0
        <4> HIDE DEF From
        <4> QED BY <4>1, <2>1
      <3> QED BY <3>1, <3>2
    <2>4. ASSUME NEW i \in 1 .. n - 1, snapshots'[i].id = "baseline"
          PROVE  /\ i = 1 /\ snapshots'[i].alloc = past.alloc
                 /\ snapshots'[i].svi = past.svi
      <3>1. /\ From(i) = 1 /\ snapshots'[i].alloc = past.alloc
            /\ snapshots'[i].svi = past.svi
        BY <2>3, <2>4, <1>0 DEF IdentityInv
      <3> QED BY <3>1
    <2>5. CASE stage = "changing"
      <3>1. \A i \in 1 .. n - 1 : IsEarlier(snapshots'[i])
        <4> HIDE DEF From
        <4> QED BY <2>3, <2>5, <1>0 DEF IdentityInv, IsEarlier
      <3> QED BY <3>1, <2>1, <2>2, <2>4, <2>5, <1>0 DEF IdentityInv
    <2>6. CASE stage # "changing"
      <3>1. PICK p \in 1 .. n :
               /\ snapshots[p].id = "payload"
               /\ \A i \in 1 .. n :
                      /\ i < p => IsEarlier(snapshots[i])
                      /\ i > p => snapshots[i].id = "successor"
        BY <2>6, <1>0 DEF IdentityInv
      <3>2. k < p
        BY <3>1, <2>2, <1>0 DEF IsEarlier
      <3>3. p - 1 \in 1 .. n - 1 /\ From(p - 1) = p
        BY <3>2, <2>2, <1>0
      <3>4. snapshots'[p - 1].id = "payload"
        <4> HIDE DEF From
        <4> QED BY <3>1, <3>3, <2>3
      <3>5. \A i \in 1 .. n - 1 :
               /\ i < p - 1 => IsEarlier(snapshots'[i])
               /\ i > p - 1 => snapshots'[i].id = "successor"
        <4> TAKE i \in 1 .. n - 1
        <4>1. /\ i < p - 1 => From(i) < p
              /\ i > p - 1 => From(i) > p
          BY <3>2, <2>2, <1>0
        <4> HIDE DEF From
        <4> QED BY <4>1, <3>1, <2>3 DEF IsEarlier
      <3> QED BY <3>3, <3>4, <3>5, <2>1, <2>2, <2>4, <2>6, <1>0
           DEF IdentityInv
    <2> QED BY <2>5, <2>6
  <1> QED BY <1>1, <1>2, <1>3, CatalogSteps

\* A block that VSS has copied stays in a store that is read for the map: it is
\* copied to the newest store, and a deleted store passes to the one before it.
LEMMA WrittenStep ==
  ASSUME TypeOK, CatalogInv, OrderInv, IdentityInv, WrittenInv,
         [Next]_incrementalVars
  PROVE  WrittenInv'
  <1> DEFINE n == Len(snapshots)
             Old(b) == \E k \in 1 .. n :
                          /\ IsEarlier(snapshots[k])
                          /\ \E d \in snapshots[k].store :
                                 d.original_offset = b * BlockSize
             New(b) == \E k \in DOMAIN snapshots' :
                          /\ IsEarlier(snapshots'[k])
                          /\ \E d \in snapshots'[k].store :
                                 d.original_offset = b * BlockSize
  <1>0. /\ n \in Nat /\ DOMAIN snapshots = 1 .. n /\ past' = past
    BY CatalogSteps, EntryTypes
  <1>1. SUFFICES ASSUME NEW m \in DOMAIN snapshots',
                        snapshots'[m].id = "baseline",
                        NEW c \in written' \cap (past.alloc \ past.svi),
                        NEW b \in BlocksOf(c)
                 PROVE  New(b)
    BY <1>0 DEF WrittenInv, IsStored
  <1>2. ASSUME c \in written, \E k \in 1 .. n : snapshots[k].id = "baseline"
        PROVE  Old(b)
    BY <1>0, <1>2 DEF WrittenInv, IsStored
  <1>3. CASE Kept
    <2>1. /\ DOMAIN snapshots' = 1 .. n
          /\ \A k \in 1 .. n : SameEntry(snapshots[k], snapshots'[k])
      BY <1>3 DEF Kept
    <2>2. Old(b) => New(b)
      BY <2>1 DEF SameEntry, IsEarlier
    <2>3. m \in 1 .. n /\ snapshots[m].id = "baseline"
      BY <1>1, <2>1 DEF SameEntry
    <2>4. CASE c \in written
      BY <2>2, <2>3, <2>4, <1>2
    <2>5. CASE c \notin written
      <3>1. /\ c \in Clusters /\ Write(c) /\ stage = "changing"
            /\ stage' = "changing"
        BY <2>5, <1>1 DEF Next, incrementalVars, Write, Allocate, Free, Change,
             TakeSnapshot, DeleteSnapshot, TakePayload, TakeSuccessor,
             PrepareFails, BuildMap
      <3>2. snapshots # <<>> /\ n \in 1 .. n
        BY <2>3, <1>0
      <3>3. snapshots' = CopyOnWrite(c)
        BY <3>1, <3>2 DEF Write
      <3>4. c \in snapshots[m].alloc \ snapshots[m].svi
        BY <2>3, <1>0, <1>1 DEF IdentityInv
      <3>5. \E d \in snapshots'[n].store : d.original_offset = b * BlockSize
        BY <3>1, <3>2, <3>3, <3>4, <2>3, CopyOnWriteIs
      <3>6. IsEarlier(snapshots'[n])
        <4>1. IsEarlier(snapshots[n])
          BY <3>1, <3>2, <1>0 DEF IdentityInv
        <4> QED BY <4>1, <3>2, <2>1 DEF SameEntry, IsEarlier
      <3> QED BY <3>2, <3>5, <3>6, <2>1
    <2> QED BY <2>4, <2>5
  <1>4. CASE Taken
    <2>1. PICK s \in Snapshots :
             snapshots' = Append(snapshots, s) /\ s.id # "baseline"
      BY <1>4, TakeIs DEF Taken
    <2>2. /\ DOMAIN snapshots' = 1 .. n + 1
          /\ \A k \in 1 .. n : snapshots'[k] = snapshots[k]
          /\ snapshots'[n + 1] = s
      BY <2>1, AppendIs
    <2>3. m \in 1 .. n /\ snapshots[m].id = "baseline"
      <3> HIDE DEF n
      <3>1. m \in 1 .. n \/ m = n + 1
        BY <2>2, <1>0
      <3> QED BY <3>1, <2>1, <2>2, <1>1
    <2>4. written' = written
      BY <1>4 DEF Taken, TakeSnapshot, TakePayload, TakeSuccessor
    <2>5. Old(b)
      BY <2>3, <2>4, <1>1, <1>2
    <2>6. \A k \in 1 .. n : k \in 1 .. n + 1
      BY <1>0
    <2> QED BY <2>2, <2>5, <2>6
  <1>5. ASSUME NEW k \in DOMAIN snapshots, DeleteSnapshot(k)
        PROVE  New(b)
    <2>1. /\ DOMAIN snapshots' = 1 .. n - 1
          /\ \A i \in 1 .. n - 1 :
                /\ i < k => SameEntry(snapshots[i], snapshots'[i])
                /\ i >= k => snapshots'[i] = snapshots[i + 1]
                /\ i = k - 1 => \A d \in snapshots[k].store :
                      \E e \in snapshots'[i].store :
                          e.original_offset = d.original_offset
      BY <1>5, DeleteSnapshotIs
    <2>2. k \in 1 .. n /\ IsEarlier(snapshots[k]) /\ written' = written
      BY <1>0, <1>5 DEF DeleteSnapshot, IsEarlier
    <2> HIDE DEF n
    <2>3. snapshots[1].id = "baseline" /\ k # 1 /\ 1 \in 1 .. n
      <3>1. m \in 1 .. n - 1
        BY <2>1
      <3>2. CASE m < k
        <4>1. m \in 1 .. n /\ snapshots[m].id = "baseline"
          BY <3>1, <3>2, <2>1, <1>0, <1>1 DEF SameEntry
        <4> QED BY <4>1, <3>2, <2>2, <1>0 DEF IdentityInv
      <3>3. CASE m >= k
        <4>1. m + 1 \in 1 .. n /\ m + 1 # 1 /\ snapshots[m + 1].id = "baseline"
          BY <3>1, <3>3, <2>1, <2>2, <1>0, <1>1
        <4> QED BY <4>1, <1>0 DEF IdentityInv
      <3> QED BY <3>1, <3>2, <3>3, <2>2, <1>0
    <2>4. PICK j \in 1 .. n :
             /\ IsEarlier(snapshots[j])
             /\ \E d \in snapshots[j].store : d.original_offset = b * BlockSize
      <3>1. Old(b)
        BY <2>2, <2>3, <1>1, <1>2
      <3> QED BY <3>1
    <2>5. CASE j < k
      <3>1. j \in 1 .. n - 1
        BY <2>5, <2>2, <1>0
      <3>2. SameEntry(snapshots[j], snapshots'[j])
        BY <3>1, <2>1, <2>5
      <3> QED BY <3>1, <3>2, <2>1, <2>4 DEF SameEntry, IsEarlier
    <2>6. CASE j = k
      <3>1. k - 1 \in 1 .. n - 1 /\ k - 1 < k
        BY <2>2, <2>3, <1>0
      <3>2. SameEntry(snapshots[k - 1], snapshots'[k - 1])
        BY <3>1, <2>1
      <3>3. \E e \in snapshots'[k - 1].store :
               e.original_offset = b * BlockSize
        BY <3>1, <2>1, <2>4, <2>6
      <3>4. IsEarlier(snapshots[k - 1])
        <4>1. CASE stage = "changing"
          BY <4>1, <3>1, <2>2, <1>0 DEF IdentityInv
        <4>2. CASE stage # "changing"
          <5>1. PICK p \in 1 .. n :
                   /\ snapshots[p].id = "payload"
                   /\ \A i \in 1 .. n :
                          /\ i < p => IsEarlier(snapshots[i])
                          /\ i > p => snapshots[i].id = "successor"
            BY <4>2, <1>0 DEF IdentityInv
          <5>2. k < p
            BY <5>1, <2>2, <1>0 DEF IsEarlier
          <5>3. k - 1 \in 1 .. n /\ k - 1 < p
            BY <5>2, <3>1, <2>2, <1>0
          <5> QED BY <5>1, <5>3
        <4> QED BY <4>1, <4>2
      <3> QED BY <3>1, <3>2, <3>3, <3>4, <2>1 DEF SameEntry, IsEarlier
    <2>7. CASE j > k
      <3>1. j - 1 \in 1 .. n - 1 /\ j - 1 >= k /\ (j - 1) + 1 = j
        BY <2>7, <2>2, <1>0
      <3>2. snapshots'[j - 1] = snapshots[j]
        BY <3>1, <2>1
      <3> QED BY <3>1, <3>2, <2>1, <2>4
    <2> QED BY <2>5, <2>6, <2>7, <2>2, <1>0
  <1> QED BY <1>3, <1>4, <1>5, CatalogSteps

\* Dividing twice is dividing by the product.
LEMMA DivDiv ==
  ASSUME NEW x \in Nat, NEW a \in Nat \ {0}, NEW d \in Nat \ {0}
  PROVE  (x \div a) \div d = x \div (a * d)
  <1> DEFINE q == x \div a
             r == x % a
             s == q \div d
             t == q % d
  <1>1. q \in Nat /\ r \in 0 .. a - 1 /\ x = a * q + r
    BY DivMod
  <1> HIDE DEF q, r
  <1>2. s \in Nat /\ t \in 0 .. d - 1 /\ q = d * s + t
    BY <1>1, DivMod
  <1> HIDE DEF s, t
  <1>3. x = (a * d) * s + (a * t + r)
    <2>1. a * q = a * (d * s) + a * t
      BY <1>1, <1>2
    <2>2. a * (d * s) = (a * d) * s
      BY <1>2
    <2>3. /\ a * (d * s) \in Nat /\ a * t \in Nat /\ a * q \in Nat
          /\ (a * d) * s \in Nat
      BY <1>1, <1>2
    <2> QED BY <1>1, <2>1, <2>2, <2>3
  <1>4. a * t + r \in 0 .. (a * d) - 1
    <2>1. a * (t + 1) <= a * d
      BY <1>2, MulMono
    <2>2. a * (t + 1) = a * t + a /\ a * t \in Nat /\ a * d \in Nat
      BY <1>2
    <2> QED BY <2>1, <2>2, <1>1
  <1> DEFINE e == a * d
             u == a * t + r
  <1>5. e \in Nat \ {0} /\ u \in 0 .. e - 1 /\ x = e * s + u
    BY <1>3, <1>4
  <1> HIDE DEF e, u
  <1>6. x \div e = s
    BY <1>2, <1>5, DivUnique
  <1> QED BY <1>6 DEF e, q, s

\* The map of the chunks has the chunk of every byte of a cluster whose blocks
\* are in the map of the blocks.
LEMMA ReducedMapCovers ==
  ASSUME NEW bits, NEW c \in Clusters, BlocksOf(c) \subseteq bits,
         NEW p \in c * ClusterSize .. c * ClusterSize + ClusterSize - 1
  PROVE  p \div ChunkSize \in ReduceBitmap(bits, ChunkSize \div BlockSize)
  <1> DEFINE ratio == ChunkSize \div BlockSize
             x == c * ClusterSize
             y == x + ClusterSize - 1
  <1>1. /\ ClusterSize \in Nat \ {0} /\ BlockSize \in Nat \ {0}
        /\ ChunkSize \in Nat \ {0} /\ c \in Nat
    BY ClusterAssumption, BlockAssumption, ChunkAssumption DEF Clusters
  <1>2. ratio \in Nat \ {0} /\ ChunkSize = BlockSize * ratio
    <2> DEFINE unit == BlockSize * kBitsPerWord
               k == ChunkSize \div unit
    <2>1. unit \in Nat \ {0} /\ ChunkSize % unit = 0
          /\ kBitsPerWord \in Nat \ {0}
      BY BlockAssumption, ChunkAssumption
    <2>2. unit = BlockSize * kBitsPerWord
      OBVIOUS
    <2> HIDE DEF unit
    <2>3. k \in Nat /\ ChunkSize = unit * k + 0
      BY <2>1, <1>1, DivMod
    <2> HIDE DEF k
    <2> DEFINE j == kBitsPerWord * k
    <2>4. j \in Nat /\ unit * k = BlockSize * j
      BY <2>1, <2>2, <2>3, <1>1
    <2> HIDE DEF j
    <2>5. ChunkSize = BlockSize * j + 0
      BY <2>3, <2>4, <1>1
    <2>6. ratio = j
      BY <2>4, <2>5, <1>1, DivUnique
    <2>7. j # 0
      BY <2>5, <1>1
    <2> QED BY <2>4, <2>5, <2>6, <2>7, <1>1
  <1>3. x \in Nat /\ y \in Nat /\ x <= y
    BY <1>1
  <1>4. p \in x .. y /\ BlocksOf(c) = x \div BlockSize .. y \div BlockSize
    BY DEF BlocksOf
  <1> HIDE DEF ratio, x, y
  <1>5. p \in Nat /\ x <= p /\ p <= y
    BY <1>3, <1>4
  <1> DEFINE b == p \div BlockSize
  <1>6. b \in BlocksOf(c)
    <2>1. /\ x \div BlockSize \in Nat /\ y \div BlockSize \in Nat /\ b \in Nat
          /\ x \div BlockSize <= b /\ b <= y \div BlockSize
      BY <1>1, <1>3, <1>5, DivMod, DivMono
    <2> HIDE DEF b
    <2> QED BY <2>1, <1>4
  <1>7. b \div ratio = p \div ChunkSize
    BY <1>1, <1>2, <1>5, DivDiv
  <1> HIDE DEF b
  <1>8. p \div ChunkSize \in ReduceBitmap(bits, ratio)
    BY <1>6, <1>7 DEF ReduceBitmap
  <1> QED BY <1>8 DEF ratio

\* The entries of baseline and payload, and the stores that contribute.
LEMMA EntriesAre ==
  ASSUME CatalogInv, OrderInv, IdentityInv, stage # "changing",
         \E s \in Entries : s.id = "baseline"
  PROVE  /\ Entry("baseline") \in Entries
         /\ Entry("baseline").alloc = past.alloc
         /\ Entry("baseline").svi = past.svi
         /\ Entry("payload") \in Entries
         /\ \A k \in DOMAIN snapshots : IsEarlier(snapshots[k]) =>
                snapshots[k] \in ContributingStores
         /\ ContributingStores \subseteq Entries
         /\ Entries \subseteq Snapshots
  <1> DEFINE n == Len(snapshots)
  <1>0. /\ n \in Nat /\ DOMAIN snapshots = 1 .. n
        /\ \A k \in 1 .. n : /\ snapshots[k] \in Snapshots
                             /\ snapshots[k].creation_time \in Nat
    BY EntryTypes
  <1>1. Entries = {snapshots[k] : k \in 1 .. n}
    BY <1>0 DEF Entries
  <1> HIDE DEF n
  <1>2. PICK p \in 1 .. n :
           /\ snapshots[p].id = "payload"
           /\ \A k \in 1 .. n :
                  /\ k < p => IsEarlier(snapshots[k])
                  /\ k > p => snapshots[k].id = "successor"
    BY <1>0 DEF IdentityInv
  <1>3. PICK m \in 1 .. n : snapshots[m].id = "baseline"
    BY <1>1
  <1>4. m = 1
    BY <1>0, <1>3 DEF IdentityInv
  <1>5. Entry("payload") = snapshots[p]
    <2>1. \A s \in Entries : s.id = "payload" => s = snapshots[p]
      <3> SUFFICES ASSUME NEW k \in 1 .. n, snapshots[k].id = "payload"
                   PROVE  k = p
        BY <1>1
      <3> QED BY <1>0, <1>2 DEF IsEarlier
    <2>2. snapshots[p] \in Entries
      BY <1>1
    <2> QED BY <1>2, <2>1, <2>2 DEF Entry
  <1>6. Entry("baseline") = snapshots[m]
    <2>1. \A s \in Entries : s.id = "baseline" => s = snapshots[m]
      <3> SUFFICES ASSUME NEW k \in 1 .. n, snapshots[k].id = "baseline"
                   PROVE  k = m
        BY <1>1
      <3> QED BY <1>0, <1>4 DEF IdentityInv
    <2>2. snapshots[m] \in Entries
      BY <1>1
    <2> QED BY <1>3, <2>1, <2>2 DEF Entry
  <1>7. ASSUME NEW k \in 1 .. n, IsEarlier(snapshots[k])
        PROVE  snapshots[k] \in ContributingStores
    <2>1. k < p
      BY <1>0, <1>2, <1>7 DEF IsEarlier
    <2>2. m <= k /\ k <= p
      BY <2>1, <1>0, <1>4
    <2>3. /\ snapshots[m].creation_time <= snapshots[k].creation_time
          /\ snapshots[k].creation_time <= snapshots[p].creation_time
      BY <2>2, <1>0 DEF OrderInv
    <2>4. snapshots[k].creation_time \in
             snapshots[m].creation_time .. snapshots[p].creation_time
      BY <2>3, <1>0
    <2>5. snapshots[k] \in Interval(snapshots[m], snapshots[p])
      BY <2>4, <1>1 DEF Interval
    <2>6. snapshots[k] # snapshots[p]
      BY <1>2, <1>7 DEF IsEarlier
    <2> QED BY <2>5, <2>6, <1>5, <1>6 DEF ContributingStores
  <1>8. ContributingStores \subseteq Entries
    BY DEF ContributingStores, Interval
  <1>9. Entries \subseteq Snapshots
    BY <1>0, <1>1
  <1>10. /\ snapshots[m].alloc = past.alloc /\ snapshots[m].svi = past.svi
         /\ snapshots[m] \in Entries /\ snapshots[p] \in Entries
    BY <1>0, <1>1, <1>3 DEF IdentityInv
  <1> QED BY <1>0, <1>5, <1>6, <1>7, <1>8, <1>9, <1>10

\* BuildDirtyBlockMap: every block of a cluster that may differ is in the map.
LEMMA BlockMapCovers ==
  ASSUME TypeOK, CatalogInv, OrderInv, IdentityInv, WrittenInv,
         stage # "changing", \E s \in Entries : s.id = "baseline"
  PROVE  /\ DirtyBlockMap \in BitmapSets
         /\ \A c \in Clusters : MayDiffer(c) =>
                BlocksOf(c) \subseteq DirtyBlockMap.bits
  <1> DEFINE baseline == Entry("baseline")
             payload == Entry("payload")
             stores == ContributingStores
             A == ReadAllocationChangeBlocks(baseline.alloc, payload.alloc)
             V == ReadBlockOffsets(baseline.svi, EmptyBitmapSet)
             S == ReadBlockOffsets(payload.svi, V)
             R == ReadDescriptorBlocks(stores)
             changed == (baseline.alloc \ payload.alloc)
                            \cup (payload.alloc \ baseline.alloc)
  <1>1. /\ baseline \in Snapshots /\ payload \in Snapshots
        /\ baseline.alloc = past.alloc /\ baseline.svi = past.svi
        /\ \A k \in DOMAIN snapshots : IsEarlier(snapshots[k]) =>
               snapshots[k] \in stores
        /\ stores \subseteq Snapshots
    BY EntriesAre
  <1>2. DirtyBlockMap = Merge(Merge(R, A), S)
    BY DEF DirtyBlockMap
  <1>3. Clusters \subseteq Nat /\ \A c \in Clusters : c < ClusterCount
                                      /\ c \in 0 .. ClusterCount - 1
    BY ClusterAssumption DEF Clusters
  <1> HIDE DEF baseline, payload, stores
  <1>4. /\ baseline.alloc \in SUBSET Clusters
        /\ payload.alloc \in SUBSET Clusters
        /\ baseline.svi \in SUBSET Clusters /\ payload.svi \in SUBSET Clusters
        /\ \A s \in stores : s.store \subseteq Descriptors
    BY <1>1 DEF Snapshots
  <1>5. /\ A \in BitmapSets
        /\ \A c \in changed : c < ClusterCount => BlocksOf(c) \subseteq A.bits
    <2>1. baseline.alloc \in SUBSET Nat /\ payload.alloc \in SUBSET Nat
      BY <1>3, <1>4
    <2> QED BY <2>1, AllocationChangesAreCovered
  <1>6. /\ V \in BitmapSets
        /\ \A c \in baseline.svi : c \in 0 .. ClusterCount - 1 =>
               BlocksOf(c) \subseteq V.bits
    BY EmptyIs, SviBlocksAreCovered
  <1>7. /\ S \in BitmapSets /\ V.bits \subseteq S.bits
        /\ \A c \in payload.svi : c \in 0 .. ClusterCount - 1 =>
               BlocksOf(c) \subseteq S.bits
    <2> HIDE DEF V
    <2> QED BY <1>6, SviBlocksAreCovered
  <1>8. /\ R \in BitmapSets
        /\ \A s \in stores : \A d \in s.store :
              d.original_offset < VolumeSize =>
                  d.original_offset \div BlockSize \in R.bits
    BY <1>4, DescriptorBlocksAreCovered
  <1> HIDE DEF A, V, S, R
  <1>9. /\ DirtyBlockMap \in BitmapSets
        /\ DirtyBlockMap.bits = (R.bits \cup A.bits) \cup S.bits
    <2>1. /\ Merge(R, A) \in BitmapSets
          /\ Merge(R, A).bits = R.bits \cup A.bits
      BY <1>5, <1>8, MergeIs
    <2> QED BY <2>1, <1>2, <1>7, MergeIs
  <1>10. ASSUME NEW c \in Clusters, MayDiffer(c)
         PROVE  BlocksOf(c) \subseteq DirtyBlockMap.bits
    <2>1. \/ c \in baseline.svi \cup payload.svi
          \/ (c \in baseline.alloc) # (c \in payload.alloc)
          \/ c \in past.alloc /\ c \in written /\ c \notin past.svi
      BY <1>1, <1>10 DEF MayDiffer, payload
    <2>2. CASE c \in baseline.svi
      BY <2>2, <1>3, <1>6, <1>7, <1>9
    <2>3. CASE c \in payload.svi
      BY <2>3, <1>3, <1>7, <1>9
    <2>4. CASE (c \in baseline.alloc) # (c \in payload.alloc)
      <3>1. c \in changed
        BY <2>4
      <3> HIDE DEF changed
      <3> QED BY <3>1, <1>3, <1>5, <1>9
    <2>5. CASE c \in past.alloc /\ c \in written /\ c \notin past.svi
      <3> SUFFICES ASSUME NEW b \in BlocksOf(c)
                   PROVE  b \in R.bits
        BY <1>9
      <3>1. \E k \in DOMAIN snapshots : snapshots[k].id = "baseline"
        BY DEF Entries
      <3>2. PICK k \in DOMAIN snapshots :
               /\ IsEarlier(snapshots[k])
               /\ \E d \in snapshots[k].store :
                      d.original_offset = b * BlockSize
        BY <2>5, <3>1 DEF WrittenInv, IsStored
      <3>3. PICK d \in snapshots[k].store : d.original_offset = b * BlockSize
        BY <3>2
      <3>4. /\ BlockSize \in Nat \ {0} /\ ClusterSize \in Nat \ {0}
            /\ ClusterCount \in Nat /\ c \in Nat /\ c < ClusterCount
        BY <1>3, BlockAssumption, ClusterAssumption
      <3>5. /\ b \in Nat
            /\ b <= (c * ClusterSize + ClusterSize - 1) \div BlockSize
        <4>1. /\ BlocksOf(c) = FirstBlock(c) .. LimitBlock(c + 1) - 1
              /\ FirstBlock(c) \in Nat /\ LimitBlock(c + 1) \in Nat
          <5>1. c + 1 \in Nat \ {0}
            BY <3>4
          <5>2. FirstBlock(c) \in Nat /\ LimitBlock(c + 1) \in Nat
            BY <5>1, <3>4, BlockRange
          <5>3. BlocksOf(c) = FirstBlock(c) .. LimitBlock(c + 1) - 1
            BY <3>4, BlocksOfIs
          <5> QED BY <5>2, <5>3
        <4>2. b \in Nat
          BY <4>1
        <4> DEFINE q == (c * ClusterSize + ClusterSize - 1) \div BlockSize
        <4>3. b \in FirstBlock(c) .. q
          BY DEF BlocksOf, FirstBlock
        <4> HIDE DEF q
        <4>4. b <= q
          BY <4>3
        <4> QED BY <4>2, <4>4 DEF q
      <3>6. b * BlockSize < VolumeSize /\ b * BlockSize \in Nat
        <4> DEFINE y == c * ClusterSize + ClusterSize - 1
        <4>1. y \in Nat
          BY <3>4
        <4>2. y < ClusterCount * ClusterSize
          <5>1. ClusterSize * (c + 1) <= ClusterSize * ClusterCount
            BY <3>4, MulMono
          <5> QED BY <5>1, <3>4
        <4>3. b <= y \div BlockSize
          BY <3>5
        <4> HIDE DEF y
        <4>4. BlockSize * b <= y
          BY <4>1, <4>3, <3>4, <3>5, DivRange
        <4>5. b * BlockSize = BlockSize * b /\ BlockSize * b \in Nat
          BY <3>4, <3>5
        <4>6. ClusterCount * ClusterSize \in Nat
          BY <3>4
        <4> QED BY <4>1, <4>2, <4>4, <4>5, <4>6 DEF VolumeSize
      <3>7. (b * BlockSize) \div BlockSize = b
        <4>1. b * BlockSize = BlockSize * b + 0 /\ 0 \in 0 .. BlockSize - 1
          BY <3>4, <3>5
        <4> QED BY <4>1, <3>4, <3>5, DivUnique
      <3> QED BY <3>2, <3>3, <3>6, <3>7, <1>1, <1>8
    <2> QED BY <2>1, <2>2, <2>3, <2>4, <2>5
  <1> QED BY <1>9, <1>10

\* Each variable keeps to its values; that the map is a set of chunks is from
\* the bitmap sets it is reduced from.
LEMMA IncrementalTypeStep ==
  ASSUME IncrementalInv, [Next]_incrementalVars
  PROVE  TypeOK'
  <1> USE DEF IncrementalInv, TypeOK
  <1>1. ASSUME NEW c \in Clusters, Write(c) \/ Allocate(c) \/ Free(c)
        PROVE  TypeOK'
    <2>1. changes' \in 0 .. MaxChanges
      BY <1>1, BoundAssumption DEF Write, Allocate, Free, Change
    <2>2. /\ stage' \in {"changing", "payload", "successor", "prepared"}
          /\ dirty_map' \subseteq Nat \cup {NoMap}
      BY <1>1 DEF Write, Allocate, Free, Change
    <2>3. /\ svi' \subseteq alloc' /\ alloc' \subseteq Clusters
          /\ written' \subseteq Clusters
      <3>1. CASE Write(c)
        BY <3>1, <1>1 DEF Write
      <3>2. CASE Allocate(c)
        BY <3>2, <1>1 DEF Allocate
      <3>3. CASE Free(c)
        BY <3>3, <1>1 DEF Free
      <3> QED BY <1>1, <3>1, <3>2, <3>3
    <2> QED BY <2>1, <2>2, <2>3
  <1>2. CASE TakeSnapshot \/ TakePayload \/ TakeSuccessor \/ PrepareFails
    BY <1>2 DEF TakeSnapshot, TakePayload, TakeSuccessor, PrepareFails
  <1>3. ASSUME NEW k \in DOMAIN snapshots, DeleteSnapshot(k)
        PROVE  TypeOK'
    BY <1>3 DEF DeleteSnapshot
  <1>4. CASE BuildMap
    <2>1. stage # "changing" /\ \E s \in Entries : s.id = "baseline"
      BY <1>4 DEF BuildMap, IntervalIsUsable
    <2>2. DirtyBlockMap.bits \subseteq Nat
      BY <2>1, BlockMapCovers DEF BitmapSets
    <2> DEFINE ratio == ChunkSize \div BlockSize
    <2>3. ratio \in Nat \ {0}
      <3>1. /\ BlockSize \in Nat \ {0} /\ kBitsPerWord \in Nat \ {0}
            /\ ChunkSize \in Nat \ {0}
            /\ ChunkSize % (BlockSize * kBitsPerWord) = 0
        BY BlockAssumption, ChunkAssumption
      <3>2. ratio \in Nat
        BY <3>1, DivMod
      <3>3. ratio # 0
        <4> DEFINE unit == BlockSize * kBitsPerWord
                   j == ChunkSize \div unit
        <4>1. unit \in Nat \ {0} /\ ChunkSize % unit = 0
          BY <3>1
        <4>2. BlockSize * 1 <= BlockSize * kBitsPerWord
          BY <3>1, MulMono
        <4>3. BlockSize <= unit
          BY <4>2, <3>1
        <4> HIDE DEF unit
        <4>4. j \in Nat /\ ChunkSize = unit * j + 0
          BY <4>1, <3>1, DivMod
        <4> HIDE DEF j
        <4>5. j >= 1
          BY <4>1, <4>4, <3>1
        <4>6. unit * 1 <= unit * j
          BY <4>1, <4>4, <4>5, MulMono
        <4>7. BlockSize * 1 <= ChunkSize
          BY <4>1, <4>3, <4>4, <4>6, <3>1
        <4>8. 1 <= ratio
          BY <4>7, <3>1, DivRange
        <4> QED BY <4>8, <3>2
      <3> QED BY <3>2, <3>3
    <2> HIDE DEF ratio
    <2>4. ReduceBitmap(DirtyBlockMap.bits, ratio) \subseteq Nat
      <3>1. \A b \in DirtyBlockMap.bits : b \div ratio \in Nat
        BY <2>2, <2>3, DivMod
      <3> QED BY <3>1 DEF ReduceBitmap
    <2>5. dirty_map' = {NoMap}
             \/ dirty_map' = ReduceBitmap(DirtyBlockMap.bits, ratio)
      BY <1>4 DEF BuildMap, ratio
    <2> QED BY <1>4, <2>4, <2>5 DEF BuildMap
  <1>5. CASE UNCHANGED incrementalVars
    BY <1>5 DEF incrementalVars
  <1> QED BY <1>1, <1>2, <1>3, <1>4, <1>5 DEF Next

\* Only BuildMap makes a map.
LEMMA NoMapStep ==
  ASSUME NoMapInv, [Next]_incrementalVars
  PROVE  NoMapInv'
  <1> USE DEF NoMapInv
  <1>1. ASSUME NEW c \in Clusters, Write(c) \/ Allocate(c) \/ Free(c)
        PROVE  NoMapInv'
    BY <1>1 DEF Write, Allocate, Free, Change
  <1>2. ASSUME NEW k \in DOMAIN snapshots, DeleteSnapshot(k)
        PROVE  NoMapInv'
    BY <1>2 DEF DeleteSnapshot
  <1> QED BY <1>1, <1>2 DEF Next, incrementalVars, TakeSnapshot, TakePayload,
           TakeSuccessor, PrepareFails, BuildMap

\* The map covers the changes when it is made, and nothing changes after it.
LEMMA DirtyMapStep ==
  ASSUME IncrementalInv, [Next]_incrementalVars
  PROVE  DirtyMapCoversChanges'
  <1> DEFINE Covered(map) ==
                 \A c \in Clusters : MayDiffer(c) =>
                     \A p \in c * ClusterSize ..
                                  c * ClusterSize + ClusterSize - 1 :
                         p \div ChunkSize \in map
  <1>1. ASSUME snapshots' = snapshots, past' = past, written' = written
        PROVE  \A c : MayDiffer(c)' <=> MayDiffer(c)
    BY <1>1 DEF MayDiffer, Entry, Entries
  <1>2. stage' # "prepared" \/ PrepareFails \/ BuildMap
        \/ UNCHANGED incrementalVars
    BY DEF Next, Write, Allocate, Free, Change, TakeSnapshot, DeleteSnapshot,
           TakePayload, TakeSuccessor, incrementalVars
  <1>3. CASE stage' # "prepared"
    BY <1>3 DEF DirtyMapCoversChanges
  <1>4. CASE PrepareFails
    <2>1. dirty_map' = {NoMap}
      BY <1>4 DEF PrepareFails, IncrementalInv, NoMapInv
    <2>2. NoMap' = NoMap
      BY DEF NoMap
    <2> QED BY <2>1, <2>2 DEF DirtyMapCoversChanges
  <1>5. CASE BuildMap
    <2>1. /\ stage # "changing" /\ \E s \in Entries : s.id = "baseline"
          /\ snapshots' = snapshots /\ past' = past /\ written' = written
      BY <1>5 DEF BuildMap, IntervalIsUsable
    <2>2. \A c \in Clusters : MayDiffer(c) =>
             BlocksOf(c) \subseteq DirtyBlockMap.bits
      BY <2>1, BlockMapCovers DEF IncrementalInv
    <2> DEFINE map ==
                   ReduceBitmap(DirtyBlockMap.bits, ChunkSize \div BlockSize)
    <2>3. Covered(map)
      BY <2>2, ReducedMapCovers
    <2>4. dirty_map' = {NoMap} \/ dirty_map' = map
      BY <1>5 DEF BuildMap
    <2> HIDE DEF map
    <2>5. CASE dirty_map' = {NoMap}
      BY <2>5 DEF DirtyMapCoversChanges, NoMap
    <2>6. CASE dirty_map' = map
      <3>1. \A c : MayDiffer(c)' <=> MayDiffer(c)
        BY <2>1, <1>1
      <3> QED BY <2>3, <2>6, <3>1 DEF DirtyMapCoversChanges, Clusters
    <2> QED BY <2>4, <2>5, <2>6
  <1>6. CASE UNCHANGED incrementalVars
    <2>1. /\ snapshots' = snapshots /\ past' = past /\ written' = written
          /\ stage' = stage /\ dirty_map' = dirty_map
      BY <1>6 DEF incrementalVars
    <2>2. \A c : MayDiffer(c)' <=> MayDiffer(c)
      BY <2>1, <1>1
    <2> QED BY <2>1, <2>2 DEF DirtyMapCoversChanges, IncrementalInv, Clusters,
             NoMap
  <1> QED BY <1>2, <1>3, <1>4, <1>5, <1>6

\* The conjunction of these is inductive.
LEMMA IncrementalInvInvariant == Spec => []IncrementalInv
  <1>1. ASSUME IncrementalInv, [Next]_incrementalVars
        PROVE  IncrementalInv'
    BY <1>1, CatalogStep, IdentityStep, WrittenStep, NoMapStep, DirtyMapStep,
       IncrementalTypeStep DEF IncrementalInv
  <1> QED BY <1>1, IncrementalInitInv, PTL DEF Spec

\* Type correctness of the incremental backup.
THEOREM IncrementalTypeCorrect == Spec => []TypeOK
  <1>1. IncrementalInv => TypeOK
    BY DEF IncrementalInv
  <1> QED BY <1>1, IncrementalInvInvariant, PTL

\* A chunk that the client takes from the previous backup has not changed: for
\* every volume and all sizes of clusters, blocks and chunks, whatever was
\* written, freed and allocated between the backups and whichever snapshots
\* came and went, the dirty map has the chunk of every byte that may differ.
THEOREM DirtyMapsCoverChanges == Spec => []DirtyMapCoversChanges
  <1>1. IncrementalInv => DirtyMapCoversChanges
    BY DEF IncrementalInv
  <1> QED BY <1>1, IncrementalInvInvariant, PTL

=============================================================================
