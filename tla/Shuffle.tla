-------------------------------- MODULE Shuffle --------------------------------
(***************************************************************************)
(* Random numbers and the shuffle of the receivers (rand.go), as functions *)
(* of the words that the random source gives.                              *)
(***************************************************************************)
EXTENDS Naturals, SequencesExt

CONSTANT WordSize       \* the number of values of a word, 2^32 in the code

ASSUME WordSizeAssumption == WordSize \in Nat \ {0}

Words == 0 .. WordSize - 1

\* The two halves of the 64-bit product.
Low(v, n) == (v * n) % WordSize
High(v, n) == (v * n) \div WordSize

\* Mutant of Thresh: no word is drawn again.
NoThresh(n) == 0

\* -n % n, in words.
Thresh(n) == (WordSize - n) % n

\* csprngUint32n draws again as long as the low half is below the threshold,
\* which it computes only if that half is below n.
Rejected(v, n) == Low(v, n) < n /\ Low(v, n) < Thresh(n)

\* The words that a shuffle of n elements can draw last for each place above
\* the first, those rejected before left out.
Draws(n) ==
    { d \in [2 .. n -> Words] : \A i \in 2 .. n : ~Rejected(d[i], i) }

Swap(s, i, j) == [s EXCEPT ![i] = s[j], ![j] = s[i]]

\* csprngShuffle: from the last place down to the second, one of the places up
\* to it takes its element.  downTo[i] is the list when place i has been done.
CsprngShuffle(s, draws) ==
    LET downTo[i \in 2 .. Len(s) + 2] ==
            IF i > Len(s) THEN s
            ELSE Swap(downTo[i + 1], i, High(draws[i], i) + 1)
    IN  downTo[2]
=============================================================================
