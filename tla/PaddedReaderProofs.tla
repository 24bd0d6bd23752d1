-------------------------- MODULE PaddedReaderProofs --------------------------
(***************************************************************************)
(* Theorems about PaddedReader, for every block size up to 255, every      *)
(* resource and every choice of random bytes.                              *)
(*                                                                         *)
(* The invariant follows the padded stream Got, the written blocks and the *)
(* block being filled.  While the source is open, Got is what the source   *)
(* has returned and count is its length modulo the block size; once it has *)
(* ended, count is what the last block lacks, and Got lacks left bytes.    *)
(***************************************************************************)
EXTENDS PaddedReader, Integers, TLAPS

-----------------------------------------------------------------------------
(* Quotients and remainders.                                               *)

\* A natural number is its quotient times the divisor, plus its remainder.
LEMMA DivMod ==
    ASSUME NEW a \in Nat, NEW k \in Nat \ {0}
    PROVE  /\ a = (k * (a \div k)) + (a % k)
           /\ a % k \in 0..(k - 1)
           /\ a \div k \in Nat
<1>1. a % k \in 0..(k - 1) /\ a \div k \in Nat
  OBVIOUS
<1>2. a = (k * (a \div k)) + (a % k)
  OBVIOUS
<1> QED BY <1>1, <1>2

\* A multiple of k strictly between -k and k is zero.
LEMMA SmallMultiple ==
    ASSUME NEW k \in Nat \ {0}, NEW d \in Int, k * d < k, k * d > 0 - k
    PROVE  d = 0
OBVIOUS

\* The quotient and the remainder are the only numbers of that kind.
LEMMA DivModUnique ==
    ASSUME NEW a \in Nat, NEW k \in Nat \ {0}, NEW q \in Nat, NEW r \in 0..(k - 1),
           a = (k * q) + r
    PROVE  a % k = r /\ a \div k = q
<1> DEFINE d == q - (a \div k)
<1>1. a = (k * (a \div k)) + (a % k) /\ a % k \in 0..(k - 1) /\ a \div k \in Nat
  BY DivMod
<1>2. k * d = (a % k) - r
  BY <1>1
<1>3. d \in Int /\ k * d < k /\ k * d > 0 - k
  BY <1>1, <1>2
<1>4. d = 0
  <2> HIDE DEF d
  <2> QED BY <1>3, SmallMultiple
<1> QED BY <1>1, <1>4

\* Counting modulo the block size: the reduced count may stand for the true one.
LEMMA ModSum ==
    ASSUME NEW a \in Nat, NEW n \in Nat, NEW k \in Nat \ {0}
    PROVE  (n + (a % k)) % k = (a + n) % k
<1> DEFINE r == a % k  q == a \div k  s == (n + r) % k  p == (n + r) \div k
<1>1. a = (k * q) + r /\ r \in 0..(k - 1) /\ q \in Nat
  BY DivMod
<1>2. n + r = (k * p) + s /\ s \in 0..(k - 1) /\ p \in Nat
  <2>1. n + r \in Nat
    BY <1>1
  <2> HIDE DEF r
  <2> QED BY <2>1, DivMod
<1>3. (a + n) % k = s
  <2> HIDE DEF r, q, s, p
  <2>1. k * (q + p) = (k * q) + (k * p)
    BY <1>1, <1>2
  <2>2. a + n = (k * (q + p)) + s /\ a + n \in Nat /\ q + p \in Nat
    BY <1>1, <1>2, <2>1
  <2> QED BY <1>2, <2>2, DivModUnique
<1> QED BY <1>3

\* One block more leaves the remainder alone.
LEMMA ModBlock ==
    ASSUME NEW a \in Nat, NEW k \in Nat \ {0}, a % k = 0
    PROVE  (a + k) % k = 0
<1>1. a = (k * (a \div k)) + 0 /\ a \div k \in Nat
  BY DivMod
<1> DEFINE b == a + k  q == (a \div k) + 1
<1>2. b \in Nat /\ q \in Nat /\ 0 \in 0..(k - 1) /\ b = (k * q) + 0
  BY <1>1
<1>3. b % k = 0
  <2> HIDE DEF b, q
  <2> QED BY <1>2, DivModUnique
<1> QED BY <1>3

\* What is missing up to the next block boundary completes the padded length.
LEMMA PaddedLength ==
    ASSUME NEW a \in Nat, NEW k \in Nat \ {0}
    PROVE  /\ a + (k - (a % k)) = k * ((a \div k) + 1)
           /\ (a + (k - (a % k))) % k = 0
<1>1. a = (k * (a \div k)) + (a % k) /\ a % k \in 0..(k - 1) /\ a \div k \in Nat
  BY DivMod
<1>2. a + (k - (a % k)) = k * ((a \div k) + 1)
  BY <1>1
<1>3. /\ a + (k - (a % k)) \in Nat /\ (a \div k) + 1 \in Nat /\ 0 \in 0..(k - 1)
      /\ k * ((a \div k) + 1) = (k * ((a \div k) + 1)) + 0
  BY <1>1
<1>4. (a + (k - (a % k))) % k = 0
  BY <1>2, <1>3, DivModUnique
<1> QED BY <1>2, <1>4

\* Two whole numbers of blocks differ by a whole number of blocks.
LEMMA ModDifference ==
    ASSUME NEW a \in Nat, NEW b \in Nat, NEW k \in Nat \ {0},
           a % k = 0, (a + b) % k = 0, b < k
    PROVE  b = 0
<1>1. a = k * (a \div k) /\ a \div k \in Nat
  BY DivMod
<1>2. a + b = (k * (a \div k)) + b
  BY <1>1
<1> QED BY <1>1, <1>2, DivModUnique

-----------------------------------------------------------------------------
(* The invariant.                                                          *)

\* The padded stream as far as it has been produced.
Got == out \o buffer

\* The source is open: all it has returned has been taken over and counted.
Open ==
    /\ Len(Got) = pos
    /\ left = 0
    /\ ~broken => count = pos % Size

\* The source has ended: the padding completes the last block, and its last byte, once
\* added, is its length.
Ended ==
    /\ ~broken
    /\ pos = Len(input)
    /\ count = Size - (pos % Size)
    /\ left <= count
    /\ Len(Got) + left = pos + count
    /\ left = 0 => Got[Len(Got)] = count

\* The resource comes first, byte for byte, and is written in whole blocks.
Stream ==
    /\ Len(out) % Size = 0
    /\ \A i \in 1..pos : Got[i] = input[i]

\* Encrypt succeeds only when the whole padding has been written, and without a failure
\* of the source or of the output it cannot fail.
Result ==
    /\ result = "nil" => done /\ left = 0 /\ buffer = <<>>
    /\ result = "error" => Failures

\* The inductive invariant.
IInv ==
    /\ TypeOK
    /\ Stream
    /\ ~done => Open
    /\ done => Ended
    /\ Result

-----------------------------------------------------------------------------
(* Sequences of bytes.                                                     *)

\* A concatenation has the elements of both sequences.
LEMMA Concat ==
    ASSUME NEW s \in Seq(Byte), NEW t \in Seq(Byte)
    PROVE  /\ s \o t \in Seq(Byte)
           /\ Len(s \o t) = Len(s) + Len(t)
           /\ \A i \in 1..Len(s) : (s \o t)[i] = s[i]
           /\ \A i \in 1..Len(t) : (s \o t)[Len(s) + i] = t[i]
OBVIOUS

\* Sequences with the same elements are the same.
LEMMA SameSequence ==
    ASSUME NEW s \in Seq(Byte), NEW t \in Seq(Byte), Len(s) = Len(t),
           \A i \in 1..Len(s) : s[i] = t[i]
    PROVE  s = t
OBVIOUS

\* The elements of a part of a sequence.
LEMMA Part ==
    ASSUME NEW s \in Seq(Byte), NEW p \in Nat, NEW n \in Nat, p + n <= Len(s)
    PROVE  /\ SubSeq(s, p + 1, p + n) \in Seq(Byte)
           /\ Len(SubSeq(s, p + 1, p + n)) = n
           /\ \A i \in 1..n : SubSeq(s, p + 1, p + n)[i] = s[p + i]
OBVIOUS

\* The elements of a beginning of a sequence.
LEMMA Beginning ==
    ASSUME NEW s \in Seq(Byte), NEW n \in Nat, n <= Len(s)
    PROVE  /\ SubSeq(s, 1, n) \in Seq(Byte)
           /\ Len(SubSeq(s, 1, n)) = n
           /\ \A i \in 1..n : SubSeq(s, 1, n)[i] = s[i]
OBVIOUS

\* Concatenation is associative.
LEMMA ConcatAssociative ==
    ASSUME NEW s \in Seq(Byte), NEW t \in Seq(Byte), NEW u \in Seq(Byte)
    PROVE  s \o (t \o u) = (s \o t) \o u
OBVIOUS

\* Appending a byte to the block appends it to the stream.
LEMMA AppendBehind ==
    ASSUME NEW s \in Seq(Byte), NEW t \in Seq(Byte), NEW e \in Byte
    PROVE  /\ s \o Append(t, e) = Append(s \o t, e)
           /\ Append(t, e) \in Seq(Byte) /\ Len(Append(t, e)) = Len(t) + 1
OBVIOUS

-----------------------------------------------------------------------------
(* The steps.                                                              *)

\* What the type invariant says of the stream.
LEMMA Types ==
    ASSUME TypeOK
    PROVE  /\ Size \in Nat \ {0} /\ Size <= 255
           /\ input \in Seq(Byte) /\ Len(input) \in Nat
           /\ pos \in Nat /\ pos <= Len(input)
           /\ out \in Seq(Byte) /\ buffer \in Seq(Byte)
           /\ Len(out) \in Nat /\ Len(buffer) \in 0..Size
           /\ Got \in Seq(Byte) /\ Len(Got) = Len(out) + Len(buffer)
           /\ Room = Size - Len(buffer)
BY PaddedReaderAssumption DEF TypeOK, Byte, Got, Room

\* The invariant holds when Encrypt is called.
LEMMA InitInvariant == Init => IInv
<1> SUFFICES ASSUME Init PROVE IInv
  OBVIOUS
<1> USE DEF Init
<1>1. TypeOK
  <2>1. input \in Inputs /\ Len(input) \in Nat
    BY PaddedReaderAssumption
  <2>2. <<>> \in Seq(Byte) /\ Len(<<>>) = 0
    OBVIOUS
  <2>3. broken \in BOOLEAN /\ done \in BOOLEAN
    OBVIOUS
  <2>4. pos \in 0..Len(input) /\ count \in 0..Size /\ left \in 0..Size
    BY <2>1, PaddedReaderAssumption
  <2>5. /\ buffer \in Seq(Byte) /\ Len(buffer) <= Size /\ out \in Seq(Byte)
        /\ result \in {"start", "running", "nil", "error"}
    BY <2>2, PaddedReaderAssumption
  <2> QED BY <2>1, <2>3, <2>4, <2>5 DEF TypeOK
<1>2. 0 % Size = 0
  BY PaddedReaderAssumption
<1>3. Got = <<>> /\ Len(Got) = 0
  BY DEF Got
<1> QED BY <1>1, <1>2, <1>3 DEF IInv, Stream, Open, Result

\* The source hands over n bytes: the stream and the position grow together.
LEMMA Taken ==
    ASSUME IInv, ~done, NEW n \in 0..Size, Returns(n), UNCHANGED <<input, out>>
    PROVE  /\ pos' \in Nat /\ pos' <= Len(input) /\ pos' = pos + n
           /\ buffer' \in Seq(Byte) /\ Len(buffer') <= Size
           /\ Len(Got') = pos'
           /\ Stream'
           /\ Len(buffer') = Len(buffer) + n
<1> DEFINE part == SubSeq(input, pos + 1, pos + n)
<1>1. TypeOK /\ Stream /\ Len(Got) = pos
  BY DEF IInv, Open
<1>2. /\ Size \in Nat \ {0}
      /\ input \in Seq(Byte) /\ Len(input) \in Nat
      /\ pos \in Nat
      /\ out \in Seq(Byte) /\ buffer \in Seq(Byte)
      /\ Len(out) \in Nat /\ Len(buffer) \in 0..Size
      /\ Got \in Seq(Byte)
      /\ Room = Size - Len(buffer)
  BY <1>1, Types
<1>3. /\ n \in Nat /\ n <= Size - Len(buffer) /\ pos + n <= Len(input)
      /\ pos' = pos + n /\ buffer' = buffer \o part /\ out' = out /\ input' = input
  BY <1>2 DEF Returns
<1>4. /\ part \in Seq(Byte) /\ Len(part) = n
      /\ \A i \in 1..n : part[i] = input[pos + i]
  BY <1>2, <1>3, Part
<1> HIDE DEF part
<1>5. buffer' \in Seq(Byte) /\ Len(buffer') = Len(buffer) + n
  BY <1>2, <1>3, <1>4, Concat
<1>6. Got' = Got \o part
  <2>1. Got' = out \o (buffer \o part)
    BY <1>3 DEF Got
  <2>2. out \o (buffer \o part) = (out \o buffer) \o part
    BY <1>2, <1>4, ConcatAssociative
  <2> QED BY <2>1, <2>2 DEF Got
<1>7. /\ Len(Got') = pos + n
      /\ \A i \in 1..pos : Got'[i] = Got[i]
      /\ \A i \in 1..n : Got'[pos + i] = part[i]
  BY <1>1, <1>2, <1>4, <1>6, Concat
<1>8. \A i \in 1..pos' : Got'[i] = input[i]
  <2> SUFFICES ASSUME NEW i \in 1..(pos + n) PROVE Got'[i] = input[i]
    BY <1>3
  <2>1. CASE i <= pos
    BY <2>1, <1>1, <1>2, <1>7 DEF Stream
  <2>2. CASE i > pos
    <3>1. i - pos \in 1..n /\ pos + (i - pos) = i
      BY <2>2, <1>2, <1>3
    <3> QED BY <3>1, <1>4, <1>7
  <2> QED BY <2>1, <2>2, <1>2
<1>9. Stream'
  BY <1>1, <1>3, <1>8 DEF Stream
<1> QED BY <1>2, <1>3, <1>5, <1>7, <1>9

\* The reads that only take bytes over keep the invariant.
LEMMA ReadStep ==
    ASSUME IInv, NEW n \in 0..Size, Read(n)
    PROVE  IInv'
<1>1. /\ result = "running" /\ ~done /\ ~broken /\ Returns(n)
      /\ count' = (n + count) % Size
      /\ input' = input /\ broken' = broken /\ left' = left /\ done' = done
      /\ out' = out /\ result' = result
  BY DEF Read
<1>2. /\ pos' \in Nat /\ pos' <= Len(input) /\ pos' = pos + n
      /\ buffer' \in Seq(Byte) /\ Len(buffer') <= Size
      /\ Len(Got') = pos' /\ Stream'
  BY <1>1, Taken
<1>3. TypeOK /\ Open /\ Size \in Nat \ {0} /\ pos \in Nat /\ n \in Nat
  BY <1>1, Types DEF IInv
<1>4. count' = (pos + n) % Size
  BY <1>1, <1>3, ModSum DEF Open
<1>5. count' \in 0..Size
  BY <1>3, <1>4
<1>6. TypeOK'
  <2>1. pos' \in 0..Len(input')
    BY <1>1, <1>2
  <2> QED BY <1>1, <1>2, <1>3, <1>5, <2>1 DEF TypeOK
<1>7. Open'
  BY <1>1, <1>2, <1>3, <1>4 DEF Open
<1> QED BY <1>1, <1>2, <1>6, <1>7 DEF IInv, Result

\* The end of the source fixes the padding.
LEMMA ReadEndStep ==
    ASSUME IInv, NEW n \in 0..Size, ReadEnd(n)
    PROVE  IInv'
<1>1. /\ result = "running" /\ ~done /\ ~broken /\ Returns(n)
      /\ pos' = Len(input) /\ done' = TRUE
      /\ left' = Size - ((n + count) % Size) /\ count' = left'
      /\ input' = input /\ broken' = broken /\ out' = out /\ result' = result
  BY DEF ReadEnd
<1>2. /\ pos' \in Nat /\ pos' <= Len(input) /\ pos' = pos + n
      /\ buffer' \in Seq(Byte) /\ Len(buffer') <= Size
      /\ Len(Got') = pos' /\ Stream'
  BY <1>1, Taken
<1>3. TypeOK /\ Open /\ Size \in Nat \ {0} /\ pos \in Nat /\ n \in Nat
  BY <1>1, Types DEF IInv
<1>4. (n + count) % Size = (pos + n) % Size
  BY <1>1, <1>3, ModSum DEF Open
<1>5. (pos + n) % Size \in 0..(Size - 1)
  BY <1>3
<1>6. /\ left' = Size - (pos' % Size) /\ count' = Size - (pos' % Size)
      /\ left' \in 1..Size /\ count' \in 1..Size
  BY <1>1, <1>2, <1>3, <1>4, <1>5
<1>7. TypeOK'
  <2>1. pos' \in 0..Len(input') /\ left' \in 0..Size /\ count' \in 0..Size
    BY <1>1, <1>2, <1>3, <1>6
  <2> QED BY <1>1, <1>2, <1>3, <2>1 DEF TypeOK
<1>8. Ended'
  BY <1>1, <1>2, <1>3, <1>6 DEF Ended
<1> QED BY <1>1, <1>2, <1>7, <1>8 DEF IInv, Result

\* A failing source never counts as one that has ended.
LEMMA ReadFailsStep ==
    ASSUME IInv, NEW n \in 0..Size, ReadFails(n)
    PROVE  IInv'
<1>1. /\ Failures /\ result = "running" /\ ~done /\ Returns(n)
      /\ broken' = TRUE /\ result' \in {"running", "error"}
      /\ input' = input /\ count' = count /\ left' = left /\ done' = done /\ out' = out
  BY DEF ReadFails
<1>2. /\ pos' \in Nat /\ pos' <= Len(input) /\ pos' = pos + n
      /\ buffer' \in Seq(Byte) /\ Len(buffer') <= Size
      /\ Len(Got') = pos' /\ Stream'
  BY <1>1, Taken
<1>3. TypeOK /\ Open
  BY <1>1 DEF IInv
<1>4. TypeOK'
  <2>1. pos' \in 0..Len(input')
    BY <1>1, <1>2
  <2> QED BY <1>1, <1>2, <1>3, <2>1 DEF TypeOK
<1>5. Open'
  BY <1>1, <1>2, <1>3 DEF Open
<1> QED BY <1>1, <1>2, <1>4, <1>5 DEF IInv, Result

\* A byte of padding: the last one is the length of the padding.
LEMMA padStep ==
    ASSUME IInv, pad
    PROVE  IInv'
<1>1. PICK f \in Fillers : buffer' = Append(buffer, IF left = 1 THEN count ELSE f)
  BY DEF pad
<1> DEFINE e == IF left = 1 THEN count ELSE f
<1>2. /\ result = "running" /\ done /\ left > 0 /\ Room > 0
      /\ buffer' = Append(buffer, e) /\ left' = left - 1
      /\ input' = input /\ pos' = pos /\ broken' = broken /\ count' = count
      /\ done' = done /\ out' = out /\ result' = result
  BY <1>1 DEF pad
<1>3. TypeOK /\ Ended /\ Stream
  BY <1>2 DEF IInv
<1>4. /\ Size \in Nat \ {0} /\ Size <= 255
      /\ pos \in Nat /\ out \in Seq(Byte) /\ buffer \in Seq(Byte)
      /\ Len(buffer) \in 0..Size /\ Got \in Seq(Byte) /\ Room = Size - Len(buffer)
      /\ Len(Got) \in Nat /\ left \in 1..Size /\ count \in 0..Size
  BY <1>2, <1>3, Types DEF TypeOK
<1>5. e \in Byte /\ (left = 1 => e = count)
  BY <1>4, PaddedReaderAssumption DEF Byte
<1> HIDE DEF e
<1>6. /\ buffer' \in Seq(Byte) /\ Len(buffer') = Len(buffer) + 1
      /\ Got' = Append(Got, e)
  BY <1>2, <1>4, <1>5, AppendBehind DEF Got
<1>7. /\ Len(Got') = Len(Got) + 1
      /\ \A i \in 1..Len(Got) : Got'[i] = Got[i]
      /\ Got'[Len(Got) + 1] = e
  BY <1>4, <1>5, <1>6
<1>8. TypeOK'
  <2>1. left' \in 0..Size /\ Len(buffer') <= Size
    BY <1>2, <1>4, <1>6
  <2> QED BY <1>2, <1>3, <1>6, <2>1 DEF TypeOK
<1>9. pos <= Len(Got)
  BY <1>3, <1>4 DEF Ended
<1>10. Stream'
  BY <1>2, <1>3, <1>4, <1>7, <1>9 DEF Stream
<1>11. Ended'
  BY <1>2, <1>3, <1>4, <1>5, <1>7 DEF Ended
<1> QED BY <1>2, <1>8, <1>10, <1>11 DEF IInv, Result

\* Writing a full block moves it from the buffer to the output.
LEMMA CryptBlocksStep ==
    ASSUME IInv, CryptBlocks
    PROVE  IInv'
<1>1. /\ result = "running" /\ Room = 0
      /\ input' = input /\ pos' = pos /\ broken' = broken /\ count' = count
      /\ left' = left /\ done' = done
  BY DEF CryptBlocks
<1>2. TypeOK /\ Stream
  BY DEF IInv
<1>3. /\ Size \in Nat \ {0}
      /\ out \in Seq(Byte) /\ buffer \in Seq(Byte) /\ Len(out) \in Nat
      /\ Room = Size - Len(buffer) /\ Len(buffer) \in 0..Size
  BY <1>2, Types
<1>4. CASE out' = out \o buffer /\ buffer' = <<>> /\ UNCHANGED result
  <2>1. Got' = Got /\ out' \in Seq(Byte) /\ Len(out') = Len(out) + Size
    BY <1>1, <1>3, <1>4 DEF Got
  <2>2. Len(out') % Size = 0
    BY <1>2, <1>3, <2>1, ModBlock DEF Stream
  <2>3. TypeOK'
    <3>1. buffer' \in Seq(Byte) /\ Len(buffer') <= Size
      BY <1>3, <1>4
    <3> QED BY <1>1, <1>2, <1>4, <2>1, <3>1 DEF TypeOK
  <2> QED BY <1>1, <1>2, <1>4, <2>1, <2>2, <2>3 DEF IInv, Stream, Open, Ended, Result
<1>5. CASE Failures /\ result' = "error" /\ UNCHANGED <<out, buffer>>
  <2>1. Got' = Got /\ out' = out /\ buffer' = buffer
    BY <1>5 DEF Got
  <2>2. TypeOK'
    BY <1>1, <1>2, <1>5, <2>1 DEF TypeOK
  <2> QED BY <1>1, <1>5, <2>1, <2>2 DEF IInv, Stream, Open, Ended, Result
<1> QED BY <1>4, <1>5 DEF CryptBlocks

\* With the padding complete, Got is a whole number of blocks.
LEMMA PaddingComplete ==
    ASSUME IInv, done, left = 0
    PROVE  /\ Len(Got) = Size * ((Len(input) \div Size) + 1)
           /\ Len(Got) % Size = 0
<1>1. TypeOK /\ Ended
  BY DEF IInv
<1>2. Size \in Nat \ {0} /\ pos \in Nat /\ Len(Got) \in Nat /\ pos = Len(input)
  BY <1>1, Types DEF Ended
<1>3. Len(Got) = pos + (Size - (pos % Size))
  BY <1>1, <1>2 DEF Ended
<1>4. /\ pos + (Size - (pos % Size)) = Size * ((pos \div Size) + 1)
      /\ (pos + (Size - (pos % Size))) % Size = 0
  BY <1>2, PaddedLength
<1> QED BY ONLY <1>2, <1>3, <1>4, Zenon

\* The padding ends on a block boundary: io.ReadFull never meets io.ErrUnexpectedEOF.
LEMMA ReadFullEndStep ==
    ASSUME IInv, ReadFullEnd
    PROVE  IInv'
<1>1. /\ done /\ left = 0 /\ Room > 0
      /\ input' = input /\ pos' = pos /\ broken' = broken /\ count' = count
      /\ left' = left /\ done' = done /\ buffer' = buffer /\ out' = out
      /\ result' = IF buffer = <<>> THEN "nil" ELSE "error"
  BY DEF ReadFullEnd
<1>2. TypeOK /\ Stream
  BY DEF IInv
<1>3. /\ Size \in Nat \ {0} /\ buffer \in Seq(Byte)
      /\ Len(out) \in Nat /\ Len(buffer) \in 0..Size
      /\ Len(Got) = Len(out) + Len(buffer) /\ Room = Size - Len(buffer)
  BY <1>2, Types
<1>4. Len(buffer) = 0
  <2>1. (Len(out) + Len(buffer)) % Size = 0
    BY <1>1, <1>3, PaddingComplete
  <2>2. Len(out) % Size = 0 /\ Len(buffer) < Size /\ Len(buffer) \in Nat
    BY <1>1, <1>2, <1>3 DEF Stream
  <2> QED BY <1>3, <2>1, <2>2, ModDifference
<1>5. buffer = <<>>
  BY <1>3, <1>4
<1>6. result' = "nil"
  BY <1>1, <1>5
<1>7. Got' = Got
  BY <1>1 DEF Got
<1>8. TypeOK'
  BY <1>1, <1>2, <1>6 DEF TypeOK
<1> QED BY <1>1, <1>5, <1>6, <1>7, <1>8 DEF IInv, Stream, Open, Ended, Result

\* The invariant is inductive.
LEMMA NextInvariant == IInv /\ [Next]_vars => IInv'
<1> SUFFICES ASSUME IInv, [Next]_vars PROVE IInv'
  OBVIOUS
<1>1. CASE Start
  <2>1. /\ input' = input /\ pos' = pos /\ broken' = broken /\ count' = count
        /\ left' = left /\ done' = done /\ buffer' = buffer /\ out' = out
        /\ result = "start" /\ result' \in {"running", "error"}
        /\ result' = "error" => Failures
    <3>1. CASE Failures
      BY <1>1, <3>1 DEF Start
    <3>2. CASE ~Failures
      BY <1>1, <3>2 DEF Start
    <3> QED BY <3>1, <3>2
  <2>2. Got' = Got
    BY <2>1 DEF Got
  <2>3. TypeOK'
    BY <2>1 DEF IInv, TypeOK
  <2> QED BY <2>1, <2>2, <2>3 DEF IInv, Stream, Open, Ended, Result
<1>2. CASE \E n \in 0..Size : Read(n) \/ ReadEnd(n) \/ ReadFails(n)
  BY <1>2, ReadStep, ReadEndStep, ReadFailsStep
<1>3. CASE UNCHANGED vars
  <2>1. Got' = Got
    BY <1>3 DEF vars, Got
  <2> QED BY <1>3, <2>1 DEF vars, IInv, TypeOK, Stream, Open, Ended, Result
<1> QED
  BY <1>1, <1>2, <1>3, padStep, CryptBlocksStep, ReadFullEndStep DEF Next

\* It holds throughout.
LEMMA Invariant == Spec => []IInv
<1> QED BY InitInvariant, NextInvariant, PTL DEF Spec

-----------------------------------------------------------------------------

\* For every block size, resource and sequence of reads, what Encrypt has written is whole
\* blocks of the padded resource, and the padding ends on a block boundary.
THEOREM WrittenIsPrefix == Spec => []PrefixWritten
<1>1. IInv => PrefixWritten
  <2> SUFFICES ASSUME IInv PROVE PrefixWritten
    OBVIOUS
  <2>1. TypeOK /\ Stream
    BY DEF IInv
  <2>2. /\ input \in Seq(Byte) /\ pos \in Nat /\ pos <= Len(input)
        /\ Got \in Seq(Byte) /\ Len(Got) \in Nat
    BY <2>1, Types
  <2>3. pos <= Len(Got)
    <3>1. CASE done
      BY <3>1, <2>1, <2>2 DEF IInv, Ended, TypeOK
    <3>2. CASE ~done
      BY <3>2, <2>2 DEF IInv, Open
    <3> QED BY <3>1, <3>2
  <2>4. SubSeq(Got, 1, pos) = SubSeq(input, 1, pos)
    BY <2>1, <2>2, <2>3, Beginning, SameSequence DEF Stream
  <2>5. done /\ left = 0 => Len(Got) % Size = 0
    BY PaddingComplete
  <2>6. ~done => Len(Got) = pos
    BY DEF IInv, Open
  <2>7. Len(out) % Size = 0
    BY <2>1 DEF Stream
  <2> QED BY <2>1, <2>4, <2>5, <2>6, <2>7 DEF PrefixWritten, Got
<1> QED BY <1>1, Invariant, PTL

\* When Encrypt succeeds, the source has not failed, Decrypt gives back the resource and
\* the ciphertext has the length of W3C padding, for every block size and every resource.
THEOREM ResourceIsRecovered == Spec => []Recovered
<1>1. IInv => Recovered
  <2> SUFFICES ASSUME IInv, result = "nil"
               PROVE  /\ ~broken
                      /\ Decrypt(out) = input
                      /\ Len(out) = Size * (Len(input) \div Size + 1)
    BY DEF Recovered
  <2>1. TypeOK /\ Stream /\ Ended /\ done /\ left = 0 /\ buffer = <<>>
    BY DEF IInv, Result
  <2>2. /\ Size \in Nat \ {0}
        /\ input \in Seq(Byte) /\ Len(input) \in Nat
        /\ out \in Seq(Byte) /\ Len(out) \in Nat
    BY <2>1, Types
  <2>3. Got = out
    BY <2>1, <2>2 DEF Got
  <2>4. /\ pos = Len(input) /\ pos \in Nat /\ count \in Nat
        /\ out[Len(out)] = count /\ Len(out) = pos + count
        /\ \A i \in 1..pos : out[i] = input[i]
    BY <2>1, <2>2, <2>3 DEF Ended, Stream, TypeOK
  <2>5. Decrypt(out) = SubSeq(out, 1, pos)
    BY <2>2, <2>4 DEF Decrypt
  <2>6. SubSeq(out, 1, pos) = input
    <3>1. /\ SubSeq(out, 1, pos) \in Seq(Byte) /\ Len(SubSeq(out, 1, pos)) = pos
          /\ \A i \in 1..pos : SubSeq(out, 1, pos)[i] = out[i]
      BY <2>2, <2>4, Beginning
    <3> QED BY <2>2, <2>4, <3>1, SameSequence
  <2>7. Len(out) = Size * (Len(input) \div Size + 1)
    BY <2>1, <2>3, PaddingComplete
  <2>8. ~broken
    BY <2>1 DEF Ended
  <2> QED BY <2>5, <2>6, <2>7, <2>8
<1> QED BY <1>1, Invariant, PTL

\* Encrypt returns an error only when the source or the output can fail: no way of cutting
\* a resource up ends in io.ErrUnexpectedEOF.
THEOREM NoErrorOfItsOwn == Spec => [](result = "error" => Failures)
<1>1. IInv => (result = "error" => Failures)
  BY DEF IInv, Result
<1> QED BY <1>1, Invariant, PTL
=============================================================================
