----------------------------- MODULE PaddedReader -----------------------------
(***************************************************************************)
(* The encryption of one resource: cbcEncrypter.Encrypt reads a resource   *)
(* block by block through a paddedReader, which adds the W3C padding when  *)
(* its source ends; Decrypt removes it.  The source is any io.Reader: it   *)
(* may return less than it is asked for, report the end with the last      *)
(* bytes or after them, and fail.                                          *)
(*                                                                         *)
(* The cipher itself is external: CBC maps whole blocks to whole blocks,   *)
(* one to one under a key and an IV, so a ciphertext is written here as    *)
(* the blocks it decrypts to.                                              *)
(***************************************************************************)
EXTENDS Naturals, Sequences

CONSTANTS
    Size,       \* the block size of the cipher (aes.BlockSize)
    Inputs,     \* resources, as sequences of bytes
    Fillers,    \* random padding bytes
    Failures    \* whether the source or the output may fail

ASSUME PaddedReaderAssumption ==
    /\ Size \in 1..255
    /\ \A s \in Inputs : s \in Seq(0..255)
    /\ Fillers \subseteq 1..254 /\ Fillers # {}
    /\ Failures \in BOOLEAN

VARIABLES
    input,    \* the resource
    pos,      \* how much of it the source has returned
    broken,   \* whether the source has failed; it then fails again
    count,    \* bytes read modulo Size, then the length of the padding
    left,     \* padding bytes still to be added
    done,     \* whether the source has reported its end
    buffer,   \* the part of the block io.ReadFull has filled
    out,      \* the blocks written after the IV
    result    \* "start", "running", then what Encrypt returns: "nil" or "error"

vars == <<input, pos, broken, count, left, done, buffer, out, result>>

Byte == 0..255

\* One type invariant for the module.
TypeOK ==
    /\ input \in Inputs
    /\ pos \in 0..Len(input)
    /\ broken \in BOOLEAN
    /\ count \in 0..Size
    /\ left \in 0..Size
    /\ done \in BOOLEAN
    /\ buffer \in Seq(Byte) /\ Len(buffer) <= Size
    /\ out \in Seq(Byte)
    /\ result \in {"start", "running", "nil", "error"}

-----------------------------------------------------------------------------
(* A definition X_bug that stands before a definition X is a mutated form  *)
(* of it; the specification uses none of them.                             *)

Room == Size - Len(buffer)

Init ==
    /\ input \in Inputs
    /\ pos = 0 /\ broken = FALSE
    /\ count = 0 /\ left = 0 /\ done = FALSE
    /\ buffer = <<>> /\ out = <<>>
    /\ result = "start"

\* The key, the IV and its write.
Start ==
    /\ result = "start"
    /\ result' \in {"running"} \cup (IF Failures THEN {"error"} ELSE {})
    /\ UNCHANGED <<input, pos, broken, count, left, done, buffer, out>>

\* The source returns n bytes of what remains, into the free part of the block.
Returns(n) ==
    /\ n <= Room /\ n <= Len(input) - pos
    /\ pos' = pos + n
    /\ buffer' = buffer \o SubSeq(input, pos + 1, pos + n)

Read_countIgnored(n) ==
    /\ result = "running" /\ ~done /\ ~broken /\ Room > 0
    /\ Returns(n)
    /\ count' = n % Size
    /\ UNCHANGED <<input, broken, left, done, out, result>>

\* Read of an open source: the first read of a call and the loop that tries to read more
\* count the bytes modulo the block size.
Read(n) ==
    /\ result = "running" /\ ~done /\ ~broken /\ Room > 0
    /\ Returns(n)
    /\ count' = (n + count) % Size
    /\ UNCHANGED <<input, broken, left, done, out, result>>

ReadEnd_lengthLost(n) ==
    /\ result = "running" /\ ~done /\ ~broken /\ Room > 0
    /\ Returns(n) /\ pos' = Len(input)
    /\ done' = TRUE
    /\ left' = Size - ((n + count) % Size)
    /\ UNCHANGED <<input, broken, count, out, result>>

\* io.EOF, with the last bytes or after them: the length of the padding is set.
ReadEnd(n) ==
    /\ result = "running" /\ ~done /\ ~broken /\ Room > 0
    /\ Returns(n) /\ pos' = Len(input)
    /\ done' = TRUE
    /\ left' = Size - ((n + count) % Size)
    /\ count' = left'
    /\ UNCHANGED <<input, broken, out, result>>

\* Any other error ends Encrypt, unless the bytes that come with it fill the block:
\* io.ReadFull then drops the error, and meets it at the next block.
ReadFails(n) ==
    /\ Failures
    /\ result = "running" /\ ~done /\ Room > 0
    /\ Returns(n) /\ (broken => n = 0)
    /\ broken' = TRUE
    /\ result' = IF Len(buffer') = Size THEN "running" ELSE "error"
    /\ UNCHANGED <<input, count, left, done, out>>

\* pad adds one byte: a random one, or the length of the padding in the last place.
pad ==
    /\ result = "running" /\ done /\ left > 0 /\ Room > 0
    /\ \E f \in Fillers :
          buffer' = Append(buffer, IF left = 1 THEN count ELSE f)
    /\ left' = left - 1
    /\ UNCHANGED <<input, pos, broken, count, done, out, result>>

\* A full block is encrypted and written.
CryptBlocks ==
    /\ result = "running" /\ Room = 0
    /\ \/ out' = out \o buffer /\ buffer' = <<>> /\ UNCHANGED result
       \/ Failures /\ result' = "error" /\ UNCHANGED <<out, buffer>>
    /\ UNCHANGED <<input, pos, broken, count, left, done>>

ReadFullEnd_unreported ==
    /\ result = "running" /\ done /\ left = 0 /\ Room > 0
    /\ result' = IF buffer = <<>> THEN "running" ELSE "error"
    /\ UNCHANGED <<input, pos, broken, count, left, done, buffer, out>>

\* io.ReadFull meets the end of the padding: io.EOF before a first byte ends Encrypt
\* without an error, after one it is io.ErrUnexpectedEOF.
ReadFullEnd ==
    /\ result = "running" /\ done /\ left = 0 /\ Room > 0
    /\ result' = IF buffer = <<>> THEN "nil" ELSE "error"
    /\ UNCHANGED <<input, pos, broken, count, left, done, buffer, out>>

Next ==
    \/ Start
    \/ \E n \in 0..Size : Read(n) \/ ReadEnd(n) \/ ReadFails(n)
    \/ pad \/ CryptBlocks \/ ReadFullEnd

Spec == Init /\ [][Next]_vars

\* Encrypt is a loop; an io.Reader may return no byte and no error, but not for ever.
FairSpec == Spec /\ WF_vars(Next)

-----------------------------------------------------------------------------

\* Decrypt takes the last byte for the length of the padding.
Decrypt(s) == SubSeq(s, 1, Len(s) - s[Len(s)])

\* However the source cuts the resource up and whatever the random bytes are, when Encrypt
\* succeeds Decrypt gives back the resource, byte for byte, an empty one and one that ends
\* on a block boundary included, and the ciphertext has the length that W3C padding defines.
\* A resource whose source has failed is never taken for a complete one, even when the
\* error came together with the last byte of a block and was dropped.
Recovered ==
    result = "nil" =>
        /\ ~broken
        /\ Decrypt(out) = input
        /\ Len(out) = Size * (Len(input) \div Size + 1)

\* What has been written is always a whole number of blocks, and a prefix of the padded
\* resource: a block never mixes the end of the resource with padding before its time, and
\* the padding never ends inside a block (io.ErrUnexpectedEOF).
PrefixWritten ==
    LET got == out \o buffer IN
    /\ TypeOK
    /\ Len(out) % Size = 0
    /\ done /\ left = 0 => Len(got) % Size = 0
    /\ SubSeq(got, 1, pos) = SubSeq(input, 1, pos)
    /\ ~done => Len(got) = pos

\* Encrypt ends, whatever the source returns: the end of the padding is reported by a read
\* of its own, after a block that the padding has filled.
Ends == <>(result \in {"nil", "error"})
=============================================================================
