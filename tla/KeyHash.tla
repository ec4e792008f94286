------------------------------- MODULE KeyHash -------------------------------
(***************************************************************************)
(* The hash functions of keys (util/*.cpp): which bytes each call reads,   *)
(* and where in its words it puts them.  What the words are mixed with is  *)
(* left out: two calls that put the same bytes in the same places, in the  *)
(* same order, return the same.                                            *)
(*                                                                         *)
(* A place <<p, w, s>> says that byte p of the key is put into word w of   *)
(* the input, shifted by s bits.  A key starts anywhere in the receive     *)
(* buffer of its client: align is its address modulo 4.                    *)
(***************************************************************************)
EXTENDS Integers, Sequences

CONSTANTS
    Names,          \* what the configuration may name
    Lengths,
    Alignments

ASSUME LengthsAssumption == Lengths \subseteq Nat /\ Alignments \subseteq Nat

Words == {"murmur", "hashForBytes"}
Bytes == {"crc16", "crc32", "crc32a", "fnv1_64", "fnv1a_64", "fnv1_32", "fnv1a_32"}
Functions == Words \union Bytes \union {"md5", "hsieh", "jenkins"}

\* A name that is not known selects the default.
hashfuncFromName(name) == IF name \in Functions THEN name ELSE "hashForBytes"

VARIABLES
    stage,      \* "idle", "loop", "tail", "final" of md5, "done"
    func, len, align,
    key,        \* what the pointer has advanced
    length,     \* what the loop has left
    taken,      \* the places filled
    read,       \* the bytes read, those that are masked out as well
    ctx,        \* MD5_CTX: lo, hi and the buffer
    blocks      \* the blocks of 64 bytes MD5 has digested

call == <<func, len, align>>
hashVars == <<stage, call, key, length, taken, read, ctx, blocks>>

Junk == <<"junk", 0>>
Value(v) == <<"value", v>>
Byte(p) == <<"key", p>>
NoContext == [lo |-> 0, hi |-> 0, buffer |-> [n \in 0..63 |-> Junk]]

HashTypeOK ==
    /\ stage \in {"idle", "loop", "tail", "final", "done"}
    /\ key \in 0..len
    /\ func \notin {"hsieh", "md5"} => length = len - key
    /\ \A t \in taken : t[1] \in 0..(len - 1) /\ t[3] \in 0..24
    /\ \A b \in DOMAIN blocks : DOMAIN blocks[b] = 0..63

HashInit ==
    /\ stage = "idle"
    /\ func = "hashForBytes" /\ len = 0 /\ align = 0
    /\ key = 0 /\ length = 0
    /\ taken = {} /\ read = {}
    /\ ctx = NoContext /\ blocks = <<>>

Call(name, n, a) ==
    /\ stage = "idle"
    /\ func' = hashfuncFromName(name) /\ len' = n /\ align' = a
    /\ stage' = "loop"
    /\ key' = 0
    /\ length' = IF func' = "hsieh" THEN n \div 4 ELSE n
    /\ UNCHANGED <<taken, read, ctx, blocks>>

Return ==
    /\ stage = "done"
    /\ stage' = "idle"
    /\ func' = "hashForBytes" /\ len' = 0 /\ align' = 0
    /\ key' = 0 /\ length' = 0
    /\ taken' = {} /\ read' = {}
    /\ ctx' = NoContext /\ blocks' = <<>>

Take(places, bytes) ==
    /\ taken' = taken \union places
    /\ read' = read \union bytes
    /\ UNCHANGED <<call, ctx, blocks>>

PlacesOf(places) == {t[1] : t \in places}
Advance(n) == key' = key + n /\ length' = length - n

-----------------------------------------------------------------------------
(* Loads: the first n bytes at p, into word w, in little-endian order.     *)

Load(p, n, w, shift) == {<<p + i, w, shift + 8 * i>> : i \in 0..(n - 1)}

(* crc16.cpp, crc32.cpp, fnv.cpp: a byte at a time.                        *)

ByteStep ==
    /\ stage = "loop" /\ func \in Bytes
    /\ IF length > 0
       THEN /\ Take(Load(key, 1, key, 0), {key})
            /\ Advance(1)
            /\ UNCHANGED stage
       ELSE stage' = "done" /\ UNCHANGED <<call, key, length, taken, read, ctx, blocks>>

(* murmur.cpp and hashForBytes: words of four bytes, and what is left.     *)

WordStep ==
    /\ stage = "loop" /\ func \in Words
    /\ IF length >= 4
       THEN /\ Take(Load(key, 4, key \div 4, 0), key..(key + 3))
            /\ Advance(4)
            /\ UNCHANGED stage
       ELSE stage' = "tail" /\ UNCHANGED <<call, key, length, taken, read, ctx, blocks>>

\* The cases fall through: byte 2, then 1, then 0.
WordTail ==
    /\ stage = "tail" /\ func \in Words
    /\ LET w == key \div 4
           places == UNION {Load(key + i, 1, w, 8 * i) : i \in 0..(length - 1)}
       IN Take(places, PlacesOf(places))
    /\ stage' = "done"
    /\ UNCHANGED <<key, length>>

(* hsieh.cpp: two halves a round, the second shifted by 11.  The pointer   *)
(* advances by 2*sizeof(unsigned char).                                    *)

HsiehStep ==
    /\ stage = "loop" /\ func = "hsieh"
    /\ IF length > 0
       THEN LET round == key \div 2
                places == Load(key, 2, round, 0) \union Load(key + 2, 2, round, 11)
            IN /\ Take(places, PlacesOf(places))
               /\ key' = key + 2
               /\ length' = length - 1
               /\ UNCHANGED stage
       ELSE stage' = "tail" /\ UNCHANGED <<call, key, length, taken, read, ctx, blocks>>

HsiehTail ==
    /\ stage = "tail" /\ func = "hsieh"
    /\ LET rem == len % 4
           w == len \div 4
           places == CASE rem = 3 -> Load(key, 2, w, 0) \union Load(key + 2, 1, w, 18)
                       [] rem = 2 -> Load(key, 2, w, 0)
                       [] rem = 1 -> Load(key, 1, w, 0)
                       [] OTHER -> {}
       IN Take(places, PlacesOf(places))
    /\ stage' = "done"
    /\ UNCHANGED <<key, length>>

-----------------------------------------------------------------------------
(* jenkins.cpp: blocks of three words a, b, c, read as the address allows. *)
(* The last block is the one that leaves no more than 12 bytes.            *)

Aligned4 == align % 4 = 0
Aligned2 == align % 4 = 2

JenkinsStep ==
    /\ stage = "loop" /\ func = "jenkins"
    /\ IF length > 12
       THEN LET w == key \div 4
                places ==
                    IF Aligned4 THEN UNION {Load(key + 4 * k, 4, w + k, 0) : k \in 0..2}
                    ELSE IF Aligned2
                    THEN UNION {Load(key + 2 * k, 2, w + k \div 2, 16 * (k % 2)) : k \in 0..5}
                    ELSE UNION {Load(key + k, 1, w + k \div 4, 8 * (k % 4)) : k \in 0..11}
            IN /\ Take(places, PlacesOf(places))
               /\ Advance(12)
               /\ UNCHANGED stage
       ELSE stage' = "tail" /\ UNCHANGED <<call, key, length, taken, read, ctx, blocks>>

\* Words; the last one is read in full and what is beyond the key masked out.
Tail4 ==
    LET w == key \div 4
        full == length \div 4
        part == length % 4
    IN [places |-> (UNION {Load(key + 4 * k, 4, w + k, 0) : k \in 0..(full - 1)})
                     \union Load(key + 4 * full, part, w + full, 0),
        bytes |-> key..(key + 4 * full + (IF part > 0 THEN 3 ELSE -1))]

\* Fault: an odd byte at the end is not shifted to the upper half of its word.
Tail2_NoShift ==
    LET w == key \div 4
        places == (UNION {Load(key + 2 * k, 2, w + k \div 2, 16 * (k % 2)) : k \in 0..(length \div 2 - 1)})
                     \union IF length % 2 = 1 THEN Load(key + length - 1, 1, w + (length - 1) \div 4, 0)
                           ELSE {}
    IN [places |-> places, bytes |-> PlacesOf(places)]

\* Halves, and an odd byte at the end.
Tail2 ==
    LET w == key \div 4
        halves == length \div 2
        places == (UNION {Load(key + 2 * k, 2, w + k \div 2, 16 * (k % 2)) : k \in 0..(halves - 1)})
                     \union IF length % 2 = 1
                           THEN Load(key + 2 * halves, 1, w + halves \div 2, 16 * (halves % 2))
                           ELSE {}
    IN [places |-> places, bytes |-> PlacesOf(places)]

Tail1 ==
    LET w == key \div 4
        places == UNION {Load(key + k, 1, w + k \div 4, 8 * (k % 4)) : k \in 0..(length - 1)}
    IN [places |-> places, bytes |-> PlacesOf(places)]

JenkinsTail ==
    /\ stage = "tail" /\ func = "jenkins"
    /\ LET tail == IF Aligned4 THEN Tail4 ELSE IF Aligned2 THEN Tail2 ELSE Tail1
       IN Take(tail.places, tail.bytes)
    /\ stage' = "done"
    /\ UNCHANGED <<key, length>>

-----------------------------------------------------------------------------
(* md5.cpp.  body() is given each block once; its four rounds go through   *)
(* the words of the block each in an order of its own.                     *)

Order(round, i) ==
    CASE round = 1 -> i
      [] round = 2 -> (1 + 5 * i) % 16
      [] round = 3 -> (5 + 3 * i) % 16
      [] OTHER     -> (7 * i) % 16

body(block) ==
    [round \in 1..4 |-> [i \in 0..15 |-> <<Order(round, i), [n \in 0..3 |-> block[4 * Order(round, i) + n]]>>]]

\* MD5_Update, of a context that is new: whole blocks from the key itself, and
\* the rest into the buffer.
MD5_Update ==
    /\ stage = "loop" /\ func = "md5"
    /\ LET whole == length \div 64
           rest == length % 64
       IN /\ blocks' = [b \in 1..whole |-> [n \in 0..63 |-> Byte(64 * (b - 1) + n)]]
          /\ ctx' = [lo |-> length % 2^29,
                     hi |-> length \div 2^29,
                     buffer |-> [n \in 0..63 |-> IF n < rest THEN Byte(64 * whole + n) ELSE Junk]]
          /\ read' = 0..(length - 1)
    /\ stage' = "final"
    /\ UNCHANGED <<call, key, length, taken>>

Filled(buffer, from, to) == [n \in 0..63 |-> IF n \in from..to THEN Value(0) ELSE buffer[n]]
ByteOf(word, k) == Value((word \div 2^(8 * k)) % 256)

\* Fault: the length may overwrite the mark.
MD5_Final_NoSpare ==
    /\ stage = "final"
    /\ LET used == (ctx.lo % 64) + 1
           marked == [ctx.buffer EXCEPT ![used - 1] = Value(128)]
           spill == 64 - used < 7
           padded == IF spill THEN Filled(marked, 0, 55) ELSE Filled(marked, used, 55)
           last == [n \in 0..63 |-> IF n \in 56..59 THEN ByteOf(8 * ctx.lo, n - 56)
                                    ELSE IF n \in 60..63 THEN ByteOf(ctx.hi, n - 60) ELSE padded[n]]
       IN blocks' = blocks \o (IF spill THEN <<Filled(marked, used, 63)>> ELSE <<>>) \o <<last>>
    /\ ctx' = NoContext
    /\ stage' = "done"
    /\ UNCHANGED <<call, key, length, taken, read>>

\* MD5_Final: the mark, zeros, and the number of bits in the last eight bytes;
\* one more block when there is no room for it.
MD5_Final ==
    /\ stage = "final"
    /\ LET used == (ctx.lo % 64) + 1
           marked == [ctx.buffer EXCEPT ![used - 1] = Value(128)]
           spill == 64 - used < 8
           padded == IF spill THEN Filled(marked, 0, 55) ELSE Filled(marked, used, 55)
           last == [n \in 0..63 |-> IF n \in 56..59 THEN ByteOf(8 * ctx.lo, n - 56)
                                    ELSE IF n \in 60..63 THEN ByteOf(ctx.hi, n - 60) ELSE padded[n]]
       IN blocks' = blocks \o (IF spill THEN <<Filled(marked, used, 63)>> ELSE <<>>) \o <<last>>
    /\ ctx' = NoContext
    /\ stage' = "done"
    /\ UNCHANGED <<call, key, length, taken, read>>

HashNext ==
    \/ \E name \in Names, n \in Lengths, a \in Alignments : Call(name, n, a)
    \/ ByteStep \/ WordStep \/ WordTail \/ HsiehStep \/ HsiehTail
    \/ JenkinsStep \/ JenkinsTail \/ MD5_Update \/ MD5_Final
    \/ Return

HashSpec == HashInit /\ [][HashNext]_hashVars

-----------------------------------------------------------------------------
\* A key is hashed as the sequence of its bytes, each in its place once,
\* wherever in the buffer it lies: the same key is always on the same server.
\* And (jenkins.cpp:95-103) no call reads beyond the end of its key, but for the
\* rest of the aligned word the end is in.
SameAtEveryAlignment ==
    /\ HashTypeOK
    /\ stage = "done" =>
        /\ func \in Words \union {"jenkins"} =>
             taken = {<<p, p \div 4, 8 * (p % 4)>> : p \in 0..(len - 1)}
        /\ func \in Bytes => taken = {<<p, p, 0>> : p \in 0..(len - 1)}
    /\ \A p \in read :
        \/ p \in 0..(len - 1)
        \/ align % 4 = 0 /\ \E q \in 0..(len - 1) : p \div 4 = q \div 4

\* MD5 digests, in each of its rounds, the padded message of RFC 1321: the key,
\* the mark, zeros, and the number of bits in two words, the lower one first;
\* nothing the buffer held before.
Message ==
    LET size == 64 * (((len + 8) \div 64) + 1)
    IN [n \in 0..(size - 1) |->
          IF n < len THEN Byte(n)
          ELSE IF n = len THEN Value(128)
          ELSE IF n < size - 8 THEN Value(0)
          ELSE IF n < size - 4 THEN ByteOf(8 * (len % 2^29), n - (size - 8))
          ELSE ByteOf(len \div 2^29, n - (size - 4))]
WordsOf(b) == {<<w, [n \in 0..3 |-> Message[64 * (b - 1) + 4 * w + n]]>> : w \in 0..15}
DigestsMessage ==
    stage = "done" /\ func = "md5" =>
        /\ Len(blocks) = ((len + 8) \div 64) + 1
        /\ \A b \in DOMAIN blocks, round \in 1..4 :
             {body(blocks[b])[round][i] : i \in 0..15} = WordsOf(b)

=============================================================================
