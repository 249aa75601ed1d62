------------------------------- MODULE Codec --------------------------------
(***************************************************************************)
(* How numbers, amounts and byte strings are written: serialize.h, the     *)
(* amounts of CTxOutCompressor, the numbers of bignum.h and the texts of   *)
(* util.cpp and base58.h.  Bytes are numbers; texts are sequences of       *)
(* digits and the characters they are mixed with, of digits of the base    *)
(* for base 64, 58 and 32.                                                 *)
(***************************************************************************)
EXTENDS Integers, Sequences, SequencesExt, FiniteSets, FiniteSetsExt

CONSTANTS CoinDigits,      \* COIN is 10 ^ CoinDigits (8)
          IntBytes,        \* of the machine's integers (8 for int64)
          CheckBytes, Checksum(_)   \* of base 58 with a check: 4, of the double SHA-256

-----------------------------------------------------------------------------
(* Sizes *)

MAX_SIZE == 33554432       \* 0x02000000
Little(n, bytes) == [i \in 1..bytes |-> (n \div (256 ^ (i - 1))) % 256]
FromLittle(bytes) == FoldRight(LAMBDA b, n : b + 256 * n, bytes, 0)
UpTo65535 == 0..65535

\* WriteCompactSize; the form of eight bytes is for what ReadCompactSize refuses
WriteCompactSize(n) ==
  CASE n < 253 -> <<n>>
    [] n >= 253 /\ n \in UpTo65535 -> <<253>> \o Little(n, 2)
    [] OTHER -> <<254>> \o Little(n, 4)
GetSizeOfCompactSize(n) == IF n < 253 THEN 1 ELSE IF n \in UpTo65535 THEN 3 ELSE 5
ReadCompactSize(bytes) ==
  LET n == CASE Head(bytes) < 253 -> Head(bytes)
             [] Head(bytes) = 253 -> FromLittle(SubSeq(bytes, 2, 3))
             [] Head(bytes) = 254 -> FromLittle(SubSeq(bytes, 2, 5))
  IN [ok |-> n <= MAX_SIZE, n |-> n]

\* Seven bits to a byte, the most significant first; all but the last have
\* their top bit set and count from one.
RECURSIVE Groups(_)
Groups(n) == IF n <= 127 THEN <<n>> ELSE Append(Groups((n \div 128) - 1), n % 128)
WriteVarInt(n) ==
  LET g == Groups(n) IN [i \in DOMAIN g |-> IF i = Len(g) THEN g[i] ELSE g[i] + 128]
RECURSIVE GetSizeOfVarInt(_)
GetSizeOfVarInt(n) == IF n <= 127 THEN 1 ELSE 1 + GetSizeOfVarInt((n \div 128) - 1)
\* Up to the first byte whose top bit is clear
ReadVarInt(bytes) ==
  FoldLeft(LAMBDA n, b : n * 128 + (b % 128) + (IF b >= 128 THEN 1 ELSE 0), 0, bytes)

-----------------------------------------------------------------------------
(* Amounts *)

\* How often ten divides n, at most nine times
Exponent(n) == Max({e \in 0..9 : n % (10 ^ e) = 0})
CompressAmount(n) ==
  LET e == Exponent(n)
      m == n \div (10 ^ e)
  IN IF n = 0 THEN 0
     ELSE IF e < 9 THEN 1 + ((m \div 10) * 9 + (m % 10) - 1) * 10 + e
     ELSE 1 + (m - 1) * 10 + 9
DecompressAmount(x) ==
  LET e == (x - 1) % 10
      y == (x - 1) \div 10
      n == IF e < 9 THEN (y \div 9) * 10 + (y % 9) + 1 ELSE y + 1
  IN IF x = 0 THEN 0 ELSE n * 10 ^ e

Digits(n, count) == [i \in 1..count |-> (n \div (10 ^ (count - i))) % 10]
RECURSIVE Decimal(_)
Decimal(n) == IF n < 10 THEN <<n>> ELSE Append(Decimal(n \div 10), n % 10)
Value(digits) == FoldLeft(LAMBDA n, d : 10 * n + d, 0, digits)
POINT == 10
MINUS == 11
PLUS  == 12
SPACE == 13

\* Zeros at the end go, but for the two digits after the point
Trimmed(fraction) ==
  LET keep == Max({2} \cup {i \in DOMAIN fraction : fraction[i] # 0}) IN SubSeq(fraction, 1, keep)
FormatMoney(n, fPlus) ==
  LET abs == IF n > 0 THEN n ELSE -n
      COIN == 10 ^ CoinDigits
  IN (IF n < 0 THEN <<MINUS>> ELSE IF fPlus /\ n > 0 THEN <<PLUS>> ELSE <<>>)
     \o Decimal(abs \div COIN) \o <<POINT>> \o Trimmed(Digits(abs % COIN, CoinDigits))

\* The digits from i on
Run(text, i) ==
  LET end == Min({j \in i..Len(text) : text[j] \notin 0..9} \cup {Len(text) + 1}) IN SubSeq(text, i, end - 1)
ParseMoney(text) ==
  LET start == Min({j \in DOMAIN text : text[j] # SPACE} \cup {Len(text) + 1})
      whole == Run(text, start)
      point == start + Len(whole)
      dotted == point <= Len(text) /\ text[point] = POINT
      all   == IF dotted THEN Run(text, point + 1) ELSE <<>>
      units == SubSeq(all, 1, IF Len(all) < CoinDigits THEN Len(all) ELSE CoinDigits)
      rest  == IF dotted THEN point + 1 + Len(units) ELSE point
  IN [ok |-> /\ \A j \in rest..Len(text) : text[j] = SPACE
             /\ Len(whole) <= 10,
      n  |-> Value(whole) * 10 ^ CoinDigits + Value(units) * 10 ^ (CoinDigits - Len(units))]

-----------------------------------------------------------------------------
(* Base 64 and base 32: k bits to a character, in groups of so many         *)
(* characters that they are whole bytes.                                    *)

PAD == 64
GroupLength(k) == IF k = 6 THEN 4 ELSE 8
Bits(n, count) == [i \in 1..count |-> (n \div (2 ^ (count - i))) % 2]
FromBits(bits) == FoldLeft(LAMBDA n, b : 2 * n + b, 0, bits)
Stream(values, count) == FlattenSeq([i \in DOMAIN values |-> Bits(values[i], count)])

\* The bits in groups of k, the last filled up with zeros
Encode(k, bytes) ==
  LET bits  == Stream(bytes, 8)
      n     == (Len(bits) + k - 1) \div k
      bit(i) == IF i <= Len(bits) THEN bits[i] ELSE 0
      pads  == (GroupLength(k) - (n % GroupLength(k))) % GroupLength(k)
  IN [c \in 1..n |-> FromBits([i \in 1..k |-> bit((c - 1) * k + i)])] \o [i \in 1..pads |-> PAD]
EncodeBase64(bytes) == Encode(6, bytes)
EncodeBase32(bytes) == Encode(5, bytes)

\* What comes before the first character that is no digit is decoded; of a
\* last group that is not full, the bits left over must be zero and the
\* padding complete, and no digit may follow it.
Decode(k, text) ==
  LET n     == Min({i \in DOMAIN text : text[i] = PAD} \cup {Len(text) + 1}) - 1
      bits  == Stream(SubSeq(text, 1, n), k)
      whole == Len(bits) \div 8
      over  == SubSeq(bits, 8 * whole + 1, Len(bits))
      last  == n % GroupLength(k)
      pads  == GroupLength(k) - last
  IN [bytes |-> [b \in 1..whole |-> FromBits(SubSeq(bits, 8 * b - 7, 8 * b))],
      ok    |-> last = 0 \/ /\ Len(over) < k
                            /\ \A i \in DOMAIN over : over[i] = 0
                            /\ n + pads <= Len(text) /\ \A i \in (n + 1)..(n + pads) : text[i] = PAD
                            /\ n + pads = Len(text) \/ text[n + pads + 1] = PAD]
DecodeBase64(text) == Decode(6, text)
DecodeBase32(text) == Decode(5, text)
-----------------------------------------------------------------------------
(* CBigNum: bytes, the last of which (the first, of an mpi) has the sign.   *)

Abs(n) == IF n < 0 THEN -n ELSE n
RECURSIVE Bytes256(_)
Bytes256(n) == IF n = 0 THEN <<>> ELSE <<n % 256>> \o Bytes256(n \div 256)
getvch(n) ==
  LET bytes == Bytes256(Abs(n))
      sign  == IF n < 0 THEN 128 ELSE 0
  IN CASE n = 0 -> <<>>
       [] n # 0 /\ Last(bytes) >= 128 -> Append(bytes, sign)
       [] OTHER -> [bytes EXCEPT ![Len(bytes)] = @ + sign]
setvch(bytes) ==
  LET abs == FromLittle([i \in DOMAIN bytes |-> IF i = Len(bytes) THEN bytes[i] % 128 ELSE bytes[i]])
  IN IF bytes # <<>> /\ Last(bytes) >= 128 THEN -abs ELSE abs

\* The mpi that setint64 makes of sn; -(sn + 1) is in range for the least sn too
setint64(sn) ==
  LET n     == IF sn < 0 THEN -(sn + 1) + 1 ELSE sn
      all   == Reverse(Little(n, IntBytes))
      bytes == SubSeq(all, Min({i \in DOMAIN all : all[i] # 0} \cup {IntBytes + 1}), IntBytes)
      sign  == IF sn < 0 THEN 128 ELSE 0
  IN CASE bytes = <<>> -> <<>>
       [] bytes # <<>> /\ Head(bytes) >= 128 -> <<sign>> \o bytes
       [] OTHER -> [bytes EXCEPT ![1] = @ + sign]
IntMax == 2 ^ (8 * IntBytes - 1) - 1
getint(n) ==
  CASE n >= 0 /\ n > IntMax -> IntMax
    [] n < 0 /\ -n > IntMax -> -IntMax - 1
    [] OTHER -> n

\* [size, negative, word]: the bits of a compact number
SetCompact(c) ==
  LET abs == IF c.size <= 3 THEN c.word \div (256 ^ (3 - c.size)) ELSE c.word * 256 ^ (c.size - 3)
  IN IF c.negative THEN -abs ELSE abs
GetCompact(n) ==
  LET size == Len(Bytes256(Abs(n)))
      word == IF size <= 3 THEN Abs(n) * 256 ^ (3 - size) ELSE Abs(n) \div (256 ^ (size - 3))
  IN IF word >= 2 ^ 23 THEN [size |-> size + 1, negative |-> n < 0, word |-> word \div 256]
                       ELSE [size |-> size, negative |-> n < 0, word |-> word]

\* Base 58: a number's digits, after a digit 0 for every leading byte 0
LeadingZeros(s) == Min({i \in DOMAIN s : s[i] # 0} \cup {Len(s) + 1}) - 1
RECURSIVE Digits58(_)
Digits58(n) == IF n = 0 THEN <<>> ELSE Append(Digits58(n \div 58), n % 58)
EncodeBase58(bytes) ==
  [i \in 1..LeadingZeros(bytes) |-> 0] \o Digits58(FromLittle(Reverse(bytes)))

\* The text may have spaces around it: a digit is a number below BLANK
BLANK == 58
DecodeBase58(text) ==
  LET start == Min({i \in DOMAIN text : text[i] # BLANK} \cup {Len(text) + 1})
      from  == SubSeq(text, start, Len(text))
      end   == Min({i \in DOMAIN from : from[i] \notin 0..(BLANK - 1)} \cup {Len(from) + 1}) - 1
      n     == FoldLeft(LAMBDA a, d : a * 58 + d, 0, SubSeq(from, 1, end))
      number(signed) == IF Len(signed) >= 2 /\ Last(signed) = 0 /\ signed[Len(signed) - 1] >= 128
                        THEN SubSeq(signed, 1, Len(signed) - 1) ELSE signed
  IN [ok    |-> \A i \in (end + 1)..Len(from) : from[i] = BLANK,
      bytes |-> [i \in 1..LeadingZeros(from) |-> 0] \o Reverse(number(getvch(n)))]

\* With the first CheckBytes of the hash of the data at the end
EncodeBase58Check(bytes) == EncodeBase58(bytes \o Checksum(bytes))
Checked58(d) ==
  LET data == SubSeq(d.bytes, 1, Len(d.bytes) - CheckBytes)
  IN IF d.ok /\ Len(d.bytes) >= CheckBytes /\ SubSeq(d.bytes, Len(data) + 1, Len(d.bytes)) = Checksum(data)
     THEN [ok |-> TRUE, bytes |-> data] ELSE [ok |-> FALSE, bytes |-> <<>>]
DecodeBase58Check(text) == Checked58(DecodeBase58(text))
=============================================================================
