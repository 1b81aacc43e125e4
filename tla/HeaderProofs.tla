---------------------------- MODULE HeaderProofs ----------------------------
(***************************************************************************)
(* Proofs about the BlockNonce conversions of HeaderIdentity, for every    *)
(* uint64 and every 8-byte nonce (TLC checks them only on integers of 31   *)
(* bits).                                                                  *)
(***************************************************************************)
EXTENDS HeaderIdentity, SequenceTheorems, TLAPS

(* Splitting off the low byte of a natural number.                         *)
LEMMA LowByte ==
    ASSUME NEW x \in Nat
    PROVE  /\ x = 256 * (x \div 256) + (x % 256)
           /\ x % 256 \in 0..255
           /\ x \div 256 \in Nat
  OBVIOUS

(* EncodeNonce yields eight bytes.                                         *)
LEMMA EncodeNonceType ==
    ASSUME NEW i \in Nat
    PROVE  EncodeNonce(i) \in ByteArray(8)
  BY DEF EncodeNonce, ByteArray

(* BlockNonce.Uint64 reads back the integer EncodeNonce wrote.             *)
THEOREM NonceUint64OfEncode ==
    ASSUME NEW i, IsUint64(i)
    PROVE  NonceUint64(EncodeNonce(i)) = i
<1> DEFINE q1 == i \div 256  q2 == q1 \div 256  q3 == q2 \div 256
           q4 == q3 \div 256  q5 == q4 \div 256  q6 == q5 \div 256
           q7 == q6 \div 256
<1>1. i \in Nat /\ q7 \div 256 = 0
  BY DEF IsUint64
<1>2. /\ i = 256 * q1 + (i % 256)
      /\ q1 = 256 * q2 + (q1 % 256)
      /\ q2 = 256 * q3 + (q2 % 256)
      /\ q3 = 256 * q4 + (q3 % 256)
      /\ q4 = 256 * q5 + (q4 % 256)
      /\ q5 = 256 * q6 + (q5 % 256)
      /\ q6 = 256 * q7 + (q6 % 256)
      /\ q7 = q7 % 256
  BY <1>1
<1>3. EncodeNonce(i) = <<q7 % 256, q6 % 256, q5 % 256, q4 % 256, q3 % 256, q2 % 256, q1 % 256, i % 256>>
  BY DEF EncodeNonce
<1>4. NonceUint64(EncodeNonce(i))
        = ((((((q7 * 256 + (q6 % 256)) * 256 + (q5 % 256)) * 256 + (q4 % 256)) * 256
            + (q3 % 256)) * 256 + (q2 % 256)) * 256 + (q1 % 256)) * 256 + (i % 256)
  BY <1>2, <1>3 DEF NonceUint64
<1>5. q7 * 256 + (q6 % 256) = q6
  BY <1>1, <1>2
<1>6. q6 * 256 + (q5 % 256) = q5
  BY <1>1, <1>2
<1>7. q5 * 256 + (q4 % 256) = q4
  BY <1>1, <1>2
<1>8. q4 * 256 + (q3 % 256) = q3
  BY <1>1, <1>2
<1>9. q3 * 256 + (q2 % 256) = q2
  BY <1>1, <1>2
<1>10. q2 * 256 + (q1 % 256) = q1
  BY <1>1, <1>2
<1>11. q1 * 256 + (i % 256) = i
  BY <1>1, <1>2
<1> QED
  BY ONLY <1>1, <1>4, <1>5, <1>6, <1>7, <1>8, <1>9, <1>10, <1>11

(* Eight bytes, read by Uint64 and written back by EncodeNonce.           *)
LEMMA NonceBytes ==
    ASSUME NEW b1 \in 0..255, NEW b2 \in 0..255, NEW b3 \in 0..255,
           NEW b4 \in 0..255, NEW b5 \in 0..255, NEW b6 \in 0..255,
           NEW b7 \in 0..255, NEW b8 \in 0..255
    PROVE  /\ EncodeNonce(NonceUint64(<<b1, b2, b3, b4, b5, b6, b7, b8>>))
                = <<b1, b2, b3, b4, b5, b6, b7, b8>>
           /\ IsUint64(NonceUint64(<<b1, b2, b3, b4, b5, b6, b7, b8>>))
<1> DEFINE h1 == b1  h2 == h1 * 256 + b2  h3 == h2 * 256 + b3
           h4 == h3 * 256 + b4  h5 == h4 * 256 + b5  h6 == h5 * 256 + b6
           h7 == h6 * 256 + b7  h8 == h7 * 256 + b8
<1>1. NonceUint64(<<b1, b2, b3, b4, b5, b6, b7, b8>>) = h8
  BY DEF NonceUint64
<1>2. /\ h8 \in Nat /\ h8 \div 256 = h7 /\ h8 % 256 = b8
      /\ h7 \in Nat /\ h7 \div 256 = h6 /\ h7 % 256 = b7
      /\ h6 \in Nat /\ h6 \div 256 = h5 /\ h6 % 256 = b6
      /\ h5 \in Nat /\ h5 \div 256 = h4 /\ h5 % 256 = b5
      /\ h4 \in Nat /\ h4 \div 256 = h3 /\ h4 % 256 = b4
      /\ h3 \in Nat /\ h3 \div 256 = h2 /\ h3 % 256 = b3
      /\ h2 \in Nat /\ h2 \div 256 = h1 /\ h2 % 256 = b2
      /\ h1 \div 256 = 0 /\ h1 % 256 = b1
  OBVIOUS
<1>3. EncodeNonce(h8) = <<b1, b2, b3, b4, b5, b6, b7, b8>>
  BY <1>2 DEF EncodeNonce
<1>4. IsUint64(h8)
  BY <1>2 DEF IsUint64
<1> QED
  BY <1>1, <1>3, <1>4

(* EncodeNonce writes back the bytes BlockNonce.Uint64 read, and what     *)
(* Uint64 reads is a uint64.                                               *)
THEOREM EncodeOfNonceUint64 ==
    ASSUME NEW n \in ByteArray(8)
    PROVE  /\ EncodeNonce(NonceUint64(n)) = n
           /\ IsUint64(NonceUint64(n))
<1>1. /\ n[1] \in 0..255 /\ n[2] \in 0..255 /\ n[3] \in 0..255 /\ n[4] \in 0..255
      /\ n[5] \in 0..255 /\ n[6] \in 0..255 /\ n[7] \in 0..255 /\ n[8] \in 0..255
  BY DEF ByteArray
<1>2. n = <<n[1], n[2], n[3], n[4], n[5], n[6], n[7], n[8]>>
  BY DEF ByteArray
<1>3. /\ EncodeNonce(NonceUint64(<<n[1], n[2], n[3], n[4], n[5], n[6], n[7], n[8]>>))
           = <<n[1], n[2], n[3], n[4], n[5], n[6], n[7], n[8]>>
      /\ IsUint64(NonceUint64(<<n[1], n[2], n[3], n[4], n[5], n[6], n[7], n[8]>>))
  BY <1>1, NonceBytes
<1> QED
  BY <1>2, <1>3

-----------------------------------------------------------------------------
(* The value of a hex digit is a nibble.                                   *)
LEMMA HexValRange ==
    ASSUME NEW c, IsHexChar(c)
    PROVE  HexVal(c) \in 0..15
  BY DEF IsHexChar, HexVal

(* An even number is twice its half.                                      *)
LEMMA HalfEven ==
    ASSUME NEW x \in Nat, NEW n, x % 2 = 0, x \div 2 = n
    PROVE  x = 2 * n
  OBVIOUS

(* Two nibbles make a byte.                                               *)
LEMMA NibblesByte ==
    ASSUME NEW a \in 0..15, NEW b \in 0..15
    PROVE  16 * a + b \in 0..255
  OBVIOUS

(* hexutil.UnmarshalFixedText writes exactly n bytes when it succeeds.     *)
LEMMA FixedTextType ==
    ASSUME NEW t \in Seq(0..255), NEW n \in Nat,
           UnmarshalFixedText(t, n).err = NoErr
    PROVE  UnmarshalFixedText(t, n).val \in ByteArray(n)
<1> DEFINE raw == IF Has0xPrefix(t) THEN SubSeq(t, 3, Len(t)) ELSE t
<1>1. raw \in Seq(0..255)
  <2>1. CASE Has0xPrefix(t)
    <3>0. Len(t) \in Nat /\ t \in [1..Len(t) -> 0..255]
      BY LenProperties
    <3>1. \A i \in 3..Len(t) : t[i] \in 0..255
      <4> TAKE i \in 3..Len(t)
      <4>1. i \in 1..Len(t)
        BY <3>0
      <4> QED
        BY <3>0, <4>1, Zenon
    <3> QED
      BY <2>1, <3>1, SubSeqProperties
  <2>2. CASE ~Has0xPrefix(t)
    BY <2>2
  <2> QED
    BY <2>1, <2>2
<1>2. /\ Len(raw) % 2 = 0
      /\ Len(raw) \div 2 = n
      /\ \A i \in 1..Len(raw) : IsHexChar(raw[i])
      /\ UnmarshalFixedText(t, n).val = HexBytes(raw, n)
  BY DEF UnmarshalFixedText, Result, NoErr
<1>3. Len(raw) = 2 * n
  <2>1. Len(raw) \in Nat
    BY <1>1, LenProperties
  <2> QED
    BY <2>1, <1>2, HalfEven, Zenon
<1>4. \A k \in 1..n : 16 * HexVal(raw[2 * k - 1]) + HexVal(raw[2 * k]) \in 0..255
  <2> TAKE k \in 1..n
  <2>1. 2 * k - 1 \in 1..Len(raw) /\ 2 * k \in 1..Len(raw)
    BY <1>3
  <2>2. IsHexChar(raw[2 * k - 1]) /\ IsHexChar(raw[2 * k])
    BY <1>2, <2>1
  <2>3. HexVal(raw[2 * k - 1]) \in 0..15 /\ HexVal(raw[2 * k]) \in 0..15
    BY <2>2, HexValRange
  <2> QED
    BY <2>3, NibblesByte, Zenon
<1>5. HexBytes(raw, n) \in [1..n -> 0..255]
  BY <1>4 DEF HexBytes
<1> QED
  BY <1>2, <1>5 DEF ByteArray

(* BlockNonce.UnmarshalText leaves an 8-byte nonce behind, whether it     *)
(* writes the decoded bytes or keeps the old ones.                         *)
LEMMA UnmarshalNonceType ==
    ASSUME NEW n \in ByteArray(8), NEW t \in Seq(0..255)
    PROVE  NonceUnmarshalText(n, t).nonce \in ByteArray(8)
<1>1. CASE UnmarshalFixedText(t, 8).err = NoErr
  <2>1. UnmarshalFixedText(t, 8).val \in ByteArray(8)
    BY <1>1, FixedTextType
  <2> QED
    BY <1>1, <2>1 DEF NonceUnmarshalText
<1>2. CASE UnmarshalFixedText(t, 8).err # NoErr
  BY <1>2 DEF NonceUnmarshalText
<1> QED
  BY <1>1, <1>2

(* The error of the checks UnmarshalFixedText makes after the prefix.     *)
LEMMA FixedTextErr ==
    ASSUME NEW l \in Int, NEW bad \in BOOLEAN, NEW v
    PROVE  (IF l % 2 # 0 THEN Result(<<>>, "ErrOddLength")
            ELSE IF l \div 2 # 8 THEN Result(<<>>, "ErrLength")
            ELSE IF bad THEN Result(<<>>, "ErrSyntax")
            ELSE Result(v, NoErr)).err = NoErr
             <=> l % 2 = 0 /\ l \div 2 = 8 /\ ~bad
  BY DEF Result, NoErr

(* Sixteen is the one even number whose half is eight.                    *)
LEMMA EvenSixteen ==
    ASSUME NEW x \in Int
    PROVE  (x % 2 = 0 /\ x \div 2 = 8) <=> x = 16
  OBVIOUS

(* The digits of a prefixed text are the text from its third character.  *)
LEMMA PrefixedRaw ==
    ASSUME NEW t \in Seq(0..255), Has0xPrefix(t)
    PROVE  /\ SubSeq(t, 3, Len(t)) \in Seq(0..255)
           /\ Len(SubSeq(t, 3, Len(t))) = Len(t) - 2
           /\ \A i \in 1..Len(t) - 2 : SubSeq(t, 3, Len(t))[i] = t[i + 2]
<1>0. Len(t) \in Nat /\ t \in [1..Len(t) -> 0..255] /\ Len(t) >= 2
  <2>1. Len(t) \in Nat /\ t \in [1..Len(t) -> 0..255]
    BY LenProperties, Zenon
  <2>2. Len(t) >= 2
    BY DEF Has0xPrefix
  <2> QED
    BY <2>1, <2>2
<1>1. \A i \in 3..Len(t) : t[i] \in 0..255
  <2> TAKE i \in 3..Len(t)
  <2>1. i \in 1..Len(t)
    BY <1>0
  <2> QED
    BY <1>0, <2>1, Zenon
<1>2. /\ SubSeq(t, 3, Len(t)) \in Seq(0..255)
      /\ Len(SubSeq(t, 3, Len(t))) = IF 3 <= Len(t) THEN Len(t) - 3 + 1 ELSE 0
      /\ \A i \in 1..Len(t) - 3 + 1 : SubSeq(t, 3, Len(t))[i] = t[3 + i - 1]
  <2> DEFINE n == Len(t)
  <2>1. 3 \in Int /\ n \in Int /\ \A i \in 3..n : t[i] \in 0..255
    BY <1>0, <1>1
  <2>2. /\ SubSeq(t, 3, n) \in Seq(0..255)
        /\ Len(SubSeq(t, 3, n)) = IF 3 <= n THEN n - 3 + 1 ELSE 0
        /\ \A i \in 1..n - 3 + 1 : SubSeq(t, 3, n)[i] = t[3 + i - 1]
    <3> HIDE DEF n
    <3>1. SubSeq(t, 3, n) \in Seq(0..255)
      BY <2>1, SubSeqProperties, Zenon
    <3>2. Len(SubSeq(t, 3, n)) = IF 3 <= n THEN n - 3 + 1 ELSE 0
      BY <2>1, SubSeqProperties
    <3>3. \A i \in 1..n - 3 + 1 : SubSeq(t, 3, n)[i] = t[3 + i - 1]
      BY <2>1, SubSeqProperties
    <3> QED
      BY <3>1, <3>2, <3>3
  <2> QED
    BY <2>2
<1>3. \A i \in 1..Len(t) - 2 : SubSeq(t, 3, Len(t))[i] = t[i + 2]
  <2> TAKE i \in 1..Len(t) - 2
  <2>1. i \in 1..Len(t) - 3 + 1 /\ 3 + i - 1 = i + 2
    BY <1>0
  <2> QED
    BY <1>2, <2>1
<1>4. Len(SubSeq(t, 3, Len(t))) = Len(t) - 2
  BY <1>0, <1>2
<1> QED
  BY <1>2, <1>3, <1>4

(* hexutil.UnmarshalFixedText into eight bytes succeeds on exactly the     *)
(* nonce texts: "0x" or "0X" and sixteen hex digits.                       *)
LEMMA NonceTextAccepted ==
    ASSUME NEW t \in Seq(0..255)
    PROVE  UnmarshalFixedText(t, 8).err = NoErr <=> NonceText(t)
<1>1. CASE Has0xPrefix(t)
  <2> DEFINE raw == SubSeq(t, 3, Len(t))
  <2>1. /\ Len(raw) = Len(t) - 2
        /\ \A i \in 1..Len(t) - 2 : raw[i] = t[i + 2]
    BY <1>1, PrefixedRaw
  <2> HIDE DEF raw
  <2>2. UnmarshalFixedText(t, 8).err = NoErr
          <=> /\ Len(raw) % 2 = 0
              /\ Len(raw) \div 2 = 8
              /\ \A i \in 1..Len(raw) : IsHexChar(raw[i])
    <3>1. UnmarshalFixedText(t, 8) =
            IF Len(raw) % 2 # 0 THEN Result(<<>>, "ErrOddLength")
            ELSE IF Len(raw) \div 2 # 8 THEN Result(<<>>, "ErrLength")
            ELSE IF \E i \in 1..Len(raw) : ~IsHexChar(raw[i]) THEN Result(<<>>, "ErrSyntax")
            ELSE Result(HexBytes(raw, 8), NoErr)
      BY <1>1, Zenon DEF UnmarshalFixedText, raw
    <3> DEFINE l == Len(raw)
               bad == \E i \in 1..Len(raw) : ~IsHexChar(raw[i])
               v == HexBytes(raw, 8)
    <3>2. l \in Int /\ bad \in BOOLEAN
      BY <2>1
    <3> HIDE DEF l, bad, v
    <3>3. (IF l % 2 # 0 THEN Result(<<>>, "ErrOddLength")
           ELSE IF l \div 2 # 8 THEN Result(<<>>, "ErrLength")
           ELSE IF bad THEN Result(<<>>, "ErrSyntax")
           ELSE Result(v, NoErr)).err = NoErr
             <=> l % 2 = 0 /\ l \div 2 = 8 /\ ~bad
      BY <3>2, FixedTextErr, Zenon
    <3>4. UnmarshalFixedText(t, 8).err = NoErr <=> l % 2 = 0 /\ l \div 2 = 8 /\ ~bad
      BY <3>1, <3>3 DEF l, bad, v
    <3> QED
      BY <3>4 DEF l, bad
  <2>3. Len(t) \in Nat /\ Len(raw) \in Int
    BY <2>1, LenProperties
  <2>4. (Len(raw) % 2 = 0 /\ Len(raw) \div 2 = 8) <=> Len(t) = 18
    <3>1. (Len(raw) % 2 = 0 /\ Len(raw) \div 2 = 8) <=> Len(raw) = 16
      BY <2>3, EvenSixteen, Zenon
    <3> QED
      BY <3>1, <2>1, <2>3
  <2>5. ASSUME Len(t) = 18
        PROVE  (\A i \in 1..Len(raw) : IsHexChar(raw[i]))
                 <=> \A i \in 3..18 : IsHexChar(t[i])
    <3>1. ASSUME \A i \in 1..Len(raw) : IsHexChar(raw[i]), NEW j \in 3..18
          PROVE  IsHexChar(t[j])
      <4>1. j - 2 \in 1..Len(raw) /\ j - 2 \in 1..Len(t) - 2 /\ (j - 2) + 2 = j
        BY <2>1, <2>5
      <4>2. raw[j - 2] = t[j]
        BY <4>1, <2>1
      <4> QED
        BY <3>1, <4>1, <4>2, Zenon
    <3>2. ASSUME \A i \in 3..18 : IsHexChar(t[i]), NEW j \in 1..Len(raw)
          PROVE  IsHexChar(raw[j])
      <4>1. j + 2 \in 3..18 /\ j \in 1..Len(t) - 2
        BY <2>1, <2>5
      <4>2. raw[j] = t[j + 2]
        BY <4>1, <2>1
      <4> QED
        BY <3>2, <4>1, <4>2, Zenon
    <3> QED
      BY <3>1, <3>2, Zenon
  <2> QED
    BY <1>1, <2>2, <2>4, <2>5 DEF NonceText
<1>2. CASE ~Has0xPrefix(t)
  <2>1. ~NonceText(t)
    BY <1>2 DEF NonceText
  <2>2. UnmarshalFixedText(t, 8).err # NoErr
    <3>1. CASE Len(t) > 0
      <4>1. UnmarshalFixedText(t, 8) = Result(<<>>, "ErrMissingPrefix")
        BY <1>2, <3>1 DEF UnmarshalFixedText
      <4> QED
        BY <4>1 DEF Result, NoErr
    <3>2. CASE Len(t) = 0
      <4>1. UnmarshalFixedText(t, 8) = Result(<<>>, "ErrLength")
        BY <1>2, <3>2 DEF UnmarshalFixedText
      <4> QED
        BY <4>1 DEF Result, NoErr
    <3> QED
      BY <3>1, <3>2, LenProperties
  <2> QED
    BY <2>1, <2>2
<1> QED
  BY <1>1, <1>2

(* Two intervals 1..x and 1..y that agree on x and y have the same end.   *)
LEMMA SameInterval ==
    ASSUME NEW x \in Nat, NEW y \in Nat,
           x \in 1..x <=> x \in 1..y, y \in 1..x <=> y \in 1..y
    PROVE  x = y
  OBVIOUS

(* A byte array is a sequence of its length.                             *)
LEMMA ByteArrayLen ==
    ASSUME NEW n \in Nat, NEW b \in ByteArray(n)
    PROVE  b \in Seq(0..255) /\ Len(b) = n
<1>1. b \in Seq(0..255)
  BY SeqDef DEF ByteArray
<1>2. Len(b) \in Nat /\ DOMAIN b = 1..Len(b)
  BY <1>1, LenProperties
<1>3. DOMAIN b = 1..n
  BY DEF ByteArray
<1>4. /\ Len(b) \in 1..Len(b) <=> Len(b) \in 1..n
      /\ n \in 1..Len(b) <=> n \in 1..n
  BY <1>2, <1>3, Zenon
<1>5. Len(b) = n
  BY <1>2, <1>4, SameInterval, Zenon
<1> QED
  BY <1>1, <1>5

(* A byte's high and low nibble.                                          *)
LEMMA NibbleSplit ==
    ASSUME NEW a \in 0..15, NEW c \in 0..15
    PROVE  (16 * a + c) \div 16 = a /\ (16 * a + c) % 16 = c
  OBVIOUS

(* Printing the value of a hex digit gives the digit in lowercase.        *)
LEMMA HexCharLower ==
    ASSUME NEW c, IsHexChar(c)
    PROVE  LowerHex(HexVal(c)) = IF c \in 65..70 THEN c + 32 ELSE c
  BY DEF IsHexChar, HexVal, LowerHex, Digit0

(* The digit that EncodeHex prints at place i of 2 * Len(b).              *)
HexDigitAt(b, i) == LowerHex(IF i % 2 = 1 THEN b[(i + 1) \div 2] \div 16 ELSE b[i \div 2] % 16)

(* A prefixed text passes the checks of UnmarshalFixedText exactly when it *)
(* decodes, and then its value is the bytes its digits denote.             *)
LEMMA FixedTextVal ==
    ASSUME NEW l \in Int, NEW bad \in BOOLEAN, NEW v,
           (IF l % 2 # 0 THEN Result(<<>>, "ErrOddLength")
            ELSE IF l \div 2 # 8 THEN Result(<<>>, "ErrLength")
            ELSE IF bad THEN Result(<<>>, "ErrSyntax")
            ELSE Result(v, NoErr)).err = NoErr
    PROVE  (IF l % 2 # 0 THEN Result(<<>>, "ErrOddLength")
            ELSE IF l \div 2 # 8 THEN Result(<<>>, "ErrLength")
            ELSE IF bad THEN Result(<<>>, "ErrSyntax")
            ELSE Result(v, NoErr)).val = v
  BY DEF Result, NoErr

(* The digits of byte k of HexBytes(raw, 8) printed back.                *)
LEMMA HexBytesDigits ==
    ASSUME NEW raw, NEW i \in 1..16, \A j \in 1..16 : IsHexChar(raw[j])
    PROVE  HexDigitAt(HexBytes(raw, 8), i) = LowerHex(HexVal(raw[i]))
<1> DEFINE b == HexBytes(raw, 8)
<1>1. CASE i % 2 = 1
  <2> DEFINE k == (i + 1) \div 2
             hi == HexVal(raw[i])
             lo == HexVal(raw[i + 1])
  <2>1. k \in 1..8 /\ 2 * k - 1 = i /\ 2 * k = i + 1 /\ i + 1 \in 1..16
    BY <1>1
  <2>2. b[k] = 16 * HexVal(raw[2 * k - 1]) + HexVal(raw[2 * k])
    BY <2>1 DEF HexBytes
  <2>3. b[k] = 16 * hi + lo
    BY <2>1, <2>2, Zenon
  <2>4. hi \in 0..15 /\ lo \in 0..15
    BY <2>1, HexValRange
  <2> HIDE DEF hi, lo, b
  <2>5. b[k] \div 16 = hi
    BY <2>3, <2>4, NibbleSplit, Zenon
  <2> QED
    BY <1>1, <2>5 DEF HexDigitAt, hi, b
<1>2. CASE i % 2 = 0
  <2> DEFINE k == i \div 2
             hi == HexVal(raw[i - 1])
             lo == HexVal(raw[i])
  <2>1. k \in 1..8 /\ 2 * k - 1 = i - 1 /\ 2 * k = i /\ i - 1 \in 1..16
    BY <1>2
  <2>2. b[k] = 16 * HexVal(raw[2 * k - 1]) + HexVal(raw[2 * k])
    BY <2>1 DEF HexBytes
  <2>3. b[k] = 16 * hi + lo
    BY <2>1, <2>2, Zenon
  <2>4. hi \in 0..15 /\ lo \in 0..15
    BY <2>1, HexValRange
  <2> HIDE DEF hi, lo, b
  <2>5. (16 * hi + lo) % 16 = lo
    BY <2>4, NibbleSplit, Zenon
  <2>6. b[k] % 16 = lo
    BY <2>3, <2>5
  <2> QED
    BY <1>2, <2>6 DEF HexDigitAt, lo, b
<1> QED
  BY <1>1, <1>2

(* The nonce a text decodes to prints back as the text in lowercase.       *)
LEMMA NonceTextValue ==
    ASSUME NEW t \in Seq(0..255), NonceText(t)
    PROVE  NonceMarshalText(UnmarshalFixedText(t, 8).val) = LowerNonceText(t)
<1> DEFINE raw == SubSeq(t, 3, Len(t))
           b == HexBytes(raw, 8)
           lower(c) == IF c \in 65..70 THEN c + 32 ELSE c
<1>1. Has0xPrefix(t) /\ Len(t) = 18 /\ \A i \in 3..18 : IsHexChar(t[i])
  BY DEF NonceText
<1>2. \A i \in 1..16 : raw[i] = t[i + 2] /\ IsHexChar(raw[i])
  <2>1. \A i \in 1..Len(t) - 2 : raw[i] = t[i + 2]
    BY <1>1, PrefixedRaw
  <2> QED
    BY <1>1, <2>1
<1> HIDE DEF raw
<1>3. UnmarshalFixedText(t, 8).err = NoErr
  BY NonceTextAccepted
<1>4. UnmarshalFixedText(t, 8).val = b
  <2> DEFINE l == Len(raw)
             bad == \E i \in 1..Len(raw) : ~IsHexChar(raw[i])
  <2>1. UnmarshalFixedText(t, 8) =
          IF l % 2 # 0 THEN Result(<<>>, "ErrOddLength")
          ELSE IF l \div 2 # 8 THEN Result(<<>>, "ErrLength")
          ELSE IF bad THEN Result(<<>>, "ErrSyntax")
          ELSE Result(b, NoErr)
    BY <1>1, Zenon DEF UnmarshalFixedText, raw
  <2>2. l \in Int /\ bad \in BOOLEAN
    BY <1>1, PrefixedRaw DEF raw
  <2> HIDE DEF l, bad, b
  <2>3. (IF l % 2 # 0 THEN Result(<<>>, "ErrOddLength")
         ELSE IF l \div 2 # 8 THEN Result(<<>>, "ErrLength")
         ELSE IF bad THEN Result(<<>>, "ErrSyntax")
         ELSE Result(b, NoErr)).err = NoErr
    BY <1>3, <2>1
  <2>4. (IF l % 2 # 0 THEN Result(<<>>, "ErrOddLength")
         ELSE IF l \div 2 # 8 THEN Result(<<>>, "ErrLength")
         ELSE IF bad THEN Result(<<>>, "ErrSyntax")
         ELSE Result(b, NoErr)).val = b
    BY <2>2, <2>3, FixedTextVal, Zenon
  <2> QED
    BY <2>1, <2>4
<1>5. Len(b) = 8
  <2>1. b \in ByteArray(8)
    BY <1>3, <1>4, FixedTextType
  <2> QED
    BY <2>1, ByteArrayLen, Zenon
<1>6. \A i \in 1..16 : HexDigitAt(b, i) = lower(t[i + 2])
  <2> TAKE i \in 1..16
  <2>1. HexDigitAt(b, i) = LowerHex(HexVal(raw[i]))
    BY <1>2, HexBytesDigits
  <2>2. LowerHex(HexVal(raw[i])) = lower(raw[i])
    BY <1>2, HexCharLower, Zenon
  <2>3. raw[i] = t[i + 2]
    BY <1>2, Zenon
  <2> QED
    BY <2>1, <2>2, <2>3, Zenon
<1> HIDE DEF b, lower
<1>7. [i \in 1..(2 * Len(b)) |-> HexDigitAt(b, i)] = [i \in 1..16 |-> lower(t[i + 2])]
  BY <1>5, <1>6
<1> QED
  BY <1>4, <1>7, Zenon DEF NonceMarshalText, EncodeHex, LowerNonceText, HexDigitAt, lower

-----------------------------------------------------------------------------
(* The inductive invariant behind NonceRoundTrip: the caller's nonce is    *)
(* always eight bytes (so that Uint64 reads a well-formed nonce), and the  *)
(* last nonce conversion round-trips.                                      *)
NonceInv == nonce \in ByteArray(8) /\ NonceRoundTrip

LEMMA InitNonceInv == Init => NonceInv
  BY DEF Init, NonceInv, NonceRoundTrip, NoCall, ByteArray

LEMMA NextNonceInv == NonceInv /\ [Next]_vars => NonceInv'
<1> SUFFICES ASSUME NonceInv, [Next]_vars PROVE NonceInv'
  OBVIOUS
<1>1. CASE CallEncodeNonce
  <2>1. PICK i \in NonceInts :
            /\ nonce' = EncodeNonce(i)
            /\ last' = [op |-> "EncodeNonce", in |-> i, out |-> EncodeNonce(i)]
    BY <1>1 DEF CallEncodeNonce
  <2>2. IsUint64(i)
    BY NonceAssumption
  <2>3. i \in Nat
    BY <2>2 DEF IsUint64
  <2>4. nonce' \in ByteArray(8)
    BY <2>1, <2>3, EncodeNonceType
  <2>5. NonceUint64(EncodeNonce(i)) = i
    BY <2>2, NonceUint64OfEncode
  <2> QED
    BY <2>1, <2>4, <2>5 DEF NonceInv, NonceRoundTrip
<1>2. CASE CallNonceUint64
  <2>1. nonce \in ByteArray(8)
    BY DEF NonceInv
  <2>2. EncodeNonce(NonceUint64(nonce)) = nonce
    BY <2>1, EncodeOfNonceUint64
  <2> QED
    BY <1>2, <2>1, <2>2 DEF CallNonceUint64, NonceInv, NonceRoundTrip
<1>3. CASE CallNonceUnmarshalText
  <2>1. PICK t \in NonceTexts :
            /\ nonce' = NonceUnmarshalText(nonce, t).nonce
            /\ last'.op = "UnmarshalText"
    BY <1>3 DEF CallNonceUnmarshalText
  <2>2. t \in Seq(0..255) /\ nonce \in ByteArray(8)
    BY NonceAssumption DEF NonceInv
  <2>3. nonce' \in ByteArray(8)
    BY <2>1, <2>2, UnmarshalNonceType
  <2> QED
    BY <2>1, <2>3 DEF NonceInv, NonceRoundTrip
<1>4. CASE \/ CallNonceMarshalText \/ CallHash \/ CallSize
           \/ CallMarshalJSON \/ CallUnmarshalJSON
  <2>1. nonce' = nonce /\ last'.op \notin {"EncodeNonce", "Uint64"}
    BY <1>4 DEF CallNonceMarshalText, CallHash, CallSize, CallMarshalJSON,
                CallUnmarshalJSON
  <2> QED
    BY <2>1 DEF NonceInv, NonceRoundTrip
<1>5. CASE UNCHANGED vars
  BY <1>5 DEF vars, NonceInv, NonceRoundTrip
<1> QED
  BY <1>1, <1>2, <1>3, <1>4, <1>5 DEF Next

(* EncodeNonce and BlockNonce.Uint64 round-trip in every behaviour, for    *)
(* every uint64 a caller passes and every nonce a caller holds.            *)
THEOREM NonceRoundTripHolds == Spec => []NonceRoundTrip
<1>1. NonceInv => NonceRoundTrip
  BY DEF NonceInv
<1> QED
  BY InitNonceInv, NextNonceInv, <1>1, PTL DEF Spec
-----------------------------------------------------------------------------
(* One call of BlockNonce.UnmarshalText: a nonce text is accepted and     *)
(* decoded, anything else is refused and leaves the nonce as it was.       *)
LEMMA UnmarshalTextOutcome ==
    ASSUME NEW n \in ByteArray(8), NEW t \in Seq(0..255)
    PROVE  LET r == NonceUnmarshalText(n, t) IN
           IF NonceText(t)
           THEN r.err = NoErr /\ NonceMarshalText(r.nonce) = LowerNonceText(t)
           ELSE r.err # NoErr /\ r.nonce = n
<1>1. CASE NonceText(t)
  <2>1. UnmarshalFixedText(t, 8).err = NoErr
    BY <1>1, NonceTextAccepted
  <2>2. NonceMarshalText(UnmarshalFixedText(t, 8).val) = LowerNonceText(t)
    BY <1>1, NonceTextValue
  <2> QED
    BY <1>1, <2>1, <2>2 DEF NonceUnmarshalText
<1>2. CASE ~NonceText(t)
  <2>1. UnmarshalFixedText(t, 8).err # NoErr
    BY <1>2, NonceTextAccepted
  <2> QED
    BY <1>2, <2>1 DEF NonceUnmarshalText
<1> QED
  BY <1>1, <1>2

(* The inductive invariant behind NonceTextFaithful: NonceInv (the nonce   *)
(* is eight bytes, which UnmarshalTextOutcome needs of the old nonce) and  *)
(* the property itself, which holds of the nonce the last UnmarshalText    *)
(* left because every later call that writes the nonce also overwrites     *)
(* last.                                                                   *)
TextInv == NonceInv /\ NonceTextFaithful

LEMMA InitTextInv == Init => TextInv
<1>1. Init => NonceTextFaithful
  BY DEF Init, NonceTextFaithful, NoCall
<1> QED
  BY <1>1, InitNonceInv DEF TextInv

LEMMA NextTextInv == TextInv /\ [Next]_vars => TextInv'
<1> SUFFICES ASSUME TextInv, [Next]_vars PROVE TextInv'
  OBVIOUS
<1>1. NonceInv'
  BY NextNonceInv DEF TextInv
<1>2. CASE CallNonceUnmarshalText
  <2>1. PICK t \in NonceTexts :
            LET r == NonceUnmarshalText(nonce, t) IN
            /\ nonce' = r.nonce
            /\ last' = [op |-> "UnmarshalText", in |-> <<nonce, t>>, out |-> r.err]
    BY <1>2 DEF CallNonceUnmarshalText
  <2>2. t \in Seq(0..255) /\ nonce \in ByteArray(8)
    BY NonceAssumption DEF TextInv, NonceInv
  <2>3. LET r == NonceUnmarshalText(nonce, t) IN
        IF NonceText(t)
        THEN r.err = NoErr /\ NonceMarshalText(r.nonce) = LowerNonceText(t)
        ELSE r.err # NoErr /\ r.nonce = nonce
    BY <2>2, UnmarshalTextOutcome
  <2>4. NonceTextFaithful'
    BY <2>1, <2>3 DEF NonceTextFaithful
  <2> QED
    BY <1>1, <2>4 DEF TextInv
<1>3. CASE \/ CallEncodeNonce \/ CallNonceUint64 \/ CallNonceMarshalText
           \/ CallHash \/ CallSize \/ CallMarshalJSON \/ CallUnmarshalJSON
  <2>1. last'.op # "UnmarshalText"
    BY <1>3 DEF CallEncodeNonce, CallNonceUint64, CallNonceMarshalText, CallHash,
                CallSize, CallMarshalJSON, CallUnmarshalJSON
  <2> QED
    BY <1>1, <2>1 DEF TextInv, NonceTextFaithful
<1>4. CASE UNCHANGED vars
  BY <1>1, <1>4 DEF vars, TextInv, NonceTextFaithful
<1> QED
  BY <1>2, <1>3, <1>4 DEF Next

(* BlockNonce.UnmarshalText accepts exactly the nonce texts and then holds *)
(* the bytes they denote, and refuses every other text without touching    *)
(* the caller's nonce: for every text a caller passes, of any length.      *)
THEOREM NonceTextFaithfulHolds == Spec => []NonceTextFaithful
<1>1. TextInv => NonceTextFaithful
  BY DEF TextInv
<1> QED
  BY InitTextInv, NextTextInv, <1>1, PTL DEF Spec
=============================================================================
