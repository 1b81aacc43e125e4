------------------------------- MODULE HexUtil -------------------------------
(***************************************************************************)
(* The text conversions of common/hexutil that the code in src/ calls:     *)
(* Decode, DecodeUint64 and EncodeUint64/EncodeBig, and Go's conversion of *)
(* an integer to a one-rune string.  These libraries are not part of src/; *)
(* they are modelled from their documented behaviour.  Text is a sequence  *)
(* of ASCII (or UTF-8) codes, so that every conversion is modelled by what *)
(* it does to the characters.                                              *)
(***************************************************************************)
EXTENDS Integers, Sequences

(* Codes of the characters the conversions look at.                        *)
Dash   == 45     \* '-'
Digit0 == 48     \* '0'
BigX   == 88     \* 'X'
SmallX == 120    \* 'x'

(* A nibble as one of "0123456789abcdef".                                  *)
LowerHex(n) == IF n < 10 THEN Digit0 + n ELSE 87 + n

(* A variant of HexVal that reads 'A'..'F' like 'a'..'f'.               *)
HexValCaseBlind(c) == IF c \in 48..57 THEN c - 48 ELSE c - 87

(* The characters hex decoding accepts, and their values.                  *)
IsHexChar(c) == c \in (48..57) \cup (65..70) \cup (97..102)
HexVal(c) ==
    IF c \in 48..57 THEN c - 48 ELSE IF c \in 65..70 THEN c - 55 ELSE c - 87
IsDecChar(c) == c \in 48..57

(* The value of a string of digits in base b.                              *)
DigitsValue(h, b) ==
    LET v[i \in 0..Len(h)] == IF i = 0 THEN 0 ELSE b * v[i - 1] + HexVal(h[i])
    IN  v[Len(h)]

(* A result of the Go functions: a value and an error (NoErr = nil).       *)
NoErr == "nil"
Result(val, err) == [val |-> val, err |-> err]

(* has0xPrefix: "0x" or "0X" at the start.                                 *)
Has0xPrefix(s) == Len(s) >= 2 /\ s[1] = Digit0 /\ s[2] \in {SmallX, BigX}

(* hexutil.Decode: the text must be non-empty and start with 0x or 0X; the *)
(* rest is decoded by hex.DecodeString, which rejects a non-hex character  *)
(* before an odd length.  On an error the bytes are abstracted to <<>>.    *)
Decode(s) ==
    LET h == SubSeq(s, 3, Len(s)) IN
    IF Len(s) = 0 THEN Result(<<>>, "ErrEmptyString")
    ELSE IF ~Has0xPrefix(s) THEN Result(<<>>, "ErrMissingPrefix")
    ELSE IF \E i \in 1..Len(h) : ~IsHexChar(h[i]) THEN Result(<<>>, "ErrSyntax")
    ELSE IF Len(h) % 2 = 1 THEN Result(<<>>, "ErrOddLength")
    ELSE Result([k \in 1..(Len(h) \div 2) |->
                    16 * HexVal(h[2 * k - 1]) + HexVal(h[2 * k])], NoErr)

(* hexutil.DecodeUint64: checkNumber (non-empty, prefix, at least one      *)
(* digit, no leading zero), then strconv.ParseUint(raw, 16, 64).  On an    *)
(* error the value is 0.  Without leading zeros, the value fits 64 bits    *)
(* exactly when there are at most 16 digits.                               *)
DecodeUint64(s) ==
    LET h == SubSeq(s, 3, Len(s)) IN
    IF Len(s) = 0 THEN Result(0, "ErrEmptyString")
    ELSE IF ~Has0xPrefix(s) THEN Result(0, "ErrMissingPrefix")
    ELSE IF Len(h) = 0 THEN Result(0, "ErrEmptyNumber")
    ELSE IF Len(h) > 1 /\ h[1] = Digit0 THEN Result(0, "ErrLeadingZero")
    ELSE IF \E i \in 1..Len(h) : ~IsHexChar(h[i]) THEN Result(0, "ErrSyntax")
    ELSE IF Len(h) > 16 THEN Result(0, "ErrUint64Range")
    ELSE Result(DigitsValue(h, 16), NoErr)

(* hexutil.EncodeUint64 and EncodeBig of a non-negative number: "0x" and   *)
(* the lowercase hex digits without leading zeros ("0x0" for zero).  The   *)
(* digits are taken off the low end, as strconv.FormatUint does.           *)
HexDigits(n) ==
    LET d[m \in 0..n] == IF m < 16 THEN <<m>> ELSE Append(d[m \div 16], m % 16)
    IN  d[n]
EncodeBig(n) == <<Digit0, SmallX>> \o [i \in 1..Len(HexDigits(n)) |-> LowerHex(HexDigits(n)[i])]

(* hexutil.Bytes.MarshalText (hexutil.Encode): "0x" and two lowercase hex *)
(* digits per byte, high nibble first.                                     *)
EncodeHex(b) ==
    <<Digit0, SmallX>> \o
        [i \in 1..(2 * Len(b)) |->
            LowerHex(IF i % 2 = 1 THEN b[(i + 1) \div 2] \div 16 ELSE b[i \div 2] % 16)]

(* The bytes that a text of 2n hex digits denotes.                         *)
HexBytes(raw, n) == [k \in 1..n |-> 16 * HexVal(raw[2 * k - 1]) + HexVal(raw[2 * k])]

(* hexutil.UnmarshalFixedText(typname, input, out) with len(out) = n.      *)
(* checkText: the empty text passes with no digits; otherwise "0x" or "0X" *)
(* is required and the digits must be even in number.  Then the number of *)
(* bytes must be n, and every digit is checked before out is written.      *)
(* On an error out is left as it was; val is the n bytes written.          *)
UnmarshalFixedText(input, n) ==
    LET raw == IF Has0xPrefix(input) THEN SubSeq(input, 3, Len(input)) ELSE input IN
    IF Len(input) > 0 /\ ~Has0xPrefix(input) THEN Result(<<>>, "ErrMissingPrefix")
    ELSE IF Len(raw) % 2 # 0 THEN Result(<<>>, "ErrOddLength")
    ELSE IF Len(raw) \div 2 # n THEN Result(<<>>, "ErrLength")
    ELSE IF \E i \in 1..Len(raw) : ~IsHexChar(raw[i]) THEN Result(<<>>, "ErrSyntax")
    ELSE Result(HexBytes(raw, n), NoErr)

(* Go's string(r) of an integer: the UTF-8 encoding of the rune r, and of  *)
(* U+FFFD when r is a surrogate or beyond U+10FFFF.                        *)
RuneString(r) ==
    LET c == IF r \in 16^2 * 216 .. 16^2 * 224 - 1 \/ r > 1114111 THEN 65533 ELSE r
    IN  IF c < 128 THEN <<c>>
        ELSE IF c < 2048 THEN <<192 + c \div 64, 128 + (c % 64)>>
        ELSE IF c < 65536
             THEN <<224 + c \div 4096, 128 + ((c \div 64) % 64), 128 + (c % 64)>>
        ELSE <<240 + c \div 262144, 128 + ((c \div 4096) % 64),
               128 + ((c \div 64) % 64), 128 + (c % 64)>>
=============================================================================
