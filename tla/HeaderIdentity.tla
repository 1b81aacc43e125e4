--------------------------- MODULE HeaderIdentity ---------------------------
(***************************************************************************)
(* Block identity in core/types (the second half of src/rpc/channel.go):   *)
(* the BlockNonce conversions, the Header struct, Header.Hash (Keccak-256  *)
(* of the header's RLP encoding, by rlpHash) and Header.Size.              *)
(*                                                                         *)
(* The encoding of a header is the rlp list of its fifteen fields in the   *)
(* order the struct declares them (see Rlp).  Keccak-256 is a library      *)
(* call; its digest is kept symbolic as the bytes it was taken of, which   *)
(* stands for a collision-free hash: two digests are equal exactly when    *)
(* the hashed bytes are.                                                   *)
(*                                                                         *)
(* The state is a BlockNonce variable a caller holds (UnmarshalText writes *)
(* through its pointer receiver) and the last call made with its result.  *)
(***************************************************************************)
EXTENDS Integers, Sequences, SequencesExt, HexUtil, Rlp

CONSTANTS
    Headers,      \* header values callers pass to Hash and Size
    NonceInts,    \* integers callers pass to EncodeNonce
    NonceTexts,   \* texts callers pass to BlockNonce.UnmarshalText
    HeaderTexts   \* JSON objects callers pass to Header.UnmarshalJSON

(* A *big.Int field is an integer of either sign, or nil: NilBig, an     *)
(* integer that stands for nil and that no field of the models holds.      *)
NilBig == -(2^30)

(* Byte arrays of fixed size: common.Hash, common.Address, Bloom and       *)
(* BlockNonce.                                                             *)
ByteArray(n) == [1..n -> 0..255]
BigInt == Int

(* The Header struct: its fields with their Go types.                      *)
Header ==
    [ParentHash : ByteArray(32), UncleHash : ByteArray(32),
     Coinbase : ByteArray(20), Root : ByteArray(32), TxHash : ByteArray(32),
     ReceiptHash : ByteArray(32), Bloom : ByteArray(256),
     Difficulty : BigInt, Number : BigInt,
     GasLimit : Nat, GasUsed : Nat, Time : Nat, Extra : Bytes,
     MixDigest : ByteArray(32), RandomId : ByteArray(8)]

ASSUME HeadersAssumption == Headers \subseteq Header

(* A JSON object is abstracted to the fields it gives a value, each        *)
(* mapped to the text of its string (the quotes and the json tags of the   *)
(* struct are layout: writer and reader use the same tags).  A JSON null   *)
(* and an absent key leave the decoder's pointer nil alike, so null is     *)
(* modelled as an absent field.                                            *)
(* The fields of Header in declaration order.                             *)
FieldOrder ==
    <<"ParentHash", "UncleHash", "Coinbase", "Root", "TxHash", "ReceiptHash",
      "Bloom", "Difficulty", "Number", "GasLimit", "GasUsed", "Time", "Extra",
      "MixDigest", "RandomId">>
Fields == {FieldOrder[i] : i \in 1..15}
ASSUME HeaderTextsAssumption ==
    \A j \in HeaderTexts : DOMAIN j \subseteq Fields /\ \A f \in DOMAIN j : j[f] \in Seq(0..255)
(* i is a uint64: below 2^64, so that eight byte shifts leave nothing.     *)
IsUint64(i) ==
    i \in Nat /\ ((((((((i \div 256) \div 256) \div 256) \div 256) \div 256) \div 256)
                    \div 256) \div 256) = 0

ASSUME NonceAssumption ==
    /\ \A i \in NonceInts : IsUint64(i)
    /\ NonceTexts \subseteq Seq(0..255)

VARIABLES
    nonce,   \* the BlockNonce a caller holds
    last     \* [op, in, out]: the last call and its result

vars == <<nonce, last>>

-----------------------------------------------------------------------------
(* A variant of EncodeNonce whose shifts are one byte too far: byte k is   *)
(* byte(i >> 8(9-k)).                                                      *)
EncodeNonceShifted(i) ==
    LET q1 == i \div 256  q2 == q1 \div 256  q3 == q2 \div 256
        q4 == q3 \div 256  q5 == q4 \div 256  q6 == q5 \div 256
        q7 == q6 \div 256  q8 == q7 \div 256
    IN  <<q8 % 256, q7 % 256, q6 % 256, q5 % 256, q4 % 256, q3 % 256, q2 % 256, q1 % 256>>

(* EncodeNonce: binary.BigEndian.PutUint64, byte k is byte(i >> 8(8-k)).  *)
EncodeNonce(i) ==
    LET q1 == i \div 256  q2 == q1 \div 256  q3 == q2 \div 256
        q4 == q3 \div 256  q5 == q4 \div 256  q6 == q5 \div 256
        q7 == q6 \div 256
    IN  <<q7 % 256, q6 % 256, q5 % 256, q4 % 256, q3 % 256, q2 % 256, q1 % 256, i % 256>>

(* BlockNonce.Uint64: binary.BigEndian.Uint64, the bytes shifted into     *)
(* place high byte first.                                                  *)
NonceUint64(n) ==
    ((((((n[1] * 256 + n[2]) * 256 + n[3]) * 256 + n[4]) * 256 + n[5]) * 256
        + n[6]) * 256 + n[7]) * 256 + n[8]

(* BlockNonce.MarshalText: hexutil.Bytes(n[:]).MarshalText().             *)
NonceMarshalText(n) == EncodeHex(n)

(* A variant of UnmarshalText that decodes into n[:] without checking the  *)
(* digits first: hex.Decode writes the bytes before the first bad digit.  *)
NonceUnmarshalTextUnverified(n, input) ==
    LET raw == SubSeq(input, 3, Len(input))
        good(k) == \A i \in 1..(2 * k) : IsHexChar(raw[i])
        r == UnmarshalFixedText(input, 8)
    IN  IF r.err \in {NoErr, "ErrSyntax"}
        THEN [nonce |-> [k \in 1..8 |-> IF good(k) THEN HexBytes(raw, 8)[k] ELSE n[k]],
              err |-> r.err]
        ELSE [nonce |-> n, err |-> r.err]

(* A variant of UnmarshalText written with hexutil.Decode and copy into   *)
(* n[:]: any even number of digits is taken, and Decode's own errors       *)
(* (an empty text among them) are returned.                                *)
NonceUnmarshalTextDecoded(n, input) ==
    LET r == Decode(input)
    IN  [nonce |-> IF r.err = NoErr
                   THEN [k \in 1..8 |-> IF k <= Len(r.val) THEN r.val[k] ELSE n[k]]
                   ELSE n,
         err |-> r.err]

(* BlockNonce.UnmarshalText: hexutil.UnmarshalFixedText("BlockNonce",      *)
(* input, n[:]), which writes n only when it returns no error.             *)
NonceUnmarshalText(n, input) ==
    LET r == UnmarshalFixedText(input, 8)
    IN  [nonce |-> IF r.err = NoErr THEN r.val ELSE n, err |-> r.err]

-----------------------------------------------------------------------------
(* A variant of the Header struct that declares GasUsed before GasLimit.   *)
HeaderRlpSwapped(h) ==
    EncodeList(<<EncodeString(h.ParentHash), EncodeString(h.UncleHash),
                 EncodeString(h.Coinbase), EncodeString(h.Root),
                 EncodeString(h.TxHash), EncodeString(h.ReceiptHash),
                 EncodeString(h.Bloom),
                 EncodeUint(IF h.Difficulty = NilBig THEN 0 ELSE h.Difficulty),
                 EncodeUint(IF h.Number = NilBig THEN 0 ELSE h.Number),
                 EncodeUint(h.GasUsed), EncodeUint(h.GasLimit), EncodeUint(h.Time),
                 EncodeString(h.Extra), EncodeString(h.MixDigest),
                 EncodeString(h.RandomId)>>)

(* rlp.Encode of a *Header: the list of the struct's fields in declaration *)
(* order; byte arrays and Extra are strings, the integers are unsigned and *)
(* a nil *big.Int is encoded as zero.                                      *)
HeaderRlp(h) ==
    EncodeList(<<EncodeString(h.ParentHash), EncodeString(h.UncleHash),
                 EncodeString(h.Coinbase), EncodeString(h.Root),
                 EncodeString(h.TxHash), EncodeString(h.ReceiptHash),
                 EncodeString(h.Bloom),
                 EncodeUint(IF h.Difficulty = NilBig THEN 0 ELSE h.Difficulty),
                 EncodeUint(IF h.Number = NilBig THEN 0 ELSE h.Number),
                 EncodeUint(h.GasLimit), EncodeUint(h.GasUsed), EncodeUint(h.Time),
                 EncodeString(h.Extra), EncodeString(h.MixDigest),
                 EncodeString(h.RandomId)>>)

(* rlp.Encode(w, h): the encoding is built in a buffer and written to w    *)
(* only when it succeeded; a negative *big.Int is an encoding error.      *)
EncodeHeader(h) ==
    IF \E f \in {"Difficulty", "Number"} : h[f] # NilBig /\ h[f] < 0
    THEN [err |-> "ErrNegativeBig", bytes |-> <<>>]
    ELSE [err |-> NoErr, bytes |-> HeaderRlp(h)]

(* sha3.NewLegacyKeccak256 over the bytes written to it.                   *)
Keccak256(b) == [keccak256 |-> b]

(* rlpHash: the Keccak-256 digest of what rlp.Encode wrote; the error it  *)
(* returns is dropped.                                                     *)
rlpHash(enc) == Keccak256(enc.bytes)

(* Header.Hash.                                                            *)
Hash(h) == rlpHash(EncodeHeader(h))

(* headerSize: reflect's size of Header on a 64-bit build: five hashes    *)
(* and MixDigest (32 each), Coinbase (20), Bloom (256), 4 bytes of padding *)
(* that align the pointers, two pointers and three uint64 (8 each),       *)
(* Extra's slice header (24) and RandomId (8).                             *)
headerSize == 6 * 32 + 20 + 4 + 256 + 2 * 8 + 3 * 8 + 24 + 8

(* big.Int.BitLen: the bits of the absolute value; 0 for zero.            *)
BitLen(n) ==
    IF n = 0 THEN 0
    ELSE LET b == BigEndian(IF n < 0 THEN -n ELSE n)
         IN  8 * (Len(b) - 1) + CHOOSE k \in 1..8 : 2^(k - 1) <= b[1] /\ b[1] < 2^k

(* Header.Size.  BitLen on a nil *big.Int dereferences it and panics.      *)
Panic == -1     \* no value: the call panics
Size(h) ==
    IF h.Difficulty = NilBig \/ h.Number = NilBig THEN Panic
    ELSE headerSize + Len(h.Extra) + (BitLen(h.Difficulty) + BitLen(h.Number)) \div 8
-----------------------------------------------------------------------------
(* No call yet, and no value.                                              *)
NoCall == [op |-> "none", in |-> <<>>, out |-> <<>>]

(* The JSON form of a header (gen_header_json.go, generated by gencodec    *)
(* from the struct's tags and the headerMarshaling overrides): the byte    *)
(* arrays and Extra as hexutil.Bytes, Difficulty and Number as            *)
(* *hexutil.Big, the uint64 fields as hexutil.Uint64, and an extra "hash"  *)
(* key holding Hash() that the decoder does not read.                      *)
FixedSize == [ParentHash |-> 32, UncleHash |-> 32, Coinbase |-> 20, Root |-> 32,
              TxHash |-> 32, ReceiptHash |-> 32, Bloom |-> 256, MixDigest |-> 32,
              RandomId |-> 8]
BigFields == {"Difficulty", "Number"}
UintFields == {"GasLimit", "GasUsed", "Time"}
Optional == {"MixDigest", "RandomId"}        \* no gencodec:"required" tag

(* MarshalText of a field under its override type.                        *)
FieldText(h, f) ==
    IF f \in BigFields /\ h[f] < 0 THEN <<Dash>> \o EncodeBig(-h[f])
    ELSE IF f \in BigFields \cup UintFields THEN EncodeBig(h[f]) ELSE EncodeHex(h[f])

(* A variant of the overrides without Number's: *big.Int marshals as a    *)
(* JSON number, the decimal digits of its value.                           *)
HeaderMarshalJSONDecimalNumber(h) ==
    LET abs == IF h.Number < 0 THEN -h.Number ELSE h.Number
        dec[m \in 0..abs] == IF m < 10 THEN <<Digit0 + m>>
                             ELSE Append(dec[m \div 10], Digit0 + (m % 10))
        text == IF h.Number < 0 THEN <<Dash>> \o dec[abs] ELSE dec[abs]
    IN  [obj |-> [f \in {g \in Fields : g \in BigFields => h[g] # NilBig} |->
                    IF f = "Number" THEN text ELSE FieldText(h, f)],
         hash |-> Hash(h)]

(* Header.MarshalJSON: every field, a nil *big.Int as null.                *)
HeaderMarshalJSON(h) ==
    [obj |-> [f \in {g \in Fields : g \in BigFields => h[g] # NilBig} |-> FieldText(h, f)],
     hash |-> Hash(h)]

(* hexutil.Big and hexutil.Uint64 UnmarshalText: checkNumberText (an empty *)
(* text is zero; otherwise 0x or 0X, at least one digit, no leading zero), *)
(* at most maxDigits digits, and every one a hex digit.                    *)
UnmarshalNumberText(t, maxDigits) ==
    LET raw == SubSeq(t, 3, Len(t)) IN
    IF Len(t) = 0 THEN Result(0, NoErr)
    ELSE IF ~Has0xPrefix(t) THEN Result(0, "ErrMissingPrefix")
    ELSE IF Len(raw) = 0 THEN Result(0, "ErrEmptyNumber")
    ELSE IF Len(raw) > 1 /\ raw[1] = Digit0 THEN Result(0, "ErrLeadingZero")
    ELSE IF Len(raw) > maxDigits THEN Result(0, "ErrRange")
    ELSE IF \E i \in 1..Len(raw) : ~IsHexChar(raw[i]) THEN Result(0, "ErrSyntax")
    ELSE Result(DigitsValue(raw, 16), NoErr)

(* hexutil.Bytes.UnmarshalText: checkText(input, true), then hex.Decode.  *)
UnmarshalBytesText(t) ==
    LET raw == SubSeq(t, 3, Len(t)) IN
    IF Len(t) = 0 THEN Result(<<>>, NoErr)
    ELSE IF ~Has0xPrefix(t) THEN Result(<<>>, "ErrMissingPrefix")
    ELSE IF Len(raw) % 2 # 0 THEN Result(<<>>, "ErrOddLength")
    ELSE IF \E i \in 1..Len(raw) : ~IsHexChar(raw[i]) THEN Result(<<>>, "ErrSyntax")
    ELSE Result(HexBytes(raw, Len(raw) \div 2), NoErr)

(* The decoder of one field: common.Hash, Address and Bloom by             *)
(* UnmarshalFixedText, RandomId by BlockNonce.UnmarshalText into the zero  *)
(* nonce of a fresh Header.                                                *)
DecodeField(f, t) ==
    IF f \in BigFields THEN UnmarshalNumberText(t, 64)
    ELSE IF f \in UintFields THEN UnmarshalNumberText(t, 16)
    ELSE IF f = "Extra" THEN UnmarshalBytesText(t)
    ELSE IF f = "RandomId"
         THEN LET r == NonceUnmarshalText([k \in 1..8 |-> 0], t) IN Result(r.nonce, r.err)
    ELSE UnmarshalFixedText(t, FixedSize[f])

(* Header.UnmarshalJSON: json.Unmarshal into the decoding struct stops at  *)
(* the first field whose UnmarshalText fails; then, field by field in      *)
(* FieldOrder, a required field left nil is an error and a given one is    *)
(* assigned to the header, so an error leaves the fields before the        *)
(* missing one written.  The caller decodes into a fresh header and drops  *)
(* it on an error: val is NoCall then, and otherwise the header, with the  *)
(* zero value for an optional field that was not given.                    *)
HeaderUnmarshalJSON(j) ==
    LET dec == [f \in DOMAIN j |-> DecodeField(f, j[f])]
        failed == SelectSeq(FieldOrder, LAMBDA f : f \in DOMAIN j /\ dec[f].err # NoErr)
    IN  IF failed # <<>> THEN Result(NoCall, dec[Head(failed)].err)
        ELSE IF ~(Fields \ Optional \subseteq DOMAIN j)
             THEN Result(NoCall, "ErrMissingField")
        ELSE Result([f \in Fields |->
                        IF f \in DOMAIN j THEN dec[f].val
                        ELSE [k \in 1..FixedSize[f] |-> 0]], NoErr)

-----------------------------------------------------------------------------
(* The calls a caller makes; last = NoCall before the first one.          *)

(* TLC's integers have 32 bits: Uint64 is called on nonces whose value     *)
(* fits in 31 bits (the proofs in HeaderProofs cover every uint64).        *)
NonceFitsIntBound(n) == (\A k \in 1..4 : n[k] = 0) /\ n[5] < 128

(* n := types.EncodeNonce(i).                                              *)
CallEncodeNonce ==
    \E i \in NonceInts :
        /\ nonce' = EncodeNonce(i)
        /\ last' = [op |-> "EncodeNonce", in |-> i, out |-> EncodeNonce(i)]

CallNonceUint64 ==
    /\ NonceFitsIntBound(nonce)
    /\ last' = [op |-> "Uint64", in |-> nonce, out |-> NonceUint64(nonce)]
    /\ UNCHANGED nonce

CallNonceMarshalText ==
    /\ last' = [op |-> "MarshalText", in |-> nonce, out |-> NonceMarshalText(nonce)]
    /\ UNCHANGED nonce

(* n.UnmarshalText(input) on the caller's nonce.                           *)
CallNonceUnmarshalText ==
    \E t \in NonceTexts :
        LET r == NonceUnmarshalText(nonce, t) IN
        /\ nonce' = r.nonce
        /\ last' = [op |-> "UnmarshalText", in |-> <<nonce, t>>, out |-> r.err]

CallHash ==
    \E h \in Headers :
        /\ last' = [op |-> "Hash", in |-> h, out |-> Hash(h)]
        /\ UNCHANGED nonce

CallSize ==
    \E h \in Headers :
        /\ last' = [op |-> "Size", in |-> h, out |-> Size(h)]
        /\ UNCHANGED nonce

(* json.Marshal(h) and json.Unmarshal(j, &h) of a *Header.               *)
CallMarshalJSON ==
    \E h \in Headers :
        /\ last' = [op |-> "MarshalJSON", in |-> h, out |-> HeaderMarshalJSON(h)]
        /\ UNCHANGED nonce

CallUnmarshalJSON ==
    \E j \in HeaderTexts :
        /\ last' = [op |-> "UnmarshalJSON", in |-> j, out |-> HeaderUnmarshalJSON(j)]
        /\ UNCHANGED nonce

Init ==
    /\ nonce = [k \in 1..8 |-> 0]     \* the zero value of BlockNonce
    /\ last = NoCall

Next ==
    \/ CallEncodeNonce \/ CallNonceUint64
    \/ CallNonceMarshalText \/ CallNonceUnmarshalText
    \/ CallHash \/ CallSize
    \/ CallMarshalJSON \/ CallUnmarshalJSON

Spec == Init /\ [][Next]_vars

-----------------------------------------------------------------------------
Errors == {NoErr, "ErrMissingPrefix", "ErrOddLength", "ErrLength", "ErrSyntax"}

JSONErrors == Errors \cup {"ErrEmptyNumber", "ErrLeadingZero", "ErrRange", "ErrMissingField"}

(* The JSON objects over the domain of j (a set TLC can test j against).   *)
JSONObjectShape(j) == IF DOMAIN j \subseteq Fields THEN [DOMAIN j -> Bytes] ELSE {}

(* The type invariant: the caller's nonce stays eight bytes, each call     *)
(* returns what its Go signature declares, and the text decoders report    *)
(* only the errors of hexutil's fixed-length and quantity decoders.        *)
TypeOK ==
    /\ nonce \in ByteArray(8)
    /\ \/ last \in {NoCall}
         \cup [op : {"EncodeNonce"}, in : Nat, out : ByteArray(8)]
         \cup [op : {"Uint64"}, in : ByteArray(8), out : Nat]
         \cup [op : {"MarshalText"}, in : ByteArray(8), out : Bytes]
         \cup [op : {"UnmarshalText"}, in : ByteArray(8) \X Bytes, out : Errors]
         \cup [op : {"Hash"}, in : Header, out : [keccak256 : Bytes]]
         \cup [op : {"Size"}, in : Header, out : Nat \cup {Panic}]
       \/ /\ last.op = "MarshalJSON"
          /\ last \in [op : {"MarshalJSON"}, in : Header,
                       out : [obj : JSONObjectShape(last.out.obj), hash : [keccak256 : Bytes]]]
       \/ /\ last.op = "UnmarshalJSON"
          /\ last \in [op : {"UnmarshalJSON"}, in : JSONObjectShape(last.in),
                       out : [val : Header \cup {NoCall}, err : JSONErrors]]

(* The reference decoder of the header shape: a list of exactly fifteen   *)
(* strings, the byte arrays at their sizes, the integers canonical (uint64 *)
(* in at most 8 bytes); NoCall (no header) when it rejects the bytes.     *)
DecodeHeader(b) ==
    LET d == DecodeStrings(b, 15)
        f == d.items
    IN  IF /\ d.ok
           /\ \A k \in {1, 2, 4, 5, 6, 14} : Len(f[k]) = 32
           /\ Len(f[3]) = 20 /\ Len(f[7]) = 256 /\ Len(f[15]) = 8
           /\ UintOK(f[8], 32) /\ UintOK(f[9], 32)
           /\ \A k \in 10..12 : UintOK(f[k], 8)
        THEN [ParentHash |-> f[1], UncleHash |-> f[2], Coinbase |-> f[3],
              Root |-> f[4], TxHash |-> f[5], ReceiptHash |-> f[6], Bloom |-> f[7],
              Difficulty |-> BytesValue(f[8]), Number |-> BytesValue(f[9]),
              GasLimit |-> BytesValue(f[10]), GasUsed |-> BytesValue(f[11]),
              Time |-> BytesValue(f[12]), Extra |-> f[13], MixDigest |-> f[14],
              RandomId |-> f[15]]
        ELSE NoCall

(* A header with a negative Difficulty or Number, which the spec calls a  *)
(* caller's contract violation that the encoder must reject.               *)
HasNegativeBig(h) == \E f \in BigFields : h[f] # NilBig /\ h[f] < 0

(* The header a nil big integer field reads as zero in.                    *)
NilAsZero(h) ==
    [h EXCEPT !.Difficulty = IF @ = NilBig THEN 0 ELSE @,
              !.Number = IF @ = NilBig THEN 0 ELSE @]

(* Header.Hash identifies a header: the bytes it digests decode, by a      *)
(* strict RLP decoder, to the header itself, so (Keccak-256 being          *)
(* collision-free) two headers that differ in any field, in the order of  *)
(* two fields' values, or at a length or value boundary of the encoding    *)
(* have different hashes.  A nil Difficulty or Number counts as zero.      *)
HashIdentifiesHeader ==
    last.op = "Hash" /\ ~HasNegativeBig(last.in) =>
        DecodeHeader(last.out.keccak256) = NilAsZero(last.in)

(* Every digest Header.Hash returns is the digest of a header's encoding:  *)
(* an encoding error is surfaced, never swallowed into the digest of no    *)
(* bytes (spec section 5: "No error in this core is ever silently          *)
(* swallowed or defaulted").                                               *)
HashOfEncoding ==
    last.op = "Hash" => DecodeHeader(last.out.keccak256) # NoCall

(* EncodeNonce and BlockNonce.Uint64 are inverse: the bytes EncodeNonce    *)
(* wrote read back as the integer, and the integer read from a nonce      *)
(* encodes back to the same bytes.                                         *)
NonceRoundTrip ==
    /\ last.op = "EncodeNonce" => NonceUint64(last.out) = last.in
    /\ last.op = "Uint64" => EncodeNonce(last.out) = last.in

(* A nonce text is "0x" or "0X" followed by 16 hex digits of either case.  *)
NonceText(t) == Len(t) = 18 /\ Has0xPrefix(t) /\ \A i \in 3..18 : IsHexChar(t[i])
LowerNonceText(t) ==
    <<Digit0, SmallX>> \o [i \in 1..16 |-> IF t[i + 2] \in 65..70 THEN t[i + 2] + 32 ELSE t[i + 2]]

(* BlockNonce.UnmarshalText accepts exactly the nonce texts, and then the  *)
(* nonce holds the bytes the text denotes (MarshalText gives the text back *)
(* in lowercase); on any error the caller's nonce is left as it was, not   *)
(* half overwritten.                                                       *)
NonceTextFaithful ==
    last.op = "UnmarshalText" =>
        IF NonceText(last.in[2])
        THEN last.out = NoErr /\ NonceMarshalText(nonce) = LowerNonceText(last.in[2])
        ELSE last.out # NoErr /\ nonce = last.in[1]

(* A field text as the decoder reads it: hex letters and the X of the      *)
(* prefix in lowercase, and an empty number or Extra as its zero.          *)
CanonText(f, t) ==
    IF Len(t) = 0 /\ f \in BigFields \cup UintFields THEN <<Digit0, SmallX, Digit0>>
    ELSE IF Len(t) = 0 /\ f = "Extra" THEN <<Digit0, SmallX>>
    ELSE [i \in 1..Len(t) |-> IF t[i] \in 65..70 \/ t[i] = BigX THEN t[i] + 32 ELSE t[i]]

(* The JSON form of a header names it exactly: what MarshalJSON writes,    *)
(* UnmarshalJSON reads back as the same header (and refuses when a nil     *)
(* big integer was written as null or a negative one as "-0x.."); and a header UnmarshalJSON accepts    *)
(* from a node's text is the one that text denotes, so that writing it     *)
(* again gives every field of the text back up to the case of its digits. *)
HeaderJSONRoundTrip ==
    /\ last.op = "MarshalJSON" =>
         IF \/ last.in.Difficulty = NilBig \/ last.in.Number = NilBig
            \/ HasNegativeBig(last.in)
         THEN HeaderUnmarshalJSON(last.out.obj).err # NoErr
         ELSE HeaderUnmarshalJSON(last.out.obj) = Result(last.in, NoErr)
    /\ last.op = "UnmarshalJSON" /\ last.out.err = NoErr =>
         \A f \in DOMAIN last.in :
             CanonText(f, last.in[f]) = CanonText(f, HeaderMarshalJSON(last.out.val).obj[f])

(* Header.Size is defined on every header Header.Hash accepts.             *)
SizeDefined == last.op = "Size" => last.out # Panic
=============================================================================
