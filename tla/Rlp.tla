--------------------------------- MODULE Rlp ---------------------------------
(***************************************************************************)
(* The canonical encoder Header.Hash feeds: the rlp package's encoding of  *)
(* byte strings, unsigned integers (uint64 and *big.Int) and lists.  The   *)
(* rlp package is not part of src/; it is modelled from its documented     *)
(* encoding rules.  A byte string is a sequence of numbers in 0..255.      *)
(*                                                                         *)
(* The second half is a reference decoder, written from the same rules in  *)
(* the other direction and strict the way rlp.Decode is: it rejects a     *)
(* single byte below 0x80 wrapped in a prefix, a length written in the     *)
(* long form when the short one fits, and a length with a leading zero.   *)
(***************************************************************************)
EXTENDS Integers, Sequences, SequencesExt

Bytes == Seq(0..255)

(* The minimal big-endian bytes of a natural number: no leading zero byte, *)
(* and no bytes at all for zero.                                           *)
BigEndian(n) ==
    LET be[m \in 0..n] == IF m = 0 THEN <<>> ELSE Append(be[m \div 256], m % 256)
    IN  be[n]

(* The value of big-endian bytes.                                          *)
BytesValue(b) ==
    LET v[i \in 0..Len(b)] == IF i = 0 THEN 0 ELSE 256 * v[i - 1] + b[i]
    IN  v[Len(b)]

(* The header of a string (offset 0x80) or a list (offset 0xC0) whose      *)
(* payload has len bytes: one byte up to 55, otherwise 0xB7 (0xF7) plus    *)
(* the size of the length, then the length itself.                        *)
LengthPrefix(len, offset) ==
    IF len < 56 THEN <<offset + len>>
    ELSE <<offset + 55 + Len(BigEndian(len))>> \o BigEndian(len)

(* A byte string: a single byte below 0x80 is its own encoding.            *)
EncodeString(b) ==
    IF Len(b) = 1 /\ b[1] < 128 THEN b ELSE LengthPrefix(Len(b), 128) \o b

(* An unsigned integer is the string of its minimal big-endian bytes, so   *)
(* zero is the empty string 0x80.  A nil *big.Int is encoded as zero.      *)
EncodeUint(n) == EncodeString(BigEndian(n))

(* A list: the concatenated encodings of its items behind a list header.   *)
EncodeList(items) ==
    LET payload == FlattenSeq(items)
    IN  LengthPrefix(Len(payload), 192) \o payload

-----------------------------------------------------------------------------
(* The item that starts at position p of b: where its payload starts, its  *)
(* length, whether it is a list, and whether its header is canonical.      *)
(* Positions past the end read as 0 and are caught by the bounds check.    *)
ByteAt(b, p) == IF p \in 1..Len(b) THEN b[p] ELSE 0
ItemAt(b, p) ==
    LET c    == ByteAt(b, p)
        list == c >= 192
        base == IF list THEN 192 ELSE 128
        long == c >= base + 56
        ll   == c - base - 55
        len  == IF c < 128 THEN 1
                ELSE IF long THEN BytesValue(SubSeq(b, p + 1, p + ll))
                ELSE c - base
        from == IF c < 128 THEN p ELSE IF long THEN p + 1 + ll ELSE p + 1
        canon ==
            /\ c = 128 + 1 => ByteAt(b, p + 1) >= 128
            /\ long => ByteAt(b, p + 1) # 0 /\ len >= 56
    IN  [list |-> list, from |-> from, len |-> len, next |-> from + len,
         ok |-> canon /\ from + len <= Len(b) + 1 /\ p <= Len(b)]

(* The payload of a string item.                                           *)
Payload(b, it) == SubSeq(b, it.from, it.next - 1)

(* The items of a list that fills b exactly, if it has n of them (and      *)
(* every one is a well-formed string); ok tells whether it did.           *)
DecodeStrings(b, n) ==
    LET outer == ItemAt(b, 1)
        pos[k \in 1..(n + 1)] ==
            IF k = 1 THEN outer.from ELSE ItemAt(b, pos[k - 1]).next
        field(k) == ItemAt(b, pos[k])
    IN  IF /\ outer.ok /\ outer.list /\ outer.next = Len(b) + 1
           /\ \A k \in 1..n : field(k).ok /\ ~field(k).list
           /\ pos[n + 1] = outer.next
        THEN [ok |-> TRUE, items |-> [k \in 1..n |-> Payload(b, field(k))]]
        ELSE [ok |-> FALSE, items |-> <<>>]

(* An integer field decodes only from canonical bytes: no leading zero,    *)
(* and at most maxLen of them.                                             *)
UintOK(s, maxLen) == Len(s) <= maxLen /\ (Len(s) > 0 => s[1] # 0)
=============================================================================
