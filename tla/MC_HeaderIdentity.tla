-------------------------- MODULE MC_HeaderIdentity --------------------------
(* Model-checking instance of HeaderIdentity.  The headers are the all-zero *)
(* header of the regression scenario and every header that differs from   *)
(* it in one field, taking values at the encoding's boundaries: integers   *)
(* around 0x80 and at one to four bytes, Extra of 0, 1, 55, 56, 255 and 256 *)
(* bytes, byte arrays of zeros, 0xff and counting bytes, and a Difficulty  *)
(* or Number that is nil or negative; plus headers that swap the values of *)
(* two neighbouring fields of the same type.                              *)
EXTENDS HeaderIdentity

Zeros(n) == [i \in 1..n |-> 0]
Ones(n)  == [i \in 1..n |-> 255]
Count(n) == [i \in 1..n |-> (i - 1) % 256]

ZeroHeader ==
    [ParentHash |-> Zeros(32), UncleHash |-> Zeros(32), Coinbase |-> Zeros(20),
     Root |-> Zeros(32), TxHash |-> Zeros(32), ReceiptHash |-> Zeros(32),
     Bloom |-> Zeros(256), Difficulty |-> 0, Number |-> 0, GasLimit |-> 0,
     GasUsed |-> 0, Time |-> 0, Extra |-> <<>>, MixDigest |-> Zeros(32),
     RandomId |-> Zeros(8)]

HashFields == {"ParentHash", "UncleHash", "Root", "TxHash", "ReceiptHash", "MixDigest"}
UintVals   == {1, 127, 128, 255, 256, 65535, 65536, 2147483647}

Varied(f, v) == [ZeroHeader EXCEPT ![f] = v]

MCHeaders ==
    {ZeroHeader}
    \cup {Varied(f, v) : f \in HashFields, v \in {Ones(32), Count(32)}}
    \cup {Varied("Coinbase", v) : v \in {Ones(20), Count(20)}}
    \cup {Varied("Bloom", Count(256))}
    \cup {Varied(f, v) : f \in UintFields \cup BigFields, v \in UintVals}
    \cup {Varied(f, v) : f \in BigFields, v \in {NilBig, -1, -256}}
    \cup {Varied("Extra", v) :
            v \in {<<0>>, <<127>>, <<128>>, Zeros(55), Ones(56), Count(255), Count(256)}}
    \cup {Varied("RandomId", v) : v \in {Ones(8), Count(8)}}
    \cup {[ZeroHeader EXCEPT !.GasLimit = a, !.GasUsed = b] : <<a, b>> \in {<<1, 2>>, <<2, 1>>}}
    \cup {[ZeroHeader EXCEPT !.ParentHash = a, !.UncleHash = b] :
            <<a, b>> \in {<<Ones(32), Count(32)>>, <<Count(32), Ones(32)>>}}

(* Texts for UnmarshalText: nonce texts in both cases and with either      *)
(* prefix, and texts that fail each check (no prefix, odd length, 7 and 9  *)
(* bytes, a non-hex digit in the middle, and the empty text).              *)
Hex16 == <<49, 50, 51, 52, 53, 54, 55, 56, 57, 97, 98, 99, 100, 101, 102, 48>>
MCNonceTexts ==
    {<<48, 120>> \o Hex16,
     <<48, 88>> \o [i \in 1..16 |-> IF Hex16[i] >= 97 THEN Hex16[i] - 32 ELSE Hex16[i]],
     <<48, 120>> \o Zeros(16) \o <<>>,
     <<48, 120>> \o [i \in 1..16 |-> 48],
     Hex16 \o <<48, 48>>,
     <<48, 120>> \o SubSeq(Hex16, 1, 15),
     <<48, 120>> \o SubSeq(Hex16, 1, 14),
     <<48, 120>> \o Hex16 \o <<48, 48>>,
     <<48, 120>> \o [Hex16 EXCEPT ![9] = 103],
     <<>>}

(* JSON objects for UnmarshalJSON: what MarshalJSON writes for some        *)
(* headers, and the zero header's object with one field taken out or its  *)
(* text changed the ways a node's text may differ: upper case and 0X,      *)
(* leading zeros, empty texts, missing prefix, bad digit, odd length,      *)
(* too many digits, wrong length.                                          *)
ZeroJSON == HeaderMarshalJSON(ZeroHeader).obj
Tampered(f, t) == [ZeroJSON EXCEPT ![f] = t]
Without(F) == [f \in DOMAIN ZeroJSON \ F |-> ZeroJSON[f]]
MCHeaderTexts ==
    {HeaderMarshalJSON(h).obj :
        h \in {ZeroHeader, Varied("Difficulty", 255), Varied("Number", 65536),
               Varied("Number", -1),
               Varied("Extra", <<128, 171>>), Varied("RandomId", Count(8))}}
    \cup {Without({"Difficulty"}), Without({"GasUsed"}), Without({"MixDigest", "RandomId"})}
    \cup {Tampered(f, t) : f \in {"Difficulty", "GasLimit"},
            t \in {<<48, 120, 48, 49>>, <<>>, <<48, 88, 49, 70>>, <<48, 120>>, <<49, 102>>,
                   <<48, 120, 103>>, <<48, 120, 49>> \o Zeros(16) \o Zeros(48)}}
    \cup {Tampered("Extra", t) :
            t \in {<<48, 88, 65, 66>>, <<48, 120, 48>>, <<>>, <<97, 98>>, <<48, 120, 97, 103>>}}
    \cup {Tampered("Coinbase", <<48, 120>> \o [i \in 1..38 |-> 48]),
          Tampered("Root", <<48, 88>> \o [i \in 1..64 |-> 70]),
          Tampered("RandomId", <<48, 120>> \o [i \in 1..16 |-> 65]),
          Tampered("RandomId", <<>>)}

MCNonceInts == {0, 1, 255, 256, 65535, 16777216, 2147483647}
=============================================================================
