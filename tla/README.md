# TLA+ models of go-fiscobcos

This directory holds TLA+ models of the client library in `src/`. It also has the TLC configurations that check them and the TLAPS proofs about them. `PROJECT.json` lists:

- every component,
- every run and its mutants,
- the source lines each definition translates (`map`),
- the findings,
- the hazards,
- the theorems.

## The system and its parts

The source has three files. Here is what each holds and how it is modelled.

| Part | Source | Module(s) | Status |
|---|---|---|---|
| Frame tags `TYPE_*` (`ChannelPack`) | `src/rpc/channel.go` 9-20 | none | constants of a transport that is not in `src/` |
| Sequence generator `GenMsgSeq`, `GenZeroSeq` | `src/rpc/channel.go` 22-34 | `MsgSeq`, `HexUtil` | modelled |
| Channel transport that would use the sequences | not in `src/` | none | no code: `SockReq` is an empty stub |
| Header identity: `Header`, `Hash`, `rlpHash`, `Size`, JSON form (`headerMarshaling`) | `src/rpc/channel.go` 102-151 | `HeaderIdentity`, `Rlp`, `HexUtil`, `HeaderProofs` | modelled |
| `BlockNonce` conversions | `src/rpc/channel.go` 73-98 | `HeaderIdentity`, `HeaderProofs` | modelled |
| Canonical encoder (the `rlp` package) | not in `src/` (spec §4.1) | `Rlp` | modelled from the spec, for the header's field types |
| JSON result types `SyncStatus`, `Block`, `TotalTransactionCount`, `TransactionByHash` | `src/rpc/channel.go` 170-223 | `EthClient` | modelled as the structs the lookups decode into |
| `Body`, `ClientVersion` | `src/rpc/channel.go` 153-168 | none | plain data |
| ethclient typed wrappers | `src/unnamed/part_000` | `EthClient`, `HexUtil` | partly |
| Validator/processor interfaces | `src/core/types.go` | none | no behaviour |

The parts interact through the RPC calls. The ethclient wrappers send JSON-RPC calls to a FISCO BCOS node that serves several groups. Each wrapper builds a method name and parameters, with the group id first, and makes one `CallContext`. It then turns the reply into a Go value and an error: a number text through `hexutil`, an object through `json.Unmarshal` into one of the result structs of `channel.go`. The node keeps sealing blocks and accepting transactions between calls. `GenMsgSeq` and the frame tags are meant for a channel transport, but no such transport exists in `src/`: `SockReq` is empty, and no code sends or dispatches a frame. So the sequence generator is modelled on its own, and the transport is not modelled.

## Modules

- **`HexUtil`** models the text conversions of `common/hexutil`: `Decode`, `DecodeUint64`, `EncodeBig`/`EncodeUint64`. It also models Go's `string(int)`, which turns a number into a one-rune UTF-8 string.
  - Text is a sequence of character codes, so every conversion is modelled by what it does to the characters. For example, `Decode` reports `ErrSyntax` before `ErrOddLength`, and `DecodeUint64` rejects leading zeros.
  - These are library functions, not part of `src/`, so they are spec-modelled. The exception is `RuneString`, which translates the `string(blockNumber)` conversion at `part_000:97`.
- **`MsgSeq`** models the generator step by step:
  - `uuid.NewRandom` stamps the version and variant bits into 16 random bytes, or returns nil when the source fails.
  - `UUID.String` produces 36 characters with dashes, or `""` for a nil UUID.
  - `strings.Split` is a recursive function over the text. The loop joins the pieces behind `"0X"` (`FlattenSeq`), then `strings.ToUpper` and `hexutil.Decode` run.
  - The state is the last call and what it returned. `Next` makes another call on any input the source can deliver.
- **`EthClient`** models the wrappers and the node.
  - Node state: `chain[g]` holds the blocks of group `g` and `pool[g]` the accepted transactions. `last` is the last wrapper call with its result and the height it was served at.
  - Each wrapper action is the whole handler: the request from `WrapperMethod` (the method names of `part_000` 61-101 and 112-114), `CallContext`, and the decoder. The decoders are `ObjectReply`, `BlockNumberReply`, `HashReply`, `StringReply` and `ListReply`, translated from the `get*` functions; `Lookup` is the common body of the object lookups.
  - `ObjectReply` unmarshals a non-empty `json.RawMessage` into the struct the method declares. A struct (`BlockStruct`, `SyncStatusStruct`, `TotalTransactionCountStruct`, `TransactionByHashStruct`, from `channel.go` 170-223) is a function from JSON tag to Go kind. `DecodeStruct` is `json.Unmarshal` into a fresh struct: a field takes the object's member with its tag, read by its kind (`common.Hash` from its hex text), and keeps its zero value when there is none. `types.Receipt` is not in `src/`; `ReceiptStruct` holds only the two tags the model reads.
  - The node's handlers and `rpc.Client.CallContext` are spec-modelled from the node's API. The node answers with JSON objects (`BlockJSON`, `ReceiptJSON`, `TotalTxCountJSON`, `SyncStatusJSON`), numbers as hex texts except `SyncStatus`'s integer `blockNumber`. `CallContext` can fail. It unmarshals the result into the caller's target, and a failure or a JSON null leaves the target empty: `json.Unmarshal` of `null` sets the interface holding `&raw` to nil and never touches the `json.RawMessage`. So every lookup of something the node does not have returns `fiscobcos.NotFound`.
  - `SendTransaction` first encodes the transaction; an encoder error is returned and nothing is sent. Then the request may be lost, the reply may be lost after the node accepted the transaction, or the call succeeds.
  - `Seal` empties a group's pool into a new block, up to `MaxHeight`.
- **`Rlp`** models the canonical encoder from its rules: minimal big-endian integers (zero is the empty string), byte strings with a one-byte or long-form length prefix, and lists. It also holds a strict reference decoder. The decoder is not code of the repository; the properties use it to ask what an encoding denotes.
- **`HeaderIdentity`** models block identity in `core/types` (the second half of `channel.go`). Its state is a `BlockNonce` that a caller holds (`UnmarshalText` writes through its pointer receiver) and the last call with its result.
  - Actions, one per function: `CallEncodeNonce`, `CallNonceUint64`, `CallNonceMarshalText`, `CallNonceUnmarshalText`, `CallHash`, `CallSize`, `CallMarshalJSON`, `CallUnmarshalJSON`.
  - `Hash` is `rlpHash(EncodeHeader(h))`. `EncodeHeader` is `rlp.Encode`: it fails on a negative `*big.Int` and then writes nothing. `rlpHash` digests what was written and drops the error, as the code does.
  - Keccak-256 is kept symbolic (`[keccak256 |-> bytes]`), which stands for a collision-free digest.
  - A nil `*big.Int` is the sentinel `NilBig`. `rlp` encodes nil as zero, and `Size` panics on it (`Panic`).
  - The JSON form is what gencodec generates from the struct's tags and the `headerMarshaling` overrides. The byte fields are hex, the big integers are `hexutil.Big` (nil becomes null, a negative value `-0x..`), and the `uint64` fields are `hexutil.Uint64`. The reader stops at the first field that fails. Then, field by field in declaration order, it rejects a missing required field and assigns a given one, so an error leaves the earlier fields written; the modelled caller decodes into a fresh header and drops it on an error. An absent optional field is zero.
  - A JSON object is modelled as the fields it gives a value, each with the text of its string. The tags are left out, because the writer and the reader use the same ones. Null is an absent key, because the decoder treats the two alike.
  - `Uint64` is only called on nonces below 2^31 (`NonceFitsIntBound`), because TLC's integers have 32 bits. The proofs cover every `uint64`.
- **`HeaderProofs`** holds the TLAPS proofs about `HeaderIdentity`.
- **`MC_*`** modules and their `.cfg` files set the constants for TLC.

## Runs

| Run | Expect | What it shows |
|---|---|---|
| `msgseq_roundtrip` | pass | For every drawn UUID, `GenMsgSeq` returns its 16 bytes with no error, and never `GenZeroSeq`'s value (`MsgSeqCorrect`). |
| `msgseq_source_failure` | violation | A failed source gives an empty sequence and a nil error (`GenFailureReported`). Spec §4.4 and §7 require a reported error. |
| `ethclient_reads` | pass | Successful `BlockNumber`, `SyncStatus`, `BlockByNumber` (including nil for latest), `BlockByHash`, `TransactionReceipt` and `TotalTransactionCount` calls return what the node held when it answered, read back from the decoded structs' number texts (`ReadsFaithful`). Every object a lookup returns has exactly the fields of the struct its signature declares (`TypeOK`). Calls fail, transactions arrive and blocks are sealed in between. |
| `ethclient_block_hash_by_number` | violation | `BlockHashByNumber(g, 49)` sends `"1"` and returns block 1's hash. |
| `ethclient_tx_by_hash` | violation | `TransactionByHash` calls `getTransactionByBlockHashAndIndex` and always fails. |
| `header_identity` | pass | The digest `Hash` returns decodes, under a strict RLP decoder, to the header itself, with nil big integers read as zero (`HashIdentifiesHeader`). The nonce conversions round-trip (`NonceRoundTrip`). `UnmarshalText` accepts exactly the nonce texts and never half-writes the nonce (`NonceTextFaithful`). The JSON form round-trips, and a header accepted from a node's text writes back as that text, up to case (`HeaderJSONRoundTrip`). |
| `header_size_nil` | violation | `Size` panics on a header with a nil `Difficulty` or `Number`, which `Hash` accepts (`SizeDefined`). |
| `header_hash_negative` | violation | With a negative `Difficulty` or `Number`, `rlp.Encode` fails, `rlpHash` drops the error, and `Hash` returns the digest of no bytes. Every such header therefore gets the same hash (`HashOfEncoding`). Spec §4.1 and §5 require rejection and no swallowed error. |

Every property of a passing run has a mutant in `PROJECT.json`. The mutant is a variant of a mapped definition, written the way a plausible bug would be. TLC finds the property violated when the variant replaces the definition. The variants are:

- a case-blind `HexVal`;
- a loop that skips the first UUID piece;
- a `getBlockByNumber` that declares its result as `*types.TransactionByHash`, as the decoders next to it do;
- `toBlockNumArg` sending `"0x0"` for nil;
- `EncodeNonce` shifted one byte too far;
- an `UnmarshalText` written with `hexutil.Decode` and `copy`, which takes any even length and returns `Decode`'s errors;
- a header encoding with `GasUsed` before `GasLimit`;
- an `UnmarshalText` that decodes before checking every digit;
- `Number` without its `hexutil.Big` override (marshalled as a decimal JSON number).

### Bounds, and why they are enough

- **`MC_MsgSeq`** draws from 352 random buffers: all 256 constant buffers, plus buffers where one position holds 0, 15, 90, 165, 240 or 255 over a varied background. This covers every byte value at every position, both hex digits of each nibble class, and the version and variant bytes. The pipeline treats positions independently except at the dashes, which these buffers cross.
- **`MC_EthClient`** has two groups, two transactions, chains of up to two blocks, and queries for blocks 0, 1 and 49. 49 is the smallest number whose rune is a decimal digit that names an existing block. Group 1 has no observers. Two heights let a block be sealed between a call and a later one, and a count of sealed transactions differ from the pending ones. The run has about 14,600 distinct states.

- **`MC_HeaderIdentity`** has the all-zero header of the spec's regression scenario, plus every header that differs from it in one field:
  - integers at 1, 127/128, 255/256, 65535/65536 and 2^31-1 (one to four bytes, and the 0x80 boundary);
  - `Extra` of 0, 1 (below and at 0x80), 55, 56, 255 and 256 bytes (the short/long length boundaries of the string and of the list);
  - byte arrays of zeros, of 0xff and of counting bytes;
  - a nil, -1 or -256 `Difficulty` or `Number`;
  - two pairs that swap the values of neighbouring fields.

  There are ten nonce texts (both cases, both prefixes, each failing check) and seven uint64s up to 2^31-1. There are 31 JSON objects: what `MarshalJSON` writes for five headers, and the zero header's object with one field removed or its text changed. The changes are upper case, `0X`, a leading zero, an empty text, no prefix, a bad digit, odd length, too many digits, and a wrong length. The run has 2,159 states, because every state is one call, and takes about 90 seconds.

### Fairness

No run checks a liveness property, so no fairness is assumed. The only component with concurrency the code could schedule would be the channel transport, and it is not in `src/`.

## What is proved

`HeaderProofs` proves the nonce conversions for every value, where TLC only checks integers of 31 bits:

- **`NonceUint64OfEncode`**: for every uint64 `i`, `Uint64(EncodeNonce(i)) = i`. The integer is split into its eight low bytes by repeated division (`LowByte`), and Horner's rule rebuilds it.
- **`EncodeOfNonceUint64`**: for every 8-byte nonce `n`, `EncodeNonce(Uint64(n)) = n`, and `Uint64(n)` is a uint64. It is proved over eight byte constants (`NonceBytes`), where the SMT backend does the arithmetic, and then applied to `n[1]`..`n[8]`.
- **`NonceRoundTripHolds`**: `Spec => []NonceRoundTrip`. The inductive invariant `NonceInv` adds that the caller's nonce is always eight bytes. `UnmarshalNonceType` shows that `UnmarshalText` keeps it so: `hexutil.UnmarshalFixedText` writes exactly eight bytes or nothing (`FixedTextType`, from `SubSeqProperties` of the library and the nibble range of `HexVal`). The assumption used is `NonceAssumption`: callers pass uint64s and byte texts.
- **`NonceTextFaithfulHolds`**: `Spec => []NonceTextFaithful`, with `TextInv == NonceInv /\ NonceTextFaithful` as the inductive invariant. `UnmarshalTextOutcome` gives what one `UnmarshalText` call does to the nonce for every byte text: a nonce text (`0x` or `0X` and sixteen hex digits) is accepted, and the nonce written back by `MarshalText` is the text in lower case; any other text is rejected and the nonce is left as it was. It rests on two lemmas about `hexutil.UnmarshalFixedText`. `NonceTextAccepted` says the error is `NoErr` exactly for nonce texts: the checks run in the code's order (odd length, wrong length, bad digit), and `FixedTextErr` folds the chain. `NonceTextValue` says that the bytes it decodes print back as the lower-case digits: `HexBytesDigits` shows that each output digit is the high or low nibble of one byte (`NibbleSplit`), and `HexCharLower` that a digit decoded and re-encoded is that digit in lower case. No recursion is involved, so TLAPS reaches every text, where TLC checks ten.

These properties are only model-checked:

- `MsgSeqCorrect`: it is about what a recursive function (`Split`) computes for every input. That needs induction over data, which the installed provers cannot do.
- `HashIdentifiesHeader` and `HeaderJSONRoundTrip`. They are about what recursive functions compute for every input (`BigEndian`, `BytesValue`, the decoder's positions, `DigitsValue`), which would need induction over data.
- `ReadsFaithful` needs `DigitsValue(EncodeBig(n)) = n` for the block number texts, again induction over data.
- `EthClient`'s `TypeOK`. Its structural part (an object has its struct's fields) follows from `DecodeStruct` directly, but a theorem about it would have to rest on the node model, which is spec-modelled; the project keeps theorems to the code of `src/`.
- The type invariants of `MsgSeq` and `HeaderIdentity`. Their values pass through recursive functions: `Split` and `FlattenSeq` for the UUID text, and the RLP encoder for the hashed bytes. That a result is a byte sequence is again a fact about what those functions compute for every input.

## Not modelled, and why

- **Keccak-256 itself.** It is a library hash function. The model keeps the digest symbolic, which assumes no collisions.
- **`EmptyRootHash`, `EmptyUncleHash` (`channel.go` 68-71).** These are package constants computed from `DeriveSha` and the empty header list, and no function of `src/` reads them.
- **`Body` and `ClientVersion` (`channel.go` 153-168).** Plain data that no modelled wrapper returns with a group.
- **The channel transport and the `TYPE_*` frame tags.** No code of the repository sends, registers or dispatches a frame (`SockReq` is empty), so there is no behaviour to model.
- **The `int64(height)` wrap and the zero `big.Int` returned with an error in `getBlockNumber` (`part_000:174`).** TLC's integers have 32 bits, and the modelled node always sends a well-formed number. Both remain listed hazards.
- **ethclient wrappers left out.** `CodeAt`, `CallContract` and `toCallArg` would need contract state. `Dial`, `DialContext`, `NewClient` and `Close` only set up the connection. `FilterLogs` and `SubscribeFilterLogs` always return an error. The other `get*` wrappers have the same shapes as the modelled ones.
- **`src/core/types.go`.** It holds only interfaces.

## Plan for the next sittings

1. More wrappers (`CodeAt`, the list wrappers, `TransactionByBlockNumberAndIndex`, which needs ordered blocks).
2. A property for the caller's side of a lost `SendTransaction` reply, if the code's contract becomes clear.
