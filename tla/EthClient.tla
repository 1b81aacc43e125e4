------------------------------ MODULE EthClient ------------------------------
(***************************************************************************)
(* The typed wrappers of the ethclient package (src/unnamed/part_000) and  *)
(* the node they call.  Each wrapper builds a request (method name and     *)
(* parameters, group id first), makes one CallContext and turns the reply  *)
(* into a Go value and an error.  The node serves several groups, each a   *)
(* chain of sealed blocks and a pool of accepted transactions; it seals    *)
(* blocks between calls.  The node's handlers and the rpc client are not   *)
(* part of src/ and are modelled from the node's documented API; block and *)
(* transaction hashes are abstract values, and the texts the code converts *)
(* (block numbers as parameters and replies) are sequences of codes.      *)
(***************************************************************************)
EXTENDS Integers, Sequences, FiniteSets, HexUtil

CONSTANTS
    Groups,       \* group ids the node serves
    Txs,          \* signed transactions callers can send
    MaxHeight,    \* bound on the height of a group's chain
    QueryNums,    \* block numbers callers pass to the block lookups
    Observers     \* Observers[g]: the observer list of group g

ASSUME GroupsAssumption == Groups \subseteq Nat \ {0} /\ 1 \in Groups
ASSUME BoundsAssumption == MaxHeight \in Nat /\ QueryNums \subseteq Nat
ASSUME ObserversAssumption == Observers \in [Groups -> Seq(STRING)]

VARIABLES
    chain,   \* chain[g][n + 1]: the transactions of block n of group g
    pool,    \* pool[g]: transactions group g accepted and has not sealed
    last     \* the last wrapper call: api, arguments, result, node height

vars == <<chain, pool, last>>

NilVal   == [nil |-> TRUE]                 \* a nil pointer, slice or map
NotFound == "NotFound"                     \* fiscobcos.NotFound
NilNum   == -1                             \* a nil *big.Int argument
Latest   == <<108, 97, 116, 101, 115, 116>>  \* "latest"

Height(g) == Len(chain[g]) - 1
TxBlock(g, tx) ==
    IF \E n \in 0..Height(g) : tx \in chain[g][n + 1]
    THEN CHOOSE n \in 0..Height(g) : tx \in chain[g][n + 1] ELSE NilNum
TxKnown(g, tx) == tx \in pool[g] \/ TxBlock(g, tx) # NilNum
BlockHashOf(g, n) == <<g, n>>
ZeroHash == <<0, 0>>                        \* common.Hash{}, the genesis parent
(* The node's "0x..." text of hash h; common.HexToHash reads h back.      *)
HashText(h) == <<"0x", h>>
HexToHash(t) == t[2]
SealedUpTo(g, h) == UNION {chain[g][n + 1] : n \in 0..h}

(* The JSON objects the node answers with, with the fields the model      *)
(* carries (a field the node leaves out or sends as null is absent).      *)
BlockJSON(g, n) ==
    [number |-> EncodeBig(n), hash |-> HashText(BlockHashOf(g, n)),
     parentHash |-> HashText(IF n = 0 THEN ZeroHash ELSE BlockHashOf(g, n - 1)),
     transactions |-> chain[g][n + 1]]
ReceiptJSON(g, tx) == [transactionHash |-> tx, blockNumber |-> EncodeBig(TxBlock(g, tx))]
TotalTxCountJSON(g) ==
    [blockNumber |-> EncodeBig(Height(g)), txSum |-> EncodeBig(Cardinality(SealedUpTo(g, Height(g))))]
SyncStatusJSON(g) ==
    [blockNumber |-> Height(g), isSyncing |-> FALSE,
     latestHash |-> HashText(BlockHashOf(g, Height(g)))]

-----------------------------------------------------------------------------
(* The node's handlers (jsToBlockNumber, the JSON-RPC methods).  A reply   *)
(* is a value, JSON null, or an error.                                     *)
Value(v) == [kind |-> "value", v |-> v]
NullReply == [kind |-> "null", v |-> NilVal]
RpcError(e) == [kind |-> "error", v |-> e]

(* A block number parameter: "latest", 0x-prefixed hex, or decimal.        *)
NodeBlockNumber(g, s) ==
    LET h == SubSeq(s, 3, Len(s)) IN
    IF s = Latest THEN Height(g)
    ELSE IF Has0xPrefix(s) /\ Len(h) > 0 /\ \A i \in 1..Len(h) : IsHexChar(h[i])
    THEN DigitsValue(h, 16)
    ELSE IF Len(s) > 0 /\ \A i \in 1..Len(s) : IsDecChar(s[i]) THEN DigitsValue(s, 10)
    ELSE NilNum

NodeReply(req) ==
    LET m == req.method
        g == req.params[1]
        n == IF Len(req.params) > 1 THEN NodeBlockNumber(g, req.params[2]) ELSE NilNum
    IN
    CASE m = "getBlockNumber" -> Value(EncodeBig(Height(g)))
      [] m \in {"getBlockByNumber", "getBlockHashByNumber"} ->
           IF n \notin 0..Height(g) THEN RpcError("InvalidParams")
           ELSE IF m = "getBlockByNumber" THEN Value([obj |-> BlockJSON(g, n)])
           ELSE Value(HashText(BlockHashOf(g, n)))
      [] m = "getBlockByHash" ->
           IF \E k \in 0..Height(g) : BlockHashOf(g, k) = req.params[2]
           THEN Value([obj |-> BlockJSON(g, req.params[2][2])])
           ELSE NullReply
      [] m = "getTotalTransactionCount" -> Value([obj |-> TotalTxCountJSON(g)])
      [] m = "getSyncStatus" -> Value([obj |-> SyncStatusJSON(g)])
      [] m = "getPendingTxSize" -> Value(EncodeBig(Cardinality(pool[g])))
      [] m = "getTransactionByBlockHashAndIndex" ->
           IF Len(req.params) # 3 THEN RpcError("InvalidParams") ELSE NullReply
      [] m = "getTransactionReceipt" ->
           IF TxBlock(g, req.params[2]) # NilNum
           THEN Value([obj |-> ReceiptJSON(g, req.params[2])])
           ELSE NullReply
      [] m = "getObserverList" -> Value(Observers[g])
      [] m = "sendRawTransaction" ->
           IF TxKnown(g, req.params[2]) THEN RpcError("AlreadyKnown")
           ELSE Value(req.params[2])

(* rpc.Client.CallContext: the request reaches the node and its reply      *)
(* comes back (ok), or the call fails.  The result is unmarshaled into the *)
(* caller's target, a json.RawMessage ("raw"), a string or a slice; a      *)
(* failed call or JSON null leaves the target as it was, empty.            *)
RawEmpty == [json |-> "empty"]
Empty(target) == IF target = "raw" THEN RawEmpty ELSE <<>>
CallContext(req, target, ok) ==
    LET r == NodeReply(req) IN
    IF ~ok THEN [err |-> "ErrTransport", raw |-> Empty(target)]
    ELSE IF r.kind = "error" THEN [err |-> r.v, raw |-> Empty(target)]
    ELSE IF r.kind = "null" THEN [err |-> NoErr, raw |-> Empty(target)]
    ELSE [err |-> NoErr, raw |-> r.v]

-----------------------------------------------------------------------------
(* The result structs of core/types (rpc/channel.go), each a function from *)
(* a JSON tag to the Go kind of its field.                                 *)
BlockStruct ==
    [dbHash |-> "Hash", extraData |-> "slice", gasLimit |-> "string",
     gasUsed |-> "string", hash |-> "Hash", logsBloom |-> "string",
     number |-> "string", parentHash |-> "Hash", receiptsRoot |-> "string",
     sealer |-> "string", sealerList |-> "slice", stateRoot |-> "string",
     timestamp |-> "string", transactions |-> "slice", transactionsRoot |-> "string"]
TotalTransactionCountStruct == [blockNumber |-> "string", txSum |-> "string"]
TransactionByHashStruct ==
    [f \in {"blockHash", "blockNumber", "from", "gas", "gasPrice", "hash", "input",
            "nonce", "to", "transactionIndex", "value"} |-> "string"]
SyncStatusStruct ==
    [blockNumber |-> "int", genesisHash |-> "string", isSyncing |-> "bool",
     knownHighestNumber |-> "int", knownLatestHash |-> "string",
     latestHash |-> "string", nodeId |-> "string", peers |-> "slice",
     protocolId |-> "int", txPoolSize |-> "string"]
ReceiptStruct == [transactionHash |-> "string", blockNumber |-> "string"]

(* The zero value of each kind, and a JSON value read into a field.        *)
Zero == [Hash |-> ZeroHash, slice |-> NilVal, string |-> <<>>, int |-> 0, bool |-> FALSE]
FieldValue(kind, v) == IF kind = "Hash" THEN HexToHash(v) ELSE v

(* json.Unmarshal of an object into a fresh struct: a field takes the      *)
(* member with its tag, and keeps its zero value when there is none.       *)
DecodeStruct(struct, obj) ==
    [f \in DOMAIN struct |->
        IF f \in DOMAIN obj THEN FieldValue(struct[f], obj[f]) ELSE Zero[struct[f]]]

(* The wrappers' methods (the public methods of Client): the JSON-RPC      *)
(* method each one names.                                                  *)
WrapperMethod ==
    [BlockByHash |-> "getBlockByHash",
     BlockNumber |-> "getBlockNumber", SyncStatus |-> "getSyncStatus",
     BlockByNumber |-> "getBlockByNumber",
     TotalTransactionCount |-> "getTotalTransactionCount",
     TransactionReceipt |-> "getTransactionReceipt",
     TransactionByHash |-> "getTransactionByBlockHashAndIndex",
     BlockHashByNumber |-> "getBlockHashByNumber",
     PendingTxSize |-> "getPendingTxSize",
     ObserverList |-> "getObserverList"]
Request(api, params) == [method |-> WrapperMethod[api], params |-> params]

(* A variant of toBlockNumArg that sends "0x0" for nil.                   *)
ToBlockNumArgZero(number) == EncodeBig(IF number = NilNum THEN 0 ELSE number)

(* toBlockNumArg: "latest" for nil, hexutil.EncodeBig otherwise.           *)
ToBlockNumArg(number) == IF number = NilNum THEN Latest ELSE EncodeBig(number)

(* The shapes of the typed decoders.  c is what CallContext returned.      *)
(* getBlock, getSyncStatus, getTransactionReceipt, ... : the raw JSON, if  *)
(* not empty, unmarshaled into a pointer to the struct the method returns. *)
ObjectReply(c, struct) ==
    IF c.err # NoErr THEN Result(NilVal, c.err)
    ELSE IF c.raw = RawEmpty THEN Result(NilVal, NotFound)
    ELSE Result(DecodeStruct(struct, c.raw.obj), NoErr)

(* getBlockNumber: a string, decoded by hexutil.DecodeUint64 and returned  *)
(* as big.NewInt(int64(height)) together with the decoder's error.         *)
BlockNumberReply(c) ==
    IF c.err # NoErr THEN Result(NilVal, c.err)
    ELSE IF c.raw = <<>> THEN Result(NilVal, NotFound)
    ELSE DecodeUint64(c.raw)

(* getBlockHashByNumber: a string, converted by common.HexToHash.          *)
HashReply(c) ==
    IF c.err # NoErr THEN Result(NilVal, c.err)
    ELSE IF c.raw = <<>> THEN Result(NilVal, NotFound)
    ELSE Result(HexToHash(c.raw), NoErr)

(* getPendingTxSize, getCode, getSystemConfigByKey: a string.             *)
StringReply(c) ==
    IF c.err # NoErr THEN Result(<<>>, c.err)
    ELSE IF c.raw = <<>> THEN Result(<<>>, NotFound)
    ELSE Result(c.raw, NoErr)

(* getSealerList, getObserverList, ... : a slice; an empty one is          *)
(* reported as NotFound.                                                   *)
ListReply(c) ==
    IF c.err # NoErr THEN Result(NilVal, c.err)
    ELSE IF c.raw = <<>> THEN Result(NilVal, NotFound)
    ELSE Result(c.raw, NoErr)

-----------------------------------------------------------------------------
Init ==
    /\ chain = [g \in Groups |-> << {} >>]
    /\ pool = [g \in Groups |-> {}]
    /\ last = [api |-> "none", args |-> <<>>, out |-> Result(NilVal, NoErr), at |-> 0]

(* A wrapper call: what it returned, at the node's height of the group.    *)
Record(api, args, out) ==
    /\ last' = [api |-> api, args |-> args, out |-> out, at |-> Height(args[1])]
    /\ UNCHANGED <<chain, pool>>

(* An object lookup: one CallContext into a json.RawMessage, then the      *)
(* decoder into struct.                                                    *)
Lookup(api, args, params, struct) ==
    \E ok \in BOOLEAN :
        Record(api, args, ObjectReply(CallContext(Request(api, params), "raw", ok), struct))

BlockByHash(g, hash) == Lookup("BlockByHash", <<g, hash>>, <<g, hash, TRUE>>, BlockStruct)

BlockNumber(g) ==
    \E ok \in BOOLEAN :
        Record("BlockNumber", <<g>>,
               BlockNumberReply(CallContext(Request("BlockNumber", <<g>>), "string", ok)))

SyncStatus(g) == Lookup("SyncStatus", <<g>>, <<g>>, SyncStatusStruct)

BlockByNumber(g, number) ==
    Lookup("BlockByNumber", <<g, number>>, <<g, ToBlockNumArg(number), TRUE>>, BlockStruct)

TotalTransactionCount(g) ==
    Lookup("TotalTransactionCount", <<g>>, <<g>>, TotalTransactionCountStruct)

(* string(blockNumber) converts the number to a one-rune string.           *)
BlockHashByNumber(g, blockNumber) ==
    \E ok \in BOOLEAN :
        Record("BlockHashByNumber", <<g, blockNumber>>,
               HashReply(CallContext(Request("BlockHashByNumber",
                                 <<g, RuneString(blockNumber)>>), "string", ok)))

TransactionReceipt(g, tx) ==
    Lookup("TransactionReceipt", <<g, tx>>, <<g, tx>>, ReceiptStruct)

TransactionByHash(g, tx) ==
    Lookup("TransactionByHash", <<g, tx>>, <<g, tx>>, TransactionByHashStruct)

PendingTxSize(g) ==
    \E ok \in BOOLEAN :
        Record("PendingTxSize", <<g>>,
               StringReply(CallContext(Request("PendingTxSize", <<g>>), "string", ok)))

ObserverList(g) ==
    \E ok \in BOOLEAN :
        Record("ObserverList", <<g>>,
               ListReply(CallContext(Request("ObserverList", <<g>>), "list", ok)))

(* SendTransaction: rlp.EncodeToBytes, whose error is returned at once     *)
(* (encoded), then sendRawTransaction to group 1 with a nil result.  The   *)
(* request may be lost before the node, or the reply after the node        *)
(* accepted the transaction.                                               *)
SendTransaction(tx) ==
    LET r == NodeReply([method |-> "sendRawTransaction", params |-> <<1, tx>>]) IN
    \E encoded \in BOOLEAN, fate \in {"ok", "lostRequest", "lostReply"} :
        /\ pool' = IF encoded /\ fate # "lostRequest" /\ r.kind = "value"
                   THEN [pool EXCEPT ![1] = @ \cup {tx}] ELSE pool
        /\ last' = [api |-> "SendTransaction", args |-> <<1, tx>>,
                    out |-> Result(NilVal, IF ~encoded THEN "ErrEncode"
                                           ELSE IF fate # "ok" THEN "ErrTransport"
                                           ELSE IF r.kind = "error" THEN r.v ELSE NoErr),
                    at |-> Height(1)]
        /\ UNCHANGED chain

(* The node seals the pool of group g into a new block.                    *)
Seal(g) ==
    /\ Height(g) < MaxHeight
    /\ chain' = [chain EXCEPT ![g] = Append(@, pool[g])]
    /\ pool' = [pool EXCEPT ![g] = {}]
    /\ UNCHANGED last

Next ==
    \/ \E g \in Groups :
           \/ BlockNumber(g) \/ SyncStatus(g) \/ TotalTransactionCount(g)
           \/ PendingTxSize(g) \/ ObserverList(g) \/ Seal(g)
    \/ \E g, h \in Groups, n \in 0..MaxHeight : BlockByHash(g, BlockHashOf(h, n))
    \/ \E g \in Groups, n \in QueryNums \cup {NilNum} : BlockByNumber(g, n)
    \/ \E g \in Groups, n \in QueryNums : BlockHashByNumber(g, n)
    \/ \E g \in Groups, tx \in Txs : TransactionReceipt(g, tx) \/ TransactionByHash(g, tx)
    \/ \E tx \in Txs : SendTransaction(tx)

Spec == Init /\ [][Next]_vars

-----------------------------------------------------------------------------
Apis == {"none", "SendTransaction"} \cup DOMAIN WrapperMethod
Errors == {NoErr, NotFound, "ErrTransport", "ErrEncode", "InvalidParams", "AlreadyKnown",
           "ErrEmptyString", "ErrMissingPrefix", "ErrEmptyNumber",
           "ErrLeadingZero", "ErrSyntax", "ErrUint64Range"}

(* The struct each object lookup declares as its result.                  *)
ResultStruct ==
    [BlockByHash |-> BlockStruct, BlockByNumber |-> BlockStruct,
     SyncStatus |-> SyncStatusStruct,
     TotalTransactionCount |-> TotalTransactionCountStruct,
     TransactionReceipt |-> ReceiptStruct,
     TransactionByHash |-> TransactionByHashStruct]

(* The type invariant.  Besides the node's state and the error sets, an    *)
(* object a lookup returns has exactly the fields of the struct its Go     *)
(* signature declares.                                                     *)
TypeOK ==
    /\ chain \in [Groups -> Seq(SUBSET Txs)]
    /\ \A g \in Groups : Len(chain[g]) \in 1..(MaxHeight + 1)
    /\ pool \in [Groups -> SUBSET Txs]
    /\ last.api \in Apis
    /\ last.out.err \in Errors
    /\ last.at \in 0..MaxHeight
    /\ last.api \in DOMAIN ResultStruct /\ last.out.val # NilVal =>
           DOMAIN last.out.val = DOMAIN ResultStruct[last.api]

(* The number a hex quantity text a struct field holds denotes.           *)
NumberOf(text) == DecodeUint64(text).val

(* A wrapper that returns a value without an error returns what the node   *)
(* holds: BlockNumber and SyncStatus the group's height when it was        *)
(* served, BlockByNumber the block of the number asked for (the latest one *)
(* for nil), BlockByHash the block with the hash asked for,               *)
(* TransactionReceipt a block that contains the transaction, and          *)
(* TotalTransactionCount that height and the transactions sealed up to it. *)
(* This runs through toBlockNumArg's and the node's number texts,         *)
(* DecodeUint64, and json's decoding of each reply into its struct.       *)
ReadsFaithful ==
    LET g == last.args[1]
        v == last.out.val
    IN
    last.out.err = NoErr =>
        /\ last.api = "BlockNumber" => v = last.at
        /\ last.api = "SyncStatus" => v.blockNumber = last.at
        /\ last.api \in {"BlockByNumber", "BlockByHash"} =>
               /\ v.hash = BlockHashOf(g, NumberOf(v.number))
               /\ v.transactions = chain[g][NumberOf(v.number) + 1]
        /\ last.api = "BlockByNumber" =>
               NumberOf(v.number) = IF last.args[2] = NilNum THEN last.at ELSE last.args[2]
        /\ last.api = "BlockByHash" => v.hash = last.args[2]
        /\ last.api = "TransactionReceipt" =>
               last.args[2] \in chain[g][NumberOf(v.blockNumber) + 1]
        /\ last.api = "TotalTransactionCount" =>
               /\ NumberOf(v.blockNumber) = last.at
               /\ NumberOf(v.txSum) = Cardinality(SealedUpTo(g, last.at))

(* BlockHashByNumber(g, n) that returns no error returns the hash of block *)
(* n of group g (what its name and its blockNumber parameter promise).     *)
BlockHashCorrect ==
    last.api = "BlockHashByNumber" /\ last.out.err = NoErr =>
        last.out.val = BlockHashOf(last.args[1], last.args[2])

(* TransactionByHash of a transaction the node knows returns that          *)
(* transaction, unless the transport failed.                               *)
TxByHashAnswered ==
    last.api = "TransactionByHash" /\ TxKnown(last.args[1], last.args[2])
    /\ last.out.err # "ErrTransport" =>
        /\ last.out.err = NoErr
        /\ last.out.val # NilVal /\ last.out.val.hash = last.args[2]
=============================================================================
