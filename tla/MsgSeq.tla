------------------------------- MODULE MsgSeq -------------------------------
(***************************************************************************)
(* The correlation-sequence generator of src/rpc/channel.go: GenMsgSeq     *)
(* turns a random (version 4) UUID into 16 raw bytes by way of its text:   *)
(* uuid.New() renders the UUID as 36 lowercase hex characters with four    *)
(* dashes, strings.Split cuts it at the dashes, the loop glues the pieces  *)
(* behind "0X", strings.ToUpper upper-cases it and hexutil.Decode parses   *)
(* it back.  GenZeroSeq decodes a 32-digit literal of zeros.               *)
(*                                                                         *)
(* Text is a sequence of ASCII codes (see HexUtil, which also models      *)
(* hexutil.Decode).  The UUID library is not part of src/: it is modelled *)
(* from its documented behaviour.                                          *)
(*                                                                         *)
(* The state is the last call made and what it returned; the next-state    *)
(* relation makes another call on any input the UUID source can deliver.   *)
(***************************************************************************)
EXTENDS Integers, Sequences, SequencesExt, HexUtil

CONSTANTS
    RandBuffers,     \* 16-byte buffers the random source can deliver
    SourceMayFail    \* whether the random source can fail to deliver

ASSUME RandBuffersAssumption ==
    /\ RandBuffers # {}
    /\ \A r \in RandBuffers : r \in [1..16 -> 0..255]
ASSUME SourceMayFailAssumption == SourceMayFail \in BOOLEAN

VARIABLE call    \* [op, uuid, out]: the last call and its result

vars == <<call>>

-----------------------------------------------------------------------------
(* uuid.NewRandom: the 16 random bytes with the version (4) stamped into   *)
(* byte 7 and the variant (10xxxxxx) into byte 9.  When the random source  *)
(* fails it returns nil, modelled as the empty sequence NilUUID.           *)
NilUUID == <<>>
NewRandom(r) == [r EXCEPT ![7] = (@ % 16) + 64, ![9] = (@ % 64) + 128]

(* UUID.String: "" unless the UUID has 16 bytes, otherwise the lowercase   *)
(* hex of bytes 1-4, 5-6, 7-8, 9-10 and 11-16 with a dash between groups.  *)
(* Text position i shows nibble i - (dashes before i) of the UUID.         *)
UUIDDashes == {9, 14, 19, 24}
UUIDString(u) ==
    IF Len(u) # 16 THEN <<>>
    ELSE [i \in 1..36 |->
            IF i \in UUIDDashes THEN Dash
            ELSE LET k == i - Cardinality({d \in UUIDDashes : d < i})
                     b == u[(k + 1) \div 2]
                 IN  LowerHex(IF k % 2 = 1 THEN b \div 16 ELSE b % 16)]

(* strings.Split(s, "-"): the pieces between the dashes; a text with n     *)
(* dashes has n + 1 pieces, and the empty text has one empty piece.        *)
Split(s) ==
    LET pieces[i \in 0..Len(s)] ==
          IF i = 0 THEN << <<>> >>
          ELSE IF s[i] = Dash THEN Append(pieces[i - 1], <<>>)
          ELSE LET p == pieces[i - 1]
               IN  [p EXCEPT ![Len(p)] = Append(@, s[i])]
    IN  pieces[Len(s)]

(* strings.ToUpper on ASCII text.                                          *)
ToUpper(s) == [i \in DOMAIN s |-> IF s[i] \in 97..122 THEN s[i] - 32 ELSE s[i]]

(* A variant of GenMsgSeq whose loop skips the first piece.               *)
GenMsgSeqSkipFirst(u) ==
    Decode(ToUpper(FlattenSeq(<< <<Digit0, BigX>> >> \o Tail(Split(UUIDString(u))))))

(* GenMsgSeq, given what uuid.New() drew: uid = "0X" followed by the       *)
(* pieces of the split text, upper-cased and decoded.                      *)
GenMsgSeq(u) ==
    Decode(ToUpper(FlattenSeq(<< <<Digit0, BigX>> >> \o Split(UUIDString(u)))))

(* GenZeroSeq: hexutil.Decode("0x" followed by 32 zeros).                  *)
GenZeroSeq == Decode(<<Digit0, SmallX>> \o [i \in 1..32 |-> Digit0])

-----------------------------------------------------------------------------
(* What uuid.New() can start from: a random buffer, or nil when the source *)
(* fails.                                                                  *)
UUIDOutcomes ==
    {NewRandom(r) : r \in RandBuffers} \cup (IF SourceMayFail THEN {NilUUID} ELSE {})

CallGenMsgSeq ==
    \E u \in UUIDOutcomes :
        call' = [op |-> "GenMsgSeq", uuid |-> u, out |-> GenMsgSeq(u)]

CallGenZeroSeq ==
    call' = [op |-> "GenZeroSeq", uuid |-> NilUUID, out |-> GenZeroSeq]

Init == \E u \in UUIDOutcomes :
            call = [op |-> "GenMsgSeq", uuid |-> u, out |-> GenMsgSeq(u)]

Next == CallGenMsgSeq \/ CallGenZeroSeq

Spec == Init /\ [][Next]_vars

-----------------------------------------------------------------------------
Bytes == Seq(0..255)
Errors == {NoErr, "ErrEmptyString", "ErrMissingPrefix", "ErrSyntax", "ErrOddLength"}

TypeOK ==
    call \in [op : {"GenMsgSeq", "GenZeroSeq"}, uuid : Bytes,
              out : [val : Bytes, err : Errors]]

(* The text detour of GenMsgSeq loses nothing: for every UUID the source   *)
(* draws, GenMsgSeq returns no error and exactly the UUID's 16 bytes, and  *)
(* these differ from the reserved sequence GenZeroSeq returns (the version *)
(* nibble 4 is never zero), so a correlated frame is never mistaken for an *)
(* uncorrelated one.                                                       *)
MsgSeqCorrect ==
    call.op = "GenMsgSeq" /\ call.uuid # NilUUID =>
        /\ call.out.err = NoErr
        /\ call.out.val = call.uuid
        /\ call.out.val # GenZeroSeq.val

(* Spec 4.4 and 7: when the UUID source fails, GenMsgSeq reports an error  *)
(* to its caller rather than returning a sequence.                         *)
GenFailureReported ==
    call.op = "GenMsgSeq" /\ call.uuid = NilUUID => call.out.err # NoErr
=============================================================================
