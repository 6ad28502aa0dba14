-------------------------------- MODULE Wire --------------------------------
(***************************************************************************)
(* The RSI request codec: how one message read from the device becomes the *)
(* fields of one request (internal/rsi/wire.go, internal/rsi/messages.go). *)
(*                                                                         *)
(* ParseRequest frames the message by its own length word; the dispatcher  *)
(* selects the handler by opcode; the handler's Decode function then reads *)
(* the payload field by field through a Decoder that keeps one offset.     *)
(* The bytes are whatever the sender put there: a word the code branches   *)
(* on (a length prefix, the WRITE_KEY field mask, the BEGIN mode) takes    *)
(* any value at the moment it is read, which loses nothing because no byte *)
(* is read twice (FieldsInside).  Other contents play no part in decoding. *)
(***************************************************************************)
EXTENDS Integers, Sequences

CONSTANTS MaxRequestSize,   \* the longest message (constants.go:69), scaled down
          MaxWord,          \* the largest value of a uint32 word, scaled down
          Lengths           \* the length prefixes a sender may write

ASSUME SizesAssumption == /\ MaxRequestSize \in Nat
                          /\ MaxWord \in Nat
                          /\ MaxRequestSize < MaxWord
                          /\ Lengths \subseteq 0 .. MaxWord

RequestHeaderSize == 22

VARIABLES msg,      \* the message in the read buffer: its length and its header words
          stage,    \* what the code does with it next
          off,      \* Decoder.off
          reads,     \* the field reads the Decode function has left
          prefix,   \* the length prefix just read, or None
          fields    \* the fields decoded so far: kind, offset, end and word

wireVars == <<msg, stage, off, reads, prefix, fields>>
decoder == <<off, reads, prefix, fields>>

\* "No length prefix has been read": not a value of a uint32.
None == MaxWord + 1

-----------------------------------------------------------------------------
(* The decoders of messages.go, as the field reads they make in order.     *)
DecodeLookupRequest == <<"guid", "string">>
DecodeCreateEntryRequest == <<"guid", "string", "string", "guid", "u64">>
DecodeHideEntryRequest == <<"guid", "string", "string", "u64">>
DecodeDeleteEntryRequest == <<"guid", "string", "string">>
DecodeEnumChildrenRequest == <<"guid">>
DecodeCreateKeyRequest == <<"guid", "string", "guid", "blob", "bool", "bool">>
DecodeReadKeyRequest == <<"guid">>
DecodeWriteKeyRequest == <<"guid", "mask">>
DecodeDropKeyRequest == <<"guid">>
DecodeQueryValuesRequest == <<"guid", "string", "bool">>
DecodeSetValueRequest ==
  <<"guid", "string", "string", "u32", "blob", "u64", "u64">>
DecodeDeleteValueEntryRequest == <<"guid", "string", "string">>
DecodeSetBlanketTombstoneRequest == <<"guid", "string", "bool", "u64">>
DecodeBeginTransactionRequest == <<"u64", "mode">>
DecodeCommitTransactionRequest == <<"u64">>
DecodeAbortTransactionRequest == <<"u64">>
DecodeDeleteLayerRequest == <<"string">>
DecodeFlushRequest == <<"string">>

\* The handlers the daemon registers, one per opcode, each with its decoder.
handlers ==
  [OpLookup |-> DecodeLookupRequest, OpCreateEntry |-> DecodeCreateEntryRequest,
   OpHideEntry |-> DecodeHideEntryRequest, OpDeleteEntry |-> DecodeDeleteEntryRequest,
   OpEnumChildren |-> DecodeEnumChildrenRequest, OpCreateKey |-> DecodeCreateKeyRequest,
   OpReadKey |-> DecodeReadKeyRequest, OpWriteKey |-> DecodeWriteKeyRequest,
   OpDropKey |-> DecodeDropKeyRequest, OpQueryValues |-> DecodeQueryValuesRequest,
   OpSetValue |-> DecodeSetValueRequest,
   OpDeleteValueEntry |-> DecodeDeleteValueEntryRequest,
   OpSetBlanketTombstone |-> DecodeSetBlanketTombstoneRequest,
   OpBeginTransaction |-> DecodeBeginTransactionRequest,
   OpCommitTransaction |-> DecodeCommitTransactionRequest,
   OpAbortTransaction |-> DecodeAbortTransactionRequest,
   OpDeleteLayer |-> DecodeDeleteLayerRequest, OpFlush |-> DecodeFlushRequest]

\* The opcodes a header may carry; "OpUnknown" stands for every unregistered one.
OpCodes == DOMAIN handlers \cup {"OpUnknown"}

\* The bytes each fixed-width read takes.
Width == [guid |-> 16, bool |-> 1, u32 |-> 4, u64 |-> 8, mask |-> 4, mode |-> 4]

Prefixed == {"string", "blob"}

\* What the code tells apart in a word it branches on.
Masks == SUBSET {"sd", "last_write_time", "undefined"}
Modes == {"read-write", "read-only", "undefined"}
Words(kind) == CASE kind = "mask" -> Masks
                 [] kind = "mode" -> Modes
                 [] OTHER -> {None}

-----------------------------------------------------------------------------
\* Nothing read yet.
NoMessage == [len |-> 0, total |-> 0, op |-> "OpUnknown"]

WireInit == /\ msg = NoMessage
        /\ stage = "read"
        /\ off = 0 /\ reads = <<>> /\ prefix = None /\ fields = <<>>

\* One read of the device returns one message of at most the buffer's size.
Receive ==
  /\ stage = "read"
  /\ \E len \in 0 .. MaxRequestSize, op \in OpCodes :
       \E total \in {0, len, len + 1, MaxRequestSize + 1} :
         msg' = [len |-> len, total |-> total, op |-> op]
  /\ stage' = "parse"
  /\ UNCHANGED decoder

WellFramed(m) == /\ m.len >= RequestHeaderSize
                 /\ m.total <= MaxRequestSize
                 /\ m.total = m.len

\* Malformed framing ends the serving loop: the connection is torn down.
RejectFraming == /\ stage = "parse"
                 /\ ~WellFramed(msg)
                 /\ stage' = "down"
                 /\ UNCHANGED <<msg, decoder>>

ParseRequest == /\ stage = "parse"
                /\ WellFramed(msg)
                /\ stage' = "dispatch"
                /\ UNCHANGED <<msg, decoder>>

\* The payload is the message after its header.
Payload == msg.len - RequestHeaderSize

\* An opcode without a handler is answered StatusInvalid; otherwise the handler
\* starts a new decoder over the payload.
UnknownOp == /\ stage = "dispatch"
             /\ msg.op \notin DOMAIN handlers
             /\ stage' = "invalid"
             /\ UNCHANGED <<msg, decoder>>

NewDecoder == /\ stage = "dispatch"
              /\ msg.op \in DOMAIN handlers
              /\ stage' = "decode"
              /\ off' = 0 /\ prefix' = None /\ fields' = <<>>
              /\ reads' = handlers[msg.op]
              /\ UNCHANGED msg

\* Faulty: the last byte of the payload cannot be read.
needMore(n) == off + n < Payload

\* Decoder.need: whether n more bytes are there.
need(n) == off + n <= Payload

\* A read that finds too few bytes ends the decoding; the handler answers StatusInvalid.
ShortRead(n) == /\ ~need(n)
                /\ stage' = "short"
                /\ UNCHANGED <<msg, decoder>>

\* The fields that follow a WRITE_KEY mask: one per bit of it that is set.
Masked(word) == (IF "sd" \in word THEN <<"blob">> ELSE <<>>)
                \o (IF "last_write_time" \in word THEN <<"u64">> ELSE <<>>)

After(kind, word) == IF kind = "mask" THEN Masked(word) \o Tail(reads) ELSE Tail(reads)

\* Faulty: a BEGIN without its mode is taken as a request for the default mode.
FixedOptionalMode ==
  /\ stage = "decode" /\ reads # <<>> /\ Head(reads) \notin Prefixed
  /\ LET kind == Head(reads)
         n == Width[kind]
     IN \/ kind # "mode" /\ ShortRead(n)
        \/ /\ kind = "mode" /\ ~need(n)
           /\ reads' = <<>>
           /\ UNCHANGED <<msg, stage, off, prefix, fields>>
        \/ /\ need(n)
           /\ \E word \in Words(kind) :
                /\ fields' = Append(fields, [kind |-> kind, at |-> off,
                                             end |-> off + n, word |-> word])
                /\ reads' = After(kind, word)
           /\ off' = off + n
           /\ UNCHANGED <<msg, stage, prefix>>

\* Uint8, Bool, Uint32, Uint64 and GUID: check, take the bytes, advance.
Fixed ==
  /\ stage = "decode" /\ reads # <<>> /\ Head(reads) \notin Prefixed
  /\ LET kind == Head(reads)
         n == Width[kind]
     IN \/ ShortRead(n)
        \/ /\ need(n)
           /\ \E word \in Words(kind) :
                /\ fields' = Append(fields, [kind |-> kind, at |-> off,
                                             end |-> off + n, word |-> word])
                /\ reads' = After(kind, word)
           /\ off' = off + n
           /\ UNCHANGED <<msg, stage, prefix>>

\* String and Blob read their length as a Uint32 ...
Prefix ==
  /\ stage = "decode" /\ reads # <<>> /\ Head(reads) \in Prefixed /\ prefix = None
  /\ \/ ShortRead(4)
     \/ /\ need(4)
        /\ prefix' \in Lengths
        /\ off' = off + 4
        /\ UNCHANGED <<msg, stage, reads, fields>>

\* ... and then that many bytes, which they copy.
Body ==
  /\ stage = "decode" /\ reads # <<>> /\ prefix # None
  /\ \/ ShortRead(prefix)
     \/ /\ need(prefix)
        /\ fields' = Append(fields, [kind |-> Head(reads), at |-> off - 4,
                                     end |-> off + prefix, word |-> prefix])
        /\ off' = off + prefix
        /\ prefix' = None
        /\ reads' = Tail(reads)
        /\ UNCHANGED <<msg, stage>>

\* The words of a decoded request that its handler refuses: a BEGIN mode other
\* than read-write and read-only, a WRITE_KEY mask with an undefined bit.
Refused == \E i \in DOMAIN fields :
             \/ fields[i].kind = "mode" /\ fields[i].word = "undefined"
             \/ fields[i].kind = "mask" /\ "undefined" \in fields[i].word

\* Every field is there: the handler goes on with the request.  Bytes after the
\* last field are not looked at.
Decoded == /\ stage = "decode" /\ reads = <<>>
           /\ stage' = IF Refused THEN "invalid" ELSE "handle"
           /\ UNCHANGED <<msg, decoder>>

\* The response is written; the loop reads the next message over this one.
Answer == /\ stage \in {"handle", "short", "invalid"}
          /\ stage' = "read"
          /\ msg' = NoMessage
          /\ off' = 0 /\ reads' = <<>> /\ prefix' = None /\ fields' = <<>>

WireNext == \/ Receive \/ RejectFraming \/ ParseRequest \/ UnknownOp \/ NewDecoder
        \/ Fixed \/ Prefix \/ Body \/ Decoded \/ Answer

WireSpec == WireInit /\ [][WireNext]_wireVars

-----------------------------------------------------------------------------
Kinds == DOMAIN Width \cup Prefixed

\* Every variable has its type; a payload is never of negative length.
WireTypeOK ==
  /\ msg.len \in 0 .. MaxRequestSize /\ msg.total \in Nat /\ msg.op \in OpCodes
  /\ stage \in {"read", "parse", "dispatch", "decode", "short", "invalid", "handle", "down"}
  /\ stage \in {"dispatch", "decode", "short", "handle"} => Payload \in Nat
  /\ off \in 0 .. MaxRequestSize
  /\ reads \in Seq(Kinds)
  /\ prefix \in 0 .. None
  /\ \A i \in DOMAIN fields : fields[i].kind \in Kinds

(* The decoded fields tile the payload from its first byte: each starts    *)
(* where the one before it ended, none reaches past the payload, and no    *)
(* byte belongs to two of them (Decoder.need and the advance of off).      *)
FieldsInside ==
  fields # <<>> =>
    /\ fields[1].at = 0
    /\ \A i \in 1 .. Len(fields) - 1 : fields[i].end = fields[i + 1].at
    /\ fields[Len(fields)].end = IF prefix = None THEN off ELSE off - 4
    /\ off <= Payload

-----------------------------------------------------------------------------
(* The sender's view: the bytes an Encoder emits for the fields it puts.   *)
EncodedSize(f) == IF f.kind \in Prefixed THEN 4 + f.word ELSE Width[f.kind]
LeastSize(kind) == IF kind \in Prefixed THEN 4 ELSE Width[kind]

\* The sum of a sequence of sizes, by recursion on how many of them are added.
Total(sizes) ==
  LET sum[k \in 0 .. Len(sizes)] == IF k = 0 THEN 0 ELSE sum[k - 1] + sizes[k]
  IN  sum[Len(sizes)]
EncodedTotal(s) == Total([i \in DOMAIN s |-> EncodedSize(s[i])])
LeastTotal(kinds) == Total([i \in DOMAIN kinds |-> LeastSize(kinds[i])])

\* The fields a complete request of the opcode carries, given the mask it carries.
Complete(op, s) ==
  LET kinds == [i \in DOMAIN s |-> s[i].kind]
      masked == IF op = "OpWriteKey" /\ Len(s) >= 2 THEN Masked(s[2].word) ELSE <<>>
  IN kinds = handlers[op] \o masked

(* A handler goes on with a request only when the payload holds all of its *)
(* encoding: a missing or truncated field is never replaced by a zero      *)
(* value, in particular a truncated BEGIN mode never selects a writable    *)
(* transaction (messages.go:417-421).                                      *)
TruncationRefused ==
  stage = "handle" => /\ Complete(msg.op, fields)
                      /\ EncodedTotal(fields) <= Payload

(* A request is refused as too short only when no request that starts with *)
(* the words read so far fits the payload: a complete message is never     *)
(* refused by the codec, one that ends exactly with its last field included. *)
CompleteNotRefused ==
  stage = "short" =>
    EncodedTotal(fields) + (IF prefix = None THEN 0 ELSE prefix) + LeastTotal(reads) > Payload

(* The codec refuses exactly the messages that do not hold their encoding. *)
RefusedExactly ==
  TruncationRefused /\ CompleteNotRefused
=============================================================================
