------------------------------ MODULE MCCodec -------------------------------
(***************************************************************************)
(* Every call of the RPC client against every server, every command and    *)
(* notification through its encoding, and every message of the protocol,   *)
(* transactions and blocks through theirs.                                 *)
(***************************************************************************)
EXTENDS Wire, WireTx, RpcServers, RpcCalls

VARIABLES input, output

\* The values a caller may give to the fields marked "?".
Given(args) ==
    LET open == { i \in 1 .. Len(args) : args[i] = "?" }
    IN  { [i \in 1 .. Len(args) |-> IF i \notin open THEN args[i] ELSE IF i \in g THEN "v" ELSE "nil"] :
            g \in SUBSET open }

\* The arguments of a command line: all fields up to some one.
CommandLines(method) ==
    { [i \in 1 .. n |-> "v"] : n \in numReqParams(method) .. maxParams(method) }

Failures == 0 .. 12
Forms == {"number", "bool", "slice", "struct", "text"}
Numbers == -(2 ^ Wide) .. 2 ^ Wide

FormOf(t) == IF isNumeric(t) THEN "number" ELSE t.kind

SendCommand ==
    \E method \in DOMAIN methodToInfo : \E args \in CommandLines(method) :
        /\ input' = [part |-> "command", method |-> method, args |-> args]
        /\ output' = UnmarshalCmd(MarshalCmd(method, NewCmd(method, args).cmd))

SetField ==
    \E dest, src \in Kinds, n \in Numbers, form \in Forms :
        /\ src.kind = "string" \/ form = FormOf(src)
        /\ src.kind \in {"int", "uint"} => Fits(n, src)
        /\ input' = [part |-> "field", dest |-> dest, src |-> src, val |-> [num |-> n, form |-> form]]
        /\ output' = assignField(dest, src, [num |-> n, form |-> form])

Call ==
    \E call \in DOMAIN Calls : \E args \in Given(Calls[call][2]) :
        /\ input' = [part |-> "call", call |-> call, args |-> args]
        /\ output' = UnmarshalCmd(MarshalCmd(Calls[call][1], args))

Post ==
    \E call \in DOMAIN Calls \ WebsocketCalls : \E args \in Given(Calls[call][2]), admin \in BOOLEAN, fail \in Failures :
        /\ input' = [part |-> "answer", call |-> call, server |-> "node", admin |-> admin, fail |-> fail]
        /\ output' = JSONRPCRead(MarshalCmd(Calls[call][1], args), admin, fail)

OverWebsocket ==
    \E call \in DOMAIN Calls : \E args \in Given(Calls[call][2]), admin \in BOOLEAN, fail \in Failures :
        /\ input' = [part |-> "answer", call |-> call, server |-> "websocket", admin |-> admin, fail |-> fail]
        /\ output' = InHandler(MarshalCmd(Calls[call][1], args), admin, fail)

AskWallet ==
    \E call \in DOMAIN Calls : \E args \in Given(Calls[call][2]), client \in {"none", "rpc", "neutrino"}, fail \in Failures :
        /\ input' = [part |-> "answer", call |-> call, server |-> "wallet", admin |-> TRUE, fail |-> fail]
        /\ output' = LazyApplyHandler(MarshalCmd(Calls[call][1], args), TRUE, client, fail)

-----------------------------------------------------------------------------
(* A command written by MarshalCmd is read by UnmarshalCmd: the fields that
   were given arrive, the others hold the default of their tag or nil.  Every
   command was registered with its optional fields last. *)

CommandsRoundTrip ==
    input.part = "command" =>
        /\ RegisterCmd(input.method)
        /\ "cmd" \in DOMAIN output
        /\ \A i \in 1 .. maxParams(input.method) :
              LET field == methodToInfo[input.method][i]
              IN  output.cmd[i] = IF i <= Len(input.args) THEN input.args[i]
                                  ELSE IF field[1] = "default" THEN field[2] ELSE "nil"

(* assignField stores the value it is given or refuses it: an integer is never
   cut to the width or the sign of its field, and what is refused is only what
   the field's type cannot hold (a number of the other family, or text that
   does not spell such a value). *)

FieldsKeepTheirValue ==
    input.part = "field" =>
        IF "val" \in DOMAIN output
        THEN /\ output.val = input.val
             /\ input.dest.kind \in {"int", "uint"} => Fits(input.val.num, input.dest)
        ELSE \/ input.src.kind # "string" /\ input.dest.kind # input.src.kind
             \/ input.dest.kind \in {"int", "uint"} /\ ~Fits(input.val.num, input.dest)
             \/ input.src.kind = "string" /\ input.val.form # FormOf(input.dest)

\* Calls that give a field after one they leave nil.
LeaveGaps == {"SearchRawTransactionsAsync", "SearchRawTransactionsVerboseAsync", "ListSinceBlockMinConfAsync"}

(* What a caller gives to a function of the client is what the server's
   handler sees, in the same field, whatever the caller leaves out. *)

Arrives ==
    input.part = "call" =>
        /\ "cmd" \in DOMAIN output
        /\ \A i \in 1 .. Len(input.args) : input.args[i] # "nil" => output.cmd[i] = input.args[i]

ClientArgumentsArrive ==
    (input.part = "call" /\ input.call \notin LeaveGaps) => Arrives

Command == Calls[input.call][1]
Succeeds == "kinds" \in DOMAIN output

\* Commands the client sends and neither server has.
NotServed ==
    { "debuglevel", "addwitnessaddress", "importaddress", "importpubkey", "exportwatchingwallet",
      "createencryptedwallet", "getmempoolentry", "invalidateblock", "move", "setaccount" }

(* The wallet with a node behind it answers every command the client sends,
   except the ones listed: none is refused for being unknown, unimplemented or
   another server's. *)

ClientCommandsAreServed ==
    (input.part = "answer" /\ input.server = "wallet" /\ input.fail = 0
        /\ Command \notin NotServed /\ output # [err |-> "ChainInactive"]) => Succeeds

(* An answer that is not an error is of the kind the future's Receive decodes,
   or null, whichever server gave it and whatever the caller left out. *)

ClientUnderstandsResults ==
    (input.part = "answer" /\ Succeeds) =>
        \/ Calls[input.call][3] = "nothing"
        \/ output.kinds \subseteq {Calls[input.call][3], "null"}

\* What has no entry in the table of results, so that its help fails.
NoHelp == {"getwork"}

(* The help of a command the node handles names every kind of value that the
   handler answers with. *)

HelpIsComplete ==
    (input.part = "answer" /\ input.server # "wallet" /\ Succeeds /\ Command \notin NoHelp) =>
        LET h == RPCMethodHelp(Command)
        IN  "help" \in DOMAIN h /\ output.kinds \subseteq h.help \cup {"null"}

\* Notifications no parser of the client accepts as they are registered.
NotUnderstood == {"walletlockstate", "newtx"}

(* The parameters of a notification, with or without its optional ones, are as
   many as its parser in the client insists on. *)

NotificationsAreUnderstood ==
    (input.part = "command" /\ input.method \in DOMAIN (BlockNtfns @@ MempoolNtfns @@ WalletNtfns) \ NotUnderstood) =>
        /\ input.method \in DOMAIN handleNotification
        /\ Len(input.args) \in handleNotification[input.method]

-----------------------------------------------------------------------------
codecVars == <<input, output>>

Versions == {0, 208, 209, 31401, 31402, 60000, 60001, 60002, 70000, 70001, 70002, 70011, 70012, 70013}

\* One list at a time goes through its limits; the others are short.
Contents(cmd) ==
    LET counts(x) == {0, 1, 2, 252, 253} \cup (IF x.max = Unlimited THEN {65536} ELSE {x.max, x.max + 1})
        of(lists) ==
            IF lists = {} THEN { [f \in {} |-> 0] }
            ELSE UNION { { [f \in { y.f : y \in lists } |-> IF f = x.f THEN n ELSE base] : n \in counts(x), base \in 0 .. 1 } :
                            x \in lists }
        listsOf(lay) == { x \in ToSet(lay.enc) \cup ToSet(lay.dec) : x.kind = "list" }
    IN  of(listsOf(Layouts(70013)[cmd]))

VarIntInputs ==
    { [i \in 1 .. 8 |-> IF i = x[1] THEN x[2] ELSE IF i = y[1] THEN y[2] ELSE 0] :
        x, y \in (1 .. 8) \X {1, 252, 253, 255} } \cup { [i \in 1 .. 8 |-> 0] }

VarIntStreams ==
    { <<d>> \o b : d \in {0, 1, 252, 253, 254, 255}, b \in VarIntInputs }

Frames ==
    [ part : {"frame"}, net : {"ours", "other"}, command : {"invalid", "unknown", "known"},
      length : {0, 1, 10239, 10240, 10241, 20481, MaxMessagePayload, MaxMessagePayload + 1},
      max : {0, 10240, MaxMessagePayload}, checksum : BOOLEAN, decodes : BOOLEAN ]

ScriptSizes == {0, 1, 253}
WitnessSizes == {NoWitness, << >>, <<0>>, <<1, 253>>, <<11000>>, <<11001>>}
Ins == [script : ScriptSizes, witness : WitnessSizes]
FewIns == [script : {0, 253}, witness : {NoWitness, << >>, <<1, 0>>}]
Txs == [ins : {<< >>} \cup { <<i>> : i \in Ins } \cup (FewIns \X FewIns),
        outs : {<< >>, <<0>>, <<1, 253>>}]

BlockTxs == [ins : { <<i>> : i \in FewIns }, outs : { <<1>> }]

CodecInit == input = [part |-> "none"] /\ output = 0

EncodeVarInt ==
    \E b \in VarIntInputs :
        /\ input' = [part |-> "varint", val |-> b]
        /\ output' = ReadVarInt(WriteVarInt(b))

DecodeVarInt ==
    \E s \in VarIntStreams :
        /\ input' = [part |-> "stream", bytes |-> s]
        /\ output' = ReadVarInt(s)

SendMessage ==
    \E cmd \in Commands, p \in Versions : \E m \in Contents(cmd) :
        /\ input' = [part |-> "message", cmd |-> cmd, pver |-> p, msg |-> m]
        /\ output' = WriteMessage(Layouts(p)[cmd], m)

Receive ==
    \E fr \in Frames : input' = fr /\ output' = ReadFrame(fr)

SendTx ==
    \E tx \in Txs, enc \in {"base", "witness"} :
        /\ input' = [part |-> "tx", tx |-> tx, enc |-> enc]
        /\ output' = TxEncode(tx, enc)

SendBlock ==
    \E txs \in UNION { [1 .. n -> BlockTxs] : n \in 0 .. 2 } :
        /\ input' = [part |-> "block", txs |-> txs]
        /\ output' = BlockEncode(txs, "witness")

CodecNext ==
    /\ input.part = "none"
    /\ \/ EncodeVarInt
       \/ DecodeVarInt
       \/ SendMessage
       \/ Receive
       \/ SendTx
       \/ SendBlock
       \/ SendCommand
       \/ SetField
       \/ Call
       \/ Post
       \/ OverWebsocket
       \/ AskWallet

-----------------------------------------------------------------------------
IsMessage == input.part = "message"
Sent == ~("err" \in DOMAIN output)

(* WriteVarInt and ReadVarInt are inverse: a value is read back whole, and
   bytes that are accepted are the ones the value is written as, so no value
   has two encodings (a hash of the bytes is a hash of the message). *)

VarIntsAreCanonical ==
    /\ input.part = "varint" => output.val = input.val /\ output.size = Len(WriteVarInt(input.val))
    /\ (input.part = "stream" /\ Sent) =>
          WriteVarInt(output.val) = SubSeq(input.bytes, 1, output.size)

(* What WriteMessage lets through at a protocol version, ReadMessage at the
   same version accepts, and it reads the same lists to the last byte. *)

Readable(cmd) == cmd # "cfcheckpt" \/ input.msg.headers <= maxCFHeadersLen

MessagesRoundTrip ==
    (IsMessage /\ Sent /\ Readable(input.cmd)) =>
        LET r == ReadMessage(Layouts(input.pver)[input.cmd], output.out)
        IN  /\ ~("err" \in DOMAIN r)
            /\ r.left = << >>
            /\ \A f \in DOMAIN input.msg : <<f, input.msg[f]>> \in r.got

(* The limits on list lengths and MaxPayloadLength agree: a message within
   its limits is never refused for its size, except the ones bounded only by
   the size of a block. *)

BoundedByBlock == {"merkleblock"}

LimitsFitTheMaximum ==
    (IsMessage /\ input.cmd \notin BoundedByBlock) =>
        LET e == BtcEncode(Layouts(input.pver)[input.cmd], input.msg)
        IN  ~("err" \in DOMAIN e) => Sent

(* A version message is written before the peers agree on a version: whatever
   each side speaks, the other reads it. *)

VersionsUnderstandEachOther ==
    (IsMessage /\ Sent /\ input.cmd = "version") =>
        \A p \in Versions :
            LET r == ReadMessage(Layouts(p)["version"], output.out)
            IN  ~("err" \in DOMAIN r) /\ r.left = << >>

(* After a frame that was refused, other than one whose length no message may
   have, the reader stands at the next frame. *)

RefusedFramesAreSkipped ==
    (input.part = "frame" /\ output.result # "too large") =>
        output.taken = MessageHeaderSize + input.length

Known(tx, enc) ==
    [ins |-> [i \in 1 .. Len(tx.ins) |->
                [script |-> tx.ins[i].script,
                 witness |-> IF enc = "base" \/ ~HasWitness(tx) THEN NoWitness
                             ELSE WitnessOf(tx.ins[i])]],
     outs |-> tx.outs]

Acceptable(tx) ==
    \A i \in 1 .. Len(tx.ins) : \A j \in 1 .. Len(WitnessOf(tx.ins[i])) :
        WitnessOf(tx.ins[i])[j] <= maxWitnessItemSize

(* A transaction with inputs is read back as it was written: its witness in
   the witness encoding and without it in the base encoding. *)

TxRoundTrip ==
    (input.part = "tx" /\ input.tx.ins # << >> /\ (input.enc = "base" \/ Acceptable(input.tx))) =>
        \A d \in {TxDecode(output, input.enc)} :
            /\ ~d.err /\ d.left = << >>
            /\ [ins |-> d.ins, outs |-> d.outs] = Known(input.tx, input.enc)

(* However a transaction is cut short, every buffer that decoding borrowed
   goes back to the pool exactly once. *)

BuffersComeBack ==
    input.part = "tx" =>
        \A n \in 0 .. Len(output) :
            \A d \in {TxDecode(SubSeq(output, 1, n), input.enc)} : d.lent = d.returned /\ d.held = 0

(* The sizes computed without encoding are the sizes of the encodings, and
   the offsets of output scripts are right when the first input speaks for
   the transaction. *)

SizesAreExact ==
    input.part = "tx" =>
        /\ Bytes(output) = IF input.enc = "base" THEN SerializeSizeStripped(input.tx)
                           ELSE SerializeSize(input.tx)
        /\ SerializeSize(CopyTx(input.tx)) = SerializeSize(input.tx)

(* Deserializing a block with locations gives the transactions and, for each,
   the bytes it takes: cut there, the serialized block yields it again. *)

TxLocsAreExact ==
    input.part = "block" =>
        \A d \in {DeserializeTxLoc(output)} :
            /\ ~d.err /\ Bytes(output) = BlockSerializeSize(input.txs)
            /\ d.txs = [i \in 1 .. Len(input.txs) |-> Known(input.txs[i], "witness")]
            /\ \A i \in 1 .. Len(d.locs) :
                 /\ d.locs[i][2] = SerializeSize(input.txs[i])
                 /\ i > 1 => d.locs[i][1] = d.locs[i - 1][1] + d.locs[i - 1][2]
                 /\ i = Len(d.locs) => d.locs[i][1] + d.locs[i][2] = Bytes(output)

\* The byte at which the script of output k starts in what is written.
ScriptStart(tx, k) ==
    LET before(s, i) == Len(SelectSeq(SubSeq(s, 1, i), LAMBDA x : x.f = "value"))
        start(s) == Bytes(SubSeq(s, 1, 1 + CHOOSE i \in 1 .. Len(s) : s[i].f = "value" /\ before(s, i) = k))
    IN  start(TxEncode(tx, "witness"))

(* PkScriptLocs "returns a slice containing the start of each public key   *)
(* script": it does when the first input has a witness or none has one.  A *)
(* transaction with one further on gets offsets that are two short.        *)
PkScriptLocsAreStarts ==
    (input.part = "tx" /\ (HasWitness(input.tx) <=> Len(input.tx.ins) > 0 /\ input.tx.ins[1].witness # NoWitness)) =>
        \A k \in 1 .. Len(input.tx.outs) : PkScriptLocs(input.tx)[k] = ScriptStart(input.tx, k)

(* What is written in the protocol's encoding is read back: integers,      *)
(* messages in both versions, transactions, blocks, and what follows a     *)
(* frame that was refused.                                                 *)
WireAgrees ==
    /\ VarIntsAreCanonical /\ MessagesRoundTrip /\ LimitsFitTheMaximum
    /\ VersionsUnderstandEachOther /\ RefusedFramesAreSkipped
    /\ TxRoundTrip /\ BuffersComeBack /\ SizesAreExact /\ TxLocsAreExact
    /\ PkScriptLocsAreStarts

(* The RPC client and the servers mean the same by a command, its fields,  *)
(* its result and a notification.                                          *)
RpcAgrees ==
    /\ CommandsRoundTrip /\ FieldsKeepTheirValue /\ ClientArgumentsArrive
    /\ ClientCommandsAreServed /\ ClientUnderstandsResults
    /\ HelpIsComplete /\ NotificationsAreUnderstood

=============================================================================
