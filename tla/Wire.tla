-------------------------------- MODULE Wire --------------------------------
(***************************************************************************)
(* The wire protocol of pkg/chain/wire: variable length integers, the      *)
(* layout of every message at every protocol version, and the framing of   *)
(* messages on a connection.                                               *)
(*                                                                         *)
(* A fixed field is its width in bytes and a list is the number of its     *)
(* elements; what the bytes of a field mean does not matter to framing.    *)
(* Every message is described twice, as BtcEncode writes it and as         *)
(* BtcDecode reads it, because the code states it twice.                   *)
(***************************************************************************)
EXTENDS Integers, Sequences, SequencesExt, FiniteSetsExt

MaxMessagePayload == 32 * 1024 * 1024
MaxBlockPayload == 4000000
MaxVarIntPayload == 9
HashSize == 32
MessageHeaderSize == 24

MultipleAddressVersion == 209
NetAddressTimeVersion == 31402
BIP0031Version == 60000
BIP0035Version == 60002
BIP0037Version == 70001
RejectVersion == 70002
SendHeadersVersion == 70012
FeeFilterVersion == 70013

-----------------------------------------------------------------------------
(***************************************************************************)
(* A variable length integer.  A value is its eight bytes, least           *)
(* significant first, so that the whole range of a uint64 is there.        *)
(***************************************************************************)

Zero(b, from) == \A i \in from .. 8 : b[i] = 0

WriteVarInt(b) ==
    CASE Zero(b, 2) /\ b[1] < 253 -> SubSeq(b, 1, 1)
      [] Zero(b, 3) /\ ~(Zero(b, 2) /\ b[1] < 253) -> <<253>> \o SubSeq(b, 1, 2)
      [] Zero(b, 5) /\ ~Zero(b, 3) -> <<254>> \o SubSeq(b, 1, 4)
      [] OTHER -> <<255>> \o b

Width(d) == CASE d = 255 -> 8 [] d = 254 -> 4 [] d = 253 -> 2 [] OTHER -> 0

\* The value a narrower encoding could have held makes an encoding invalid.
Canonical(d, b) ==
    CASE d = 255 -> ~Zero(b, 5)
      [] d = 254 -> ~Zero(b, 3)
      [] d = 253 -> ~(Zero(b, 2) /\ b[1] < 253)
      [] OTHER -> TRUE

Pad(s) == [i \in 1 .. 8 |-> IF i <= Len(s) THEN s[i] ELSE 0]

\* The value read from the start of a byte sequence, or an error.
ReadVarInt(s) ==
    LET w == Width(s[1])
        b == IF w = 0 THEN Pad(<<s[1]>>) ELSE Pad(SubSeq(s, 2, w + 1))
    IN  IF Len(s) < w + 1 THEN [err |-> "short"]
        ELSE IF ~Canonical(s[1], b) THEN [err |-> "not canonical"]
        ELSE [val |-> b, size |-> w + 1]

LittleEndian(n) == [i \in 1 .. 8 |-> IF i > 4 THEN 0 ELSE (n \div 256 ^ (i - 1)) % 256]

VarIntSerializeSize(n) == Len(WriteVarInt(LittleEndian(n)))

-----------------------------------------------------------------------------
(***************************************************************************)
(* Layouts.  Fix is a field of so many bytes, List a count followed by     *)
(* that many elements, at most max of them; OPTIONAL fields are read only  *)
(* while bytes are left.                                                   *)
(***************************************************************************)

Unlimited == MaxMessagePayload

Fix(f, n) == [f |-> f, kind |-> "fix", n |-> n, max |-> 0, opt |-> FALSE]
List(f, n, max) == [f |-> f, kind |-> "list", n |-> n, max |-> max, opt |-> FALSE]
Opt(item) == [item EXCEPT !.opt = TRUE]

\* encAt and decAt say at which protocol versions the message exists.
Msg(at, enc, dec, max) == [encAt |-> at, decAt |-> at, enc |-> enc, dec |-> dec, max |-> max]
Same(at, items, max) == Msg(at, items, items, max)

\* A network address: the time only in addr messages of new enough peers.
writeNetAddress(p, ts) ==
    (IF ts /\ p >= NetAddressTimeVersion THEN 4 ELSE 0) + 8 + 16 + 2

readNetAddress(p, ts) ==
    (IF ts /\ p >= NetAddressTimeVersion THEN 4 ELSE 0) + 8 + 16 + 2

maxNetAddressPayload(p) == 26 + (IF p >= NetAddressTimeVersion THEN 4 ELSE 0)

MaxUserAgentLen == 256

\* Everything after the first address is read only while bytes are left.
VersionRead(p) ==
    << Fix("version", 4), Fix("services", 8), Fix("time", 8),
       Fix("you", readNetAddress(p, FALSE)), Opt(Fix("me", readNetAddress(p, FALSE))),
       Opt(Fix("nonce", 8)), Opt(List("userAgent", 1, MaxUserAgentLen)),
       Opt(Fix("lastBlock", 4)), Opt(Fix("relay", 1)) >>

MsgVersion(p) ==
    Msg(TRUE,
        << Fix("version", 4), Fix("services", 8), Fix("time", 8),
           Fix("you", writeNetAddress(p, FALSE)), Fix("me", writeNetAddress(p, FALSE)),
           Fix("nonce", 8), List("userAgent", 1, MaxUserAgentLen), Fix("lastBlock", 4) >>
          \o (IF p >= BIP0037Version THEN << Fix("relay", 1) >> ELSE << >>),
        VersionRead(p),
        33 + maxNetAddressPayload(p) * 2 + MaxVarIntPayload + MaxUserAgentLen)

MaxAddrPerMsg == 1000

MsgAddr(p) ==
    Msg(TRUE,
        << List("addrs", writeNetAddress(p, TRUE),
                IF p < MultipleAddressVersion THEN 1 ELSE MaxAddrPerMsg) >>,
        << List("addrs", readNetAddress(p, TRUE), MaxAddrPerMsg) >>,
        MaxVarIntPayload + maxNetAddressPayload(p) *
            (IF p < MultipleAddressVersion THEN 1 ELSE MaxAddrPerMsg))

MaxBlockLocatorsPerMsg == 500

Locator ==
    << Fix("version", 4), List("locator", HashSize, MaxBlockLocatorsPerMsg),
       Fix("stop", HashSize) >>

MsgGetBlocks(p) ==
    Same(TRUE, Locator, 4 + MaxVarIntPayload + MaxBlockLocatorsPerMsg * HashSize + HashSize)

MsgGetHeaders(p) ==
    Same(TRUE, Locator, 4 + MaxVarIntPayload + MaxBlockLocatorsPerMsg * HashSize + HashSize)

MaxInvPerMsg == 50000
maxInvVectPayload == 4 + HashSize

MsgInv(p) ==
    Same(TRUE, << List("inv", 4 + HashSize, MaxInvPerMsg) >>,
         MaxVarIntPayload + MaxInvPerMsg * maxInvVectPayload)

MsgGetData(p) ==
    Same(TRUE, << List("inv", 4 + HashSize, MaxInvPerMsg) >>,
         MaxVarIntPayload + MaxInvPerMsg * maxInvVectPayload)

MsgNotFound(p) ==
    Same(TRUE, << List("inv", 4 + HashSize, MaxInvPerMsg) >>,
         MaxVarIntPayload + MaxInvPerMsg * maxInvVectPayload)

BlockHeader == 4 + HashSize + HashSize + 4 + 4 + 4
MaxBlockHeaderPayload == 16 + HashSize * 2
MaxBlockHeadersPerMsg == 2000

\* Every header is followed by a transaction count of zero, in one byte.
MsgHeaders(p) ==
    Same(TRUE, << List("headers", BlockHeader + 1, MaxBlockHeadersPerMsg) >>,
         MaxVarIntPayload + (MaxBlockHeaderPayload + 1) * MaxBlockHeadersPerMsg)

MsgPing(p) ==
    LET nonce == IF p > BIP0031Version THEN << Fix("nonce", 8) >> ELSE << >>
    IN  Same(TRUE, nonce, IF p > BIP0031Version THEN 8 ELSE 0)

MsgPong(p) ==
    Same(p > BIP0031Version, << Fix("nonce", 8) >>, IF p > BIP0031Version THEN 8 ELSE 0)

MsgMemPool(p) == Same(p >= BIP0035Version, << >>, 0)
MsgSendHeaders(p) == Same(p >= SendHeadersVersion, << >>, 0)
MsgFilterClear(p) == Same(p >= BIP0037Version, << >>, 0)
MsgVerAck(p) == Same(TRUE, << >>, 0)
MsgGetAddr(p) == Same(TRUE, << >>, 0)
MsgFeeFilter(p) == Same(p >= FeeFilterVersion, << Fix("minFee", 8) >>, 8)

MaxFilterAddDataSize == 520
MaxFilterLoadFilterSize == 36000

MsgFilterAdd(p) ==
    Same(p >= BIP0037Version, << List("data", 1, MaxFilterAddDataSize) >>,
         VarIntSerializeSize(MaxFilterAddDataSize) + MaxFilterAddDataSize)

MsgFilterLoad(p) ==
    Same(p >= BIP0037Version,
         << List("filter", 1, MaxFilterLoadFilterSize), Fix("hashFuncs", 4),
            Fix("tweak", 4), Fix("flags", 1) >>,
         VarIntSerializeSize(MaxFilterLoadFilterSize) + MaxFilterLoadFilterSize + 9)

maxTxPerBlock == MaxBlockPayload \div 10 + 1

MsgMerkleBlock(p) ==
    Same(p >= BIP0037Version,
         << Fix("header", BlockHeader), Fix("transactions", 4),
            List("hashes", HashSize, maxTxPerBlock), List("flags", 1, maxTxPerBlock \div 8) >>,
         MaxBlockPayload)

\* The hash follows only a refused block or transaction.
MsgReject(p, hashed) ==
    Same(p >= RejectVersion,
         << List("cmd", 1, Unlimited), Fix("code", 1), List("reason", 1, Unlimited) >>
           \o (IF hashed THEN << Fix("hash", HashSize) >> ELSE << >>),
         IF p >= RejectVersion THEN MaxMessagePayload ELSE 0)

MaxCFilterDataSize == 256 * 1024
MaxCFHeadersPerMsg == 2000
maxCFHeadersLen == 100000

MsgCFilter(p) ==
    Same(TRUE, << Fix("type", 1), Fix("block", HashSize), List("data", 1, MaxCFilterDataSize) >>,
         VarIntSerializeSize(MaxCFilterDataSize) + MaxCFilterDataSize + HashSize + 1)

MsgCFHeaders(p) ==
    Same(TRUE,
         << Fix("type", 1), Fix("stop", HashSize), Fix("prev", HashSize),
            List("hashes", HashSize, MaxCFHeadersPerMsg) >>,
         1 + HashSize + HashSize + MaxVarIntPayload + HashSize * MaxCFHeadersPerMsg)

\* Only the reader limits the number of headers.
MsgCFCheckpt(p) ==
    Msg(TRUE,
        << Fix("type", 1), Fix("stop", HashSize), List("headers", HashSize, Unlimited) >>,
        << Fix("type", 1), Fix("stop", HashSize), List("headers", HashSize, maxCFHeadersLen) >>,
        MaxMessagePayload)

MsgGetCFilters(p) ==
    Same(TRUE, << Fix("type", 1), Fix("start", 4), Fix("stop", HashSize) >>, 1 + 4 + HashSize)

MsgGetCFHeaders(p) ==
    Same(TRUE, << Fix("type", 1), Fix("start", 4), Fix("stop", HashSize) >>, 1 + 4 + HashSize)

MsgGetCFCheckpt(p) ==
    Same(TRUE, << Fix("type", 1), Fix("stop", HashSize) >>, 1 + HashSize)

\* An alert that was decoded is written again from its parts; the parts are
\* a message of their own inside the first list.
maxAlertSize == MaxMessagePayload - 72 - MaxVarIntPayload - 1
maxCountSetCancel == (maxAlertSize - 45 - MaxVarIntPayload + 1) \div 4
maxCountSetSubVer == (maxAlertSize - 45 - MaxVarIntPayload + 1) \div 256

Alert(p) ==
    Same(TRUE,
         << Fix("version", 4), Fix("relayUntil", 8), Fix("expiration", 8), Fix("id", 4),
            Fix("cancel", 4), List("setCancel", 4, maxCountSetCancel), Fix("minVer", 4),
            Fix("maxVer", 4), List("setSubVer", 1, maxCountSetSubVer), Fix("priority", 4),
            List("comment", 1, Unlimited), List("statusBar", 1, Unlimited),
            List("reserved", 1, Unlimited) >>,
         maxAlertSize)

MsgAlert(p) ==
    Same(TRUE, << List("payload", 1, Unlimited), List("signature", 1, Unlimited) >>,
         MaxMessagePayload)

\* makeEmptyMessage: every command a peer may name, with its layout.
Layouts(p) ==
    [ version |-> MsgVersion(p), verack |-> MsgVerAck(p), getaddr |-> MsgGetAddr(p),
      addr |-> MsgAddr(p), getblocks |-> MsgGetBlocks(p), inv |-> MsgInv(p),
      getdata |-> MsgGetData(p), notfound |-> MsgNotFound(p), ping |-> MsgPing(p),
      pong |-> MsgPong(p), getheaders |-> MsgGetHeaders(p), headers |-> MsgHeaders(p),
      alert |-> MsgAlert(p), mempool |-> MsgMemPool(p), filteradd |-> MsgFilterAdd(p),
      filterclear |-> MsgFilterClear(p), filterload |-> MsgFilterLoad(p),
      merkleblock |-> MsgMerkleBlock(p), reject |-> MsgReject(p, FALSE),
      rejectOfTx |-> MsgReject(p, TRUE), sendheaders |-> MsgSendHeaders(p),
      feefilter |-> MsgFeeFilter(p), getcfilters |-> MsgGetCFilters(p),
      getcfheaders |-> MsgGetCFHeaders(p), getcfcheckpt |-> MsgGetCFCheckpt(p),
      cfilter |-> MsgCFilter(p), cfheaders |-> MsgCFHeaders(p), cfcheckpt |-> MsgCFCheckpt(p),
      alertBody |-> Alert(p) ]

Commands == DOMAIN Layouts(0)

-----------------------------------------------------------------------------
(***************************************************************************)
(* Encoding and decoding by a layout.  A message gives every list of its   *)
(* command a number of elements; the stream is a sequence of pieces, each  *)
(* so many bytes, and a count is a piece that carries its number.          *)
(***************************************************************************)

Piece(item, count) ==
    IF item.kind = "fix" THEN << [bytes |-> item.n, val |-> -1] >>
    ELSE << [bytes |-> VarIntSerializeSize(count), val |-> count] >>
         \o (IF count = 0 THEN << >> ELSE << [bytes |-> count * item.n, val |-> -1] >>)

Bytes(pieces) == FoldLeft(LAMBDA n, x : n + x.bytes, 0, pieces)

BtcEncode(lay, m) ==
    IF ~lay.encAt \/ \E i \in 1 .. Len(lay.enc) :
           lay.enc[i].kind = "list" /\ m[lay.enc[i].f] > lay.enc[i].max
    THEN [err |-> "encode"]
    ELSE [out |-> FlattenSeq([i \in 1 .. Len(lay.enc) |->
             Piece(lay.enc[i], IF lay.enc[i].kind = "list" THEN m[lay.enc[i].f] ELSE 0)])]

\* One field is read from the front of what is left.
ReadItem(st, item) ==
    LET left == st.left
        body == [bytes |-> left[1].val * item.n, val |-> -1]
    IN  IF "err" \in DOMAIN st \/ (item.opt /\ left = << >>) THEN st
        ELSE IF left = << >> THEN [err |-> "short", left |-> left]
        ELSE IF item.kind = "fix"
             THEN IF left[1] = [bytes |-> item.n, val |-> -1]
                  THEN [left |-> Tail(left), got |-> st.got \cup {<<item.f, 0>>}]
                  ELSE [err |-> "misread", left |-> left]
             ELSE IF left[1].val < 0 THEN [err |-> "misread", left |-> left]
                  ELSE IF left[1].val > item.max THEN [err |-> "too many", left |-> left]
                  ELSE IF left[1].val = 0
                       THEN [left |-> Tail(left), got |-> st.got \cup {<<item.f, 0>>}]
                       ELSE IF Len(left) > 1 /\ left[2] = body
                            THEN [left |-> SubSeq(left, 3, Len(left)),
                                  got |-> st.got \cup {<<item.f, left[1].val>>}]
                            ELSE [err |-> "misread", left |-> left]

BtcDecode(lay, pieces) ==
    IF ~lay.decAt THEN [err |-> "decode", left |-> pieces]
    ELSE FoldLeft(ReadItem, [left |-> pieces, got |-> {}], lay.dec)

\* WriteMessage refuses what the maximum of the command does not allow.
WriteMessage(lay, m) ==
    LET e == BtcEncode(lay, m)
    IN  IF "err" \in DOMAIN e THEN e
        ELSE IF Bytes(e.out) > MaxMessagePayload \/ Bytes(e.out) > lay.max
             THEN [err |-> "too large"]
             ELSE e

ReadMessage(lay, pieces) ==
    IF Bytes(pieces) > MaxMessagePayload \/ Bytes(pieces) > lay.max
    THEN [err |-> "over maximum", left |-> pieces]
    ELSE BtcDecode(lay, pieces)

-----------------------------------------------------------------------------
(***************************************************************************)
(* A frame on the connection: a header that names the network, the command *)
(* and the length, and the payload.  ReadFrame is the order of the tests   *)
(* of ReadMessageWithEncodingN, and how many bytes each way out has taken. *)
(***************************************************************************)

\* The payload is thrown away in chunks of 10k and a rest.
discardInput(n) == (n \div 10240) * 10240 + (n % 10240)

ReadFrame(fr) ==
    LET result(r, n) == [result |-> r, taken |-> MessageHeaderSize + n]
    IN  IF fr.length > MaxMessagePayload THEN result("too large", 0)
        ELSE IF fr.net = "other" THEN result("other network", discardInput(fr.length))
        ELSE IF fr.command = "invalid" THEN result("invalid command", discardInput(fr.length))
        ELSE IF fr.command = "unknown" THEN result("unhandled", discardInput(fr.length))
        ELSE IF fr.length > fr.max THEN result("exceeds max", discardInput(fr.length))
        ELSE IF ~fr.checksum THEN result("checksum", fr.length)
        ELSE IF ~fr.decodes THEN result("decode", fr.length)
        ELSE result("message", fr.length)
=============================================================================
