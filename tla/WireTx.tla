------------------------------- MODULE WireTx -------------------------------
(***************************************************************************)
(* Transactions and blocks on the wire (msgtx.go, msgblock.go): the        *)
(* witness marker, the two encodings, the sizes the code computes without  *)
(* encoding, and the script buffers that decoding borrows from a pool.     *)
(*                                                                         *)
(* A script is its length; an input is its script and the lengths of its   *)
(* witness items, or NoWitness for the nil slice.  The stream is a         *)
(* sequence of pieces: counts, which carry their number, and fields.       *)
(***************************************************************************)
EXTENDS Wire

NoWitness == <<-1>>

WitnessOf(in) == IF in.witness = NoWitness THEN << >> ELSE in.witness

HasWitness(tx) == \E i \in 1 .. Len(tx.ins) : WitnessOf(tx.ins[i]) # << >>

Raw(f, n) == << [f |-> f, bytes |-> n, val |-> -1] >>
Count(n) == << [f |-> "count", bytes |-> VarIntSerializeSize(n), val |-> n] >>
VarBytes(n) == Count(n) \o (IF n = 0 THEN << >> ELSE Raw("script", n))
Each(Op(_), s) == FlattenSeq([i \in 1 .. Len(s) |-> Op(s[i])])

writeTxIn(in) == Raw("outpoint", 36) \o VarBytes(in.script) \o Raw("sequence", 4)
WriteTxOut(out) == Raw("value", 8) \o VarBytes(out)

\* An input without a witness writes nothing.
SkipEmptyWitness(in) ==
    IF WitnessOf(in) = << >> THEN << >>
    ELSE Count(Len(WitnessOf(in))) \o Each(VarBytes, WitnessOf(in))

writeTxWitness(in) == Count(Len(WitnessOf(in))) \o Each(VarBytes, WitnessOf(in))

\* The marker is a count of zero inputs and a flag of one.
TxEncode(tx, enc) ==
    LET doWitness == enc = "witness" /\ HasWitness(tx)
    IN  Raw("version", 4)
        \o (IF doWitness THEN Count(0) \o Count(1) ELSE << >>)
        \o Count(Len(tx.ins)) \o Each(writeTxIn, tx.ins)
        \o Count(Len(tx.outs)) \o Each(WriteTxOut, tx.outs)
        \o (IF doWitness THEN Each(writeTxWitness, tx.ins) ELSE << >>)
        \o Raw("locktime", 4)

-----------------------------------------------------------------------------
(***************************************************************************)
(* Decoding.  held is how many pool buffers the half-built transaction     *)
(* keeps, lent how many were borrowed and returned how many were given     *)
(* back.  After an error the remaining steps do nothing.                   *)
(***************************************************************************)
maxTxInPerMessage == MaxMessagePayload \div 41 + 1
maxTxOutPerMessage == MaxMessagePayload \div 9 + 1
maxWitnessItemsPerInput == 500000
maxWitnessItemSize == 11000

Begin(s) == [left |-> s, err |-> FALSE, num |-> 0, ins |-> << >>, outs |-> << >>,
             held |-> 0, lent |-> 0, returned |-> 0]

\* Every error after the first buffer gives back what the transaction holds.
returnScriptBuffers(st) ==
    [st EXCEPT !.err = TRUE, !.returned = @ + st.held, !.held = 0]

ReadField(st, f) ==
    IF st.err THEN st
    ELSE IF st.left = << >> \/ Head(st.left).f # f THEN returnScriptBuffers(st)
    ELSE [st EXCEPT !.left = Tail(@)]

\* Where the stream has no count, the bytes of another field would be taken
\* for a number: the transaction is lost either way.
ReadCount(st, max) ==
    IF st.err THEN st
    ELSE IF st.left = << >> \/ Head(st.left).val \notin 0 .. max THEN returnScriptBuffers(st)
    ELSE [st EXCEPT !.num = Head(st.left).val, !.left = Tail(@)]

\* readScript borrows a buffer, and gives it back itself when bytes are missing.
readScript(st, max) ==
    LET got(c) == [c EXCEPT !.lent = @ + 1, !.held = @ + 1]
        bytes(c) ==
            IF c.err THEN c
            ELSE IF c.num = 0 THEN got(c)
            ELSE IF c.left = << >> \/ Head(c.left) # Raw("script", c.num)[1]
                 THEN returnScriptBuffers([c EXCEPT !.lent = @ + 1, !.returned = @ + 1])
                 ELSE [got(c) EXCEPT !.left = Tail(@)]
    IN  bytes(ReadCount(st, max))

Repeat(Op(_), st, n) == FoldLeft(LAMBDA s, i : Op(s), st, [i \in 1 .. n |-> i])

readTxIn(st) ==
    LET add(r) == IF r.err THEN r
                  ELSE [r EXCEPT !.ins = Append(@, [script |-> r.num, witness |-> NoWitness])]
    IN  add(ReadField(readScript(ReadField(st, "outpoint"), MaxMessagePayload), "sequence"))

readTxOut(st) ==
    LET add(s) == IF s.err THEN s ELSE [s EXCEPT !.outs = Append(@, s.num)]
    IN  add(readScript(ReadField(st, "value"), MaxMessagePayload))

readWitnessItem(at, st) ==
    LET add(s) == IF s.err THEN s ELSE [s EXCEPT !.ins[at].witness = Append(@, s.num)]
    IN  add(readScript(st, maxWitnessItemSize))

readTxWitness(st, at) ==
    LET item(s) == readWitnessItem(at, s)
        items(c) == IF c.err THEN c ELSE Repeat(item, [c EXCEPT !.ins[at].witness = << >>], c.num)
    IN  items(ReadCount(st, maxWitnessItemsPerInput))

\* No inputs means a witness transaction, when the encoding has them.
TxDecode(s, enc) ==
    LET flagged(flag) ==
            IF flag.err \/ flag.num # 1 THEN returnScriptBuffers(flag) ELSE ReadCount(flag, maxTxInPerMessage)
        ins(st) == IF st.err THEN st ELSE Repeat(readTxIn, st, st.num)
        outs(st) == IF st.err THEN st ELSE Repeat(readTxOut, st, st.num)
        body(st) == outs(ReadCount(ins(st), maxTxOutPerMessage))
        wits(st) == IF st.err THEN st ELSE FoldLeft(readTxWitness, st, [i \in 1 .. Len(st.ins) |-> i])
        rest(count) ==
            IF ~count.err /\ count.num = 0 /\ enc = "witness"
            THEN wits(body(flagged(ReadCount(count, 1)))) ELSE body(count)
        \* The scripts are copied to one buffer of their own and all given back.
        end(st) == IF st.err THEN st ELSE [st EXCEPT !.returned = @ + st.held, !.held = 0]
    IN  end(ReadField(rest(ReadCount(ReadField(Begin(s), "version"), maxTxInPerMessage)), "locktime"))

-----------------------------------------------------------------------------
(***************************************************************************)
(* The sizes and places that are computed without encoding.                *)
(***************************************************************************)
SumOver(Op(_), s) == FoldLeft(LAMBDA n, x : n + Op(x), 0, s)

ItemSize(n) == VarIntSerializeSize(n) + n
TxInSize(in) == 40 + ItemSize(in.script)
TxOutSize(out) == 8 + ItemSize(out)
WitnessSize(in) == VarIntSerializeSize(Len(WitnessOf(in))) + SumOver(ItemSize, WitnessOf(in))

baseSize(tx) ==
    8 + VarIntSerializeSize(Len(tx.ins)) + VarIntSerializeSize(Len(tx.outs))
      + SumOver(TxInSize, tx.ins) + SumOver(TxOutSize, tx.outs)

SerializeSizeStripped(tx) == baseSize(tx)

SerializeSize(tx) ==
    baseSize(tx) + (IF HasWitness(tx) THEN 2 + SumOver(WitnessSize, tx.ins) ELSE 0)

\* Where each output script starts in the serialized transaction: whether a
\* marker is there is asked of the first input.
PkScriptLocs(tx) ==
    LET first == 4 + VarIntSerializeSize(Len(tx.ins)) + VarIntSerializeSize(Len(tx.outs))
                 + (IF Len(tx.ins) > 0 /\ tx.ins[1].witness # NoWitness THEN 2 ELSE 0)
                 + SumOver(TxInSize, tx.ins)
    IN  [i \in 1 .. Len(tx.outs) |->
            first + SumOver(TxOutSize, SubSeq(tx.outs, 1, i - 1))
                  + 8 + VarIntSerializeSize(tx.outs[i])]

\* Copy keeps the nil of an absent witness and makes nil of an empty one.
CopyTx(tx) ==
    [tx EXCEPT !.ins = [i \in 1 .. Len(@) |->
        [@[i] EXCEPT !.witness = IF WitnessOf(tx.ins[i]) = << >> THEN NoWitness ELSE @]]]

-----------------------------------------------------------------------------
(***************************************************************************)
(* A block is its header, a count and its transactions.  DeserializeTxLoc  *)
(* also says where each transaction lies.                                  *)
(***************************************************************************)
BlockEncode(txs, enc) ==
    LET one(tx) == TxEncode(tx, enc)
    IN  Raw("header", BlockHeader) \o Count(Len(txs)) \o Each(one, txs)

BlockSerializeSize(txs) ==
    BlockHeader + VarIntSerializeSize(Len(txs)) + SumOver(SerializeSize, txs)

\* Blocks are stored with their witnesses.
DeserializeEncoding == "witness"

\* Each location is measured by what is left before and after its transaction.
DeserializeTxLoc(s) ==
    LET head == ReadCount(ReadField(Begin(s), "header"), maxTxPerBlock)
        add(st, start, d) ==
            IF st.err \/ d.err THEN [st EXCEPT !.err = TRUE]
            ELSE [st EXCEPT !.left = d.left, !.txs = Append(@, [ins |-> d.ins, outs |-> d.outs]),
                            !.locs = Append(@, <<start, Bytes(s) - Bytes(d.left) - start>>)]
        tx(st) == add(st, Bytes(s) - Bytes(st.left), TxDecode(st.left, DeserializeEncoding))
    IN  Repeat(tx, [left |-> head.left, err |-> head.err, txs |-> << >>, locs |-> << >>],
              IF head.err THEN 0 ELSE head.num)
=============================================================================
