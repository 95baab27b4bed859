---------------------------- MODULE MCEncodings -----------------------------
(***************************************************************************)
(* What is computed from its input alone: the encodings of messages and    *)
(* commands (MCCodec) and the scripts: scripts run under two sets of flags *)
(* at once, outputs signed for by one signer after another, and signature  *)
(* hashes of transactions that differ in one part.  In a behaviour either  *)
(* the encodings go on or the scripts; the other rests.                    *)
(***************************************************************************)
EXTENDS MCCodec, ScriptEngine

VARIABLES
    spend,      \* what is run: the scripts, the spend and the items pushed
    strict,     \* the engine with more flags
    lax,        \* the engine with fewer
    signing,    \* the output signed for, who has signed, and the script
    hashed      \* a hash type, the spend signed and the part that differs

scriptVars == <<spend, strict, lax, signing, hashed>>

-----------------------------------------------------------------------------
Consensus == {"Bip16", "Witness", "DERSignatures", "CheckLockTimeVerify", "CheckSequenceVerify", "StrictMultiSig"}

Standard ==
    Consensus \cup {"DiscourageUpgradableNops", "CleanStack", "LowS", "MinimalData", "NullFail", "SigPushOnly",
                    "StrictEncoding", "DiscourageUpgradeableWitnessProgram", "MinimalIf", "WitnessPubKeyType"}

FlagPairs == {<<Standard, Consensus>>, <<Consensus, {"Bip16"}>>, <<{"Bip16"}, {}>>}

PlainTx == [lock |-> 5, seq |-> 6, version |-> 2, witness |-> << >>]
WithWitness(w) == [PlainTx EXCEPT !.witness = w]
Case(s, p, t) == [sig |-> s, pk |-> p, tx |-> t, pushed |-> << >>]
Pushing(items, p) == [sig |-> [i \in 1 .. Len(items) |-> addData(items[i])], pk |-> p, tx |-> PlainTx, pushed |-> items]

K1 == Key(1, 0)
K2 == Key(2, 0)
S(k) == Sig(k, 0, 0, 1)
WS(k) == Sig(k, 0, 100, 1)

\* The scripts that are carried by others, by number.
MCParsedScripts ==
    <<<<N(1)>>,
      payToPubKeyHashScript(Hash160(K1)),
      MultiSigScript(<<K1, K2>>, 1),
      MultiSigScript(<<K1, K2, Key(3, 0)>>, 2),
      payToWitnessPubKeyHashScript(Hash160(K1)),
      payToWitnessScriptHashScript(Sha256(Serialized(3))),
      <<Op("OP_IF"), N(1), Op("OP_ELSE"), Op("OP_0"), Op("OP_ENDIF")>>,
      <<Op("OP_NOTIF"), N(1), Op("OP_ENDIF")>>,
      <<Data(K1), Op("OP_CODESEPARATOR"), Op("OP_CHECKSIG")>>,
      <<N(1), Data(Hash160(K1))>>,
      payToWitnessScriptHashScript(Sha256(<< >>)),
      payToPubKeyScript(Key(1, 1))>>

P2SH(i) == payToScriptHashScript(Hash160(Serialized(i)))
P2WSH(i) == payToWitnessScriptHashScript(Sha256(Serialized(i)))
Ser(i) == Data(Serialized(i))

-----------------------------------------------------------------------------
SeqsUpTo(set, n) == UNION {[1 .. k -> set] : k \in 0 .. n}

FlowOps == {N(1), Op("OP_0"), Op("OP_IF"), Op("OP_NOTIF"), Op("OP_ELSE"), Op("OP_ENDIF"), Op("OP_VERIFY")}
FlowCases == {Case(s, p, PlainTx) : s \in {<< >>, <<N(1)>>}, p \in SeqsUpTo(FlowOps, 4)}

Six == [i \in 1 .. 6 |-> N(i)]

OpNames ==
    StackNames \cup UnaryNames \cup BinaryNames \cup HashNames \cup NopNames
    \cup {"OP_NUMEQUALVERIFY", "OP_EQUAL", "OP_EQUALVERIFY", "OP_WITHIN", "OP_RETURN", "OP_CODESEPARATOR",
          "OP_RESERVED", "OP_VER", "OP_CAT", "OP_VERIF", "OP_1NEGATE"}

StackCases ==
    {Case(s, <<Op(a)>> \o b, PlainTx) :
        s \in {<<N(1)>>, Six, <<N(1), N(2)>>}, a \in OpNames, b \in {<<Op(n)>> : n \in OpNames} \cup {<< >>}}

HiddenCases == {Case(<<Op("OP_0")>>, <<Op("OP_IF"), Op(a), Op("OP_ENDIF"), N(1)>>, PlainTx) : a \in OpNames}

ByteValues == {0, 1, 16, 17, 127, 128, 129, 255}
Items == SeqsUpTo(ByteValues, 2) \cup {<<0, 1, b>> : b \in ByteValues}

NumberCases ==
    {Pushing(<<x>>, <<Op(a)>>) : x \in Items, a \in UnaryNames \cup {"OP_SIZE", "OP_IFDUP"}}
    \cup {Pushing(<<x, y>>, <<Op(a)>>) :
            x, y \in SeqsUpTo({0, 1, 127, 128, 255}, 2), a \in {"OP_ADD", "OP_MIN", "OP_LESSTHAN"}}
    \cup {Case(<<AddInt64(n)>>, <<AddInt64(n), Op("OP_NUMEQUAL")>>, PlainTx) : n \in -20 .. 20}
    \cup {Case(<< >>, <<[name |-> "OP_PUSHDATA1", data |-> <<7, 7>>], Op("OP_DROP"), N(1)>>, PlainTx),
          Case(<< >>, <<[name |-> "OP_PUSHDATA2", data |-> TooBig]>>, PlainTx)}

LockCases ==
    {Case(<<AddInt64(n)>>, <<Op(a)>>, [lock |-> l, seq |-> s, version |-> v, witness |-> << >>]) :
        n \in {-1, 0, 4, 5, 6, 12, 20, 36, 70}, a \in {"OP_CHECKLOCKTIMEVERIFY", "OP_CHECKSEQUENCEVERIFY"},
        l \in {0, 5, 12, 20}, s \in {0, 5, 20, 70, MaxTxInSequenceNum}, v \in {1, 2}}

Sigs == {<< >>, <<1>>, <<7, 1>>} \cup {Sig(k, f, p, 1) : k \in {1, 2}, f \in 0 .. 3, p \in {0, 2}} \cup {Sig(1, 0, 0, 0)}
PubKeys == {<< >>, <<2, 3>>} \cup {Key(1, f) : f \in 0 .. 3}

SigCases ==
    {Case(<<addData(s)>>, <<Data(k)>> \o p, PlainTx) :
        s \in Sigs, k \in PubKeys \ {<< >>},
        p \in {<<Op("OP_CHECKSIG")>>, <<Op("OP_CHECKSIG"), Op("OP_NOT")>>, <<Op("OP_CODESEPARATOR"), Op("OP_CHECKSIG")>>,
               <<Op("OP_CHECKSIGVERIFY"), N(1)>>}}

MultiSigs == {<< >>, <<1>>, S(1), S(2), S(3), Sig(2, 1, 0, 1), Sig(1, 2, 0, 1), Sig(2, 3, 0, 1)}

MultiSigCases ==
    {Case(<<d, addData(a), addData(b)>>, MultiSigScript(<<K1, K2, k>>, 2) \o p, PlainTx) :
        d \in {Op("OP_0"), N(1)}, a, b \in MultiSigs, k \in {Key(3, 0), Key(3, 2), Key(3, 3)},
        p \in {<< >>, <<Op("OP_NOT")>>}}
    \cup {Case(<<Op("OP_0"), addData(S(1))>>, <<N(1), Data(K1), N(1)>> \o p, PlainTx) :
            p \in {<<Op("OP_CHECKMULTISIG")>>, <<Op("OP_CHECKMULTISIGVERIFY"), N(1)>>,
                   <<Op("OP_NOP"), Op("OP_CHECKMULTISIG")>>}}

CarriedCases ==
    {Case(s \o <<Ser(i)>>, P2SH(j), PlainTx) :
        s \in {<< >>, <<N(1)>>, <<Op("OP_0")>>, <<Op("OP_NOP")>>, <<addData(S(1)), addData(K1)>>,
               <<Op("OP_0"), addData(S(2))>>, <<Op("OP_0"), addData(S(1)), addData(S(2))>>},
        i, j \in DOMAIN MCParsedScripts}
    \cup {Case(<< >>, P2SH(1), PlainTx), Case(<<Op("OP_0")>>, payToScriptHashScript(Hash160(<< >>)), PlainTx),
          Case(<<Data(TooBig)>>, P2SH(1), PlainTx)}

WitnessStacks ==
    {<< >>, <<WS(1), K1>>, <<WS(1), Key(1, 1)>>, <<S(1), K1>>, <<WS(1), K1, <<1>>>>, <<<< >>>>}
    \cup {w \o <<Serialized(i)>> : w \in {<< >>, <<<< >>, WS(1)>>, <<<<1>>>>, <<<<2>>>>, <<<< >>>>, <<TooBig>>, <<Sig(1, 0, 102, 1)>>},
                                  i \in {1, 3, 7, 8, 9, 12}}

WitnessCases ==
    {Case(<< >>, p, WithWitness(w)) :
        p \in {P2WSH(3), P2WSH(7), P2WSH(8), P2WSH(9), P2WSH(1), payToWitnessPubKeyHashScript(Hash160(K1)),
               payToWitnessPubKeyHashScript(Hash160(Key(1, 1))), <<N(1), Data(Hash160(K1))>>, MCParsedScripts[11],
               <<Op("OP_0"), Data(<<1, 2, 3>>)>>, <<N(1)>>}, w \in WitnessStacks}
    \cup {Case(s, P2SH(i), WithWitness(w)) :
            s \in {<<Ser(5)>>, <<Ser(6)>>, <<Ser(10)>>, <<N(1), Ser(6)>>, <<Ser(2)>>}, i \in {2, 5, 6, 10}, w \in WitnessStacks}
    \cup {Case(<<N(1)>>, P2WSH(3), PlainTx)}

Cases == FlowCases \cup StackCases \cup HiddenCases \cup NumberCases \cup LockCases \cup SigCases
         \cup MultiSigCases \cup CarriedCases \cup WitnessCases
-----------------------------------------------------------------------------
Idle == [NewEngine(<< >>, << >>, PlainTx, {}) EXCEPT !.res = "idle"]
NotSigning == [pk |-> << >>, by |-> {}, script |-> << >>]
NotHashed == [type |-> 0, idx |-> 1, outs |-> 0, part |-> "none"]
Fresh == strict.res = "idle" /\ signing = NotSigning /\ hashed = NotHashed

ScriptInit == /\ spend = Case(<< >>, << >>, PlainTx)
        /\ strict = Idle /\ lax = Idle
        /\ signing = NotSigning
        /\ hashed = NotHashed

Running == strict.res = "run" \/ lax.res = "run"
Continued(vm) == IF vm.res = "run" THEN Step(vm) ELSE vm

BeginScript ==
    /\ Fresh
    /\ \E c \in Cases, f \in FlagPairs :
        /\ spend' = c
        /\ strict' = NewEngine(c.sig, c.pk, c.tx, f[1])
        /\ lax' = NewEngine(c.sig, c.pk, c.tx, f[2])
    /\ UNCHANGED <<signing, hashed>>

Execute ==
    /\ Running
    /\ \E after \in {[vm \in {strict, lax} |-> Continued(vm)]} : strict' = after[strict] /\ lax' = after[lax]
    /\ UNCHANGED <<spend, signing, hashed>>

SignedOutputs ==
    {MultiSigScript(<<K1, K2, Key(3, 0)>>, m) : m \in 1 .. 3} \cup {MultiSigScript(<<K2, K1, K2>>, 2)}
    \cup {P2SH(2), P2SH(3), P2SH(4), P2SH(12), payToPubKeyHashScript(Hash160(K1)), payToPubKeyScript(K1)}

SignNext ==
    /\ strict.res = "idle" /\ hashed = NotHashed
    /\ \E pk \in IF signing = NotSigning THEN SignedOutputs ELSE {signing.pk},
          ks \in SUBSET {1, 2, 3}, hashType \in {1, 131} :
        LET kdb == {Key(k, f) : k \in ks, f \in {0, 1}}
            sdb == DOMAIN MCParsedScripts
        IN  /\ Cardinality(signing.by) < 2 /\ <<ks, hashType>> \notin signing.by
            /\ \E script \in {SignTxOutput(pk, kdb, sdb, hashType, signing.script)} \ {<< >>} :
                    signing' = [pk |-> pk, by |-> signing.by \cup {<<ks, hashType>>}, script |-> script]
    /\ UNCHANGED <<spend, strict, lax, hashed>>

\* A transaction with two inputs, and what it is when a part of it differs.
TxOf(outs) == [version |-> 1, lock |-> 0, ins |-> <<[out |-> 1, seq |-> 11], [out |-> 2, seq |-> 12]>>,
             outs |-> [i \in 1 .. outs |-> 20 + i]]

TxParts == {"version", "lock", "out1", "out2", "seq1", "seq2", "output1", "output2", "more_outputs", "more_inputs"}

Changed(tx, part) ==
    CASE part = "version" -> [tx EXCEPT !.version = 9]
      [] part = "lock" -> [tx EXCEPT !.lock = 9]
      [] part = "out1" -> [tx EXCEPT !.ins[1].out = 9]
      [] part = "out2" -> [tx EXCEPT !.ins[2].out = 9]
      [] part = "seq1" -> [tx EXCEPT !.ins[1].seq = 9]
      [] part = "seq2" -> [tx EXCEPT !.ins[2].seq = 9]
      [] part = "output1" /\ Len(tx.outs) >= 1 -> [tx EXCEPT !.outs[1] = 9]
      [] part = "output2" /\ Len(tx.outs) >= 2 -> [tx EXCEPT !.outs[2] = 9]
      [] part = "more_outputs" -> [tx EXCEPT !.outs = Append(@, 9)]
      [] part = "more_inputs" -> [tx EXCEPT !.ins = Append(@, [out |-> 9, seq |-> 9])]
      [] OTHER -> tx

Hash ==
    /\ Fresh
    /\ \E t \in {1, 2, 3, 129, 130, 131}, i \in {1, 2}, n \in 0 .. 2, p \in TxParts :
        hashed' = [type |-> t, idx |-> i, outs |-> n, part |-> p]
    /\ UNCHANGED <<spend, strict, lax, signing>>

ScriptNext == BeginScript \/ Execute \/ SignNext \/ Hash

-----------------------------------------------------------------------------
\* An engine that runs points at an opcode: the check of the position at the
\* start of Step never fails a script, so Step would index past its end.
PositionIsValid ==
    \A vm \in {strict, lax} : vm.res = "run" => vm.idx \in DOMAIN vm.scripts /\ vm.off \in DOMAIN vm.scripts[vm.idx]

\* A branch is taken only when every conditional around it is: isBranchExecuting
\* looks at the innermost one alone.
BranchesNest ==
    \A vm \in {strict, lax} :
        isBranchExecuting(vm) => \A i \in 1 .. Len(vm.cond) : vm.cond[i] = "true"

\* Every flag is a soft fork: what the engine accepts with more flags it
\* accepts with fewer.
FlagsOnlyRestrict == (strict.res = "ok" /\ lax.res # "run") => lax.res = "ok"

\* The items that go in, by their place under the top, and what comes out.
Documented ==
    [OP_2DROP |-> <<2, << >>>>, OP_2DUP |-> <<2, <<1, 2, 1, 2>>>>, OP_3DUP |-> <<3, <<1, 2, 3, 1, 2, 3>>>>,
     OP_2OVER |-> <<4, <<1, 2, 3, 4, 1, 2>>>>, OP_2ROT |-> <<6, <<3, 4, 5, 6, 1, 2>>>>,
     OP_2SWAP |-> <<4, <<3, 4, 1, 2>>>>, OP_DROP |-> <<1, << >>>>, OP_DUP |-> <<1, <<1, 1>>>>,
     OP_NIP |-> <<2, <<2>>>>, OP_OVER |-> <<2, <<1, 2, 1>>>>, OP_ROT |-> <<3, <<2, 3, 1>>>>,
     OP_SWAP |-> <<2, <<2, 1>>>>, OP_TUCK |-> <<2, <<2, 1, 2>>>>]

\* The operations on the stack, which are loops over one operation, leave
\* the items the comments of opcode.go draw.
StackOpsAsDrawn ==
    [][LET op == lax.scripts[lax.idx][lax.off]
           doc == Documented[op.name]
           n == Len(lax.ds)
       IN  (lax.res = "run" /\ lax'.res = "run" /\ isBranchExecuting(lax) /\ op.name \in DOMAIN Documented
            /\ lax'.idx = lax.idx)
           => lax'.ds = SubSeq(lax.ds, 1, n - doc[1]) \o [i \in 1 .. Len(doc[2]) |-> lax.ds[n - doc[1] + doc[2][i]]]]_scriptVars

\* The single pass of OP_CHECKMULTISIG over the keys finds the signatures
\* valid exactly when the keys, in their order, can be given to them.
MultiSigIsMatching ==
    [][LET op == lax.scripts[lax.idx][lax.off]
           n == PopInt(lax, 0).val
           m == PopInt(lax, n + 1).val
           key(i) == PeekByteArray(lax.ds, i)
           sig(i) == PeekByteArray(lax.ds, n + 1 + i)
           valid(i, j) == ParseSignature(sig(i)) /\ ParsePubKey(key(j)) /\ Verify(lax, sig(i), key(j))
           matching == \E f \in [1 .. m -> 1 .. n] :
                            /\ \A i \in 1 .. m : valid(i, f[i])
                            /\ \A i, j \in 1 .. m : i < j => f[i] < f[j]
       IN  (lax.res = "run" /\ lax'.res # "failed" /\ op.name = "OP_CHECKMULTISIG" /\ lax'.idx = lax.idx)
           => asBool(PeekByteArray(lax'.ds, 0)) = matching]_scriptVars

\* A number has one minimal encoding, the one ScriptNumBytes gives it.
MinimalIsCanonical ==
    \A i \in 1 .. Len(lax.ds) :
        LET x == lax.ds[i]
            n == makeScriptNum(x, FALSE, LockLen)
        IN  Tag(x) = 0 /\ n.ok =>
                /\ checkMinimalDataEncoding(x) <=> x = ScriptNumBytes(n.val)
                /\ makeScriptNum(ScriptNumBytes(n.val), TRUE, LockLen + 1).val = n.val

\* What the limit on a block's signature operations counts before scripts
\* run is never less than what running them verifies.
ChecksAreCounted ==
    \A vm \in {strict, lax} :
        vm.res # "idle" =>
            vm.checks <= getSigOpCount(spend.sig, FALSE)
                         + GetPreciseSigOpCount(spend.sig, spend.pk, hasFlag(vm, "Bip16"))
                         + (IF hasFlag(vm, "Witness") THEN GetWitnessSigOpCount(spend.sig, spend.pk, spend.tx.witness) ELSE 0)

\* An output that is left out of the utxo set as unspendable is not accepted
\* under any flags.
UnspendableIsNotSpent == IsUnspendable(spend.pk) => "ok" \notin {strict.res, lax.res}

\* What the builder pushes passes the rule of minimal pushes and arrives as
\* it was given, but for a zero byte, which is pushed as the number it is.
BuiltPushesArrive ==
    (spend.pushed # << >> /\ strict.res # "idle") =>
        /\ strict.res = "failed" => strict.idx > 1
        /\ (strict.res = "run" /\ strict.idx = 2) =>
            strict.ds = [i \in 1 .. Len(spend.pushed) |-> IF spend.pushed[i] = <<0>> THEN << >> ELSE spend.pushed[i]]

-----------------------------------------------------------------------------
Run(sig, pk) == FoldLeft(LAMBDA vm, i : Continued(vm), NewEngine(sig, pk, PlainTx, Standard), Times(16))

SignedBy == {k \in 1 .. 3 : \E b \in signing.by : k \in b[1]}

RealScript(pk) ==
    IF isScriptHash(pk) THEN MCParsedScripts[CHOOSE i \in DOMAIN MCParsedScripts : P2SH(i) = pk] ELSE pk

\* Signers who sign one after another, each over what the others left, end
\* with a script that spends the output as soon as enough keys have signed,
\* in whatever order they came, and not before.
EnoughSignersSpend ==
    LET enough(info) == Cardinality({i \in 1 .. Len(info.addrs) : info.addrs[i][1] - 2000 \in SignedBy}) >= info.requiredSigs
    IN  \A real \in {RealScript(signing.pk)} :
            (signing # NotSigning /\ typeOfScript(real) = "multisig") =>
                (Run(signing.script, signing.pk).res = "ok" <=> enough(ExtractPkScriptAddrs(real)))

Own(part) == part = (IF hashed.idx = 1 THEN "out1" ELSE "out2") \/ part = (IF hashed.idx = 1 THEN "seq1" ELSE "seq2")

OwnOutput(part) ==
    \/ part = (IF hashed.idx = 1 THEN "output1" ELSE "output2")
    \/ part = "more_outputs" /\ hashed.outs = hashed.idx - 1

\* What a hash type says is signed: always the frame and the own spend, the
\* other inputs unless anyone can pay, their sequences and all the outputs
\* only without SigHashNone and SigHashSingle, the own output with the latter.
IsSigned(part) ==
    CASE part \in {"version", "lock"} \/ Own(part) -> TRUE
      [] part \in {"out1", "out2", "more_inputs"} -> hashed.type < 128
      [] part \in {"seq1", "seq2"} -> hashed.type = 1
      [] OTHER -> hashed.type % 128 = 1 \/ (hashed.type % 128 = 3 /\ OwnOutput(part))

\* The two ways of hashing a transaction commit to the same parts of it, the
\* parts the hash type names: changing another part leaves a signature valid,
\* changing one of them does not.  A SigHashSingle without its output signs
\* nothing in the older way.
HashTypesCommit ==
    LET tx == TxOf(hashed.outs)
        other == Changed(tx, hashed.part)
        pops == payToPubKeyScript(K1)
        old(t) == calcSignatureHash(pops, hashed.type, t, hashed.idx)
        new(t) == calcWitnessSignatureHash(pops, NewTxSigHashes(t), hashed.type, t, hashed.idx, 7)
        one == hashed.type % 128 = SigHashSingle /\ hashed.idx > hashed.outs
    IN  (hashed # NotHashed /\ other # tx) =>
            /\ new(tx) # new(other) <=> IsSigned(hashed.part)
            /\ IF one THEN old(tx) = HashOne ELSE (old(tx) # old(other)) <=> IsSigned(hashed.part)

Instants == 0 .. 24

\* A script that checks a lock holds the spending transaction back: in every
\* block the rules of the chain let the transaction into, the height or the
\* time the script asks for has been reached.
LocksHold ==
    LET asked == makeScriptNum(opcodePush(spend.sig[1], strict).ds[Len(strict.ds) + 1], FALSE, LockLen).val
        masked(n) == n % SequenceLockTimeIsSeconds
        old == 3            \* the output's height and the median time before it
    IN  (strict.res = "ok" /\ Len(spend.sig) = 1) =>
        \A n \in {asked}, h, t \in Instants :
            /\ (spend.pk = <<Op("OP_CHECKLOCKTIMEVERIFY")>> /\ hasFlag(strict, "CheckLockTimeVerify")
                /\ IsFinalizedTransaction(spend.tx, h, t))
               => n = 0 \/ n < IF n < LockTimeThreshold THEN h ELSE t
            /\ (spend.pk = <<Op("OP_CHECKSEQUENCEVERIFY")>> /\ hasFlag(strict, "CheckSequenceVerify")
                /\ ~Bit(n, SequenceLockTimeDisabled)
                /\ SequenceLockActive(calcSequenceLock(spend.tx, old, old), h, t))
               => IF Bit(n, SequenceLockTimeIsSeconds) THEN t >= old + masked(n) * RelativeLockSeconds
                  ELSE h >= old + masked(n)

-----------------------------------------------------------------------------
Init == CodecInit /\ ScriptInit

Next ==
    \/ Fresh /\ CodecNext /\ UNCHANGED scriptVars
    \/ input.part = "none" /\ ScriptNext /\ UNCHANGED codecVars

Spec == Init /\ [][Next]_<<codecVars, scriptVars>>

(* The engine does to the stacks what the opcodes say and never leaves its *)
(* script, its flags only restrict, and what the builder, the signer and   *)
(* the classifier make of a script is what the engine makes of it.         *)
ScriptsAgree ==
    /\ [](/\ PositionIsValid /\ BranchesNest /\ FlagsOnlyRestrict /\ MinimalIsCanonical
          /\ ChecksAreCounted /\ UnspendableIsNotSpent /\ EnoughSignersSpend
          /\ BuiltPushesArrive /\ HashTypesCommit /\ LocksHold)
    /\ StackOpsAsDrawn
    /\ MultiSigIsMatching

=============================================================================
