---------------------------- MODULE ScriptEngine ----------------------------
(***************************************************************************)
(* Signature checks and the run of the script engine (engine.go, the       *)
(* CHECKSIG family of opcode.go).  Signature forms: 0 strict DER, 1 BER    *)
(* only, 2 does not parse, 3 high S.  Key forms: 0 compressed,             *)
(* 1 uncompressed, 2 hybrid, 3 compressed and not on the curve.  Then      *)
(* signing (sign.go), the data a signature commits to (script.go), the     *)
(* script builder, and the counts of signature operations.                 *)
(***************************************************************************)
EXTENDS Script

CONSTANT RelativeLockSeconds     \* the seconds a relative lock of one stands for

ASSUME GranularityAssumption == RelativeLockSeconds \in Nat \ {0}

checkHashTypeEncoding(vm, hashType) ==
    hasFlag(vm, "StrictEncoding") => hashType % 128 \in 1 .. 3

checkSignatureEncoding(vm, x) ==
    vm.flags \cap {"DERSignatures", "LowS", "StrictEncoding"} # {} =>
        Tag(x) = 1 /\ (x[2] = 0 \/ (x[2] = 3 /\ ~hasFlag(vm, "LowS")))

IsCompressedPubKey(x) == Tag(x) = 2 /\ x[2] \in {0, 3}

checkPubKeyEncoding(vm, x) ==
    /\ (hasFlag(vm, "WitnessPubKeyType") /\ isWitnessVersionActive(vm, 0)) => IsCompressedPubKey(x)
    /\ hasFlag(vm, "StrictEncoding") => (Tag(x) = 2 /\ x[2] # 2)

ParsePubKey(x) == Tag(x) = 2 /\ x[2] # 3
ParseSignature(x) == Tag(x) = 1 /\ x[2] # 2

\* What is signed: the script since the last code separator, hashed in the
\* way of version 0 witness programs or in the older one.
SignedPart(sep, witness) == sep + (IF witness THEN 100 ELSE 0)

Verify(vm, sig, key) ==
    sig[1] - 1000 = key[1] - 2000 /\ sig[3] = SignedPart(vm.sep, isWitnessVersionActive(vm, 0))

opcodeCheckSig(vm) ==
    LET pkBytes == PeekByteArray(vm.ds, 0)
        fullSigBytes == PeekByteArray(vm.ds, 1)
        hashType == fullSigBytes[Len(fullSigBytes)]
        parse == ParsePubKey(pkBytes) /\ ParseSignature(fullSigBytes)
        valid == parse /\ Verify(vm, fullSigBytes, pkBytes)
        checked == [vm EXCEPT !.checks = @ + Truth(parse)]
    IN  IF ~Has(vm.ds, 2) THEN Fail(vm)
        ELSE IF fullSigBytes = << >> THEN Replace(vm, 2, fromBool(FALSE))
        ELSE If(vm, /\ checkHashTypeEncoding(vm, hashType)
                    /\ checkSignatureEncoding(vm, fullSigBytes)
                    /\ checkPubKeyEncoding(vm, pkBytes)
                    /\ (parse /\ ~valid) => ~hasFlag(vm, "NullFail"),
                Replace(checked, 2, fromBool(valid)))

\* The loop of opcodeCheckMultiSig: the keys are tried in order, each with
\* the first signature that no key before it has matched.  ok is FALSE when
\* an encoding is refused.
MatchSignatures(vm, keys, sigs) ==
    LET m == Len(sigs)
        n == Len(keys)
        match(s, i) ==
            LET sig == sigs[s.si]
                key == keys[i]
            IN  IF s.over \/ s.si > m THEN s
                ELSE IF m - s.si + 1 > n + 1 - i THEN [s EXCEPT !.over = TRUE, !.success = FALSE]
                ELSE IF sig = << >> THEN s
                ELSE IF ~(checkHashTypeEncoding(vm, sig[Len(sig)]) /\ checkSignatureEncoding(vm, sig))
                THEN [s EXCEPT !.over = TRUE, !.ok = FALSE]
                ELSE IF ~ParseSignature(sig) THEN s
                ELSE IF ~checkPubKeyEncoding(vm, key) THEN [s EXCEPT !.over = TRUE, !.ok = FALSE]
                ELSE IF ~ParsePubKey(key) THEN s
                ELSE [s EXCEPT !.si = @ + Truth(Verify(vm, sig, key)), !.checks = @ + 1]
    IN  FoldLeft(match, [si |-> 1, over |-> FALSE, ok |-> TRUE, success |-> TRUE, checks |-> 0], Times(n + 1))

\* Keys and signatures from the top of the stack down, an item more than
\* they are, and the operations they count as.
opcodeCheckMultiSig(vm) ==
    LET numKeys == PopInt(vm, 0)
        items(from, n) == [i \in 1 .. n |-> PeekByteArray(vm.ds, from + i)]
        matched(n, m, sigs, found) ==
            If(vm, /\ found.ok
                   /\ (~found.success /\ hasFlag(vm, "NullFail")) => \A i \in 1 .. m : sigs[i] = << >>,
               Replace([vm EXCEPT !.ops = @ + n, !.checks = @ + found.checks], n + m + 3, fromBool(found.success)))
        signed(n, m, sigs) ==
            IF Has(vm.ds, n + m + 3) /\ (hasFlag(vm, "StrictMultiSig") => PeekByteArray(vm.ds, n + m + 2) = << >>)
            THEN matched(n, m, sigs, MatchSignatures(vm, items(0, n), sigs)) ELSE Fail(vm)
        withSigs(n, numSigs) ==
            IF Has(vm.ds, n + 2) /\ numSigs.ok /\ numSigs.val \in 0 .. n
            THEN signed(n, numSigs.val, items(n + 1, numSigs.val)) ELSE Fail(vm)
        withKeys(n) ==
            IF n \in 0 .. MaxPubKeysPerMultiSig /\ vm.ops + n <= MaxOpsPerScript
            THEN withSigs(n, PopInt(vm, n + 1)) ELSE Fail(vm)
    IN  IF Has(vm.ds, 1) /\ numKeys.ok THEN withKeys(numKeys.val) ELSE Fail(vm)

-----------------------------------------------------------------------------
isDisabled(op) ==
    op.name \in {"OP_CAT", "OP_SUBSTR", "OP_LEFT", "OP_RIGHT", "OP_INVERT", "OP_AND", "OP_OR", "OP_XOR",
                 "OP_2MUL", "OP_2DIV", "OP_MUL", "OP_DIV", "OP_MOD", "OP_LSHIFT", "OP_RSHIFT"}

alwaysIllegal(op) == op.name \in {"OP_VERIF", "OP_VERNOTIF"}
isConditional(op) == op.name \in {"OP_IF", "OP_NOTIF", "OP_ELSE", "OP_ENDIF"}

NopNames == {"OP_NOP", "OP_NOP1", "OP_NOP10"}

StackNames ==
    {"OP_TOALTSTACK", "OP_FROMALTSTACK", "OP_2DROP", "OP_2DUP", "OP_3DUP", "OP_2OVER", "OP_2ROT", "OP_2SWAP",
     "OP_IFDUP", "OP_DEPTH", "OP_DROP", "OP_DUP", "OP_NIP", "OP_OVER", "OP_PICK", "OP_ROLL", "OP_ROT",
     "OP_SWAP", "OP_TUCK", "OP_SIZE"}

UnaryNames == {"OP_1ADD", "OP_1SUB", "OP_NEGATE", "OP_ABS", "OP_NOT", "OP_0NOTEQUAL"}

BinaryNames ==
    {"OP_ADD", "OP_SUB", "OP_BOOLAND", "OP_BOOLOR", "OP_NUMEQUAL", "OP_NUMNOTEQUAL", "OP_LESSTHAN",
     "OP_GREATERTHAN", "OP_LESSTHANOREQUAL", "OP_GREATERTHANOREQUAL", "OP_MIN", "OP_MAX"}

HashNames == {"OP_RIPEMD160", "OP_SHA1", "OP_SHA256", "OP_HASH160", "OP_HASH256"}

\* The table of opcodes; what is not in it is reserved or invalid.
opfunc(op, vm) ==
    CASE op.name \in PushNames \cup {"OP_1NEGATE", "OP_N"} -> opcodePush(op, vm)
      [] op.name \in NopNames -> opcodeNop(op, vm)
      [] op.name = "OP_CHECKLOCKTIMEVERIFY" -> opcodeCheckLockTimeVerify(vm)
      [] op.name = "OP_CHECKSEQUENCEVERIFY" -> opcodeCheckSequenceVerify(vm)
      [] op.name = "OP_IF" -> opcodeIf(vm, TRUE)
      [] op.name = "OP_NOTIF" -> opcodeIf(vm, FALSE)
      [] op.name = "OP_ELSE" -> opcodeElse(vm)
      [] op.name = "OP_ENDIF" -> opcodeEndif(vm)
      [] op.name = "OP_VERIFY" -> abstractVerify(vm)
      [] op.name \in StackNames -> opcodeStack(op, vm)
      [] op.name = "OP_EQUAL" -> opcodeEqual(vm)
      [] op.name = "OP_EQUALVERIFY" -> abstractVerify(opcodeEqual(vm))
      [] op.name \in UnaryNames -> opcodeUnary(op, vm)
      [] op.name \in BinaryNames -> opcodeBinary(op, vm)
      [] op.name = "OP_NUMEQUALVERIFY" -> abstractVerify(opcodeBinary(op, vm))
      [] op.name = "OP_WITHIN" -> opcodeWithin(vm)
      [] op.name \in HashNames -> opcodeHash(op, vm)
      [] op.name = "OP_CODESEPARATOR" -> [vm EXCEPT !.sep = vm.off - 1]
      [] op.name = "OP_CHECKSIG" -> opcodeCheckSig(vm)
      [] op.name = "OP_CHECKSIGVERIFY" -> abstractVerify(opcodeCheckSig(vm))
      [] op.name = "OP_CHECKMULTISIG" -> opcodeCheckMultiSig(vm)
      [] op.name = "OP_CHECKMULTISIGVERIFY" -> abstractVerify(opcodeCheckMultiSig(vm))
      [] OTHER -> Fail(vm)

\* An operation in a branch that is not taken is counted, and may be illegal.
executeOpcode(op, vm) ==
    LET counted == [vm EXCEPT !.ops = @ + Truth(~IsPush(op))]
    IN  IF \/ isDisabled(op) \/ alwaysIllegal(op)
           \/ counted.ops > MaxOpsPerScript
           \/ IsPush(op) /\ SizeOf(PushData(op)) > MaxScriptElementSize THEN Fail(vm)
        ELSE IF ~isBranchExecuting(vm) /\ ~isConditional(op) THEN counted
        ELSE IF /\ minimal(vm) /\ isBranchExecuting(vm)
                /\ op.name \in PushNames /\ ~checkMinimalDataPush(op) THEN Fail(vm)
        ELSE opfunc(op, counted)

-----------------------------------------------------------------------------
CheckErrorCondition(vm, finalScript) ==
    LET clean == finalScript /\ (isWitnessVersionActive(vm, 0) \/ hasFlag(vm, "CleanStack"))
    IN  /\ IF clean THEN Len(vm.ds) = 1 ELSE Has(vm.ds, 1)
        /\ asBool(PeekByteArray(vm.ds, 0))

verifyWitnessProgram(vm) ==
    LET w == vm.tx.witness
        script == w[Len(w)]
        pkh == SizeOf(vm.program) = 20
        stack == IF pkh THEN w ELSE DropN(w, 1)
        pops == IF pkh THEN payToPubKeyHashScript(vm.program) ELSE parseScript(script)
    IN  IF vm.version # 0 THEN If(vm, ~hasFlag(vm, "DiscourageUpgradeableWitnessProgram"), [vm EXCEPT !.program = << >>])
        ELSE If(vm, /\ pkh => Len(w) = 2
                    /\ ~pkh => /\ SizeOf(vm.program) = 32 /\ w # << >>
                               /\ Sha256(script) = vm.program /\ parses(script)
                    /\ \A i \in 1 .. Len(stack) : SizeOf(stack[i]) <= MaxScriptElementSize,
                [vm EXCEPT !.scripts = Append(@, pops), !.ds = stack])

\* What comes after a script: the stack of the signature script is kept for
\* the script it carries, a witness program is replaced by what it stands for.
nextScript(vm) ==
    LET top == vm.saved[Len(vm.saved)]
        past == [vm EXCEPT !.as = << >>, !.ops = 0, !.off = 1, !.idx = @ + 1]
    IN  CASE vm.bip16 /\ vm.idx = 1 -> [past EXCEPT !.saved = vm.ds]
          [] vm.bip16 /\ vm.idx = 2 ->
                If(past, CheckErrorCondition(vm, FALSE) /\ parses(top),
                   [past EXCEPT !.scripts = Append(@, parseScript(top)), !.ds = DropN(vm.saved, 1)])
          [] OTHER ->
                IF vm.program # << >> /\ (vm.idx = 2 \/ (vm.idx = 3 /\ vm.bip16))
                THEN verifyWitnessProgram(past) ELSE past

\* There are zero length scripts in the wild.
skipEmpty(vm) ==
    IF vm.idx <= Len(vm.scripts) /\ vm.scripts[vm.idx] = << >> THEN [vm EXCEPT !.idx = @ + 1] ELSE vm

Step(vm) ==
    LET op == vm.scripts[vm.idx][vm.off]
        on(next) ==
            IF next.res = "run" /\ next.idx > Len(next.scripts)
            THEN [next EXCEPT !.res = IF CheckErrorCondition(next, TRUE) THEN "ok" ELSE "failed"]
            ELSE next
        after(ran) ==
            IF ran.res = "failed" \/ Len(ran.ds) + Len(ran.as) > MaxStackSize THEN Fail(ran)
            ELSE IF ran.off <= Len(ran.scripts[ran.idx]) THEN ran
            ELSE IF ran.cond # << >> THEN Fail(ran)
            ELSE on([skipEmpty(nextScript(ran)) EXCEPT !.sep = 0])
    IN  after(executeOpcode(op, [vm EXCEPT !.off = @ + 1]))

-----------------------------------------------------------------------------
\* tx: its lock time and version, and the sequence and the witness of the
\* input.
NewEngine(sigScript, pkScript, tx, flags) ==
    LET has(f) == f \in flags
        bip16 == has("Bip16") /\ isScriptHash(pkScript)
        nested == sigScript[1].data
        native == isWitnessProgram(pkScript)
        carried == tx.witness # << >> /\ bip16
        info == IF native THEN ExtractWitnessProgramInfo(pkScript)
                ELSE IF carried THEN ExtractWitnessProgramInfo(parseScript(nested))
                ELSE [version |-> 0, program |-> << >>]
        ok == /\ ~(sigScript = << >> /\ pkScript = << >>)
              /\ has("CleanStack") => (has("Bip16") \/ has("Witness"))
              /\ (has("SigPushOnly") \/ bip16) => isPushOnly(sigScript)
              /\ has("Witness") =>
                    /\ has("Bip16")
                    /\ IF native THEN sigScript = << >>
                       ELSE IF carried
                       THEN /\ Len(sigScript) = 1 /\ canonicalPush(sigScript[1])
                            /\ parses(nested) /\ isWitnessProgram(parseScript(nested))
                       ELSE tx.witness = << >>
        program == IF ok /\ has("Witness") THEN info ELSE [version |-> 0, program |-> << >>]
    IN  [scripts |-> <<sigScript, pkScript>>, idx |-> IF sigScript = << >> THEN 2 ELSE 1, off |-> 1, sep |-> 0,
         ds |-> << >>, as |-> << >>, cond |-> << >>, ops |-> 0, saved |-> << >>, flags |-> flags,
         bip16 |-> bip16, version |-> program.version, program |-> program.program, tx |-> tx,
         checks |-> 0, res |-> IF ok THEN "run" ELSE "failed"]
-----------------------------------------------------------------------------
\* A transaction here: inputs with an outpoint and a sequence, outputs, and
\* the two numbers around them.  A hash is what is hashed.
SigHashSingle == 3
SigHashNone == 2
SigHashAnyOneCanPay == 128
sigHashMask == 32

base(hashType) == hashType % sigHashMask
anyoneCanPay(hashType) == hashType >= SigHashAnyOneCanPay

removeOpcode(pops, name) == SelectSeq(pops, LAMBDA o : o.name # name)

HashOne == [kind |-> "one"]

\* A SigHashSingle without its output is a hash of one.
calcSignatureHash(script, hashType, tx, idx) ==
    IF base(hashType) = SigHashSingle /\ idx > Len(tx.outs) THEN HashOne
    ELSE LET partial == base(hashType) \in {SigHashNone, SigHashSingle}
             signed == [i \in 1 .. Len(tx.ins) |->
                            [out |-> tx.ins[i].out,
                             seq |-> IF partial /\ i # idx THEN 0 ELSE tx.ins[i].seq,
                             script |-> IF i = idx THEN removeOpcode(script, "OP_CODESEPARATOR") ELSE << >>]]
         IN  [kind |-> "tx", version |-> tx.version, lock |-> tx.lock, type |-> hashType,
              ins |-> IF anyoneCanPay(hashType) THEN <<signed[idx]>> ELSE signed,
              outs |-> CASE base(hashType) = SigHashNone -> << >>
                         [] base(hashType) = SigHashSingle ->
                                [i \in 1 .. idx |-> IF i = idx THEN tx.outs[i] ELSE -1]
                         [] OTHER -> tx.outs]

\* The parts of a transaction that are hashed once for all its inputs.
NewTxSigHashes(tx) ==
    [prevOuts |-> [i \in 1 .. Len(tx.ins) |-> tx.ins[i].out],
     sequence |-> [i \in 1 .. Len(tx.ins) |-> tx.ins[i].seq],
     outputs |-> tx.outs]

\* Whether the outputs are all hashed is asked of two bits of the type, and
\* not of the masked type.
calcWitnessSignatureHash(script, sigHashes, hashType, tx, idx, amt) ==
    [kind |-> "witness", version |-> tx.version, lock |-> tx.lock, type |-> hashType,
     prevOuts |-> IF anyoneCanPay(hashType) THEN << >> ELSE sigHashes.prevOuts,
     sequence |-> IF anyoneCanPay(hashType) \/ base(hashType) \in {SigHashSingle, SigHashNone}
                  THEN << >> ELSE sigHashes.sequence,
     out |-> tx.ins[idx].out, seq |-> tx.ins[idx].seq, amount |-> amt,
     script |-> IF isWitnessPubKeyHash(script) THEN payToPubKeyHashScript(script[2].data) ELSE script,
     outs |-> IF (hashType \div 2) % 2 = 0 THEN sigHashes.outputs
              ELSE IF base(hashType) = SigHashSingle /\ idx <= Len(tx.outs) THEN <<tx.outs[idx]>>
              ELSE << >>]

-----------------------------------------------------------------------------

\* The shortest push; a zero byte is pushed as nothing.
addData(x) ==
    CASE x \in {<< >>, <<0>>} -> Op("OP_0")
      [] Len(x) = 1 /\ x[1] \in 1 .. 16 -> N(x[1])
      [] x = <<129>> -> Op("OP_1NEGATE")
      [] SizeOf(x) <= 75 -> Data(x)
      [] SizeOf(x) <= 255 -> [name |-> "OP_PUSHDATA1", data |-> x]
      [] OTHER -> [name |-> "OP_PUSHDATA2", data |-> x]

AddInt64(n) ==
    CASE n = 0 -> Op("OP_0")
      [] n = -1 -> Op("OP_1NEGATE")
      [] n \in 1 .. 16 -> N(n)
      [] OTHER -> addData(ScriptNumBytes(n))

-----------------------------------------------------------------------------
\* kdb is the set of keys the signer has, as they are serialized; sdb is
\* the set of the scripts it knows.
RawTxInSignature(key, hashType) == Sig(key[1] - 2000, 0, SignedPart(0, FALSE), hashType)

\* The loop ends with the signature that makes nRequired, never when that is 0.
signMultiSig(addresses, nRequired, kdb, hashType) ==
    LET own == SelectSeq(addresses, LAMBDA a : a \in kdb)
        n == IF nRequired \in 1 .. Len(own) THEN nRequired ELSE Len(own)
    IN  <<Op("OP_0")>> \o [i \in 1 .. n |-> addData(RawTxInSignature(own[i], hashType))]

\* What sign knows to sign; "script" is a script to sign for.
CanSign(pops, kdb, sdb) ==
    LET can(class, a) ==
            CASE class = "pubkey" -> a[1] \in kdb
              [] class = "pubkeyhash" -> \E key \in kdb : Hash160(key) = a[1]
              [] class = "scripthash" -> \E i \in sdb : Hash160(Serialized(i)) = a[1]
              [] OTHER -> class = "multisig"
    IN  can(typeOfScript(pops), ExtractPkScriptAddrs(pops).addrs)

sign(pops, kdb, sdb, hashType) ==
    LET withKey(key) == <<addData(RawTxInSignature(key, hashType)), addData(key)>>
        by(class, info) ==
            CASE class = "pubkey" -> <<addData(RawTxInSignature(info.addrs[1], hashType))>>
              [] class = "pubkeyhash" -> withKey(CHOOSE k \in kdb : Hash160(k) = info.addrs[1])
              [] OTHER -> signMultiSig(info.addrs, info.requiredSigs, kdb, hashType)
    IN  by(typeOfScript(pops), ExtractPkScriptAddrs(pops))

\* A mutant of mergeMultiSig: signatures stay in the order they were found.
MergeInOrderFound(pops, sigScript, prevScript) ==
    IF sigScript = << >> THEN prevScript
    ELSE IF prevScript = << >> THEN sigScript
    ELSE LET sigs == SelectSeq(sigScript \o prevScript, LAMBDA o : Tag(o.data) = 1)
             first(n) == IF Len(sigs) > n THEN SubSeq(sigs, 1, n)
                         ELSE sigs \o [i \in 1 .. n - Len(sigs) |-> Op("OP_0")]
         IN  <<Op("OP_0")>> \o first(ExtractPkScriptAddrs(pops).requiredSigs)

\* Every signature is matched with the first key it verifies with, the first
\* signature of a key is kept, and the keys' order gives the script's.
mergeMultiSig(pops, sigScript, prevScript) ==
    LET possibleSigs == SelectSeq(sigScript \o prevScript, LAMBDA o : Tag(o.data) = 1 /\ o.data[2] \in {0, 3})
        of(key) == SelectSeq(possibleSigs, LAMBDA o : o.data[1] - 1000 = key[1] - 2000)
        first(found, n) ==
            LET done == IF Len(found) > n THEN n ELSE Len(found)
            IN  <<Op("OP_0")>> \o [i \in 1 .. done |-> of(found[i])[1]] \o [i \in 1 .. n - done |-> Op("OP_0")]
        merged(info) == first(SelectSeq(info.addrs, LAMBDA key : of(key) # << >>), info.requiredSigs)
    IN  IF sigScript = << >> THEN prevScript
        ELSE IF prevScript = << >> THEN sigScript
        ELSE merged(ExtractPkScriptAddrs(pops))

Longest(sigScript, prevScript) == IF Len(sigScript) > Len(prevScript) THEN sigScript ELSE prevScript

\* The last push of a scripthash's signature script is not removed before
\* what it holds is merged.
mergeScripts(pops, sigScript, prevScript) ==
    LET script == sigScript[Len(sigScript)].data
        plain(of) == IF typeOfScript(of) = "multisig" THEN mergeMultiSig(of, sigScript, prevScript)
                     ELSE Longest(sigScript, prevScript)
    IN  IF typeOfScript(pops) # "scripthash" THEN plain(pops)
        ELSE IF sigScript = << >> THEN prevScript
        ELSE IF prevScript = << >> THEN sigScript
        ELSE Append(plain(parseScript(script)), addData(script))

\* << >> when the output cannot be signed for.
SignTxOutput(pops, kdb, sdb, hashType, prevScript) ==
    LET i == CHOOSE n \in sdb : Hash160(Serialized(n)) = pops[2].data
        real == ParsedScripts[i]
    IN  IF ~CanSign(pops, kdb, sdb) THEN << >>
        ELSE IF typeOfScript(pops) # "scripthash"
        THEN mergeScripts(pops, sign(pops, kdb, sdb, hashType), prevScript)
        ELSE IF ~CanSign(real, kdb, sdb) THEN << >>
        ELSE mergeScripts(pops, Append(sign(real, kdb, sdb, hashType), addData(Serialized(i))), prevScript)

-----------------------------------------------------------------------------
GetPreciseSigOpCount(sigScript, pkScript, bip16) ==
    LET script == sigScript[Len(sigScript)].data
    IN  IF ~(bip16 /\ isScriptHash(pkScript)) THEN getSigOpCount(pkScript, TRUE)
        ELSE IF sigScript = << >> \/ ~isPushOnly(sigScript) \/ ~parses(script) THEN 0
        ELSE getSigOpCount(parseScript(script), TRUE)

getWitnessSigOps(pops, witness) ==
    LET info == ExtractWitnessProgramInfo(pops)
        script == witness[Len(witness)]
    IN  CASE info.version # 0 -> 0
          [] SizeOf(info.program) = 20 -> 1
          [] SizeOf(info.program) = 32 /\ witness # << >> /\ parses(script) ->
                getSigOpCount(parseScript(script), TRUE)
          [] OTHER -> 0

\* The script without its first byte is the program when it is one push.
GetWitnessSigOpCount(sigScript, pkScript, witness) ==
    LET nested == sigScript[1].data
    IN  IF isWitnessProgram(pkScript) THEN getWitnessSigOps(pkScript, witness)
        ELSE IF /\ isScriptHash(pkScript) /\ Len(sigScript) = 1 /\ sigScript[1].name = "OP_DATA"
                /\ parses(nested) /\ isWitnessProgram(parseScript(nested))
        THEN getWitnessSigOps(parseScript(nested), witness)
        ELSE 0

IsUnspendable(pops) == pops # << >> /\ pops[1] = Op("OP_RETURN")

-----------------------------------------------------------------------------
\* When a transaction of one input may be in a block of height h after time
\* t: its lock time, and the age its sequence asks of the output it spends.
IsFinalizedTransaction(tx, h, t) ==
    \/ tx.lock = 0
    \/ tx.lock < (IF tx.lock < LockTimeThreshold THEN h ELSE t)
    \/ tx.seq = MaxTxInSequenceNum

calcSequenceLock(tx, inputHeight, medianTime) ==
    LET relativeLock == tx.seq % SequenceLockTimeIsSeconds
    IN  CASE tx.version < 2 \/ Bit(tx.seq, SequenceLockTimeDisabled) -> [seconds |-> -1, height |-> -1]
          [] Bit(tx.seq, SequenceLockTimeIsSeconds) ->
                [seconds |-> medianTime + relativeLock * RelativeLockSeconds - 1, height |-> -1]
          [] OTHER -> [seconds |-> -1, height |-> inputHeight + relativeLock - 1]

SequenceLockActive(sequenceLock, h, t) == sequenceLock.seconds < t /\ sequenceLock.height < h
=============================================================================
