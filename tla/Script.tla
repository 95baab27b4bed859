------------------------------- MODULE Script -------------------------------
(***************************************************************************)
(* Script items, numbers, classes and counts (pkg/chain/tx/script).  An    *)
(* item is a sequence of bytes, or an opaque value that starts with a tag: *)
(* a signature, a public key, a hash, a serialized script.  A parsed       *)
(* opcode has a name and the data it pushes.  Then what the opcodes do     *)
(* (opcode.go, stack.go, parts of engine.go): a vm is the record NewEngine *)
(* makes; a handler maps a vm to a vm, and an error ends the run (which    *)
(* error it is is not modelled).                                           *)
(***************************************************************************)
EXTENDS Integers, Sequences, FiniteSets, SequencesExt

CONSTANTS
    NumLen,                 \* bytes of a number an operation takes (4)
    LockLen,                \* bytes of a lock time (5)
    MaxOpsPerScript, MaxStackSize, MaxPubKeysPerMultiSig

ASSUME LimitsAssumption ==
    {NumLen, LockLen, MaxOpsPerScript, MaxStackSize, MaxPubKeysPerMultiSig} \subseteq Nat \ {0}

-----------------------------------------------------------------------------
\* Opaque items.  A signature names its key, how it is encoded, the code
\* separator of the script it signs and, last, its hash type.
Sig(k, form, sep, type) == <<1000 + k, form, sep, type>>
Key(k, form) == <<2000 + k, form>>
Ripemd160(x) == <<3000>> \o x
Sha1(x) == <<3001>> \o x
Sha256(x) == <<3002>> \o x
Hash160(x) == Ripemd160(Sha256(x))
Hash256(x) == Sha256(Sha256(x))
Serialized(i) == <<4000 + i>>
TooBig == <<5000>>          \* more than MaxScriptElementSize bytes

Tag(x) == IF x # << >> /\ x[1] >= 1000 THEN x[1] \div 1000 ELSE 0

SizeOf(x) ==
    CASE Tag(x) = 0 -> Len(x)
      [] Tag(x) = 1 -> 72
      [] Tag(x) = 2 -> IF x[2] \in {0, 3} THEN 33 ELSE 65
      [] Tag(x) = 3 -> IF x[1] = 3002 THEN 32 ELSE 20
      [] Tag(x) = 4 -> 34
      [] OTHER -> 521

MaxScriptElementSize == 520

-----------------------------------------------------------------------------
\* A negative zero is false too.
asBool(x) == \E i \in 1 .. Len(x) : x[i] # 0 /\ ~(i = Len(x) /\ x[i] = 128)
fromBool(b) == IF b THEN <<1>> ELSE << >>

checkMinimalDataEncoding(x) ==
    (x # << >> /\ x[Len(x)] % 128 = 0) => (Len(x) > 1 /\ x[Len(x) - 1] >= 128)

Abs(n) == IF n < 0 THEN -n ELSE n

\* The bytes of a number without its sign, the lowest first.
Digits(a) == [i \in 1 .. (CHOOSE k \in 1 .. 4 : a < 256 ^ k /\ (k = 1 \/ a >= 256 ^ (k - 1))) |->
                (a \div 256 ^ (i - 1)) % 256]

WithSign(ds, sign) == Append(SubSeq(ds, 1, Len(ds) - 1), ds[Len(ds)] + sign)

\* Little endian, with the sign in the highest bit of the last byte.
ScriptNumBytes(n) ==
    LET ds == Digits(Abs(n))
        sign == IF n < 0 THEN 128 ELSE 0
    IN  IF n = 0 THEN << >>
        ELSE IF ds[Len(ds)] >= 128 THEN Append(ds, sign) ELSE WithSign(ds, sign)

NotANumber == [ok |-> FALSE, val |-> 0]

makeScriptNum(x, requireMinimal, scriptNumLen) ==
    IF SizeOf(x) > scriptNumLen \/ (requireMinimal /\ ~checkMinimalDataEncoding(x)) THEN NotANumber
    ELSE LET neg == x # << >> /\ x[Len(x)] >= 128
             byte(i) == IF i = Len(x) THEN x[i] % 128 ELSE x[i]
             abs == FoldLeft(LAMBDA n, i : n + byte(i) * 256 ^ (i - 1), 0, [i \in 1 .. Len(x) |-> i])
         IN  [ok |-> TRUE, val |-> IF neg THEN -abs ELSE abs]

-----------------------------------------------------------------------------
\* Opcodes.  OP_N pushes its number; OP_DATA its data with the shortest push.
Op(name) == [name |-> name, data |-> << >>]
Data(x) == [name |-> "OP_DATA", data |-> x]
N(n) == [name |-> "OP_N", data |-> <<n>>]

PushNames == {"OP_0", "OP_DATA", "OP_PUSHDATA1", "OP_PUSHDATA2", "OP_PUSHDATA4"}

\* Everything up to OP_16.
IsPush(o) == o.name \in PushNames \cup {"OP_1NEGATE", "OP_RESERVED", "OP_N"}
PushData(o) == IF o.name = "OP_N" THEN << >> ELSE o.data

isSmallInt(o) == o.name \in {"OP_0", "OP_N"}
asSmallInt(o) == IF o.name = "OP_0" THEN 0 ELSE o.data[1]
IsData(o, n) == o.name = "OP_DATA" /\ SizeOf(o.data) = n

canonicalPush(o) ==
    LET x == PushData(o)
    IN  IsPush(o) =>
            /\ ~(o.name = "OP_DATA" /\ Len(x) = 1 /\ x[1] <= 16)
            /\ ~(o.name = "OP_PUSHDATA1" /\ SizeOf(x) < 76)
            /\ ~(o.name = "OP_PUSHDATA2" /\ SizeOf(x) <= 255)
            /\ ~(o.name = "OP_PUSHDATA4" /\ SizeOf(x) <= 65535)

checkMinimalDataPush(o) ==
    LET x == o.data
    IN  CASE SizeOf(x) = 0 -> o.name = "OP_0"
          [] Len(x) = 1 /\ (x[1] \in 1 .. 16 \/ x[1] = 129) -> FALSE
          [] SizeOf(x) <= 75 -> o.name = "OP_DATA"
          [] SizeOf(x) <= 255 -> o.name = "OP_PUSHDATA1"
          [] OTHER -> o.name = "OP_PUSHDATA2"

isPushOnly(pops) == \A i \in 1 .. Len(pops) : IsPush(pops[i])

isScriptHash(pops) ==
    Len(pops) = 3 /\ pops[1] = Op("OP_HASH160") /\ IsData(pops[2], 20) /\ pops[3] = Op("OP_EQUAL")

isWitnessScriptHash(pops) == Len(pops) = 2 /\ pops[1] = Op("OP_0") /\ IsData(pops[2], 32)
isWitnessPubKeyHash(pops) == Len(pops) = 2 /\ pops[1] = Op("OP_0") /\ IsData(pops[2], 20)

isWitnessProgram(pops) ==
    /\ Len(pops) = 2 /\ isSmallInt(pops[1]) /\ canonicalPush(pops[2])
    /\ SizeOf(PushData(pops[2])) \in 2 .. 40

\* The witness version and the program.
ExtractWitnessProgramInfo(pops) == [version |-> asSmallInt(pops[1]), program |-> pops[2].data]

-----------------------------------------------------------------------------
IsKeySize(o) == SizeOf(PushData(o)) \in {33, 65}

isPubkey(pops) == Len(pops) = 2 /\ IsKeySize(pops[1]) /\ pops[2] = Op("OP_CHECKSIG")

isPubkeyHash(pops) ==
    /\ Len(pops) = 5 /\ pops[1] = Op("OP_DUP") /\ pops[2] = Op("OP_HASH160")
    /\ IsData(pops[3], 20) /\ pops[4] = Op("OP_EQUALVERIFY") /\ pops[5] = Op("OP_CHECKSIG")

isMultiSig(pops) ==
    LET l == Len(pops)
    IN  /\ l >= 4 /\ isSmallInt(pops[1]) /\ isSmallInt(pops[l - 1])
        /\ pops[l] = Op("OP_CHECKMULTISIG")
        /\ l - 3 = asSmallInt(pops[l - 1])
        /\ \A i \in 2 .. l - 2 : IsKeySize(pops[i])

isNullData(pops) ==
    /\ pops # << >> /\ pops[1] = Op("OP_RETURN")
    /\ \/ Len(pops) = 1
       \/ /\ Len(pops) = 2 /\ pops[2].name \in PushNames \cup {"OP_N"}
          /\ SizeOf(PushData(pops[2])) <= 80

typeOfScript(pops) ==
    CASE isPubkey(pops) -> "pubkey"
      [] isPubkeyHash(pops) -> "pubkeyhash"
      [] isWitnessPubKeyHash(pops) -> "witness_v0_keyhash"
      [] isScriptHash(pops) -> "scripthash"
      [] isWitnessScriptHash(pops) -> "witness_v0_scripthash"
      [] isMultiSig(pops) -> "multisig"
      [] isNullData(pops) -> "nulldata"
      [] OTHER -> "nonstandard"

payToPubKeyHashScript(h) ==
    <<Op("OP_DUP"), Op("OP_HASH160"), Data(h), Op("OP_EQUALVERIFY"), Op("OP_CHECKSIG")>>

payToScriptHashScript(h) == <<Op("OP_HASH160"), Data(h), Op("OP_EQUAL")>>
payToWitnessPubKeyHashScript(h) == <<Op("OP_0"), Data(h)>>
payToWitnessScriptHashScript(h) == <<Op("OP_0"), Data(h)>>
payToPubKeyScript(k) == <<Data(k), Op("OP_CHECKSIG")>>

\* More signatures than keys are refused.
MultiSigScript(keys, nrequired) ==
    <<IF nrequired = 0 THEN Op("OP_0") ELSE N(nrequired)>> \o [i \in 1 .. Len(keys) |-> Data(keys[i])]
    \o <<N(Len(keys)), Op("OP_CHECKMULTISIG")>>

ExtractPkScriptAddrs(pops) ==
    LET of(class) ==
            CASE class = "multisig" ->
                    [addrs |-> [i \in 1 .. Len(pops) - 3 |-> pops[i + 1].data], requiredSigs |-> asSmallInt(pops[1])]
              [] class = "pubkeyhash" -> [addrs |-> <<pops[3].data>>, requiredSigs |-> 1]
              [] class = "pubkey" -> [addrs |-> <<pops[1].data>>, requiredSigs |-> 1]
              [] class \in {"scripthash", "witness_v0_keyhash", "witness_v0_scripthash"} ->
                    [addrs |-> <<pops[2].data>>, requiredSigs |-> 1]
              [] OTHER -> [addrs |-> << >>, requiredSigs |-> 0]
    IN  of(typeOfScript(pops))

-----------------------------------------------------------------------------

getSigOpCount(pops, precise) ==
    FoldLeft(LAMBDA n, i :
                IF pops[i].name \in {"OP_CHECKSIG", "OP_CHECKSIGVERIFY"} THEN n + 1
                ELSE IF pops[i].name \in {"OP_CHECKMULTISIG", "OP_CHECKMULTISIGVERIFY"}
                THEN n + (IF precise /\ i > 1 /\ pops[i - 1].name = "OP_N"
                          THEN asSmallInt(pops[i - 1]) ELSE MaxPubKeysPerMultiSig)
                ELSE n,
             0, [i \in 1 .. Len(pops) |-> i])

-----------------------------------------------------------------------------
(* The opcodes.                                                            *)
CONSTANTS
    LockTimeThreshold,      \* below it a lock time is a height
    SequenceLockTimeDisabled, SequenceLockTimeIsSeconds,   \* bits of a sequence
    MaxTxInSequenceNum,
    ParsedScripts           \* parseScript of the serialized scripts

ASSUME SequenceAssumption ==
    /\ {LockTimeThreshold, SequenceLockTimeDisabled, SequenceLockTimeIsSeconds, MaxTxInSequenceNum} \subseteq Nat \ {0}
    /\ SequenceLockTimeIsSeconds < SequenceLockTimeDisabled

hasFlag(vm, flag) == flag \in vm.flags
Fail(vm) == [vm EXCEPT !.res = "failed"]
If(vm, ok, next) == IF ok THEN next ELSE Fail(vm)
isWitnessVersionActive(vm, version) == vm.program # << >> /\ vm.version = version
isBranchExecuting(vm) == vm.cond = << >> \/ vm.cond[Len(vm.cond)] = "true"
minimal(vm) == hasFlag(vm, "MinimalData")

\* << >> is the empty script; an item that is no script does not parse.
parses(x) == x = << >> \/ (Tag(x) = 4 /\ x[1] - 4000 \in DOMAIN ParsedScripts)
parseScript(x) == IF x = << >> THEN << >> ELSE ParsedScripts[x[1] - 4000]

-----------------------------------------------------------------------------
\* The stack.  An operation that finds too few items is an error.
PeekByteArray(ds, idx) == ds[Len(ds) - idx]
Has(ds, n) == Len(ds) >= n
nipN(ds, idx) == SubSeq(ds, 1, Len(ds) - idx - 1) \o SubSeq(ds, Len(ds) - idx + 1, Len(ds))
Raise(ds, idx) == Append(nipN(ds, idx), PeekByteArray(ds, idx))
Copy(ds, idx) == Append(ds, PeekByteArray(ds, idx))
Times(n) == [i \in 1 .. n |-> i]

DropN(ds, n) == SubSeq(ds, 1, Len(ds) - n)
DupN(ds, n) == FoldLeft(LAMBDA s, i : Copy(s, n - 1), ds, Times(n))

RotN(ds, n) == FoldLeft(LAMBDA s, i : Raise(s, 3 * n - 1), ds, Times(n))
SwapN(ds, n) == FoldLeft(LAMBDA s, i : Raise(s, 2 * n - 1), ds, Times(n))
OverN(ds, n) == FoldLeft(LAMBDA s, i : Copy(s, 2 * n - 1), ds, Times(n))
Tuck(ds) == DropN(ds, 2) \o <<PeekByteArray(ds, 0), PeekByteArray(ds, 1), PeekByteArray(ds, 0)>>

PopInt(vm, idx) == makeScriptNum(PeekByteArray(vm.ds, idx), minimal(vm), NumLen)
Push(vm, x) == [vm EXCEPT !.ds = Append(@, x)]
Replace(vm, n, x) == [vm EXCEPT !.ds = Append(DropN(@, n), x)]
Stack(vm, n, ds) == If(vm, Has(vm.ds, n), [vm EXCEPT !.ds = ds])

-----------------------------------------------------------------------------
\* Pushes and conditionals.
opcodePush(op, vm) ==
    Push(vm, CASE op.name = "OP_1NEGATE" -> ScriptNumBytes(-1)
               [] op.name = "OP_N" -> ScriptNumBytes(op.data[1])
               [] OTHER -> op.data)

popIfBool(vm) ==
    LET x == PeekByteArray(vm.ds, 0)
        strict == isWitnessVersionActive(vm, 0) /\ hasFlag(vm, "MinimalIf")
    IN  [ok |-> strict => x \in {<< >>, <<1>>}, val |-> asBool(x)]

\* OP_IF wants the item to be true, OP_NOTIF to be false.
opcodeIf(vm, wanted) ==
    IF ~isBranchExecuting(vm) THEN [vm EXCEPT !.cond = Append(@, "skip")]
    ELSE If(vm, Has(vm.ds, 1) /\ popIfBool(vm).ok,
            [vm EXCEPT !.ds = DropN(@, 1),
                       !.cond = Append(@, IF popIfBool(vm).val = wanted THEN "true" ELSE "false")])

opcodeElse(vm) ==
    If(vm, vm.cond # << >>,
       [vm EXCEPT !.cond[Len(vm.cond)] =
            CASE @ = "true" -> "false" [] @ = "false" -> "true" [] OTHER -> "skip"])

opcodeEndif(vm) == If(vm, vm.cond # << >>, [vm EXCEPT !.cond = DropN(@, 1)])

abstractVerify(vm) ==
    If(vm, vm.res = "run" /\ Has(vm.ds, 1) /\ asBool(PeekByteArray(vm.ds, 0)), [vm EXCEPT !.ds = DropN(@, 1)])

opcodeNop(op, vm) ==
    If(vm, op.name = "OP_NOP" \/ ~hasFlag(vm, "DiscourageUpgradableNops"), vm)

-----------------------------------------------------------------------------
verifyLockTime(txLockTime, threshold, lockTime) ==
    (txLockTime < threshold <=> lockTime < threshold) /\ lockTime <= txLockTime

opcodeCheckLockTimeVerify(vm) ==
    LET n == makeScriptNum(PeekByteArray(vm.ds, 0), minimal(vm), LockLen)
    IN  IF ~hasFlag(vm, "CheckLockTimeVerify") THEN opcodeNop(Op("OP_NOP2"), vm)
        ELSE If(vm, Has(vm.ds, 1) /\ n.ok /\ n.val >= 0
                    /\ verifyLockTime(vm.tx.lock, LockTimeThreshold, n.val)
                    /\ vm.tx.seq # MaxTxInSequenceNum, vm)

Bit(n, b) == (n \div b) % 2 = 1
\* The bit that says seconds, and the bits of the mask below it.
Masked(n) == n % (2 * SequenceLockTimeIsSeconds)

opcodeCheckSequenceVerify(vm) ==
    LET n == makeScriptNum(PeekByteArray(vm.ds, 0), minimal(vm), LockLen)
    IN  IF ~hasFlag(vm, "CheckSequenceVerify") THEN opcodeNop(Op("OP_NOP3"), vm)
        ELSE If(vm, /\ Has(vm.ds, 1) /\ n.ok /\ n.val >= 0
                    /\ \/ Bit(n.val, SequenceLockTimeDisabled)
                       \/ /\ vm.tx.version >= 2 /\ ~Bit(vm.tx.seq, SequenceLockTimeDisabled)
                          /\ verifyLockTime(Masked(vm.tx.seq), SequenceLockTimeIsSeconds, Masked(n.val)), vm)

-----------------------------------------------------------------------------
\* Stack operations.
opcodeStack(op, vm) ==
    LET ds == vm.ds
        n == PopInt(vm, 0)
        rest == DropN(ds, 1)
        pick == Has(ds, 1) /\ n.ok /\ n.val \in 0 .. Len(rest) - 1
    IN  CASE op.name = "OP_TOALTSTACK" -> If(vm, Has(ds, 1), [vm EXCEPT !.ds = rest, !.as = Append(@, PeekByteArray(ds, 0))])
          [] op.name = "OP_FROMALTSTACK" ->
                If(vm, Has(vm.as, 1), [vm EXCEPT !.ds = Append(@, PeekByteArray(vm.as, 0)), !.as = DropN(@, 1)])
          [] op.name = "OP_2DROP" -> Stack(vm, 2, DropN(ds, 2))
          [] op.name = "OP_2DUP" -> Stack(vm, 2, DupN(ds, 2))
          [] op.name = "OP_3DUP" -> Stack(vm, 3, DupN(ds, 3))
          [] op.name = "OP_2OVER" -> Stack(vm, 4, OverN(ds, 2))
          [] op.name = "OP_2ROT" -> Stack(vm, 6, RotN(ds, 2))
          [] op.name = "OP_2SWAP" -> Stack(vm, 4, SwapN(ds, 2))
          [] op.name = "OP_IFDUP" -> Stack(vm, 1, IF asBool(PeekByteArray(ds, 0)) THEN Copy(ds, 0) ELSE ds)
          [] op.name = "OP_DEPTH" -> Push(vm, ScriptNumBytes(Len(ds)))
          [] op.name = "OP_DROP" -> Stack(vm, 1, rest)
          [] op.name = "OP_DUP" -> Stack(vm, 1, DupN(ds, 1))
          [] op.name = "OP_NIP" -> Stack(vm, 2, nipN(ds, 1))
          [] op.name = "OP_OVER" -> Stack(vm, 2, OverN(ds, 1))
          [] op.name = "OP_PICK" -> If(vm, pick, [vm EXCEPT !.ds = Copy(rest, n.val)])
          [] op.name = "OP_ROLL" -> If(vm, pick, [vm EXCEPT !.ds = Raise(rest, n.val)])
          [] op.name = "OP_ROT" -> Stack(vm, 3, RotN(ds, 1))
          [] op.name = "OP_SWAP" -> Stack(vm, 2, SwapN(ds, 1))
          [] op.name = "OP_TUCK" -> Stack(vm, 2, Tuck(ds))
          [] op.name = "OP_SIZE" -> Stack(vm, 1, Append(ds, ScriptNumBytes(SizeOf(PeekByteArray(ds, 0)))))

opcodeEqual(vm) ==
    If(vm, Has(vm.ds, 2), Replace(vm, 2, fromBool(PeekByteArray(vm.ds, 0) = PeekByteArray(vm.ds, 1))))

Truth(b) == IF b THEN 1 ELSE 0

opcodeUnary(op, vm) ==
    LET f(m) == CASE op.name = "OP_1ADD" -> m + 1
                  [] op.name = "OP_1SUB" -> m - 1
                  [] op.name = "OP_NEGATE" -> -m
                  [] op.name = "OP_ABS" -> Abs(m)
                  [] op.name = "OP_NOT" -> Truth(m = 0)
                  [] OTHER -> Truth(m # 0)
        on(m) == If(vm, Has(vm.ds, 1) /\ m.ok, Replace(vm, 1, ScriptNumBytes(f(m.val))))
    IN  on(PopInt(vm, 0))

opcodeBinary(op, vm) ==
    LET f(a, b) ==
            CASE op.name = "OP_ADD" -> a + b
              [] op.name = "OP_SUB" -> a - b
              [] op.name = "OP_BOOLAND" -> Truth(a # 0 /\ b # 0)
              [] op.name = "OP_BOOLOR" -> Truth(a # 0 \/ b # 0)
              [] op.name \in {"OP_NUMEQUAL", "OP_NUMEQUALVERIFY"} -> Truth(a = b)
              [] op.name = "OP_NUMNOTEQUAL" -> Truth(a # b)
              [] op.name = "OP_LESSTHAN" -> Truth(a < b)
              [] op.name = "OP_GREATERTHAN" -> Truth(a > b)
              [] op.name = "OP_LESSTHANOREQUAL" -> Truth(a <= b)
              [] op.name = "OP_GREATERTHANOREQUAL" -> Truth(a >= b)
              [] op.name = "OP_MIN" -> IF a < b THEN a ELSE b
              [] OTHER -> IF a > b THEN a ELSE b
        on(v0, v1) ==
            If(vm, Has(vm.ds, 2) /\ v0.ok /\ v1.ok, Replace(vm, 2, ScriptNumBytes(f(v1.val, v0.val))))
    IN  on(PopInt(vm, 0), PopInt(vm, 1))

opcodeWithin(vm) ==
    LET on(maxVal, minVal, x) ==
            If(vm, Has(vm.ds, 3) /\ maxVal.ok /\ minVal.ok /\ x.ok,
               Replace(vm, 3, ScriptNumBytes(Truth(x.val >= minVal.val /\ x.val < maxVal.val))))
    IN  on(PopInt(vm, 0), PopInt(vm, 1), PopInt(vm, 2))

opcodeHash(op, vm) ==
    LET x == PeekByteArray(vm.ds, 0)
    IN  If(vm, Has(vm.ds, 1),
           Replace(vm, 1, CASE op.name = "OP_RIPEMD160" -> Ripemd160(x)
                            [] op.name = "OP_SHA1" -> Sha1(x)
                            [] op.name = "OP_SHA256" -> Sha256(x)
                            [] op.name = "OP_HASH160" -> Hash160(x)
                            [] OTHER -> Hash256(x)))
=============================================================================
