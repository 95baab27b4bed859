------------------------------ MODULE BtcJson -------------------------------
(***************************************************************************)
(* The JSON-RPC commands of pkg/rpc/btcjson: what every registered command *)
(* takes, and how a command is turned into parameters and back.  A value   *)
(* is "v" or the literal the code passes; "nil" is a nil pointer.          *)
(***************************************************************************)
EXTENDS Integers, Sequences, FiniteSets, TLC

\* A field of a command: required, optional (a pointer), optional with a default.
R == <<"required">>
O == <<"optional">>
D(v) == <<"default", v>>

BlockCmds ==
    [ addnode |-> <<R, R>>, createrawtransaction |-> <<R, R, O>>, decoderawtransaction |-> <<R>>,
      decodescript |-> <<R>>, getaddednodeinfo |-> <<R, O>>, getbestblockhash |-> << >>,
      getblock |-> <<R, D("true"), D("false")>>, getblockchaininfo |-> << >>, getblockcount |-> << >>,
      getblockhash |-> <<R>>, getblockheader |-> <<R, D("true")>> ]

NodeInfoCmds ==
    [ getblocktemplate |-> <<O>>, getcfilter |-> <<R, R>>, getcfilterheader |-> <<R, R>>,
      getchaintips |-> << >>, getconnectioncount |-> << >>, getdifficulty |-> <<R>>,
      getgenerate |-> << >>, gethashespersec |-> << >>, getinfo |-> << >>, getmempoolentry |-> <<R>>,
      getmempoolinfo |-> << >>, getmininginfo |-> << >>, getnetworkinfo |-> << >>, getnettotals |-> << >> ]

MempoolCmds ==
    [ getnetworkhashps |-> <<D("120"), D("-1")>>, getpeerinfo |-> << >>, getrawmempool |-> <<D("false")>>,
      getrawtransaction |-> <<R, D("0")>>, gettxout |-> <<R, R, D("true")>>, gettxoutproof |-> <<R, O>>,
      gettxoutsetinfo |-> << >>, getwork |-> <<O>>, help |-> <<O>>, invalidateblock |-> <<R>>,
      ping |-> << >>, preciousblock |-> <<R>> ]

SubmitCmds ==
    [ reconsiderblock |-> <<R>>,
      searchrawtransactions |-> <<R, D("1"), D("0"), D("100"), D("0"), D("false"), O>>,
      sendrawtransaction |-> <<R, D("false")>>, setgenerate |-> <<R, D("-1")>>, stop |-> << >>,
      submitblock |-> <<R, O>>, uptime |-> << >>, validateaddress |-> <<R>>,
      verifychain |-> <<D("3"), D("288")>>, verifymessage |-> <<R, R, R>> ]

ProofCmds ==
    [ verifytxoutproof |-> <<R>> ]

NotifyCmds ==
    [ authenticate |-> <<R, R>>, notifyblocks |-> << >>, stopnotifyblocks |-> << >>,
      notifynewtransactions |-> <<D("false")>>, session |-> << >>, stopnotifynewtransactions |-> << >>,
      notifyreceived |-> <<R>>, loadtxfilter |-> <<R, R, R>>, notifyspent |-> <<R>>,
      stopnotifyreceived |-> <<R>>, stopnotifyspent |-> <<R>>, rescan |-> <<R, R, R, O>> ]

RescanBlocksCmds ==
    [ rescanblocks |-> <<R>> ]

AccountCmds ==
    [ addmultisigaddress |-> <<R, R, O>>, addwitnessaddress |-> <<R>>, createmultisig |-> <<R, R>>,
      dumpprivkey |-> <<R>>, encryptwallet |-> <<R>>, estimatefee |-> <<R>>, estimatepriority |-> <<R>>,
      getaccount |-> <<R>>, getaccountaddress |-> <<R>>, getaddressesbyaccount |-> <<R>>,
      getbalance |-> <<O, D("1")>> ]

AddressCmds ==
    [ getnewaddress |-> <<O>>, getrawchangeaddress |-> <<O>>, getreceivedbyaccount |-> <<R, D("1")>>,
      getreceivedbyaddress |-> <<R, D("1")>>, gettransaction |-> <<R, D("false")>>,
      getwalletinfo |-> << >>, importprivkey |-> <<R, O, D("true")>>, keypoolrefill |-> <<D("100")>>,
      listaccounts |-> <<D("1")>>, listaddressgroupings |-> << >>, listlockunspent |-> << >>,
      listreceivedbyaccount |-> <<D("1"), D("false"), D("false")>> ]

ListingCmds ==
    [ listreceivedbyaddress |-> <<D("1"), D("false"), D("false")>>,
      listsinceblock |-> <<O, D("1"), D("false")>>,
      listtransactions |-> <<O, D("10"), D("0"), D("false")>>,
      listunspent |-> <<D("1"), D("9999999"), O>>, lockunspent |-> <<R, R>>,
      move |-> <<R, R, R, D("1"), O>>, sendfrom |-> <<R, R, R, D("1"), O, O>>,
      sendmany |-> <<R, R, D("1"), O>> ]

SigningCmds ==
    [ sendtoaddress |-> <<R, R, O, O>>, setaccount |-> <<R, R>>, settxfee |-> <<R>>,
      signmessage |-> <<R, R>>, signrawtransaction |-> <<R, O, O, D("ALL")>>, walletlock |-> << >>,
      walletpassphrase |-> <<R, R>>, walletpassphrasechange |-> <<R, R>> ]

WalletWsCmds ==
    [ createencryptedwallet |-> <<R>>, exportwatchingwallet |-> <<O, D("false")>>,
      getunconfirmedbalance |-> <<O>>, listaddresstransactions |-> <<R, O>>,
      listalltransactions |-> <<O>>, recoveraddresses |-> <<R, R>>, walletislocked |-> << >> ]

BtcdExtCmds ==
    [ node |-> <<R, R, O>>, debuglevel |-> <<R>>, generate |-> <<R>>, getbestblock |-> << >>,
      getcurrentnet |-> << >>, getheaders |-> <<R, R>>, version |-> << >> ]

BtcwalletExtCmds ==
    [ createnewaccount |-> <<R>>, dumpwallet |-> <<R>>, importaddress |-> <<R, R, D("true")>>,
      importpubkey |-> <<R, D("true")>>, importwallet |-> <<R>>, renameaccount |-> <<R, R>> ]

BlockNtfns ==
    [ blockconnected |-> <<R, R, R>>, blockdisconnected |-> <<R, R, R>>,
      filteredblockconnected |-> <<R, R, R>>, filteredblockdisconnected |-> <<R, R>>, recvtx |-> <<R, O>>,
      redeemingtx |-> <<R, O>>, rescanfinished |-> <<R, R, R>>, rescanprogress |-> <<R, R, R>>,
      txaccepted |-> <<R, R>> ]

MempoolNtfns ==
    [ txacceptedverbose |-> <<R>>, relevanttxaccepted |-> <<R>> ]

WalletNtfns ==
    [ accountbalance |-> <<R, R, R>>, podconnected |-> <<R>>, walletlockstate |-> <<R>>,
      newtx |-> <<R, R>> ]

methodToInfo ==
    BlockCmds @@ NodeInfoCmds @@ MempoolCmds @@ SubmitCmds @@ ProofCmds @@ NotifyCmds
    @@ RescanBlocksCmds @@ AccountCmds @@ AddressCmds @@ ListingCmds @@ SigningCmds
    @@ WalletWsCmds @@ BtcdExtCmds @@ BtcwalletExtCmds @@ BlockNtfns @@ MempoolNtfns
    @@ WalletNtfns

-----------------------------------------------------------------------------
numReqParams(method) == Cardinality({ i \in DOMAIN methodToInfo[method] : methodToInfo[method][i] = R })
maxParams(method) == Len(methodToInfo[method])

\* RegisterCmd: once a field is optional, all that follow are.
RegisterCmd(method) ==
    \A i \in 1 .. maxParams(method) : methodToInfo[method][i] = R => i <= numReqParams(method)

\* The parameters end at the first optional field that is nil.
makeParams(method, cmd) ==
    LET nils == { i \in 1 .. maxParams(method) : methodToInfo[method][i] # R /\ cmd[i] = "nil" }
        first == CHOOSE i \in nils : \A j \in nils : i <= j
    IN  IF nils = {} THEN cmd ELSE SubSeq(cmd, 1, first - 1)

MarshalCmd(method, cmd) ==
    IF method \notin DOMAIN methodToInfo THEN [err |-> "UnregisteredMethod"]
    ELSE [method |-> method, params |-> makeParams(method, cmd)]

checkNumParams(n, method) == n >= numReqParams(method) /\ n <= maxParams(method)

populateDefaults(n, method) ==
    [i \in n + 1 .. maxParams(method) |->
        IF methodToInfo[method][i][1] = "default" THEN methodToInfo[method][i][2] ELSE "nil"]

UnmarshalCmd(r) ==
    IF r.method \notin DOMAIN methodToInfo THEN [err |-> "UnregisteredMethod"]
    ELSE IF ~checkNumParams(Len(r.params), r.method) THEN [err |-> "NumParams"]
    ELSE [cmd |-> [i \in 1 .. maxParams(r.method) |->
                     IF i <= Len(r.params) THEN r.params[i] ELSE populateDefaults(Len(r.params), r.method)[i]]]

-----------------------------------------------------------------------------
\* Integers of Wide bits stand for the 64-bit ones, of Narrow bits for the
\* smaller ones.  A source value has the kind of its Go type; a string also
\* has the form that its text has.
Wide == 4
Narrow == 3
SInt(w) == [kind |-> "int", width |-> w]
Uint(w) == [kind |-> "uint", width |-> w]
Plain(kind) == [kind |-> kind, width |-> 0]

Kinds == { SInt(Wide), SInt(Narrow), Uint(Wide), Uint(Narrow) }
         \cup { Plain(k) : k \in {"float", "bool", "string", "slice", "struct"} }

Fits(n, t) ==
    IF t.kind = "int" THEN n >= -(2 ^ (t.width - 1)) /\ n < 2 ^ (t.width - 1)
    ELSE n >= 0 /\ n < 2 ^ t.width

isNumeric(t) == t.kind \in {"int", "uint", "float"}

typesMaybeCompatible(dest, src) ==
    \/ dest = src
    \/ isNumeric(dest) /\ isNumeric(src)
    \/ src.kind = "string"

\* What the text of a string can be parsed as: ParseInt, ParseUint, ParseFloat,
\* ParseBool (it knows 0 and 1 too), json.Unmarshal.
Parses(v, dest) ==
    CASE dest.kind = "int" -> v.form = "number" /\ Fits(v.num, SInt(Wide))
      [] dest.kind = "uint" -> v.form = "number" /\ Fits(v.num, Uint(Wide))
      [] dest.kind = "float" -> v.form = "number"
      [] dest.kind = "bool" -> v.form = "bool" \/ (v.form = "number" /\ v.num \in {0, 1})
      [] dest.kind \in {"slice", "struct"} -> v.form = dest.kind
      [] OTHER -> TRUE

\* A value of type src is stored in a field of type dest, or is refused.
assignField(dest, src, v) ==
    IF dest = src THEN [val |-> v]
    ELSE IF /\ typesMaybeCompatible(dest, src)
            /\ src.kind \in {"int", "uint"} => dest.kind \in {"int", "uint"} /\ Fits(v.num, dest)
            /\ src.kind = "float" => dest.kind = "float"
            /\ src.kind = "string" =>
                  Parses(v, dest) /\ (dest.kind \in {"int", "uint"} => Fits(v.num, dest))
    THEN [val |-> v]
    ELSE [err |-> "InvalidType"]

\* NewCmd takes the arguments in order and sets no default.
NewCmd(method, args) ==
    IF method \notin DOMAIN methodToInfo THEN [err |-> "UnregisteredMethod"]
    ELSE IF ~checkNumParams(Len(args), method) THEN [err |-> "NumParams"]
    ELSE [cmd |-> [i \in 1 .. maxParams(method) |-> IF i <= Len(args) THEN args[i] ELSE "nil"]]

=============================================================================
