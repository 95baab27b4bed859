----------------------------- MODULE RpcServers ------------------------------
(***************************************************************************)
(* The two JSON-RPC servers: the node's (cmd/node/rpc) and the wallet's    *)
(* (pkg/rpc/legacy), which passes what it does not handle to the node.  A  *)
(* handler is the errors it may give up with, in the order it looks for    *)
(* them, and the kinds of JSON value it otherwise answers with.            *)
(***************************************************************************)
EXTENDS BtcJson

\* The i-th thing that can go wrong does (0: nothing does).
H(checks, kinds) == [checks |-> checks, kinds |-> kinds]
Hex == "DecodeHexString"
Param == "InvalidParameter"
Addr == "InvalidAddressOrKey"

-----------------------------------------------------------------------------
\* The node's handlers.  Those whose answer depends on a parameter take the
\* command, a sequence of values.
AddNodeHandlers ==
    [ addnode |-> H(<<Param, Param>>, {"null"}),
      createrawtransaction |-> H(<<Param, Hex, "Type", Addr, Addr, Addr, "Internal", "Internal", "Internal">>, {"string"}) ]

DecodeHandlers ==
    [ decoderawtransaction |-> H(<<Hex, "Deserialization">>, {"object"}),
      decodescript |-> H(<<Hex, "Internal">>, {"object"}),
      estimatefee |-> H(<<"Disabled", "NotPositive", "Estimate">>, {"number"}),
      generate |-> H(<<"Internal", "Difficulty", "Internal", "Internal">>, {"array"}) ]

NodeInfoHandlers ==
    [ getaddednodeinfo |-> H(<<"ClientNodeNotAdded">>, {"array"}),
      getbestblock |-> H(<< >>, {"object"}), getbestblockhash |-> H(<< >>, {"string"}) ]

HandleGetBlock(c) ==
    IF c[2] = "false" THEN H(<<Hex, "BlockNotFound">>, {"string"})
    ELSE H(<<Hex, "BlockNotFound", "Internal", "Internal", "Internal", "Internal">>, {"object"})

ChainInfoHandlers ==
    [ getblockchaininfo |-> H(<<"Internal", "Internal", "Internal">>, {"object"}),
      getblockcount |-> H(<< >>, {"number"}), getblockhash |-> H(<<"OutOfRange">>, {"string"}) ]

HandleGetBlockHeader(c) ==
    IF c[2] = "false" THEN H(<<Hex, "BlockNotFound", "Internal">>, {"string"})
    ELSE H(<<Hex, "BlockNotFound", "Internal", "Internal">>, {"object"})

\* A template request answers an object; a proposal null or the reason it is refused.
HandleGetBlockTemplate ==
    H(<<Param, "Internal", "ClientNotConnected", "ClientInInitialDownload", "Deserialization", "Verify">>,
      {"object", "string", "null"})

FilterHandlers ==
    [ getcfilter |-> H(<<"NoCFIndex", Hex, "BlockNotFound">>, {"string"}),
      getcfilterheader |-> H(<<"NoCFIndex", Hex, "BlockNotFound">>, {"string"}),
      getconnectioncount |-> H(<< >>, {"number"}), getcurrentnet |-> H(<< >>, {"number"}),
      getdifficulty |-> H(<< >>, {"number"}) ]

MiningHandlers ==
    [ getgenerate |-> H(<< >>, {"bool"}), gethashespersec |-> H(<< >>, {"number"}),
      getheaders |-> H(<<Hex, Hex, "Internal">>, {"array"}) ]

HandleGetInfo == H(<< >>, {"object"})

HandleGetMiningInfo == H(<<"Internal", "Internal">>, {"object"})

NetworkHandlers ==
    [ getmempoolinfo |-> H(<< >>, {"object"}), getnettotals |-> H(<< >>, {"object"}),
      getnetworkhashps |-> H(<<"Internal", "Internal">>, {"number"}), getpeerinfo |-> H(<< >>, {"array"}) ]

HandleGetRawMempool(c) == H(<< >>, IF c[1] = "true" THEN {"object"} ELSE {"array"})

HandleGetRawTransaction(c) ==
    IF c[2] \in {"nil", "0"} THEN H(<<Hex, "NoTxInfo", "Internal", "NoTxInfo", "NoTxInfo">>, {"string"})
    ELSE H(<<Hex, "NoTxInfo", "Internal", "NoTxInfo", "NoTxInfo", "Internal", "Internal", "Internal">>, {"object"})

HandleGetTxOut == H(<<Hex, "NoTxInfo", "InvalidTxVout", "Internal", "NoTxInfo">>, {"object", "null"})

HandleGetWork(c) ==
    IF c[1] = "nil" THEN H(<<"Internal", "ClientNotConnected", "ClientInInitialDownload", "Internal", "Internal">>, {"object"})
    ELSE H(<<"Internal", "ClientNotConnected", "ClientInInitialDownload", Param, Param, Param, "Internal", "Internal">>,
           {"bool"})

ControlHandlers ==
    [ help |-> H(<<"Internal", Param, "Internal">>, {"string"}),
      node |-> H(<<Param, "Misc", Param, "Misc", Param, Param, Param>>, {"null"}), ping |-> H(<<"Internal">>, {"null"}) ]

HandleSearchRawTransactions ==
    H(<<"Misc", "Misc", Addr, "Internal", "NoTxInfo", "Internal", "Internal", "BlockNotFound", "Internal">>,
      {"array", "null"})

SubmitHandlers ==
    [ sendrawtransaction |-> H(<<Hex, "Deserialization", "Deserialization", "Internal">>, {"string"}),
      setgenerate |-> H(<<"Internal">>, {"null"}), stop |-> H(<< >>, {"string"}),
      submitblock |-> H(<<Hex, "Deserialization">>, {"string", "null"}) ]

VerifyHandlers ==
    [ uptime |-> H(<< >>, {"number"}), validateaddress |-> H(<< >>, {"object"}),
      verifychain |-> H(<< >>, {"bool"}), verifymessage |-> H(<<Addr, "Type", "Parse">>, {"bool"}),
      version |-> H(<< >>, {"object"}) ]

PlainHandlers ==
    AddNodeHandlers @@ DecodeHandlers @@ NodeInfoHandlers @@ ChainInfoHandlers @@ FilterHandlers
    @@ MiningHandlers @@ NetworkHandlers @@ ControlHandlers @@ SubmitHandlers @@ VerifyHandlers
    @@ [ getblocktemplate |-> HandleGetBlockTemplate, getinfo |-> HandleGetInfo,
         getmininginfo |-> HandleGetMiningInfo, gettxout |-> HandleGetTxOut,
         searchrawtransactions |-> HandleSearchRawTransactions ]

RPCHandlers ==
    DOMAIN PlainHandlers \cup {"getblock", "getblockheader", "getrawmempool", "getrawtransaction", "getwork"}

Handler(method, c) ==
    CASE method = "getblock" -> HandleGetBlock(c)
      [] method = "getblockheader" -> HandleGetBlockHeader(c)
      [] method = "getrawmempool" -> HandleGetRawMempool(c)
      [] method = "getrawtransaction" -> HandleGetRawTransaction(c)
      [] method = "getwork" -> HandleGetWork(c)
      [] OTHER -> PlainHandlers[method]

RPCAskWallet ==
    { "addmultisigaddress", "backupwallet", "createencryptedwallet", "createmultisig", "dumpprivkey",
      "dumpwallet", "encryptwallet", "getaccount", "getaccountaddress", "getaddressesbyaccount",
      "getbalance", "getnewaddress", "getrawchangeaddress", "getreceivedbyaccount",
      "getreceivedbyaddress", "gettransaction", "gettxoutsetinfo", "getunconfirmedbalance",
      "getwalletinfo", "importprivkey", "importwallet", "keypoolrefill", "listaccounts",
      "listaddressgroupings", "listlockunspent", "listreceivedbyaccount", "listreceivedbyaddress",
      "listsinceblock", "listtransactions", "listunspent", "lockunspent", "move", "sendfrom",
      "sendmany", "sendtoaddress", "setaccount", "settxfee", "signmessage", "signrawtransaction",
      "walletlock", "walletpassphrase", "walletpassphrasechange" }

RPCUnimplemented ==
    { "estimatepriority", "getchaintips", "getmempoolentry", "getnetworkinfo", "getwork",
      "invalidateblock", "preciousblock", "reconsiderblock" }

RPCLimited ==
    { "loadtxfilter", "notifyblocks", "notifynewtransactions", "notifyreceived", "notifyspent",
      "rescan", "rescanblocks", "session", "help", "createrawtransaction", "decoderawtransaction",
      "decodescript", "estimatefee", "getbestblock", "getbestblockhash", "getblock", "getblockcount",
      "getblockhash", "getblockheader", "getcfilter", "getcfilterheader", "getcurrentnet",
      "getdifficulty", "getheaders", "getinfo", "getnettotals", "getnetworkhashps", "getrawmempool",
      "getrawtransaction", "gettxout", "searchrawtransactions", "sendrawtransaction", "submitblock",
      "uptime", "validateaddress", "verifymessage", "version" }

\* What only a websocket client may ask for.
WSNotifyHandlers ==
    [ loadtxfilter |-> H(<<Param>>, {"null"}), notifyblocks |-> H(<< >>, {"null"}),
      notifynewtransactions |-> H(<< >>, {"null"}), notifyreceived |-> H(<<Addr>>, {"null"}),
      notifyspent |-> H(<<Hex>>, {"null"}) ]

WSRescanHandlers ==
    [ rescan |-> H(<<Hex, Addr, "BlockNotFound", "Database">>, {"null"}),
      rescanblocks |-> H(<<"Misc", Hex, "BlockNotFound", "InvalidParameter">>, {"array"}) ]

WSStopHandlers ==
    [ session |-> H(<< >>, {"object"}), stopnotifyblocks |-> H(<< >>, {"null"}),
      stopnotifynewtransactions |-> H(<< >>, {"null"}), stopnotifyspent |-> H(<<Hex>>, {"null"}),
      stopnotifyreceived |-> H(<<Addr>>, {"null"}), help |-> H(<<"Internal", Param, "Internal">>, {"string"}) ]

WSHandlers == WSNotifyHandlers @@ WSRescanHandlers @@ WSStopHandlers

\* What a handler answers when its fail-th check fails.
Answer(h, fail) ==
    IF fail \in DOMAIN h.checks THEN [err |-> h.checks[fail]] ELSE [kinds |-> h.kinds]

StandardCmdResult(method, c, fail) ==
    IF method \in RPCHandlers THEN Answer(Handler(method, c), fail)
    ELSE IF method \in RPCAskWallet THEN [err |-> "NoWallet"]
    ELSE IF method \in RPCUnimplemented THEN [err |-> "Unimplemented"]
    ELSE [err |-> "MethodNotFound"]

ServiceRequest(method, c, fail) ==
    IF method \in DOMAIN WSHandlers THEN Answer(WSHandlers[method], fail)
    ELSE StandardCmdResult(method, c, fail)

ParseError(u) == IF u.err = "UnregisteredMethod" THEN "MethodNotFound" ELSE "InvalidParams"

\* A request in the body of a POST: who asks is looked at before what is asked.
JSONRPCRead(r, admin, fail) ==
    LET u == UnmarshalCmd(r)
    IN  IF ~admin /\ r.method \notin RPCLimited THEN [err |-> "InvalidParams"]
        ELSE IF "err" \in DOMAIN u THEN [err |-> ParseError(u)]
        ELSE StandardCmdResult(r.method, u.cmd, fail)

\* A request over a websocket whose client has authenticated.
InHandler(r, admin, fail) ==
    LET u == UnmarshalCmd(r)
    IN  IF "err" \in DOMAIN u THEN [err |-> ParseError(u)]
        ELSE IF r.method = "authenticate" THEN [err |-> "disconnected"]
        ELSE IF ~admin /\ r.method \notin RPCLimited THEN [err |-> "InvalidParams"]
        ELSE ServiceRequest(r.method, u.cmd, fail)

-----------------------------------------------------------------------------
\* The wallet's handlers.
WalletAccountHandlers ==
    [ addmultisigaddress |-> H(<<"NotImportedAccount", "Parse", "Wallet">>, {"string"}),
      createmultisig |-> H(<<"Parse", "Wallet">>, {"object"}),
      dumpprivkey |-> H(<<Addr, "WalletUnlockNeeded">>, {"string"}),
      getaddressesbyaccount |-> H(<<"Wallet", "Wallet">>, {"array"}) ]

WalletBalanceHandlers ==
    [ getbalance |-> H(<<"Wallet", "Wallet">>, {"number"}), getbestblock |-> H(<< >>, {"object"}),
      getbestblockhash |-> H(<< >>, {"string"}), getblockcount |-> H(<< >>, {"number"}),
      getinfo |-> H(<<"Wallet", "Wallet">>, {"object"}),
      getaccount |-> H(<<Addr, "AddressNotInWallet", "AccountNameNotFound">>, {"string"}),
      getaccountaddress |-> H(<<"Wallet", "Wallet">>, {"string"}) ]

WalletImportHandlers ==
    [ getunconfirmedbalance |-> H(<<"Wallet", "Wallet">>, {"number"}),
      importprivkey |-> H(<<"NotImportedAccount", Addr, Addr, "WalletUnlockNeeded", "Wallet">>, {"null"}),
      keypoolrefill |-> H(<< >>, {"null"}),
      createnewaccount |-> H(<<"ReservedAccountName", "WalletUnlockNeeded", "Wallet">>, {"null"}),
      renameaccount |-> H(<<"ReservedAccountName", "Wallet", "Wallet">>, {"null"}),
      getnewaddress |-> H(<<"Wallet", "Wallet">>, {"string"}) ]

WalletReceivedHandlers ==
    [ getrawchangeaddress |-> H(<<"Wallet", "Wallet">>, {"string"}),
      getreceivedbyaccount |-> H(<<"Wallet", "Wallet">>, {"number"}),
      getreceivedbyaddress |-> H(<<Addr, "Wallet">>, {"number"}),
      gettransaction |-> H(<<Hex, "Wallet", "NoTransactionInfo", "Wallet">>, {"object"}) ]

WalletHelpHandlers ==
    [ help |-> H(<<Param>>, {"string"}), listaccounts |-> H(<<"Wallet">>, {"object"}),
      listlockunspent |-> H(<< >>, {"array"}), listreceivedbyaccount |-> H(<<"Wallet">>, {"array"}) ]

WalletListHandlers ==
    [ listreceivedbyaddress |-> H(<<"Wallet">>, {"array"}),
      listsinceblock |-> H(<<"Deserialization", "Wallet", "Wallet", "Wallet">>, {"object"}),
      listtransactions |-> H(<<"Wallet", "Wallet">>, {"array"}),
      listaddresstransactions |-> H(<<Param, Addr, "Wallet">>, {"array"}),
      listalltransactions |-> H(<<Param, "Wallet">>, {"array"}),
      listunspent |-> H(<<Param, "Wallet">>, {"array"}), lockunspent |-> H(<<"Parse">>, {"bool"}) ]

\* SendPairs is the end of all three: no output, a wallet that is locked, no funds.
SendPairs == <<"Wallet", "NeedPositiveAmount", "WalletUnlockNeeded", "Internal">>

WalletSendHandlers ==
    [ sendfrom |-> H(<<"Unimplemented", "Wallet", "NeedPositiveAmount", "NeedPositiveMinconf", "Wallet">> \o SendPairs, {"string"}),
      sendmany |-> H(<<"Unimplemented", "Wallet", "NeedPositiveMinconf", "Wallet">> \o SendPairs, {"string"}),
      sendtoaddress |-> H(<<"Unimplemented", "Wallet", "NeedPositiveAmount">> \o SendPairs, {"string"}),
      settxfee |-> H(<<"NeedPositiveAmount">>, {"bool"}), signmessage |-> H(<<Addr, "Wallet", "Wallet">>, {"string"}) ]

HandleSignRawTransaction ==
    H(<<Hex, "Deserialization", Param, "Deserialization", Hex, Hex, "Deserialization", "Deserialization",
        "Deserialization", "Deserialization", "Wallet", "Wallet">>, {"object"})

WalletLockHandlers ==
    [ validateaddress |-> H(<<"Wallet", "AccountNameNotFound">>, {"object"}),
      verifymessage |-> H(<<Addr, "Parse", "Wallet", "Wallet">>, {"bool"}),
      walletislocked |-> H(<< >>, {"bool"}), walletlock |-> H(<< >>, {"null"}),
      walletpassphrase |-> H(<<"Wallet">>, {"null"}),
      walletpassphrasechange |-> H(<<"WalletPassphraseIncorrect", "Wallet">>, {"null"}) ]

\* Listed and not there: unimplemented, or refused by design.
Refusing ==
    [ m \in {"backupwallet", "dumpwallet", "getwalletinfo", "importwallet", "listaddressgroupings"} |->
        H(<<"Unimplemented">>, {}) ]
    @@ [ m \in {"encryptwallet", "move", "setaccount"} |-> H(<<"Unsupported">>, {}) ]

WalletHandlers ==
    WalletAccountHandlers @@ WalletBalanceHandlers @@ WalletImportHandlers @@ WalletReceivedHandlers
    @@ WalletHelpHandlers @@ WalletListHandlers @@ WalletSendHandlers @@ WalletLockHandlers
    @@ [ signrawtransaction |-> HandleSignRawTransaction ] @@ Refusing

NeedChain == {"getinfo", "listsinceblock", "sendfrom", "signrawtransaction"}

\* w: a wallet is loaded.  client: none, the node's RPC client, or another kind.
LazyApplyHandler(r, w, client, fail) ==
    LET u == UnmarshalCmd(r)
        run == IF "err" \in DOMAIN u THEN [err |-> "InvalidRequest"]
               ELSE IF r.method \in DOMAIN Refusing THEN Answer(WalletHandlers[r.method], 1)
               ELSE Answer(WalletHandlers[r.method], fail)
    IN  IF r.method \in DOMAIN WalletHandlers /\ w /\ client # "none" /\ r.method \in NeedChain \cup {"help"}
        THEN IF client = "rpc" THEN run ELSE [err |-> "ChainInactive"]
        ELSE IF r.method \in DOMAIN WalletHandlers \ NeedChain /\ w THEN run
        ELSE IF client = "rpc" THEN InHandler(r, TRUE, fail)
        ELSE [err |-> "ChainInactive"]

-----------------------------------------------------------------------------
\* What the help says a command answers with.
ResultTypes ==
    [ m \in {"addnode", "node", "ping", "setgenerate", "loadtxfilter", "notifyblocks", "stopnotifyblocks",
             "notifynewtransactions", "stopnotifynewtransactions", "notifyreceived", "stopnotifyreceived",
             "notifyspent", "stopnotifyspent", "rescan"} |-> {"null"} ]
    @@ [ m \in {"createrawtransaction", "getbestblockhash", "getblockhash", "getcfilter",
                "getcfilterheader", "help", "sendrawtransaction", "stop"} |-> {"string"} ]
    @@ [ m \in {"decoderawtransaction", "decodescript", "getbestblock", "getblockchaininfo", "getinfo",
                "getmempoolinfo", "getmininginfo", "getnettotals", "gettxout", "validateaddress",
                "version", "session"} |-> {"object"} ]
    @@ [ m \in {"estimatefee", "getblockcount", "getconnectioncount", "getcurrentnet", "getdifficulty",
                "gethashespersec", "getnetworkhashps", "uptime"} |-> {"number"} ]
    @@ [ m \in {"generate", "getaddednodeinfo", "getheaders", "getpeerinfo", "rescanblocks"} |-> {"array"} ]
    @@ [ m \in {"getblock", "getblockheader", "getrawtransaction"} |-> {"string", "object"} ]
    @@ [ m \in {"getgenerate", "verifychain", "verifymessage"} |-> {"bool"} ]
    @@ [ getblocktemplate |-> {"object", "string", "null"}, getrawmempool |-> {"array", "object"},
         searchrawtransactions |-> {"string", "array"}, submitblock |-> {"null", "string"} ]

RPCMethodHelp(method) ==
    IF method \in DOMAIN ResultTypes THEN [help |-> ResultTypes[method]] ELSE [err |-> "NoResultTypes"]

=============================================================================
