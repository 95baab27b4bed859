------------------------------ MODULE RpcCalls ------------------------------
(***************************************************************************)
(* The calls of pkg/rpc/client.  A call is the command it sends, the       *)
(* argument it gives to every field ("?" when the caller may leave it nil) *)
(* and the kind of JSON value that its Receive decodes ("nothing" when the *)
(* result is not looked at).                                               *)
(***************************************************************************)
EXTENDS Naturals, TLC

BlockCalls ==
    [ GetBestBlockHashAsync |-> <<"getbestblockhash", << >>, "string">>,
      GetBlockAsync |-> <<"getblock", <<"v", "false", "nil">>, "string">>,
      GetBlockVerboseAsync |-> <<"getblock", <<"v", "true", "nil">>, "object">>,
      GetBlockVerboseTxAsync |-> <<"getblock", <<"v", "true", "true">>, "object">>,
      GetBlockCountAsync |-> <<"getblockcount", << >>, "number">> ]

ChainInfoCalls ==
    [ GetDifficultyAsync |-> <<"getdifficulty", <<"v">>, "number">>,
      GetBlockChainInfoAsync |-> <<"getblockchaininfo", << >>, "object">>,
      GetBlockHashAsync |-> <<"getblockhash", <<"v">>, "string">>,
      GetBlockHeaderAsync |-> <<"getblockheader", <<"v", "false">>, "string">> ]

HeaderCalls ==
    [ GetBlockHeaderVerboseAsync |-> <<"getblockheader", <<"v", "true">>, "object">>,
      GetMempoolEntryAsync |-> <<"getmempoolentry", <<"v">>, "object">>,
      GetRawMempoolAsync |-> <<"getrawmempool", <<"false">>, "array">>,
      GetRawMempoolVerboseAsync |-> <<"getrawmempool", <<"true">>, "object">> ]

VerifyCalls ==
    [ EstimateFeeAsync |-> <<"estimatefee", <<"v">>, "number">>,
      VerifyChainAsync |-> <<"verifychain", <<"nil", "nil">>, "bool">>,
      VerifyChainLevelAsync |-> <<"verifychain", <<"v", "nil">>, "bool">>,
      VerifyChainBlocksAsync |-> <<"verifychain", <<"v", "v">>, "bool">>,
      GetTxOutAsync |-> <<"gettxout", <<"v", "v", "v">>, "object">>,
      RescanBlocksAsync |-> <<"rescanblocks", <<"v">>, "array">> ]

FilterCalls ==
    [ InvalidateBlockAsync |-> <<"invalidateblock", <<"v">>, "nothing">>,
      GetCFilterAsync |-> <<"getcfilter", <<"v", "v">>, "string">>,
      GetCFilterHeaderAsync |-> <<"getcfilterheader", <<"v", "v">>, "string">> ]

ExtensionCalls ==
    [ DebugLevelAsync |-> <<"debuglevel", <<"v">>, "string">>,
      CreateEncryptedWalletAsync |-> <<"createencryptedwallet", <<"v">>, "nothing">>,
      ListAddressTransactionsAsync |-> <<"listaddresstransactions", <<"v", "v">>, "array">>,
      GetBestBlockAsync |-> <<"getbestblock", << >>, "object">>,
      GetCurrentNetAsync |-> <<"getcurrentnet", << >>, "number">> ]

GetHeadersCalls ==
    [ GetHeadersAsync |-> <<"getheaders", <<"v", "v">>, "array">>,
      ExportWatchingWalletAsync |-> <<"exportwatchingwallet", <<"v", "true">>, "object">>,
      SessionAsync |-> <<"session", << >>, "object">> ]

VersionCalls ==
    [ VersionAsync |-> <<"version", << >>, "object">> ]

GenerateCalls ==
    [ GenerateAsync |-> <<"generate", <<"v">>, "array">>,
      GetGenerateAsync |-> <<"getgenerate", << >>, "bool">>,
      SetGenerateAsync |-> <<"setgenerate", <<"v", "v">>, "nothing">>,
      GetHashesPerSecAsync |-> <<"gethashespersec", << >>, "number">>,
      GetMiningInfoAsync |-> <<"getmininginfo", << >>, "object">> ]

WorkCalls ==
    [ GetNetworkHashPSAsync |-> <<"getnetworkhashps", <<"nil", "nil">>, "number">>,
      GetNetworkHashPS2Async |-> <<"getnetworkhashps", <<"v", "nil">>, "number">>,
      GetNetworkHashPS3Async |-> <<"getnetworkhashps", <<"v", "v">>, "number">>,
      GetWorkAsync |-> <<"getwork", <<"nil">>, "object">>,
      GetWorkSubmitAsync |-> <<"getwork", <<"v">>, "bool">>,
      SubmitBlockAsync |-> <<"submitblock", <<"v", "?">>, "string">> ]

NodeCalls ==
    [ AddNodeAsync |-> <<"addnode", <<"v", "v">>, "nothing">>,
      NodeAsync |-> <<"node", <<"v", "v", "?">>, "nothing">>,
      GetAddedNodeInfoAsync |-> <<"getaddednodeinfo", <<"true", "v">>, "array">>,
      GetAddedNodeInfoNoDNSAsync |-> <<"getaddednodeinfo", <<"false", "v">>, "array">>,
      GetConnectionCountAsync |-> <<"getconnectioncount", << >>, "number">> ]

PeerCalls ==
    [ PingAsync |-> <<"ping", << >>, "nothing">>, GetPeerInfoAsync |-> <<"getpeerinfo", << >>, "array">>,
      GetNetTotalsAsync |-> <<"getnettotals", << >>, "object">> ]

GetTxCalls ==
    [ GetRawTransactionAsync |-> <<"getrawtransaction", <<"v", "0">>, "string">>,
      GetRawTransactionVerboseAsync |-> <<"getrawtransaction", <<"v", "1">>, "object">>,
      DecodeRawTransactionAsync |-> <<"decoderawtransaction", <<"v">>, "object">> ]

CreateTxCalls ==
    [ CreateRawTransactionAsync |-> <<"createrawtransaction", <<"v", "v", "?">>, "string">>,
      SendRawTransactionAsync |-> <<"sendrawtransaction", <<"v", "v">>, "string">>,
      SignRawTransactionAsync |-> <<"signrawtransaction", <<"v", "nil", "nil", "nil">>, "object">> ]

\* A mutant of SignTxCalls: without inputs the keys are passed alone.
KeysAlone ==
    [ SignRawTransaction2Async |-> <<"signrawtransaction", <<"v", "v", "nil", "nil">>, "object">>,
      SignRawTransaction3Async |-> <<"signrawtransaction", <<"v", "nil", "v", "nil">>, "object">>,
      SignRawTransaction4Async |-> <<"signrawtransaction", <<"v", "v", "v", "v">>, "object">>,
      SearchRawTransactionsAsync |-> <<"searchrawtransactions", <<"v", "0", "v", "v", "nil", "v", "v">>, "array">> ]

SignTxCalls ==
    [ SignRawTransaction2Async |-> <<"signrawtransaction", <<"v", "v", "nil", "nil">>, "object">>,
      SignRawTransaction3Async |-> <<"signrawtransaction", <<"v", "v", "v", "nil">>, "object">>,
      SignRawTransaction4Async |-> <<"signrawtransaction", <<"v", "v", "v", "v">>, "object">>,
      SearchRawTransactionsAsync |-> <<"searchrawtransactions", <<"v", "0", "v", "v", "nil", "v", "v">>, "array">> ]

SearchTxCalls ==
    [ SearchRawTransactionsVerboseAsync |-> <<"searchrawtransactions", <<"v", "1", "v", "v", "?", "v", "?">>, "array">>,
      DecodeScriptAsync |-> <<"decodescript", <<"v">>, "object">> ]

TransactionCalls ==
    [ GetTransactionAsync |-> <<"gettransaction", <<"v", "nil">>, "object">>,
      ListTransactionsAsync |-> <<"listtransactions", <<"v", "nil", "nil", "nil">>, "array">>,
      ListTransactionsCountAsync |-> <<"listtransactions", <<"v", "v", "nil", "nil">>, "array">>,
      ListTransactionsCountFromAsync |-> <<"listtransactions", <<"v", "v", "v", "nil">>, "array">> ]

UnspentCalls ==
    [ ListUnspentAsync |-> <<"listunspent", <<"nil", "nil", "nil">>, "array">>,
      ListUnspentMinAsync |-> <<"listunspent", <<"v", "nil", "nil">>, "array">>,
      ListUnspentMinMaxAsync |-> <<"listunspent", <<"v", "v", "nil">>, "array">>,
      ListUnspentMinMaxAddressesAsync |-> <<"listunspent", <<"v", "v", "v">>, "array">>,
      ListSinceBlockAsync |-> <<"listsinceblock", <<"?", "nil", "nil">>, "object">> ]

LockCalls ==
    [ ListSinceBlockMinConfAsync |-> <<"listsinceblock", <<"?", "v", "nil">>, "object">>,
      LockUnspentAsync |-> <<"lockunspent", <<"v", "v">>, "nothing">>,
      ListLockUnspentAsync |-> <<"listlockunspent", << >>, "array">>,
      SetTxFeeAsync |-> <<"settxfee", <<"v">>, "nothing">> ]

SendCalls ==
    [ SendToAddressAsync |-> <<"sendtoaddress", <<"v", "v", "nil", "nil">>, "string">>,
      SendToAddressCommentAsync |-> <<"sendtoaddress", <<"v", "v", "v", "v">>, "string">>,
      SendFromAsync |-> <<"sendfrom", <<"v", "v", "v", "nil", "nil", "nil">>, "string">>,
      SendFromMinConfAsync |-> <<"sendfrom", <<"v", "v", "v", "v", "nil", "nil">>, "string">> ]

SendManyCalls ==
    [ SendFromCommentAsync |-> <<"sendfrom", <<"v", "v", "v", "v", "v", "v">>, "string">>,
      SendManyAsync |-> <<"sendmany", <<"v", "v", "nil", "nil">>, "string">>,
      SendManyMinConfAsync |-> <<"sendmany", <<"v", "v", "v", "nil">>, "string">>,
      SendManyCommentAsync |-> <<"sendmany", <<"v", "v", "v", "v">>, "string">> ]

NewAddressCalls ==
    [ AddMultisigAddressAsync |-> <<"addmultisigaddress", <<"v", "v", "v">>, "string">>,
      CreateMultisigAsync |-> <<"createmultisig", <<"v", "v">>, "object">>,
      CreateNewAccountAsync |-> <<"createnewaccount", <<"v">>, "nothing">>,
      GetNewAddressAsync |-> <<"getnewaddress", <<"v">>, "string">> ]

AccountAddressCalls ==
    [ GetRawChangeAddressAsync |-> <<"getrawchangeaddress", <<"v">>, "string">>,
      AddWitnessAddressAsync |-> <<"addwitnessaddress", <<"v">>, "string">>,
      GetAccountAddressAsync |-> <<"getaccountaddress", <<"v">>, "string">>,
      GetAccountAsync |-> <<"getaccount", <<"v">>, "string">> ]

SetAccountCalls ==
    [ SetAccountAsync |-> <<"setaccount", <<"v", "v">>, "nothing">>,
      GetAddressesByAccountAsync |-> <<"getaddressesbyaccount", <<"v">>, "array">>,
      MoveAsync |-> <<"move", <<"v", "v", "v", "nil", "nil">>, "bool">>,
      MoveMinConfAsync |-> <<"move", <<"v", "v", "v", "v", "nil">>, "bool">> ]

RenameCalls ==
    [ MoveCommentAsync |-> <<"move", <<"v", "v", "v", "v", "v">>, "bool">>,
      RenameAccountAsync |-> <<"renameaccount", <<"v", "v">>, "nothing">>,
      ValidateAddressAsync |-> <<"validateaddress", <<"v">>, "object">>,
      KeyPoolRefillAsync |-> <<"keypoolrefill", <<"nil">>, "nothing">>,
      KeyPoolRefillSizeAsync |-> <<"keypoolrefill", <<"v">>, "nothing">> ]

BalanceCalls ==
    [ ListAccountsAsync |-> <<"listaccounts", <<"nil">>, "object">>,
      ListAccountsMinConfAsync |-> <<"listaccounts", <<"v">>, "object">>,
      GetBalanceAsync |-> <<"getbalance", <<"v", "nil">>, "number">> ]

ReceivedByAccountCalls ==
    [ GetBalanceMinConfAsync |-> <<"getbalance", <<"v", "v">>, "number">>,
      GetReceivedByAccountAsync |-> <<"getreceivedbyaccount", <<"v", "nil">>, "number">>,
      GetReceivedByAccountMinConfAsync |-> <<"getreceivedbyaccount", <<"v", "v">>, "number">>,
      GetUnconfirmedBalanceAsync |-> <<"getunconfirmedbalance", <<"v">>, "number">> ]

ReceivedByAddressCalls ==
    [ GetReceivedByAddressAsync |-> <<"getreceivedbyaddress", <<"v", "nil">>, "number">>,
      GetReceivedByAddressMinConfAsync |-> <<"getreceivedbyaddress", <<"v", "v">>, "number">>,
      ListReceivedByAccountAsync |-> <<"listreceivedbyaccount", <<"nil", "nil", "nil">>, "array">>,
      ListReceivedByAccountMinConfAsync |-> <<"listreceivedbyaccount", <<"v", "nil", "nil">>, "array">>,
      ListReceivedByAccountIncludeEmptyAsync |-> <<"listreceivedbyaccount", <<"v", "v", "nil">>, "array">> ]

ListReceivedCalls ==
    [ ListReceivedByAddressAsync |-> <<"listreceivedbyaddress", <<"nil", "nil", "nil">>, "array">>,
      ListReceivedByAddressMinConfAsync |-> <<"listreceivedbyaddress", <<"v", "nil", "nil">>, "array">>,
      ListReceivedByAddressIncludeEmptyAsync |-> <<"listreceivedbyaddress", <<"v", "v", "nil">>, "array">>,
      WalletLockAsync |-> <<"walletlock", << >>, "nothing">>,
      WalletPassphrase |-> <<"walletpassphrase", <<"v", "v">>, "nothing">>,
      WalletPassphraseChangeAsync |-> <<"walletpassphrasechange", <<"v", "v">>, "nothing">> ]

MessageCalls ==
    [ SignMessageAsync |-> <<"signmessage", <<"v", "v">>, "string">>,
      VerifyMessageAsync |-> <<"verifymessage", <<"v", "v", "v">>, "bool">>,
      DumpPrivKeyAsync |-> <<"dumpprivkey", <<"v">>, "string">>,
      ImportAddressAsync |-> <<"importaddress", <<"v", "v", "nil">>, "nothing">> ]

ImportCalls ==
    [ ImportAddressRescanAsync |-> <<"importaddress", <<"v", "v", "v">>, "nothing">>,
      ImportPrivKeyAsync |-> <<"importprivkey", <<"v", "nil", "nil">>, "nothing">>,
      ImportPrivKeyLabelAsync |-> <<"importprivkey", <<"v", "v", "nil">>, "nothing">>,
      ImportPrivKeyRescanAsync |-> <<"importprivkey", <<"v", "v", "v">>, "nothing">>,
      ImportPubKeyAsync |-> <<"importpubkey", <<"v", "nil">>, "nothing">>,
      ImportPubKeyRescanAsync |-> <<"importpubkey", <<"v", "v">>, "nothing">> ]

GetInfoCalls ==
    [ GetInfoAsync |-> <<"getinfo", << >>, "object">> ]

NotifyCalls ==
    [ NotifyBlocksAsync |-> <<"notifyblocks", << >>, "nothing">>,
      NotifySpentAsync |-> <<"notifyspent", <<"v">>, "nothing">>,
      NotifyNewTransactionsAsync |-> <<"notifynewtransactions", <<"v">>, "nothing">> ]

NotifyReceivedCalls ==
    [ NotifyReceivedAsync |-> <<"notifyreceived", <<"v">>, "nothing">> ]

RescanCalls ==
    [ RescanAsync |-> <<"rescan", <<"v", "v", "v", "nil">>, "nothing">>,
      RescanEndBlockAsync |-> <<"rescan", <<"v", "v", "v", "v">>, "nothing">> ]

FilterLoadCalls ==
    [ LoadTxFilterAsync |-> <<"loadtxfilter", <<"v", "v", "v">>, "nothing">> ]

Calls ==
    BlockCalls @@ ChainInfoCalls @@ HeaderCalls @@ VerifyCalls @@ FilterCalls @@ ExtensionCalls
    @@ GetHeadersCalls @@ VersionCalls @@ GenerateCalls @@ WorkCalls @@ NodeCalls @@ PeerCalls
    @@ GetTxCalls @@ CreateTxCalls @@ SignTxCalls @@ SearchTxCalls @@ TransactionCalls
    @@ UnspentCalls @@ LockCalls @@ SendCalls @@ SendManyCalls @@ NewAddressCalls
    @@ AccountAddressCalls @@ SetAccountCalls @@ RenameCalls @@ BalanceCalls
    @@ ReceivedByAccountCalls @@ ReceivedByAddressCalls @@ ListReceivedCalls @@ MessageCalls
    @@ ImportCalls @@ GetInfoCalls @@ NotifyCalls @@ NotifyReceivedCalls @@ RescanCalls
    @@ FilterLoadCalls

-----------------------------------------------------------------------------
\* Calls that need a websocket and are refused in HTTP POST mode.
WebsocketCalls ==
    DOMAIN NotifyCalls \cup DOMAIN NotifyReceivedCalls \cup DOMAIN RescanCalls \cup {"SessionAsync"}

Many == 9   \* more than any notification has

\* The block is missing while the transaction is in the pool.
parseChainTxNtfnParams == 1 .. 2

\* How many parameters the handler of a notification insists on.
handleNotification ==
    [ blockconnected |-> 3 .. 3, blockdisconnected |-> 3 .. 3, filteredblockconnected |-> 3 .. Many,
      filteredblockdisconnected |-> 2 .. Many, recvtx |-> parseChainTxNtfnParams, redeemingtx |-> parseChainTxNtfnParams,
      relevanttxaccepted |-> 1 .. Many, rescanfinished |-> 3 .. 3, rescanprogress |-> 3 .. 3,
      txaccepted |-> 2 .. 2, txacceptedverbose |-> 1 .. 1, podconnected |-> 1 .. 1,
      accountbalance |-> 3 .. 3, walletlockstate |-> 2 .. 2 ]

=============================================================================
