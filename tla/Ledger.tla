------------------------------- MODULE Ledger -------------------------------
(***************************************************************************)
(* What the database of a node promises about the main chain: it moves one *)
(* block at a time, a block joins it only if it is valid on top of the     *)
(* blocks below it, the unspent outputs are always exactly those of the    *)
(* chain, and a crash takes it back to a state it was saved in.            *)
(*                                                                         *)
(* All this it promises until a block is accepted that repeats the         *)
(* coinbase of a block of another height: connecting it may overwrite an   *)
(* unspent output, and from then on anything may happen, until a crash     *)
(* that forgets the block.                                                 *)
(***************************************************************************)
EXTENDS UtxoSet

VARIABLES
    best,     \* the end of the main chain
    coins,    \* its unspent outputs
    saved,    \* the end of the main chain that survives a crash
    repeated  \* whether accepted blocks of different heights share a coinbase

ledgerVars == <<best, coins, saved, repeated>>

LedgerInit == best = Genesis /\ coins = EmptyUtxo /\ saved = Genesis /\ repeated = FALSE

Extend ==
    \E b \in Sane \ {Genesis} :
        /\ Parent[b] = best
        /\ CheckConnectBlock(coins, b)
        /\ best' = b
        /\ coins' = UtxoOf(Ancestors[b])
        /\ UNCHANGED saved

Rewind ==
    /\ best # Genesis
    /\ best' = Parent[best]
    /\ coins' = UtxoOf(Ancestors[Parent[best]])
    /\ UNCHANGED saved

Save == saved' = best /\ UNCHANGED <<best, coins>>

Recover == best' = saved /\ coins' = UtxoOf(Ancestors[saved]) /\ UNCHANGED saved

Void == repeated' = TRUE

LedgerNext ==
    \/ ~repeated /\ repeated' = FALSE /\ (Extend \/ Rewind \/ Save)
    \/ repeated' = FALSE /\ Recover
    \/ Void

LedgerSpec == LedgerInit /\ [][LedgerNext]_ledgerVars
=============================================================================
