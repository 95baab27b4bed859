---------------------------- MODULE AtomicStore ----------------------------
(***************************************************************************)
(* What the block database promises to its callers: a transaction changes  *)
(* everything it changes at once; what is on disk is a state that was      *)
(* committed; and a crash goes back to it, never to something in between.  *)
(* A reader has what is there when it opens its view, unless the store was *)
(* saved since the reader began: then it may miss what was saved           *)
(* meanwhile, and that only.  An open view does not change.                *)
(***************************************************************************)
EXTENDS Integers

CONSTANT Readers

VARIABLES state,   \* what a transaction that begins and opens at once sees
          saved,   \* what survives a crash
          view     \* the readers: how far they are, and what they see

storeVars == <<state, saved, view>>

StoreInit ==
    /\ state.count = 0 /\ saved = state
    /\ \A r \in Readers : view[r].stage = "idle"

(* Only additions to the blocks, and one more transaction.  Whether the    *)
(* commit is saved at once is up to the implementation.                    *)
Committed ==
    /\ state'.count = state.count + 1
    /\ state.blocks \subseteq state'.blocks
    /\ saved' \in {saved, state'}
    /\ view' = view

Save == state' = state /\ saved' = state /\ view' = view

Lose == /\ state' = saved /\ saved' = saved
        /\ \A r \in Readers : view'[r].stage = "idle"

(* A reader goes to another stage.                                         *)
Moves(r, from, to) ==
    /\ view[r].stage = from /\ view'[r].stage = to
    /\ \A q \in Readers \ {r} : view'[q] = view[q]
    /\ UNCHANGED <<state, saved>>

Begin(r) == Moves(r, "idle", "begin") /\ view'[r].seen = saved

(* What a reader sees that began when old was saved.                       *)
MaySee(old, seen) ==
    /\ saved = old => seen = state
    /\ old.blocks \cup (state.blocks \ saved.blocks) \subseteq seen.blocks
    /\ seen.blocks \subseteq state.blocks
    /\ seen.count \in {old.count, state.count}
    /\ seen.extra \in {old.extra, state.extra}

Open(r) == Moves(r, "begin", "open") /\ MaySee(view[r].seen, view'[r].seen)

End(r) == Moves(r, "open", "idle")

StoreNext == \/ Committed \/ Save \/ Lose
             \/ \E r \in Readers : Begin(r) \/ Open(r) \/ End(r)

StoreSpec == StoreInit /\ [][StoreNext]_storeVars

=============================================================================
