------------------------------ MODULE VaultQueue ------------------------------
(***************************************************************************)
(* What the queue of pending actions promises, without the daemon: a vault *)
(* that changes only by the hand of the editor or on behalf of the oldest  *)
(* action that is not resolved, and actions that are resolved one by one   *)
(* in the order they were enqueued, each once and for good.                *)
(***************************************************************************)
EXTENDS Naturals

CONSTANTS Notes, Vaults   \* the notes, and the states a vault can be in

VARIABLES note,      \* the vault
          author,    \* per note, the action its last change is due to, 0: the editor
          total,     \* the number of actions enqueued
          resolved   \* the number of actions resolved

vars == <<note, author, total, resolved>>

Init == /\ note \in Vaults
        /\ author = [n \in Notes |-> 0]
        /\ total = 0 /\ resolved = 0

Change(n, k) == /\ note' \in Vaults
                /\ \A m \in Notes \ {n} : note'[m] = note[m]
                /\ author' = [author EXCEPT ![n] = k]
                /\ UNCHANGED <<total, resolved>>

Edit(n) == Change(n, 0)

\* The action after the last resolved one writes.
Write(n) == resolved < total /\ Change(n, resolved + 1)

Enqueue == total' = total + 1 /\ UNCHANGED <<note, author, resolved>>

Resolve == /\ resolved < total
           /\ resolved' = resolved + 1
           /\ UNCHANGED <<note, author, total>>

Next == Enqueue \/ Resolve \/ \E n \in Notes : Edit(n) \/ Write(n)

Spec == Init /\ [][Next]_vars
===============================================================================
