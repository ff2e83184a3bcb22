---------------------------- MODULE HandlerTable ----------------------------
(***************************************************************************)
(* What I/O emulation promises of its handlers: one sequence for ports and *)
(* one for MMIO, newest first.  A handler joins at the front, the first    *)
(* one at a given port leaves, and a shutdown empties everything.          *)
(***************************************************************************)
EXTENDS Naturals, Sequences, SequencesExt

CONSTANTS Space, Handler

VARIABLE table

Register(s, h) == table' = [table EXCEPT ![s] = <<h>> \o @]

Unregister(s, port) ==
    \E i \in DOMAIN table[s] :
        /\ table[s][i].first = port
        /\ \A j \in 1 .. (i - 1) : table[s][j].first # port
        /\ table' = [table EXCEPT ![s] = RemoveAt(@, i)]

Clear == table' = [s \in Space |-> << >>]

Init == table = [s \in Space |-> << >>]

Next == \/ \E s \in Space, h \in Handler : Register(s, h)
        \/ \E s \in Space, h \in Handler : Unregister(s, h.first)
        \/ Clear

Spec == Init /\ [][Next]_table
=============================================================================
