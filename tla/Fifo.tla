-------------------------------- MODULE Fifo ---------------------------------
(***************************************************************************)
(* A bounded FIFO of distinct items from which any item may be withdrawn:  *)
(* what the ready ring of thread_pool.cp stands for.                       *)
(***************************************************************************)
EXTENDS Naturals, Sequences

CONSTANTS Items, Bound

VARIABLE line   \* the items, first to leave first

Members == {line[i] : i \in 1..Len(line)}

FifoInit == line = <<>>

Join(x) == x \notin Members /\ Len(line) < Bound /\ line' = Append(line, x)

Leave == line # <<>> /\ line' = Tail(line)

Withdraw(x) ==
    /\ x \in Members
    /\ line' = SelectSeq(line, LAMBDA y : y # x)

Disperse == line' = <<>>

FifoNext == Leave \/ Disperse \/ \E x \in Items : Join(x) \/ Withdraw(x)

FifoSpec == FifoInit /\ [][FifoNext]_line
==============================================================================
