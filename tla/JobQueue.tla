------------------------------ MODULE JobQueue ------------------------------
(***************************************************************************)
(* What the shared webhook queue promises its users, without Redis, nodes  *)
(* or crashes: jobs leave in the order in which they were put, each is     *)
(* handed out once, and nothing is settled that was not handed out.  It    *)
(* does not promise that a job which was handed out is ever settled: a     *)
(* job may stay in the hands of a process that is gone.                    *)
(*                                                                         *)
(* Equal jobs are common (a channel that is vacated twice gives two jobs   *)
(* with the same text), so what is held and what is settled are counts.    *)
(***************************************************************************)
EXTENDS Integers, Sequences

CONSTANT Job

VARIABLES
    waiting,    \* jobs put and not handed out, oldest first
    held,       \* number of copies of each job that are handed out
    settled     \* number of copies of each job that are done with

vars == <<waiting, held, settled>>

Init ==
    /\ waiting = <<>>
    /\ held = [j \in Job |-> 0]
    /\ settled = [j \in Job |-> 0]

Put(j) ==
    /\ waiting' = Append(waiting, j)
    /\ UNCHANGED <<held, settled>>

Take ==
    /\ waiting # <<>>
    /\ waiting' = Tail(waiting)
    /\ held' = [held EXCEPT ![Head(waiting)] = @ + 1]
    /\ UNCHANGED settled

Settle(j) ==
    /\ held[j] > 0
    /\ held' = [held EXCEPT ![j] = @ - 1]
    /\ settled' = [settled EXCEPT ![j] = @ + 1]
    /\ UNCHANGED waiting

Next == Take \/ \E j \in Job : Put(j) \/ Settle(j)

Spec == Init /\ [][Next]_vars
=============================================================================
