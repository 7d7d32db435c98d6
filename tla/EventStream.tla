---------------------------- MODULE EventStream ----------------------------
(***************************************************************************)
(* What the delivery of runner events promises to the rest of the host:    *)
(* the session's event table is an append-only log of the events its       *)
(* runner processes emitted.  Every event enters it at most once, the      *)
(* events of one process in the order they were emitted and without a gap, *)
(* and always above the mark up to which clients may have read.  An event  *)
(* that never enters was lost with the process that emitted it.            *)
(*                                                                         *)
(* An event is <<process, n>>, the n-th event emitted by that process.     *)
(***************************************************************************)
EXTENDS Integers

VARIABLES
    emitted,    \* events emitted so far
    rows,       \* the log: [ev, seq]
    mark        \* the highest seq handed out, sessions.last_seq

vars == <<emitted, rows, mark>>

Event == (Nat \ {0}) \X (Nat \ {0})

Logged == {r.ev : r \in rows}

Init == emitted = {} /\ rows = {} /\ mark = 0

\* A process emits its next event.
Emit ==
    /\ \E e \in emitted' \ emitted :
          /\ e \in Event /\ emitted' = emitted \cup {e}
          /\ \A n \in 1..(e[2] - 1) : <<e[1], n>> \in emitted
    /\ UNCHANGED <<rows, mark>>

\* Events are recorded, one or a batch of them in one transaction.
Record ==
    /\ rows \subseteq rows'
    /\ \A r \in rows' \ rows :
          /\ r.ev \in emitted \ Logged
          /\ r.seq > mark /\ r.seq <= mark'
          /\ \A q \in rows' : q.ev = r.ev \/ q.seq = r.seq => q = r
          /\ \A n \in 1..(r.ev[2] - 1) :
                \E q \in rows' : q.ev = <<r.ev[1], n>> /\ q.seq < r.seq
    /\ mark' >= mark
    /\ UNCHANGED emitted

Next == Emit \/ Record

Spec == Init /\ [][Next]_vars
=============================================================================
