---------------------------- MODULE AtomicUpload ---------------------------
(***************************************************************************)
(* What an upload promises: the object is replaced once and whole, by the  *)
(* kept part of the old object followed by every unit the client was told  *)
(* is written, and only if the client ended the transfer without an error. *)
(***************************************************************************)
EXTENDS Integers, Sequences

CONSTANT Units  \* the units other writers store

VARIABLES object,     \* the content of the object; {} if there is none
          base,       \* the part of the old object that is kept
          acked,      \* units accepted from the client
          phase,      \* "streaming", "finishing", "failed" or "ended"
          committed,  \* whether the object was replaced
          gaveUp      \* whether the client broke off the transfer

vars == <<object, base, acked, phase, committed, gaveUp>>

New(n) == [i \in 1 .. n |-> <<"new", i>>]

IsPrefix(p, s) == Len(p) =< Len(s) /\ p = SubSeq(s, 1, Len(p))

Init ==
  /\ base = <<>>
  /\ acked = 0
  /\ phase = "streaming"
  /\ ~committed /\ ~gaveUp

\* The part to keep is read once, before any of the client's data is used.
Keep ==
  /\ base = <<>> /\ acked = 0
  /\ ~committed
  /\ \E c \in object : IsPrefix(base', c)
  /\ UNCHANGED <<object, acked, phase, committed, gaveUp>>

Accept ==
  /\ phase = "streaming"
  /\ acked' = acked + 1
  /\ UNCHANGED <<object, base, phase, committed, gaveUp>>

Finish ==
  /\ phase = "streaming"
  /\ phase' = "finishing"
  /\ UNCHANGED <<object, base, acked, committed, gaveUp>>

Commit ==
  /\ phase = "finishing"
  /\ ~committed /\ ~gaveUp
  /\ committed'
  /\ object' = {base \o New(acked)}
  /\ UNCHANGED <<base, acked, phase, gaveUp>>

\* A transfer fails; if its commit was lost on the way back, it fails too.
Fail ==
  /\ phase \in {"streaming", "finishing"}
  /\ phase' = "failed"
  /\ UNCHANGED <<object, base, acked, committed, gaveUp>>

\* The client breaks the transfer off: from here on there is no commit.
GiveUp ==
  /\ phase \in {"streaming", "failed"}
  /\ phase' \in {phase, "failed"} /\ gaveUp'
  /\ UNCHANGED <<object, base, acked, committed>>

\* The handle is closed: without an error only after the commit.
Succeed ==
  /\ phase = "finishing"
  /\ committed
  /\ phase' = "ended"
  /\ UNCHANGED <<object, base, acked, committed, gaveUp>>

\* Another writer replaces or deletes the object.
Other ==
  /\ object' = {} \/ \E c \in Units : object' = {c}
  /\ UNCHANGED <<base, acked, phase, committed, gaveUp>>

Next == Keep \/ Accept \/ Finish \/ Commit \/ Fail \/ GiveUp \/ Succeed \/ Other

Spec == Init /\ [][Next]_vars

=============================================================================
