------------------------------ MODULE Download -----------------------------
(***************************************************************************)
(* One download handle (internal/s3fs/download.go): the size is taken from *)
(* a HeadObject when it is opened, the body from a ranged GetObject when   *)
(* it is first read and again after a Seek, while other clients replace    *)
(* and delete the object.                                                  *)
(*                                                                         *)
(* Content is a sequence of units.  A body that was opened delivers the    *)
(* content the object had then (external, GetObject).                      *)
(***************************************************************************)
EXTENDS Integers, Sequences

CONSTANTS Contents,   \* contents an object may have
          Offsets,    \* REST offsets
          SeekPoints, \* positions the reader seeks to, some of them negative
          Faults,     \* whether S3 may show an "error"
          MaxRead,    \* bound: units per Read
          MaxSeeks,   \* bound: Seeks of the reader
          MaxOthers   \* bound: changes by other writers

\* The version a unit belongs to, and its place in it.
Unit == STRING \X Nat

ASSUME DownloadAssumption ==
  /\ Contents \subseteq Seq(Unit)
  /\ Offsets \subseteq Int /\ SeekPoints \subseteq Int
  /\ Faults \subseteq {"error"}
  /\ MaxRead \in Nat \ {0} /\ MaxSeeks \in Nat /\ MaxOthers \in Nat

VARIABLES
  object,   \* the object's content, as a set of at most one content
  others,   \* changes other writers may still make
  pc,       \* "open", "reading", "closed" or "refused"
  seeks,    \* Seeks the reader may still make
  last,     \* what the last Read returned: "data", "eof" or "error"
  \* the downloadFile
  size, pos,
  body,     \* the open body, as a set of at most one; live: a response of S3
  conns,    \* responses of S3 not yet closed
  \* history
  from, got, \* where the reader last (re)positioned itself, and its data since
  versions   \* the contents the object had since it was opened

vars == <<object, others, pc, seeks, last, size, pos, body, conns, from, got, versions>>

Bodies == [live: BOOLEAN, rest: Seq(Unit)]

TypeOK ==
  /\ object \subseteq Seq(Unit) /\ versions \subseteq Seq(Unit)
  /\ others \in 0 .. MaxOthers /\ seeks \in 0 .. MaxSeeks
  /\ pc \in {"open", "reading", "closed", "refused"} /\ last \in {"data", "eof", "error"}
  /\ size \in Nat /\ pos \in Nat /\ from \in Nat
  /\ body \subseteq Bodies /\ conns \in Nat
  /\ got \in Seq(Unit)

Init ==
  /\ object \in {{}} \cup {{c} : c \in Contents}
  /\ others = MaxOthers /\ seeks = MaxSeeks
  /\ pc = "open" /\ last = "data"
  /\ size = 0 /\ pos = 0 /\ body = {} /\ conns = 0
  /\ from = 0 /\ got = <<>> /\ versions = {}

\* Mutant: a negative offset is not refused.
openDownloadNegative(offset) ==
  /\ pc = "open"
  /\ \E c \in object :
       /\ offset =< Len(c)
       /\ pc' = "reading"
       /\ size' = Len(c) /\ pos' = offset
       /\ from' = offset /\ versions' = object
  /\ UNCHANGED <<object, others, seeks, last, body, conns, got>>

\* A missing object, an offset outside it and an S3 error refuse the RETR.
openDownload(offset) ==
  /\ pc = "open"
  /\ \/ \E c \in object :
          /\ offset \in 0 .. Len(c)
          /\ pc' = "reading"
          /\ size' = Len(c) /\ pos' = offset
          /\ from' = offset /\ versions' = object
     \/ /\ "error" \in Faults \/ object = {} \/ \E c \in object : offset \notin 0 .. Len(c)
        /\ pc' = "refused"
        /\ UNCHANGED <<size, pos, from, versions>>
  /\ UNCHANGED <<object, others, seeks, last, body, conns, got>>

\* Mutant: the request has no range.
getObjectWhole(offset) == {[live |-> TRUE, rest |-> c] : c \in object}

\* The object from an offset on; past its end the range cannot be satisfied.
getObject(offset) ==
  {[live |-> TRUE, rest |-> SubSeq(c, offset + 1, Len(c))] :
     c \in {d \in object : offset = 0 \/ offset < Len(d)}}

ensureBody ==
  IF body # {} THEN body
  ELSE IF pos >= size THEN {[live |-> FALSE, rest |-> <<>>]}
  ELSE getObject(pos)

Live(b) == IF b.live THEN 1 ELSE 0

\* Mutant: the end of the body is not passed on.
ReadNoEOF ==
  /\ pc = "reading" /\ last = "data"
  /\ \E b \in ensureBody : \E n \in 0 .. MaxRead :
       /\ n =< Len(b.rest)
       /\ pos' = pos + n
       /\ got' = got \o SubSeq(b.rest, 1, n)
       /\ body' = {[b EXCEPT !.rest = SubSeq(b.rest, n + 1, Len(b.rest))]}
       /\ conns' = IF body = {} THEN conns + Live(b) ELSE conns
  /\ UNCHANGED <<object, others, pc, seeks, last, size, from, versions>>

\* Read, by a reader that stops at the first EOF or error (io.Copy).  The
\* last data and the EOF may come together.
Read ==
  /\ pc = "reading" /\ last = "data"
  /\ \/ \E b \in ensureBody :
          LET opened == IF body = {} THEN conns + Live(b) ELSE conns
          IN  \/ \E n \in 1 .. MaxRead :
                   /\ n =< Len(b.rest)
                   /\ last' = "data"
                   /\ pos' = pos + n
                   /\ got' = got \o SubSeq(b.rest, 1, n)
                   /\ body' = {[b EXCEPT !.rest = SubSeq(b.rest, n + 1, Len(b.rest))]}
                   /\ conns' = opened
              \/ /\ Len(b.rest) =< MaxRead
                 /\ last' = "eof"
                 /\ pos' = pos + Len(b.rest)
                 /\ got' = got \o b.rest
                 /\ body' = {}
                 /\ conns' = opened - Live(b)
     \/ \* GetObject fails, or the connection breaks while the body is read
        /\ \/ "error" \in Faults /\ (body = {} => pos < size)
           \/ ensureBody = {}
        /\ last' = "error"
        /\ UNCHANGED <<pos, got, body, conns>>
  /\ UNCHANGED <<object, others, pc, seeks, size, from, versions>>

\* Mutant: the body is dropped without being closed.
SeekLeaks(target) ==
  /\ pc = "reading" /\ seeks > 0 /\ target >= 0 /\ target # pos
  /\ seeks' = seeks - 1
  /\ body' = {} /\ pos' = target
  /\ from' = target /\ got' = <<>> /\ last' = "data"
  /\ UNCHANGED <<object, others, pc, size, conns, versions>>

\* A body at another position is closed; a negative target is refused.
Seek(target) ==
  /\ pc = "reading" /\ seeks > 0
  /\ seeks' = seeks - 1
  /\ \/ /\ target >= 0 /\ target # pos
        /\ body' = {} /\ pos' = target
        /\ conns' = IF \E b \in body : b.live THEN conns - 1 ELSE conns
        /\ from' = target /\ got' = <<>> /\ last' = "data"
     \/ /\ target < 0 \/ target = pos
        /\ UNCHANGED <<body, pos, conns, from, got, last>>
  /\ UNCHANGED <<object, others, pc, size, versions>>

\* The reader may close before the end (the client went away).
Close ==
  /\ pc = "reading"
  /\ pc' = "closed"
  /\ body' = {}
  /\ conns' = IF \E b \in body : b.live THEN conns - 1 ELSE conns
  /\ UNCHANGED <<object, others, seeks, last, size, pos, from, got, versions>>

\* Another session or another client of the bucket changes the object.
Other ==
  /\ others > 0
  /\ others' = others - 1
  /\ object' \in {{}} \cup {{c} : c \in Contents}
  /\ versions' = versions \cup object'
  /\ UNCHANGED <<pc, seeks, last, size, pos, body, conns, from, got>>

\* A second Close does nothing.
Finished == pc \in {"closed", "refused"} /\ UNCHANGED vars

Next ==
  \/ \E offset \in Offsets : openDownload(offset)
  \/ Read
  \/ \E target \in SeekPoints : Seek(target)
  \/ Close \/ Other \/ Finished

Spec == Init /\ [][Next]_vars

\* The FTP library opens what it was asked for, copies until the handle ends
\* or fails, and then closes it.
FairSpec ==
  /\ Spec
  /\ WF_vars(Read)
  /\ WF_vars(last # "data" /\ Close)

=============================================================================
