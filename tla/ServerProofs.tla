---------------------------- MODULE ServerProofs ----------------------------
(***************************************************************************)
(* Theorems about the server process and the driver's client limit, for    *)
(* every set of connections and every limit.  The limit is on the driver's *)
(* map, and the map is the set of the clients served: both belong to the   *)
(* inductive invariant, with where the process can be once the bucket is   *)
(* known to exist.                                                         *)
(***************************************************************************)
EXTENDS Server, FiniteSetTheorems, TLAPS

Counted ==
  /\ clients = Served
  /\ IsFiniteSet(clients)
  /\ MaxClients > 0 => Cardinality(clients) =< MaxClients

BucketSeen ==
  /\ listening => pc \in {"serving", "stopping", "waiting"}
  /\ CreateBucketIfMissing /\ pc \notin {"load", "logging", "client", "head", "create", "exited"}
       => bucket

IInv == TypeOK /\ Counted /\ BucketSeen

\* New starts the driver with nobody connected.
LEMMA InitIInv == Init => IInv
<1> SUFFICES ASSUME Init PROVE IInv
  OBVIOUS
<1>1. TypeOK
  BY DEF Init, New, TypeOK, DriverTypeOK, ConnStates, Starting
<1>2. Counted
  <2>1. clients = Served
    BY DEF Init, New, Served
  <2>2. IsFiniteSet(clients) /\ Cardinality(clients) = 0
    BY FS_EmptySet DEF Init, New
  <2> QED
    BY <2>1, <2>2, DriverAssumption DEF Counted
<1>3. BucketSeen
  BY DEF Init, BucketSeen
<1> QED
  BY <1>1, <1>2, <1>3 DEF IInv

(***************************************************************************)
(* The driver's calls                                                      *)
(***************************************************************************)

\* Under the mutex, a connection gets a place only while one is free.
LEMMA ConnectedCounts ==
  ASSUME NEW c \in Ids, DriverTypeOK, Counted, ClientConnected(c)
  PROVE  DriverTypeOK' /\ Counted'
<1>1. CASE /\ MaxClients > 0 /\ Cardinality(clients) >= MaxClients
           /\ conn' = [conn EXCEPT ![c] = "refused"]
           /\ UNCHANGED clients
  BY <1>1 DEF DriverTypeOK, Counted, ClientConnected, Served, ConnStates
<1>2. CASE /\ ~(MaxClients > 0 /\ Cardinality(clients) >= MaxClients)
           /\ conn' = [conn EXCEPT ![c] = "served"]
           /\ clients' = clients \cup {c}
  <2>1. c \notin clients /\ IsFiniteSet(clients)
    BY DEF Counted, Served, ClientConnected
  <2>2. IsFiniteSet(clients') /\ Cardinality(clients') = Cardinality(clients) + 1
    BY <1>2, <2>1, FS_AddElement
  <2>3. Cardinality(clients) \in Nat
    BY <2>1, FS_CardinalityType
  <2>4. MaxClients > 0 => Cardinality(clients') =< MaxClients
    BY <1>2, <2>2, <2>3, DriverAssumption
  <2>5. clients' = Served'
    BY <1>2 DEF Counted, Served, DriverTypeOK
  <2>6. DriverTypeOK'
    BY <1>2 DEF DriverTypeOK, ConnStates, ClientConnected
  <2> QED
    BY <2>2, <2>4, <2>5, <2>6 DEF Counted
<1> QED
  BY <1>1, <1>2 DEF ClientConnected

\* A disconnect frees the place of its own connection or none.
LEMMA DisconnectedCounts ==
  ASSUME NEW c \in Ids, DriverTypeOK, Counted, ClientDisconnected(c)
  PROVE  DriverTypeOK' /\ Counted'
<1>1. IsFiniteSet(clients') /\ Cardinality(clients') =< Cardinality(clients)
  <2>1. clients' \subseteq clients
    BY DEF ClientDisconnected
  <2> QED
    BY <2>1, FS_Subset DEF Counted
<1>2. Cardinality(clients) \in Nat /\ Cardinality(clients') \in Nat
  BY <1>1, FS_CardinalityType DEF Counted
<1>3. clients' = Served'
  BY DEF ClientDisconnected, Counted, Served, DriverTypeOK
<1>4. DriverTypeOK'
  BY DEF ClientDisconnected, DriverTypeOK, ConnStates
<1> QED
  BY <1>1, <1>2, <1>3, <1>4, DriverAssumption DEF Counted

\* Every step of a connection's goroutine keeps the count right.
LEMMA ConnectionsCount ==
  ASSUME DriverTypeOK, Counted, Connections
  PROVE  DriverTypeOK' /\ Counted'
<1>1. PICK c \in Ids : \/ Arrive(c)
                       \/ ClientConnected(c)
                       \/ ClientDisconnected(c)
                       \/ Transfer(c)
  BY DEF Connections
<1>2. CASE Arrive(c)
  BY <1>2 DEF Arrive, DriverTypeOK, Counted, Served, ConnStates
<1>3. CASE Transfer(c)
  BY <1>3 DEF Transfer, DriverTypeOK, Counted, Served
<1> QED
  BY <1>1, <1>2, <1>3, ConnectedCounts, DisconnectedCounts

\* The process itself never touches the driver's state.
LEMMA DriverIdle ==
  ASSUME DriverTypeOK, Counted, UNCHANGED driverVars
  PROVE  DriverTypeOK' /\ Counted'
BY DEF driverVars, DriverTypeOK, Counted, Served

(***************************************************************************)
(* The process                                                             *)
(***************************************************************************)

ProcTypeOK ==
  /\ pc \in Starting \cup {"serving", "stopping", "waiting", "exited"}
  /\ signalled \in BOOLEAN /\ listening \in BOOLEAN
  /\ bucket \in BOOLEAN /\ timedOut \in BOOLEAN
  /\ serve \in {"none", "running", "nil", "error"}
  /\ exit \in {"none", "nil", "error", "killed"}

\* Start-up reaches Listen only past EnsureBucket.
LEMMA StartSees ==
  ASSUME ProcTypeOK, BucketSeen, Prepare \/ HeadBucket \/ CreateBucket \/ Listen
  PROVE  ProcTypeOK' /\ BucketSeen' /\ UNCHANGED driverVars
<1> USE DEF Return, Exit, Goto
<1>1. CASE Prepare
  <2>1. CASE Goto(After(pc))
    BY <1>1, <2>1, ServerAssumption
    DEF Prepare, After, ProcTypeOK, BucketSeen, Starting
  <2>2. CASE Return("error")
    BY <1>1, <2>2 DEF Prepare, ProcTypeOK, BucketSeen
  <2> QED
    BY <1>1, <2>1, <2>2 DEF Prepare
<1>2. CASE HeadBucket
  <2>1. CASE bucket /\ Goto("driver")
    BY <1>2, <2>1 DEF HeadBucket, ProcTypeOK, BucketSeen, Starting
  <2>2. CASE Goto("create")
    BY <1>2, <2>2 DEF HeadBucket, ProcTypeOK, BucketSeen, Starting
  <2>3. CASE Return("error")
    BY <1>2, <2>3 DEF HeadBucket, ProcTypeOK, BucketSeen
  <2> QED
    BY <1>2, <2>1, <2>2, <2>3 DEF HeadBucket
<1>3. CASE CreateBucket
  <2>1. CASE bucket' = TRUE /\ Goto("driver")
    BY <1>3, <2>1 DEF CreateBucket, ProcTypeOK, BucketSeen, Starting
  <2>2. CASE bucket' \in {bucket, TRUE} /\ Return("error")
    BY <1>3, <2>2 DEF CreateBucket, ProcTypeOK, BucketSeen
  <2> QED
    BY <1>3, <2>1, <2>2 DEF CreateBucket
<1>4. CASE Listen
  BY <1>4 DEF Listen, ProcTypeOK, BucketSeen
<1> QED
  BY <1>1, <1>2, <1>3, <1>4

\* Serving and shutting down keep the bucket.
LEMMA RunSees ==
  ASSUME ProcTypeOK, BucketSeen,
         Select \/ Stop \/ Wait \/ Signal \/ OtherCreates \/ ServeReturns
  PROVE  ProcTypeOK' /\ BucketSeen' /\ UNCHANGED driverVars
<1> USE DEF Return, Exit, Goto
<1>1. CASE Select
  BY <1>1 DEF Select, ProcTypeOK, BucketSeen
<1>2. CASE Stop
  BY <1>2 DEF Stop, ProcTypeOK, BucketSeen
<1>3. CASE Wait
  BY <1>3 DEF Wait, ProcTypeOK, BucketSeen
<1>4. CASE Signal
  BY <1>4 DEF Signal, ProcTypeOK, BucketSeen
<1>5. CASE OtherCreates
  BY <1>5 DEF OtherCreates, ProcTypeOK, BucketSeen, procVars
<1>6. CASE ServeReturns
  <2>1. listening' = FALSE \/ listening' = listening
    BY <1>6 DEF ServeReturns
  <2>2. serve' \in {"nil", "error"} /\ UNCHANGED <<driverVars, bucket, pc, signalled, exit, timedOut>>
    BY <1>6 DEF ServeReturns
  <2>3. listening' \in BOOLEAN /\ (listening' => listening)
    <3>1. CASE listening' = FALSE
      BY <3>1
    <3>2. CASE listening' = listening
      BY <3>2, Zenon DEF ProcTypeOK
    <3> QED
      BY <2>1, <3>1, <3>2
  <2> QED
    <3>1. ProcTypeOK'
      BY <2>2, <2>3 DEF ProcTypeOK
    <3>2. listening' => pc' \in {"serving", "stopping", "waiting"}
      BY <2>2, <2>3 DEF BucketSeen
    <3>3. BucketSeen'
      BY <2>2, <3>2, Zenon DEF BucketSeen
    <3> QED
      BY <2>2, <3>1, <3>3
<1> QED
  BY <1>1, <1>2, <1>3, <1>4, <1>5, <1>6

\* Every step keeps the invariant.
LEMMA NextIInv == IInv /\ [Next]_vars => IInv'
<1> SUFFICES ASSUME IInv, [Next]_vars PROVE IInv'
  OBVIOUS
<1>0. DriverTypeOK /\ ProcTypeOK /\ Counted /\ BucketSeen
  BY DEF IInv, TypeOK, ProcTypeOK
<1>1. CASE Connections
  <2>1. ProcTypeOK' /\ BucketSeen'
    BY <1>0, <1>1 DEF Connections, procVars, ProcTypeOK, BucketSeen
  <2> QED
    BY <1>0, <1>1, <2>1, ConnectionsCount DEF IInv, TypeOK, ProcTypeOK
<1>2. CASE Run \/ Signal \/ OtherCreates \/ ServeReturns
  <2>1. ProcTypeOK' /\ BucketSeen' /\ UNCHANGED driverVars
    BY <1>0, <1>2, StartSees, RunSees DEF Run
  <2> QED
    BY <1>0, <2>1, DriverIdle DEF IInv, TypeOK, ProcTypeOK
<1>3. CASE UNCHANGED vars
  <2>1. ProcTypeOK' /\ BucketSeen'
    BY <1>0, <1>3 DEF vars, procVars, ProcTypeOK, BucketSeen
  <2> QED
    BY <1>0, <1>3, <2>1, DriverIdle DEF vars, IInv, TypeOK, ProcTypeOK
<1> QED
  BY <1>1, <1>2, <1>3 DEF Next

\* The inductive invariant holds throughout.
LEMMA Invariance == Spec => []IInv
<1> QED
  BY InitIInv, NextIInv, PTL DEF Spec

(***************************************************************************)
(* The theorems                                                            *)
(***************************************************************************)

\* The state of the driver and of run keeps its type.
THEOREM TypeCorrect == Spec => []TypeOK
<1>1. IInv => TypeOK
  BY DEF IInv
<1> QED
  BY <1>1, Invariance, PTL

\* No more than max_clients connections are ever served (ClientConnected and
\* ClientDisconnected, driver.go), for any number of connections and any limit.
THEOREM ClientLimit == Spec => []LimitHolds
<1>1. IInv => LimitHolds
  BY DEF IInv, Counted, LimitHolds
<1> QED
  BY <1>1, Invariance, PTL

\* A connection is refused only when the limit is reached by connections that
\* are served (driver.go:107).
THEOREM Refusals == Spec => RefusedOnlyWhenFull
<1>1. IInv /\ [Next]_vars =>
        [\A c \in Ids : conn[c] = "arrived" /\ conn'[c] = "refused" =>
           MaxClients > 0 /\ Cardinality(Served) >= MaxClients]_vars
  <2> SUFFICES ASSUME IInv, [Next]_vars, NEW c \in Ids,
                      conn[c] = "arrived", conn'[c] = "refused"
               PROVE  MaxClients > 0 /\ Cardinality(Served) >= MaxClients
    OBVIOUS
  <2>1. conn' # conn
    OBVIOUS
  <2>2. Connections
    BY <2>1 DEF Next, Run, vars, driverVars, Prepare, HeadBucket, CreateBucket,
                Listen, Select, Stop, Wait, Signal, OtherCreates, ServeReturns
  <2>3. PICK d \in Ids : Arrive(d) \/ ClientConnected(d) \/ ClientDisconnected(d) \/ Transfer(d)
    BY <2>2 DEF Connections
  <2>4. conn \in [Ids -> ConnStates] /\ clients = Served
    BY DEF IInv, TypeOK, DriverTypeOK, Counted
  <2>5. ClientConnected(d) /\ d = c
    BY <2>3, <2>4 DEF Arrive, ClientConnected, ClientDisconnected, Transfer
  <2> QED
    BY <2>4, <2>5 DEF ClientConnected
<1> QED
  BY <1>1, Invariance, PTL DEF Spec, RefusedOnlyWhenFull

\* A server with create_bucket_if_missing listens only once its bucket exists
\* (EnsureBucket, backend.go), whatever S3 calls fail or answers are lost.
THEOREM BucketExists == Spec => []ServesBucket
<1>1. IInv => ServesBucket
  BY DEF IInv, BucketSeen, ServesBucket
<1> QED
  BY <1>1, Invariance, PTL

=============================================================================
