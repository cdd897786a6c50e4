------------------------------- MODULE Driver -------------------------------
(***************************************************************************)
(* The connections an FTP server serves, as the driver counts them         *)
(* (internal/ftpdriver/driver.go).  The server library gives every         *)
(* connection an id of its own, calls ClientConnected in the connection's  *)
(* goroutine, and ClientDisconnected when that goroutine ends, for a       *)
(* connection the driver refused as well.  Each call holds the driver's    *)
(* mutex while it touches the map, so it is one step.                      *)
(***************************************************************************)
EXTENDS Integers, FiniteSets

CONSTANTS Ids,         \* the connections
          MaxClients   \* max_clients; no limit unless positive

ASSUME DriverAssumption == MaxClients \in Int

VARIABLES clients,  \* Driver.clients
          conn,     \* the library's side: the state of each connection
          inflight  \* the connections in the middle of a transfer

driverVars == <<clients, conn, inflight>>

ConnStates == {"away", "arrived", "served", "refused", "gone"}

DriverTypeOK ==
  /\ clients \subseteq Ids
  /\ conn \in [Ids -> ConnStates]
  /\ inflight \subseteq Ids

New ==
  /\ clients = {}
  /\ conn = [c \in Ids |-> "away"]
  /\ inflight = {}

\* The connections that got the banner and may send commands.
Served == {c \in Ids : conn[c] = "served"}

\* Mutant: the limit is checked with > instead of >=.
ClientConnectedOneMore(c) ==
  /\ conn[c] = "arrived"
  /\ \/ /\ MaxClients > 0 /\ Cardinality(clients) > MaxClients
        /\ conn' = [conn EXCEPT ![c] = "refused"]
        /\ UNCHANGED clients
     \/ /\ ~(MaxClients > 0 /\ Cardinality(clients) > MaxClients)
        /\ conn' = [conn EXCEPT ![c] = "served"]
        /\ clients' = clients \cup {c}
  /\ UNCHANGED inflight

\* Mutant: the connection is counted before the limit is checked.
ClientConnectedCounts(c) ==
  /\ conn[c] = "arrived"
  /\ clients' = clients \cup {c}
  /\ \/ /\ MaxClients > 0 /\ Cardinality(clients) >= MaxClients
        /\ conn' = [conn EXCEPT ![c] = "refused"]
     \/ /\ ~(MaxClients > 0 /\ Cardinality(clients) >= MaxClients)
        /\ conn' = [conn EXCEPT ![c] = "served"]
  /\ UNCHANGED inflight

ClientConnected(c) ==
  /\ conn[c] = "arrived"
  /\ \/ /\ MaxClients > 0 /\ Cardinality(clients) >= MaxClients
        /\ conn' = [conn EXCEPT ![c] = "refused"]
        /\ UNCHANGED clients
     \/ /\ ~(MaxClients > 0 /\ Cardinality(clients) >= MaxClients)
        /\ conn' = [conn EXCEPT ![c] = "served"]
        /\ clients' = clients \cup {c}
  /\ UNCHANGED inflight

\* The end of a connection, refused or served; the library ends its transfer.
ClientDisconnected(c) ==
  /\ conn[c] \in {"served", "refused"}
  /\ conn' = [conn EXCEPT ![c] = "gone"]
  /\ clients' = clients \ {c}
  /\ inflight' = inflight \ {c}

\* The library's accept loop hands a connection to a goroutine of its own.
Arrive(c) ==
  /\ conn[c] = "away"
  /\ conn' = [conn EXCEPT ![c] = "arrived"]
  /\ UNCHANGED <<clients, inflight>>

\* A data transfer of a served connection begins or ends.
Transfer(c) ==
  /\ conn[c] = "served"
  /\ inflight' = IF c \in inflight THEN inflight \ {c} ELSE inflight \cup {c}
  /\ UNCHANGED <<clients, conn>>

=============================================================================
