------------------------------- MODULE Server -------------------------------
(***************************************************************************)
(* The server process (run, cmd/s32ftp/main.go): start-up, with the bucket *)
(* created when it is missing (EnsureBucket, internal/s3fs/backend.go),    *)
(* the goroutine in Serve, and the shutdown by a signal.  The driver's     *)
(* calls (module Driver) run in the connections' goroutines meanwhile.     *)
(***************************************************************************)
EXTENDS Driver

CONSTANTS CreateBucketIfMissing,  \* the setting of that name
          Faults                  \* what an S3 call may do: "error", "lost"

ASSUME ServerAssumption ==
  /\ CreateBucketIfMissing \in BOOLEAN
  /\ Faults \subseteq {"error", "lost"}

VARIABLES pc,         \* where run is
          signalled,  \* ctx.Done() of signal.NotifyContext is closed
          listening,  \* the listener is open
          serve,      \* Serve: "none", "running", or what it left in serveErr
          bucket,     \* whether the bucket exists
          exit,       \* what run returned
          timedOut    \* history: the wait of the shutdown ended by its timer

procVars == <<pc, signalled, listening, serve, exit, timedOut>>
vars == <<driverVars, procVars, bucket>>

Starting == {"load", "logging", "client", "head", "create", "driver", "listen"}

TypeOK ==
  /\ DriverTypeOK
  /\ pc \in Starting \cup {"serving", "stopping", "waiting", "exited"}
  /\ signalled \in BOOLEAN /\ listening \in BOOLEAN
  /\ bucket \in BOOLEAN /\ timedOut \in BOOLEAN
  /\ serve \in {"none", "running", "nil", "error"}
  /\ exit \in {"none", "nil", "error", "killed"}

Init ==
  /\ New
  /\ pc = "load" /\ signalled = FALSE /\ listening = FALSE /\ serve = "none"
  /\ bucket \in BOOLEAN
  /\ exit = "none" /\ timedOut = FALSE

\* run returns and the process ends, with its listener and all goroutines.
Exit(result) ==
  /\ pc' = "exited" /\ exit' = result /\ listening' = FALSE
  /\ UNCHANGED <<signalled, serve>>

Return(result) == Exit(result) /\ UNCHANGED timedOut

Goto(step) == pc' = step /\ UNCHANGED <<signalled, listening, serve, exit, timedOut>>

(***************************************************************************)
(* Start-up                                                                *)
(***************************************************************************)

\* The step after one of config.Load, logging.New, NewClient and driver New.
After(step) ==
  CASE step = "load" -> "logging"
    [] step = "logging" -> "client"
    [] step = "client" -> IF CreateBucketIfMissing THEN "head" ELSE "driver"
    [] step = "driver" -> "listen"

\* Each of them may refuse what it is given.
Prepare ==
  /\ pc \in {"load", "logging", "client", "driver"}
  /\ \/ Goto(After(pc))
     \/ Return("error")
  /\ UNCHANGED <<driverVars, bucket>>

\* Mutant: every error of HeadBucket is taken for a bucket one may not see.
HeadBucketLenient ==
  /\ pc = "head"
  /\ \/ ~signalled /\ bucket /\ Goto("driver")
     \/ ~signalled /\ ~bucket /\ Goto("create")
     \/ (signalled \/ "error" \in Faults) /\ Goto("driver")
  /\ UNCHANGED <<driverVars, bucket>>

\* EnsureBucket asks first.  A signal has cancelled its context, and any error
\* but "not found" ends the start.
HeadBucket ==
  /\ pc = "head"
  /\ \/ ~signalled /\ bucket /\ Goto("driver")
     \/ ~signalled /\ ~bucket /\ Goto("create")
     \/ /\ signalled \/ "error" \in Faults
        /\ Return("error")
  /\ UNCHANGED <<driverVars, bucket>>

\* It may fail before or after S3 has created the bucket; when somebody else has
\* created it since, S3 answers with success or with an error.
CreateBucket ==
  /\ pc = "create"
  /\ \/ ~signalled /\ bucket' = TRUE /\ Goto("driver")
     \/ /\ signalled \/ bucket \/ "error" \in Faults
        /\ UNCHANGED bucket /\ Return("error")
     \/ /\ "lost" \in Faults
        /\ bucket' = TRUE /\ Return("error")
  /\ UNCHANGED driverVars

\* Another gateway, or anybody, creates the bucket.
OtherCreates ==
  /\ ~bucket /\ bucket' = TRUE
  /\ UNCHANGED <<driverVars, procVars>>

\* Listen, then the goroutine that calls Serve.
Listen ==
  /\ pc = "listen"
  /\ \/ /\ pc' = "serving" /\ listening' = TRUE /\ serve' = "running"
        /\ UNCHANGED <<signalled, exit, timedOut>>
     \/ Return("error")
  /\ UNCHANGED <<driverVars, bucket>>

(***************************************************************************)
(* Serving and shutting down                                               *)
(***************************************************************************)

\* SIGINT or SIGTERM.  Before NotifyContext it ends the process.
Signal ==
  /\ ~signalled /\ pc # "exited"
  /\ signalled' = TRUE
  /\ \/ /\ pc \in {"load", "logging"}
        /\ pc' = "exited" /\ exit' = "killed"
     \/ pc \notin {"load", "logging"} /\ UNCHANGED <<pc, exit>>
  /\ UNCHANGED <<driverVars, bucket, listening, serve, timedOut>>

\* Mutant: the goroutine sends io.EOF as it is.
ServeReturnsRaw ==
  /\ serve = "running" /\ pc # "exited"
  /\ \/ listening /\ serve' \in {"nil", "error", "eof"} /\ listening' = FALSE
     \/ ~listening /\ serve' = "nil" /\ UNCHANGED listening
  /\ UNCHANGED <<driverVars, bucket, pc, signalled, exit, timedOut>>

\* The library's accept loop ends with an error of its own, or because Stop has
\* closed the listener; it does not wait for the connections' goroutines.  The
\* process sees the result as an error or, for nil and io.EOF, as nil.
ServeReturns ==
  /\ serve = "running" /\ pc # "exited"
  /\ \/ listening /\ serve' \in {"nil", "error"} /\ listening' = FALSE
     \/ ~listening /\ serve' = "nil" /\ UNCHANGED listening
  /\ UNCHANGED <<driverVars, bucket, pc, signalled, exit, timedOut>>

\* The first select: either case when both are ready.
Select ==
  /\ pc = "serving"
  /\ \/ serve \in {"nil", "error"} /\ Return(serve)
     \/ signalled /\ Goto("stopping")
  /\ UNCHANGED <<driverVars, bucket>>

\* server.Stop closes the listener; that it is closed already is no matter.
Stop ==
  /\ pc = "stopping"
  /\ pc' = "waiting" /\ listening' = FALSE
  /\ UNCHANGED <<driverVars, bucket, signalled, serve, exit, timedOut>>

\* Mutant: the wait has no timer, and waits for the clients.
WaitForClients ==
  /\ pc = "waiting"
  /\ serve \in {"nil", "error"} /\ Served = {}
  /\ Return(serve)
  /\ UNCHANGED <<driverVars, bucket>>

\* The second select: Serve's result or ten seconds.
Wait ==
  /\ pc = "waiting"
  /\ \/ serve \in {"nil", "error"} /\ Return(serve)
     \/ Exit("nil") /\ timedOut' = TRUE
  /\ UNCHANGED <<driverVars, bucket>>

Run == Prepare \/ HeadBucket \/ CreateBucket \/ Listen \/ Select \/ Stop \/ Wait

\* The goroutines of the connections, as long as the process lives.
Connections ==
  /\ pc # "exited"
  /\ \E c \in Ids :
       \/ listening /\ serve = "running" /\ Arrive(c)
       \/ ClientConnected(c)
       \/ ClientDisconnected(c)
       \/ Transfer(c)
  /\ UNCHANGED <<procVars, bucket>>

Next == Run \/ Signal \/ OtherCreates \/ ServeReturns \/ Connections

Spec == Init /\ [][Next]_vars

\* run never blocks in a step that cannot fail: its S3 calls have a deadline of
\* thirty seconds, and its last wait has one of ten.
FairSpec == Spec /\ WF_vars(Run)

(***************************************************************************)
(* Properties                                                              *)
(***************************************************************************)

\* The limit on the driver's map (driver.go:107, 115, 132) is one on the
\* clients really served, in whatever order they come, are refused and leave: a
\* refused connection's disconnect frees nobody's place.
LimitHolds == MaxClients > 0 => Cardinality(Served) =< MaxClients

\* A client is turned away only while the full number is served
\* (ClientConnected, driver.go:107): no place is lost to those who left.
RefusedOnlyWhenFull ==
  [][\A c \in Ids : conn[c] = "arrived" /\ conn'[c] = "refused" =>
       MaxClients > 0 /\ Cardinality(Served) >= MaxClients]_vars

\* A server told to create its bucket (EnsureBucket, backend.go:157-168) never
\* takes clients without one, whoever else creates it and whatever fails.
ServesBucket ==
  CreateBucketIfMissing /\ listening => bucket

\* After a signal the process ends (main.go:152-174), whatever start-up step it
\* is in and whether or not Serve and the clients end.
ShutdownEnds == signalled ~> (pc = "exited")

\* "timed out waiting for in-flight transfers to finish" (main.go:173): the
\* wait of a shutdown ends before the ten seconds only when no transfer is in
\* flight.
WaitsForTransfers ==
  [][pc = "waiting" /\ pc' = "exited" /\ ~timedOut' => inflight = {}]_vars

=============================================================================
