---------------------------- MODULE ReplicaLife ----------------------------
(***************************************************************************)
(* main.go from its start to its end: a replica migrates, resets and       *)
(* imports, serves, and is told by a signal to stop.  It then refuses new  *)
(* requests and waits ten seconds for those it has, which go on; closing   *)
(* the pool then waits for the connections that they still hold.  A stream *)
(* of /sse holds none, and lasts until its client leaves.                  *)
(***************************************************************************)
EXTENDS Migrator

VARIABLES
    life,  \* where main.go is, once it has migrated
    open   \* the kinds of request that a replica has not yet answered

run == <<life, open>>
all == <<vars, run>>

\* A query holds a connection of the pool, a stream does not.
Kinds == {"query", "stream"}

\* A replica that has requests, or had them when it was told to stop, has
\* migrated.
LifeOK ==
    /\ life \in [Replicas -> {"boot", "serve", "shutdown", "close"}]
    /\ open \in [Replicas -> SUBSET Kinds]
    /\ \A r \in Replicas : life[r] # "boot" => pc[r] = "migrated"
    /\ \A r \in Replicas : life[r] = "boot" => open[r] = {}

LifeInit ==
    /\ Init
    /\ life = [r \in Replicas |-> "boot"]
    /\ open = [r \in Replicas |-> {}]

Live(r, from, to) ==
    /\ life[r] = from
    /\ life' = [life EXCEPT ![r] = to]

\* The process is gone, and with it what it had open.
Gone(r) ==
    /\ life' = [life EXCEPT ![r] = "boot"]
    /\ open' = [open EXCEPT ![r] = {}]

Migration(r) == Migrate(r) /\ UNCHANGED run

\* Slip: the server listens while the replica still migrates.
ServeAtOnce(r) ==
    /\ pc[r] # "down"
    /\ Live(r, "boot", "serve")
    /\ UNCHANGED <<open, vars>>

\* The reset and the import end, well or not, within their five minutes, and
\* the server listens.
Serve(r) ==
    /\ pc[r] = "migrated"
    /\ Live(r, "boot", "serve")
    /\ UNCHANGED <<open, vars>>

Accept(r) ==
    /\ life[r] = "serve"
    /\ \E kind \in Kinds : open' = [open EXCEPT ![r] = @ \cup {kind}]
    /\ UNCHANGED <<life, vars>>

\* A query is answered, also after the server has stopped waiting for it.
Answer(r) ==
    /\ "query" \in open[r]
    /\ open' = [open EXCEPT ![r] = @ \ {"query"}]
    /\ UNCHANGED <<life, vars>>

\* SSEHandler returns when its client has left, and Shutdown does not cancel
\* the context it waits for.
ClientLeaves(r) ==
    /\ "stream" \in open[r]
    /\ open' = [open EXCEPT ![r] = @ \ {"stream"}]
    /\ UNCHANGED <<life, vars>>

\* SIGTERM to a replica that serves; before, a signal ends the process.
Signal(r) ==
    /\ stops < MaxStops
    /\ Live(r, "serve", "shutdown")
    /\ stops' = stops + 1
    /\ UNCHANGED <<schema, recorded, pc, pending, locked, open>>

\* Slip: Shutdown is given a context without a deadline.
ShutdownWithoutLimit(r) ==
    /\ Live(r, "shutdown", "close")
    /\ open[r] = {}
    /\ UNCHANGED <<open, vars>>

\* Shutdown returns when nothing is open, or at the end of its ten seconds.
Shutdown(r) ==
    /\ Live(r, "shutdown", "close")
    /\ UNCHANGED <<open, vars>>

\* db.Close waits for every connection of the pool; then main returns.
Close(r) ==
    /\ life[r] = "close"
    /\ "query" \notin open[r]
    /\ Exit(r)
    /\ Gone(r)
    /\ UNCHANGED stops

\* The end of the process at any point: a crash, or a signal before it serves.
Die(r) == Stop(r) /\ Gone(r)

Main(r) == Migration(r) \/ Serve(r) \/ Shutdown(r) \/ Close(r)

LifeNext ==
    \E r \in Replicas :
        \/ Main(r) \/ Accept(r) \/ Answer(r) \/ ClientLeaves(r)
        \/ Signal(r) \/ Die(r)

\* A query ends: it fails or its lock is granted.  Nobody makes the client of
\* a stream leave.
LifeSpec ==
    /\ LifeInit
    /\ [][LifeNext]_all
    /\ \A r \in Replicas : WF_all(Main(r)) /\ WF_all(Answer(r))

-----------------------------------------------------------------------------
\* A replica that is told to stop is gone in the end, though its clients may
\* hold streams open for as long as they like.
ShutdownEnds == \A r \in Replicas : life[r] = "shutdown" ~> life[r] = "boot"

\* Every start of a replica ends in service, although each replica sees the
\* others' migrations fail its own, unless a stop has stranded a migration.
EveryReplicaServes ==
    \A r \in Replicas : life[r] = "boot" ~> (Stranded \/ life[r] = "serve")
=============================================================================
