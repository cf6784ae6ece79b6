----------------------------- MODULE DbSnapshot -----------------------------
(***************************************************************************)
(* The training server's SQLite database (server/scripts/run.sh and        *)
(* db_snapshot.sh): it lives on the node's disk, a daemon copies it to     *)
(* durable storage, and the exit trap takes a last copy and removes it.    *)
(*                                                                         *)
(* A database is the number of transactions in it; 0 is one without even   *)
(* its tables.  Absent is no file and Torn a half-written one.             *)
(***************************************************************************)
EXTENDS Integers

CONSTANTS
  MaxVersion, \* bound: transactions over all runs
  MaxRuns,    \* bound: times run.sh is started
  Absent, Torn

ASSUME SnapshotAssumption ==
  /\ MaxVersion \in Nat /\ MaxRuns \in Nat \ {0}
  /\ {Absent, Torn} \cap Nat = {} /\ Absent # Torn

Procs == {"daemon", "once"}

VARIABLES
  runs,     \* times run.sh was started
  server,   \* "up" or "down"
  hostTmp,  \* whether HOST_TMP exists
  live,     \* LIVE_DB
  durable,  \* DURABLE_DB
  pc,       \* process -> position in snapshot(), or "off", "asleep"
  copy,     \* process -> version sqlite3 is copying
  tmp,      \* process -> its ${durable}.snap.$$
  stop,     \* _stop of the daemon
  lastOne,  \* the daemon has left its loop
  cleanup,  \* position of the exit trap
  synced,   \* history: version the daemon's last good snapshot started from
  trapped   \* history: an exit trap has run

procs == <<pc, copy, tmp, stop, lastOne>>
dbVars == <<runs, server, hostTmp, live, durable, procs, cleanup, synced, trapped>>

DbInit ==
  /\ runs = 0 /\ server = "down" /\ hostTmp = FALSE
  /\ live = Absent /\ durable = Absent
  /\ pc = [p \in Procs |-> "off"] /\ copy = [p \in Procs |-> Absent]
  /\ tmp = [p \in Procs |-> Absent]
  /\ stop = FALSE /\ lastOne = FALSE /\ cleanup = "off"
  /\ synced = 0 /\ trapped = FALSE

Seed_Fresh == Absent

\* cp "$DURABLE_DB" "$LIVE_DB", when there is one.
Seed == durable

\* run.sh: a fresh HOST_TMP, the seed, the daemon, the server.
StartRun ==
  /\ runs < MaxRuns
  /\ server = "down" /\ pc = [p \in Procs |-> "off"] /\ cleanup = "off"
  /\ runs' = runs + 1
  /\ hostTmp' = TRUE /\ live' = Seed
  /\ pc' = [pc EXCEPT !["daemon"] = "check"]
  /\ stop' = FALSE /\ lastOne' = FALSE
  /\ server' = "up"
  /\ UNCHANGED <<durable, copy, tmp, cleanup, synced, trapped>>

\* A transaction of the server; the first one creates the file.
Write ==
  /\ server = "up"
  /\ live' = IF live = Absent THEN 1 ELSE live + 1
  /\ live' <= MaxVersion
  /\ UNCHANGED <<runs, server, hostTmp, durable, procs, cleanup, synced, trapped>>

-----------------------------------------------------------------------------
(* snapshot(), run by the daemon and by the trap's "once" *)

\* After snapshot() the daemon sleeps, unless it was its last one.
Return(p) ==
  pc' = [pc EXCEPT ![p] = IF p = "once" \/ lastOne THEN "off" ELSE "asleep"]

\* [ -f "$live" ] || return 0
CheckLive(p) ==
  /\ pc[p] = "check"
  /\ IF live = Absent THEN Return(p)
     ELSE pc' = [pc EXCEPT ![p] = "open"]
  /\ UNCHANGED <<runs, server, hostTmp, live, durable, copy, tmp, stop, lastOne,
                 cleanup, synced, trapped>>

\* The name .backup writes to.
WriteTo(p, version) == tmp' = [tmp EXCEPT ![p] = version] /\ UNCHANGED durable

\* sqlite3 opens the file and reads a consistent view; a file that is gone by
\* then is created, empty, as long as its directory is there.
OpenLive(p) ==
  /\ pc[p] = "open" /\ hostTmp
  /\ live' = IF live = Absent THEN 0 ELSE live
  /\ copy' = [copy EXCEPT ![p] = live']
  /\ WriteTo(p, Torn)
  /\ pc' = [pc EXCEPT ![p] = "copy"]
  /\ UNCHANGED <<runs, server, hostTmp, stop, lastOne, cleanup, synced, trapped>>

BackupDone(p) ==
  /\ pc[p] = "copy"
  /\ WriteTo(p, copy[p])
  /\ pc' = [pc EXCEPT ![p] = "move"]
  /\ UNCHANGED <<runs, server, hostTmp, live, copy, stop, lastOne, cleanup,
                 synced, trapped>>

BackupFails(p) ==
  /\ pc[p] \in {"open", "copy"}
  /\ tmp' = [tmp EXCEPT ![p] = Absent]
  /\ Return(p)
  /\ UNCHANGED <<runs, server, hostTmp, live, durable, copy, stop, lastOne,
                 cleanup, synced, trapped>>

Moved(p) == tmp[p]

\* mv -f
Move(p) ==
  /\ pc[p] = "move"
  /\ durable' = Moved(p)
  /\ tmp' = [tmp EXCEPT ![p] = Absent]
  /\ synced' = IF p = "daemon" THEN copy[p] ELSE synced
  /\ Return(p)
  /\ UNCHANGED <<runs, server, hostTmp, live, copy, stop, lastOne, cleanup, trapped>>

-----------------------------------------------------------------------------
(* The daemon's loop *)

\* The interval is over, or TERM ends it: then the loop ends and the last
\* snapshot begins.
Wake ==
  /\ pc["daemon"] = "asleep"
  /\ pc' = [pc EXCEPT !["daemon"] = "check"]
  /\ lastOne' = stop
  /\ UNCHANGED <<runs, server, hostTmp, live, durable, copy, tmp, stop,
                 cleanup, synced, trapped>>

-----------------------------------------------------------------------------
(* The end of run.sh *)

ServerEnds ==
  /\ server = "up"
  /\ server' = "down" /\ trapped' = TRUE /\ cleanup' = "kill"
  /\ UNCHANGED <<runs, hostTmp, live, durable, procs, synced>>

\* cleanup(): TERM to the daemon, not waited for, and a snapshot of its own.
StopDaemon ==
  /\ cleanup = "kill"
  /\ stop' = TRUE
  /\ pc' = [pc EXCEPT !["once"] = "check"]
  /\ cleanup' = "once"
  /\ UNCHANGED <<runs, server, hostTmp, live, durable, copy, tmp, lastOne,
                 synced, trapped>>

\* rm -rf "$HOST_TMP", file by file.
RemoveLive ==
  /\ cleanup = "once" /\ pc["once"] = "off"
  /\ live' = Absent /\ cleanup' = "rmdir"
  /\ UNCHANGED <<runs, server, hostTmp, durable, procs, synced, trapped>>

\* The directory stays if a file was made in it meanwhile.
RemoveDir ==
  /\ cleanup = "rmdir"
  /\ hostTmp' = (live # Absent) /\ cleanup' = "off"
  /\ UNCHANGED <<runs, server, live, durable, procs, synced, trapped>>

\* SIGKILL: the node's disk and all processes are gone, no trap runs.
Kill ==
  /\ server = "up" \/ cleanup # "off"
  /\ server' = "down" /\ hostTmp' = FALSE /\ live' = Absent
  /\ cleanup' = "off"
  /\ pc' = [p \in Procs |-> "off"] /\ tmp' = [p \in Procs |-> Absent]
  /\ UNCHANGED <<runs, durable, copy, stop, lastOne, synced, trapped>>

Snapshot(p) == \/ CheckLive(p) \/ OpenLive(p) \/ BackupDone(p) \/ BackupFails(p)
               \/ Move(p)

DbNext == \/ StartRun \/ Write \/ Wake
        \/ \E p \in Procs : Snapshot(p)
        \/ ServerEnds \/ StopDaemon \/ RemoveLive \/ RemoveDir \/ Kill

DbSpec == DbInit /\ [][DbNext]_dbVars

-----------------------------------------------------------------------------
(* Properties *)

\* "a reader on /work1 never sees a half-written file"
NeverHalfWritten == durable # Torn

\* "bounds the loss to one interval": as long as runs end by SIGKILL, the
\* durable copy has everything the database had when the last good periodic
\* snapshot began, and restarts build on it.
LossBounded ==
  ~trapped /\ synced > 0 => durable # Absent /\ durable >= synced

\* As long as no exit trap runs, neither a snapshot nor a restart takes the
\* durable copy back in time.
NeverBackwards ==
  [][ ~trapped /\ durable # Absent => durable' >= durable ]_durable

\* All three: what is durable is whole, keeps what was synced and never goes
\* back.
NothingDurableLost == []NeverHalfWritten /\ []LossBounded /\ NeverBackwards
=============================================================================
