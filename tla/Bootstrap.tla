------------------------------ MODULE Bootstrap ------------------------------
(***************************************************************************)
(* How the contexa daemon comes and goes: the commands daemon start, stop  *)
(* and status, which know the daemon by its PID file; the start of the     *)
(* daemon itself, which migrates the database, makes or loads the identity *)
(* files, registers the device and binds its port; signals, crashes, and   *)
(* an operating system that gives the number of a dead process to the next *)
(* one.  A step is one access to a file, a table or a process.             *)
(***************************************************************************)
EXTENDS Naturals, FiniteSets

CONSTANTS
    Pids,      \* process ids
    Cmds,      \* shells that run daemon commands
    None,      \* no file, no row, no process
    Torn,      \* a file that was truncated and not yet written
    MaxStarts  \* bound on the daemons that are started

ASSUME BootstrapAssumption ==
    /\ IsFiniteSet(Pids) /\ IsFiniteSet(Cmds)
    /\ MaxStarts \in Nat
    /\ None # Torn
    /\ {None, Torn} \cap (Pids \cup (1 .. MaxStarts)) = {}

VARIABLES
    pidfile,   \* daemon.pid
    files,     \* device_id and device_key.pem
    schema,    \* how far the migration of the database has come
    rows,      \* the key of each row of devices that a daemon made for itself
    cmd,       \* the command each shell is running
    proc,      \* the processes
    starts,    \* how many daemons were started
    past       \* what happened on the way, where a property asks for it

disk == <<pidfile, files, schema, rows>>
vars == <<pidfile, files, schema, rows, cmd, proc, starts, past>>

-----------------------------------------------------------------------------
(* Types. *)

\* The identities that are ever made, their ids and their keys.
Identities == 1 .. MaxStarts

Gone == {"free", "failed"}
Making == {"truncate_id", "write_id", "truncate_key", "write_key"}
\* A SIGTERM ends the daemon at once until main installs its handlers.
Unhandled == {"check_schema", "create_tables", "stamp", "find_files", "load_id",
              "load_key", "find_row", "insert_row"} \cup Making
Handled == {"bind", "serving", "draining"}

\* alone: no other daemon lived since it was started.
Process == [at : Gone \cup {"other"} \cup Unhandled \cup Handled,
            id : Identities \cup {None, Torn},
            key : Identities \cup {None}, told : BOOLEAN, alone : BOOLEAN]

Command == [op : {"start", "stop", "status", None}, pid : Pids \cup {None},
            at : {"idle", "look", "probe", "forget", "spawn",
                  "truncate", "write", "kill"}]

\* half: the steps at which a daemon died with something half done;
\* fell: a daemon ended that nobody had told to; raced: two daemons made
\* identities at once; disturbed: a command ran beside another, or was
\* interrupted.
TypeOK ==
    /\ pidfile \in Pids \cup {None, Torn}
    /\ files \in [id : Identities \cup {None, Torn}, key : Identities \cup {None, Torn}]
    /\ schema \in {"none", "partial", "head"}
    /\ rows \in [Identities \cup {Torn} -> Identities \cup {None}]
    /\ cmd \in [Cmds -> Command]
    /\ proc \in [Pids -> Process]
    /\ starts \in 0 .. MaxStarts
    /\ past \in [half : SUBSET {"stamp", "write_key"}, fell : BOOLEAN,
                 raced : BOOLEAN, disturbed : BOOLEAN]

Vacant(at) == [at |-> at, id |-> None, key |-> None, told |-> FALSE, alone |-> FALSE]
IdleCommand == [op |-> None, pid |-> None, at |-> "idle"]

Init ==
    /\ pidfile = None
    /\ files = [id |-> None, key |-> None]
    /\ schema = "none"
    /\ rows = [i \in Identities \cup {Torn} |-> None]
    /\ cmd = [c \in Cmds |-> IdleCommand]
    /\ proc = [p \in Pids |-> Vacant("free")]
    /\ starts = 0
    /\ past = [half |-> {}, fell |-> FALSE, raced |-> FALSE, disturbed |-> FALSE]

Alive(p) == proc[p].at \notin Gone
Daemon(p) == proc[p].at \in Unhandled \cup Handled

-----------------------------------------------------------------------------
(* The processes as the kernel has them. *)

\* The processes when daemon p ends.
EndOf(p) == [proc EXCEPT ![p] = Vacant("free")]

\* What is remembered of a daemon that dies; asked: a stop has sent SIGTERM.
Death(p, asked) ==
    [past EXCEPT !.half = @ \cup ({proc[p].at} \cap {"stamp", "write_key"}),
                 !.fell = @ \/ ~asked]

\* A crash, or a SIGKILL.
Die(p) ==
    /\ Daemon(p)
    /\ proc' = EndOf(p)
    /\ past' = Death(p, proc[p].told)
    /\ UNCHANGED <<disk, cmd, starts>>

\* Another program is given the number; it matters if somebody still means the
\* daemon by it.
OtherStarts(p) ==
    /\ ~Alive(p)
    /\ p = pidfile \/ \E c \in Cmds : cmd[c].pid = p
    /\ proc' = [proc EXCEPT ![p] = Vacant("other")]
    /\ UNCHANGED <<disk, cmd, starts, past>>

OtherEnds(p) ==
    /\ proc[p].at = "other"
    /\ proc' = [proc EXCEPT ![p] = Vacant("free")]
    /\ UNCHANGED <<disk, cmd, starts, past>>

-----------------------------------------------------------------------------
(* The commands. *)

Runs(c, at) == cmd[c].at = at
Goto(c, at) == cmd' = [cmd EXCEPT ![c].at = at]
Finish(c) == cmd' = [cmd EXCEPT ![c] = IdleCommand]

Begin(c, op) ==
    /\ Runs(c, "idle")
    /\ op = "start" =>
        starts + Cardinality({b \in Cmds : cmd[b].op = "start"}) < MaxStarts
    /\ cmd' = [cmd EXCEPT ![c] = [IdleCommand EXCEPT !.op = op, !.at = "look"]]
    /\ past' = [past EXCEPT !.disturbed = @ \/ \E b \in Cmds : ~Runs(b, "idle")]
    /\ UNCHANGED <<disk, proc, starts>>

\* PID_FILE.exists(), and read_text and int() if it does: an empty file is
\* caught by _is_running and not by stop; one that is removed between the two
\* calls ends a start that has done nothing.
Look(c) ==
    /\ Runs(c, "look")
    /\ \/ /\ pidfile \in Pids
          /\ cmd' = [cmd EXCEPT ![c].pid = pidfile,
                        ![c].at = IF cmd[c].op = "stop" THEN "kill" ELSE "probe"]
       \/ pidfile = Torn /\ cmd[c].op # "stop" /\ Goto(c, "forget")
       \/ pidfile = Torn /\ cmd[c].op = "stop" /\ Finish(c)
       \/ pidfile = None /\ cmd[c].op = "start" /\ Goto(c, "spawn")
       \/ /\ pidfile = None
          /\ cmd[c].op # "start" \/ \E b \in Cmds \ {c} : ~Runs(b, "idle")
          /\ Finish(c)
    /\ UNCHANGED <<disk, proc, starts, past>>

\* Variant of Probe: only a process that is there has its file removed.
ProbeInverted(c) ==
    /\ Runs(c, "probe")
    /\ IF ~Alive(cmd[c].pid) THEN Finish(c) ELSE Goto(c, "forget")
    /\ UNCHANGED <<disk, proc, starts, past>>

\* os.kill(pid, 0): whatever process has the number is taken for the daemon.
Probe(c) ==
    /\ Runs(c, "probe")
    /\ IF Alive(cmd[c].pid) THEN Finish(c) ELSE Goto(c, "forget")
    /\ UNCHANGED <<disk, proc, starts, past>>

\* Variant of Forget: the file stays.
ForgetNothing(c) ==
    /\ Runs(c, "forget")
    /\ IF cmd[c].op = "start" THEN Goto(c, "spawn") ELSE Finish(c)
    /\ UNCHANGED <<disk, proc, starts, past>>

\* unlink, after which a start goes on.  A file that another start has open
\* is then no PID file any more: what it writes is lost.
Forget(c) ==
    /\ Runs(c, "forget")
    /\ pidfile' = None
    /\ cmd' = [b \in Cmds |->
                IF b = c /\ cmd[c].op = "start" THEN [cmd[c] EXCEPT !.at = "spawn"]
                ELSE IF b = c \/ Runs(b, "write") THEN IdleCommand ELSE cmd[b]]
    /\ UNCHANGED <<files, schema, rows, proc, starts, past>>

\* subprocess.Popen
Spawn(c) ==
    /\ Runs(c, "spawn")
    /\ \E p \in Pids :
        /\ ~Alive(p)
        /\ cmd' = [cmd EXCEPT ![c].pid = p, ![c].at = "truncate"]
        /\ proc' = [q \in Pids |->
              IF q = p THEN [Vacant("check_schema") EXCEPT !.alone =
                                \A d \in Pids : ~Daemon(d)]
              ELSE [proc[q] EXCEPT !.alone = FALSE]]
    /\ starts' = starts + 1
    /\ UNCHANGED <<disk, past>>

\* write_text(pid): the file is opened, then written; over a number that was
\* written meanwhile, digits of both may stay.
TruncatePid(c) ==
    /\ Runs(c, "truncate")
    /\ pidfile' = Torn
    /\ Goto(c, "write")
    /\ UNCHANGED <<files, schema, rows, proc, starts, past>>

WritePid(c) ==
    /\ Runs(c, "write")
    /\ pidfile' \in IF pidfile = Torn THEN {cmd[c].pid} ELSE Pids
    /\ Finish(c)
    /\ UNCHANGED <<files, schema, rows, proc, starts, past>>

\* os.kill(pid, SIGTERM), to whatever process has the number: another program
\* ends, or belongs to another user and the command does.
Kill(c) ==
    /\ Runs(c, "kill")
    /\ LET p == cmd[c].pid
       IN  \/ /\ ~Alive(p)
              /\ Goto(c, "forget")
              /\ UNCHANGED <<proc, past>>
           \/ /\ proc[p].at = "other"
              /\ \/ Goto(c, "forget") /\ proc' = EndOf(p)
                 \/ Finish(c) /\ UNCHANGED proc
              /\ UNCHANGED past
           \/ /\ proc[p].at \in Unhandled
              /\ Goto(c, "forget")
              /\ proc' = EndOf(p)
              /\ past' = Death(p, TRUE)
           \/ /\ proc[p].at \in Handled
              /\ Goto(c, "forget")
              /\ proc' = [proc EXCEPT ![p].told = TRUE]
              /\ UNCHANGED past
    /\ UNCHANGED <<disk, starts>>

\* Ctrl-C, or the shell dies, with something half done; before that it is as
\* if the command had not run.
Interrupt(c) ==
    /\ \/ Runs(c, "truncate") \/ Runs(c, "write")
       \/ cmd[c].op = "stop" /\ Runs(c, "forget")
    /\ Finish(c)
    /\ past' = [past EXCEPT !.disturbed = TRUE]
    /\ UNCHANGED <<disk, proc, starts>>

-----------------------------------------------------------------------------
(* The daemon: main, as far as the handlers of its signals. *)

In(p, at) == proc[p].at = at
Proceed(p, at) == proc' = [proc EXCEPT ![p].at = at]
\* sys.exit(1)
Fail(p) ==
    proc' = [proc EXCEPT ![p] = [Vacant("failed") EXCEPT !.alone = proc[p].alone]]

\* init_db: Alembic reads the version of the database.
CheckSchema(p) ==
    /\ In(p, "check_schema")
    /\ Proceed(p, IF schema = "head" THEN "find_files" ELSE "create_tables")
    /\ UNCHANGED <<disk, cmd, starts, past>>

\* CREATE TABLE commits at once in SQLite; a table that exists raises.
CreateTables(p) ==
    /\ In(p, "create_tables")
    /\ \/ /\ schema = "none"
          /\ schema' = "partial"
          /\ Proceed(p, "stamp")
          /\ UNCHANGED past
       \/ /\ schema # "none"
          /\ Fail(p)
          /\ past' = [past EXCEPT !.fell = TRUE]
          /\ UNCHANGED schema
    /\ UNCHANGED <<pidfile, files, rows, cmd, starts>>

\* Variant of Stamp: the version is not committed.
StampNothing(p) ==
    /\ In(p, "stamp")
    /\ Proceed(p, "find_files")
    /\ UNCHANGED <<disk, cmd, starts, past>>

\* The last table is made and the version is written.
Stamp(p) ==
    /\ In(p, "stamp")
    /\ schema' = "head"
    /\ Proceed(p, "find_files")
    /\ UNCHANGED <<pidfile, files, rows, cmd, starts, past>>

\* generate_device_identity: one that is in no file, row or process, so that
\* nothing tells it from one that never was.
Generated == CHOOSE i \in Identities :
    /\ i \notin {files.id, files.key} /\ rows[i] = None
    /\ \A p \in Pids : i # proc[p].id /\ i # proc[p].key

\* load_or_generate_identity, from what the two exists() have found.
Decide(p, found) ==
    /\ In(p, "find_files")
    /\ \/ found /\ Proceed(p, "load_id") /\ UNCHANGED past
       \/ /\ ~found
          /\ proc' = [proc EXCEPT ![p].id = Generated, ![p].key = Generated,
                                 ![p].at = "truncate_id"]
          /\ past' = [past EXCEPT !.raced =
                        @ \/ \E q \in Pids : proc[q].at \in Making]
    /\ UNCHANGED <<disk, cmd, starts>>

\* Variant of FindFiles: the old files do not matter.
FindNothing(p) == Decide(p, FALSE)

FindFiles(p) == Decide(p, files.id # None /\ files.key # None)

\* load_device_identity: an empty id is an id; a key must parse.
LoadId(p) ==
    /\ In(p, "load_id")
    /\ proc' = [proc EXCEPT ![p].id = files.id, ![p].at = "load_key"]
    /\ UNCHANGED <<disk, cmd, starts, past>>

\* Variant of LoadKey: what is in the file is taken for a key.
LoadKeyUnparsed(p) ==
    /\ In(p, "load_key")
    /\ proc' = [proc EXCEPT ![p].key = files.key, ![p].at = "find_row"]
    /\ UNCHANGED <<disk, cmd, starts, past>>

LoadKey(p) ==
    /\ In(p, "load_key")
    /\ \/ /\ files.key \in Identities
          /\ proc' = [proc EXCEPT ![p].key = files.key, ![p].at = "find_row"]
          /\ UNCHANGED past
       \/ /\ files.key \notin Identities
          /\ Fail(p)
          /\ past' = [past EXCEPT !.fell = TRUE]
    /\ UNCHANGED <<disk, cmd, starts>>

\* save_device_identity: the id, then the key, each opened and written.
Save(p, at, field, value, to) ==
    /\ In(p, at)
    /\ files' = [files EXCEPT ![field] = value]
    /\ Proceed(p, to)
    /\ UNCHANGED <<pidfile, schema, rows, cmd, starts, past>>

TruncateId(p) == Save(p, "truncate_id", "id", Torn, "write_id")
WriteId(p) == Save(p, "write_id", "id", proc[p].id, "truncate_key")
TruncateKey(p) == Save(p, "truncate_key", "key", Torn, "write_key")

WriteKey(p) == Save(p, "write_key", "key", proc[p].key, "find_row")

\* register_self: the device's own row, if there is none.
FindRow(p) ==
    /\ In(p, "find_row")
    /\ Proceed(p, IF rows[proc[p].id] = None THEN "insert_row" ELSE "bind")
    /\ UNCHANGED <<disk, cmd, starts, past>>

\* add and commit: the primary key refuses a second row of the id.
InsertRow(p) ==
    /\ In(p, "insert_row")
    /\ \/ /\ rows[proc[p].id] = None
          /\ rows' = [rows EXCEPT ![proc[p].id] = proc[p].key]
          /\ Proceed(p, "bind")
          /\ UNCHANGED past
       \/ /\ rows[proc[p].id] # None
          /\ Fail(p)
          /\ past' = [past EXCEPT !.fell = TRUE]
          /\ UNCHANGED rows
    /\ UNCHANGED <<pidfile, files, schema, cmd, starts>>

-----------------------------------------------------------------------------
(* The daemon: server.run. *)

\* Nobody else listens on the port, or the bind raises.
Bind(p) ==
    /\ In(p, "bind")
    /\ \/ /\ \A q \in Pids : ~In(q, "serving")
          /\ proc' = [proc EXCEPT ![p].at = "serving", ![p].alone = FALSE]
          /\ UNCHANGED past
       \/ /\ \E q \in Pids : In(q, "serving")
          /\ Fail(p)
          /\ past' = [past EXCEPT !.fell = @ \/ ~proc[p].told]
    /\ UNCHANGED <<disk, cmd, starts>>

\* uvicorn sees should_exit and closes the port; requests in flight go on.
Drain(p) ==
    /\ In(p, "serving") /\ proc[p].told
    /\ Proceed(p, "draining")
    /\ UNCHANGED <<disk, cmd, starts, past>>

\* The last request has ended: flush, close, exit 0.
Exit(p) ==
    /\ In(p, "draining")
    /\ proc' = EndOf(p)
    /\ UNCHANGED <<disk, cmd, starts, past>>

Main(p) ==
    \/ CheckSchema(p) \/ CreateTables(p) \/ Stamp(p)
    \/ FindFiles(p) \/ LoadId(p) \/ LoadKey(p)
    \/ TruncateId(p) \/ WriteId(p) \/ TruncateKey(p) \/ WriteKey(p)
    \/ FindRow(p) \/ InsertRow(p) \/ Bind(p) \/ Drain(p) \/ Exit(p)

Shell(c) ==
    \/ \E op \in {"start", "stop", "status"} : Begin(c, op)
    \/ Look(c) \/ Probe(c) \/ Forget(c) \/ Spawn(c)
    \/ TruncatePid(c) \/ WritePid(c) \/ Kill(c) \/ Interrupt(c)

Next ==
    \/ \E c \in Cmds : Shell(c)
    \/ \E p \in Pids : Main(p) \/ Die(p) \/ OtherStarts(p) \/ OtherEnds(p)

Spec == Init /\ [][Next]_vars

-----------------------------------------------------------------------------
(* Properties. *)

\* The device keeps the identity it was registered with: unless two daemons
\* made identities at once, the files hold the registered id and its key from
\* then on, whatever dies half way through a later start, and the row has the
\* key the daemon signs with (load_or_generate_identity, register_self).
IdentityKept ==
    past.raced \/
        /\ \A i \in Identities \cup {Torn} : rows[i] # None =>
            files = [id |-> i, key |-> rows[i]]
        /\ \A p \in Pids : In(p, "bind") \/ In(p, "serving") =>
            rows[proc[p].id] = proc[p].key

\* A start with no other daemon about fails only if an earlier daemon died
\* inside the migration or between opening the key file and writing it: a
\* stale PID file, a number that was given away or any other death does not
\* keep the device from starting (main 104-152).
StartsAlone ==
    \A p \in Pids : In(p, "failed") /\ proc[p].alone => past.half # {}

\* Commands that ran one at a time and to their end keep the PID file right:
\* between them it names every daemon that was not told to stop, however
\* daemons died, starts failed and numbers were reused meanwhile.
DaemonNamed ==
    (\A c \in Cmds : Runs(c, "idle")) /\ ~past.disturbed =>
        \A p \in Pids : Daemon(p) /\ ~proc[p].told => pidfile = p

\* stop does not send another program the signal meant for the daemon, unless a
\* daemon ended without being told or commands crossed (stop 49-61).
StopHitsDaemon ==
    \A c \in Cmds : Runs(c, "kill") /\ proc[cmd[c].pid].at = "other" =>
        past.fell \/ past.disturbed
=============================================================================
