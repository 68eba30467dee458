--------------------------- MODULE BootstrapProofs ---------------------------
(***************************************************************************)
(* The daemon's coming and going, for any number of processes, shells and  *)
(* starts: the device keeps its identity, a daemon that is alone starts,   *)
(* and the PID file names the daemon as long as commands do not cross.     *)
(***************************************************************************)
EXTENDS Bootstrap, Integers, FiniteSetTheorems, TLAPS

-----------------------------------------------------------------------------
(* The inductive invariant. *)

\* What a command knows at its steps.
CommandShapes ==
    \A c \in Cmds :
        /\ cmd[c].at \in {"probe", "truncate", "write", "kill"} => cmd[c].pid \in Pids
        /\ cmd[c].at \in {"spawn", "truncate", "write"} => cmd[c].op = "start"
        /\ cmd[c].at = "kill" => cmd[c].op # "start"

\* The starts that are still to come have their place among MaxStarts.
Starters == {c \in Cmds : cmd[c].op = "start"
                            /\ cmd[c].at \in {"look", "probe", "forget", "spawn"}}
StartsBooked == starts + Cardinality(Starters) <= MaxStarts

\* Every daemon makes one identity at most, so there is one for the next.
Used == {i \in Identities :
            \/ i \in {files.id, files.key} \/ rows[i] # None
            \/ \E p \in Pids : i = proc[p].id \/ i = proc[p].key}
Undecided == {p \in Pids :
                proc[p].at \in {"check_schema", "create_tables", "stamp", "find_files"}}
IdentitiesBooked == Cardinality(Used) + Cardinality(Undecided) <= starts

\* A daemon about to write an identity has made one.
MakersHaveKeys ==
    \A p \in Pids : proc[p].at \in Making =>
        proc[p].id \in Identities /\ proc[p].key \in Identities

\* The files and what daemons took from them, unless two made identities at
\* once: the key is opened when the id is there for good, and what is loaded
\* or registered afterwards is what the files hold.
Loaded == {"find_row", "insert_row", "bind", "serving"}
FilesAgree ==
    ~past.raced =>
        /\ \A p, q \in Pids : proc[p].at \in Making /\ proc[q].at \in Making => p = q
        /\ files.key # None => files.id \in Identities
        /\ \A p \in Pids :
            /\ proc[p].at \in {"truncate_id", "write_id", "truncate_key"} => files.key = None
            /\ In(p, "truncate_key") => files.id = proc[p].id
            /\ In(p, "write_key") => files = [id |-> proc[p].id, key |-> Torn]
            /\ proc[p].at \in {"load_id", "load_key"} => files.key # None
            /\ In(p, "load_key") => files.id = proc[p].id
            /\ proc[p].at \in Loaded =>
                proc[p].key \in Identities /\ files = [id |-> proc[p].id, key |-> proc[p].key]

\* What is half done has somebody at it, or somebody who died there.
HalvesBooked ==
    /\ schema = "partial" => "stamp" \in past.half \/ \E p \in Pids : In(p, "stamp")
    /\ files.key = Torn => "write_key" \in past.half \/ \E p \in Pids : In(p, "write_key")
    /\ \A p \in Pids : proc[p].at \in {"load_id", "load_key"} => files.key # None

\* A daemon that is alone finds what it was told a step ago.
AloneBooked ==
    \A p \in Pids : proc[p].alone /\ Daemon(p) =>
        /\ \A q \in Pids \ {p} : ~Daemon(q)
        /\ In(p, "create_tables") => schema = "none" \/ past.half # {}
        /\ In(p, "insert_row") => rows[proc[p].id] = None

\* The commands and the PID file, as long as commands run one at a time and to
\* their end.
Untold(p) == Daemon(p) /\ ~proc[p].told
CommandsBooked ==
    ~past.disturbed =>
        /\ \A b, c \in Cmds : ~Runs(b, "idle") /\ ~Runs(c, "idle") => b = c
        /\ pidfile = Torn => \E c \in Cmds : Runs(c, "write")
        /\ \A c \in Cmds :
            /\ Runs(c, "probe") \/ Runs(c, "kill") => pidfile = cmd[c].pid
            /\ Runs(c, "spawn") \/ Runs(c, "truncate") => pidfile = None
            /\ Runs(c, "write") => pidfile = Torn
            /\ Runs(c, "spawn") \/ Runs(c, "forget") => \A p \in Pids : ~Untold(p)
        /\ \A p \in Pids : Untold(p) =>
            pidfile = p \/ \E c \in Cmds :
                (Runs(c, "truncate") \/ Runs(c, "write")) /\ cmd[c].pid = p

\* As long as no daemon ended untold either, the file names one that lives.
NoneFell ==
    ~past.disturbed /\ ~past.fell =>
        /\ pidfile \in Pids /\ (\A c \in Cmds : ~Runs(c, "forget")) => Untold(pidfile)
        /\ \A c \in Cmds : Runs(c, "truncate") \/ Runs(c, "write") => Untold(cmd[c].pid)

Drained == \A p \in Pids : In(p, "draining") => proc[p].told

IInv ==
    /\ TypeOK /\ CommandShapes /\ StartsBooked /\ IdentitiesBooked
    /\ MakersHaveKeys /\ FilesAgree /\ IdentityKept
    /\ HalvesBooked /\ AloneBooked /\ StartsAlone
    /\ CommandsBooked /\ NoneFell /\ Drained

-----------------------------------------------------------------------------
(* What the steps do to the processes and the commands. *)

\* Process p comes to a step and the others stay where they are.
Turns(p, at) ==
    /\ proc' \in [Pids -> Process]
    /\ proc'[p].at = at
    /\ \A q \in Pids : q # p => proc'[q] = proc[q]
Bears(p, id, key, told, alone) ==
    /\ proc'[p].id = id /\ proc'[p].key = key
    /\ proc'[p].told = told /\ proc'[p].alone = alone

\* Its fields are of their types.
LEMMA ProcessTyped ==
  ASSUME TypeOK, NEW p \in Pids
  PROVE  /\ proc[p] \in Process
         /\ proc[p].at \in Gone \cup {"other"} \cup Unhandled \cup Handled
         /\ proc[p].id \in Identities \cup {None, Torn}
         /\ proc[p].key \in Identities \cup {None}
         /\ proc[p].told \in BOOLEAN /\ proc[p].alone \in BOOLEAN
<1>1. proc[p] \in Process
  BY DEF TypeOK
<1> QED BY <1>1 DEF Process

\* A daemon that goes on keeps what it has.
LEMMA Proceeds ==
  ASSUME TypeOK, NEW p \in Pids, NEW at \in Unhandled \cup Handled, Proceed(p, at)
  PROVE  /\ Turns(p, at)
         /\ Bears(p, proc[p].id, proc[p].key, proc[p].told, proc[p].alone)
<1>1. proc \in [Pids -> Process] /\ proc[p] \in Process
  BY DEF TypeOK
<1>2. proc'[p] = [proc[p] EXCEPT !.at = at] /\ proc'[p] \in Process
  BY <1>1 DEF Proceed, Process
<1>3. proc' \in [Pids -> Process] /\ \A q \in Pids : q # p => proc'[q] = proc[q]
  BY <1>1, <1>2 DEF Proceed
<1> HIDE DEF Process
<1>4. proc'[p].at = at /\ Bears(p, proc[p].id, proc[p].key, proc[p].told, proc[p].alone)
  BY <1>1, <1>2 DEF Process, Bears
<1> QED BY <1>3, <1>4 DEF Turns

\* A process that is replaced by one with nothing.
LEMMA Vacated ==
  ASSUME TypeOK, NEW p \in Pids, NEW at \in Gone \cup {"other"} \cup Unhandled,
         proc' = [proc EXCEPT ![p] = Vacant(at)]
  PROVE  Turns(p, at) /\ Bears(p, None, None, FALSE, FALSE)
<1>1. proc \in [Pids -> Process]
  BY DEF TypeOK
<1>2. Vacant(at) \in Process
  <2>1. at \in Gone \cup {"other"} \cup Unhandled \cup Handled
    OBVIOUS
  <2> QED BY <2>1 DEF Vacant, Process
<1>3. proc' \in [Pids -> Process] /\ proc'[p] = Vacant(at)
      /\ \A q \in Pids : q # p => proc'[q] = proc[q]
  BY <1>1, <1>2
<1> QED BY <1>3 DEF Turns, Bears, Vacant

\* A daemon that fails has nothing either.
LEMMA FailsHow ==
  ASSUME TypeOK, NEW p \in Pids, Fail(p)
  PROVE  Turns(p, "failed") /\ Bears(p, None, None, FALSE, proc[p].alone)
<1> DEFINE none == Vacant("failed")
           new == [none EXCEPT !.alone = proc[p].alone]
<1>1. proc \in [Pids -> Process] /\ proc[p].alone \in BOOLEAN
  BY ProcessTyped DEF TypeOK
<1>2. /\ none \in Process /\ none.at = "failed" /\ none.id = None /\ none.key = None
      /\ none.told = FALSE
  BY DEF Vacant, Process, Gone
<1> HIDE DEF none
<1>3. new \in Process
  BY <1>1, <1>2 DEF Process
<1>4. /\ new.at = "failed" /\ new.id = None /\ new.key = None
      /\ new.told = FALSE /\ new.alone = proc[p].alone
  BY <1>1, <1>2 DEF Process
<1>5. proc' = [proc EXCEPT ![p] = new]
  BY DEF Fail, none
<1> HIDE DEF new
<1>6. proc' \in [Pids -> Process] /\ proc'[p] = new
      /\ \A q \in Pids : q # p => proc'[q] = proc[q]
  BY <1>1, <1>3, <1>5
<1> QED BY <1>4, <1>6 DEF Turns, Bears

\* A daemon that takes an identity, a part of one, or its place on the port, or
\* is told to stop, keeps the rest of what it has.
LEMMA Takes ==
  ASSUME TypeOK, NEW p \in Pids, NEW at \in Unhandled \cup Handled,
         NEW id \in Identities \cup {None, Torn}, NEW key \in Identities \cup {None}
  PROVE  /\ proc' = [proc EXCEPT ![p].id = id, ![p].at = at] =>
                /\ Turns(p, at) /\ Bears(p, id, proc[p].key, proc[p].told, proc[p].alone)
         /\ proc' = [proc EXCEPT ![p].key = key, ![p].at = at] =>
                /\ Turns(p, at) /\ Bears(p, proc[p].id, key, proc[p].told, proc[p].alone)
         /\ proc' = [proc EXCEPT ![p].id = id, ![p].key = key, ![p].at = at] =>
                /\ Turns(p, at) /\ Bears(p, id, key, proc[p].told, proc[p].alone)
         /\ proc' = [proc EXCEPT ![p].at = at, ![p].alone = FALSE] =>
                /\ Turns(p, at) /\ Bears(p, proc[p].id, proc[p].key, proc[p].told, FALSE)
         /\ proc' = [proc EXCEPT ![p].told = TRUE] =>
                /\ Turns(p, proc[p].at)
                /\ Bears(p, proc[p].id, proc[p].key, TRUE, proc[p].alone)
<1>1. proc \in [Pids -> Process] /\ proc[p] \in Process
  BY DEF TypeOK
<1>2. ASSUME NEW new \in Process, proc' = [proc EXCEPT ![p] = new]
      PROVE  /\ Turns(p, new.at)
             /\ Bears(p, new.id, new.key, new.told, new.alone)
  BY <1>1, <1>2 DEF Turns, Bears
<1>3. ASSUME proc' = [proc EXCEPT ![p].id = id, ![p].at = at]
      PROVE  Turns(p, at) /\ Bears(p, id, proc[p].key, proc[p].told, proc[p].alone)
  <2> DEFINE new == [proc[p] EXCEPT !.id = id, !.at = at]
  <2>1. new \in Process
    BY <1>1 DEF Process
  <2>2. /\ new.at = at /\ new.id = id /\ new.key = proc[p].key
        /\ new.told = proc[p].told /\ new.alone = proc[p].alone
    BY <1>1 DEF Process
  <2>3. proc' = [proc EXCEPT ![p] = new]
    BY <1>1, <1>3 DEF Process
  <2> HIDE DEF new
  <2> QED BY <1>2, <2>1, <2>2, <2>3
<1>4. ASSUME proc' = [proc EXCEPT ![p].key = key, ![p].at = at]
      PROVE  Turns(p, at) /\ Bears(p, proc[p].id, key, proc[p].told, proc[p].alone)
  <2> DEFINE new == [proc[p] EXCEPT !.key = key, !.at = at]
  <2>1. new \in Process
    BY <1>1 DEF Process
  <2>2. /\ new.at = at /\ new.id = proc[p].id /\ new.key = key
        /\ new.told = proc[p].told /\ new.alone = proc[p].alone
    BY <1>1 DEF Process
  <2>3. proc' = [proc EXCEPT ![p] = new]
    BY <1>1, <1>4 DEF Process
  <2> HIDE DEF new
  <2> QED BY <1>2, <2>1, <2>2, <2>3
<1>5. ASSUME proc' = [proc EXCEPT ![p].id = id, ![p].key = key, ![p].at = at]
      PROVE  Turns(p, at) /\ Bears(p, id, key, proc[p].told, proc[p].alone)
  <2> DEFINE new == [proc[p] EXCEPT !.id = id, !.key = key, !.at = at]
  <2>1. new \in Process
    BY <1>1 DEF Process
  <2>2. /\ new.at = at /\ new.id = id /\ new.key = key
        /\ new.told = proc[p].told /\ new.alone = proc[p].alone
    BY <1>1 DEF Process
  <2>3. proc' = [proc EXCEPT ![p] = new]
    BY <1>1, <1>5 DEF Process
  <2> HIDE DEF new
  <2> QED BY <1>2, <2>1, <2>2, <2>3
<1>6. ASSUME proc' = [proc EXCEPT ![p].at = at, ![p].alone = FALSE]
      PROVE  Turns(p, at) /\ Bears(p, proc[p].id, proc[p].key, proc[p].told, FALSE)
  <2> DEFINE new == [proc[p] EXCEPT !.at = at, !.alone = FALSE]
  <2>1. new \in Process
    BY <1>1 DEF Process
  <2>2. /\ new.at = at /\ new.id = proc[p].id /\ new.key = proc[p].key
        /\ new.told = proc[p].told /\ new.alone = FALSE
    BY <1>1 DEF Process
  <2>3. proc' = [proc EXCEPT ![p] = new]
    BY <1>1, <1>6 DEF Process
  <2> HIDE DEF new
  <2> QED BY <1>2, <2>1, <2>2, <2>3
<1>7. ASSUME proc' = [proc EXCEPT ![p].told = TRUE]
      PROVE  Turns(p, proc[p].at) /\ Bears(p, proc[p].id, proc[p].key, TRUE, proc[p].alone)
  <2> DEFINE new == [proc[p] EXCEPT !.told = TRUE]
  <2>1. new \in Process
    BY <1>1 DEF Process
  <2>2. /\ new.at = proc[p].at /\ new.id = proc[p].id /\ new.key = proc[p].key
        /\ new.told = TRUE /\ new.alone = proc[p].alone
    BY <1>1 DEF Process
  <2>3. proc' = [proc EXCEPT ![p] = new]
    BY <1>1, <1>7 DEF Process
  <2> HIDE DEF new
  <2> QED BY <1>2, <2>1, <2>2, <2>3
<1> QED BY <1>3, <1>4, <1>5, <1>6, <1>7

\* What a command does: it goes on to a step, or it is done.
Others(c) == \A b \in Cmds : b # c => cmd'[b] = cmd[b]
Idles(c) == cmd'[c].at = "idle" /\ cmd'[c].op = None /\ cmd'[c].pid = None
GoesOn(c, at) == cmd'[c].at = at /\ cmd'[c].op = cmd[c].op /\ cmd'[c].pid = cmd[c].pid

\* The steps of a command keep the type.
LEMMA CommandMoves ==
  ASSUME TypeOK, NEW c \in Cmds
  PROVE  /\ Finish(c) => cmd' \in [Cmds -> Command] /\ Idles(c) /\ Others(c)
         /\ \A at \in {"forget", "spawn", "write", "kill", "probe", "truncate"} :
                Goto(c, at) => cmd' \in [Cmds -> Command] /\ GoesOn(c, at) /\ Others(c)
<1>1. cmd \in [Cmds -> Command] /\ cmd[c] \in Command
  BY DEF TypeOK
<1>2. IdleCommand \in Command
  BY DEF IdleCommand, Command
<1>3. ASSUME Finish(c)
      PROVE  cmd' \in [Cmds -> Command] /\ Idles(c) /\ Others(c)
  <2>1. cmd'[c] = IdleCommand /\ cmd' \in [Cmds -> Command] /\ Others(c)
    BY <1>1, <1>2, <1>3 DEF Finish, Others
  <2> QED BY <2>1 DEF Idles, IdleCommand
<1>4. ASSUME NEW at \in {"forget", "spawn", "write", "kill", "probe", "truncate"}, Goto(c, at)
      PROVE  cmd' \in [Cmds -> Command] /\ GoesOn(c, at) /\ Others(c)
  <2>1. cmd'[c] = [cmd[c] EXCEPT !.at = at] /\ cmd'[c] \in Command
    BY <1>1, <1>4 DEF Goto, Command
  <2>2. cmd' \in [Cmds -> Command] /\ Others(c)
    BY <1>1, <1>4, <2>1 DEF Goto, Others
  <2>3. GoesOn(c, at)
    BY <1>1, <2>1 DEF GoesOn, Command
  <2> QED BY <2>2, <2>3
<1> QED BY <1>3, <1>4

\* What is remembered of the past, as the steps change it.
PastType == [half : SUBSET {"stamp", "write_key"}, fell : BOOLEAN,
             raced : BOOLEAN, disturbed : BOOLEAN]
Recalls(half, fell, raced, disturbed) ==
    /\ past' \in PastType
    /\ past'.half = half /\ (past'.fell <=> fell)
    /\ (past'.raced <=> raced) /\ (past'.disturbed <=> disturbed)

\* Each kind of step changes one or two of its parts.
LEMMA PastKept ==
  ASSUME TypeOK, NEW p \in Pids
  PROVE  /\ past' = past =>
                Recalls(past.half, past.fell, past.raced, past.disturbed)
         /\ \A asked \in BOOLEAN : past' = Death(p, asked) =>
                Recalls(past.half \cup ({proc[p].at} \cap {"stamp", "write_key"}),
                        past.fell \/ ~asked, past.raced, past.disturbed)
         /\ \A b \in BOOLEAN : past' = [past EXCEPT !.fell = b] =>
                Recalls(past.half, b, past.raced, past.disturbed)
         /\ \A b \in BOOLEAN : past' = [past EXCEPT !.raced = b] =>
                Recalls(past.half, past.fell, b, past.disturbed)
         /\ \A b \in BOOLEAN : past' = [past EXCEPT !.disturbed = b] =>
                Recalls(past.half, past.fell, past.raced, b)
<1>1. past \in PastType
  BY DEF TypeOK, PastType
<1>2. /\ past.half \in SUBSET {"stamp", "write_key"} /\ past.fell \in BOOLEAN
      /\ past.raced \in BOOLEAN /\ past.disturbed \in BOOLEAN
  BY <1>1 DEF PastType
<1>3. past' = past => Recalls(past.half, past.fell, past.raced, past.disturbed)
  BY <1>1 DEF Recalls
<1>4. ASSUME NEW h \in SUBSET {"stamp", "write_key"}, NEW b \in BOOLEAN,
             past' = [past EXCEPT !.half = h, !.fell = b]
      PROVE  Recalls(h, b, past.raced, past.disturbed)
  <2>1. past' \in PastType
    BY <1>1, <1>4 DEF PastType
  <2>2. past'.half = h /\ past'.fell = b /\ past'.raced = past.raced
        /\ past'.disturbed = past.disturbed
    BY <1>1, <1>4 DEF PastType
  <2> QED BY <2>1, <2>2 DEF Recalls
<1>5. ASSUME NEW asked \in BOOLEAN, past' = Death(p, asked)
      PROVE  Recalls(past.half \cup ({proc[p].at} \cap {"stamp", "write_key"}),
                     past.fell \/ ~asked, past.raced, past.disturbed)
  <2> DEFINE h == past.half \cup ({proc[p].at} \cap {"stamp", "write_key"})
             b == past.fell \/ ~asked
  <2>1. h \in SUBSET {"stamp", "write_key"} /\ b \in BOOLEAN
    BY <1>2
  <2>2. past' = [past EXCEPT !.half = h, !.fell = b]
    BY <1>5 DEF Death
  <2> HIDE DEF h, b
  <2>3. Recalls(h, b, past.raced, past.disturbed)
    BY <1>4, <2>1, <2>2
  <2> QED BY <2>3 DEF h, b
<1>6. ASSUME NEW b \in BOOLEAN, past' = [past EXCEPT !.fell = b]
      PROVE  Recalls(past.half, b, past.raced, past.disturbed)
  <2>1. past' \in PastType
    BY <1>1, <1>6 DEF PastType
  <2>2. past'.half = past.half /\ past'.fell = b /\ past'.raced = past.raced
        /\ past'.disturbed = past.disturbed
    BY <1>1, <1>6 DEF PastType
  <2> QED BY <2>1, <2>2 DEF Recalls
<1>7. ASSUME NEW b \in BOOLEAN, past' = [past EXCEPT !.raced = b]
      PROVE  Recalls(past.half, past.fell, b, past.disturbed)
  <2>1. past' \in PastType
    BY <1>1, <1>7 DEF PastType
  <2>2. past'.half = past.half /\ past'.fell = past.fell /\ past'.raced = b
        /\ past'.disturbed = past.disturbed
    BY <1>1, <1>7 DEF PastType
  <2> QED BY <2>1, <2>2 DEF Recalls
<1>8. ASSUME NEW b \in BOOLEAN, past' = [past EXCEPT !.disturbed = b]
      PROVE  Recalls(past.half, past.fell, past.raced, b)
  <2>1. past' \in PastType
    BY <1>1, <1>8 DEF PastType
  <2>2. past'.half = past.half /\ past'.fell = past.fell /\ past'.raced = past.raced
        /\ past'.disturbed = b
    BY <1>1, <1>8 DEF PastType
  <2> QED BY <2>1, <2>2 DEF Recalls
<1> QED BY <1>3, <1>5, <1>6, <1>7, <1>8

-----------------------------------------------------------------------------
(* Types, and the counts that keep them. *)

\* The sets that are counted are finite.
LEMMA Counts ==
  ASSUME TypeOK
  PROVE  /\ starts \in Nat /\ MaxStarts \in Nat
         /\ IsFiniteSet(Identities) /\ Cardinality(Identities) = MaxStarts
         /\ IsFiniteSet(Used) /\ IsFiniteSet(Undecided) /\ IsFiniteSet(Starters)
         /\ Cardinality(Used) \in Nat /\ Cardinality(Undecided) \in Nat
         /\ Cardinality(Starters) \in Nat
<1>1. MaxStarts \in Nat /\ starts \in Nat
  BY BootstrapAssumption DEF BootstrapAssumption, TypeOK
<1>2. IsFiniteSet(Identities) /\ Cardinality(Identities) = MaxStarts
  <2>1. 1 \in Int /\ MaxStarts \in Int
        /\ (IF 1 > MaxStarts THEN 0 ELSE MaxStarts - 1 + 1) = MaxStarts
    BY <1>1
  <2> QED BY <2>1, FS_Interval DEF Identities
<1>3. Used \subseteq Identities /\ Undecided \subseteq Pids /\ Starters \subseteq Cmds
  BY DEF Used, Undecided, Starters
<1>4. IsFiniteSet(Used) /\ IsFiniteSet(Undecided) /\ IsFiniteSet(Starters)
  BY <1>2, <1>3, BootstrapAssumption, FS_Subset DEF BootstrapAssumption
<1> QED BY <1>1, <1>2, <1>4, FS_CardinalityType

\* Starts that go on or end need no more places.
LEMMA StartsKept ==
  ASSUME TypeOK, StartsBooked, starts' = starts, Starters' \subseteq Starters
  PROVE  StartsBooked'
<1> DEFINE later == Starters'
<1>1. IsFiniteSet(Starters) /\ Cardinality(Starters) \in Nat /\ starts \in Nat
      /\ MaxStarts \in Nat
  BY Counts
<1>2. Cardinality(later) \in Nat /\ Cardinality(later) <= Cardinality(Starters)
  BY <1>1, FS_Subset, FS_CardinalityType
<1> QED BY <1>1, <1>2 DEF StartsBooked

\* Steps that make no identity and start no daemon need none more.
LEMMA IdentitiesKept ==
  ASSUME TypeOK, IdentitiesBooked, starts' = starts,
         Used' \subseteq Used, Undecided' \subseteq Undecided
  PROVE  IdentitiesBooked'
<1> DEFINE used == Used'
           undecided == Undecided'
<1>1. /\ IsFiniteSet(Used) /\ IsFiniteSet(Undecided) /\ starts \in Nat
      /\ Cardinality(Used) \in Nat /\ Cardinality(Undecided) \in Nat
  BY Counts
<1>2. Cardinality(used) \in Nat /\ Cardinality(used) <= Cardinality(Used)
  BY <1>1, FS_Subset, FS_CardinalityType
<1>3. Cardinality(undecided) \in Nat /\ Cardinality(undecided) <= Cardinality(Undecided)
  BY <1>1, FS_Subset, FS_CardinalityType
<1> QED BY <1>1, <1>2, <1>3 DEF IdentitiesBooked

\* There is an identity for a daemon that has to make one.
LEMMA OneIsLeft ==
  ASSUME TypeOK, IdentitiesBooked, NEW p \in Undecided
  PROVE  Generated \in Identities \ Used
<1>1. /\ IsFiniteSet(Identities) /\ Cardinality(Identities) = MaxStarts
      /\ IsFiniteSet(Used) /\ IsFiniteSet(Undecided) /\ starts \in Nat /\ MaxStarts \in Nat
      /\ Cardinality(Used) \in Nat /\ Cardinality(Undecided) \in Nat
  BY Counts
<1>2. Cardinality(Undecided) # 0
  BY <1>1, FS_EmptySet
<1>3. Cardinality(Used) < MaxStarts
  <2>1. starts <= MaxStarts
    BY <1>1 DEF TypeOK
  <2> QED BY <1>1, <1>2, <2>1 DEF IdentitiesBooked
<1>4. PICK i \in Identities : i \notin Used
  <2>1. ~(Identities \subseteq Used)
    BY <1>1, <1>3, FS_Subset
  <2> QED BY <2>1
<1> DEFINE Free(j) == /\ j \notin {files.id, files.key} /\ rows[j] = None
                      /\ \A q \in Pids : j # proc[q].id /\ j # proc[q].key
<1>5. Free(i)
  BY <1>4 DEF Used
<1>6. Generated = CHOOSE j \in Identities : Free(j)
  BY DEF Generated
<1>7. Generated \in Identities /\ Free(Generated)
  <2> HIDE DEF Free
  <2> QED BY <1>4, <1>5, <1>6
<1> QED BY <1>7 DEF Used

Typed == TypeOK /\ CommandShapes /\ StartsBooked /\ IdentitiesBooked /\ MakersHaveKeys

Early == {"check_schema", "create_tables", "stamp", "find_files"}

\* A process that takes its identity from itself or the files, and writes no
\* other, keeps the types and the counts.
LEMMA TurnsTyped ==
  ASSUME Typed, NEW p \in Pids, NEW at, NEW id, NEW key, NEW told, NEW alone,
         Turns(p, at), Bears(p, id, key, told, alone),
         cmd' \in [Cmds -> Command], starts' = starts, pidfile' = pidfile,
         schema' \in {"none", "partial", "head"}, past' \in PastType,
         files' \in [id : Identities \cup {None, Torn}, key : Identities \cup {None, Torn}],
         rows' \in [Identities \cup {Torn} -> Identities \cup {None}],
         id \in {proc[p].id, files.id, None}, key \in {proc[p].key, files.key, None},
         files'.id \in {files.id, proc[p].id, Torn},
         files'.key \in {files.key, proc[p].key, Torn},
         \A i \in Identities : rows'[i] # None => rows[i] # None \/ i = proc[p].id,
         at \in Early => proc[p].at \in Early,
         at \in Making => id \in Identities /\ key \in Identities
  PROVE  TypeOK' /\ IdentitiesBooked' /\ MakersHaveKeys'
<1>1. TypeOK /\ None \notin Identities /\ Torn \notin Identities
  BY BootstrapAssumption DEF Typed, BootstrapAssumption, Identities
<1>2. TypeOK'
  BY <1>1 DEF Typed, TypeOK, Turns, PastType
<1>3. /\ proc'[p].at = at /\ proc'[p].id = id /\ proc'[p].key = key
      /\ \A q \in Pids : q # p => proc'[q] = proc[q]
  BY DEF Turns, Bears
<1>4. ASSUME NEW i \in Identities, i \in Used'
      PROVE  i \in Used
  <2>1. CASE i \in {files'.id, files'.key}
    BY <1>1, <2>1 DEF Used
  <2>2. CASE rows'[i] # None
    BY <2>2 DEF Used
  <2>3. ASSUME NEW q \in Pids, i = proc'[q].id \/ i = proc'[q].key
        PROVE  i \in Used
    <3>1. CASE q = p
      BY <1>1, <1>3, <2>3, <3>1 DEF Used
    <3>2. CASE q # p
      BY <1>3, <2>3, <3>2 DEF Used
    <3> QED BY <3>1, <3>2
  <2> QED BY <1>4, <2>1, <2>2, <2>3 DEF Used
<1>5. Used' \subseteq Used
  BY <1>4 DEF Used
<1>6. Undecided' \subseteq Undecided
  BY <1>3 DEF Undecided, Early
<1>7. IdentitiesBooked'
  BY <1>1, <1>5, <1>6, IdentitiesKept DEF Typed
<1>8. MakersHaveKeys'
  BY <1>3 DEF Typed, MakersHaveKeys
<1> QED BY <1>2, <1>7, <1>8

\* What the daemon's own steps do not touch.
LEMMA CommandsAside ==
  ASSUME Typed, cmd' = cmd, starts' = starts
  PROVE  cmd' \in [Cmds -> Command] /\ CommandShapes' /\ StartsBooked'
BY DEF Typed, TypeOK, CommandShapes, StartsBooked, Starters

\* The migration keeps the types.
LEMMA MigrationTyped ==
  ASSUME Typed, NEW p \in Pids, CheckSchema(p) \/ CreateTables(p) \/ Stamp(p)
  PROVE  Typed'
<1> USE DEF Early, Making, Unhandled
<1>1. TypeOK /\ past \in PastType
  BY DEF Typed, TypeOK, PastType
<1>2. UNCHANGED <<pidfile, files, rows, cmd, starts>>
  BY DEF CheckSchema, CreateTables, Stamp, disk
<1>3. schema' \in {"none", "partial", "head"}
  BY <1>1 DEF CheckSchema, CreateTables, Stamp, TypeOK, disk
<1>4. past' \in PastType
  <2>1. past' = past \/ past' = [past EXCEPT !.fell = TRUE]
    BY DEF CheckSchema, CreateTables, Stamp
  <2> QED BY <1>1, <2>1, PastKept DEF Recalls
<1>5. proc[p].at \in Early
  BY DEF CheckSchema, CreateTables, Stamp, In
<1>6. \/ \E at \in Unhandled \ Making : Proceed(p, at)
      \/ Fail(p)
  BY DEF CheckSchema, CreateTables, Stamp
<1>7. /\ files \in [id : Identities \cup {None, Torn}, key : Identities \cup {None, Torn}]
      /\ rows \in [Identities \cup {Torn} -> Identities \cup {None}]
      /\ cmd' \in [Cmds -> Command] /\ CommandShapes' /\ StartsBooked'
  BY <1>1, <1>2, CommandsAside DEF TypeOK
<1>8. TypeOK' /\ IdentitiesBooked' /\ MakersHaveKeys'
  <2>1. ASSUME NEW at \in Unhandled \ Making, Proceed(p, at)
        PROVE  TypeOK' /\ IdentitiesBooked' /\ MakersHaveKeys'
    <3>1. Turns(p, at) /\ Bears(p, proc[p].id, proc[p].key, proc[p].told, proc[p].alone)
      BY <1>1, <2>1, Proceeds
    <3> QED BY <1>2, <1>3, <1>4, <1>5, <1>7, <3>1, TurnsTyped
  <2>2. CASE Fail(p)
    <3>1. Turns(p, "failed") /\ Bears(p, None, None, FALSE, proc[p].alone)
      BY <1>1, <2>2, FailsHow
    <3> QED BY <1>2, <1>3, <1>4, <1>5, <1>7, <3>1, TurnsTyped
  <2> QED BY <1>6, <2>1, <2>2
<1> QED BY <1>7, <1>8 DEF Typed

\* A daemon that makes an identity takes one that nothing else is.
LEMMA MakesTyped ==
  ASSUME Typed, NEW p \in Pids, Decide(p, FALSE)
  PROVE  Typed'
<1>1. /\ proc[p].at = "find_files" /\ UNCHANGED <<disk, cmd, starts>>
      /\ proc' = [proc EXCEPT ![p].id = Generated, ![p].key = Generated,
                             ![p].at = "truncate_id"]
      /\ past' = [past EXCEPT !.raced = @ \/ \E q \in Pids : proc[q].at \in Making]
  BY DEF Decide, In
<1>2. TypeOK /\ IdentitiesBooked /\ p \in Undecided
  BY <1>1 DEF Typed, Undecided
<1>3. Generated \in Identities \ Used
  BY <1>2, OneIsLeft
<1> DEFINE made == Generated
<1>4. made \in Identities
  BY <1>3
<1> HIDE DEF made
<1>5. /\ proc'[p].at = "truncate_id" /\ proc'[p].id = made /\ proc'[p].key = made
      /\ \A q \in Pids : q # p => proc'[q] = proc[q]
      /\ proc' \in [Pids -> Process]
  <2>1. Turns(p, "truncate_id") /\ Bears(p, made, made, proc[p].told, proc[p].alone)
    BY <1>1, <1>2, <1>4, Takes DEF made, Unhandled, Making
  <2> QED BY <2>1 DEF Turns, Bears
<1>6. past' \in PastType
  <2> DEFINE b == past.raced \/ \E q \in Pids : proc[q].at \in Making
  <2>1. b \in BOOLEAN /\ past' = [past EXCEPT !.raced = b]
    BY <1>1
  <2> QED BY <1>2, <2>1, PastKept DEF Recalls
<1>7. TypeOK'
  BY <1>1, <1>2, <1>5, <1>6 DEF TypeOK, disk, PastType
<1>8. cmd' = cmd /\ starts' = starts /\ files' = files /\ rows' = rows
  BY <1>1 DEF disk
<1>9. CommandShapes' /\ StartsBooked'
  BY <1>8, CommandsAside
<1>10. MakersHaveKeys'
  BY <1>4, <1>5 DEF Typed, MakersHaveKeys
<1>11. IdentitiesBooked'
  <2> DEFINE used == Used'
             undecided == Undecided'
  <2>1. used \subseteq Used \cup {made}
    <3>1. ASSUME NEW i \in Identities, i \in used, i # made
          PROVE  i \in Used
      <4>1. CASE i \in {files.id, files.key} \/ rows[i] # None
        BY <4>1 DEF Used
      <4>2. ASSUME NEW q \in Pids, i = proc'[q].id \/ i = proc'[q].key
            PROVE  i \in Used
        <5>1. q # p
          BY <1>5, <3>1, <4>2
        <5> QED BY <1>5, <4>2, <5>1 DEF Used
      <4> QED BY <1>8, <3>1, <4>1, <4>2 DEF Used
    <3> QED BY <3>1 DEF Used
  <2>2. undecided \subseteq Undecided \ {p}
    BY <1>5 DEF Undecided
  <2>3. /\ IsFiniteSet(Used) /\ IsFiniteSet(Undecided) /\ starts \in Nat
        /\ Cardinality(Used) \in Nat /\ Cardinality(Undecided) \in Nat
    BY <1>2, Counts
  <2>4. /\ IsFiniteSet(Used \cup {made}) /\ Cardinality(Used \cup {made}) = Cardinality(Used) + 1
        /\ IsFiniteSet(Undecided \ {p})
        /\ Cardinality(Undecided \ {p}) = Cardinality(Undecided) - 1
    BY <1>2, <1>3, <2>3, FS_AddElement, FS_RemoveElement DEF made
  <2>5. /\ Cardinality(used) \in Nat /\ Cardinality(used) <= Cardinality(Used) + 1
    BY <2>1, <2>4, FS_Subset, FS_CardinalityType
  <2>6. /\ Cardinality(undecided) \in Nat
        /\ Cardinality(undecided) <= Cardinality(Undecided) - 1
    BY <2>2, <2>4, FS_Subset, FS_CardinalityType
  <2>7. Cardinality(Used) + Cardinality(Undecided) <= starts
    BY <1>2 DEF IdentitiesBooked
  <2> HIDE DEF used, undecided
  <2>8. Cardinality(used) + Cardinality(undecided) <= starts
    BY <2>3, <2>5, <2>6, <2>7
  <2> QED BY <1>8, <2>8 DEF IdentitiesBooked, used, undecided
<1> QED BY <1>7, <1>9, <1>10, <1>11 DEF Typed

\* The identity files keep the types.
LEMMA FilesTyped ==
  ASSUME Typed, NEW p \in Pids,
         FindFiles(p) \/ LoadId(p) \/ LoadKey(p)
            \/ TruncateId(p) \/ WriteId(p) \/ TruncateKey(p) \/ WriteKey(p)
  PROVE  Typed'
<1>1. TypeOK /\ past \in PastType /\ None \notin Identities /\ Torn \notin Identities
  BY BootstrapAssumption DEF Typed, TypeOK, PastType, BootstrapAssumption, Identities
<1>2. /\ files \in [id : Identities \cup {None, Torn}, key : Identities \cup {None, Torn}]
      /\ rows \in [Identities \cup {Torn} -> Identities \cup {None}]
      /\ schema \in {"none", "partial", "head"}
      /\ files.id \in Identities \cup {None, Torn} /\ files.key \in Identities \cup {None, Torn}
  BY <1>1 DEF TypeOK
<1>3. CASE Decide(p, FALSE)
  BY <1>3, MakesTyped
<1>4. ASSUME UNCHANGED <<disk, cmd, starts>>, past' \in PastType,
             NEW at, NEW id \in {proc[p].id, files.id, None},
             NEW key \in {proc[p].key, files.key, None}, NEW told, NEW alone,
             Turns(p, at), Bears(p, id, key, told, alone), at \notin Early \cup Making
      PROVE  Typed'
  <2>1. cmd' = cmd /\ starts' = starts /\ UNCHANGED <<pidfile, files, schema, rows>>
    BY <1>4 DEF disk
  <2>2. cmd' \in [Cmds -> Command] /\ CommandShapes' /\ StartsBooked'
    BY <2>1, CommandsAside
  <2> QED BY <1>2, <1>4, <2>1, <2>2, TurnsTyped DEF Typed
<1>5. CASE In(p, "find_files") /\ Proceed(p, "load_id") /\ UNCHANGED <<past, disk, cmd, starts>>
  <2>1. Turns(p, "load_id") /\ Bears(p, proc[p].id, proc[p].key, proc[p].told, proc[p].alone)
    BY <1>1, <1>5, Proceeds DEF Unhandled
  <2> QED BY <1>1, <1>4, <1>5, <2>1 DEF Early, Making
<1>6. CASE LoadId(p)
  <2>1. /\ proc' = [proc EXCEPT ![p].id = files.id, ![p].at = "load_key"]
        /\ UNCHANGED <<disk, cmd, starts, past>>
    BY <1>6 DEF LoadId
  <2>2. Turns(p, "load_key") /\ Bears(p, files.id, proc[p].key, proc[p].told, proc[p].alone)
    BY <1>1, <1>2, <2>1, ProcessTyped, Takes DEF Unhandled
  <2> QED BY <1>1, <1>4, <2>1, <2>2 DEF Early, Making
<1>7. CASE LoadKey(p)
  <2>1. CASE Fail(p)
    <3>1. Turns(p, "failed") /\ Bears(p, None, None, FALSE, proc[p].alone)
      BY <1>1, <2>1, FailsHow
    <3>2. UNCHANGED <<disk, cmd, starts>>
      BY <1>7 DEF LoadKey
    <3>3. past' \in PastType
      <4>1. past' = past \/ past' = [past EXCEPT !.fell = TRUE]
        BY <1>7 DEF LoadKey
      <4> QED BY <1>1, <4>1, PastKept DEF Recalls
    <3> QED BY <1>4, <3>1, <3>2, <3>3 DEF Early, Making
  <2>2. CASE ~Fail(p)
    <3>1. /\ proc' = [proc EXCEPT ![p].key = files.key, ![p].at = "find_row"]
          /\ files.key \in Identities /\ UNCHANGED <<disk, cmd, starts, past>>
      BY <1>7, <2>2 DEF LoadKey
    <3>2. Turns(p, "find_row") /\ Bears(p, proc[p].id, files.key, proc[p].told, proc[p].alone)
      BY <1>1, <3>1, ProcessTyped, Takes DEF Unhandled
    <3> QED BY <1>1, <1>4, <3>1, <3>2 DEF Early, Making
  <2> QED BY <2>1, <2>2
<1>8. ASSUME NEW at \in Making, NEW field \in {"id", "key"}, NEW value,
             NEW to \in Making \cup {"find_row"}, Save(p, at, field, value, to),
             value \in {IF field = "id" THEN proc[p].id ELSE proc[p].key, Torn}
      PROVE  Typed'
  <2>1. /\ proc[p].at \in Making /\ files' = [files EXCEPT ![field] = value]
        /\ Proceed(p, to) /\ UNCHANGED <<pidfile, schema, rows, cmd, starts, past>>
    BY <1>8 DEF Save, In
  <2>2. Turns(p, to) /\ Bears(p, proc[p].id, proc[p].key, proc[p].told, proc[p].alone)
    BY <1>1, <1>8, <2>1, Proceeds DEF Unhandled
  <2>3. proc[p].id \in Identities /\ proc[p].key \in Identities
    BY <2>1 DEF Typed, MakersHaveKeys
  <2>4. /\ files' \in [id : Identities \cup {None, Torn}, key : Identities \cup {None, Torn}]
        /\ files'.id \in {files.id, proc[p].id, Torn}
        /\ files'.key \in {files.key, proc[p].key, Torn}
    <3>1. CASE field = "id"
      BY <1>2, <1>8, <2>1, <2>3, <3>1
    <3>2. CASE field = "key"
      BY <1>2, <1>8, <2>1, <2>3, <3>2
    <3> QED BY <1>8, <3>1, <3>2
  <2>5. cmd' \in [Cmds -> Command] /\ CommandShapes' /\ StartsBooked'
    BY <2>1, CommandsAside
  <2>6. to \notin Early
    BY <1>8 DEF Making, Early
  <2> QED BY <1>1, <1>2, <2>1, <2>2, <2>3, <2>4, <2>5, <2>6, TurnsTyped DEF Typed
<1>9. CASE TruncateId(p) \/ WriteId(p) \/ TruncateKey(p) \/ WriteKey(p)
  <2>1. CASE TruncateId(p)
    BY <1>8, <2>1 DEF TruncateId, Making
  <2>2. CASE WriteId(p)
    BY <1>8, <2>2 DEF WriteId, Making
  <2>3. CASE TruncateKey(p)
    BY <1>8, <2>3 DEF TruncateKey, Making
  <2>4. CASE WriteKey(p)
    BY <1>8, <2>4 DEF WriteKey, Making
  <2> QED BY <1>9, <2>1, <2>2, <2>3, <2>4
<1> QED BY <1>3, <1>5, <1>6, <1>7, <1>9 DEF FindFiles, Decide

\* A process that turns from its step, and the tables with it.
LEMMA ServesTyped ==
  ASSUME Typed, NEW p \in Pids,
         FindRow(p) \/ InsertRow(p) \/ Bind(p) \/ Drain(p) \/ Exit(p)
            \/ Die(p) \/ OtherStarts(p) \/ OtherEnds(p)
  PROVE  Typed'
<1>1. TypeOK /\ past \in PastType /\ None \notin Identities
  BY BootstrapAssumption DEF Typed, TypeOK, PastType, BootstrapAssumption, Identities
<1>2. /\ files \in [id : Identities \cup {None, Torn}, key : Identities \cup {None, Torn}]
      /\ rows \in [Identities \cup {Torn} -> Identities \cup {None}]
      /\ schema \in {"none", "partial", "head"}
  BY <1>1 DEF TypeOK
<1>3. ASSUME UNCHANGED <<pidfile, files, schema, cmd, starts>>, past' \in PastType,
             rows' \in [Identities \cup {Torn} -> Identities \cup {None}],
             \A i \in Identities : rows'[i] # None => rows[i] # None \/ i = proc[p].id,
             NEW at, NEW id \in {proc[p].id, None}, NEW key \in {proc[p].key, None},
             NEW told, NEW alone, at \notin Early \cup Making,
             Turns(p, at), Bears(p, id, key, told, alone)
      PROVE  Typed'
  <2>1. cmd' \in [Cmds -> Command] /\ CommandShapes' /\ StartsBooked'
    BY <1>3, CommandsAside
  <2> QED BY <1>2, <1>3, <2>1, TurnsTyped DEF Typed
<1> USE DEF Early, Making
<1>4. ASSUME NEW at \in {"insert_row", "bind", "serving", "draining"}, Proceed(p, at),
             rows' = rows, past' = past, UNCHANGED <<pidfile, files, schema, cmd, starts>>
      PROVE  Typed'
  <2>1. Turns(p, at) /\ Bears(p, proc[p].id, proc[p].key, proc[p].told, proc[p].alone)
    BY <1>1, <1>4, Proceeds DEF Unhandled, Handled
  <2> QED BY <1>1, <1>2, <1>3, <1>4, <2>1
<1>5. CASE FindRow(p) \/ Drain(p)
  BY <1>4, <1>5 DEF FindRow, Drain, disk
<1>6. ASSUME Fail(p), rows' = rows, NEW b \in BOOLEAN,
             past' = [past EXCEPT !.fell = b], UNCHANGED <<pidfile, files, schema, cmd, starts>>
      PROVE  Typed'
  <2>1. Turns(p, "failed") /\ Bears(p, None, None, FALSE, proc[p].alone)
    BY <1>1, <1>6, FailsHow
  <2>2. past' \in PastType
    BY <1>1, <1>6, PastKept DEF Recalls
  <2> QED BY <1>1, <1>2, <1>3, <1>6, <2>1, <2>2
<1>7. CASE InsertRow(p)
  <2>1. CASE rows[proc[p].id] # None
    BY <1>6, <1>7, <2>1 DEF InsertRow
  <2>2. CASE rows[proc[p].id] = None
    <3>1. /\ rows' = [rows EXCEPT ![proc[p].id] = proc[p].key] /\ Proceed(p, "bind")
          /\ past' = past /\ UNCHANGED <<pidfile, files, schema, cmd, starts>>
      BY <1>7, <2>2 DEF InsertRow
    <3>2. Turns(p, "bind") /\ Bears(p, proc[p].id, proc[p].key, proc[p].told, proc[p].alone)
      BY <1>1, <3>1, Proceeds DEF Handled
    <3>3. rows' \in [Identities \cup {Torn} -> Identities \cup {None}]
      BY <1>1, <1>2, <3>1, ProcessTyped
    <3>4. \A i \in Identities : rows'[i] # None => rows[i] # None \/ i = proc[p].id
      BY <1>2, <3>1
    <3> QED BY <1>1, <1>3, <3>1, <3>2, <3>3, <3>4
  <2> QED BY <2>1, <2>2
<1>8. CASE Bind(p)
  <2>1. CASE \E q \in Pids : In(q, "serving")
    <3> DEFINE b == past.fell \/ ~proc[p].told
    <3>1. b \in BOOLEAN /\ Fail(p) /\ past' = [past EXCEPT !.fell = b]
          /\ UNCHANGED <<disk, cmd, starts>>
      BY <1>8, <2>1 DEF Bind
    <3> HIDE DEF b
    <3> QED BY <1>6, <3>1 DEF disk
  <2>2. CASE ~\E q \in Pids : In(q, "serving")
    <3>1. /\ proc' = [proc EXCEPT ![p].at = "serving", ![p].alone = FALSE]
          /\ past' = past /\ UNCHANGED <<disk, cmd, starts>>
      BY <1>8, <2>2 DEF Bind
    <3>2. Turns(p, "serving") /\ Bears(p, proc[p].id, proc[p].key, proc[p].told, FALSE)
      BY <1>1, <3>1, ProcessTyped, Takes DEF Handled
    <3> QED BY <1>1, <1>2, <1>3, <3>1, <3>2 DEF disk
  <2> QED BY <2>1, <2>2
<1>9. ASSUME NEW at \in {"free", "other"}, proc' = [proc EXCEPT ![p] = Vacant(at)],
             past' \in PastType, UNCHANGED <<disk, cmd, starts>>
      PROVE  Typed'
  <2>1. Turns(p, at) /\ Bears(p, None, None, FALSE, FALSE)
    BY <1>1, <1>9, Vacated DEF Gone
  <2>2. UNCHANGED <<pidfile, files, schema, rows>>
    BY <1>9 DEF disk
  <2> QED BY <1>1, <1>2, <1>3, <1>9, <2>1, <2>2
<1>10. CASE Exit(p) \/ OtherStarts(p) \/ OtherEnds(p)
  BY <1>1, <1>9, <1>10 DEF Exit, EndOf, OtherStarts, OtherEnds
<1>11. CASE Die(p)
  <2>1. proc' = [proc EXCEPT ![p] = Vacant("free")] /\ past' = Death(p, proc[p].told)
        /\ UNCHANGED <<disk, cmd, starts>>
    BY <1>11 DEF Die, EndOf
  <2>2. past' \in PastType
    BY <1>1, <2>1, PastKept, ProcessTyped DEF Recalls
  <2> QED BY <1>9, <2>1, <2>2
<1> QED BY <1>5, <1>7, <1>8, <1>10, <1>11

\* A command that does not change the processes keeps the types and the counts.
LEMMA CommandTyped ==
  ASSUME Typed, UNCHANGED <<files, schema, rows, proc, starts>>,
         cmd' \in [Cmds -> Command], CommandShapes', StartsBooked',
         pidfile' \in Pids \cup {None, Torn}, past' \in PastType
  PROVE  Typed'
<1>1. TypeOK'
  BY DEF Typed, TypeOK, PastType
<1>2. Used' = Used /\ Undecided' = Undecided
  BY DEF Used, Undecided
<1>3. IdentitiesBooked' /\ MakersHaveKeys'
  BY <1>2 DEF Typed, IdentitiesBooked, MakersHaveKeys
<1> QED BY <1>1, <1>3 DEF Typed

\* A command that goes on knows what it must, and a start takes no new place.
LEMMA CommandGoes ==
  ASSUME Typed, NEW c \in Cmds, Others(c), starts' = starts,
         cmd'[c].op = "start" /\ cmd'[c].at \in {"look", "probe", "forget", "spawn"} =>
            cmd[c].op = "start" /\ cmd[c].at \in {"look", "probe", "forget", "spawn"},
         cmd'[c].at \in {"probe", "truncate", "write", "kill"} => cmd'[c].pid \in Pids,
         cmd'[c].at \in {"spawn", "truncate", "write"} => cmd'[c].op = "start",
         cmd'[c].at = "kill" => cmd'[c].op # "start"
  PROVE  CommandShapes' /\ StartsBooked'
<1>1. CommandShapes'
  BY DEF Typed, CommandShapes, Others
<1>2. Starters' \subseteq Starters
  BY DEF Others, Starters
<1> QED BY <1>1, <1>2, StartsKept DEF Typed

\* A command that begins keeps the types: a start has found a place.
LEMMA BeginTyped ==
  ASSUME Typed, NEW c \in Cmds, NEW op \in {"start", "stop", "status"}, Begin(c, op)
  PROVE  Typed' /\ cmd'[c].at = "look" /\ cmd'[c].op = op /\ Others(c)
<1>1. TypeOK /\ cmd \in [Cmds -> Command]
  BY DEF Typed, TypeOK
<1> DEFINE new == [IdleCommand EXCEPT !.op = op, !.at = "look"]
<1>2. new \in Command /\ new.at = "look" /\ new.op = op
  BY DEF IdleCommand, Command
<1> HIDE DEF new
<1>3. /\ cmd' = [cmd EXCEPT ![c] = new] /\ UNCHANGED <<disk, proc, starts>>
      /\ past' = [past EXCEPT !.disturbed = @ \/ \E b \in Cmds : ~Runs(b, "idle")]
      /\ op = "start" =>
            starts + Cardinality({b \in Cmds : cmd[b].op = "start"}) < MaxStarts
  BY DEF Begin, new
<1>4. cmd' \in [Cmds -> Command] /\ cmd'[c] = new /\ Others(c)
  BY <1>1, <1>2, <1>3 DEF Others
<1>5. CommandShapes'
  BY <1>2, <1>4 DEF Typed, CommandShapes, Others
<1>6. StartsBooked'
  <2>1. CASE op # "start"
    <3>1. Starters' \subseteq Starters
      BY <1>2, <1>4, <2>1 DEF Starters, Others
    <3> QED BY <1>1, <1>3, <3>1, StartsKept DEF Typed
  <2>2. CASE op = "start"
    <3> DEFINE named == {b \in Cmds : cmd[b].op = "start"}
               later == Starters'
    <3>1. later \subseteq named \cup {c}
      BY <1>4 DEF Starters, Others
    <3>2. IsFiniteSet(named) /\ Cardinality(named) \in Nat
      BY BootstrapAssumption, FS_Subset, FS_CardinalityType DEF BootstrapAssumption
    <3> HIDE DEF named
    <3>3. /\ IsFiniteSet(named \cup {c}) /\ Cardinality(named \cup {c}) \in Nat
          /\ Cardinality(named \cup {c}) <= Cardinality(named) + 1
      BY <3>2, FS_AddElement, FS_CardinalityType
    <3>4. Cardinality(later) \in Nat /\ Cardinality(later) <= Cardinality(named \cup {c})
      BY <3>1, <3>3, FS_Subset, FS_CardinalityType
    <3>5. starts + Cardinality(named) < MaxStarts /\ starts' = starts
      BY <1>3, <2>2 DEF named
    <3>6. starts \in Nat /\ MaxStarts \in Nat
      BY <1>1, Counts
    <3> HIDE DEF later
    <3>7. starts + Cardinality(later) <= MaxStarts
      BY <3>2, <3>3, <3>4, <3>5, <3>6
    <3> QED BY <3>5, <3>7 DEF StartsBooked, later
  <2> QED BY <2>1, <2>2
<1>7. past' \in PastType
  <2> DEFINE b == past.disturbed \/ \E d \in Cmds : ~Runs(d, "idle")
  <2>1. b \in BOOLEAN /\ past' = [past EXCEPT !.disturbed = b]
    BY <1>3
  <2> HIDE DEF b
  <2>2. past \in PastType
    BY <1>1 DEF TypeOK, PastType
  <2> QED BY <2>1, <2>2 DEF PastType
<1>8. UNCHANGED <<pidfile, files, schema, rows>> /\ pidfile \in Pids \cup {None, Torn}
  BY <1>1, <1>3 DEF disk, TypeOK
<1> QED BY <1>2, <1>3, <1>4, <1>5, <1>6, <1>7, <1>8, CommandTyped

\* The steps of a command on the PID file keep the types.
LEMMA ShellTyped ==
  ASSUME Typed, NEW c \in Cmds,
         Look(c) \/ Probe(c) \/ TruncatePid(c) \/ WritePid(c) \/ Interrupt(c)
  PROVE  Typed' /\ cmd' \in [Cmds -> Command] /\ Others(c)
<1>1. /\ TypeOK /\ past \in PastType /\ cmd \in [Cmds -> Command] /\ cmd[c] \in Command
      /\ pidfile \in Pids \cup {None, Torn} /\ CommandShapes
  BY DEF Typed, TypeOK, PastType
<1>2. UNCHANGED <<files, schema, rows, proc, starts>>
  BY DEF Look, Probe, TruncatePid, WritePid, Interrupt, disk
<1>3. past' \in PastType
  <2>1. past' = past \/ past' = [past EXCEPT !.disturbed = TRUE]
    BY DEF Look, Probe, TruncatePid, WritePid, Interrupt
  <2> QED BY <1>1, <2>1 DEF PastType
<1>4. ASSUME pidfile' \in Pids \cup {None, Torn}, NEW at \in {"forget", "spawn", "write"},
             Goto(c, at), at \in {"spawn", "write"} => cmd[c].op = "start",
             at = "write" => cmd[c].pid \in Pids,
             at # "write" => cmd[c].at \in {"look", "probe", "forget", "spawn"}
      PROVE  Typed' /\ cmd' \in [Cmds -> Command] /\ Others(c)
  <2>1. cmd' \in [Cmds -> Command] /\ GoesOn(c, at) /\ Others(c)
    BY <1>1, <1>4, CommandMoves
  <2>2. CommandShapes' /\ StartsBooked'
    BY <1>2, <1>4, <2>1, CommandGoes DEF GoesOn
  <2> QED BY <1>2, <1>3, <1>4, <2>1, <2>2, CommandTyped
<1>5. ASSUME pidfile' \in Pids \cup {None, Torn}, Finish(c)
      PROVE  Typed' /\ cmd' \in [Cmds -> Command] /\ Others(c)
  <2>1. cmd' \in [Cmds -> Command] /\ Idles(c) /\ Others(c)
    BY <1>1, <1>5, CommandMoves
  <2>2. CommandShapes' /\ StartsBooked'
    BY <1>2, <1>5, <2>1, CommandGoes DEF Idles
  <2> QED BY <1>2, <1>3, <1>5, <2>1, <2>2, CommandTyped
<1>6. CASE Look(c)
  <2>1. pidfile' = pidfile /\ cmd[c].at = "look"
    BY <1>6 DEF Look, Runs, disk
  <2>2. ASSUME pidfile \in Pids,
               cmd' = [cmd EXCEPT ![c].pid = pidfile,
                        ![c].at = IF cmd[c].op = "stop" THEN "kill" ELSE "probe"]
        PROVE  Typed' /\ cmd' \in [Cmds -> Command] /\ Others(c)
    <3> DEFINE to == IF cmd[c].op = "stop" THEN "kill" ELSE "probe"
               new == [cmd[c] EXCEPT !.pid = pidfile, !.at = to]
    <3>1. /\ to \in {"kill", "probe"} /\ (to = "kill" => cmd[c].op # "start")
          /\ cmd' = [cmd EXCEPT ![c] = new]
      BY <1>1, <2>2 DEF Command
    <3> HIDE DEF to
    <3>2. new \in Command /\ new.at = to /\ new.pid = pidfile /\ new.op = cmd[c].op
      BY <1>1, <2>2, <3>1 DEF Command
    <3> HIDE DEF new
    <3>3. cmd' \in [Cmds -> Command] /\ cmd'[c] = new /\ Others(c)
      BY <1>1, <3>1, <3>2 DEF Others
    <3>4. CommandShapes' /\ StartsBooked'
      BY <1>2, <2>1, <2>2, <3>1, <3>2, <3>3, CommandGoes
    <3> QED BY <1>1, <1>2, <1>3, <2>1, <3>3, <3>4, CommandTyped
  <2> QED BY <1>1, <1>4, <1>5, <1>6, <2>1, <2>2 DEF Look
<1>7. CASE Probe(c)
  BY <1>1, <1>4, <1>5, <1>7 DEF Probe, Runs, disk
<1>8. CASE TruncatePid(c)
  BY <1>1, <1>4, <1>8 DEF TruncatePid, Runs, CommandShapes
<1>9. CASE WritePid(c)
  <2>1. pidfile' \in Pids \cup {None, Torn}
    BY <1>1, <1>9 DEF WritePid, Runs, CommandShapes
  <2> QED BY <1>5, <1>9, <2>1 DEF WritePid
<1>10. CASE Interrupt(c)
  BY <1>1, <1>5, <1>10 DEF Interrupt, disk
<1> QED BY <1>6, <1>7, <1>8, <1>9, <1>10

\* Removing the file keeps the types.
LEMMA ForgetTyped ==
  ASSUME Typed, NEW c \in Cmds, Forget(c)
  PROVE  /\ Typed' /\ pidfile' = None /\ UNCHANGED <<proc, past>>
         /\ cmd[c].op = "start" => GoesOn(c, "spawn")
         /\ cmd[c].op # "start" => Idles(c)
         /\ \A b \in Cmds : b # c => IF cmd[b].at = "write" THEN Idles(b)
                                     ELSE cmd'[b] = cmd[b]
<1>1. /\ TypeOK /\ cmd \in [Cmds -> Command] /\ cmd[c] \in Command /\ past \in PastType
      /\ cmd[c].at = "forget" /\ CommandShapes
  BY DEF Typed, TypeOK, PastType, Forget, Runs
<1> DEFINE on == [cmd[c] EXCEPT !.at = "spawn"]
<1>2. /\ on \in Command /\ on.at = "spawn" /\ on.op = cmd[c].op /\ on.pid = cmd[c].pid
      /\ IdleCommand \in Command /\ IdleCommand.at = "idle" /\ IdleCommand.op = None
      /\ IdleCommand.pid = None
  BY <1>1 DEF Command, IdleCommand
<1> HIDE DEF on
<1>3. /\ cmd' = [b \in Cmds |->
                IF b = c /\ cmd[c].op = "start" THEN on
                ELSE IF b = c \/ cmd[b].at = "write" THEN IdleCommand ELSE cmd[b]]
      /\ pidfile' = None /\ UNCHANGED <<files, schema, rows, proc, starts, past>>
  BY DEF Forget, on, Runs
<1>4. cmd' \in [Cmds -> Command]
  BY <1>1, <1>2, <1>3
<1>5. /\ cmd[c].op = "start" => cmd'[c] = on
      /\ cmd[c].op # "start" => cmd'[c] = IdleCommand
      /\ \A b \in Cmds : b # c =>
            cmd'[b] = IF cmd[b].at = "write" THEN IdleCommand ELSE cmd[b]
  BY <1>3
<1>6. ASSUME NEW b \in Cmds
      PROVE  /\ cmd'[b].at \in {"probe", "truncate", "write", "kill"} => cmd'[b].pid \in Pids
             /\ cmd'[b].at \in {"spawn", "truncate", "write"} => cmd'[b].op = "start"
             /\ cmd'[b].at = "kill" => cmd'[b].op # "start"
             /\ b \in Starters' => b \in Starters
  BY <1>1, <1>2, <1>5 DEF CommandShapes, Starters
<1>7. CommandShapes' /\ Starters' \subseteq Starters
  BY <1>6 DEF CommandShapes, Starters
<1>8. Typed'
  BY <1>1, <1>3, <1>4, <1>7, StartsKept, CommandTyped DEF Typed
<1> QED BY <1>2, <1>3, <1>5, <1>8 DEF GoesOn, Idles

\* A start that gives its number to the daemon.
Spawns(c, p) ==
    /\ proc'[p].at = "check_schema" /\ Bears(p, None, None, FALSE, \A d \in Pids : ~Daemon(d))
    /\ \A q \in Pids : q # p =>
        /\ proc'[q].at = proc[q].at
        /\ Bears(q, proc[q].id, proc[q].key, proc[q].told, FALSE)
    /\ cmd'[c].at = "truncate" /\ cmd'[c].op = cmd[c].op /\ cmd'[c].pid = p
    /\ Others(c) /\ ~Alive(p) /\ UNCHANGED <<disk, past>>

\* Starting a daemon keeps the types and the counts.
LEMMA SpawnTyped ==
  ASSUME Typed, NEW c \in Cmds, Spawn(c)
  PROVE  Typed' /\ \E p \in Pids : Spawns(c, p)
<1>1. /\ TypeOK /\ cmd \in [Cmds -> Command] /\ cmd[c] \in Command
      /\ cmd[c].at = "spawn" /\ CommandShapes /\ proc \in [Pids -> Process]
      /\ starts' = starts + 1 /\ UNCHANGED <<disk, past>>
  BY DEF Typed, TypeOK, Spawn, Runs
<1>2. PICK p \in Pids :
        /\ ~Alive(p)
        /\ cmd' = [cmd EXCEPT ![c].pid = p, ![c].at = "truncate"]
        /\ proc' = [q \in Pids |->
              IF q = p THEN [Vacant("check_schema") EXCEPT !.alone =
                                \A d \in Pids : ~Daemon(d)]
              ELSE [proc[q] EXCEPT !.alone = FALSE]]
  BY DEF Spawn
<1>3. /\ cmd' \in [Cmds -> Command] /\ Others(c)
      /\ cmd'[c].at = "truncate" /\ cmd'[c].op = cmd[c].op /\ cmd'[c].pid = p
  <2> DEFINE new == [cmd[c] EXCEPT !.pid = p, !.at = "truncate"]
  <2>1. cmd' = [cmd EXCEPT ![c] = new]
    BY <1>1, <1>2 DEF Command
  <2>2. new \in Command /\ new.at = "truncate" /\ new.op = cmd[c].op /\ new.pid = p
    BY <1>1 DEF Command
  <2> HIDE DEF new
  <2> QED BY <1>1, <2>1, <2>2 DEF Others
<1>4. /\ proc' \in [Pids -> Process] /\ proc'[p].at = "check_schema"
      /\ Bears(p, None, None, FALSE, \A d \in Pids : ~Daemon(d))
      /\ \A q \in Pids : q # p =>
            /\ proc'[q].at = proc[q].at
            /\ Bears(q, proc[q].id, proc[q].key, proc[q].told, FALSE)
  <2> DEFINE none == Vacant("check_schema")
             lone == \A d \in Pids : ~Daemon(d)
             new == [none EXCEPT !.alone = lone]
             old(q) == [proc[q] EXCEPT !.alone = FALSE]
  <2>1. /\ none \in Process /\ none.at = "check_schema" /\ none.id = None
        /\ none.key = None /\ none.told = FALSE /\ lone \in BOOLEAN
    BY DEF Vacant, Process, Unhandled
  <2> HIDE DEF none, lone
  <2>2. /\ new \in Process /\ new.at = "check_schema" /\ new.id = None
        /\ new.key = None /\ new.told = FALSE /\ new.alone = lone
    BY <2>1 DEF Process
  <2>3. ASSUME NEW q \in Pids
        PROVE  /\ old(q) \in Process /\ old(q).at = proc[q].at /\ old(q).id = proc[q].id
               /\ old(q).key = proc[q].key /\ old(q).told = proc[q].told
               /\ old(q).alone = FALSE
    <3>1. proc[q] \in Process
      BY <1>1
    <3> QED BY <3>1 DEF Process
  <2>4. proc' = [q \in Pids |-> IF q = p THEN new ELSE old(q)]
    BY <1>2 DEF none, lone
  <2> HIDE DEF new, old
  <2>5. /\ proc' \in [Pids -> Process] /\ proc'[p] = new
        /\ \A q \in Pids : q # p => proc'[q] = old(q)
    BY <2>2, <2>3, <2>4
  <2> QED BY <2>2, <2>3, <2>5 DEF Bears, lone
<1>5. c \in Starters /\ \A b \in Cmds : b \in Starters' => b \in Starters \ {c}
  BY <1>1, <1>3 DEF CommandShapes, Starters, Others
<1>6. StartsBooked' /\ starts' \in 0 .. MaxStarts
  <2> DEFINE later == Starters'
  <2>1. later \subseteq Starters \ {c}
    BY <1>5 DEF Starters
  <2>2. IsFiniteSet(Starters) /\ Cardinality(Starters) \in Nat /\ starts \in Nat
        /\ MaxStarts \in Nat
    BY <1>1, Counts
  <2>3. IsFiniteSet(Starters \ {c})
        /\ Cardinality(Starters \ {c}) = Cardinality(Starters) - 1
    BY <1>5, <2>2, FS_RemoveElement
  <2>4. Cardinality(later) \in Nat /\ Cardinality(later) <= Cardinality(Starters) - 1
    BY <2>1, <2>3, FS_Subset, FS_CardinalityType
  <2>5. starts + Cardinality(Starters) <= MaxStarts
    BY DEF Typed, StartsBooked
  <2> HIDE DEF later
  <2>6. starts + 1 + Cardinality(later) <= MaxStarts /\ starts + 1 \in 0 .. MaxStarts
    BY <2>2, <2>4, <2>5
  <2> QED BY <1>1, <2>6 DEF StartsBooked, later
<1>7. TypeOK'
  BY <1>1, <1>3, <1>4, <1>6 DEF TypeOK, disk
<1>8. CommandShapes'
  BY <1>1, <1>3 DEF CommandShapes, Others
<1>9. MakersHaveKeys'
  BY <1>4 DEF Typed, MakersHaveKeys, Making, Bears
<1>10. IdentitiesBooked'
  <2> DEFINE used == Used'
             undecided == Undecided'
  <2>1. None \notin Identities
    BY BootstrapAssumption DEF BootstrapAssumption, Identities
  <2>2. used \subseteq Used
    <3>1. UNCHANGED <<files, rows>>
      BY <1>1 DEF disk
    <3>2. ASSUME NEW i \in Identities, NEW q \in Pids, i = proc'[q].id \/ i = proc'[q].key
          PROVE  i \in Used
      BY <1>4, <2>1, <3>2 DEF Used, Bears
    <3> QED BY <3>1, <3>2 DEF Used
  <2>3. undecided \subseteq Undecided \cup {p}
    BY <1>4 DEF Undecided
  <2>4. /\ IsFiniteSet(Used) /\ IsFiniteSet(Undecided) /\ starts \in Nat
        /\ Cardinality(Used) \in Nat /\ Cardinality(Undecided) \in Nat
    BY <1>1, Counts
  <2>5. IsFiniteSet(Undecided \cup {p}) /\ Cardinality(Undecided \cup {p}) \in Nat
        /\ Cardinality(Undecided \cup {p}) <= Cardinality(Undecided) + 1
    <3>1. /\ IsFiniteSet(Undecided \cup {p})
          /\ Cardinality(Undecided \cup {p}) = IF p \in Undecided THEN Cardinality(Undecided)
                                               ELSE Cardinality(Undecided) + 1
      BY <2>4, FS_AddElement
    <3> QED BY <2>4, <3>1
  <2>6. Cardinality(used) \in Nat /\ Cardinality(used) <= Cardinality(Used)
    BY <2>2, <2>4, FS_Subset, FS_CardinalityType
  <2>7. Cardinality(undecided) \in Nat
        /\ Cardinality(undecided) <= Cardinality(Undecided \cup {p})
    BY <2>3, <2>5, FS_Subset, FS_CardinalityType
  <2>8. Cardinality(Used) + Cardinality(Undecided) <= starts
    BY DEF Typed, IdentitiesBooked
  <2> HIDE DEF used, undecided
  <2>9. Cardinality(used) + Cardinality(undecided) <= starts + 1
    BY <2>4, <2>5, <2>6, <2>7, <2>8
  <2> QED BY <1>1, <2>9 DEF IdentitiesBooked, used, undecided
<1>11. Spawns(c, p)
  BY <1>1, <1>2, <1>3, <1>4 DEF Spawns
<1> QED BY <1>6, <1>7, <1>8, <1>9, <1>10, <1>11 DEF Typed

\* What SIGTERM does to the process that has the number.
Kills(c, p) ==
    /\ Others(c) /\ UNCHANGED <<disk, starts>>
    /\ \/ /\ ~Daemon(p) /\ past' = past
          /\ GoesOn(c, "forget") \/ (Idles(c) /\ proc[p].at = "other" /\ proc' = proc)
          /\ \/ proc' = proc
             \/ /\ proc[p].at = "other" /\ Turns(p, "free")
                /\ Bears(p, None, None, FALSE, FALSE)
       \/ /\ proc[p].at \in Unhandled /\ GoesOn(c, "forget")
          /\ Turns(p, "free") /\ Bears(p, None, None, FALSE, FALSE)
          /\ past' = Death(p, TRUE)
       \/ /\ proc[p].at \in Handled /\ GoesOn(c, "forget") /\ past' = past
          /\ Turns(p, proc[p].at)
          /\ Bears(p, proc[p].id, proc[p].key, TRUE, proc[p].alone)

\* A signal keeps the types and the counts.
LEMMA KillTyped ==
  ASSUME Typed, NEW c \in Cmds, Kill(c)
  PROVE  Typed' /\ cmd[c].at = "kill" /\ cmd[c].pid \in Pids /\ Kills(c, cmd[c].pid)
<1> DEFINE p == cmd[c].pid
<1>1. /\ TypeOK /\ cmd[c].at = "kill" /\ p \in Pids /\ cmd[c].op # "start"
      /\ past \in PastType /\ UNCHANGED <<disk, starts>>
  BY DEF Typed, TypeOK, PastType, Kill, Runs, CommandShapes
<1>2. \/ ~Alive(p) /\ Goto(c, "forget") /\ proc' = proc /\ past' = past
      \/ proc[p].at = "other" /\ Goto(c, "forget") /\ proc' = EndOf(p) /\ past' = past
      \/ proc[p].at = "other" /\ Finish(c) /\ proc' = proc /\ past' = past
      \/ proc[p].at \in Unhandled /\ Goto(c, "forget") /\ proc' = EndOf(p)
            /\ past' = Death(p, TRUE)
      \/ proc[p].at \in Handled /\ Goto(c, "forget")
            /\ proc' = [proc EXCEPT ![p].told = TRUE] /\ past' = past
  BY DEF Kill
<1> HIDE DEF p
<1>3. cmd' \in [Cmds -> Command] /\ Others(c) /\ CommandShapes' /\ StartsBooked'
      /\ (Goto(c, "forget") => GoesOn(c, "forget")) /\ (Finish(c) => Idles(c))
  <2>1. Goto(c, "forget") \/ Finish(c)
    BY <1>2
  <2>2. /\ cmd' \in [Cmds -> Command] /\ Others(c)
        /\ (Goto(c, "forget") => GoesOn(c, "forget")) /\ (Finish(c) => Idles(c))
    BY <1>1, <2>1, CommandMoves
  <2>3. /\ cmd'[c].at \in {"idle", "forget"}
        /\ cmd'[c].op # "start" \/ cmd'[c].at = "idle"
    BY <1>1, <2>1, <2>2 DEF GoesOn, Idles
  <2> QED BY <1>1, <2>2, <2>3, CommandGoes
<1>4. EndOf(p) = [proc EXCEPT ![p] = Vacant("free")]
  BY DEF EndOf
<1>5. Kills(c, p) /\ past' \in PastType
  <2>1. ASSUME proc' = EndOf(p)
        PROVE  Turns(p, "free") /\ Bears(p, None, None, FALSE, FALSE)
    BY <1>1, <1>4, <2>1, Vacated DEF Gone
  <2>2. CASE ~Alive(p) /\ Goto(c, "forget") /\ proc' = proc /\ past' = past
    BY <1>1, <1>3, <2>2 DEF Kills, Daemon, Alive, Gone, Unhandled, Handled, Making
  <2>3. CASE proc[p].at = "other" /\ Goto(c, "forget") /\ proc' = EndOf(p) /\ past' = past
    BY <1>1, <1>3, <2>1, <2>3 DEF Kills, Daemon, Unhandled, Handled, Making
  <2>4. CASE proc[p].at = "other" /\ Finish(c) /\ proc' = proc /\ past' = past
    BY <1>1, <1>3, <2>4 DEF Kills, Daemon, Unhandled, Handled, Making
  <2>5. CASE proc[p].at \in Unhandled /\ Goto(c, "forget") /\ proc' = EndOf(p)
            /\ past' = Death(p, TRUE)
    <3>1. past' \in PastType
      BY <1>1, <2>5, PastKept DEF Recalls
    <3> QED BY <1>1, <1>3, <2>1, <2>5, <3>1 DEF Kills
  <2>6. CASE proc[p].at \in Handled /\ Goto(c, "forget")
            /\ proc' = [proc EXCEPT ![p].told = TRUE] /\ past' = past
    <3>1. Turns(p, proc[p].at) /\ Bears(p, proc[p].id, proc[p].key, TRUE, proc[p].alone)
      BY <1>1, <2>6, Takes, ProcessTyped DEF Handled
    <3> QED BY <1>1, <1>3, <2>6, <3>1 DEF Kills
  <2> QED BY <1>2, <2>2, <2>3, <2>4, <2>5, <2>6
<1>6. UNCHANGED <<pidfile, files, schema, rows>> /\ starts' = starts
  BY <1>1 DEF disk
<1>7. /\ files \in [id : Identities \cup {None, Torn}, key : Identities \cup {None, Torn}]
      /\ rows \in [Identities \cup {Torn} -> Identities \cup {None}]
      /\ schema \in {"none", "partial", "head"} /\ pidfile \in Pids \cup {None, Torn}
  BY <1>1 DEF TypeOK
<1>8. ASSUME proc' = proc
      PROVE  Typed'
  BY <1>3, <1>5, <1>6, <1>7, <1>8, CommandTyped
<1>9. ASSUME Turns(p, "free"), Bears(p, None, None, FALSE, FALSE)
      PROVE  Typed'
  <2>1. TypeOK' /\ IdentitiesBooked' /\ MakersHaveKeys'
    BY <1>1, <1>3, <1>5, <1>6, <1>7, <1>9, TurnsTyped DEF Early, Making
  <2> QED BY <1>3, <2>1 DEF Typed
<1>10. ASSUME proc[p].at \in Handled, Turns(p, proc[p].at),
              Bears(p, proc[p].id, proc[p].key, TRUE, proc[p].alone)
       PROVE  Typed'
  <2>1. proc[p].at \notin Early \cup Making
    BY <1>10 DEF Early, Making, Handled
  <2>2. /\ p \in Pids /\ cmd' \in [Cmds -> Command] /\ starts' = starts /\ pidfile' = pidfile
        /\ schema' \in {"none", "partial", "head"} /\ past' \in PastType
        /\ files' \in [id : Identities \cup {None, Torn}, key : Identities \cup {None, Torn}]
        /\ rows' \in [Identities \cup {Torn} -> Identities \cup {None}]
    BY <1>1, <1>3, <1>5, <1>6, <1>7
  <2>3. /\ files'.id = files.id /\ files'.key = files.key
        /\ \A i \in Identities : rows'[i] # None => rows[i] # None
    BY <1>6
  <2>4. TypeOK' /\ IdentitiesBooked' /\ MakersHaveKeys'
    BY <1>10, <2>1, <2>2, <2>3, TurnsTyped
  <2> QED BY <1>3, <2>4 DEF Typed
<1> QED BY <1>1, <1>5, <1>8, <1>9, <1>10 DEF Kills, p

-----------------------------------------------------------------------------
(* The steps of a daemon, part by part. *)

Keeps(p) == Bears(p, proc[p].id, proc[p].key, proc[p].told, proc[p].alone)
Fails(p) == Turns(p, "failed") /\ Bears(p, None, None, FALSE, proc[p].alone)
Falls == Recalls(past.half, TRUE, past.raced, past.disturbed)

\* The migration.
LEMMA MigrationSteps ==
  ASSUME TypeOK, NEW p \in Pids
  PROVE  /\ CheckSchema(p) =>
            /\ In(p, "check_schema") /\ Keeps(p)
            /\ Turns(p, IF schema = "head" THEN "find_files" ELSE "create_tables")
            /\ UNCHANGED <<pidfile, files, schema, rows, cmd, past>>
         /\ CreateTables(p) =>
            /\ In(p, "create_tables") /\ UNCHANGED <<pidfile, files, rows, cmd>>
            /\ \/ schema = "none" /\ Turns(p, "stamp") /\ Keeps(p) /\ past' = past
               \/ schema # "none" /\ schema' = schema /\ Fails(p) /\ Falls
         /\ Stamp(p) =>
            /\ In(p, "stamp") /\ Turns(p, "find_files") /\ Keeps(p) /\ schema' = "head"
            /\ UNCHANGED <<pidfile, files, rows, cmd, past>>
<1> USE DEF Unhandled
<1>1. ASSUME NEW at \in Unhandled, Proceed(p, at)
      PROVE  Turns(p, at) /\ Keeps(p)
  BY <1>1, Proceeds DEF Keeps
<1>2. Fail(p) => Fails(p)
  BY FailsHow DEF Fails
<1>3. past' = [past EXCEPT !.fell = TRUE] => Falls
  BY PastKept DEF Falls
<1>4. CASE CheckSchema(p)
  <2>1. Proceed(p, IF schema = "head" THEN "find_files" ELSE "create_tables")
    BY <1>4 DEF CheckSchema
  <2> QED BY <1>1, <1>4, <2>1 DEF CheckSchema, CreateTables, Stamp, disk, In
<1>5. CASE CreateTables(p)
  BY <1>1, <1>2, <1>3, <1>5 DEF CheckSchema, CreateTables, Stamp, In
<1>6. CASE Stamp(p)
  BY <1>1, <1>6 DEF CheckSchema, CreateTables, Stamp, In
<1> QED BY <1>4, <1>5, <1>6

\* The identity files.
LEMMA FileSteps ==
  ASSUME TypeOK, IdentitiesBooked, NEW p \in Pids
  PROVE  /\ FindFiles(p) =>
            /\ In(p, "find_files") /\ UNCHANGED <<pidfile, files, schema, rows, cmd>>
            /\ \/ /\ files.id # None /\ files.key # None
                  /\ Turns(p, "load_id") /\ Keeps(p) /\ past' = past
               \/ /\ files.id = None \/ files.key = None
                  /\ Turns(p, "truncate_id")
                  /\ Bears(p, Generated, Generated, proc[p].told, proc[p].alone)
                  /\ Recalls(past.half, past.fell,
                             past.raced \/ \E q \in Pids : proc[q].at \in Making,
                             past.disturbed)
         /\ LoadId(p) =>
            /\ In(p, "load_id") /\ Turns(p, "load_key")
            /\ Bears(p, files.id, proc[p].key, proc[p].told, proc[p].alone)
            /\ UNCHANGED <<pidfile, files, schema, rows, cmd, past>>
         /\ LoadKey(p) =>
            /\ In(p, "load_key") /\ UNCHANGED <<pidfile, files, schema, rows, cmd>>
            /\ \/ /\ files.key \in Identities /\ Turns(p, "find_row")
                  /\ Bears(p, proc[p].id, files.key, proc[p].told, proc[p].alone)
                  /\ past' = past
               \/ files.key \notin Identities /\ Fails(p) /\ Falls
<1> USE DEF Unhandled, Making
<1>1. Fail(p) => Fails(p)
  BY FailsHow DEF Fails
<1>2. past' = [past EXCEPT !.fell = TRUE] => Falls
  BY PastKept DEF Falls
<1>3. CASE FindFiles(p)
  <2> DEFINE found == files.id # None /\ files.key # None
  <2>1. Decide(p, found)
    BY <1>3 DEF FindFiles
  <2>2. In(p, "find_files") /\ UNCHANGED <<pidfile, files, schema, rows, cmd>>
    BY <2>1 DEF Decide, disk
  <2>3. CASE found
    <3>1. Proceed(p, "load_id") /\ past' = past
      BY <2>1, <2>3 DEF Decide
    <3>2. Turns(p, "load_id") /\ Keeps(p)
      BY <3>1, Proceeds DEF Keeps
    <3> QED BY <2>2, <2>3, <3>1, <3>2 DEF In, LoadId, LoadKey
  <2>4. CASE ~found
    <3> DEFINE b == past.raced \/ \E q \in Pids : proc[q].at \in Making
    <3>1. /\ proc' = [proc EXCEPT ![p].id = Generated, ![p].key = Generated,
                                 ![p].at = "truncate_id"]
          /\ past' = [past EXCEPT !.raced = b] /\ b \in BOOLEAN
      BY <2>1, <2>4 DEF Decide
    <3>2. Generated \in Identities
      BY <2>2, OneIsLeft DEF Undecided, In
    <3>3. Turns(p, "truncate_id")
          /\ Bears(p, Generated, Generated, proc[p].told, proc[p].alone)
      BY <3>1, <3>2, Takes
    <3>4. Recalls(past.half, past.fell, b, past.disturbed)
      BY <3>1, PastKept
    <3> QED BY <2>2, <2>4, <3>3, <3>4 DEF In, LoadId, LoadKey
  <2> QED BY <2>3, <2>4
<1>4. CASE LoadId(p)
  <2>1. /\ proc' = [proc EXCEPT ![p].id = files.id, ![p].at = "load_key"] /\ In(p, "load_id")
        /\ UNCHANGED <<pidfile, files, schema, rows, cmd, past>>
        /\ files.id \in Identities \cup {None, Torn}
    BY <1>4 DEF LoadId, disk, TypeOK
  <2>2. Turns(p, "load_key") /\ Bears(p, files.id, proc[p].key, proc[p].told, proc[p].alone)
    BY <2>1, ProcessTyped, Takes
  <2> QED BY <2>1, <2>2 DEF FindFiles, Decide, LoadKey, In
<1>5. CASE LoadKey(p)
  <2>1. In(p, "load_key") /\ UNCHANGED <<pidfile, files, schema, rows, cmd>>
    BY <1>5 DEF LoadKey, disk
  <2>2. CASE files.key \in Identities
    <3>1. proc' = [proc EXCEPT ![p].key = files.key, ![p].at = "find_row"] /\ past' = past
      BY <1>5, <2>2 DEF LoadKey
    <3>2. Turns(p, "find_row")
          /\ Bears(p, proc[p].id, files.key, proc[p].told, proc[p].alone)
      BY <2>2, <3>1, ProcessTyped, Takes
    <3> QED BY <2>1, <2>2, <3>1, <3>2 DEF FindFiles, Decide, LoadId, In
  <2>3. CASE files.key \notin Identities
    <3>1. Fails(p) /\ Falls
      BY <1>1, <1>2, <1>5, <2>3 DEF LoadKey
    <3> QED BY <2>1, <2>3, <3>1 DEF FindFiles, Decide, LoadId, In
  <2> QED BY <2>2, <2>3
<1> QED BY <1>3, <1>4, <1>5

\* What a daemon writes to the files.
LEMMA SaveSteps ==
  ASSUME Typed, NEW p \in Pids
  PROVE  /\ TruncateId(p) \/ WriteId(p) \/ TruncateKey(p) \/ WriteKey(p) =>
            /\ proc[p].at \in Making /\ Keeps(p)
            /\ UNCHANGED <<pidfile, schema, rows, cmd, past>>
            /\ proc[p].id \in Identities /\ proc[p].key \in Identities
         /\ TruncateId(p) =>
            /\ In(p, "truncate_id") /\ Turns(p, "write_id")
            /\ files' = [id |-> Torn, key |-> files.key]
         /\ WriteId(p) =>
            /\ In(p, "write_id") /\ Turns(p, "truncate_key")
            /\ files' = [id |-> proc[p].id, key |-> files.key]
         /\ TruncateKey(p) =>
            /\ In(p, "truncate_key") /\ Turns(p, "write_key")
            /\ files' = [id |-> files.id, key |-> Torn]
         /\ WriteKey(p) =>
            /\ In(p, "write_key") /\ Turns(p, "find_row")
            /\ files' = [id |-> files.id, key |-> proc[p].key]
<1>1. /\ TypeOK /\ MakersHaveKeys
      /\ files \in [id : Identities \cup {None, Torn}, key : Identities \cup {None, Torn}]
  BY DEF Typed, TypeOK
<1>2. ASSUME NEW at \in Making, NEW field, NEW value, NEW to \in Unhandled,
             Save(p, at, field, value, to)
      PROVE  /\ In(p, at) /\ Turns(p, to) /\ Keeps(p)
             /\ files' = [files EXCEPT ![field] = value]
             /\ UNCHANGED <<pidfile, schema, rows, cmd, past>>
             /\ proc[p].id \in Identities /\ proc[p].key \in Identities
  <2>1. Turns(p, to) /\ Keeps(p)
    BY <1>1, <1>2, Proceeds DEF Keeps, Save
  <2> QED BY <1>1, <1>2, <2>1 DEF Save, MakersHaveKeys, In
<1>3. /\ \A v : [files EXCEPT !["id"] = v] = [id |-> v, key |-> files.key]
      /\ \A v : [files EXCEPT !["key"] = v] = [id |-> files.id, key |-> v]
  BY <1>1
<1> USE DEF Making, Unhandled
<1>4. TruncateId(p) =>
        /\ In(p, "truncate_id") /\ Turns(p, "write_id") /\ Keeps(p)
        /\ files' = [id |-> Torn, key |-> files.key]
        /\ UNCHANGED <<pidfile, schema, rows, cmd, past>>
        /\ proc[p].id \in Identities /\ proc[p].key \in Identities
  <2>1. ASSUME TruncateId(p)
        PROVE  Save(p, "truncate_id", "id", Torn, "write_id")
    BY <2>1 DEF TruncateId
  <2> QED BY <1>2, <1>3, <2>1
<1>5. WriteId(p) =>
        /\ In(p, "write_id") /\ Turns(p, "truncate_key") /\ Keeps(p)
        /\ files' = [id |-> proc[p].id, key |-> files.key]
        /\ UNCHANGED <<pidfile, schema, rows, cmd, past>>
        /\ proc[p].id \in Identities /\ proc[p].key \in Identities
  <2>1. ASSUME WriteId(p)
        PROVE  /\ In(p, "write_id") /\ Turns(p, "truncate_key") /\ Keeps(p)
               /\ files' = [files EXCEPT !["id"] = proc[p].id]
               /\ UNCHANGED <<pidfile, schema, rows, cmd, past>>
               /\ proc[p].id \in Identities /\ proc[p].key \in Identities
    <3>1. Save(p, "write_id", "id", proc[p].id, "truncate_key")
      BY <2>1 DEF WriteId
    <3> QED BY <1>2, <3>1
  <2> QED BY <1>3, <2>1
<1>6. TruncateKey(p) =>
        /\ In(p, "truncate_key") /\ Turns(p, "write_key") /\ Keeps(p)
        /\ files' = [id |-> files.id, key |-> Torn]
        /\ UNCHANGED <<pidfile, schema, rows, cmd, past>>
        /\ proc[p].id \in Identities /\ proc[p].key \in Identities
  <2>1. ASSUME TruncateKey(p)
        PROVE  Save(p, "truncate_key", "key", Torn, "write_key")
    BY <2>1 DEF TruncateKey
  <2> QED BY <1>2, <1>3, <2>1
<1>7. WriteKey(p) =>
        /\ In(p, "write_key") /\ Turns(p, "find_row") /\ Keeps(p)
        /\ files' = [id |-> files.id, key |-> proc[p].key]
        /\ UNCHANGED <<pidfile, schema, rows, cmd, past>>
        /\ proc[p].id \in Identities /\ proc[p].key \in Identities
  <2>1. ASSUME WriteKey(p)
        PROVE  /\ In(p, "write_key") /\ Turns(p, "find_row") /\ Keeps(p)
               /\ files' = [files EXCEPT !["key"] = proc[p].key]
               /\ UNCHANGED <<pidfile, schema, rows, cmd, past>>
               /\ proc[p].id \in Identities /\ proc[p].key \in Identities
    <3>1. Save(p, "write_key", "key", proc[p].key, "find_row")
      BY <2>1 DEF WriteKey
    <3> QED BY <1>2, <3>1
  <2> QED BY <1>3, <2>1
<1> QED BY <1>4, <1>5, <1>6, <1>7 DEF In

\* The row, the port and the end.
LEMMA ServeSteps ==
  ASSUME TypeOK, NEW p \in Pids
  PROVE  /\ FindRow(p) =>
            /\ In(p, "find_row") /\ Keeps(p)
            /\ Turns(p, IF rows[proc[p].id] = None THEN "insert_row" ELSE "bind")
            /\ UNCHANGED <<pidfile, files, schema, rows, cmd, past>>
         /\ InsertRow(p) =>
            /\ In(p, "insert_row") /\ UNCHANGED <<pidfile, files, schema, cmd>>
            /\ \/ /\ rows[proc[p].id] = None /\ Turns(p, "bind") /\ Keeps(p)
                  /\ rows' = [rows EXCEPT ![proc[p].id] = proc[p].key] /\ past' = past
               \/ rows[proc[p].id] # None /\ rows' = rows /\ Fails(p) /\ Falls
         /\ Bind(p) =>
            /\ In(p, "bind") /\ UNCHANGED <<pidfile, files, schema, rows, cmd>>
            /\ \/ /\ Turns(p, "serving") /\ past' = past
                  /\ Bears(p, proc[p].id, proc[p].key, proc[p].told, FALSE)
               \/ /\ \E q \in Pids : In(q, "serving")
                  /\ Fails(p)
                  /\ Recalls(past.half, past.fell \/ ~proc[p].told,
                             past.raced, past.disturbed)
         /\ Drain(p) =>
            /\ In(p, "serving") /\ proc[p].told /\ Turns(p, "draining") /\ Keeps(p)
            /\ UNCHANGED <<pidfile, files, schema, rows, cmd, past>>
         /\ Exit(p) =>
            /\ In(p, "draining") /\ Turns(p, "free") /\ Bears(p, None, None, FALSE, FALSE)
            /\ UNCHANGED <<pidfile, files, schema, rows, cmd, past>>
<1> USE DEF Unhandled, Handled
<1>1. ASSUME NEW at \in Unhandled \cup Handled, Proceed(p, at)
      PROVE  Turns(p, at) /\ Keeps(p)
  BY <1>1, Proceeds DEF Keeps
<1>2. Fail(p) => Fails(p)
  BY FailsHow DEF Fails
<1>3. past' = [past EXCEPT !.fell = TRUE] => Falls
  BY PastKept DEF Falls
<1>4. CASE FindRow(p)
  <2>1. Proceed(p, IF rows[proc[p].id] = None THEN "insert_row" ELSE "bind")
    BY <1>4 DEF FindRow
  <2> QED BY <1>1, <1>4, <2>1 DEF FindRow, InsertRow, Bind, Drain, Exit, In, disk
<1>5. CASE InsertRow(p)
  <2>1. CASE rows[proc[p].id] = None
    BY <1>1, <1>5, <2>1 DEF FindRow, InsertRow, Bind, Drain, Exit, In
  <2>2. CASE rows[proc[p].id] # None
    BY <1>2, <1>3, <1>5, <2>2 DEF FindRow, InsertRow, Bind, Drain, Exit, In
  <2> QED BY <2>1, <2>2
<1>6. CASE Bind(p)
  <2>1. CASE \E q \in Pids : In(q, "serving")
    <3> DEFINE b == past.fell \/ ~proc[p].told
    <3>1. b \in BOOLEAN /\ past' = [past EXCEPT !.fell = b] /\ Fail(p)
      BY <1>6, <2>1 DEF Bind
    <3>2. Recalls(past.half, b, past.raced, past.disturbed)
      BY <3>1, PastKept
    <3> QED BY <1>2, <1>6, <2>1, <3>1, <3>2 DEF FindRow, InsertRow, Bind, Drain, Exit, In, disk
  <2>2. CASE ~\E q \in Pids : In(q, "serving")
    <3>1. proc' = [proc EXCEPT ![p].at = "serving", ![p].alone = FALSE] /\ past' = past
      BY <1>6, <2>2 DEF Bind
    <3>2. Turns(p, "serving") /\ Bears(p, proc[p].id, proc[p].key, proc[p].told, FALSE)
      BY <3>1, ProcessTyped, Takes
    <3> QED BY <1>6, <3>1, <3>2 DEF FindRow, InsertRow, Bind, Drain, Exit, In, disk
  <2> QED BY <2>1, <2>2
<1>7. CASE Drain(p)
  BY <1>1, <1>7 DEF FindRow, InsertRow, Bind, Drain, Exit, In, disk
<1>8. CASE Exit(p)
  <2>1. Turns(p, "free") /\ Bears(p, None, None, FALSE, FALSE)
    BY <1>8, Vacated DEF Exit, EndOf, Gone
  <2> QED BY <1>8, <2>1 DEF FindRow, InsertRow, Bind, Drain, Exit, In, disk
<1> QED BY <1>4, <1>5, <1>6, <1>7, <1>8

\* Deaths, and other programs.
LEMMA KernelSteps ==
  ASSUME TypeOK, NEW p \in Pids
  PROVE  /\ Die(p) =>
            /\ Daemon(p) /\ Turns(p, "free") /\ Bears(p, None, None, FALSE, FALSE)
            /\ Recalls(past.half \cup ({proc[p].at} \cap {"stamp", "write_key"}),
                       past.fell \/ ~proc[p].told, past.raced, past.disturbed)
            /\ UNCHANGED <<pidfile, files, schema, rows, cmd>>
         /\ OtherStarts(p) \/ OtherEnds(p) =>
            /\ ~Daemon(p) /\ (Turns(p, "other") \/ Turns(p, "free"))
            /\ Bears(p, None, None, FALSE, FALSE)
            /\ UNCHANGED <<pidfile, files, schema, rows, cmd, past>>
<1>1. ASSUME Die(p)
      PROVE  /\ Daemon(p) /\ Turns(p, "free") /\ Bears(p, None, None, FALSE, FALSE)
             /\ Recalls(past.half \cup ({proc[p].at} \cap {"stamp", "write_key"}),
                        past.fell \/ ~proc[p].told, past.raced, past.disturbed)
             /\ UNCHANGED <<pidfile, files, schema, rows, cmd>>
  <2>1. Turns(p, "free") /\ Bears(p, None, None, FALSE, FALSE)
    BY <1>1, Vacated DEF Die, EndOf, Gone
  <2>2. Recalls(past.half \cup ({proc[p].at} \cap {"stamp", "write_key"}),
                past.fell \/ ~proc[p].told, past.raced, past.disturbed)
    BY <1>1, PastKept, ProcessTyped DEF Die
  <2> QED BY <1>1, <2>1, <2>2 DEF Die, disk
<1>2. ASSUME OtherStarts(p) \/ OtherEnds(p)
      PROVE  /\ ~Daemon(p) /\ (Turns(p, "other") \/ Turns(p, "free"))
             /\ Bears(p, None, None, FALSE, FALSE)
             /\ UNCHANGED <<pidfile, files, schema, rows, cmd, past>>
  <2>1. (Turns(p, "other") \/ Turns(p, "free")) /\ Bears(p, None, None, FALSE, FALSE)
    BY <1>2, Vacated DEF OtherStarts, OtherEnds, Gone
  <2>2. ~Daemon(p)
    BY <1>2 DEF OtherStarts, OtherEnds, Daemon, Alive, Gone, Unhandled, Handled, Making
  <2> QED BY <1>2, <2>1, <2>2 DEF OtherStarts, OtherEnds, disk
<1> QED BY <1>1, <1>2

-----------------------------------------------------------------------------
(* The identity: the files, the rows and what daemons took from them. *)

Holding == Making \cup {"load_id", "load_key"} \cup Loaded
Identified == Typed /\ FilesAgree /\ IdentityKept

\* A daemon that turns to a step where it holds nothing of the files, or keeps
\* what it holds, leaves them in agreement.
LEMMA FilesAside ==
  ASSUME Identified, UNCHANGED <<files, rows>>, past'.raced <=> past.raced,
         \A q \in Pids :
            \/ proc'[q].at \notin Holding
            \/ proc'[q].at = proc[q].at /\ proc'[q].id = proc[q].id
                /\ proc'[q].key = proc[q].key
  PROVE  FilesAgree' /\ IdentityKept'
<1> USE DEF Holding
<1>1. FilesAgree'
  BY DEF Identified, FilesAgree, In, Making, Loaded
<1>2. IdentityKept'
  BY DEF Identified, IdentityKept, In, Making, Loaded
<1> QED BY <1>1, <1>2

\* Steps of processes that hold nothing of the files.
LEMMA AsideSteps ==
  ASSUME Identified, NEW p \in Pids,
         \/ CheckSchema(p) \/ CreateTables(p) \/ Stamp(p)
         \/ Drain(p) \/ Exit(p) \/ Die(p) \/ OtherStarts(p) \/ OtherEnds(p)
  PROVE  FilesAgree' /\ IdentityKept'
<1>1. TypeOK
  BY DEF Identified, Typed
<1>2. ASSUME UNCHANGED <<files, rows>>, past'.raced <=> past.raced, NEW at, Turns(p, at),
             at \notin Holding
      PROVE  FilesAgree' /\ IdentityKept'
  BY <1>2, FilesAside DEF Turns
<1> USE DEF Holding, Making, Loaded
<1>3. CASE CheckSchema(p) \/ CreateTables(p) \/ Stamp(p)
  BY <1>1, <1>2, <1>3, MigrationSteps DEF Fails, Falls, Recalls
<1>4. CASE Drain(p) \/ Exit(p)
  BY <1>1, <1>2, <1>4, ServeSteps
<1>5. CASE Die(p) \/ OtherStarts(p) \/ OtherEnds(p)
  BY <1>1, <1>2, <1>5, KernelSteps DEF Recalls
<1> QED BY <1>3, <1>4, <1>5

\* What is found and read.
LEMMA LoadSteps ==
  ASSUME Identified, NEW p \in Pids, FindFiles(p) \/ LoadId(p) \/ LoadKey(p)
  PROVE  FilesAgree' /\ IdentityKept'
<1>1. TypeOK /\ IdentitiesBooked /\ FilesAgree /\ IdentityKept
  BY DEF Identified, Typed
<1>2. /\ UNCHANGED <<files, rows>>
      /\ past'.raced => past.raced \/ In(p, "find_files")
      /\ past.raced => past'.raced
      /\ \A q \in Pids : q # p => proc'[q] = proc[q]
  BY <1>1, FileSteps DEF Recalls, Turns, Fails, Falls
<1>3. CASE past'.raced
  BY <1>3 DEF FilesAgree, IdentityKept
<1>4. CASE ~past'.raced
  <2>1. ~past.raced
    BY <1>2, <1>4
  <2> USE DEF Making, Loaded, In, Turns, Bears, Keeps
  <2>2. CASE FindFiles(p)
    <3>1. CASE Turns(p, "load_id") /\ Keeps(p) /\ files.key # None
      <4>1. FilesAgree'
        BY <1>1, <1>2, <2>1, <3>1 DEF FilesAgree
      <4>2. IdentityKept'
        BY <1>1, <1>2, <2>1, <3>1 DEF IdentityKept
      <4> QED BY <4>1, <4>2
    <3>2. CASE /\ files.id = None \/ files.key = None
               /\ Turns(p, "truncate_id")
               /\ ~ \E q \in Pids : proc[q].at \in Making
      <4>1. files.key = None
        BY <1>1, <2>1, <3>2, BootstrapAssumption
           DEF FilesAgree, BootstrapAssumption, Identities
      <4>2. FilesAgree'
        BY <1>1, <1>2, <2>1, <3>2, <4>1 DEF FilesAgree
      <4>3. IdentityKept'
        BY <1>1, <1>2, <2>1, <3>2 DEF IdentityKept
      <4> QED BY <4>2, <4>3
    <3> QED BY <1>1, <1>4, <2>2, <3>1, <3>2, FileSteps DEF Recalls
  <2>3. CASE LoadId(p)
    <3>1. In(p, "load_id") /\ Turns(p, "load_key") /\ proc'[p].id = files.id
      BY <1>1, <2>3, FileSteps
    <3>2. FilesAgree'
      BY <1>1, <1>2, <2>1, <3>1 DEF FilesAgree
    <3>3. IdentityKept'
      BY <1>1, <1>2, <2>1, <3>1 DEF IdentityKept
    <3> QED BY <3>2, <3>3
  <2>4. CASE LoadKey(p)
    <3>1. CASE Turns(p, "failed")
      <4>1. past'.raced <=> past.raced
        BY <1>4, <2>1
      <4>2. \A q \in Pids : proc'[q].at \notin Holding
                \/ (proc'[q].at = proc[q].at /\ proc'[q].id = proc[q].id
                    /\ proc'[q].key = proc[q].key)
        BY <3>1 DEF Holding
      <4> QED BY <1>2, <4>1, <4>2, FilesAside
    <3>2. CASE /\ files.key \in Identities /\ Turns(p, "find_row")
               /\ Bears(p, proc[p].id, files.key, proc[p].told, proc[p].alone)
      <4>1. In(p, "load_key") /\ files \in [id : Identities \cup {None, Torn},
                                            key : Identities \cup {None, Torn}]
        BY <1>1, <2>4, FileSteps DEF TypeOK
      <4>2. files = [id |-> proc[p].id, key |-> files.key]
        BY <1>1, <2>1, <4>1 DEF FilesAgree
      <4>3. FilesAgree'
        BY <1>1, <1>2, <2>1, <3>2, <4>1, <4>2 DEF FilesAgree
      <4>4. IdentityKept'
        BY <1>1, <1>2, <2>1, <3>2 DEF IdentityKept
      <4> QED BY <4>3, <4>4
    <3> QED BY <1>1, <2>4, <3>1, <3>2, FileSteps DEF Fails
  <2> QED BY <2>2, <2>3, <2>4
<1> QED BY <1>3, <1>4

\* What is written: as long as a daemon has not opened the key nobody has loaded
\* or registered anything, and there is no other that writes.
LEMMA SavesAgree ==
  ASSUME Identified, NEW p \in Pids,
         TruncateId(p) \/ WriteId(p) \/ TruncateKey(p) \/ WriteKey(p)
  PROVE  FilesAgree' /\ IdentityKept'
<1>1. /\ Typed /\ FilesAgree /\ IdentityKept
      /\ None \notin Identities /\ Torn \notin Identities /\ None # Torn
      /\ files \in [id : Identities \cup {None, Torn}, key : Identities \cup {None, Torn}]
      /\ rows \in [Identities \cup {Torn} -> Identities \cup {None}]
  BY BootstrapAssumption
     DEF Identified, Typed, TypeOK, BootstrapAssumption, Identities
<1>2. /\ rows' = rows /\ past' = past /\ proc[p].at \in Making
      /\ \A q \in Pids : q # p => proc'[q] = proc[q]
      /\ proc'[p].id = proc[p].id /\ proc'[p].key = proc[p].key
      /\ proc[p].id \in Identities /\ proc[p].key \in Identities
  BY <1>1, SaveSteps DEF Turns, Keeps, Bears
<1>3. CASE past.raced
  BY <1>2, <1>3 DEF FilesAgree, IdentityKept
<1>4. CASE ~past.raced
  <2>1. /\ files.key \notin Identities
        /\ In(p, "write_key") <=> files.key # None
    BY <1>1, <1>2, <1>4 DEF FilesAgree, Making, In
  <2>2. \A i \in Identities \cup {Torn} : rows[i] = None
    <3>1. ASSUME NEW i \in Identities \cup {Torn}, rows[i] # None
          PROVE  files.key = rows[i] /\ rows[i] \in Identities
      BY <1>1, <1>4, <3>1 DEF IdentityKept
    <3> QED BY <2>1, <3>1
  <2>3. \A q \in Pids : q # p => proc[q].at \notin Making \cup Loaded
    BY <1>1, <1>2, <1>4, <2>1 DEF FilesAgree
  <2>4. IdentityKept'
    <3>1. proc'[p].at \notin {"bind", "serving"}
      BY <1>1, SaveSteps DEF Turns
    <3> QED BY <1>2, <2>2, <2>3, <3>1 DEF IdentityKept, In, Loaded
  <2> USE DEF Making, Loaded, In, Turns
  <2>5. CASE TruncateId(p) \/ WriteId(p)
    <3>1. files'.key = files.key /\ files.key = None
          /\ \/ proc'[p].at = "write_id"
             \/ proc'[p].at = "truncate_key" /\ files'.id = proc[p].id
      BY <1>1, <2>1, <2>5, SaveSteps
    <3>2. \A q \in Pids : q # p => proc[q].at \notin {"load_id", "load_key"}
      BY <1>1, <1>4, <3>1 DEF FilesAgree
    <3>3. FilesAgree'
      BY <1>2, <1>4, <2>3, <3>1, <3>2 DEF FilesAgree
    <3> QED BY <2>4, <3>3
  <2>6. CASE TruncateKey(p)
    <3>1. In(p, "truncate_key") /\ Turns(p, "write_key")
          /\ files' = [id |-> files.id, key |-> Torn]
      BY <1>1, <2>6, SaveSteps
    <3>2. files.id = proc[p].id /\ files.key = None
      BY <1>1, <1>4, <3>1 DEF FilesAgree
    <3>3. \A q \in Pids : q # p => proc[q].at \notin {"load_id", "load_key"}
      BY <1>1, <1>4, <3>2 DEF FilesAgree
    <3>4. FilesAgree'
      BY <1>1, <1>2, <1>4, <2>3, <3>1, <3>2, <3>3 DEF FilesAgree
    <3> QED BY <2>4, <3>4
  <2>7. CASE WriteKey(p)
    <3>1. In(p, "write_key") /\ Turns(p, "find_row")
          /\ files' = [id |-> files.id, key |-> proc[p].key]
      BY <1>1, <2>7, SaveSteps
    <3>2. files.id = proc[p].id
      BY <1>1, <1>4, <3>1 DEF FilesAgree
    <3>3. FilesAgree'
      BY <1>1, <1>2, <1>4, <2>3, <3>1, <3>2 DEF FilesAgree
    <3> QED BY <2>4, <3>3
  <2> QED BY <2>5, <2>6, <2>7
<1> QED BY <1>3, <1>4

\* The row of a daemon that has loaded what the files hold.
LEMMA RowsAgree ==
  ASSUME Identified, NEW p \in Pids, FindRow(p) \/ InsertRow(p) \/ Bind(p)
  PROVE  FilesAgree' /\ IdentityKept'
<1>1. /\ TypeOK /\ FilesAgree /\ IdentityKept
      /\ None \notin Identities /\ Torn \notin Identities /\ None # Torn
      /\ files \in [id : Identities \cup {None, Torn}, key : Identities \cup {None, Torn}]
      /\ rows \in [Identities \cup {Torn} -> Identities \cup {None}]
  BY BootstrapAssumption
     DEF Identified, Typed, TypeOK, BootstrapAssumption, Identities
<1>2. /\ files' = files /\ (past'.raced <=> past.raced)
      /\ proc[p].at \in {"find_row", "insert_row", "bind"}
      /\ \A q \in Pids : q # p => proc'[q] = proc[q]
  BY <1>1, ServeSteps DEF Recalls, Fails, Falls, Turns, In
<1>3. CASE past.raced
  BY <1>2, <1>3 DEF FilesAgree, IdentityKept
<1>4. CASE ~past.raced
  <2>1. /\ proc[p].key \in Identities
        /\ files.id = proc[p].id /\ files.key = proc[p].key /\ files.id \in Identities
    BY <1>1, <1>2, <1>4 DEF FilesAgree, Loaded
  <2>2. CASE Turns(p, "failed") /\ rows' = rows
    <3>1. \A q \in Pids : proc'[q].at \notin Holding
              \/ (proc'[q].at = proc[q].at /\ proc'[q].id = proc[q].id
                  /\ proc'[q].key = proc[q].key)
      BY <2>2 DEF Turns, Holding, Making, Loaded
    <3> QED BY <1>2, <2>2, <3>1, FilesAside
  <2>3. ASSUME NEW at \in {"insert_row", "bind", "serving"}, Turns(p, at),
               proc'[p].id = proc[p].id, proc'[p].key = proc[p].key,
               \A i \in Identities \cup {Torn} : i # proc[p].id => rows'[i] = rows[i],
               rows'[proc[p].id] \in {rows[proc[p].id], proc[p].key},
               at # "insert_row" => rows'[proc[p].id] # None
        PROVE  FilesAgree' /\ IdentityKept'
    <3> USE DEF Making, Loaded, In
    <3>1. FilesAgree'
      BY <1>1, <1>2, <1>4, <2>3 DEF FilesAgree, Turns
    <3>2. ASSUME NEW i \in Identities \cup {Torn}, rows'[i] # None
          PROVE  files = [id |-> i, key |-> rows'[i]]
      <4>1. CASE rows'[i] = rows[i]
        BY <1>1, <1>4, <3>2, <4>1 DEF IdentityKept
      <4>2. CASE rows'[i] # rows[i]
        BY <1>1, <2>1, <2>3, <4>2
      <4> QED BY <4>1, <4>2
    <3>3. ASSUME NEW q \in Pids, proc'[q].at \in {"bind", "serving"}
          PROVE  rows'[proc'[q].id] = proc'[q].key
      <4>1. proc'[q].id = files.id /\ proc'[q].key = files.key /\ files.id = proc[p].id
        BY <1>2, <1>4, <2>1, <3>1, <3>3 DEF FilesAgree
      <4>2. rows'[files.id] # None
        <5>1. CASE q = p
          BY <2>3, <3>3, <4>1, <5>1 DEF Turns
        <5>2. CASE q # p
          BY <1>1, <1>2, <1>4, <2>1, <2>3, <3>3, <4>1, <5>2 DEF IdentityKept
        <5> QED BY <5>1, <5>2
      <4> QED BY <2>1, <3>2, <4>1, <4>2
    <3>4. IdentityKept'
      BY <1>2, <3>2, <3>3 DEF IdentityKept
    <3> QED BY <3>1, <3>4
  <2>4. CASE FindRow(p)
    <3>1. /\ Turns(p, IF rows[proc[p].id] = None THEN "insert_row" ELSE "bind")
          /\ proc'[p].id = proc[p].id /\ proc'[p].key = proc[p].key /\ rows' = rows
      BY <1>1, <2>4, ServeSteps DEF Keeps, Bears
    <3>2. CASE rows[proc[p].id] = None
      BY <2>3, <3>1, <3>2
    <3>3. CASE rows[proc[p].id] # None
      BY <2>3, <3>1, <3>3
    <3> QED BY <3>2, <3>3
  <2>5. CASE InsertRow(p)
    <3>1. CASE /\ Turns(p, "bind") /\ Keeps(p)
               /\ rows' = [rows EXCEPT ![proc[p].id] = proc[p].key]
      <4>1. /\ rows'[proc[p].id] = proc[p].key
            /\ \A i \in Identities \cup {Torn} : i # proc[p].id => rows'[i] = rows[i]
        BY <1>1, <2>1, <3>1
      <4>2. proc'[p].id = proc[p].id /\ proc'[p].key = proc[p].key
        BY <3>1 DEF Keeps, Bears
      <4> QED BY <1>1, <2>1, <2>3, <3>1, <4>1, <4>2
    <3> QED BY <1>1, <2>2, <2>5, <3>1, ServeSteps DEF Fails
  <2>6. CASE Bind(p)
    <3>1. CASE /\ Turns(p, "serving")
               /\ Bears(p, proc[p].id, proc[p].key, proc[p].told, FALSE)
      <4>1. rows' = rows /\ In(p, "bind")
        BY <1>1, <2>6, ServeSteps
      <4>2. rows[proc[p].id] = proc[p].key
        BY <1>1, <1>4, <4>1 DEF IdentityKept
      <4>3. proc'[p].id = proc[p].id /\ proc'[p].key = proc[p].key
        BY <3>1 DEF Bears
      <4> QED BY <1>1, <2>1, <2>3, <3>1, <4>1, <4>2, <4>3
    <3> QED BY <1>1, <2>2, <2>6, <3>1, ServeSteps DEF Fails
  <2> QED BY <2>4, <2>5, <2>6
<1> QED BY <1>3, <1>4

-----------------------------------------------------------------------------
(* The start of a daemon that is alone, and what is left half done. *)

Lonely == Typed /\ HalvesBooked /\ AloneBooked /\ StartsAlone
LonelyStays == HalvesBooked' /\ AloneBooked' /\ StartsAlone'

\* Nobody leaves a half without being remembered, and nobody finds more.
LEMMA HalvesAside ==
  ASSUME Lonely, schema' = schema, files'.key = files.key, past.half \subseteq past'.half,
         \A q \in Pids :
            /\ In(q, "stamp") => proc'[q].at = "stamp" \/ "stamp" \in past'.half
            /\ In(q, "write_key") => proc'[q].at = "write_key" \/ "write_key" \in past'.half
            /\ proc'[q].at \in {"load_id", "load_key"} =>
                proc[q].at \in {"load_id", "load_key"}
  PROVE  HalvesBooked'
<1>1. schema = "partial" => "stamp" \in past'.half \/ \E q \in Pids : proc'[q].at = "stamp"
  BY DEF Lonely, HalvesBooked, In
<1>2. files.key = Torn =>
        "write_key" \in past'.half \/ \E q \in Pids : proc'[q].at = "write_key"
  BY DEF Lonely, HalvesBooked, In
<1>3. \A q \in Pids : proc'[q].at \in {"load_id", "load_key"} => files.key # None
  BY DEF Lonely, HalvesBooked
<1> QED BY <1>1, <1>2, <1>3 DEF HalvesBooked, In

\* A daemon that was alone is alone, and finds what it was told.
LEMMA AloneAside ==
  ASSUME Lonely, UNCHANGED <<schema, rows>>, past.half \subseteq past'.half,
         \A q \in Pids :
            /\ proc'[q].at \in Unhandled \cup Handled => Daemon(q)
            /\ proc'[q].alone => proc[q].alone
            /\ proc'[q].at \in {"create_tables", "insert_row"} =>
                proc'[q].at = proc[q].at /\ proc'[q].id = proc[q].id
            /\ proc'[q].at = "failed" => In(q, "failed")
  PROVE  AloneBooked' /\ StartsAlone'
<1>1. AloneBooked'
  <2>1. ASSUME NEW q \in Pids, proc'[q].alone, proc'[q].at \in Unhandled \cup Handled
        PROVE  /\ \A d \in Pids \ {q} : proc'[d].at \notin Unhandled \cup Handled
               /\ proc'[q].at = "create_tables" => schema = "none" \/ past'.half # {}
               /\ proc'[q].at = "insert_row" => rows[proc'[q].id] = None
    <3>1. /\ \A d \in Pids \ {q} : ~Daemon(d)
          /\ In(q, "create_tables") => schema = "none" \/ past.half # {}
          /\ In(q, "insert_row") => rows[proc[q].id] = None
      BY <2>1 DEF Lonely, AloneBooked
    <3> QED BY <2>1, <3>1 DEF In
  <2> QED BY <2>1 DEF AloneBooked, Daemon, In
<1>2. StartsAlone'
  BY DEF Lonely, StartsAlone, In
<1> QED BY <1>1, <1>2

\* A daemon goes on: the others that are alone are none.
LEMMA AloneTurns ==
  ASSUME Lonely, NEW p \in Pids, Daemon(p), NEW at, Turns(p, at),
         past.half \subseteq past'.half,
         proc'[p].alone => proc[p].alone,
         proc'[p].alone /\ at = "create_tables" => schema' = "none" \/ past.half # {},
         proc'[p].alone /\ at = "insert_row" => rows'[proc'[p].id] = None,
         proc'[p].alone /\ at = "failed" => past.half # {}
  PROVE  AloneBooked' /\ StartsAlone'
<1>1. proc'[p].at = at /\ \A q \in Pids : q # p => proc'[q] = proc[q]
  BY DEF Turns
<1>2. \A q \in Pids : q # p => ~(proc[q].alone /\ Daemon(q))
  BY DEF Lonely, AloneBooked
<1>3. proc[p].alone => \A q \in Pids \ {p} : ~Daemon(q)
  BY DEF Lonely, AloneBooked
<1>4. AloneBooked'
  <2>1. ASSUME NEW q \in Pids, proc'[q].alone, proc'[q].at \in Unhandled \cup Handled
        PROVE  /\ \A d \in Pids \ {q} : proc'[d].at \notin Unhandled \cup Handled
               /\ proc'[q].at = "create_tables" => schema' = "none" \/ past'.half # {}
               /\ proc'[q].at = "insert_row" => rows'[proc'[q].id] = None
    <3>1. q = p
      BY <1>1, <1>2, <2>1 DEF Daemon
    <3>2. \A d \in Pids \ {p} : proc'[d].at \notin Unhandled \cup Handled
      BY <1>1, <1>3, <2>1, <3>1 DEF Daemon
    <3> QED BY <1>1, <2>1, <3>1, <3>2
  <2> QED BY <2>1 DEF AloneBooked, Daemon, In
<1>5. StartsAlone'
  <2>1. ASSUME NEW q \in Pids, proc'[q].at = "failed", proc'[q].alone
        PROVE  past'.half # {}
    <3>1. CASE q = p
      BY <1>1, <2>1, <3>1
    <3>2. CASE q # p
      BY <1>1, <2>1, <3>2 DEF Lonely, StartsAlone, In
    <3> QED BY <3>1, <3>2
  <2> QED BY <2>1 DEF StartsAlone, In
<1> QED BY <1>4, <1>5

\* Somebody who dies is remembered.
LEMMA DeathsAlone ==
  ASSUME Lonely, NEW p \in Pids, NEW at \in {"free", "other"}, Turns(p, at),
         Bears(p, None, None, FALSE, FALSE), UNCHANGED <<files, schema, rows>>,
         past.half \cup ({proc[p].at} \cap {"stamp", "write_key"}) \subseteq past'.half
  PROVE  LonelyStays
<1> USE DEF Turns, Bears, In, Unhandled, Handled, Making
<1>1. HalvesBooked'
  BY HalvesAside
<1>2. AloneBooked' /\ StartsAlone'
  BY AloneAside DEF Daemon
<1> QED BY <1>1, <1>2 DEF LonelyStays

\* The kernel's steps, and an exit.
LEMMA KernelAlone ==
  ASSUME Lonely, NEW p \in Pids, Die(p) \/ Exit(p) \/ OtherStarts(p) \/ OtherEnds(p)
  PROVE  LonelyStays
<1>1. TypeOK
  BY DEF Lonely, Typed
<1>2. CASE Die(p)
  BY <1>1, <1>2, KernelSteps, DeathsAlone DEF Recalls
<1>3. CASE Exit(p)
  <2>1. proc[p].at = "draining" /\ past' = past
    BY <1>1, <1>3, ServeSteps DEF In
  <2> QED BY <1>1, <1>3, <2>1, ServeSteps, DeathsAlone
<1>4. CASE OtherStarts(p) \/ OtherEnds(p)
  <2>1. ~Daemon(p) /\ past' = past /\ proc[p].at \notin {"stamp", "write_key"}
    BY <1>1, <1>4, KernelSteps DEF Daemon, Unhandled, Making
  <2> QED BY <1>1, <1>4, <2>1, KernelSteps, DeathsAlone
<1> QED BY <1>2, <1>3, <1>4

\* The migration of a daemon that is alone finds no tables but those of one
\* that died.
LEMMA MigrationAlone ==
  ASSUME Lonely, NEW p \in Pids, CheckSchema(p) \/ CreateTables(p) \/ Stamp(p)
  PROVE  LonelyStays
<1>1. /\ TypeOK /\ HalvesBooked /\ AloneBooked /\ Daemon(p)
      /\ schema \in {"none", "partial", "head"}
  BY DEF Lonely, Typed, TypeOK, CheckSchema, CreateTables, Stamp, In, Daemon, Unhandled
<1> USE DEF Turns, Keeps, Bears, In, Fails
<1>2. CASE CheckSchema(p)
  <2> DEFINE at == IF schema = "head" THEN "find_files" ELSE "create_tables"
  <2>1. /\ In(p, "check_schema") /\ Keeps(p) /\ Turns(p, at)
        /\ UNCHANGED <<files, schema, rows, past>>
    BY <1>1, <1>2, MigrationSteps
  <2>2. HalvesBooked'
    BY <2>1, HalvesAside
  <2>3. proc[p].alone /\ schema = "partial" => past.half # {}
    BY <1>1, <2>1 DEF HalvesBooked, AloneBooked, Daemon, Unhandled
  <2>4. AloneBooked' /\ StartsAlone'
    BY <1>1, <2>1, <2>3, AloneTurns
  <2> QED BY <2>2, <2>4 DEF LonelyStays
<1>3. CASE CreateTables(p)
  <2>1. In(p, "create_tables") /\ UNCHANGED <<files, rows>>
    BY <1>1, <1>3, MigrationSteps
  <2>2. CASE schema = "none" /\ Turns(p, "stamp") /\ Keeps(p) /\ past' = past
    <3>1. HalvesBooked'
      BY <1>1, <2>1, <2>2 DEF HalvesBooked
    <3>2. AloneBooked' /\ StartsAlone'
      BY <1>1, <2>1, <2>2, AloneTurns
    <3> QED BY <3>1, <3>2 DEF LonelyStays
  <2>3. CASE schema # "none" /\ schema' = schema /\ Fails(p) /\ Falls
    <3>1. HalvesBooked'
      BY <2>1, <2>3, HalvesAside DEF Falls, Recalls
    <3>2. proc[p].alone => past.half # {}
      BY <1>1, <2>1, <2>3 DEF AloneBooked
    <3>3. AloneBooked' /\ StartsAlone'
      BY <1>1, <2>1, <2>3, <3>2, AloneTurns DEF Falls, Recalls
    <3> QED BY <3>1, <3>3 DEF LonelyStays
  <2> QED BY <1>1, <1>3, <2>2, <2>3, MigrationSteps
<1>4. CASE Stamp(p)
  <2>1. /\ In(p, "stamp") /\ Turns(p, "find_files") /\ Keeps(p) /\ schema' = "head"
        /\ UNCHANGED <<files, rows, past>>
    BY <1>1, <1>4, MigrationSteps
  <2>2. HalvesBooked'
    BY <1>1, <2>1 DEF HalvesBooked
  <2>3. AloneBooked' /\ StartsAlone'
    BY <1>1, <2>1, AloneTurns
  <2> QED BY <2>2, <2>3 DEF LonelyStays
<1> QED BY <1>2, <1>3, <1>4

\* A daemon that is alone finds the key file whole, unless one died at it.
LEMMA FilesAlone ==
  ASSUME Lonely, NEW p \in Pids, FindFiles(p) \/ LoadId(p) \/ LoadKey(p)
  PROVE  LonelyStays
<1>1. /\ TypeOK /\ IdentitiesBooked /\ HalvesBooked /\ AloneBooked /\ Daemon(p)
      /\ files.key \in Identities \cup {None, Torn}
  BY DEF Lonely, Typed, TypeOK, FindFiles, Decide, LoadId, LoadKey, In, Daemon, Unhandled
<1>2. /\ UNCHANGED <<files, schema, rows>> /\ past'.half = past.half
      /\ proc[p].at \in {"find_files", "load_id", "load_key"}
  BY <1>1, FileSteps DEF Recalls, Falls, In
<1> USE DEF Turns, Keeps, Bears, In, Fails
<1>3. ASSUME NEW at \in {"truncate_id", "load_key", "find_row"}, Turns(p, at),
             proc'[p].alone <=> proc[p].alone, at = "load_key" => In(p, "load_id")
      PROVE  LonelyStays
  <2>1. HalvesBooked'
    BY <1>2, <1>3, HalvesAside
  <2>2. AloneBooked' /\ StartsAlone'
    BY <1>1, <1>2, <1>3, AloneTurns
  <2> QED BY <2>1, <2>2 DEF LonelyStays
<1>4. CASE FindFiles(p)
  <2>1. CASE Turns(p, "load_id") /\ Keeps(p) /\ files.key # None
    <3>1. HalvesBooked'
      BY <1>1, <1>2, <2>1 DEF HalvesBooked
    <3>2. AloneBooked' /\ StartsAlone'
      BY <1>1, <1>2, <2>1, AloneTurns
    <3> QED BY <3>1, <3>2 DEF LonelyStays
  <2>2. CASE Turns(p, "truncate_id")
              /\ Bears(p, Generated, Generated, proc[p].told, proc[p].alone)
    BY <1>3, <2>2
  <2> QED BY <1>1, <1>4, <2>1, <2>2, FileSteps
<1>5. CASE LoadId(p)
  BY <1>1, <1>3, <1>5, FileSteps
<1>6. CASE LoadKey(p)
  <2>1. In(p, "load_key")
    BY <1>1, <1>6, FileSteps
  <2>2. CASE files.key \notin Identities /\ Fails(p)
    <3>1. HalvesBooked'
      BY <1>2, <2>1, <2>2, HalvesAside
    <3>2. proc[p].alone => past.half # {}
      <4>1. files.key = Torn
        BY <1>1, <2>1, <2>2 DEF HalvesBooked
      <4>2. ASSUME NEW q \in Pids, In(q, "write_key"), proc[p].alone
            PROVE  FALSE
        BY <1>1, <2>1, <4>2 DEF AloneBooked, Daemon, Unhandled, Making
      <4> QED BY <1>1, <4>1, <4>2 DEF HalvesBooked
    <3>3. AloneBooked' /\ StartsAlone'
      BY <1>1, <1>2, <2>2, <3>2, AloneTurns
    <3> QED BY <3>1, <3>3 DEF LonelyStays
  <2>3. CASE Turns(p, "find_row")
              /\ Bears(p, proc[p].id, files.key, proc[p].told, proc[p].alone)
    BY <1>3, <2>3
  <2> QED BY <1>1, <1>6, <2>2, <2>3, FileSteps
<1> QED BY <1>4, <1>5, <1>6

\* A key file that is opened has its writer.
LEMMA SavesAlone ==
  ASSUME Lonely, NEW p \in Pids,
         TruncateId(p) \/ WriteId(p) \/ TruncateKey(p) \/ WriteKey(p)
  PROVE  LonelyStays
<1>1. /\ Typed /\ HalvesBooked /\ None # Torn
      /\ None \notin Identities /\ Torn \notin Identities
  BY BootstrapAssumption DEF Lonely, BootstrapAssumption, Identities
<1>2. /\ UNCHANGED <<schema, rows, past>> /\ Keeps(p)
      /\ proc[p].at \in Making /\ proc[p].key \in Identities
  BY <1>1, SaveSteps
<1>3. \/ Turns(p, "write_id") /\ files'.key = files.key
      \/ Turns(p, "truncate_key") /\ files'.key = files.key
      \/ Turns(p, "write_key") /\ files'.key = Torn /\ In(p, "truncate_key")
      \/ Turns(p, "find_row") /\ files'.key = proc[p].key /\ In(p, "write_key")
  BY <1>1, SaveSteps
<1> USE DEF Turns, Keeps, Bears, In
<1>4. HalvesBooked'
  <2>1. CASE (Turns(p, "write_id") \/ Turns(p, "truncate_key")) /\ files'.key = files.key
                /\ proc[p].at # "write_key"
    BY <1>2, <2>1, HalvesAside DEF Making
  <2>2. CASE Turns(p, "write_key") /\ files'.key = Torn /\ In(p, "truncate_key")
    BY <1>1, <1>2, <2>2 DEF HalvesBooked
  <2>3. CASE Turns(p, "find_row") /\ files'.key = proc[p].key
    BY <1>1, <1>2, <2>3 DEF HalvesBooked, Making
  <2> QED BY <1>1, <2>1, <2>2, <2>3, SaveSteps
<1>5. AloneBooked' /\ StartsAlone'
  <2>1. Daemon(p)
    BY <1>2 DEF Daemon, Unhandled
  <2> QED BY <1>2, <1>3, <2>1, AloneTurns
<1> QED BY <1>4, <1>5 DEF LonelyStays

\* Nobody registers a row or takes the port of a daemon that is alone.
LEMMA ServesAlone ==
  ASSUME Lonely, NEW p \in Pids, FindRow(p) \/ InsertRow(p) \/ Bind(p) \/ Drain(p)
  PROVE  LonelyStays
<1>1. TypeOK /\ AloneBooked /\ Daemon(p)
  BY DEF Lonely, Typed, FindRow, InsertRow, Bind, Drain, In, Daemon, Unhandled, Handled
<1>2. /\ UNCHANGED <<files, schema>> /\ past'.half = past.half
      /\ proc[p].at \in {"find_row", "insert_row", "bind", "serving"}
  BY <1>1, ServeSteps DEF Recalls, Falls, In
<1> USE DEF Turns, Keeps, Bears, In, Fails
<1>3. HalvesBooked'
  <2>1. proc'[p].at \notin {"load_id", "load_key"}
        /\ \A q \in Pids : q # p => proc'[q] = proc[q]
    BY <1>1, ServeSteps
  <2> QED BY <1>2, <2>1, HalvesAside
<1>4. AloneBooked' /\ StartsAlone'
  <2>1. CASE FindRow(p)
    <3> DEFINE at == IF rows[proc[p].id] = None THEN "insert_row" ELSE "bind"
    <3>1. Turns(p, at) /\ Keeps(p) /\ rows' = rows
      BY <1>1, <2>1, ServeSteps
    <3>2. at = "insert_row" => rows'[proc'[p].id] = None
      BY <3>1
    <3>3. at # "create_tables" /\ at # "failed"
      OBVIOUS
    <3> HIDE DEF at
    <3> QED BY <1>1, <1>2, <3>1, <3>2, <3>3, AloneTurns
  <2>2. CASE InsertRow(p)
    <3>1. proc[p].alone => rows[proc[p].id] = None
      BY <1>1, <2>2, ServeSteps DEF AloneBooked
    <3>2. CASE Turns(p, "bind") /\ Keeps(p)
      BY <1>1, <1>2, <3>2, AloneTurns
    <3>3. CASE Fails(p) /\ rows[proc[p].id] # None
      BY <1>1, <1>2, <3>1, <3>3, AloneTurns
    <3> QED BY <1>1, <2>2, <3>2, <3>3, ServeSteps
  <2>3. CASE Bind(p)
    <3>1. CASE Turns(p, "serving") /\ Bears(p, proc[p].id, proc[p].key, proc[p].told, FALSE)
      BY <1>1, <1>2, <3>1, AloneTurns
    <3>2. CASE Fails(p) /\ \E q \in Pids : In(q, "serving")
      <4>1. proc[p].at = "bind"
        BY <1>1, <2>3, ServeSteps
      <4>2. ~proc[p].alone
        BY <1>1, <3>2, <4>1 DEF AloneBooked, Daemon, Handled
      <4> QED BY <1>1, <1>2, <3>2, <4>2, AloneTurns
    <3> QED BY <1>1, <2>3, <3>1, <3>2, ServeSteps
  <2>4. CASE Drain(p)
    BY <1>1, <1>2, <2>4, ServeSteps, AloneTurns
  <2> QED BY <2>1, <2>2, <2>3, <2>4
<1> QED BY <1>3, <1>4 DEF LonelyStays

\* What commands do that leave the processes alone, at a start and at a kill.
LEMMA ShellAside ==
  ASSUME Identified, Lonely, UNCHANGED <<files, schema, rows, proc>>,
         past'.half = past.half, past'.raced <=> past.raced
  PROVE  FilesAgree' /\ IdentityKept' /\ LonelyStays
<1>1. FilesAgree' /\ IdentityKept'
  BY FilesAside
<1>2. HalvesBooked'
  BY HalvesAside DEF In
<1>3. AloneBooked' /\ StartsAlone'
  BY DEF Lonely, AloneBooked, StartsAlone, Daemon, In
<1> QED BY <1>1, <1>2, <1>3 DEF LonelyStays

\* A daemon that is started is alone if there is no other, and others are not.
LEMMA SpawnAside ==
  ASSUME Identified, Lonely, NEW c \in Cmds, NEW p \in Pids, Spawns(c, p)
  PROVE  FilesAgree' /\ IdentityKept' /\ LonelyStays
<1>1. /\ UNCHANGED <<files, schema, rows, past>> /\ proc'[p].at = "check_schema"
      /\ proc'[p].alone <=> \A d \in Pids : ~Daemon(d)
      /\ proc[p].at \in Gone
      /\ \A q \in Pids : q # p =>
            /\ proc'[q].at = proc[q].at /\ proc'[q].id = proc[q].id
            /\ proc'[q].key = proc[q].key /\ ~proc'[q].alone
  BY DEF Spawns, disk, Bears, Alive
<1>2. FilesAgree' /\ IdentityKept'
  <2>1. proc'[p].at \notin Holding
    BY <1>1 DEF Holding, Making, Loaded
  <2> QED BY <1>1, <2>1, FilesAside
<1>3. HalvesBooked'
  BY <1>1, HalvesAside DEF In, Gone
<1>4. AloneBooked' /\ StartsAlone'
  BY <1>1 DEF AloneBooked, StartsAlone, Daemon, In
<1> QED BY <1>2, <1>3, <1>4 DEF LonelyStays

\* A signal ends a daemon or changes nothing of what it holds.
LEMMA KillAside ==
  ASSUME Identified, Lonely, NEW c \in Cmds, NEW p \in Pids, Kills(c, p)
  PROVE  FilesAgree' /\ IdentityKept' /\ LonelyStays
<1>1. TypeOK /\ UNCHANGED <<files, schema, rows>>
  BY DEF Lonely, Typed, Kills, disk
<1>2. CASE proc' = proc /\ past' = past
  BY <1>1, <1>2, ShellAside
<1>3. ASSUME Turns(p, "free"), Bears(p, None, None, FALSE, FALSE), past'.raced <=> past.raced,
             past.half \cup ({proc[p].at} \cap {"stamp", "write_key"}) \subseteq past'.half
      PROVE  FilesAgree' /\ IdentityKept' /\ LonelyStays
  <2>1. \A q \in Pids : proc'[q].at \notin Holding
            \/ (proc'[q].at = proc[q].at /\ proc'[q].id = proc[q].id
                /\ proc'[q].key = proc[q].key)
    BY <1>3 DEF Turns, Holding, Making, Loaded
  <2> QED BY <1>1, <1>3, <2>1, FilesAside, DeathsAlone
<1>4. CASE /\ proc[p].at = "other" /\ Turns(p, "free")
           /\ Bears(p, None, None, FALSE, FALSE) /\ past' = past
  BY <1>3, <1>4
<1>5. CASE /\ Turns(p, "free") /\ Bears(p, None, None, FALSE, FALSE)
           /\ past' = Death(p, TRUE)
  BY <1>1, <1>3, <1>5, PastKept DEF Recalls
<1>6. CASE /\ proc[p].at \in Handled /\ past' = past /\ Turns(p, proc[p].at)
           /\ Bears(p, proc[p].id, proc[p].key, TRUE, proc[p].alone)
  <2> USE DEF Turns, Bears
  <2>1. FilesAgree' /\ IdentityKept'
    BY <1>1, <1>6, FilesAside
  <2>2. HalvesBooked'
    BY <1>1, <1>6, HalvesAside DEF In
  <2>3. AloneBooked' /\ StartsAlone'
    BY <1>1, <1>6, AloneAside DEF Daemon, In
  <2> QED BY <2>1, <2>2, <2>3 DEF LonelyStays
<1> QED BY <1>2, <1>4, <1>5, <1>6 DEF Kills

-----------------------------------------------------------------------------
(* The PID file and the commands. *)

Booked == Typed /\ CommandsBooked /\ NoneFell /\ Drained
BookedStays == CommandsBooked' /\ NoneFell' /\ Drained'

\* A daemon that goes on keeps what it was told; one that ends was told to or
\* is remembered.
LEMMA TurnsBooked ==
  ASSUME Booked, NEW p \in Pids, NEW at, Turns(p, at), UNCHANGED <<pidfile, cmd>>,
         past'.disturbed <=> past.disturbed, past.fell => past'.fell,
         at \in Unhandled \cup Handled =>
            Daemon(p) /\ (proc[p].told <=> proc'[p].told),
         at \notin Unhandled \cup Handled => ~Untold(p) \/ past'.fell,
         at = "draining" => proc[p].told
  PROVE  BookedStays
<1>1. proc'[p].at = at /\ \A q \in Pids : q # p => proc'[q] = proc[q]
  BY DEF Turns
<1>2. ASSUME NEW q \in Pids
      PROVE  /\ (Untold(q))' => Untold(q)
             /\ Untold(q) => (Untold(q))' \/ past'.fell
  BY <1>1 DEF Untold, Daemon
<1>3. CommandsBooked'
  BY <1>2 DEF Booked, CommandsBooked, Runs
<1>4. NoneFell'
  <2>1. ASSUME ~past'.disturbed, ~past'.fell, pidfile \in Pids,
               \A c \in Cmds : cmd[c].at # "forget"
        PROVE  (Untold(pidfile))'
    <3>1. Untold(pidfile)
      BY <2>1 DEF Booked, NoneFell, Runs
    <3> QED BY <1>2, <2>1, <3>1
  <2>2. ASSUME ~past'.disturbed, ~past'.fell, NEW c \in Cmds,
               cmd[c].at \in {"truncate", "write"}
        PROVE  (Untold(cmd[c].pid))'
    <3>1. Untold(cmd[c].pid) /\ cmd[c].pid \in Pids
      BY <2>2 DEF Booked, Typed, CommandShapes, NoneFell, Runs
    <3> QED BY <1>2, <2>2, <3>1
  <2> QED BY <2>1, <2>2 DEF NoneFell, Runs
<1>5. Drained'
  BY <1>1 DEF Booked, Drained, In, Handled
<1> QED BY <1>3, <1>4, <1>5 DEF BookedStays

\* No step of a daemon and none of the kernel puts the books wrong.
LEMMA MainBooked ==
  ASSUME Booked, NEW p \in Pids, Main(p) \/ Die(p) \/ OtherStarts(p) \/ OtherEnds(p)
  PROVE  BookedStays
<1>1. Typed /\ TypeOK /\ IdentitiesBooked /\ Drained
  BY DEF Booked, Typed
<1>2. ASSUME NEW at \in Unhandled \cup Handled, Turns(p, at), Daemon(p),
             proc[p].told <=> proc'[p].told, UNCHANGED <<pidfile, cmd>>,
             past'.disturbed <=> past.disturbed, past'.fell <=> past.fell,
             at = "draining" => proc[p].told
      PROVE  BookedStays
  BY <1>2, TurnsBooked
<1>3. ASSUME NEW at \in Gone \cup {"other"}, Turns(p, at), UNCHANGED <<pidfile, cmd>>,
             past'.disturbed <=> past.disturbed, past.fell => past'.fell,
             ~Untold(p) \/ past'.fell
      PROVE  BookedStays
  <2>1. at \notin Unhandled \cup Handled
    BY DEF Gone, Unhandled, Handled, Making
  <2> QED BY <1>3, <2>1, TurnsBooked DEF Handled
<1> USE DEF Unhandled, Handled, Making, Gone, In, Keeps, Bears, Fails, Falls, Recalls
<1>4. CASE CheckSchema(p) \/ CreateTables(p) \/ Stamp(p)
  <2>1. Daemon(p)
    BY <1>1, <1>4, MigrationSteps DEF Daemon
  <2> QED BY <1>1, <1>2, <1>3, <1>4, <2>1, MigrationSteps
<1>5. CASE FindFiles(p) \/ LoadId(p) \/ LoadKey(p)
  <2>1. Daemon(p)
    BY <1>1, <1>5, FileSteps DEF Daemon
  <2> QED BY <1>1, <1>2, <1>3, <1>5, <2>1, FileSteps
<1>6. CASE TruncateId(p) \/ WriteId(p) \/ TruncateKey(p) \/ WriteKey(p)
  <2>1. Daemon(p) /\ (proc[p].told <=> proc'[p].told) /\ UNCHANGED <<pidfile, cmd, past>>
    BY <1>1, <1>6, SaveSteps DEF Daemon
  <2>2. \E at \in {"write_id", "truncate_key", "write_key", "find_row"} : Turns(p, at)
    BY <1>1, <1>6, SaveSteps
  <2> QED BY <1>2, <2>1, <2>2
<1>7. CASE FindRow(p) \/ InsertRow(p) \/ Bind(p)
  <2>1. Daemon(p)
    BY <1>1, <1>7, ServeSteps DEF Daemon
  <2>2. CASE FindRow(p) \/ InsertRow(p)
    BY <1>1, <1>2, <1>3, <2>1, <2>2, ServeSteps
  <2>3. CASE Bind(p)
    BY <1>1, <1>2, <1>3, <2>1, <2>3, ServeSteps DEF Untold
  <2> QED BY <1>7, <2>2, <2>3
<1>8. CASE Drain(p)
  <2>1. Daemon(p)
    BY <1>1, <1>8, ServeSteps DEF Daemon
  <2> QED BY <1>1, <1>2, <1>8, <2>1, ServeSteps
<1>9. CASE Exit(p)
  <2>1. ~Untold(p)
    BY <1>1, <1>9, ServeSteps DEF Drained, Untold
  <2> QED BY <1>1, <1>3, <1>9, <2>1, ServeSteps
<1>10. CASE Die(p) \/ OtherStarts(p) \/ OtherEnds(p)
  BY <1>1, <1>3, <1>10, KernelSteps DEF Untold
<1> QED BY <1>4, <1>5, <1>6, <1>7, <1>8, <1>9, <1>10 DEF Main

\* As long as nothing crossed, the command that takes a step is the only one:
\* what it finds and what it leaves is all there is to say.
LEMMA OneCommand ==
  ASSUME Booked, ~past.disturbed, NEW c \in Cmds, cmd[c].at # "idle"
  PROVE  /\ \A b \in Cmds : b # c => cmd[b].at = "idle"
         /\ pidfile = Torn => cmd[c].at = "write"
         /\ cmd[c].at \in {"probe", "kill"} => pidfile = cmd[c].pid
         /\ cmd[c].at \in {"spawn", "truncate"} => pidfile = None
         /\ cmd[c].at = "write" => pidfile = Torn
         /\ cmd[c].at \in {"spawn", "forget"} => \A p \in Pids : ~Untold(p)
         /\ \A p \in Pids : Untold(p) =>
                pidfile = p \/ (cmd[c].at \in {"truncate", "write"} /\ cmd[c].pid = p)
         /\ ~past.fell => /\ pidfile \in Pids /\ cmd[c].at # "forget" => Untold(pidfile)
                          /\ cmd[c].at \in {"truncate", "write"} => Untold(cmd[c].pid)
<1>1. CommandsBooked /\ NoneFell
  BY DEF Booked
<1>2. /\ \A b \in Cmds : b # c => cmd[b].at = "idle"
      /\ cmd[c].at \in {"probe", "kill"} => pidfile = cmd[c].pid
      /\ cmd[c].at \in {"spawn", "truncate"} => pidfile = None
      /\ cmd[c].at = "write" => pidfile = Torn
      /\ cmd[c].at \in {"spawn", "forget"} => \A p \in Pids : ~Untold(p)
  BY <1>1 DEF CommandsBooked, Runs
<1>3. /\ pidfile = Torn => cmd[c].at = "write"
      /\ \A p \in Pids : Untold(p) =>
            pidfile = p \/ (cmd[c].at \in {"truncate", "write"} /\ cmd[c].pid = p)
  BY <1>1, <1>2 DEF CommandsBooked, Runs
<1>4. ~past.fell => /\ pidfile \in Pids /\ cmd[c].at # "forget" => Untold(pidfile)
                    /\ cmd[c].at \in {"truncate", "write"} => Untold(cmd[c].pid)
  BY <1>1, <1>2 DEF NoneFell, Runs
<1> QED BY <1>2, <1>3, <1>4

\* It leaves the books right if they are right of it.
LEMMA CommandBooked ==
  ASSUME Booked, NEW c \in Cmds,
         past'.disturbed \/
            /\ \A b \in Cmds : b # c => cmd'[b].at = "idle"
            /\ pidfile' = Torn => cmd'[c].at = "write"
            /\ cmd'[c].at \in {"probe", "kill"} => pidfile' = cmd'[c].pid
            /\ cmd'[c].at \in {"spawn", "truncate"} => pidfile' = None
            /\ cmd'[c].at = "write" => pidfile' = Torn
            /\ cmd'[c].at \in {"spawn", "forget"} => \A p \in Pids : ~(Untold(p))'
            /\ \A p \in Pids : (Untold(p))' =>
                pidfile' = p \/ (cmd'[c].at \in {"truncate", "write"} /\ cmd'[c].pid = p)
            /\ ~past'.fell =>
                /\ \A p \in Pids : pidfile' = p /\ cmd'[c].at # "forget" => (Untold(p))'
                /\ \A p \in Pids : cmd'[c].at \in {"truncate", "write"} /\ cmd'[c].pid = p
                        => (Untold(p))',
         CommandShapes',
         \A p \in Pids : proc'[p].at = "draining" => proc'[p].told
  PROVE  BookedStays
<1>1. CommandsBooked'
  BY DEF CommandsBooked, Runs
<1>2. NoneFell'
  <2>1. ASSUME ~past'.disturbed, ~past'.fell, pidfile' \in Pids,
               \A b \in Cmds : cmd'[b].at # "forget"
        PROVE  \A p \in Pids : p = pidfile' => (Untold(p))'
    BY <2>1
  <2>2. ASSUME ~past'.disturbed, ~past'.fell, NEW b \in Cmds,
               cmd'[b].at \in {"truncate", "write"}
        PROVE  cmd'[b].pid \in Pids /\ \A p \in Pids : p = cmd'[b].pid => (Untold(p))'
    BY <2>2 DEF CommandShapes
  <2> QED BY <2>1, <2>2 DEF NoneFell, Runs, Untold, Daemon
<1>3. Drained'
  BY DEF Drained, In
<1> QED BY <1>1, <1>2, <1>3 DEF BookedStays

\* A command that begins alone finds the file naming the daemon.
LEMMA BeginBooked ==
  ASSUME Booked, NEW c \in Cmds, NEW op \in {"start", "stop", "status"}, Begin(c, op)
  PROVE  BookedStays
<1>1. Typed /\ CommandsBooked /\ NoneFell /\ Drained
  BY DEF Booked
<1>2. /\ Typed' /\ cmd'[c].at = "look" /\ Others(c) /\ pidfile' = pidfile /\ proc' = proc
      /\ Recalls(past.half, past.fell, past.raced,
                 past.disturbed \/ \E b \in Cmds : ~Runs(b, "idle"))
  <2>1. Typed' /\ cmd'[c].at = "look" /\ Others(c)
    BY <1>1, BeginTyped
  <2>2. UNCHANGED <<pidfile, proc>>
    BY DEF Begin, disk
  <2> DEFINE b == past.disturbed \/ \E d \in Cmds : ~Runs(d, "idle")
  <2>3. b \in BOOLEAN /\ past' = [past EXCEPT !.disturbed = b] /\ TypeOK
    BY <1>1 DEF Begin, Typed
  <2>4. past \in PastType
    BY <2>3 DEF TypeOK, PastType
  <2> HIDE DEF b
  <2>5. Recalls(past.half, past.fell, past.raced, b)
    BY <2>3, <2>4 DEF Recalls, PastType
  <2> QED BY <2>1, <2>2, <2>5 DEF b
<1>3. CASE past'.disturbed
  BY <1>1, <1>2, <1>3, CommandBooked DEF Typed, Drained, In
<1>4. CASE ~past'.disturbed
  <2>1. ~past.disturbed /\ \A b \in Cmds : cmd[b].at = "idle"
    BY <1>2, <1>4 DEF Recalls, Runs
  <2>2. pidfile # Torn /\ \A p \in Pids : Untold(p) => pidfile = p
    BY <1>1, <2>1 DEF CommandsBooked, Runs
  <2>3. ~past'.fell => \A p \in Pids : pidfile = p => Untold(p)
    BY <1>1, <1>2, <2>1 DEF NoneFell, Runs, Recalls
  <2>4. \A p \in Pids : Untold(p) <=> (Untold(p))'
    BY <1>2 DEF Untold, Daemon
  <2>5. \A b \in Cmds : b # c => cmd'[b].at = "idle"
    BY <1>2, <2>1 DEF Others
  <2>6. \A p \in Pids : proc'[p].at = "draining" => proc'[p].told
    BY <1>1, <1>2 DEF Drained, In
  <2> QED BY <1>2, <2>2, <2>3, <2>4, <2>5, <2>6, CommandBooked DEF Typed
<1> QED BY <1>3, <1>4

\* What a command does that looks at a process or a file, and the file it writes.
LEMMA ShellBooked ==
  ASSUME Booked, NEW c \in Cmds,
         Look(c) \/ Probe(c) \/ TruncatePid(c) \/ WritePid(c) \/ Interrupt(c)
  PROVE  BookedStays
<1>1. Typed /\ TypeOK /\ Drained /\ CommandShapes
  BY DEF Booked, Typed
<1>2. Typed' /\ Others(c) /\ proc' = proc
  <2>1. proc' = proc
    BY DEF Look, Probe, TruncatePid, WritePid, Interrupt
  <2> QED BY <1>1, <2>1, ShellTyped
<1>3. /\ CommandShapes'
      /\ \A p \in Pids : proc'[p].at = "draining" => proc'[p].told
      /\ \A p \in Pids : Untold(p) <=> (Untold(p))'
  BY <1>1, <1>2 DEF Typed, Drained, In, Untold, Daemon
<1>4. CASE past'.disturbed
  BY <1>3, <1>4, CommandBooked
<1>5. CASE ~past'.disturbed
  <2>1. past' = past
    <3>1. past' = past \/ past' = [past EXCEPT !.disturbed = TRUE]
      BY DEF Look, Probe, TruncatePid, WritePid, Interrupt
    <3>2. past \in PastType
      BY <1>1 DEF TypeOK, PastType
    <3> QED BY <1>5, <3>1, <3>2 DEF PastType
  <2>2. ~Interrupt(c)
    BY <1>1, <1>5, <2>1 DEF Interrupt, TypeOK
  <2>3. cmd[c].at # "idle" /\ ~past.disturbed
    BY <1>5, <2>1, <2>2 DEF Look, Probe, TruncatePid, WritePid, Runs
  <2>4. \A b \in Cmds : b # c => cmd'[b].at = "idle"
    BY <1>2, <2>3, OneCommand DEF Others
  <2>5. cmd \in [Cmds -> Command] /\ cmd[c] \in Command /\ None \notin Pids
        /\ Torn \notin Pids /\ None # Torn
    BY <1>1, BootstrapAssumption DEF TypeOK, BootstrapAssumption
  <2>6. CASE Look(c)
    <3>1. cmd[c].at = "look" /\ pidfile' = pidfile
      BY <2>6 DEF Look, Runs, disk
    <3>2. \/ /\ pidfile \in Pids /\ cmd'[c].pid = pidfile
             /\ cmd'[c].at \in {"kill", "probe"}
          \/ pidfile = None /\ cmd'[c].at = "spawn"
          \/ pidfile = None /\ cmd'[c].at = "idle"
          \/ pidfile = Torn
      <4>1. ASSUME pidfile \in Pids,
                   cmd' = [cmd EXCEPT ![c].pid = pidfile,
                            ![c].at = IF cmd[c].op = "stop" THEN "kill" ELSE "probe"]
            PROVE  cmd'[c].pid = pidfile /\ cmd'[c].at \in {"kill", "probe"}
        BY <2>5, <4>1 DEF Command
      <4>2. Goto(c, "spawn") => cmd'[c].at = "spawn"
        BY <1>1, CommandMoves DEF GoesOn
      <4>3. Finish(c) => cmd'[c].at = "idle"
        BY <1>1, CommandMoves DEF Idles
      <4> QED BY <2>6, <4>1, <4>2, <4>3 DEF Look
    <3>3. /\ pidfile # Torn /\ \A p \in Pids : Untold(p) => pidfile = p
          /\ ~past.fell => \A p \in Pids : pidfile = p => Untold(p)
      BY <2>3, <3>1, OneCommand
    <3> QED BY <1>3, <2>1, <2>4, <2>5, <3>1, <3>2, <3>3, CommandBooked
  <2>7. CASE Probe(c)
    <3>1. cmd[c].at = "probe" /\ pidfile' = pidfile
      BY <2>7 DEF Probe, Runs, disk
    <3>2. pidfile \in Pids /\ pidfile = cmd[c].pid
      BY <1>1, <2>3, <3>1, OneCommand DEF CommandShapes
    <3>3. \/ cmd'[c].at = "idle"
          \/ cmd'[c].at = "forget" /\ ~Alive(pidfile)
      BY <1>1, <2>7, <3>2, CommandMoves DEF Probe, GoesOn, Idles
    <3>4. ~Alive(pidfile) => ~Untold(pidfile)
      BY DEF Alive, Untold, Daemon, Gone, Unhandled, Handled, Making
    <3>5. /\ \A p \in Pids : Untold(p) => pidfile = p
          /\ ~past.fell => \A p \in Pids : pidfile = p => Untold(p)
      BY <2>3, <3>1, OneCommand
    <3> QED BY <1>3, <2>1, <2>4, <2>5, <3>1, <3>2, <3>3, <3>4, <3>5, CommandBooked
  <2>8. CASE TruncatePid(c)
    <3>1. cmd[c].at = "truncate" /\ pidfile' = Torn /\ cmd'[c].at = "write"
          /\ cmd'[c].pid = cmd[c].pid
      BY <1>1, <2>8, CommandMoves DEF TruncatePid, Runs, GoesOn
    <3>2. /\ \A p \in Pids : Untold(p) => cmd[c].pid = p
          /\ ~past.fell => \A p \in Pids : cmd[c].pid = p => Untold(p)
      BY <2>3, <2>5, <3>1, OneCommand
    <3> QED BY <1>3, <2>1, <2>4, <2>5, <3>1, <3>2, CommandBooked
  <2>9. CASE WritePid(c)
    <3>1. cmd[c].at = "write" /\ cmd'[c].at = "idle"
      BY <1>1, <2>9, CommandMoves DEF WritePid, Runs, Idles
    <3>2. /\ pidfile = Torn
          /\ \A p \in Pids : Untold(p) => cmd[c].pid = p
          /\ ~past.fell => \A p \in Pids : cmd[c].pid = p => Untold(p)
      BY <2>3, <2>5, <3>1, OneCommand
    <3>3. pidfile' = cmd[c].pid /\ pidfile' # Torn
      BY <1>1, <2>5, <2>9, <3>1, <3>2 DEF WritePid, CommandShapes
    <3> QED BY <1>3, <2>1, <2>4, <2>5, <3>1, <3>2, <3>3, CommandBooked
  <2> QED BY <2>2, <2>6, <2>7, <2>8, <2>9
<1> QED BY <1>4, <1>5

\* A file that is removed names no daemon that was not told to stop.
LEMMA ForgetBooked ==
  ASSUME Booked, NEW c \in Cmds, Forget(c)
  PROVE  BookedStays
<1>1. Typed /\ Drained /\ None \notin Pids /\ None # Torn
  BY BootstrapAssumption DEF Booked, BootstrapAssumption
<1>2. /\ Typed' /\ pidfile' = None /\ UNCHANGED <<proc, past>> /\ cmd[c].at = "forget"
      /\ cmd'[c].at \in {"spawn", "idle"}
      /\ \A b \in Cmds : b # c => cmd'[b].at = "idle" \/ cmd'[b] = cmd[b]
  BY <1>1, ForgetTyped DEF GoesOn, Idles, Forget, Runs
<1>3. /\ CommandShapes'
      /\ \A p \in Pids : proc'[p].at = "draining" => proc'[p].told
      /\ \A p \in Pids : Untold(p) <=> (Untold(p))'
  BY <1>1, <1>2 DEF Typed, Drained, In, Untold, Daemon
<1>4. CASE past.disturbed
  BY <1>2, <1>3, <1>4, CommandBooked
<1>5. CASE ~past.disturbed
  <2>1. /\ \A b \in Cmds : b # c => cmd[b].at = "idle"
        /\ \A p \in Pids : ~Untold(p)
    BY <1>2, <1>5, OneCommand
  <2> QED BY <1>1, <1>2, <1>3, <2>1, CommandBooked
<1> QED BY <1>4, <1>5

\* The daemon that is started is the only one that nobody told to stop.
LEMMA SpawnBooked ==
  ASSUME Booked, NEW c \in Cmds, cmd[c].at = "spawn", NEW p \in Pids, Spawns(c, p), Typed'
  PROVE  BookedStays
<1>1. /\ Drained /\ None \notin Pids /\ None # Torn
  BY BootstrapAssumption DEF Booked, BootstrapAssumption
<1>2. /\ pidfile' = pidfile /\ past' = past /\ Others(c)
      /\ cmd'[c].at = "truncate" /\ cmd'[c].pid = p
      /\ proc'[p].at = "check_schema" /\ ~proc'[p].told
      /\ \A q \in Pids : q # p =>
            proc'[q].at = proc[q].at /\ (proc'[q].told <=> proc[q].told)
  BY DEF Spawns, Bears, disk
<1>3. CommandShapes' /\ \A q \in Pids : proc'[q].at = "draining" => proc'[q].told
  BY <1>1, <1>2 DEF Typed, Drained, In
<1>4. (Untold(p))' /\ \A q \in Pids : q # p => (Untold(q) <=> (Untold(q))')
  BY <1>2 DEF Untold, Daemon, Unhandled
<1>5. CASE past.disturbed
  BY <1>2, <1>3, <1>5, CommandBooked
<1>6. CASE ~past.disturbed
  <2>1. /\ \A b \in Cmds : b # c => cmd[b].at = "idle"
        /\ \A q \in Pids : ~Untold(q)
        /\ pidfile = None
    BY <1>6, OneCommand
  <2>2. \A b \in Cmds : b # c => cmd'[b].at = "idle"
    BY <1>2, <2>1 DEF Others
  <2> QED BY <1>1, <1>2, <1>3, <1>4, <2>1, <2>2, CommandBooked
<1> QED BY <1>5, <1>6

\* The process that gets the signal is the one that was not told to stop.
LEMMA KillBooked ==
  ASSUME Booked, NEW c \in Cmds, cmd[c].at = "kill", NEW p \in Pids, p = cmd[c].pid,
         Kills(c, p), Typed'
  PROVE  BookedStays
<1>1. /\ TypeOK /\ Drained /\ Torn \notin Pids
  BY BootstrapAssumption DEF Booked, Typed, BootstrapAssumption
<1>2. /\ pidfile' = pidfile /\ Others(c) /\ cmd'[c].at \in {"forget", "idle"}
      /\ (past'.fell <=> past.fell) /\ (past'.disturbed <=> past.disturbed)
  <2>1. past' = past \/ past' = Death(p, TRUE)
    BY DEF Kills
  <2>2. (past'.fell <=> past.fell) /\ (past'.disturbed <=> past.disturbed)
    BY <1>1, <2>1, PastKept DEF Recalls
  <2> QED BY <2>2 DEF Kills, GoesOn, Idles, disk
<1>3. \A q \in Pids : q # p => proc'[q] = proc[q]
  BY DEF Kills, Turns
<1>4. /\ ~(Untold(p))' \/ (proc' = proc /\ Idles(c))
      /\ proc'[p].at = "draining" => proc'[p].told
  BY <1>1 DEF Kills, Untold, Daemon, Turns, Bears, Unhandled, Handled, Making, Drained, In
<1>5. CommandShapes' /\ \A q \in Pids : proc'[q].at = "draining" => proc'[q].told
  BY <1>1, <1>3, <1>4 DEF Typed, Drained, In
<1>6. \A q \in Pids : q # p => (Untold(q) <=> (Untold(q))')
  BY <1>3 DEF Untold, Daemon
<1>7. CASE past.disturbed
  BY <1>2, <1>5, <1>7, CommandBooked
<1>8. CASE ~past.disturbed
  <2>1. /\ \A b \in Cmds : b # c => cmd[b].at = "idle"
        /\ pidfile = p /\ \A q \in Pids : Untold(q) => q = p
        /\ ~past.fell => Untold(p)
    BY <1>8, OneCommand
  <2>2. \A b \in Cmds : b # c => cmd'[b].at = "idle"
    BY <1>2, <2>1 DEF Others
  <2>3. CASE ~(Untold(p))' /\ cmd'[c].at = "forget"
    BY <1>1, <1>2, <1>5, <1>6, <2>1, <2>2, <2>3, CommandBooked
  <2>4. CASE cmd'[c].at = "idle" /\ proc[p].at = "other" /\ proc' = proc
    <3>1. past.fell
      BY <2>1, <2>4 DEF Untold, Daemon, Unhandled, Handled, Making
    <3>2. ~(Untold(p))'
      BY <2>4 DEF Untold, Daemon, Unhandled, Handled, Making
    <3> QED BY <1>1, <1>2, <1>5, <1>6, <2>1, <2>2, <2>4, <3>1, <3>2, CommandBooked
  <2> QED BY <1>4, <2>3, <2>4
          DEF Kills, GoesOn, Idles, Untold, Daemon, Turns, Bears, Unhandled, Handled, Making
<1> QED BY <1>7, <1>8

-----------------------------------------------------------------------------
(* The theorems. *)

\* At first there is nothing: no file, no row, no daemon.
LEMMA InitIInv ==
  ASSUME Init
  PROVE  IInv
<1>1. /\ MaxStarts \in Nat /\ None # Torn /\ None \notin Pids /\ Torn \notin Pids
      /\ None \notin Identities /\ Torn \notin Identities
  BY BootstrapAssumption DEF BootstrapAssumption, Identities
<1>2. /\ pidfile = None /\ files = [id |-> None, key |-> None] /\ schema = "none"
      /\ rows = [i \in Identities \cup {Torn} |-> None]
      /\ cmd = [c \in Cmds |-> IdleCommand] /\ proc = [p \in Pids |-> Vacant("free")]
      /\ starts = 0
      /\ past = [half |-> {}, fell |-> FALSE, raced |-> FALSE, disturbed |-> FALSE]
  BY DEF Init
<1>3. \A p \in Pids :
        /\ proc[p].at = "free" /\ proc[p].id = None /\ proc[p].key = None
        /\ proc[p].told = FALSE /\ proc[p].alone = FALSE
  BY <1>2 DEF Vacant
<1>4. \A c \in Cmds : cmd[c].at = "idle" /\ cmd[c].op = None /\ cmd[c].pid = None
  BY <1>2 DEF IdleCommand
<1>5. TypeOK
  <2>1. Vacant("free") \in Process
    BY DEF Vacant, Process, Gone
  <2>2. IdleCommand \in Command
    BY DEF IdleCommand, Command
  <2>3. 0 \in 0 .. MaxStarts
    BY <1>1
  <2>4. proc \in [Pids -> Process] /\ cmd \in [Cmds -> Command] /\ starts \in 0 .. MaxStarts
    BY <1>2, <2>1, <2>2, <2>3
  <2> QED BY <1>2, <2>4 DEF TypeOK
<1>6. StartsBooked
  <2>1. Starters = {}
    BY <1>4 DEF Starters
  <2> QED BY <1>1, <1>2, <2>1, FS_EmptySet DEF StartsBooked
<1>7. IdentitiesBooked
  <2>1. Used = {} /\ Undecided = {}
    BY <1>1, <1>2, <1>3 DEF Used, Undecided
  <2> QED BY <1>2, <2>1, FS_EmptySet DEF IdentitiesBooked
<1>8. CommandShapes /\ MakersHaveKeys
  BY <1>3, <1>4 DEF CommandShapes, MakersHaveKeys, Making
<1>9. FilesAgree /\ IdentityKept
  BY <1>2, <1>3 DEF FilesAgree, IdentityKept, Making, Loaded, In
<1>10. HalvesBooked /\ AloneBooked /\ StartsAlone
  BY <1>1, <1>2, <1>3 DEF HalvesBooked, AloneBooked, StartsAlone, In
<1>11. CommandsBooked /\ NoneFell /\ Drained
  BY <1>1, <1>2, <1>3, <1>4
     DEF CommandsBooked, NoneFell, Drained, Untold, Daemon, Runs, In,
         Unhandled, Handled, Making
<1> QED BY <1>5, <1>6, <1>7, <1>8, <1>9, <1>10, <1>11 DEF IInv

\* A step of a daemon or the kernel.
LEMMA MainIInv ==
  ASSUME IInv, NEW p \in Pids, Main(p) \/ Die(p) \/ OtherStarts(p) \/ OtherEnds(p)
  PROVE  IInv'
<1>1. Typed /\ Identified /\ Lonely /\ Booked
  BY DEF IInv, Typed, Identified, Lonely, Booked
<1>2. Typed'
  BY <1>1, MigrationTyped, FilesTyped, ServesTyped DEF Main
<1>3. FilesAgree' /\ IdentityKept'
  BY <1>1, AsideSteps, LoadSteps, SavesAgree, RowsAgree DEF Main
<1>4. LonelyStays
  BY <1>1, KernelAlone, MigrationAlone, FilesAlone, SavesAlone, ServesAlone DEF Main
<1>5. BookedStays
  BY <1>1, MainBooked
<1> QED BY <1>2, <1>3, <1>4, <1>5 DEF IInv, Typed, LonelyStays, BookedStays

\* A step of a command.
LEMMA ShellIInv ==
  ASSUME IInv, NEW c \in Cmds, Shell(c)
  PROVE  IInv'
<1>1. Typed /\ Identified /\ Lonely /\ Booked /\ TypeOK
  BY DEF IInv, Typed, Identified, Lonely, Booked
<1>2. ASSUME Typed', FilesAgree', IdentityKept', LonelyStays, BookedStays
      PROVE  IInv'
  BY <1>2 DEF IInv, Typed, LonelyStays, BookedStays
<1>3. ASSUME NEW b \in BOOLEAN, past' = past \/ past' = [past EXCEPT !.disturbed = b]
      PROVE  past'.half = past.half /\ (past'.raced <=> past.raced)
  <2>1. past \in PastType
    BY <1>1 DEF TypeOK, PastType
  <2> QED BY <1>3, <2>1 DEF PastType
<1>4. ASSUME NEW op \in {"start", "stop", "status"}, Begin(c, op)
      PROVE  IInv'
  <2> DEFINE b == past.disturbed \/ \E d \in Cmds : ~Runs(d, "idle")
  <2>1. /\ UNCHANGED <<files, schema, rows, proc>> /\ b \in BOOLEAN
        /\ past' = [past EXCEPT !.disturbed = b]
    BY <1>4 DEF Begin, disk
  <2> HIDE DEF b
  <2>2. FilesAgree' /\ IdentityKept' /\ LonelyStays
    BY <1>1, <1>3, <2>1, ShellAside
  <2> QED BY <1>1, <1>2, <1>4, <2>2, BeginTyped, BeginBooked
<1>5. CASE Look(c) \/ Probe(c) \/ TruncatePid(c) \/ WritePid(c) \/ Interrupt(c)
  <2>1. /\ UNCHANGED <<files, schema, rows, proc>>
        /\ past' = past \/ past' = [past EXCEPT !.disturbed = TRUE]
    BY <1>5 DEF Look, Probe, TruncatePid, WritePid, Interrupt, disk
  <2>2. FilesAgree' /\ IdentityKept' /\ LonelyStays
    BY <1>1, <1>3, <2>1, ShellAside
  <2> QED BY <1>1, <1>2, <1>5, <2>2, ShellTyped, ShellBooked
<1>6. CASE Forget(c)
  <2>1. UNCHANGED <<files, schema, rows, proc, past>>
    BY <1>6 DEF Forget
  <2>2. FilesAgree' /\ IdentityKept' /\ LonelyStays
    BY <1>1, <2>1, ShellAside
  <2> QED BY <1>1, <1>2, <1>6, <2>2, ForgetTyped, ForgetBooked
<1>7. CASE Spawn(c)
  <2>1. Typed' /\ cmd[c].at = "spawn"
    BY <1>1, <1>7, SpawnTyped DEF Spawn, Runs
  <2>2. PICK p \in Pids : Spawns(c, p)
    BY <1>1, <1>7, SpawnTyped
  <2> QED BY <1>1, <1>2, <2>1, <2>2, SpawnAside, SpawnBooked
<1>8. CASE Kill(c)
  <2> DEFINE p == cmd[c].pid
  <2>1. Typed' /\ cmd[c].at = "kill" /\ p \in Pids /\ Kills(c, p)
    BY <1>1, <1>8, KillTyped
  <2> QED BY <1>1, <1>2, <2>1, KillAside, KillBooked
<1> QED BY <1>4, <1>5, <1>6, <1>7, <1>8 DEF Shell

\* The invariant holds in every state the daemon and its commands reach.
THEOREM Invariance == Spec => []IInv
<1>1. Init => IInv
  BY InitIInv
<1>2. IInv /\ [Next]_vars => IInv'
  <2>1. ASSUME IInv, Next
        PROVE  IInv'
    BY <2>1, MainIInv, ShellIInv DEF Next
  <2>2. ASSUME IInv, UNCHANGED vars
        PROVE  IInv'
    BY <2>2
       DEF vars, IInv, TypeOK, CommandShapes, StartsBooked, Starters, IdentitiesBooked,
           Used, Undecided, MakersHaveKeys, FilesAgree, IdentityKept, HalvesBooked,
           AloneBooked, StartsAlone, CommandsBooked, NoneFell, Drained, Untold,
           Daemon, Runs, In
  <2> QED BY <2>1, <2>2
<1> QED BY <1>1, <1>2, PTL DEF Spec

\* Files, rows, commands and processes are what the code makes them, and there
\* is an identity for every daemon that has to make one.
THEOREM TypeCorrect == Spec => []TypeOK
<1>1. IInv => TypeOK
  BY DEF IInv
<1> QED BY <1>1, Invariance, PTL

\* The device keeps the identity it was registered with, whatever dies on the
\* way, unless two daemons made identities at once.
THEOREM IdentityStays == Spec => []IdentityKept
<1>1. IInv => IdentityKept
  BY DEF IInv
<1> QED BY <1>1, Invariance, PTL

\* A daemon with no other about fails to start only after one that died inside
\* the migration or at the empty key file.
THEOREM LoneStarts == Spec => []StartsAlone
<1>1. IInv => StartsAlone
  BY DEF IInv
<1> QED BY <1>1, Invariance, PTL

\* Between commands that ran one at a time and to their end the PID file names
\* every daemon that nobody told to stop.
THEOREM DaemonIsNamed == Spec => []DaemonNamed
<1>1. IInv => DaemonNamed
  BY DEF IInv, DaemonNamed, CommandsBooked, Untold, Runs
<1> QED BY <1>1, Invariance, PTL

\* A stop does not take another program for the daemon, unless a daemon ended
\* untold or commands crossed.
THEOREM StopHits == Spec => []StopHitsDaemon
<1>1. IInv => StopHitsDaemon
  <2>1. ASSUME IInv, NEW c \in Cmds, Runs(c, "kill"), proc[cmd[c].pid].at = "other",
               ~past.fell, ~past.disturbed
        PROVE  FALSE
    <3>1. Booked /\ cmd[c].at = "kill" /\ cmd[c].pid \in Pids
      BY <2>1 DEF IInv, Booked, Typed, CommandShapes, Runs
    <3>2. Untold(cmd[c].pid)
      BY <2>1, <3>1, OneCommand
    <3> QED BY <2>1, <3>2 DEF Untold, Daemon, Unhandled, Handled, Making
  <2> QED BY <2>1 DEF StopHitsDaemon
<1> QED BY <1>1, Invariance, PTL

=============================================================================
