---------------------------- MODULE Migrations ----------------------------
(***************************************************************************)
(* The migration runner.  Every start of the API, of the migrate command   *)
(* and of the staff command brings the database up to date before anything *)
(* else: it takes a named lock, walks through the versions and applies     *)
(* those not recorded yet.  A look at information_schema, the statement it *)
(* decides about and the record of a version are steps of their own; a     *)
(* deadline, a lost connection or a crash may end a run between any two.   *)
(*                                                                         *)
(* The lock belongs to the connection.  When the program is gone, a        *)
(* statement it has sent may still be running at the server, and the lock  *)
(* stays until that has ended.                                             *)
(***************************************************************************)
EXTENDS Upgrades, FiniteSets

CONSTANTS
    Runner,         \* processes that run the upgrades at start
    MaxInterrupts   \* bound: runs cut short

ASSUME RunnerAssumption == Runner # {} /\ "NONE" \notin Runner /\ "ORPHAN" \notin Runner
ASSUME InterruptAssumption == MaxInterrupts \in Nat

VARIABLES
    schema,      \* the objects of the database
    recorded,    \* schema_migrations
    lock,        \* the connection that holds GET_LOCK: a runner's, a dead one's or none
    orphan,      \* what a dead connection still has at the server
    runner,      \* where each process is: in which version, at which statement
    seen,        \* what it has found for a later test of the same upgrade
    interrupts

vars == <<schema, recorded, lock, orphan, runner, seen, interrupts>>

Latest == Len(Script)
Version == 1..Latest

\* The state before version v, each earlier one applied without a break
AsWritten[v \in 1..(Latest + 1)] ==
    IF v = 1 THEN {} ELSE Upgraded(v - 1, AsWritten[v - 1])

Idle == [pc |-> "down", version |-> 1, step |-> 1]

\* down: not running; failed: stopped with an error of its own making
Holding == {"apply", "check", "exec", "record"}
PC == {"down", "waiting", "up", "failed"} \cup Holding

\* A statement of a version, or its record as statement 0
NoOrphan == <<0, 0>>

Statement(v, i) == Script[v][i]

TypeOK ==
    /\ recorded \subseteq Version
    /\ lock \in Runner \cup {"ORPHAN", "NONE"}
    /\ orphan \in (0..Latest) \X Nat
    /\ runner \in [Runner -> [pc : PC, version : 1..(Latest + 1), step : Nat]]
    /\ interrupts \in 0..MaxInterrupts

Init ==
    /\ schema = {} /\ recorded = {}
    /\ lock = "NONE" /\ orphan = NoOrphan
    /\ runner = [p \in Runner |-> Idle]
    /\ seen = [p \in Runner |-> {}]
    /\ interrupts = 0

Goto(p, pc) == runner' = [runner EXCEPT ![p].pc = pc]

---------------------------------------------------------------------------
(* One run *)

\* The process starts, or is started again, and asks for the lock.
Start(p) ==
    /\ runner[p].pc \in {"down", "up", "failed"}
    /\ runner' = [runner EXCEPT ![p] = [Idle EXCEPT !.pc = "waiting"]]
    /\ UNCHANGED <<schema, recorded, lock, orphan, interrupts, seen>>

acquireLock(p) ==
    /\ runner[p].pc = "waiting" /\ lock = "NONE"
    /\ lock' = p
    /\ Goto(p, "apply")
    /\ UNCHANGED <<schema, recorded, orphan, interrupts, seen>>

\* GET_LOCK gave up after 30 seconds.
LockTimeout(p) ==
    /\ runner[p].pc = "waiting" /\ lock # "NONE"
    /\ Goto(p, "down")
    /\ UNCHANGED <<schema, recorded, lock, orphan, interrupts, seen>>

\* The checksum of the version is looked for; a recorded version is passed.
apply(p) ==
    LET v == runner[p].version IN
    /\ runner[p].pc = "apply" /\ v \in Version
    /\ runner' = [runner EXCEPT ![p] =
          IF v \in recorded THEN [@ EXCEPT !.version = v + 1]
          ELSE [@ EXCEPT !.pc = IF Script[v] = <<>> THEN "record" ELSE "check", !.step = 1]]
    /\ seen' = [seen EXCEPT ![p] = {}]
    /\ UNCHANGED <<schema, recorded, lock, orphan, interrupts>>

\* All versions are recorded: the lock is released and the program goes on.
Finish(p) ==
    /\ runner[p].pc = "apply" /\ runner[p].version = Latest + 1
    /\ lock' = "NONE"
    /\ Goto(p, "up")
    /\ UNCHANGED <<schema, recorded, orphan, interrupts, seen>>

\* Where the runner is after statement i of version v
After(r) == IF r.step = Len(Script[r.version]) THEN [r EXCEPT !.pc = "record"]
            ELSE [r EXCEPT !.pc = "check", !.step = @ + 1]

LeftOut(s, p) ==
    \/ s.unless # {} /\ s.unless \subseteq schema
    \/ ~(s.onlyIf \subseteq schema)
    \/ s.unlessRemembered # {} /\ s.unlessRemembered \subseteq seen[p]

\* The runner looks before a statement and decides.
Check(p) ==
    LET s == Statement(runner[p].version, runner[p].step) IN
    /\ runner[p].pc = "check"
    /\ \/ runner' = [runner EXCEPT ![p] =
             IF LeftOut(s, p) THEN After(@) ELSE [@ EXCEPT !.pc = "exec"]]
       \/ /\ s.enough # {} /\ s.enough \subseteq schema
          /\ Goto(p, "record")
    /\ UNCHANGED <<schema, recorded, lock, orphan, interrupts, seen>>

Execute(p) ==
    LET s == Statement(runner[p].version, runner[p].step) IN
    /\ runner[p].pc = "exec" /\ ~Refused(s, schema)
    /\ schema' = Effect(s, schema)
    /\ seen' = [seen EXCEPT ![p] = @ \cup (s.remember \cap schema)]
    /\ runner' = [runner EXCEPT ![p] = After(@)]
    /\ UNCHANGED <<recorded, lock, orphan, interrupts>>

\* The server answers with an error, and the run ends with it.
Refuse(p) ==
    LET s == Statement(runner[p].version, runner[p].step) IN
    /\ runner[p].pc = "exec" /\ Refused(s, schema)
    /\ lock' = "NONE"
    /\ Goto(p, "failed")
    /\ UNCHANGED <<schema, recorded, orphan, interrupts, seen>>

Record(p) ==
    LET v == runner[p].version IN
    /\ runner[p].pc = "record"
    /\ recorded' = recorded \cup {v}
    /\ schema' = schema \cup CommittedWithRecord(v)
    /\ runner' = [runner EXCEPT ![p] = [@ EXCEPT !.pc = "apply", !.version = v + 1]]
    /\ UNCHANGED <<lock, orphan, interrupts, seen>>

---------------------------------------------------------------------------
(* A run cut short, and the server *)

\* A slip: the lock is given back although a statement may still run.
LockAfterCutSlip(p) == IF lock = p THEN "NONE" ELSE lock

\* The server frees the lock with the connection, and that lives as long as
\* what it is working on.
LockAfterCut(p) ==
    IF lock # p THEN lock
    ELSE IF runner[p].pc \in {"exec", "record"} THEN "ORPHAN" ELSE "NONE"

\* The deadline of 30 seconds passes, the connection breaks, or the process
\* dies.
Interrupt(p) ==
    LET r == runner[p] IN
    /\ interrupts < MaxInterrupts
    /\ r.pc \in Holding \cup {"waiting"}
    /\ lock' = LockAfterCut(p)
    /\ orphan' = CASE r.pc = "exec" -> <<r.version, r.step>>
                   [] r.pc = "record" -> <<r.version, 0>>
                   [] OTHER -> orphan
    /\ Goto(p, "down")
    /\ interrupts' = interrupts + 1
    /\ UNCHANGED <<schema, recorded, seen>>

\* The statement of a dead connection takes effect, is refused, or never
\* ran; then its lock is free.
OrphanEnds ==
    LET v == orphan[1]
        i == orphan[2] IN
    /\ orphan # NoOrphan
    /\ \/ UNCHANGED <<schema, recorded>>
       \/ /\ i = 0
          /\ recorded' = recorded \cup {v}
          /\ schema' = schema \cup CommittedWithRecord(v)
       \/ /\ i > 0 /\ ~Refused(Statement(v, i), schema)
          /\ schema' = Effect(Statement(v, i), schema)
          /\ UNCHANGED recorded
    /\ orphan' = NoOrphan
    /\ lock' = IF lock = "ORPHAN" THEN "NONE" ELSE lock
    /\ UNCHANGED <<runner, seen, interrupts>>

Step(p) ==
    \/ acquireLock(p) \/ apply(p) \/ Finish(p) \/ Check(p) \/ Execute(p) \/ Refuse(p) \/ Record(p)

Next ==
    \/ \E p \in Runner : Start(p) \/ Step(p) \/ LockTimeout(p) \/ Interrupt(p)
    \/ OrphanEnds

\* A process that has stopped without bringing the database up to date is
\* started again (restart: unless-stopped, or an operator).
Fairness ==
    /\ \A p \in Runner :
           /\ WF_vars(runner[p].pc # "up" /\ Start(p))
           /\ WF_vars(Step(p))
    /\ WF_vars(OrphanEnds)

Spec == Init /\ [][Next]_vars /\ Fairness

---------------------------------------------------------------------------
(* Correctness *)

\* Versions that are run as they stand and add something without looking
NotRepeatable == {3, 5, 9, 12}

\* A version is recorded only when the schema is what the files up to it
\* describe, no matter how often and where its runs were cut short.
UpgradeIsWhole ==
    [][\A v \in recorded' \ recorded : recorded' = 1..v /\ schema' = AsWritten[v + 1]]_vars

\* Between a look at the schema and the statement it decides about, nobody
\* else changes the schema: not another process, not the statement that a
\* dead run has left at the server.
LooksStayTrue ==
    \A p \in Runner :
        runner[p].pc = "exec" =>
            /\ ~LeftOut(Statement(runner[p].version, runner[p].step), p)
            /\ orphan = NoOrphan

\* What an interrupted run leaves behind makes no later run fail, except in
\* the versions that are not repeatable.
InterruptedRunsResume ==
    \A p \in Runner : runner[p].pc = "failed" => runner[p].version \in NotRepeatable

\* The upgrades come to an end, unless one of those versions is stuck.
UpgradesFinish ==
    <>(\/ recorded = Version
       \/ \E p \in Runner : runner[p].pc = "failed" /\ runner[p].version \in NotRepeatable)
===========================================================================
