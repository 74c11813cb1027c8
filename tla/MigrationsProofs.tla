------------------------- MODULE MigrationsProofs -------------------------
(***************************************************************************)
(* One upgrade at a time, for any number of runners and interruptions.     *)
(***************************************************************************)
EXTENDS Migrations, SequenceTheorems, TLAPS

\* What is being applied, here or at the server, is one of the versions.
Typed ==
    /\ TypeOK
    /\ \A p \in Runner : runner[p].pc \in {"check", "exec", "record"} => runner[p].version \in Version
    /\ orphan # NoOrphan => orphan[1] \in Version

\* Only the connection with the lock is at work, and a statement about to
\* be sent is one that the last look asked for.
OneAtWork ==
    /\ \A p \in Runner : runner[p].pc \in Holding => lock = p
    /\ orphan # NoOrphan => lock = "ORPHAN"
    /\ LooksStayTrue

\* Versions are numbers.
LEMMA VersionsAreNumbers == Latest \in Nat /\ Version = 1..Latest
BY DEF Latest, Version, Script

\* After a statement the runner is in the same version, about to look or to
\* record.
LEMMA AfterTyped ==
    ASSUME NEW r \in [pc : PC, version : 1..(Latest + 1), step : Nat]
    PROVE  /\ After(r) \in [pc : PC, version : 1..(Latest + 1), step : Nat]
           /\ After(r).pc \in {"check", "record"} /\ After(r).version = r.version
<1>1. CASE r.step = Len(Script[r.version])
  BY <1>1 DEF After, PC, Holding
<1>2. CASE r.step # Len(Script[r.version])
  <2>1. After(r) = [r EXCEPT !.pc = "check", !.step = r.step + 1]
    BY <1>2 DEF After
  <2>2. r.step + 1 \in Nat /\ r.version \in 1..(Latest + 1) /\ "check" \in PC
    BY DEF PC, Holding
  <2>3. After(r) = [pc |-> "check", version |-> r.version, step |-> r.step + 1]
    BY <2>1
  <2> QED
    BY <2>2, <2>3
<1> QED
  BY <1>1, <1>2

\* Nothing runs at first.
LEMMA InitAtWork == Init => Typed /\ OneAtWork
BY VersionsAreNumbers, RunnerAssumption, InterruptAssumption
   DEF Init, Typed, TypeOK, OneAtWork, LooksStayTrue, Holding, Idle, PC, Latest, NoOrphan

\* Where a runner is stays typed, whatever it does.
LEMMA RunTyped ==
    ASSUME Typed, NEW p \in Runner, Start(p) \/ Step(p) \/ LockTimeout(p)
    PROVE  Typed'
<1> USE VersionsAreNumbers DEF Typed, TypeOK, Holding, PC, Goto
<1>1. CASE Start(p)
  BY <1>1 DEF Start, Idle
<1>2. CASE acquireLock(p)
  BY <1>2 DEF acquireLock
<1>3. CASE LockTimeout(p)
  BY <1>3 DEF LockTimeout
<1>4. CASE apply(p)
  <2>1. CASE runner[p].version \in recorded
    <3>1. runner[p].version + 1 \in 1..(Latest + 1)
      BY <2>1
    <3> QED
      BY <1>4, <2>1, <3>1 DEF apply
  <2>2. CASE runner[p].version \notin recorded
    BY <1>4, <2>2 DEF apply
  <2> QED
    BY <2>1, <2>2
<1>5. CASE Finish(p)
  BY <1>5 DEF Finish
<1>6. CASE Check(p)
  <2> DEFINE next(q) == IF LeftOut(Statement(runner[q].version, runner[q].step), q)
                        THEN After(runner[q]) ELSE [runner[q] EXCEPT !.pc = "exec"]
  <2>1. After(runner[p]) \in [pc : PC, version : 1..(Latest + 1), step : Nat]
        /\ After(runner[p]).pc \in {"check", "record"} /\ After(runner[p]).version = runner[p].version
    BY AfterTyped
  <2>2. CASE runner' = [runner EXCEPT ![p] = next(p)]
    BY <1>6, <2>1, <2>2 DEF Check
  <2>3. CASE Goto(p, "record")
    BY <1>6, <2>3 DEF Check
  <2> QED
    BY <1>6, <2>2, <2>3 DEF Check
<1>7. CASE Execute(p)
  <2>1. After(runner[p]) \in [pc : PC, version : 1..(Latest + 1), step : Nat]
        /\ After(runner[p]).pc \in {"check", "record"} /\ After(runner[p]).version = runner[p].version
    BY AfterTyped
  <2> QED
    BY <1>7, <2>1 DEF Execute
<1>8. CASE Refuse(p)
  BY <1>8 DEF Refuse
<1>9. CASE Record(p)
  <2>1. runner[p].version \in Version /\ runner[p].version + 1 \in 1..(Latest + 1)
    BY <1>9 DEF Record
  <2> QED
    BY <1>9, <2>1 DEF Record
<1> QED
  BY <1>1, <1>2, <1>3, <1>4, <1>5, <1>6, <1>7, <1>8, <1>9 DEF Step

\* So it does when a run is cut short and when its last statement ends.
LEMMA CutTyped ==
    ASSUME Typed, (\E p \in Runner : Interrupt(p)) \/ OrphanEnds
    PROVE  Typed'
<1> USE VersionsAreNumbers DEF Typed, TypeOK, Holding, PC, Goto
<1>1. ASSUME NEW p \in Runner, Interrupt(p) PROVE Typed'
  <2>1. interrupts' \in 0..MaxInterrupts
    BY <1>1, InterruptAssumption DEF Interrupt
  <2>2. lock' \in Runner \cup {"ORPHAN", "NONE"}
    BY <1>1 DEF Interrupt, LockAfterCut
  <2>3. /\ orphan' \in (0..Latest) \X Nat
        /\ orphan' # NoOrphan => orphan'[1] \in Version
    BY <1>1 DEF Interrupt
  <2> QED
    BY <1>1, <2>1, <2>2, <2>3 DEF Interrupt
<1>2. CASE OrphanEnds
  <2>1. recorded' \subseteq Version
    BY <1>2 DEF OrphanEnds
  <2> QED
    BY <1>2, <2>1 DEF OrphanEnds, NoOrphan
<1> QED
  BY <1>1, <1>2

\* A run begins, gets the lock, gives up waiting, or passes a version.
LEMMA StartAtWork ==
    ASSUME Typed, OneAtWork, NEW p \in Runner,
           Start(p) \/ acquireLock(p) \/ LockTimeout(p) \/ apply(p) \/ Finish(p)
    PROVE  OneAtWork'
<1> USE DEF Typed, TypeOK, OneAtWork, LooksStayTrue, LeftOut, Statement, Holding, PC, Goto
<1>1. CASE Start(p)
  BY <1>1 DEF Start, Idle
<1>2. CASE acquireLock(p)
  BY <1>2, RunnerAssumption DEF acquireLock
<1>3. CASE LockTimeout(p)
  BY <1>3 DEF LockTimeout
<1>4. CASE apply(p)
  <2>1. runner'[p].pc \in {"apply", "check", "record"} /\ lock = p
    BY <1>4 DEF apply
  <2>2. \A q \in Runner : q # p => runner'[q] = runner[q] /\ seen'[q] = seen[q]
    BY <1>4 DEF apply
  <2> QED
    BY <1>4, <2>1, <2>2 DEF apply
<1>5. CASE Finish(p)
  <2>1. \A q \in Runner : runner'[q].pc \notin Holding
    BY <1>5 DEF Finish
  <2> QED
    BY <1>5, <2>1, RunnerAssumption DEF Finish
<1> QED
  BY <1>1, <1>2, <1>3, <1>4, <1>5

\* A run looks, changes the schema, is refused, or records a version: nobody
\* else is about to send a statement.
LEMMA ApplyAtWork ==
    ASSUME Typed, OneAtWork, NEW p \in Runner,
           Check(p) \/ Execute(p) \/ Refuse(p) \/ Record(p)
    PROVE  OneAtWork'
<1> USE DEF Typed, TypeOK, OneAtWork, Holding, PC, Goto
<1>1. lock = p /\ orphan = NoOrphan /\ \A q \in Runner : q # p => runner[q].pc \notin Holding
  BY RunnerAssumption DEF Check, Execute, Refuse, Record
<1>2. \A q \in Runner : q # p => runner'[q] = runner[q]
  BY DEF Check, Execute, Refuse, Record
<1>3. CASE Check(p)
  <2> DEFINE s == Statement(runner[p].version, runner[p].step)
  <2>0. After(runner[p]).pc \in {"check", "record"}
    BY AfterTyped
  <2>1. CASE LeftOut(s, p) /\ runner' = [runner EXCEPT ![p] = After(runner[p])]
    BY <1>1, <1>2, <1>3, <2>0, <2>1 DEF Check, LooksStayTrue
  <2>2. CASE ~LeftOut(s, p) /\ runner' = [runner EXCEPT ![p].pc = "exec"]
    <3>1. runner'[p] = [runner[p] EXCEPT !.pc = "exec"]
      BY <2>2
    <3>2. Statement(runner[p].version, runner[p].step)' = s /\ schema' = schema /\ seen' = seen
      BY <1>3, <3>1 DEF Check, Statement
    <3>3. ~LeftOut(Statement(runner[p].version, runner[p].step), p)'
      BY <2>2, <3>2 DEF LeftOut
    <3> QED
      BY <1>1, <1>2, <1>3, <3>1, <3>3 DEF Check, LooksStayTrue
  <2>3. CASE Goto(p, "record")
    BY <1>1, <1>2, <1>3, <2>3 DEF Check, LooksStayTrue
  <2> QED
    BY <1>3, <2>1, <2>2, <2>3 DEF Check
<1>4. CASE Execute(p)
  <2>1. runner'[p].pc \in {"check", "record"}
    BY <1>4 DEF Execute, After
  <2> QED
    BY <1>1, <1>2, <1>4, <2>1 DEF Execute, LooksStayTrue
<1>5. CASE Refuse(p)
  BY <1>1, <1>2, <1>5 DEF Refuse, LooksStayTrue
<1>6. CASE Record(p)
  <2>1. runner'[p].pc = "apply"
    BY <1>6 DEF Record
  <2> QED
    BY <1>1, <1>2, <1>6, <2>1 DEF Record, LooksStayTrue
<1> QED
  BY <1>3, <1>4, <1>5, <1>6

\* A run is cut short, or its last statement ends: the lock is free only
\* when nothing of the run is left.
LEMMA CutAtWork ==
    ASSUME Typed, OneAtWork, (\E p \in Runner : Interrupt(p)) \/ OrphanEnds
    PROVE  OneAtWork'
<1> USE DEF Typed, TypeOK, OneAtWork, LooksStayTrue, Holding, PC, Goto
<1>1. ASSUME NEW p \in Runner, Interrupt(p) PROVE OneAtWork'
  <2>1. runner'[p].pc = "down" /\ \A q \in Runner : q # p => runner'[q] = runner[q]
    BY <1>1 DEF Interrupt
  <2>2. CASE runner[p].pc = "waiting"
    BY <1>1, <2>1, <2>2, RunnerAssumption DEF Interrupt, LockAfterCut, LeftOut, Statement
  <2>3. CASE runner[p].pc \in Holding
    <3>1. lock = p /\ orphan = NoOrphan /\ \A q \in Runner : runner'[q].pc \notin Holding
      BY <2>1, <2>3, RunnerAssumption
    <3> QED
      BY <1>1, <2>3, <3>1, RunnerAssumption DEF Interrupt, LockAfterCut
  <2> QED
    BY <1>1, <2>2, <2>3 DEF Interrupt
<1>2. CASE OrphanEnds
  <2>1. lock = "ORPHAN" /\ \A q \in Runner : runner[q].pc \notin Holding
    BY <1>2, RunnerAssumption DEF OrphanEnds
  <2> QED
    BY <1>2, <2>1 DEF OrphanEnds
<1> QED
  BY <1>1, <1>2

\* The two go on together.
LEMMA WorkIsTakenInTurn ==
    ASSUME Typed, OneAtWork, [Next]_vars
    PROVE  Typed' /\ OneAtWork'
<1>1. ASSUME NEW p \in Runner, Start(p) \/ Step(p) \/ LockTimeout(p) PROVE Typed' /\ OneAtWork'
  BY <1>1, RunTyped, StartAtWork, ApplyAtWork DEF Step
<1>2. CASE (\E p \in Runner : Interrupt(p)) \/ OrphanEnds
  BY <1>2, CutTyped, CutAtWork
<1>3. CASE UNCHANGED vars
  BY <1>3 DEF vars, Typed, TypeOK, OneAtWork, LooksStayTrue, LeftOut
<1> QED
  BY <1>1, <1>2, <1>3 DEF Next

\* No statement is sent on the strength of a look that has become stale:
\* neither another run nor a statement of a dead one comes in between.
THEOREM LooksStayTrueTheorem == Spec => []LooksStayTrue
<1>1. Init => Typed /\ OneAtWork
  BY InitAtWork
<1>2. Typed /\ OneAtWork /\ [Next]_vars => Typed' /\ OneAtWork'
  BY WorkIsTakenInTurn
<1>3. Typed /\ OneAtWork => LooksStayTrue
  BY DEF OneAtWork
<1> QED
  BY <1>1, <1>2, <1>3, PTL DEF Spec

---------------------------------------------------------------------------
(* The order of the versions *)

\* A version is recorded after all those before it, and never again.
VersionsInOrder == [][\A v \in recorded' \ recorded : recorded' = 1..v]_vars

\* What a runner takes for applied is recorded, and what is being applied,
\* here or at the server, is the first version that is not.
OneAfterTheOther ==
    /\ \E n \in 0..Latest : recorded = 1..n
    /\ \A p \in Runner :
           /\ runner[p].pc = "waiting" => runner[p].version = 1
           /\ runner[p].pc = "apply" => 1..(runner[p].version - 1) \subseteq recorded
           /\ runner[p].pc \in {"check", "exec", "record"} => recorded = 1..(runner[p].version - 1)
    /\ orphan # NoOrphan => recorded = 1..(orphan[1] - 1)

\* No version is recorded at first.
LEMMA InitInOrder == Init => OneAfterTheOther
<1> SUFFICES ASSUME Init PROVE OneAfterTheOther
  OBVIOUS
<1>1. recorded = 1..0 /\ 0 \in 0..Latest
  BY VersionsAreNumbers DEF Init
<1> QED
  BY <1>1 DEF Init, OneAfterTheOther, Idle

\* A run that records nothing goes from version to version.
LEMMA RunInOrder ==
    ASSUME Typed, OneAtWork, OneAfterTheOther, NEW p \in Runner,
           Start(p) \/ LockTimeout(p) \/ acquireLock(p) \/ apply(p) \/ Finish(p)
             \/ Check(p) \/ Execute(p) \/ Refuse(p)
    PROVE  OneAfterTheOther'
<1> USE VersionsAreNumbers DEF Typed, TypeOK, OneAfterTheOther, PC, Holding, Goto
<1>0. recorded' = recorded /\ orphan' = orphan
  BY DEF Start, LockTimeout, acquireLock, apply, Finish, Check, Execute, Refuse
<1>1. \A q \in Runner : q # p => runner'[q] = runner[q]
  BY DEF Start, LockTimeout, acquireLock, apply, Finish, Check, Execute, Refuse
<1>2. CASE Start(p) \/ LockTimeout(p) \/ Finish(p) \/ Refuse(p)
  <2>1. runner'[p].pc \in {"waiting", "down", "up", "failed"}
        /\ (runner'[p].pc = "waiting" => runner'[p].version = 1)
    BY <1>2 DEF Start, LockTimeout, Finish, Refuse, Idle
  <2> QED
    BY <1>0, <1>1, <2>1
<1>3. CASE acquireLock(p)
  <2>1. runner'[p].pc = "apply" /\ runner'[p].version = 1
    BY <1>3 DEF acquireLock
  <2>2. 1..(runner'[p].version - 1) = {}
    BY <2>1
  <2> QED
    BY <1>0, <1>1, <2>1, <2>2
<1>4. CASE apply(p)
  <2> DEFINE v == runner[p].version
  <2>1. v \in Version /\ 1..(v - 1) \subseteq recorded
    BY <1>4 DEF apply
  <2>2. PICK n \in 0..Latest : recorded = 1..n
    OBVIOUS
  <2>3. CASE v \in recorded
    <3>1. runner'[p].pc = "apply" /\ runner'[p].version = v + 1
      BY <1>4, <2>3 DEF apply
    <3>2. 1..(runner'[p].version - 1) \subseteq recorded
      <4>1. runner'[p].version - 1 = v
        BY <2>1, <3>1
      <4> QED
        BY <2>1, <2>2, <2>3, <4>1
    <3> QED
      BY <1>0, <1>1, <2>1, <3>1, <3>2
  <2>4. CASE v \notin recorded
    <3>1. runner'[p].pc \in {"check", "record"} /\ runner'[p].version = v
      BY <1>4, <2>4 DEF apply
    <3>2. n = v - 1
      <4>1. v > n
        BY <2>1, <2>2, <2>4
      <4>2. v - 1 <= n
        <5>1. CASE v = 1
          BY <5>1
        <5>2. CASE v > 1
          <6>1. v - 1 \in 1..n
            BY <2>1, <2>2, <5>2
          <6> QED
            BY <6>1
        <5> QED
          BY <2>1, <5>1, <5>2
      <4> QED
        BY <2>1, <4>1, <4>2
    <3> QED
      BY <1>0, <1>1, <2>2, <3>1, <3>2
  <2> QED
    BY <2>3, <2>4
<1>5. CASE Check(p) \/ Execute(p)
  <2>1. After(runner[p]).pc \in {"check", "record"} /\ After(runner[p]).version = runner[p].version
    BY AfterTyped
  <2>2. runner'[p].pc \in {"check", "exec", "record"} /\ runner'[p].version = runner[p].version
        /\ runner[p].pc \in {"check", "exec"}
    BY <1>5, <2>1 DEF Check, Execute
  <2> QED
    BY <1>0, <1>1, <2>2
<1> QED
  BY <1>2, <1>3, <1>4, <1>5

\* A version is recorded by a run or by what is left of one.
LEMMA RecordInOrder ==
    ASSUME Typed, OneAtWork, OneAfterTheOther, (\E p \in Runner : Record(p)) \/ OrphanEnds
    PROVE  OneAfterTheOther' /\ \A v \in recorded' \ recorded : recorded' = 1..v
<1> USE VersionsAreNumbers DEF Typed, TypeOK, OneAfterTheOther, PC, Holding
<1>1. ASSUME NEW p \in Runner, Record(p)
      PROVE OneAfterTheOther' /\ \A v \in recorded' \ recorded : recorded' = 1..v
  <2> DEFINE v == runner[p].version
  <2>1. v \in Version /\ recorded = 1..(v - 1) /\ recorded' = recorded \cup {v}
    BY <1>1 DEF Record
  <2>2. runner'[p].pc = "apply" /\ runner'[p].version = v + 1 /\ orphan' = orphan
    BY <1>1 DEF Record
  <2>3. orphan = NoOrphan /\ \A q \in Runner : q # p => runner'[q] = runner[q] /\ runner[q].pc \notin Holding
    BY <1>1, RunnerAssumption DEF Record, OneAtWork
  <2>4. recorded' = 1..v /\ v \in 0..Latest /\ runner'[p].version - 1 = v
    BY <2>1, <2>2
  <2>5. \A u \in recorded' \ recorded : u = v
    BY <2>1
  <2>6. \A q \in Runner : OneAfterTheOther!2!(q)'
    BY <2>2, <2>3, <2>4
  <2> QED
    BY <2>2, <2>3, <2>4, <2>5, <2>6
<1>2. CASE OrphanEnds
  <2> DEFINE v == orphan[1]
  <2>1. v \in Version /\ recorded = 1..(v - 1) /\ (recorded' = recorded \/ recorded' = recorded \cup {v})
    BY <1>2 DEF OrphanEnds
  <2>2. runner' = runner /\ orphan' = NoOrphan
    BY <1>2 DEF OrphanEnds
  <2>3. \A q \in Runner : runner[q].pc \notin Holding
    BY <1>2, RunnerAssumption DEF OrphanEnds, OneAtWork
  <2>4. \A q \in Runner : runner'[q].pc = "waiting" => runner'[q].version = 1
    BY <2>2
  <2>5. OneAfterTheOther' /\ \A u \in recorded' \ recorded : recorded' = 1..u
    <3>1. CASE recorded' = recorded
      BY <2>2, <2>3, <3>1
    <3>2. CASE recorded' = recorded \cup {v}
      <4>1. recorded' = 1..v /\ v \in 0..Latest /\ \A u \in recorded' \ recorded : u = v
        BY <2>1, <3>2
      <4> HIDE DEF v
      <4> QED
        BY <2>2, <2>3, <2>4, <4>1
    <3> QED
      BY <2>1, <3>1, <3>2
  <2> QED
    BY <2>5
<1> QED
  BY <1>1, <1>2

\* A run that is cut short leaves what it was applying to the server.
LEMMA CutInOrder ==
    ASSUME Typed, OneAtWork, OneAfterTheOther, NEW p \in Runner, Interrupt(p)
    PROVE  OneAfterTheOther' /\ recorded' = recorded
<1> USE VersionsAreNumbers DEF Typed, TypeOK, OneAfterTheOther, PC, Holding, Goto
<1>1. runner'[p].pc = "down" /\ recorded' = recorded /\ \A q \in Runner : q # p => runner'[q] = runner[q]
  BY DEF Interrupt
<1>2. orphan' # NoOrphan => recorded = 1..(orphan'[1] - 1)
  BY DEF Interrupt
<1> QED
  BY <1>1, <1>2

\* The three parts of what holds at every step.
LEMMA RunsKeepOrder == Spec => [](Typed /\ OneAtWork /\ OneAfterTheOther)
<1>1. Init => Typed /\ OneAtWork /\ OneAfterTheOther
  BY InitAtWork, InitInOrder
<1>2. Typed /\ OneAtWork /\ OneAfterTheOther /\ [Next]_vars => Typed' /\ OneAtWork' /\ OneAfterTheOther'
  <2> SUFFICES ASSUME Typed, OneAtWork, OneAfterTheOther, [Next]_vars
               PROVE  Typed' /\ OneAtWork' /\ OneAfterTheOther'
    OBVIOUS
  <2>1. Typed' /\ OneAtWork'
    BY WorkIsTakenInTurn
  <2>2. ASSUME NEW p \in Runner, Start(p) \/ Step(p) \/ LockTimeout(p) PROVE OneAfterTheOther'
    BY <2>2, RunInOrder, RecordInOrder DEF Step
  <2>3. ASSUME NEW p \in Runner, Interrupt(p) PROVE OneAfterTheOther'
    BY <2>3, CutInOrder
  <2>4. CASE OrphanEnds
    BY <2>1, <2>4, RecordInOrder
  <2>5. CASE UNCHANGED vars
    BY <2>1, <2>5 DEF vars, OneAfterTheOther
  <2> QED
    BY <2>1, <2>2, <2>3, <2>4, <2>5 DEF Next
<1> QED
  BY <1>1, <1>2, PTL DEF Spec

\* No version is recorded before those ahead of it in the list, by whichever
\* run and however many of them were cut short.
THEOREM VersionsAreInOrder == Spec => VersionsInOrder
<1> DEFINE A == \A v \in recorded' \ recorded : recorded' = 1..v
<1>1. Typed /\ OneAtWork /\ OneAfterTheOther /\ [Next]_vars => [A]_vars
  <2> SUFFICES ASSUME Typed, OneAtWork, OneAfterTheOther, Next PROVE A
    OBVIOUS
  <2>1. ASSUME NEW p \in Runner, Start(p) \/ LockTimeout(p) PROVE recorded' = recorded
    BY <2>1 DEF Start, LockTimeout
  <2>2. ASSUME NEW p \in Runner, Step(p), ~Record(p) PROVE recorded' = recorded
    BY <2>2 DEF Step, acquireLock, apply, Finish, Check, Execute, Refuse
  <2>3. ASSUME NEW p \in Runner, Interrupt(p) PROVE recorded' = recorded
    BY <2>3, CutInOrder
  <2>4. CASE (\E p \in Runner : Record(p)) \/ OrphanEnds
    BY <2>4, RecordInOrder
  <2> QED
    BY <2>1, <2>2, <2>3, <2>4 DEF Next
<1> QED
  BY <1>1, RunsKeepOrder, PTL DEF VersionsInOrder, Spec

---------------------------------------------------------------------------
(* What a statement may meet *)

\* Objects that no upgrade takes away again
Lasting ==
    {"email_queue", "PRIMARY(id)", "email_queue.id", "mail_keys",
     "event_change_orders.next_attempt_at", "event_refund_rights.next_attempt_at"}

\* Objects that are made together with others
Accompanied == {"email_queue", "ix_event_change_due", "ix_event_refund_due"}

\* What a statement may do to a schema without making a later look mean
\* less than it says: what lasts stays, the old primary key goes only when
\* the new one comes, and what belongs together comes together.
Sound(s) ==
    /\ s.drops \cap Lasting = {}
    /\ "PRIMARY(order_id)" \in s.drops => "PRIMARY(id)" \in s.makes
    /\ "email_queue" \in s.makes => "PRIMARY(order_id)" \in s.makes
    /\ "ix_event_change_due" \in s.makes => "event_change_orders.next_attempt_at" \in s.makes
    /\ "ix_event_refund_due" \in s.makes => "event_refund_rights.next_attempt_at" \in s.makes

\* A statement that no schema makes fail: what it needs, the runner has
\* looked for, and what it would clash with, too.
Repeatable(s) ==
    /\ Sound(s)
    /\ s.needs \subseteq s.onlyIf
    /\ s.tolerant \/ s.clash = {} \/ \E o : s.clash = {o} /\ s.unless = {o}

\* Statements of which each is sound, or repeatable
AllSound(q) == \E S : q \in Seq(S) /\ \A s \in S : Sound(s)
AllRepeatable(q) == \E S : q \in Seq(S) /\ \A s \in S : Repeatable(s)

\* To add one thing that is missing
LEMMA AddMissingRepeatable ==
    ASSUME NEW o, o \notin Accompanied
    PROVE  Repeatable(AddMissing({o}))
BY DEF AddMissing, Add, Nothing, Repeatable, Sound, Accompanied

\* CREATE TABLE IF NOT EXISTS
LEMMA TableRepeatable ==
    ASSUME NEW name, NEW parts, ({name} \cup parts) \cap Accompanied = {}
    PROVE  Repeatable(Table(name, parts))
BY DEF Table, Nothing, Repeatable, Sound, Accompanied

\* To fill rows in
LEMMA FillRepeatable ==
    ASSUME NEW rows, rows \notin Accompanied
    PROVE  Repeatable(Fill(rows))
BY DEF Fill, Nothing, Repeatable, Sound, Accompanied

\* MODIFY to the last of several forms
LEMMA ModifyRepeatable ==
    ASSUME NEW F, F \cap (Accompanied \cup Lasting \cup {"PRIMARY(order_id)"}) = {},
           NEW forms \in Seq(F), forms # <<>>
    PROVE  Repeatable(Modify(forms))
<1> DEFINE drops == {forms[i] : i \in 1..(Len(forms) - 1)}
           makes == {Last(forms)}
<1>1. Len(forms) \in Nat /\ Len(forms) > 0 /\ \A i \in 1..Len(forms) : forms[i] \in F
  OBVIOUS
<1>2. drops \subseteq F
  BY <1>1
<1>3. makes \subseteq F
  BY <1>1 DEF Last
<1>4. Modify(forms) = [Nothing EXCEPT !.drops = drops, !.makes = makes]
  BY DEF Modify
<1> HIDE DEF drops, makes
<1> QED
  BY <1>2, <1>3, <1>4 DEF Nothing, Repeatable, Sound, Accompanied

\* Several tables, or several additions with a look before each
LEMMA EachRepeatable ==
    ASSUME NEW N, N \cap Accompanied = {}, NEW names \in Seq(N)
    PROVE  AllRepeatable(Tables(names)) /\ AllRepeatable(AddEach(names))
<1> DEFINE T == {Table(name, {}) : name \in N}
           A == {AddMissing({name}) : name \in N}
<1>1. DOMAIN names = 1..Len(names) /\ Len(names) \in Nat /\ \A i \in 1..Len(names) : names[i] \in N
  OBVIOUS
<1>2. Tables(names) \in [1..Len(names) -> T] /\ AddEach(names) \in [1..Len(names) -> A]
  BY <1>1 DEF Tables, AddEach
<1>3. Tables(names) \in Seq(T) /\ AddEach(names) \in Seq(A)
  <2> HIDE DEF T, A
  <2> QED
    BY <1>1, <1>2
<1>4. (\A s \in T : Repeatable(s)) /\ (\A s \in A : Repeatable(s))
  BY TableRepeatable, AddMissingRepeatable
<1> QED
  BY <1>3, <1>4 DEF AllRepeatable

\* A repeatable statement is sound.
LEMMA RepeatableSound ==
    ASSUME NEW q, AllRepeatable(q)
    PROVE  AllSound(q)
BY DEF AllRepeatable, AllSound, Repeatable

\* What holds of all statements holds of the one at each place.
LEMMA EachOfAll ==
    ASSUME NEW q
    PROVE  /\ AllSound(q) => /\ Len(q) \in Nat /\ (q = <<>> <=> Len(q) = 0)
                             /\ \A i \in 1..Len(q) : Sound(q[i])
           /\ AllRepeatable(q) => \A i \in 1..Len(q) : Repeatable(q[i])
<1>1. ASSUME NEW S, q \in Seq(S)
      PROVE  Len(q) \in Nat /\ (q = <<>> <=> Len(q) = 0) /\ \A i \in 1..Len(q) : q[i] \in S
  BY <1>1
<1> QED
  BY <1>1 DEF AllSound, AllRepeatable

\* A single statement
LEMMA SingleStatement ==
    ASSUME NEW s
    PROVE  (Sound(s) => AllSound(<<s>>)) /\ (Repeatable(s) => AllRepeatable(<<s>>))
<1> DEFINE S == {s}
<1>1. <<s>> \in Seq(S) /\ \A t \in S : t = s
  OBVIOUS
<1> HIDE DEF S
<1> QED
  BY <1>1 DEF AllSound, AllRepeatable

\* Statements followed by others
LEMMA StatementsJoined ==
    ASSUME NEW q, NEW r
    PROVE  /\ AllSound(q) /\ AllSound(r) => AllSound(q \o r)
           /\ AllRepeatable(q) /\ AllRepeatable(r) => AllRepeatable(q \o r)
<1>1. ASSUME NEW S, NEW T, q \in Seq(S), r \in Seq(T) PROVE q \o r \in Seq(S \cup T)
  <2>1. q \in Seq(S \cup T) /\ r \in Seq(S \cup T)
    BY <1>1
  <2> QED
    BY <2>1
<1>2. ASSUME AllSound(q), AllSound(r) PROVE AllSound(q \o r)
  <2>1. PICK S : q \in Seq(S) /\ \A s \in S : Sound(s)
    BY <1>2 DEF AllSound
  <2>2. PICK T : r \in Seq(T) /\ \A s \in T : Sound(s)
    BY <1>2 DEF AllSound
  <2>3. q \o r \in Seq(S \cup T) /\ \A s \in S \cup T : Sound(s)
    BY <1>1, <2>1, <2>2
  <2> QED
    BY <2>3 DEF AllSound
<1>3. ASSUME AllRepeatable(q), AllRepeatable(r) PROVE AllRepeatable(q \o r)
  <2>1. PICK S : q \in Seq(S) /\ \A s \in S : Repeatable(s)
    BY <1>3 DEF AllRepeatable
  <2>2. PICK T : r \in Seq(T) /\ \A s \in T : Repeatable(s)
    BY <1>3 DEF AllRepeatable
  <2>3. q \o r \in Seq(S \cup T) /\ \A s \in S \cup T : Repeatable(s)
    BY <1>1, <2>1, <2>2
  <2> QED
    BY <2>3 DEF AllRepeatable
<1> QED
  BY <1>2, <1>3

---------------------------------------------------------------------------
(* The statements of each version *)

\* The number of upgrades
LEMMA TwentyNineVersions == Latest = 29
BY DEF Latest, Script

\* Upgrades made of nothing but tables, or of looked-for additions
LEMMA SimpleVersions ==
    /\ AllRepeatable(Tables(<<"payments">>))
    /\ AllRepeatable(Tables(<<"order_attendees", "etickets">>))
    /\ AllRepeatable(Tables(<<"staff_users", "staff_sessions", "staff_assignments">>))
    /\ AllRepeatable(Tables(<<"ticket_checkins">>))
    /\ AllRepeatable(Tables(<<"admin_audit_log">>))
    /\ AllRepeatable(resumeAdminOrders)
    /\ AllRepeatable(resumeAdminIssues)
    /\ AllRepeatable(resumeRefundQueue)
    /\ AllRepeatable(resumeAdminSalesReports)
    /\ AllRepeatable(resumeAdminAttendanceReports)
<1> DEFINE P == {"payments"}
           E == {"order_attendees", "etickets"}
           F == {"staff_users", "staff_sessions", "staff_assignments"}
           C == {"ticket_checkins"}
           L == {"admin_audit_log"}
           O == {"idx_orders_admin_created"}
           I == {"cases.reason", "cases.last_checked_at", "cases.last_check_error", "cases.check_token",
                 "cases.check_lease_until", "email_queue.superseded_by", "ix_email_queue_admin_failed"}
           Q == {"order_refunds.next_attempt_at", "order_refunds.last_checked_at",
                 "order_refunds.last_check_error", "order_refunds.claim_token",
                 "order_refunds.lease_until", "order_refunds.retry_deadline", "ix_order_refunds_due"}
           R == {"ix_payments_admin_sales", "ix_order_refunds_admin_sales"}
           A == {"ix_ticket_checkins_admin_attendance"}
<1>1. \A N \in {P, E, F, C, L, O, I, Q, R, A} : N \cap Accompanied = {}
  BY DEF Accompanied
<1>2. <<"payments">> \in Seq(P) /\ <<"order_attendees", "etickets">> \in Seq(E)
      /\ <<"staff_users", "staff_sessions", "staff_assignments">> \in Seq(F)
      /\ <<"ticket_checkins">> \in Seq(C) /\ <<"admin_audit_log">> \in Seq(L)
  OBVIOUS
<1>3. AllRepeatable(Tables(<<"payments">>))
  BY <1>1, <1>2, EachRepeatable
<1>4. AllRepeatable(Tables(<<"order_attendees", "etickets">>))
  BY <1>1, <1>2, EachRepeatable
<1>5. AllRepeatable(Tables(<<"staff_users", "staff_sessions", "staff_assignments">>))
  BY <1>1, <1>2, EachRepeatable
<1>6. AllRepeatable(Tables(<<"ticket_checkins">>))
  BY <1>1, <1>2, EachRepeatable
<1>7. AllRepeatable(Tables(<<"admin_audit_log">>))
  BY <1>1, <1>2, EachRepeatable
<1>8. AllRepeatable(resumeAdminOrders)
  <2>1. <<"idx_orders_admin_created">> \in Seq(O)
    OBVIOUS
  <2> QED
    BY <1>1, <2>1, EachRepeatable DEF resumeAdminOrders
<1>9. AllRepeatable(resumeAdminIssues)
  <2>1. <<"cases.reason", "cases.last_checked_at", "cases.last_check_error", "cases.check_token",
          "cases.check_lease_until", "email_queue.superseded_by", "ix_email_queue_admin_failed">> \in Seq(I)
    OBVIOUS
  <2> QED
    BY <1>1, <2>1, EachRepeatable DEF resumeAdminIssues
<1>10. AllRepeatable(resumeRefundQueue)
  <2>1. <<"order_refunds.next_attempt_at", "order_refunds.last_checked_at",
          "order_refunds.last_check_error", "order_refunds.claim_token",
          "order_refunds.lease_until", "order_refunds.retry_deadline", "ix_order_refunds_due">> \in Seq(Q)
    OBVIOUS
  <2> QED
    BY <1>1, <2>1, EachRepeatable DEF resumeRefundQueue
<1>11. AllRepeatable(resumeAdminSalesReports)
  <2>1. <<"ix_payments_admin_sales", "ix_order_refunds_admin_sales">> \in Seq(R)
    OBVIOUS
  <2> QED
    BY <1>1, <2>1, EachRepeatable DEF resumeAdminSalesReports
<1>12. AllRepeatable(resumeAdminAttendanceReports)
  <2>1. <<"ix_ticket_checkins_admin_attendance">> \in Seq(A)
    OBVIOUS
  <2> QED
    BY <1>1, <2>1, EachRepeatable DEF resumeAdminAttendanceReports
<1> QED
  BY <1>3, <1>4, <1>5, <1>6, <1>7, <1>8, <1>9, <1>10, <1>11, <1>12

\* Upgrades of several kinds of repeatable statements
LEMMA RepeatableVersions ==
    /\ AllRepeatable(Initial) /\ AllRepeatable(<<>>) /\ AllRepeatable(EmailQueue)
    /\ AllRepeatable(resumeEventPublication) /\ AllRepeatable(resumeAdminCatalog)
    /\ AllRepeatable(resumePaymentEnvironment) /\ AllRepeatable(Pricing)
    /\ AllRepeatable(OptionalIdentity)
<1>1. AllRepeatable(Initial)
  <2> DEFINE S == {Table("events", {}), Table("event_zones", {}), Table("event_lineups", {}),
                   Table("ticket_tiers", {"chk_ticket_tiers_capacity", CapacityCheck[1]}),
                   Table("reservations", {}), Table("reservation_items", {})}
  <2>1. \A s \in S : Repeatable(s)
    BY TableRepeatable DEF Accompanied, CapacityCheck
  <2>2. Initial \in Seq(S)
    BY DEF Initial
  <2> HIDE DEF S
  <2> QED
    BY <2>1, <2>2 DEF AllRepeatable
<1>2. AllRepeatable(<<>>)
  <2> DEFINE S == {}
  <2>1. <<>> \in Seq(S) /\ \A s \in S : Repeatable(s)
    OBVIOUS
  <2> HIDE DEF S
  <2> QED
    BY <2>1 DEF AllRepeatable
<1>3. AllRepeatable(EmailQueue)
  <2>1. Repeatable(Table("email_queue", {"PRIMARY(order_id)", "fk_email_queue_order"}))
    BY DEF Table, Nothing, Repeatable, Sound
  <2> QED
    BY <2>1, SingleStatement DEF EmailQueue
<1>4. AllRepeatable(resumeEventPublication)
  <2> DEFINE s == [Nothing EXCEPT !.makes = {"events.publication_status_DEFAULT_DRAFT"}]
             S == {AddMissing({"events.publication_status"}), Fill("events_published"), s}
  <2>1. Repeatable(s)
    BY DEF Nothing, Repeatable, Sound
  <2>2. \A t \in S : Repeatable(t)
    BY <2>1, AddMissingRepeatable, FillRepeatable DEF Accompanied
  <2>3. resumeEventPublication \in Seq(S)
    BY DEF resumeEventPublication
  <2> HIDE DEF S
  <2> QED
    BY <2>2, <2>3 DEF AllRepeatable
<1>5. AllRepeatable(resumeAdminCatalog)
  <2> DEFINE a == [Nothing EXCEPT !.unless = {"events.starts_at_NULL"}, !.makes = {"events.starts_at_NULL"}]
             b == [Nothing EXCEPT !.onlyIf = {"chk_ticket_tiers_capacity"},
                      !.needs = {"chk_ticket_tiers_capacity"},
                      !.drops = {"chk_ticket_tiers_capacity"} \cup Range(CapacityCheck)]
             c == [Nothing EXCEPT !.clash = {"chk_ticket_tiers_capacity"}, !.tolerant = TRUE,
                      !.makes = {"chk_ticket_tiers_capacity", CapacityCheck[2]}]
             S == {a, b, c, Fill("incomplete_events_in_draft")}
  <2>0. Range(CapacityCheck) = {"chk_ticket_tiers_capacity@1", "chk_ticket_tiers_capacity@16"}
    BY DEF CapacityCheck, Range
  <2>1. Repeatable(a)
    BY DEF Nothing, Repeatable, Sound
  <2>2. Repeatable(b)
    BY <2>0 DEF Nothing, Repeatable, Sound, Lasting
  <2>3. Repeatable(c)
    BY DEF Nothing, Repeatable, Sound, CapacityCheck
  <2>4. Repeatable(Fill("incomplete_events_in_draft"))
    BY FillRepeatable DEF Accompanied
  <2>5. resumeAdminCatalog \in Seq(S)
    BY DEF resumeAdminCatalog
  <2> HIDE DEF a, b, c
  <2>6. \A s \in S : Repeatable(s)
    BY <2>1, <2>2, <2>3, <2>4
  <2> HIDE DEF S
  <2> QED
    BY <2>5, <2>6 DEF AllRepeatable
<1>6. AllRepeatable(resumePaymentEnvironment)
  <2> DEFINE S == {Table("payment_environment", {}), Fill("environment_of_old_payments")}
  <2>1. \A s \in S : Repeatable(s)
    BY TableRepeatable, FillRepeatable DEF Accompanied
  <2>2. resumePaymentEnvironment \in Seq(S)
    BY DEF resumePaymentEnvironment
  <2> HIDE DEF S
  <2> QED
    BY <2>1, <2>2 DEF AllRepeatable
<1>7. AllRepeatable(Pricing)
  <2> DEFINE S == {Table("checkout_settings", {}), Fill("admin_fee"), Table("vouchers", {}),
                   Fill("HEMAT10"), Table("order_vouchers", {}), Fill("uses_of_HEMAT10")}
  <2>1. \A s \in S : Repeatable(s)
    BY TableRepeatable, FillRepeatable DEF Accompanied
  <2>2. Pricing \in Seq(S)
    BY DEF Pricing
  <2> HIDE DEF S
  <2> QED
    BY <2>1, <2>2 DEF AllRepeatable
<1>8. AllRepeatable(OptionalIdentity)
  <2> DEFINE F == {"chk_order_buyers_identity@4", "chk_order_buyers_identity@29"}
  <2>1. IdentityCheck \in Seq(F) /\ IdentityCheck # <<>>
    BY DEF IdentityCheck
  <2>2. Repeatable(Modify(IdentityCheck))
    BY <2>1, ModifyRepeatable DEF Accompanied, Lasting
  <2> QED
    BY <2>2, SingleStatement DEF OptionalIdentity
<1> QED
  BY <1>1, <1>2, <1>3, <1>4, <1>5, <1>6, <1>7, <1>8

\* Upgrades that create tables and then do something else
LEMMA JoinedVersions ==
    AllRepeatable(Orders) /\ AllRepeatable(CheckinAttempts) /\ AllRepeatable(resumeConversion)
<1>1. AllRepeatable(Orders)
  <2> DEFINE N == {"orders", "order_items"}
             s == Table("order_buyers", {IdentityCheck[1]})
  <2>1. <<"orders", "order_items">> \in Seq(N) /\ N \cap Accompanied = {}
    BY DEF Accompanied
  <2>2. AllRepeatable(Tables(<<"orders", "order_items">>))
    BY <2>1, EachRepeatable
  <2>3. AllRepeatable(<<s>>)
    BY SingleStatement, TableRepeatable DEF Accompanied, IdentityCheck
  <2> QED
    BY <2>2, <2>3, StatementsJoined DEF Orders
<1>2. AllRepeatable(CheckinAttempts)
  <2> DEFINE N == {"checkin_attempts"}
  <2>1. <<"checkin_attempts">> \in Seq(N) /\ N \cap Accompanied = {}
    BY DEF Accompanied
  <2>2. AllRepeatable(Tables(<<"checkin_attempts">>))
    BY <2>1, EachRepeatable
  <2>3. AllRepeatable(<<Fill("first_checkin_attempts")>>)
    BY SingleStatement, FillRepeatable DEF Accompanied
  <2> QED
    BY <2>2, <2>3, StatementsJoined DEF CheckinAttempts
<1>3. AllRepeatable(resumeConversion)
  <2> DEFINE N == {"conversion_journeys", "conversion_reservations", "conversion_events"}
             M == {"payments.started_at"}
  <2>1. <<"conversion_journeys", "conversion_reservations", "conversion_events">> \in Seq(N)
        /\ <<"payments.started_at">> \in Seq(M)
        /\ N \cap Accompanied = {} /\ M \cap Accompanied = {}
    BY DEF Accompanied
  <2>2. AllRepeatable(Tables(<<"conversion_journeys", "conversion_reservations", "conversion_events">>))
    BY <2>1, EachRepeatable
  <2>3. AllRepeatable(AddEach(<<"payments.started_at">>))
    BY <2>1, EachRepeatable
  <2> QED
    BY <2>2, <2>3, StatementsJoined DEF resumeConversion
<1> QED
  BY <1>1, <1>2, <1>3

\* An addition without a look is sound, though it cannot be repeated.
LEMMA AddSound ==
    ASSUME NEW F, F \cap Accompanied = {}
    PROVE  Sound(Add(F))
BY DEF Add, Nothing, Sound, Accompanied

\* The constraint on the target of a mail is dropped after a look; it is
\* added without one.
LEMMA TargetSound ==
    /\ Repeatable(DropTarget) /\ \A n \in 1..3 : Sound(AddTarget(n))
<1>1. Range(MailTarget) = {"chk_email_queue_target@14", "chk_email_queue_target@21", "chk_email_queue_target@26"}
  BY DEF MailTarget, Range
<1>2. Repeatable(DropTarget)
  BY <1>1 DEF DropTarget, Nothing, Repeatable, Sound, Lasting
<1>3. \A n \in 1..3 : Sound(AddTarget(n))
  BY DEF AddTarget, Nothing, Sound, MailTarget
<1> QED
  BY <1>2, <1>3

\* The four upgrades that are not repeatable
LEMMA OnceSound ==
    /\ AllSound(ReservationConversion) /\ AllSound(OrderIdempotency)
    /\ AllSound(OrderExpiry) /\ AllSound(MidtransSnap)
<1>1. AllSound(ReservationConversion)
  BY SingleStatement, AddSound DEF ReservationConversion, Accompanied
<1>2. AllSound(OrderIdempotency)
  BY SingleStatement, AddSound DEF OrderIdempotency, Accompanied
<1>3. AllSound(OrderExpiry)
  <2> DEFINE a == Add({"orders.expires_at"})
             b == Fill("order_deadlines")
             c == [Add({"idx_orders_expiry"}) EXCEPT !.needs = {"order_deadlines"},
                                                    !.makes = @ \cup {"orders.expires_at_NOT_NULL"}]
             S == {a, b, c}
  <2>1. OrderExpiry \in Seq(S)
    BY DEF OrderExpiry
  <2>2. Sound(a) /\ Sound(b)
    BY AddSound, FillRepeatable DEF Repeatable, Accompanied
  <2>3. Sound(c)
    BY DEF Add, Nothing, Sound
  <2> HIDE DEF a, b, c
  <2>4. \A s \in S : Sound(s)
    BY <2>2, <2>3
  <2> HIDE DEF S
  <2> QED
    BY <2>1, <2>4 DEF AllSound
<1>4. AllSound(MidtransSnap)
  <2> DEFINE a == [Add({"payments.gateway_order_id", "payments.gateway_reference", "payments.redirect_url",
                        "uq_payments_gateway_order_id", "uq_payments_gateway_reference"})
                      EXCEPT !.makes = @ \cup {"payments.status_PENDING"}]
             b == Add({"payment_reconciliation_cases"})
             S == {a, b}
  <2>1. MidtransSnap \in Seq(S)
    BY DEF MidtransSnap
  <2>2. Sound(b)
    BY AddSound DEF Accompanied
  <2>3. Sound(a)
    BY DEF Add, Nothing, Sound
  <2> HIDE DEF a, b
  <2>4. \A s \in S : Sound(s)
    BY <2>2, <2>3
  <2> HIDE DEF S
  <2> QED
    BY <2>1, <2>4 DEF AllSound
<1> QED
  BY <1>1, <1>2, <1>3, <1>4

\* The statements of resumeRecovery, by name
RememberKey == [Nothing EXCEPT !.remember = {"PRIMARY(id)"}]
DropForeignKey ==
    [Nothing EXCEPT !.unlessRemembered = {"PRIMARY(id)"}, !.onlyIf = {"fk_email_queue_order"},
                    !.needs = {"fk_email_queue_order"}, !.drops = {"fk_email_queue_order"}]
RequireKeys == [Nothing EXCEPT !.needs = {"mail_keys"}]
ChangeKey ==
    [Nothing EXCEPT !.unlessRemembered = {"PRIMARY(id)"},
                    !.needs = {"email_queue.id", "PRIMARY(order_id)"},
                    !.clash = {"fk_email_queue_order", "PRIMARY(id)"},
                    !.drops = {"PRIMARY(order_id)"},
                    !.makes = {"PRIMARY(id)", "email_queue.id_NOT_NULL"}]
FreeOrder == [AddMissing({"email_queue.order_id_NULL"}) EXCEPT !.needs = {"PRIMARY(id)"}]
FirstTarget == [AddTarget(1) EXCEPT !.unless = {"chk_email_queue_target"}]

\* resumeRecovery in parts
RecoveryTables == Tables(<<"recovery_requests", "recovery_tokens", "rate_limits">>)
RecoveryLook == <<RememberKey, DropForeignKey>>
RecoveryColumns ==
    AddEach(<<"email_queue.id", MailKind[1], "email_queue.dedupe_key",
              "email_queue.recovery_request_id">>)
RecoveryKey ==
    <<Fill("mail_keys"), RequireKeys, ChangeKey, AddMissing({"email_queue.id_NOT_NULL"}),
      AddMissing({"email_queue.dedupe_key_NOT_NULL"}), FreeOrder>>
RecoveryIndexes ==
    AddEach(<<"uq_email_queue_dedupe", "ix_email_queue_order", "ix_email_queue_recovery">>)
RecoveryForeignKeys == AddEach(<<"fk_email_queue_order", "fk_email_queue_recovery">>)

\* Each part of resumeRecovery is sound.
LEMMA RecoveryPartsSound ==
    /\ AllSound(RecoveryTables) /\ AllSound(RecoveryLook) /\ AllSound(RecoveryColumns)
    /\ AllSound(RecoveryKey) /\ AllSound(RecoveryIndexes) /\ AllSound(RecoveryForeignKeys)
    /\ AllSound(<<FirstTarget>>)
<1> DEFINE T == {"recovery_requests", "recovery_tokens", "rate_limits"}
           C == {"email_queue.id", MailKind[1], "email_queue.dedupe_key", "email_queue.recovery_request_id"}
           K == {"uq_email_queue_dedupe", "ix_email_queue_order", "ix_email_queue_recovery"}
           F == {"fk_email_queue_order", "fk_email_queue_recovery"}
<1>1. AllSound(RecoveryTables)
  <2>1. <<"recovery_requests", "recovery_tokens", "rate_limits">> \in Seq(T) /\ T \cap Accompanied = {}
    BY DEF Accompanied
  <2> QED
    BY <2>1, EachRepeatable, RepeatableSound DEF RecoveryTables
<1>2. AllSound(RecoveryLook)
  <2> DEFINE S == {RememberKey, DropForeignKey}
  <2>1. Sound(RememberKey) /\ Sound(DropForeignKey)
    BY DEF RememberKey, DropForeignKey, Nothing, Sound, Lasting
  <2>2. RecoveryLook \in Seq(S) /\ \A s \in S : Sound(s)
    BY <2>1 DEF RecoveryLook
  <2> HIDE DEF S
  <2> QED
    BY <2>2 DEF AllSound
<1>3. AllSound(RecoveryColumns)
  <2>1. <<"email_queue.id", MailKind[1], "email_queue.dedupe_key",
          "email_queue.recovery_request_id">> \in Seq(C) /\ C \cap Accompanied = {}
    BY DEF Accompanied, MailKind
  <2> QED
    BY <2>1, EachRepeatable, RepeatableSound DEF RecoveryColumns
<1>4. AllSound(RecoveryKey)
  <2> DEFINE S == {Fill("mail_keys"), RequireKeys, ChangeKey, AddMissing({"email_queue.id_NOT_NULL"}),
                   AddMissing({"email_queue.dedupe_key_NOT_NULL"}), FreeOrder}
  <2>1. Sound(RequireKeys)
    BY DEF RequireKeys, Nothing, Sound
  <2>2. Sound(ChangeKey)
    BY DEF ChangeKey, Nothing, Sound, Lasting
  <2>3. Sound(FreeOrder)
    BY DEF FreeOrder, Nothing, Sound, AddMissing, Add
  <2>4. /\ Sound(Fill("mail_keys")) /\ Sound(AddMissing({"email_queue.id_NOT_NULL"}))
        /\ Sound(AddMissing({"email_queue.dedupe_key_NOT_NULL"}))
    BY AddMissingRepeatable, FillRepeatable DEF Repeatable, Accompanied
  <2>5. RecoveryKey \in Seq(S)
    BY DEF RecoveryKey
  <2>6. \A s \in S : Sound(s)
    BY <2>1, <2>2, <2>3, <2>4
  <2> HIDE DEF S
  <2> QED
    BY <2>5, <2>6 DEF AllSound
<1>5. AllSound(RecoveryIndexes)
  <2>1. <<"uq_email_queue_dedupe", "ix_email_queue_order", "ix_email_queue_recovery">> \in Seq(K)
        /\ K \cap Accompanied = {}
    BY DEF Accompanied
  <2> QED
    BY <2>1, EachRepeatable, RepeatableSound DEF RecoveryIndexes
<1>6. AllSound(RecoveryForeignKeys)
  <2>1. <<"fk_email_queue_order", "fk_email_queue_recovery">> \in Seq(F) /\ F \cap Accompanied = {}
    BY DEF Accompanied
  <2> QED
    BY <2>1, EachRepeatable, RepeatableSound DEF RecoveryForeignKeys
<1>7. AllSound(<<FirstTarget>>)
  <2>1. Sound(FirstTarget)
    BY DEF FirstTarget, AddTarget, Nothing, Sound, MailTarget
  <2> QED
    BY <2>1, SingleStatement
<1> QED
  BY <1>1, <1>2, <1>3, <1>4, <1>5, <1>6, <1>7

\* The places of two sequences in their concatenation
OneThenOther(q, r) ==
  /\ Len(q) \in Nat /\ Len(r) \in Nat /\ Len(q \o r) = Len(q) + Len(r)
  /\ \A i \in 1..Len(q) : (q \o r)[i] = q[i]
  /\ \A i \in 1..Len(r) : (q \o r)[Len(q) + i] = r[i]

\* Two runs of statements, one after the other
LEMMA Concatenated ==
    ASSUME NEW q, NEW r, AllSound(q), AllSound(r)
    PROVE  AllSound(q \o r) /\ OneThenOther(q, r)
<1>1. PICK S : q \in Seq(S) /\ \A s \in S : Sound(s)
  BY DEF AllSound
<1>2. PICK T : r \in Seq(T) /\ \A s \in T : Sound(s)
  BY DEF AllSound
<1>3. OneThenOther(q, r)
  BY <1>1, <1>2 DEF OneThenOther
<1> QED
  BY <1>3, StatementsJoined

\* Where the parts of resumeRecovery stand
LEMMA RecoveryParts ==
    /\ AllSound(resumeRecovery) /\ Len(resumeRecovery) = 21
    /\ \A i \in 1..3 : resumeRecovery[i] = RecoveryTables[i]
    /\ \A i \in 1..2 : resumeRecovery[3 + i] = RecoveryLook[i]
    /\ \A i \in 1..4 : resumeRecovery[5 + i] = RecoveryColumns[i]
    /\ \A i \in 1..6 : resumeRecovery[9 + i] = RecoveryKey[i]
    /\ \A i \in 1..3 : resumeRecovery[15 + i] = RecoveryIndexes[i]
    /\ \A i \in 1..2 : resumeRecovery[18 + i] = RecoveryForeignKeys[i]
    /\ resumeRecovery[21] = FirstTarget
<1> DEFINE w2 == RecoveryTables \o RecoveryLook
           w3 == w2 \o RecoveryColumns
           w4 == w3 \o RecoveryKey
           w5 == w4 \o RecoveryIndexes
           w6 == w5 \o RecoveryForeignKeys
           w7 == w6 \o <<FirstTarget>>
<1>1. resumeRecovery = w7
  BY DEF resumeRecovery, RecoveryTables, RecoveryLook, RecoveryColumns, RecoveryKey, RecoveryIndexes,
         RecoveryForeignKeys, FirstTarget, RememberKey, DropForeignKey, RequireKeys, ChangeKey, FreeOrder
<1>2. /\ Len(RecoveryTables) = 3 /\ Len(RecoveryLook) = 2 /\ Len(RecoveryColumns) = 4
      /\ Len(RecoveryKey) = 6 /\ Len(RecoveryIndexes) = 3 /\ Len(RecoveryForeignKeys) = 2
      /\ Len(<<FirstTarget>>) = 1 /\ <<FirstTarget>>[1] = FirstTarget
  BY DEF RecoveryTables, RecoveryLook, RecoveryColumns, RecoveryKey, RecoveryIndexes,
         RecoveryForeignKeys, Tables, AddEach
<1>3. /\ AllSound(w2) /\ Len(w2) = 5 /\ (\A i \in 1..3 : w2[i] = RecoveryTables[i])
      /\ (\A i \in 1..2 : w2[3 + i] = RecoveryLook[i])
  <2>1. AllSound(RecoveryTables \o RecoveryLook) /\ OneThenOther(RecoveryTables, RecoveryLook)
    BY RecoveryPartsSound, Concatenated
  <2> QED
    BY <1>2, <2>1 DEF OneThenOther
<1> HIDE DEF w2
<1>4. /\ AllSound(w3) /\ Len(w3) = 9 /\ (\A i \in 1..5 : w3[i] = w2[i])
      /\ (\A i \in 1..4 : w3[5 + i] = RecoveryColumns[i])
  <2>1. AllSound(w2 \o RecoveryColumns) /\ OneThenOther(w2, RecoveryColumns)
    BY <1>3, RecoveryPartsSound, Concatenated
  <2> QED
    BY <1>2, <1>3, <2>1 DEF OneThenOther
<1> HIDE DEF w3
<1>5. /\ AllSound(w4) /\ Len(w4) = 15 /\ (\A i \in 1..9 : w4[i] = w3[i])
      /\ (\A i \in 1..6 : w4[9 + i] = RecoveryKey[i])
  <2>1. AllSound(w4) /\ OneThenOther(w3, RecoveryKey)
    BY <1>4, RecoveryPartsSound, Concatenated
  <2>2. Len(w3) = 9 /\ Len(RecoveryKey) = 6
    BY <1>2, <1>4
  <2>3. Len(w4) = 15
    BY <2>1, <2>2 DEF OneThenOther
  <2>4. \A i \in 1..9 : w4[i] = w3[i]
    BY <2>1, <2>2 DEF OneThenOther
  <2>5. \A i \in 1..6 : w4[9 + i] = RecoveryKey[i]
    BY <2>1, <2>2 DEF OneThenOther
  <2> QED
    BY <2>1, <2>3, <2>4, <2>5
<1> HIDE DEF w4
<1>6. /\ AllSound(w5) /\ Len(w5) = 18 /\ (\A i \in 1..15 : w5[i] = w4[i])
      /\ (\A i \in 1..3 : w5[15 + i] = RecoveryIndexes[i])
  <2>1. AllSound(w5) /\ OneThenOther(w4, RecoveryIndexes)
    BY <1>5, RecoveryPartsSound, Concatenated
  <2>2. Len(w4) = 15 /\ Len(RecoveryIndexes) = 3
    BY <1>2, <1>5
  <2>3. Len(w5) = 18
    BY <2>1, <2>2 DEF OneThenOther
  <2>4. \A i \in 1..15 : w5[i] = w4[i]
    BY <2>1, <2>2 DEF OneThenOther
  <2>5. \A i \in 1..3 : w5[15 + i] = RecoveryIndexes[i]
    BY <2>1, <2>2 DEF OneThenOther
  <2> QED
    BY <2>1, <2>3, <2>4, <2>5
<1> HIDE DEF w5
<1>7. /\ AllSound(w6) /\ Len(w6) = 20 /\ (\A i \in 1..18 : w6[i] = w5[i])
      /\ (\A i \in 1..2 : w6[18 + i] = RecoveryForeignKeys[i])
  <2>1. AllSound(w6) /\ OneThenOther(w5, RecoveryForeignKeys)
    BY <1>6, RecoveryPartsSound, Concatenated
  <2>2. Len(w5) = 18 /\ Len(RecoveryForeignKeys) = 2
    BY <1>2, <1>6
  <2>3. Len(w6) = 20
    BY <2>1, <2>2 DEF OneThenOther
  <2>4. \A i \in 1..18 : w6[i] = w5[i]
    BY <2>1, <2>2 DEF OneThenOther
  <2>5. \A i \in 1..2 : w6[18 + i] = RecoveryForeignKeys[i]
    BY <2>1, <2>2 DEF OneThenOther
  <2> QED
    BY <2>1, <2>3, <2>4, <2>5
<1> HIDE DEF w6
<1>8. /\ AllSound(w7) /\ Len(w7) = 21 /\ (\A i \in 1..20 : w7[i] = w6[i])
      /\ (\A i \in 1..1 : w7[20 + i] = <<FirstTarget>>[i])
  <2>1. AllSound(w7) /\ OneThenOther(w6, <<FirstTarget>>)
    BY <1>7, RecoveryPartsSound, Concatenated
  <2>2. Len(w6) = 20 /\ Len(<<FirstTarget>>) = 1
    BY <1>2, <1>7
  <2>3. Len(w7) = 21
    BY <2>1, <2>2 DEF OneThenOther
  <2>4. \A i \in 1..20 : w7[i] = w6[i]
    BY <2>1, <2>2 DEF OneThenOther
  <2>5. \A i \in 1..1 : w7[20 + i] = <<FirstTarget>>[i]
    BY <2>1, <2>2 DEF OneThenOther
  <2> QED
    BY <2>1, <2>3, <2>4, <2>5
<1> HIDE DEF w7
<1>9. w7[21] = FirstTarget
  BY <1>2, <1>8
<1>10. \A i \in 1..3 : w7[i] = RecoveryTables[i]
  BY <1>3, <1>4, <1>5, <1>6, <1>7, <1>8
<1>11. \A i \in 1..2 : w7[3 + i] = RecoveryLook[i]
  BY <1>3, <1>4, <1>5, <1>6, <1>7, <1>8
<1>12. \A i \in 1..4 : w7[5 + i] = RecoveryColumns[i]
  BY <1>4, <1>5, <1>6, <1>7, <1>8
<1>13. \A i \in 1..6 : w7[9 + i] = RecoveryKey[i]
  BY <1>5, <1>6, <1>7, <1>8
<1>14. \A i \in 1..3 : w7[15 + i] = RecoveryIndexes[i]
  BY <1>6, <1>7, <1>8
<1>15. \A i \in 1..2 : w7[18 + i] = RecoveryForeignKeys[i]
  BY <1>7, <1>8
<1> QED
  BY <1>1, <1>8, <1>9, <1>10, <1>11, <1>12, <1>13, <1>14, <1>15

\* The changes of an ENUM, of a mail or of a refund
LEMMA FormsSound ==
    /\ Repeatable(Modify(Upto(MailKind, 2))) /\ Repeatable(Modify(MailKind))
    /\ Repeatable(Modify(RefundStatus))
<1> DEFINE K == {"email_queue.kind@14", "email_queue.kind@21", "email_queue.kind@26"}
           R == {"order_refunds.status@21", "order_refunds.status@26"}
<1>1. MailKind \in Seq(K) /\ MailKind # <<>> /\ Len(MailKind) = 3
  BY DEF MailKind
<1>2. RefundStatus \in Seq(R) /\ RefundStatus # <<>>
  BY DEF RefundStatus
<1>3. Upto(MailKind, 2) \in Seq(K) /\ Upto(MailKind, 2) # <<>>
  <2>1. Upto(MailKind, 2) = SubSeq(MailKind, 1, 2)
    BY DEF Upto
  <2>2. SubSeq(MailKind, 1, 2) \in Seq(K) /\ Len(SubSeq(MailKind, 1, 2)) = 2
    BY <1>1, SubSeqProperties
  <2>3. Len(<<>>) = 0
    OBVIOUS
  <2> DEFINE u == Upto(MailKind, 2)
  <2>4. u \in Seq(K) /\ Len(u) = 2
    BY <2>1, <2>2
  <2> HIDE DEF K, u
  <2>5. u # <<>>
    BY <2>3, <2>4
  <2> QED
    BY <2>4, <2>5 DEF u
<1>4. K \cap (Accompanied \cup Lasting \cup {"PRIMARY(order_id)"}) = {}
      /\ R \cap (Accompanied \cup Lasting \cup {"PRIMARY(order_id)"}) = {}
  BY DEF Accompanied, Lasting
<1> HIDE DEF K, R
<1> QED
  BY <1>1, <1>2, <1>3, <1>4, ModifyRepeatable

\* resumeRefunds is sound.
LEMMA RefundsSound == AllSound(resumeRefunds)
<1> DEFINE a == [Nothing EXCEPT !.makes = {"orders.status_REFUNDED"}]
           b == [DropTarget EXCEPT !.enough = RefundTarget]
           S == {a, Table("order_refunds", {RefundStatus[1]}), Table("order_refund_audit", {}),
                 AddMissing({"email_queue.refund_snapshot"}), Modify(Upto(MailKind, 2)), b, AddTarget(2)}
<1>1. resumeRefunds \in Seq(S)
  BY DEF resumeRefunds
<1>2. Sound(a)
  BY DEF Nothing, Sound
<1>3. Sound(b)
  BY TargetSound DEF DropTarget, Nothing, Repeatable, Sound
<1>4. Sound(Table("order_refunds", {RefundStatus[1]})) /\ Sound(Table("order_refund_audit", {}))
  BY TableRepeatable DEF Repeatable, Accompanied, RefundStatus
<1>5. Sound(AddMissing({"email_queue.refund_snapshot"}))
  BY AddMissingRepeatable DEF Repeatable, Accompanied
<1>6. Sound(Modify(Upto(MailKind, 2))) /\ Sound(AddTarget(2))
  BY FormsSound, TargetSound DEF Repeatable
<1> HIDE DEF a, b
<1>7. \A s \in S : Sound(s)
  BY <1>2, <1>3, <1>4, <1>5, <1>6
<1> HIDE DEF S
<1> QED
  BY <1>1, <1>7 DEF AllSound

\* resumeEventChanges in two parts: the columns, then the statements of the
\* file
Made(object) == [Nothing EXCEPT !.makes = {object}]
ChangeColumns ==
    AddEach(<<"events.lifecycle_status", "events.change_version", "events.sales_paused",
              "orders.access_deadline", "order_refunds.manual_reference",
              "order_refunds.manual_paid_at", "email_queue.event_change_id">>)
ChangeStatements ==
    <<Fill("access_deadlines"), Table("event_changes", {}), Table("event_change_orders", {}),
      Table("event_refund_rights", {}), Modify(RefundStatus), Modify(MailKind), DropTarget,
      AddTarget(3), Made("checkin_attempts.outcome_EVENT_CHANGED")>>

\* The columns are repeatable.
LEMMA ChangeColumnsRepeat ==
    AllRepeatable(ChangeColumns) /\ Len(ChangeColumns) = 7
<1> DEFINE C == {"events.lifecycle_status", "events.change_version", "events.sales_paused",
                 "orders.access_deadline", "order_refunds.manual_reference",
                 "order_refunds.manual_paid_at", "email_queue.event_change_id"}
<1>1. <<"events.lifecycle_status", "events.change_version", "events.sales_paused",
        "orders.access_deadline", "order_refunds.manual_reference",
        "order_refunds.manual_paid_at", "email_queue.event_change_id">> \in Seq(C)
      /\ C \cap Accompanied = {}
  BY DEF Accompanied
<1>2. Len(ChangeColumns) = 7
  BY DEF ChangeColumns, AddEach
<1> QED
  BY <1>1, <1>2, EachRepeatable DEF ChangeColumns

\* Of the statements only the new constraint is not.
LEMMA ChangeStatementsSound ==
    /\ AllSound(ChangeStatements) /\ Len(ChangeStatements) = 9
    /\ \A i \in 1..9 : i # 8 => Repeatable(ChangeStatements[i])
    /\ ChangeStatements[7] = DropTarget /\ ChangeStatements[8] = AddTarget(3)
<1> DEFINE a == Made("checkin_attempts.outcome_EVENT_CHANGED")
           S == {Fill("access_deadlines"), Table("event_changes", {}), Table("event_change_orders", {}),
                 Table("event_refund_rights", {}), Modify(RefundStatus), Modify(MailKind),
                 DropTarget, AddTarget(3), a}
<1>1. ChangeStatements \in Seq(S)
  BY DEF ChangeStatements
<1>2. Repeatable(a)
  BY DEF Made, Nothing, Repeatable, Sound
<1>3. /\ Repeatable(Fill("access_deadlines")) /\ Repeatable(Table("event_changes", {}))
      /\ Repeatable(Table("event_change_orders", {})) /\ Repeatable(Table("event_refund_rights", {}))
  BY TableRepeatable, FillRepeatable DEF Accompanied
<1>4. /\ Repeatable(Modify(RefundStatus)) /\ Repeatable(Modify(MailKind)) /\ Repeatable(DropTarget)
      /\ Sound(AddTarget(3))
  BY FormsSound, TargetSound
<1>5. \A s \in S : Sound(s)
  BY <1>2, <1>3, <1>4 DEF Repeatable
<1>6. /\ Len(ChangeStatements) = 9
      /\ ChangeStatements[1] = Fill("access_deadlines") /\ ChangeStatements[2] = Table("event_changes", {})
      /\ ChangeStatements[3] = Table("event_change_orders", {})
      /\ ChangeStatements[4] = Table("event_refund_rights", {})
      /\ ChangeStatements[5] = Modify(RefundStatus) /\ ChangeStatements[6] = Modify(MailKind)
      /\ ChangeStatements[7] = DropTarget /\ ChangeStatements[8] = AddTarget(3)
      /\ ChangeStatements[9] = a
  BY DEF ChangeStatements
<1> HIDE DEF S, a
<1>7. AllSound(ChangeStatements)
  BY <1>1, <1>5 DEF AllSound
<1>8. /\ Repeatable(ChangeStatements[1]) /\ Repeatable(ChangeStatements[2])
      /\ Repeatable(ChangeStatements[3]) /\ Repeatable(ChangeStatements[4])
      /\ Repeatable(ChangeStatements[5]) /\ Repeatable(ChangeStatements[6])
      /\ Repeatable(ChangeStatements[7]) /\ Repeatable(ChangeStatements[9])
  BY <1>2, <1>3, <1>4, <1>6
<1>9. \A i \in 1..9 : i # 8 => Repeatable(ChangeStatements[i])
  BY <1>8
<1> QED
  BY <1>6, <1>7, <1>9

\* So it is in resumeEventChanges as a whole.
LEMMA ChangesSteps ==
    /\ AllSound(resumeEventChanges) /\ Len(resumeEventChanges) = 16
    /\ \A i \in 1..16 : i # 15 => Repeatable(resumeEventChanges[i])
    /\ resumeEventChanges[14] = DropTarget /\ resumeEventChanges[15] = AddTarget(3)
<1> DEFINE w == ChangeColumns \o ChangeStatements
<1>1. resumeEventChanges = w
  BY DEF resumeEventChanges, Made, ChangeColumns, ChangeStatements
<1>2. AllSound(w) /\ OneThenOther(ChangeColumns, ChangeStatements)
  BY ChangeColumnsRepeat, ChangeStatementsSound, RepeatableSound, Concatenated
<1>3. Len(w) = 16
  BY <1>2, ChangeColumnsRepeat, ChangeStatementsSound DEF OneThenOther
<1>4. \A i \in 1..7 : w[i] = ChangeColumns[i]
  BY <1>2, ChangeColumnsRepeat DEF OneThenOther
<1>5. \A i \in 1..9 : w[7 + i] = ChangeStatements[i]
  BY <1>2, ChangeColumnsRepeat, ChangeStatementsSound DEF OneThenOther
<1>6. \A i \in 1..7 : Repeatable(ChangeColumns[i])
  <2>1. \A i \in 1..Len(ChangeColumns) : Repeatable(ChangeColumns[i])
    BY ChangeColumnsRepeat, EachOfAll
  <2> QED
    BY <2>1, ChangeColumnsRepeat
<1> HIDE DEF w
<1>7. ASSUME NEW i \in 1..16, i # 15 PROVE Repeatable(w[i])
  <2>1. CASE i \in 1..7
    BY <1>4, <1>6, <2>1
  <2>2. CASE i \in 8..16
    <3>1. i - 7 \in 1..9 /\ i - 7 # 8 /\ 7 + (i - 7) = i
      BY <1>7, <2>2
    <3> QED
      BY <1>5, <3>1, ChangeStatementsSound
  <2> QED
    BY <2>1, <2>2
<1>8. w[14] = DropTarget /\ w[15] = AddTarget(3)
  <2>1. w[7 + 7] = ChangeStatements[7] /\ w[7 + 8] = ChangeStatements[8]
    BY <1>5
  <2> QED
    BY <2>1, ChangeStatementsSound
<1> QED
  BY <1>1, <1>2, <1>3, <1>7, <1>8

\* ReviewFixes is sound.
LEMMA FixesSound == AllSound(ReviewFixes)
<1> DEFINE a == [Add({"event_change_orders.next_attempt_at", "ix_event_change_due"})
                   EXCEPT !.unless = {"event_change_orders.next_attempt_at"}]
           b == [Add({"event_refund_rights.next_attempt_at", "ix_event_refund_due"})
                   EXCEPT !.unless = {"event_refund_rights.next_attempt_at"}]
           c == AddMissing({"conversion_journeys.telemetry_received"})
           S == {a, b, c}
<1>1. ReviewFixes \in Seq(S)
  BY DEF ReviewFixes
<1>2. Sound(a) /\ Sound(b)
  BY DEF Add, Nothing, Sound
<1>3. Sound(c)
  BY AddMissingRepeatable DEF Repeatable, Accompanied
<1> HIDE DEF a, b, c
<1>4. \A s \in S : Sound(s)
  BY <1>2, <1>3
<1> HIDE DEF S
<1> QED
  BY <1>1, <1>4 DEF AllSound

\* The statements of each version
LEMMA StatementsOfVersions ==
    /\ Script[1] = Initial /\ Script[2] = <<>> /\ Script[3] = ReservationConversion /\ Script[4] = Orders
    /\ Script[5] = OrderIdempotency /\ Script[6] = Tables(<<"payments">>)
    /\ Script[7] = Tables(<<"order_attendees", "etickets">>)
    /\ Script[8] = Tables(<<"staff_users", "staff_sessions", "staff_assignments">>)
    /\ Script[9] = OrderExpiry /\ Script[10] = Tables(<<"ticket_checkins">>)
    /\ Script[11] = CheckinAttempts /\ Script[12] = MidtransSnap /\ Script[13] = EmailQueue
    /\ Script[14] = resumeRecovery /\ Script[15] = resumeEventPublication
    /\ Script[16] = resumeAdminCatalog /\ Script[17] = Tables(<<"admin_audit_log">>)
    /\ Script[18] = resumeAdminOrders /\ Script[19] = resumeAdminIssues
    /\ Script[20] = resumePaymentEnvironment /\ Script[21] = resumeRefunds
    /\ Script[22] = resumeRefundQueue /\ Script[23] = resumeAdminSalesReports
    /\ Script[24] = resumeAdminAttendanceReports /\ Script[25] = resumeConversion
    /\ Script[26] = resumeEventChanges /\ Script[27] = ReviewFixes /\ Script[28] = Pricing
    /\ Script[29] = OptionalIdentity
BY DEF Script

\* Every upgrade is sound; but for the four that are not repeatable and
\* the four that carry something from one look to a later statement, every
\* upgrade is repeatable statement by statement.
LEMMA ScriptSound ==
    ASSUME NEW v \in Version
    PROVE  /\ AllSound(Script[v])
           /\ v \notin NotRepeatable \cup {14, 21, 26, 27} => AllRepeatable(Script[v])
<1> USE DEF NotRepeatable
<1>1. v \in 1..29
  BY TwentyNineVersions DEF Version
<1>2. CASE v \in {3, 5, 9, 12}
  BY <1>2, StatementsOfVersions, OnceSound
<1>3. CASE v \in {14, 21, 26, 27}
  BY <1>3, StatementsOfVersions, RecoveryParts, RefundsSound, ChangesSteps, FixesSound
<1>4. CASE v \in {6, 7, 8, 10, 17, 18, 19, 22, 23, 24}
  BY <1>4, StatementsOfVersions, SimpleVersions, RepeatableSound
<1>5. CASE v \in {1, 2, 13, 15, 16, 20, 28, 29}
  BY <1>5, StatementsOfVersions, RepeatableVersions, RepeatableSound
<1>6. CASE v \in {4, 11, 25}
  BY <1>6, StatementsOfVersions, JoinedVersions, RepeatableSound
<1> QED
  BY <1>1, <1>2, <1>3, <1>4, <1>5, <1>6

\* The same, of the statement at each place
LEMMA EachSound ==
    ASSUME NEW v \in Version
    PROVE  /\ Len(Script[v]) \in Nat /\ (Script[v] = <<>> <=> Len(Script[v]) = 0)
           /\ \A i \in 1..Len(Script[v]) :
                 /\ Sound(Statement(v, i))
                 /\ v \notin NotRepeatable \cup {14, 21, 26, 27} => Repeatable(Statement(v, i))
BY ScriptSound, EachOfAll DEF Statement

\* Statements of resumeRefunds and of ReviewFixes, by name
DropTargetOrStop == [DropTarget EXCEPT !.enough = RefundTarget]
AddPair(column, key) == [Add({column, key}) EXCEPT !.unless = {column}]

\* To change a form, and to drop the constraint after a look
LEMMA SpecialSound ==
    /\ \A o : o \notin Accompanied => Repeatable(Made(o))
    /\ Repeatable(DropTargetOrStop)
<1>1. ASSUME NEW o, o \notin Accompanied PROVE Repeatable(Made(o))
  BY <1>1 DEF Made, Nothing, Repeatable, Sound, Accompanied
<1>2. Repeatable(DropTargetOrStop)
  BY TargetSound DEF DropTargetOrStop, DropTarget, Nothing, Repeatable, Sound
<1> QED
  BY <1>1, <1>2

\* Of resumeRefunds only the last statement is not repeatable.
LEMMA RefundsSteps ==
    /\ Len(resumeRefunds) = 7
    /\ \A i \in {1, 2, 3, 4, 5, 6} : Repeatable(resumeRefunds[i])
    /\ resumeRefunds[6] = DropTargetOrStop /\ resumeRefunds[7] = AddTarget(2)
<1> DEFINE q == <<Made("orders.status_REFUNDED"),
                  Table("order_refunds", {RefundStatus[1]}), Table("order_refund_audit", {}),
                  AddMissing({"email_queue.refund_snapshot"}),
                  Modify(Upto(MailKind, 2)), DropTargetOrStop, AddTarget(2)>>
<1>1. resumeRefunds = q
  BY DEF resumeRefunds, Made, DropTargetOrStop
<1>2. /\ Repeatable(Made("orders.status_REFUNDED")) /\ Repeatable(DropTargetOrStop)
      /\ Repeatable(Modify(Upto(MailKind, 2)))
  BY SpecialSound, FormsSound DEF Accompanied
<1>3. Repeatable(Table("order_refunds", {RefundStatus[1]})) /\ Repeatable(Table("order_refund_audit", {}))
  BY TableRepeatable DEF Accompanied, RefundStatus
<1>4. Repeatable(AddMissing({"email_queue.refund_snapshot"}))
  BY AddMissingRepeatable DEF Accompanied
<1>5. /\ Repeatable(q[1]) /\ Repeatable(q[2]) /\ Repeatable(q[3]) /\ Repeatable(q[4])
      /\ Repeatable(q[5]) /\ Repeatable(q[6])
  BY <1>2, <1>3, <1>4
<1>6. Len(q) = 7 /\ q[6] = DropTargetOrStop /\ q[7] = AddTarget(2)
  OBVIOUS
<1> HIDE DEF q
<1> QED
  BY <1>1, <1>5, <1>6

\* ReviewFixes looks for a column and adds it with its key.
LEMMA FixesSteps ==
    /\ Len(ReviewFixes) = 3
    /\ ReviewFixes[1] = AddPair("event_change_orders.next_attempt_at", "ix_event_change_due")
    /\ ReviewFixes[2] = AddPair("event_refund_rights.next_attempt_at", "ix_event_refund_due")
    /\ Repeatable(ReviewFixes[3])
<1> DEFINE a == AddPair("event_change_orders.next_attempt_at", "ix_event_change_due")
           b == AddPair("event_refund_rights.next_attempt_at", "ix_event_refund_due")
           q == <<a, b, AddMissing({"conversion_journeys.telemetry_received"})>>
<1>1. ReviewFixes = q
  BY DEF ReviewFixes, AddPair
<1> HIDE DEF a, b
<1>2. Repeatable(AddMissing({"conversion_journeys.telemetry_received"}))
  BY AddMissingRepeatable DEF Accompanied
<1> QED
  BY <1>1, <1>2 DEF a, b


\* The statements of resumeRecovery at their places
LEMMA RecoverySteps ==
    /\ resumeRecovery[4] = RememberKey /\ resumeRecovery[5] = DropForeignKey
    /\ resumeRecovery[6] = AddMissing({"email_queue.id"})
    /\ resumeRecovery[7] = AddMissing({MailKind[1]})
    /\ resumeRecovery[8] = AddMissing({"email_queue.dedupe_key"})
    /\ resumeRecovery[9] = AddMissing({"email_queue.recovery_request_id"})
    /\ resumeRecovery[10] = Fill("mail_keys") /\ resumeRecovery[11] = RequireKeys
    /\ resumeRecovery[12] = ChangeKey
    /\ resumeRecovery[13] = AddMissing({"email_queue.id_NOT_NULL"})
    /\ resumeRecovery[14] = AddMissing({"email_queue.dedupe_key_NOT_NULL"})
    /\ resumeRecovery[15] = FreeOrder
<1>1. RecoveryLook[1] = RememberKey /\ RecoveryLook[2] = DropForeignKey
  BY DEF RecoveryLook
<1>2. /\ RecoveryColumns[1] = AddMissing({"email_queue.id"})
      /\ RecoveryColumns[2] = AddMissing({MailKind[1]})
      /\ RecoveryColumns[3] = AddMissing({"email_queue.dedupe_key"})
      /\ RecoveryColumns[4] = AddMissing({"email_queue.recovery_request_id"})
  <2>1. RecoveryColumns[1] = AddMissing({"email_queue.id"})
    BY DEF RecoveryColumns, AddEach
  <2>2. RecoveryColumns[2] = AddMissing({MailKind[1]})
    BY DEF RecoveryColumns, AddEach
  <2>3. RecoveryColumns[3] = AddMissing({"email_queue.dedupe_key"})
    BY DEF RecoveryColumns, AddEach
  <2>4. RecoveryColumns[4] = AddMissing({"email_queue.recovery_request_id"})
    BY DEF RecoveryColumns, AddEach
  <2> QED
    BY <2>1, <2>2, <2>3, <2>4
<1>3. /\ RecoveryKey[1] = Fill("mail_keys") /\ RecoveryKey[2] = RequireKeys
      /\ RecoveryKey[3] = ChangeKey /\ RecoveryKey[4] = AddMissing({"email_queue.id_NOT_NULL"})
      /\ RecoveryKey[5] = AddMissing({"email_queue.dedupe_key_NOT_NULL"}) /\ RecoveryKey[6] = FreeOrder
  BY DEF RecoveryKey
<1>4. resumeRecovery[4] = RecoveryLook[1] /\ resumeRecovery[5] = RecoveryLook[2]
  <2>1. resumeRecovery[3 + 1] = RecoveryLook[1] /\ resumeRecovery[3 + 2] = RecoveryLook[2]
    BY RecoveryParts
  <2> QED
    BY <2>1
<1>5. /\ resumeRecovery[6] = RecoveryColumns[1] /\ resumeRecovery[7] = RecoveryColumns[2]
      /\ resumeRecovery[8] = RecoveryColumns[3] /\ resumeRecovery[9] = RecoveryColumns[4]
  <2>1. /\ resumeRecovery[5 + 1] = RecoveryColumns[1] /\ resumeRecovery[5 + 2] = RecoveryColumns[2]
        /\ resumeRecovery[5 + 3] = RecoveryColumns[3] /\ resumeRecovery[5 + 4] = RecoveryColumns[4]
    BY RecoveryParts
  <2> QED
    BY <2>1
<1>6. /\ resumeRecovery[10] = RecoveryKey[1] /\ resumeRecovery[11] = RecoveryKey[2]
      /\ resumeRecovery[12] = RecoveryKey[3] /\ resumeRecovery[13] = RecoveryKey[4]
      /\ resumeRecovery[14] = RecoveryKey[5] /\ resumeRecovery[15] = RecoveryKey[6]
  <2>1. /\ resumeRecovery[9 + 1] = RecoveryKey[1] /\ resumeRecovery[9 + 2] = RecoveryKey[2]
        /\ resumeRecovery[9 + 3] = RecoveryKey[3] /\ resumeRecovery[9 + 4] = RecoveryKey[4]
        /\ resumeRecovery[9 + 5] = RecoveryKey[5] /\ resumeRecovery[9 + 6] = RecoveryKey[6]
    BY RecoveryParts
  <2> QED
    BY <2>1
<1> QED
  BY <1>1, <1>2, <1>3, <1>4, <1>5, <1>6

\* Nothing is remembered before the look at the primary key.
LEMMA RecoveryTablesLook ==
    ASSUME NEW i \in 1..3
    PROVE  resumeRecovery[i].remember = {}
<1>1. \E name : RecoveryTables[i] = Table(name, {})
  BY DEF RecoveryTables, Tables
<1> QED
  BY <1>1, RecoveryParts DEF Table, Nothing

\* Three statements of resumeRecovery rely on what went before.
LEMMA RecoveryRepeat ==
    ASSUME NEW i \in 1..21, i \notin {11, 12, 15}
    PROVE  Repeatable(resumeRecovery[i])
<1>1. \A j \in 1..3 : Repeatable(RecoveryTables[j])
  <2> DEFINE T == {"recovery_requests", "recovery_tokens", "rate_limits"}
  <2>1. <<"recovery_requests", "recovery_tokens", "rate_limits">> \in Seq(T) /\ T \cap Accompanied = {}
    BY DEF Accompanied
  <2>2. AllRepeatable(RecoveryTables)
    BY <2>1, EachRepeatable DEF RecoveryTables
  <2>3. Len(RecoveryTables) = 3
    BY DEF RecoveryTables, Tables
  <2> QED
    BY <2>2, <2>3, EachOfAll
<1>2. Repeatable(RememberKey) /\ Repeatable(DropForeignKey)
  BY DEF RememberKey, DropForeignKey, Repeatable, Sound, Nothing, Lasting
<1>3. /\ Repeatable(AddMissing({"email_queue.id"})) /\ Repeatable(AddMissing({MailKind[1]}))
      /\ Repeatable(AddMissing({"email_queue.dedupe_key"}))
      /\ Repeatable(AddMissing({"email_queue.recovery_request_id"}))
  BY AddMissingRepeatable DEF Accompanied, MailKind
<1>4. /\ Repeatable(Fill("mail_keys")) /\ Repeatable(AddMissing({"email_queue.id_NOT_NULL"}))
      /\ Repeatable(AddMissing({"email_queue.dedupe_key_NOT_NULL"}))
  BY FillRepeatable, AddMissingRepeatable DEF Accompanied
<1>5. \A j \in 1..3 : Repeatable(RecoveryIndexes[j])
  <2> DEFINE K == {"uq_email_queue_dedupe", "ix_email_queue_order", "ix_email_queue_recovery"}
  <2>1. <<"uq_email_queue_dedupe", "ix_email_queue_order", "ix_email_queue_recovery">> \in Seq(K)
        /\ K \cap Accompanied = {}
    BY DEF Accompanied
  <2>2. AllRepeatable(RecoveryIndexes)
    BY <2>1, EachRepeatable DEF RecoveryIndexes
  <2>3. Len(RecoveryIndexes) = 3
    BY DEF RecoveryIndexes, AddEach
  <2> QED
    BY <2>2, <2>3, EachOfAll
<1>6. \A j \in 1..2 : Repeatable(RecoveryForeignKeys[j])
  <2> DEFINE F == {"fk_email_queue_order", "fk_email_queue_recovery"}
  <2>1. <<"fk_email_queue_order", "fk_email_queue_recovery">> \in Seq(F) /\ F \cap Accompanied = {}
    BY DEF Accompanied
  <2>2. AllRepeatable(RecoveryForeignKeys)
    BY <2>1, EachRepeatable DEF RecoveryForeignKeys
  <2>3. Len(RecoveryForeignKeys) = 2
    BY DEF RecoveryForeignKeys, AddEach
  <2> QED
    BY <2>2, <2>3, EachOfAll
<1>7. Repeatable(FirstTarget)
  BY DEF FirstTarget, AddTarget, Nothing, Repeatable, Sound, MailTarget
<1>8. CASE i \in 1..3
  BY <1>1, <1>8, RecoveryParts
<1>9. CASE i \in {4, 5, 6, 7, 8, 9, 10, 13, 14}
  BY <1>2, <1>3, <1>4, <1>9, RecoverySteps
<1>10. CASE i \in 16..18
  <2>1. i - 15 \in 1..3 /\ 15 + (i - 15) = i
    BY <1>10
  <2> QED
    BY <1>5, <2>1, RecoveryParts
<1>11. CASE i \in 19..20
  <2>1. i - 18 \in 1..2 /\ 18 + (i - 18) = i
    BY <1>11
  <2> QED
    BY <1>6, <2>1, RecoveryParts
<1>12. CASE i = 21
  BY <1>7, <1>12, RecoveryParts
<1> QED
  BY <1>8, <1>9, <1>10, <1>11, <1>12

---------------------------------------------------------------------------
(* What a run knows when it looks *)

\* What holds of every schema an upgrade may find: email_queue has a
\* primary key, and the two columns of ReviewFixes come with their keys or
\* before them.
Coherent(sch) ==
    /\ "email_queue" \in sch => "PRIMARY(order_id)" \in sch \/ "PRIMARY(id)" \in sch
    /\ "ix_event_change_due" \in sch => "event_change_orders.next_attempt_at" \in sch
    /\ "ix_event_refund_due" \in sch => "event_refund_rights.next_attempt_at" \in sch

\* What a run that is about to look for statement i of version v may rely
\* on: in resumeRecovery, that its memory of the primary key is true until
\* it changes the key itself, that the foreign key is out of the way of that
\* change and that column and key are there; in resumeRefunds and
\* resumeEventChanges, that the constraint it is about to add is gone.
Knows(v, i, found, sch) ==
    /\ v = 14 => /\ i <= 4 => "PRIMARY(id)" \notin found
                 /\ i \in 5..12 => ("PRIMARY(id)" \in found <=> "PRIMARY(id)" \in sch)
                 /\ i \in 6..12 => "PRIMARY(id)" \in found \/ "fk_email_queue_order" \notin sch
                 /\ i >= 7 => "email_queue.id" \in sch
                 /\ i >= 11 => "mail_keys" \in sch
                 /\ i >= 13 => "PRIMARY(id)" \in sch
    /\ (v = 21 /\ i = 7) \/ (v = 26 /\ i = 15) => "chk_email_queue_target" \notin sch

\* A sound statement leaves the schema coherent.
LEMMA EffectCoherent ==
    ASSUME NEW s, NEW sch, Sound(s), Coherent(sch)
    PROVE  Coherent(Effect(s, sch)) /\ \A o \in Lasting : o \in sch => o \in Effect(s, sch)
<1>1. CASE s.clash \cap sch # {}
  BY <1>1 DEF Effect
<1>2. CASE s.clash \cap sch = {}
  <2>1. Effect(s, sch) = (sch \ s.drops) \cup s.makes
    BY <1>2 DEF Effect
  <2>2. \A o \in Lasting : o \notin s.drops
    BY DEF Sound
  <2>3. \A o \in Lasting : o \in sch => o \in Effect(s, sch)
    BY <2>1, <2>2
  <2>4. Coherent(Effect(s, sch))
    BY <2>1, <2>2 DEF Sound, Coherent, Lasting
  <2> QED
    BY <2>3, <2>4
<1> QED
  BY <1>1, <1>2

\* A repeatable statement that the look asked for is not refused.
LEMMA NotRefusedThen ==
    ASSUME NEW s, NEW p, Repeatable(s), ~LeftOut(s, p)
    PROVE  ~Refused(s, schema)
<1>1. s.needs \subseteq schema
  BY DEF Repeatable, LeftOut
<1>2. s.tolerant \/ s.clash \cap schema = {}
  <2>1. CASE s.clash = {}
    BY <2>1
  <2>2. ASSUME NEW o, s.clash = {o}, s.unless = {o} PROVE s.clash \cap schema = {}
    BY <2>2 DEF LeftOut
  <2> QED
    BY <2>1, <2>2 DEF Repeatable
<1> QED
  BY <1>1, <1>2 DEF Refused

\* Nor is any other, outside the four versions: what it relies on is known.
LEMMA LookedAt ==
    ASSUME NEW v \in Version, NEW i \in 1..Len(Script[v]), NEW p,
           Coherent(schema), Knows(v, i, seen[p], schema), v = 14 => "email_queue" \in schema,
           ~LeftOut(Statement(v, i), p), v \notin NotRepeatable
    PROVE  ~Refused(Statement(v, i), schema)
<1> DEFINE s == Statement(v, i)
<1>1. CASE v \notin {14, 21, 26, 27}
  BY <1>1, EachSound, NotRefusedThen
<1>2. CASE v = 14
  <2>0. s = resumeRecovery[i] /\ i \in 1..21
    BY <1>2, StatementsOfVersions, RecoveryParts DEF Statement
  <2>1. CASE i \notin {11, 12, 15}
    BY <2>0, <2>1, RecoveryRepeat, NotRefusedThen
  <2>2. CASE i = 11
    <3>1. s = RequireKeys
      BY <2>0, <2>2, RecoverySteps
    <3>2. "mail_keys" \in schema
      BY <1>2, <2>2 DEF Knows
    <3> QED
      BY <3>1, <3>2 DEF RequireKeys, Nothing, Refused
  <2>3. CASE i = 12
    <3>1. s = ChangeKey
      BY <2>0, <2>3, RecoverySteps
    <3>2. "PRIMARY(id)" \notin seen[p]
      BY <3>1 DEF ChangeKey, Nothing, LeftOut
    <3>3. /\ "PRIMARY(id)" \notin schema /\ "fk_email_queue_order" \notin schema
          /\ "email_queue.id" \in schema /\ "PRIMARY(order_id)" \in schema
      BY <1>2, <2>3, <3>2 DEF Knows, Coherent
    <3> QED
      BY <3>1, <3>3 DEF ChangeKey, Nothing, Refused
  <2>4. CASE i = 15
    <3>1. s = FreeOrder
      BY <2>0, <2>4, RecoverySteps
    <3>2. "PRIMARY(id)" \in schema
      BY <1>2, <2>4 DEF Knows
    <3> QED
      BY <3>1, <3>2 DEF FreeOrder, AddMissing, Add, Nothing, LeftOut, Refused
  <2> QED
    BY <2>1, <2>2, <2>3, <2>4
<1>3. CASE v = 21
  <2>0. s = resumeRefunds[i] /\ i \in 1..7
    BY <1>3, StatementsOfVersions, RefundsSteps DEF Statement
  <2>1. CASE i # 7
    <3>1. Repeatable(s)
      BY <2>0, <2>1, RefundsSteps
    <3> QED
      BY <3>1, NotRefusedThen
  <2>2. CASE i = 7
    <3>1. s = AddTarget(2) /\ "chk_email_queue_target" \notin schema
      BY <1>3, <2>0, <2>2, RefundsSteps DEF Knows
    <3> QED
      BY <3>1 DEF AddTarget, Nothing, Refused
  <2> QED
    BY <2>1, <2>2
<1>4. CASE v = 26
  <2>0. s = resumeEventChanges[i] /\ i \in 1..16
    BY <1>4, StatementsOfVersions, ChangesSteps DEF Statement
  <2>1. CASE i # 15
    BY <2>0, <2>1, ChangesSteps, NotRefusedThen
  <2>2. CASE i = 15
    <3>1. s = AddTarget(3) /\ "chk_email_queue_target" \notin schema
      BY <1>4, <2>0, <2>2, ChangesSteps DEF Knows
    <3> QED
      BY <3>1 DEF AddTarget, Nothing, Refused
  <2> QED
    BY <2>1, <2>2
<1>5. CASE v = 27
  <2>0. s = ReviewFixes[i] /\ i \in 1..3
    BY <1>5, StatementsOfVersions, FixesSteps DEF Statement
  <2>1. CASE i = 1
    <3>1. s = AddPair("event_change_orders.next_attempt_at", "ix_event_change_due")
      BY <2>0, <2>1, FixesSteps
    <3> QED
      BY <3>1 DEF AddPair, Add, Nothing, LeftOut, Refused, Coherent
  <2>2. CASE i = 2
    <3>1. s = AddPair("event_refund_rights.next_attempt_at", "ix_event_refund_due")
      BY <2>0, <2>2, FixesSteps
    <3> QED
      BY <3>1 DEF AddPair, Add, Nothing, LeftOut, Refused, Coherent
  <2>3. CASE i = 3
    BY <2>0, <2>3, FixesSteps, NotRefusedThen
  <2> QED
    BY <2>0, <2>1, <2>2, <2>3
<1> QED
  BY <1>1, <1>2, <1>3, <1>4, <1>5

\* What is known stays known when a statement is left out,
LEMMA PassedOver ==
    ASSUME NEW v \in Version, NEW i \in 1..Len(Script[v]), NEW p,
           Knows(v, i, seen[p], schema), LeftOut(Statement(v, i), p)
    PROVE  Knows(v, i + 1, seen[p], schema)
<1> DEFINE s == Statement(v, i)
<1>0. i \in Nat /\ i >= 1
  BY EachSound
<1>1. CASE v = 14
  <2>0. s = resumeRecovery[i] /\ i \in 1..21
    BY <1>1, StatementsOfVersions, RecoveryParts DEF Statement
  <2>1. CASE i = 4
    <3>1. s = RememberKey
      BY <2>0, <2>1, RecoverySteps
    <3> QED
      BY <3>1 DEF RememberKey, Nothing, LeftOut
  <2>2. CASE i = 5
    <3>1. s = DropForeignKey
      BY <2>0, <2>2, RecoverySteps
    <3>2. "PRIMARY(id)" \in seen[p] \/ "fk_email_queue_order" \notin schema
      BY <3>1 DEF DropForeignKey, Nothing, LeftOut
    <3> QED
      BY <1>1, <2>2, <3>2 DEF Knows
  <2>3. CASE i = 6
    <3>1. s = AddMissing({"email_queue.id"})
      BY <2>0, <2>3, RecoverySteps
    <3>2. "email_queue.id" \in schema
      BY <3>1 DEF AddMissing, Add, Nothing, LeftOut
    <3> QED
      BY <1>1, <2>3, <3>2 DEF Knows
  <2>4. CASE i = 10
    <3>1. s = Fill("mail_keys")
      BY <2>0, <2>4, RecoverySteps
    <3> QED
      BY <3>1 DEF Fill, Nothing, LeftOut
  <2>5. CASE i = 12
    <3>1. s = ChangeKey
      BY <2>0, <2>5, RecoverySteps
    <3>2. "PRIMARY(id)" \in seen[p]
      BY <3>1 DEF ChangeKey, Nothing, LeftOut
    <3> QED
      BY <1>1, <2>5, <3>2 DEF Knows
  <2>6. CASE i \notin {4, 5, 6, 10, 12}
    BY <1>0, <1>1, <2>6 DEF Knows
  <2> QED
    BY <2>1, <2>2, <2>3, <2>4, <2>5, <2>6
<1>2. CASE v = 21 /\ i = 6
  <2>1. s = DropTargetOrStop
    BY <1>2, StatementsOfVersions, RefundsSteps DEF Statement
  <2>2. "chk_email_queue_target" \notin schema
    BY <2>1 DEF DropTargetOrStop, DropTarget, Nothing, LeftOut
  <2> QED
    BY <1>2, <2>2 DEF Knows
<1>3. CASE v = 26 /\ i = 14
  <2>1. s = DropTarget
    BY <1>3, StatementsOfVersions, ChangesSteps DEF Statement
  <2>2. "chk_email_queue_target" \notin schema
    BY <2>1 DEF DropTarget, Nothing, LeftOut
  <2> QED
    BY <1>3, <2>2 DEF Knows
<1>4. CASE v # 14 /\ ~(v = 21 /\ i = 6) /\ ~(v = 26 /\ i = 14)
  BY <1>0, <1>4 DEF Knows
<1> QED
  BY <1>1, <1>2, <1>3, <1>4

\* and when it is carried out.
LEMMA CarriedOut ==
    ASSUME NEW v \in Version, NEW i \in 1..Len(Script[v]), NEW found, NEW sch,
           Knows(v, i, found, sch), ~Refused(Statement(v, i), sch)
    PROVE  Knows(v, i + 1, found \cup (Statement(v, i).remember \cap sch), Effect(Statement(v, i), sch))
<1> DEFINE s == Statement(v, i)
           found2 == found \cup (s.remember \cap sch)
           sch2 == Effect(s, sch)
<1> SUFFICES Knows(v, i + 1, found2, sch2)
  OBVIOUS
<1>0. i \in Nat /\ i >= 1
  BY EachSound
<1>1. CASE v = 14
  <2>0. s = resumeRecovery[i] /\ i \in 1..21 /\ Sound(s)
    BY <1>1, StatementsOfVersions, RecoveryParts, EachSound DEF Statement
  <2>1. \A o \in Lasting : o \in sch => o \in sch2
    <3>1. sch2 = sch \/ sch2 = (sch \ s.drops) \cup s.makes
      BY DEF Effect
    <3> QED
      BY <2>0, <3>1 DEF Sound
  <2>2. CASE i \in 1..3
    <3>1. found2 = found
      BY <2>0, <2>2, RecoveryTablesLook
    <3> QED
      BY <1>1, <2>2, <3>1 DEF Knows
  <2>3. CASE i = 4
    <3>1. s = RememberKey
      BY <2>0, <2>3, RecoverySteps
    <3>2. found2 = found \cup ({"PRIMARY(id)"} \cap sch) /\ sch2 = sch
      BY <3>1 DEF RememberKey, Nothing, Effect
    <3> HIDE DEF found2, sch2
    <3> QED
      BY <1>1, <2>3, <3>2 DEF Knows
  <2>4. CASE i = 5
    <3>1. s = DropForeignKey
      BY <2>0, <2>4, RecoverySteps
    <3>2. found2 = found /\ sch2 = sch \ {"fk_email_queue_order"}
      BY <3>1 DEF DropForeignKey, Nothing, Effect
    <3> HIDE DEF found2, sch2
    <3> QED
      BY <1>1, <2>4, <3>2 DEF Knows
  <2>5. CASE i = 6
    <3>1. s = AddMissing({"email_queue.id"})
      BY <2>0, <2>5, RecoverySteps
    <3>2. found2 = found /\ sch2 = sch \cup {"email_queue.id"}
      BY <3>1 DEF AddMissing, Add, Nothing, Effect
    <3> HIDE DEF found2, sch2
    <3> QED
      BY <1>1, <2>5, <3>2 DEF Knows
  <2>6. CASE i \in {7, 8, 9}
    <3>1. PICK o : s = AddMissing({o}) /\ o \notin {"PRIMARY(id)", "fk_email_queue_order"}
      <4>1. MailKind[1] \notin {"PRIMARY(id)", "fk_email_queue_order"}
        BY DEF MailKind
      <4> DEFINE a == "email_queue.dedupe_key"
                 b == "email_queue.recovery_request_id"
      <4>2. a \notin {"PRIMARY(id)", "fk_email_queue_order"} /\ b \notin {"PRIMARY(id)", "fk_email_queue_order"}
        OBVIOUS
      <4>3. s = AddMissing({MailKind[1]}) \/ s = AddMissing({a}) \/ s = AddMissing({b})
        BY <2>0, <2>6, RecoverySteps
      <4> HIDE DEF a, b
      <4> QED
        BY <4>1, <4>2, <4>3
    <3>2. found2 = found /\ sch2 = sch \cup {o}
      BY <3>1 DEF AddMissing, Add, Nothing, Effect
    <3> HIDE DEF found2, sch2
    <3> QED
      BY <1>1, <2>6, <3>1, <3>2 DEF Knows
  <2>7. CASE i = 10
    <3>1. s = Fill("mail_keys")
      BY <2>0, <2>7, RecoverySteps
    <3>2. found2 = found /\ sch2 = sch \cup {"mail_keys"}
      BY <3>1 DEF Fill, Nothing, Effect
    <3> HIDE DEF found2, sch2
    <3> QED
      BY <1>1, <2>7, <3>2 DEF Knows
  <2>8. CASE i = 11
    <3>1. s = RequireKeys
      BY <2>0, <2>8, RecoverySteps
    <3>2. found2 = found /\ sch2 = sch
      BY <3>1 DEF RequireKeys, Nothing, Effect
    <3> HIDE DEF found2, sch2
    <3> QED
      BY <1>1, <2>8, <3>2 DEF Knows
  <2>9. CASE i = 12
    <3>1. s = ChangeKey
      BY <2>0, <2>9, RecoverySteps
    <3>2. "PRIMARY(id)" \in sch2
      BY <3>1 DEF ChangeKey, Nothing, Effect, Refused
    <3>3. "email_queue.id" \in sch2 /\ "mail_keys" \in sch2
      <4>1. "email_queue.id" \in sch /\ "mail_keys" \in sch
        BY <1>1, <2>9 DEF Knows
      <4> QED
        BY <2>1, <4>1 DEF Lasting
    <3> HIDE DEF found2, sch2
    <3> QED
      BY <1>1, <2>9, <3>2, <3>3 DEF Knows
  <2>10. CASE i \in 13..21
    <3>1. "PRIMARY(id)" \in sch2 /\ "email_queue.id" \in sch2 /\ "mail_keys" \in sch2
      <4>1. "PRIMARY(id)" \in sch /\ "email_queue.id" \in sch /\ "mail_keys" \in sch
        BY <1>1, <2>10 DEF Knows
      <4> QED
        BY <2>1, <4>1 DEF Lasting
    <3> HIDE DEF found2, sch2
    <3> QED
      BY <1>1, <2>10, <3>1 DEF Knows
  <2>11. i \in 1..3 \/ i \in 13..21 \/ i \in {4, 5, 6, 7, 8, 9, 10, 11, 12}
    BY <2>0
  <2> QED
    BY <2>2, <2>3, <2>4, <2>5, <2>6, <2>7, <2>8, <2>9, <2>10, <2>11
<1>2. CASE v = 21 /\ i = 6
  <2>1. s = DropTargetOrStop
    BY <1>2, StatementsOfVersions, RefundsSteps DEF Statement
  <2>2. "chk_email_queue_target" \notin sch2
    BY <2>1 DEF DropTargetOrStop, DropTarget, Nothing, Effect
  <2> QED
    BY <1>2, <2>2 DEF Knows
<1>3. CASE v = 26 /\ i = 14
  <2>1. s = DropTarget
    BY <1>3, StatementsOfVersions, ChangesSteps DEF Statement
  <2>2. "chk_email_queue_target" \notin sch2
    BY <2>1 DEF DropTarget, Nothing, Effect
  <2> QED
    BY <1>3, <2>2 DEF Knows
<1>4. CASE v # 14 /\ ~(v = 21 /\ i = 6) /\ ~(v = 26 /\ i = 14)
  BY <1>0, <1>4 DEF Knows
<1> QED
  BY <1>1, <1>2, <1>3, <1>4

---------------------------------------------------------------------------
(* No run fails because of another *)

\* Where a run is, it knows what it may rely on there, and none has failed
\* but in one of the four versions.
RunPrepared(r, found) ==
    /\ r.pc \in {"check", "exec"} =>
          r.step \in 1..Len(Script[r.version]) /\ Knows(r.version, r.step, found, schema)
    /\ r.pc = "record" /\ r.version = 13 => "email_queue" \in schema
    /\ r.pc = "failed" => r.version \in NotRepeatable

\* What every schema, run and statement left at the server keeps true.
\* resumeRecovery changes email_queue, which is there once version 13 is.
Prepared ==
    /\ seen = [p \in Runner |-> seen[p]]
    /\ Coherent(schema)
    /\ 13 \in recorded => "email_queue" \in schema
    /\ \A p \in Runner : RunPrepared(runner[p], seen[p])
    /\ orphan # NoOrphan =>
           /\ orphan[2] \in 0..Len(Script[orphan[1]])
           /\ orphan[1] = 13 /\ orphan[2] = 0 => "email_queue" \in schema

\* There is nothing to rely on at first.
LEMMA InitPrepared == Init => Prepared
BY DEF Init, Prepared, RunPrepared, Coherent, Idle

\* After a statement comes the next one or the record.
LEMMA AfterAt ==
    ASSUME NEW r \in [pc : PC, version : 1..(Latest + 1), step : Nat], r.version \in Version,
           r.step \in 1..Len(Script[r.version])
    PROVE  /\ After(r).version = r.version /\ After(r).pc \in {"check", "record"}
           /\ After(r).pc = "check" =>
                 After(r).step = r.step + 1 /\ r.step + 1 \in 1..Len(Script[r.version])
<1>0. Len(Script[r.version]) \in Nat
  BY EachSound
<1>1. CASE r.step = Len(Script[r.version])
  BY <1>1 DEF After, PC, Holding
<1>2. CASE r.step # Len(Script[r.version])
  <2>1. After(r) = [r EXCEPT !.pc = "check", !.step = r.step + 1]
    BY <1>2 DEF After
  <2>2. After(r) = [pc |-> "check", version |-> r.version, step |-> r.step + 1]
    BY <2>1
  <2>3. r.step + 1 \in 1..Len(Script[r.version])
    BY <1>0, <1>2
  <2> QED
    BY <2>2, <2>3
<1> QED
  BY <1>1, <1>2

\* The only statement of version 13
LEMMA MailStatement ==
    /\ Len(EmailQueue) = 1 /\ EmailQueue # <<>>
    /\ EmailQueue[1] = Table("email_queue", {"PRIMARY(order_id)", "fk_email_queue_order"})
BY DEF EmailQueue

\* It is never left out and leaves email_queue in the schema.
LEMMA MailTable ==
    ASSUME NEW i \in 1..Len(Script[13])
    PROVE  /\ Statement(13, i).enough = {} /\ \A p : ~LeftOut(Statement(13, i), p)
           /\ \A sch : "email_queue" \in Effect(Statement(13, i), sch)
<1> DEFINE s == Table("email_queue", {"PRIMARY(order_id)", "fk_email_queue_order"})
<1>1. i = 1
  BY StatementsOfVersions, MailStatement
<1>2. Statement(13, 1) = s
  BY StatementsOfVersions, MailStatement DEF Statement
<1>3. s.enough = {} /\ (\A p : ~LeftOut(s, p)) /\ \A sch : "email_queue" \in Effect(s, sch)
  BY DEF Table, Nothing, LeftOut, Effect
<1> QED
  BY <1>1, <1>2, <1>3

\* A step of one run that leaves the schema alone is no concern of others.
LEMMA OthersPrepared ==
    ASSUME Prepared, NEW p \in Runner, schema' = schema,
           \A q \in Runner : q # p => runner'[q] = runner[q] /\ seen'[q] = seen[q],
           RunPrepared(runner[p], seen[p])'
    PROVE  \A q \in Runner : RunPrepared(runner[q], seen[q])'
<1>1. ASSUME NEW q \in Runner, q # p PROVE RunPrepared(runner[q], seen[q])'
  <2>1. RunPrepared(runner[q], seen[q])
    BY DEF Prepared
  <2> QED
    BY <1>1, <2>1 DEF RunPrepared
<1> QED
  BY <1>1

\* A run begins, gets the lock, gives up waiting, or passes a version.
LEMMA StartPrepared ==
    ASSUME Typed, Prepared, NEW p \in Runner,
           Start(p) \/ LockTimeout(p) \/ acquireLock(p) \/ Finish(p) \/ apply(p)
    PROVE  Prepared'
<1> USE DEF Typed, TypeOK, Goto
<1>0. /\ seen' = [q \in Runner |-> seen'[q]] /\ (apply(p) => seen'[p] = {})
      /\ \A q \in Runner : q # p => seen'[q] = seen[q]
  <2>1. seen = [q \in Runner |-> seen[q]]
    BY DEF Prepared
  <2>2. seen' = seen \/ seen' = [seen EXCEPT ![p] = {}]
    BY DEF Start, LockTimeout, acquireLock, Finish, apply
  <2>3. CASE seen' = seen
    <3>1. ~apply(p) \/ seen[p] = {}
      BY <2>1, <2>3 DEF apply
    <3> QED
      BY <2>1, <2>3, <3>1
  <2>4. CASE seen' = [seen EXCEPT ![p] = {}]
    BY <2>1, <2>4
  <2> QED
    BY <2>2, <2>3, <2>4
<1>1. \A q \in Runner : q # p => runner'[q] = runner[q] /\ seen'[q] = seen[q]
  BY <1>0 DEF Start, LockTimeout, acquireLock, Finish, apply
<1>2. schema' = schema /\ recorded' = recorded /\ orphan' = orphan
  BY DEF Start, LockTimeout, acquireLock, Finish, apply
<1>3. RunPrepared(runner[p], seen[p])'
  <2> DEFINE v == runner[p].version
  <2>1. CASE ~apply(p)
    <3>1. runner'[p].pc \in {"waiting", "down", "apply", "up"}
      BY <2>1 DEF Start, LockTimeout, acquireLock, Finish, Idle
    <3> QED
      BY <3>1 DEF RunPrepared
  <2>2. CASE apply(p) /\ v \in recorded
    <3>1. runner'[p].pc = "apply"
      BY <2>2 DEF apply
    <3> QED
      BY <3>1 DEF RunPrepared
  <2>3. CASE apply(p) /\ v \notin recorded /\ Script[v] = <<>>
    <3>1. runner'[p].pc = "record" /\ runner'[p].version = v
      BY <2>3 DEF apply
    <3>2. v # 13
      BY <2>3, StatementsOfVersions, MailStatement
    <3> QED
      BY <3>1, <3>2 DEF RunPrepared
  <2>4. CASE apply(p) /\ v \notin recorded /\ Script[v] # <<>>
    <3>1. /\ v \in Version /\ runner'[p].pc = "check" /\ runner'[p].version = v
          /\ runner'[p].step = 1 /\ seen'[p] = {}
      BY <1>0, <2>4 DEF apply
    <3>2. 1 \in 1..Len(Script[v])
      BY <2>4, <3>1, EachSound
    <3>3. Knows(v, 1, {}, schema)
      BY DEF Knows
    <3> QED
      BY <1>2, <3>1, <3>2, <3>3 DEF RunPrepared
  <2> QED
    BY <2>1, <2>2, <2>3, <2>4
<1>4. \A q \in Runner : RunPrepared(runner[q], seen[q])'
  BY <1>1, <1>2, <1>3, OthersPrepared
<1> QED
  BY <1>0, <1>2, <1>4 DEF Prepared, Coherent

\* It looks and decides.
LEMMA CheckPrepared ==
    ASSUME Typed, Prepared, NEW p \in Runner, Check(p)
    PROVE  Prepared'
<1> USE DEF Typed, TypeOK, Goto
<1> DEFINE v == runner[p].version
           i == runner[p].step
           s == Statement(v, i)
<1>1. \A q \in Runner : q # p => runner'[q] = runner[q] /\ seen'[q] = seen[q]
  BY DEF Check
<1>2. schema' = schema /\ recorded' = recorded /\ orphan' = orphan /\ seen' = seen
  BY DEF Check
<1>3. /\ runner[p].pc = "check" /\ v \in Version
      /\ i \in 1..Len(Script[v]) /\ Knows(v, i, seen[p], schema)
  BY DEF Check, Prepared, RunPrepared
<1>4. RunPrepared(runner[p], seen[p])'
  <2>1. CASE LeftOut(s, p) /\ runner' = [runner EXCEPT ![p] = After(runner[p])]
    <3>1. runner'[p] = After(runner[p])
      BY <2>1
    <3>2. Knows(v, i + 1, seen[p], schema)
      BY <1>3, <2>1, PassedOver
    <3>3. v # 13
      BY <1>3, <2>1, MailTable
    <3> QED
      BY <1>2, <1>3, <3>1, <3>2, <3>3, AfterAt DEF RunPrepared
  <2>2. CASE ~LeftOut(s, p) /\ runner' = [runner EXCEPT ![p].pc = "exec"]
    <3>1. runner'[p].pc = "exec" /\ runner'[p].version = v /\ runner'[p].step = i
      BY <2>2
    <3> QED
      BY <1>2, <1>3, <3>1 DEF RunPrepared
  <2>3. CASE s.enough # {} /\ Goto(p, "record")
    <3>1. runner'[p].pc = "record" /\ runner'[p].version = v
      BY <2>3
    <3>2. v # 13
      BY <1>3, <2>3, MailTable
    <3> QED
      BY <3>1, <3>2 DEF RunPrepared
  <2> QED
    BY <2>1, <2>2, <2>3 DEF Check
<1>5. \A q \in Runner : RunPrepared(runner[q], seen[q])'
  BY <1>1, <1>2, <1>4, OthersPrepared
<1> QED
  BY <1>2, <1>5 DEF Prepared, Coherent

\* It changes the schema: nobody else is at work then.
LEMMA ExecutePrepared ==
    ASSUME Typed, OneAtWork, Prepared, NEW p \in Runner, Execute(p)
    PROVE  Prepared'
<1> USE DEF Typed, TypeOK, Goto
<1> DEFINE v == runner[p].version
           i == runner[p].step
           s == Statement(v, i)
<1>1. \A q \in Runner : q # p => runner'[q] = runner[q] /\ runner[q].pc \notin Holding
  BY DEF Execute, OneAtWork, Holding
<1>2. recorded' = recorded /\ orphan' = orphan
  BY DEF Execute
<1>3. /\ runner[p].pc = "exec" /\ v \in Version
      /\ i \in 1..Len(Script[v]) /\ Knows(v, i, seen[p], schema) /\ ~Refused(s, schema)
  BY DEF Execute, Prepared, RunPrepared
<1>4. /\ schema' = Effect(s, schema) /\ seen'[p] = seen[p] \cup (s.remember \cap schema)
      /\ runner'[p] = After(runner[p]) /\ seen' = [q \in Runner |-> seen'[q]]
      /\ \A q \in Runner : q # p => seen'[q] = seen[q]
  <2>1. seen = [q \in Runner |-> seen[q]]
    BY DEF Prepared
  <2>2. seen' = [seen EXCEPT ![p] = seen[p] \cup (s.remember \cap schema)]
    BY DEF Execute
  <2>3. schema' = Effect(s, schema) /\ runner'[p] = After(runner[p])
    BY DEF Execute
  <2> HIDE DEF s
  <2>4. seen'[p] = seen[p] \cup (s.remember \cap schema)
    BY <2>1, <2>2
  <2>5. seen' = [q \in Runner |-> seen'[q]] /\ \A q \in Runner : q # p => seen'[q] = seen[q]
    BY <2>1, <2>2
  <2> QED
    BY <2>3, <2>4, <2>5
<1>5. Sound(s)
  BY <1>3, EachSound
<1>6. Coherent(schema') /\ \A o \in Lasting : o \in schema => o \in schema'
  BY <1>4, <1>5, EffectCoherent DEF Prepared
<1>7. RunPrepared(runner[p], seen[p])'
  <2>1. Knows(v, i + 1, seen'[p], schema')
    <3>1. Knows(v, i + 1, seen[p] \cup (s.remember \cap schema), Effect(s, schema))
      BY <1>3, CarriedOut
    <3> HIDE DEF s, v, i
    <3> QED
      BY <1>4, <3>1
  <2>2. v = 13 => "email_queue" \in schema'
    BY <1>3, <1>4, MailTable
  <2> HIDE DEF s
  <2> QED
    BY <1>3, <1>4, <2>1, <2>2, AfterAt DEF RunPrepared
<1>8. ASSUME NEW q \in Runner, q # p PROVE RunPrepared(runner[q], seen[q])'
  <2>1. runner'[q].pc \notin {"check", "exec", "record"} /\ runner'[q] = runner[q]
    BY <1>1, <1>8 DEF Holding
  <2> QED
    BY <2>1 DEF Prepared, RunPrepared
<1>9. orphan = NoOrphan
  BY <1>3, RunnerAssumption DEF OneAtWork, Holding
<1> QED
  BY <1>2, <1>4, <1>6, <1>7, <1>8, <1>9 DEF Prepared, Lasting

\* A refusal: the run is in one of the four versions.
LEMMA RefusedMeans ==
    ASSUME Typed, OneAtWork, OneAfterTheOther, Prepared, NEW p \in Runner, Refuse(p)
    PROVE  runner[p].version \in NotRepeatable
<1> DEFINE v == runner[p].version
           i == runner[p].step
<1>1. /\ v \in Version /\ i \in 1..Len(Script[v]) /\ Knows(v, i, seen[p], schema)
      /\ Coherent(schema) /\ Refused(Statement(v, i), schema)
  BY DEF Refuse, Prepared, RunPrepared, Typed
<1>2. ~LeftOut(Statement(v, i), p)
  BY DEF Refuse, OneAtWork, LooksStayTrue
<1>3. v = 14 => "email_queue" \in schema
  <2>1. v = 14 => recorded = 1..13
    BY DEF Refuse, OneAfterTheOther
  <2> QED
    BY <2>1 DEF Prepared
<1> HIDE DEF v, i
<1> QED
  BY <1>1, <1>2, <1>3, LookedAt DEF v

\* A run that is refused ends there.
LEMMA RefusePrepared ==
    ASSUME Typed, OneAtWork, OneAfterTheOther, Prepared, NEW p \in Runner, Refuse(p)
    PROVE  Prepared'
<1> USE DEF Typed, TypeOK, Goto
<1>1. \A q \in Runner : q # p => runner'[q] = runner[q] /\ seen'[q] = seen[q]
  BY DEF Refuse
<1>2. schema' = schema /\ recorded' = recorded /\ orphan' = orphan /\ seen' = seen
  BY DEF Refuse
<1>3. runner'[p].pc = "failed" /\ runner'[p].version \in NotRepeatable
  BY RefusedMeans DEF Refuse
<1>4. RunPrepared(runner[p], seen[p])'
  BY <1>3 DEF RunPrepared
<1>5. \A q \in Runner : RunPrepared(runner[q], seen[q])'
  BY <1>1, <1>2, <1>4, OthersPrepared
<1> QED
  BY <1>2, <1>5 DEF Prepared, Coherent

\* A version is recorded.
LEMMA RecordPrepared ==
    ASSUME Typed, OneAtWork, Prepared, NEW p \in Runner, Record(p)
    PROVE  Prepared'
<1> USE DEF Typed, TypeOK, Goto
<1> DEFINE v == runner[p].version
<1>1. \A q \in Runner : q # p => runner'[q] = runner[q] /\ runner[q].pc \notin Holding
  BY DEF Record, OneAtWork, Holding
<1>2. /\ recorded' = recorded \cup {v} /\ orphan' = orphan /\ seen' = seen
      /\ (schema' = schema \/ schema' = schema \cup {"seed"}) /\ runner'[p].pc = "apply"
  BY DEF Record, CommittedWithRecord
<1>3. Coherent(schema') /\ \A o \in Lasting : o \in schema => o \in schema'
  BY <1>2 DEF Prepared, Coherent
<1>4. v = 13 => "email_queue" \in schema
  BY DEF Record, Prepared, RunPrepared
<1>5. ASSUME NEW q \in Runner PROVE RunPrepared(runner[q], seen[q])'
  <2>1. CASE q = p
    BY <1>2, <2>1 DEF RunPrepared
  <2>2. CASE q # p
    <3>1. runner'[q].pc \notin {"check", "exec", "record"} /\ runner'[q] = runner[q]
      BY <1>1, <2>2 DEF Holding
    <3> QED
      BY <3>1 DEF Prepared, RunPrepared
  <2> QED
    BY <2>1, <2>2
<1>6. orphan = NoOrphan
  BY RunnerAssumption DEF Record, OneAtWork, Holding
<1> QED
  BY <1>2, <1>3, <1>4, <1>5, <1>6 DEF Prepared, Lasting

\* A run is cut short: the server keeps a statement of its version.
LEMMA CutPrepared ==
    ASSUME Typed, Prepared, NEW p \in Runner, Interrupt(p)
    PROVE  Prepared'
<1> USE DEF Typed, TypeOK, Goto
<1>1. \A q \in Runner : q # p => runner'[q] = runner[q] /\ seen'[q] = seen[q]
  BY DEF Interrupt
<1>2. schema' = schema /\ recorded' = recorded /\ seen' = seen /\ runner'[p].pc = "down"
  BY DEF Interrupt
<1>3. RunPrepared(runner[p], seen[p])'
  BY <1>2 DEF RunPrepared
<1>4. \A q \in Runner : RunPrepared(runner[q], seen[q])'
  BY <1>1, <1>2, <1>3, OthersPrepared
<1>5. orphan' # NoOrphan =>
          /\ orphan'[2] \in 0..Len(Script[orphan'[1]])
          /\ orphan'[1] = 13 /\ orphan'[2] = 0 => "email_queue" \in schema
  <2> DEFINE v == runner[p].version
             i == runner[p].step
  <2>1. CASE runner[p].pc = "exec"
    <3>1. orphan' = <<v, i>> /\ i \in 1..Len(Script[v]) /\ v \in Version
      BY <2>1 DEF Interrupt, Prepared, RunPrepared
    <3>2. i \in 0..Len(Script[v]) /\ i # 0
      BY <3>1, EachSound
    <3> HIDE DEF v, i
    <3> QED
      BY <3>1, <3>2
  <2>2. CASE runner[p].pc = "record"
    <3>1. orphan' = <<v, 0>> /\ v \in Version /\ (v = 13 => "email_queue" \in schema)
      BY <2>2 DEF Interrupt, Prepared, RunPrepared
    <3>2. 0 \in 0..Len(Script[v])
      BY <3>1, EachSound
    <3> HIDE DEF v
    <3> QED
      BY <3>1, <3>2
  <2>3. CASE runner[p].pc \notin {"exec", "record"}
    BY <2>3 DEF Interrupt, Prepared
  <2> QED
    BY <2>1, <2>2, <2>3
<1> QED
  BY <1>2, <1>4, <1>5 DEF Prepared, Coherent

\* The statement takes effect or does not, with nobody at work.
LEMMA EndPrepared ==
    ASSUME Typed, OneAtWork, Prepared, OrphanEnds
    PROVE  Prepared'
<1> USE DEF Typed, TypeOK
<1> DEFINE v == orphan[1]
           i == orphan[2]
<1>1. /\ runner' = runner /\ seen' = seen /\ orphan' = NoOrphan
      /\ v \in Version /\ i \in 0..Len(Script[v]) /\ (v = 13 /\ i = 0 => "email_queue" \in schema)
  BY DEF OrphanEnds, Prepared
<1>2. \A q \in Runner : runner[q].pc \notin Holding
  BY RunnerAssumption DEF OrphanEnds, OneAtWork
<1>3. \A q \in Runner : RunPrepared(runner[q], seen[q])'
  BY <1>1, <1>2 DEF Prepared, RunPrepared, Holding
<1>4. Coherent(schema') /\ \A o \in Lasting : o \in schema => o \in schema'
  <2>1. CASE schema' = schema \/ schema' = schema \cup {"seed"}
    BY <2>1 DEF Prepared, Coherent
  <2>2. CASE i > 0 /\ schema' = Effect(Statement(v, i), schema)
    <3>1. Sound(Statement(v, i))
      BY <1>1, <2>2, EachSound
    <3> QED
      BY <2>2, <3>1, EffectCoherent DEF Prepared
  <2> QED
    BY <2>1, <2>2 DEF OrphanEnds, CommittedWithRecord
<1>5. 13 \in recorded' => 13 \in recorded \/ (v = 13 /\ i = 0)
  BY DEF OrphanEnds
<1> QED
  BY <1>1, <1>3, <1>4, <1>5 DEF Prepared, Lasting

\* No step breaks it.
LEMMA StaysPrepared ==
    ASSUME Typed, OneAtWork, OneAfterTheOther, Prepared, [Next]_vars
    PROVE  Prepared'
<1>1. ASSUME NEW p \in Runner, Start(p) \/ Step(p) \/ LockTimeout(p) PROVE Prepared'
  BY <1>1, StartPrepared, CheckPrepared, ExecutePrepared, RefusePrepared, RecordPrepared DEF Step
<1>2. CASE (\E p \in Runner : Interrupt(p)) \/ OrphanEnds
  BY <1>2, CutPrepared, EndPrepared
<1>3. CASE UNCHANGED vars
  BY <1>3 DEF vars, Prepared, RunPrepared, Coherent
<1> QED
  BY <1>1, <1>2, <1>3 DEF Next

\* Whatever an interrupted run has left behind, a statement half-way in any
\* version included, no later run is refused by the server because of it,
\* but in the four versions that are run as they stand.
THEOREM InterruptedRunsResumeTheorem == Spec => []InterruptedRunsResume
<1> DEFINE Inv == Typed /\ OneAtWork /\ OneAfterTheOther
<1>1. Init => Prepared
  BY InitPrepared
<1>2. Inv /\ Prepared /\ [Next]_vars => Prepared'
  BY StaysPrepared
<1>3. Prepared => InterruptedRunsResume
  BY DEF Prepared, RunPrepared, InterruptedRunsResume
<1>4. Spec => []Inv
  BY RunsKeepOrder
<1> QED
  BY <1>1, <1>2, <1>3, <1>4, PTL DEF Spec
===========================================================================
