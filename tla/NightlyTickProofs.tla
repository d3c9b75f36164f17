------------------------- MODULE NightlyTickProofs -------------------------
(* What the advisory lock and the ledger of NightlyTick guarantee, for any  *)
(* number of processes, days and faults; and what the plans it calculates   *)
(* guarantee, for every activity, profile, booking and asset (Planning).    *)
EXTENDS NightlyTick, Planning, FoldTheorems, SequenceTheorems, TLAPS

USE TickAssumption

Inv == TypeOK /\ LedgerInv

LEMMA IdleHoldsNothing == "idle" \notin Holding /\ "lock" \notin Holding
  BY DEF Holding, Deciding, Committed, Learning

-----------------------------------------------------------------------------
(* A step that a working process takes within its run: it may write its own *)
(* row, and what it did to the row fits the place it goes to.               *)
LEMMA WorkKeepsInv ==
  ASSUME Inv,
         NEW t \in Ticks, NEW pc \in Holding, NEW row \in RunStatus,
         tick[t].pc \in Holding \ {"unlock"},
         tick' = [tick EXCEPT ![t].pc = pc],
         lookahead' = [lookahead EXCEPT ![tick[t].day] = row],
         RowFits(tick[t].pc, lookahead[tick[t].day]) => RowFits(pc, row),
         learning' \in [1 .. Days -> RunStatus],
         faults' \in 0 .. MaxFaults,
         UNCHANGED <<clock, lock, contested>>
  PROVE  Inv'
<1> DEFINE d == tick[t].day
<1>1. d \in 1 .. Days /\ d \in 1 .. clock.day
  <2>1. tick[t].pc # "idle"
    BY IdleHoldsNothing
  <2>2. d \in 1 .. clock.day /\ clock.day \in 1 .. Days
    BY <2>1 DEF Inv, TypeOK, LedgerInv
  <2> QED BY <2>2
<1>2. TypeOK'
  BY <1>1 DEF Inv, TypeOK
<1>3. ASSUME NEW u \in Ticks
      PROVE  /\ HoldsLock(u)'
             /\ (lock = u => tick[u].pc \in Holding)'
             /\ (tick[u].pc # "idle" => tick[u].day \in 1 .. clock.day)'
             /\ (tick[u].day \in 1 .. Days \ contested
                   => RowFits(tick[u].pc, lookahead[tick[u].day]))'
  <2>1. CASE u = t
    <3>1. tick'[u].pc = pc /\ tick'[u].day = d /\ lookahead'[d] = row
      BY <2>1, <1>1 DEF Inv, TypeOK
    <3>2. (tick[u].day \in 1 .. Days \ contested
                   => RowFits(tick[u].pc, lookahead[tick[u].day]))'
      <4>1. d \notin contested => RowFits(tick[t].pc, lookahead[d])
        BY <1>1 DEF Inv, LedgerInv
      <4> QED BY <4>1, <3>1 DEF RowFits
    <3>3. lock = t \/ d \in contested
      BY DEF Inv, LedgerInv, HoldsLock
    <3> QED BY <3>1, <3>2, <3>3, <2>1, <1>1 DEF HoldsLock
  <2>2. CASE u # t
    <3>1. tick'[u] = tick[u]
      BY <2>2 DEF Inv, TypeOK
    <3>2. (tick[u].day \in 1 .. Days \ contested
                   => RowFits(tick[u].pc, lookahead[tick[u].day]))'
      <4>1. CASE tick[u].day # d
        <5>1. lookahead'[tick[u].day] = lookahead[tick[u].day] \/ tick[u].day \notin 1 .. Days
          BY <4>1 DEF Inv, TypeOK
        <5> QED BY <5>1, <3>1 DEF Inv, LedgerInv, RowFits
      <4>2. CASE tick[u].day = d /\ d \notin contested
        <5>1. lock = t
          BY <4>2 DEF Inv, LedgerInv, HoldsLock
        <5>2. tick[u].pc \in {"idle", "lock", "unlock"}
          BY <5>1, <4>2, <2>2 DEF Inv, TypeOK, LedgerInv, HoldsLock
        <5> QED BY <5>2, <3>1 DEF RowFits, Learning
      <4>3. CASE d \in contested
        BY <4>3, <4>1, <3>1
      <4> QED BY <4>1, <4>2, <4>3
    <3>3. HoldsLock(u)'
      BY <3>1 DEF Inv, LedgerInv, HoldsLock
    <3> QED BY <3>1, <3>2, <3>3 DEF Inv, LedgerInv
  <2> QED BY <2>1, <2>2
<1> QED BY <1>2, <1>3 DEF Inv, LedgerInv

(* The end of a process, by itself or by a crash.                           *)
LEMMA ExitKeepsInv ==
  ASSUME Inv, NEW t \in Ticks, Exit(t), faults' \in 0 .. MaxFaults,
         UNCHANGED <<clock, lookahead, learning, contested>>
  PROVE  Inv'
<1>1. tick' = [tick EXCEPT ![t] = Idle] /\ lock' = IF lock = t THEN NoTick ELSE lock
  BY DEF Exit
<1>2. TypeOK'
  BY <1>1 DEF Inv, TypeOK, Idle
<1>3. ASSUME NEW u \in Ticks
      PROVE  /\ HoldsLock(u)'
             /\ (lock = u => tick[u].pc \in Holding)'
             /\ (tick[u].pc # "idle" => tick[u].day \in 1 .. clock.day)'
             /\ (tick[u].day \in 1 .. Days \ contested
                   => RowFits(tick[u].pc, lookahead[tick[u].day]))'
  <2>1. CASE u = t
    <3>1. tick'[u] = [pc |-> "idle", day |-> 0] /\ lock' # u
      BY <2>1, <1>1 DEF Inv, TypeOK, Idle
    <3>2. tick'[u].pc = "idle" /\ tick'[u].day = 0
      BY <3>1
    <3> QED BY <3>1, <3>2, IdleHoldsNothing DEF HoldsLock
  <2>2. CASE u # t
    <3>1. tick'[u] = tick[u] /\ (lock' = u <=> lock = u)
      BY <2>2, <1>1 DEF Inv, TypeOK
    <3>2. HoldsLock(u)'
      BY <3>1 DEF Inv, LedgerInv, HoldsLock
    <3>3. (tick[u].day \in 1 .. Days \ contested
                   => RowFits(tick[u].pc, lookahead[tick[u].day]))'
      BY <3>1 DEF Inv, LedgerInv, RowFits
    <3> QED BY <3>1, <3>2, <3>3 DEF Inv, LedgerInv
  <2> QED BY <2>1, <2>2
<1> QED BY <1>2, <1>3 DEF Inv, LedgerInv

LEMMA InitInv == Init => Inv
<1> SUFFICES ASSUME Init PROVE Inv
  OBVIOUS
<1>1. TypeOK
  BY DEF Init, TypeOK, RunStatus, Idle
<1>2. ASSUME NEW t \in Ticks
      PROVE  tick[t].pc = "idle" /\ tick[t].day = 0 /\ lock # t
  BY DEF Init, Idle
<1>3. ASSUME NEW t \in Ticks
      PROVE  tick[t].pc \notin Holding /\ tick[t].day \notin 1 .. Days \ contested
  BY <1>2, IdleHoldsNothing
<1>4. LedgerInv
  BY <1>2, <1>3 DEF LedgerInv, HoldsLock
<1> QED BY <1>1, <1>4 DEF Inv

(* A step that only moves a working process.                                *)
LEMMA MoveKeepsInv ==
  ASSUME Inv, NEW t \in Ticks, NEW from, NEW to \in Holding,
         from \in Holding \ {"unlock"},
         Move(t, from, to),
         RowFits(from, lookahead[tick[t].day]) => RowFits(to, lookahead[tick[t].day])
  PROVE  Inv'
<1> DEFINE row == lookahead[tick[t].day]
<1>1. tick[t].day \in 1 .. Days
  <2>1. tick[t].pc # "idle"
    BY IdleHoldsNothing DEF Move
  <2>2. tick[t].day \in 1 .. clock.day /\ clock.day \in 1 .. Days
    BY <2>1 DEF Inv, TypeOK, LedgerInv
  <2> QED BY <2>2
<1>2. row \in RunStatus /\ lookahead = [lookahead EXCEPT ![tick[t].day] = row]
  BY <1>1 DEF Inv, TypeOK
<1>3. /\ tick' = [tick EXCEPT ![t].pc = to]
      /\ tick[t].pc \in Holding \ {"unlock"}
      /\ lookahead' = [lookahead EXCEPT ![tick[t].day] = row]
      /\ RowFits(tick[t].pc, lookahead[tick[t].day]) => RowFits(to, row)
      /\ learning' \in [1 .. Days -> RunStatus]
      /\ faults' \in 0 .. MaxFaults
      /\ UNCHANGED <<clock, lock, contested>>
  BY <1>2 DEF Move, Goto, Inv, TypeOK
<1> QED BY <1>2, <1>3, WorkKeepsInv

(* A step that records a status in the row of the lookahead.                *)
LEMMA RecordKeepsInv ==
  ASSUME Inv, NEW t \in Ticks, NEW from \in Holding \ {"unlock"},
         NEW status \in RunStatus, NEW to \in Holding,
         Record(t, from, status, to),
         RowFits(from, lookahead[tick[t].day]) => RowFits(to, status)
  PROVE  Inv'
<1>1. /\ tick' = [tick EXCEPT ![t].pc = to]
      /\ tick[t].pc \in Holding \ {"unlock"}
      /\ lookahead' = [lookahead EXCEPT ![tick[t].day] = status]
      /\ RowFits(tick[t].pc, lookahead[tick[t].day]) => RowFits(to, status)
      /\ learning' \in [1 .. Days -> RunStatus]
      /\ faults' \in 0 .. MaxFaults
      /\ UNCHANGED <<clock, lock, contested>>
  BY DEF Record, Goto, Inv, TypeOK
<1> QED BY <1>1, WorkKeepsInv

(* A step that records a status in the row of feature learning.             *)
LEMMA LearningKeepsInv ==
  ASSUME Inv, NEW t \in Ticks, NEW from \in Learning,
         NEW status \in RunStatus, NEW to \in Learning \cup {"unlock"},
         RecordLearning(t, from, status, to)
  PROVE  Inv'
<1> DEFINE row == lookahead[tick[t].day]
<1>1. from \in Holding \ {"unlock"} /\ to \in Holding /\ tick[t].pc = from
  BY DEF Holding, Learning, RecordLearning
<1>2. tick[t].day \in 1 .. Days
  <2>1. tick[t].pc # "idle"
    BY <1>1, IdleHoldsNothing
  <2>2. tick[t].day \in 1 .. clock.day /\ clock.day \in 1 .. Days
    BY <2>1 DEF Inv, TypeOK, LedgerInv
  <2> QED BY <2>2
<1>3. row \in RunStatus /\ lookahead = [lookahead EXCEPT ![tick[t].day] = row]
  BY <1>2 DEF Inv, TypeOK
<1>4. RowFits(from, row) => RowFits(to, row)
  BY DEF RowFits, Learning
<1>5. learning' \in [1 .. Days -> RunStatus]
  BY <1>2 DEF RecordLearning, Inv, TypeOK
<1>6. /\ tick' = [tick EXCEPT ![t].pc = to]
      /\ lookahead' = [lookahead EXCEPT ![tick[t].day] = row]
      /\ faults' \in 0 .. MaxFaults
      /\ UNCHANGED <<clock, lock, contested>>
  BY <1>3 DEF RecordLearning, Goto, Inv, TypeOK
<1> QED BY <1>1, <1>3, <1>4, <1>5, <1>6, WorkKeepsInv

(* A failing statement, wherever it fails.                                  *)
LEMMA ErrorKeepsInv ==
  ASSUME Inv, NEW t \in Ticks, DatabaseFails(t)
  PROVE  Inv'
<1> DEFINE pc == tick[t].pc
           to == AfterError(pc)
           row == lookahead[tick[t].day]
<1>1. /\ tick' = [tick EXCEPT ![t].pc = to]
      /\ pc \notin {"idle", "unlock"} \cup Running
      /\ UNCHANGED <<clock, lookahead, learning, lock, contested>>
      /\ faults' \in 0 .. MaxFaults
  BY DEF DatabaseFails, Fault, Goto, Inv, TypeOK
<1>2. pc \in {"lock"} \cup Holding
  BY <1>1 DEF Inv, TypeOK
<1>3. to \in Holding /\ (RowFits(pc, row) => RowFits(to, row))
  <2>1. CASE pc \in Deciding \cup {"lock", "reset", "raised", "spoiled"}
    <3>1. to = "unlock"
      BY <2>1 DEF AfterError, Deciding
    <3> QED BY <3>1 DEF Holding, RowFits, Learning
  <2>2. CASE pc \in {"succeed", "partial"}
    <3>1. to = "raised"
      BY <2>2 DEF AfterError, Deciding
    <3> QED BY <3>1, <2>2 DEF Holding, Committed, RowFits, Learning
  <2>3. CASE pc \in {"learn", "learn again"}
    <3>1. to = "spoiled"
      BY <2>3 DEF AfterError, Deciding
    <3> QED BY <3>1, <2>3 DEF Holding, Committed, RowFits, Learning
  <2>4. CASE pc = "learned"
    <3>1. to = "not learned"
      BY <2>4 DEF AfterError, Deciding
    <3> QED BY <3>1, <2>4 DEF Holding, Learning, RowFits
  <2>5. CASE pc \in {"learn first", "not learned"}
    <3>1. to = "unlock"
      BY <2>5 DEF AfterError, Deciding
    <3> QED BY <3>1 DEF Holding, RowFits, Learning
  <2> QED BY <1>1, <1>2, <2>1, <2>2, <2>3, <2>4, <2>5
          DEF Holding, Deciding, Committed, Learning, Running
<1>4. CASE pc = "lock"
  <2>1. to = "unlock" /\ lock # t
    BY <1>4, IdleHoldsNothing DEF AfterError, Inv, LedgerInv
  <2>2. TypeOK'
    BY <1>1, <1>3 DEF Inv, TypeOK
  <2>3. ASSUME NEW u \in Ticks
        PROVE  /\ HoldsLock(u)'
               /\ (lock = u => tick[u].pc \in Holding)'
               /\ (tick[u].pc # "idle" => tick[u].day \in 1 .. clock.day)'
               /\ (tick[u].day \in 1 .. Days \ contested
                     => RowFits(tick[u].pc, lookahead[tick[u].day]))'
    <3>1. CASE u = t
      <4>1. tick'[u].pc = "unlock" /\ tick'[u].day = tick[u].day /\ tick[u].pc # "idle"
        BY <3>1, <1>1, <1>4, <2>1 DEF Inv, TypeOK
      <4> QED BY <4>1, <3>1, <1>1, <1>3, <2>1
              DEF Inv, LedgerInv, HoldsLock, RowFits, Learning
    <3>2. CASE u # t
      <4>1. tick'[u] = tick[u]
        BY <3>2, <1>1 DEF Inv, TypeOK
      <4>2. HoldsLock(u)'
        BY <4>1, <1>1 DEF Inv, LedgerInv, HoldsLock
      <4>3. (tick[u].day \in 1 .. Days \ contested
               => RowFits(tick[u].pc, lookahead[tick[u].day]))'
        BY <4>1, <1>1 DEF Inv, LedgerInv, RowFits
      <4> QED BY <4>1, <4>2, <4>3, <1>1 DEF Inv, LedgerInv
    <3> QED BY <3>1, <3>2
  <2> QED BY <2>2, <2>3 DEF Inv, LedgerInv
<1>5. CASE pc # "lock"
  <2>1. pc \in Holding \ {"unlock"}
    BY <1>1, <1>2, <1>5
  <2>3. row \in RunStatus /\ lookahead = [lookahead EXCEPT ![tick[t].day] = row]
    <3>1. tick[t].day \in 1 .. clock.day /\ clock.day \in 1 .. Days
      BY <2>1, IdleHoldsNothing DEF Inv, TypeOK, LedgerInv
    <3> QED BY <3>1 DEF Inv, TypeOK
  <2>4. /\ tick' = [tick EXCEPT ![t].pc = to]
        /\ lookahead' = [lookahead EXCEPT ![tick[t].day] = row]
        /\ learning' \in [1 .. Days -> RunStatus]
        /\ faults' \in 0 .. MaxFaults
        /\ UNCHANGED <<clock, lock, contested>>
    BY <1>1, <2>3 DEF Inv, TypeOK
  <2> HIDE DEF to, row
  <2> QED BY <1>3, <2>1, <2>3, <2>4, WorkKeepsInv DEF pc, row
<1> QED BY <1>4, <1>5

-----------------------------------------------------------------------------
THEOREM NextKeepsInv ==
  ASSUME Inv, [Next]_vars
  PROVE  Inv'
<1>1. CASE Evening \/ Midnight
  <2>1. /\ clock.day \in 1 .. Days /\ clock'.day \in clock.day .. Days
        /\ clock' \in [day : 1 .. Days, due : BOOLEAN]
        /\ UNCHANGED <<lookahead, learning, tick, lock, contested, faults>>
    <3>1. clock \in [day : 1 .. Days, due : BOOLEAN]
      BY DEF Inv, TypeOK
    <3>2. CASE Evening
      <4>1. clock' = [clock EXCEPT !.due = TRUE]
        BY <3>2 DEF Evening
      <4>2. clock' \in [day : 1 .. Days, due : BOOLEAN] /\ clock'.day = clock.day
        BY <3>1, <4>1
      <4>3. clock.day \in 1 .. Days /\ clock.day \in clock.day .. Days
        BY <3>1
      <4> QED BY <3>2, <4>2, <4>3 DEF Evening
    <3>3. CASE Midnight
      BY <3>1, <3>3 DEF Midnight
    <3> QED BY <1>1, <3>2, <3>3
  <2>2. TypeOK'
    BY <2>1 DEF Inv, TypeOK
  <2>3. ASSUME NEW u \in Ticks
        PROVE  /\ HoldsLock(u)'
               /\ (lock = u => tick[u].pc \in Holding)'
               /\ (tick[u].pc # "idle" => tick[u].day \in 1 .. clock.day)'
               /\ (tick[u].day \in 1 .. Days \ contested
                     => RowFits(tick[u].pc, lookahead[tick[u].day]))'
    <3>1. HoldsLock(u)'
      BY <2>1 DEF Inv, LedgerInv, HoldsLock
    <3>2. (tick[u].day \in 1 .. Days \ contested
             => RowFits(tick[u].pc, lookahead[tick[u].day]))'
      BY <2>1 DEF Inv, LedgerInv, RowFits
    <3>3. (tick[u].pc # "idle" => tick[u].day \in 1 .. clock.day)'
      BY <2>1 DEF Inv, LedgerInv
    <3> QED BY <2>1, <3>1, <3>2, <3>3 DEF Inv, LedgerInv
  <2> QED BY <2>2, <2>3 DEF Inv, LedgerInv
<1>2. CASE UNCHANGED vars
  <2>1. TypeOK'
    BY <1>2 DEF vars, Inv, TypeOK
  <2>2. LedgerInv'
    BY <1>2 DEF vars, Inv, LedgerInv, HoldsLock, RowFits
  <2> QED BY <2>1, <2>2 DEF Inv
<1>3. ASSUME NEW t \in Ticks, Start(t) \/ TryLock(t) \/ LoseLock(t)
      PROVE  Inv'
  <2>1. /\ tick[t].pc \in {"idle", "lock"} \cup Holding
        /\ clock.day \in 1 .. Days
        /\ lock = t => tick[t].pc \in Holding
        /\ UNCHANGED <<clock, lookahead, learning>>
    BY <1>3 DEF Inv, TypeOK, LedgerInv, Start, TryLock, LoseLock
  <2>2. TypeOK'
    <3>1. CASE Start(t)
      BY <3>1, <2>1 DEF Start, Inv, TypeOK
    <3>2. CASE TryLock(t)
      <4>1. "check" \in Holding
        BY DEF Holding, Deciding
      <4>2. tick' \in [Ticks -> [pc : {"idle", "lock"} \cup Holding, day : 0 .. Days]]
        <5>1. CASE tick' = [tick EXCEPT ![t].pc = "check"]
          BY <5>1, <4>1 DEF Inv, TypeOK
        <5>2. CASE tick' = [tick EXCEPT ![t] = Idle]
          BY <5>2 DEF Idle, Inv, TypeOK
        <5> QED BY <3>2, <5>1, <5>2 DEF TryLock, Goto
      <4>3. lock' \in Ticks \cup {NoTick} /\ UNCHANGED <<contested, faults>>
        BY <3>2 DEF TryLock, Inv, TypeOK
      <4> QED BY <4>2, <4>3, <2>1 DEF Inv, TypeOK
    <3>3. CASE LoseLock(t)
      <4>1. tick[t].day \in 1 .. Days
        <5>1. tick[t].pc # "idle"
          BY <3>3 DEF LoseLock, Committed, Learning
        <5> QED BY <5>1, <2>1 DEF Inv, TypeOK, LedgerInv
      <4>2. faults' \in 0 .. MaxFaults
        BY <3>3 DEF LoseLock, Fault, Inv, TypeOK
      <4>3. contested' \subseteq 1 .. Days /\ lock' = NoTick /\ tick' = tick
        BY <3>3, <4>1 DEF LoseLock, Inv, TypeOK
      <4> QED BY <2>1, <4>2, <4>3 DEF Inv, TypeOK
    <3> QED BY <1>3, <3>1, <3>2, <3>3
  <2>3. ASSUME NEW u \in Ticks
        PROVE  /\ HoldsLock(u)'
               /\ (lock = u => tick[u].pc \in Holding)'
               /\ (tick[u].pc # "idle" => tick[u].day \in 1 .. clock.day)'
               /\ (tick[u].day \in 1 .. Days \ contested
                     => RowFits(tick[u].pc, lookahead[tick[u].day]))'
    <3>1. CASE Start(t)
      <4>1. CASE u = t
        <5>1. tick'[u].pc = "lock" /\ tick'[u].day = clock.day /\ lock # u
          BY <4>1, <3>1, IdleHoldsNothing DEF Start, Idle, Inv, TypeOK, LedgerInv
        <5>2. (tick[u].day \in 1 .. Days \ contested
                 => RowFits(tick[u].pc, lookahead[tick[u].day]))'
          BY <5>1 DEF RowFits, Learning
        <5>3. HoldsLock(u)'
          BY <5>1, IdleHoldsNothing DEF HoldsLock
        <5> QED BY <5>1, <5>2, <5>3, <2>1, <3>1 DEF Start
      <4>2. CASE u # t
        <5>1. tick'[u] = tick[u] /\ UNCHANGED <<lock, contested, clock, lookahead>>
          BY <4>2, <3>1 DEF Start, Inv, TypeOK
        <5>2. (tick[u].day \in 1 .. Days \ contested
                 => RowFits(tick[u].pc, lookahead[tick[u].day]))'
          BY <5>1 DEF RowFits, Inv, LedgerInv
        <5>3. HoldsLock(u)'
          BY <5>1 DEF HoldsLock, Inv, LedgerInv
        <5> QED BY <5>1, <5>2, <5>3 DEF Inv, LedgerInv
      <4> QED BY <4>1, <4>2
    <3>2. CASE TryLock(t)
      <4>1. CASE u = t /\ lock = NoTick
        <5>1. /\ tick'[u].pc = "check" /\ tick'[u].day = tick[u].day /\ lock' = u
              /\ tick[u].pc # "idle" /\ tick[u].day \in 1 .. clock.day
          BY <4>1, <3>2 DEF TryLock, Goto, Inv, TypeOK, LedgerInv
        <5>2. (tick[u].day \in 1 .. Days \ contested
                 => RowFits(tick[u].pc, lookahead[tick[u].day]))'
          BY <5>1 DEF RowFits, Learning
        <5> QED BY <5>1, <5>2, <2>1 DEF HoldsLock, Holding, Deciding
      <4>2. CASE u = t /\ lock # NoTick
        <5>1. tick'[u].pc = "idle" /\ tick'[u].day = 0 /\ lock' # u
          BY <4>2, <3>2, IdleHoldsNothing DEF TryLock, Idle, Inv, TypeOK, LedgerInv
        <5> QED BY <5>1, IdleHoldsNothing DEF HoldsLock
      <4>3. CASE u # t
        <5>1. /\ tick'[u] = tick[u] /\ UNCHANGED <<contested, clock, lookahead>>
              /\ lock' = u => lock = u
              /\ lock = u => lock' = u
          BY <4>3, <3>2 DEF TryLock, Goto, Inv, TypeOK
        <5>2. (tick[u].day \in 1 .. Days \ contested
                 => RowFits(tick[u].pc, lookahead[tick[u].day]))'
          BY <5>1 DEF RowFits, Inv, LedgerInv
        <5>3. HoldsLock(u)'
          BY <5>1 DEF HoldsLock, Inv, LedgerInv
        <5> QED BY <5>1, <5>2, <5>3 DEF Inv, LedgerInv
      <4> QED BY <4>1, <4>2, <4>3
    <3>3. CASE LoseLock(t)
      <4>1. /\ UNCHANGED <<tick, clock, lookahead>> /\ lock' = NoTick /\ lock = t
            /\ contested' = contested \cup {tick[t].day}
        BY <3>3 DEF LoseLock
      <4>2. (tick[u].day \in 1 .. Days \ contested
               => RowFits(tick[u].pc, lookahead[tick[u].day]))'
        BY <4>1 DEF RowFits, Inv, LedgerInv
      <4>3. HoldsLock(u)'
        BY <4>1 DEF HoldsLock, Inv, LedgerInv
      <4> QED BY <4>1, <4>2, <4>3 DEF Inv, LedgerInv
    <3> QED BY <1>3, <3>1, <3>2, <3>3
  <2> QED BY <2>2, <2>3 DEF Inv, LedgerInv
<1>4. ASSUME NEW t \in Ticks, Proceed(t), ~TryLock(t)
      PROVE  Inv'
  <2> DEFINE row == lookahead[tick[t].day]
  <2>1. CASE Check(t)
    <3>1. "check" \in Holding \ {"unlock"} /\ tick[t].pc = "check"
      BY <2>1 DEF Check, Holding, Deciding
    <3>2. row \in RunStatus
      <4>1. tick[t].day \in 1 .. clock.day /\ clock.day \in 1 .. Days
        BY <3>1, IdleHoldsNothing DEF Inv, TypeOK, LedgerInv
      <4> QED BY <4>1 DEF Inv, TypeOK
    <3>3. AfterCheck(row) \in Holding /\ RowFits(AfterCheck(row), row)
      <4>1. CASE row = "succeeded"
        <5>1. AfterCheck(row) = "unlock"
          BY <4>1 DEF AfterCheck
        <5> QED BY <5>1 DEF Holding, RowFits, Learning
      <4>2. CASE row = "failed"
        <5>1. AfterCheck(row) = "reopen"
          BY <4>2 DEF AfterCheck
        <5> QED BY <4>2, <5>1 DEF Holding, Deciding, RowFits, Learning
      <4>3. CASE row = "running"
        <5>1. AfterCheck(row) = "stale"
          BY <4>3 DEF AfterCheck
        <5> QED BY <4>3, <5>1 DEF Holding, Deciding, RowFits, Learning
      <4>4. CASE row = "none"
        <5>1. AfterCheck(row) = "insert"
          BY <4>4 DEF AfterCheck
        <5> QED BY <4>4, <5>1 DEF Holding, Deciding, RowFits, Learning
      <4> QED BY <3>2, <4>1, <4>2, <4>3, <4>4 DEF RunStatus
    <3>4. Move(t, "check", AfterCheck(row))
      BY <2>1 DEF Check
    <3> QED BY <3>1, <3>3, <3>4, MoveKeepsInv
  <2>2. ASSUME NEW from \in {"reopen", "insert", "reset"}, Record(t, from, "running", "run")
        PROVE  Inv'
    <3>1. from \in Holding \ {"unlock"} /\ "running" \in RunStatus /\ "run" \in Holding
      BY DEF Holding, Deciding, Committed, RunStatus
    <3>2. RowFits("run", "running")
      BY DEF RowFits, Learning
    <3> QED BY <2>2, <3>1, <3>2, RecordKeepsInv
  <2>3. CASE MarkStale(t)
    <3>1. "stale" \in Holding \ {"unlock"} /\ "failed" \in RunStatus /\ "reset" \in Holding
      BY DEF Holding, Deciding, Committed, RunStatus
    <3>2. RowFits("reset", "failed")
      BY DEF RowFits, Learning
    <3> QED BY <2>3, <3>1, <3>2, RecordKeepsInv DEF MarkStale
  <2>4. ASSUME NEW to \in {"succeed", "partial", "raised"}, Move(t, "run", to)
        PROVE  Inv'
    <3>1. "run" \in Holding \ {"unlock"} /\ to \in Holding
      BY DEF Holding, Committed
    <3>2. RowFits("run", row) => RowFits(to, row)
      BY DEF RowFits, Learning
    <3> QED BY <2>4, <3>1, <3>2, MoveKeepsInv
  <2>5. CASE RecordSuccess(t)
    <3>1. "succeed" \in Holding \ {"unlock"} /\ "succeeded" \in RunStatus /\ "learn" \in Holding
      BY DEF Holding, Committed, Learning, RunStatus
    <3>2. RowFits("learn", "succeeded")
      BY DEF RowFits, Learning
    <3> QED BY <2>5, <3>1, <3>2, RecordKeepsInv DEF RecordSuccess
  <2>6. ASSUME NEW from \in {"partial", "raised", "spoiled"}, Record(t, from, "failed", "unlock")
        PROVE  Inv'
    <3>1. from \in Holding \ {"unlock"} /\ "failed" \in RunStatus /\ "unlock" \in Holding
      BY DEF Holding, Committed, RunStatus
    <3>2. RowFits("unlock", "failed")
      BY DEF RowFits, Learning
    <3> QED BY <2>6, <3>1, <3>2, RecordKeepsInv
  <2>7. ASSUME NEW from \in Learning, NEW to \in Learning \cup {"unlock"}, Move(t, from, to)
        PROVE  Inv'
    <3>1. from \in Holding \ {"unlock"} /\ to \in Holding
      BY DEF Holding, Learning
    <3>2. RowFits(from, row) => RowFits(to, row)
      BY DEF RowFits, Learning
    <3> QED BY <2>7, <3>1, <3>2, MoveKeepsInv
  <2>8. CASE LearningCheck(t) \/ RunLearning(t)
    <3>1. PICK from \in Learning, to \in Learning \cup {"unlock"} : Move(t, from, to)
      BY <2>8 DEF LearningCheck, RunLearning, Learning
    <3> QED BY <3>1, <2>7
  <2>9. ASSUME NEW from \in Learning, NEW status \in RunStatus,
               NEW to \in Learning \cup {"unlock"}, RecordLearning(t, from, status, to)
        PROVE  Inv'
    BY <2>9, LearningKeepsInv
  <2>10. CASE LearnAgain(t) \/ RecordLearned(t) \/ RecordNotLearned(t)
    <3>1. PICK from \in Learning, status \in RunStatus, to \in Learning \cup {"unlock"} :
             RecordLearning(t, from, status, to)
      BY <2>10 DEF LearnAgain, RecordLearned, RecordNotLearned, Learning, RunStatus
    <3> QED BY <3>1, <2>9
  <2>11. CASE LearnFirst(t)
    <3>1. "learn first" \in Learning /\ "running" \in RunStatus /\ "learning" \in Learning
      BY DEF Learning, RunStatus
    <3>2. \/ RecordLearning(t, "learn first", "running", "learning")
          \/ Move(t, "learn first", "unlock")
      BY <2>11 DEF LearnFirst
    <3> QED BY <3>1, <3>2, <2>7, <2>9
  <2>12. CASE Unlock(t)
    BY <2>12, ExitKeepsInv DEF Unlock, Inv, TypeOK
  <2> QED BY <1>4, <2>1, <2>2, <2>3, <2>4, <2>5, <2>6, <2>8, <2>10, <2>11, <2>12
          DEF Proceed, Reopen, InsertRun, ResetRun, RunLookahead, RecordPartial, RecordException
<1>5. ASSUME NEW t \in Ticks, Crash(t)
      PROVE  Inv'
  BY <1>5, ExitKeepsInv DEF Crash, Fault, Inv, TypeOK
<1> QED BY <1>1, <1>2, <1>3, <1>4, <1>5, ErrorKeepsInv DEF Next, Proceed, Break

-----------------------------------------------------------------------------
(* The theorems.                                                            *)

THEOREM InvAlways == Spec => []Inv
<1>1. Init => Inv
  BY InitInv
<1>2. Inv /\ [Next]_vars => Inv'
  BY NextKeepsInv
<1> QED BY <1>1, <1>2, PTL DEF Spec

(* Every row holds a status its check constraint lists, and every process  *)
(* is at a place of the program.                                            *)
THEOREM TypesAreKept == Spec => []TypeOK
<1>1. Inv => TypeOK
  BY DEF Inv
<1> QED BY <1>1, InvAlways, PTL

(* Whatever crashes and fails: on the days on which no lock was lost, a     *)
(* process that works holds the lock, and the row is as it left it.         *)
THEOREM LedgerIsKept == Spec => []LedgerInv
<1>1. Inv => LedgerInv
  BY DEF Inv
<1> QED BY <1>1, InvAlways, PTL

(* Two processes compute together only on a day on which a lock was lost.   *)
THEOREM RunsAreExclusive == Spec => []RunsExclusive
<1>1. Inv => RunsExclusive
  <2> SUFFICES ASSUME Inv, NEW t \in Ticks, NEW u \in Ticks, t # u,
                      tick[t].pc \in Running, tick[u].pc \in Running
               PROVE  {tick[t].day, tick[u].day} \cap contested # {}
    BY DEF RunsExclusive
  <2>1. tick[t].pc \in Holding \ {"unlock"} /\ tick[u].pc \in Holding \ {"unlock"}
    BY DEF Running, Holding, Committed, Learning
  <2>2. HoldsLock(t) /\ HoldsLock(u)
    BY DEF Inv, LedgerInv
  <2> QED BY <2>1, <2>2 DEF HoldsLock
<1> QED BY <1>1, InvAlways, PTL

(* A success is final, unless a lock was lost on its day or the bookkeeping *)
(* of feature learning failed.                                              *)
THEOREM SuccessesAreFinal == Spec => SuccessIsFinal
<1> DEFINE Final ==
      \A d \in 1 .. Days :
        lookahead[d] = "succeeded" /\ lookahead'[d] # "succeeded" =>
          \/ d \in contested
          \/ \E t \in Ticks : tick[t] = [pc |-> "spoiled", day |-> d]
<1>1. ASSUME Inv, [Next]_vars
      PROVE  Final
  <2> SUFFICES ASSUME NEW d \in 1 .. Days,
                      lookahead[d] = "succeeded", lookahead'[d] # "succeeded", d \notin contested
               PROVE  \E t \in Ticks : tick[t] = [pc |-> "spoiled", day |-> d]
    OBVIOUS
  <2> DEFINE Losing == {"reopen", "insert", "stale", "reset", "partial", "raised", "spoiled"}
  <2>1. PICK t \in Ticks, from \in Losing \cup {"succeed"}, status \in RunStatus, to \in Holding :
          /\ Record(t, from, status, to)
          /\ from = "succeed" => status = "succeeded"
    <3>1. lookahead' # lookahead
      OBVIOUS
    <3>2. PICK t \in Ticks :
            \/ Reopen(t) \/ InsertRun(t) \/ MarkStale(t) \/ ResetRun(t)
            \/ RecordSuccess(t) \/ RecordPartial(t) \/ RecordException(t)
      <4>1. PICK t \in Ticks : Start(t) \/ Proceed(t) \/ Break(t)
        BY <1>1, <3>1 DEF Next, vars, Evening, Midnight
      <4>2. lookahead' = lookahead \/ Proceed(t)
        BY <4>1 DEF Start, Break, Crash, DatabaseFails, LoseLock
      <4>3. Check(t) \/ RunLookahead(t) \/ LearningCheck(t) \/ RunLearning(t) => lookahead' = lookahead
        BY DEF Check, RunLookahead, LearningCheck, RunLearning, Move
      <4>4. LearnAgain(t) \/ LearnFirst(t) \/ RecordLearned(t) \/ RecordNotLearned(t)
              => lookahead' = lookahead
        BY DEF LearnAgain, LearnFirst, RecordLearned, RecordNotLearned, RecordLearning, Move
      <4>5. TryLock(t) \/ Unlock(t) => lookahead' = lookahead
        BY DEF TryLock, Unlock
      <4> QED BY <3>1, <4>2, <4>3, <4>4, <4>5 DEF Proceed
    <3>3. {"run", "reset", "learn", "unlock"} \subseteq Holding
      BY DEF Holding, Committed, Learning
    <3> QED BY <3>2, <3>3
            DEF Reopen, InsertRun, MarkStale, ResetRun, RecordSuccess, RecordPartial,
                RecordException, RunStatus
  <2>2. tick[t].pc = from /\ tick[t].day = d /\ from \in Losing
    BY <2>1, <1>1 DEF Record, Inv, TypeOK
  <2>3. RowFits(from, "succeeded")
    BY <1>1, <2>2 DEF Inv, LedgerInv
  <2>4. from = "spoiled"
    BY <2>2, <2>3 DEF RowFits, Learning
  <2>5. tick[t] = [pc |-> tick[t].pc, day |-> tick[t].day]
    BY <1>1 DEF Inv, TypeOK
  <2> QED BY <2>2, <2>4, <2>5
<1>2. Inv /\ [Next]_vars => [Final]_vars
  BY <1>1
<1> QED BY <1>2, InvAlways, PTL DEF Spec, SuccessIsFinal

(* Were a connection never replaced, the comment at nightly_tick.py 175-176 *)
(* would be right: a row found running is one that nobody computes.         *)
THEOREM StaleRunsHadCrashed ==
  ASSUME "recycle" \notin Faults
  PROVE  Spec => StaleRunsHaveCrashed
<1> DEFINE Crashed ==
      \A t, u \in Ticks :
        tick[t].pc = "stale" /\ tick'[t].pc = "reset" /\ u # t
          => ~(tick[u].pc = "run" /\ tick[u].day = tick[t].day)
           Uncontested == contested = {}
<1>1. Init => Uncontested
  BY DEF Init
<1>2. Uncontested /\ [Next]_vars => Uncontested'
  <2> SUFFICES ASSUME Uncontested, [Next]_vars PROVE Uncontested'
    OBVIOUS
  <2>1. \A t \in Ticks : ~LoseLock(t)
    BY DEF LoseLock, Fault
  <2>2. UNCHANGED contested
    <3>1. CASE Evening \/ Midnight \/ UNCHANGED vars
      BY <3>1 DEF Evening, Midnight, vars
    <3>2. ASSUME NEW t \in Ticks, Start(t) \/ Break(t) \/ TryLock(t) \/ Unlock(t)
          PROVE  UNCHANGED contested
      BY <2>1, <3>2 DEF Start, Break, Crash, DatabaseFails, TryLock, Unlock
    <3>3. ASSUME NEW t \in Ticks,
                 \/ Check(t) \/ RunLookahead(t) \/ LearningCheck(t) \/ LearnFirst(t) \/ RunLearning(t)
          PROVE  UNCHANGED contested
      BY <3>3 DEF Check, RunLookahead, LearningCheck, LearnFirst, RunLearning, Move, RecordLearning
    <3>4. ASSUME NEW t \in Ticks,
                 \/ Reopen(t) \/ InsertRun(t) \/ MarkStale(t) \/ ResetRun(t)
                 \/ RecordSuccess(t) \/ RecordPartial(t) \/ RecordException(t)
          PROVE  UNCHANGED contested
      BY <3>4 DEF Reopen, InsertRun, MarkStale, ResetRun, RecordSuccess, RecordPartial,
                  RecordException, Record
    <3>5. ASSUME NEW t \in Ticks, LearnAgain(t) \/ RecordLearned(t) \/ RecordNotLearned(t)
          PROVE  UNCHANGED contested
      BY <3>5 DEF LearnAgain, RecordLearned, RecordNotLearned, RecordLearning
    <3> QED BY <3>1, <3>2, <3>3, <3>4, <3>5 DEF Next, Proceed
  <2> QED BY <2>2
<1>3. Inv /\ Uncontested => Crashed
  <2> SUFFICES ASSUME Inv, Uncontested, NEW t \in Ticks, NEW u \in Ticks,
                      tick[t].pc = "stale", tick[u].pc = "run", u # t
               PROVE  FALSE
    OBVIOUS
  <2>1. {"stale", "run"} \subseteq Holding \ {"unlock"}
    BY DEF Holding, Deciding, Committed
  <2>2. lock = t /\ lock = u
    BY <2>1 DEF Inv, LedgerInv, HoldsLock
  <2> QED BY <2>2
<1>4. Inv /\ Uncontested => [Crashed]_vars
  BY <1>3
<1> QED BY <1>1, <1>2, <1>4, InvAlways, PTL DEF Spec, StaleRunsHaveCrashed

-----------------------------------------------------------------------------
(* The arithmetic of planning.                                              *)
HIDE TickAssumption

(* What is normalised makes a whole, or hardly more.                        *)
Whole(w, n) ==
    /\ w \in [1..n -> Nat]
    /\ Million <= Total(w, 1..n) /\ 2 * (Total(w, 1..n) - Million) <= n

(* The hours are not so many that what the weights are more by makes a unit. *)
Fits(p, n) == Whole(p.weights, n) /\ p.units \in Nat /\ p.units * n < 2 * Million

Fair(w, g) ==
    /\ \A i, j \in DOMAIN g : w[i] > w[j] => g[i] >= g[j]
    /\ \A i, j \in DOMAIN g : w[i] = w[j] /\ i < j => g[i] \in {g[j], g[j] + 1}

Near == \A i \in DOMAIN given : Remainder(i) < Million /\ -Remainder(i) < Million

DatesOf(a) == Len(WorkDates(a))

PlanningInv ==
    /\ activity \in Activities /\ cap \in Caps /\ bookings \in BookingSets /\ pool \in Pools
    /\ DatesOf(activity) \in Nat \ {0}
    /\ plan = None => given = <<>>
    /\ plan # None => Fits(plan, DatesOf(activity))
    /\ given # <<>> =>
         /\ plan # None
         /\ given \in [1..DatesOf(activity) -> 0..Units(cap)]
         /\ left = plan.units - Total(given, 1..DatesOf(activity)) /\ left >= 0
         /\ Fair(plan.weights, given)
         /\ Open = DOMAIN given => Near
    /\ rows # None => Laid /\ rows = [x \in Weeks \X PlannedTypes |-> Cell(x[1], x[2])]

-----------------------------------------------------------------------------
(* Roundings.                                                               *)

LEMMA MillionIsNatural == Million \in Nat /\ Million > 0
BY SMT DEF Million

LEMMA Division ==
  ASSUME NEW a \in Nat, NEW b \in Nat, b > 0
  PROVE  /\ a \div b \in Nat /\ a % b \in 0..(b - 1)
         /\ a = b * (a \div b) + (a % b)
OBVIOUS

LEMMA MillionthsBound ==
  ASSUME NEW part \in Nat, NEW total \in Nat, total > 0
  PROVE  /\ Millionths(part, total) \in Nat
         /\ (2 * total) * Millionths(part, total) <= (2 * Million) * part + total
<1> DEFINE q == (1000 * part) \div total
           r == (1000 * part) % total
           u == (1000 * r) \div total
           over == (1000 * r) % total
           up == 2 * over > total \/ (2 * over = total /\ (1000 * q + u) % 2 = 1)
<1>1. q \in Nat /\ r \in Nat /\ 1000 * part = total * q + r
  <2>1. 1000 * part \in Nat
    OBVIOUS
  <2> QED
    BY <2>1, Division
<1>2. Millionths(part, total) = IF up THEN 1000 * q + u + 1 ELSE 1000 * q + u
  BY DEF Millionths
<1> HIDE DEF q, r
<1>3. u \in Nat /\ over \in Nat /\ 1000 * r = total * u + over
  <2>1. 1000 * r \in Nat
    BY <1>1
  <2> QED
    BY <2>1, Division
<1> HIDE DEF u, over
<1>4. up => 2 * over >= total
  BY <1>3
<1> HIDE DEF up
<1>5. PICK s : s = IF up THEN u + 1 ELSE u
  OBVIOUS
<1>6. s \in Nat /\ (2 * total) * s <= 2000 * r + total
  <2>1. PICK x \in Int : x = total * u
    BY <1>3
  <2>2. 1000 * r = x + over
    BY <1>3, <2>1
  <2>3. (2 * total) * u = 2 * x /\ (2 * total) * (u + 1) = 2 * x + 2 * total
    BY <1>3, <2>1
  <2>4. CASE up
    BY <1>1, <1>3, <1>4, <1>5, <2>1, <2>2, <2>3, <2>4
  <2>5. CASE ~up
    BY <1>1, <1>3, <1>5, <2>1, <2>2, <2>3, <2>5
  <2> QED
    BY <2>4, <2>5
<1>7. Millionths(part, total) = 1000 * q + s
  BY <1>1, <1>2, <1>3, <1>5
<1>8. (2 * total) * (1000 * q + s) = 2000 * (total * q) + (2 * total) * s
  BY <1>1, <1>6
<1>9. total * q \in Int /\ (2 * total) * s \in Int
  BY <1>1, <1>6
<1> QED
  BY <1>1, <1>6, <1>7, <1>8, <1>9, SMT DEF Million

(* A factor common to both sides of a comparison.                           *)
LEMMA Cancel ==
  ASSUME NEW a \in Int, NEW b \in Int, NEW c \in Nat, c > 0, c * a <= c * b
  PROVE  a <= b
OBVIOUS

LEMMA FunctionAsSequence ==
  ASSUME NEW n \in Nat, NEW V, NEW f \in [1..n -> V]
  PROVE  f \in Seq(V) /\ Len(f) = n /\ DOMAIN f = 1..n
OBVIOUS

LEMMA UptoLast ==
  ASSUME NEW n \in Nat \ {0}
  PROVE  /\ IsFiniteSet(1..n) /\ Cardinality(1..n) = n
         /\ n \in 1..n /\ (1..n) \ {n} = 1..(n - 1) /\ 1..(n - 1) \subseteq 1..n
         /\ Cardinality(1..(n - 1)) = n - 1
<1>1. IsFiniteSet(1..n) /\ Cardinality(1..n) = IF 1 > n THEN 0 ELSE n - 1 + 1
  BY FS_Interval
<1>2. Cardinality(1..(n - 1)) = IF 1 > n - 1 THEN 0 ELSE (n - 1) - 1 + 1
  BY FS_Interval
<1> QED
  BY <1>1, <1>2

LEMMA TotalOfLast ==
  ASSUME NEW n \in Nat \ {0}, NEW f \in [1..n -> Int]
  PROVE  Total(f, 1..n) = f[n] + Total(f, 1..(n - 1))
<1>1. PICK D : D = 1..n
  OBVIOUS
<1>2. IsFiniteSet(D) /\ n \in D /\ D \ {n} = 1..(n - 1)
  BY <1>1, UptoLast
<1>3. f \in [D -> Int] /\ D \in SUBSET D
  BY <1>1
<1>4. Total(f, D) = f[n] + Total(f, D \ {n})
  BY <1>2, <1>3, TotalWithout
<1> QED
  BY <1>1, <1>2, <1>4

LEMMA NotZero ==
  ASSUME NEW n \in Nat \ {0}, NEW f \in [1..n -> Nat]
  PROVE  ~Zero(f) <=> Total(f, 1..n) > 0
<1>1. ASSUME ~Zero(f) PROVE Total(f, 1..n) > 0
  <2>1. PICK i \in 1..n : f[i] > 0
    BY <1>1 DEF Zero
  <2>2. IsFiniteSet(1..n)
    BY UptoLast
  <2> QED
    BY <2>1, <2>2, TotalPositive
<1>2. ASSUME Zero(f) PROVE Total(f, 1..n) = 0
  <2>1. \A i \in 1..n : f[i] = 0
    BY <1>2 DEF Zero
  <2>2. IsFiniteSet(1..n) /\ Cardinality(1..n) = n
    BY UptoLast
  <2>3. f \in [1..n -> Int]
    OBVIOUS
  <2>4. Total(f, 1..n) = 0 * Cardinality(1..n)
    BY <2>1, <2>2, <2>3, TotalConstant
  <2>5. 0 * n = 0
    OBVIOUS
  <2> QED
    BY <2>2, <2>4, <2>5
<1> QED
  BY <1>1, <1>2

LEMMA SameUpto ==
  ASSUME NEW n \in Nat \ {0}, NEW f, f \in [1..n -> Int], NEW g, g \in [1..n -> Int],
         \A i \in 1..(n - 1) : f[i] = g[i]
  PROVE  Total(f, 1..(n - 1)) = Total(g, 1..(n - 1))
<1>1. PICK D, I : D = 1..n /\ I = 1..(n - 1)
  OBVIOUS
<1>2. IsFiniteSet(D) /\ I \in SUBSET D
  BY <1>1, UptoLast
<1>3. f \in [D -> Int] /\ g \in [D -> Int]
  BY <1>1
<1>4. \A i \in I : f[i] = g[i]
  BY <1>1
<1>5. Total(f, I) = Total(g, I)
  BY ONLY <1>2, <1>3, <1>4, TotalSame
<1> QED
  BY <1>1, <1>5

(* The rounded shares of some days, together.                               *)
LEMMA SharesBound ==
  ASSUME NEW D, IsFiniteSet(D), NEW I \in SUBSET D, NEW total \in Nat, total > 0,
         NEW raw \in [D -> Nat], NEW share \in [D -> Nat],
         \A i \in I : share[i] = Millionths(raw[i], total)
  PROVE  (2 * total) * Total(share, I) <= (2 * Million) * Total(raw, I) + total * Cardinality(I)
<1>1. PICK u \in Int, v \in Int, z \in Int, k \in Int, m \in Int :
        u = 2 * total /\ v = 2 * Million /\ z = 0 /\ k = 1 /\ m = total
  BY MillionIsNatural
<1> DEFINE one == [i \in D |-> k]
           h == [i \in D |-> u * share[i]]
           g == [i \in D |-> v * raw[i] + m]
<1>2. /\ one \in [D -> Int] /\ raw \in [D -> Int] /\ share \in [D -> Int]
      /\ h \in [D -> Int] /\ g \in [D -> Int]
  OBVIOUS
<1>3. \A i \in I : h[i] = u * share[i] + z * share[i]
  <2> SUFFICES ASSUME NEW i \in I PROVE h[i] = u * share[i] + z * share[i]
    OBVIOUS
  <2>1. i \in D /\ share[i] \in Int
    BY <1>2
  <2>2. u * share[i] \in Int /\ z * share[i] = 0
    BY <1>1, <2>1
  <2> QED
    BY <2>1, <2>2
<1>4. \A i \in I : g[i] = v * raw[i] + m * one[i]
  <2> SUFFICES ASSUME NEW i \in I PROVE g[i] = v * raw[i] + m * one[i]
    OBVIOUS
  <2>1. i \in D /\ one[i] = 1 /\ m * 1 = m
    BY <1>1
  <2> QED
    BY <2>1
<1>5. \A i \in I : h[i] <= g[i]
  BY <1>1, MillionthsBound
<1>6. \A i \in I : one[i] = k
  OBVIOUS
<1> HIDE DEF one, h, g
<1>15. Combines(h, u, share, z, share, I) /\ Combines(g, v, raw, m, one, I)
  BY <1>3, <1>4 DEF Combines
<1>7. Total(h, I) = u * Total(share, I) + z * Total(share, I)
  BY <1>2, <1>15, TotalLinear
<1>8. Total(g, I) = v * Total(raw, I) + m * Total(one, I)
  BY <1>2, <1>15, TotalLinear
<1>9. Total(one, I) = k * Cardinality(I)
  BY <1>2, <1>6, TotalConstant
<1>10. Total(h, I) <= Total(g, I)
  BY <1>2, <1>5, TotalAtMost
<1>11. Total(share, I) \in Int /\ Total(raw, I) \in Int
  BY <1>2, TotalIsInteger
<1>12. Cardinality(I) \in Nat
  BY FS_Subset, FS_CardinalityType
<1>13. u * Total(share, I) + z * Total(share, I) = (2 * total) * Total(share, I)
  BY <1>1, <1>11
<1>14. k * Cardinality(I) = Cardinality(I)
  BY <1>1, <1>12
<1> QED
  BY <1>1, <1>7, <1>8, <1>9, <1>10, <1>13, <1>14

LEMMA LastShares ==
  ASSUME NEW n \in Nat \ {0}, NEW raw \in [1..n -> Nat], NEW total \in Nat, total > 0,
         total = Total(raw, 1..n),
         NEW share \in [1..n -> Nat], \A i \in 1..n : share[i] = Millionths(raw[i], total)
  PROVE  2 * Total(share, 1..(n - 1)) <= 2 * Million + n
<1>1. PICK D, I : D = 1..n /\ I = 1..(n - 1)
  OBVIOUS
<1>2. IsFiniteSet(D) /\ n \in D /\ I \in SUBSET D /\ Cardinality(I) = n - 1
  BY <1>1, UptoLast
<1>3. PICK P, Q : P = Total(raw, I) /\ Q = Total(share, I)
  OBVIOUS
<1>4. raw \in [D -> Nat] /\ share \in [D -> Nat] /\ \A i \in I : share[i] = Millionths(raw[i], total)
  BY <1>1
<1>5. (2 * total) * Q <= (2 * Million) * P + total * (n - 1)
  <2>1. (2 * total) * Total(share, I) <= (2 * Million) * Total(raw, I) + total * Cardinality(I)
    BY ONLY <1>2, <1>4, total \in Nat, total > 0, SharesBound
  <2> QED
    BY <1>2, <1>3, <2>1
<1>6. P \in Nat /\ Q \in Nat /\ raw[n] \in Nat
  <2>1. Total(raw, I) \in Nat /\ Total(share, I) \in Nat
    BY ONLY <1>2, <1>4, TotalIsNatural
  <2> QED
    BY <1>3, <2>1
<1>7. total = raw[n] + P
  <2>1. raw \in [1..n -> Int]
    OBVIOUS
  <2> QED
    BY <1>1, <1>3, <2>1, TotalOfLast
<1>16. (2 * Million) * P <= (2 * Million) * total
  BY <1>6, <1>7, SMT DEF Million
<1>17. (2 * total) * Q = total * (2 * Q)
  BY <1>6
<1>18. total * (n - 1) = total * n - total
  OBVIOUS
<1>19. (2 * Million) * total + total * n = total * (2 * Million + n)
  BY MillionIsNatural
<1>20. total * (2 * Q) <= total * (2 * Million + n)
  <2>1. total * n \in Int /\ (2 * Million) * P \in Int /\ (2 * Million) * total \in Int
        /\ total * (2 * Q) \in Int /\ total * (n - 1) \in Int
    BY <1>6, MillionIsNatural
  <2> QED
    BY ONLY <1>5, <1>16, <1>17, <1>18, <1>19, <2>1, total \in Nat, total > 0
<1>21. 2 * Q <= 2 * Million + n
  <2>1. PICK a \in Int, b \in Int : a = 2 * Q /\ b = 2 * Million + n
    BY <1>6, MillionIsNatural
  <2>2. a <= b
    BY <1>20, <2>1, Cancel
  <2> QED
    BY <2>1, <2>2
<1> QED
  BY <1>1, <1>3, <1>21

LEMMA IfNot ==
  ASSUME NEW D, NEW total, total # 0, NEW n, NEW last, NEW share
  PROVE  [i \in D |-> IF total = 0 THEN 0 ELSE IF i = n THEN last ELSE share[i]]
           = [i \in D |-> IF i = n THEN last ELSE share[i]]
OBVIOUS

LEMMA NormalizedIsWhole ==
  ASSUME NEW n \in Nat \ {0}, NEW raw \in [1..n -> Nat]
  PROVE  /\ Normalized(raw) \in [1..n -> Nat]
         /\ ~Zero(raw) => Whole(Normalized(raw), n)
<1> DEFINE total == Total(raw, 1..n)
           share == [i \in 1..n |-> Millionths(raw[i], total)]
           last == Most(0, Million - Total(share, 1..(n - 1)))
<1>1. IsFiniteSet(1..n) /\ n \in 1..n /\ (1..n) \ {n} = 1..(n - 1) /\ 1..(n - 1) \subseteq 1..n
  BY UptoLast
<1>2. DOMAIN raw = 1..n /\ Len(raw) = n
  BY FunctionAsSequence
<1>3. Normalized(raw) = [i \in 1..n |-> IF total = 0 THEN 0 ELSE IF i = n THEN last ELSE share[i]]
  BY <1>2 DEF Normalized, SumSeq
<1>4. total \in Nat
  BY <1>1, TotalIsNatural
<1>5. CASE total = 0
  <2>1. Zero(raw)
    BY <1>5, NotZero
  <2>2. Normalized(raw) = [i \in 1..n |-> 0]
    BY <1>3, <1>5
  <2> QED
    BY <2>1, <2>2
<1>6. CASE total # 0
  <2>1. total > 0
    BY <1>4, <1>6
  <2> HIDE DEF total
  <2>2. \A i \in 1..n : Millionths(raw[i], total) \in Nat
    BY <1>4, <2>1, MillionthsBound
  <2>3. share \in [1..n -> Nat] /\ \A i \in 1..n : share[i] = Millionths(raw[i], total)
    BY <2>2
  <2> HIDE DEF share
  <2>5. total = Total(raw, 1..n)
    BY DEF total
  <2>6. 2 * Total(share, 1..(n - 1)) <= 2 * Million + n
    BY <1>4, <2>1, <2>3, <2>5, LastShares
  <2>7. Total(share, 1..(n - 1)) \in Nat
    BY <1>1, <2>3, TotalIsNatural
  <2>8. last = Most(0, Million - Total(share, 1..(n - 1)))
    BY DEF last
  <2>9. last \in Nat /\ last + Total(share, 1..(n - 1)) >= Million
        /\ 2 * (last + Total(share, 1..(n - 1)) - Million) <= n
    BY <2>6, <2>7, <2>8, MillionIsNatural DEF Most
  <2> HIDE DEF last
  <2>10. PICK w : w = Normalized(raw)
    OBVIOUS
  <2>11. w = [i \in 1..n |-> IF i = n THEN last ELSE share[i]]
    BY <1>3, <1>6, <2>10, IfNot
  <2>12. w \in [1..n -> Nat] /\ w[n] = last /\ \A i \in 1..(n - 1) : w[i] = share[i]
    BY <1>1, <2>3, <2>9, <2>11
  <2>13. w \in [1..n -> Int] /\ share \in [1..n -> Int]
    BY <2>3, <2>12
  <2>14. Total(w, 1..n) = w[n] + Total(w, 1..(n - 1))
    BY <2>13, TotalOfLast
  <2>15. Total(w, 1..(n - 1)) = Total(share, 1..(n - 1))
    BY <2>12, <2>13, SameUpto
  <2>17. Total(w, 1..n) = last + Total(share, 1..(n - 1))
    BY <2>12, <2>14, <2>15
  <2>18. Whole(w, n)
    BY ONLY <2>7, <2>9, <2>12, <2>17, MillionIsNatural DEF Whole
  <2> QED
    BY <2>10, <2>12, <2>18
<1> QED
  BY <1>5, <1>6

-----------------------------------------------------------------------------
(* Working days.                                                            *)

LEMMA DatesAreASequence ==
  ASSUME NEW a, a.from \in Int, a.to \in Int
  PROVE  WorkDates(a) \in Seq(Int)
<1> DEFINE from == Least(a.from, a.to)
           L == Most(a.from, a.to) - from + 1
           Works(n) == (from + n - 1) % 7 < WorkDays(a.days)
           F == [x \in Seq(Int) \X (1..L) |-> IF Works(x[2]) THEN Append(x[1], from + x[2] - 1) ELSE x[1]]
           Solves(h) == h = [n \in 0..L |-> IF n = 0 THEN <<>>
                                            ELSE IF (from + n - 1) % 7 < WorkDays(a.days)
                                                 THEN Append(h[n - 1], from + n - 1) ELSE h[n - 1]]
           h == CHOOSE h : Solves(h)
<1>1. from \in Int /\ L \in Nat /\ <<>> \in Seq(Int)
  BY DEF Least, Most
<1>2. WorkDates(a) = h[L]
  BY DEF WorkDates
<1> HIDE DEF from, L, Works
<1>3. ASSUME NEW s \in Seq(Int), NEW n \in 1..L
      PROVE  (IF Works(n) THEN Append(s, from + n - 1) ELSE s) \in Seq(Int)
  <2>1. from + n - 1 \in Int
    BY <1>1
  <2>2. Append(s, from + n - 1) \in Seq(Int)
    BY <2>1, AppendProperties
  <2> QED
    BY <2>2
<1>4. F \in [Seq(Int) \X (1..L) -> Seq(Int)]
      /\ \A s \in Seq(Int), n \in 1..L : F[<<s, n>>] = IF Works(n) THEN Append(s, from + n - 1) ELSE s
  BY <1>3
<1> HIDE DEF F
<1>5. PICK g : g \in [0..L -> Seq(Int)] /\
         \A n \in 0..L : g[n] = IF n = 0 THEN <<>> ELSE F[<<g[n - 1], n>>]
  <2>1. PICK g : Steps(g, L, Seq(Int), <<>>, F)
    BY <1>1, <1>4, StepsExist
  <2> QED
    BY <2>1 DEF Steps
<1>6. ASSUME NEW n \in 0..L
      PROVE  g[n] = IF n = 0 THEN <<>> ELSE IF Works(n) THEN Append(g[n - 1], from + n - 1) ELSE g[n - 1]
  <2>1. n # 0 => n \in 1..L /\ n - 1 \in 0..L
    BY <1>1
  <2>2. n # 0 => g[n - 1] \in Seq(Int)
    BY <1>5, <2>1
  <2> QED
    BY <1>4, <1>5, <2>1, <2>2
<1>7. Solves(g)
  BY <1>5, <1>6 DEF Works
<1> HIDE DEF Solves
<1>8. Solves(h)
  BY <1>7
<1> HIDE DEF h
<1>9. \A n \in 0..L : h[n] = IF n = 0 THEN <<>>
                             ELSE IF Works(n) THEN Append(h[n - 1], from + n - 1) ELSE h[n - 1]
  BY <1>8 DEF Solves, Works
<1> DEFINE S == {n \in Nat : n <= L => h[n] \in Seq(Int)}
<1>10. 0 \in S
  <2>1. 0 \in 0..L
    BY <1>1
  <2>2. h[0] = <<>>
    BY <1>9, <2>1
  <2> QED
    BY <1>1, <2>2
<1>11. ASSUME NEW n \in Nat, n \in S
       PROVE  n + 1 \in S
  <2> SUFFICES ASSUME n + 1 <= L PROVE h[n + 1] \in Seq(Int)
    OBVIOUS
  <2>1. n + 1 \in 0..L /\ n + 1 \in 1..L /\ n + 1 # 0 /\ (n + 1) - 1 = n /\ n <= L
    BY <1>1
  <2>2. h[n] \in Seq(Int)
    BY <1>11, <2>1
  <2>3. (IF Works(n + 1) THEN Append(h[n], from + (n + 1) - 1) ELSE h[n]) \in Seq(Int)
    BY <1>3, <2>1, <2>2
  <2> QED
    BY <1>9, <2>1, <2>3
<1> HIDE DEF S
<1>12. Nat \subseteq S
  BY <1>10, <1>11, Induction
<1> QED
  BY <1>1, <1>2, <1>12 DEF S

-----------------------------------------------------------------------------
(* Shapes.                                                                  *)
Families == {"steady", "steady_front", "front_loaded", "center_peak", "event_peak", "back_loaded"}

LEMMA PriorIsKnown ==
  ASSUME NEW t \in DOMAIN Prior
  PROVE  Prior[t][1] \in Nat /\ Prior[t][2] \in Families
BY DEF Prior, Families

LEMMA TuplesOfNumbers ==
  /\ \A a \in Nat : <<a>> \in [1..1 -> Nat]
  /\ \A a, b \in Nat : <<a, b>> \in [1..2 -> Nat]
  /\ \A a, b, c \in Nat : <<a, b, c>> \in [1..3 -> Nat]
  /\ \A a, b, c, d \in Nat : <<a, b, c, d>> \in [1..4 -> Nat]
  /\ \A a, b, c, d, e \in Nat : <<a, b, c, d, e>> \in [1..5 -> Nat]
OBVIOUS

LEMMA ShortIsKnown ==
  ASSUME NEW family \in Families, NEW n \in 1..5
  PROVE  /\ ShortWeights[family][n] \in [1..n -> Nat]
         /\ ShortWeights[family][n][1] > 0
<1>1. CASE family = "steady"
  <2> DEFINE w == <<<<100>>, <<50, 50>>, <<34, 33, 33>>, <<26, 25, 25, 24>>, <<21, 20, 20, 20, 19>>>>
  <2>1. ShortWeights[family] = w
    BY <1>1 DEF ShortWeights
  <2>2. CASE n = 1
    <3>1. w[n] = <<100>>
      BY <2>2
    <3>2. <<100>> \in [1..1 -> Nat] /\ <<100>>[1] > 0
      BY TuplesOfNumbers
    <3> QED
      BY <2>1, <2>2, <3>1, <3>2
  <2>3. CASE n = 2
    <3>1. w[n] = <<50, 50>>
      BY <2>3
    <3>2. <<50, 50>> \in [1..2 -> Nat] /\ <<50, 50>>[1] > 0
      BY TuplesOfNumbers
    <3> QED
      BY <2>1, <2>3, <3>1, <3>2
  <2>4. CASE n = 3
    <3>1. w[n] = <<34, 33, 33>>
      BY <2>4
    <3>2. <<34, 33, 33>> \in [1..3 -> Nat] /\ <<34, 33, 33>>[1] > 0
      BY TuplesOfNumbers
    <3> QED
      BY <2>1, <2>4, <3>1, <3>2
  <2>5. CASE n = 4
    <3>1. w[n] = <<26, 25, 25, 24>>
      BY <2>5
    <3>2. <<26, 25, 25, 24>> \in [1..4 -> Nat] /\ <<26, 25, 25, 24>>[1] > 0
      BY TuplesOfNumbers
    <3> QED
      BY <2>1, <2>5, <3>1, <3>2
  <2>6. CASE n = 5
    <3>1. w[n] = <<21, 20, 20, 20, 19>>
      BY <2>6
    <3>2. <<21, 20, 20, 20, 19>> \in [1..5 -> Nat] /\ <<21, 20, 20, 20, 19>>[1] > 0
      BY TuplesOfNumbers
    <3> QED
      BY <2>1, <2>6, <3>1, <3>2
  <2> QED
    BY <2>2, <2>3, <2>4, <2>5, <2>6
<1>2. CASE family = "steady_front"
  <2> DEFINE w == <<<<100>>, <<53, 47>>, <<38, 33, 29>>, <<30, 27, 23, 20>>, <<25, 22, 20, 18, 15>>>>
  <2>1. ShortWeights[family] = w
    BY <1>2 DEF ShortWeights
  <2>2. CASE n = 1
    <3>1. w[n] = <<100>>
      BY <2>2
    <3>2. <<100>> \in [1..1 -> Nat] /\ <<100>>[1] > 0
      BY TuplesOfNumbers
    <3> QED
      BY <2>1, <2>2, <3>1, <3>2
  <2>3. CASE n = 2
    <3>1. w[n] = <<53, 47>>
      BY <2>3
    <3>2. <<53, 47>> \in [1..2 -> Nat] /\ <<53, 47>>[1] > 0
      BY TuplesOfNumbers
    <3> QED
      BY <2>1, <2>3, <3>1, <3>2
  <2>4. CASE n = 3
    <3>1. w[n] = <<38, 33, 29>>
      BY <2>4
    <3>2. <<38, 33, 29>> \in [1..3 -> Nat] /\ <<38, 33, 29>>[1] > 0
      BY TuplesOfNumbers
    <3> QED
      BY <2>1, <2>4, <3>1, <3>2
  <2>5. CASE n = 4
    <3>1. w[n] = <<30, 27, 23, 20>>
      BY <2>5
    <3>2. <<30, 27, 23, 20>> \in [1..4 -> Nat] /\ <<30, 27, 23, 20>>[1] > 0
      BY TuplesOfNumbers
    <3> QED
      BY <2>1, <2>5, <3>1, <3>2
  <2>6. CASE n = 5
    <3>1. w[n] = <<25, 22, 20, 18, 15>>
      BY <2>6
    <3>2. <<25, 22, 20, 18, 15>> \in [1..5 -> Nat] /\ <<25, 22, 20, 18, 15>>[1] > 0
      BY TuplesOfNumbers
    <3> QED
      BY <2>1, <2>6, <3>1, <3>2
  <2> QED
    BY <2>2, <2>3, <2>4, <2>5, <2>6
<1>3. CASE family = "front_loaded"
  <2> DEFINE w == <<<<100>>, <<60, 40>>, <<45, 35, 20>>, <<35, 30, 20, 15>>, <<30, 25, 20, 15, 10>>>>
  <2>1. ShortWeights[family] = w
    BY <1>3 DEF ShortWeights
  <2>2. CASE n = 1
    <3>1. w[n] = <<100>>
      BY <2>2
    <3>2. <<100>> \in [1..1 -> Nat] /\ <<100>>[1] > 0
      BY TuplesOfNumbers
    <3> QED
      BY <2>1, <2>2, <3>1, <3>2
  <2>3. CASE n = 2
    <3>1. w[n] = <<60, 40>>
      BY <2>3
    <3>2. <<60, 40>> \in [1..2 -> Nat] /\ <<60, 40>>[1] > 0
      BY TuplesOfNumbers
    <3> QED
      BY <2>1, <2>3, <3>1, <3>2
  <2>4. CASE n = 3
    <3>1. w[n] = <<45, 35, 20>>
      BY <2>4
    <3>2. <<45, 35, 20>> \in [1..3 -> Nat] /\ <<45, 35, 20>>[1] > 0
      BY TuplesOfNumbers
    <3> QED
      BY <2>1, <2>4, <3>1, <3>2
  <2>5. CASE n = 4
    <3>1. w[n] = <<35, 30, 20, 15>>
      BY <2>5
    <3>2. <<35, 30, 20, 15>> \in [1..4 -> Nat] /\ <<35, 30, 20, 15>>[1] > 0
      BY TuplesOfNumbers
    <3> QED
      BY <2>1, <2>5, <3>1, <3>2
  <2>6. CASE n = 5
    <3>1. w[n] = <<30, 25, 20, 15, 10>>
      BY <2>6
    <3>2. <<30, 25, 20, 15, 10>> \in [1..5 -> Nat] /\ <<30, 25, 20, 15, 10>>[1] > 0
      BY TuplesOfNumbers
    <3> QED
      BY <2>1, <2>6, <3>1, <3>2
  <2> QED
    BY <2>2, <2>3, <2>4, <2>5, <2>6
<1>4. CASE family = "center_peak"
  <2> DEFINE w == <<<<100>>, <<45, 55>>, <<25, 50, 25>>, <<18, 32, 30, 20>>, <<12, 22, 34, 20, 12>>>>
  <2>1. ShortWeights[family] = w
    BY <1>4 DEF ShortWeights
  <2>2. CASE n = 1
    <3>1. w[n] = <<100>>
      BY <2>2
    <3>2. <<100>> \in [1..1 -> Nat] /\ <<100>>[1] > 0
      BY TuplesOfNumbers
    <3> QED
      BY <2>1, <2>2, <3>1, <3>2
  <2>3. CASE n = 2
    <3>1. w[n] = <<45, 55>>
      BY <2>3
    <3>2. <<45, 55>> \in [1..2 -> Nat] /\ <<45, 55>>[1] > 0
      BY TuplesOfNumbers
    <3> QED
      BY <2>1, <2>3, <3>1, <3>2
  <2>4. CASE n = 3
    <3>1. w[n] = <<25, 50, 25>>
      BY <2>4
    <3>2. <<25, 50, 25>> \in [1..3 -> Nat] /\ <<25, 50, 25>>[1] > 0
      BY TuplesOfNumbers
    <3> QED
      BY <2>1, <2>4, <3>1, <3>2
  <2>5. CASE n = 4
    <3>1. w[n] = <<18, 32, 30, 20>>
      BY <2>5
    <3>2. <<18, 32, 30, 20>> \in [1..4 -> Nat] /\ <<18, 32, 30, 20>>[1] > 0
      BY TuplesOfNumbers
    <3> QED
      BY <2>1, <2>5, <3>1, <3>2
  <2>6. CASE n = 5
    <3>1. w[n] = <<12, 22, 34, 20, 12>>
      BY <2>6
    <3>2. <<12, 22, 34, 20, 12>> \in [1..5 -> Nat] /\ <<12, 22, 34, 20, 12>>[1] > 0
      BY TuplesOfNumbers
    <3> QED
      BY <2>1, <2>6, <3>1, <3>2
  <2> QED
    BY <2>2, <2>3, <2>4, <2>5, <2>6
<1>5. CASE family = "event_peak"
  <2> DEFINE w == <<<<100>>, <<35, 65>>, <<15, 70, 15>>, <<10, 30, 45, 15>>, <<8, 17, 45, 20, 10>>>>
  <2>1. ShortWeights[family] = w
    BY <1>5 DEF ShortWeights
  <2>2. CASE n = 1
    <3>1. w[n] = <<100>>
      BY <2>2
    <3>2. <<100>> \in [1..1 -> Nat] /\ <<100>>[1] > 0
      BY TuplesOfNumbers
    <3> QED
      BY <2>1, <2>2, <3>1, <3>2
  <2>3. CASE n = 2
    <3>1. w[n] = <<35, 65>>
      BY <2>3
    <3>2. <<35, 65>> \in [1..2 -> Nat] /\ <<35, 65>>[1] > 0
      BY TuplesOfNumbers
    <3> QED
      BY <2>1, <2>3, <3>1, <3>2
  <2>4. CASE n = 3
    <3>1. w[n] = <<15, 70, 15>>
      BY <2>4
    <3>2. <<15, 70, 15>> \in [1..3 -> Nat] /\ <<15, 70, 15>>[1] > 0
      BY TuplesOfNumbers
    <3> QED
      BY <2>1, <2>4, <3>1, <3>2
  <2>5. CASE n = 4
    <3>1. w[n] = <<10, 30, 45, 15>>
      BY <2>5
    <3>2. <<10, 30, 45, 15>> \in [1..4 -> Nat] /\ <<10, 30, 45, 15>>[1] > 0
      BY TuplesOfNumbers
    <3> QED
      BY <2>1, <2>5, <3>1, <3>2
  <2>6. CASE n = 5
    <3>1. w[n] = <<8, 17, 45, 20, 10>>
      BY <2>6
    <3>2. <<8, 17, 45, 20, 10>> \in [1..5 -> Nat] /\ <<8, 17, 45, 20, 10>>[1] > 0
      BY TuplesOfNumbers
    <3> QED
      BY <2>1, <2>6, <3>1, <3>2
  <2> QED
    BY <2>2, <2>3, <2>4, <2>5, <2>6
<1>6. CASE family = "back_loaded"
  <2> DEFINE w == <<<<100>>, <<40, 60>>, <<20, 35, 45>>, <<15, 20, 30, 35>>, <<10, 15, 20, 25, 30>>>>
  <2>1. ShortWeights[family] = w
    BY <1>6 DEF ShortWeights
  <2>2. CASE n = 1
    <3>1. w[n] = <<100>>
      BY <2>2
    <3>2. <<100>> \in [1..1 -> Nat] /\ <<100>>[1] > 0
      BY TuplesOfNumbers
    <3> QED
      BY <2>1, <2>2, <3>1, <3>2
  <2>3. CASE n = 2
    <3>1. w[n] = <<40, 60>>
      BY <2>3
    <3>2. <<40, 60>> \in [1..2 -> Nat] /\ <<40, 60>>[1] > 0
      BY TuplesOfNumbers
    <3> QED
      BY <2>1, <2>3, <3>1, <3>2
  <2>4. CASE n = 3
    <3>1. w[n] = <<20, 35, 45>>
      BY <2>4
    <3>2. <<20, 35, 45>> \in [1..3 -> Nat] /\ <<20, 35, 45>>[1] > 0
      BY TuplesOfNumbers
    <3> QED
      BY <2>1, <2>4, <3>1, <3>2
  <2>5. CASE n = 4
    <3>1. w[n] = <<15, 20, 30, 35>>
      BY <2>5
    <3>2. <<15, 20, 30, 35>> \in [1..4 -> Nat] /\ <<15, 20, 30, 35>>[1] > 0
      BY TuplesOfNumbers
    <3> QED
      BY <2>1, <2>5, <3>1, <3>2
  <2>6. CASE n = 5
    <3>1. w[n] = <<10, 15, 20, 25, 30>>
      BY <2>6
    <3>2. <<10, 15, 20, 25, 30>> \in [1..5 -> Nat] /\ <<10, 15, 20, 25, 30>>[1] > 0
      BY TuplesOfNumbers
    <3> QED
      BY <2>1, <2>6, <3>1, <3>2
  <2> QED
    BY <2>2, <2>3, <2>4, <2>5, <2>6
<1> QED
  BY <1>1, <1>2, <1>3, <1>4, <1>5, <1>6 DEF Families

LEMMA WholeIsNotZero ==
  ASSUME NEW n \in Nat \ {0}, NEW w, Whole(w, n)
  PROVE  w \in [1..n -> Nat] /\ ~Zero(w)
<1>1. w \in [1..n -> Nat] /\ Million <= Total(w, 1..n)
  BY DEF Whole
<1>2. IsFiniteSet(1..n)
  BY UptoLast
<1>3. PICK D : D = 1..n
  OBVIOUS
<1>4. Total(w, D) \in Nat
  <2>1. IsFiniteSet(D) /\ w \in [D -> Nat] /\ D \in SUBSET D
    BY <1>1, <1>2, <1>3
  <2> QED
    BY ONLY <2>1, TotalIsNatural
<1>5. Total(w, 1..n) > 0
  BY <1>1, <1>3, <1>4, MillionIsNatural
<1> QED
  BY <1>1, <1>5, NotZero

LEMMA FirstIsPositive ==
  ASSUME NEW n \in Nat \ {0}, NEW raw \in [1..n -> Nat], raw[1] > 0
  PROVE  Whole(Normalized(raw), n)
<1>1. ~Zero(raw)
  <2>1. 1 \in DOMAIN raw /\ raw[1] # 0
    OBVIOUS
  <2> QED
    BY <2>1 DEF Zero
<1> QED
  BY <1>1, NormalizedIsWhole

LEMMA UniformIsWhole ==
  ASSUME NEW n \in Nat \ {0}, n > 1, n <= 1000
  PROVE  Uniform(n) \in [1..n -> Nat] /\ ~Zero(Uniform(n))
<1> DEFINE x == 2 * Million + n
           y == 2 * n
           u == x \div y
<1>1. x \in Nat /\ y \in Nat /\ y > 0 /\ x >= y /\ n - 1 \in Nat
  BY SMT DEF Million
<1>2. u \in Nat /\ (x % y) \in 0..(y - 1) /\ x = y * u + (x % y)
  <2> HIDE DEF x, y
  <2> QED
    BY <1>1, Division
<1>3. u > 0
  <2>1. u # 0
    <3>1. y * 0 = 0
      BY <1>1
    <3> HIDE DEF x, y
    <3> QED
      BY <1>1, <1>2, <3>1
  <2> QED
    BY <1>2, <2>1
<1>4. Uniform(n) = [i \in 1..n |-> IF i = n THEN Million - u * (n - 1) ELSE u]
  BY DEF Uniform
<1>5. Million - u * (n - 1) \in Nat
  <2>1. y * u <= x
    <3>1. y * u \in Int
      BY <1>1, <1>2
    <3> HIDE DEF x, y, u
    <3> QED
      BY <1>1, <1>2, <3>1
  <2>2. (n - 1) * (y * u) <= (n - 1) * x
    <3>1. y * u \in Int
      BY <1>1, <1>2
    <3>2. \A a, b \in Int, c \in Nat : a <= b => c * a <= c * b
      OBVIOUS
    <3> HIDE DEF x, y, u
    <3> QED
      BY <1>1, <2>1, <3>1, <3>2
  <2>3. (n - 1) * (y * u) = (2 * n) * (u * (n - 1))
    <3> HIDE DEF u
    <3> QED
      BY <1>2
  <2>4. (n - 1) * x <= (2 * n) * Million
    <3>1. (n - 1) * x = (2 * n) * Million - 2 * Million + n * n - n
      BY MillionIsNatural
    <3>2. n * n <= 1000 * n
      OBVIOUS
    <3>3. n * n <= 2 * Million
      BY <3>2, SMT DEF Million
    <3>4. n * n \in Int /\ (2 * n) * Million \in Int
      BY MillionIsNatural
    <3> HIDE DEF x
    <3> QED
      BY <3>1, <3>3, <3>4, MillionIsNatural
  <2>5. u * (n - 1) \in Int /\ (n - 1) * x \in Int
    <3> HIDE DEF x, y, u
    <3> QED
      BY <1>1, <1>2
  <2>6. (2 * n) * (u * (n - 1)) <= (2 * n) * Million
    <3> HIDE DEF x, y, u
    <3> QED
      BY <2>2, <2>3, <2>4, <2>5, MillionIsNatural
  <2>7. u * (n - 1) <= Million
    <3> HIDE DEF x, y, u
    <3>1. PICK a \in Int, c \in Nat : a = u * (n - 1) /\ c = 2 * n /\ c > 0
      BY <2>5
    <3>2. c * a <= c * Million
      BY <2>6, <3>1
    <3> QED
      BY <3>1, <3>2, Cancel, MillionIsNatural
  <2> HIDE DEF u
  <2> QED
    BY <2>5, <2>7, MillionIsNatural
<1> HIDE DEF u
<1>6. Uniform(n) \in [1..n -> Nat] /\ 1 \in DOMAIN Uniform(n) /\ Uniform(n)[1] = u
  BY <1>2, <1>4, <1>5
<1> QED
  BY <1>3, <1>6 DEF Zero

(* Every shape gives every day a share that is not negative, and not all    *)
(* days none.                                                               *)
LEMMA ShapeIsWhole ==
  ASSUME NEW n \in Nat \ {0}, n <= 1000, NEW family \in Families,
         n > 5 => Bell[n] \in [1..n -> Nat]
  PROVE  Shape(family, n) \in [1..n -> Nat] /\ ~Zero(Shape(family, n))
<1>1. CASE n <= 5
  <2>1. n \in 1..5
    BY <1>1
  <2>2. PICK w : w = ShortWeights[family][n]
    OBVIOUS
  <2>3. w \in [1..n -> Nat] /\ w[1] > 0
    BY <2>1, <2>2, ShortIsKnown
  <2>4. Shape(family, n) = Normalized(w)
    BY <1>1, <2>2 DEF Shape
  <2>5. Whole(Normalized(w), n)
    BY <2>3, FirstIsPositive
  <2> QED
    BY <2>4, <2>5, WholeIsNotZero
<1>2. CASE n > 5 /\ family = "steady"
  <2>1. Shape(family, n) = Uniform(n) /\ n > 1
    BY <1>2 DEF Shape
  <2> QED
    BY <2>1, UniformIsWhole
<1>3. ASSUME n > 5, NEW s \in Nat, NEW e \in Nat, s > 0
      PROVE  Linear(n, s, e) \in [1..n -> Nat] /\ Linear(n, s, e)[1] > 0
  <2>1. \A i \in 1..n : s * (n - i) + e * (i - 1) \in Nat
    <3> SUFFICES ASSUME NEW i \in 1..n PROVE s * (n - i) + e * (i - 1) \in Nat
      OBVIOUS
    <3>1. n - i \in Nat /\ i - 1 \in Nat
      OBVIOUS
    <3>2. s * (n - i) \in Nat /\ e * (i - 1) \in Nat
      BY <3>1
    <3> QED
      BY <3>2
  <2>2. s * (n - 1) + e * (1 - 1) > 0 /\ 1 \in 1..n
    <3>1. n - 1 \in Nat /\ n - 1 > 0
      BY <1>3
    <3>2. s * (n - 1) > 0 /\ e * (1 - 1) = 0
      BY <1>3, <3>1
    <3> QED
      BY <3>2
  <2>3. Linear(n, s, e) = [i \in 1..n |-> s * (n - i) + e * (i - 1)]
    BY DEF Linear
  <2>4. PICK f : f = Linear(n, s, e)
    OBVIOUS
  <2>5. DOMAIN f = 1..n /\ \A i \in 1..n : f[i] = s * (n - i) + e * (i - 1)
    BY <2>3, <2>4
  <2>6. f[1] > 0 /\ \A i \in 1..n : f[i] \in Nat
    BY <2>1, <2>2, <2>5
  <2>7. f = [i \in 1..n |-> f[i]]
    BY <2>3, <2>4
  <2> QED
    BY ONLY <2>4, <2>6, <2>7
<1>4. CASE n > 5 /\ family \in DOMAIN Slope
  <2>1. PICK s \in Nat, e \in Nat : s = Slope[family][1] /\ e = Slope[family][2] /\ s > 0
    BY <1>4 DEF Slope
  <2>2. Shape(family, n) = Normalized(Linear(n, s, e))
    <3>1. family # "steady"
      BY <1>4 DEF Slope
    <3> QED
      BY <1>4, <2>1, <3>1 DEF Shape
  <2>3. Whole(Normalized(Linear(n, s, e)), n)
    BY <1>3, <1>4, <2>1, FirstIsPositive
  <2> QED
    BY <2>2, <2>3, WholeIsNotZero
<1>5. ASSUME n > 5, NEW s \in Nat, NEW e \in Nat, s > 0
      PROVE  Peaked(n, s, e) \in [1..n -> Nat] /\ Peaked(n, s, e)[1] > 0
  <2>1. ASSUME NEW i \in 1..n
        PROVE  100 * s + (e * Bell[n][i]) \div 10 \in Nat /\ 100 * s + (e * Bell[n][i]) \div 10 > 0
    <3>1. Bell[n][i] \in Nat
      BY <1>5
    <3>2. PICK x \in Nat : x = e * Bell[n][i]
      BY <3>1
    <3>3. x \div 10 \in Nat
      BY Division
    <3>4. PICK z \in Nat : z = (e * Bell[n][i]) \div 10
      BY <3>2, <3>3
    <3>5. 100 * s + z \in Nat /\ 100 * s + z > 0
      BY <1>5
    <3> QED
      BY <3>4, <3>5
  <2>3. Peaked(n, s, e) = [i \in 1..n |-> 100 * s + (e * Bell[n][i]) \div 10]
    BY DEF Peaked
  <2>4. PICK f : f = Peaked(n, s, e)
    OBVIOUS
  <2>5. DOMAIN f = 1..n /\ \A i \in 1..n : f[i] = 100 * s + (e * Bell[n][i]) \div 10
    BY <2>3, <2>4
  <2>6. 1 \in 1..n /\ \A i \in 1..n : f[i] \in Nat /\ f[i] > 0
    BY <2>1, <2>5
  <2>7. f = [i \in 1..n |-> f[i]]
    BY <2>3, <2>4
  <2> QED
    BY ONLY <2>4, <2>6, <2>7
<1>6. CASE n > 5 /\ family \in DOMAIN Peak
  <2>1. PICK s \in Nat, e \in Nat : s = Peak[family][1] /\ e = Peak[family][2] /\ s > 0
    BY <1>6 DEF Peak
  <2>2. Shape(family, n) = Normalized(Peaked(n, s, e))
    <3>1. family # "steady" /\ family \notin DOMAIN Slope
      BY <1>6 DEF Slope, Peak
    <3> QED
      BY <1>6, <2>1, <3>1 DEF Shape
  <2>3. Whole(Normalized(Peaked(n, s, e)), n)
    BY <1>5, <1>6, <2>1, FirstIsPositive
  <2> QED
    BY <2>2, <2>3, WholeIsNotZero
<1>7. family = "steady" \/ family \in DOMAIN Slope \/ family \in DOMAIN Peak
  BY DEF Families, Slope, Peak
<1> QED
  BY <1>1, <1>2, <1>4, <1>6, <1>7

-----------------------------------------------------------------------------
(* What an activity is laid by.                                             *)

LEMMA AdjustmentIsInteger ==
  ASSUME NEW t, NEW c
  PROVE  Adjustment(t, c) \in Int
BY DEF Adjustment, When

LEMMA DefaultIsNatural ==
  ASSUME NEW a, a.type \in DOMAIN Prior, NEW n \in Nat, NEW q \in Nat
  PROVE  DefaultUnits(a, n, q) \in Nat
<1>1. Prior[a.type][1] \in Nat
  BY PriorIsKnown
<1>2. Adjustment(a.type, a.context) \in Int
  BY AdjustmentIsInteger
<1>3. Utilisation(a.type, a.context) \in Nat
  BY <1>1, <1>2 DEF Utilisation, Most, Least
<1>4. PICK x \in Nat : x = Utilisation(a.type, a.context) * q * n + 250
  BY <1>3
<1>5. x \div 500 \in Nat
  BY Division
<1> QED
  BY <1>4, <1>5 DEF DefaultUnits, Most

LEMMA FallbackIsWhole ==
  ASSUME NEW a, a.type \in DOMAIN Prior, NEW n \in Nat \ {0}, n <= 1000,
         n > 5 => Bell[n] \in [1..n -> Nat]
  PROVE  Fallback(a, n) \in [1..n -> Nat] /\ ~Zero(Fallback(a, n))
<1>1. Prior[a.type][2] \in Families
  BY PriorIsKnown
<1>2. Family(a.type, a.context) \in Families
  BY <1>1 DEF Family, Families
<1> QED
  BY <1>2, ShapeIsWhole DEF Fallback

LEMMA ActivityIsSound ==
  ASSUME NEW a \in Activities, WorkDates(a) # <<>>
  PROVE  DatesOf(a) \in Nat \ {0} /\ ActivityAssumption(a, DatesOf(a))
<1>1. ActivityAssumption(a, DatesOf(a))
  <2>1. ActivityAssumption(a, Len(WorkDates(a)))
    BY PlanningAssumption, Zenon
  <2> QED
    BY <2>1, Zenon DEF DatesOf
<1>2. a.from \in Int /\ a.to \in Int
  BY <1>1, Zenon DEF ActivityAssumption
<1>3. WorkDates(a) \in Seq(Int)
  BY <1>2, DatesAreASequence
<1>4. DatesOf(a) \in Nat \ {0}
  BY <1>3, EmptySeq DEF DatesOf
<1> QED
  BY <1>1, <1>4

LEMMA ResolvedFits ==
  ASSUME NEW a \in Activities, WorkDates(a) # <<>>, NEW q \in Caps
  PROVE  Fits(Resolved(a, q), DatesOf(a))
<1>1. PICK n \in Nat \ {0} : n = DatesOf(a) /\ ActivityAssumption(a, n)
  BY ActivityIsSound
<1>2. n <= 1000 /\ a.type \in DOMAIN Prior /\ (n > 5 => Bell[n] \in [1..n -> Nat])
  BY ONLY <1>1, Zenon DEF ActivityAssumption
<1>10. \/ a.profile = None /\ DefaultUnits(a, n, q) * n < 2 * Million
       \/ a.profile # None /\ ProfileAssumption(a.profile, n)
  <2>1. \/ a.profile = None /\ \A k \in Caps : DefaultUnits(a, n, k) * n < 2 * Million
        \/ a.profile # None /\ ProfileAssumption(a.profile, n)
    BY ONLY <1>1, Zenon DEF ActivityAssumption
  <2>2. q \in Caps
    OBVIOUS
  <2> QED
    BY ONLY <2>1, <2>2, Zenon
<1>3. Fallback(a, n) \in [1..n -> Nat] /\ ~Zero(Fallback(a, n))
  BY <1>2, FallbackIsWhole, Zenon
<1>4. Whole(Normalized(Fallback(a, n)), n)
  BY <1>3, NormalizedIsWhole
<1>5. q \in Nat
  BY PlanningAssumption, Zenon
<1> DEFINE p == a.profile
           own == IF Len(p.weights) = n THEN p.weights ELSE Normalized(p.hours)
           by(w, u, repaired) == [weights |-> Normalized(w), units |-> u, repaired |-> repaired]
<1>6. Resolved(a, q) =
        IF p = None THEN by(Fallback(a, n), DefaultUnits(a, n, q), FALSE)
        ELSE IF Len(p.hours) # n \/ \E i \in DOMAIN p.hours : 5 * p.hours[i] > q
        THEN by(Fallback(a, n), p.units, TRUE)
        ELSE IF Zero(own) THEN by(Fallback(a, n), p.units, TRUE)
        ELSE by(own, p.units, Len(p.weights) # n)
  BY <1>1 DEF Resolved, DatesOf
<1>7. ASSUME NEW w, NEW u \in Nat, NEW repaired, Whole(Normalized(w), n), u * n < 2 * Million
      PROVE  Fits(by(w, u, repaired), n)
  BY <1>7 DEF Fits
<1>8. CASE p = None
  <2>1. PICK u \in Nat : u = DefaultUnits(a, n, q)
    <3>1. n \in Nat
      OBVIOUS
    <3> QED
      BY <1>2, <1>5, <3>1, DefaultIsNatural, Zenon
  <2>2. u * n < 2 * Million
    BY <1>8, <1>10, <2>1, Zenon
  <2> QED
    BY <1>1, <1>4, <1>6, <1>7, <1>8, <2>1, <2>2
<1>9. CASE p # None
  <2>1. p.units \in Nat /\ p.hours \in Seq(Nat) /\ p.weights \in Seq(Nat) /\ p.units * n < 2 * Million
    BY <1>9, <1>10, Zenon DEF ProfileAssumption
  <2>2. CASE Len(p.hours) # n \/ \E i \in DOMAIN p.hours : 5 * p.hours[i] > q
    BY <1>1, <1>4, <1>6, <1>7, <1>9, <2>1, <2>2
  <2>3. CASE ~(Len(p.hours) # n \/ \E i \in DOMAIN p.hours : 5 * p.hours[i] > q) /\ Zero(own)
    BY <1>1, <1>4, <1>6, <1>7, <1>9, <2>1, <2>3
  <2>4. CASE ~(Len(p.hours) # n \/ \E i \in DOMAIN p.hours : 5 * p.hours[i] > q) /\ ~Zero(own)
    <3>1. own \in [1..n -> Nat]
      <4>1. CASE Len(p.weights) = n
        BY <2>1, <4>1, LenProperties
      <4>2. CASE Len(p.weights) # n
        <5>1. p.hours \in [1..n -> Nat]
          BY <2>1, <2>4, LenProperties
        <5>2. Normalized(p.hours) \in [1..n -> Nat]
          BY <5>1, NormalizedIsWhole
        <5> QED
          BY <4>2, <5>2
      <4> QED
        BY <4>1, <4>2
    <3>2. Whole(Normalized(own), n)
      <4> HIDE DEF own
      <4> QED
        BY <2>4, <3>1, NormalizedIsWhole
    <3> QED
      BY <1>1, <1>6, <1>7, <1>9, <2>1, <2>4, <3>2
  <2> QED
    BY <2>2, <2>3, <2>4
<1> QED
  BY <1>8, <1>9

-----------------------------------------------------------------------------
(* Laying the hours.                                                        *)

(* What a day is owed: millionths of a unit.                                *)
Owed(w, u, g, i) == w[i] * u - g[i] * Million

LEMMA FloorOf ==
  ASSUME NEW a \in Nat
  PROVE  /\ a \div Million \in Nat
         /\ (a \div Million) * Million <= a /\ a < (a \div Million) * Million + Million
BY SMT DEF Million

LEMMA FloorsGrow ==
  ASSUME NEW a \in Nat, NEW b \in Nat, a <= b
  PROVE  a \div Million <= b \div Million
BY SMT DEF Million

LEMMA ProductsGrow ==
  ASSUME NEW a \in Int, NEW b \in Int, NEW c \in Nat
  PROVE  /\ a <= b => a * c <= b * c /\ c * a <= c * b
         /\ a < b /\ c > 0 => a * c < b * c /\ c * a < c * b
OBVIOUS

LEMMA WholeNumbers ==
  ASSUME NEW n \in Nat \ {0}, NEW w, Whole(w, n)
  PROVE  Total(w, 1..n) \in Nat
<1>1. PICK D : D = 1..n
  OBVIOUS
<1>2. IsFiniteSet(D) /\ w \in [D -> Nat] /\ D \in SUBSET D
  BY <1>1, UptoLast DEF Whole
<1>3. Total(w, D) \in Nat
  BY ONLY <1>2, TotalIsNatural
<1> QED
  BY <1>1, <1>3

(* The whole units of all days are not more than there are units.           *)
LEMMA FloorsFit ==
  ASSUME NEW n \in Nat \ {0}, NEW w, Whole(w, n), NEW U \in Nat, U * n < 2 * Million,
         NEW g \in [1..n -> Nat], \A i \in 1..n : g[i] <= (w[i] * U) \div Million
  PROVE  Total(g, 1..n) <= U
<1>1. PICK D : D = 1..n
  OBVIOUS
<1>2. IsFiniteSet(D) /\ w \in [D -> Nat] /\ g \in [D -> Nat] /\ D \in SUBSET D
  BY <1>1, UptoLast DEF Whole
<1>3. Total(g, D) \in Nat
  BY ONLY <1>2, TotalIsNatural
<1>4. PICK T \in Nat, W \in Nat : T = Total(g, D) /\ W = Total(w, D)
  BY <1>1, <1>3, WholeNumbers
<1>5. PICK m \in Nat : m = Million /\ m > 0
  BY MillionIsNatural
<1>6. \A i \in D : m * g[i] <= U * w[i]
  <2> SUFFICES ASSUME NEW i \in D PROVE m * g[i] <= U * w[i]
    OBVIOUS
  <2>1. PICK a \in Nat : a = w[i] * U
    BY <1>2
  <2>2. a \div m \in Nat /\ (a \div m) * m <= a
    BY <1>5, FloorOf
  <2>3. g[i] \in Nat /\ g[i] <= a \div m
    BY <1>1, <1>2, <1>5, <2>1
  <2>4. m * g[i] <= m * (a \div m)
    BY <2>2, <2>3, ProductsGrow
  <2>5. m * (a \div m) = (a \div m) * m /\ w[i] * U = U * w[i]
    BY <1>2, <2>2
  <2>6. m * g[i] \in Int /\ (a \div m) * m \in Int /\ U * w[i] \in Int
    BY <1>2, <2>2, <2>3
  <2> QED
    BY <2>1, <2>2, <2>4, <2>5, <2>6
<1>7. m * T <= U * W
  <2>1. g \in [D -> Int] /\ w \in [D -> Int] /\ m \in Int /\ U \in Int
    BY <1>2
  <2>2. m * Total(g, D) <= U * Total(w, D)
    BY ONLY <1>2, <1>6, <2>1, MultiplesAtMost
  <2> QED
    BY <1>4, <2>2
<1>8. 2 * W <= 2 * m + n /\ U * n < 2 * m
  BY <1>1, <1>4, <1>5 DEF Whole
<1>9. U * (2 * W) <= U * (2 * m + n)
  BY <1>8, ProductsGrow
<1>10. U * (2 * W) = 2 * (U * W) /\ U * (2 * m + n) = 2 * (m * U) + U * n
  OBVIOUS
<1>11. m * T < m * U + m
  <2>1. U * W \in Int /\ m * U \in Int /\ U * n \in Int /\ m * T \in Int
    OBVIOUS
  <2> QED
    BY ONLY <1>7, <1>8, <1>9, <1>10, <2>1, m \in Nat
<1>12. T <= U
  <2> SUFFICES ASSUME U + 1 <= T PROVE FALSE
    OBVIOUS
  <2>1. m * (U + 1) <= m * T
    BY ProductsGrow
  <2>2. m * (U + 1) = m * U + m
    OBVIOUS
  <2>3. m * U \in Int /\ m * T \in Int
    OBVIOUS
  <2> QED
    BY ONLY <1>11, <2>1, <2>2, <2>3, m \in Nat
<1> QED
  BY <1>1, <1>4, <1>12

NearShares(w, u, g) == \A i \in DOMAIN g : Owed(w, u, g, i) < Million /\ -Owed(w, u, g, i) < Million

FloorsOf(n, w, U, K) == [i \in 1..n |-> Least((w[i] * U) \div Million, K)]

LEMMA FloorsAreFair ==
  ASSUME NEW n \in Nat \ {0}, NEW w \in [1..n -> Nat], NEW U \in Nat, NEW K \in Nat, NEW g,
         g = FloorsOf(n, w, U, K)
  PROVE  /\ g \in [1..n -> 0..K] /\ \A i \in 1..n : g[i] <= (w[i] * U) \div Million
         /\ Fair(w, g)
         /\ (\A i \in 1..n : g[i] < K) => NearShares(w, U, g)
<1>0. g = [i \in 1..n |-> Least((w[i] * U) \div Million, K)]
  BY DEF FloorsOf
<1>1. ASSUME NEW i \in 1..n
      PROVE  /\ w[i] \in Nat /\ w[i] * U \in Nat /\ (w[i] * U) \div Million \in Nat
             /\ g[i] = Least((w[i] * U) \div Million, K) /\ g[i] \in 0..K /\ g[i] \in Nat
             /\ g[i] <= (w[i] * U) \div Million
  <2>1. w[i] \in Nat /\ w[i] * U \in Nat
    OBVIOUS
  <2>2. (w[i] * U) \div Million \in Nat
    BY <2>1, FloorOf
  <2> QED
    BY <1>0, <2>1, <2>2 DEF Least
<1>2. ASSUME NEW i \in 1..n, NEW j \in 1..n, w[j] <= w[i]
      PROVE  g[j] <= g[i]
  <2>1. PICK a \in Nat, b \in Nat : a = w[i] /\ b = w[j] /\ b <= a
    BY <1>1, <1>2
  <2>2. PICK x \in Nat, y \in Nat : x = a * U /\ y = b * U
    OBVIOUS
  <2>3. y <= x
    BY <2>1, <2>2, ProductsGrow
  <2>4. y \div Million <= x \div Million
    BY <2>3, FloorsGrow
  <2>5. PICK c \in Nat, d \in Nat : c = x \div Million /\ d = y \div Million
    BY FloorOf
  <2>6. g[i] = Least(c, K) /\ g[j] = Least(d, K)
    BY <1>1, <2>1, <2>2, <2>5
  <2> QED
    BY ONLY <2>4, <2>5, <2>6, K \in Nat DEF Least
<1>3. Fair(w, g)
  <2>1. DOMAIN g = 1..n
    BY <1>0
  <2>2. ASSUME NEW i \in 1..n, NEW j \in 1..n
        PROVE  /\ w[i] > w[j] => g[i] >= g[j]
               /\ w[i] = w[j] => g[i] = g[j]
    <3>1. w[i] \in Nat /\ w[j] \in Nat /\ g[i] \in Nat /\ g[j] \in Nat
      BY <1>1
    <3>2. w[j] <= w[i] => g[j] <= g[i]
      BY <1>2
    <3>3. w[i] <= w[j] => g[i] <= g[j]
      BY <1>2
    <3> QED
      BY ONLY <3>1, <3>2, <3>3
  <2> QED
    BY <2>1, <2>2 DEF Fair
<1>4. ASSUME \A i \in 1..n : g[i] < K, NEW i \in 1..n
      PROVE  Owed(w, U, g, i) < Million /\ -Owed(w, U, g, i) < Million
  <2>1. PICK a \in Nat : a = w[i] * U
    BY <1>1
  <2>2. PICK f \in Nat : f = a \div Million /\ f * Million <= a /\ a < f * Million + Million
    BY FloorOf
  <2>3. g[i] = f
    <3>1. g[i] = Least(f, K) /\ g[i] < K
      BY <1>1, <1>4, <2>1, <2>2
    <3> QED
      BY <3>1 DEF Least
  <2>4. Owed(w, U, g, i) = a - f * Million
    BY <2>1, <2>3 DEF Owed
  <2>5. f * Million \in Nat
    BY MillionIsNatural
  <2> QED
    BY <2>2, <2>4, <2>5, MillionIsNatural
<1>5. DOMAIN g = 1..n /\ g \in [1..n -> 0..K]
  <2>1. g = [i \in 1..n |-> g[i]]
    BY <1>0
  <2>2. \A i \in 1..n : g[i] \in 0..K
    BY <1>1
  <2> QED
    BY ONLY <2>1, <2>2
<1> QED
  BY <1>1, <1>3, <1>4, <1>5 DEF NearShares

(* Some day is owed something as long as units are left.                    *)
LEMMA SomeDayIsOwed ==
  ASSUME NEW n \in Nat \ {0}, NEW w, Whole(w, n), NEW U \in Nat,
         NEW g \in [1..n -> Nat], Total(g, 1..n) < U
  PROVE  \E i \in 1..n : Owed(w, U, g, i) > 0
<1> SUFFICES ASSUME \A i \in 1..n : ~(Owed(w, U, g, i) > 0)
             PROVE  FALSE
  OBVIOUS
<1>1. PICK D : D = 1..n
  OBVIOUS
<1>2. IsFiniteSet(D) /\ w \in [D -> Nat] /\ g \in [D -> Nat] /\ D \in SUBSET D
  BY <1>1, UptoLast DEF Whole
<1>3. Total(g, D) \in Nat
  BY ONLY <1>2, TotalIsNatural
<1>4. PICK T \in Nat, W \in Nat : T = Total(g, D) /\ W = Total(w, D) /\ T < U
  BY <1>1, <1>3, WholeNumbers
<1>5. PICK m \in Nat : m = Million /\ m > 0
  BY MillionIsNatural
<1>6. \A i \in D : U * w[i] <= m * g[i]
  <2> SUFFICES ASSUME NEW i \in D PROVE U * w[i] <= m * g[i]
    OBVIOUS
  <2>1. w[i] \in Nat /\ g[i] \in Nat
    BY <1>2
  <2>2. w[i] * U - g[i] * m <= 0
    <3>1. Owed(w, U, g, i) = w[i] * U - g[i] * m /\ ~(Owed(w, U, g, i) > 0)
      BY <1>1, <1>5 DEF Owed
    <3>2. w[i] * U \in Int /\ g[i] * m \in Int
      BY <2>1
    <3> QED
      BY ONLY <3>1, <3>2
  <2>3. w[i] * U = U * w[i] /\ g[i] * m = m * g[i] /\ U * w[i] \in Int /\ m * g[i] \in Int
    BY <2>1
  <2> QED
    BY ONLY <2>2, <2>3
<1>7. U * W <= m * T
  <2>1. g \in [D -> Int] /\ w \in [D -> Int] /\ m \in Int /\ U \in Int
    BY <1>2
  <2>2. U * Total(w, D) <= m * Total(g, D)
    BY ONLY <1>2, <1>6, <2>1, MultiplesAtMost
  <2> QED
    BY <1>4, <2>2
<1>8. U * m <= U * W
  <2>1. m <= W
    BY <1>1, <1>4, <1>5 DEF Whole
  <2> QED
    BY <2>1, ProductsGrow
<1>9. T * m < U * m
  BY <1>4, <1>5, ProductsGrow
<1>10. T * m = m * T /\ T * m \in Int /\ U * m \in Int /\ U * W \in Int
  OBVIOUS
<1> QED
  BY ONLY <1>7, <1>8, <1>9, <1>10

Needs(w, u, g, i, j) ==
    Owed(w, u, g, i) > Owed(w, u, g, j) \/ (Owed(w, u, g, i) = Owed(w, u, g, j) /\ i <= j)

LEMMA GiveKeepsFair ==
  ASSUME NEW n \in Nat \ {0}, NEW w \in [1..n -> Nat], NEW U \in Nat, U > 0, NEW K \in Nat,
         NEW g \in [1..n -> 0..K], Fair(w, g), NEW m \in 1..n, g[m] < K,
         \A j \in 1..n : g[j] < K => Needs(w, U, g, m, j)
  PROVE  LET h == [g EXCEPT ![m] = @ + 1] IN h \in [1..n -> 0..K] /\ Fair(w, h)
<1>1. PICK h : h = [g EXCEPT ![m] = @ + 1]
  OBVIOUS
<1>2. h \in [1..n -> 0..K] /\ h[m] = g[m] + 1 /\ \A i \in 1..n \ {m} : h[i] = g[i]
  BY <1>1
<1>3. ASSUME NEW i \in 1..n
      PROVE  w[i] \in Nat /\ g[i] \in Nat /\ Owed(w, U, g, i) \in Int /\ g[i] <= K
  <2>1. w[i] \in Nat /\ g[i] \in Nat /\ g[i] <= K
    OBVIOUS
  <2>2. w[i] * U \in Int /\ g[i] * Million \in Int
    BY <2>1, MillionIsNatural
  <2> QED
    BY <2>1, <2>2 DEF Owed
<1>4. ASSUME NEW i \in 1..n, NEW j \in 1..n, g[i] = g[j]
      PROVE  /\ w[i] > w[j] => Owed(w, U, g, i) > Owed(w, U, g, j)
             /\ w[i] = w[j] => Owed(w, U, g, i) = Owed(w, U, g, j)
  <2>1. PICK a \in Nat, b \in Nat, c \in Nat : a = w[i] /\ b = w[j] /\ c = g[i]
    BY <1>3
  <2>2. PICK d \in Nat : d = c * Million
    BY MillionIsNatural
  <2>3. Owed(w, U, g, i) = a * U - d /\ Owed(w, U, g, j) = b * U - d
    BY <1>4, <2>1, <2>2 DEF Owed
  <2>4. a > b => b * U < a * U
    BY ProductsGrow
  <2>5. PICK x \in Int, y \in Int : x = a * U /\ y = b * U
    OBVIOUS
  <2>6. a > b => x - d > y - d
    BY ONLY <2>4, <2>5, d \in Nat
  <2>7. a = b => x = y
    BY ONLY <2>5
  <2> QED
    BY ONLY <2>1, <2>3, <2>5, <2>6, <2>7
<1>5. ASSUME NEW i \in 1..n, NEW j \in 1..n, w[i] > w[j]
      PROVE  h[i] >= h[j]
  <2>1. g[i] >= g[j]
    BY <1>5 DEF Fair
  <2>5. g[i] \in Nat /\ g[j] \in Nat /\ Owed(w, U, g, i) \in Int /\ Owed(w, U, g, m) \in Int
    BY <1>3
  <2>6. h[j] = (IF j = m THEN g[j] + 1 ELSE g[j]) /\ h[i] = (IF i = m THEN g[i] + 1 ELSE g[i])
    BY <1>2
  <2>2. CASE j # m
    BY ONLY <2>1, <2>2, <2>5, <2>6
  <2>3. CASE j = m
    <3>1. g[i] # g[m]
      <4> SUFFICES ASSUME g[i] = g[m] PROVE FALSE
        OBVIOUS
      <4>1. Owed(w, U, g, i) > Owed(w, U, g, m)
        BY <1>4, <1>5, <2>3
      <4>2. Needs(w, U, g, m, i)
        OBVIOUS
      <4> QED
        BY <2>5, <4>1, <4>2 DEF Needs
    <3>2. i # m
      BY <3>1
    <3> QED
      BY ONLY <2>1, <2>3, <2>5, <2>6, <3>1, <3>2
  <2> QED
    BY <2>2, <2>3
<1>6. ASSUME NEW i \in 1..n, NEW j \in 1..n, w[i] = w[j], i < j
      PROVE  h[i] \in {h[j], h[j] + 1}
  <2>1. g[i] \in {g[j], g[j] + 1}
    BY <1>6 DEF Fair
  <2>2. CASE i # m /\ j # m
    BY <1>2, <2>1, <2>2
  <2>3. CASE i = m
    <3>1. g[i] = g[j]
      <4> SUFFICES ASSUME g[i] = g[j] + 1 PROVE FALSE
        BY <2>1
      <4>1. g[j] < K
        <5>1. g[i] \in Nat /\ g[j] \in Nat /\ g[i] <= K
          BY <1>3
        <5> QED
          BY <5>1
      <4>2. Needs(w, U, g, m, j)
        BY <4>1
      <4>3. Owed(w, U, g, j) = Owed(w, U, g, i) + Million
        <5>1. PICK a \in Nat, b \in Nat : a = w[i] /\ a = w[j] /\ b = g[j] /\ b + 1 = g[i]
          BY <1>3, <1>6
        <5>2. (b + 1) * Million = b * Million + Million /\ b * Million \in Int /\ a * U \in Int
          BY MillionIsNatural
        <5>3. Owed(w, U, g, j) = a * U - b * Million /\ Owed(w, U, g, i) = a * U - (b + 1) * Million
          BY <5>1 DEF Owed
        <5> QED
          BY ONLY <5>2, <5>3, MillionIsNatural
      <4>4. Owed(w, U, g, i) \in Int /\ Owed(w, U, g, j) \in Int
        BY <1>3
      <4> QED
        BY <2>3, <4>2, <4>3, <4>4, MillionIsNatural DEF Needs
    <3> QED
      BY <1>2, <1>3, <1>6, <2>3, <3>1
  <2>4. CASE j = m
    <3>1. g[i] = g[j] + 1
      <4> SUFFICES ASSUME g[i] = g[j] PROVE FALSE
        BY <2>1
      <4>1. Owed(w, U, g, i) = Owed(w, U, g, m)
        BY <1>4, <1>6, <2>4
      <4>2. Needs(w, U, g, m, i)
        BY <2>4
      <4> QED
        BY <1>3, <1>6, <2>4, <4>1, <4>2 DEF Needs
    <3> QED
      BY <1>2, <1>3, <1>6, <2>4, <3>1
  <2> QED
    BY <2>2, <2>3, <2>4
<1>7. DOMAIN h = 1..n
  BY <1>2
<1> QED
  BY <1>1, <1>2, <1>5, <1>6, <1>7 DEF Fair

LEMMA GiveKeepsNear ==
  ASSUME NEW n \in Nat \ {0}, NEW w, Whole(w, n), NEW U \in Nat, NEW g \in [1..n -> Nat],
         Total(g, 1..n) < U, NearShares(w, U, g), NEW m \in 1..n,
         \A j \in 1..n : Needs(w, U, g, m, j)
  PROVE  NearShares(w, U, [g EXCEPT ![m] = @ + 1])
<1>1. PICK h : h = [g EXCEPT ![m] = @ + 1]
  OBVIOUS
<1>2. DOMAIN h = 1..n /\ DOMAIN g = 1..n /\ h[m] = g[m] + 1 /\ \A i \in 1..n \ {m} : h[i] = g[i]
  BY <1>1
<1>3. w \in [1..n -> Nat]
  BY DEF Whole
<1>4. \A i \in 1..n : w[i] \in Nat /\ g[i] \in Nat /\ w[i] * U \in Nat /\ Owed(w, U, g, i) \in Int
  BY <1>3, MillionIsNatural DEF Owed
<1>5. PICK i \in 1..n : Owed(w, U, g, i) > 0
  BY SomeDayIsOwed
<1>6. Owed(w, U, g, m) > 0
  <2>1. Needs(w, U, g, m, i)
    OBVIOUS
  <2> QED
    BY <1>4, <1>5, <2>1 DEF Needs
<1>7. Owed(w, U, h, m) = Owed(w, U, g, m) - Million
  <2>1. PICK a \in Nat, b \in Nat : a = w[m] /\ b = g[m]
    BY <1>4
  <2>2. (b + 1) * Million = b * Million + Million /\ b * Million \in Int /\ a * U \in Int
    BY MillionIsNatural
  <2>3. Owed(w, U, g, m) = a * U - b * Million /\ Owed(w, U, h, m) = a * U - (b + 1) * Million
    BY <1>2, <2>1 DEF Owed
  <2> QED
    BY ONLY <2>2, <2>3, MillionIsNatural
<1>8. \A j \in 1..n \ {m} : Owed(w, U, h, j) = Owed(w, U, g, j)
  BY <1>2 DEF Owed
<1>9. \A j \in 1..n : Owed(w, U, g, j) < Million /\ -Owed(w, U, g, j) < Million
  BY <1>2 DEF NearShares
<1>10. \A j \in 1..n : Owed(w, U, h, j) < Million /\ -Owed(w, U, h, j) < Million
  <2> SUFFICES ASSUME NEW j \in 1..n
               PROVE  Owed(w, U, h, j) < Million /\ -Owed(w, U, h, j) < Million
    OBVIOUS
  <2>1. PICK a \in Int : a = Owed(w, U, g, j) /\ a < Million /\ -a < Million
    BY <1>4, <1>9
  <2>2. CASE j = m
    <3>1. Owed(w, U, h, j) = a - Million /\ a > 0
      BY <1>6, <1>7, <2>1, <2>2
    <3> QED
      BY ONLY <2>1, <3>1, MillionIsNatural
  <2>3. CASE j # m
    <3>1. Owed(w, U, h, j) = a
      BY <1>8, <2>1, <2>3
    <3> QED
      BY <2>1, <3>1
  <2> QED
    BY <2>2, <2>3
<1> QED
  BY <1>1, <1>2, <1>10 DEF NearShares

-----------------------------------------------------------------------------
(* The steps.                                                               *)

LEMMA UnitsIsNatural ==
  ASSUME NEW q \in Nat
  PROVE  Units(q) \in Nat
<1>1. 2 * q + 5 \in Nat
  OBVIOUS
<1>2. (2 * q + 5) \div 10 \in Nat
  BY <1>1, Division
<1> QED
  BY <1>2 DEF Units

LEMMA SomeDayIsNeediest ==
  ASSUME NEW n \in Nat \ {0}, plan.weights \in [1..n -> Nat], plan.units \in Nat,
         Units(cap) \in Nat, given \in [1..n -> 0..Units(cap)], Open # {}
  PROVE  /\ Neediest \in Open
         /\ \A j \in Open : Needs(plan.weights, plan.units, given, Neediest, j)
<1> DEFINE rest == [i \in 1..n |-> Remainder(i)]
           R == {p \in (1..n) \X (1..n) :
                   rest[p[2]] > rest[p[1]] \/ (rest[p[2]] = rest[p[1]] /\ p[2] < p[1])}
<1>1. Open \in SUBSET (1..n) /\ IsFiniteSet(1..n)
  BY FS_Interval DEF Open
<1>2. \A i \in 1..n : /\ Remainder(i) = Owed(plan.weights, plan.units, given, i)
                      /\ Remainder(i) \in Int
  <2> SUFFICES ASSUME NEW i \in 1..n
               PROVE  /\ Remainder(i) = Owed(plan.weights, plan.units, given, i)
                      /\ Remainder(i) \in Int
    OBVIOUS
  <2>1. PICK a \in Nat, b \in Nat : a = plan.weights[i] /\ b = given[i]
    OBVIOUS
  <2>2. PICK u \in Nat : u = plan.units
    OBVIOUS
  <2>3. a * u - b * Million \in Int
    BY MillionIsNatural
  <2> QED
    BY <2>1, <2>2, <2>3 DEF Remainder, Owed
<1>3. rest \in [1..n -> Int]
  BY <1>2
<1> HIDE DEF rest
<1>4. \A k, l \in 1..n :
        /\ rest[k] \in Int /\ rest[l] \in Int
        /\ <<k, l>> \in R <=> rest[l] > rest[k] \/ (rest[l] = rest[k] /\ l < k)
  BY <1>3
<1> HIDE DEF R
<1>5. PICK D : D = 1..n
  OBVIOUS
<1>6. PICK k \in Open : \A l \in Open \ {k} : <<l, k>> \in R
  <2>5. IsFiniteSet(D)
    BY <1>1, <1>5
  <2>6. \A k \in D : k \in Int
    BY <1>5
  <2>1. \A k, l \in D : k # l => (<<k, l>> \in R \/ <<l, k>> \in R)
    BY ONLY <1>4, <1>5, <2>6
  <2>2. \A k, l, m \in D : <<k, l>> \in R /\ <<l, m>> \in R => <<k, m>> \in R
    BY ONLY <1>4, <1>5, <2>6
  <2>3. Open \in SUBSET D /\ Open # {}
    BY <1>1, <1>5
  <2>4. \A s \in SUBSET D : s # {} => \E k \in s : \A l \in s \ {k} : <<l, k>> \in R
    BY ONLY <2>1, <2>2, <2>5, LastOfSet
  <2> QED
    BY ONLY <2>3, <2>4
<1>7. \A j \in Open : rest[k] > rest[j] \/ (rest[k] = rest[j] /\ k <= j)
  <2> SUFFICES ASSUME NEW j \in Open
               PROVE  rest[k] > rest[j] \/ (rest[k] = rest[j] /\ k <= j)
    OBVIOUS
  <2>1. PICK x \in 1..n, y \in 1..n : x = j /\ y = k
    BY <1>1
  <2>2. x \in Int /\ y \in Int /\ rest[x] \in Int /\ rest[y] \in Int
    BY <1>3
  <2>3. x = y \/ rest[y] > rest[x] \/ (rest[y] = rest[x] /\ y < x)
    BY <1>4, <1>6, <2>1
  <2> QED
    BY ONLY <2>1, <2>2, <2>3
<1>8. \A i \in 1..n : rest[i] = Remainder(i)
  BY DEF rest
<1>9. \A j \in Open : Remainder(k) > Remainder(j) \/ (Remainder(k) = Remainder(j) /\ k <= j)
  BY <1>1, <1>7, <1>8
<1>10. PICK m : m = Neediest
  OBVIOUS
<1>11. m \in Open /\ \A j \in Open : Remainder(m) > Remainder(j) \/ (Remainder(m) = Remainder(j) /\ m <= j)
  BY <1>9, <1>10, Zenon DEF Neediest
<1> QED
  BY <1>1, <1>2, <1>10, <1>11 DEF Needs

(* One unit more for one day is one unit more in all.                       *)
LEMMA OneMore ==
  ASSUME NEW n \in Nat \ {0}, NEW g \in [1..n -> Nat], NEW m \in 1..n
  PROVE  Total([g EXCEPT ![m] = @ + 1], 1..n) = Total(g, 1..n) + 1
<1>1. PICK D : D = 1..n
  OBVIOUS
<1>2. PICK h : h = [g EXCEPT ![m] = @ + 1]
  OBVIOUS
<1>3. /\ IsFiniteSet(D) /\ g \in [D -> Int] /\ h \in [D -> Int] /\ m \in D
      /\ h[m] = g[m] + 1 /\ \A i \in D \ {m} : g[i] = h[i]
  BY <1>1, <1>2, UptoLast
<1>4. Total(h, D) + g[m] = Total(g, D) + h[m]
  BY ONLY <1>3, TotalChanged
<1>5. Total(h, D) \in Int /\ Total(g, D) \in Int
  BY ONLY <1>3, TotalIsInteger
<1>6. g[m] \in Int
  BY <1>3
<1> QED
  BY ONLY <1>1, <1>2, <1>3, <1>4, <1>5, <1>6

LEMMA PlanInitSound == PlanInit => PlanningInv
<1> SUFFICES ASSUME PlanInit PROVE PlanningInv
  OBVIOUS
<1>1. activity \in Activities /\ WorkDates(activity) # <<>>
  BY DEF PlanInit
<1>2. DatesOf(activity) \in Nat \ {0}
  BY <1>1, ActivityIsSound
<1> QED
  BY <1>1, <1>2 DEF PlanInit, PlanningInv

LEMMA DatesToPlan ==
  ASSUME PlanningInv
  PROVE  /\ activity \in Activities /\ WorkDates(activity) # <<>> /\ cap \in Nat /\ cap \in Caps
         /\ Units(cap) \in Nat
         /\ given = <<>> => rows = None
<1>1. activity \in Activities /\ cap \in Caps /\ DatesOf(activity) \in Nat \ {0}
  BY DEF PlanningInv
<1>2. cap \in Nat
  BY <1>1, PlanningAssumption
<1>3. WorkDates(activity) # <<>>
  BY <1>1 DEF DatesOf
<1>4. given = <<>> => rows = None
  BY DEF PlanningInv, Laid
<1> QED
  BY <1>1, <1>2, <1>3, <1>4, UnitsIsNatural

LEMMA ResolveSound ==
  ASSUME PlanningInv, ResolveDistribution
  PROVE  PlanningInv'
<1>1. /\ plan = None /\ plan' = Resolved(activity, cap)
      /\ UNCHANGED <<activity, cap, bookings, pool, given, left, rows>>
  BY DEF ResolveDistribution
<1>2. given = <<>> /\ rows = None
  BY <1>1, DatesToPlan DEF PlanningInv
<1>3. Fits(plan', DatesOf(activity))
  BY <1>1, DatesToPlan, ResolvedFits
<1>4. DatesOf(activity') = DatesOf(activity)
  BY <1>1
<1> QED
  BY <1>1, <1>2, <1>3, <1>4 DEF PlanningInv

LEMMA AllocateSound ==
  ASSUME PlanningInv, Allocate
  PROVE  PlanningInv'
<1>1. /\ plan # None /\ given = <<>> /\ given' = Floors(plan, cap)
      /\ left' = plan.units - SumSeq(given')
      /\ UNCHANGED <<activity, cap, bookings, pool, plan, rows>>
  BY DEF Allocate
<1>2. PICK n \in Nat \ {0} : n = DatesOf(activity)
  BY DEF PlanningInv
<1>3. rows = None /\ Units(cap) \in Nat
  BY <1>1, DatesToPlan
<1>4. Fits(plan, n)
  BY <1>1, <1>2 DEF PlanningInv
<1>5. PICK w, U, K, g : w = plan.weights /\ U = plan.units /\ K = Units(cap) /\ g = given'
  OBVIOUS
<1>6. w \in [1..n -> Nat] /\ U \in Nat /\ K \in Nat /\ U * n < 2 * Million /\ Whole(w, n)
  BY <1>3, <1>4, <1>5 DEF Fits, Whole
<1>7. g = FloorsOf(n, w, U, K)
  <2>1. DOMAIN w = 1..n
    BY <1>6
  <2> QED
    BY <1>1, <1>5, <2>1 DEF Floors, FloorsOf
<1>8. /\ g \in [1..n -> 0..K] /\ \A i \in 1..n : g[i] <= (w[i] * U) \div Million
      /\ Fair(w, g)
      /\ (\A i \in 1..n : g[i] < K) => NearShares(w, U, g)
  BY ONLY <1>2, <1>6, <1>7, FloorsAreFair
<1>9. DOMAIN g = 1..n /\ g \in [1..n -> Nat] /\ g # <<>>
  BY <1>6, <1>8
<1>10. Total(g, 1..n) <= U /\ Total(g, 1..n) \in Int
  <2>1. Total(g, 1..n) <= U
    BY ONLY <1>2, <1>6, <1>8, <1>9, FloorsFit
  <2>2. PICK D : D = 1..n
    OBVIOUS
  <2>3. IsFiniteSet(D) /\ g \in [D -> Int] /\ D \in SUBSET D
    BY <1>9, <2>2, UptoLast
  <2>4. Total(g, D) \in Int
    BY ONLY <2>3, TotalIsInteger
  <2> QED
    BY <2>1, <2>2, <2>4
<1>11. left' = U - Total(g, 1..n) /\ left' >= 0
  <2>1. left' = U - Total(g, 1..n)
    BY <1>1, <1>5, <1>9 DEF SumSeq
  <2> QED
    BY ONLY <1>6, <1>10, <2>1
<1>12. (Open = DOMAIN given)' => Near'
  <2> SUFFICES ASSUME (Open = DOMAIN given)' PROVE Near'
    OBVIOUS
  <2>1. \A i \in 1..n : g[i] < K
    BY <1>1, <1>5, <1>9 DEF Open
  <2>2. NearShares(w, U, g)
    BY <1>8, <2>1
  <2> QED
    BY <1>1, <1>5, <2>2 DEF NearShares, Near, Owed, Remainder
<1>13. DatesOf(activity') = n
  BY <1>1, <1>2
<1> QED
  BY <1>1, <1>3, <1>4, <1>5, <1>8, <1>11, <1>12, <1>13 DEF PlanningInv

LEMMA GiveSound ==
  ASSUME PlanningInv, Give
  PROVE  PlanningInv'
<1>1. /\ given # <<>> /\ left > 0 /\ Open # {} /\ rows = None
      /\ given' = [given EXCEPT ![Neediest] = @ + 1]
      /\ left' = left - 1
      /\ UNCHANGED <<activity, cap, bookings, pool, plan, rows>>
  BY DEF Give
<1>2. PICK n \in Nat \ {0} : n = DatesOf(activity)
  BY DEF PlanningInv
<1>3. /\ plan # None /\ Fits(plan, n) /\ given \in [1..n -> 0..Units(cap)]
      /\ left = plan.units - Total(given, 1..n)
      /\ Fair(plan.weights, given)
      /\ Open = DOMAIN given => Near
  BY <1>1, <1>2 DEF PlanningInv
<1>4. PICK w, U, K, g, h, m :
        /\ w = plan.weights /\ U = plan.units /\ K = Units(cap) /\ g = given
        /\ h = given' /\ m = Neediest
  OBVIOUS
<1>5. w \in [1..n -> Nat] /\ U \in Nat /\ K \in Nat /\ Whole(w, n)
  BY <1>3, <1>4, DatesToPlan DEF Fits, Whole
<1>6. /\ m \in Open /\ \A j \in Open : Needs(w, U, g, m, j)
      /\ Open = {i \in 1..n : g[i] < K}
  <2>1. Open = {i \in 1..n : g[i] < K}
    BY <1>3, <1>4 DEF Open
  <2>2. /\ plan.weights \in [1..n -> Nat] /\ plan.units \in Nat
        /\ Units(cap) \in Nat /\ given \in [1..n -> 0..Units(cap)] /\ Open # {}
    BY <1>1, <1>3, <1>4, <1>5
  <2>3. /\ Neediest \in Open
        /\ \A j \in Open : Needs(plan.weights, plan.units, given, Neediest, j)
    BY ONLY <1>2, <2>2, SomeDayIsNeediest
  <2> QED
    BY <1>4, <2>1, <2>3
<1>7. /\ g \in [1..n -> 0..K] /\ g \in [1..n -> Nat] /\ m \in 1..n /\ g[m] < K
      /\ h = [g EXCEPT ![m] = @ + 1] /\ Fair(w, g)
      /\ \A j \in 1..n : g[j] < K => Needs(w, U, g, m, j)
  <2>1. g \in [1..n -> 0..K] /\ h = [g EXCEPT ![m] = @ + 1] /\ Fair(w, g)
    BY <1>1, <1>3, <1>4
  <2>2. m \in 1..n /\ g[m] < K /\ \A j \in 1..n : g[j] < K => Needs(w, U, g, m, j)
    BY ONLY <1>6
  <2>3. g \in [1..n -> Nat]
    BY <1>5, <2>1
  <2> QED
    BY <2>1, <2>2, <2>3
<1>8. Total(g, 1..n) \in Int
  <2>1. PICK D : D = 1..n
    OBVIOUS
  <2>2. IsFiniteSet(D) /\ g \in [D -> Int] /\ D \in SUBSET D
    BY <1>7, <2>1, UptoLast
  <2>3. Total(g, D) \in Int
    BY ONLY <2>2, TotalIsInteger
  <2> QED
    BY <2>1, <2>3
<1>9. Total(g, 1..n) < U
  <2>1. left = U - Total(g, 1..n)
    BY <1>3, <1>4
  <2> QED
    BY ONLY <1>1, <1>5, <1>8, <2>1
<1>10. U > 0
  <2>1. PICK D : D = 1..n
    OBVIOUS
  <2>2. IsFiniteSet(D) /\ g \in [D -> Nat] /\ D \in SUBSET D
    BY <1>7, <2>1, UptoLast
  <2>3. Total(g, D) \in Nat
    BY ONLY <2>2, TotalIsNatural
  <2> QED
    BY ONLY <1>5, <1>9, <2>1, <2>3
<1>11. h \in [1..n -> 0..K] /\ Fair(w, h)
  BY ONLY <1>2, <1>5, <1>7, <1>10, GiveKeepsFair
<1>12. Total(h, 1..n) = Total(g, 1..n) + 1
  BY ONLY <1>2, <1>7, OneMore
<1>13. left' = U - Total(h, 1..n) /\ left' >= 0
  <2>1. left = U - Total(g, 1..n) /\ left' = left - 1
    BY <1>1, <1>3, <1>4
  <2> QED
    BY ONLY <1>5, <1>8, <1>9, <1>12, <2>1
<1>14. (Open = DOMAIN given)' => Near'
  <2> SUFFICES ASSUME (Open = DOMAIN given)' PROVE Near'
    OBVIOUS
  <2>1. DOMAIN h = 1..n /\ DOMAIN g = 1..n
    BY <1>7, <1>11
  <2>2. \A i \in 1..n : h[i] < K
    BY <1>1, <1>4, <2>1 DEF Open
  <2>3. \A i \in 1..n : g[i] <= h[i] /\ g[i] \in Nat /\ h[i] \in Nat
    BY <1>7, <1>11
  <2>4. \A i \in 1..n : g[i] < K
    BY <1>5, <2>2, <2>3
  <2>5. Open = DOMAIN given
    BY <1>4, <1>6, <2>1, <2>4
  <2>6. NearShares(w, U, g)
    BY <1>3, <1>4, <2>5 DEF NearShares, Near, Owed, Remainder
  <2>7. \A j \in 1..n : Needs(w, U, g, m, j)
    BY <1>7, <2>4
  <2>8. NearShares(w, U, h)
    BY ONLY <1>2, <1>5, <1>7, <1>9, <2>6, <2>7, GiveKeepsNear
  <2> QED
    BY <1>1, <1>4, <2>8 DEF NearShares, Near, Owed, Remainder
<1>15. DatesOf(activity') = n /\ given' # <<>>
  BY <1>1, <1>2, <1>4, <1>7
<1> QED
  BY <1>1, <1>3, <1>4, <1>11, <1>13, <1>14, <1>15, <1>2 DEF PlanningInv

(* What the dashboard shows is a matter of what is planned.                 *)
Dashboard == [x \in Weeks \X PlannedTypes |-> Cell(x[1], x[2])]

LEMMA DashboardStays ==
  ASSUME UNCHANGED <<activity, cap, bookings, pool, plan, given, left>>
  PROVE  Dashboard' = Dashboard /\ Laid' = Laid /\ Near' = Near /\ Open' = Open
<1>1. /\ activity' = activity /\ cap' = cap /\ bookings' = bookings /\ pool' = pool
      /\ plan' = plan /\ given' = given /\ left' = left
  OBVIOUS
<1>2. Open' = Open
  BY <1>1 DEF Open
<1>3. Laid' = Laid /\ Near' = Near
  BY <1>1, <1>2 DEF Laid, Near, Remainder
<1>4. Dashboard' = Dashboard
  BY <1>1 DEF Dashboard, PlannedTypes, Cell, Demand, Booked, Capacity, Available, Parts, Counted,
               Covering, EligibleDays, WorkingDays
<1> QED
  BY <1>2, <1>3, <1>4

LEMMA ShowSound ==
  ASSUME PlanningInv, Show
  PROVE  PlanningInv'
<1>1. /\ Laid /\ rows = None /\ rows' = Dashboard
      /\ UNCHANGED <<activity, cap, bookings, pool, plan, given, left>>
  BY DEF Show, Dashboard
<1>2. Dashboard' = Dashboard /\ Laid' /\ Near' = Near /\ Open' = Open
  BY <1>1, DashboardStays
<1>3. rows' = [x \in Weeks \X PlannedTypes |-> Cell(x[1], x[2])]'
  BY <1>1, <1>2 DEF Dashboard
<1> QED
  BY <1>1, <1>2, <1>3 DEF PlanningInv

LEMMA NothingSound ==
  ASSUME PlanningInv, UNCHANGED planning
  PROVE  PlanningInv'
<1>1. UNCHANGED <<activity, cap, bookings, pool, plan, given, left, rows>>
  BY DEF planning
<1>2. Dashboard' = Dashboard /\ Laid' = Laid /\ Near' = Near /\ Open' = Open
  BY <1>1, DashboardStays
<1>3. rows = Dashboard => rows' = [x \in Weeks \X PlannedTypes |-> Cell(x[1], x[2])]'
  BY <1>1, <1>2 DEF Dashboard
<1>4. rows # None => Laid /\ rows = Dashboard
  BY DEF PlanningInv, Dashboard
<1> QED
  BY <1>1, <1>2, <1>3, <1>4 DEF PlanningInv

-----------------------------------------------------------------------------
(* What the invariant says of the hours and of the dashboard.               *)

LEMMA HoursArePlaced ==
  ASSUME PlanningInv
  PROVE  HoursPlaced
<1> SUFFICES ASSUME Laid PROVE SumSeq(given) = Least(plan.units, Len(given) * Units(cap))
  BY DEF HoursPlaced
<1>1. PICK n \in Nat \ {0} : n = DatesOf(activity)
  BY DEF PlanningInv
<1>2. /\ given # <<>> /\ Fits(plan, n) /\ given \in [1..n -> 0..Units(cap)]
      /\ left = plan.units - Total(given, 1..n) /\ left >= 0
      /\ left <= 0 \/ Open = {}
  BY <1>1 DEF PlanningInv, Laid
<1>3. PICK U, K, g, D : U = plan.units /\ K = Units(cap) /\ g = given /\ D = 1..n
  OBVIOUS
<1>4. U \in Nat /\ K \in Nat
  BY <1>2, <1>3, DatesToPlan DEF Fits
<1>5. IsFiniteSet(D) /\ Cardinality(D) = n /\ g \in [D -> Int] /\ D \in SUBSET D
  BY <1>2, <1>3, <1>4, UptoLast
<1>6. \A i \in D : g[i] <= K /\ g[i] \in Nat
  BY <1>2, <1>3, <1>4
<1>7. Total(g, D) \in Int
  BY ONLY <1>5, TotalIsInteger
<1>8. Total(g, D) <= K * n
  <2>1. PICK c : c = [i \in D |-> K]
    OBVIOUS
  <2>2. c \in [D -> Int] /\ \A i \in D : c[i] = K
    BY <1>4, <2>1
  <2>3. \A i \in D : g[i] <= c[i]
    BY <1>6, <2>2
  <2>4. Total(g, D) <= Total(c, D)
    BY ONLY <1>5, <2>2, <2>3, TotalAtMost
  <2>5. K \in Int
    BY <1>4
  <2>6. Total(c, D) = K * Cardinality(D)
    BY ONLY <1>5, <2>2, <2>5, TotalConstant
  <2> QED
    BY <1>5, <2>4, <2>6
<1>9. Open = {} => Total(g, D) = K * n
  <2> SUFFICES ASSUME Open = {} PROVE Total(g, D) = K * n
    OBVIOUS
  <2>1. \A i \in D : g[i] = K
    <3>1. \A i \in D : ~(g[i] < K)
      BY <1>2, <1>3 DEF Open
    <3> QED
      BY ONLY <1>4, <1>6, <3>1
  <2>2. K \in Int
    BY <1>4
  <2>3. Total(g, D) = K * Cardinality(D)
    BY ONLY <1>5, <2>1, <2>2, TotalConstant
  <2> QED
    BY <1>5, <2>3
<1>10. SumSeq(given) = Total(g, D) /\ Len(given) = n
  <2>1. DOMAIN given = D /\ D = 1..n
    BY <1>3, <1>5
  <2>2. given \in Seq(Int)
    BY <1>3, <1>5, FunctionAsSequence
  <2> QED
    BY <1>3, <2>1, <2>2, LenProperties DEF SumSeq
<1>11. left = U - Total(g, D)
  BY <1>2, <1>3
<1>12. PICK T \in Int, N \in Int : T = Total(g, D) /\ N = K * n
  BY <1>4, <1>7
<1>13. T = Least(U, N)
  <2>1. T <= N /\ (left <= 0 \/ T = N) /\ left = U - T /\ left >= 0
    BY <1>2, <1>8, <1>9, <1>11, <1>12
  <2> QED
    BY ONLY <1>4, <1>12, <2>1 DEF Least
<1>14. N = n * K
  BY <1>4, <1>12
<1> QED
  BY ONLY <1>3, <1>10, <1>12, <1>13, <1>14

LEMMA SharesAreFollowed ==
  ASSUME PlanningInv
  PROVE  SharesFollowWeights
<1> SUFFICES ASSUME Laid PROVE SharesFollowWeights
  BY DEF SharesFollowWeights
<1>1. given # <<>>
  BY DEF Laid
<1>2. Fair(plan.weights, given) /\ (Open = DOMAIN given => Near)
  BY <1>1 DEF PlanningInv
<1> QED
  BY <1>2 DEF SharesFollowWeights, Fair, Near

(* The dashboard.                                                           *)

LEMMA WhatIsPlanned ==
  ASSUME PlanningInv
  PROVE  /\ IsFiniteSet(Covering) /\ \A b \in Covering : BookingAssumption(b)
         /\ IsFiniteSet(pool) /\ \A a \in pool : a.hours \in Nat
         /\ IsFiniteSet(Weeks \X PlannedTypes)
<1>1. bookings \in BookingSets /\ pool \in Pools
  BY DEF PlanningInv
<1>2. /\ IsFiniteSet(Covering) /\ \A b \in Covering : BookingAssumption(b)
      /\ IsFiniteSet(pool) /\ \A a \in pool : a.hours \in Nat
      /\ IsFiniteSet(Weeks)
  <2>1. /\ IsFiniteSet(bookings) /\ \A b \in bookings : BookingAssumption(b)
        /\ IsFiniteSet(pool) /\ \A a \in pool : a.hours \in Nat
        /\ IsFiniteSet(Weeks)
    BY <1>1, PlanningAssumption, Zenon
  <2>2. Covering \subseteq bookings
    BY DEF Covering
  <2> QED
    BY <2>1, <2>2, FS_Subset
<1>3. IsFiniteSet({b.type : b \in Covering})
  <2>1. PICK f : f = [b \in Covering |-> b.type]
    OBVIOUS
  <2>2. {b.type : b \in Covering} = {f[b] : b \in Covering}
    BY <2>1
  <2>3. IsFiniteSet(Covering)
    BY <1>2
  <2>4. IsFiniteSet({f[x] : x \in Covering})
    BY ONLY <2>3, ImageIsFinite
  <2> QED
    BY ONLY <2>2, <2>4
<1>4. IsFiniteSet({a.type : a \in pool})
  <2>1. PICK f : f = [a \in pool |-> a.type]
    OBVIOUS
  <2>2. {a.type : a \in pool} = {f[a] : a \in pool}
    BY <2>1
  <2>3. IsFiniteSet(pool)
    BY <1>2
  <2>4. IsFiniteSet({f[x] : x \in pool})
    BY ONLY <2>3, ImageIsFinite
  <2> QED
    BY ONLY <2>2, <2>4
<1>5. IsFiniteSet(PlannedTypes)
  <2>1. IsFiniteSet({activity.type})
    BY FS_Singleton
  <2> QED
    BY <1>3, <1>4, <2>1, FS_Union DEF PlannedTypes
<1>6. IsFiniteSet(Weeks \X PlannedTypes)
  BY <1>2, <1>5, FS_Product
<1> QED
  BY <1>2, <1>6

(* A booking is cut, and nothing of it is lost.                             *)
LEMMA SegmentsOf ==
  ASSUME NEW b, BookingAssumption(b)
  PROVE  /\ IsFiniteSet(Segments(b)) /\ Duration(b) \in Int /\ b.day \in Int
         /\ \/ Segments(b) = {<<b.day, Duration(b)>>}
            \/ \E k \in Int : Segments(b) = {<<b.day, Duration(b) - k>>, <<b.day + 1, k>>}
<1>1. Day = 240
  BY DEF Day
<1>2. b.day \in Int /\ b.start \in 0..239 /\ b.end \in 0..239
  BY <1>1 DEF BookingAssumption
<1>3. PICK d, s, e : d = b.day /\ s = b.start /\ e = b.end
  OBVIOUS
<1>4. d \in Int /\ s \in 0..239 /\ e \in 0..239
  BY <1>2, <1>3
<1>5. CASE e > s
  <2>1. Segments(b) = {<<d, e - s>>}
    BY <1>3, <1>5 DEF Segments
  <2>2. PICK x \in 0..239 : x = e - s
    BY ONLY <1>4, <1>5
  <2>3. (e - s + 240) % 240 = x
    BY ONLY <1>4, <2>2
  <2>4. Duration(b) = x
    <3>1. ~(b.end = b.start)
      BY ONLY <1>3, <1>4, <1>5
    <3>2. Duration(b) = (e - s + 240) % 240
      BY ONLY <1>1, <1>3, <3>1 DEF Duration
    <3> QED
      BY ONLY <2>3, <3>2
  <2>5. Segments(b) = {<<d, x>>} /\ x \in Int
    BY <2>1, <2>2
  <2>6. IsFiniteSet({<<d, x>>})
    BY FS_Singleton
  <2> QED
    BY ONLY <1>3, <1>4, <2>4, <2>5, <2>6
<1>6. CASE ~(e > s)
  <2>1. Segments(b) = {x \in {<<d, 240 - s>>, <<d + 1, e>>} : x[2] > 0}
    BY <1>1, <1>3, <1>6 DEF Segments
  <2>2. PICK D \in Int : D = 240 - s + e
    BY ONLY <1>4
  <2>3. Duration(b) = D
    <3>1. CASE e = s
      <4>1. Duration(b) = 240
        BY ONLY <1>1, <1>3, <3>1 DEF Duration
      <4> QED
        BY ONLY <1>4, <2>2, <3>1, <4>1
    <3>2. CASE e # s
      <4>1. PICK x \in 0..239 : x = e - s + 240
        BY ONLY <1>4, <1>6, <3>2
      <4>2. (e - s + 240) % 240 = x
        BY ONLY <4>1
      <4>3. Duration(b) = (e - s + 240) % 240
        BY ONLY <1>1, <1>3, <3>2 DEF Duration
      <4> QED
        BY ONLY <1>4, <2>2, <4>1, <4>2, <4>3
    <3> QED
      BY <3>1, <3>2
  <2>4. CASE e = 0
    <3>1. Segments(b) = {<<d, 240 - s>>}
      BY ONLY <1>4, <2>1, <2>4
    <3>2. 240 - s = D
      BY ONLY <1>4, <2>2, <2>4
    <3>3. IsFiniteSet({<<d, D>>})
      BY FS_Singleton
    <3> QED
      BY ONLY <1>3, <1>4, <2>2, <2>3, <3>1, <3>2, <3>3
  <2>5. CASE e # 0
    <3>1. Segments(b) = {<<d, 240 - s>>, <<d + 1, e>>}
      BY ONLY <1>4, <2>1, <2>5
    <3>2. 240 - s = D - e /\ e \in Int
      BY ONLY <1>4, <2>2
    <3>3. IsFiniteSet({<<d, D - e>>, <<d + 1, e>>})
      <4>1. IsFiniteSet({<<d, D - e>>})
        BY FS_Singleton
      <4>2. IsFiniteSet({<<d, D - e>>} \cup {<<d + 1, e>>})
        BY <4>1, FS_AddElement
      <4>3. {<<d, D - e>>} \cup {<<d + 1, e>>} = {<<d, D - e>>, <<d + 1, e>>}
        OBVIOUS
      <4> QED
        BY ONLY <4>2, <4>3
    <3>4. Segments(b) = {<<b.day, Duration(b) - e>>, <<b.day + 1, e>>}
      BY ONLY <1>3, <2>3, <3>1, <3>2
    <3>5. IsFiniteSet(Segments(b))
      BY ONLY <3>1, <3>2, <3>3
    <3>6. Duration(b) \in Int /\ b.day \in Int
      BY ONLY <1>3, <1>4, <2>2, <2>3
    <3> QED
      BY ONLY <3>2, <3>4, <3>5, <3>6
  <2> QED
    BY <2>4, <2>5
<1> QED
  BY <1>5, <1>6

LEMMA TotalOfOne ==
  ASSUME NEW D, IsFiniteSet(D), NEW f \in [D -> Int], NEW x \in D
  PROVE  Total(f, {x}) = f[x]
<1>1. PICK S : S = {x}
  OBVIOUS
<1>2. S \in SUBSET D /\ x \in S /\ S \ {x} = {} /\ {} \in SUBSET D
  BY <1>1
<1>3. Total(f, S) = f[x] + Total(f, S \ {x})
  BY ONLY <1>2, TotalWithout, IsFiniteSet(D), f \in [D -> Int]
<1>4. PICK R : R = S \ {x}
  OBVIOUS
<1>5. R \in SUBSET D /\ R = {}
  BY <1>2, <1>4
<1>6. Total(f, R) = 0
  BY ONLY <1>5, TotalOfChosen, IsFiniteSet(D), f \in [D -> Int]
<1>7. f[x] \in Int
  OBVIOUS
<1>8. Total(f, S) = f[x] + 0
  BY ONLY <1>3, <1>4, <1>6
<1> QED
  BY ONLY <1>1, <1>7, <1>8

LEMMA TotalOfTwo ==
  ASSUME NEW D, IsFiniteSet(D), NEW f \in [D -> Int], NEW x \in D, NEW y \in D, x # y
  PROVE  Total(f, {x, y}) = f[x] + f[y]
<1>1. PICK S : S = {x, y}
  OBVIOUS
<1>2. S \in SUBSET D /\ x \in S /\ S \ {x} = {y}
  BY <1>1
<1>3. Total(f, S) = f[x] + Total(f, S \ {x})
  BY ONLY <1>2, TotalWithout, IsFiniteSet(D), f \in [D -> Int]
<1>4. Total(f, {y}) = f[y]
  BY TotalOfOne
<1> QED
  BY ONLY <1>1, <1>2, <1>3, <1>4

LEMMA NothingOfBookingIsLost ==
  ASSUME NEW P, IsFiniteSet(P), NEW f \in [P -> Int], NEW b, BookingAssumption(b),
         NEW S \in SUBSET P, S = {<<b, x>> : x \in Segments(b)}, \A p \in S : f[p] = p[2][2]
  PROVE  Total(f, S) = Duration(b)
<1>1. Duration(b) \in Int /\ b.day \in Int
  BY SegmentsOf
<1>2. PICK day \in Int, T \in Int : day = b.day /\ T = Duration(b)
  BY <1>1
<1>3. \/ Segments(b) = {<<day, T>>}
      \/ \E k \in Int : Segments(b) = {<<day, T - k>>, <<day + 1, k>>}
  BY <1>2, SegmentsOf
<1>4. CASE Segments(b) = {<<day, T>>}
  <2>1. PICK p : p = <<b, <<day, T>>>>
    OBVIOUS
  <2>2. S = {p}
    BY <1>4, <2>1
  <2>3. p \in P /\ f[p] = T
    <3>1. p \in S
      BY <2>2
    <3>2. f[p] = p[2][2]
      BY <3>1
    <3> QED
      BY <2>1, <3>1, <3>2
  <2>4. Total(f, {p}) = f[p]
    BY <2>3, TotalOfOne
  <2> QED
    BY <1>2, <2>2, <2>3, <2>4
<1>5. CASE \E k \in Int : Segments(b) = {<<day, T - k>>, <<day + 1, k>>}
  <2>1. PICK k \in Int : Segments(b) = {<<day, T - k>>, <<day + 1, k>>}
    BY <1>5
  <2>2. PICK p, q : p = <<b, <<day, T - k>>>> /\ q = <<b, <<day + 1, k>>>>
    OBVIOUS
  <2>3. S = {p, q}
    BY <2>1, <2>2
  <2>4. p # q
    BY ONLY <2>2, day \in Int
  <2>5. p \in P /\ q \in P /\ f[p] = T - k /\ f[q] = k
    <3>1. p \in S /\ q \in S
      BY <2>3
    <3>2. f[p] = p[2][2] /\ f[q] = q[2][2]
      BY <3>1
    <3> QED
      BY <2>2, <3>1, <3>2
  <2>6. Total(f, {p, q}) = f[p] + f[q]
    BY <2>4, <2>5, TotalOfTwo
  <2>7. f[p] + f[q] = T
    BY ONLY <2>5, T \in Int, k \in Int
  <2> QED
    BY ONLY <1>2, <2>3, <2>6, <2>7
<1> QED
  BY <1>3, <1>4, <1>5

LEMMA PartsAreFinite ==
  ASSUME PlanningInv
  PROVE  /\ IsFiniteSet(Parts)
         /\ \A p \in Parts : /\ p[1] \in Covering /\ p[2] \in Segments(p[1])
                             /\ p[2][1] \in Int /\ p[2][2] \in Int
         /\ \A b \in Covering : {p \in Parts : p[1] = b} = {<<b, x>> : x \in Segments(b)}
<1> DEFINE of == [b \in Covering |-> {<<b, x>> : x \in Segments(b)}]
           sets == {of[b] : b \in Covering}
<1>1. IsFiniteSet(Covering) /\ \A b \in Covering : BookingAssumption(b)
  BY WhatIsPlanned
<1>2. ASSUME NEW b \in Covering PROVE IsFiniteSet(of[b])
  <2>1. IsFiniteSet(Segments(b))
    BY <1>1, SegmentsOf
  <2>2. PICK f : f = [x \in Segments(b) |-> <<b, x>>]
    OBVIOUS
  <2>3. IsFiniteSet({f[x] : x \in Segments(b)})
    BY ONLY <2>1, ImageIsFinite
  <2>4. {f[x] : x \in Segments(b)} = of[b]
    BY <2>2
  <2> QED
    BY ONLY <2>3, <2>4
<1>3. Parts = UNION sets
  BY DEF Parts
<1>4. IsFiniteSet(Parts)
  <2> HIDE DEF of
  <2>1. IsFiniteSet(sets)
    BY <1>1, ImageIsFinite
  <2>2. \A s \in sets : IsFiniteSet(s)
    BY <1>2
  <2> HIDE DEF sets
  <2> QED
    BY <1>3, <2>1, <2>2, FS_UNION
<1>5. ASSUME NEW p \in Parts
      PROVE  p[1] \in Covering /\ p[2] \in Segments(p[1]) /\ p[2][1] \in Int /\ p[2][2] \in Int
  <2>1. PICK b \in Covering : \E y \in Segments(b) : p = <<b, y>>
    BY DEF Parts
  <2>3. PICK x \in Segments(b) : p = <<b, x>>
    BY <2>1
  <2>2. x[1] \in Int /\ x[2] \in Int
    <3>1. BookingAssumption(b)
      BY <1>1
    <3>2. /\ Duration(b) \in Int /\ b.day \in Int
          /\ \/ Segments(b) = {<<b.day, Duration(b)>>}
             \/ \E k \in Int : Segments(b) = {<<b.day, Duration(b) - k>>, <<b.day + 1, k>>}
      BY <3>1, SegmentsOf
    <3> QED
      BY <3>2
  <2> QED
    BY <2>1, <2>2, <2>3
<1>6. ASSUME NEW b \in Covering
      PROVE  {p \in Parts : p[1] = b} = {<<b, x>> : x \in Segments(b)}
  BY DEF Parts
<1> QED
  BY <1>4, <1>5, <1>6

Multiplies(h, c, g, X) == \A x \in X : h[x] = c * g[x]

LEMMA TotalByCell ==
  ASSUME NEW D, IsFiniteSet(D), NEW f \in [D -> Int], NEW X, IsFiniteSet(X), NEW class,
         NEW S \in SUBSET D, \A y \in S : class[y] \in X,
         NEW h \in [X -> Int], NEW c \in Int, Multiplies(h, c, ByClass(f, S, class, X), X)
  PROVE  Total(h, X) = c * Total(f, S)
<1>1. PICK g : g = ByClass(f, S, class, X)
  OBVIOUS
<1>2. g \in [X -> Int]
  <2>1. \A x \in X : {y \in S : class[y] = x} \in SUBSET D
    OBVIOUS
  <2>2. \A R \in SUBSET D : Total(f, R) \in Int
    BY ONLY IsFiniteSet(D), f \in [D -> Int], TotalIsInteger
  <2> QED
    BY <1>1, <2>1, <2>2 DEF ByClass
<1>3. Total(f, S) = Total(g, X)
  BY <1>1, TotalByClass
<1>4. Combines(h, c, g, 0, g, X)
  <2> SUFFICES ASSUME NEW x \in X PROVE h[x] = c * g[x] + 0 * g[x]
    BY DEF Combines
  <2>1. h[x] = c * g[x] /\ g[x] \in Int
    BY <1>1, <1>2 DEF Multiplies
  <2>2. c * g[x] \in Int /\ 0 * g[x] = 0
    BY <2>1
  <2> QED
    BY ONLY <2>1, <2>2
<1>5. Total(h, X) = c * Total(g, X) + 0 * Total(g, X)
  <2>1. X \in SUBSET X /\ 0 \in Int
    OBVIOUS
  <2> QED
    BY ONLY <1>2, <1>4, <2>1, TotalLinear, IsFiniteSet(X), h \in [X -> Int], c \in Int
<1>6. Total(g, X) \in Int
  BY ONLY <1>2, TotalIsInteger, IsFiniteSet(X)
<1>7. c * Total(g, X) \in Int /\ 0 * Total(g, X) = 0
  BY <1>6
<1> QED
  BY ONLY <1>3, <1>5, <1>7

(* Every hour laid out in a week of the dashboard is in one of its cells.   *)
LEMMA DemandIsComplete ==
  ASSUME PlanningInv, Laid
  PROVE  Total([x \in Weeks \X PlannedTypes |-> Demand(x[1], x[2])], Weeks \X PlannedTypes) =
             5 * Total(given, {i \in DOMAIN given : Week(WorkDates(activity)[i]) \in Weeks})
<1>1. PICK n \in Nat \ {0} : n = DatesOf(activity)
  BY DEF PlanningInv
<1>2. given \in [1..n -> 0..Units(cap)] /\ Units(cap) \in Nat
  BY <1>1, DatesToPlan DEF PlanningInv, Laid
<1>3. PICK X, D, g, t, S, h, class :
        /\ X = Weeks \X PlannedTypes /\ D = 1..n /\ g = given /\ t = activity.type
        /\ class = [i \in D |-> <<Week(WorkDates(activity)[i]), t>>]
        /\ S = {i \in DOMAIN given : Week(WorkDates(activity)[i]) \in Weeks}
        /\ h = [x \in X |-> Demand(x[1], x[2])]
  OBVIOUS
<1>4. IsFiniteSet(D) /\ g \in [D -> Int] /\ IsFiniteSet(X) /\ DOMAIN given = D
  <2>1. IsFiniteSet(1..n)
    BY UptoLast
  <2>2. IsFiniteSet(Weeks \X PlannedTypes)
    BY WhatIsPlanned
  <2>3. given \in [1..n -> Int] /\ DOMAIN given = 1..n
    BY <1>2
  <2> QED
    BY ONLY <1>3, <2>1, <2>2, <2>3
<1>5. S \in SUBSET D /\ \A y \in S : class[y] \in X
  <2>1. t \in PlannedTypes
    BY <1>3 DEF PlannedTypes
  <2>2. S = {i \in D : Week(WorkDates(activity)[i]) \in Weeks}
    BY <1>3, <1>4
  <2>3. \A i \in D : class[i] = <<Week(WorkDates(activity)[i]), t>>
    BY ONLY <1>3
  <2>4. X = Weeks \X PlannedTypes
    BY <1>3
  <2> QED
    BY ONLY <2>1, <2>2, <2>3, <2>4
<1>6. ASSUME NEW x \in X
      PROVE  /\ ByClass(g, S, class, X)[x] \in Int
             /\ h[x] = 5 * ByClass(g, S, class, X)[x]
  <2>1. PICK w \in Weeks, u \in PlannedTypes : x = <<w, u>>
    BY <1>3
  <2>2. PICK R : R = {y \in S : class[y] = x}
    OBVIOUS
  <2>3. ByClass(g, S, class, X)[x] = Total(g, R)
    BY <2>2 DEF ByClass
  <2>4. R \in SUBSET D
    BY <1>5, <2>2
  <2>5. Total(g, R) \in Int
    BY ONLY <1>4, <2>4, TotalIsInteger
  <2>6. h[x] = Demand(w, u)
    BY <1>3, <2>1
  <2>7. \A i \in D : class[i] = <<Week(WorkDates(activity)[i]), t>>
    BY ONLY <1>3
  <2>8. \A i \in D : i \in S <=> Week(WorkDates(activity)[i]) \in Weeks
    BY <1>3, <1>4
  <2>9. CASE u = t
    <3>1. R = {i \in DOMAIN given : Week(WorkDates(activity)[i]) = w}
      BY ONLY <1>4, <2>1, <2>2, <2>4, <2>7, <2>8, <2>9, <1>5
    <3>2. Demand(w, u) = 5 * Total(given, {i \in DOMAIN given : Week(WorkDates(activity)[i]) = w})
      BY ONLY <1>3, <2>9 DEF Demand
    <3>3. Demand(w, u) = 5 * Total(g, R)
      BY ONLY <1>3, <3>1, <3>2
    <3> QED
      BY <2>3, <2>5, <2>6, <3>3
  <2>10. CASE u # t
    <3>1. R = {}
      BY ONLY <2>1, <2>2, <2>7, <2>10, <1>5
    <3>2. Total(g, R) = 0
      BY ONLY <1>4, <2>4, <3>1, TotalOfChosen
    <3>3. Demand(w, u) = 0
      BY ONLY <1>3, <2>10 DEF Demand
    <3> QED
      BY <2>3, <2>6, <3>2, <3>3
  <2> QED
    BY <2>9, <2>10
<1>7. Multiplies(h, 5, ByClass(g, S, class, X), X)
  BY <1>6 DEF Multiplies
<1>8. h \in [X -> Int]
  <2>1. \A x \in X : h[x] \in Int
    BY <1>6
  <2>2. h = [x \in X |-> h[x]]
    BY ONLY <1>3
  <2> QED
    BY ONLY <2>1, <2>2
<1>9. Total(h, X) = 5 * Total(g, S)
  <2>1. 5 \in Int
    OBVIOUS
  <2> QED
    BY ONLY <1>4, <1>5, <1>7, <1>8, <2>1, TotalByCell
<1> QED
  BY <1>3, <1>9

(* Bookings that lie in the weeks of the dashboard are in its cells.        *)
LEMMA BookedIsComplete ==
  ASSUME PlanningInv, \A b \in Covering : InWeeks(b)
  PROVE  Total([x \in Weeks \X PlannedTypes |-> Booked(x[1], x[2])], Weeks \X PlannedTypes) =
             Total([b \in Covering |-> Duration(b)], Covering)
<1>1. PICK X, P, B, f, h, class, owner, d :
        /\ X = Weeks \X PlannedTypes /\ P = Parts /\ B = Covering
        /\ f = [p \in P |-> p[2][2]]
        /\ class = [p \in P |-> <<Week(p[2][1]), p[1].type>>]
        /\ owner = [p \in P |-> p[1]]
        /\ h = [x \in X |-> Booked(x[1], x[2])]
        /\ d = [b \in B |-> Duration(b)]
  OBVIOUS
<1>2. \A p \in P : /\ p[1] \in B /\ p[2] \in Segments(p[1])
                   /\ p[2][1] \in Int /\ p[2][2] \in Int
  BY <1>1, PartsAreFinite
<1>3. IsFiniteSet(P) /\ IsFiniteSet(X) /\ IsFiniteSet(B) /\ P \in SUBSET P
  <2>1. IsFiniteSet(Parts) /\ IsFiniteSet(Weeks \X PlannedTypes) /\ IsFiniteSet(Covering)
    BY PartsAreFinite, WhatIsPlanned
  <2> QED
    BY ONLY <1>1, <2>1
<1>4. f \in [P -> Int] /\ \A p \in P : f[p] = p[2][2]
  BY ONLY <1>1, <1>2
<1>5. \A p \in P : class[p] \in X
  <2> SUFFICES ASSUME NEW p \in P PROVE class[p] \in X
    OBVIOUS
  <2>1. class[p] = <<Week(p[2][1]), p[1].type>>
    BY ONLY <1>1, p \in P
  <2>2. p[1].type \in PlannedTypes
    BY <1>1, <1>2 DEF PlannedTypes
  <2>3. Week(p[2][1]) \in Weeks
    BY <1>1, <1>2 DEF InWeeks
  <2>4. X = Weeks \X PlannedTypes
    BY <1>1
  <2> QED
    BY ONLY <2>1, <2>2, <2>3, <2>4
<1>6. ASSUME NEW x \in X
      PROVE  /\ ByClass(f, P, class, X)[x] \in Int
             /\ h[x] = ByClass(f, P, class, X)[x]
  <2>1. PICK w \in Weeks, u \in PlannedTypes : x = <<w, u>>
    BY <1>1
  <2>2. PICK R : R = {p \in P : class[p] = x}
    OBVIOUS
  <2>3. ByClass(f, P, class, X)[x] = Total(f, R)
    BY <2>2 DEF ByClass
  <2>4. R \in SUBSET P
    BY <2>2
  <2>5. Total(f, R) \in Int
    BY ONLY <1>3, <1>4, <2>4, TotalIsInteger
  <2>6. h[x] = Booked(w, u)
    BY <1>1, <2>1
  <2>7. \A p \in P : class[p] = <<Week(p[2][1]), p[1].type>>
    BY ONLY <1>1
  <2>8. R = {p \in Parts : p[1].type = u /\ Week(p[2][1]) = w}
    <3>1. P = Parts
      BY <1>1
    <3> QED
      BY ONLY <2>1, <2>2, <2>7, <3>1
  <2>9. Booked(w, u) = Total(f, R)
    <3>1. f = [p \in Parts |-> p[2][2]]
      BY <1>1
    <3> QED
      BY ONLY <2>8, <3>1 DEF Booked
  <2> QED
    BY <2>3, <2>5, <2>6, <2>9
<1>7. Total(h, X) = Total(f, P)
  <2>1. Multiplies(h, 1, ByClass(f, P, class, X), X)
    BY <1>6 DEF Multiplies
  <2>2. h \in [X -> Int]
    <3>1. \A x \in X : h[x] \in Int
      BY <1>6
    <3>2. h = [x \in X |-> h[x]]
      BY ONLY <1>1
    <3> QED
      BY ONLY <3>1, <3>2
  <2>3. 1 \in Int
    OBVIOUS
  <2>4. Total(h, X) = 1 * Total(f, P)
    BY ONLY <1>3, <1>4, <1>5, <2>1, <2>2, <2>3, TotalByCell
  <2>5. Total(f, P) \in Int
    BY ONLY <1>3, <1>4, TotalIsInteger
  <2> QED
    BY <2>4, <2>5
<1>8. \A p \in P : owner[p] = p[1] /\ owner[p] \in B
  BY ONLY <1>1, <1>2
<1>9. ASSUME NEW b \in B
      PROVE  Duration(b) \in Int /\ d[b] = Duration(b) /\ ByClass(f, P, owner, B)[b] = Duration(b)
  <2>1. BookingAssumption(b)
    BY <1>1, WhatIsPlanned
  <2>2. PICK R : R = {p \in P : owner[p] = b}
    OBVIOUS
  <2>3. R \in SUBSET P /\ \A p \in R : f[p] = p[2][2]
    BY <1>4, <2>2
  <2>4. R = {<<b, x>> : x \in Segments(b)}
    <3>1. {p \in Parts : p[1] = b} = {<<b, x>> : x \in Segments(b)}
      BY <1>1, PartsAreFinite
    <3>2. R = {p \in Parts : p[1] = b}
      BY ONLY <1>1, <1>8, <2>2
    <3> QED
      BY ONLY <3>1, <3>2
  <2>5. Total(f, R) = Duration(b)
    BY ONLY <1>3, <1>4, <2>1, <2>3, <2>4, NothingOfBookingIsLost
  <2>6. ByClass(f, P, owner, B)[b] = Total(f, R)
    BY <2>2 DEF ByClass
  <2>7. Duration(b) \in Int
    BY <2>1, SegmentsOf
  <2>8. d[b] = Duration(b)
    BY ONLY <1>1, b \in B
  <2> QED
    BY ONLY <2>5, <2>6, <2>7, <2>8
<1>10. Total(f, P) = Total(d, B)
  <2>1. Total(f, P) = Total(ByClass(f, P, owner, B), B)
    BY ONLY <1>3, <1>4, <1>8, TotalByClass
  <2>2. ByClass(f, P, owner, B) = d
    <3>1. ByClass(f, P, owner, B) = [b \in B |-> Duration(b)]
      <4>1. ByClass(f, P, owner, B) = [b \in B |-> ByClass(f, P, owner, B)[b]]
        BY DEF ByClass
      <4>2. \A b \in B : ByClass(f, P, owner, B)[b] = Duration(b)
        BY <1>9
      <4> QED
        BY ONLY <4>1, <4>2
    <3> QED
      BY ONLY <1>1, <3>1
  <2> QED
    BY <2>1, <2>2
<1> QED
  BY ONLY <1>1, <1>7, <1>10

(* The capacity of a cell is a number of tenths.                            *)
LEMMA CellIsNumbers ==
  ASSUME PlanningInv, Laid, NEW w \in Weeks, NEW t \in PlannedTypes
  PROVE  Demand(w, t) \in Int /\ Booked(w, t) \in Int /\ Capacity(w, t) \in Int
<1>1. Demand(w, t) \in Int
  <2>1. PICK n \in Nat \ {0} : n = DatesOf(activity)
    BY DEF PlanningInv
  <2>2. given \in [1..n -> 0..Units(cap)] /\ Units(cap) \in Nat
    BY <2>1, DatesToPlan DEF PlanningInv, Laid
  <2>3. PICK D, R : D = 1..n /\ R = {i \in DOMAIN given : Week(WorkDates(activity)[i]) = w}
    OBVIOUS
  <2>4. given \in [D -> Int] /\ R \in SUBSET D /\ IsFiniteSet(D)
    BY <2>2, <2>3, UptoLast
  <2>5. Total(given, R) \in Int
    BY ONLY <2>4, TotalIsInteger
  <2>6. 5 * Total(given, R) \in Int
    BY ONLY <2>5
  <2>7. Demand(w, t) = IF t # activity.type THEN 0 ELSE 5 * Total(given, R)
    BY ONLY <2>3 DEF Demand
  <2> QED
    BY ONLY <2>6, <2>7
<1>2. Booked(w, t) \in Int
  <2>1. PICK P, f, R : /\ P = Parts /\ f = [p \in Parts |-> p[2][2]]
                       /\ R = {p \in Parts : p[1].type = t /\ Week(p[2][1]) = w}
    OBVIOUS
  <2>2. IsFiniteSet(P) /\ \A p \in P : p[2][2] \in Int
    BY <2>1, PartsAreFinite
  <2>3. f \in [P -> Int] /\ R \in SUBSET P
    BY ONLY <2>1, <2>2
  <2>4. Total(f, R) \in Int
    BY ONLY <2>2, <2>3, TotalIsInteger
  <2> QED
    BY ONLY <2>1, <2>4 DEF Booked
<1>3. Capacity(w, t) \in Int
  <2>1. IsFiniteSet(pool) /\ \A a \in pool : a.hours \in Nat
    BY WhatIsPlanned
  <2>2. PICK g, R : /\ g = [a \in pool |-> a.hours * Cardinality(EligibleDays(a, w))]
                    /\ R = Counted(t)
    OBVIOUS
  <2>3. ASSUME NEW a \in pool PROVE Cardinality(EligibleDays(a, w)) \in Nat
    <3>1. PICK lo \in Int, hi \in Int : lo = 7 * w /\ hi = 7 * w + 6
      <4>1. w \in Int
        BY PlanningAssumption
      <4> QED
        BY <4>1
    <3>2. IsFiniteSet(lo..hi)
      BY FS_Interval
    <3>3. EligibleDays(a, w) \subseteq lo..hi
      BY ONLY <3>1 DEF EligibleDays, WorkingDays
    <3> QED
      BY ONLY <3>2, <3>3, FS_Subset, FS_CardinalityType
  <2>4. \A a \in pool : a.hours * Cardinality(EligibleDays(a, w)) \in Int
    BY <2>1, <2>3
  <2>5. g \in [pool -> Int]
    BY ONLY <2>2, <2>4
  <2>6. R \in SUBSET pool
    BY ONLY <2>2 DEF Counted
  <2>7. Total(g, R) \in Int
    BY ONLY <2>1, <2>5, <2>6, TotalIsInteger
  <2>8. Capacity(w, t) = IF t = "other" THEN 0 ELSE Total(g, R)
    BY ONLY <2>2 DEF Capacity
  <2> QED
    BY ONLY <2>7, <2>8
<1> QED
  BY <1>1, <1>2, <1>3

(* What does not fit is not called fitting.                                 *)
LEMMA ShortageIsSaid ==
  ASSUME NEW demand \in Int, NEW booked \in Int, NEW capacity \in Int, NEW t,
         demand > capacity \/ booked > capacity
  PROVE  /\ Most(Load(demand, booked) - capacity, 0) > 0
         /\ Status(demand, booked, capacity, t) \in {"over_capacity", "no_capacity", "review_needed"}
<1>1. PICK load \in Int : load = Load(demand, booked) /\ load > capacity
  BY DEF Load, Most
<1>2. Most(load - capacity, 0) > 0
  BY ONLY <1>1, capacity \in Int DEF Most
<1>3. StatusOf(load, capacity, t) \in {"over_capacity", "no_capacity", "review_needed"}
  BY ONLY <1>1, capacity \in Int DEF StatusOf
<1> QED
  BY <1>1, <1>2, <1>3 DEF Status

LEMMA DashboardIsSound ==
  ASSUME PlanningInv
  PROVE  DashboardShowsAll
<1> SUFFICES ASSUME rows # None PROVE DashboardShowsAll
  BY DEF DashboardShowsAll
<1>1. Laid
  BY DEF PlanningInv
<1>2. PICK X : X = Weeks \X PlannedTypes
  OBVIOUS
<1>3. rows = [x \in X |-> Cell(x[1], x[2])]
  BY <1>2 DEF PlanningInv
<1>4. /\ DOMAIN rows = X
      /\ \A x \in X : /\ rows[x].demand = Demand(x[1], x[2])
                      /\ rows[x].booked = Booked(x[1], x[2])
                      /\ rows[x].capacity = Capacity(x[1], x[2])
                      /\ rows[x].uncovered = Most(Load(rows[x].demand, rows[x].booked) - rows[x].capacity, 0)
                      /\ rows[x].status = Status(rows[x].demand, rows[x].booked, rows[x].capacity, x[2])
  BY ONLY <1>3 DEF Cell
<1>5. Total([x \in DOMAIN rows |-> rows[x].demand], DOMAIN rows) =
        5 * Total(given, {i \in DOMAIN given : Week(WorkDates(activity)[i]) \in Weeks})
  <2>1. [x \in DOMAIN rows |-> rows[x].demand] = [x \in X |-> Demand(x[1], x[2])]
    BY ONLY <1>4
  <2>2. Total([x \in X |-> Demand(x[1], x[2])], X) =
          5 * Total(given, {i \in DOMAIN given : Week(WorkDates(activity)[i]) \in Weeks})
    BY <1>1, <1>2, DemandIsComplete
  <2> QED
    BY ONLY <1>4, <2>1, <2>2
<1>6. ASSUME \A b \in Covering : InWeeks(b)
      PROVE  Total([x \in DOMAIN rows |-> rows[x].booked], DOMAIN rows) =
               Total([b \in Covering |-> Duration(b)], Covering)
  <2>1. [x \in DOMAIN rows |-> rows[x].booked] = [x \in X |-> Booked(x[1], x[2])]
    BY ONLY <1>4
  <2>2. Total([x \in X |-> Booked(x[1], x[2])], X) = Total([b \in Covering |-> Duration(b)], Covering)
    BY <1>2, <1>6, BookedIsComplete
  <2> QED
    BY ONLY <1>4, <2>1, <2>2
<1>7. ASSUME NEW x \in DOMAIN rows,
             rows[x].demand > rows[x].capacity \/ rows[x].booked > rows[x].capacity
      PROVE  /\ rows[x].uncovered > 0
             /\ rows[x].status \in {"over_capacity", "no_capacity", "review_needed"}
  <2>1. x \in X
    BY <1>4
  <2>2. PICK w \in Weeks, t \in PlannedTypes : x = <<w, t>>
    BY <1>2, <2>1
  <2>3. PICK a, b, c : a = rows[x].demand /\ b = rows[x].booked /\ c = rows[x].capacity
    OBVIOUS
  <2>4. a = Demand(w, t) /\ b = Booked(w, t) /\ c = Capacity(w, t)
    BY <1>4, <2>1, <2>2, <2>3
  <2>5. a \in Int /\ b \in Int /\ c \in Int
    BY <1>1, <2>4, CellIsNumbers
  <2>6. /\ Most(Load(a, b) - c, 0) > 0
        /\ Status(a, b, c, t) \in {"over_capacity", "no_capacity", "review_needed"}
    BY <1>7, <2>3, <2>5, ShortageIsSaid
  <2>7. rows[x].uncovered = Most(Load(a, b) - c, 0) /\ rows[x].status = Status(a, b, c, t)
    BY <1>4, <2>1, <2>2, <2>3
  <2> QED
    BY ONLY <2>6, <2>7
<1> QED
  BY <1>5, <1>6, <1>7, Zenon DEF DashboardShowsAll

-----------------------------------------------------------------------------
(* What a step does to the plan keeps what PlanningInv says of it.          *)
LEMMA PlanningStep == PlanningInv /\ [PlanNext]_planning => PlanningInv'
<1> SUFFICES ASSUME PlanningInv, [PlanNext]_planning PROVE PlanningInv'
  OBVIOUS
<1>1. CASE ResolveDistribution
  BY <1>1, ResolveSound
<1>2. CASE Allocate
  BY <1>2, AllocateSound
<1>3. CASE Give
  BY <1>3, GiveSound
<1>4. CASE Show
  BY <1>4, ShowSound
<1>5. CASE UNCHANGED planning
  BY <1>5, NothingSound
<1> QED
  BY <1>1, <1>2, <1>3, <1>4, <1>5 DEF PlanNext

(* What a plan is laid by always fits the days it is laid over, and the     *)
(* hours laid out so far are fair: _resolve_distribution and                *)
(* derive_distribution, whatever profile is stored.                         *)
THEOREM PlanningConsistent == PlanSpec => []PlanningInv
<1>1. PlanInit => PlanningInv
  BY PlanInitSound
<1>2. PlanningInv /\ [PlanNext]_planning => PlanningInv'
  BY PlanningStep
<1> QED
  BY <1>1, <1>2, PTL DEF PlanSpec

(* derive_distribution lays out every unit, or fills every day.             *)
THEOREM AllHoursArePlaced == PlanSpec => []HoursPlaced
<1>1. PlanningInv => HoursPlaced
  BY HoursArePlaced
<1> QED
  BY <1>1, PlanningConsistent, PTL

(* Largest remainders: days are given hours in the order of their shares,   *)
(* and less than a unit away from them unless a cap is reached.             *)
THEOREM SharesAreFair == PlanSpec => []SharesFollowWeights
<1>1. PlanningInv => SharesFollowWeights
  BY SharesAreFollowed
<1> QED
  BY <1>1, PlanningConsistent, PTL

(* The cells of the dashboard add up to the hours laid out and booked, and  *)
(* none with too little capacity says that it has enough.                   *)
THEOREM DashboardIsComplete == PlanSpec => []DashboardShowsAll
<1>1. PlanningInv => DashboardShowsAll
  BY DashboardIsSound
<1> QED
  BY <1>1, PlanningConsistent, PTL
=============================================================================
