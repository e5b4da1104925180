--------------------------- MODULE WatchdogProofs ---------------------------
(***************************************************************************)
(* What holds of every watchdog pass, for every setting, any number of     *)
(* runs, store faults, crashes and lost answers, and every clock: the      *)
(* types, what a step may change of the record (Frame), what the process   *)
(* knows when it reaches the call it makes next (Knows), and from these    *)
(* the record of a reboot, the timeline a row tells and the exit code.     *)
(***************************************************************************)
EXTENDS Watchdog, TLAPS, SequenceTheorems

\* The calls a run makes once its row is inserted, and those that close it.
Closing == {"gate", "say", "settle"}
Guarding == {"streak", "cooldown"}
Acting == {"mark", "initiate", "request"}
Recovering == {"stamp", "poll", "recheck"}
Seated == {"confirm", "clear", "decide"} \cup Guarding \cup Acting \cup Recovering \cup Closing

\* What the process knows at each call.
Control ==
    /\ pc = "probe" => mode = "soft" /\ seen = <<>>
    /\ pc = "insert" /\ mode = "soft" => Len(seen) = 1
    /\ pc \in Seated => /\ run \in 1..Len(runs)
                        /\ runs[run].mode = mode
                        /\ samples[run] = seen
                        /\ mode = "soft" => Len(seen) > 0
    /\ pc \in {"confirm", "clear"} \cup Guarding => mode = "soft"
    /\ pc \in Closing => ending \in EndingNames

Inv == TypeOK /\ Control

\* What an ending writes to the row and returns to cron has its type.
LEMMA EndingsType ==
    \A e \in EndingNames :
       /\ Endings[e].action \in {"keep", "skipped_cooldown", "skipped_disabled"}
       /\ Endings[e].code \in 0..6
BY DEF EndingNames, Endings, Ending

\* The ten terminal states.
LEMMA EndingNamesType ==
    EndingNames = {"ok", "unconfirmed", "unsustained", "degraded", "disabled",
                   "skipped", "unknown", "failed", "completed", "timeout"}
BY DEF EndingNames, Endings

\* A configuration may reach fewer verdicts than the three states.
LEMMA VerdictsAreStates == Verdicts \subseteq States
BY DEF Verdicts, Verdict, States

\* UpdateRun touches this run's row and no other.
LEMMA UpdateRunType ==
    ASSUME runs \in Seq(Rows), run \in 1..Len(runs), NEW row \in Rows,
           faults \in Nat, UpdateRun(row)
    PROVE  /\ runs' \in Seq(Rows) /\ Len(runs') = Len(runs)
           /\ \A i \in 1..Len(runs) : i # run => runs'[i] = runs[i]
           /\ runs'[run] \in {row, runs[run]}
           /\ faults' \in Nat
BY DEF UpdateRun, StoreWorks, StoreFails

\* Closing starts at one of three calls and remembers the ending.
LEMMA CloseType ==
    ASSUME NEW e \in EndingNames, Close(e)
    PROVE  pc' \in Closing /\ ending' = e
BY DEF Close, Goto, Closing

\* A message is enqueued for a run that has a row.
LEMMA NotifyType ==
    ASSUME NEW msg \in Messages, Notify(msg), run \in 1..Len(runs), faults \in Nat,
           outbox \subseteq [run : 1..Len(runs), msg : Messages]
    PROVE  outbox' \subseteq [run : 1..Len(runs), msg : Messages] /\ faults' \in Nat
BY DEF Notify, StoreWorks, StoreFails

\* The invariant holds before the first run.
LEMMA InitInv == Init => Inv
<1> SUFFICES ASSUME Init PROVE Inv
  OBVIOUS
<1>1. /\ runs \in Seq(Rows) /\ seen \in Seq(States) /\ samples \in Seq(Seq(States))
      /\ reboots \in Seq([run : 1..Len(runs), at : Nat])
      /\ Len(runs) = 0 /\ Len(samples) = 0
  BY DEF Init
<1>2. TypeOK
  BY <1>1 DEF Init, TypeOK, Labels
<1>3. Control
  BY DEF Init, Control, Closing, Guarding, Acting, Recovering, Seated
<1> QED BY <1>2, <1>3 DEF Inv

\* A run starts without a row, with a probe if it is soft.
LEMMA StartRunInv == ASSUME Inv, StartRun PROVE Inv'
<1> USE DEF Inv
<1>1. TypeOK'
  <2>1. now' \in Nat /\ started' \in Nat
    BY SettingsAssumption DEF StartRun, TypeOK
  <2>2. hot' \subseteq hot /\ faults' \in Nat
    BY DEF StartRun, Rollover, StoreWorks, StoreFails, TypeOK
  <2>3. mode' \in {"soft", "hard"} /\ pc' \in Labels /\ enabled' \in BOOLEAN
    BY SettingsAssumption DEF StartRun, Labels
  <2>4. seen' \in Seq(States)
    BY DEF StartRun
  <2> QED BY <2>1, <2>2, <2>3, <2>4 DEF StartRun, TypeOK
<1>2. Control'
  BY DEF StartRun, Control, Closing, Guarding, Acting, Recovering, Seated
<1> QED BY <1>1, <1>2

\* The first probe of a soft run is all it has seen at its insert.
LEMMA ProbeInv == ASSUME Inv, Probe PROVE Inv'
<1> USE DEF Inv
<1>1. seen' \in Seq(States) /\ Len(seen') = 1
  BY VerdictsAreStates DEF Probe, Check, TypeOK, Control
<1>2. TypeOK'
  BY <1>1 DEF Probe, Goto, TypeOK, Labels, store, setting, budget
<1>3. Control'
  BY <1>1 DEF Probe, Goto, Control, Closing, Guarding, Acting, Recovering, Seated, setting
<1> QED BY <1>2, <1>3

\* A new row is a row.
LEMMA NewRowType ==
    ASSUME now \in Nat, NEW m \in {"soft", "hard"}, NEW ok \in {"null", "true", "false"}
    PROVE  NewRow(m, ok) \in Rows /\ NewRow(m, ok).mode = m
BY DEF NewRow, Rows, Timestamps, None

\* The row inserted is the one the run goes on with.
LEMMA InsertRunInv == ASSUME Inv, InsertRun PROVE Inv'
<1> USE DEF Inv
<1>1. /\ UNCHANGED <<outbox, now, setting, seen, waited, alive, reboots, recovery,
                     budget>>
      /\ ending' = ending /\ pc = "insert"
  BY DEF InsertRun, Goto
<1>2. CASE StoreFails
  <2>1. UNCHANGED <<runs, run, hot, samples>> /\ pc' = "idle" /\ exit' = 1
    BY <1>2 DEF InsertRun, StoreFails, StoreWorks, Goto, TypeOK
  <2>2. TypeOK'
    BY <1>1, <1>2, <2>1 DEF TypeOK, Labels, setting, budget, StoreFails
  <2>3. Control'
    BY <2>1 DEF Control, Closing, Guarding, Acting, Recovering, Seated
  <2> QED BY <2>2, <2>3
<1>3. CASE ~StoreFails
  <2> DEFINE row == NewRow(mode, InternetOK)
  <2>1. /\ runs' = Append(runs, row) /\ run' = Len(runs) + 1
        /\ hot' = hot \cup {Len(runs) + 1} /\ samples' = Append(samples, seen)
        /\ exit' = exit /\ faults' = faults
        /\ pc' \in {"confirm", "decide"} /\ (pc' = "confirm" => NeedsConfirm)
    BY <1>3 DEF InsertRun, StoreWorks, Goto, NextRow
  <2>2. row \in Rows /\ row.mode = mode
    BY NewRowType DEF InternetOK, TypeOK
  <2>3. /\ runs' \in Seq(Rows) /\ Len(runs') = Len(runs) + 1
        /\ runs'[Len(runs) + 1] = row
    BY <2>1, <2>2 DEF TypeOK
  <2>4. /\ samples' \in Seq(Seq(States)) /\ Len(samples') = Len(runs')
        /\ samples'[Len(runs) + 1] = seen
    BY <2>1, <2>3 DEF TypeOK
  <2>5. reboots' \in Seq([run : 1..Len(runs'), at : Nat])
    <3>1. [run : 1..Len(runs), at : Nat] \subseteq [run : 1..Len(runs'), at : Nat]
      BY <2>3 DEF TypeOK
    <3> QED BY <1>1, <3>1, SeqMonotonic DEF TypeOK
  <2>6. /\ hot' \subseteq 1..Len(runs') /\ run' \in 1..Len(runs')
        /\ outbox' \subseteq [run : 1..Len(runs'), msg : Messages]
    <3>1. 1..Len(runs) \subseteq 1..Len(runs') /\ Len(runs) + 1 \in 1..Len(runs')
      BY <2>3 DEF TypeOK
    <3>2. [run : 1..Len(runs), msg : Messages] \subseteq [run : 1..Len(runs'), msg : Messages]
      BY <3>1
    <3> QED BY <1>1, <2>1, <3>1, <3>2 DEF TypeOK
  <2>7. TypeOK'
    BY <1>1, <2>1, <2>3, <2>4, <2>5, <2>6 DEF TypeOK, Labels, setting, budget
  <2>8. Control'
    <3>1. runs'[run'].mode = mode' /\ samples'[run'] = seen'
      BY <1>1, <2>1, <2>2, <2>3, <2>4 DEF setting
    <3>2. mode' = "soft" => Len(seen') > 0
      BY <1>1 DEF Control, setting
    <3>3. pc' = "confirm" => mode' = "soft"
      BY <1>1, <2>1 DEF NeedsConfirm, InternetOK, setting, TypeOK
    <3>4. pc' \notin {"probe", "insert"} \cup Closing \cup {"clear"} \cup Guarding
      BY <2>1 DEF Closing, Guarding
    <3> QED BY <2>6, <3>1, <3>2, <3>3, <3>4 DEF Control
  <2> QED BY <2>7, <2>8
<1> QED BY <1>2, <1>3

\* The updates of one column keep a row a row, of the same mode.
LEMMA RowType ==
    ASSUME NEW r \in Rows
    PROVE  /\ \A v \in {"null", "true", "false"} :
                /\ [r EXCEPT !.internetOK = v] \in Rows
                /\ [r EXCEPT !.internetOK = v].mode = r.mode
           /\ \A v \in {"none", "reboot", "skipped_cooldown", "skipped_disabled"} :
                /\ [r EXCEPT !.action = v] \in Rows
                /\ [r EXCEPT !.action = v].mode = r.mode
           /\ \A t \in Nat :
                /\ [r EXCEPT !.rebootStartedAt = t] \in Rows
                /\ [r EXCEPT !.rebootStartedAt = t].mode = r.mode
                /\ [r EXCEPT !.routerDownAt = t] \in Rows
                /\ [r EXCEPT !.routerDownAt = t].mode = r.mode
                /\ [r EXCEPT !.routerUpAt = t] \in Rows
                /\ [r EXCEPT !.routerUpAt = t].mode = r.mode
BY DEF Rows, Timestamps

\* A run past its insert has a row.
LEMMA SeatedRow ==
    ASSUME Inv, pc \in Seated
    PROVE  run \in 1..Len(runs) /\ runs[run] \in Rows /\ now \in Nat
BY DEF Inv, TypeOK, Control

\* A row closed with any outcome, action and time of recovery is a row.
ClosedRow(r, o, t, a, b) ==
    [[r EXCEPT !.outcome = o, !.finishedAt = t] EXCEPT !.action = a, !.restoredAt = b]

LEMMA ClosedRowType ==
    ASSUME NEW r \in Rows, NEW t \in Nat, NEW b \in Timestamps,
           NEW o \in {Endings[n].outcome : n \in EndingNames},
           NEW a \in {"none", "reboot", "skipped_cooldown", "skipped_disabled"}
    PROVE  LET q == ClosedRow(r, o, t, a, b)
           IN  /\ q \in Rows
               /\ q.outcome = o /\ q.finishedAt = t /\ q.action = a /\ q.restoredAt = b
               /\ q.startedAt = r.startedAt /\ q.mode = r.mode /\ q.internetOK = r.internetOK
               /\ q.rebootStartedAt = r.rebootStartedAt
               /\ q.routerDownAt = r.routerDownAt /\ q.routerUpAt = r.routerUpAt
<1> DEFINE row == [r EXCEPT !.outcome = o, !.finishedAt = t]
           q == [row EXCEPT !.action = a, !.restoredAt = b]
<1>1. row \in Rows
  BY DEF Rows, Timestamps
<1>2. /\ row.outcome = o /\ row.finishedAt = t
      /\ row.action = r.action /\ row.restoredAt = r.restoredAt
      /\ row.startedAt = r.startedAt /\ row.mode = r.mode
      /\ row.internetOK = r.internetOK /\ row.rebootStartedAt = r.rebootStartedAt
      /\ row.routerDownAt = r.routerDownAt /\ row.routerUpAt = r.routerUpAt
  BY DEF Rows
<1> HIDE DEF row
<1>3. q \in Rows
  BY <1>1 DEF Rows
<1>4. /\ q.action = a /\ q.restoredAt = b
      /\ q.outcome = row.outcome /\ q.finishedAt = row.finishedAt
      /\ q.startedAt = row.startedAt /\ q.mode = row.mode
      /\ q.internetOK = row.internetOK /\ q.rebootStartedAt = row.rebootStartedAt
      /\ q.routerDownAt = row.routerDownAt /\ q.routerUpAt = row.routerUpAt
  BY <1>1 DEF Rows
<1> HIDE DEF q
<1>5. /\ q \in Rows
      /\ q.outcome = o /\ q.finishedAt = t /\ q.action = a /\ q.restoredAt = b
      /\ q.startedAt = r.startedAt /\ q.mode = r.mode /\ q.internetOK = r.internetOK
      /\ q.rebootStartedAt = r.rebootStartedAt
      /\ q.routerDownAt = r.routerDownAt /\ q.routerUpAt = r.routerUpAt
  BY <1>2, <1>3, <1>4
<1>6. ClosedRow(r, o, t, a, b) = q
  BY DEF ClosedRow, q, row
<1> QED BY <1>5, <1>6

\* What Settle asks the store to write.
LEMMA SettleWrites ==
    ASSUME Inv, Settle
    PROVE  LET r == runs[run]
               e == Endings[ending]
           IN  \E row \in Rows :
                  /\ UpdateRun(row)
                  /\ row.startedAt = r.startedAt /\ row.mode = r.mode
                  /\ row.internetOK = r.internetOK
                  /\ row.rebootStartedAt = r.rebootStartedAt
                  /\ row.routerDownAt = r.routerDownAt /\ row.routerUpAt = r.routerUpAt
                  /\ row.restoredAt = IF ending = "completed" THEN now ELSE r.restoredAt
                  /\ row.finishedAt = now /\ row.outcome = e.outcome
                  /\ row.action = IF e.action = "keep" THEN r.action ELSE e.action
<1> DEFINE e == Endings[ending]
           r == runs[run]
           row == [r EXCEPT !.outcome = e.outcome, !.finishedAt = now]
           a == IF e.action = "keep" THEN row.action ELSE e.action
           b == IF ending = "completed" THEN now ELSE row.restoredAt
           closed == ClosedRow(r, e.outcome, now, a, b)
<1>1. r \in Rows /\ now \in Nat /\ ending \in EndingNames
  BY SeatedRow DEF Settle, Seated, Closing, Inv, Control
<1>2. UpdateRun(closed)
  BY DEF Settle, ClosedRow
<1>3. /\ e.action \in {"keep", "skipped_cooldown", "skipped_disabled"}
      /\ e.outcome \in {Endings[n].outcome : n \in EndingNames}
  BY <1>1, EndingsType
<1>4. row.action = r.action /\ row.restoredAt = r.restoredAt
  <2> HIDE DEF e, r
  <2> QED BY <1>1 DEF Rows
<1>5. /\ r.action \in {"none", "reboot", "skipped_cooldown", "skipped_disabled"}
      /\ r.restoredAt \in Timestamps
  <2> HIDE DEF r
  <2> QED BY <1>1 DEF Rows
<1>6. a \in {"none", "reboot", "skipped_cooldown", "skipped_disabled"} /\ b \in Timestamps
  <2> HIDE DEF e, r, row
  <2> QED BY <1>1, <1>3, <1>4, <1>5 DEF Timestamps
<1>7. /\ closed \in Rows
      /\ closed.outcome = e.outcome /\ closed.finishedAt = now
      /\ closed.action = a /\ closed.restoredAt = b
      /\ closed.startedAt = r.startedAt /\ closed.mode = r.mode
      /\ closed.internetOK = r.internetOK /\ closed.rebootStartedAt = r.rebootStartedAt
      /\ closed.routerDownAt = r.routerDownAt /\ closed.routerUpAt = r.routerUpAt
  <2> HIDE DEF e, r, row, a, b
  <2> QED BY <1>1, <1>3, <1>6, ClosedRowType
<1> HIDE DEF closed
<1> QED BY <1>2, <1>4, <1>7

\* A step that only changes where the run is keeps what is known about it.
LEMMA Moves ==
    ASSUME Inv, pc \in Seated, pc' \in Seated,
           UNCHANGED <<store, now, setting, run, seen, waited, alive, exit, samples,
                       reboots, recovery, started, crashes>>,
           faults' \in Nat, losses' \in Nat,
           ending' \in EndingNames \cup {"none"},
           pc' \in Closing => ending' \in EndingNames,
           pc' \in {"confirm", "clear"} \cup Guarding => mode = "soft"
    PROVE  Inv'
<1>1. TypeOK'
  BY DEF Inv, TypeOK, Labels, store, setting, Closing, Guarding, Acting, Recovering, Seated
<1>2. Control'
  BY DEF Inv, Control, store, setting, Closing, Guarding, Acting, Recovering, Seated
<1> QED BY <1>1, <1>2 DEF Inv

\* So does one that also updates this run's row.
LEMMA Updates ==
    ASSUME Inv, pc \in Seated, pc' \in Seated,
           NEW row \in Rows, row.mode = runs[run].mode, UpdateRun(row),
           UNCHANGED <<hot, outbox, setting, run, seen, samples, reboots, recovery,
                       budget>>,
           now' \in Nat, waited' \in Nat, alive' \in BOOLEAN, exit' \in {None} \cup 0..6,
           ending' = ending,
           pc' \in Closing => pc \in Closing,
           pc' \in {"confirm", "clear"} \cup Guarding => mode = "soft"
    PROVE  Inv'
<1>1. run \in 1..Len(runs)
  BY DEF Inv, Control
<1>2. /\ runs' \in Seq(Rows) /\ Len(runs') = Len(runs)
      /\ \A i \in 1..Len(runs) : i # run => runs'[i] = runs[i]
      /\ runs'[run] \in {row, runs[run]}
      /\ faults' \in Nat
  BY <1>1, UpdateRunType DEF Inv, TypeOK
<1>3. TypeOK'
  BY <1>2 DEF Inv, TypeOK, Labels, setting, budget, Closing, Guarding, Acting, Recovering, Seated
<1>4. Control'
  BY <1>2 DEF Inv, Control, setting, Closing, Guarding, Acting, Recovering, Seated
<1> QED BY <1>3, <1>4 DEF Inv

\* A re-probe is added to what the run has seen.
LEMMA ConfirmInv == ASSUME Inv, Confirm PROVE Inv'
<1> USE DEF Inv
<1>1. /\ UNCHANGED <<store, setting, run, waited, alive, exit, reboots,
                     recovery, budget, faults>>
      /\ pc = "confirm" /\ pc' \in {"clear", "decide", "confirm"}
      /\ samples' = [samples EXCEPT ![run] = seen'] /\ ending' = ending
      /\ now' \in Nat
  BY SettingsAssumption DEF Confirm, Goto, TypeOK
<1>2. seen' \in Seq(States) /\ Len(seen') > 0
  BY VerdictsAreStates DEF Confirm, Check, TypeOK
<1>3. run \in 1..Len(runs) /\ mode = "soft"
  BY <1>1 DEF Control, Seated
<1>4. /\ samples' \in Seq(Seq(States)) /\ Len(samples') = Len(samples)
      /\ samples'[run] = seen'
  BY <1>1, <1>2, <1>3 DEF TypeOK
<1>5. TypeOK'
  BY <1>1, <1>2, <1>4 DEF TypeOK, Labels, store, setting, budget
<1>6. Control'
  BY <1>1, <1>2, <1>3, <1>4
     DEF Control, store, setting, Closing, Guarding, Acting, Recovering, Seated
<1> QED BY <1>5, <1>6

\* Correcting internet_ok keeps the invariant.
LEMMA ClearInv == ASSUME Inv, Clear PROVE Inv'
<1> DEFINE row == [runs[run] EXCEPT !.internetOK = "true"]
<1>1. pc = "clear" /\ pc' = "decide" /\ ending' = ending /\ UpdateRun(row)
  BY DEF Clear, Goto
<1>2. row \in Rows /\ row.mode = runs[run].mode
  BY <1>1, SeatedRow, RowType DEF Seated, Acting, Recovering
<1> HIDE DEF row
<1>3. /\ pc \in Seated /\ pc' \in Seated /\ pc' \notin Closing
      /\ pc' \notin {"confirm", "clear"} \cup Guarding
  BY <1>1 DEF Closing, Guarding, Acting, Recovering, Seated
<1>4. /\ UNCHANGED <<hot, outbox, setting, run, seen, samples, reboots, recovery, budget>>
      /\ now' \in Nat /\ waited' \in Nat /\ alive' \in BOOLEAN
      /\ exit' \in {None} \cup 0..6
  BY DEF Clear, Inv, TypeOK
<1> QED BY <1>1, <1>2, <1>3, <1>4, Updates

\* Only a soft run goes on to the guards.
LEMMA DecideInv == ASSUME Inv, Decide PROVE Inv'
<1>1. /\ pc = "decide"
      /\ UNCHANGED <<store, now, setting, run, seen, waited, alive, exit, samples,
                     reboots, recovery, budget, faults>>
  BY DEF Decide
<1>2. \/ pc' \in Closing /\ ending' \in EndingNames
      \/ pc' = "mark" /\ ending' = "none"
      \/ pc' = "streak" /\ ending' = "none" /\ mode = "soft"
  BY CloseType, EndingNamesType DEF Decide, DecideHard, DecideSoft, Goto
<1>3. /\ pc \in Seated /\ pc' \in Seated
      /\ pc' \in Closing => ending' \in EndingNames
      /\ pc' \in {"confirm", "clear"} \cup Guarding => mode = "soft"
      /\ ending' \in EndingNames \cup {"none"}
  BY <1>1, <1>2 DEF Closing, Guarding, Acting, Seated
<1>4. /\ faults' \in Nat /\ losses' \in Nat
      /\ UNCHANGED <<started, crashes>>
  BY <1>1 DEF Inv, TypeOK, budget
<1> QED BY <1>1, <1>3, <1>4, Moves

\* The guards change nothing but where the run is.
LEMMA GuardsInv == ASSUME Inv, OutageSustained \/ Cooldown PROVE Inv'
<1>1. /\ pc \in Guarding
      /\ UNCHANGED <<store, now, setting, run, seen, waited, alive, exit, samples,
                     reboots, recovery, budget>>
      /\ faults' \in Nat
  BY DEF OutageSustained, Cooldown, Guarding, StoreWorks, StoreFails, Inv, TypeOK
<1>2. \/ pc' \in Closing /\ ending' \in EndingNames
      \/ pc' = "mark" /\ ending' = "none"
      \/ pc' = "cooldown" /\ ending' = ending
  BY CloseType, EndingNamesType DEF OutageSustained, Cooldown, Goto
<1>3. mode = "soft"
  BY <1>1 DEF Inv, Control
<1>4. /\ pc \in Seated /\ pc' \in Seated
      /\ pc' \in Closing => ending' \in EndingNames
      /\ pc' \in {"confirm", "clear"} \cup Guarding => mode = "soft"
      /\ ending' \in EndingNames \cup {"none"}
  BY <1>1, <1>2, <1>3 DEF Closing, Guarding, Acting, Seated, Inv, TypeOK
<1>5. losses' \in Nat /\ UNCHANGED <<started, crashes>>
  BY <1>1 DEF Inv, TypeOK, budget
<1> QED BY <1>1, <1>4, <1>5, Moves

\* Recording the intent keeps the invariant.
LEMMA MarkActionInv == ASSUME Inv, MarkAction PROVE Inv'
<1> DEFINE row == [runs[run] EXCEPT !.action = "reboot"]
<1>1. pc = "mark" /\ pc' = "initiate" /\ ending' = ending /\ UpdateRun(row)
  BY DEF MarkAction, Goto
<1>2. row \in Rows /\ row.mode = runs[run].mode
  BY <1>1, SeatedRow, RowType DEF Seated, Acting, Recovering
<1> HIDE DEF row
<1>3. /\ pc \in Seated /\ pc' \in Seated /\ pc' \notin Closing
      /\ pc' \notin {"confirm", "clear"} \cup Guarding
  BY <1>1 DEF Closing, Guarding, Acting, Recovering, Seated
<1>4. /\ UNCHANGED <<hot, outbox, setting, run, seen, samples, reboots, recovery, budget>>
      /\ now' \in Nat /\ waited' \in Nat /\ alive' \in BOOLEAN
      /\ exit' \in {None} \cup 0..6
  BY DEF MarkAction, Inv, TypeOK
<1> QED BY <1>1, <1>2, <1>3, <1>4, Updates

\* The message enqueued belongs to the row of this run.
LEMMA AnnounceInv == ASSUME Inv, Initiate \/ Say PROVE Inv'
<1>1. /\ \/ pc = "initiate" /\ pc' = "request"
         \/ pc = "say" /\ pc' = "settle"
      /\ ending' = ending
      /\ UNCHANGED <<runs, hot, now, setting, run, seen, waited, alive, exit,
                     samples, reboots, recovery, budget>>
  BY DEF Initiate, Say, Goto
<1>2. run \in 1..Len(runs) /\ (pc = "say" => ending \in EndingNames)
  BY <1>1 DEF Inv, Control, Seated, Acting, Closing
<1>3. outbox' \subseteq [run : 1..Len(runs), msg : Messages] /\ faults' \in Nat
  BY <1>1, <1>2, NotifyType DEF Initiate, Say, Messages, Inv, TypeOK
<1>4. TypeOK'
  BY <1>1, <1>3 DEF Inv, TypeOK, Labels, setting, budget
<1>5. Control'
  BY <1>1 DEF Inv, Control, setting, Closing, Guarding, Acting, Recovering, Seated
<1> QED BY <1>4, <1>5 DEF Inv

\* A reboot belongs to the row of this run.
LEMMA RebootInv == ASSUME Inv, Reboot PROVE Inv'
<1>1. /\ pc = "request"
      /\ UNCHANGED <<store, now, setting, run, seen, waited, alive, exit, samples,
                     recovery, started, crashes, faults>>
      /\ \/ reboots' = Append(reboots, [run |-> run, at |-> now])
         \/ reboots' = reboots
      /\ losses' \in Nat
  BY DEF Reboot, Inv, TypeOK
<1>2. \/ pc' = "stamp" /\ ending' = ending
      \/ pc' \in Closing /\ ending' \in EndingNames
  BY CloseType, EndingNamesType DEF Reboot, Goto
<1>3. run \in 1..Len(runs)
  BY <1>1 DEF Inv, Control, Seated, Acting
<1>4. reboots' \in Seq([run : 1..Len(runs), at : Nat])
  <2>1. [run |-> run, at |-> now] \in [run : 1..Len(runs), at : Nat]
    BY <1>3 DEF Inv, TypeOK
  <2>2. reboots \in Seq([run : 1..Len(runs), at : Nat])
    BY DEF Inv, TypeOK
  <2>3. Append(reboots, [run |-> run, at |-> now]) \in Seq([run : 1..Len(runs), at : Nat])
    BY <2>1, <2>2, AppendProperties
  <2> QED BY <1>1, <2>2, <2>3
<1>5. TypeOK'
  BY <1>1, <1>2, <1>4 DEF Inv, TypeOK, Labels, Closing, store, setting
<1>6. Control'
  BY <1>1, <1>2 DEF Inv, Control, store, setting, Closing, Guarding, Acting, Recovering, Seated
<1> QED BY <1>5, <1>6 DEF Inv

\* The stamp is the time of the clock.
LEMMA StampRebootInv == ASSUME Inv, StampReboot PROVE Inv'
<1> DEFINE row == [runs[run] EXCEPT !.rebootStartedAt = now]
<1>1. pc = "stamp" /\ pc' = "poll" /\ ending' = ending /\ UpdateRun(row)
  BY DEF StampReboot, Goto
<1>2. row \in Rows /\ row.mode = runs[run].mode
  BY <1>1, SeatedRow, RowType DEF Seated, Acting, Recovering
<1> HIDE DEF row
<1>3. /\ pc \in Seated /\ pc' \in Seated /\ pc' \notin Closing
      /\ pc' \notin {"confirm", "clear"} \cup Guarding
  BY <1>1 DEF Closing, Guarding, Acting, Recovering, Seated
<1>4. /\ UNCHANGED <<hot, outbox, setting, run, seen, samples, reboots, recovery, budget>>
      /\ now' \in Nat /\ waited' \in Nat /\ alive' \in BOOLEAN
      /\ exit' \in {None} \cup 0..6
  BY DEF StampReboot, Inv, TypeOK
<1> QED BY <1>1, <1>2, <1>3, <1>4, Updates

\* A poll stamps the times of the clock.
LEMMA PollGatewayInv == ASSUME Inv, PollGateway PROVE Inv'
<1>1. /\ pc = "poll" /\ pc' = "recheck" /\ ending' = ending
      /\ now' = now + 1 /\ waited' = waited + 1
      /\ UNCHANGED <<hot, outbox, setting, run, seen, exit, samples, reboots,
                     recovery, budget>>
  BY DEF PollGateway, Goto
<1>2. pc \in Seated /\ pc' \in Seated /\ pc' \notin Closing
  BY <1>1 DEF Recovering, Closing, Seated
<1>3. run \in 1..Len(runs) /\ runs[run] \in Rows /\ now' \in Nat
  BY <1>1, <1>2, SeatedRow
<1>4. /\ alive' \in BOOLEAN
      /\ \E row \in Rows : row.mode = runs[run].mode /\ UpdateRun(row)
  <2> PICK ok \in BOOLEAN : HandleGatewayTransition(ok)
    BY DEF PollGateway
  <2>1. alive' \in BOOLEAN
    BY DEF HandleGatewayTransition
  <2>2. CASE UpdateRun([runs[run] EXCEPT !.routerDownAt = now'])
    BY <2>1, <2>2, <1>3, RowType
  <2>3. CASE UpdateRun([runs[run] EXCEPT !.routerUpAt = now'])
    BY <2>1, <2>3, <1>3, RowType
  <2>4. CASE StoreWorks /\ UNCHANGED runs
    <3>1. runs = [runs EXCEPT ![run] = runs[run]]
      BY <1>3 DEF Inv, TypeOK
    <3>2. UpdateRun(runs[run])
      BY <2>4, <3>1 DEF UpdateRun
    <3> QED BY <2>1, <3>2, <1>3
  <2> QED BY <2>2, <2>3, <2>4 DEF HandleGatewayTransition
<1>5. /\ waited' \in Nat /\ exit' \in {None} \cup 0..6
      /\ pc' \notin {"confirm", "clear"} \cup Guarding
  BY <1>1 DEF Inv, TypeOK, Guarding
<1> QED BY <1>1, <1>2, <1>3, <1>4, <1>5, Updates

\* Polling goes on, or the run closes.
LEMMA PollInternetInv == ASSUME Inv, PollInternet PROVE Inv'
<1>1. /\ pc = "recheck"
      /\ UNCHANGED <<store, now, setting, run, seen, waited, alive, exit, samples,
                     reboots, budget, faults>>
      /\ recovery' \subseteq States
  BY VerdictsAreStates DEF PollInternet, Inv, TypeOK
<1>2. \/ pc' \in Closing /\ ending' \in EndingNames
      \/ pc' = "poll" /\ ending' = ending
  BY CloseType, EndingNamesType DEF PollInternet, Goto
<1>3. TypeOK'
  BY <1>1, <1>2 DEF Inv, TypeOK, Labels, Closing, store, setting, budget
<1>4. Control'
  BY <1>1, <1>2 DEF Inv, Control, store, setting, Closing, Guarding, Acting, Recovering, Seated
<1> QED BY <1>3, <1>4 DEF Inv

\* The announce guard keeps the ending it closes with.
LEMMA ShouldAnnounceInv == ASSUME Inv, ShouldAnnounce PROVE Inv'
<1>1. /\ pc = "gate" /\ pc' \in {"say", "settle"} /\ ending' = ending
      /\ UNCHANGED <<store, now, setting, run, seen, waited, alive, exit, samples,
                     reboots, recovery, budget>>
      /\ faults' \in Nat
  BY DEF ShouldAnnounce, Goto, StoreWorks, StoreFails, Inv, TypeOK
<1>2. /\ pc \in Seated /\ pc' \in Seated /\ ending \in EndingNames
      /\ pc' \notin {"confirm", "clear"} \cup Guarding
  BY <1>1 DEF Inv, Control, Closing, Guarding, Seated
<1>3. losses' \in Nat /\ UNCHANGED <<started, crashes>>
  BY <1>1 DEF Inv, TypeOK, budget
<1> QED BY <1>1, <1>2, <1>3, Moves

\* The row closed is a row, and the exit code one of the seven.
LEMMA SettleInv == ASSUME Inv, Settle PROVE Inv'
<1>1. /\ pc = "settle" /\ pc' = "idle" /\ ending' = ending /\ exit' = Endings[ending].code
      /\ UNCHANGED <<hot, outbox, now, setting, run, seen, waited, alive, samples,
                     reboots, recovery, budget>>
  BY DEF Settle, Goto
<1>2. run \in 1..Len(runs) /\ ending \in EndingNames
  BY <1>1, SeatedRow DEF Inv, Control, Closing, Seated
<1>3. exit' \in 0..6
  BY <1>1, <1>2, EndingsType
<1>4. runs' \in Seq(Rows) /\ Len(runs') = Len(runs) /\ faults' \in Nat
  BY <1>2, SettleWrites, UpdateRunType DEF Inv, TypeOK
<1>5. TypeOK'
  BY <1>1, <1>3, <1>4 DEF Inv, TypeOK, Labels, setting, budget
<1>6. Control'
  BY <1>1 DEF Control, Closing, Guarding, Acting, Recovering, Seated
<1> QED BY <1>5, <1>6 DEF Inv

\* A crash leaves the database as it was.
LEMMA CrashInv == ASSUME Inv, Crash PROVE Inv'
<1>1. TypeOK'
  BY DEF Crash, Goto, Inv, TypeOK, Labels, store, setting
<1>2. Control'
  BY DEF Crash, Goto, Control, Closing, Guarding, Acting, Recovering, Seated
<1> QED BY <1>1, <1>2 DEF Inv

\* Nothing changes, nothing breaks.
LEMMA StutterInv == ASSUME Inv, UNCHANGED vars PROVE Inv'
BY DEF Inv, TypeOK, Control, vars

\* The invariant is inductive.
LEMMA NextInv == Inv /\ [Next]_vars => Inv'
<1> SUFFICES ASSUME Inv, [Next]_vars PROVE Inv'
  OBVIOUS
<1>1. CASE StartRun
  BY <1>1, StartRunInv
<1>2. CASE Step
  BY <1>2, ProbeInv, InsertRunInv, ConfirmInv, ClearInv, DecideInv, GuardsInv,
     MarkActionInv, AnnounceInv, RebootInv, StampRebootInv, PollGatewayInv,
     PollInternetInv, ShouldAnnounceInv, SettleInv DEF Step
<1>3. CASE Crash
  BY <1>3, CrashInv
<1>4. CASE Finished \/ UNCHANGED vars
  BY <1>4, StutterInv DEF Finished
<1> QED BY <1>1, <1>2, <1>3, <1>4 DEF Next

\* Types, and what the process knows at each call (Control), hold always: a
\* run past its insert works on a row of its own mode, and the probes recorded
\* for that row are the ones it has in memory.
THEOREM InvAlways == Spec => []Inv
BY InitInv, NextInv, PTL DEF Spec

\* The database rows, the process memory and the history keep their types
\* through every interleaving of faults and crashes.
THEOREM TypeCorrect == Spec => []TypeOK
<1>1. Inv => TypeOK
  BY DEF Inv
<1> QED BY <1>1, InvAlways, PTL

(***************************************************************************)
(* What a step may change of the record.                                   *)
(***************************************************************************)
\* What an update of its own row by a run may change.
RowKeeps(r, q) ==
    /\ q.mode = r.mode /\ q.startedAt = r.startedAt
    /\ q.internetOK = r.internetOK \/ (pc = "clear" /\ q.internetOK = "true")
    /\ q.action = "reboot" => r.action = "reboot" \/ pc = "mark"
    /\ r.action = "reboot" =>
          q.action = "reboot" \/ (pc = "settle" /\ Endings[ending].action # "keep")
    /\ q.finishedAt = r.finishedAt \/ pc = "settle"
    /\ \/ q.rebootStartedAt = r.rebootStartedAt
       \/ pc = "stamp" /\ q.rebootStartedAt = now

\* A step adds a row, or a probe, or a reboot; or it updates its run's row.
Frame ==
    /\ Len(runs) <= Len(runs')
    /\ \A i \in 1..Len(runs) :
          /\ i # run => runs'[i] = runs[i] /\ samples'[i] = samples[i]
          /\ RowKeeps(runs[i], runs'[i])
          /\ pc # "confirm" => samples'[i] = samples[i]
          /\ samples[i] # <<>> => samples'[i] # <<>> /\ samples'[i][1] = samples[i][1]
    /\ \/ reboots' = reboots
       \/ pc = "request" /\ reboots' = Append(reboots, [run |-> run, at |-> now])

\* A step that leaves the record alone,
LEMMA FrameWhenUnchanged ==
    ASSUME Inv, UNCHANGED <<runs, samples, reboots>>
    PROVE  Frame
BY DEF Inv, TypeOK, Frame, RowKeeps

\* one that updates its own row,
LEMMA FrameOfUpdate ==
    ASSUME Inv, pc \in Seated, NEW row \in Rows, RowKeeps(runs[run], row),
           UpdateRun(row), UNCHANGED <<samples, reboots>>
    PROVE  Frame
<1>1. run \in 1..Len(runs)
  BY SeatedRow
<1>2. /\ Len(runs') = Len(runs)
      /\ \A i \in 1..Len(runs) : i # run => runs'[i] = runs[i]
      /\ runs'[run] \in {row, runs[run]}
  BY <1>1, UpdateRunType DEF Inv, TypeOK
<1>3. \A i \in 1..Len(runs) : RowKeeps(runs[i], runs[i])
  BY DEF RowKeeps
<1>4. \A i \in 1..Len(runs) : RowKeeps(runs[i], runs'[i])
  BY <1>1, <1>2, <1>3
<1> QED BY <1>2, <1>4 DEF Frame, Inv, TypeOK

\* each of the five that do,
LEMMA FrameOfUpdates ==
    ASSUME Inv, Clear \/ MarkAction \/ StampReboot \/ PollGateway \/ Settle
    PROVE  Frame
<1>1. pc \in Seated /\ UNCHANGED <<samples, reboots>>
  BY DEF Clear, MarkAction, StampReboot, PollGateway, Settle,
         Seated, Acting, Recovering, Closing
<1>2. runs[run] \in Rows /\ now \in Nat
  BY <1>1, SeatedRow
<1>3. CASE Clear
  <2> DEFINE row == [runs[run] EXCEPT !.internetOK = "true"]
  <2>1. row \in Rows
    BY <1>2, RowType
  <2>2. RowKeeps(runs[run], row)
    BY <1>2, <1>3 DEF RowKeeps, Rows, Clear
  <2>3. UpdateRun(row)
    BY <1>3 DEF Clear
  <2> QED BY <1>1, <2>1, <2>2, <2>3, FrameOfUpdate
<1>4. CASE MarkAction
  <2> DEFINE row == [runs[run] EXCEPT !.action = "reboot"]
  <2>1. row \in Rows
    BY <1>2, RowType
  <2>2. RowKeeps(runs[run], row)
    BY <1>2, <1>4 DEF RowKeeps, Rows, MarkAction
  <2>3. UpdateRun(row)
    BY <1>4 DEF MarkAction
  <2> QED BY <1>1, <2>1, <2>2, <2>3, FrameOfUpdate
<1>5. CASE StampReboot
  <2> DEFINE row == [runs[run] EXCEPT !.rebootStartedAt = now]
  <2>1. row \in Rows
    BY <1>2, RowType
  <2>2. RowKeeps(runs[run], row)
    BY <1>2, <1>5 DEF RowKeeps, Rows, StampReboot
  <2>3. UpdateRun(row)
    BY <1>5 DEF StampReboot
  <2> QED BY <1>1, <2>1, <2>2, <2>3, FrameOfUpdate
<1>6. CASE PollGateway
  <2> DEFINE down == [runs[run] EXCEPT !.routerDownAt = now']
             up == [runs[run] EXCEPT !.routerUpAt = now']
  <2>1. now' \in Nat
    BY <1>2, <1>6 DEF PollGateway
  <2>2. down \in Rows /\ up \in Rows
    BY <1>2, <2>1, RowType
  <2>3. RowKeeps(runs[run], down) /\ RowKeeps(runs[run], up)
    BY <1>2, <2>1 DEF RowKeeps, Rows
  <2>4. UpdateRun(down) \/ UpdateRun(up) \/ UNCHANGED runs
    BY <1>6 DEF PollGateway, HandleGatewayTransition
  <2> HIDE DEF down, up
  <2> QED BY <1>1, <2>2, <2>3, <2>4, FrameOfUpdate, FrameWhenUnchanged
<1>7. CASE Settle
  <2>1. PICK row \in Rows :
           /\ UpdateRun(row)
           /\ row.startedAt = runs[run].startedAt /\ row.mode = runs[run].mode
           /\ row.internetOK = runs[run].internetOK
           /\ row.rebootStartedAt = runs[run].rebootStartedAt
           /\ row.action = IF Endings[ending].action = "keep" THEN runs[run].action
                           ELSE Endings[ending].action
    BY <1>7, SettleWrites
  <2>2. pc = "settle" /\ ending \in EndingNames
    BY <1>7 DEF Settle, Inv, Control, Closing
  <2>3. Endings[ending].action \in {"keep", "skipped_cooldown", "skipped_disabled"}
    BY <2>2, EndingsType
  <2>4. RowKeeps(runs[run], row)
    BY <2>1, <2>2, <2>3 DEF RowKeeps
  <2> QED BY <1>1, <2>1, <2>4, FrameOfUpdate
<1> QED BY <1>3, <1>4, <1>5, <1>6, <1>7

\* one that adds a row,
LEMMA FrameOfInsert == ASSUME Inv, InsertRun PROVE Frame
<1>1. reboots' = reboots
  BY DEF InsertRun
<1>2. CASE UNCHANGED <<runs, samples>>
  BY <1>1, <1>2, FrameWhenUnchanged
<1>3. CASE /\ runs' = Append(runs, NewRow(mode, InternetOK))
           /\ samples' = Append(samples, seen)
  <2>1. /\ Len(runs') = Len(runs) + 1
        /\ \A i \in 1..Len(runs) : runs'[i] = runs[i] /\ samples'[i] = samples[i]
    BY <1>3 DEF Inv, TypeOK
  <2>2. \A i \in 1..Len(runs) : RowKeeps(runs[i], runs'[i])
    BY <2>1 DEF RowKeeps
  <2> QED BY <1>1, <2>1, <2>2 DEF Frame, Inv, TypeOK
<1> QED BY <1>2, <1>3 DEF InsertRun

\* one that adds a probe,
LEMMA FrameOfConfirm == ASSUME Inv, Confirm PROVE Frame
<1>1. /\ pc = "confirm" /\ UNCHANGED <<runs, reboots>>
      /\ samples' = [samples EXCEPT ![run] = seen']
  BY DEF Confirm, store
<1>2. /\ run \in 1..Len(runs) /\ samples[run] = seen /\ Len(seen) > 0
  BY <1>1 DEF Inv, Control, Seated
<1>3. PICK v \in States : seen' = Append(seen, v)
  BY VerdictsAreStates DEF Confirm, Check
<1>4. seen' # <<>> /\ seen'[1] = seen[1]
  <2>1. Len(seen') = Len(seen) + 1 /\ seen'[1] = seen[1] /\ Len(seen) \in Nat
    BY <1>2, <1>3, AppendProperties DEF Inv, TypeOK
  <2> QED BY <2>1, EmptySeq
<1>5. \A i \in 1..Len(runs) : samples'[i] = IF i = run THEN seen' ELSE samples[i]
  BY <1>1 DEF Inv, TypeOK
<1> QED BY <1>1, <1>2, <1>4, <1>5 DEF Frame, RowKeeps, Inv, TypeOK

\* and one that adds a reboot: each stays within the frame.
LEMMA FrameOfReboot == ASSUME Inv, Reboot PROVE Frame
<1>1. /\ pc = "request" /\ UNCHANGED <<runs, samples>>
      /\ reboots' \in {reboots, Append(reboots, [run |-> run, at |-> now])}
  BY DEF Reboot, store
<1>2. Len(runs) \in Nat
  BY DEF Inv, TypeOK
<1> QED BY <1>1, <1>2 DEF Frame, RowKeeps

\* So every step does.
LEMMA StepFrame == Inv /\ [Next]_vars => Frame
<1> SUFFICES ASSUME Inv, [Next]_vars PROVE Frame
  OBVIOUS
<1>1. CASE \/ StartRun \/ Probe \/ Decide \/ OutageSustained \/ Cooldown \/ Initiate
           \/ PollInternet \/ ShouldAnnounce \/ Say \/ Crash \/ Finished \/ UNCHANGED vars
  <2>1. UNCHANGED <<runs, samples, reboots>>
    BY <1>1 DEF StartRun, Probe, Decide, OutageSustained, Cooldown, Initiate,
                PollInternet, ShouldAnnounce, Say, Crash, Finished, vars, store
  <2> QED BY <2>1, FrameWhenUnchanged
<1>2. CASE Clear \/ MarkAction \/ StampReboot \/ PollGateway \/ Settle
  BY <1>2, FrameOfUpdates
<1>3. CASE InsertRun \/ Confirm \/ Reboot
  BY <1>3, FrameOfInsert, FrameOfConfirm, FrameOfReboot
<1> QED BY <1>1, <1>2, <1>3 DEF Next, Step

(***************************************************************************)
(* What a run knows when it reaches each call.                             *)
(***************************************************************************)
Undecided == {"confirm", "clear", "decide"} \cup Guarding \cup Acting

AllDown(s) == \A i \in DOMAIN s : IsDown(s[i])
Confirmed(s) == Len(s) = 1 + CheckConfirmations /\ AllDown(s)

NotYet == pc \in Undecided => \A k \in DOMAIN reboots : reboots[k].run # run

Knows ==
    /\ NotYet
    /\ pc = "confirm" => Len(seen) <= CheckConfirmations /\ AllDown(seen)
    /\ pc = "clear" => ~IsDown(Result)
    /\ (pc = "decide" /\ mode = "soft" /\ IsDown(Result)) => Confirmed(seen)
    /\ pc \in Guarding => Confirmed(seen)
    /\ (pc \in Acting /\ mode = "soft") => Confirmed(seen)
    /\ pc \in Guarding \cup Acting \cup Recovering => enabled

\* A call that lies behind all the decisions has nothing to know but enabled.
LEMMA KnowsLater ==
    ASSUME pc' \in {"idle", "probe", "insert"} \cup Recovering \cup Closing,
           pc' \in Recovering => enabled'
    PROVE  Knows'
BY DEF Knows, NotYet, Undecided, Guarding, Acting, Recovering, Closing

\* A step that stays among the guarding or acting calls keeps what is known.
LEMMA KnowsStill ==
    ASSUME Knows, UNCHANGED <<reboots, run, seen, mode, enabled>>,
           \/ pc' \in Guarding /\ pc \in Guarding
           \/ pc' \in Acting /\ pc \in Guarding \cup Acting
    PROVE  Knows'
BY DEF Knows, NotYet, Undecided, Guarding, Acting, Recovering, Confirmed

\* Every reboot belongs to a row.
LEMMA RebootsType ==
    ASSUME TypeOK
    PROVE  /\ DOMAIN reboots = 1..Len(reboots) /\ Len(reboots) \in Nat
           /\ \A k \in DOMAIN reboots : reboots[k].run \in 1..Len(runs) /\ reboots[k].at \in Nat
<1>1. reboots \in Seq([run : 1..Len(runs), at : Nat])
  BY DEF TypeOK
<1>2. ASSUME NEW k \in DOMAIN reboots
      PROVE  reboots[k] \in [run : 1..Len(runs), at : Nat]
  BY <1>1, ElementOfSeq, LenProperties
<1> QED BY <1>1, <1>2, LenProperties

\* A fresh row has no reboot, and one probe at most.
LEMMA KnowsInsert == ASSUME Inv, InsertRun PROVE Knows'
<1>1. CASE StoreFails
  <2>1. pc' = "idle"
    BY <1>1 DEF InsertRun, Goto, StoreFails, StoreWorks, Inv, TypeOK
  <2> QED BY <2>1, KnowsLater DEF Recovering
<1>2. CASE ~StoreFails
  <2>1. /\ run' = Len(runs) + 1 /\ UNCHANGED <<reboots, seen, mode>>
        /\ pc' = IF NeedsConfirm THEN "confirm" ELSE "decide"
    BY <1>2 DEF InsertRun, Goto, NextRow, setting
  <2>2. NotYet'
    <3>1. \A k \in DOMAIN reboots : reboots[k].run # Len(runs) + 1
      <4>1. TypeOK /\ Len(runs) \in Nat
        BY DEF Inv, TypeOK
      <4> QED BY <4>1, RebootsType
    <3> QED BY <2>1, <3>1 DEF NotYet
  <2>3. mode = "soft" => Len(seen) = 1
    BY DEF InsertRun, Inv, Control
  <2>4. seen \in Seq(States) /\ CheckConfirmations \in Nat
    BY SettingsAssumption DEF Inv, TypeOK
  <2>5. CASE NeedsConfirm
    <3>1. mode = "soft" /\ IsDown(seen[1]) /\ CheckConfirmations > 0
      BY <2>5 DEF NeedsConfirm, InternetOK, Inv, TypeOK
    <3>2. Len(seen) <= CheckConfirmations /\ AllDown(seen)
      BY <2>3, <2>4, <3>1 DEF AllDown
    <3> QED BY <2>1, <2>2, <2>5, <3>2
            DEF Knows, AllDown, Guarding, Acting, Recovering
  <2>6. CASE ~NeedsConfirm
    <3>1. ASSUME mode = "soft", IsDown(seen[1]) PROVE Confirmed(seen)
      BY <2>3, <2>4, <2>6, <3>1 DEF NeedsConfirm, InternetOK, Confirmed, AllDown
    <3>2. (mode = "soft" /\ IsDown(Result)) => Confirmed(seen)
      BY <2>3, <3>1 DEF Result
    <3> QED BY <2>1, <2>2, <2>6, <3>2
            DEF Knows, Confirmed, AllDown, Result, Guarding, Acting, Recovering
  <2> QED BY <2>5, <2>6
<1> QED BY <1>1, <1>2

\* Re-probing ends with every probe down, or with the last one not down.
LEMMA KnowsConfirm == ASSUME Inv, Knows, Confirm PROVE Knows'
<1>1. /\ pc = "confirm" /\ UNCHANGED <<reboots, run, mode>>
      /\ pc' = IF ~IsDown(Result') THEN "clear"
               ELSE IF Len(seen) = CheckConfirmations THEN "decide" ELSE "confirm"
  BY DEF Confirm, Goto, setting
<1>2. Len(seen) <= CheckConfirmations /\ AllDown(seen)
  BY <1>1 DEF Knows
<1>3. PICK v \in States : seen' = Append(seen, v)
  BY VerdictsAreStates DEF Confirm, Check
<1>4. seen \in Seq(States) /\ Len(seen) \in Nat /\ CheckConfirmations \in Nat
  BY SettingsAssumption DEF Inv, TypeOK
<1>5. /\ Len(seen') = Len(seen) + 1 /\ Result' = v
      /\ DOMAIN seen' = 1..Len(seen) + 1 /\ DOMAIN seen = 1..Len(seen)
      /\ \A i \in 1..Len(seen) : seen'[i] = seen[i]
      /\ seen'[Len(seen) + 1] = v
  BY <1>3, <1>4 DEF Result
<1>6. NotYet'
  BY <1>1 DEF Knows, NotYet, Undecided
<1>7. IsDown(v) => AllDown(seen')
  BY <1>2, <1>4, <1>5 DEF AllDown
<1>8. CASE pc' = "clear"
  BY <1>1, <1>6, <1>8 DEF Knows, Guarding, Acting, Recovering
<1>9. CASE pc' = "decide"
  <2>1. Len(seen) = CheckConfirmations /\ IsDown(v)
    BY <1>1, <1>5, <1>9
  <2>2. Confirmed(seen')
    BY <1>4, <1>5, <1>7, <2>1 DEF Confirmed
  <2> QED BY <1>6, <1>9, <2>2 DEF Knows, Confirmed, AllDown, Guarding, Acting, Recovering
<1>10. CASE pc' = "confirm"
  <2>1. Len(seen) # CheckConfirmations /\ IsDown(v)
    BY <1>1, <1>5, <1>10
  <2>2. Len(seen') <= CheckConfirmations
    BY <1>2, <1>4, <1>5, <2>1
  <2> QED BY <1>6, <1>7, <1>10, <2>1, <2>2 DEF Knows, AllDown, Guarding, Acting, Recovering
<1> QED BY <1>1, <1>8, <1>9, <1>10

\* Only a confirmed outage passes on to the guards.
LEMMA KnowsDecide == ASSUME Inv, Knows, Decide PROVE Knows'
<1>1. pc = "decide" /\ UNCHANGED <<reboots, run, seen, mode, enabled>>
  BY DEF Decide, setting
<1>2. CASE pc' \in Closing
  BY <1>2, KnowsLater DEF Closing, Recovering
<1>3. CASE pc' = "mark" /\ mode = "hard" /\ enabled
  BY <1>1, <1>3 DEF Knows, NotYet, Undecided, Guarding, Acting, Recovering
<1>4. CASE pc' = "streak" /\ mode = "soft" /\ enabled /\ IsDown(Result)
  BY <1>1, <1>4 DEF Knows, NotYet, Undecided, Guarding, Acting, Recovering, Confirmed
<1> QED BY <1>2, <1>3, <1>4, CloseType, EndingNamesType DEF Decide, DecideHard, DecideSoft, Goto

\* What is known at each call is preserved by every step.
LEMMA KnowsNext == Inv /\ Knows /\ [Next]_vars => Knows'
<1> SUFFICES ASSUME Inv, Knows, [Next]_vars PROVE Knows'
  OBVIOUS
<1>1. CASE StartRun \/ Probe \/ Settle \/ Crash
  <2>1. pc' \in {"idle", "probe", "insert"}
    BY <1>1 DEF StartRun, Probe, Settle, Crash, Goto
  <2> QED BY <2>1, KnowsLater DEF Recovering
<1>2. CASE InsertRun \/ Confirm \/ Decide
  BY <1>2, KnowsInsert, KnowsConfirm, KnowsDecide
<1>3. CASE Clear
  BY <1>3 DEF Clear, Goto, setting, Knows, NotYet, Undecided, Guarding, Acting,
              Recovering, Result
<1>4. CASE OutageSustained \/ Cooldown
  <2>1. /\ pc \in Guarding /\ UNCHANGED <<reboots, run, seen, mode, enabled>>
        /\ pc' \in Closing \cup {"cooldown", "mark"}
    BY <1>4, CloseType, EndingNamesType
       DEF OutageSustained, Cooldown, Goto, setting, Guarding
  <2> QED BY <2>1, KnowsLater, KnowsStill DEF Guarding, Acting, Recovering, Closing
<1>5. CASE MarkAction \/ Initiate
  <2>1. /\ pc \in Acting /\ UNCHANGED <<reboots, run, seen, mode, enabled>>
        /\ pc' \in Acting
    BY <1>5 DEF MarkAction, Initiate, Goto, setting, Acting
  <2> QED BY <2>1, KnowsStill
<1>6. CASE Reboot \/ StampReboot \/ PollGateway \/ PollInternet
  <2>1. /\ pc \in Acting \cup Recovering /\ enabled' = enabled
        /\ pc' \in Recovering \cup Closing
    BY <1>6, CloseType, EndingNamesType
       DEF Reboot, StampReboot, PollGateway, PollInternet, Goto, setting,
           Acting, Recovering
  <2> QED BY <2>1, KnowsLater DEF Knows
<1>7. CASE ShouldAnnounce \/ Say
  <2>1. pc' \in Closing
    BY <1>7 DEF ShouldAnnounce, Say, Goto, Closing
  <2> QED BY <2>1, KnowsLater DEF Closing, Recovering
<1>8. CASE Finished \/ UNCHANGED vars
  BY <1>8 DEF Finished, vars, Knows, NotYet, Result
<1> QED BY <1>1, <1>2, <1>3, <1>4, <1>5, <1>6, <1>7, <1>8 DEF Next, Step

\* The reboots after a step are those before it, and perhaps one of this run.
LEMMA RebootsAfter ==
    ASSUME Inv, Frame, NEW k \in DOMAIN reboots'
    PROVE  \/ k \in DOMAIN reboots /\ reboots'[k] = reboots[k]
           \/ /\ pc = "request" /\ k = Len(reboots) + 1
              /\ reboots'[k] = [run |-> run, at |-> now]
<1>1. CASE reboots' = reboots
  BY <1>1
<1>2. CASE pc = "request" /\ reboots' = Append(reboots, [run |-> run, at |-> now])
  <2>1. reboots \in Seq([run : 1..Len(runs), at : Nat])
    BY DEF Inv, TypeOK
  <2>2. [run |-> run, at |-> now] \in [run : 1..Len(runs), at : Nat]
    BY <1>2, SeatedRow DEF Seated, Acting
  <2>3. /\ DOMAIN reboots' = 1..Len(reboots) + 1 /\ DOMAIN reboots = 1..Len(reboots)
        /\ Len(reboots) \in Nat
        /\ \A j \in 1..Len(reboots) : reboots'[j] = reboots[j]
        /\ reboots'[Len(reboots) + 1] = [run |-> run, at |-> now]
    BY <1>2, <2>1, <2>2, AppendProperties, LenProperties
  <2> QED BY <1>2, <2>3
<1> QED BY <1>1, <1>2 DEF Frame

\* The probes of a run stand once it has asked for a reboot.
LEMMA ConfirmedNext ==
    Inv /\ Knows /\ RebootConfirmed /\ [Next]_vars => RebootConfirmed'
<1> SUFFICES ASSUME Inv, Knows, RebootConfirmed, [Next]_vars,
                    NEW k \in SoftReboots'
             PROVE  Confirmed(samples'[reboots'[k].run])
  BY DEF RebootConfirmed, Confirmed, AllDown
<1>1. Frame
  BY StepFrame
<1>2. k \in DOMAIN reboots' /\ runs'[reboots'[k].run].mode = "soft"
  BY DEF SoftReboots
<1>3. CASE k \in DOMAIN reboots /\ reboots'[k] = reboots[k]
  <2>1. reboots[k].run \in 1..Len(runs)
    BY <1>3, RebootsType DEF Inv
  <2>2. k \in SoftReboots
    BY <1>1, <1>2, <1>3, <2>1 DEF SoftReboots, Frame, RowKeeps
  <2>3. Confirmed(samples[reboots[k].run])
    BY <2>2 DEF RebootConfirmed, Confirmed, AllDown
  <2>4. pc = "confirm" => reboots[k].run # run
    BY <1>3 DEF Knows, NotYet, Undecided
  <2>5. samples'[reboots[k].run] = samples[reboots[k].run]
    BY <1>1, <2>1, <2>4 DEF Frame
  <2> QED BY <1>3, <2>3, <2>5
<1>4. CASE pc = "request" /\ reboots'[k] = [run |-> run, at |-> now]
  <2>1. run \in 1..Len(runs) /\ samples[run] = seen /\ runs[run].mode = mode
    BY <1>4 DEF Inv, Control, Seated, Acting
  <2>2. samples'[run] = seen /\ runs'[run].mode = mode
    BY <1>1, <1>4, <2>1 DEF Frame, RowKeeps
  <2>3. Confirmed(seen)
    BY <1>2, <1>4, <2>2 DEF Knows, Acting
  <2> QED BY <1>4, <2>2, <2>3
<1> QED BY <1>1, <1>2, <1>3, <1>4, RebootsAfter

\* The only step that reboots is behind the check of REBOOT_ENABLED.
LEMMA MonitorNext == Inv /\ Knows /\ MonitorOnly /\ [Next]_vars => MonitorOnly'
<1> SUFFICES ASSUME Inv, Knows, MonitorOnly, [Next]_vars, RebootedThisRun'
             PROVE  enabled'
  BY DEF MonitorOnly
<1>1. PICK k \in DOMAIN reboots' : reboots'[k].run = run' /\ run' > 0
  BY DEF RebootedThisRun
<1>2. Frame
  BY StepFrame
<1>3. CASE StartRun
  BY <1>1, <1>3 DEF StartRun
<1>4. CASE InsertRun
  <2>1. reboots' = reboots /\ enabled' = enabled /\ run' \in {run, Len(runs) + 1}
    BY <1>4 DEF InsertRun, setting, NextRow
  <2>2. reboots[k].run \in 1..Len(runs) /\ Len(runs) \in Nat
    <3>1. TypeOK /\ Len(runs) \in Nat
      BY DEF Inv, TypeOK
    <3> QED BY <1>1, <2>1, <3>1, RebootsType
  <2>3. run' = run
    BY <1>1, <2>1, <2>2
  <2> QED BY <1>1, <2>1, <2>3 DEF MonitorOnly, RebootedThisRun
<1>5. CASE ~StartRun /\ ~InsertRun
  <2>1. run' = run /\ enabled' = enabled
    BY <1>5 DEF Next, Step, Probe, Confirm, Clear, Decide, OutageSustained, Cooldown,
       MarkAction, Initiate, Reboot, StampReboot, PollGateway, PollInternet,
       ShouldAnnounce, Say, Settle, Crash, Finished, setting, vars
  <2>2. CASE pc = "request"
    BY <2>1, <2>2 DEF Knows, Acting
  <2>3. CASE pc # "request"
    BY <1>1, <1>2, <2>1, <2>3 DEF Frame, MonitorOnly, RebootedThisRun
  <2> QED BY <2>2, <2>3
<1> QED BY <1>3, <1>4, <1>5

\* Nothing is known, and nothing rebooted, before the first run.
LEMMA InitKnows == Init => Knows /\ RebootConfirmed /\ MonitorOnly
BY DEF Init, Knows, NotYet, Undecided, Guarding, Acting, Recovering,
       RebootConfirmed, SoftReboots, MonitorOnly, RebootedThisRun

\* At each call the run knows what the decisions before it established: the
\* router has not been rebooted yet, every probe was down, reboots are enabled.
THEOREM KnowsAlways == Spec => []Knows
BY InitInv, NextInv, InitKnows, KnowsNext, PTL DEF Spec

\* A run whose configuration turned reboots off never reboots the router:
\* whatever its mode, its probes, the faults and the crashes.
THEOREM MonitorOnlyHolds == Spec => []MonitorOnly
BY InvAlways, KnowsAlways, InitKnows, MonitorNext, PTL DEF Spec

\* Every reboot of a soft run rests on 1 + CHECK_CONFIRMATIONS probes of that
\* run, all of which graded the link down.
THEOREM RebootConfirmedHolds == Spec => []RebootConfirmed
BY InvAlways, KnowsAlways, InitKnows, ConfirmedNext, PTL DEF Spec

(***************************************************************************)
(* The record.                                                             *)
(***************************************************************************)
\* The row of a run that has not ended is not closed.
RowOpen == pc \in Seated => runs[run].finishedAt = None

ClosedRowsKept ==
    \A r \in DOMAIN runs :
       runs[r].finishedAt # None => r \in DOMAIN runs' /\ runs'[r] = runs[r]

\* A run stays with its row, and gets it by its insert.
LEMMA SeatedAfter ==
    ASSUME Inv, [Next]_vars, pc' \in Seated
    PROVE  \/ /\ pc \in Seated /\ run' = run
              /\ pc # "settle" \/ UNCHANGED runs
           \/ /\ pc = "insert" /\ run' = Len(runs) + 1 /\ Len(runs') = Len(runs) + 1
              /\ runs'[run'].finishedAt = None
<1>1. ~(StartRun \/ Probe \/ Settle \/ Crash \/ Finished)
  BY DEF StartRun, Probe, Settle, Crash, Finished, Goto, vars,
         Seated, Guarding, Acting, Recovering, Closing
<1>2. CASE InsertRun
  <2>1. pc = "insert" /\ pc' # "idle"
    BY <1>2 DEF InsertRun, Seated, Guarding, Acting, Recovering, Closing
  <2>2. runs' = Append(runs, NewRow(mode, InternetOK)) /\ run' = NextRow
    BY <1>2, <2>1 DEF InsertRun, Goto
  <2>3. Len(runs') = Len(runs) + 1 /\ runs'[Len(runs) + 1] = NewRow(mode, InternetOK)
    BY <2>2 DEF Inv, TypeOK
  <2> QED BY <2>1, <2>2, <2>3 DEF NextRow, NewRow
<1>3. CASE \/ Confirm \/ Clear \/ Decide \/ OutageSustained \/ Cooldown
           \/ MarkAction \/ Initiate \/ Reboot \/ StampReboot
           \/ PollGateway \/ PollInternet \/ ShouldAnnounce \/ Say
  BY <1>3 DEF Confirm, Clear, Decide, OutageSustained, Cooldown, MarkAction, Initiate,
              Reboot, StampReboot, PollGateway, PollInternet, ShouldAnnounce, Say,
              Seated, Guarding, Acting, Recovering, Closing
<1>4. CASE UNCHANGED vars
  BY <1>4 DEF vars
<1>5. Next \/ UNCHANGED vars
  OBVIOUS
<1>6. CASE Next
  <2>1. Step
    BY <1>1, <1>6 DEF Next
  <2> QED BY <1>1, <1>2, <1>3, <2>1 DEF Step
<1> QED BY <1>4, <1>5, <1>6

LEMMA RowOpenNext == Inv /\ RowOpen /\ [Next]_vars => RowOpen'
<1> SUFFICES ASSUME Inv, RowOpen, [Next]_vars, pc' \in Seated
             PROVE  runs'[run'].finishedAt = None
  BY DEF RowOpen
<1>1. CASE pc \in Seated /\ run' = run /\ (pc # "settle" \/ UNCHANGED runs)
  <2>1. run \in 1..Len(runs) /\ runs[run].finishedAt = None
    BY <1>1, SeatedRow DEF RowOpen
  <2>2. RowKeeps(runs[run], runs'[run])
    BY <2>1, StepFrame DEF Frame
  <2> QED BY <1>1, <2>1, <2>2 DEF RowKeeps
<1> QED BY <1>1, SeatedAfter

\* Only a run that is not over writes a row, its own.
LEMMA ClosedRowsNext == Inv /\ RowOpen /\ [Next]_vars => ClosedRowsKept
<1> SUFFICES ASSUME Inv, RowOpen, [Next]_vars,
                    NEW r \in DOMAIN runs, runs[r].finishedAt # None
             PROVE  r \in DOMAIN runs' /\ runs'[r] = runs[r]
  BY DEF ClosedRowsKept
<1>1. r \in 1..Len(runs) /\ Frame
  BY StepFrame DEF Inv, TypeOK
<1>2. TypeOK' /\ r \in DOMAIN runs'
  <2>1. TypeOK'
    BY NextInv DEF Inv
  <2>2. runs' \in Seq(Rows) /\ DOMAIN runs' = 1..Len(runs') /\ Len(runs') \in Nat
    BY <2>1 DEF TypeOK
  <2>3. Len(runs) \in Nat /\ Len(runs) <= Len(runs')
    BY <1>1 DEF Inv, TypeOK, Frame
  <2> QED BY <1>1, <2>1, <2>2, <2>3
<1>3. CASE r # run
  BY <1>1, <1>2, <1>3 DEF Frame
<1>4. CASE r = run
  <2>1. pc \notin Seated
    BY <1>4 DEF RowOpen
  <2>2. UNCHANGED runs \/ InsertRun
    BY <2>1 DEF Next, Step, vars, store, StartRun, Probe, Confirm, Clear, Decide,
       OutageSustained, Cooldown, MarkAction, Initiate, Reboot, StampReboot, PollGateway,
       PollInternet, ShouldAnnounce, Say, Settle, Crash, Finished,
       Seated, Guarding, Acting, Recovering, Closing
  <2>3. CASE InsertRun
    BY <1>1, <2>3 DEF InsertRun, Inv, TypeOK
  <2> QED BY <1>2, <2>2, <2>3
<1> QED BY <1>3, <1>4

\* A row that a run has closed is never written again: not by that run, not by
\* a later one, not by the rollover between them, whatever fails or crashes.
THEOREM ClosedRowsHold == Spec => ClosedRowsAreFinal
<1>1. Init => RowOpen
  BY DEF Init, RowOpen, Seated, Guarding, Acting, Recovering, Closing
<1>2. Inv /\ RowOpen /\ [Next]_vars
         => [\A r \in DOMAIN runs :
               runs[r].finishedAt # None => r \in DOMAIN runs' /\ runs'[r] = runs[r]]_runs
  BY ClosedRowsNext DEF ClosedRowsKept
<1> QED BY <1>1, <1>2, InvAlways, RowOpenNext, PTL DEF Spec, ClosedRowsAreFinal

\* An ending that overwrites the action column belongs to a run without a reboot.
Barred == (pc \in Closing /\ Endings[ending].action # "keep")
             => \A k \in DOMAIN reboots : reboots[k].run # run

Announced(r) == [run |-> r, msg |-> "initiated"] \in outbox

\* While the store has not failed, the intent precedes the request.
IntentFirst ==
    faults = 0 =>
       /\ pc \in {"initiate", "request"} => runs[run].action = "reboot"
       /\ pc = "request" => Announced(run)
       /\ RebootOnRecord

LEMMA BarredNext == Inv /\ Knows /\ Barred /\ [Next]_vars => Barred'
<1> SUFFICES ASSUME Inv, Knows, Barred, [Next]_vars,
                    pc' \in Closing, Endings'[ending'].action # "keep"
             PROVE  \A k \in DOMAIN reboots' : reboots'[k].run # run'
  BY DEF Barred
<1>1. CASE Decide \/ OutageSustained \/ Cooldown
  <2>1. pc \in Undecided /\ UNCHANGED <<reboots, run>>
    BY <1>1 DEF Decide, OutageSustained, Cooldown, Undecided, Guarding
  <2> QED BY <2>1 DEF Knows, NotYet
<1>2. CASE Reboot \/ PollInternet
  <2>1. ending' \in {"failed", "completed", "timeout"}
    BY <1>2, CloseType, EndingNamesType DEF Reboot, PollInternet, Goto, Closing
  <2> QED BY <2>1 DEF Endings, Ending
<1>3. CASE ShouldAnnounce \/ Say \/ UNCHANGED vars
  <2>1. UNCHANGED <<reboots, run, ending>> /\ pc \in Closing
    BY <1>3 DEF ShouldAnnounce, Say, Goto, vars, Closing
  <2> QED BY <2>1 DEF Barred
<1>4. ~ \/ StartRun \/ Probe \/ InsertRun \/ Confirm \/ Clear \/ MarkAction \/ Initiate
        \/ StampReboot \/ PollGateway \/ Settle \/ Crash
  BY DEF StartRun, Probe, InsertRun, Confirm, Clear, MarkAction, Initiate, StampReboot,
         PollGateway, Settle, Crash, Goto, Closing
<1>5. Next \/ UNCHANGED vars
  OBVIOUS
<1> QED BY <1>1, <1>2, <1>3, <1>4, <1>5 DEF Next, Step, Finished

\* Messages stay, and the count of failures only grows.
LEMMA OutboxGrows ==
    ASSUME Inv, [Next]_vars
    PROVE  outbox \subseteq outbox' /\ (faults' = 0 => faults = 0)
<1>1. faults \in Nat
  BY DEF Inv, TypeOK
<1> QED
  BY <1>1 DEF Next, Step, vars, store, StartRun, Rollover, Probe, InsertRun, Confirm,
     Clear, Decide, OutageSustained, Cooldown, MarkAction, Initiate, Reboot, StampReboot,
     PollGateway, PollInternet, ShouldAnnounce, Say, Settle, Crash, Finished, Notify,
     HandleGatewayTransition, UpdateRun, StoreWorks, StoreFails

\* The row, then the message, and only then the request.
LEMMA IntentNext ==
    Inv /\ Knows /\ Barred /\ IntentFirst /\ [Next]_vars => IntentFirst'
<1> SUFFICES ASSUME Inv, Knows, Barred, IntentFirst, [Next]_vars, faults' = 0
             PROVE  /\ pc' \in {"initiate", "request"} => runs'[run'].action = "reboot"
                    /\ pc' = "request" => Announced(run)'
                    /\ RebootOnRecord'
  BY DEF IntentFirst
<1>1. /\ Frame /\ outbox \subseteq outbox' /\ faults = 0 /\ RebootOnRecord
      /\ pc \in {"initiate", "request"} => runs[run].action = "reboot"
      /\ pc = "request" => Announced(run)
  BY StepFrame, OutboxGrows DEF IntentFirst
<1>2. ASSUME pc' \in {"initiate", "request"}
      PROVE  \/ MarkAction
             \/ Initiate
             \/ UNCHANGED vars
  BY <1>2, CloseType, EndingNamesType
     DEF Next, Step, StartRun, Probe, InsertRun, Confirm, Clear, Decide, DecideHard,
         DecideSoft, OutageSustained, Cooldown, Reboot, StampReboot, PollGateway,
         PollInternet, ShouldAnnounce, Say, Settle, Crash, Finished, Goto, Closing
<1>3. pc' \in {"initiate", "request"} => runs'[run'].action = "reboot"
  <2>1. CASE MarkAction
    <3>1. runs' = [runs EXCEPT ![run] = [runs[run] EXCEPT !.action = "reboot"]]
      BY <1>1, <2>1 DEF MarkAction, UpdateRun, StoreFails
    <3>2. run' = run /\ pc = "mark"
      BY <2>1 DEF MarkAction, setting
    <3>3. run \in DOMAIN runs /\ runs[run] \in Rows
      BY <3>2, SeatedRow DEF Seated, Acting, Inv, TypeOK
    <3> QED BY <3>1, <3>2, <3>3 DEF Rows
  <2>2. CASE Initiate
    BY <1>1, <2>2 DEF Initiate
  <2>3. CASE UNCHANGED vars
    BY <1>1, <2>3 DEF vars
  <2> QED BY <1>2, <2>1, <2>2, <2>3
<1>4. pc' = "request" => Announced(run)'
  <2>1. CASE MarkAction
    BY <2>1 DEF MarkAction, Goto
  <2>2. CASE Initiate
    <3>1. /\ run' = run
          /\ outbox' = outbox \cup {[run |-> run, msg |-> "initiated"]}
      BY <1>1, <2>2 DEF Initiate, Notify, StoreFails
    <3> QED BY <3>1 DEF Announced
  <2>3. CASE UNCHANGED vars
    BY <1>1, <2>3 DEF vars, Announced
  <2> QED BY <1>2, <2>1, <2>2, <2>3
<1>5. ASSUME NEW k \in DOMAIN reboots'
      PROVE  /\ runs'[reboots'[k].run].action = "reboot"
             /\ [run |-> reboots'[k].run, msg |-> "initiated"] \in outbox'
  <2>1. PICK r \in 1..Len(runs) :
           /\ reboots'[k].run = r
           /\ runs[r].action = "reboot"
           /\ [run |-> r, msg |-> "initiated"] \in outbox
           /\ \/ pc = "request"
              \/ \E j \in DOMAIN reboots : reboots[j].run = r
    <3>1. CASE k \in DOMAIN reboots /\ reboots'[k] = reboots[k]
      BY <1>1, <3>1, RebootsType DEF RebootOnRecord, Inv
    <3>2. CASE pc = "request" /\ reboots'[k] = [run |-> run, at |-> now]
      BY <1>1, <3>2, SeatedRow DEF Announced, Seated, Acting
    <3> QED BY <1>1, <3>1, <3>2, RebootsAfter
  <2>2. RowKeeps(runs[r], runs'[r]) /\ (r # run => runs'[r] = runs[r])
    BY <1>1 DEF Frame
  <2>3. ~(r = run /\ pc = "settle" /\ Endings[ending].action # "keep")
    BY <2>1 DEF Barred, Closing
  <2>4. runs'[r].action = "reboot"
    BY <2>1, <2>2, <2>3 DEF RowKeeps
  <2> QED BY <1>1, <2>1, <2>4
<1> QED BY <1>3, <1>4, <1>5 DEF RebootOnRecord

\* No fault of the store yet: the row of every run that rebooted the router says
\* so, and the message that announced it was in the outbox before the request.
\* With MaxFaults = 0 this is RebootOnRecord in every state.
THEOREM RebootOnRecordHolds == Spec => [](faults = 0 => RebootOnRecord)
<1>1. Init => Barred /\ IntentFirst
  BY DEF Init, Barred, IntentFirst, RebootOnRecord, Closing
<1>2. IntentFirst => (faults = 0 => RebootOnRecord)
  BY DEF IntentFirst
<1> QED BY <1>1, <1>2, InvAlways, KnowsAlways, BarredNext, IntentNext, PTL DEF Spec

(***************************************************************************)
(* Which call leads to which.                                              *)
(***************************************************************************)
LEMMA GoesTo ==
    /\ StartRun => pc' \in {"probe", "insert"}
    /\ Probe => pc' = "insert"
    /\ InsertRun => pc' \in {"confirm", "decide", "idle"}
    /\ Confirm => pc' \in {"confirm", "clear", "decide"}
    /\ Clear => pc' = "decide"
    /\ Decide => pc' \in Closing \cup {"mark", "streak"}
    /\ OutageSustained => pc' \in Closing \cup {"cooldown"}
    /\ Cooldown => pc' \in Closing \cup {"mark"}
    /\ MarkAction => pc' = "initiate"
    /\ Initiate => pc' = "request"
    /\ Reboot => pc' \in Closing \cup {"stamp"}
    /\ StampReboot => pc' = "poll"
    /\ PollGateway => pc' = "recheck"
    /\ PollInternet => pc' \in Closing \cup {"poll"}
    /\ ShouldAnnounce => pc' \in {"say", "settle"}
    /\ Say => pc' = "settle"
    /\ Settle \/ Crash => pc' = "idle"
<1>1. Decide => pc' \in Closing \cup {"mark", "streak"}
  BY CloseType, EndingNamesType DEF Decide, DecideHard, DecideSoft, Goto
<1>2. /\ OutageSustained => pc' \in Closing \cup {"cooldown"}
      /\ Cooldown => pc' \in Closing \cup {"mark"}
  BY CloseType, EndingNamesType DEF OutageSustained, Cooldown, Goto
<1>3. /\ Reboot => pc' \in Closing \cup {"stamp"}
      /\ PollInternet => pc' \in Closing \cup {"poll"}
  BY CloseType, EndingNamesType DEF Reboot, PollInternet, Goto
<1>4. /\ StartRun => pc' \in {"probe", "insert"}
      /\ Probe => pc' = "insert"
      /\ InsertRun => pc' \in {"confirm", "decide", "idle"}
      /\ Confirm => pc' \in {"confirm", "clear", "decide"}
      /\ Clear => pc' = "decide"
  BY DEF StartRun, Probe, InsertRun, Confirm, Clear, Goto
<1>5. /\ MarkAction => pc' = "initiate"
      /\ Initiate => pc' = "request"
      /\ StampReboot => pc' = "poll"
      /\ PollGateway => pc' = "recheck"
      /\ ShouldAnnounce => pc' \in {"say", "settle"}
      /\ Say => pc' = "settle"
      /\ Settle \/ Crash => pc' = "idle"
  BY DEF MarkAction, Initiate, StampReboot, PollGateway, ShouldAnnounce, Say, Settle,
         Crash, Goto
<1> QED BY <1>1, <1>2, <1>3, <1>4, <1>5

\* ... and, the other way round, which one leads to this.
LEMMA ComesFrom ==
    ASSUME [Next]_vars, ~UNCHANGED vars
    PROVE  /\ pc' \in {"probe", "insert"} => StartRun \/ Probe
           /\ pc' \in {"confirm", "clear", "decide"} => InsertRun \/ Confirm \/ Clear
           /\ pc' = "streak" => Decide
           /\ pc' = "cooldown" => OutageSustained
           /\ pc' = "mark" => Decide \/ Cooldown
           /\ pc' = "initiate" => MarkAction
           /\ pc' = "request" => Initiate
           /\ pc' = "stamp" => Reboot
           /\ pc' = "poll" => StampReboot \/ PollInternet
           /\ pc' = "recheck" => PollGateway
           /\ pc' \in Closing => \/ Decide \/ OutageSustained \/ Cooldown \/ Reboot
                                 \/ PollInternet \/ ShouldAnnounce \/ Say
           /\ pc' = "idle" => InsertRun \/ Settle \/ Crash
<1>1. StartRun \/ Step \/ Crash
  BY DEF Next, Finished
<1> QED BY <1>1, GoesTo DEF Step, Closing

\* An update that the store took is the row.
LEMMA WorkingUpdate ==
    ASSUME Inv, pc \in Seated, NEW row \in Rows, UpdateRun(row)
    PROVE  /\ run \in 1..Len(runs) /\ Len(runs') = Len(runs)
           /\ \A i \in 1..Len(runs) : i # run => runs'[i] = runs[i]
           /\ runs'[run] \in {row, runs[run]}
           /\ faults' = 0 => faults = 0 /\ runs'[run] = row
<1>1. run \in 1..Len(runs) /\ runs \in Seq(Rows) /\ faults \in Nat
  BY SeatedRow DEF Inv, TypeOK
<1>2. /\ runs' \in Seq(Rows) /\ Len(runs') = Len(runs)
      /\ \A i \in 1..Len(runs) : i # run => runs'[i] = runs[i]
      /\ runs'[run] \in {row, runs[run]}
  BY <1>1, UpdateRunType
<1>3. faults' = 0 => faults = 0 /\ runs'[run] = row
  BY <1>1 DEF UpdateRun, StoreWorks, StoreFails
<1> QED BY <1>1, <1>2, <1>3

\* The columns a reader of the row takes its story from.
SameStory(r, q) ==
    /\ q.rebootStartedAt = r.rebootStartedAt /\ q.routerDownAt = r.routerDownAt
    /\ q.routerUpAt = r.routerUpAt /\ q.restoredAt = r.restoredAt
    /\ q.finishedAt = r.finishedAt /\ q.outcome = r.outcome

\* Three calls write them, and only in the row of their run.
LEMMA StoryKept ==
    ASSUME Inv, [Next]_vars, NEW i \in 1..Len(runs),
           i # run \/ pc \notin {"stamp", "poll", "settle"}
    PROVE  SameStory(runs[i], runs'[i])
<1>1. CASE runs' = runs
  BY <1>1 DEF SameStory
<1>2. CASE i # run
  BY <1>2, StepFrame DEF Frame, SameStory
<1>3. CASE runs' # runs /\ i = run
  <2>1. InsertRun \/ Clear \/ MarkAction
    BY <1>3 DEF Next, Step, StartRun, Probe, Confirm, Decide, OutageSustained, Cooldown,
       Initiate, Reboot, StampReboot, PollGateway, PollInternet, ShouldAnnounce, Say,
       Settle, Crash, Finished, store, vars
  <2>2. CASE InsertRun
    <3>1. runs' = Append(runs, NewRow(mode, InternetOK))
      BY <1>3, <2>2 DEF InsertRun
    <3>2. runs'[i] = runs[i]
      BY <3>1 DEF Inv, TypeOK
    <3> QED BY <3>2 DEF SameStory
  <2>3. CASE Clear
    <3> DEFINE row == [runs[run] EXCEPT !.internetOK = "true"]
    <3>1. pc \in Seated /\ runs[run] \in Rows /\ UpdateRun(row)
      BY <2>3, SeatedRow DEF Clear, Seated
    <3>2. row \in Rows
      BY <3>1, RowType
    <3>3. SameStory(runs[run], row) /\ SameStory(runs[run], runs[run])
      BY <3>1 DEF SameStory, Rows
    <3> HIDE DEF row
    <3> QED BY <1>3, <3>1, <3>2, <3>3, WorkingUpdate
  <2>4. CASE MarkAction
    <3> DEFINE row == [runs[run] EXCEPT !.action = "reboot"]
    <3>1. pc \in Seated /\ runs[run] \in Rows /\ UpdateRun(row)
      BY <2>4, SeatedRow DEF MarkAction, Seated, Acting
    <3>2. row \in Rows
      BY <3>1, RowType
    <3>3. SameStory(runs[run], row) /\ SameStory(runs[run], runs[run])
      BY <3>1 DEF SameStory, Rows
    <3> HIDE DEF row
    <3> QED BY <1>3, <3>1, <3>2, <3>3, WorkingUpdate
  <2> QED BY <2>1, <2>2, <2>3, <2>4
<1> QED BY <1>1, <1>2, <1>3

\* What each of the three leaves in the row.
LEMMA StampStory ==
    ASSUME Inv, StampReboot
    PROVE  LET r == runs[run]
               q == runs'[run]
           IN  /\ q.routerDownAt = r.routerDownAt /\ q.routerUpAt = r.routerUpAt
               /\ q.restoredAt = r.restoredAt /\ q.finishedAt = r.finishedAt
               /\ q.outcome = r.outcome /\ q.rebootStartedAt \in {r.rebootStartedAt, now}
               /\ faults' = 0 => faults = 0 /\ q.rebootStartedAt = now
<1> DEFINE row == [runs[run] EXCEPT !.rebootStartedAt = now]
<1>1. pc \in Seated /\ runs[run] \in Rows /\ now \in Nat /\ UpdateRun(row)
  BY SeatedRow DEF StampReboot, Seated, Recovering
<1>2. row \in Rows
  BY <1>1, RowType
<1>3. /\ row.rebootStartedAt = now /\ row.routerDownAt = runs[run].routerDownAt
      /\ row.routerUpAt = runs[run].routerUpAt /\ row.restoredAt = runs[run].restoredAt
      /\ row.finishedAt = runs[run].finishedAt /\ row.outcome = runs[run].outcome
  BY <1>1 DEF Rows
<1> HIDE DEF row
<1> QED BY <1>1, <1>2, <1>3, WorkingUpdate

LEMMA PollStory ==
    ASSUME Inv, PollGateway
    PROVE  LET r == runs[run]
               q == runs'[run]
           IN  /\ q.rebootStartedAt = r.rebootStartedAt /\ q.restoredAt = r.restoredAt
               /\ q.finishedAt = r.finishedAt /\ q.outcome = r.outcome
               /\ \/ q.routerDownAt = r.routerDownAt /\ q.routerUpAt = r.routerUpAt
                  \/ q.routerDownAt = now' /\ q.routerUpAt = r.routerUpAt
                  \/ ~alive /\ q.routerDownAt = r.routerDownAt /\ q.routerUpAt = now'
               /\ faults' = 0 => /\ faults = 0
                                 /\ ~alive' /\ alive => q.routerDownAt = now'
                                 /\ ~alive' /\ ~alive => q.routerDownAt = r.routerDownAt
<1> DEFINE down == [runs[run] EXCEPT !.routerDownAt = now']
           up == [runs[run] EXCEPT !.routerUpAt = now']
<1>1. pc \in Seated /\ runs[run] \in Rows /\ now' \in Nat /\ faults \in Nat
  BY SeatedRow DEF PollGateway, Seated, Recovering, Inv, TypeOK
<1>2. down \in Rows /\ up \in Rows
  BY <1>1, RowType
<1>3. /\ down.rebootStartedAt = runs[run].rebootStartedAt /\ down.routerDownAt = now'
      /\ down.routerUpAt = runs[run].routerUpAt /\ down.restoredAt = runs[run].restoredAt
      /\ down.finishedAt = runs[run].finishedAt /\ down.outcome = runs[run].outcome
  BY <1>1 DEF Rows
<1>4. /\ up.rebootStartedAt = runs[run].rebootStartedAt /\ up.routerUpAt = now'
      /\ up.routerDownAt = runs[run].routerDownAt /\ up.restoredAt = runs[run].restoredAt
      /\ up.finishedAt = runs[run].finishedAt /\ up.outcome = runs[run].outcome
  BY <1>1 DEF Rows
<1>5. PICK ok \in BOOLEAN : HandleGatewayTransition(ok)
  BY DEF PollGateway
<1>6. alive' = ok
  BY <1>5 DEF HandleGatewayTransition
<1>7. CASE alive /\ ~ok /\ UpdateRun(down)
  <2> HIDE DEF down, up
  <2> QED BY <1>1, <1>2, <1>3, <1>6, <1>7, WorkingUpdate
<1>8. CASE ~alive /\ ok /\ UpdateRun(up)
  <2> HIDE DEF down, up
  <2> QED BY <1>1, <1>2, <1>4, <1>6, <1>8, WorkingUpdate
<1>9. CASE alive = ok /\ StoreWorks /\ UNCHANGED runs
  BY <1>6, <1>9 DEF StoreWorks
<1> QED BY <1>5, <1>7, <1>8, <1>9 DEF HandleGatewayTransition

LEMMA SettleStory ==
    ASSUME Inv, Settle
    PROVE  LET r == runs[run]
               q == runs'[run]
           IN  /\ q.rebootStartedAt = r.rebootStartedAt /\ q.routerDownAt = r.routerDownAt
               /\ q.routerUpAt = r.routerUpAt
               /\ \/ /\ q.restoredAt = r.restoredAt /\ q.finishedAt = r.finishedAt
                     /\ q.outcome = r.outcome /\ q.action = r.action
                     /\ faults' # 0
                  \/ /\ q.restoredAt = IF ending = "completed" THEN now ELSE r.restoredAt
                     /\ q.finishedAt = now /\ q.outcome = Endings[ending].outcome
                     /\ q.action = IF Endings[ending].action = "keep" THEN r.action
                                   ELSE Endings[ending].action
               /\ faults' = 0 => faults = 0
<1>1. pc \in Seated /\ runs[run] \in Rows
  BY SeatedRow DEF Settle, Seated, Closing
<1> QED BY <1>1, SettleWrites, WorkingUpdate

\* A row that was not there is the one that was inserted.
LEMMA RowAdded ==
    ASSUME Inv, [Next]_vars, NEW i \in 1..Len(runs'), i \notin 1..Len(runs)
    PROVE  /\ InsertRun /\ i = Len(runs) + 1 /\ run' = i /\ pc' # "idle"
           /\ runs'[i] = NewRow(mode, InternetOK) /\ samples'[i] = seen
<1>1. runs' # runs /\ Len(runs') # Len(runs)
  OBVIOUS
<1>2. ASSUME NEW row, UpdateRun(row) PROVE FALSE
  BY <1>1, <1>2 DEF UpdateRun, Inv, TypeOK
<1>3. ~(Clear \/ MarkAction \/ StampReboot \/ PollGateway \/ Settle)
  BY <1>1, <1>2 DEF Clear, MarkAction, StampReboot, PollGateway, Settle,
     HandleGatewayTransition
<1>4. InsertRun
  BY <1>1, <1>3 DEF Next, Step, StartRun, Probe, Confirm, Decide, OutageSustained,
     Cooldown, Initiate, Reboot, PollInternet, ShouldAnnounce, Say, Crash, Finished,
     store, vars
<1>5. /\ runs' = Append(runs, NewRow(mode, InternetOK))
      /\ samples' = Append(samples, seen) /\ run' = NextRow /\ pc' # "idle"
  BY <1>1, <1>4 DEF InsertRun, Goto
<1>6. NewRow(mode, InternetOK) \in Rows
  BY NewRowType DEF Inv, TypeOK, InternetOK
<1> QED BY <1>4, <1>5, <1>6 DEF Inv, TypeOK, NextRow

(***************************************************************************)
(* The recovery timeline.                                                  *)
(***************************************************************************)
Performed(r, at) == \E k \in DOMAIN reboots : reboots[k] = [run |-> r, at |-> at]

\* What RecoveryTimeline says of one row.
Story(row) ==
    /\ row.routerDownAt # None =>
          row.rebootStartedAt # None /\ row.routerDownAt > row.rebootStartedAt
    /\ row.routerUpAt # None => row.routerDownAt # None
    /\ row.restoredAt # None =>
          /\ row.restoredAt > row.rebootStartedAt
          /\ row.restoredAt = row.finishedAt /\ row.outcome = "ok"
          /\ row.routerDownAt <= row.restoredAt
          /\ row.routerUpAt <= row.restoredAt

StampsPerformed ==
    \A r \in 1..Len(runs) : runs[r].rebootStartedAt # None =>
       Performed(r, runs[r].rebootStartedAt)

Stories == \A r \in 1..Len(runs) : Story(runs[r])

LEMMA TimelineParts == Inv => (RecoveryTimeline <=> StampsPerformed /\ Stories)
<1>1. Inv => DOMAIN runs = 1..Len(runs)
  BY DEF Inv, TypeOK
<1>2. RecoveryTimeline <=>
         \A r \in DOMAIN runs : /\ runs[r].rebootStartedAt # None =>
                                       Performed(r, runs[r].rebootStartedAt)
                                /\ Story(runs[r])
  BY DEF RecoveryTimeline, Story, Performed
<1> QED BY <1>1, <1>2 DEF StampsPerformed, Stories

\* Before the reboot there is nothing to tell, and the gateway was there.
Before == {"stamp"} \cup Undecided

Blank ==
    /\ pc \in {"probe", "insert"} \cup Before => alive
    /\ pc \in Before => /\ runs[run].rebootStartedAt = None
                        /\ runs[run].routerDownAt = None /\ runs[run].routerUpAt = None
    /\ pc \in Seated => runs[run].restoredAt = None
    /\ pc = "stamp" => Performed(run, now)

\* After it, what is told lies between the stamp and now.
Waiting == pc \in {"poll", "recheck"} \/ (pc \in Closing /\ ending = "completed")

Underway ==
    Waiting =>
       LET row == runs[run]
       IN  /\ row.rebootStartedAt # None /\ row.rebootStartedAt <= now
           /\ row.routerDownAt <= now /\ row.routerUpAt <= now
           /\ pc # "poll" => row.rebootStartedAt < now
           /\ pc \in {"poll", "recheck"} /\ ~alive => row.routerDownAt # None

TimelineInv == Blank /\ StampsPerformed /\ (faults = 0 => Underway /\ Stories)

\* A run that has a row after a step had it before, unless it was inserted.
LEMMA SeatedStory ==
    ASSUME Inv, [Next]_vars, pc' \in Seated
    PROVE  \/ /\ pc \in Seated /\ run' = run /\ run \in 1..Len(runs)
              /\ pc \notin {"stamp", "poll"} => SameStory(runs[run], runs'[run])
           \/ /\ pc = "insert" /\ run' = Len(runs) + 1
              /\ runs'[run'].rebootStartedAt = None /\ runs'[run'].restoredAt = None
              /\ runs'[run'].routerDownAt = None /\ runs'[run'].routerUpAt = None
<1>1. CASE pc \in Seated /\ run' = run
  <2>1. run \in 1..Len(runs)
    BY <1>1, SeatedRow
  <2>2. pc = "settle" => UNCHANGED runs
    <3>1. pc = "settle" => pc # "insert"
      OBVIOUS
    <3> QED BY <3>1, SeatedAfter
  <2>3. pc \notin {"stamp", "poll"} => SameStory(runs[run], runs'[run])
    BY <2>1, <2>2, StoryKept DEF SameStory
  <2> QED BY <1>1, <2>1, <2>3
<1>2. CASE pc = "insert" /\ run' = Len(runs) + 1 /\ Len(runs') = Len(runs) + 1
  <2>1. InsertRun
    BY <1>2 DEF Next, Step, vars, StartRun, Probe, Confirm, Clear, Decide, OutageSustained,
       Cooldown, MarkAction, Initiate, Reboot, StampReboot, PollGateway, PollInternet,
       ShouldAnnounce, Say, Settle, Crash, Finished, Goto,
       Seated, Guarding, Acting, Recovering, Closing
  <2>2. runs' = Append(runs, NewRow(mode, InternetOK))
    BY <1>2, <2>1 DEF InsertRun
  <2>3. runs'[Len(runs) + 1] = NewRow(mode, InternetOK)
    BY <2>2 DEF Inv, TypeOK
  <2> QED BY <1>2, <2>3 DEF NewRow
<1> QED BY <1>1, <1>2, SeatedAfter

LEMMA RebootsStay ==
    ASSUME Inv, [Next]_vars, NEW r, NEW at, Performed(r, at)
    PROVE  Performed(r, at)'
<1>1. Frame /\ reboots \in Seq([run : 1..Len(runs), at : Nat])
  BY StepFrame DEF Inv, TypeOK
<1>2. PICK k \in DOMAIN reboots : reboots[k] = [run |-> r, at |-> at]
  BY DEF Performed
<1>3. CASE pc = "request" /\ reboots' = Append(reboots, [run |-> run, at |-> now])
  <2>1. k \in DOMAIN reboots' /\ reboots'[k] = reboots[k]
    BY <1>1, <1>2, <1>3
  <2> QED BY <1>2, <2>1 DEF Performed
<1> QED BY <1>1, <1>2, <1>3 DEF Frame, Performed

LEMMA BlankNext == Inv /\ Blank /\ [Next]_vars => Blank'
<1> SUFFICES ASSUME Inv, Blank, [Next]_vars PROVE Blank'
  OBVIOUS
<1>1. CASE UNCHANGED vars
  BY <1>1 DEF vars, Blank, Performed
<1>2. CASE ~UNCHANGED vars
  <2>1. pc' \in {"probe", "insert"} \cup Before => alive'
    <3>1. CASE StartRun
      BY <3>1 DEF StartRun
    <3>2. ASSUME ~StartRun, pc' \in {"probe", "insert"} \cup Before
          PROVE  alive' = alive /\ pc \in {"probe", "insert"} \cup Before
      BY <1>2, <3>2, ComesFrom DEF Before, Undecided, Guarding, Acting, Probe, InsertRun,
         Confirm, Clear, Decide, OutageSustained, Cooldown, MarkAction, Initiate, Reboot
    <3> QED BY <3>1, <3>2 DEF Blank
  <2>2. ASSUME pc' \in Before
        PROVE  /\ runs'[run'].rebootStartedAt = None
               /\ runs'[run'].routerDownAt = None /\ runs'[run'].routerUpAt = None
    <3>1. pc \in {"insert"} \cup Undecided /\ pc' \in Seated
      BY <1>2, <2>2, ComesFrom DEF Before, Undecided, Guarding, Acting, Recovering, Seated,
         InsertRun, Confirm, Clear, Decide, OutageSustained, Cooldown, MarkAction,
         Initiate, Reboot
    <3>2. CASE pc \in Undecided
      <4>1. pc \notin {"stamp", "poll", "insert"} /\ pc \in Before
        BY <3>2 DEF Before, Undecided, Guarding, Acting
      <4> QED BY <3>1, <4>1, SeatedStory DEF Blank, SameStory
    <3>3. CASE pc = "insert"
      <4>1. pc \notin Seated
        BY <3>3 DEF Seated, Guarding, Acting, Recovering, Closing
      <4> QED BY <3>1, <4>1, SeatedStory
    <3> QED BY <3>1, <3>2, <3>3
  <2>3. pc' \in Seated => runs'[run'].restoredAt = None
    <3> SUFFICES ASSUME pc' \in Seated PROVE runs'[run'].restoredAt = None
      OBVIOUS
    <3>1. CASE pc \notin {"stamp", "poll"}
      BY <3>1, SeatedStory DEF Blank, SameStory
    <3>2. CASE pc = "stamp" \/ pc = "poll"
      <4>1. StampReboot \/ PollGateway
        BY <1>2, <3>2 DEF Next, Step, StartRun, Probe, InsertRun, Confirm, Clear, Decide,
           OutageSustained, Cooldown, MarkAction, Initiate, Reboot, PollInternet,
           ShouldAnnounce, Say, Settle, Crash, Finished, Goto,
           Seated, Guarding, Acting, Recovering, Closing
      <4>2. run' = run /\ pc \in Seated
        BY <4>1 DEF StampReboot, PollGateway, Seated, Recovering
      <4> QED BY <4>1, <4>2, StampStory, PollStory DEF Blank
    <3> QED BY <3>1, <3>2
  <2>4. pc' = "stamp" => Performed(run, now)'
    <3> SUFFICES ASSUME pc' = "stamp" PROVE Performed(run, now)'
      OBVIOUS
    <3>1. /\ reboots' = Append(reboots, [run |-> run, at |-> now])
          /\ run' = run /\ now' = now
      BY <1>2, ComesFrom, CloseType, EndingNamesType DEF Reboot, Goto, Closing
    <3>2. /\ reboots'[Len(reboots) + 1] = [run |-> run, at |-> now]
          /\ Len(reboots) + 1 \in DOMAIN reboots'
      BY <3>1 DEF Inv, TypeOK
    <3> QED BY <3>1, <3>2 DEF Performed
  <2> QED BY <2>1, <2>2, <2>3, <2>4 DEF Blank
<1> QED BY <1>1, <1>2

LEMMA StampsPerformedNext ==
    Inv /\ Blank /\ StampsPerformed /\ [Next]_vars => StampsPerformed'
<1> SUFFICES ASSUME Inv, Blank, StampsPerformed, [Next]_vars,
                    NEW r \in 1..Len(runs'), runs'[r].rebootStartedAt # None
             PROVE  \E k \in DOMAIN reboots' :
                       reboots'[k] = [run |-> r, at |-> runs'[r].rebootStartedAt]
  BY DEF StampsPerformed, Performed
<1>1. r \in 1..Len(runs)
  BY RowAdded DEF NewRow
<1>2. \/ runs'[r].rebootStartedAt = runs[r].rebootStartedAt
      \/ pc = "stamp" /\ r = run /\ runs'[r].rebootStartedAt = now
  BY <1>1, StepFrame DEF Frame, RowKeeps
<1>3. PICK at : at = runs'[r].rebootStartedAt
  OBVIOUS
<1>4. Performed(r, at)
  BY <1>1, <1>2, <1>3 DEF Blank, StampsPerformed
<1>5. Performed(r, at)'
  BY <1>4, RebootsStay
<1> QED BY <1>3, <1>5 DEF Performed

LEMMA UnderwayNext ==
    ASSUME Inv, Blank, Underway, [Next]_vars, faults' = 0
    PROVE  Underway'
<1>1. CASE UNCHANGED vars
  BY <1>1 DEF vars, Underway, Waiting
<1>2. CASE ~UNCHANGED vars
  <2> SUFFICES ASSUME Waiting'
               PROVE  /\ runs'[run'].rebootStartedAt # None
                      /\ runs'[run'].rebootStartedAt <= now'
                      /\ runs'[run'].routerDownAt <= now' /\ runs'[run'].routerUpAt <= now'
                      /\ pc' # "poll" => runs'[run'].rebootStartedAt < now'
                      /\ pc' \in {"poll", "recheck"} /\ ~alive'
                            => runs'[run'].routerDownAt # None
    BY DEF Underway
  <2>1. now \in Nat
    BY DEF Inv, TypeOK
  <2>2. CASE StampReboot
    <3>1. pc = "stamp" /\ pc' = "poll" /\ UNCHANGED <<run, now, alive>>
      BY <2>2 DEF StampReboot, Goto
    <3>2. alive /\ runs[run].routerDownAt = None /\ runs[run].routerUpAt = None
      BY <3>1 DEF Blank, Before
    <3> QED BY <2>1, <2>2, <3>1, <3>2, StampStory DEF None
  <2>3. CASE PollGateway
    <3>1. pc = "poll" /\ run' = run /\ now' = now + 1 /\ pc' = "recheck"
      BY <2>3 DEF PollGateway, Goto
    <3>2. run \in 1..Len(runs) /\ runs[run] \in Rows
      BY <3>1, SeatedRow DEF Seated, Recovering
    <3>3. /\ runs[run].rebootStartedAt \in Timestamps /\ runs[run].routerDownAt \in Timestamps
          /\ runs[run].routerUpAt \in Timestamps
      BY <3>2 DEF Rows
    <3>4. /\ runs[run].rebootStartedAt # None /\ runs[run].rebootStartedAt <= now
          /\ runs[run].routerDownAt <= now /\ runs[run].routerUpAt <= now
          /\ ~alive => runs[run].routerDownAt # None
      BY <3>1 DEF Underway, Waiting
    <3>5. alive' \in BOOLEAN /\ alive \in BOOLEAN
      BY <2>3, PollGatewayInv DEF Inv, TypeOK
    <3> QED BY <2>1, <2>3, <3>1, <3>3, <3>4, <3>5, PollStory DEF None, Timestamps
  <2>4. CASE PollInternet \/ ShouldAnnounce \/ Say
    <3>1. /\ UNCHANGED <<runs, run, now, alive>> /\ Waiting /\ pc # "poll"
          /\ pc' \in {"poll", "recheck"} => pc = "recheck"
      BY <2>4, CloseType, EndingNamesType DEF PollInternet, ShouldAnnounce, Say, Goto,
         store, Waiting, Closing
    <3> QED BY <2>4, <3>1 DEF Underway
  <2>5. StampReboot \/ PollGateway \/ PollInternet \/ ShouldAnnounce \/ Say
    <3>1. CASE pc' \in {"poll", "recheck"}
      BY <1>2, <3>1, ComesFrom
    <3>2. CASE pc' \in Closing /\ ending' = "completed"
      <4>1. Decide => ending' # "completed"
        BY <3>2, CloseType, EndingNamesType DEF Decide, DecideHard, DecideSoft, Goto
      <4>2. OutageSustained \/ Cooldown \/ Reboot => ending' # "completed"
        BY <3>2, CloseType, EndingNamesType DEF OutageSustained, Cooldown, Reboot, Goto,
           Closing
      <4> QED BY <1>2, <3>2, <4>1, <4>2, ComesFrom
    <3> QED BY <3>1, <3>2 DEF Waiting
  <2> QED BY <2>2, <2>3, <2>4, <2>5
<1> QED BY <1>1, <1>2

LEMMA StoriesNext ==
    ASSUME Inv, Blank, Underway, Stories, [Next]_vars, faults' = 0
    PROVE  Stories'
<1> SUFFICES ASSUME NEW r \in 1..Len(runs') PROVE Story(runs'[r])
  BY DEF Stories, Story
<1>1. CASE r \notin 1..Len(runs)
  BY <1>1, RowAdded DEF Story, NewRow
<1>2. CASE r \in 1..Len(runs) /\ SameStory(runs[r], runs'[r])
  BY <1>2 DEF Stories, Story, SameStory
<1>3. CASE r \in 1..Len(runs) /\ ~SameStory(runs[r], runs'[r])
  <2>1. r = run /\ pc \in {"stamp", "poll", "settle"}
    BY <1>3, StoryKept
  <2>2. runs[run] \in Rows /\ now \in Nat /\ Story(runs[run])
    BY <1>3, <2>1, SeatedRow DEF Stories, Seated, Recovering, Closing
  <2>3. /\ runs[run].rebootStartedAt \in Timestamps /\ runs[run].routerDownAt \in Timestamps
        /\ runs[run].routerUpAt \in Timestamps
    BY <2>2 DEF Rows
  <2>4. runs' # runs
    BY <1>3 DEF SameStory
  <2>5. StampReboot \/ PollGateway \/ Settle
    BY <2>1, <2>4 DEF Next, Step, StartRun, Probe, InsertRun, Confirm, Clear, Decide,
       OutageSustained, Cooldown, MarkAction, Initiate, Reboot, PollInternet,
       ShouldAnnounce, Say, Crash, Finished, vars, store
  <2>6. runs[run].restoredAt = None
    BY <2>1 DEF Blank, Seated, Recovering, Closing
  <2>7. CASE StampReboot
    <3>1. runs[run].routerDownAt = None /\ runs[run].routerUpAt = None
      BY <2>7 DEF Blank, Before, StampReboot
    <3> QED BY <2>1, <2>6, <2>7, <3>1, StampStory DEF Story
  <2>8. CASE PollGateway
    <3>1. /\ runs[run].rebootStartedAt # None /\ runs[run].rebootStartedAt <= now
          /\ ~alive => runs[run].routerDownAt # None /\ now' = now + 1
      BY <2>8 DEF Underway, Waiting, PollGateway
    <3>2. now' = now + 1
      BY <2>8 DEF PollGateway
    <3> QED BY <2>1, <2>2, <2>3, <2>6, <2>8, <3>1, <3>2, PollStory DEF Story, None, Timestamps
  <2>9. CASE Settle
    <3>1. pc \in Closing /\ Endings["completed"].outcome = "ok"
      BY <2>9 DEF Settle, Closing, Endings, Ending
    <3>2. CASE ending = "completed"
      <4>1. /\ runs[run].rebootStartedAt < now /\ runs[run].routerDownAt <= now
            /\ runs[run].routerUpAt <= now
        BY <2>9, <3>1, <3>2 DEF Underway, Waiting, Settle
      <4> QED BY <2>1, <2>2, <2>6, <2>9, <3>1, <3>2, <4>1, SettleStory DEF Story
    <3>3. CASE ending # "completed"
      BY <2>1, <2>2, <2>6, <2>9, <3>3, SettleStory DEF Story
    <3> QED BY <3>2, <3>3
  <2> QED BY <2>5, <2>7, <2>8, <2>9
<1> QED BY <1>1, <1>2, <1>3

LEMMA TimelineNext == Inv /\ TimelineInv /\ [Next]_vars => TimelineInv'
<1> SUFFICES ASSUME Inv, TimelineInv, [Next]_vars PROVE TimelineInv'
  OBVIOUS
<1>1. faults' = 0 => faults = 0
  BY OutboxGrows
<1> QED BY <1>1, BlankNext, StampsPerformedNext, UnderwayNext, StoriesNext DEF TimelineInv

LEMMA TimelineAlways == Spec => []TimelineInv
<1>1. Init => TimelineInv
  BY DEF Init, TimelineInv, Blank, Before, Undecided, Guarding, Acting, Recovering, Seated,
     Closing, StampsPerformed, Stories, Underway, Waiting
<1> QED BY <1>1, TimelineNext, InvAlways, PTL DEF Spec

\* No fault of the store yet: the timestamps of every row tell a possible story
\* (rebootSequence, recoveryLoop, handleGatewayTransition,
\* finishRecoverySuccess).
THEOREM RecoveryTimelineHolds == Spec => [](faults = 0 => RecoveryTimeline)
<1>1. Inv /\ TimelineInv => (faults = 0 => RecoveryTimeline)
  BY TimelineParts DEF TimelineInv
<1> QED BY <1>1, InvAlways, TimelineAlways, PTL

(***************************************************************************)
(* The exit code.  Each ending has its reasons when a run takes it, and    *)
(* nothing that happens before the next run takes them away.               *)
(***************************************************************************)
LeftAlone == mode = "soft" /\ ~RebootedThisRun
Trouble == \E i \in DOMAIN seen : seen[i] # "up"

Justified(e) ==
    /\ e \in {"ok", "unconfirmed"} => LeftAlone /\ ~IsDown(Result)
    /\ e \in {"unsustained", "degraded", "skipped", "unknown"} => LeftAlone /\ Trouble
    /\ e = "disabled" => ~enabled /\ ~RebootedThisRun
    /\ e = "failed" => /\ mode = "hard" \/ IsDown(Result)
                       /\ runs[run].rebootStartedAt = None
    /\ e = "completed" => RebootedThisRun /\ recovery \ {"down"} # {}
    /\ e = "timeout" => /\ RebootedThisRun /\ recovery = {"down"}
                        /\ waited >= RecoveryTimeout

Reasoned ==
    /\ pc # "idle" => exit = None
    /\ pc \in {"probe", "insert"} => run = 0
    /\ pc \in Recovering => RebootedThisRun
    /\ pc \notin Closing \cup {"idle"} => recovery \subseteq {"down"}
    /\ pc \in Closing => Justified(ending)
    /\ ExitCodeTruthful

\* A confirmed outage is trouble, and its last probe was down.
LEMMA ConfirmedIsTrouble ==
    ASSUME TypeOK, Confirmed(seen)
    PROVE  Trouble /\ IsDown(Result)
<1>1. Len(seen) \in DOMAIN seen
  BY SettingsAssumption DEF TypeOK, Confirmed
<1> QED BY <1>1 DEF Confirmed, AllDown, Trouble, Result, IsDown

\* The reasons for closing, where a run decides to.
LEMMA ClosesJustified ==
    ASSUME Inv, Knows, Blank, Reasoned, pc' \in Closing,
           Decide \/ OutageSustained \/ Cooldown \/ Reboot \/ PollInternet
    PROVE  Justified(ending)'
<1>1. UNCHANGED <<runs, run, seen, mode, enabled, waited>>
  BY DEF Decide, OutageSustained, Cooldown, Reboot, PollInternet, store, setting
<1>2. TypeOK
  BY DEF Inv
<1>3. pc \in Undecided => ~RebootedThisRun
  BY DEF Knows, NotYet, RebootedThisRun
<1>4. CASE Decide
  <2>1. ~RebootedThisRun /\ UNCHANGED <<reboots, recovery>>
    BY <1>3, <1>4 DEF Decide, Undecided
  <2>2. mode = "soft" => Len(seen) \in DOMAIN seen
    BY <1>4 DEF Decide, Inv, TypeOK, Control, Seated
  <2>3. \/ ending' = "disabled" /\ ~enabled
        \/ ending' = "degraded" /\ mode = "soft" /\ IsDegraded(Result)
        \/ ending' \in {"ok", "unconfirmed"} /\ mode = "soft" /\ Result = "up"
    BY <1>4, CloseType, EndingNamesType DEF Decide, DecideHard, DecideSoft, Goto, Closing
  <2>4. IsDegraded(Result) /\ mode = "soft" => Trouble
    BY <2>2 DEF Trouble, Result, IsDegraded
  <2>5. Result = "up" => ~IsDown(Result)
    BY DEF IsDown
  <2> QED BY <1>1, <2>1, <2>3, <2>4, <2>5
          DEF Justified, LeftAlone, Trouble, RebootedThisRun, Result
<1>5. CASE OutageSustained \/ Cooldown
  <2>1. pc \in Guarding /\ ~RebootedThisRun /\ UNCHANGED <<reboots, recovery>>
    BY <1>3, <1>5 DEF OutageSustained, Cooldown, Undecided, Guarding
  <2>2. mode = "soft" /\ Trouble
    BY <1>2, <2>1, ConfirmedIsTrouble DEF Knows, Inv, Control
  <2>3. ending' \in {"unsustained", "skipped", "unknown"}
    BY <1>5, CloseType, EndingNamesType DEF OutageSustained, Cooldown, Goto, Closing
  <2> QED BY <1>1, <2>1, <2>2, <2>3 DEF Justified, LeftAlone, Trouble, RebootedThisRun
<1>6. CASE Reboot
  <2>1. pc = "request" /\ ending' = "failed"
    BY <1>6, CloseType, EndingNamesType DEF Reboot, Goto, Closing
  <2>2. runs[run].rebootStartedAt = None
    BY <2>1 DEF Blank, Before, Undecided, Acting
  <2>3. mode = "hard" \/ IsDown(Result)
    BY <1>2, <2>1, ConfirmedIsTrouble DEF Knows, Acting, TypeOK
  <2> QED BY <1>1, <2>1, <2>2, <2>3 DEF Justified, Result
<1>7. CASE PollInternet
  <2>1. /\ pc = "recheck" /\ reboots' = reboots
        /\ RebootedThisRun /\ recovery \subseteq {"down"}
    BY <1>7 DEF PollInternet, Reasoned, Recovering, Closing
  <2>2. PICK v \in Verdicts :
           /\ recovery' = recovery \cup {v}
           /\ \/ ending' = "completed" /\ ~IsDown(v)
              \/ ending' = "timeout" /\ IsDown(v) /\ waited >= RecoveryTimeout
    BY <1>7, CloseType, EndingNamesType DEF PollInternet, Recovered, Goto, Closing
  <2>3. ~IsDown(v) => recovery' \ {"down"} # {}
    BY <2>2 DEF IsDown
  <2>4. IsDown(v) => recovery' = {"down"}
    BY <2>1, <2>2 DEF IsDown
  <2> QED BY <1>1, <2>1, <2>2, <2>3, <2>4 DEF Justified, RebootedThisRun
<1> QED BY <1>4, <1>5, <1>6, <1>7

\* The code an ending leaves says what its reasons are.
LEMMA SettleTruthful ==
    ASSUME Inv, Reasoned, Settle
    PROVE  ExitCodeTruthful'
<1>1. /\ Justified(ending) /\ ending \in EndingNames /\ exit' = Endings[ending].code
      /\ UNCHANGED <<run, seen, mode, enabled, waited, reboots, recovery>>
  BY DEF Settle, setting, Reasoned, Inv, Control, Closing
<1>2. runs'[run].rebootStartedAt = runs[run].rebootStartedAt
  BY SettleStory
<1>3. RebootedThisRun' = RebootedThisRun /\ Result' = Result
  BY <1>1 DEF RebootedThisRun, Result
<1>4. /\ exit' = 0 => ending \in {"ok", "unconfirmed", "disabled", "completed"}
      /\ exit' # 1
      /\ exit' = 3 => ending = "failed"
      /\ exit' = 4 => ending = "timeout"
      /\ exit' \in {5, 6} => ending \in {"unsustained", "degraded", "skipped", "unknown"}
  BY <1>1, EndingNamesType DEF Endings, Ending
<1> QED BY <1>1, <1>2, <1>3, <1>4
        DEF ExitCodeTruthful, Justified, LeftAlone, Trouble

LEMMA ReasonedNext == Inv /\ Knows /\ Blank /\ Reasoned /\ [Next]_vars => Reasoned'
<1> SUFFICES ASSUME Inv, Knows, Blank, Reasoned, [Next]_vars PROVE Reasoned'
  OBVIOUS
<1>1. CASE UNCHANGED vars
  BY <1>1 DEF vars, Reasoned, Justified, LeftAlone, Trouble, RebootedThisRun, Result,
     ExitCodeTruthful
<1>2. CASE ~UNCHANGED vars
  <2>1. pc' # "idle" => exit' = None
    <3>1. CASE StartRun
      BY <3>1 DEF StartRun
    <3>2. ASSUME ~StartRun, pc' # "idle" PROVE exit' = exit /\ pc # "idle"
      BY <1>2, <3>2 DEF Next, Step, Probe, InsertRun, Confirm, Clear, Decide,
         OutageSustained, Cooldown, MarkAction, Initiate, Reboot, StampReboot, PollGateway,
         PollInternet, ShouldAnnounce, Say, Settle, Crash, Finished, Goto
    <3> QED BY <3>1, <3>2 DEF Reasoned
  <2>2. pc' \in {"probe", "insert"} => run' = 0
    BY <1>2, ComesFrom DEF StartRun, Probe, Reasoned
  <2>3. pc' \in Recovering => RebootedThisRun'
    <3>1. CASE pc' = "stamp"
      <4>1. Performed(run, now)'
        BY <3>1, BlankNext DEF Blank
      <4>2. run' \in 1..Len(runs')
        BY <3>1, NextInv DEF Inv, Control, Seated, Recovering
      <4> QED BY <4>1, <4>2 DEF Performed, RebootedThisRun
    <3>2. CASE pc' \in {"poll", "recheck"}
      <4>1. pc \in Recovering /\ UNCHANGED <<run, reboots>>
        BY <1>2, <3>2, ComesFrom DEF StampReboot, PollGateway, PollInternet, Recovering
      <4> QED BY <4>1 DEF Reasoned, RebootedThisRun
    <3> QED BY <3>1, <3>2 DEF Recovering
  <2>4. pc' \notin Closing \cup {"idle"} => recovery' \subseteq {"down"}
    <3>1. CASE StartRun
      BY <3>1 DEF StartRun
    <3>2. CASE PollInternet
      BY <3>2, CloseType, EndingNamesType DEF PollInternet, Recovered, IsDown, Reasoned,
         Closing
    <3>3. ASSUME ~StartRun, ~PollInternet, pc' \notin Closing \cup {"idle"}
          PROVE  recovery' = recovery /\ pc \notin Closing \cup {"idle"}
      BY <1>2, <3>3 DEF Next, Step, Probe, InsertRun, Confirm, Clear, Decide,
         OutageSustained, Cooldown, MarkAction, Initiate, Reboot, StampReboot, PollGateway,
         ShouldAnnounce, Say, Settle, Crash, Finished, Goto, Closing
    <3> QED BY <3>1, <3>2, <3>3 DEF Reasoned
  <2>5. pc' \in Closing => Justified(ending)'
    <3>1. CASE ShouldAnnounce \/ Say
      <4>1. /\ UNCHANGED <<runs, run, seen, mode, enabled, waited, reboots, recovery, ending>>
            /\ pc \in Closing
        BY <3>1 DEF ShouldAnnounce, Say, Goto, store, setting, Closing
      <4> QED BY <4>1 DEF Reasoned, Justified, LeftAlone, Trouble, RebootedThisRun, Result
    <3> QED BY <1>2, <3>1, ComesFrom, ClosesJustified
  <2>6. ExitCodeTruthful'
    <3>1. CASE pc' # "idle"
      BY <3>1 DEF ExitCodeTruthful
    <3>2. CASE InsertRun /\ pc' = "idle"
      BY <3>2 DEF InsertRun, Goto, Reasoned, ExitCodeTruthful, NeedsConfirm
    <3>3. CASE Settle
      BY <3>3, SettleTruthful
    <3>4. CASE Crash
      BY <3>4 DEF Crash, Reasoned, ExitCodeTruthful, None
    <3> QED BY <1>2, <3>1, <3>2, <3>3, <3>4, ComesFrom
  <2> QED BY <2>1, <2>2, <2>3, <2>4, <2>5, <2>6 DEF Reasoned
<1> QED BY <1>1, <1>2

\* The exit code tells cron what happened, for every pattern of store faults,
\* crashes and lost answers (the finish functions of services/orchestrator.go).
THEOREM ExitCodeTruthfulHolds == Spec => []ExitCodeTruthful
<1>1. Init => Reasoned
  BY DEF Init, Reasoned, Closing, Recovering, ExitCodeTruthful, None
<1>2. TimelineInv => Blank
  BY DEF TimelineInv
<1>3. Reasoned => ExitCodeTruthful
  BY DEF Reasoned
<1> QED BY <1>1, <1>2, <1>3, ReasonedNext, InvAlways, KnowsAlways, TimelineAlways, PTL
        DEF Spec

============================================================================
