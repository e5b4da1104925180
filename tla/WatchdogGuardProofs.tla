------------------------ MODULE WatchdogGuardProofs ------------------------
(***************************************************************************)
(* What a run concludes from the rows of the runs before it, for every     *)
(* setting and every pattern of store faults, crashes and lost answers:    *)
(* the cooldown, the streak before and after the re-probes, the outages    *)
(* the guards may stop, and which run of an episode tells the operator.    *)
(***************************************************************************)
EXTENDS WatchdogProofs, FiniteSetTheorems

(***************************************************************************)
(* The cooldown.                                                           *)
(***************************************************************************)
\* What the row of a reboot says of it.
Stamped ==
    \A j \in DOMAIN reboots :
       Recorded(j) => runs[reboots[j].run].rebootStartedAt = reboots[j].at

\* A run that has not rebooted has no stamp, and one about to stamp has
\* rebooted just now, after all the others.
Stamps ==
    /\ pc \in Undecided => runs[run].rebootStartedAt = None
    /\ pc = "stamp" => \A j \in DOMAIN reboots :
                          reboots[j].run = run => j = Len(reboots) /\ reboots[j].at = now

\* Once past the cooldown guard, every reboot on record is old enough.
Cool ==
    (pc \in Acting /\ mode = "soft") =>
       \A j \in DOMAIN reboots :
          Recorded(j) /\ reboots[j].run \in hot => now - reboots[j].at >= RebootCooldown

CooldownInv == Stamped /\ Stamps /\ Cool /\ CooldownKept

\* No step brings an archived row back.
LEMMA HotAfter ==
    Inv /\ [Next]_vars => \A i \in 1..Len(runs) : i \in hot' => i \in hot
<1> SUFFICES ASSUME Inv, [Next]_vars, NEW i \in 1..Len(runs), i \in hot'
             PROVE  i \in hot
  OBVIOUS
<1>1. CASE StartRun
  BY <1>1 DEF StartRun, Rollover
<1>2. CASE InsertRun
  <2>1. i # Len(runs) + 1
    BY DEF Inv, TypeOK
  <2> QED BY <1>2, <2>1 DEF InsertRun, NextRow
<1>3. CASE ~StartRun /\ ~InsertRun
  BY <1>3 DEF Next, Step, Probe, Confirm, Clear, Decide, OutageSustained, Cooldown,
     MarkAction, Initiate, Reboot, StampReboot, PollGateway, PollInternet,
     ShouldAnnounce, Say, Settle, Crash, Finished, store, vars
<1> QED BY <1>1, <1>2, <1>3

\* A reboot comes on record only by the stamp of its own run.
LEMMA RecordedBefore ==
    ASSUME Inv, Knows, Frame, NEW j \in DOMAIN reboots, reboots'[j] = reboots[j],
           Recorded(j)'
    PROVE  LET r == reboots[j].run IN
           \/ /\ Recorded(j)
              /\ runs'[r].rebootStartedAt = runs[r].rebootStartedAt
           \/ /\ pc = "stamp" /\ r = run
              /\ runs'[r].rebootStartedAt = now
<1> DEFINE r == reboots[j].run
<1>1. r \in 1..Len(runs)
  BY RebootsType DEF Inv
<1>2. runs'[r].action = "reboot" /\ runs'[r].rebootStartedAt # None
  BY DEF Recorded
<1>3. RowKeeps(runs[r], runs'[r]) /\ (r # run => runs'[r] = runs[r])
  BY <1>1 DEF Frame
<1>4. pc = "mark" => r # run
  BY DEF Knows, NotYet, Undecided, Acting
<1>5. runs[r].action = "reboot"
  BY <1>2, <1>3, <1>4 DEF RowKeeps
<1>6. CASE runs'[r].rebootStartedAt = runs[r].rebootStartedAt
  BY <1>2, <1>5, <1>6 DEF Recorded
<1>7. CASE runs'[r].rebootStartedAt # runs[r].rebootStartedAt
  BY <1>3, <1>7 DEF RowKeeps
<1> QED BY <1>6, <1>7

\* The insertion of the row apart, the calls up to the request follow one
\* another in one run, and only the re-probes among them wait.
LEMMA StaysUndecided ==
    ASSUME Inv, [Next]_vars, pc' \in Undecided, ~InsertRun
    PROVE  /\ pc \in Undecided /\ run' = run /\ mode' = mode
           /\ Confirm \/ (now' = now /\ seen' = seen)
<1>1. ~(Probe \/ StartRun \/ Settle \/ Crash \/ ShouldAnnounce \/ Say)
  BY DEF Probe, StartRun, Settle, Crash, ShouldAnnounce, Say, Goto, Undecided,
     Guarding, Acting
<1>2. ~(Reboot \/ StampReboot \/ PollGateway \/ PollInternet)
  BY CloseType, EndingNamesType DEF Reboot, StampReboot, PollGateway, PollInternet,
     Goto, Undecided, Guarding, Acting, Closing
<1>3. Confirm \/ Clear \/ Decide \/ OutageSustained \/ Cooldown \/ MarkAction
         \/ Initiate \/ Finished \/ UNCHANGED vars
  BY <1>1, <1>2 DEF Next, Step
<1> QED BY <1>3 DEF Confirm, Clear, Decide, OutageSustained, Cooldown, MarkAction,
        Initiate, Finished, vars, setting, Undecided, Guarding, Acting

\* The stamp of a row is written once, right after its reboot.
LEMMA StampsNext == Inv /\ Knows /\ Stamps /\ [Next]_vars => Stamps'
<1> SUFFICES ASSUME Inv, Knows, Stamps, [Next]_vars PROVE Stamps'
  OBVIOUS
<1>1. Frame
  BY StepFrame
<1>2. ASSUME pc' \in Undecided PROVE runs'[run'].rebootStartedAt = None
  <2>1. CASE InsertRun
    <3>1. pc' # "idle"
      BY <1>2 DEF Undecided, Guarding, Acting
    <3>2. runs' = Append(runs, NewRow(mode, InternetOK)) /\ run' = Len(runs) + 1
      BY <2>1, <3>1 DEF InsertRun, Goto, NextRow
    <3>3. runs'[Len(runs) + 1] = NewRow(mode, InternetOK)
      <4>1. runs \in Seq(Rows) /\ NewRow(mode, InternetOK) \in Rows
        BY NewRowType DEF Inv, TypeOK, InternetOK
      <4> QED BY <3>2, <4>1, AppendProperties
    <3> QED BY <3>2, <3>3 DEF NewRow
  <2>2. CASE ~InsertRun
    <3>1. pc \in Undecided /\ run' = run
      BY <1>2, <2>2, StaysUndecided
    <3>2. run \in 1..Len(runs)
      BY <3>1, SeatedRow DEF Undecided, Seated
    <3>3. RowKeeps(runs[run], runs'[run]) /\ pc # "stamp"
      BY <1>1, <3>1, <3>2 DEF Frame, Undecided, Guarding, Acting
    <3> QED BY <3>1, <3>3 DEF Stamps, RowKeeps
  <2> QED BY <2>1, <2>2
<1>3. ASSUME pc' = "stamp"
      PROVE  \A j \in DOMAIN reboots' :
                reboots'[j].run = run' => j = Len(reboots') /\ reboots'[j].at = now'
  <2>1. Reboot \/ Finished \/ UNCHANGED vars
    <3>1. ~(StartRun \/ Probe \/ InsertRun \/ Confirm \/ Clear \/ Decide
              \/ OutageSustained \/ Cooldown)
      BY <1>3, CloseType, EndingNamesType DEF StartRun, Probe, InsertRun, Confirm,
         Clear, Decide, DecideHard, DecideSoft, OutageSustained, Cooldown, Goto, Closing
    <3>2. ~(MarkAction \/ Initiate \/ StampReboot \/ PollGateway \/ PollInternet
              \/ ShouldAnnounce \/ Say \/ Settle \/ Crash)
      BY <1>3, CloseType, EndingNamesType DEF MarkAction, Initiate, StampReboot,
         PollGateway, PollInternet, ShouldAnnounce, Say, Settle, Crash, Goto, Closing
    <3> QED BY <3>1, <3>2 DEF Next, Step
  <2>2. CASE Reboot
    <3>1. /\ pc = "request" /\ run' = run /\ now' = now
          /\ reboots' = Append(reboots, [run |-> run, at |-> now])
      BY <1>3, <2>2, CloseType, EndingNamesType DEF Reboot, Goto, Closing
    <3>2. [run |-> run, at |-> now] \in [run : 1..Len(runs), at : Nat]
      BY <3>1, SeatedRow DEF Seated, Acting
    <3>3. Len(reboots') = Len(reboots) + 1
      BY <3>1, <3>2, AppendProperties DEF Inv, TypeOK
    <3>4. \A j \in DOMAIN reboots : reboots[j].run # run
      BY <3>1 DEF Knows, NotYet, Undecided, Acting
    <3> QED BY <1>1, <3>1, <3>3, <3>4, RebootsAfter
  <2>3. CASE Finished \/ UNCHANGED vars
    BY <1>3, <2>3 DEF Finished, vars, Stamps
  <2> QED BY <2>1, <2>2, <2>3
<1> QED BY <1>2, <1>3 DEF Stamps

\* So a stamped row has the time of its reboot.
LEMMA StampedNext ==
    Inv /\ Knows /\ Stamps /\ Stamped /\ [Next]_vars => Stamped'
<1> SUFFICES ASSUME Inv, Knows, Stamps, Stamped, [Next]_vars,
                    NEW j \in DOMAIN reboots', Recorded(j)'
             PROVE  runs'[reboots'[j].run].rebootStartedAt = reboots'[j].at
  BY DEF Stamped
<1>1. Frame
  BY StepFrame
<1>2. CASE j \in DOMAIN reboots /\ reboots'[j] = reboots[j]
  BY <1>1, <1>2, RecordedBefore DEF Stamped, Stamps
<1>3. CASE pc = "request" /\ reboots'[j] = [run |-> run, at |-> now]
  <2>1. runs[run].rebootStartedAt = None /\ run \in 1..Len(runs)
    BY <1>3, SeatedRow DEF Stamps, Undecided, Acting, Seated
  <2>2. runs'[run].rebootStartedAt = None
    BY <1>1, <1>3, <2>1 DEF Frame, RowKeeps
  <2> QED BY <1>3, <2>2 DEF Recorded
<1> QED BY <1>1, <1>2, <1>3, RebootsAfter

\* Only the cooldown guard and the steps after it lead a soft run to act.
LEMMA CoolNext ==
    Inv /\ Knows /\ Stamped /\ Cool /\ [Next]_vars => Cool'
<1> SUFFICES ASSUME Inv, Knows, Stamped, Cool, [Next]_vars,
                    pc' \in Acting, mode' = "soft",
                    NEW j \in DOMAIN reboots', Recorded(j)', reboots'[j].run \in hot'
             PROVE  now' - reboots'[j].at >= RebootCooldown
  BY DEF Cool
<1>1. Frame
  BY StepFrame
<1>2. \/ Cooldown /\ pc' = "mark"
      \/ pc \in Acting /\ (MarkAction \/ Initiate \/ Finished \/ UNCHANGED vars)
  <2>1. ~(StartRun \/ Probe \/ InsertRun \/ Confirm \/ Clear \/ OutageSustained)
    BY CloseType, EndingNamesType DEF StartRun, Probe, InsertRun, Confirm, Clear,
       OutageSustained, Goto, Closing, Acting
  <2>2. ~Decide
    BY CloseType, EndingNamesType
       DEF Decide, DecideHard, DecideSoft, Goto, setting, Closing, Acting
  <2>3. ~(Reboot \/ StampReboot \/ PollGateway \/ PollInternet)
    BY CloseType, EndingNamesType DEF Reboot, StampReboot, PollGateway, PollInternet,
       Goto, Closing, Acting
  <2>4. ~(ShouldAnnounce \/ Say \/ Settle \/ Crash)
    BY DEF ShouldAnnounce, Say, Settle, Crash, Goto, Acting
  <2>5. Cooldown => pc' = "mark"
    BY CloseType, EndingNamesType DEF Cooldown, Goto, Closing, Acting
  <2>6. MarkAction \/ Initiate \/ Finished \/ UNCHANGED vars => pc \in Acting
    BY DEF MarkAction, Initiate, Finished, vars, Acting
  <2> QED BY <2>1, <2>2, <2>3, <2>4, <2>5, <2>6 DEF Next, Step
<1>3. UNCHANGED <<reboots, now, hot, run, mode>>
  BY <1>2 DEF Cooldown, MarkAction, Initiate, Finished, vars, store, setting
<1>4. pc # "stamp"
  BY <1>2 DEF Cooldown, Acting
<1>5. Recorded(j) /\ reboots[j].run \in hot
  BY <1>1, <1>3, <1>4, RecordedBefore
<1>6. CASE pc \in Acting
  BY <1>3, <1>5, <1>6 DEF Cool
<1>7. CASE Cooldown /\ pc' = "mark"
  <2>1. ~WithinCooldown
    BY <1>7, CloseType, EndingNamesType DEF Cooldown, Closing
  <2>2. ~(now - reboots[j].at < RebootCooldown)
    BY <1>3, <1>5, <2>1 DEF WithinCooldown, Stamped, Recorded
  <2>3. now \in Nat /\ reboots[j].at \in Nat /\ RebootCooldown \in Nat
    <3>1. TypeOK /\ now \in Nat
      BY DEF Inv, TypeOK
    <3> QED BY <1>3, <3>1, RebootsType, SettingsAssumption
  <2> QED BY <1>3, <2>2, <2>3
<1> QED BY <1>2, <1>6, <1>7

\* A soft reboot is past the cooldown of all those on record.
LEMMA CooldownKeptNext ==
    Inv /\ Knows /\ CooldownInv /\ [Next]_vars => CooldownKept'
<1> SUFFICES ASSUME Inv, Knows, CooldownInv, [Next]_vars,
                    NEW k \in SoftReboots', NEW j \in 1 .. k - 1,
                    Recorded(j)', reboots'[j].run \in hot'
             PROVE  reboots'[k].at - reboots'[j].at >= RebootCooldown
  BY DEF CooldownKept
<1>1. Frame /\ TypeOK
  BY StepFrame DEF Inv
<1>2. k \in DOMAIN reboots' /\ runs'[reboots'[k].run].mode = "soft"
  BY DEF SoftReboots
<1>3. DOMAIN reboots = 1..Len(reboots) /\ Len(reboots) \in Nat
  BY <1>1, RebootsType
<1>4. \/ k \in DOMAIN reboots /\ reboots'[k] = reboots[k]
      \/ /\ pc = "request" /\ k = Len(reboots) + 1
         /\ reboots'[k] = [run |-> run, at |-> now]
  BY <1>1, <1>2, RebootsAfter
<1>5. j \in DOMAIN reboots /\ reboots'[j] = reboots[j]
  <2>1. j \in DOMAIN reboots
    BY <1>3, <1>4
  <2>2. k \in Nat /\ DOMAIN reboots \subseteq DOMAIN reboots'
    <3>1. CASE reboots' = reboots
      BY <1>2, <1>3, <3>1
    <3>2. CASE pc = "request" /\ reboots' = Append(reboots, [run |-> run, at |-> now])
      <4>1. DOMAIN reboots' = 1..Len(reboots) + 1
        BY <3>2
      <4> QED BY <1>2, <1>3, <4>1
    <3> QED BY <1>1, <3>1, <3>2 DEF Frame
  <2> QED BY <1>1, <1>3, <2>1, <2>2, RebootsAfter
<1>6. reboots[j].run \in hot
  BY <1>1, <1>5, RebootsType, HotAfter
<1>7. CASE k \in DOMAIN reboots /\ reboots'[k] = reboots[k]
  <2>1. k \in SoftReboots
    <3>1. reboots[k].run \in 1..Len(runs)
      BY <1>1, <1>7, RebootsType
    <3> QED BY <1>1, <1>2, <1>7, <3>1 DEF SoftReboots, Frame, RowKeeps
  <2>2. ~(pc = "stamp" /\ reboots[j].run = run)
    BY <1>3, <1>5, <1>7 DEF CooldownInv, Stamps
  <2>3. Recorded(j)
    BY <1>1, <1>5, <2>2, RecordedBefore
  <2> QED BY <1>5, <1>6, <1>7, <2>1, <2>3 DEF CooldownInv, CooldownKept
<1>8. CASE pc = "request" /\ reboots'[k] = [run |-> run, at |-> now]
  <2>1. Recorded(j)
    BY <1>1, <1>5, <1>8, RecordedBefore
  <2>2. mode = "soft"
    <3>1. run \in 1..Len(runs) /\ runs[run].mode = mode
      BY <1>8 DEF Inv, Control, Seated, Acting
    <3> QED BY <1>1, <1>2, <1>8, <3>1 DEF Frame, RowKeeps
  <2> QED BY <1>5, <1>6, <1>8, <2>1, <2>2 DEF CooldownInv, Cool, Acting
<1> QED BY <1>4, <1>7, <1>8

\* Nothing is on record before the first run.
LEMMA InitCooldown == Init => CooldownInv
BY DEF Init, CooldownInv, Stamped, Stamps, Cool, CooldownKept, SoftReboots,
       Undecided, Guarding, Acting

\* The four facts together are inductive.
LEMMA CooldownInvNext ==
    Inv /\ Knows /\ CooldownInv /\ [Next]_vars => CooldownInv'
BY StampsNext, StampedNext, CoolNext, CooldownKeptNext DEF CooldownInv

\* A soft reboot never follows a reboot on record within REBOOT_COOLDOWN, for
\* every clock, while the row of that reboot has not been archived.
THEOREM CooldownHolds == Spec => []CooldownKept
<1>1. CooldownInv => CooldownKept
  BY DEF CooldownInv
<1> QED BY <1>1, InvAlways, KnowsAlways, InitCooldown, CooldownInvNext, PTL DEF Spec

(***************************************************************************)
(* The streak.  While the clock is not set back between runs, rows are     *)
(* archived oldest first, so the hot rows are the newest ones and          *)
(* RecentRuns looks at the runs just before this one.                      *)
(***************************************************************************)
Chrono ==
    /\ \A i \in 1..Len(runs) : runs[i].startedAt <= now
    /\ \A i, j \in 1..Len(runs) : i < j => runs[i].startedAt <= runs[j].startedAt

HotIsNewest == \A i \in hot : \A j \in i..Len(runs) : j \in hot

FalseIsDown ==
    \A i \in 1..Len(runs) :
       runs[i].internetOK = "false" => samples[i] # <<>> /\ IsDown(samples[i][1])

Backed(r) ==
    /\ r >= RebootMinStreak
    /\ \A p \in r - (RebootMinStreak - 1) .. r - 1 :
          samples[p] # <<>> /\ IsDown(samples[p][1])

Streak == (pc \in {"cooldown"} \cup Acting /\ mode = "soft") => Backed(run)

StreakInv == Chrono /\ HotIsNewest /\ FalseIsDown /\ Streak /\ RebootCorroborated

\* The rows between two of the hot ones are all hot, so RecentRuns(n) holds n
\* rows only if they are the n just before this run.
LEMMA RecentRunsAreLast ==
    ASSUME TypeOK, HotIsNewest, run \in 1..Len(runs), NEW n \in Nat,
           Cardinality(RecentRuns(n)) = n
    PROVE  RecentRuns(n) = run - n .. run - 1
<1> DEFINE Last == run - n .. run - 1
<1>1. run \in Int /\ hot \subseteq 1..Len(runs) /\ Len(runs) \in Nat
  BY DEF TypeOK
<1>2. ASSUME NEW i \in RecentRuns(n) PROVE i \in Last
  <2> DEFINE between == {j \in hot : i < j /\ j < run}
  <2>1. i \in hot /\ i < run /\ Cardinality(between) < n
    BY Zenon DEF RecentRuns
  <2>2. i \in 1..Len(runs)
    BY <1>1, <2>1
  <2>3. between \subseteq i + 1 .. run - 1
    <3> SUFFICES ASSUME NEW j \in hot, i < j, j < run PROVE j \in i + 1 .. run - 1
      OBVIOUS
    <3>1. j \in Int /\ i \in Int
      BY <1>1, <2>2
    <3> QED BY <1>1, <3>1
  <2>4. i + 1 .. run - 1 \subseteq between
    <3> SUFFICES ASSUME NEW j \in i + 1 .. run - 1
                 PROVE  j \in hot /\ i < j /\ j < run
      OBVIOUS
    <3>1. j \in i..Len(runs) /\ i < j /\ j < run
      BY <1>1, <2>2
    <3> QED BY <2>1, <3>1 DEF HotIsNewest
  <2>5. i + 1 \in Int /\ run - 1 \in Int
    BY <1>1, <2>2
  <2>6. Cardinality(between) = run - 1 - i
    <3>1. Cardinality(i + 1 .. run - 1) = IF i + 1 > run - 1 THEN 0 ELSE (run - 1) - (i + 1) + 1
      BY <2>5, FS_Interval
    <3>2. between = i + 1 .. run - 1
      BY <2>3, <2>4
    <3>3. i \in Int /\ i < run
      BY <2>1, <2>2
    <3> HIDE DEF between
    <3> QED BY <1>1, <3>1, <3>2, <3>3
  <2> HIDE DEF between
  <2> QED BY <1>1, <2>1, <2>2, <2>6
<1>3. IsFiniteSet(Last) /\ Cardinality(Last) = n
  <2>1. run - n \in Int /\ run - 1 \in Int
    BY <1>1
  <2>2. /\ IsFiniteSet(Last)
        /\ Cardinality(Last) = IF run - n > run - 1 THEN 0 ELSE (run - 1) - (run - n) + 1
    BY <2>1, FS_Interval
  <2> QED BY <1>1, <2>2
<1>4. RecentRuns(n) \subseteq Last
  BY <1>2
<1> QED BY <1>3, <1>4, FS_Subset

\* A guard that passes has seen the runs just before this one, all down.
LEMMA SustainedIsBacked ==
    ASSUME TypeOK, HotIsNewest, FalseIsDown, run \in 1..Len(runs), Sustained
    PROVE  Backed(run)
<1> DEFINE n == RebootMinStreak - 1
<1>1. n \in Nat /\ run \in Int /\ hot \subseteq 1..Len(runs)
  BY SettingsAssumption DEF TypeOK
<1>2. RecentRuns(n) = run - n .. run - 1
  BY <1>1, RecentRunsAreLast DEF Sustained
<1>3. \A p \in run - n .. run - 1 : p \in 1..Len(runs) /\ runs[p].internetOK = "false"
  BY <1>1, <1>2 DEF Sustained, RecentRuns
<1>4. run >= RebootMinStreak
  <2>1. CASE n = 0
    BY <2>1, SettingsAssumption
  <2>2. CASE n > 0
    <3>1. run - n \in 1..Len(runs)
      BY <1>1, <1>3, <2>2
    <3> QED BY <1>1, <3>1, SettingsAssumption
  <2> QED BY <1>1, <2>1, <2>2, SettingsAssumption
<1>5. \A p \in run - n .. run - 1 : samples[p] # <<>> /\ IsDown(samples[p][1])
  BY <1>3 DEF FalseIsDown
<1> QED BY <1>4, <1>5 DEF Backed

\* The wall clock only advances, as long as it is not set back between runs.
LEMMA NowAdvances ==
    ASSUME Gaps \subseteq Nat, Inv, [Next]_vars
    PROVE  now \in Nat /\ now' \in Nat /\ now <= now'
<1>1. now \in Nat
  BY DEF Inv, TypeOK
<1>2. CASE StartRun
  BY <1>1, <1>2 DEF StartRun
<1>3. CASE PollGateway
  BY <1>1, <1>3 DEF PollGateway
<1>4. CASE Confirm
  BY <1>1, <1>4, SettingsAssumption DEF Confirm
<1>5. CASE ~StartRun /\ ~PollGateway /\ ~Confirm
  <2>1. now' = now
    BY <1>5 DEF Next, Step, Probe, InsertRun, Clear, Decide, OutageSustained,
       Cooldown, MarkAction, Initiate, Reboot, StampReboot, PollInternet,
       ShouldAnnounce, Say, Settle, Crash, Finished, store, vars
  <2> QED BY <1>1, <2>1
<1> QED BY <1>2, <1>3, <1>4, <1>5

\* The row a step adds, if any, is stamped now and says what its probe saw.
LEMMA RowsAfter ==
    ASSUME Inv, [Next]_vars, NEW i \in 1..Len(runs')
    PROVE  \/ i \in 1..Len(runs) /\ RowKeeps(runs[i], runs'[i])
           \/ /\ i = Len(runs) + 1 /\ now' = now
              /\ runs'[i].startedAt = now
              /\ samples'[i] = seen
              /\ runs'[i].internetOK = "false" =>
                    Len(seen) = 1 /\ IsDown(seen[1])
<1>1. Frame
  BY StepFrame
<1>2. CASE i \in 1..Len(runs)
  BY <1>1, <1>2 DEF Frame
<1>3. CASE i \notin 1..Len(runs)
  <2>1. InsertRun /\ i = Len(runs) + 1 /\ runs'[i] = NewRow(mode, InternetOK) /\ samples'[i] = seen
    BY <1>3, RowAdded
  <2>2. now' = now /\ (InternetOK = "false" => Len(seen) = 1 /\ IsDown(seen[1]))
    BY <2>1 DEF InternetOK, InsertRun, Inv, TypeOK, Control
  <2> QED BY <2>1, <2>2 DEF NewRow
<1> QED BY <1>2, <1>3

\* A row starts at a time of the clock.
LEMMA RowAt ==
    ASSUME TypeOK, NEW i \in 1..Len(runs)
    PROVE  runs[i] \in Rows /\ runs[i].startedAt \in Nat
<1>1. runs[i] \in Rows
  BY ElementOfSeq DEF TypeOK
<1> QED BY <1>1 DEF Rows

\* With a clock that is not set back, rows are in order of their start.
LEMMA ChronoNext ==
    ASSUME Gaps \subseteq Nat, Inv, Chrono, [Next]_vars PROVE Chrono'
<1>1. now \in Nat /\ now' \in Nat /\ now <= now'
  BY NowAdvances
<1>2. \A i \in 1..Len(runs) : runs[i].startedAt \in Nat
  BY RowAt DEF Inv
<1>3. ASSUME NEW i \in 1..Len(runs')
      PROVE  /\ runs'[i].startedAt \in Nat /\ runs'[i].startedAt <= now'
             /\ \/ i \in 1..Len(runs) /\ runs'[i].startedAt = runs[i].startedAt
                \/ i = Len(runs) + 1 /\ runs'[i].startedAt = now
  BY <1>1, <1>2, RowsAfter DEF Chrono, RowKeeps
<1>4. Len(runs) \in Nat
  BY DEF Inv, TypeOK
<1>5. ASSUME NEW i \in 1..Len(runs'), NEW j \in 1..Len(runs'), i < j
      PROVE  runs'[i].startedAt <= runs'[j].startedAt
  <2>1. i \in 1..Len(runs) /\ runs'[i].startedAt = runs[i].startedAt
    BY <1>3, <1>4, <1>5
  <2>2. CASE j \in 1..Len(runs) /\ runs'[j].startedAt = runs[j].startedAt
    BY <1>5, <2>1, <2>2 DEF Chrono
  <2>3. CASE j = Len(runs) + 1 /\ runs'[j].startedAt = now
    BY <2>1, <2>3 DEF Chrono
  <2> QED BY <1>3, <2>2, <2>3
<1> QED BY <1>3, <1>5 DEF Chrono

\* So the rollover, which goes by start, takes the oldest rows.
LEMMA HotIsNewestNext ==
    ASSUME Gaps \subseteq Nat, Inv, Chrono, HotIsNewest, [Next]_vars
    PROVE  HotIsNewest'
<1>1. hot \subseteq 1..Len(runs) /\ Len(runs) \in Nat
  BY DEF Inv, TypeOK
<1>2. CASE StartRun
  <2>1. runs' = runs /\ now' \in Nat
    BY <1>2, NowAdvances DEF StartRun
  <2>2. CASE UNCHANGED hot
    BY <2>1, <2>2 DEF HotIsNewest
  <2>3. CASE hot' = {i \in hot : runs[i].startedAt >= now' - HotWindow}
    <3> SUFFICES ASSUME NEW i \in hot', NEW j \in i..Len(runs) PROVE j \in hot'
      BY <2>1 DEF HotIsNewest
    <3>1. /\ i \in 1..Len(runs) /\ j \in 1..Len(runs) /\ i <= j
          /\ i \in hot /\ runs[i].startedAt >= now' - HotWindow
      BY <1>1, <2>3
    <3>2. j \in hot
      BY <3>1 DEF HotIsNewest
    <3>3. runs[i].startedAt \in Nat /\ runs[j].startedAt \in Nat
      BY <3>1, RowAt DEF Inv
    <3>4. runs[i].startedAt <= runs[j].startedAt
      <4>1. CASE i = j
        BY <3>3, <4>1
      <4>2. CASE i < j
        BY <3>1, <4>2 DEF Chrono
      <4> QED BY <1>1, <3>1, <4>1, <4>2
    <3> QED BY <2>1, <2>3, <3>1, <3>2, <3>3, <3>4, SettingsAssumption
  <2> QED BY <1>2, <2>2, <2>3 DEF StartRun, Rollover
<1>3. CASE InsertRun
  <2>1. CASE runs' = runs /\ hot' = hot
    BY <2>1 DEF HotIsNewest
  <2>2. CASE /\ runs' = Append(runs, NewRow(mode, InternetOK))
             /\ hot' = hot \cup {Len(runs) + 1}
    <3>1. Len(runs') = Len(runs) + 1
      BY <2>2 DEF Inv, TypeOK
    <3> QED BY <1>1, <2>2, <3>1 DEF HotIsNewest
  <2> QED BY <1>3, <2>1, <2>2 DEF InsertRun, NextRow
<1>4. CASE ~StartRun /\ ~InsertRun
  <2>1. hot' = hot
    BY <1>4 DEF Next, Step, Probe, Confirm, Clear, Decide, OutageSustained, Cooldown,
       MarkAction, Initiate, Reboot, StampReboot, PollGateway, PollInternet,
       ShouldAnnounce, Say, Settle, Crash, Finished, store, vars
  <2>2. Len(runs') = Len(runs)
    <3>1. Len(runs') \in Nat
      BY NextInv DEF Inv, TypeOK
    <3>2. CASE Len(runs') > Len(runs)
      <4>1. runs' # runs
        BY <3>2, <1>1
      <4>2. ASSUME NEW row, UpdateRun(row) PROVE FALSE
        BY <1>1, <3>2, <4>1, <4>2 DEF UpdateRun, Inv, TypeOK
      <4> QED BY <1>4, <4>1, <4>2 DEF Next, Step, Probe, Confirm, Clear, Decide,
              OutageSustained, Cooldown, MarkAction, Initiate, Reboot, StampReboot,
              PollGateway, HandleGatewayTransition, PollInternet, ShouldAnnounce, Say,
              Settle, Crash, Finished, store, vars
    <3> QED BY <1>1, <3>1, <3>2, StepFrame DEF Frame
  <2> QED BY <2>1, <2>2 DEF HotIsNewest
<1> QED BY <1>2, <1>3, <1>4

\* internet_ok is false only in a row whose first probe was down.
LEMMA FalseIsDownNext ==
    ASSUME Inv, FalseIsDown, [Next]_vars PROVE FalseIsDown'
<1> SUFFICES ASSUME NEW i \in 1..Len(runs'), runs'[i].internetOK = "false"
             PROVE  samples'[i] # <<>> /\ IsDown(samples'[i][1])
  BY DEF FalseIsDown
<1>1. Frame
  BY StepFrame
<1>2. CASE i \in 1..Len(runs) /\ RowKeeps(runs[i], runs'[i])
  BY <1>1, <1>2 DEF FalseIsDown, RowKeeps, Frame
<1>3. CASE samples'[i] = seen /\ Len(seen) = 1 /\ IsDown(seen[1])
  BY <1>3, EmptySeq
<1> QED BY <1>2, <1>3, RowsAfter

\* What backed a run still does: no step changes a first probe.
LEMMA BackedAfter ==
    ASSUME Inv, Frame, NEW r \in 1..Len(runs), Backed(r) PROVE Backed(r)'
<1>1. \A p \in r - (RebootMinStreak - 1) .. r - 1 : p \in 1..Len(runs)
  <2>1. Len(runs) \in Nat /\ r \in Int /\ RebootMinStreak \in Nat \ {0} /\ r >= RebootMinStreak
    BY SettingsAssumption DEF Inv, TypeOK, Backed
  <2> QED BY <2>1
<1> QED BY <1>1 DEF Backed, Frame

\* Only the streak guard and the steps after it lead a soft run to act.
LEMMA StreakNext ==
    ASSUME Inv, HotIsNewest, FalseIsDown, Streak, [Next]_vars PROVE Streak'
<1> SUFFICES ASSUME pc' \in {"cooldown"} \cup Acting, mode' = "soft" PROVE Backed(run)'
  BY DEF Streak
<1>1. Frame /\ TypeOK
  BY StepFrame DEF Inv
<1>2. \/ OutageSustained /\ pc' = "cooldown"
      \/ /\ pc \in {"cooldown"} \cup Acting
         /\ Cooldown \/ MarkAction \/ Initiate \/ Finished \/ UNCHANGED vars
  <2>1. ~(StartRun \/ Probe \/ InsertRun \/ Confirm \/ Clear)
    BY DEF StartRun, Probe, InsertRun, Confirm, Clear, Goto, Acting
  <2>2. ~Decide
    BY CloseType, EndingNamesType
       DEF Decide, DecideHard, DecideSoft, Goto, setting, Closing, Acting
  <2>3. ~(Reboot \/ StampReboot \/ PollGateway \/ PollInternet)
    BY CloseType, EndingNamesType DEF Reboot, StampReboot, PollGateway, PollInternet,
       Goto, Closing, Acting
  <2>4. ~(ShouldAnnounce \/ Say \/ Settle \/ Crash)
    BY DEF ShouldAnnounce, Say, Settle, Crash, Goto, Acting
  <2>5. OutageSustained => pc' = "cooldown"
    BY CloseType, EndingNamesType DEF OutageSustained, Goto, Closing, Acting
  <2>6. Cooldown \/ MarkAction \/ Initiate \/ Finished \/ UNCHANGED vars
           => pc \in {"cooldown"} \cup Acting
    BY DEF Cooldown, MarkAction, Initiate, Finished, vars, Acting
  <2> QED BY <2>1, <2>2, <2>3, <2>4, <2>5, <2>6 DEF Next, Step
<1>3. run' = run /\ mode' = mode
  BY <1>2 DEF OutageSustained, Cooldown, MarkAction, Initiate, Finished, vars, setting
<1>4. run \in 1..Len(runs)
  BY <1>2, SeatedRow DEF OutageSustained, Seated, Guarding, Acting
<1>5. Backed(run)
  <2>1. CASE pc \in {"cooldown"} \cup Acting
    BY <1>3, <2>1 DEF Streak
  <2>2. CASE OutageSustained /\ pc' = "cooldown"
    <3>1. Sustained
      BY <2>2, CloseType, EndingNamesType DEF OutageSustained, Closing
    <3> QED BY <1>1, <1>4, <3>1, SustainedIsBacked
  <2> QED BY <1>2, <2>1, <2>2
<1> QED BY <1>1, <1>3, <1>4, <1>5, BackedAfter DEF Backed

\* A soft reboot is performed by a run that is backed.
LEMMA RebootCorroboratedNext ==
    ASSUME Inv, Streak, RebootCorroborated, [Next]_vars PROVE RebootCorroborated'
<1> SUFFICES ASSUME NEW k \in SoftReboots', NEW r, r = reboots'[k].run PROVE Backed(r)'
  BY DEF RebootCorroborated, Backed
<1>1. Frame /\ TypeOK
  BY StepFrame DEF Inv
<1>2. k \in DOMAIN reboots' /\ runs'[reboots'[k].run].mode = "soft"
  BY DEF SoftReboots
<1>3. CASE k \in DOMAIN reboots /\ reboots'[k] = reboots[k]
  <2>1. r \in 1..Len(runs)
    BY <1>1, <1>3, RebootsType
  <2>2. Backed(r)
    BY <1>1, <1>2, <1>3, <2>1
       DEF SoftReboots, Frame, RowKeeps, RebootCorroborated, Backed
  <2> QED BY <1>1, <2>1, <2>2, BackedAfter
<1>4. CASE pc = "request" /\ reboots'[k] = [run |-> run, at |-> now]
  <2>1. run \in 1..Len(runs) /\ runs[run].mode = mode
    BY <1>4 DEF Inv, Control, Seated, Acting
  <2>2. Backed(run)
    BY <1>1, <1>2, <1>4, <2>1 DEF Frame, RowKeeps, Streak, Acting
  <2>3. r = run
    BY <1>4
  <2> QED BY <1>1, <2>1, <2>2, <2>3, BackedAfter
<1> QED BY <1>1, <1>2, <1>3, <1>4, RebootsAfter

\* Nothing was rebooted before the first run.
LEMMA InitStreak == Init => StreakInv
BY DEF Init, StreakInv, Chrono, HotIsNewest, FalseIsDown, Streak, Acting,
       RebootCorroborated, SoftReboots

LEMMA StreakAlways == ASSUME Gaps \subseteq Nat PROVE Spec => []StreakInv
<1>1. Inv /\ StreakInv /\ [Next]_vars => StreakInv'
  BY ChronoNext, HotIsNewestNext, FalseIsDownNext, StreakNext, RebootCorroboratedNext
     DEF StreakInv
<1> QED BY <1>1, InvAlways, InitStreak, PTL DEF Spec

\* While the clock is not set back between runs, every reboot of a soft run is
\* corroborated by the REBOOT_MIN_STREAK - 1 runs recorded just before it, each
\* of which probed and first saw the link down: no fault, crash, hard run or
\* rollover stands in for one.
THEOREM RebootCorroboratedHolds ==
    ASSUME Gaps \subseteq Nat
    PROVE  Spec => []RebootCorroborated
<1>1. StreakInv => RebootCorroborated
  BY DEF StreakInv
<1> QED BY <1>1, StreakAlways, PTL

\* A run at work is the newest.
Newest == pc \in Seated => run = Len(runs)

LEMMA NewestNext == Inv /\ Newest /\ [Next]_vars => Newest'
<1> SUFFICES ASSUME Inv, Newest, [Next]_vars, pc' \in Seated PROVE run' = Len(runs')
  BY DEF Newest
<1>1. Len(runs) \in Nat /\ Len(runs') \in Nat /\ Len(runs) <= Len(runs')
  BY NextInv, StepFrame DEF Inv, TypeOK, Frame
<1>2. CASE pc \in Seated /\ run' = run
  <2>1. Len(runs') \in 1..Len(runs) \/ Len(runs') = Len(runs)
    <3>1. CASE Len(runs') \in 1..Len(runs')
      <4>1. ~InsertRun
        BY <1>2 DEF InsertRun, Seated, Guarding, Acting, Recovering, Closing
      <4> QED BY <3>1, <4>1, RowAdded
    <3>2. CASE Len(runs') \notin 1..Len(runs')
      BY <1>1, <3>2
    <3> QED BY <3>1, <3>2
  <2> QED BY <1>1, <1>2, <2>1 DEF Newest
<1> QED BY <1>2, SeatedAfter

\* What a step leaves of the rows before a run at work.
LEMMA OlderKept ==
    ASSUME Inv, Newest, [Next]_vars, NEW r \in 1..Len(runs), NEW p \in 1..r - 1
    PROVE  /\ p \in 1..Len(runs)
           /\ samples'[p] = samples[p]
           /\ p \in hot' => p \in hot
           /\ runs[p].action = "reboot" => runs'[p].action = "reboot"
           /\ runs[p].rebootStartedAt # None => runs'[p].rebootStartedAt # None
           /\ runs[p].outcome = runs'[p].outcome
<1>1. Len(runs) \in Nat /\ now \in Nat /\ Frame
  BY StepFrame DEF Inv, TypeOK
<1>2. p \in 1..Len(runs) /\ p # Len(runs)
  BY <1>1
<1>3. pc \in Seated => runs'[p] = runs[p] /\ samples'[p] = samples[p]
  BY <1>1, <1>2 DEF Newest, Frame
<1>4. pc \notin Seated => pc \notin {"confirm", "mark", "stamp", "poll", "settle"}
  BY DEF Seated, Acting, Recovering, Closing
<1>5. RowKeeps(runs[p], runs'[p]) /\ (pc # "confirm" => samples'[p] = samples[p])
  BY <1>1, <1>2 DEF Frame
<1>6. pc \notin Seated => SameStory(runs[p], runs'[p])
  BY <1>2, <1>4, StoryKept
<1> QED BY <1>2, <1>3, <1>4, <1>5, <1>6, HotAfter DEF RowKeeps, SameStory

(***************************************************************************)
(* The guards stop only what they are there to stop.                       *)
(***************************************************************************)
Saw(p) == samples[p] # <<>> /\ AllDown(samples[p])

\* internet_ok is false in a row that only saw the link down.
DownIsFalse == \A p \in 1..Len(runs) : Saw(p) => runs[p].internetOK = "false"

\* A hard run does not probe, and every other run has loaded what .env holds.
Blind == /\ pc = "insert" /\ mode = "hard" => seen = <<>>
         /\ FALSE \notin RebootEnabledValues => enabled

Broken(p) == p \notin hot \/ ~Saw(p)

StreakBroken(r) == \E p \in r - (RebootMinStreak - 1) .. r - 1 : Broken(p)

RecentReboot(r, t) ==
    \E k \in DOMAIN reboots : /\ Recorded(k) /\ reboots[k].run < r
                              /\ t - reboots[k].at < RebootCooldown

\* A run that saw the outage to the end is about to act, has acted, or has been
\* stopped by a guard for cause.
Followed ==
    /\ pc \in {"initiate", "request"} \cup Recovering => runs[run].action = "reboot"
    /\ pc \in Closing /\ mode = "soft" /\ AllDown(seen) /\ enabled =>
          \/ runs[run].action = "reboot" /\ Endings[ending].action = "keep"
          \/ ending = "unsustained" /\ StreakBroken(run)
          \/ ending = "skipped" /\ RecentReboot(run, now)

ActedUpon(r) ==
    \/ runs[r].action = "reboot"
    \/ runs[r].outcome = "unsustained" /\ StreakBroken(r)
    \/ runs[r].outcome = "skipped" /\ RecentReboot(r, runs[r].finishedAt)

LEMMA OutageParts ==
    ASSUME TypeOK
    PROVE  OutageActedUpon <=> (FALSE \notin RebootEnabledValues =>
              \A r \in 1..Len(runs) : SawOutage(r) => ActedUpon(r))
<1>1. DOMAIN runs = 1..Len(runs)
  BY DEF TypeOK
<1>2. ASSUME NEW r PROVE StreakBroken(r) <=>
         \E p \in r - (RebootMinStreak - 1) .. r - 1 :
            \/ p \notin hot \/ samples[p] = <<>>
            \/ \E i \in DOMAIN samples[p] : ~IsDown(samples[p][i])
  BY DEF StreakBroken, Broken, Saw, AllDown
<1>3. ASSUME NEW r PROVE RecentReboot(r, runs[r].finishedAt) <=>
         \E k \in DOMAIN reboots :
            /\ Recorded(k) /\ reboots[k].run < r
            /\ runs[r].finishedAt - reboots[k].at < RebootCooldown
  BY DEF RecentReboot
<1> QED BY <1>1, <1>2, <1>3 DEF OutageActedUpon, ActedUpon

LEMMA BlindNext == Inv /\ Blind /\ [Next]_vars => Blind'
<1> SUFFICES ASSUME Inv, Blind, [Next]_vars PROVE Blind'
  OBVIOUS
<1>1. FALSE \notin RebootEnabledValues => enabled'
  BY SettingsAssumption DEF Blind, Next, Step, StartRun, Probe, InsertRun, Confirm, Clear,
     Decide, OutageSustained, Cooldown, MarkAction, Initiate, Reboot, StampReboot,
     PollGateway, PollInternet, ShouldAnnounce, Say, Settle, Crash, Finished, setting, vars
<1>2. pc' = "insert" /\ mode' = "hard" => seen' = <<>>
  <2>1. CASE UNCHANGED vars
    BY <2>1 DEF vars, Blind
  <2>2. CASE StartRun
    BY <2>2 DEF StartRun
  <2>3. CASE Probe
    BY <2>3 DEF Probe, setting, Inv, Control
  <2> QED BY <2>1, <2>2, <2>3, ComesFrom
<1> QED BY <1>1, <1>2 DEF Blind

LEMMA DownIsFalseNext ==
    Inv /\ Knows /\ Blind /\ DownIsFalse /\ [Next]_vars => DownIsFalse'
<1> SUFFICES ASSUME Inv, Knows, Blind, DownIsFalse, [Next]_vars,
                    NEW p \in 1..Len(runs'), samples'[p] # <<>>, AllDown(samples'[p])
             PROVE  runs'[p].internetOK = "false"
  BY DEF DownIsFalse, Saw, AllDown
<1>1. CASE p \notin 1..Len(runs)
  <2>1. /\ pc = "insert" /\ runs'[p].internetOK = InternetOK /\ samples'[p] = seen
    BY <1>1, RowAdded DEF InsertRun, NewRow
  <2>2. mode = "soft" /\ Len(seen) = 1
    BY <2>1 DEF Blind, Inv, TypeOK, Control
  <2>3. IsDown(seen[1])
    BY <2>1, <2>2 DEF AllDown, Inv, TypeOK
  <2> QED BY <2>1, <2>2, <2>3 DEF InternetOK
<1>2. CASE p \in 1..Len(runs)
  <2>1. Frame
    BY StepFrame
  <2>2. CASE pc = "confirm" /\ p = run
    <3>1. Confirm \/ UNCHANGED <<samples, runs>>
      BY <2>2 DEF Next, Step, StartRun, Probe, InsertRun, Clear, Decide, OutageSustained,
         Cooldown, MarkAction, Initiate, Reboot, StampReboot, PollGateway, PollInternet,
         ShouldAnnounce, Say, Settle, Crash, Finished, vars, store
    <3>2. CASE Confirm
      <4>1. /\ samples' = [samples EXCEPT ![run] = seen'] /\ runs' = runs
            /\ samples[run] = seen /\ Len(seen) > 0
        BY <2>2, <3>2 DEF Confirm, store, Inv, Control, Seated
      <4>2. PICK v : seen' = Append(seen, v)
        BY <3>2 DEF Confirm, Check
      <4>3. AllDown(seen')
        BY <1>2, <2>2, <4>1 DEF Inv, TypeOK
      <4>4. seen # <<>> /\ AllDown(seen)
        <5>1. seen \in Seq(States)
          BY DEF Inv, TypeOK
        <5>2. \A i \in DOMAIN seen : i \in DOMAIN seen' /\ seen'[i] = seen[i]
          BY <4>2, <5>1
        <5> QED BY <4>1, <4>3, <5>1, <5>2, EmptySeq DEF AllDown
      <4> QED BY <1>2, <2>2, <4>1, <4>4 DEF DownIsFalse, Saw
    <3> QED BY <1>2, <3>1, <3>2 DEF DownIsFalse, Saw
  <2>3. CASE ~(pc = "confirm" /\ p = run)
    <3>1. samples'[p] = samples[p] /\ RowKeeps(runs[p], runs'[p])
      BY <1>2, <2>1, <2>3 DEF Frame
    <3>2. runs[p].internetOK = "false"
      BY <1>2, <3>1 DEF DownIsFalse, Saw
    <3>3. ~(pc = "clear" /\ p = run)
      <4>1. pc = "clear" => samples[run] = seen /\ Len(seen) > 0 /\ ~IsDown(Result)
        BY DEF Inv, Control, Seated, Knows
      <4>2. pc = "clear" => ~AllDown(samples[run])
        BY <4>1 DEF AllDown, Result, Inv, TypeOK
      <4> QED BY <3>1, <4>2
    <3>4. p # run => runs'[p] = runs[p]
      BY <1>2, <2>1 DEF Frame
    <3> QED BY <3>1, <3>2, <3>3, <3>4 DEF RowKeeps
  <2> QED BY <2>2, <2>3
<1> QED BY <1>1, <1>2

\* A guard that finds the streak too short has reason to.
LEMMA UnsustainedForCause ==
    ASSUME TypeOK, DownIsFalse, run \in 1..Len(runs), ~Sustained
    PROVE  StreakBroken(run)
<1> DEFINE n == RebootMinStreak - 1
           Last == run - n .. run - 1
<1>1. /\ n \in Nat /\ run \in Int /\ hot \subseteq 1..Len(runs) /\ Len(runs) \in Nat
      /\ \A i \in hot : i \in Int
  BY SettingsAssumption DEF TypeOK
<1> SUFFICES ASSUME \A p \in Last : p \in hot /\ Saw(p) PROVE FALSE
  BY DEF StreakBroken, Broken
<1>2. IsFiniteSet(Last) /\ Cardinality(Last) = n
  <2>1. run - n \in Int /\ run - 1 \in Int
    BY <1>1
  <2>2. /\ IsFiniteSet(Last)
        /\ Cardinality(Last) = IF run - n > run - 1 THEN 0 ELSE (run - 1) - (run - n) + 1
    BY <2>1, FS_Interval
  <2> QED BY <1>1, <2>2
<1>3. IsFiniteSet(hot)
  <2>1. IsFiniteSet(1..Len(runs))
    BY <1>1, FS_Interval
  <2> QED BY <1>1, <2>1, FS_Subset
<1>4. ASSUME NEW i \in Last PROVE i \in RecentRuns(n)
  <2> DEFINE between == {j \in hot : i < j /\ j < run}
  <2>1. i \in hot /\ i < run /\ i + 1 \in Int /\ run - 1 \in Int /\ i >= run - n
    BY <1>1
  <2>2. between \subseteq i + 1 .. run - 1
    <3> SUFFICES ASSUME NEW j \in hot, i < j, j < run PROVE j \in i + 1 .. run - 1
      OBVIOUS
    <3> QED BY <1>1, <2>1
  <2>3. Cardinality(i + 1 .. run - 1) = IF i + 1 > run - 1 THEN 0 ELSE (run - 1) - (i + 1) + 1
    BY <2>1, FS_Interval
  <2>4. IsFiniteSet(i + 1 .. run - 1)
    BY <2>1, FS_Interval
  <2>5. Cardinality(between) <= Cardinality(i + 1 .. run - 1) /\ Cardinality(between) \in Nat
    BY <2>2, <2>4, FS_Subset, FS_CardinalityType
  <2>6. Cardinality(between) < n
    <3> HIDE DEF between
    <3> QED BY <1>1, <2>1, <2>3, <2>5
  <2> QED BY <2>1, <2>6, Zenon DEF RecentRuns
<1>5. ASSUME NEW i \in RecentRuns(n) PROVE i \in Last
  <2> DEFINE between == {j \in hot : i < j /\ j < run}
  <2>1. i \in hot /\ i < run /\ Cardinality(between) < n
    BY Zenon DEF RecentRuns
  <2>2. IsFiniteSet(between)
    BY <1>3, FS_Subset
  <2>3. Last \subseteq between => n <= Cardinality(between) /\ Cardinality(between) \in Nat
    <3> HIDE DEF between, Last
    <3> QED BY <1>2, <2>2, FS_Subset, FS_CardinalityType
  <2>4. i < run - n => Last \subseteq between
    BY <1>1, <2>1
  <2>5. ~(i < run - n)
    <3> HIDE DEF between, Last
    <3> QED BY <1>1, <2>1, <2>3, <2>4
  <2> QED BY <1>1, <2>1, <2>5
<1>6. RecentRuns(n) = Last
  <2> HIDE DEF Last
  <2> QED BY <1>4, <1>5
<1>7. \A p \in Last : runs[p].internetOK = "false"
  BY <1>1 DEF DownIsFalse
<1> HIDE DEF Last
<1> QED BY <1>2, <1>6, <1>7 DEF Sustained

\* What stopped a run stays the cause.
LEMMA CauseKept ==
    ASSUME Inv, Newest, [Next]_vars, NEW r \in 1..Len(runs)
    PROVE  /\ StreakBroken(r) => StreakBroken(r)'
           /\ \A t \in Nat : RecentReboot(r, t) => RecentReboot(r, t)'
<1>1. Len(runs) \in Nat /\ Frame /\ TypeOK
  BY StepFrame DEF Inv, TypeOK
<1>2. ASSUME NEW p \in r - (RebootMinStreak - 1) .. r - 1, Broken(p) PROVE Broken(p)'
  <2>1. CASE p \in 1..r - 1
    BY <1>2, <2>1, OlderKept DEF Broken, Saw, AllDown
  <2>2. CASE p \notin 1..r - 1
    <3>1. p \notin 1..Len(runs')
      BY <1>1, <2>2, SettingsAssumption
    <3>2. hot' \subseteq 1..Len(runs')
      BY NextInv DEF Inv, TypeOK
    <3> QED BY <3>1, <3>2 DEF Broken
  <2> QED BY <2>1, <2>2
<1>3. StreakBroken(r) => StreakBroken(r)'
  BY <1>2 DEF StreakBroken
<1>4. ASSUME NEW t \in Nat, NEW k \in DOMAIN reboots, Recorded(k), reboots[k].run < r,
             t - reboots[k].at < RebootCooldown
      PROVE  RecentReboot(r, t)'
  <2>1. k \in DOMAIN reboots' /\ reboots'[k] = reboots[k]
    <3>1. reboots \in Seq([run : 1..Len(runs), at : Nat])
      BY <1>1 DEF TypeOK
    <3>2. CASE pc = "request" /\ reboots' = Append(reboots, [run |-> run, at |-> now])
      BY <3>1, <3>2
    <3> QED BY <1>1, <3>2 DEF Frame
  <2>2. reboots[k].run \in 1..r - 1
    BY <1>1, <1>4, RebootsType
  <2>3. Recorded(k)'
    BY <1>4, <2>1, <2>2, OlderKept DEF Recorded
  <2> QED BY <1>4, <2>1, <2>3 DEF RecentReboot
<1>5. ASSUME NEW t \in Nat, RecentReboot(r, t) PROVE RecentReboot(r, t)'
  BY <1>4, <1>5 DEF RecentReboot
<1> QED BY <1>3, <1>5

\* The guards let through or stop for cause.
LEMMA FollowedGuards ==
    ASSUME Inv, Knows, Blank, StampsPerformed, Newest, DownIsFalse, faults' = 0,
           OutageSustained \/ Cooldown, pc' \in Closing
    PROVE  \/ ending' = "unsustained" /\ StreakBroken(run)
           \/ ending' = "skipped" /\ RecentReboot(run, now)
<1>1. /\ faults \in Nat /\ TypeOK /\ pc \in Seated /\ pc \in Before
      /\ run \in 1..Len(runs) /\ run = Len(runs) /\ hot \subseteq 1..Len(runs)
  <2>1. pc \in Seated /\ pc \in Before
    BY DEF OutageSustained, Cooldown, Seated, Guarding, Before, Undecided
  <2> QED BY <2>1, SeatedRow DEF Inv, TypeOK, Newest
<1>2. ~StoreFails
  BY <1>1 DEF StoreFails
<1>3. CASE OutageSustained
  <2>1. ~Sustained /\ ending' = "unsustained"
    BY <1>2, <1>3, CloseType, EndingNamesType DEF OutageSustained, Goto, Closing
  <2> QED BY <1>1, <2>1, UnsustainedForCause
<1>4. CASE Cooldown
  <2>1. WithinCooldown /\ ending' = "skipped"
    BY <1>2, <1>4, CloseType, EndingNamesType DEF Cooldown, Goto, Closing
  <2>2. PICK i \in hot : /\ runs[i].action = "reboot"
                         /\ runs[i].rebootStartedAt # None
                         /\ now - runs[i].rebootStartedAt < RebootCooldown
    BY <2>1 DEF WithinCooldown
  <2>3. PICK k \in DOMAIN reboots :
           reboots[k] = [run |-> i, at |-> runs[i].rebootStartedAt]
    BY <1>1, <2>2 DEF StampsPerformed, Performed
  <2>4. Recorded(k) /\ now - reboots[k].at < RebootCooldown
    BY <2>2, <2>3 DEF Recorded
  <2>5. i # run
    BY <1>1, <2>2 DEF Blank
  <2>6. reboots[k].run < run
    BY <1>1, <2>3, <2>5
  <2> QED BY <2>1, <2>4, <2>6 DEF RecentReboot
<1> QED BY <1>3, <1>4

LEMMA FollowedNext ==
    ASSUME Inv, Knows, Blank, StampsPerformed, Newest, DownIsFalse, Followed,
           [Next]_vars, faults' = 0
    PROVE  Followed'
<1>1. CASE UNCHANGED vars
  <2>1. (pc \in {"initiate", "request"} \cup Recovering => runs[run].action = "reboot")'
    BY <1>1 DEF vars, Followed
  <2>2. /\ \A r : StreakBroken(r)' <=> StreakBroken(r)
        /\ \A r, t : RecentReboot(r, t)' <=> RecentReboot(r, t)
        /\ AllDown(seen)' <=> AllDown(seen)
    BY <1>1 DEF vars, StreakBroken, Broken, Saw, AllDown, RecentReboot, Recorded
  <2>3. UNCHANGED <<pc, mode, enabled, runs, run, ending, now, seen>>
    BY <1>1 DEF vars
  <2> QED BY <2>1, <2>2, <2>3 DEF Followed
<1>2. CASE ~UNCHANGED vars
  <2>1. ASSUME pc' \in {"initiate", "request"} \cup Recovering
        PROVE  runs'[run'].action = "reboot"
    <3>1. CASE MarkAction
      <4> DEFINE row == [runs[run] EXCEPT !.action = "reboot"]
      <4>1. pc \in Seated /\ runs[run] \in Rows /\ run' = run /\ UpdateRun(row)
        BY <3>1, SeatedRow DEF MarkAction, Seated, Acting
      <4>2. row \in Rows
        BY <4>1, RowType
      <4>3. row.action = "reboot"
        BY <4>1 DEF Rows
      <4> HIDE DEF row
      <4> QED BY <4>1, <4>2, <4>3, WorkingUpdate
    <3>2. CASE ~MarkAction
      <4>1. /\ pc \in {"initiate", "request"} \cup Recovering /\ run' = run
        BY <1>2, <2>1, <3>2, ComesFrom DEF Initiate, Reboot, StampReboot, PollGateway,
           PollInternet, Recovering
      <4>2. run \in 1..Len(runs) /\ runs[run].action = "reboot" /\ pc # "settle"
        BY <4>1, SeatedRow DEF Followed, Seated, Acting, Recovering
      <4> QED BY <4>1, <4>2, StepFrame DEF Frame, RowKeeps
    <3> QED BY <3>1, <3>2
  <2>2. ASSUME pc' \in Closing, mode' = "soft", AllDown(seen)', enabled'
        PROVE  \/ runs'[run'].action = "reboot" /\ Endings[ending'].action = "keep"
               \/ ending' = "unsustained" /\ StreakBroken(run)'
               \/ ending' = "skipped" /\ RecentReboot(run, now)'
    <3>1. /\ UNCHANGED <<runs, run, seen, mode, enabled, now>> /\ pc \in Seated
          /\ run \in 1..Len(runs)
      <4>1. /\ UNCHANGED <<runs, run, seen, mode, enabled, now>> /\ pc \in Seated
        BY <1>2, <2>2, ComesFrom DEF Decide, OutageSustained, Cooldown, Reboot, PollInternet,
           ShouldAnnounce, Say, store, setting, Seated, Guarding, Acting, Recovering, Closing
      <4> QED BY <4>1, SeatedRow
    <3>2. AllDown(seen) /\ mode = "soft" /\ enabled
      BY <2>2, <3>1 DEF AllDown
    <3>3. now \in Nat /\ (StreakBroken(run) => StreakBroken(run)')
          /\ (RecentReboot(run, now) => RecentReboot(run, now)')
      <4>1. now \in Nat
        BY DEF Inv, TypeOK
      <4>2. PICK r \in 1..Len(runs), t \in Nat : r = run /\ t = now
        BY <3>1, <4>1
      <4>3. /\ StreakBroken(r) => StreakBroken(r)'
            /\ RecentReboot(r, t) => RecentReboot(r, t)'
        BY CauseKept
      <4>4. /\ StreakBroken(r)' <=> StreakBroken(run)'
            /\ RecentReboot(r, t)' <=> RecentReboot(run, now)'
        BY <3>1, <4>2 DEF StreakBroken, RecentReboot, Recorded, Broken
      <4> QED BY <4>1, <4>2, <4>3, <4>4
    <3>4. CASE Decide
      <4>1. IsDown(Result)
        BY <3>2, <3>4 DEF Decide, Inv, TypeOK, Control, Seated, AllDown, Result
      <4> QED BY <3>2, <3>4, <4>1, <2>2 DEF Decide, DecideSoft, IsDown, IsDegraded, Goto,
              Closing
    <3>5. CASE OutageSustained \/ Cooldown
      BY <2>2, <3>3, <3>5, FollowedGuards
    <3>6. CASE Reboot \/ PollInternet
      <4>1. runs[run].action = "reboot"
        BY <3>6 DEF Reboot, PollInternet, Followed, Recovering
      <4>2. ending' \in {"failed", "completed", "timeout"}
        BY <2>2, <3>6, CloseType, EndingNamesType DEF Reboot, PollInternet, Goto, Closing
      <4>3. Endings[ending'].action = "keep"
        BY <4>2 DEF Endings, Ending
      <4> QED BY <3>1, <4>1, <4>3
    <3>7. CASE ShouldAnnounce \/ Say
      <4>1. pc \in Closing /\ ending' = ending
        BY <3>7 DEF ShouldAnnounce, Say, Goto, Closing
      <4> QED BY <3>1, <3>2, <3>3, <4>1 DEF Followed
    <3> QED BY <1>2, <2>2, <3>4, <3>5, <3>6, <3>7, ComesFrom
  <2> QED BY <2>1, <2>2 DEF Followed
<1> QED BY <1>1, <1>2

\* A closed row has been acted upon when it was closed, and stays so.
OutagesActedUpon == \A r \in 1..Len(runs) : SawOutage(r) => ActedUpon(r)

LEMMA OutagesNext ==
    ASSUME Inv, RowOpen, Newest, Blind, Followed, OutagesActedUpon,
           FALSE \notin RebootEnabledValues, [Next]_vars, faults' = 0
    PROVE  OutagesActedUpon'
<1> SUFFICES ASSUME NEW r \in 1..Len(runs'), SawOutage(r)' PROVE ActedUpon(r)'
  BY DEF OutagesActedUpon
<1>1. /\ runs'[r].finishedAt # None /\ runs'[r].mode = "soft"
      /\ AllDown(samples'[r])
  BY DEF SawOutage, AllDown
<1>2. r \in 1..Len(runs) /\ Frame /\ TypeOK
  BY <1>1, RowAdded, StepFrame DEF NewRow, Inv
<1>3. CASE runs[r].finishedAt # None
  <2>1. runs'[r] = runs[r]
    <3>1. r \in DOMAIN runs
      BY <1>2 DEF TypeOK
    <3> QED BY <1>3, <3>1, ClosedRowsNext DEF ClosedRowsKept
  <2>2. samples'[r] = samples[r]
    <3>1. pc = "confirm" => r # run
      BY <1>3 DEF RowOpen, Seated
    <3> QED BY <1>2, <3>1 DEF Frame
  <2>3. ActedUpon(r)
    BY <1>1, <1>2, <2>1, <2>2 DEF SawOutage, AllDown, OutagesActedUpon
  <2>4. /\ StreakBroken(r) => StreakBroken(r)'
        /\ \A t \in Nat : RecentReboot(r, t) => RecentReboot(r, t)'
    BY <1>2, CauseKept
  <2>5. PICK t \in Nat : t = runs[r].finishedAt
    <3>1. runs[r] \in Rows
      BY <1>2, RowAt
    <3> QED BY <1>3, <3>1 DEF Rows, Timestamps
  <2>6. RecentReboot(r, t)' => RecentReboot(r, runs[r].finishedAt)'
    BY <2>1, <2>5 DEF RecentReboot
  <2> QED BY <2>1, <2>3, <2>4, <2>5, <2>6 DEF ActedUpon
<1>4. CASE runs[r].finishedAt = None
  <2>1. r = run /\ pc = "settle" /\ runs' # runs
    BY <1>1, <1>2, <1>4 DEF Frame, RowKeeps
  <2>2. Settle
    BY <2>1 DEF Next, Step, StartRun, Probe, InsertRun, Confirm, Clear, Decide,
       OutageSustained, Cooldown, MarkAction, Initiate, Reboot, StampReboot, PollGateway,
       PollInternet, ShouldAnnounce, Say, Crash, Finished, vars, store
  <2>3. /\ pc \in Closing /\ samples' = samples /\ samples[run] = seen
        /\ runs[run].mode = mode /\ UNCHANGED <<run, now>> /\ now \in Nat
    BY <2>2 DEF Settle, Inv, TypeOK, Control, Closing, Seated
  <2>4. mode = "soft" /\ AllDown(seen) /\ enabled
    BY <1>1, <1>2, <2>1, <2>3 DEF Frame, RowKeeps, Blind
  <2>5. \/ runs[run].action = "reboot" /\ Endings[ending].action = "keep"
        \/ ending = "unsustained" /\ StreakBroken(run)
        \/ ending = "skipped" /\ RecentReboot(run, now)
    BY <2>3, <2>4 DEF Followed
  <2>6. /\ runs'[run].finishedAt = now /\ runs'[run].outcome = Endings[ending].outcome
        /\ runs'[run].action = IF Endings[ending].action = "keep" THEN runs[run].action
                               ELSE Endings[ending].action
    BY <2>2, SettleStory
  <2>7. /\ Endings["unsustained"].outcome = "unsustained"
        /\ Endings["skipped"].outcome = "skipped"
    BY DEF Endings, Ending
  <2>8. PICK t \in Nat : t = now
    BY <2>3
  <2>9. /\ StreakBroken(r) => StreakBroken(r)'
        /\ RecentReboot(r, t) => RecentReboot(r, t)'
    BY <1>2, CauseKept
  <2>10. RecentReboot(r, t)' => RecentReboot(r, runs[r].finishedAt)'
    BY <2>1, <2>6, <2>8 DEF RecentReboot
  <2> QED BY <2>1, <2>5, <2>6, <2>7, <2>8, <2>9, <2>10 DEF ActedUpon
<1> QED BY <1>3, <1>4

\* Nothing has been seen, and no guard has stopped a run, before the first run.
LEMMA InitOutages ==
    Init => Newest /\ Blind /\ DownIsFalse /\ Followed /\ OutagesActedUpon /\ RowOpen
BY SettingsAssumption
   DEF Init, Newest, Blind, DownIsFalse, Followed, OutagesActedUpon, RowOpen, Seated,
       Guarding, Acting, Recovering, Closing

OutageInv ==
    /\ RowOpen /\ Newest /\ Blind /\ DownIsFalse
    /\ faults = 0 => Followed
    /\ faults = 0 /\ FALSE \notin RebootEnabledValues => OutagesActedUpon

LEMMA OutageInvNext == Inv /\ Knows /\ TimelineInv /\ OutageInv /\ [Next]_vars => OutageInv'
<1> SUFFICES ASSUME Inv, Knows, TimelineInv, OutageInv, [Next]_vars PROVE OutageInv'
  OBVIOUS
<1>1. RowOpen' /\ Newest' /\ Blind' /\ DownIsFalse'
  BY RowOpenNext, NewestNext, BlindNext, DownIsFalseNext DEF OutageInv
<1>2. faults' = 0 => faults = 0
  BY OutboxGrows
<1>3. faults' = 0 => Followed'
  BY <1>2, FollowedNext DEF OutageInv, TimelineInv
<1>4. faults' = 0 /\ FALSE \notin RebootEnabledValues => OutagesActedUpon'
  BY <1>2, OutagesNext DEF OutageInv
<1> QED BY <1>1, <1>3, <1>4 DEF OutageInv

LEMMA OutageAlways == Spec => []OutageInv
<1>1. Init => OutageInv
  BY InitOutages DEF OutageInv
<1> QED BY <1>1, OutageInvNext, InvAlways, KnowsAlways, TimelineAlways, PTL DEF Spec

\* No fault of the store yet: a soft run that saw the link down to the end, and
\* closed, asked for the reboot, unless a run its streak needs did not see the
\* outage or is archived, or a reboot on record was recent (softFlow,
\* outageSustained).
THEOREM OutageActedUponHolds == Spec => [](faults = 0 => OutageActedUpon)
<1>1. Inv /\ OutageInv => (faults = 0 => OutageActedUpon)
  BY OutageParts DEF OutageInv, OutagesActedUpon, Inv
<1> QED BY <1>1, InvAlways, OutageAlways, PTL

(***************************************************************************)
(* The streak after the re-probes.  It takes a store that works and runs   *)
(* that end: a cleared verdict corrects internet_ok by a write of its own. *)
(***************************************************************************)
LastDown(p) == samples[p] # <<>> /\ IsDown(samples[p][Len(samples[p])])

Rechecked(r) == \A p \in r - (RebootMinStreak - 1) .. r - 1 : p > 0 /\ LastDown(p)

\* internet_ok is false only where the last probe was down, or the correction
\* is the next call.
FalseIsRechecked ==
    \A p \in 1..Len(runs) : runs[p].internetOK = "false" =>
       LastDown(p) \/ (p = run /\ pc = "clear")

StreakRechecked == pc \in {"cooldown"} \cup Acting /\ mode = "soft" => Rechecked(run)

RecheckInv == faults = 0 /\ crashes = 0 =>
    FalseIsRechecked /\ StreakRechecked /\ RebootCorroboratedAfterRecheck

LEMMA CrashesGrow == Inv /\ [Next]_vars /\ crashes' = 0 => crashes = 0 /\ ~Crash
<1> SUFFICES ASSUME Inv, [Next]_vars, crashes' = 0 PROVE crashes = 0 /\ ~Crash
  OBVIOUS
<1>1. crashes \in Nat
  BY DEF Inv, TypeOK
<1>2. ~Crash
  BY <1>1 DEF Crash
<1> QED BY <1>2 DEF Next, Step, StartRun, Probe, InsertRun, Confirm, Clear, Decide,
     OutageSustained, Cooldown, MarkAction, Initiate, Reboot, StampReboot, PollGateway,
     PollInternet, ShouldAnnounce, Say, Settle, Finished, budget, vars

LEMMA FalseIsRecheckedNext ==
    ASSUME Inv, FalseIsRechecked, [Next]_vars, faults' = 0, ~Crash
    PROVE  FalseIsRechecked'
<1> SUFFICES ASSUME NEW p \in 1..Len(runs'), runs'[p].internetOK = "false",
                    ~(p = run' /\ pc' = "clear")
             PROVE  LastDown(p)'
  BY DEF FalseIsRechecked
<1>1. CASE p \notin 1..Len(runs)
  <2>1. p = Len(runs) + 1 /\ samples'[p] = seen
    BY <1>1, RowAdded
  <2>2. Len(seen) = 1 /\ IsDown(seen[1])
    BY <1>1, <2>1, RowsAfter
  <2>3. seen # <<>> /\ IsDown(seen[Len(seen)])
    BY <2>2, EmptySeq
  <2> QED BY <2>1, <2>3 DEF LastDown
<1>2. CASE p \in 1..Len(runs) /\ ~(p = run /\ pc \in {"confirm", "clear"})
  <2>1. /\ samples'[p] = samples[p] /\ RowKeeps(runs[p], runs'[p])
        /\ p # run => runs'[p] = runs[p]
    BY <1>2, StepFrame DEF Frame
  <2>2. runs[p].internetOK = "false"
    BY <1>2, <2>1 DEF RowKeeps
  <2>3. LastDown(p)
    BY <1>2, <2>2 DEF FalseIsRechecked
  <2> QED BY <2>1, <2>3 DEF LastDown
<1>3. CASE p \in 1..Len(runs) /\ p = run /\ pc = "confirm"
  <2>1. Confirm \/ UNCHANGED vars
    BY <1>3 DEF Next, Step, StartRun, Probe, InsertRun, Clear, Decide, OutageSustained,
       Cooldown, MarkAction, Initiate, Reboot, StampReboot, PollGateway, PollInternet,
       ShouldAnnounce, Say, Settle, Finished
  <2>2. CASE Confirm
    <3>1. samples' = [samples EXCEPT ![run] = seen'] /\ run' = run
      BY <2>2 DEF Confirm
    <3>2. IsDown(Result')
      BY <1>3, <2>2, <3>1 DEF Confirm, Goto
    <3>3. PICK v : seen' = Append(seen, v)
      BY <2>2 DEF Confirm, Check
    <3>4. seen' # <<>> /\ samples'[run] = seen'
      <4>1. seen \in Seq(States) /\ run \in DOMAIN samples
        BY <1>3 DEF Inv, TypeOK
      <4> QED BY <3>1, <3>3, <4>1
    <3> QED BY <1>3, <3>2, <3>4 DEF LastDown, Result
  <2>3. CASE UNCHANGED vars
    BY <1>3, <2>3 DEF vars, FalseIsRechecked, LastDown
  <2> QED BY <2>1, <2>2, <2>3
<1>4. CASE p \in 1..Len(runs) /\ p = run /\ pc = "clear"
  <2>1. Clear
    BY <1>4 DEF Next, Step, StartRun, Probe, InsertRun, Confirm, Decide, OutageSustained,
       Cooldown, MarkAction, Initiate, Reboot, StampReboot, PollGateway, PollInternet,
       ShouldAnnounce, Say, Settle, Finished, vars
  <2> DEFINE row == [runs[run] EXCEPT !.internetOK = "true"]
  <2>2. pc \in Seated /\ runs[run] \in Rows /\ UpdateRun(row)
    BY <2>1, SeatedRow DEF Clear, Seated
  <2>3. row \in Rows /\ row.internetOK = "true"
    <3>1. row \in Rows
      BY <2>2, RowType
    <3>2. row.internetOK = "true"
      BY <2>2 DEF Rows
    <3> QED BY <3>1, <3>2
  <2> HIDE DEF row
  <2>4. runs'[run] = row
    BY <2>2, <2>3, WorkingUpdate
  <2> QED BY <1>4, <2>3, <2>4
<1> QED BY <1>1, <1>2, <1>3, <1>4

\* The runs before this one are over, and their probes stand.
LEMMA RecheckedAfter ==
    ASSUME Inv, Newest, [Next]_vars, NEW r \in 1..Len(runs), Rechecked(r)
    PROVE  Rechecked(r)'
<1> SUFFICES ASSUME NEW p \in r - (RebootMinStreak - 1) .. r - 1
             PROVE  p > 0 /\ LastDown(p)'
  BY DEF Rechecked
<1>1. p > 0 /\ LastDown(p)
  BY DEF Rechecked
<1>2. p \in 1..r - 1
  BY <1>1, SettingsAssumption DEF Inv, TypeOK
<1> QED BY <1>1, <1>2, OlderKept DEF LastDown

LEMMA SustainedIsRechecked ==
    ASSUME TypeOK, HotIsNewest, FalseIsRechecked, run \in 1..Len(runs), pc # "clear",
           Sustained
    PROVE  Rechecked(run)
<1> DEFINE n == RebootMinStreak - 1
<1>1. n \in Nat /\ run \in Int /\ hot \subseteq 1..Len(runs) /\ Len(runs) \in Nat
  BY SettingsAssumption DEF TypeOK
<1>2. RecentRuns(n) = run - n .. run - 1
  BY <1>1, RecentRunsAreLast DEF Sustained
<1>3. \A p \in run - n .. run - 1 : p \in 1..Len(runs) /\ runs[p].internetOK = "false"
  BY <1>1, <1>2 DEF Sustained, RecentRuns
<1>4. \A p \in run - n .. run - 1 : p > 0 /\ LastDown(p)
  BY <1>1, <1>3 DEF FalseIsRechecked
<1> QED BY <1>4 DEF Rechecked

LEMMA StreakRecheckedNext ==
    ASSUME Inv, HotIsNewest, FalseIsRechecked, Newest, StreakRechecked, [Next]_vars,
           pc' \in {"cooldown"} \cup Acting, mode' = "soft"
    PROVE  Rechecked(run)'
<1>1. CASE UNCHANGED vars
  BY <1>1 DEF vars, StreakRechecked, Rechecked, LastDown
<1>2. CASE ~UNCHANGED vars
  <2>1. OutageSustained \/ Cooldown \/ MarkAction \/ Initiate
    <3>1. Decide => pc' # "mark"
      BY CloseType, EndingNamesType DEF Decide, DecideHard, DecideSoft, Goto, setting,
         Closing
    <3> QED BY <1>2, <3>1, ComesFrom DEF Acting
  <2>2. /\ run' = run /\ mode' = mode /\ pc # "clear"
        /\ pc \in {"streak", "cooldown"} \cup Acting
    BY <2>1 DEF OutageSustained, Cooldown, MarkAction, Initiate, setting, Acting
  <2>3. run \in 1..Len(runs)
    BY <2>2, SeatedRow DEF Seated, Guarding, Acting
  <2>4. Rechecked(run)
    <3>1. CASE OutageSustained
      <4>1. Sustained
        BY <3>1, CloseType, EndingNamesType DEF OutageSustained, Closing, Acting
      <4> QED BY <2>2, <2>3, <4>1, SustainedIsRechecked DEF Inv
    <3>2. CASE Cooldown \/ MarkAction \/ Initiate
      BY <2>2, <3>2 DEF StreakRechecked, Cooldown, MarkAction, Initiate, Acting
    <3> QED BY <2>1, <3>1, <3>2
  <2> QED BY <2>2, <2>3, <2>4, RecheckedAfter DEF Rechecked, LastDown
<1> QED BY <1>1, <1>2

LEMMA AfterRecheckNext ==
    ASSUME Inv, Newest, StreakRechecked, RebootCorroboratedAfterRecheck, [Next]_vars
    PROVE  RebootCorroboratedAfterRecheck'
<1> SUFFICES ASSUME NEW k \in SoftReboots', NEW r, r = reboots'[k].run
             PROVE  Rechecked(r)'
  BY DEF RebootCorroboratedAfterRecheck, Rechecked, LastDown
<1>1. Frame /\ TypeOK
  BY StepFrame DEF Inv
<1>2. k \in DOMAIN reboots' /\ runs'[reboots'[k].run].mode = "soft"
  BY DEF SoftReboots
<1>3. CASE k \in DOMAIN reboots /\ reboots'[k] = reboots[k]
  <2>1. r \in 1..Len(runs)
    BY <1>1, <1>3, RebootsType
  <2>2. Rechecked(r)
    BY <1>1, <1>2, <1>3, <2>1
       DEF SoftReboots, Frame, RowKeeps, RebootCorroboratedAfterRecheck, Rechecked, LastDown
  <2> QED BY <2>1, <2>2, RecheckedAfter
<1>4. CASE pc = "request" /\ reboots'[k] = [run |-> run, at |-> now]
  <2>1. run \in 1..Len(runs) /\ runs[run].mode = mode
    BY <1>4 DEF Inv, Control, Seated, Acting
  <2>2. Rechecked(run)
    BY <1>1, <1>2, <1>4, <2>1 DEF Frame, RowKeeps, StreakRechecked, Acting
  <2>3. r = run
    BY <1>4
  <2> QED BY <2>1, <2>2, <2>3, RecheckedAfter
<1> QED BY <1>1, <1>2, <1>3, <1>4, RebootsAfter

LEMMA RecheckInvNext ==
    Inv /\ StreakInv /\ Newest /\ RecheckInv /\ [Next]_vars => RecheckInv'
<1> SUFFICES ASSUME Inv, StreakInv, Newest, RecheckInv, [Next]_vars,
                    faults' = 0, crashes' = 0
             PROVE  /\ FalseIsRechecked' /\ StreakRechecked'
                    /\ RebootCorroboratedAfterRecheck'
  BY DEF RecheckInv
<1>1. FalseIsRechecked /\ StreakRechecked /\ RebootCorroboratedAfterRecheck /\ ~Crash
  BY OutboxGrows, CrashesGrow DEF RecheckInv
<1>2. FalseIsRechecked' /\ RebootCorroboratedAfterRecheck'
  BY <1>1, FalseIsRecheckedNext, AfterRecheckNext
<1>3. StreakRechecked'
  BY <1>1, StreakRecheckedNext DEF StreakRechecked, StreakInv
<1> QED BY <1>2, <1>3

LEMMA InitRecheck == Init => RecheckInv
BY DEF Init, RecheckInv, FalseIsRechecked, StreakRechecked, Acting,
       RebootCorroboratedAfterRecheck, SoftReboots

\* While nothing has failed and the clock is not set back between runs, the
\* REBOOT_MIN_STREAK - 1 runs before the one that rebooted were still down at the
\* end of their re-probes (confirmDown, outageSustained).
THEOREM HealthyCorroborationHolds ==
    ASSUME Gaps \subseteq Nat
    PROVE  Spec => []HealthyCorroboration
<1>1. OutageInv => Newest
  BY DEF OutageInv
<1>2. RecheckInv => HealthyCorroboration
  BY DEF RecheckInv, HealthyCorroboration
<1> QED BY <1>1, <1>2, InitRecheck, InvAlways, OutageAlways, StreakAlways, RecheckInvNext,
         PTL DEF Spec

(***************************************************************************)
(* Episodes.  While every row is hot, shouldAnnounce reads the row just    *)
(* before this one; so each row tells its own part of the story.           *)
(***************************************************************************)
EpisodeOutcomes == {"degraded", "skipped"}
NewsOf(r, outcome) == r = 1 \/ runs[r - 1].outcome # outcome

\* A row has no outcome until its run settles.
Unsettled == pc \in Seated => runs[run].outcome = "null"

\* A run has told nothing until it closes, then what is news, and only that.
Telling ==
    /\ pc \in Seated \ {"settle"} => ~Told(run)
    /\ pc \in Closing => ending # "unknown"
    /\ pc = "say" /\ Endings[ending].outcome \in EpisodeOutcomes =>
          NewsOf(run, Endings[ending].outcome)
    /\ pc = "settle" /\ Endings[ending].outcome \in EpisodeOutcomes =>
          (Told(run) <=> NewsOf(run, Endings[ending].outcome))

ToldOnce ==
    \A r \in 1..Len(runs) : runs[r].outcome \in EpisodeOutcomes =>
       (Told(r) <=> NewsOf(r, runs[r].outcome))

EpisodeInv ==
    Unsettled /\ (faults = 0 /\ hot = 1..Len(runs) => Telling /\ ToldOnce)

\* The endings that leave one of the announced outcomes.
LEMMA AnnouncedEndings ==
    \A e \in EndingNames :
       /\ Endings[e].outcome \in EpisodeOutcomes /\ e # "unknown" =>
             Endings[e].gated /\ Endings[e].msg \in {"degraded", "skipping"}
       /\ Endings[e].outcome # "null"
BY DEF EndingNames, Endings, Ending, EpisodeOutcomes

\* With every row hot, the run before this one is the row before it.
LEMMA NewsIsNewsOf ==
    ASSUME TypeOK, hot = 1..Len(runs), run \in 1..Len(runs)
    PROVE  News <=> NewsOf(run, Endings[ending].outcome)
<1>1. run \in Int /\ Len(runs) \in Nat
  BY DEF TypeOK
<1>2. ASSUME NEW i \in RecentRuns(1) PROVE i = run - 1
  <2> DEFINE between == {j \in hot : i < j /\ j < run}
  <2>1. i \in hot /\ i < run /\ Cardinality(between) < 1
    BY Zenon DEF RecentRuns
  <2>2. IsFiniteSet(between)
    <3>1. IsFiniteSet(1..Len(runs))
      BY <1>1, FS_Interval
    <3> QED BY <3>1, FS_Subset
  <2>3. between = {}
    <3>1. Cardinality(between) \in Nat
      BY <2>2, FS_CardinalityType
    <3> HIDE DEF between
    <3> QED BY <2>1, <2>2, <3>1, FS_EmptySet
  <2>4. ~(i < run - 1)
    <3>1. i < run - 1 => run - 1 \in between
      <4>1. i \in 1..Len(runs)
        BY <2>1
      <4> QED BY <1>1, <4>1
    <3> QED BY <2>3, <3>1
  <2> QED BY <1>1, <2>1, <2>4
<1>3. run # 1 => run - 1 \in RecentRuns(1)
  <2> DEFINE between == {j \in hot : run - 1 < j /\ j < run}
  <2>1. between = {}
    BY <1>1
  <2>2. Cardinality(between) = 0
    <3> HIDE DEF between
    <3> QED BY <2>1, FS_EmptySet
  <2>3. Cardinality(between) < 1
    <3> HIDE DEF between
    <3> QED BY <2>2
  <2>4. run # 1 => run - 1 \in hot /\ run - 1 < run
    BY <1>1
  <2> QED BY <2>3, <2>4, Zenon DEF RecentRuns
<1>4. run - 1 \in RecentRuns(1) => run # 1
  BY <1>1 DEF RecentRuns
<1> QED BY <1>2, <1>3, <1>4 DEF News, NewsOf

\* A row that is there keeps its outcome, unless its run settles.
LEMMA OutcomeKept ==
    ASSUME Inv, [Next]_vars, NEW r \in 1..Len(runs), ~(Settle /\ r = run)
    PROVE  runs'[r].outcome = runs[r].outcome
<1>1. CASE r # run \/ pc \notin {"stamp", "poll", "settle"}
  BY <1>1, StoryKept DEF SameStory
<1>2. CASE r = run /\ pc \in {"stamp", "poll", "settle"} /\ runs' # runs
  <2>1. StampReboot \/ PollGateway
    BY <1>2 DEF Next, Step, vars, store, StartRun, Probe, InsertRun, Confirm, Clear,
       Decide, OutageSustained, Cooldown, MarkAction, Initiate, Reboot, PollInternet,
       ShouldAnnounce, Say, Settle, Crash, Finished
  <2> QED BY <1>2, <2>1, StampStory, PollStory
<1> QED BY <1>1, <1>2

LEMMA UnsettledNext == Inv /\ Unsettled /\ [Next]_vars => Unsettled'
<1> SUFFICES ASSUME Inv, Unsettled, [Next]_vars, pc' \in Seated
             PROVE  runs'[run'].outcome = "null"
  BY DEF Unsettled
<1>1. CASE pc \in Seated /\ run' = run
  <2>1. run \in 1..Len(runs) /\ runs[run].outcome = "null"
    BY <1>1, SeatedRow DEF Unsettled
  <2>2. ~Settle
    BY DEF Settle, Goto, Seated, Guarding, Acting, Recovering, Closing
  <2> QED BY <1>1, <2>1, <2>2, OutcomeKept
<1>2. CASE pc = "insert" /\ run' = Len(runs) + 1 /\ Len(runs') = Len(runs) + 1
  <2>1. run' \in 1..Len(runs') /\ run' \notin 1..Len(runs)
    BY <1>2 DEF Inv, TypeOK
  <2> QED BY <2>1, RowAdded DEF NewRow
<1> QED BY <1>1, <1>2, SeatedAfter

\* Only the message of an ending tells, and only of its run.
LEMMA ToldAfter ==
    ASSUME Inv, [Next]_vars, NEW r, ~(Say /\ r = run)
    PROVE  Told(r)' <=> Told(r)
<1>1. CASE outbox' = outbox
  BY <1>1 DEF Told
<1>2. CASE outbox' # outbox
  <2>1. Initiate \/ Say
    BY <1>2 DEF Next, Step, vars, store, StartRun, Probe, InsertRun, Confirm, Clear, Decide,
       OutageSustained, Cooldown, MarkAction, Reboot, StampReboot, PollGateway,
       PollInternet, ShouldAnnounce, Settle, Crash, Finished
  <2>2. CASE Initiate
    BY <1>2, <2>2 DEF Initiate, Notify, Told
  <2>3. CASE Say
    BY <1>2, <2>3 DEF Say, Notify, Told
  <2> QED BY <2>1, <2>2, <2>3
<1> QED BY <1>1, <1>2

\* ... and what is news about a row does not change.
LEMMA NewsOfKept ==
    ASSUME Inv, Newest, [Next]_vars, NEW r \in 1..Len(runs), NEW o
    PROVE  NewsOf(r, o)' <=> NewsOf(r, o)
<1>1. r # 1 => r - 1 \in 1..r - 1
  BY DEF Inv, TypeOK
<1> QED BY <1>1, OlderKept DEF NewsOf

\* A run that begins to close takes one of the endings,
LEMMA BeginsToClose ==
    ASSUME [Next]_vars, pc' \in Closing, pc \notin Closing
    PROVE  \E e \in EndingNames : Close(e)
<1>1. ~UNCHANGED vars
  BY DEF vars
<1>2. Decide \/ OutageSustained \/ Cooldown \/ Reboot \/ PollInternet
  BY <1>1, ComesFrom DEF ShouldAnnounce, Say, Closing
<1> QED BY <1>2, EndingNamesType
     DEF Decide, DecideHard, DecideSoft, OutageSustained, Cooldown, Reboot, PollInternet,
         Goto, Closing

\* an announced one through the guard of shouldAnnounce.
LEMMA AnnouncedIsGated ==
    ASSUME NEW e \in EndingNames, Close(e), ending' # "unknown",
           Endings[ending'].outcome \in EpisodeOutcomes
    PROVE  pc' = "gate"
BY CloseType, AnnouncedEndings DEF Close, Goto

LEMMA TellingNext ==
    ASSUME Inv, Newest, hot = 1..Len(runs), Telling, [Next]_vars, faults' = 0
    PROVE  Telling'
<1>1. faults \in Nat /\ TypeOK /\ ~StoreFails /\ run \in Int
  BY DEF Inv, TypeOK, StoreFails
<1>2. PICK r : r = run'
  OBVIOUS
<1>3. Told(r)' <=> Told(run)'
  BY <1>2 DEF Told
<1>4. pc' \in Seated \ {"settle"} => ~Told(r)'
  <2> SUFFICES ASSUME pc' \in Seated, pc' # "settle" PROVE ~Told(r)'
    OBVIOUS
  <2>1. ~Say
    BY DEF Say, Goto
  <2>2. CASE pc \in Seated /\ run' = run /\ pc # "settle"
    BY <1>2, <2>1, <2>2, ToldAfter DEF Telling
  <2>3. CASE run' = Len(runs) + 1
    <3>1. ~Told(r)
      BY <1>2, <2>3 DEF Told, Inv, TypeOK
    <3> QED BY <2>1, <3>1, ToldAfter
  <2>4. ~(pc = "settle" /\ pc \in Seated /\ run' = run)
    BY DEF Next, Step, vars, StartRun, Probe, InsertRun, Confirm, Clear, Decide,
       OutageSustained, Cooldown, MarkAction, Initiate, Reboot, StampReboot, PollGateway,
       PollInternet, ShouldAnnounce, Say, Settle, Crash, Finished, Goto, Seated, Guarding,
       Acting, Recovering, Closing
  <2> QED BY <2>2, <2>3, <2>4, SeatedAfter
<1>5. pc' \in Closing => ending' # "unknown"
  <2> SUFFICES ASSUME pc' \in Closing PROVE ending' # "unknown"
    OBVIOUS
  <2>1. CASE UNCHANGED vars \/ ShouldAnnounce \/ Say
    BY <2>1 DEF Telling, vars, ShouldAnnounce, Say, Goto, Closing
  <2>2. CASE Decide \/ OutageSustained \/ Cooldown \/ Reboot \/ PollInternet
    BY <1>1, <2>2, CloseType, EndingNamesType DEF Decide, DecideHard, DecideSoft,
       OutageSustained, Cooldown, Reboot, PollInternet, Goto, Closing
  <2> QED BY <2>1, <2>2, ComesFrom
<1>6. ASSUME pc' \in {"say", "settle"}, Endings[ending'].outcome \in EpisodeOutcomes
      PROVE  /\ UNCHANGED vars \/ ShouldAnnounce \/ Say
             /\ pc \in Closing /\ ending' = ending /\ ending # "unknown"
             /\ run' = run /\ run \in 1..Len(runs) /\ r \in 1..Len(runs)
  <2>1. pc' \in Closing /\ ending' # "unknown"
    BY <1>5, <1>6 DEF Closing
  <2>2. pc \in Closing
    BY <1>6, <2>1, BeginsToClose, AnnouncedIsGated
  <2>3. UNCHANGED vars \/ ShouldAnnounce \/ Say
    BY <2>1, <2>2, ComesFrom DEF Closing, Decide, OutageSustained, Cooldown, Reboot,
       PollInternet
  <2>4. ending' = ending /\ run' = run
    BY <2>3 DEF vars, ShouldAnnounce, Say, Goto
  <2> QED BY <1>2, <2>1, <2>2, <2>3, <2>4, SeatedRow DEF Seated
<1>7. ASSUME pc' = "say", Endings[ending'].outcome \in EpisodeOutcomes
      PROVE  NewsOf(run, Endings[ending].outcome)'
  <2>1. CASE UNCHANGED vars
    BY <1>7, <2>1 DEF vars, Telling, NewsOf
  <2>2. CASE ShouldAnnounce
    <3>1. News /\ UNCHANGED <<runs, run, ending>>
      BY <1>1, <1>7, <2>2 DEF ShouldAnnounce, Goto, store
    <3>2. NewsOf(run, Endings[ending].outcome)
      BY <1>1, <1>6, <1>7, <3>1, NewsIsNewsOf
    <3> QED BY <3>1, <3>2 DEF NewsOf
  <2>3. ~Say
    BY <1>7 DEF Say, Goto
  <2> QED BY <1>6, <1>7, <2>1, <2>2, <2>3
<1>8. ASSUME pc' = "settle", Endings[ending'].outcome \in EpisodeOutcomes
      PROVE  Told(run)' <=> NewsOf(run, Endings[ending].outcome)'
  <2>1. CASE UNCHANGED vars
    BY <1>8, <2>1 DEF vars, Telling, NewsOf, Told
  <2>2. CASE ShouldAnnounce
    <3>1. ~News /\ UNCHANGED <<runs, run, ending, outbox>> /\ pc = "gate"
      BY <1>1, <1>8, <2>2 DEF ShouldAnnounce, Goto, store
    <3>2. ~NewsOf(run, Endings[ending].outcome)
      BY <1>1, <1>6, <1>8, <3>1, NewsIsNewsOf
    <3>3. ~Told(run)
      BY <3>1 DEF Telling, Seated, Closing
    <3> QED BY <3>1, <3>2, <3>3 DEF NewsOf, Told
  <2>3. CASE Say
    <3>1. /\ UNCHANGED <<runs, run, ending>> /\ pc = "say"
          /\ outbox' = outbox \cup {[run |-> run, msg |-> Endings[ending].msg]}
      BY <1>1, <2>3 DEF Say, Notify, Goto
    <3>2. ending \in EndingNames /\ ending # "unknown"
      BY <1>6, <1>8 DEF Inv, Control
    <3>3. Endings[ending].msg \in {"degraded", "skipping"}
      BY <1>8, <3>1, <3>2, AnnouncedEndings
    <3>4. Told(run)'
      BY <3>1, <3>3 DEF Told
    <3>5. NewsOf(run, Endings[ending].outcome)
      BY <1>8, <3>1 DEF Telling
    <3> QED BY <3>1, <3>4, <3>5 DEF NewsOf
  <2> QED BY <1>6, <1>8, <2>1, <2>2, <2>3
<1> QED BY <1>3, <1>4, <1>5, <1>7, <1>8 DEF Telling

LEMMA ToldOnceNext ==
    ASSUME Inv, Newest, Unsettled, Telling, ToldOnce, [Next]_vars, faults' = 0
    PROVE  ToldOnce'
<1> SUFFICES ASSUME NEW r \in 1..Len(runs'), runs'[r].outcome \in EpisodeOutcomes,
                    NEW o, o = runs'[r].outcome
             PROVE  Told(r)' <=> NewsOf(r, o)'
  BY DEF ToldOnce, NewsOf, Told
<1>1. r \in 1..Len(runs)
  BY RowAdded DEF NewRow, EpisodeOutcomes
<1>2. NewsOf(r, o)' <=> NewsOf(r, o)
  BY <1>1, NewsOfKept
<1>3. CASE ~(Settle /\ r = run)
  <2>1. runs[r].outcome = o
    BY <1>1, <1>3, OutcomeKept
  <2>2. ~(Say /\ r = run)
    BY <2>1 DEF Unsettled, EpisodeOutcomes, Say, Seated, Closing
  <2>3. Told(r)' <=> Told(r)
    BY <2>2, ToldAfter
  <2> QED BY <1>1, <1>2, <2>1, <2>3 DEF ToldOnce
<1>4. CASE Settle /\ r = run
  <2>1. pc = "settle" /\ ~Say
    BY <1>4 DEF Settle, Say
  <2>2. o = Endings[ending].outcome
    BY <1>4, SettleStory
  <2>3. Told(r)' <=> Told(r)
    BY <2>1, ToldAfter
  <2> QED BY <1>2, <1>4, <2>1, <2>2, <2>3 DEF Telling
<1> QED BY <1>3, <1>4

LEMMA EpisodeInvNext == Inv /\ Newest /\ EpisodeInv /\ [Next]_vars => EpisodeInv'
<1> SUFFICES ASSUME Inv, Newest, EpisodeInv, [Next]_vars PROVE EpisodeInv'
  OBVIOUS
<1>1. faults' = 0 => faults = 0
  BY OutboxGrows
<1>2. hot' = 1..Len(runs') => hot = 1..Len(runs)
  <2> SUFFICES ASSUME hot' = 1..Len(runs') PROVE hot = 1..Len(runs)
    OBVIOUS
  <2>1. hot \subseteq 1..Len(runs) /\ Len(runs) \in Nat /\ Len(runs') \in Nat
    <3>1. TypeOK /\ TypeOK'
      BY NextInv DEF Inv
    <3>2. runs' \in Seq(Rows) /\ runs \in Seq(Rows) /\ hot \subseteq 1..Len(runs)
      BY <3>1, Zenon DEF TypeOK
    <3> QED BY <3>2
  <2>2. \A i \in 1..Len(runs) : i \in hot'
    BY <2>1, StepFrame DEF Frame
  <2> QED BY <2>1, <2>2, HotAfter
<1>3. Unsettled'
  BY UnsettledNext DEF EpisodeInv
<1>4. faults' = 0 /\ hot' = 1..Len(runs') => Telling' /\ ToldOnce'
  BY <1>1, <1>2, TellingNext, ToldOnceNext DEF EpisodeInv
<1> QED BY <1>3, <1>4 DEF EpisodeInv

LEMMA EpisodesOfToldOnce == TypeOK /\ ToldOnce => EpisodeToldOnce
<1> SUFFICES ASSUME TypeOK, ToldOnce, NEW first \in 1..Len(runs), NEW last \in 1..Len(runs),
                    first <= last, Episode(first, last)
             PROVE  {r \in first .. last : Told(r)} = {first}
  <2>1. TypeOK => DOMAIN runs = 1..Len(runs)
    BY DEF TypeOK
  <2> QED BY <2>1 DEF EpisodeToldOnce
<1>1. Len(runs) \in Nat /\ runs[first].outcome \in EpisodeOutcomes
  BY DEF TypeOK, Episode, EpisodeOutcomes
<1>2. Told(first)
  BY <1>1 DEF ToldOnce, NewsOf, Episode
<1>3. ASSUME NEW r \in first .. last, r # first PROVE ~Told(r)
  <2>1. /\ r \in 1..Len(runs) /\ r # 1
        /\ r \in first .. last /\ r - 1 \in first .. last
    BY <1>1, <1>3
  <2>2. runs[r].outcome = runs[first].outcome /\ runs[r - 1].outcome = runs[first].outcome
    BY <2>1 DEF Episode
  <2> QED BY <1>1, <2>1, <2>2 DEF ToldOnce, NewsOf
<1> QED BY <1>1, <1>2, <1>3

\* No fault of the store yet, and no row archived: every episode of degraded or
\* skipped runs is told by its first run and by no other, whatever the crashes
\* (shouldAnnounce, finishDegraded, skipCooldown).
THEOREM EpisodeToldOnceHolds ==
    Spec => [](faults = 0 /\ hot = DOMAIN runs => EpisodeToldOnce)
<1>1. Inv /\ EpisodeInv => (faults = 0 /\ hot = DOMAIN runs => EpisodeToldOnce)
  <2>1. TypeOK => DOMAIN runs = 1..Len(runs)
    BY DEF TypeOK
  <2> QED BY <2>1, EpisodesOfToldOnce DEF Inv, EpisodeInv
<1>2. OutageInv => Newest
  BY DEF OutageInv
<1>3. Init => EpisodeInv
  BY DEF Init, EpisodeInv, Unsettled, Telling, ToldOnce, Seated, Guarding, Acting,
         Recovering, Closing
<1> QED BY <1>1, <1>2, <1>3, InvAlways, OutageAlways, EpisodeInvNext, PTL DEF Spec

(***************************************************************************)
(* The cooldown while nothing fails.  The router answers, no run dies and  *)
(* the store works, so every reboot gets its stamp; and it is archived too *)
(* late to matter.  The run lost_reply shows that the answers are needed.  *)
(***************************************************************************)
Healthy == faults = 0 /\ crashes = 0 /\ losses = 0

\* What the re-probes of a run wait for: at most, and once it has seen s.
ConfirmWindow == CheckConfirmations * CheckConfirmDelay
Waits(s) == (Len(s) - 1) * CheckConfirmDelay

\* Before it reboots a run waits only for its re-probes, so a reboot is later
\* than the row of its run by at most that window.
ActsInWindow ==
    /\ pc \in Undecided =>
          /\ mode = "hard" => now <= runs[run].startedAt
          /\ mode = "soft" => now <= runs[run].startedAt + Waits(seen)
    /\ \A k \in DOMAIN reboots :
          reboots[k].at <= runs[reboots[k].run].startedAt + ConfirmWindow

ColdIsOld == \A i \in 1..Len(runs) : i \notin hot => now - runs[i].startedAt > HotWindow

AllRecorded ==
    Healthy => \A k \in DOMAIN reboots :
                  Recorded(k) \/ (pc = "stamp" /\ reboots[k].run = run)

\* No soft reboot within the cooldown after any other, a hard one included.
SoftAfterCooldown ==
    \A k \in SoftReboots : \A j \in 1 .. k - 1 :
       reboots[k].at - reboots[j].at >= RebootCooldown

OnceInv == ActsInWindow /\ ColdIsOld /\ AllRecorded /\ (Healthy => SoftAfterCooldown)

\* No wait, and one more wait of d after n of them.
LEMMA OneMoreWait ==
    ASSUME NEW n \in Nat, NEW d \in Nat
    PROVE  0 * d = 0 /\ n * d \in Nat /\ (n + 1) * d = n * d + d
OBVIOUS

\* The waits grow from nothing to the window, one delay with each re-probe.
LEMMA WaitsGrow ==
    ASSUME NEW s, NEW t, Len(s) \in Nat \ {0}, Len(t) = Len(s) + 1
    PROVE  /\ Waits(s) \in Nat /\ CheckConfirmDelay \in Nat
           /\ Waits(t) = Waits(s) + CheckConfirmDelay
<1> DEFINE n == Len(s) - 1
<1>1. n \in Nat /\ CheckConfirmations \in Nat /\ CheckConfirmDelay \in Nat
  BY SettingsAssumption
<1>2. /\ 0 * CheckConfirmDelay = 0
      /\ n * CheckConfirmDelay \in Nat
      /\ CheckConfirmations * CheckConfirmDelay \in Nat
      /\ (n + 1) * CheckConfirmDelay = n * CheckConfirmDelay + CheckConfirmDelay
  BY <1>1, OneMoreWait
<1>3. Waits(s) = n * CheckConfirmDelay
  BY DEF Waits
<1>4. Waits(t) = (n + 1) * CheckConfirmDelay
  <2>1. Len(t) - 1 = n + 1
    BY <1>1
  <2> QED BY <2>1 DEF Waits
<1> HIDE DEF n
<1> QED BY <1>1, <1>2, <1>3, <1>4

\* There is none after the first probe, and all of them after the last.
LEMMA WaitsEnds ==
    ASSUME NEW s
    PROVE  /\ Len(s) = 1 => Waits(s) = 0
           /\ Len(s) = 1 + CheckConfirmations => Waits(s) = ConfirmWindow
<1>1. CASE Len(s) = 1
  <2>1. Len(s) - 1 = 0 /\ 0 * CheckConfirmDelay = 0
    BY <1>1, OneMoreWait, SettingsAssumption
  <2>2. Waits(s) = 0
    BY <2>1 DEF Waits
  <2>3. 1 = 1 + CheckConfirmations => CheckConfirmations = 0
    BY SettingsAssumption
  <2> QED BY <1>1, <2>1, <2>2, <2>3 DEF ConfirmWindow
<1>2. CASE Len(s) = 1 + CheckConfirmations /\ Len(s) # 1
  <2>1. Len(s) - 1 = CheckConfirmations
    BY <1>2, SettingsAssumption
  <2> QED BY <1>2, <2>1 DEF Waits, ConfirmWindow
<1> QED BY <1>1, <1>2

\* The time a run takes up to its request is that of its re-probes.
LEMMA ActsInWindowNext == Inv /\ Knows /\ ActsInWindow /\ [Next]_vars => ActsInWindow'
<1> SUFFICES ASSUME Inv, Knows, ActsInWindow, [Next]_vars PROVE ActsInWindow'
  OBVIOUS
<1>1. Frame
  BY StepFrame
<1>2. ConfirmWindow \in Nat
  <2>1. CheckConfirmations \in Nat /\ CheckConfirmDelay \in Nat
    BY SettingsAssumption
  <2> QED BY <2>1, OneMoreWait DEF ConfirmWindow
<1>3. ASSUME pc' \in Undecided
      PROVE  /\ mode' = "hard" => now' <= runs'[run'].startedAt
             /\ mode' = "soft" => now' <= runs'[run'].startedAt + Waits(seen')
  <2>1. CASE InsertRun
    <3>1. pc' # "idle"
      BY <1>3 DEF Undecided, Guarding, Acting
    <3>2. /\ runs' = Append(runs, NewRow(mode, InternetOK))
          /\ run' = Len(runs) + 1 /\ now' = now /\ mode' = mode /\ seen' = seen
          /\ pc = "insert"
      BY <2>1, <3>1 DEF InsertRun, Goto, NextRow, setting
    <3>3. runs'[Len(runs) + 1] = NewRow(mode, InternetOK)
      <4>1. runs \in Seq(Rows) /\ NewRow(mode, InternetOK) \in Rows
        BY NewRowType DEF Inv, TypeOK, InternetOK
      <4> QED BY <3>2, <4>1, AppendProperties
    <3>4. runs'[run'].startedAt = now /\ now \in Nat
      BY <3>2, <3>3 DEF NewRow, Inv, TypeOK
    <3>5. CASE mode = "soft"
      <4>1. Len(seen) = 1
        BY <3>2, <3>5 DEF Inv, Control
      <4>2. Waits(seen') = 0
        BY <3>2, <4>1, WaitsEnds
      <4> QED BY <3>2, <3>4, <3>5, <4>2
    <3> QED BY <3>2, <3>4, <3>5
  <2>2. CASE ~InsertRun
    <3>1. /\ pc \in Undecided /\ run' = run /\ mode' = mode
          /\ Confirm \/ (now' = now /\ seen' = seen)
      BY <1>3, <2>2, StaysUndecided
    <3>2. run \in 1..Len(runs) /\ runs[run].startedAt \in Nat /\ now \in Nat
      BY <3>1, SeatedRow DEF Undecided, Seated, Rows
    <3>3. runs'[run].startedAt = runs[run].startedAt
      BY <1>1, <3>2 DEF Frame, RowKeeps
    <3>4. CASE Confirm
      <4>1. /\ mode = "soft" /\ now' = now + CheckConfirmDelay
            /\ Len(seen) \in Nat \ {0} /\ Len(seen') = Len(seen) + 1
        BY <3>4, VerdictsAreStates DEF Confirm, Check, Inv, TypeOK, Control, Seated
      <4>2. /\ Waits(seen) \in Nat /\ CheckConfirmDelay \in Nat
            /\ Waits(seen') = Waits(seen) + CheckConfirmDelay
        BY <4>1, WaitsGrow
      <4>3. now <= runs[run].startedAt + Waits(seen)
        BY <3>1, <4>1 DEF ActsInWindow
      <4>4. now' <= runs[run].startedAt + Waits(seen')
        BY <3>2, <4>1, <4>2, <4>3
      <4> QED BY <3>1, <3>3, <4>1, <4>4
    <3>5. CASE now' = now /\ seen' = seen
      BY <3>1, <3>3, <3>5 DEF ActsInWindow
    <3> QED BY <3>1, <3>4, <3>5
  <2> QED BY <2>1, <2>2
<1>4. ASSUME NEW k \in DOMAIN reboots'
      PROVE  reboots'[k].at <= runs'[reboots'[k].run].startedAt + ConfirmWindow
  <2>1. PICK r \in 1..Len(runs) :
           reboots'[k].run = r /\ reboots'[k].at <= runs[r].startedAt + ConfirmWindow
    <3>1. CASE k \in DOMAIN reboots /\ reboots'[k] = reboots[k]
      BY <3>1, RebootsType DEF ActsInWindow, Inv
    <3>2. CASE pc = "request" /\ reboots'[k] = [run |-> run, at |-> now]
      <4>1. run \in 1..Len(runs) /\ runs[run].startedAt \in Nat /\ now \in Nat
        BY <3>2, SeatedRow DEF Acting, Seated, Rows
      <4>2. CASE mode = "hard"
        BY <1>2, <3>2, <4>1, <4>2 DEF ActsInWindow, Undecided, Acting
      <4>3. CASE mode = "soft"
        <5>1. Len(seen) = 1 + CheckConfirmations
          BY <3>2, <4>3 DEF Knows, Confirmed, Acting
        <5>2. now <= runs[run].startedAt + Waits(seen)
          BY <3>2, <4>3 DEF ActsInWindow, Undecided, Acting
        <5>3. Waits(seen) = ConfirmWindow
          BY <5>1, WaitsEnds
        <5> QED BY <3>2, <4>1, <5>2, <5>3
      <4>4. mode \in {"soft", "hard"}
        BY DEF Inv, TypeOK
      <4> QED BY <4>2, <4>3, <4>4
    <3> QED BY <1>1, <3>1, <3>2, RebootsAfter
  <2> QED BY <1>1, <2>1 DEF Frame, RowKeeps
<1> QED BY <1>3, <1>4 DEF ActsInWindow

\* A row leaves the hot table only when it is older than the hot window.
LEMMA ColdIsOldNext ==
    ASSUME Gaps \subseteq Nat, Inv, ColdIsOld, [Next]_vars PROVE ColdIsOld'
<1> SUFFICES ASSUME NEW i \in 1..Len(runs'), i \notin hot'
             PROVE  now' - runs'[i].startedAt > HotWindow
  BY DEF ColdIsOld
<1>1. now \in Nat /\ now' \in Nat /\ now <= now' /\ HotWindow \in Nat
  BY NowAdvances, SettingsAssumption
<1>2. i \in 1..Len(runs) /\ runs'[i].startedAt = runs[i].startedAt
  <2>1. CASE i \in 1..Len(runs)
    BY <2>1, StepFrame DEF Frame, RowKeeps
  <2>2. CASE i \notin 1..Len(runs)
    <3>1. InsertRun /\ i = Len(runs) + 1
      BY <2>2, RowAdded
    <3>2. runs' # runs
      BY <2>2
    <3> QED BY <3>1, <3>2 DEF InsertRun, NextRow
  <2> QED BY <2>1, <2>2
<1>3. runs[i].startedAt \in Nat
  BY <1>2, RowAt DEF Inv
<1>4. CASE i \notin hot
  BY <1>1, <1>2, <1>3, <1>4 DEF ColdIsOld
<1>5. CASE i \in hot
  <2>1. StartRun
    BY <1>5 DEF Next, Step, Probe, InsertRun, Confirm, Clear, Decide, OutageSustained,
       Cooldown, MarkAction, Initiate, Reboot, StampReboot, PollGateway, PollInternet,
       ShouldAnnounce, Say, Settle, Crash, Finished, store, vars
  <2>2. ~(runs[i].startedAt >= now' - HotWindow)
    BY <1>5, <2>1 DEF StartRun, Rollover
  <2> QED BY <1>1, <1>2, <1>3, <2>2
<1> QED BY <1>4, <1>5

\* Nothing that has failed is forgotten.
LEMMA HealthyBefore == Inv /\ [Next]_vars /\ Healthy' => Healthy /\ ~Crash
<1> SUFFICES ASSUME Inv, [Next]_vars, Healthy' PROVE Healthy /\ ~Crash
  OBVIOUS
<1>1. faults = 0 /\ crashes = 0 /\ ~Crash
  BY OutboxGrows, CrashesGrow DEF Healthy
<1>2. losses = 0
  <2>1. losses \in Nat /\ losses' = 0
    BY DEF Inv, TypeOK, Healthy
  <2> QED BY <1>1, <2>1 DEF Next, Step, StartRun, Probe, InsertRun, Confirm, Clear,
          Decide, OutageSustained, Cooldown, MarkAction, Initiate, Reboot, StampReboot,
          PollGateway, PollInternet, ShouldAnnounce, Say, Settle, Finished, budget, vars
<1> QED BY <1>1, <1>2 DEF Healthy

\* The record of a reboot is completed by the next step and never taken back.
LEMMA AllRecordedNext ==
    Inv /\ Knows /\ Barred /\ IntentFirst /\ AllRecorded /\ [Next]_vars => AllRecorded'
<1> SUFFICES ASSUME Inv, Knows, Barred, IntentFirst, AllRecorded, [Next]_vars, Healthy',
                    NEW k \in DOMAIN reboots'
             PROVE  Recorded(k)' \/ (pc' = "stamp" /\ reboots'[k].run = run')
  BY DEF AllRecorded
<1>1. Frame /\ Healthy /\ ~Crash
  BY StepFrame, HealthyBefore
<1>2. CASE k \in DOMAIN reboots /\ reboots'[k] = reboots[k]
  <2> DEFINE r == reboots[k].run
  <2>1. /\ r \in 1..Len(runs) /\ RowKeeps(runs[r], runs'[r])
        /\ runs[r].action = "reboot"
    BY <1>1, <1>2, RebootsType DEF Frame, Inv, IntentFirst, Healthy, RebootOnRecord
  <2>2. runs'[r].action = "reboot"
    <3>1. CASE r # run
      BY <1>1, <2>1, <3>1 DEF Frame
    <3>2. CASE r = run
      BY <1>2, <2>1, <3>2 DEF RowKeeps, Barred, Closing
    <3> QED BY <3>1, <3>2
  <2>3. CASE Recorded(k)
    <3>1. now \in Nat
      BY DEF Inv, TypeOK
    <3>2. runs'[r].rebootStartedAt # None
      BY <2>1, <2>3, <3>1 DEF RowKeeps, Recorded, None
    <3> QED BY <1>2, <2>2, <3>2 DEF Recorded
  <2>4. CASE pc = "stamp" /\ r = run
    <3>1. StampReboot \/ UNCHANGED vars
      BY <1>1, <2>4 DEF Next, Step, StartRun, Probe, InsertRun, Confirm, Clear, Decide,
         OutageSustained, Cooldown, MarkAction, Initiate, Reboot, PollGateway,
         PollInternet, ShouldAnnounce, Say, Settle, Finished
    <3>2. CASE StampReboot
      <4>1. runs' = [runs EXCEPT ![run] = [runs[run] EXCEPT !.rebootStartedAt = now]]
        <5>1. faults = 0 /\ faults' = 0
          BY <1>1 DEF Healthy
        <5> QED BY <3>2, <5>1 DEF StampReboot, UpdateRun, StoreFails
      <4>2. run \in DOMAIN runs /\ runs[run] \in Rows /\ now \in Nat
        BY <2>1, <2>4, RowAt DEF Inv, TypeOK
      <4>3. runs'[run].rebootStartedAt # None
        BY <4>1, <4>2 DEF Rows, None
      <4> QED BY <1>2, <2>2, <2>4, <4>3 DEF Recorded
    <3>3. CASE UNCHANGED vars
      BY <1>2, <2>4, <3>3 DEF vars
    <3> QED BY <3>1, <3>2, <3>3
  <2> QED BY <1>1, <1>2, <2>3, <2>4 DEF AllRecorded
<1>3. CASE k \notin DOMAIN reboots /\ pc = "request" /\ reboots'[k] = [run |-> run, at |-> now]
  <2>1. Reboot
    <3>1. reboots' # reboots
      BY <1>3
    <3> QED BY <1>3, <3>1 DEF Next, Step, StartRun, Probe, InsertRun, Confirm, Clear,
            Decide, OutageSustained, Cooldown, MarkAction, Initiate, StampReboot,
            PollGateway, PollInternet, ShouldAnnounce, Say, Settle, Crash, Finished, vars
  <2>2. losses = 0 /\ losses' = 0
    BY <1>1 DEF Healthy
  <2>3. pc' = "stamp" /\ run' = run
    <3>1. reboots' # reboots
      BY <1>3
    <3> QED BY <2>1, <2>2, <3>1 DEF Reboot, Goto
  <2> QED BY <1>3, <2>3
<1>4. k \in DOMAIN reboots => reboots'[k] = reboots[k]
  <2>1. k = Len(reboots) + 1 => k \notin DOMAIN reboots
    BY RebootsType DEF Inv
  <2> QED BY <1>1, <2>1, RebootsAfter
<1> QED BY <1>1, <1>2, <1>3, <1>4, RebootsAfter

\* A row older than h leaves a reboot at most w later older than c.
LEMMA OldEnough ==
    ASSUME NEW t \in Nat, NEW s \in Nat, NEW a \in Nat, NEW c \in Nat, NEW w \in Nat,
           NEW h \in Nat, c + w <= h, t - s > h, a <= s + w
    PROVE  t - a >= c
OBVIOUS

\* So a reboot of the past is either in the sight of the guard or too old.
LEMMA OnceNext ==
    ASSUME RebootCooldown + ConfirmWindow <= HotWindow,
           Inv, Knows, CooldownInv, OnceInv, [Next]_vars, Healthy'
    PROVE  SoftAfterCooldown'
<1> SUFFICES ASSUME NEW k \in SoftReboots', NEW j \in 1 .. k - 1
             PROVE  reboots'[k].at - reboots'[j].at >= RebootCooldown
  BY DEF SoftAfterCooldown
<1>1. Frame /\ TypeOK /\ Healthy
  BY StepFrame, HealthyBefore DEF Inv
<1>2. k \in DOMAIN reboots' /\ runs'[reboots'[k].run].mode = "soft"
  BY DEF SoftReboots
<1>3. DOMAIN reboots = 1..Len(reboots) /\ Len(reboots) \in Nat
  BY <1>1, RebootsType
<1>4. \/ k \in DOMAIN reboots /\ reboots'[k] = reboots[k]
      \/ /\ pc = "request" /\ k = Len(reboots) + 1
         /\ reboots'[k] = [run |-> run, at |-> now]
  BY <1>1, <1>2, RebootsAfter
<1>5. j \in DOMAIN reboots /\ reboots'[j] = reboots[j]
  <2>1. j \in DOMAIN reboots
    BY <1>3, <1>4
  <2>2. DOMAIN reboots \subseteq DOMAIN reboots'
    <3>1. CASE reboots' = reboots
      BY <3>1
    <3>2. CASE pc = "request" /\ reboots' = Append(reboots, [run |-> run, at |-> now])
      <4>1. DOMAIN reboots' = 1..Len(reboots) + 1
        BY <3>2
      <4> QED BY <1>3, <4>1
    <3> QED BY <1>1, <3>1, <3>2 DEF Frame
  <2> QED BY <1>1, <1>3, <2>1, <2>2, RebootsAfter
<1>6. CASE k \in DOMAIN reboots /\ reboots'[k] = reboots[k]
  <2>1. k \in SoftReboots
    <3>1. reboots[k].run \in 1..Len(runs)
      BY <1>1, <1>6, RebootsType
    <3> QED BY <1>1, <1>2, <1>6, <3>1 DEF SoftReboots, Frame, RowKeeps
  <2> QED BY <1>1, <1>5, <1>6, <2>1 DEF OnceInv, SoftAfterCooldown
<1>7. CASE pc = "request" /\ reboots'[k] = [run |-> run, at |-> now]
  <2> DEFINE r == reboots[j].run
  <2>1. Recorded(j)
    BY <1>1, <1>5, <1>7 DEF OnceInv, AllRecorded
  <2>2. mode = "soft"
    <3>1. run \in 1..Len(runs) /\ runs[run].mode = mode
      BY <1>7 DEF Inv, Control, Seated, Acting
    <3> QED BY <1>1, <1>2, <1>7, <3>1 DEF Frame, RowKeeps
  <2>3. r \in 1..Len(runs) /\ reboots[j].at <= runs[r].startedAt + ConfirmWindow
    BY <1>1, <1>5, RebootsType DEF OnceInv, ActsInWindow
  <2>4. CASE r \in hot
    BY <1>5, <1>7, <2>1, <2>2, <2>4 DEF CooldownInv, Cool, Acting
  <2>5. CASE r \notin hot
    <3>1. now - runs[r].startedAt > HotWindow
      BY <2>3, <2>5 DEF OnceInv, ColdIsOld
    <3>2. /\ now \in Nat /\ reboots[j].at \in Nat /\ runs[r].startedAt \in Nat
          /\ RebootCooldown \in Nat /\ HotWindow \in Nat
      BY <1>1, <1>5, <2>3, RowAt, RebootsType, SettingsAssumption DEF TypeOK
    <3>3. ConfirmWindow \in Nat
      <4>1. CheckConfirmations \in Nat /\ CheckConfirmDelay \in Nat
        BY SettingsAssumption
      <4> QED BY <4>1, OneMoreWait DEF ConfirmWindow
    <3>4. now - reboots[j].at >= RebootCooldown
      BY <2>3, <3>1, <3>2, <3>3, OldEnough
    <3> QED BY <1>5, <1>7, <3>4
  <2> QED BY <2>4, <2>5
<1> QED BY <1>4, <1>6, <1>7

\* While nothing fails a soft reboot follows no other soft reboot (nor a hard
\* one), archived ones included, within REBOOT_COOLDOWN: what
\* deploy/yarddog.cron says does hold then, if the clock is not set back and
\* the age at which the collector archives a run is at least REBOOT_COOLDOWN
\* and the waits of the re-probes together.
THEOREM OncePerCooldownHealthy ==
    ASSUME Gaps \subseteq Nat, RebootCooldown + ConfirmWindow <= HotWindow
    PROVE  Spec => [](faults = 0 /\ crashes = 0 /\ losses = 0 => OncePerCooldown)
<1>1. Init => Barred /\ IntentFirst /\ OnceInv
  BY DEF Init, Barred, IntentFirst, RebootOnRecord, Closing, OnceInv, ActsInWindow,
         ColdIsOld, AllRecorded, SoftAfterCooldown, SoftReboots, Undecided, Guarding, Acting
<1>2. Inv /\ Knows /\ Barred /\ IntentFirst /\ CooldownInv /\ OnceInv /\ [Next]_vars
         => OnceInv'
  BY ActsInWindowNext, ColdIsOldNext, AllRecordedNext, OnceNext DEF OnceInv
<1>3. Inv /\ OnceInv => (faults = 0 /\ crashes = 0 /\ losses = 0 => OncePerCooldown)
  <2> SUFFICES ASSUME Inv, SoftAfterCooldown PROVE OncePerCooldown
    BY DEF OnceInv, Healthy
  <2>1. DOMAIN reboots = 1..Len(reboots) /\ Len(reboots) \in Nat
    BY RebootsType DEF Inv
  <2>2. \A j, k \in SoftReboots : j < k => j \in 1 .. k - 1
    BY <2>1 DEF SoftReboots
  <2> QED BY <2>2 DEF SoftAfterCooldown, OncePerCooldown
<1> QED BY <1>1, <1>2, <1>3, InvAlways, KnowsAlways, InitCooldown, CooldownInvNext,
        BarredNext, IntentNext, PTL DEF Spec

============================================================================
