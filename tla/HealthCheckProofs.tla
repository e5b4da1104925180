------------------------- MODULE HealthCheckProofs -------------------------
(***************************************************************************)
(* Concurrent health requests share one login and no ok is made up, for    *)
(* any set of requests, any number of probes and any schedule.  The        *)
(* invariant says who holds the slot, what a call structure may hold while *)
(* its leader is still at work, and where a session cookie in the driver's *)
(* jar can come from.                                                      *)
(***************************************************************************)
EXTENDS HealthCheck, TLAPS

Stages == Leading \cup {"idle", "probing", "waiting", "answer"}
Call == [done : BOOLEAN, err : Results, login : Results \cup {None}, earned : BOOLEAN]

\* The one request that leads holds the slot; those before the router's probe
\* hold no call, those that wait hold one.
Slot ==
    /\ \A r \in Requests : stage[r] \in Leading => joined[r] = inflight /\ inflight \in Calls
    /\ \A r, s \in Requests : stage[r] \in Leading /\ stage[s] \in Leading => r = s
    /\ \A r \in Requests : stage[r] \in {"idle", "probing"} => joined[r] = None
    /\ \A r \in Requests : stage[r] = "waiting" => joined[r] \in Calls
    /\ inflight # None => \E r \in Requests : stage[r] \in Leading

\* The leader's call: as good as new until the login returns, not done before
\* the deferred function has set err.
Leader ==
    \A r \in Requests :
        /\ stage[r] # "deferred" => deferred[r] = 0
        /\ stage[r] = "login" => call[joined[r]] = NewCall
        /\ stage[r] = "logout" => /\ call[joined[r]].login = "ok"
                                  /\ ~call[joined[r]].done
        /\ stage[r] = "deferred" =>
              /\ call[joined[r]].login \in Results
              /\ deferred[r] >= 1 => call[joined[r]].err = call[joined[r]].login

\* A call that nobody holds is new; one that is done tells what its login
\* returned; an ok login was earned.
CallsHonest ==
    \A c \in Calls :
        /\ (\A s \in Requests : joined[s] # c) => call[c] = NewCall
        /\ call[c].done => call[c].err = call[c].login
        /\ call[c].login = "ok" => call[c].earned

\* A cookie in the jar is a session no call has reported yet, except between a
\* login that was and the logout that follows it.
JarPaidFor == jar => credit \/ \E r \in Requests : stage[r] = "logout"

\* An ok that is about to be sent is that of the call the request holds.
Answered ==
    \A r \in Requests :
        stage[r] = "answer" /\ report[r] = "ok" =>
            joined[r] \in Calls /\ call[joined[r]].login = "ok"

Inv == TypeOK /\ Slot /\ Leader /\ CallsHonest /\ JarPaidFor /\ Answered

\* Nobody asks at first.
LEMMA InitInv == Init => Inv
<1> SUFFICES ASSUME Init PROVE Inv
  OBVIOUS
<1>1. NewCall \in Call /\ NewCall.login # "ok" /\ ~NewCall.done
  BY HealthAssumption DEF NewCall, Call, Results
<1>2. TypeOK
  <2>1. 1 \in 1..Router
    BY HealthAssumption
  <2>2. call \in [Calls -> Call]
    BY <1>1 DEF Init
  <2>3. deferred \in [Requests -> 0..2] /\ at \in [Requests -> 1..Router]
    BY <2>1 DEF Init
  <2> QED BY <2>2, <2>3 DEF Init, TypeOK, Call
<1>3. Slot /\ Leader /\ JarPaidFor /\ Answered
  BY DEF Init, Slot, Leader, JarPaidFor, Answered, Leading
<1>4. CallsHonest
  BY <1>1 DEF Init, CallsHonest
<1> QED BY <1>2, <1>3, <1>4 DEF Inv

\* A request that comes in, or whose time is up.
LEMMA AskInv ==
    ASSUME Inv, NEW r \in Requests, Ask(r) \/ ContextDone(r) \/ ProbeReturns(r)
    PROVE  Inv'
<1>1. CASE Ask(r)
  BY <1>1 DEF Ask, Becomes, Inv, TypeOK, Slot, Leader, CallsHonest, JarPaidFor, Answered, Leading
<1>2. CASE ContextDone(r)
  BY <1>2 DEF ContextDone, Inv, TypeOK, Slot, Leader, CallsHonest, JarPaidFor, Answered, Leading
<1>3. CASE ProbeReturns(r)
  BY <1>3, HealthAssumption
     DEF ProbeReturns, Inv, TypeOK, Slot, Leader, CallsHonest, JarPaidFor, Answered, Leading
<1> QED BY <1>1, <1>2, <1>3

\* Joining a call keeps it from being reused.
LEMMA JoinInv ==
    ASSUME Inv, NEW r \in Requests, Join(r)
    PROVE  Inv'
<1>1. inflight \in Calls /\ inflight # None
  BY DEF Join, SlotFree, Inv, TypeOK
<1>2. \E s \in Requests : stage[s] \in Leading /\ joined[s] = inflight
  BY <1>1 DEF Inv, Slot
<1>3. TypeOK'
  BY <1>1 DEF Join, Becomes, Inv, TypeOK, Leading
<1>4. Slot'
  BY <1>1 DEF Join, Becomes, Inv, TypeOK, Slot, Leading
<1>5. Leader'
  BY DEF Join, Becomes, Inv, TypeOK, Slot, Leader, Leading
<1>6. CallsHonest'
  <2>1. joined[r] = None /\ None \notin Calls
    BY HealthAssumption DEF Join, Inv, Slot, Calls
  <2>2. \A c \in Calls : (\A s \in Requests : joined'[s] # c) => \A s \in Requests : joined[s] # c
    BY <2>1 DEF Join, Inv, TypeOK
  <2> QED BY <2>2 DEF Join, Inv, CallsHonest
<1>7. JarPaidFor' /\ Answered'
  BY DEF Join, Becomes, Inv, TypeOK, JarPaidFor, Answered, Leading
<1> QED BY <1>3, <1>4, <1>5, <1>6, <1>7 DEF Inv

\* The slot is free, so nobody leads, and the call taken is new.
LEMMA LeadInv ==
    ASSUME Inv, NEW r \in Requests, Lead(r)
    PROVE  Inv'
<1>1. PICK c \in Free : inflight' = c /\ joined' = [joined EXCEPT ![r] = c]
  BY DEF Lead
<1>2. c \in Calls /\ (\A s \in Requests : joined[s] # c) /\ c # None
  BY HealthAssumption DEF Free, Calls
<1>3. call[c] = NewCall
  BY <1>2 DEF Inv, CallsHonest
<1>4. \A s \in Requests : stage[s] \notin Leading
  BY HealthAssumption DEF Lead, SlotFree, Inv, Slot, Calls
<1>5. TypeOK'
  BY <1>1, <1>2 DEF Lead, Becomes, Inv, TypeOK, Leading
<1>6. Slot'
  BY <1>1, <1>2, <1>4 DEF Lead, Becomes, Inv, TypeOK, Slot, Leading
<1>7. Leader'
  BY <1>1, <1>3, <1>4 DEF Lead, Becomes, Inv, TypeOK, Leader, Leading
<1>8. CallsHonest'
  BY <1>1, <1>2, HealthAssumption DEF Lead, Becomes, Inv, TypeOK, Slot, CallsHonest, Calls
<1>9. JarPaidFor' /\ Answered'
  BY <1>1 DEF Lead, Becomes, Inv, TypeOK, JarPaidFor, Answered
<1> QED BY <1>5, <1>6, <1>7, <1>8, <1>9 DEF Inv

\* A waiter records an error, or the err of a call that is done.
LEMMA WaitInv ==
    ASSUME Inv, NEW r \in Requests, Wait(r)
    PROVE  Inv'
<1>1. joined[r] \in Calls /\ stage[r] = "waiting"
  BY DEF Wait, Inv, Slot
<1>2. PICK result \in Results :
          /\ Record(r, result)
          /\ result = "ok" => call[joined[r]].login = "ok"
  BY <1>1 DEF Wait, Inv, TypeOK, CallsHonest, Results
<1>3. TypeOK'
  BY <1>1, <1>2 DEF Wait, Record, Becomes, Inv, TypeOK, Leading
<1>4. Slot'
  BY <1>1, <1>2 DEF Wait, Record, Becomes, Inv, TypeOK, Slot, Leading
<1>5. Leader' /\ CallsHonest' /\ JarPaidFor'
  BY <1>1, <1>2 DEF Wait, Record, Becomes, Inv, TypeOK, Leader, CallsHonest, JarPaidFor, Leading
<1>6. Answered'
  BY <1>1, <1>2 DEF Wait, Record, Becomes, Inv, TypeOK, Answered
<1> QED BY <1>3, <1>4, <1>5, <1>6 DEF Inv

\* What a returned login does to its call.
LEMMA ReturnedCall ==
    ASSUME Inv, NEW r \in Requests, joined[r] \in Calls,
           NEW result \in Results, NEW earned \in BOOLEAN, Returned(r, result, earned)
    PROVE  /\ call' \in [Calls -> Call]
           /\ \A c \in Calls \ {joined[r]} : call'[c] = call[c]
           /\ call'[joined[r]].login = result /\ call'[joined[r]].earned = earned
           /\ call'[joined[r]].done = call[joined[r]].done
           /\ call'[joined[r]].err = call[joined[r]].err
BY DEF Returned, Inv, TypeOK, Call

\* The login reports ok only on a cookie, and a cookie only with a session
\* behind it: nobody else is between a login and its logout.
LEMMA LoginInv ==
    ASSUME Inv, NEW r \in Requests, LoginReturns(r)
    PROVE  Inv'
<1>1. /\ stage[r] = "login" /\ joined[r] = inflight /\ joined[r] \in Calls
      /\ call[joined[r]] = NewCall /\ deferred[r] = 0
  BY DEF LoginReturns, Inv, Slot, Leader, Leading
<1>2. \A s \in Requests : stage[s] \in Leading => s = r
  BY <1>1 DEF Inv, Slot, Leading
<1>3. jar => credit
  BY <1>1, <1>2 DEF Inv, JarPaidFor, Leading
<1>4. PICK granted \in BOOLEAN, read \in BOOLEAN :
          /\ jar' = (jar \/ granted)
          /\ IF read /\ jar'
             THEN /\ Becomes(r, "logout")
                  /\ Returned(r, "ok", credit \/ granted) /\ credit' = FALSE
             ELSE /\ Becomes(r, "deferred")
                  /\ Returned(r, "error", FALSE) /\ credit' = (credit \/ granted)
  BY DEF LoginReturns
<1>5. PICK next \in {"logout", "deferred"}, result \in Results, earned \in BOOLEAN :
          /\ Becomes(r, next) /\ Returned(r, result, earned)
          /\ result = "ok" => earned
          /\ next = "logout" => result = "ok"
          /\ next = "deferred" => (jar' => credit')
          /\ credit' \in BOOLEAN /\ jar' \in BOOLEAN
  <2>1. CASE read /\ jar'
    <3>1. (credit \/ granted) = TRUE
      BY <1>3, <1>4, <2>1
    <3> QED BY <1>4, <2>1, <3>1 DEF Results, Inv, TypeOK
  <2>2. CASE ~(read /\ jar')
    BY <1>3, <1>4, <2>2 DEF Results, Inv, TypeOK
  <2> QED BY <2>1, <2>2
<1>6. /\ call' \in [Calls -> Call]
      /\ \A c \in Calls \ {joined[r]} : call'[c] = call[c]
      /\ call'[joined[r]].login = result /\ call'[joined[r]].earned = earned
      /\ ~call'[joined[r]].done
  BY <1>1, <1>5, ReturnedCall DEF NewCall
<1>7. TypeOK'
  BY <1>5, <1>6 DEF LoginReturns, Becomes, Inv, TypeOK, Leading, Call
<1>8. Slot'
  BY <1>1, <1>2, <1>5 DEF LoginReturns, Becomes, Inv, TypeOK, Slot, Leading
<1>9. Leader'
  BY <1>1, <1>2, <1>5, <1>6 DEF LoginReturns, Becomes, Inv, TypeOK, Leader, Leading
<1>10. CallsHonest'
  BY <1>1, <1>5, <1>6 DEF LoginReturns, Inv, CallsHonest
<1>11. JarPaidFor'
  BY <1>5 DEF LoginReturns, Becomes, Inv, TypeOK, JarPaidFor
<1>12. Answered'
  <2>1. call[joined[r]].login # "ok"
    BY <1>1, HealthAssumption DEF NewCall
  <2> QED BY <1>1, <1>5, <1>6, <2>1 DEF LoginReturns, Becomes, Inv, TypeOK, Answered
<1> QED BY <1>7, <1>8, <1>9, <1>10, <1>11, <1>12 DEF Inv

LEMMA LogoutInv ==
    ASSUME Inv, NEW r \in Requests, Logout(r)
    PROVE  Inv'
<1>1. stage[r] = "logout" /\ \A s \in Requests : stage[s] \in Leading => s = r
  BY DEF Logout, Inv, Slot, Leading
<1>2. TypeOK' /\ Slot'
  BY <1>1 DEF Logout, Becomes, Inv, TypeOK, Slot, Leading
<1>3. Leader'
  BY <1>1 DEF Logout, Becomes, Inv, TypeOK, Leader, Leading, Results
<1>4. CallsHonest' /\ JarPaidFor' /\ Answered'
  BY <1>1 DEF Logout, Becomes, Inv, TypeOK, CallsHonest, JarPaidFor, Answered
<1> QED BY <1>2, <1>3, <1>4 DEF Inv

\* The deferred function sets err before it wakes the waiters.
LEMMA DeferredInv ==
    ASSUME Inv, NEW r \in Requests, RunDeferred(r)
    PROVE  Inv'
<1>1. /\ stage[r] = "deferred" /\ joined[r] = inflight /\ joined[r] \in Calls
      /\ call[joined[r]].login \in Results /\ deferred[r] \in 0..2
      /\ deferred[r] >= 1 => call[joined[r]].err = call[joined[r]].login
      /\ \A s \in Requests : stage[s] \in Leading => s = r
  BY DEF RunDeferred, Inv, TypeOK, Slot, Leader, Leading
<1> DEFINE c == joined[r]
<1>2. CASE deferred[r] = 0
  <2>1. /\ call' = [call EXCEPT ![c].err = call[c].login]
        /\ deferred' = [deferred EXCEPT ![r] = 1]
        /\ UNCHANGED <<stage, at, report, expired, joined, inflight, jar, credit>>
    BY <1>1, <1>2 DEF RunDeferred, Statement, Deferred, Inv, TypeOK
  <2>2. /\ call' \in [Calls -> Call]
        /\ \A d \in Calls \ {c} : call'[d] = call[d]
        /\ call'[c].err = call[c].login /\ call'[c].login = call[c].login
        /\ call'[c].done = call[c].done /\ call'[c].earned = call[c].earned
    BY <1>1, <2>1 DEF Inv, TypeOK, Call
  <2>3. TypeOK' /\ Slot' /\ JarPaidFor'
    BY <2>1, <2>2 DEF Inv, TypeOK, Slot, JarPaidFor, Call
  <2>4. Leader'
    BY <1>1, <2>1, <2>2 DEF Inv, TypeOK, Leader, Leading
  <2>5. CallsHonest' /\ Answered'
    BY <1>1, <2>1, <2>2 DEF Inv, CallsHonest, Answered
  <2> QED BY <2>3, <2>4, <2>5 DEF Inv
<1>3. CASE deferred[r] = 1
  <2>1. /\ call' = [call EXCEPT ![c].done = TRUE]
        /\ deferred' = [deferred EXCEPT ![r] = 2]
        /\ UNCHANGED <<stage, at, report, expired, joined, inflight, jar, credit>>
    BY <1>1, <1>3 DEF RunDeferred, Statement, Deferred, Inv, TypeOK
  <2>2. /\ call' \in [Calls -> Call]
        /\ \A d \in Calls \ {c} : call'[d] = call[d]
        /\ call'[c].err = call[c].err /\ call'[c].login = call[c].login
        /\ call'[c].earned = call[c].earned
    BY <1>1, <2>1 DEF Inv, TypeOK, Call
  <2>3. TypeOK' /\ Slot' /\ JarPaidFor'
    BY <2>1, <2>2 DEF Inv, TypeOK, Slot, JarPaidFor, Call
  <2>4. Leader'
    BY <1>1, <1>3, <2>1, <2>2 DEF Inv, TypeOK, Leader, Leading
  <2>5. CallsHonest' /\ Answered'
    BY <1>1, <1>3, <2>1, <2>2 DEF Inv, CallsHonest, Answered
  <2> QED BY <2>3, <2>4, <2>5 DEF Inv
<1>4. CASE deferred[r] = 2
  <2>1. /\ call' = call /\ inflight' = None
        /\ deferred' = [deferred EXCEPT ![r] = 0]
        /\ report' = [report EXCEPT ![r] = call[c].login]
        /\ stage' = [stage EXCEPT ![r] = "answer"]
        /\ UNCHANGED <<at, expired, joined, jar, credit>>
    BY <1>1, <1>4 DEF RunDeferred, Statement, Deferred, Record, Becomes, Inv, TypeOK
  <2>2. TypeOK'
    BY <1>1, <2>1 DEF Inv, TypeOK, Leading
  <2>3. Slot'
    BY <1>1, <2>1 DEF Inv, TypeOK, Slot, Leading
  <2>4. Leader' /\ CallsHonest' /\ JarPaidFor'
    BY <1>1, <2>1 DEF Inv, TypeOK, Leader, CallsHonest, JarPaidFor, Leading
  <2>5. Answered'
    BY <1>1, <2>1 DEF Inv, TypeOK, Answered
  <2> QED BY <2>2, <2>3, <2>4, <2>5 DEF Inv
<1> QED BY <1>1, <1>2, <1>3, <1>4

\* Letting go of a call makes it new only if nobody else holds it.
LEMMA AnswerInv ==
    ASSUME Inv, NEW r \in Requests, Answer(r)
    PROVE  Inv'
<1>1. /\ stage[r] = "answer" /\ joined'[r] = None
      /\ \A s \in Requests \ {r} : joined'[s] = joined[s]
  BY DEF Answer, Inv, TypeOK
<1>2. NewCall \in Call
  BY DEF NewCall, Call, Results
<1>3. \A d \in Calls : /\ (\E s \in Requests : joined'[s] = d) => call'[d] = call[d]
                       /\ (\A s \in Requests : joined'[s] # d) => call'[d] = NewCall
  BY DEF Answer
<1>4. call' \in [Calls -> Call]
  BY <1>2 DEF Answer, Inv, TypeOK, Call
<1>5. TypeOK'
  BY <1>4, HealthAssumption DEF Answer, Becomes, Inv, TypeOK, Leading, Call
<1>6. Slot'
  BY <1>1 DEF Answer, Becomes, Inv, TypeOK, Slot, Leading
<1>7. \A s \in Requests \ {r} : joined[s] \in Calls => call'[joined[s]] = call[joined[s]]
  BY <1>1, <1>3
<1>8. Leader'
  <2>1. \A s \in Requests : stage'[s] \in Leading => s # r /\ joined[s] \in Calls
    BY <1>1 DEF Answer, Becomes, Inv, TypeOK, Slot, Leading
  <2> QED BY <1>1, <1>7, <2>1 DEF Answer, Becomes, Inv, TypeOK, Leader, Leading
<1>9. CallsHonest'
  <2>1. NewCall.login # "ok" /\ ~NewCall.done
    BY HealthAssumption DEF NewCall
  <2>2. \A d \in Calls : call'[d] = call[d] \/ call'[d] = NewCall
    BY <1>3
  <2>3. \A d \in Calls : (\A s \in Requests : joined'[s] # d) => call'[d] = NewCall
    BY <1>3
  <2> QED BY <2>1, <2>2, <2>3 DEF Inv, CallsHonest
<1>10. JarPaidFor'
  BY <1>1 DEF Answer, Becomes, Inv, TypeOK, JarPaidFor
<1>11. Answered'
  BY <1>1, <1>7 DEF Answer, Becomes, Inv, TypeOK, Answered
<1> QED BY <1>5, <1>6, <1>8, <1>9, <1>10, <1>11 DEF Inv

\* Inv is inductive.
LEMMA NextInv ==
    ASSUME Inv, [Next]_vars
    PROVE  Inv'
<1>1. CASE UNCHANGED vars
  BY <1>1 DEF vars, Inv, TypeOK, Slot, Leader, CallsHonest, JarPaidFor, Answered
<1>2. CASE Next
  BY <1>2, AskInv, JoinInv, LeadInv, WaitInv, LoginInv, LogoutInv, DeferredInv, AnswerInv
     DEF Next, CheckUP
<1> QED BY <1>1, <1>2

\* Who leads holds the slot, calls are honest and cookies are paid for, always.
THEOREM InvAlways == Spec => []Inv
<1>1. Init => Inv
  BY InitInv
<1>2. Inv /\ [Next]_vars => Inv'
  BY NextInv
<1> QED BY <1>1, <1>2, PTL DEF Spec

\* The type invariant of the health check, for any number of requests.
THEOREM TypeCorrect == Spec => []TypeOK
<1>1. Inv => TypeOK
  BY DEF Inv
<1> QED BY <1>1, InvAlways, PTL

\* However many requests come, at most one is between its login on the router
\* and the logout (credentialProbe.CheckUP).
THEOREM OneLoginHolds == Spec => []OneLogin
<1>1. Inv => OneLogin
  BY DEF Inv, Slot, OneLogin, Leading
<1> QED BY <1>1, InvAlways, PTL

\* No request reports the router ok unless the login of the call it shared was
\* ok, on a session that was granted and not reported before.
THEOREM OkIsEarnedHolds == Spec => []OkIsEarned
<1>1. Inv => OkIsEarned
  BY DEF Inv, CallsHonest, Answered, OkIsEarned
<1> QED BY <1>1, InvAlways, PTL
============================================================================
