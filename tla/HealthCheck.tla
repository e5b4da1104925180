---------------------------- MODULE HealthCheck ----------------------------
(***************************************************************************)
(* GET /health/check: the Inspector's sweep over its probes                *)
(* (services/health.go), run by any number of concurrent requests, with    *)
(* the credential probe last (gateway/router/credential_probe.go), which   *)
(* lets concurrent sweeps share one login on the router, and the driver's  *)
(* CheckCredentials (gateway/router/nokia.go) under it.                    *)
(*                                                                         *)
(* A request's context ends by the sweep's deadline or because its client  *)
(* went away.  What happens inside the probe's mutex is one step, and so   *)
(* is each of the three statements of the leader's deferred function,      *)
(* between which other requests arrive.                                    *)
(***************************************************************************)
EXTENDS Integers

CONSTANTS Requests,        \* the requests being served, each again and again
          None,
          Router,          \* the place of the router's probe among the probes
          NumCalls         \* the call structures in use at once, one a request

ASSUME HealthAssumption ==
    /\ NumCalls \in Nat /\ Router \in Nat \ {0}
    /\ None \notin Nat /\ None \notin {"ok", "error"}

Calls   == 1..NumCalls
Results == {"ok", "error"}

VARIABLES
    stage,         \* what each request does next
    at,            \* the probe its sweep is at
    report,        \* what its sweep reported of the router, or None: the other
                   \* entries tell nobody anything
    expired,       \* whether its context is done
    joined,        \* the call it started or waits for, or None
    deferred,      \* how much of the leader's deferred function is done
    inflight,      \* the probe's slot: a call or None
    call,          \* the call structures; err is nil, that is ok, at first
    jar,           \* whether the driver's jar holds a session cookie
    credit         \* history: the router granted a session that no call has
                   \* reported yet

vars == <<stage, at, report, expired, joined, deferred, inflight, call, jar, credit>>

NewCall == [done |-> FALSE, err |-> "ok", login |-> None, earned |-> FALSE]

Leading == {"login", "logout", "deferred"}
TypeOK ==
    /\ stage \in [Requests -> Leading \cup {"idle", "probing", "waiting", "answer"}]
    /\ at \in [Requests -> 1..Router]
    /\ report \in [Requests -> Results \cup {None}]
    /\ expired \in [Requests -> BOOLEAN]
    /\ joined \in [Requests -> Calls \cup {None}]
    /\ deferred \in [Requests -> 0..2]
    /\ inflight \in Calls \cup {None}
    /\ call \in [Calls -> [done : BOOLEAN, err : Results,
                           login : Results \cup {None}, earned : BOOLEAN]]
    /\ jar \in BOOLEAN /\ credit \in BOOLEAN

Init ==
    /\ stage = [r \in Requests |-> "idle"]
    /\ at = [r \in Requests |-> 1]
    /\ report = [r \in Requests |-> None]
    /\ expired = [r \in Requests |-> FALSE]
    /\ joined = [r \in Requests |-> None]
    /\ deferred = [r \in Requests |-> 0]
    /\ inflight = None
    /\ call = [c \in Calls |-> NewCall]
    /\ jar = FALSE /\ credit = FALSE

Becomes(r, s) == stage' = [stage EXCEPT ![r] = s]

\* handleHealth, CheckUp: a context with a deadline of its own.
Ask(r) ==
    /\ stage[r] = "idle" /\ Becomes(r, "probing")
    /\ UNCHANGED <<at, report, expired, joined, deferred, inflight, call, jar, credit>>

\* The deadline of the whole sweep, or a client that hung up.
ContextDone(r) ==
    /\ stage[r] # "idle" /\ ~expired[r]
    /\ expired' = [expired EXCEPT ![r] = TRUE]
    /\ UNCHANGED <<stage, at, report, joined, deferred, inflight, call, jar, credit>>

\* The loop of CheckUp, at any probe but the router's: what it returns, by a
\* panic too, is recorded and the next one is tried.
ProbeReturns(r) ==
    /\ stage[r] = "probing" /\ at[r] < Router
    /\ at' = [at EXCEPT ![r] = @ + 1]
    /\ UNCHANGED <<stage, report, expired, joined, deferred, inflight, call, jar, credit>>

\* The router's probe is the last.
Record(r, result) ==
    /\ report' = [report EXCEPT ![r] = result]
    /\ Becomes(r, "answer") /\ UNCHANGED at

(***************************************************************************)
(* credentialProbe.CheckUP.                                                *)
(***************************************************************************)
SlotFree_UntilDone == inflight # None => call[inflight].done
SlotFree == inflight = None
Free == Calls \ {joined[s] : s \in Requests}

\* The slot is taken: wait for that call.
Join(r) ==
    /\ stage[r] = "probing" /\ at[r] = Router /\ ~SlotFree
    /\ Becomes(r, "waiting") /\ joined' = [joined EXCEPT ![r] = inflight]
    /\ UNCHANGED <<at, report, expired, deferred, inflight, call, jar, credit>>

\* It is free: take it and log in.
Lead(r) ==
    /\ stage[r] = "probing" /\ at[r] = Router /\ SlotFree
    /\ \E c \in Free :
          /\ \A d \in Free : c <= d
          /\ inflight' = c /\ joined' = [joined EXCEPT ![r] = c]
    /\ Becomes(r, "login")
    /\ UNCHANGED <<at, report, expired, deferred, call, jar, credit>>

\* select: the call is done, or the waiter's own context is.
Wait(r) ==
    /\ stage[r] = "waiting"
    /\ \/ call[joined[r]].done /\ Record(r, call[joined[r]].err)
       \/ expired[r] /\ Record(r, "error")
    /\ UNCHANGED <<expired, joined, deferred, inflight, call, jar, credit>>

Returned(r, result, earned) ==
    call' = [call EXCEPT ![joined[r]].login = result, ![joined[r]].earned = earned]

\* login: whether there is a session cookie in the jar decides, whoever put it
\* there, and a failure to read the answer comes after the cookie.
LoginReturns(r) ==
    /\ stage[r] = "login"
    /\ \E granted \in BOOLEAN, read \in BOOLEAN :
          /\ jar' = (jar \/ granted)
          /\ IF read /\ jar'
             THEN /\ Becomes(r, "logout")
                  /\ Returned(r, "ok", credit \/ granted) /\ credit' = FALSE
             ELSE /\ Becomes(r, "deferred")
                  /\ Returned(r, "error", FALSE) /\ credit' = (credit \/ granted)
    /\ UNCHANGED <<at, report, expired, joined, deferred, inflight>>

\* logout: a new jar.
Logout(r) ==
    /\ stage[r] = "logout" /\ Becomes(r, "deferred")
    /\ jar' = FALSE
    /\ UNCHANGED <<at, report, expired, joined, deferred, inflight, call, credit>>

\* The deferred function, after a panic too, statement by statement.
Deferred_DoneFirst == <<"done", "err", "slot">>
Deferred_KeepsSlot == <<"err", "done", "done">>
Deferred == <<"err", "done", "slot">>

Statement(r) == Deferred[deferred[r] + 1]
RunDeferred(r) ==
    /\ stage[r] = "deferred"
    /\ LET c == joined[r] IN
       call' = CASE Statement(r) = "err" -> [call EXCEPT ![c].err = call[c].login]
                 [] Statement(r) = "done" -> [call EXCEPT ![c].done = TRUE]
                 [] Statement(r) = "slot" -> call
    /\ inflight' = IF Statement(r) = "slot" THEN None ELSE inflight
    /\ deferred' = [deferred EXCEPT ![r] = (@ + 1) % 3]
    /\ IF deferred[r] = 2 THEN Record(r, call[joined[r]].login)
                          ELSE UNCHANGED <<stage, at, report>>
    /\ UNCHANGED <<expired, joined, jar, credit>>

\* The answer is sent.  A call that nobody holds any more is garbage.
Answer(r) ==
    /\ stage[r] = "answer" /\ Becomes(r, "idle")
    /\ at' = [at EXCEPT ![r] = 1]
    /\ report' = [report EXCEPT ![r] = None]
    /\ expired' = [expired EXCEPT ![r] = FALSE]
    /\ joined' = [joined EXCEPT ![r] = None]
    /\ call' = [c \in Calls |-> IF \E s \in Requests : joined'[s] = c THEN call[c]
                                                                    ELSE NewCall]
    /\ UNCHANGED <<deferred, inflight, jar, credit>>

----------------------------------------------------------------------------
CheckUP(r) == Join(r) \/ Lead(r) \/ Wait(r) \/ LoginReturns(r) \/ Logout(r)
              \/ RunDeferred(r)
Next == \E r \in Requests :
            Ask(r) \/ ContextDone(r) \/ ProbeReturns(r) \/ CheckUP(r) \/ Answer(r)

Spec == Init /\ [][Next]_vars

\* Goroutines run, the sweep's deadline passes, a probe returns once its
\* context is done, and a login ends by the HTTP client's own timeout, which
\* LoadDaemonConfig insists on.  A probe need not return before the deadline.
Fairness ==
    \A r \in Requests : /\ WF_vars(ContextDone(r))
                        /\ WF_vars(expired[r] /\ ProbeReturns(r))
                        /\ WF_vars(CheckUP(r)) /\ WF_vars(Answer(r))
FairSpec == Spec /\ Fairness

(***************************************************************************)
(* Properties.                                                             *)
(***************************************************************************)
\* At most one session on the router at a time, however many requests come:
\* the jar that login and logout work on is shared and guarded by nothing else
\* ("at most one session is open at a time").
OneLogin ==
    \A r, s \in Requests :
        stage[r] \in {"login", "logout"} /\ stage[s] \in {"login", "logout"} => r = s

\* A sweep that reports the router ok shares a call whose login was ok, and on
\* a session the router granted to it or to a failed login before it: no
\* waiter reads a call's err too early, when nil still means ok, and no
\* session outlives the check it proved (the jar is replaced).
OkIsEarned ==
    \A r \in Requests :
        stage[r] = "answer" /\ report[r] = "ok" =>
            call[joined[r]].login = "ok" /\ call[joined[r]].earned

\* Every sweep is answered and the slot is always given back, after a panic, a
\* hang up or a wedged probe as after anything else, so that the router's
\* recovery can be noticed ("the in-flight slot is always cleared").
EverySweepEnds ==
    /\ \A r \in Requests : []<>(stage[r] = "idle")
    /\ []<>(inflight = None)
============================================================================
