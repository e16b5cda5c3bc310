---- MODULE UsageScope ----
(* The usage display of packages/codex-usage-status: which account's figures the *)
(* status line shows, while the login behind it changes, models and sessions are *)
(* switched, and two kinds of requests (the login, the figures) are answered     *)
(* late or never for the state that asked for them.                              *)
(*                                                                               *)
(* The controller runs on one thread: each action is a handler or the            *)
(* continuation of an await, with every call it makes. Its methods are in        *)
(* UsageController. The five-minute and ten-minute timers are cleared by the     *)
(* one-minute lease before they are due and are left out.                        *)
EXTENDS UsageController

CONSTANTS Account, \* the accounts one can be logged in with
          Context, \* the sessions' contexts
          Failed   \* an answer that is an error

ASSUME UsageScopeAssumption ==
  None \notin Account \union Context /\ Failed \notin Account \union {None}

VARIABLE closed    \* the session has been shut down

vars == <<account, ctl, closed>>

(* ---- events ---------------------------------------------------------------- *)

\* A session starts, the user types, the agent settles, or (force) a model is
\* chosen: with a context, and a model the display is meant for or not.
Handled(x, fits, force) ==
  LET forced  == IF force THEN [Invalidate(ctl) EXCEPT !.failure = FALSE] ELSE ctl
      adopted == [forced EXCEPT !.context = x, !.eligible = fits]
      leased  == IF adopted.lease = "lapsed" THEN RenderUnavailable(Invalidate(adopted)) ELSE adopted
  IN  IF ~Own(leased) THEN Disable(leased)
      ELSE IF ~HasLease(leased) THEN RequestScope(RenderUnavailable(leased), TRUE)
      ELSE LET shown == Render(leased)
           IN  IF shown.rested THEN RequestUsage(shown, None, FALSE) ELSE shown

Handle(x, fits) ==
  /\ ~closed
  /\ ctl' = Handled(x, fits, FALSE)
  /\ UNCHANGED <<account, closed>>

SelectModel(x, fits) ==
  /\ ~closed
  /\ ctl' = Handled(x, fits, TRUE)
  /\ UNCHANGED <<account, closed>>

\* The Fast part of the line changes and the line is drawn anew.
UpdateFastDisplay ==
  /\ ctl.context # None
  /\ ctl' = IF Own(ctl) THEN Render(ctl) ELSE [ctl EXCEPT !.display = Nothing]
  /\ UNCHANGED <<account, closed>>

Shutdown ==
  /\ ~closed
  /\ closed' = TRUE
  /\ ctl' = Invalidate(ForgetPending(
              [ctl EXCEPT !.display = Nothing, !.context = None, !.eligible = FALSE]))
  /\ UNCHANGED account

(* ---- the login is answered ------------------------------------------------- *)

\* Whoever was logged in when it was asked for, or is now; nobody; or an error.
Answers(asked) == {asked, account, None, Failed}

\* A confirmed account takes the lease; figures of another account go.
Confirmed(c, a, now) ==
  LET kept    == IF c.scope # None /\ c.scope # a THEN [c EXCEPT !.snapshot = None] ELSE c
      drawn   == Render([kept EXCEPT !.scope = a, !.lease = "valid"])
  IN  IF now \/ drawn.snapshot = None \/ drawn.rested THEN RequestUsage(drawn, a, now) ELSE drawn

ScopeAnswered(c, r, a) ==
  LET own == r.current /\ r.context = c.context
  IN  IF a = Failed THEN (IF own THEN RenderUnavailableOrStale(c) ELSE c)
      ELSE IF ~own \/ ~Own(c) THEN c
      ELSE IF a = None THEN RenderUnavailable(Invalidate(c))
      ELSE Confirmed(c, a, r.now)

ScopeAnswer(a) ==
  /\ ctl.login # None
  /\ a \in Answers(ctl.login.asked)
  /\ LET c == ScopeAnswered(ctl, ctl.login, a)
     IN  ctl' = DrainUsage(DrainScope([c EXCEPT !.login = None]))
  /\ UNCHANGED <<account, closed>>

(* ---- the figures are fetched ----------------------------------------------- *)

\* Slip: the request still counts as in flight.
FetchEndsInFlight(c) == DrainUsage(c)

FetchEnds(c) == DrainUsage([c EXCEPT !.fetch = None])

\* The login of a fetch that had none at hand. Another account than the confirmed
\* one ends the generation, if it is still the request's.
UsageLogin(a) ==
  /\ ctl.fetch # None
  /\ ctl.fetch.phase = "login"
  /\ a \in {account, None, Failed}
  /\ LET r == ctl.fetch
         own == r.current /\ r.context = ctl.context
     IN  ctl' =
           IF a = Failed
           THEN FetchEnds(IF own THEN RenderUnavailableOrStale([ctl EXCEPT !.failure = TRUE]) ELSE ctl)
           ELSE IF a = None \/ a # ctl.scope
           THEN FetchEnds(IF r.current THEN RenderUnavailable(Invalidate(ctl)) ELSE ctl)
           ELSE IF ~own \/ ~Own(ctl) THEN FetchEnds(ctl)
           ELSE [ctl EXCEPT !.fetch.phase = "figures", !.fetch.of = a]
  /\ UNCHANGED <<account, closed>>

\* Slip: the account is not compared again after the fetch.
FitsGeneration(c, r) == r.current /\ r.context = c.context

\* An answer is for this generation, this context and the account confirmed now.
Fits(c, r) == r.current /\ r.context = c.context /\ c.scope = r.of

Fetched(c, r, ok) ==
  IF ~Fits(c, r) THEN c
  ELSE IF ~ok THEN RenderUnavailableOrStale([c EXCEPT !.failure = TRUE])
  ELSE Render([c EXCEPT !.snapshot = r.of, !.failure = FALSE])

UsageAnswer(ok) ==
  /\ ctl.fetch # None
  /\ ctl.fetch.phase = "figures"
  /\ ctl' = FetchEnds(Fetched(ctl, ctl.fetch, ok))
  /\ UNCHANGED <<account, closed>>

(* ---- time and the login outside -------------------------------------------- *)

LeaseLapses ==
  /\ ctl.lease = "valid"
  /\ ctl' = [ctl EXCEPT !.lease = "lapsed"]
  /\ UNCHANGED <<account, closed>>

LeaseTimer ==
  /\ ctl.lease = "lapsed"
  /\ ctl' = RequestScope(RenderUnavailable(Invalidate(ctl)), TRUE)
  /\ UNCHANGED <<account, closed>>

Rest ==
  /\ ~ctl.rested
  /\ ctl' = [ctl EXCEPT !.rested = TRUE]
  /\ UNCHANGED <<account, closed>>

Login(a) ==
  /\ a # account
  /\ account' = a
  /\ UNCHANGED <<ctl, closed>>

Init ==
  /\ account \in Account \union {None}
  /\ ctl = InitController
  /\ closed = FALSE

Next ==
  \/ \E x \in Context, fits \in BOOLEAN : Handle(x, fits) \/ SelectModel(x, fits)
  \/ UpdateFastDisplay \/ Shutdown
  \/ \E a \in Account \union {None, Failed} : ScopeAnswer(a) \/ UsageLogin(a)
  \/ \E ok \in BOOLEAN : UsageAnswer(ok)
  \/ LeaseLapses \/ LeaseTimer \/ Rest
  \/ \E a \in Account \union {None} : Login(a)

Spec == Init /\ [][Next]_vars

\* Requests are answered (a fetch is aborted after five seconds) and timers fire.
Fairness ==
  /\ WF_vars(\E a \in Account \union {None, Failed} : ScopeAnswer(a))
  /\ WF_vars(\E a \in Account \union {None, Failed} : UsageLogin(a))
  /\ WF_vars(\E ok \in BOOLEAN : UsageAnswer(ok))
  /\ WF_vars(LeaseLapses) /\ WF_vars(LeaseTimer)

FairSpec == Spec /\ Fairness

(* ---- properties ------------------------------------------------------------ *)

\* A confirmation asked for while another is under way is made: it is not lost with
\* an answer that comes too late for the generation it was asked in. (Unless, before
\* that answer, nobody is logged in or the model is not one the display is meant for:
\* then it waits for the next event.)
RefreshIsNotLost ==
  (ctl.scopePending /\ ctl.login # None) ~> (~ctl.scopePending \/ ~Own(ctl))

\* The display recovers from whatever has happened: once the login is stable and
\* answers succeed, and events keep coming (of another context only while no
\* request is in flight), the account's fresh figures are shown again and again. No
\* state is a dead end in which nothing asks for a confirmation any more.
Undisturbed ==
  /\ account' = account /\ account # None /\ ~closed' /\ ctl'.eligible
  /\ ~\E x \in Context, fits \in BOOLEAN : SelectModel(x, fits)
  /\ ~\E a \in {None, Failed} : ScopeAnswer(a) \/ UsageLogin(a)
  /\ ~UsageAnswer(FALSE)
  /\ ctl'.context = ctl.context \/ (ctl.login = None /\ ctl.fetch = None)
Recovers ==
  (<>[][Undisturbed]_vars /\ []<><<\E x \in Context : Handle(x, TRUE)>>_vars)
    => []<>(ctl.display = Figures("fresh", account))
====
