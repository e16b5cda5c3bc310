---- MODULE UsageController ----
(* The controller of the usage display (packages/codex-usage-status/src/usage.ts): *)
(* its state is one record, and its methods are functions on that record. The      *)
(* events that call them, and who answers its requests, are in UsageScope.         *)
(*                                                                                 *)
(* The generation counter is only ever compared with the value a request captured, *)
(* so a request carries whether the generation is still its own. Times appear as   *)
(* what the code distinguishes: whether the lease has run out, whether the pause   *)
(* between fetches is over.                                                        *)
CONSTANT None       \* no account, no context, no figures

VARIABLES account,  \* who is logged in by OAuth, None also with a key (outside)
          ctl       \* the controller

Nothing     == [kind |-> "nothing", of |-> None]
NoFigures   == [kind |-> "unavailable", of |-> None]
Figures(kind, a) == [kind |-> kind, of |-> a]

InitController ==
  [context |-> None,
   eligible |-> FALSE,      \* the model chosen is one the display is meant for
   scope |-> None,          \* the account confirmed last
   lease |-> "none",        \* "none", "valid" or "lapsed"
   snapshot |-> None,       \* whose figures are held
   failure |-> FALSE,       \* the last fetch failed
   rested |-> TRUE,         \* the pause since the last fetch is over
   login |-> None,          \* the login request in flight
   fetch |-> None,          \* the usage request in flight
   scopePending |-> FALSE, scopeNow |-> FALSE,
   fetchPending |-> FALSE, fetchNow |-> FALSE,
   display |-> Nothing]

(* ---- the controller's methods ---------------------------------------------- *)

\* isEligible: the model is as it was chosen, the login is looked at each time.
Meant(c) == c.context # None /\ c.eligible
Own(c) == Meant(c) /\ account # None
HasLease(c) == c.scope # None /\ c.lease = "valid"

\* A new generation: requests in flight no longer belong to the controller.
Outdate(r) == IF r = None THEN None ELSE [r EXCEPT !.current = FALSE]

RenderUnavailable(c) == IF c.context = None THEN c ELSE [c EXCEPT !.display = NoFigures]

Render(c) ==
  IF c.context = None \/ c.snapshot = None \/ c.snapshot # c.scope THEN RenderUnavailable(c)
  ELSE [c EXCEPT !.display = Figures(IF c.failure THEN "stale" ELSE "fresh", c.snapshot)]

RenderUnavailableOrStale(c) ==
  IF c.snapshot = None \/ c.snapshot # c.scope THEN RenderUnavailable([c EXCEPT !.snapshot = None])
  ELSE IF c.context = None THEN c
  ELSE [c EXCEPT !.display = Figures("stale", c.snapshot)]

Invalidate(c) ==
  [c EXCEPT !.snapshot = None, !.scope = None, !.lease = "none",
            !.login = Outdate(@), !.fetch = Outdate(@)]

ForgetPending(c) ==
  [c EXCEPT !.scopePending = FALSE, !.scopeNow = FALSE, !.fetchPending = FALSE, !.fetchNow = FALSE]

Disable(c) == ForgetPending([Invalidate(c) EXCEPT !.failure = FALSE, !.display = Nothing])

\* The figures are fetched with the login at hand, or after asking for one.
FetchUsage(c, auth) ==
  IF Own(c) /\ c.scope # None
  THEN [c EXCEPT !.rested = FALSE,
                 !.fetch = [current |-> TRUE, context |-> c.context,
                            phase |-> IF auth = None THEN "login" ELSE "figures",
                            of |-> auth]]
  ELSE c

RequestUsage(c, auth, now) ==
  IF c.fetch # None THEN [c EXCEPT !.fetchPending = TRUE, !.fetchNow = @ \/ now]
  ELSE IF ~now /\ ~c.rested THEN c
  ELSE FetchUsage([c EXCEPT !.fetchPending = FALSE, !.fetchNow = FALSE], auth)

DrainUsage(c) ==
  IF c.fetchPending /\ c.fetch = None /\ Own(c) /\ HasLease(c)
  THEN RequestUsage([c EXCEPT !.fetchPending = FALSE, !.fetchNow = FALSE], None, c.fetchNow)
  ELSE c

RequestScope(c, now) ==
  IF c.login # None THEN [c EXCEPT !.scopePending = TRUE, !.scopeNow = @ \/ now]
  ELSE IF Own(c)
  THEN [c EXCEPT !.login = [current |-> TRUE, context |-> c.context, now |-> now, asked |-> account]]
  ELSE c

\* Slip: what was asked for during a request is forgotten with the request.
DrainScopeNever(c) == c

DrainScope(c) ==
  IF c.scopePending /\ c.login = None /\ Own(c)
  THEN RequestScope([c EXCEPT !.scopePending = FALSE, !.scopeNow = FALSE], c.scopeNow)
  ELSE c

(* ---- what is shown ---------------------------------------------------------- *)

\* Figures are held and shown only of the account confirmed last, under its lease
\* (which a timer takes away), and shown only for a model they are about; whatever
\* answers are still under way, and whoever logs in or out meanwhile.
OwnFigures ==
  /\ ctl.snapshot # None => ctl.snapshot = ctl.scope /\ ctl.lease # "none"
  /\ ctl.display.kind \in {"fresh", "stale"} =>
       ctl.display.of = ctl.scope /\ ctl.lease # "none" /\ Meant(ctl)

====
