---- MODULE MCPublication ----
(* A small instance: one run, its four events, a fact that conflicts with one of *)
(* them and an unsafe event. The month is [0, 1), its as-of points are 1 and 3.  *)
EXTENDS Publication, TLC

MCItem(id, type, evidence, occurred) ==
  [id |-> id, fact |-> type, type |-> type, run |-> "run", cycle |-> "cycle",
   evidence |-> evidence, occurred |-> occurred, form |-> "ok"]

MCStarted  == MCItem("s", "run_started", "none", 0)
MCResolved == MCItem("r", "resolution_completed", "e1", 0)
MCClashing == MCItem("r", "resolution_completed", "e2", 0)
MCVerified == MCItem("v", "verification_passed", "e1", 0)
MCAccepted == MCItem("a", "run_accepted", "none", 0)
MCUnsafe   == [MCItem("u", "run_accepted", "none", 0) EXCEPT !.form = "unsafe"]

MCBatches ==
  {<<MCStarted, MCUnsafe>>, <<MCResolved, MCVerified, MCAccepted>>, <<MCClashing, MCStarted>>}

\* Requests of the same kind are interchangeable.
MCSymmetry == Permutations(Poster) \union Permutations(Publisher)
====
