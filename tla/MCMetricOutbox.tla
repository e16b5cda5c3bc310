--------------------------- MODULE MCMetricOutbox ---------------------------
(* Two processes submit and flush; two targets share the outbox, and one   *)
(* event is submitted with two bodies.                                     *)
EXTENDS MetricOutbox
CONSTANTS p1, p2, s1, s2, f1, f2, t1, t2
MCProcessOf == s1 :> p1 @@ s2 :> p2 @@ f1 :> p1 @@ f2 :> p2
MCTargetOf == f1 :> t1 @@ f2 :> t1
Metric(t, e, b) == [target |-> t, event |-> e, body |-> b]
MCSubmits == s1 :> {Metric(t1, 1, "a"), Metric(t1, 2, "a")} @@
             s2 :> {Metric(t1, 1, "b"), Metric(t2, 2, "a")}
MCRecord == MCSubmits[s1] \cup MCSubmits[s2]
=============================================================================
