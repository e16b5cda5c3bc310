----------------------------- MODULE FencedLog -----------------------------
(***************************************************************************)
(* What a control log with a writer lease promises, whoever writes: a      *)
(* lease is numbered past the one before it and past every line on record; *)
(* only its holder adds lines, one behind the other, under its name and    *)
(* number; no line is changed or taken away before the log has ended,      *)
(* which it does when nobody holds it, once and for all.                   *)
(***************************************************************************)
EXTENDS Naturals, Sequences

VARIABLES
  log,     \* the lines on record
  acked,   \* those whose writer was told so
  holder,  \* whose turn it is to write, and under which number
  ended    \* the log is being thrown away

vars == <<log, acked, holder, ended>>

Nobody == [by |-> 0, epoch |-> 0]

Init == log = <<>> /\ acked = {} /\ holder = Nobody /\ ended = FALSE

Grant ==
  /\ ~ended
  /\ holder' # Nobody /\ holder'.epoch > holder.epoch
  /\ \A k \in DOMAIN log : holder'.epoch > log[k].epoch
  /\ UNCHANGED <<log, acked, ended>>

(* An interrupted writer may leave its line and never be told.             *)
Write ==
  /\ ~ended /\ holder # Nobody
  /\ Len(log') = Len(log) + 1
  /\ LET line == log'[Len(log) + 1] IN
     /\ line.by = holder.by /\ line.epoch = holder.epoch /\ line.index = Len(log) + 1
     /\ log' = Append(log, line)
     /\ acked' \in {acked, acked \cup {line}}
  /\ UNCHANGED <<holder, ended>>

Lose == holder' = Nobody /\ UNCHANGED <<log, acked, ended>>

End ==
  /\ holder = Nobody
  /\ ended' = TRUE /\ UNCHANGED <<log, acked, holder>>

Delete ==
  /\ ended
  /\ log' = <<>> /\ UNCHANGED <<acked, holder, ended>>

Next == Grant \/ Write \/ Lose \/ End \/ Delete

Spec == Init /\ [][Next]_vars

=============================================================================
