----------------------------- MODULE AtLeastOnce -----------------------------
(***************************************************************************)
(* What the service promises about a payload, with no table, lease, worker *)
(* or process in sight: it is accepted once, it is acknowledged only after *)
(* that, and once it has been settled it is never open again.  A payload   *)
(* that was settled one way may still be settled the other way, because a  *)
(* late worker may report another outcome.                                 *)
(***************************************************************************)
CONSTANT Payloads

VARIABLES life,    \* [Payloads -> "absent", "open", "done" or "dead"]
          acked    \* payloads for which some vendor holds a 202

Init ==
  /\ life  = [h \in Payloads |-> "absent"]
  /\ acked = {}

Accept(h) ==
  /\ life[h] = "absent"
  /\ life' = [life EXCEPT ![h] = "open"]
  /\ UNCHANGED acked

Acknowledge(h) ==
  /\ life[h] # "absent"
  /\ acked' = acked \cup {h}
  /\ UNCHANGED life

Settle(h, outcome) ==
  /\ life[h] # "absent"
  /\ life' = [life EXCEPT ![h] = outcome]
  /\ UNCHANGED acked

Next ==
  \E h \in Payloads :
    \/ Accept(h)
    \/ Acknowledge(h)
    \/ \E outcome \in {"done", "dead"} : Settle(h, outcome)

Spec == Init /\ [][Next]_<<life, acked>>
=============================================================================
