-------------------------- MODULE FencingAuthority --------------------------
(***************************************************************************)
(* What the coordinator promises about fencing authority, without a word   *)
(* on calls, commits, clocks or crashes.  An authority is an intent to     *)
(* fence a subject.  It comes into force only by a grant that is on record *)
(* at the same moment, it leaves once and never returns, and a coordinator *)
(* begins to serve only when nothing granted before is left on record.     *)
(***************************************************************************)
VARIABLES
  serving,   \* the coordinator answers requests
  inForce,   \* the authorities it acts on; members have a field `scope'
  onRecord,  \* granted, and not ended as far as the record knows
  ended      \* ended on record

vars == <<serving, inForce, onRecord, ended>>

Init ==
  /\ serving = FALSE
  /\ inForce = {}
  /\ onRecord = {}
  /\ ended = {}

StartServing ==
  /\ ~serving
  /\ onRecord = {}
  /\ serving' = TRUE
  /\ UNCHANGED <<inForce, onRecord, ended>>

StopServing ==
  /\ serving
  /\ serving' = FALSE
  /\ inForce' = {}
  /\ UNCHANGED <<onRecord, ended>>

(* A new authority, on a subject that has none, put on record as it comes into
   force. *)
Grant(i) ==
  /\ serving
  /\ i \notin onRecord \cup ended
  /\ \A j \in inForce : j.scope # i.scope
  /\ inForce' = inForce \cup {i}
  /\ onRecord' = onRecord \cup {i}
  /\ UNCHANGED <<serving, ended>>

(* Authorities lapse, or are given up before the record says so. *)
Lapse ==
  /\ inForce' \subseteq inForce
  /\ UNCHANGED <<serving, onRecord, ended>>

(* The end of an authority is put on record; it is not in force afterwards. *)
End(i) ==
  /\ i \in onRecord
  /\ inForce' = inForce \ {i}
  /\ onRecord' = onRecord \ {i}
  /\ ended' = ended \cup {i}
  /\ UNCHANGED serving

Next ==
  \/ StartServing
  \/ StopServing
  \/ \E i \in onRecord' : Grant(i)
  \/ Lapse
  \/ \E i \in onRecord : End(i)

Spec == Init /\ [][Next]_vars
=============================================================================
