---------------------------- MODULE MCDiagnosis -----------------------------
(* Two instances of one source id and a second source, mostly about one scope:
   complete, partial and no loss, under two generation vectors, with long and short
   freshness windows, the three owner signals, a withdrawal that counts failures, an
   inexact and a self-contradicting report; sequence numbers that repeat and wrap, a repeated attempt, an observation
   made later than another, one of a second scope and a malformed one. *)
EXTENDS Diagnosis

a1 == [id |-> "a", boot |-> 1, inc |-> 1]
a2 == [id |-> "a", boot |-> 2, inc |-> 2]
b1 == [id |-> "b", boot |-> 1, inc |-> 1]

Report(source, seq, gens, close, failures, loss) ==
  [source |-> source, scope |-> "s", gens |-> gens, seq |-> seq, attempt |-> 0,
   observed_at |-> 1, open |-> 1, close |-> close, kind |-> "Delivery", exact |-> TRUE,
   attempts |-> 1, failures |-> failures, loss |-> loss]

Total(source, seq, gens, close) == Report(source, seq, gens, close, 1, TotalLoss)
Clean(source, seq, gens, close) == Report(source, seq, gens, close, 0, 0)

MCObservations ==
  UNION {
    {Total(c, seq, "g", 3) : c \in {a1, a2, b1}, seq \in {1, 2}},
    {Clean(c, seq, "g", 3) : c \in {a1, a2}, seq \in {1, 2}},
    {Total(b1, 1, "h", 3), Clean(b1, 1, "h", 3), Clean(a2, 1, "h", 3), Clean(b1, 1, "g", 2)},
    {Report(b1, 1, "g", 3, 1, 1), Report(a1, 1, "g", 3, 1, 0)},
    {[Total(b1, 1, "g", 3) EXCEPT !.exact = FALSE]},
    {[Clean(b1, 1, "g", 3) EXCEPT !.kind = k, !.attempts = 0]
       : k \in {"Withdrawal", "Partition", "Congestion"}},
    {[Total(b1, 1, "g", 3) EXCEPT !.kind = "Withdrawal"]},
    {[Total(a1, seq, "g", 3) EXCEPT !.attempt = 1] : seq \in {1, 2}},
    {[Total(a1, seq, "g", 3) EXCEPT !.observed_at = 2] : seq \in {1, 2}},
    {[Total(c, 1, "g", 3) EXCEPT !.scope = sc] : c \in {a1, b1}, sc \in {"t", "u"}},
    {Total(a1, 0, "g", 3)}}
=============================================================================
