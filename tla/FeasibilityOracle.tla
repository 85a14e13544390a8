-------------------------- MODULE FeasibilityOracle --------------------------
(***************************************************************************)
(* Class FeasibilityOracle of localize/localizer.cpp: the memoizing search *)
(* that decides, within a node budget, whether a mask can be covered with  *)
(* k candidates from lo on.  The recursion of covers() is a stack of       *)
(* frames, so that each call and each return is a step: `ok' is what the   *)
(* last call that returned has answered, and an empty stack means that the *)
(* caller's question is answered.                                          *)
(***************************************************************************)
EXTENDS ConstraintSystem

Oracle(budget) ==
  [budget |-> budget, nodes |-> 0, exhausted |-> FALSE, memo |-> <<>>, stack |-> <<>>, ok |-> FALSE]

(* The set with the lowest bit of mask. *)
Lowest(F, mask) == CHOOSE S \in mask : \A T \in mask : SetIndex(F, S) <= SetIndex(F, T)

(* mask & ~cover[c] *)
Rest(mask, c) == {S \in mask : c \notin S}

Answered(o, ok) == [o EXCEPT !.ok = ok]

(* covers() up to its loop: it answers at once, or a frame is pushed.  The frame
   keeps the candidates of the lowest set that are still to be tried. *)
Enter(F, o, mask, k, lo) ==
  LET node == [o EXCEPT !.nodes = @ + 1]
      key == <<mask, k, lo>>
      frame == [mask |-> mask, k |-> k, lo |-> lo, todo |-> {c \in Lowest(F, mask) : c >= lo}]
  IN IF o.exhausted THEN Answered(o, FALSE)
     ELSE IF mask = {} THEN Answered(o, TRUE)
     ELSE IF k = 0 THEN Answered(o, FALSE)
     ELSE IF node.nodes > o.budget THEN [Answered(node, FALSE) EXCEPT !.exhausted = TRUE]
     ELSE IF key \in DOMAIN o.memo THEN Answered(node, o.memo[key])
     ELSE [Answered(node, FALSE) EXCEPT !.stack = Append(@, frame)]

Top(o) == o.stack[Len(o.stack)]

(* The loop of the innermost call goes on. *)
Trying(o) == ~o.ok /\ ~o.exhausted /\ Top(o).todo # {}

(* It tries its next candidate, *)
Try(F, o) ==
  LET c == Min(Top(o).todo)
  IN Enter(F, [o EXCEPT !.stack[Len(o.stack)].todo = @ \ {c}],
           Rest(Top(o).mask, c), Top(o).k - 1, Top(o).lo)

(* or ends, and the answer is kept unless the budget cut the search short. *)
Memoized(memo, key, ok) ==
  [m \in DOMAIN memo \cup {key} |-> IF m = key THEN ok ELSE memo[m]]

Return(o) ==
  [o EXCEPT !.stack = SubSeq(@, 1, Len(@) - 1),
            !.memo = IF o.exhausted THEN @
                     ELSE Memoized(@, <<Top(o).mask, Top(o).k, Top(o).lo>>, o.ok)]
=============================================================================
