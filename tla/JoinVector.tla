----------------------------- MODULE JoinVector -----------------------------
(***************************************************************************)
(* The loop all IMV functions of hashing_runner.cpp share: StateSize       *)
(* vector states are worked on in turn, the lanes left over by one of them *)
(* are collected in one more, the residual state, and handed to another.   *)
(* m is the record of the locals: k, done, cur and the array st; n is the  *)
(* number of tuples of the thread.                                         *)
(***************************************************************************)
EXTENDS Lanes

CONSTANT StateSize    \* NPJ_SIMDStateSize

ASSUME StateAssumption == StateSize \in Nat \ {0}

Residual == StateSize

\* The local variables before the loop.
ImvStart ==
  [k |-> 0, done |-> 0, cur |-> 0, op |-> "turn", left |-> {}, chosen |-> {},
   next |-> [i \in Lanes |-> << >>],
   st |-> [s \in 0 .. Residual |->
             [stage |-> "load", have |-> {}, lane |-> [i \in Lanes |-> ZeroLane]]]]

Rotated(m) == IF m.k >= StateSize THEN 0 ELSE m.k

Drained(m, n) == m.cur >= n

\* Mutated form: a state that is done is done again.
RetiringAgain(m, n) == Drained(m, n) /\ m.st[Rotated(m)].have = {}

\* A state without lanes is done when all tuples are loaded.
Retiring(m, n) ==
  Drained(m, n) /\ m.st[Rotated(m)].have = {} /\ m.st[Rotated(m)].stage # "done"

\* Mutated form: the states that are done are not counted.
RetireUncounted(m) ==
  [m EXCEPT !.k = Rotated(m) + 1, !.st[Rotated(m)].stage = "done"]

Retire(m) ==
  [m EXCEPT !.done = @ + 1, !.k = Rotated(m) + 1, !.st[Rotated(m)].stage = "done"]

\* With all states done the residual one gets every turn, until it is empty.
OnlyResidual(m, n) == Drained(m, n) /\ ~Retiring(m, n) /\ m.done >= StateSize

Leaving(m, n) == OnlyResidual(m, n) /\ m.st[Residual].have = {}

\* Whose turn it is; the residual state is always worked on in stage last.
Turn(m, n, last) ==
  IF OnlyResidual(m, n)
  THEN [m EXCEPT !.k = Residual, !.st[Residual].stage = last]
  ELSE [m EXCEPT !.k = Rotated(m)]

\* case 1: the next tuples into the lanes; a lane past the end stays out.
Load(m, n, lanes, stage) ==
  LET have == {i \in Lanes : m.cur + i <= n}
  IN  [m EXCEPT !.cur = @ + VectorScale, !.k = @ + 1,
                !.st[m.k] = [stage |-> stage, have |-> have,
                             lane |-> [i \in Lanes |-> IF i \in have
                                                       THEN lanes[m.cur + i]
                                                       ELSE @.lane[i]]]]

\* The lanes in have fit into the residual state: they move there.
Collect(m, have) ==
  LET v == m.st[m.k].lane
      temp == m.st[Residual]
  IN  [m EXCEPT
        !.st[Residual].lane = Expand(@, Lanes \ temp.have, Compress(have, v)),
        !.st[Residual].have = LowLanes(Cardinality(have) + Cardinality(temp.have)),
        !.st[m.k] = [stage |-> "load", have |-> {}, lane |-> Compress(have, v)]]

\* Otherwise the residual state fills the free lanes, lowest first.
Fill(m, have, stage) ==
  LET temp == m.st[Residual]
      free == VectorScale - Cardinality(have)
      rest == temp.have \ LowLanes(free)
  IN  [m EXCEPT
        !.st[m.k] = [stage |-> stage, have |-> Lanes,
                     lane |-> Expand(@.lane, Lanes \ have, temp.lane)],
        !.st[Residual].have = ShiftDown(rest, free),
        !.st[Residual].lane = Compress(rest, temp.lane)]

\* The end of a case: the lanes in have are still to be worked on, in stage;
\* step is 1 when the next state gets its turn first.  In the residual state
\* nothing is merged; when it is empty the loop ends at its next turn.
Continue(m, have, stage, step) ==
  LET num == Cardinality(have)
      num_temp == Cardinality(m.st[Residual].have)
  IN  IF num = VectorScale \/ m.done >= StateSize
      THEN [m EXCEPT !.st[m.k].have = have, !.st[m.k].stage = stage, !.k = @ + step]
      ELSE IF num = 0
      THEN [m EXCEPT !.st[m.k].have = {}, !.st[m.k].stage = "load"]
      ELSE IF num + num_temp < VectorScale
      THEN Collect(m, have)
      ELSE [Fill(m, have, stage) EXCEPT !.k = @ + step]
=============================================================================
