---------------------------- MODULE BlockWalkMC -----------------------------
(* Instances of BlockWalk for TLC.                                           *)
EXTENDS BlockWalk

T(i) == [kind |-> "task", id |-> i]
B(i, b, r, a) ==
  [kind |-> "block", id |-> i, block |-> b, rescue |-> r, always |-> a]

(* Every block whose sections are empty, a task, or an inner block and a     *)
(* task, followed by a task; and lists with several blocks in one section.   *)
Inner(k) == {B(k + 1, <<T(k + 2)>>, r, a) : r \in {<<>>, <<T(k + 3)>>},
                                            a \in {<<>>, <<T(k + 4)>>}}
Section(k) == {<<>>, <<T(k)>>} \union {<<i, T(k)>> : i \in Inner(k)}
Nested == {<<B(1, b, r, a), T(2)>> : b \in Section(10), r \in Section(20),
                                     a \in Section(30)}
InSequence == {
  <<T(1), B(10, <<T(2), T(3)>>, <<T(4), T(5)>>, <<T(6), T(7)>>), T(8)>>,
  <<B(10, <<T(1)>>, <<B(11, <<T(2)>>, <<>>, <<T(3)>>),
                      B(12, <<T(4)>>, <<T(5)>>, <<>>)>>, <<T(6)>>), T(7)>>,
  <<B(10, <<T(1), B(11, <<T(2)>>, <<>>, <<>>), B(12, <<T(3)>>, <<>>, <<T(4)>>)>>,
      <<T(5)>>, <<>>), T(6)>> }
MCLists == Nested \union InSequence

=============================================================================
