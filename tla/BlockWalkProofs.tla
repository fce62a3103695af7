--------------------------- MODULE BlockWalkProofs ---------------------------
(* The two walkers of a list with blocks, for every list of tasks and blocks *)
(* nested to any depth.  IInv speaks of the walk while it goes on and under  *)
(* both walkers: the frames lie inside each other, the log knows the frames  *)
(* each entry was made in, the failed flag is what the failures in the log   *)
(* make it, and a block that has not come to its always section is still on  *)
(* the stack.  PlayInv, on top of it, is about the order of run_block.       *)
EXTENDS BlockWalk, TLAPS

Depth == Len(stack)

(* The frames lie inside each other, and each entry of the log made since a  *)
(* frame was begun has that frame around it.                                 *)
NestInv ==
  /\ stack[1].since = 0
  /\ \A k \in 1..Depth : \A m \in 1..Depth : k < m => stack[k].since < stack[m].since
  /\ \A k \in 1..Depth : stack[k].sec = "rescue" => stack[k].blk.rescue # <<>>
Around(e) ==
  /\ Len(e.at) \in Nat /\ Len(e.at) > 0 /\ e.at[1].since = 0
  /\ \A k \in 1..Len(e.at) : e.at[k].since \in Nat
  /\ \A k \in 1..Len(e.at) : \A m \in 1..Len(e.at) : k < m => e.at[k].since < e.at[m].since
LogOf(i) ==
  /\ Around(log[i])
  /\ \A p \in 1..Len(log[i].at) : log[i].at[p].since < i
  /\ \A k \in 1..Depth : i > stack[k].since =>
       /\ k <= Len(log[i].at)
       /\ log[i].at[k].since = stack[k].since /\ log[i].at[k].blk = stack[k].blk
       /\ stack[k].sec \in {"block", "rescue"} => log[i].at[k].sec \in {"block", stack[k].sec}
       /\ stack[k].sec = "top" => log[i].at[k].sec = "top"
       /\ stack[k].sec = "always" => log[i].at[k].sec \in {"block", "rescue", "always"}
       /\ k < Depth /\ i > stack[k + 1].since => log[i].at[k].sec = stack[k].sec
LogInv == \A i \in 1..Len(log) : LogOf(i)

(* A strategy goes on with a rescue or always section after a block in it    *)
(* has failed: the next block is entered with a host that is failed already. *)
FailedBefore(k) ==
  k > 1 /\ \E i \in 1..Len(log) : i <= stack[k].since /\ Escapes(i, stack[k-1].since, stack[k-1].sec)
(* The block and rescue sections of frame k come to a failure. *)
MainFails(k) ==
  \/ Fails(stack[k].since, "block") /\ stack[k].blk.rescue = <<>>
  \/ Fails(stack[k].since, "rescue")
FlagOf(k) ==
  /\ walker = "play" \/ stack[k].sec = "rescue" => ~FailedBefore(k)
  /\ stack[k].sec = "always" => (stack[k].saved <=> MainFails(k) \/ FailedBefore(k))
  /\ k < Depth /\ stack[k].sec \in {"top", "block"} =>
       ~FailedBefore(k) /\ ~FailedBefore(k + 1)
TopFlag ==
  /\ failed <=> \/ Fails(Top.since, Top.sec)
                \/ Top.sec = "block" /\ FailedBefore(Depth)
  /\ Top.sec = "block" => (Top.blockFailed <=> Fails(Top.since, "block"))
  /\ Top.sec = "block" /\ FailedBefore(Depth) => ~Fails(Top.since, "block")
FlagInv == TopFlag /\ \A k \in 1..Depth : FlagOf(k)

(* A block whose always section has not begun is still on the stack.         *)
Follows(j, i) ==
  /\ Within(log[j]).since = i /\ Within(log[j]).sec = "always"
  /\ log[j].node = Head(log[i].node.always)
AwaitsAlways(k, i) ==
  /\ stack[k].since = i /\ stack[k].blk = log[i].node
  /\ \/ stack[k].sec \in {"block", "rescue"}
     \/ k = Depth /\ stack[k].sec = "always" /\ stack[k].todo = stack[k].blk.always /\ ~failed
AlwaysOf(i) ==
  log[i].out = "entered" /\ log[i].node.always # <<>> =>
    \/ \E j \in i + 1..Len(log) : Follows(j, i)
    \/ status = "run" /\ \E k \in 2..Depth : AwaitsAlways(k, i)
AlwaysInv == \A i \in 1..Len(log) : AlwaysOf(i)

(* The order of a walk while it goes on: a section whose frame is not on the *)
(* stack has come to its end, and a block's sections have run as they should *)
(* once it is past them.                                                     *)
Open(s, c) == \E k \in 1..Depth : stack[k].since = s /\ stack[k].sec = c
OrderInv ==
  \A j \in 1..Len(log) : StartsRight(j) /\ \A i \in 1..j - 1 : GoesOnRight(i, j)
EndOf(i) == Open(Within(log[i]).since, Within(log[i]).sec) \/ EndsRight(i)
EndInv == \A i \in 1..Len(log) : EndOf(i)
BegunOf(i) ==
  log[i].out = "entered" =>
    /\ Open(i, "block") \/ log[i].node.block = <<>> \/ Runs(i, "block")
    /\ \/ Open(i, "block")
       \/ Open(i, "rescue") /\ Fails(i, "block")
       \/ /\ ~Open(i, "rescue")
          /\ Runs(i, "rescue") <=> Fails(i, "block") /\ log[i].node.rescue # <<>>
BegunInv == \A i \in 1..Len(log) : BegunOf(i)
(* The frame of a section knows where its walk is: before the first node, or *)
(* after the last entry made in it, which for a frame that is not the top    *)
(* one is the block being walked above it.                                   *)
LastIn(i, s, c) ==
  InSection(i, s, c) /\ \A j \in i + 1..Len(log) : ~InSection(j, s, c)
AtStart(k) ==
  ~Runs(stack[k].since, stack[k].sec) =>
    k = Depth /\ ~failed /\ stack[k].todo = Contents(stack[k].since, stack[k].sec)
AfterLast(k) ==
  \A i \in 1..Len(log) : LastIn(i, stack[k].since, stack[k].sec) =>
    /\ stack[k].todo = Tail(Left(i))
    /\ k = Depth => (NodeFailed(i) <=> failed)
OfBlock(k) ==
  k > 1 => /\ stack[k].since \in 1..Len(log)
           /\ log[stack[k].since].out = "entered"
           /\ log[stack[k].since].node = stack[k].blk
           /\ LastIn(stack[k].since, stack[k - 1].since, stack[k - 1].sec)
FrameInv(k) == AtStart(k) /\ AfterLast(k) /\ OfBlock(k)
FramesInv == \A k \in 1..Depth : FrameInv(k)
PlayInv ==
  /\ walker = "play" /\ status = "run" => OrderInv /\ EndInv /\ BegunInv /\ FramesInv
  /\ PlayRunsAsWritten

IsSeq(s) == \E S : s \in Seq(S)
FrameOf(sec, todo, blk, since, blockFailed, saved) ==
  [sec |-> sec, todo |-> todo, blk |-> blk, since |-> since,
   blockFailed |-> blockFailed, saved |-> saved]
IsFrame(f) == f = FrameOf(f.sec, f.todo, f.blk, f.since, f.blockFailed, f.saved)
(* The types, a frame at a time. *)
GoodFrame(f, i, len) ==
  /\ IsFrame(f)
  /\ f.sec \in {"top", "block", "rescue", "always"}
  /\ f.sec = "top" <=> i = 1
  /\ f.since \in 0..len
  /\ f.blockFailed \in BOOLEAN
  /\ f.saved \in BOOLEAN
Base ==
  /\ walker \in Walkers /\ list \in Lists
  /\ failed \in BOOLEAN /\ status \in {"run", "done", "err"}
  /\ IsSeq(stack) /\ IsSeq(log) /\ Len(stack) > 0
  /\ \A k \in 1..Len(stack) : GoodFrame(stack[k], k, Len(log))
  /\ \A i \in 1..Len(log) : log[i].out \in Outcomes \union {"entered"}
RunInv == status = "run" => NestInv /\ LogInv /\ FlagInv
AInv == status # "err" => AlwaysInv
IInv == Base /\ RunInv /\ AInv /\ FailedFlagExact

-----------------------------------------------------------------------------
(* What the steps do to the two sequences. *)
LEMMA Lengths ==
  \A s : IsSeq(s) => Len(s) \in Nat /\ DOMAIN s = 1..Len(s)
  BY DEF IsSeq

LEMMA Appended ==
  ASSUME NEW s, IsSeq(s), NEW e
  PROVE  /\ IsSeq(Append(s, e)) /\ Len(Append(s, e)) = Len(s) + 1
         /\ Append(s, e)[Len(s) + 1] = e
         /\ \A i \in 1..Len(s) : Append(s, e)[i] = s[i]
<1>1. PICK S : s \in Seq(S)
  BY DEF IsSeq
<1>2. s \in Seq(S \union {e})
  BY <1>1
<1> QED
  BY <1>2 DEF IsSeq

LEMMA TopReplaced ==
  ASSUME IsSeq(stack), Depth > 0, NEW f
  PROVE  /\ IsSeq(WithTop(f)) /\ Len(WithTop(f)) = Depth
         /\ WithTop(f)[Depth] = f
         /\ \A k \in 1..Depth : k # Depth => WithTop(f)[k] = stack[k]
<1>1. PICK S : stack \in Seq(S)
  BY DEF IsSeq
<1>2. Rest \in Seq(S) /\ Len(Rest) = Depth - 1
      /\ \A k \in 1..Depth : k # Depth => Rest[k] = stack[k]
  <2>1. Depth \in Nat /\ Depth = Len(stack)
    BY <1>1 DEF Depth
  <2>2. \A i \in 1..Depth - 1 : stack[i] \in S
    BY <1>1, <2>1
  <2>3. Rest = [i \in 1..Depth - 1 |-> stack[i]]
    BY <2>1 DEF Rest
  <2> QED
    BY <2>1, <2>2, <2>3
<1>3. WithTop(f) = Append(Rest, f)
  <2>1. Rest \in Seq(S \union {f})
    BY <1>2
  <2> QED
    BY <2>1 DEF WithTop
<1>4. IsSeq(Rest)
  BY <1>2 DEF IsSeq
<1>5. Depth \in Nat
  BY Lengths DEF Depth
<1> QED
  BY <1>2, <1>3, <1>4, <1>5, Appended

(* s is the stack with f in place of the innermost frame and g inside it.    *)
Pushed(s, f, g) ==
  /\ IsSeq(s) /\ Len(s) = Depth + 1
  /\ s[Depth + 1] = g /\ s[Depth] = f
  /\ \A k \in 1..Depth : k # Depth => s[k] = stack[k]
LEMMA FramePushed ==
  ASSUME IsSeq(stack), Depth > 0
  PROVE  \A f, g : Pushed(WithTop(f) \o <<g>>, f, g)
<1> SUFFICES ASSUME NEW f, NEW g, NEW w, NEW s, w = WithTop(f), s = w \o <<g>>
             PROVE  Pushed(s, f, g)
  OBVIOUS
<1>1. /\ IsSeq(w) /\ Len(w) = Depth /\ w[Depth] = f
      /\ \A k \in 1..Depth : k # Depth => w[k] = stack[k]
  BY TopReplaced
<1>2. PICK S : w \in Seq(S)
  BY <1>1 DEF IsSeq
<1>3. s = Append(w, g)
  <2>1. w \in Seq(S \union {g})
    BY <1>2
  <2> QED
    BY <2>1
<1>4. Depth \in Nat
  BY Lengths DEF Depth
<1>5. IsSeq(s) /\ Len(s) = Depth + 1 /\ s[Depth + 1] = g
      /\ \A k \in 1..Depth : s[k] = w[k]
  <2>1. /\ IsSeq(Append(w, g)) /\ Len(Append(w, g)) = Len(w) + 1
        /\ Append(w, g)[Len(w) + 1] = g
        /\ \A k \in 1..Len(w) : Append(w, g)[k] = w[k]
    BY <1>1, Appended
  <2> QED
    BY <1>1, <1>3, <2>1, Zenon
<1>6. Depth \in 1..Depth
  BY <1>4
<1>7. s[Depth] = f
  BY <1>1, <1>5, <1>6, Zenon
<1>8. \A k \in 1..Depth : k # Depth => s[k] = stack[k]
  BY <1>1, <1>5, Zenon
<1> QED
  BY <1>5, <1>7, <1>8 DEF Pushed

(* s is the stack without its innermost frame, with f in place of the next.  *)
Popped(s, f) ==
  /\ IsSeq(s) /\ Len(s) = Depth - 1
  /\ s[Depth - 1] = f
  /\ \A k \in 1..Depth - 1 : k # Depth - 1 => s[k] = stack[k]
LEMMA FramePopped ==
  ASSUME IsSeq(stack), Depth > 1
  PROVE  /\ Rest[Len(Rest)] = stack[Depth - 1]
         /\ \A f : Popped([Rest EXCEPT ![Len(Rest)] = f], f)
<1> SUFFICES ASSUME NEW f, NEW s, s = [Rest EXCEPT ![Len(Rest)] = f]
             PROVE  Rest[Len(Rest)] = stack[Depth - 1] /\ Popped(s, f)
  OBVIOUS
<1>1. PICK S : stack \in Seq(S)
  BY DEF IsSeq
<1>2. Rest \in Seq(S \union {f}) /\ Len(Rest) = Depth - 1 /\ Depth \in Nat
      /\ \A k \in 1..Depth : k # Depth => Rest[k] = stack[k]
  BY <1>1 DEF Rest, Depth
<1>3. [Rest EXCEPT ![Len(Rest)] = f] \in Seq(S \union {f})
  BY <1>2
<1>4. IsSeq(s)
  BY <1>3 DEF IsSeq
<1>5. Rest[Len(Rest)] = stack[Depth - 1]
  BY <1>2
<1> QED
  BY <1>2, <1>4, <1>5 DEF Popped

-----------------------------------------------------------------------------
(* What a longer log says of the entries it had. *)
LEMMA Kept ==
  ASSUME IsSeq(log), UNCHANGED walker,
         log' = log \/ \E e : log' = Append(log, e)
  PROVE  /\ IsSeq(log') /\ Len(log) \in Nat /\ Len(log') \in {Len(log), Len(log) + 1}
         /\ log' = log => Len(log') = Len(log)
         /\ \A i \in 1..Len(log) :
              /\ log'[i] = log[i]
              /\ \A s, c : Escapes(i, s, c)' <=> Escapes(i, s, c)
<1>1. IsSeq(log') /\ Len(log) \in Nat /\ Len(log') \in {Len(log), Len(log) + 1}
      /\ \A i \in 1..Len(log) : log'[i] = log[i]
  <2>1. CASE log' = log
    BY <2>1, Lengths
  <2>2. ASSUME NEW e, log' = Append(log, e) PROVE <1>1!1
    BY <2>2, Lengths, Appended
  <2> QED
    BY <2>1, <2>2
<1>2. ASSUME NEW i \in 1..Len(log), NEW s, NEW c
      PROVE  Escapes(i, s, c)' <=> Escapes(i, s, c)
  <2>1. log'[i] = log[i]
    BY <1>1
  <2> QED
    BY <2>1 DEF Escapes, Counts, Notices
<1> QED
  BY <1>1, <1>2

(* The stack is never empty, and its last frame is the top one. *)
LEMMA Bounds ==
  ASSUME Base
  PROVE  /\ Depth \in Nat /\ Depth > 0 /\ Depth \in 1..Depth /\ Len(log) \in Nat
         /\ Depth = Len(stack) /\ Top = stack[Depth]
         /\ \A k \in 1..Depth : stack[k].since \in 0..Len(log)
  BY Lengths DEF Base, GoodFrame, Top, Depth

LEMMA FieldChanged ==
  ASSUME NEW f, IsFrame(f), NEW x
  PROVE  /\ [f EXCEPT !.sec = x] = FrameOf(x, f.todo, f.blk, f.since, f.blockFailed, f.saved)
         /\ [f EXCEPT !.todo = x] = FrameOf(f.sec, x, f.blk, f.since, f.blockFailed, f.saved)
         /\ [f EXCEPT !.blockFailed = x] = FrameOf(f.sec, f.todo, f.blk, f.since, x, f.saved)
         /\ [f EXCEPT !.saved = x] = FrameOf(f.sec, f.todo, f.blk, f.since, f.blockFailed, x)
<1>1. PICK a, b, c, d, e, h : f = FrameOf(a, b, c, d, e, h)
  BY Zenon DEF IsFrame
<1>2. f.sec = a /\ f.todo = b /\ f.blk = c /\ f.since = d /\ f.blockFailed = e /\ f.saved = h
  BY <1>1 DEF FrameOf
<1>3. /\ [f EXCEPT !.sec = x] = FrameOf(x, b, c, d, e, h)
      /\ [f EXCEPT !.todo = x] = FrameOf(a, x, c, d, e, h)
      /\ [f EXCEPT !.blockFailed = x] = FrameOf(a, b, c, d, x, h)
      /\ [f EXCEPT !.saved = x] = FrameOf(a, b, c, d, e, x)
  BY <1>1 DEF FrameOf
<1> QED
  BY <1>2, <1>3, Zenon

LEMMA FrameChanged ==
  ASSUME NEW f, IsFrame(f)
  PROVE  \A x, y :
         /\ [f EXCEPT !.todo = x, !.blockFailed = y] =
              FrameOf(f.sec, x, f.blk, f.since, y, f.saved)
         /\ [f EXCEPT !.todo = x] =
              FrameOf(f.sec, x, f.blk, f.since, f.blockFailed, f.saved)
         /\ [f EXCEPT !.sec = x, !.todo = y] =
              FrameOf(x, y, f.blk, f.since, f.blockFailed, f.saved)
<1> TAKE x, y
<1>1. PICK a, b, c, d, e, h : f = FrameOf(a, b, c, d, e, h)
  BY Zenon DEF IsFrame
<1>2. f.sec = a /\ f.todo = b /\ f.blk = c /\ f.since = d /\ f.blockFailed = e /\ f.saved = h
  BY <1>1 DEF FrameOf
<1>3. PICK t, u, v, w :
        /\ t = [f EXCEPT !.todo = x] /\ u = [f EXCEPT !.sec = x]
        /\ v = [u EXCEPT !.todo = y] /\ w = [t EXCEPT !.blockFailed = y]
  BY Zenon
<1>4. /\ t = FrameOf(a, x, c, d, e, h) /\ w = FrameOf(a, x, c, d, y, h)
      /\ u = FrameOf(x, b, c, d, e, h) /\ v = FrameOf(x, y, c, d, e, h)
  BY <1>1, <1>3 DEF FrameOf
<1>5. /\ [f EXCEPT !.todo = x, !.blockFailed = y] = w
      /\ [f EXCEPT !.sec = x, !.todo = y] = v
  BY <1>3, Zenon
<1> QED
  BY <1>2, <1>3, <1>4, <1>5, Zenon

LEMMA FrameFields ==
  \A f, sec, todo, blk, since, bf, saved : f = FrameOf(sec, todo, blk, since, bf, saved) =>
    /\ f.sec = sec /\ f.todo = todo /\ f.blk = blk /\ f.since = since
    /\ f.blockFailed = bf /\ f.saved = saved /\ IsFrame(f)
  BY DEF FrameOf, IsFrame

LEMMA GoodLater ==
  ASSUME NEW f, NEW i, NEW l \in Nat, NEW m \in Nat, l <= m, GoodFrame(f, i, l)
  PROVE  GoodFrame(f, i, m)
<1>1. f.since \in 0..m
  BY DEF GoodFrame
<1> QED
  BY <1>1, Zenon DEF GoodFrame

(* An entry escapes to a section begun before it. *)
LEMMA EscapesAfter ==
  ASSUME LogInv, NEW i \in 1..Len(log), NEW s, NEW c, Escapes(i, s, c)
  PROVE  i > s
<1>1. PICK p \in 1..Len(log[i].at) : log[i].at[p].since = s
  BY DEF Escapes
<1>2. LogOf(i)
  BY DEF LogInv
<1>3. log[i].at[p].since < i
  BY <1>2 DEF LogOf
<1> QED
  BY <1>1, <1>3

(* A frame goes on, or goes from one section of its block to a later one.    *)
GoesOn(k) ==
  /\ k <= Depth
  /\ stack'[k].since = stack[k].since /\ stack'[k].blk = stack[k].blk
  /\ \/ stack'[k].sec = stack[k].sec
     \/ /\ k = Depth' /\ k = Depth
        /\ \/ stack[k].sec = "block" /\ stack'[k].sec = "rescue"
           \/ stack[k].sec \in {"block", "rescue"} /\ stack'[k].sec = "always"
LEMMA LogKept ==
  ASSUME NEW i \in Nat, LogOf(i), log'[i] = log[i], Depth \in Nat, Depth' \in Nat,
         \A k \in 1..Depth' : GoesOn(k) \/ ~(i > stack'[k].since)
  PROVE  LogOf(i)'
<1>1. Around(log'[i]) /\ \A p \in 1..Len(log'[i].at) : log'[i].at[p].since < i
  BY DEF LogOf
<1>2. ASSUME NEW k \in 1..Depth', i > stack'[k].since
      PROVE  /\ k <= Len(log'[i].at)
             /\ log'[i].at[k].since = stack'[k].since /\ log'[i].at[k].blk = stack'[k].blk
             /\ stack'[k].sec \in {"block", "rescue"} =>
                  log'[i].at[k].sec \in {"block", stack'[k].sec}
             /\ stack'[k].sec = "top" => log'[i].at[k].sec = "top"
             /\ stack'[k].sec = "always" => log'[i].at[k].sec \in {"block", "rescue", "always"}
             /\ k < Depth' /\ i > stack'[k + 1].since => log'[i].at[k].sec = stack'[k].sec
  <2>1. k \in 1..Depth /\ i > stack[k].since /\ GoesOn(k)
    BY <1>2 DEF GoesOn
  <2>2. /\ k <= Len(log[i].at)
        /\ log[i].at[k].since = stack[k].since /\ log[i].at[k].blk = stack[k].blk
        /\ stack[k].sec \in {"block", "rescue"} => log[i].at[k].sec \in {"block", stack[k].sec}
        /\ stack[k].sec = "top" => log[i].at[k].sec = "top"
        /\ stack[k].sec = "always" => log[i].at[k].sec \in {"block", "rescue", "always"}
        /\ k < Depth /\ i > stack[k + 1].since => log[i].at[k].sec = stack[k].sec
    BY <2>1 DEF LogOf
  <2>3. CASE k < Depth' /\ i > stack'[k + 1].since
    <3>1. k + 1 \in 1..Depth' /\ GoesOn(k + 1)
      BY <2>3
    <3>2. k < Depth /\ stack[k + 1].since = stack'[k + 1].since /\ stack'[k].sec = stack[k].sec
      BY <2>1, <2>3, <3>1 DEF GoesOn
    <3> QED
      BY <2>1, <2>2, <2>3, <3>2 DEF GoesOn
  <2>4. CASE ~(k < Depth' /\ i > stack'[k + 1].since)
    BY <2>1, <2>2, <2>4 DEF GoesOn
  <2> QED
    BY <2>3, <2>4
<1> QED
  BY <1>1, <1>2 DEF LogOf

EscapesKept ==
  /\ Len(log) \in Nat /\ Len(log') \in Nat /\ Len(log) <= Len(log')
  /\ \A i \in 1..Len(log) : \A s, c : Escapes(i, s, c)' <=> Escapes(i, s, c)
LEMMA BeforeKept ==
  ASSUME EscapesKept, NEW k, stack[k].since \in 0..Len(log),
         stack'[k].since = stack[k].since,
         k > 1 => /\ stack'[k - 1].since = stack[k - 1].since
                  /\ stack'[k - 1].sec = stack[k - 1].sec
  PROVE  FailedBefore(k)' <=> FailedBefore(k)
<1>1. CASE k > 1
  <2> SUFFICES ASSUME NEW f, NEW s, NEW c, f = stack[k].since,
                      s = stack[k - 1].since, c = stack[k - 1].sec
               PROVE  FailedBefore(k)' <=> FailedBefore(k)
    OBVIOUS
  <2>1. FailedBefore(k) <=> \E i \in 1..Len(log) : i <= f /\ Escapes(i, s, c)
    BY <1>1 DEF FailedBefore
  <2>2. FailedBefore(k)' <=> \E i \in 1..Len(log') : i <= f /\ Escapes(i, s, c)'
    BY <1>1 DEF FailedBefore
  <2> QED
    BY <2>1, <2>2 DEF EscapesKept
<1>2. CASE ~(k > 1)
  BY <1>2 DEF FailedBefore
<1> QED
  BY <1>1, <1>2

-----------------------------------------------------------------------------
(* A task that runs. *)
LEMMA RunTaskStep ==
  ASSUME IInv, RunTask
  PROVE  IInv'
<1> SUFFICES ASSUME NEW n, NEW L, n = Depth, L = Len(log)
             PROVE  IInv'
  OBVIOUS
<1>1. /\ status = "run" /\ NestInv /\ LogInv /\ FlagInv /\ AlwaysInv /\ Base
      /\ Top.todo # <<>> /\ ~Breaks(Top)
      /\ UNCHANGED <<walker, list, status>>
  BY DEF IInv, RunInv, AInv, RunTask, HasNode
<1>2. PICK o \in Outcomes :
        LET fails == o = "failed" /\ Notices(Top.sec)
        IN /\ log' = Append(log, Entry(o))
           /\ failed' = (failed \/ fails)
           /\ stack' = WithTop([Top EXCEPT !.todo = Tail(@),
                                           !.blockFailed = @ \/ fails])
  BY DEF RunTask
<1> DEFINE fails == o = "failed" /\ Notices(Top.sec)
           e == Entry(o)
           g == [Top EXCEPT !.todo = Tail(@), !.blockFailed = @ \/ fails]
<1>3. /\ n \in Nat /\ n > 0 /\ L \in Nat /\ n = Len(stack) /\ Top = stack[n]
      /\ \A k \in 1..n : stack[k].since \in 0..L
  BY <1>1, Bounds
<1>4. /\ IsSeq(stack') /\ Len(stack') = n /\ Depth' = n /\ stack'[n] = g
      /\ \A k \in 1..n : k # n => stack'[k] = stack[k]
  BY <1>1, <1>2, <1>3, TopReplaced DEF Base, Depth
<1>5. /\ IsSeq(log') /\ Len(log') = L + 1 /\ log'[L + 1] = e
      /\ \A i \in 1..L : log'[i] = log[i]
  BY <1>1, <1>2, Appended DEF Base
<1>a. PICK y \in BOOLEAN : y = (Top.blockFailed \/ fails)
  OBVIOUS
<1>b. g = FrameOf(Top.sec, Tail(Top.todo), Top.blk, Top.since, y, Top.saved)
  <2>1. IsFrame(Top)
    BY <1>1, <1>3 DEF Base, GoodFrame
  <2>2. \A x, z : [Top EXCEPT !.todo = x, !.blockFailed = z]
                    = FrameOf(Top.sec, x, Top.blk, Top.since, z, Top.saved)
    BY <2>1, FrameChanged, Zenon
  <2> QED
    BY <1>a, <2>2, Zenon
<1> HIDE DEF g
<1>6. /\ g.sec = Top.sec /\ g.since = Top.since /\ g.blk = Top.blk /\ g.saved = Top.saved
      /\ g.blockFailed = y /\ IsFrame(g)
  BY <1>b, FrameFields
<1>7. e.node = Head(Top.todo) /\ e.out = o /\ e.at = stack /\ Within(e) = Top
  BY DEF Entry, Within, Top
<1>8. \A i \in 1..L : \A s, c : Escapes(i, s, c)' <=> Escapes(i, s, c)
  BY <1>1, <1>2, Kept DEF Base
<1> HIDE DEF g, e
<1>9. \A k \in 1..n : /\ stack'[k].since = stack[k].since /\ stack'[k].sec = stack[k].sec
                      /\ stack'[k].blk = stack[k].blk
  BY <1>3, <1>4, <1>6
<1>14. Base'
  <2>1. \A k \in 1..n : GoodFrame(stack[k], k, Len(log))
    BY <1>1, <1>3 DEF Base
  <2>2. \A k \in 1..n : GoodFrame(stack'[k], k, L + 1)
    <3>1. \A k \in 1..n : GoodFrame(stack[k], k, L + 1)
      BY <1>3, <2>1, GoodLater
    <3>2. GoodFrame(g, n, L + 1)
      <4>1. GoodFrame(Top, n, L + 1)
        BY <1>3, <3>1
      <4> QED
        BY <1>6, <4>1, Zenon DEF GoodFrame
    <3> QED
      BY <1>4, <3>1, <3>2
  <2>3. failed' \in BOOLEAN
    BY <1>2
  <2>4. \A i \in 1..L + 1 : log'[i].out \in Outcomes \union {"entered"}
    BY <1>1, <1>3, <1>5, <1>7 DEF Base
  <2> QED
    BY <1>1, <1>3, <1>4, <1>5, <2>2, <2>3, <2>4 DEF Base
<1>10. NestInv'
  BY <1>1, <1>3, <1>4, <1>6 DEF NestInv, Depth
<1>11. LogInv'
  <2>1. Around(e)
    BY <1>1, <1>3, <1>7 DEF Around, NestInv, Depth
  <2>2. ASSUME NEW i \in 1..L
        PROVE  LogOf(i)'
    <3>1. LogOf(i)
      BY <1>1, <1>3 DEF LogInv
    <3>2. \A k \in 1..n : GoesOn(k)
      BY <1>3, <1>9 DEF GoesOn
    <3> QED
      BY <1>3, <1>4, <1>5, <3>1, <3>2, LogKept
  <2>3. LogOf(L + 1)'
    <3>1. \A k \in 1..n : e.at[k] = stack[k] /\ stack[k].since < L + 1
      BY <1>3, <1>7
    <3>2. \A k \in 1..n : stack'[k].since = e.at[k].since /\ stack'[k].sec = e.at[k].sec
                           /\ stack'[k].blk = e.at[k].blk
      BY <1>9, <3>1
    <3>3. \A k \in 1..n : stack[k].sec \in {"top", "block", "rescue", "always"}
                           /\ (stack[k].sec = "top" <=> k = 1)
      BY <1>1, <1>3 DEF Base, GoodFrame
    <3> QED
      BY <1>3, <1>4, <1>5, <1>7, <1>9, <2>1, <3>1, <3>2, <3>3 DEF LogOf, Depth
  <2> QED
    BY <1>3, <1>5, <2>2, <2>3 DEF LogInv
<1>d. EscapesKept
  BY <1>3, <1>5, <1>8 DEF EscapesKept
<1>12. FlagInv'
  <2>1. \A k \in 1..n : FailedBefore(k)' <=> FailedBefore(k)
    <3> TAKE k \in 1..n
    <3>1. k > 1 => k - 1 \in 1..n
      BY <1>3
    <3> QED
      BY <1>3, <1>9, <1>d, <3>1, BeforeKept
  <2>2. \A s, c : Escapes(L + 1, s, c)' <=>
          /\ fails
          /\ \E p \in 1..n : stack[p].since = s /\ stack[p].sec = c
          /\ \A p \in 1..n : stack[p].since > s => ~Rescues(stack[p])
    <3> TAKE s, c
    <3>1. Counts(log[L + 1])' <=> fails
      BY <1>1, <1>3, <1>5, <1>7 DEF Counts, Notices
    <3>2. Escapes(L + 1, s, c)' <=>
            /\ Counts(log[L + 1])'
            /\ \E p \in 1..Len(log'[L + 1].at) :
                 log'[L + 1].at[p].since = s /\ log'[L + 1].at[p].sec = c
            /\ \A p \in 1..Len(log'[L + 1].at) :
                 log'[L + 1].at[p].since > s => ~Rescues(log'[L + 1].at[p])
      BY SMT DEF Escapes
    <3> QED
      BY <1>3, <1>5, <1>7, <3>1, <3>2
  <2>3. \A s, c : Fails(s, c)' <=> Fails(s, c) \/ Escapes(L + 1, s, c)'
    BY <1>3, <1>5, <1>8 DEF Fails
  <2> SUFFICES ASSUME NEW s, NEW c, s = Top.since, c = Top.sec
               PROVE  FlagInv'
    OBVIOUS
  <2>4. Fails(s, c)' <=> Fails(s, c) \/ fails
    <3>1. Escapes(L + 1, s, c)' <=> fails
      <4>1. n \in 1..n /\ stack[n].since = s /\ stack[n].sec = c
        BY <1>3
      <4>2. \A p \in 1..n : ~(stack[p].since > s)
        BY <1>1, <1>3 DEF NestInv, Depth
      <4> QED
        BY <2>2, <4>1, <4>2
    <3> QED
      BY <2>3, <3>1
  <2>5. ASSUME NEW k \in 1..n, stack[k].sec = "always"
        PROVE  MainFails(k)' <=> MainFails(k)
    <3> SUFFICES ASSUME NEW f, f = stack[k].since
                 PROVE  MainFails(k)' <=> MainFails(k)
      OBVIOUS
    <3>1. ~Escapes(L + 1, f, "block")' /\ ~Escapes(L + 1, f, "rescue")'
      <4>1. ASSUME NEW b, Escapes(L + 1, f, b)' PROVE stack[k].sec = b
        <5>1. PICK p \in 1..n : stack[p].since = f /\ stack[p].sec = b
          BY <2>2, <4>1
        <5>2. \A q \in 1..n : \A r \in 1..n : q < r => stack[q].since < stack[r].since
          BY <1>1 DEF NestInv
        <5>3. p = k
          BY <1>3, <5>1, <5>2
        <5> QED
          BY <5>1, <5>3
      <4> QED
        BY <2>5, <4>1
    <3>2. /\ Fails(f, "block")' <=> Fails(f, "block")
          /\ Fails(f, "rescue")' <=> Fails(f, "rescue")
      BY <2>3, <3>1
    <3>3. stack'[k].since = f /\ stack'[k].blk = stack[k].blk
      BY <1>3, <1>4, <1>6
    <3> QED
      BY <3>2, <3>3 DEF MainFails
  <2>6. TopFlag'
    <3>1. Top'.since = s /\ Top'.sec = c /\ Top'.blockFailed = y /\ n \in 1..n
      BY <1>3, <1>4, <1>6 DEF Top
    <3>2. c = "block" => ~failed /\ ~FailedBefore(n)
      BY <1>1 DEF Breaks, FlagInv, TopFlag
    <3>3. FailedBefore(n)' <=> FailedBefore(n)
      BY <2>1, <3>1
    <3>4. failed' <=> failed \/ fails
      BY <1>2
    <3> QED
      BY <1>1, <1>4, <1>a, <2>4, <3>1, <3>2, <3>3, <3>4 DEF FlagInv, TopFlag
  <2>7. ASSUME NEW k \in 1..n PROVE FlagOf(k)'
    <3>1. FlagOf(k)
      BY <1>1, <1>3 DEF FlagInv
    <3>2. stack'[k].sec = stack[k].sec /\ stack'[k].saved = stack[k].saved
      BY <1>3, <1>4, <1>6
    <3>3. k < n => k + 1 \in 1..n
      BY <1>3
    <3> QED
      BY <1>1, <1>3, <1>4, <2>1, <2>5, <3>1, <3>2, <3>3 DEF FlagOf
  <2> QED
    BY <1>4, <2>6, <2>7 DEF FlagInv
<1>13. AlwaysInv'
  <2>1. \A i \in 1..L : \A j \in 1..L : Follows(j, i) => Follows(j, i)'
    BY <1>5 DEF Follows
  <2>2. ASSUME NEW i \in 1..L PROVE AlwaysOf(i)'
    <3> DEFINE Goal == \/ \E j \in i + 1..L + 1 : Follows(j, i)'
                       \/ \E k \in 2..n : AwaitsAlways(k, i)'
    <3>1. SUFFICES ASSUME log[i].out = "entered" /\ log[i].node.always # <<>>
                   PROVE  Goal
      BY <1>1, <1>4, <1>5 DEF AlwaysOf
    <3>2. CASE \E j \in i + 1..L : Follows(j, i)
      BY <1>3, <2>1, <3>2
    <3>3. ASSUME NEW k \in 2..n, AwaitsAlways(k, i) PROVE Goal
      <4>1. /\ stack'[k].since = stack[k].since /\ stack'[k].blk = stack[k].blk
            /\ stack'[k].sec = stack[k].sec
        BY <1>3, <1>4, <1>6
      <4>2. CASE stack[k].sec \in {"block", "rescue"}
        <5>1. AwaitsAlways(k, i)'
          BY <1>5, <3>3, <4>1, <4>2 DEF AwaitsAlways
        <5> QED
          BY <5>1
      <4>3. CASE stack[k].sec \notin {"block", "rescue"}
        <5>1. Follows(L + 1, i)'
          BY <1>3, <1>5, <1>7, <3>3, <4>3 DEF AwaitsAlways, Follows
        <5> QED
          BY <1>3, <5>1
      <4> QED
        BY <4>2, <4>3
    <3> QED
      BY <1>1, <1>3, <3>1, <3>2, <3>3 DEF AlwaysInv, AlwaysOf
  <2>3. AlwaysOf(L + 1)'
    BY <1>5, <1>7 DEF AlwaysOf, Outcomes
  <2> QED
    BY <1>3, <1>5, <2>2, <2>3 DEF AlwaysInv
<1> QED
  BY <1>1, <1>14, <1>10, <1>11, <1>12, <1>13 DEF IInv, RunInv, AInv, FailedFlagExact

-----------------------------------------------------------------------------
(* Entering a block. *)
LEMMA EnterBlockStep ==
  ASSUME IInv, EnterBlock
  PROVE  IInv'
<1> SUFFICES ASSUME NEW n, NEW L, NEW s, NEW c, n = Depth, L = Len(log),
                    s = Top.since, c = Top.sec
             PROVE  IInv'
  OBVIOUS
<1>1. /\ status = "run" /\ NestInv /\ LogInv /\ FlagInv /\ AlwaysInv /\ Base
      /\ ~Breaks(Top)
      /\ UNCHANGED <<walker, list, failed, status>>
  BY DEF IInv, RunInv, AInv, EnterBlock, HasNode
<1> DEFINE b == Head(Top.todo)
           e == Entry("entered")
           g == [Top EXCEPT !.todo = Tail(@)]
           h == Frame("block", b.block, b, L + 1)
<1>2. log' = Append(log, e) /\ stack' = WithTop(g) \o <<h>>
  BY Zenon DEF EnterBlock
<1>3. /\ n \in Nat /\ n > 0 /\ L \in Nat /\ n = Len(stack) /\ Top = stack[n]
      /\ \A k \in 1..n : stack[k].since \in 0..L
  BY <1>1, Bounds
<1>4. /\ IsSeq(stack') /\ Len(stack') = n + 1 /\ Depth' = n + 1
      /\ stack'[n] = g /\ stack'[n + 1] = h
      /\ \A k \in 1..n : k # n => stack'[k] = stack[k]
  <2> HIDE DEF g, h
  <2>1. IsSeq(stack) /\ Depth > 0
    BY <1>1, <1>3 DEF Base
  <2>2. /\ IsSeq(stack') /\ Len(stack') = n + 1
        /\ stack'[n] = g /\ stack'[n + 1] = h
        /\ \A k \in 1..n : k # n => stack'[k] = stack[k]
    <3>1. Pushed(stack', g, h)
      BY <1>2, <2>1, FramePushed, Zenon
    <3> QED
      BY <3>1 DEF Pushed
  <2> QED
    BY <2>2 DEF Depth
<1>5. /\ IsSeq(log') /\ Len(log') = L + 1 /\ log'[L + 1] = e
      /\ \A i \in 1..L : log'[i] = log[i]
  BY <1>1, <1>2, Appended DEF Base
<1>6. /\ g.sec = c /\ g.since = s /\ g.blk = Top.blk /\ g.saved = Top.saved
      /\ g.blockFailed = Top.blockFailed /\ IsFrame(g)
  <2>1. IsFrame(Top)
    BY <1>1, <1>3 DEF Base, GoodFrame
  <2>2. g = FrameOf(c, Tail(Top.todo), Top.blk, s, Top.blockFailed, Top.saved)
    BY <2>1, FrameChanged, Zenon
  <2> HIDE DEF g
  <2> QED
    BY <2>2, FrameFields
<1>7. /\ h.sec = "block" /\ h.since = L + 1 /\ h.blk = b /\ h.saved = FALSE
      /\ h.blockFailed = FALSE /\ IsFrame(h)
  <2>1. PICK no \in BOOLEAN : no = FALSE
    OBVIOUS
  <2>2. h = FrameOf("block", b.block, b, L + 1, no, no)
    BY <2>1, Zenon DEF Frame, FrameOf
  <2> HIDE DEF h
  <2>3. /\ h.sec = "block" /\ h.since = L + 1 /\ h.blk = b /\ h.saved = no
        /\ h.blockFailed = no /\ IsFrame(h)
    BY <2>2, FrameFields
  <2> QED
    BY <2>1, <2>3, Zenon
<1>8. e.node = b /\ e.out = "entered" /\ e.at = stack /\ Within(e) = Top
  BY DEF Entry, Within, Top
<1>9. EscapesKept
  BY <1>1, <1>2, <1>3, <1>5, Kept DEF Base, EscapesKept
<1> HIDE DEF g, e, h, b
<1>10. \A k \in 1..n : /\ stack'[k].since = stack[k].since /\ stack'[k].sec = stack[k].sec
                       /\ stack'[k].blk = stack[k].blk /\ stack'[k].saved = stack[k].saved
  BY <1>3, <1>4, <1>6
<1>11. Base'
  <2>1. \A k \in 1..n : GoodFrame(stack[k], k, L) /\ GoodFrame(stack[k], k, L + 1)
    BY <1>1, <1>3, GoodLater DEF Base
  <2>2. GoodFrame(g, n, L + 1)
    <3>1. GoodFrame(Top, n, L + 1)
      BY <1>3, <2>1
    <3> QED
      BY <1>6, <3>1, Zenon DEF GoodFrame
  <2>3. GoodFrame(h, n + 1, L + 1)
    <3>1. h.since \in 0..L + 1 /\ n + 1 # 1 /\ h.sec = "block"
      BY <1>3, <1>7
    <3>2. h.blockFailed \in BOOLEAN /\ h.saved \in BOOLEAN
      BY <1>7, Zenon
    <3>3. "block" # "top"
      OBVIOUS
    <3> QED
      BY <1>7, <3>1, <3>2, <3>3, Zenon DEF GoodFrame
  <2>4. \A k \in 1..n + 1 : GoodFrame(stack'[k], k, L + 1)
    BY <1>3, <1>4, <2>1, <2>2, <2>3
  <2>5. \A i \in 1..L + 1 : log'[i].out \in Outcomes \union {"entered"}
    BY <1>1, <1>3, <1>5, <1>8 DEF Base
  <2>6. Len(stack') > 0
    BY <1>3, <1>4
  <2>7. /\ walker' \in Walkers /\ list' \in Lists
        /\ failed' \in BOOLEAN /\ status' \in {"run", "done", "err"}
    BY <1>1, Zenon DEF Base
  <2>8. \A k \in 1..Len(stack') : GoodFrame(stack'[k], k, Len(log'))
    BY <1>4, <1>5, <2>4, Zenon
  <2>9. \A i \in 1..Len(log') : log'[i].out \in Outcomes \union {"entered"}
    BY <1>5, <2>5, Zenon
  <2> QED
    BY <1>4, <1>5, <2>6, <2>7, <2>8, <2>9, Zenon DEF Base
<1>12. NestInv'
  <2>1. /\ stack'[1].since = 0
        /\ \A k \in 1..n : \A q \in 1..n : k < q => stack'[k].since < stack'[q].since
        /\ \A k \in 1..n : stack'[k].sec = "rescue" => stack'[k].blk.rescue # <<>>
    BY <1>1, <1>3, <1>10 DEF NestInv
  <2>2. \A k \in 1..n : stack'[k].since < stack'[n + 1].since
    BY <1>3, <1>4, <1>7, <1>10
  <2>3. stack'[n + 1].sec # "rescue" /\ \A k \in 1..n + 1 : k \in 1..n \/ k = n + 1
    BY <1>3, <1>4, <1>7
  <2>4. \A k \in 1..n + 1 : ~(n + 1 < k)
    BY <1>3
  <2> QED
    BY <1>4, <2>1, <2>2, <2>3, <2>4, Zenon DEF NestInv
<1>13. LogInv'
  <2>1. Around(e)
    BY <1>1, <1>3, <1>8 DEF Around, NestInv
  <2>2. ASSUME NEW i \in 1..L PROVE LogOf(i)'
    <3>1. LogOf(i)
      BY <1>1, <1>3 DEF LogInv
    <3>2. ASSUME NEW k \in 1..n + 1 PROVE GoesOn(k) \/ ~(i > stack'[k].since)
      <4>1. CASE k \in 1..n
        BY <1>3, <1>10, <4>1 DEF GoesOn
      <4>2. CASE k = n + 1
        BY <1>3, <1>4, <1>7, <4>2
      <4> QED
        BY <1>3, <4>1, <4>2
    <3>3. i \in Nat /\ Depth \in Nat /\ Depth' \in Nat /\ log'[i] = log[i]
      BY <1>3, <1>4, <1>5
    <3>4. \A k \in 1..Depth' : GoesOn(k) \/ ~(i > stack'[k].since)
      BY <1>4, <3>2, Zenon
    <3> QED
      BY <3>1, <3>3, <3>4, LogKept, Zenon
  <2>3. LogOf(L + 1)'
    <3>1. \A k \in 1..n : e.at[k] = stack[k] /\ stack[k].since < L + 1
      BY <1>3, <1>8
    <3>2. \A k \in 1..n : stack'[k].since = e.at[k].since /\ stack'[k].sec = e.at[k].sec
                          /\ stack'[k].blk = e.at[k].blk
      BY <1>10, <3>1
    <3>3. \A k \in 1..n : stack[k].sec \in {"top", "block", "rescue", "always"}
      BY <1>1, <1>3 DEF Base, GoodFrame
    <3>4. \A k \in 1..n + 1 : L + 1 > stack'[k].since => k \in 1..n
      BY <1>3, <1>4, <1>7
    <3> QED
      BY <1>3, <1>4, <1>5, <1>8, <1>10, <2>1, <3>1, <3>2, <3>3, <3>4 DEF LogOf
  <2> QED
    BY <1>3, <1>5, <2>2, <2>3 DEF LogInv
<1>14. FlagInv'
  <2>1. \A k \in 1..n : FailedBefore(k)' <=> FailedBefore(k)
    <3> TAKE k \in 1..n
    <3>1. k > 1 => k - 1 \in 1..n
      BY <1>3
    <3> QED
      BY <1>3, <1>9, <1>10, <3>1, BeforeKept
  <2>2. \A t, d : ~Escapes(L + 1, t, d)'
    BY <1>5, <1>8 DEF Escapes, Counts
  <2>3. \A t, d : Fails(t, d)' <=> Fails(t, d)
    BY <1>3, <1>5, <1>9, <2>2 DEF Fails, EscapesKept
  <2>4. \A k \in 1..n : MainFails(k)' <=> MainFails(k)
    <3> TAKE k \in 1..n
    <3> SUFFICES ASSUME NEW f, f = stack[k].since PROVE MainFails(k)' <=> MainFails(k)
      OBVIOUS
    <3>1. stack'[k].since = f /\ stack'[k].blk = stack[k].blk
      BY <1>10
    <3>2. \A d : Fails(f, d)' <=> Fails(f, d)
      BY <2>3
    <3> QED
      BY <3>1, <3>2 DEF MainFails
  <2>5. FailedBefore(n + 1)' <=> Fails(s, c)
    <3>1. FailedBefore(n + 1)' <=> \E i \in 1..L + 1 : i <= L + 1 /\ Escapes(i, s, c)'
      <4>1. n + 1 > 1 /\ n + 1 - 1 = n /\ stack'[n + 1].since = L + 1
            /\ stack'[n].since = s /\ stack'[n].sec = c
        BY <1>3, <1>4, <1>6, <1>7
      <4> QED
        BY <1>3, <1>5, <4>1 DEF FailedBefore
    <3>2. Fails(s, c)' <=> \E i \in 1..L + 1 : Escapes(i, s, c)'
      BY <1>5 DEF Fails
    <3> QED
      BY <1>3, <2>3, <3>1, <3>2
  <2>6. ~Fails(L + 1, "block")'
    <3>1. ASSUME NEW i \in 1..L, Escapes(i, L + 1, "block") PROVE FALSE
      BY <1>1, <1>3, <3>1, EscapesAfter
    <3>2. ~Fails(L + 1, "block")
      BY <3>1 DEF Fails
    <3> QED
      BY <2>3, <3>2
  <2>7. failed <=> Fails(s, c) \/ (c = "block" /\ FailedBefore(n))
    BY <1>1 DEF FlagInv, TopFlag
  <2>8. walker = "play" \/ c \in {"top", "block"} => ~failed
    BY <1>1 DEF Breaks
  <2>9. TopFlag'
    <3>1. Top'.since = L + 1 /\ Top'.sec = "block" /\ Top'.blockFailed = FALSE
      BY <1>3, <1>4, <1>7 DEF Top
    <3> QED
      BY <1>1, <1>4, <2>5, <2>6, <2>7, <2>8, <3>1 DEF TopFlag
  <2>10. ASSUME NEW k \in 1..n PROVE FlagOf(k)'
    <3>1. FlagOf(k) /\ (k < n => k + 1 \in 1..n)
      BY <1>1, <1>3 DEF FlagInv
    <3>2. CASE k < n
      BY <1>1, <1>3, <1>4, <1>10, <2>1, <2>4, <3>1, <3>2 DEF FlagOf
    <3>3. CASE k = n
      <4>1. c = "top" => n = 1
        BY <1>1, <1>3 DEF Base, GoodFrame
      <4>2. ~FailedBefore(1)
        BY DEF FailedBefore
      <4>3. c \in {"top", "block"} => ~FailedBefore(n)
        BY <2>7, <2>8, <4>1, <4>2
      <4> QED
        BY <1>1, <1>3, <1>4, <1>10, <2>1, <2>4, <2>5, <2>7, <2>8, <3>1, <3>3, <4>3 DEF FlagOf
    <3> QED
      BY <1>3, <3>2, <3>3
  <2>11. FlagOf(n + 1)'
    BY <1>1, <1>3, <1>4, <1>7, <2>5, <2>7, <2>8 DEF FlagOf
  <2> QED
    BY <1>3, <1>4, <2>9, <2>10, <2>11 DEF FlagInv
<1>15. AlwaysInv'
  <2>1. \A i \in 1..L : \A j \in 1..L : Follows(j, i) => Follows(j, i)'
    BY <1>5 DEF Follows
  <2>2. ASSUME NEW i \in 1..L PROVE AlwaysOf(i)'
    <3> DEFINE Goal == \/ \E j \in i + 1..L + 1 : Follows(j, i)'
                       \/ \E k \in 2..n + 1 : AwaitsAlways(k, i)'
    <3>1. SUFFICES ASSUME log[i].out = "entered" /\ log[i].node.always # <<>>
                   PROVE  Goal
      BY <1>1, <1>4, <1>5 DEF AlwaysOf
    <3>2. CASE \E j \in i + 1..L : Follows(j, i)
      BY <1>3, <2>1, <3>2
    <3>3. ASSUME NEW k \in 2..n, AwaitsAlways(k, i) PROVE Goal
      <4>1. /\ stack'[k].since = stack[k].since /\ stack'[k].blk = stack[k].blk
            /\ stack'[k].sec = stack[k].sec
        BY <1>3, <1>10
      <4>2. CASE stack[k].sec \in {"block", "rescue"}
        <5>1. AwaitsAlways(k, i)'
          BY <1>5, <3>3, <4>1, <4>2 DEF AwaitsAlways
        <5> QED
          BY <1>3, <5>1
      <4>3. CASE stack[k].sec \notin {"block", "rescue"}
        <5>1. Follows(L + 1, i)'
          BY <1>3, <1>5, <1>8, <3>3, <4>3 DEF AwaitsAlways, Follows, b
        <5> QED
          BY <1>3, <5>1
      <4> QED
        BY <4>2, <4>3
    <3> QED
      BY <1>1, <1>3, <3>1, <3>2, <3>3 DEF AlwaysInv, AlwaysOf
  <2>3. AlwaysOf(L + 1)'
    <3>1. AwaitsAlways(n + 1, L + 1)'
      BY <1>4, <1>5, <1>7, <1>8 DEF AwaitsAlways
    <3> QED
      BY <1>1, <1>3, <1>4, <3>1 DEF AlwaysOf
  <2> QED
    BY <1>3, <1>5, <2>2, <2>3 DEF AlwaysInv
<1> QED
  BY <1>1, <1>11, <1>12, <1>13, <1>14, <1>15 DEF IInv, RunInv, AInv, FailedFlagExact

-----------------------------------------------------------------------------
(* The frames around an entry are told apart by where they began. *)
LEMMA OneFrame ==
  ASSUME LogInv, NEW i \in 1..Len(log),
         NEW p \in 1..Len(log[i].at), NEW q \in 1..Len(log[i].at),
         log[i].at[p].since = log[i].at[q].since
  PROVE  p = q
<1> SUFFICES ASSUME NEW a, a = log[i].at PROVE p = q
  OBVIOUS
<1>1. /\ Len(a) \in Nat /\ \A k \in 1..Len(a) : a[k].since \in Nat
      /\ \A k \in 1..Len(a) : \A m \in 1..Len(a) : k < m => a[k].since < a[m].since
  BY DEF LogInv, LogOf, Around
<1>2. ~(p < q) /\ ~(q < p)
  BY <1>1
<1> QED
  BY <1>2

(* The end of a section: nothing has run yet in the sections that follow it. *)
LEMMA NoneLater ==
  ASSUME Base, LogInv
  PROVE  /\ Top.sec = "block" => ~Fails(Top.since, "rescue")
         /\ Top.sec \in {"block", "rescue"} => ~Fails(Top.since, "always")
<1> SUFFICES ASSUME NEW n, NEW s, n = Depth, s = Top.since,
                    Top.sec \in {"block", "rescue"},
                    NEW x, x \notin {"block", Top.sec}
             PROVE  ~Fails(s, x)
  OBVIOUS
<1>1. n \in Nat /\ n > 0 /\ Top = stack[n] /\ Len(log) \in Nat
  BY Bounds
<1>2. ASSUME NEW i \in 1..Len(log), Escapes(i, s, x) PROVE FALSE
  <2>1. PICK p \in 1..Len(log[i].at) : log[i].at[p].since = s /\ log[i].at[p].sec = x
    BY <1>2 DEF Escapes
  <2>2. i > s
    BY <1>2, EscapesAfter
  <2>3. /\ n <= Len(log[i].at) /\ log[i].at[n].since = s /\ Len(log[i].at) \in Nat
        /\ log[i].at[n].sec \in {"block", Top.sec}
    BY <1>1, <2>2 DEF LogInv, LogOf, Around
  <2>4. p = n
    BY <1>1, <2>1, <2>3, OneFrame
  <2> QED
    BY <2>1, <2>3, <2>4
<1> QED
  BY <1>2 DEF Fails

(* A block whose block or rescue section is over, and is not rescued, leaves *)
(* the host failed exactly when they came to a failure or it was before.     *)
LEMMA SectionFailed ==
  ASSUME Base, NestInv, LogInv, FlagInv, ~GoesToRescue,
         Top.sec \in {"block", "rescue"}
  PROVE  failed <=> MainFails(Depth) \/ FailedBefore(Depth)
<1> SUFFICES ASSUME NEW n, NEW s, n = Depth, s = Top.since
             PROVE  failed <=> MainFails(n) \/ FailedBefore(n)
  OBVIOUS
<1>1. n \in Nat /\ n \in 1..n /\ Top = stack[n]
  BY Bounds
<1>2. /\ MainFails(n) <=> \/ Fails(s, "block") /\ Top.blk.rescue = <<>>
                          \/ Fails(s, "rescue")
      /\ failed <=> Fails(s, Top.sec) \/ (Top.sec = "block" /\ FailedBefore(n))
      /\ Top.sec = "block" => (Top.blockFailed <=> Fails(s, "block"))
      /\ walker = "play" \/ Top.sec = "rescue" => ~FailedBefore(n)
      /\ Top.sec = "rescue" => Top.blk.rescue # <<>>
  <2>1. FlagOf(n) /\ TopFlag
    BY <1>1 DEF FlagInv
  <2>2. MainFails(n) <=> \/ Fails(s, "block") /\ Top.blk.rescue = <<>>
                         \/ Fails(s, "rescue")
    BY <1>1, Zenon DEF MainFails
  <2>3. failed <=> Fails(s, Top.sec) \/ (Top.sec = "block" /\ FailedBefore(n))
    BY <2>1, Zenon DEF TopFlag
  <2>4. Top.sec = "block" => (Top.blockFailed <=> Fails(s, "block"))
    BY <2>1, Zenon DEF TopFlag
  <2>5. walker = "play" \/ Top.sec = "rescue" => ~FailedBefore(n)
    BY <1>1, <2>1, Zenon DEF FlagOf
  <2>6. Top.sec = "rescue" => Top.blk.rescue # <<>>
    BY <1>1, Zenon DEF NestInv
  <2> QED
    BY <2>2, <2>3, <2>4, <2>5, <2>6
<1>3. CASE Top.sec = "block"
  <2>1. ~Fails(s, "rescue")
    BY <1>3, NoneLater
  <2>2. ~MainFailed \/ Top.blk.rescue = <<>>
    BY <1>3 DEF GoesToRescue
  <2>3. MainFailed = IF walker = "play" THEN failed ELSE Top.blockFailed
    BY DEF MainFailed
  <2> HIDE DEF MainFailed
  <2>4. CASE Top.blk.rescue = <<>>
    BY <1>2, <1>3, <2>1, <2>4
  <2>5. CASE walker = "play" /\ ~failed
    BY <1>2, <1>3, <2>1, <2>5
  <2>6. CASE walker # "play" /\ ~Top.blockFailed /\ Top.blk.rescue # <<>>
    BY <1>2, <1>3, <2>1, <2>6
  <2> QED
    BY <2>2, <2>3, <2>4, <2>5, <2>6
<1>4. CASE Top.sec = "rescue"
  BY <1>2, <1>4
<1> QED
  BY <1>3, <1>4

(* A block goes on from one of its sections to a later one. *)
LEMMA SectionStarted ==
  ASSUME IInv, status = "run", UNCHANGED <<walker, list, status, log>>,
         NEW f, stack' = WithTop(f), failed' = FALSE, GoodFrame(f, Depth, Len(log)),
         f.since = Top.since, f.blk = Top.blk,
         \/ Top.sec = "block" /\ f.sec = "rescue"
         \/ Top.sec \in {"block", "rescue"} /\ f.sec = "always",
         f.sec = "rescue" => f.blk.rescue # <<>> /\ ~FailedBefore(Depth),
         f.sec = "always" => /\ f.todo = f.blk.always
                             /\ f.saved <=> MainFails(Depth) \/ FailedBefore(Depth)
  PROVE  IInv'
<1> SUFFICES ASSUME NEW n, NEW L, NEW s, n = Depth, L = Len(log), s = Top.since
             PROVE  IInv'
  OBVIOUS
<1>1. NestInv /\ LogInv /\ FlagInv /\ AlwaysInv /\ Base
  BY DEF IInv, RunInv, AInv
<1>2. /\ n \in Nat /\ n > 0 /\ L \in Nat /\ n = Len(stack) /\ Top = stack[n] /\ n \in 1..n
      /\ \A k \in 1..n : stack[k].since \in 0..L
  BY <1>1, Bounds
<1>3. /\ IsSeq(stack') /\ Len(stack') = n /\ Depth' = n /\ stack'[n] = f /\ Top' = f
      /\ \A k \in 1..n : k # n => stack'[k] = stack[k]
  <2>1. /\ IsSeq(stack') /\ Len(stack') = n /\ Depth' = n /\ stack'[n] = f
        /\ \A k \in 1..n : k # n => stack'[k] = stack[k]
    BY <1>1, <1>2, TopReplaced DEF Base, Depth
  <2> QED
    BY <2>1 DEF Top
<1>4. \A k \in 1..n : stack'[k].since = stack[k].since /\ stack'[k].blk = stack[k].blk
  BY <1>2, <1>3
<1>5. \A i \in 1..L : \A t, d : Escapes(i, t, d)' <=> Escapes(i, t, d)
  BY <1>1, Kept DEF Base
<1>6. EscapesKept
  BY <1>2, <1>5 DEF EscapesKept
<1>7. Base'
  <2>1. \A k \in 1..n : GoodFrame(stack'[k], k, L)
    BY <1>1, <1>2, <1>3 DEF Base
  <2> QED
    BY <1>1, <1>2, <1>3, <2>1 DEF Base
<1>8. NestInv'
  BY <1>1, <1>2, <1>3, <1>4 DEF NestInv
<1>9. LogInv'
  <2>1. \A k \in 1..n : GoesOn(k)
    BY <1>2, <1>3, <1>4 DEF GoesOn
  <2>2. ASSUME NEW i \in 1..L PROVE LogOf(i)'
    <3>1. LogOf(i)
      BY <1>1 DEF LogInv
    <3> QED
      BY <1>2, <1>3, <2>1, <3>1, LogKept
  <2> QED
    BY <2>2 DEF LogInv
<1>10. FlagInv'
  <2>1. \A k \in 1..n : FailedBefore(k)' <=> FailedBefore(k)
    <3> TAKE k \in 1..n
    <3>1. k > 1 => k - 1 \in 1..n /\ k - 1 # n
      BY <1>2
    <3> QED
      BY <1>2, <1>3, <1>4, <1>6, <3>1, BeforeKept
  <2>2. \A t, d : Fails(t, d)' <=> Fails(t, d)
    BY <1>5 DEF Fails
  <2>3. \A k \in 1..n : MainFails(k)' <=> MainFails(k)
    <3> TAKE k \in 1..n
    <3> SUFFICES ASSUME NEW t, t = stack[k].since PROVE MainFails(k)' <=> MainFails(k)
      OBVIOUS
    <3>1. stack'[k].since = t /\ stack'[k].blk = stack[k].blk
      BY <1>4
    <3>2. \A d : Fails(t, d)' <=> Fails(t, d)
      BY <2>2
    <3> QED
      BY <3>1, <3>2 DEF MainFails
  <2>4. TopFlag'
    <3> SUFFICES ASSUME NEW c, c = f.sec PROVE TopFlag'
      OBVIOUS
    <3>1. c # "block" /\ ~Fails(s, c)
      BY <1>1, NoneLater
    <3>2. ~Fails(s, c)'
      BY <2>2, <3>1
    <3> QED
      BY <1>3, <3>1, <3>2 DEF TopFlag
  <2>5. ASSUME NEW k \in 1..n PROVE FlagOf(k)'
    <3>1. FlagOf(k) /\ (k < n => k + 1 \in 1..n)
      BY <1>1, <1>2 DEF FlagInv
    <3>2. CASE k # n
      BY <1>2, <1>3, <2>1, <2>3, <3>1, <3>2 DEF FlagOf
    <3>3. CASE k = n
      BY <1>2, <1>3, <2>1, <2>3, <3>1, <3>3 DEF FlagOf
    <3> QED
      BY <3>2, <3>3
  <2> QED
    BY <1>3, <2>4, <2>5 DEF FlagInv
<1>11. AlwaysInv'
  <2>1. ASSUME NEW i \in 1..L PROVE AlwaysOf(i)'
    <3>1. AlwaysOf(i) /\ log' = log
      BY <1>1 DEF AlwaysInv
    <3>2. \A j \in i + 1..L : Follows(j, i) => Follows(j, i)'
      BY <3>1, Zenon DEF Follows, Within
    <3>3. \A k \in 2..n : AwaitsAlways(k, i) => AwaitsAlways(k, i)'
      BY <1>2, <1>3, <3>1 DEF AwaitsAlways
    <3> QED
      BY <1>3, <3>1, <3>2, <3>3, Zenon DEF AlwaysOf
  <2> QED
    BY <2>1 DEF AlwaysInv
<1> QED
  BY <1>7, <1>8, <1>9, <1>10, <1>11 DEF IInv, RunInv, AInv, FailedFlagExact

(* The frames of the rescue and the always section. *)
LEMMA RescueFrame ==
  ASSUME Base, StartRescue
  PROVE  \E f : /\ stack' = WithTop(f)
                /\ f = FrameOf("rescue", Top.blk.rescue, Top.blk, Top.since,
                               Top.blockFailed, Top.saved)
<1>1. IsFrame(Top)
  BY Bounds DEF Base, GoodFrame
<1>2. \A x, y : [Top EXCEPT !.sec = x, !.todo = y]
                  = FrameOf(x, y, Top.blk, Top.since, Top.blockFailed, Top.saved)
  BY <1>1, FrameChanged, Zenon
<1> QED
  BY <1>2, Zenon DEF StartRescue

LEMMA AlwaysFrame ==
  ASSUME Base, StartAlways
  PROVE  \E f : /\ stack' = WithTop(f)
                /\ f = FrameOf("always", Top.blk.always, Top.blk, Top.since,
                               Top.blockFailed, failed)
<1>1. IsFrame(Top)
  BY Bounds DEF Base, GoodFrame
<1>2. PICK v : v = [Top EXCEPT !.sec = "always", !.todo = Top.blk.always]
  OBVIOUS
<1>3. v = FrameOf("always", Top.blk.always, Top.blk, Top.since, Top.blockFailed, Top.saved)
  BY <1>1, <1>2, FrameChanged, Zenon
<1>4. /\ v.sec = "always" /\ v.todo = Top.blk.always /\ v.blk = Top.blk
      /\ v.since = Top.since /\ v.blockFailed = Top.blockFailed /\ IsFrame(v)
  BY <1>3, FrameFields
<1>5. [v EXCEPT !.saved = failed]
        = FrameOf("always", Top.blk.always, Top.blk, Top.since, Top.blockFailed, failed)
  <2>1. [v EXCEPT !.saved = failed]
          = FrameOf(v.sec, v.todo, v.blk, v.since, v.blockFailed, failed)
    BY <1>4, FieldChanged, Zenon
  <2> QED
    BY <1>4, <2>1, Zenon
<1>6. stack' = WithTop([v EXCEPT !.saved = failed])
  BY <1>2, Zenon DEF StartAlways
<1> QED
  BY <1>5, <1>6, Zenon

LEMMA StartRescueStep ==
  ASSUME IInv, StartRescue
  PROVE  IInv'
<1> SUFFICES ASSUME NEW n, n = Depth
             PROVE  IInv'
  OBVIOUS
<1>1. /\ status = "run" /\ NestInv /\ LogInv /\ FlagInv /\ Base
      /\ Top.sec = "block" /\ MainFailed /\ Top.blk.rescue # <<>>
      /\ UNCHANGED <<walker, list, status, log>> /\ failed' = FALSE
  BY Zenon DEF IInv, RunInv, StartRescue, SectionOver, GoesToRescue
<1>2. n \in Nat /\ n \in 1..n /\ Top = stack[n] /\ GoodFrame(Top, n, Len(log))
  BY <1>1, Bounds DEF Base
<1>3. PICK f : /\ stack' = WithTop(f)
               /\ f = FrameOf("rescue", Top.blk.rescue, Top.blk, Top.since,
                              Top.blockFailed, Top.saved)
  BY <1>1, RescueFrame
<1>5. /\ f.sec = "rescue" /\ f.blk = Top.blk /\ f.since = Top.since
      /\ f.blockFailed = Top.blockFailed /\ f.saved = Top.saved /\ IsFrame(f)
  BY <1>3, FrameFields
<1>6. GoodFrame(f, n, Len(log))
  <2>1. n # 1 /\ "rescue" # "top"
    BY <1>1, <1>2 DEF GoodFrame
  <2>2. "rescue" \in {"top", "block", "rescue", "always"}
    OBVIOUS
  <2> QED
    BY <1>2, <1>5, <2>1, <2>2, Zenon DEF GoodFrame
<1>7. ~FailedBefore(n)
  <2>1. FlagOf(n) /\ TopFlag
    BY <1>1, <1>2 DEF FlagInv
  <2>2. CASE walker = "play"
    BY <2>1, <2>2 DEF FlagOf
  <2>3. CASE walker # "play"
    <3>1. Top.blockFailed
      BY <1>1, <2>3 DEF MainFailed
    <3> QED
      BY <1>1, <2>1, <3>1, Zenon DEF TopFlag
  <2> QED
    BY <2>2, <2>3
<1> QED
  BY <1>1, <1>3, <1>5, <1>6, <1>7, SectionStarted

LEMMA StartAlwaysStep ==
  ASSUME IInv, StartAlways
  PROVE  IInv'
<1> SUFFICES ASSUME NEW n, n = Depth
             PROVE  IInv'
  OBVIOUS
<1>1. /\ status = "run" /\ NestInv /\ LogInv /\ FlagInv /\ Base
      /\ ~GoesToRescue /\ Top.sec # "always" /\ Top.sec # "top"
      /\ UNCHANGED <<walker, list, status, log>> /\ failed' = FALSE
  BY Zenon DEF IInv, RunInv, StartAlways, SectionOver, GoesToAlways
<1>2. n \in Nat /\ n \in 1..n /\ Top = stack[n] /\ GoodFrame(Top, n, Len(log))
  BY <1>1, Bounds DEF Base
<1>3. PICK f : /\ stack' = WithTop(f)
               /\ f = FrameOf("always", Top.blk.always, Top.blk, Top.since,
                              Top.blockFailed, failed)
  BY <1>1, AlwaysFrame
<1>4. PICK y \in BOOLEAN : y = failed
  BY <1>1 DEF Base
<1>5. /\ f.sec = "always" /\ f.blk = Top.blk /\ f.since = Top.since
      /\ f.todo = Top.blk.always
      /\ f.blockFailed = Top.blockFailed /\ f.saved = y /\ IsFrame(f)
  <2>1. f = FrameOf("always", Top.blk.always, Top.blk, Top.since, Top.blockFailed, y)
    BY <1>3, <1>4, Zenon
  <2> QED
    BY <2>1, FrameFields
<1>6. GoodFrame(f, n, Len(log))
  <2>1. n # 1 /\ "always" # "top"
    BY <1>1, <1>2 DEF GoodFrame
  <2>2. "always" \in {"top", "block", "rescue", "always"}
    OBVIOUS
  <2> QED
    BY <1>2, <1>4, <1>5, <2>1, <2>2, Zenon DEF GoodFrame
<1>7. Top.sec \in {"block", "rescue"}
  BY <1>1, <1>2 DEF GoodFrame
<1>8. f.saved <=> MainFails(n) \/ FailedBefore(n)
  <2>1. failed <=> MainFails(n) \/ FailedBefore(n)
    BY <1>1, <1>7, SectionFailed, Zenon
  <2>2. f.saved = failed
    BY <1>4, <1>5, Zenon
  <2> QED
    BY <2>1, <2>2, Zenon
<1> QED
  BY <1>1, <1>3, <1>5, <1>6, <1>7, <1>8, SectionStarted

-----------------------------------------------------------------------------
Rising(a) ==
  /\ \A k \in 1..Len(a) : a[k].since \in Nat
  /\ \A k \in 1..Len(a) : \A j \in 1..Len(a) : k < j => a[k].since < a[j].since
LEMMA Places ==
  ASSUME NEW a, Len(a) \in Nat, Rising(a), NEW p \in 1..Len(a), NEW q \in 1..Len(a)
  PROVE  /\ a[p].since = a[q].since <=> p = q
         /\ a[p].since > a[q].since <=> p > q
<1>1. p \in Nat /\ q \in Nat /\ a[p].since \in Nat /\ a[q].since \in Nat
  BY DEF Rising
<1>2. CASE p < q
  <2>1. a[p].since < a[q].since
    BY <1>2 DEF Rising
  <2> QED
    BY <1>1, <1>2, <2>1
<1>3. CASE p = q
  BY <1>1, <1>3
<1>4. CASE p > q
  <2>1. a[q].since < a[p].since
    BY <1>1, <1>4 DEF Rising
  <2> QED
    BY <1>1, <1>4, <2>1
<1> QED
  BY <1>1, <1>2, <1>3, <1>4

(* What fails inside a block fails in the list around it unless the block    *)
(* section's rescue takes it.                                                *)
LEMMA InnerEscapes ==
  ASSUME Base, NestInv, LogInv, NEW n, n = Depth, n > 1, NEW m \in Nat, m < n, n <= m + 1,
         NEW s, s = stack[n].since, NEW t, t = stack[m].since,
         NEW d, d = stack[m].sec, NEW i \in 1..Len(log), i > s
  PROVE  Escapes(i, t, d) <=>
           \/ Escapes(i, s, "block") /\ stack[n].blk.rescue = <<>>
           \/ Escapes(i, s, "rescue")
           \/ Escapes(i, s, "always")
<1> SUFFICES ASSUME NEW a, a = log[i].at, NEW x, x = a[n].sec
             PROVE  Escapes(i, t, d) <=>
                      \/ Escapes(i, s, "block") /\ stack[n].blk.rescue = <<>>
                      \/ Escapes(i, s, "rescue")
                      \/ Escapes(i, s, "always")
  OBVIOUS
<1>1. /\ n \in Nat /\ n \in 1..n /\ m \in 1..n /\ Len(log) \in Nat
      /\ s \in Nat /\ t \in Nat /\ t < s /\ stack[n].sec # "top"
      /\ stack[n].sec \in {"top", "block", "rescue", "always"}
  BY Bounds DEF Base, GoodFrame, NestInv
<1>2. /\ Len(a) \in Nat /\ n <= Len(a)
      /\ \A k \in 1..Len(a) : a[k].since \in Nat
      /\ \A k \in 1..Len(a) : \A j \in 1..Len(a) : k < j => a[k].since < a[j].since
  BY <1>1 DEF LogInv, LogOf, Around
<1>3. a[n].since = s /\ a[n].blk = stack[n].blk /\ x \in {"block", "rescue", "always"}
  BY <1>1 DEF LogInv, LogOf
<1>4. a[m].since = t /\ a[m].sec = d
  <2>1. m < Depth /\ i > stack[m + 1].since /\ i > stack[m].since
    <3>1. m + 1 = n
      BY <1>1
    <3> QED
      BY <1>1, <3>1
  <2> QED
    BY <1>1, <2>1 DEF LogInv, LogOf
<1>5. \A p \in 1..Len(a) :
        /\ a[p].since = s <=> p = n
        /\ a[p].since > s <=> p > n
        /\ a[p].since = t <=> p = m
        /\ a[p].since > t <=> p >= n
  <2> TAKE p \in 1..Len(a)
  <2>1. n \in 1..Len(a) /\ m \in 1..Len(a)
    BY <1>1, <1>2
  <2>2. /\ a[p].since = a[n].since <=> p = n
        /\ a[p].since > a[n].since <=> p > n
        /\ a[p].since = a[m].since <=> p = m
        /\ a[p].since > a[m].since <=> p > m
    <3>1. Len(a) \in Nat /\ Rising(a)
      BY <1>2 DEF Rising
    <3>2. /\ a[p].since = a[n].since <=> p = n
          /\ a[p].since > a[n].since <=> p > n
      BY <2>1, <3>1, Places, Zenon
    <3>3. /\ a[p].since = a[m].since <=> p = m
          /\ a[p].since > a[m].since <=> p > m
      BY <2>1, <3>1, Places, Zenon
    <3> QED
      BY <3>2, <3>3
  <2>3. p > m <=> p >= n
    BY <1>1
  <2> QED
    BY <1>3, <1>4, <2>2, <2>3, Zenon
<1> DEFINE Below == \A p \in 1..Len(a) : p > n => ~Rescues(a[p])
<1>6. \A y : Escapes(i, s, y) <=> Counts(log[i]) /\ x = y /\ Below
  <2> TAKE y
  <2>1. Escapes(i, s, y) <=>
          /\ Counts(log[i])
          /\ \E p \in 1..Len(a) : p = n /\ a[p].sec = y
          /\ \A p \in 1..Len(a) : p > n => ~Rescues(a[p])
    BY <1>5 DEF Escapes
  <2>2. n \in 1..Len(a)
    BY <1>1, <1>2
  <2> QED
    BY <2>1, <2>2
<1>7. Escapes(i, t, d) <=> Counts(log[i]) /\ ~Rescues(a[n]) /\ Below
  <2>1. Escapes(i, t, d) <=>
          /\ Counts(log[i])
          /\ \E p \in 1..Len(a) : p = m /\ a[p].sec = d
          /\ \A p \in 1..Len(a) : p >= n => ~Rescues(a[p])
    BY <1>5 DEF Escapes
  <2>2. n \in 1..Len(a) /\ \A p \in 1..Len(a) : p >= n <=> p = n \/ p > n
    BY <1>1, <1>2
  <2> QED
    BY <1>4, <2>1, <2>2
<1>8. Rescues(a[n]) <=> x = "block" /\ stack[n].blk.rescue # <<>>
  BY <1>3 DEF Rescues
<1> HIDE DEF Below
<1> QED
  BY <1>3, <1>6, <1>7, <1>8

(* A block is left with the flag of its sections and of what was before it.  *)
LEMMA FlagLeft ==
  ASSUME IInv, LeaveBlock, NEW n, n = Depth, NEW s, s = stack[n].since
  PROVE  failed' <=> FailedBefore(n) \/ MainFails(n) \/ Fails(s, "always")
<1>1. /\ status = "run" /\ NestInv /\ LogInv /\ FlagInv /\ Base
      /\ ~GoesToRescue /\ Top.sec # "top"
      /\ failed' = IF Top.sec = "always" THEN failed \/ Top.saved ELSE failed
  BY DEF IInv, RunInv, LeaveBlock, SectionOver
<1>2. n \in Nat /\ n \in 1..n /\ Top = stack[n]
  BY <1>1, Bounds
<1>3. TopFlag /\ FlagOf(n)
  BY <1>1, <1>2 DEF FlagInv
<1>4. CASE Top.sec = "always"
  <2>1. failed <=> Fails(s, "always")
    BY <1>2, <1>3, <1>4 DEF TopFlag
  <2>2. Top.saved <=> MainFails(n) \/ FailedBefore(n)
    BY <1>2, <1>3, <1>4, Zenon DEF FlagOf
  <2>3. failed' <=> failed \/ Top.saved
    BY <1>1, <1>4
  <2> QED
    BY <2>1, <2>2, <2>3
<1>5. CASE Top.sec # "always"
  <2>1. Top.sec \in {"block", "rescue"}
    BY <1>1, <1>2, <1>5 DEF Base, GoodFrame, Depth
  <2>2. failed <=> MainFails(n) \/ FailedBefore(n)
    BY <1>1, <2>1, SectionFailed, Zenon
  <2>3. ~Fails(s, "always")
    BY <1>1, <1>2, <2>1, NoneLater
  <2>4. failed' <=> failed
    BY <1>1, <1>5
  <2> QED
    BY <2>2, <2>3, <2>4
<1> QED
  BY <1>4, <1>5

LEMMA LeaveBlockStep ==
  ASSUME IInv, LeaveBlock
  PROVE  IInv'
<1> SUFFICES ASSUME NEW n, NEW L, n = Depth, L = Len(log)
             PROVE  IInv'
  OBVIOUS
<1>0. PICK m : m = n - 1
  OBVIOUS
<1>1. /\ status = "run" /\ NestInv /\ LogInv /\ FlagInv /\ AlwaysInv /\ Base
      /\ UNCHANGED <<walker, list, status, log>>
  BY DEF IInv, RunInv, AInv, LeaveBlock, SectionOver
<1>a. SectionOver /\ ~GoesToRescue /\ ~GoesToAlways /\ Top.sec # "top"
  BY DEF LeaveBlock
<1>2. /\ n \in Nat /\ n > 1 /\ m \in Nat /\ n \in 1..n /\ m \in 1..n /\ L \in Nat
      /\ n = Len(stack) /\ Top = stack[n] /\ m + 1 = n /\ m < n
      /\ \A k \in 1..n : stack[k].since \in 0..L
  <2>1. /\ n \in Nat /\ n > 0 /\ n \in 1..n /\ L \in Nat /\ n = Len(stack) /\ Top = stack[n]
        /\ \A k \in 1..n : stack[k].since \in 0..L
    BY <1>1, Bounds
  <2>2. n # 1
    BY <1>1, <1>a, <2>1 DEF Base, GoodFrame
  <2> QED
    BY <1>0, <2>1, <2>2
<1> SUFFICES ASSUME NEW s, NEW t, NEW d, s = stack[n].since, t = stack[m].since,
                    d = stack[m].sec
             PROVE  IInv'
  OBVIOUS
<1>b. PICK y \in BOOLEAN : y = failed'
  <2>1. failed' = IF Top.sec = "always" THEN failed \/ Top.saved ELSE failed
    BY DEF LeaveBlock
  <2>2. failed \in BOOLEAN
    BY <1>1 DEF Base
  <2> QED
    BY <2>1, <2>2
<1>c. PICK g : g = IF d = "block" THEN [stack[m] EXCEPT !.blockFailed = y] ELSE stack[m]
  OBVIOUS
<1>3. Popped(stack', g)
  <2>1. Rest[Len(Rest)] = stack[m] /\ \A f : Popped([Rest EXCEPT ![Len(Rest)] = f], f)
    BY <1>0, <1>1, <1>2, FramePopped DEF Base
  <2>2. stack' = [Rest EXCEPT ![Len(Rest)] = g]
    BY <1>b, <1>c, <2>1 DEF LeaveBlock
  <2> QED
    BY <2>1, <2>2, Zenon
<1>4. /\ IsSeq(stack') /\ Len(stack') = m /\ Depth' = m /\ stack'[m] = g /\ Top' = g
      /\ \A k \in 1..m : k # m => stack'[k] = stack[k]
  BY <1>0, <1>2, <1>3 DEF Popped, Depth, Top
<1>5. GoodFrame(stack[m], m, L) /\ IsFrame(stack[m])
  BY <1>1, <1>2 DEF Base, GoodFrame
<1>6. /\ g.sec = d /\ g.blk = stack[m].blk /\ g.since = t /\ g.saved = stack[m].saved
      /\ d = "block" => g.blockFailed = y
      /\ GoodFrame(g, m, L)
  <2>1. CASE d = "block"
    <3>1. g = FrameOf(stack[m].sec, stack[m].todo, stack[m].blk, t, y, stack[m].saved)
      <4>1. \A x : [stack[m] EXCEPT !.blockFailed = x]
                     = FrameOf(stack[m].sec, stack[m].todo, stack[m].blk, stack[m].since,
                               x, stack[m].saved)
        BY <1>5, FieldChanged, Zenon
      <4> QED
        BY <1>c, <2>1, <4>1, Zenon
    <3>2. /\ g.sec = d /\ g.blk = stack[m].blk /\ g.since = t /\ g.saved = stack[m].saved
          /\ g.blockFailed = y /\ IsFrame(g)
      BY <3>1, FrameFields
    <3> QED
      BY <1>5, <3>2, Zenon DEF GoodFrame
  <2>2. CASE d # "block"
    BY <1>c, <1>5, <2>2
  <2> QED
    BY <2>1, <2>2
<1>7. \A k \in 1..m : /\ k \in 1..n
                      /\ stack'[k].since = stack[k].since /\ stack'[k].sec = stack[k].sec
                      /\ stack'[k].blk = stack[k].blk /\ stack'[k].saved = stack[k].saved
  BY <1>2, <1>4, <1>6
<1>8. \A i \in 1..L : \A x, c : Escapes(i, x, c)' <=> Escapes(i, x, c)
  BY <1>1, Kept DEF Base
<1>9. EscapesKept
  BY <1>1, <1>2, <1>8 DEF EscapesKept
<1>10. Base'
  <2>1. \A k \in 1..m : GoodFrame(stack'[k], k, L)
    BY <1>1, <1>2, <1>4, <1>6 DEF Base
  <2>2. failed' \in BOOLEAN
    BY <1>b, Zenon
  <2>3. /\ log' = log /\ IsSeq(stack') /\ Len(stack') = m /\ m > 0
        /\ UNCHANGED <<walker, list, status>>
    BY <1>1, <1>2, <1>4
  <2> QED
    BY <1>1, <2>1, <2>2, <2>3, Zenon DEF Base
<1>11. NestInv'
  <2>1. 1 \in 1..m /\ Depth' = m /\ \A k \in 1..m : k \in 1..Depth
    BY <1>2, <1>4
  <2> QED
    BY <1>1, <1>7, <2>1 DEF NestInv
<1>12. LogInv'
  <2>1. \A k \in 1..m : GoesOn(k)
    BY <1>2, <1>7 DEF GoesOn
  <2>2. ASSUME NEW i \in 1..L PROVE LogOf(i)'
    <3>1. LogOf(i)
      BY <1>1 DEF LogInv
    <3>2. i \in Nat /\ Depth \in Nat /\ Depth' \in Nat /\ log'[i] = log[i]
      <4>1. log' = log
        BY <1>1
      <4>2. Depth \in Nat /\ Depth' \in Nat
        BY <1>2, <1>4, Zenon
      <4> QED
        BY <1>2, <4>1, <4>2
    <3> QED
      BY <1>4, <2>1, <3>1, <3>2, LogKept
  <2> QED
    BY <1>1, <2>2 DEF LogInv
<1>13. FlagInv'
  <2>1. \A k \in 1..m : FailedBefore(k)' <=> FailedBefore(k)
    <3> TAKE k \in 1..m
    <3>1. k > 1 => k - 1 \in 1..m
      BY <1>2
    <3> QED
      BY <1>2, <1>7, <1>9, <3>1, BeforeKept
  <2>2. \A x, c : Fails(x, c)' <=> Fails(x, c)
    BY <1>1, <1>8 DEF Fails
  <2>3. \A k \in 1..m : MainFails(k)' <=> MainFails(k)
    <3> TAKE k \in 1..m
    <3> SUFFICES ASSUME NEW x, x = stack[k].since PROVE MainFails(k)' <=> MainFails(k)
      OBVIOUS
    <3>1. stack'[k].since = x /\ stack'[k].blk = stack[k].blk
      BY <1>7
    <3>2. \A c : Fails(x, c)' <=> Fails(x, c)
      BY <2>2
    <3> QED
      BY <3>1, <3>2 DEF MainFails
  <2>4. Fails(t, d) <=> FailedBefore(n) \/ MainFails(n) \/ Fails(s, "always")
    <3>1. ASSUME NEW i \in 1..L, i > s
          PROVE  Escapes(i, t, d) <=>
                   \/ Escapes(i, s, "block") /\ stack[n].blk.rescue = <<>>
                   \/ Escapes(i, s, "rescue")
                   \/ Escapes(i, s, "always")
      <4>1. m \in Nat /\ m < n /\ n <= m + 1 /\ n > 1
        BY <1>2
      <4>2. i \in 1..Len(log) /\ i > s /\ Base /\ NestInv /\ LogInv
        BY <1>1, <3>1
      <4> QED
        BY <4>1, <4>2, InnerEscapes
    <3>2. FailedBefore(n) <=> \E i \in 1..L : i <= s /\ Escapes(i, t, d)
      BY <1>2 DEF FailedBefore
    <3>3. MainFails(n) <=> \/ Fails(s, "block") /\ stack[n].blk.rescue = <<>>
                           \/ Fails(s, "rescue")
      BY Zenon DEF MainFails
    <3>4. \A i \in 1..L : \A c : Escapes(i, s, c) => i > s
      BY <1>1, EscapesAfter
    <3>5. \A i \in 1..L : i > s \/ i <= s
      BY <1>2
    <3> QED
      BY <3>1, <3>2, <3>3, <3>4, <3>5 DEF Fails
  <2>5. y <=> FailedBefore(n) \/ MainFails(n) \/ Fails(s, "always")
    BY <1>b, <1>2, FlagLeft
  <2>6. d \in {"top", "block"} => ~FailedBefore(m)
    <3>1. FlagOf(m)
      BY <1>1, <1>2 DEF FlagInv
    <3> QED
      BY <1>2, <3>1 DEF FlagOf
  <2>7. TopFlag'
    <3>1. failed' <=> Fails(t, d)'
      BY <1>b, <2>2, <2>4, <2>5
    <3>2. d = "block" => ~FailedBefore(m)' /\ (g.blockFailed <=> Fails(t, "block")')
      BY <1>2, <1>b, <1>6, <2>1, <2>6, <3>1
    <3> QED
      BY <1>4, <1>6, <3>1, <3>2 DEF TopFlag
  <2>8. ASSUME NEW k \in 1..m PROVE FlagOf(k)'
    <3>1. FlagOf(k) /\ (k < m => k + 1 \in 1..m) /\ (k < m => k < n)
      BY <1>1, <1>2 DEF FlagInv
    <3> QED
      BY <1>1, <1>4, <1>7, <2>1, <2>3, <3>1 DEF FlagOf
  <2> QED
    BY <1>4, <2>7, <2>8 DEF FlagInv
<1>14. AlwaysInv'
  <2>1. ASSUME NEW i \in 1..L PROVE AlwaysOf(i)'
    <3>1. AlwaysOf(i) /\ log' = log
      BY <1>1 DEF AlwaysInv
    <3>2. \A j \in i + 1..L : Follows(j, i) => Follows(j, i)'
      BY <3>1, Zenon DEF Follows, Within
    <3>3. ASSUME NEW k \in 2..n, AwaitsAlways(k, i), log[i].node.always # <<>>
          PROVE  k \in 2..m /\ AwaitsAlways(k, i)'
      <4>1. CASE k = n
        <5>1. Top.blk.always # <<>>
          BY <1>2, <3>3, <4>1 DEF AwaitsAlways
        <5>2. Top.sec = "always" /\ Top.todo # <<>> /\ ~failed
          BY <1>2, <1>a, <3>3, <4>1, <5>1 DEF AwaitsAlways, GoesToAlways
        <5> QED
          BY <1>a, <5>2 DEF SectionOver, Breaks
      <4>2. CASE k # n
        <5>1. k \in 2..m /\ k \in 1..m
          BY <1>2, <4>2
        <5>2. stack[k].sec \in {"block", "rescue"}
          BY <3>3, <4>2 DEF AwaitsAlways
        <5> QED
          BY <1>7, <3>1, <3>3, <5>1, <5>2 DEF AwaitsAlways
      <4> QED
        BY <4>1, <4>2
    <3> QED
      BY <1>1, <1>4, <3>1, <3>2, <3>3, Zenon DEF AlwaysOf
  <2> QED
    BY <1>1, <2>1 DEF AlwaysInv
<1> QED
  BY <1>1, <1>10, <1>11, <1>12, <1>13, <1>14 DEF IInv, RunInv, AInv, FailedFlagExact

-----------------------------------------------------------------------------
(* The end of the walk. *)
LEMMA FinishStep ==
  ASSUME IInv, Finish
  PROVE  IInv'
<1>1. /\ status = "run" /\ NestInv /\ FlagInv /\ AlwaysInv /\ Base
      /\ Top.sec = "top" /\ status' = "done"
      /\ UNCHANGED <<walker, list, stack, failed, log>>
  BY DEF IInv, RunInv, AInv, Finish, SectionOver
<1>2. Depth = 1 /\ Depth' = 1 /\ Top.since = 0 /\ Len(log) \in Nat
  <2>1. Depth \in Nat /\ Depth \in 1..Depth /\ Top = stack[Depth] /\ Len(log) \in Nat
    BY <1>1, Bounds
  <2>2. Depth = 1
    BY <1>1, <2>1 DEF Base, GoodFrame, Depth
  <2> QED
    BY <1>1, <2>1, <2>2 DEF NestInv, Depth
<1>3. Base'
  BY <1>1 DEF Base, GoodFrame
<1>4. AlwaysInv'
  <2>1. ASSUME NEW i \in 1..Len(log) PROVE AlwaysOf(i)'
    <3>1. AlwaysOf(i) /\ log' = log /\ ~\E k \in 2..Depth : TRUE
      BY <1>1, <1>2 DEF AlwaysInv
    <3>2. \A j : Follows(j, i) => Follows(j, i)'
      BY <3>1, Zenon DEF Follows, Within
    <3> QED
      BY <3>1, <3>2, Zenon DEF AlwaysOf
  <2> QED
    BY <1>1, <2>1 DEF AlwaysInv
<1>5. FailedFlagExact'
  <2>1. failed <=> Fails(0, "top")
    BY <1>1, <1>2 DEF FlagInv, TopFlag
  <2>2. Fails(0, "top")' <=> Fails(0, "top")
    BY <1>1 DEF Fails, Escapes, Counts, Notices, Within, Rescues
  <2> QED
    BY <1>1, <2>1, <2>2 DEF FailedFlagExact
<1> QED
  BY <1>1, <1>3, <1>4, <1>5 DEF IInv, RunInv, AInv

(* A task that returns Err, and the step that changes nothing. *)
LEMMA TaskErrStep ==
  ASSUME IInv, TaskErr
  PROVE  IInv'
<1>1. /\ Base /\ status' = "err"
      /\ UNCHANGED <<walker, list, stack, failed, log>>
  BY DEF IInv, TaskErr
<1>2. Base'
  BY <1>1 DEF Base, GoodFrame
<1> QED
  BY <1>1, <1>2 DEF IInv, RunInv, AInv, FailedFlagExact

LEMMA StutterStep ==
  ASSUME IInv, UNCHANGED vars
  PROVE  IInv'
<1>1. UNCHANGED <<walker, list, stack, failed, status, log>>
  BY DEF vars
<1>2. \A i, s, c : Escapes(i, s, c)' <=> Escapes(i, s, c)
  BY <1>1 DEF Escapes, Counts, Notices, Within, Rescues
<1>3. \A s, c : Fails(s, c)' <=> Fails(s, c)
  BY <1>1, <1>2 DEF Fails
<1>4. Base => Base'
  BY <1>1 DEF Base, GoodFrame
<1>5. NestInv => NestInv'
  BY <1>1 DEF NestInv, Depth
<1>6. LogInv => LogInv'
  BY <1>1 DEF LogInv, LogOf, Around, Depth
<1>7. FlagInv => FlagInv'
  <2>1. \A k : FailedBefore(k)' <=> FailedBefore(k)
    BY <1>1, <1>2 DEF FailedBefore
  <2>2. \A k : MainFails(k)' <=> MainFails(k)
    BY <1>1, <1>3 DEF MainFails
  <2>3. \A k : FlagOf(k)' <=> FlagOf(k)
    BY <1>1, <2>1, <2>2 DEF FlagOf, Depth
  <2>4. TopFlag => TopFlag'
    BY <1>1, <1>3, <2>1 DEF TopFlag, Top, Depth
  <2> QED
    BY <1>1, <2>3, <2>4 DEF FlagInv, Depth
<1>8. AlwaysInv => AlwaysInv'
  BY <1>1 DEF AlwaysInv, AlwaysOf, Follows, AwaitsAlways, Within, Depth
<1>9. FailedFlagExact => FailedFlagExact'
  BY <1>1, <1>3 DEF FailedFlagExact
<1> QED
  BY <1>1, <1>4, <1>5, <1>6, <1>7, <1>8, <1>9 DEF IInv, RunInv, AInv

-----------------------------------------------------------------------------
LEMMA InitIInv == Init => IInv
<1> SUFFICES ASSUME Init PROVE IInv
  OBVIOUS
<1>1. PICK no \in BOOLEAN : no = FALSE
  OBVIOUS
<1>2. PICK f, r : r = [kind |-> "none"] /\ f = Frame("top", list, r, 0)
  OBVIOUS
<1>3. f = FrameOf("top", list, r, 0, no, no)
  BY <1>1, <1>2, Zenon DEF Frame, FrameOf
<1>4. /\ f.sec = "top" /\ f.since = 0 /\ f.blockFailed = no /\ f.saved = no /\ IsFrame(f)
  BY <1>3, FrameFields
<1>5. /\ walker \in Walkers /\ list \in Lists /\ failed = FALSE /\ status = "run"
      /\ stack = <<f>> /\ log = <<>>
  BY <1>2, Zenon DEF Init
<1>6. /\ IsSeq(stack) /\ IsSeq(log) /\ Len(stack) = 1 /\ Depth = 1 /\ Len(log) = 0
      /\ stack[1] = f /\ Top = f
  <2>1. stack \in Seq({f}) /\ log \in Seq({})
    BY <1>5
  <2> QED
    BY <1>5, <2>1 DEF IsSeq, Depth, Top
<1>7. Base
  <2>1. f.blockFailed \in BOOLEAN /\ f.saved \in BOOLEAN
    BY <1>4, Zenon
  <2>2. GoodFrame(f, 1, 0)
    BY <1>4, <2>1 DEF GoodFrame
  <2>3. failed \in BOOLEAN /\ status \in {"run", "done", "err"}
    BY <1>5
  <2>4. \A k \in 1..Len(stack) : GoodFrame(stack[k], k, Len(log))
    BY <1>6, <2>2
  <2> QED
    BY <1>5, <1>6, <2>3, <2>4 DEF Base
<1>8. NestInv
  BY <1>4, <1>6 DEF NestInv
<1>9. LogInv /\ AlwaysInv
  BY <1>6 DEF LogInv, AlwaysInv
<1>10. FlagInv
  <2>1. \A s, c : ~Fails(s, c)
    BY <1>6 DEF Fails
  <2>2. \A k : ~FailedBefore(k)
    BY <1>6 DEF FailedBefore
  <2> QED
    BY <1>4, <1>5, <1>6, <2>1, <2>2 DEF FlagInv, TopFlag, FlagOf
<1> QED
  BY <1>5, <1>7, <1>8, <1>9, <1>10 DEF IInv, RunInv, AInv, FailedFlagExact

LEMMA StepIInv == IInv /\ [Next]_vars => IInv'
<1> SUFFICES ASSUME IInv, [Next]_vars PROVE IInv'
  OBVIOUS
<1>1. CASE RunTask
  BY <1>1, RunTaskStep
<1>2. CASE TaskErr
  BY <1>2, TaskErrStep
<1>3. CASE EnterBlock
  BY <1>3, EnterBlockStep
<1>4. CASE StartRescue
  BY <1>4, StartRescueStep
<1>5. CASE StartAlways
  BY <1>5, StartAlwaysStep
<1>6. CASE LeaveBlock
  BY <1>6, LeaveBlockStep
<1>7. CASE Finish
  BY <1>7, FinishStep
<1>8. CASE UNCHANGED vars
  BY <1>8, StutterStep
<1> QED
  BY <1>1, <1>2, <1>3, <1>4, <1>5, <1>6, <1>7, <1>8, Zenon DEF Next

-----------------------------------------------------------------------------
(* The order of a walk of run_block. *)
LEMMA SectionIn ==
  ASSUME Base, NestInv, LogInv, NEW i \in 1..Len(log), NEW s, NEW c, InSection(i, s, c)
  PROVE  s \in 0..i - 1 /\ (s = 0 => c = "top")
<1> SUFFICES ASSUME NEW a, a = log[i].at
             PROVE  s \in 0..i - 1 /\ (s = 0 => c = "top")
  OBVIOUS
<1>1. LogOf(i) /\ 1 \in 1..Depth /\ stack[1].since = 0 /\ stack[1].sec = "top"
      /\ i > 0 /\ i \in Nat
  BY Bounds DEF LogInv, NestInv, Base, GoodFrame
<1>2. /\ Len(a) \in Nat /\ Len(a) \in 1..Len(a) /\ 1 \in 1..Len(a) /\ a[1].since = 0
      /\ \A p \in 1..Len(a) : a[p].since \in Nat /\ a[p].since < i
  BY <1>1 DEF LogOf, Around
<1>3. a[Len(a)].since = s /\ a[Len(a)].sec = c
  BY DEF InSection, Within
<1>4. a[1].sec = "top"
  BY <1>1 DEF LogOf
<1>5. ASSUME s = 0 PROVE c = "top"
  <2>1. Len(a) = 1
    BY <1>2, <1>3, <1>5, OneFrame
  <2> QED
    BY <1>3, <1>4, <2>1
<1>6. s \in 0..i - 1
  BY <1>1, <1>2, <1>3
<1> QED
  BY <1>5, <1>6

(* Two frames of the stack are frames of different blocks. *)
LEMMA OneOnStack ==
  ASSUME Base, NestInv, NEW k \in 1..Depth, NEW m \in 1..Depth,
         stack[k].since = stack[m].since
  PROVE  k = m
<1>1. Depth \in Nat /\ \A j \in 1..Depth : stack[j].since \in Nat
  BY Bounds
<1>2. ~(k < m) /\ ~(m < k)
  BY <1>1 DEF NestInv
<1> QED
  BY <1>1, <1>2

(* In run_block the flag is that of the innermost section. *)
LEMMA PlayFlag ==
  ASSUME Base, FlagInv, walker = "play"
  PROVE  failed <=> Fails(Top.since, Top.sec)
<1>1. Depth \in 1..Depth
  BY Bounds
<1>2. ~FailedBefore(Depth)
  BY <1>1 DEF FlagInv, FlagOf
<1> QED
  BY <1>2 DEF FlagInv, TopFlag

(* What is said of the log alone stays as it is when the log does. *)
LEMMA SameLog ==
  ASSUME UNCHANGED <<walker, list, log>>
  PROVE  /\ \A s, c : (Fails(s, c)' <=> Fails(s, c)) /\ (Runs(s, c)' <=> Runs(s, c))
         /\ \A i, s, c : InSection(i, s, c)' <=> InSection(i, s, c)
         /\ \A i, s, c : LastIn(i, s, c)' <=> LastIn(i, s, c)
         /\ \A i : /\ NodeFailed(i)' <=> NodeFailed(i)
                   /\ EndsRight(i)' <=> EndsRight(i)
                   /\ Left(i)' = Left(i)
         /\ \A s, c : Contents(s, c)' = Contents(s, c)
         /\ OrderInv' <=> OrderInv
<1>1. \A i, s, c : Escapes(i, s, c)' <=> Escapes(i, s, c)
  BY DEF Escapes, Counts, Notices, Within, Rescues
<1>2. \A s, c : Fails(s, c)' <=> Fails(s, c)
  BY <1>1 DEF Fails
<1>3. \A i, s, c : InSection(i, s, c)' <=> InSection(i, s, c)
  BY DEF InSection, Within
<1>4. \A i, j : SameSection(i, j)' <=> SameSection(i, j)
  BY DEF SameSection, InSection, Within
<1>5. \A i : Left(i)' = Left(i)
  BY DEF Left, Within
<1>6. \A i : NodeFailed(i)' <=> NodeFailed(i)
  BY <1>2 DEF NodeFailed
<1>7. \A s, c : Contents(s, c)' = Contents(s, c)
  BY Zenon DEF Contents
<1>8. \A i : EndsRight(i)' <=> EndsRight(i)
  BY <1>4, <1>5, <1>6, Zenon DEF EndsRight
<1>9. \A s, c : Runs(s, c)' <=> Runs(s, c)
  BY <1>3 DEF Runs
<1>10. \A i, s, c : LastIn(i, s, c)' <=> LastIn(i, s, c)
  BY <1>3 DEF LastIn
<1>11. \A i, j : GoesOnRight(i, j)' <=> GoesOnRight(i, j)
  BY <1>4, <1>5, <1>6, Zenon DEF GoesOnRight
<1>12. \A j : StartsRight(j)' <=> StartsRight(j)
  BY <1>4, <1>5, <1>7, Zenon DEF StartsRight, Within
<1>13. OrderInv' <=> OrderInv
  BY <1>11, <1>12, Zenon DEF OrderInv
<1> QED
  BY <1>2, <1>3, <1>5, <1>6, <1>7, <1>8, <1>9, <1>10, <1>13

(* An entry is added to the innermost section, whose frame goes on with the  *)
(* rest of its list.                                                         *)
GoesOnAbove ==
  /\ Depth <= Depth' /\ stack'[Depth].todo = Tail(Top.todo)
  /\ \A k \in Depth + 1..Depth' : stack'[k].since > Len(log)
  /\ \A k \in 1..Depth : /\ stack'[k].since = stack[k].since
                         /\ stack'[k].sec = stack[k].sec
                         /\ stack'[k].blk = stack[k].blk
                         /\ k # Depth => stack'[k].todo = stack[k].todo
  /\ \A i : i = Len(log) + 1 /\ Depth' = Depth => (NodeFailed(i)' <=> failed')
LEMMA EntryAdded ==
  ASSUME IInv, PlayInv, walker = "play", status = "run", ~failed,
         NEW o, log' = Append(log, Entry(o)), UNCHANGED <<walker, list>>,
         IInv', GoesOnAbove
  PROVE  /\ OrderInv' /\ EndInv'
         /\ \A i \in 1..Len(log) : BegunOf(i)'
         /\ \A k \in 1..Depth : FrameInv(k)'
<1> SUFFICES ASSUME NEW n, NEW L, NEW N, NEW t, NEW d, NEW e, n = Depth, L = Len(log),
                    N = L + 1, t = Top.since, d = Top.sec, e = Entry(o)
             PROVE  /\ OrderInv' /\ EndInv'
                    /\ \A i \in 1..L : BegunOf(i)'
                    /\ \A k \in 1..n : FrameInv(k)'
  OBVIOUS
<1>1. /\ Base /\ NestInv /\ LogInv /\ OrderInv /\ EndInv /\ BegunInv /\ FramesInv
  BY DEF IInv, RunInv, PlayInv
<1>0. /\ n <= Depth' /\ stack'[n].todo = Tail(Top.todo)
      /\ \A k \in n + 1..Depth' : stack'[k].since > L
      /\ \A k \in 1..n : /\ stack'[k].since = stack[k].since
                         /\ stack'[k].sec = stack[k].sec
                         /\ stack'[k].blk = stack[k].blk
                         /\ k # n => stack'[k].todo = stack[k].todo
      /\ n = Depth' => (NodeFailed(N)' <=> failed')
  <2>1. n = Depth' => (NodeFailed(N)' <=> failed')
    BY DEF GoesOnAbove
  <2> QED
    BY <2>1 DEF GoesOnAbove
<1>2. /\ n \in Nat /\ n > 0 /\ n \in 1..n /\ L \in Nat /\ Top = stack[n]
      /\ N \in Nat /\ N > L /\ L >= 0
      /\ \A k \in 1..n : stack[k].since \in 0..L
  BY <1>1, Bounds
<1>3. /\ IsSeq(log') /\ Len(log') = N /\ log'[N] = e
      /\ \A i \in 1..L : log'[i] = log[i]
  BY <1>1, Appended DEF Base
<1>4. e.at = stack /\ e.out = o /\ Within(e) = Top
  BY DEF Entry, Within, Top
<1>5. /\ \A i \in 1..L : \A s, c : InSection(i, s, c)' <=> InSection(i, s, c)
      /\ \A s, c : InSection(N, s, c)' <=> t = s /\ d = c
  <2>1. Within(log'[N]) = Top
    BY <1>3, <1>4
  <2> QED
    BY <1>3, <2>1 DEF InSection
<1>6. /\ \A i \in 1..L : \A s, c : Escapes(i, s, c)' <=> Escapes(i, s, c)
      /\ \A s, c : Escapes(N, s, c)' => \E k \in 1..n : stack[k].since = s /\ stack[k].sec = c
  <2>1. \A i \in 1..L : \A s, c : Escapes(i, s, c)' <=> Escapes(i, s, c)
    BY <1>1, Kept DEF Base
  <2>2. ASSUME NEW s, NEW c, Escapes(N, s, c)'
        PROVE  \E k \in 1..n : stack[k].since = s /\ stack[k].sec = c
    <3>1. \E p \in 1..Len(log'[N].at) : log'[N].at[p].since = s /\ log'[N].at[p].sec = c
      BY <2>2 DEF Escapes
    <3> QED
      BY <1>3, <1>4, <3>1 DEF Depth
  <2> QED
    BY <2>1, <2>2
<1>7. /\ \A s, c : Fails(s, c) => Fails(s, c)'
      /\ \A s, c : Fails(s, c)' => Fails(s, c) \/ Escapes(N, s, c)'
  <2>1. 1..N = 1..L \union {N}
    BY <1>2
  <2>2. \A s, c : Fails(s, c) <=> \E i \in 1..L : Escapes(i, s, c)
    BY DEF Fails
  <2>3. \A s, c : Fails(s, c)' <=> \E i \in 1..N : Escapes(i, s, c)'
    BY <1>3 DEF Fails
  <2> QED
    BY <1>6, <2>1, <2>2, <2>3, Zenon
<1>8. ASSUME NEW i \in 1..L
      PROVE  /\ NodeFailed(i) => NodeFailed(i)'
             /\ NodeFailed(i)' => NodeFailed(i) \/ \E k \in 1..n : stack[k].since = i
  <2>1. log'[i] = log[i]
    BY <1>3
  <2>2. \A c : Fails(i, c)' => Fails(i, c) \/ \E k \in 1..n : stack[k].since = i
    BY <1>6, <1>7
  <2>3. \A c : Fails(i, c) => Fails(i, c)'
    BY <1>7
  <2> QED
    BY <2>1, <2>2, <2>3, Zenon DEF NodeFailed
<1>9. /\ \A i \in 1..L : Left(i)' = Left(i)
      /\ Left(N)' = Top.todo
  BY <1>3, <1>4 DEF Left
<1>10. ASSUME NEW s \in 0..L, NEW c, s = 0 => c = "top"
       PROVE  Contents(s, c)' = Contents(s, c)
  <2>1. CASE c = "top"
    BY <2>1 DEF Contents
  <2>2. CASE c # "top"
    <3>1. log'[s] = log[s]
      BY <1>2, <1>3, <1>10, <2>2
    <3> QED
      BY <2>2, <3>1, Zenon DEF Contents
  <2> QED
    BY <2>1, <2>2
<1>11. \A i \in 1..L : \A s, c : LastIn(i, s, c)' => LastIn(i, s, c) /\ ~(t = s /\ d = c)
  <2> SUFFICES ASSUME NEW i \in 1..L, NEW s, NEW c, LastIn(i, s, c)'
               PROVE  LastIn(i, s, c) /\ ~(t = s /\ d = c)
    OBVIOUS
  <2>1. InSection(i, s, c)' /\ \A j \in i + 1..N : ~InSection(j, s, c)'
    BY <1>3 DEF LastIn
  <2>2. \A j \in i + 1..L : j \in 1..L /\ j \in i + 1..N
    BY <1>2
  <2>3. N \in i + 1..N
    BY <1>2
  <2> QED
    BY <1>5, <2>1, <2>2, <2>3 DEF LastIn
<1>12. \A i \in 1..L : \A s, c : LastIn(i, s, c) /\ ~(t = s /\ d = c) => LastIn(i, s, c)'
  <2> SUFFICES ASSUME NEW i \in 1..L, NEW s, NEW c, LastIn(i, s, c), ~(t = s /\ d = c)
               PROVE  LastIn(i, s, c)'
    OBVIOUS
  <2>1. \A j \in i + 1..N : (j \in i + 1..L /\ j \in 1..L) \/ j = N
    BY <1>2
  <2>2. InSection(i, s, c)' /\ \A j \in i + 1..N : ~InSection(j, s, c)'
    BY <1>5, <2>1 DEF LastIn
  <2> QED
    BY <1>3, <2>2 DEF LastIn
(* A block on the stack is the last entry of its section. *)
<1>13. \A i \in 1..L : \A k \in 1..n : stack[k].since = i =>
          /\ k > 1 /\ k - 1 \in 1..n
          /\ LastIn(i, stack[k - 1].since, stack[k - 1].sec)
  <2> SUFFICES ASSUME NEW i \in 1..L, NEW k \in 1..n, stack[k].since = i
               PROVE  /\ k > 1 /\ k - 1 \in 1..n
                      /\ LastIn(i, stack[k - 1].since, stack[k - 1].sec)
    OBVIOUS
  <2>1. k > 1 /\ k - 1 \in 1..n
    BY <1>1, <1>2 DEF NestInv
  <2> QED
    BY <1>1, <2>1 DEF FramesInv, FrameInv, OfBlock
<1>14. ASSUME NEW i \in 1..L, LastIn(i, t, d)
       PROVE  ~NodeFailed(i)' /\ Top.todo = Tail(Left(i))
  <2>1. AfterLast(n)
    BY <1>1, <1>2 DEF FramesInv, FrameInv
  <2>2. ~NodeFailed(i) /\ Top.todo = Tail(Left(i))
    BY <1>2, <1>14, <2>1 DEF AfterLast
  <2>3. ASSUME NEW k \in 1..n, stack[k].since = i PROVE FALSE
    <3>1. k - 1 \in 1..n /\ k - 1 # n /\ LastIn(i, stack[k - 1].since, stack[k - 1].sec)
      BY <1>2, <1>13, <2>3
    <3>2. stack[k - 1].since = t
      BY <1>14, <3>1 DEF LastIn, InSection
    <3> QED
      BY <1>1, <1>2, <3>1, <3>2, OneOnStack
  <2> QED
    BY <1>8, <2>2, <2>3
<1>15. OrderInv'
  <2>1. ASSUME NEW j \in 1..L PROVE StartsRight(j)' /\ \A i \in 1..j - 1 : GoesOnRight(i, j)'
    <3> SUFFICES ASSUME NEW s, NEW c, s = Within(log[j]).since, c = Within(log[j]).sec
                 PROVE  StartsRight(j)' /\ \A i \in 1..j - 1 : GoesOnRight(i, j)'
      OBVIOUS
    <3>1. log'[j] = log[j] /\ j \in Nat
      BY <1>2, <1>3
    <3>2. \A i \in 1..L : SameSection(i, j)' <=> SameSection(i, j)
      BY <1>5, <3>1 DEF SameSection
    <3>3. s \in 0..j - 1 /\ (s = 0 => c = "top")
      <4>1. InSection(j, s, c)
        BY DEF InSection
      <4>2. j \in 1..Len(log)
        OBVIOUS
      <4>3. Base /\ NestInv /\ LogInv
        BY <1>1, Zenon
      <4> QED
        BY <4>1, <4>2, <4>3, SectionIn, Zenon
    <3>4. Contents(s, c)' = Contents(s, c)
      <4>1. s \in 0..L
        BY <1>2, <3>1, <3>3
      <4> QED
        BY <1>10, <3>3, <4>1, Zenon
    <3>5. \A i \in 1..j - 1 : i \in 1..L /\ \A h \in i + 1..j - 1 : h \in 1..L
      BY <1>2, <3>1
    <3>6. StartsRight(j)'
      <4>1. StartsRight(j)
        BY <1>1 DEF OrderInv
      <4> QED
        BY <1>9, <3>1, <3>2, <3>4, <3>5, <4>1 DEF StartsRight
    <3>7. ASSUME NEW i \in 1..j - 1 PROVE GoesOnRight(i, j)'
      <4>1. GoesOnRight(i, j) /\ i \in 1..L
        BY <1>1, <3>5 DEF OrderInv
      <4>2. SUFFICES ASSUME SameSection(i, j), ~NodeFailed(i), Left(j) = Tail(Left(i))
                     PROVE  ~NodeFailed(i)' /\ Left(j)' = Tail(Left(i)')
        BY <3>2, <3>5, <4>1 DEF GoesOnRight
      <4>3. ASSUME NEW k \in 1..n, stack[k].since = i PROVE FALSE
        <5> SUFFICES ASSUME NEW x, NEW y, x = stack[k - 1].since, y = stack[k - 1].sec
                     PROVE  FALSE
          OBVIOUS
        <5>1. LastIn(i, x, y)
          BY <1>13, <4>1, <4>3
        <5>2. InSection(i, x, y) /\ InSection(i, s, c) /\ j \in i + 1..L
          BY <1>2, <3>1, <4>2, <5>1 DEF LastIn, SameSection
        <5>3. InSection(j, x, y)
          BY <5>2 DEF InSection
        <5> QED
          BY <5>1, <5>2, <5>3 DEF LastIn
      <4> QED
        BY <1>8, <1>9, <4>1, <4>2, <4>3
    <3> QED
      BY <3>6, <3>7
  <2>2. Within(log'[N]).since = t /\ Within(log'[N]).sec = d
    BY <1>3, <1>4
  <2>3. \A i \in 1..L : SameSection(i, N)' <=> InSection(i, t, d)
    BY <1>5, <2>2 DEF SameSection
  <2>4. N - 1 = L
    BY <1>2
  <2>5. StartsRight(N)'
    <3>1. SUFFICES ASSUME ~Runs(t, d) PROVE Top.todo = Contents(t, d)'
      BY <1>9, <2>2, <2>3, <2>4 DEF StartsRight, Runs
    <3>2. Top.todo = Contents(t, d)
      BY <1>1, <1>2, <3>1 DEF FramesInv, FrameInv, AtStart
    <3>3. t \in 0..L /\ (t = 0 => d = "top")
      <4>1. CASE n = 1
        BY <1>1, <1>2, <4>1 DEF Base, GoodFrame
      <4>2. CASE n # 1
        BY <1>1, <1>2, <4>2 DEF NestInv
      <4> QED
        BY <4>1, <4>2
    <3> QED
      BY <1>10, <3>2, <3>3
  <2>6. ASSUME NEW i \in 1..L PROVE GoesOnRight(i, N)'
    <3>1. SUFFICES ASSUME InSection(i, t, d), \A h \in i + 1..L : ~InSection(h, t, d)
                   PROVE  ~NodeFailed(i)' /\ Top.todo = Tail(Left(i))
      <4>1. \A h \in i + 1..L : h \in 1..L
        BY <1>2
      <4> QED
        BY <1>9, <2>3, <2>4, <4>1 DEF GoesOnRight
    <3> QED
      BY <1>14, <3>1 DEF LastIn
  <2> QED
    BY <1>2, <1>3, <2>1, <2>4, <2>5, <2>6 DEF OrderInv
<1>16. \A s, c : Open(s, c) => Open(s, c)'
  <2>1. Depth' \in Nat
    BY Lengths DEF IInv, Base, Depth
  <2>2. \A k \in 1..n : k \in 1..Depth'
    BY <1>0, <1>2, <2>1
  <2> QED
    BY <1>0, <2>2 DEF Open
<1>17. Open(t, d)
  BY <1>2 DEF Open
<1>18. EndInv'
  <2>1. ASSUME NEW i \in 1..L PROVE EndOf(i)'
    <3> SUFFICES ASSUME NEW s, NEW c, s = Within(log[i]).since, c = Within(log[i]).sec
                 PROVE  EndOf(i)'
      OBVIOUS
    <3>1. log'[i] = log[i]
      BY <1>3
    <3>2. CASE Open(s, c)
      BY <1>16, <3>1, <3>2 DEF EndOf
    <3>3. CASE ~Open(s, c)
      <4>1. EndsRight(i)
        BY <1>1, <3>3 DEF EndInv, EndOf
      <4>2. \A j \in 1..L : SameSection(j, i)' <=> SameSection(j, i)
        BY <1>5, <3>1 DEF SameSection
      <4>3. \A j \in i + 1..L : j \in 1..L /\ j \in i + 1..N
        BY <1>2
      <4>4. EndsRight(i)'
        BY <1>3, <1>8, <1>9, <4>1, <4>2, <4>3 DEF EndsRight
      <4> QED
        BY <4>4 DEF EndOf
    <3> QED
      BY <3>2, <3>3
  <2>2. EndOf(N)'
    BY <1>3, <1>4, <1>16, <1>17 DEF EndOf
  <2> QED
    BY <1>2, <1>3, <2>1, <2>2 DEF EndInv
<1>19. \A i \in 1..L : \A c : Runs(i, c) => Runs(i, c)'
  BY <1>2, <1>3, <1>5 DEF Runs
<1>20. \A s, c : Runs(s, c)' => Runs(s, c) \/ Open(s, c)
  <2> SUFFICES ASSUME NEW s, NEW c, NEW i \in 1..N, InSection(i, s, c)'
               PROVE  Runs(s, c) \/ Open(s, c)
    BY <1>3 DEF Runs
  <2>1. CASE i = N
    BY <1>5, <1>17, <2>1
  <2>2. CASE i # N
    <3>1. i \in 1..L
      BY <1>2, <2>2
    <3>2. InSection(i, s, c)
      BY <1>5, <3>1
    <3> QED
      BY <3>1, <3>2 DEF Runs
  <2> QED
    BY <2>1, <2>2
<1>21. \A s \in 1..L : \A c : Open(s, c)' => Open(s, c)
  <2> SUFFICES ASSUME NEW s \in 1..L, NEW c, NEW k \in 1..Depth',
                      stack'[k].since = s, stack'[k].sec = c
               PROVE  Open(s, c)
    BY DEF Open
  <2>1. CASE k \in 1..n
    BY <1>0, <2>1 DEF Open
  <2>2. CASE k \notin 1..n
    <3>1. Depth' \in Nat
      BY Lengths DEF IInv, Base, Depth
    <3>2. k \in n + 1..Depth'
      BY <1>2, <2>2, <3>1
    <3>3. s > L
      BY <1>0, <3>2
    <3> QED
      BY <1>2, <3>3
  <2> QED
    BY <2>1, <2>2
<1>22. ASSUME NEW i \in 1..L PROVE BegunOf(i)'
  <2>1. log'[i] = log[i] /\ BegunOf(i)
    BY <1>1, <1>3 DEF BegunInv
  <2>2. SUFFICES ASSUME log[i].out = "entered", ~Open(i, "block")
                 PROVE  /\ log[i].node.block = <<>> \/ Runs(i, "block")'
                        /\ \/ Open(i, "rescue")' /\ Fails(i, "block")'
                           \/ /\ ~Open(i, "rescue")'
                              /\ Runs(i, "rescue")' <=> Fails(i, "block")'
                                                      /\ log[i].node.rescue # <<>>
    BY <1>16, <2>1, Zenon DEF BegunOf
  <2>3. /\ log[i].node.block = <<>> \/ Runs(i, "block")
        /\ \/ Open(i, "rescue") /\ Fails(i, "block")
           \/ /\ ~Open(i, "rescue")
              /\ Runs(i, "rescue") <=> Fails(i, "block") /\ log[i].node.rescue # <<>>
    BY <2>1, <2>2, Zenon DEF BegunOf
  <2>4. Fails(i, "block")' <=> Fails(i, "block")
    <3>1. ~Escapes(N, i, "block")'
      BY <1>6, <2>2 DEF Open
    <3> QED
      BY <1>7, <3>1, Zenon
  <2>5. CASE Open(i, "rescue") /\ Fails(i, "block")
    BY <1>16, <1>19, <2>3, <2>4, <2>5
  <2>6. CASE ~Open(i, "rescue")
    <3>1. ~Open(i, "rescue")'
      BY <1>21, <2>6
    <3>2. Runs(i, "rescue")' <=> Runs(i, "rescue")
      BY <1>19, <1>20, <2>6
    <3> QED
      BY <1>19, <2>3, <2>4, <2>6, <3>1, <3>2
  <2> QED
    BY <2>3, <2>5, <2>6
<1>23. ASSUME NEW k \in 1..n PROVE FrameInv(k)'
  <2> SUFFICES ASSUME NEW s, NEW c, s = stack[k].since, c = stack[k].sec
               PROVE  FrameInv(k)'
    OBVIOUS
  <2>1. /\ FrameInv(k) /\ stack'[k].since = s /\ stack'[k].sec = c
        /\ stack'[k].blk = stack[k].blk
    BY <1>0, <1>1 DEF FramesInv
  <2>2. k # n => k # Depth' /\ stack'[k].todo = stack[k].todo
    <3>1. Depth' \in Nat
      BY Lengths DEF IInv, Base, Depth
    <3> QED
      BY <1>0, <1>2, <3>1
  <2>3. AtStart(k)'
    <3>1. Runs(s, c)'
      <4>1. CASE k = n
        BY <1>2, <1>3, <1>5, <4>1 DEF Runs
      <4>2. CASE k # n
        <5>1. Runs(s, c)
          BY <2>1, <4>2 DEF FrameInv, AtStart
        <5> QED
          BY <1>2, <1>3, <1>5, <5>1 DEF Runs
      <4> QED
        BY <4>1, <4>2
    <3> QED
      BY <2>1, <3>1 DEF AtStart
  <2>4. AfterLast(k)'
    <3>1. SUFFICES ASSUME NEW i \in 1..N, LastIn(i, s, c)'
                   PROVE  /\ stack'[k].todo = Tail(Left(i)')
                          /\ k = Depth' => (NodeFailed(i)' <=> failed')
      BY <1>3, <2>1 DEF AfterLast
    <3>2. CASE i = N
      <4>1. t = s /\ d = c
        BY <1>5, <3>1, <3>2 DEF LastIn
      <4>2. k = n
        <5>1. stack[k].since = stack[n].since
          BY <1>2, <4>1
        <5>2. Base /\ NestInv /\ k \in 1..Depth /\ n \in 1..Depth
          BY <1>1, <1>2
        <5> QED
          BY <5>1, <5>2, OneOnStack, Zenon
      <4>3. Left(i)' = Top.todo /\ stack'[n].todo = Tail(Top.todo)
        BY <1>0, <1>9, <3>2
      <4>4. n = Depth' => (NodeFailed(i)' <=> failed')
        BY <1>0, <3>2
      <4> QED
        BY <4>2, <4>3, <4>4, Zenon
    <3>3. CASE i # N
      <4>1. i \in 1..L
        BY <1>2, <3>3
      <4>2. LastIn(i, s, c) /\ k # n
        BY <1>2, <1>11, <3>1, <4>1
      <4> QED
        BY <1>9, <2>1, <2>2, <4>1, <4>2 DEF FrameInv, AfterLast
    <3> QED
      BY <3>2, <3>3
  <2>5. OfBlock(k)'
    <3> SUFFICES ASSUME k > 1, NEW x, NEW y, x = stack[k - 1].since, y = stack[k - 1].sec
                 PROVE  OfBlock(k)'
      BY DEF OfBlock
    <3>1. k - 1 \in 1..n /\ k - 1 # n
      BY <1>2
    <3>2. /\ s \in 1..L /\ log[s].out = "entered" /\ log[s].node = stack[k].blk
          /\ LastIn(s, x, y)
      BY <2>1 DEF FrameInv, OfBlock
    <3>3. t # x
      BY <1>1, <1>2, <3>1, OneOnStack
    <3>4. LastIn(s, x, y)'
      BY <1>12, <3>2, <3>3
    <3>5. stack'[k - 1].since = x /\ stack'[k - 1].sec = y
      BY <1>0, <3>1
    <3> QED
      BY <1>2, <1>3, <2>1, <3>2, <3>4, <3>5 DEF OfBlock
  <2> QED
    BY <2>3, <2>4, <2>5 DEF FrameInv
<1> QED
  BY <1>15, <1>18, <1>22, <1>23

(* The two steps that add an entry. *)
LEMMA StrategyStep ==
  ASSUME walker # "play", walker' = walker
  PROVE  PlayInv'
  BY DEF PlayInv, PlayRunsAsWritten

LEMMA RunTaskPlay ==
  ASSUME IInv, PlayInv, RunTask, IInv', walker = "play"
  PROVE  PlayInv'
<1> SUFFICES ASSUME NEW n, NEW L, NEW N, n = Depth, L = Len(log), N = L + 1
             PROVE  PlayInv'
  OBVIOUS
<1>1. /\ status = "run" /\ Base /\ ~failed
      /\ UNCHANGED <<walker, list, status>>
  BY DEF IInv, RunTask, HasNode, Breaks
<1>2. PICK o \in Outcomes :
        LET fails == o = "failed" /\ Notices(Top.sec)
        IN /\ log' = Append(log, Entry(o))
           /\ failed' = (failed \/ fails)
           /\ stack' = WithTop([Top EXCEPT !.todo = Tail(@),
                                           !.blockFailed = @ \/ fails])
  BY DEF RunTask
<1>3. /\ n \in Nat /\ n > 0 /\ n \in 1..n /\ L \in Nat /\ n = Len(stack) /\ Top = stack[n]
  BY <1>1, Bounds
<1>4. PICK g : /\ stack' = WithTop(g)
               /\ g.sec = Top.sec /\ g.since = Top.since /\ g.blk = Top.blk
               /\ g.todo = Tail(Top.todo)
  <2>1. PICK y : y = (Top.blockFailed \/ (o = "failed" /\ Notices(Top.sec)))
    OBVIOUS
  <2>2. PICK g : g = FrameOf(Top.sec, Tail(Top.todo), Top.blk, Top.since, y, Top.saved)
    OBVIOUS
  <2>3. IsFrame(Top)
    BY <1>1, <1>3 DEF Base, GoodFrame
  <2>4. \A x, z : [Top EXCEPT !.todo = x, !.blockFailed = z]
                    = FrameOf(Top.sec, x, Top.blk, Top.since, z, Top.saved)
    BY <2>3, FrameChanged, Zenon
  <2>5. stack' = WithTop(g)
    BY <1>2, <2>1, <2>2, <2>4, Zenon
  <2> QED
    BY <2>2, <2>5, FrameFields
<1>5. /\ Len(stack') = n /\ Depth' = n /\ stack'[n] = g
      /\ \A k \in 1..n : k # n => stack'[k] = stack[k]
  BY <1>1, <1>3, <1>4, TopReplaced DEF Base, Depth
<1>6. /\ Len(log') = N /\ log'[N].out = o
  <2>1. Len(log') = N /\ log'[N] = Entry(o)
    BY <1>1, <1>2, Appended DEF Base
  <2> QED
    BY <2>1 DEF Entry
<1>7. NodeFailed(N)' <=> failed'
  <2>1. failed' <=> o = "failed"
    BY <1>1, <1>2 DEF Notices
  <2> QED
    BY <1>6, <2>1 DEF NodeFailed, Outcomes
<1>8. GoesOnAbove
  <2>1. \A k \in n + 1..n : FALSE
    BY <1>3
  <2> QED
    BY <1>3, <1>4, <1>5, <1>7, <2>1 DEF GoesOnAbove
<1>9. /\ OrderInv' /\ EndInv' /\ \A i \in 1..L : BegunOf(i)'
      /\ \A k \in 1..n : FrameInv(k)'
  BY <1>1, <1>2, <1>8, EntryAdded
<1>10. BegunOf(N)'
  BY <1>6 DEF BegunOf, Outcomes
<1>11. BegunInv'
  <2>1. 1..N = 1..L \union {N}
    BY <1>3
  <2> QED
    BY <1>6, <1>9, <1>10, <2>1, Zenon DEF BegunInv
<1>12. FramesInv'
  BY <1>5, <1>9, Zenon DEF FramesInv
<1>13. PlayRunsAsWritten'
  BY <1>1 DEF PlayRunsAsWritten
<1> QED
  BY <1>9, <1>11, <1>12, <1>13, Zenon DEF PlayInv

LEMMA EnterBlockPlay ==
  ASSUME IInv, PlayInv, EnterBlock, IInv', walker = "play"
  PROVE  PlayInv'
<1> SUFFICES ASSUME NEW n, NEW L, NEW N, NEW m, n = Depth, L = Len(log), N = L + 1,
                    m = n + 1
             PROVE  PlayInv'
  OBVIOUS
<1>1. /\ status = "run" /\ Base /\ NestInv /\ LogInv /\ ~failed
      /\ UNCHANGED <<walker, list, failed, status>>
  BY DEF IInv, RunInv, EnterBlock, HasNode, Breaks
<1>2. PICK b : b = Head(Top.todo)
  OBVIOUS
<1>3. /\ n \in Nat /\ n > 0 /\ n \in 1..n /\ L \in Nat /\ n = Len(stack) /\ Top = stack[n]
      /\ Top.since \in 0..L
  BY <1>1, Bounds
<1>4. PICK h : /\ h = Frame("block", b.block, b, N)
               /\ h.sec = "block" /\ h.since = N /\ h.blk = b /\ h.todo = b.block
  <2>1. PICK no, h : no = FALSE /\ h = FrameOf("block", b.block, b, N, no, no)
    OBVIOUS
  <2>2. h = Frame("block", b.block, b, N)
    BY <2>1, Zenon DEF Frame, FrameOf
  <2> QED
    BY <2>1, <2>2, FrameFields
<1>5. PICK g : /\ stack' = WithTop(g) \o <<h>>
               /\ g.sec = Top.sec /\ g.since = Top.since /\ g.blk = Top.blk
               /\ g.todo = Tail(Top.todo)
  <2>1. PICK g : g = FrameOf(Top.sec, Tail(Top.todo), Top.blk, Top.since,
                             Top.blockFailed, Top.saved)
    OBVIOUS
  <2>2. IsFrame(Top)
    BY <1>1, <1>3 DEF Base, GoodFrame
  <2>3. [Top EXCEPT !.todo = Tail(Top.todo)] = g
    BY <2>1, <2>2, FrameChanged, Zenon
  <2>4. stack' = WithTop([Top EXCEPT !.todo = Tail(Top.todo)]) \o <<h>>
    BY <1>2, <1>4, Zenon DEF EnterBlock
  <2>5. stack' = WithTop(g) \o <<h>>
    BY <2>3, <2>4, Zenon
  <2>6. /\ g.sec = Top.sec /\ g.since = Top.since /\ g.blk = Top.blk
        /\ g.todo = Tail(Top.todo)
    BY <2>1, FrameFields
  <2> QED
    BY <2>5, <2>6, Zenon
<1>6. /\ Len(stack') = m /\ Depth' = m /\ stack'[n] = g /\ stack'[m] = h
      /\ \A k \in 1..n : k # n => stack'[k] = stack[k]
  <2>1. IsSeq(stack) /\ Depth > 0
    BY <1>1, <1>3 DEF Base
  <2>2. Pushed(stack', g, h)
    BY <1>5, <2>1, FramePushed, Zenon
  <2> QED
    BY <2>2 DEF Pushed, Depth
<1>7. /\ log' = Append(log, Entry("entered")) /\ Len(log') = N
      /\ \A i \in 1..L : log'[i] = log[i]
      /\ log'[N].out = "entered" /\ log'[N].node = b /\ Within(log'[N]) = Top
  <2>1. log' = Append(log, Entry("entered"))
    BY DEF EnterBlock
  <2>2. Len(log') = N /\ log'[N] = Entry("entered") /\ \A i \in 1..L : log'[i] = log[i]
    BY <1>1, <2>1, Appended DEF Base
  <2> QED
    BY <1>2, <2>1, <2>2 DEF Entry, Within, Top
<1>8. GoesOnAbove
  <2>1. \A k \in n + 1..m : k = m
    BY <1>3
  <2>2. N > L /\ n <= m /\ n # m
    BY <1>3
  <2>3. \A k \in n + 1..m : stack'[k].since > L
    BY <1>4, <1>6, <2>1, <2>2
  <2>4. \A k \in 1..n : /\ stack'[k].since = stack[k].since /\ stack'[k].sec = stack[k].sec
                        /\ stack'[k].blk = stack[k].blk
                        /\ k # n => stack'[k].todo = stack[k].todo
    BY <1>3, <1>5, <1>6
  <2>5. stack'[n].todo = Tail(Top.todo)
    BY <1>5, <1>6
  <2> QED
    BY <1>6, <2>2, <2>3, <2>4, <2>5, Zenon DEF GoesOnAbove
<1>9. /\ OrderInv' /\ EndInv' /\ \A i \in 1..L : BegunOf(i)'
      /\ \A k \in 1..n : FrameInv(k)'
  BY <1>1, <1>7, <1>8, EntryAdded
<1>10. BegunOf(N)'
  <2>1. m \in 1..m
    BY <1>3
  <2>2. Open(N, "block")'
    BY <1>4, <1>6, <2>1 DEF Open
  <2> QED
    BY <2>2, Zenon DEF BegunOf
<1>11. BegunInv'
  <2>1. 1..N = 1..L \union {N}
    BY <1>3
  <2> QED
    BY <1>7, <1>9, <1>10, <2>1, Zenon DEF BegunInv
<1>12. FrameInv(m)'
  <2>1. AtStart(m)'
    <3>1. Contents(N, "block")' = b.block
      BY <1>7, Zenon DEF Contents
    <3>2. stack'[m].since = N /\ stack'[m].sec = "block" /\ stack'[m].todo = b.block
      BY <1>4, <1>6
    <3> QED
      BY <1>1, <1>6, <3>1, <3>2 DEF AtStart
  <2>2. AfterLast(m)'
    <3>1. SUFFICES ASSUME NEW i \in 1..N, LastIn(i, N, "block")'
                   PROVE  FALSE
      BY <1>4, <1>6, <1>7 DEF AfterLast
    <3>2. InSection(i, N, "block")'
      BY <3>1 DEF LastIn
    <3>3. CASE i = N
      BY <1>3, <1>7, <3>2, <3>3 DEF InSection
    <3>4. CASE i # N
      <4>1. i \in 1..Len(log) /\ InSection(i, N, "block")
        <5>1. i \in 1..L
          BY <1>3, <3>4
        <5> QED
          BY <1>7, <3>2, <5>1 DEF InSection
      <4>2. N \in 0..i - 1
        BY <1>1, <4>1, SectionIn, Zenon
      <4> QED
        BY <1>3, <4>1, <4>2
    <3> QED
      BY <3>3, <3>4
  <2>3. OfBlock(m)'
    <3> SUFFICES ASSUME NEW x, NEW y, x = Top.since, y = Top.sec
                 PROVE  OfBlock(m)'
      OBVIOUS
    <3>1. InSection(N, x, y)'
      BY <1>7 DEF InSection
    <3>2. LastIn(N, x, y)'
      <4>1. \A j \in N + 1..N : FALSE
        BY <1>3
      <4> QED
        BY <1>7, <3>1, <4>1 DEF LastIn
    <3>3. m - 1 = n /\ N \in 1..N
      BY <1>3
    <3>4. /\ stack'[m].since = N /\ stack'[m].blk = b
          /\ stack'[n].since = x /\ stack'[n].sec = y
      BY <1>4, <1>5, <1>6
    <3> QED
      BY <1>7, <3>2, <3>3, <3>4 DEF OfBlock
  <2> QED
    BY <2>1, <2>2, <2>3 DEF FrameInv
<1>13. FramesInv'
  <2>1. 1..m = 1..n \union {m}
    BY <1>3
  <2> QED
    BY <1>6, <1>9, <1>12, <2>1, Zenon DEF FramesInv
<1>14. PlayRunsAsWritten'
  BY <1>1 DEF PlayRunsAsWritten
<1> QED
  BY <1>9, <1>11, <1>13, <1>14, Zenon DEF PlayInv

(* The end of a section of run_block. *)
LEMMA NotYet ==
  ASSUME Base, NestInv, LogInv
  PROVE  /\ Top.sec = "block" => ~Runs(Top.since, "rescue")
         /\ Top.sec \in {"block", "rescue"} => ~Runs(Top.since, "always")
<1> SUFFICES ASSUME NEW n, NEW s, n = Depth, s = Top.since,
                    Top.sec \in {"block", "rescue"},
                    NEW x, x \notin {"block", Top.sec}
             PROVE  ~Runs(s, x)
  OBVIOUS
<1>1. n \in Nat /\ n > 0 /\ Top = stack[n] /\ Len(log) \in Nat
  BY Bounds
<1>2. ASSUME NEW i \in 1..Len(log), InSection(i, s, x) PROVE FALSE
  <2>1. s \in 0..i - 1 /\ i \in Nat
    BY <1>1, <1>2, SectionIn
  <2>2. /\ n <= Len(log[i].at) /\ log[i].at[n].since = s /\ Len(log[i].at) \in Nat
        /\ log[i].at[n].sec \in {"block", Top.sec}
    BY <1>1, <2>1 DEF LogInv, LogOf, Around
  <2>3. Len(log[i].at) = n
    <3>1. log[i].at[Len(log[i].at)].since = s
      BY <1>2 DEF InSection, Within
    <3> QED
      BY <1>1, <2>2, <3>1, OneFrame
  <2>4. log[i].at[n].sec = x
    BY <1>2, <2>3 DEF InSection, Within
  <2> QED
    BY <2>2, <2>4
<1> QED
  BY <1>2 DEF Runs

LEMMA EndFacts ==
  ASSUME IInv, PlayInv, walker = "play", SectionOver,
         NEW s, s = Top.since, NEW c, c = Top.sec
  PROVE  /\ \A i \in 1..Len(log) : InSection(i, s, c) => EndsRight(i)
         /\ Contents(s, c) # <<>> => Runs(s, c)
<1>1. /\ status = "run" /\ Base /\ FramesInv /\ (Top.todo = <<>> \/ failed)
  BY DEF IInv, PlayInv, SectionOver, Breaks
<1>2. PICK n : n = Depth /\ n \in 1..n /\ Top = stack[n]
  BY <1>1, Bounds
<1>3. FrameInv(n)
  BY <1>1, <1>2 DEF FramesInv
<1>4. ASSUME NEW i \in 1..Len(log), InSection(i, s, c) PROVE EndsRight(i)
  <2>1. SUFFICES ASSUME \A j \in i + 1..Len(log) : ~SameSection(j, i)
                 PROVE  NodeFailed(i) \/ Tail(Left(i)) = <<>>
    BY DEF EndsRight
  <2>2. \A j : SameSection(j, i) <=> InSection(j, s, c)
    BY <1>4 DEF SameSection, InSection
  <2>3. LastIn(i, s, c)
    BY <1>4, <2>1, <2>2, Zenon DEF LastIn
  <2>4. Top.todo = Tail(Left(i)) /\ (NodeFailed(i) <=> failed)
    BY <1>2, <1>3, <2>3 DEF FrameInv, AfterLast
  <2> QED
    BY <1>1, <2>4
<1>5. Contents(s, c) # <<>> => Runs(s, c)
  <2>1. ~Runs(s, c) => ~failed /\ Top.todo = Contents(s, c)
    BY <1>2, <1>3 DEF FrameInv, AtStart
  <2> QED
    BY <1>1, <2>1
<1> QED
  BY <1>4, <1>5

(* A block that is past its block section, and not going to rescue.          *)
LEMMA BlockPast ==
  ASSUME IInv, PlayInv, walker = "play", SectionOver, Top.sec # "top",
         NEW s, s = Top.since, NEW b, b = Top.blk
  PROVE  /\ s \in 1..Len(log) /\ log[s].out = "entered" /\ log[s].node = b
         /\ b.block # <<>> => Runs(s, "block")
         /\ ~GoesToRescue => (Runs(s, "rescue") <=> Fails(s, "block") /\ b.rescue # <<>>)
<1>1. /\ status = "run" /\ Base /\ FramesInv /\ NestInv /\ LogInv /\ FlagInv /\ BegunInv
  BY DEF IInv, RunInv, PlayInv, SectionOver
<1>2. PICK n : n = Depth /\ n \in Nat /\ n \in 1..n /\ Top = stack[n]
  BY <1>1, Bounds
<1>3. n > 1 /\ Top.sec \in {"block", "rescue", "always"}
  BY <1>1, <1>2 DEF Base, GoodFrame, Depth
<1>4. s \in 1..Len(log) /\ log[s].out = "entered" /\ log[s].node = b
  BY <1>1, <1>2, <1>3 DEF FramesInv, FrameInv, OfBlock
<1>5. \A x : Open(s, x) <=> x = Top.sec
  <2> TAKE x
  <2>1. \A k \in 1..n : stack[k].since = s => k = n
    BY <1>1, <1>2, OneOnStack
  <2> QED
    BY <1>2, <2>1 DEF Open
<1>6. /\ Open(s, "block") \/ b.block = <<>> \/ Runs(s, "block")
      /\ \/ Open(s, "block")
         \/ Open(s, "rescue") /\ Fails(s, "block")
         \/ /\ ~Open(s, "rescue")
            /\ Runs(s, "rescue") <=> Fails(s, "block") /\ b.rescue # <<>>
  BY <1>1, <1>4, Zenon DEF BegunInv, BegunOf
<1>7. b.block # <<>> => Runs(s, "block")
  <2>1. CASE Top.sec = "block"
    <3>1. Contents(s, "block") = b.block
      BY <1>4, Zenon DEF Contents
    <3> QED
      BY <2>1, <3>1, EndFacts
  <2>2. CASE Top.sec # "block"
    BY <1>5, <1>6, <2>2
  <2> QED
    BY <2>1, <2>2
<1>8. ASSUME ~GoesToRescue
      PROVE  Runs(s, "rescue") <=> Fails(s, "block") /\ b.rescue # <<>>
  <2>1. CASE Top.sec = "block"
    <3>1. ~failed \/ b.rescue = <<>>
      BY <1>8, <2>1 DEF GoesToRescue, MainFailed
    <3>2. failed <=> Fails(s, "block")
      BY <1>1, <2>1, PlayFlag
    <3>3. ~Runs(s, "rescue")
      BY <1>1, <2>1, NotYet
    <3> QED
      BY <3>1, <3>2, <3>3
  <2>2. CASE Top.sec = "rescue"
    <3>1. Fails(s, "block") /\ b.rescue # <<>>
      BY <1>1, <1>2, <1>5, <1>6, <2>2 DEF NestInv
    <3>2. Contents(s, "rescue") = b.rescue
      BY <1>4, Zenon DEF Contents
    <3> QED
      BY <2>2, <3>1, <3>2, EndFacts
  <2>3. CASE Top.sec = "always"
    BY <1>5, <1>6, <2>3
  <2> QED
    BY <1>3, <2>1, <2>2, <2>3
<1> QED
  BY <1>4, <1>7, <1>8

(* The innermost section closes: its frame goes on to another section, or is *)
(* taken off the stack.                                                      *)
SectionCloses ==
  /\ Depth' \in {Depth, Depth - 1}
  /\ \A k \in 1..Depth' : /\ stack'[k].since = stack[k].since
                          /\ stack'[k].blk = stack[k].blk
                          /\ k # Depth => /\ stack'[k].sec = stack[k].sec
                                          /\ stack'[k].todo = stack[k].todo
(* What the frame that becomes the innermost one needs of the flag.          *)
FlagAfter(k) ==
  \A i \in 1..Len(log) : LastIn(i, stack[k].since, stack[k].sec) =>
    (NodeFailed(i) <=> failed')
LEMMA SectionEnded ==
  ASSUME IInv, PlayInv, walker = "play", SectionOver, UNCHANGED <<walker, list, log>>,
         SectionCloses
  PROVE  /\ OrderInv' /\ EndInv'
         /\ \A i \in 1..Len(log) : i # Top.since => BegunOf(i)'
         /\ \A k \in 1..Depth' :
              k # Depth /\ (k = Depth' => FlagAfter(k)) => FrameInv(k)'
<1> SUFFICES ASSUME NEW n, n = Depth, NEW L, L = Len(log), NEW s, s = Top.since,
                    NEW c, c = Top.sec
             PROVE  /\ OrderInv' /\ EndInv'
                    /\ \A i \in 1..L : i # s => BegunOf(i)'
                    /\ \A k \in 1..Depth' :
                         k # n /\ (k = Depth' => FlagAfter(k)) => FrameInv(k)'
  OBVIOUS
<1>1. /\ Base /\ NestInv /\ OrderInv /\ EndInv /\ BegunInv /\ FramesInv
      /\ log' = log /\ Len(log') = L
  BY DEF IInv, RunInv, PlayInv, SectionOver
<1>2. /\ n \in Nat /\ n > 0 /\ n \in 1..n /\ L \in Nat /\ Top = stack[n]
  BY <1>1, Bounds
<1>3. /\ Depth' \in Nat /\ \A k \in 1..Depth' : k \in 1..n
      /\ \A k \in 1..n : k # n => k \in 1..Depth'
  <2>1. Depth' \in {n, n - 1}
    BY DEF SectionCloses
  <2> QED
    BY <1>2, <2>1
<1>4. \A k \in 1..Depth' : /\ stack'[k].since = stack[k].since
                           /\ stack'[k].blk = stack[k].blk
                           /\ k # n => /\ stack'[k].sec = stack[k].sec
                                       /\ stack'[k].todo = stack[k].todo
  BY DEF SectionCloses
<1>5. /\ \A x, y : (Fails(x, y)' <=> Fails(x, y)) /\ (Runs(x, y)' <=> Runs(x, y))
      /\ \A i, x, y : LastIn(i, x, y)' <=> LastIn(i, x, y)
      /\ \A i : /\ NodeFailed(i)' <=> NodeFailed(i)
                /\ EndsRight(i)' <=> EndsRight(i)
                /\ Left(i)' = Left(i)
      /\ OrderInv'
  BY <1>1, SameLog
<1>6. \A k \in 1..n : stack[k].since = s => k = n
  BY <1>1, <1>2, OneOnStack
<1>7. \A x, y : Open(x, y) => Open(x, y)' \/ (x = s /\ y = c)
  <2> SUFFICES ASSUME NEW x, NEW y, NEW k \in 1..n, stack[k].since = x, stack[k].sec = y
               PROVE  Open(x, y)' \/ (x = s /\ y = c)
    BY DEF Open
  <2>1. CASE k = n
    BY <1>2, <2>1
  <2>2. CASE k # n
    <3>1. k \in 1..Depth' /\ stack'[k].since = x /\ stack'[k].sec = y
      BY <1>3, <1>4, <2>2
    <3> QED
      BY <3>1 DEF Open
  <2> QED
    BY <2>1, <2>2
<1>8. \A x, y : x # s /\ Open(x, y)' => Open(x, y)
  <2> SUFFICES ASSUME NEW x, NEW y, x # s, NEW k \in 1..Depth',
                      stack'[k].since = x, stack'[k].sec = y
               PROVE  Open(x, y)
    BY DEF Open
  <2>1. k \in 1..n /\ k # n
    BY <1>2, <1>3, <1>4
  <2> QED
    BY <1>4, <2>1 DEF Open
<1>9. EndInv'
  <2>1. ASSUME NEW i \in 1..L PROVE EndOf(i)'
    <3> SUFFICES ASSUME NEW x, NEW y, x = Within(log[i]).since, y = Within(log[i]).sec
                 PROVE  EndOf(i)'
      OBVIOUS
    <3>1. EndOf(i)' <=> Open(x, y)' \/ EndsRight(i)'
      BY <1>1, Zenon DEF EndOf, Within
    <3>2. Open(x, y) \/ EndsRight(i)
      BY <1>1 DEF EndInv, EndOf
    <3>3. ASSUME x = s, y = c PROVE EndsRight(i)
      <4>1. InSection(i, s, c)
        BY <3>3 DEF InSection
      <4> QED
        BY <4>1, EndFacts
    <3> QED
      BY <1>5, <1>7, <3>1, <3>2, <3>3
  <2> QED
    BY <1>1, <2>1 DEF EndInv
<1>10. ASSUME NEW i \in 1..L, i # s PROVE BegunOf(i)'
  <2>1. \A y : Open(i, y)' <=> Open(i, y)
    BY <1>7, <1>8, <1>10
  <2>2. BegunOf(i)
    BY <1>1 DEF BegunInv
  <2> QED
    BY <1>1, <1>5, <2>1, <2>2, Zenon DEF BegunOf
<1>11. ASSUME NEW k \in 1..Depth', k # n, k = Depth' => FlagAfter(k)
       PROVE  FrameInv(k)'
  <2> SUFFICES ASSUME NEW x, NEW y, x = stack[k].since, y = stack[k].sec
               PROVE  FrameInv(k)'
    OBVIOUS
  <2>1. /\ k \in 1..n /\ stack'[k].since = x /\ stack'[k].sec = y
        /\ stack'[k].blk = stack[k].blk /\ stack'[k].todo = stack[k].todo
    BY <1>3, <1>4, <1>11
  <2>2. FrameInv(k)
    BY <1>1, <2>1 DEF FramesInv
  <2>3. AtStart(k)'
    <3>1. Runs(x, y)
      BY <1>11, <2>2 DEF FrameInv, AtStart
    <3> QED
      BY <1>5, <2>1, <3>1 DEF AtStart
  <2>4. AfterLast(k)'
    <3>1. SUFFICES ASSUME NEW i \in 1..L, LastIn(i, x, y)'
                   PROVE  /\ stack'[k].todo = Tail(Left(i)')
                          /\ k = Depth' => (NodeFailed(i)' <=> failed')
      BY <1>1, <2>1 DEF AfterLast
    <3>2. LastIn(i, x, y)
      BY <1>5, <3>1
    <3>3. stack[k].todo = Tail(Left(i))
      BY <2>2, <3>2 DEF FrameInv, AfterLast
    <3>4. k = Depth' => (NodeFailed(i) <=> failed')
      BY <1>11, <3>2 DEF FlagAfter
    <3> QED
      BY <1>5, <2>1, <3>3, <3>4
  <2>5. OfBlock(k)'
    <3> SUFFICES ASSUME k > 1, NEW u, NEW v, u = stack[k - 1].since, v = stack[k - 1].sec
                 PROVE  OfBlock(k)'
      BY DEF OfBlock
    <3>1. k - 1 \in 1..Depth' /\ k - 1 # n
      BY <1>2, <1>3, <2>1
    <3>2. stack'[k - 1].since = u /\ stack'[k - 1].sec = v
      BY <1>4, <3>1
    <3>3. /\ x \in 1..L /\ log[x].out = "entered" /\ log[x].node = stack[k].blk
          /\ LastIn(x, u, v)
      BY <2>2 DEF FrameInv, OfBlock
    <3>4. LastIn(x, u, v)'
      BY <1>5, <3>3
    <3> QED
      BY <1>1, <2>1, <3>2, <3>3, <3>4 DEF OfBlock
  <2> QED
    BY <2>3, <2>4, <2>5 DEF FrameInv
<1> QED
  BY <1>5, <1>9, <1>10, <1>11

LEMMA StartPlay ==
  ASSUME IInv, PlayInv, walker = "play", SectionOver, Top.sec # "top",
         UNCHANGED <<walker, list, log>>, status' = "run", failed' = FALSE,
         NEW f, stack' = WithTop(f), f.since = Top.since, f.blk = Top.blk,
         \/ Top.sec = "block" /\ f.sec = "rescue" /\ f.todo = Top.blk.rescue /\ GoesToRescue
         \/ /\ Top.sec \in {"block", "rescue"} /\ f.sec = "always"
            /\ f.todo = Top.blk.always /\ ~GoesToRescue
  PROVE  PlayInv'
<1> SUFFICES ASSUME NEW n, n = Depth, NEW L, L = Len(log), NEW s, s = Top.since,
                    NEW c, c = f.sec, NEW b, b = Top.blk
             PROVE  PlayInv'
  OBVIOUS
<1>1. /\ status = "run" /\ Base /\ NestInv /\ LogInv /\ FlagInv /\ FramesInv
      /\ log' = log /\ Len(log') = L
  BY DEF IInv, RunInv, PlayInv, SectionOver
<1>2. /\ n \in Nat /\ n > 1 /\ n \in 1..n /\ L \in Nat /\ Top = stack[n]
  <2>1. n \in Nat /\ n > 0 /\ n \in 1..n /\ L \in Nat /\ Top = stack[n]
    BY <1>1, Bounds
  <2> QED
    BY <1>1, <2>1 DEF Base, GoodFrame, Depth
<1>3. /\ Len(stack') = n /\ Depth' = n /\ stack'[n] = f
      /\ \A k \in 1..n : k # n => stack'[k] = stack[k]
  BY <1>1, <1>2, TopReplaced DEF Base, Depth
<1>4. SectionCloses
  BY <1>2, <1>3 DEF SectionCloses
<1>5. /\ OrderInv' /\ EndInv'
      /\ \A i \in 1..L : i # s => BegunOf(i)'
      /\ \A k \in 1..n : k # n => FrameInv(k)'
  BY <1>3, <1>4, SectionEnded
<1>6. /\ s \in 1..L /\ log[s].out = "entered" /\ log[s].node = b
      /\ b.block # <<>> => Runs(s, "block")
      /\ ~GoesToRescue => (Runs(s, "rescue") <=> Fails(s, "block") /\ b.rescue # <<>>)
  BY BlockPast
<1>7. ~Runs(s, c)
  BY <1>1, NotYet
<1>8. /\ \A x, y : (Fails(x, y)' <=> Fails(x, y)) /\ (Runs(x, y)' <=> Runs(x, y))
      /\ \A i, x, y : LastIn(i, x, y)' <=> LastIn(i, x, y)
      /\ \A x, y : Contents(x, y)' = Contents(x, y)
  BY <1>1, SameLog
<1>9. \A y : Open(s, y)' <=> y = c
  <2> TAKE y
  <2>1. \A k \in 1..n : stack'[k].since = s <=> k = n
    <3>1. \A k \in 1..n : stack[k].since = s => k = n
      BY <1>1, <1>2, OneOnStack
    <3> QED
      BY <1>2, <1>3, <3>1
  <2> QED
    BY <1>2, <1>3, <2>1 DEF Open
<1>10. BegunOf(s)'
  <2>1. CASE c = "rescue"
    <3>1. failed /\ (failed <=> Fails(s, "block"))
      BY <1>1, <2>1, PlayFlag DEF GoesToRescue, MainFailed
    <3>2. Open(s, "rescue")' /\ Fails(s, "block")'
      BY <1>8, <1>9, <2>1, <3>1
    <3> QED
      BY <1>1, <1>6, <1>8, <3>2, Zenon DEF BegunOf
  <2>2. CASE c = "always"
    <3>1. ~Open(s, "rescue")' /\ ~Open(s, "block")'
      BY <1>9, <2>2
    <3>2. /\ b.block = <<>> \/ Runs(s, "block")'
          /\ Runs(s, "rescue")' <=> Fails(s, "block")' /\ b.rescue # <<>>
      BY <1>6, <1>8, <2>2
    <3> QED
      BY <1>1, <1>6, <3>1, <3>2, Zenon DEF BegunOf
  <2> QED
    BY <2>1, <2>2
<1>11. FrameInv(n)'
  <2>1. stack'[n].since = s /\ stack'[n].sec = c /\ stack'[n].blk = b
    BY <1>3
  <2>2. AtStart(n)'
    <3>1. Contents(s, c) = f.todo
      <4>1. CASE c = "rescue"
        BY <1>6, <4>1, Zenon DEF Contents
      <4>2. CASE c = "always"
        BY <1>6, <4>2, Zenon DEF Contents
      <4> QED
        BY <4>1, <4>2
    <3>2. Contents(s, c)' = f.todo
      BY <1>8, <3>1
    <3> QED
      BY <1>3, <2>1, <3>2 DEF AtStart
  <2>3. AfterLast(n)'
    <3>1. SUFFICES ASSUME NEW i \in 1..L, LastIn(i, s, c)' PROVE FALSE
      BY <1>1, <2>1 DEF AfterLast
    <3>2. LastIn(i, s, c)
      BY <1>8, <3>1
    <3> QED
      BY <1>7, <3>2 DEF LastIn, Runs
  <2>4. OfBlock(n)'
    <3> SUFFICES ASSUME NEW u, NEW v, u = stack[n - 1].since, v = stack[n - 1].sec
                 PROVE  OfBlock(n)'
      OBVIOUS
    <3>1. stack'[n - 1] = stack[n - 1]
      BY <1>2, <1>3
    <3>2. LastIn(s, u, v)
      BY <1>1, <1>2 DEF FramesInv, FrameInv, OfBlock
    <3>3. LastIn(s, u, v)'
      BY <1>8, <3>2
    <3> QED
      BY <1>1, <1>6, <2>1, <3>1, <3>3 DEF OfBlock
  <2> QED
    BY <2>2, <2>3, <2>4 DEF FrameInv
<1>12. BegunInv' /\ FramesInv'
  BY <1>1, <1>3, <1>5, <1>10, <1>11, Zenon DEF BegunInv, FramesInv
<1>13. PlayRunsAsWritten'
  BY DEF PlayRunsAsWritten
<1> QED
  BY <1>5, <1>12, <1>13, Zenon DEF PlayInv

LEMMA StartRescuePlay ==
  ASSUME IInv, PlayInv, StartRescue, walker = "play"
  PROVE  PlayInv'
<1>1. /\ SectionOver /\ Top.sec # "top" /\ GoesToRescue /\ Top.sec = "block"
      /\ UNCHANGED <<walker, list, status, log>> /\ failed' = FALSE
      /\ status = "run" /\ Base
  BY Zenon DEF IInv, StartRescue, SectionOver, GoesToRescue
<1>2. PICK f : /\ stack' = WithTop(f)
               /\ f = FrameOf("rescue", Top.blk.rescue, Top.blk, Top.since,
                              Top.blockFailed, Top.saved)
  BY <1>1, RescueFrame
<1>3. f.sec = "rescue" /\ f.todo = Top.blk.rescue /\ f.blk = Top.blk /\ f.since = Top.since
  BY <1>2, FrameFields
<1> QED
  BY <1>1, <1>2, <1>3, StartPlay

LEMMA StartAlwaysPlay ==
  ASSUME IInv, PlayInv, StartAlways, walker = "play"
  PROVE  PlayInv'
<1>1. /\ SectionOver /\ ~GoesToRescue /\ Top.sec # "always" /\ Top.sec # "top"
      /\ UNCHANGED <<walker, list, status, log>> /\ failed' = FALSE
      /\ status = "run" /\ Base
  BY Zenon DEF IInv, StartAlways, SectionOver, GoesToAlways
<1>2. Top.sec \in {"block", "rescue"}
  BY <1>1, Bounds DEF Base, GoodFrame
<1>3. PICK f : /\ stack' = WithTop(f)
               /\ f = FrameOf("always", Top.blk.always, Top.blk, Top.since,
                              Top.blockFailed, failed)
  BY <1>1, AlwaysFrame
<1>4. f.sec = "always" /\ f.todo = Top.blk.always /\ f.blk = Top.blk /\ f.since = Top.since
  BY <1>3, FrameFields
<1> QED
  BY <1>1, <1>2, <1>3, <1>4, StartPlay

LEMMA LeaveBlockPlay ==
  ASSUME IInv, PlayInv, LeaveBlock, walker = "play"
  PROVE  PlayInv'
<1> SUFFICES ASSUME NEW n, n = Depth, NEW L, L = Len(log), NEW s, s = Top.since,
                    NEW b, b = Top.blk
             PROVE  PlayInv'
  OBVIOUS
<1>0. PICK m : m = n - 1
  OBVIOUS
<1>1. /\ status = "run" /\ Base /\ NestInv /\ FlagInv /\ FramesInv
      /\ UNCHANGED <<walker, list, status, log>> /\ Len(log') = L
      /\ SectionOver /\ ~GoesToRescue /\ Top.sec # "top"
  BY DEF IInv, RunInv, PlayInv, LeaveBlock, SectionOver
<1>2. /\ n \in Nat /\ n > 1 /\ n \in 1..n /\ L \in Nat /\ Top = stack[n]
      /\ m \in Nat /\ m \in 1..n /\ m # n /\ n - 1 = m /\ m + 1 = n
  <2>1. n \in Nat /\ n > 0 /\ n \in 1..n /\ L \in Nat /\ Top = stack[n]
    BY <1>1, Bounds
  <2>2. n # 1
    BY <1>1, <2>1 DEF Base, GoodFrame, Depth
  <2> QED
    BY <1>0, <2>1, <2>2
<1>3. PICK g : /\ Popped(stack', g)
               /\ g.since = stack[m].since /\ g.sec = stack[m].sec
               /\ g.blk = stack[m].blk /\ g.todo = stack[m].todo
  <2>1. Rest[Len(Rest)] = stack[m] /\ \A f : Popped([Rest EXCEPT ![Len(Rest)] = f], f)
    BY <1>0, <1>1, <1>2, FramePopped DEF Base
  <2>2. PICK y, g : /\ y = failed'
                    /\ g = IF stack[m].sec = "block" THEN [stack[m] EXCEPT !.blockFailed = y]
                                                     ELSE stack[m]
    OBVIOUS
  <2>3. Popped(stack', g)
    <3>1. stack' = [Rest EXCEPT ![Len(Rest)] = g]
      BY <2>1, <2>2, Zenon DEF LeaveBlock
    <3> QED
      BY <2>1, <3>1, Zenon
  <2>4. CASE stack[m].sec = "block"
    <3>1. IsFrame(stack[m])
      BY <1>1, <1>2 DEF Base, GoodFrame, Depth
    <3>2. g = FrameOf(stack[m].sec, stack[m].todo, stack[m].blk, stack[m].since, y,
                      stack[m].saved)
      BY <2>2, <2>4, <3>1, FieldChanged, Zenon
    <3>3. /\ g.since = stack[m].since /\ g.sec = stack[m].sec
          /\ g.blk = stack[m].blk /\ g.todo = stack[m].todo
      BY <3>2, FrameFields
    <3> QED
      BY <2>3, <3>3, Zenon
  <2>5. CASE stack[m].sec # "block"
    BY <2>2, <2>3, <2>5, Zenon
  <2> QED
    BY <2>4, <2>5
<1>4. /\ Len(stack') = m /\ Depth' = m /\ stack'[m] = g
      /\ \A k \in 1..m : k # m => stack'[k] = stack[k]
  BY <1>0, <1>2, <1>3 DEF Popped, Depth
<1>5. SectionCloses
  <2>1. Depth' \in {Depth, Depth - 1}
    BY <1>2, <1>4
  <2>2. \A k \in 1..m : /\ stack'[k].since = stack[k].since
                        /\ stack'[k].blk = stack[k].blk
                        /\ stack'[k].sec = stack[k].sec /\ stack'[k].todo = stack[k].todo
    BY <1>2, <1>3, <1>4
  <2> QED
    BY <1>4, <2>1, <2>2, Zenon DEF SectionCloses
<1>6. /\ s \in 1..L /\ log[s].out = "entered" /\ log[s].node = b
      /\ b.block # <<>> => Runs(s, "block")
      /\ Runs(s, "rescue") <=> Fails(s, "block") /\ b.rescue # <<>>
  BY <1>1, BlockPast
(* The block is the last entry of the section around it. *)
<1>7. FlagAfter(m)
  <2>1. LastIn(s, stack[m].since, stack[m].sec)
    BY <1>1, <1>2 DEF FramesInv, FrameInv, OfBlock
  <2>2. ASSUME NEW i \in 1..L, LastIn(i, stack[m].since, stack[m].sec)
        PROVE  i = s
    <3>1. ~(i \in s + 1..L) /\ ~(s \in i + 1..L)
      BY <2>1, <2>2 DEF LastIn
    <3> QED
      BY <1>2, <1>6, <3>1
  <2>3. NodeFailed(s) <=> MainFails(n) \/ Fails(s, "always")
    <3>1. MainFails(n) <=> (Fails(s, "block") /\ b.rescue = <<>>) \/ Fails(s, "rescue")
      BY <1>2, Zenon DEF MainFails
    <3>2. NodeFailed(s) <=> \/ Fails(s, "block") /\ b.rescue = <<>>
                            \/ Fails(s, "rescue") \/ Fails(s, "always")
      BY <1>6, Zenon DEF NodeFailed
    <3> QED
      BY <3>1, <3>2, Zenon
  <2>4. ~FailedBefore(n)
    BY <1>1, <1>2 DEF FlagInv, FlagOf
  <2>5. failed' <=> FailedBefore(n) \/ MainFails(n) \/ Fails(s, "always")
    BY <1>2, FlagLeft
  <2>6. NodeFailed(s) <=> failed'
    BY <2>3, <2>4, <2>5, Zenon
  <2> QED
    BY <2>2, <2>6, Zenon DEF FlagAfter
<1>8. /\ OrderInv' /\ EndInv'
      /\ \A i \in 1..L : i # s => BegunOf(i)'
      /\ \A k \in 1..m : FrameInv(k)'
  <2>1. /\ OrderInv' /\ EndInv'
        /\ \A i \in 1..L : i # s => BegunOf(i)'
        /\ \A k \in 1..Depth' :
              k # n /\ (k = Depth' => FlagAfter(k)) => FrameInv(k)'
    BY <1>1, <1>5, SectionEnded
  <2>2. \A k \in 1..m : k # n
    BY <1>2
  <2> QED
    BY <1>4, <1>7, <2>1, <2>2, Zenon
<1>9. BegunOf(s)'
  <2>1. \A y : ~Open(s, y)'
    <3>1. \A k \in 1..n : stack[k].since = s => k = n
      BY <1>1, <1>2, OneOnStack
    <3>2. \A k \in 1..m : k \in 1..n /\ k # n
      BY <1>2
    <3>3. \A k \in 1..m : stack'[k].since # s
      BY <1>4, <1>5, <3>1, <3>2 DEF SectionCloses
    <3> QED
      BY <1>4, <3>3, Zenon DEF Open
  <2>2. \A y : (Fails(s, y)' <=> Fails(s, y)) /\ (Runs(s, y)' <=> Runs(s, y))
    BY <1>1, SameLog
  <2> QED
    BY <1>1, <1>6, <2>1, <2>2, Zenon DEF BegunOf
<1>10. BegunInv' /\ FramesInv'
  BY <1>1, <1>4, <1>8, <1>9, Zenon DEF BegunInv, FramesInv
<1>11. PlayRunsAsWritten'
  BY <1>1 DEF PlayRunsAsWritten
<1> QED
  BY <1>8, <1>10, <1>11, Zenon DEF PlayInv

(* The end of the walk. *)
LEMMA FinishPlay ==
  ASSUME IInv, PlayInv, Finish, walker = "play"
  PROVE  PlayInv'
<1>1. /\ status = "run" /\ Base /\ NestInv /\ AlwaysInv
      /\ OrderInv /\ EndInv /\ BegunInv
      /\ SectionOver /\ Top.sec = "top" /\ status' = "done"
      /\ UNCHANGED <<walker, list, stack, failed, log>>
  BY DEF IInv, RunInv, AInv, PlayInv, Finish, SectionOver
<1>2. Depth = 1 /\ Top = stack[1] /\ Top.since = 0 /\ Len(log) \in Nat
  <2>1. Depth \in Nat /\ Depth \in 1..Depth /\ Top = stack[Depth] /\ Len(log) \in Nat
    BY <1>1, Bounds
  <2>2. Depth = 1
    BY <1>1, <2>1 DEF Base, GoodFrame, Depth
  <2> QED
    BY <1>1, <2>1, <2>2 DEF NestInv, Depth
<1>3. \A x, y : Open(x, y) <=> x = 0 /\ y = "top"
  BY <1>1, <1>2 DEF Open
<1>4. /\ \A i \in 1..Len(log) : InSection(i, 0, "top") => EndsRight(i)
      /\ list # <<>> => Runs(0, "top")
  <2>1. Contents(0, "top") = list
    BY DEF Contents
  <2> QED
    BY <1>1, <1>2, <2>1, EndFacts
<1>5. \A i \in 1..Len(log) : EndsRight(i)
  BY <1>1, <1>3, <1>4, Zenon DEF EndInv, EndOf, InSection
<1>6. ASSUME NEW i \in 1..Len(log), log[i].out = "entered"
      PROVE  /\ log[i].node.block # <<>> => Runs(i, "block")
             /\ Runs(i, "rescue") <=> Fails(i, "block") /\ log[i].node.rescue # <<>>
             /\ log[i].node.always # <<>> => Runs(i, "always")
  <2>1. \A y : ~Open(i, y)
    BY <1>2, <1>3
  <2>2. BegunOf(i)
    BY <1>1 DEF BegunInv
  <2>3. /\ log[i].node.block # <<>> => Runs(i, "block")
        /\ Runs(i, "rescue") <=> Fails(i, "block") /\ log[i].node.rescue # <<>>
    BY <1>6, <2>1, <2>2, Zenon DEF BegunOf
  <2>4. ASSUME log[i].node.always # <<>> PROVE Runs(i, "always")
    <3>1. \A k \in 2..Depth : FALSE
      BY <1>2
    <3>2. PICK j \in i + 1..Len(log) : Follows(j, i)
      BY <1>1, <1>6, <2>4, <3>1, Zenon DEF AlwaysInv, AlwaysOf
    <3>3. j \in 1..Len(log)
      BY <1>2
    <3> QED
      BY <3>2, <3>3 DEF Follows, Runs, InSection
  <2> QED
    BY <2>3, <2>4
<1>7. /\ \A x, y : (Fails(x, y)' <=> Fails(x, y)) /\ (Runs(x, y)' <=> Runs(x, y))
      /\ \A i : EndsRight(i)' <=> EndsRight(i)
      /\ OrderInv'
  BY <1>1, SameLog
<1>8. PlayRunsAsWritten'
  <2>1. /\ list' = list /\ log' = log
        /\ \A j \in 1..Len(log) : EndsRight(j)'
        /\ list # <<>> => Runs(0, "top")'
    BY <1>1, <1>4, <1>5, <1>7
  <2>2. \A i \in 1..Len(log) : log[i].out = "entered" =>
          /\ log[i].node.block # <<>> => Runs(i, "block")'
          /\ Runs(i, "rescue")' <=> Fails(i, "block")' /\ log[i].node.rescue # <<>>
          /\ log[i].node.always # <<>> => Runs(i, "always")'
    BY <1>6, <1>7
  <2> QED
    BY <1>7, <2>1, <2>2, Zenon DEF PlayRunsAsWritten, OrderInv
<1> QED
  BY <1>1, <1>8 DEF PlayInv

LEMMA TaskErrPlay ==
  ASSUME TaskErr
  PROVE  PlayInv'
  BY DEF TaskErr, PlayInv, PlayRunsAsWritten

LEMMA StutterPlay ==
  ASSUME PlayInv, UNCHANGED vars
  PROVE  PlayInv'
<1>1. UNCHANGED <<walker, list, stack, failed, status, log>>
  BY DEF vars
<1>2. /\ \A x, y : (Fails(x, y)' <=> Fails(x, y)) /\ (Runs(x, y)' <=> Runs(x, y))
      /\ \A i, x, y : LastIn(i, x, y)' <=> LastIn(i, x, y)
      /\ \A i : /\ NodeFailed(i)' <=> NodeFailed(i)
                /\ EndsRight(i)' <=> EndsRight(i)
                /\ Left(i)' = Left(i)
      /\ \A x, y : Contents(x, y)' = Contents(x, y)
      /\ OrderInv' <=> OrderInv
  BY <1>1, SameLog
<1>3. \A x, y : Open(x, y)' <=> Open(x, y)
  BY <1>1 DEF Open, Depth
<1>4. EndInv => EndInv'
  BY <1>1, <1>2, <1>3, Zenon DEF EndInv, EndOf, Within
<1>5. BegunInv => BegunInv'
  BY <1>1, <1>2, <1>3, Zenon DEF BegunInv, BegunOf
<1>6. FramesInv => FramesInv'
  <2>1. \A k : AtStart(k)' <=> AtStart(k)
    BY <1>1, <1>2, Zenon DEF AtStart, Depth
  <2>2. \A k : AfterLast(k)' <=> AfterLast(k)
    BY <1>1, <1>2, Zenon DEF AfterLast, Depth
  <2>3. \A k : OfBlock(k)' <=> OfBlock(k)
    BY <1>1, <1>2, Zenon DEF OfBlock
  <2> QED
    BY <1>1, <2>1, <2>2, <2>3, Zenon DEF FramesInv, FrameInv, Depth
<1>7. PlayRunsAsWritten => PlayRunsAsWritten'
  <2>1. PlayRunsAsWritten <=>
          (status = "done" /\ walker = "play" =>
             /\ OrderInv /\ \A j \in 1..Len(log) : EndsRight(j)
             /\ list # <<>> => Runs(0, "top")
             /\ \A i \in 1..Len(log) : log[i].out = "entered" =>
                  /\ log[i].node.block # <<>> => Runs(i, "block")
                  /\ Runs(i, "rescue") <=> Fails(i, "block") /\ log[i].node.rescue # <<>>
                  /\ log[i].node.always # <<>> => Runs(i, "always"))
    BY Zenon DEF PlayRunsAsWritten, OrderInv
  <2>2. PlayRunsAsWritten' <=>
          (status = "done" /\ walker = "play" =>
             /\ OrderInv' /\ \A j \in 1..Len(log) : EndsRight(j)'
             /\ list # <<>> => Runs(0, "top")'
             /\ \A i \in 1..Len(log) : log[i].out = "entered" =>
                  /\ log[i].node.block # <<>> => Runs(i, "block")'
                  /\ Runs(i, "rescue")' <=> Fails(i, "block")' /\ log[i].node.rescue # <<>>
                  /\ log[i].node.always # <<>> => Runs(i, "always")')
    BY <1>1, Zenon DEF PlayRunsAsWritten, OrderInv
  <2> QED
    BY <1>2, <2>1, <2>2
<1> QED
  BY <1>1, <1>2, <1>4, <1>5, <1>6, <1>7 DEF PlayInv

LEMMA InitPlay == Init => PlayInv
<1> SUFFICES ASSUME Init PROVE PlayInv
  OBVIOUS
<1>1. PICK f : /\ f.sec = "top" /\ f.todo = list /\ f.since = 0
               /\ stack = <<f>> /\ log = <<>> /\ failed = FALSE /\ status = "run"
  <2>1. PICK f, r, no : /\ no = FALSE /\ r = [kind |-> "none"]
                        /\ f = FrameOf("top", list, r, 0, no, no)
    OBVIOUS
  <2>2. /\ stack = <<f>> /\ log = <<>> /\ failed = FALSE /\ status = "run"
    BY <2>1, Zenon DEF Init, Frame, FrameOf
  <2>3. f.sec = "top" /\ f.todo = list /\ f.since = 0
    BY <2>1, FrameFields
  <2> QED
    BY <2>2, <2>3
<1>2. Len(log) = 0 /\ Depth = 1 /\ stack[1] = f
  BY <1>1 DEF Depth
<1>3. OrderInv /\ EndInv /\ BegunInv
  BY <1>2 DEF OrderInv, EndInv, BegunInv
<1>4. FramesInv
  <2>1. FrameInv(1)
    BY <1>1, <1>2 DEF FrameInv, AtStart, AfterLast, OfBlock, Contents
  <2> QED
    BY <1>2, <2>1 DEF FramesInv
<1> QED
  BY <1>1, <1>3, <1>4 DEF PlayInv, PlayRunsAsWritten

LEMMA StepPlay == IInv /\ PlayInv /\ [Next]_vars => PlayInv'
<1> SUFFICES ASSUME IInv, PlayInv, [Next]_vars PROVE PlayInv'
  OBVIOUS
<1>1. IInv'
  BY StepIInv
<1>2. CASE UNCHANGED vars
  BY <1>2, StutterPlay
<1>3. CASE Next /\ walker = "play"
  <2>1. CASE RunTask
    BY <1>1, <1>3, <2>1, RunTaskPlay
  <2>2. CASE TaskErr
    BY <2>2, TaskErrPlay
  <2>3. CASE EnterBlock
    BY <1>1, <1>3, <2>3, EnterBlockPlay
  <2>4. CASE StartRescue
    BY <1>3, <2>4, StartRescuePlay
  <2>5. CASE StartAlways
    BY <1>3, <2>5, StartAlwaysPlay
  <2>6. CASE LeaveBlock
    BY <1>3, <2>6, LeaveBlockPlay
  <2>7. CASE Finish
    BY <1>3, <2>7, FinishPlay
  <2> QED
    BY <1>3, <2>1, <2>2, <2>3, <2>4, <2>5, <2>6, <2>7, Zenon DEF Next
<1>4. CASE Next /\ walker # "play"
  <2>1. walker' = walker
    BY <1>4, Zenon DEF Next, RunTask, TaskErr, EnterBlock, StartRescue, StartAlways,
                       LeaveBlock, Finish
  <2> QED
    BY <1>4, <2>1, StrategyStep
<1> QED
  BY <1>2, <1>3, <1>4

-----------------------------------------------------------------------------
(* What holds of the frames, the log and the flag at every step: IInv. *)
THEOREM Invariance == Spec => []IInv
<1> QED
  BY InitIInv, StepIInv, PTL DEF Spec

(* The types of all the variables, and the stack is a list with blocks in    *)
(* it: TypeOK.                                                               *)
THEOREM TypeCorrect == Spec => []TypeOK
<1>1. IInv => TypeOK
  BY DEF IInv, Base, GoodFrame, TypeOK
<1> QED
  BY <1>1, Invariance, PTL

(* A walk that ends leaves the host failed exactly when a failure was not    *)
(* rescued: FailedFlagExact, for every list of tasks and blocks.             *)
THEOREM FlagExact == Spec => []FailedFlagExact
<1>1. IInv => FailedFlagExact
  BY DEF IInv
<1> QED
  BY <1>1, Invariance, PTL

(* Every block that is entered comes to its always section: AlwaysRuns.      *)
THEOREM AlwaysSectionsRun == Spec => []AlwaysRuns
<1>1. IInv => AlwaysRuns
  <2> SUFFICES ASSUME AlwaysInv, status = "done"
               PROVE  AlwaysRuns
    BY DEF IInv, AInv, AlwaysRuns
  <2>1. \A i \in 1..Len(log) : log[i].out = "entered" /\ log[i].node.always # <<>> =>
          \E j \in i + 1..Len(log) : Follows(j, i)
    BY DEF AlwaysInv, AlwaysOf
  <2> QED
    BY <2>1, Zenon DEF AlwaysRuns, Follows
<1> QED
  BY <1>1, Invariance, PTL

(* run_block and run_task_list run the nodes that a list with blocks calls   *)
(* for and in their order, each section up to its first failure, rescue only *)
(* after one, and every always section: PlayRunsAsWritten.                   *)
THEOREM RunsAsWritten == Spec => []PlayRunsAsWritten
<1>1. PlayInv => PlayRunsAsWritten
  BY DEF PlayInv
<1> QED
  BY <1>1, InitIInv, StepIInv, InitPlay, StepPlay, PTL DEF Spec
=============================================================================
