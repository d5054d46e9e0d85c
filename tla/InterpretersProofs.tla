------------------------- MODULE InterpretersProofs -------------------------
(***************************************************************************)
(* Proofs about Interpreters, for every set of threads, interpreters and   *)
(* imports.  The argument is about the frames of the threads: what a frame *)
(* can be above, which life its interpreter has, who is inside Atom.lock   *)
(* and holds an interpreter.lock.  What a thread has read under Atom.lock  *)
(* is current until it leaves, and identifiers are given once, so that the *)
(* row of an interpreter is changed by its own imports only.               *)
(***************************************************************************)
EXTENDS Interpreters, SequenceTheorems, TLAPS

\* The frames that there can be, ...
Legal(f) ==
  \/ f.op = "init" /\ f.at \in {"enter", "inside", "load"}
  \/ /\ f.op = "import" /\ f.at \in {"enter", "inside", "link", "append"}
     /\ <<f.name, f.handler>> \in Imports[f.on] /\ f.name \in Name /\ f.handler \in Handler
  \/ /\ f.op = "unimport" /\ f.at \in {"enter", "inside"}
     /\ <<f.name, f.handler>> \in Imports[f.on] /\ f.name \in Name
  \/ f.op = "call" /\ f.at \in {"find", "compile", "start", "found", "run"}
  \/ f.op = "host" /\ f.at \in {"enter", "inside"} /\ f.name \in Name
  \/ f.op = "host" /\ f.at = "handler" /\ f.name \in Name /\ f.handler \in Handler
  \/ f.op = "deinit" /\ f.at \in {"enter", "inside"}

\* ... those that can be below another one, and the stacks of them.
Calling(f) ==
  \/ f.op = "call" /\ f.at \in {"start", "run"}
  \/ f.op = "host" /\ f.at = "handler"

Nested(s) ==
  /\ \A k \in 1..Len(s) : Legal(s[k])
  /\ \A k \in 1..Len(s) : k < Len(s) => Calling(s[k])
  /\ \A k \in 1..Len(s) : s[k].op = "host" => k > 1 /\ s[k - 1].op = "call"

StacksNested == \A t \in Thread : Nested(stack[t])

\* Every frame, by thread and depth.
Frames == UNION {{t} \X (1..Len(stack[t])) : t \in Thread}
At(p) == stack[p[1]][p[2]]

LifeFor(op) == CASE op = "init" -> "loading" [] op = "deinit" -> "freed" [] OTHER -> "alive"

\* Interpreters live while they are used, ...
FramesLive == \A p \in Frames : life[At(p).on] = LifeFor(At(p).op)

\* ... by the threads that may, ...
FramesOfUsers == \A p \in Frames : p[1] \in Users[At(p).on]

\* ... and by one frame while they are made or freed.
SoleFrame ==
  \A p, q \in Frames : At(p).op \in {"init", "deinit"} /\ At(q).on = At(p).on => p = q

\* What a block is called for is linked.
HostLinked == \A p \in Frames : At(p).op = "host" => At(p).name \in linked[At(p).on]

\* Identifiers are given before there are rows for them, once.
IdsGiven ==
  /\ \A i \in Interp : id[i] <= nextId
  /\ \A i, j \in Interp : id[i] = id[j] /\ id[i] # 0 => i = j
  /\ \A i \in Interp : life[i] = "new" => id[i] = 0
  /\ \A i \in Interp : life[i] \in {"alive", "freed"} => id[i] # 0
  /\ \A p \in Frames : At(p).op = "init" => (At(p).at = "load" <=> id[At(p).on] # 0)
  /\ \A k \in 1..MaxId : k > nextId => cache[k] = EmptyRow

\* Who is inside Atom.lock has seen what is still there.
SeenCurrent ==
  \A p \in Frames : At(p).at = "inside" =>
    atom = p[1] /\ seen[p[1]] = [id |-> nextId, cache |-> cache]

\* Who holds interpreter.lock is in function(named:).
Finding(f, i) == f.op = "call" /\ f.on = i /\ f.at \in {"compile", "start", "found"}
LockHeld ==
  \A i \in Interp : lock[i] # NoThread =>
    \E p \in Frames : p[1] = lock[i] /\ Finding(At(p), i)

Shape == StacksNested /\ FramesLive /\ FramesOfUsers /\ SoleFrame

IInv ==
  /\ TypeOK /\ Shape /\ HostLinked
  /\ IdsGiven /\ SeenCurrent /\ LockHeld /\ RelockOnlyInStart

------------------------------------------------------------------------------
(* Stacks *)

LEMMA NestedCut ==
  ASSUME NEW s \in Seq(Frame), NEW n \in 0..Len(s), Nested(s)
  PROVE  Nested(SubSeq(s, 1, n))
<1> DEFINE c == SubSeq(s, 1, n)
<1>1. Len(c) = n /\ n <= Len(s) /\ \A k \in 1..n : c[k] = s[k]
  BY SubSeqProperties
<1> HIDE DEF c
<1>2. \A k \in 1..n : k \in 1..Len(s) /\ (k < n => k < Len(s))
  OBVIOUS
<1>3. \A k \in 1..n : k > 1 => k - 1 \in 1..n
  OBVIOUS
<1>4. Nested(c)
  BY <1>1, <1>2, <1>3 DEF Nested
<1> QED
  BY <1>4 DEF c

LEMMA NestedPush ==
  ASSUME NEW s \in Seq(Frame), Nested(s), NEW f \in Frame, Legal(f),
         s # <<>> => Calling(s[Len(s)]),
         f.op = "host" => s # <<>> /\ s[Len(s)].op = "call"
  PROVE  Nested(Append(s, f))
<1> DEFINE c == Append(s, f)
<1>1. /\ Len(s) \in Nat /\ Len(c) = Len(s) + 1 /\ c[Len(s) + 1] = f
      /\ \A k \in 1..Len(s) : c[k] = s[k]
  BY AppendProperties
<1>2. \A k \in 1..Len(c) : k \in 1..Len(s) \/ k = Len(s) + 1
  BY <1>1
<1>3. s # <<>> => Len(s) \in 1..Len(s)
  BY <1>1
<1>4. s = <<>> => Len(s) = 0
  OBVIOUS
<1> HIDE DEF c
<1>5. \A k \in 1..Len(c) : Legal(c[k])
  BY <1>1, <1>2 DEF Nested
<1>6. ASSUME NEW k \in 1..Len(c), k < Len(c) PROVE Calling(c[k])
  <2>1. k \in 1..Len(s) /\ c[k] = s[k]
    BY <1>1, <1>2, <1>6
  <2>2. CASE k < Len(s)
    BY <2>1, <2>2 DEF Nested
  <2>3. CASE k = Len(s)
    BY <2>1, <2>3, <1>4
  <2> QED
    BY <1>1, <2>1, <2>2, <2>3
<1>7. ASSUME NEW k \in 1..Len(c), c[k].op = "host" PROVE k > 1 /\ c[k - 1].op = "call"
  <2>1. CASE k \in 1..Len(s)
    <3>1. k > 1 /\ s[k - 1].op = "call"
      BY <1>1, <1>7, <2>1 DEF Nested
    <3> QED
      BY <1>1, <2>1, <3>1
  <2>2. CASE k = Len(s) + 1
    BY <1>1, <1>3, <1>7, <2>2
  <2> QED
    BY <1>2, <2>1, <2>2
<1>8. Nested(c)
  BY <1>5, <1>6, <1>7 DEF Nested
<1> QED
  BY <1>8 DEF c

\* What a thread does to its stack: it returns to its lower n frames, ...
Cut(t, n) == stack' = [stack EXCEPT ![t] = SubSeq(stack[t], 1, n)]

\* ... and may then go on in a new frame.
Stacked(t, n, f) == stack' = [stack EXCEPT ![t] = Append(SubSeq(stack[t], 1, n), f)]

\* The frames that stay.
Kept(t, n) == {p \in Frames : p[1] # t \/ p[2] <= n}

LEMMA CutFrames ==
  ASSUME stack \in [Thread -> Seq(Frame)], NEW t \in Thread, NEW n \in 0..Len(stack[t]),
         Cut(t, n)
  PROVE  /\ stack' \in [Thread -> Seq(Frame)]
         /\ Frames' = Kept(t, n) /\ \A p \in Kept(t, n) : At(p)' = At(p)
<1>1. /\ stack'[t] \in Seq(Frame) /\ Len(stack'[t]) = n
      /\ \A k \in 1..n : stack'[t][k] = stack[t][k]
  BY SubSeqProperties DEF Cut
<1>2. \A u \in Thread : u # t => stack'[u] = stack[u]
  BY DEF Cut
<1>3. stack' \in [Thread -> Seq(Frame)]
  BY <1>1 DEF Cut
<1>4. 1..n = {k \in 1..Len(stack[t]) : k <= n}
  OBVIOUS
<1>5. Frames' = Kept(t, n)
  BY <1>1, <1>2, <1>4 DEF Frames, Kept
<1>6. \A p \in Kept(t, n) : At(p)' = At(p)
  BY <1>1, <1>2, <1>4 DEF Frames, Kept, At
<1> QED
  BY <1>3, <1>5, <1>6

LEMMA StackedFrames ==
  ASSUME stack \in [Thread -> Seq(Frame)], NEW t \in Thread, NEW n \in 0..Len(stack[t]),
         NEW f \in Frame, Stacked(t, n, f)
  PROVE  /\ stack' \in [Thread -> Seq(Frame)]
         /\ Frames' = Kept(t, n) \cup {<<t, n + 1>>}
         /\ \A p \in Kept(t, n) : At(p)' = At(p)
         /\ At(<<t, n + 1>>)' = f
         /\ <<t, n + 1>> \notin Kept(t, n)
<1> DEFINE c == SubSeq(stack[t], 1, n)
<1>1. c \in Seq(Frame) /\ Len(c) = n /\ \A k \in 1..n : c[k] = stack[t][k]
  BY SubSeqProperties
<1> HIDE DEF c
<1>2. stack'[t] = Append(c, f)
  BY DEF Stacked, c
<1>3. /\ stack'[t] \in Seq(Frame) /\ Len(stack'[t]) = n + 1 /\ stack'[t][n + 1] = f
      /\ \A k \in 1..n : stack'[t][k] = stack[t][k]
  <2>1. /\ Append(c, f) \in Seq(Frame) /\ Len(Append(c, f)) = n + 1
        /\ Append(c, f)[n + 1] = f
    BY <1>1, AppendProperties
  <2>2. \A k \in 1..n : Append(c, f)[k] = stack[t][k]
    BY <1>1, AppendProperties
  <2> QED
    BY <2>1, <2>2, <1>2
<1>4. \A u \in Thread : u # t => stack'[u] = stack[u]
  BY DEF Stacked
<1>5. stack' \in [Thread -> Seq(Frame)]
  BY <1>3 DEF Stacked
<1>6. 1..(n + 1) = {k \in 1..Len(stack[t]) : k <= n} \cup {n + 1}
  OBVIOUS
<1>7. Frames' = Kept(t, n) \cup {<<t, n + 1>>}
  BY <1>3, <1>4, <1>6 DEF Frames, Kept
<1>8. \A p \in Kept(t, n) : At(p)' = At(p)
  BY <1>3, <1>4, <1>6 DEF Frames, Kept, At
<1>9. <<t, n + 1>> \notin Kept(t, n)
  BY DEF Kept
<1> QED
  BY <1>3, <1>5, <1>7, <1>8, <1>9 DEF At

LEMMA PushStacked ==
  ASSUME stack \in [Thread -> Seq(Frame)], NEW t \in Thread, NEW f, Push(t, f)
  PROVE  Len(stack[t]) \in 0..Len(stack[t]) /\ Stacked(t, Len(stack[t]), f)
<1>1. SubSeq(stack[t], 1, Len(stack[t])) = stack[t]
  BY SubSeqFull
<1>2. Len(stack[t]) \in Nat
  OBVIOUS
<1> DEFINE c == SubSeq(stack[t], 1, Len(stack[t]))
<1>3. stack' = [stack EXCEPT ![t] = Append(c, f)]
  <2>1. c = stack[t]
    BY <1>1
  <2> HIDE DEF c
  <2> QED
    BY <2>1 DEF Push
<1> QED
  BY <1>2, <1>3 DEF Stacked

LEMMA Tops ==
  ASSUME IInv, NEW t \in Thread, stack[t] # <<>>
  PROVE  /\ stack \in [Thread -> Seq(Frame)] /\ stack[t] \in Seq(Frame)
         /\ Len(stack[t]) \in Nat /\ Len(stack[t]) > 0
         /\ Len(stack[t]) - 1 \in 0..Len(stack[t])
         /\ <<t, Len(stack[t])>> \in Frames /\ At(<<t, Len(stack[t])>>) = Top(t)
         /\ <<t, Len(stack[t])>> \notin Kept(t, Len(stack[t]) - 1)
         /\ Kept(t, Len(stack[t]) - 1) = Frames \ {<<t, Len(stack[t])>>}
         /\ Top(t) \in Frame /\ Legal(Top(t)) /\ Top(t).on \in Interp /\ Top(t).at \in Place
         /\ life[Top(t).on] = LifeFor(Top(t).op)
<1>1. /\ stack \in [Thread -> Seq(Frame)] /\ stack[t] \in Seq(Frame)
      /\ Len(stack[t]) \in Nat /\ Len(stack[t]) > 0
  BY DEF IInv, TypeOK
<1>2. Len(stack[t]) \in 1..Len(stack[t])
  BY <1>1
<1>3. <<t, Len(stack[t])>> \in Frames /\ At(<<t, Len(stack[t])>>) = Top(t)
  BY <1>2 DEF Frames, At, Top
<1>4. Top(t) \in Frame /\ Legal(Top(t))
  BY <1>1, <1>2 DEF Top, IInv, Shape, StacksNested, Nested
<1>5. Top(t).on \in Interp /\ Top(t).at \in Place
  BY <1>4 DEF Frame
<1>6. Kept(t, Len(stack[t]) - 1) = Frames \ {<<t, Len(stack[t])>>}
  <2>1. \A p \in Frames : p = <<p[1], p[2]>> /\ (p[1] = t => p[2] \in 1..Len(stack[t]))
    BY DEF Frames
  <2>2. \A k \in 1..Len(stack[t]) : k <= Len(stack[t]) - 1 <=> k # Len(stack[t])
    BY <1>1
  <2> QED
    BY <2>1, <2>2 DEF Kept
<1>7. Len(stack[t]) - 1 \in 0..Len(stack[t])
  BY <1>1
<1>8. life[Top(t).on] = LifeFor(Top(t).op)
  BY <1>3 DEF IInv, Shape, FramesLive
<1> QED
  BY <1>1, <1>3, <1>4, <1>5, <1>6, <1>7, <1>8

LEMMA FrameTypes ==
  ASSUME IInv, NEW p \in Frames
  PROVE  /\ p[1] \in Thread /\ p = <<p[1], p[2]>>
         /\ At(p) \in Frame /\ At(p).on \in Interp /\ At(p).op \in Op /\ Legal(At(p))
         /\ p[2] \in 1..Len(stack[p[1]])
         /\ p[2] < Len(stack[p[1]]) => Calling(At(p))
<1>1. PICK t \in Thread : p \in {t} \X (1..Len(stack[t]))
  BY DEF Frames
<1>2. p[1] = t /\ p[2] \in 1..Len(stack[t]) /\ p = <<p[1], p[2]>>
  BY <1>1
<1>3. stack[t] \in Seq(Frame) /\ Nested(stack[t])
  BY DEF IInv, TypeOK, Shape, StacksNested
<1>4. At(p) \in Frame /\ Legal(At(p)) /\ (p[2] < Len(stack[p[1]]) => Calling(At(p)))
  BY <1>2, <1>3 DEF At, Nested
<1>5. At(p).on \in Interp /\ At(p).op \in Op
  BY <1>4 DEF Frame
<1> QED
  BY <1>2, <1>4, <1>5

\* One frame at most is inside Atom.lock.
LEMMA OneInside ==
  ASSUME IInv, NEW p \in Frames, NEW q \in Frames, At(p).at = "inside", At(q).at = "inside"
  PROVE  p = q
<1>1. p[1] = q[1]
  BY DEF IInv, SeenCurrent
<1>2. ~Calling(At(p)) /\ ~Calling(At(q))
  BY DEF Calling
<1>3. /\ p[1] \in Thread /\ p = <<p[1], p[2]>> /\ q = <<q[1], q[2]>>
      /\ p[2] \in 1..Len(stack[p[1]]) /\ q[2] \in 1..Len(stack[p[1]])
      /\ ~(p[2] < Len(stack[p[1]])) /\ ~(q[2] < Len(stack[p[1]]))
  BY <1>1, <1>2, FrameTypes
<1>4. Len(stack[p[1]]) \in Nat
  BY <1>3 DEF IInv, TypeOK
<1> QED
  BY <1>1, <1>3, <1>4

LEMMA PopCut ==
  ASSUME NEW t \in Thread, Pop(t)
  PROVE  Cut(t, Len(stack[t]) - 1)
BY DEF Pop, Below, Cut

LEMMA GoToStacked ==
  ASSUME NEW t \in Thread, NEW f, GoTo(t, f)
  PROVE  Stacked(t, Len(stack[t]) - 1, f)
BY DEF GoTo, Below, Stacked

\* A frame on top of those that may be below it keeps the shape of the stacks.
LEMMA ShapeStacked ==
  ASSUME IInv, NEW t \in Thread, NEW n \in 0..Len(stack[t]), NEW f \in Frame,
         Stacked(t, n, f), Legal(f), t \in Users[f.on],
         n # 0 => Calling(stack[t][n]),
         f.op = "host" => n # 0 /\ stack[t][n].op = "call",
         \A p \in Kept(t, n) : life'[At(p).on] = life[At(p).on],
         life'[f.on] = LifeFor(f.op),
         \A p \in Kept(t, n) :
           At(p).on = f.on => f.op \notin {"init", "deinit"} /\ At(p).op \notin {"init", "deinit"}
  PROVE  Shape'
<1>1. stack \in [Thread -> Seq(Frame)] /\ stack[t] \in Seq(Frame) /\ Len(stack[t]) \in Nat
  BY DEF IInv, TypeOK
<1>2. /\ Frames' = Kept(t, n) \cup {<<t, n + 1>>}
      /\ \A p \in Kept(t, n) : At(p)' = At(p)
      /\ At(<<t, n + 1>>)' = f
  BY <1>1, StackedFrames
<1>3. StacksNested'
  <2> DEFINE c == SubSeq(stack[t], 1, n)
  <2>1. c \in Seq(Frame) /\ Len(c) = n /\ \A k \in 1..n : c[k] = stack[t][k]
    BY <1>1, SubSeqProperties
  <2>2. Nested(c)
    BY <1>1, NestedCut DEF IInv, Shape, StacksNested
  <2>3. stack'[t] = Append(c, f) /\ \A u \in Thread : u # t => stack'[u] = stack[u]
    BY <1>1 DEF Stacked
  <2>4. c # <<>> => n # 0 /\ c[Len(c)] = stack[t][n]
    BY <2>1
  <2>5. n # 0 => c # <<>> /\ c[Len(c)] = stack[t][n]
    BY <2>1
  <2> HIDE DEF c
  <2>6. c # <<>> => Calling(c[Len(c)])
    BY <2>4
  <2>7. f.op = "host" => c # <<>> /\ c[Len(c)].op = "call"
    BY <2>5
  <2>8. Nested(Append(c, f))
    BY <2>1, <2>2, <2>6, <2>7, NestedPush
  <2> QED
    BY <2>3, <2>8 DEF IInv, Shape, StacksNested
<1>4. FramesLive'
  BY <1>2 DEF FramesLive, IInv, Shape, Kept
<1>5. FramesOfUsers'
  BY <1>2 DEF FramesOfUsers, IInv, Shape, Kept
<1>6. SoleFrame'
  BY <1>2 DEF SoleFrame, IInv, Shape, Kept
<1> QED
  BY <1>3, <1>4, <1>5, <1>6 DEF Shape

LEMMA ShapeCut ==
  ASSUME IInv, NEW t \in Thread, NEW n \in 0..Len(stack[t]), Cut(t, n),
         \A p \in Kept(t, n) : life'[At(p).on] = life[At(p).on]
  PROVE  Shape'
<1>1. stack \in [Thread -> Seq(Frame)] /\ stack[t] \in Seq(Frame) /\ Len(stack[t]) \in Nat
  BY DEF IInv, TypeOK
<1>2. Frames' = Kept(t, n) /\ \A p \in Kept(t, n) : At(p)' = At(p)
  BY <1>1, CutFrames
<1>3. StacksNested'
  <2>1. Nested(SubSeq(stack[t], 1, n))
    BY <1>1, NestedCut DEF IInv, Shape, StacksNested
  <2>2. /\ stack'[t] = SubSeq(stack[t], 1, n)
        /\ \A u \in Thread : u # t => stack'[u] = stack[u]
    BY <1>1 DEF Cut
  <2> QED
    BY <2>1, <2>2 DEF IInv, Shape, StacksNested
<1>4. FramesLive' /\ FramesOfUsers' /\ SoleFrame'
  BY <1>2 DEF FramesLive, FramesOfUsers, SoleFrame, IInv, Shape, Kept
<1> QED
  BY <1>3, <1>4 DEF Shape

\* The frame on top goes on.
LEMMA ShapeMove ==
  ASSUME IInv, NEW t \in Thread, stack[t] # <<>>, NEW f \in Frame, GoTo(t, f),
         Legal(f), f.on = Top(t).on, UNCHANGED life,
         f.op = Top(t).op \/ {f.op, Top(t).op} \subseteq {"import", "unimport"}
  PROVE  Shape'
<1> DEFINE n == Len(stack[t]) - 1
<1>1. n \in 0..Len(stack[t]) /\ Stacked(t, n, f)
  BY Tops, GoToStacked
<1>2. /\ <<t, Len(stack[t])>> \in Frames /\ At(<<t, Len(stack[t])>>) = Top(t)
      /\ Kept(t, n) = Frames \ {<<t, Len(stack[t])>>}
      /\ life[Top(t).on] = LifeFor(Top(t).op)
  BY Tops
<1>3. t \in Users[f.on]
  BY <1>2 DEF IInv, Shape, FramesOfUsers
<1>4. Nested(stack[t]) /\ Len(stack[t]) \in 1..Len(stack[t]) /\ n + 1 = Len(stack[t])
  BY Tops DEF IInv, Shape, StacksNested
<1>5. n # 0 => Calling(stack[t][n])
  <2>1. Len(stack[t]) \in Nat /\ Len(stack[t]) > 0
    BY Tops
  <2>2. \A l \in Nat : l > 0 => (l - 1 # 0 => l - 1 \in 1..l /\ l - 1 < l)
    OBVIOUS
  <2>3. n # 0 => n \in 1..Len(stack[t]) /\ n < Len(stack[t])
    BY <2>1, <2>2
  <2> HIDE DEF n
  <2> QED
    BY <2>3, <1>4 DEF Nested
<1>6. f.op = "host" => n # 0 /\ stack[t][n].op = "call"
  BY <1>1, <1>4 DEF Nested, Top
<1>7. life'[f.on] = LifeFor(f.op)
  BY <1>2 DEF LifeFor
<1>8. \A p \in Kept(t, n) :
        At(p).on = f.on => f.op \notin {"init", "deinit"} /\ At(p).op \notin {"init", "deinit"}
  BY <1>2 DEF IInv, Shape, SoleFrame
<1> HIDE DEF n
<1> QED
  BY <1>1, <1>3, <1>5, <1>6, <1>7, <1>8, ShapeStacked

\* A frame is added to an interpreter that is alive.
LEMMA ShapePush ==
  ASSUME IInv, NEW t \in Thread, NEW f \in Frame, Push(t, f), Legal(f), t \in Users[f.on],
         stack[t] # <<>> => Calling(Top(t)),
         f.op = "host" => stack[t] # <<>> /\ Top(t).op = "call",
         f.op \notin {"init", "deinit"}, life[f.on] = "alive", UNCHANGED life
  PROVE  Shape'
<1> DEFINE n == Len(stack[t])
<1>1. stack \in [Thread -> Seq(Frame)]
  BY DEF IInv, TypeOK
<1>2. n \in 0..Len(stack[t]) /\ Stacked(t, n, f)
  BY <1>1, PushStacked
<1>3. n # 0 => stack[t] # <<>> /\ Top(t) = stack[t][n]
  BY <1>1 DEF Top
<1>4. stack[t] # <<>> => n # 0
  BY <1>1
<1>5. life'[f.on] = LifeFor(f.op)
  BY DEF LifeFor
<1>6. \A p \in Kept(t, n) : At(p).on = f.on => At(p).op \notin {"init", "deinit"}
  BY DEF IInv, Shape, FramesLive, LifeFor, Kept
<1> HIDE DEF n
<1> QED
  BY <1>2, <1>3, <1>4, <1>5, <1>6, ShapeStacked

\* What the three ways to change a stack do to the frames.
LEMMA Moves ==
  ASSUME IInv, NEW t \in Thread, stack[t] # <<>>, NEW f \in Frame, GoTo(t, f)
  PROVE  \E z \in Frames :
            /\ stack' \in [Thread -> Seq(Frame)]
            /\ z[1] = t /\ z[2] = Len(stack[t]) /\ At(z) = Top(t) /\ At(z)' = f
            /\ Frames' = Frames /\ \A p \in Frames \ {z} : At(p)' = At(p)
<1>1. PICK n \in Nat : n = Len(stack[t]) - 1 /\ n \in 0..Len(stack[t]) /\ n + 1 = Len(stack[t])
  <2>1. Len(stack[t]) \in Nat /\ Len(stack[t]) > 0
    BY Tops
  <2>2. \A l \in Nat : l > 0 => l - 1 \in Nat /\ l - 1 \in 0..l /\ (l - 1) + 1 = l
    OBVIOUS
  <2> QED
    BY <2>1, <2>2
<1>2. Stacked(t, n, f)
  BY <1>1, GoToStacked
<1>3. stack \in [Thread -> Seq(Frame)]
  BY DEF IInv, TypeOK
<1>4. /\ stack' \in [Thread -> Seq(Frame)]
      /\ Frames' = Kept(t, n) \cup {<<t, n + 1>>}
      /\ \A p \in Kept(t, n) : At(p)' = At(p)
      /\ At(<<t, n + 1>>)' = f
  BY <1>1, <1>2, <1>3, StackedFrames
<1>5. /\ Kept(t, n) = Frames \ {<<t, n + 1>>} /\ <<t, n + 1>> \in Frames
      /\ At(<<t, n + 1>>) = Top(t)
  BY <1>1, Tops
<1> DEFINE z == <<t, n + 1>>
<1>6. /\ z \in Frames /\ z[1] = t /\ z[2] = Len(stack[t]) /\ At(z) = Top(t) /\ At(z)' = f
      /\ Frames' = Frames /\ \A p \in Frames \ {z} : At(p)' = At(p)
  BY <1>1, <1>4, <1>5
<1> HIDE DEF z
<1> QED
  BY <1>4, <1>6

LEMMA Pops ==
  ASSUME IInv, NEW t \in Thread, stack[t] # <<>>, Pop(t)
  PROVE  \E z \in Frames :
            /\ stack' \in [Thread -> Seq(Frame)]
            /\ z[1] = t /\ z[2] = Len(stack[t]) /\ At(z) = Top(t)
            /\ Frames' = Frames \ {z} /\ \A p \in Frames \ {z} : At(p)' = At(p)
<1>1. PICK n \in Nat : n = Len(stack[t]) - 1 /\ n \in 0..Len(stack[t]) /\ n + 1 = Len(stack[t])
  <2>1. Len(stack[t]) \in Nat /\ Len(stack[t]) > 0
    BY Tops
  <2>2. \A l \in Nat : l > 0 => l - 1 \in Nat /\ l - 1 \in 0..l /\ (l - 1) + 1 = l
    OBVIOUS
  <2> QED
    BY <2>1, <2>2
<1>2. Cut(t, n)
  BY <1>1, PopCut
<1>3. stack \in [Thread -> Seq(Frame)]
  BY DEF IInv, TypeOK
<1>4. /\ stack' \in [Thread -> Seq(Frame)]
      /\ Frames' = Kept(t, n) /\ \A p \in Kept(t, n) : At(p)' = At(p)
  BY <1>1, <1>2, <1>3, CutFrames
<1>5. /\ Kept(t, n) = Frames \ {<<t, n + 1>>} /\ <<t, n + 1>> \in Frames
      /\ At(<<t, n + 1>>) = Top(t)
  BY <1>1, Tops
<1> DEFINE z == <<t, n + 1>>
<1>6. /\ z \in Frames /\ z[1] = t /\ z[2] = Len(stack[t]) /\ At(z) = Top(t)
      /\ Frames' = Frames \ {z} /\ \A p \in Frames \ {z} : At(p)' = At(p)
  BY <1>1, <1>4, <1>5
<1> HIDE DEF z
<1> QED
  BY <1>4, <1>6

LEMMA Pushes ==
  ASSUME IInv, NEW t \in Thread, NEW f \in Frame, Push(t, f)
  PROVE  \E z : /\ stack' \in [Thread -> Seq(Frame)]
                /\ z \notin Frames /\ z[1] = t /\ At(z)' = f
                /\ Frames' = Frames \cup {z} /\ \A p \in Frames : At(p)' = At(p)
<1>1. stack \in [Thread -> Seq(Frame)]
  BY DEF IInv, TypeOK
<1>2. PICK n \in Nat : n = Len(stack[t])
  BY <1>1
<1>3. n \in 0..Len(stack[t]) /\ Stacked(t, n, f)
  BY <1>1, <1>2, PushStacked
<1>4. Kept(t, n) = Frames
  BY <1>1, <1>2 DEF Frames, Kept
<1>5. /\ stack' \in [Thread -> Seq(Frame)]
      /\ Frames' = Kept(t, n) \cup {<<t, n + 1>>}
      /\ \A p \in Kept(t, n) : At(p)' = At(p)
      /\ At(<<t, n + 1>>)' = f
      /\ <<t, n + 1>> \notin Kept(t, n)
  BY <1>1, <1>3, StackedFrames
<1> QED
  BY <1>4, <1>5

\* The frame on top goes on, and nothing that the other frames depend on changes.
LEMMA QuietMove ==
  ASSUME IInv, NEW t \in Thread, stack[t] # <<>>, NEW f \in Frame, GoTo(t, f),
         Legal(f), f.on = Top(t).on,
         f.op = Top(t).op \/ {f.op, Top(t).op} \subseteq {"import", "unimport"},
         f.op # "init", f.op = "host" => f.name = Top(t).name, f.at # "inside",
         UNCHANGED <<nextId, cache, atom, seen, id, life, linked>>
  PROVE  Shape' /\ HostLinked' /\ IdsGiven' /\ SeenCurrent'
<1>1. PICK z \in Frames :
        /\ z[1] = t /\ At(z) = Top(t) /\ At(z)' = f
        /\ Frames' = Frames /\ \A p \in Frames \ {z} : At(p)' = At(p)
  BY Moves
<1>2. Shape'
  BY ShapeMove
<1>3. HostLinked'
  BY <1>1 DEF HostLinked, IInv
<1>4. IdsGiven'
  BY <1>1 DEF IdsGiven, IInv
<1>5. SeenCurrent'
  BY <1>1 DEF SeenCurrent, IInv
<1> QED
  BY <1>2, <1>3, <1>4, <1>5

\* It returns.
LEMMA QuietPop ==
  ASSUME IInv, NEW t \in Thread, stack[t] # <<>>, Pop(t),
         UNCHANGED <<nextId, cache, atom, seen, id, life, linked>>
  PROVE  Shape' /\ HostLinked' /\ IdsGiven' /\ SeenCurrent'
<1>1. PICK z \in Frames : Frames' = Frames \ {z} /\ \A p \in Frames \ {z} : At(p)' = At(p)
  BY Pops
<1>2. Shape'
  BY Tops, PopCut, ShapeCut
<1>3. HostLinked'
  BY <1>1 DEF HostLinked, IInv
<1>4. IdsGiven'
  BY <1>1 DEF IdsGiven, IInv
<1>5. SeenCurrent'
  BY <1>1 DEF SeenCurrent, IInv
<1> QED
  BY <1>2, <1>3, <1>4, <1>5

\* Another is added.
LEMMA QuietPush ==
  ASSUME IInv, NEW t \in Thread, NEW f \in Frame, Push(t, f), Legal(f), t \in Users[f.on],
         stack[t] # <<>> => Calling(Top(t)),
         f.op = "host" => stack[t] # <<>> /\ Top(t).op = "call" /\ f.name \in linked[f.on],
         f.op \notin {"init", "deinit"}, f.at # "inside", life[f.on] = "alive",
         UNCHANGED <<nextId, cache, atom, seen, id, life, linked>>
  PROVE  Shape' /\ HostLinked' /\ IdsGiven' /\ SeenCurrent'
<1>1. PICK z :
        /\ z \notin Frames /\ z[1] = t /\ At(z)' = f
        /\ Frames' = Frames \cup {z} /\ \A p \in Frames : At(p)' = At(p)
  BY Pushes
<1>2. Shape'
  BY ShapePush
<1>3. HostLinked'
  BY <1>1 DEF HostLinked, IInv
<1>4. IdsGiven'
  BY <1>1 DEF IdsGiven, IInv
<1>5. SeenCurrent'
  BY <1>1 DEF SeenCurrent, IInv
<1> QED
  BY <1>2, <1>3, <1>4, <1>5

\* An interpreter.lock that is still held is held by a frame that is still there.
LEMMA LockMove ==
  ASSUME IInv, NEW t \in Thread, stack[t] # <<>>, NEW f \in Frame, GoTo(t, f),
         \A i \in Interp : lock'[i] # NoThread =>
           \/ lock'[i] = lock[i] /\ (Finding(Top(t), i) => Finding(f, i))
           \/ lock'[i] = t /\ Finding(f, i)
  PROVE  LockHeld'
<1>1. PICK z \in Frames :
        /\ z[1] = t /\ At(z) = Top(t) /\ At(z)' = f
        /\ Frames' = Frames /\ \A p \in Frames \ {z} : At(p)' = At(p)
  BY Moves
<1>2. \A i \in Interp : lock[i] # NoThread =>
        \E p \in Frames : p[1] = lock[i] /\ Finding(At(p), i)
  BY DEF IInv, LockHeld
<1>3. SUFFICES ASSUME NEW i \in Interp, lock'[i] # NoThread
               PROVE  \E p \in Frames' : p[1] = lock'[i] /\ Finding(At(p)', i)
  BY DEF LockHeld, Finding
<1>4. CASE lock'[i] = lock[i] /\ (Finding(Top(t), i) => Finding(f, i))
  <2>1. PICK p \in Frames : p[1] = lock[i] /\ Finding(At(p), i)
    BY <1>2, <1>3, <1>4
  <2>2. CASE p = z
    BY <1>1, <1>4, <2>1, <2>2
  <2>3. CASE p # z
    BY <1>1, <1>4, <2>1, <2>3
  <2> QED
    BY <2>2, <2>3
<1>5. CASE lock'[i] = t /\ Finding(f, i)
  BY <1>1, <1>5
<1> QED
  BY <1>3, <1>4, <1>5

LEMMA LockPop ==
  ASSUME IInv, NEW t \in Thread, stack[t] # <<>>, Pop(t),
         \A i \in Interp : lock'[i] # NoThread => lock'[i] = lock[i] /\ ~Finding(Top(t), i)
  PROVE  LockHeld'
<1>1. PICK z \in Frames :
        /\ At(z) = Top(t) /\ Frames' = Frames \ {z} /\ \A p \in Frames \ {z} : At(p)' = At(p)
  BY Pops
<1>2. SUFFICES ASSUME NEW i \in Interp, lock'[i] # NoThread
               PROVE  \E p \in Frames' : p[1] = lock'[i] /\ Finding(At(p)', i)
  BY DEF LockHeld, Finding
<1>3. PICK p \in Frames : p[1] = lock[i] /\ Finding(At(p), i)
  BY <1>2 DEF IInv, LockHeld
<1> QED
  BY <1>1, <1>2, <1>3

LEMMA LockPush ==
  ASSUME IInv, NEW t \in Thread, NEW f \in Frame, Push(t, f), UNCHANGED lock
  PROVE  LockHeld'
<1>1. PICK z : Frames' = Frames \cup {z} /\ \A p \in Frames : At(p)' = At(p)
  BY Pushes
<1>2. SUFFICES ASSUME NEW i \in Interp, lock'[i] # NoThread
               PROVE  \E p \in Frames' : p[1] = lock'[i] /\ Finding(At(p)', i)
  BY DEF LockHeld, Finding
<1>3. PICK p \in Frames : p[1] = lock[i] /\ Finding(At(p), i)
  BY <1>2 DEF IInv, LockHeld
<1> QED
  BY <1>1, <1>2, <1>3

LEMMA WentOn ==
  ASSUME IInv, NEW t \in Thread, stack[t] # <<>>, NEW a \in Place, GoOn(t, a)
  PROVE  \E f \in Frame :
           /\ GoTo(t, f)
           /\ f.op = Top(t).op /\ f.on = Top(t).on /\ f.name = Top(t).name
           /\ f.handler = Top(t).handler /\ f.at = a
<1>1. Top(t) \in Frame
  BY Tops
<1> QED
  BY <1>1 DEF GoOn, Frame

------------------------------------------------------------------------------
(* Actions that neither take nor give back Atom.lock *)

LEMMA BeginImportInv ==
  ASSUME IInv, ~crashed, NEW t \in Thread, NEW i \in Interp, NEW m \in Name, NEW h \in Handler,
         BeginImport(t, i, m, h)
  PROVE  IInv'
<1> DEFINE f == [op |-> "import", on |-> i, name |-> m, handler |-> h, at |-> "enter"]
<1>1. f \in Frame /\ Legal(f) /\ f.on = i /\ f.op = "import" /\ f.at = "enter"
  BY DEF Frame, Op, Place, Legal, BeginImport
<1>2. /\ Push(t, f) /\ t \in Users[i] /\ life[i] = "alive"
      /\ stack[t] # <<>> => Calling(Top(t))
  BY DEF BeginImport, MayCall, Is, Calling
<1>3. UNCHANGED <<nextId, cache, atom, seen, id, life, linked, started, found, lock,
                  registered, crashed>>
  BY DEF BeginImport, shared, objects
<1> HIDE DEF f
<1>4. Shape' /\ HostLinked' /\ IdsGiven' /\ SeenCurrent' /\ LockHeld'
  BY <1>1, <1>2, <1>3, QuietPush, LockPush
<1>5. TypeOK'
  <2>1. stack' \in [Thread -> Seq(Frame)]
    BY <1>1, <1>2, Pushes
  <2> QED
    BY <1>3, <2>1 DEF IInv, TypeOK
<1> QED
  BY <1>3, <1>4, <1>5 DEF IInv, RelockOnlyInStart

LEMMA BeginCallInv ==
  ASSUME IInv, ~crashed, NEW t \in Thread, NEW i \in Interp, BeginCall(t, i)
  PROVE  IInv'
<1> DEFINE f == [op |-> "call", on |-> i, name |-> NoName, handler |-> NoHandler, at |-> "find"]
<1>1. f \in Frame /\ Legal(f) /\ f.on = i /\ f.op = "call" /\ f.at = "find"
  BY DEF Frame, Op, Place, Legal
<1>2. /\ Push(t, f) /\ t \in Users[i] /\ life[i] = "alive"
      /\ stack[t] # <<>> => Calling(Top(t))
  BY DEF BeginCall, MayCall, Is, Calling
<1>3. UNCHANGED <<nextId, cache, atom, seen, id, life, linked, started, found, lock,
                  registered, crashed>>
  BY DEF BeginCall, shared, objects
<1> HIDE DEF f
<1>4. Shape' /\ HostLinked' /\ IdsGiven' /\ SeenCurrent' /\ LockHeld'
  BY <1>1, <1>2, <1>3, QuietPush, LockPush
<1>5. TypeOK'
  <2>1. stack' \in [Thread -> Seq(Frame)]
    BY <1>1, <1>2, Pushes
  <2> QED
    BY <1>3, <2>1 DEF IInv, TypeOK
<1> QED
  BY <1>3, <1>4, <1>5 DEF IInv, RelockOnlyInStart

LEMMA CallImportInv ==
  ASSUME IInv, ~crashed, NEW t \in Thread, NEW m \in Name, CallImport(t, m)
  PROVE  IInv'
<1> DEFINE f == [op |-> "host", on |-> Top(t).on, name |-> m, handler |-> NoHandler,
                 at |-> "enter"]
<1>1. /\ stack[t] # <<>> /\ Top(t).op = "call" /\ Calling(Top(t))
      /\ m \in linked[Top(t).on] /\ Push(t, f)
  BY DEF CallImport, Is, Calling
<1>2. f \in Frame /\ Legal(f) /\ f.on = Top(t).on /\ f.op = "host" /\ f.at = "enter" /\ f.name = m
  BY <1>1, Tops DEF Frame, Op, Place, Legal
<1>3. t \in Users[Top(t).on] /\ life[Top(t).on] = "alive"
  <2>1. \E p \in Frames : p[1] = t /\ At(p) = Top(t)
    <3> DEFINE z == <<t, Len(stack[t])>>
    <3>1. z \in Frames /\ At(z) = Top(t) /\ z[1] = t
      BY <1>1, Tops
    <3> HIDE DEF z
    <3> QED
      BY <3>1
  <2> QED
    BY <1>1, <2>1 DEF IInv, Shape, FramesOfUsers, FramesLive, LifeFor
<1>4. UNCHANGED <<nextId, cache, atom, seen, id, life, linked, started, found, lock,
                  registered, crashed>>
  BY DEF CallImport, shared, objects
<1> HIDE DEF f
<1>5. Shape' /\ HostLinked' /\ IdsGiven' /\ SeenCurrent' /\ LockHeld'
  BY <1>1, <1>2, <1>3, <1>4, QuietPush, LockPush
<1>6. TypeOK'
  <2>1. stack' \in [Thread -> Seq(Frame)]
    BY <1>1, <1>2, Pushes
  <2> QED
    BY <1>4, <2>1 DEF IInv, TypeOK
<1> QED
  BY <1>4, <1>5, <1>6 DEF IInv, RelockOnlyInStart

LEMMA LinkInv ==
  ASSUME IInv, ~crashed, NEW t \in Thread, Link(t)
  PROVE  IInv'
<1>1. stack[t] # <<>> /\ Top(t).op = "import" /\ Top(t).at = "link" /\ GoOn(t, "append")
  BY DEF Link, Is
<1>2. PICK f \in Frame :
        /\ GoTo(t, f)
        /\ f.op = Top(t).op /\ f.on = Top(t).on /\ f.name = Top(t).name
        /\ f.handler = Top(t).handler /\ f.at = "append"
  BY <1>1, WentOn DEF Place
<1>3. Legal(f) /\ f.on \in Interp /\ f.name \in Name /\ f.handler \in Handler
  BY <1>1, <1>2, Tops DEF Legal
<1>4. /\ UNCHANGED <<nextId, cache, atom, seen, id, life, started, found, lock, crashed>>
      /\ linked' = [linked EXCEPT ![f.on] = @ \cup {f.name}]
      /\ registered' = [registered EXCEPT ![f.on][f.name] = f.handler]
  BY <1>2 DEF Link, shared
<1>5. PICK z \in Frames :
        /\ stack' \in [Thread -> Seq(Frame)]
        /\ z[1] = t /\ At(z) = Top(t) /\ At(z)' = f
        /\ Frames' = Frames /\ \A p \in Frames \ {z} : At(p)' = At(p)
  BY <1>1, <1>2, Moves
<1>6. Shape'
  BY <1>1, <1>2, <1>3, <1>4, ShapeMove
<1>7. HostLinked'
  <2>1. \A i \in Interp : linked[i] \subseteq linked'[i]
    BY <1>4 DEF IInv, TypeOK
  <2>2. \A p \in Frames : At(p).on \in Interp
    BY FrameTypes
  <2> QED
    BY <1>1, <1>2, <1>5, <2>1, <2>2 DEF HostLinked, IInv
<1>8. IdsGiven' /\ SeenCurrent'
  BY <1>1, <1>2, <1>4, <1>5 DEF IdsGiven, SeenCurrent, IInv
<1>9. LockHeld'
  BY <1>1, <1>2, <1>4, LockMove DEF Finding
<1>10. TypeOK'
  BY <1>3, <1>4, <1>5 DEF IInv, TypeOK
<1> QED
  BY <1>4, <1>6, <1>7, <1>8, <1>9, <1>10 DEF IInv, RelockOnlyInStart

LEMMA LinkFailsInv ==
  ASSUME IInv, ~crashed, NEW t \in Thread, LinkFails(t)
  PROVE  IInv'
<1> DEFINE f == [Top(t) EXCEPT !.op = "unimport", !.at = "enter"]
<1>1. stack[t] # <<>> /\ Top(t).op = "import" /\ Top(t).at = "link" /\ GoTo(t, f)
  BY DEF LinkFails, Is
<1>2. /\ f \in Frame /\ f.op = "unimport" /\ f.at = "enter" /\ f.on = Top(t).on
      /\ f.name = Top(t).name /\ f.handler = Top(t).handler
  BY <1>1, Tops DEF Frame, Op, Place
<1> HIDE DEF f
<1>3. Legal(f)
  BY <1>1, <1>2, Tops DEF Legal
<1>4. UNCHANGED <<nextId, cache, atom, seen, id, life, linked, started, found, lock,
                  registered, crashed>>
  BY DEF LinkFails, shared, objects
<1>5. Shape' /\ HostLinked' /\ IdsGiven' /\ SeenCurrent'
  BY <1>1, <1>2, <1>3, <1>4, QuietMove
<1>6. LockHeld'
  BY <1>1, <1>2, <1>4, LockMove DEF Finding
<1>7. TypeOK'
  <2>1. stack' \in [Thread -> Seq(Frame)]
    BY <1>1, <1>2, Moves
  <2> QED
    BY <1>4, <2>1 DEF IInv, TypeOK
<1> QED
  BY <1>4, <1>5, <1>6, <1>7 DEF IInv, RelockOnlyInStart

\* A call goes on, and may take or give back the lock.
LEMMA CallMoveInv ==
  ASSUME IInv, ~crashed, NEW t \in Thread, NEW a \in Place,
         stack[t] # <<>>, Top(t).op = "call", GoOn(t, a),
         a \in {"find", "compile", "start", "found", "run"},
         \A i \in Interp : lock'[i] # NoThread =>
           \/ /\ lock'[i] = lock[i]
              /\ Finding(Top(t), i) => a \in {"compile", "start", "found"}
           \/ lock'[i] = t /\ Top(t).on = i /\ a \in {"compile", "start", "found"},
         lock' \in [Interp -> Thread \cup {NoThread}],
         started' \in [Interp -> BOOLEAN], found' \in [Interp -> BOOLEAN],
         UNCHANGED <<nextId, cache, atom, seen, id, life, linked, registered, crashed>>
  PROVE  IInv'
<1>1. PICK f \in Frame :
        /\ GoTo(t, f)
        /\ f.op = Top(t).op /\ f.on = Top(t).on /\ f.name = Top(t).name
        /\ f.handler = Top(t).handler /\ f.at = a
  BY WentOn
<1>2. Legal(f)
  BY <1>1 DEF Legal
<1>3. Shape' /\ HostLinked' /\ IdsGiven' /\ SeenCurrent'
  BY <1>1, <1>2, QuietMove
<1>4. LockHeld'
  <2>1. \A i \in Interp : lock'[i] # NoThread =>
          \/ lock'[i] = lock[i] /\ (Finding(Top(t), i) => Finding(f, i))
          \/ lock'[i] = t /\ Finding(f, i)
    BY <1>1 DEF Finding
  <2> QED
    BY <1>1, <2>1, LockMove
<1>5. TypeOK'
  <2>1. stack' \in [Thread -> Seq(Frame)]
    BY <1>1, Moves
  <2> QED
    BY <2>1 DEF IInv, TypeOK
<1> QED
  BY <1>3, <1>4, <1>5 DEF IInv, RelockOnlyInStart

LEMMA CallStepsInv ==
  ASSUME IInv, ~crashed, NEW t \in Thread,
         FindCached(t) \/ Find(t) \/ Compile(t) \/ StartReturns(t) \/ Found(t)
  PROVE  IInv'
<1> USE DEF Is, Place, Finding, shared, objects
<1>1. lock \in [Interp -> Thread \cup {NoThread}] /\ started \in [Interp -> BOOLEAN]
      /\ found \in [Interp -> BOOLEAN]
  BY DEF IInv, TypeOK
<1>2. stack[t] # <<>> => Top(t).on \in Interp
  BY Tops
<1>3. CASE FindCached(t)
  BY <1>1, <1>3, CallMoveInv DEF FindCached
<1>4. CASE Find(t)
  BY <1>1, <1>2, <1>4, CallMoveInv DEF Find
<1>5. CASE Compile(t)
  BY <1>1, <1>5, CallMoveInv DEF Compile
<1>6. CASE StartReturns(t)
  BY <1>1, <1>2, <1>6, CallMoveInv DEF StartReturns
<1>7. CASE Found(t)
  BY <1>1, <1>2, <1>7, CallMoveInv DEF Found
<1> QED
  BY <1>3, <1>4, <1>5, <1>6, <1>7

\* A frame returns, and may give back the lock.
LEMMA FramePopInv ==
  ASSUME IInv, ~crashed, NEW t \in Thread, stack[t] # <<>>, Pop(t),
         \A i \in Interp : lock'[i] # NoThread => lock'[i] = lock[i] /\ ~Finding(Top(t), i),
         lock' \in [Interp -> Thread \cup {NoThread}],
         UNCHANGED <<nextId, cache, atom, seen, objects, registered, crashed>>
  PROVE  IInv'
<1>1. Shape' /\ HostLinked' /\ IdsGiven' /\ SeenCurrent'
  BY QuietPop DEF objects
<1>2. LockHeld'
  BY LockPop
<1>3. TypeOK'
  <2>1. stack' \in [Thread -> Seq(Frame)]
    BY Pops
  <2> QED
    BY <2>1 DEF IInv, TypeOK, objects
<1> QED
  BY <1>1, <1>2, <1>3 DEF IInv, RelockOnlyInStart

LEMMA ReturnsInv ==
  ASSUME IInv, ~crashed, NEW t \in Thread,
         \/ AppendContext(t) \/ FindFails(t) \/ StartTraps(t)
         \/ HandlerReturns(t) \/ CallReturns(t)
  PROVE  IInv'
<1> USE DEF Is, Finding, shared
<1>1. lock \in [Interp -> Thread \cup {NoThread}]
  BY DEF IInv, TypeOK
<1>2. stack[t] # <<>> => Top(t).on \in Interp
  BY Tops
<1>3. CASE AppendContext(t)
  BY <1>1, <1>3, FramePopInv DEF AppendContext
<1>4. CASE FindFails(t) \/ StartTraps(t)
  BY <1>1, <1>2, <1>4, FramePopInv DEF FindFails, StartTraps, FindThrows
<1>5. CASE HandlerReturns(t)
  BY <1>1, <1>5, FramePopInv DEF HandlerReturns
<1>6. CASE CallReturns(t)
  BY <1>1, <1>6, FramePopInv DEF CallReturns
<1> QED
  BY <1>3, <1>4, <1>5, <1>6

\* A thread that locks a lock that it holds is in the start function.
LEMMA RelockInv ==
  ASSUME IInv, NEW t \in Thread, Relock(t)
  PROVE  IInv'
<1>1. /\ stack[t] # <<>> /\ lock[Top(t).on] = t /\ crashed' = TRUE
      /\ ~Finding(Top(t), Top(t).on) /\ ~Calling(Top(t))
      /\ UNCHANGED <<shared, atom, seen, objects, lock, stack, registered>>
  BY DEF Relock, Is, Finding, Calling
<1>2. Top(t).on \in Interp /\ t # NoThread
  BY <1>1, Tops, InterpretersAssumption
<1>3. PICK p \in Frames : p[1] = t /\ Finding(At(p), Top(t).on)
  BY <1>1, <1>2 DEF IInv, LockHeld
<1>4. p[2] # Len(stack[t])
  BY <1>1, <1>3 DEF At, Top
<1>5. Calling(At(p)) /\ p[2] \in 1..Len(stack[t])
  <2>1. Len(stack[t]) \in Nat
    BY <1>1, Tops
  <2> QED
    BY <2>1, <1>3, <1>4, FrameTypes
<1>6. InStart(t)
  BY <1>3, <1>5 DEF Finding, Calling, InStart, At
<1>7. UNCHANGED <<Frames, InStart(t)>> /\ \A q \in Frames : At(q)' = At(q)
  BY <1>1 DEF Frames, InStart, At
<1>8. RelockOnlyInStart'
  BY <1>6, <1>7 DEF RelockOnlyInStart
<1>9. Shape' /\ HostLinked' /\ IdsGiven' /\ SeenCurrent' /\ LockHeld'
  BY <1>1 DEF IInv, Shape, StacksNested, FramesLive, FramesOfUsers, SoleFrame, HostLinked,
     IdsGiven, SeenCurrent, LockHeld, Frames, At, shared, objects
<1>10. TypeOK'
  BY <1>1 DEF IInv, TypeOK, shared, objects
<1> QED
  BY <1>8, <1>9, <1>10 DEF IInv

------------------------------------------------------------------------------
(* Init, load and deinit *)

LEMMA BeginInitInv ==
  ASSUME IInv, ~crashed, NEW t \in Thread, NEW i \in Interp, BeginInit(t, i)
  PROVE  IInv'
<1> DEFINE f == [op |-> "init", on |-> i, name |-> NoName, handler |-> NoHandler,
                 at |-> "enter"]
<1>1. f \in Frame /\ Legal(f) /\ f.on = i /\ f.op = "init" /\ f.at = "enter"
  BY DEF Frame, Op, Place, Legal
<1>2. /\ Push(t, f) /\ t \in Users[i] /\ life[i] = "new"
      /\ life' = [life EXCEPT ![i] = "loading"]
      /\ stack[t] # <<>> => Calling(Top(t))
  BY DEF BeginInit, MayCall, Is, Calling
<1>3. UNCHANGED <<nextId, cache, atom, seen, id, linked, started, found, lock,
                  registered, crashed>>
  BY DEF BeginInit, shared
<1> HIDE DEF f
<1>4. \A p \in Frames : At(p).on # i
  BY <1>2 DEF IInv, Shape, FramesLive, LifeFor
<1>5. life'[i] = "loading" /\ \A j \in Interp : j # i => life'[j] = life[j]
  BY <1>2 DEF IInv, TypeOK
<1>6. PICK z :
        /\ stack' \in [Thread -> Seq(Frame)]
        /\ z \notin Frames /\ z[1] = t /\ At(z)' = f
        /\ Frames' = Frames \cup {z} /\ \A p \in Frames : At(p)' = At(p)
  BY <1>1, <1>2, Pushes
<1>7. Shape'
  <2>1. stack \in [Thread -> Seq(Frame)]
    BY DEF IInv, TypeOK
  <2>2. PICK n \in Nat : n = Len(stack[t])
    BY <2>1
  <2>3. n \in 0..Len(stack[t]) /\ Stacked(t, n, f)
    BY <1>1, <1>2, <2>1, <2>2, PushStacked
  <2>4. n # 0 => Calling(stack[t][n])
    BY <1>2, <2>1, <2>2 DEF Top
  <2>5. Kept(t, n) \subseteq Frames
    BY DEF Kept
  <2>6. \A p \in Kept(t, n) : life'[At(p).on] = life[At(p).on]
    BY <1>4, <1>5, <2>5, FrameTypes
  <2>7. \A p \in Kept(t, n) : At(p).on # f.on
    BY <1>1, <1>4, <2>5
  <2>8. life'[f.on] = LifeFor(f.op)
    BY <1>1, <1>5 DEF LifeFor
  <2> QED
    BY <1>1, <1>2, <2>3, <2>4, <2>6, <2>7, <2>8, ShapeStacked
<1>8. HostLinked' /\ SeenCurrent'
  BY <1>1, <1>3, <1>6 DEF HostLinked, SeenCurrent, IInv
<1>9. IdsGiven'
  BY <1>1, <1>2, <1>3, <1>5, <1>6 DEF IdsGiven, IInv
<1>10. LockHeld'
  BY <1>1, <1>2, <1>3, LockPush
<1>11. TypeOK'
  BY <1>2, <1>3, <1>6 DEF IInv, TypeOK
<1> QED
  BY <1>3, <1>7, <1>8, <1>9, <1>10, <1>11 DEF IInv, RelockOnlyInStart

LEMMA BeginDeinitInv ==
  ASSUME IInv, ~crashed, NEW t \in Thread, NEW i \in Interp, BeginDeinit(t, i)
  PROVE  IInv'
<1> DEFINE f == [op |-> "deinit", on |-> i, name |-> NoName, handler |-> NoHandler,
                 at |-> "enter"]
<1>1. f \in Frame /\ Legal(f) /\ f.on = i /\ f.op = "deinit" /\ f.at = "enter"
  BY DEF Frame, Op, Place, Legal
<1>2. /\ Push(t, f) /\ t \in Users[i] /\ life[i] = "alive" /\ ~InUse(i)
      /\ life' = [life EXCEPT ![i] = "freed"]
      /\ stack[t] # <<>> => Calling(Top(t))
  BY DEF BeginDeinit, MayCall, Is, Calling
<1>3. UNCHANGED <<nextId, cache, atom, seen, id, linked, started, found, lock,
                  registered, crashed>>
  BY DEF BeginDeinit, shared
<1> HIDE DEF f
<1>4. \A p \in Frames : At(p).on # i
  BY <1>2, FrameTypes DEF InUse, At
<1>5. life'[i] = "freed" /\ \A j \in Interp : j # i => life'[j] = life[j]
  BY <1>2 DEF IInv, TypeOK
<1>6. PICK z :
        /\ stack' \in [Thread -> Seq(Frame)]
        /\ z \notin Frames /\ z[1] = t /\ At(z)' = f
        /\ Frames' = Frames \cup {z} /\ \A p \in Frames : At(p)' = At(p)
  BY <1>1, <1>2, Pushes
<1>7. Shape'
  <2>1. stack \in [Thread -> Seq(Frame)]
    BY DEF IInv, TypeOK
  <2>2. PICK n \in Nat : n = Len(stack[t])
    BY <2>1
  <2>3. n \in 0..Len(stack[t]) /\ Stacked(t, n, f)
    BY <1>1, <1>2, <2>1, <2>2, PushStacked
  <2>4. n # 0 => Calling(stack[t][n])
    BY <1>2, <2>1, <2>2 DEF Top
  <2>5. Kept(t, n) \subseteq Frames
    BY DEF Kept
  <2>6. \A p \in Kept(t, n) : life'[At(p).on] = life[At(p).on]
    BY <1>4, <1>5, <2>5, FrameTypes
  <2>7. \A p \in Kept(t, n) : At(p).on # f.on
    BY <1>1, <1>4, <2>5
  <2>8. life'[f.on] = LifeFor(f.op)
    BY <1>1, <1>5 DEF LifeFor
  <2> QED
    BY <1>1, <1>2, <2>3, <2>4, <2>6, <2>7, <2>8, ShapeStacked
<1>8. HostLinked' /\ SeenCurrent'
  BY <1>1, <1>3, <1>6 DEF HostLinked, SeenCurrent, IInv
<1>9. IdsGiven'
  BY <1>1, <1>2, <1>3, <1>5, <1>6 DEF IdsGiven, IInv
<1>10. LockHeld'
  BY <1>1, <1>2, <1>3, LockPush
<1>11. TypeOK'
  BY <1>2, <1>3, <1>6 DEF IInv, TypeOK
<1> QED
  BY <1>3, <1>7, <1>8, <1>9, <1>10, <1>11 DEF IInv, RelockOnlyInStart

\* The frame of an init or deinit returns, which is the only one of its interpreter.
LEMMA SolePop ==
  ASSUME IInv, NEW t \in Thread, stack[t] # <<>>, Pop(t), Top(t).op \in {"init", "deinit"},
         \A j \in Interp : j # Top(t).on => life'[j] = life[j]
  PROVE  Shape'
<1>1. PICK n \in Nat : n = Len(stack[t]) - 1 /\ n \in 0..Len(stack[t])
  <2>1. Len(stack[t]) \in Nat /\ Len(stack[t]) > 0
    BY Tops
  <2>2. \A l \in Nat : l > 0 => l - 1 \in Nat /\ l - 1 \in 0..l
    OBVIOUS
  <2> QED
    BY <2>1, <2>2
<1>2. Cut(t, n)
  BY <1>1, PopCut
<1>3. /\ Kept(t, n) = Frames \ {<<t, Len(stack[t])>>}
      /\ <<t, Len(stack[t])>> \in Frames /\ At(<<t, Len(stack[t])>>) = Top(t)
  BY <1>1, Tops
<1>4. \A p \in Kept(t, n) : At(p).on # Top(t).on
  BY <1>3 DEF IInv, Shape, SoleFrame
<1>5. \A p \in Kept(t, n) : life'[At(p).on] = life[At(p).on]
  BY <1>3, <1>4, FrameTypes
<1> QED
  BY <1>1, <1>2, <1>5, ShapeCut

LEMMA LoadInv ==
  ASSUME IInv, ~crashed, NEW t \in Thread, Load(t)
  PROVE  IInv'
<1>1. stack[t] # <<>> /\ Top(t).op = "init" /\ Top(t).at = "load" /\ Pop(t)
  BY DEF Load, Is
<1>2. PICK result \in {"alive", "failed"} : life' = [life EXCEPT ![Top(t).on] = result]
  BY DEF Load
<1>3. UNCHANGED <<nextId, cache, atom, seen, id, linked, started, found, lock,
                  registered, crashed>>
  BY DEF Load, shared
<1>4. Top(t).on \in Interp
  BY <1>1, Tops
<1>5. life'[Top(t).on] = result /\ \A j \in Interp : j # Top(t).on => life'[j] = life[j]
  BY <1>2, <1>4 DEF IInv, TypeOK
<1>6. PICK z \in Frames :
        /\ stack' \in [Thread -> Seq(Frame)]
        /\ z[1] = t /\ At(z) = Top(t)
        /\ Frames' = Frames \ {z} /\ \A p \in Frames \ {z} : At(p)' = At(p)
  BY <1>1, Pops
<1>7. Shape'
  BY <1>1, <1>5, SolePop
<1>8. HostLinked' /\ SeenCurrent'
  BY <1>3, <1>6 DEF HostLinked, SeenCurrent, IInv
<1>9. IdsGiven'
  <2>1. id[Top(t).on] # 0
    BY <1>1, <1>6 DEF IdsGiven, IInv
  <2> QED
    BY <2>1, <1>3, <1>5, <1>6 DEF IdsGiven, IInv
<1>10. LockHeld'
  BY <1>1, <1>3, LockPop DEF Finding
<1>11. TypeOK'
  BY <1>2, <1>3, <1>6 DEF IInv, TypeOK
<1> QED
  BY <1>3, <1>7, <1>8, <1>9, <1>10, <1>11 DEF IInv, RelockOnlyInStart

------------------------------------------------------------------------------
(* Atom.lock *)

LEMMA EnterInv ==
  ASSUME IInv, ~crashed, NEW t \in Thread, Enter(t)
  PROVE  IInv'
<1>1. /\ stack[t] # <<>> /\ Top(t).op \in Op /\ Top(t).at = "enter" /\ GoOn(t, "inside")
      /\ atom = NoThread /\ atom' = t
      /\ seen' = [seen EXCEPT ![t] = [id |-> nextId, cache |-> cache]]
      /\ UNCHANGED <<shared, objects, lock, registered, crashed>>
  BY DEF Enter, EnterFrom, Is
<1>2. PICK f \in Frame :
        /\ GoTo(t, f)
        /\ f.op = Top(t).op /\ f.on = Top(t).on /\ f.name = Top(t).name
        /\ f.handler = Top(t).handler /\ f.at = "inside"
  BY <1>1, WentOn DEF Place
<1>3. Legal(f)
  BY <1>1, <1>2, Tops DEF Legal
<1>4. PICK z \in Frames :
        /\ stack' \in [Thread -> Seq(Frame)]
        /\ z[1] = t /\ At(z) = Top(t) /\ At(z)' = f
        /\ Frames' = Frames /\ \A p \in Frames \ {z} : At(p)' = At(p)
  BY <1>1, <1>2, Moves
<1>5. Shape'
  BY <1>1, <1>2, <1>3, ShapeMove DEF objects
<1>6. HostLinked'
  BY <1>1, <1>2, <1>4 DEF HostLinked, IInv, objects
<1>7. IdsGiven'
  <2>1. UNCHANGED <<nextId, cache, id, life>>
    BY <1>1 DEF shared, objects
  <2>2. \A p \in Frames : At(p)'.op = At(p).op /\ At(p)'.on = At(p).on
                          /\ (At(p)'.at = "load" <=> At(p).at = "load")
    BY <1>1, <1>2, <1>4
  <2> QED
    BY <1>4, <2>1, <2>2 DEF IdsGiven, IInv
<1>8. SeenCurrent'
  <2>1. \A p \in Frames : At(p).at # "inside"
    BY <1>1, FrameTypes, InterpretersAssumption DEF SeenCurrent, IInv
  <2>2. seen'[t] = [id |-> nextId, cache |-> cache]
    BY <1>1 DEF IInv, TypeOK
  <2> QED
    BY <1>1, <1>4, <2>1, <2>2 DEF SeenCurrent, shared
<1>9. LockHeld'
  BY <1>1, <1>2, LockMove DEF Finding
<1>10. TypeOK'
  BY <1>1, <1>4 DEF IInv, TypeOK, shared, objects
<1> QED
  BY <1>1, <1>5, <1>6, <1>7, <1>8, <1>9, <1>10 DEF IInv, RelockOnlyInStart

LEMMA NothingSeenType ==
  /\ EmptyRow \in Row
  /\ NothingSeen \in [id : 0..MaxId, cache : [1..MaxId -> Row]]
<1>1. EmptyRow \in Row
  BY DEF EmptyRow, Row
<1>2. 0 \in 0..MaxId
  BY InterpretersAssumption
<1> QED
  BY <1>1, <1>2 DEF NothingSeen

\* What a frame inside Atom.lock has seen.
LEMMA Inside ==
  ASSUME IInv, NEW t \in Thread, stack[t] # <<>>, Top(t).at = "inside"
  PROVE  /\ atom = t /\ seen[t].id = nextId /\ seen[t].cache = cache
         /\ id[Top(t).on] \in 0..MaxId
         /\ Top(t).op # "init" => id[Top(t).on] \in 1..MaxId
         /\ Top(t).op = "init" => id[Top(t).on] = 0
<1> DEFINE z == <<t, Len(stack[t])>>
<1>1. z \in Frames /\ At(z) = Top(t) /\ z[1] = t
  BY Tops
<1> HIDE DEF z
<1>2. atom = t /\ seen[t].id = nextId /\ seen[t].cache = cache
  BY <1>1 DEF IInv, SeenCurrent
<1>3. Top(t).on \in Interp /\ Top(t).op \in Op /\ life[Top(t).on] = LifeFor(Top(t).op)
  BY <1>1, Tops, FrameTypes
<1>4. id[Top(t).on] \in 0..MaxId
  BY <1>3 DEF IInv, TypeOK
<1>5. Top(t).op # "init" => id[Top(t).on] # 0
  BY <1>3 DEF IInv, IdsGiven, LifeFor, Op
<1>6. Top(t).op = "init" => id[Top(t).on] = 0
  BY <1>1 DEF IInv, IdsGiven
<1>7. \A k \in 0..MaxId : k # 0 => k \in 1..MaxId
  BY InterpretersAssumption
<1> QED
  BY <1>2, <1>4, <1>5, <1>6, <1>7

\* It leaves, and nobody is inside.
LEMMA LeaveSeen ==
  ASSUME IInv, NEW t \in Thread, stack[t] # <<>>, Top(t).at = "inside",
         \/ Pop(t)
         \/ \E f \in Frame : GoTo(t, f) /\ f.at # "inside"
  PROVE  SeenCurrent'
<1>1. CASE Pop(t)
  <2>1. PICK z \in Frames : At(z) = Top(t) /\ Frames' = Frames \ {z}
                            /\ \A p \in Frames \ {z} : At(p)' = At(p)
    BY <1>1, Pops
  <2> QED
    BY <2>1, OneInside DEF SeenCurrent
<1>2. ASSUME NEW f \in Frame, GoTo(t, f), f.at # "inside"
      PROVE  SeenCurrent'
  <2>1. PICK z \in Frames : At(z) = Top(t) /\ At(z)' = f /\ Frames' = Frames
                            /\ \A p \in Frames \ {z} : At(p)' = At(p)
    BY <1>2, Moves
  <2> QED
    BY <1>2, <2>1, OneInside DEF SeenCurrent
<1> QED
  BY <1>1, <1>2

LEMMA RetrieveIDInv ==
  ASSUME IInv, ~crashed, NEW t \in Thread, RetrieveID(t)
  PROVE  IInv'
<1>1. /\ stack[t] # <<>> /\ Top(t).op = "init" /\ Top(t).at = "inside" /\ GoOn(t, "load")
      /\ atom' = NoThread /\ seen' = [seen EXCEPT ![t] = NothingSeen]
      /\ UNCHANGED <<cache, life, linked, started, found, lock, registered, crashed>>
  BY DEF RetrieveID, Is, Leave
<1>2. /\ nextId < MaxId /\ nextId' = nextId + 1
      /\ id' = [id EXCEPT ![Top(t).on] = nextId + 1]
      /\ id[Top(t).on] = 0
  BY <1>1, Inside DEF RetrieveID
<1>3. PICK f \in Frame :
        /\ GoTo(t, f)
        /\ f.op = Top(t).op /\ f.on = Top(t).on /\ f.name = Top(t).name
        /\ f.handler = Top(t).handler /\ f.at = "load"
  BY <1>1, WentOn DEF Place
<1>4. Legal(f) /\ f.on \in Interp
  BY <1>1, <1>3, Tops DEF Legal
<1>5. PICK z \in Frames :
        /\ stack' \in [Thread -> Seq(Frame)]
        /\ z[1] = t /\ At(z) = Top(t) /\ At(z)' = f
        /\ Frames' = Frames /\ \A p \in Frames \ {z} : At(p)' = At(p)
  BY <1>1, <1>3, Moves
<1>6. Shape'
  BY <1>1, <1>3, <1>4, ShapeMove
<1>7. HostLinked'
  BY <1>1, <1>3, <1>5 DEF HostLinked, IInv
<1>8. nextId \in Nat /\ MaxId \in Nat /\ nextId + 1 \in 0..MaxId
      /\ id' \in [Interp -> 0..MaxId] /\ id \in [Interp -> 0..MaxId]
  <2>1. nextId \in Nat /\ MaxId \in Nat /\ nextId + 1 \in 0..MaxId
    BY <1>2, InterpretersAssumption DEF IInv, TypeOK
  <2> QED
    BY <1>2, <2>1 DEF IInv, TypeOK
<1>9. id'[f.on] = nextId + 1 /\ \A j \in Interp : j # f.on => id'[j] = id[j]
  BY <1>2, <1>3, <1>4, <1>8
<1>10. \A i \in Interp : id[i] \in Nat /\ id[i] <= nextId
  BY <1>8 DEF IInv, IdsGiven
<1>11. IdsGiven'
  <2>1. \A i \in Interp : id'[i] <= nextId'
    BY <1>2, <1>8, <1>9, <1>10
  <2>2. ASSUME NEW i \in Interp, NEW j \in Interp, id'[i] = id'[j], id'[i] # 0 PROVE i = j
    <3>1. CASE i = f.on \/ j = f.on
      BY <2>2, <3>1, <1>8, <1>9, <1>10
    <3>2. CASE i # f.on /\ j # f.on
      BY <2>2, <3>2, <1>9 DEF IInv, IdsGiven
    <3> QED
      BY <3>1, <3>2
  <2>3. life[f.on] = "loading"
    BY <1>1, <1>3, Tops DEF LifeFor
  <2>4. /\ \A i \in Interp : life'[i] = "new" => id'[i] = 0
        /\ \A i \in Interp : life'[i] \in {"alive", "freed"} => id'[i] # 0
    BY <2>3, <1>1, <1>9 DEF IInv, IdsGiven
  <2>5. \A p \in Frames : p # z => At(p).on # f.on
    BY <1>1, <1>3, <1>5 DEF IInv, Shape, SoleFrame
  <2>6. \A p \in Frames' : At(p)'.op = "init" => (At(p)'.at = "load" <=> id'[At(p)'.on] # 0)
    <3>1. nextId + 1 # 0
      BY <1>8
    <3>2. At(z)'.at = "load" /\ id'[At(z)'.on] # 0
      BY <3>1, <1>3, <1>5, <1>9
    <3>3. \A p \in Frames : p # z => At(p)' = At(p) /\ id'[At(p).on] = id[At(p).on]
      BY <2>5, <1>5, <1>9, FrameTypes
    <3>4. \A p \in Frames : At(p).op = "init" => (At(p).at = "load" <=> id[At(p).on] # 0)
      BY DEF IInv, IdsGiven
    <3> QED
      BY <3>2, <3>3, <3>4, <1>5
  <2>7. \A k \in 1..MaxId : k > nextId' => cache'[k] = EmptyRow
    BY <1>1, <1>2, <1>8 DEF IInv, IdsGiven
  <2> QED
    BY <2>1, <2>2, <2>4, <2>6, <2>7 DEF IdsGiven
<1>12. SeenCurrent'
  BY <1>1, <1>3, LeaveSeen
<1>13. LockHeld'
  BY <1>1, <1>3, LockMove DEF Finding
<1>14. TypeOK'
  BY <1>1, <1>2, <1>5, <1>8, NothingSeenType DEF IInv, TypeOK
<1> QED
  BY <1>1, <1>6, <1>7, <1>11, <1>12, <1>13, <1>14 DEF IInv, RelockOnlyInStart

\* A row of the cache is changed for one context.
LEMMA RowChanged ==
  ASSUME IInv, NEW k \in 1..MaxId, NEW c \in Context, NEW h \in Handler \cup {NoHandler},
         cache' = [cache EXCEPT ![k][c] = h]
  PROVE  /\ cache' \in [1..MaxId -> Row]
         /\ cache'[k][c] = h
         /\ \A d \in Context : d # c => cache'[k][d] = cache[k][d]
         /\ \A j \in 1..MaxId : j # k => cache'[j] = cache[j]
<1>1. cache \in [1..MaxId -> Row] /\ cache[k] \in [Context -> Handler \cup {NoHandler}]
  BY DEF IInv, TypeOK, Row
<1>2. [cache[k] EXCEPT ![c] = h] \in Row
  BY <1>1 DEF Row
<1>3. cache'[k] = [cache[k] EXCEPT ![c] = h]
  BY <1>1
<1> QED
  BY <1>1, <1>2, <1>3

\* A frame of an interpreter that has an identifier.
LEMMA InsideContext ==
  ASSUME IInv, NEW t \in Thread, stack[t] # <<>>, Top(t).at = "inside",
         Top(t).op \in {"import", "unimport", "host"}
  PROVE  /\ Top(t).name \in Name /\ ContextOf[Top(t).name] \in Context
         /\ id[Top(t).on] \in 1..MaxId /\ id[Top(t).on] <= nextId
         /\ nextId \in Nat /\ Top(t).on \in Interp
<1>1. Legal(Top(t)) /\ Top(t).on \in Interp
  BY Tops
<1>2. Top(t).name \in Name
  BY <1>1 DEF Legal
<1>3. id[Top(t).on] \in 1..MaxId
  BY Inside
<1> QED
  BY <1>1, <1>2, <1>3, InterpretersAssumption DEF IInv, IdsGiven, TypeOK

LEMMA AddImportedFunctionInv ==
  ASSUME IInv, ~crashed, NEW t \in Thread, AddImportedFunction(t)
  PROVE  IInv'
<1>1. /\ stack[t] # <<>> /\ Top(t).op = "import" /\ Top(t).at = "inside" /\ GoOn(t, "link")
      /\ SetHandler(t, Top(t).handler)
      /\ atom' = NoThread /\ seen' = [seen EXCEPT ![t] = NothingSeen]
      /\ UNCHANGED <<nextId, objects, lock, registered, crashed>>
  BY DEF AddImportedFunction, Is, Leave
<1> DEFINE k == id[Top(t).on]
           c == ContextOf[Top(t).name]
<1>2. k \in 1..MaxId /\ k <= nextId /\ nextId \in Nat /\ c \in Context
  BY <1>1, InsideContext
<1>3. cache' = [cache EXCEPT ![k][c] = Top(t).handler]
  BY <1>1, Inside DEF SetHandler
<1>4. PICK f \in Frame :
        /\ GoTo(t, f)
        /\ f.op = Top(t).op /\ f.on = Top(t).on /\ f.name = Top(t).name
        /\ f.handler = Top(t).handler /\ f.at = "link"
  BY <1>1, WentOn DEF Place
<1>5. Legal(f) /\ Top(t).handler \in Handler
  BY <1>1, <1>4, Tops DEF Legal
<1> HIDE DEF k, c
<1>6. cache' \in [1..MaxId -> Row] /\ \A j \in 1..MaxId : j # k => cache'[j] = cache[j]
  BY <1>2, <1>3, <1>5, RowChanged
<1>7. PICK z \in Frames :
        /\ stack' \in [Thread -> Seq(Frame)]
        /\ z[1] = t /\ At(z) = Top(t) /\ At(z)' = f
        /\ Frames' = Frames /\ \A p \in Frames \ {z} : At(p)' = At(p)
  BY <1>1, <1>4, Moves
<1>8. Shape' /\ HostLinked'
  <2>1. Shape'
    BY <1>1, <1>4, <1>5, ShapeMove DEF objects
  <2> QED
    BY <2>1, <1>1, <1>4, <1>7 DEF HostLinked, IInv, objects
<1>9. IdsGiven'
  <2>1. \A j \in 1..MaxId : j > nextId => cache'[j] = EmptyRow
    BY <1>2, <1>6 DEF IInv, IdsGiven
  <2> QED
    BY <2>1, <1>1, <1>4, <1>7 DEF IInv, IdsGiven, objects
<1>10. SeenCurrent'
  BY <1>1, <1>4, LeaveSeen
<1>11. LockHeld'
  BY <1>1, <1>4, LockMove DEF Finding
<1>12. TypeOK'
  BY <1>1, <1>6, <1>7, NothingSeenType DEF IInv, TypeOK, objects
<1> QED
  BY <1>1, <1>8, <1>9, <1>10, <1>11, <1>12 DEF IInv, RelockOnlyInStart

LEMMA RemoveImportedFunctionInv ==
  ASSUME IInv, ~crashed, NEW t \in Thread, RemoveImportedFunction(t)
  PROVE  IInv'
<1>1. /\ stack[t] # <<>> /\ Top(t).op = "unimport" /\ Top(t).at = "inside" /\ Pop(t)
      /\ SetHandler(t, NoHandler)
      /\ atom' = NoThread /\ seen' = [seen EXCEPT ![t] = NothingSeen]
      /\ UNCHANGED <<nextId, objects, lock, registered, crashed>>
  BY DEF RemoveImportedFunction, Is, Leave
<1> DEFINE k == id[Top(t).on]
           c == ContextOf[Top(t).name]
<1>2. k \in 1..MaxId /\ k <= nextId /\ nextId \in Nat /\ c \in Context
  BY <1>1, InsideContext
<1>3. cache' = [cache EXCEPT ![k][c] = NoHandler]
  BY <1>1, Inside DEF SetHandler
<1> HIDE DEF k, c
<1>4. cache' \in [1..MaxId -> Row] /\ \A j \in 1..MaxId : j # k => cache'[j] = cache[j]
  BY <1>2, <1>3, RowChanged
<1>5. PICK z \in Frames :
        /\ stack' \in [Thread -> Seq(Frame)]
        /\ Frames' = Frames \ {z} /\ \A p \in Frames \ {z} : At(p)' = At(p)
  BY <1>1, Pops
<1>6. Shape' /\ HostLinked'
  <2>1. Shape'
    BY <1>1, Tops, PopCut, ShapeCut DEF objects
  <2> QED
    BY <2>1, <1>1, <1>5 DEF HostLinked, IInv, objects
<1>7. IdsGiven'
  <2>1. \A j \in 1..MaxId : j > nextId => cache'[j] = EmptyRow
    BY <1>2, <1>4 DEF IInv, IdsGiven
  <2> QED
    BY <2>1, <1>1, <1>5 DEF IInv, IdsGiven, objects
<1>8. SeenCurrent'
  BY <1>1, LeaveSeen
<1>9. LockHeld'
  BY <1>1, LockPop DEF Finding
<1>10. TypeOK'
  BY <1>1, <1>4, <1>5, NothingSeenType DEF IInv, TypeOK, objects
<1> QED
  BY <1>1, <1>6, <1>7, <1>8, <1>9, <1>10 DEF IInv, RelockOnlyInStart

LEMMA RemoveImportedFunctionsInv ==
  ASSUME IInv, ~crashed, NEW t \in Thread, RemoveImportedFunctions(t)
  PROVE  IInv'
<1> DEFINE i == Top(t).on
<1>1. /\ stack[t] # <<>> /\ Top(t).op = "deinit" /\ Top(t).at = "inside" /\ Pop(t)
      /\ cache' = [seen[t].cache EXCEPT ![id[i]] = EmptyRow]
      /\ life' = [life EXCEPT ![i] = "gone"]
      /\ atom' = NoThread /\ seen' = [seen EXCEPT ![t] = NothingSeen]
      /\ UNCHANGED <<nextId, id, linked, started, found, lock, registered, crashed>>
  BY DEF RemoveImportedFunctions, Is, Leave
<1>2. i \in Interp /\ seen[t].cache = cache /\ id[i] \in 1..MaxId
  BY <1>1, Tops, Inside
<1> HIDE DEF i
<1>3. /\ cache' \in [1..MaxId -> Row]
      /\ \A k \in 1..MaxId : cache'[k] = EmptyRow \/ cache'[k] = cache[k]
  BY <1>1, <1>2, NothingSeenType DEF IInv, TypeOK
<1>4. life'[i] = "gone" /\ \A j \in Interp : j # i => life'[j] = life[j]
  BY <1>1, <1>2 DEF IInv, TypeOK
<1>5. PICK z \in Frames :
        /\ stack' \in [Thread -> Seq(Frame)]
        /\ Frames' = Frames \ {z} /\ \A p \in Frames \ {z} : At(p)' = At(p)
  BY <1>1, Pops
<1>6. Shape' /\ HostLinked'
  <2>1. Shape'
    BY <1>1, <1>4, SolePop DEF i
  <2> QED
    BY <2>1, <1>1, <1>5 DEF HostLinked, IInv
<1>7. IdsGiven'
  BY <1>1, <1>3, <1>4, <1>5 DEF IInv, IdsGiven
<1>8. SeenCurrent'
  BY <1>1, LeaveSeen
<1>9. LockHeld'
  BY <1>1, LockPop DEF Finding
<1>10. TypeOK'
  BY <1>1, <1>3, <1>5, NothingSeenType DEF IInv, TypeOK
<1> QED
  BY <1>1, <1>6, <1>7, <1>8, <1>9, <1>10 DEF IInv, RelockOnlyInStart

LEMMA DispatchInv ==
  ASSUME IInv, ~crashed, NEW t \in Thread, Dispatch(t)
  PROVE  IInv'
<1> DEFINE h == Looked(t)
           f == [Top(t) EXCEPT !.handler = h, !.at = "handler"]
<1>1. /\ stack[t] # <<>> /\ Top(t).op = "host" /\ Top(t).at = "inside" /\ GoTo(t, f)
      /\ h # NoHandler
      /\ atom' = NoThread /\ seen' = [seen EXCEPT ![t] = NothingSeen]
      /\ UNCHANGED <<shared, objects, lock, registered, crashed>>
  BY DEF Dispatch, Is, Leave
<1>2. h \in Handler
  <2>1. /\ id[Top(t).on] \in 1..MaxId /\ ContextOf[Top(t).name] \in Context
        /\ seen[t].cache = cache
    BY <1>1, InsideContext, Inside
  <2> QED
    BY <1>1, <2>1 DEF Looked, IInv, TypeOK, Row
<1>3. /\ f \in Frame /\ f.op = "host" /\ f.on = Top(t).on /\ f.name = Top(t).name
      /\ f.handler = h /\ f.at = "handler"
  BY <1>1, <1>2, Tops DEF Frame, Place
<1> HIDE DEF f, h
<1>4. Legal(f)
  BY <1>1, <1>2, <1>3, Tops DEF Legal
<1>5. PICK z \in Frames :
        /\ stack' \in [Thread -> Seq(Frame)]
        /\ z[1] = t /\ At(z) = Top(t) /\ At(z)' = f
        /\ Frames' = Frames /\ \A p \in Frames \ {z} : At(p)' = At(p)
  BY <1>1, <1>3, Moves
<1>6. Shape' /\ HostLinked' /\ IdsGiven'
  <2>1. Shape'
    BY <1>1, <1>3, <1>4, ShapeMove DEF objects
  <2> QED
    BY <2>1, <1>1, <1>3, <1>5 DEF HostLinked, IInv, IdsGiven, objects, shared
<1>7. SeenCurrent'
  BY <1>1, <1>3, LeaveSeen
<1>8. LockHeld'
  BY <1>1, <1>3, LockMove DEF Finding
<1>9. TypeOK'
  BY <1>1, <1>5, NothingSeenType DEF IInv, TypeOK, objects, shared
<1> QED
  BY <1>1, <1>6, <1>7, <1>8, <1>9 DEF IInv, RelockOnlyInStart

\* A trap in a block unwinds the function that called it too.
LEMMA Unwinds ==
  ASSUME IInv, NEW t \in Thread, Trap(t)
  PROVE  \E n \in 0..Len(stack[t]), caller \in Frame :
            /\ caller = stack[t][Len(stack[t]) - 1] /\ Calling(caller) /\ caller.op = "call"
            /\ Cut(t, n) /\ stack' \in [Thread -> Seq(Frame)]
            /\ Frames' = Kept(t, n) /\ \A p \in Kept(t, n) : At(p)' = At(p)
            /\ Kept(t, n) \subseteq Frames /\ <<t, Len(stack[t])>> \notin Kept(t, n)
            /\ \A p \in Frames \ Kept(t, n) :
                 p[1] = t /\ ((p[2] = Len(stack[t]) /\ At(p) = Top(t)) \/ At(p) = caller)
<1> DEFINE caller == stack[t][Len(stack[t]) - 1]
<1>1. /\ stack[t] # <<>> /\ Top(t).op = "host"
      /\ stack' = [stack EXCEPT ![t] = SubSeq(stack[t], 1, Len(stack[t]) - 2)]
  BY DEF Trap, Is
<1>2. PICK l \in Nat : l = Len(stack[t]) /\ l > 1
  <2>1. Len(stack[t]) \in Nat /\ Len(stack[t]) > 0
    BY <1>1, Tops
  <2>2. Nested(stack[t]) /\ Len(stack[t]) \in 1..Len(stack[t])
    BY <2>1 DEF IInv, Shape, StacksNested
  <2> QED
    BY <1>1, <2>1, <2>2 DEF Nested, Top
<1>3. PICK n \in Nat : n = l - 2 /\ n \in 0..l
  <2>1. \A k \in Nat : k > 1 => k - 2 \in Nat /\ k - 2 \in 0..k
    OBVIOUS
  <2> QED
    BY <2>1, <1>2
<1>4. /\ l - 1 \in 1..Len(stack[t]) /\ l - 1 < Len(stack[t]) /\ l \in 1..Len(stack[t])
      /\ Cut(t, n)
  <2>1. n \in 0..Len(stack[t]) /\ n = Len(stack[t]) - 2
    BY <1>2, <1>3
  <2>2. Cut(t, n)
    BY <1>1, <2>1 DEF Cut
  <2> QED
    BY <1>2, <2>2
<1>5. caller = stack[t][l - 1] /\ caller.op = "call" /\ Calling(caller) /\ caller \in Frame
  <2>1. Nested(stack[t]) /\ stack[t] \in Seq(Frame)
    BY DEF IInv, TypeOK, Shape, StacksNested
  <2> QED
    BY <1>1, <1>2, <1>4, <2>1 DEF Nested, Top
<1> HIDE DEF caller
<1>6. /\ stack' \in [Thread -> Seq(Frame)]
      /\ Frames' = Kept(t, n) /\ \A p \in Kept(t, n) : At(p)' = At(p)
      /\ Kept(t, n) \subseteq Frames
  <2>1. stack \in [Thread -> Seq(Frame)]
    BY DEF IInv, TypeOK
  <2>2. n \in 0..Len(stack[t])
    BY <1>2, <1>3
  <2> QED
    BY <1>4, <2>1, <2>2, CutFrames DEF Kept
<1>7. \A p \in Frames \ Kept(t, n) :
        p[1] = t /\ ((p[2] = Len(stack[t]) /\ At(p) = Top(t)) \/ At(p) = caller)
  <2>1. ASSUME NEW p \in Frames, p \notin Kept(t, n)
        PROVE  p[1] = t /\ (p[2] = l \/ p[2] = l - 1)
    <3>1. p[1] = t /\ ~(p[2] <= n)
      BY <2>1 DEF Kept
    <3>2. p[2] \in 1..l
      BY <3>1, <1>2, FrameTypes
    <3> QED
      BY <3>1, <3>2, <1>2, <1>3
  <2> QED
    BY <2>1, <1>2, <1>5 DEF At, Top
<1>8. n \in 0..Len(stack[t]) /\ <<t, Len(stack[t])>> \notin Kept(t, n)
  BY <1>2, <1>3 DEF Kept
<1>9. /\ caller = stack[t][Len(stack[t]) - 1] /\ Calling(caller) /\ caller.op = "call"
      /\ caller \in Frame
  BY <1>2, <1>5
<1> QED
  BY <1>4, <1>6, <1>7, <1>8, <1>9

LEMMA TrapInv ==
  ASSUME IInv, ~crashed, NEW t \in Thread, Trap(t)
  PROVE  IInv'
<1>1. PICK n \in 0..Len(stack[t]), caller \in Frame :
        /\ caller = stack[t][Len(stack[t]) - 1] /\ Calling(caller) /\ caller.op = "call"
        /\ Cut(t, n) /\ stack' \in [Thread -> Seq(Frame)]
        /\ Frames' = Kept(t, n) /\ \A p \in Kept(t, n) : At(p)' = At(p)
        /\ Kept(t, n) \subseteq Frames /\ <<t, Len(stack[t])>> \notin Kept(t, n)
        /\ \A p \in Frames \ Kept(t, n) :
             p[1] = t /\ ((p[2] = Len(stack[t]) /\ At(p) = Top(t)) \/ At(p) = caller)
  BY Unwinds
<1>2. /\ stack[t] # <<>> /\ Top(t).op = "host" /\ Top(t).at \in {"handler", "inside"}
      /\ Top(t).at = "handler" => UNCHANGED <<atom, seen>>
      /\ Top(t).at = "inside" => Leave(t)
      /\ lock' = IF caller.at = "start" THEN [lock EXCEPT ![caller.on] = NoThread] ELSE lock
      /\ UNCHANGED <<nextId, cache, id, life, linked, started, found, registered, crashed>>
  BY <1>1 DEF Trap, Is, shared, objects
<1>3. caller.on \in Interp /\ lock \in [Interp -> Thread \cup {NoThread}]
  BY DEF Frame, IInv, TypeOK
<1>4. Shape'
  BY <1>1, <1>2, ShapeCut
<1>5. HostLinked' /\ IdsGiven'
  BY <1>1, <1>2 DEF HostLinked, IdsGiven, IInv
<1>6. SeenCurrent'
  <2>1. CASE Top(t).at = "handler"
    BY <1>1, <1>2, <2>1 DEF SeenCurrent, IInv
  <2>2. CASE Top(t).at = "inside"
    <3> DEFINE z == <<t, Len(stack[t])>>
    <3>1. z \in Frames /\ At(z) = Top(t) /\ z \notin Kept(t, n)
      BY <1>1, <1>2, Tops
    <3> HIDE DEF z
    <3>2. \A p \in Kept(t, n) : At(p).at # "inside"
      BY <2>2, <3>1, <1>1, OneInside
    <3> QED
      BY <3>2, <1>1 DEF SeenCurrent
  <2> QED
    BY <1>2, <2>1, <2>2
<1>7. LockHeld'
  <2>1. SUFFICES ASSUME NEW i \in Interp, lock'[i] # NoThread
                 PROVE  \E p \in Frames' : p[1] = lock'[i] /\ Finding(At(p)', i)
    BY DEF LockHeld, Finding
  <2>2. lock'[i] = lock[i] /\ ~(caller.at = "start" /\ caller.on = i)
    BY <1>2, <1>3, <2>1
  <2>3. PICK p \in Frames : p[1] = lock[i] /\ Finding(At(p), i)
    BY <2>1, <2>2 DEF IInv, LockHeld
  <2>4. ~Finding(Top(t), i) /\ ~Finding(caller, i)
    BY <1>1, <1>2, <2>2 DEF Finding, Calling
  <2> QED
    BY <1>1, <2>2, <2>3, <2>4
<1>8. TypeOK'
  <2>1. lock' \in [Interp -> Thread \cup {NoThread}]
    BY <1>2, <1>3
  <2>2. atom' \in Thread \cup {NoThread}
        /\ seen' \in [Thread -> [id : 0..MaxId, cache : [1..MaxId -> Row]]]
    BY <1>2, NothingSeenType DEF IInv, TypeOK, Leave
  <2> QED
    BY <1>1, <1>2, <2>1, <2>2 DEF IInv, TypeOK
<1> QED
  BY <1>2, <1>4, <1>5, <1>6, <1>7, <1>8 DEF IInv, RelockOnlyInStart

------------------------------------------------------------------------------
(* The invariant *)

LEMMA InitInv ==
  ASSUME Init
  PROVE  IInv
<1>1. /\ stack = [t \in Thread |-> <<>>] /\ \A t \in Thread : Len(stack[t]) = 0
      /\ \A i \in Interp : id[i] = 0 /\ life[i] = "new" /\ lock[i] = NoThread
      /\ \A k \in 1..MaxId : cache[k] = EmptyRow
      /\ nextId = 0 /\ ~crashed
  BY DEF Init
<1>2. Frames = {}
  BY <1>1 DEF Frames
<1>3. TypeOK
  <2>1. stack \in [Thread -> Seq(Frame)]
    BY <1>1
  <2>2. nextId \in 0..MaxId /\ id \in [Interp -> 0..MaxId]
    BY InterpretersAssumption DEF Init
  <2>3. cache \in [1..MaxId -> Row]
        /\ seen \in [Thread -> [id : 0..MaxId, cache : [1..MaxId -> Row]]]
    BY NothingSeenType DEF Init
  <2>4. /\ life \in [Interp -> {"new", "loading", "alive", "failed", "freed", "gone"}]
        /\ linked \in [Interp -> SUBSET Name]
        /\ started \in [Interp -> BOOLEAN] /\ found \in [Interp -> BOOLEAN]
        /\ lock \in [Interp -> Thread \cup {NoThread}]
        /\ registered \in [Interp -> [Name -> Handler \cup {NoHandler}]]
        /\ atom \in Thread \cup {NoThread} /\ crashed \in BOOLEAN
    BY DEF Init
  <2> QED
    BY <2>1, <2>2, <2>3, <2>4 DEF TypeOK
<1>4. Shape
  BY <1>1, <1>2 DEF Shape, StacksNested, Nested, FramesLive, FramesOfUsers, SoleFrame
<1>5. HostLinked /\ SeenCurrent /\ LockHeld /\ RelockOnlyInStart
  BY <1>1, <1>2 DEF HostLinked, SeenCurrent, LockHeld, RelockOnlyInStart
<1>6. IdsGiven
  BY <1>1, <1>2 DEF IdsGiven
<1> QED
  BY <1>3, <1>4, <1>5, <1>6 DEF IInv

LEMMA StutterInv ==
  ASSUME IInv, UNCHANGED vars
  PROVE  IInv'
<1>1. UNCHANGED <<nextId, cache, atom, seen, id, life, linked, started, found, lock, stack,
                  registered, crashed>>
  BY DEF vars, shared, objects
<1>2. Frames' = Frames /\ \A p \in Frames : At(p)' = At(p)
  BY <1>1 DEF Frames, At
<1>3. TypeOK'
  BY <1>1 DEF IInv, TypeOK
<1>4. Shape' /\ HostLinked' /\ IdsGiven' /\ SeenCurrent' /\ LockHeld'
  BY <1>1, <1>2 DEF IInv, Shape, StacksNested, FramesLive, FramesOfUsers, SoleFrame, HostLinked,
     IdsGiven, SeenCurrent, LockHeld
<1>5. RelockOnlyInStart'
  BY <1>1 DEF IInv, RelockOnlyInStart, InStart
<1> QED
  BY <1>3, <1>4, <1>5 DEF IInv

LEMMA NextInv ==
  ASSUME IInv, [Next]_vars
  PROVE  IInv'
<1>1. CASE UNCHANGED vars
  BY <1>1, StutterInv
<1>2. ASSUME ~crashed, NEW t \in Thread, Begin(t)
      PROVE  IInv'
  BY <1>2, BeginInitInv, BeginCallInv, BeginDeinitInv, BeginImportInv DEF Begin
<1>3. ASSUME ~crashed, NEW t \in Thread, Step(t)
      PROVE  IInv'
  BY <1>3, EnterInv, RetrieveIDInv, AddImportedFunctionInv, RemoveImportedFunctionInv,
     RemoveImportedFunctionsInv, DispatchInv, LoadInv, LinkInv, LinkFailsInv, ReturnsInv,
     RelockInv, CallStepsInv, TrapInv DEF Step
<1>4. ASSUME ~crashed, NEW t \in Thread, Finish(t)
      PROVE  IInv'
  BY <1>4, CallStepsInv, ReturnsInv DEF Finish
<1>5. ASSUME ~crashed, NEW t \in Thread, NEW n \in Name, CallImport(t, n)
      PROVE  IInv'
  BY <1>5, CallImportInv
<1>6. CASE Done
  BY <1>1, <1>6 DEF Done
<1> QED
  BY <1>1, <1>2, <1>3, <1>4, <1>5, <1>6 DEF Next

THEOREM Invariance == Spec => []IInv
<1>1. Init => IInv
  BY InitInv
<1>2. IInv /\ [Next]_vars => IInv'
  BY NextInv
<1> QED
  BY <1>1, <1>2, PTL DEF Spec

\* Every variable keeps its type: identifiers stay within the bound, and the stack of a
\* thread is one of frames (Interpreter.swift:19).
THEOREM TypeCorrect == Spec => []TypeOK
<1>1. IInv => TypeOK
  BY DEF IInv
<1> QED
  BY <1>1, Invariance, PTL

\* A thread locks an interpreter.lock that it holds only below a start function: whoever
\* else comes back to function(named:) finds it given back (Interpreter.swift:134).
THEOREM RelockInStart == Spec => []RelockOnlyInStart
<1>1. IInv => RelockOnlyInStart
  BY DEF IInv
<1> QED
  BY <1>1, Invariance, PTL

------------------------------------------------------------------------------
(* The blocks of the imports, where an interpreter is used by one thread *)

OneUser == \A i \in Interp : \A t, u \in Users[i] : t = u

\* The imports of an interpreter can be told apart by the hashes.
ContextsApart ==
  \A i \in Interp : \A p, q \in Imports[i] : ContextOf[p[1]] = ContextOf[q[1]] => p[1] = q[1]

\* An import that has put its block in the cache, and is not yet linked or undone.
Placed(f) == (f.op = "import" /\ f.at = "link") \/ f.op = "unimport"

ImportCached ==
  \A p \in Frames : At(p).at = "link" =>
    cache[id[At(p).on]][ContextOf[At(p).name]] = At(p).handler

LinkedImports ==
  \A i \in Interp :
    /\ \A n \in linked[i] : \E h \in Handler : <<n, h>> \in Imports[i]
    /\ life[i] \in {"new", "loading", "failed"} => linked[i] = {}

\* The block of a linked import is there, unless an import has replaced it and may
\* still fail, or has failed.
RowCurrent ==
  \A i \in Interp : life[i] = "alive" =>
    \A n \in linked[i] :
      \/ cache[id[i]][ContextOf[n]] \in {NoHandler, registered[i][n]}
      \/ \E p \in Frames :
           Placed(At(p)) /\ At(p).on = i /\ ContextOf[At(p).name] = ContextOf[n]

\* Steps that change no row, no import and no identifier.
Quiet ==
  /\ UNCHANGED <<cache, id, linked, registered>>
  /\ \A i \in Interp :
       /\ life'[i] = "alive" => life[i] = "alive"
       /\ life'[i] \in {"new", "loading", "failed"} => life[i] \in {"new", "loading", "failed"}
       /\ life'[i] = "gone" <=> life[i] = "gone"
  /\ \A p \in Frames : Placed(At(p)) =>
       p \in Frames' /\ Placed(At(p))' /\ At(p)'.on = At(p).on /\ At(p)'.name = At(p).name
  /\ \A p \in Frames' : At(p)'.at = "link" => p \in Frames /\ At(p)' = At(p)

LEMMA QuietPushes ==
  ASSUME IInv, NEW t \in Thread, NEW f \in Frame, Push(t, f), f.at # "link",
         UNCHANGED <<cache, id, linked, registered>>,
         \A i \in Interp :
           /\ life'[i] = "alive" => life[i] = "alive"
           /\ life'[i] \in {"new", "loading", "failed"} =>
                life[i] \in {"new", "loading", "failed"}
           /\ life'[i] = "gone" <=> life[i] = "gone"
  PROVE  Quiet
<1>1. PICK z :
        /\ z \notin Frames /\ At(z)' = f
        /\ Frames' = Frames \cup {z} /\ \A p \in Frames : At(p)' = At(p)
  BY Pushes
<1> QED
  BY <1>1 DEF Quiet, Placed

LEMMA QuietMoves ==
  ASSUME IInv, NEW t \in Thread, stack[t] # <<>>, NEW f \in Frame, GoTo(t, f), f.at # "link",
         Placed(Top(t)) => Placed(f) /\ f.on = Top(t).on /\ f.name = Top(t).name,
         UNCHANGED <<cache, id, life, linked, registered>>
  PROVE  Quiet
<1>1. PICK z \in Frames :
        /\ At(z) = Top(t) /\ At(z)' = f
        /\ Frames' = Frames /\ \A p \in Frames \ {z} : At(p)' = At(p)
  BY Moves
<1> QED
  BY <1>1 DEF Quiet, Placed

LEMMA QuietPops ==
  ASSUME IInv, NEW t \in Thread, stack[t] # <<>>, Pop(t), ~Placed(Top(t)),
         UNCHANGED <<cache, id, life, linked, registered>>
  PROVE  Quiet
<1>1. PICK z \in Frames :
        /\ At(z) = Top(t)
        /\ Frames' = Frames \ {z} /\ \A p \in Frames \ {z} : At(p)' = At(p)
  BY Pops
<1> QED
  BY <1>1 DEF Quiet, Placed

LEMMA QuietBegin ==
  ASSUME IInv, NEW t \in Thread, NEW i \in Interp,
         \/ BeginInit(t, i) \/ BeginCall(t, i) \/ BeginDeinit(t, i)
         \/ \E n \in Name, h \in Handler : BeginImport(t, i, n, h)
  PROVE  Quiet
<1>1. life \in [Interp -> {"new", "loading", "alive", "failed", "freed", "gone"}]
  BY DEF IInv, TypeOK
<1>2. CASE BeginInit(t, i)
  <2> DEFINE f == [op |-> "init", on |-> i, name |-> NoName, handler |-> NoHandler,
                   at |-> "enter"]
  <2>1. f \in Frame /\ f.at # "link"
    BY DEF Frame, Op, Place
  <2>2. Push(t, f) /\ UNCHANGED <<cache, id, linked, registered>>
        /\ life[i] = "new" /\ life' = [life EXCEPT ![i] = "loading"]
    BY <1>2 DEF BeginInit, shared
  <2> HIDE DEF f
  <2> QED
    BY <1>1, <2>1, <2>2, QuietPushes
<1>3. CASE BeginDeinit(t, i)
  <2> DEFINE f == [op |-> "deinit", on |-> i, name |-> NoName, handler |-> NoHandler,
                   at |-> "enter"]
  <2>1. f \in Frame /\ f.at # "link"
    BY DEF Frame, Op, Place
  <2>2. Push(t, f) /\ UNCHANGED <<cache, id, linked, registered>>
        /\ life' = [life EXCEPT ![i] = "freed"]
    BY <1>3 DEF BeginDeinit, shared
  <2>3. life[i] = "alive"
    BY <1>3 DEF BeginDeinit
  <2> HIDE DEF f
  <2> QED
    BY <1>1, <2>1, <2>2, <2>3, QuietPushes
<1>4. CASE BeginCall(t, i)
  <2> DEFINE f == [op |-> "call", on |-> i, name |-> NoName, handler |-> NoHandler,
                   at |-> "find"]
  <2>1. f \in Frame /\ f.at # "link"
    BY DEF Frame, Op, Place
  <2>2. Push(t, f) /\ UNCHANGED <<cache, id, linked, registered, life>>
    BY <1>4 DEF BeginCall, shared, objects
  <2> HIDE DEF f
  <2> QED
    BY <2>1, <2>2, QuietPushes
<1>5. ASSUME NEW n \in Name, NEW h \in Handler, BeginImport(t, i, n, h)
      PROVE  Quiet
  <2> DEFINE f == [op |-> "import", on |-> i, name |-> n, handler |-> h, at |-> "enter"]
  <2>1. f \in Frame /\ f.at # "link"
    BY DEF Frame, Op, Place
  <2>2. Push(t, f) /\ UNCHANGED <<cache, id, linked, registered, life>>
    BY <1>5 DEF BeginImport, shared, objects
  <2> HIDE DEF f
  <2> QED
    BY <2>1, <2>2, QuietPushes
<1> QED
  BY <1>2, <1>3, <1>4, <1>5

LEMMA QuietGoOn ==
  ASSUME IInv, NEW t \in Thread, stack[t] # <<>>, NEW a \in Place, GoOn(t, a), a # "link",
         Top(t).op = "import" => Top(t).at # "link",
         UNCHANGED <<cache, id, life, linked, registered>>
  PROVE  Quiet
<1>1. PICK f \in Frame :
        /\ GoTo(t, f)
        /\ f.op = Top(t).op /\ f.on = Top(t).on /\ f.name = Top(t).name /\ f.at = a
  BY WentOn
<1> QED
  BY <1>1, QuietMoves DEF Placed

LEMMA QuietSteps ==
  ASSUME IInv, ~crashed, NEW t \in Thread,
         \/ Enter(t) \/ Dispatch(t) \/ LinkFails(t) \/ AppendContext(t) \/ Relock(t)
         \/ FindCached(t) \/ Find(t) \/ Compile(t) \/ Found(t) \/ FindFails(t)
         \/ StartReturns(t) \/ StartTraps(t) \/ HandlerReturns(t) \/ CallReturns(t)
  PROVE  Quiet
<1> USE DEF Is, Place, shared, objects
<1>1. CASE Enter(t)
  BY <1>1, QuietGoOn DEF Enter, EnterFrom
<1>2. CASE FindCached(t) \/ Find(t) \/ Found(t) \/ StartReturns(t)
  BY <1>2, QuietGoOn DEF FindCached, Find, Found, StartReturns
<1>3. CASE Compile(t)
  BY <1>3, QuietGoOn DEF Compile
<1>4. CASE AppendContext(t) \/ FindFails(t) \/ StartTraps(t) \/ HandlerReturns(t)
           \/ CallReturns(t)
  BY <1>4, QuietPops DEF AppendContext, FindFails, StartTraps, FindThrows, HandlerReturns,
     CallReturns, Placed
<1>5. CASE Dispatch(t)
  <2> DEFINE h == Looked(t)
             f == [Top(t) EXCEPT !.handler = h, !.at = "handler"]
  <2>1. /\ stack[t] # <<>> /\ Top(t).op = "host" /\ Top(t).at = "inside" /\ GoTo(t, f)
        /\ h # NoHandler /\ UNCHANGED <<cache, id, life, linked, registered>>
    BY <1>5 DEF Dispatch
  <2>2. h \in Handler
    <3>1. /\ id[Top(t).on] \in 1..MaxId /\ ContextOf[Top(t).name] \in Context
          /\ seen[t].cache = cache
      BY <2>1, InsideContext, Inside
    <3> QED
      BY <2>1, <3>1 DEF Looked, IInv, TypeOK, Row
  <2>3. f \in Frame /\ f.at = "handler"
    BY <2>1, <2>2, Tops DEF Frame
  <2> HIDE DEF f, h
  <2> QED
    BY <2>1, <2>3, QuietMoves DEF Placed
<1>6. CASE LinkFails(t)
  <2> DEFINE f == [Top(t) EXCEPT !.op = "unimport", !.at = "enter"]
  <2>1. /\ stack[t] # <<>> /\ GoTo(t, f) /\ UNCHANGED <<cache, id, life, linked, registered>>
    BY <1>6 DEF LinkFails
  <2>2. /\ f \in Frame /\ f.op = "unimport" /\ f.at = "enter" /\ f.on = Top(t).on
        /\ f.name = Top(t).name
    BY <2>1, Tops DEF Frame, Op
  <2> HIDE DEF f
  <2> QED
    BY <2>1, <2>2, QuietMoves DEF Placed
<1>7. CASE Relock(t)
  BY <1>7 DEF Relock, Quiet, Frames, At, Placed
<1> QED
  BY <1>1, <1>2, <1>3, <1>4, <1>5, <1>6, <1>7

LEMMA QuietCallImport ==
  ASSUME IInv, NEW t \in Thread, NEW m \in Name, CallImport(t, m)
  PROVE  Quiet
<1> DEFINE f == [op |-> "host", on |-> Top(t).on, name |-> m, handler |-> NoHandler,
                 at |-> "enter"]
<1>1. stack[t] # <<>> /\ Push(t, f) /\ UNCHANGED <<cache, id, linked, registered, life>>
  BY DEF CallImport, Is, shared, objects
<1>2. f \in Frame /\ f.at # "link"
  BY <1>1, Tops DEF Frame, Op, Place
<1> HIDE DEF f
<1> QED
  BY <1>1, <1>2, QuietPushes

LEMMA QuietTrap ==
  ASSUME IInv, NEW t \in Thread, Trap(t)
  PROVE  Quiet
<1>1. PICK n \in 0..Len(stack[t]), caller \in Frame :
        /\ caller = stack[t][Len(stack[t]) - 1] /\ Calling(caller) /\ caller.op = "call"
        /\ Cut(t, n) /\ stack' \in [Thread -> Seq(Frame)]
        /\ Frames' = Kept(t, n) /\ \A p \in Kept(t, n) : At(p)' = At(p)
        /\ Kept(t, n) \subseteq Frames /\ <<t, Len(stack[t])>> \notin Kept(t, n)
        /\ \A p \in Frames \ Kept(t, n) :
             p[1] = t /\ ((p[2] = Len(stack[t]) /\ At(p) = Top(t)) \/ At(p) = caller)
  BY Unwinds
<1>2. Top(t).op = "host" /\ UNCHANGED <<cache, id, life, linked, registered>>
  BY DEF Trap, Is, shared, objects
<1> QED
  BY <1>1, <1>2 DEF Quiet, Placed

LEMMA QuietNext ==
  ASSUME IInv, ~crashed, NEW t \in Thread,
         \/ Begin(t) \/ Finish(t) \/ \E n \in Name : CallImport(t, n)
         \/ /\ Step(t)
            /\ ~RetrieveID(t) /\ ~AddImportedFunction(t) /\ ~RemoveImportedFunction(t)
            /\ ~RemoveImportedFunctions(t) /\ ~Load(t) /\ ~Link(t)
  PROVE  Quiet
<1>1. CASE Begin(t)
  BY <1>1, QuietBegin DEF Begin
<1>2. CASE Finish(t)
  BY <1>2, QuietSteps DEF Finish
<1>3. CASE \E n \in Name : CallImport(t, n)
  BY <1>3, QuietCallImport
<1>4. CASE /\ Step(t)
           /\ ~RetrieveID(t) /\ ~AddImportedFunction(t) /\ ~RemoveImportedFunction(t)
           /\ ~RemoveImportedFunctions(t) /\ ~Load(t) /\ ~Link(t)
  BY <1>4, QuietSteps, QuietTrap DEF Step
<1> QED
  BY <1>1, <1>2, <1>3, <1>4

LEMMA QuietStutter ==
  ASSUME UNCHANGED vars
  PROVE  Quiet
BY DEF vars, shared, objects, Quiet, Frames, At, Placed

LEMMA QuietBlocks ==
  ASSUME IInv, Quiet
  PROVE  /\ ImportCached => ImportCached'
         /\ LinkedImports => LinkedImports'
         /\ RowCurrent => RowCurrent'
         /\ BlocksStay
<1>1. ImportCached => ImportCached'
  BY DEF Quiet, ImportCached
<1>2. LinkedImports => LinkedImports'
  BY DEF Quiet, LinkedImports
<1>3. RowCurrent => RowCurrent'
  <2>1. SUFFICES ASSUME RowCurrent, NEW i \in Interp, life'[i] = "alive", NEW n \in linked'[i],
                        cache'[id'[i]][ContextOf[n]] \notin {NoHandler, registered'[i][n]}
                 PROVE  \E p \in Frames' : Placed(At(p))' /\ At(p)'.on = i
                                           /\ ContextOf[At(p)'.name] = ContextOf[n]
    BY DEF RowCurrent, Placed
  <2>2. PICK p \in Frames :
          Placed(At(p)) /\ At(p).on = i /\ ContextOf[At(p).name] = ContextOf[n]
    BY <2>1 DEF RowCurrent, Quiet
  <2> QED
    BY <2>2 DEF Quiet
<1>4. BlocksStay
  BY DEF Quiet, BlocksStay, Bare
<1> QED
  BY <1>1, <1>2, <1>3, <1>4

\* Frames inside or between the two halves of an import are on top of their stacks, ...
LEMMA PlacedTop ==
  ASSUME IInv, NEW p \in Frames, At(p).op \in {"import", "unimport"}
  PROVE  /\ stack[p[1]] # <<>> /\ At(p) = Top(p[1]) /\ p = <<p[1], Len(stack[p[1]])>>
         /\ life[At(p).on] = "alive" /\ id[At(p).on] \in 1..MaxId /\ At(p).name \in Name
<1>1. /\ p[1] \in Thread /\ p = <<p[1], p[2]>> /\ p[2] \in 1..Len(stack[p[1]])
      /\ ~(p[2] < Len(stack[p[1]])) /\ Legal(At(p)) /\ At(p).on \in Interp
  BY FrameTypes DEF Calling
<1>2. stack[p[1]] \in Seq(Frame) /\ Len(stack[p[1]]) \in Nat
  BY <1>1 DEF IInv, TypeOK
<1>3. p[2] = Len(stack[p[1]]) /\ stack[p[1]] # <<>>
  BY <1>1, <1>2
<1>4. life[At(p).on] = "alive" /\ At(p).name \in Name
  BY <1>1 DEF IInv, Shape, FramesLive, LifeFor, Legal
<1>5. id[At(p).on] # 0 /\ id[At(p).on] \in 0..MaxId
  BY <1>1, <1>4 DEF IInv, IdsGiven, TypeOK
<1>6. \A k \in 0..MaxId : k # 0 => k \in 1..MaxId
  BY InterpretersAssumption
<1> QED
  BY <1>1, <1>3, <1>4, <1>5, <1>6 DEF At, Top

\* ... and so of one thread and one interpreter, where it has one user.
LEMMA Alone ==
  ASSUME IInv, OneUser, NEW t \in Thread, stack[t] # <<>>,
         NEW p \in Frames, At(p).op \in {"import", "unimport"}, At(p).on = Top(t).on
  PROVE  p = <<t, Len(stack[t])>> /\ At(p) = Top(t)
<1> DEFINE z == <<t, Len(stack[t])>>
<1>1. z \in Frames /\ At(z) = Top(t) /\ z[1] = t
  BY Tops
<1> HIDE DEF z
<1>2. p[1] \in Users[At(p).on] /\ t \in Users[At(p).on]
  BY <1>1 DEF IInv, Shape, FramesOfUsers
<1>3. p[1] = t
  BY <1>2, FrameTypes DEF OneUser
<1> QED
  BY <1>3, PlacedTop

LEMMA LinkingOp ==
  ASSUME IInv, NEW p \in Frames, At(p).at = "link"
  PROVE  At(p).op = "import" /\ Placed(At(p))
BY FrameTypes DEF Legal, Placed

LEMMA RetrieveIDBlocks ==
  ASSUME IInv, NEW t \in Thread, RetrieveID(t)
  PROVE  /\ ImportCached => ImportCached'
         /\ LinkedImports => LinkedImports'
         /\ RowCurrent => RowCurrent'
         /\ BlocksStay
<1>1. /\ stack[t] # <<>> /\ Top(t).op = "init" /\ Top(t).at = "inside" /\ GoOn(t, "load")
      /\ id' = [id EXCEPT ![Top(t).on] = seen[t].id + 1]
      /\ UNCHANGED <<cache, life, linked, registered>>
  BY DEF RetrieveID, Is
<1>2. PICK f \in Frame :
        /\ GoTo(t, f)
        /\ f.op = Top(t).op /\ f.on = Top(t).on /\ f.name = Top(t).name
        /\ f.handler = Top(t).handler /\ f.at = "load"
  BY <1>1, WentOn DEF Place
<1>3. PICK z \in Frames :
        /\ At(z) = Top(t) /\ At(z)' = f
        /\ Frames' = Frames /\ \A p \in Frames \ {z} : At(p)' = At(p)
  BY <1>1, <1>2, Moves
<1>4. life[Top(t).on] = "loading"
  BY <1>1, Tops DEF LifeFor
<1>5. \A i \in Interp : life[i] = "alive" => id'[i] = id[i]
  BY <1>1, <1>4 DEF IInv, TypeOK
<1>6. ImportCached => ImportCached'
  <2>1. SUFFICES ASSUME ImportCached, NEW p \in Frames, At(p)'.at = "link"
                 PROVE  cache'[id'[At(p)'.on]][ContextOf[At(p)'.name]] = At(p)'.handler
    BY <1>3 DEF ImportCached
  <2>2. p # z /\ At(p)' = At(p) /\ At(p).at = "link"
    BY <1>2, <1>3, <2>1
  <2>3. life[At(p).on] = "alive" /\ At(p).on \in Interp
    BY <2>2, LinkingOp, PlacedTop, FrameTypes
  <2> QED
    BY <2>1, <2>2, <2>3, <1>1, <1>5 DEF ImportCached
<1>7. LinkedImports => LinkedImports'
  BY <1>1 DEF LinkedImports
<1>8. RowCurrent => RowCurrent'
  BY <1>1, <1>3, <1>5 DEF RowCurrent, Placed
<1>9. BlocksStay
  BY <1>1, <1>5 DEF BlocksStay, Bare
<1> QED
  BY <1>6, <1>7, <1>8, <1>9

LEMMA LoadBlocks ==
  ASSUME IInv, NEW t \in Thread, Load(t)
  PROVE  /\ ImportCached => ImportCached'
         /\ LinkedImports => LinkedImports'
         /\ LinkedImports /\ RowCurrent => RowCurrent'
         /\ BlocksStay
<1>1. stack[t] # <<>> /\ Top(t).op = "init" /\ Top(t).at = "load" /\ Pop(t)
  BY DEF Load, Is
<1>2. PICK result \in {"alive", "failed"} : life' = [life EXCEPT ![Top(t).on] = result]
  BY DEF Load
<1>3. UNCHANGED <<cache, id, linked, registered>>
  BY DEF Load, shared
<1>4. PICK z \in Frames :
        /\ At(z) = Top(t) /\ Frames' = Frames \ {z} /\ \A p \in Frames \ {z} : At(p)' = At(p)
  BY <1>1, Pops
<1>5. Top(t).on \in Interp /\ life[Top(t).on] = "loading"
  BY <1>1, Tops DEF LifeFor
<1>6. \A j \in Interp : j # Top(t).on => life'[j] = life[j]
  BY <1>2
<1>7. ImportCached => ImportCached'
  BY <1>3, <1>4 DEF ImportCached
<1>8. LinkedImports => LinkedImports'
  BY <1>3, <1>5, <1>6 DEF LinkedImports
<1>9. LinkedImports /\ RowCurrent => RowCurrent'
  <2>1. SUFFICES ASSUME LinkedImports, RowCurrent, NEW i \in Interp, life'[i] = "alive",
                        NEW n \in linked'[i],
                        cache'[id'[i]][ContextOf[n]] \notin {NoHandler, registered'[i][n]}
                 PROVE  \E p \in Frames' : Placed(At(p))' /\ At(p)'.on = i
                                           /\ ContextOf[At(p)'.name] = ContextOf[n]
    BY DEF RowCurrent, Placed
  <2>2. life[i] = "alive"
    BY <2>1, <1>3, <1>5, <1>6 DEF LinkedImports
  <2>3. PICK p \in Frames :
          Placed(At(p)) /\ At(p).on = i /\ ContextOf[At(p).name] = ContextOf[n]
    BY <2>1, <2>2, <1>3 DEF RowCurrent
  <2> QED
    BY <2>3, <1>1, <1>4 DEF Placed
<1>10. BlocksStay
  BY <1>3 DEF BlocksStay, Bare
<1> QED
  BY <1>7, <1>8, <1>9, <1>10

\* Only the row of one interpreter changes.
LEMMA OtherRows ==
  ASSUME IInv, NEW i \in Interp, id[i] # 0,
         \A k \in 1..MaxId : k # id[i] => cache'[k] = cache[k]
  PROVE  \A j \in Interp : j # i /\ life[j] \in {"alive", "freed"} =>
           id[j] \in 1..MaxId /\ cache'[id[j]] = cache[id[j]]
<1>1. SUFFICES ASSUME NEW j \in Interp, j # i, life[j] \in {"alive", "freed"}
               PROVE  id[j] \in 1..MaxId /\ cache'[id[j]] = cache[id[j]]
  OBVIOUS
<1>2. id[j] # 0 /\ id[j] # id[i] /\ id[j] \in 0..MaxId
  BY <1>1 DEF IInv, IdsGiven, TypeOK
<1>3. \A k \in 0..MaxId : k # 0 => k \in 1..MaxId
  BY InterpretersAssumption
<1> QED
  BY <1>2, <1>3

LEMMA AddImportedFunctionBlocks ==
  ASSUME IInv, OneUser, NEW t \in Thread, AddImportedFunction(t)
  PROVE  /\ ImportCached => ImportCached'
         /\ LinkedImports => LinkedImports'
         /\ RowCurrent => RowCurrent'
         /\ BlocksStay
<1>1. /\ stack[t] # <<>> /\ Top(t).op = "import" /\ Top(t).at = "inside" /\ GoOn(t, "link")
      /\ SetHandler(t, Top(t).handler)
      /\ UNCHANGED <<id, life, linked, registered>>
  BY DEF AddImportedFunction, Is, objects
<1> DEFINE i == Top(t).on
           k == id[i]
           c == ContextOf[Top(t).name]
<1>2. k \in 1..MaxId /\ c \in Context /\ i \in Interp
  BY <1>1, InsideContext
<1>3. cache' = [cache EXCEPT ![k][c] = Top(t).handler]
  BY <1>1, Inside DEF SetHandler
<1>4. PICK f \in Frame :
        /\ GoTo(t, f)
        /\ f.op = Top(t).op /\ f.on = Top(t).on /\ f.name = Top(t).name
        /\ f.handler = Top(t).handler /\ f.at = "link"
  BY <1>1, WentOn DEF Place
<1>5. Top(t).handler \in Handler /\ Top(t).handler # NoHandler
  BY <1>1, Tops, InterpretersAssumption DEF Legal
<1> HIDE DEF k, c
<1>6. /\ cache'[k][c] = Top(t).handler
      /\ \A d \in Context : d # c => cache'[k][d] = cache[k][d]
      /\ \A j \in 1..MaxId : j # k => cache'[j] = cache[j]
  <2> DEFINE h == Top(t).handler
  <2>1. h \in Handler \cup {NoHandler} /\ cache' = [cache EXCEPT ![k][c] = h]
    BY <1>3, <1>5
  <2> HIDE DEF h
  <2>2. cache'[k][c] = h
    <3>1. cache \in [1..MaxId -> Row] /\ cache[k] \in [Context -> Handler \cup {NoHandler}]
      BY <1>2 DEF IInv, TypeOK, Row
    <3> QED
      BY <1>2, <2>1, <3>1
  <2>3. /\ \A d \in Context : d # c => cache'[k][d] = cache[k][d]
        /\ \A j \in 1..MaxId : j # k => cache'[j] = cache[j]
    BY <1>2, <2>1, RowChanged
  <2> QED
    BY <2>2, <2>3 DEF h
<1>7. PICK z \in Frames :
        /\ z[1] = t /\ At(z) = Top(t) /\ At(z)' = f
        /\ Frames' = Frames /\ \A p \in Frames \ {z} : At(p)' = At(p)
  BY <1>1, <1>4, Moves
<1>8. \A j \in Interp : j # i /\ life[j] = "alive" => cache'[id[j]] = cache[id[j]]
  BY <1>2, <1>6, OtherRows DEF k
<1>9. ImportCached => ImportCached'
  <2>1. SUFFICES ASSUME ImportCached, NEW p \in Frames, At(p)'.at = "link"
                 PROVE  cache'[id'[At(p)'.on]][ContextOf[At(p)'.name]] = At(p)'.handler
    BY <1>7 DEF ImportCached
  <2>2. CASE p = z
    BY <2>2, <1>1, <1>4, <1>6, <1>7 DEF k, c
  <2>3. CASE p # z
    <3>1. At(p)' = At(p) /\ At(p).at = "link"
      BY <2>1, <2>3, <1>7
    <3>2. At(p).op = "import" /\ life[At(p).on] = "alive" /\ At(p).on \in Interp
      BY <3>1, LinkingOp, PlacedTop, FrameTypes
    <3>3. At(p).on # i
      BY <3>1, <3>2, <1>1, Alone
    <3> QED
      BY <2>1, <3>1, <3>2, <3>3, <1>1, <1>8 DEF ImportCached
  <2> QED
    BY <2>2, <2>3
<1>10. LinkedImports => LinkedImports'
  BY <1>1 DEF LinkedImports
<1>11. \A n \in Name : ContextOf[n] \in Context
  BY InterpretersAssumption
<1>12. \A j \in Interp : linked[j] \subseteq Name
  BY DEF IInv, TypeOK
<1>13. RowCurrent => RowCurrent'
  <2>1. SUFFICES ASSUME RowCurrent, NEW j \in Interp, life'[j] = "alive",
                        NEW n \in linked'[j],
                        cache'[id'[j]][ContextOf[n]] \notin {NoHandler, registered'[j][n]}
                 PROVE  \E p \in Frames' : Placed(At(p))' /\ At(p)'.on = j
                                           /\ ContextOf[At(p)'.name] = ContextOf[n]
    BY DEF RowCurrent, Placed
  <2>2. CASE j = i /\ ContextOf[n] = c
    BY <2>2, <1>4, <1>7, <1>1 DEF Placed, c
  <2>3. CASE ~(j = i /\ ContextOf[n] = c)
    <3>1. cache'[id'[j]][ContextOf[n]] = cache[id[j]][ContextOf[n]]
      BY <2>1, <2>3, <1>1, <1>6, <1>8, <1>11, <1>12 DEF k
    <3>2. PICK p \in Frames :
            Placed(At(p)) /\ At(p).on = j /\ ContextOf[At(p).name] = ContextOf[n]
      BY <2>1, <3>1, <1>1 DEF RowCurrent
    <3>3. p # z
      BY <3>2, <1>1, <1>7 DEF Placed
    <3> QED
      BY <3>2, <3>3, <1>7 DEF Placed
  <2> QED
    BY <2>2, <2>3
<1>14. BlocksStay
  <2>1. \A j \in Interp : life[j] = "alive" => Bare(j)' \subseteq Bare(j)
    <3>1. SUFFICES ASSUME NEW j \in Interp, life[j] = "alive", NEW n \in linked[j],
                          cache'[id[j]][ContextOf[n]] = NoHandler
                   PROVE  cache[id[j]][ContextOf[n]] = NoHandler
      BY <1>1 DEF Bare
    <3> QED
      BY <3>1, <1>5, <1>6, <1>8, <1>11, <1>12 DEF k
  <2> QED
    BY <1>1, <2>1 DEF BlocksStay
<1> QED
  BY <1>9, <1>10, <1>13, <1>14

LEMMA RemoveImportedFunctionBlocks ==
  ASSUME IInv, OneUser, NEW t \in Thread, RemoveImportedFunction(t)
  PROVE  /\ ImportCached => ImportCached'
         /\ LinkedImports => LinkedImports'
         /\ RowCurrent => RowCurrent'
         /\ BlocksStay
<1>1. /\ stack[t] # <<>> /\ Top(t).op = "unimport" /\ Top(t).at = "inside" /\ Pop(t)
      /\ SetHandler(t, NoHandler)
      /\ UNCHANGED <<id, life, linked, registered>>
  BY DEF RemoveImportedFunction, Is, objects
<1> DEFINE i == Top(t).on
           k == id[i]
           c == ContextOf[Top(t).name]
<1>2. k \in 1..MaxId /\ c \in Context /\ i \in Interp
  BY <1>1, InsideContext
<1>3. cache' = [cache EXCEPT ![k][c] = NoHandler]
  BY <1>1, Inside DEF SetHandler
<1> HIDE DEF k, c
<1>4. /\ cache'[k][c] = NoHandler
      /\ \A d \in Context : d # c => cache'[k][d] = cache[k][d]
      /\ \A j \in 1..MaxId : j # k => cache'[j] = cache[j]
  <2>1. cache \in [1..MaxId -> Row] /\ cache[k] \in [Context -> Handler \cup {NoHandler}]
    BY <1>2 DEF IInv, TypeOK, Row
  <2> QED
    BY <1>2, <1>3, <2>1
<1>5. PICK z \in Frames :
        /\ z[1] = t /\ At(z) = Top(t)
        /\ Frames' = Frames \ {z} /\ \A p \in Frames \ {z} : At(p)' = At(p)
  BY <1>1, Pops
<1>6. \A j \in Interp : j # i /\ life[j] = "alive" => cache'[id[j]] = cache[id[j]]
  BY <1>2, <1>4, OtherRows DEF k
<1>7. ImportCached => ImportCached'
  <2>1. SUFFICES ASSUME ImportCached, NEW p \in Frames, p # z, At(p)'.at = "link"
                 PROVE  cache'[id'[At(p)'.on]][ContextOf[At(p)'.name]] = At(p)'.handler
    BY <1>5 DEF ImportCached
  <2>2. At(p)' = At(p) /\ At(p).at = "link"
    BY <2>1, <1>5
  <2>3. At(p).op = "import" /\ life[At(p).on] = "alive" /\ At(p).on \in Interp
    BY <2>2, LinkingOp, PlacedTop, FrameTypes
  <2>4. At(p).on # i
    BY <2>2, <2>3, <1>1, Alone
  <2> QED
    BY <2>1, <2>2, <2>3, <2>4, <1>1, <1>6 DEF ImportCached
<1>8. LinkedImports => LinkedImports'
  BY <1>1 DEF LinkedImports
<1>9. /\ \A n \in Name : ContextOf[n] \in Context
      /\ \A j \in Interp : linked[j] \subseteq Name
  BY InterpretersAssumption DEF IInv, TypeOK
<1>10. ASSUME NEW j \in Interp, life[j] = "alive", NEW n \in linked[j],
              ~(j = i /\ ContextOf[n] = c)
       PROVE  cache'[id[j]][ContextOf[n]] = cache[id[j]][ContextOf[n]]
  BY <1>10, <1>4, <1>6, <1>9 DEF k
<1>11. RowCurrent => RowCurrent'
  <2>1. SUFFICES ASSUME RowCurrent, NEW j \in Interp, life'[j] = "alive",
                        NEW n \in linked'[j],
                        cache'[id'[j]][ContextOf[n]] \notin {NoHandler, registered'[j][n]}
                 PROVE  \E p \in Frames' : Placed(At(p))' /\ At(p)'.on = j
                                           /\ ContextOf[At(p)'.name] = ContextOf[n]
    BY DEF RowCurrent, Placed
  <2>2. ~(j = i /\ ContextOf[n] = c)
    BY <2>1, <1>1, <1>4 DEF k
  <2>3. PICK p \in Frames :
          Placed(At(p)) /\ At(p).on = j /\ ContextOf[At(p).name] = ContextOf[n]
    BY <2>1, <2>2, <1>1, <1>10 DEF RowCurrent
  <2>4. p # z
    BY <2>2, <2>3, <1>5 DEF c
  <2> QED
    BY <2>3, <2>4, <1>5 DEF Placed
<1>12. BlocksStay
  <2>1. SUFFICES ASSUME NEW j \in Interp, life[j] = "alive", NEW n \in linked[j],
                        cache'[id[j]][ContextOf[n]] = NoHandler,
                        cache[id[j]][ContextOf[n]] # NoHandler
                 PROVE  ImportFails(t, j, ContextOf[n])
    BY <1>1 DEF BlocksStay, Bare
  <2>2. j = i /\ ContextOf[n] = c
    BY <2>1, <1>10
  <2> QED
    BY <2>2, <1>1 DEF ImportFails, Is, c
<1> QED
  BY <1>7, <1>8, <1>11, <1>12

LEMMA RemoveImportedFunctionsBlocks ==
  ASSUME IInv, OneUser, NEW t \in Thread, RemoveImportedFunctions(t)
  PROVE  /\ ImportCached => ImportCached'
         /\ LinkedImports => LinkedImports'
         /\ RowCurrent => RowCurrent'
         /\ BlocksStay
<1> DEFINE i == Top(t).on
<1>1. /\ stack[t] # <<>> /\ Top(t).op = "deinit" /\ Top(t).at = "inside" /\ Pop(t)
      /\ cache' = [seen[t].cache EXCEPT ![id[i]] = EmptyRow]
      /\ life' = [life EXCEPT ![i] = "gone"]
      /\ UNCHANGED <<id, linked, registered>>
  BY DEF RemoveImportedFunctions, Is
<1>2. i \in Interp /\ seen[t].cache = cache /\ id[i] \in 1..MaxId
  BY <1>1, Tops, Inside
<1>3. PICK z \in Frames :
        /\ At(z) = Top(t) /\ Frames' = Frames \ {z} /\ \A p \in Frames \ {z} : At(p)' = At(p)
  BY <1>1, Pops
<1>4. life'[i] = "gone" /\ \A j \in Interp : j # i => life'[j] = life[j]
  BY <1>1, <1>2 DEF IInv, TypeOK
<1>5. life[i] = "freed"
  BY <1>1, Tops DEF LifeFor
<1>6. \A j \in Interp : j # i /\ life[j] = "alive" => cache'[id[j]] = cache[id[j]]
  <2>1. \A k \in 1..MaxId : k # id[i] => cache'[k] = cache[k]
    BY <1>1, <1>2 DEF IInv, TypeOK
  <2> QED
    BY <1>2, <2>1, OtherRows
<1> HIDE DEF i
<1>7. ImportCached => ImportCached'
  <2>1. SUFFICES ASSUME ImportCached, NEW p \in Frames, p # z, At(p)'.at = "link"
                 PROVE  cache'[id'[At(p)'.on]][ContextOf[At(p)'.name]] = At(p)'.handler
    BY <1>3 DEF ImportCached
  <2>2. At(p)' = At(p) /\ At(p).at = "link"
    BY <2>1, <1>3
  <2>3. life[At(p).on] = "alive" /\ At(p).on \in Interp
    BY <2>2, LinkingOp, PlacedTop, FrameTypes
  <2> QED
    BY <2>1, <2>2, <2>3, <1>1, <1>5, <1>6 DEF ImportCached
<1>8. LinkedImports => LinkedImports'
  BY <1>1, <1>4 DEF LinkedImports
<1>9. RowCurrent => RowCurrent'
  BY <1>1, <1>3, <1>4, <1>5, <1>6 DEF RowCurrent, Placed
<1>10. BlocksStay
  BY <1>1, <1>4, <1>5, <1>6 DEF BlocksStay, Bare
<1> QED
  BY <1>7, <1>8, <1>9, <1>10

LEMMA LinkBlocks ==
  ASSUME IInv, OneUser, NEW t \in Thread, Link(t), ImportCached, LinkedImports
  PROVE  /\ ImportCached'
         /\ LinkedImports'
         /\ ContextsApart /\ RowCurrent => RowCurrent'
         /\ BlocksStay
<1>1. stack[t] # <<>> /\ Top(t).op = "import" /\ Top(t).at = "link" /\ GoOn(t, "append")
  BY DEF Link, Is
<1>2. PICK f \in Frame :
        /\ GoTo(t, f)
        /\ f.op = Top(t).op /\ f.on = Top(t).on /\ f.name = Top(t).name
        /\ f.handler = Top(t).handler /\ f.at = "append"
  BY <1>1, WentOn DEF Place
<1>3. Legal(f) /\ f.on \in Interp /\ f.name \in Name /\ f.handler \in Handler
      /\ f.handler # NoHandler /\ <<f.name, f.handler>> \in Imports[f.on]
      /\ life[f.on] = "alive"
  BY <1>1, <1>2, Tops, InterpretersAssumption DEF Legal, LifeFor
<1>4. /\ UNCHANGED <<cache, id, life>>
      /\ linked' = [linked EXCEPT ![f.on] = @ \cup {f.name}]
      /\ registered' = [registered EXCEPT ![f.on][f.name] = f.handler]
  BY <1>2 DEF Link, shared
<1>5. PICK z \in Frames :
        /\ z[1] = t /\ At(z) = Top(t) /\ At(z)' = f
        /\ Frames' = Frames /\ \A p \in Frames \ {z} : At(p)' = At(p)
  BY <1>1, <1>2, Moves
<1>6. cache[id[f.on]][ContextOf[f.name]] = f.handler
  BY <1>1, <1>2, <1>5 DEF ImportCached
<1>7. /\ linked'[f.on] = linked[f.on] \cup {f.name}
      /\ \A j \in Interp : j # f.on => linked'[j] = linked[j]
      /\ registered'[f.on][f.name] = f.handler
      /\ \A n \in Name : n # f.name => registered'[f.on][n] = registered[f.on][n]
      /\ \A j \in Interp : j # f.on => registered'[j] = registered[j]
  <2>1. /\ linked \in [Interp -> SUBSET Name]
        /\ registered \in [Interp -> [Name -> Handler \cup {NoHandler}]]
        /\ registered[f.on] \in [Name -> Handler \cup {NoHandler}]
    BY <1>3 DEF IInv, TypeOK
  <2> QED
    BY <1>3, <1>4, <2>1
<1>8. ImportCached'
  BY <1>2, <1>4, <1>5 DEF ImportCached
<1>9. LinkedImports'
  BY <1>3, <1>4, <1>7 DEF LinkedImports
<1>10. ContextsApart /\ RowCurrent => RowCurrent'
  <2>1. SUFFICES ASSUME ContextsApart, RowCurrent, NEW j \in Interp, life'[j] = "alive",
                        NEW n \in linked'[j],
                        cache'[id'[j]][ContextOf[n]] \notin {NoHandler, registered'[j][n]}
                 PROVE  \E p \in Frames' : Placed(At(p))' /\ At(p)'.on = j
                                           /\ ContextOf[At(p)'.name] = ContextOf[n]
    BY DEF RowCurrent, Placed
  <2>2. ~(j = f.on /\ n = f.name)
    BY <2>1, <1>4, <1>6, <1>7
  <2>3. n \in linked[j] /\ n \in Name /\ registered'[j][n] = registered[j][n]
    BY <2>1, <2>2, <1>7 DEF IInv, TypeOK
  <2>4. ~(j = f.on /\ ContextOf[n] = ContextOf[f.name])
    <3>1. PICK h \in Handler : <<n, h>> \in Imports[j]
      BY <2>3 DEF LinkedImports
    <3>2. \A a, b \in Imports[j] : ContextOf[a[1]] = ContextOf[b[1]] => a[1] = b[1]
      BY <2>1 DEF ContextsApart
    <3>3. j = f.on => <<f.name, f.handler>> \in Imports[j]
      BY <1>3
    <3>4. j = f.on /\ ContextOf[n] = ContextOf[f.name] => n = f.name
      <4> DEFINE a == <<n, h>>
                 b == <<f.name, f.handler>>
      <4>1. a[1] = n /\ b[1] = f.name /\ a \in Imports[j] /\ (j = f.on => b \in Imports[j])
        BY <3>1, <3>3
      <4> HIDE DEF a, b
      <4> QED
        BY <4>1, <3>2
    <3> QED
      BY <3>4, <2>2
  <2>5. PICK p \in Frames :
          Placed(At(p)) /\ At(p).on = j /\ ContextOf[At(p).name] = ContextOf[n]
    BY <2>1, <2>3, <1>4 DEF RowCurrent
  <2>6. p # z
    BY <2>4, <2>5, <1>2, <1>5
  <2> QED
    BY <2>5, <2>6, <1>5 DEF Placed
<1>11. BlocksStay
  <2>1. \A j \in Interp : Bare(j)' \subseteq Bare(j)
    BY <1>3, <1>4, <1>6, <1>7 DEF Bare
  <2> QED
    BY <2>1 DEF BlocksStay
<1> QED
  BY <1>8, <1>9, <1>10, <1>11

LEMMA BlocksNext ==
  ASSUME IInv, OneUser, ImportCached, LinkedImports, [Next]_vars
  PROVE  /\ ImportCached' /\ LinkedImports'
         /\ ContextsApart /\ RowCurrent => RowCurrent'
         /\ BlocksStay
<1>1. CASE UNCHANGED vars
  BY <1>1, QuietStutter, QuietBlocks
<1>2. ASSUME ~crashed, NEW t \in Thread,
             Begin(t) \/ Step(t) \/ Finish(t) \/ \E n \in Name : CallImport(t, n)
      PROVE  /\ ImportCached' /\ LinkedImports'
             /\ ContextsApart /\ RowCurrent => RowCurrent'
             /\ BlocksStay
  <2>1. CASE RetrieveID(t)
    BY <2>1, RetrieveIDBlocks
  <2>2. CASE AddImportedFunction(t)
    BY <2>2, AddImportedFunctionBlocks
  <2>3. CASE RemoveImportedFunction(t)
    BY <2>3, RemoveImportedFunctionBlocks
  <2>4. CASE RemoveImportedFunctions(t)
    BY <2>4, RemoveImportedFunctionsBlocks
  <2>5. CASE Load(t)
    BY <2>5, LoadBlocks
  <2>6. CASE Link(t)
    BY <2>6, LinkBlocks
  <2>7. CASE Quiet
    BY <2>7, QuietBlocks
  <2> QED
    BY <1>2, <2>1, <2>2, <2>3, <2>4, <2>5, <2>6, <2>7, QuietNext
<1>3. CASE Done
  BY <1>1, <1>3 DEF Done
<1> QED
  BY <1>1, <1>2, <1>3 DEF Next

LEMMA BlocksInit ==
  ASSUME Init
  PROVE  ImportCached /\ LinkedImports /\ RowCurrent
<1>1. Frames = {}
  BY DEF Init, Frames
<1> QED
  BY <1>1 DEF Init, ImportCached, LinkedImports, RowCurrent

\* Where an interpreter is used by one thread, a linked import that has a block keeps one
\* for as long as the interpreter lives: another import, a deinit or an init of any thread
\* does not take it, only an import into the same interpreter under the same hash that has
\* failed (ImportFunctionCache.swift:20, :31, :39).
THEOREM BlocksKept ==
  ASSUME OneUser
  PROVE  Spec => HandlerKept
<1> DEFINE KInv == IInv /\ ImportCached /\ LinkedImports
<1>1. Init => KInv
  BY InitInv, BlocksInit
<1>2. KInv /\ [Next]_vars => KInv'
  BY NextInv, BlocksNext
<1>3. KInv /\ [Next]_vars => [BlocksStay]_vars
  BY BlocksNext
<1> QED
  BY <1>1, <1>2, <1>3, PTL DEF Spec, HandlerKept

\* Where, besides, the hashes tell the imports of an interpreter apart, the block that is
\* called is the one imported last with success for that namespace and name
\* (Interpreter.swift:107): another one can be in the cache only while the one thread of
\* the interpreter is importing, and then it calls nothing.
THEOREM OwnBlockCalled ==
  ASSUME OneUser, ContextsApart
  PROVE  Spec => BlocksMatch
<1> DEFINE KInv == IInv /\ ImportCached /\ LinkedImports /\ RowCurrent
<1>1. Init => KInv
  BY InitInv, BlocksInit
<1>2. KInv /\ [Next]_vars => KInv'
  BY NextInv, BlocksNext
<1>3. KInv => CallsOwnBlock
  <2>1. SUFFICES ASSUME KInv, NEW t \in Thread, Dispatch(t)
                 PROVE  Looked(t) = registered[Top(t).on][Top(t).name]
    BY DEF CallsOwnBlock
  <2>2. stack[t] # <<>> /\ Top(t).op = "host" /\ Top(t).at = "inside" /\ Looked(t) # NoHandler
    BY <2>1 DEF Dispatch, Is
  <2>3. Looked(t) = cache[id[Top(t).on]][ContextOf[Top(t).name]]
    BY <2>1, <2>2, Inside DEF Looked
  <2>4. Top(t).on \in Interp /\ life[Top(t).on] = "alive" /\ Top(t).name \in linked[Top(t).on]
    <3> DEFINE z == <<t, Len(stack[t])>>
    <3>1. z \in Frames /\ At(z) = Top(t)
      BY <2>1, <2>2, Tops
    <3> HIDE DEF z
    <3>2. Top(t).name \in linked[Top(t).on]
      BY <2>1, <2>2, <3>1 DEF IInv, HostLinked
    <3> QED
      BY <2>1, <2>2, <3>2, Tops DEF LifeFor
  <2>5. ~\E p \in Frames : Placed(At(p)) /\ At(p).on = Top(t).on
    BY <2>1, <2>2, Alone DEF Placed
  <2> QED
    BY <2>1, <2>2, <2>3, <2>4, <2>5 DEF RowCurrent
<1>4. KInv /\ [Next]_vars => [CallsOwnBlock]_vars
  BY <1>3
<1> QED
  BY <1>1, <1>2, <1>4, PTL DEF Spec, BlocksMatch

------------------------------------------------------------------------------
(* The registry of blocks *)

\* Steps after which the same blocks run.
Steady ==
  /\ \A p \in Frames : At(p).at = "handler" => p \in Frames' /\ At(p)' = At(p)
  /\ \A p \in Frames' : At(p)'.at = "handler" => p \in Frames /\ At(p)' = At(p)

\* The depth to which blocks are called.
HostDepth == \A p \in Frames : At(p).op = "host" => p[2] <= MaxDepth

LEMMA SteadyPushes ==
  ASSUME IInv, NEW t \in Thread, NEW f \in Frame, Push(t, f), f.at # "handler"
  PROVE  Steady /\ (f.op # "host" /\ HostDepth => HostDepth')
<1>1. PICK z :
        /\ z \notin Frames /\ At(z)' = f
        /\ Frames' = Frames \cup {z} /\ \A p \in Frames : At(p)' = At(p)
  BY Pushes
<1> QED
  BY <1>1 DEF Steady, HostDepth

LEMMA SteadyMoves ==
  ASSUME IInv, NEW t \in Thread, stack[t] # <<>>, NEW f \in Frame, GoTo(t, f),
         f.op = "host" => Top(t).op = "host"
  PROVE  /\ Top(t).at # "handler" /\ f.at # "handler" => Steady
         /\ HostDepth => HostDepth'
<1>1. PICK z \in Frames :
        /\ At(z) = Top(t) /\ At(z)' = f
        /\ Frames' = Frames /\ \A p \in Frames \ {z} : At(p)' = At(p)
  BY Moves
<1> QED
  BY <1>1 DEF Steady, HostDepth

LEMMA SteadyPops ==
  ASSUME IInv, NEW t \in Thread, stack[t] # <<>>, Pop(t)
  PROVE  /\ Top(t).at # "handler" => Steady
         /\ HostDepth => HostDepth'
<1>1. PICK z \in Frames :
        /\ At(z) = Top(t)
        /\ Frames' = Frames \ {z} /\ \A p \in Frames \ {z} : At(p)' = At(p)
  BY Pops
<1> QED
  BY <1>1 DEF Steady, HostDepth

LEMMA SteadyGoOn ==
  ASSUME IInv, NEW t \in Thread, stack[t] # <<>>, NEW a \in Place, GoOn(t, a),
         a # "handler", Top(t).at # "handler"
  PROVE  Steady /\ (HostDepth => HostDepth')
<1>1. PICK f \in Frame : GoTo(t, f) /\ f.op = Top(t).op /\ f.at = a
  BY WentOn
<1> QED
  BY <1>1, SteadyMoves

LEMMA SteadyBegin ==
  ASSUME IInv, NEW t \in Thread, Begin(t)
  PROVE  Steady /\ (HostDepth => HostDepth')
<1>1. PICK i \in Interp :
        \/ BeginInit(t, i) \/ BeginCall(t, i) \/ BeginDeinit(t, i)
        \/ \E n \in Name, h \in Handler : BeginImport(t, i, n, h)
  BY DEF Begin
<1>2. \E f \in Frame : Push(t, f) /\ f.op # "host" /\ f.at # "handler"
  <2>1. CASE BeginInit(t, i)
    <3> DEFINE f == [op |-> "init", on |-> i, name |-> NoName, handler |-> NoHandler,
                     at |-> "enter"]
    <3>1. f \in Frame /\ f.op # "host" /\ f.at # "handler" /\ Push(t, f)
      BY <2>1 DEF BeginInit, Frame, Op, Place
    <3> HIDE DEF f
    <3> QED
      BY <3>1
  <2>2. CASE BeginCall(t, i)
    <3> DEFINE f == [op |-> "call", on |-> i, name |-> NoName, handler |-> NoHandler,
                     at |-> "find"]
    <3>1. f \in Frame /\ f.op # "host" /\ f.at # "handler" /\ Push(t, f)
      BY <2>2 DEF BeginCall, Frame, Op, Place
    <3> HIDE DEF f
    <3> QED
      BY <3>1
  <2>3. CASE BeginDeinit(t, i)
    <3> DEFINE f == [op |-> "deinit", on |-> i, name |-> NoName, handler |-> NoHandler,
                     at |-> "enter"]
    <3>1. f \in Frame /\ f.op # "host" /\ f.at # "handler" /\ Push(t, f)
      BY <2>3 DEF BeginDeinit, Frame, Op, Place
    <3> HIDE DEF f
    <3> QED
      BY <3>1
  <2>4. ASSUME NEW n \in Name, NEW h \in Handler, BeginImport(t, i, n, h)
        PROVE  \E f \in Frame : Push(t, f) /\ f.op # "host" /\ f.at # "handler"
    <3> DEFINE f == [op |-> "import", on |-> i, name |-> n, handler |-> h, at |-> "enter"]
    <3>1. f \in Frame /\ f.op # "host" /\ f.at # "handler" /\ Push(t, f)
      BY <2>4 DEF BeginImport, Frame, Op, Place
    <3> HIDE DEF f
    <3> QED
      BY <3>1
  <2> QED
    BY <1>1, <2>1, <2>2, <2>3, <2>4
<1> QED
  BY <1>2, SteadyPushes

LEMMA SteadyCallImport ==
  ASSUME IInv, NEW t \in Thread, NEW m \in Name, CallImport(t, m)
  PROVE  Steady /\ (HostDepth => HostDepth')
<1> DEFINE f == [op |-> "host", on |-> Top(t).on, name |-> m, handler |-> NoHandler,
                 at |-> "enter"]
<1>1. stack[t] # <<>> /\ Push(t, f) /\ Len(stack[t]) < MaxDepth
  BY DEF CallImport, Is
<1>2. f \in Frame /\ f.at = "enter"
  BY <1>1, Tops DEF Frame, Op, Place
<1> HIDE DEF f
<1>3. PICK l \in Nat : l = Len(stack[t]) /\ l \in 0..Len(stack[t]) /\ l < MaxDepth
  BY <1>1, Tops
<1>4. stack \in [Thread -> Seq(Frame)] /\ Stacked(t, l, f)
  BY <1>1, <1>3, PushStacked DEF IInv, TypeOK
<1>5. /\ Frames' = Kept(t, l) \cup {<<t, l + 1>>}
      /\ \A p \in Kept(t, l) : At(p)' = At(p)
      /\ Kept(t, l) \subseteq Frames
  BY <1>2, <1>3, <1>4, StackedFrames DEF Kept
<1>6. Steady
  BY <1>1, <1>2, SteadyPushes
<1>7. l + 1 <= MaxDepth
  BY <1>3, InterpretersAssumption
<1>8. HostDepth => HostDepth'
  BY <1>5, <1>7 DEF HostDepth
<1> QED
  BY <1>6, <1>8

\* The steps after which other blocks run.
Ends(t) == HandlerReturns(t) \/ (Trap(t) /\ Top(t).at = "handler")

LEMMA SteadySteps ==
  ASSUME IInv, NEW t \in Thread, Step(t) \/ Finish(t)
  PROVE  /\ ~Dispatch(t) /\ ~Ends(t) => Steady
         /\ HostDepth => HostDepth'
<1> USE DEF Is, Place
<1>1. CASE Enter(t) \/ RetrieveID(t) \/ AddImportedFunction(t) \/ Link(t)
  BY <1>1, SteadyGoOn DEF Enter, EnterFrom, RetrieveID, AddImportedFunction, Link
<1>2. CASE \/ FindCached(t) \/ Find(t) \/ Compile(t) \/ Found(t) \/ StartReturns(t)
  BY <1>2, SteadyGoOn DEF FindCached, Find, Compile, Found, StartReturns
<1>3. CASE RemoveImportedFunction(t) \/ RemoveImportedFunctions(t) \/ Load(t)
           \/ AppendContext(t)
  BY <1>3, SteadyPops DEF RemoveImportedFunction, RemoveImportedFunctions, Load, AppendContext
<1>4. CASE FindFails(t) \/ StartTraps(t) \/ CallReturns(t) \/ HandlerReturns(t)
  BY <1>4, SteadyPops DEF FindFails, StartTraps, FindThrows, CallReturns, HandlerReturns, Ends
<1>5. CASE LinkFails(t)
  <2> DEFINE f == [Top(t) EXCEPT !.op = "unimport", !.at = "enter"]
  <2>1. stack[t] # <<>> /\ GoTo(t, f) /\ Top(t).at = "link"
    BY <1>5 DEF LinkFails
  <2>2. f \in Frame /\ f.op = "unimport" /\ f.at = "enter"
    BY <2>1, Tops DEF Frame, Op
  <2> HIDE DEF f
  <2> QED
    BY <2>1, <2>2, SteadyMoves
<1>6. CASE Dispatch(t)
  <2> DEFINE h == Looked(t)
             f == [Top(t) EXCEPT !.handler = h, !.at = "handler"]
  <2>1. /\ stack[t] # <<>> /\ Top(t).op = "host" /\ Top(t).at = "inside" /\ GoTo(t, f)
        /\ h # NoHandler
    BY <1>6 DEF Dispatch
  <2>2. h \in Handler
    <3>1. /\ id[Top(t).on] \in 1..MaxId /\ ContextOf[Top(t).name] \in Context
          /\ seen[t].cache = cache
      BY <2>1, InsideContext, Inside
    <3> QED
      BY <2>1, <3>1 DEF Looked, IInv, TypeOK, Row
  <2>3. f \in Frame
    BY <2>1, <2>2, Tops DEF Frame
  <2> HIDE DEF f, h
  <2> QED
    BY <1>6, <2>1, <2>3, SteadyMoves
<1>7. CASE Trap(t)
  <2>1. PICK n \in 0..Len(stack[t]), caller \in Frame :
          /\ caller = stack[t][Len(stack[t]) - 1] /\ Calling(caller) /\ caller.op = "call"
          /\ Cut(t, n) /\ stack' \in [Thread -> Seq(Frame)]
          /\ Frames' = Kept(t, n) /\ \A p \in Kept(t, n) : At(p)' = At(p)
          /\ Kept(t, n) \subseteq Frames /\ <<t, Len(stack[t])>> \notin Kept(t, n)
          /\ \A p \in Frames \ Kept(t, n) :
               p[1] = t /\ ((p[2] = Len(stack[t]) /\ At(p) = Top(t)) \/ At(p) = caller)
    BY <1>7, Unwinds
  <2>2. HostDepth => HostDepth'
    BY <2>1 DEF HostDepth
  <2>3. caller.at # "handler"
    BY <2>1 DEF Calling
  <2>4. Top(t).at # "handler" => Steady
    BY <2>1, <2>3 DEF Steady
  <2> QED
    BY <1>7, <2>2, <2>4 DEF Ends
<1>8. CASE Relock(t)
  <2>1. Frames' = Frames /\ \A p \in Frames : At(p)' = At(p)
    BY <1>8 DEF Relock, Frames, At
  <2> QED
    BY <2>1 DEF Steady, HostDepth
<1> QED
  BY <1>1, <1>2, <1>3, <1>4, <1>5, <1>6, <1>7, <1>8 DEF Step, Finish

RunOf(p) == [depth |-> p[2], on |-> At(p).on, context |-> ContextOf[At(p).name],
             handler |-> At(p).handler]

LEMMA RunningMember ==
  /\ \A t \in Thread : \A r : r \in RunningIn(t) <=>
       \E p \in Frames : p[1] = t /\ At(p).at = "handler" /\ r = RunOf(p)
  /\ \A t \in Thread : \A r : r \in RunningIn(t)' <=>
       \E p \in Frames' : p[1] = t /\ At(p)'.at = "handler" /\ r = RunOf(p)'
<1>1. ASSUME NEW t \in Thread, NEW r
      PROVE  r \in RunningIn(t) <=>
               \E p \in Frames : p[1] = t /\ At(p).at = "handler" /\ r = RunOf(p)
  <2>1. ASSUME r \in RunningIn(t)
        PROVE  \E p \in Frames : p[1] = t /\ At(p).at = "handler" /\ r = RunOf(p)
    <3>1. PICK k \in 1..Len(stack[t]) :
            /\ stack[t][k].at = "handler"
            /\ r = [depth |-> k, on |-> stack[t][k].on,
                    context |-> ContextOf[stack[t][k].name], handler |-> stack[t][k].handler]
      BY <2>1 DEF RunningIn
    <3> DEFINE p == <<t, k>>
    <3>2. p \in Frames /\ p[1] = t /\ At(p).at = "handler" /\ r = RunOf(p)
      BY <3>1 DEF Frames, At, RunOf
    <3> HIDE DEF p
    <3> QED
      BY <3>2
  <2>2. ASSUME NEW p \in Frames, p[1] = t, At(p).at = "handler", r = RunOf(p)
        PROVE  r \in RunningIn(t)
    BY <2>2 DEF Frames, At, RunOf, RunningIn
  <2> QED
    BY <2>1, <2>2
<1>2. ASSUME NEW t \in Thread, NEW r
      PROVE  r \in RunningIn(t)' <=>
               \E p \in Frames' : p[1] = t /\ At(p)'.at = "handler" /\ r = RunOf(p)'
  <2>1. ASSUME r \in RunningIn(t)'
        PROVE  \E p \in Frames' : p[1] = t /\ At(p)'.at = "handler" /\ r = RunOf(p)'
    <3>1. PICK k \in 1..Len(stack'[t]) :
            /\ stack'[t][k].at = "handler"
            /\ r = [depth |-> k, on |-> stack'[t][k].on,
                    context |-> ContextOf[stack'[t][k].name], handler |-> stack'[t][k].handler]
      BY <2>1 DEF RunningIn
    <3>2. PICK p : p = <<t, k>>
      OBVIOUS
    <3>3. p \in Frames' /\ p[1] = t /\ At(p)'.at = "handler" /\ r = RunOf(p)'
      BY <3>1, <3>2 DEF Frames, At, RunOf
    <3> QED
      BY <3>3
  <2>2. ASSUME NEW p \in Frames', p[1] = t, At(p)'.at = "handler", r = RunOf(p)'
        PROVE  r \in RunningIn(t)'
    BY <2>2 DEF Frames, At, RunOf, RunningIn
  <2> QED
    BY <2>1, <2>2
<1> QED
  BY <1>1, <1>2

LEMMA SteadyRunning ==
  ASSUME Steady
  PROVE  \A t \in Thread : RunningIn(t)' = RunningIn(t)
<1>1. \A p \in Frames : At(p).at = "handler" => RunOf(p)' = RunOf(p)
  BY DEF Steady, RunOf
<1>2. ASSUME NEW t \in Thread, NEW r
      PROVE  r \in RunningIn(t)' <=> r \in RunningIn(t)
  BY <1>1, RunningMember DEF Steady
<1> QED
  BY <1>2

\* The tables and interpreters are the same.
Kin == /\ Blocks' = Blocks
       /\ \A i \in Interp : life'[i] = "gone" <=> life[i] = "gone"

LEMMA StutterRegistry ==
  ASSUME Kin, Steady
  PROVE  UNCHANGED Registry!vars
<1>1. [t \in Thread |-> RunningIn(t)]' = [t \in Thread |-> RunningIn(t)]
  BY SteadyRunning
<1>2. {i \in Interp : life'[i] = "gone"} = {i \in Interp : life[i] = "gone"}
  BY DEF Kin
<1> QED
  BY <1>1, <1>2 DEF Registry!vars, Kin

LEMMA QuietKin ==
  ASSUME Quiet
  PROVE  Kin
BY DEF Quiet, Kin, Blocks

\* What the tables are of interpreters whose rows do not change.
LEMMA OtherBlocks ==
  ASSUME IInv, NEW i \in Interp, id[i] \in 1..MaxId, UNCHANGED id,
         \A k \in 1..MaxId : k # id[i] => cache'[k] = cache[k]
  PROVE  \A j \in Interp : j # i => Blocks'[j] = Blocks[j]
<1>1. SUFFICES ASSUME NEW j \in Interp, j # i PROVE Blocks'[j] = Blocks[j]
  OBVIOUS
<1>2. id[j] # 0 => id[j] # id[i] /\ id[j] \in 1..MaxId
  <2>1. id[j] \in 0..MaxId /\ (id[j] # 0 => id[j] # id[i])
    BY <1>1 DEF IInv, IdsGiven, TypeOK
  <2>2. \A k \in 0..MaxId : k # 0 => k \in 1..MaxId
    BY InterpretersAssumption
  <2> QED
    BY <2>1, <2>2
<1> QED
  BY <1>1, <1>2 DEF Blocks

\* AddImportedFunction and RemoveImportedFunction write one entry of a table.
LEMMA SetBlocks ==
  ASSUME IInv, NEW i \in Interp, id[i] \in 1..MaxId, UNCHANGED id,
         NEW c \in Context, NEW h \in Handler \cup {NoHandler},
         cache' = [cache EXCEPT ![id[i]][c] = h]
  PROVE  Blocks' = [Blocks EXCEPT ![i][c] = h]
<1>1. cache \in [1..MaxId -> Row] /\ cache[id[i]] \in [Context -> Handler \cup {NoHandler}]
  BY DEF IInv, TypeOK, Row
<1>2. cache'[id[i]] = [cache[id[i]] EXCEPT ![c] = h]
      /\ \A k \in 1..MaxId : k # id[i] => cache'[k] = cache[k]
  BY <1>1
<1>3. \A j \in Interp : j # i => Blocks'[j] = Blocks[j]
  BY <1>2, OtherBlocks
<1>4. id[i] # 0
  BY InterpretersAssumption
<1>5. Blocks[i] = cache[id[i]] /\ Blocks'[i] = cache'[id[i]]
  BY <1>4 DEF Blocks
<1>6. Blocks'[i] = [Blocks[i] EXCEPT ![c] = h]
  BY <1>2, <1>5
<1>7. Blocks = [j \in Interp |-> Blocks[j]] /\ Blocks' = [j \in Interp |-> Blocks'[j]]
  BY DEF Blocks
<1> QED
  BY <1>3, <1>6, <1>7

LEMMA AddImplements ==
  ASSUME IInv, NEW t \in Thread, AddImportedFunction(t)
  PROVE  \E i \in Interp, c \in Context, h \in Handler : Registry!Add(i, c, h)
<1>1. /\ stack[t] # <<>> /\ Top(t).op = "import" /\ Top(t).at = "inside"
      /\ SetHandler(t, Top(t).handler) /\ UNCHANGED <<id, life>>
  BY DEF AddImportedFunction, Is, objects
<1>2. PICK i \in Interp, c \in Context, h \in Handler :
        i = Top(t).on /\ c = ContextOf[Top(t).name] /\ h = Top(t).handler
  BY <1>1, InsideContext, Tops DEF Legal
<1>3. id[i] \in 1..MaxId /\ cache' = [cache EXCEPT ![id[i]][c] = h] /\ life[i] = "alive"
  BY <1>1, <1>2, Inside, Tops DEF SetHandler, LifeFor
<1>4. Blocks' = [Blocks EXCEPT ![i][c] = h]
  BY <1>1, <1>3, SetBlocks
<1>5. \A u \in Thread : RunningIn(u)' = RunningIn(u)
  BY SteadySteps, SteadyRunning, <1>1 DEF Step, Dispatch, Ends, Is, HandlerReturns, Trap
<1>6. Registry!Add(i, c, h)
  BY <1>1, <1>3, <1>4, <1>5 DEF Registry!Add
<1> QED
  BY <1>6

LEMMA RemoveImplements ==
  ASSUME IInv, NEW t \in Thread, RemoveImportedFunction(t)
  PROVE  \E i \in Interp, c \in Context : Registry!Remove(i, c)
<1>1. /\ stack[t] # <<>> /\ Top(t).op = "unimport" /\ Top(t).at = "inside"
      /\ SetHandler(t, NoHandler) /\ UNCHANGED <<id, life>>
  BY DEF RemoveImportedFunction, Is, objects
<1>2. PICK i \in Interp, c \in Context : i = Top(t).on /\ c = ContextOf[Top(t).name]
  BY <1>1, InsideContext
<1>3. id[i] \in 1..MaxId /\ cache' = [cache EXCEPT ![id[i]][c] = NoHandler]
      /\ life[i] = "alive"
  BY <1>1, <1>2, Inside, Tops DEF SetHandler, LifeFor
<1>4. Blocks' = [Blocks EXCEPT ![i][c] = NoHandler]
  BY <1>1, <1>3, SetBlocks
<1>5. \A u \in Thread : RunningIn(u)' = RunningIn(u)
  BY SteadySteps, SteadyRunning, <1>1 DEF Step, Dispatch, Ends, Is, HandlerReturns, Trap
<1>6. Registry!Remove(i, c)
  BY <1>1, <1>3, <1>4, <1>5 DEF Registry!Remove
<1> QED
  BY <1>6

LEMMA ClearImplements ==
  ASSUME IInv, NEW t \in Thread, RemoveImportedFunctions(t)
  PROVE  \E i \in Interp : Registry!Clear(i)
<1>1. PICK i : i = Top(t).on
  OBVIOUS
<1>2. /\ stack[t] # <<>> /\ Top(t).op = "deinit" /\ Top(t).at = "inside"
      /\ cache' = [seen[t].cache EXCEPT ![id[i]] = EmptyRow]
      /\ life' = [life EXCEPT ![i] = "gone"] /\ UNCHANGED id
  BY <1>1 DEF RemoveImportedFunctions, Is
<1>3. i \in Interp /\ id[i] \in 1..MaxId /\ seen[t].cache = cache /\ life[i] = "freed"
  BY <1>1, <1>2, Inside, Tops DEF LifeFor
<1>4. cache'[id[i]] = EmptyRow /\ \A k \in 1..MaxId : k # id[i] => cache'[k] = cache[k]
  BY <1>2, <1>3 DEF IInv, TypeOK
<1>5. \A j \in Interp : j # i => Blocks'[j] = Blocks[j]
  BY <1>2, <1>3, <1>4, OtherBlocks
<1>6. Blocks' = [Blocks EXCEPT ![i] = [c \in Context |-> NoHandler]]
  <2>1. Blocks'[i] = EmptyRow
    BY <1>2, <1>3, <1>4 DEF Blocks
  <2> QED
    BY <1>3, <1>5, <2>1 DEF Blocks, EmptyRow
<1>7. {j \in Interp : life'[j] = "gone"} = {j \in Interp : life[j] = "gone"} \cup {i}
  BY <1>2, <1>3 DEF IInv, TypeOK
<1>8. \A u \in Thread : RunningIn(u)' = RunningIn(u)
  BY SteadySteps, SteadyRunning, <1>2 DEF Step, Dispatch, Ends, Is, HandlerReturns, Trap
<1>9. Registry!Clear(i)
  BY <1>3, <1>6, <1>7, <1>8 DEF Registry!Clear
<1> QED
  BY <1>3, <1>9

\* The frame on top is the deepest of its thread.
LEMMA TopDeepest ==
  ASSUME IInv, NEW t \in Thread, NEW z \in Frames, z[1] = t, z[2] = Len(stack[t]),
         NEW p \in Frames, p[1] = t, p # z
  PROVE  p[2] < z[2]
<1>1. p = <<p[1], p[2]>> /\ z = <<z[1], z[2]>> /\ p[2] \in 1..Len(stack[t])
  BY FrameTypes
<1>2. Len(stack[t]) \in Nat
  BY DEF IInv, TypeOK
<1>3. p[2] # z[2]
  BY <1>1
<1> QED
  BY <1>1, <1>2, <1>3

LEMMA DispatchImplements ==
  ASSUME IInv, HostDepth, ~crashed, NEW t \in Thread, Dispatch(t)
  PROVE  \E i \in Interp, c \in Context : Registry!Call(t, i, c)
<1> DEFINE h == Looked(t)
           f == [Top(t) EXCEPT !.handler = h, !.at = "handler"]
<1>1. /\ stack[t] # <<>> /\ Top(t).op = "host" /\ Top(t).at = "inside" /\ GoTo(t, f)
      /\ h # NoHandler /\ UNCHANGED <<cache, id, life>>
  BY DEF Dispatch, Is, shared, objects
<1>2. PICK i \in Interp, c \in Context : i = Top(t).on /\ c = ContextOf[Top(t).name]
  BY <1>1, InsideContext
<1>3. /\ h = cache[id[i]][c] /\ id[i] \in 1..MaxId /\ life[i] = "alive"
  BY <1>1, <1>2, Inside, Tops DEF Looked, LifeFor
<1>4. h = Blocks[i][c]
  <2>1. id[i] # 0
    BY <1>3, InterpretersAssumption
  <2> QED
    BY <2>1, <1>3 DEF Blocks
<1>5. h \in Handler
  BY <1>1, <1>3 DEF IInv, TypeOK, Row
<1>6. /\ f \in Frame /\ f.op = "host" /\ f.on = Top(t).on /\ f.name = Top(t).name
      /\ f.handler = h /\ f.at = "handler"
  BY <1>1, <1>5, Tops DEF Frame, Place
<1> HIDE DEF f, h
<1>7. PICK z \in Frames :
        /\ stack' \in [Thread -> Seq(Frame)]
        /\ z[1] = t /\ z[2] = Len(stack[t]) /\ At(z) = Top(t) /\ At(z)' = f
        /\ Frames' = Frames /\ \A p \in Frames \ {z} : At(p)' = At(p)
  BY <1>1, <1>6, Moves
<1> DEFINE d == z[2]
           run == [depth |-> d, on |-> i, context |-> c, handler |-> h]
<1>8. d \in 1..MaxDepth
  <2>1. d <= MaxDepth /\ d \in 1..Len(stack[t])
    BY <1>1, <1>7, FrameTypes DEF HostDepth
  <2> QED
    BY <2>1, InterpretersAssumption
<1>9. ASSUME NEW r \in RunningIn(t)
      PROVE  r.depth < d
  <2>1. PICK p \in Frames : p[1] = t /\ At(p).at = "handler" /\ r = RunOf(p)
    BY <1>9, RunningMember
  <2>2. p # z
    BY <2>1, <1>1, <1>7
  <2> QED
    BY <2>1, <2>2, <1>7, TopDeepest DEF RunOf
<1>10. RunOf(z)' = run
  BY <1>2, <1>6, <1>7 DEF RunOf
<1> HIDE DEF d, run
<1>11. \A p \in Frames \ {z} : RunOf(p)' = RunOf(p)
  BY <1>7 DEF RunOf
<1>12. RunningIn(t)' = RunningIn(t) \cup {run}
  <2>1. ASSUME NEW r
        PROVE  r \in RunningIn(t)' <=> r \in RunningIn(t) \/ r = run
    <3>1. r \in RunningIn(t)' => r \in RunningIn(t) \/ r = run
      BY <1>7, <1>10, <1>11, RunningMember
    <3>2. r \in RunningIn(t) => r \in RunningIn(t)'
      BY <1>1, <1>7, <1>11, RunningMember
    <3>3. run \in RunningIn(t)'
      BY <1>6, <1>7, <1>10, RunningMember
    <3> QED
      BY <3>1, <3>2, <3>3
  <2> QED
    BY <2>1
<1>13. ASSUME NEW u \in Thread, u # t
       PROVE  RunningIn(u)' = RunningIn(u)
  <2>1. \A p \in Frames : p[1] = u => p # z /\ At(p)' = At(p)
    BY <1>7, <1>13
  <2>2. ASSUME NEW r
        PROVE  r \in RunningIn(u)' <=> r \in RunningIn(u)
    BY <1>7, <1>11, <2>1, RunningMember
  <2> QED
    BY <2>2
<1>14. Blocks' = Blocks /\ \A j \in Interp : life'[j] = life[j]
  BY <1>1 DEF Blocks
<1> DEFINE R == [u \in Thread |-> RunningIn(u)]
<1>15. R' = [R EXCEPT ![t] = @ \cup {run}]
  BY <1>12, <1>13
<1>16. Registry!Call(t, i, c)
  BY <1>1, <1>3, <1>4, <1>8, <1>9, <1>14, <1>15 DEF Registry!Call, run
<1> QED
  BY <1>16

\* A block returns: it is the one called last.
LEMMA EndsImplements ==
  ASSUME IInv, NEW t \in Thread, Ends(t)
  PROVE  Registry!Return(t)
<1>1. stack[t] # <<>> /\ Top(t).at = "handler" /\ UNCHANGED <<cache, id, life>>
  BY DEF Ends, HandlerReturns, Trap, Is, shared, objects
<1>2. PICK z \in Frames :
        /\ z[1] = t /\ z[2] = Len(stack[t]) /\ At(z) = Top(t)
        /\ z \notin Frames' /\ Frames' \subseteq Frames
        /\ \A p \in Frames' : At(p)' = At(p)
        /\ \A p \in Frames : At(p).at = "handler" /\ p # z => p \in Frames'
  <2>1. CASE HandlerReturns(t)
    <3>1. PICK z \in Frames :
            /\ stack' \in [Thread -> Seq(Frame)]
            /\ z[1] = t /\ z[2] = Len(stack[t]) /\ At(z) = Top(t)
            /\ Frames' = Frames \ {z} /\ \A p \in Frames \ {z} : At(p)' = At(p)
      BY <1>1, <2>1, Pops DEF HandlerReturns
    <3> QED
      BY <3>1
  <2>2. CASE Trap(t)
    <3>1. PICK n \in 0..Len(stack[t]), caller \in Frame :
            /\ caller = stack[t][Len(stack[t]) - 1] /\ Calling(caller) /\ caller.op = "call"
            /\ Cut(t, n) /\ stack' \in [Thread -> Seq(Frame)]
            /\ Frames' = Kept(t, n) /\ \A p \in Kept(t, n) : At(p)' = At(p)
            /\ Kept(t, n) \subseteq Frames /\ <<t, Len(stack[t])>> \notin Kept(t, n)
            /\ \A p \in Frames \ Kept(t, n) :
                 p[1] = t /\ ((p[2] = Len(stack[t]) /\ At(p) = Top(t)) \/ At(p) = caller)
      BY <2>2, Unwinds
    <3>2. PICK z \in Frames : z = <<t, Len(stack[t])>> /\ At(z) = Top(t)
      BY <1>1, Tops
    <3>3. caller.at # "handler"
      BY <3>1 DEF Calling
    <3>4. z[1] = t /\ z[2] = Len(stack[t]) /\ z \notin Frames'
      BY <3>1, <3>2
    <3>5. ASSUME NEW p \in Frames, At(p).at = "handler", p # z
          PROVE  p \in Frames'
      <4>1. p = <<p[1], p[2]>>
        BY FrameTypes
      <4> QED
        BY <3>1, <3>2, <3>3, <3>5, <4>1
    <3> QED
      BY <3>1, <3>2, <3>4, <3>5
  <2> QED
    BY <2>1, <2>2 DEF Ends
<1>3. \A p \in Frames' : RunOf(p)' = RunOf(p)
  BY <1>2 DEF RunOf
<1>4. RunOf(z) \in RunningIn(t)
  BY <1>1, <1>2, RunningMember
<1>5. ASSUME NEW q \in RunningIn(t)
      PROVE  q.depth <= RunOf(z).depth
  <2>1. PICK p \in Frames : p[1] = t /\ At(p).at = "handler" /\ q = RunOf(p)
    BY <1>5, RunningMember
  <2>2. p # z => p[2] < z[2]
    BY <2>1, <1>2, TopDeepest
  <2>3. p[2] \in Nat /\ z[2] \in Nat
    BY <2>1, <1>2, FrameTypes
  <2> QED
    BY <2>1, <2>2, <2>3 DEF RunOf
<1>6. RunningIn(t)' = RunningIn(t) \ {RunOf(z)}
  <2>1. ASSUME NEW r
        PROVE  r \in RunningIn(t)' <=> r \in RunningIn(t) /\ r # RunOf(z)
    <3>1. ASSUME r \in RunningIn(t)'
          PROVE  r \in RunningIn(t) /\ r # RunOf(z)
      <4>1. PICK p \in Frames' : p[1] = t /\ At(p)'.at = "handler" /\ r = RunOf(p)'
        BY <3>1, RunningMember
      <4>2. p \in Frames /\ p # z /\ At(p).at = "handler" /\ r = RunOf(p)
        BY <4>1, <1>2, <1>3
      <4>3. p[2] < z[2] /\ z[2] \in Nat
        BY <4>1, <4>2, <1>2, TopDeepest, FrameTypes
      <4>4. RunOf(p).depth = p[2] /\ RunOf(z).depth = z[2]
        BY DEF RunOf
      <4> QED
        BY <4>1, <4>2, <4>3, <4>4, RunningMember
    <3>2. ASSUME r \in RunningIn(t), r # RunOf(z)
          PROVE  r \in RunningIn(t)'
      <4>1. PICK p \in Frames : p[1] = t /\ At(p).at = "handler" /\ r = RunOf(p)
        BY <3>2, RunningMember
      <4>2. p \in Frames' /\ At(p)' = At(p) /\ RunOf(p)' = r
        BY <3>2, <4>1, <1>2, <1>3
      <4> QED
        BY <4>1, <4>2, RunningMember
    <3> QED
      BY <3>1, <3>2
  <2> QED
    BY <2>1
<1>7. ASSUME NEW u \in Thread, u # t
      PROVE  RunningIn(u)' = RunningIn(u)
  <2>1. ASSUME NEW r
        PROVE  r \in RunningIn(u)' <=> r \in RunningIn(u)
    <3>1. \A p \in Frames : p[1] = u => p # z
      BY <1>2, <1>7
    <3> QED
      BY <1>2, <1>3, <3>1, RunningMember
  <2> QED
    BY <2>1
<1>8. Blocks' = Blocks /\ \A j \in Interp : life'[j] = life[j]
  BY <1>1 DEF Blocks
<1> DEFINE R == [u \in Thread |-> RunningIn(u)]
<1>9. R' = [R EXCEPT ![t] = @ \ {RunOf(z)}]
  BY <1>6, <1>7
<1> QED
  BY <1>4, <1>5, <1>8, <1>9 DEF Registry!Return

\* The rest: identifiers are given to interpreters without one, whose rows are empty.
LEMMA QuietImplements ==
  ASSUME IInv, NEW t \in Thread, RetrieveID(t) \/ Load(t) \/ Link(t)
  PROVE  UNCHANGED Registry!vars
<1>1. CASE RetrieveID(t)
  <2>1. PICK i : i = Top(t).on
    OBVIOUS
  <2>2. /\ stack[t] # <<>> /\ Top(t).op = "init" /\ Top(t).at = "inside"
        /\ id' = [id EXCEPT ![i] = seen[t].id + 1] /\ seen[t].id < MaxId
        /\ UNCHANGED <<cache, life>>
    BY <1>1, <2>1 DEF RetrieveID, Is
  <2>3. i \in Interp /\ seen[t].id = nextId /\ id[i] = 0
    BY <2>1, <2>2, Inside, Tops
  <2>4. nextId \in 0..MaxId /\ id \in [Interp -> 0..MaxId]
    BY DEF IInv, TypeOK
  <2>5. nextId + 1 \in 1..MaxId /\ nextId + 1 > nextId
    BY <2>2, <2>3, <2>4, InterpretersAssumption
  <2>6. id'[i] = nextId + 1 /\ \A j \in Interp : j # i => id'[j] = id[j]
    BY <2>2, <2>3, <2>4
  <2>7. cache[nextId + 1] = EmptyRow
    BY <2>5 DEF IInv, IdsGiven
  <2>8. Blocks'[i] = EmptyRow /\ Blocks[i] = EmptyRow
    BY <2>2, <2>3, <2>5, <2>6, <2>7 DEF Blocks
  <2>9. \A j \in Interp : Blocks'[j] = Blocks[j]
    BY <2>2, <2>6, <2>8 DEF Blocks
  <2>10. Blocks' = Blocks
    <3>1. Blocks = [j \in Interp |-> Blocks[j]] /\ Blocks' = [j \in Interp |-> Blocks'[j]]
      BY DEF Blocks
    <3> QED
      BY <2>9, <3>1
  <2>11. Kin
    BY <2>2, <2>10 DEF Kin
  <2>12. Steady
    BY <1>1, <2>2, SteadySteps DEF Step, Dispatch, Ends, Is, HandlerReturns, Trap
  <2> QED
    BY <2>11, <2>12, StutterRegistry
<1>2. CASE Load(t)
  <2>1. stack[t] # <<>> /\ Top(t).op = "init" /\ Top(t).at = "load" /\ UNCHANGED <<cache, id>>
    BY <1>2 DEF Load, Is, shared
  <2>2. PICK result \in {"alive", "failed"} : life' = [life EXCEPT ![Top(t).on] = result]
    BY <1>2 DEF Load
  <2>3. life[Top(t).on] = "loading" /\ Top(t).on \in Interp
    BY <2>1, Tops DEF LifeFor
  <2>4. Kin
    BY <2>1, <2>2, <2>3 DEF Kin, Blocks, IInv, TypeOK
  <2>5. Steady
    BY <1>2, <2>1, SteadySteps DEF Step, Dispatch, Ends, Is, HandlerReturns, Trap
  <2> QED
    BY <2>4, <2>5, StutterRegistry
<1>3. CASE Link(t)
  <2>1. Top(t).op = "import" /\ Top(t).at = "link" /\ UNCHANGED <<cache, id, life>>
    BY <1>3 DEF Link, Is, shared
  <2>2. Kin
    BY <2>1 DEF Kin, Blocks
  <2>3. Steady
    BY <1>3, <2>1, SteadySteps DEF Step, Dispatch, Ends, Is, HandlerReturns, Trap
  <2> QED
    BY <2>2, <2>3, StutterRegistry
<1> QED
  BY <1>1, <1>2, <1>3

LEMMA NextImplements ==
  ASSUME IInv, HostDepth, [Next]_vars
  PROVE  HostDepth' /\ [Registry!Next]_(Registry!vars)
<1>1. CASE UNCHANGED vars
  <2>1. Frames' = Frames /\ \A p \in Frames : At(p)' = At(p)
    BY <1>1 DEF vars, Frames, At
  <2>2. Steady /\ HostDepth'
    BY <2>1 DEF Steady, HostDepth
  <2> QED
    BY <1>1, <2>2, QuietStutter, QuietKin, StutterRegistry
<1>2. ASSUME ~crashed, NEW t \in Thread,
             Begin(t) \/ Step(t) \/ Finish(t) \/ \E n \in Name : CallImport(t, n)
      PROVE  HostDepth' /\ [Registry!Next]_(Registry!vars)
  <2>1. HostDepth'
    BY <1>2, SteadyBegin, SteadySteps, SteadyCallImport
  <2>2. CASE RetrieveID(t) \/ Load(t) \/ Link(t)
    BY <2>1, <2>2, QuietImplements
  <2>3. CASE AddImportedFunction(t)
    BY <2>1, <2>3, AddImplements DEF Registry!Next
  <2>4. CASE RemoveImportedFunction(t)
    BY <2>1, <2>4, RemoveImplements DEF Registry!Next
  <2>5. CASE RemoveImportedFunctions(t)
    BY <2>1, <2>5, ClearImplements DEF Registry!Next
  <2>6. CASE Dispatch(t)
    BY <1>2, <2>1, <2>6, DispatchImplements DEF Registry!Next
  <2>7. CASE Ends(t)
    BY <2>1, <2>7, EndsImplements DEF Registry!Next
  <2>8. CASE Quiet /\ Steady
    BY <2>1, <2>8, QuietKin, StutterRegistry
  <2>9. Dispatch(t) \/ Ends(t) \/ Steady
    BY <1>2, SteadyBegin, SteadySteps, SteadyCallImport
  <2> QED
    BY <1>2, <2>2, <2>3, <2>4, <2>5, <2>6, <2>7, <2>8, <2>9, QuietNext
<1>3. CASE Done
  BY <1>1, <1>3 DEF Done
<1> QED
  BY <1>1, <1>2, <1>3 DEF Next

LEMMA InitImplements ==
  ASSUME Init
  PROVE  HostDepth /\ Registry!Init
<1>1. Frames = {} /\ \A t \in Thread : Len(stack[t]) = 0
  BY DEF Init, Frames
<1>2. \A t \in Thread : RunningIn(t) = {}
  BY <1>1 DEF RunningIn
<1>3. Blocks = [i \in Interp |-> [c \in Context |-> NoHandler]]
  BY DEF Init, Blocks, EmptyRow
<1>4. {i \in Interp : life[i] = "gone"} = {}
  BY DEF Init
<1>5. [t \in Thread |-> RunningIn(t)] = [t \in Thread |-> {}]
  BY <1>2
<1>6. HostDepth
  BY <1>1 DEF HostDepth
<1> QED
  BY <1>3, <1>4, <1>5, <1>6 DEF Registry!Init

\* With any number of threads on any interpreters, the cache, its keys and Atom.lock are a
\* table of blocks of its own for every interpreter, read and written in one step each
\* (ImportFunctionCache.swift:18, Atom.swift:13): no identifier is given twice, no write is
\* lost, what is called is what is in the table at that point, and what a block returns
\* from is the block that was called last.
THEOREM RegistryImplemented == Spec => ImplementsRegistry
<1> DEFINE RInv == IInv /\ HostDepth
<1>1. Init => RInv /\ Registry!Init
  BY InitInv, InitImplements
<1>2. RInv /\ [Next]_vars => RInv' /\ [Registry!Next]_(Registry!vars)
  BY NextInv, NextImplements
<1> QED
  BY <1>1, <1>2, PTL DEF Spec, ImplementsRegistry, Registry!Spec
=============================================================================
