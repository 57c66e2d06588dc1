------------------------ MODULE ConcolicTracerProofs ------------------------
(***************************************************************************)
(* Proofs about ConcolicTracer for any functions, command sequences and    *)
(* verified code of any length: the stacks and the call tree stay in step, *)
(* and every symbol stands for the machine's value.                        *)
(***************************************************************************)
EXTENDS ConcolicTracer, SequenceTheorems, FiniteSetTheorems, TLAPS

-----------------------------------------------------------------------------
(* Sequences whose elements are of no particular set.                       *)

Tuple(s) == s \in Seq({s[i] : i \in DOMAIN s})

\* A sequence over any set is a tuple.
LEMMA SeqTuple ==
  ASSUME NEW S, NEW s \in Seq(S)
  PROVE  Tuple(s)
<1>1. s \in [1..Len(s) -> S] /\ Len(s) \in Nat
  BY LenProperties
<1>2. s \in [1..Len(s) -> {s[i] : i \in DOMAIN s}]
  BY <1>1
<1> QED BY <1>1, <1>2, SeqDef DEF Tuple

\* A tuple is a function on an initial segment of the numbers.
LEMMA TupleFacts ==
  ASSUME NEW s, Tuple(s)
  PROVE  Len(s) \in Nat /\ DOMAIN s = 1..Len(s) /\ s = [i \in 1..Len(s) |-> s[i]]
BY LenProperties DEF Tuple

\* And any such function is a tuple.
LEMMA TupleIntro ==
  ASSUME NEW n \in Nat, NEW s, s = [i \in 1..n |-> s[i]]
  PROVE  Tuple(s) /\ Len(s) = n
<1>1. DOMAIN s = 1..n /\ s \in [1..n -> {s[i] : i \in DOMAIN s}]
  OBVIOUS
<1>2. s \in Seq({s[i] : i \in DOMAIN s})
  BY <1>1, SeqDef
<1>3. DOMAIN s = 1..Len(s) /\ Len(s) \in Nat
  BY <1>2, LenProperties
<1> QED BY <1>1, <1>2, <1>3 DEF Tuple

\* Appending to a tuple.
LEMMA TupleAppend ==
  ASSUME NEW s, Tuple(s), NEW x
  PROVE  /\ Tuple(Append(s, x)) /\ Len(Append(s, x)) = Len(s) + 1
         /\ Append(s, x)[Len(s) + 1] = x
         /\ \A i \in 1..Len(s) : Append(s, x)[i] = s[i]
<1> DEFINE S == {s[i] : i \in DOMAIN s} \cup {x}
<1>1. s \in Seq(S) /\ x \in S
  BY SeqMonotonic DEF Tuple
<1> HIDE DEF S
<1>2. /\ Append(s, x) \in Seq(S) /\ Len(Append(s, x)) = Len(s) + 1
      /\ \A i \in 1..Len(s) : Append(s, x)[i] = s[i]
      /\ Append(s, x)[Len(s) + 1] = x
  BY <1>1, AppendProperties
<1>3. Tuple(Append(s, x))
  BY <1>2, SeqTuple
<1> QED BY <1>2, <1>3

\* Putting two tuples together.
LEMMA TupleConcat ==
  ASSUME NEW s, Tuple(s), NEW t, Tuple(t)
  PROVE  /\ Tuple(s \o t) /\ Len(s \o t) = Len(s) + Len(t)
         /\ \A i \in 1..Len(s) : (s \o t)[i] = s[i]
         /\ \A i \in 1..Len(t) : (s \o t)[Len(s) + i] = t[i]
<1> DEFINE S == {s[i] : i \in DOMAIN s} \cup {t[i] : i \in DOMAIN t}
<1>1. s \in Seq(S) /\ t \in Seq(S)
  BY SeqMonotonic DEF Tuple
<1> HIDE DEF S
<1>2. s \o t \in Seq(S) /\ Len(s) \in Nat /\ Len(t) \in Nat
  BY <1>1, ConcatProperties, LenProperties
<1>3. \A i \in 1 .. Len(s) + Len(t) : (s \o t)[i] = IF i <= Len(s) THEN s[i] ELSE t[i - Len(s)]
  BY <1>1, ConcatProperties
<1>4. ASSUME NEW i \in 1..Len(t) PROVE (s \o t)[Len(s) + i] = t[i]
  BY <1>2, <1>3
<1>5. Tuple(s \o t)
  BY <1>2, SeqTuple
<1>6. Len(s \o t) = Len(s) + Len(t)
  BY <1>1, ConcatProperties
<1>7. \A i \in 1..Len(s) : (s \o t)[i] = s[i]
  BY <1>2, <1>3
<1> QED BY <1>4, <1>5, <1>6, <1>7

\* Taking elements from the top of a tuple, and those taken.
LEMMA TuplePopped ==
  ASSUME NEW s, Tuple(s), NEW n \in Nat, n <= Len(s)
  PROVE  /\ Tuple(popped(s, n)) /\ Len(popped(s, n)) = Len(s) - n
         /\ \A i \in 1..(Len(s) - n) : popped(s, n)[i] = s[i]
         /\ Tuple(Taken(s, n)) /\ Len(Taken(s, n)) = n
         /\ \A i \in 1..n : Taken(s, n)[i] = s[Len(s) - n + i]
<1> DEFINE S == {s[i] : i \in DOMAIN s}
           m == Len(s) - n
<1>0. Len(s) \in Nat /\ m \in Nat /\ m = Len(s) - n /\ n = Len(s) - m /\ DOMAIN s = 1..Len(s)
  BY TupleFacts
<1>1. \A i \in 1..Len(s) : s[i] \in S
  BY <1>0
<1> HIDE DEF S, m
<1>2. /\ SubSeq(s, 1, m) \in Seq(S) /\ Len(SubSeq(s, 1, m)) = m
      /\ \A i \in 1..m : SubSeq(s, 1, m)[i] = s[i]
  <2>1. \A i \in 1..m : s[i] \in S
    BY <1>0, <1>1
  <2>2. /\ SubSeq(s, 1, m) \in Seq(S)
        /\ Len(SubSeq(s, 1, m)) = IF 1 <= m THEN m - 1 + 1 ELSE 0
        /\ \A i \in 1..(m - 1 + 1) : SubSeq(s, 1, m)[i] = s[1 + i - 1]
    BY <1>0, <2>1, SubSeqProperties
  <2>3. ASSUME NEW i \in 1..m PROVE SubSeq(s, 1, m)[i] = s[i]
    <3>1. i \in 1..(m - 1 + 1) /\ 1 + i - 1 = i
      BY <1>0
    <3> QED BY <2>2, <3>1
  <2>4. Len(SubSeq(s, 1, m)) = m
    BY <1>0, <2>2
  <2> QED BY <2>2, <2>3, <2>4
<1>3. /\ SubSeq(s, m + 1, Len(s)) \in Seq(S) /\ Len(SubSeq(s, m + 1, Len(s))) = n
      /\ \A i \in 1..n : SubSeq(s, m + 1, Len(s))[i] = s[m + i]
  <2>1. \A i \in (m + 1)..Len(s) : s[i] \in S
    BY <1>0, <1>1
  <2>2. /\ SubSeq(s, m + 1, Len(s)) \in Seq(S)
        /\ Len(SubSeq(s, m + 1, Len(s))) = IF m + 1 <= Len(s) THEN Len(s) - (m + 1) + 1 ELSE 0
        /\ \A i \in 1..(Len(s) - (m + 1) + 1) : SubSeq(s, m + 1, Len(s))[i] = s[(m + 1) + i - 1]
    BY <1>0, <2>1, SubSeqProperties
  <2>3. Len(SubSeq(s, m + 1, Len(s))) = n
    BY <1>0, <2>2
  <2>4. ASSUME NEW i \in 1..n PROVE SubSeq(s, m + 1, Len(s))[i] = s[m + i]
    <3>1. i \in 1..(Len(s) - (m + 1) + 1) /\ (m + 1) + i - 1 = m + i
      BY <1>0
    <3> QED BY <2>2, <3>1
  <2> QED BY <2>2, <2>3, <2>4
<1>4. popped(s, n) = SubSeq(s, 1, m) /\ Taken(s, n) = SubSeq(s, m + 1, Len(s))
  BY <1>0 DEF popped, Taken
<1> QED BY <1>0, <1>2, <1>3, <1>4, SeqTuple

\* A function with the domain of a tuple is a tuple of its length.
LEMMA TupleOn ==
  ASSUME NEW s, Tuple(s), NEW t, t = [i \in DOMAIN s |-> t[i]]
  PROVE  Tuple(t) /\ Len(t) = Len(s)
BY TupleFacts, TupleIntro

\* A tuple of one element many times.
LEMMA TupleRepeat ==
  ASSUME NEW x, NEW n \in Nat
  PROVE  Tuple(Repeat(x, n)) /\ Len(Repeat(x, n)) = n /\ \A i \in 1..n : Repeat(x, n)[i] = x
<1>1. Repeat(x, n) = [i \in 1..n |-> Repeat(x, n)[i]] /\ \A i \in 1..n : Repeat(x, n)[i] = x
  BY DEF Repeat
<1> QED BY <1>1, TupleIntro

\* Taking more than there is leaves nothing.
LEMMA TuplePoppedAny ==
  ASSUME NEW s, Tuple(s), NEW n \in Nat
  PROVE  Tuple(popped(s, n))
<1>1. CASE n <= Len(s)
  BY <1>1, TuplePopped
<1>2. CASE ~(n <= Len(s))
  <2>1. popped(s, n) = <<>>
    BY <1>2, SubSeqEmpty DEF popped
  <2> QED BY <2>1, EmptySeq, SeqTuple
<1> QED BY <1>1, <1>2

-----------------------------------------------------------------------------
(* The invariant of the stacks.                                             *)

\* A frame has a local for every parameter and every local of its function.
FrameOK(fr) ==
  /\ fr = [fun |-> fr.fun, locals |-> fr.locals, base |-> fr.base]
  /\ fr.fun \in Funs /\ fr.base \in Nat
  /\ Tuple(fr.locals) /\ Len(fr.locals) = Len(Params[fr.fun]) + Len(Locals[fr.fun])

\* A native function is only ever on the stack alone.
MachineInv ==
  /\ Tuple(operand_stack) /\ Tuple(call_stack)
  /\ \A d \in DOMAIN call_stack : FrameOK(call_stack[d])
  /\ pc = "running" => call_stack # <<>>
  /\ pc = "ready" => call_stack = <<>>
  /\ \A d \in DOMAIN call_stack : call_stack[d].fun \in Native => Len(call_stack) = 1

ShadowOK(c) ==
  /\ c = [stack |-> c.stack, locals |-> c.locals, args |-> c.args, disable |-> FALSE]
  /\ Tuple(c.stack) /\ Tuple(c.locals) /\ Tuple(c.args)
  /\ \A d \in DOMAIN c.locals : Tuple(c.locals[d])

\* The shadow has the shape of the machine.
ShadowInv ==
  /\ ShadowOK(concolic)
  /\ pc = "running" =>
       /\ me.fun \notin Native => Len(concolic.stack) = Len(operand_stack)
       /\ Len(concolic.locals) = Len(call_stack)
       /\ \A d \in DOMAIN call_stack : Len(concolic.locals[d]) = Len(call_stack[d].locals)

CallsInv == current_functions = [d \in DOMAIN call_stack |-> call_stack[d].fun]

\* The calls made from the call at q.
Kids(t, q) == {r \in Paths(t) : Len(r) = Len(q) + 1 /\ SubSeq(r, 1, Len(q)) = q}

\* Calls made from one call are numbered below their number, so the next number
\* is free.
TreeOK(t) ==
  /\ t = [calls |-> t.calls, call_idxs |-> t.call_idxs, error |-> t.error]
  /\ IsFiniteSet(Paths(t)) /\ Paths(t) \subseteq Seq(Nat) \ {<<>>} /\ t.call_idxs \in Seq(Nat)
  /\ \A r \in Paths(t) : r[Len(r)] < Cardinality(Kids(t, SubSeq(r, 1, Len(r) - 1)))

TreeInv ==
  /\ TreeOK(tree)
  /\ Along(tree.call_idxs) = [d \in DOMAIN current_functions |-> {current_functions[d]}]
  /\ pc \in {"ready", "running"} => tree.error = NoError
  /\ pc = "aborted" => tree.error = tree.call_idxs

\* The inductive invariant.
IInv == MachineInv /\ ShadowInv /\ CallsInv /\ TreeInv

\* An instruction that stays in its frame: the stacks keep their heights relative
\* to each other, or the execution ends with an error.
SameFrames ==
  /\ Tuple(call_stack') /\ Len(call_stack') = Len(call_stack)
  /\ \A d \in 1..Len(call_stack) : FrameOK(call_stack'[d]) /\ call_stack'[d].fun = call_stack[d].fun

SameLocals ==
  /\ Len(concolic'.locals) = Len(concolic.locals)
  /\ \A d \in 1..Len(concolic.locals) : Len(concolic'.locals[d]) = Len(concolic.locals[d])

QuietStep ==
  /\ UNCHANGED <<program, cmd, current_functions>>
  /\ SameFrames /\ Tuple(operand_stack')
  /\ ShadowOK(concolic') /\ SameLocals /\ concolic'.args = concolic.args
  /\ \/ pc' = "running" /\ tree' = tree /\ Len(concolic'.stack) = Len(operand_stack')
     \/ pc' = "aborted" /\ tree' = error_path(tree)

-----------------------------------------------------------------------------
\* A running function that is not native has a shadow of its own height.
LEMMA RunFacts ==
  ASSUME IInv, Running
  PROVE  /\ Aligned /\ Tuple(operand_stack) /\ Len(operand_stack) \in Nat
         /\ ShadowOK(concolic) /\ Len(concolic.stack) = Len(operand_stack)
         /\ Len(call_stack) \in Nat \ {0} /\ DOMAIN call_stack = 1..Len(call_stack)
         /\ me = call_stack[Len(call_stack)] /\ FrameOK(me)
         /\ Len(concolic.locals) = Len(call_stack) /\ DOMAIN concolic.locals = 1..Len(call_stack)
         /\ \A d \in 1..Len(call_stack) : Len(concolic.locals[d]) = Len(call_stack[d].locals)
<1>1. /\ MachineInv /\ ShadowInv /\ pc = "running" /\ call_stack # <<>> /\ me.fun \notin Native
  BY DEF IInv, Running
<1>2. /\ Tuple(operand_stack) /\ Len(operand_stack) \in Nat
      /\ Tuple(call_stack) /\ Len(call_stack) \in Nat /\ DOMAIN call_stack = 1..Len(call_stack)
  BY <1>1, TupleFacts DEF MachineInv
<1>3. Len(call_stack) # 0
  BY <1>1, <1>2, EmptySeq DEF Tuple
<1>4. /\ ShadowOK(concolic) /\ Len(concolic.stack) = Len(operand_stack)
      /\ Len(concolic.locals) = Len(call_stack)
      /\ \A d \in DOMAIN call_stack : Len(concolic.locals[d]) = Len(call_stack[d].locals)
  BY <1>1 DEF ShadowInv
<1>5. DOMAIN concolic.locals = 1..Len(concolic.locals) /\ ~concolic.disable
  BY <1>4, TupleFacts DEF ShadowOK
<1>6. me = call_stack[Len(call_stack)] /\ FrameOK(me)
  BY <1>1, <1>2, <1>3 DEF me, Top, MachineInv
<1> QED BY <1>2, <1>3, <1>4, <1>5, <1>6 DEF Aligned

\* A quiet step keeps the invariant.
LEMMA QuietKeeps ==
  ASSUME IInv, Running, QuietStep
  PROVE  IInv'
<1>1. MachineInv /\ ShadowInv /\ CallsInv /\ TreeInv /\ pc = "running"
  BY DEF IInv, Running
<1>2. /\ DOMAIN call_stack = 1..Len(call_stack) /\ DOMAIN call_stack' = 1..Len(call_stack)
      /\ Len(call_stack) \in Nat \ {0} /\ DOMAIN concolic.locals = 1..Len(call_stack)
      /\ Len(concolic.locals) = Len(call_stack)
      /\ \A d \in 1..Len(call_stack) : Len(concolic.locals[d]) = Len(call_stack[d].locals)
      /\ \A d \in 1..Len(call_stack) : FrameOK(call_stack[d])
  BY <1>1, RunFacts, TupleFacts DEF QuietStep, SameFrames, MachineInv
<1>3. \A d \in 1..Len(call_stack) : Len(call_stack'[d].locals) = Len(call_stack[d].locals)
  BY <1>2, ZenonT(40) DEF QuietStep, SameFrames, FrameOK
<1>4. call_stack' # <<>>
  BY <1>2, EmptySeq
<1>5. MachineInv'
  BY <1>1, <1>2, <1>4 DEF MachineInv, QuietStep, SameFrames
<1>6. ShadowInv'
  BY <1>2, <1>3 DEF ShadowInv, QuietStep, SameFrames, SameLocals
<1>7. CallsInv'
  BY <1>1, <1>2 DEF CallsInv, QuietStep, SameFrames
<1>8. TreeInv'
  <2>1. tree.error = NoError /\ TreeOK(tree) /\ current_functions' = current_functions
    BY <1>1 DEF TreeInv, QuietStep
  <2>2. CASE pc' = "running" /\ tree' = tree
    BY <1>1, <2>1, <2>2 DEF TreeInv, Along
  <2>3. CASE pc' = "aborted" /\ tree' = error_path(tree)
    <3>1. tree' = [tree EXCEPT !.error = tree.call_idxs]
      BY <2>1, <2>3 DEF error_path
    <3>2. tree'.calls = tree.calls /\ tree'.call_idxs = tree.call_idxs /\ tree'.error = tree.call_idxs
      BY <2>1, <3>1 DEF TreeOK
    <3>3. Paths(tree') = Paths(tree)
      BY <3>2 DEF Paths
    <3>4. \A q : Kids(tree', q) = Kids(tree, q)
      BY <3>3 DEF Kids
    <3>5. tree' = [calls |-> tree'.calls, call_idxs |-> tree'.call_idxs, error |-> tree'.error]
      BY <2>1, <3>1 DEF TreeOK
    <3>6. TreeOK(tree')
      BY <2>1, <3>2, <3>3, <3>4, <3>5 DEF TreeOK
    <3>7. Along(tree.call_idxs)' = Along(tree.call_idxs)
      BY <3>2 DEF Along
    <3> QED BY <1>1, <2>1, <2>3, <3>2, <3>6, <3>7 DEF TreeInv
  <2> QED BY <2>2, <2>3 DEF QuietStep
<1> QED BY <1>5, <1>6, <1>7, <1>8 DEF IInv

\* Only the symbols on the shadow stack change.
LEMMA StackOnly ==
  ASSUME ShadowOK(concolic), NEW s, Tuple(s), concolic' = [concolic EXCEPT !.stack = s]
  PROVE  /\ ShadowOK(concolic') /\ SameLocals /\ concolic'.args = concolic.args
         /\ concolic'.stack = s /\ concolic'.locals = concolic.locals
<1>0. PICK st, ls, as : concolic = [stack |-> st, locals |-> ls, args |-> as, disable |-> FALSE]
  BY DEF ShadowOK
<1>1. concolic' = [stack |-> s, locals |-> ls, args |-> as, disable |-> FALSE]
  BY <1>0
<1>2. /\ concolic'.stack = s /\ concolic'.locals = ls /\ concolic'.args = as
      /\ concolic.locals = ls /\ concolic.args = as
  BY <1>0, <1>1
<1>3. concolic' = [stack |-> concolic'.stack, locals |-> concolic'.locals, args |-> concolic'.args, disable |-> FALSE]
  BY <1>1, <1>2
<1> QED BY <1>2, <1>3 DEF ShadowOK, SameLocals

\* The frames stay as they are.
LEMMA FramesStay ==
  ASSUME IInv, Running, call_stack' = call_stack
  PROVE  SameFrames
BY RunFacts DEF SameFrames, IInv, MachineInv

\* Taking n values and symbols and leaving one of each is quiet.
LEMMA ReplaceQuiet ==
  ASSUME IInv, Running, Stay, UNCHANGED <<pc, call_stack, tree>>,
         NEW n \in Nat, n <= Len(operand_stack), NEW x, NEW s, Replace(n, x, s)
  PROVE  QuietStep
<1>1. /\ Aligned /\ Tuple(operand_stack) /\ ShadowOK(concolic)
      /\ Len(concolic.stack) = Len(operand_stack) /\ pc = "running"
  BY RunFacts DEF Running
<1>2. /\ operand_stack' = Append(popped(operand_stack, n), x)
      /\ concolic' = [concolic EXCEPT !.stack = Append(popped(concolic.stack, n), s)]
  BY <1>1 DEF Replace, Shadow
<1>3. Tuple(popped(operand_stack, n)) /\ Len(popped(operand_stack, n)) = Len(operand_stack) - n
  BY <1>1, TuplePopped
<1>4. Tuple(popped(concolic.stack, n)) /\ Len(popped(concolic.stack, n)) = Len(operand_stack) - n
  BY <1>1, TuplePopped DEF ShadowOK
<1>5. /\ Tuple(operand_stack') /\ Len(operand_stack') = Len(operand_stack) - n + 1
  BY <1>2, <1>3, TupleAppend
<1>6. /\ Tuple(Append(popped(concolic.stack, n), s))
      /\ Len(Append(popped(concolic.stack, n), s)) = Len(operand_stack) - n + 1
  BY <1>4, TupleAppend
<1>7. /\ ShadowOK(concolic') /\ SameLocals /\ concolic'.args = concolic.args
      /\ concolic'.stack = Append(popped(concolic.stack, n), s)
  BY <1>1, <1>2, <1>6, StackOnly
<1>8. SameFrames
  BY FramesStay
<1> QED BY <1>1, <1>5, <1>6, <1>7, <1>8 DEF QuietStep, Stay

\* An error is quiet, whatever the instruction has done to the shadow stack.
LEMMA ErrorQuiet ==
  ASSUME IInv, Running, Stay, NEW n \in Nat,
         NEW s, Tuple(s), execution_error([concolic EXCEPT !.stack = s], n)
  PROVE  QuietStep
<1>1. Aligned /\ Tuple(operand_stack) /\ ShadowOK(concolic)
  BY RunFacts
<1>2. [concolic EXCEPT !.stack = s].stack = s
  BY <1>1 DEF ShadowOK
<1>3. concolic' = [concolic EXCEPT !.stack = popped(s, 1)]
  BY <1>1, <1>2 DEF execution_error, ShadowOK
<1>4. Tuple(popped(s, 1)) /\ Tuple(popped(operand_stack, n))
  BY <1>1, TuplePoppedAny
<1>5. ShadowOK(concolic') /\ SameLocals /\ concolic'.args = concolic.args
  BY <1>1, <1>3, <1>4, StackOnly
<1>6. SameFrames
  BY FramesStay DEF execution_error
<1> QED BY <1>4, <1>5, <1>6 DEF QuietStep, Stay, execution_error

\* Instructions on two operands.
LEMMA BinaryQuiet ==
  ASSUME IInv, Running, Stay, Has(2), NEW x, NEW s, NEW fails, Binary(x, s, fails)
  PROVE  QuietStep
<1>1. Tuple(operand_stack) /\ ShadowOK(concolic) /\ Len(concolic.stack) = Len(operand_stack)
  BY RunFacts
<1>2. 2 <= Len(operand_stack)
  BY RunFacts DEF Has, FrameOK
<1>3. CASE fails
  <2>1. Tuple(popped(concolic.stack, 2))
    BY <1>1, TuplePoppedAny DEF ShadowOK
  <2>2. Tuple(Append(popped(concolic.stack, 2), s))
    BY <2>1, TupleAppend
  <2>3. execution_error([concolic EXCEPT !.stack = Append(popped(concolic.stack, 2), s)], 2)
    BY <1>3 DEF Binary
  <2> QED BY <2>2, <2>3, ErrorQuiet
<1>4. CASE ~fails
  <2>1. Replace(2, x, s) /\ UNCHANGED <<pc, call_stack, tree>>
    BY <1>4 DEF Binary
  <2> QED BY <1>2, <2>1, ReplaceQuiet
<1> QED BY <1>3, <1>4

\* The stack and the locals of the shadow change, the locals not in number.
LEMMA StackAndLocals ==
  ASSUME ShadowOK(concolic), NEW s, Tuple(s), NEW ls, Tuple(ls), Len(ls) = Len(concolic.locals),
         \A d \in 1..Len(ls) : Tuple(ls[d]) /\ Len(ls[d]) = Len(concolic.locals[d]),
         concolic' = [concolic EXCEPT !.stack = s, !.locals = ls]
  PROVE  /\ ShadowOK(concolic') /\ SameLocals /\ concolic'.args = concolic.args
         /\ concolic'.stack = s /\ concolic'.locals = ls
<1>0. PICK st, old, as : concolic = [stack |-> st, locals |-> old, args |-> as, disable |-> FALSE]
  BY DEF ShadowOK
<1>1. concolic' = [stack |-> s, locals |-> ls, args |-> as, disable |-> FALSE]
  BY <1>0
<1>2. /\ concolic'.stack = s /\ concolic'.locals = ls /\ concolic'.args = as /\ concolic.args = as
  BY <1>0, <1>1
<1>3. concolic' = [stack |-> concolic'.stack, locals |-> concolic'.locals, args |-> concolic'.args, disable |-> FALSE]
  BY <1>1, <1>2
<1>4. DOMAIN ls = 1..Len(ls)
  BY TupleFacts
<1> QED BY <1>2, <1>3, <1>4 DEF ShadowOK, SameLocals

SetIn(s, k, i, x) == [s EXCEPT ![k] = [@ EXCEPT ![i] = x]]

\* One element of one tuple of a tuple changes.
LEMMA NestedExcept ==
  ASSUME NEW s, Tuple(s), \A d \in DOMAIN s : Tuple(s[d]), NEW k, NEW i, NEW x, NEW t, t = SetIn(s, k, i, x)
  PROVE  /\ Tuple(t) /\ Len(t) = Len(s)
         /\ \A d \in 1..Len(s) : /\ Tuple(t[d]) /\ Len(t[d]) = Len(s[d])
                                 /\ \A j \in 1..Len(s[d]) : t[d][j] = IF d = k /\ j = i THEN x ELSE s[d][j]
<1> DEFINE u == [s[k] EXCEPT ![i] = x]
<1>0. t = [s EXCEPT ![k] = u] /\ u = [s[k] EXCEPT ![i] = x]
  BY DEF SetIn
<1> HIDE DEF u
<1>1a. DOMAIN s = 1..Len(s)
  BY TupleFacts
<1>1. /\ Tuple(t) /\ Len(t) = Len(s)
      /\ \A d \in 1..Len(s) : t[d] = IF d = k THEN u ELSE s[d]
  <2>1. t = [d \in DOMAIN s |-> t[d]]
    BY <1>0
  <2>2. \A d \in 1..Len(s) : t[d] = IF d = k THEN u ELSE s[d]
    BY <1>0, <1>1a
  <2> QED BY <2>1, <2>2, TupleOn
<1>2. ASSUME NEW d \in 1..Len(s)
      PROVE  /\ Tuple(t[d]) /\ Len(t[d]) = Len(s[d])
             /\ \A j \in 1..Len(s[d]) : t[d][j] = IF d = k /\ j = i THEN x ELSE s[d][j]
  <2>1. CASE d = k
    <3>1. Tuple(s[k]) /\ t[d] = u
      BY <1>1a, <1>1, <2>1
    <3>2. /\ Tuple(u) /\ Len(u) = Len(s[k])
          /\ \A j \in 1..Len(s[k]) : u[j] = IF j = i THEN x ELSE s[k][j]
      <4>1. u = [j \in DOMAIN s[k] |-> u[j]]
        BY <1>0
      <4>2. \A j \in 1..Len(s[k]) : u[j] = IF j = i THEN x ELSE s[k][j]
        BY <1>0, <3>1, TupleFacts
      <4> QED BY <3>1, <4>1, <4>2, TupleOn
    <3> QED BY <2>1, <3>1, <3>2
  <2>2. CASE d # k
    BY <1>1a, <1>1, <2>2
  <2> QED BY <2>1, <2>2
<1> QED BY <1>1, <1>2

\* A local of a frame changes.
LEMMA SetLocal ==
  ASSUME IInv, Running, NEW k, NEW i, NEW x, call_stack' = [call_stack EXCEPT ![k].locals[i] = x]
  PROVE  /\ SameFrames
         /\ \A d \in 1..Len(call_stack) :
              /\ call_stack'[d].base = call_stack[d].base
              /\ \A j \in 1..Len(call_stack[d].locals) :
                   call_stack'[d].locals[j] = IF d = k /\ j = i THEN x ELSE call_stack[d].locals[j]
<1> DEFINE fr == call_stack[k]
           u == [fr EXCEPT !.locals = [@ EXCEPT ![i] = x]]
<1>0. call_stack' = [call_stack EXCEPT ![k] = u]
  OBVIOUS
<1>1. Tuple(call_stack) /\ DOMAIN call_stack = 1..Len(call_stack) /\ \A d \in 1..Len(call_stack) : FrameOK(call_stack[d])
  BY RunFacts DEF IInv, MachineInv
<1> HIDE DEF u
<1>2. /\ Tuple(call_stack') /\ Len(call_stack') = Len(call_stack)
      /\ \A d \in 1..Len(call_stack) : call_stack'[d] = IF d = k THEN u ELSE call_stack[d]
  <2>1. call_stack' = [d \in DOMAIN call_stack |-> call_stack'[d]]
    BY <1>0
  <2>2. \A d \in 1..Len(call_stack) : call_stack'[d] = IF d = k THEN u ELSE call_stack[d]
    BY <1>0, <1>1
  <2> QED BY <1>1, <2>1, <2>2, TupleOn
<1>3. ASSUME k \in 1..Len(call_stack)
      PROVE  /\ FrameOK(u) /\ u.fun = fr.fun /\ u.base = fr.base
             /\ \A j \in 1..Len(fr.locals) : u.locals[j] = IF j = i THEN x ELSE fr.locals[j]
  <2>1. FrameOK(fr)
    BY <1>1, <1>3
  <2>2. PICK f, ls, b : fr = [fun |-> f, locals |-> ls, base |-> b]
    BY <2>1 DEF FrameOK
  <2>3. fr.fun = f /\ fr.locals = ls /\ fr.base = b
    BY <2>2
  <2>4. u = [fun |-> f, locals |-> [ls EXCEPT ![i] = x], base |-> b]
    BY <2>2 DEF u
  <2>5. u.fun = f /\ u.locals = [ls EXCEPT ![i] = x] /\ u.base = b
    BY <2>4
  <2>6. Tuple(ls)
    BY <2>1, <2>3 DEF FrameOK
  <2>7. /\ Tuple(u.locals) /\ Len(u.locals) = Len(ls)
        /\ \A j \in 1..Len(ls) : u.locals[j] = IF j = i THEN x ELSE ls[j]
    <3>1. u.locals = [j \in DOMAIN ls |-> u.locals[j]]
      BY <2>5
    <3>2. \A j \in 1..Len(ls) : u.locals[j] = IF j = i THEN x ELSE ls[j]
      BY <2>5, <2>6, TupleFacts
    <3> QED BY <2>6, <3>1, <3>2, TupleOn
  <2>8. u = [fun |-> u.fun, locals |-> u.locals, base |-> u.base]
    BY <2>4, <2>5
  <2> HIDE DEF fr
  <2> QED BY <2>1, <2>3, <2>5, <2>7, <2>8 DEF FrameOK
<1>4. SameFrames
  BY <1>1, <1>2, <1>3 DEF SameFrames
<1> QED BY <1>1, <1>2, <1>3, <1>4

\* The VM and the shadow agree on the change of height, for every instruction
\* whose symbols are only counted.
LEMMA CountsAgree ==
  ASSUME NEW op \in Counted
  PROVE  /\ VMTakes[op] \in Seq(Types) /\ VMLeaves[op] \in Seq(Types)
         /\ pops[op] \in Nat /\ pushes[op] \in Nat /\ pops[op] <= Len(VMTakes[op])
         /\ Len(VMTakes[op]) - pops[op] = Len(VMLeaves[op]) - pushes[op]
<1>1. Val("bool") \in Types /\ Val("u8") \in Types /\ Val("obj") \in Types /\ Val("vec") \in Types
  BY ConstantsAssumption DEF Types, Val
<1>2. Ref("bool") \in Types /\ Ref("u8") \in Types /\ Ref("obj") \in Types /\ Ref("vec") \in Types
  BY ConstantsAssumption DEF Types, Ref
<1>3. Counted = {"BrTrue", "VariantSwitch", "LdU8", "LdConst", "Pack", "Unpack", "UnpackVariantImmRef",
                 "VecPack", "VecUnpack", "VecPushBack", "VecSwap", "VecImmBorrow", "VecLen", "BorrowField"}
  BY DEF Counted, VMTakes
<1>4. CASE op = "BrTrue"
  BY <1>1, <1>2, <1>3, <1>4 DEF pops, pushes, VMTakes, VMLeaves, Fields
<1>5. CASE op = "VariantSwitch"
  BY <1>1, <1>2, <1>3, <1>5 DEF pops, pushes, VMTakes, VMLeaves, Fields
<1>6. CASE op = "LdU8"
  BY <1>1, <1>2, <1>3, <1>6 DEF pops, pushes, VMTakes, VMLeaves, Fields
<1>7. CASE op = "LdConst"
  BY <1>1, <1>2, <1>3, <1>7 DEF pops, pushes, VMTakes, VMLeaves, Fields
<1>8. CASE op = "Pack"
  BY <1>1, <1>2, <1>3, <1>8 DEF pops, pushes, VMTakes, VMLeaves, Fields
<1>9. CASE op = "Unpack"
  BY <1>1, <1>2, <1>3, <1>9 DEF pops, pushes, VMTakes, VMLeaves, Fields
<1>10. CASE op = "UnpackVariantImmRef"
  BY <1>1, <1>2, <1>3, <1>10 DEF pops, pushes, VMTakes, VMLeaves, Fields
<1>11. CASE op = "VecPack"
  BY <1>1, <1>2, <1>3, <1>11 DEF pops, pushes, VMTakes, VMLeaves, Fields
<1>12. CASE op = "VecUnpack"
  BY <1>1, <1>2, <1>3, <1>12 DEF pops, pushes, VMTakes, VMLeaves, Fields
<1>13. CASE op = "VecPushBack"
  BY <1>1, <1>2, <1>3, <1>13 DEF pops, pushes, VMTakes, VMLeaves, Fields
<1>14. CASE op = "VecSwap"
  BY <1>1, <1>2, <1>3, <1>14 DEF pops, pushes, VMTakes, VMLeaves, Fields
<1>15. CASE op = "VecImmBorrow"
  BY <1>1, <1>2, <1>3, <1>15 DEF pops, pushes, VMTakes, VMLeaves, Fields
<1>16. CASE op = "VecLen"
  BY <1>1, <1>2, <1>3, <1>16 DEF pops, pushes, VMTakes, VMLeaves, Fields
<1>17. CASE op = "BorrowField"
  BY <1>1, <1>2, <1>3, <1>17 DEF pops, pushes, VMTakes, VMLeaves, Fields
<1> QED BY <1>3, <1>4, <1>5, <1>6, <1>7, <1>8, <1>9, <1>10, <1>11, <1>12, <1>13, <1>14, <1>15, <1>16, <1>17

\* What an instruction needs on the stack is there.
LEMMA HasFacts ==
  ASSUME IInv, Running, NEW n \in Nat, Has(n)
  PROVE  n <= Len(operand_stack)
BY RunFacts DEF Has, FrameOK

\* Instructions whose symbols are only counted.
LEMMA CountedQuiet ==
  ASSUME IInv, NEW op \in Counted, counted(op)
  PROVE  Running /\ QuietStep
<1>1. /\ Running /\ Stay /\ OnTop(VMTakes[op]) /\ UNCHANGED <<pc, call_stack, tree>>
  BY DEF counted, Step, Fetch
<1> DEFINE T == VMTakes[op]
           L == VMLeaves[op]
           P == pops[op]
           Q == pushes[op]
<1>2. /\ Tuple(T) /\ Tuple(L) /\ Len(T) \in Nat /\ Len(L) \in Nat /\ DOMAIN L = 1..Len(L)
      /\ P \in Nat /\ Q \in Nat /\ P <= Len(T) /\ Len(T) - P = Len(L) - Q
  BY CountsAgree, SeqTuple, TupleFacts
<1> HIDE DEF T, L, P, Q
<1>3. Len(T) <= Len(operand_stack)
  BY <1>1, <1>2, HasFacts DEF OnTop, T
<1>4. PICK vs \in [DOMAIN L -> Literals \cup {0}] :
        operand_stack' = popped(operand_stack, Len(T)) \o [i \in DOMAIN vs |-> Value(L[i], vs[i])]
  BY DEF counted, T, L
<1> DEFINE xs == [i \in DOMAIN vs |-> Value(L[i], vs[i])]
<1>5. Tuple(xs) /\ Len(xs) = Len(L)
  <2>1. xs = [i \in 1..Len(L) |-> xs[i]]
    BY <1>2
  <2> HIDE DEF xs
  <2> QED BY <1>2, <2>1, TupleIntro
<1> HIDE DEF xs
<1>6. /\ Tuple(operand_stack) /\ ShadowOK(concolic) /\ Aligned /\ Len(concolic.stack) = Len(operand_stack)
      /\ Len(operand_stack) \in Nat /\ pc = "running"
  BY <1>1, RunFacts DEF Running
<1>7. Tuple(popped(operand_stack, Len(T))) /\ Len(popped(operand_stack, Len(T))) = Len(operand_stack) - Len(T)
  BY <1>2, <1>3, <1>6, TuplePopped
<1>8. operand_stack' = popped(operand_stack, Len(T)) \o xs
  BY <1>4 DEF xs
<1>9. Tuple(operand_stack') /\ Len(operand_stack') = Len(operand_stack) - Len(T) + Len(L)
  BY <1>5, <1>7, <1>8, TupleConcat
<1> DEFINE cs == popped(concolic.stack, P)
           us == Repeat(Unknown, Q)
<1>10. Tuple(cs) /\ Len(cs) = Len(operand_stack) - P
  BY <1>2, <1>3, <1>6, TuplePopped DEF ShadowOK
<1>11. Tuple(us) /\ Len(us) = Q
  BY <1>2, TupleRepeat
<1>12. concolic' = [concolic EXCEPT !.stack = cs \o us]
  BY <1>6 DEF counted, Shadow, P, Q
<1> HIDE DEF cs, us
<1>13. Tuple(cs \o us) /\ Len(cs \o us) = Len(cs) + Len(us)
  BY <1>10, <1>11, TupleConcat
<1>14. ShadowOK(concolic') /\ SameLocals /\ concolic'.args = concolic.args /\ concolic'.stack = cs \o us
  BY <1>6, <1>12, <1>13, StackOnly
<1>15. Len(concolic'.stack) = Len(operand_stack')
  <2>1. Len(concolic'.stack) = Len(operand_stack) - P + Q
    BY <1>10, <1>11, <1>13, <1>14
  <2>2. Len(operand_stack) - P + Q = Len(operand_stack) - Len(T) + Len(L)
    BY <1>2, <1>6
  <2> QED BY <1>9, <2>1, <2>2
<1>16. SameFrames
  BY <1>1, FramesStay
<1> QED BY <1>1, <1>6, <1>9, <1>14, <1>15, <1>16 DEF QuietStep, Stay

\* Instructions that replace values and their symbols.
LEMMA ReplacingQuiet ==
  ASSUME IInv,
         \/ \E b \in {0, 1} : LdBool(b)
         \/ Not
         \/ \E op \in ArithOps : Arith(op)
         \/ \E op \in BitOps : BitOp(op)
         \/ \E op \in ShiftOps : Shift(op)
         \/ \E op \in CmpOps : Compare(op)
         \/ \E i : CopyLoc(i) \/ BorrowLoc(i)
  PROVE  Running /\ QuietStep
<1>1. ASSUME NEW b, LdBool(b) PROVE Running /\ QuietStep
  <2>1. Running /\ Stay /\ UNCHANGED <<pc, call_stack, tree>>
    BY <1>1 DEF LdBool, Step, Fetch
  <2>2. Replace(0, Value(Val("bool"), b), Known(b, {}, TRUE))
    BY <1>1 DEF LdBool
  <2>3. 0 <= Len(operand_stack)
    BY <2>1, RunFacts
  <2> QED BY <2>1, <2>2, <2>3, ReplaceQuiet
<1>2. ASSUME Not PROVE Running /\ QuietStep
  <2>1. Running /\ Stay /\ UNCHANGED <<pc, call_stack, tree>> /\ Has(1)
    BY <1>2 DEF Not, Step, Fetch
  <2>2. \E x, s : Replace(1, x, s)
    BY <1>2 DEF Not
  <2>3. 1 <= Len(operand_stack)
    BY <2>1, HasFacts
  <2> QED BY <2>1, <2>2, <2>3, ReplaceQuiet
<1>3. ASSUME Running, Stay, Has(2), NEW x, NEW s, NEW fails, Binary(x, s, fails) PROVE Running /\ QuietStep
  BY <1>3, BinaryQuiet
<1>4. ASSUME NEW op, Arith(op) PROVE Running /\ QuietStep
  <2>1. Running /\ Stay /\ Has(2)
    BY <1>4 DEF Arith, TwoOf, Step, Fetch
  <2>2. \E x, s, fails : Binary(x, s, fails)
    BY <1>4 DEF Arith
  <2> QED BY <1>3, <2>1, <2>2
<1>5. ASSUME NEW op, BitOp(op) PROVE Running /\ QuietStep
  <2>1. Running /\ Stay /\ Has(2)
    BY <1>5 DEF BitOp, TwoOf, Step, Fetch
  <2>2. \E x, s, fails : Binary(x, s, fails)
    BY <1>5 DEF BitOp
  <2> QED BY <1>3, <2>1, <2>2
<1>6. ASSUME NEW op, Shift(op) PROVE Running /\ QuietStep
  <2>1. Running /\ Stay /\ Has(2)
    BY <1>6 DEF Shift, Step, Fetch
  <2>2. \E x, s, fails : Binary(x, s, fails)
    BY <1>6 DEF Shift
  <2> QED BY <1>3, <2>1, <2>2
<1>7. ASSUME NEW op, Compare(op) PROVE Running /\ QuietStep
  <2>1. Running /\ Stay /\ Has(2)
    BY <1>7 DEF Compare, TwoOf, Step, Fetch
  <2>2. \E x, s, fails : Binary(x, s, fails)
    BY <1>7 DEF Compare
  <2> QED BY <1>3, <2>1, <2>2
<1>8. ASSUME NEW i, CopyLoc(i) \/ BorrowLoc(i) PROVE Running /\ QuietStep
  <2>1. Running /\ Stay /\ UNCHANGED <<pc, call_stack, tree>>
    BY <1>8 DEF CopyLoc, BorrowLoc, Step, Fetch
  <2>2. \E x, s : Replace(0, x, s)
    BY <1>8 DEF CopyLoc, BorrowLoc
  <2>3. 0 <= Len(operand_stack)
    BY <2>1, RunFacts
  <2> QED BY <2>1, <2>2, <2>3, ReplaceQuiet
<1> QED BY <1>1, <1>2, <1>4, <1>5, <1>6, <1>7, <1>8

\* The shadow is left alone while the value on top is replaced.
LEMMA TopQuiet ==
  ASSUME IInv, Running, Stay, Has(1), UNCHANGED <<pc, call_stack, tree>>, concolic' = concolic,
         NEW x, operand_stack' = Append(popped(operand_stack, 1), x)
  PROVE  QuietStep
<1>1. /\ Tuple(operand_stack) /\ ShadowOK(concolic) /\ Len(operand_stack) \in Nat
      /\ Len(concolic.stack) = Len(operand_stack) /\ pc = "running"
  BY RunFacts DEF Running
<1>2. 1 <= Len(operand_stack)
  BY HasFacts
<1>3. Tuple(popped(operand_stack, 1)) /\ Len(popped(operand_stack, 1)) = Len(operand_stack) - 1
  BY <1>1, <1>2, TuplePopped
<1>4. Tuple(operand_stack') /\ Len(operand_stack') = Len(popped(operand_stack, 1)) + 1
  BY <1>3, TupleAppend
<1>5. SameFrames
  BY FramesStay
<1> QED BY <1>1, <1>3, <1>4, <1>5 DEF QuietStep, Stay, SameLocals

\* Instructions that only take a value, or read one.
LEMMA TakingQuiet ==
  ASSUME IInv, Pop \/ ReadRef \/ Abort \/ \E ty \in {"u8", "u16"} : Cast(ty)
  PROVE  Running /\ QuietStep
<1>1. CASE Pop
  <2>1. Running /\ Stay /\ Has(1) /\ UNCHANGED <<pc, call_stack, tree>>
    BY <1>1 DEF Pop, Step, Fetch
  <2>2. /\ Tuple(operand_stack) /\ ShadowOK(concolic) /\ Aligned /\ pc = "running"
        /\ Len(concolic.stack) = Len(operand_stack)
    BY <2>1, RunFacts DEF Running
  <2>3. 1 <= Len(operand_stack)
    BY <2>1, HasFacts
  <2>4. operand_stack' = popped(operand_stack, 1) /\ concolic' = [concolic EXCEPT !.stack = popped(concolic.stack, 1)]
    BY <1>1, <2>2 DEF Pop, Shadow
  <2>5. Tuple(popped(operand_stack, 1)) /\ Len(popped(operand_stack, 1)) = Len(operand_stack) - 1
    BY <2>2, <2>3, TuplePopped
  <2>6. Tuple(popped(concolic.stack, 1)) /\ Len(popped(concolic.stack, 1)) = Len(operand_stack) - 1
    BY <2>2, <2>3, TuplePopped DEF ShadowOK
  <2>7. /\ ShadowOK(concolic') /\ SameLocals /\ concolic'.args = concolic.args
        /\ concolic'.stack = popped(concolic.stack, 1)
    BY <2>2, <2>4, <2>6, StackOnly
  <2>8. SameFrames
    BY <2>1, FramesStay
  <2> QED BY <2>1, <2>2, <2>4, <2>5, <2>6, <2>7, <2>8 DEF QuietStep, Stay
<1>2. CASE ReadRef
  <2>1. Running /\ Stay /\ Has(1) /\ UNCHANGED <<pc, call_stack, tree>>
    BY <1>2 DEF ReadRef, Step, Fetch
  <2>2. concolic' = concolic /\ \E x : operand_stack' = Append(popped(operand_stack, 1), x)
    BY <1>2, <2>1, RunFacts DEF ReadRef, Shadow
  <2> QED BY <2>1, <2>2, TopQuiet
<1>3. CASE Abort
  <2>1. Running /\ Stay /\ execution_error([concolic EXCEPT !.stack = popped(concolic.stack, 1)], 1)
    BY <1>3 DEF Abort, Step, Fetch
  <2>2. Tuple(popped(concolic.stack, 1))
    BY <2>1, RunFacts, TuplePoppedAny DEF ShadowOK
  <2> QED BY <2>1, <2>2, ErrorQuiet
<1>4. ASSUME NEW ty \in {"u8", "u16"}, Cast(ty) PROVE Running /\ QuietStep
  <2>1. Running /\ Stay /\ Has(1)
    BY <1>4 DEF Cast, Step, Fetch
  <2>2. CASE /\ \E x : operand_stack' = Append(popped(operand_stack, 1), x)
             /\ Shadow(concolic) /\ UNCHANGED <<pc, call_stack, tree>>
    <3>1. concolic' = concolic
      BY <2>1, <2>2, RunFacts DEF Shadow
    <3> QED BY <2>1, <2>2, <3>1, TopQuiet
  <2>3. CASE execution_error(concolic, 1)
    <3>1. ShadowOK(concolic)
      BY <2>1, RunFacts
    <3>2. PICK st, ls, as : concolic = [stack |-> st, locals |-> ls, args |-> as, disable |-> FALSE]
      BY <3>1 DEF ShadowOK
    <3>3. concolic = [concolic EXCEPT !.stack = concolic.stack]
      BY <3>2, ZenonT(40)
    <3>4. execution_error([concolic EXCEPT !.stack = concolic.stack], 1)
      BY <2>3, <3>3
    <3>5. Tuple(concolic.stack)
      BY <3>1 DEF ShadowOK
    <3> QED BY <2>1, <3>4, <3>5, ErrorQuiet
  <2> QED BY <1>4, <2>2, <2>3 DEF Cast
<1> QED BY <1>1, <1>2, <1>3, <1>4

\* Instructions that change a local.
LEMMA StoringQuiet ==
  ASSUME IInv, WriteRef \/ \E i : MoveLoc(i) \/ StLoc(i)
  PROVE  Running /\ QuietStep
<1>0. Running /\ Stay /\ UNCHANGED <<pc, tree>>
  BY ZenonT(40) DEF WriteRef, MoveLoc, StLoc, Step, Fetch
<1>1. /\ Tuple(operand_stack) /\ ShadowOK(concolic) /\ Aligned /\ pc = "running"
      /\ Len(concolic.stack) = Len(operand_stack) /\ Len(operand_stack) \in Nat
      /\ Tuple(concolic.stack) /\ Tuple(concolic.locals)
      /\ DOMAIN concolic.locals = 1..Len(concolic.locals) /\ Len(concolic.locals) \in Nat
      /\ \A d \in DOMAIN concolic.locals : Tuple(concolic.locals[d])
  BY <1>0, RunFacts, TupleFacts DEF Running, ShadowOK
<1> DEFINE Set(k, i, y) == SetIn(concolic.locals, k, i, y)
<1>2. ASSUME NEW k, NEW i, NEW y
      PROVE  /\ Tuple(Set(k, i, y)) /\ Len(Set(k, i, y)) = Len(concolic.locals)
             /\ \A d \in 1..Len(Set(k, i, y)) : /\ Tuple(Set(k, i, y)[d])
                                                /\ Len(Set(k, i, y)[d]) = Len(concolic.locals[d])
  BY <1>1, NestedExcept
<1> HIDE DEF Set
<1>3. ASSUME NEW s, Tuple(s), NEW k, NEW i, NEW y, concolic' = [concolic EXCEPT !.stack = s, !.locals = Set(k, i, y)],
             Tuple(operand_stack'), Len(operand_stack') = Len(s), SameFrames
      PROVE  QuietStep
  <2>1. ShadowOK(concolic') /\ SameLocals /\ concolic'.args = concolic.args /\ concolic'.stack = s
    BY <1>1, <1>2, <1>3, StackAndLocals, ZenonT(40)
  <2> QED BY <1>0, <1>1, <1>3, <2>1 DEF QuietStep, Stay
<1>4. ASSUME NEW i, MoveLoc(i) PROVE QuietStep
  <2>1. operand_stack' = Append(operand_stack, me.locals[i])
    BY <1>4 DEF MoveLoc
  <2>2. Tuple(operand_stack') /\ Len(operand_stack') = Len(operand_stack) + 1
    BY <1>1, <2>1, TupleAppend
  <2>3. Tuple(Append(concolic.stack, mine[i])) /\ Len(Append(concolic.stack, mine[i])) = Len(operand_stack) + 1
    BY <1>1, TupleAppend
  <2>4. concolic' = [concolic EXCEPT !.stack = Append(concolic.stack, mine[i]),
                                     !.locals = Set(Len(concolic.locals), i, Unknown)]
    BY <1>1, <1>4 DEF MoveLoc, Shadow, Set, SetIn
  <2>5. SameFrames
    BY <1>0, <1>4, SetLocal DEF MoveLoc
  <2> QED BY <1>3, <2>2, <2>3, <2>4, <2>5
<1>5. ASSUME NEW i, StLoc(i) PROVE QuietStep
  <2>1. operand_stack' = popped(operand_stack, 1) /\ 1 <= Len(operand_stack)
    BY <1>0, <1>5, HasFacts DEF StLoc
  <2>2. Tuple(operand_stack') /\ Len(operand_stack') = Len(operand_stack) - 1
    BY <1>1, <2>1, TuplePopped
  <2>3. Tuple(popped(concolic.stack, 1)) /\ Len(popped(concolic.stack, 1)) = Len(operand_stack) - 1
    BY <1>1, <2>1, TuplePopped
  <2>4. concolic' = [concolic EXCEPT !.stack = popped(concolic.stack, 1),
                                     !.locals = Set(Len(concolic.locals), i, Top(concolic.stack))]
    BY <1>1, <1>5 DEF StLoc, Shadow, Set, SetIn
  <2>5. SameFrames
    BY <1>0, <1>5, SetLocal DEF StLoc
  <2> QED BY <1>3, <2>2, <2>3, <2>4, <2>5
<1>6. ASSUME WriteRef PROVE QuietStep
  <2> DEFINE p == Top(operand_stack).at
             y == Untrusted(concolic.locals[p[1]][p[2]])
  <2>1. operand_stack' = popped(operand_stack, 2) /\ 2 <= Len(operand_stack)
    BY <1>0, <1>6, HasFacts DEF WriteRef
  <2>2. Tuple(operand_stack') /\ Len(operand_stack') = Len(operand_stack) - 2
    BY <1>1, <2>1, TuplePopped
  <2>3. Tuple(popped(concolic.stack, 2)) /\ Len(popped(concolic.stack, 2)) = Len(operand_stack) - 2
    BY <1>1, <2>1, TuplePopped
  <2>4. CASE p = <<>>
    <3>1. call_stack' = call_stack /\ concolic' = [concolic EXCEPT !.stack = popped(concolic.stack, 2), !.locals = concolic.locals]
      BY <1>1, <1>6, <2>4 DEF WriteRef, Shadow
    <3>2. ShadowOK(concolic') /\ SameLocals /\ concolic'.args = concolic.args /\ concolic'.stack = popped(concolic.stack, 2)
      BY <1>1, <2>3, <3>1, StackAndLocals
    <3>3. SameFrames
      BY <1>0, <3>1, FramesStay
    <3> QED BY <1>0, <1>1, <2>2, <2>3, <3>2, <3>3 DEF QuietStep, Stay
  <2>5. CASE p # <<>>
    <3>1. concolic' = [concolic EXCEPT !.stack = popped(concolic.stack, 2), !.locals = Set(p[1], p[2], y)]
      <4>1. concolic' = [concolic EXCEPT !.stack = popped(concolic.stack, 2),
                                         !.locals = [concolic.locals EXCEPT ![p[1]][p[2]] = y]]
        <5>1. Shadow([concolic EXCEPT !.stack = popped(@, 2),
                        !.locals = IF p = <<>> THEN @ ELSE [@ EXCEPT ![p[1]][p[2]] = y]])
          BY <1>6 DEF WriteRef
        <5>2. concolic' = [concolic EXCEPT !.stack = popped(@, 2),
                        !.locals = IF p = <<>> THEN @ ELSE [@ EXCEPT ![p[1]][p[2]] = y]]
          BY <1>1, <5>1 DEF Shadow
        <5> HIDE DEF p
        <5> QED BY <2>5, <5>2
      <4> HIDE DEF p, y
      <4> QED BY <4>1 DEF Set, SetIn
    <3>2. call_stack' = [call_stack EXCEPT ![p[1]].locals[p[2]] = Under(operand_stack)]
      BY <1>6, <2>5 DEF WriteRef
    <3>3. SameFrames
      BY <1>0, <3>2, SetLocal
    <3> QED BY <1>3, <2>2, <2>3, <3>1, <3>3
  <2> QED BY <2>4, <2>5
<1> QED BY <1>0, <1>4, <1>5, <1>6

-----------------------------------------------------------------------------
(* The call tree.                                                           *)

\* The calls of one call are finitely many.
LEMMA KidsFinite ==
  ASSUME NEW t, TreeOK(t), NEW q
  PROVE  IsFiniteSet(Kids(t, q)) /\ Cardinality(Kids(t, q)) \in Nat
<1>1. IsFiniteSet(Paths(t)) /\ Kids(t, q) \subseteq Paths(t)
  BY DEF Kids, TreeOK
<1> QED BY <1>1, FS_Subset, FS_CardinalityType

\* A new call gets a path of its own below its caller.
LEMMA OpenTree ==
  ASSUME NEW t, TreeOK(t), NEW f, NEW u, u = open_frame_inner(t, f)
  PROVE  /\ TreeOK(u) /\ u.error = t.error
         /\ u.call_idxs \notin Paths(t)
         /\ u.calls = t.calls \cup {[path |-> u.call_idxs, fun |-> f]}
         /\ Len(u.call_idxs) = Len(t.call_idxs) + 1 /\ Len(t.call_idxs) \in Nat
         /\ u.call_idxs \in Seq(Nat) /\ t.call_idxs \in Seq(Nat)
         /\ SubSeq(u.call_idxs, 1, Len(t.call_idxs)) = t.call_idxs
         /\ \A d \in 1..Len(t.call_idxs) : SubSeq(u.call_idxs, 1, d) = SubSeq(t.call_idxs, 1, d)
<1> DEFINE q == t.call_idxs
           c == Cardinality(Kids(t, q))
           p == Append(q, c)
<1>1. q \in Seq(Nat) /\ Len(q) \in Nat /\ IsFiniteSet(Paths(t)) /\ c \in Nat
  BY KidsFinite, LenProperties DEF TreeOK
<1>2. PICK cs, ci, er : t = [calls |-> cs, call_idxs |-> ci, error |-> er]
  BY DEF TreeOK
<1>3. u = [t EXCEPT !.calls = t.calls \cup {[path |-> p, fun |-> f]}, !.call_idxs = p]
  BY DEF open_frame_inner, Kids
<1>4. u = [calls |-> t.calls \cup {[path |-> p, fun |-> f]}, call_idxs |-> p, error |-> t.error]
  BY <1>2, <1>3
<1>5. u.calls = t.calls \cup {[path |-> p, fun |-> f]} /\ u.call_idxs = p /\ u.error = t.error
  BY <1>4
<1>5a. u = [calls |-> u.calls, call_idxs |-> u.call_idxs, error |-> u.error]
  BY <1>4, <1>5
<1> HIDE DEF c
<1>6. /\ p \in Seq(Nat) /\ p # <<>> /\ Len(p) = Len(q) + 1 /\ p[Len(q) + 1] = c
      /\ \A i \in 1..Len(q) : p[i] = q[i]
  BY <1>1, AppendProperties, SMTT(30)
<1> HIDE DEF p, q
<1>7. ASSUME NEW d \in 0..Len(q)
      PROVE  SubSeq(p, 1, d) = SubSeq(q, 1, d)
  <2>1. /\ \A i \in 1..d : p[i] \in Nat /\ q[i] \in Nat /\ p[i] = q[i]
    BY <1>1, <1>6, ElementOfSeq, SMTT(30)
  <2>2. /\ SubSeq(p, 1, d) \in Seq(Nat) /\ Len(SubSeq(p, 1, d)) = d
        /\ \A i \in 1..d : SubSeq(p, 1, d)[i] = p[i]
    BY <2>1, SubSeqProperties
  <2>3. /\ SubSeq(q, 1, d) \in Seq(Nat) /\ Len(SubSeq(q, 1, d)) = d
        /\ \A i \in 1..d : SubSeq(q, 1, d)[i] = q[i]
    BY <2>1, SubSeqProperties
  <2> QED BY <2>1, <2>2, <2>3, SeqEqual
<1>8. SubSeq(p, 1, Len(q)) = q
  BY <1>1, <1>7, SubSeqFull
<1>9. p \notin Paths(t)
  <2> SUFFICES ASSUME p \in Paths(t) PROVE FALSE
    OBVIOUS
  <2>1. Len(p) - 1 = Len(q)
    BY <1>1, <1>6
  <2>2. p[Len(p)] < Cardinality(Kids(t, SubSeq(p, 1, Len(p) - 1)))
    BY DEF TreeOK
  <2>3. p[Len(p)] = c /\ SubSeq(p, 1, Len(p) - 1) = q
    BY <1>6, <1>8, <2>1
  <2>4. c < Cardinality(Kids(t, q)) /\ c = Cardinality(Kids(t, q))
    BY <2>2, <2>3 DEF c
  <2> QED BY <1>1, <2>4
<1>10. Paths(u) = Paths(t) \cup {p}
  <2>1. PICK new : new = [path |-> p, fun |-> f]
    OBVIOUS
  <2>2. new.path = p /\ u.calls = t.calls \cup {new}
    BY <1>5, <2>1
  <2> QED BY <2>2 DEF Paths
<1>11. IsFiniteSet(Paths(u))
  BY <1>1, <1>10, FS_AddElement
<1>12. ASSUME NEW r \in Paths(u) PROVE r[Len(r)] < Cardinality(Kids(u, SubSeq(r, 1, Len(r) - 1)))
  <2> DEFINE o == SubSeq(r, 1, Len(r) - 1)
  <2>1. CASE r \in Paths(t)
    <3>1. r[Len(r)] < Cardinality(Kids(t, o)) /\ r \in Seq(Nat) /\ r # <<>>
      BY <2>1 DEF TreeOK
    <3>2. Kids(u, o) = Kids(t, o) \/ Kids(u, o) = Kids(t, o) \cup {p}
      BY <1>10 DEF Kids
    <3>3. r[Len(r)] \in Nat
      BY <3>1, EmptySeq, ElementOfSeq
    <3>4. Cardinality(Kids(u, o)) >= Cardinality(Kids(t, o)) /\ Cardinality(Kids(u, o)) \in Nat
      <4>1. IsFiniteSet(Kids(t, o)) /\ Cardinality(Kids(t, o)) \in Nat
        BY KidsFinite
      <4>2. PICK K : K = Kids(t, o)
        OBVIOUS
      <4>3. Cardinality(K \cup {p}) \in {Cardinality(K), Cardinality(K) + 1}
        BY <4>1, <4>2, FS_AddElement
      <4>4. Cardinality(K) \in Nat /\ (Kids(u, o) = K \/ Kids(u, o) = K \cup {p})
        BY <3>2, <4>1, <4>2
      <4>5. Cardinality(Kids(u, o)) \in {Cardinality(K), Cardinality(K) + 1}
        BY <4>3, <4>4
      <4> HIDE DEF o
      <4> QED BY <4>2, <4>4, <4>5
    <3> HIDE DEF o
    <3>5. Cardinality(Kids(t, o)) \in Nat
      BY KidsFinite
    <3>6. r[Len(r)] < Cardinality(Kids(u, o))
      BY <3>1, <3>3, <3>4, <3>5
    <3> QED BY <3>6 DEF o
  <2>2. CASE r = p
    <3>1. o = q /\ r[Len(r)] = c
      BY <1>1, <1>6, <1>8, <2>2
    <3>2. Kids(u, q) = Kids(t, q) \cup {p} /\ p \notin Kids(t, q)
      BY <1>6, <1>8, <1>9, <1>10 DEF Kids
    <3>3. Cardinality(Kids(u, q)) = c + 1
      BY <3>2, KidsFinite, FS_AddElement DEF c
    <3> HIDE DEF o
    <3>4. r[Len(r)] < Cardinality(Kids(u, o))
      BY <1>1, <3>1, <3>3
    <3> QED BY <3>4 DEF o
  <2> QED BY <1>10, <2>1, <2>2
<1>13. TreeOK(u)
  BY <1>5, <1>5a, <1>6, <1>10, <1>11, <1>12 DEF TreeOK
<1>14. \A d \in 1..Len(q) : SubSeq(p, 1, d) = SubSeq(q, 1, d)
  BY <1>1, <1>7
<1> QED BY <1>1, <1>5, <1>6, <1>8, <1>9, <1>13, <1>14 DEF q

\* The functions the tree has on the way to the new call.
LEMMA OpenAlong ==
  ASSUME TreeOK(tree), NEW f, tree' = open_frame_inner(tree, f), NEW cf, Tuple(cf),
         Along(tree.call_idxs) = [d \in DOMAIN cf |-> {cf[d]}]
  PROVE  /\ TreeOK(tree') /\ tree'.error = tree.error
         /\ Along(tree.call_idxs)' = [d \in DOMAIN Append(cf, f) |-> {Append(cf, f)[d]}]
<1> DEFINE q == tree.call_idxs
           p == tree'.call_idxs
           n == Len(q)
           Of(calls, path) == {e.fun : e \in {x \in calls : x.path = path}}
<1>1. /\ TreeOK(tree') /\ tree'.error = tree.error /\ p \notin Paths(tree)
      /\ tree'.calls = tree.calls \cup {[path |-> p, fun |-> f]}
      /\ Len(p) = n + 1 /\ n \in Nat /\ p \in Seq(Nat) /\ q \in Seq(Nat)
      /\ \A d \in 1..n : SubSeq(p, 1, d) = SubSeq(q, 1, d)
  BY OpenTree, SMTT(30)
<1>2. /\ DOMAIN q = 1..n /\ DOMAIN p = 1..(n + 1)
  BY <1>1, LenProperties
<1>3. /\ DOMAIN cf = 1..Len(cf) /\ Len(cf) \in Nat /\ DOMAIN Append(cf, f) = 1..(Len(cf) + 1)
      /\ Append(cf, f)[Len(cf) + 1] = f /\ \A d \in 1..Len(cf) : Append(cf, f)[d] = cf[d]
  BY TupleAppend, TupleFacts
<1>4. Along(q) = [d \in DOMAIN q |-> Of(tree.calls, SubSeq(q, 1, d))]
  BY DEF Along
<1>5. Along(tree.call_idxs)' = [d \in DOMAIN p |-> Of(tree'.calls, SubSeq(p, 1, d))]
  BY DEF Along
<1>6. DOMAIN cf = DOMAIN q
  BY <1>4
<1>7. Len(cf) = n
  BY <1>1, <1>2, <1>3, <1>6
<1>8. PICK new : new = [path |-> p, fun |-> f]
  OBVIOUS
<1>9. new.path = p /\ new.fun = f /\ tree'.calls = tree.calls \cup {new}
  BY <1>1, <1>8
<1>10. SubSeq(p, 1, n + 1) = p
  BY <1>1, SubSeqFull
<1>11. Of(tree'.calls, SubSeq(p, 1, n + 1)) = {f}
  <2>1. \A e \in tree.calls : e.path # p
    BY <1>1 DEF Paths
  <2>2. {x \in tree'.calls : x.path = p} = {new}
    BY <1>9, <2>1
  <2> QED BY <1>9, <1>10, <2>2
<1>12. ASSUME NEW d \in 1..n PROVE Of(tree'.calls, SubSeq(p, 1, d)) = {cf[d]}
  <2>1. SubSeq(p, 1, d) # p
    <3>1. \A i \in 1..d : p[i] \in Nat
      <4>1. \A i \in 1..Len(p) : p[i] \in Nat
        BY <1>1, ElementOfSeq
      <4>2. \A i \in 1..d : i \in 1..Len(p)
        BY <1>1
      <4> QED BY <4>1, <4>2
    <3>2. Len(SubSeq(p, 1, d)) = d
      BY <3>1, SubSeqProperties
    <3> QED BY <1>1, <3>2
  <2>2. Of(tree'.calls, SubSeq(p, 1, d)) = Of(tree.calls, SubSeq(p, 1, d))
    BY <1>9, <2>1
  <2>3. SubSeq(p, 1, d) = SubSeq(q, 1, d)
    BY <1>1
  <2>4. Of(tree.calls, SubSeq(q, 1, d)) = {cf[d]}
    <3>1. Along(q)[d] = Of(tree.calls, SubSeq(q, 1, d))
      BY <1>2, <1>4
    <3>2. Along(q)[d] = {cf[d]}
      BY <1>2, <1>6
    <3> QED BY <3>1, <3>2
  <2> QED BY <2>2, <2>3, <2>4, ZenonT(40)
<1> HIDE DEF Of, p, q
<1>13. \A d \in 1..(n + 1) : Of(tree'.calls, SubSeq(p, 1, d)) = {Append(cf, f)[d]}
  <2> SUFFICES ASSUME NEW d \in 1..(n + 1) PROVE Of(tree'.calls, SubSeq(p, 1, d)) = {Append(cf, f)[d]}
    OBVIOUS
  <2>1. CASE d = n + 1
    BY <1>3, <1>7, <1>11, <2>1
  <2>2. CASE d \in 1..n
    BY <1>3, <1>7, <1>12, <2>2
  <2>3. d = n + 1 \/ d \in 1..n
    BY <1>1
  <2> QED BY <2>1, <2>2, <2>3
<1>14. Along(tree.call_idxs)' = [d \in DOMAIN Append(cf, f) |-> {Append(cf, f)[d]}]
  BY <1>2, <1>3, <1>5, <1>7, <1>13
<1> QED BY <1>1, <1>14

\* Closing the newest call leads back to its caller.
LEMMA CloseTree ==
  ASSUME NEW t, TreeOK(t), Len(t.call_idxs) # 0, NEW u, u = close_frame_inner(t)
  PROVE  /\ TreeOK(u) /\ u.error = t.error /\ u.calls = t.calls
         /\ u.call_idxs = popped(t.call_idxs, 1)
<1>1. PICK cs, ci, er : t = [calls |-> cs, call_idxs |-> ci, error |-> er]
  BY DEF TreeOK
<1>2. u = [calls |-> cs, call_idxs |-> popped(t.call_idxs, 1), error |-> er]
  BY <1>1 DEF close_frame_inner
<1>3. /\ u.calls = t.calls /\ u.call_idxs = popped(t.call_idxs, 1) /\ u.error = t.error
      /\ t.calls = cs /\ t.error = er
  BY <1>1, <1>2
<1>4. u = [calls |-> u.calls, call_idxs |-> u.call_idxs, error |-> u.error]
  BY <1>2, <1>3
<1>5. Paths(u) = Paths(t)
  BY <1>3 DEF Paths
<1>6. \A q : Kids(u, q) = Kids(t, q)
  BY <1>5 DEF Kids
<1>7. u.call_idxs \in Seq(Nat)
  <2>1. t.call_idxs \in Seq(Nat) /\ Len(t.call_idxs) \in Nat \ {0}
    BY LenProperties DEF TreeOK
  <2>2. popped(t.call_idxs, 1) = SubSeq(t.call_idxs, 1, Len(t.call_idxs) - 1)
    BY <2>1 DEF popped
  <2>3. \A i \in 1..(Len(t.call_idxs) - 1) : t.call_idxs[i] \in Nat
    BY <2>1, ElementOfSeq
  <2>4. Len(t.call_idxs) - 1 \in Int
    BY <2>1
  <2>5. SubSeq(t.call_idxs, 1, Len(t.call_idxs) - 1) \in Seq(Nat)
    BY <2>3, <2>4, SubSeqProperties
  <2> QED BY <1>3, <2>2, <2>5
<1> QED BY <1>3, <1>4, <1>5, <1>6, <1>7 DEF TreeOK

\* So the functions on the way are those of the callers.
LEMMA CloseAlong ==
  ASSUME TreeOK(tree), NEW cf, Tuple(cf), cf # <<>>, tree' = close_frame_inner(tree),
         Along(tree.call_idxs) = [d \in DOMAIN cf |-> {cf[d]}]
  PROVE  /\ TreeOK(tree') /\ tree'.error = tree.error
         /\ Along(tree.call_idxs)' = [d \in DOMAIN popped(cf, 1) |-> {popped(cf, 1)[d]}]
<1> DEFINE q == tree.call_idxs
           n == Len(q)
           Of(path) == {e.fun : e \in {x \in tree.calls : x.path = path}}
<1>1. q \in Seq(Nat) /\ n \in Nat /\ DOMAIN q = 1..n
  BY LenProperties DEF TreeOK
<1>2. Len(cf) \in Nat /\ Len(cf) # 0 /\ DOMAIN cf = 1..Len(cf)
  BY TupleFacts, EmptySeq DEF Tuple
<1>3. Along(q) = [d \in DOMAIN q |-> Of(SubSeq(q, 1, d))]
  BY DEF Along
<1>4. n = Len(cf)
  <2>1. DOMAIN q = DOMAIN cf
    BY <1>3
  <2> QED BY <1>1, <1>2, <2>1
<1>5. TreeOK(tree') /\ tree'.error = tree.error /\ tree'.calls = tree.calls /\ tree'.call_idxs = popped(q, 1)
  BY <1>2, <1>4, CloseTree
<1>6. Along(tree.call_idxs)' = [d \in DOMAIN popped(q, 1) |-> Of(SubSeq(popped(q, 1), 1, d))]
  BY <1>5 DEF Along
<1>7. /\ popped(q, 1) = SubSeq(q, 1, n - 1)
      /\ Tuple(popped(cf, 1)) /\ Len(popped(cf, 1)) = n - 1 /\ \A d \in 1..(n - 1) : popped(cf, 1)[d] = cf[d]
  <2>1. popped(q, 1) = SubSeq(q, 1, n - 1)
    BY <1>1, <1>2, <1>4 DEF popped
  <2>2. 1 <= Len(cf)
    BY <1>2
  <2>3. Tuple(popped(cf, 1)) /\ Len(popped(cf, 1)) = Len(cf) - 1 /\ \A d \in 1..(Len(cf) - 1) : popped(cf, 1)[d] = cf[d]
    BY <2>2, TuplePopped
  <2> HIDE DEF n, q
  <2> QED BY <1>4, <2>1, <2>3
<1>8. \A i \in 1..n : q[i] \in Nat
  BY <1>1, ElementOfSeq
<1>9. /\ SubSeq(q, 1, n - 1) \in Seq(Nat) /\ Len(SubSeq(q, 1, n - 1)) = n - 1
      /\ \A i \in 1..(n - 1) : SubSeq(q, 1, n - 1)[i] = q[i]
  BY <1>1, <1>2, <1>4, <1>8, SubSeqProperties
<1>10. ASSUME NEW d \in 1..(n - 1) PROVE SubSeq(popped(q, 1), 1, d) = SubSeq(q, 1, d)
  <2>1. \A i \in 1..d : popped(q, 1)[i] \in Nat /\ q[i] \in Nat /\ popped(q, 1)[i] = q[i]
    <3>1. \A i \in 1..d : i \in 1..n /\ i \in 1..(n - 1)
      BY <1>1
    <3> QED BY <1>7, <1>8, <1>9, <3>1
  <2>2. /\ SubSeq(q, 1, d) \in Seq(Nat) /\ Len(SubSeq(q, 1, d)) = d
        /\ \A i \in 1..d : SubSeq(q, 1, d)[i] = q[i]
    BY <2>1, SubSeqProperties
  <2>3. /\ SubSeq(popped(q, 1), 1, d) \in Seq(Nat) /\ Len(SubSeq(popped(q, 1), 1, d)) = d
        /\ \A i \in 1..d : SubSeq(popped(q, 1), 1, d)[i] = popped(q, 1)[i]
    BY <2>1, SubSeqProperties
  <2> QED BY <2>1, <2>2, <2>3, SeqEqual
<1>11. DOMAIN popped(q, 1) = 1..(n - 1) /\ DOMAIN popped(cf, 1) = 1..(n - 1)
  BY <1>7, <1>9, LenProperties, TupleFacts
<1>12. ASSUME NEW d \in 1..(n - 1) PROVE Of(SubSeq(popped(q, 1), 1, d)) = {popped(cf, 1)[d]}
  <2>1. d \in DOMAIN q /\ d \in DOMAIN cf
    BY <1>1, <1>2, <1>4
  <2>2. Of(SubSeq(q, 1, d)) = {cf[d]}
    <3>1. Along(q)[d] = Of(SubSeq(q, 1, d))
      BY <1>3, <2>1
    <3>2. Along(q)[d] = {cf[d]}
      BY <2>1
    <3> QED BY <3>1, <3>2
  <2> QED BY <1>7, <1>10, <2>2
<1> HIDE DEF Of, q, n
<1>13. Along(tree.call_idxs)' = [d \in DOMAIN popped(cf, 1) |-> {popped(cf, 1)[d]}]
  BY <1>6, <1>11, <1>12
<1> QED BY <1>5, <1>13

\* A call that is closed at once only adds to the tree.
LEMMA OpenClose ==
  ASSUME TreeOK(tree), NEW f, tree' = close_frame_inner(open_frame_inner(tree, f))
  PROVE  /\ TreeOK(tree') /\ tree'.error = tree.error /\ tree'.call_idxs = tree.call_idxs
         /\ Along(tree.call_idxs)' = Along(tree.call_idxs)
<1> DEFINE q == tree.call_idxs
           n == Len(q)
           Of(calls, path) == {e.fun : e \in {x \in calls : x.path = path}}
<1>0. PICK u : u = open_frame_inner(tree, f)
  OBVIOUS
<1>1. /\ TreeOK(u) /\ u.error = tree.error
      /\ u.calls = tree.calls \cup {[path |-> u.call_idxs, fun |-> f]}
      /\ Len(u.call_idxs) = n + 1 /\ n \in Nat /\ q \in Seq(Nat) /\ SubSeq(u.call_idxs, 1, n) = q
  BY <1>0, OpenTree, SMTT(30)
<1>2. TreeOK(tree') /\ tree'.error = u.error /\ tree'.calls = u.calls /\ tree'.call_idxs = popped(u.call_idxs, 1)
  BY <1>0, <1>1, CloseTree
<1>3. popped(u.call_idxs, 1) = q
  BY <1>1 DEF popped
<1>4. \A i \in 1..n : q[i] \in Nat
  BY <1>1, ElementOfSeq
<1>5. PICK new : new = [path |-> u.call_idxs, fun |-> f]
  OBVIOUS
<1>6. new.path = u.call_idxs /\ tree'.calls = tree.calls \cup {new}
  BY <1>1, <1>2, <1>5
<1>7. ASSUME NEW d \in 1..n PROVE Of(tree'.calls, SubSeq(q, 1, d)) = Of(tree.calls, SubSeq(q, 1, d))
  <2>1. Len(SubSeq(q, 1, d)) = d
    <3>1. \A i \in 1..d : q[i] \in Nat
      BY <1>1, <1>4
    <3> QED BY <3>1, SubSeqProperties
  <2>2. SubSeq(q, 1, d) # u.call_idxs
    BY <1>1, <2>1
  <2> QED BY <1>6, <2>2
<1>8. DOMAIN q = 1..n
  BY <1>1, LenProperties
<1>9. Along(q) = [d \in DOMAIN q |-> Of(tree.calls, SubSeq(q, 1, d))]
  BY DEF Along
<1>10. Along(tree.call_idxs)' = [d \in DOMAIN q |-> Of(tree'.calls, SubSeq(q, 1, d))]
  BY <1>2, <1>3 DEF Along
<1> HIDE DEF Of
<1>11. Along(tree.call_idxs)' = Along(q)
  BY <1>7, <1>8, <1>9, <1>10
<1> QED BY <1>1, <1>2, <1>3, <1>11

-----------------------------------------------------------------------------
(* Frames are opened and closed.                                            *)

\* The signature of a function.
LEMMA Signature ==
  ASSUME NEW f \in Funs
  PROVE  /\ Tuple(Params[f]) /\ Tuple(Locals[f]) /\ Tuple(Returns[f])
         /\ Len(Params[f]) \in Nat /\ Len(Locals[f]) \in Nat /\ Len(Returns[f]) \in Nat
         /\ DOMAIN Params[f] = 1..Len(Params[f]) /\ DOMAIN Returns[f] = 1..Len(Returns[f])
         /\ f \in Native => Len(Locals[f]) = 0
         /\ f \notin Native => /\ Tuple(locals_types(f))
                               /\ Len(locals_types(f)) = Len(Params[f]) + Len(Locals[f])
                               /\ \A i \in 1..Len(Params[f]) : locals_types(f)[i] = Params[f][i]
                               /\ \A i \in 1..Len(Locals[f]) : locals_types(f)[Len(Params[f]) + i] = Locals[f][i]
         /\ f \in Native => locals_types(f) = <<>>
<1>1. Params[f] \in Seq(Types) /\ Locals[f] \in Seq(Types) /\ Returns[f] \in Seq(Types)
  BY ConstantsAssumption
<1>2. Tuple(Params[f]) /\ Tuple(Locals[f]) /\ Tuple(Returns[f])
  BY <1>1, SeqTuple
<1>3. f \in Native => Len(Locals[f]) = 0
  BY ConstantsAssumption, EmptySeq
<1>4. /\ Tuple(Params[f] \o Locals[f]) /\ Len(Params[f] \o Locals[f]) = Len(Params[f]) + Len(Locals[f])
      /\ \A i \in 1..Len(Params[f]) : (Params[f] \o Locals[f])[i] = Params[f][i]
      /\ \A i \in 1..Len(Locals[f]) : (Params[f] \o Locals[f])[Len(Params[f]) + i] = Locals[f][i]
  <2>1. PICK p, l : p = Params[f] /\ l = Locals[f]
    OBVIOUS
  <2>2. Tuple(p) /\ Tuple(l)
    BY <1>2, <2>1
  <2>3. /\ Tuple(p \o l) /\ Len(p \o l) = Len(p) + Len(l)
        /\ \A i \in 1..Len(p) : (p \o l)[i] = p[i]
        /\ \A i \in 1..Len(l) : (p \o l)[Len(p) + i] = l[i]
    BY <2>2, TupleConcat
  <2> QED BY <2>1, <2>3
<1>5. f \notin Native => locals_types(f) = Params[f] \o Locals[f]
  BY DEF locals_types
<1>6. f \in Native => locals_types(f) = <<>>
  BY DEF locals_types
<1>7. /\ Len(Params[f]) \in Nat /\ Len(Locals[f]) \in Nat /\ Len(Returns[f]) \in Nat
      /\ DOMAIN Params[f] = 1..Len(Params[f]) /\ DOMAIN Returns[f] = 1..Len(Returns[f])
  BY <1>2, TupleFacts
<1>8. CASE f \in Native
  BY <1>2, <1>3, <1>6, <1>7, <1>8
<1>9. CASE f \notin Native
  BY <1>2, <1>4, <1>5, <1>7, <1>9
<1> QED BY <1>8, <1>9

\* Locals besides the parameters, and results left on the stack when it is opened.
Rest(f) == IF f \in Native THEN 0 ELSE Len(Locals[f])
Results(f) == IF f \in Native THEN Len(Returns[f]) ELSE 0

\* The symbols of the arguments move from the shadow stack to a new frame.
Opened(c, f, r) ==
  /\ ShadowOK(r) /\ r.args = c.args
  /\ r.stack = popped(c.stack, Len(Params[f])) \o Repeat(Unknown, Results(f))
  /\ r.locals = Append(c.locals, Taken(c.stack, Len(Params[f])) \o Repeat(Unknown, Rest(f)))
  /\ Tuple(Taken(c.stack, Len(Params[f])) \o Repeat(Unknown, Rest(f)))
  /\ Len(Taken(c.stack, Len(Params[f])) \o Repeat(Unknown, Rest(f))) = Len(Params[f]) + Rest(f)
  /\ Len(r.stack) = Len(c.stack) - Len(Params[f]) + Results(f)
  /\ Len(r.locals) = Len(c.locals) + 1

\* Opening the frame of a call inside a function.
LEMMA NestedOpen ==
  ASSUME NEW c, ShadowOK(c), Len(c.locals) # 0, NEW f \in Funs, Len(Params[f]) <= Len(c.stack),
         NEW params
  PROVE  Opened(c, f, on_open_frame_inner(c, f, params))
<1>r. PICK r : r = on_open_frame_inner(c, f, params)
  OBVIOUS
<1>0. PICK n, e, k : /\ n = Len(Params[f]) /\ e = Rest(f) /\ k = Results(f)
                     /\ f \in Native => e = 0 /\ k = Len(Returns[f])
                     /\ f \notin Native => e = Len(Locals[f]) /\ k = 0
  BY DEF Rest, Results
<1> DEFINE fl == Taken(c.stack, n) \o Repeat(Unknown, e)
           st == popped(c.stack, n) \o Repeat(Unknown, k)
<1>1. n \in Nat /\ e \in Nat /\ k \in Nat /\ Tuple(c.stack) /\ Tuple(c.locals) /\ Tuple(c.args)
  BY <1>0, Signature DEF ShadowOK
<1>2. c.locals # <<>> /\ ~c.disable
  BY EmptySeq DEF ShadowOK
<1>3. r = open_nested(c, f)
  BY <1>r, <1>2 DEF on_open_frame_inner
<1>4. LET m == Len(locals_types(f)) - n IN (IF m > 0 THEN m ELSE 0) = e
  <2>1. CASE f \in Native
    <3>1. Len(locals_types(f)) = 0
      BY <2>1, Signature, EmptySeq
    <3>2. e = 0
      BY <1>0, <2>1
    <3> QED BY <1>1, <3>1, <3>2
  <2>2. CASE f \notin Native
    <3>1. Len(locals_types(f)) = n + e
      BY <1>0, <2>2, Signature
    <3> QED BY <1>1, <3>1
  <2> QED BY <2>1, <2>2
<1>5. r = [c EXCEPT !.locals = Append(c.locals, fl), !.stack = st]
  <2>1. (IF Len(Params[f]) <= Len(c.stack) THEN Len(Params[f]) ELSE Len(c.stack)) = n
    BY <1>0
  <2> QED BY <1>0, <1>3, <1>4, <2>1 DEF open_nested
<1>6. Tuple(popped(c.stack, n)) /\ Len(popped(c.stack, n)) = Len(c.stack) - n /\ Tuple(Taken(c.stack, n)) /\ Len(Taken(c.stack, n)) = n
  BY <1>0, <1>1, TuplePopped, ZenonT(40)
<1>7. Tuple(Repeat(Unknown, e)) /\ Len(Repeat(Unknown, e)) = e /\ Tuple(Repeat(Unknown, k)) /\ Len(Repeat(Unknown, k)) = k
  BY <1>1, TupleRepeat
<1>8. Tuple(fl) /\ Len(fl) = n + e
  <2>1. Tuple(fl) /\ Len(fl) = Len(Taken(c.stack, n)) + Len(Repeat(Unknown, e))
    BY <1>6, <1>7, TupleConcat
  <2> HIDE DEF fl
  <2> QED BY <1>6, <1>7, <2>1
<1>9. Tuple(st) /\ Len(st) = Len(c.stack) - n + k
  <2>1. Tuple(st) /\ Len(st) = Len(popped(c.stack, n)) + Len(Repeat(Unknown, k))
    BY <1>6, <1>7, TupleConcat
  <2> HIDE DEF st
  <2> QED BY <1>6, <1>7, <2>1
<1> HIDE DEF fl, st
<1>10. PICK a1, a2, a3 : c = [stack |-> a1, locals |-> a2, args |-> a3, disable |-> FALSE]
  BY DEF ShadowOK
<1>11. r = [stack |-> st, locals |-> Append(c.locals, fl), args |-> a3, disable |-> FALSE]
  BY <1>5, <1>10
<1>12. r.stack = st /\ r.locals = Append(c.locals, fl) /\ r.args = a3 /\ c.args = a3
  <2>1. c.args = a3
    BY <1>10
  <2> QED BY <1>11, <2>1
<1>13. r = [stack |-> r.stack, locals |-> r.locals, args |-> r.args, disable |-> FALSE]
  BY <1>11, <1>12
<1>14. /\ Tuple(r.locals) /\ Len(r.locals) = Len(c.locals) + 1 /\ r.locals[Len(c.locals) + 1] = fl
       /\ \A d \in 1..Len(c.locals) : r.locals[d] = c.locals[d]
  BY <1>1, <1>12, TupleAppend
<1>15. \A d \in DOMAIN r.locals : Tuple(r.locals[d])
  <2> SUFFICES ASSUME NEW d \in DOMAIN r.locals PROVE Tuple(r.locals[d])
    OBVIOUS
  <2>1. d \in 1..(Len(c.locals) + 1) /\ Len(c.locals) \in Nat /\ DOMAIN c.locals = 1..Len(c.locals)
    BY <1>1, <1>14, TupleFacts
  <2>2. CASE d = Len(c.locals) + 1
    BY <1>8, <1>14, <2>2
  <2>3. CASE d \in 1..Len(c.locals)
    BY <1>14, <2>1, <2>3 DEF ShadowOK
  <2> QED BY <2>1, <2>2, <2>3
<1>16. ShadowOK(r)
  BY <1>1, <1>9, <1>12, <1>13, <1>14, <1>15 DEF ShadowOK
<1>17. Opened(c, f, r)
  BY <1>0, <1>8, <1>9, <1>12, <1>14, <1>16 DEF fl, st, Opened
<1> QED BY <1>r, <1>17

\* The innermost frame of the shadow goes.
LEMMA CloseShadow ==
  ASSUME NEW c, ShadowOK(c), Len(c.locals) # 0, NEW r, r = on_close_frame_inner(c)
  PROVE  /\ ShadowOK(r) /\ r.stack = c.stack /\ r.args = c.args
         /\ Len(r.locals) = Len(c.locals) - 1 /\ \A d \in 1..(Len(c.locals) - 1) : r.locals[d] = c.locals[d]
<1>1. PICK a1, a2, a3 : c = [stack |-> a1, locals |-> a2, args |-> a3, disable |-> FALSE]
  BY DEF ShadowOK
<1>2. r = [stack |-> a1, locals |-> popped(c.locals, 1), args |-> a3, disable |-> FALSE]
  BY <1>1 DEF on_close_frame_inner
<1>3. r.stack = a1 /\ r.locals = popped(c.locals, 1) /\ r.args = a3 /\ c.stack = a1 /\ c.args = a3
  BY <1>1, <1>2
<1>4. r = [stack |-> r.stack, locals |-> r.locals, args |-> r.args, disable |-> FALSE]
  BY <1>2, <1>3
<1>5. Tuple(c.locals) /\ Len(c.locals) \in Nat /\ 1 <= Len(c.locals) /\ DOMAIN c.locals = 1..Len(c.locals)
  BY TupleFacts DEF ShadowOK
<1>6. Tuple(r.locals) /\ Len(r.locals) = Len(c.locals) - 1 /\ \A d \in 1..(Len(c.locals) - 1) : r.locals[d] = c.locals[d]
  <2>1. PICK ls : ls = c.locals
    OBVIOUS
  <2>2. Tuple(ls) /\ 1 <= Len(ls)
    BY <1>5, <2>1
  <2>3. Tuple(popped(ls, 1)) /\ Len(popped(ls, 1)) = Len(ls) - 1 /\ \A d \in 1..(Len(ls) - 1) : popped(ls, 1)[d] = ls[d]
    BY <2>2, TuplePopped
  <2> QED BY <1>3, <2>1, <2>3
<1>7. \A d \in DOMAIN r.locals : Tuple(r.locals[d])
  <2>1. DOMAIN r.locals = 1..(Len(c.locals) - 1)
    BY <1>6, TupleFacts
  <2> QED BY <1>5, <1>6, <2>1 DEF ShadowOK
<1> QED BY <1>3, <1>4, <1>6, <1>7 DEF ShadowOK

\* A new frame has a local for every parameter and every local.
LEMMA NewFrame ==
  ASSUME NEW f \in Funs, NEW params, Tuple(params), Len(params) = Len(Params[f]), NEW b \in Nat
  PROVE  /\ FrameOK(Frame(f, params, b)) /\ Frame(f, params, b).fun = f
         /\ Len(Frame(f, params, b).locals) = Len(Params[f]) + Len(Locals[f])
<1>1. Tuple(Locals[f]) /\ Len(Locals[f]) \in Nat
  BY Signature
<1>2. PICK u : u = Repeat(NoValue, Len(Locals[f]))
  OBVIOUS
<1>3. Tuple(u) /\ Len(u) = Len(Locals[f])
  BY <1>1, <1>2, TupleRepeat
<1>4. Tuple(params \o u) /\ Len(params \o u) = Len(params) + Len(u)
  BY <1>3, TupleConcat
<1>5. PICK fr : fr = Frame(f, params, b)
  OBVIOUS
<1>6. fr = [fun |-> f, locals |-> params \o u, base |-> b]
  BY <1>2, <1>5 DEF Frame
<1>7. fr.fun = f /\ fr.locals = params \o u /\ fr.base = b
  BY <1>6
<1>8. Len(fr.locals) = Len(Params[f]) + Len(Locals[f])
  BY <1>3, <1>4, <1>7
<1>9. FrameOK(fr)
  BY <1>4, <1>6, <1>7, <1>8 DEF FrameOK
<1> QED BY <1>5, <1>7, <1>8, <1>9

\* Opening a frame on the machine, the shadow and the tree alike keeps the invariant.
LEMMA PushKeeps ==
  ASSUME IInv, pc \in {"ready", "running"}, pc' = "running",
         NEW f \in Funs, NEW params, Tuple(params), Len(params) = Len(Params[f]), NEW b \in Nat,
         call_stack' = Append(call_stack, Frame(f, params, b)),
         current_functions' = Append(current_functions, f), tree' = open_frame_inner(tree, f),
         Tuple(operand_stack'), ShadowOK(concolic'),
         f \notin Native => Len(concolic'.stack) = Len(operand_stack'),
         Len(concolic'.locals) = Len(call_stack) + 1,
         Len(concolic'.locals[Len(call_stack) + 1]) = Len(Params[f]) + Len(Locals[f]),
         \A d \in 1..Len(call_stack) : /\ Len(concolic'.locals[d]) = Len(call_stack[d].locals)
                                       /\ call_stack[d].fun \notin Native,
         f \in Native => Len(call_stack) = 0
  PROVE  IInv'
<1> DEFINE N == Len(call_stack)
           new == Frame(f, params, b)
<1>1. FrameOK(new) /\ new.fun = f /\ Len(new.locals) = Len(Params[f]) + Len(Locals[f])
  BY NewFrame
<1> HIDE DEF new
<1>2. MachineInv /\ CallsInv /\ TreeInv
  BY DEF IInv
<1>3. N \in Nat /\ Tuple(call_stack) /\ DOMAIN call_stack = 1..N
  BY <1>2, TupleFacts DEF MachineInv
<1>4. /\ Tuple(call_stack') /\ Len(call_stack') = N + 1 /\ DOMAIN call_stack' = 1..(N + 1)
      /\ call_stack'[N + 1] = new /\ \A d \in 1..N : call_stack'[d] = call_stack[d]
  BY <1>3, TupleAppend, TupleFacts DEF new
<1> HIDE DEF N
<1>5. \A d \in 1..(N + 1) : d \in 1..N \/ d = N + 1
  BY <1>3
<1>6. call_stack' # <<>>
  BY <1>3, <1>4, EmptySeq
<1>7. \A d \in 1..(N + 1) : FrameOK(call_stack'[d])
  BY <1>1, <1>2, <1>3, <1>4, <1>5 DEF MachineInv
<1>8. \A d \in 1..(N + 1) : call_stack'[d].fun \in Native => Len(call_stack') = 1
  <2> SUFFICES ASSUME NEW d \in 1..(N + 1), call_stack'[d].fun \in Native PROVE Len(call_stack') = 1
    OBVIOUS
  <2>1. CASE d \in 1..N
    BY <1>4, <2>1 DEF N
  <2>2. CASE d = N + 1
    BY <1>1, <1>4, <2>2 DEF N
  <2> QED BY <1>5, <2>1, <2>2
<1>9. MachineInv'
  BY <1>4, <1>6, <1>7, <1>8 DEF MachineInv
<1>10. ShadowInv'
  <2>1. me' = new
    BY <1>4 DEF me, Top
  <2>2. me'.fun \notin Native => Len(concolic'.stack) = Len(operand_stack')
    BY <1>1, <2>1
  <2>3. \A d \in 1..(N + 1) : Len(concolic'.locals[d]) = Len(call_stack'[d].locals)
    BY <1>1, <1>4, <1>5 DEF N
  <2>4. Len(concolic'.locals) = Len(call_stack')
    BY <1>4 DEF N
  <2> QED BY <1>4, <2>2, <2>3, <2>4 DEF ShadowInv
<1>11. Tuple(current_functions) /\ Len(current_functions) = N /\ \A d \in 1..N : current_functions[d] = call_stack[d].fun
  <2>1. current_functions = [d \in 1..N |-> call_stack[d].fun]
    BY <1>2, <1>3 DEF CallsInv
  <2>2. current_functions = [d \in 1..N |-> current_functions[d]] /\ \A d \in 1..N : current_functions[d] = call_stack[d].fun
    BY <2>1
  <2> QED BY <1>3, <2>2, TupleIntro
<1>12. CallsInv'
  <2>1. /\ Tuple(current_functions') /\ Len(current_functions') = N + 1 /\ current_functions'[N + 1] = f
        /\ \A d \in 1..N : current_functions'[d] = current_functions[d]
    BY <1>11, TupleAppend
  <2>2. current_functions' = [d \in 1..(N + 1) |-> current_functions'[d]]
    BY <2>1, TupleFacts
  <2>3. \A d \in 1..(N + 1) : current_functions'[d] = call_stack'[d].fun
    BY <1>1, <1>4, <1>5, <1>11, <2>1
  <2> QED BY <1>4, <2>2, <2>3 DEF CallsInv
<1>13. TreeInv'
  <2>1. /\ TreeOK(tree) /\ tree.error = NoError
        /\ Along(tree.call_idxs) = [d \in DOMAIN current_functions |-> {current_functions[d]}]
    BY <1>2 DEF TreeInv
  <2>2. /\ TreeOK(tree') /\ tree'.error = tree.error
        /\ Along(tree.call_idxs)' = [d \in DOMAIN Append(current_functions, f) |-> {Append(current_functions, f)[d]}]
    BY <1>11, <2>1, OpenAlong, ZenonT(40)
  <2>3. Along(tree.call_idxs)' = [d \in DOMAIN current_functions' |-> {current_functions'[d]}]
    BY <2>2
  <2> QED BY <2>1, <2>2, <2>3 DEF TreeInv
<1> QED BY <1>9, <1>10, <1>12, <1>13 DEF IInv

\* A Call instruction.
LEMMA CallKeeps ==
  ASSUME IInv, NEW f \in Funs, Call(f)
  PROVE  IInv' /\ concolic'.args = concolic.args
<1> DEFINE n == Len(Params[f])
           params == Taken(operand_stack, n)
<1>1. /\ Running /\ f \notin Native /\ OnTop(Params[f]) /\ pc = "running" /\ pc' = "running"
      /\ Shadow(on_open_frame_inner(concolic, f, params))
      /\ operand_stack' = popped(operand_stack, n)
      /\ call_stack' = Append(call_stack, Frame(f, params, Len(operand_stack) - n))
      /\ current_functions' = Append(current_functions, f) /\ tree' = open_frame_inner(tree, f)
  BY DEF Call, Fetch, Running
<1>2. n \in Nat
  BY Signature
<1>3. Aligned /\ Tuple(operand_stack) /\ Len(operand_stack) \in Nat /\ ShadowOK(concolic)
      /\ Len(concolic.stack) = Len(operand_stack) /\ Len(call_stack) \in Nat \ {0}
      /\ Len(concolic.locals) = Len(call_stack)
      /\ \A d \in 1..Len(call_stack) : Len(concolic.locals[d]) = Len(call_stack[d].locals)
  BY <1>1, RunFacts
<1>4. n <= Len(operand_stack)
  BY <1>1, <1>2, HasFacts DEF OnTop
<1>5. concolic' = on_open_frame_inner(concolic, f, params)
  BY <1>1, <1>3 DEF Shadow
<1> HIDE DEF n, params
<1>6. /\ Tuple(params) /\ Len(params) = n /\ Tuple(operand_stack') /\ Len(operand_stack') = Len(operand_stack) - n
      /\ Len(operand_stack) - n \in Nat
  BY <1>1, <1>2, <1>3, <1>4, TuplePopped DEF params
<1>7. PICK fl : /\ ShadowOK(concolic') /\ concolic'.args = concolic.args /\ concolic'.locals = Append(concolic.locals, fl)
                /\ Len(fl) = n + Len(Locals[f]) /\ Len(concolic'.stack) = Len(concolic.stack) - n
                /\ Len(concolic'.locals) = Len(concolic.locals) + 1
  <2>1. Len(concolic.locals) # 0 /\ Len(Params[f]) <= Len(concolic.stack)
    BY <1>3, <1>4 DEF n
  <2>2. PICK fl : fl = Taken(concolic.stack, Len(Params[f])) \o Repeat(Unknown, Rest(f))
    OBVIOUS
  <2>3. /\ ShadowOK(concolic') /\ concolic'.args = concolic.args /\ concolic'.locals = Append(concolic.locals, fl)
        /\ Len(fl) = Len(Params[f]) + Rest(f)
        /\ Len(concolic'.stack) = Len(concolic.stack) - Len(Params[f]) + Results(f)
        /\ Len(concolic'.locals) = Len(concolic.locals) + 1
    <3>1. Opened(concolic, f, concolic')
      BY <1>3, <1>5, <2>1, NestedOpen
    <3> QED BY <2>2, <3>1 DEF Opened
  <2>4. n = Len(Params[f]) /\ Rest(f) = Len(Locals[f]) /\ Results(f) = 0
    BY <1>1 DEF n, Rest, Results
  <2>5. Len(concolic.stack) - n + 0 = Len(concolic.stack) - n
    BY <1>2, <1>3
  <2> QED BY <2>3, <2>4, <2>5
<1>8. /\ Tuple(concolic.locals) /\ concolic'.locals[Len(concolic.locals) + 1] = fl
      /\ \A d \in 1..Len(concolic.locals) : concolic'.locals[d] = concolic.locals[d]
  BY <1>3, <1>7, TupleAppend DEF ShadowOK
<1>9. Len(concolic'.stack) = Len(operand_stack')
  BY <1>2, <1>3, <1>6, <1>7
<1>10. \A d \in 1..Len(call_stack) : call_stack[d].fun \notin Native
  BY <1>1, RunFacts DEF IInv, MachineInv, Running
<1>11. Len(concolic'.locals) = Len(call_stack) + 1 /\ Len(concolic'.locals[Len(call_stack) + 1]) = n + Len(Locals[f])
  BY <1>3, <1>7, <1>8
<1>12. \A d \in 1..Len(call_stack) : Len(concolic'.locals[d]) = Len(call_stack[d].locals)
  BY <1>3, <1>8
<1>13. Len(params) = Len(Params[f]) /\ Len(concolic'.locals[Len(call_stack) + 1]) = Len(Params[f]) + Len(Locals[f])
  BY <1>6, <1>11 DEF n
<1>14. IInv'
  BY <1>1, <1>6, <1>7, <1>9, <1>10, <1>11, <1>12, <1>13, PushKeeps
<1> QED BY <1>7, <1>14

\* A native call inside a function: only the heights and the tree change.
LEMMA NativeCallKeeps ==
  ASSUME IInv, NEW f \in Funs, NativeCall(f)
  PROVE  IInv' /\ concolic'.args = concolic.args
<1> DEFINE n == Len(Params[f])
           k == Len(Returns[f])
           params == Taken(operand_stack, n)
<1>1. /\ Running /\ Stay /\ f \in Native /\ OnTop(Params[f]) /\ pc = "running" /\ pc' = "running"
      /\ Shadow(on_close_frame_inner(on_open_frame_inner(concolic, f, params)))
      /\ tree' = close_frame_inner(open_frame_inner(tree, f)) /\ call_stack' = call_stack
  BY DEF NativeCall, Step, Fetch, Running
<1>2. PICK vs \in [DOMAIN Returns[f] -> Literals \cup {0}] :
        operand_stack' = popped(operand_stack, n) \o [i \in DOMAIN vs |-> Value(Returns[f][i], vs[i])]
  BY DEF NativeCall
<1> DEFINE xs == [i \in DOMAIN vs |-> Value(Returns[f][i], vs[i])]
<1>3. n \in Nat /\ k \in Nat /\ DOMAIN Returns[f] = 1..k
  BY Signature
<1>4. Tuple(xs) /\ Len(xs) = k
  <2>1. xs = [i \in 1..k |-> xs[i]]
    BY <1>3
  <2> HIDE DEF xs, k
  <2> QED BY <1>3, <2>1, TupleIntro
<1>5. /\ Aligned /\ Tuple(operand_stack) /\ Len(operand_stack) \in Nat /\ ShadowOK(concolic)
      /\ Len(concolic.stack) = Len(operand_stack) /\ Len(call_stack) \in Nat \ {0}
      /\ Len(concolic.locals) = Len(call_stack) /\ DOMAIN call_stack = 1..Len(call_stack)
      /\ \A d \in 1..Len(call_stack) : Len(concolic.locals[d]) = Len(call_stack[d].locals)
  BY <1>1, RunFacts
<1>6. n <= Len(operand_stack)
  BY <1>1, <1>3, HasFacts DEF OnTop
<1>7. PICK r : r = on_open_frame_inner(concolic, f, params)
  OBVIOUS
<1>8. concolic' = on_close_frame_inner(r)
  BY <1>1, <1>5, <1>7 DEF Shadow
<1>9. operand_stack' = popped(operand_stack, n) \o xs
  BY <1>2
<1> HIDE DEF n, k, xs, params
<1>10. Tuple(operand_stack') /\ Len(operand_stack') = Len(operand_stack) - n + k
  <2>1. PICK ps : ps = popped(operand_stack, n)
    OBVIOUS
  <2>2. Tuple(ps) /\ Len(ps) = Len(operand_stack) - n
    BY <1>3, <1>5, <1>6, <2>1, TuplePopped
  <2>3. Tuple(ps \o xs) /\ Len(ps \o xs) = Len(ps) + Len(xs)
    BY <1>4, <2>2, TupleConcat
  <2> QED BY <1>4, <1>9, <2>1, <2>2, <2>3
<1>11. PICK fl : /\ ShadowOK(r) /\ r.locals = Append(concolic.locals, fl) /\ r.args = concolic.args
                 /\ Len(r.stack) = Len(concolic.stack) - n + k /\ Len(r.locals) = Len(concolic.locals) + 1
  <2>1. Len(concolic.locals) # 0 /\ Len(Params[f]) <= Len(concolic.stack)
    BY <1>5, <1>6 DEF n
  <2>2. PICK fl : fl = Taken(concolic.stack, Len(Params[f])) \o Repeat(Unknown, Rest(f))
    OBVIOUS
  <2>3. /\ ShadowOK(r) /\ r.locals = Append(concolic.locals, fl) /\ r.args = concolic.args
        /\ Len(r.stack) = Len(concolic.stack) - Len(Params[f]) + Results(f)
        /\ Len(r.locals) = Len(concolic.locals) + 1
    <3>1. Opened(concolic, f, r)
      BY <1>5, <1>7, <2>1, NestedOpen
    <3> QED BY <2>2, <3>1 DEF Opened
  <2>4. n = Len(Params[f]) /\ Results(f) = k
    BY <1>1 DEF n, k, Results
  <2> QED BY <2>3, <2>4
<1>12. /\ Tuple(concolic.locals) /\ \A d \in 1..Len(concolic.locals) : r.locals[d] = concolic.locals[d]
  BY <1>5, <1>11, TupleAppend DEF ShadowOK
<1>13. Len(r.locals) # 0 /\ Len(r.locals) - 1 = Len(call_stack)
  BY <1>5, <1>11
<1>14. /\ ShadowOK(concolic') /\ concolic'.stack = r.stack /\ concolic'.args = r.args
       /\ Len(concolic'.locals) = Len(r.locals) - 1 /\ \A d \in 1..(Len(r.locals) - 1) : concolic'.locals[d] = r.locals[d]
  BY <1>8, <1>11, <1>13, CloseShadow
<1>15. /\ Len(concolic'.locals) = Len(call_stack)
       /\ \A d \in 1..Len(call_stack) : Len(concolic'.locals[d]) = Len(call_stack[d].locals)
  BY <1>5, <1>12, <1>13, <1>14
<1>16. Len(concolic'.stack) = Len(operand_stack')
  BY <1>5, <1>10, <1>11, <1>14
<1>17. MachineInv /\ CallsInv /\ TreeInv
  BY DEF IInv
<1>18. MachineInv'
  BY <1>1, <1>10, <1>17 DEF MachineInv
<1>19. ShadowInv'
  BY <1>1, <1>5, <1>14, <1>15, <1>16 DEF ShadowInv
<1>20. CallsInv'
  BY <1>1, <1>17 DEF CallsInv, Stay
<1>21. TreeInv'
  <2>1. /\ TreeOK(tree) /\ tree.error = NoError
        /\ Along(tree.call_idxs) = [d \in DOMAIN current_functions |-> {current_functions[d]}]
    BY <1>1, <1>17 DEF TreeInv
  <2>2. TreeOK(tree') /\ tree'.error = tree.error /\ Along(tree.call_idxs)' = Along(tree.call_idxs)
    BY <1>1, <2>1, OpenClose
  <2>3. current_functions' = current_functions
    BY <1>1 DEF Stay
  <2> QED BY <1>1, <2>1, <2>2, <2>3 DEF TreeInv
<1> QED BY <1>11, <1>14, <1>18, <1>19, <1>20, <1>21 DEF IInv

\* A return, to the caller or out of the command.
LEMMA RetKeeps ==
  ASSUME IInv, Ret
  PROVE  IInv' /\ concolic'.args = concolic.args
<1> DEFINE N == Len(call_stack)
<1>1. /\ pc = "running" /\ call_stack' = popped(call_stack, 1) /\ operand_stack' = operand_stack
      /\ current_functions' = popped(current_functions, 1) /\ tree' = close_frame_inner(tree)
      /\ pc' = IF Len(call_stack) = 1 THEN "ready" ELSE "running"
  BY DEF Ret
<1>2. MachineInv /\ ShadowInv /\ CallsInv /\ TreeInv
  BY DEF IInv
<1>3. Tuple(call_stack) /\ call_stack # <<>> /\ N \in Nat /\ DOMAIN call_stack = 1..N
  BY <1>1, <1>2, TupleFacts DEF MachineInv
<1>4. N # 0
  BY <1>3, EmptySeq DEF Tuple
<1>5. /\ ShadowOK(concolic) /\ Len(concolic.locals) = N
      /\ \A d \in 1..N : Len(concolic.locals[d]) = Len(call_stack[d].locals)
      /\ me.fun \notin Native => Len(concolic.stack) = Len(operand_stack)
  BY <1>1, <1>2, <1>3 DEF ShadowInv
<1>6. concolic' = on_close_frame_inner(concolic)
  <2>1. ~concolic.disable
    BY <1>5 DEF ShadowOK
  <2>2. Aligned \/ me.fun \in Native
    BY <1>5, <2>1 DEF Aligned
  <2> QED BY <2>2 DEF Ret
<1>7. /\ ShadowOK(concolic') /\ concolic'.stack = concolic.stack /\ concolic'.args = concolic.args
      /\ Len(concolic'.locals) = N - 1 /\ \A d \in 1..(N - 1) : concolic'.locals[d] = concolic.locals[d]
  BY <1>4, <1>5, <1>6, CloseShadow
<1>8. /\ Tuple(call_stack') /\ Len(call_stack') = N - 1 /\ DOMAIN call_stack' = 1..(N - 1)
      /\ \A d \in 1..(N - 1) : call_stack'[d] = call_stack[d]
  <2>1. 1 <= N
    BY <1>3, <1>4
  <2>2. /\ Tuple(popped(call_stack, 1)) /\ Len(popped(call_stack, 1)) = N - 1
        /\ \A d \in 1..(N - 1) : popped(call_stack, 1)[d] = call_stack[d]
    BY <1>3, <2>1, TuplePopped, ZenonT(40)
  <2> HIDE DEF N
  <2>3. /\ Tuple(call_stack') /\ Len(call_stack') = N - 1
        /\ \A d \in 1..(N - 1) : call_stack'[d] = call_stack[d]
    BY <1>1, <2>2
  <2> QED BY <2>3, TupleFacts
<1> HIDE DEF N
<1>9. \A d \in 1..(N - 1) : d \in 1..N /\ N # 1
  BY <1>3
<1>10. \A d \in 1..(N - 1) : call_stack[d].fun \notin Native
  BY <1>2, <1>3, <1>9 DEF MachineInv, N
<1>11. N = 1 => call_stack' = <<>>
  BY <1>8, EmptySeq DEF Tuple
<1>12. N # 1 => call_stack' # <<>>
  BY <1>3, <1>4, <1>8, EmptySeq
<1>13. MachineInv'
  BY <1>1, <1>2, <1>3, <1>8, <1>9, <1>10, <1>11, <1>12 DEF MachineInv, N
<1>14. ShadowInv'
  <2>1. CASE N = 1
    BY <1>1, <1>7, <2>1 DEF ShadowInv, N
  <2>2. CASE N # 1
    <3>1. me.fun \notin Native
      BY <1>2, <1>3, <1>4, <2>2 DEF MachineInv, me, Top, N
    <3>2. Len(concolic'.stack) = Len(operand_stack')
      BY <1>1, <1>5, <1>7, <3>1
    <3>3. \A d \in 1..(N - 1) : Len(concolic'.locals[d]) = Len(call_stack'[d].locals)
      BY <1>5, <1>7, <1>8, <1>9
    <3> QED BY <1>7, <1>8, <3>2, <3>3 DEF ShadowInv
  <2> QED BY <2>1, <2>2
<1>15. Tuple(current_functions) /\ Len(current_functions) = N /\ \A d \in 1..N : current_functions[d] = call_stack[d].fun
  <2>1. current_functions = [d \in 1..N |-> call_stack[d].fun]
    BY <1>2, <1>3 DEF CallsInv
  <2>2. current_functions = [d \in 1..N |-> current_functions[d]] /\ \A d \in 1..N : current_functions[d] = call_stack[d].fun
    BY <2>1
  <2> QED BY <1>3, <2>2, TupleIntro
<1>16. CallsInv'
  <2>1. 1 <= Len(current_functions)
    BY <1>3, <1>4, <1>15
  <2>2. /\ Tuple(current_functions') /\ Len(current_functions') = N - 1
        /\ \A d \in 1..(N - 1) : current_functions'[d] = current_functions[d]
    <3>1. PICK cf : cf = current_functions
      OBVIOUS
    <3>2. Tuple(cf) /\ 1 <= Len(cf)
      BY <1>15, <2>1, <3>1
    <3>3. /\ Tuple(popped(cf, 1)) /\ Len(popped(cf, 1)) = Len(cf) - 1
          /\ \A d \in 1..(Len(cf) - 1) : popped(cf, 1)[d] = cf[d]
      BY <3>2, TuplePopped
    <3> QED BY <1>1, <1>15, <3>1, <3>3
  <2>3. current_functions' = [d \in 1..(N - 1) |-> current_functions'[d]]
    BY <2>2, TupleFacts
  <2>4. \A d \in 1..(N - 1) : current_functions'[d] = call_stack'[d].fun
    BY <1>8, <1>9, <1>15, <2>2
  <2> QED BY <1>8, <2>3, <2>4 DEF CallsInv
<1>17. TreeInv'
  <2>1. /\ TreeOK(tree) /\ tree.error = NoError /\ current_functions # <<>>
        /\ Along(tree.call_idxs) = [d \in DOMAIN current_functions |-> {current_functions[d]}]
    BY <1>1, <1>2, <1>4, <1>15, EmptySeq DEF TreeInv
  <2>2. /\ TreeOK(tree') /\ tree'.error = tree.error
        /\ Along(tree.call_idxs)' = [d \in DOMAIN popped(current_functions, 1) |-> {popped(current_functions, 1)[d]}]
    BY <1>1, <1>15, <2>1, CloseAlong
  <2>3. Along(tree.call_idxs)' = [d \in DOMAIN current_functions' |-> {current_functions'[d]}]
    BY <1>1, <2>2
  <2> QED BY <1>1, <2>1, <2>2, <2>3 DEF TreeInv
<1> QED BY <1>7, <1>13, <1>14, <1>16, <1>17 DEF IInv

\* The first frame of a command: the shadow starts over, with the arguments that
\* solve can bound as its input variables.
Started(c, f, params, r) ==
  /\ ShadowOK(r) /\ r.stack = <<>> /\ Len(r.locals) = 1
  /\ Len(r.locals[1]) = Len(Params[f]) + Len(Locals[f])
  /\ f \notin Native => \A i \in 1..Len(locals_types(f)) :
       r.locals[1][i] = resolve_arg(Len(c.args), i, locals_types(f)[i], (params \o Repeat(NoValue, Len(Locals[f])))[i])
  /\ \E ps : r.args = Append(c.args, [fun |-> f, params |-> ps]) /\ \A i \in ps : solvable(f, i)

\* Opening the first frame of a command.
LEMMA OutermostOpen ==
  ASSUME NEW c, ShadowOK(c), NEW f \in Funs, NEW params, Tuple(params), Len(params) = Len(Params[f])
  PROVE  Started(c, f, params, on_open_frame_inner(on_move_call_inner(c), f, params))
<1>0. PICK r : r = on_open_frame_inner(on_move_call_inner(c), f, params)
  OBVIOUS
<1>1. PICK a1, a2, a3 : c = [stack |-> a1, locals |-> a2, args |-> a3, disable |-> FALSE]
  BY DEF ShadowOK
<1>2. PICK b : b = on_move_call_inner(c)
  OBVIOUS
<1>3. b = [stack |-> <<>>, locals |-> <<>>, args |-> a3, disable |-> FALSE]
  BY <1>1, <1>2 DEF on_move_call_inner
<1>4. c.args = a3 /\ b.args = a3 /\ b.locals = <<>> /\ ~b.disable
  BY <1>1, <1>3
<1>5. r = open_outermost(b, f, params)
  BY <1>0, <1>2, <1>4 DEF on_open_frame_inner
<1> DEFINE machine_locals == params \o Repeat(NoValue, Len(Locals[f]))
           ls == IF f \in Native THEN Repeat(Unknown, Len(params))
                 ELSE [i \in DOMAIN locals_types(f) |->
                         resolve_arg(Len(b.args), i, locals_types(f)[i], machine_locals[i])]
           ps == {i \in DOMAIN params : ls[i].known}
<1>6. r = [b EXCEPT !.args = Append(b.args, [fun |-> f, params |-> ps]), !.locals = Append(b.locals, ls)]
  BY <1>5 DEF open_outermost
<1>7. /\ Len(Params[f]) \in Nat /\ Len(Locals[f]) \in Nat /\ DOMAIN params = 1..Len(Params[f])
      /\ DOMAIN Params[f] = 1..Len(Params[f])
  BY Signature, TupleFacts
<1>8. /\ Tuple(ls) /\ Len(ls) = Len(Params[f]) + Len(Locals[f]) /\ \A i \in ps : solvable(f, i)
  <2>1. CASE f \in Native
    <3>1. ls = Repeat(Unknown, Len(Params[f])) /\ Len(Locals[f]) = 0
      BY <2>1, Signature
    <3>2. PICK us : us = Repeat(Unknown, Len(Params[f]))
      OBVIOUS
    <3>3. Tuple(us) /\ Len(us) = Len(Params[f]) /\ \A i \in 1..Len(Params[f]) : us[i] = Unknown
      BY <1>7, <3>2, TupleRepeat
    <3>4. ~Unknown.known
      BY DEF Unknown
    <3>5. ps = {}
      BY <1>7, <3>1, <3>2, <3>3, <3>4
    <3>6. Len(us) = Len(Params[f]) + Len(Locals[f])
      BY <1>7, <3>1, <3>3
    <3> HIDE DEF ls, ps
    <3> QED BY <3>1, <3>2, <3>3, <3>5, <3>6
  <2>2. CASE f \notin Native
    <3>1. /\ Tuple(locals_types(f)) /\ Len(locals_types(f)) = Len(Params[f]) + Len(Locals[f])
          /\ \A i \in 1..Len(Params[f]) : locals_types(f)[i] = Params[f][i]
      BY <2>2, Signature
    <3>2. /\ ls = [i \in DOMAIN locals_types(f) |-> ls[i]]
          /\ \A i \in DOMAIN locals_types(f) :
               ls[i] = resolve_arg(Len(b.args), i, locals_types(f)[i], machine_locals[i])
      BY <2>2
    <3> HIDE DEF ls
    <3>3. Tuple(ls) /\ Len(ls) = Len(locals_types(f))
      BY <3>1, <3>2, TupleOn
    <3>4. ASSUME NEW i \in ps PROVE solvable(f, i)
      <4>1. i \in 1..Len(Params[f]) /\ ls[i].known
        BY <1>7
      <4>2. i \in DOMAIN locals_types(f)
        <5>1. DOMAIN locals_types(f) = 1..(Len(Params[f]) + Len(Locals[f]))
          BY <3>1, TupleFacts
        <5>2. \A m, k \in Nat : i \in 1..m => i \in 1..(m + k)
          OBVIOUS
        <5> QED BY <1>7, <4>1, <5>1, <5>2
      <4>3. resolve_arg(Len(b.args), i, Params[f][i], machine_locals[i]).known
        BY <3>1, <3>2, <4>1, <4>2
      <4>4. ~Unknown.known
        BY DEF Unknown
      <4>5. ~Params[f][i].ref /\ Params[f][i].ty \in Prim
        BY <4>3, <4>4 DEF resolve_arg
      <4> QED BY <1>7, <4>1, <4>5 DEF solvable
    <3> QED BY <3>1, <3>3, <3>4
  <2> QED BY <2>1, <2>2
<1>17. f \notin Native => \A i \in 1..Len(locals_types(f)) :
         ls[i] = resolve_arg(Len(c.args), i, locals_types(f)[i], (params \o Repeat(NoValue, Len(Locals[f])))[i])
  <2> SUFFICES ASSUME f \notin Native, NEW i \in 1..Len(locals_types(f))
               PROVE  ls[i] = resolve_arg(Len(c.args), i, locals_types(f)[i], machine_locals[i])
    OBVIOUS
  <2>1. i \in DOMAIN locals_types(f)
    BY Signature, TupleFacts
  <2> QED BY <1>4, <2>1
<1> HIDE DEF ls, ps
<1>9. r = [stack |-> <<>>, locals |-> <<ls>>, args |-> Append(c.args, [fun |-> f, params |-> ps]), disable |-> FALSE]
  <2>1. PICK as : as = Append(c.args, [fun |-> f, params |-> ps])
    OBVIOUS
  <2>2. r = [b EXCEPT !.args = as, !.locals = Append(b.locals, ls)]
    BY <1>4, <1>6, <2>1
  <2>3. Append(b.locals, ls) = <<ls>>
    BY <1>4
  <2> QED BY <1>3, <2>1, <2>2, <2>3
<1>10. /\ r.stack = <<>> /\ r.locals = <<ls>> /\ r.args = Append(c.args, [fun |-> f, params |-> ps])
  BY <1>9
<1>11. r = [stack |-> r.stack, locals |-> r.locals, args |-> r.args, disable |-> FALSE]
  BY <1>9, <1>10
<1>12. Tuple(r.args)
  BY <1>10, TupleAppend DEF ShadowOK
<1>13. Tuple(r.stack)
  BY <1>10, EmptySeq, SeqTuple
<1>14. Tuple(r.locals) /\ Len(r.locals) = 1 /\ DOMAIN r.locals = 1..1 /\ r.locals[1] = ls
  <2>1. r.locals = [i \in 1..1 |-> r.locals[i]] /\ r.locals[1] = ls
    BY <1>10
  <2> QED BY <2>1, TupleIntro
<1>15. ShadowOK(r)
  BY <1>8, <1>11, <1>12, <1>13, <1>14 DEF ShadowOK
<1>16. Started(c, f, params, r)
  BY <1>8, <1>10, <1>14, <1>15, <1>17 DEF Started
<1> QED BY <1>0, <1>16

\* A command that calls a function.
LEMMA MoveCallSteps ==
  ASSUME IInv, move_call
  PROVE  \E f, params :
           /\ f \in Funs /\ f = program[cmd + 1] /\ pc = "ready" /\ pc' = "running"
           /\ Tuple(params) /\ Len(params) = Len(Params[f]) /\ Started(concolic, f, params, concolic')
           /\ \A i \in 1..Len(Params[f]) : \E v \in RangeOf(Params[f][i].ty) : params[i] = Value(Params[f][i], v)
           /\ call_stack' = <<Frame(f, params, 0)>> /\ operand_stack' = <<>>
           /\ current_functions' = Append(current_functions, f) /\ tree' = open_frame_inner(tree, f)
<1>1. PICK f : f = program[cmd + 1]
  OBVIOUS
<1>2. f \in Funs /\ pc = "ready" /\ pc' = "running"
  BY <1>1 DEF move_call
<1>3. PICK vs \in [DOMAIN Params[f] -> 0..(2^Bits["u16"] - 1)] :
        /\ \A i \in DOMAIN vs : vs[i] \in RangeOf(Params[f][i].ty)
        /\ LET params == [i \in DOMAIN vs |-> Value(Params[f][i], vs[i])]
           IN  /\ concolic' = on_open_frame_inner(on_move_call_inner(concolic), f, params)
               /\ call_stack' = <<Frame(f, params, 0)>>
               /\ operand_stack' = <<>>
               /\ current_functions' = Append(current_functions, f)
               /\ tree' = open_frame_inner(tree, f)
  BY <1>1 DEF move_call
<1> DEFINE params == [i \in DOMAIN vs |-> Value(Params[f][i], vs[i])]
<1>4. Tuple(params) /\ Len(params) = Len(Params[f])
  <2>1. params = [i \in DOMAIN Params[f] |-> params[i]]
    OBVIOUS
  <2>2. Tuple(Params[f])
    BY <1>2, Signature
  <2> HIDE DEF params
  <2> QED BY <2>1, <2>2, TupleOn
<1>5. /\ concolic' = on_open_frame_inner(on_move_call_inner(concolic), f, params)
      /\ call_stack' = <<Frame(f, params, 0)>> /\ operand_stack' = <<>>
      /\ current_functions' = Append(current_functions, f) /\ tree' = open_frame_inner(tree, f)
  BY <1>3
<1>7. \A i \in 1..Len(Params[f]) : \E v \in RangeOf(Params[f][i].ty) : params[i] = Value(Params[f][i], v)
  <2>1. DOMAIN Params[f] = 1..Len(Params[f])
    BY <1>2, Signature
  <2>2. ASSUME NEW i \in DOMAIN Params[f] PROVE params[i] = Value(Params[f][i], vs[i]) /\ vs[i] \in RangeOf(Params[f][i].ty)
    BY <1>3
  <2> HIDE DEF params
  <2> QED BY <2>1, <2>2
<1> HIDE DEF params
<1>6. Started(concolic, f, params, concolic')
  BY <1>2, <1>4, <1>5, OutermostOpen DEF IInv, ShadowInv
<1> QED BY <1>1, <1>2, <1>4, <1>5, <1>6, <1>7

\* Such a command keeps the invariant: nothing of an earlier command is left.
LEMMA MoveCallKeeps ==
  ASSUME IInv, move_call
  PROVE  IInv'
<1>1. PICK f, params :
        /\ f \in Funs /\ f = program[cmd + 1] /\ pc = "ready" /\ pc' = "running"
        /\ Tuple(params) /\ Len(params) = Len(Params[f]) /\ Started(concolic, f, params, concolic')
        /\ call_stack' = <<Frame(f, params, 0)>> /\ operand_stack' = <<>>
        /\ current_functions' = Append(current_functions, f) /\ tree' = open_frame_inner(tree, f)
  BY MoveCallSteps
<1>2. call_stack = <<>>
  BY <1>1 DEF IInv, MachineInv
<1>3. Len(call_stack) = 0 /\ call_stack' = Append(call_stack, Frame(f, params, 0))
  BY <1>1, <1>2
<1>4. /\ ShadowOK(concolic') /\ concolic'.stack = <<>> /\ Len(concolic'.locals) = 1
      /\ Len(concolic'.locals[1]) = Len(Params[f]) + Len(Locals[f])
  BY <1>1 DEF Started
<1>5. Tuple(operand_stack') /\ Len(concolic'.stack) = Len(operand_stack')
  BY <1>1, <1>4, EmptySeq, SeqTuple
<1>6. Len(concolic'.locals) = Len(call_stack) + 1
  BY <1>3, <1>4
<1>7. Len(concolic'.locals[Len(call_stack) + 1]) = Len(Params[f]) + Len(Locals[f])
  <2>1. Len(call_stack) + 1 = 1
    BY <1>3
  <2> QED BY <1>4, <2>1
<1>8. \A d \in 1..Len(call_stack) : FALSE
  BY <1>3
<1> QED BY <1>1, <1>3, <1>4, <1>5, <1>6, <1>7, <1>8, PushKeeps

\* It records the arguments of its function.
LEMMA MoveCallArgs ==
  ASSUME IInv, move_call
  PROVE  \E ps : /\ concolic'.args = Append(concolic.args, [fun |-> program[cmd + 1], params |-> ps])
                 /\ \A i \in ps : solvable(program[cmd + 1], i)
BY MoveCallSteps DEF Started

-----------------------------------------------------------------------------
(* The theorem.                                                             *)

\* Before the first command nothing runs.
LEMMA InitInv ==
  ASSUME Init
  PROVE  IInv
<1>1. /\ operand_stack = <<>> /\ call_stack = <<>> /\ pc = "ready" /\ current_functions = <<>>
      /\ concolic = [stack |-> <<>>, locals |-> <<>>, args |-> <<>>, disable |-> FALSE]
      /\ tree = [calls |-> {}, call_idxs |-> <<>>, error |-> NoError]
  BY DEF Init
<1>2. Tuple(<<>>) /\ DOMAIN <<>> = {}
  <2>1. Tuple(<<>>)
    BY EmptySeq, SeqTuple
  <2>2. DOMAIN <<>> = {}
    OBVIOUS
  <2> QED BY <2>1, <2>2
<1>3. MachineInv
  BY <1>1, <1>2 DEF MachineInv
<1>4. ShadowInv
  BY <1>1, <1>2 DEF ShadowInv, ShadowOK
<1>5. CallsInv
  BY <1>1 DEF CallsInv
<1>6. TreeInv
  <2>1. Paths(tree) = {} /\ tree.call_idxs = <<>> /\ tree.error = NoError
    BY <1>1 DEF Paths
  <2>2. IsFiniteSet(Paths(tree))
    BY <2>1, FS_EmptySet
  <2>3. TreeOK(tree)
    <3>1. tree = [calls |-> tree.calls, call_idxs |-> tree.call_idxs, error |-> tree.error]
      BY <1>1
    <3>2. tree.call_idxs \in Seq(Nat)
      BY <2>1, EmptySeq
    <3> QED BY <2>1, <2>2, <3>1, <3>2 DEF TreeOK
  <2>4. Along(tree.call_idxs) = [d \in DOMAIN current_functions |-> {current_functions[d]}]
    BY <1>1, <1>2, <2>1 DEF Along
  <2> QED BY <1>1, <2>1, <2>3, <2>4 DEF TreeInv
<1> QED BY <1>3, <1>4, <1>5, <1>6 DEF IInv

\* Every step keeps the invariant, and only the start of a command adds arguments.
LEMMA StepInv ==
  ASSUME IInv, [Next]_vars
  PROVE  IInv' /\ (move_call \/ concolic'.args = concolic.args)
<1>1. CASE move_call
  BY <1>1, MoveCallKeeps
<1>2. CASE Ret
  BY <1>2, RetKeeps
<1>3. ASSUME NEW f \in Funs, Call(f) \/ NativeCall(f) PROVE IInv' /\ concolic'.args = concolic.args
  BY <1>3, CallKeeps, NativeCallKeeps
<1>4. ASSUME Running, QuietStep PROVE IInv' /\ concolic'.args = concolic.args
  BY <1>4, QuietKeeps DEF QuietStep
<1>5. CASE Instruction
  <2>1. CASE \E op \in Counted : counted(op)
    BY <1>4, <2>1, CountedQuiet
  <2>2. CASE Pop \/ ReadRef \/ Abort \/ \E ty \in {"u8", "u16"} : Cast(ty)
    BY <1>4, <2>2, TakingQuiet
  <2>3. CASE WriteRef \/ \E i : MoveLoc(i) \/ StLoc(i)
    BY <1>4, <2>3, StoringQuiet
  <2>4. CASE \/ \E b \in {0, 1} : LdBool(b)
             \/ Not
             \/ \E op \in ArithOps : Arith(op)
             \/ \E op \in BitOps : BitOp(op)
             \/ \E op \in ShiftOps : Shift(op)
             \/ \E op \in CmpOps : Compare(op)
             \/ \E i : CopyLoc(i) \/ BorrowLoc(i)
    BY <1>4, <2>4, ReplacingQuiet
  <2> QED BY <1>3, <1>5, <2>1, <2>2, <2>3, <2>4 DEF Instruction
<1>6. CASE other_command \/ end_of_program \/ mutate \/ UNCHANGED vars
  <2>1. /\ UNCHANGED <<operand_stack, call_stack, concolic, current_functions, tree>>
        /\ pc' = pc \/ pc' \notin {"ready", "running", "aborted"}
    BY <1>6 DEF other_command, end_of_program, mutate, solve_arg, machine, vars
  <2>2. MachineInv'
    BY <2>1 DEF IInv, MachineInv
  <2>3. ShadowInv'
    BY <2>1 DEF IInv, ShadowInv, me, Top
  <2>4. CallsInv'
    BY <2>1 DEF IInv, CallsInv
  <2>5. TreeInv'
    BY <2>1 DEF IInv, TreeInv, Along
  <2> QED BY <2>1, <2>2, <2>3, <2>4, <2>5 DEF IInv
<1> QED BY <1>1, <1>2, <1>5, <1>6 DEF Next

\* Whatever verified code the commands run, of any length and any depth of calls,
\* the shadow keeps the height and the depth of the machine's stacks, concolic
\* execution is never disabled and the call tree leads through the live calls.
THEOREM StacksAlwaysAligned == Spec => []StacksAligned
<1>1. Init => IInv
  BY InitInv
<1>2. IInv /\ [Next]_vars => IInv'
  BY StepInv
<1>3. IInv => StacksAligned
  <2> SUFFICES ASSUME IInv PROVE StacksAligned
    OBVIOUS
  <2>1. ShadowInv /\ CallsInv /\ TreeInv
    BY DEF IInv
  <2>2. ~concolic.disable
    BY <2>1 DEF ShadowInv, ShadowOK
  <2>3. [d \in DOMAIN current_functions |-> {current_functions[d]}] = [d \in DOMAIN call_stack |-> {call_stack[d].fun}]
    BY <2>1 DEF CallsInv
  <2>4. Along(tree.call_idxs) = [d \in DOMAIN current_functions |-> {current_functions[d]}]
    BY <2>1 DEF TreeInv
  <2>5. pc = "aborted" => Along(tree.error) = Along(tree.call_idxs)
    BY <2>1, SMTT(30) DEF TreeInv
  <2> QED BY <2>1, <2>2, <2>3, <2>4, <2>5 DEF StacksAligned, ShadowInv
<1> QED BY <1>1, <1>2, <1>3, PTL DEF Spec

-----------------------------------------------------------------------------
(* The arguments the solver is given.                                       *)

\* The arguments recorded are those of the commands started, in their order, and
\* they can be solved for.
ArgsInv ==
  /\ program \in Programs /\ cmd \in 0..Len(program)
  /\ Len(concolic.args) = IF cmd > 0 /\ program[cmd] = Other THEN cmd - 1 ELSE cmd
  /\ \A c \in DOMAIN concolic.args :
       /\ concolic.args[c].fun = program[c]
       /\ \A i \in concolic.args[c].params : solvable(program[c], i)

\* A command sequence.
LEMMA ProgramFacts ==
  ASSUME NEW p \in Programs
  PROVE  /\ Len(p) \in Nat /\ DOMAIN p = 1..Len(p)
         /\ \A i \in 1..Len(p) : p[i] = Other => i = Len(p)
<1>1. p \in Seq(Funs \cup {Other})
  BY ConstantsAssumption
<1>2. Len(p) \in Nat /\ DOMAIN p = 1..Len(p)
  BY <1>1, LenProperties
<1> QED BY <1>2, ConstantsAssumption, ZenonT(40)

\* While there is a command left, every command started has its arguments.
LEMMA ArgsSoFar ==
  ASSUME ArgsInv, cmd < Len(program)
  PROVE  Len(concolic.args) = cmd /\ cmd \in Nat /\ cmd + 1 \in 1..Len(program)
<1>1. /\ Len(program) \in Nat /\ \A i \in 1..Len(program) : program[i] = Other => i = Len(program)
      /\ cmd \in 0..Len(program)
  BY ProgramFacts DEF ArgsInv
<1>2. ~(cmd > 0 /\ program[cmd] = Other)
  BY <1>1
<1> QED BY <1>1, <1>2 DEF ArgsInv

\* Every step keeps the arguments in step with the commands.
LEMMA ArgsStep ==
  ASSUME IInv, ArgsInv, [Next]_vars
  PROVE  ArgsInv'
<1>1. program' = program /\ program \in Programs /\ Len(program) \in Nat
  <2>1. program' = program
    BY ZenonT(40) DEF Next, vars, move_call, other_command, end_of_program, Instruction, Ret, mutate, counted, LdBool,
           Pop, Not, ReadRef, WriteRef, Abort, Cast, Arith, BitOp, Shift, Compare, TwoOf, CopyLoc, BorrowLoc,
           MoveLoc, StLoc, Call, NativeCall, Step, Stay
  <2> QED BY <2>1, ProgramFacts DEF ArgsInv
<1>2. CASE move_call
  <2>1. PICK f : f = program[cmd + 1]
    OBVIOUS
  <2>2. f \in Funs /\ cmd < Len(program) /\ cmd' = cmd + 1
    BY <1>2, <2>1 DEF move_call
  <2>3. Len(concolic.args) = cmd /\ cmd \in Nat /\ cmd + 1 \in 1..Len(program)
    BY <2>2, ArgsSoFar
  <2>4. PICK ps : concolic'.args = Append(concolic.args, [fun |-> f, params |-> ps]) /\ \A i \in ps : solvable(f, i)
    BY <1>2, <2>1, MoveCallArgs
  <2>5. PICK new : new = [fun |-> f, params |-> ps]
    OBVIOUS
  <2>6. new.fun = f /\ new.params = ps
    BY <2>5
  <2>7. Tuple(concolic.args)
    BY DEF IInv, ShadowInv, ShadowOK
  <2>8. /\ Tuple(concolic'.args) /\ Len(concolic'.args) = cmd + 1 /\ concolic'.args[cmd + 1] = new
        /\ \A c \in 1..cmd : concolic'.args[c] = concolic.args[c]
    BY <2>3, <2>4, <2>5, <2>7, TupleAppend
  <2>9. DOMAIN concolic'.args = 1..(cmd + 1) /\ DOMAIN concolic.args = 1..cmd
    BY <2>3, <2>7, <2>8, TupleFacts
  <2>10. ASSUME NEW c \in 1..(cmd + 1)
         PROVE  concolic'.args[c].fun = program[c] /\ \A i \in concolic'.args[c].params : solvable(program[c], i)
    <3>1. CASE c = cmd + 1
      BY <2>1, <2>4, <2>6, <2>8, <3>1
    <3>2. CASE c \in 1..cmd
      BY <2>8, <2>9, <3>2 DEF ArgsInv
    <3> QED BY <2>3, <3>1, <3>2
  <2>11. program[cmd + 1] # Other
    BY <2>1, <2>2, ConstantsAssumption
  <2>12. cmd' \in 0..Len(program)
    BY <2>2, <2>3
  <2> QED BY <1>1, <2>2, <2>8, <2>9, <2>10, <2>11, <2>12 DEF ArgsInv, solvable
<1>3. CASE other_command
  <2>1. concolic' = concolic /\ cmd < Len(program) /\ cmd' = cmd + 1 /\ program[cmd + 1] = Other
    BY <1>3 DEF other_command
  <2>2. Len(concolic.args) = cmd /\ cmd \in Nat /\ cmd + 1 \in 1..Len(program)
    BY <2>1, ArgsSoFar
  <2>3. cmd' \in 0..Len(program) /\ cmd' > 0 /\ cmd' - 1 = cmd
    BY <2>1, <2>2
  <2> QED BY <1>1, <2>1, <2>2, <2>3 DEF ArgsInv, solvable
<1>4. CASE ~move_call /\ ~other_command
  <2>1. concolic'.args = concolic.args
    BY <1>4, StepInv
  <2>2. cmd' = cmd
    BY <1>4, ZenonT(40) DEF Next, vars, end_of_program, Instruction, Ret, mutate, counted, LdBool,
           Pop, Not, ReadRef, WriteRef, Abort, Cast, Arith, BitOp, Shift, Compare, TwoOf, CopyLoc, BorrowLoc,
           MoveLoc, StLoc, Call, NativeCall, Step, Stay
  <2> QED BY <1>1, <2>1, <2>2 DEF ArgsInv, solvable
<1> QED BY <1>2, <1>3, <1>4

\* Solving the constraints of a trace for the sequence that was traced never meets
\* a parameter that does not exist or is not a primitive: the command that is
\* mutated has the arguments that were recorded for it.
THEOREM SolverNeverPanics ==
  ASSUME OwnSequence
  PROVE  Spec => []NoSolverPanic
<1>1. Init => IInv /\ ArgsInv /\ NoSolverPanic
  <2> SUFFICES ASSUME Init PROVE ArgsInv /\ NoSolverPanic
    BY InitInv
  <2>1. Len(program) \in Nat
    BY ProgramFacts DEF Init
  <2>2. concolic.args = <<>> /\ cmd = 0 /\ pc = "ready" /\ program \in Programs
    BY DEF Init
  <2> QED BY <2>1, <2>2 DEF ArgsInv, NoSolverPanic
<1>2. IInv /\ ArgsInv /\ NoSolverPanic /\ [Next]_vars => (IInv /\ ArgsInv /\ NoSolverPanic)'
  <2> SUFFICES ASSUME IInv, ArgsInv, NoSolverPanic, [Next]_vars PROVE NoSolverPanic'
    BY StepInv, ArgsStep
  <2>1. CASE mutate
    <3>1. PICK p \in Mutated : \E c \in candidates(p) : \E answer \in {"mutated", "skipped"} : solve_arg(p, c, answer)
      BY <2>1 DEF mutate
    <3>2. p = program
      BY <3>1 DEF Mutated
    <3>3. PICK c, answer : answer \in {"mutated", "skipped"} /\ solve_arg(program, c, answer)
      BY <3>1, <3>2
    <3>4. c \in DOMAIN concolic.args => ~\E i \in concolic.args[c].params : ~solvable(program[c], i)
      BY DEF ArgsInv
    <3>5. pc' \in {"mutated", "skipped"}
      BY <3>3, <3>4 DEF solve_arg
    <3> QED BY <3>5 DEF NoSolverPanic
  <2>2. CASE ~mutate
    <3>1. pc' = pc \/ pc' \in {"ready", "running", "aborted", "done"}
      BY <2>2, ZenonT(40) DEF Next, vars, move_call, other_command, end_of_program, Instruction, Ret, counted, LdBool,
           Pop, Not, ReadRef, WriteRef, Abort, Cast, Arith, BitOp, Shift, Compare, TwoOf, CopyLoc, BorrowLoc,
           MoveLoc, StLoc, Call, NativeCall, Step, Stay, Binary, execution_error
    <3> QED BY <3>1 DEF NoSolverPanic
  <2> QED BY <2>1, <2>2
<1> QED BY <1>1, <1>2, PTL DEF Spec

-----------------------------------------------------------------------------
(* What the symbols stand for.                                              *)

\* A symbol of the n-th command that was called mentions inputs of it only.
SymOK(s, n) ==
  /\ s = [known |-> s.known, val |-> s.val, vars |-> s.vars, sound |-> s.sound]
  /\ \A x \in s.vars : x[1] + 1 = n

\* A value at depth d, where fs are the functions called: one of its type, and a
\* reference to a local leads to a frame not above it, to a local of its type.
ValOK(x, d, fs) ==
  /\ x = [ty |-> x.ty, ref |-> x.ref, v |-> x.v, at |-> x.at] /\ TypeOf(x) \in Types
  /\ x.ty \in Prim => x.v \in RangeOf(x.ty)
  /\ x.at # <<>> => /\ x.ref
                    /\ \E k \in 1..d : \E j \in 1..Len(locals_types(fs[k])) :
                         x.at = <<k, j>> /\ locals_types(fs[k])[j] = Val(x.ty)

\* A value and the symbol that goes with it.
PairOK(s, x, d, fs, n) == SymOK(s, n) /\ ValOK(x, d, fs) /\ Exact(s, x)

\* A local whose slot has type t.  Its symbol stays when it is written through a
\* reference, also one of another frame.
LocalOK(s, x, t, d, fs, n) ==
  /\ SymOK(s, n) /\ (s.known => t.ty \in Prim)
  /\ x # NoValue => /\ ValOK(x, d, fs) /\ TypeOf(x) = t
                    /\ s.known /\ s.sound => s.val = x.v

\* The operand stack and the shadow's, place by place.
PairsOK(cs, os, d, fs, n) == \A i \in 1..Len(os) : PairOK(cs[i], os[i], d, fs, n)

\* The locals of every frame and the shadow's.
FramesOK(cl, st, fs, n) ==
  \A d \in 1..Len(st) : \A i \in 1..Len(st[d].locals) :
    LocalOK(cl[d][i], st[d].locals[i], locals_types(fs[d])[i], d, fs, n)

\* The inductive invariant of the symbols.
SymInv ==
  pc = "running" /\ me.fun \notin Native =>
    /\ PairsOK(concolic.stack, operand_stack, Len(call_stack), current_functions, Len(concolic.args))
    /\ FramesOK(concolic.locals, call_stack, current_functions, Len(concolic.args))
    /\ concolic.args # <<>> /\ Top(concolic.args).fun = current_functions[1]

-----------------------------------------------------------------------------
(* The symbols instructions compute.                                        *)

\* A value without an address.
LEMMA ValueFacts ==
  ASSUME NEW t \in Types, NEW v, t.ty \in Prim => v \in RangeOf(t.ty), NEW d, NEW fs
  PROVE  ValOK(Value(t, v), d, fs) /\ Value(t, v).ty = t.ty /\ Value(t, v).v = v /\ TypeOf(Value(t, v)) = t
<1>1. PICK x : x = Value(t, v)
  OBVIOUS
<1>2. x = [ty |-> t.ty, ref |-> t.ref, v |-> v, at |-> <<>>] /\ t = [ty |-> t.ty, ref |-> t.ref]
  BY <1>1 DEF Value, Types
<1>3. x.ty = t.ty /\ x.ref = t.ref /\ x.v = v /\ x.at = <<>>
  BY <1>2
<1>4. TypeOf(x) = t
  BY <1>2, <1>3 DEF TypeOf
<1>5. ValOK(x, d, fs)
  BY <1>2, <1>3, <1>4 DEF ValOK
<1> QED BY <1>1, <1>3, <1>4, <1>5

\* A symbol with a value that can be relied on or not.
LEMMA KnownFacts ==
  ASSUME NEW val, NEW names, NEW sound, NEW n, \A x \in names : x[1] + 1 = n
  PROVE  /\ SymOK(Known(val, names, sound), n) /\ Known(val, names, sound).known
         /\ Known(val, names, sound).vars = names /\ Known(val, names, sound).sound = sound
         /\ sound => Known(val, names, sound).val = val
BY DEF Known, SymOK

\* Nothing is known of a symbol without a value.
LEMMA UnknownFacts ==
  ASSUME NEW n
  PROVE  SymOK(Unknown, n) /\ ~Unknown.known
BY DEF Unknown, SymOK

\* An operand's symbol, or the constant the machine has.
LEMMA OperandFacts ==
  ASSUME NEW s, NEW x, NEW d, NEW fs, NEW n, PairOK(s, x, d, fs, n)
  PROVE  /\ \A y \in Operand(s, x).vars : y[1] + 1 = n
         /\ s.sound => Operand(s, x).sound
         /\ Operand(s, x).sound => Operand(s, x).val = x.v
<1>1. CASE s.known
  BY <1>1 DEF Operand, PairOK, SymOK, Exact
<1>2. CASE ~s.known
  BY <1>2 DEF Operand, Constant, Known
<1> QED BY <1>1, <1>2

\* A pair of a new primitive value and a symbol that has it when it is relied on.
LEMMA NewPair ==
  ASSUME NEW t \in Types, t.ty \in Prim, NEW v \in RangeOf(t.ty), NEW d, NEW fs, NEW n,
         NEW s, \/ s = Unknown
                \/ \E val, names, sound : /\ s = Known(val, names, sound) /\ \A x \in names : x[1] + 1 = n
                                          /\ sound => val = v
  PROVE  PairOK(s, Value(t, v), d, fs, n)
<1>1. ValOK(Value(t, v), d, fs) /\ Value(t, v).ty = t.ty /\ Value(t, v).v = v
  BY ValueFacts
<1>2. CASE s = Unknown
  BY <1>1, <1>2, UnknownFacts DEF PairOK, Exact
<1>3. CASE s # Unknown
  <2>1. PICK val, names, sound : /\ s = Known(val, names, sound) /\ \A x \in names : x[1] + 1 = n
                                 /\ sound => val = v
    BY <1>3
  <2>2. SymOK(s, n) /\ s.sound = sound /\ (sound => s.val = val)
    BY <2>1, KnownFacts
  <2> QED BY <1>1, <2>1, <2>2 DEF PairOK, Exact
<1> QED BY <1>2, <1>3

\* Two integers of one type.
LEMMA IntFacts ==
  ASSUME NEW l, NEW ts, TypeOf(l) \in ts, ts \subseteq Ints \cup {Val("bool")}, NEW d, NEW fs, ValOK(l, d, fs)
  PROVE  TypeOf(l) \in Types /\ TypeOf(l).ty = l.ty /\ ~l.ref /\ l.ty \in Prim /\ l.v \in RangeOf(l.ty)
<1>1. PICK ty \in Prim : TypeOf(l) = Val(ty)
  BY ConstantsAssumption DEF Ints
<1>2. l.ty = ty /\ ~l.ref /\ TypeOf(l).ty = l.ty
  BY <1>1 DEF TypeOf, Val
<1> QED BY <1>1, <1>2 DEF ValOK

\* Arithmetic that does not fail.
LEMMA ArithExact ==
  ASSUME NEW op \in ArithOps, NEW d, NEW fs, NEW n, NEW a, NEW b, NEW l, NEW r,
         PairOK(a, l, d, fs, n), PairOK(b, r, d, fs, n),
         TypeOf(l) \in Ints, ~ArithFails(op, l.v, r.v, l.ty)
  PROVE  PairOK(process_binary_op(op, a, b, l, r), Value(TypeOf(l), Compute(op, l.v, r.v)), d, fs, n)
<1>1. TypeOf(l) \in Types /\ TypeOf(l).ty = l.ty /\ l.ty \in Prim
  BY IntFacts DEF PairOK
<1>2. Compute(op, l.v, r.v) \in RangeOf(l.ty)
  BY DEF ArithFails
<1> DEFINE p == Operand(a, l)
           q == Operand(b, r)
<1>3. /\ \A y \in p.vars \cup q.vars : y[1] + 1 = n
      /\ p.sound => p.val = l.v
      /\ q.sound => q.val = r.v
  BY OperandFacts
<1>4. PICK u, names, so : u = Compute(op, p.val, q.val) /\ names = p.vars \cup q.vars /\ so = (p.sound /\ q.sound)
  OBVIOUS
<1>5. process_binary_op(op, a, b, l, r) \in {Unknown, Known(u, names, so)}
  BY <1>4 DEF process_binary_op, Both
<1> HIDE DEF p, q
<1>6. PICK s, v : s = process_binary_op(op, a, b, l, r) /\ v = Compute(op, l.v, r.v)
  OBVIOUS
<1>7. s \in {Unknown, Known(u, names, so)} /\ (\A x \in names : x[1] + 1 = n) /\ (so => u = v)
  BY <1>3, <1>4, <1>5, <1>6
<1>8. v \in RangeOf(TypeOf(l).ty)
  BY <1>1, <1>2, <1>6
<1>9. PairOK(s, Value(TypeOf(l), v), d, fs, n)
  BY <1>1, <1>7, <1>8, NewPair
<1> QED BY <1>6, <1>9

\* A bit operation with a constant on either side.
LEMMA BitExact ==
  ASSUME NEW op \in BitOps, NEW d, NEW fs, NEW n, NEW a, NEW b, NEW l, NEW r,
         PairOK(a, l, d, fs, n), PairOK(b, r, d, fs, n),
         TypeOf(l) \in Ints \cup {Val("bool")}, TypeOf(r) = TypeOf(l), MasksExact(Bits[l.ty])
  PROVE  PairOK(bitwise_symbol(op, a, b, l, r), Value(TypeOf(l), Bitwise(op, l.v, r.v, Bits[l.ty])), d, fs, n)
<1>1. /\ TypeOf(l) \in Types /\ TypeOf(l).ty = l.ty /\ l.ty \in Prim /\ l.v \in RangeOf(l.ty)
      /\ r.ty = l.ty /\ r.v \in RangeOf(l.ty)
  <2>1. TypeOf(r).ty = r.ty
    BY DEF TypeOf
  <2> QED BY <2>1, IntFacts DEF PairOK
<1>2. RangeOf(l.ty) = 0..(2^Bits[l.ty] - 1)
  BY <1>1 DEF RangeOf
<1>3. PICK w : w = Bits[l.ty]
  OBVIOUS
<1>4. PICK m : m = 2^w - 1
  OBVIOUS
<1>5. l.v \in 0..m /\ r.v \in 0..m
  BY <1>1, <1>2, <1>3, <1>4
<1>6. /\ Bitwise(op, l.v, r.v, w) \in 0..m
      /\ int_bv_const(op, l.v, r.v, w) = Bitwise(op, l.v, r.v, w)
      /\ int_bv_const(op, r.v, l.v, w) = Bitwise(op, l.v, r.v, w)
  BY <1>3, <1>4, <1>5 DEF MasksExact
<1>7. PICK z : z = Bitwise(op, l.v, r.v, w)
  OBVIOUS
<1>8. /\ \A y \in a.vars : y[1] + 1 = n
      /\ \A y \in b.vars : y[1] + 1 = n
      /\ a.known /\ a.sound => a.val = l.v
      /\ b.known /\ b.sound => b.val = r.v
  BY DEF PairOK, SymOK, Exact
<1>9. CASE a.known /\ ~b.known
  <2>1. bitwise_symbol(op, a, b, l, r) = Known(int_bv_const(op, a.val, r.v, w), a.vars, a.sound)
    BY <1>3, <1>9, Zenon DEF bitwise_symbol, bv_const
  <2>2. a.sound => int_bv_const(op, a.val, r.v, w) = z
    BY <1>6, <1>7, <1>8, <1>9
  <2>3. z \in RangeOf(TypeOf(l).ty)
    BY <1>1, <1>2, <1>3, <1>4, <1>6, <1>7
  <2>4. PairOK(bitwise_symbol(op, a, b, l, r), Value(TypeOf(l), z), d, fs, n)
    BY <1>1, <1>8, <2>1, <2>2, <2>3, NewPair
  <2> QED BY <1>3, <1>7, <2>4
<1>10. CASE ~a.known /\ b.known
  <2>1. bitwise_symbol(op, a, b, l, r) = Known(int_bv_const(op, b.val, l.v, w), b.vars, b.sound)
    BY <1>3, <1>10, Zenon DEF bitwise_symbol, bv_const
  <2>2. b.sound => int_bv_const(op, b.val, l.v, w) = z
    BY <1>6, <1>7, <1>8, <1>10
  <2>3. z \in RangeOf(TypeOf(l).ty)
    BY <1>1, <1>2, <1>3, <1>4, <1>6, <1>7
  <2>4. PairOK(bitwise_symbol(op, a, b, l, r), Value(TypeOf(l), z), d, fs, n)
    BY <1>1, <1>8, <2>1, <2>2, <2>3, NewPair
  <2> QED BY <1>3, <1>7, <2>4
<1>11. CASE ~(a.known /\ ~b.known) /\ ~(~a.known /\ b.known)
  <2>1. bitwise_symbol(op, a, b, l, r) = Unknown
    BY <1>11 DEF bitwise_symbol
  <2> QED BY <1>1, <1>2, <1>3, <1>4, <1>6, <1>7, <2>1, NewPair
<1> QED BY <1>9, <1>10, <1>11

\* A shift by less than the width.
LEMMA ShiftExact ==
  ASSUME NEW op \in ShiftOps, NEW d, NEW fs, NEW n, NEW a, NEW b, NEW l, NEW r,
         PairOK(a, l, d, fs, n), PairOK(b, r, d, fs, n),
         TypeOf(l) \in Ints, TypeOf(r) = Val("u8"), ~(r.v >= Bits[l.ty]),
         MasksExact(Bits[l.ty]), MasksExact(Bits[r.ty])
  PROVE  PairOK(shift_symbol(op, a, b, l, r), Value(TypeOf(l), Shifted(op, l.v, r.v, Bits[l.ty])), d, fs, n)
<1>1. /\ TypeOf(l) \in Types /\ TypeOf(l).ty = l.ty /\ l.ty \in Prim /\ l.v \in RangeOf(l.ty)
      /\ r.ty \in Prim /\ r.v \in RangeOf(r.ty)
  <2>1. Val("u8") \in Ints
    BY ConstantsAssumption DEF Ints
  <2> QED BY <2>1, IntFacts DEF PairOK
<1>2. PICK w, w2, m : w = Bits[l.ty] /\ w2 = Bits[r.ty] /\ m = 2^w
  OBVIOUS
<1>3. RangeOf(l.ty) = 0..(m - 1) /\ RangeOf(r.ty) = 0..(2^w2 - 1) /\ w \in Nat /\ w2 \in Nat
  BY <1>1, <1>2, ConstantsAssumption DEF RangeOf
<1>4. m \in Nat \ {0} /\ 2^w2 \in Nat \ {0}
  <2>1. w \in 0..w /\ w2 \in 0..w2
    BY <1>3
  <2> QED BY <1>2, <2>1 DEF MasksExact
<1>5. PICK e, k : e = r.v /\ k = 2^e
  OBVIOUS
<1>6. e \in 0..w
  <2>1. PICK h : h = 2^w2
    OBVIOUS
  <2>2. r.v \in 0..(h - 1) /\ h \in Nat
    BY <1>1, <1>3, <1>4, <2>1
  <2> QED BY <1>2, <1>3, <1>5, <2>2
<1>7. k \in Nat \ {0}
  BY <1>2, <1>5, <1>6 DEF MasksExact
<1>8. PICK v : v = l.v
  OBVIOUS
<1>9. v \in 0..(m - 1)
  BY <1>1, <1>3, <1>8
<1>10. (v * k) % m \in 0..(m - 1)
  <2>1. PICK y : y = v * k
    OBVIOUS
  <2>2. y \in Int
    BY <1>4, <1>7, <1>9, <2>1
  <2> QED BY <1>4, <2>1, <2>2
<1>11. v \div k \in 0..(m - 1)
  BY <1>4, <1>7, <1>9
<1>12. PICK z : z = Shifted(op, l.v, r.v, Bits[l.ty])
  OBVIOUS
<1>13. z = IF op = "Shl" THEN (v * k) % m ELSE v \div k
  BY <1>2, <1>5, <1>8, <1>12 DEF Shifted
<1>14. z \in RangeOf(l.ty)
  BY <1>3, <1>10, <1>11, <1>13
<1>15. /\ \A y \in a.vars : y[1] + 1 = n
       /\ a.known /\ a.sound => a.val = v
  BY <1>8 DEF PairOK, SymOK, Exact
<1>16. CASE a.known /\ ~b.known
  <2>1. PICK u : u = IF op = "Shl" THEN (a.val * k) % m ELSE a.val \div k
    OBVIOUS
  <2>2. shift_symbol(op, a, b, l, r) = Known(u, a.vars, a.sound)
    BY <1>2, <1>5, <1>16, <2>1 DEF shift_symbol
  <2>3. a.sound => u = z
    BY <1>13, <1>15, <1>16, <2>1
  <2> QED BY <1>1, <1>12, <1>14, <1>15, <2>2, <2>3, NewPair
<1>17. CASE ~(a.known /\ ~b.known)
  <2>1. shift_symbol(op, a, b, l, r) = Unknown
    BY <1>17 DEF shift_symbol
  <2> QED BY <1>1, <1>12, <1>14, <2>1, NewPair
<1> QED BY <1>16, <1>17

\* The negation of a boolean.
LEMMA NotExact ==
  ASSUME NEW d, NEW fs, NEW n, NEW s, NEW x, PairOK(s, x, d, fs, n), TypeOf(x) = Val("bool")
  PROVE  PairOK(not_symbol(s, x), Value(Val("bool"), 1 - x.v), d, fs, n)
<1>1. /\ Val("bool") \in Types /\ Val("bool").ty = "bool" /\ "bool" \in Prim /\ x.ty = "bool" /\ x.v \in RangeOf("bool")
  <2>1. Val("bool").ty = "bool" /\ TypeOf(x).ty = x.ty /\ "bool" \in Prim
    BY ConstantsAssumption DEF Val, TypeOf
  <2> QED BY <2>1 DEF PairOK, ValOK
<1>2. Bits["bool"] = 1 /\ 2^1 = 2
  BY ConstantsAssumption
<1>3. RangeOf("bool") = 0..1
  BY <1>1, <1>2 DEF RangeOf
<1>4. PICK v : v = x.v
  OBVIOUS
<1>5. v \in 0..1 /\ 1 - v \in 0..1 /\ v % 2 = v
  BY <1>1, <1>3, <1>4
<1>6. int_bvnot(v, 1) = 1 - v
  BY <1>2, <1>5 DEF int_bvnot, int_mod_2n
<1>7. CASE s.known
  <2>1. not_symbol(s, x) = Known(int_bvnot(s.val, 1), s.vars, s.sound)
    BY <1>1, <1>2, <1>7 DEF not_symbol
  <2>2. s.sound => int_bvnot(s.val, 1) = 1 - v
    BY <1>4, <1>6, <1>7 DEF PairOK, Exact
  <2>3. \A y \in s.vars : y[1] + 1 = n
    BY DEF PairOK, SymOK
  <2>4. 1 - v \in RangeOf("bool") /\ 1 - v = 1 - x.v
    BY <1>3, <1>4, <1>5
  <2> QED BY <1>1, <2>1, <2>2, <2>3, <2>4, NewPair
<1>8. CASE ~s.known
  <2>1. not_symbol(s, x) = Unknown
    BY <1>8 DEF not_symbol
  <2>4. 1 - x.v \in RangeOf("bool")
    BY <1>3, <1>4, <1>5
  <2> QED BY <1>1, <2>1, <2>4, NewPair
<1> QED BY <1>7, <1>8

\* A comparison: the symbols agree with the outcome when they can be relied on.
LEMMA TookTrue ==
  ASSUME NEW op, NEW d, NEW fs, NEW n, NEW a, NEW b, NEW l, NEW r,
         PairOK(a, l, d, fs, n), PairOK(b, r, d, fs, n), a.sound, b.sound
  PROVE  Took(op, a, b, l, r)
<1>1. Operand(a, l).val = l.v /\ Operand(b, r).val = r.v
  BY OperandFacts
<1> QED BY <1>1 DEF Took

\* The symbol a comparison leaves goes with the boolean the machine pushes.
LEMMA CmpExact ==
  ASSUME NEW op \in CmpOps, NEW d, NEW fs, NEW n, NEW a, NEW b, NEW l, NEW r,
         PairOK(a, l, d, fs, n), PairOK(b, r, d, fs, n)
  PROVE  PairOK(cmp_symbol(op, a, b, l, r), Value(Val("bool"), IF Holds(op, l.v, r.v) THEN 1 ELSE 0), d, fs, n)
<1>1. Val("bool") \in Types /\ Val("bool").ty = "bool" /\ "bool" \in Prim
  BY ConstantsAssumption DEF Val, Types
<1>2. RangeOf("bool") = 0..1
  BY <1>1, ConstantsAssumption DEF RangeOf
<1>3. PICK v : v = IF Holds(op, l.v, r.v) THEN 1 ELSE 0
  OBVIOUS
<1>4. v \in RangeOf("bool")
  BY <1>2, <1>3
<1>5. CASE a.known \/ b.known
  <2>1. PICK u, so : /\ u = IF Took(op, a, b, l, r) THEN 1 ELSE 0
                     /\ so = (a.sound /\ b.sound /\ Holds(op, l.v, r.v))
    OBVIOUS
  <2>2. cmp_symbol(op, a, b, l, r) = Known(u, a.vars \cup b.vars, so)
    BY <1>5, <2>1 DEF cmp_symbol
  <2>3. so => u = v
    BY <1>3, <2>1, TookTrue
  <2>4. \A y \in a.vars \cup b.vars : y[1] + 1 = n
    BY DEF PairOK, SymOK
  <2> QED BY <1>1, <1>3, <1>4, <2>2, <2>3, <2>4, NewPair
<1>6. CASE ~(a.known \/ b.known)
  <2>1. cmp_symbol(op, a, b, l, r) = Unknown
    BY <1>6 DEF cmp_symbol
  <2> QED BY <1>1, <1>3, <1>4, <2>1, NewPair
<1> QED BY <1>5, <1>6

-----------------------------------------------------------------------------
(* Steps that keep every symbol with its value.                             *)

\* Values and symbols are taken from both stacks, and one of each is left.
LEMMA PairsReplace ==
  ASSUME NEW cs, Tuple(cs), NEW os, Tuple(os), Len(cs) = Len(os), NEW m \in Nat, m <= Len(os),
         NEW d, NEW fs, NEW n, PairsOK(cs, os, d, fs, n)
  PROVE  /\ PairsOK(popped(cs, m), popped(os, m), d, fs, n)
         /\ \A s, x : PairOK(s, x, d, fs, n) =>
              PairsOK(Append(popped(cs, m), s), Append(popped(os, m), x), d, fs, n)
<1>0. Len(os) \in Nat
  BY TupleFacts
<1>1. PICK c, o : c = popped(cs, m) /\ o = popped(os, m)
  OBVIOUS
<1>2. /\ Tuple(c) /\ Tuple(o) /\ Len(c) = Len(os) - m /\ Len(o) = Len(os) - m
      /\ \A i \in 1..(Len(os) - m) : c[i] = cs[i] /\ o[i] = os[i]
  <2>1. Tuple(c) /\ Len(c) = Len(os) - m /\ \A i \in 1..(Len(os) - m) : c[i] = cs[i]
    BY <1>1, TuplePopped, ZenonT(40)
  <2>2. Tuple(o) /\ Len(o) = Len(os) - m /\ \A i \in 1..(Len(os) - m) : o[i] = os[i]
    BY <1>1, TuplePopped, ZenonT(40)
  <2> QED BY <2>1, <2>2
<1>3. PICK h : h = Len(os) - m
  OBVIOUS
<1>4. h \in Nat /\ \A i \in 1..h : i \in 1..Len(os)
  BY <1>0, <1>3
<1>5. \A i \in 1..h : PairOK(c[i], o[i], d, fs, n)
  BY <1>2, <1>3, <1>4 DEF PairsOK
<1>6. ASSUME NEW s, NEW x, PairOK(s, x, d, fs, n)
      PROVE  PairsOK(Append(c, s), Append(o, x), d, fs, n)
  <2>1. /\ Len(Append(o, x)) = h + 1 /\ Append(c, s)[h + 1] = s /\ Append(o, x)[h + 1] = x
        /\ \A i \in 1..h : Append(c, s)[i] = c[i] /\ Append(o, x)[i] = o[i]
    BY <1>2, <1>3, TupleAppend
  <2>2. \A i \in 1..(h + 1) : i \in 1..h \/ i = h + 1
    BY <1>4
  <2>3. ASSUME NEW i \in 1..(h + 1) PROVE PairOK(Append(c, s)[i], Append(o, x)[i], d, fs, n)
    <3>1. CASE i \in 1..h
      BY <1>5, <2>1, <3>1
    <3>2. CASE i = h + 1
      BY <1>6, <2>1, <3>2
    <3> QED BY <2>2, <3>1, <3>2
  <2> QED BY <2>1, <2>3 DEF PairsOK
<1> QED BY <1>1, <1>2, <1>3, <1>5, <1>6 DEF PairsOK

\* k values are taken and values of no address left; of the symbols p are taken and
\* q Unknown left, and those kept tell nothing.
LEMMA PairsLeave ==
  ASSUME NEW cs, Tuple(cs), NEW os, Tuple(os), Len(cs) = Len(os),
         NEW k \in Nat, NEW p \in Nat, NEW q \in Nat, p <= k, k <= Len(os),
         NEW xs, Tuple(xs), Len(xs) = k - p + q,
         NEW d, NEW fs, NEW n, PairsOK(cs, os, d, fs, n),
         \A i \in (Len(os) - k + 1)..(Len(os) - p) : ~cs[i].known,
         \A j \in 1..Len(xs) : ValOK(xs[j], d, fs)
  PROVE  PairsOK(popped(cs, p) \o Repeat(Unknown, q), popped(os, k) \o xs, d, fs, n)
<1>0. Len(os) \in Nat
  BY TupleFacts
<1>1. PICK c, o, u, a, b, z : /\ c = popped(cs, p) /\ o = popped(os, k) /\ u = Repeat(Unknown, q)
                              /\ a = Len(os) - p /\ b = Len(os) - k /\ z = Len(xs)
  OBVIOUS
<1>2. /\ Tuple(c) /\ Tuple(o) /\ Len(c) = a /\ Len(o) = b
      /\ \A i \in 1..a : c[i] = cs[i]
      /\ \A i \in 1..b : o[i] = os[i]
  <2>1. p <= Len(cs)
    BY <1>0
  <2>2. Tuple(c) /\ Len(c) = Len(cs) - p /\ \A i \in 1..(Len(cs) - p) : c[i] = cs[i]
    BY <1>1, <2>1, TuplePopped
  <2>3. Tuple(o) /\ Len(o) = Len(os) - k /\ \A i \in 1..(Len(os) - k) : o[i] = os[i]
    BY <1>1, TuplePopped
  <2> QED BY <1>1, <2>2, <2>3
<1>3. Tuple(u) /\ Len(u) = q /\ \A i \in 1..q : u[i] = Unknown
  BY <1>1, TupleRepeat
<1>4. a \in Nat /\ b \in Nat /\ b <= a /\ a <= Len(os) /\ z \in Nat /\ b + z = a + q
  BY <1>0, <1>1
<1>5. /\ \A i \in 1..a : (c \o u)[i] = c[i]
      /\ \A i \in 1..q : (c \o u)[a + i] = u[i]
  <2>1. /\ \A i \in 1..Len(c) : (c \o u)[i] = c[i]
        /\ \A i \in 1..Len(u) : (c \o u)[Len(c) + i] = u[i]
    <3>1. Tuple(c) /\ Tuple(u)
      BY <1>2, <1>3
    <3> QED BY <3>1, TupleConcat
  <2> QED BY <1>2, <1>3, <2>1
<1>6. /\ Len(o \o xs) = b + z
      /\ \A i \in 1..b : (o \o xs)[i] = o[i]
      /\ \A i \in 1..z : (o \o xs)[b + i] = xs[i]
  <2>1. /\ Len(o \o xs) = Len(o) + Len(xs)
        /\ \A i \in 1..Len(o) : (o \o xs)[i] = o[i]
        /\ \A i \in 1..Len(xs) : (o \o xs)[Len(o) + i] = xs[i]
    <3>1. PICK e : e = xs
      OBVIOUS
    <3>2. Tuple(o) /\ Tuple(e)
      BY <1>2, <3>1
    <3>3. /\ Len(o \o e) = Len(o) + Len(e)
          /\ \A i \in 1..Len(o) : (o \o e)[i] = o[i]
          /\ \A i \in 1..Len(e) : (o \o e)[Len(o) + i] = e[i]
      BY <3>2, TupleConcat
    <3> QED BY <3>1, <3>3
  <2> QED BY <1>1, <1>2, <2>1
<1>7. ASSUME NEW i \in 1..(b + z) PROVE PairOK((c \o u)[i], (o \o xs)[i], d, fs, n)
  <2>0. i \in Nat /\ (i <= b \/ i > b) /\ (i <= a \/ i > a)
    BY <1>4
  <2>1. CASE i <= b
    <3>1. i \in 1..b /\ i \in 1..a /\ i \in 1..Len(os)
      BY <1>0, <1>4, <2>1
    <3>2. (c \o u)[i] = cs[i] /\ (o \o xs)[i] = os[i]
      BY <1>2, <1>5, <1>6, <3>1
    <3> QED BY <3>1, <3>2 DEF PairsOK
  <2>2. CASE i > b
    <3>1. i - b \in 1..z /\ b + (i - b) = i
      BY <1>4, <2>2
    <3>2. ValOK((o \o xs)[i], d, fs)
      <4>1. (o \o xs)[i] = xs[i - b]
        BY <1>6, <3>1
      <4> QED BY <1>1, <3>1, <4>1
    <3>3. SymOK((c \o u)[i], n) /\ ~(c \o u)[i].known
      <4>1. CASE i <= a
        <5>1. i \in 1..a /\ i \in 1..Len(os) /\ i \in (b + 1)..a
          BY <1>0, <1>4, <2>2, <4>1
        <5>2. (c \o u)[i] = cs[i]
          BY <1>2, <1>5, <5>1
        <5>3. ~cs[i].known
          BY <1>1, <5>1
        <5> QED BY <5>1, <5>2, <5>3 DEF PairsOK, PairOK
      <4>2. CASE i > a
        <5>1. i - a \in 1..q /\ a + (i - a) = i
          BY <1>4, <4>2
        <5>2. (c \o u)[i] = Unknown
          BY <1>3, <1>5, <5>1
        <5> QED BY <5>2, UnknownFacts
      <4> QED BY <2>0, <4>1, <4>2
    <3> QED BY <3>2, <3>3 DEF PairOK, Exact
  <2> QED BY <2>0, <2>1, <2>2
<1>8. PairsOK(c \o u, o \o xs, d, fs, n)
  BY <1>6, <1>7 DEF PairsOK
<1> QED BY <1>1, <1>8

\* What holds while a function that is not native runs.
LEMMA SymFacts ==
  ASSUME IInv, Running, SymInv
  PROVE  /\ PairsOK(concolic.stack, operand_stack, Len(call_stack), current_functions, Len(concolic.args))
         /\ FramesOK(concolic.locals, call_stack, current_functions, Len(concolic.args))
         /\ concolic.args # <<>> /\ Top(concolic.args).fun = current_functions[1]
BY DEF SymInv, Running

\* A quiet step keeps the invariant of the symbols when it keeps its parts.
LEMMA SymQuiet ==
  ASSUME IInv, Running, SymInv, QuietStep,
         pc' = "running" =>
           /\ PairsOK(concolic'.stack, operand_stack', Len(call_stack), current_functions, Len(concolic.args))
           /\ FramesOK(concolic'.locals, call_stack', current_functions, Len(concolic.args))
  PROVE  SymInv'
<1>1. concolic'.args = concolic.args /\ current_functions' = current_functions /\ Len(call_stack') = Len(call_stack)
  BY DEF QuietStep, SameFrames
<1>2. concolic.args # <<>> /\ Top(concolic.args).fun = current_functions[1]
  BY SymFacts
<1> QED BY <1>1, <1>2 DEF SymInv, Top

\* The pairs on top of the stacks.
LEMMA TopPairs ==
  ASSUME IInv, Running, SymInv, NEW m \in {1, 2}, Has(m)
  PROVE  /\ m <= Len(operand_stack)
         /\ PairOK(Top(concolic.stack), Top(operand_stack), Len(call_stack), current_functions, Len(concolic.args))
         /\ m = 2 => PairOK(Under(concolic.stack), Under(operand_stack), Len(call_stack), current_functions, Len(concolic.args))
<1>1. Len(operand_stack) \in Nat /\ Len(concolic.stack) = Len(operand_stack)
  BY RunFacts
<1>2. m <= Len(operand_stack)
  BY HasFacts
<1>3. Len(operand_stack) \in 1..Len(operand_stack) /\ (m = 2 => Len(operand_stack) - 1 \in 1..Len(operand_stack))
  BY <1>1, <1>2
<1> QED BY <1>1, <1>2, <1>3, SymFacts DEF PairsOK, Top, Under

\* A new value and its symbol replace those taken.
LEMMA SymReplace ==
  ASSUME IInv, Running, SymInv, Stay, UNCHANGED <<pc, call_stack, tree>>,
         NEW m \in Nat, m <= Len(operand_stack), NEW x, NEW s, Replace(m, x, s),
         PairOK(s, x, Len(call_stack), current_functions, Len(concolic.args))
  PROVE  SymInv'
<1>0. QuietStep
  BY ReplaceQuiet
<1>1. /\ Aligned /\ Tuple(operand_stack) /\ ShadowOK(concolic) /\ Tuple(concolic.stack)
      /\ Len(concolic.stack) = Len(operand_stack)
  BY RunFacts DEF ShadowOK
<1>2. /\ operand_stack' = Append(popped(operand_stack, m), x)
      /\ concolic' = [concolic EXCEPT !.stack = Append(popped(concolic.stack, m), s)]
  BY <1>1 DEF Replace, Shadow
<1>3. Tuple(Append(popped(concolic.stack, m), s))
  BY <1>1, TuplePopped, TupleAppend
<1>4. concolic'.stack = Append(popped(concolic.stack, m), s) /\ concolic'.locals = concolic.locals
  BY <1>1, <1>2, <1>3, StackOnly
<1>5. PairsOK(concolic'.stack, operand_stack', Len(call_stack), current_functions, Len(concolic.args))
  BY <1>1, <1>2, <1>4, SymFacts, PairsReplace
<1>6. FramesOK(concolic'.locals, call_stack', current_functions, Len(concolic.args))
  BY <1>4, SymFacts
<1> QED BY <1>0, <1>5, <1>6, SymQuiet

\* An instruction on two operands leaves a symbol that goes with its result, or fails.
LEMMA SymBinary ==
  ASSUME IInv, Running, SymInv, Stay, Has(2), NEW x, NEW s, NEW fails, Binary(x, s, fails),
         ~fails => PairOK(s, x, Len(call_stack), current_functions, Len(concolic.args))
  PROVE  SymInv'
<1>1. QuietStep /\ 2 <= Len(operand_stack)
  BY BinaryQuiet, TopPairs
<1>2. CASE fails
  <2>1. pc' = "aborted"
    BY <1>2 DEF Binary, execution_error
  <2> QED BY <1>1, <2>1, SymQuiet
<1>3. CASE ~fails
  <2>1. Replace(2, x, s) /\ UNCHANGED <<pc, call_stack, tree>>
    BY <1>3 DEF Binary
  <2> QED BY <1>1, <1>3, <2>1, SymReplace
<1> QED BY <1>2, <1>3

\* The top value is replaced and its symbol kept.
LEMMA SymTop ==
  ASSUME IInv, Running, SymInv, Stay, Has(1), UNCHANGED <<pc, call_stack, tree>>, concolic' = concolic,
         NEW x, operand_stack' = Append(popped(operand_stack, 1), x),
         PairOK(Top(concolic.stack), x, Len(call_stack), current_functions, Len(concolic.args))
  PROVE  SymInv'
<1>0. QuietStep /\ 1 <= Len(operand_stack)
  BY TopQuiet, TopPairs
<1>1. /\ Tuple(operand_stack) /\ Tuple(concolic.stack) /\ Len(concolic.stack) = Len(operand_stack) /\ Len(operand_stack) \in Nat
  BY RunFacts DEF ShadowOK
<1>2. PICK cs, c : cs = concolic.stack /\ c = popped(cs, 1)
  OBVIOUS
<1>3. Append(c, Top(cs)) = cs
  <2>1. PICK h : h = Len(cs) - 1
    OBVIOUS
  <2>2. /\ Tuple(cs) /\ Len(cs) = h + 1 /\ h \in Nat /\ cs = [i \in 1..(h + 1) |-> cs[i]]
    <3>1. Tuple(cs) /\ cs = [i \in 1..Len(cs) |-> cs[i]]
      BY <1>1, <1>2, TupleFacts
    <3>2. h \in Nat /\ Len(cs) = h + 1
      BY <1>0, <1>1, <1>2, <2>1
    <3> QED BY <3>1, <3>2
  <2>3. Tuple(c) /\ Len(c) = h /\ \A i \in 1..h : c[i] = cs[i]
    <3>1. 1 <= Len(cs) /\ 1 \in Nat /\ Tuple(cs)
      BY <2>2
    <3>2. /\ Tuple(popped(cs, 1)) /\ Len(popped(cs, 1)) = Len(cs) - 1
          /\ \A i \in 1..(Len(cs) - 1) : popped(cs, 1)[i] = cs[i]
      BY <3>1, TuplePopped
    <3> QED BY <1>2, <2>1, <3>2
  <2>4. PICK e : e = Append(c, Top(cs))
    OBVIOUS
  <2>5. Tuple(e) /\ Len(e) = h + 1 /\ e[h + 1] = cs[h + 1] /\ \A i \in 1..h : e[i] = c[i]
    BY <2>2, <2>3, <2>4, TupleAppend DEF Top
  <2>6. e = [i \in 1..(h + 1) |-> e[i]]
    BY <2>5, TupleFacts
  <2>7. \A i \in 1..(h + 1) : e[i] = cs[i]
    <3>1. \A i \in 1..(h + 1) : i \in 1..h \/ i = h + 1
      BY <2>2
    <3> QED BY <2>3, <2>5, <3>1
  <2> QED BY <2>2, <2>4, <2>6, <2>7
<1>4. PairsOK(concolic.stack, operand_stack', Len(call_stack), current_functions, Len(concolic.args))
  BY <1>0, <1>1, <1>2, <1>3, SymFacts, PairsReplace
<1> QED BY <1>0, <1>4, SymFacts, SymQuiet

-----------------------------------------------------------------------------
(* Instructions keep the symbols.                                           *)

\* A value from code or an object.
LEMMA FreshValue ==
  ASSUME NEW t \in Types, NEW v \in Fresh(t.ty), NEW d, NEW fs
  PROVE  ValOK(Value(t, v), d, fs)
BY ValueFacts DEF Fresh

\* Symbols that stay while their value is replaced stand for no primitive.
LEMMA KeptUnknown ==
  ASSUME NEW op \in Counted
  PROVE  \A i \in 1..(Len(VMTakes[op]) - pops[op]) : VMTakes[op][i].ty \notin Prim
<1>1. "obj" \notin Prim /\ "vec" \notin Prim
  BY ConstantsAssumption
<1>2. Counted = {"BrTrue", "VariantSwitch", "LdU8", "LdConst", "Pack", "Unpack", "UnpackVariantImmRef",
                 "VecPack", "VecUnpack", "VecPushBack", "VecSwap", "VecImmBorrow", "VecLen", "BorrowField"}
  BY DEF Counted, VMTakes
<1>3. CASE op = "VecImmBorrow"
  <2>1. VMTakes[op][1] = Ref("vec") /\ Len(VMTakes[op]) - pops[op] = 1
    BY <1>2, <1>3 DEF VMTakes, pops
  <2> QED BY <1>1, <2>1 DEF Ref
<1>4. CASE op = "VecLen"
  <2>1. VMTakes[op][1] = Ref("vec") /\ Len(VMTakes[op]) - pops[op] = 1
    BY <1>2, <1>4 DEF VMTakes, pops
  <2> QED BY <1>1, <2>1 DEF Ref
<1>5. CASE op = "BorrowField"
  <2>1. VMTakes[op][1] = Ref("obj") /\ Len(VMTakes[op]) - pops[op] = 1
    BY <1>2, <1>5 DEF VMTakes, pops
  <2> QED BY <1>1, <2>1 DEF Ref
<1>6. CASE op = "BrTrue"
  BY <1>2, <1>6 DEF VMTakes, pops, Fields
<1>7. CASE op = "VariantSwitch"
  BY <1>2, <1>7 DEF VMTakes, pops, Fields
<1>8. CASE op = "LdU8"
  BY <1>2, <1>8 DEF VMTakes, pops, Fields
<1>9. CASE op = "LdConst"
  BY <1>2, <1>9 DEF VMTakes, pops, Fields
<1>10. CASE op = "Pack"
  BY <1>2, <1>10 DEF VMTakes, pops, Fields
<1>11. CASE op = "Unpack"
  BY <1>2, <1>11 DEF VMTakes, pops, Fields
<1>12. CASE op = "UnpackVariantImmRef"
  BY <1>2, <1>12 DEF VMTakes, pops, Fields
<1>13. CASE op = "VecPack"
  BY <1>2, <1>13 DEF VMTakes, pops, Fields
<1>14. CASE op = "VecUnpack"
  BY <1>2, <1>14 DEF VMTakes, pops, Fields
<1>15. CASE op = "VecPushBack"
  BY <1>2, <1>15 DEF VMTakes, pops, Fields
<1>16. CASE op = "VecSwap"
  BY <1>2, <1>16 DEF VMTakes, pops, Fields
<1> QED BY <1>2, <1>3, <1>4, <1>5, <1>6, <1>7, <1>8, <1>9, <1>10, <1>11, <1>12, <1>13, <1>14, <1>15, <1>16

\* Instructions whose symbols are only counted.
LEMMA CountedSym ==
  ASSUME IInv, SymInv, NEW op \in Counted, counted(op)
  PROVE  SymInv'
<1>1. /\ Running /\ QuietStep /\ OnTop(VMTakes[op]) /\ call_stack' = call_stack
  BY CountedQuiet DEF counted
<1>2. PICK T, L, P, Q : T = VMTakes[op] /\ L = VMLeaves[op] /\ P = pops[op] /\ Q = pushes[op]
  OBVIOUS
<1>3. /\ T \in Seq(Types) /\ L \in Seq(Types) /\ P \in Nat /\ Q \in Nat /\ P <= Len(T) /\ Len(L) = Len(T) - P + Q
      /\ Len(T) \in Nat /\ Len(L) \in Nat /\ DOMAIN L = 1..Len(L) /\ DOMAIN T = 1..Len(T)
  <2>1. /\ T \in Seq(Types) /\ L \in Seq(Types) /\ P \in Nat /\ Q \in Nat /\ P <= Len(T) /\ Len(T) - P = Len(L) - Q
    BY <1>2, CountsAgree
  <2>2. Len(T) \in Nat /\ Len(L) \in Nat /\ DOMAIN L = 1..Len(L) /\ DOMAIN T = 1..Len(T)
    BY <2>1, LenProperties
  <2> QED BY <2>1, <2>2
<1>4. PICK vs \in [1..Len(L) -> Literals \cup {0}] :
        /\ \A i \in 1..Len(L) : vs[i] \in Fresh(L[i].ty)
        /\ operand_stack' = popped(operand_stack, Len(T)) \o [i \in 1..Len(L) |-> Value(L[i], vs[i])]
  BY <1>2, <1>3 DEF counted
<1>5. PICK xs : xs = [i \in 1..Len(L) |-> Value(L[i], vs[i])]
  OBVIOUS
<1>6. Tuple(xs) /\ Len(xs) = Len(L)
  <2>1. xs = [i \in 1..Len(L) |-> xs[i]]
    BY <1>5
  <2> QED BY <1>3, <2>1, TupleIntro
<1>7. ASSUME NEW j \in 1..Len(xs) PROVE ValOK(xs[j], Len(call_stack), current_functions)
  <2>1. j \in 1..Len(L) /\ L[j] \in Types
    BY <1>3, <1>6, ElementOfSeq
  <2>2. xs[j] = Value(L[j], vs[j]) /\ vs[j] \in Fresh(L[j].ty)
    BY <1>4, <1>5, <2>1
  <2> QED BY <2>1, <2>2, FreshValue
<1>8. /\ Aligned /\ Tuple(operand_stack) /\ ShadowOK(concolic) /\ Tuple(concolic.stack)
      /\ Len(concolic.stack) = Len(operand_stack) /\ Len(operand_stack) \in Nat
  BY <1>1, RunFacts DEF ShadowOK
<1>9. Len(T) <= Len(operand_stack)
  BY <1>1, <1>2, <1>3, HasFacts DEF OnTop
<1>10. PICK st : st = popped(concolic.stack, P) \o Repeat(Unknown, Q)
  OBVIOUS
<1>11. concolic' = [concolic EXCEPT !.stack = st]
  BY <1>2, <1>8, <1>10 DEF counted, Shadow
<1>12. Tuple(st)
  <2>1. PICK a, b : a = popped(concolic.stack, P) /\ b = Repeat(Unknown, Q)
    OBVIOUS
  <2>2. Tuple(a) /\ Tuple(b)
    BY <1>3, <1>8, <2>1, TuplePoppedAny, TupleRepeat
  <2> QED BY <1>10, <2>1, <2>2, TupleConcat
<1>13. concolic'.stack = st /\ concolic'.locals = concolic.locals
  BY <1>8, <1>11, <1>12, StackOnly
<1>14. ASSUME NEW i \in (Len(operand_stack) - Len(T) + 1)..(Len(operand_stack) - P) PROVE ~concolic.stack[i].known
  <2>1. PICK j : j = i - (Len(operand_stack) - Len(T))
    OBVIOUS
  <2>2. j \in 1..(Len(T) - P) /\ j \in 1..Len(T) /\ i = Len(operand_stack) - Len(T) + j /\ i \in 1..Len(operand_stack)
    BY <1>3, <1>8, <1>9, <2>1
  <2>3. T[j].ty \notin Prim
    BY <1>2, <2>2, KeptUnknown
  <2>4. TypeOf(operand_stack[i]) = T[j]
    BY <1>1, <1>2, <1>3, <2>2 DEF OnTop
  <2>5. operand_stack[i].ty \notin Prim
    BY <2>3, <2>4 DEF TypeOf
  <2>6. Exact(concolic.stack[i], operand_stack[i])
    BY <1>1, <2>2, SymFacts DEF PairsOK, PairOK
  <2> QED BY <2>5, <2>6 DEF Exact
<1>15. PairsOK(concolic'.stack, operand_stack', Len(call_stack), current_functions, Len(concolic.args))
  <2>1. PICK cs, os, k, d, fs, n : /\ cs = concolic.stack /\ os = operand_stack /\ k = Len(T) /\ d = Len(call_stack)
                                   /\ fs = current_functions /\ n = Len(concolic.args)
    OBVIOUS
  <2>2. /\ Tuple(cs) /\ Tuple(os) /\ Len(cs) = Len(os) /\ k \in Nat /\ P <= k /\ k <= Len(os)
        /\ Len(xs) = k - P + Q /\ PairsOK(cs, os, d, fs, n)
        /\ \A i \in (Len(os) - k + 1)..(Len(os) - P) : ~cs[i].known
        /\ \A j \in 1..Len(xs) : ValOK(xs[j], d, fs)
    BY <1>1, <1>3, <1>6, <1>7, <1>8, <1>9, <1>14, <2>1, SymFacts
  <2>3. PairsOK(popped(cs, P) \o Repeat(Unknown, Q), popped(os, k) \o xs, d, fs, n)
    BY <1>3, <1>6, <2>2, PairsLeave
  <2> QED BY <1>4, <1>5, <1>10, <1>13, <2>1, <2>3
<1> QED BY <1>1, <1>13, <1>15, SymFacts, SymQuiet

\* Widths at which the shadow's masks are right.
Widths == \A ty \in Prim : MasksExact(Bits[ty])

\* Instructions that compute a value and its symbol.
LEMMA ComputingSym ==
  ASSUME IInv, SymInv, Widths,
         \/ \E b \in {0, 1} : LdBool(b)
         \/ Not
         \/ \E op \in ArithOps : Arith(op)
         \/ \E op \in BitOps : BitOp(op)
         \/ \E op \in ShiftOps : Shift(op)
         \/ \E op \in CmpOps : Compare(op)
  PROVE  SymInv'
<1> DEFINE D == Len(call_stack)
           F == current_functions
           n == Len(concolic.args)
<1> HIDE DEF D, F, n
<1>1. ASSUME NEW b \in {0, 1}, LdBool(b) PROVE SymInv'
  <2>1. Running /\ Stay /\ UNCHANGED <<pc, call_stack, tree>> /\ Replace(0, Value(Val("bool"), b), Known(b, {}, TRUE))
    BY <1>1 DEF LdBool, Step, Fetch
  <2>2. 0 <= Len(operand_stack)
    BY <2>1, RunFacts
  <2>3. Val("bool") \in Types /\ Val("bool").ty = "bool" /\ "bool" \in Prim
    BY ConstantsAssumption DEF Val, Types
  <2>4. b \in RangeOf(Val("bool").ty)
    <3>1. RangeOf("bool") = 0..1
      BY <2>3, ConstantsAssumption DEF RangeOf
    <3> QED BY <2>3, <3>1
  <2>5. PICK s, t, e, so : s = Known(b, e, so) /\ t = Val("bool") /\ e = {} /\ so = TRUE
    OBVIOUS
  <2>6. PairOK(s, Value(t, b), D, F, n)
    <3>1. t \in Types /\ t.ty \in Prim /\ b \in RangeOf(t.ty) /\ (\A y \in e : y[1] + 1 = n) /\ (so => b = b)
      BY <2>3, <2>4, <2>5
    <3> QED BY <2>5, <3>1, NewPair
  <2> QED BY <2>1, <2>2, <2>5, <2>6, SymReplace DEF D, F, n
<1>2. ASSUME Not PROVE SymInv'
  <2>1. PICK s, x : s = Top(concolic.stack) /\ x = Top(operand_stack)
    OBVIOUS
  <2>2. /\ Running /\ Stay /\ UNCHANGED <<pc, call_stack, tree>> /\ Has(1) /\ TypeOf(x) = Val("bool")
        /\ Replace(1, Value(Val("bool"), 1 - x.v), not_symbol(s, x))
    BY <1>2, <2>1 DEF Not, Step, Fetch
  <2>3. 1 <= Len(operand_stack) /\ PairOK(s, x, D, F, n)
    BY <2>1, <2>2, TopPairs DEF D, F, n
  <2>4. PairOK(not_symbol(s, x), Value(Val("bool"), 1 - x.v), D, F, n)
    BY <2>2, <2>3, NotExact
  <2> QED BY <2>2, <2>3, <2>4, SymReplace DEF D, F, n
<1>3. PICK a, b, l, r : /\ a = Under(concolic.stack) /\ b = Top(concolic.stack)
                        /\ l = Under(operand_stack) /\ r = Top(operand_stack)
  OBVIOUS
<1>4. ASSUME Running, Has(2) PROVE PairOK(a, l, D, F, n) /\ PairOK(b, r, D, F, n)
  BY <1>3, <1>4, TopPairs DEF D, F, n
<1>5. ASSUME NEW op \in ArithOps, Arith(op) PROVE SymInv'
  <2>1. /\ Running /\ Stay /\ Has(2) /\ TypeOf(r) \in Ints /\ TypeOf(l) = TypeOf(r)
    BY <1>3, <1>5 DEF Arith, TwoOf, Step, Fetch
  <2>2. PICK x, s, fails : /\ x = Value(TypeOf(l), Compute(op, l.v, r.v)) /\ s = process_binary_op(op, a, b, l, r)
                           /\ fails = ArithFails(op, l.v, r.v, l.ty)
    OBVIOUS
  <2>3. Binary(x, s, fails)
    BY <1>3, <1>5, <2>2 DEF Arith
  <2>4. ~fails => PairOK(s, x, D, F, n)
    BY <1>4, <2>1, <2>2, ArithExact
  <2> QED BY <2>1, <2>3, <2>4, SymBinary DEF D, F, n
<1>6. ASSUME NEW op \in BitOps, BitOp(op) PROVE SymInv'
  <2>1. /\ Running /\ Stay /\ Has(2) /\ TypeOf(r) \in Ints \cup {Val("bool")} /\ TypeOf(r) = TypeOf(l)
    BY <1>3, <1>6 DEF BitOp, TwoOf, Step, Fetch
  <2>2. PICK x, s : /\ x = Value(TypeOf(l), Bitwise(op, l.v, r.v, Bits[l.ty])) /\ s = bitwise_symbol(op, a, b, l, r)
    OBVIOUS
  <2>3. Binary(x, s, FALSE)
    BY <1>3, <1>6, <2>2 DEF BitOp
  <2>4. PairOK(s, x, D, F, n)
    <3>1. PairOK(a, l, D, F, n) /\ PairOK(b, r, D, F, n) /\ TypeOf(l) \in Ints \cup {Val("bool")}
      BY <1>4, <2>1
    <3>2. l.ty \in Prim
      BY <3>1, IntFacts DEF PairOK
    <3> QED BY <2>1, <2>2, <3>1, <3>2, BitExact DEF Widths
  <2> QED BY <2>1, <2>3, <2>4, SymBinary DEF D, F, n
<1>7. ASSUME NEW op \in ShiftOps, Shift(op) PROVE SymInv'
  <2>1. /\ Running /\ Stay /\ Has(2) /\ TypeOf(l) \in Ints /\ TypeOf(r) = Val("u8")
    BY <1>3, <1>7 DEF Shift, Step, Fetch
  <2>2. PICK x, s, fails : /\ x = Value(TypeOf(l), Shifted(op, l.v, r.v, Bits[l.ty])) /\ s = shift_symbol(op, a, b, l, r)
                           /\ fails = (r.v >= Bits[l.ty])
    OBVIOUS
  <2>3. Binary(x, s, fails)
    BY <1>3, <1>7, <2>2 DEF Shift
  <2>4. ~fails => PairOK(s, x, D, F, n)
    <3>1. PairOK(a, l, D, F, n) /\ PairOK(b, r, D, F, n) /\ Val("u8") \in Ints
      BY <1>4, <2>1, ConstantsAssumption DEF Ints
    <3>2. l.ty \in Prim /\ r.ty \in Prim
      BY <2>1, <3>1, IntFacts DEF PairOK
    <3> QED BY <2>1, <2>2, <3>1, <3>2, ShiftExact DEF Widths
  <2> QED BY <2>1, <2>3, <2>4, SymBinary DEF D, F, n
<1>8. ASSUME NEW op \in CmpOps, Compare(op) PROVE SymInv'
  <2>1. Running /\ Stay /\ Has(2)
    BY <1>8 DEF Compare, TwoOf, Step, Fetch
  <2>2. PICK x, s : /\ x = Value(Val("bool"), IF Holds(op, l.v, r.v) THEN 1 ELSE 0) /\ s = cmp_symbol(op, a, b, l, r)
    OBVIOUS
  <2>3. Binary(x, s, FALSE)
    BY <1>3, <1>8, <2>2 DEF Compare
  <2>4. PairOK(s, x, D, F, n)
    BY <1>4, <2>1, <2>2, CmpExact
  <2> QED BY <2>1, <2>3, <2>4, SymBinary DEF D, F, n
<1> QED BY <1>1, <1>2, <1>5, <1>6, <1>7, <1>8

\* Frames of functions that are not native have a type for every local.
LEMMA FrameTypes ==
  ASSUME IInv, Running, NEW d \in 1..Len(call_stack)
  PROVE  /\ current_functions[d] = call_stack[d].fun /\ call_stack[d].fun \in Funs \ Native
         /\ Tuple(call_stack[d].locals) /\ DOMAIN call_stack[d].locals = 1..Len(call_stack[d].locals)
         /\ Len(call_stack[d].locals) = Len(locals_types(current_functions[d]))
<1>1. /\ DOMAIN call_stack = 1..Len(call_stack) /\ Len(call_stack) \in Nat /\ me = call_stack[Len(call_stack)]
  BY RunFacts
<1>2. FrameOK(call_stack[d]) /\ current_functions[d] = call_stack[d].fun
  BY <1>1 DEF IInv, MachineInv, CallsInv
<1>3. call_stack[d].fun \notin Native
  BY <1>1 DEF IInv, MachineInv, Running
<1>4. /\ call_stack[d].fun \in Funs /\ Tuple(call_stack[d].locals)
      /\ Len(call_stack[d].locals) = Len(Params[call_stack[d].fun]) + Len(Locals[call_stack[d].fun])
  BY <1>2 DEF FrameOK
<1>5. PICK ls : ls = call_stack[d].locals
  OBVIOUS
<1>6. DOMAIN ls = 1..Len(ls)
  BY <1>4, <1>5, TupleFacts
<1>7. Len(call_stack[d].locals) = Len(locals_types(call_stack[d].fun))
  BY <1>3, <1>4, Signature
<1> QED BY <1>2, <1>3, <1>4, <1>5, <1>6, <1>7

\* A local of the running function and its symbol.
LEMMA CurrentLocal ==
  ASSUME IInv, Running, SymInv, NEW i \in DOMAIN me.locals
  PROVE  /\ i \in 1..Len(locals_types(me.fun)) /\ current_functions[Len(call_stack)] = me.fun
         /\ LocalOK(mine[i], me.locals[i], SlotType(i), Len(call_stack), current_functions, Len(concolic.args))
<1>1. /\ Len(call_stack) \in 1..Len(call_stack) /\ me = call_stack[Len(call_stack)] /\ Len(concolic.locals) = Len(call_stack)
  BY RunFacts
<1>2. /\ i \in 1..Len(me.locals) /\ current_functions[Len(call_stack)] = me.fun
      /\ Len(me.locals) = Len(locals_types(me.fun))
  BY <1>1, FrameTypes
<1>3. mine = concolic.locals[Len(call_stack)]
  BY <1>1 DEF mine, Top
<1> QED BY <1>1, <1>2, <1>3, SymFacts DEF FramesOK, SlotType

\* A local that was written is a pair.
LEMMA LocalPair ==
  ASSUME NEW s, NEW x, NEW t, NEW d, NEW fs, NEW n, LocalOK(s, x, t, d, fs, n), x # NoValue
  PROVE  PairOK(s, x, d, fs, n) /\ TypeOf(x) = t
<1>1. TypeOf(x) = t /\ x.ty = t.ty
  BY DEF LocalOK, TypeOf
<1> QED BY <1>1 DEF LocalOK, PairOK, Exact

\* Copies of locals and references to them.
LEMMA CopyingSym ==
  ASSUME IInv, SymInv, NEW i, CopyLoc(i) \/ BorrowLoc(i)
  PROVE  SymInv'
<1>1. /\ Running /\ Stay /\ UNCHANGED <<pc, call_stack, tree>> /\ Readable(i) /\ ~me.locals[i].ref
  BY DEF CopyLoc, BorrowLoc, Step, Fetch
<1>2. 0 <= Len(operand_stack) /\ Len(call_stack) \in Nat \ {0}
  BY <1>1, RunFacts
<1>3. PICK s, x, t, d, fs, n : /\ s = mine[i] /\ x = me.locals[i] /\ t = SlotType(i) /\ d = Len(call_stack)
                               /\ fs = current_functions /\ n = Len(concolic.args)
  OBVIOUS
<1>4. i \in DOMAIN me.locals /\ x # NoValue /\ ~x.ref
  BY <1>1, <1>3 DEF Readable
<1>5. /\ i \in 1..Len(locals_types(fs[d])) /\ t = locals_types(fs[d])[i] /\ LocalOK(s, x, t, d, fs, n)
  <2>1. i \in 1..Len(locals_types(me.fun)) /\ fs[d] = me.fun
    BY <1>1, <1>3, <1>4, CurrentLocal
  <2>2. LocalOK(s, x, t, d, fs, n)
    BY <1>1, <1>3, <1>4, CurrentLocal
  <2> QED BY <1>3, <2>1, <2>2 DEF SlotType
<1>6. PairOK(s, x, d, fs, n) /\ TypeOf(x) = t
  BY <1>4, <1>5, LocalPair
<1>7. CASE CopyLoc(i)
  <2>1. Replace(0, x, s)
    BY <1>3, <1>7 DEF CopyLoc
  <2> QED BY <1>1, <1>2, <1>3, <1>6, <2>1, SymReplace
<1>8. CASE BorrowLoc(i)
  <2>1. PICK y : y = [x EXCEPT !.ref = TRUE, !.at = <<d, i>>]
    OBVIOUS
  <2>2. Replace(0, y, s)
    BY <1>3, <1>8, <2>1 DEF BorrowLoc, Here
  <2>3. PICK ty, rf, v, a : x = [ty |-> ty, ref |-> rf, v |-> v, at |-> a]
    BY <1>6 DEF PairOK, ValOK
  <2>4. x.ty = ty /\ x.ref = rf /\ x.v = v
    BY <2>3
  <2>5. y = [ty |-> ty, ref |-> TRUE, v |-> v, at |-> <<d, i>>]
    BY <2>1, <2>3
  <2>6. y.ty = ty /\ y.ref = TRUE /\ y.v = v /\ y.at = <<d, i>>
    BY <2>5
  <2>7. ty \in Prim \cup {"obj", "vec"} /\ t = Val(ty)
    <3>1. TypeOf(x) \in Types
      BY <1>6 DEF PairOK, ValOK
    <3>2. x.ref = FALSE
      BY <1>4, <3>1 DEF TypeOf, Types
    <3> QED BY <1>6, <2>4, <3>1, <3>2 DEF TypeOf, Types, Val
  <2>8. TypeOf(y) \in Types /\ y = [ty |-> y.ty, ref |-> y.ref, v |-> y.v, at |-> y.at]
    BY <2>5, <2>6, <2>7 DEF TypeOf, Types
  <2>9. d \in 1..d /\ y.at = <<d, i>> /\ locals_types(fs[d])[i] = Val(y.ty)
    BY <1>2, <1>3, <1>5, <2>6, <2>7
  <2>10. y.ty \in Prim => y.v \in RangeOf(y.ty)
    BY <1>6, <2>4, <2>6 DEF PairOK, ValOK
  <2>11. ValOK(y, d, fs)
    BY <1>5, <2>6, <2>8, <2>9, <2>10 DEF ValOK
  <2>12. PairOK(s, y, d, fs, n)
    BY <1>6, <2>4, <2>6, <2>11 DEF PairOK, Exact
  <2> QED BY <1>1, <1>2, <1>3, <2>2, <2>12, SymReplace
<1> QED BY <1>7, <1>8

\* Instructions that only take a value, or read one.
LEMMA TakingSym ==
  ASSUME IInv, SymInv, Pop \/ ReadRef \/ Abort \/ \E ty \in {"u8", "u16"} : Cast(ty)
  PROVE  SymInv'
<1>0. Running /\ QuietStep
  BY TakingQuiet
<1>1. PICK s, x, d, fs, n : /\ s = Top(concolic.stack) /\ x = Top(operand_stack) /\ d = Len(call_stack)
                            /\ fs = current_functions /\ n = Len(concolic.args)
  OBVIOUS
<1>2. CASE Pop
  <2>1. Has(1) /\ UNCHANGED <<pc, call_stack, tree>> /\ operand_stack' = popped(operand_stack, 1)
    BY <1>2 DEF Pop
  <2>2. /\ Aligned /\ Tuple(operand_stack) /\ ShadowOK(concolic) /\ Tuple(concolic.stack)
        /\ Len(concolic.stack) = Len(operand_stack) /\ 1 <= Len(operand_stack)
    BY <1>0, <2>1, RunFacts, HasFacts DEF ShadowOK
  <2>3. concolic' = [concolic EXCEPT !.stack = popped(concolic.stack, 1)]
    BY <1>2, <2>2 DEF Pop, Shadow
  <2>4. concolic'.stack = popped(concolic.stack, 1) /\ concolic'.locals = concolic.locals
    BY <2>2, <2>3, TuplePopped, StackOnly
  <2>5. PairsOK(concolic'.stack, operand_stack', Len(call_stack), current_functions, Len(concolic.args))
    BY <1>0, <2>1, <2>2, <2>4, SymFacts, PairsReplace
  <2> QED BY <1>0, <2>1, <2>4, <2>5, SymFacts, SymQuiet
<1>3. CASE Abort
  <2>1. pc' = "aborted"
    BY <1>3 DEF Abort, execution_error
  <2> QED BY <1>0, <2>1, SymQuiet
<1>4. CASE ReadRef
  <2>1. /\ Stay /\ Has(1) /\ UNCHANGED <<pc, call_stack, tree>>
        /\ operand_stack' = Append(popped(operand_stack, 1), [x EXCEPT !.ref = FALSE, !.at = <<>>])
    BY <1>1, <1>4 DEF ReadRef, Step
  <2>2. concolic' = concolic
    BY <1>0, <1>4, RunFacts DEF ReadRef, Shadow
  <2>3. PairOK(s, x, d, fs, n)
    BY <1>0, <1>1, <2>1, TopPairs
  <2>4. PICK y : y = [x EXCEPT !.ref = FALSE, !.at = <<>>]
    OBVIOUS
  <2>5. PICK ty, rf, v, a : x = [ty |-> ty, ref |-> rf, v |-> v, at |-> a]
    BY <2>3 DEF PairOK, ValOK
  <2>6. x.ty = ty /\ x.v = v /\ y = [ty |-> ty, ref |-> FALSE, v |-> v, at |-> <<>>]
    BY <2>4, <2>5
  <2>7. y.ty = ty /\ y.ref = FALSE /\ y.v = v /\ y.at = <<>>
    BY <2>6
  <2>8. TypeOf(y) \in Types
    BY <2>3, <2>6, <2>7 DEF TypeOf, Types, PairOK, ValOK
  <2>9. ValOK(y, d, fs)
    BY <2>3, <2>6, <2>7, <2>8 DEF PairOK, ValOK
  <2>10. PairOK(s, y, d, fs, n)
    BY <2>3, <2>6, <2>7, <2>9 DEF PairOK, Exact
  <2> QED BY <1>0, <1>1, <2>1, <2>2, <2>4, <2>10, SymTop
<1>5. ASSUME NEW ty \in {"u8", "u16"}, Cast(ty) PROVE SymInv'
  <2>1. Stay /\ Has(1)
    BY <1>5 DEF Cast, Step
  <2>2. CASE x.v \in RangeOf(ty)
    <3>1. /\ UNCHANGED <<pc, call_stack, tree>> /\ Shadow(concolic)
          /\ operand_stack' = Append(popped(operand_stack, 1), Value(Val(ty), x.v)) /\ x.ty \in Prim
      BY <1>1, <1>5, <2>2 DEF Cast
    <3>2. concolic' = concolic
      BY <1>0, <3>1, RunFacts DEF Shadow
    <3>3. PairOK(s, x, d, fs, n)
      BY <1>0, <1>1, <2>1, TopPairs
    <3>4. Val(ty) \in Types /\ Val(ty).ty = ty /\ ty \in Prim
      BY ConstantsAssumption DEF Val, Types
    <3>5. PICK y : y = Value(Val(ty), x.v)
      OBVIOUS
    <3>6. ValOK(y, d, fs) /\ y.ty = ty /\ y.v = x.v
      BY <2>2, <3>4, <3>5, ValueFacts
    <3>7. PairOK(s, y, d, fs, n)
      BY <3>3, <3>4, <3>6 DEF PairOK, Exact
    <3> QED BY <1>0, <1>1, <2>1, <3>1, <3>2, <3>5, <3>7, SymTop
  <2>3. CASE x.v \notin RangeOf(ty)
    <3>1. pc' = "aborted"
      BY <1>1, <1>5, <2>3 DEF Cast, execution_error
    <3> QED BY <1>0, <3>1, SymQuiet
  <2> QED BY <2>2, <2>3
<1> QED BY <1>2, <1>3, <1>4, <1>5

\* A local and its symbol change together.
LEMMA SymStore ==
  ASSUME IInv, Running, SymInv, QuietStep, NEW s, Tuple(s), NEW k, NEW i, NEW x, NEW y,
         concolic' = [concolic EXCEPT !.stack = s, !.locals = SetIn(concolic.locals, k, i, y)],
         call_stack' = [call_stack EXCEPT ![k].locals[i] = x],
         PairsOK(s, operand_stack', Len(call_stack), current_functions, Len(concolic.args)),
         LocalOK(y, x, locals_types(current_functions[k])[i], k, current_functions, Len(concolic.args))
  PROVE  SymInv'
<1>1. PICK ls : ls = SetIn(concolic.locals, k, i, y)
  OBVIOUS
<1>2. /\ ShadowOK(concolic) /\ Tuple(concolic.locals) /\ Len(concolic.locals) = Len(call_stack)
      /\ DOMAIN concolic.locals = 1..Len(call_stack)
      /\ \A d \in 1..Len(call_stack) : Len(concolic.locals[d]) = Len(call_stack[d].locals) /\ Tuple(concolic.locals[d])
  BY RunFacts DEF ShadowOK
<1>3. /\ Tuple(ls) /\ Len(ls) = Len(concolic.locals)
      /\ \A d \in 1..Len(concolic.locals) :
           /\ Tuple(ls[d]) /\ Len(ls[d]) = Len(concolic.locals[d])
           /\ \A j \in 1..Len(concolic.locals[d]) : ls[d][j] = IF d = k /\ j = i THEN y ELSE concolic.locals[d][j]
  <2>1. PICK old : old = concolic.locals
    OBVIOUS
  <2>2. Tuple(old) /\ (\A d \in DOMAIN old : Tuple(old[d])) /\ ls = SetIn(old, k, i, y)
    BY <1>1, <1>2, <2>1
  <2>3. /\ Tuple(ls) /\ Len(ls) = Len(old)
        /\ \A d \in 1..Len(old) : /\ Tuple(ls[d]) /\ Len(ls[d]) = Len(old[d])
                                  /\ \A j \in 1..Len(old[d]) : ls[d][j] = IF d = k /\ j = i THEN y ELSE old[d][j]
    BY <2>2, NestedExcept
  <2> QED BY <2>1, <2>3
<1>4. concolic'.stack = s /\ concolic'.locals = ls
  <2>1. \A d \in 1..Len(ls) : Tuple(ls[d]) /\ Len(ls[d]) = Len(concolic.locals[d])
    BY <1>3
  <2>2. concolic' = [concolic EXCEPT !.stack = s, !.locals = ls] /\ Tuple(ls) /\ Len(ls) = Len(concolic.locals)
    BY <1>1, <1>3
  <2> QED BY <1>2, <2>1, <2>2, StackAndLocals, ZenonT(40)
<1>5. /\ Len(call_stack') = Len(call_stack)
      /\ \A d \in 1..Len(call_stack) : \A j \in 1..Len(call_stack[d].locals) :
           call_stack'[d].locals[j] = IF d = k /\ j = i THEN x ELSE call_stack[d].locals[j]
  BY SetLocal DEF SameFrames
<1>6. \A d \in 1..Len(call_stack) : Len(call_stack'[d].locals) = Len(call_stack[d].locals)
  <2> SUFFICES ASSUME NEW d \in 1..Len(call_stack) PROVE Len(call_stack'[d].locals) = Len(call_stack[d].locals)
    OBVIOUS
  <2>1. FrameOK(call_stack[d]) /\ FrameOK(call_stack'[d]) /\ call_stack'[d].fun = call_stack[d].fun
    BY RunFacts DEF IInv, MachineInv, QuietStep, SameFrames
  <2> QED BY <2>1 DEF FrameOK
<1>7. FramesOK(ls, call_stack', current_functions, Len(concolic.args))
  <2> SUFFICES ASSUME NEW d \in 1..Len(call_stack), NEW j \in 1..Len(call_stack[d].locals)
               PROVE  LocalOK(ls[d][j], call_stack'[d].locals[j], locals_types(current_functions[d])[j], d,
                              current_functions, Len(concolic.args))
    BY <1>5, <1>6 DEF FramesOK
  <2>1. ls[d][j] = IF d = k /\ j = i THEN y ELSE concolic.locals[d][j]
    BY <1>2, <1>3
  <2>2. CASE d = k /\ j = i
    BY <1>5, <2>1, <2>2
  <2>3. CASE ~(d = k /\ j = i)
    <3>1. ls[d][j] = concolic.locals[d][j] /\ call_stack'[d].locals[j] = call_stack[d].locals[j]
      BY <1>5, <2>1, <2>3
    <3> QED BY <3>1, SymFacts DEF FramesOK
  <2> QED BY <2>2, <2>3
<1> QED BY <1>4, <1>7, SymQuiet

\* Instructions that change a local.
LEMMA StoringSym ==
  ASSUME IInv, SymInv, WriteRef \/ \E i : MoveLoc(i) \/ StLoc(i)
  PROVE  SymInv'
<1>0. Running /\ QuietStep
  BY StoringQuiet
<1>1. /\ Tuple(operand_stack) /\ ShadowOK(concolic) /\ Aligned
      /\ Len(concolic.stack) = Len(operand_stack) /\ Len(operand_stack) \in Nat
      /\ Tuple(concolic.stack) /\ Len(concolic.locals) = Len(call_stack) /\ Len(call_stack) \in Nat \ {0}
      /\ me = call_stack[Len(call_stack)]
  BY <1>0, RunFacts DEF ShadowOK
<1>2. PICK d, fs, n : d = Len(call_stack) /\ fs = current_functions /\ n = Len(concolic.args)
  OBVIOUS
<1>3. PairsOK(concolic.stack, operand_stack, d, fs, n)
  BY <1>0, <1>2, SymFacts
<1>4. ASSUME NEW i, MoveLoc(i) PROVE SymInv'
  <2>1. PICK s, x : s = mine[i] /\ x = me.locals[i]
    OBVIOUS
  <2>2. /\ operand_stack' = Append(operand_stack, x) /\ call_stack' = [call_stack EXCEPT ![d].locals[i] = NoValue]
        /\ i \in DOMAIN me.locals /\ x # NoValue
    BY <1>2, <1>4, <2>1 DEF MoveLoc, Readable
  <2>3. LocalOK(s, x, SlotType(i), d, fs, n)
    BY <1>0, <1>2, <2>1, <2>2, CurrentLocal
  <2>4. PairOK(s, x, d, fs, n)
    BY <2>2, <2>3, LocalPair
  <2>5. PICK st : st = Append(concolic.stack, s)
    OBVIOUS
  <2>6. Tuple(st)
    BY <1>1, <2>5, TupleAppend
  <2>7. concolic' = [concolic EXCEPT !.stack = st, !.locals = SetIn(concolic.locals, d, i, Unknown)]
    BY <1>1, <1>2, <1>4, <2>1, <2>5 DEF MoveLoc, Shadow, SetIn
  <2>8. PairsOK(st, operand_stack', d, fs, n)
    <3>1. PICK cs, os : cs = concolic.stack /\ os = operand_stack
      OBVIOUS
    <3>2. /\ Tuple(cs) /\ Tuple(os) /\ Len(cs) = Len(os) /\ Len(os) \in Nat
          /\ \A i1 \in 1..Len(os) : PairOK(cs[i1], os[i1], d, fs, n)
      BY <1>1, <1>3, <3>1 DEF PairsOK
    <3>3. /\ st = Append(cs, s) /\ operand_stack' = Append(os, x)
      BY <2>2, <2>5, <3>1
    <3>4. PICK h : h = Len(os)
      OBVIOUS
    <3>5. /\ Len(Append(os, x)) = h + 1 /\ Append(os, x)[h + 1] = x /\ \A i1 \in 1..h : Append(os, x)[i1] = os[i1]
      BY <3>2, <3>4, TupleAppend
    <3>6. /\ Append(cs, s)[h + 1] = s /\ \A i1 \in 1..h : Append(cs, s)[i1] = cs[i1]
      BY <3>2, <3>4, TupleAppend
    <3>7. \A i1 \in 1..(h + 1) : i1 \in 1..h \/ i1 = h + 1
      BY <3>2, <3>4
    <3>8. ASSUME NEW i1 \in 1..(h + 1) PROVE PairOK(Append(cs, s)[i1], Append(os, x)[i1], d, fs, n)
      <4>1. CASE i1 \in 1..h
        BY <3>2, <3>4, <3>5, <3>6, <4>1
      <4>2. CASE i1 = h + 1
        BY <2>4, <3>5, <3>6, <4>2
      <4> QED BY <3>7, <4>1, <4>2
    <3> QED BY <3>3, <3>5, <3>8 DEF PairsOK
  <2>9. PICK t : t = locals_types(fs[d])[i]
    OBVIOUS
  <2>10. LocalOK(Unknown, NoValue, t, d, fs, n)
    BY UnknownFacts DEF LocalOK
  <2> QED BY <1>0, <1>2, <2>2, <2>6, <2>7, <2>8, <2>9, <2>10, SymStore
<1>5. ASSUME NEW i, StLoc(i) PROVE SymInv'
  <2>1. PICK s, x : s = Top(concolic.stack) /\ x = Top(operand_stack)
    OBVIOUS
  <2>2. /\ operand_stack' = popped(operand_stack, 1) /\ call_stack' = [call_stack EXCEPT ![d].locals[i] = x]
        /\ i \in DOMAIN me.locals /\ TypeOf(x) = SlotType(i) /\ Has(1)
    BY <1>2, <1>5, <2>1 DEF StLoc
  <2>3. PairOK(s, x, d, fs, n) /\ 1 <= Len(operand_stack)
    BY <1>0, <1>2, <2>1, <2>2, TopPairs
  <2>4. fs[d] = me.fun
    BY <1>0, <1>2, <2>2, CurrentLocal
  <2>5. PICK st, t : st = popped(concolic.stack, 1) /\ t = locals_types(fs[d])[i]
    OBVIOUS
  <2>6. Tuple(st) /\ PairsOK(st, operand_stack', d, fs, n)
    BY <1>1, <1>3, <2>2, <2>3, <2>5, TuplePopped, PairsReplace
  <2>7. concolic' = [concolic EXCEPT !.stack = st, !.locals = SetIn(concolic.locals, d, i, s)]
    BY <1>1, <1>2, <1>5, <2>1, <2>5, ZenonT(40) DEF StLoc, Shadow, SetIn
  <2>8. TypeOf(x) = t
    BY <2>2, <2>4, <2>5 DEF SlotType
  <2>9. x.ty = t.ty
    BY <2>8 DEF TypeOf
  <2>10. LocalOK(s, x, t, d, fs, n)
    BY <2>3, <2>8, <2>9 DEF LocalOK, PairOK, Exact
  <2> QED BY <1>0, <1>2, <2>2, <2>5, <2>6, <2>7, <2>10, SymStore
<1>6. CASE WriteRef
  <2>1. PICK r, x, p : r = Top(operand_stack) /\ x = Under(operand_stack) /\ p = r.at
    OBVIOUS
  <2>2. Has(2) /\ operand_stack' = popped(operand_stack, 2) /\ TypeOf(x) = Val(r.ty)
    BY <1>6, <2>1 DEF WriteRef
  <2>3. ValOK(r, d, fs) /\ ValOK(x, d, fs) /\ 2 <= Len(operand_stack)
    BY <1>0, <1>2, <2>1, <2>2, TopPairs DEF PairOK
  <2>4. PICK st : st = popped(concolic.stack, 2)
    OBVIOUS
  <2>5. Tuple(st) /\ PairsOK(st, operand_stack', d, fs, n)
    BY <1>1, <1>3, <2>2, <2>3, <2>4, TuplePopped, PairsReplace
  <2>6. CASE p = <<>>
    <3>1. call_stack' = call_stack /\ concolic' = [concolic EXCEPT !.stack = st, !.locals = concolic.locals]
      BY <1>1, <1>6, <2>1, <2>4, <2>6 DEF WriteRef, Shadow
    <3>2. /\ Tuple(concolic.locals) /\ \A e \in 1..Len(concolic.locals) : Tuple(concolic.locals[e])
      BY <1>0, RunFacts DEF ShadowOK
    <3>3. concolic'.stack = st /\ concolic'.locals = concolic.locals
      BY <1>1, <2>5, <3>1, <3>2, StackAndLocals
    <3> QED BY <1>0, <1>2, <2>5, <3>1, <3>3, SymFacts, SymQuiet
  <2>7. CASE p # <<>>
    <3>0. PICK k \in 1..d : \E j \in 1..Len(locals_types(fs[k])) : p = <<k, j>> /\ locals_types(fs[k])[j] = Val(r.ty)
      BY <2>1, <2>3, <2>7 DEF ValOK
    <3>1. PICK j \in 1..Len(locals_types(fs[k])) : p = <<k, j>> /\ locals_types(fs[k])[j] = Val(r.ty)
      BY <3>0
    <3>2. p[1] = k /\ p[2] = j
      BY <3>1
    <3>3. PICK old, y : old = concolic.locals[k][j] /\ y = Untrusted(old)
      OBVIOUS
    <3>4. concolic' = [concolic EXCEPT !.stack = st, !.locals = SetIn(concolic.locals, k, j, y)]
      <4>1. Shadow([concolic EXCEPT !.stack = popped(@, 2),
                      !.locals = IF p = <<>> THEN @ ELSE [@ EXCEPT ![p[1]][p[2]] = Untrusted(concolic.locals[p[1]][p[2]])]])
        BY <1>6, <2>1 DEF WriteRef
      <4>2. concolic' = [concolic EXCEPT !.stack = popped(@, 2),
                      !.locals = IF p = <<>> THEN @ ELSE [@ EXCEPT ![k][j] = y]]
        BY <1>1, <3>2, <3>3, <4>1 DEF Shadow
      <4> QED BY <2>4, <2>7, <4>2 DEF SetIn
    <3>5. call_stack' = [call_stack EXCEPT ![k].locals[j] = x]
      BY <1>6, <2>1, <2>7, <3>2 DEF WriteRef
    <3>6. PICK t : t = locals_types(fs[k])[j]
      OBVIOUS
    <3>7. LocalOK(old, call_stack[k].locals[j], t, k, fs, n)
      <4>1. k \in 1..Len(call_stack) /\ j \in 1..Len(call_stack[k].locals)
        BY <1>0, <1>2, <3>1, FrameTypes
      <4> QED BY <1>0, <1>2, <3>3, <3>6, <4>1, SymFacts DEF FramesOK
    <3>8. SymOK(y, n) /\ (y.known => t.ty \in Prim) /\ (y.known => ~y.sound)
      <4>1. SymOK(old, n) /\ (old.known => t.ty \in Prim)
        BY <3>7 DEF LocalOK
      <4>2. PICK a, b, c, e : old = [known |-> a, val |-> b, vars |-> c, sound |-> e]
        BY <4>1 DEF SymOK
      <4>3. CASE old.known
        <5>0. y = [old EXCEPT !.val = 0, !.sound = FALSE]
          BY <3>3, <4>3 DEF Untrusted
        <5>1. y = [known |-> a, val |-> 0, vars |-> c, sound |-> FALSE]
          BY <4>2, <5>0
        <5> QED BY <4>1, <4>2, <4>3, <5>1 DEF SymOK
      <4>4. CASE ~old.known
        BY <3>3, <4>1, <4>4 DEF Untrusted
      <4> QED BY <4>3, <4>4
    <3>9. ValOK(x, k, fs) /\ TypeOf(x) = t
      <4>1. TypeOf(x) = t /\ ~x.ref
        BY <2>2, <3>1, <3>6 DEF TypeOf, Val
      <4>2. x.at = <<>>
        BY <2>3, <4>1 DEF ValOK
      <4> QED BY <2>3, <4>1, <4>2 DEF ValOK
    <3>10. LocalOK(y, x, t, k, fs, n)
      BY <3>8, <3>9 DEF LocalOK
    <3> QED BY <1>0, <1>2, <2>5, <3>4, <3>5, <3>6, <3>10, SymStore
  <2> QED BY <2>6, <2>7
<1> QED BY <1>4, <1>5, <1>6

-----------------------------------------------------------------------------
(* Calls and returns keep the symbols.                                      *)

\* Deeper calls leave what a reference leads to where it is.
LEMMA Deeper ==
  ASSUME NEW d \in Nat, NEW e \in Nat, d <= e, NEW fs, NEW gs, \A k \in 1..d : gs[k] = fs[k], NEW n
  PROVE  /\ \A x : ValOK(x, d, fs) => ValOK(x, e, gs)
         /\ \A s, x : PairOK(s, x, d, fs, n) => PairOK(s, x, e, gs, n)
         /\ \A s, x, t : LocalOK(s, x, t, d, fs, n) => LocalOK(s, x, t, e, gs, n)
<1>1. \A k \in 1..d : k \in 1..e
  OBVIOUS
<1>2. ASSUME NEW x, ValOK(x, d, fs) PROVE ValOK(x, e, gs)
  <2>1. ASSUME x.at # <<>>
        PROVE  /\ x.ref
               /\ \E k \in 1..e : \E j \in 1..Len(locals_types(gs[k])) :
                    x.at = <<k, j>> /\ locals_types(gs[k])[j] = Val(x.ty)
    <3>1. PICK k \in 1..d : \E j \in 1..Len(locals_types(fs[k])) : x.at = <<k, j>> /\ locals_types(fs[k])[j] = Val(x.ty)
      BY <1>2, <2>1 DEF ValOK
    <3>2. k \in 1..e /\ gs[k] = fs[k]
      BY <1>1
    <3> QED BY <1>2, <2>1, <3>1, <3>2 DEF ValOK
  <2> QED BY <1>2, <2>1 DEF ValOK
<1> QED BY <1>2 DEF PairOK, LocalOK

\* The functions called, by their depth.
LEMMA CallsFacts ==
  ASSUME IInv
  PROVE  /\ Len(call_stack) \in Nat /\ Tuple(call_stack) /\ Tuple(current_functions) /\ Len(current_functions) = Len(call_stack)
         /\ DOMAIN call_stack = 1..Len(call_stack)
         /\ \A d \in 1..Len(call_stack) : current_functions[d] = call_stack[d].fun
<1>1. Tuple(call_stack) /\ Len(call_stack) \in Nat /\ DOMAIN call_stack = 1..Len(call_stack)
  BY TupleFacts DEF IInv, MachineInv
<1>2. /\ current_functions = [d \in 1..Len(call_stack) |-> current_functions[d]]
      /\ \A d \in 1..Len(call_stack) : current_functions[d] = call_stack[d].fun
  BY <1>1 DEF IInv, CallsInv
<1> QED BY <1>1, <1>2, TupleIntro

\* One tuple after another.
Joined(s, t, r) ==
  /\ Len(r) = Len(s) + Len(t)
  /\ \A i \in 1..Len(s) : r[i] = s[i]
  /\ \A i \in 1..Len(t) : r[Len(s) + i] = t[i]

\* The n topmost elements of s, in order.
TopOf(s, n, t) == Tuple(t) /\ Len(t) = n /\ \A i \in 1..n : t[i] = s[Len(s) - n + i]

\* These are the arguments that a call takes.
LEMMA TakenTop ==
  ASSUME NEW s, Tuple(s), NEW n \in Nat, n <= Len(s)
  PROVE  TopOf(s, n, Taken(s, n))
BY TuplePopped DEF TopOf

\* Concatenation joins two tuples.
LEMMA TupleJoin ==
  ASSUME NEW s, Tuple(s), NEW t, Tuple(t)
  PROVE  Joined(s, t, s \o t)
BY TupleConcat DEF Joined

\* The locals of a new frame: its parameters, then locals without a value.
FrameOf(f, params, fr) ==
  /\ fr.fun = f /\ Len(fr.locals) = Len(Params[f]) + Len(Locals[f])
  /\ \A i \in 1..Len(Params[f]) : fr.locals[i] = params[i]
  /\ \A i \in 1..Len(Locals[f]) : fr.locals[Len(Params[f]) + i] = NoValue

\* The frame a call pushes has these locals.
LEMMA NewLocals ==
  ASSUME NEW f \in Funs, NEW params, Tuple(params), Len(params) = Len(Params[f]), NEW b
  PROVE  FrameOf(f, params, Frame(f, params, b))
<1>1. Len(Locals[f]) \in Nat
  BY Signature
<1>2. PICK u : u = Repeat(NoValue, Len(Locals[f]))
  OBVIOUS
<1>3. Tuple(u) /\ Len(u) = Len(Locals[f]) /\ \A i \in 1..Len(Locals[f]) : u[i] = NoValue
  BY <1>1, <1>2, TupleRepeat
<1>4. PICK p : p = params
  OBVIOUS
<1>5. Tuple(p) /\ Len(p) = Len(Params[f])
  BY <1>4
<1>6. /\ Len(p \o u) = Len(p) + Len(u)
      /\ \A i \in 1..Len(p) : (p \o u)[i] = p[i]
      /\ \A i \in 1..Len(u) : (p \o u)[Len(p) + i] = u[i]
  <2>1. Joined(p, u, p \o u)
    BY <1>3, <1>5, TupleJoin
  <2> QED BY <2>1 DEF Joined
<1>7. PICK fr : fr = Frame(f, params, b)
  OBVIOUS
<1>8. fr = [fun |-> f, locals |-> p \o u, base |-> b]
  BY <1>2, <1>4, <1>7 DEF Frame
<1>9. fr.fun = f /\ fr.locals = p \o u
  BY <1>8
<1>10. FrameOf(f, params, fr)
  <2>1. PICK k, q : k = Len(Params[f]) /\ q = Len(Locals[f])
    OBVIOUS
  <2>2. Len(fr.locals) = k + q /\ \A i \in 1..k : fr.locals[i] = params[i]
    BY <1>3, <1>4, <1>5, <1>6, <1>9, <2>1, ZenonT(40)
  <2>3. \A i \in 1..q : fr.locals[k + i] = NoValue
    BY <1>3, <1>5, <1>6, <1>9, <2>1, ZenonT(40)
  <2> QED BY <1>9, <2>1, <2>2, <2>3 DEF FrameOf
<1> QED BY <1>7, <1>10

\* A Call instruction: the symbols of the arguments go with their values.
LEMMA CallSym ==
  ASSUME IInv, SymInv, NEW f \in Funs, Call(f)
  PROVE  SymInv'
<1>1. PICK n, params, N, A : /\ n = Len(Params[f]) /\ params = Taken(operand_stack, n) /\ N = Len(call_stack)
                             /\ A = Len(concolic.args)
  OBVIOUS
<1>2. /\ Running /\ f \notin Native /\ OnTop(Params[f])
      /\ Shadow(on_open_frame_inner(concolic, f, params))
      /\ operand_stack' = popped(operand_stack, n)
      /\ call_stack' = Append(call_stack, Frame(f, params, Len(operand_stack) - n))
      /\ current_functions' = Append(current_functions, f)
  BY <1>1 DEF Call, Fetch
<1>3. /\ n \in Nat /\ DOMAIN Params[f] = 1..n /\ Len(Locals[f]) \in Nat
      /\ Len(locals_types(f)) = n + Len(Locals[f]) /\ \A i \in 1..n : locals_types(f)[i] = Params[f][i]
  BY <1>1, <1>2, Signature
<1>4. PICK cs, os, h : cs = concolic.stack /\ os = operand_stack /\ h = Len(operand_stack)
  OBVIOUS
<1>5. /\ Aligned /\ Tuple(os) /\ Tuple(cs) /\ Len(os) = h /\ Len(cs) = h /\ h \in Nat /\ ShadowOK(concolic)
      /\ N \in Nat \ {0} /\ Len(concolic.locals) = N
  BY <1>1, <1>2, <1>4, RunFacts DEF ShadowOK
<1>6. n <= h
  BY <1>1, <1>2, <1>3, <1>4, HasFacts DEF OnTop
<1>7. concolic' = on_open_frame_inner(concolic, f, params)
  BY <1>2, <1>5 DEF Shadow
<1>8. PICK fl : /\ concolic'.args = concolic.args /\ concolic'.locals = Append(concolic.locals, fl)
                /\ fl = Taken(cs, n) \o Repeat(Unknown, Len(Locals[f]))
                /\ concolic'.stack = popped(cs, n)
  <2>1. Len(concolic.locals) # 0 /\ Len(Params[f]) <= Len(concolic.stack)
    BY <1>1, <1>4, <1>5, <1>6
  <2>2. Opened(concolic, f, concolic')
    BY <1>5, <1>7, <2>1, NestedOpen
  <2>3. Rest(f) = Len(Locals[f]) /\ Results(f) = 0
    BY <1>2 DEF Rest, Results
  <2>4. PICK st : st = popped(cs, n)
    OBVIOUS
  <2>5. Tuple(st)
    BY <1>3, <1>5, <1>6, <2>4, TuplePopped
  <2>6. st \o Repeat(Unknown, 0) = st
    <3>1. Repeat(Unknown, 0) = <<>>
      <4>1. Tuple(Repeat(Unknown, 0)) /\ Len(Repeat(Unknown, 0)) = 0
        BY TupleRepeat
      <4> QED BY <4>1, EmptySeq DEF Tuple
    <3>2. st \in Seq({st[i] : i \in DOMAIN st})
      BY <2>5 DEF Tuple
    <3> QED BY <3>1, <3>2, ConcatEmptySeq
  <2>7. concolic'.stack = st \o Repeat(Unknown, 0)
    BY <1>1, <1>4, <2>2, <2>3, <2>4 DEF Opened
  <2>8. /\ concolic'.args = concolic.args
        /\ concolic'.locals = Append(concolic.locals, Taken(cs, n) \o Repeat(Unknown, Len(Locals[f])))
    BY <1>1, <1>4, <2>2, <2>3 DEF Opened
  <2> QED BY <2>4, <2>6, <2>7, <2>8
<1>9. /\ concolic'.locals[N + 1] = fl /\ \A d \in 1..N : concolic'.locals[d] = concolic.locals[d]
  <2>1. Tuple(concolic.locals)
    BY <1>5 DEF ShadowOK
  <2> QED BY <1>5, <1>8, <2>1, TupleAppend
<1>10. PICK new, b : new = Frame(f, params, b) /\ b = Len(operand_stack) - n
  OBVIOUS
<1>11. /\ Len(call_stack') = N + 1 /\ call_stack'[N + 1] = new
       /\ \A d \in 1..N : call_stack'[d] = call_stack[d]
  BY <1>1, <1>2, <1>10, CallsFacts, TupleAppend
<1>12. /\ current_functions'[N + 1] = f
       /\ \A d \in 1..N : current_functions'[d] = current_functions[d]
  <2>1. PICK cf : cf = current_functions
    OBVIOUS
  <2>2. Tuple(cf) /\ Len(cf) = N
    BY <1>1, <2>1, CallsFacts
  <2>3. Append(cf, f)[Len(cf) + 1] = f /\ \A d \in 1..Len(cf) : Append(cf, f)[d] = cf[d]
    BY <2>2, TupleAppend
  <2> QED BY <1>2, <2>1, <2>2, <2>3
<1>13. PICK fs, gs : fs = current_functions /\ gs = current_functions'
  OBVIOUS
<1>14. /\ \A x : ValOK(x, N, fs) => ValOK(x, N + 1, gs)
       /\ \A s, x : PairOK(s, x, N, fs, A) => PairOK(s, x, N + 1, gs, A)
  <2>1. PICK e : e = N + 1
    OBVIOUS
  <2>2. N \in Nat /\ e \in Nat /\ N <= e /\ \A k \in 1..N : gs[k] = fs[k]
    BY <1>5, <1>12, <1>13, <2>1
  <2>3. /\ \A x : ValOK(x, N, fs) => ValOK(x, e, gs)
        /\ \A s, x : PairOK(s, x, N, fs, A) => PairOK(s, x, e, gs, A)
    BY <2>2, Deeper
  <2> QED BY <2>1, <2>3
<1>15. PairsOK(cs, os, N, fs, A) /\ FramesOK(concolic.locals, call_stack, fs, A)
       /\ concolic.args # <<>> /\ Top(concolic.args).fun = fs[1]
  BY <1>1, <1>2, <1>4, <1>13, SymFacts
<1>16. PairsOK(popped(cs, n), popped(os, n), N + 1, gs, A)
  <2>1. PairsOK(popped(cs, n), popped(os, n), N, fs, A)
    BY <1>3, <1>5, <1>6, <1>15, PairsReplace
  <2> QED BY <1>14, <2>1 DEF PairsOK
<1>17. /\ Tuple(params) /\ Len(params) = n /\ \A i \in 1..n : params[i] = os[h - n + i]
  <2>1. params = Taken(os, n) /\ Tuple(os) /\ Len(os) = h /\ n \in Nat
    BY <1>1, <1>3, <1>4, <1>5
  <2>2. TopOf(os, n, params)
    BY <1>6, <2>1, TakenTop
  <2> QED BY <2>1, <2>2 DEF TopOf
<1>18. /\ \A i \in 1..n : fl[i] = cs[h - n + i]
       /\ \A i \in 1..Len(Locals[f]) : fl[n + i] = Unknown
  <2>1. PICK a, u : a = Taken(cs, n) /\ u = Repeat(Unknown, Len(Locals[f]))
    OBVIOUS
  <2>2. /\ Tuple(a) /\ Len(a) = n /\ \A i \in 1..n : a[i] = cs[h - n + i]
    <3>1. Tuple(cs) /\ Len(cs) = h /\ n \in Nat
      BY <1>3, <1>5
    <3>2. TopOf(cs, n, a)
      BY <1>6, <2>1, <3>1, TakenTop
    <3> QED BY <3>1, <3>2 DEF TopOf
  <2>3. Tuple(u) /\ Len(u) = Len(Locals[f]) /\ \A i \in 1..Len(Locals[f]) : u[i] = Unknown
    BY <1>3, <2>1, TupleRepeat
  <2>4. /\ \A i \in 1..Len(a) : (a \o u)[i] = a[i]
        /\ \A i \in 1..Len(u) : (a \o u)[Len(a) + i] = u[i]
    <3>1. Joined(a, u, a \o u)
      BY <2>2, <2>3, TupleJoin
    <3> QED BY <3>1 DEF Joined
  <2>5. fl = a \o u
    BY <1>8, <2>1
  <2>6. \A i \in 1..n : fl[i] = cs[h - n + i]
    BY <2>2, <2>4, <2>5
  <2>7. \A i \in 1..Len(Locals[f]) : fl[n + i] = Unknown
    BY <2>2, <2>3, <2>4, <2>5
  <2> QED BY <2>6, <2>7
<1>19. /\ new.fun = f /\ Len(new.locals) = n + Len(Locals[f])
       /\ \A i \in 1..n : new.locals[i] = params[i]
       /\ \A i \in 1..Len(Locals[f]) : new.locals[n + i] = NoValue
  <2>1. Len(params) = Len(Params[f])
    BY <1>1, <1>17
  <2>2. FrameOf(f, params, new)
    BY <1>10, <1>17, <2>1, NewLocals
  <2> QED BY <1>1, <2>2 DEF FrameOf
<1>20. ASSUME NEW i \in 1..Len(new.locals)
       PROVE  LocalOK(fl[i], new.locals[i], locals_types(f)[i], N + 1, gs, A)
  <2>0. i \in Nat /\ (i <= n \/ i > n)
    BY <1>3, <1>19
  <2>1. CASE i <= n
    <3>1. i \in 1..n /\ h - n + i \in 1..h
      BY <1>3, <1>5, <1>6, <2>0, <2>1
    <3>2. PICK s, x, t : s = cs[h - n + i] /\ x = os[h - n + i] /\ t = Params[f][i]
      OBVIOUS
    <3>3. fl[i] = s /\ new.locals[i] = x /\ locals_types(f)[i] = t
      BY <1>3, <1>17, <1>18, <1>19, <3>1, <3>2
    <3>4. PairOK(s, x, N + 1, gs, A)
      BY <1>5, <1>14, <1>15, <3>1, <3>2 DEF PairsOK
    <3>5. TypeOf(x) = t
      BY <1>1, <1>2, <1>3, <1>4, <3>1, <3>2 DEF OnTop
    <3>6. x.ty = t.ty
      BY <3>5 DEF TypeOf
    <3>7. LocalOK(s, x, t, N + 1, gs, A)
      BY <3>4, <3>5, <3>6 DEF LocalOK, PairOK, Exact
    <3> QED BY <3>3, <3>7
  <2>2. CASE i > n
    <3>1. i - n \in 1..Len(Locals[f]) /\ n + (i - n) = i
      BY <1>3, <1>19, <2>2
    <3>2. fl[i] = Unknown /\ new.locals[i] = NoValue
      BY <1>18, <1>19, <3>1
    <3> QED BY <3>2, UnknownFacts DEF LocalOK
  <2> QED BY <2>0, <2>1, <2>2
<1>21. FramesOK(concolic'.locals, call_stack', gs, A)
  <2> SUFFICES ASSUME NEW d \in 1..(N + 1), NEW i \in 1..Len(call_stack'[d].locals)
               PROVE  LocalOK(concolic'.locals[d][i], call_stack'[d].locals[i], locals_types(gs[d])[i], d, gs, A)
    BY <1>11 DEF FramesOK
  <2>1. CASE d = N + 1
    BY <1>9, <1>11, <1>12, <1>13, <1>20, <2>1
  <2>2. CASE d \in 1..N
    <3>1. /\ call_stack'[d] = call_stack[d] /\ concolic'.locals[d] = concolic.locals[d] /\ gs[d] = fs[d]
      BY <1>9, <1>11, <1>12, <1>13, <2>2
    <3>2. LocalOK(concolic.locals[d][i], call_stack[d].locals[i], locals_types(fs[d])[i], d, fs, A)
      BY <1>1, <1>15, <2>2, <3>1 DEF FramesOK
    <3>3. d \in Nat /\ d <= d /\ \A k \in 1..d : gs[k] = fs[k]
      BY <1>5, <1>12, <1>13, <2>2
    <3>4. \A s, x, t : LocalOK(s, x, t, d, fs, A) => LocalOK(s, x, t, d, gs, A)
      BY <3>3, Deeper
    <3> QED BY <3>1, <3>2, <3>4
  <2> QED BY <1>5, <2>1, <2>2
<1>22. concolic'.args # <<>> /\ Top(concolic'.args).fun = gs[1]
  <2>1. gs[1] = fs[1]
    BY <1>5, <1>12, <1>13
  <2> QED BY <1>8, <1>15, <2>1
<1> QED BY <1>1, <1>2, <1>4, <1>8, <1>11, <1>13, <1>16, <1>21, <1>22 DEF SymInv

\* A native call inside a function: nothing is known of its results.
LEMMA NativeCallSym ==
  ASSUME IInv, SymInv, NEW f \in Funs, NativeCall(f)
  PROVE  SymInv'
<1>1. PICK n, k, R, params, N, A : /\ n = Len(Params[f]) /\ k = Len(Returns[f]) /\ R = Returns[f]
                                   /\ params = Taken(operand_stack, n) /\ N = Len(call_stack) /\ A = Len(concolic.args)
  OBVIOUS
<1>2. /\ Running /\ Stay /\ f \in Native /\ OnTop(Params[f]) /\ call_stack' = call_stack
      /\ Shadow(on_close_frame_inner(on_open_frame_inner(concolic, f, params)))
  BY <1>1 DEF NativeCall, Step, Fetch
<1>3. n \in Nat /\ k \in Nat /\ DOMAIN R = 1..k /\ R \in Seq(Types) /\ k = Len(R)
  BY <1>1, Signature, ConstantsAssumption
<1>4. PICK vs \in [1..k -> Literals \cup {0}] :
        /\ \A i \in 1..k : vs[i] \in Fresh(R[i].ty)
        /\ operand_stack' = popped(operand_stack, n) \o [i \in 1..k |-> Value(R[i], vs[i])]
  BY <1>1, <1>3 DEF NativeCall
<1>5. PICK xs : xs = [i \in 1..k |-> Value(R[i], vs[i])]
  OBVIOUS
<1>6. Tuple(xs) /\ Len(xs) = k
  <2>1. xs = [i \in 1..k |-> xs[i]]
    BY <1>5
  <2> QED BY <1>3, <2>1, TupleIntro
<1>7. PICK cs, os, fs : cs = concolic.stack /\ os = operand_stack /\ fs = current_functions
  OBVIOUS
<1>8. ASSUME NEW j \in 1..Len(xs) PROVE ValOK(xs[j], N, fs)
  <2>1. j \in 1..k /\ R[j] \in Types
    BY <1>3, <1>6, ElementOfSeq
  <2>2. xs[j] = Value(R[j], vs[j]) /\ vs[j] \in Fresh(R[j].ty)
    BY <1>4, <1>5, <2>1
  <2> QED BY <2>1, <2>2, FreshValue
<1>9. /\ Aligned /\ Tuple(os) /\ Tuple(cs) /\ ShadowOK(concolic) /\ Len(cs) = Len(os) /\ Len(os) \in Nat
      /\ N \in Nat \ {0} /\ Len(concolic.locals) = N /\ Tuple(concolic.locals)
  BY <1>1, <1>2, <1>7, RunFacts DEF ShadowOK
<1>10. n <= Len(os)
  BY <1>1, <1>2, <1>3, <1>7, HasFacts DEF OnTop
<1>11. PICK r : r = on_open_frame_inner(concolic, f, params)
  OBVIOUS
<1>12. concolic' = on_close_frame_inner(r)
  BY <1>2, <1>9, <1>11 DEF Shadow
<1>13. Opened(concolic, f, r)
  <2>1. Len(concolic.locals) # 0 /\ Len(Params[f]) <= Len(concolic.stack)
    BY <1>1, <1>7, <1>9, <1>10
  <2> QED BY <1>9, <1>11, <2>1, NestedOpen
<1>14. PICK fl : /\ ShadowOK(r) /\ r.args = concolic.args /\ r.locals = Append(concolic.locals, fl)
                 /\ r.stack = popped(cs, n) \o Repeat(Unknown, k) /\ Len(r.locals) = N + 1
  <2>1. Results(f) = k
    BY <1>1, <1>2 DEF Results
  <2> QED BY <1>1, <1>7, <1>9, <1>13, <2>1 DEF Opened
<1>15. /\ concolic'.stack = r.stack /\ concolic'.args = concolic.args
       /\ \A d \in 1..N : concolic'.locals[d] = concolic.locals[d]
  <2>1. Len(r.locals) # 0 /\ Len(r.locals) - 1 = N
    BY <1>9, <1>14
  <2>2. /\ concolic'.stack = r.stack /\ concolic'.args = r.args
        /\ \A d \in 1..(Len(r.locals) - 1) : concolic'.locals[d] = r.locals[d]
    BY <1>12, <1>14, <2>1, CloseShadow, ZenonT(40)
  <2>3. \A d \in 1..N : r.locals[d] = concolic.locals[d]
    BY <1>9, <1>14, TupleAppend
  <2> QED BY <1>14, <2>1, <2>2, <2>3
<1>16. PairsOK(cs, os, N, fs, A) /\ FramesOK(concolic.locals, call_stack, fs, A)
       /\ concolic.args # <<>> /\ Top(concolic.args).fun = fs[1]
  BY <1>1, <1>2, <1>7, SymFacts
<1>17. PairsOK(popped(cs, n) \o Repeat(Unknown, k), popped(os, n) \o xs, N, fs, A)
  <2>1. n <= n /\ k = n - n + k
    BY <1>3
  <2>2. \A i \in (Len(os) - n + 1)..(Len(os) - n) : ~cs[i].known
    <3>1. PICK h : h = Len(os) - n
      OBVIOUS
    <3>2. h \in Int /\ \A i \in (h + 1)..h : FALSE
      BY <1>3, <1>9, <3>1
    <3> QED BY <3>1, <3>2
  <2> QED BY <1>3, <1>6, <1>8, <1>9, <1>10, <1>16, <2>1, <2>2, PairsLeave
<1>18. FramesOK(concolic'.locals, call_stack, fs, A)
  BY <1>1, <1>15, <1>16 DEF FramesOK
<1>19. current_functions' = fs /\ operand_stack' = popped(os, n) \o xs
  BY <1>2, <1>4, <1>5, <1>7 DEF Stay
<1> QED BY <1>1, <1>2, <1>14, <1>15, <1>16, <1>17, <1>18, <1>19 DEF SymInv

\* A return: no reference leads to a local of the frame that goes.
LEMMA RetSym ==
  ASSUME IInv, SymInv, Ret
  PROVE  SymInv'
<1>1. PICK N, A : N = Len(call_stack) /\ A = Len(concolic.args)
  OBVIOUS
<1>2. /\ pc = "running" /\ call_stack' = popped(call_stack, 1) /\ operand_stack' = operand_stack
      /\ current_functions' = popped(current_functions, 1)
      /\ pc' = IF N = 1 THEN "ready" ELSE "running"
      /\ \A i \in DOMAIN operand_stack, j \in DOMAIN me.locals : operand_stack[i].at # <<N, j>>
  BY <1>1 DEF Ret, Here
<1>3. /\ Tuple(call_stack) /\ N \in Nat /\ N # 0 /\ DOMAIN call_stack = 1..N /\ me = call_stack[N]
      /\ Tuple(current_functions) /\ Len(current_functions) = N
      /\ \A d \in 1..N : current_functions[d] = call_stack[d].fun
  <2>1. call_stack # <<>>
    BY <1>2 DEF IInv, MachineInv
  <2>2. N # 0
    BY <1>1, <2>1, CallsFacts, EmptySeq DEF Tuple
  <2> QED BY <1>1, <2>2, CallsFacts DEF me, Top
<1>4. CASE N = 1
  BY <1>2, <1>4 DEF SymInv
<1>5. CASE N # 1
  <2>1. me.fun \notin Native /\ FrameOK(me)
    BY <1>1, <1>3, <1>5 DEF IInv, MachineInv
  <2>2. /\ ShadowOK(concolic) /\ Len(concolic.locals) = N /\ Len(concolic.stack) = Len(operand_stack)
    BY <1>1, <1>2, <2>1 DEF IInv, ShadowInv
  <2>3. concolic' = on_close_frame_inner(concolic)
    <3>1. Aligned
      BY <2>2 DEF ShadowOK, Aligned
    <3> QED BY <3>1 DEF Ret
  <2>4. /\ concolic'.stack = concolic.stack /\ concolic'.args = concolic.args
        /\ \A d \in 1..(N - 1) : concolic'.locals[d] = concolic.locals[d]
    <3>1. Len(concolic.locals) # 0
      BY <1>3, <2>2
    <3>2. PICK c, e : c = concolic /\ e = concolic'
      OBVIOUS
    <3>3. /\ e.stack = c.stack /\ e.args = c.args
          /\ \A d \in 1..(Len(c.locals) - 1) : e.locals[d] = c.locals[d]
      BY <2>2, <2>3, <3>1, <3>2, CloseShadow
    <3> QED BY <2>2, <3>2, <3>3
  <2>5. PICK M : M = N - 1
    OBVIOUS
  <2>6. M \in Nat /\ M # 0 /\ N = M + 1 /\ M <= N
    BY <1>3, <1>5, <2>5
  <2>7. Len(call_stack') = M /\ \A d \in 1..M : call_stack'[d] = call_stack[d]
    <3>1. PICK st : st = call_stack
      OBVIOUS
    <3>2. Tuple(st) /\ 1 <= Len(st) /\ Len(st) - 1 = M
      BY <1>1, <1>3, <2>5, <3>1
    <3>3. Len(popped(st, 1)) = Len(st) - 1 /\ \A d \in 1..(Len(st) - 1) : popped(st, 1)[d] = st[d]
      BY <3>2, TuplePopped
    <3> QED BY <1>2, <3>1, <3>2, <3>3
  <2>8. \A d \in 1..M : current_functions'[d] = current_functions[d]
    <3>1. PICK st : st = current_functions
      OBVIOUS
    <3>2. Tuple(st) /\ 1 <= Len(st) /\ Len(st) - 1 = M
      BY <1>3, <2>5, <3>1
    <3>3. \A d \in 1..(Len(st) - 1) : popped(st, 1)[d] = st[d]
      BY <3>2, TuplePopped
    <3> QED BY <1>2, <3>1, <3>2, <3>3
  <2>9. PICK fs, gs, cs, os : fs = current_functions /\ gs = current_functions' /\ cs = concolic.stack /\ os = operand_stack
    OBVIOUS
  <2>10. /\ PairsOK(cs, os, N, fs, A) /\ FramesOK(concolic.locals, call_stack, fs, A)
         /\ concolic.args # <<>> /\ Top(concolic.args).fun = fs[1]
    BY <1>1, <1>2, <2>1, <2>9 DEF SymInv
  <2>11. DOMAIN me.locals = 1..Len(locals_types(fs[N]))
    <3>1. fs[N] = me.fun /\ me.fun \in Funs /\ Tuple(me.locals) /\ Len(me.locals) = Len(Params[me.fun]) + Len(Locals[me.fun])
      BY <1>3, <2>1, <2>9 DEF FrameOK
    <3>2. PICK ls, g : ls = me.locals /\ g = me.fun
      OBVIOUS
    <3>3. DOMAIN ls = 1..Len(ls)
      BY <3>1, <3>2, TupleFacts
    <3>4. Len(locals_types(g)) = Len(Params[g]) + Len(Locals[g])
      BY <2>1, <3>1, <3>2, Signature
    <3> QED BY <3>1, <3>2, <3>3, <3>4
  <2>12. DOMAIN os = 1..Len(os)
    BY <2>9, TupleFacts DEF IInv, MachineInv
  <2>13. ASSUME NEW i \in 1..Len(os) PROVE PairOK(cs[i], os[i], M, gs, A)
    <3>1. PICK x : x = os[i]
      OBVIOUS
    <3>2. SymOK(cs[i], A) /\ ValOK(x, N, fs) /\ Exact(cs[i], x)
      BY <2>10, <3>1 DEF PairsOK, PairOK
    <3>3. ASSUME x.at # <<>>
          PROVE  /\ x.ref
                 /\ \E k \in 1..M : \E j \in 1..Len(locals_types(gs[k])) :
                      x.at = <<k, j>> /\ locals_types(gs[k])[j] = Val(x.ty)
      <4>1. PICK k \in 1..N : \E j \in 1..Len(locals_types(fs[k])) : x.at = <<k, j>> /\ locals_types(fs[k])[j] = Val(x.ty)
        BY <3>2, <3>3 DEF ValOK
      <4>2. PICK j \in 1..Len(locals_types(fs[k])) : x.at = <<k, j>> /\ locals_types(fs[k])[j] = Val(x.ty)
        BY <4>1
      <4>3. k # N
        BY <1>2, <2>9, <2>11, <2>12, <3>1, <4>2
      <4>4. k \in 1..M
        BY <2>6, <4>3
      <4>5. gs[k] = fs[k]
        BY <2>8, <2>9, <4>4
      <4> QED BY <3>2, <3>3, <4>2, <4>4, <4>5 DEF ValOK
    <3>4. ValOK(x, M, gs)
      BY <3>2, <3>3 DEF ValOK
    <3> QED BY <3>1, <3>2, <3>4 DEF PairOK
  <2>14. PairsOK(concolic'.stack, operand_stack', M, gs, A)
    BY <1>2, <2>4, <2>9, <2>13 DEF PairsOK
  <2>15. FramesOK(concolic'.locals, call_stack', gs, A)
    <3> SUFFICES ASSUME NEW d \in 1..M, NEW i \in 1..Len(call_stack'[d].locals)
                 PROVE  LocalOK(concolic'.locals[d][i], call_stack'[d].locals[i], locals_types(gs[d])[i], d, gs, A)
      BY <2>7 DEF FramesOK
    <3>1. /\ call_stack'[d] = call_stack[d] /\ concolic'.locals[d] = concolic.locals[d] /\ gs[d] = fs[d] /\ d \in 1..N
      BY <2>4, <2>5, <2>6, <2>7, <2>8, <2>9
    <3>2. LocalOK(concolic.locals[d][i], call_stack[d].locals[i], locals_types(fs[d])[i], d, fs, A)
      BY <1>1, <2>10, <3>1 DEF FramesOK
    <3>3. d \in Nat /\ d <= d /\ \A k \in 1..d : gs[k] = fs[k]
      BY <2>6, <2>8, <2>9
    <3>4. \A s, x, t : LocalOK(s, x, t, d, fs, A) => LocalOK(s, x, t, d, gs, A)
      BY <3>3, Deeper
    <3> QED BY <3>1, <3>2, <3>4
  <2>16. concolic'.args # <<>> /\ Top(concolic'.args).fun = gs[1]
    <3>1. gs[1] = fs[1]
      BY <2>6, <2>8, <2>9
    <3> QED BY <2>4, <2>10, <3>1
  <2> QED BY <1>1, <2>4, <2>7, <2>9, <2>14, <2>15, <2>16 DEF SymInv
<1> QED BY <1>4, <1>5

\* The symbol an argument starts with.
LEMMA ResolveOK ==
  ASSUME NEW m \in Nat, NEW i, NEW t \in Types, NEW x, NEW d, NEW fs,
         x = NoValue \/ \E v \in RangeOf(t.ty) : x = Value(t, v)
  PROVE  LocalOK(resolve_arg(m, i, t, x), x, t, d, fs, m + 1)
<1>1. PICK s : s = resolve_arg(m, i, t, x)
  OBVIOUS
<1>2. x # NoValue => ValOK(x, d, fs) /\ TypeOf(x) = t
  BY ValueFacts
<1>3. CASE ~t.ref /\ t.ty \in Prim
  <2>1. PICK names, so : names = {<<m, i>>} /\ so = (x # NoValue)
    OBVIOUS
  <2>2. s = Known(x.v, names, so)
    BY <1>1, <1>3, <2>1 DEF resolve_arg
  <2>3. \A y \in names : y[1] + 1 = m + 1
    BY <2>1
  <2>4. SymOK(s, m + 1) /\ (so => s.val = x.v)
    BY <2>2, <2>3, KnownFacts
  <2>5. LocalOK(s, x, t, d, fs, m + 1)
    BY <1>2, <1>3, <2>1, <2>4 DEF LocalOK
  <2> QED BY <1>1, <2>5
<1>4. CASE ~(~t.ref /\ t.ty \in Prim)
  <2>1. s = Unknown
    BY <1>1, <1>4 DEF resolve_arg
  <2>2. LocalOK(s, x, t, d, fs, m + 1)
    BY <1>2, <2>1, UnknownFacts DEF LocalOK
  <2> QED BY <1>1, <2>2
<1> QED BY <1>3, <1>4

\* A command starts with its arguments as inputs.
LEMMA MoveCallSym ==
  ASSUME IInv, move_call
  PROVE  SymInv'
<1>1. PICK f, params :
        /\ f \in Funs /\ f = program[cmd + 1] /\ pc = "ready" /\ pc' = "running"
        /\ Tuple(params) /\ Len(params) = Len(Params[f]) /\ Started(concolic, f, params, concolic')
        /\ \A i \in 1..Len(Params[f]) : \E v \in RangeOf(Params[f][i].ty) : params[i] = Value(Params[f][i], v)
        /\ call_stack' = <<Frame(f, params, 0)>> /\ operand_stack' = <<>>
        /\ current_functions' = Append(current_functions, f) /\ tree' = open_frame_inner(tree, f)
  BY MoveCallSteps
<1>2. PICK new, m : new = Frame(f, params, 0) /\ m = Len(concolic.args)
  OBVIOUS
<1>3. FrameOf(f, params, new)
  BY <1>1, <1>2, NewLocals
<1>4. Len(call_stack') = 1 /\ call_stack'[1] = new /\ me' = new /\ new.fun = f
  BY <1>1, <1>2, <1>3 DEF me, Top, FrameOf
<1>5. current_functions'[1] = f
  <2>1. call_stack = <<>>
    BY <1>1 DEF IInv, MachineInv
  <2>2. Len(current_functions) = 0 /\ Tuple(current_functions)
    BY <2>1, CallsFacts, EmptySeq
  <2>3. current_functions = <<>>
    BY <2>2, EmptySeq DEF Tuple
  <2> QED BY <1>1, <2>3
<1>6. Tuple(concolic.args) /\ m \in Nat
  BY <1>2, TupleFacts DEF IInv, ShadowInv, ShadowOK
<1>7. /\ Len(concolic'.args) = m + 1 /\ concolic'.args # <<>> /\ Top(concolic'.args).fun = f
  <2>1. PICK ps, rec : concolic'.args = Append(concolic.args, rec) /\ rec = [fun |-> f, params |-> ps]
    BY <1>1 DEF Started
  <2>2. /\ Tuple(concolic'.args) /\ Len(concolic'.args) = m + 1 /\ concolic'.args[m + 1] = rec
    BY <1>2, <1>6, <2>1, TupleAppend
  <2>3. concolic'.args # <<>>
    BY <1>6, <2>2, EmptySeq
  <2>4. rec.fun = f
    BY <2>1
  <2> QED BY <2>2, <2>3, <2>4 DEF Top
<1>8. PairsOK(concolic'.stack, operand_stack', 1, current_functions', m + 1)
  <2>1. Len(operand_stack') = 0
    BY <1>1, EmptySeq
  <2>2. \A i \in 1..0 : FALSE
    OBVIOUS
  <2> QED BY <2>1, <2>2 DEF PairsOK
<1>9. ASSUME f \notin Native PROVE FramesOK(concolic'.locals, call_stack', current_functions', m + 1)
  <2>1. /\ Len(Params[f]) \in Nat /\ Len(Locals[f]) \in Nat
        /\ Len(locals_types(f)) = Len(Params[f]) + Len(Locals[f])
        /\ \A i \in 1..Len(Params[f]) : locals_types(f)[i] = Params[f][i]
        /\ \A i \in 1..Len(Locals[f]) : locals_types(f)[Len(Params[f]) + i] = Locals[f][i]
    BY <1>1, <1>9, Signature
  <2>2. Params[f] \in Seq(Types) /\ Locals[f] \in Seq(Types)
    BY <1>1, ConstantsAssumption
  <2>3. new.locals = params \o Repeat(NoValue, Len(Locals[f]))
    BY <1>2 DEF Frame
  <2>4. PICK gs : gs = current_functions'
    OBVIOUS
  <2>5. ASSUME NEW i \in 1..Len(new.locals)
        PROVE  LocalOK(concolic'.locals[1][i], new.locals[i], locals_types(f)[i], 1, gs, m + 1)
    <3>1. PICK x, t, h : x = new.locals[i] /\ t = locals_types(f)[i] /\ h = Len(Params[f])
      OBVIOUS
    <3>2. PICK q \in Nat : q = Len(Locals[f])
      BY <2>1
    <3>3. Len(new.locals) = h + q /\ Len(locals_types(f)) = h + q /\ h \in Nat
      BY <1>1, <1>3, <2>1, <3>1, <3>2 DEF FrameOf
    <3>4. i \in 1..(h + q)
      BY <2>5, <3>3
    <3>5. i \in Nat /\ (i <= h \/ i > h) /\ (i > h => i - h \in 1..q /\ h + (i - h) = i)
      BY <3>2, <3>3, <3>4
    <3>6. i \in 1..Len(locals_types(f))
      BY <3>3, <3>4
    <3>7. concolic'.locals[1][i] = resolve_arg(m, i, t, x)
      BY <1>1, <1>2, <1>9, <2>3, <3>1, <3>6 DEF Started
    <3>8. t \in Types /\ (x = NoValue \/ \E v \in RangeOf(t.ty) : x = Value(t, v))
      <4>1. CASE i <= h
        <5>1. i \in 1..Len(Params[f])
          BY <3>1, <3>3, <3>4, <4>1
        <5>2. t = Params[f][i] /\ x = params[i]
          BY <1>3, <2>1, <3>1, <5>1 DEF FrameOf
        <5>3. t \in Types
          BY <2>2, <5>1, <5>2, ElementOfSeq
        <5> QED BY <1>1, <5>1, <5>2, <5>3
      <4>2. CASE i > h
        <5>1. i - h \in 1..Len(Locals[f]) /\ h + (i - h) = i
          BY <3>2, <3>5, <4>2
        <5>2. t = Locals[f][i - h] /\ x = NoValue
          <6>1. PICK k : k = i - h
            OBVIOUS
          <6>2. k \in 1..Len(Locals[f]) /\ h + k = i
            BY <5>1, <6>1
          <6>3. t = Locals[f][k]
            BY <2>1, <3>1, <6>2
          <6>4. x = NoValue
            BY <1>3, <3>1, <6>2 DEF FrameOf
          <6> QED BY <6>1, <6>3, <6>4
        <5>3. t \in Types
          BY <2>2, <5>1, <5>2, ElementOfSeq
        <5> QED BY <5>2, <5>3
      <4> QED BY <3>5, <4>1, <4>2
    <3>9. LocalOK(resolve_arg(m, i, t, x), x, t, 1, gs, m + 1)
      BY <1>6, <3>8, ResolveOK
    <3> QED BY <3>1, <3>7, <3>9
  <2>6. \A d \in 1..1 : d = 1
    OBVIOUS
  <2> QED BY <1>4, <1>5, <2>4, <2>5, <2>6 DEF FramesOK
<1> QED BY <1>1, <1>4, <1>5, <1>7, <1>8, <1>9 DEF SymInv

\* Every step keeps the invariant of the symbols.
LEMMA SymStep ==
  ASSUME IInv, SymInv, Widths, [Next]_vars
  PROVE  SymInv'
<1>1. CASE move_call
  BY <1>1, MoveCallSym
<1>2. CASE Ret
  BY <1>2, RetSym
<1>3. CASE Instruction
  <2>1. CASE \E op \in Counted : counted(op)
    BY <2>1, CountedSym
  <2>2. CASE Pop \/ ReadRef \/ Abort \/ \E ty \in {"u8", "u16"} : Cast(ty)
    BY <2>2, TakingSym
  <2>3. CASE WriteRef \/ \E i : MoveLoc(i) \/ StLoc(i)
    BY <2>3, StoringSym
  <2>4. CASE \/ \E b \in {0, 1} : LdBool(b)
             \/ Not
             \/ \E op \in ArithOps : Arith(op)
             \/ \E op \in BitOps : BitOp(op)
             \/ \E op \in ShiftOps : Shift(op)
             \/ \E op \in CmpOps : Compare(op)
    BY <2>4, ComputingSym
  <2>5. CASE \E i : CopyLoc(i) \/ BorrowLoc(i)
    BY <2>5, CopyingSym
  <2>6. CASE \E f \in Funs : Call(f) \/ NativeCall(f)
    BY <2>6, CallSym, NativeCallSym
  <2> QED BY <1>3, <2>1, <2>2, <2>3, <2>4, <2>5, <2>6 DEF Instruction
<1>4. CASE other_command \/ end_of_program \/ mutate \/ UNCHANGED vars
  <2>1. /\ UNCHANGED <<operand_stack, call_stack, concolic, current_functions>>
        /\ pc' = pc \/ pc' # "running"
    BY <1>4 DEF other_command, end_of_program, mutate, solve_arg, machine, vars
  <2> QED BY <2>1 DEF SymInv, me, Top
<1> QED BY <1>1, <1>2, <1>3, <1>4 DEF Next

-----------------------------------------------------------------------------
(* The symbols and the path condition.                                      *)

\* Whatever verified code runs, a known symbol stands for a primitive value or a
\* reference to one, and has the machine's value under the executed inputs unless
\* it comes from a comparison that came out false or a local written through a
\* reference.  At the widths used, the masks must be what the machine computes.
THEOREM SymbolsAlwaysExact ==
  ASSUME \A ty \in Prim : MasksExact(Bits[ty])
  PROVE  Spec => []SymbolsExact
<1>0. Widths
  BY DEF Widths
<1>1. Init => IInv /\ SymInv
  <2> SUFFICES ASSUME Init PROVE SymInv
    BY InitInv
  <2>1. pc = "ready"
    BY DEF Init
  <2> QED BY <2>1 DEF SymInv
<1>2. IInv /\ SymInv /\ [Next]_vars => (IInv /\ SymInv)'
  BY <1>0, StepInv, SymStep
<1>3. IInv /\ SymInv => SymbolsExact
  <2> SUFFICES ASSUME IInv, SymInv, pc = "running", me.fun \notin Native
               PROVE  /\ \A i \in DOMAIN operand_stack : Exact(concolic.stack[i], operand_stack[i])
                      /\ \A d \in DOMAIN call_stack : \A i \in DOMAIN call_stack[d].locals :
                           call_stack[d].locals[i] # NoValue => Exact(concolic.locals[d][i], call_stack[d].locals[i])
    BY DEF SymbolsExact
  <2>1. /\ PairsOK(concolic.stack, operand_stack, Len(call_stack), current_functions, Len(concolic.args))
        /\ FramesOK(concolic.locals, call_stack, current_functions, Len(concolic.args))
    BY DEF SymInv
  <2>2. ASSUME NEW i \in DOMAIN operand_stack PROVE Exact(concolic.stack[i], operand_stack[i])
    <3>1. i \in 1..Len(operand_stack)
      BY TupleFacts DEF IInv, MachineInv
    <3> QED BY <2>1, <3>1 DEF PairsOK, PairOK
  <2>3. ASSUME NEW d \in DOMAIN call_stack, NEW i \in DOMAIN call_stack[d].locals, call_stack[d].locals[i] # NoValue
        PROVE  Exact(concolic.locals[d][i], call_stack[d].locals[i])
    <3>1. d \in 1..Len(call_stack) /\ Tuple(call_stack[d].locals)
      BY CallsFacts DEF IInv, MachineInv, FrameOK
    <3>2. PICK ls : ls = call_stack[d].locals
      OBVIOUS
    <3>3. i \in 1..Len(ls)
      BY <3>1, <3>2, TupleFacts
    <3>4. PICK s, x, t, fs, n : /\ s = concolic.locals[d][i] /\ x = ls[i] /\ fs = current_functions
                                /\ t = locals_types(fs[d])[i] /\ n = Len(concolic.args)
      OBVIOUS
    <3>5. LocalOK(s, x, t, d, fs, n)
      BY <2>1, <3>1, <3>2, <3>3, <3>4 DEF FramesOK
    <3>6. PairOK(s, x, d, fs, n)
      BY <2>3, <3>2, <3>4, <3>5, LocalPair
    <3> QED BY <3>2, <3>4, <3>6 DEF PairOK
  <2> QED BY <2>2, <2>3
<1> QED BY <1>1, <1>2, <1>3, PTL DEF Spec

\* A constraint that is logged with inputs of the running command, and that holds
\* when it can be relied on.
LEMMA LogKeeps ==
  ASSUME IInv, Running, SymInv, PathHolds, concolic'.args = concolic.args,
         NEW op, NEW outcome, NEW s, NEW holds, Log(op, outcome, s, holds),
         \A x \in s.vars : x[1] + 1 = Len(concolic.args),
         s.known /\ s.sound /\ op # "Shl" /\ ~(op = "Neq" /\ ~outcome) => (holds <=> (op = "Cast" => outcome))
  PROVE  PathHolds'
<1>1. PICK e : e = [fun |-> current_functions[1], op |-> op, outcome |-> outcome,
                    vars |-> s.vars, sound |-> s.sound, holds |-> holds]
  OBVIOUS
<1>2. logs' = logs \/ (logs' = logs \cup {e} /\ s.known)
  BY <1>1 DEF Log
<1>3. /\ e.fun = current_functions[1] /\ e.op = op /\ e.outcome = outcome
      /\ e.vars = s.vars /\ e.sound = s.sound /\ e.holds = holds
  BY <1>1
<1>4. PICK as, n : as = concolic.args /\ n = Len(as)
  OBVIOUS
<1>5. as # <<>> /\ as[n].fun = current_functions[1] /\ Tuple(as)
  BY <1>4, SymFacts, RunFacts DEF Top, ShadowOK
<1>6. n \in DOMAIN as
  <2>1. n \in Nat /\ DOMAIN as = 1..n
    BY <1>4, <1>5, TupleFacts
  <2>2. n # 0
    BY <1>4, <1>5, EmptySeq DEF Tuple
  <2> QED BY <2>1, <2>2
<1>7. \A x \in e.vars : x[1] + 1 \in DOMAIN as /\ as[x[1] + 1].fun = e.fun
  BY <1>3, <1>4, <1>5, <1>6
<1>8. s.known /\ e.sound /\ e.op # "Shl" /\ ~(e.op = "Neq" /\ ~e.outcome) => (e.holds <=> (e.op = "Cast" => e.outcome))
  BY <1>3
<1> QED BY <1>2, <1>4, <1>7, <1>8 DEF PathHolds

\* Every step keeps the constraints true of the executed inputs.
LEMMA PathStep ==
  ASSUME IInv, SymInv, Widths, PathHolds, [Next]_vars
  PROVE  PathHolds'
<1>0. move_call \/ concolic'.args = concolic.args
  BY StepInv
<1>1. CASE logs' = logs
  <2>1. CASE concolic'.args = concolic.args
    BY <1>1, <2>1 DEF PathHolds
  <2>2. CASE move_call
    <3>1. PICK ps : concolic'.args = Append(concolic.args, ps)
      BY <2>2, MoveCallArgs
    <3>2. PICK as, bs : as = concolic.args /\ bs = concolic'.args
      OBVIOUS
    <3>3. Tuple(as)
      BY <3>2 DEF IInv, ShadowInv, ShadowOK
    <3>4. /\ Tuple(bs) /\ Len(bs) = Len(as) + 1 /\ \A i \in 1..Len(as) : bs[i] = as[i]
      BY <3>1, <3>2, <3>3, TupleAppend
    <3>5. DOMAIN as = 1..Len(as) /\ DOMAIN bs = 1..(Len(as) + 1) /\ Len(as) \in Nat
      BY <3>3, <3>4, TupleFacts
    <3>6. \A i \in DOMAIN as : i \in DOMAIN bs /\ bs[i] = as[i]
      <4>1. PICK k \in Nat : k = Len(as)
        BY <3>5
      <4>2. \A i \in 1..k : i \in 1..(k + 1)
        OBVIOUS
      <4> QED BY <3>4, <3>5, <4>1, <4>2
    <3> QED BY <1>1, <3>2, <3>6 DEF PathHolds
  <2> QED BY <1>0, <2>1, <2>2
<1>2. PICK a, b, l, r, D, F, n : /\ a = Under(concolic.stack) /\ b = Top(concolic.stack)
                                 /\ l = Under(operand_stack) /\ r = Top(operand_stack)
                                 /\ D = Len(call_stack) /\ F = current_functions /\ n = Len(concolic.args)
  OBVIOUS
<1>3. ASSUME NEW ty \in {"u8", "u16"}, Cast(ty) PROVE PathHolds'
  <2>1. /\ Running /\ Has(1) /\ ~r.ref /\ r.ty \in Prim
        /\ Log("Cast", r.v \in RangeOf(ty), b, b.val <= 2^Bits[ty] - 1)
    BY <1>2, <1>3 DEF Cast, Step, Fetch
  <2>2. PairOK(b, r, D, F, n)
    BY <1>2, <2>1, TopPairs
  <2>3. concolic'.args = concolic.args
    BY <1>3, TakingQuiet DEF QuietStep
  <2>4. PICK m, w : m = 2^Bits[ty] - 1 /\ w = 2^Bits[r.ty]
    OBVIOUS
  <2>5. ty \in Prim /\ RangeOf(ty) = 0..m /\ RangeOf(r.ty) = 0..(w - 1)
    BY <2>1, <2>4, ConstantsAssumption DEF RangeOf
  <2>6. r.v \in Nat /\ m \in Int
    <3>1. Bits[ty] \in 0..Bits[ty] /\ Bits[r.ty] \in 0..Bits[r.ty]
      BY <2>1, <2>5, ConstantsAssumption
    <3>2. 2^Bits[ty] \in Nat /\ w \in Nat
      BY <2>1, <2>4, <2>5, <3>1 DEF Widths, MasksExact
    <3>3. r.v \in 0..(w - 1)
      BY <2>1, <2>2, <2>5 DEF PairOK, ValOK
    <3> QED BY <2>4, <3>2, <3>3
  <2>7. PICK outcome, holds : outcome = (r.v \in RangeOf(ty)) /\ holds = (b.val <= m)
    OBVIOUS
  <2>8. b.known /\ b.sound => (holds <=> outcome)
    <3>1. b.known /\ b.sound => b.val = r.v
      BY <2>2 DEF PairOK, Exact
    <3> QED BY <2>5, <2>6, <2>7, <3>1
  <2>9. Log("Cast", outcome, b, holds)
    BY <2>1, <2>4, <2>7
  <2>10. \A x \in b.vars : x[1] + 1 = Len(concolic.args)
    BY <1>2, <2>2 DEF PairOK, SymOK
  <2> QED BY <2>1, <2>3, <2>8, <2>9, <2>10, LogKeeps
<1>4. ASSUME NEW op \in ShiftOps, Shift(op) PROVE PathHolds'
  <2>1. Running /\ Has(2)
    BY <1>4 DEF Shift, Step, Fetch
  <2>2. PairOK(a, l, D, F, n)
    BY <1>2, <2>1, TopPairs
  <2>3. concolic'.args = concolic.args
    BY <1>4, ReplacingQuiet DEF QuietStep
  <2>4. CASE op = "Shl"
    <3>1. PICK s, holds : s = shift_symbol(op, a, b, l, r) /\ holds = (a.val * 2^r.v > 2^Bits[l.ty] - 1)
      OBVIOUS
    <3>2. Log("Shl", TRUE, s, holds)
      BY <1>2, <1>4, <2>4, <3>1 DEF Shift
    <3>3. s.vars \subseteq a.vars
      BY <3>1 DEF shift_symbol, Known, Unknown
    <3>4. \A x \in s.vars : x[1] + 1 = Len(concolic.args)
      BY <1>2, <2>2, <3>3 DEF PairOK, SymOK
    <3> QED BY <2>1, <2>3, <3>2, <3>4, LogKeeps
  <2>5. CASE op # "Shl"
    BY <1>1, <1>4, <2>5 DEF Shift
  <2> QED BY <2>4, <2>5
<1>5. ASSUME NEW op \in CmpOps, Compare(op) PROVE PathHolds'
  <2>1. Running /\ Has(2)
    BY <1>5 DEF Compare, TwoOf, Step, Fetch
  <2>2. PairOK(a, l, D, F, n) /\ PairOK(b, r, D, F, n)
    BY <1>2, <2>1, TopPairs
  <2>3. concolic'.args = concolic.args
    BY <1>5, ReplacingQuiet DEF QuietStep
  <2>4. PICK c, so, s, outcome, holds :
          /\ c = cmp_symbol(op, a, b, l, r) /\ so = (a.sound /\ b.sound) /\ s = [c EXCEPT !.sound = so]
          /\ outcome = Holds(op, l.v, r.v) /\ holds = cmp_constraint(op, a, b, l, r)
    OBVIOUS
  <2>5. Log(op, outcome, s, holds)
    BY <1>2, <1>5, <2>4 DEF Compare
  <2>6. c.vars \subseteq a.vars \cup b.vars /\ c = [known |-> c.known, val |-> c.val, vars |-> c.vars, sound |-> c.sound]
    <3>1. CASE a.known \/ b.known
      <4>1. \E u, x : c = Known(u, a.vars \cup b.vars, x)
        BY <2>4, <3>1 DEF cmp_symbol
      <4> QED BY <4>1 DEF Known
    <3>2. CASE ~(a.known \/ b.known)
      BY <2>4, <3>2 DEF cmp_symbol, Unknown
    <3> QED BY <3>1, <3>2
  <2>7. s.vars = c.vars /\ s.sound = so
    BY <2>4, <2>6
  <2>8. \A x \in s.vars : x[1] + 1 = Len(concolic.args)
    BY <1>2, <2>2, <2>6, <2>7 DEF PairOK, SymOK
  <2>9. s.sound /\ ~(op = "Neq" /\ ~outcome) => holds
    <3>1. so => Took(op, a, b, l, r)
      BY <2>2, <2>4, TookTrue
    <3> QED BY <2>4, <2>7, <3>1 DEF cmp_constraint
  <2>10. op # "Cast"
    BY DEF CmpOps
  <2> QED BY <2>1, <2>3, <2>5, <2>8, <2>9, <2>10, LogKeeps
<1>6. CASE /\ ~\E ty \in {"u8", "u16"} : Cast(ty)
           /\ ~\E op \in ShiftOps : Shift(op)
           /\ ~\E op \in CmpOps : Compare(op)
  <2>1. logs' = logs
    BY <1>6, ZenonT(40) DEF Next, vars, move_call, other_command, end_of_program, Instruction, Ret, mutate, counted, LdBool,
           Pop, Not, ReadRef, WriteRef, Abort, Arith, BitOp, CopyLoc, BorrowLoc, MoveLoc, StLoc, Call, NativeCall
  <2> QED BY <1>1, <2>1
<1> QED BY <1>3, <1>4, <1>5, <1>6

\* The constraints logged are a path condition of the execution, for any verified
\* code: they are about inputs of commands that call the function they are logged
\* for, and the executed inputs satisfy those of comparisons and casts; the
\* exceptions are the ones PathHolds names.
THEOREM PathAlwaysHolds ==
  ASSUME \A ty \in Prim : MasksExact(Bits[ty])
  PROVE  Spec => []PathHolds
<1>0. Widths
  BY DEF Widths
<1>1. Init => IInv /\ SymInv /\ PathHolds
  <2> SUFFICES ASSUME Init PROVE SymInv /\ PathHolds
    BY InitInv
  <2>1. pc = "ready" /\ logs = {}
    BY DEF Init
  <2> QED BY <2>1 DEF SymInv, PathHolds
<1>2. IInv /\ SymInv /\ PathHolds /\ [Next]_vars => (IInv /\ SymInv /\ PathHolds)'
  BY <1>0, StepInv, SymStep, PathStep
<1> QED BY <1>1, <1>2, PTL DEF Spec
=============================================================================
