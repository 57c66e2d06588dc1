--------------------------- MODULE ConcolicTracer ---------------------------
(***************************************************************************)
(* The tracers that follow an execution of the Move VM (movy-replay        *)
(* tracer/): the reconstructed machine (state.rs), the concolic shadow of  *)
(* it (concolic.rs) with its logs (fuzz.rs, op.rs, extra.rs), the call tree *)
(* (tree.rs), and the mutator that solves the logged constraints           *)
(* (movy-fuzz mutators/arg.rs, solver.rs).                                 *)
(*                                                                         *)
(* A symbol is an expression over the inputs.  It is kept as its value     *)
(* under the inputs of this execution, the input variables it mentions and *)
(* a ghost that says whether that value can be relied on.  The VM and the  *)
(* bytecode verifier are external: they fix which instructions may follow  *)
(* and what they do to the operand stack.  Any verified code is run: the   *)
(* model picks an instruction that fits the stack, up to MaxInstr of them. *)
(***************************************************************************)
EXTENDS Integers, Sequences, FiniteSets, FiniteSetsExt

CONSTANTS
  Funs, Params, Locals, Returns, Native,  \* functions and the types they use
  Programs, Other,    \* command sequences; Other: a command that calls nothing
  Bits,               \* width of the primitive types
  Literals,           \* values the VM takes from code and from objects
  MaxInstr, MaxStack, MaxDepth,
  OwnSequence         \* solve for the traced sequence, or for one it came from

Prim == DOMAIN Bits
Val(ty) == [ty |-> ty, ref |-> FALSE]
Ref(ty) == [ty |-> ty, ref |-> TRUE]
RangeOf(ty) == IF ty \in Prim THEN 0..(2^Bits[ty] - 1) ELSE {0}
Fresh(ty) == RangeOf(ty) \cap (Literals \cup {0})

Types == [ty : Prim \cup {"obj", "vec"}, ref : BOOLEAN]

\* A native function has no code and so no locals of its own.  The sequences of the
\* fuzzer have calls, and after the last one a TransferObjects (process_key_store).
ASSUME ConstantsAssumption ==
  /\ Native \subseteq Funs /\ Other \notin Funs
  /\ Bits \in [Prim -> Nat \ {0}] /\ {"bool", "u8", "u16"} = Prim /\ Bits["bool"] = 1
  /\ Literals \subseteq Nat
  /\ \A f \in Funs : {Params[f], Locals[f], Returns[f]} \subseteq Seq(Types)
  /\ \A f \in Funs : \A i \in DOMAIN Locals[f] : ~Locals[f][i].ref
  /\ \A f \in Native : Locals[f] = <<>>
  /\ Programs \subseteq Seq(Funs \cup {Other})
  /\ \A p \in Programs : \A i \in DOMAIN p : p[i] = Other => i = Len(p)
  /\ MaxInstr \in Nat /\ MaxStack \in Nat /\ MaxDepth \in Nat /\ OwnSequence \in BOOLEAN

VARIABLES
  program, cmd,       \* the traced command sequence, commands started
  pc,                 \* "ready" between commands, "running", then how it ended
  operand_stack, call_stack,  \* TraceState
  concolic,           \* ConcolicState
  current_functions,  \* of the fuzz tracer
  tree,               \* calls, call_idxs and error_call_idxs of the call tree
  logs,               \* constraints by outermost function
  fuel                \* instructions left

machine == <<operand_stack, call_stack>>
vars == <<program, cmd, pc, machine, concolic, current_functions, tree, logs, fuel>>

-----------------------------------------------------------------------------
(* Stacks and values.                                                       *)

NoValue == [ty |-> "none", ref |-> FALSE, v |-> 0, at |-> <<>>]
Value(t, v) == [ty |-> t.ty, ref |-> t.ref, v |-> v, at |-> <<>>]
TypeOf(x) == [ty |-> x.ty, ref |-> x.ref]

Top(s) == s[Len(s)]
Under(s) == s[Len(s) - 1]
popped(s, n) == SubSeq(s, 1, IF n <= Len(s) THEN Len(s) - n ELSE 0)
Taken(s, n) == SubSeq(s, Len(s) - n + 1, Len(s))
Repeat(x, n) == [i \in 1..n |-> x]
\* SymbolValue.
Unknown == [known |-> FALSE, val |-> 0, vars |-> {}, sound |-> TRUE]
Known(val, names, sound) == [known |-> TRUE, val |-> IF sound THEN val ELSE 0, vars |-> names, sound |-> sound]
Constant(x) == Known(x.v, {}, TRUE)
Untrusted(s) == IF s.known THEN [s EXCEPT !.val = 0, !.sound = FALSE] ELSE s

NoError == <<>>
Init ==
  /\ program \in Programs /\ cmd = 0 /\ pc = "ready"
  /\ operand_stack = <<>> /\ call_stack = <<>>
  /\ concolic = [stack |-> <<>>, locals |-> <<>>, args |-> <<>>, disable |-> FALSE]
  /\ current_functions = <<>>
  /\ tree = [calls |-> {}, call_idxs |-> <<>>, error |-> NoError]
  /\ logs = {} /\ fuel = MaxInstr

-----------------------------------------------------------------------------
(* Bit operations with a constant, on integers.                             *)

bit(x, i) == (x \div 2^i) % 2
int_mod_2n(x, bits) == x % 2^bits

\* Maximal runs a..b of ones in the mask.
runs(mask, bits) ==
  {r \in (0..(bits - 1)) \X (0..(bits - 1)) :
     /\ r[1] <= r[2] /\ \A i \in r[1]..r[2] : bit(mask, i) = 1
     /\ r[1] > 0 => bit(mask, r[1] - 1) = 0
     /\ r[2] < bits - 1 => bit(mask, r[2] + 1) = 0}

int_bvand_const(x, mask, bits) ==
  MapThenSumSet(LAMBDA r : (((int_mod_2n(x, bits) % 2^(r[2] + 1)) \div 2^r[1])
                              % 2^(r[2] - r[1] + 1)) * 2^r[1],
                runs(mask % 2^bits, bits))
not_mask(mask, bits) == 2^bits - 1 - (mask % 2^bits)
int_bvor_const(x, mask, bits) == int_bvand_const(x, not_mask(mask, bits), bits) + (mask % 2^bits)
int_bvnot(x, bits) == 2^bits - 1 - int_mod_2n(x, bits)
int_bvxor_const(x, mask, bits) ==
  int_mod_2n(int_bvand_const(x, not_mask(mask, bits), bits)
               + int_bvand_const(int_bvnot(x, bits), mask % 2^bits, bits), bits)

-----------------------------------------------------------------------------
(* The VM's arithmetic (external).                                          *)

ArithOps == {"Add", "Sub", "Mul", "Div", "Mod"}
BitOps == {"And", "Or", "Xor"}
ShiftOps == {"Shl", "Shr"}
CmpOps == {"Eq", "Neq", "Lt", "Le", "Gt", "Ge"}

Compute(op, l, r) ==
  CASE op = "Add" -> l + r [] op = "Sub" -> l - r [] op = "Mul" -> l * r
    [] op = "Div" -> IF r = 0 THEN 0 ELSE l \div r
    [] op = "Mod" -> IF r = 0 THEN 0 ELSE l % r

ArithFails(op, l, r, ty) == (op \in {"Div", "Mod"} /\ r = 0) \/ Compute(op, l, r) \notin RangeOf(ty)

Bitwise(op, l, r, bits) ==
  LET on(i) == CASE op = "And" -> bit(l, i) * bit(r, i)
                 [] op = "Or"  -> IF bit(l, i) + bit(r, i) > 0 THEN 1 ELSE 0
                 [] op = "Xor" -> (bit(l, i) + bit(r, i)) % 2
  IN  MapThenSumSet(LAMBDA i : on(i) * 2^i, 0..(bits - 1))

Shifted(op, l, n, bits) == IF op = "Shl" THEN (l * 2^n) % 2^bits ELSE l \div 2^n

Holds(op, l, r) ==
  CASE op = "Eq" -> l = r [] op = "Neq" -> l # r [] op = "Lt" -> l < r
    [] op = "Le" -> l <= r [] op = "Gt" -> l > r [] op = "Ge" -> l >= r

-----------------------------------------------------------------------------
(* Symbols of instructions.  lhs, rhs: symbols; l, r: the machine's values.  *)

Operand(s, x) == IF s.known THEN s ELSE Constant(x)
Both(a, b, val) == Known(val, a.vars \cup b.vars, a.sound /\ b.sound)

\* process_binary_op and the operators that use it.
process_binary_op(op, lhs, rhs, l, r) ==
  LET a == Operand(lhs, l)
      b == Operand(rhs, r)
  IN  IF lhs.known \/ rhs.known THEN Both(a, b, Compute(op, a.val, b.val)) ELSE Unknown

int_bv_const(op, x, c, bits) ==
  CASE op = "And" -> int_bvand_const(x, c, bits)
    [] op = "Or"  -> int_bvor_const(x, c, bits)
    [] op = "Xor" -> int_bvxor_const(x, c, bits)
bv_const(op, s, c, bits) == Known(int_bv_const(op, s.val, c, bits), s.vars, s.sound)

\* On integers of this width, masking with a constant on either side computes what
\* the machine does.
MasksExact(bits) ==
  /\ \A n \in 0..bits : 2^n \in Nat \ {0}
  /\ \A op \in BitOps : \A x, c \in 0..(2^bits - 1) :
       /\ Bitwise(op, x, c, bits) \in 0..(2^bits - 1)
       /\ int_bv_const(op, x, c, bits) = Bitwise(op, x, c, bits)
       /\ int_bv_const(op, c, x, bits) = Bitwise(op, x, c, bits)

\* Only a known operand against an unknown one: two known ones give up.
bitwise_symbol(op, lhs, rhs, l, r) ==
  CASE lhs.known /\ ~rhs.known -> bv_const(op, lhs, r.v, Bits[l.ty])
    [] ~lhs.known /\ rhs.known -> bv_const(op, rhs, l.v, Bits[l.ty])
    [] OTHER -> Unknown

shift_symbol(op, lhs, rhs, l, r) ==
  IF lhs.known /\ ~rhs.known
  THEN Known(IF op = "Shl" THEN (lhs.val * 2^r.v) % 2^Bits[l.ty] ELSE lhs.val \div 2^r.v,
             lhs.vars, lhs.sound)
  ELSE Unknown

not_symbol(s, x) == IF s.known THEN Known(int_bvnot(s.val, Bits[x.ty]), s.vars, s.sound) ELSE Unknown

\* What the symbols say of the comparison's outcome: that it came out as it did.
Took(op, lhs, rhs, l, r) ==
  LET rel == Holds(op, Operand(lhs, l).val, Operand(rhs, r).val)
  IN  IF Holds(op, l.v, r.v) THEN rel ELSE ~rel

\* The result is 1 when the symbols agree with the outcome, whichever it was, so
\* it tells the machine's result only when that is true.
cmp_symbol(op, lhs, rhs, l, r) ==
  IF lhs.known \/ rhs.known
  THEN Known(IF Took(op, lhs, rhs, l, r) THEN 1 ELSE 0, lhs.vars \cup rhs.vars,
             lhs.sound /\ rhs.sound /\ Holds(op, l.v, r.v))
  ELSE Unknown

\* Mutant: the constraint of an outcome that is false is not negated.
cmp_constraint_flat(op, lhs, rhs, l, r) == Holds(op, Operand(lhs, l).val, Operand(rhs, r).val)

\* The constraint that is logged; Neq of equal operands logs the negation of it.
cmp_constraint(op, lhs, rhs, l, r) ==
  LET took == Took(op, lhs, rhs, l, r)
  IN  IF op = "Neq" /\ ~Holds(op, l.v, r.v) THEN ~took ELSE took

-----------------------------------------------------------------------------
(* Frames.                                                                  *)

\* The input variable n.i, for parameters and locals alike.
resolve_arg(n, i, t, x) ==
  IF ~t.ref /\ t.ty \in Prim THEN Known(x.v, {<<n, i>>}, x # NoValue) ELSE Unknown

\* Frame::locals_types, none for a native function.
locals_types(f) == IF f \in Native THEN <<>> ELSE Params[f] \o Locals[f]

open_outermost(c, f, params) ==
  LET n == Len(c.args)
      machine_locals == params \o Repeat(NoValue, Len(Locals[f]))
      locals == IF f \in Native THEN Repeat(Unknown, Len(params))
                ELSE [i \in DOMAIN locals_types(f) |-> resolve_arg(n, i, locals_types(f)[i], machine_locals[i])]
  IN  [c EXCEPT !.args = Append(@, [fun |-> f, params |-> {i \in DOMAIN params : locals[i].known}]),
                !.locals = Append(@, locals)]

open_nested(c, f) ==
  LET n == IF Len(Params[f]) <= Len(c.stack) THEN Len(Params[f]) ELSE Len(c.stack)
      extra == Len(locals_types(f)) - n
  IN  [c EXCEPT !.locals = Append(@, Taken(c.stack, n) \o Repeat(Unknown, IF extra > 0 THEN extra ELSE 0)),
                !.stack = popped(@, n) \o Repeat(Unknown, IF f \in Native THEN Len(Returns[f]) ELSE 0)]

on_open_frame_inner(c, f, params) ==
  CASE c.disable -> c
    [] ~c.disable /\ c.locals = <<>> -> open_outermost(c, f, params)
    [] OTHER -> open_nested(c, f)

on_close_frame_inner(c) == IF c.disable THEN c ELSE [c EXCEPT !.locals = popped(@, 1)]

on_move_call_inner(c) == IF c.disable THEN c ELSE [c EXCEPT !.locals = <<>>, !.stack = <<>>]

\* TreeTracer: a call's path is the path of its caller and its position there.
Paths(t) == {e.path : e \in t.calls}
open_frame_inner(t, f) ==
  LET siblings == {q \in Paths(t) : Len(q) = Len(t.call_idxs) + 1 /\ SubSeq(q, 1, Len(t.call_idxs)) = t.call_idxs}
      path == Append(t.call_idxs, Cardinality(siblings))
  IN  [t EXCEPT !.calls = @ \cup {[path |-> path, fun |-> f]}, !.call_idxs = path]

close_frame_inner(t) == [t EXCEPT !.call_idxs = popped(@, 1)]

\* The path is kept at the first ExecutionError.
error_path(t) == IF t.error = NoError THEN [t EXCEPT !.error = t.call_idxs] ELSE t

\* base: the operand stack below belongs to the callers.
Frame(f, params, base) ==
  [fun |-> f, locals |-> params \o Repeat(NoValue, Len(Locals[f])), base |-> base]

\* A command that calls a function: MoveCallStart, then the frame is opened.
move_call ==
  /\ pc = "ready" /\ cmd < Len(program) /\ program[cmd + 1] \in Funs
  /\ LET f == program[cmd + 1]
     IN  \E vs \in [DOMAIN Params[f] -> 0..(2^Bits["u16"] - 1)] :
           /\ \A i \in DOMAIN vs : vs[i] \in RangeOf(Params[f][i].ty)
           /\ LET params == [i \in DOMAIN vs |-> Value(Params[f][i], vs[i])]
              IN  /\ concolic' = on_open_frame_inner(on_move_call_inner(concolic), f, params)
                  /\ call_stack' = <<Frame(f, params, 0)>>
           /\ operand_stack' = <<>>
           /\ current_functions' = Append(current_functions, f)
           /\ tree' = open_frame_inner(tree, f)
  /\ cmd' = cmd + 1 /\ pc' = "running"
  /\ UNCHANGED <<program, logs, fuel>>

\* TransferObjects and the like: the VM opens no frame.
other_command ==
  /\ pc = "ready" /\ cmd < Len(program) /\ program[cmd + 1] = Other
  /\ cmd' = cmd + 1
  /\ UNCHANGED <<program, pc, machine, concolic, current_functions, tree, logs, fuel>>

end_of_program ==
  /\ pc = "ready" /\ cmd = Len(program) /\ pc' = "done"
  /\ UNCHANGED <<program, cmd, machine, concolic, current_functions, tree, logs, fuel>>

-----------------------------------------------------------------------------
(* Instructions.                                                            *)

me == Top(call_stack)
mine == Top(concolic.locals)

\* on_raw_event_inner and the check of on_before_instruction_inner: a shadow
\* stack of another height ends concolic execution for good.
Aligned == Len(concolic.stack) = Len(operand_stack) /\ ~concolic.disable
Shadow(c) == concolic' = IF Aligned THEN c ELSE [concolic EXCEPT !.disable = TRUE]
Log(op, outcome, s, holds) ==
  logs' = IF ~Aligned \/ ~s.known THEN logs
          ELSE logs \cup {[fun |-> current_functions[1], op |-> op, outcome |-> outcome,
                           vars |-> s.vars, sound |-> s.sound, holds |-> holds]}

Running == pc = "running" /\ call_stack # <<>> /\ fuel > 0 /\ me.fun \notin Native
Stay == UNCHANGED <<program, cmd, current_functions>>
Fetch == Running /\ fuel' = fuel - 1
Step == Fetch /\ Stay
Room(n) == Len(operand_stack) + n <= MaxStack
Has(n) == Len(operand_stack) >= me.base + n
OnTop(types) ==
  /\ Has(Len(types))
  /\ \A i \in DOMAIN types : TypeOf(operand_stack[Len(operand_stack) - Len(types) + i]) = types[i]

\* Push a machine value and its symbol after taking n of each.
Replace(n, x, s) ==
  /\ operand_stack' = Append(popped(operand_stack, n), x)
  /\ Shadow([concolic EXCEPT !.stack = Append(popped(@, n), s)])

\* ExecutionError: the shadow drops one more symbol; nothing runs afterwards.
execution_error(c, n) ==
  /\ concolic' = IF Aligned THEN [c EXCEPT !.stack = popped(@, 1)] ELSE [concolic EXCEPT !.disable = TRUE]
  /\ operand_stack' = popped(operand_stack, n)
  /\ tree' = error_path(tree) /\ pc' = "aborted"
  /\ UNCHANGED call_stack

\* What the VM takes and leaves (external), for the instructions whose symbols
\* are only counted: the fields of a struct or variant are a u8 and a bool.
Fields == <<Val("u8"), Val("bool")>>
VMTakes ==
  [BrTrue |-> <<Val("bool")>>, VariantSwitch |-> <<Ref("obj")>>, LdU8 |-> <<>>, LdConst |-> <<>>,
   Pack |-> Fields, Unpack |-> <<Val("obj")>>, UnpackVariantImmRef |-> <<Ref("obj")>>,
   VecPack |-> <<Val("u8"), Val("u8")>>, VecUnpack |-> <<Val("vec")>>,
   VecPushBack |-> <<Ref("vec"), Val("u8")>>, VecSwap |-> <<Ref("vec"), Val("u8"), Val("u8")>>,
   VecImmBorrow |-> <<Ref("vec"), Val("u8")>>, VecLen |-> <<Ref("vec")>>, BorrowField |-> <<Ref("obj")>>]
VMLeaves ==
  [BrTrue |-> <<>>, VariantSwitch |-> <<>>, LdU8 |-> <<Val("u8")>>, LdConst |-> <<Val("vec")>>,
   Pack |-> <<Val("obj")>>, Unpack |-> Fields, UnpackVariantImmRef |-> <<Ref("u8"), Ref("bool")>>,
   VecPack |-> <<Val("vec")>>, VecUnpack |-> <<Val("u8"), Val("u8")>>,
   VecPushBack |-> <<>>, VecSwap |-> <<>>,
   VecImmBorrow |-> <<Ref("u8")>>, VecLen |-> <<Val("u8")>>, BorrowField |-> <<Ref("u8")>>]
Counted == DOMAIN VMTakes

\* Mutant: borrowing an element takes the vector from the shadow stack too.
pops_borrow ==
  [o \in Counted |->
    CASE o \in {"BrTrue", "VariantSwitch", "Unpack", "UnpackVariantImmRef", "VecUnpack"} -> 1
      [] o \in {"VecPushBack", "VecPack", "Pack", "VecImmBorrow"} -> 2 [] o = "VecSwap" -> 3 [] OTHER -> 0]

\* Symbols on_before_instruction_inner takes and the Unknowns it leaves; VecLen,
\* VecPopBack and BorrowField fall through and keep the symbol on top.
pops ==
  [o \in Counted |->
    CASE o \in {"BrTrue", "VariantSwitch", "VecImmBorrow", "Unpack", "UnpackVariantImmRef", "VecUnpack"} -> 1
      [] o \in {"VecPushBack", "VecPack", "Pack"} -> 2 [] o = "VecSwap" -> 3 [] OTHER -> 0]
pushes ==
  [o \in Counted |->
    CASE o \in {"LdU8", "LdConst", "Pack", "VecPack"} -> 1
      [] o \in {"Unpack", "UnpackVariantImmRef", "VecUnpack"} -> 2 [] OTHER -> 0]

counted(op) ==
  /\ Step /\ OnTop(VMTakes[op]) /\ Room(Len(VMLeaves[op]) - Len(VMTakes[op]))
  /\ \E vs \in [DOMAIN VMLeaves[op] -> Literals \cup {0}] :
       /\ \A i \in DOMAIN vs : vs[i] \in Fresh(VMLeaves[op][i].ty)
       /\ operand_stack' = popped(operand_stack, Len(VMTakes[op])) \o [i \in DOMAIN vs |-> Value(VMLeaves[op][i], vs[i])]
  /\ Shadow([concolic EXCEPT !.stack = popped(@, pops[op]) \o Repeat(Unknown, pushes[op])])
  /\ UNCHANGED <<pc, call_stack, tree, logs>>

LdBool(b) ==
  /\ Step /\ Room(1)
  /\ Replace(0, Value(Val("bool"), b), Known(b, {}, TRUE))
  /\ UNCHANGED <<pc, call_stack, tree, logs>>

Pop ==
  /\ Step /\ Has(1)
  /\ operand_stack' = popped(operand_stack, 1)
  /\ Shadow([concolic EXCEPT !.stack = popped(@, 1)])
  /\ UNCHANGED <<pc, call_stack, tree, logs>>

\* CastU8, CastU16: the symbol stays; the constraint is that the value fits.
Cast(ty) ==
  /\ Step /\ Has(1)
  /\ LET x == Top(operand_stack)
         s == Top(concolic.stack)
     IN  /\ ~x.ref /\ x.ty \in Prim \ {"bool"}
         /\ Log("Cast", x.v \in RangeOf(ty), s, s.val <= 2^Bits[ty] - 1)
         /\ IF x.v \in RangeOf(ty)
            THEN /\ operand_stack' = Append(popped(operand_stack, 1), Value(Val(ty), x.v))
                 /\ Shadow(concolic) /\ UNCHANGED <<pc, call_stack, tree>>
            ELSE execution_error(concolic, 1)

\* Two operands of one primitive type and their symbols.
TwoOf(types) ==
  /\ Step /\ Has(2)
  /\ TypeOf(Top(operand_stack)) \in types /\ TypeOf(Under(operand_stack)) = TypeOf(Top(operand_stack))

Ints == {Val(ty) : ty \in Prim \ {"bool"}}

Binary(x, s, fails) ==
  IF fails THEN execution_error([concolic EXCEPT !.stack = Append(popped(@, 2), s)], 2)
  ELSE Replace(2, x, s) /\ UNCHANGED <<pc, call_stack, tree>>

Arith(op) ==
  /\ TwoOf(Ints)
  /\ LET l == Under(operand_stack)
         r == Top(operand_stack)
     IN  Binary(Value(TypeOf(l), Compute(op, l.v, r.v)),
                process_binary_op(op, Under(concolic.stack), Top(concolic.stack), l, r),
                ArithFails(op, l.v, r.v, l.ty))
  /\ UNCHANGED logs

\* And and Or of booleans are the same code as BitAnd and BitOr.
BitOp(op) ==
  /\ TwoOf(IF op = "Xor" THEN Ints ELSE Ints \cup {Val("bool")})
  /\ LET l == Under(operand_stack)
         r == Top(operand_stack)
     IN  Binary(Value(TypeOf(l), Bitwise(op, l.v, r.v, Bits[l.ty])),
                bitwise_symbol(op, Under(concolic.stack), Top(concolic.stack), l, r), FALSE)
  /\ UNCHANGED logs

\* A left shift of a known value by an unknown one logs that it overflows.
Shift(op) ==
  /\ Step /\ Has(2)
  /\ TypeOf(Under(operand_stack)) \in Ints /\ TypeOf(Top(operand_stack)) = Val("u8")
  /\ LET l == Under(operand_stack)
         r == Top(operand_stack)
         s == shift_symbol(op, Under(concolic.stack), Top(concolic.stack), l, r)
     IN  /\ Binary(Value(TypeOf(l), Shifted(op, l.v, r.v, Bits[l.ty])), s, r.v >= Bits[l.ty])
         /\ IF op = "Shl" THEN Log("Shl", TRUE, s, Under(concolic.stack).val * 2^r.v > 2^Bits[l.ty] - 1)
            ELSE UNCHANGED logs

Not ==
  /\ Step /\ Has(1) /\ TypeOf(Top(operand_stack)) = Val("bool")
  /\ LET x == Top(operand_stack)
     IN  Replace(1, Value(Val("bool"), 1 - x.v), not_symbol(Top(concolic.stack), x))
  /\ UNCHANGED <<pc, call_stack, tree, logs>>

\* Eq and Neq take values of any type, and references, which compare by value.
Compare(op) ==
  /\ TwoOf(IF op \in {"Eq", "Neq"} THEN [ty : Prim \cup {"obj"}, ref : BOOLEAN] ELSE Ints)
  /\ LET l == Under(operand_stack)
         r == Top(operand_stack)
         a == Under(concolic.stack)
         b == Top(concolic.stack)
     IN  /\ Binary(Value(Val("bool"), IF Holds(op, l.v, r.v) THEN 1 ELSE 0), cmp_symbol(op, a, b, l, r), FALSE)
         /\ Log(op, Holds(op, l.v, r.v),
                [cmp_symbol(op, a, b, l, r) EXCEPT !.sound = a.sound /\ b.sound], cmp_constraint(op, a, b, l, r))

-----------------------------------------------------------------------------
(* Locals and references.  The verifier lets no local be touched while a     *)
(* reference to it is live, and no local be read before it is written.       *)

Live(p) == {i \in DOMAIN operand_stack : operand_stack[i].at = p}
      \cup {d \in DOMAIN call_stack : \E i \in DOMAIN call_stack[d].locals : call_stack[d].locals[i].at = p}
Here(i) == <<Len(call_stack), i>>
Readable(i) == i \in DOMAIN me.locals /\ me.locals[i] # NoValue /\ Live(Here(i)) = {}
SlotType(i) == locals_types(me.fun)[i]

CopyLoc(i) ==
  /\ Step /\ Readable(i) /\ ~me.locals[i].ref /\ me.locals[i].ty # "obj" /\ Room(1)
  /\ Replace(0, me.locals[i], mine[i])
  /\ UNCHANGED <<pc, call_stack, tree, logs>>

\* ImmBorrowLoc, MutBorrowLoc: the reference carries the symbol of the local.
BorrowLoc(i) ==
  /\ Step /\ Readable(i) /\ ~me.locals[i].ref /\ Room(1)
  /\ Replace(0, [me.locals[i] EXCEPT !.ref = TRUE, !.at = Here(i)], mine[i])
  /\ UNCHANGED <<pc, call_stack, tree, logs>>

MoveLoc(i) ==
  /\ Step /\ Readable(i) /\ Room(1)
  /\ operand_stack' = Append(operand_stack, me.locals[i])
  /\ Shadow([concolic EXCEPT !.stack = Append(@, mine[i]),
                             !.locals[Len(concolic.locals)][i] = Unknown])
  /\ call_stack' = [call_stack EXCEPT ![Len(call_stack)].locals[i] = NoValue]
  /\ UNCHANGED <<pc, tree, logs>>

\* Mutant: the symbol of the value stored is lost, the old one stays.
StLoc_stale(i) ==
  /\ Step /\ Has(1) /\ i \in DOMAIN me.locals
  /\ TypeOf(Top(operand_stack)) = SlotType(i) /\ Live(Here(i)) = {}
  /\ operand_stack' = popped(operand_stack, 1)
  /\ call_stack' = [call_stack EXCEPT ![Len(call_stack)].locals[i] = Top(operand_stack)]
  /\ Shadow([concolic EXCEPT !.stack = popped(@, 1)])
  /\ UNCHANGED <<pc, tree, logs>>

StLoc(i) ==
  /\ Step /\ Has(1) /\ i \in DOMAIN me.locals
  /\ TypeOf(Top(operand_stack)) = SlotType(i) /\ Live(Here(i)) = {}
  /\ operand_stack' = popped(operand_stack, 1)
  /\ call_stack' = [call_stack EXCEPT ![Len(call_stack)].locals[i] = Top(operand_stack)]
  /\ Shadow([concolic EXCEPT !.stack = popped(@, 1),
                             !.locals[Len(concolic.locals)][i] = Top(concolic.stack)])
  /\ UNCHANGED <<pc, tree, logs>>

\* The shadow does nothing: the symbol of a reference is that of its target.
ReadRef ==
  /\ Step /\ Has(1) /\ Top(operand_stack).ref /\ Top(operand_stack).ty # "obj"
  /\ operand_stack' = Append(popped(operand_stack, 1), [Top(operand_stack) EXCEPT !.ref = FALSE, !.at = <<>>])
  /\ Shadow(concolic)
  /\ UNCHANGED <<pc, call_stack, tree, logs>>

\* The machine writes through to the local; the local's symbol stays as it was
\* and can no longer be relied on.
WriteRef ==
  /\ Step /\ Has(2) /\ Top(operand_stack).ref /\ Top(operand_stack).ty # "obj"
  /\ TypeOf(Under(operand_stack)) = Val(Top(operand_stack).ty)
  /\ LET p == Top(operand_stack).at
         new == Under(operand_stack)
     IN  /\ call_stack' = IF p = <<>> THEN call_stack
                          ELSE [call_stack EXCEPT ![p[1]].locals[p[2]] = new]
         /\ Shadow([concolic EXCEPT
              !.stack = popped(@, 2),
              !.locals = IF p = <<>> THEN @
                         ELSE [@ EXCEPT ![p[1]][p[2]] = Untrusted(concolic.locals[p[1]][p[2]])]])
  /\ operand_stack' = popped(operand_stack, 2)
  /\ UNCHANGED <<pc, tree, logs>>

-----------------------------------------------------------------------------
(* Calls, returns and aborts.                                               *)

\* The Call instruction and the frame it opens; the parameters leave both stacks.
Call(f) ==
  /\ Fetch /\ f \notin Native /\ OnTop(Params[f]) /\ Len(call_stack) < MaxDepth
  /\ LET n == Len(Params[f])
         params == Taken(operand_stack, n)
     IN  /\ Shadow(on_open_frame_inner(concolic, f, params))
         /\ operand_stack' = popped(operand_stack, n)
         /\ call_stack' = Append(call_stack, Frame(f, params, Len(operand_stack) - n))
  /\ current_functions' = Append(current_functions, f)
  /\ tree' = open_frame_inner(tree, f)
  /\ UNCHANGED <<program, cmd, pc, logs>>

\* A native function's frame is opened, its results are pushed, it is closed.
NativeCall(f) ==
  /\ Step /\ f \in Native /\ OnTop(Params[f]) /\ Room(Len(Returns[f]) - Len(Params[f]))
  /\ Shadow(on_close_frame_inner(on_open_frame_inner(concolic, f, Taken(operand_stack, Len(Params[f])))))
  /\ \E vs \in [DOMAIN Returns[f] -> Literals \cup {0}] :
       /\ \A i \in DOMAIN vs : vs[i] \in Fresh(Returns[f][i].ty)
       /\ operand_stack' = popped(operand_stack, Len(Params[f])) \o [i \in DOMAIN vs |-> Value(Returns[f][i], vs[i])]
  /\ tree' = close_frame_inner(open_frame_inner(tree, f))
  /\ UNCHANGED <<pc, call_stack, logs>>

\* Ret, or the end of a native function the command calls itself, and CloseFrame.
\* The verifier lets no reference to a local leave its frame.
Ret ==
  /\ pc = "running"
  /\ \A i \in DOMAIN operand_stack, j \in DOMAIN me.locals : operand_stack[i].at # Here(j)
  /\ me.fun \in Native \/ (OnTop(Returns[me.fun]) /\ Len(operand_stack) = me.base + Len(Returns[me.fun]))
  /\ concolic' = IF Aligned \/ me.fun \in Native THEN on_close_frame_inner(concolic)
                 ELSE [concolic EXCEPT !.disable = TRUE]
  /\ call_stack' = popped(call_stack, 1)
  /\ current_functions' = popped(current_functions, 1)
  /\ tree' = close_frame_inner(tree)
  /\ pc' = IF Len(call_stack) = 1 THEN "ready" ELSE "running"
  /\ UNCHANGED <<program, cmd, operand_stack, logs, fuel>>

Abort ==
  /\ Step /\ OnTop(<<Val("u16")>>)
  /\ execution_error([concolic EXCEPT !.stack = popped(@, 1)], 1)
  /\ UNCHANGED logs

-----------------------------------------------------------------------------
(* ArgMutator: solve the constraints for one command of a sequence.          *)

\* Sequences the traced one may have been made from by dropping a command; the
\* stage mutates its test case again while the outcome of the last child is kept.
RemoveAt(s, i) == SubSeq(s, 1, i - 1) \o SubSeq(s, i + 1, Len(s))
Mutated == IF OwnSequence THEN {program}
           ELSE {p \in Programs : \E i \in DOMAIN p : RemoveAt(p, i) = program}

candidates(p) == {c \in DOMAIN p : p[c] \in Funs /\ \E i \in DOMAIN Params[p[c]] : Params[p[c]][i].ty \in Prim}

\* Parameters of f that solve can bound: it panics on any other.
solvable(f, i) == i \in DOMAIN Params[f] /\ Params[f][i].ty \in Prim /\ ~Params[f][i].ref

\* Mutant: the variables of the first command are solved for.
solve_arg_first(p, c, answer) ==
  pc' = IF concolic.args = <<>> \/ ~\E e \in logs : e.fun = p[c] THEN "skipped"
        ELSE IF \E i \in concolic.args[1].params : ~solvable(p[c], i) THEN "panic" ELSE answer

solve_arg(p, c, answer) ==
  pc' = IF c \notin DOMAIN concolic.args \/ ~\E e \in logs : e.fun = p[c] THEN "skipped"
        ELSE IF \E i \in concolic.args[c].params : ~solvable(p[c], i) THEN "panic" ELSE answer

\* Sat gives a value for the argument; Unsat, Unknown and the timeout do not.
mutate ==
  /\ pc \in {"done", "aborted"}
  /\ \E p \in Mutated : \E c \in candidates(p) : \E answer \in {"mutated", "skipped"} : solve_arg(p, c, answer)
  /\ UNCHANGED <<program, cmd, machine, concolic, current_functions, tree, logs, fuel>>

Instruction ==
  \/ \E op \in Counted : counted(op)
  \/ \E b \in {0, 1} : LdBool(b)
  \/ Pop \/ Not \/ ReadRef \/ WriteRef \/ Abort
  \/ \E ty \in {"u8", "u16"} : Cast(ty)
  \/ \E op \in ArithOps : Arith(op)
  \/ \E op \in BitOps : BitOp(op)
  \/ \E op \in ShiftOps : Shift(op)
  \/ \E op \in CmpOps : Compare(op)
  \/ \E i \in UNION {DOMAIN locals_types(f) : f \in Funs} : CopyLoc(i) \/ BorrowLoc(i) \/ MoveLoc(i) \/ StLoc(i)
  \/ \E f \in Funs : Call(f) \/ NativeCall(f)

Next == move_call \/ other_command \/ end_of_program \/ Instruction \/ Ret \/ mutate

Spec == Init /\ [][Next]_vars

-----------------------------------------------------------------------------
(* Properties.                                                              *)

Along(path) == [d \in DOMAIN path |-> {e.fun : e \in {x \in tree.calls : x.path = SubSeq(path, 1, d)}}]

\* The tracers never lose the machine: whatever verified code executes, calls,
\* returns from or leaves behind in an earlier command, the shadow has the height
\* and the depth of the machine's stacks, so concolic execution is never disabled,
\* and the path in the call tree leads through the live calls, also at an error.
StacksAligned ==
  /\ ~concolic.disable
  /\ pc = "running" =>
       /\ me.fun \notin Native => Len(concolic.stack) = Len(operand_stack)
       /\ Len(concolic.locals) = Len(call_stack)
       /\ \A d \in DOMAIN call_stack : Len(concolic.locals[d]) = Len(call_stack[d].locals)
       /\ Along(tree.call_idxs) = [d \in DOMAIN call_stack |-> {call_stack[d].fun}]
  /\ pc = "aborted" => Along(tree.error) = [d \in DOMAIN call_stack |-> {call_stack[d].fun}]
  /\ Along(tree.call_idxs) = [d \in DOMAIN current_functions |-> {current_functions[d]}]

Exact(s, x) == s.known => x.ty \in Prim /\ (s.sound => s.val = x.v)

\* A known symbol stands for a primitive value or a reference to one (resolve_value
\* would panic otherwise), and under the executed inputs it has the value the machine
\* has, through arithmetic, masks, shifts, references, moves and calls; the
\* exceptions are results of comparisons that came out false and locals written
\* through a reference, and what is computed from them.
SymbolsExact ==
  pc = "running" /\ me.fun \notin Native =>
    /\ \A i \in DOMAIN operand_stack : Exact(concolic.stack[i], operand_stack[i])
    /\ \A d \in DOMAIN call_stack : \A i \in DOMAIN call_stack[d].locals :
         LET x == call_stack[d].locals[i]
         IN  x # NoValue => Exact(concolic.locals[d][i], x)

\* The constraints logged for a function are a path condition for its commands:
\* they mention inputs of commands that call this function only, and the executed
\* inputs satisfy those of comparisons and casts, unless the cast is the one that
\* aborted.  The exception is Neq of equal operands, which logs its negation.
PathHolds ==
  \A e \in logs :
    /\ \A x \in e.vars : x[1] + 1 \in DOMAIN concolic.args /\ concolic.args[x[1] + 1].fun = e.fun
    /\ e.sound /\ e.op # "Shl" /\ ~(e.op = "Neq" /\ ~e.outcome) =>
         (e.holds <=> (e.op = "Cast" => e.outcome))

\* The solver's panics on a parameter that does not exist or is not a primitive
\* are unreachable.
NoSolverPanic == pc # "panic"
=============================================================================
