---------------------------- MODULE SequenceEdits ----------------------------
(***************************************************************************)
(* How SequenceMutator edits one call sequence (mutators/sequence.rs and   *)
(* mutators/sequence/): the generated calls are stripped, a target call is *)
(* appended together with producers for its missing arguments, or a call   *)
(* is removed together with what depends on it, and the hooks of the test  *)
(* package are woven in again.  A sequence is kept for another round only  *)
(* if its execution succeeded.                                             *)
(*                                                                         *)
(* append_function calls itself to produce missing arguments: stack holds  *)
(* its activations.  Types are not generic, weights are any choice, and a  *)
(* pure value or an address is the input 0.  Positions count from 1.       *)
(***************************************************************************)
EXTENDS Naturals, Sequences, FiniteSets, SequencesExt

CONSTANTS
  Abi,          \* function -> [params : Seq([ty, mode]), returns : Seq(type)]
  Targets,      \* target_functions
  Producers,    \* the functions of the type graph that find_producers allows
  SeqPre, SeqPost,    \* sequence_hooks: movy_pre_ptb, movy_post_ptb
  Hooks,        \* function_hooks: target -> [pre, post : Seq(function)]
  Create, Destroy,    \* context_idents
  Coins, Balances, KeyStore, HotPotatoes,   \* sets of types
  Objects,      \* types_pool: object -> [ty, owner]; objects are 1, 2, ...
  MaxDepth,     \* recursion_depth; 10 in the code
  MaxTries,     \* selected_times; 10 in the code
  MaxSplits,    \* 10 in the code
  AlwaysGrow,   \* sequences up to this length never shrink; 4 in the code
  MaxCommands,  \* bound: longer sequences are not mutated again
  MaxRounds     \* bound on mutations

Modes == {"value", "ref", "mut", "pure"}

ASSUME SequenceAssumption ==
  /\ MaxDepth \in Nat /\ MaxTries \in Nat /\ MaxSplits \in Nat
  /\ AlwaysGrow \in Nat /\ MaxCommands \in Nat /\ MaxRounds \in Nat
  /\ Targets \cup Producers \cup {Create, Destroy} \subseteq DOMAIN Abi
  /\ {"coin::split", "balance::split", "coin::from_balance"} \subseteq DOMAIN Abi
  /\ \A f \in DOMAIN Abi : \A k \in DOMAIN Abi[f].params : Abi[f].params[k].mode \in Modes

VARIABLES
  input,   \* the test case being mutated
  ptb,     \* the sequence under construction
  base,    \* ptb_snapshot while growing, the undecorated sequence afterwards
  stack,   \* activations of append_function, the innermost last
  pc, tries, res,
  todo,    \* what apply_hooks still has to append
  imap,    \* index_map of apply_hooks
  ctx,     \* the contexts of the sequence and of the current call
  rounds

vars == <<input, ptb, base, stack, pc, tries, res, todo, imap, ctx, rounds>>

-----------------------------------------------------------------------------
(* Arguments, commands and sequences.                                       *)

Input(i) == [kind |-> "input", i |-> i, j |-> 0]
Result(i) == [kind |-> "result", i |-> i, j |-> 0]
NestedResult(i, j) == [kind |-> "nested", i |-> i, j |-> j]
Fresh(o) == [kind |-> "fresh", i |-> o, j |-> 0]    \* an object not yet an input
Hole == [kind |-> "hole", i |-> 0, j |-> 0]         \* an argument not yet found

Empty == [inputs |-> <<>>, commands |-> <<>>]
NoArg == [kind |-> "none", i |-> 0, j |-> 0]
Pure == [kind |-> "pure", i |-> 0, j |-> 0]         \* a pure input not yet added
Transfer == "TransferObjects"
IsCall(c) == c.fn # Transfer
IsSplit(c) == c.fn \in {"coin::split", "balance::split"}
Refers(a) == a.kind \in {"result", "nested"}

\* The j-th return value of function f called at position c.
Returned(c, f, j) ==
  IF Len(Abi[f].returns) = 1 THEN Result(c) ELSE NestedResult(c, j)

OwnerGate(o) == Objects[o].owner

-----------------------------------------------------------------------------
(* ObjectData::from_ptb: what is available after running a sequence.        *)

Start(s) ==
  [objects |-> IF s.commands = <<>> THEN {}
               ELSE {[ty |-> Objects[s.inputs[k]].ty, arg |-> Input(k),
                      gate |-> OwnerGate(s.inputs[k])] :
                       k \in {n \in 1..Len(s.inputs) : s.inputs[n] # 0}},
   hot |-> <<>>, keys |-> <<>>, balances |-> <<>>, panic |-> FALSE]

\* Only by-value parameters take an object away.
Consume(d, a, p) ==
  IF p.mode # "value" \/ d.panic THEN d
  ELSE IF \A e \in d.objects : e.ty # p.ty THEN [d EXCEPT !.panic = TRUE]
  ELSE LET rest == [d EXCEPT !.objects = {e \in @ : e.ty # p.ty \/ e.arg # a}] IN
       IF ~Refers(a) THEN rest
       ELSE IF p.ty \in HotPotatoes /\ ~Contains(d.hot, p.ty) THEN [d EXCEPT !.panic = TRUE]
       ELSE [rest EXCEPT !.balances = Remove(@, a), !.keys = Remove(@, a),
                         !.hot = IF p.ty \in HotPotatoes THEN RemoveFirst(@, p.ty) ELSE @]

Produce(d, c, f, j) ==
  LET ty == Abi[f].returns[j]
      a == Returned(c, f, j)
      add(s, S) == IF ty \in S THEN Append(s, a) ELSE s
  IN  [d EXCEPT !.objects = @ \cup {[ty |-> ty, arg |-> a, gate |-> "owned"]},
                !.balances = add(@, Balances), !.keys = add(@, KeyStore),
                !.hot = IF ty \in HotPotatoes THEN Append(@, ty) ELSE @]

AfterCommand(d, s, c) ==
  LET f == s.commands[c].fn
      taken == FoldLeftDomain(LAMBDA acc, k : Consume(acc, s.commands[c].args[k], Abi[f].params[k]),
                              d, Abi[f].params)
  IN  FoldLeftDomain(LAMBDA acc, j : Produce(acc, c, f, j), taken, Abi[f].returns)

FromPtb(s) ==
  FoldLeftDomain(LAMBDA d, c : IF IsCall(s.commands[c]) THEN AfterCommand(d, s, c) ELSE d,
                 Start(s), s.commands)

-----------------------------------------------------------------------------
(* try_construct_args: an argument or a hole for every sampled parameter.   *)

\* owner_matches_gate
OwnerMatches(o, mode) == OwnerGate(o) # "immutable" \/ mode = "ref"

\* try_sample_object_from_cache
InCache(objs, p) ==
  \E e \in objs : /\ e.ty = p.ty
                  /\ CASE p.mode = "value" -> e.gate = "owned"
                       [] p.mode = "mut" -> e.gate # "immutable"
                       [] p.mode = "ref" -> TRUE

\* try_sample_object_from_db
InDb(p) == \E o \in DOMAIN Objects : Objects[o].ty = p.ty /\ OwnerMatches(o, p.mode)

\* The choices left to position k once the earlier ones are made: what an
\* earlier by-value parameter took is gone, an object is sampled only once.
ArgChoices(objs, usedIds, params, pick, k) ==
  LET p == params[k]
      cached == {e \in objs : e.ty = p.ty}
      mine == {e.arg : e \in {e \in cached :
                 /\ p.mode = "ref" \/ e.gate # "immutable"
                 /\ \A q \in DOMAIN pick : q < k /\ params[q].mode = "value" => pick[q] # e.arg}}
      stored == {Fresh(o) : o \in {o \in DOMAIN Objects :
                   /\ Objects[o].ty = p.ty /\ OwnerMatches(o, p.mode) /\ o \notin usedIds
                   /\ \A q \in DOMAIN pick : q < k => pick[q] # Fresh(o)}}
      found == IF ~InCache(objs, p) /\ ~InDb(p) THEN {} ELSE IF cached # {} THEN mine ELSE stored
  IN  IF found = {} THEN {Hole} ELSE found

Sampled(params, fixed) == {k \in DOMAIN params : params[k].mode # "pure" /\ k \notin DOMAIN fixed}

from_ptb_and_remove_used(s, used) == {e \in FromPtb(s).objects : e.arg \notin used}

Picks(s, used, params, fixed) ==
  LET objs == from_ptb_and_remove_used(s, used)
      usedIds == IF s.commands = <<>> THEN {} ELSE Range(s.inputs)
      all == {e.arg : e \in objs} \cup {Fresh(o) : o \in DOMAIN Objects} \cup {Hole}
  IN  {pick \in [Sampled(params, fixed) -> all] :
         \A k \in DOMAIN pick : pick[k] \in ArgChoices(objs, usedIds, params, pick, k)}

-----------------------------------------------------------------------------
(* append_function.                                                         *)

\* The objects an activation wants to add to the inputs, in order.
NewObjects(args) == SelectSeq(args, LAMBDA a : a.kind = "fresh")
NewPures(args) == SelectSeq(args, LAMBDA a : a = Pure)

\* new_used_arguments names an object to be added by the index it would get if
\* no producer added inputs first.
Claimed(args, k, n) ==
  IF args[k].kind # "fresh" THEN args[k]
  ELSE Input(n + Len(NewObjects(SubSeq(args, 1, k))))

Frames(s, f, fixed, used, split) ==
  LET params == Abi[f].params
      frame(pick) ==
        LET args == [k \in DOMAIN params |->
                       IF k \in DOMAIN fixed THEN fixed[k]
                       ELSE IF params[k].mode = "pure" THEN Pure ELSE pick[k]]
        IN  [fn |-> f, args |-> args, split |-> split,
             moved |-> used \cup {Claimed(args, k, Len(s.inputs)) :
                         k \in {k \in DOMAIN pick : params[k].mode = "value" /\ pick[k] # Hole}}]
  IN  {frame(pick) : pick \in Picks(s, used, params, fixed)}

Top == Last(stack)
Holes(fr) == {k \in DOMAIN fr.args : fr.args[k] = Hole}
FirstHole(fr) == CHOOSE k \in Holes(fr) : \A q \in Holes(fr) : k <= q
HoleType(fr) == Abi[fr.fn].params[FirstHole(fr)].ty

\* TypeGraph::find_producers
ProducersOf(ty, f) == {g \in Producers \ {f} : Contains(Abi[g].returns, ty)}

\* An object that a producer made an input in the meantime cannot be moved.
Clash(fr) ==
  \E k \in DOMAIN fr.args : /\ fr.args[k].kind = "fresh"
                            /\ Abi[fr.fn].params[k].mode = "value"
                            /\ Contains(ptb.inputs, fr.args[k].i)

\* Mutant: an object that a producer made an input is added once more.
Settled_adding_again(s, args) ==
  LET n == Len(s.inputs)
      index(k) ==
        IF args[k] = Pure
        THEN Input(n + Len(NewObjects(args)) + Len(NewPures(SubSeq(args, 1, k))))
        ELSE Claimed(args, k, n)
  IN  [inputs |-> [i \in DOMAIN NewObjects(args) |-> NewObjects(args)[i].i]
                    \o [i \in DOMAIN NewPures(args) |-> 0],
       args |-> [k \in DOMAIN args |-> index(k)]]

\* The inputs an activation adds and its arguments: an object that is an input
\* already is not added again.
Settled(s, args) ==
  LET n == Len(s.inputs)
      objs == SelectSeq([i \in DOMAIN NewObjects(args) |-> NewObjects(args)[i].i],
                        LAMBDA o : ~Contains(s.inputs, o))
      index(k) ==
        IF args[k] = Pure THEN Input(n + Len(objs) + Len(NewPures(SubSeq(args, 1, k))))
        ELSE IF args[k].kind # "fresh" THEN args[k]
        ELSE IF Contains(s.inputs, args[k].i) THEN Input(SelectInSeq(s.inputs, LAMBDA o : o = args[k].i))
        ELSE Input(n + SelectInSeq(objs, LAMBDA o : o = args[k].i))
  IN  [inputs |-> objs \o [i \in DOMAIN NewPures(args) |-> 0],
       args |-> [k \in DOMAIN args |-> index(k)]]

\* Every coin or balance passed by value is split first.
SplitParams(fr) ==
  IF ~fr.split THEN <<>>
  ELSE SelectSeq([k \in DOMAIN fr.args |-> k],
                 LAMBDA k : /\ Abi[fr.fn].params[k].mode = "value"
                            /\ Abi[fr.fn].params[k].ty \in Coins \cup Balances)

\* The sequence with the call of a complete activation appended.
Appended(s, fr) ==
  LET new == Settled(s, fr.args)
      cut == SplitParams(fr)
      inputs == s.inputs \o new.inputs
      n == Len(s.commands)
      splitCall(q) ==
        [fn |-> IF Abi[fr.fn].params[cut[q]].ty \in Coins THEN "coin::split" ELSE "balance::split",
         args |-> <<new.args[cut[q]], Input(Len(inputs) + q)>>]
      args == [k \in DOMAIN new.args |->
                 IF Contains(cut, k) THEN Result(n + SelectInSeq(cut, LAMBDA c : c = k))
                 ELSE new.args[k]]
  IN  [inputs |-> inputs \o [q \in DOMAIN cut |-> 0],
       commands |-> s.commands \o [q \in DOMAIN cut |-> splitCall(q)]
                      \o <<[fn |-> fr.fn, args |-> args]>>]

\* The caller takes its first missing argument from the producer's call.
Filled(fr, g, c) ==
  LET k == FirstHole(fr)
      ty == HoleType(fr)
      a == Returned(c, g, SelectInSeq(Abi[g].returns, LAMBDA t : t = ty))
  IN  [fr EXCEPT !.args = [@ EXCEPT ![k] = a],
                 !.moved = IF Abi[fr.fn].params[k].mode = "value" THEN @ \cup {a} ELSE @]

Enter(f, fixed, used, split) ==
  IF FromPtb(ptb).panic THEN pc' = "panic" /\ UNCHANGED stack
  ELSE /\ \E fr \in Frames(ptb, f, fixed, used, split) : stack' = Append(stack, fr)
       /\ pc' = "append"

-----------------------------------------------------------------------------
(* strip_generated and remove_command.                                      *)

\* Mutant: the calls that make and destroy contexts are not recognised.
hook_idents_without_contexts ==
  ToSet(SeqPre \o SeqPost)
    \cup UNION {ToSet(Hooks[f].pre \o Hooks[f].post) : f \in DOMAIN Hooks}

hook_idents ==
  ToSet(SeqPre \o SeqPost) \cup {Create, Destroy}
    \cup UNION {ToSet(Hooks[f].pre \o Hooks[f].post) : f \in DOMAIN Hooks}

\* Mutant: results are not renumbered.
Without_unnumbered(s, gone) ==
  [s EXCEPT !.commands = LET kept == SelectSeq([c \in DOMAIN @ |-> c], LAMBDA c : c \notin gone)
                         IN  [n \in DOMAIN kept |-> s.commands[kept[n]]]]

\* The sequence without the commands at the given positions.  A command that
\* uses a removed result is lost as well, after the positions are counted.
Without(s, gone) ==
  LET at(i) == i - Cardinality({g \in gone : g < i})
      remap(a) == IF Refers(a) THEN [a EXCEPT !.i = at(a.i)] ELSE a
      lost(c) == c \in gone \/ \E k \in DOMAIN s.commands[c].args :
                   LET a == s.commands[c].args[k] IN Refers(a) /\ a.i \in gone
      kept == SelectSeq([c \in DOMAIN s.commands |-> c], LAMBDA c : ~lost(c))
  IN  [inputs |-> s.inputs,
       commands |-> [n \in DOMAIN kept |->
                       LET cmd == s.commands[kept[n]] IN
                       [cmd EXCEPT !.args = [k \in DOMAIN @ |-> remap(@[k])]]]]

strip_hooks_only(s) ==
  Without(s, {c \in DOMAIN s.commands : s.commands[c].fn \in hook_idents})

remove_process_key_store(s) ==
  IF s.commands = <<>> THEN s
  ELSE IF Last(s.commands).fn # Transfer THEN s
  ELSE [inputs |-> Front(s.inputs), commands |-> Front(s.commands)]

remove_process_balance(s) ==
  LET n == SelectLastInSeq(s.commands, LAMBDA c : c.fn # "coin::from_balance")
  IN  [s EXCEPT !.commands = SubSeq(@, 1, n)]

strip_generated(s) == remove_process_balance(remove_process_key_store(strip_hooks_only(s)))

\* Mutant: the makers of consumed hot potatoes stay.
GoesWith_keeping_makers(s, c) ==
  {d \in DOMAIN s.commands : \E k \in DOMAIN s.commands[d].args :
     LET a == s.commands[d].args[k] IN IsCall(s.commands[d]) /\ Refers(a) /\ a.i = c}
    \cup {d \in {c - 1} : d > 0 /\ IsCall(s.commands[c]) /\ IsSplit(s.commands[d])}

\* What must go with a command: the commands that use its results, the splits
\* in front of it, and the calls that made its hot potatoes.
GoesWith(s, c) ==
  {d \in DOMAIN s.commands : \E k \in DOMAIN s.commands[d].args :
     LET a == s.commands[d].args[k] IN IsCall(s.commands[d]) /\ Refers(a) /\ a.i = c}
    \cup {d \in {c - 1} : d > 0 /\ IsCall(s.commands[c]) /\ IsSplit(s.commands[d])}
    \cup IF ~IsCall(s.commands[c]) THEN {}
         ELSE {s.commands[c].args[k].i : k \in {k \in DOMAIN s.commands[c].args :
                 /\ Refers(s.commands[c].args[k])
                 /\ Abi[s.commands[c].fn].params[k].mode = "value"
                 /\ Abi[s.commands[c].fn].params[k].ty \in HotPotatoes}}

gen_remove_idxes(s, c) ==
  LET closed == {R \in SUBSET DOMAIN s.commands :
                   c \in R /\ \A d \in R : GoesWith(s, d) \subseteq R}
  IN  {d \in DOMAIN s.commands : \A R \in closed : d \in R}

-----------------------------------------------------------------------------
(* apply_hooks: what is appended, in order.                                 *)

Item(op, f, scope, c) == [op |-> op, fn |-> f, scope |-> scope, cmd |-> c]

Around(s, c) ==
  LET f == s.commands[c].fn
      main == <<Item("main", f, "call", c)>>
      hook(fs) == [k \in DOMAIN fs |-> Item("hook", fs[k], "call", c)]
  IN  IF f \notin DOMAIN Hooks THEN main
      ELSE <<Item("create", Create, "call", c)>> \o hook(Hooks[f].pre) \o main
             \o hook(Hooks[f].post) \o <<Item("destroy", Destroy, "call", c)>>

Plan(s) ==
  LET hook(fs) == [k \in DOMAIN fs |-> Item("hook", fs[k], "seq", 0)]
  IN  <<Item("create", Create, "seq", 0)>> \o hook(SeqPre)
        \o FlattenSeq([c \in DOMAIN s.commands |-> Around(s, c)])
        \o hook(SeqPost) \o <<Item("destroy", Destroy, "seq", 0)>>

\* remap_command with index_map
Mapped(a) == ~Refers(a) \/ a.i \in DOMAIN imap
Remapped(c) ==
  LET old == base.commands[c].args
  IN  [base.commands[c] EXCEPT !.args = [k \in DOMAIN old |->
         IF Refers(old[k]) THEN [old[k] EXCEPT !.i = imap[old[k].i]] ELSE old[k]]]

\* append_hook_call: a hook takes the context first and then the arguments of
\* its target; a hook that does not mirror its target is left out.
Offset(it) == IF ctx[it.scope] = NoArg THEN 0 ELSE 1

Mirrors(it) ==
  LET hook == Abi[it.fn].params
      target == Abi[base.commands[it.cmd].fn].params
  IN  /\ Len(hook) = Offset(it) + Len(target)
      /\ \A k \in DOMAIN target : hook[Offset(it) + k].ty = target[k].ty

FixedArgs(it) ==
  LET ctxArg == {k \in {1} : Offset(it) = 1 /\ Abi[it.fn].params # <<>>}
      mirrored == IF it.cmd = 0 THEN {}
                  ELSE {Offset(it) + k : k \in DOMAIN Abi[base.commands[it.cmd].fn].params}
  IN  [k \in ctxArg \cup mirrored |->
         IF k \in ctxArg THEN ctx[it.scope]
         ELSE (Remapped(it.cmd)).args[k - Offset(it)]]

\* process_balance and process_key_store
process_balance(s) ==
  LET left == FromPtb(s).balances
  IN  [s EXCEPT !.commands = @ \o [n \in DOMAIN left |->
                                     [fn |-> "coin::from_balance", args |-> <<left[n]>>]]]

process_key_store(s) ==
  LET left == FromPtb(s).keys
  IN  IF left = <<>> THEN s
      ELSE [inputs |-> Append(s.inputs, 0),
            commands |-> Append(s.commands,
              [fn |-> Transfer, args |-> Append(left, Input(Len(s.inputs) + 1))])]

-----------------------------------------------------------------------------
(* The actions.                                                             *)

Init ==
  /\ input = Empty /\ ptb = Empty /\ base = Empty
  /\ stack = <<>> /\ pc = "idle" /\ tries = 0 /\ res = "Skipped"
  /\ todo = <<>> /\ imap = <<>> /\ ctx = [seq |-> NoArg, call |-> NoArg]
  /\ rounds = 0

\* SequenceMutator::mutate up to the choice made by mutate_sequence.
begin_mutate ==
  /\ pc = "idle" /\ rounds < MaxRounds /\ Len(input.commands) <= MaxCommands
  /\ ptb' = strip_generated(input)
  /\ base' = ptb'
  /\ pc' \in IF Len(ptb'.commands) <= AlwaysGrow THEN {"grow"} ELSE {"grow", "shrink"}
  /\ rounds' = rounds + 1
  /\ tries' = 0 /\ res' = "Skipped"
  /\ UNCHANGED <<input, stack, todo, imap, ctx>>

\* mutate_sequence is over: apply_hooks starts on s.
StartWeave(s, r) ==
  /\ base' = s /\ ptb' = [s EXCEPT !.commands = <<>>]
  /\ todo' = Plan(s) /\ imap' = <<>> /\ ctx' = [seq |-> NoArg, call |-> NoArg]
  /\ pc' = "weave" /\ res' = r

remove_command ==
  /\ pc = "shrink"
  /\ \E c \in DOMAIN ptb.commands :
       LET gone == gen_remove_idxes(ptb, c) IN
       IF gone = DOMAIN ptb.commands THEN StartWeave(ptb, "Skipped")
       ELSE StartWeave(Without(ptb, gone), "Mutated")
  /\ UNCHANGED <<input, stack, tries, rounds>>

select_function ==
  /\ pc = "grow" /\ tries < MaxTries
  /\ tries' = tries + 1
  /\ \E f \in Targets : Enter(f, <<>>, {}, TRUE)
  /\ UNCHANGED <<input, ptb, base, res, todo, imap, ctx, rounds>>

tries_exhausted ==
  /\ pc = "grow" /\ tries = MaxTries
  /\ StartWeave(base, "Skipped")
  /\ UNCHANGED <<input, stack, tries, rounds>>

append_producer ==
  /\ pc = "append" /\ Holes(Top) # {} /\ Len(stack) <= MaxDepth
  /\ \E g \in ProducersOf(HoleType(Top), Top.fn) : Enter(g, <<>>, Top.moved, TRUE)
  /\ UNCHANGED <<input, ptb, base, tries, res, todo, imap, ctx, rounds>>

\* An activation returns None, and so do all its callers.  mutate_sequence goes
\* back to its snapshot; apply_hooks keeps what the producers appended.
append_fails ==
  /\ pc = "append"
  /\ IF Holes(Top) = {} THEN Clash(Top)
     ELSE ProducersOf(HoleType(Top), Top.fn) = {} \/ Len(stack) > MaxDepth
  /\ stack' = <<>>
  /\ IF todo = <<>> THEN pc' = "grow" /\ ptb' = base /\ UNCHANGED <<todo, ctx>>
     ELSE /\ pc' = "weave" /\ todo' = Tail(todo) /\ UNCHANGED ptb
          /\ ctx' = IF Head(todo).op = "create" THEN [ctx EXCEPT ![Head(todo).scope] = NoArg]
                    ELSE ctx
  /\ UNCHANGED <<input, base, tries, res, imap, rounds>>

\* The innermost activation appends its call and returns to its caller.
producer_returns ==
  /\ pc = "append" /\ Len(stack) > 1 /\ Holes(Top) = {} /\ ~Clash(Top)
  /\ ptb' = Appended(ptb, Top)
  /\ stack' = LET rest == Front(stack) IN
              [rest EXCEPT ![Len(rest)] = Filled(@, Top.fn, Len(ptb'.commands))]
  /\ UNCHANGED <<input, base, pc, tries, res, todo, imap, ctx, rounds>>

\* The target's own call is appended: mutate_sequence looks at what is left.
target_appended ==
  /\ pc = "append" /\ todo = <<>> /\ Len(stack) = 1 /\ Holes(Top) = {} /\ ~Clash(Top)
  /\ LET s == Appended(ptb, Top)
         splits == Len(SelectSeq(s.commands, IsSplit))
     IN  IF splits > MaxSplits THEN StartWeave(base, "Skipped")
         ELSE IF FromPtb(s).panic
              THEN pc' = "panic" /\ UNCHANGED <<ptb, base, todo, imap, ctx, res>>
         ELSE IF FromPtb(s).hot = <<>> THEN StartWeave(s, "Mutated")
         ELSE ptb' = s /\ pc' = "grow" /\ UNCHANGED <<base, todo, imap, ctx, res>>
  /\ stack' = <<>>
  /\ UNCHANGED <<input, tries, rounds>>

\* Mutant: index_map is not extended.
append_main_call_unmapped ==
  /\ pc = "weave" /\ todo # <<>> /\ Head(todo).op = "main"
  /\ LET c == Head(todo).cmd IN
     IF \A k \in DOMAIN base.commands[c].args : Mapped(base.commands[c].args[k])
     THEN ptb' = [ptb EXCEPT !.commands = Append(@, Remapped(c))] /\ pc' = "weave"
     ELSE pc' = "panic" /\ UNCHANGED ptb
  /\ todo' = Tail(todo)
  /\ UNCHANGED <<input, base, stack, tries, res, imap, ctx, rounds>>

\* apply_hooks: the next call is the one of the undecorated sequence.
append_main_call ==
  /\ pc = "weave" /\ todo # <<>> /\ Head(todo).op = "main"
  /\ LET c == Head(todo).cmd IN
     IF \A k \in DOMAIN base.commands[c].args : Mapped(base.commands[c].args[k])
     THEN /\ ptb' = [ptb EXCEPT !.commands = Append(@, Remapped(c))]
          /\ imap' = Append(imap, Len(ptb.commands) + 1)
          /\ pc' = "weave"
     ELSE pc' = "panic" /\ UNCHANGED <<ptb, imap>>
  /\ todo' = Tail(todo)
  /\ UNCHANGED <<input, base, stack, tries, res, ctx, rounds>>

\* append_context_creation, append_hook_call and append_context_destruction.
append_hook ==
  /\ pc = "weave" /\ todo # <<>> /\ Head(todo).op # "main"
  /\ LET it == Head(todo)
         fixed == CASE it.op = "create" -> <<>>
                    [] it.op = "hook" -> FixedArgs(it)
                    [] it.op = "destroy" -> <<ctx[it.scope]>>
         used == IF it.op = "hook" THEN Range(fixed) ELSE {}
         skip == \/ it.op = "destroy" /\ ctx[it.scope] = NoArg
                 \/ it.op = "hook" /\ it.cmd # 0 /\ ~Mirrors(it)
     IN  IF skip THEN todo' = Tail(todo) /\ UNCHANGED <<stack, pc>>
         ELSE Enter(it.fn, fixed, used, FALSE) /\ UNCHANGED todo
  /\ UNCHANGED <<input, ptb, base, tries, res, imap, ctx, rounds>>

hook_appended ==
  /\ pc = "append" /\ todo # <<>> /\ Len(stack) = 1 /\ Holes(Top) = {} /\ ~Clash(Top)
  /\ ptb' = Appended(ptb, Top)
  /\ ctx' = IF Head(todo).op = "create"
            THEN [ctx EXCEPT ![Head(todo).scope] = Returned(Len(ptb'.commands), Create, 1)]
            ELSE ctx
  /\ todo' = Tail(todo) /\ stack' = <<>> /\ pc' = "weave"
  /\ UNCHANGED <<input, base, tries, res, imap, rounds>>

process_leftovers ==
  /\ pc = "weave" /\ todo = <<>>
  /\ LET s == process_balance(ptb) IN
     IF FromPtb(ptb).panic \/ FromPtb(s).panic THEN pc' = "panic" /\ UNCHANGED ptb
     ELSE ptb' = process_key_store(s) /\ pc' = "done"
  /\ UNCHANGED <<input, base, stack, tries, res, todo, imap, ctx, rounds>>

\* The types that argument a of command c has and must have.
TypeOf(s, a) ==
  CASE a.kind = "input" -> IF s.inputs[a.i] = 0 THEN "pure" ELSE Objects[s.inputs[a.i]].ty
    [] a.kind = "result" -> Abi[s.commands[a.i].fn].returns[1]
    [] a.kind = "nested" -> Abi[s.commands[a.i].fn].returns[a.j]

\* The arguments of calls that take p's object away, as <<command, position>>.
Moves(s) ==
  {m \in UNION {{c} \X DOMAIN s.commands[c].args :
                  c \in {c \in DOMAIN s.commands : IsCall(s.commands[c])}} :
     Abi[s.commands[m[1]].fn].params[m[2]].mode = "value"}
ArgAt(s, m) == s.commands[m[1]].args[m[2]]

\* External: the executor of Sui runs a sequence to the end only if nothing is
\* used after it was moved and no hot potato is left.
Runs(s) ==
  /\ ~FromPtb(s).panic /\ FromPtb(s).hot = <<>>
  /\ \A m \in Moves(s) : \A c \in DOMAIN s.commands : \A k \in DOMAIN s.commands[c].args :
       s.commands[c].args[k] = ArgAt(s, m) => c < m[1] \/ <<c, k>> = m

\* The fuzzer runs what was mutated and may keep it for another round.
execute ==
  /\ pc = "done" /\ pc' = "idle"
  /\ input' \in {input} \cup {s \in {ptb} : res = "Mutated" /\ Runs(s)}
  /\ ptb' = Empty /\ base' = Empty /\ imap' = <<>>
  /\ ctx' = [seq |-> NoArg, call |-> NoArg] /\ res' = "Skipped"
  /\ tries' = 0
  /\ UNCHANGED <<stack, todo, rounds>>

Next ==
  \/ begin_mutate \/ remove_command \/ select_function \/ tries_exhausted
  \/ append_producer \/ append_fails \/ producer_returns \/ target_appended
  \/ append_main_call \/ append_hook \/ hook_appended \/ process_leftovers \/ execute

Spec == Init /\ [][Next]_vars

-----------------------------------------------------------------------------
(* Properties.                                                              *)

\* No edit runs into one of the mutator's panics: ObjectData::from_ptb finds
\* every object and hot potato a call takes ("Expected existing objects for
\* command"), and remap_arg finds every command ("missing mapping").
NoPanic == pc # "panic"

\* Every argument names an input or the result of an earlier call, of the type
\* that the parameter asks for, however often calls were inserted, removed and
\* renumbered.
WellTyped ==
  \A c \in DOMAIN ptb.commands : IsCall(ptb.commands[c]) =>
    LET f == ptb.commands[c].fn IN
    \A k \in DOMAIN Abi[f].params :
      LET a == ptb.commands[c].args[k] IN
      /\ IF Refers(a) THEN a.i < c ELSE a.i <= Len(ptb.inputs)
      /\ TypeOf(ptb, a) = (IF Abi[f].params[k].mode = "pure" THEN "pure" ELSE Abi[f].params[k].ty)

\* No object is an input twice, and none is moved by two calls or twice by one.
MovedOnce ==
  /\ \A i, j \in DOMAIN ptb.inputs : ptb.inputs[i] = ptb.inputs[j] /\ ptb.inputs[i] # 0 => i = j
  /\ \A m, n \in Moves(ptb) : ArgAt(ptb, m) = ArgAt(ptb, n) => m = n

\* A sequence reported as Mutated leaves no hot potato behind, whether a call
\* was added or calls were removed, and neither do the woven hooks.
PotatoesResolved == pc = "done" /\ res = "Mutated" => FromPtb(ptb).hot = <<>>

\* Stripping what was generated gives back the calls that were decorated.
StripRestores == pc = "done" => strip_generated(ptb).commands = base.commands
=============================================================================
