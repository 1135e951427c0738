----------------------------- MODULE SerilangVM -----------------------------
(***************************************************************************)
(* One fiber of serilang executing what the code generator made of a text: *)
(* the instructions of vm/vm.cpp on operands, frames and handlers, calls   *)
(* (vm/function.cpp, vm/object.cpp) and the pipeline that turns the lines  *)
(* of a session into chunks (m6/compiler_pipeline.hpp, repl.cpp).          *)
(*                                                                         *)
(* What other fibers do is FiberRuntime's subject.  Here an awaited future *)
(* is answered by the environment, and a Yield, which only a spawned fiber *)
(* can go on from, ends the line.                                          *)
(***************************************************************************)
EXTENDS M6Codegen, M6Parser

CONSTANTS Sessions,    \* the sessions there may be, a sequence
          Modules,     \* what import finds: a function from names to their globals
          MaxAwaits    \* bound: later awaits are answered with 0

VARIABLES session,     \* what is run: [repl, lines, text], and text is lines as tokens
          gen,         \* the generator of the pipeline; its chunks are the compiled code
          phase,       \* "compile", "run" or "end"
          frames,      \* frames of the fiber, outermost first
          stack,       \* op_stack
          result,      \* how the fiber has ended
          globals,     \* globals_
          heap,        \* the objects: lists, instances, classes, modules
          out,         \* what has been printed
          answers,     \* what awaits were answered, in order
          outcomes     \* one for every line that is over

vars == <<session, gen, phase, frames, stack, result, globals, heap, out, answers, outcomes>>
fiber == <<frames, stack, result>>
world == <<globals, heap, out, answers>>
host == <<session, gen, phase, outcomes>>

Running == [how |-> "running", shown |-> NilV]
Ended(v) == [how |-> "value", shown |-> v]
Failure == [how |-> "error", shown |-> NilV]
Suspended == [how |-> "suspended", shown |-> NilV]
Rejected == [how |-> "rejected", shown |-> NilV]

\* objects and values made at run time
Ref(t, n) == [type |-> t, ref |-> n]
Method(self, f) == [type |-> "bound", self |-> self, method |-> f]
Native(x) == [type |-> "native", name |-> x]
Future == [type |-> "future"]
ErrorV == [type |-> "str", str |-> "error"]     \* the message of any runtime error
Unbound == [type |-> "unbound"]

Builtins == [x \in {"print", "import", "fut", ReplPrintName} |->
               IF x = "fut" THEN Future ELSE Native(x)]

\* Value::Str: plain values and what lists and dictionaries hold of them; other
\* objects are shown by their type
ShownPlainly(v) == IF v.type \in {"nil", "bool", "int", "str"} THEN v ELSE [type |-> v.type]
Shown(v) ==
  CASE v.type = "list" ->
         [type |-> "list", items |-> [i \in DOMAIN heap[v.ref].items |->
                                        ShownPlainly(heap[v.ref].items[i])]]
    [] v.type = "dict" ->
         [type |-> "dict", entries |-> [x \in DOMAIN v.entries |-> ShownPlainly(v.entries[x])]]
    [] OTHER -> ShownPlainly(v)
IsTruthy(v) ==
  CASE v.type = "nil" -> FALSE
    [] v.type = "bool" -> v.truth
    [] v.type = "int" -> v.int # 0
    [] OTHER -> TRUE

\* std::vector::resize
Resize(s, n) == [i \in 1..n |-> IF i <= Len(s) THEN s[i] ELSE NilV]
Top(s, n) == s[Len(s) - n]
Drop(s, n) == SubSeq(s, 1, Len(s) - n)
Updated(f, x, v) == [y \in DOMAIN f \cup {x} |-> IF y = x THEN v ELSE f[y]]

Frame == frames[Len(frames)]
Chunk(c) == gen.chunks[c]
Ins == Chunk(Frame.chunk).code[Frame.ip]
\* the switch of ExecuteFiber
At(op) == /\ phase = "run" /\ result = Running
          /\ Frame.ip <= Len(Chunk(Frame.chunk).code) /\ Ins.op = op
\* ip after the operands of the instruction have been read
Advanced == [frames EXCEPT ![Len(frames)].ip = @ + 1]

Goes(fs, st) == frames' = fs /\ stack' = st /\ UNCHANGED result
Pushes(st, v) == Goes(Advanced, Append(st, v))
Killed(r) == frames' = << >> /\ stack' = << >> /\ result' = r

\* Mutant of Raise: the handler stays.
RaiseAgain(fs, st, exc) ==
  LET catching == {i \in DOMAIN fs : fs[i].handlers # << >>}
      i == Max(catching)
      h == Last(fs[i].handlers)
      below == IF i = Len(fs) THEN st ELSE Resize(st, fs[i + 1].bp)
  IN IF catching = {} THEN Killed(Failure)
     ELSE Goes([SubSeq(fs, 1, i) EXCEPT ![i].ip = h.ip], Append(Resize(below, h.top), exc))

\* VM::Error: the innermost handler of any frame gets the exception
Raise(fs, st, exc) ==
  LET catching == {i \in DOMAIN fs : fs[i].handlers # << >>}
      i == Max(catching)
      h == Last(fs[i].handlers)
      below == IF i = Len(fs) THEN st ELSE Resize(st, fs[i + 1].bp)
  IN IF catching = {} THEN Killed(Failure)
     ELSE Goes([SubSeq(fs, 1, i) EXCEPT ![i].ip = h.ip, ![i].handlers = Front(@)],
               Append(Resize(below, h.top), exc))
Fails == Raise(Advanced, stack, ErrorV)

-----------------------------------------------------------------------------
\* Calls

\* ArgumentList::Load: the locals of a call, none if the arguments do not fit; rest
\* is the list of the positional arguments beyond the parameters
Beyond(f, args) == SubSeq(args, f.nparam + 1, Len(args))
LoadArguments(f, callee, args, kws, rest) ==
  LET named == {kws[i].name : i \in DOMAIN kws}
      first(x) == kws[Min({i \in DOMAIN kws : kws[i].name = x})].value
      hits == named \cap DOMAIN f.params
      extra == named \ DOMAIN f.params
      at(i) == CHOOSE x \in hits : f.params[x] = i
      byName == {f.params[x] : x \in hits}
      given == 0..(Min({Len(args), f.nparam}) - 1)
      missing == ((0..(f.nparam - 1)) \ (given \cup byName)) \ DOMAIN f.defaults
      argument(i) == CASE i \in given -> args[i + 1]
                       [] i \in byName -> first(at(i))
                       [] OTHER -> f.defaults[i]
      others == [type |-> "dict", entries |-> [x \in extra |-> first(x)]]
      fixed == <<callee>> \o [i \in 1..f.nparam |-> argument(i - 1)]
                 \o (IF f.vararg THEN <<rest>> ELSE << >>)
                 \o (IF f.kwarg THEN <<others>> ELSE << >>)
  IN IF \/ Len(args) > f.nparam /\ ~f.vararg
        \/ given \cap byName # {}
        \/ missing # {}
        \/ extra # {} /\ ~f.kwarg
     THEN << >>
     ELSE [i \in 1..Len(Chunk(f.chunk).fast) |-> IF i <= Len(fixed) THEN fixed[i] ELSE Unbound]

\* the positional and the keyword arguments on top of st
PosArgs(st, n, k) == SubSeq(st, Len(st) - n - 2 * k + 1, Len(st) - 2 * k)
KwArgs(st, k) ==
  [i \in 1..k |-> [name |-> st[Len(st) - 2 * (k - i) - 1].str, value |-> st[Len(st) - 2 * (k - i)]]]

\* Mutant of NewFrame: the callee stays below the frame.
NewFrameAbove(f, base, locals) ==
  [chunk |-> f.chunk, ip |-> 1, bp |-> base, locals |-> locals, handlers |-> << >>]
\* a frame for f, whose callee is at base
NewFrame(f, base, locals) ==
  [chunk |-> f.chunk, ip |-> 1, bp |-> base - 1, locals |-> locals, handlers |-> << >>]

\* Function::Call; the callee is below its arguments on st, and objects is the
\* heap so far
CallFunction(fs, st, f, n, k, objects) ==
  LET base == Len(st) - n - 2 * k
      args == PosArgs(st, n, k)
      locals == LoadArguments(f, st[base], args, KwArgs(st, k), Ref("list", Len(objects) + 1))
  IN IF locals = << >> THEN Raise(fs, st, ErrorV) /\ heap' = objects
     ELSE /\ Goes(Append(fs, NewFrame(f, base, locals)),
                  SubSeq(st, 1, base - 1))
          /\ heap' = IF f.vararg THEN Append(objects, [items |-> Beyond(f, args)]) ELSE objects

\* NativeFunction::Call: print, __repl_print__ and import
CallNative(fs, st, f, n, k) ==
  LET args == PosArgs(st, n, k)
      below == Drop(st, n + 2 * k + 1)
      printed == IF f.name = ReplPrintName THEN SelectSeq(args, LAMBDA v : v # NilV) ELSE args
  IN IF f.name = "import"
     THEN /\ Goes(fs, Append(below, Ref("module", Modules[args[1].str].ref)))
          /\ UNCHANGED out
     ELSE /\ Goes(fs, Append(below, NilV))
          /\ out' = out \o [i \in DOMAIN printed |-> Shown(printed[i])]

\* IObject::Call of whatever is to be called
Invoke(fs, st, n, k) ==
  LET base == Len(st) - n - 2 * k
      callee == st[base]
      klass == heap[callee.ref]
      inst == Ref("instance", Len(heap) + 1)
      allocated == Append(heap, [klass |-> callee.ref, fields |-> << >>])
  IN \/ /\ callee.type = "function"
        /\ CallFunction(fs, st, callee, n, k, heap)
        /\ UNCHANGED out
     \/ /\ callee.type = "bound"
        /\ CallFunction(fs, InsertAt([st EXCEPT ![base] = callee.method], base + 1, callee.self),
                        callee.method, n + 1, k, heap)
        /\ UNCHANGED out
     \/ /\ callee.type = "class"
        /\ "__init__" \in DOMAIN klass.memfns
        /\ CallFunction(fs, InsertAt([st EXCEPT ![base] = inst], base, klass.memfns["__init__"]),
                        klass.memfns["__init__"], n + 1, k, allocated)
        /\ UNCHANGED out
     \/ /\ callee.type = "class"
        /\ "__init__" \notin DOMAIN klass.memfns
        /\ heap' = allocated
        /\ IF n = 0 /\ k = 0 THEN Goes(fs, [st EXCEPT ![base] = inst]) ELSE Raise(fs, st, ErrorV)
        /\ UNCHANGED out
     \/ /\ callee.type = "native"
        /\ CallNative(fs, st, callee, n, k)
        /\ UNCHANGED heap
     \/ /\ callee.type \notin {"function", "bound", "class", "native"}
        /\ Raise(fs, st, ErrorV)
        /\ UNCHANGED <<heap, out>>

\* what an instance finds under a name, also for ResolveMagic: a set of at most one value
MemberOf(v, x) ==
  LET object == heap[v.ref]
      klass == heap[object.klass]
  IN CASE x \in DOMAIN object.fields -> {object.fields[x]}
       [] x \in DOMAIN klass.memfns -> {klass.memfns[x]}
       [] x \in DOMAIN klass.fields -> {klass.fields[x]}
       [] OTHER -> {}
IsMethod(v, x) == /\ x \notin DOMAIN heap[v.ref].fields
                  /\ x \in DOMAIN heap[heap[v.ref].klass].memfns
Magic(v, x) == IF v.type = "instance" /\ x # "" THEN MemberOf(v, x) ELSE {}

-----------------------------------------------------------------------------
\* Instructions
ExecPush == At("Push") /\ Pushes(stack, Ins.value) /\ UNCHANGED <<world, host>>
ExecDup == At("Dup") /\ Pushes(stack, Top(stack, Ins.count)) /\ UNCHANGED <<world, host>>
ExecSwap ==
  /\ At("Swap")
  /\ Goes(Advanced, Drop(stack, 2) \o <<Top(stack, 0), Top(stack, 1)>>)
  /\ UNCHANGED <<world, host>>
ExecPop ==
  /\ At("Pop")
  /\ IF Len(stack) < Ins.count THEN Fails ELSE Goes(Advanced, Drop(stack, Ins.count))
  /\ UNCHANGED <<world, host>>

\* primops on integers; other operands have no operator here
Evaluate(op, l, r) ==
  CASE op = "-" -> IntV(l.int - r.int)
    [] op = "+" -> IntV(l.int + r.int)
    [] op = "<" -> BoolV(l.int < r.int)
MagicNames == [op \in {"-", "+", "<"} |->
                 CASE op = "-" -> <<"__sub__", "__rsub__">>
                   [] op = "+" -> <<"__add__", "__radd__">>
                   [] op = "<" -> <<"__lt__", "__rlt__">>]

ExecUnaryOp ==
  /\ At("UnaryOp")
  /\ LET v == Top(stack, 0)
         below == Drop(stack, 1)
         magic == Magic(v, IF Ins.operator = "-" THEN "__neg__" ELSE "")
     IN \/ \E f \in magic : Invoke(Advanced, below \o <<f, v>>, 1, 0)
        \/ /\ magic = {}
           /\ IF v.type = "int" THEN Pushes(below, IntV(-v.int)) ELSE Raise(Advanced, below, ErrorV)
           /\ UNCHANGED <<heap, out>>
  /\ UNCHANGED <<globals, answers, host>>

\* TryDispatchBinaryMagic, then EvaluateBinary
ExecBinaryOp ==
  /\ At("BinaryOp")
  /\ LET r == Top(stack, 0)
         l == Top(stack, 1)
         below == Drop(stack, 2)
         left == Magic(l, MagicNames[Ins.operator][1])
         right == Magic(r, MagicNames[Ins.operator][2])
     IN \/ \E f \in left : Invoke(Advanced, below \o <<f, l, r>>, 2, 0)
        \/ /\ left = {}
           /\ \E f \in right : Invoke(Advanced, below \o <<f, r, l>>, 2, 0)
        \/ /\ left = {} /\ right = {}
           /\ IF l.type = "int" /\ r.type = "int"
              THEN Pushes(below, Evaluate(Ins.operator, l, r)) ELSE Raise(Advanced, below, ErrorV)
           /\ UNCHANGED <<heap, out>>
  /\ UNCHANGED <<globals, answers, host>>

ExecLoadFast ==
  /\ At("LoadFast")
  /\ LET v == Frame.locals[Ins.slot + 1] IN IF v = Unbound THEN Fails ELSE Pushes(stack, v)
  /\ UNCHANGED <<world, host>>
ExecStoreFast ==
  /\ At("StoreFast")
  /\ Goes([Advanced EXCEPT ![Len(frames)].locals[Ins.slot + 1] = Top(stack, 0)], Drop(stack, 1))
  /\ UNCHANGED <<world, host>>
ExecLoadGlobal ==
  /\ At("LoadGlobal")
  /\ CASE Ins.name \in DOMAIN globals -> Pushes(stack, globals[Ins.name])
       [] Ins.name \in DOMAIN Builtins \ DOMAIN globals -> Pushes(stack, Builtins[Ins.name])
       [] OTHER -> Fails
  /\ UNCHANGED <<world, host>>
ExecStoreGlobal ==
  /\ At("StoreGlobal")
  /\ globals' = Updated(globals, Ins.name, Top(stack, 0))
  /\ Goes(Advanced, Drop(stack, 1))
  /\ UNCHANGED <<heap, out, answers, host>>

Jumped == [frames EXCEPT ![Len(frames)].ip = @ + 1 + Ins.offset]
ExecJump == At("Jump") /\ Goes(Jumped, stack) /\ UNCHANGED <<world, host>>
ExecJumpIfFalse ==
  /\ At("JumpIfFalse")
  /\ Goes(IF IsTruthy(Top(stack, 0)) THEN Advanced ELSE Jumped, Drop(stack, 1))
  /\ UNCHANGED <<world, host>>

\* VM::Return, for the instruction and for the end of the code
ExecReturn ==
  /\ phase = "run" /\ result = Running
  /\ Frame.ip <= Len(Chunk(Frame.chunk).code) => Ins.op = "Return"
  /\ LET v == IF stack = << >> THEN NilV ELSE Top(stack, 0) IN
     IF Len(frames) = 1 THEN Killed(Ended(Shown(v)))
     ELSE Goes(Front(frames), Append(Resize(stack, Frame.bp), v))
  /\ UNCHANGED <<world, host>>

\* (code, name and value of the defaults, names of the parameters) -> (function)
ExecMakeFunction ==
  /\ At("MakeFunction")
  /\ LET names == SubSeq(stack, Len(stack) - Ins.nparam + 1, Len(stack))
         rest == Drop(stack, Ins.nparam)
         defaults == SubSeq(rest, Len(rest) - 2 * Ins.ndefault + 1, Len(rest))
         below == Drop(rest, 2 * Ins.ndefault)
         index(x) == Min({i \in DOMAIN names : names[i].str = x}) - 1
         value(i) == defaults[2 * CHOOSE j \in 1..Ins.ndefault : index(defaults[2 * j - 1].str) = i]
     IN Goes(Advanced,
          Append(Drop(below, 1),
            [type |-> "function", chunk |-> Top(below, 0).chunk, nparam |-> Ins.nparam,
             params |-> [x \in {names[i].str : i \in DOMAIN names} |-> index(x)],
             defaults |-> [i \in {index(defaults[2 * j - 1].str) : j \in 1..Ins.ndefault} |-> value(i)],
             vararg |-> Ins.vararg, kwarg |-> Ins.kwarg]))
  /\ UNCHANGED <<world, host>>

ExecCall ==
  /\ At("Call")
  /\ Invoke(Advanced, stack, Ins.argcnt, Ins.kwargcnt)
  /\ UNCHANGED <<globals, answers, host>>

ExecMakeList ==
  /\ At("MakeList")
  /\ heap' = Append(heap, [items |-> SubSeq(stack, Len(stack) - Ins.count + 1, Len(stack))])
  /\ Pushes(Drop(stack, Ins.count), Ref("list", Len(heap) + 1))
  /\ UNCHANGED <<globals, out, answers, host>>

\* functions are popped from the last to the first, and the first one popped stays
ExecMakeClass ==
  /\ At("MakeClass")
  /\ LET n == Ins.nmemfn + Ins.nstaticfn
         pair(i) == [name |-> stack[Len(stack) - 2 * (n - i) - 1].str,
                     fn |-> stack[Len(stack) - 2 * (n - i)]]
         table(I) == [x \in {pair(i).name : i \in I} |-> pair(Max({i \in I : pair(i).name = x})).fn]
     IN /\ heap' = Append(heap, [memfns |-> table(1..Ins.nmemfn), fields |-> table((Ins.nmemfn + 1)..n)])
        /\ Pushes(Drop(stack, 2 * n), Ref("class", Len(heap) + 1))
  /\ UNCHANGED <<globals, out, answers, host>>

ExecGetField ==
  /\ At("GetField")
  /\ LET v == Top(stack, 0)
         below == Drop(stack, 1)
     IN CASE v.type = "instance" ->
               IF MemberOf(v, Ins.name) = {} THEN Raise(Advanced, below, ErrorV)
               ELSE LET f == CHOOSE f \in MemberOf(v, Ins.name) : TRUE IN
                    Pushes(below, IF IsMethod(v, Ins.name) THEN Method(v, f) ELSE f)
          [] v.type = "module" ->
               IF Ins.name \in DOMAIN heap[v.ref].fields
               THEN Pushes(below, heap[v.ref].fields[Ins.name]) ELSE Raise(Advanced, below, ErrorV)
          [] OTHER -> Raise(Advanced, below, ErrorV)
  /\ UNCHANGED <<world, host>>

ExecSetField ==
  /\ At("SetField")
  /\ LET v == Top(stack, 1)
         below == Drop(stack, 2)
     IN IF v.type \in {"instance", "module"}
        THEN /\ heap' = [heap EXCEPT ![v.ref].fields = Updated(@, Ins.name, Top(stack, 0))]
             /\ Goes(Advanced, below)
        ELSE Raise(Advanced, below, ErrorV) /\ UNCHANGED heap
  /\ UNCHANGED <<globals, out, answers, host>>

\* the position an index names in a list of n items: a set of at most one
Position(i, n) ==
  IF i.type # "int" THEN {}
  ELSE {IF i.int < 0 THEN n + i.int + 1 ELSE i.int + 1} \cap (1..n)

ExecGetItem ==
  /\ At("GetItem")
  /\ LET v == Top(stack, 1)
         i == Top(stack, 0)
         at == Position(i, Len(heap[v.ref].items))
         method == heap[heap[v.ref].klass].memfns
     IN \/ /\ v.type = "list"
           /\ IF at = {} THEN Raise(Advanced, stack, ErrorV)
              ELSE Pushes(Drop(stack, 2), heap[v.ref].items[CHOOSE p \in at : TRUE])
           /\ UNCHANGED <<heap, out>>
        \/ /\ v.type = "instance" /\ "__getitem__" \in DOMAIN method
           /\ Invoke(Advanced, Drop(stack, 2) \o <<method["__getitem__"], v, i>>, 2, 0)
        \/ /\ v.type # "list"
           /\ v.type = "instance" => "__getitem__" \notin DOMAIN method
           /\ Raise(Advanced, stack, ErrorV)
           /\ UNCHANGED <<heap, out>>
  /\ UNCHANGED <<globals, answers, host>>

\* what an instance's __setitem__ returns stays on the stack
ExecSetItem ==
  /\ At("SetItem")
  /\ LET v == Top(stack, 2)
         i == Top(stack, 1)
         below == Drop(stack, 3)
         at == Position(i, Len(heap[v.ref].items))
         method == heap[heap[v.ref].klass].memfns
     IN \/ /\ v.type = "list"
           /\ IF at = {} THEN Raise(Advanced, below, ErrorV) /\ UNCHANGED heap
              ELSE /\ heap' = [heap EXCEPT ![v.ref].items[CHOOSE p \in at : TRUE] = Top(stack, 0)]
                   /\ Goes(Advanced, below)
           /\ UNCHANGED out
        \/ /\ v.type = "instance" /\ "__setitem__" \in DOMAIN method
           /\ Invoke(Advanced, below \o <<method["__setitem__"], v, i, Top(stack, 0)>>, 3, 0)
        \/ /\ v.type # "list"
           /\ v.type = "instance" => "__setitem__" \notin DOMAIN method
           /\ Raise(Advanced, stack, ErrorV)
           /\ UNCHANGED <<heap, out>>
  /\ UNCHANGED <<globals, answers, host>>

\* the answer of a future: 0, 1 or an error; what cannot be awaited is an error
ExecAwait ==
  /\ At("Await")
  /\ LET below == Drop(stack, 1) IN
     IF Top(stack, 0) = Future
     THEN \E a \in IF Len(answers) < MaxAwaits THEN {"0", "1", "error"} ELSE {"0"} :
            /\ answers' = Append(answers, a)
            /\ IF a = "error" THEN Raise(Advanced, below, ErrorV)
               ELSE Pushes(below, IntV(IF a = "1" THEN 1 ELSE 0))
     ELSE Raise(Advanced, below, ErrorV) /\ UNCHANGED answers
  /\ UNCHANGED <<globals, heap, out, host>>

ExecYield ==
  /\ At("Yield")
  /\ Killed(Suspended)
  /\ UNCHANGED <<world, host>>

ExecThrow == At("Throw") /\ Raise(Advanced, Drop(stack, 1), Top(stack, 0)) /\ UNCHANGED <<world, host>>

ExecTryBegin ==
  /\ At("TryBegin")
  /\ Goes([Advanced EXCEPT ![Len(frames)].handlers =
             Append(@, [ip |-> Frame.ip + 1 + Ins.offset, top |-> Len(stack)])], stack)
  /\ UNCHANGED <<world, host>>
ExecTryEnd ==
  /\ At("TryEnd")
  /\ Goes([Advanced EXCEPT ![Len(frames)].handlers = IF @ = << >> THEN @ ELSE Front(@)], stack)
  /\ UNCHANGED <<world, host>>

-----------------------------------------------------------------------------
\* The pipeline and its host

Line == Len(outcomes) + 1
NextPhase == IF Line < Len(session.lines) THEN "compile" ELSE "end"

\* compile: a text that is refused leaves what was generated for it behind
Generated(parsed, g) ==
  IF Failed(parsed) \/ ~g.ok
  THEN /\ gen' = IF Failed(parsed) THEN gen ELSE [g EXCEPT !.ok = TRUE]
       /\ outcomes' = Append(outcomes, Rejected)
       /\ phase' = NextPhase
       /\ UNCHANGED fiber
  ELSE \* Get and VM::AddFiber
       /\ gen' = FreshCode([g EXCEPT !.chunks = Append(@, ChunkOf(g))])
       /\ frames' = <<[chunk |-> Len(g.chunks) + 1, ip |-> 1, bp |-> 0,
                       locals |-> << >>, handlers |-> << >>]>>
       /\ stack' = << >> /\ result' = Running
       /\ phase' = "run"
       /\ UNCHANGED outcomes
Parsed(parsed) == Generated(parsed, EmitAll(gen, parsed.ast))
Compile ==
  /\ phase = "compile"
  /\ Parsed(ParseAll(session.text[Line]))
  /\ UNCHANGED <<session, world>>

\* the session is over
Finished == phase = "end" /\ UNCHANGED vars

\* Evaluate returns, or throws what the fiber did not catch
LineEnds ==
  /\ phase = "run" /\ result # Running
  /\ outcomes' = Append(outcomes, result)
  /\ phase' = NextPhase
  /\ UNCHANGED <<session, gen, fiber, world>>

Init ==
  /\ \E i \in DOMAIN Sessions : session = Sessions[i]
  /\ gen = NewGenerator(session.repl)
  /\ phase = "compile"
  /\ frames = << >> /\ stack = << >> /\ result = Running
  /\ globals = << >>
  /\ heap = [r \in 1..Cardinality(DOMAIN Modules) |->
               [fields |-> Modules[CHOOSE m \in DOMAIN Modules : Modules[m].ref = r].fields]]
  /\ out = << >> /\ answers = << >> /\ outcomes = << >>

Stacks == ExecPush \/ ExecDup \/ ExecSwap \/ ExecPop \/ ExecMakeList
Operators == ExecUnaryOp \/ ExecBinaryOp
Variables == ExecLoadFast \/ ExecStoreFast \/ ExecLoadGlobal \/ ExecStoreGlobal
Control == ExecJump \/ ExecJumpIfFalse \/ ExecCall \/ ExecReturn
Objects == ExecMakeFunction \/ ExecMakeClass \/ ExecGetField \/ ExecSetField \/ ExecGetItem
             \/ ExecSetItem
Exceptions == ExecThrow \/ ExecTryBegin \/ ExecTryEnd
Fibers == ExecAwait \/ ExecYield

Next == \/ Compile \/ LineEnds \/ Finished
        \/ Stacks \/ Operators \/ Variables \/ Control \/ Objects \/ Exceptions \/ Fibers

Spec == Init /\ [][Next]_vars
=============================================================================
