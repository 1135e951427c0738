----------------------------- MODULE M6Codegen -----------------------------
(***************************************************************************)
(* The code generator of serilang (m6/codegen.cpp).                        *)
(*                                                                         *)
(* A generator is a record of its members.  Code is a sequence of          *)
(* instructions, so a position counts instructions where the code counts   *)
(* bytes; a constant stands in the instruction that pushes it instead of   *)
(* in the constant pool.  A finished chunk goes to the sequence `chunks'   *)
(* and is named by its index.                                              *)
(*                                                                         *)
(* `rest', `opens' and `closes' record, for the properties only, the       *)
(* positions where a statement begins and where each try body begins and   *)
(* ends.                                                                   *)
(***************************************************************************)
EXTENDS M6Ast, SequencesExt

\* compiled code as a constant
CodeV(c) == [type |-> "code", chunk |-> c]

CONSTANT ReplPrintName   \* kReplPrintName

\* instructions (vm/instruction.hpp)
Push(v) == [op |-> "Push", value |-> v]
Dup(n) == [op |-> "Dup", count |-> n]
Swap == [op |-> "Swap"]
Pop(n) == [op |-> "Pop", count |-> n]
UnaryOp(o) == [op |-> "UnaryOp", operator |-> o]
BinaryOp(o) == [op |-> "BinaryOp", operator |-> o]
LoadFast(s) == [op |-> "LoadFast", slot |-> s]
StoreFast(s) == [op |-> "StoreFast", slot |-> s]
LoadGlobal(x) == [op |-> "LoadGlobal", name |-> x]
StoreGlobal(x) == [op |-> "StoreGlobal", name |-> x]
Jump == [op |-> "Jump", offset |-> 0]
JumpIfFalse == [op |-> "JumpIfFalse", offset |-> 0]
Return == [op |-> "Return"]
MakeFunction(np, nd, va, kw) ==
  [op |-> "MakeFunction", nparam |-> np, ndefault |-> nd, vararg |-> va, kwarg |-> kw]
Call(n, k) == [op |-> "Call", argcnt |-> n, kwargcnt |-> k]
MakeList(n) == [op |-> "MakeList", count |-> n]
MakeClass(x, m, s) == [op |-> "MakeClass", name |-> x, nmemfn |-> m, nstaticfn |-> s]
GetField(x) == [op |-> "GetField", name |-> x]
SetField(x) == [op |-> "SetField", name |-> x]
GetItem == [op |-> "GetItem"]
SetItem == [op |-> "SetItem"]
Await == [op |-> "Await"]
Yield == [op |-> "Yield"]
Throw == [op |-> "Throw"]
TryBegin == [op |-> "TryBegin", offset |-> 0]
TryEnd == [op |-> "TryEnd"]

-----------------------------------------------------------------------------
Emit(g, ins) == [g EXCEPT !.code = Append(@, ins)]
\* the position of the next instruction
Here(g) == Len(g.code) + 1

\* the jump at site goes to target; offsets count from the instruction after it
Patch(g, site, target) == [g EXCEPT !.code[site].offset = target - (site + 1)]

AddError(g) == [g EXCEPT !.ok = FALSE]

FreshCode(g) ==
  [g EXCEPT !.code = << >>, !.fast = << >>, !.rest = {}, !.opens = << >>, !.closes = << >>]

\* the constructor; in REPL mode the first chunk begins with a handler
ReplPrologue(g) ==
  LET a == Emit(Emit(Emit(Emit(Emit(g, Jump), LoadGlobal(ReplPrintName)), Swap),
                     Call(1, 0)), Return)
      b == Emit(Patch(a, 1, Here(a)), TryBegin)
  IN Patch(b, 6, 2)
NewGenerator(repl) ==
  LET g == [code |-> << >>, fast |-> << >>, locals |-> << >>, scope |-> {},
            mode |-> "Global", depth |-> 0, repl |-> repl, ok |-> TRUE,
            chunks |-> << >>, rest |-> {}, opens |-> << >>, closes |-> << >>]
  IN IF repl THEN ReplPrologue(g) ELSE g

\* names: locals maps the names of a function to slots, counted from 0
AddLocal(g, x) ==
  [g EXCEPT !.locals = [y \in DOMAIN @ \cup {x} |-> IF y = x THEN Len(g.fast) ELSE @[y]],
            !.fast = Append(@, x)]
IsLocal(g, x) == g.mode # "Global" /\ x \in DOMAIN g.locals

StoreVar(g, x) ==
  CASE g.mode = "Global" \/ x \in g.scope -> Emit(g, StoreGlobal(x))
    [] IsLocal(g, x) -> Emit(g, StoreFast(g.locals[x]))
    [] OTHER -> Emit(AddLocal(g, x), StoreFast(Len(g.fast)))

LoadVar(g, x) ==
  IF x \notin g.scope /\ IsLocal(g, x)
  THEN Emit(g, LoadFast(g.locals[x])) ELSE Emit(g, LoadGlobal(x))

-----------------------------------------------------------------------------
\* Expressions
RECURSIVE EmitExpr(_, _), EmitStmt(_, _), EmitAll(_, _)

EmitNamed(g, a) == EmitExpr(Emit(g, Push(StrV(a.name))), a.value)

EmitExpr(g, e) ==
  CASE e.node \in {"nil", "absent"} -> Emit(g, Push(NilV))
    [] e.node = "true" -> Emit(g, Push(BoolV(TRUE)))
    [] e.node = "false" -> Emit(g, Push(BoolV(FALSE)))
    [] e.node = "int" -> Emit(g, Push(IntV(e.int)))
    [] e.node = "str" -> Emit(g, Push(StrV(e.str)))
    [] e.node = "list" -> Emit(FoldLeft(EmitExpr, g, e.elements), MakeList(Len(e.elements)))
    [] e.node = "id" -> LoadVar(g, e.name)
    [] e.node = "unary" -> Emit(EmitExpr(g, e.sub), UnaryOp(e.op))
    [] e.node = "binary" -> Emit(EmitExpr(EmitExpr(g, e.lhs), e.rhs), BinaryOp(e.op))
    [] e.node = "paren" -> EmitExpr(g, e.sub)
    [] e.node = "invoke" ->
         Emit(FoldLeft(EmitNamed, FoldLeft(EmitExpr, EmitExpr(g, e.sub), e.args), e.kwargs),
              Call(Len(e.args), Len(e.kwargs)))
    [] e.node = "subscript" -> Emit(EmitExpr(EmitExpr(g, e.sub), e.index), GetItem)
    [] e.node = "member" -> Emit(EmitExpr(g, e.sub), GetField(e.name))
    [] e.node = "await" -> Emit(EmitExpr(g, e.sub), Await)

-----------------------------------------------------------------------------
\* Functions and classes
EmitReturn(g, e) ==
  CASE g.mode = "Ctor" ->
         Emit(Emit(IF e = Absent THEN g ELSE AddError(g), LoadFast(1)), Return)
    [] g.mode = "Global" -> Emit(AddError(g), Push(NilV))
    [] OTHER -> Emit(EmitExpr(g, e), Return)

PushName(g, x) == Emit(g, Push(StrV(x)))

ChunkOf(g) == [code |-> g.code, fast |-> g.fast, rest |-> g.rest,
               opens |-> g.opens, closes |-> g.closes]

\* the generator of a function's body, with its fixed arguments declared
Nested(g, f, mode) ==
  FoldLeft(AddLocal,
           [FreshCode(g) EXCEPT !.locals = << >>, !.mode = mode, !.depth = 0, !.ok = TRUE],
           <<f.name>> \o f.params \o [i \in DOMAIN f.defaults |-> f.defaults[i].name]
             \o SelectSeq(<<f.vararg, f.kwarg>>, LAMBDA x : x # ""))

\* what the outer generator g makes of f when n has generated its body
Declare(g, f, n) ==
  LET compiled == [g EXCEPT !.chunks = Append(n.chunks, ChunkOf(n)),
                            !.code = Append(@, Push(CodeV(Len(n.chunks) + 1)))]
      names == f.params \o [i \in DOMAIN f.defaults |-> f.defaults[i].name]
  IN IF ~n.ok THEN AddError(g)
     ELSE Emit(FoldLeft(PushName, FoldLeft(EmitNamed, compiled, f.defaults), names),
               MakeFunction(Len(names), Len(f.defaults), f.vararg # "", f.kwarg # ""))
EmitFunction(g, f, mode) ==
  Declare(g, f, EmitReturn(EmitStmt(Nested(g, f, mode), f.body), Absent))

\* emit_function has reported an error, and then it has emitted nothing
Refused(h, g) == h.code = g.code

Bind(g, h, x) == IF Refused(h, g) THEN h ELSE Emit(h, StoreGlobal(x))

\* one function of a class; a.stopped after one that was refused
Defined(h, g) == [gen |-> h, stopped |-> Refused(h, g)]
EmitMethod(a, f, mode) ==
  IF a.stopped THEN a
  ELSE Defined(EmitFunction(PushName(a.gen, f.name), f, mode), PushName(a.gen, f.name))
EmitMember(a, f) == EmitMethod(a, f, IF f.name = "__init__" THEN "Ctor" ELSE "Function")
EmitStatic(a, f) == EmitMethod(a, f, "Function")

DeclareClass(c, r) ==
  IF r.stopped THEN r.gen
  ELSE Emit(Emit(r.gen, MakeClass(c.name, Len(c.memfn), Len(c.staticfn))), StoreGlobal(c.name))
EmitClass(g, c) ==
  DeclareClass(c, FoldLeft(EmitStatic,
                    FoldLeft(EmitMember, [gen |-> g, stopped |-> FALSE], c.memfn), c.staticfn))

-----------------------------------------------------------------------------
\* Statements
EmitAll(g, ss) == IF ss = << >> THEN g ELSE EmitStmt(EmitAll(g, Front(ss)), Last(ss))

EmitAssign(g, s) ==
  CASE s.lhs.node = "id" -> StoreVar(EmitExpr(g, s.rhs), s.lhs.name)
    [] s.lhs.node = "member" ->
         Emit(EmitExpr(EmitExpr(g, s.lhs.sub), s.rhs), SetField(s.lhs.name))
    [] s.lhs.node = "subscript" ->
         Emit(EmitExpr(EmitExpr(EmitExpr(g, s.lhs.sub), s.lhs.index), s.rhs), SetItem)
    [] OTHER -> g

EmitAug(g, s) ==
  CASE s.lhs.node = "id" ->
         StoreVar(Emit(EmitExpr(LoadVar(g, s.lhs.name), s.rhs), BinaryOp(s.op)), s.lhs.name)
    [] s.lhs.node = "member" ->
         LET a == Emit(Emit(EmitExpr(g, s.lhs.sub), Dup(0)), GetField(s.lhs.name)) IN
         Emit(Emit(EmitExpr(a, s.rhs), BinaryOp(s.op)), SetField(s.lhs.name))
    [] s.lhs.node = "subscript" ->
         LET a == EmitExpr(EmitExpr(g, s.lhs.sub), s.lhs.index)
             b == Emit(Emit(Emit(a, Dup(1)), Dup(1)), GetItem)
         IN Emit(Emit(EmitExpr(b, s.rhs), BinaryOp(s.op)), SetItem)
    [] OTHER -> g

\* the jump at site leads to where the code goes on
Landing(g, site) == Patch(g, site, Here(g))

\* c ends with the condition, t with the then branch
EmitElse(g, s, site) ==
  Landing(EmitStmt(Landing(Emit(g, Jump), site), s.els), Here(g))
EmitThen(c, s) ==
  LET t == EmitStmt(Emit(c, JumpIfFalse), s.then) IN
  IF s.els = Absent THEN Landing(t, Here(c)) ELSE EmitElse(t, s, Here(c))
EmitIf(g, s) == EmitThen(EmitExpr(g, s.cond), s)

\* back to top from the end of b; the condition's jump is at site
CloseLoop(b, top, site) == Landing(Patch(Emit(b, Jump), Here(b), top), site)
EmitRounds(c, top, body) == CloseLoop(EmitAll(Emit(c, JumpIfFalse), body), top, Here(c))
EmitLoop(g, cond, body) == EmitRounds(EmitExpr(g, cond), Here(g), body)

Given(s) == IF s = Absent THEN << >> ELSE <<s>>
\* Mutant of EmitForLoop: the increment comes before the body.
EmitIncrementFirst(g, s) ==
  EmitLoop(g, IF s.cond = Absent THEN TrueLiteral ELSE s.cond, Given(s.inc) \o <<s.body>>)
EmitForLoop(g, s) ==
  EmitLoop(g, IF s.cond = Absent THEN TrueLiteral ELSE s.cond, <<s.body>> \o Given(s.inc))
EmitFor(g, s) == EmitForLoop(EmitAll(g, Given(s.init)), s)

\* b ends with the body, whose TryBegin is at site
EmitCatch(b, s, site) ==
  LET e == Landing(Emit(Emit(b, TryEnd), Jump), site)
      h == EmitStmt(StoreVar(e, s.name), s.handler)
  IN [Landing(h, Here(b) + 1) EXCEPT !.opens = Append(@, site), !.closes = Append(@, Here(b))]
EmitTry(g, s) == EmitCatch(EmitStmt(Emit(g, TryBegin), s.body), s, Here(g))

EmitSymbol(g, n) ==
  Emit(Emit(Emit(g, Dup(0)), GetField(n.name)),
       StoreGlobal(IF n.alias = "" THEN n.name ELSE n.alias))
EmitImport(g, s) ==
  LET m == [g EXCEPT !.code = @ \o <<LoadGlobal("import"), Push(StrV(s.name)), Call(1, 0)>>] IN
  IF s.names = << >> THEN Emit(m, StoreGlobal(IF s.alias = "" THEN s.name ELSE s.alias))
  ELSE Emit(FoldLeft(EmitSymbol, m, s.names), Pop(1))

EmitYield(g, v) == IF g.mode = "Function" THEN Emit(v, Yield) ELSE AddError(v)

\* an expression on its own line of the REPL is printed
EmitExprStmt(g, s) ==
  IF g.repl /\ g.depth = 0 /\ g.mode = "Global"
  THEN Emit(EmitExpr(Emit(g, LoadGlobal(ReplPrintName)), s.value), Call(1, 0))
  ELSE Emit(EmitExpr(g, s.value), Pop(1))

\* ++scope_depth_ .. --scope_depth_
Deeper(g) == [g EXCEPT !.depth = @ + 1]
Shallower(g) == [g EXCEPT !.depth = @ - 1]

EmitStmt(gen, s) ==
  LET g == [gen EXCEPT !.rest = @ \cup {Here(gen)}]
      d == Deeper(g)
  IN CASE s.node = "assign" -> EmitAssign(g, s)
       [] s.node = "aug" -> EmitAug(g, s)
       [] s.node = "if" -> Shallower(EmitIf(d, s))
       [] s.node = "while" -> Shallower(EmitLoop(d, s.cond, <<s.body>>))
       [] s.node = "for" -> Shallower(EmitFor(d, s))
       [] s.node = "block" -> Shallower(EmitAll(d, s.stmts))
       [] s.node = "fn" ->
            Shallower(Bind(d, EmitFunction(d, s, "Function"), s.name))
       [] s.node = "class" -> EmitClass(g, s)
       [] s.node = "return" -> EmitReturn(g, s.value)
       [] s.node = "yield" -> EmitYield(g, EmitExpr(g, s.value))
       [] s.node = "throw" -> Emit(EmitExpr(g, s.value), Throw)
       [] s.node = "try" -> Shallower(EmitTry(d, s))
       [] s.node = "import" -> EmitImport(g, s)
       [] s.node = "global" -> [g EXCEPT !.scope = @ \cup {s.vars[i] : i \in DOMAIN s.vars}]
       [] s.node = "expr" -> EmitExprStmt(g, s)
=============================================================================
