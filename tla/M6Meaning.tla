----------------------------- MODULE M6Meaning -----------------------------
(***************************************************************************)
(* What a program of serilang means, said without instructions, operand    *)
(* stack, slots, frames or handlers: an evaluator by structural recursion  *)
(* on the syntax tree.  It is the reference the compiled program is        *)
(* compared with.                                                          *)
(*                                                                         *)
(* A name belongs to the function it stands in if the function has it as a *)
(* parameter or if an assignment to it comes earlier in the text, and      *)
(* otherwise to the program.                                               *)
(***************************************************************************)
EXTENDS M6Ast, FiniteSetsExt, SequencesExt

CONSTANTS Library     \* the modules there are: [ref, fields] by name

\* a state of the evaluation; how is "go", "return", "throw" or "suspend"
Start(objs, as) ==
  [globals |-> << >>, objects |-> objs, out |-> << >>, answers |-> as,
   locals |-> << >>, how |-> "go", val |-> NilV]
Going(s) == s.how = "go"
Yields(s, v) == [s EXCEPT !.val = v]
Throws(s, v) == [s EXCEPT !.how = "throw", !.val = v]
Wrong(s) == Throws(s, StrV("error"))
Then(s, F(_)) == IF Going(s) THEN F(s) ELSE s
With(f, x, v) == [y \in DOMAIN f \cup {x} |-> IF y = x THEN v ELSE f[y]]
Elements(q) == {q[i] : i \in DOMAIN q}

\* what printing shows of a value
Plain(v) == IF v.type \in {"nil", "bool", "int", "str"} THEN v ELSE [type |-> v.type]
Display(s, v) ==
  CASE v.type = "list" -> [type |-> "list", items |->
         [i \in DOMAIN s.objects[v.ref].items |-> Plain(s.objects[v.ref].items[i])]]
    [] v.type = "dict" -> [type |-> "dict", entries |->
         [x \in DOMAIN v.entries |-> Plain(v.entries[x])]]
    [] OTHER -> Plain(v)
Prints(s, vs) ==
  [s EXCEPT !.out = @ \o [i \in DOMAIN vs |-> Display(s, vs[i])], !.val = NilV]
Truth(v) == v \notin {NilV} /\ (v.type = "bool" => v.truth) /\ (v.type = "int" => v.int # 0)

-----------------------------------------------------------------------------
\* Scopes: what has been said of names before a point of the text
Outermost(repl) == [top |-> TRUE, echo |-> repl, own |-> {}, global |-> {}]
Inner(sc, names) == [top |-> FALSE, echo |-> FALSE, own |-> names, global |-> sc.global]
IsOwn(sc, x) == ~sc.top /\ x \in sc.own \ sc.global
Inside(sc) == [sc EXCEPT !.echo = FALSE]
Assigned(sc, x) == [sc EXCEPT !.own = @ \cup {x}]

RECURSIVE ScopeAfter(_, _)
\* the scope behind a statement
ScopeAfter(sc, st) ==
  CASE st.node \in {"assign", "aug"} ->
         IF st.lhs.node = "id" /\ st.lhs.name \notin sc.global THEN Assigned(sc, st.lhs.name) ELSE sc
    [] st.node = "if" -> ScopeAfter(ScopeAfter(sc, st.then), st.els)
    [] st.node = "while" -> ScopeAfter(sc, st.body)
    [] st.node = "for" -> FoldLeft(ScopeAfter, sc, <<st.init, st.body, st.inc>>)
    [] st.node = "block" -> FoldLeft(ScopeAfter, sc, st.stmts)
    [] st.node = "try" ->
         LET b == ScopeAfter(sc, st.body) IN
         ScopeAfter(IF st.name \in b.global THEN b ELSE Assigned(b, st.name), st.handler)
    [] st.node = "global" -> [sc EXCEPT !.global = @ \cup Elements(st.vars)]
    [] OTHER -> sc

Store(sc, s, x, v) ==
  IF sc.top \/ x \in sc.global THEN [s EXCEPT !.globals = With(@, x, v)]
  ELSE [s EXCEPT !.locals = With(@, x, v)]
Lookup(sc, s, x) ==
  LET builtin == [print |-> [type |-> "native", name |-> "print"], fut |-> [type |-> "future"]]
      places == IF IsOwn(sc, x) THEN <<s.locals>> ELSE <<s.globals, builtin>>
      found == {i \in DOMAIN places : x \in DOMAIN places[i]}
  IN IF found = {} THEN Wrong(s) ELSE Yields(s, places[Min(found)][x])

-----------------------------------------------------------------------------
RECURSIVE Eval(_, _, _), Exec(_, _, _), Apply(_, _, _, _)

\* expressions from left to right: the state, and their values if all went well
Collected(vals, t) == [st |-> t, vals |-> Append(vals, t.val)]
EvalAll(es, sc, s) ==
  FoldLeft(LAMBDA a, e : IF Going(a.st) THEN Collected(a.vals, Eval(e, sc, a.st)) ELSE a,
           [st |-> s, vals |-> << >>], es)
\* ... and what follows from them
After(a, F(_, _)) == IF Going(a.st) THEN F(a.st, a.vals) ELSE a.st
Each(es, sc, s, F(_, _)) == After(EvalAll(es, sc, s), F)

\* arguments that fit a declaration, and the names of the call bound to them
ParamNames(d) == d.params \o [i \in DOMAIN d.defaults |-> d.defaults[i].name]
ByPosition(d, args) == {ParamNames(d)[i] : i \in DOMAIN ParamNames(d) \cap DOMAIN args}
Keywords(kws) == {kws[i].name : i \in DOMAIN kws}
Fits(d, args, kws) ==
  /\ d.vararg = "" => Len(args) <= Len(ParamNames(d))
  /\ d.kwarg = "" => Keywords(kws) \subseteq Elements(ParamNames(d))
  /\ Keywords(kws) \cap ByPosition(d, args) = {}
  /\ Elements(d.params) \subseteq ByPosition(d, args) \cup Keywords(kws)
\* own lists the names a call has from the start
OwnNames(d) == {d.name} \cup Elements(ParamNames(d)) \cup ({d.vararg, d.kwarg} \ {""})
Bound(fn, args, kws, surplus) ==
  LET d == fn.decl
      ps == ParamNames(d)
      keyword(x) == kws[Min({i \in DOMAIN kws : kws[i].name = x})].value
  IN [x \in OwnNames(d) |->
        CASE x \in ByPosition(d, args) -> args[CHOOSE i \in DOMAIN args \cap DOMAIN ps : ps[i] = x]
          [] x \in Elements(ps) \cap Keywords(kws) -> keyword(x)
          [] x \in Elements(ps) \ (ByPosition(d, args) \cup Keywords(kws)) -> fn.defaults[x]
          [] x = d.vararg -> surplus
          [] x = d.kwarg -> [type |-> "dict", entries |->
                               [y \in Keywords(kws) \ Elements(ps) |-> keyword(y)]]
          [] OTHER -> fn]

\* a new object, as a value
Allocate(s, t, object) ==
  [s EXCEPT !.objects = Append(@, object), !.val = [type |-> t, ref |-> Len(s.objects) + 1]]

\* a call: the surplus of the arguments, the names, and the way back
Surplus(d, args, s) ==
  IF d.vararg = "" THEN s
  ELSE Allocate(s, "list", [items |-> SubSeq(args, Len(ParamNames(d)) + 1, Len(args))])
Enter(fn, args, kws, s) == [s EXCEPT !.locals = Bound(fn, args, kws, s.val)]
Leave(fn, args, locals, s) ==
  LET u == [s EXCEPT !.locals = locals] IN
  CASE s.how \notin {"go", "return"} -> u
    [] s.how \in {"go", "return"} /\ fn.ctor -> [u EXCEPT !.how = "go", !.val = args[1]]
    [] s.how = "return" /\ ~fn.ctor -> [u EXCEPT !.how = "go"]
    [] OTHER -> [u EXCEPT !.val = NilV]
ApplyFunction(fn, args, kws, s) ==
  LET d == fn.decl IN
  IF Fits(d, args, kws)
  THEN Leave(fn, args, s.locals,
             Exec(d.body, Inner([global |-> fn.global], OwnNames(d)),
                  Enter(fn, args, kws, Surplus(d, args, s))))
  ELSE Wrong(s)

\* s has just allocated the instance
Construct(methods, args, kws, s) ==
  CASE "__init__" \in DOMAIN methods -> Apply(methods["__init__"], <<s.val>> \o args, kws, s)
    [] "__init__" \notin DOMAIN methods /\ args = << >> /\ kws = << >> -> s
    [] OTHER -> Wrong(s)

Apply(fn, args, kws, s) ==
  CASE fn.type = "function" -> ApplyFunction(fn, args, kws, s)
    [] fn.type = "bound" -> Apply(fn.method, <<fn.self>> \o args, kws, s)
    [] fn.type = "class" ->
         Construct(s.objects[fn.ref].methods, args, kws,
                   Allocate(s, "instance", [class |-> fn.ref, attributes |-> << >>]))
    [] fn.type = "native" -> Prints(s, args)
    [] OTHER -> Wrong(s)

\* what an instance has under a name: {} or a single value
Attribute(s, v, x) ==
  LET object == s.objects[v.ref]
      class == s.objects[object.class]
      places == <<object.attributes, class.methods, class.statics>>
      found == {i \in 1..3 : x \in DOMAIN places[i]}
  IN IF v.type # "instance" \/ found = {} THEN {}
     ELSE {[from |-> Min(found), val |-> places[Min(found)][x]]}
The(S) == CHOOSE x \in S : TRUE

Member(s, v, x) ==
  CASE v.type = "instance" /\ Attribute(s, v, x) # {} ->
         LET a == The(Attribute(s, v, x)) IN
         Yields(s, IF a.from = 2 THEN [type |-> "bound", self |-> v, method |-> a.val] ELSE a.val)
    [] v.type = "module" /\ x \in DOMAIN s.objects[v.ref].attributes ->
         Yields(s, s.objects[v.ref].attributes[x])
    [] OTHER -> Wrong(s)
SetMember(s, v, x, w) ==
  IF v.type \in {"instance", "module"}
  THEN [s EXCEPT !.objects[v.ref].attributes = With(@, x, w)] ELSE Wrong(s)

\* the methods of the class of an instance, which item access looks at alone
MethodsOf(s, v) ==
  IF v.type = "instance" THEN s.objects[s.objects[v.ref].class].methods ELSE << >>
\* the element of a list an index names, negative ones from the end
Position(s, v, i) ==
  {p \in DOMAIN s.objects[v.ref].items :
     i.type = "int" /\ i.int \in {p - 1, p - 1 - Len(s.objects[v.ref].items)}}
Item(s, v, i) ==
  CASE "__getitem__" \in DOMAIN MethodsOf(s, v) ->
         Apply(MethodsOf(s, v)["__getitem__"], <<v, i>>, << >>, s)
    [] v.type = "list" ->
         IF Position(s, v, i) = {} THEN Wrong(s)
         ELSE Yields(s, s.objects[v.ref].items[The(Position(s, v, i))])
    [] OTHER -> Wrong(s)
SetItemTo(s, v, i, w) ==
  CASE "__setitem__" \in DOMAIN MethodsOf(s, v) ->
         Apply(MethodsOf(s, v)["__setitem__"], <<v, i, w>>, << >>, s)
    [] v.type = "list" ->
         IF Position(s, v, i) = {} THEN Wrong(s)
         ELSE [s EXCEPT !.objects[v.ref].items[The(Position(s, v, i))] = w]
    [] OTHER -> Wrong(s)

\* l op r: the method of the left operand, of the right one, or arithmetic
Operate(op, l, r, s) ==
  LET name == CASE op = "+" -> "add" [] op = "-" -> "sub" [] op = "<" -> "lt"
      left == Attribute(s, l, "__" \o name \o "__")
      right == Attribute(s, r, "__r" \o name \o "__")
  IN CASE left # {} -> Apply(The(left).val, <<l, r>>, << >>, s)
       [] left = {} /\ right # {} -> Apply(The(right).val, <<r, l>>, << >>, s)
       [] left = {} /\ right = {} /\ l.type = "int" /\ r.type = "int" ->
            Yields(s, CASE op = "+" -> IntV(l.int + r.int)
                        [] op = "-" -> IntV(l.int - r.int)
                        [] op = "<" -> BoolV(l.int < r.int))
       [] OTHER -> Wrong(s)
Negate(v, s) ==
  LET own == Attribute(s, v, "__neg__") IN
  CASE own # {} -> Apply(The(own).val, <<v>>, << >>, s)
    [] v.type = "int" -> Yields(s, IntV(-v.int))
    [] OTHER -> Wrong(s)

Answered(s) ==
  LET a == IF s.answers = << >> THEN "0" ELSE Head(s.answers)
      t == [s EXCEPT !.answers = IF @ = << >> THEN @ ELSE Tail(@)]
  IN CASE a = "error" -> Wrong(t)
       [] a = "1" -> Yields(t, IntV(1))
       [] OTHER -> Yields(t, IntV(0))

Eval(e, sc, s) ==
  CASE e.node \in {"nil", "absent"} -> Yields(s, NilV)
    [] e.node = "true" -> Yields(s, BoolV(TRUE))
    [] e.node = "false" -> Yields(s, BoolV(FALSE))
    [] e.node = "int" -> Yields(s, IntV(e.int))
    [] e.node = "id" -> Lookup(sc, s, e.name)
    [] e.node = "list" ->
         Each(e.elements, sc, s, LAMBDA t, vs : Allocate(t, "list", [items |-> vs]))
    [] e.node = "unary" -> Then(Eval(e.sub, sc, s), LAMBDA t : Negate(t.val, t))
    [] e.node = "binary" ->
         Each(<<e.lhs, e.rhs>>, sc, s, LAMBDA t, vs : Operate(e.op, vs[1], vs[2], t))
    [] e.node = "invoke" ->
         Each(<<e.sub>> \o e.args \o [i \in DOMAIN e.kwargs |-> e.kwargs[i].value], sc, s,
              LAMBDA t, vs :
                Apply(vs[1], SubSeq(vs, 2, Len(e.args) + 1),
                      [i \in DOMAIN e.kwargs |-> Named(e.kwargs[i].name, vs[Len(e.args) + 1 + i])], t))
    [] e.node = "subscript" -> Each(<<e.sub, e.index>>, sc, s, LAMBDA t, vs : Item(t, vs[1], vs[2]))
    [] e.node = "member" -> Then(Eval(e.sub, sc, s), LAMBDA t : Member(t, t.val, e.name))
    [] e.node = "await" ->
         Then(Eval(e.sub, sc, s), LAMBDA t : IF t.val.type = "future" THEN Answered(t) ELSE Wrong(t))

-----------------------------------------------------------------------------
\* statements in a row, each in the scope behind the ones before it
ExecAll(sts, sc, s) ==
  FoldLeft(LAMBDA a, st : [scope |-> ScopeAfter(a.scope, st),
                           st |-> Then(a.st, LAMBDA t : Exec(st, a.scope, t))],
           [scope |-> sc, st |-> s], sts).st

RECURSIVE Repeat(_, _, _, _)
Repeat(cond, sts, sc, s) ==
  Then(Eval(cond, sc, s), LAMBDA t :
    IF Truth(t.val) THEN Then(ExecAll(sts, sc, t), LAMBDA u : Repeat(cond, sts, sc, u)) ELSE t)

\* a function as a value: its defaults are evaluated where it is declared
Declared(d, ctor, sc, s) ==
  LET index(x) == CHOOSE i \in DOMAIN d.defaults : d.defaults[i].name = x
      names == {d.defaults[i].name : i \in DOMAIN d.defaults}
  IN Each([i \in DOMAIN d.defaults |-> d.defaults[i].value], sc, s, LAMBDA t, vs :
       Yields(t, [type |-> "function", decl |-> d, global |-> sc.global, ctor |-> ctor,
                  defaults |-> [x \in names |-> vs[index(x)]]]))
Defined(fns, x, t) == [st |-> t, fns |-> With(fns, x, t.val)]
DeclaredAll(ds, member, sc, s) ==
  FoldLeft(LAMBDA a, d :
             IF Going(a.st)
             THEN Defined(a.fns, d.name, Declared(d, member /\ d.name = "__init__", sc, a.st)) ELSE a,
           [st |-> s, fns |-> << >>], ds)
\* the value of s becomes a variable of the program
Bind(s, x) == [s EXCEPT !.globals = With(@, x, s.val)]
Class(x, methods, f) ==
  Then(f.st, LAMBDA t : Bind(Allocate(t, "class", [methods |-> methods, statics |-> f.fns]), x))
ExecClass(st, sc, m) == Class(st.name, m.fns, DeclaredAll(st.staticfn, FALSE, sc, m.st))

\* assignments; vs holds the values of the expressions the left-hand side consists of
Place(lhs) ==
  CASE lhs.node = "member" -> <<lhs.sub>>
    [] lhs.node = "subscript" -> <<lhs.sub, lhs.index>>
    [] OTHER -> << >>
Read(lhs, sc, s, vs) ==
  CASE lhs.node = "id" -> Lookup(sc, s, lhs.name)
    [] lhs.node = "member" -> Member(s, vs[1], lhs.name)
    [] lhs.node = "subscript" -> Item(s, vs[1], vs[2])
Put(lhs, sc, s, vs) ==
  CASE lhs.node = "id" -> Store(sc, s, lhs.name, s.val)
    [] lhs.node = "member" -> SetMember(s, vs[1], lhs.name, s.val)
    [] lhs.node = "subscript" -> SetItemTo(s, vs[1], vs[2], s.val)
\* an augmented assignment reads the old content first
NewContent(st, sc, s, vs) ==
  IF st.node = "assign" THEN Eval(st.rhs, sc, s)
  ELSE Then(Read(st.lhs, sc, s, vs), LAMBDA t :
         Then(Eval(st.rhs, sc, t), LAMBDA u : Operate(st.op, t.val, u.val, u)))
ExecAssign(st, sc, s) ==
  Each(Place(st.lhs), sc, s, LAMBDA t, vs :
    Then(NewContent(st, sc, t, vs), LAMBDA u : Put(st.lhs, sc, u, vs)))

\* s is how the body of the try statement went
Handle(st, sc, s) ==
  IF s.how = "throw"
  THEN Exec(st.handler, ScopeAfter(sc, [st EXCEPT !.handler = Absent]),
            Store(ScopeAfter(sc, st.body), [s EXCEPT !.how = "go"], st.name, s.val))
  ELSE s

Exec(st, scope, s) ==
  LET sc == Inside(scope) IN
  CASE st.node \in {"assign", "aug"} -> ExecAssign(st, sc, s)
    [] st.node = "block" -> ExecAll(st.stmts, sc, s)
    [] st.node = "if" ->
         Then(Eval(st.cond, sc, s), LAMBDA t :
           IF Truth(t.val) THEN Exec(st.then, sc, t) ELSE Exec(st.els, ScopeAfter(sc, st.then), t))
    [] st.node = "while" -> Repeat(st.cond, <<st.body>>, sc, s)
    [] st.node = "for" ->
         LET cond == IF st.cond = Absent THEN TrueLiteral ELSE st.cond IN
         Then(Exec(st.init, sc, s), LAMBDA t :
           Repeat(cond, <<st.body, st.inc>>, ScopeAfter(sc, st.init), t))
    [] st.node = "fn" ->
         Then(Declared(st, FALSE, sc, s), LAMBDA t : Bind(t, st.name))
    [] st.node = "class" -> ExecClass(st, sc, DeclaredAll(st.memfn, TRUE, sc, s))
    [] st.node = "return" -> Then(Eval(st.value, sc, s), LAMBDA t : [t EXCEPT !.how = "return"])
    [] st.node = "yield" -> Then(Eval(st.value, sc, s), LAMBDA t : [t EXCEPT !.how = "suspend"])
    [] st.node = "throw" -> Then(Eval(st.value, sc, s), LAMBDA t : Throws(t, t.val))
    [] st.node = "try" -> Handle(st, sc, Exec(st.body, sc, s))
    [] st.node = "import" ->
         LET module == [type |-> "module", ref |-> Library[st.name].ref]
             local(n) == IF n.alias = "" THEN n.name ELSE n.alias
         IN IF st.names = << >> THEN Bind(Yields(s, module), local(st))
            ELSE FoldLeft(LAMBDA t, n : Then(t, LAMBDA u :
                            Then(Member(u, module, n.name), LAMBDA v : Bind(v, local(n)))),
                          s, st.names)
    [] st.node = "expr" ->
         Then(Eval(st.value, sc, s), LAMBDA t :
           IF scope.echo /\ t.val # NilV THEN Prints(t, <<t.val>>) ELSE t)
    [] st.node \in {"global", "absent"} -> s

-----------------------------------------------------------------------------
\* The lines of a session.  A line that is not a program is <<Absent>>; the first
\* line of a REPL that is one has its uncaught exception printed.

Outcome(s) ==
  CASE s.how = "throw" -> [how |-> "error", shown |-> NilV]
    [] s.how = "suspend" -> [how |-> "suspended", shown |-> NilV]
    [] OTHER -> [how |-> "value", shown |-> NilV]

\* the exception t ends with is printed
Report(t) == Prints([t EXCEPT !.how = "go"], IF t.val = NilV THEN << >> ELSE <<t.val>>)
Done(a, line, t) ==
  [st |-> t, ran |-> TRUE, scope |-> FoldLeft(ScopeAfter, a.scope, line),
   outcomes |-> Append(a.outcomes, Outcome(t))]
Reported(first, t) == IF first /\ t.how = "throw" THEN Report(t) ELSE t
DoLine(repl, a, line) ==
  IF line = <<Absent>> THEN [a EXCEPT !.outcomes = Append(@, [how |-> "rejected", shown |-> NilV])]
  ELSE Done(a, line, Reported(repl /\ ~a.ran, ExecAll(line, a.scope, [a.st EXCEPT !.how = "go"])))

\* what a session prints and how its lines end, if awaits are answered by as
Meaning(repl, lines, as) ==
  LET objs == [r \in 1..Cardinality(DOMAIN Library) |->
                 [attributes |-> Library[CHOOSE m \in DOMAIN Library : Library[m].ref = r].fields]]
      r == FoldLeft(LAMBDA a, line : DoLine(repl, a, line),
                    [st |-> Start(objs, as), ran |-> FALSE, scope |-> Outermost(repl),
                     outcomes |-> << >>], lines)
  IN [out |-> r.st.out, outcomes |-> r.outcomes]
=============================================================================
