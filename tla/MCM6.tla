-------------------------------- MODULE MCM6 --------------------------------
(***************************************************************************)
(* Programs for SerilangVM, their meanings, and what the compiled code has *)
(* to agree with.                                                          *)
(***************************************************************************)
EXTENDS SerilangVM

P == INSTANCE M6Printer
M == INSTANCE M6Meaning WITH Library <- Modules

\* short forms
V(x) == Identifier(x)
N(n) == IntLiteral(n)
Invoked(f, as) == InvokeExpr(V(f), as, << >>)
Show(e) == ExprStmt(Invoked("print", <<e>>))
Let(x, e) == AssignStmt(V(x), e)
Minus(l, r) == BinaryExpr("-", l, r)
Plus(l, r) == BinaryExpr("+", l, r)
Do(ss) == BlockStmt(ss)
Fn(f, ps, ss) == FuncDecl(f, ps, << >>, "", "", Do(ss))
Guarded(ss) == TryStmt(Do(ss), "e", Do(<<Show(V("e"))>>))
AwaitFut == AwaitExpr(V("fut"))

Script(ss) == [repl |-> FALSE, lines |-> <<ss>>, text |-> <<P!WriteMany(ss)>>]
Repl(lines) == [repl |-> TRUE, lines |-> lines, text |-> [i \in DOMAIN lines |-> P!WriteMany(lines[i])]]
\* a text that is not a program
Refusal(ts) == [repl |-> FALSE, lines |-> <<<<Absent>>>>, text |-> <<ts>>]

-----------------------------------------------------------------------------
\* Control: every statement over these leaves, two levels deep, in a function
Leaves == <<Show(V("x")), ThrowStmt(N(2)), ReturnStmt(N(3)), AugStmt(V("x"), "-", N(1))>>
\* F of every member of A with every member of B
Pairs(F(_, _), A, B) ==
  [k \in 1..(Len(A) * Len(B)) |-> F(A[1 + (k - 1) \div Len(B)], B[((k - 1) % Len(B)) + 1])]
IfElse(a, b) == IfStmt(AwaitFut, Do(<<a>>), Do(<<b>>))
Both(a, b) == Do(<<a, b>>)
TryCatch(a, b) == TryStmt(Do(<<a>>), "e", Do(<<b>>))
Loop(a) == WhileStmt(AwaitFut, Do(<<a>>))
Compounds(A, B) ==
  Pairs(IfElse, A, B) \o Pairs(Both, A, B) \o Pairs(TryCatch, A, B) \o [i \in DOMAIN A |-> Loop(A[i])]
Small == Compounds(Leaves, Leaves)
Bodies == Small \o Compounds(Small, Leaves) \o Compounds(Leaves, Small)
InFunction(body) ==
  Script(<<Fn("f", <<"x">>, <<body, ReturnStmt(V("x"))>>),
           Guarded(<<Show(Minus(N(3), Invoked("f", <<N(1)>>)))>>)>>)
ControlScripts == [i \in DOMAIN Bodies |-> InFunction(Bodies[i])]

-----------------------------------------------------------------------------
\* Arguments: every kind of parameter list against every kind of call
Caught(e) == Guarded(<<Show(e)>>)
KwSets == << << << >>, <<Named("a", N(3))>>, <<Named("b", N(3))>>, <<Named("c", N(3))>> >>,
             << <<Named("b", N(2)), Named("a", N(3))>>, <<Named("c", N(2)), Named("a", N(3))>>,
                <<Named("c", N(2)), Named("c", N(3))>> >> >>
Positionals == << << >>, <<N(1)>>, <<N(1), N(2)>>, <<N(1), N(2), N(0)>> >>
CallF(as, kws) == Guarded(<<ExprStmt(InvokeExpr(V("f"), as, kws))>>)
DefaultSets == << << >>, <<Named("b", V("d"))>> >>
Declaring(ps, ds, rest, calls) ==
  LET names == ps \o [i \in DOMAIN ds |-> ds[i].name] \o SelectSeq(rest, LAMBDA x : x # "")
      shown == [i \in DOMAIN names |-> V(names[i])]
  IN Script(<<Let("d", N(1)),
              FuncDecl("f", ps, ds, rest[1], rest[2],
                       Do(<<ExprStmt(Invoked("print", shown))>>)),
              Let("d", N(3))>> \o calls)
CallsWith(as, kws) == [i \in DOMAIN kws |-> CallF(as, kws[i])]
Calls == Pairs(CallsWith, Positionals, KwSets)
Rests == << <<"", "">>, <<"r", "">>, <<"", "k">>, <<"r", "k">> >>
DeclaringRest(ps, ds) == Pairs(LAMBDA r, c : Declaring(ps, ds, r, c), Rests, Calls)
ArgumentScripts ==
  DeclaringRest(<< >>, << >>) \o DeclaringRest(<<"a">>, << >>) \o DeclaringRest(<<"a">>, DefaultSets[2])
    \o DeclaringRest(<< >>, DefaultSets[2])

-----------------------------------------------------------------------------
\* Names: who owns a variable at which point of the text
Times(n, ss) ==     \* a loop of n rounds over i
  ForStmt(Let("i", N(0)), BinaryExpr("<", V("i"), N(n)), AugStmt(V("i"), "+", N(1)), Do(ss))
NameScripts == <<
  \* a variable of the program is read until the text has assigned it
  Script(<<Let("x", N(1)),
           Fn("f", << >>, <<Show(V("x")), Let("x", N(2)), Show(V("x"))>>),
           ExprStmt(Invoked("f", << >>)), Show(V("x"))>>),
  \* ... in every round of a loop
  Script(<<Let("x", N(1)),
           Fn("f", << >>, <<Times(3, <<AugStmt(V("x"), "+", V("i")), Show(V("x"))>>), ReturnStmt(V("x"))>>),
           Show(Invoked("f", << >>)), Show(V("x"))>>),
  Script(<<Let("x", N(1)),
           Fn("f", << >>, <<ScopeStmt(<<"x">>), AugStmt(V("x"), "+", N(1))>>),
           ExprStmt(Invoked("f", << >>)), ExprStmt(Invoked("f", << >>)), Show(V("x"))>>),
  \* an assignment on a path that is not taken
  Script(<<Let("x", N(1)),
           Fn("f", << >>, <<IfStmt(AwaitFut, Do(<<Let("x", N(2))>>), Do(<<Show(V("x"))>>)),
                            ReturnStmt(V("x"))>>),
           Caught(Invoked("f", << >>))>>),
  Script(<<Fn("f", <<"x">>, <<TryStmt(Do(<<ThrowStmt(V("x"))>>), "e", Do(<<Show(V("e"))>>)),
                              ReturnStmt(V("e"))>>),
           Caught(Invoked("f", <<N(2)>>)), Caught(V("e"))>>),
  \* functions declared in functions belong to the program; recursion
  Script(<<Fn("f", <<"x">>,
              <<Fn("g", <<"y">>, <<IfStmt(BinaryExpr("<", V("y"), N(1)), Do(<<ReturnStmt(V("x"))>>),
                                         Absent),
                                  ReturnStmt(Plus(N(1), Invoked("g", <<Minus(V("y"), N(1))>>)))>>),
                Let("f", N(2)), ReturnStmt(V("f"))>>),
           Caught(Invoked("g", <<N(2)>>)), Let("x", N(3)),
           Caught(Invoked("f", <<N(1)>>)), Caught(Invoked("g", <<N(2)>>))>>),
  \* a chain of errors through calls, caught at the outermost
  Script(<<Fn("f", <<"x">>, <<ReturnStmt(Plus(N(1), AwaitExpr(V("x"))))>>),
           Fn("g", <<"x">>, <<Guarded(<<ThrowStmt(Invoked("f", <<V("x")>>))>>),
                              ReturnStmt(Minus(N(2), Invoked("f", <<V("x")>>)))>>),
           Caught(ListLiteral(<<N(1), Invoked("g", <<V("fut")>>)>>)),
           Caught(Invoked("g", <<N(1)>>)), ThrowStmt(N(1)), Show(N(1))>>),
  Script(<<WhileStmt(AwaitFut, Do(<<Fn("f", << >>, <<YieldStmt(AwaitFut)>>)>>)),
           Show(N(1)), ExprStmt(Invoked("f", << >>)), Show(N(2))>>) >>

-----------------------------------------------------------------------------
\* Objects
Self == V("self")
Init1 == Fn("__init__", <<"self", "x">>,
            <<AssignStmt(MemberExpr(Self, "x"), V("x")), IfStmt(V("x"), Do(<<ReturnStmt(Absent)>>), Absent),
              AugStmt(MemberExpr(Self, "x"), "-", N(1))>>)
Operator(f, ps, e) == Fn(f, <<"self">> \o ps, <<ReturnStmt(e)>>)
OwnX == MemberExpr(Self, "x")
Make == Fn("make", <<"x">>, <<ReturnStmt(Invoked("C", <<V("x")>>))>>)
Subtracting ==
  ClassDecl("C", <<Init1, Operator("__sub__", <<"y">>, Minus(OwnX, V("y"))),
                   Operator("__rsub__", <<"y">>, ListLiteral(<<V("y"), OwnX>>))>>, <<Make>>)
Counting ==
  ClassDecl("C", <<Init1, Operator("__neg__", << >>, Invoked("C", <<Minus(N(0), OwnX)>>)),
                   Operator("__getitem__", <<"i">>, Plus(OwnX, V("i"))),
                   Fn("up", <<"self">>, <<AugStmt(OwnX, "+", N(1)), ReturnStmt(Self)>>)>>, << >>)
MethodCall(e, f, as) == InvokeExpr(MemberExpr(e, f), as, << >>)
C(n) == Invoked("C", <<N(n)>>)
Item(e, i) == SubscriptExpr(e, i)
Neg(e) == UnaryExpr("-", e)
\* several scripts that begin alike
After(before, scripts) == [i \in DOMAIN scripts |-> Script(before \o scripts[i])]
SubtractingScripts ==
  After(<<Subtracting, Let("c", C(2)), Let("d", MethodCall(V("c"), "make", <<N(0)>>))>>,
    << <<Caught(Minus(V("c"), N(1)))>>, <<Caught(Minus(N(1), V("c")))>>, <<Caught(Minus(V("c"), V("d")))>>,
       <<Caught(Minus(N(3), Minus(V("d"), N(1))))>>, <<Caught(Plus(V("c"), N(1)))>>,
       <<AssignStmt(MemberExpr(V("c"), "__sub__"), V("print")), Caught(Minus(V("c"), N(1)))>>,
       <<Caught(Invoked("C", << >>))>> >>)
CountingScripts ==
  After(<<Counting, Let("c", C(1))>>,
    << <<Let("d", Neg(V("c"))), Caught(MemberExpr(V("d"), "x"))>>,
       <<Caught(Item(V("c"), N(3))), Caught(V("c"))>>,
       <<Let("g", MemberExpr(V("c"), "up")), Caught(MemberExpr(Invoked("g", << >>), "x"))>>,
       <<Let("d", MethodCall(V("c"), "up", << >>)), Let("d", MethodCall(V("d"), "up", << >>)),
         Caught(MemberExpr(V("d"), "x"))>>,
       <<AssignStmt(MemberExpr(V("c"), "up"), V("print")), Caught(MethodCall(V("c"), "up", <<N(2)>>))>>,
       <<Caught(MethodCall(V("c"), "down", << >>)), Caught(MethodCall(V("C"), "up", << >>))>>,
       <<ExprStmt(MethodCall(V("c"), "__init__", <<N(3)>>)), Caught(MemberExpr(V("c"), "x"))>> >>)
PlainScripts ==
  After(<<ClassDecl("C", << >>, << >>), Let("c", Invoked("C", << >>))>>,
    << <<Caught(C(1)), Caught(MemberExpr(V("c"), "x")), Caught(Neg(V("c")))>>,
       <<Caught(Item(V("c"), N(1))), Guarded(<<AssignStmt(Item(V("c"), N(0)), N(1))>>),
         Guarded(<<AssignStmt(MemberExpr(N(1), "x"), N(1))>>)>>,
       <<Caught(Item(N(1), N(2))), Caught(Invoked("c", << >>)), Caught(Neg(N(2)))>>,
       <<Caught(Neg(NilLiteral)), Guarded(<<AssignStmt(Item(N(1), N(0)), N(1))>>)>> >>)
\* a list is shared, and its elements are changed in place
ListScripts ==
  After(<<Let("l", ListLiteral(<<N(1), N(2)>>)), Let("k", V("l")),
          Fn("f", <<"l">>, <<AugStmt(Item(V("l"), N(1)), "-", AwaitFut), ReturnStmt(Neg(N(1)))>>)>>,
    << <<Guarded(<<AssignStmt(Item(V("k"), Invoked("f", <<V("l")>>)), N(3))>>), Show(V("l"))>>,
       <<Guarded(<<AugStmt(Item(V("l"), N(2)), "+", N(1))>>),
         Guarded(<<AssignStmt(Item(V("l"), Neg(N(3))), N(1))>>), Show(V("k"))>>,
       <<Guarded(<<AugStmt(Item(V("l"), Invoked("f", <<V("k")>>)), "+", Invoked("f", <<V("k")>>))>>),
         Show(V("k"))>>,
       <<Caught(Item(V("l"), NilLiteral)), Guarded(<<AssignStmt(Item(V("l"), NilLiteral), N(0))>>),
         Show(Item(V("k"), Neg(N(2))))>> >>)
\* setting an item of an instance calls its class
SetterScripts ==
  After(<<ClassDecl("C", <<Fn("__setitem__", <<"self", "i", "x">>,
                              <<AssignStmt(OwnX, ListLiteral(<<V("i"), V("x")>>)), ReturnStmt(N(3))>>)>>,
                    << >>),
          Fn("f", << >>, <<Let("c", Invoked("C", << >>)), AssignStmt(Item(V("c"), N(1)), AwaitFut),
                           AssignStmt(Item(V("c"), N(2)), N(0)), ReturnStmt(MemberExpr(V("c"), "x"))>>)>>,
    << <<Caught(Minus(N(1), Invoked("f", << >>)))>>, <<Caught(Invoked("f", << >>))>> >>)
ImportScripts ==
  After(<<ImportStmt("m", "", << >>), ImportStmt("m", "n", << >>),
          AssignStmt(MemberExpr(V("n"), "z"), N(3))>>,
    << <<ImportStmt("m", "", <<[name |-> "y", alias |-> ""], [name |-> "z", alias |-> "x"]>>),
         Caught(ListLiteral(<<V("y"), V("x"), MemberExpr(V("m"), "z")>>))>>,
       <<Guarded(<<ImportStmt("m", "", <<[name |-> "y", alias |-> "q"], [name |-> "w", alias |-> ""]>>)>>),
         Caught(V("q")), Caught(V("w"))>> >>)
ObjectScripts ==
  SubtractingScripts \o CountingScripts \o PlainScripts \o ListScripts \o SetterScripts \o ImportScripts

-----------------------------------------------------------------------------
\* Lines of a REPL
ReplSessions == <<
  Repl(<< <<Let("x", N(1)), ExprStmt(V("x"))>>, <<ExprStmt(NilLiteral), ExprStmt(Plus(V("x"), N(1)))>> >>),
  Repl(<< <<Fn("f", <<"x">>, <<ExprStmt(V("x")), ThrowStmt(V("x"))>>), ExprStmt(N(0)),
            ExprStmt(Invoked("f", <<N(1)>>)), Show(N(3))>>,
          <<Guarded(<<ExprStmt(Invoked("f", <<N(1)>>))>>), ExprStmt(Invoked("f", <<N(2)>>))>>,
          <<IfStmt(TrueLiteral, Do(<<ExprStmt(N(2))>>), Absent), ExprStmt(V("nothing"))>> >>),
  Repl(<< <<ThrowStmt(NilLiteral)>>, <<ScopeStmt(<<"x">>), Let("x", N(3))>>,
          <<Fn("f", << >>, <<AugStmt(V("x"), "-", N(1))>>), ExprStmt(Invoked("f", << >>)), ExprStmt(V("x"))>> >>),
  [repl |-> TRUE, lines |-> << <<Absent>>, <<ThrowStmt(N(1))>>, <<ExprStmt(N(2))>> >>,
   text |-> << <<"x", "=", ";">>, <<"throw", "1", ";">>, <<"2", ";">> >>] >>

-----------------------------------------------------------------------------
\* Texts: how operators group, and what is not a program
Ops == << "||", "&&", "|", "^", "&", "==", "<", ">>", "-", "*", "**" >>
ToTheLeft(o, p) == ExprStmt(BinaryExpr(o, BinaryExpr(p, V("a"), V("b")), V("c")))
ToTheRight(o, p) == ExprStmt(BinaryExpr(o, V("a"), BinaryExpr(p, V("b"), V("c"))))
Mixed(o) ==
  <<ExprStmt(Neg(BinaryExpr(o, V("a"), V("b")))), ExprStmt(BinaryExpr(o, Neg(V("a")), Neg(V("b")))),
    ExprStmt(AwaitExpr(BinaryExpr(o, V("a"), V("b")))), ExprStmt(BinaryExpr(o, AwaitExpr(V("a")), V("b"))),
    ExprStmt(Item(MethodCall(BinaryExpr(o, V("a"), V("b")), "x", <<BinaryExpr(o, V("a"), V("b"))>>),
                BinaryExpr(o, V("a"), Item(V("b"), V("c"))))),
    AugStmt(MemberExpr(Item(V("a"), V("b")), "c"), "-", BinaryExpr(o, V("a"), UnaryExpr("~", UnaryExpr("+", V("b")))))>>
\* never called: only the grouping matters
Unrun(ss) == Script(<<Fn("f", << >>, ss)>>)
Texts ==
  [i \in DOMAIN Ops |-> Unrun(Pairs(ToTheLeft, Ops, <<Ops[i]>>))]
    \o [i \in DOMAIN Ops |-> Unrun(Pairs(ToTheRight, Ops, <<Ops[i]>>))]
    \o [i \in DOMAIN Ops |-> Unrun(Mixed(Ops[i]))]
    \o <<Unrun(<<ForStmt(Absent, Absent, Absent, Do(<<ReturnStmt(FalseLiteral)>>)),
                IfStmt(V("a"), IfStmt(V("b"), Show(N(1)), Show(N(2))), Absent),
                ExprStmt(ListLiteral(<< >>)), ExprStmt(Neg(BinaryExpr("**", N(1), N(2))))>>)>>
F0(ss) == P!WriteStmt(Fn("f", << >>, ss))
Refusals == <<
  Refusal(<<"return", "1", ";">>), Refusal(<<"yield", ";">>), Refusal(<<"print", "(", "1", ")">>),
  Refusal(<<"x", "=", "1", "+", ";">>), Refusal(<<"1", "**", "-", "1", ";">>), Refusal(<<"(", "1", ";">>),
  Refusal(<<"f", "(", "x", ",", ")", ";">>), Refusal(<<"x", ".", "1", ";">>), Refusal(<<"x", "[", "1", ";">>),
  Refusal(<<"fn", "f", "(", "a", "=", "1", ",", "b", ")", "{", "}">>),
  Refusal(<<"fn", "f", "(", "**", "k", ",", "a", "=", "1", ")", "{", "}">>),
  Refusal(<<"fn", "f", "(", "*", "x", ",", "*", "y", ")", "{", "}">>),
  Refusal(<<"class", "C", "{", "x", "=", "1", ";", "}">>),
  Refusal(<<"class", "C", "{">> \o P!WriteStmt(Fn("__init__", <<"self">>, <<ReturnStmt(N(1))>>)) \o <<"}">>),
  Refusal(<<"class", "C", "{">> \o P!WriteStmt(Fn("__init__", <<"self">>, <<YieldStmt(N(1))>>)) \o F0(<< >>) \o <<"}">>),
  Refusal(<<"try", "{", "}", "x">>), Refusal(<<"if", "(", "x", "{", "}">>), Refusal(<<"for", "(", ";", ")", "{", "}">>),
  Refusal(<<"from", "m", "import", ";">>), Refusal(<<"import", "m", "as", ";">>), Refusal(<<"global", ";">>),
  Refusal(<<"{", "x", ";">>), Refusal(<<"import", "1", ";">>) >>

-----------------------------------------------------------------------------
AllNames == {"print", "fut", "x", "y", "z", "w", "e", "f", "g", "m", "n", "q", "a", "b", "c", "d", "i", "k", "l",
             "r", "up", "down", "make", "nothing", "self", "C", "__init__", "__sub__", "__rsub__", "__neg__",
             "__getitem__", "__setitem__"}
SmallNumbers == [t \in {"0", "1", "2", "3"} |->
                   CASE t = "0" -> 0 [] t = "1" -> 1 [] t = "2" -> 2 [] t = "3" -> 3]
OneModule == [m |-> [ref |-> 1, fields |-> [y |-> IntV(2)]]]
AllSessions ==
  ControlScripts \o ArgumentScripts \o NameScripts \o ObjectScripts \o ReplSessions \o Texts \o Refusals

-----------------------------------------------------------------------------
\* A program parses to the tree it was written from, whatever the parentheses.
Stands(parsed, tree) == ~Failed(parsed) /\ P!BareAll(parsed.ast) = tree
ParsesBack ==
  phase = "compile" =>
    \/ session.lines[Line] = <<Absent>>
    \/ Stands(ParseAll(session.text[Line]), session.lines[Line])

\* What is printed and how the lines end is what the tree means.
MeansTheSource ==
  phase = "end" =>
    [out |-> out, outcomes |-> outcomes] = M!Meaning(session.repl, session.lines, answers)

\* The handlers of a frame are those of the try bodies its position is in, the
\* innermost last; in a REPL the one the first chunk begins with comes before them.
TriesAround(f) ==
  LET c == Chunk(f.chunk) IN
  {t \in DOMAIN c.opens : c.opens[t] < f.ip /\ f.ip <= c.closes[t]}
HandlersMatch ==
  \A i \in DOMAIN frames :
    LET f == frames[i]
        c == Chunk(f.chunk)
        own == SortSeq(SetToSeq({c.closes[t] + 2 : t \in TriesAround(f)}), >)
        prologue == IF Len(f.handlers) > Len(own) THEN <<2>> ELSE << >>
    IN [h \in DOMAIN f.handlers |-> f.handlers[h].ip] = prologue \o own

\* Between statements no operand is left.
AtRest ==
  (phase = "run" /\ result = Running /\ ~session.repl) =>
    (Frame.ip \in Chunk(Frame.chunk).rest => Len(stack) = Frame.bp)
StackAtRest == "__setitem__" \in ToSet(session.text[1]) \/ AtRest

\* No resize of the operands makes values up: what belongs to a frame or to a
\* handler lies within what belongs to the next one.
OperandsNest ==
  \A i \in DOMAIN frames :
    LET f == frames[i]
        above == IF i = Len(frames) THEN Len(stack) ELSE frames[i + 1].bp
        marks == <<f.bp>> \o [h \in DOMAIN f.handlers |-> f.handlers[h].top] \o <<above>>
    IN \A j, k \in DOMAIN marks : j < k => marks[j] <= marks[k]

\* An assignment to an item leaves the operands as they were before it.
SetItemLeavesNothing == AtRest

\* What a constructor returns is the instance.
Constructors == {heap[r].memfns["__init__"] : r \in {r \in DOMAIN heap :
                   "memfns" \in DOMAIN heap[r] /\ "__init__" \in DOMAIN heap[r].memfns}}
CtorReturnsInstance ==
  [][(result = Running /\ ExecReturn /\ Len(frames) > 1 /\ Frame.locals[1] \in Constructors)
       => Last(stack').type = "instance"]_vars

-----------------------------------------------------------------------------
SetItemSessions == <<
  Script(<<ClassDecl("C", <<Fn("__setitem__", <<"self", "i", "x">>, <<Show(V("x"))>>)>>, << >>),
           Let("c", Invoked("C", << >>)),
           WhileStmt(AwaitFut, Do(<<AssignStmt(Item(V("c"), N(1)), N(2))>>))>>) >>
CtorSessions == <<
  Script(<<ClassDecl("C", <<Fn("__init__", <<"self", "x">>, <<IfStmt(AwaitFut, Do(<<Let("self", V("x"))>>), Absent)>>)>>,
                     << >>),
           Let("c", Invoked("C", <<N(1)>>)), Show(V("c"))>>) >>
=============================================================================
