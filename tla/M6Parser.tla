----------------------------- MODULE M6Parser -----------------------------
(***************************************************************************)
(* The recursive-descent parser of serilang (m6/parser.cpp).               *)
(*                                                                         *)
(* A token is the string it is written as; `Names' are the identifiers,    *)
(* `Numbers' maps the texts of integer literals to their values, and       *)
(* string literals are not used.  A production takes the position of the   *)
(* first token it may consume and gives the position after the last and    *)
(* the node.  Position 0 is failure.  The parser of the code goes on after *)
(* an error to report more of them; a text with an error is rejected as a  *)
(* whole, so here the first error ends the parse.                          *)
(***************************************************************************)
EXTENDS M6Ast, SequencesExt

CONSTANTS Names,      \* identifiers
          Numbers     \* integer literals: a function from texts to numbers

Fail == [pos |-> 0, ast |-> Absent]
Got(i, a) == [pos |-> i, ast |-> a]
Failed(r) == r.pos = 0

\* tryConsume and require: the token at i is t
Is(ts, i, t) == i # 0 /\ i <= Len(ts) /\ ts[i] = t
IsId(ts, i) == i # 0 /\ i <= Len(ts) /\ ts[i] \in Names
\* go on from what has been read; make a node of it; require<t> behind it
Then(r, F(_)) == IF Failed(r) THEN Fail ELSE F(r)
Map(r, Make(_)) == IF Failed(r) THEN Fail ELSE Got(r.pos, Make(r.ast))
Closed(ts, r, t) == IF Is(ts, r.pos, t) THEN Got(r.pos + 1, r.ast) ELSE Fail

\* the chained binary operators, loosest first
Levels == << {"||"}, {"&&"}, {"|"}, {"^"}, {"&"}, {"==", "!="},
             {"<", "<=", ">", ">="}, {"<<", ">>", ">>>"}, {"+", "-"},
             {"*", "/", "%"} >>
AssignOps == [t \in {"+=", "-=", "*=", "/=", "%=", "&=", "|=", "^=", "<<=", ">>=", ">>>="} |->
                CASE t = "+=" -> "+" [] t = "-=" -> "-" [] t = "*=" -> "*"
                  [] t = "/=" -> "/" [] t = "%=" -> "%" [] t = "&=" -> "&"
                  [] t = "|=" -> "|" [] t = "^=" -> "^" [] t = "<<=" -> "<<"
                  [] t = ">>=" -> ">>" [] t = ">>>=" -> ">>>"]

RECURSIVE ParseBinary(_, _, _), ParseUnary(_, _), ParseExponentiation(_, _),
          ParsePostfix(_, _), ParsePrimary(_, _), ParseStatement(_, _, _)

\* parseLogicalOr
ParseExpression(ts, i) == ParseBinary(ts, i, 1)

(***************************************************************************)
(* item (sep item)*: items have been read up to r.pos; r.ast is the        *)
(* sequence of what they yielded.  The loops of the parser over argument,  *)
(* element, parameter and name lists.                                      *)
(***************************************************************************)
RECURSIVE Listed(_, _, _)
Listed(Item(_, _), ts, r) ==
  Then(Map(Item(ts, r.pos), LAMBDA x : Append(r.ast, x)), LAMBDA s :
    IF Is(ts, s.pos, ",") THEN Listed(Item, ts, Got(s.pos + 1, s.ast)) ELSE s)
\* a list that may be empty, and the token that ends it
ParseList(Item(_, _), ts, i, t) ==
  IF Is(ts, i, t) THEN Got(i + 1, << >>) ELSE Closed(ts, Listed(Item, ts, Got(i, << >>)), t)

(***************************************************************************)
(* parseLogicalOr .. parseMultiplicative: a function of level n reads its  *)
(* operands with that of level n + 1 and chains them to the left.  Here l  *)
(* has been read, and the operators of level n or tighter behind it are    *)
(* taken together: a level hands back what its callers go on with.         *)
(***************************************************************************)
RECURSIVE Chain(_, _, _)
Chain(ts, n, l) ==
  LET fits == {m \in n..Len(Levels) : \E op \in Levels[m] : Is(ts, l.pos, op)} IN
  IF fits = {} THEN l
  ELSE Chain(ts, n, Map(ParseBinary(ts, l.pos + 1, Min(fits) + 1),
                        LAMBDA e : BinaryExpr(ts[l.pos], l.ast, e)))
ParseBinary(ts, i, n) == Chain(ts, n, ParseUnary(ts, i))

ParseUnary(ts, i) ==
  IF \E op \in {"+", "-", "~"} : Is(ts, i, op)
  THEN Map(ParseUnary(ts, i + 1), LAMBDA e : UnaryExpr(ts[i], e)) ELSE ParseExponentiation(ts, i)

\* Mutant of ParseAwait: await takes what binds tightest.
AwaitTightly(ts, i) ==
  IF Is(ts, i, "await") THEN Map(ParsePostfix(ts, i + 1), AwaitExpr) ELSE ParsePostfix(ts, i)

\* parseAwait: await takes a whole expression
ParseAwait(ts, i) ==
  IF Is(ts, i, "await") THEN Map(ParseExpression(ts, i + 1), AwaitExpr) ELSE ParsePostfix(ts, i)

Powered(ts, l) ==
  IF Is(ts, l.pos, "**")
  THEN Map(ParseExponentiation(ts, l.pos + 1), LAMBDA e : BinaryExpr("**", l.ast, e)) ELSE l
ParseExponentiation(ts, i) == Powered(ts, ParseAwait(ts, i))

\* an argument: `name = expression' is a keyword argument
ParseArgument(ts, i) ==
  IF IsId(ts, i) /\ Is(ts, i + 1, "=")
  THEN Map(ParseExpression(ts, i + 2), LAMBDA e : Named(ts[i], e))
  ELSE Map(ParseExpression(ts, i), LAMBDA e : Named("", e))

\* the arguments after the '(' at i - 1, for the callee fn
Invocation(fn, as) ==
  LET args == SelectSeq(as, LAMBDA a : a.name = "")
  IN InvokeExpr(fn, [k \in DOMAIN args |-> args[k].value], SelectSeq(as, LAMBDA a : a.name # ""))
ParseInvoke(ts, i, fn) ==
  Map(ParseList(ParseArgument, ts, i, ")"), LAMBDA as : Invocation(fn, as))

\* the loop of parsePostfix: l is the expression read so far
RECURSIVE Postfixes(_, _)
Postfixes(ts, l) ==
  CASE Is(ts, l.pos, "(") -> Postfixes(ts, ParseInvoke(ts, l.pos + 1, l.ast))
    [] Is(ts, l.pos, ".") ->
         IF IsId(ts, l.pos + 1)
         THEN Postfixes(ts, Got(l.pos + 2, MemberExpr(l.ast, ts[l.pos + 1]))) ELSE Fail
    [] Is(ts, l.pos, "[") ->
         Postfixes(ts, Map(Closed(ts, ParseExpression(ts, l.pos + 1), "]"),
                           LAMBDA e : SubscriptExpr(l.ast, e)))
    [] OTHER -> l

ParsePostfix(ts, i) == Postfixes(ts, ParsePrimary(ts, i))

ParsePrimary(ts, i) ==
  CASE i = 0 \/ i > Len(ts) -> Fail
    [] ts[i] = "nil" -> Got(i + 1, NilLiteral)
    [] ts[i] = "true" -> Got(i + 1, TrueLiteral)
    [] ts[i] = "false" -> Got(i + 1, FalseLiteral)
    [] ts[i] \in DOMAIN Numbers -> Got(i + 1, IntLiteral(Numbers[ts[i]]))
    [] IsId(ts, i) -> Got(i + 1, Identifier(ts[i]))
    [] ts[i] = "(" -> Map(Closed(ts, ParseExpression(ts, i + 1), ")"), ParenExpr)
    [] ts[i] = "[" -> Map(ParseList(ParseExpression, ts, i + 1, "]"), ListLiteral)
    [] OTHER -> Fail

\* assignment, or an expression by itself: l is the first expression
Assignment(ts, l) ==
  CASE Is(ts, l.pos, "=") ->
         Map(ParseExpression(ts, l.pos + 1), LAMBDA e : AssignStmt(l.ast, e))
    [] \E t \in DOMAIN AssignOps : Is(ts, l.pos, t) ->
         Map(ParseExpression(ts, l.pos + 1), LAMBDA e : AugStmt(l.ast, AssignOps[ts[l.pos]], e))
    [] OTHER -> Map(l, ExprStmt)
ParseAssignment(ts, i) == Assignment(ts, ParseExpression(ts, i))

(***************************************************************************)
(* Parameter lists: (a, b, c = 1, *args, d = 2, **kw)                      *)
(* A parameter is [kind, name, value].                                     *)
(***************************************************************************)
Param(k, x, e) == [kind |-> k, name |-> x, value |-> e]
ParseParam(ts, i) ==
  CASE Is(ts, i, "**") ->
         IF IsId(ts, i + 1) THEN Got(i + 2, Param("kw", ts[i + 1], Absent)) ELSE Fail
    [] Is(ts, i, "*") ->
         IF IsId(ts, i + 1) THEN Got(i + 2, Param("var", ts[i + 1], Absent))
         ELSE Got(i + 1, Param("star", "", Absent))
    [] IsId(ts, i) ->
         IF Is(ts, i + 1, "=")
         THEN Map(ParseExpression(ts, i + 2), LAMBDA e : Param("default", ts[i], e))
         ELSE Got(i + 1, Param("plain", ts[i], Absent))
    [] OTHER -> Fail

\* what scanning the list in order accepts
GoodParams(ps) ==
  \A j \in DOMAIN ps :
    /\ ps[j].kind = "plain" => \A h \in 1..(j - 1) : ps[h].kind = "plain"
    /\ ps[j].kind = "kw" => j = Len(ps)
    /\ ps[j].kind = "var" => \A h \in 1..(j - 1) : ps[h].kind # "var"

\* ScanParameterList and the rest of parseFuncDecl, after `fn'
Declaration(f, ps, body) ==
  LET of(k) == SelectSeq(ps, LAMBDA p : p.kind = k)
      name(k) == IF of(k) = << >> THEN "" ELSE of(k)[1].name
  IN FuncDecl(f, [k \in DOMAIN of("plain") |-> of("plain")[k].name],
              [k \in DOMAIN of("default") |-> Named(of("default")[k].name, of("default")[k].value)],
              name("var"), name("kw"), body)
ParseFuncDecl(ts, i) ==
  IF IsId(ts, i) /\ Is(ts, i + 1, "(")
  THEN Then(ParseList(ParseParam, ts, i + 2, ")"), LAMBDA r :
         IF GoodParams(r.ast) /\ Is(ts, r.pos, "{")
         THEN Map(ParseStatement(ts, r.pos, FALSE), LAMBDA b : Declaration(ts[i], r.ast, b)) ELSE Fail)
  ELSE Fail

\* the members of a class from r.pos to '}': r.ast is what has been read
RECURSIVE ParseMembers(_, _)
ParseMembers(ts, r) ==
  CASE Is(ts, r.pos, "}") -> Got(r.pos + 1, r.ast)
    [] Is(ts, r.pos, "fn") ->
         ParseMembers(ts, Map(ParseFuncDecl(ts, r.pos + 1), LAMBDA f : Append(r.ast, f)))
    [] OTHER -> Fail

\* a function whose first plain parameter is self is a member, others are static
TakesSelf(f) == f.params # << >> /\ f.params[1] = "self"
ParseClass(ts, i) ==
  IF IsId(ts, i) /\ Is(ts, i + 1, "{")
  THEN Map(ParseMembers(ts, Got(i + 2, << >>)), LAMBDA fs :
         ClassDecl(ts[i], SelectSeq(fs, TakesSelf), SelectSeq(fs, LAMBDA f : ~TakesSelf(f))))
  ELSE Fail

\* name [as alias]
ParseAliased(ts, i) ==
  CASE ~IsId(ts, i) -> Fail
    [] Is(ts, i + 1, "as") ->
         IF IsId(ts, i + 2) THEN Got(i + 3, [name |-> ts[i], alias |-> ts[i + 2]]) ELSE Fail
    [] OTHER -> Got(i + 1, [name |-> ts[i], alias |-> ""])

ParseName(ts, i) == IF IsId(ts, i) THEN Got(i + 1, ts[i]) ELSE Fail

\* [expression] ;   as after return, yield and throw
ParseOperand(ts, i, Make(_)) ==
  IF Is(ts, i, ";") THEN Got(i + 1, Make(Absent)) ELSE Map(Closed(ts, ParseExpression(ts, i), ";"), Make)

\* ( condition ) statement   as after if and while; ast is the pair
ParseGuarded(ts, i) ==
  IF Is(ts, i, "(")
  THEN Then(Closed(ts, ParseExpression(ts, i + 1), ")"), LAMBDA c :
         Map(ParseStatement(ts, c.pos, TRUE), LAMBDA s : <<c.ast, s>>))
  ELSE Fail

\* one clause of a for: empty if the token at i is t, else read by Item and ended by t
ParseClause(Item(_, _), ts, i, t) ==
  IF Is(ts, i, t) THEN Got(i + 1, Absent) ELSE Closed(ts, Item(ts, i), t)
ParseSimple(ts, i) == ParseStatement(ts, i, FALSE)

ParseFor(ts, i) ==
  IF Is(ts, i, "(")
  THEN Then(ParseClause(ParseSimple, ts, i + 1, ";"), LAMBDA a :
         Then(ParseClause(ParseExpression, ts, a.pos, ";"), LAMBDA b :
           Then(ParseClause(ParseSimple, ts, b.pos, ")"), LAMBDA c :
             Map(ParseStatement(ts, c.pos, TRUE), LAMBDA s : ForStmt(a.ast, b.ast, c.ast, s)))))
  ELSE Fail

ParseTry(ts, i) ==
  Then(ParseStatement(ts, i, TRUE), LAMBDA b :
    IF Is(ts, b.pos, "catch") /\ Is(ts, b.pos + 1, "(") /\ IsId(ts, b.pos + 2) /\ Is(ts, b.pos + 3, ")")
    THEN Map(ParseStatement(ts, b.pos + 4, TRUE), LAMBDA h : TryStmt(b.ast, ts[b.pos + 2], h))
    ELSE Fail)

\* the statements of a block up to its '}': r.ast is what has been read
RECURSIVE ParseBody(_, _)
ParseBody(ts, r) ==
  IF Failed(r) \/ Is(ts, r.pos, "}") THEN Map(Closed(ts, r, "}"), BlockStmt)
  ELSE ParseBody(ts, Map(ParseStatement(ts, r.pos, TRUE), LAMBDA s : Append(r.ast, s)))

ParseIf(ts, i) ==
  Then(ParseGuarded(ts, i), LAMBDA t :
    IF Is(ts, t.pos, "else")
    THEN Map(ParseStatement(ts, t.pos + 1, TRUE), LAMBDA e : IfStmt(t.ast[1], t.ast[2], e))
    ELSE Got(t.pos, IfStmt(t.ast[1], t.ast[2], Absent)))

ParseStatement(ts, i, semi) ==
  CASE i = 0 \/ i > Len(ts) -> Fail
    [] ts[i] = "if" -> ParseIf(ts, i + 1)
    [] ts[i] = "while" -> Map(ParseGuarded(ts, i + 1), LAMBDA p : WhileStmt(p[1], p[2]))
    [] ts[i] = "for" -> ParseFor(ts, i + 1)
    [] ts[i] = "class" -> ParseClass(ts, i + 1)
    [] ts[i] = "fn" -> ParseFuncDecl(ts, i + 1)
    [] ts[i] = "return" -> ParseOperand(ts, i + 1, ReturnStmt)
    [] ts[i] = "yield" -> ParseOperand(ts, i + 1, YieldStmt)
    [] ts[i] = "throw" -> ParseOperand(ts, i + 1, ThrowStmt)
    [] ts[i] = "try" -> ParseTry(ts, i + 1)
    [] ts[i] = "global" ->
         Map(Closed(ts, Listed(ParseName, ts, Got(i + 1, << >>)), ";"), ScopeStmt)
    [] ts[i] = "import" ->
         Map(Closed(ts, ParseAliased(ts, i + 1), ";"),
             LAMBDA m : ImportStmt(m.name, m.alias, << >>))
    [] ts[i] = "from" ->
         IF IsId(ts, i + 1) /\ Is(ts, i + 2, "import")
         THEN Map(Closed(ts, Listed(ParseAliased, ts, Got(i + 3, << >>)), ";"),
                  LAMBDA ns : ImportStmt(ts[i + 1], "", ns))
         ELSE Fail
    [] ts[i] = "{" -> ParseBody(ts, Got(i + 1, << >>))
    [] OTHER -> IF semi THEN Closed(ts, ParseAssignment(ts, i), ";") ELSE ParseAssignment(ts, i)

\* ParseAll: the statements of a text, or Fail
RECURSIVE ParseRest(_, _)
ParseRest(ts, r) ==
  IF Failed(r) \/ r.pos > Len(ts) THEN r
  ELSE ParseRest(ts, Map(ParseStatement(ts, r.pos, TRUE), LAMBDA s : Append(r.ast, s)))
ParseAll(ts) == ParseRest(ts, Got(1, << >>))
=============================================================================
