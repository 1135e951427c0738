------------------------------- MODULE M6Ast -------------------------------
(***************************************************************************)
(* The syntax trees of serilang (m6/ast.hpp): one constructor per node.    *)
(* Source locations are left out.  `Absent' is a null pointer.             *)
(***************************************************************************)
EXTENDS Integers, Sequences

Absent == [node |-> "absent"]

\* the values of the literals
NilV == [type |-> "nil"]
BoolV(b) == [type |-> "bool", truth |-> b]
IntV(n) == [type |-> "int", int |-> n]
StrV(s) == [type |-> "str", str |-> s]

NilLiteral == [node |-> "nil"]
TrueLiteral == [node |-> "true"]
FalseLiteral == [node |-> "false"]
IntLiteral(n) == [node |-> "int", int |-> n]
StrLiteral(s) == [node |-> "str", str |-> s]
ListLiteral(es) == [node |-> "list", elements |-> es]
Identifier(x) == [node |-> "id", name |-> x]
UnaryExpr(op, e) == [node |-> "unary", op |-> op, sub |-> e]
BinaryExpr(op, l, r) == [node |-> "binary", op |-> op, lhs |-> l, rhs |-> r]
ParenExpr(e) == [node |-> "paren", sub |-> e]
\* kwargs is a sequence of pairs [name, value]
InvokeExpr(fn, args, kwargs) ==
  [node |-> "invoke", sub |-> fn, args |-> args, kwargs |-> kwargs]
SubscriptExpr(p, i) == [node |-> "subscript", sub |-> p, index |-> i]
MemberExpr(p, m) == [node |-> "member", sub |-> p, name |-> m]
AwaitExpr(e) == [node |-> "await", sub |-> e]

\* name and value of a keyword argument or of a parameter with a default
Named(x, e) == [name |-> x, value |-> e]

AssignStmt(l, r) == [node |-> "assign", lhs |-> l, rhs |-> r]
AugStmt(l, op, r) == [node |-> "aug", lhs |-> l, op |-> op, rhs |-> r]
IfStmt(c, t, e) == [node |-> "if", cond |-> c, then |-> t, els |-> e]
WhileStmt(c, b) == [node |-> "while", cond |-> c, body |-> b]
ForStmt(i, c, n, b) ==
  [node |-> "for", init |-> i, cond |-> c, inc |-> n, body |-> b]
BlockStmt(ss) == [node |-> "block", stmts |-> ss]
FuncDecl(f, ps, ds, va, kw, b) ==
  [node |-> "fn", name |-> f, params |-> ps, defaults |-> ds,
   vararg |-> va, kwarg |-> kw, body |-> b]
ClassDecl(c, ms, ss) ==
  [node |-> "class", name |-> c, memfn |-> ms, staticfn |-> ss]
ReturnStmt(e) == [node |-> "return", value |-> e]
YieldStmt(e) == [node |-> "yield", value |-> e]
ThrowStmt(e) == [node |-> "throw", value |-> e]
TryStmt(b, x, h) ==
  [node |-> "try", body |-> b, name |-> x, handler |-> h]
\* names is a sequence of records [name, alias]; an alias may be ""
ImportStmt(m, a, ns) ==
  [node |-> "import", name |-> m, alias |-> a, names |-> ns]
ScopeStmt(xs) == [node |-> "global", vars |-> xs]
ExprStmt(e) == [node |-> "expr", value |-> e]
=============================================================================
