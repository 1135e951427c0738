----------------------------- MODULE M6Printer -----------------------------
(***************************************************************************)
(* Writing a syntax tree down as tokens, with the parentheses that the     *)
(* table of operators calls for and no others: the inverse the parser of   *)
(* M6Parser is compared with.                                              *)
(***************************************************************************)
EXTENDS M6Ast, FiniteSetsExt, SequencesExt

\* binary operators by how tightly they bind; those of a row bind to the left
Table == << {"||"}, {"&&"}, {"|"}, {"^"}, {"&"}, {"==", "!="}, {"<", "<=", ">", ">="},
            {"<<", ">>", ">>>"}, {"+", "-"}, {"*", "/", "%"} >>
UnaryRow == 11
PowerRow == 12      \* binds to the right
PostfixRow == 14

Row(e) ==
  CASE e.node = "await" -> 0
    [] e.node = "unary" -> UnaryRow
    [] e.node = "binary" /\ e.op = "**" -> PowerRow
    [] e.node = "binary" /\ e.op # "**" -> CHOOSE n \in DOMAIN Table : e.op \in Table[n]
    [] OTHER -> PostfixRow

RECURSIVE Write(_), WriteStmt(_)
Operand(e, row) == IF Row(e) < row THEN <<"(">> \o Write(e) \o <<")">> ELSE Write(e)

\* texts with commas between them
Commas(ts) ==
  FlattenSeq([i \in DOMAIN ts |-> IF i = 1 THEN ts[i] ELSE <<",">> \o ts[i]])
WriteAll(es) == Commas([i \in DOMAIN es |-> Write(es[i])])
WriteNamed(as) == [i \in DOMAIN as |-> <<as[i].name, "=">> \o Write(as[i].value)]

Write(e) ==
  CASE e.node \in {"nil", "true", "false"} -> <<e.node>>
    [] e.node = "absent" -> << >>
    [] e.node = "int" -> <<ToString(e.int)>>
    [] e.node = "id" -> <<e.name>>
    [] e.node = "list" -> <<"[">> \o WriteAll(e.elements) \o <<"]">>
    [] e.node = "unary" -> <<e.op>> \o Operand(e.sub, UnaryRow)
    [] e.node = "await" -> <<"await">> \o Write(e.sub)
    [] e.node = "binary" /\ e.op = "**" ->
         Operand(e.lhs, PowerRow + 1) \o <<"**">> \o Operand(e.rhs, PowerRow)
    [] e.node = "binary" /\ e.op # "**" ->
         Operand(e.lhs, Row(e)) \o <<e.op>> \o Operand(e.rhs, Row(e) + 1)
    [] e.node = "invoke" ->
         Operand(e.sub, PostfixRow) \o <<"(">>
           \o Commas([i \in DOMAIN e.args |-> Write(e.args[i])] \o WriteNamed(e.kwargs)) \o <<")">>
    [] e.node = "subscript" -> Operand(e.sub, PostfixRow) \o <<"[">> \o Write(e.index) \o <<"]">>
    [] e.node = "member" -> Operand(e.sub, PostfixRow) \o <<".", e.name>>

\* an assignment or an expression, which a for has without its semicolon
WriteSimple(s) ==
  CASE s.node = "assign" -> Write(s.lhs) \o <<"=">> \o Write(s.rhs)
    [] s.node = "aug" -> Write(s.lhs) \o <<s.op \o "=">> \o Write(s.rhs)
    [] s.node = "expr" -> Write(s.value)
    [] s.node = "absent" -> << >>

WriteMany(ss) == FlattenSeq([i \in DOMAIN ss |-> WriteStmt(ss[i])])
Aliased(n) == IF n.alias = "" THEN <<n.name>> ELSE <<n.name, "as", n.alias>>
Keyword(word, e) == <<word>> \o Write(e) \o <<";">>

WriteStmt(s) ==
  CASE s.node \in {"assign", "aug", "expr"} -> WriteSimple(s) \o <<";">>
    [] s.node = "if" ->
         <<"if", "(">> \o Write(s.cond) \o <<")">> \o WriteStmt(s.then)
           \o (IF s.els = Absent THEN << >> ELSE <<"else">> \o WriteStmt(s.els))
    [] s.node = "while" -> <<"while", "(">> \o Write(s.cond) \o <<")">> \o WriteStmt(s.body)
    [] s.node = "for" ->
         <<"for", "(">> \o WriteSimple(s.init) \o <<";">> \o Write(s.cond) \o <<";">>
           \o WriteSimple(s.inc) \o <<")">> \o WriteStmt(s.body)
    [] s.node = "block" -> <<"{">> \o WriteMany(s.stmts) \o <<"}">>
    [] s.node = "fn" ->
         <<"fn", s.name, "(">>
           \o Commas([i \in DOMAIN s.params |-> <<s.params[i]>>] \o WriteNamed(s.defaults)
                       \o (IF s.vararg = "" THEN << >> ELSE << <<"*", s.vararg>> >>)
                       \o (IF s.kwarg = "" THEN << >> ELSE << <<"**", s.kwarg>> >>))
           \o <<")">> \o WriteStmt(s.body)
    [] s.node = "class" -> <<"class", s.name, "{">> \o WriteMany(s.memfn \o s.staticfn) \o <<"}">>
    [] s.node \in {"return", "yield", "throw"} -> Keyword(s.node, s.value)
    [] s.node = "try" ->
         <<"try">> \o WriteStmt(s.body) \o <<"catch", "(", s.name, ")">> \o WriteStmt(s.handler)
    [] s.node = "import" /\ s.names = << >> ->
         <<"import">> \o Aliased([name |-> s.name, alias |-> s.alias]) \o <<";">>
    [] s.node = "import" /\ s.names # << >> ->
         <<"from", s.name, "import">> \o Commas([i \in DOMAIN s.names |-> Aliased(s.names[i])]) \o <<";">>
    [] s.node = "global" -> <<"global">> \o Commas([i \in DOMAIN s.vars |-> <<s.vars[i]>>]) \o <<";">>

\* a tree without its parentheses: the nodes, and the sequences and records of nodes
RECURSIVE Bare(_)
BareAll(es) == [i \in DOMAIN es |-> Bare(es[i])]
BareNamed(as) == [i \in DOMAIN as |-> Named(as[i].name, Bare(as[i].value))]
Bare(t) ==
  CASE t.node = "paren" -> Bare(t.sub)
    [] t.node = "block" -> [t EXCEPT !.stmts = BareAll(@)]
    [] t.node = "list" -> [t EXCEPT !.elements = BareAll(@)]
    [] t.node = "class" -> [t EXCEPT !.memfn = BareAll(@), !.staticfn = BareAll(@)]
    [] t.node = "invoke" ->
         [t EXCEPT !.sub = Bare(@), !.args = BareAll(@), !.kwargs = BareNamed(@)]
    [] t.node = "fn" -> [t EXCEPT !.defaults = BareNamed(@), !.body = Bare(@)]
    [] OTHER ->
         [f \in DOMAIN t |->
            IF f \in {"sub", "index", "lhs", "rhs", "cond", "then", "els", "body", "init", "inc",
                      "value", "handler"}
            THEN Bare(t[f]) ELSE t[f]]
=============================================================================
