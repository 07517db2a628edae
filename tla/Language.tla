------------------------------ MODULE Language ------------------------------
(***************************************************************************)
(* What the parser is held against: the language of the grammar as a       *)
(* definition of sequences of token types, which split into their parts    *)
(* somehow, and the words that a program reads back as.                    *)
(***************************************************************************)
EXTENDS Parser, Terms
LOCAL INSTANCE SequencesExt

(* ------------------------------ Sentences ------------------------------ *)
(* The two sides of every occurrence of one of the separators. *)
Splits(types, separators) ==
  {<<SubSeq(types, 1, i - 1), SubSeq(types, i + 1, Len(types))>> :
     i \in {k \in DOMAIN types : types[k] \in separators}}

(* What is between two tokens; a set of one sequence, or none. *)
Inside(left, types, right) ==
  IF Len(types) >= 2 /\ Head(types) = left /\ Last(types) = right
  THEN {SubSeq(types, 2, Len(types) - 1)} ELSE {}

RECURSIVE IsExpr(_), IsExprs(_)
IsExpr(types) ==
  \/ types \in {<<"Int">>, <<"Name">>}
  \/ \E s \in Splits(types, {"Add", "Sub"}) : IsExpr(s[1]) /\ IsExpr(s[2])
  \/ /\ types # <<>> /\ Head(types) = "Name"
     /\ \E args \in Inside("LParen", Tail(types), "RParen") : args = <<>> \/ IsExprs(args)
IsExprs(types) ==
  \/ IsExpr(types)
  \/ \E s \in Splits(types, {"Comma"}) : IsExpr(s[1]) /\ IsExprs(s[2])

IsNames(types) ==
  /\ Len(types) % 2 = 1
  /\ \A i \in DOMAIN types : types[i] = IF i % 2 = 1 THEN "Name" ELSE "Comma"

RECURSIVE IsComm(_)
IsComm(types) ==
  \/ \E s \in Splits(types, {"Assign"}) : s[1] = <<"Name">> /\ IsExpr(s[2])
  \/ \E s \in Splits(types, {"Return"}) : s[1] = <<>> /\ IsExpr(s[2])
  \/ \E s \in Splits(types, {"Semi"}) : IsComm(s[1]) /\ IsComm(s[2])
  \/ \E s \in Splits(types, {"While"}) : \E t \in Splits(s[2], {"Do"}) :
       /\ s[1] = <<>>
       /\ IsExpr(t[1])
       /\ \E body \in Inside("LCurly", t[2], "RCurly") : IsComm(body)

IsFunc(types) ==
  \E s \in Splits(types, {"LParen"}) : \E t \in Splits(s[2], {"RParen"}) :
    /\ s[1] = <<"Name">>
    /\ t[1] = <<>> \/ IsNames(t[1])
    /\ \E body \in Inside("LCurly", t[2], "RCurly") : IsComm(body)

RECURSIVE IsProg(_)
IsProg(types) ==
  \/ IsFunc(types)
  \/ \E s \in Splits(types, {"RCurly"}) :
       IsFunc(Append(s[1], "RCurly")) /\ IsProg(s[2])

(* ------------------------------- Words --------------------------------- *)
(* A program as the words it was made of: names through the name maps. *)
NameWord(prog, name) == <<[type |-> "Name", str |-> prog.name_map[name + 1]]>>
VarWord(prog, func, var) == NameWord(prog, func.local_name_map[var + 1])
FuncWord(prog, func) == NameWord(prog, prog.func_name_map[func + 1])
Sign(type) == <<[type |-> type, str |-> ""]>>

Separated(parts) ==
  FoldLeft(LAMBDA done, part : IF done = <<>> THEN part ELSE done \o Sign("Comma") \o part,
           <<>>, parts)

RECURSIVE ExprWords(_, _, _)
ExprWords(prog, func, expr) ==
  CASE expr.type = "Int" -> <<[type |-> "Int", num |-> expr.num]>>
    [] expr.type = "Var" -> VarWord(prog, func, expr.num)
    [] expr.type \in {"Add", "Sub"} ->
         ExprWords(prog, func, expr.expr1) \o Sign(expr.type)
           \o ExprWords(prog, func, expr.expr2)
    [] expr.type = "Call" ->
         FuncWord(prog, expr.num) \o Sign("LParen")
           \o Separated([i \in DOMAIN expr.args |-> ExprWords(prog, func, expr.args[i])])
           \o Sign("RParen")

RECURSIVE CommWords(_, _, _)
CommWords(prog, func, comm) ==
  CASE comm.type = "While" ->
         Sign("While") \o ExprWords(prog, func, comm.expr) \o Sign("Do")
           \o Sign("LCurly") \o CommWords(prog, func, comm.comm1) \o Sign("RCurly")
    [] comm.type = "Assign" ->
         VarWord(prog, func, comm.name) \o Sign("Assign") \o ExprWords(prog, func, comm.expr)
    [] comm.type = "Comp" ->
         CommWords(prog, func, comm.comm1) \o Sign("Semi") \o CommWords(prog, func, comm.comm2)
    [] comm.type = "Return" -> Sign("Return") \o ExprWords(prog, func, comm.expr)

FunctionWords(prog, func) ==
  FuncWord(prog, func.name) \o Sign("LParen")
    \o Separated([i \in 1 .. func.num_args |-> VarWord(prog, func, i - 1)])
    \o Sign("RParen") \o Sign("LCurly") \o CommWords(prog, func, func.body)
    \o Sign("RCurly")

ProgWords(prog) ==
  FlattenSeq([i \in DOMAIN prog.funcs |-> FunctionWords(prog, prog.funcs[i])])

(* What is checked of a source is its types up to the end. *)
IsSentence(toks) ==
  IsProg([i \in 1 .. Len(toks) - 1 |-> toks[i].type])

SourceWords ==
  [i \in DOMAIN source |->
     CASE parser_tokens[i].type = "Name" -> [type |-> "Name", str |-> source[i]]
       [] parser_tokens[i].type = "Int"  -> [type |-> "Int", num |-> atoi(Literals[source[i]])]
       [] OTHER -> [type |-> parser_tokens[i].type, str |-> ""]]

(* ------------------------------ Properties ----------------------------- *)
(* The machine accepts the sentences of the grammar in parser.y, and nothing
   else (what differs in the grammar of README.md is in AcceptsTheDocumentedLanguage):
   although the grammar is ambiguous and bison settles its conflicts
   by always shifting, no sentence is lost. *)
AcceptsTheGrammar ==
  /\ Parsed => IsSentence(parser_tokens)
  /\ Failed => ~IsSentence(parser_tokens)

(* The language is that of README.md:8-11 ("PROG ::= main(ARGS) { COMM } FUNC",
   "EXPR * EXPR"): a program starts with main, and a product may be wherever a sum
   is.  The code does neither: lexer.l has no rule for a "*", and parser.y:169 takes
   any function for the first. *)
DocumentedTypes ==
  [i \in DOMAIN source |-> IF source[i] = "*" THEN "Add" ELSE parser_tokens[i].type]

IsDocumented ==
  source # <<>> /\ Head(source) = "main" /\ IsProg(DocumentedTypes)

AcceptsTheDocumentedLanguage ==
  /\ Parsed => IsDocumented
  /\ Failed => ~IsDocumented

(* Nothing is lost, invented or exchanged between the source and the program:
   read back through the two name maps of parse and the one of the lexer, the
   program is the source (lease_name, flip_name_map, the rules' values, and
   the tokens that ReduceInt and ReduceName take). *)
SourceIsRecovered == Parsed => ProgWords(parse_result.prog) = SourceWords

(* No operand or command nests to the left: a - b - c is a - (b - c), and
   p; q; r is p; (q; r) (the rules expr: expr Sub expr and comm: comm Semi comm
   without a declared associativity). *)
RECURSIVE NestsRight(_)
NestsRight(term) ==
  /\ term.type \in {"Add", "Sub"} => term.expr1.type \notin {"Add", "Sub"}
  /\ term.type = "Comp" => term.comm1.type # "Comp"
  /\ \A i \in DOMAIN Subterms(term) : NestsRight(Subterms(term)[i])

NestsToTheRight ==
  Parsed => \A i \in DOMAIN parse_result.prog.funcs :
              NestsRight(parse_result.prog.funcs[i].body)
=============================================================================
