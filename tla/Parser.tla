------------------------------- MODULE Parser -------------------------------
(***************************************************************************)
(* The parser (parser.y): bison's shift-reduce machine for the grammar,    *)
(* with the semantic action of each rule, and then the linking of names.   *)
(*                                                                         *)
(* bison's tables are generated; what they do for this grammar is stated   *)
(* by MayShift and OnTop: the parser shifts where it can and reduces where *)
(* it cannot, which is how bison settles the grammar's conflicts, and it   *)
(* reads the next token only in a state that has a choice.                 *)
(*                                                                         *)
(* After a syntax error the recovery goes on with the grammar's error      *)
(* rules, to find more errors.  What it builds is thrown away, and it is   *)
(* left out: the first syntax error decides that the result is parseFail.  *)
(* Positions are left out, too.                                            *)
(***************************************************************************)
EXTENDS Lexer, Walks

(* How the linking goes through a term, an expression or a command; Terms has it. *)
CONSTANTS
  VariablesOf(_),  \* the variables in a term, in the order of the walk
  CallsOf(_),      \* the names of the functions it calls, in the order of the walk
  Renamed(_, _, _),\* the term with its variables and functions replaced
  CalleesOf(_)     \* the functions it calls, however they are found

(* That they are what Walks says at every node: it holds of those of Terms by their
   definition. *)
WalkThrough(terms, maps) ==
  \A t \in terms :
    /\ VariablesOf(t) = VariablesHere(t, VariablesOf)
    /\ CallsOf(t) = CallsHere(t, CallsOf)
    /\ CalleesOf(t) = CalleesHere(t, CalleesOf)
    /\ \A variable, function \in maps :
         LET Inside(s) == Renamed(s, variable, function)
         IN  Renamed(t, variable, function) = ReplacedHere(t, variable, function, Inside)

VARIABLES
  symbols,           \* bison's stack: grammar symbols with their values
  parser_token_idx,  \* the token yylex returned last
  lookahead,         \* whether that token is still to be shifted
  errors,            \* the tokens for which an error was recorded
  parse_result

parserVars == <<symbols, parser_token_idx, lookahead, errors, parse_result>>
frontEndVars == <<lexerVars, parserVars>>

Pending == [type |-> "pending"]
ParseFail_init(errs) == [type |-> "parseFail", errors |-> errs]
ParseSuccess_init(prog) == [type |-> "parseSuccess", prog |-> prog]

(* ---------------------------- The grammar ------------------------------- *)
(* The rules, and the symbols that may be under the right-hand side where
   that decides which rule it belongs to. *)
Rule(left, right) == [lhs |-> left, rhs |-> right]
Grammar ==
  [prog       |-> Rule("prog", <<"funcs">>),
   func       |-> Rule("func", <<"name", "LParen", "names", "RParen", "LCurly", "comm", "RCurly">>),
   funcs      |-> Rule("funcs", <<"func", "funcs">>),
   lastFunc   |-> Rule("funcs", <<"func">>),
   while      |-> Rule("comm", <<"While", "expr", "Do", "LCurly", "comm", "RCurly">>),
   assign     |-> Rule("comm", <<"name", "Assign", "expr">>),
   comp       |-> Rule("comm", <<"comm", "Semi", "comm">>),
   return     |-> Rule("comm", <<"Return", "expr">>),
   int        |-> Rule("expr", <<"Int">>),
   add        |-> Rule("expr", <<"expr", "Add", "expr">>),
   sub        |-> Rule("expr", <<"expr", "Sub", "expr">>),
   call       |-> Rule("expr", <<"name", "LParen", "exprs", "RParen">>),
   var        |-> Rule("expr", <<"name">>),
   name       |-> Rule("name", <<"Name">>),
   noNames    |-> Rule("names", <<>>),
   names      |-> Rule("names", <<"name", "namescont">>),
   lastName   |-> Rule("namescont", <<>>),
   namescont  |-> Rule("namescont", <<"Comma", "name", "namescont">>),
   noExprs    |-> Rule("exprs", <<>>),
   exprs      |-> Rule("exprs", <<"expr", "exprscont">>),
   lastExpr   |-> Rule("exprscont", <<>>),
   exprscont  |-> Rule("exprscont", <<"Comma", "expr", "exprscont">>)]

(* The symbol with depth others above it; "start" at the bottom. *)
SymbolAt(depth) ==
  IF depth < Len(symbols) THEN symbols[Len(symbols) - depth].sym ELSE "start"
Top     == SymbolAt(0)
Beneath == SymbolAt(1)

(* The arguments of a function, and not a body, are being read. *)
InHeader == \A i \in DOMAIN symbols : symbols[i].sym # "LCurly"

(* A name stands where an expression does. *)
OperandPlace(sym) ==
  \/ sym \in {"While", "Assign", "Return", "Add", "Sub"}
  \/ sym \in {"LParen", "Comma"} /\ ~InHeader

Handle(rhs) ==
  /\ Len(rhs) <= Len(symbols)
  /\ \A i \in DOMAIN rhs : SymbolAt(Len(rhs) - i) = rhs[i]

(* The right-hand side of the rule is complete. *)
OnTop(rule) ==
  /\ Handle(Grammar[rule].rhs)
  /\ rule = "prog"     => Len(symbols) = 1
  /\ rule = "var"      => OperandPlace(Beneath)
  /\ rule = "noNames"  => Top = "LParen" /\ InHeader
  /\ rule = "names"    => SymbolAt(2) = "LParen"
  /\ rule = "lastName" => Top = "name" /\ Beneath \in {"LParen", "Comma"} /\ InHeader
  /\ rule = "noExprs"  => Top = "LParen" /\ ~InHeader
  /\ rule = "exprs"    => SymbolAt(2) = "LParen"
  /\ rule = "lastExpr" => Top = "expr" /\ Beneath \in {"LParen", "Comma"}

(* The tokens that can follow what is on the stack. *)
MayShift(type) ==
  \/ Top \in {"start", "func"} /\ type = "Name"
  \/ Top \in {"LCurly", "Semi"} /\ type \in {"While", "Name", "Return"}
  \/ OperandPlace(Top) /\ type \in {"Int", "Name"}
  \/ Top \in {"LParen", "Comma"} /\ InHeader /\ type = "Name"
  \/ Top = "name" /\ Beneath \in {"start", "func"} /\ type = "LParen"
  \/ Top = "name" /\ Beneath \in {"LCurly", "Semi"} /\ type = "Assign"
  \/ Top = "name" /\ Beneath \in {"LParen", "Comma"} /\ InHeader /\ type = "Comma"
  \/ Top = "name" /\ OperandPlace(Beneath) /\ type = "LParen"
  \/ Top \in {"names", "exprs"} /\ type = "RParen"
  \/ Top = "RParen" /\ InHeader /\ type = "LCurly"
  \/ Top = "expr" /\ type \in {"Add", "Sub"}
  \/ Top = "expr" /\ Beneath = "While" /\ type = "Do"
  \/ Top = "expr" /\ Beneath \in {"LParen", "Comma"} /\ type = "Comma"
  \/ Top = "Do" /\ type = "LCurly"
  \/ Top = "comm" /\ type = "Semi"
  \/ Top = "comm" /\ Beneath = "LCurly" /\ type = "RCurly"

(* Mutant: after a literal the next token is read. *)
ReadsAfterInt ==
  \/ Top \in {"Name", "RCurly", "namescont", "exprscont", "funcs"}
  \/ Top = "RParen" /\ ~InHeader

(* The states with a single reduction: bison does not read on in them. *)
Consistent ==
  \/ Top \in {"Int", "Name", "RCurly", "namescont", "exprscont", "funcs"}
  \/ Top = "RParen" /\ ~InHeader

(* ---------------------------- The linking ------------------------------- *)
(* complete_local_name_map_Comm: the map that the names of the body extend,
   and the body with its variables replaced; functions keep their names ... *)
CompleteLocalMap(local_name_map, comm) == Leased(local_name_map, VariablesOf(comm))
LocallyNamed(map, comm) == Renamed(comm, Indices(map), Unchanged(CallsOf(comm)))

(* Mutant: the names in a body are leased right after its function's. *)
LeaseInOnePass(funcs) ==
  Concatenated([i \in DOMAIN funcs |-> <<funcs[i].name>> \o CallsOf(funcs[i].body)])

(* ... until complete_func_name_map_FuncVector: first it leases the names of
   all functions, then those in their bodies. *)
FunctionNamesIn(funcs) ==
  [i \in DOMAIN funcs |-> funcs[i].name]
    \o Concatenated([i \in DOMAIN funcs |-> CallsOf(funcs[i].body)])

CompleteFuncMap(funcs) == Leased(<<>>, FunctionNamesIn(funcs))
GloballyNamed(map, funcs) ==
  [i \in DOMAIN funcs |->
     [funcs[i] EXCEPT !.name = lease_name(map, @),
                      !.body = Renamed(@, Unchanged(VariablesOf(@)), Indices(map))]]

(* ---------------------------- The machine ------------------------------- *)
ParserInit ==
  /\ symbols = <<>>
  /\ parser_token_idx = -1
  /\ lookahead = FALSE
  /\ errors = <<>>
  /\ parse_result = Pending

(* parser_tokens, and yylval after a call of yylex. *)
parser_tokens == lexer_result.tokens
yylval == parser_tokens[parser_token_idx + 1]

Parsing == Lexed /\ parse_result = Pending

(* yylex: TokenVector_get ends the process behind the last token. *)
NextToken == parser_tokens[parser_token_idx + 2]
Yylex(isError) ==
  /\ Parsing
  /\ ~Consistent
  /\ ~lookahead
  /\ parser_token_idx + 1 < Len(parser_tokens)
  /\ parser_token_idx' = parser_token_idx + 1
  /\ isError = (NextToken.type = "error")

ReadToken ==
  /\ Yylex(FALSE)
  /\ lookahead' = TRUE
  /\ UNCHANGED <<symbols, errors, parse_result>>

(* Mutant: the token is skipped and not recorded. *)
SkipSilently ==
  /\ Yylex(TRUE)
  /\ UNCHANGED <<symbols, lookahead, errors, parse_result>>

(* yylex records the token and calls itself. *)
SkipErrorToken ==
  /\ Yylex(TRUE)
  /\ errors' = Append(errors, NextToken)
  /\ UNCHANGED <<symbols, lookahead, parse_result>>

(* A value of the symbol that is the k-th from the top, as $n in a rule. *)
Value(k) == symbols[Len(symbols) + 1 - k].yyval

Push(stack, sym, value) == symbols' = Append(stack, [sym |-> sym, yyval |-> value])

Shift ==
  /\ Parsing
  /\ lookahead
  /\ MayShift(yylval.type)
  /\ Push(symbols, yylval.type, yylval)
  /\ lookahead' = FALSE
  /\ UNCHANGED <<parser_token_idx, errors, parse_result>>

(* Mutant: a conflict is settled by reducing. *)
MayReduceEarly ==
  \/ Consistent
  \/ lookahead /\ (Top = "expr" \/ ~MayShift(yylval.type))

MayReduce ==
  \/ Consistent
  \/ lookahead /\ ~MayShift(yylval.type)

Reduce(rule, value) ==
  /\ Parsing
  /\ MayReduce
  /\ OnTop(rule)
  /\ Push(SubSeq(symbols, 1, Len(symbols) - Len(Grammar[rule].rhs)),
          Grammar[rule].lhs, value)
  /\ UNCHANGED <<parser_token_idx, lookahead, errors, parse_result>>

ReduceProg == Reduce("prog", Value(1))

(* The arguments' names are the first of the local names. *)
ReduceFunc ==
  /\ OnTop("func")
  /\ \E map \in {CompleteLocalMap(Value(5), Value(2))} :
       Reduce("func",
              Func_init_pos(Value(7), Len(Value(5)), map, LocallyNamed(map, Value(2))))

ReduceFuncs    == Reduce("funcs", <<Value(2)>> \o Value(1))
ReduceLastFunc == Reduce("lastFunc", <<Value(1)>>)
ReduceWhile    == Reduce("while", While_init(Value(5), Value(2)))
ReduceAssign   == Reduce("assign", Assign_init(Value(3), Value(1)))
ReduceComp     == Reduce("comp", Comp_init(Value(3), Value(1)))
ReduceReturn   == Reduce("return", Return_init(Value(1)))
ReduceAdd      == Reduce("add", Add_init(Value(3), Value(1)))
ReduceSub      == Reduce("sub", Sub_init(Value(3), Value(1)))
ReduceCall     == Reduce("call", Call_init(Value(4), Value(2)))
ReduceVar      == Reduce("var", Var_init(Value(1)))

(* These two take the last token that was read for their own. *)
ReduceInt  == Reduce("int", Int_init(yylval.name))
ReduceName == Reduce("name", yylval.name)

(* Mutant: the first argument is put behind the others. *)
AppendName == Reduce("names", Value(1) \o <<Value(2)>>)

ReduceNoNames   == Reduce("noNames", <<>>)
ReduceNames     == Reduce("names", <<Value(2)>> \o Value(1))
ReduceLastName  == Reduce("lastName", <<>>)
ReduceNamescont == Reduce("namescont", <<Value(2)>> \o Value(1))
ReduceNoExprs   == Reduce("noExprs", <<>>)
ReduceExprs     == Reduce("exprs", <<Value(2)>> \o Value(1))
ReduceLastExpr  == Reduce("lastExpr", <<>>)
ReduceExprscont == Reduce("exprscont", <<Value(2)>> \o Value(1))

(* yyerror, in a state in which nothing can be done with the token. *)
SyntaxError ==
  /\ Parsing
  /\ lookahead
  /\ ~MayShift(yylval.type)
  /\ \A rule \in DOMAIN Grammar : ~OnTop(rule)
  /\ ~(Top = "prog" /\ yylval.type = "endOfInput")
  /\ errors' = Append(errors, yylval)
  /\ parse_result' = ParseFail_init(errors')
  /\ UNCHANGED <<symbols, parser_token_idx, lookahead>>

(* Mutant: there is no result if yylex has found an error. *)
AtAcceptWithoutErrors ==
  /\ Parsing
  /\ lookahead
  /\ Top = "prog"
  /\ yylval.type = "endOfInput"
  /\ errors = <<>>

(* yyparse returns to parse, which links the functions unless yylex has found
   an error. *)
AtAccept ==
  /\ Parsing
  /\ lookahead
  /\ Top = "prog"
  /\ yylval.type = "endOfInput"

(* Mutant: the errors that yylex has found do not matter. *)
AcceptAnything ==
  /\ AtAccept
  /\ \E map \in {CompleteFuncMap(Value(1))} :
       parse_result' = ParseSuccess_init([funcs |-> GloballyNamed(map, Value(1)),
                                          func_name_map |-> map,
                                          name_map |-> lexer_result.name_map])
  /\ UNCHANGED <<symbols, parser_token_idx, lookahead, errors>>

Accept ==
  /\ AtAccept
  /\ errors = <<>>
  /\ \E map \in {CompleteFuncMap(Value(1))} :
       parse_result' = ParseSuccess_init([funcs |-> GloballyNamed(map, Value(1)),
                                          func_name_map |-> map,
                                          name_map |-> lexer_result.name_map])
  /\ UNCHANGED <<symbols, parser_token_idx, lookahead, errors>>

AcceptWithErrors ==
  /\ AtAccept
  /\ errors # <<>>
  /\ parse_result' = ParseFail_init(errors)
  /\ UNCHANGED <<symbols, parser_token_idx, lookahead, errors>>

ParserNext ==
  \/ ReadToken \/ SkipErrorToken \/ Shift
  \/ ReduceProg \/ ReduceFunc \/ ReduceFuncs \/ ReduceLastFunc
  \/ ReduceWhile \/ ReduceAssign \/ ReduceComp \/ ReduceReturn
  \/ ReduceInt \/ ReduceAdd \/ ReduceSub \/ ReduceCall \/ ReduceVar \/ ReduceName
  \/ ReduceNoNames \/ ReduceNames \/ ReduceLastName \/ ReduceNamescont
  \/ ReduceNoExprs \/ ReduceExprs \/ ReduceLastExpr \/ ReduceExprscont
  \/ SyntaxError \/ Accept \/ AcceptWithErrors

FrontEndInit == LexInit /\ ParserInit

FrontEndNext ==
  \/ LexNext /\ UNCHANGED parserVars
  \/ ParserNext /\ UNCHANGED lexerVars

FrontEndSpec == FrontEndInit /\ [][FrontEndNext]_frontEndVars

(* One thread, which goes on while it can. *)
FairFrontEndSpec == FrontEndSpec /\ WF_frontEndVars(FrontEndNext)

(* ------------------------------ Properties ----------------------------- *)
Parsed == parse_result.type = "parseSuccess"
Failed == parse_result.type = "parseFail"

Nonterminal == {Grammar[rule].lhs : rule \in DOMAIN Grammar}

ParserTypeOK ==
  /\ LexTypeOK
  /\ \A i \in DOMAIN symbols : symbols[i].sym \in TokenType \cup Nonterminal
  /\ parser_token_idx \in -1 .. Len(parser_tokens) - 1
  /\ lookahead \in BOOLEAN
  /\ lookahead => parser_token_idx >= 0 /\ yylval.type # "error"
  /\ errors \in Seq(Token)
  /\ Parsed => errors = <<>>
  /\ Failed => parse_result.errors = errors /\ errors # <<>>

(* A variable has one index in its function, and the arguments have the first
   ones in their order (func rule, lease_name): the local names are different
   but for arguments that are given twice. *)
VariablesAreDistinct ==
  Parsed =>
    \A k \in DOMAIN parse_result.prog.funcs :
      LET func == parse_result.prog.funcs[k]
          names == func.local_name_map
      IN  \A i, j \in DOMAIN names :
            i < j /\ names[i] = names[j] => j <= func.num_args

(* "Link the function names in the bodies of the function to the corresponding
   function name map values, so that function calls can directly index into
   the Prog's FuncVector" (parser.y:525): the name in a call is the position of
   a function of that name, and is no position if there is none. *)
Linked(prog) ==
  LET NameOf(i) == prog.func_name_map[prog.funcs[i].name + 1]
  IN  \A k \in DOMAIN prog.funcs : \A callee \in CalleesOf(prog.funcs[k].body) :
        LET called == {i \in DOMAIN prog.funcs :
                         NameOf(i) = prog.func_name_map[callee + 1]}
        IN  IF called = {} THEN callee >= Len(prog.funcs) ELSE callee + 1 \in called

CallsReachTheirFunction == Parsed => Linked(parse_result.prog)

(* It is so if no two functions have the same name. *)
NamesOnce(prog) ==
  \A i, j \in DOMAIN prog.funcs : prog.funcs[i].name = prog.funcs[j].name => i = j

CallsReachTheirFunctionIfNamedOnce ==
  Parsed /\ NamesOnce(parse_result.prog) => Linked(parse_result.prog)

(* parse returns for every file: no state of the machine is without a step. *)
ParserEnds == <>(parse_result # Pending)
=============================================================================
