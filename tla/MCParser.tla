------------------------------ MODULE MCParser ------------------------------
(* The front end on files that parse, and on files with one mistake. *)
EXTENDS Language, TestingPrograms, TLC

MCLiterals == "0" :> 0 @@ "1" :> 1 @@ "2" :> 2 @@ "10" :> 10 @@ "20" :> 20

Infix(lefts, op, rights) == {l \o <<op>> \o r : l \in lefts, r \in rights}
Returning(exprs) == {<<"return">> \o e : e \in exprs}
Assigning(var, exprs) == {<<var, ":=">> \o e : e \in exprs}
While(guards, bodies) ==
  {<<"while">> \o g \o <<"do", "{">> \o b \o <<"}">> : g \in guards, b \in bodies}
Call(f, args) == <<f, "(">> \o args \o <<")">>
Func(name, args, body) == Call(name, args) \o <<"{">> \o body \o <<"}">>

Operands == { <<"20">>, <<"a">>, <<"b">>, Call("f", <<>>), Call("g", <<"a", ",", "b">>) }
Sums == Infix(Operands, "-", { <<"a">>, <<"1">> })
Exprs ==
  Operands \cup Sums \cup Infix({ <<"2">>, <<"b">> }, "+", Sums)
    \cup {Call("f", s \o <<",">> \o Call("f", <<"b">>) \o <<",", "1">>) : s \in Sums}

Comms ==
  Returning(Exprs) \cup Assigning("b", Sums)
    \cup While({ <<"a">>, <<"b", "-", "1">> }, Assigning("a", Operands))

Bodies ==
  Comms
    \cup Infix(Assigning("b", Operands), ";", Returning({ <<"b">>, <<"c">> }))
    \cup Infix(While({ <<"b">> }, Infix(Assigning("c", { <<"1">> }), ";", Returning({ <<"a">> }))), ";",
               Infix(Assigning("c", { <<"a">> }), ";", Returning({ <<"c">> })))

ArgLists == { <<>>, <<"a">>, <<"b", ",", "a">>, <<"a", ",", "a">>, <<"c", ",", "b", ",", "a">> }

(* Every body in main, and every list of arguments. *)
SingleFunctions ==
  {Func("main", <<"a">>, body) : body \in Bodies}
    \cup {Func("main", args, <<"b", ":=", "c", ";", "return", "a">>) : args \in ArgLists}

(* Functions that call each other in any order, themselves, and none. *)
Calling(name, callee) == Func(name, <<"b">>, <<"return">> \o Call(callee, <<"b">>))
Names == {"f", "g"}
Callable == {"main", "f", "g", "h"}
SeveralFunctions ==
  {Calling("main", c1) \o Calling(n2, c2) : c1 \in Callable, n2 \in Names, c2 \in Callable}
    \cup {Calling("main", c1) \o Calling(n2, "a") \o Calling(n3, c3) :
            c1 \in Callable, n2 \in Names, n3 \in Names \cup {"main"}, c3 \in Callable}
    \cup {Calling("main", "g") \o Calling("f", "f") \o Calling(n, "g") \o Calling("g", "f") :
            n \in {"f", "h"}}

(* One word missing, repeated, replaced by one of each kind, or exchanged
   with the next. *)
Damaged(words) ==
  LET Prefix(i) == SubSeq(words, 1, i - 1)
      Suffix(i) == SubSeq(words, i + 1, Len(words))
  IN  {Prefix(i) \o Suffix(i) : i \in DOMAIN words}
        \cup {Prefix(i) \o <<words[i]>> \o <<words[i]>> \o Suffix(i) : i \in DOMAIN words}
        \cup {Prefix(i) \o <<w>> \o Suffix(i) :
                i \in DOMAIN words,
                w \in {"*", "(", ")", "{", "}", ",", ";", ":=", "+", "do", "while", "return", "a", "1"}}
        \cup {Prefix(i) \o <<words[i + 1], words[i]>> \o Suffix(i + 1) :
                i \in 1 .. Len(words) - 1}

ToDamage ==
  { Func("main", <<"a", ",", "b">>,
         <<"while", "a", "do", "{", "b", ":=", "f", "(", "1", "-", "a", ",", "2", ")", "}", ";", "return", "b">>)
      \o Calling("f", "main") }

(* The texts of testing_programs.c and examples/fibonacci, with their trees. *)
Texts ==
  << [words |-> Func("main", <<>>, <<"return", "10">>), prog |-> tp0],
     [words |-> Func("main", <<"a">>, <<"return", "a">>), prog |-> tp1],
     [words |-> Func("main", <<"a", ",", "b">>, <<"return", "a", "+", "b">>), prog |-> tp2],
     [words |-> Func("main", <<"a", ",", "b">>, <<"return", "a", "-", "b">>), prog |-> tp3],
     [words |-> Func("main", <<"a">>, <<"a", ":=", "a", "+", "1", ";", "return", "a">>), prog |-> tp4],
     [words |-> Func("main", <<"a", ",", "b">>,
                  <<"c", ":=", "a", ";", "while", "b", "-", "1", "do", "{",
                    "b", ":=", "b", "-", "1", ";", "a", ":=", "a", "+", "c", "}", ";",
                    "return", "a">>), prog |-> tp5],
     [words |-> Func("main", <<"a">>, <<"return", "foo", "(", "a", ")", "+", "a">>)
             \o Func("foo", <<"a">>, <<"return", "a", "+", "10">>), prog |-> tp6],
     [words |-> Func("main", <<"a">>, <<"return", "fib", "(", "a", ")">>)
             \o Func("fib", <<"a">>,
                  <<"while", "a", "-", "1", "do", "{", "return",
                    "fib", "(", "a", "-", "1", ")", "+", "fib", "(", "a", "-", "2", ")", "}", ";",
                    "while", "a", "do", "{", "return", "1", "}", ";", "return", "0">>),
      prog |-> fibonacci] >>

MCSources ==
  SingleFunctions \cup SeveralFunctions \cup UNION {Damaged(words) : words \in ToDamage}
    \cup {Texts[i].words : i \in DOMAIN Texts} \cup { <<>> }

(* A product, and a program without main. *)
DocumentedSources ==
  { Func("main", <<"a">>, <<"return", "2", "*", "a">>), Func("f", <<"a">>, <<"return", "a">>) }

(* Terms are walked through as the proofs take it: here the bodies of those programs and
   what is in them, and some maps. *)
RECURSIVE Within(_)
Within(term) == {term} \cup UNION {Within(Subterms(term)[i]) : i \in DOMAIN Subterms(term)}
TermsOfTexts ==
  UNION {UNION {Within(Texts[i].prog[k].body) : k \in DOMAIN Texts[i].prog} : i \in DOMAIN Texts}
ASSUME TermsAreWalkedThrough ==
  WalkThrough(TermsOfTexts, UNION {[0 .. n -> 5 .. 6] : n \in 3 .. 4})

(* The test programs parse to the trees that the other modules compile and
   interpret in their place (testing_programs.c, TestingPrograms). *)
TestProgramsParse ==
  \A i \in DOMAIN Texts :
    source = Texts[i].words /\ parse_result # Pending =>
      Parsed /\ Functions(parse_result.prog.funcs) = Texts[i].prog
=============================================================================
